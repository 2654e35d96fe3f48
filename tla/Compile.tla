------------------------------ MODULE Compile ------------------------------
(***************************************************************************)
(* onCompile of cmd/addie/main.go: the check of package sema, then the     *)
(* simulation source (package sim), the topology (package deter), the DNS  *)
(* configurations and the router charts, each made in passes over the map  *)
(* design.Elements, and written to a file.                                 *)
(*                                                                         *)
(* The handlers of updates and deletes change the map meanwhile (Edit):    *)
(* no lock is held, and an endpoint is looked up when a pass comes to the  *)
(* element that refers to it.  A pass visits the elements in any order; it *)
(* may or may not come to one that is added during it.                     *)
(*                                                                         *)
(* An identity is a name, a system and a design; what is generated mostly  *)
(* has the name alone, which identities of two systems may share.          *)
(*                                                                         *)
(* The text of a Sax is a sequence of the parts that ";" separates, a part *)
(* a sequence of entries name(number); n.by says which of the expressions  *)
(* of sema and of sim accept the entry.  A list of bindings may end in a   *)
(* comma that sema takes away and sim does not (trailing).                 *)
(***************************************************************************)
EXTENDS Naturals, Sequences, FiniteSets, SequencesExt

CONSTANTS
  Id,        \* identities, all of one design,
  Name,      \*   their names,
  Label,     \*   and of each its name up to the first dot
  None,      \* no element, no file
  Designs,   \* what the design may be at the start
  Versions(_), \* what an identity may be changed to
  MaxEdits,  \* bound: changes of the design
  MaxCompiles, \* bound: compilations
  MaxLost    \* bound: files that a compilation cannot write

VARIABLES
  design,      \* design.Elements
  edits,       \* changes so far,
  compiles,    \*   and compilations
  pc,          \* pass of the compilation that runs
  todo,        \* what the pass has yet to visit
  later,       \* plinks, or links, the pass put aside
  faulty,      \* diagnostics.Fatal()
  src,         \* simulation source: objects and lines
  xp,          \* topology: computers, and names of the substrates
  clients,     \* clients of the DNS server
  charts,      \* charts of the routers
  files,       \* what is on disk
  answer,      \* outcome of the last compilation
  steady,      \* the design has not changed since it began,
  lost         \*   and these files it could not write

vars == <<design, edits, compiles, pc, todo, later, faulty, src, xp, clients, charts,
          files, answer, steady, lost>>
made == <<src, xp, clients, charts>>

Hosts == {"Computer", "Router", "Sax"}
Kinds == Hosts \cup {"Switch", "Link", "Plink", "Phyo"}
Walks == {"check", "objects", "hosts", "dns", "route"}
Passes == Walks \cup {"lines", "cys", "links", "topdl", "spec", "keys", "charts"}

Text == Seq(Seq([var : STRING, by : SUBSET {"sema", "sim"}]))
Interfaces == { ifs \in SUBSET STRING : IsFiniteSet(ifs) }
Element ==
       [kind : {"Computer", "Router"}, ifs : Interfaces]
  \cup [kind : {"Sax"}, ifs : Interfaces, sense : Text, actuate : Text]
  \cup [kind : {"Switch", "Phyo"}]
  \cup [kind : {"Link"}, ends : [1..2 -> [id : Id, ifname : STRING]]]
  \cup [kind : {"Plink"}, ends : [1..2 -> Id],
        binds : [1..2 -> [vars : Seq(STRING), trailing : BOOLEAN]]]

ASSUME BoundsAssumption == {MaxEdits, MaxCompiles, MaxLost} \subseteq Nat
(* The text of an identity, which charts are filed under, is of one only;  *)
(* and the key of a host does not take the place of the specification of   *)
(* the server, server_spec.json.                                           *)
ASSUME NameAssumption ==
  /\ Name \in [Id -> STRING] /\ Label \in [Id -> STRING]
  /\ \A i, j \in Id : Name[i] = Name[j] => Label[i] = Label[j]
  /\ \A i \in Id : Label[i] # "server_spec"
ASSUME DesignsAssumption ==
  /\ Designs \subseteq [Id -> Element \cup {None}]
  /\ \A i \in Id : Versions(i) \subseteq Element
  /\ None \notin Element

NoSource == [objects |-> {}, lines |-> {}]
NoTopology == [computers |-> [i \in {} |-> << >>], substrates |-> {}]
NoCharts == [i \in {} |-> << >>]
NoKeys == [n \in {} |-> None]

Init ==
  /\ design \in Designs
  /\ edits = 0 /\ compiles = 0
  /\ pc = "idle" /\ todo = {} /\ later = {}
  /\ faulty = FALSE
  /\ src = NoSource /\ xp = NoTopology
  /\ clients = {} /\ charts = NoCharts
  /\ files = [cys |-> None, topdl |-> None,
              dns |-> [clients |-> {}, keyed |-> NoKeys], route |-> NoCharts]
  /\ answer = "none"
  /\ steady = FALSE /\ lost = {}

Is(i, kinds) == design[i] # None /\ design[i].kind \in kinds
Present == { i \in Id : design[i] # None }

---------------------------------------------------------------------------
(* Other handlers, and the passes over what they change.                   *)

Edit(i, e) ==
  /\ edits < MaxEdits /\ design[i] # e
  /\ edits' = edits + 1
  /\ design' = [design EXCEPT ![i] = e]
  /\ todo' \in IF pc \notin Walks THEN {todo}
              ELSE IF e = None THEN {todo \ {i}}
              ELSE {todo, todo \cup ({i} \ Present)}
  /\ steady' = FALSE
  /\ UNCHANGED <<compiles, pc, later, faulty, made, files, answer, lost>>

Visit(pass, kinds, i) ==
  /\ pc = pass /\ i \in todo /\ Is(i, kinds)
  /\ todo' = todo \ {i}
  /\ UNCHANGED <<design, edits, compiles, pc, files, answer, steady, lost>>

Walked(pass, kinds) ==
  /\ pc = pass
  /\ \A i \in todo : ~Is(i, kinds)

To(pass) ==
  /\ pc' = pass
  /\ todo' = IF pass \in Walks THEN Present ELSE {}
  /\ UNCHANGED <<design, edits, compiles, steady>>

Ends(outcome) ==
  /\ answer' = outcome
  /\ pc' = "idle" /\ todo' = {} /\ later' = {} /\ faulty' = FALSE
  /\ src' = NoSource /\ xp' = NoTopology
  /\ clients' = {} /\ charts' = NoCharts
  /\ UNCHANGED <<design, edits, compiles, steady>>

(* net/http recovers: the connection is closed, the process lives on.      *)
Panic == Ends("panic") /\ UNCHANGED <<files, lost>>

Write(file, content) ==
  \/ files' = [files EXCEPT ![file] = content] /\ UNCHANGED lost
  \/ /\ Cardinality(lost) < MaxLost
     /\ lost' = lost \cup {file}
     /\ UNCHANGED files

---------------------------------------------------------------------------
(* sema.Check *)

OnCompile ==
  /\ pc = "idle" /\ compiles < MaxCompiles
  /\ compiles' = compiles + 1
  /\ pc' = "check" /\ todo' = Present
  /\ answer' = "none" /\ steady' = TRUE /\ lost' = {}
  /\ UNCHANGED <<design, edits, later, faulty, made, files>>

Entries(s) == UNION { ToSet(part) : part \in ToSet(s.sense \o s.actuate) }

(* Mutant: the numbers are looked at, what is bound is not.                *)
RatesFaulty(bs, s) == \E n \in Entries(s) : "sema" \notin n.by

SaxFaulty(bs, s) ==
  \/ \E n \in Entries(s) : "sema" \notin n.by
  \/ \E b \in ToSet(bs) : \A n \in Entries(s) : n.var # b

EndpointFaulty(i, b) ==
  \/ design[i] = None
  \/ Is(i, {"Sax"}) /\ SaxFaulty(b.vars, design[i])

(* Mutant: only the first end of a plink is checked.                       *)
FirstEndFaulty(p) == EndpointFaulty(p.ends[1], p.binds[1])

PlinkFaulty(p) == \E k \in 1..2 : EndpointFaulty(p.ends[k], p.binds[k])

CheckPlink(i) ==
  /\ Visit("check", {"Plink"}, i)
  /\ faulty' = (faulty \/ PlinkFaulty(design[i]))
  /\ UNCHANGED <<later, made>>

Checked ==
  /\ Walked("check", {"Plink"})
  /\ \/ faulty /\ Ends("errors")
     \/ ~faulty /\ To("objects") /\ UNCHANGED <<later, faulty, made, answer>>
  /\ UNCHANGED <<files, lost>>

---------------------------------------------------------------------------
(* sim.GenerateSource *)

NoVar == "no match"
Sees(part) ==
  LET read == { k \in DOMAIN part : "sim" \in part[k].by }
  IN IF read = {} THEN NoVar ELSE part[Min(read)].var
Unreadable(text) == \E part \in ToSet(text) : Sees(part) = NoVar

ContainsVar(text, v) ==
  \E k \in DOMAIN text : /\ Sees(text[k]) = v
                         /\ ~Unreadable(SubSeq(text, 1, k - 1))

SaxObjects(i, s) ==
       { <<Name[i], "sensor", Sees(part)>> : part \in ToSet(s.sense) }
  \cup { <<Name[i], "actuator", Sees(part)>> : part \in ToSet(s.actuate) }

PhyoSrc(i) ==
  /\ Visit("objects", {"Phyo"}, i)
  /\ src' = [src EXCEPT !.objects = @ \cup {<<Name[i], "phyo", "all">>}]
  /\ UNCHANGED <<later, faulty, xp, clients, charts>>

SaxSrc(i) ==
  /\ Visit("objects", {"Sax"}, i)
  /\ ~Unreadable(design[i].sense \o design[i].actuate)
  /\ src' = [src EXCEPT !.objects = @ \cup SaxObjects(i, design[i])]
  /\ UNCHANGED <<later, faulty, xp, clients, charts>>

SaxPanics(i) ==
  /\ pc = "objects" /\ i \in todo /\ Is(i, {"Sax"})
  /\ Unreadable(design[i].sense \o design[i].actuate)
  /\ Panic

KeepPlink(i) ==
  /\ Visit("objects", {"Plink"}, i)
  /\ later' = later \cup {<<i, design[i]>>}
  /\ UNCHANGED <<faulty, made>>

ObjectsDone ==
  /\ Walked("objects", {"Phyo", "Sax", "Plink"})
  /\ To("lines")
  /\ UNCHANGED <<later, faulty, made, files, answer, lost>>

GenVars(b) == IF b.trailing THEN Append(b.vars, "") ELSE b.vars

SaxStuck(s, v) ==
  /\ ~ContainsVar(s.sense, v)
  /\ \/ Unreadable(s.sense)
     \/ ~ContainsVar(s.actuate, v) /\ Unreadable(s.actuate)

Role(s, v) ==
  IF ContainsVar(s.sense, v) THEN "sensor"
  ELSE IF ContainsVar(s.actuate, v) THEN "actuator" ELSE "unknown"

Term(i, v) == <<Name[i], IF Is(i, {"Sax"}) THEN Role(design[i], v) ELSE "phyo", v>>

PlinkStuck(p) ==
  LET vars1 == GenVars(p.binds[1])  vars2 == GenVars(p.binds[2]) IN
  \/ \E k \in 1..2 : design[p.ends[k]] = None
  \/ Len(vars1) > Len(vars2)
  \/ \E k \in DOMAIN vars1 \cap DOMAIN vars2 :
       \/ Is(p.ends[1], {"Sax"}) /\ SaxStuck(design[p.ends[1]], vars1[k])
       \/ Is(p.ends[2], {"Sax"}) /\ SaxStuck(design[p.ends[2]], vars2[k])

PlinkLines(p) ==
  LET vars1 == GenVars(p.binds[1])  vars2 == GenVars(p.binds[2]) IN
  { <<Term(p.ends[1], vars1[k]), Term(p.ends[2], vars2[k])>> :
    k \in DOMAIN vars1 }

PlinkSrc(ip) ==
  /\ pc = "lines"
  /\ \/ /\ PlinkStuck(ip[2])
        /\ Panic
     \/ /\ ~PlinkStuck(ip[2])
        /\ src' = [src EXCEPT !.lines = @ \cup PlinkLines(ip[2])]
        /\ later' = later \ {ip}
        /\ UNCHANGED <<design, edits, compiles, pc, todo, faulty, xp, clients, charts,
                       files, answer, steady, lost>>

LinesDone ==
  /\ pc = "lines" /\ later = {}
  /\ To("cys")
  /\ UNCHANGED <<later, faulty, made, files, answer, lost>>

WriteCys ==
  /\ pc = "cys"
  /\ Write("cys", src)
  /\ To("hosts")
  /\ UNCHANGED <<later, faulty, made, answer>>

---------------------------------------------------------------------------
(* deter.DesignTopDL *)

Ifx(n, ss) == [name |-> n, substrate |-> ss]
Todo(ifs) == LET ns == SetToSeq(ifs) IN [k \in DOMAIN ns |-> Ifx(ns[k], "TODO")]

FirstRouter ==
  \A i \in DOMAIN xp.computers :
    Ifx("ifx", "dnslink") \notin ToSet(xp.computers[i].interfaces)

Ifaces(i) ==
  CASE Is(i, {"Sax"}) -> <<Ifx("eth0", "krynet")>> \o Todo(design[i].ifs)
    [] Is(i, {"Router"}) /\ FirstRouter ->
         Append(Todo(design[i].ifs), Ifx("ifx", "dnslink"))
    [] OTHER -> Todo(design[i].ifs)

(* A computer of the topology has the name; the identity it was made of    *)
(* stands for its place in the list, which cMap knows.                     *)
Comp(i) == [name |-> Name[i], interfaces |-> Ifaces(i)]

With(f, i, v) == [j \in DOMAIN f \cup {i} |-> IF j = i THEN v ELSE f[j]]

AddComp(i) ==
  /\ Visit("hosts", Hosts, i)
  /\ xp' = [xp EXCEPT !.computers = With(@, i, Comp(i))]
  /\ UNCHANGED <<later, faulty, src, clients, charts>>

AddSwitch(i) ==
  /\ Visit("hosts", {"Switch"}, i)
  /\ xp' = [xp EXCEPT !.substrates = @ \cup {Name[i]}]
  /\ UNCHANGED <<later, faulty, src, clients, charts>>

KeepLink(i) ==
  /\ Visit("hosts", {"Link"}, i)
  /\ later' = later \cup {<<i, design[i]>>}
  /\ UNCHANGED <<faulty, made>>

HostsDone ==
  /\ Walked("hosts", Hosts \cup {"Switch", "Link"})
  /\ To("links")
  /\ xp' = [xp EXCEPT !.substrates = @ \cup {"krynet", "dnslink"}]
  /\ UNCHANGED <<later, faulty, src, clients, charts, files, answer, lost>>

UpdateIfxSubstrate(ifs, n, ss) ==
  LET named == { k \in DOMAIN ifs : ifs[k].name = n } IN
  [k \in DOMAIN ifs |-> IF k \in named /\ \A j \in named : k <= j
                          THEN Ifx(n, ss) ELSE ifs[k]]

UpdateEndpoint(computers, end, ss) ==
  [computers EXCEPT ![end.id].interfaces = UpdateIfxSubstrate(@, end.ifname, ss)]

Dangling(l) == \E k \in 1..2 : design[l.ends[k].id] = None
HostEnds(l) == { k \in 1..2 : Is(l.ends[k].id, Hosts) }

LinkStuck(l) ==
  /\ ~Dangling(l)
  /\ \E k \in HostEnds(l) :
       \/ ~Is(l.ends[3 - k].id, Hosts \cup {"Switch"})
       \/ l.ends[k].id \notin DOMAIN xp.computers

(* Mutant: the interface at a switch goes on a substrate of the link.      *)
LinkedApart(i, l) ==
  IF Dangling(l) \/ HostEnds(l) = {} THEN xp
  ELSE IF HostEnds(l) = 1..2 THEN
         [computers  |-> UpdateEndpoint(UpdateEndpoint(
                           xp.computers, l.ends[1], Name[i]), l.ends[2], Name[i]),
          substrates |-> xp.substrates \cup {Name[i]}]
  ELSE LET k == CHOOSE k \in 1..2 : k \in HostEnds(l) IN
         [xp EXCEPT !.computers = UpdateEndpoint(@, l.ends[k], Name[i])]

Linked(i, l) ==
  IF Dangling(l) \/ HostEnds(l) = {} THEN xp
  ELSE IF HostEnds(l) = 1..2 THEN
         [computers  |-> UpdateEndpoint(UpdateEndpoint(
                           xp.computers, l.ends[1], Name[i]), l.ends[2], Name[i]),
          substrates |-> xp.substrates \cup {Name[i]}]
  ELSE LET k == CHOOSE k \in 1..2 : k \in HostEnds(l) IN
         [xp EXCEPT !.computers = UpdateEndpoint(@, l.ends[k], Name[l.ends[3 - k].id])]

LinkSubstrate(il) ==
  /\ pc = "links"
  /\ \/ /\ LinkStuck(il[2])
        /\ Panic
     \/ /\ ~LinkStuck(il[2])
        /\ xp' = Linked(il[1], il[2])
        /\ later' = later \ {il}
        /\ UNCHANGED <<design, edits, compiles, pc, todo, faulty, src, clients, charts,
                       files, answer, steady, lost>>

LinksDone ==
  /\ pc = "links" /\ later = {}
  /\ To("topdl")
  /\ UNCHANGED <<later, faulty, made, files, answer, lost>>

WriteTopDL ==
  /\ pc = "topdl"
  /\ Write("topdl", xp)
  /\ To("dns")
  /\ UNCHANGED <<later, faulty, made, answer>>

---------------------------------------------------------------------------
(* generateDnsServerConfig; an error, of Keygen too, only ends this part.  *)

AddClient(i) ==
  /\ Visit("dns", {"Computer", "Sax"}, i)
  /\ clients' = clients \cup {i}
  /\ UNCHANGED <<later, faulty, src, xp, charts>>

ClientsDone ==
  /\ Walked("dns", {"Computer", "Sax"})
  /\ To("spec")
  /\ UNCHANGED <<later, faulty, made, files, answer, lost>>

(* Every compilation makes new keys: those on disk are then of no use.     *)
(* The key made for a host is known by the host; its file is named by the  *)
(* host's domain name up to the first dot.                                 *)
WriteSpec ==
  /\ pc = "spec"
  /\ Write("dns", [clients |-> clients, keyed |-> NoKeys])
  /\ IF "dns" \in lost' THEN To("route")
       ELSE /\ pc' = "keys" /\ todo' = clients
            /\ UNCHANGED <<design, edits, compiles, steady>>
  /\ UNCHANGED <<later, faulty, made, answer>>

WriteKey(i) ==
  /\ pc = "keys" /\ i \in todo
  /\ Write("dns", [files.dns EXCEPT !.keyed = With(@, Label[i], i)])
  /\ todo' = IF "dns" \in lost' THEN {} ELSE todo \ {i}
  /\ UNCHANGED <<design, edits, compiles, pc, later, faulty, made, answer, steady>>

KeysDone ==
  /\ pc = "keys" /\ todo = {}
  /\ To("route")
  /\ UNCHANGED <<later, faulty, made, files, answer, lost>>

---------------------------------------------------------------------------
(* generateRouterConfigs *)

SwitchConnections(s) ==
  { j \in Id : \E i \in Id, k \in 1..2 :
      Is(i, {"Link"}) /\ design[i].ends[k].id = s /\ design[i].ends[3 - k].id = j }

(* Mutant: the router itself is not passed over.                           *)
AnyDownstream(r, x) ==
  CASE Is(x, {"Computer", "Sax"}) -> {<<Name[x]>>}
    [] Is(x, {"Switch"})          -> { <<Name[o]>> : o \in SwitchConnections(x) }
    [] OTHER                      -> {<< >>}

(* Of what is on a switch, the first that is not the router.               *)
Downstream(r, x) ==
  LET others == SwitchConnections(x) \ {r} IN
  CASE Is(x, {"Computer", "Sax"})           -> {<<Name[x]>>}
    [] Is(x, {"Switch"}) /\ others # {}     -> { <<Name[o]>> : o \in others }
    [] OTHER                                -> {<< >>}

NewChart(cs) == [id |-> Cardinality(DOMAIN cs) + 1, peers |-> << >>, downstream |-> << >>]

Chart(cs, r, x, down) ==
  LET ch == IF r \in DOMAIN cs THEN cs[r] ELSE NewChart(cs) IN
  [ch EXCEPT !.peers = IF Is(x, {"Router"}) THEN Append(@, Name[x]) ELSE @,
             !.downstream = @ \o down]

UpdateCharts(cs, r, x) ==
  IF Is(r, {"Router"})
    THEN { With(cs, r, Chart(cs, r, x, down)) : down \in Downstream(r, x) }
    ELSE {cs}

ChartLink(i) ==
  LET a == design[i].ends[1].id  b == design[i].ends[2].id IN
  /\ Visit("route", {"Link"}, i)
  /\ charts' \in UNION { UpdateCharts(cs, b, a) : cs \in UpdateCharts(charts, a, b) }
  /\ UNCHANGED <<later, faulty, src, xp, clients>>

LinksCharted ==
  /\ Walked("route", {"Link"})
  /\ pc' = "charts" /\ todo' = DOMAIN charts
  /\ UNCHANGED <<design, edits, compiles, later, faulty, made, files, answer, steady, lost>>

(* The error of a chart that is not written is made and dropped.           *)
WriteChart(r) ==
  /\ pc = "charts" /\ r \in todo
  /\ todo' = todo \ {r}
  /\ Write("route", With(files.route, r, charts[r]))
  /\ UNCHANGED <<design, edits, compiles, pc, later, faulty, made, answer, steady>>

Answer ==
  /\ pc = "charts" /\ todo = {}
  /\ Ends("success")
  /\ UNCHANGED <<files, lost>>

(* A death of the process; the file it was at may be left cut short.       *)
Die ==
  /\ pc # "idle"
  /\ Ends("none")
  /\ files' \in {files} \cup { [files EXCEPT ![f] = None] : f \in {"cys", "topdl"} \cap {pc} }
  /\ UNCHANGED lost

Next ==
  \/ \E i \in Id : \E e \in Versions(i) \cup {None} : Edit(i, e)
  \/ OnCompile \/ Checked \/ ObjectsDone \/ LinesDone \/ WriteCys
  \/ HostsDone \/ LinksDone \/ WriteTopDL
  \/ ClientsDone \/ WriteSpec \/ KeysDone \/ LinksCharted \/ Answer
  \/ \E i \in Id :
       \/ CheckPlink(i)
       \/ PhyoSrc(i) \/ SaxSrc(i) \/ SaxPanics(i) \/ KeepPlink(i)
       \/ AddComp(i) \/ AddSwitch(i) \/ KeepLink(i)
       \/ AddClient(i) \/ WriteKey(i)
       \/ ChartLink(i) \/ WriteChart(i)
  \/ \E ie \in later : PlinkSrc(ie) \/ LinkSubstrate(ie)
  \/ Die

Spec == Init /\ [][Next]_vars

---------------------------------------------------------------------------
TypeOK ==
  /\ design \in [Id -> Element \cup {None}]
  /\ edits \in 0..MaxEdits /\ compiles \in 0..MaxCompiles
  /\ pc \in Passes \cup {"idle"}
  /\ todo \subseteq Id /\ later \subseteq Id \X Element
  /\ faulty \in BOOLEAN /\ steady \in BOOLEAN
  /\ clients \subseteq Id
  /\ DOMAIN xp.computers \subseteq Id /\ DOMAIN charts \subseteq Id
  /\ answer \in {"none", "errors", "success", "panic"}
  /\ lost \subseteq {"cys", "topdl", "dns", "route"}

---------------------------------------------------------------------------
(* What a compilation leaves of a design nobody changed meanwhile.         *)
Compiled == answer = "success" /\ steady

Plugs == UNION { {i} \X design[i].ifs : i \in { i \in Id : Is(i, Hosts) } }
Links == { i \in Id : Is(i, {"Link"}) }
Plug(l, k) == <<design[l].ends[k].id, design[l].ends[k].ifname>>
On(s) == { Plug(lk[1], lk[2]) : lk \in
           { lk \in Links \X (1..2) : design[lk[1]].ends[3 - lk[2]].id = s } }
Joined(p, q) ==
  \/ \E l \in Links : {Plug(l, 1), Plug(l, 2)} = {p, q}
  \/ \E s \in Id : Is(s, {"Switch"}) /\ {p, q} \subseteq On(s)

(* Every interface is at one link, which leads to another or to a switch;  *)
(* no two hosts have one name, and no two of the links and the switches,   *)
(* which generate a topology by name, nor two clients one name up to its   *)
(* first dot, which their files have; and nothing has the name of what     *)
(* addie adds: of a computer, of the interface of a Sax or of the first    *)
(* router, or of a substrate.                                              *)
Drawable ==
  /\ \A kinds \in {Hosts, {"Link", "Switch"}} : \A i, j \in Id :
       (Is(i, kinds) /\ Is(j, kinds) /\ Name[i] = Name[j]) => i = j
  /\ \A i, j \in Id :
       (Is(i, {"Computer", "Sax"}) /\ Is(j, {"Computer", "Sax"}) /\ Label[i] = Label[j]) => i = j
  /\ \A i \in Id : Is(i, Hosts) => Name[i] \notin {"kry0", "dns"}
  /\ \A i \in Id : Is(i, {"Sax"}) => "eth0" \notin design[i].ifs
  /\ \A i \in Id : Is(i, {"Router"}) => "ifx" \notin design[i].ifs
  /\ \A i \in Id : Is(i, {"Link", "Switch"}) => Name[i] \notin {"krynet", "dnslink"}
  /\ \A p \in Plugs : \E lk \in Links \X (1..2) :
       \A mk \in Links \X (1..2) : Plug(mk[1], mk[2]) = p <=> mk = lk
  /\ \A l \in Links : /\ \A k \in 1..2 : Plug(l, k) \in Plugs \/ Is(design[l].ends[k].id, {"Switch"})
                     /\ \E k \in 1..2 : Plug(l, k) \in Plugs

Named(t, n) == { i \in DOMAIN t.computers : t.computers[i].name = n }
SubstratesOf(t, p) ==
  { x.substrate : x \in
    { x \in UNION { ToSet(t.computers[i].interfaces) : i \in Named(t, Name[p[1]]) } :
      x.name = p[2] } }
OnDns(t) ==
  { i \in DOMAIN t.computers :
    \E x \in ToSet(t.computers[i].interfaces) : x.substrate = "dnslink" }

(* The computers of the topology have the names of the hosts, one each;    *)
(* two interfaces are on one substrate of it, which is declared, exactly   *)
(* if a link or a switch joins them in the design; one router is on that   *)
(* of the DNS server; and all other hosts are its clients, each with the   *)
(* key in a file of its own that the server has for it.                    *)
TopologyMatches ==
  LET t == files.topdl
      hosts == { i \in Id : Is(i, Hosts) }
      clientele == { i \in hosts : ~Is(i, {"Router"}) }
  IN
  (Compiled /\ Drawable /\ lost = {}) =>
    /\ { t.computers[i].name : i \in DOMAIN t.computers } = { Name[i] : i \in hosts }
    /\ \A i \in hosts : \E j \in Id : Named(t, Name[i]) = {j}
    /\ \A p, q \in Plugs : p # q => (SubstratesOf(t, p) = SubstratesOf(t, q) <=> Joined(p, q))
    /\ \A p \in Plugs : SubstratesOf(t, p) \subseteq t.substrates
    /\ \A i, j \in OnDns(t) : i = j
    /\ \A i \in OnDns(t) : \E r \in Id : Is(r, {"Router"}) /\ Name[r] = t.computers[i].name
    /\ OnDns(t) = {} => \A i \in Id : ~Is(i, {"Router"})
    /\ files.dns.clients = clientele
    /\ DOMAIN files.dns.keyed = { Label[i] : i \in clientele }
    /\ \A i \in clientele : files.dns.keyed[Label[i]] = i

(* Each part of the text of a Sax is one entry, and no list of bindings    *)
(* ends in a comma: what sema and sim take for the same.                   *)
Legible(i) ==
  /\ Is(i, {"Sax"}) => \A part \in ToSet(design[i].sense \o design[i].actuate) : Len(part) = 1
  /\ Is(i, {"Plink"}) => \A k \in 1..2 : /\ ~design[i].binds[k].trailing
                                         /\ Is(design[i].ends[k], {"Sax", "Phyo"})

(* Every pair of variables that a plink binds is a line of the source, and *)
(* what the line speaks of is declared by it, under the names of the ends  *)
(* of the plink: a sensor or an actuator of the Sax that the checks looked *)
(* at, or a Phyo.                                                          *)
SourceMatches ==
  (Compiled /\ "cys" \notin lost /\ \A i \in Id : Legible(i)) =>
    \A i \in Id : Is(i, {"Plink"}) =>
      \A n \in DOMAIN design[i].binds[1].vars :
        \E line \in files.cys.lines : \A k \in 1..2 :
          /\ line[k][1] = Name[design[i].ends[k]]
          /\ line[k][3] = design[i].binds[k].vars[n]
          /\ \/ line[k] \in files.cys.objects
             \/ line[k][2] = "phyo" /\ <<line[k][1], "phyo", "all">> \in files.cys.objects

HalfLinks == Links \X (1..2)
Near(lk) == design[lk[1]].ends[3 - lk[2]].id
Far(lk) == design[lk[1]].ends[lk[2]].id
Neighbours(r) == { lk \in HalfLinks : Near(lk) = r }
Beyond(r, lk) ==
  IF Is(Far(lk), {"Computer", "Sax"}) THEN {Name[Far(lk)]}
  ELSE { Name[Far(mk)] : mk \in
         { mk \in HalfLinks : Is(Far(lk), {"Switch"}) /\ Near(mk) = Far(lk) /\ Far(mk) # r } }

(* The chart of a router has each router at the other end of a link as a   *)
(* peer, by its name and as often as there are links to one of that name;  *)
(* each other host there as a host downstream, or one of what else is on a *)
(* switch there; and the charts are numbered from one.                     *)
ChartsMatch ==
  LET linked == { r \in Id : Is(r, {"Router"}) /\ Neighbours(r) # {} }
      peers(r) == files.route[r].peers
      downstream(r) == files.route[r].downstream
  IN
  (Compiled /\ "route" \notin lost) =>
    /\ linked \subseteq DOMAIN files.route
    /\ { files.route[r].id : r \in linked } = 1..Cardinality(linked)
    /\ \A r \in linked :
         /\ \A x \in Id : Cardinality({ n \in DOMAIN peers(r) : peers(r)[n] = Name[x] }) =
              Cardinality({ lk \in Neighbours(r) : Is(Far(lk), {"Router"})
                                                  /\ Name[Far(lk)] = Name[x] })
         /\ Len(downstream(r)) = Cardinality({ lk \in Neighbours(r) : Beyond(r, lk) # {} })
         /\ \A n \in DOMAIN downstream(r) :
              \E lk \in Neighbours(r) : downstream(r)[n] \in Beyond(r, lk)
         /\ \A lk \in Neighbours(r) : Beyond(r, lk) # {} =>
              \E n \in DOMAIN downstream(r) : downstream(r)[n] \in Beyond(r, lk)

(* Of a design nobody changes, only what sema does not look at makes the   *)
(* generators panic: a text of a Sax without an entry, a list of bindings  *)
(* longer than the other, a link of a host to neither host nor switch.     *)
Unchecked(i) ==
  \/ Is(i, {"Sax"}) /\ Unreadable(design[i].sense \o design[i].actuate)
  \/ Is(i, {"Plink"}) /\ Len(GenVars(design[i].binds[1])) > Len(GenVars(design[i].binds[2]))
  \/ Is(i, {"Link"}) /\ \E k \in 1..2 :
       /\ Is(design[i].ends[k].id, Hosts)
       /\ Is(design[i].ends[3 - k].id, Kinds \ (Hosts \cup {"Switch"}))
PanicsExplained ==
  (answer = "panic" /\ steady) => \E i \in Id : Unchecked(i)

(* "We are assuming that the models and design have already been           *)
(* semantically checked": what the check lets pass, the generators take.   *)
CheckedCompiles == ~(answer = "panic" /\ steady)
===============================================================================
