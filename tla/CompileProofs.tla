--------------------------- MODULE CompileProofs ---------------------------
(* Of Compile: its types; that a compilation of a design nobody changes    *)
(* meanwhile only panics over what the check does not look at; and that    *)
(* the simulation source then says what the plinks of the design say, and  *)
(* the topology and the charts what its links say.                         *)
EXTENDS Compile, FiniteSetTheorems, SequenceTheorems, TLAPS

(* What is filled in while a compilation runs.                             *)
MadeOK ==
  /\ later \subseteq Id \X Element
  /\ faulty \in BOOLEAN
  /\ clients \subseteq Id
  /\ DOMAIN xp = {"computers", "substrates"} /\ DOMAIN xp.computers \subseteq Id
  /\ DOMAIN charts \subseteq Id

ControlOK ==
  /\ design \in [Id -> Element \cup {None}]
  /\ edits \in 0..MaxEdits /\ compiles \in 0..MaxCompiles
  /\ pc \in Passes \cup {"idle"}
  /\ todo \subseteq Id
  /\ steady \in BOOLEAN
  /\ answer \in {"none", "errors", "success", "panic"}
  /\ lost \subseteq {"cys", "topdl", "dns", "route"}

Typed == MadeOK /\ ControlOK

(* What is put aside is put aside by a pass for the next one.              *)
Aside ==
  /\ pc \notin {"objects", "lines", "hosts", "links"} => later = {}
  /\ steady /\ pc \in {"objects", "lines"} =>
       \A ip \in later : ip[1] \in Id /\ ip[2] = design[ip[1]] /\ Is(ip[1], {"Plink"})
  /\ steady /\ pc \in {"hosts", "links"} =>
       \A il \in later : il[1] \in Id /\ il[2] = design[il[1]] /\ Is(il[1], {"Link"})

(* The check has found what is faulty of the plinks it has been at, and    *)
(* the generators are not begun if there is anything.                      *)
Diagnosed ==
  /\ steady /\ pc = "check" /\ ~faulty =>
       \A i \in Id \ todo : Is(i, {"Plink"}) => ~PlinkFaulty(design[i])
  /\ steady /\ pc \in {"objects", "lines"} =>
       \A i \in Id : Is(i, {"Plink"}) => ~PlinkFaulty(design[i])

(* The hosts that have been visited have a computer in the topology.       *)
Housed ==
  /\ steady /\ pc = "hosts" => \A i \in Id \ todo : Is(i, Hosts) => i \in DOMAIN xp.computers
  /\ steady /\ pc = "links" => \A i \in Id : Is(i, Hosts) => i \in DOMAIN xp.computers

Sound == Aside /\ Diagnosed /\ Housed /\ PanicsExplained

(* What an element of a kind consists of.                                  *)
LEMMA KindsOfElements ==
  ASSUME NEW e \in Element
  PROVE  /\ e.kind \in Kinds
         /\ e.kind = "Sax" => e.sense \in Text /\ e.actuate \in Text
         /\ e.kind = "Plink" => e.ends \in [1..2 -> Id]
         /\ e.kind = "Link" => e.ends \in [1..2 -> [id : Id, ifname : STRING]]
BY DEF Element, Kinds, Hosts

(* A text of two parts is unreadable if one of the two is.                 *)
LEMMA UnreadableParts ==
  ASSUME NEW s \in Text, NEW t \in Text, Unreadable(s) \/ Unreadable(t)
  PROVE  Unreadable(s \o t)
<1>1. ToSet(s) \cup ToSet(t) \subseteq ToSet(s \o t)
  <2>1. s \in Seq(Seq([var : STRING, by : SUBSET {"sema", "sim"}]))
        /\ t \in Seq(Seq([var : STRING, by : SUBSET {"sema", "sim"}]))
    BY DEF Text
  <2>2. ASSUME NEW k \in DOMAIN s PROVE s[k] \in ToSet(s \o t)
    <3>1. k \in DOMAIN (s \o t) /\ (s \o t)[k] = s[k]
      BY <2>1
    <3> QED BY <3>1 DEF ToSet
  <2>3. ASSUME NEW k \in DOMAIN t PROVE t[k] \in ToSet(s \o t)
    <3>1. Len(s) + k \in DOMAIN (s \o t) /\ (s \o t)[Len(s) + k] = t[k]
      BY <2>1
    <3> QED BY <3>1 DEF ToSet
  <2> QED BY <2>2, <2>3 DEF ToSet
<1> QED BY <1>1 DEF Unreadable

---------------------------------------------------------------------------
(* The types. *)

LEMMA InitTyped == Init => Typed
<1> SUFFICES ASSUME Init PROVE Typed
  OBVIOUS
<1>1. ControlOK
  <2>1. 0 \in 0..MaxEdits /\ 0 \in 0..MaxCompiles
    BY BoundsAssumption
  <2>2. design \in [Id -> Element \cup {None}]
    BY DesignsAssumption DEF Init
  <2> QED BY <2>1, <2>2 DEF Init, ControlOK
<1>2. MadeOK
  BY DEF Init, MadeOK, NoTopology, NoCharts
<1> QED BY <1>1, <1>2 DEF Typed

LEMMA PresentTyped == Present \subseteq Id
BY DEF Present

(* The frames of the actions.                                              *)
LEMMA VisitTyped ==
  ASSUME Typed, NEW pass, NEW kinds, NEW i, Visit(pass, kinds, i)
  PROVE  ControlOK'
BY DEF Visit, Typed, MadeOK, ControlOK

LEMMA ToTyped ==
  ASSUME Typed, NEW pass \in Passes, To(pass), UNCHANGED answer,
         lost' \subseteq {"cys", "topdl", "dns", "route"}
  PROVE  ControlOK'
BY PresentTyped DEF To, Typed, MadeOK, ControlOK

LEMMA EndsTyped ==
  ASSUME Typed, NEW outcome \in {"none", "errors", "success", "panic"}, Ends(outcome),
         UNCHANGED lost
  PROVE  Typed'
<1>1. ControlOK'
  BY DEF Ends, Typed, MadeOK, ControlOK
<1>2. MadeOK'
  BY DEF Ends, MadeOK, NoTopology, NoCharts
<1> QED BY <1>1, <1>2 DEF Typed

LEMMA WriteTyped ==
  ASSUME Typed, NEW file \in {"cys", "topdl", "dns", "route"}, NEW content, Write(file, content)
  PROVE  lost' \subseteq {"cys", "topdl", "dns", "route"}
BY DEF Write, Typed, MadeOK, ControlOK

LEMMA MadeStays ==
  ASSUME Typed, UNCHANGED <<later, faulty, made>>
  PROVE  MadeOK'
BY DEF Typed, MadeOK, ControlOK, made

LEMMA EditTyped ==
  ASSUME Typed, NEW i \in Id, NEW e \in Versions(i) \cup {None}, Edit(i, e)
  PROVE  Typed'
<1>1. e \in Element \cup {None}
  BY DesignsAssumption
<1>2. ControlOK'
  <2>1. edits' \in 0..MaxEdits
    BY BoundsAssumption DEF Edit, Typed, ControlOK
  <2>2. todo' \subseteq Id
    BY DEF Edit, Typed, ControlOK
  <2>3. design' \in [Id -> Element \cup {None}]
    BY <1>1 DEF Edit, Typed, ControlOK
  <2> QED BY <2>1, <2>2, <2>3 DEF Edit, Typed, ControlOK
<1>3. MadeOK'
  BY MadeStays DEF Edit
<1> QED BY <1>2, <1>3 DEF Typed

LEMMA CheckTyped ==
  ASSUME Typed, OnCompile \/ Checked \/ \E i \in Id : CheckPlink(i)
  PROVE  Typed'
<1>1. CASE OnCompile
  <2>1. ControlOK'
    BY <1>1, BoundsAssumption, PresentTyped
    DEF OnCompile, Typed, MadeOK, ControlOK, Passes, Walks
  <2> QED BY <1>1, <2>1, MadeStays DEF OnCompile, Typed
<1>2. CASE Checked
  <2>1. CASE faulty
    BY <1>2, <2>1, EndsTyped DEF Checked
  <2>2. CASE ~faulty
    <3>1. ControlOK'
      BY <1>2, <2>2, ToTyped DEF Checked, Passes, Walks, Typed, MadeOK, ControlOK
    <3> QED BY <1>2, <2>2, <3>1, MadeStays DEF Checked, Typed
  <2> QED BY <2>1, <2>2
<1>3. ASSUME NEW i \in Id, CheckPlink(i) PROVE Typed'
  <2>1. MadeOK'
    BY <1>3 DEF CheckPlink, Typed, MadeOK, ControlOK, made
  <2> QED BY <1>3, <2>1, VisitTyped DEF CheckPlink, Typed
<1> QED BY <1>1, <1>2, <1>3

(* What a visit puts aside is an element.                                  *)
LEMMA AsideTyped ==
  ASSUME Typed, NEW i \in Id, NEW kinds, Is(i, kinds)
  PROVE  later \cup {<<i, design[i]>>} \subseteq Id \X Element
BY DEF Is, Typed, MadeOK, ControlOK

LEMMA SourceTyped ==
  ASSUME Typed,
         \/ ObjectsDone \/ LinesDone \/ WriteCys
         \/ \E i \in Id : PhyoSrc(i) \/ SaxSrc(i) \/ SaxPanics(i) \/ KeepPlink(i)
         \/ \E ip \in later : PlinkSrc(ip)
  PROVE  Typed'
<1>1. CASE ObjectsDone
  BY <1>1, ToTyped, MadeStays DEF ObjectsDone, Passes, Typed, MadeOK, ControlOK
<1>2. CASE LinesDone
  BY <1>2, ToTyped, MadeStays DEF LinesDone, Passes, Typed, MadeOK, ControlOK
<1>3. CASE WriteCys
  BY <1>3, ToTyped, WriteTyped, MadeStays DEF WriteCys, Passes, Walks, Typed
<1>4. ASSUME NEW i \in Id, PhyoSrc(i) \/ SaxSrc(i) PROVE Typed'
  <2>1. MadeOK'
    BY <1>4 DEF PhyoSrc, SaxSrc, Typed, MadeOK, ControlOK
  <2> QED BY <1>4, <2>1, VisitTyped DEF PhyoSrc, SaxSrc, Typed
<1>5. ASSUME NEW i \in Id, SaxPanics(i) PROVE Typed'
  BY <1>5, EndsTyped DEF SaxPanics, Panic
<1>6. ASSUME NEW i \in Id, KeepPlink(i) PROVE Typed'
  <2>1. MadeOK'
    BY <1>6, AsideTyped DEF KeepPlink, Visit, Typed, MadeOK, ControlOK, made
  <2> QED BY <1>6, <2>1, VisitTyped DEF KeepPlink, Typed
<1>7. ASSUME NEW ip \in later, PlinkSrc(ip) PROVE Typed'
  <2>1. CASE PlinkStuck(ip[2])
    BY <1>7, <2>1, EndsTyped DEF PlinkSrc, Panic
  <2>2. CASE ~PlinkStuck(ip[2])
    BY <1>7, <2>2 DEF PlinkSrc, Typed, MadeOK, ControlOK
  <2> QED BY <2>1, <2>2
<1> QED BY <1>1, <1>2, <1>3, <1>4, <1>5, <1>6, <1>7

(* A link leaves the computers there are.                                  *)
LEMMA LinkedComputers ==
  ASSUME DOMAIN xp = {"computers", "substrates"}, NEW i, NEW l
  PROVE  /\ DOMAIN Linked(i, l) = {"computers", "substrates"}
         /\ DOMAIN Linked(i, l).computers = DOMAIN xp.computers
<1>1. \A cs, end, ss : DOMAIN UpdateEndpoint(cs, end, ss) = DOMAIN cs
  BY DEF UpdateEndpoint
<1> QED BY <1>1 DEF Linked

LEMMA TopologyTyped ==
  ASSUME Typed,
         \/ HostsDone \/ LinksDone \/ WriteTopDL
         \/ \E i \in Id : AddComp(i) \/ AddSwitch(i) \/ KeepLink(i)
         \/ \E il \in later : LinkSubstrate(il)
  PROVE  Typed'
<1>1. CASE HostsDone
  <2>1. MadeOK'
    BY <1>1 DEF HostsDone, Typed, MadeOK
  <2>2. ControlOK'
    BY <1>1, ToTyped DEF HostsDone, Passes, Typed, ControlOK
  <2> QED BY <2>1, <2>2 DEF Typed
<1>2. CASE LinksDone
  BY <1>2, ToTyped, MadeStays DEF LinksDone, Passes, Typed, ControlOK
<1>3. CASE WriteTopDL
  BY <1>3, ToTyped, WriteTyped, MadeStays DEF WriteTopDL, Passes, Walks, Typed
<1>4. ASSUME NEW i \in Id, AddComp(i) PROVE Typed'
  <2>1. DOMAIN With(xp.computers, i, Comp(i)) = DOMAIN xp.computers \cup {i}
    BY DEF With
  <2>2. MadeOK'
    BY <1>4, <2>1 DEF AddComp, Typed, MadeOK
  <2> QED BY <1>4, <2>2, VisitTyped DEF AddComp, Typed
<1>5. ASSUME NEW i \in Id, AddSwitch(i) PROVE Typed'
  <2>1. MadeOK'
    BY <1>5 DEF AddSwitch, Typed, MadeOK
  <2> QED BY <1>5, <2>1, VisitTyped DEF AddSwitch, Typed
<1>6. ASSUME NEW i \in Id, KeepLink(i) PROVE Typed'
  <2>1. MadeOK'
    BY <1>6, AsideTyped DEF KeepLink, Visit, Typed, MadeOK, made
  <2> QED BY <1>6, <2>1, VisitTyped DEF KeepLink, Typed
<1>7. ASSUME NEW il \in later, LinkSubstrate(il) PROVE Typed'
  <2>1. CASE LinkStuck(il[2])
    BY <1>7, <2>1, EndsTyped DEF LinkSubstrate, Panic
  <2>2. CASE ~LinkStuck(il[2])
    <3>1. MadeOK'
      BY <1>7, <2>2, LinkedComputers DEF LinkSubstrate, Typed, MadeOK
    <3> QED BY <1>7, <2>2, <3>1 DEF LinkSubstrate, Typed, ControlOK
  <2> QED BY <2>1, <2>2
<1> QED BY <1>1, <1>2, <1>3, <1>4, <1>5, <1>6, <1>7

LEMMA DnsTyped ==
  ASSUME Typed,
         \/ ClientsDone \/ WriteSpec \/ KeysDone
         \/ \E i \in Id : AddClient(i) \/ WriteKey(i)
  PROVE  Typed'
<1>1. CASE ClientsDone \/ KeysDone
  BY <1>1, ToTyped, MadeStays DEF ClientsDone, KeysDone, Passes, Walks, Typed, ControlOK
<1>2. CASE WriteSpec
  <2>1. lost' \subseteq {"cys", "topdl", "dns", "route"}
    BY <1>2, WriteTyped DEF WriteSpec
  <2>2. MadeOK'
    BY <1>2, MadeStays DEF WriteSpec
  <2>3. CASE "dns" \in lost'
    BY <1>2, <2>1, <2>2, <2>3, ToTyped DEF WriteSpec, Passes, Walks, Typed
  <2>4. CASE "dns" \notin lost'
    BY <1>2, <2>1, <2>2, <2>4 DEF WriteSpec, Passes, Typed, ControlOK, MadeOK
  <2> QED BY <2>3, <2>4
<1>3. ASSUME NEW i \in Id, AddClient(i) PROVE Typed'
  <2>1. MadeOK'
    BY <1>3 DEF AddClient, Typed, MadeOK
  <2> QED BY <1>3, <2>1, VisitTyped DEF AddClient, Typed
<1>4. ASSUME NEW i \in Id, WriteKey(i) PROVE Typed'
  <2>1. lost' \subseteq {"cys", "topdl", "dns", "route"}
    BY <1>4, WriteTyped DEF WriteKey
  <2>2. MadeOK'
    BY <1>4, MadeStays DEF WriteKey
  <2>3. todo' \subseteq Id
    BY <1>4 DEF WriteKey, Typed, ControlOK
  <2> QED BY <1>4, <2>1, <2>2, <2>3 DEF WriteKey, Typed, ControlOK
<1> QED BY <1>1, <1>2, <1>3, <1>4

LEMMA ChartsTyped ==
  ASSUME Typed,
         LinksCharted \/ Answer \/ \E i \in Id : ChartLink(i) \/ WriteChart(i)
  PROVE  Typed'
<1>1. CASE LinksCharted
  <2>1. MadeOK'
    BY <1>1, MadeStays DEF LinksCharted
  <2> QED BY <1>1, <2>1 DEF LinksCharted, Typed, ControlOK, MadeOK, Passes
<1>2. CASE Answer
  BY <1>2, EndsTyped DEF Answer
<1>3. ASSUME NEW i \in Id, ChartLink(i) PROVE Typed'
  <2> DEFINE a == design[i].ends[1].id
             b == design[i].ends[2].id
  <2>1. design[i] \in Element /\ design[i].kind = "Link"
    BY <1>3 DEF ChartLink, Visit, Is, Typed, ControlOK
  <2>2. a \in Id /\ b \in Id
    BY <2>1, KindsOfElements
  <2>3. ASSUME NEW cs, DOMAIN cs \subseteq Id, NEW r \in Id, NEW x, NEW ds \in UpdateCharts(cs, r, x)
        PROVE  DOMAIN ds \subseteq Id
    BY <2>3 DEF UpdateCharts, With
  <2>4. PICK cs \in UpdateCharts(charts, a, b) : charts' \in UpdateCharts(cs, b, a)
    BY <1>3 DEF ChartLink
  <2>5. DOMAIN charts' \subseteq Id
    <3>1. DOMAIN cs \subseteq Id
      BY <2>2, <2>3 DEF Typed, MadeOK
    <3> QED BY <2>2, <2>3, <2>4, <3>1
  <2>6. MadeOK'
    BY <1>3, <2>5 DEF ChartLink, Typed, MadeOK
  <2> QED BY <1>3, <2>6, VisitTyped DEF ChartLink, Typed
<1>4. ASSUME NEW i \in Id, WriteChart(i) PROVE Typed'
  <2>1. lost' \subseteq {"cys", "topdl", "dns", "route"}
    BY <1>4, WriteTyped DEF WriteChart
  <2>2. MadeOK'
    BY <1>4, MadeStays DEF WriteChart
  <2> QED BY <1>4, <2>1, <2>2 DEF WriteChart, Typed, ControlOK
<1> QED BY <1>1, <1>2, <1>3, <1>4

LEMMA NextTyped == Typed /\ [Next]_vars => Typed'
<1> SUFFICES ASSUME Typed, [Next]_vars PROVE Typed'
  OBVIOUS
<1>1. ASSUME NEW i \in Id, NEW e \in Versions(i) \cup {None}, Edit(i, e) PROVE Typed'
  BY <1>1, EditTyped
<1>2. CASE \/ OnCompile \/ Checked \/ ObjectsDone \/ LinesDone \/ WriteCys
           \/ HostsDone \/ LinksDone \/ WriteTopDL
           \/ ClientsDone \/ WriteSpec \/ KeysDone \/ LinksCharted \/ Answer
  BY <1>2, CheckTyped, SourceTyped, TopologyTyped, DnsTyped, ChartsTyped
<1>3. ASSUME NEW i \in Id,
             \/ CheckPlink(i)
             \/ PhyoSrc(i) \/ SaxSrc(i) \/ SaxPanics(i) \/ KeepPlink(i)
             \/ AddComp(i) \/ AddSwitch(i) \/ KeepLink(i)
             \/ AddClient(i) \/ WriteKey(i)
             \/ ChartLink(i) \/ WriteChart(i)
      PROVE Typed'
  BY <1>3, CheckTyped, SourceTyped, TopologyTyped, DnsTyped, ChartsTyped
<1>4. ASSUME NEW ie \in later, PlinkSrc(ie) \/ LinkSubstrate(ie) PROVE Typed'
  BY <1>4, SourceTyped, TopologyTyped
<1>5. CASE Die
  BY <1>5, EndsTyped DEF Die
<1>6. CASE UNCHANGED vars
  BY <1>6 DEF vars, Typed, MadeOK, ControlOK
<1> QED BY <1>1, <1>2, <1>3, <1>4, <1>5, <1>6 DEF Next

(* Every variable of Compile keeps its type: what a pass puts aside is an  *)
(* element, and only identities have computers, clients and charts.        *)
THEOREM TypeCorrect == Spec => []TypeOK
<1>1. Typed => TypeOK
  BY DEF Typed, MadeOK, ControlOK, TypeOK
<1> QED BY <1>1, InitTyped, NextTyped, PTL DEF Spec

---------------------------------------------------------------------------
(* Panics.  A generator panics over what the check has not looked at, or   *)
(* over what a pass before it should have seen to and did.                 *)

LEMMA SameDesign ==
  ASSUME UNCHANGED design
  PROVE  /\ \A i, kinds : Is(i, kinds)' <=> Is(i, kinds)
         /\ \A p : PlinkFaulty(p)' <=> PlinkFaulty(p)
         /\ (\E i \in Id : Unchecked(i))' <=> (\E i \in Id : Unchecked(i))
         /\ Present' = Present
BY DEF Is, PlinkFaulty, EndpointFaulty, Unchecked, Present

LEMMA StillExplained ==
  ASSUME PanicsExplained, UNCHANGED <<design, steady>>, answer' # "panic" \/ answer' = answer
  PROVE  PanicsExplained'
BY SameDesign DEF PanicsExplained

(* Where nothing is put aside, and none of the passes below runs.          *)
LEMMA Elsewhere ==
  ASSUME Sound, UNCHANGED <<design, steady>>, answer' # "panic" \/ answer' = answer,
         later' = {}, pc' \notin {"check", "objects", "lines", "hosts", "links"}
  PROVE  Sound'
<1>1. PanicsExplained'
  BY StillExplained DEF Sound
<1> QED BY <1>1 DEF Sound, Aside, Diagnosed, Housed

LEMMA Panics ==
  ASSUME Panic, steady => \E i \in Id : Unchecked(i)
  PROVE  Sound'
<1>1. /\ UNCHANGED <<design, steady>> /\ later' = {}
      /\ pc' = "idle" /\ answer' = "panic"
  BY DEF Panic, Ends
<1>2. PanicsExplained'
  BY <1>1, SameDesign DEF PanicsExplained
<1> QED BY <1>1, <1>2 DEF Sound, Aside, Diagnosed, Housed

LEMMA InitSound == Init => Sound
BY DEF Init, Sound, Aside, Diagnosed, Housed, PanicsExplained

LEMMA EditSound ==
  ASSUME Sound, NEW i \in Id, NEW e, Edit(i, e)
  PROVE  Sound'
BY DEF Edit, Sound, Aside, Diagnosed, Housed, PanicsExplained

LEMMA CheckSound ==
  ASSUME Typed, Sound, OnCompile \/ Checked \/ \E i \in Id : CheckPlink(i)
  PROVE  Sound'
<1>1. CASE OnCompile
  <2>1. /\ UNCHANGED design /\ later' = {} /\ todo' = Present
        /\ pc' = "check" /\ answer' = "none"
    BY <1>1 DEF OnCompile, Sound, Aside
  <2>2. \A i \in Id \ todo' : ~Is(i, {"Plink"})'
    BY <2>1, SameDesign DEF Present, Is
  <2> QED BY <2>1, <2>2 DEF Sound, Aside, Diagnosed, Housed, PanicsExplained
<1>2. CASE Checked /\ faulty
  BY <1>2, Elsewhere DEF Checked, Ends
<1>3. CASE Checked /\ ~faulty
  <2>1. /\ pc = "check" /\ pc' = "objects" /\ \A i \in todo : ~Is(i, {"Plink"})
        /\ UNCHANGED <<design, steady, later, answer>> /\ later = {}
    BY <1>3 DEF Checked, Walked, To, Sound, Aside
  <2>2. steady => \A i \in Id : Is(i, {"Plink"}) => ~PlinkFaulty(design[i])
    BY <1>3, <2>1 DEF Sound, Diagnosed
  <2>3. PanicsExplained'
    BY <2>1, StillExplained DEF Sound
  <2> QED BY <2>1, <2>2, <2>3, SameDesign DEF Sound, Aside, Diagnosed, Housed
<1>4. ASSUME NEW i \in Id, CheckPlink(i) PROVE Sound'
  <2>1. /\ pc = "check" /\ pc' = "check" /\ todo' = todo \ {i} /\ later = {}
        /\ faulty' = (faulty \/ PlinkFaulty(design[i]))
        /\ UNCHANGED <<design, steady, later, answer>>
    BY <1>4 DEF CheckPlink, Visit, Sound, Aside
  <2>2. steady /\ ~faulty' => \A j \in Id \ todo' : Is(j, {"Plink"}) => ~PlinkFaulty(design[j])
    BY <2>1 DEF Sound, Diagnosed
  <2>3. PanicsExplained'
    BY <2>1, StillExplained DEF Sound
  <2> QED BY <2>1, <2>2, <2>3, SameDesign DEF Sound, Aside, Diagnosed, Housed
<1> QED BY <1>1, <1>2, <1>3, <1>4

(* The Sax at an end of a plink.                                           *)
LEMMA SaxStuckUnreadable ==
  ASSUME Typed, NEW i \in Id, Is(i, {"Sax"}), NEW v, SaxStuck(design[i], v)
  PROVE  Unchecked(i)
<1>1. design[i] \in Element /\ design[i].kind = "Sax"
  BY DEF Is, Typed, ControlOK
<1>2. design[i].sense \in Text /\ design[i].actuate \in Text
  BY <1>1, KindsOfElements
<1>3. Unreadable(design[i].sense) \/ Unreadable(design[i].actuate)
  BY DEF SaxStuck
<1> QED BY <1>2, <1>3, UnreadableParts DEF Unchecked

LEMMA SourceSound ==
  ASSUME Typed, Sound,
         \/ ObjectsDone \/ LinesDone \/ WriteCys
         \/ \E i \in Id : PhyoSrc(i) \/ SaxSrc(i) \/ SaxPanics(i) \/ KeepPlink(i)
         \/ \E ip \in later : PlinkSrc(ip)
  PROVE  Sound'
<1>1. CASE ObjectsDone
  <2>1. /\ pc = "objects" /\ pc' = "lines" /\ UNCHANGED <<design, steady, later, answer>>
    BY <1>1 DEF ObjectsDone, Walked, To
  <2>2. PanicsExplained'
    BY <2>1, StillExplained DEF Sound
  <2> QED BY <2>1, <2>2, SameDesign DEF Sound, Aside, Diagnosed, Housed
<1>2. CASE LinesDone
  BY <1>2, Elsewhere DEF LinesDone, To
<1>3. CASE WriteCys
  <2>1. /\ UNCHANGED <<design, steady, answer>> /\ later' = {} /\ pc' = "hosts" /\ todo' = Present
    BY <1>3 DEF WriteCys, To, Walks, Sound, Aside
  <2>2. \A i \in Id \ todo' : ~Is(i, Hosts)'
    BY <2>1, SameDesign DEF Present, Is
  <2>3. PanicsExplained'
    BY <2>1, StillExplained DEF Sound
  <2> QED BY <2>1, <2>2, <2>3 DEF Sound, Aside, Diagnosed, Housed
<1>4. ASSUME NEW i \in Id, PhyoSrc(i) \/ SaxSrc(i) PROVE Sound'
  <2>1. /\ pc = "objects" /\ UNCHANGED <<design, steady, later, answer, pc>>
    BY <1>4 DEF PhyoSrc, SaxSrc, Visit
  <2>2. PanicsExplained'
    BY <2>1, StillExplained DEF Sound
  <2> QED BY <2>1, <2>2, SameDesign DEF Sound, Aside, Diagnosed, Housed
<1>5. ASSUME NEW i \in Id, SaxPanics(i) PROVE Sound'
  BY <1>5, Panics DEF SaxPanics, Unchecked
<1>6. ASSUME NEW i \in Id, KeepPlink(i) PROVE Sound'
  <2>1. /\ pc = "objects" /\ Is(i, {"Plink"}) /\ later' = later \cup {<<i, design[i]>>}
        /\ UNCHANGED <<design, steady, answer, pc>>
    BY <1>6 DEF KeepPlink, Visit
  <2>2. PanicsExplained'
    BY <2>1, StillExplained DEF Sound
  <2>3. steady => \A ip \in later' : ip[1] \in Id /\ ip[2] = design[ip[1]] /\ Is(ip[1], {"Plink"})
    BY <2>1 DEF Sound, Aside
  <2> QED BY <2>1, <2>2, <2>3, SameDesign DEF Sound, Aside, Diagnosed, Housed
<1>7. ASSUME NEW ip \in later, PlinkSrc(ip), PlinkStuck(ip[2]) PROVE Sound'
  <2>1. ASSUME steady PROVE \E i \in Id : Unchecked(i)
    <3> DEFINE p == ip[2]
    <3>1. ip[1] \in Id /\ p = design[ip[1]] /\ Is(ip[1], {"Plink"}) /\ ~PlinkFaulty(p)
      BY <1>7, <2>1 DEF PlinkSrc, Sound, Aside, Diagnosed
    <3>2. p.ends \in [1..2 -> Id]
      BY <3>1, KindsOfElements DEF Is, Typed, ControlOK
    <3>3. \A k \in 1..2 : design[p.ends[k]] # None
      BY <3>1 DEF PlinkFaulty, EndpointFaulty
    <3>4. CASE Len(GenVars(p.binds[1])) > Len(GenVars(p.binds[2]))
      BY <3>1, <3>4 DEF Unchecked
    <3>5. CASE ~(Len(GenVars(p.binds[1])) > Len(GenVars(p.binds[2])))
      <4>1. PICK k \in 1..2 : \E v : Is(p.ends[k], {"Sax"}) /\ SaxStuck(design[p.ends[k]], v)
        BY <1>7, <3>3, <3>5 DEF PlinkStuck
      <4> QED BY <3>2, <4>1, SaxStuckUnreadable
    <3> QED BY <3>4, <3>5
  <2>2. Panic
    BY <1>7 DEF PlinkSrc
  <2> QED BY <2>1, <2>2, Panics
<1>8. ASSUME NEW ip \in later, PlinkSrc(ip), ~PlinkStuck(ip[2]) PROVE Sound'
  <2>1. /\ pc = "lines" /\ later' = later \ {ip}
        /\ UNCHANGED <<design, steady, answer, pc>>
    BY <1>8 DEF PlinkSrc
  <2>2. PanicsExplained'
    BY <2>1, StillExplained DEF Sound
  <2> QED BY <2>1, <2>2, SameDesign DEF Sound, Aside, Diagnosed, Housed
<1> QED BY <1>1, <1>2, <1>3, <1>4, <1>5, <1>6, <1>7, <1>8

LEMMA TopologySound ==
  ASSUME Typed, Sound,
         \/ HostsDone \/ LinksDone \/ WriteTopDL
         \/ \E i \in Id : AddComp(i) \/ AddSwitch(i) \/ KeepLink(i)
         \/ \E il \in later : LinkSubstrate(il)
  PROVE  Sound'
<1>1. CASE HostsDone
  <2>1. /\ pc = "hosts" /\ pc' = "links" /\ UNCHANGED <<design, steady, later, answer>>
        /\ xp'.computers = xp.computers
        /\ \A i \in todo : ~Is(i, Hosts)
    BY <1>1 DEF HostsDone, Walked, To, Is, Typed, MadeOK
  <2>2. steady => \A i \in Id : Is(i, Hosts) => i \in DOMAIN xp.computers
    BY <2>1 DEF Sound, Housed
  <2>3. PanicsExplained'
    BY <2>1, StillExplained DEF Sound
  <2> QED BY <2>1, <2>2, <2>3, SameDesign DEF Sound, Aside, Diagnosed, Housed
<1>2. CASE LinksDone
  BY <1>2, Elsewhere DEF LinksDone, To
<1>3. CASE WriteTopDL
  <2>1. UNCHANGED <<design, steady, answer>> /\ later' = {} /\ pc' = "dns"
    BY <1>3 DEF WriteTopDL, To, Sound, Aside
  <2> QED BY <2>1, Elsewhere
<1>4. ASSUME NEW i \in Id, AddComp(i) PROVE Sound'
  <2>1. /\ pc = "hosts" /\ todo' = todo \ {i}
        /\ UNCHANGED <<design, steady, later, answer, pc>>
        /\ DOMAIN xp'.computers = DOMAIN xp.computers \cup {i}
    BY <1>4 DEF AddComp, Visit, With, Typed, MadeOK
  <2>2. steady => \A j \in Id \ todo' : Is(j, Hosts) => j \in DOMAIN xp'.computers
    BY <2>1 DEF Sound, Housed
  <2>3. PanicsExplained'
    BY <2>1, StillExplained DEF Sound
  <2> QED BY <2>1, <2>2, <2>3, SameDesign DEF Sound, Aside, Diagnosed, Housed
<1>5. ASSUME NEW i \in Id, AddSwitch(i) PROVE Sound'
  <2>1. /\ pc = "hosts" /\ todo' = todo \ {i} /\ Is(i, {"Switch"})
        /\ UNCHANGED <<design, steady, later, answer, pc>>
        /\ xp'.computers = xp.computers
    BY <1>5 DEF AddSwitch, Visit, Typed, MadeOK
  <2>2. steady => \A j \in Id \ todo' : Is(j, Hosts) => j \in DOMAIN xp'.computers
    BY <2>1 DEF Sound, Housed, Is, Hosts
  <2>3. PanicsExplained'
    BY <2>1, StillExplained DEF Sound
  <2> QED BY <2>1, <2>2, <2>3, SameDesign DEF Sound, Aside, Diagnosed, Housed
<1>6. ASSUME NEW i \in Id, KeepLink(i) PROVE Sound'
  <2>1. /\ pc = "hosts" /\ todo' = todo \ {i} /\ Is(i, {"Link"})
        /\ later' = later \cup {<<i, design[i]>>}
        /\ UNCHANGED <<design, steady, answer, pc, xp>>
    BY <1>6 DEF KeepLink, Visit, made
  <2>2. steady => \A j \in Id \ todo' : Is(j, Hosts) => j \in DOMAIN xp'.computers
    BY <2>1 DEF Sound, Housed, Is, Hosts
  <2>3. steady => \A il \in later' : il[1] \in Id /\ il[2] = design[il[1]] /\ Is(il[1], {"Link"})
    BY <2>1 DEF Sound, Aside
  <2>4. PanicsExplained'
    BY <2>1, StillExplained DEF Sound
  <2> QED BY <2>1, <2>2, <2>3, <2>4, SameDesign DEF Sound, Aside, Diagnosed, Housed
<1>7. ASSUME NEW il \in later, LinkSubstrate(il), LinkStuck(il[2]) PROVE Sound'
  <2>1. ASSUME steady PROVE \E i \in Id : Unchecked(i)
    <3> DEFINE l == il[2]
    <3>1. il[1] \in Id /\ l = design[il[1]] /\ Is(il[1], {"Link"})
      BY <1>7, <2>1 DEF LinkSubstrate, Sound, Aside
    <3>2. l.ends \in [1..2 -> [id : Id, ifname : STRING]]
      BY <3>1, KindsOfElements DEF Is, Typed, ControlOK
    <3>3. PICK k \in 1..2 :
            /\ Is(l.ends[k].id, Hosts)
            /\ \/ ~Is(l.ends[3 - k].id, Hosts \cup {"Switch"})
               \/ l.ends[k].id \notin DOMAIN xp.computers
      BY <1>7 DEF LinkStuck, HostEnds
    <3>4. 3 - k \in 1..2
      BY <3>3
    <3>5. l.ends[k].id \in Id /\ l.ends[3 - k].id \in Id
      BY <3>2, <3>4
    <3>6. l.ends[k].id \in DOMAIN xp.computers
      BY <1>7, <2>1, <3>3, <3>5 DEF LinkSubstrate, Sound, Housed
    <3>7. design[l.ends[3 - k].id] \in Element
      BY <1>7, <3>4, <3>5 DEF LinkStuck, Dangling, Typed, ControlOK
    <3>8. Is(l.ends[3 - k].id, Kinds \ (Hosts \cup {"Switch"}))
      BY <3>3, <3>6, <3>7, DesignsAssumption, KindsOfElements DEF Is
    <3> QED BY <3>1, <3>3, <3>8 DEF Unchecked
  <2>2. Panic
    BY <1>7 DEF LinkSubstrate
  <2> QED BY <2>1, <2>2, Panics
<1>8. ASSUME NEW il \in later, LinkSubstrate(il), ~LinkStuck(il[2]) PROVE Sound'
  <2>1. /\ pc = "links" /\ later' = later \ {il}
        /\ UNCHANGED <<design, steady, answer, pc>>
        /\ DOMAIN xp'.computers = DOMAIN xp.computers
    BY <1>8, LinkedComputers DEF LinkSubstrate, Typed, MadeOK
  <2>2. PanicsExplained'
    BY <2>1, StillExplained DEF Sound
  <2> QED BY <2>1, <2>2, SameDesign DEF Sound, Aside, Diagnosed, Housed
<1> QED BY <1>1, <1>2, <1>3, <1>4, <1>5, <1>6, <1>7, <1>8

LEMMA LastSound ==
  ASSUME Sound,
         \/ ClientsDone \/ WriteSpec \/ KeysDone \/ LinksCharted \/ Answer \/ Die
         \/ \E i \in Id : AddClient(i) \/ WriteKey(i) \/ ChartLink(i) \/ WriteChart(i)
  PROVE  Sound'
<1>1. CASE Answer \/ Die
  BY <1>1, Elsewhere DEF Answer, Die, Ends
<1>2. CASE ~(Answer \/ Die)
  <2>1. /\ pc \in {"dns", "spec", "keys", "route", "charts"}
        /\ pc' \in {"dns", "spec", "keys", "route", "charts"}
        /\ UNCHANGED <<design, steady, answer, later>>
    BY <1>2 DEF ClientsDone, WriteSpec, KeysDone, LinksCharted, AddClient, WriteKey, ChartLink,
       WriteChart, Visit, Walked, To
  <2>2. later = {}
    BY <2>1 DEF Sound, Aside
  <2> QED BY <2>1, <2>2, Elsewhere
<1> QED BY <1>1, <1>2

LEMMA NextSound == Typed /\ Sound /\ [Next]_vars => Sound'
<1> SUFFICES ASSUME Typed, Sound, [Next]_vars PROVE Sound'
  OBVIOUS
<1>1. ASSUME NEW i \in Id, NEW e \in Versions(i) \cup {None}, Edit(i, e) PROVE Sound'
  BY <1>1, EditSound
<1>2. CASE \/ OnCompile \/ Checked \/ ObjectsDone \/ LinesDone \/ WriteCys
           \/ HostsDone \/ LinksDone \/ WriteTopDL
           \/ ClientsDone \/ WriteSpec \/ KeysDone \/ LinksCharted \/ Answer
  BY <1>2, CheckSound, SourceSound, TopologySound, LastSound
<1>3. ASSUME NEW i \in Id,
             \/ CheckPlink(i)
             \/ PhyoSrc(i) \/ SaxSrc(i) \/ SaxPanics(i) \/ KeepPlink(i)
             \/ AddComp(i) \/ AddSwitch(i) \/ KeepLink(i)
             \/ AddClient(i) \/ WriteKey(i)
             \/ ChartLink(i) \/ WriteChart(i)
      PROVE Sound'
  BY <1>3, CheckSound, SourceSound, TopologySound, LastSound
<1>4. ASSUME NEW ie \in later, PlinkSrc(ie) \/ LinkSubstrate(ie) PROVE Sound'
  BY <1>4, SourceSound, TopologySound
<1>5. CASE Die
  BY <1>5, LastSound
<1>6. CASE UNCHANGED vars
  <2>1. UNCHANGED <<design, steady, answer, pc, later, todo, faulty, xp>>
    BY <1>6 DEF vars
  <2>2. PanicsExplained'
    BY <2>1, StillExplained DEF Sound
  <2> QED BY <2>1, <2>2, SameDesign DEF Sound, Aside, Diagnosed, Housed
<1> QED BY <1>1, <1>2, <1>3, <1>4, <1>5, <1>6 DEF Next

(* A compilation of a design that no other handler changes panics only     *)
(* over what sema.Check does not look at: a text of a Sax in which sim     *)
(* finds no entry, a list of bindings longer than its counterpart, or a    *)
(* link from a host to what is neither host nor switch.                    *)
THEOREM PanicsAreExplained == Spec => []PanicsExplained
<1>1. Sound => PanicsExplained
  BY DEF Sound
<1> QED BY <1>1, InitTyped, NextTyped, InitSound, NextSound, PTL DEF Spec

---------------------------------------------------------------------------
(* The simulation source says what the plinks of a design say that nobody  *)
(* changed meanwhile.                                                      *)


DeclaredIn(i, s) ==
  /\ Is(i, {"Phyo"}) => <<Name[i], "phyo", "all">> \in s.objects
  /\ Is(i, {"Sax"}) => /\ ~Unreadable(design[i].sense \o design[i].actuate)
                       /\ SaxObjects(i, design[i]) \subseteq s.objects

LinedIn(i, s) ==
  Is(i, {"Plink"}) => ~PlinkStuck(design[i]) /\ PlinkLines(design[i]) \subseteq s.lines

AllChecked == \A i \in Id : Is(i, {"Plink"}) => ~PlinkFaulty(design[i])
Whole(s) == \A i \in Id : DeclaredIn(i, s) /\ LinedIn(i, s)

Written == {"hosts", "links", "topdl", "dns", "spec", "keys", "route", "charts"}

(* What the source has of the design at each pass, and the file then.      *)
Sourced ==
  /\ pc = "objects" => \A i \in Id \ todo : /\ DeclaredIn(i, src)
                                            /\ Is(i, {"Plink"}) => <<i, design[i]>> \in later
  /\ pc = "lines" => \A i \in Id : /\ DeclaredIn(i, src)
                                   /\ <<i, design[i]>> \in later \/ LinedIn(i, src)
  /\ pc = "cys" => AllChecked /\ Whole(src)
  /\ (pc \in Written \/ (pc = "idle" /\ answer = "success")) =>
       AllChecked /\ ("cys" \notin lost => Whole(files.cys))

Shapes ==
  /\ pc # "idle" => answer = "none"
  /\ DOMAIN src = {"objects", "lines"}
  /\ DOMAIN files = {"cys", "topdl", "dns", "route"}

Traced == Shapes /\ (steady => Sourced)

---------------------------------------------------------------------------
LEMMA SameSource ==
  ASSUME UNCHANGED design
  PROVE  /\ \A i, s : DeclaredIn(i, s)' <=> DeclaredIn(i, s)
         /\ \A i, s : LinedIn(i, s)' <=> LinedIn(i, s)
         /\ AllChecked' <=> AllChecked
         /\ \A s : Whole(s)' <=> Whole(s)
<1>1. \A p : PlinkStuck(p)' <=> PlinkStuck(p)
  BY DEF PlinkStuck, Is
<1>2. \A p : PlinkLines(p)' = PlinkLines(p)
  BY DEF PlinkLines, Term, Is
<1>3. \A i, s : DeclaredIn(i, s)' <=> DeclaredIn(i, s)
  BY DEF DeclaredIn, Is
<1>4. \A i, s : LinedIn(i, s)' <=> LinedIn(i, s)
  BY <1>1, <1>2, SameDesign DEF LinedIn
<1>5. AllChecked' <=> AllChecked
  BY SameDesign DEF AllChecked
<1>6. \A s : Whole(s)' <=> Whole(s)
  BY <1>3, <1>4 DEF Whole
<1> QED BY <1>3, <1>4, <1>5, <1>6

LEMMA InitTraced == Init => Traced
BY DEF Init, Traced, Shapes, NoSource

LEMMA EditTraced ==
  ASSUME Traced, NEW i \in Id, NEW e, Edit(i, e)
  PROVE  Traced'
BY DEF Edit, Traced, Shapes, made

(* Where a compilation ends, and not with an answer.                       *)
LEMMA EndsTraced ==
  ASSUME Shapes, NEW outcome, outcome # "success", Ends(outcome), DOMAIN files' = DOMAIN files
  PROVE  Traced'
BY DEF Ends, Traced, Shapes, Sourced, NoSource, Written

LEMMA CheckTraced ==
  ASSUME Typed, Sound, Traced, OnCompile \/ Checked \/ \E i \in Id : CheckPlink(i)
  PROVE  Traced'
<1>1. CASE OnCompile
  BY <1>1 DEF OnCompile, Traced, Shapes, Sourced, Written, made
<1>2. CASE Checked /\ faulty
  BY <1>2, EndsTraced DEF Checked, Traced
<1>3. CASE Checked /\ ~faulty
  <2>1. /\ pc = "check" /\ pc' = "objects" /\ todo' = Present
        /\ UNCHANGED <<design, answer, files, src>>
    BY <1>3 DEF Checked, Walked, To, made, Walks
  <2>2. \A i \in Id \ todo' : \A kinds : ~Is(i, kinds)'
    BY <2>1, SameDesign DEF Present, Is
  <2> QED BY <2>1, <2>2 DEF Traced, Shapes, Sourced, Written, DeclaredIn
<1>4. ASSUME NEW i \in Id, CheckPlink(i) PROVE Traced'
  BY <1>4 DEF CheckPlink, Visit, Traced, Shapes, Sourced, Written, made
<1> QED BY <1>1, <1>2, <1>3, <1>4

(* What is in the source stays in it.                                      *)
LEMMA MoreSource ==
  ASSUME NEW s, NEW t, s.objects \subseteq t.objects, s.lines \subseteq t.lines
  PROVE  /\ \A i : DeclaredIn(i, s) => DeclaredIn(i, t)
         /\ \A i : LinedIn(i, s) => LinedIn(i, t)
BY DEF DeclaredIn, LinedIn

(* A pass of the first walk has been at one element more.                  *)
LEMMA ObjectsTraced ==
  ASSUME Traced, NEW i \in Id, NEW kinds, Visit("objects", kinds, i),
         DOMAIN src' = DOMAIN src, src.objects \subseteq src'.objects, src.lines \subseteq src'.lines,
         later \subseteq later',
         DeclaredIn(i, src'), Is(i, {"Plink"}) => <<i, design[i]>> \in later'
  PROVE  Traced'
<1>1. /\ pc = "objects" /\ todo' = todo \ {i}
      /\ UNCHANGED <<design, pc, files, answer, steady, lost>>
  BY DEF Visit
<1>2. ASSUME steady, NEW j \in Id \ todo'
      PROVE  DeclaredIn(j, src)' /\ (Is(j, {"Plink"})' => <<j, design'[j]>> \in later')
  <2>1. DeclaredIn(j, src') /\ (Is(j, {"Plink"}) => <<j, design[j]>> \in later')
    BY <1>1, <1>2, MoreSource DEF Traced, Sourced
  <2> QED BY <1>1, <2>1 DEF DeclaredIn, Is
<1> QED BY <1>1, <1>2 DEF Traced, Shapes, Sourced, Written

LEMMA SourceTraced ==
  ASSUME Typed, Sound, Traced,
         \/ ObjectsDone \/ LinesDone \/ WriteCys
         \/ \E i \in Id : PhyoSrc(i) \/ SaxSrc(i) \/ SaxPanics(i) \/ KeepPlink(i)
         \/ \E ip \in later : PlinkSrc(ip)
  PROVE  Traced'
<1>1. CASE ObjectsDone
  <2>1. /\ pc = "objects" /\ pc' = "lines"
        /\ UNCHANGED <<design, steady, later, answer, files, src>>
        /\ \A i \in todo : ~Is(i, {"Phyo", "Sax", "Plink"})
    BY <1>1 DEF ObjectsDone, Walked, To, made
  <2>2. \A i \in todo : DeclaredIn(i, src) /\ LinedIn(i, src)
    BY <2>1 DEF DeclaredIn, LinedIn, Is
  <2>3. steady => \A i \in Id : DeclaredIn(i, src) /\ (<<i, design[i]>> \in later \/ LinedIn(i, src))
    BY <2>1, <2>2 DEF Traced, Sourced, LinedIn
  <2> QED BY <2>1, <2>3, SameSource DEF Traced, Shapes, Sourced, Written
<1>2. CASE LinesDone
  <2>1. /\ pc = "lines" /\ pc' = "cys" /\ later = {}
        /\ UNCHANGED <<design, steady, answer, files, src>>
    BY <1>2 DEF LinesDone, To, made
  <2>2. steady => AllChecked /\ Whole(src)
    BY <2>1 DEF Traced, Sourced, Whole, AllChecked, Sound, Diagnosed
  <2> QED BY <2>1, <2>2, SameSource DEF Traced, Shapes, Sourced, Written
<1>3. CASE WriteCys
  <2>1. /\ pc = "cys" /\ pc' = "hosts"
        /\ UNCHANGED <<design, steady, answer, src>>
        /\ \/ files' = [files EXCEPT !["cys"] = src]
           \/ files' = files /\ "cys" \in lost'
    BY <1>3 DEF WriteCys, Write, To, made
  <2>2. DOMAIN files' = DOMAIN files /\ ("cys" \notin lost' => files'.cys = src)
    BY <2>1 DEF Traced, Shapes
  <2>3. steady => AllChecked /\ ("cys" \notin lost' => Whole(files'.cys))
    BY <2>1, <2>2 DEF Traced, Sourced
  <2> QED BY <2>1, <2>2, <2>3, SameSource DEF Traced, Shapes, Sourced, Written
<1>4. ASSUME NEW i \in Id, PhyoSrc(i) PROVE Traced'
  <2>1. Visit("objects", {"Phyo"}, i) /\ later' = later
    BY <1>4 DEF PhyoSrc
  <2>2. /\ DOMAIN src' = DOMAIN src
        /\ src'.objects = src.objects \cup {<<Name[i], "phyo", "all">>} /\ src'.lines = src.lines
    BY <1>4 DEF PhyoSrc, Traced, Shapes
  <2>3. DeclaredIn(i, src') /\ ~Is(i, {"Plink"})
    BY <2>1, <2>2 DEF DeclaredIn, Visit, Is
  <2> QED BY <2>1, <2>2, <2>3, ObjectsTraced
<1>5. ASSUME NEW i \in Id, SaxSrc(i) PROVE Traced'
  <2>1. Visit("objects", {"Sax"}, i) /\ later' = later
    BY <1>5 DEF SaxSrc
  <2>2. /\ DOMAIN src' = DOMAIN src
        /\ src'.objects = src.objects \cup SaxObjects(i, design[i]) /\ src'.lines = src.lines
    BY <1>5 DEF SaxSrc, Traced, Shapes
  <2>3. DeclaredIn(i, src') /\ ~Is(i, {"Plink"})
    BY <1>5, <2>1, <2>2 DEF DeclaredIn, Visit, Is, SaxSrc
  <2> QED BY <2>1, <2>2, <2>3, ObjectsTraced
<1>6. ASSUME NEW i \in Id, KeepPlink(i) PROVE Traced'
  <2>1. Visit("objects", {"Plink"}, i) /\ src' = src /\ later' = later \cup {<<i, design[i]>>}
    BY <1>6 DEF KeepPlink, made
  <2>2. DeclaredIn(i, src')
    BY <2>1 DEF DeclaredIn, Visit, Is
  <2> QED BY <2>1, <2>2, ObjectsTraced
<1>7. ASSUME NEW i \in Id, SaxPanics(i) PROVE Traced'
  BY <1>7, EndsTraced DEF SaxPanics, Panic, Traced
<1>8. ASSUME NEW ip \in later, PlinkSrc(ip), PlinkStuck(ip[2]) PROVE Traced'
  BY <1>8, EndsTraced DEF PlinkSrc, Panic, Traced
<1>9. ASSUME NEW ip \in later, PlinkSrc(ip), ~PlinkStuck(ip[2]) PROVE Traced'
  <2>1. /\ pc = "lines" /\ later' = later \ {ip}
        /\ src' = [src EXCEPT !.lines = @ \cup PlinkLines(ip[2])]
        /\ UNCHANGED <<design, pc, steady, answer, files, lost>>
    BY <1>9 DEF PlinkSrc
  <2>2. /\ DOMAIN src' = DOMAIN src
        /\ src'.objects = src.objects /\ src'.lines = src.lines \cup PlinkLines(ip[2])
    BY <2>1 DEF Traced, Shapes
  <2>3. ASSUME steady, NEW j \in Id
        PROVE  DeclaredIn(j, src') /\ (<<j, design[j]>> \in later' \/ LinedIn(j, src'))
    <3>1. CASE <<j, design[j]>> = ip
      BY <1>9, <2>1, <2>2, <2>3, <3>1, MoreSource DEF Traced, Sourced, LinedIn
    <3>2. CASE <<j, design[j]>> # ip
      BY <2>1, <2>2, <2>3, <3>2, MoreSource DEF Traced, Sourced
    <3> QED BY <3>1, <3>2
  <2> QED BY <2>1, <2>2, <2>3, SameSource DEF Traced, Shapes, Sourced, Written
<1> QED BY <1>1, <1>2, <1>3, <1>4, <1>5, <1>6, <1>7, <1>8, <1>9

(* The passes after the source: its file is written no more.               *)
LEMMA LaterTraced ==
  ASSUME Typed, Traced,
         \/ HostsDone \/ LinksDone \/ WriteTopDL
         \/ ClientsDone \/ WriteSpec \/ KeysDone \/ LinksCharted \/ Answer
         \/ \E i \in Id : \/ AddComp(i) \/ AddSwitch(i) \/ KeepLink(i)
                          \/ AddClient(i) \/ WriteKey(i) \/ ChartLink(i) \/ WriteChart(i)
         \/ \E il \in later : LinkSubstrate(il) /\ ~LinkStuck(il[2])
  PROVE  Traced'
<1>1. /\ pc \in Written
      /\ pc' \in Written \/ (pc' = "idle" /\ answer' = "success")
      /\ pc' # "idle" => answer' = answer
      /\ UNCHANGED <<design, steady>>
      /\ src' \in {src, NoSource}
  BY DEF HostsDone, LinksDone, WriteTopDL, ClientsDone, WriteSpec, KeysDone, LinksCharted, Answer,
     AddComp, AddSwitch, KeepLink, AddClient, WriteKey, ChartLink, WriteChart, LinkSubstrate,
     Visit, Walked, To, Ends, made, Written
<1>2. /\ files' = files \/ \E f \in {"topdl", "dns", "route"} : \E v : files' = [files EXCEPT ![f] = v]
      /\ lost \subseteq lost'
  BY DEF HostsDone, LinksDone, WriteTopDL, ClientsDone, WriteSpec, KeysDone, LinksCharted, Answer,
     AddComp, AddSwitch, KeepLink, AddClient, WriteKey, ChartLink, WriteChart, LinkSubstrate,
     Visit, Write
<1>3. DOMAIN files' = DOMAIN files /\ files'.cys = files.cys
  BY <1>2 DEF Traced, Shapes
<1>4. Shapes'
  BY <1>1, <1>3 DEF Traced, Shapes, NoSource, Written
<1>5. steady => AllChecked /\ ("cys" \notin lost' => Whole(files'.cys))
  BY <1>1, <1>2, <1>3 DEF Traced, Sourced
<1> QED BY <1>1, <1>4, <1>5, SameSource DEF Traced, Sourced, Written

LEMMA NextTraced == Typed /\ Sound /\ Traced /\ [Next]_vars => Traced'
<1> SUFFICES ASSUME Typed, Sound, Traced, [Next]_vars PROVE Traced'
  OBVIOUS
<1>1. ASSUME NEW i \in Id, NEW e \in Versions(i) \cup {None}, Edit(i, e) PROVE Traced'
  BY <1>1, EditTraced
<1>2. CASE \/ OnCompile \/ Checked \/ ObjectsDone \/ LinesDone \/ WriteCys
           \/ HostsDone \/ LinksDone \/ WriteTopDL
           \/ ClientsDone \/ WriteSpec \/ KeysDone \/ LinksCharted \/ Answer
  BY <1>2, CheckTraced, SourceTraced, LaterTraced
<1>3. ASSUME NEW i \in Id,
             \/ CheckPlink(i)
             \/ PhyoSrc(i) \/ SaxSrc(i) \/ SaxPanics(i) \/ KeepPlink(i)
             \/ AddComp(i) \/ AddSwitch(i) \/ KeepLink(i)
             \/ AddClient(i) \/ WriteKey(i)
             \/ ChartLink(i) \/ WriteChart(i)
      PROVE Traced'
  BY <1>3, CheckTraced, SourceTraced, LaterTraced
<1>4. ASSUME NEW ie \in later, PlinkSrc(ie) PROVE Traced'
  BY <1>4, SourceTraced
<1>5. ASSUME NEW ie \in later, LinkSubstrate(ie) PROVE Traced'
  <2>1. CASE LinkStuck(ie[2])
    BY <1>5, <2>1, EndsTraced DEF LinkSubstrate, Panic, Traced
  <2> QED BY <1>5, <2>1, LaterTraced
<1>6. CASE Die
  <2>1. DOMAIN files' = DOMAIN files
    BY <1>6 DEF Die
  <2> QED BY <1>6, <2>1, EndsTraced DEF Die, Traced
<1>7. CASE UNCHANGED vars
  <2>1. UNCHANGED <<design, steady, answer, pc, later, todo, src, files, lost>>
    BY <1>7 DEF vars
  <2> QED BY <2>1, SameSource, SameDesign DEF Traced, Shapes, Sourced
<1> QED BY <1>1, <1>2, <1>3, <1>4, <1>5, <1>6, <1>7 DEF Next

---------------------------------------------------------------------------
(* What a source that is whole says.                                       *)

LEMMA SeesOne ==
  ASSUME NEW part \in Seq([var : STRING, by : SUBSET {"sema", "sim"}]),
         Len(part) = 1, Sees(part) # NoVar
  PROVE  Sees(part) = part[1].var /\ ToSet(part) = {part[1]}
<1> DEFINE read == { k \in DOMAIN part : "sim" \in part[k].by }
<1>1. DOMAIN part = {1}
  OBVIOUS
<1>2. read # {}
  BY DEF Sees
<1>3. read = {1}
  BY <1>1, <1>2
<1>4. Min(read) = 1
  BY <1>3 DEF Min
<1>5. Sees(part) = part[1].var
  BY <1>3, <1>4 DEF Sees
<1> QED BY <1>1, <1>5 DEF ToSet

(* What an entry of a text names is found in it.                           *)
LEMMA Contained ==
  ASSUME NEW text \in Text, ~Unreadable(text), NEW part \in ToSet(text)
  PROVE  ContainsVar(text, Sees(part))
<1>1. text \in Seq(Seq([var : STRING, by : SUBSET {"sema", "sim"}]))
  BY DEF Text
<1>2. PICK k \in DOMAIN text : part = text[k]
  BY DEF ToSet
<1>3. ASSUME NEW q \in ToSet(SubSeq(text, 1, k - 1)) PROVE q \in ToSet(text)
  <2>1. PICK j \in DOMAIN SubSeq(text, 1, k - 1) : q = SubSeq(text, 1, k - 1)[j]
    BY <1>3 DEF ToSet
  <2>2. j \in DOMAIN text /\ q = text[j]
    BY <1>1, <1>2, <2>1
  <2> QED BY <2>2 DEF ToSet
<1>4. ~Unreadable(SubSeq(text, 1, k - 1))
  BY <1>3 DEF Unreadable
<1> QED BY <1>2, <1>4 DEF ContainsVar

LEMMA PartOf ==
  ASSUME NEW s \in Text, NEW t \in Text, NEW part \in ToSet(s \o t)
  PROVE  part \in ToSet(s) \cup ToSet(t)
<1>1. /\ s \in Seq(Seq([var : STRING, by : SUBSET {"sema", "sim"}]))
      /\ t \in Seq(Seq([var : STRING, by : SUBSET {"sema", "sim"}]))
  BY DEF Text
<1>2. PICK k \in DOMAIN (s \o t) : part = (s \o t)[k]
  BY DEF ToSet
<1>3. CASE k <= Len(s)
  BY <1>1, <1>2, <1>3 DEF ToSet
<1>4. CASE k > Len(s)
  <2>1. k - Len(s) \in DOMAIN t /\ part = t[k - Len(s)]
    BY <1>1, <1>2, <1>4
  <2> QED BY <2>1 DEF ToSet
<1> QED BY <1>1, <1>2, <1>3, <1>4

(* A term of a line is declared, if what it is about is in the design.     *)
LEMMA TermDeclared ==
  ASSUME Typed, NEW i \in Id, NEW v, NEW s, Is(i, {"Sax", "Phyo"}), Legible(i), DeclaredIn(i, s),
         Is(i, {"Sax"}) => \E n \in Entries(design[i]) : n.var = v
  PROVE  /\ Term(i, v)[1] = Name[i] /\ Term(i, v)[3] = v
         /\ \/ Term(i, v) \in s.objects
            \/ Term(i, v)[2] = "phyo" /\ <<Name[i], "phyo", "all">> \in s.objects
<1>1. CASE ~Is(i, {"Sax"})
  <2>1. Term(i, v)[1] = Name[i] /\ Term(i, v)[2] = "phyo" /\ Term(i, v)[3] = v
    BY <1>1 DEF Term
  <2>2. Is(i, {"Phyo"})
    BY <1>1 DEF Is
  <2>3. <<Name[i], "phyo", "all">> \in s.objects
    BY <2>2 DEF DeclaredIn
  <2> QED BY <2>1, <2>3
<1>2. CASE Is(i, {"Sax"})
  <2> DEFINE sense == design[i].sense
             actuate == design[i].actuate
  <2>1. sense \in Text /\ actuate \in Text
    BY <1>2, KindsOfElements DEF Is, Typed, ControlOK
  <2>2. ~Unreadable(sense \o actuate)
    BY <1>2 DEF DeclaredIn
  <2>3. ~Unreadable(sense) /\ ~Unreadable(actuate)
    BY <2>1, <2>2, UnreadableParts
  <2>4. PICK part \in ToSet(sense \o actuate) : \E n \in ToSet(part) : n.var = v
    BY <1>2 DEF Entries
  <2>5. part \in ToSet(sense) \cup ToSet(actuate)
    BY <2>1, <2>4, PartOf
  <2>6. part \in Seq([var : STRING, by : SUBSET {"sema", "sim"}])
    BY <2>1, <2>5 DEF Text, ToSet
  <2>7. Len(part) = 1 /\ Sees(part) # NoVar
    BY <1>2, <2>2, <2>4 DEF Legible, Unreadable
  <2>8. Sees(part) = v
    BY <2>4, <2>6, <2>7, SeesOne
  <2>9. SaxObjects(i, design[i]) \subseteq s.objects
    BY <1>2 DEF DeclaredIn
  <2>10. ASSUME NEW text, ContainsVar(text, v) PROVE \E q \in ToSet(text) : Sees(q) = v
    BY <2>10 DEF ContainsVar, ToSet
  <2>11. CASE ContainsVar(sense, v)
    <3>1. Term(i, v) = <<Name[i], "sensor", v>>
      BY <1>2, <2>11 DEF Term, Role
    <3>2. <<Name[i], "sensor", v>> \in SaxObjects(i, design[i])
      BY <2>10, <2>11 DEF SaxObjects
    <3> QED BY <2>9, <3>1, <3>2
  <2>12. CASE ~ContainsVar(sense, v)
    <3>1. part \in ToSet(actuate)
      BY <2>1, <2>3, <2>5, <2>8, <2>12, Contained
    <3>2. ContainsVar(actuate, v)
      BY <2>1, <2>3, <2>8, <3>1, Contained
    <3>3. Term(i, v) = <<Name[i], "actuator", v>>
      BY <1>2, <2>12, <3>2 DEF Term, Role
    <3>4. <<Name[i], "actuator", v>> \in SaxObjects(i, design[i])
      BY <2>8, <3>1 DEF SaxObjects
    <3> QED BY <2>9, <3>3, <3>4
  <2> QED BY <2>11, <2>12
<1> QED BY <1>1, <1>2

LEMMA WholeMatches == Typed /\ Traced => SourceMatches
<1> SUFFICES ASSUME Typed, Traced, Compiled, "cys" \notin lost, \A i \in Id : Legible(i),
                    NEW i \in Id, Is(i, {"Plink"}), NEW n \in DOMAIN design[i].binds[1].vars
             PROVE  \E line \in files.cys.lines : \A k \in 1..2 :
                      /\ line[k][1] = Name[design[i].ends[k]]
                      /\ line[k][3] = design[i].binds[k].vars[n]
                      /\ \/ line[k] \in files.cys.objects
                         \/ line[k][2] = "phyo" /\ <<line[k][1], "phyo", "all">> \in files.cys.objects
  BY DEF SourceMatches
<1> DEFINE p == design[i]
           term(k) == Term(p.ends[k], p.binds[k].vars[n])
           line == <<term(1), term(2)>>
<1>1. pc = "idle"
  BY DEF Compiled, Traced, Shapes
<1>2. AllChecked /\ Whole(files.cys)
  BY <1>1 DEF Compiled, Traced, Sourced
<1>3. p \in Element /\ p.kind = "Plink"
  BY DEF Is, Typed, ControlOK
<1>4. /\ p.ends \in [1..2 -> Id]
      /\ p.binds \in [1..2 -> [vars : Seq(STRING), trailing : BOOLEAN]]
  BY <1>3 DEF Element
<1>5. \A k \in 1..2 : GenVars(p.binds[k]) = p.binds[k].vars
  <2>1. \A k \in 1..2 : ~p.binds[k].trailing
    BY DEF Legible
  <2> QED BY <2>1 DEF GenVars
<1>6. ~PlinkStuck(p) /\ PlinkLines(p) \subseteq files.cys.lines /\ ~PlinkFaulty(p)
  BY <1>2 DEF Whole, LinedIn, AllChecked
<1>7. line \in PlinkLines(p)
  BY <1>5 DEF PlinkLines
<1>8. \A k \in 1..2 : n \in DOMAIN p.binds[k].vars
  BY <1>4, <1>5, <1>6 DEF PlinkStuck
<1>9. ASSUME NEW k \in 1..2
      PROVE  /\ term(k)[1] = Name[p.ends[k]] /\ term(k)[3] = p.binds[k].vars[n]
             /\ \/ term(k) \in files.cys.objects
                \/ term(k)[2] = "phyo" /\ <<Name[p.ends[k]], "phyo", "all">> \in files.cys.objects
  <2> DEFINE e == p.ends[k]
  <2>1. e \in Id /\ Is(e, {"Sax", "Phyo"})
    BY <1>4 DEF Legible
  <2>2. Is(e, {"Sax"}) => \E m \in Entries(design[e]) : m.var = p.binds[k].vars[n]
    <3>1. ~EndpointFaulty(e, p.binds[k])
      BY <1>6 DEF PlinkFaulty
    <3>2. p.binds[k].vars[n] \in ToSet(p.binds[k].vars)
      BY <1>8 DEF ToSet
    <3> QED BY <3>1, <3>2 DEF EndpointFaulty, SaxFaulty
  <2>3. DeclaredIn(e, files.cys) /\ Legible(e)
    BY <1>2, <2>1 DEF Whole
  <2> DEFINE v == p.binds[k].vars[n]
             cys == files.cys
  <2> HIDE DEF e, v, cys, p
  <2>4. /\ Term(e, v)[1] = Name[e] /\ Term(e, v)[3] = v
        /\ \/ Term(e, v) \in cys.objects
           \/ Term(e, v)[2] = "phyo" /\ <<Name[e], "phyo", "all">> \in cys.objects
    <3>1. Is(e, {"Sax"}) => \E m \in Entries(design[e]) : m.var = v
      BY <2>2 DEF v
    <3>2. DeclaredIn(e, cys)
      BY <2>3 DEF cys
    <3>. QED BY <2>1, <2>3, <3>1, <3>2, TermDeclared
  <2> QED BY <2>4 DEF e, v, cys
<1>10. line[1] = term(1) /\ line[2] = term(2) /\ line \in files.cys.lines
  BY <1>6, <1>7
<1>11. \A k \in 1..2 : line[k] = term(k)
  BY <1>10
<1> HIDE DEF line, term
<1>12. ASSUME NEW k \in 1..2
       PROVE  /\ line[k][1] = Name[p.ends[k]] /\ line[k][3] = p.binds[k].vars[n]
              /\ \/ line[k] \in files.cys.objects
                 \/ line[k][2] = "phyo" /\ <<line[k][1], "phyo", "all">> \in files.cys.objects
  <2>1. /\ term(k)[1] = Name[p.ends[k]] /\ term(k)[3] = p.binds[k].vars[n]
        /\ \/ term(k) \in files.cys.objects
           \/ term(k)[2] = "phyo" /\ <<Name[p.ends[k]], "phyo", "all">> \in files.cys.objects
    BY <1>9
  <2>2. line[k] = term(k)
    BY <1>11
  <2> QED BY <2>1, <2>2
<1> QED BY <1>10, <1>12

(* Of a design that no other handler changes, whose texts sema and sim     *)
(* read alike, every pair of variables a plink binds becomes a line of     *)
(* the simulation source, and what the line speaks of is declared there:   *)
(* what sema.Check has looked at is what sim.GenerateSource relies on.     *)
THEOREM SourceSaysDesign == Spec => []SourceMatches
<1> QED BY InitTyped, NextTyped, InitSound, NextSound, InitTraced, NextTraced, WholeMatches,
           PTL DEF Spec

---------------------------------------------------------------------------
(* The topology.  What a computer has for an interface: one of the design, *)
(* or one that addie adds.                                                 *)

DnsIfx == Ifx("ifx", "dnslink")
Added(i, x) ==
  \/ x = Ifx("eth0", "krynet") /\ Is(i, {"Sax"})
  \/ x = DnsIfx /\ Is(i, {"Router"})

Equipped(i, c) ==
  /\ DOMAIN c \subseteq Nat
  /\ \A k \in DOMAIN c :
       \/ c[k].name \in design[i].ifs /\ c[k].substrate # "dnslink"
       \/ Added(i, c[k])
  /\ \A n \in design[i].ifs : \E k \in DOMAIN c :
       \A j \in DOMAIN c : c[j].name = n <=> j = k

(* One router, if there is any, is with the DNS server.                    *)
AtDns(cs) == { i \in DOMAIN cs : DnsIfx \in ToSet(cs[i].interfaces) }

Housing(cs) ==
  /\ \A i \in DOMAIN cs : /\ Is(i, Hosts) /\ Equipped(i, cs[i].interfaces)
                         /\ DOMAIN cs[i] = {"name", "interfaces"} /\ cs[i].name = Name[i]
  /\ \A i, j \in AtDns(cs) : i = j
  /\ \A i \in DOMAIN cs : Is(i, {"Router"}) => AtDns(cs) # {}

(* Whose substrate an end of a link is to be on, and its name.             *)
OwnerOf(lk) == IF Is(Near(lk), {"Switch"}) THEN Near(lk) ELSE lk[1]
SubstrateOf(lk) == Name[OwnerOf(lk)]

(* A link, and a whole design, are drawn in a topology.                    *)
DrawnEnd(lk, t) ==
  LET p == Plug(lk[1], lk[2]) IN
  p \in Plugs => /\ \A k \in DOMAIN t.computers[p[1]].interfaces :
                      t.computers[p[1]].interfaces[k].name = p[2] =>
                        t.computers[p[1]].interfaces[k].substrate = SubstrateOf(lk)
                 /\ SubstrateOf(lk) \in t.substrates
DrawnLink(l, t) == \A k \in 1..2 : DrawnEnd(<<l, k>>, t)

Drawn(t) ==
  /\ DOMAIN t.computers = { i \in Id : Is(i, Hosts) }
  /\ Housing(t.computers)
  /\ \A l \in Links : DrawnLink(l, t)

Clientele == { i \in Id : Is(i, {"Computer", "Sax"}) }

AfterTopDL == {"dns", "spec", "keys", "route", "charts"}
AfterKeys == {"route", "charts"}
Served == pc = "idle" /\ answer = "success"

(* What each pass over the design has made of it.                          *)
Topology ==
  /\ pc = "hosts" =>
       /\ Housing(xp.computers)
       /\ DOMAIN xp.computers \cap todo = {}
       /\ \A i \in Id \ todo : /\ Is(i, {"Switch"}) => Name[i] \in xp.substrates
                               /\ Is(i, {"Link"}) => <<i, design[i]>> \in later
  /\ pc = "links" =>
       /\ DOMAIN xp.computers = { i \in Id : Is(i, Hosts) }
       /\ Housing(xp.computers)
       /\ \A i \in Id : Is(i, {"Switch"}) => Name[i] \in xp.substrates
       /\ \A l \in Links : <<l, design[l]>> \in later \/ DrawnLink(l, xp)
  /\ pc = "topdl" => Drawn(xp)
  /\ pc \in AfterTopDL \/ Served => "topdl" \in lost \/ Drawn(files.topdl)

(* And who is a client of the DNS server, and has a key: S, so far.        *)
Keyed(dns, S) ==
  /\ dns.clients = Clientele
  /\ DOMAIN dns.keyed = { Label[i] : i \in S }
  /\ \A i \in S : dns.keyed[Label[i]] = i

Names ==
  /\ pc = "dns" => /\ clients \subseteq Clientele
                   /\ Clientele \ todo \subseteq clients
  /\ pc = "spec" => clients = Clientele
  /\ pc = "keys" => /\ todo \subseteq Clientele
                    /\ "dns" \in lost \/ Keyed(files.dns, Clientele \ todo)
  /\ pc \in AfterKeys \/ Served => "dns" \in lost \/ Keyed(files.dns, Clientele)

(* Every compilation begins with nothing, steady or not.                   *)
Forms ==
  /\ DOMAIN files.dns = {"clients", "keyed"}
  /\ pc \in {"idle", "check", "objects", "lines", "cys"} => xp = NoTopology
  /\ pc \in {"idle", "check", "objects", "lines", "cys", "hosts", "links", "topdl"} => clients = {}

Depicted == Forms /\ (steady /\ Drawable => Topology /\ Names)

---------------------------------------------------------------------------
LEMMA PlugsKnown ==
  /\ \A p \in Plugs : /\ p = <<p[1], p[2]>> /\ p[1] \in Id
                      /\ Is(p[1], Hosts) /\ p[2] \in design[p[1]].ifs
  /\ \A i \in Id : \A n : Is(i, Hosts) /\ n \in design[i].ifs => <<i, n>> \in Plugs
BY DEF Plugs

LEMMA LinksKnown ==
  ASSUME Typed, NEW l \in Links
  PROVE  /\ l \in Id /\ design[l] # None /\ design[l].kind = "Link"
         /\ design[l].ends \in [1..2 -> [id : Id, ifname : STRING]]
         /\ \A k \in 1..2 : design[l].ends[k].id \in Id
<1>1. l \in Id /\ Is(l, {"Link"})
  BY DEF Links
<1>2. design[l] \in Element /\ design[l].kind = "Link"
  BY <1>1 DEF Is, Typed, ControlOK
<1>. QED BY <1>1, <1>2, KindsOfElements DEF Is

(* Sequences made of sets.                                                 *)
LEMMA TodoOf ==
  ASSUME NEW ifs \in Interfaces
  PROVE  /\ Todo(ifs) \in Seq([name : ifs, substrate : {"TODO"}])
         /\ \A k \in DOMAIN Todo(ifs) :
              Todo(ifs)[k].name \in ifs /\ Todo(ifs)[k].substrate = "TODO"
         /\ \A n \in ifs : \E k \in DOMAIN Todo(ifs) :
              \A j \in DOMAIN Todo(ifs) : Todo(ifs)[j].name = n <=> j = k
<1> DEFINE n == Cardinality(ifs)
           s == SetToSeq(ifs)
<1>1. n \in Nat /\ ExistsBijection(1..n, ifs) /\ IsFiniteSet(ifs)
  BY FS_CardinalityType DEF Interfaces
<1>2. \E f \in [1..n -> ifs] : IsInjective(f)
  BY <1>1 DEF ExistsBijection, Bijection, Injection
<1>3. s \in [1..n -> ifs] /\ IsInjective(s)
  BY <1>2 DEF SetToSeq
<1>4. s \in Surjection(1..n, ifs)
  <2>1. IsFiniteSet(1..n) /\ Cardinality(1..n) = n
    BY <1>1, FS_Interval
  <2>2. s \in Injection(1..n, ifs)
    BY <1>3 DEF Injection
  <2>. QED BY <1>1, <2>1, <2>2, FS_Injection
<1>5. \A x \in ifs : \E k \in 1..n : s[k] = x
  BY <1>4 DEF Surjection, Range
<1> HIDE DEF n, s
<1>6. Todo(ifs) = [k \in 1..n |-> [name |-> s[k], substrate |-> "TODO"]]
  BY <1>3 DEF Todo, Ifx, s
<1>7. Todo(ifs) \in Seq([name : ifs, substrate : {"TODO"}])
  BY <1>1, <1>3, <1>6, SeqDef
<1>8. ASSUME NEW x \in ifs
      PROVE  \E k \in DOMAIN Todo(ifs) : \A j \in DOMAIN Todo(ifs) : Todo(ifs)[j].name = x <=> j = k
  BY <1>3, <1>5, <1>6 DEF IsInjective
<1>9. \A k \in DOMAIN Todo(ifs) : Todo(ifs)[k].name \in ifs /\ Todo(ifs)[k].substrate = "TODO"
  BY <1>3, <1>6
<1>. QED BY <1>7, <1>8, <1>9

LEMMA HostsEquipped ==
  ASSUME Typed, NEW i \in Id, Is(i, Hosts)
  PROVE  design[i].ifs \in Interfaces /\ design[i].ifs \subseteq STRING
<1>1. design[i] \in Element /\ design[i].kind \in Hosts
  BY DEF Is, Typed, ControlOK
<1>. QED BY <1>1 DEF Element, Hosts, Interfaces

(* What a host is given when it is visited.                                *)
LEMMA CompEquipped ==
  ASSUME Typed, Drawable, NEW i \in Id, Is(i, Hosts)
  PROVE  /\ Equipped(i, Ifaces(i))
         /\ DnsIfx \in ToSet(Ifaces(i)) <=> Is(i, {"Router"}) /\ FirstRouter
<1> DEFINE ifs == design[i].ifs
           ts == Todo(ifs)
           Given(c, x) ==
             /\ DOMAIN c \subseteq Nat
             /\ \A k \in DOMAIN c : (c[k].name \in ifs /\ c[k].substrate = "TODO") \/ c[k] = x
             /\ \A n \in ifs : \E k \in DOMAIN c : \A j \in DOMAIN c : c[j].name = n <=> j = k
<1>1. ts \in Seq([name : ifs, substrate : {"TODO"}])
      /\ \A n \in ifs : \E k \in DOMAIN ts : \A j \in DOMAIN ts : ts[j].name = n <=> j = k
  BY TodoOf, HostsEquipped
<1>2. \A k \in DOMAIN ts : ts[k].name \in ifs /\ ts[k].substrate = "TODO"
  BY TodoOf, HostsEquipped
<1> HIDE DEF ts
<1>3. ASSUME NEW x, x.name \notin ifs PROVE Given(<<x>> \o ts, x) /\ x \in ToSet(<<x>> \o ts)
  <2> DEFINE c == <<x>> \o ts
  <2>1. DOMAIN c = 1..(Len(ts) + 1) /\ c[1] = x /\ DOMAIN ts = 1..Len(ts) /\ Len(ts) \in Nat
        /\ \A k \in DOMAIN ts : c[k + 1] = ts[k]
    BY <1>1
  <2> HIDE DEF c
  <2>2. \A k \in DOMAIN c : k # 1 => k - 1 \in DOMAIN ts /\ c[k] = ts[k - 1]
    BY <2>1
  <2>3. ASSUME NEW n \in ifs
        PROVE  \E k \in DOMAIN c : \A j \in DOMAIN c : c[j].name = n <=> j = k
    <3>1. PICK k \in DOMAIN ts : \A j \in DOMAIN ts : ts[j].name = n <=> j = k
      BY <1>1
    <3>2. k + 1 \in DOMAIN c /\ k \in Nat
      BY <2>1
    <3>3. ASSUME NEW j \in DOMAIN c PROVE c[j].name = n <=> j = k + 1
      <4>1. CASE j = 1
        BY <1>3, <2>1, <3>2, <4>1
      <4>2. CASE j # 1
        BY <2>1, <2>2, <3>1, <3>2, <4>2
      <4>. QED BY <4>1, <4>2
    <3>. QED BY <3>2, <3>3
  <2>4. \A k \in DOMAIN c : (c[k].name \in ifs /\ c[k].substrate = "TODO") \/ c[k] = x
    BY <1>2, <2>1, <2>2
  <2>5. x \in ToSet(c)
    BY <2>1 DEF ToSet
  <2>6. DOMAIN c \subseteq Nat
    BY <2>1
  <2>. QED BY <2>3, <2>4, <2>5, <2>6 DEF c
<1>4. ASSUME NEW x, x.name \notin ifs PROVE Given(Append(ts, x), x) /\ x \in ToSet(Append(ts, x))
  <2> DEFINE c == Append(ts, x)
  <2>1. DOMAIN c = 1..(Len(ts) + 1) /\ c[Len(ts) + 1] = x /\ DOMAIN ts = 1..Len(ts)
        /\ Len(ts) \in Nat /\ \A k \in DOMAIN ts : c[k] = ts[k]
    BY <1>1
  <2> HIDE DEF c
  <2>2. \A k \in DOMAIN c : k \in DOMAIN ts \/ k = Len(ts) + 1
    BY <2>1
  <2>3. ASSUME NEW n \in ifs
        PROVE  \E k \in DOMAIN c : \A j \in DOMAIN c : c[j].name = n <=> j = k
    <3>1. PICK k \in DOMAIN ts : \A j \in DOMAIN ts : ts[j].name = n <=> j = k
      BY <1>1
    <3>2. k \in DOMAIN c
      BY <2>1
    <3>3. ASSUME NEW j \in DOMAIN c PROVE c[j].name = n <=> j = k
      <4>1. CASE j = Len(ts) + 1
        BY <1>4, <2>1, <4>1
      <4>2. CASE j \in DOMAIN ts
        BY <2>1, <3>1, <4>2
      <4>. QED BY <2>2, <4>1, <4>2
    <3>. QED BY <3>2, <3>3
  <2>4. \A k \in DOMAIN c : (c[k].name \in ifs /\ c[k].substrate = "TODO") \/ c[k] = x
    BY <1>2, <2>1, <2>2
  <2>5. x \in ToSet(c)
    BY <2>1 DEF ToSet
  <2>6. DOMAIN c \subseteq Nat
    BY <2>1
  <2>. QED BY <2>3, <2>4, <2>5, <2>6 DEF c
<1>5. \A c, x : Given(c, x) /\ Added(i, x) => Equipped(i, c)
  BY DEF Equipped
<1>6. \A c, x : Given(c, x) /\ x # DnsIfx => DnsIfx \notin ToSet(c)
  BY DEF ToSet, DnsIfx, Ifx
<1> HIDE DEF Given
<1>7. CASE Is(i, {"Sax"})
  <2> DEFINE x == Ifx("eth0", "krynet")
  <2>1. x.name \notin ifs /\ Added(i, x) /\ x # DnsIfx /\ ~Is(i, {"Router"})
    BY <1>7 DEF Drawable, Ifx, Added, DnsIfx, Is
  <2>2. Ifaces(i) = <<x>> \o ts
    BY <1>7, <2>1 DEF Ifaces, ts
  <2> HIDE DEF x
  <2>. QED BY <1>3, <1>5, <1>6, <2>1, <2>2
<1>8. CASE Is(i, {"Router"}) /\ FirstRouter
  <2>1. DnsIfx.name \notin ifs /\ Added(i, DnsIfx) /\ ~Is(i, {"Sax"})
    BY <1>8 DEF Drawable, Ifx, Added, DnsIfx, Is
  <2>2. Ifaces(i) = Append(ts, DnsIfx)
    BY <1>8, <2>1 DEF Ifaces, ts, DnsIfx
  <2>. QED BY <1>4, <1>5, <1>8, <2>1, <2>2
<1>9. CASE ~Is(i, {"Sax"}) /\ ~(Is(i, {"Router"}) /\ FirstRouter)
  <2>1. Ifaces(i) = ts
    BY <1>9 DEF Ifaces, ts
  <2>2. Equipped(i, ts)
    <3>1. DOMAIN ts \subseteq Nat
      BY <1>1
    <3>. QED BY <1>1, <1>2, <3>1 DEF Equipped
  <2>3. DnsIfx \notin ToSet(ts)
    BY <1>2 DEF ToSet, DnsIfx, Ifx
  <2>. QED BY <1>9, <2>1, <2>2, <2>3
<1>. QED BY <1>7, <1>8, <1>9

(* An interface of the design is put on a substrate.                       *)
LEMMA UpdateKeepsEquipped ==
  ASSUME Drawable, NEW i \in Id, NEW c, Equipped(i, c), NEW n \in design[i].ifs,
         NEW ss, ss # "dnslink"
  PROVE  LET u == UpdateIfxSubstrate(c, n, ss) IN
         /\ Equipped(i, u)
         /\ DOMAIN u = DOMAIN c
         /\ \A k \in DOMAIN c :
              /\ u[k].name = c[k].name
              /\ c[k].name = n => u[k].substrate = ss
              /\ c[k].name # n => u[k] = c[k]
         /\ DnsIfx \in ToSet(u) <=> DnsIfx \in ToSet(c)
<1> DEFINE u == UpdateIfxSubstrate(c, n, ss)
<1>1. PICK m \in DOMAIN c : \A j \in DOMAIN c : c[j].name = n <=> j = m
  BY DEF Equipped
<1>2. DOMAIN u = DOMAIN c /\ u[m] = Ifx(n, ss) /\ \A k \in DOMAIN c : k # m => u[k] = c[k]
  <2>1. { k \in DOMAIN c : c[k].name = n } = {m}
    BY <1>1
  <2>2. m \in Nat
    BY <1>1 DEF Equipped
  <2>. QED BY <2>1, <2>2, <1>1 DEF UpdateIfxSubstrate
<1> HIDE DEF u
<1>3. \A k \in DOMAIN c : /\ u[k].name = c[k].name
                          /\ c[k].name = n => u[k].substrate = ss
                          /\ c[k].name # n => u[k] = c[k]
  BY <1>1, <1>2 DEF Ifx
<1>4. \A k \in DOMAIN u : \/ u[k].name \in design[i].ifs /\ u[k].substrate # "dnslink"
                          \/ Added(i, u[k])
  BY <1>1, <1>2 DEF Equipped, Ifx
<1>5. ASSUME NEW x \in design[i].ifs
      PROVE  \E k \in DOMAIN u : \A j \in DOMAIN u : u[j].name = x <=> j = k
  BY <1>2, <1>3 DEF Equipped
<1>6. Equipped(i, u)
  BY <1>2, <1>4, <1>5 DEF Equipped
<1>7. c[m] # DnsIfx
  <2>1. SUFFICES ASSUME c[m] = DnsIfx PROVE FALSE
    OBVIOUS
  <2>2. c[m].substrate = "dnslink" /\ c[m].name = "ifx" /\ "dnslink" # "krynet"
    BY <2>1 DEF DnsIfx, Ifx
  <2>3. Is(i, {"Router"})
    BY <2>2 DEF Equipped, Added, Ifx
  <2>. QED BY <1>1, <2>2, <2>3 DEF Drawable
<1>8. u[m] # DnsIfx
  BY <1>2 DEF DnsIfx, Ifx
<1>9. DnsIfx \in ToSet(u) <=> DnsIfx \in ToSet(c)
  BY <1>2, <1>7, <1>8 DEF ToSet
<1>. QED BY <1>2, <1>3, <1>6, <1>9 DEF u

LEMMA OneLinkPerPlug ==
  ASSUME Drawable, NEW l \in Links, NEW m \in Links, NEW j \in 1..2, NEW k \in 1..2,
         Plug(l, j) \in Plugs, Plug(m, k) = Plug(l, j)
  PROVE  l = m /\ j = k
<1> DEFINE p == Plug(l, j)
<1>1. PICK lk \in Links \X (1..2) :
        \A mk \in Links \X (1..2) : Plug(mk[1], mk[2]) = p <=> mk = lk
  BY DEF Drawable
<1>2. <<l, j>> = lk
  BY <1>1
<1>3. <<m, k>> = lk
  BY <1>1
<1>. QED BY <1>2, <1>3

(* An end of a link is a plug, or at a switch.                             *)
LEMMA EndsOfLinks ==
  ASSUME Typed, Drawable, NEW l \in Links
  PROVE  /\ \A k \in 1..2 : Is(design[l].ends[k].id, Hosts) <=> Plug(l, k) \in Plugs
         /\ \A k \in 1..2 : ~Is(design[l].ends[k].id, Hosts) <=> Is(design[l].ends[k].id, {"Switch"})
         /\ \E k \in 1..2 : Plug(l, k) \in Plugs
         /\ ~Dangling(design[l])
         /\ \A k \in 1..2 : SubstrateOf(<<l, k>>) # "dnslink"
<1>1. ASSUME NEW k \in 1..2
      PROVE  /\ Is(design[l].ends[k].id, Hosts) <=> Plug(l, k) \in Plugs
             /\ ~Is(design[l].ends[k].id, Hosts) <=> Is(design[l].ends[k].id, {"Switch"})
             /\ design[design[l].ends[k].id] # None
  <2>1. Plug(l, k) \in Plugs \/ Is(design[l].ends[k].id, {"Switch"})
    BY DEF Drawable
  <2>2. Plug(l, k) \in Plugs => Is(design[l].ends[k].id, Hosts)
    BY PlugsKnown DEF Plug
  <2>3. ~(Is(design[l].ends[k].id, Hosts) /\ Is(design[l].ends[k].id, {"Switch"}))
    BY DEF Is, Hosts
  <2>4. Is(design[l].ends[k].id, Hosts) \/ Is(design[l].ends[k].id, {"Switch"})
    BY <2>1, <2>2
  <2>. QED BY <2>1, <2>2, <2>3, <2>4 DEF Is
<1>2. \E k \in 1..2 : Plug(l, k) \in Plugs
  BY DEF Drawable
<1>3. ~Dangling(design[l])
  BY <1>1 DEF Dangling
<1>4. ASSUME NEW k \in 1..2 PROVE SubstrateOf(<<l, k>>) # "dnslink"
  <2>1. l \in Id /\ Is(l, {"Link", "Switch"})
    BY LinksKnown DEF Is
  <2>2. 3 - k \in 1..2 /\ Near(<<l, k>>) = design[l].ends[3 - k].id
    BY DEF Near
  <2>3. Near(<<l, k>>) \in Id
    BY <2>2, LinksKnown
  <2>4. Is(Near(<<l, k>>), {"Switch"}) => Is(Near(<<l, k>>), {"Link", "Switch"})
    BY DEF Is
  <2>5. OwnerOf(<<l, k>>) \in Id /\ Is(OwnerOf(<<l, k>>), {"Link", "Switch"})
    BY <2>1, <2>3, <2>4 DEF OwnerOf
  <2>. QED BY <2>5 DEF SubstrateOf, Drawable
<1>. QED BY <1>1, <1>2, <1>3, <1>4

(* A host has its interface at an end of a link put on a substrate.        *)
Moved(cs, ds, p, ss) ==
  /\ DOMAIN ds = DOMAIN cs
  /\ \A i \in DOMAIN cs :
       LET c == cs[i].interfaces  d == ds[i].interfaces IN
       /\ DOMAIN d = DOMAIN c
       /\ \A k \in DOMAIN c :
            /\ d[k].name = c[k].name
            /\ <<i, c[k].name>> = p => d[k].substrate = ss
            /\ <<i, c[k].name>> # p => d[k] = c[k]

LEMMA EndpointMoves ==
  ASSUME Typed, Drawable, NEW cs, Housing(cs), DOMAIN cs \subseteq Id, NEW e, <<e.id, e.ifname>> \in Plugs,
         e.id \in DOMAIN cs, NEW ss, ss # "dnslink"
  PROVE  LET ds == UpdateEndpoint(cs, e, ss) IN
         Housing(ds) /\ Moved(cs, ds, <<e.id, e.ifname>>, ss)
<1> DEFINE ds == UpdateEndpoint(cs, e, ss)
           c == cs[e.id].interfaces
           u == UpdateIfxSubstrate(c, e.ifname, ss)
<1>1. e.id \in Id /\ e.ifname \in design[e.id].ifs
  BY PlugsKnown
<1>2. Equipped(e.id, c)
  BY DEF Housing
<1>3. /\ Equipped(e.id, u)
      /\ DOMAIN u = DOMAIN c
      /\ \A k \in DOMAIN c :
           /\ u[k].name = c[k].name
           /\ c[k].name = e.ifname => u[k].substrate = ss
           /\ c[k].name # e.ifname => u[k] = c[k]
      /\ DnsIfx \in ToSet(u) <=> DnsIfx \in ToSet(c)
  BY <1>1, <1>2, UpdateKeepsEquipped
<1>4. /\ DOMAIN ds = DOMAIN cs /\ \A i \in DOMAIN cs : i # e.id => ds[i] = cs[i]
      /\ DOMAIN ds[e.id] = {"name", "interfaces"}
      /\ ds[e.id].name = cs[e.id].name /\ ds[e.id].interfaces = u
  <2>1. DOMAIN cs[e.id] = {"name", "interfaces"}
    BY DEF Housing
  <2>. QED BY <2>1 DEF UpdateEndpoint
<1> HIDE DEF ds, u
<1>5. Moved(cs, ds, <<e.id, e.ifname>>, ss)
  BY <1>3, <1>4 DEF Moved
<1>6. AtDns(ds) = AtDns(cs)
  BY <1>3, <1>4 DEF AtDns
<1>7. \A i \in DOMAIN ds : /\ Is(i, Hosts) /\ Equipped(i, ds[i].interfaces)
                          /\ DOMAIN ds[i] = {"name", "interfaces"} /\ ds[i].name = Name[i]
  BY <1>3, <1>4 DEF Housing
<1>8. Housing(ds)
  BY <1>4, <1>6, <1>7 DEF Housing
<1>. QED BY <1>5, <1>8 DEF ds

(* A link puts its ends on the substrates they are to be on, and moves no  *)
(* other interface.                                                        *)
LEMMA LinkDraws ==
  ASSUME Typed, Drawable, NEW l \in Links, Housing(xp.computers),
         DOMAIN xp.computers = { i \in Id : Is(i, Hosts) },
         \A i \in Id : Is(i, {"Switch"}) => Name[i] \in xp.substrates,
         NEW t, t = Linked(l, design[l])
  PROVE  /\ Housing(t.computers) /\ DOMAIN t.computers = DOMAIN xp.computers
         /\ xp.substrates \subseteq t.substrates
         /\ DrawnLink(l, t)
         /\ \A m \in Links : DrawnLink(m, xp) => DrawnLink(m, t)
<1> DEFINE d == design[l]
           P(k) == Plug(l, k)
           S(k) == SubstrateOf(<<l, k>>)
           cs == xp.computers
<1>1. ~Dangling(d) /\ HostEnds(d) # {} /\ HostEnds(d) = { k \in 1..2 : P(k) \in Plugs }
  BY EndsOfLinks DEF HostEnds
<1>2. \A k \in 1..2 : /\ P(k) = <<d.ends[k].id, d.ends[k].ifname>>
                      /\ S(k) # "dnslink"
                      /\ P(k) \in Plugs =>
                           d.ends[k].id \in DOMAIN cs /\ ~Is(d.ends[k].id, {"Switch"})
  BY EndsOfLinks, LinksKnown DEF Plug
<1>3. DOMAIN xp = {"computers", "substrates"}
  BY DEF Typed, MadeOK
<1>4. /\ Housing(t.computers)
      /\ DOMAIN t.computers = DOMAIN cs /\ xp.substrates \subseteq t.substrates
      /\ \A k \in 1..2 : P(k) \in Plugs => S(k) \in t.substrates
      /\ \A i \in DOMAIN cs :
           LET c == cs[i].interfaces  u == t.computers[i].interfaces IN
           /\ DOMAIN u = DOMAIN c
           /\ \A j \in DOMAIN c :
                /\ u[j].name = c[j].name
                /\ \A k \in 1..2 : P(k) = <<i, c[j].name>> /\ P(k) \in Plugs =>
                     u[j].substrate = S(k)
                /\ (\A k \in 1..2 : P(k) \in Plugs => P(k) # <<i, c[j].name>>) =>
                     u[j] = c[j]
  <2>1. CASE HostEnds(d) = 1..2
    <3> DEFINE ds == UpdateEndpoint(cs, d.ends[1], Name[l])
               es == UpdateEndpoint(ds, d.ends[2], Name[l])
    <3>1. t = [computers |-> es, substrates |-> xp.substrates \cup {Name[l]}]
      BY <1>1, <2>1 DEF Linked
    <3>2. P(1) \in Plugs /\ P(2) \in Plugs
      BY <1>1, <2>1
    <3>3. S(1) = Name[l] /\ S(2) = Name[l]
      <4>1. Near(<<l, 1>>) = d.ends[2].id /\ Near(<<l, 2>>) = d.ends[1].id
        BY DEF Near
      <4>2. ~Is(d.ends[1].id, {"Switch"}) /\ ~Is(d.ends[2].id, {"Switch"})
        BY <1>2, <3>2
      <4>. QED BY <4>1, <4>2 DEF SubstrateOf, OwnerOf
    <3>4. Housing(ds) /\ Moved(cs, ds, P(1), Name[l])
      BY <1>2, <3>2, <3>3, EndpointMoves
    <3>5. DOMAIN ds = DOMAIN cs
      BY <3>4 DEF Moved
    <3> HIDE DEF ds
    <3>6. Housing(es) /\ Moved(ds, es, P(2), Name[l])
      BY <1>2, <3>2, <3>3, <3>4, <3>5, EndpointMoves
    <3> HIDE DEF es, P, S
    <3>7. DOMAIN es = DOMAIN cs
      BY <3>4, <3>6 DEF Moved
    <3>8. ASSUME NEW i \in DOMAIN cs
          PROVE  LET c == cs[i].interfaces  u == es[i].interfaces IN
                 /\ DOMAIN u = DOMAIN c
                 /\ \A j \in DOMAIN c :
                      /\ u[j].name = c[j].name
                      /\ P(1) = <<i, c[j].name>> \/ P(2) = <<i, c[j].name>> => u[j].substrate = Name[l]
                      /\ P(1) # <<i, c[j].name>> /\ P(2) # <<i, c[j].name>> => u[j] = c[j]
      BY <3>4, <3>6 DEF Moved
    <3>9. t.computers = es /\ t.substrates = xp.substrates \cup {Name[l]}
      BY <3>1
    <3>. QED BY <3>2, <3>3, <3>6, <3>7, <3>8, <3>9
  <2>2. CASE HostEnds(d) # 1..2
    <3> DEFINE k == CHOOSE k \in 1..2 : k \in HostEnds(d)
               sw == d.ends[3 - k].id
               ss == Name[sw]
               ds == UpdateEndpoint(cs, d.ends[k], ss)
    <3>1. k \in HostEnds(d) /\ k \in 1..2 /\ 3 - k \in 1..2 /\ 3 - k \notin HostEnds(d)
          /\ \A j \in 1..2 : j = k \/ j = 3 - k
      <4>1. k \in HostEnds(d) /\ k \in 1..2
        BY <1>1
      <4>. QED BY <4>1, <1>1, <2>2
    <3>2. t = [xp EXCEPT !.computers = ds]
      BY <1>1, <2>2 DEF Linked
    <3> HIDE DEF k
    <3>3. t.computers = ds /\ t.substrates = xp.substrates
      BY <1>3, <3>2
    <3>4. Is(sw, {"Switch"}) /\ P(k) \in Plugs /\ P(3 - k) \notin Plugs
      BY <1>1, <3>1, EndsOfLinks
    <3>5. S(k) = ss /\ sw \in Id
      <4>1. Near(<<l, k>>) = sw
        BY DEF Near
      <4>2. sw \in Id
        BY <3>1, LinksKnown
      <4>. QED BY <3>4, <4>1, <4>2 DEF SubstrateOf, OwnerOf
    <3>6. Housing(ds) /\ Moved(cs, ds, P(k), ss)
      BY <1>2, <3>1, <3>4, <3>5, EndpointMoves
    <3>7. ss \in t.substrates
      BY <3>3, <3>4, <3>5
    <3> HIDE DEF ds, P, S, ss
    <3>. QED BY <3>1, <3>3, <3>4, <3>5, <3>6, <3>7 DEF Moved
  <2>. QED BY <2>1, <2>2
<1>5. DrawnLink(l, t)
  <2>1. ASSUME NEW k \in 1..2, P(k) \in Plugs, NEW j \in DOMAIN t.computers[P(k)[1]].interfaces,
               t.computers[P(k)[1]].interfaces[j].name = P(k)[2]
        PROVE  t.computers[P(k)[1]].interfaces[j].substrate = S(k)
    <3>1. P(k) = <<P(k)[1], P(k)[2]>> /\ P(k)[1] \in DOMAIN cs
      BY <1>2, <2>1, PlugsKnown
    <3>2. j \in DOMAIN cs[P(k)[1]].interfaces
          /\ P(k) = <<P(k)[1], cs[P(k)[1]].interfaces[j].name>>
      BY <1>4, <2>1, <3>1
    <3>. QED BY <1>4, <2>1, <3>1, <3>2
  <2>. QED BY <1>4, <2>1 DEF DrawnLink, DrawnEnd
<1>6. ASSUME NEW m \in Links, m # l, DrawnLink(m, xp), NEW k \in 1..2 PROVE DrawnEnd(<<m, k>>, t)
  <2> DEFINE p == Plug(m, k)
  <2>1. SUFFICES ASSUME p \in Plugs
                 PROVE  /\ \A j \in DOMAIN t.computers[p[1]].interfaces :
                             t.computers[p[1]].interfaces[j].name = p[2] =>
                               t.computers[p[1]].interfaces[j].substrate = SubstrateOf(<<m, k>>)
                        /\ SubstrateOf(<<m, k>>) \in t.substrates
    BY DEF DrawnEnd
  <2>2. \A e \in 1..2 : P(e) \in Plugs => P(e) # p
    BY <1>6, <2>1, OneLinkPerPlug
  <2>3. DrawnEnd(<<m, k>>, xp)
    BY <1>6 DEF DrawnLink
  <2>4. p[1] \in DOMAIN cs /\ p = <<p[1], p[2]>>
    BY <2>1, PlugsKnown
  <2>5. SubstrateOf(<<m, k>>) \in xp.substrates
        /\ \A j \in DOMAIN cs[p[1]].interfaces :
             cs[p[1]].interfaces[j].name = p[2] =>
               cs[p[1]].interfaces[j].substrate = SubstrateOf(<<m, k>>)
    BY <2>1, <2>3 DEF DrawnEnd
  <2> HIDE DEF p, P
  <2>. QED BY <1>4, <2>2, <2>4, <2>5
<1>. QED BY <1>4, <1>5, <1>6 DEF DrawnLink

---------------------------------------------------------------------------
(* What a topology that is drawn says.                                     *)

LEMMA OneOfName ==
  ASSUME Drawable, NEW t, Drawn(t), NEW i \in Id, Is(i, Hosts)
  PROVE  Named(t, Name[i]) = {i}
<1>1. \A j \in DOMAIN t.computers : j \in Id /\ Is(j, Hosts) /\ t.computers[j].name = Name[j]
  BY DEF Drawn, Housing
<1>2. i \in DOMAIN t.computers
  BY DEF Drawn
<1>3. \A j \in Id : Is(j, Hosts) /\ Name[j] = Name[i] => j = i
  BY DEF Drawable
<1>. QED BY <1>1, <1>2, <1>3 DEF Named

LEMMA DrawnSubstrates ==
  ASSUME Typed, Drawable, NEW t, Drawn(t), NEW p \in Plugs
  PROVE  \E l \in Links, k \in 1..2 :
           /\ Plug(l, k) = p /\ SubstratesOf(t, p) = {SubstrateOf(<<l, k>>)}
           /\ SubstrateOf(<<l, k>>) \in t.substrates
<1>1. PICK lk \in Links \X (1..2) : Plug(lk[1], lk[2]) = p
  BY DEF Drawable
<1>2. PICK l \in Links, k \in 1..2 : lk = <<l, k>>
  OBVIOUS
<1> DEFINE s == SubstrateOf(<<l, k>>)
           c == t.computers[p[1]].interfaces
<1>3. Plug(l, k) = p
  BY <1>1, <1>2
<1>4. DrawnEnd(<<l, k>>, t)
  BY DEF Drawn, DrawnLink
<1>5. s \in t.substrates /\ \A j \in DOMAIN c : c[j].name = p[2] => c[j].substrate = s
  BY <1>3, <1>4 DEF DrawnEnd
<1>6. p[1] \in DOMAIN t.computers /\ p[2] \in design[p[1]].ifs
  BY PlugsKnown DEF Drawn
<1>7. \E j \in DOMAIN c : c[j].name = p[2]
  BY <1>6 DEF Drawn, Housing, Equipped
<1>8. SubstratesOf(t, p) = { x.substrate : x \in { x \in ToSet(c) : x.name = p[2] } }
  <2>1. Named(t, Name[p[1]]) = {p[1]}
    BY PlugsKnown, OneOfName
  <2>2. UNION { ToSet(t.computers[i].interfaces) : i \in Named(t, Name[p[1]]) } = ToSet(c)
    BY <2>1
  <2>. QED BY <2>2 DEF SubstratesOf
<1> HIDE DEF c, s
<1>9. SubstratesOf(t, p) = {s}
  BY <1>5, <1>7, <1>8 DEF ToSet
<1>. QED BY <1>3, <1>5, <1>9 DEF s

(* Where a plug is to be: at the switch it leads to, or on its link.       *)
LEMMA SubstratesJoin ==
  ASSUME Typed, Drawable,
         NEW l \in Links, NEW k \in 1..2, NEW m \in Links, NEW j \in 1..2,
         Plug(l, k) \in Plugs, Plug(m, j) \in Plugs, Plug(l, k) # Plug(m, j)
  PROVE  SubstrateOf(<<l, k>>) = SubstrateOf(<<m, j>>) <=> Joined(Plug(l, k), Plug(m, j))
<1> DEFINE p == Plug(l, k)
           q == Plug(m, j)
           a == design[l].ends[3 - k].id
           b == design[m].ends[3 - j].id
<1>1. Near(<<l, k>>) = a /\ Near(<<m, j>>) = b /\ a \in Id /\ b \in Id
  BY LinksKnown DEF Near
<1>2. ~Is(l, {"Switch"}) /\ ~Is(m, {"Switch"})
  BY DEF Links, Is
<1>3. ASSUME OwnerOf(<<l, k>>) = OwnerOf(<<m, j>>) PROVE Joined(p, q)
  <2>1. CASE Is(a, {"Switch"})
    <3>1. Is(b, {"Switch"}) /\ a = b
      BY <1>1, <1>2, <1>3, <2>1 DEF OwnerOf
    <3>2. p \in On(a) /\ q \in On(a)
      <4>1. <<l, k>> \in Links \X (1..2) /\ <<m, j>> \in Links \X (1..2)
        OBVIOUS
      <4>. QED BY <3>1, <4>1 DEF On
    <3>. QED BY <1>1, <2>1, <3>2 DEF Joined
  <2>2. CASE ~Is(a, {"Switch"})
    <3>1. l = m
      BY <1>1, <1>2, <1>3, <2>2 DEF OwnerOf
    <3>2. {k, j} = 1..2
      BY <3>1
    <3>3. {Plug(l, 1), Plug(l, 2)} = {p, q}
      BY <3>1, <3>2
    <3>. QED BY <3>3 DEF Joined
  <2>. QED BY <2>1, <2>2
<1>4. ASSUME NEW n \in Links, {Plug(n, 1), Plug(n, 2)} = {p, q}
      PROVE  OwnerOf(<<l, k>>) = OwnerOf(<<m, j>>)
  <2>1. l = n /\ m = n
    <3>1. PICK x \in 1..2, y \in 1..2 : Plug(n, x) = p /\ Plug(n, y) = q
      BY <1>4
    <3>. QED BY <3>1, OneLinkPerPlug
  <2>2. k # j
    BY <2>1
  <2>3. 3 - k = j /\ 3 - j = k
    BY <2>2
  <2>4. ~Is(a, {"Switch"}) /\ ~Is(b, {"Switch"})
    BY <2>1, <2>3, EndsOfLinks
  <2>. QED BY <1>1, <2>1, <2>4 DEF OwnerOf
<1>5. ASSUME NEW s \in Id, Is(s, {"Switch"}), {p, q} \subseteq On(s)
      PROVE  OwnerOf(<<l, k>>) = OwnerOf(<<m, j>>)
  <2>1. ASSUME NEW r \in Plugs, r \in On(s), NEW n \in Links, NEW x \in 1..2, Plug(n, x) = r
        PROVE  design[n].ends[3 - x].id = s
    <3>1. PICK lk \in Links \X (1..2) :
            Plug(lk[1], lk[2]) = r /\ design[lk[1]].ends[3 - lk[2]].id = s
      BY <2>1 DEF On
    <3>2. lk[1] = n /\ lk[2] = x
      BY <2>1, <3>1, OneLinkPerPlug
    <3>. QED BY <3>1, <3>2
  <2>2. a = s /\ b = s
    BY <1>5, <2>1
  <2>. QED BY <1>1, <1>5, <2>2 DEF OwnerOf
<1>6. SubstrateOf(<<l, k>>) = SubstrateOf(<<m, j>>) => OwnerOf(<<l, k>>) = OwnerOf(<<m, j>>)
  <2>1. l \in Id /\ m \in Id /\ Is(l, {"Link", "Switch"}) /\ Is(m, {"Link", "Switch"})
    BY DEF Links, Is
  <2>2. /\ OwnerOf(<<l, k>>) \in Id /\ Is(OwnerOf(<<l, k>>), {"Link", "Switch"})
        /\ OwnerOf(<<m, j>>) \in Id /\ Is(OwnerOf(<<m, j>>), {"Link", "Switch"})
    BY <1>1, <2>1 DEF OwnerOf, Is
  <2>. QED BY <2>2 DEF SubstrateOf, Drawable
<1>. QED BY <1>3, <1>4, <1>5, <1>6 DEF Joined, SubstrateOf

LEMMA PlugsJoined ==
  ASSUME Typed, Drawable, NEW t, Drawn(t), NEW p \in Plugs, NEW q \in Plugs, p # q
  PROVE  SubstratesOf(t, p) = SubstratesOf(t, q) <=> Joined(p, q)
<1>1. PICK l \in Links, k \in 1..2 :
        Plug(l, k) = p /\ SubstratesOf(t, p) = {SubstrateOf(<<l, k>>)}
  BY DrawnSubstrates
<1>2. PICK m \in Links, j \in 1..2 :
        Plug(m, j) = q /\ SubstratesOf(t, q) = {SubstrateOf(<<m, j>>)}
  BY DrawnSubstrates
<1>3. Plug(l, k) = p /\ Plug(m, j) = q
  BY <1>1, <1>2
<1>4. Plug(l, k) \in Plugs /\ Plug(m, j) \in Plugs /\ Plug(l, k) # Plug(m, j)
  BY <1>3
<1>5. SubstrateOf(<<l, k>>) = SubstrateOf(<<m, j>>) <=> Joined(Plug(l, k), Plug(m, j))
  BY <1>4, SubstratesJoin, Zenon
<1>. QED BY <1>1, <1>2, <1>3, <1>5

(* What is at the DNS server.                                              *)
LEMMA DnsOfDrawn ==
  ASSUME NEW cs, Housing(cs), NEW i \in DOMAIN cs, NEW x \in ToSet(cs[i].interfaces), x.substrate = "dnslink"
  PROVE  i \in AtDns(cs) /\ Is(i, {"Router"})
<1>1. PICK k \in DOMAIN cs[i].interfaces : x = cs[i].interfaces[k]
  BY DEF ToSet
<1>2. Added(i, x)
  BY <1>1 DEF Housing, Equipped
<1>3. x = DnsIfx /\ Is(i, {"Router"})
  BY <1>2 DEF Added, Ifx
<1>. QED BY <1>3 DEF AtDns

LEMMA DrawnMatches == Typed /\ Sound /\ Traced /\ Depicted => TopologyMatches
<1> DEFINE t == files.topdl
           hosts == { i \in Id : Is(i, Hosts) }
           clientele == { i \in hosts : ~Is(i, {"Router"}) }
<1> SUFFICES ASSUME Typed, Traced, Depicted, Compiled, Drawable, lost = {}
             PROVE  /\ { t.computers[i].name : i \in DOMAIN t.computers } = { Name[i] : i \in hosts }
                    /\ \A i \in hosts : \E j \in Id : Named(t, Name[i]) = {j}
                    /\ \A p, q \in Plugs : p # q => (SubstratesOf(t, p) = SubstratesOf(t, q) <=> Joined(p, q))
                    /\ \A p \in Plugs : SubstratesOf(t, p) \subseteq t.substrates
                    /\ \A i, j \in OnDns(t) : i = j
                    /\ \A i \in OnDns(t) : \E r \in Id : Is(r, {"Router"}) /\ Name[r] = t.computers[i].name
                    /\ OnDns(t) = {} => \A i \in Id : ~Is(i, {"Router"})
                    /\ files.dns.clients = clientele
                    /\ DOMAIN files.dns.keyed = { Label[i] : i \in clientele }
                    /\ \A i \in clientele : files.dns.keyed[Label[i]] = i
  BY DEF TopologyMatches
<1>1. Served
  BY DEF Compiled, Traced, Shapes, Served
<1>2. Drawn(t) /\ Keyed(files.dns, Clientele)
  BY <1>1 DEF Compiled, Depicted, Topology, Names
<1>3. DOMAIN t.computers = hosts /\ Housing(t.computers)
  BY <1>2 DEF Drawn
<1>4. clientele = Clientele
  BY DEF Clientele, Is, Hosts
<1>5. \A i \in hosts : Named(t, Name[i]) = {i}
  BY <1>2, OneOfName
<1> HIDE DEF t, clientele
<1>6. { t.computers[i].name : i \in DOMAIN t.computers } = { Name[i] : i \in hosts }
  <2>1. \A i \in hosts : t.computers[i].name = Name[i]
    BY <1>3 DEF Housing
  <2>. QED BY <1>3, <2>1
<1>7. \A p, q \in Plugs : p # q => (SubstratesOf(t, p) = SubstratesOf(t, q) <=> Joined(p, q))
  BY <1>2, PlugsJoined
<1>8. ASSUME NEW p \in Plugs PROVE SubstratesOf(t, p) \subseteq t.substrates
  <2>1. PICK l \in Links, k \in 1..2 :
          /\ SubstratesOf(t, p) = {SubstrateOf(<<l, k>>)}
          /\ SubstrateOf(<<l, k>>) \in t.substrates
    BY <1>2, DrawnSubstrates
  <2>. QED BY <2>1
<1>9. \A i \in OnDns(t) : i \in AtDns(t.computers) /\ Is(i, {"Router"})
  BY <1>3, DnsOfDrawn DEF OnDns
<1>10. \A i, j \in OnDns(t) : i = j
  BY <1>3, <1>9 DEF Housing
<1>11. \A i \in OnDns(t) : \E r \in Id : Is(r, {"Router"}) /\ Name[r] = t.computers[i].name
  BY <1>3, <1>9 DEF Housing, OnDns
<1>12. ASSUME NEW i \in Id, Is(i, {"Router"}) PROVE OnDns(t) # {}
  <2>1. i \in DOMAIN t.computers
    BY <1>3, <1>12 DEF Is, Hosts
  <2>2. PICK j \in DOMAIN t.computers : DnsIfx \in ToSet(t.computers[j].interfaces)
    BY <1>3, <1>12, <2>1 DEF Housing, AtDns
  <2>3. DnsIfx.substrate = "dnslink"
    BY DEF DnsIfx, Ifx
  <2>. QED BY <2>2, <2>3 DEF OnDns
<1>13. /\ files.dns.clients = clientele
       /\ DOMAIN files.dns.keyed = { Label[i] : i \in clientele }
       /\ \A i \in clientele : files.dns.keyed[Label[i]] = i
  BY <1>2, <1>4 DEF Keyed
<1>14. \A i \in hosts : \E j \in Id : Named(t, Name[i]) = {j}
  BY <1>5
<1> HIDE DEF hosts
<1>. QED BY <1>6, <1>7, <1>8, <1>10, <1>11, <1>12, <1>13, <1>14

---------------------------------------------------------------------------
(* Every step keeps it.                                                    *)

LEMMA SameDrawing ==
  ASSUME UNCHANGED design
  PROVE  /\ Drawable' <=> Drawable
         /\ Clientele' = Clientele /\ Links' = Links
         /\ \A cs : Housing(cs)' <=> Housing(cs)
         /\ \A l, t : DrawnLink(l, t)' <=> DrawnLink(l, t)
         /\ \A t : Drawn(t)' <=> Drawn(t)
<1>1. \A i, kinds : Is(i, kinds)' <=> Is(i, kinds)
  BY DEF Is
<1>2. Plugs' = Plugs /\ Links' = Links /\ Clientele' = Clientele
  BY DEF Plugs, Links, Clientele, Is
<1>3. Drawable' <=> Drawable
  BY <1>2 DEF Drawable, Plug, Is
<1>4. \A cs : Housing(cs)' <=> Housing(cs)
  BY DEF Housing, Equipped, Added, AtDns, DnsIfx, Ifx, Is
<1>5. \A lk : SubstrateOf(lk)' = SubstrateOf(lk)
  BY DEF SubstrateOf, OwnerOf, Near, Is
<1>6. \A lk, t : DrawnEnd(lk, t)' <=> DrawnEnd(lk, t)
  <2> TAKE lk, t
  <2>1. Plug(lk[1], lk[2])' = Plug(lk[1], lk[2]) /\ SubstrateOf(lk)' = SubstrateOf(lk)
    BY <1>5 DEF Plug
  <2>. QED BY <1>2, <2>1 DEF DrawnEnd
<1>7. \A l, t : DrawnLink(l, t)' <=> DrawnLink(l, t)
  BY <1>6 DEF DrawnLink
<1>8. \A t : Drawn(t)' <=> Drawn(t)
  BY <1>1, <1>2, <1>4, <1>7 DEF Drawn
<1>. QED BY <1>2, <1>3, <1>4, <1>7, <1>8

LEMMA InitDepicted == Init => Depicted
BY DEF Init, Depicted, Forms

LEMMA EditDepicted ==
  ASSUME Depicted, NEW i \in Id, NEW e, Edit(i, e)
  PROVE  Depicted'
BY DEF Edit, Depicted, Forms, made

(* Where a compilation ends, and not with an answer.                       *)
LEMMA EndsDepicted ==
  ASSUME Depicted, NEW outcome, outcome # "success", Ends(outcome), files'.dns = files.dns
  PROVE  Depicted'
BY DEF Ends, Depicted, Forms, Topology, Names, Served, AfterTopDL, AfterKeys

(* Before the topology is begun.                                           *)
LEMMA EarlyDepicted ==
  ASSUME Depicted,
         pc \in {"idle", "check", "objects", "lines", "cys"},
         pc' \in {"check", "objects", "lines", "cys"},
         UNCHANGED <<xp, clients, files>>
  PROVE  Depicted'
BY DEF Depicted, Forms, Topology, Names, Served, AfterTopDL, AfterKeys

LEMMA SourceDepicted ==
  ASSUME Typed, Traced, Depicted,
         \/ OnCompile \/ Checked \/ ObjectsDone \/ LinesDone \/ WriteCys
         \/ \E i \in Id : \/ CheckPlink(i) \/ PhyoSrc(i) \/ SaxSrc(i) \/ SaxPanics(i)
                          \/ KeepPlink(i)
         \/ \E ip \in later : PlinkSrc(ip)
  PROVE  Depicted'
<1>1. CASE OnCompile
  BY <1>1, EarlyDepicted DEF OnCompile, made
<1>2. CASE Checked /\ faulty
  BY <1>2, EndsDepicted DEF Checked
<1>3. CASE (Checked /\ ~faulty) \/ ObjectsDone \/ LinesDone
  BY <1>3, EarlyDepicted DEF Checked, ObjectsDone, LinesDone, Walked, To, made
<1>4. CASE WriteCys
  <2>1. /\ pc = "cys" /\ pc' = "hosts" /\ todo' = Present
        /\ UNCHANGED <<design, steady, xp, clients, answer>>
        /\ files' = files \/ files' = [files EXCEPT !["cys"] = src]
    BY <1>4 DEF WriteCys, Write, To, Walks, made
  <2>2. files'.dns = files.dns
    BY <2>1 DEF Traced, Shapes
  <2>3. xp = NoTopology /\ clients = {} /\ DOMAIN files.dns = {"clients", "keyed"}
    BY <2>1 DEF Depicted, Forms
  <2>4. DOMAIN xp'.computers = {}
    BY <2>1, <2>3 DEF NoTopology
  <2>5. Housing(xp.computers)'
    BY <2>4 DEF Housing, AtDns
  <2>6. \A i \in Id \ todo' : \A kinds : ~Is(i, kinds)'
    BY <2>1, SameDesign DEF Present, Is
  <2>. QED BY <2>1, <2>2, <2>3, <2>4, <2>5, <2>6
           DEF Depicted, Forms, Topology, Names, Served, AfterTopDL, AfterKeys
<1>5. ASSUME NEW i \in Id, CheckPlink(i) \/ PhyoSrc(i) \/ SaxSrc(i) \/ KeepPlink(i)
      PROVE  Depicted'
  BY <1>5, EarlyDepicted DEF CheckPlink, PhyoSrc, SaxSrc, KeepPlink, Visit, made
<1>6. ASSUME NEW i \in Id, SaxPanics(i) PROVE Depicted'
  BY <1>6, EndsDepicted DEF SaxPanics, Panic
<1>7. ASSUME NEW ip \in later, PlinkSrc(ip) PROVE Depicted'
  <2>1. CASE PlinkStuck(ip[2])
    BY <1>7, <2>1, EndsDepicted DEF PlinkSrc, Panic
  <2>2. CASE ~PlinkStuck(ip[2])
    BY <1>7, <2>2, EarlyDepicted DEF PlinkSrc
  <2>. QED BY <2>1, <2>2
<1>. QED BY <1>1, <1>2, <1>3, <1>4, <1>5, <1>6, <1>7

(* A host, a switch or a link is visited.                                  *)
LEMMA HostsDepicted ==
  ASSUME Typed, Sound, Depicted, NEW i \in Id, AddComp(i) \/ AddSwitch(i) \/ KeepLink(i)
  PROVE  Depicted'
<1>1. /\ pc = "hosts" /\ pc' = "hosts" /\ todo' = todo \ {i} /\ i \in todo
      /\ UNCHANGED <<design, steady, clients, files>>
  BY DEF AddComp, AddSwitch, KeepLink, Visit, made
<1>2. SUFFICES ASSUME steady, Drawable
               PROVE  /\ Housing(xp'.computers)
                      /\ DOMAIN xp'.computers \cap todo' = {}
                      /\ \A j \in Id \ todo' : /\ Is(j, {"Switch"}) => Name[j] \in xp'.substrates
                                               /\ Is(j, {"Link"}) => <<j, design[j]>> \in later'
  BY <1>1, SameDrawing, SameDesign
  DEF Depicted, Forms, Topology, Names, Served, AfterTopDL, AfterKeys
<1>3. /\ Housing(xp.computers) /\ DOMAIN xp.computers \cap todo = {}
      /\ \A j \in Id \ todo : /\ Is(j, {"Switch"}) => Name[j] \in xp.substrates
                              /\ Is(j, {"Link"}) => <<j, design[j]>> \in later
  BY <1>1, <1>2 DEF Depicted, Topology
<1>4. DOMAIN xp = {"computers", "substrates"} /\ DOMAIN xp.computers \subseteq Id
  BY DEF Typed, MadeOK
<1>5. CASE AddComp(i)
  <2> DEFINE cs == xp.computers
             ds == With(cs, i, Comp(i))
  <2>1. Is(i, Hosts) /\ xp'.computers = ds /\ xp'.substrates = xp.substrates /\ later' = later
    BY <1>4, <1>5 DEF AddComp, Visit
  <2>2. DOMAIN ds = DOMAIN cs \cup {i} /\ ds[i] = Comp(i)
        /\ \A j \in DOMAIN cs : j # i /\ ds[j] = cs[j]
    BY <1>1, <1>3 DEF With
  <2>3. /\ DOMAIN Comp(i) = {"name", "interfaces"} /\ Comp(i).name = Name[i]
        /\ Equipped(i, Comp(i).interfaces)
        /\ DnsIfx \in ToSet(Comp(i).interfaces) <=> Is(i, {"Router"}) /\ FirstRouter
    BY <1>2, <2>1, CompEquipped DEF Comp
  <2>4. FirstRouter <=> AtDns(cs) = {}
    BY DEF FirstRouter, AtDns, DnsIfx
  <2> HIDE DEF ds, cs
  <2>5. AtDns(ds) = AtDns(cs) \cup (IF Is(i, {"Router"}) /\ FirstRouter THEN {i} ELSE {})
    BY <2>2, <2>3 DEF AtDns
  <2>6. \A j \in DOMAIN ds : /\ Is(j, Hosts) /\ Equipped(j, ds[j].interfaces)
                            /\ DOMAIN ds[j] = {"name", "interfaces"} /\ ds[j].name = Name[j]
    BY <1>3, <2>1, <2>2, <2>3 DEF Housing, cs
  <2>7. \A j, k \in AtDns(ds) : j = k
    BY <1>3, <2>4, <2>5 DEF Housing, cs
  <2>8. \A j \in DOMAIN ds : Is(j, {"Router"}) => AtDns(ds) # {}
    BY <1>3, <2>2, <2>4, <2>5 DEF Housing, cs
  <2>9. Housing(ds)
    BY <2>6, <2>7, <2>8 DEF Housing
  <2>10. ~Is(i, {"Switch"}) /\ ~Is(i, {"Link"})
    BY <2>1 DEF Is, Hosts
  <2>. QED BY <1>1, <1>3, <2>1, <2>2, <2>9, <2>10 DEF cs
<1>6. CASE AddSwitch(i)
  <2>1. /\ Is(i, {"Switch"}) /\ xp'.computers = xp.computers
        /\ xp'.substrates = xp.substrates \cup {Name[i]} /\ later' = later
    BY <1>4, <1>6 DEF AddSwitch, Visit
  <2>2. ~Is(i, {"Link"})
    BY <2>1 DEF Is
  <2>. QED BY <1>1, <1>3, <2>1, <2>2
<1>7. CASE KeepLink(i)
  <2>1. Is(i, {"Link"}) /\ xp' = xp /\ later' = later \cup {<<i, design[i]>>}
    BY <1>7 DEF KeepLink, Visit, made
  <2>2. ~Is(i, {"Switch"})
    BY <2>1 DEF Is
  <2>. QED BY <1>1, <1>3, <2>1, <2>2
<1>. QED BY <1>5, <1>6, <1>7

LEMMA HostsDoneDepicted ==
  ASSUME Typed, Sound, Depicted, HostsDone
  PROVE  Depicted'
<1>1. /\ pc = "hosts" /\ pc' = "links" /\ UNCHANGED <<design, steady, later, clients, files>>
      /\ xp'.computers = xp.computers /\ xp.substrates \subseteq xp'.substrates
      /\ \A j \in todo : ~Is(j, Hosts \cup {"Switch", "Link"})
  BY DEF HostsDone, Walked, To, Typed, MadeOK
<1>2. SUFFICES ASSUME steady, Drawable
               PROVE  /\ DOMAIN xp'.computers = { j \in Id : Is(j, Hosts) }
                      /\ Housing(xp'.computers)
                      /\ \A j \in Id : Is(j, {"Switch"}) => Name[j] \in xp'.substrates
                      /\ \A l \in Links : <<l, design[l]>> \in later
  BY <1>1, SameDrawing, SameDesign
  DEF Depicted, Forms, Topology, Names, Served, AfterTopDL, AfterKeys
<1>3. /\ Housing(xp.computers)
      /\ \A j \in Id \ todo : /\ Is(j, {"Switch"}) => Name[j] \in xp.substrates
                              /\ Is(j, {"Link"}) => <<j, design[j]>> \in later
  BY <1>1, <1>2 DEF Depicted, Topology
<1>4. \A j \in todo : ~Is(j, Hosts) /\ ~Is(j, {"Switch"}) /\ ~Is(j, {"Link"})
  BY <1>1 DEF Is
<1>5. DOMAIN xp.computers = { j \in Id : Is(j, Hosts) }
  <2>1. \A j \in DOMAIN xp.computers : j \in Id /\ Is(j, Hosts)
    BY <1>3 DEF Housing, Typed, MadeOK
  <2>2. \A j \in Id : Is(j, Hosts) => j \in DOMAIN xp.computers
    BY <1>1, <1>2, <1>4 DEF Sound, Housed
  <2>. QED BY <2>1, <2>2
<1>. QED BY <1>1, <1>3, <1>4, <1>5 DEF Links

LEMMA LinksDepicted ==
  ASSUME Typed, Sound, Depicted, NEW il \in later, LinkSubstrate(il)
  PROVE  Depicted'
<1>1. CASE LinkStuck(il[2])
  BY <1>1, EndsDepicted DEF LinkSubstrate, Panic
<1>2. CASE ~LinkStuck(il[2])
  <2>1. /\ pc = "links" /\ pc' = "links" /\ xp' = Linked(il[1], il[2]) /\ later' = later \ {il}
        /\ UNCHANGED <<design, steady, clients, files>>
    BY <1>2 DEF LinkSubstrate
  <2>2. SUFFICES ASSUME steady, Drawable
                 PROVE  /\ DOMAIN xp'.computers = { i \in Id : Is(i, Hosts) }
                        /\ Housing(xp'.computers)
                        /\ \A i \in Id : Is(i, {"Switch"}) => Name[i] \in xp'.substrates
                        /\ \A l \in Links : <<l, design[l]>> \in later' \/ DrawnLink(l, xp')
    BY <2>1, SameDrawing, SameDesign
    DEF Depicted, Forms, Topology, Names, Served, AfterTopDL, AfterKeys
  <2>3. il \in Id \X Element /\ il[1] \in Links /\ il[2] = design[il[1]]
    BY <2>1, <2>2 DEF Sound, Aside, Links, Typed, MadeOK
  <2>4. /\ DOMAIN xp.computers = { i \in Id : Is(i, Hosts) }
        /\ Housing(xp.computers)
        /\ \A i \in Id : Is(i, {"Switch"}) => Name[i] \in xp.substrates
        /\ \A l \in Links : <<l, design[l]>> \in later \/ DrawnLink(l, xp)
    BY <2>1, <2>2 DEF Depicted, Topology
  <2>5. /\ Housing(xp'.computers) /\ DOMAIN xp'.computers = DOMAIN xp.computers
        /\ xp.substrates \subseteq xp'.substrates
        /\ DrawnLink(il[1], xp')
        /\ \A m \in Links : DrawnLink(m, xp) => DrawnLink(m, xp')
    BY <2>1, <2>2, <2>3, <2>4, LinkDraws
  <2>6. ASSUME NEW l \in Links PROVE <<l, design[l]>> \in later' \/ DrawnLink(l, xp')
    <3>1. CASE l = il[1]
      BY <2>5, <3>1
    <3>2. CASE l # il[1]
      BY <2>1, <2>4, <2>5, <3>2
    <3>. QED BY <3>1, <3>2
  <2>. QED BY <2>4, <2>5, <2>6
<1>. QED BY <1>1, <1>2

(* After the topology is made.                                             *)
LEMMA DrawnStays ==
  ASSUME Depicted, steady, Drawable, UNCHANGED <<design, steady>>, lost \subseteq lost',
         pc \in AfterTopDL, files'.topdl = files.topdl
  PROVE  "topdl" \in lost' \/ Drawn(files.topdl)'
<1>1. "topdl" \in lost \/ Drawn(files.topdl)
  BY DEF Depicted, Topology
<1>. QED BY <1>1, SameDrawing

LEMMA TopDLDepicted ==
  ASSUME Typed, Sound, Traced, Depicted, LinksDone \/ WriteTopDL
  PROVE  Depicted'
<1>1. CASE LinksDone
  <2>1. /\ pc = "links" /\ pc' = "topdl" /\ later = {}
        /\ UNCHANGED <<design, steady, xp, clients, files>>
    BY <1>1 DEF LinksDone, To, made
  <2>2. steady /\ Drawable => Drawn(xp)
    BY <2>1 DEF Depicted, Topology, Drawn
  <2>. QED BY <2>1, <2>2, SameDrawing
       DEF Depicted, Forms, Topology, Names, Served, AfterTopDL, AfterKeys
<1>2. CASE WriteTopDL
  <2>1. /\ pc = "topdl" /\ pc' = "dns" /\ todo' = Present
        /\ UNCHANGED <<design, steady, clients>>
        /\ \/ files' = [files EXCEPT !["topdl"] = xp]
           \/ files' = files /\ "topdl" \in lost'
    BY <1>2 DEF WriteTopDL, Write, To, Walks, made
  <2>2. files'.dns = files.dns /\ ("topdl" \notin lost' => files'.topdl = xp)
    BY <2>1 DEF Traced, Shapes
  <2>3. clients = {}
    BY <2>1 DEF Depicted, Forms
  <2>4. Clientele \subseteq todo'
    BY <2>1 DEF Clientele, Present, Is
  <2>5. steady /\ Drawable => Drawn(xp)
    BY <2>1 DEF Depicted, Topology
  <2>6. steady /\ Drawable => "topdl" \in lost' \/ Drawn(files.topdl)'
    BY <2>1, <2>2, <2>5, SameDrawing
  <2>. QED BY <2>1, <2>2, <2>3, <2>4, <2>6, SameDrawing
       DEF Depicted, Forms, Topology, Names, Served, AfterTopDL, AfterKeys
<1>. QED BY <1>1, <1>2

LEMMA DnsDepicted ==
  ASSUME Typed, Sound, Traced, Depicted,
         \/ ClientsDone \/ WriteSpec \/ KeysDone
         \/ \E i \in Id : AddClient(i) \/ WriteKey(i)
  PROVE  Depicted'
<1>1. /\ pc \in {"dns", "spec", "keys"} /\ pc' \in {"dns", "spec", "keys", "route"}
      /\ UNCHANGED <<design, steady>> /\ lost \subseteq lost'
      /\ files' = files \/ \E v : files' = [files EXCEPT !["dns"] = v]
  BY DEF ClientsDone, WriteSpec, KeysDone, AddClient, WriteKey, Visit, Walked, To, Write
<1>2. files'.topdl = files.topdl
  BY <1>1 DEF Traced, Shapes
<1>3. steady /\ Drawable => "topdl" \in lost' \/ Drawn(files.topdl)'
  BY <1>1, <1>2, DrawnStays DEF AfterTopDL
<1>4. DOMAIN files = {"cys", "topdl", "dns", "route"}
  BY DEF Traced, Shapes
<1>5. DOMAIN files.dns = {"clients", "keyed"}
  BY DEF Depicted, Forms
<1>6. \/ files'.dns = files.dns
      \/ files'.dns = [clients |-> clients, keyed |-> NoKeys]
      \/ \E i : files'.dns = [files.dns EXCEPT !.keyed = With(@, Label[i], i)]
  BY <1>4 DEF ClientsDone, WriteSpec, KeysDone, AddClient, WriteKey, Visit, Walked, To, Write
<1>7. DOMAIN files'.dns = {"clients", "keyed"}
  BY <1>5, <1>6
<1>8. SUFFICES ASSUME steady, Drawable PROVE Names'
  BY <1>1, <1>3, <1>7, SameDrawing DEF Depicted, Forms, Topology, Served, AfterTopDL
<1>9. Names /\ Clientele' = Clientele
  BY <1>1, <1>8, SameDrawing DEF Depicted
<1>10. ASSUME NEW i \in Id, AddClient(i)
       PROVE  Names'
  <2>1. /\ pc = "dns" /\ pc' = "dns" /\ todo' = todo \ {i} /\ clients' = clients \cup {i}
        /\ i \in Clientele
    BY <1>10 DEF AddClient, Visit, Clientele
  <2>. QED BY <1>9, <2>1 DEF Names, Served, AfterKeys
<1>11. CASE ClientsDone
  <2>1. /\ pc = "dns" /\ pc' = "spec" /\ UNCHANGED clients
        /\ \A i \in todo : ~Is(i, {"Computer", "Sax"})
    BY <1>11 DEF ClientsDone, Walked, To, made
  <2>2. Clientele \ todo = Clientele
    BY <2>1 DEF Clientele
  <2>. QED BY <1>9, <2>1, <2>2 DEF Names, Served, AfterKeys
<1>12. CASE WriteSpec
  <2>1. /\ pc = "spec" /\ pc' = IF "dns" \in lost' THEN "route" ELSE "keys"
        /\ "dns" \notin lost' => todo' = clients
        /\ \/ files' = [files EXCEPT !["dns"] = [clients |-> clients, keyed |-> NoKeys]]
           \/ "dns" \in lost'
    BY <1>12 DEF WriteSpec, Write, To
  <2>2. clients = Clientele
    BY <1>9, <2>1 DEF Names
  <2>3. "dns" \notin lost' => files'.dns.clients = Clientele /\ files'.dns.keyed = NoKeys
    BY <1>4, <2>1, <2>2
  <2>4. "dns" \notin lost' => Keyed(files'.dns, {})
    BY <2>3 DEF Keyed, NoKeys
  <2>5. "dns" \notin lost' => Clientele \ todo' = {}
    BY <2>1, <2>2
  <2>6. "dns" \notin lost' => Keyed(files'.dns, Clientele \ todo')
    BY <2>4, <2>5
  <2>7. "dns" \notin lost' => Keyed(files.dns, Clientele \ todo)'
    BY <1>9, <2>6 DEF Keyed
  <2>. QED BY <1>9, <2>1, <2>2, <2>7 DEF Names, Served, AfterKeys
<1>13. ASSUME NEW i \in Id, WriteKey(i)
       PROVE  Names'
  <2>1. /\ pc = "keys" /\ pc' = "keys" /\ i \in todo /\ lost \subseteq lost'
        /\ todo' = IF "dns" \in lost' THEN {} ELSE todo \ {i}
        /\ \/ files' = [files EXCEPT !["dns"] = [files.dns EXCEPT !.keyed = With(@, Label[i], i)]]
           \/ "dns" \in lost'
    BY <1>1, <1>13 DEF WriteKey, Write
  <2>2. "dns" \notin lost' => /\ files'.dns.clients = files.dns.clients
                             /\ files'.dns.keyed = With(files.dns.keyed, Label[i], i)
    BY <1>4, <1>5, <2>1
  <2>3. todo \subseteq Clientele /\ ("dns" \notin lost' => Keyed(files.dns, Clientele \ todo))
    BY <1>9, <2>1 DEF Names
  <2>4. todo' \subseteq Clientele /\ i \in Clientele
    BY <2>1, <2>3
  <2>5. \A j \in Clientele : Label[j] = Label[i] => j = i
    BY <1>8, <2>4 DEF Drawable, Clientele
  <2>6. ASSUME "dns" \notin lost' PROVE Keyed(files'.dns, (Clientele \ todo) \cup {i})
    BY <2>2, <2>3, <2>5, <2>6 DEF Keyed, With
  <2>7. "dns" \notin lost' => Clientele \ todo' = (Clientele \ todo) \cup {i}
    BY <2>1, <2>4
  <2>8. "dns" \notin lost' => Keyed(files.dns, Clientele \ todo)'
    BY <1>9, <2>6, <2>7 DEF Keyed
  <2>. QED BY <1>9, <2>1, <2>4, <2>8 DEF Names, Served, AfterKeys
<1>14. CASE KeysDone
  <2>1. pc = "keys" /\ todo = {} /\ pc' = "route" /\ UNCHANGED <<files, lost>>
    BY <1>14 DEF KeysDone, To
  <2>2. "dns" \in lost \/ Keyed(files.dns, Clientele)
    <3>1. Clientele \ todo = Clientele
      BY <2>1
    <3>. QED BY <1>9, <2>1, <3>1 DEF Names
  <2>3. "dns" \in lost' \/ Keyed(files.dns, Clientele)'
    BY <1>9, <2>1, <2>2 DEF Keyed
  <2>. QED BY <1>9, <2>1, <2>3 DEF Names, Served, AfterKeys
<1>. QED BY <1>10, <1>11, <1>12, <1>13, <1>14

LEMMA LastDepicted ==
  ASSUME Typed, Sound, Traced, Depicted,
         \/ LinksCharted \/ Answer \/ Die
         \/ \E i \in Id : ChartLink(i) \/ WriteChart(i)
  PROVE  Depicted'
<1>1. DOMAIN files = {"cys", "topdl", "dns", "route"}
  BY DEF Traced, Shapes
<1>2. CASE Die
  <2>1. files'.dns = files.dns
    BY <1>1, <1>2 DEF Die
  <2>. QED BY <1>2, <2>1, EndsDepicted DEF Die
<1>3. CASE \/ LinksCharted \/ Answer
           \/ \E i \in Id : ChartLink(i) \/ WriteChart(i)
  <2>1. /\ pc \in AfterKeys /\ (pc' \in AfterKeys \/ Served')
        /\ pc' \in AfterKeys => xp' = xp /\ clients' = clients
        /\ pc' \notin AfterKeys => xp' = NoTopology /\ clients' = {}
        /\ pc' \notin {"hosts", "links", "topdl", "dns", "spec", "keys"}
        /\ UNCHANGED <<design, steady>> /\ lost \subseteq lost'
        /\ files' = files \/ \E v : files' = [files EXCEPT !["route"] = v]
    BY <1>3 DEF LinksCharted, Answer, ChartLink, WriteChart, Visit, Walked, Ends, Write,
       made, AfterKeys, Served
  <2>2. files'.topdl = files.topdl /\ files'.dns = files.dns
    BY <1>1, <2>1
  <2>3. Forms'
    BY <2>1, <2>2 DEF Depicted, Forms, AfterKeys
  <2>4. SUFFICES ASSUME steady, Drawable PROVE Topology' /\ Names'
    BY <2>1, <2>3, SameDrawing DEF Depicted
  <2>5. Names /\ Clientele' = Clientele
    BY <2>1, <2>4, SameDrawing DEF Depicted
  <2>6. "topdl" \in lost' \/ Drawn(files.topdl)'
    BY <2>1, <2>2, <2>4, DrawnStays DEF AfterTopDL, AfterKeys
  <2>7. Topology'
    BY <2>1, <2>6 DEF Topology
  <2>8. "dns" \in lost' \/ Keyed(files.dns, Clientele)'
    BY <2>1, <2>2, <2>5 DEF Names, Keyed
  <2>9. Names'
    BY <2>1, <2>5, <2>8 DEF Names
  <2>. QED BY <2>7, <2>9
<1>. QED BY <1>2, <1>3

LEMMA StutterDepicted ==
  ASSUME Depicted, UNCHANGED vars
  PROVE  Depicted'
<1>1. UNCHANGED <<design, pc, todo, later, xp, clients, files, answer, steady, lost>>
  BY DEF vars
<1>2. Forms' /\ (Served' <=> Served) /\ Clientele' = Clientele /\ (Drawable' <=> Drawable)
  BY <1>1, SameDrawing DEF Depicted, Forms, Served
<1>3. SUFFICES ASSUME steady, Drawable PROVE Topology' /\ Names'
  BY <1>1, <1>2 DEF Depicted
<1>4. Topology /\ Names
  BY <1>3 DEF Depicted
<1>. QED BY <1>1, <1>2, <1>4, SameDrawing, SameDesign DEF Topology, Names, Keyed

LEMMA NextDepicted == Typed /\ Sound /\ Traced /\ Depicted /\ [Next]_vars => Depicted'
<1> SUFFICES ASSUME Typed, Sound, Traced, Depicted, [Next]_vars PROVE Depicted'
  OBVIOUS
<1>1. ASSUME NEW i \in Id, NEW e \in Versions(i) \cup {None}, Edit(i, e) PROVE Depicted'
  BY <1>1, EditDepicted
<1>2. CASE \/ OnCompile \/ Checked \/ ObjectsDone \/ LinesDone \/ WriteCys
  BY <1>2, SourceDepicted
<1>3. CASE \/ HostsDone \/ LinksDone \/ WriteTopDL
           \/ ClientsDone \/ WriteSpec \/ KeysDone \/ LinksCharted \/ Answer
  BY <1>3, HostsDoneDepicted, TopDLDepicted, DnsDepicted, LastDepicted
<1>4. ASSUME NEW i \in Id,
             \/ CheckPlink(i)
             \/ PhyoSrc(i) \/ SaxSrc(i) \/ SaxPanics(i) \/ KeepPlink(i)
      PROVE Depicted'
  BY <1>4, SourceDepicted
<1>5. ASSUME NEW i \in Id,
             \/ AddComp(i) \/ AddSwitch(i) \/ KeepLink(i)
             \/ AddClient(i) \/ WriteKey(i)
             \/ ChartLink(i) \/ WriteChart(i)
      PROVE Depicted'
  BY <1>5, HostsDepicted, DnsDepicted, LastDepicted
<1>6. ASSUME NEW ie \in later, PlinkSrc(ie) PROVE Depicted'
  BY <1>6, SourceDepicted
<1>7. ASSUME NEW ie \in later, LinkSubstrate(ie) PROVE Depicted'
  BY <1>7, LinksDepicted
<1>8. CASE Die
  BY <1>8, LastDepicted
<1>9. CASE UNCHANGED vars
  BY <1>9, StutterDepicted
<1> QED BY <1>1, <1>2, <1>3, <1>4, <1>5, <1>6, <1>7, <1>8, <1>9 DEF Next

(* Of a design that no other handler changes and that can be drawn, the    *)
(* topology on disk is a faithful drawing: it has the hosts of the design, *)
(* one computer of each name; two interfaces are on one substrate exactly  *)
(* if a link or a switch joins them; exactly one router, if there is any,  *)
(* is with the DNS server; and each other host finds in the file of its    *)
(* name the key the server has for it.  So it is whatever the order in     *)
(* which AddComp, UpdateEndpoint and the passes over the map come to the   *)
(* elements.  A design in which two systems share a name is not one that   *)
(* can be drawn: only names reach the topology and the files of the keys.  *)
THEOREM TopologySaysDesign == Spec => []TopologyMatches
<1> QED BY InitTyped, NextTyped, InitSound, NextSound, InitTraced, NextTraced,
           InitDepicted, NextDepicted, DrawnMatches, PTL DEF Spec

---------------------------------------------------------------------------
(* The charts.  What they say of the ends of links, hs, that the pass has  *)
(* been at.                                                                *)

At(r, hs) == { lk \in hs : Near(lk) = r }

Noted(ch, r, hs) ==
  /\ ch \in [id : Nat, peers : Seq(STRING), downstream : Seq(STRING)]
  /\ \A y \in STRING : Cardinality({ n \in DOMAIN ch.peers : ch.peers[n] = y }) =
       Cardinality({ lk \in At(r, hs) : Is(Far(lk), {"Router"}) /\ Name[Far(lk)] = y })
  /\ Len(ch.downstream) = Cardinality({ lk \in At(r, hs) : Beyond(r, lk) # {} })
  /\ \A n \in DOMAIN ch.downstream : \E lk \in At(r, hs) : ch.downstream[n] \in Beyond(r, lk)
  /\ \A lk \in At(r, hs) : Beyond(r, lk) # {} =>
       \E n \in DOMAIN ch.downstream : ch.downstream[n] \in Beyond(r, lk)

Charted(cs, hs) ==
  /\ IsFiniteSet(DOMAIN cs)
  /\ DOMAIN cs = { r \in Id : Is(r, {"Router"}) /\ At(r, hs) # {} }
  /\ { cs[r].id : r \in DOMAIN cs } = 1..Cardinality(DOMAIN cs)
  /\ \A r \in DOMAIN cs : Noted(cs[r], r, hs)

(* The ends the pass has been at; and a chart that is on disk.             *)
Passed == { lk \in HalfLinks : lk[1] \notin todo }
Filed(r, ch) == r \in DOMAIN files.route /\ files.route[r] = ch

(* What the pass, and then the files, have of the charts.                  *)
Mapped ==
  /\ pc = "route" => IsFiniteSet(Passed) /\ Charted(charts, Passed)
  /\ pc = "charts" =>
       /\ Charted(charts, HalfLinks)
       /\ \A r \in DOMAIN charts \ todo : "route" \in lost \/ Filed(r, charts[r])
  /\ Served => "route" \in lost \/ \E cs : /\ Charted(cs, HalfLinks)
                                          /\ \A r \in DOMAIN cs : Filed(r, cs[r])

Plotted == /\ pc \notin {"route", "charts"} => charts = NoCharts
           /\ steady => Mapped

---------------------------------------------------------------------------
LEMMA EndsKnown ==
  ASSUME Typed, NEW lk \in HalfLinks
  PROVE  /\ lk = <<lk[1], lk[2]>> /\ lk[1] \in Links /\ lk[2] \in 1..2
         /\ Near(lk) \in Id /\ Far(lk) \in Id
<1>1. lk = <<lk[1], lk[2]>> /\ lk[1] \in Links /\ lk[2] \in 1..2 /\ 3 - lk[2] \in 1..2
  BY DEF HalfLinks
<1>. QED BY <1>1, LinksKnown DEF Near, Far

LEMMA ConnectionsOfSwitch ==
  ASSUME Typed, NEW s \in Id
  PROVE  SwitchConnections(s) = { Far(mk) : mk \in { mk \in HalfLinks : Near(mk) = s } }
<1>1. ASSUME NEW i \in Id, NEW k \in 1..2, Is(i, {"Link"})
      PROVE  /\ <<i, 3 - k>> \in HalfLinks
             /\ Near(<<i, 3 - k>>) = design[i].ends[k].id
             /\ Far(<<i, 3 - k>>) = design[i].ends[3 - k].id
  <2>1. 3 - k \in 1..2 /\ 3 - (3 - k) = k
    OBVIOUS
  <2>. QED BY <1>1, <2>1 DEF HalfLinks, Links, Near, Far
<1>2. ASSUME NEW j \in SwitchConnections(s)
      PROVE  \E mk \in HalfLinks : Near(mk) = s /\ Far(mk) = j
  <2>1. PICK i \in Id, k \in 1..2 :
          Is(i, {"Link"}) /\ design[i].ends[k].id = s /\ design[i].ends[3 - k].id = j
    BY DEF SwitchConnections
  <2>. QED BY <1>1, <2>1
<1>3. ASSUME NEW mk \in HalfLinks, Near(mk) = s
      PROVE  Far(mk) \in SwitchConnections(s)
  <2>1. mk[1] \in Id /\ Is(mk[1], {"Link"}) /\ Far(mk) \in Id
    BY EndsKnown DEF Links
  <2>2. mk[2] \in 1..2 /\ 3 - mk[2] \in 1..2 /\ 3 - (3 - mk[2]) = mk[2]
    BY EndsKnown
  <2>. QED BY <1>3, <2>1, <2>2 DEF SwitchConnections, Near, Far
<1>. QED BY <1>2, <1>3

(* updateCharts adds at most one name, of what is beyond the link.         *)
LEMMA DownstreamBeyond ==
  ASSUME Typed, NEW lk \in HalfLinks, NEW down \in Downstream(Near(lk), Far(lk))
  PROVE  \/ Beyond(Near(lk), lk) = {} /\ down = << >>
         \/ \E o \in STRING : o \in Beyond(Near(lk), lk) /\ down = <<o>>
<1> DEFINE r == Near(lk)
           x == Far(lk)
<1>1. r \in Id /\ x \in Id
  BY EndsKnown
<1>2. SwitchConnections(x) \subseteq Id
  BY DEF SwitchConnections
<1>3. CASE Is(x, {"Computer", "Sax"})
  <2>1. ~Is(x, {"Switch"})
    BY <1>3 DEF Is
  <2>2. down = <<Name[x]>>
    BY <1>3, <2>1 DEF Downstream
  <2>3. Name[x] \in STRING
    BY <1>1, NameAssumption
  <2>. QED BY <1>3, <2>2, <2>3 DEF Beyond
<1>4. CASE ~Is(x, {"Computer", "Sax"}) /\ Is(x, {"Switch"})
  <2> DEFINE others == SwitchConnections(x) \ {r}
  <2>1. Beyond(r, lk) = { Name[o] : o \in others }
    <3>1. others = { Far(mk) : mk \in { mk \in HalfLinks : Near(mk) = x /\ Far(mk) # r } }
      BY <1>1, ConnectionsOfSwitch
    <3>2. Beyond(r, lk) = { Name[Far(mk)] : mk \in { mk \in HalfLinks : Near(mk) = x /\ Far(mk) # r } }
      BY <1>4 DEF Beyond
    <3> HIDE DEF others
    <3>. QED BY <3>1, <3>2
  <2>2. CASE others = {}
    BY <1>4, <2>1, <2>2 DEF Downstream
  <2>3. CASE others # {}
    <3>1. PICK o \in others : down = <<Name[o]>>
      BY <1>4, <2>3 DEF Downstream
    <3>2. Name[o] \in STRING
      BY <1>2, NameAssumption
    <3>. QED BY <2>1, <3>1, <3>2
  <2>. QED BY <2>2, <2>3
<1>5. CASE ~Is(x, {"Computer", "Sax"}) /\ ~Is(x, {"Switch"})
  BY <1>5 DEF Downstream, Beyond
<1>. QED BY <1>3, <1>4, <1>5

(* Counting: one more in a sequence, and one more end of a link.           *)
Occurrences(s, x) == { n \in DOMAIN s : s[n] = x }

LEMMA OccurrencesFinite ==
  ASSUME NEW S, NEW s \in Seq(S), NEW x
  PROVE  IsFiniteSet(Occurrences(s, x)) /\ Cardinality(Occurrences(s, x)) \in Nat
<1>1. IsFiniteSet(1..Len(s))
  BY LenProperties, FS_Interval
<1>2. Occurrences(s, x) \subseteq 1..Len(s)
  BY LenProperties DEF Occurrences
<1>. QED BY <1>1, <1>2, FS_Subset, FS_CardinalityType

LEMMA AppendCounts ==
  ASSUME NEW S, NEW s \in Seq(S), NEW x \in S, NEW y
  PROVE  Cardinality(Occurrences(Append(s, x), y)) =
           Cardinality(Occurrences(s, y)) + (IF x = y THEN 1 ELSE 0)
<1>1. /\ DOMAIN Append(s, x) = 1..(Len(s) + 1) /\ DOMAIN s = 1..Len(s) /\ Len(s) \in Nat
      /\ \A n \in 1..Len(s) : Append(s, x)[n] = s[n]
      /\ Append(s, x)[Len(s) + 1] = x
  BY AppendProperties, LenProperties
<1>2. Occurrences(Append(s, x), y) = Occurrences(s, y) \cup (IF x = y THEN {Len(s) + 1} ELSE {})
  BY <1>1 DEF Occurrences
<1>3. Len(s) + 1 \notin Occurrences(s, y)
  BY <1>1 DEF Occurrences
<1>4. IsFiniteSet(Occurrences(s, y)) /\ Cardinality(Occurrences(s, y)) \in Nat
  BY OccurrencesFinite
<1>5. CASE x = y
  BY <1>2, <1>3, <1>4, <1>5, FS_AddElement
<1>6. CASE x # y
  BY <1>2, <1>4, <1>6
<1>. QED BY <1>5, <1>6

LEMMA EndCounts ==
  ASSUME NEW hs, IsFiniteSet(hs), NEW lk, lk \notin hs, NEW A, A \subseteq hs
  PROVE  Cardinality(A) \in Nat /\ Cardinality(A \cup {lk}) = Cardinality(A) + 1
<1>1. IsFiniteSet(A) /\ lk \notin A
  BY FS_Subset
<1>. QED BY <1>1, FS_AddElement, FS_CardinalityType

(* What updateCharts adds to the chart of the router that an end is at.    *)
LEMMA NotedMore ==
  ASSUME Typed, NEW hs \in SUBSET HalfLinks, IsFiniteSet(hs), NEW lk \in HalfLinks \ hs,
         NEW ch, Noted(ch, Near(lk), hs), NEW down \in Downstream(Near(lk), Far(lk)), NEW dh,
         dh = [id |-> ch.id, downstream |-> ch.downstream \o down,
               peers |-> IF Is(Far(lk), {"Router"}) THEN Append(ch.peers, Name[Far(lk)]) ELSE ch.peers]
  PROVE  Noted(dh, Near(lk), hs \cup {lk}) /\ dh.id = ch.id
<1> DEFINE r == Near(lk)
           x == Far(lk)
           gs == hs \cup {lk}
<1>1. x \in Id /\ r \in Id /\ Name[x] \in STRING
  BY EndsKnown, NameAssumption
<1>2. ch \in [id : Nat, peers : Seq(STRING), downstream : Seq(STRING)]
  BY DEF Noted
<1>3. \/ Beyond(r, lk) = {} /\ down = << >>
      \/ \E o \in STRING : o \in Beyond(r, lk) /\ down = <<o>>
  BY DownstreamBeyond
<1>4. /\ dh.id = ch.id /\ dh.downstream = ch.downstream \o down
      /\ dh.peers = IF Is(x, {"Router"}) THEN Append(ch.peers, Name[x]) ELSE ch.peers
      /\ dh \in [id : Nat, peers : Seq(STRING), downstream : Seq(STRING)]
  <2>1. down \in Seq(STRING)
    <3>1. << >> \in Seq(STRING) /\ \A o \in STRING : <<o>> \in Seq(STRING)
      OBVIOUS
    <3>. QED BY <1>3, <3>1
  <2>2. ch.downstream \o down \in Seq(STRING)
    BY <1>2, <2>1
  <2>3. (IF Is(x, {"Router"}) THEN Append(ch.peers, Name[x]) ELSE ch.peers) \in Seq(STRING)
    <3>1. ch.peers \in Seq(STRING)
      BY <1>2
    <3>2. Append(ch.peers, Name[x]) \in Seq(STRING)
      BY <1>1, <3>1, AppendProperties
    <3>. QED BY <3>1, <3>2
  <2>. QED BY <1>2, <2>2, <2>3
<1>5. At(r, gs) = At(r, hs) \cup {lk} /\ At(r, hs) \subseteq hs
  BY DEF At
<1>6. ASSUME NEW y \in STRING
      PROVE  Cardinality({ n \in DOMAIN dh.peers : dh.peers[n] = y }) =
               Cardinality({ mk \in At(r, gs) : Is(Far(mk), {"Router"}) /\ Name[Far(mk)] = y })
  <2> DEFINE A == { mk \in At(r, hs) : Is(Far(mk), {"Router"}) /\ Name[Far(mk)] = y }
             B == { mk \in At(r, gs) : Is(Far(mk), {"Router"}) /\ Name[Far(mk)] = y }
  <2>1. Cardinality(Occurrences(ch.peers, y)) = Cardinality(A)
    BY DEF Noted, Occurrences
  <2>2. A \subseteq hs
    BY <1>5
  <2>3. CASE Is(x, {"Router"}) /\ Name[x] = y
    <3>1. B = A \cup {lk}
      BY <1>5, <2>3
    <3>2. Cardinality(B) = Cardinality(A) + 1
      <4> HIDE DEF A, B
      <4>. QED BY <2>2, <3>1, EndCounts
    <3>3. Cardinality(Occurrences(dh.peers, y)) = Cardinality(Occurrences(ch.peers, y)) + 1
      BY <1>1, <1>2, <1>4, <2>3, AppendCounts
    <3>. QED BY <2>1, <3>2, <3>3 DEF Occurrences
  <2>4. CASE ~(Is(x, {"Router"}) /\ Name[x] = y)
    <3>1. B = A
      BY <1>5, <2>4
    <3>2. Cardinality(Occurrences(ch.peers, y)) \in Nat
      BY <1>2, OccurrencesFinite
    <3>3. Cardinality(Occurrences(dh.peers, y)) = Cardinality(Occurrences(ch.peers, y))
      <4>1. CASE Is(x, {"Router"})
        BY <1>1, <1>2, <1>4, <2>4, <3>2, <4>1, AppendCounts
      <4>2. CASE ~Is(x, {"Router"})
        BY <1>4, <4>2
      <4>. QED BY <4>1, <4>2
    <3>. QED BY <2>1, <3>1, <3>3 DEF Occurrences
  <2>. QED BY <2>3, <2>4
<1>7. /\ Len(dh.downstream) = Cardinality({ mk \in At(r, gs) : Beyond(r, mk) # {} })
      /\ \A n \in DOMAIN dh.downstream : \E mk \in At(r, gs) : dh.downstream[n] \in Beyond(r, mk)
      /\ \A mk \in At(r, gs) : Beyond(r, mk) # {} =>
           \E n \in DOMAIN dh.downstream : dh.downstream[n] \in Beyond(r, mk)
  <2> DEFINE A == { mk \in At(r, hs) : Beyond(r, mk) # {} }
             B == { mk \in At(r, gs) : Beyond(r, mk) # {} }
             ss == ch.downstream
             ts == dh.downstream
  <2>1. /\ Len(ss) = Cardinality(A)
        /\ \A n \in DOMAIN ss : \E mk \in At(r, hs) : ss[n] \in Beyond(r, mk)
        /\ \A mk \in At(r, hs) : Beyond(r, mk) # {} => \E n \in DOMAIN ss : ss[n] \in Beyond(r, mk)
    BY DEF Noted
  <2>2. ss \in Seq(STRING) /\ ts = ss \o down /\ DOMAIN ss = 1..Len(ss) /\ Len(ss) \in Nat
    BY <1>2, <1>4
  <2>3. A \subseteq hs
    BY <1>5
  <2> HIDE DEF ss, ts, r
  <2>4. CASE Beyond(r, lk) = {} /\ down = << >>
    <3>1. ts = ss
      BY <2>2, <2>4
    <3>2. B = A
      BY <1>5, <2>4
    <3>. QED BY <1>5, <2>1, <2>4, <3>1, <3>2 DEF ts
  <2>5. ASSUME NEW o \in STRING, o \in Beyond(r, lk), down = <<o>>
        PROVE  /\ Len(ts) = Cardinality(B)
               /\ \A n \in DOMAIN ts : \E mk \in At(r, gs) : ts[n] \in Beyond(r, mk)
               /\ \A mk \in At(r, gs) : Beyond(r, mk) # {} => \E n \in DOMAIN ts : ts[n] \in Beyond(r, mk)
    <3>1. /\ Len(ts) = Len(ss) + 1 /\ DOMAIN ts = 1..(Len(ss) + 1)
          /\ \A n \in 1..Len(ss) : ts[n] = ss[n]
          /\ ts[Len(ss) + 1] = o
      BY <2>2, <2>5
    <3>2. B = A \cup {lk}
      BY <1>5, <2>5
    <3>3. Cardinality(B) = Cardinality(A) + 1
      <4> HIDE DEF A, B
      <4>. QED BY <2>3, <3>2, EndCounts
    <3>4. ASSUME NEW n \in DOMAIN ts PROVE \E mk \in At(r, gs) : ts[n] \in Beyond(r, mk)
      <4>1. CASE n \in 1..Len(ss)
        BY <1>5, <2>1, <2>2, <3>1, <4>1
      <4>2. CASE n = Len(ss) + 1
        BY <1>5, <2>5, <3>1, <4>2
      <4>3. n \in 1..Len(ss) \/ n = Len(ss) + 1
        BY <2>2, <3>1
      <4>. QED BY <4>1, <4>2, <4>3
    <3>5. ASSUME NEW mk \in At(r, gs), Beyond(r, mk) # {}
          PROVE  \E n \in DOMAIN ts : ts[n] \in Beyond(r, mk)
      <4>1. CASE mk \in At(r, hs)
        <5>1. PICK n \in DOMAIN ss : ss[n] \in Beyond(r, mk)
          BY <2>1, <3>5, <4>1
        <5>2. n \in DOMAIN ts /\ ts[n] = ss[n]
          BY <2>2, <3>1
        <5>. QED BY <5>1, <5>2
      <4>2. CASE mk = lk
        <5>1. Len(ss) + 1 \in DOMAIN ts
          BY <2>2, <3>1
        <5>. QED BY <2>5, <3>1, <4>2, <5>1
      <4>. QED BY <1>5, <4>1, <4>2
    <3>. QED BY <2>1, <3>1, <3>3, <3>4, <3>5
  <2>. QED BY <1>3, <2>4, <2>5 DEF r, ts
<1>. QED BY <1>4, <1>6, <1>7 DEF Noted

(* An end that is not at a router changes no chart of it.                  *)
LEMMA NotedSame ==
  ASSUME NEW hs, NEW lk, NEW r, Near(lk) # r, NEW ch
  PROVE  /\ At(r, hs \cup {lk}) = At(r, hs)
         /\ Noted(ch, r, hs) => Noted(ch, r, hs \cup {lk})
<1>1. At(r, hs \cup {lk}) = At(r, hs)
  BY DEF At
<1>. QED BY <1>1 DEF Noted

LEMMA NewNoted ==
  ASSUME NEW cs, IsFiniteSet(DOMAIN cs), NEW r, NEW hs, At(r, hs) = {}
  PROVE  Noted(NewChart(cs), r, hs) /\ NewChart(cs).id = Cardinality(DOMAIN cs) + 1
<1> DEFINE ch == NewChart(cs)
<1>1. Cardinality(DOMAIN cs) \in Nat /\ Cardinality({}) = 0
  BY FS_CardinalityType, FS_EmptySet
<1>2. /\ ch \in [id : Nat, peers : Seq(STRING), downstream : Seq(STRING)]
      /\ ch.peers = << >> /\ ch.downstream = << >> /\ ch.id = Cardinality(DOMAIN cs) + 1
  BY <1>1 DEF NewChart
<1> HIDE DEF ch
<1>3. \A x : { n \in DOMAIN ch.peers : ch.peers[n] = x } = {}
  BY <1>2
<1>4. \A x : { lk \in At(r, hs) : Is(Far(lk), {"Router"}) /\ Name[Far(lk)] = x } = {}
  OBVIOUS
<1>5. { lk \in At(r, hs) : Beyond(r, lk) # {} } = {}
  OBVIOUS
<1>6. \A x \in STRING : Cardinality({ n \in DOMAIN ch.peers : ch.peers[n] = x }) =
        Cardinality({ lk \in At(r, hs) : Is(Far(lk), {"Router"}) /\ Name[Far(lk)] = x })
  BY <1>3, <1>4
<1>7. Len(ch.downstream) = Cardinality({ lk \in At(r, hs) : Beyond(r, lk) # {} })
  BY <1>1, <1>2, <1>5
<1>. QED BY <1>2, <1>6, <1>7 DEF Noted, ch

LEMMA UpdateCharted ==
  ASSUME Typed, NEW hs \in SUBSET HalfLinks, IsFiniteSet(hs), NEW lk \in HalfLinks \ hs,
         NEW cs, Charted(cs, hs), NEW ds \in UpdateCharts(cs, Near(lk), Far(lk))
  PROVE  Charted(ds, hs \cup {lk})
<1> DEFINE r == Near(lk)
           gs == hs \cup {lk}
<1>1. r \in Id
  BY EndsKnown
<1>2. At(r, gs) # {} /\ \A q : q # r => At(q, gs) = At(q, hs)
  BY NotedSame DEF At
<1>3. CASE ~Is(r, {"Router"})
  <2>1. ds = cs
    BY <1>3 DEF UpdateCharts
  <2>2. DOMAIN cs = { q \in Id : Is(q, {"Router"}) /\ At(q, gs) # {} } /\ r \notin DOMAIN cs
    BY <1>2, <1>3 DEF Charted
  <2>3. \A q \in DOMAIN cs : Noted(cs[q], q, gs)
    BY <2>2, NotedSame DEF Charted
  <2>. QED BY <2>1, <2>2, <2>3 DEF Charted
<1>4. CASE Is(r, {"Router"})
  <2>1. PICK down \in Downstream(r, Far(lk)) : ds = With(cs, r, Chart(cs, r, Far(lk), down))
    BY <1>4 DEF UpdateCharts
  <2> DEFINE ch == IF r \in DOMAIN cs THEN cs[r] ELSE NewChart(cs)
             dh == Chart(cs, r, Far(lk), down)
  <2>2. /\ DOMAIN ds = DOMAIN cs \cup {r} /\ ds[r] = dh
        /\ \A q \in DOMAIN cs : q # r => ds[q] = cs[q]
    BY <2>1 DEF With
  <2>3. DOMAIN ds = { q \in Id : Is(q, {"Router"}) /\ At(q, gs) # {} }
    BY <1>1, <1>2, <1>4, <2>2 DEF Charted
  <2>4. IsFiniteSet(DOMAIN cs) /\ Cardinality(DOMAIN cs) \in Nat
        /\ IsFiniteSet(DOMAIN ds)
        /\ Cardinality(DOMAIN ds) = Cardinality(DOMAIN cs) + (IF r \in DOMAIN cs THEN 0 ELSE 1)
    <3>1. IsFiniteSet(DOMAIN cs) /\ Cardinality(DOMAIN cs) \in Nat
      BY FS_CardinalityType DEF Charted
    <3>2. CASE r \in DOMAIN cs
      <4>1. DOMAIN ds = DOMAIN cs
        BY <2>2, <3>2
      <4>. QED BY <3>1, <3>2, <4>1
    <3>3. CASE r \notin DOMAIN cs
      <4>1. IsFiniteSet(DOMAIN ds) /\ Cardinality(DOMAIN ds) = Cardinality(DOMAIN cs) + 1
        BY <2>2, <3>1, <3>3, FS_AddElement
      <4>. QED BY <3>1, <3>3, <4>1
    <3>. QED BY <3>2, <3>3
  <2>5. Noted(ch, r, hs) /\ ch.id = IF r \in DOMAIN cs THEN cs[r].id ELSE Cardinality(DOMAIN cs) + 1
    <3>1. CASE r \in DOMAIN cs
      BY <3>1 DEF Charted
    <3>2. CASE r \notin DOMAIN cs
      <4>1. At(r, hs) = {}
        BY <1>1, <1>4, <3>2 DEF Charted
      <4>. QED BY <2>4, <3>2, <4>1, NewNoted
    <3>. QED BY <3>1, <3>2
  <2>6. Noted(dh, r, gs) /\ dh.id = ch.id
    <3>1. ch \in [id : Nat, peers : Seq(STRING), downstream : Seq(STRING)]
      BY <2>5 DEF Noted
    <3>2. dh = [id |-> ch.id, downstream |-> ch.downstream \o down,
                peers |-> IF Is(Far(lk), {"Router"}) THEN Append(ch.peers, Name[Far(lk)]) ELSE ch.peers]
      <4>1. dh = [ch EXCEPT !.peers = IF Is(Far(lk), {"Router"}) THEN Append(@, Name[Far(lk)]) ELSE @,
                            !.downstream = @ \o down]
        BY DEF Chart
      <4> HIDE DEF ch, dh
      <4>. QED BY <3>1, <4>1
    <3> HIDE DEF ch, dh
    <3>. QED BY <2>5, <3>2, NotedMore
  <2> HIDE DEF ch, dh
  <2>7. ASSUME NEW q \in DOMAIN ds PROVE Noted(ds[q], q, gs)
    <3>1. CASE q = r
      BY <2>2, <2>6, <3>1
    <3>2. CASE q # r
      BY <2>2, <3>2, NotedSame DEF Charted
    <3>. QED BY <3>1, <3>2
  <2>8. { ds[q].id : q \in DOMAIN ds } = 1..Cardinality(DOMAIN ds)
    <3>1. { cs[q].id : q \in DOMAIN cs } = 1..Cardinality(DOMAIN cs)
      BY DEF Charted
    <3>2. CASE r \in DOMAIN cs
      <4>1. DOMAIN ds = DOMAIN cs /\ \A q \in DOMAIN cs : ds[q].id = cs[q].id
        BY <2>2, <2>5, <2>6, <3>2
      <4>. QED BY <3>1, <4>1
    <3>3. CASE r \notin DOMAIN cs
      <4>1. /\ \A q \in DOMAIN cs : ds[q].id = cs[q].id
            /\ ds[r].id = Cardinality(DOMAIN cs) + 1
        BY <2>2, <2>5, <2>6, <3>3
      <4>2. { ds[q].id : q \in DOMAIN ds } = { cs[q].id : q \in DOMAIN cs } \cup {Cardinality(DOMAIN cs) + 1}
        BY <2>2, <4>1
      <4>3. Cardinality(DOMAIN ds) = Cardinality(DOMAIN cs) + 1
        BY <2>4, <3>3
      <4>. QED BY <2>4, <3>1, <4>2, <4>3
    <3>. QED BY <3>2, <3>3
  <2>. QED BY <2>3, <2>4, <2>7, <2>8 DEF Charted
<1>. QED BY <1>3, <1>4

LEMMA SameCharting ==
  ASSUME UNCHANGED design
  PROVE  /\ HalfLinks' = HalfLinks
         /\ \A cs, hs : Charted(cs, hs)' <=> Charted(cs, hs)
<1>1. \A i, kinds : Is(i, kinds)' <=> Is(i, kinds)
  BY DEF Is
<1>2. HalfLinks' = HalfLinks
  BY <1>1 DEF HalfLinks, Links
<1>3. \A lk : Near(lk)' = Near(lk) /\ Far(lk)' = Far(lk)
  BY DEF Near, Far
<1>4. \A r, lk : Beyond(r, lk)' = Beyond(r, lk)
  BY <1>1, <1>2, <1>3 DEF Beyond
<1>5. \A r, hs : At(r, hs)' = At(r, hs)
  BY <1>3 DEF At
<1>6. \A ch, r, hs : Noted(ch, r, hs)' <=> Noted(ch, r, hs)
  <2> TAKE ch, r, hs
  <2> DEFINE A(x) == { lk \in At(r, hs) : Is(Far(lk), {"Router"}) /\ Name[Far(lk)] = x }
             B == { lk \in At(r, hs) : Beyond(r, lk) # {} }
  <2>1. \A x : A(x)' = A(x)
    BY <1>1, <1>3, <1>5
  <2>2. B' = B
    BY <1>4, <1>5
  <2>. QED BY <1>4, <1>5, <2>1, <2>2 DEF Noted
<1>7. \A cs, hs : Charted(cs, hs)' <=> Charted(cs, hs)
  BY <1>1, <1>5, <1>6 DEF Charted
<1>. QED BY <1>2, <1>7

LEMMA InitPlotted == Init => Plotted
BY DEF Init, Plotted

LEMMA EditPlotted ==
  ASSUME Plotted, NEW i \in Id, NEW e, Edit(i, e)
  PROVE  Plotted'
BY DEF Edit, Plotted, made

LEMMA EndsPlotted ==
  ASSUME Plotted, NEW outcome, outcome # "success", Ends(outcome)
  PROVE  Plotted'
BY DEF Ends, Plotted, Mapped, Served

(* Before the links are gone through for the charts.                       *)
LEMMA EarlyPlotted ==
  ASSUME Plotted, pc \notin {"route", "charts"}, pc' \notin {"idle", "route", "charts"},
         UNCHANGED charts
  PROVE  Plotted'
BY DEF Plotted, Mapped, Served

LEMMA NothingCharted ==
  ASSUME NEW hs, hs = {}
  PROVE  IsFiniteSet(hs) /\ Charted(NoCharts, hs)
<1>1. \A r : At(r, hs) = {}
  BY DEF At
<1>2. DOMAIN NoCharts = {}
  BY DEF NoCharts
<1>3. IsFiniteSet({}) /\ Cardinality({}) = 0
  BY FS_EmptySet
<1>4. { NoCharts[r].id : r \in DOMAIN NoCharts } = 1..Cardinality(DOMAIN NoCharts)
  BY <1>2, <1>3
<1>. QED BY <1>1, <1>2, <1>3, <1>4 DEF Charted

LEMMA BeginsPlotted ==
  ASSUME Typed, Plotted, pc \notin {"route", "charts"}, pc' = "route", todo' = Present,
         UNCHANGED <<design, charts>>
  PROVE  Plotted'
<1>1. charts' = NoCharts
  BY DEF Plotted
<1>2. Passed' = {}
  <2>1. \A lk \in HalfLinks : lk[1] \in Present
    BY EndsKnown DEF Present, Links, Is
  <2>. QED BY <2>1, SameCharting DEF Passed
<1>3. IsFiniteSet(Passed') /\ Charted(charts', Passed')
  BY <1>1, <1>2, NothingCharted
<1>4. (IsFiniteSet(Passed) /\ Charted(charts, Passed))'
  BY <1>3, SameCharting
<1>. QED BY <1>4 DEF Plotted, Mapped, Served

LEMMA LinkPlotted ==
  ASSUME Typed, Plotted, NEW i \in Id, ChartLink(i)
  PROVE  Plotted'
<1> DEFINE a == design[i].ends[1].id
           b == design[i].ends[2].id
           hs == Passed \cup {<<i, 2>>}
           gs == hs \cup {<<i, 1>>}
<1>1. /\ pc = "route" /\ pc' = "route" /\ i \in todo /\ todo' = todo \ {i} /\ Is(i, {"Link"})
      /\ UNCHANGED <<design, steady>>
  BY DEF ChartLink, Visit
<1>2. PICK cs \in UpdateCharts(charts, a, b) : charts' \in UpdateCharts(cs, b, a)
  BY DEF ChartLink
<1>3. SUFFICES ASSUME steady PROVE Mapped'
  BY <1>1 DEF Plotted
<1>4. IsFiniteSet(Passed) /\ Charted(charts, Passed) /\ Passed \subseteq HalfLinks
  BY <1>1, <1>3 DEF Plotted, Mapped, Passed
<1>5. /\ <<i, 1>> \in HalfLinks /\ Near(<<i, 1>>) = b /\ Far(<<i, 1>>) = a
      /\ <<i, 2>> \in HalfLinks /\ Near(<<i, 2>>) = a /\ Far(<<i, 2>>) = b
  BY <1>1 DEF HalfLinks, Links, Near, Far
<1>6. <<i, 2>> \notin Passed /\ <<i, 1>> \notin hs
  BY <1>1 DEF Passed
<1> HIDE DEF a, b
<1>7. Charted(cs, hs)
  BY <1>2, <1>4, <1>5, <1>6, UpdateCharted
<1>8. hs \subseteq HalfLinks /\ IsFiniteSet(hs)
  BY <1>4, <1>5, FS_AddElement
<1>9. Charted(charts', gs) /\ IsFiniteSet(gs)
  <2> HIDE DEF hs
  <2>1. Charted(charts', gs)
    BY <1>2, <1>5, <1>6, <1>7, <1>8, UpdateCharted
  <2>. QED BY <1>8, <2>1, FS_AddElement
<1>10. Passed' = gs
  <2>1. HalfLinks' = HalfLinks
    BY <1>1, SameCharting
  <2>2. \A lk \in HalfLinks : lk[1] = i => lk = <<i, 1>> \/ lk = <<i, 2>>
    BY EndsKnown
  <2>. QED BY <1>1, <1>5, <2>1, <2>2 DEF Passed
<1>11. (IsFiniteSet(Passed) /\ Charted(charts, Passed))'
  BY <1>1, <1>9, <1>10, SameCharting
<1>. QED BY <1>1, <1>11 DEF Mapped, Served

LEMMA ChartsPlotted ==
  ASSUME Typed, Traced, Plotted, LinksCharted \/ Answer \/ \E r \in Id : WriteChart(r)
  PROVE  Plotted'
<1>1. CASE LinksCharted
  <2>1. /\ pc = "route" /\ pc' = "charts" /\ todo' = DOMAIN charts
        /\ \A i \in todo : ~Is(i, {"Link"})
        /\ UNCHANGED <<design, steady, charts>>
    BY <1>1 DEF LinksCharted, Walked, made
  <2>2. Passed = HalfLinks
    BY <2>1, EndsKnown DEF Passed, Links
  <2>3. SUFFICES ASSUME steady PROVE Charted(charts, HalfLinks)'
    BY <2>1 DEF Plotted, Mapped, Served
  <2>4. Charted(charts, HalfLinks)
    BY <2>1, <2>2, <2>3 DEF Plotted, Mapped
  <2>. QED BY <2>1, <2>4, SameCharting
<1>2. CASE Answer
  <2>1. /\ pc = "charts" /\ todo = {} /\ pc' = "idle" /\ charts' = NoCharts
        /\ UNCHANGED <<design, steady, files, lost>>
    BY <1>2 DEF Answer, Ends
  <2>2. SUFFICES ASSUME steady
                 PROVE  "route" \in lost' \/ \E cs : /\ Charted(cs, HalfLinks)'
                                                     /\ \A r \in DOMAIN cs : Filed(r, cs[r])'
    BY <2>1 DEF Plotted, Mapped
  <2>3. Charted(charts, HalfLinks) /\ \A r \in DOMAIN charts : "route" \in lost \/ Filed(r, charts[r])
    BY <2>1, <2>2 DEF Plotted, Mapped
  <2>4. Charted(charts, HalfLinks') /\ (\A cs : Charted(cs, HalfLinks)' <=> Charted(cs, HalfLinks))
    BY <2>1, <2>3, SameCharting
  <2>5. \A r, ch : Filed(r, ch)' <=> Filed(r, ch)
    BY <2>1 DEF Filed
  <2>. QED BY <2>1, <2>3, <2>4, <2>5
<1>3. ASSUME NEW r \in Id, WriteChart(r) PROVE Plotted'
  <2>1. /\ pc = "charts" /\ pc' = "charts" /\ r \in todo /\ todo' = todo \ {r}
        /\ UNCHANGED <<design, steady, charts>> /\ lost \subseteq lost'
        /\ \/ files' = [files EXCEPT !["route"] = With(files.route, r, charts[r])]
           \/ files' = files /\ "route" \in lost'
    BY <1>3 DEF WriteChart, Write, made
  <2>2. DOMAIN files = {"cys", "topdl", "dns", "route"}
    BY DEF Traced, Shapes
  <2>3. SUFFICES ASSUME steady, "route" \notin lost'
                 PROVE  /\ Charted(charts, HalfLinks)'
                        /\ \A q \in DOMAIN charts \ todo' : Filed(q, charts[q])'
    BY <2>1, SameCharting DEF Plotted, Mapped, Served
  <2>4. Charted(charts, HalfLinks) /\ \A q \in DOMAIN charts \ todo : Filed(q, charts[q])
    BY <2>1, <2>3 DEF Plotted, Mapped
  <2>5. files'.route = With(files.route, r, charts[r])
    BY <2>1, <2>2, <2>3
  <2>6. ASSUME NEW q \in DOMAIN charts \ todo' PROVE Filed(q, charts[q])'
    <3>1. CASE q = r
      BY <2>1, <2>5, <3>1 DEF Filed, With
    <3>2. CASE q # r
      BY <2>1, <2>4, <2>5, <3>2 DEF Filed, With
    <3>. QED BY <3>1, <3>2
  <2>. QED BY <2>1, <2>4, <2>6, SameCharting
<1>. QED BY <1>1, <1>2, <1>3

LEMMA WalkPlotted ==
  ASSUME Plotted,
         \/ OnCompile \/ ObjectsDone \/ LinesDone \/ WriteCys \/ HostsDone \/ LinksDone
         \/ WriteTopDL \/ ClientsDone
         \/ \E i \in Id : \/ CheckPlink(i) \/ PhyoSrc(i) \/ SaxSrc(i) \/ KeepPlink(i)
                          \/ AddComp(i) \/ AddSwitch(i) \/ KeepLink(i)
                          \/ AddClient(i) \/ WriteKey(i)
  PROVE  Plotted'
<1>1. /\ pc \notin {"route", "charts"} /\ pc' \notin {"idle", "route", "charts"}
      /\ UNCHANGED charts
  <2>1. CASE \/ OnCompile \/ ObjectsDone \/ LinesDone \/ WriteCys \/ HostsDone \/ LinksDone
             \/ WriteTopDL \/ ClientsDone
    BY <2>1 DEF OnCompile, ObjectsDone, LinesDone, WriteCys, HostsDone, LinksDone, WriteTopDL,
       ClientsDone, Walked, To, made
  <2>2. CASE \E i \in Id : \/ CheckPlink(i) \/ PhyoSrc(i) \/ SaxSrc(i) \/ KeepPlink(i)
                           \/ AddComp(i) \/ AddSwitch(i) \/ KeepLink(i)
                           \/ AddClient(i) \/ WriteKey(i)
    BY <2>2 DEF CheckPlink, PhyoSrc, SaxSrc, KeepPlink, AddComp, AddSwitch, KeepLink, AddClient,
       WriteKey, Visit, made
  <2>. QED BY <2>1, <2>2
<1>. QED BY <1>1, EarlyPlotted

(* Passes that may panic, or pass over the keys.                           *)
LEMMA BranchPlotted ==
  ASSUME Typed, Plotted,
         \/ Checked \/ WriteSpec \/ KeysDone \/ Die \/ \E i \in Id : SaxPanics(i)
         \/ \E ie \in later : PlinkSrc(ie) \/ LinkSubstrate(ie)
  PROVE  Plotted'
<1>1. CASE Checked
  <2>1. CASE faulty /\ Ends("errors")
    BY <2>1, EndsPlotted
  <2>2. CASE ~faulty /\ To("objects") /\ UNCHANGED made
    BY <1>1, <2>2, EarlyPlotted DEF Checked, Walked, To, made
  <2>. QED BY <1>1, <2>1, <2>2 DEF Checked, made
<1>2. CASE WriteSpec
  <2>1. CASE "dns" \in lost'
    BY <1>2, <2>1, BeginsPlotted DEF WriteSpec, To, Walks, made
  <2>2. CASE "dns" \notin lost'
    BY <1>2, <2>2, EarlyPlotted DEF WriteSpec, made
  <2>. QED BY <2>1, <2>2
<1>3. CASE KeysDone
  BY <1>3, BeginsPlotted DEF KeysDone, To, Walks, made
<1>4. CASE Die
  BY <1>4, EndsPlotted DEF Die
<1>5. ASSUME NEW i \in Id, SaxPanics(i) PROVE Plotted'
  BY <1>5, EndsPlotted DEF SaxPanics, Panic
<1>6. ASSUME NEW ie \in later, PlinkSrc(ie) PROVE Plotted'
  <2>1. CASE PlinkStuck(ie[2])
    BY <1>6, <2>1, EndsPlotted DEF PlinkSrc, Panic
  <2>2. CASE ~PlinkStuck(ie[2])
    BY <1>6, <2>2, EarlyPlotted DEF PlinkSrc
  <2>. QED BY <2>1, <2>2
<1>7. ASSUME NEW ie \in later, LinkSubstrate(ie) PROVE Plotted'
  <2>1. CASE LinkStuck(ie[2])
    BY <1>7, <2>1, EndsPlotted DEF LinkSubstrate, Panic
  <2>2. CASE ~LinkStuck(ie[2])
    BY <1>7, <2>2, EarlyPlotted DEF LinkSubstrate
  <2>. QED BY <2>1, <2>2
<1>. QED BY <1>1, <1>2, <1>3, <1>4, <1>5, <1>6, <1>7

LEMMA StutterPlotted ==
  ASSUME Plotted, UNCHANGED vars
  PROVE  Plotted'
<1>1. UNCHANGED <<design, pc, todo, charts, files, answer, steady, lost>>
  BY DEF vars
<1>2. SUFFICES ASSUME Mapped PROVE Mapped'
  BY <1>1 DEF Plotted
<1>3. Passed' = Passed
  BY <1>1, SameCharting DEF Passed
<1>4. /\ Served' <=> Served
      /\ \A r, ch : Filed(r, ch)' <=> Filed(r, ch)
      /\ HalfLinks' = HalfLinks
      /\ \A cs, hs : Charted(cs, hs)' <=> Charted(cs, hs)
  BY <1>1, SameCharting DEF Served, Filed
<1>5. pc = "route" => (IsFiniteSet(Passed) /\ Charted(charts, Passed))'
  BY <1>1, <1>2, <1>3, <1>4 DEF Mapped
<1>6. pc = "charts" =>
        /\ Charted(charts, HalfLinks)'
        /\ \A r \in DOMAIN charts \ todo : "route" \in lost \/ Filed(r, charts[r])'
  BY <1>1, <1>2, <1>4 DEF Mapped
<1>7. Served => "route" \in lost \/ \E cs : /\ Charted(cs, HalfLinks)'
                                           /\ \A r \in DOMAIN cs : Filed(r, cs[r])'
  BY <1>2, <1>4 DEF Mapped
<1>. QED BY <1>1, <1>4, <1>5, <1>6, <1>7 DEF Mapped

LEMMA NextPlotted == Typed /\ Traced /\ Plotted /\ [Next]_vars => Plotted'
<1> SUFFICES ASSUME Typed, Traced, Plotted, [Next]_vars PROVE Plotted'
  OBVIOUS
<1>1. ASSUME NEW i \in Id, NEW e \in Versions(i) \cup {None}, Edit(i, e) PROVE Plotted'
  BY <1>1, EditPlotted
<1>2. CASE \/ OnCompile \/ Checked \/ ObjectsDone \/ LinesDone \/ WriteCys
           \/ HostsDone \/ LinksDone \/ WriteTopDL
           \/ ClientsDone \/ WriteSpec \/ KeysDone \/ LinksCharted \/ Answer
  BY <1>2, WalkPlotted, BranchPlotted, ChartsPlotted
<1>3. ASSUME NEW i \in Id,
             \/ CheckPlink(i)
             \/ PhyoSrc(i) \/ SaxSrc(i) \/ SaxPanics(i) \/ KeepPlink(i)
             \/ AddComp(i) \/ AddSwitch(i) \/ KeepLink(i)
             \/ AddClient(i) \/ WriteKey(i)
             \/ ChartLink(i) \/ WriteChart(i)
      PROVE Plotted'
  BY <1>3, WalkPlotted, BranchPlotted, LinkPlotted, ChartsPlotted
<1>4. ASSUME NEW ie \in later, PlinkSrc(ie) \/ LinkSubstrate(ie) PROVE Plotted'
  BY <1>4, BranchPlotted
<1>5. CASE Die
  BY <1>5, BranchPlotted
<1>6. CASE UNCHANGED vars
  BY <1>6, StutterPlotted
<1> QED BY <1>1, <1>2, <1>3, <1>4, <1>5, <1>6 DEF Next

LEMMA PlottedMatches == Traced /\ Plotted => ChartsMatch
<1> SUFFICES ASSUME Traced, Plotted, Compiled, "route" \notin lost PROVE ChartsMatch
  BY DEF ChartsMatch
<1>1. pc = "idle"
  BY DEF Compiled, Traced, Shapes
<1>2. PICK cs : Charted(cs, HalfLinks) /\ \A r \in DOMAIN cs : Filed(r, cs[r])
  BY <1>1 DEF Compiled, Plotted, Mapped, Served
<1>3. \A r : At(r, HalfLinks) = Neighbours(r)
  BY DEF At, Neighbours
<1> DEFINE linked == { r \in Id : Is(r, {"Router"}) /\ Neighbours(r) # {} }
<1>4. DOMAIN cs = linked
  BY <1>2, <1>3 DEF Charted
<1>5. \A r \in linked : r \in DOMAIN files.route /\ files.route[r] = cs[r] /\ Noted(files.route[r], r, HalfLinks)
  BY <1>2, <1>4 DEF Charted, Filed
<1>6. { files.route[r].id : r \in linked } = 1..Cardinality(linked)
  <2>1. { cs[r].id : r \in linked } = 1..Cardinality(linked)
    BY <1>2, <1>4 DEF Charted
  <2>. QED BY <1>5, <2>1
<1> HIDE DEF linked
<1>7. \A r \in linked : Noted(files.route[r], r, HalfLinks) /\ At(r, HalfLinks) = Neighbours(r)
  BY <1>3, <1>5
<1>8. \A x \in Id : Name[x] \in STRING
  BY NameAssumption
<1>. QED BY <1>5, <1>6, <1>7, <1>8 DEF ChartsMatch, Noted, linked

(* Of a design that no other handler changes, the charts on disk say how   *)
(* its routers are linked: they are numbered from one, and each has every  *)
(* router at the other end of a link as a peer, as often as there are      *)
(* links, and for each other link that leads anywhere one host downstream. *)
(* So it is whatever the order in which updateCharts comes to the links.   *)
THEOREM ChartsSayDesign == Spec => []ChartsMatch
<1> QED BY InitTyped, NextTyped, InitSound, NextSound, InitTraced, NextTraced,
           InitPlotted, NextPlotted, PlottedMatches, PTL DEF Spec
===============================================================================
