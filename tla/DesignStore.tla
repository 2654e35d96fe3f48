---------------------------- MODULE DesignStore ----------------------------
(***************************************************************************)
(* A process of addie (cmd/addie/main.go): the design it keeps in memory,  *)
(* design.Elements, and the database it keeps it in.                       *)
(*                                                                         *)
(* Every request runs in a goroutine of its own (Handlers) and nothing     *)
(* locks the map or the database.  onUpdate sorts the elements of its      *)
(* message into work and then, one at a time, stores an element and shows  *)
(* it in the map; onDelete forgets elements in the same two halves.  Each  *)
(* statement on the database is a step of its own: it may fail, another    *)
(* handler may come in between, or the process may die there.              *)
(*                                                                         *)
(* An error of the database is only logged, so the memory goes on.  An     *)
(* element of another type than the one it replaces is a panic, which ends *)
(* the handler where it is.                                                *)
(***************************************************************************)
EXTENDS DesignDb, Sequences, FiniteSets

CONSTANTS
  Root,              \* the system a new design has
  Handlers,          \* goroutines of the HTTP server
  Updates,           \* messages of onUpdate: sequences of [oid, e]
  Deletes,           \* messages of onDelete: sets of elements
  ConsistentClient,  \* clients send only what fits the design they see
  MaxRequests,       \* bounds: requests served,
  MaxFaults,         \*         statements that fail,
  MaxCrashes         \*         deaths of the process

ASSUME RootAssumption == Root \in Systems
ASSUME MessageAssumption ==
  /\ \A m \in Updates : m \in Seq([oid : Id, e : Elements])
  /\ \A d \in Deletes : d \subseteq Elements
ASSUME ClientAssumption == ConsistentClient \in BOOLEAN
ASSUME HandlersAssumption == IsFiniteSet(Handlers)

VARIABLES
  up,        \* the process listens
  elements,  \* design.Elements
  pc,        \* where the handler is
  pending,   \* work of the handler's message still to do
  kills,     \* killList
  item,      \* the work at hand
  old,       \* the element dbUpdate read from memory
  key,       \* the key the database returned
  left,      \* interfaces still to be stored
  placed,    \* history: all the work of the message
  spoiled,   \* history: identities a failing statement or a death of the
             \* process may have left half changed
  requests, faults, crashes

locals == <<pc, pending, kills, item, old, key, left, placed>>
counters == <<requests, faults, crashes>>
vars == <<tables, up, elements, locals, spoiled, counters>>

Acts == {"create", "update", "delete"}
Work == [rank : Nat, act : Acts, oid : Id, e : Elements]

DbStages == {"id", "newsys", "sys", "name", "row", "ends", "drop"}
Stages == DbStages \cup {"idle", "apply", "show", "hide"}

TypeOK ==
  /\ DbTypeOK
  /\ up \in BOOLEAN
  /\ elements \in [Id -> Elements \cup {None}]
  /\ pc \in [Handlers -> Stages]
  /\ pending \in [Handlers -> SUBSET Work]
  /\ kills \in [Handlers -> SUBSET Id]
  /\ item \in [Handlers -> Work \cup {None}]
  /\ old \in [Handlers -> Elements \cup {None}]
  /\ key \in [Handlers -> Keys \cup {None}]
  /\ left \in [Handlers -> SUBSET IfNames]
  /\ placed \in [Handlers -> SUBSET Work]
  /\ spoiled \in SUBSET Id
  /\ requests \in Nat /\ faults \in Nat /\ crashes \in Nat

Init ==
  /\ DbInit(Root)
  /\ up = TRUE
  /\ elements = [i \in Id |-> None]
  /\ pc = [h \in Handlers |-> "idle"]
  /\ pending = [h \in Handlers |-> {}]
  /\ kills = [h \in Handlers |-> {}]
  /\ item = [h \in Handlers |-> None]
  /\ old = [h \in Handlers |-> None]
  /\ key = [h \in Handlers |-> None]
  /\ left = [h \in Handlers |-> {}]
  /\ placed = [h \in Handlers |-> {}]
  /\ spoiled = {}
  /\ requests = 0 /\ faults = 0 /\ crashes = 0

---------------------------------------------------------------------------
(* Messages.                                                               *)

(* place: links are dealt with after nodes, and what is new after what is  *)
(* in the map already; within a class, in the order of the message.        *)
PlaceClass(u) == (IF IsLink(u.e) THEN 2 ELSE 0)
                 + (IF elements[u.oid] = None THEN 1 ELSE 0)

Place(m) ==
  { [rank |-> n + Len(m) * PlaceClass(m[n]),
     act  |-> IF elements[m[n].oid] = None THEN "create" ELSE "update",
     oid  |-> m[n].oid,
     e    |-> m[n].e] : n \in DOMAIN m }

(* Mutant of KillList: every old identity, changed or not. *)
KillAll(m) == { m[n].oid : n \in DOMAIN m }

KillList(m) == { m[n].oid : n \in { n \in DOMAIN m : m[n].e.id # m[n].oid } }

(* onDelete goes through a map of nodes, then one of links, then one of    *)
(* plinks, each in any order; sensors and actuators it skips.              *)
DeleteClass(e) == IF ~IsLink(e) THEN 0 ELSE IF e.kind = "Link" THEN 1 ELSE 2

Deletion(d) ==
  { [rank |-> DeleteClass(e), act |-> "delete", oid |-> e.id, e |-> e] :
      e \in { e \in d : e.kind \notin UnsupportedKinds } }

(* The design once all of m is in it. *)
After(m) ==
  [i \in Id |->
    IF \E n \in DOMAIN m : m[n].e.id = i
    THEN m[CHOOSE n \in DOMAIN m : m[n].e.id = i].e
    ELSE IF \E n \in DOMAIN m : m[n].oid = i THEN None ELSE elements[i]]

Without(d) ==
  [i \in Id |-> IF \E e \in d : e.id = i THEN None ELSE elements[i]]

(* Every end of a link names an element, and an interface it has. *)
EndsShown(f) ==
  \A i \in Id : f[i] # None /\ IsLink(f[i]) =>
    \A n \in 1..2 :
      LET end == f[i].ends[n] IN
        /\ f[end.host] # None /\ IsHost(f[end.host])
        /\ end.ifn # None => f[end.host].ifs[end.ifn] # None

(* What the handlers can be given without losing any of it: identities     *)
(* that do not meet, types that do not change, interfaces that are only    *)
(* added and that only computers are created with, links without an end in *)
(* the air.  "This function relies on the client to provide a consistent   *)
(* set of elements", says main.go of onDelete.                             *)
(*                                                                         *)
(* UpdateId moves an element to its new system before it renames it, so    *)
(* the identity halfway has to be free as well.                            *)
Halfway(u) == [u.oid EXCEPT !.sys = u.e.id.sys]

ConsistentChange(u) ==
  LET was == elements[u.oid] IN
  /\ u.e.kind \notin UnsupportedKinds
  /\ u.e.id # u.oid => was # None /\ elements[u.e.id] = None
  /\ Halfway(u) # u.oid => elements[Halfway(u)] = None
  /\ was = None => /\ u.e.id.sys \in systems
                   /\ IsHost(u.e) => u.e.kind = "Computer" \/ u.e.ifs = NoInterfaces
  /\ was # None => /\ was.kind = u.e.kind
                   /\ IsHost(u.e) => \A n \in IfNames :
                        was.ifs[n] # None => u.e.ifs[n] = was.ifs[n]

ConsistentUpdate(m) ==
  /\ \A n \in DOMAIN m : ConsistentChange(m[n])
  /\ \A n, p \in DOMAIN m : n # p => /\ m[n].oid # m[p].oid
                                     /\ m[n].e.id \notin {m[p].e.id, Halfway(m[p])}
  /\ EndsShown(After(m))

ConsistentDelete(d) ==
  /\ \A e \in d : elements[e.id] = e
  /\ EndsShown(Without(d))

(* Requests that are at work at once touch no identity in common, and do   *)
(* not both bring a system into being: both look for it first, and the     *)
(* second to create it then fails.                                         *)
Spot(w) == {w.oid, w.e.id, Halfway(w)}

Touches(w) ==
  Spot(w) \cup (IF IsLink(w.e) THEN { w.e.ends[n].host : n \in 1..2 } ELSE {})

Apart(h, work) ==
  \A g \in Handlers \ {h} : \A v \in placed[g], w \in work :
    /\ Touches(v) \cap Touches(w) = {}
    /\ w.e.id.sys \notin systems => v.e.id.sys # w.e.id.sys

(* A request arrives: the message is unpacked and sorted. *)
Ready(h) == up /\ pc[h] = "idle" /\ requests < MaxRequests

Receive(h, work, killList) ==
  /\ requests' = requests + 1
  /\ pc' = [pc EXCEPT ![h] = "apply"]
  /\ pending' = [pending EXCEPT ![h] = work]
  /\ placed' = [placed EXCEPT ![h] = work]
  /\ kills' = [kills EXCEPT ![h] = killList]
  /\ UNCHANGED <<tables, up, elements, item, old, key, left, spoiled, faults, crashes>>

OnUpdate(h) ==
  /\ Ready(h)
  /\ \E m \in Updates : /\ ConsistentClient => ConsistentUpdate(m) /\ Apart(h, Place(m))
                        /\ Receive(h, Place(m), KillList(m))

OnDelete(h) ==
  /\ Ready(h)
  /\ \E d \in Deletes : /\ ConsistentClient => ConsistentDelete(d) /\ Apart(h, Deletion(d))
                        /\ Receive(h, Deletion(d), {})

---------------------------------------------------------------------------
(* The loops of onUpdate and onDelete.                                     *)

Go(h, from, to) == pc[h] = from /\ pc' = [pc EXCEPT ![h] = to]

(* The work that is next: of those with the lowest rank, any. *)
NextWork(h) == { w \in pending[h] : \A v \in pending[h] : w.rank <= v.rank }

(* Work that has to do with a spoiled identity may fail, and spoils.       *)
Take(h, w, to) ==
  /\ Go(h, "apply", to)
  /\ item' = [item EXCEPT ![h] = w]
  /\ pending' = [pending EXCEPT ![h] = @ \ {w}]
  /\ spoiled' = spoiled \cup (IF Touches(w) \cap spoiled # {} THEN Spot(w) ELSE {})
  /\ UNCHANGED <<tables, up, elements, kills, key, left, placed, counters>>

(* dbCreate *)
BeginCreate(h) ==
  \E w \in NextWork(h) :
    /\ w.act = "create"
    /\ Take(h, w, IF w.e.kind \in UnsupportedKinds THEN "show" ELSE "id")
    /\ UNCHANGED old

(* dbUpdate, when the element is no longer in the map ("bad oid"), when no *)
(* table holds its type, and when there is something to update.            *)
BeginUpdate(h) ==
  \E w \in NextWork(h) :
    LET was == elements[w.oid] IN
    /\ w.act = "update"
    /\ was # None /\ IsHost(w.e) => was.kind = w.e.kind
    /\ Take(h, w, IF was = None \/ w.e.kind \in UnsupportedKinds THEN "show" ELSE "id")
    /\ old' = [old EXCEPT ![h] = was]

EndHandler(h) ==
  /\ pending' = [pending EXCEPT ![h] = {}]
  /\ kills' = [kills EXCEPT ![h] = {}]
  /\ item' = [item EXCEPT ![h] = None]
  /\ old' = [old EXCEPT ![h] = None]
  /\ key' = [key EXCEPT ![h] = None]
  /\ left' = [left EXCEPT ![h] = {}]
  /\ placed' = [placed EXCEPT ![h] = {}]
  /\ UNCHANGED <<tables, up, counters>>

(* dbUpdate converts the element in the map to the type of the new one     *)
(* unchecked: the rest of the message, the kill list too, is lost.         *)
TypePanic(h) ==
  /\ \E w \in NextWork(h) : /\ w.act = "update"
                            /\ elements[w.oid] # None
                            /\ IsHost(w.e) /\ elements[w.oid].kind # w.e.kind
  /\ Go(h, "apply", "idle")
  /\ spoiled' = spoiled \cup UNION { Spot(w) : w \in placed[h] }
  /\ EndHandler(h)
  /\ UNCHANGED elements

BeginDelete(h) ==
  \E w \in NextWork(h) :
    /\ w.act = "delete"
    /\ Take(h, w, "drop")
    /\ UNCHANGED old

(* The element at hand is shown under its own identity. *)
Show(h) ==
  /\ Go(h, "show", "apply")
  /\ elements' = [elements EXCEPT ![item[h].e.id] = item[h].e]
  /\ UNCHANGED <<tables, up, pending, kills, item, old, key, left, placed, spoiled, counters>>

Hide(h) ==
  /\ Go(h, "hide", "apply")
  /\ elements' = [elements EXCEPT ![item[h].oid] = None]
  /\ UNCHANGED <<tables, up, pending, kills, item, old, key, left, placed, spoiled, counters>>

(* All the work is done: the old identities go. *)
Finish(h) ==
  /\ pending[h] = {}
  /\ Go(h, "apply", "idle")
  /\ elements' = [i \in Id |-> IF i \in kills[h] THEN None ELSE elements[i]]
  /\ EndHandler(h)
  /\ UNCHANGED spoiled

---------------------------------------------------------------------------
(* The statements.  DbStep: the statement succeeds.                        *)

DbStep(h, from, to) ==
  /\ Go(h, from, to)
  /\ UNCHANGED <<up, elements, pending, kills, item, old, placed, spoiled, counters>>

Element(h) == item[h].e

(* Of the hosts, only a computer's interfaces are stored with it. *)
ToStore(e) ==
  IF e.kind = "Computer" THEN { n \in IfNames : e.ifs[n] # None } ELSE {}

(* Mutant of StoreId: an identity that is stored already is used again. *)
StoreOrReuseId(h) ==
  /\ DbStep(h, "id", "row")
  /\ item[h].act = "create"
  /\ \/ /\ CreateId(Element(h).id, nextKey)
        /\ key' = [key EXCEPT ![h] = nextKey]
     \/ /\ \E k \in Keys : IsIdKey(Element(h).id, k) /\ key' = [key EXCEPT ![h] = k]
        /\ UNCHANGED tables
  /\ left' = [left EXCEPT ![h] = ToStore(Element(h))]

StoreId(h) ==
  /\ DbStep(h, "id", "row")
  /\ item[h].act = "create"
  /\ CreateId(Element(h).id, nextKey)
  /\ key' = [key EXCEPT ![h] = nextKey]
  /\ left' = [left EXCEPT ![h] = ToStore(Element(h))]

(* UpdateNetworkHost stores the interfaces the old element did not have.   *)
(* For one with another conductor it calls UpdateInterface, which scans    *)
(* its row before it asks for it, fails and changes nothing.               *)
ToAdd(h) ==
  IF IsHost(Element(h))
  THEN { n \in IfNames : Element(h).ifs[n] # None /\ old[h].ifs[n] = None }
  ELSE {}

(* The reads of UpdateId: the key of the old identity and, for a move, the *)
(* system it goes to.  The statements follow that have something to change.*)
(* Mutant of NameStage: an element that has moved is not renamed as well. *)
NameUnlessMoved(h) ==
  IF item[h].oid.name # Element(h).id.name /\ item[h].oid.sys = Element(h).id.sys
  THEN "name" ELSE "row"

NameStage(h) == IF item[h].oid.name # Element(h).id.name THEN "name" ELSE "row"
SysStage(sys) == IF sys \in systems THEN "sys" ELSE "newsys"

(* Mutant of FindId: that there is no such identity goes unnoticed. *)
FindNothing(h) ==
  LET oid == item[h].oid  id == Element(h).id IN
  /\ DbStep(h, "id", IF oid.sys # id.sys THEN SysStage(id.sys) ELSE NameStage(h))
  /\ item[h].act = "update"
  /\ \/ \E k \in Keys : IsIdKey(oid, k) /\ key' = [key EXCEPT ![h] = k]
     \/ ~Taken(oid) /\ key' = [key EXCEPT ![h] = 0]
  /\ left' = [left EXCEPT ![h] = ToAdd(h)]
  /\ UNCHANGED tables

FindId(h) ==
  LET oid == item[h].oid  id == Element(h).id IN
  /\ DbStep(h, "id", IF oid.sys # id.sys THEN SysStage(id.sys) ELSE NameStage(h))
  /\ item[h].act = "update"
  /\ \E k \in Keys : IsIdKey(oid, k) /\ key' = [key EXCEPT ![h] = k]
  /\ left' = [left EXCEPT ![h] = ToAdd(h)]
  /\ UNCHANGED tables

StoreSystem(h) ==
  /\ DbStep(h, "newsys", "sys")
  /\ CreateSystem(Element(h).id.sys)
  /\ UNCHANGED <<key, left>>

MoveId(h) ==
  /\ DbStep(h, "sys", NameStage(h))
  /\ MoveToSystem(key[h], Element(h).id.sys)
  /\ UNCHANGED <<key, left>>

RenameId(h) ==
  /\ DbStep(h, "name", "row")
  /\ Rename(key[h], Element(h).id.name)
  /\ UNCHANGED <<key, left>>

StoreInterface(h) ==
  /\ DbStep(h, "row", "row")
  /\ \E n \in left[h] :
       /\ CreateInterface(key[h], n, Element(h).ifs[n])
       /\ left' = [left EXCEPT ![h] = @ \ {n}]
  /\ UNCHANGED key

(* Mutant of StoreRow: under the last key the sequence gave out. *)
StoreRowAtLast(h) ==
  /\ DbStep(h, "row", "show")
  /\ left[h] = {} /\ item[h].act = "create"
  /\ IF IsLink(Element(h)) THEN InsertLink(nextKey - 1, Element(h))
                           ELSE InsertHost(nextKey - 1, Element(h))
  /\ UNCHANGED <<key, left>>

StoreRow(h) ==
  /\ DbStep(h, "row", "show")
  /\ left[h] = {} /\ item[h].act = "create"
  /\ IF IsLink(Element(h)) THEN InsertLink(key[h], Element(h))
                           ELSE InsertHost(key[h], Element(h))
  /\ UNCHANGED <<key, left>>

UpdateRow(h) ==
  /\ DbStep(h, "row", IF Element(h).kind = "Link" THEN "ends" ELSE "show")
  /\ left[h] = {} /\ item[h].act = "update"
  /\ CASE Element(h).kind = "Link" -> UpdateLinkRow(key[h], Element(h))
       [] Element(h).kind = "Plink" -> UpdatePlinkRow(key[h], Element(h))
       [] OTHER -> UpdateHostRow(key[h], Element(h))
  /\ UNCHANGED <<key, left>>

UpdateEnds(h) ==
  /\ DbStep(h, "ends", "show")
  /\ UpdateLinkEnds(key[h], Element(h))
  /\ UNCHANGED <<key, left>>

(* DeleteInterface, which onDelete calls for both ends of a link, formats  *)
(* its query with one argument too few and matches no row.                 *)
DropId(h) ==
  /\ DbStep(h, "drop", "hide")
  /\ DeleteId(item[h].oid)
  /\ UNCHANGED <<key, left>>

(* A statement fails, for a reason of the tables or of the connection.     *)
(* The error ends the database call, and is logged; only UpdateNetworkHost *)
(* does not look at the errors of its interfaces and goes on.              *)
Fail(h, to) ==
  /\ DbStep(h, pc[h], to)
  /\ UNCHANGED <<tables, key>>

IdRefused(h) ==
  IF item[h].act = "create"
  THEN Element(h).id.sys \notin systems \/ Taken(Element(h).id)
  ELSE ~Taken(item[h].oid)

StoreRefused(h) ==
  ids[key[h]] # None => IsLink(Element(h)) /\ ~EndsFound(Element(h))

UpdateRefused(h) ==
  LET e == Element(h)  k == key[h] IN
  CASE e.kind = "Link"  -> ~HasLinkRow(k, e.kind)
    [] e.kind = "Plink" -> ~EndsFound(e)
    [] OTHER            -> ~HasHostRow(k, e.kind)

RowRefused(h) ==
  /\ left[h] = {}
  /\ IF item[h].act = "create" THEN StoreRefused(h) ELSE UpdateRefused(h)

Refused(h) ==
  \/ pc[h] = "id" /\ IdRefused(h)
  \/ pc[h] = "newsys" /\ Element(h).id.sys \in systems
  \/ pc[h] = "sys" /\ ~MoveAllowed(key[h], Element(h).id.sys)
  \/ pc[h] = "name" /\ ~RenameAllowed(key[h], Element(h).id.name)
  \/ pc[h] = "row" /\ RowRefused(h)
  \/ pc[h] = "ends" /\ ~EndsFound(Element(h))

InterfaceRefused(h, n) == ids[key[h]] = None \/ ifaces[key[h]][n] # None

SkipInterface(h, n) ==
  /\ IF item[h].act = "create" THEN Fail(h, "show") ELSE Fail(h, "row")
  /\ left' = [left EXCEPT ![h] = IF item[h].act = "create" THEN {} ELSE @ \ {n}]

Refuse(h) ==
  \/ Refused(h) /\ Fail(h, "show") /\ UNCHANGED left
  \/ pc[h] = "row" /\ \E n \in left[h] : InterfaceRefused(h, n) /\ SkipInterface(h, n)

AtHand(h) == IF pc[h] \in {"idle", "apply"} THEN {} ELSE {item[h]}

(* The connection fails under a statement. *)
DbFault(h) ==
  /\ faults < MaxFaults
  /\ faults' = faults + 1
  /\ spoiled' = spoiled \cup UNION { Spot(w) : w \in AtHand(h) }
  /\ \/ /\ pc[h] \in DbStages /\ (pc[h] = "row" => left[h] = {})
        /\ pc' = [pc EXCEPT ![h] = IF pc[h] = "drop" THEN "hide" ELSE "show"]
        /\ UNCHANGED left
     \/ \E n \in left[h] :
          /\ pc[h] = "row"
          /\ pc' = [pc EXCEPT ![h] = IF item[h].act = "create" THEN "show" ELSE "row"]
          /\ left' = [left EXCEPT ![h] = IF item[h].act = "create" THEN {} ELSE @ \ {n}]
  /\ UNCHANGED <<tables, up, elements, pending, kills, item, old, key, placed,
                 requests, crashes>>

---------------------------------------------------------------------------
(* The process dies, with everything it had in memory, and is started      *)
(* again: doRead fills the map from the database.                          *)
(*                                                                         *)
(* What is half done then: the work at hand, and what goes with the nodes  *)
(* of a link although its own turn has not come: the row of a link that is *)
(* to be deleted, the ends of one that is to be updated.                   *)
Follows(w) == w.act = "delete" \/ (w.act = "update" /\ IsLink(w.e))

HalfDone ==
  UNION { AtHand(h) \cup { w \in pending[h] : Follows(w) } : h \in Handlers }

Crash ==
  /\ up /\ crashes < MaxCrashes
  /\ up' = FALSE
  /\ crashes' = crashes + 1
  /\ spoiled' = spoiled \cup UNION { Spot(w) : w \in HalfDone }
  /\ elements' = [i \in Id |-> None]
  /\ pc' = [h \in Handlers |-> "idle"]
  /\ pending' = [h \in Handlers |-> {}]
  /\ kills' = [h \in Handlers |-> {}]
  /\ item' = [h \in Handlers |-> None]
  /\ old' = [h \in Handlers |-> None]
  /\ key' = [h \in Handlers |-> None]
  /\ left' = [h \in Handlers |-> {}]
  /\ placed' = [h \in Handlers |-> {}]
  /\ UNCHANGED <<tables, requests, faults>>

Restart ==
  /\ ~up
  /\ up' = TRUE
  /\ elements' = ReadDesign
  /\ UNCHANGED <<tables, locals, spoiled, counters>>

---------------------------------------------------------------------------
Statement(h) ==
  \/ StoreId(h) \/ FindId(h) \/ StoreSystem(h) \/ MoveId(h) \/ RenameId(h)
  \/ StoreInterface(h) \/ StoreRow(h) \/ UpdateRow(h) \/ UpdateEnds(h) \/ DropId(h) \/ Refuse(h)

Loop(h) ==
  \/ BeginCreate(h) \/ BeginUpdate(h) \/ BeginDelete(h) \/ TypePanic(h)
  \/ Show(h) \/ Hide(h) \/ Finish(h)

Handle(h) == Loop(h) \/ Statement(h)

Next ==
  \/ \E h \in Handlers : OnUpdate(h) \/ OnDelete(h) \/ Handle(h) \/ DbFault(h)
  \/ Crash
  \/ Restart

Spec == Init /\ [][Next]_vars

---------------------------------------------------------------------------
(* Properties.                                                             *)

Quiescent == up /\ \A h \in Handlers : pc[h] = "idle"

(* A stored link ends in stored elements, and in interfaces they have: a   *)
(* read of the links of a design (ReadLinkByKey fails on a missing         *)
(* interface, and the process then never listens) cannot fail.             *)
LinkEndsStored ==
  \A k \in Keys : links[k] # None =>
    \A n \in 1..2 :
      LET end == links[k].ends[n] IN
        /\ ids[end.host] # None
        /\ end.ifn # None => ifaces[end.host][end.ifn] # None

(* An identity is stored once, with one row, in one table: what a restart  *)
(* reads does not depend on the order ReadDesign goes through the tables.  *)
OneElementPerId ==
  /\ \A j, k \in Keys : ids[j] # None /\ ids[j] = ids[k] => j = k
  /\ \A k \in Keys : hosts[k] = None \/ links[k] = None

(* When no request is at work, the database holds of every identity what   *)
(* the map shows of it, but for those of the very change that met a        *)
(* failing statement or a death of the process, and of later changes that  *)
(* have to do with them.  For clients that are consistent and keep apart.  *)
Durable ==
  Quiescent => \A i \in Id \ spoiled : elements[i] = ReadDesign[i]

(* Such clients cannot tell the process, with its two copies of the design *)
(* and its many statements, from one design that is changed at one blow,   *)
(* and that survives every death of the process.                           *)
(*                                                                         *)
(* The design a client sees is the map, without the old identities that    *)
(* are still to be killed; while the process is dead, it is what a restart *)
(* will read.                                                              *)
Shown(h) == (placed[h] \ pending[h]) \ AtHand(h)

Replaced ==
  { w.oid : w \in { w \in UNION { Shown(h) : h \in Handlers } :
                     w.act # "delete" /\ w.oid # w.e.id } }

SeenDesign ==
  IF up THEN [i \in Id |-> IF i \in Replaced THEN None ELSE elements[i]]
        ELSE ReadDesign

Inflight == UNION { pending[h] \cup AtHand(h) : h \in Handlers }

Atomic == INSTANCE AtomicDesign WITH
  Lanes <- Cardinality(Handlers), design <- SeenDesign, inflight <- Inflight,
  deaths <- crashes

AtomicSpec == Atomic!Spec

(* Once onUpdate has gone through its message, the map has every element   *)
(* of it as sent and none of the old identities, whatever statements       *)
(* failed, unless an element takes the identity of another one of the      *)
(* message: the kill list, which is applied last, would then delete it.    *)
(* For one handler and any client.                                         *)
CollisionFree(work) ==
  \A v, w \in work : v # w => v.e.id # w.e.id /\ v.e.id # w.oid

UpdateTakesEffect ==
  [][ \A h \in Handlers :
        Finish(h) /\ CollisionFree(placed[h]) =>
          \A w \in placed[h] : w.act # "delete" =>
            /\ elements'[w.e.id] = w.e
            /\ w.oid # w.e.id => elements'[w.oid] = None ]_vars

---------------------------------------------------------------------------
(* What clients can observe to disagree with what is written about the     *)
(* code.                                                                   *)

(* "Update the computer abby in a non-existant system": "failed", says     *)
(* spec/design.md, so the design shows elements of known systems only.     *)
ShownInKnownSystem ==
  Quiescent => \A i \in Id : elements[i] # None => i.sys \in systems

(* A host that onUpdate changed reads back from the database with the      *)
(* interfaces it was sent with ("computer update check failed", "router    *)
(* update failed", say the tests of the package where it does not).        *)
UpdateReadsBack ==
  [][ \A h \in Handlers : Finish(h) =>
        \A w \in placed[h] :
          /\ w.act = "update" /\ IsHost(w.e) /\ Spot(w) \cap spoiled = {}
          /\ ReadDesign[w.e.id] # None /\ IsHost(ReadDesign[w.e.id])
          => ReadDesign[w.e.id].ifs = w.e.ifs ]_vars

---------------------------------------------------------------------------
(* The inductive invariant: the properties above, what a handler holds at  *)
(* each stage, that the row a handler is creating is nobody else's, and    *)
(* that the map files an element under its identity.                       *)

ItemHeld ==
  \A h \in Handlers :
    /\ pc[h] \notin {"idle", "apply"} => item[h] \in Work
    /\ pc[h] \in {"id", "newsys", "sys", "name", "row", "ends"} =>
         item[h].e.kind \notin UnsupportedKinds
    /\ pc[h] \in {"newsys", "sys", "name", "row", "ends"} => key[h] \in Keys
    /\ pc[h] \in {"newsys", "sys", "name", "row"} /\ left[h] # {} => IsHost(item[h].e)
    /\ pc[h] \in {"newsys", "sys", "name", "ends"} => item[h].act = "update"
    /\ pc[h] = "ends" => IsLink(item[h].e)

MapKeyed == \A i \in Id : elements[i] # None => elements[i].id = i

FreshKeys ==
  \A k \in Keys : k >= nextKey =>
    ids[k] = None /\ hosts[k] = None /\ links[k] = None

Creating(h) == pc[h] = "row" /\ item[h].act = "create"

OwnRow ==
  \A h \in Handlers : Creating(h) =>
    /\ key[h] < nextKey
    /\ hosts[key[h]] = None /\ links[key[h]] = None
    /\ \A g \in Handlers : Creating(g) /\ g # h => key[g] # key[h]

IInv == /\ TypeOK /\ ItemHeld /\ FreshKeys /\ OwnRow
        /\ MapKeyed /\ LinkEndsStored /\ OneElementPerId

===========================================================================
