----------------------------- MODULE AtomicProofs -----------------------------
(***************************************************************************)
(* Proofs about Agreement: TableView, what the database holds while        *)
(* handlers are at work, is kept too, so that a process of addie is        *)
(* durable, and implements AtomicDesign.                                   *)
(***************************************************************************)
EXTENDS MapProofs, FiniteSetTheorems

---------------------------------------------------------------------------
(* Reading: an identity has one key, and what is read of it is the row of  *)
(* that key.                                                               *)

ElementAt(k) ==
  IF hosts[k] # None THEN HostAt(k) ELSE IF links[k] # None THEN LinkAt(k) ELSE None

ReadsRows ==
  /\ \A k \in Keys : ids[k] \in Id => ReadDesign[ids[k]] = ElementAt(k)
  /\ \A i \in Id : ~Taken(i) => ReadDesign[i] = None

LEMMA Reads == DbInv => ReadsRows
<1>1. ASSUME DbInv, NEW k \in Keys, ids[k] \in Id
      PROVE  ReadDesign[ids[k]] = ElementAt(k)
  <2>1. \A j \in Keys : ids[j] = ids[k] => j = k
    BY <1>1, NoneAssumption DEF DbInv, OneElementPerId
  <2>2. CASE hosts[k] # None
    <3>1. (CHOOSE j \in Keys : ids[j] = ids[k] /\ hosts[j] # None) = k
      BY <2>1, <2>2
    <3>. QED BY <1>1, <2>2, <3>1 DEF ReadDesign, ElementAt
  <2>3. CASE hosts[k] = None /\ links[k] # None
    <3>1. (CHOOSE j \in Keys : ids[j] = ids[k] /\ links[j] # None) = k
      BY <2>1, <2>3
    <3>2. ~ \E j \in Keys : ids[j] = ids[k] /\ hosts[j] # None
      BY <2>1, <2>3
    <3>. QED BY <1>1, <2>3, <3>1, <3>2 DEF ReadDesign, ElementAt
  <2>4. CASE hosts[k] = None /\ links[k] = None
    BY <1>1, <2>1, <2>4 DEF ReadDesign, ElementAt
  <2>. QED BY <2>2, <2>3, <2>4
<1>2. ASSUME NEW i \in Id, ~Taken(i)
      PROVE  ReadDesign[i] = None
  BY <1>2 DEF ReadDesign, Taken, IsIdKey
<1>. QED BY <1>1, <1>2 DEF ReadsRows

LEMMA ReadsNext == DbInv' => ReadsRows'
BY Reads, PTL

(* An element that is read has a key, and the rows of its kind there.      *)
LEMMA ReadHasKey ==
  ASSUME DbInv, NEW i \in Id, ReadDesign[i] # None
  PROVE  \E k \in Keys :
           /\ ids[k] = i /\ ReadDesign[i] = ElementAt(k)
           /\ IsLink(ReadDesign[i]) => /\ hosts[k] = None /\ links[k] # None
                                       /\ ReadDesign[i] = LinkAt(k)
           /\ ~IsLink(ReadDesign[i]) => hosts[k] # None /\ ReadDesign[i] = HostAt(k)
<1>1. PICK k \in Keys : ids[k] = i
  BY Reads DEF ReadsRows, Taken, IsIdKey
<1>2. ReadDesign[i] = ElementAt(k)
  BY <1>1, Reads DEF ReadsRows
<1>3. hosts[k] # None => hosts[k].kind \in HostKinds
  BY DEF DbInv, DbTypeOK, HostRows
<1>4. links[k] # None => links[k].kind \in LinkKinds
  BY DEF DbInv, DbTypeOK, LinkRows
<1>5. hosts[k] # None => ~IsLink(HostAt(k))
  BY <1>3 DEF HostAt, IsLink, HostKinds, LinkKinds
<1>6. links[k] # None => IsLink(LinkAt(k))
  BY <1>4 DEF LinkAt, IsLink
<1>. QED BY <1>1, <1>2, <1>5, <1>6 DEF ElementAt

---------------------------------------------------------------------------
(* What a statement of work w changes: the rows of identities of w; and,   *)
(* if w deletes, the links that end there go.                              *)

Dropping(w) == IF w.act = "delete" THEN {w.oid} ELSE {}

Confined(w) ==
  /\ \A k \in Keys : ids[k] \notin Spot(w) \cup {None} =>
       /\ ids'[k] = ids[k] /\ hosts'[k] = hosts[k] /\ ifaces'[k] = ifaces[k]
       /\ \/ links'[k] = links[k]
          \/ links[k] # None /\ \E n \in 1..2 : EndName(k, n) \in Dropping(w)
  /\ \A k \in Keys : ids[k] \in Spot(w) \cup {None} => ids'[k] \in Spot(w) \cup {None}
  /\ \A k \in Keys : ids[k] \in Spot(w) \ Leaving(w) => ids'[k] = ids[k]

LEMMA SameTablesConfined ==
  ASSUME UNCHANGED <<ids, hosts, ifaces, links>>, NEW w
  PROVE  Confined(w)
BY DEF Confined

LEMMA OneKeyConfined ==
  ASSUME NEW w, NEW k \in Keys, ids[k] \in Spot(w), ids'[k] = ids[k],
         \A j \in Keys : j # k => /\ ids'[j] = ids[j] /\ hosts'[j] = hosts[j]
                                  /\ ifaces'[j] = ifaces[j] /\ links'[j] = links[j]
  PROVE  Confined(w)
BY DEF Confined

(* The frame: other identities keep their key, and are read as before      *)
(* unless they join what w gives up.                                       *)
LEMMA TakenElsewhere ==
  ASSUME NEW w \in Work, Confined(w), NEW i \in Id \ Spot(w)
  PROVE  Taken(i)' <=> Taken(i)
BY NoneAssumption DEF Confined, Taken, IsIdKey

LEMMA KeyElsewhere ==
  ASSUME DbInv, DbInv', NEW w \in Work, Confined(w),
         NEW k \in Keys, ids[k] \in Id \ Spot(w)
  PROVE  /\ ids'[k] = ids[k] /\ hosts'[k] = hosts[k] /\ ifaces'[k] = ifaces[k]
         /\ links[k] # None /\ (\A n \in 1..2 : EndName(k, n) \notin Leaving(w)) =>
              /\ links'[k] = links[k]
              /\ \A n \in 1..2 : EndName(k, n)' = EndName(k, n)
         /\ links[k] = None => links'[k] = None
         /\ links'[k] = links[k] \/ \E n \in 1..2 : EndName(k, n) \in Dropping(w)
<1>1. /\ ids'[k] = ids[k] /\ hosts'[k] = hosts[k] /\ ifaces'[k] = ifaces[k]
      /\ \/ links'[k] = links[k]
         \/ links[k] # None /\ \E n \in 1..2 : EndName(k, n) \in Dropping(w)
  BY NoneAssumption DEF Confined
<1>2. Dropping(w) \subseteq Leaving(w)
  BY DEF Dropping, Leaving
<1>3. ASSUME links[k] # None, \A n \in 1..2 : EndName(k, n) \notin Leaving(w)
      PROVE  /\ links'[k] = links[k]
             /\ \A n \in 1..2 : EndName(k, n)' = EndName(k, n)
  <2>1. links'[k] = links[k]
    BY <1>1, <1>2, <1>3
  <2>2. ASSUME NEW n \in 1..2
        PROVE  ids'[links[k].ends[n].host] = ids[links[k].ends[n].host]
    <3>. DEFINE j == links[k].ends[n].host
    <3>1. j \in Keys /\ ids[j] # None /\ ids[j] \notin Leaving(w)
      BY <1>3, <2>2 DEF DbInv, DbTypeOK, LinkRows, LinkEndsStored, EndName
    <3>. QED BY <3>1 DEF Confined
  <2>. QED BY <2>1, <2>2 DEF EndName
<1>. QED BY <1>1, <1>3

LEMMA ReadElsewhere ==
  ASSUME DbInv, DbInv', NEW w \in Work, Confined(w), NEW i \in Id \ Spot(w),
         Joins(ReadDesign[i]) \cap Leaving(w) = {}
  PROVE  ReadDesign'[i] = ReadDesign[i]
<1>1. CASE ~Taken(i)
  <2>1. ~Taken(i)'
    BY <1>1, TakenElsewhere
  <2>. QED BY <1>1, <2>1, Reads, ReadsNext DEF ReadsRows
<1>2. CASE Taken(i)
  <2>1. PICK k \in Keys : ids[k] = i
    BY <1>2 DEF Taken, IsIdKey
  <2>2. /\ ids'[k] = i /\ hosts'[k] = hosts[k] /\ ifaces'[k] = ifaces[k]
        /\ links[k] = None => links'[k] = None
    BY <2>1, KeyElsewhere
  <2>3. ReadDesign[i] = ElementAt(k) /\ ReadDesign'[i] = ElementAt(k)'
    BY <2>1, <2>2, Reads, ReadsNext DEF ReadsRows
  <2>4. CASE hosts[k] # None
    BY <2>1, <2>2, <2>3, <2>4 DEF ElementAt, HostAt
  <2>5. CASE hosts[k] = None /\ links[k] # None
    <3>1. ReadDesign[i] = LinkAt(k) /\ IsLink(ReadDesign[i]) /\ ReadDesign[i] # None
      <4>1. ReadDesign[i] = LinkAt(k)
        BY <2>3, <2>5 DEF ElementAt
      <4>2. links[k].kind \in LinkKinds
        BY <2>5 DEF DbInv, DbTypeOK, LinkRows
      <4>3. LinkAt(k) \in Elements
        BY <2>1, <2>5, LinkAtType, NoneAssumption DEF DbInv
      <4>. QED BY <4>1, <4>2, <4>3, ElementAssumption DEF LinkAt, IsLink
    <3>2. \A n \in 1..2 : ReadDesign[i].ends[n].host = EndName(k, n)
      <4>1. LinkAt(k).ends = [n \in 1..2 |-> [host |-> ids[links[k].ends[n].host],
                                             ifn |-> links[k].ends[n].ifn]]
        BY DEF LinkAt
      <4>2. ReadDesign[i].ends = [n \in 1..2 |-> [host |-> ids[links[k].ends[n].host],
                                                 ifn |-> links[k].ends[n].ifn]]
        BY <3>1, <4>1
      <4>. QED BY <4>2 DEF EndName
    <3>3. \A n \in 1..2 : EndName(k, n) \notin Leaving(w)
      BY <3>1, <3>2 DEF Joins
    <3>4. links'[k] = links[k] /\ \A n \in 1..2 : EndName(k, n)' = EndName(k, n)
      BY <2>1, <2>5, <3>3, KeyElsewhere
    <3>5. LinkAt(k)' = LinkAt(k)
      BY <2>1, <2>2, <3>4 DEF LinkAt, EndName
    <3>. QED BY <2>2, <2>3, <2>5, <3>1, <3>4, <3>5 DEF ElementAt
  <2>6. CASE hosts[k] = None /\ links[k] = None
    BY <2>2, <2>3, <2>6 DEF ElementAt
  <2>. QED BY <2>4, <2>5, <2>6
<1>. QED BY <1>1, <1>2

---------------------------------------------------------------------------
(* Every statement is confined.                                            *)

Modest(h) ==
  /\ Confined(item[h]) /\ BareKeys'
  /\ systems' \subseteq systems \cup {item[h].e.id.sys}

LEMMA AtWork ==
  ASSUME IInv, MapView, NEW h \in Handlers, pc[h] \notin {"idle", "apply"}
  PROVE  /\ item[h] \in Work /\ item[h] \in placed[h] /\ item[h] \in Undone(h)
         /\ item[h] \notin pending[h] /\ AtHand(h) = {item[h]} /\ up
         /\ item[h].e \in Elements /\ item[h].oid \in Id /\ item[h].e.id \in Id
         /\ item[h].e.kind \notin UnsupportedKinds
<1>1. item[h] \in Work /\ AtHand(h) = {item[h]}
  BY ItemType DEF IInv, AtHand
<1>2. item[h] \in placed[h] /\ item[h] \in Undone(h) /\ item[h] \notin pending[h] /\ up
  BY <1>1 DEF MapView, Handling, Undone
<1>. QED BY <1>1, <1>2, WorkIds DEF MapView, Messages, Compatible

LEMMA StoreIdModest ==
  ASSUME IInv, MapView, BareKeys, NEW h \in Handlers, StoreId(h)
  PROVE  Modest(h)
<1>. DEFINE w == item[h]
<1>1. /\ CreateId(w.e.id, nextKey) /\ pc[h] = "id"
  BY DEF StoreId, DbStep, Go, Element
<1>2. w \in Work /\ w.e.id \in Spot(w)
  BY <1>1, AtWork, WorkIds
<1>3. nextKey \in Keys /\ ids[nextKey] = None
  BY <1>1 DEF CreateId, IInv, FreshKeys, TypeOK, DbTypeOK, Keys
<1>4. /\ ids' = [ids EXCEPT ![nextKey] = w.e.id]
      /\ UNCHANGED <<systems, hosts, ifaces, links>>
  BY <1>1 DEF CreateId
<1>5. None \notin Spot(w)
  BY <1>2, WorkIds, NoneAssumption
<1>. HIDE DEF w
<1>6. Confined(w)
  BY <1>2, <1>3, <1>4, <1>5 DEF Confined, IInv, TypeOK, DbTypeOK
<1>7. BareKeys'
  BY <1>2, <1>3, <1>4, <1>5 DEF BareKeys, IInv, TypeOK, DbTypeOK, NoInterfaces
<1>. QED BY <1>4, <1>6, <1>7 DEF Modest, w

LEMMA ReidentifyModest ==
  ASSUME IInv, MapView, BareKeys, NEW h \in Handlers,
         pc[h] \notin {"idle", "apply"}, key[h] \in Keys,
         ids[key[h]] \in Leaving(item[h]), NEW i \in Spot(item[h]),
         ids' = [ids EXCEPT ![key[h]] = i],
         UNCHANGED <<systems, hosts, ifaces, links>>
  PROVE  Modest(h)
<1>. DEFINE w == item[h]
            k == key[h]
<1>1. w \in Work /\ Leaving(w) \subseteq Spot(w) /\ None \notin Spot(w)
  BY AtWork, WorkIds, NoneAssumption
<1>2. k \in Keys /\ ids[k] \in Leaving(w) /\ i \in Spot(w) /\ ids' = [ids EXCEPT ![k] = i]
  OBVIOUS
<1>. HIDE DEF w, k
<1>3. Confined(w)
  BY <1>1, <1>2 DEF Confined, IInv, TypeOK, DbTypeOK
<1>4. BareKeys'
  BY <1>1, <1>2 DEF BareKeys, IInv, TypeOK, DbTypeOK, NoInterfaces
<1>. QED BY <1>3, <1>4 DEF Modest, w

LEMMA MoveModest ==
  ASSUME IInv, MapView, KeyHeld, BareKeys, NEW h \in Handlers, MoveId(h) \/ RenameId(h)
  PROVE  /\ Modest(h) /\ key[h] \in Keys
         /\ ids' = [ids EXCEPT ![key[h]] = IF pc[h] = "sys" THEN Halfway(item[h]) ELSE item[h].e.id]
<1>. DEFINE w == item[h]
            k == key[h]
<1>1. /\ pc[h] \in {"sys", "name"} /\ w.act = "update" /\ k \in Keys
      /\ UNCHANGED <<systems, hosts, ifaces, links>>
  BY ItemType DEF MoveId, RenameId, DbStep, Go, MoveToSystem, Rename, IInv, ItemHeld
<1>2. w \in Work /\ w.oid \in Id /\ w.e.id \in Id
  BY <1>1, AtWork
<1>3. CASE MoveId(h)
  <2>1. ids[k] = w.oid /\ w.oid.sys # w.e.id.sys /\ pc[h] = "sys"
    BY <1>3 DEF KeyHeld, KeyStages, Current, MoveId, DbStep, Go
  <2>2. ids' = [ids EXCEPT ![k] = Halfway(w)]
    BY <1>1, <1>2, <1>3, <2>1, NoneAssumption DEF MoveId, MoveToSystem, Element, Halfway
  <2>3. w.oid \in Leaving(w) /\ Halfway(w) \in Spot(w)
    BY <1>1, <2>1 DEF Leaving, Spot
  <2>. QED BY <1>1, <2>1, <2>2, <2>3, ReidentifyModest
<1>4. CASE RenameId(h)
  <2>1. ids[k] = Halfway(w) /\ w.oid.name # w.e.id.name /\ pc[h] = "name"
    BY <1>4 DEF KeyHeld, KeyStages, Current, RenameId, DbStep, Go
  <2>2. Halfway(w) \in Id /\ Halfway(w).name = w.oid.name /\ Halfway(w).sys = w.e.id.sys
    BY <1>2 DEF Halfway, Id
  <2>3. [Halfway(w) EXCEPT !.name = w.e.id.name] = w.e.id
    BY <1>2, <2>2 DEF Id
  <2>4. ids' = [ids EXCEPT ![k] = w.e.id]
    BY <1>1, <1>4, <2>1, <2>2, <2>3, NoneAssumption DEF RenameId, Rename, Element
  <2>5. Halfway(w) \in Leaving(w) /\ w.e.id \in Spot(w)
    BY <1>1, <2>1, <2>2 DEF Leaving, Spot
  <2>. QED BY <1>1, <2>1, <2>4, <2>5, ReidentifyModest
<1>. QED BY <1>3, <1>4

(* Statements on the rows of the key at hand.                              *)
LEMMA RowModest ==
  ASSUME IInv, MapView, KeyHeld, BareKeys, NEW h \in Handlers,
         pc[h] \in {"row", "ends"}, UNCHANGED <<systems, ids>>,
         \A j \in Keys : j # key[h] => /\ hosts'[j] = hosts[j] /\ ifaces'[j] = ifaces[j]
                                       /\ links'[j] = links[j]
  PROVE  Modest(h)
<1>1. ids[key[h]] = item[h].e.id /\ key[h] \in Keys
  BY ItemType DEF KeyHeld, KeyStages, Current, IInv
<1>2. item[h] \in Work
  BY AtWork
<1>3. item[h].e.id \in Spot(item[h]) /\ item[h].e.id # None
  BY <1>2, WorkIds, NoneAssumption
<1>4. Confined(item[h])
  BY <1>1, <1>3, OneKeyConfined
<1>5. BareKeys'
  BY <1>1, <1>3 DEF BareKeys, NoInterfaces
<1>. QED BY <1>4, <1>5 DEF Modest

LEMMA DropModest ==
  ASSUME IInv, MapView, BareKeys, NEW h \in Handlers, DropId(h)
  PROVE  Modest(h) /\ ~Taken(item[h].oid)'
<1>. DEFINE w == item[h]
<1>1. pc[h] = "drop" /\ DeleteId(w.oid)
  BY DEF DropId, DbStep, Go
<1>2. w \in Work /\ w.act = "delete" /\ w.oid \in Spot(w) /\ w.oid # None
  BY <1>1, AtWork, WorkIds, NoneAssumption DEF MapView, Handling
<1>. HIDE DEF w
<1>3. /\ \A k \in Keys : /\ ids[k] # w.oid => /\ ids'[k] = ids[k] /\ hosts'[k] = hosts[k]
                                             /\ ifaces'[k] = ifaces[k]
                         /\ ids[k] = w.oid => ids'[k] = None /\ ifaces'[k] = NoInterfaces
      /\ systems' = systems
  BY <1>1 DEF DeleteId, RowGone
<1>4. \A k \in Keys : ids[k] # w.oid =>
        \/ links'[k] = links[k]
        \/ links[k] # None /\ \E n \in 1..2 : EndName(k, n) = w.oid
  BY <1>1 DEF DeleteId, LinkGone, RowGone, EndName
<1>5. Confined(w)
  BY <1>2, <1>3, <1>4 DEF Confined, Leaving, Dropping
<1>6. BareKeys'
  BY <1>3 DEF BareKeys, NoInterfaces
<1>7. item' = item
  BY DEF DropId, DbStep
<1>8. \A k \in Keys : ids'[k] # w.oid
  BY <1>2, <1>3
<1>9. ~Taken(w.oid)'
  BY <1>7, <1>8 DEF Taken, IsIdKey, w
<1>. QED BY <1>3, <1>5, <1>6, <1>9 DEF Modest, w

LEMMA StatementModest ==
  ASSUME IInv, MapView, KeyHeld, BareKeys, NEW h \in Handlers, Statement(h) \/ DbFault(h)
  PROVE  Modest(h)
<1>1. ASSUME UNCHANGED <<ids, hosts, ifaces, links>>, systems' \subseteq systems \cup {item[h].e.id.sys}
      PROVE  Modest(h)
  <2>1. BareKeys'
    BY <1>1 DEF BareKeys, NoInterfaces
  <2>. QED BY <1>1, <2>1, SameTablesConfined DEF Modest
<1>2. CASE FindId(h) \/ StoreSystem(h) \/ Refuse(h) \/ DbFault(h)
  <2>1. /\ UNCHANGED <<ids, hosts, ifaces, links>>
        /\ systems' \subseteq systems \cup {item[h].e.id.sys}
    BY <1>2 DEF FindId, StoreSystem, CreateSystem, Refuse, Fail, SkipInterface, DbFault,
                tables, Element
  <2>. QED BY <1>1, <2>1
<1>3. CASE StoreInterface(h)
  <2>1. /\ pc[h] = "row" /\ UNCHANGED <<systems, ids, hosts, links>>
        /\ \A j \in Keys : j # key[h] => ifaces'[j] = ifaces[j]
    BY <1>3 DEF StoreInterface, CreateInterface, DbStep, Go, IInv, TypeOK, DbTypeOK
  <2>. QED BY <2>1, RowModest
<1>4. CASE StoreRow(h) \/ UpdateRow(h) \/ UpdateEnds(h)
  <2>1. pc[h] \in {"row", "ends"}
    BY <1>4 DEF StoreRow, UpdateRow, UpdateEnds, DbStep, Go
  <2>2. UNCHANGED <<systems, ids, ifaces>>
    BY <1>4 DEF StoreRow, UpdateRow, UpdateEnds, InsertLink, InsertHost, UpdateHostRow,
                UpdateLinkRow, UpdatePlinkRow, UpdateLinkEnds
  <2>3. \A j \in Keys : j # key[h] => hosts'[j] = hosts[j] /\ links'[j] = links[j]
    BY <1>4 DEF StoreRow, UpdateRow, UpdateEnds, InsertLink, InsertHost, UpdateHostRow,
                UpdateLinkRow, UpdatePlinkRow, UpdateLinkEnds, IInv, TypeOK, DbTypeOK
  <2>. QED BY <2>1, <2>2, <2>3, RowModest
<1>. QED BY <1>2, <1>3, <1>4, StoreIdModest, MoveModest, DropModest DEF Statement

---------------------------------------------------------------------------
(* Handler h makes a statement of work w: what the others know stays true. *)

Stated(h, w) ==
  /\ item[h] = w /\ w \in Work /\ w \in placed[h] /\ w \in Undone(h) /\ w \notin pending[h]
  /\ AtHand(h) = {w} /\ pc[h] \notin {"idle", "apply"} /\ pc'[h] \notin {"idle", "apply"}
  /\ DbInv /\ DbInv' /\ Confined(w) /\ BareKeys'
  /\ systems \subseteq systems' /\ systems' \subseteq systems \cup {w.e.id.sys}
  /\ SeenDesign' = SeenDesign
  /\ \A g \in Handlers : AtHand(g)' = AtHand(g) /\ Undone(g)' = Undone(g)
  /\ \A g \in Handlers : g # h => pc'[g] = pc[g] /\ key'[g] = key[g] /\ left'[g] = left[g]
  /\ spoiled' \in {spoiled, spoiled \cup Spot(w)}
  /\ UNCHANGED <<up, elements, pending, kills, item, old, placed>>

LEMMA IInvDbNext == IInv' => DbInv'
BY IInvDb, PTL

LEMMA StatementFacts ==
  ASSUME IInv, IInv', MapView, TableView, NEW h \in Handlers, Statement(h) \/ DbFault(h)
  PROVE  /\ Stated(h, item[h])
         /\ Statement(h) => spoiled' = spoiled
         /\ DbFault(h) => spoiled' = spoiled \cup Spot(item[h])
<1>1. KeyHeld /\ BareKeys
  BY DEF TableView
<1>2. pc[h] \notin {"idle", "apply"} /\ pc'[h] \notin {"idle", "apply"}
  BY StatementShape DEF DbStages
<1>3. Modest(h)
  BY <1>1, StatementModest
<1>4. /\ item[h] \in Work /\ item[h] \in placed[h] /\ item[h] \in Undone(h)
      /\ item[h] \notin pending[h] /\ AtHand(h) = {item[h]}
  BY <1>2, AtWork
<1>5. Statement(h) => spoiled' = spoiled
  BY DEF Statement, StoreId, FindId, StoreSystem, MoveId, RenameId, StoreInterface,
         StoreRow, UpdateRow, UpdateEnds, DropId, Refuse, Fail, SkipInterface, DbStep
<1>6. DbFault(h) => spoiled' = spoiled \cup Spot(item[h])
  BY <1>4 DEF DbFault
<1>7. DbInv /\ DbInv'
  BY IInvDb, IInvDbNext
<1>8. SeenDesign' = SeenDesign /\ \A g \in Handlers : AtHand(g)' = AtHand(g) /\ Undone(g)' = Undone(g)
  BY StatementMap
<1>9. /\ UNCHANGED <<up, elements, pending, kills, item, old, placed>>
      /\ \A g \in Handlers : g # h => pc'[g] = pc[g] /\ key'[g] = key[g] /\ left'[g] = left[g]
      /\ systems \subseteq systems'
  BY StatementShape
<1>. QED BY <1>2, <1>3, <1>4, <1>5, <1>6, <1>7, <1>8, <1>9 DEF Stated, Modest

(* Apart: what g has in hand or before it does not meet w.                 *)
LEMMA OthersApart ==
  ASSUME IInv, MapView, NEW h \in Handlers, NEW w \in placed[h],
         NEW g \in Handlers \ {h}, NEW u \in placed[g]
  PROVE  /\ u \in Work /\ w \in Work
         /\ Touches(u) \cap Touches(w) = {} /\ Touches(u) \cap Spot(w) = {}
         /\ Spot(u) \cap Spot(w) = {} /\ Spot(u) \subseteq Id \ Spot(w)
         /\ Reach(g) \cap Leaving(w) = {}
         /\ u.e.id.sys \notin systems => w.e.id.sys # u.e.id.sys
<1>1. u \in Work /\ w \in Work
  BY DEF IInv, TypeOK
<1>2. \A v \in placed[g] : Touches(v) \cap Touches(w) = {}
  BY DEF MapView, KeptApart
<1>3. u.e.id.sys \notin systems => w.e.id.sys # u.e.id.sys
  BY DEF MapView, KeptApart
<1>4. Spot(w) \subseteq Touches(w) /\ Leaving(w) \subseteq Touches(w)
      /\ Spot(u) \subseteq Touches(u) /\ Spot(u) \subseteq Id
  BY <1>1, WorkIds
<1>5. Reach(g) \cap Touches(w) = {}
  BY <1>2 DEF Reach
<1>. QED BY <1>1, <1>2, <1>3, <1>4, <1>5

(* A link seen to end in what w leaves is h's own.                         *)
LEMMA OthersJoins ==
  ASSUME IInv, MapView, NEW h \in Handlers, NEW w \in Undone(h),
         NEW g \in Handlers \ {h}, NEW u \in placed[g]
  PROVE  Joins(SeenDesign[u.oid]) \cap Leaving(w) = {}
<1>1. SUFFICES ASSUME Joins(SeenDesign[u.oid]) \cap Leaving(w) # {} PROVE FALSE
  OBVIOUS
<1>2. u \in Work /\ u.oid \in Id /\ u.oid \in Touches(u)
  <2>1. u \in Work
    BY DEF IInv, TypeOK
  <2>. QED BY <2>1, WorkIds
<1>3. PICK v \in Undone(h) : v.oid = u.oid
  BY <1>1, <1>2 DEF MapView, Followed
<1>4. v \in placed[h] /\ v \in Work
  BY DEF MapView, Handling, IInv, TypeOK
<1>5. v.oid \in Touches(v)
  BY <1>4, WorkIds
<1>. QED BY <1>2, <1>3, <1>4, <1>5, OthersApart

(* The row another handler g knows of.                                     *)
LEMMA OtherRow ==
  ASSUME IInv, MapView, NEW h \in Handlers, NEW w, Stated(h, w),
         NEW g \in Handlers \ {h}, NEW u \in placed[g],
         NEW k \in Keys, ids[k] \in Spot(u)
  PROVE  /\ ids'[k] = ids[k] /\ hosts'[k] = hosts[k] /\ ifaces'[k] = ifaces[k]
         /\ Row(g, k, u) => /\ Row(g, k, u)'
                            /\ IsLink(u.e) => links'[k] = links[k]
<1>1. w \in placed[h] /\ w \in Undone(h) /\ w \in Work /\ DbInv /\ DbInv' /\ Confined(w)
      /\ SeenDesign' = SeenDesign /\ placed' = placed
  BY DEF Stated
<1>2. ids[k] \in Id \ Spot(w)
  BY <1>1, OthersApart
<1>3. ids'[k] = ids[k] /\ hosts'[k] = hosts[k] /\ ifaces'[k] = ifaces[k]
  BY <1>1, <1>2, KeyElsewhere
<1>4. ASSUME Row(g, k, u), IsLink(u.e)
      PROVE  Row(g, k, u)' /\ links'[k] = links[k]
  <2>1. links[k] # None /\ \A n \in 1..2 : EndName(k, n) \in Joins(SeenDesign[u.oid]) \cup Reach(g)
    BY <1>4 DEF Row, HasLinkRow
  <2>2. \A n \in 1..2 : EndName(k, n) \notin Leaving(w)
    BY <1>1, <2>1, OthersApart, OthersJoins
  <2>3. links'[k] = links[k] /\ \A n \in 1..2 : EndName(k, n)' = EndName(k, n)
    BY <1>1, <1>2, <2>1, <2>2, KeyElsewhere
  <2>4. Reach(g)' = Reach(g)
    BY <1>1 DEF Reach
  <2>. QED BY <1>1, <1>4, <2>3, <2>4 DEF Row, HasLinkRow
<1>5. ASSUME Row(g, k, u), ~IsLink(u.e)
      PROVE  Row(g, k, u)'
  BY <1>3, <1>5 DEF Row, HasHostRow
<1>. QED BY <1>3, <1>4, <1>5

(* The row of work of h itself.                                            *)
LEMMA OwnRowKept ==
  ASSUME NEW h \in Handlers, NEW w, Stated(h, w), w.act # "delete",
         NEW u, NEW k \in Keys, Row(h, k, u),
         hosts'[k] = hosts[k], links'[k] = links[k]
  PROVE  Row(h, k, u)'
<1>1. CASE ~IsLink(u.e)
  BY <1>1 DEF Row, HasHostRow
<1>2. CASE IsLink(u.e)
  <2>1. links[k] # None /\ \A n \in 1..2 : EndName(k, n) \in Joins(SeenDesign[u.oid]) \cup Reach(h)
    BY <1>2 DEF Row, HasLinkRow
  <2>2. Spot(w) \subseteq Reach(h)
    BY WorkIds DEF Reach, Stated
  <2>3. ASSUME NEW n \in 1..2
        PROVE  EndName(k, n)' \in Joins(SeenDesign[u.oid]) \cup Reach(h)
    <3>. DEFINE j == links[k].ends[n].host
    <3>1. j \in Keys /\ ids[j] # None /\ ids'[j] # None
      BY SMTT(30), <2>1 DEF Stated, DbInv, DbTypeOK, LinkRows, LinkEndsStored
    <3>2. EndName(k, n)' = ids'[j] /\ EndName(k, n) = ids[j]
      BY DEF EndName
    <3>3. ids'[j] = ids[j] \/ ids'[j] \in Spot(w)
      BY <3>1 DEF Stated, Confined
    <3>. QED BY <2>1, <2>2, <3>2, <3>3
  <2>4. Reach(h)' = Reach(h) /\ SeenDesign' = SeenDesign
    BY DEF Reach, Stated
  <2>. QED BY <1>2, <2>3, <2>4 DEF Row, HasLinkRow
<1>. QED BY <1>1, <1>2

LEMMA OtherKey ==
  ASSUME IInv, MapView, KeyHeld, NEW h \in Handlers, NEW w, Stated(h, w),
         NEW g \in Handlers \ {h}, pc[g] \in KeyStages
  PROVE  /\ item[g] \in placed[g] /\ key[g] \in Keys /\ Current(g)' = Current(g)
         /\ Current(g) \in Spot(item[g]) /\ ids[key[g]] = Current(g)
         /\ ids'[key[g]] = Current(g) /\ ifaces'[key[g]] = ifaces[key[g]]
<1>1. /\ item[g] \in placed[g] /\ item[g] \in Work /\ key[g] \in Keys
  BY AtWork, ItemType DEF KeyStages, IInv
<1>2. Current(g) \in Spot(item[g]) /\ ids[key[g]] = Current(g)
  BY <1>1, WorkIds DEF KeyHeld, Current
<1>3. Current(g)' = Current(g)
  BY DEF Current, Stated
<1>. QED BY <1>1, <1>2, <1>3, OtherRow

LEMMA OthersKeyHeld ==
  ASSUME IInv, MapView, KeyHeld, NEW h \in Handlers, NEW w, Stated(h, w),
         pc'[h] \in KeyStages =>
           /\ ids'[key'[h]] = Current(h)'
           /\ pc'[h] \in {"newsys", "sys"} => w.oid.sys # w.e.id.sys
           /\ pc'[h] = "name" => w.oid.name # w.e.id.name
  PROVE  KeyHeld'
<1>1. ASSUME NEW g \in Handlers, g # h, pc'[g] \in KeyStages
      PROVE  /\ ids'[key'[g]] = Current(g)'
             /\ pc'[g] \in {"newsys", "sys"} => item'[g].oid.sys # item'[g].e.id.sys
             /\ pc'[g] = "name" => item'[g].oid.name # item'[g].e.id.name
  <2>1. pc[g] = pc'[g] /\ item'[g] = item[g] /\ key'[g] = key[g]
    BY <1>1 DEF Stated
  <2>2. ids'[key[g]] = Current(g)'
    BY <1>1, <2>1, OtherKey
  <2>. QED BY <1>1, <2>1, <2>2 DEF KeyHeld
<1>2. item'[h] = w
  BY DEF Stated
<1>. QED BY <1>1, <1>2 DEF KeyHeld

(* What Held says of a handler after the step, by stage.                    *)
LEMMA HeldNext ==
  ASSUME NEW g \in Handlers, NEW u, NEW k, NEW i,
         item'[g] = u, key'[g] = k, i = Current(g)',
         pc'[g] = "id" /\ u.act = "create" => ~Taken(u.oid)',
         pc'[g] = "id" /\ u.act = "update" => FreeBut(u, u.oid)' /\ RowFound(g)',
         pc'[g] = "newsys" => u.e.id.sys \notin systems',
         pc'[g] \in KeyStages =>
           FreeBut(u, i)' /\ Filled(g)' /\ (u.act = "update" => Row(g, k, u)'),
         pc'[g] = "ends" => links'[k].attr = u.e.attr,
         pc'[g] = "show" => FreeBut(u, u.e.id)' /\ ReadDesign'[u.e.id] = u.e,
         pc'[g] = "hide" => ~Taken(u.oid)'
  PROVE  Held(g)'
<1>1. FreeBut(u, i)' => FreeBut(item[g], Current(g))'
  BY DEF FreeBut
<1>2. FreeBut(u, u.oid)' => FreeBut(item[g], item[g].oid)'
  BY DEF FreeBut
<1>3. FreeBut(u, u.e.id)' => FreeBut(item[g], item[g].e.id)'
  BY DEF FreeBut
<1>4. Row(g, k, u)' => Row(g, key[g], item[g])'
  BY DEF Row, HasLinkRow, HasHostRow, EndName
<1>5. ~Taken(u.oid)' => ~Taken(item[g].oid)'
  BY DEF Taken, IsIdKey
<1>6. (pc[g] = "id" /\ item[g].act = "create" => ~Taken(item[g].oid))'
  BY <1>5
<1>7. (pc[g] = "id" /\ item[g].act = "update" => FreeBut(item[g], item[g].oid) /\ RowFound(g))'
  BY <1>2
<1>8. (pc[g] = "newsys" => item[g].e.id.sys \notin systems)'
  OBVIOUS
<1>9. (pc[g] \in KeyStages =>
         /\ FreeBut(item[g], Current(g)) /\ Filled(g)
         /\ item[g].act = "update" => Row(g, key[g], item[g]))'
  BY <1>1, <1>4 DEF KeyStages
<1>10. (pc[g] = "ends" => links[key[g]].attr = item[g].e.attr)'
  OBVIOUS
<1>11. (pc[g] = "show" => FreeBut(item[g], item[g].e.id) /\ ReadDesign[item[g].e.id] = item[g].e)'
  BY <1>3
<1>12. (pc[g] = "hide" => ~Taken(item[g].oid))'
  BY <1>5
<1>. QED BY <1>6, <1>7, <1>8, <1>9, <1>10, <1>11, <1>12 DEF Held

LEMMA OthersHeld ==
  ASSUME IInv, MapView, KeyHeld, NEW h \in Handlers, NEW w, Stated(h, w),
         NEW g \in Handlers \ {h}, NEW u, item[g] = u,
         pc[g] \notin {"idle", "apply"}, Held(g)
  PROVE  Held(g)'
<1>1. /\ u \in placed[g] /\ u \in Work /\ w \in placed[h] /\ u.oid \in Spot(u) /\ u.e.id \in Spot(u)
  BY AtWork, WorkIds DEF Stated
<1>2. pc'[g] = pc[g] /\ item'[g] = u /\ key'[g] = key[g] /\ left'[g] = left[g] /\ old'[g] = old[g]
  BY DEF Stated
<1>3. PICK k, i : key[g] = k /\ key'[g] = k /\ i = Current(g)'
  BY <1>2
<1>4. \A x \in Spot(u) : ~Taken(x) => ~Taken(x)'
  BY <1>1, OthersApart, TakenElsewhere DEF Stated
<1>5. \A j : FreeBut(u, j) => FreeBut(u, j)'
  BY <1>4 DEF FreeBut
<1>6. pc[g] = "id" /\ u.act = "create" => ~Taken(u.oid)'
  BY <1>1, <1>4 DEF Held
<1>7. ASSUME pc[g] = "id", u.act = "update"
      PROVE  FreeBut(u, u.oid)' /\ RowFound(g)'
  <2>1. FreeBut(u, u.oid) /\ RowFound(g)
    BY <1>7 DEF Held
  <2>2. PICK j \in Keys : /\ ids[j] = u.oid /\ Row(g, j, u)
                          /\ IsHost(u.e) => ifaces[j] = old[g].ifs
    BY <2>1 DEF RowFound
  <2>3. ids'[j] = u.oid /\ Row(g, j, u)' /\ ifaces'[j] = ifaces[j]
    BY <1>1, <2>2, OtherRow
  <2>4. RowFound(g)'
    BY <1>2, <2>2, <2>3 DEF RowFound
  <2>. QED BY <1>5, <2>1, <2>4
<1>8. pc[g] = "newsys" => u.e.id.sys \notin systems'
  BY <1>1, OthersApart DEF Held, Stated
<1>9. ASSUME pc[g] \in KeyStages
      PROVE  /\ FreeBut(u, i)'
             /\ Filled(g)' /\ (u.act = "update" => Row(g, k, u)')
             /\ pc[g] = "ends" => links'[k].attr = u.e.attr
  <2>1. /\ FreeBut(u, Current(g)) /\ Filled(g)
        /\ u.act = "update" => Row(g, k, u)
        /\ pc[g] = "ends" => links[k].attr = u.e.attr
    BY <1>9, <1>3 DEF Held
  <2>2. /\ k \in Keys /\ ids[k] \in Spot(u) /\ Current(g)' = Current(g)
        /\ ifaces'[k] = ifaces[k]
    BY <1>9, <1>3, OtherKey
  <2>3. u.act = "update" => Row(g, k, u)' /\ (IsLink(u.e) => links'[k] = links[k])
    BY <1>1, <2>1, <2>2, OtherRow
  <2>4. pc[g] = "ends" => u.act = "update" /\ IsLink(u.e)
    BY DEF IInv, ItemHeld
  <2>5. Filled(g)'
    BY <1>2, <1>3, <2>1, <2>2 DEF Filled
  <2>6. FreeBut(u, i)
    BY <1>3, <2>1, <2>2 DEF FreeBut
  <2>. QED BY <1>5, <2>1, <2>2, <2>3, <2>4, <2>5, <2>6
<1>10. ASSUME pc[g] = "show"
      PROVE  FreeBut(u, u.e.id)' /\ ReadDesign'[u.e.id] = u.e
  <2>1. FreeBut(u, u.e.id) /\ ReadDesign[u.e.id] = u.e
    BY <1>10 DEF Held
  <2>2. Joins(u.e) \subseteq Touches(u)
    BY DEF Joins, Touches
  <2>3. Joins(u.e) \cap Leaving(w) = {} /\ u.e.id \in Id \ Spot(w)
    BY <1>1, <2>2, OthersApart, WorkIds
  <2>4. ReadDesign'[u.e.id] = u.e
    BY <2>1, <2>3, ReadElsewhere DEF Stated
  <2>. QED BY <1>5, <2>1, <2>4
<1>11. pc[g] = "hide" => ~Taken(u.oid)'
  BY <1>1, <1>4 DEF Held
<1>12. pc'[g] = "id" /\ u.act = "update" => FreeBut(u, u.oid)' /\ RowFound(g)'
  BY <1>2, <1>7
<1>13. pc'[g] \in KeyStages =>
         FreeBut(u, i)' /\ Filled(g)' /\ (u.act = "update" => Row(g, k, u)')
  BY <1>2, <1>9
<1>14. pc'[g] = "ends" => links'[k].attr = u.e.attr
  BY <1>2, <1>9 DEF KeyStages
<1>15. pc'[g] = "show" => FreeBut(u, u.e.id)' /\ ReadDesign'[u.e.id] = u.e
  BY <1>2, <1>10
<1>. QED BY <1>2, <1>3, <1>6, <1>8, <1>11, <1>12, <1>13, <1>14, <1>15, HeldNext

LEMMA AgreedKept ==
  ASSUME IInv, MapView, Agreed, NEW h \in Handlers, NEW w, Stated(h, w)
  PROVE  Agreed'
<1>1. Busy' = Busy
  <2>1. \A g \in Handlers : BusyWith(g)' = BusyWith(g)
    BY DEF BusyWith, Stated
  <2>. QED BY <2>1 DEF Busy
<1>2. SUFFICES ASSUME NEW i \in Id \ (spoiled' \cup Busy) PROVE Same(i)'
  BY <1>1 DEF Agreed
<1>3. Same(i)
  BY <1>2 DEF Agreed, Stated
<1>4. i \notin Spot(w)
  BY DEF Busy, BusyWith, Stated
<1>5. Joins(SeenDesign[i]) \cap Leaving(w) = {}
  <2>1. SUFFICES ASSUME Joins(SeenDesign[i]) \cap Leaving(w) # {} PROVE FALSE
    OBVIOUS
  <2>2. PICK v \in Undone(h) : Follows(v) /\ v.oid = i
    BY <2>1 DEF MapView, Followed, Stated
  <2>3. v \in pending[h] \/ v = w
    BY DEF Undone, Stated
  <2>4. w.oid \in Spot(w)
    BY WorkIds DEF Stated
  <2>. QED BY <1>2, <1>4, <2>2, <2>3, <2>4 DEF Busy, BusyWith
<1>6. ReadDesign'[i] = ReadDesign[i] /\ (Taken(i)' <=> Taken(i))
  BY <1>3, <1>4, <1>5, ReadElsewhere, TakenElsewhere DEF Same, Stated
<1>. QED BY <1>3, <1>6 DEF Same, Stated

LEMMA LinkedKept ==
  ASSUME IInv, MapView, Linked, NEW h \in Handlers, NEW w, Stated(h, w)
  PROVE  Linked'
<1>1. SUFFICES ASSUME NEW g \in Handlers, NEW u \in pending[g],
                      u.act = "update", IsLink(u.e), u.oid \notin spoiled'
               PROVE  \E k \in Keys : ids'[k] = u.oid /\ Row(g, k, u)'
  BY DEF Linked, Stated
<1>2. PICK k \in Keys : ids[k] = u.oid /\ Row(g, k, u)
  BY <1>1 DEF Linked, Stated
<1>3. u \in placed[g] /\ u \in Undone(g) /\ u \in Work /\ u.oid \in Spot(u)
  <2>1. u \in placed[g] /\ u \in Undone(g) /\ u \in Work
    BY DEF MapView, Handling, Undone, IInv, TypeOK
  <2>. QED BY <2>1, WorkIds
<1>4. CASE g # h
  BY <1>2, <1>3, <1>4, OtherRow
<1>5. CASE g = h
  <2>1. u # w /\ w \in placed[h] /\ w \in Undone(h) /\ w \in Work /\ Confined(w)
    BY <1>5 DEF Stated
  <2>2. Compatible(u, w) /\ Compatible(w, u) /\ Fits(u)
    BY <1>1, <1>3, <1>5, <2>1 DEF MapView, Messages, Fitting
  <2>3. w.act # "delete" /\ u.oid # w.oid /\ w.e.id # u.oid
    BY <1>1, <2>1, <2>2 DEF Compatible, Distinct
  <2>4. Fits(w) /\ SeenDesign[u.oid] # None
    BY <1>1, <2>1, <2>2, <2>3 DEF MapView, Fitting, Fits
  <2>5. u.oid \notin Spot(w)
    BY <2>3, <2>4 DEF Fits, Spot
  <2>6. ids[k] \in Id \ Spot(w) /\ Dropping(w) = {} /\ links[k] # None
    BY <1>1, <1>2, <1>3, <2>3, <2>5, WorkIds DEF Dropping, Row, HasLinkRow
  <2>7. ids'[k] = ids[k] /\ hosts'[k] = hosts[k] /\ links'[k] = links[k]
    BY <2>1, <2>6, KeyElsewhere DEF Stated
  <2>8. Row(h, k, u)'
    BY <1>2, <1>5, <2>3, <2>7, OwnRowKept
  <2>. QED BY <1>2, <1>5, <2>7, <2>8
<1>. QED BY <1>4, <1>5

LEMMA TaintedKept ==
  ASSUME IInv, MapView, Tainted, NEW h \in Handlers, NEW w, Stated(h, w)
  PROVE  /\ Tainted'
         /\ \A g \in Handlers \ {h} : \A u \in AtHand(g) : Good(u)' => Good(u)
         /\ Good(w)' => Good(w) /\ spoiled' = spoiled
<1>1. w \in Work /\ w.oid \in Spot(w) /\ Spot(w) \subseteq Touches(w)
  BY WorkIds DEF Stated
<1>2. spoiled \subseteq spoiled'
  BY DEF Stated
<1>3. \A u : Good(u)' => Good(u)
  BY <1>2 DEF Good
<1>4. Good(w)' => spoiled' = spoiled
  BY <1>1 DEF Good, Stated
<1>5. ASSUME NEW g \in Handlers, NEW u \in AtHand(g)
      PROVE  Good(u)' \/ Spot(u) \subseteq spoiled'
  <2>1. CASE spoiled' = spoiled
    BY <1>5, <2>1 DEF Tainted, Good
  <2>2. CASE spoiled' = spoiled \cup Spot(w) /\ g = h
    BY <1>5, <2>2 DEF Stated
  <2>3. CASE spoiled' = spoiled \cup Spot(w) /\ g # h
    <3>1. u \in placed[g] /\ w \in placed[h]
      BY DEF MapView, Handling, Undone, Stated
    <3>2. Touches(u) \cap Spot(w) = {}
      BY <2>3, <3>1, OthersApart
    <3>. QED BY <1>5, <2>3, <3>2 DEF Tainted, Good
  <2>. QED BY <2>1, <2>2, <2>3 DEF Stated
<1>6. Tainted'
  BY <1>5 DEF Tainted, Stated
<1>. QED BY <1>3, <1>4, <1>6

---------------------------------------------------------------------------
(* What the statement does for the work itself.                            *)

LEMMA SupportedHost ==
  ASSUME NEW e \in Elements, e.kind \notin UnsupportedKinds, ~IsLink(e)
  PROVE  IsHost(e) /\ e \in NodeElements
BY ElementKinds

(* The key in hand after the statement.                                    *)
LEMMA OwnKey ==
  ASSUME IInv, MapView, KeyHeld, BareKeys, NEW h \in Handlers, NEW w, Stated(h, w),
         Statement(h) \/ DbFault(h), pc'[h] \in KeyStages
  PROVE  /\ ids'[key'[h]] = Current(h)'
         /\ pc'[h] \in {"newsys", "sys"} => w.oid.sys # w.e.id.sys
         /\ pc'[h] = "name" => w.oid.name # w.e.id.name
<1>1. w = item[h] /\ item'[h] = w /\ w.oid \in Id /\ w.e.id \in Id
  BY WorkIds DEF Stated
<1>2. w.oid.sys = w.e.id.sys => Halfway(w) = w.oid
  BY <1>1 DEF Halfway, Id
<1>3. w.oid.name = w.e.id.name => Halfway(w) = w.e.id
  BY <1>1 DEF Halfway, Id
<1>4. NameStage(h) \in {"name", "row"} /\ (NameStage(h) = "name" <=> w.oid.name # w.e.id.name)
  BY <1>1 DEF NameStage, Element
<1>5. pc \in [Handlers -> Stages] /\ key \in [Handlers -> Keys \cup {None}]
  BY DEF IInv, TypeOK
<1>6. CASE StoreId(h)
  <2>1. pc'[h] = "row" /\ key'[h] = nextKey /\ nextKey \in Keys /\ ids'[nextKey] = w.e.id
    BY <1>1, <1>5, <1>6 DEF StoreId, DbStep, Go, CreateId, Element, IInv, TypeOK, DbTypeOK
  <2>. QED BY <1>1, <2>1 DEF Current
<1>7. CASE FindId(h)
  <2>1. PICK k \in Keys : ids[k] = w.oid /\ key' = [key EXCEPT ![h] = k]
    BY <1>1, <1>7 DEF FindId, IsIdKey
  <2>2. key'[h] = k /\ ids' = ids
    BY <1>5, <1>7, <2>1 DEF FindId, tables
  <2>3. pc'[h] = IF w.oid.sys # w.e.id.sys THEN SysStage(w.e.id.sys) ELSE NameStage(h)
    BY <1>1, <1>5, <1>7 DEF FindId, DbStep, Go, Element
  <2>4. SysStage(w.e.id.sys) \in {"sys", "newsys"}
    BY DEF SysStage
  <2>5. Current(h)' = w.oid
    BY <1>1, <1>2, <1>3, <1>4, <2>3, <2>4 DEF Current
  <2>. QED BY <1>4, <2>1, <2>2, <2>3, <2>4, <2>5
<1>8. CASE StoreSystem(h)
  <2>1. pc[h] = "newsys" /\ pc'[h] = "sys" /\ key' = key /\ ids' = ids
    BY <1>5, <1>8 DEF StoreSystem, CreateSystem, DbStep, Go
  <2>2. Current(h)' = Current(h)
    BY <1>1, <2>1 DEF Current
  <2>. QED BY <1>1, <2>1, <2>2 DEF KeyHeld, KeyStages
<1>9. CASE MoveId(h) \/ RenameId(h)
  <2>1. /\ key[h] \in Keys
        /\ ids' = [ids EXCEPT ![key[h]] = IF pc[h] = "sys" THEN Halfway(w) ELSE w.e.id]
    BY <1>1, <1>9, MoveModest
  <2>2. key' = key /\ ids'[key[h]] = IF pc[h] = "sys" THEN Halfway(w) ELSE w.e.id
    BY <1>9, <2>1 DEF MoveId, RenameId, IInv, TypeOK, DbTypeOK
  <2>3. \/ pc[h] = "sys" /\ pc'[h] = NameStage(h)
        \/ pc[h] = "name" /\ pc'[h] = "row"
    BY <1>5, <1>9 DEF MoveId, RenameId, DbStep, Go
  <2>. QED BY <1>1, <1>3, <1>4, <2>2, <2>3 DEF Current
<1>10. ASSUME pc[h] \in {"row", "ends"}, pc'[h] \in {"row", "ends"}, ids' = ids, key' = key
       PROVE  /\ ids'[key'[h]] = Current(h)'
              /\ pc'[h] \notin {"newsys", "sys", "name"}
  BY <1>1, <1>10 DEF KeyHeld, KeyStages, Current
<1>11. CASE StoreInterface(h) \/ StoreRow(h) \/ UpdateRow(h) \/ UpdateEnds(h)
  <2>1. pc[h] \in {"row", "ends"} /\ pc'[h] \in {"row", "ends", "show"} /\ key' = key
    BY <1>5, <1>11 DEF StoreInterface, StoreRow, UpdateRow, UpdateEnds, DbStep, Go
  <2>2. ids' = ids
    BY <1>11 DEF StoreInterface, StoreRow, UpdateRow, UpdateEnds, CreateInterface, InsertLink,
                 InsertHost, UpdateHostRow, UpdateLinkRow, UpdatePlinkRow, UpdateLinkEnds
  <2>. QED BY <1>10, <2>1, <2>2 DEF KeyStages
<1>12. CASE DropId(h) \/ Refuse(h) \/ DbFault(h)
  <2>1. CASE DropId(h)
    BY <1>5, <2>1 DEF DropId, DbStep, Go, KeyStages
  <2>2. CASE Refuse(h)
    <3>1. pc'[h] = "show" \/ (pc[h] = "row" /\ pc'[h] = "row" /\ ids' = ids /\ key' = key)
      <4>1. ids' = ids /\ key' = key
        BY <2>2 DEF Refuse, Fail, SkipInterface, tables
      <4>2. \/ pc' = [pc EXCEPT ![h] = "show"]
            \/ pc[h] = "row" /\ pc' = [pc EXCEPT ![h] = "row"]
        BY <2>2 DEF Refuse, Fail, SkipInterface, DbStep, Go
      <4>. QED BY <1>5, <4>1, <4>2
    <3>. QED BY <1>10, <3>1 DEF KeyStages
  <2>3. CASE DbFault(h)
    <3>1. pc'[h] \in {"hide", "show"} \/ (pc[h] = "row" /\ pc'[h] = "row")
      <4>1. \/ pc' = [pc EXCEPT ![h] = IF pc[h] = "drop" THEN "hide" ELSE "show"]
            \/ pc[h] = "row" /\ pc' = [pc EXCEPT ![h] = IF item[h].act = "create" THEN "show" ELSE "row"]
        BY <2>3 DEF DbFault
      <4>. QED BY <1>5, <4>1
    <3>2. ids' = ids /\ key' = key
      BY <2>3 DEF DbFault, tables
    <3>. QED BY <1>10, <3>1, <3>2 DEF KeyStages
  <2>. QED BY <1>12, <2>1, <2>2, <2>3
<1>. QED BY <1>6, <1>7, <1>8, <1>9, <1>11, <1>12 DEF Statement

(* The ends of a good link are in the database when its turn has come.     *)
LEMMA EndSeen ==
  ASSUME IInv, MapView, NEW h \in Handlers, NEW w, AtHand(h) = {w}, w.act # "delete",
         IsLink(w.e), NEW n \in 1..2
  PROVE  /\ EndFits(w.e.ends[n], SeenDesign[w.e.ends[n].host])
         /\ \A v \in placed[h] :
              /\ w.e.ends[n].host \notin Leaving(v)
              /\ v \in Undone(h) => v.e.id # w.e.ends[n].host
<1>1. w \in Undone(h) /\ w \in placed[h]
  BY DEF Undone, MapView, Handling
<1>2. \A v \in placed[h] : Supports(v, w)
  BY <1>1 DEF MapView, Messages, Compatible
<1>3. \A v \in placed[h] : w.e.ends[n].host \notin Leaving(v)
  BY <1>2 DEF Supports
<1>4. ASSUME NEW v \in Undone(h), v.e.id = w.e.ends[n].host
      PROVE  FALSE
  <2>1. v \in placed[h] /\ v \in Work /\ w \in Work
    BY <1>1 DEF MapView, Handling, IInv, TypeOK
  <2>2. IsHost(v.e)
    BY <1>2, <1>4, <2>1 DEF Supports, EndFits
  <2>3. ~IsLink(v.e)
    BY <2>2 DEF IsHost, IsLink, HostKinds, LinkKinds
  <2>4. v.rank < w.rank /\ v \in pending[h]
    BY <1>2, <2>1, <2>3 DEF Supports, Undone
  <2>5. w.rank <= v.rank
    BY <2>4 DEF MapView, Handling
  <2>. QED BY <2>1, <2>4, <2>5 DEF Work
<1>5. EndFits(w.e.ends[n], SeenDesign[w.e.ends[n].host])
  BY <1>1, <1>4 DEF MapView, Founded
<1>. QED BY <1>3, <1>4, <1>5

LEMMA GoodEnds ==
  ASSUME IInv, MapView, Agreed, NEW h \in Handlers, NEW w, AtHand(h) = {w},
         w.act # "delete", IsLink(w.e), Good(w)
  PROVE  EndsFound(w.e)
<1>1. SUFFICES ASSUME NEW n \in 1..2
               PROVE  \E k \in Keys : EndFound(w.e.ends[n], k)
  BY DEF EndsFound
<1>. DEFINE x == w.e.ends[n].host
<1>2. w \in Undone(h) /\ w \in placed[h] /\ w \in Work
  BY DEF Undone, MapView, Handling, IInv, TypeOK
<1>3. x \in Touches(w) /\ x \in Id /\ w.e \in LinkElements
  BY <1>2, WorkIds, LinkEnds, ElementKinds
<1>4. EndFits(w.e.ends[n], SeenDesign[x])
  BY EndSeen
<1>5. \A v \in placed[h] : x \notin Leaving(v) /\ (v \in Undone(h) => v.e.id # x)
  BY EndSeen
<1>6. ASSUME NEW g \in Handlers, x \in BusyWith(g)
      PROVE  FALSE
  <2>1. PICK u \in Undone(g) : x \in Spot(u)
    <3>1. CASE x \in UNION { Spot(u) : u \in AtHand(g) }
      BY <3>1 DEF Undone
    <3>2. CASE \E u \in pending[g] : Follows(u) /\ x = u.oid
      <4>1. PICK u \in pending[g] : Follows(u) /\ x = u.oid
        BY <3>2
      <4>2. u \in Work
        BY DEF IInv, TypeOK
      <4>3. u.oid \in Spot(u)
        BY <4>2, WorkIds
      <4>. QED BY <4>1, <4>3 DEF Undone
    <3>. QED BY <1>6, <3>1, <3>2 DEF BusyWith
  <2>2. u \in placed[g] /\ u \in Undone(g) /\ u \in Work
    BY <2>1 DEF MapView, Handling, Undone, IInv, TypeOK
  <2>3. g = h
    BY <1>2, <1>3, <2>1, <2>2, OthersApart, WorkIds
  <2>4. CASE u.act = "delete"
    <3>1. w.act = "delete"
      BY <1>2, <2>2, <2>3, <2>4 DEF MapView, Messages, Compatible
    <3>. QED BY <3>1
  <2>5. CASE u.act # "delete"
    <3>1. x \in Leaving(u) \/ x = u.e.id
      BY <2>1, <2>5 DEF Leaving
    <3>. QED BY <1>5, <2>2, <2>3, <3>1
  <2>. QED BY <2>4, <2>5
<1>7. x \notin spoiled /\ x \notin Busy
  BY <1>3, <1>6 DEF Good, Busy
<1>8. Same(x)
  BY <1>3, <1>7 DEF Agreed
<1>9. /\ ReadDesign[x] = SeenDesign[x] /\ ReadDesign[x] # None /\ IsHost(ReadDesign[x])
      /\ w.e.ends[n].ifn # None => ReadDesign[x].ifs[w.e.ends[n].ifn] # None
  BY <1>4, <1>8 DEF Same, EndFits
<1>10. ~IsLink(ReadDesign[x]) /\ DbInv
  BY <1>9, IInvDb DEF IsHost, IsLink, HostKinds, LinkKinds
<1>11. PICK k \in Keys : ids[k] = x /\ ReadDesign[x] = HostAt(k)
  BY <1>3, <1>9, <1>10, ReadHasKey
<1>12. ReadDesign[x].ifs = ifaces[k]
  BY <1>11 DEF HostAt
<1>. QED BY <1>9, <1>11, <1>12 DEF EndFound, IsIdKey

(* What a handler with good work holds before the statement.               *)
LEMMA HeldNow ==
  ASSUME IInv, MapView, KeyHeld, NEW h \in Handlers, NEW w, Stated(h, w), Held(h)
  PROVE  /\ w = item[h] /\ item'[h] = w /\ w.oid \in Id /\ w.e.id \in Id /\ w.e \in Elements
         /\ w.e.kind \notin UnsupportedKinds /\ w.act \in {"create", "update", "delete"}
         /\ w.act # "delete" => Fits(w)
         /\ pc[h] \in KeyStages =>
              /\ key[h] \in Keys /\ ids[key[h]] = Current(h) /\ Current(h) \in Id
              /\ FreeBut(w, Current(h)) /\ Filled(h) /\ w.act # "delete"
              /\ w.act = "update" => Row(h, key[h], w)
              /\ \A j \in Keys : ids[j] = Current(h) => j = key[h]
<1>1. /\ w = item[h] /\ item'[h] = w /\ w \in Undone(h) /\ pc[h] \notin {"idle", "apply"}
      /\ w \in Work
  BY DEF Stated
<1>2. /\ w.oid \in Id /\ w.e.id \in Id /\ w.e \in Elements /\ Halfway(w) \in Id
      /\ w.e.kind \notin UnsupportedKinds /\ w.act \in {"create", "update", "delete"}
  BY <1>1, AtWork, WorkIds
<1>3. w.act # "delete" => Fits(w)
  BY <1>1 DEF MapView, Fitting
<1>4. ASSUME pc[h] \in KeyStages
      PROVE  /\ key[h] \in Keys /\ ids[key[h]] = Current(h) /\ Current(h) \in Id
             /\ FreeBut(w, Current(h)) /\ Filled(h) /\ w.act # "delete"
             /\ w.act = "update" => Row(h, key[h], w)
  <2>1. key[h] \in Keys
    BY <1>1, <1>4, ItemType DEF KeyStages, IInv
  <2>2. ids[key[h]] = Current(h) /\ Current(h) \in Id
    BY <1>1, <1>2, <1>4 DEF KeyHeld, Current
  <2>3. w.act # "delete"
    BY <1>1, <1>4 DEF KeyStages, MapView, Handling, Stages, DbStages
  <2>. QED BY <1>1, <1>4, <2>1, <2>2, <2>3 DEF Held
<1>5. pc[h] \in KeyStages => \A j \in Keys : ids[j] = Current(h) => j = key[h]
  BY <1>4, NoneAssumption DEF IInv, OneElementPerId
<1>. QED BY <1>1, <1>2, <1>3, <1>4, <1>5

(* No statement of good work is refused.                                   *)
LEMMA NotRefused ==
  ASSUME IInv, MapView, KeyHeld, Agreed, NEW h \in Handlers, NEW w, Stated(h, w),
         Held(h), Good(w)
  PROVE  ~Refuse(h)
<1>. DEFINE k == key[h]
<1>1. w = item[h] /\ w.e \in Elements /\ w.e.id \in Id /\ w.oid \in Id /\ AtHand(h) = {w}
  BY HeldNow DEF Stated
<1>2. /\ w.e.kind \notin UnsupportedKinds
      /\ w.act # "delete" => Fits(w)
  BY HeldNow
<1>3. pc[h] \in KeyStages =>
        /\ k \in Keys /\ ids[k] = Current(h) /\ Current(h) \in Id
        /\ FreeBut(w, Current(h)) /\ Filled(h) /\ w.act # "delete"
        /\ w.act = "update" => Row(h, k, w)
  BY HeldNow
<1>4. w.act # "delete" /\ IsLink(w.e) => EndsFound(w.e)
  BY <1>1, GoodEnds
<1>5. ~(pc[h] = "id" /\ IdRefused(h))
  <2>1. SUFFICES ASSUME pc[h] = "id" PROVE ~IdRefused(h)
    OBVIOUS
  <2>2. w.act \in {"create", "update"}
    BY <1>1, <2>1, HeldNow DEF MapView, Handling, Stages, DbStages
  <2>3. CASE w.act = "create"
    BY <1>1, <1>2, <2>1, <2>3 DEF IdRefused, Element, Held, Fits
  <2>4. CASE w.act = "update"
    BY <1>1, <2>1, <2>4 DEF IdRefused, Element, Held, RowFound, Taken, IsIdKey
  <2>. QED BY <2>2, <2>3, <2>4
<1>6. ~(pc[h] = "newsys" /\ Element(h).id.sys \in systems)
  BY <1>1 DEF Held, Element
<1>7. ~(pc[h] = "sys" /\ ~MoveAllowed(k, Element(h).id.sys))
  <2>1. SUFFICES ASSUME pc[h] = "sys" PROVE MoveAllowed(k, w.e.id.sys)
    BY <1>1 DEF Element
  <2>2. ids[k] = w.oid /\ w.oid.sys # w.e.id.sys /\ FreeBut(w, w.oid)
    BY <1>1, <1>3, <2>1 DEF KeyStages, Current, KeyHeld
  <2>3. Halfway(w) = [ids[k] EXCEPT !.sys = w.e.id.sys] /\ Halfway(w) # w.oid /\ Halfway(w) \in Spot(w)
    BY <1>1, <2>2 DEF Halfway, Id, Spot
  <2>4. ~Taken(Halfway(w))
    BY <2>2, <2>3 DEF FreeBut
  <2>. QED BY <2>3, <2>4 DEF MoveAllowed, FreeFor, Taken, IsIdKey
<1>8. ~(pc[h] = "name" /\ ~RenameAllowed(k, Element(h).id.name))
  <2>1. SUFFICES ASSUME pc[h] = "name" PROVE RenameAllowed(k, w.e.id.name)
    BY <1>1 DEF Element
  <2>2. ids[k] = Halfway(w) /\ w.oid.name # w.e.id.name /\ FreeBut(w, Halfway(w))
    BY <1>1, <1>3, <2>1 DEF KeyStages, Current, KeyHeld
  <2>3. w.e.id = [Halfway(w) EXCEPT !.name = w.e.id.name] /\ Halfway(w) # w.e.id /\ w.e.id \in Spot(w)
    BY <1>1, <2>2 DEF Halfway, Id, Spot
  <2>4. ~Taken(w.e.id)
    BY <2>2, <2>3 DEF FreeBut
  <2>. QED BY <2>2, <2>3, <2>4 DEF RenameAllowed, FreeFor, Taken, IsIdKey
<1>9. ~(pc[h] = "row" /\ RowRefused(h))
  <2>1. SUFFICES ASSUME pc[h] = "row" PROVE ~RowRefused(h)
    OBVIOUS
  <2>2. w.act # "delete" /\ (w.act = "update" => Row(h, k, w))
    BY <1>3, <2>1 DEF KeyStages
  <2>3. w.act = "create" => ~StoreRefused(h)
    BY <1>1, <1>3, <1>4, <2>1, NoneAssumption DEF StoreRefused, Element, KeyStages
  <2>4. w.act = "update" => ~UpdateRefused(h)
    <3>1. SUFFICES ASSUME w.act = "update" PROVE ~UpdateRefused(h)
      OBVIOUS
    <3>2. CASE IsLink(w.e)
      BY <1>1, <1>4, <2>2, <3>1, <3>2 DEF UpdateRefused, Element, Row, IsLink, LinkKinds
    <3>3. CASE ~IsLink(w.e)
      BY <1>1, <2>2, <3>1, <3>3 DEF UpdateRefused, Element, Row, IsLink, LinkKinds
    <3>. QED BY <3>2, <3>3
  <2>5. w.act \in {"create", "update"}
    BY <2>2, HeldNow
  <2>. QED BY <1>1, <2>3, <2>4, <2>5 DEF RowRefused
<1>10. ~(pc[h] = "ends" /\ ~EndsFound(Element(h)))
  BY <1>1, <1>3, <1>4 DEF Element, KeyStages, IInv, ItemHeld
<1>11. ~(pc[h] = "row" /\ \E n \in left[h] : InterfaceRefused(h, n))
  <2>1. SUFFICES ASSUME pc[h] = "row", NEW n \in left[h] PROVE ~InterfaceRefused(h, n)
    OBVIOUS
  <2>2. IsHost(w.e) /\ n \in IfNames
    BY <1>1, <2>1 DEF IInv, TypeOK, ItemHeld
  <2>3. ids[k] # None /\ Filled(h)
    BY <1>3, <2>1, NoneAssumption DEF KeyStages
  <2>. QED BY <1>1, <2>1, <2>2, <2>3 DEF InterfaceRefused, Filled
<1>. QED BY <1>5, <1>6, <1>7, <1>8, <1>9, <1>10, <1>11 DEF Refuse, Refused

LEMMA StoreIdHeld ==
  ASSUME IInv, MapView, KeyHeld, BareKeys, NEW h \in Handlers, NEW w, Stated(h, w),
         Held(h), StoreId(h)
  PROVE  Held(h)'
<1>1. w = item[h] /\ item'[h] = w /\ Fits(w) /\ w.e \in Elements /\ w.e.id \in Id /\ w.act = "create"
      /\ w.e.kind \notin UnsupportedKinds
  BY HeldNow DEF StoreId
<1>2. pc'[h] = "row" /\ key'[h] = nextKey /\ left'[h] = ToStore(w.e)
  BY <1>1 DEF StoreId, DbStep, Go, IInv, TypeOK, Element
<1>3. PICK k : k = nextKey
  OBVIOUS
<1>4. k \in Keys /\ ids[k] = None /\ ifaces' = ifaces
  BY <1>3 DEF StoreId, CreateId, IInv, FreshKeys, TypeOK, DbTypeOK, Keys
<1>5. ifaces'[k] = NoInterfaces
  BY <1>4 DEF BareKeys
<1>6. Filled(h)'
  <2>1. SUFFICES ASSUME IsHost(w.e), NEW n \in IfNames
                 PROVE  ifaces'[k][n] = IF n \in ToStore(w.e) THEN None ELSE w.e.ifs[n]
    BY <1>1, <1>2, <1>3 DEF Filled
  <2>2. ifaces'[k][n] = None
    BY <1>5 DEF NoInterfaces
  <2>3. w.e.kind = "Computer" \/ w.e.ifs = NoInterfaces
    BY <1>1, <2>1 DEF Fits
  <2>4. n \notin ToStore(w.e) => w.e.ifs[n] = None
    BY <2>3 DEF ToStore, NoInterfaces
  <2>. QED BY <2>2, <2>4
<1>7. w.e.id = w.oid /\ Spot(w) = {w.e.id}
  BY <1>1 DEF Fits, Spot, Halfway, Id
<1>8. Current(h)' = w.e.id
  BY <1>1, <1>2 DEF Current
<1>9. FreeBut(w, w.e.id)'
  BY <1>7 DEF FreeBut
<1>. QED BY <1>1, <1>2, <1>3, <1>6, <1>8, <1>9, HeldNext

LEMMA FindIdHeld ==
  ASSUME IInv, MapView, KeyHeld, NEW h \in Handlers, NEW w, Stated(h, w),
         Held(h), FindId(h)
  PROVE  Held(h)'
<1>1. w = item[h] /\ item'[h] = w /\ Fits(w) /\ w.e \in Elements /\ w.e.id \in Id /\ w.oid \in Id
      /\ w.act = "update" /\ w.e.kind \notin UnsupportedKinds /\ old'[h] = old[h]
  BY HeldNow DEF FindId, DbStep
<1>2. PICK k \in Keys : ids[k] = w.oid /\ key'[h] = k
  BY <1>1 DEF FindId, IsIdKey, IInv, TypeOK
<1>3. UNCHANGED tables /\ left'[h] = ToAdd(h) /\ pc[h] = "id"
  BY DEF FindId, DbStep, Go, IInv, TypeOK
<1>4. PICK j \in Keys : /\ ids[j] = w.oid /\ Row(h, j, w)
                        /\ IsHost(w.e) => ifaces[j] = old[h].ifs
  BY <1>1, <1>3 DEF Held, RowFound
<1>5. j = k
  BY <1>1, <1>2, <1>4, NoneAssumption DEF IInv, OneElementPerId
<1>6. Row(h, k, w)'
  BY <1>1, <1>3, <1>4, <1>5, OwnRowKept DEF tables
<1>7. Filled(h)'
  <2>1. SUFFICES ASSUME IsHost(w.e), NEW n \in IfNames
                 PROVE  ifaces'[k][n] = IF n \in ToAdd(h) THEN None ELSE w.e.ifs[n]
    BY <1>1, <1>2, <1>3 DEF Filled
  <2>2. ifaces'[k] = old[h].ifs
    BY <1>3, <1>4, <1>5, <2>1 DEF tables
  <2>3. old[h] = SeenDesign[w.oid]
    BY <1>1, <1>3 DEF MapView, OldSeen
  <2>4. old[h].ifs[n] # None => w.e.ifs[n] = old[h].ifs[n]
    BY <1>1, <2>1, <2>3 DEF Fits
  <2>5. n \in ToAdd(h) <=> w.e.ifs[n] # None /\ old[h].ifs[n] = None
    BY <1>1, <2>1 DEF ToAdd, Element
  <2>. QED BY <2>2, <2>4, <2>5
<1>8. pc'[h] = IF w.oid.sys # w.e.id.sys THEN SysStage(w.e.id.sys) ELSE NameStage(h)
  BY <1>1 DEF FindId, DbStep, Go, Element, IInv, TypeOK
<1>9. /\ NameStage(h) \in {"name", "row"} /\ (NameStage(h) = "row" => w.oid.name = w.e.id.name)
      /\ SysStage(w.e.id.sys) \in {"sys", "newsys"}
      /\ SysStage(w.e.id.sys) = "newsys" => w.e.id.sys \notin systems
  BY <1>1 DEF NameStage, SysStage, Element
<1>10. Current(h)' = w.oid
  BY <1>1, <1>8, <1>9 DEF Current, Halfway, Id
<1>11. FreeBut(w, w.oid)'
  <2>1. FreeBut(w, w.oid)
    BY <1>1, <1>3 DEF Held
  <2>. QED BY <1>3, <2>1 DEF FreeBut, Taken, IsIdKey, tables
<1>12. systems' = systems
  BY <1>3 DEF tables
<1>. QED BY <1>1, <1>2, <1>6, <1>7, <1>8, <1>9, <1>10, <1>11, <1>12, HeldNext

LEMMA StoreSystemHeld ==
  ASSUME IInv, MapView, KeyHeld, NEW h \in Handlers, NEW w, Stated(h, w),
         Held(h), StoreSystem(h)
  PROVE  Held(h)'
<1>1. /\ pc[h] = "newsys" /\ pc'[h] = "sys" /\ key'[h] = key[h] /\ left'[h] = left[h]
      /\ UNCHANGED <<ids, hosts, ifaces, links>>
  BY DEF StoreSystem, CreateSystem, DbStep, Go, IInv, TypeOK
<1>2. PICK k : k = key[h]
  OBVIOUS
<1>3. /\ w = item[h] /\ item'[h] = w /\ k \in Keys /\ w.act = "update"
      /\ FreeBut(w, w.oid) /\ Filled(h) /\ Row(h, k, w)
  BY <1>1, <1>2, HeldNow DEF KeyStages, Current, IInv, ItemHeld
<1>4. FreeBut(w, w.oid)'
  BY <1>1, <1>3 DEF FreeBut, Taken, IsIdKey
<1>5. Filled(h)'
  BY <1>1, <1>3 DEF Filled
<1>6. Row(h, k, w)'
  BY <1>1, <1>3, OwnRowKept
<1>7. Current(h)' = w.oid
  BY <1>1, <1>3 DEF Current
<1>. QED BY <1>1, <1>2, <1>3, <1>4, <1>5, <1>6, <1>7, HeldNext

LEMMA MoveHeld ==
  ASSUME IInv, MapView, KeyHeld, BareKeys, NEW h \in Handlers, NEW w, Stated(h, w),
         Held(h), MoveId(h) \/ RenameId(h)
  PROVE  Held(h)'
<1>1. /\ pc[h] \in {"sys", "name"} /\ key'[h] = key[h] /\ left'[h] = left[h]
      /\ UNCHANGED <<hosts, ifaces, links>>
      /\ pc'[h] = IF pc[h] = "sys" THEN NameStage(h) ELSE "row"
  BY DEF MoveId, RenameId, MoveToSystem, Rename, DbStep, Go, IInv, TypeOK
<1>2. PICK k, i : k = key[h] /\ i = IF pc[h] = "sys" THEN Halfway(w) ELSE w.e.id
  OBVIOUS
<1>3. /\ w = item[h] /\ item'[h] = w /\ k \in Keys /\ w.act = "update"
      /\ FreeBut(w, Current(h)) /\ Filled(h) /\ Row(h, k, w)
      /\ \A j \in Keys : ids[j] = Current(h) => j = k
      /\ w.oid \in Id /\ w.e.id \in Id
  BY <1>1, <1>2, HeldNow DEF KeyStages, IInv, ItemHeld
<1>4. ids' = [ids EXCEPT ![k] = i]
  BY <1>2, <1>3, MoveModest
<1>5. i \in Id /\ ids[k] = Current(h) /\ Current(h) \in Id
  BY <1>1, <1>2, <1>3, HeldNow, WorkIds DEF KeyStages, Stated
<1>6. FreeBut(w, i)'
  <2>1. SUFFICES ASSUME NEW x \in Spot(w) \ {i} PROVE \A j \in Keys : ids'[j] # x
    BY DEF FreeBut, Taken, IsIdKey
  <2>2. x # Current(h) => \A j \in Keys : ids[j] # x
    BY <1>3 DEF FreeBut, Taken, IsIdKey
  <2>3. x = Current(h) => \A j \in Keys \ {k} : ids[j] # x
    BY <1>3
  <2>. QED BY <1>3, <1>4, <2>1, <2>2, <2>3 DEF IInv, TypeOK, DbTypeOK
<1>7. Filled(h)'
  BY <1>1, <1>3 DEF Filled
<1>8. Row(h, k, w)'
  BY <1>1, <1>3, OwnRowKept
<1>9. NameStage(h) \in {"name", "row"} /\ (NameStage(h) = "row" => Halfway(w) = w.e.id)
  BY <1>3 DEF NameStage, Element, Halfway, Id
<1>10. i = Current(h)'
  BY <1>1, <1>2, <1>3, <1>9 DEF Current
<1>. QED BY <1>1, <1>2, <1>3, <1>6, <1>7, <1>8, <1>9, <1>10, HeldNext

LEMMA StoreInterfaceHeld ==
  ASSUME IInv, MapView, KeyHeld, NEW h \in Handlers, NEW w, Stated(h, w),
         Held(h), StoreInterface(h)
  PROVE  Held(h)'
<1>1. PICK n \in left[h] : /\ CreateInterface(key[h], n, Element(h).ifs[n])
                           /\ left' = [left EXCEPT ![h] = @ \ {n}]
  BY DEF StoreInterface
<1>2. /\ pc[h] = "row" /\ pc'[h] = "row" /\ key'[h] = key[h] /\ left'[h] = left[h] \ {n}
      /\ UNCHANGED <<ids, hosts, links>> /\ n \in IfNames
  BY <1>1 DEF StoreInterface, CreateInterface, DbStep, Go, IInv, TypeOK
<1>3. PICK k : k = key[h]
  OBVIOUS
<1>4. /\ w = item[h] /\ item'[h] = w /\ k \in Keys /\ w.act # "delete"
      /\ FreeBut(w, w.e.id) /\ Filled(h) /\ (w.act = "update" => Row(h, k, w))
  BY <1>2, <1>3, HeldNow DEF KeyStages, Current
<1>5. ifaces'[k] = [ifaces[k] EXCEPT ![n] = w.e.ifs[n]] /\ ifaces[k] \in Interfaces
  BY <1>1, <1>3, <1>4 DEF CreateInterface, Element, IInv, TypeOK, DbTypeOK
<1>6. FreeBut(w, w.e.id)'
  BY <1>2, <1>4 DEF FreeBut, Taken, IsIdKey
<1>7. Filled(h)'
  <2>1. SUFFICES ASSUME IsHost(w.e), NEW m \in IfNames
                 PROVE  ifaces'[k][m] = IF m \in left[h] \ {n} THEN None ELSE w.e.ifs[m]
    BY <1>2, <1>3, <1>4 DEF Filled
  <2>2. ifaces[k][m] = IF m \in left[h] THEN None ELSE w.e.ifs[m]
    BY <1>3, <1>4, <2>1 DEF Filled
  <2>. QED BY <1>2, <1>5, <2>2 DEF Interfaces
<1>8. w.act = "update" => Row(h, k, w)'
  BY <1>2, <1>4, OwnRowKept
<1>9. Current(h)' = w.e.id
  BY <1>2, <1>4 DEF Current
<1>. QED BY <1>2, <1>3, <1>4, <1>6, <1>7, <1>8, <1>9, HeldNext

(* A row written whole is read back as the element.                        *)
LEMMA LinkReadBack ==
  ASSUME IInv, MapView, KeyHeld, NEW h \in Handlers, NEW w, Stated(h, w),
         NEW k \in Keys, ids'[k] = w.e.id, IsLink(w.e), hosts'[k] = None,
         EndsFound(w.e), ids' = ids,
         links'[k] = [kind |-> w.e.kind, attr |-> w.e.attr, ends |-> EndKeys(w.e)]
  PROVE  ReadDesign'[w.e.id] = w.e
<1>1. w.e \in LinkElements /\ w.e.id \in Id
  BY WorkIds, ElementKinds DEF Stated
<1>2. \A n \in 1..2 : w.e.ends[n] \in Ends
  BY <1>1 DEF LinkElements
<1>3. \A n \in 1..2 : /\ ids[EndKeys(w.e)[n].host] = w.e.ends[n].host
                      /\ EndKeys(w.e)[n].ifn = w.e.ends[n].ifn
  BY <1>1, EndKeysType DEF IsIdKey, EndKeys
<1>4. LinkAt(k)' = [id |-> w.e.id, kind |-> w.e.kind, attr |-> w.e.attr,
                    ends |-> [n \in 1..2 |-> [host |-> w.e.ends[n].host, ifn |-> w.e.ends[n].ifn]]]
  <2>1. \A n \in 1..2 : ids'[links'[k].ends[n].host] = w.e.ends[n].host
                        /\ links'[k].ends[n].ifn = w.e.ends[n].ifn
    BY <1>3
  <2>. QED BY <2>1 DEF LinkAt
<1>5. [n \in 1..2 |-> [host |-> w.e.ends[n].host, ifn |-> w.e.ends[n].ifn]] = w.e.ends
  <2>1. \A n \in 1..2 : [host |-> w.e.ends[n].host, ifn |-> w.e.ends[n].ifn] = w.e.ends[n]
    BY <1>2 DEF Ends
  <2>2. w.e.ends \in [1..2 -> Ends]
    BY <1>1 DEF LinkElements
  <2>. QED BY <2>1, <2>2
<1>6. LinkAt(k)' = w.e
  BY <1>1, <1>4, <1>5 DEF LinkElements
<1>7. links'[k] # None
  <2>1. EndKeys(w.e) \in [1..2 -> [host : Keys, ifn : IfNames \cup {None}]]
    BY <1>1, EndKeysType
  <2>2. w.e.kind \in LinkKinds /\ w.e.attr \in Attrs
    BY <1>1 DEF LinkElements
  <2>. QED BY <2>1, <2>2, RowAssumption DEF LinkRows
<1>8. ElementAt(k)' = w.e
  BY <1>6, <1>7 DEF ElementAt
<1>. QED BY <1>1, <1>8, ReadsNext DEF ReadsRows, Stated

LEMMA HostReadBack ==
  ASSUME IInv, MapView, KeyHeld, NEW h \in Handlers, NEW w, Stated(h, w),
         NEW k \in Keys, ids'[k] = w.e.id, IsHost(w.e), ifaces'[k] = w.e.ifs,
         hosts'[k] = [kind |-> w.e.kind, attr |-> w.e.attr]
  PROVE  ReadDesign'[w.e.id] = w.e
<1>1. w.e \in NodeElements /\ w.e.id \in Id
  BY WorkIds, ElementKinds DEF Stated
<1>2. hosts'[k] # None
  BY <1>1, RowAssumption DEF NodeElements, HostRows, IsHost
<1>3. HostAt(k)' = [id |-> w.e.id, kind |-> w.e.kind, attr |-> w.e.attr, ifs |-> w.e.ifs]
  BY DEF HostAt
<1>4. HostAt(k)' = w.e
  BY <1>1, <1>3 DEF NodeElements
<1>5. ElementAt(k)' = w.e
  BY <1>2, <1>4 DEF ElementAt
<1>. QED BY <1>1, <1>5, ReadsNext DEF ReadsRows, Stated

(* The row is complete when nothing is left of it.                         *)
LEMMA FilledHost ==
  ASSUME IInv, NEW h \in Handlers, NEW k \in Keys, key[h] = k, NEW w, item[h] = w,
         w.e \in NodeElements, IsHost(w.e), left[h] = {}, Filled(h)
  PROVE  ifaces[k] = w.e.ifs
<1>1. ifaces[k] \in Interfaces /\ w.e.ifs \in Interfaces
  BY DEF IInv, TypeOK, DbTypeOK, NodeElements
<1>2. \A n \in IfNames : ifaces[k][n] = w.e.ifs[n]
  BY DEF Filled
<1>. QED BY <1>1, <1>2 DEF Interfaces

LEMMA StoreRowHeld ==
  ASSUME IInv, MapView, KeyHeld, NEW h \in Handlers, NEW w, Stated(h, w),
         Held(h), StoreRow(h)
  PROVE  Held(h)'
<1>1. /\ pc[h] = "row" /\ pc'[h] = "show" /\ left[h] = {} /\ item[h].act = "create"
      /\ UNCHANGED <<ids, ifaces>>
  BY DEF StoreRow, InsertLink, InsertHost, DbStep, Go, IInv, TypeOK
<1>2. PICK k : k = key[h]
  OBVIOUS
<1>3. /\ w = item[h] /\ item'[h] = w /\ k \in Keys /\ w.e \in Elements /\ ids[k] = w.e.id
      /\ FreeBut(w, w.e.id) /\ Filled(h) /\ w.e.kind \notin UnsupportedKinds
  BY <1>1, <1>2, HeldNow DEF KeyStages, Current
<1>4. hosts[k] = None /\ links[k] = None
  BY <1>1, <1>2 DEF IInv, OwnRow, Creating
<1>5. ReadDesign'[w.e.id] = w.e
  <2>1. CASE IsLink(w.e)
    <3>1. InsertLink(k, w.e)
      BY <1>2, <1>3, <2>1 DEF StoreRow, Element
    <3>2. /\ EndsFound(w.e) /\ hosts' = hosts
          /\ links' = [links EXCEPT ![k] = [kind |-> w.e.kind, attr |-> w.e.attr,
                                            ends |-> EndKeys(w.e)]]
      BY <3>1 DEF InsertLink
    <3>3. links'[k] = [kind |-> w.e.kind, attr |-> w.e.attr, ends |-> EndKeys(w.e)]
      BY <1>3, <3>2 DEF IInv, TypeOK, DbTypeOK
    <3>. QED BY <1>1, <1>3, <1>4, <2>1, <3>2, <3>3, LinkReadBack
  <2>2. CASE ~IsLink(w.e)
    <3>1. InsertHost(k, w.e)
      BY <1>2, <1>3, <2>2 DEF StoreRow, Element
    <3>2. hosts'[k] = [kind |-> w.e.kind, attr |-> w.e.attr]
      BY <1>3, <3>1 DEF InsertHost, IInv, TypeOK, DbTypeOK
    <3>3. IsHost(w.e) /\ w.e \in NodeElements
      BY <1>3, <2>2, SupportedHost
    <3>4. ifaces'[k] = w.e.ifs
      BY <1>1, <1>2, <1>3, <3>3, FilledHost
    <3>. QED BY <1>1, <1>3, <3>2, <3>3, <3>4, HostReadBack
  <2>. QED BY <2>1, <2>2
<1>6. FreeBut(w, w.e.id)'
  BY <1>1, <1>3 DEF FreeBut, Taken, IsIdKey
<1>7. PICK j, i : j = key'[h] /\ i = Current(h)'
  OBVIOUS
<1>. QED BY <1>1, <1>3, <1>5, <1>6, <1>7, HeldNext DEF KeyStages

LEMMA UpdateHostHeld ==
  ASSUME IInv, MapView, KeyHeld, NEW h \in Handlers, NEW w, Stated(h, w),
         Held(h), UpdateRow(h), ~IsLink(w.e)
  PROVE  pc'[h] = "show" /\ ReadDesign'[w.e.id] = w.e
<1>1. /\ pc[h] = "row" /\ left[h] = {} /\ item[h].act = "update"
  BY DEF UpdateRow, DbStep, Go
<1>2. PICK k : k = key[h]
  OBVIOUS
<1>3. /\ w = item[h] /\ item'[h] = w /\ k \in Keys /\ w.e \in Elements /\ ids[k] = w.e.id
      /\ Row(h, k, w) /\ Filled(h) /\ w.e.kind \notin UnsupportedKinds
  BY <1>1, <1>2, HeldNow DEF KeyStages, Current
<1>4. IsHost(w.e) /\ w.e \in NodeElements /\ w.e.kind \notin {"Link", "Plink"}
  BY <1>3, SupportedHost DEF IsLink, LinkKinds
<1>5. UpdateHostRow(k, w.e) /\ pc'[h] = "show"
  BY <1>2, <1>3, <1>4 DEF UpdateRow, Element, DbStep, Go, IInv, TypeOK
<1>6. hosts[k] # None /\ hosts[k].kind = w.e.kind /\ hosts[k] \in HostRows
  BY <1>3, <1>4 DEF Row, HasHostRow, IInv, TypeOK, DbTypeOK
<1>7. hosts'[k] = [hosts[k] EXCEPT !.attr = w.e.attr] /\ UNCHANGED <<ids, ifaces>>
  BY <1>3, <1>5 DEF UpdateHostRow, IInv, TypeOK, DbTypeOK
<1>8. hosts'[k] = [kind |-> w.e.kind, attr |-> w.e.attr]
  BY <1>6, <1>7 DEF HostRows
<1>9. ifaces'[k] = w.e.ifs
  BY <1>1, <1>2, <1>3, <1>4, <1>7, FilledHost
<1>. QED BY <1>3, <1>4, <1>5, <1>7, <1>8, <1>9, HostReadBack

LEMMA UpdatePlinkHeld ==
  ASSUME IInv, MapView, KeyHeld, NEW h \in Handlers, NEW w, Stated(h, w),
         Held(h), UpdateRow(h), w.e.kind = "Plink"
  PROVE  pc'[h] = "show" /\ ReadDesign'[w.e.id] = w.e
<1>1. /\ pc[h] = "row" /\ item[h].act = "update"
  BY DEF UpdateRow, DbStep, Go
<1>2. PICK k : k = key[h]
  OBVIOUS
<1>3. /\ w = item[h] /\ item'[h] = w /\ k \in Keys /\ w.e \in Elements /\ ids[k] = w.e.id
      /\ Row(h, k, w)
  BY <1>1, <1>2, HeldNow DEF KeyStages, Current
<1>4. IsLink(w.e) /\ UpdatePlinkRow(k, w.e) /\ pc'[h] = "show"
  BY <1>2, <1>3 DEF UpdateRow, Element, DbStep, Go, IInv, TypeOK, IsLink, LinkKinds
<1>5. links[k] # None /\ links[k].kind = w.e.kind /\ links[k] \in LinkRows /\ hosts[k] = None
  BY <1>3, <1>4 DEF Row, HasLinkRow, IInv, TypeOK, DbTypeOK, OneElementPerId
<1>6. /\ links'[k] = [links[k] EXCEPT !.attr = w.e.attr, !.ends = EndKeys(w.e)]
      /\ EndsFound(w.e) /\ UNCHANGED <<ids, hosts>>
  BY <1>3, <1>4, <1>5 DEF UpdatePlinkRow, HasLinkRow, IInv, TypeOK, DbTypeOK
<1>7. links'[k] = [kind |-> w.e.kind, attr |-> w.e.attr, ends |-> EndKeys(w.e)]
  BY <1>5, <1>6 DEF LinkRows
<1>. QED BY <1>3, <1>4, <1>5, <1>6, <1>7, LinkReadBack

LEMMA UpdateEndsHeld ==
  ASSUME IInv, MapView, KeyHeld, NEW h \in Handlers, NEW w, Stated(h, w),
         Held(h), UpdateEnds(h)
  PROVE  pc'[h] = "show" /\ ReadDesign'[w.e.id] = w.e
<1>1. /\ pc[h] = "ends" /\ item[h].act = "update" /\ IsLink(item[h].e)
  BY DEF UpdateEnds, DbStep, Go, IInv, ItemHeld
<1>2. PICK k : k = key[h]
  OBVIOUS
<1>3. /\ w = item[h] /\ item'[h] = w /\ k \in Keys /\ w.e \in Elements /\ ids[k] = w.e.id
      /\ Row(h, k, w)
  BY <1>1, <1>2, HeldNow DEF KeyStages, Current
<1>4. UpdateLinkEnds(k, w.e) /\ pc'[h] = "show" /\ links[k].attr = w.e.attr
  BY <1>1, <1>2, <1>3 DEF UpdateEnds, Element, DbStep, Go, IInv, TypeOK, Held
<1>5. links[k] # None /\ links[k].kind = w.e.kind /\ links[k] \in LinkRows /\ hosts[k] = None
  BY <1>1, <1>3, <1>4 DEF Row, HasLinkRow, IInv, TypeOK, DbTypeOK, OneElementPerId
<1>6. /\ links'[k] = [links[k] EXCEPT !.ends = EndKeys(w.e)]
      /\ EndsFound(w.e) /\ UNCHANGED <<ids, hosts>>
  BY <1>3, <1>4, <1>5 DEF UpdateLinkEnds, HasLinkRow, IInv, TypeOK, DbTypeOK
<1>7. links'[k] = [kind |-> w.e.kind, attr |-> w.e.attr, ends |-> EndKeys(w.e)]
  BY <1>4, <1>5, <1>6 DEF LinkRows
<1>. QED BY <1>1, <1>3, <1>4, <1>5, <1>6, <1>7, LinkReadBack

LEMMA UpdateRowHeld ==
  ASSUME IInv, MapView, KeyHeld, NEW h \in Handlers, NEW w, Stated(h, w),
         Held(h), UpdateRow(h) \/ UpdateEnds(h)
  PROVE  Held(h)'
<1>1. /\ pc[h] \in {"row", "ends"} /\ item[h].act = "update" /\ key'[h] = key[h]
      /\ ids' = ids /\ ifaces' = ifaces /\ left'[h] = left[h]
  <2>1. ids' = ids /\ ifaces' = ifaces
    BY DEF UpdateRow, UpdateEnds, UpdateHostRow, UpdateLinkRow, UpdatePlinkRow, UpdateLinkEnds
  <2>2. pc[h] \in {"row", "ends"} /\ key' = key /\ left' = left
    BY DEF UpdateRow, UpdateEnds, DbStep, Go
  <2>3. item[h].act = "update"
    BY DEF UpdateRow, UpdateEnds, DbStep, Go, IInv, ItemHeld
  <2>. QED BY <2>1, <2>2, <2>3
<1>2. PICK k, i : k = key[h] /\ i = Current(h)'
  OBVIOUS
<1>3. /\ w = item[h] /\ item'[h] = w /\ k \in Keys /\ w.e \in Elements /\ ids[k] = w.e.id
      /\ FreeBut(w, w.e.id) /\ Row(h, k, w) /\ Filled(h)
  BY <1>1, <1>2, HeldNow DEF KeyStages, Current
<1>4. FreeBut(w, w.e.id)'
  BY <1>1, <1>3 DEF FreeBut, Taken, IsIdKey
<1>5. CASE pc'[h] = "show" /\ ReadDesign'[w.e.id] = w.e
  BY <1>1, <1>2, <1>3, <1>4, <1>5, HeldNext DEF KeyStages
<1>6. CASE UpdateRow(h) /\ w.e.kind = "Link"
  <2>1. pc'[h] = "ends" /\ UpdateLinkRow(k, w.e) /\ IsLink(w.e)
    BY <1>2, <1>3, <1>6 DEF UpdateRow, Element, DbStep, Go, IInv, TypeOK, IsLink, LinkKinds
  <2>2. links[k] # None /\ links[k].kind = w.e.kind /\ links[k] \in LinkRows
    BY <1>3, <2>1 DEF Row, HasLinkRow, IInv, TypeOK, DbTypeOK
  <2>3. /\ links'[k] = [links[k] EXCEPT !.attr = w.e.attr] /\ UNCHANGED hosts
    BY <1>3, <2>1 DEF UpdateLinkRow, IInv, TypeOK, DbTypeOK
  <2>4. /\ links'[k].attr = w.e.attr /\ links'[k].kind = w.e.kind /\ links'[k].ends = links[k].ends
        /\ links'[k] \in LinkRows
    <3>1. w.e.attr \in Attrs
      BY <1>3, <2>1, ElementKinds DEF LinkElements
    <3>. QED BY <2>2, <2>3, <3>1 DEF LinkRows
  <2>5. Filled(h)'
    BY <1>1, <1>3 DEF Filled
  <2>6. Row(h, k, w)'
    <3>1. HasLinkRow(k, w.e.kind)'
      BY <2>4, RowAssumption DEF HasLinkRow
    <3>2. \A n \in 1..2 : EndName(k, n) \in Joins(SeenDesign[w.oid]) \cup Reach(h)
      BY <1>3, <2>1 DEF Row
    <3>3. \A n \in 1..2 : EndName(k, n)' = EndName(k, n)
      BY <1>1, <2>4 DEF EndName
    <3>4. Reach(h)' = Reach(h) /\ SeenDesign' = SeenDesign
      BY DEF Reach, Stated
    <3>. QED BY <2>1, <3>1, <3>2, <3>3, <3>4 DEF Row
  <2>7. i = w.e.id
    BY <1>2, <1>3, <2>1 DEF Current
  <2>. QED BY <1>1, <1>2, <1>3, <1>4, <2>1, <2>4, <2>5, <2>6, <2>7, HeldNext
<1>7. UpdateRow(h) => w.e.kind = "Link" \/ w.e.kind = "Plink" \/ ~IsLink(w.e)
  BY DEF IsLink, LinkKinds
<1>. QED BY <1>5, <1>6, <1>7, UpdateHostHeld, UpdatePlinkHeld, UpdateEndsHeld

LEMMA DropHeld ==
  ASSUME IInv, MapView, BareKeys, NEW h \in Handlers, NEW w, Stated(h, w), DropId(h)
  PROVE  Held(h)'
<1>1. pc'[h] = "hide" /\ item'[h] = w /\ item[h] = w
  BY DEF DropId, DbStep, Go, IInv, TypeOK, Stated
<1>2. ~Taken(item[h].oid)'
  BY DropModest
<1>3. ~Taken(w.oid)'
  BY <1>1, <1>2 DEF Taken, IsIdKey
<1>4. PICK j, i : j = key'[h] /\ i = Current(h)'
  OBVIOUS
<1>. QED BY <1>1, <1>3, <1>4, HeldNext DEF KeyStages

LEMMA OwnHeld ==
  ASSUME IInv, MapView, KeyHeld, BareKeys, Agreed, NEW h \in Handlers, NEW w, Stated(h, w),
         Held(h), Good(w), Statement(h)
  PROVE  Held(h)'
BY StoreIdHeld, FindIdHeld, StoreSystemHeld, MoveHeld, StoreInterfaceHeld, StoreRowHeld,
   UpdateRowHeld, DropHeld, NotRefused DEF Statement

(* A statement keeps what is known of the database.                        *)
LEMMA StatementTable ==
  ASSUME IInv, IInv', MapView, TableView, NEW h \in Handlers, Statement(h) \/ DbFault(h)
  PROVE  TableView'
<1>1. PICK w : w = item[h]
  OBVIOUS
<1>2. /\ Stated(h, w)
      /\ Statement(h) => spoiled' = spoiled
      /\ DbFault(h) => spoiled' = spoiled \cup Spot(w)
  BY <1>1, StatementFacts
<1>3. Agreed /\ Linked /\ KeyHeld /\ Tainted /\ BareKeys /\ Holding
  BY DEF TableView
<1>4. Agreed'
  BY <1>2, <1>3, AgreedKept
<1>5. Linked'
  BY <1>2, <1>3, LinkedKept
<1>6. KeyHeld'
  BY <1>2, <1>3, OwnKey, OthersKeyHeld
<1>7. Tainted' /\ (Good(w)' => Good(w) /\ spoiled' = spoiled)
      /\ \A g \in Handlers \ {h} : \A u \in AtHand(g) : Good(u)' => Good(u)
  BY <1>2, <1>3, TaintedKept
<1>8. BareKeys'
  BY <1>2 DEF Stated
<1>9. ASSUME NEW g \in Handlers, g # h, pc'[g] \notin {"idle", "apply"}, Good(item[g])'
      PROVE  Held(g)'
  <2>1. PICK u : u = item[g]
    OBVIOUS
  <2>2. pc[g] = pc'[g] /\ item'[g] = u
    BY <1>2, <1>9, <2>1 DEF Stated
  <2>3. Good(u)'
    BY <1>9, <2>2 DEF Good
  <2>4. u \in AtHand(g)
    BY <1>9, <2>1, <2>2 DEF AtHand
  <2>5. Held(g)
    BY <1>3, <1>7, <1>9, <2>1, <2>2, <2>3, <2>4 DEF Holding
  <2>. QED BY <1>2, <1>3, <1>9, <2>1, <2>2, <2>5, OthersHeld
<1>10. ASSUME pc'[h] \notin {"idle", "apply"}, Good(item[h])'
       PROVE  Held(h)'
  <2>1. item'[h] = w /\ pc[h] \notin {"idle", "apply"} /\ w \in Work
    BY <1>1, <1>2 DEF Stated
  <2>2. Good(w)'
    BY <1>10, <2>1 DEF Good
  <2>3. Good(w) /\ Held(h) /\ spoiled' = spoiled
    BY <1>1, <1>3, <1>7, <2>1, <2>2 DEF Holding
  <2>4. ~DbFault(h)
    <3>1. w.oid \in Spot(w) /\ w.oid \in Touches(w)
      BY <2>1, WorkIds
    <3>. QED BY <1>2, <2>3, <3>1 DEF Good
  <2>. QED BY <1>2, <1>3, <2>3, <2>4, OwnHeld
<1>11. Holding'
  BY <1>9, <1>10 DEF Holding
<1>. QED BY <1>4, <1>5, <1>6, <1>7, <1>8, <1>11 DEF TableView

---------------------------------------------------------------------------
(* The steps of the loops leave the database alone.                        *)

Calm(g) ==
  /\ UNCHANGED tables
  /\ pc'[g] = pc[g] /\ item'[g] = item[g] /\ key'[g] = key[g] /\ left'[g] = left[g]
  /\ old'[g] = old[g] /\ placed'[g] = placed[g]

LEMMA CalmHeld ==
  ASSUME NEW g \in Handlers, Calm(g), Held(g),
         item[g].act = "update" => SeenDesign'[item[g].oid] = SeenDesign[item[g].oid]
  PROVE  Held(g)'
<1>1. PICK u, k, i : u = item[g] /\ k = key[g] /\ i = Current(g)
  OBVIOUS
<1>2. /\ pc'[g] = pc[g] /\ item'[g] = u /\ key'[g] = k /\ left'[g] = left[g] /\ old'[g] = old[g]
      /\ UNCHANGED <<systems, ids, hosts, ifaces, links>> /\ placed'[g] = placed[g]
  BY <1>1 DEF Calm, tables
<1>3. i = Current(g)'
  BY <1>1, <1>2 DEF Current
<1>4. \A x : ~Taken(x) => ~Taken(x)'
  BY <1>2 DEF Taken, IsIdKey
<1>5. \A j : FreeBut(u, j) => FreeBut(u, j)'
  BY <1>4 DEF FreeBut
<1>6. Reach(g)' = Reach(g)
  BY <1>2 DEF Reach
<1>7. \A j : u.act = "update" /\ Row(g, j, u) => Row(g, j, u)'
  BY <1>1, <1>2, <1>6 DEF Row, HasLinkRow, HasHostRow, EndName
<1>8. pc[g] = "id" /\ u.act = "update" => FreeBut(u, u.oid)' /\ RowFound(g)'
  <2>1. SUFFICES ASSUME pc[g] = "id", u.act = "update"
                 PROVE  FreeBut(u, u.oid)' /\ RowFound(g)'
    OBVIOUS
  <2>2. FreeBut(u, u.oid) /\ RowFound(g)
    BY <1>1, <2>1 DEF Held
  <2>3. PICK j \in Keys : /\ ids[j] = u.oid /\ Row(g, j, u)
                          /\ IsHost(u.e) => ifaces[j] = old[g].ifs
    BY <1>1, <2>2 DEF RowFound
  <2>4. Row(g, j, u)'
    BY <1>7, <2>1, <2>3
  <2>5. RowFound(g)'
    BY <1>2, <2>3, <2>4 DEF RowFound
  <2>. QED BY <1>5, <2>2, <2>5
<1>9. pc[g] \in KeyStages =>
        FreeBut(u, i)' /\ Filled(g)' /\ (u.act = "update" => Row(g, k, u)')
  <2>1. SUFFICES ASSUME pc[g] \in KeyStages
                 PROVE  FreeBut(u, i)' /\ Filled(g)' /\ (u.act = "update" => Row(g, k, u)')
    OBVIOUS
  <2>2. FreeBut(u, Current(g)) /\ Filled(g) /\ (u.act = "update" => Row(g, k, u))
    BY <1>1, <2>1 DEF Held
  <2>3. FreeBut(u, i)
    BY <1>1, <2>2 DEF FreeBut
  <2>4. Filled(g)'
    BY <1>1, <1>2, <2>2 DEF Filled
  <2>. QED BY <1>5, <1>7, <2>2, <2>3, <2>4
<1>10. ReadDesign' = ReadDesign
  BY <1>2 DEF ReadDesign, HostAt, LinkAt
<1>11. pc[g] = "show" => FreeBut(u, u.e.id)' /\ ReadDesign'[u.e.id] = u.e
  BY <1>1, <1>5, <1>10 DEF Held
<1>12. /\ pc[g] = "id" /\ u.act = "create" => ~Taken(u.oid)'
       /\ pc[g] = "hide" => ~Taken(u.oid)'
       /\ pc[g] = "newsys" => u.e.id.sys \notin systems'
       /\ pc[g] = "ends" => links'[k].attr = u.e.attr
  BY <1>1, <1>2, <1>4 DEF Held
<1>. QED BY <1>2, <1>3, <1>8, <1>9, <1>11, <1>12, HeldNext

(* What holds as long as tables and SeenDesign stay.                       *)
LEMMA SameKept ==
  ASSUME UNCHANGED tables, NEW i, SeenDesign'[i] = SeenDesign[i], Same(i)
  PROVE  Same(i)'
<1>1. ReadDesign' = ReadDesign
  BY DEF tables, ReadDesign, HostAt, LinkAt
<1>2. Taken(i)' <=> Taken(i)
  BY DEF tables, Taken, IsIdKey
<1>. QED BY <1>1, <1>2 DEF Same

LEMMA RowKept ==
  ASSUME UNCHANGED tables, NEW g, NEW k, NEW u, Row(g, k, u),
         SeenDesign'[u.oid] = SeenDesign[u.oid], placed'[g] = placed[g]
  PROVE  Row(g, k, u)'
<1>1. Reach(g)' = Reach(g)
  BY DEF Reach
<1>. QED BY <1>1 DEF Row, HasLinkRow, HasHostRow, EndName, tables

(* Handlers that a step of h leaves alone.                                 *)
LEMMA OthersCalm ==
  ASSUME KeyHeld, Tainted, BareKeys, Holding, NEW h \in Handlers,
         \A g \in Handlers : g # h => Calm(g),
         \A g \in Handlers : g # h /\ pc[g] \notin {"idle", "apply"} =>
           /\ item[g].act = "update" => SeenDesign'[item[g].oid] = SeenDesign[item[g].oid]
           /\ Touches(item[g]) \cap spoiled' = Touches(item[g]) \cap spoiled,
         UNCHANGED tables, spoiled \subseteq spoiled', pc'[h] \notin KeyStages,
         pc'[h] \notin {"idle", "apply"} =>
           /\ Good(item[h])' => Held(h)'
           /\ Good(item[h])' \/ Spot(item'[h]) \subseteq spoiled'
  PROVE  KeyHeld' /\ Tainted' /\ BareKeys' /\ Holding'
<1>1. BareKeys'
  BY DEF BareKeys, tables
<1>2. KeyHeld'
  <2>1. SUFFICES ASSUME NEW g \in Handlers, pc'[g] \in KeyStages
                 PROVE  /\ ids'[key'[g]] = Current(g)'
                        /\ pc'[g] \in {"newsys", "sys"} => item'[g].oid.sys # item'[g].e.id.sys
                        /\ pc'[g] = "name" => item'[g].oid.name # item'[g].e.id.name
    BY DEF KeyHeld, KeyStages
  <2>2. g # h
    BY <2>1
  <2>3. Calm(g)
    BY <2>2
  <2>4. Current(g)' = Current(g)
    BY <2>3 DEF Calm, Current
  <2>. QED BY <2>1, <2>3, <2>4 DEF Calm, KeyHeld, tables
<1>3. ASSUME NEW g \in Handlers, g # h, pc'[g] \notin {"idle", "apply"}
      PROVE  /\ Good(item[g])' => Held(g)'
             /\ Good(item[g])' \/ Spot(item'[g]) \subseteq spoiled'
  <2>1. Calm(g) /\ pc'[g] = pc[g] /\ item'[g] = item[g]
    BY <1>3 DEF Calm
  <2>2. item[g] \in AtHand(g)
    BY <1>3, <2>1 DEF AtHand
  <2>3. Good(item[g])' <=> Good(item[g])
    BY <1>3, <2>1 DEF Good
  <2>4. Good(item[g]) \/ Spot(item[g]) \subseteq spoiled
    BY <2>2 DEF Tainted
  <2>5. Good(item[g]) => Held(g)
    BY <1>3, <2>1 DEF Holding
  <2>. QED BY <1>3, <2>1, <2>3, <2>4, <2>5, CalmHeld
<1>4. Holding'
  BY <1>3 DEF Holding
<1>5. Tainted'
  <2>1. SUFFICES ASSUME NEW g \in Handlers, pc'[g] \notin {"idle", "apply"}
                 PROVE  Good(item[g])' \/ Spot(item'[g]) \subseteq spoiled'
    BY DEF Tainted, AtHand, Good
  <2>. QED BY <1>3, <2>1
<1>. QED BY <1>1, <1>2, <1>4, <1>5

(* A message arrives: what it updates was nobody's work, so the database   *)
(* has it.                                                                 *)
LEMMA ReceiveTable ==
  ASSUME IInv, MapView, TableView, up, NEW h \in Handlers, pc[h] = "idle",
         NEW work \in SUBSET Work, NEW ks, Receive(h, work, ks), Admissible(h, work, ks)
  PROVE  TableView'
<1>1. /\ SeenDesign' = SeenDesign /\ pending'[h] = work /\ AtHand(h) = {} /\ pending[h] = {}
      /\ placed'[h] = work /\ pc'[h] = "apply"
      /\ \A g \in Handlers : AtHand(g)' = AtHand(g)
      /\ \A g \in Handlers : g # h => /\ pending'[g] = pending[g] /\ pc'[g] = pc[g]
                                      /\ placed'[g] = placed[g]
  BY ReceiveMap
<1>2. UNCHANGED <<tables, item, old, key, left, spoiled>>
  BY DEF Receive
<1>3. Agreed /\ Linked /\ KeyHeld /\ Tainted /\ BareKeys /\ Holding
  BY DEF TableView
<1>4. Busy \subseteq Busy'
  <2>1. \A g \in Handlers : BusyWith(g) \subseteq BusyWith(g)'
    <3>1. SUFFICES ASSUME NEW g \in Handlers PROVE BusyWith(g) \subseteq BusyWith(g)'
      OBVIOUS
    <3>2. AtHand(g)' = AtHand(g) /\ pending[g] \subseteq pending'[g]
      BY <1>1
    <3>. QED BY <3>2 DEF BusyWith
  <2>. QED BY <2>1 DEF Busy
<1>5. Agreed'
  BY <1>1, <1>2, <1>3, <1>4, SameKept DEF Agreed
<1>6. ASSUME NEW w \in work, w.act = "update", IsLink(w.e), w.oid \notin spoiled
      PROVE  \E k \in Keys : ids[k] = w.oid /\ Row(h, k, w)
  <2>1. w.oid \in Id /\ w.oid \in Touches(w)
    BY WorkIds
  <2>2. ASSUME NEW g \in Handlers, w.oid \in BusyWith(g)
        PROVE  FALSE
    <3>1. g # h
      BY <1>1, <2>2 DEF BusyWith
    <3>2. PICK u \in Undone(g) : w.oid \in Touches(u)
      <4>1. PICK u \in Undone(g) : u \in Work /\ (w.oid \in Spot(u) \/ w.oid = u.oid)
        <5>1. \A u \in Undone(g) : u \in Work
          BY DEF Undone, IInv, TypeOK, MapView, Handling
        <5>2. CASE \E u \in AtHand(g) : w.oid \in Spot(u)
          BY <5>1, <5>2 DEF Undone
        <5>3. CASE \E u \in pending[g] : w.oid = u.oid
          BY <5>1, <5>3 DEF Undone
        <5>. QED BY <2>2, <5>2, <5>3 DEF BusyWith
      <4>. QED BY <4>1, WorkIds
    <3>3. u \in placed[g]
      BY DEF MapView, Handling
    <3>. QED BY <2>1, <3>1, <3>2, <3>3 DEF Admissible, Apart
  <2>3. Same(w.oid)
    BY <1>3, <1>6, <2>1, <2>2 DEF Agreed, Busy
  <2>4. Fits(w)
    BY <1>6 DEF Admissible
  <2>5. ReadDesign[w.oid] = SeenDesign[w.oid] /\ SeenDesign[w.oid] # None
        /\ SeenDesign[w.oid].kind = w.e.kind
    BY <1>6, <2>3, <2>4 DEF Same, Fits
  <2>6. IsLink(ReadDesign[w.oid]) /\ DbInv
    BY <1>6, <2>5, IInvDb DEF IsLink
  <2>7. PICK k \in Keys : ids[k] = w.oid /\ links[k] # None /\ ReadDesign[w.oid] = LinkAt(k)
    BY <2>1, <2>5, <2>6, ReadHasKey
  <2>8. HasLinkRow(k, w.e.kind)
    BY <2>5, <2>7 DEF HasLinkRow, LinkAt
  <2>9. \A n \in 1..2 : EndName(k, n) = ReadDesign[w.oid].ends[n].host
    BY <2>7 DEF EndName, LinkAt
  <2>10. \A n \in 1..2 : EndName(k, n) \in Joins(SeenDesign[w.oid])
    BY <2>5, <2>6, <2>9 DEF Joins
  <2>. QED BY <1>6, <2>7, <2>8, <2>10 DEF Row
<1>7. Linked'
  <2>1. SUFFICES ASSUME NEW g \in Handlers, NEW w \in pending'[g],
                        w.act = "update", IsLink(w.e), w.oid \notin spoiled'
                 PROVE  \E k \in Keys : ids'[k] = w.oid /\ Row(g, k, w)'
    BY DEF Linked
  <2>2. CASE g # h
    <3>1. PICK k \in Keys : ids[k] = w.oid /\ Row(g, k, w)
      BY <1>1, <1>2, <1>3, <2>1, <2>2 DEF Linked
    <3>2. Row(g, k, w)'
      BY <1>1, <1>2, <2>2, <3>1, RowKept
    <3>. QED BY <1>2, <3>1, <3>2 DEF tables
  <2>3. CASE g = h
    <3>1. PICK k \in Keys : ids[k] = w.oid /\ Row(h, k, w)
      BY <1>1, <1>2, <1>6, <2>1, <2>3
    <3>2. EndName(k, 1)' = EndName(k, 1) /\ EndName(k, 2)' = EndName(k, 2) /\ Reach(h) = {}
      BY <1>1, <1>2 DEF EndName, tables, Reach, MapView, Handling
    <3>3. Row(h, k, w)'
      BY <1>1, <1>2, <2>1, <3>1, <3>2 DEF Row, HasLinkRow, tables
    <3>. QED BY <1>2, <2>3, <3>1, <3>3 DEF tables
  <2>. QED BY <2>2, <2>3
<1>8. \A g \in Handlers : g # h => Calm(g)
  BY <1>1, <1>2 DEF Calm
<1>9. KeyHeld' /\ Tainted' /\ BareKeys' /\ Holding'
  BY <1>1, <1>2, <1>3, <1>8, OthersCalm DEF KeyStages
<1>. QED BY <1>5, <1>7, <1>9 DEF TableView

(* Before its turn, an identity of good work is nobody's business.         *)
LEMMA NotBusy ==
  ASSUME IInv, MapView, NEW h \in Handlers, AtHand(h) = {}, NEW w \in pending[h],
         NEW x \in Spot(w),
         \A u \in pending[h] : Follows(u) => u.oid # x
  PROVE  x \in Id \ Busy
<1>1. w \in placed[h] /\ w \in Work
  BY DEF MapView, Handling, Undone, IInv, TypeOK
<1>2. x \in Id /\ x \in Touches(w)
  BY <1>1, WorkIds
<1>3. ASSUME NEW g \in Handlers, x \in BusyWith(g)
      PROVE  FALSE
  <2>1. g # h
    BY <1>3 DEF BusyWith
  <2>2. PICK u \in Undone(g) : u \in Work /\ (x \in Spot(u) \/ x = u.oid)
    <3>1. \A u \in Undone(g) : u \in Work
      BY DEF Undone, IInv, TypeOK, MapView, Handling
    <3>2. CASE \E u \in AtHand(g) : x \in Spot(u)
      BY <3>1, <3>2 DEF Undone
    <3>3. CASE \E u \in pending[g] : x = u.oid
      BY <3>1, <3>3 DEF Undone
    <3>. QED BY <1>3, <3>2, <3>3 DEF BusyWith
  <2>3. u \in placed[g] /\ x \in Touches(u)
    BY <2>2, WorkIds DEF MapView, Handling
  <2>. QED BY <1>1, <1>2, <2>1, <2>3, OthersApart
<1>. QED BY <1>2, <1>3 DEF Busy

LEMMA BeginHeld ==
  ASSUME IInv, MapView, TableView, NEW h \in Handlers, NEW w \in NextWork(h),
         Begun(h, w), Good(w)
  PROVE  Held(h)'
<1>1. /\ w \in pending[h] /\ AtHand(h) = {} /\ pc'[h] = (IF w.act = "delete" THEN "drop" ELSE "id")
      /\ item'[h] = w /\ UNCHANGED tables /\ SeenDesign' = SeenDesign
      /\ placed' = placed /\ (w.act = "update" => old'[h] = SeenDesign[w.oid])
  BY DEF Begun, NextWork
<1>2. w \in placed[h] /\ w \in Work /\ w \in Undone(h)
  BY <1>1 DEF MapView, Handling, Undone, IInv, TypeOK
<1>3. Agreed /\ Linked /\ DbInv
  BY IInvDb DEF TableView
<1>4. \A x \in Spot(w) : x \notin spoiled
  BY <1>2, WorkIds DEF Good
<1>5. w.act # "delete" => Fits(w) /\ w.e.kind \notin UnsupportedKinds
  BY <1>2 DEF MapView, Fitting, Messages, Compatible
<1>6. \A u \in pending[h] : u \in Work /\ u \in placed[h] /\ u \in Undone(h)
  BY DEF MapView, Handling, Undone, IInv, TypeOK
<1>7. ASSUME w.act # "delete", NEW x \in Spot(w), SeenDesign[x] = None
      PROVE  ~Taken(x)
  <2>1. ASSUME NEW u \in pending[h], Follows(u)
        PROVE  u.oid # x
    <3>1. u.act = "update"
      BY <1>2, <1>6, <1>7, <2>1 DEF MapView, Messages, Compatible, Follows
    <3>2. SeenDesign[u.oid] # None
      BY <1>6, <3>1 DEF MapView, Fitting, Fits
    <3>. QED BY <1>7, <3>2
  <2>2. x \in Id \ Busy
    BY <1>1, <2>1, NotBusy
  <2>. QED BY <1>3, <1>4, <1>7, <2>2 DEF Agreed, Same
<1>8. w.oid \in Spot(w) /\ w.oid \in Id /\ w.e \in Elements
  BY <1>2, WorkIds
<1>9. ASSUME w.act = "create"
      PROVE  ~Taken(w.oid)'
  <2>1. ~Taken(w.oid)
    BY <1>5, <1>7, <1>8, <1>9 DEF Fits
  <2>. QED BY <1>1, <2>1 DEF Taken, IsIdKey, tables
<1>10. ASSUME w.act = "update"
       PROVE  FreeBut(w, w.oid)' /\ RowFound(h)'
  <2>1. \A x \in Spot(w) \ {w.oid} : SeenDesign[x] = None
    BY <1>5, <1>10 DEF Fits, Spot
  <2>2. \A x \in Spot(w) \ {w.oid} : ~Taken(x)
    BY <1>7, <1>10, <2>1
  <2>3. FreeBut(w, w.oid)'
    BY <1>1, <2>2 DEF FreeBut, Taken, IsIdKey, tables
  <2>4. \E k \in Keys : /\ ids[k] = w.oid /\ Row(h, k, w)
                        /\ IsHost(w.e) => ifaces[k] = SeenDesign[w.oid].ifs
    <3>1. CASE IsLink(w.e)
      <4>1. ~IsHost(w.e)
        BY <3>1 DEF IsHost, IsLink, HostKinds, LinkKinds
      <4>. QED BY <1>1, <1>3, <1>4, <1>8, <1>10, <3>1, <4>1 DEF Linked
    <3>2. CASE ~IsLink(w.e)
      <4>1. ASSUME NEW u \in pending[h], Follows(u)
            PROVE  u.oid # w.oid
        <5>1. u # w
          BY <1>10, <3>2, <4>1 DEF Follows
        <5>. QED BY <1>2, <1>6, <4>1, <5>1 DEF MapView, Messages, Compatible, Distinct
      <4>2. Same(w.oid)
        BY <1>1, <1>3, <1>4, <1>8, <4>1, NotBusy DEF Agreed
      <4>3. /\ ReadDesign[w.oid] = SeenDesign[w.oid] /\ ReadDesign[w.oid] # None
            /\ ReadDesign[w.oid].kind = w.e.kind
        BY <1>5, <1>10, <4>2 DEF Same, Fits
      <4>4. ~IsLink(ReadDesign[w.oid])
        BY <3>2, <4>3 DEF IsLink
      <4>5. PICK k \in Keys : ids[k] = w.oid /\ hosts[k] # None /\ ReadDesign[w.oid] = HostAt(k)
        BY <1>3, <1>8, <4>3, <4>4, ReadHasKey
      <4>6. hosts[k].kind = w.e.kind /\ ifaces[k] = SeenDesign[w.oid].ifs
        BY <4>3, <4>5 DEF HostAt
      <4>. QED BY <3>2, <4>5, <4>6 DEF Row, HasHostRow
    <3>. QED BY <3>1, <3>2
  <2>5. PICK k \in Keys : /\ ids[k] = w.oid /\ Row(h, k, w)
                          /\ IsHost(w.e) => ifaces[k] = SeenDesign[w.oid].ifs
    BY <2>4
  <2>6. Row(h, k, w)'
    BY <1>1, <2>5, RowKept
  <2>7. RowFound(h)'
    BY <1>1, <1>10, <2>5, <2>6 DEF RowFound, tables
  <2>. QED BY <2>3, <2>7
<1>11. PICK k, i : k = key'[h] /\ i = Current(h)'
  OBVIOUS
<1>. QED BY <1>1, <1>9, <1>10, <1>11, HeldNext DEF KeyStages

LEMMA BeginTable ==
  ASSUME IInv, MapView, TableView, NEW h \in Handlers, NEW w \in NextWork(h), Begun(h, w)
  PROVE  TableView'
<1>1. /\ w \in pending[h] /\ AtHand(h) = {} /\ pc'[h] = (IF w.act = "delete" THEN "drop" ELSE "id")
      /\ item'[h] = w /\ UNCHANGED tables /\ SeenDesign' = SeenDesign /\ placed' = placed
      /\ AtHand(h)' = {w} /\ pending'[h] = pending[h] \ {w}
      /\ spoiled' = spoiled \cup (IF Good(w) THEN {} ELSE Spot(w))
      /\ UNCHANGED <<key, left>>
      /\ \A g \in Handlers : g # h =>
           /\ pc'[g] = pc[g] /\ item'[g] = item[g] /\ old'[g] = old[g]
           /\ pending'[g] = pending[g] /\ AtHand(g)' = AtHand(g)
  BY DEF Begun, NextWork
<1>2. w \in placed[h] /\ w \in Work
  BY <1>1 DEF MapView, Handling, Undone, IInv, TypeOK
<1>3. Agreed /\ Linked /\ KeyHeld /\ Tainted /\ BareKeys /\ Holding
  BY DEF TableView
<1>4. Busy \subseteq Busy'
  <2>1. SUFFICES ASSUME NEW g \in Handlers PROVE BusyWith(g) \subseteq BusyWith(g)'
    BY DEF Busy
  <2>2. CASE g # h
    BY <1>1, <2>2 DEF BusyWith
  <2>3. CASE g = h
    <3>1. w.oid \in Spot(w)
      BY <1>2, WorkIds
    <3>. QED BY <1>1, <2>3, <3>1 DEF BusyWith
  <2>. QED BY <2>2, <2>3
<1>5. Agreed'
  BY <1>1, <1>3, <1>4, SameKept DEF Agreed
<1>6. Linked'
  <2>1. SUFFICES ASSUME NEW g \in Handlers, NEW u \in pending'[g],
                        u.act = "update", IsLink(u.e), u.oid \notin spoiled'
                 PROVE  \E k \in Keys : ids'[k] = u.oid /\ Row(g, k, u)'
    BY DEF Linked
  <2>2. u \in pending[g] /\ u.oid \notin spoiled
    BY <1>1, <2>1
  <2>3. PICK k \in Keys : ids[k] = u.oid /\ Row(g, k, u)
    BY <1>3, <2>1, <2>2 DEF Linked
  <2>4. Row(g, k, u)'
    BY <1>1, <2>3, RowKept
  <2>. QED BY <1>1, <2>3, <2>4 DEF tables
<1>7. \A g \in Handlers : g # h => Calm(g)
  BY <1>1 DEF Calm
<1>8. ASSUME NEW g \in Handlers, g # h, pc[g] \notin {"idle", "apply"}
      PROVE  Touches(item[g]) \cap spoiled' = Touches(item[g]) \cap spoiled
  <2>1. item[g] \in placed[g]
    BY <1>8, AtWork
  <2>2. Touches(item[g]) \cap Spot(w) = {}
    BY <1>2, <1>8, <2>1, OthersApart
  <2>. QED BY <1>1, <2>2
<1>9. Good(item[h])' => Held(h)'
  <2>1. SUFFICES ASSUME Good(item[h])' PROVE Held(h)'
    OBVIOUS
  <2>2. Good(w)
    BY <1>1, <2>1 DEF Good
  <2>. QED BY <2>2, BeginHeld
<1>10. Good(item[h])' \/ Spot(item'[h]) \subseteq spoiled'
  <2>1. Good(w) => spoiled' = spoiled
    BY <1>1
  <2>. QED BY <1>1, <2>1 DEF Good
<1>11. pc'[h] \notin KeyStages /\ spoiled \subseteq spoiled'
  BY <1>1 DEF KeyStages
<1>12. KeyHeld' /\ Tainted' /\ BareKeys' /\ Holding'
  BY <1>1, <1>3, <1>7, <1>8, <1>9, <1>10, <1>11, OthersCalm
<1>. QED BY <1>5, <1>6, <1>12 DEF TableView

LEMMA DoneTable ==
  ASSUME IInv, MapView, TableView, NEW h \in Handlers, NEW w \in Work, Done(h, w)
  PROVE  TableView'
<1>1. /\ up /\ pc[h] \in {"show", "hide"} /\ pc'[h] = "apply" /\ item[h] = w
      /\ pc[h] = "hide" <=> w.act = "delete"
      /\ w \in placed[h] /\ w \in Undone(h) /\ AtHand(h) = {w} /\ AtHand(h)' = {}
      /\ \A g \in Handlers : g # h => pc'[g] = pc[g] /\ AtHand(g)' = AtHand(g) /\ Undone(g)' = Undone(g)
      /\ UNCHANGED <<tables, pending, item, old, key, left, placed, spoiled>>
  BY DEF Done
<1>2. \A i \in Id : SeenDesign'[i] = IF w.act # "delete" /\ i = w.e.id THEN w.e
                                     ELSE IF i = w.oid THEN None ELSE SeenDesign[i]
  BY DEF Done
<1>3. Agreed /\ Linked /\ KeyHeld /\ Tainted /\ BareKeys /\ Holding /\ DbInv
  BY IInvDb DEF TableView
<1>4. w.oid \in Spot(w) /\ w.e.id \in Spot(w) /\ w.e \in Elements
  BY WorkIds
<1>5. \A i \in Busy : i \in Busy' \/ i \in Spot(w)
  <2>1. SUFFICES ASSUME NEW i, NEW g \in Handlers, i \in BusyWith(g)
                 PROVE  i \in BusyWith(g)' \/ i \in Spot(w)
    BY DEF Busy
  <2>2. CASE g # h
    BY <1>1, <2>1, <2>2 DEF BusyWith
  <2>3. CASE g = h
    BY <1>1, <2>1, <2>3 DEF BusyWith
  <2>. QED BY <2>2, <2>3
<1>6. ReadDesign' = ReadDesign /\ \A i : Taken(i)' <=> Taken(i)
  BY <1>1 DEF tables, ReadDesign, HostAt, LinkAt, Taken, IsIdKey
<1>7. ASSUME NEW i \in Id \ spoiled, i \in Spot(w)
      PROVE  Same(i)'
  <2>1. Good(w)
    BY <1>1, <1>3, <1>7 DEF Tainted
  <2>2. Held(h)
    BY <1>1, <1>3, <2>1 DEF Holding
  <2>3. CASE w.act = "delete"
    <3>1. w.oid = w.e.id
      BY <1>1, <2>3 DEF MapView, Messages, Compatible
    <3>2. i = w.oid
      BY <1>7, <3>1 DEF Spot, Halfway, Work, Id
    <3>3. ~Taken(i)
      BY <1>1, <2>2, <2>3, <3>2 DEF Held
    <3>4. SeenDesign'[i] = None /\ ReadDesign[i] = None
      BY <1>2, <1>3, <2>3, <3>2, <3>3, Reads DEF ReadsRows
    <3>. QED BY <1>6, <3>3, <3>4 DEF Same
  <2>4. CASE w.act # "delete" /\ i = w.e.id
    <3>1. ReadDesign[i] = w.e
      BY <1>1, <2>2, <2>4 DEF Held
    <3>2. SeenDesign'[i] = w.e /\ w.e # None
      BY <1>2, <1>4, <2>4, ElementAssumption
    <3>. QED BY <1>6, <3>1, <3>2 DEF Same
  <2>5. CASE w.act # "delete" /\ i # w.e.id
    <3>1. FreeBut(w, w.e.id)
      BY <1>1, <2>2, <2>5 DEF Held
    <3>2. ~Taken(i)
      BY <1>7, <2>5, <3>1 DEF FreeBut
    <3>3. ReadDesign[i] = None
      BY <1>3, <3>2, Reads DEF ReadsRows
    <3>4. Fits(w)
      BY <1>1, <2>5 DEF MapView, Fitting
    <3>5. SeenDesign'[i] = None
      BY <1>2, <1>7, <2>5, <3>4 DEF Fits, Spot
    <3>. QED BY <1>6, <3>2, <3>3, <3>5 DEF Same
  <2>. QED BY <2>3, <2>4, <2>5
<1>8. Agreed'
  <2>1. SUFFICES ASSUME NEW i \in Id \ (spoiled' \cup Busy') PROVE Same(i)'
    BY DEF Agreed
  <2>2. CASE i \in Spot(w)
    BY <1>1, <1>7, <2>1, <2>2
  <2>3. CASE i \notin Spot(w)
    <3>1. Same(i)
      BY <1>1, <1>3, <1>5, <2>1, <2>3 DEF Agreed
    <3>2. SeenDesign'[i] = SeenDesign[i]
      BY <1>2, <1>4, <2>3
    <3>. QED BY <1>1, <3>1, <3>2, SameKept
  <2>. QED BY <2>2, <2>3
<1>9. ASSUME NEW g \in Handlers, NEW u \in Undone(g)', u.act # "delete"
      PROVE  SeenDesign'[u.oid] = SeenDesign[u.oid]
  BY <1>9, DoneElsewhere
<1>10. Linked'
  <2>1. SUFFICES ASSUME NEW g \in Handlers, NEW u \in pending'[g],
                        u.act = "update", IsLink(u.e), u.oid \notin spoiled'
                 PROVE  \E k \in Keys : ids'[k] = u.oid /\ Row(g, k, u)'
    BY DEF Linked
  <2>2. u \in pending[g] /\ u.oid \notin spoiled
    BY <1>1, <2>1
  <2>3. PICK k \in Keys : ids[k] = u.oid /\ Row(g, k, u)
    BY <1>3, <2>1, <2>2 DEF Linked
  <2>4. SeenDesign'[u.oid] = SeenDesign[u.oid]
    BY <1>9, <2>1 DEF Undone
  <2>5. Row(g, k, u)'
    BY <1>1, <2>3, <2>4, RowKept
  <2>. QED BY <1>1, <2>3, <2>5 DEF tables
<1>11. \A g \in Handlers : g # h => Calm(g)
  BY <1>1 DEF Calm
<1>12. ASSUME NEW g \in Handlers, g # h, pc[g] \notin {"idle", "apply"}, item[g].act = "update"
       PROVE  SeenDesign'[item[g].oid] = SeenDesign[item[g].oid]
  <2>1. item[g] \in Undone(g)
    BY <1>12 DEF Undone, AtHand
  <2>2. item[g] \in Undone(g)'
    BY <1>1, <1>12, <2>1
  <2>3. PICK u : u = item[g]
    OBVIOUS
  <2>. QED BY <1>9, <1>12, <2>2, <2>3
<1>13. KeyHeld' /\ Tainted' /\ BareKeys' /\ Holding'
  BY <1>1, <1>3, <1>11, <1>12, OthersCalm DEF KeyStages
<1>. QED BY <1>8, <1>10, <1>13 DEF TableView

LEMMA FinishTable ==
  ASSUME IInv, MapView, TableView, NEW h \in Handlers, Finish(h)
  PROVE  TableView'
<1>1. /\ SeenDesign' = SeenDesign
      /\ \A g \in Handlers : AtHand(g)' = AtHand(g) /\ Undone(g)' = Undone(g)
      /\ pending' = pending /\ pc[h] = "apply" /\ pc'[h] = "idle"
      /\ \A g \in Handlers : g # h => /\ pc'[g] = pc[g] /\ item'[g] = item[g]
                                      /\ old'[g] = old[g] /\ key'[g] = key[g]
                                      /\ left'[g] = left[g] /\ placed'[g] = placed[g]
      /\ UNCHANGED <<tables, spoiled, up>>
  BY FinishMap
<1>2. pending[h] = {}
  BY DEF Finish
<1>3. Agreed /\ Linked /\ KeyHeld /\ Tainted /\ BareKeys /\ Holding
  BY DEF TableView
<1>4. Busy' = Busy
  BY <1>1 DEF Busy, BusyWith
<1>5. Agreed'
  BY <1>1, <1>3, <1>4, SameKept DEF Agreed
<1>6. Linked'
  <2>1. SUFFICES ASSUME NEW g \in Handlers, NEW u \in pending'[g],
                        u.act = "update", IsLink(u.e), u.oid \notin spoiled'
                 PROVE  \E k \in Keys : ids'[k] = u.oid /\ Row(g, k, u)'
    BY DEF Linked
  <2>2. u \in pending[g] /\ u.oid \notin spoiled /\ g # h
    BY <1>1, <1>2, <2>1
  <2>3. PICK k \in Keys : ids[k] = u.oid /\ Row(g, k, u)
    BY <1>3, <2>1, <2>2 DEF Linked
  <2>4. Row(g, k, u)'
    BY <1>1, <2>2, <2>3, RowKept
  <2>. QED BY <1>1, <2>3, <2>4 DEF tables
<1>7. \A g \in Handlers : g # h => Calm(g)
  BY <1>1 DEF Calm
<1>8. KeyHeld' /\ Tainted' /\ BareKeys' /\ Holding'
  BY <1>1, <1>3, <1>7, OthersCalm DEF KeyStages
<1>. QED BY <1>5, <1>6, <1>8 DEF TableView

(* With nobody at work, it is only the two copies that have to agree.      *)
LEMMA IdleTable ==
  ASSUME Idle', Agreed', BareKeys'
  PROVE  TableView'
<1>1. \A h \in Handlers : pc'[h] = "idle" /\ pending'[h] = {} /\ AtHand(h)' = {}
  BY DEF Idle, AtHand
<1>2. Linked' /\ Tainted'
  BY <1>1 DEF Linked, Tainted
<1>3. KeyHeld' /\ Holding'
  BY <1>1 DEF KeyHeld, Holding, KeyStages
<1>. QED BY <1>2, <1>3 DEF TableView

LEMMA CrashSame ==
  ASSUME IInv, MapView, TableView, Crash
  PROVE  \A i \in Id \ spoiled' :
           Same(i) /\ SeenDesign'[i] = ReadDesign'[i] /\ ReadDesign'[i] = ReadDesign[i]
<1>1. Idle' /\ UNCHANGED tables /\ up' = FALSE
      /\ spoiled' = spoiled \cup (UNION { Spot(w) : w \in HalfDone })
  BY CrashMap DEF Crash
<1>2. Agreed /\ BareKeys
  BY DEF TableView
<1>3. Busy \subseteq UNION { Spot(w) : w \in HalfDone }
  <2>1. SUFFICES ASSUME NEW g \in Handlers, NEW x \in BusyWith(g)
                 PROVE  \E w \in HalfDone : x \in Spot(w)
    BY DEF Busy
  <2>2. CASE \E u \in AtHand(g) : x \in Spot(u)
    BY <2>2 DEF HalfDone
  <2>3. CASE \E u \in pending[g] : Follows(u) /\ x = u.oid
    <3>1. PICK u \in pending[g] : Follows(u) /\ x = u.oid
      BY <2>3
    <3>2. u \in Work
      BY DEF IInv, TypeOK
    <3>. QED BY <3>1, <3>2, WorkIds DEF HalfDone
  <2>. QED BY <2>1, <2>2, <2>3 DEF BusyWith
<1>4. SeenDesign' = ReadDesign' /\ ReadDesign' = ReadDesign
  BY <1>1 DEF SeenDesign, tables, ReadDesign, HostAt, LinkAt
<1>5. \A i \in Id \ spoiled' : Same(i)
  BY <1>1, <1>2, <1>3 DEF Agreed
<1>. QED BY <1>4, <1>5

LEMMA CrashTable ==
  ASSUME IInv, MapView, TableView, Crash
  PROVE  TableView'
<1>1. Idle' /\ UNCHANGED tables
  BY CrashMap DEF Crash
<1>2. \A i : Taken(i)' <=> Taken(i)
  BY <1>1 DEF tables, Taken, IsIdKey
<1>3. \A i \in Id \ spoiled' : Same(i)'
  BY <1>2, CrashSame DEF Same
<1>4. Agreed'
  BY <1>3 DEF Agreed
<1>5. BareKeys'
  BY <1>1 DEF TableView, BareKeys, tables
<1>. QED BY <1>1, <1>4, <1>5, IdleTable

LEMMA RestartTable ==
  ASSUME MapView, TableView, Restart
  PROVE  TableView'
<1>1. Idle /\ Idle' /\ SeenDesign' = SeenDesign /\ UNCHANGED <<tables, spoiled>>
  BY RestartMap DEF Restart
<1>2. Busy = {} /\ Busy' = {}
  BY <1>1, IdleFacts, IdleFactsNext DEF IdleView
<1>3. Agreed'
  BY <1>1, <1>2, SameKept DEF Agreed, TableView
<1>4. BareKeys'
  BY <1>1 DEF TableView, BareKeys, tables
<1>. QED BY <1>1, <1>3, <1>4, IdleTable

LEMMA StutterTable ==
  ASSUME MapView, TableView, UNCHANGED vars
  PROVE  TableView'
<1>1. /\ UNCHANGED <<tables, pc, pending, item, old, key, left, placed, spoiled>>
      /\ SeenDesign' = SeenDesign
      /\ \A g \in Handlers : AtHand(g)' = AtHand(g)
  BY StutterMap DEF vars, locals
<1>2. Agreed /\ Linked /\ KeyHeld /\ Tainted /\ BareKeys /\ Holding
  BY DEF TableView
<1>3. Busy' = Busy
  BY <1>1 DEF Busy, BusyWith
<1>4. Agreed'
  BY <1>1, <1>2, <1>3, SameKept DEF Agreed
<1>5. Linked'
  BY <1>1, <1>2, RowKept DEF Linked, tables
<1>6. KeyHeld' /\ BareKeys'
  BY <1>1, <1>2 DEF KeyHeld, Current, BareKeys, tables
<1>7. Tainted'
  BY <1>1, <1>2 DEF Tainted, Good
<1>8. Holding'
  <2>1. SUFFICES ASSUME NEW g \in Handlers, pc'[g] \notin {"idle", "apply"}, Good(item[g])'
                 PROVE  Held(g)'
    BY DEF Holding
  <2>2. Held(g) /\ Calm(g)
    BY <1>1, <1>2, <2>1 DEF Holding, Good, Calm
  <2>. QED BY <1>1, <2>2, CalmHeld
<1>. QED BY <1>4, <1>5, <1>6, <1>7, <1>8 DEF TableView

LEMMA InitTable == Init => MapView /\ TableView
<1>. SUFFICES ASSUME Init PROVE MapView /\ TableView
  OBVIOUS
<1>1. IdleView
  BY InitMap, IdleFacts
<1>2. /\ \A h \in Handlers : pc[h] = "idle" /\ pending[h] = {} /\ AtHand(h) = {}
      /\ \A k \in Keys : ids[k] = None /\ ifaces[k] = NoInterfaces
      /\ up /\ elements = [i \in Id |-> None]
  BY DEF Init, DbInit, AtHand
<1>3. \A i \in Id : ~Taken(i) /\ ReadDesign[i] = None
  BY <1>2, NoneAssumption DEF Taken, IsIdKey, ReadDesign
<1>4. \A i \in Id : SeenDesign[i] = None
  BY <1>2 DEF SeenDesign
<1>5. Agreed
  BY <1>3, <1>4 DEF Agreed, Same
<1>6. Linked /\ KeyHeld /\ Tainted /\ BareKeys /\ Holding
  BY <1>2 DEF Linked, KeyHeld, Tainted, BareKeys, Holding, KeyStages
<1>. QED BY <1>1, <1>5, <1>6 DEF IdleView, TableView

---------------------------------------------------------------------------
(* The invariant, and what follows from it.                                *)

LEMMA StepView ==
  ASSUME ConsistentClient, AgreementInv, IInv', Next
  PROVE  MapView' /\ TableView'
<1>1. IInv /\ MapView /\ TableView
  BY DEF AgreementInv
<1>2. ASSUME NEW h \in Handlers, OnUpdate(h)
      PROVE  MapView' /\ TableView'
  <2>1. PICK m \in Updates : /\ ConsistentUpdate(m) /\ Apart(h, Place(m))
                             /\ Receive(h, Place(m), KillList(m))
    BY <1>2 DEF OnUpdate
  <2>2. up /\ pc[h] = "idle" /\ placed[h] = {} /\ Place(m) \subseteq Work
    BY <1>1, <1>2, PlaceType DEF OnUpdate, Ready, MapView, Handling, IInv
  <2>3. Admissible(h, Place(m), KillList(m))
    BY <1>1, <2>1, <2>2, UpdateAdmissible
  <2>. QED BY <1>1, <2>1, <2>2, <2>3, ReceiveMap, ReceiveTable
<1>3. ASSUME NEW h \in Handlers, OnDelete(h)
      PROVE  MapView' /\ TableView'
  <2>1. PICK d \in Deletes : /\ ConsistentDelete(d) /\ Apart(h, Deletion(d))
                             /\ Receive(h, Deletion(d), {})
    BY <1>3 DEF OnDelete
  <2>2. up /\ pc[h] = "idle" /\ placed[h] = {} /\ Deletion(d) \subseteq Work
    BY <1>1, <1>3, DeletionType DEF OnDelete, Ready, MapView, Handling
  <2>3. Admissible(h, Deletion(d), {})
    BY <1>1, <2>1, <2>2, DeleteAdmissible
  <2>. QED BY <1>1, <2>1, <2>2, <2>3, ReceiveMap, ReceiveTable
<1>4. ASSUME NEW h \in Handlers, BeginCreate(h) \/ BeginUpdate(h) \/ BeginDelete(h)
      PROVE  MapView' /\ TableView'
  <2>1. PICK w \in NextWork(h) : Begun(h, w)
    BY <1>1, <1>4, BeginFacts
  <2>. QED BY <1>1, <2>1, BeginMap, BeginTable
<1>5. ASSUME NEW h \in Handlers, Show(h) \/ Hide(h)
      PROVE  MapView' /\ TableView'
  <2>1. PICK w \in Work : Done(h, w)
    BY <1>1, <1>5, DoneFacts
  <2>. QED BY <1>1, <2>1, DoneMap, DoneTable
<1>6. ASSUME NEW h \in Handlers, Finish(h)
      PROVE  MapView' /\ TableView'
  BY <1>1, <1>6, FinishMap, FinishTable
<1>7. ASSUME NEW h \in Handlers, Statement(h) \/ DbFault(h)
      PROVE  MapView' /\ TableView'
  BY <1>1, <1>7, StatementMap, StatementTable
<1>8. ASSUME NEW h \in Handlers, TypePanic(h)
      PROVE  MapView' /\ TableView'
  BY <1>1, <1>8, NoTypePanic
<1>9. ASSUME Crash
      PROVE  MapView' /\ TableView'
  BY <1>1, <1>9, CrashMap, IdleFactsNext, CrashTable DEF IdleView
<1>10. ASSUME Restart
       PROVE  MapView' /\ TableView'
  BY <1>1, <1>10, RestartMap, IdleFactsNext, RestartTable DEF IdleView
<1>. QED BY <1>2, <1>3, <1>4, <1>5, <1>6, <1>7, <1>8, <1>9, <1>10 DEF Next, Handle, Loop

LEMMA NextAgreement ==
  ASSUME ConsistentClient
  PROVE  AgreementInv /\ [Next]_vars => AgreementInv'
<1>. SUFFICES ASSUME AgreementInv, [Next]_vars PROVE AgreementInv'
  OBVIOUS
<1>1. IInv'
  BY NextIInv DEF AgreementInv
<1>2. CASE Next
  BY <1>1, <1>2, StepView DEF AgreementInv
<1>3. CASE UNCHANGED vars
  BY <1>1, <1>3, StutterMap, StutterTable DEF AgreementInv
<1>. QED BY <1>2, <1>3

(* With consistent clients that keep apart, map and database agree as far  *)
(* as AgreementInv says, whatever statements fail and wherever the process *)
(* dies: updateDesign and deleteDesign of main.go with the statements of   *)
(* postgres.go.                                                            *)
THEOREM CopiesAgree ==
  ASSUME ConsistentClient
  PROVE  Spec => []AgreementInv
<1>1. Init => AgreementInv
  BY InitIInv, InitTable DEF AgreementInv
<1>2. AgreementInv /\ [Next]_vars => AgreementInv'
  BY NextAgreement
<1>. QED BY <1>1, <1>2, PTL DEF Spec

(* So a design is durable: what the map shows when nobody is at work is    *)
(* what a restart would read.                                              *)
LEMMA QuietIsDurable == AgreementInv => Durable
<1>. SUFFICES ASSUME AgreementInv, Quiescent, NEW i \in Id \ spoiled
              PROVE  elements[i] = ReadDesign[i]
  BY DEF Durable
<1>1. Idle /\ up
  BY DEF AgreementInv, MapView, Handling, Quiescent, Idle
<1>2. Busy = {} /\ Replaced = {}
  BY <1>1, IdleFacts DEF IdleView
<1>3. Same(i)
  BY <1>2 DEF AgreementInv, TableView, Agreed
<1>4. SeenDesign[i] = elements[i]
  BY <1>1, <1>2 DEF SeenDesign
<1>. QED BY <1>3, <1>4 DEF Same

THEOREM DesignIsDurable ==
  ASSUME ConsistentClient
  PROVE  Spec => []Durable
BY CopiesAgree, QuietIsDurable, PTL

---------------------------------------------------------------------------
(* The refinement: every step is a step of AtomicDesign, or a stutter.     *)

Unseen ==
  UNCHANGED <<SeenDesign, Inflight, spoiled, faults, crashes>>

LEMMA InflightIsUndone == Inflight = UNION { Undone(h) : h \in Handlers }
BY DEF Inflight, Undone

LEMMA InflightNext ==
  ASSUME NEW h \in Handlers,
         \A g \in Handlers : g # h => Undone(g)' = Undone(g)
  PROVE  /\ Undone(h)' = Undone(h) => Inflight' = Inflight
         /\ Undone(h) \subseteq Undone(h)' => Inflight \subseteq Inflight'
BY DEF Inflight, Undone

LEMMA StatementUnseen ==
  ASSUME IInv, MapView, NEW h \in Handlers, Statement(h)
  PROVE  Unseen
<1>1. SeenDesign' = SeenDesign /\ \A g \in Handlers : Undone(g)' = Undone(g)
  BY StatementMap
<1>2. UNCHANGED <<spoiled, faults, crashes>>
  BY DEF Statement, StoreId, FindId, StoreSystem, MoveId, RenameId, StoreInterface,
         StoreRow, UpdateRow, UpdateEnds, DropId, Refuse, Fail, SkipInterface, DbStep, counters
<1>. QED BY <1>1, <1>2, InflightNext DEF Unseen

LEMMA FaultRefines ==
  ASSUME IInv, MapView, NEW h \in Handlers, DbFault(h)
  PROVE  \E w \in Inflight : Atomic!Fault(w)
<1>1. SeenDesign' = SeenDesign /\ \A g \in Handlers : Undone(g)' = Undone(g)
  BY StatementMap
<1>2. pc[h] \notin {"idle", "apply"}
  BY StatementShape DEF DbStages
<1>3. AtHand(h) = {item[h]} /\ item[h] \in Inflight
  BY <1>2 DEF AtHand, Inflight
<1>4. spoiled' = spoiled \cup Spot(item[h]) /\ faults' = faults + 1 /\ crashes' = crashes
  BY <1>3 DEF DbFault
<1>5. Inflight' = Inflight
  BY <1>1, InflightNext
<1>6. Atomic!Fault(item[h])
  BY <1>1, <1>4, <1>5 DEF Atomic!Fault
<1>. QED BY <1>3, <1>6

LEMMA ReceiveRefines ==
  ASSUME IInv, MapView, up, NEW h \in Handlers, pc[h] = "idle",
         NEW work \in SUBSET Work, NEW ks, Receive(h, work, ks), Admissible(h, work, ks)
  PROVE  Atomic!Receive
<1>1. /\ SeenDesign' = SeenDesign /\ pending'[h] = work /\ AtHand(h) = {} /\ pending[h] = {}
      /\ \A g \in Handlers : AtHand(g)' = AtHand(g)
      /\ \A g \in Handlers : g # h => pending'[g] = pending[g]
  BY ReceiveMap
<1>2. Inflight \subseteq Inflight'
  BY <1>1, InflightNext DEF Undone
<1>3. UNCHANGED <<spoiled, faults, crashes>>
  BY DEF Receive
<1>. QED BY <1>1, <1>2, <1>3 DEF Atomic!Receive

LEMMA BeginRefines ==
  ASSUME IInv, MapView, NEW h \in Handlers, NEW w \in NextWork(h), Begun(h, w)
  PROVE  Unseen \/ \E v \in Inflight : Atomic!Spread(v)
<1>1. /\ w \in Inflight /\ SeenDesign' = SeenDesign /\ UNCHANGED <<faults, crashes>>
      /\ spoiled' = spoiled \cup (IF Good(w) THEN {} ELSE Spot(w))
      /\ \A g \in Handlers : Undone(g)' = Undone(g)
  BY DEF Begun, NextWork, Inflight, counters
<1>2. Inflight' = Inflight
  BY <1>1, InflightNext
<1>3. CASE Good(w)
  BY <1>1, <1>2, <1>3 DEF Unseen
<1>4. CASE ~Good(w)
  <2>1. Touches(w) \cap spoiled # {} /\ spoiled' = spoiled \cup Spot(w)
    BY <1>1, <1>4 DEF Good
  <2>2. Atomic!Spread(w)
    BY <1>1, <1>2, <2>1 DEF Atomic!Spread
  <2>. QED BY <1>1, <2>2
<1>. QED BY <1>3, <1>4

LEMMA DoneRefines ==
  ASSUME IInv, IInv', MapView, NEW h \in Handlers, NEW w \in Work, Done(h, w)
  PROVE  \E v \in Inflight : Atomic!Apply(v)
<1>1. /\ w \in Undone(h) /\ Undone(h)' = Undone(h) \ {w} /\ w \in placed[h]
      /\ \A g \in Handlers : g # h => Undone(g)' = Undone(g)
      /\ UNCHANGED <<spoiled, faults, crashes>>
      /\ \A i \in Id :
           SeenDesign'[i] = IF w.act # "delete" /\ i = w.e.id THEN w.e
                            ELSE IF i = w.oid THEN None ELSE SeenDesign[i]
  BY DEF Done, counters
<1>2. w \in Inflight
  BY <1>1, InflightIsUndone
<1>3. ASSUME NEW g \in Handlers, g # h
      PROVE  w \notin Undone(g)
  <2>1. SUFFICES ASSUME w \in Undone(g) PROVE FALSE
    OBVIOUS
  <2>2. w \in placed[g]
    BY <2>1 DEF MapView, Handling
  <2>. QED BY <1>1, <1>3, <2>2, OthersApart, WorkIds
<1>4. Inflight' = Inflight \ {w}
  <2>1. Inflight' = UNION { Undone(g)' : g \in Handlers }
    BY DEF Inflight, Undone
  <2>2. \A x : (\E g \in Handlers : x \in Undone(g)')
               <=> (\E g \in Handlers : x \in Undone(g)) /\ x # w
    <3>1. SUFFICES ASSUME NEW x
                   PROVE  (\E g \in Handlers : x \in Undone(g)')
                          <=> (\E g \in Handlers : x \in Undone(g)) /\ x # w
      OBVIOUS
    <3>2. \A g \in Handlers : x \in Undone(g)' <=> x \in Undone(g) /\ x # w
      BY <1>1, <1>3
    <3>. QED BY <3>2
  <2>. QED BY <2>1, <2>2, InflightIsUndone
<1>5. SeenDesign \in [Id -> Elements \cup {None}]
  BY SeenType
<1>6. w.oid \in Id /\ w.e.id \in Id
  BY WorkIds
<1>7. \A i \in Id \ spoiled : SeenDesign'[i] = Atomic!Outcome(w)[i]
  BY <1>1, <1>5, <1>6 DEF Atomic!Outcome
<1>8. Atomic!Agree(SeenDesign', Atomic!Outcome(w), spoiled)
  BY <1>7 DEF Atomic!Agree
<1>9. Atomic!Apply(w)
  BY <1>1, <1>4, <1>8 DEF Atomic!Apply
<1>. QED BY <1>2, <1>9

(* At most one work of each handler is half done and not also done by the  *)
(* statements on what it follows.                                          *)
LEMMA HalvesBounded == Atomic!Halves(HalfDone) <= Cardinality(Handlers)
<1>. DEFINE S == { h \in Handlers : pc[h] \notin {"idle", "apply"} /\ ~Follows(item[h]) }
            T == { w \in HalfDone : ~Follows(w) }
            f == [h \in S |-> item[h]]
<1>1. IsFiniteSet(S) /\ Cardinality(S) <= Cardinality(Handlers)
  BY HandlersAssumption, FS_Subset
<1>2. \A w \in T : \E h \in S : w = item[h]
  BY DEF HalfDone, AtHand
<1>3. \A h \in S : item[h] \in T
  BY DEF HalfDone, AtHand
<1>4. f \in Surjection(S, T)
  BY <1>2, <1>3 DEF Surjection
<1>5. IsFiniteSet(T) /\ Cardinality(T) <= Cardinality(S)
  BY <1>1, <1>4, FS_Surjection
<1>6. Cardinality(T) \in Nat /\ Cardinality(S) \in Nat /\ Cardinality(Handlers) \in Nat
  BY <1>1, <1>5, HandlersAssumption, FS_CardinalityType
<1>7. Cardinality(T) <= Cardinality(Handlers)
  BY <1>1, <1>5, <1>6
<1>8. Atomic!Cardinality(T) = Cardinality(T)
  BY DEF Atomic!Cardinality, Cardinality
<1>. QED BY <1>7, <1>8 DEF Atomic!Halves

LEMMA CrashRefines ==
  ASSUME IInv, MapView, TableView, Crash
  PROVE  Atomic!Die
<1>1. /\ Idle' /\ up /\ up' = FALSE /\ UNCHANGED <<tables, faults>> /\ crashes' = crashes + 1
      /\ spoiled' = spoiled \cup UNION { Spot(w) : w \in HalfDone }
  BY CrashMap DEF Crash
<1>2. Inflight' = {}
  BY <1>1, IdleFactsNext DEF IdleView
<1>3. HalfDone \in SUBSET Inflight
  BY DEF HalfDone, Inflight
<1>4. Atomic!Halves(HalfDone) <= Cardinality(Handlers)
  BY HalvesBounded
<1>5. \A i \in Id \ spoiled' : SeenDesign'[i] = SeenDesign[i]
  BY CrashSame DEF Same
<1>6. Atomic!Agree(SeenDesign', SeenDesign, spoiled')
  BY <1>5 DEF Atomic!Agree
<1>. QED BY <1>1, <1>2, <1>3, <1>4, <1>6 DEF Atomic!Die

LEMMA FinishUnseen ==
  ASSUME IInv, MapView, NEW h \in Handlers, Finish(h)
  PROVE  Unseen
<1>1. /\ SeenDesign' = SeenDesign /\ spoiled' = spoiled
      /\ \A g \in Handlers : Undone(g)' = Undone(g)
  BY FinishMap
<1>2. UNCHANGED <<faults, crashes>>
  BY DEF Finish, EndHandler, counters
<1>. QED BY <1>1, <1>2, InflightNext DEF Unseen

(* A restart shows what the dead process was taken to have left.           *)
LEMMA RestartUnseen ==
  ASSUME MapView, Restart
  PROVE  Unseen
<1>1. Idle /\ Idle' /\ SeenDesign' = SeenDesign
  BY RestartMap
<1>2. Inflight = {} /\ Inflight' = {}
  BY <1>1, IdleFacts, IdleFactsNext DEF IdleView
<1>3. UNCHANGED <<spoiled, faults, crashes>>
  BY DEF Restart, counters
<1>. QED BY <1>1, <1>2, <1>3 DEF Unseen

LEMMA StutterUnseen ==
  ASSUME MapView, UNCHANGED vars
  PROVE  Unseen
<1>1. SeenDesign' = SeenDesign /\ \A h \in Handlers : Undone(h)' = Undone(h)
  BY StutterMap
<1>2. Inflight' = Inflight
  BY <1>1 DEF Inflight, Undone
<1>3. UNCHANGED <<spoiled, faults, crashes>>
  BY DEF vars, counters
<1>. QED BY <1>1, <1>2, <1>3 DEF Unseen

LEMMA InitRefines == Init => Atomic!Init
<1>. SUFFICES ASSUME Init PROVE Atomic!Init
  OBVIOUS
<1>1. Inflight = {} /\ Replaced = {}
  BY InitMap, IdleFacts DEF IdleView
<1>2. up = TRUE /\ elements = [i \in Id |-> None] /\ spoiled = {} /\ faults = 0 /\ crashes = 0
  BY DEF Init
<1>3. SeenDesign = [i \in Id |-> None]
  BY <1>1, <1>2 DEF SeenDesign
<1>. QED BY <1>1, <1>2, <1>3 DEF Atomic!Init

LEMMA NextRefines ==
  ASSUME ConsistentClient, AgreementInv, IInv', Next
  PROVE  Unseen \/ Atomic!Next
<1>1. IInv /\ MapView /\ TableView
  BY DEF AgreementInv
<1>. USE DEF Atomic!Next
<1>2. ASSUME NEW h \in Handlers, OnUpdate(h)
      PROVE  Atomic!Next
  <2>1. PICK m \in Updates : /\ ConsistentUpdate(m) /\ Apart(h, Place(m))
                             /\ Receive(h, Place(m), KillList(m))
    BY <1>2 DEF OnUpdate
  <2>2. up /\ pc[h] = "idle" /\ placed[h] = {} /\ Place(m) \subseteq Work
    BY <1>1, <1>2, PlaceType DEF OnUpdate, Ready, MapView, Handling, IInv
  <2>3. Admissible(h, Place(m), KillList(m))
    BY <1>1, <2>1, <2>2, UpdateAdmissible
  <2>. QED BY <1>1, <2>1, <2>2, <2>3, ReceiveRefines
<1>3. ASSUME NEW h \in Handlers, OnDelete(h)
      PROVE  Atomic!Next
  <2>1. PICK d \in Deletes : /\ ConsistentDelete(d) /\ Apart(h, Deletion(d))
                             /\ Receive(h, Deletion(d), {})
    BY <1>3 DEF OnDelete
  <2>2. up /\ pc[h] = "idle" /\ placed[h] = {} /\ Deletion(d) \subseteq Work
    BY <1>1, <1>3, DeletionType DEF OnDelete, Ready, MapView, Handling
  <2>3. Admissible(h, Deletion(d), {})
    BY <1>1, <2>1, <2>2, DeleteAdmissible
  <2>. QED BY <1>1, <2>1, <2>2, <2>3, ReceiveRefines
<1>4. ASSUME NEW h \in Handlers, BeginCreate(h) \/ BeginUpdate(h) \/ BeginDelete(h)
      PROVE  Unseen \/ Atomic!Next
  <2>1. PICK w \in NextWork(h) : Begun(h, w)
    BY <1>1, <1>4, BeginFacts
  <2>. QED BY <1>1, <2>1, BeginRefines
<1>5. ASSUME NEW h \in Handlers, Show(h) \/ Hide(h)
      PROVE  Atomic!Next
  <2>1. PICK w \in Work : Done(h, w)
    BY <1>1, <1>5, DoneFacts
  <2>. QED BY <1>1, <2>1, DoneRefines
<1>6. ASSUME NEW h \in Handlers, Finish(h)
      PROVE  Unseen
  BY <1>1, <1>6, FinishUnseen
<1>7. ASSUME NEW h \in Handlers, Statement(h)
      PROVE  Unseen
  BY <1>1, <1>7, StatementUnseen
<1>8. ASSUME NEW h \in Handlers, DbFault(h)
      PROVE  Atomic!Next
  BY <1>1, <1>8, FaultRefines
<1>9. ASSUME NEW h \in Handlers, TypePanic(h)
      PROVE  FALSE
  BY <1>1, <1>9, NoTypePanic
<1>10. ASSUME Crash
       PROVE  Atomic!Next
  BY <1>1, <1>10, CrashRefines
<1>11. ASSUME Restart
       PROVE  Unseen
  BY <1>1, <1>11, RestartUnseen
<1>. QED BY <1>2, <1>3, <1>4, <1>5, <1>6, <1>7, <1>8, <1>9, <1>10, <1>11
         DEF Next, Handle, Loop

LEMMA StepRefines ==
  ASSUME ConsistentClient
  PROVE  AgreementInv /\ AgreementInv' /\ [Next]_vars => [Atomic!Next]_(Atomic!vars)
<1>. SUFFICES ASSUME AgreementInv, AgreementInv', [Next]_vars
              PROVE  Unseen \/ Atomic!Next
  BY DEF Unseen, Atomic!vars
<1>1. CASE Next
  BY <1>1, NextRefines DEF AgreementInv
<1>2. CASE UNCHANGED vars
  BY <1>2, StutterUnseen DEF AgreementInv
<1>. QED BY <1>1, <1>2

(* A client that is consistent and keeps apart cannot tell the process     *)
(* from one design that is changed at one blow and survives every death:   *)
(* the loops of onUpdate and onDelete, updateDesign and deleteDesign of    *)
(* main.go, whose many statements in postgres.go the others may interleave *)
(* with, fail or be cut short.                                             *)
THEOREM DesignIsAtomic ==
  ASSUME ConsistentClient
  PROVE  Spec => AtomicSpec
<1>1. Init => Atomic!Init
  BY InitRefines
<1>2. AgreementInv /\ AgreementInv' /\ [Next]_vars => [Atomic!Next]_(Atomic!vars)
  BY StepRefines
<1>3. Spec => []AgreementInv
  BY CopiesAgree
<1>. QED BY <1>1, <1>2, <1>3, PTL DEF Spec, AtomicSpec, Atomic!Spec

===============================================================================
