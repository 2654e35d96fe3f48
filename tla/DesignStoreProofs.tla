------------------------- MODULE DesignStoreProofs -------------------------
(***************************************************************************)
(* Proofs about DesignStore for every set of handlers, messages and        *)
(* identities, and every bound: types, the map is filed by identity, a     *)
(* stored link ends in stored interfaces, an identity has one row; and, if *)
(* one request is served at a time, updates take effect.                   *)
(***************************************************************************)
EXTENDS DesignStore, SequenceTheorems, TLAPS

---------------------------------------------------------------------------
(* What a message becomes.                                                 *)

LEMMA SequenceElement ==
  ASSUME NEW S, NEW s \in Seq(S), NEW n \in DOMAIN s
  PROVE  s[n] \in S /\ n \in Nat
BY LenProperties

LEMMA PlaceType ==
  ASSUME NEW m \in Updates, TypeOK
  PROVE  Place(m) \subseteq Work /\ KillList(m) \subseteq Id
<1>1. m \in Seq([oid : Id, e : Elements])
  BY MessageAssumption
<1>2. ASSUME NEW n \in DOMAIN m
      PROVE  m[n].oid \in Id /\ m[n].e \in Elements /\ n \in Nat
  <2>1. m[n] \in [oid : Id, e : Elements] /\ n \in Nat
    BY <1>1, <1>2, SequenceElement, Zenon
  <2>. QED BY <2>1
<1>3. Len(m) \in Nat
  BY <1>1, LenProperties
<1>4. ASSUME NEW n \in DOMAIN m
      PROVE  n + Len(m) * PlaceClass(m[n]) \in Nat
  <2>1. PlaceClass(m[n]) \in Nat
    BY DEF PlaceClass
  <2>2. \A x, y, z \in Nat : x + y * z \in Nat
    OBVIOUS
  <2>. QED BY <2>1, <2>2, <1>2, <1>3
<1>. QED BY <1>2, <1>4 DEF Place, KillList, Work, Acts

LEMMA DeletionType ==
  ASSUME NEW d \in Deletes
  PROVE  Deletion(d) \subseteq Work
<1>1. \A e \in d : e \in Elements
  BY MessageAssumption
<1>2. \A e \in Elements : e.id \in Id
  BY DEF Elements, NodeElements, LinkElements
<1>3. \A e \in d : DeleteClass(e) \in Nat
  BY DEF DeleteClass
<1>. QED BY <1>1, <1>2, <1>3 DEF Deletion, Work, Acts

---------------------------------------------------------------------------
(* What the database holds, and what is read from it.                      *)

LEMMA EndKeysType ==
  ASSUME NEW e \in LinkElements, EndsFound(e)
  PROVE  /\ EndKeys(e) \in [1..2 -> [host : Keys, ifn : IfNames \cup {None}]]
         /\ \A n \in 1..2 : /\ IsIdKey(e.ends[n].host, EndKeys(e)[n].host)
                            /\ EndKeys(e)[n].ifn # None =>
                                 ifaces[EndKeys(e)[n].host][EndKeys(e)[n].ifn] # None
<1>1. ASSUME NEW n \in 1..2
      PROVE  LET k == CHOOSE k \in Keys : EndFound(e.ends[n], k) IN
             k \in Keys /\ EndFound(e.ends[n], k)
  BY <1>1 DEF EndsFound
<1>2. \A n \in 1..2 : e.ends[n].ifn \in IfNames \cup {None}
  BY DEF LinkElements, Ends
<1>. QED BY <1>1, <1>2 DEF EndKeys, EndFound

LEMMA HostAtType ==
  ASSUME DbTypeOK, NEW k \in Keys, ids[k] # None, hosts[k] # None
  PROVE  HostAt(k) \in Elements /\ HostAt(k).id = ids[k]
BY DEF DbTypeOK, HostAt, Elements, NodeElements, HostRows

LEMMA LinkAtType ==
  ASSUME DbTypeOK, LinkEndsStored, NEW k \in Keys, ids[k] # None, links[k] # None
  PROVE  LinkAt(k) \in Elements /\ LinkAt(k).id = ids[k]
<1>1. links[k] \in LinkRows
  BY DEF DbTypeOK
<1>2. ASSUME NEW n \in 1..2
      PROVE  /\ links[k].ends[n] \in [host : Keys, ifn : IfNames \cup {None}]
             /\ ids[links[k].ends[n].host] \in Id
  BY <1>1, <1>2 DEF LinkRows, LinkEndsStored, DbTypeOK
<1>3. LinkAt(k) \in LinkElements
  BY <1>1, <1>2 DEF LinkAt, LinkElements, LinkRows, Ends, DbTypeOK
<1>. QED BY <1>3 DEF LinkAt, Elements

LEMMA ReadDesignType ==
  ASSUME DbTypeOK, LinkEndsStored
  PROVE  /\ ReadDesign \in [Id -> Elements \cup {None}]
         /\ \A i \in Id : ReadDesign[i] # None => ReadDesign[i].id = i
<1>1. ASSUME NEW i \in Id
      PROVE  /\ ReadDesign[i] \in Elements \cup {None}
             /\ ReadDesign[i] # None => ReadDesign[i].id = i
  <2>1. CASE \E k \in Keys : ids[k] = i /\ hosts[k] # None
    <3>1. PICK k \in Keys : /\ ids[k] = i /\ hosts[k] # None
                            /\ ReadDesign[i] = HostAt(k)
      BY <2>1 DEF ReadDesign
    <3>. QED BY <3>1, HostAtType, NoneAssumption
  <2>2. CASE /\ ~ \E k \in Keys : ids[k] = i /\ hosts[k] # None
             /\ \E k \in Keys : ids[k] = i /\ links[k] # None
    <3>1. PICK k \in Keys : /\ ids[k] = i /\ links[k] # None
                            /\ ReadDesign[i] = LinkAt(k)
      BY <2>2 DEF ReadDesign
    <3>. QED BY <3>1, LinkAtType, NoneAssumption
  <2>. QED BY <2>1, <2>2 DEF ReadDesign
<1>2. ReadDesign = [i \in Id |-> ReadDesign[i]]
  BY DEF ReadDesign
<1>. QED BY <1>1, <1>2

---------------------------------------------------------------------------
(* Every statement keeps the tables sound.                                 *)

DbInv == DbTypeOK /\ FreshKeys /\ LinkEndsStored /\ OneElementPerId

LEMMA CreateIdSafe ==
  ASSUME DbInv, NEW i \in Id, CreateId(i, nextKey)
  PROVE  /\ DbInv'
         /\ nextKey \in Keys /\ nextKey' = nextKey + 1
         /\ hosts'[nextKey] = None /\ links'[nextKey] = None
<1>1. DbTypeOK'
  BY MaxKeyAssumption DEF DbInv, DbTypeOK, CreateId, Keys
<1>2. FreshKeys'
  BY MaxKeyAssumption DEF DbInv, DbTypeOK, FreshKeys, CreateId, Keys
<1>3. LinkEndsStored'
  BY NoneAssumption DEF DbInv, DbTypeOK, LinkEndsStored, LinkRows, CreateId
<1>4. OneElementPerId'
  BY NoneAssumption DEF DbInv, DbTypeOK, OneElementPerId, CreateId, Taken, IsIdKey
<1>. QED BY <1>1, <1>2, <1>3, <1>4 DEF DbInv, FreshKeys, CreateId, DbTypeOK, Keys

LEMMA CreateInterfaceSafe ==
  ASSUME DbInv, NEW k \in Keys, NEW n \in IfNames,
         NEW c \in Conductors \cup {None}, CreateInterface(k, n, c)
  PROVE  DbInv'
<1>1. DbTypeOK'
  BY DEF DbInv, DbTypeOK, CreateInterface, Interfaces
<1>2. LinkEndsStored'
  BY DEF DbInv, DbTypeOK, LinkEndsStored, LinkRows, CreateInterface, Interfaces
<1>. QED BY <1>1, <1>2 DEF DbInv, FreshKeys, OneElementPerId, CreateInterface

LEMMA InsertHostSafe ==
  ASSUME DbInv, NEW k \in Keys, NEW e \in Elements, IsHost(e),
         InsertHost(k, e), links[k] = None
  PROVE  DbInv'
<1>1. [kind |-> e.kind, attr |-> e.attr] \in HostRows
  BY DEF IsHost, HostRows, Elements, NodeElements, LinkElements
<1>2. k < nextKey
  BY DEF DbInv, DbTypeOK, FreshKeys, InsertHost, Keys
<1>3. DbTypeOK'
  BY <1>1 DEF DbInv, DbTypeOK, InsertHost
<1>4. FreshKeys'
  BY <1>2 DEF DbInv, DbTypeOK, FreshKeys, InsertHost, Keys
<1>5. OneElementPerId'
  BY DEF DbInv, DbTypeOK, OneElementPerId, InsertHost
<1>. QED BY <1>3, <1>4, <1>5 DEF DbInv, LinkEndsStored, InsertHost

LEMMA InsertLinkSafe ==
  ASSUME DbInv, NEW k \in Keys, NEW e \in LinkElements,
         InsertLink(k, e), hosts[k] = None
  PROVE  DbInv'
<1>. DEFINE row == [kind |-> e.kind, attr |-> e.attr, ends |-> EndKeys(e)]
<1>1. row \in LinkRows
  BY EndKeysType DEF InsertLink, LinkRows, LinkElements
<1>2. k < nextKey
  BY DEF DbInv, DbTypeOK, FreshKeys, InsertLink, Keys
<1>3. links' = [links EXCEPT ![k] = row]
  BY DEF InsertLink
<1>4. ASSUME NEW n \in 1..2
      PROVE  /\ ids[row.ends[n].host] # None
             /\ row.ends[n].ifn # None => ifaces[row.ends[n].host][row.ends[n].ifn] # None
  <2>1. e.ends[n].host \in Id
    BY <1>4 DEF LinkElements, Ends
  <2>. QED BY <1>4, <2>1, EndKeysType, NoneAssumption DEF InsertLink, IsIdKey
<1>. HIDE DEF row
<1>5. DbTypeOK'
  BY <1>1, <1>3 DEF DbInv, DbTypeOK, InsertLink
<1>6. FreshKeys'
  BY <1>2, <1>3 DEF DbInv, DbTypeOK, FreshKeys, InsertLink, Keys
<1>7. LinkEndsStored'
  BY SMTT(30), <1>3, <1>4 DEF DbInv, DbTypeOK, LinkEndsStored, InsertLink
<1>8. OneElementPerId'
  BY <1>3 DEF DbInv, DbTypeOK, OneElementPerId, InsertLink
<1>. QED BY <1>5, <1>6, <1>7, <1>8 DEF DbInv

(* Both halves of UpdateId: the row of k gets an identity no other row has. *)
LEMMA ReidentifySafe ==
  ASSUME DbInv, NEW k \in Keys, NEW i \in Id,
         ids[k] # None, FreeFor(k, i),
         ids' = [ids EXCEPT ![k] = i],
         systems' \subseteq Systems,
         UNCHANGED <<hosts, ifaces, links, nextKey>>
  PROVE  DbInv'
<1>1. DbTypeOK'
  BY DEF DbInv, DbTypeOK
<1>2. FreshKeys'
  BY DEF DbInv, DbTypeOK, FreshKeys, Keys
<1>3. LinkEndsStored'
  BY NoneAssumption DEF DbInv, DbTypeOK, LinkEndsStored
<1>4. OneElementPerId'
  BY DEF DbInv, DbTypeOK, OneElementPerId, FreeFor
<1>. QED BY <1>1, <1>2, <1>3, <1>4 DEF DbInv

LEMMA SameIdsSafe ==
  ASSUME DbInv, UNCHANGED <<ids, hosts, ifaces, links, nextKey>>,
         systems' \subseteq Systems
  PROVE  DbInv'
BY DEF DbInv, DbTypeOK, FreshKeys, LinkEndsStored, OneElementPerId

LEMMA CreateSystemSafe ==
  ASSUME DbInv, NEW sys \in Systems, CreateSystem(sys)
  PROVE  DbInv'
<1>1. systems' \subseteq Systems
  BY DEF DbInv, DbTypeOK, CreateSystem
<1>. QED BY <1>1, SameIdsSafe DEF CreateSystem

LEMMA MoveToSystemSafe ==
  ASSUME DbInv, NEW k \in Keys, NEW sys \in Systems, MoveToSystem(k, sys)
  PROVE  DbInv'
<1>1. systems' \subseteq Systems
  BY DEF DbInv, DbTypeOK, MoveToSystem
<1>2. CASE ids[k] # None
  <2>1. [ids[k] EXCEPT !.sys = sys] \in Id
    BY <1>2 DEF DbInv, DbTypeOK, Id
  <2>2. ids' = [ids EXCEPT ![k] = [ids[k] EXCEPT !.sys = sys]]
    BY <1>2 DEF MoveToSystem
  <2>. QED BY <1>1, <1>2, <2>1, <2>2, ReidentifySafe DEF MoveAllowed, MoveToSystem
<1>3. CASE ids[k] = None
  <2>1. ids' = ids
    BY <1>3 DEF DbInv, DbTypeOK, MoveToSystem
  <2>. QED BY <1>1, <2>1, SameIdsSafe DEF MoveToSystem
<1>. QED BY <1>2, <1>3

LEMMA RenameSafe ==
  ASSUME DbInv, NEW k \in Keys, NEW name \in Names, Rename(k, name)
  PROVE  DbInv'
<1>1. systems' \subseteq Systems
  BY DEF DbInv, DbTypeOK, Rename
<1>2. CASE ids[k] # None
  <2>1. [ids[k] EXCEPT !.name = name] \in Id
    BY <1>2 DEF DbInv, DbTypeOK, Id
  <2>2. ids' = [ids EXCEPT ![k] = [ids[k] EXCEPT !.name = name]]
    BY <1>2 DEF Rename
  <2>. QED BY <1>1, <1>2, <2>1, <2>2, ReidentifySafe DEF RenameAllowed, Rename
<1>3. CASE ids[k] = None
  <2>1. ids' = ids
    BY <1>3 DEF DbInv, DbTypeOK, Rename
  <2>. QED BY <1>1, <2>1, SameIdsSafe DEF Rename
<1>. QED BY <1>2, <1>3

LEMMA UpdateHostRowSafe ==
  ASSUME DbInv, NEW k \in Keys, NEW e \in Elements, UpdateHostRow(k, e)
  PROVE  DbInv'
<1>1. e.attr \in Attrs
  BY DEF Elements, NodeElements, LinkElements
<1>2. hosts[k] \in HostRows /\ hosts[k] # None
  BY DEF DbInv, DbTypeOK, UpdateHostRow, HasHostRow
<1>3. [hosts[k] EXCEPT !.attr = e.attr] \in HostRows
  BY <1>1, <1>2 DEF HostRows
<1>4. hosts' = [hosts EXCEPT ![k] = [hosts[k] EXCEPT !.attr = e.attr]]
  BY DEF UpdateHostRow
<1>5. DbTypeOK'
  BY <1>3, <1>4 DEF DbInv, DbTypeOK, UpdateHostRow
<1>6. FreshKeys'
  BY <1>2, <1>4 DEF DbInv, DbTypeOK, FreshKeys, UpdateHostRow, Keys
<1>7. OneElementPerId'
  BY <1>2, <1>4 DEF DbInv, DbTypeOK, OneElementPerId, UpdateHostRow
<1>. QED BY <1>5, <1>6, <1>7 DEF DbInv, LinkEndsStored, UpdateHostRow

(* An update of a link's row that leaves its ends, or gives it ends that   *)
(* were found.                                                             *)
LEMMA RelinkSafe ==
  ASSUME DbInv, NEW k \in Keys, NEW row \in LinkRows, links[k] # None,
         links' = [links EXCEPT ![k] = row],
         \A n \in 1..2 :
           /\ ids[row.ends[n].host] # None
           /\ row.ends[n].ifn # None => ifaces[row.ends[n].host][row.ends[n].ifn] # None,
         UNCHANGED <<systems, ids, hosts, ifaces, nextKey>>
  PROVE  DbInv'
<1>1. DbTypeOK'
  BY DEF DbInv, DbTypeOK
<1>2. FreshKeys'
  BY DEF DbInv, DbTypeOK, FreshKeys, Keys
<1>3. LinkEndsStored'
  BY DEF DbInv, DbTypeOK, LinkEndsStored
<1>4. OneElementPerId'
  BY DEF DbInv, DbTypeOK, OneElementPerId
<1>. QED BY <1>1, <1>2, <1>3, <1>4 DEF DbInv

LEMMA UpdateLinkRowSafe ==
  ASSUME DbInv, NEW k \in Keys, NEW e \in Elements, UpdateLinkRow(k, e)
  PROVE  DbInv'
<1>. DEFINE row == [links[k] EXCEPT !.attr = e.attr]
<1>1. e.attr \in Attrs
  BY DEF Elements, NodeElements, LinkElements
<1>2. links[k] \in LinkRows /\ links[k] # None
  BY DEF DbInv, DbTypeOK, UpdateLinkRow, HasLinkRow
<1>3. row \in LinkRows /\ row.ends = links[k].ends
  BY <1>1, <1>2 DEF LinkRows
<1>4. links' = [links EXCEPT ![k] = row]
  BY DEF UpdateLinkRow
<1>5. \A n \in 1..2 :
        /\ ids[row.ends[n].host] # None
        /\ row.ends[n].ifn # None => ifaces[row.ends[n].host][row.ends[n].ifn] # None
  BY <1>2, <1>3 DEF DbInv, LinkEndsStored
<1>. HIDE DEF row
<1>. QED BY <1>2, <1>3, <1>4, <1>5, RelinkSafe DEF UpdateLinkRow

(* UpdateLinkEnds and UpdatePlinkRow. *)
LEMMA NewEndsSafe ==
  ASSUME DbInv, NEW k \in Keys, NEW e \in LinkElements, EndsFound(e),
         NEW attr \in Attrs,
         links' = [links EXCEPT ![k] = IF HasLinkRow(k, e.kind)
                     THEN [@ EXCEPT !.attr = attr, !.ends = EndKeys(e)] ELSE @],
         UNCHANGED <<systems, ids, hosts, ifaces, nextKey>>
  PROVE  DbInv'
<1>. DEFINE row == [links[k] EXCEPT !.attr = attr, !.ends = EndKeys(e)]
<1>1. CASE HasLinkRow(k, e.kind)
  <2>1. links[k] \in LinkRows /\ links[k] # None
    BY <1>1 DEF DbInv, DbTypeOK, HasLinkRow
  <2>2. row \in LinkRows /\ row.ends = EndKeys(e)
    BY <2>1, EndKeysType DEF LinkRows
  <2>3. links' = [links EXCEPT ![k] = row]
    BY <1>1
  <2>4. ASSUME NEW n \in 1..2
        PROVE  /\ ids[row.ends[n].host] # None
               /\ row.ends[n].ifn # None => ifaces[row.ends[n].host][row.ends[n].ifn] # None
    <3>1. e.ends[n].host \in Id
      BY <2>4 DEF LinkElements, Ends
    <3>. QED BY <2>2, <2>4, <3>1, EndKeysType, NoneAssumption DEF IsIdKey
  <2>. HIDE DEF row
  <2>. QED BY <2>1, <2>2, <2>3, <2>4, RelinkSafe
<1>2. CASE ~HasLinkRow(k, e.kind)
  <2>1. links' = links
    BY <1>2 DEF DbInv, DbTypeOK
  <2>. QED BY <2>1, SameIdsSafe DEF DbInv, DbTypeOK
<1>. QED BY <1>1, <1>2

LEMMA DeleteIdSafe ==
  ASSUME DbInv, NEW i \in Id, DeleteId(i)
  PROVE  DbInv'
<1>1. DbTypeOK'
  BY DEF DbInv, DbTypeOK, DeleteId, Interfaces, NoInterfaces
<1>2. FreshKeys'
  BY DEF DbInv, DbTypeOK, FreshKeys, DeleteId
<1>3. LinkEndsStored'
  <2>1. \A k \in Keys : links'[k] # None => links'[k] = links[k] /\ ~LinkGone(i, k)
    BY DEF DeleteId
  <2>2. \A k \in Keys : ~RowGone(i, k) => ids'[k] = ids[k] /\ ifaces'[k] = ifaces[k]
    BY DEF DeleteId
  <2>3. ASSUME NEW k \in Keys, links'[k] # None, NEW n \in 1..2
        PROVE  LET end == links[k].ends[n] IN
               end.host \in Keys /\ ~RowGone(i, end.host)
    BY <2>1, <2>3 DEF LinkGone, DbInv, DbTypeOK, LinkRows
  <2>. QED BY <2>1, <2>2, <2>3 DEF DbInv, LinkEndsStored
<1>4. OneElementPerId'
  BY DEF DbInv, DbTypeOK, OneElementPerId, DeleteId
<1>. QED BY <1>1, <1>2, <1>3, <1>4 DEF DbInv

---------------------------------------------------------------------------
(* What a handler holds.                                                   *)

LEMMA ElementKinds ==
  ASSUME NEW e \in Elements
  PROVE  /\ e.id \in Id
         /\ IsLink(e) => e \in LinkElements
         /\ ~IsLink(e) => e \in NodeElements
         /\ IsHost(e) => e \in NodeElements /\ ~IsLink(e)
         /\ ~IsLink(e) /\ e.kind \notin UnsupportedKinds => IsHost(e)
BY DEF Elements, NodeElements, LinkElements, IsLink, IsHost, LinkKinds,
       HostKinds, UnsupportedKinds

LEMMA ItemType ==
  ASSUME TypeOK, ItemHeld, NEW h \in Handlers, pc[h] \notin {"idle", "apply"}
  PROVE  /\ item[h] \in Work
         /\ item[h].e \in Elements /\ item[h].oid \in Id
         /\ pc[h] \in {"newsys", "sys", "name", "row", "ends"} => key[h] \in Keys
BY DEF ItemHeld, Work

(* What can be spoiled are identities. *)
LEMMA SpotType ==
  ASSUME NEW S \in SUBSET Work
  PROVE  UNION { Spot(w) : w \in S } \subseteq Id
<1>1. ASSUME NEW w \in S
      PROVE  Spot(w) \subseteq Id
  <2>1. w \in Work /\ w.oid \in Id /\ w.e.id \in Id
    BY ElementKinds DEF Work
  <2>2. Halfway(w) \in Id
    BY <2>1 DEF Halfway, Id
  <2>. QED BY <2>1, <2>2 DEF Spot
<1>. QED BY <1>1

LEMMA AtHandType ==
  ASSUME IInv, NEW h \in Handlers
  PROVE  AtHand(h) \in SUBSET Work
BY DEF IInv, ItemHeld, AtHand

LEMMA IInvDb == IInv => DbInv
BY DEF IInv, TypeOK, DbInv

(* Steps of the loops: the tables stay.                                    *)

LEMMA ReceiveStep ==
  ASSUME IInv, NEW h \in Handlers, NEW work \in SUBSET Work, NEW ks \in SUBSET Id,
         Receive(h, work, ks)
  PROVE  IInv'
<1>. USE DEF Receive, tables
<1>1. TypeOK'
  BY DEF IInv, TypeOK, DbTypeOK, Stages
<1>2. ItemHeld'
  BY DEF IInv, TypeOK, ItemHeld
<1>3. OwnRow'
  BY DEF IInv, TypeOK, OwnRow, Creating
<1>. QED BY <1>1, <1>2, <1>3
     DEF IInv, FreshKeys, MapKeyed, LinkEndsStored, OneElementPerId

LEMMA BeginStep ==
  ASSUME IInv, NEW h \in Handlers, BeginCreate(h) \/ BeginUpdate(h) \/ BeginDelete(h)
  PROVE  IInv'
<1>1. PICK w \in NextWork(h), to \in {"show", "id", "drop"} :
        /\ Take(h, w, to)
        /\ to = "id" => w.e.kind \notin UnsupportedKinds
        /\ old' = old \/ old' = [old EXCEPT ![h] = elements[w.oid]]
  BY DEF BeginCreate, BeginUpdate, BeginDelete
<1>2. w \in Work /\ w.oid \in Id /\ w.e \in Elements
  BY DEF NextWork, IInv, TypeOK, Work
<1>3. UNCHANGED <<tables, up, elements, kills, key, left, placed, counters>>
  BY <1>1 DEF Take
<1>4. TypeOK'
  <2>1. old' \in [Handlers -> Elements \cup {None}]
    BY <1>1, <1>2 DEF IInv, TypeOK
  <2>2. UNION { Spot(v) : v \in {w} } \subseteq Id
    BY <1>2, SpotType
  <2>3. spoiled' \in SUBSET Id
    BY <1>1, <2>2 DEF Take, IInv, TypeOK
  <2>. QED BY <1>1, <1>2, <1>3, <2>1, <2>3
       DEF IInv, TypeOK, DbTypeOK, Take, Go, Stages, DbStages, tables, counters
<1>5. ItemHeld'
  BY <1>1, <1>2, <1>3 DEF IInv, TypeOK, ItemHeld, Take, Go
<1>6. OwnRow'
  BY <1>1, <1>3 DEF IInv, TypeOK, OwnRow, Creating, Take, Go, tables
<1>. QED BY <1>3, <1>4, <1>5, <1>6
     DEF IInv, FreshKeys, MapKeyed, LinkEndsStored, OneElementPerId, tables

LEMMA EndHandlerStep ==
  ASSUME IInv, NEW h \in Handlers, EndHandler(h), Go(h, "apply", "idle"),
         elements' \in [Id -> Elements \cup {None}],
         \A i \in Id : elements'[i] \in {elements[i], None},
         spoiled' \in SUBSET Id
  PROVE  IInv'
<1>1. TypeOK'
  BY DEF IInv, TypeOK, DbTypeOK, EndHandler, Go, Stages, tables, counters
<1>2. ItemHeld'
  BY DEF IInv, TypeOK, ItemHeld, EndHandler, Go
<1>3. OwnRow'
  BY DEF IInv, TypeOK, OwnRow, Creating, EndHandler, Go, tables
<1>4. MapKeyed'
  BY DEF IInv, MapKeyed
<1>. QED BY <1>1, <1>2, <1>3, <1>4
     DEF IInv, FreshKeys, LinkEndsStored, OneElementPerId, EndHandler, tables

LEMMA ShowHideStep ==
  ASSUME IInv, NEW h \in Handlers, Show(h) \/ Hide(h)
  PROVE  IInv'
<1>1. item[h].e \in Elements /\ item[h].e.id \in Id /\ item[h].oid \in Id
  BY ItemType, ElementKinds DEF IInv, Show, Hide, Go
<1>2. pc' = [pc EXCEPT ![h] = "apply"]
  BY DEF Show, Hide, Go
<1>3. UNCHANGED <<tables, up, pending, kills, item, old, key, left, placed, spoiled, counters>>
  BY DEF Show, Hide
<1>4. TypeOK'
  BY <1>1, <1>2, <1>3 DEF IInv, TypeOK, DbTypeOK, Show, Hide, Stages, tables, counters
<1>5. ItemHeld'
  BY <1>2, <1>3 DEF IInv, TypeOK, ItemHeld
<1>6. OwnRow'
  BY <1>2, <1>3 DEF IInv, TypeOK, OwnRow, Creating, tables
<1>7. MapKeyed'
  BY <1>1 DEF IInv, TypeOK, MapKeyed, Show, Hide
<1>. QED BY <1>3, <1>4, <1>5, <1>6, <1>7
     DEF IInv, FreshKeys, LinkEndsStored, OneElementPerId, tables

---------------------------------------------------------------------------
(* Statements: the map stays, the tables are left sound by the lemmas      *)
(* above, so what is to be shown is what the handler holds.                *)

LEMMA StatementKeepsMap ==
  ASSUME IInv, DbInv', NEW h \in Handlers, NEW from \in Stages, NEW to \in Stages,
         DbStep(h, from, to),
         key' \in [Handlers -> Keys \cup {None}],
         left' \in [Handlers -> SUBSET IfNames],
         ItemHeld', OwnRow'
  PROVE  IInv'
<1>1. TypeOK'
  BY DEF IInv, TypeOK, DbInv, DbStep, Go, counters
<1>2. MapKeyed'
  BY DEF IInv, MapKeyed, DbStep
<1>. QED BY <1>1, <1>2 DEF IInv, DbInv

(* The row another handler creates is not touched by a step that only      *)
(* changes rows that exist.                                                *)
LEMMA RowsKeepOwn ==
  ASSUME IInv, NEW h \in Handlers, NEW from \in Stages, NEW to \in Stages,
         DbStep(h, from, to), ~Creating(h)', key' = key,
         nextKey' = nextKey,
         \A k \in Keys : /\ hosts[k] = None => hosts'[k] = None
                         /\ links[k] = None => links'[k] = None
  PROVE  OwnRow'
<1>1. \A g \in Handlers : Creating(g)' => Creating(g) /\ g # h
  BY DEF Creating, DbStep, Go, IInv, TypeOK
<1>2. \A g \in Handlers : Creating(g) => key[g] \in Keys
  BY DEF Creating, IInv, ItemHeld
<1>. QED BY <1>1, <1>2 DEF IInv, OwnRow

(* What holds of the item and the stage after a step of a statement. *)
LEMMA HeldAfter ==
  ASSUME IInv, NEW h \in Handlers, NEW from \in Stages \ {"idle", "apply"},
         NEW to \in Stages \ {"idle"},
         DbStep(h, from, to),
         to \in {"newsys", "sys", "name", "row", "ends"} =>
           key'[h] \in Keys /\ item[h].e.kind \notin UnsupportedKinds,
         to \in {"newsys", "sys", "name", "row"} /\ left'[h] # {} => IsHost(item[h].e),
         to \in {"newsys", "sys", "name", "ends"} => item[h].act = "update",
         to = "ends" => IsLink(item[h].e),
         to # "id",
         \A g \in Handlers : g # h => key'[g] = key[g] /\ left'[g] = left[g]
  PROVE  ItemHeld'
BY DEF IInv, TypeOK, ItemHeld, DbStep, Go, Stages, DbStages

LEMMA StoreIdStep ==
  ASSUME IInv, NEW h \in Handlers, StoreId(h)
  PROVE  IInv'
<1>. DEFINE e == item[h].e
<1>1. DbStep(h, "id", "row") /\ item[h].act = "create" /\ CreateId(e.id, nextKey)
  BY DEF StoreId, Element
<1>2. e \in Elements /\ e.id \in Id /\ e.kind \notin UnsupportedKinds
  BY <1>1, ItemType, ElementKinds DEF IInv, ItemHeld, DbStep, Go
<1>3. /\ DbInv' /\ nextKey \in Keys /\ nextKey' = nextKey + 1
      /\ hosts'[nextKey] = None /\ links'[nextKey] = None
  BY <1>1, <1>2, IInvDb, CreateIdSafe
<1>4. /\ key' = [key EXCEPT ![h] = nextKey]
      /\ left' = [left EXCEPT ![h] = ToStore(e)]
      /\ UNCHANGED <<hosts, links>>
  BY DEF StoreId, Element, CreateId
<1>5. ToStore(e) \subseteq IfNames /\ (ToStore(e) # {} => IsHost(e))
  BY DEF ToStore, IsHost, HostKinds
<1>. HIDE DEF e
<1>6. /\ key' \in [Handlers -> Keys \cup {None}] /\ key'[h] = nextKey
      /\ left' \in [Handlers -> SUBSET IfNames] /\ left'[h] = ToStore(e)
      /\ \A g \in Handlers : g # h => key'[g] = key[g] /\ left'[g] = left[g]
  BY <1>3, <1>4, <1>5 DEF IInv, TypeOK
<1>7. ItemHeld'
  BY <1>1, <1>2, <1>3, <1>5, <1>6, HeldAfter DEF Stages, DbStages, e
<1>8. OwnRow'
  <2>1. \A g \in Handlers : g # h /\ Creating(g)' => Creating(g)
    BY <1>1 DEF Creating, DbStep, Go, IInv, TypeOK
  <2>2. \A g \in Handlers : g # h /\ Creating(g) =>
          /\ key[g] \in Keys /\ key[g] < nextKey
          /\ hosts[key[g]] = None /\ links[key[g]] = None
    BY DEF Creating, IInv, ItemHeld, OwnRow
  <2>3. nextKey \in Nat /\ Keys \subseteq Nat
    BY <1>3, MaxKeyAssumption DEF Keys
  <2>4. \A f, g \in Handlers : Creating(f)' /\ Creating(g)' /\ f # g => key'[f] # key'[g]
    BY <1>6, <2>1, <2>2, <2>3 DEF IInv, OwnRow
  <2>5. ASSUME NEW g \in Handlers, Creating(g)'
        PROVE  /\ key'[g] < nextKey'
               /\ hosts'[key'[g]] = None /\ links'[key'[g]] = None
    <3>1. CASE g = h
      BY <1>3, <1>6, <2>3, <3>1
    <3>2. CASE g # h
      <4>1. Creating(g)
        BY <2>1, <2>5, <3>2
      <4>2. key'[g] = key[g] /\ key[g] \in Nat /\ key[g] < nextKey
        BY <1>6, <2>2, <2>3, <3>2, <4>1
      <4>3. hosts[key[g]] = None /\ links[key[g]] = None
        BY <2>2, <3>2, <4>1
      <4>. QED BY <1>3, <1>4, <2>3, <4>2, <4>3
    <3>. QED BY <3>1, <3>2
  <2>. QED BY <2>4, <2>5 DEF OwnRow
<1>. QED BY <1>1, <1>3, <1>6, <1>7, <1>8, StatementKeepsMap DEF Stages, DbStages

LEMMA FindIdStep ==
  ASSUME IInv, NEW h \in Handlers, FindId(h)
  PROVE  IInv'
<1>1. PICK k \in Keys, to \in {"newsys", "sys", "name", "row"} :
        /\ DbStep(h, "id", to) /\ item[h].act = "update"
        /\ key' = [key EXCEPT ![h] = k]
        /\ left' = [left EXCEPT ![h] = ToAdd(h)]
        /\ UNCHANGED tables
  BY DEF FindId, NameStage, SysStage
<1>2. item[h].e.kind \notin UnsupportedKinds
  BY <1>1 DEF IInv, ItemHeld, DbStep, Go
<1>3. ToAdd(h) \subseteq IfNames /\ (ToAdd(h) # {} => IsHost(item[h].e))
  BY DEF ToAdd, Element
<1>4. /\ key' \in [Handlers -> Keys \cup {None}] /\ key'[h] = k
      /\ left' \in [Handlers -> SUBSET IfNames] /\ left'[h] = ToAdd(h)
      /\ \A g \in Handlers : g # h => key'[g] = key[g] /\ left'[g] = left[g]
  BY <1>1, <1>3 DEF IInv, TypeOK
<1>5. DbInv'
  BY <1>1, IInvDb, SameIdsSafe DEF tables, DbInv, DbTypeOK
<1>6. ItemHeld'
  BY <1>1, <1>2, <1>3, <1>4, HeldAfter DEF Stages, DbStages
<1>7. OwnRow'
  <2>1. \A g \in Handlers : Creating(g)' => Creating(g) /\ g # h
    BY <1>1 DEF Creating, DbStep, Go, IInv, TypeOK
  <2>. QED BY <1>1, <1>4, <2>1 DEF IInv, OwnRow, tables
<1>. QED BY <1>1, <1>4, <1>5, <1>6, <1>7, StatementKeepsMap DEF Stages, DbStages

LEMMA MoveRenameStep ==
  ASSUME IInv, NEW h \in Handlers, StoreSystem(h) \/ MoveId(h) \/ RenameId(h)
  PROVE  IInv'
<1>1. PICK from \in {"newsys", "sys", "name"}, to \in {"sys", "name", "row"} :
        /\ DbStep(h, from, to)
        /\ UNCHANGED <<key, left, hosts, links, nextKey>>
  BY DEF StoreSystem, MoveId, RenameId, CreateSystem, MoveToSystem, Rename, NameStage
<1>2. /\ key[h] \in Keys /\ item[h].e.kind \notin UnsupportedKinds
      /\ item[h].e.id \in Id
  BY <1>1, ItemType, ElementKinds DEF IInv, ItemHeld, DbStep, Go
<1>3. item[h].e.id.sys \in Systems /\ item[h].e.id.name \in Names
  BY <1>2 DEF Id
<1>4. DbInv'
  BY <1>2, <1>3, IInvDb, CreateSystemSafe, MoveToSystemSafe, RenameSafe
     DEF StoreSystem, MoveId, RenameId, Element
<1>5. ItemHeld'
  BY <1>1, <1>2 DEF IInv, TypeOK, ItemHeld, DbStep, Go
<1>6. OwnRow'
  BY <1>1 DEF IInv, TypeOK, ItemHeld, OwnRow, Creating, DbStep, Go
<1>. QED BY <1>1, <1>4, <1>5, <1>6, StatementKeepsMap DEF Stages, DbStages, IInv, TypeOK

LEMMA StoreInterfaceStep ==
  ASSUME IInv, NEW h \in Handlers, StoreInterface(h)
  PROVE  IInv'
<1>1. PICK n \in left[h] :
        /\ DbStep(h, "row", "row")
        /\ CreateInterface(key[h], n, item[h].e.ifs[n])
        /\ left' = [left EXCEPT ![h] = @ \ {n}]
        /\ key' = key
  BY DEF StoreInterface, Element
<1>2. /\ key[h] \in Keys /\ item[h].e \in NodeElements /\ n \in IfNames
  BY <1>1, ItemType, ElementKinds DEF IInv, ItemHeld, TypeOK, DbStep, Go
<1>3. item[h].e.ifs[n] \in Conductors \cup {None}
  BY <1>2 DEF NodeElements, Interfaces
<1>4. DbInv'
  BY <1>1, <1>2, <1>3, IInvDb, CreateInterfaceSafe
<1>5. ItemHeld'
  BY <1>1 DEF IInv, TypeOK, ItemHeld, DbStep, Go
<1>6. OwnRow'
  BY <1>1 DEF IInv, TypeOK, OwnRow, Creating, DbStep, Go, CreateInterface
<1>. QED BY <1>1, <1>4, <1>5, <1>6, StatementKeepsMap DEF Stages, DbStages, IInv, TypeOK

(* Rows are inserted only under a key the handler is creating. *)
LEMMA StoreRowStep ==
  ASSUME IInv, NEW h \in Handlers, StoreRow(h)
  PROVE  IInv'
<1>. DEFINE e == item[h].e
            k == key[h]
<1>1. /\ DbStep(h, "row", "show") /\ Creating(h) /\ UNCHANGED <<key, left>>
      /\ IF IsLink(e) THEN InsertLink(k, e) ELSE InsertHost(k, e)
  BY DEF StoreRow, Element, DbStep, Go, Creating
<1>2. k \in Keys /\ e \in Elements /\ e.kind \notin UnsupportedKinds
  BY <1>1, ItemType DEF IInv, ItemHeld, DbStep, Go
<1>3. hosts[k] = None /\ links[k] = None
  BY <1>1 DEF IInv, OwnRow
<1>4. DbInv'
  BY <1>1, <1>2, <1>3, ElementKinds, IInvDb, InsertHostSafe, InsertLinkSafe
<1>5. ItemHeld'
  BY <1>1 DEF IInv, TypeOK, ItemHeld, DbStep, Go
<1>6. OwnRow'
  <2>1. ASSUME NEW g \in Handlers, Creating(g)'
        PROVE  Creating(g) /\ g # h
    BY <1>1, <2>1 DEF Creating, DbStep, Go, IInv, TypeOK
  <2>2. ASSUME NEW g \in Handlers, Creating(g), g # h
        PROVE  key[g] \in Keys /\ key[g] # k
    BY <1>1, <2>2 DEF IInv, ItemHeld, OwnRow, Creating
  <2>3. \A j \in Keys : j # k => hosts'[j] = hosts[j] /\ links'[j] = links[j]
    BY <1>1, <1>2 DEF InsertHost, InsertLink, IInv, TypeOK, DbTypeOK
  <2>4. nextKey' = nextKey
    BY <1>1 DEF InsertHost, InsertLink
  <2>. QED BY <1>1, <2>1, <2>2, <2>3, <2>4 DEF IInv, OwnRow
<1>. QED BY <1>1, <1>4, <1>5, <1>6, StatementKeepsMap DEF Stages, DbStages, IInv, TypeOK

LEMMA UpdateStep ==
  ASSUME IInv, NEW h \in Handlers, UpdateRow(h) \/ UpdateEnds(h)
  PROVE  IInv'
<1>. DEFINE e == item[h].e
            k == key[h]
<1>1. PICK from \in {"row", "ends"}, to \in {"ends", "show"} :
        /\ DbStep(h, from, to) /\ UNCHANGED <<key, left>>
        /\ to = "ends" => IsLink(e) /\ item[h].act = "update"
  BY DEF UpdateRow, UpdateEnds, Element, IsLink, LinkKinds
<1>2. k \in Keys /\ e \in Elements /\ e.kind \notin UnsupportedKinds
  BY <1>1, ItemType DEF IInv, ItemHeld, DbStep, Go
<1>3. \/ UpdateLinkRow(k, e)
      \/ UpdatePlinkRow(k, e) /\ IsLink(e)
      \/ UpdateHostRow(k, e)
      \/ UpdateLinkEnds(k, e) /\ IsLink(e)
  BY DEF UpdateRow, UpdateEnds, Element, IsLink, LinkKinds, IInv, ItemHeld, DbStep, Go
<1>4. DbInv'
  <2>1. CASE UpdateLinkRow(k, e)
    BY <1>2, <2>1, IInvDb, UpdateLinkRowSafe
  <2>2. CASE UpdateHostRow(k, e)
    BY <1>2, <2>2, IInvDb, UpdateHostRowSafe
  <2>3. CASE UpdatePlinkRow(k, e) /\ IsLink(e)
    <3>1. e \in LinkElements /\ e.attr \in Attrs
      BY <1>2, <2>3, ElementKinds DEF LinkElements
    <3>. QED BY <1>2, <2>3, <3>1, IInvDb, NewEndsSafe DEF UpdatePlinkRow
  <2>4. CASE UpdateLinkEnds(k, e) /\ IsLink(e)
    <3>1. e \in LinkElements
      BY <1>2, <2>4, ElementKinds
    <3>2. CASE HasLinkRow(k, e.kind)
      <4>1. links[k] \in LinkRows
        BY <1>2, <3>2 DEF HasLinkRow, IInv, TypeOK, DbTypeOK
      <4>2. /\ links[k].attr \in Attrs
            /\ [links[k] EXCEPT !.ends = EndKeys(e)]
                 = [links[k] EXCEPT !.attr = links[k].attr, !.ends = EndKeys(e)]
        BY <4>1 DEF LinkRows
      <4>. QED BY <1>2, <2>4, <3>1, <3>2, <4>2, IInvDb, NewEndsSafe DEF UpdateLinkEnds
    <3>3. CASE ~HasLinkRow(k, e.kind)
      <4>1. links' = links
        BY <1>2, <2>4, <3>3 DEF UpdateLinkEnds, IInv, TypeOK, DbTypeOK
      <4>. QED BY <2>4, <4>1, IInvDb, SameIdsSafe DEF UpdateLinkEnds, DbInv, DbTypeOK
    <3>. QED BY <3>2, <3>3
  <2>. QED BY <1>3, <2>1, <2>2, <2>3, <2>4
<1>5. ItemHeld'
  BY <1>1, <1>2 DEF IInv, TypeOK, ItemHeld, DbStep, Go
<1>6. OwnRow'
  <2>1. \A j \in Keys : /\ hosts[j] = None => hosts'[j] = None
                        /\ links[j] = None => links'[j] = None
    BY <1>2, <1>3 DEF UpdateLinkRow, UpdatePlinkRow, UpdateHostRow, UpdateLinkEnds,
                      HasHostRow, HasLinkRow, IInv, TypeOK, DbTypeOK
  <2>2. nextKey' = nextKey
    BY <1>3 DEF UpdateLinkRow, UpdatePlinkRow, UpdateHostRow, UpdateLinkEnds
  <2>3. ~Creating(h)'
    BY <1>1 DEF Creating, DbStep, Go, IInv, TypeOK
  <2>. QED BY <1>1, <2>1, <2>2, <2>3, RowsKeepOwn DEF Stages, DbStages
<1>. QED BY <1>1, <1>4, <1>5, <1>6, StatementKeepsMap DEF Stages, DbStages, IInv, TypeOK

LEMMA DropStep ==
  ASSUME IInv, NEW h \in Handlers, DropId(h)
  PROVE  IInv'
<1>1. /\ DbStep(h, "drop", "hide") /\ UNCHANGED <<key, left>>
      /\ DeleteId(item[h].oid)
  BY DEF DropId
<1>2. item[h].oid \in Id
  BY <1>1, ItemType DEF IInv, DbStep, Go
<1>3. DbInv'
  BY <1>1, <1>2, IInvDb, DeleteIdSafe
<1>4. ItemHeld'
  BY <1>1 DEF IInv, TypeOK, ItemHeld, DbStep, Go
<1>5. OwnRow'
  <2>1. \A j \in Keys : /\ hosts[j] = None => hosts'[j] = None
                        /\ links[j] = None => links'[j] = None
    BY <1>1 DEF DeleteId
  <2>2. nextKey' = nextKey /\ ~Creating(h)'
    BY <1>1 DEF DeleteId, Creating, DbStep, Go, IInv, TypeOK
  <2>. QED BY <1>1, <2>1, <2>2, RowsKeepOwn DEF Stages, DbStages
<1>. QED BY <1>1, <1>3, <1>4, <1>5, StatementKeepsMap DEF Stages, DbStages, IInv, TypeOK

(* A statement that is refused, or fails, changes no table: the handler    *)
(* goes on with the map, or with the next interface of an update.          *)
LEMMA GiveUpStep ==
  ASSUME IInv, NEW h \in Handlers,
         pc[h] \in DbStages,
         NEW to \in {"show", "hide", "row"}, pc' = [pc EXCEPT ![h] = to],
         to = "row" => pc[h] = "row" /\ item[h].act # "create",
         NEW rest \in SUBSET left[h],
         left' = [left EXCEPT ![h] = rest],
         spoiled' \in SUBSET Id, faults' \in Nat,
         UNCHANGED <<tables, up, elements, pending, kills, item, old, key, placed,
                     requests, crashes>>
  PROVE  IInv'
<1>1. TypeOK'
  BY DEF IInv, TypeOK, DbTypeOK, Stages, tables
<1>2. ItemHeld'
  BY DEF IInv, TypeOK, ItemHeld, Stages, DbStages
<1>3. OwnRow'
  BY DEF IInv, TypeOK, OwnRow, Creating, tables
<1>. QED BY <1>1, <1>2, <1>3
     DEF IInv, FreshKeys, MapKeyed, LinkEndsStored, OneElementPerId, tables

LEMMA RefuseStep ==
  ASSUME IInv, NEW h \in Handlers, Refuse(h)
  PROVE  IInv'
<1>. USE DEF Fail, DbStep, Go, counters
<1>1. spoiled \in SUBSET Id /\ faults \in Nat /\ left \in [Handlers -> SUBSET IfNames]
  BY DEF IInv, TypeOK
<1>2. CASE Refused(h) /\ Fail(h, "show") /\ UNCHANGED left
  <2>1. pc[h] \in DbStages
    BY <1>2 DEF Refused, DbStages
  <2>2. left' = [left EXCEPT ![h] = left[h]]
    BY <1>1, <1>2
  <2>. QED BY <1>1, <1>2, <2>1, <2>2, GiveUpStep
<1>3. CASE \E n \in left[h] :
             pc[h] = "row" /\ InterfaceRefused(h, n) /\ SkipInterface(h, n)
  <2>1. PICK n \in left[h] : pc[h] = "row" /\ SkipInterface(h, n)
    BY <1>3
  <2>2. CASE item[h].act = "create"
    BY <1>1, <2>1, <2>2, GiveUpStep DEF SkipInterface, DbStages
  <2>3. CASE item[h].act # "create"
    BY <1>1, <2>1, <2>3, GiveUpStep DEF SkipInterface, DbStages
  <2>. QED BY <2>2, <2>3
<1>. QED BY <1>2, <1>3 DEF Refuse

LEMMA FaultStep ==
  ASSUME IInv, NEW h \in Handlers, DbFault(h)
  PROVE  IInv'
<1>. USE DEF DbFault
<1>1. spoiled' \in SUBSET Id /\ faults' \in Nat /\ left \in [Handlers -> SUBSET IfNames]
  BY AtHandType, SpotType DEF IInv, TypeOK
<1>2. CASE /\ pc[h] \in DbStages
           /\ pc' = [pc EXCEPT ![h] = IF pc[h] = "drop" THEN "hide" ELSE "show"]
           /\ UNCHANGED left
  <2>1. left' = [left EXCEPT ![h] = left[h]]
    BY <1>1, <1>2
  <2>. QED BY <1>1, <1>2, <2>1, GiveUpStep
<1>3. CASE \E n \in left[h] :
             /\ pc[h] = "row"
             /\ pc' = [pc EXCEPT ![h] = IF item[h].act = "create" THEN "show" ELSE "row"]
             /\ left' = [left EXCEPT ![h] = IF item[h].act = "create" THEN {} ELSE @ \ {n}]
  BY <1>1, <1>3, GiveUpStep DEF DbStages
<1>. QED BY <1>2, <1>3

LEMMA CrashStep ==
  ASSUME IInv, Crash
  PROVE  IInv'
<1>. USE DEF Crash
<1>1. TypeOK'
  <2>1. DbTypeOK' /\ crashes' \in Nat /\ requests' \in Nat /\ faults' \in Nat
    BY DEF IInv, TypeOK, DbTypeOK, tables
  <2>2. spoiled' \in SUBSET Id
    <3>1. HalfDone \in SUBSET Work
      BY AtHandType DEF HalfDone, IInv, TypeOK
    <3>. QED BY <3>1, SpotType DEF IInv, TypeOK
  <2>3. /\ item' \in [Handlers -> Work \cup {None}]
        /\ old' \in [Handlers -> Elements \cup {None}]
        /\ key' \in [Handlers -> Keys \cup {None}]
        /\ elements' \in [Id -> Elements \cup {None}]
    OBVIOUS
  <2>. QED BY <2>1, <2>2, <2>3 DEF TypeOK, Stages
<1>2. ItemHeld' /\ OwnRow'
  BY DEF ItemHeld, OwnRow, Creating
<1>. QED BY <1>1, <1>2
     DEF IInv, FreshKeys, MapKeyed, LinkEndsStored, OneElementPerId, tables

LEMMA RestartStep ==
  ASSUME IInv, Restart
  PROVE  IInv'
<1>1. /\ ReadDesign \in [Id -> Elements \cup {None}]
      /\ \A i \in Id : ReadDesign[i] # None => ReadDesign[i].id = i
  BY ReadDesignType DEF IInv, TypeOK
<1>2. TypeOK'
  BY <1>1 DEF Restart, IInv, TypeOK, DbTypeOK, tables, locals, counters
<1>3. MapKeyed'
  BY <1>1 DEF Restart, MapKeyed
<1>. QED BY <1>2, <1>3
     DEF Restart, IInv, ItemHeld, FreshKeys, OwnRow, Creating, LinkEndsStored,
         OneElementPerId, tables, locals

---------------------------------------------------------------------------
(* The theorems.                                                           *)

LEMMA InitIInv == Init => IInv
<1>. SUFFICES ASSUME Init PROVE IInv
  OBVIOUS
<1>. USE DEF Init, DbInit
<1>1. TypeOK
  <2>1. systems \subseteq Systems /\ nextKey \in 1..MaxKey + 1
    BY RootAssumption, MaxKeyAssumption
  <2>2. /\ ids \in [Keys -> Id \cup {None}]
        /\ hosts \in [Keys -> HostRows \cup {None}]
        /\ links \in [Keys -> LinkRows \cup {None}]
    OBVIOUS
  <2>3. NoInterfaces \in Interfaces
    BY DEF NoInterfaces, Interfaces
  <2>4. DbTypeOK
    BY <2>1, <2>2, <2>3 DEF DbTypeOK
  <2>5. /\ elements \in [Id -> Elements \cup {None}]
        /\ item \in [Handlers -> Work \cup {None}]
        /\ old \in [Handlers -> Elements \cup {None}]
        /\ key \in [Handlers -> Keys \cup {None}]
    OBVIOUS
  <2>6. /\ pending \in [Handlers -> SUBSET Work]
        /\ kills \in [Handlers -> SUBSET Id]
        /\ left \in [Handlers -> SUBSET IfNames]
        /\ placed \in [Handlers -> SUBSET Work]
    OBVIOUS
  <2>7. pc \in [Handlers -> Stages]
    BY DEF Stages
  <2>8. up \in BOOLEAN /\ spoiled \in SUBSET Id
    OBVIOUS
  <2>9. requests \in Nat /\ faults \in Nat /\ crashes \in Nat
    OBVIOUS
  <2>. QED BY <2>4, <2>5, <2>6, <2>7, <2>8, <2>9 DEF TypeOK
<1>2. ItemHeld /\ OwnRow /\ MapKeyed
  BY DEF ItemHeld, OwnRow, Creating, MapKeyed
<1>3. FreshKeys /\ LinkEndsStored /\ OneElementPerId
  BY DEF FreshKeys, LinkEndsStored, OneElementPerId
<1>. QED BY <1>1, <1>2, <1>3 DEF IInv

LEMMA StutterStep == IInv /\ UNCHANGED vars => IInv'
BY SMTT(30) DEF IInv, TypeOK, DbTypeOK, ItemHeld, FreshKeys, OwnRow, Creating, MapKeyed,
       LinkEndsStored, OneElementPerId, vars, tables, locals, counters

LEMMA NextIInv == IInv /\ [Next]_vars => IInv'
<1>. SUFFICES ASSUME IInv, [Next]_vars PROVE IInv'
  OBVIOUS
<1>1. ASSUME NEW h \in Handlers, OnUpdate(h)
      PROVE  IInv'
  BY <1>1, PlaceType, ReceiveStep DEF OnUpdate, IInv
<1>2. ASSUME NEW h \in Handlers, OnDelete(h)
      PROVE  IInv'
  BY <1>2, DeletionType, ReceiveStep DEF OnDelete
<1>3. ASSUME NEW h \in Handlers, Loop(h)
      PROVE  IInv'
  <2>1. CASE BeginCreate(h) \/ BeginUpdate(h) \/ BeginDelete(h)
    BY <2>1, BeginStep
  <2>2. CASE TypePanic(h)
    <3>1. placed[h] \in SUBSET Work
      BY DEF IInv, TypeOK
    <3>2. spoiled' \in SUBSET Id
      BY <2>2, <3>1, SpotType DEF TypePanic, IInv, TypeOK
    <3>. QED BY <2>2, <3>2, EndHandlerStep DEF TypePanic, IInv, TypeOK
  <2>3. CASE Show(h) \/ Hide(h)
    BY <2>3, ShowHideStep
  <2>4. CASE Finish(h)
    <3>1. /\ elements' \in [Id -> Elements \cup {None}]
          /\ \A i \in Id : elements'[i] \in {elements[i], None}
          /\ spoiled' \in SUBSET Id
      BY <2>4 DEF Finish, IInv, TypeOK
    <3>. QED BY <2>4, <3>1, EndHandlerStep DEF Finish
  <2>. QED BY <1>3, <2>1, <2>2, <2>3, <2>4 DEF Loop
<1>4. ASSUME NEW h \in Handlers, Statement(h)
      PROVE  IInv'
  BY <1>4, StoreIdStep, FindIdStep, MoveRenameStep, StoreInterfaceStep, StoreRowStep,
     UpdateStep, DropStep, RefuseStep
  DEF Statement
<1>5. ASSUME NEW h \in Handlers, DbFault(h)
      PROVE  IInv'
  BY <1>5, FaultStep
<1>6. CASE Crash
  BY <1>6, CrashStep
<1>7. CASE Restart
  BY <1>7, RestartStep
<1>8. CASE UNCHANGED vars
  BY <1>8, StutterStep
<1>. QED BY <1>1, <1>2, <1>3, <1>4, <1>5, <1>6, <1>7, <1>8 DEF Next, Handle

(* The invariant holds in every state a process of addie gets the database *)
(* and itself into.                                                        *)
THEOREM Invariance == Spec => []IInv
BY InitIInv, NextIInv, PTL DEF Spec

(* Every variable keeps its type. *)
THEOREM TypeCorrect == Spec => []TypeOK
<1>1. IInv => TypeOK
  BY DEF IInv
<1>. QED BY Invariance, <1>1, PTL

(* A stored link always ends in stored interfaces, so reading the links of *)
(* a design never meets a missing one.                                     *)
THEOREM LinksAreReadable == Spec => []LinkEndsStored
<1>1. IInv => LinkEndsStored
  BY DEF IInv
<1>. QED BY Invariance, <1>1, PTL

(* An identity is stored once, as one element. *)
THEOREM IdsAreUnique == Spec => []OneElementPerId
<1>1. IInv => OneElementPerId
  BY DEF IInv
<1>. QED BY Invariance, <1>1, PTL

---------------------------------------------------------------------------
(* What onUpdate has gone through is in the map as it was sent, whatever   *)
(* statements fail, if one request is served at a time.                    *)

OneAtATime == \A g, h \in Handlers : g = h

(* What a handler has shown is in the map, and what it will kill is what   *)
(* its message replaces; its message deletes all of its elements, or none. *)
Goes(h) ==
  /\ up
  /\ pending[h] \cup AtHand(h) \subseteq placed[h]
  /\ kills[h] = { w.oid : w \in { w \in placed[h] : w.act # "delete" /\ w.e.id # w.oid } }
  /\ \A v, w \in placed[h] : v.act = "delete" => w.act = "delete"
  /\ pc[h] \in {"drop", "hide"} => item[h].act = "delete"
  /\ CollisionFree(placed[h]) =>
       \A w \in Shown(h) : w.act # "delete" => elements[w.e.id] = w.e

Going == \A h \in Handlers : pc[h] # "idle" => Goes(h)

LEMMA InitGoing == Init => Going
BY DEF Init, Going

LEMMA ReceiveGoing ==
  ASSUME OneAtATime, IInv, Going, NEW h \in Handlers, OnUpdate(h) \/ OnDelete(h)
  PROVE  Going'
<1>1. PICK work, ks :
        /\ Receive(h, work, ks) /\ up
        /\ ks = { w.oid : w \in { w \in work : w.act # "delete" /\ w.e.id # w.oid } }
        /\ \A v, w \in work : v.act = "delete" => w.act = "delete"
  <2>1. CASE OnUpdate(h)
    <3>1. PICK m \in Updates : Receive(h, Place(m), KillList(m)) /\ up
      BY <2>1 DEF OnUpdate, Ready
    <3>2. \A w \in Place(m) : w.act # "delete"
      BY DEF Place
    <3>3. KillList(m) = { w.oid : w \in { w \in Place(m) : w.act # "delete" /\ w.e.id # w.oid } }
      <4>1. ASSUME NEW n \in DOMAIN m, m[n].e.id # m[n].oid
            PROVE  \E w \in Place(m) : w.oid = m[n].oid /\ w.e.id # w.oid
        <5> DEFINE w == [rank |-> n + Len(m) * PlaceClass(m[n]),
                         act |-> IF elements[m[n].oid] = None THEN "create" ELSE "update",
                         oid |-> m[n].oid, e |-> m[n].e]
        <5>1. w \in Place(m)
          BY DEF Place
        <5>2. w.oid = m[n].oid /\ w.e = m[n].e
          OBVIOUS
        <5> HIDE DEF w
        <5> QED BY <4>1, <5>1, <5>2
      <4>2. ASSUME NEW w \in Place(m), w.e.id # w.oid
            PROVE  \E n \in DOMAIN m : w.oid = m[n].oid /\ m[n].e.id # m[n].oid
        <5>1. PICK n \in DOMAIN m : w.oid = m[n].oid /\ w.e = m[n].e
          BY DEF Place
        <5> QED BY <4>2, <5>1
      <4> QED BY <3>2, <4>1, <4>2 DEF KillList
    <3> DEFINE work == Place(m)
               ks == KillList(m)
    <3>4. /\ Receive(h, work, ks) /\ up
          /\ ks = { w.oid : w \in { w \in work : w.act # "delete" /\ w.e.id # w.oid } }
          /\ \A v, w \in work : v.act = "delete" => w.act = "delete"
      BY <3>1, <3>2, <3>3
    <3> HIDE DEF work, ks
    <3> QED BY <3>4
  <2>2. CASE OnDelete(h)
    <3>1. PICK d \in Deletes : Receive(h, Deletion(d), {}) /\ up
      BY <2>2 DEF OnDelete, Ready
    <3>2. \A w \in Deletion(d) : w.act = "delete"
      BY DEF Deletion
    <3>3. {} = { w.oid : w \in { w \in Deletion(d) : w.act # "delete" /\ w.e.id # w.oid } }
      BY <3>2
    <3> QED BY <3>1, <3>2, <3>3
  <2> QED BY <2>1, <2>2
<1>2. /\ pc'[h] = "apply" /\ pending'[h] = work /\ placed'[h] = work /\ kills'[h] = ks
      /\ up'
  BY <1>1 DEF Receive, IInv, TypeOK
<1>3. AtHand(h)' = {} /\ Shown(h)' = {}
  BY <1>2 DEF AtHand, Shown
<1>4. Goes(h)'
  BY <1>1, <1>2, <1>3 DEF Goes
<1> QED BY <1>4 DEF Going, OneAtATime

LEMMA BeginGoing ==
  ASSUME OneAtATime, IInv, Going, NEW h \in Handlers,
         BeginCreate(h) \/ BeginUpdate(h) \/ BeginDelete(h)
  PROVE  Going'
<1>1. PICK w \in pending[h], to \in {"show", "id", "drop"} :
        /\ Take(h, w, to)
        /\ to = "drop" => w.act = "delete"
  BY DEF BeginCreate, BeginUpdate, BeginDelete, NextWork
<1>2. /\ pc[h] = "apply" /\ pc'[h] = to /\ item'[h] = w
      /\ pending'[h] = pending[h] \ {w}
      /\ UNCHANGED <<up, elements, kills, placed>>
  BY <1>1 DEF Take, Go, IInv, TypeOK
<1>3. Goes(h)
  BY <1>2 DEF Going
<1>4. AtHand(h)' = {w} /\ Shown(h)' \subseteq Shown(h)
  BY <1>1, <1>2 DEF AtHand, Shown
<1>5. Goes(h)'
  BY <1>1, <1>2, <1>3, <1>4 DEF Goes, CollisionFree
<1> QED BY <1>5 DEF Going, OneAtATime

LEMMA ShowGoing ==
  ASSUME OneAtATime, IInv, Going, NEW h \in Handlers, Show(h) \/ Hide(h)
  PROVE  Going'
<1>1. /\ pc[h] \in {"show", "hide"} /\ pc'[h] = "apply"
      /\ UNCHANGED <<up, item, pending, kills, placed>>
  BY DEF Show, Hide, Go, IInv, TypeOK
<1>2. Goes(h)
  BY <1>1 DEF Going
<1>3. AtHand(h) = {item[h]} /\ AtHand(h)' = {}
  BY <1>1 DEF AtHand
<1>4. item[h].e.id \in Id
  BY <1>1, ItemType, ElementKinds DEF IInv
<1>5. Shown(h)' \subseteq Shown(h) \cup {item[h]}
  BY <1>1, <1>3 DEF Shown
<1>6. ASSUME CollisionFree(placed[h]), NEW w \in Shown(h)', w.act # "delete"
      PROVE  elements'[w.e.id] = w.e
  <2>1. w \in placed[h] /\ item[h] \in placed[h] /\ Shown(h) \subseteq placed[h]
    BY <1>1, <1>2, <1>3, <1>6 DEF Goes, Shown
  <2>2. CASE Hide(h)
    BY <1>2, <1>6, <2>1, <2>2 DEF Goes, Hide, Go
  <2>3. CASE Show(h) /\ w = item[h]
    BY <1>4, <2>3 DEF Show, IInv, TypeOK
  <2>4. CASE Show(h) /\ w # item[h]
    <3>1. elements[w.e.id] = w.e
      BY <1>2, <1>5, <1>6, <2>4 DEF Goes
    <3>2. w.e.id # item[h].e.id
      BY <1>6, <2>1, <2>4 DEF CollisionFree
    <3> QED BY <2>4, <3>1, <3>2 DEF Show
  <2> QED BY <2>2, <2>3, <2>4
<1>7. Goes(h)'
  BY <1>1, <1>2, <1>3, <1>6 DEF Goes, CollisionFree
<1> QED BY <1>7 DEF Going, OneAtATime

(* A statement, successful or not, moves its handler on.                   *)
LEMMA StatementMoves ==
  ASSUME IInv, NEW h \in Handlers, Statement(h) \/ DbFault(h)
  PROVE  /\ UNCHANGED <<up, elements, pending, kills, item, placed>>
         /\ pc[h] \notin {"idle", "apply"} /\ pc'[h] \notin {"idle", "apply"}
         /\ pc'[h] \in {"drop", "hide"} => pc[h] = "drop"
<1>1. ASSUME NEW from, NEW to, DbStep(h, from, to)
      PROVE  /\ UNCHANGED <<up, elements, pending, kills, item, placed>>
             /\ pc[h] = from /\ pc'[h] = to
  BY <1>1 DEF DbStep, Go, IInv, TypeOK
<1>2. \A sys : SysStage(sys) \in {"sys", "newsys"}
  BY DEF SysStage
<1>3. NameStage(h) \in {"name", "row"}
  BY DEF NameStage
<1>4. CASE \/ StoreId(h) \/ FindId(h) \/ StoreSystem(h) \/ MoveId(h) \/ RenameId(h)
           \/ StoreInterface(h) \/ StoreRow(h) \/ UpdateEnds(h) \/ DropId(h)
  BY <1>1, <1>2, <1>3, <1>4
  DEF StoreId, FindId, StoreSystem, MoveId, RenameId, StoreInterface, StoreRow, UpdateEnds, DropId
<1>5. CASE UpdateRow(h)
  BY <1>1, <1>5 DEF UpdateRow
<1>6. CASE Refuse(h)
  <2>1. PICK to \in {"show", "row"} : DbStep(h, pc[h], to)
    BY <1>6 DEF Refuse, Fail, SkipInterface
  <2>2. pc[h] \in {"id", "newsys", "sys", "name", "row", "ends"}
    BY <1>6 DEF Refuse, Refused
  <2> QED BY <1>1, <2>1, <2>2
<1>7. CASE DbFault(h)
  BY <1>7 DEF DbFault, DbStages, IInv, TypeOK
<1> QED BY <1>4, <1>5, <1>6, <1>7 DEF Statement

LEMMA StatementGoing ==
  ASSUME OneAtATime, IInv, Going, NEW h \in Handlers, Statement(h) \/ DbFault(h)
  PROVE  Going'
<1>1. Goes(h)
  BY StatementMoves DEF Going
<1>2. AtHand(h)' = AtHand(h) /\ Shown(h)' = Shown(h)
  BY StatementMoves DEF AtHand, Shown
<1>3. Goes(h)'
  BY StatementMoves, <1>1, <1>2 DEF Goes, CollisionFree
<1> QED BY <1>3 DEF Going, OneAtATime

LEMMA NextGoing ==
  ASSUME OneAtATime
  PROVE  IInv /\ Going /\ [Next]_vars => Going'
<1> SUFFICES ASSUME IInv, Going, [Next]_vars PROVE Going'
  OBVIOUS
<1>1. ASSUME NEW h \in Handlers, OnUpdate(h) \/ OnDelete(h) PROVE Going'
  BY <1>1, ReceiveGoing
<1>2. ASSUME NEW h \in Handlers, TypePanic(h) \/ Finish(h) PROVE Going'
  <2>1. pc'[h] = "idle"
    BY <1>2 DEF TypePanic, Finish, Go, IInv, TypeOK
  <2> QED BY <2>1 DEF Going, OneAtATime
<1>3. ASSUME NEW h \in Handlers, Handle(h) \/ DbFault(h) PROVE Going'
  BY <1>2, <1>3, BeginGoing, ShowGoing, StatementGoing DEF Handle, Loop
<1>4. CASE Crash
  BY <1>4 DEF Crash, Going
<1>5. CASE Restart
  <2>1. \A h \in Handlers : pc[h] = "idle"
    BY <1>5 DEF Restart, Going, Goes
  <2> QED BY <1>5, <2>1 DEF Restart, Going, locals
<1>6. CASE UNCHANGED vars
  BY <1>6 DEF vars, locals, Going, Goes, AtHand, Shown, CollisionFree
<1> QED BY <1>1, <1>3, <1>4, <1>5, <1>6 DEF Next

(* When a handler ends, all of its message has been shown, and none of it  *)
(* is on the kill list.                                                    *)
LEMMA FinishTakesEffect ==
  ASSUME IInv, Going, NEW h \in Handlers, Finish(h), CollisionFree(placed[h]),
         NEW w \in placed[h], w.act # "delete"
  PROVE  /\ elements'[w.e.id] = w.e
         /\ w.oid # w.e.id => elements'[w.oid] = None
<1>1. /\ pc[h] = "apply" /\ pending[h] = {}
      /\ elements' = [i \in Id |-> IF i \in kills[h] THEN None ELSE elements[i]]
  BY DEF Finish, Go
<1>2. Goes(h)
  BY <1>1 DEF Going
<1>3. w \in Shown(h)
  BY <1>1 DEF Shown, AtHand
<1>4. w.oid \in Id /\ w.e.id \in Id
  BY ElementKinds DEF IInv, TypeOK, Work
<1>5. w.e.id \notin kills[h]
  <2> SUFFICES ASSUME NEW v \in placed[h], v.e.id # v.oid, w.e.id = v.oid PROVE FALSE
    BY <1>2 DEF Goes
  <2> QED BY DEF CollisionFree
<1>6. w.oid # w.e.id => w.oid \in kills[h]
  BY <1>2 DEF Goes
<1> QED BY <1>1, <1>2, <1>3, <1>4, <1>5, <1>6 DEF Goes

(* onUpdate, served by itself, leaves in the map every element of its      *)
(* message as it was sent and none of the old identities, whatever the     *)
(* message and whatever statements fail, unless an element takes the       *)
(* identity of another one of the message, which the kill list then        *)
(* deletes.                                                                *)
THEOREM UpdatesTakeEffect ==
  ASSUME OneAtATime
  PROVE  Spec => UpdateTakesEffect
<1>1. IInv /\ Going /\ [Next]_vars =>
        [ \A h \in Handlers :
            Finish(h) /\ CollisionFree(placed[h]) =>
              \A w \in placed[h] : w.act # "delete" =>
                /\ elements'[w.e.id] = w.e
                /\ w.oid # w.e.id => elements'[w.oid] = None ]_vars
  BY FinishTakesEffect
<1> QED BY <1>1, Invariance, InitGoing, NextGoing, PTL DEF Spec, UpdateTakesEffect

===========================================================================
