------------------------------ MODULE MapProofs ------------------------------
(***************************************************************************)
(* Proofs about Agreement: MapView, what the handlers have still to do and *)
(* what a client sees of the map, is kept by every step of a process whose *)
(* clients are consistent and keep apart.                                  *)
(***************************************************************************)
EXTENDS Agreement, DesignStoreProofs

---------------------------------------------------------------------------
(* Work, and what is seen.                                                 *)

LEMMA WorkIds ==
  ASSUME NEW w \in Work
  PROVE  /\ w.oid \in Id /\ w.e \in Elements /\ w.e.id \in Id /\ Halfway(w) \in Id
         /\ w.act \in {"create", "update", "delete"} /\ w.rank \in Nat
         /\ Spot(w) \subseteq Id /\ Leaving(w) \subseteq Spot(w)
         /\ Spot(w) \subseteq Touches(w)
         /\ w.oid \in Spot(w) /\ w.e.id \in Spot(w) /\ Halfway(w) \in Spot(w)
         /\ IsLink(w.e) => \A n \in 1..2 : w.e.ends[n].host \in Touches(w)
<1>1. w.oid \in Id /\ w.e \in Elements /\ w.e.id \in Id
  BY ElementKinds DEF Work
<1>2. Halfway(w) \in Id
  BY <1>1 DEF Halfway, Id
<1>. QED BY <1>1, <1>2 DEF Work, Acts, Spot, Leaving, Touches

LEMMA LinkEnds ==
  ASSUME NEW f \in Elements, IsLink(f), NEW n \in 1..2
  PROVE  f.ends[n] \in Ends /\ f.ends[n].host \in Id /\ f.ends[n].ifn \in IfNames \cup {None}
BY ElementKinds DEF LinkElements, Ends

LEMMA SeenType ==
  ASSUME IInv
  PROVE  /\ SeenDesign \in [Id -> Elements \cup {None}]
         /\ \A i \in Id : SeenDesign[i] # None => SeenDesign[i].id = i
<1>1. CASE up
  <2>1. /\ elements \in [Id -> Elements \cup {None}]
        /\ \A i \in Id : elements[i] # None => elements[i].id = i
    BY DEF IInv, TypeOK, MapKeyed
  <2>. QED BY <1>1, <2>1 DEF SeenDesign
<1>2. CASE ~up
  <2>1. SeenDesign = ReadDesign
    BY <1>2 DEF SeenDesign
  <2>. QED BY <2>1, ReadDesignType DEF IInv, TypeOK
<1>. QED BY <1>1, <1>2

LEMMA SeenIsShown ==
  ASSUME up, NEW i \in Id
  PROVE  /\ SeenDesign[i] # None => SeenDesign[i] = elements[i]
         /\ i \notin Replaced => SeenDesign[i] = elements[i]
         /\ i \in Replaced => SeenDesign[i] = None
BY DEF SeenDesign

LEMMA SeenStays ==
  ASSUME up, up', elements' = elements, Replaced' = Replaced
  PROVE  SeenDesign' = SeenDesign
BY DEF SeenDesign

(* What a handler has replaced belongs to its message.                     *)
LEMMA ReplacedIsPlaced ==
  ASSUME NEW i \in Replaced
  PROVE  \E g \in Handlers : \E v \in placed[g] : v.oid = i
BY DEF Replaced, Shown

(* Work that keeps apart from what is at work sees the map as it is.       *)
LEMMA ApartSees ==
  ASSUME IInv, up, NEW h \in Handlers, placed[h] = {},
         NEW work \in SUBSET Work, Apart(h, work),
         NEW w \in work, NEW i \in Touches(w), i \in Id
  PROVE  SeenDesign[i] = elements[i]
<1>1. ASSUME i \in Replaced
      PROVE  FALSE
  <2>1. PICK g \in Handlers : \E v \in placed[g] : v.oid = i
    BY <1>1, ReplacedIsPlaced
  <2>2. PICK v \in placed[g] : v.oid = i
    BY <2>1
  <2>3. i \in Touches(v)
    BY <2>2, WorkIds DEF IInv, TypeOK
  <2>. QED BY <2>2, <2>3 DEF Apart
<1>. QED BY <1>1, SeenIsShown

---------------------------------------------------------------------------
(* Messages.                                                               *)

(* What MapView asks of the work of a handler that has begun nothing yet.  *)
Admissible(h, work, ks) ==
  /\ Apart(h, work)
  /\ ks = { w.oid : w \in { w \in work : w.act # "delete" /\ w.e.id # w.oid } }
  /\ \A v, w \in work : Compatible(v, w)
  /\ \A w \in work : w.act # "delete" => Fits(w)
  /\ \A w \in work : \A i \in Id :
       Joins(SeenDesign[i]) \cap Leaving(w) # {} =>
         \E v \in work : Follows(v) /\ v.oid = i
  /\ \A w \in work : w.act # "delete" /\ IsLink(w.e) =>
       \A n \in 1..2 :
         \/ EndFits(w.e.ends[n], SeenDesign[w.e.ends[n].host])
         \/ \E v \in work : v.e.id = w.e.ends[n].host

LEMMA ChangeType ==
  ASSUME NEW m \in Updates, NEW n \in DOMAIN m
  PROVE  /\ m[n].oid \in Id /\ m[n].e \in Elements /\ m[n].e.id \in Id
         /\ Halfway(m[n]) \in Id /\ n \in 1..Len(m) /\ Len(m) \in Nat
<1>1. m \in Seq([oid : Id, e : Elements])
  BY MessageAssumption
<1>2. m[n] \in [oid : Id, e : Elements] /\ n \in 1..Len(m) /\ Len(m) \in Nat
  BY <1>1, LenProperties
<1>3. m[n].oid \in Id /\ m[n].e \in Elements /\ m[n].e.id \in Id
  BY <1>2, ElementKinds
<1>4. Halfway(m[n]) \in Id
  BY <1>3 DEF Halfway, Id
<1>. QED BY <1>2, <1>3, <1>4

LEMMA ChangesDistinct ==
  ASSUME NEW m, ConsistentUpdate(m), NEW n \in DOMAIN m, NEW p \in DOMAIN m, n # p
  PROVE  /\ m[n].oid # m[p].oid /\ m[n].e.id # m[p].e.id
         /\ m[n].e.id # Halfway(m[p]) /\ m[n].e.id # m[p].oid
<1>1. m[n].oid # m[p].oid /\ m[n].e.id # m[p].e.id /\ m[n].e.id # Halfway(m[p])
  BY DEF ConsistentUpdate
<1>2. ASSUME m[n].e.id = m[p].oid
      PROVE  FALSE
  <2>1. /\ m[p].e.id # m[p].oid => elements[m[p].oid] # None
        /\ m[n].e.id # m[n].oid => elements[m[n].e.id] = None
    BY DEF ConsistentUpdate, ConsistentChange
  <2>. QED BY <1>1, <1>2, <2>1
<1>. QED BY <1>1, <1>2

(* The design once m is in it, at what m gives, takes, and leaves alone.   *)
LEMMA AfterGives ==
  ASSUME NEW m \in Updates, ConsistentUpdate(m), NEW n \in DOMAIN m
  PROVE  After(m)[m[n].e.id] = m[n].e
<1>. DEFINE i == m[n].e.id
            c == CHOOSE p \in DOMAIN m : m[p].e.id = i
<1>1. c \in DOMAIN m /\ m[c].e.id = i
  OBVIOUS
<1>2. c = n
  BY <1>1, ChangesDistinct
<1>3. i \in Id
  BY ChangeType
<1>4. After(m)[i] = m[c].e
  BY <1>3 DEF After
<1>. QED BY <1>2, <1>4

LEMMA AfterElsewhere ==
  ASSUME NEW m, NEW i \in Id, \A n \in DOMAIN m : m[n].e.id # i
  PROVE  /\ (\E n \in DOMAIN m : m[n].oid = i) => After(m)[i] = None
         /\ (\A n \in DOMAIN m : m[n].oid # i) => After(m)[i] = elements[i]
BY DEF After

LEMMA AfterLeaves ==
  ASSUME NEW m \in Updates, ConsistentUpdate(m), NEW n \in DOMAIN m,
         NEW i \in {m[n].oid, Halfway(m[n])}, i # m[n].e.id
  PROVE  After(m)[i] = None
<1>1. i \in Id
  BY ChangeType
<1>2. \A p \in DOMAIN m : m[p].e.id # i
  BY ChangesDistinct
<1>3. CASE i = m[n].oid
  BY <1>1, <1>2, <1>3, AfterElsewhere
<1>4. CASE i # m[n].oid
  <2>1. elements[i] = None
    BY <1>4 DEF ConsistentUpdate, ConsistentChange
  <2>. QED BY <1>1, <1>2, <2>1, AfterElsewhere
<1>. QED BY <1>3, <1>4

(* A link that is seen, and of which m makes none, is one of those m       *)
(* changes.                                                                *)
LEMMA LinkChanged ==
  ASSUME NEW m \in Updates, ConsistentUpdate(m), NEW i \in Id,
         elements[i] # None, IsLink(elements[i]), After(m)[i] # elements[i]
  PROVE  \E n \in DOMAIN m : m[n].oid = i /\ IsLink(m[n].e)
<1>1. CASE \E n \in DOMAIN m : m[n].e.id = i
  <2>1. PICK n \in DOMAIN m : m[n].e.id = i
    BY <1>1
  <2>2. m[n].oid = i /\ elements[i].kind = m[n].e.kind
    BY <2>1 DEF ConsistentUpdate, ConsistentChange
  <2>. QED BY <2>2 DEF IsLink
<1>2. CASE ~ \E n \in DOMAIN m : m[n].e.id = i
  <2>1. PICK n \in DOMAIN m : m[n].oid = i
    BY <1>2, AfterElsewhere
  <2>2. elements[i].kind = m[n].e.kind
    BY <2>1 DEF ConsistentUpdate, ConsistentChange
  <2>. QED BY <2>1, <2>2 DEF IsLink
<1>. QED BY <1>1, <1>2

(* The work that comes of a change.                                        *)
WorkOf(m, n) ==
  [rank |-> n + Len(m) * PlaceClass(m[n]),
   act  |-> IF elements[m[n].oid] = None THEN "create" ELSE "update",
   oid  |-> m[n].oid,
   e    |-> m[n].e]

LEMMA PlaceIsWorkOf ==
  ASSUME NEW m
  PROVE  Place(m) = { WorkOf(m, n) : n \in DOMAIN m }
BY DEF Place, WorkOf

LEMMA WorkOfFields ==
  ASSUME NEW m, NEW n
  PROVE  /\ WorkOf(m, n).oid = m[n].oid /\ WorkOf(m, n).e = m[n].e
         /\ Halfway(WorkOf(m, n)) = Halfway(m[n])
         /\ WorkOf(m, n).act = IF elements[m[n].oid] = None THEN "create" ELSE "update"
         /\ WorkOf(m, n).act # "delete"
         /\ WorkOf(m, n).rank = n + Len(m) * PlaceClass(m[n])
BY DEF WorkOf, Halfway

LEMMA WorkOfRank ==
  ASSUME NEW m \in Updates, NEW n \in DOMAIN m, NEW p \in DOMAIN m,
         ~IsLink(m[n].e), IsLink(m[p].e)
  PROVE  WorkOf(m, n).rank < WorkOf(m, p).rank
<1>1. PlaceClass(m[n]) \in {0, 1} /\ PlaceClass(m[p]) \in {2, 3}
  BY DEF PlaceClass
<1>2. n \in 1..Len(m) /\ p \in 1..Len(m) /\ Len(m) \in Nat
  BY ChangeType
<1>3. \A k \in Nat : k * 0 = 0 /\ k * 1 = k /\ k * 2 = k + k /\ k * 3 = k + k + k
  OBVIOUS
<1>. QED BY <1>1, <1>2, <1>3, WorkOfFields

LEMMA ChangesCompatible ==
  ASSUME NEW m \in Updates, ConsistentUpdate(m), NEW n \in DOMAIN m, NEW p \in DOMAIN m
  PROVE  Compatible(WorkOf(m, n), WorkOf(m, p))
<1>. DEFINE v == WorkOf(m, n)
            w == WorkOf(m, p)
<1>1. /\ v.oid = m[n].oid /\ v.e = m[n].e /\ Halfway(v) = Halfway(m[n]) /\ v.act # "delete"
      /\ w.oid = m[p].oid /\ w.e = m[p].e /\ Halfway(w) = Halfway(m[p]) /\ w.act # "delete"
  BY WorkOfFields
<1>2. ~IsLink(v.e) /\ IsLink(w.e) => v.rank < w.rank
  BY <1>1, WorkOfRank
<1>. HIDE DEF v, w
<1>3. v # w => Distinct(v, w)
  <2>1. v # w => n # p
    BY DEF v, w
  <2>. QED BY <1>1, <2>1, ChangesDistinct DEF Distinct
<1>4. w.e.kind \notin UnsupportedKinds
  BY <1>1 DEF ConsistentUpdate, ConsistentChange
<1>5. ASSUME IsLink(w.e), NEW k \in 1..2
      PROVE  /\ w.e.ends[k].host \notin Leaving(v)
             /\ v.e.id = w.e.ends[k].host => EndFits(w.e.ends[k], v.e)
  <2>1. w.e \in Elements /\ w.e.id \in Id /\ w.e # None /\ After(m)[w.e.id] = w.e
    BY <1>1, ChangeType, AfterGives, ElementAssumption
  <2>2. EndFits(w.e.ends[k], After(m)[w.e.ends[k].host])
    BY <1>5, <2>1 DEF ConsistentUpdate, EndsShown, EndFits
  <2>3. ASSUME w.e.ends[k].host \in Leaving(v)
        PROVE  FALSE
    <3>1. After(m)[w.e.ends[k].host] = None
      BY <1>1, <2>3, AfterLeaves DEF Leaving, Spot
    <3>. QED BY <2>2, <3>1 DEF EndFits
  <2>4. After(m)[v.e.id] = v.e
    BY <1>1, AfterGives
  <2>. QED BY <2>2, <2>3, <2>4
<1>6. Compatible(v, w)
  BY <1>1, <1>2, <1>3, <1>4, <1>5 DEF Compatible, Supports
<1>. QED BY <1>6 DEF v, w

LEMMA KillListOf ==
  ASSUME NEW m
  PROVE  KillList(m) =
           { w.oid : w \in { w \in Place(m) : w.act # "delete" /\ w.e.id # w.oid } }
<1>1. ASSUME NEW n \in DOMAIN m, m[n].e.id # m[n].oid
      PROVE  m[n].oid \in { w.oid : w \in { w \in Place(m) : w.act # "delete" /\ w.e.id # w.oid } }
  <2>1. WorkOf(m, n) \in Place(m)
    BY PlaceIsWorkOf
  <2>2. /\ WorkOf(m, n).oid = m[n].oid /\ WorkOf(m, n).e.id # WorkOf(m, n).oid
        /\ WorkOf(m, n).act # "delete"
    BY <1>1, WorkOfFields
  <2>. QED BY <2>1, <2>2, Zenon
<1>2. ASSUME NEW w \in Place(m), w.e.id # w.oid
      PROVE  w.oid \in KillList(m)
  <2>1. PICK n \in DOMAIN m : w = WorkOf(m, n)
    BY PlaceIsWorkOf
  <2>2. w.oid = m[n].oid /\ m[n].e.id # m[n].oid
    BY <1>2, <2>1, WorkOfFields
  <2>. QED BY <2>2 DEF KillList
<1>. QED BY <1>1, <1>2 DEF KillList

LEMMA UpdateAdmissible ==
  ASSUME IInv, up, NEW h \in Handlers, placed[h] = {},
         NEW m \in Updates, ConsistentUpdate(m), Apart(h, Place(m))
  PROVE  Admissible(h, Place(m), KillList(m))
<1>1. Place(m) \in SUBSET Work
  BY PlaceType DEF IInv
<1>2. ASSUME NEW n \in DOMAIN m
      PROVE  /\ WorkOf(m, n) \in Place(m) /\ WorkOf(m, n) \in Work
             /\ \A i \in Id : i \in Touches(WorkOf(m, n)) => SeenDesign[i] = elements[i]
  <2>1. WorkOf(m, n) \in Place(m)
    BY PlaceIsWorkOf
  <2>. QED BY <1>1, <2>1, ApartSees
<1>3. ASSUME NEW n \in DOMAIN m
      PROVE  Fits(WorkOf(m, n))
  <2>. DEFINE w == WorkOf(m, n)
  <2>1. /\ w.oid = m[n].oid /\ w.e = m[n].e /\ Halfway(w) = Halfway(m[n])
        /\ w.act = IF elements[w.oid] = None THEN "create" ELSE "update"
    BY WorkOfFields
  <2>2. /\ SeenDesign[w.oid] = elements[w.oid]
        /\ SeenDesign[w.e.id] = elements[w.e.id]
        /\ SeenDesign[Halfway(w)] = elements[Halfway(w)]
    BY <1>2, WorkIds
  <2>3. ConsistentChange(m[n])
    BY DEF ConsistentUpdate
  <2>. HIDE DEF w
  <2>4. Fits(w)
    BY <2>1, <2>2, <2>3 DEF ConsistentChange, Fits
  <2>. QED BY <2>4 DEF w
<1>4. ASSUME NEW n \in DOMAIN m, NEW i \in Id, NEW x \in Leaving(WorkOf(m, n)),
             x \in Joins(SeenDesign[i])
      PROVE  \E p \in DOMAIN m : /\ m[p].oid = i /\ Follows(WorkOf(m, p))
  <2>1. SeenDesign[i] = elements[i] /\ elements[i] # None /\ IsLink(elements[i])
    BY <1>4, SeenIsShown DEF Joins
  <2>2. PICK k \in 1..2 : x = elements[i].ends[k].host
    BY <1>4, <2>1 DEF Joins
  <2>3. After(m)[x] = None
    <3>1. x \in {m[n].oid, Halfway(m[n])} /\ x # m[n].e.id
      BY <1>4, WorkOfFields DEF Leaving, Spot
    <3>. QED BY <3>1, AfterLeaves
  <2>4. After(m)[i] # elements[i]
    BY <2>1, <2>2, <2>3 DEF ConsistentUpdate, EndsShown
  <2>5. PICK p \in DOMAIN m : m[p].oid = i /\ IsLink(m[p].e)
    BY <2>1, <2>4, LinkChanged
  <2>. QED BY <2>1, <2>5, WorkOfFields DEF Follows
<1>5. ASSUME NEW n \in DOMAIN m, IsLink(m[n].e), NEW k \in 1..2
      PROVE  LET end == m[n].e.ends[k] IN
             \/ EndFits(end, SeenDesign[end.host])
             \/ \E p \in DOMAIN m : m[p].e.id = end.host
  <2>. DEFINE end == m[n].e.ends[k]
  <2>1. m[n].e \in Elements /\ m[n].e.id \in Id /\ m[n].e # None
    BY ChangeType, ElementAssumption
  <2>2. end.host \in Id
    BY <1>5, <2>1, LinkEnds
  <2>3. EndFits(end, After(m)[end.host])
    <3>1. After(m)[m[n].e.id] = m[n].e
      BY AfterGives
    <3>. QED BY <1>5, <2>1, <3>1 DEF ConsistentUpdate, EndsShown, EndFits
  <2>4. end.host \in Touches(WorkOf(m, n))
    BY <1>5, WorkOfFields DEF Touches
  <2>5. SeenDesign[end.host] = elements[end.host]
    BY <1>2, <2>2, <2>4
  <2>6. CASE \A p \in DOMAIN m : m[p].e.id # end.host
    <3>1. After(m)[end.host] # None
      BY <2>3 DEF EndFits
    <3>2. After(m)[end.host] = elements[end.host]
      BY <2>2, <2>6, <3>1, AfterElsewhere
    <3>. QED BY <2>3, <2>5, <3>2
  <2>. QED BY <2>6
<1>6. \A v, w \in Place(m) : Compatible(v, w)
  BY PlaceIsWorkOf, ChangesCompatible
<1>7. \A w \in Place(m) : w.act # "delete" => Fits(w)
  BY PlaceIsWorkOf, <1>3
<1>8. ASSUME NEW w \in Place(m), NEW i \in Id, Joins(SeenDesign[i]) \cap Leaving(w) # {}
      PROVE  \E v \in Place(m) : Follows(v) /\ v.oid = i
  <2>1. PICK n \in DOMAIN m : w = WorkOf(m, n)
    BY PlaceIsWorkOf
  <2>2. PICK p \in DOMAIN m : m[p].oid = i /\ Follows(WorkOf(m, p))
    BY <1>4, <1>8, <2>1
  <2>. QED BY <1>2, <2>2, WorkOfFields
<1>9. ASSUME NEW w \in Place(m), IsLink(w.e), NEW k \in 1..2
      PROVE  \/ EndFits(w.e.ends[k], SeenDesign[w.e.ends[k].host])
             \/ \E v \in Place(m) : v.e.id = w.e.ends[k].host
  <2>1. PICK n \in DOMAIN m : w = WorkOf(m, n)
    BY PlaceIsWorkOf
  <2>2. w.e = m[n].e
    BY <2>1, WorkOfFields
  <2>3. CASE \E p \in DOMAIN m : m[p].e.id = w.e.ends[k].host
    <3>1. PICK p \in DOMAIN m : m[p].e.id = w.e.ends[k].host
      BY <2>3
    <3>2. WorkOf(m, p) \in Place(m) /\ WorkOf(m, p).e.id = w.e.ends[k].host
      BY <1>2, <3>1, WorkOfFields
    <3>. QED BY <3>2
  <2>. QED BY <1>5, <1>9, <2>2, <2>3
<1>. QED BY <1>6, <1>7, <1>8, <1>9, KillListOf DEF Admissible

LEMMA DeleteAdmissible ==
  ASSUME IInv, up, NEW h \in Handlers, placed[h] = {},
         NEW d \in Deletes, ConsistentDelete(d), Apart(h, Deletion(d))
  PROVE  Admissible(h, Deletion(d), {})
<1>1. Deletion(d) \in SUBSET Work
  BY DeletionType
<1>2. ASSUME NEW w \in Deletion(d)
      PROVE  /\ w.act = "delete" /\ w.oid = w.e.id /\ w.e \in d
             /\ w.e.kind \notin UnsupportedKinds
             /\ elements[w.oid] = w.e
  BY DEF Deletion, ConsistentDelete
<1>3. ASSUME NEW e \in d, e.kind \notin UnsupportedKinds
      PROVE  \E w \in Deletion(d) : w.e = e /\ w.oid = e.id /\ w.act = "delete"
  <2>1. [rank |-> DeleteClass(e), act |-> "delete", oid |-> e.id, e |-> e] \in Deletion(d)
    BY <1>3 DEF Deletion
  <2>. QED BY <2>1
<1>4. ASSUME NEW v \in Deletion(d), NEW w \in Deletion(d)
      PROVE  Compatible(v, w)
  <2>1. ASSUME v # w
        PROVE  v.oid # w.oid
    <3>1. v.oid = w.oid => v.e = w.e
      BY <1>2
    <3>2. v.e = w.e => v = w
      BY DEF Deletion
    <3>. QED BY <2>1, <3>1, <3>2
  <2>2. Halfway(w) = w.oid
    <3>1. w.oid \in Id /\ w.oid = w.e.id
      BY <1>1, <1>2, WorkIds
    <3>. QED BY <3>1 DEF Halfway, Id
  <2>. QED BY <1>2, <2>1, <2>2 DEF Compatible, Distinct
<1>5. ASSUME NEW w \in Deletion(d), NEW i \in Id, Joins(SeenDesign[i]) \cap Leaving(w) # {}
      PROVE  \E v \in Deletion(d) : Follows(v) /\ v.oid = i
  <2>1. SeenDesign[i] = elements[i] /\ elements[i] # None /\ IsLink(elements[i])
    BY <1>5, SeenIsShown DEF Joins
  <2>2. PICK k \in 1..2 : w.oid = elements[i].ends[k].host
    BY <1>2, <1>5, <2>1 DEF Joins, Leaving
  <2>3. w.oid \in Id /\ Without(d)[w.oid] = None
    BY <1>1, <1>2, WorkIds DEF Without
  <2>4. Without(d)[i] # elements[i]
    BY <2>1, <2>2, <2>3 DEF ConsistentDelete, EndsShown
  <2>5. PICK e \in d : e.id = i
    BY <2>4 DEF Without
  <2>6. elements[i] = e
    BY <2>5 DEF ConsistentDelete
  <2>7. e.kind \notin UnsupportedKinds
    BY <2>1, <2>6 DEF IsLink, LinkKinds, UnsupportedKinds
  <2>. QED BY <1>3, <2>5, <2>7 DEF Follows
<1>. QED BY <1>2, <1>4, <1>5 DEF Admissible

---------------------------------------------------------------------------
(* Steps after which clients see the design they saw.                      *)

LEMMA FitsStays ==
  ASSUME SeenDesign' = SeenDesign, systems \subseteq systems', NEW w, Fits(w)
  PROVE  Fits(w)'
BY DEF Fits, Halfway, NoInterfaces

(* Every handler keeps its work, or has done with it.                      *)
LEMMA ViewStays ==
  ASSUME MapView, systems \subseteq systems',
         \A g \in Handlers : placed'[g] \in {placed[g], {}},
         \A g \in Handlers : \/ Undone(g)' = {}
                             \/ Undone(g)' = Undone(g) /\ SeenDesign' = SeenDesign
  PROVE  Messages' /\ KeptApart' /\ Fitting' /\ Followed' /\ Founded'
<1>1. ASSUME NEW g \in Handlers, NEW w \in placed'[g]
      PROVE  w \in placed[g]
  BY <1>1
<1>2. Messages'
  BY <1>1 DEF MapView, Messages
<1>3. KeptApart'
  BY <1>1 DEF MapView, KeptApart
<1>4. ASSUME NEW g \in Handlers, NEW w \in Undone(g)'
      PROVE  /\ SeenDesign' = SeenDesign
             /\ Undone(g)' = Undone(g)
             /\ w \in Undone(g)
  BY <1>4
<1>5. Fitting'
  BY <1>4, FitsStays DEF MapView, Fitting
<1>6. ASSUME NEW g \in Handlers, NEW w \in Undone(g)', NEW i \in Id,
             Joins(SeenDesign[i])' \cap Leaving(w)' # {}
      PROVE  \E v \in Undone(g)' : Follows(v) /\ v.oid = i
  <2>1. Joins(SeenDesign[i]) \cap Leaving(w) # {}
    BY <1>4, <1>6 DEF Joins, Leaving, Spot, Halfway
  <2>. QED BY <1>4, <1>6, <2>1 DEF MapView, Followed
<1>7. Followed'
  BY <1>6 DEF Followed, Follows
<1>8. Founded'
  BY SMTT(30), <1>4 DEF MapView, Founded, EndFits
<1>. QED BY <1>2, <1>3, <1>5, <1>7, <1>8

(* Of the other handlers a step changes nothing.                           *)
LEMMA OthersUndone ==
  ASSUME NEW g \in Handlers, pc'[g] = pc[g], item'[g] = item[g], pending'[g] = pending[g]
  PROVE  AtHand(g)' = AtHand(g) /\ Undone(g)' = Undone(g)
BY DEF AtHand, Undone

LEMMA StatementShape ==
  ASSUME IInv, NEW h \in Handlers, Statement(h) \/ DbFault(h)
  PROVE  /\ UNCHANGED <<up, elements, pending, kills, item, old, placed>>
         /\ pc[h] \in DbStages /\ pc'[h] \in Stages \ {"idle", "apply", "drop"}
         /\ pc'[h] = "hide" <=> pc[h] = "drop"
         /\ \A g \in Handlers : g # h => /\ pc'[g] = pc[g] /\ key'[g] = key[g]
                                        /\ left'[g] = left[g]
         /\ systems \subseteq systems'
<1>. USE DEF DbStages, Stages
<1>1. ASSUME NEW from, NEW to, DbStep(h, from, to)
      PROVE  /\ UNCHANGED <<up, elements, pending, kills, item, old, placed>>
             /\ pc[h] = from /\ pc'[h] = to
             /\ \A g \in Handlers : g # h => pc'[g] = pc[g]
  BY <1>1 DEF DbStep, Go, IInv, TypeOK
<1>2. \A sys : SysStage(sys) \in {"sys", "newsys"}
  BY DEF SysStage
<1>3. NameStage(h) \in {"name", "row"}
  BY DEF NameStage
<1>4. CASE StoreId(h) \/ FindId(h)
  <2>1. /\ \A g \in Handlers : g # h => key'[g] = key[g] /\ left'[g] = left[g]
        /\ systems' = systems
    BY <1>4 DEF StoreId, FindId, CreateId, tables, IInv, TypeOK
  <2>2. \E to \in {"newsys", "sys", "name", "row"} : DbStep(h, "id", to)
    BY <1>2, <1>3, <1>4 DEF StoreId, FindId
  <2>. QED BY <1>1, <2>1, <2>2
<1>5. CASE StoreSystem(h) \/ MoveId(h) \/ RenameId(h)
  <2>1. key' = key /\ left' = left /\ systems \subseteq systems'
    BY <1>5 DEF StoreSystem, MoveId, RenameId, CreateSystem, MoveToSystem, Rename
  <2>2. \E from \in {"newsys", "sys", "name"}, to \in {"sys", "name", "row"} :
          DbStep(h, from, to)
    BY <1>3, <1>5 DEF StoreSystem, MoveId, RenameId
  <2>. QED BY <1>1, <2>1, <2>2
<1>6. CASE StoreInterface(h) \/ StoreRow(h)
  <2>1. /\ \A g \in Handlers : g # h => key'[g] = key[g] /\ left'[g] = left[g]
        /\ systems' = systems
    BY <1>6 DEF StoreInterface, StoreRow, CreateInterface, InsertLink, InsertHost, IInv, TypeOK
  <2>2. \E to \in {"row", "show"} : DbStep(h, "row", to)
    BY <1>6 DEF StoreInterface, StoreRow
  <2>. QED BY <1>1, <2>1, <2>2
<1>7. CASE UpdateRow(h) \/ UpdateEnds(h)
  <2>1. key' = key /\ left' = left /\ systems' = systems
    BY <1>7 DEF UpdateRow, UpdateEnds, UpdateHostRow, UpdateLinkRow, UpdatePlinkRow, UpdateLinkEnds
  <2>2. \E from \in {"row", "ends"}, to \in {"ends", "show"} : DbStep(h, from, to)
    BY <1>7 DEF UpdateRow, UpdateEnds
  <2>. QED BY <1>1, <2>1, <2>2
<1>8. CASE DropId(h)
  <2>1. key' = key /\ left' = left /\ systems' = systems /\ DbStep(h, "drop", "hide")
    BY <1>8 DEF DropId, DeleteId
  <2>. QED BY <1>1, <2>1
<1>9. CASE Refuse(h)
  <2>1. /\ \A g \in Handlers : g # h => key'[g] = key[g] /\ left'[g] = left[g]
        /\ systems' = systems
    BY <1>9 DEF Refuse, Fail, SkipInterface, tables, IInv, TypeOK
  <2>2. \E to \in {"row", "show"} : DbStep(h, pc[h], to)
    BY <1>9 DEF Refuse, Fail, SkipInterface
  <2>3. pc[h] \in {"id", "newsys", "sys", "name", "row", "ends"}
    BY <1>9 DEF Refuse, Refused
  <2>. QED BY <1>1, <2>1, <2>2, <2>3
<1>10. CASE DbFault(h)
  BY <1>10 DEF DbFault, tables, IInv, TypeOK
<1>. QED BY <1>4, <1>5, <1>6, <1>7, <1>8, <1>9, <1>10 DEF Statement

LEMMA StatementMap ==
  ASSUME IInv, MapView, NEW h \in Handlers, Statement(h) \/ DbFault(h)
  PROVE  /\ MapView' /\ SeenDesign' = SeenDesign
         /\ \A g \in Handlers : AtHand(g)' = AtHand(g) /\ Undone(g)' = Undone(g)
<1>. USE DEF DbStages
<1>1. up /\ up'
  BY StatementShape DEF MapView, Handling
<1>2. \A g \in Handlers : /\ AtHand(g)' = AtHand(g) /\ Undone(g)' = Undone(g)
                          /\ Shown(g)' = Shown(g)
  BY StatementShape DEF AtHand, Undone, Shown
<1>3. Replaced' = Replaced
  BY <1>2 DEF Replaced
<1>4. SeenDesign' = SeenDesign
  BY <1>1, <1>3, StatementShape, SeenStays
<1>5. Messages' /\ KeptApart' /\ Fitting' /\ Followed' /\ Founded'
  BY <1>2, <1>4, StatementShape, ViewStays
<1>6. OldSeen'
  BY <1>4, StatementShape DEF MapView, OldSeen
<1>7. Handling'
  <2>1. ASSUME NEW g \in Handlers
        PROVE  /\ pc[g] \in {"drop", "hide"} => item[g].act = "delete"
               /\ pc[g] \in Stages \ {"idle", "apply", "drop", "hide"} => item[g].act # "delete"
               /\ pc[g] \in Stages
    BY DEF MapView, Handling, IInv, TypeOK
  <2>2. ASSUME NEW g \in Handlers
        PROVE  /\ pc'[g] \in {"drop", "hide"} => item'[g].act = "delete"
               /\ pc'[g] \in Stages \ {"idle", "apply", "drop", "hide"} => item'[g].act # "delete"
               /\ pc'[g] = "idle" <=> pc[g] = "idle"
    BY <2>1, StatementShape DEF Stages
  <2>. QED BY <1>1, <1>2, <2>2, StatementShape DEF MapView, Handling
<1>. QED BY <1>2, <1>4, <1>5, <1>6, <1>7 DEF MapView

(* A handler takes work up.                                                *)
Begun(h, w) ==
  /\ pc[h] = "apply" /\ pc'[h] = (IF w.act = "delete" THEN "drop" ELSE "id")
  /\ AtHand(h) = {} /\ AtHand(h)' = {w} /\ item'[h] = w
  /\ pending'[h] = pending[h] \ {w}
  /\ w.act = "update" => old'[h] = SeenDesign[w.oid]
  /\ spoiled' = spoiled \cup (IF Good(w) THEN {} ELSE Spot(w))
  /\ \A g \in Handlers : g # h =>
       /\ pc'[g] = pc[g] /\ item'[g] = item[g] /\ old'[g] = old[g]
       /\ pending'[g] = pending[g] /\ AtHand(g)' = AtHand(g)
  /\ \A g \in Handlers : Undone(g)' = Undone(g)
  /\ SeenDesign' = SeenDesign
  /\ UNCHANGED <<tables, up, elements, kills, key, left, placed, counters>>

LEMMA BeginFacts ==
  ASSUME IInv, MapView, NEW h \in Handlers,
         BeginCreate(h) \/ BeginUpdate(h) \/ BeginDelete(h)
  PROVE  \E w \in NextWork(h) : Begun(h, w)
<1>1. PICK w \in NextWork(h), to \in {"show", "id", "drop"} :
        /\ Take(h, w, to)
        /\ w.act = "update" => old' = [old EXCEPT ![h] = elements[w.oid]]
        /\ w.act # "update" => old' = old
        /\ w.act = "delete" => to = "drop"
        /\ w.act # "delete" =>
             to = IF \/ w.act = "update" /\ elements[w.oid] = None
                     \/ w.e.kind \in UnsupportedKinds
                  THEN "show" ELSE "id"
  BY DEF BeginCreate, BeginUpdate, BeginDelete
<1>2. /\ pc[h] = "apply" /\ pc'[h] = to /\ item'[h] = w
      /\ pending'[h] = pending[h] \ {w} /\ w \in pending[h]
      /\ \A g \in Handlers : g # h => pc'[g] = pc[g] /\ item'[g] = item[g] /\ pending'[g] = pending[g]
      /\ UNCHANGED <<tables, up, elements, kills, key, left, placed, counters>>
      /\ spoiled' = spoiled \cup (IF Good(w) THEN {} ELSE Spot(w))
  BY <1>1 DEF Take, Go, NextWork, IInv, TypeOK, Good
<1>3. up
  BY <1>2 DEF MapView, Handling
<1>4. w \in placed[h] /\ w \in Undone(h) /\ w \in Work
  BY <1>2 DEF MapView, Handling, Undone, IInv, TypeOK
<1>5. w.e.kind \notin UnsupportedKinds /\ w.act # "delete" => Fits(w)
  BY <1>4 DEF MapView, Messages, Compatible, Fitting
<1>6. w.act = "update" => elements[w.oid] # None /\ SeenDesign[w.oid] = elements[w.oid]
  BY <1>3, <1>4, <1>5, WorkIds, SeenIsShown
     DEF Fits, MapView, Messages, Compatible, Fitting
<1>7. pc'[h] = IF w.act = "delete" THEN "drop" ELSE "id"
  BY <1>1, <1>2, <1>4, <1>6 DEF MapView, Messages, Compatible
<1>8. AtHand(h) = {} /\ AtHand(h)' = {w}
  BY <1>2, <1>7 DEF AtHand
<1>9. \A g \in Handlers : g # h => AtHand(g)' = AtHand(g)
  BY <1>2 DEF AtHand
<1>10. \A g \in Handlers : Undone(g)' = Undone(g) /\ Shown(g)' = Shown(g)
  BY <1>2, <1>8, <1>9 DEF Undone, Shown
<1>11. Replaced' = Replaced
  BY <1>10 DEF Replaced
<1>12. SeenDesign' = SeenDesign
  BY <1>2, <1>3, <1>11, SeenStays
<1>13. /\ w.act = "update" => old'[h] = SeenDesign[w.oid]
       /\ \A g \in Handlers : g # h => old'[g] = old[g]
  BY <1>1, <1>6 DEF IInv, TypeOK
<1>. QED BY <1>1, <1>2, <1>7, <1>8, <1>9, <1>10, <1>12, <1>13 DEF Begun

LEMMA BeginMap ==
  ASSUME IInv, MapView, NEW h \in Handlers, NEW w \in NextWork(h), Begun(h, w)
  PROVE  MapView'
<1>. USE DEF Begun
<1>1. up /\ up' /\ w \in pending[h] /\ \A v \in pending[h] : w.rank <= v.rank
  BY DEF MapView, Handling, NextWork
<1>2. Messages' /\ KeptApart' /\ Fitting' /\ Followed' /\ Founded'
  BY ViewStays DEF tables
<1>3. OldSeen'
  BY DEF MapView, OldSeen
<1>4. ASSUME NEW g \in Handlers
      PROVE  /\ pc'[g] = "idle" <=> pc[g] = "idle"
             /\ pc'[g] \in {"drop", "hide"} => item'[g].act = "delete"
             /\ pc'[g] \in Stages \ {"idle", "apply", "drop", "hide"} => item'[g].act # "delete"
             /\ AtHand(g)' \cap pending'[g] = {}
             /\ \A v \in pending'[g], u \in AtHand(g)' : u.act # "delete" => u.rank <= v.rank
             /\ pending'[g] = pending[g] \/ pc[g] # "idle"
  <2>1. CASE g = h
    BY <1>1, <2>1
  <2>2. CASE g # h
    BY <2>2 DEF MapView, Handling
  <2>. QED BY <2>1, <2>2
<1>5. Handling'
  BY <1>1, <1>4 DEF MapView, Handling
<1>. QED BY <1>2, <1>3, <1>5 DEF MapView

(* A handler that has begun nothing receives a message.                    *)
LEMMA ReceiveMap ==
  ASSUME IInv, MapView, up, NEW h \in Handlers, pc[h] = "idle",
         NEW work \in SUBSET Work, NEW ks, Receive(h, work, ks), Admissible(h, work, ks)
  PROVE  /\ MapView' /\ SeenDesign' = SeenDesign
         /\ pending'[h] = work /\ AtHand(h) = {} /\ pending[h] = {}
         /\ placed'[h] = work
         /\ \A g \in Handlers : AtHand(g)' = AtHand(g)
         /\ \A g \in Handlers : g # h => /\ pending'[g] = pending[g] /\ pc'[g] = pc[g]
                                        /\ placed'[g] = placed[g]
         /\ pc'[h] = "apply"
<1>1. /\ pc'[h] = "apply" /\ pending'[h] = work /\ placed'[h] = work /\ kills'[h] = ks
      /\ \A g \in Handlers : g # h =>
           /\ pc'[g] = pc[g] /\ pending'[g] = pending[g] /\ placed'[g] = placed[g]
           /\ kills'[g] = kills[g]
      /\ UNCHANGED <<tables, up, elements, item, old>>
  BY DEF Receive, IInv, TypeOK
<1>2. pending[h] = {} /\ placed[h] = {} /\ AtHand(h) = {} /\ AtHand(h)' = {}
  BY <1>1 DEF MapView, Handling, AtHand
<1>3. \A g \in Handlers : g # h => AtHand(g)' = AtHand(g)
  BY <1>1 DEF AtHand
<1>4. Undone(h)' = work /\ \A g \in Handlers : g # h => Undone(g)' = Undone(g)
  BY <1>1, <1>2, <1>3 DEF Undone
<1>5. \A g \in Handlers : Shown(g)' = Shown(g)
  BY <1>1, <1>2, <1>3 DEF Shown
<1>6. SeenDesign' = SeenDesign
  <2>1. Replaced' = Replaced
    BY <1>5 DEF Replaced
  <2>. QED BY <1>1, <2>1, SeenStays
<1>7. systems' = systems
  BY <1>1 DEF tables
<1>8. Messages'
  BY <1>1 DEF MapView, Messages, Admissible
<1>9. KeptApart'
  <2>1. ASSUME NEW g \in Handlers, g # h, NEW v \in placed[g], NEW w \in work
        PROVE  /\ Touches(v) \cap Touches(w) = {}
               /\ w.e.id.sys \notin systems => v.e.id.sys # w.e.id.sys
    BY <2>1 DEF Admissible, Apart
  <2>. QED BY <1>1, <1>7, <2>1 DEF MapView, KeptApart
<1>10. Fitting'
  BY <1>4, <1>6, <1>7, FitsStays DEF MapView, Fitting, Admissible
<1>11. ASSUME NEW g \in Handlers, NEW w \in Undone(g)', NEW i \in Id,
              Joins(SeenDesign[i])' \cap Leaving(w) # {}
       PROVE  \E v \in Undone(g)' : Follows(v) /\ v.oid = i
  <2>1. Joins(SeenDesign[i]) \cap Leaving(w) # {}
    BY <1>6, <1>11 DEF Joins
  <2>. QED BY <1>4, <1>11, <2>1 DEF MapView, Followed, Admissible
<1>12. Followed'
  BY <1>11 DEF Followed
<1>13. Founded'
  <2>1. ASSUME NEW g \in Handlers, NEW w \in Undone(g)', w.act # "delete", IsLink(w.e),
               NEW n \in 1..2
        PROVE  \/ EndFits(w.e.ends[n], SeenDesign[w.e.ends[n].host])
               \/ \E v \in Undone(g)' : v.e.id = w.e.ends[n].host
    <3>1. CASE g = h
      BY <1>4, <2>1, <3>1 DEF Admissible
    <3>2. CASE g # h
      BY <1>4, <2>1, <3>2 DEF MapView, Founded
    <3>. QED BY <3>1, <3>2
  <2>. QED BY <1>6, <2>1 DEF Founded
<1>14. OldSeen'
  BY <1>1, <1>6 DEF MapView, OldSeen
<1>15. Handling'
  BY <1>1, <1>2, <1>3, <1>4 DEF MapView, Handling, Admissible
<1>. QED BY <1>1, <1>2, <1>3, <1>6, <1>8, <1>9, <1>10, <1>12, <1>13, <1>14, <1>15 DEF MapView

---------------------------------------------------------------------------
(* A handler shows its work, or hides it.                                  *)

Done(h, w) ==
  /\ up /\ pc[h] \in {"show", "hide"} /\ pc'[h] = "apply" /\ item[h] = w
  /\ pc[h] = "hide" <=> w.act = "delete"
  /\ w \in placed[h] /\ w \notin pending[h] /\ w \in Undone(h)
  /\ AtHand(h) = {w} /\ AtHand(h)' = {} /\ Undone(h)' = Undone(h) \ {w}
  /\ \A g \in Handlers : g # h =>
       pc'[g] = pc[g] /\ AtHand(g)' = AtHand(g) /\ Undone(g)' = Undone(g)
  /\ UNCHANGED <<tables, up, pending, kills, item, old, key, left, placed, spoiled, counters>>
  /\ \A i \in Id :
       SeenDesign'[i] = IF w.act # "delete" /\ i = w.e.id THEN w.e
                        ELSE IF i = w.oid THEN None ELSE SeenDesign[i]

LEMMA DoneFacts ==
  ASSUME IInv, MapView, NEW h \in Handlers, Show(h) \/ Hide(h)
  PROVE  Done(h, item[h]) /\ item[h] \in Work
<1>. DEFINE w == item[h]
<1>1. /\ pc[h] \in {"show", "hide"} /\ pc'[h] = "apply"
      /\ \A g \in Handlers : g # h => pc'[g] = pc[g]
      /\ UNCHANGED <<tables, up, pending, kills, item, old, key, left, placed, spoiled, counters>>
  BY DEF Show, Hide, Go, IInv, TypeOK
<1>2. w \in Work /\ up
  BY <1>1, ItemType DEF IInv, MapView, Handling
<1>3. pc[h] = "hide" <=> w.act = "delete"
  BY <1>1 DEF MapView, Handling, Stages, DbStages
<1>4. AtHand(h) = {w} /\ AtHand(h)' = {}
  BY <1>1 DEF AtHand
<1>5. \A g \in Handlers : g # h => AtHand(g)' = AtHand(g) /\ Undone(g)' = Undone(g) /\ Shown(g)' = Shown(g)
  BY <1>1 DEF AtHand, Undone, Shown
<1>6. w \in placed[h] /\ w \notin pending[h] /\ w \in Undone(h)
  BY <1>4 DEF MapView, Handling, Undone
<1>7. Undone(h)' = Undone(h) \ {w}
  BY <1>1, <1>4, <1>6 DEF Undone
<1>8. Shown(h)' = Shown(h) \cup {w}
  BY <1>1, <1>4, <1>6 DEF Shown
<1>9. w.oid \in Id /\ w.e.id \in Id
  BY <1>2, WorkIds
<1>10. Shown(h) \subseteq placed[h] /\ \A g \in Handlers : Shown(g) \subseteq placed[g]
  BY DEF Shown
<1>. HIDE DEF w
<1>11. CASE w.act = "delete"
  <2>1. elements' = [elements EXCEPT ![w.oid] = None]
    BY <1>1, <1>3, <1>11 DEF Show, Hide, Go, w
  <2>2. Replaced' = Replaced
    <3>1. \A g \in Handlers : \A v : v.act # "delete" => (v \in Shown(g)' <=> v \in Shown(g))
      BY <1>5, <1>8, <1>11
    <3>. QED BY <3>1 DEF Replaced
  <2>3. ASSUME NEW i \in Id
        PROVE  SeenDesign'[i] = IF i = w.oid THEN None ELSE SeenDesign[i]
    BY <1>1, <1>2, <1>9, <2>1, <2>2 DEF SeenDesign, IInv, TypeOK
  <2>. QED BY <1>1, <1>2, <1>3, <1>4, <1>5, <1>6, <1>7, <1>11, <2>3 DEF Done, w
<1>12. CASE w.act # "delete"
  <2>1. elements' = [elements EXCEPT ![w.e.id] = w.e]
    BY <1>1, <1>3, <1>12 DEF Show, Hide, Go, w
  <2>2. ASSUME NEW i
        PROVE  i \in Replaced' <=> i \in Replaced \/ (i = w.oid /\ w.oid # w.e.id)
    <3>1. \A v : v \in UNION { Shown(g)' : g \in Handlers }
                 <=> v \in UNION { Shown(g) : g \in Handlers } \/ v = w
      BY <1>5, <1>8
    <3>. QED BY <1>12, <3>1 DEF Replaced
  <2>3. w.e.id \notin Replaced
    <3>1. ASSUME w.e.id \in Replaced
          PROVE  FALSE
      <4>1. PICK g \in Handlers : \E v \in Shown(g) : v.oid = w.e.id /\ v.oid # v.e.id
        BY <3>1 DEF Replaced
      <4>2. PICK v \in placed[g] : v.oid = w.e.id /\ v.oid # v.e.id
        BY <1>10, <4>1
      <4>3. v \in Work
        BY DEF IInv, TypeOK
      <4>4. CASE g = h
        BY <1>6, <4>2, <4>4 DEF MapView, Messages, Compatible, Distinct
      <4>5. CASE g # h
        <5>1. w.e.id \in Touches(v) /\ w.e.id \in Touches(w)
          BY <1>2, <4>2, <4>3, WorkIds DEF w
        <5>. QED BY <1>6, <4>5, <5>1 DEF MapView, KeptApart
      <4>. QED BY <4>4, <4>5
    <3>. QED BY <3>1
  <2>4. ASSUME NEW i \in Id
        PROVE  SeenDesign'[i] = IF i = w.e.id THEN w.e
                                ELSE IF i = w.oid THEN None ELSE SeenDesign[i]
    BY <1>1, <1>2, <1>9, <2>1, <2>2, <2>3 DEF SeenDesign, IInv, TypeOK
  <2>. QED BY <1>1, <1>2, <1>3, <1>4, <1>5, <1>6, <1>7, <1>12, <2>4 DEF Done, w
<1>. QED BY <1>11, <1>12

(* What others are to do, and what else the handler is, does not meet the  *)
(* work that is done.                                                      *)
LEMMA DoneElsewhere ==
  ASSUME IInv, MapView, NEW h \in Handlers, NEW w \in Work, Done(h, w),
         NEW g \in Handlers, NEW u \in Undone(g)', u.act # "delete"
  PROVE  /\ u \in placed[g] /\ u \in Undone(g) /\ u \in Work
         /\ SeenDesign'[u.oid] = SeenDesign[u.oid]
         /\ SeenDesign[u.e.id] = None => SeenDesign'[u.e.id] = None
         /\ SeenDesign[Halfway(u)] = None => SeenDesign'[Halfway(u)] = None
<1>1. u \in placed[g] /\ u \in Undone(g) /\ w \in placed[h] /\ (g = h => u # w)
  BY DEF Done, MapView, Handling
<1>2. u \in Work
  BY <1>1 DEF IInv, TypeOK
<1>3. CASE g = h
  <2>1. /\ u.oid # w.oid /\ u.e.id # w.e.id /\ w.e.id # u.oid /\ w.e.id # Halfway(u)
        /\ u.e.id # w.oid /\ u.act # "delete"
    BY <1>1, <1>3 DEF MapView, Messages, Compatible, Distinct
  <2>. QED BY <1>1, <1>2, <2>1, WorkIds DEF Done
<1>4. CASE g # h
  <2>1. {u.oid, u.e.id, Halfway(u)} \cap {w.oid, w.e.id} = {}
    BY <1>1, <1>2, <1>4, WorkIds DEF MapView, KeptApart
  <2>. QED BY <1>1, <1>2, <2>1, WorkIds DEF Done
<1>. QED BY <1>3, <1>4

LEMMA DoneMap ==
  ASSUME IInv, MapView, NEW h \in Handlers, NEW w \in Work, Done(h, w)
  PROVE  MapView'
<1>1. /\ \A g \in Handlers : Undone(g)' \subseteq Undone(g) /\ Undone(g) \subseteq placed[g]
      /\ placed' = placed /\ systems' = systems /\ w \in placed[h]
  BY DEF Done, tables, MapView, Handling
<1>2. Messages' /\ KeptApart'
  BY <1>1 DEF MapView, Messages, KeptApart
<1>3. Fitting'
  <2>1. ASSUME NEW g \in Handlers, NEW u \in Undone(g)', u.act # "delete"
        PROVE  Fits(u)'
    <3>1. u \in Undone(g) /\ Fits(u)
      BY <2>1, DoneElsewhere DEF MapView, Fitting
    <3>2. SeenDesign'[u.oid] = SeenDesign[u.oid]
      BY <2>1, DoneElsewhere
    <3>3. /\ SeenDesign[u.e.id] = None => SeenDesign'[u.e.id] = None
          /\ SeenDesign[Halfway(u)] = None => SeenDesign'[Halfway(u)] = None
      BY <2>1, DoneElsewhere
    <3>. QED BY <1>1, <3>1, <3>2, <3>3 DEF Fits
  <2>. QED BY <2>1 DEF Fitting
<1>4. Followed'
  <2>1. ASSUME NEW g \in Handlers, NEW u \in Undone(g)', NEW i \in Id, NEW x \in Leaving(u),
               x \in Joins(SeenDesign'[i])
        PROVE  \E v \in Undone(g)' : Follows(v) /\ v.oid = i
    <3>1. u \in placed[g] /\ u \in Undone(g) /\ u \in Work
      BY <1>1, <2>1 DEF IInv, TypeOK
    <3>2. x \in Touches(u)
      BY <3>1, WorkIds
    <3>3. ASSUME w.act # "delete", i = w.e.id
          PROVE  FALSE
      <4>1. IsLink(w.e) /\ \E n \in 1..2 : x = w.e.ends[n].host
        BY <2>1, <3>3 DEF Done, Joins
      <4>2. CASE g = h
        BY <1>1, <3>1, <3>3, <4>1, <4>2 DEF MapView, Messages, Compatible, Supports
      <4>3. CASE g # h
        BY <1>1, <3>1, <3>2, <4>1, <4>3, WorkIds DEF MapView, KeptApart
      <4>. QED BY <4>2, <4>3
    <3>4. i # w.oid /\ SeenDesign'[i] = SeenDesign[i]
      BY <2>1, <3>3 DEF Done, Joins
    <3>5. PICK v \in Undone(g) : Follows(v) /\ v.oid = i
      BY <2>1, <3>1, <3>4 DEF MapView, Followed
    <3>6. v \in Undone(g)'
      BY <3>4, <3>5 DEF Done
    <3>. QED BY <3>5, <3>6
  <2>. QED BY <2>1 DEF Followed
<1>5. Founded'
  <2>1. ASSUME NEW g \in Handlers, NEW u \in Undone(g)', u.act # "delete", IsLink(u.e),
               NEW n \in 1..2
        PROVE  \/ EndFits(u.e.ends[n], SeenDesign'[u.e.ends[n].host])
               \/ \E v \in Undone(g)' : v.e.id = u.e.ends[n].host
    <3>. DEFINE x == u.e.ends[n].host
    <3>1. u \in placed[g] /\ u \in Undone(g) /\ u \in Work
      BY <2>1, DoneElsewhere
    <3>2. x \in Id /\ x \in Touches(u)
      BY <2>1, <3>1, LinkEnds, WorkIds
    <3>3. CASE g # h
      <4>1. x # w.oid /\ x # w.e.id
        BY <1>1, <3>1, <3>2, <3>3, WorkIds DEF MapView, KeptApart
      <4>2. SeenDesign'[x] = SeenDesign[x] /\ Undone(g)' = Undone(g)
        BY <3>2, <3>3, <4>1 DEF Done
      <4>. QED BY <2>1, <3>1, <4>2 DEF MapView, Founded
    <3>4. CASE g = h
      <4>1. /\ w.act # "delete" /\ x \notin Leaving(w)
            /\ w.e.id = x => EndFits(u.e.ends[n], w.e)
        BY <1>1, <2>1, <3>1, <3>4 DEF MapView, Messages, Compatible, Supports
      <4>2. CASE x = w.e.id
        <5>1. SeenDesign'[x] = w.e
          BY <3>2, <4>1, <4>2 DEF Done
        <5>. QED BY <4>1, <4>2, <5>1
      <4>3. CASE x # w.e.id
        <5>1. x # w.oid
          BY <4>1, <4>3 DEF Leaving, Spot
        <5>2. SeenDesign'[x] = SeenDesign[x]
          BY <3>2, <4>3, <5>1 DEF Done
        <5>3. \A v \in Undone(g) : v.e.id = x => v \in Undone(g)'
          BY <3>4, <4>3 DEF Done
        <5>. QED BY <2>1, <3>1, <5>2, <5>3 DEF MapView, Founded
      <4>. QED BY <4>2, <4>3
    <3>. QED BY <3>3, <3>4
  <2>. QED BY <2>1 DEF Founded
<1>6. OldSeen'
  <2>1. ASSUME NEW g \in Handlers, pc'[g] \notin {"idle", "apply"}, item'[g].act = "update"
        PROVE  old'[g] = SeenDesign'[item'[g].oid]
    <3>1. g # h /\ pc'[g] = pc[g] /\ item' = item /\ old' = old
      BY <2>1 DEF Done
    <3>2. item[g] \in Undone(g)'
      BY <2>1, <3>1 DEF AtHand, Undone
    <3>3. SeenDesign'[item[g].oid] = SeenDesign[item[g].oid]
      BY <2>1, <3>1, <3>2, DoneElsewhere
    <3>. QED BY <2>1, <3>1, <3>3 DEF MapView, OldSeen
  <2>. QED BY <2>1 DEF OldSeen
<1>7. Handling'
  BY <1>1 DEF Done, MapView, Handling
<1>. QED BY <1>2, <1>3, <1>4, <1>5, <1>6, <1>7 DEF MapView

---------------------------------------------------------------------------
(* The end of a message, and of the process.                               *)

LEMMA NoTypePanic ==
  ASSUME IInv, MapView, NEW h \in Handlers, TypePanic(h)
  PROVE  FALSE
<1>1. PICK w \in pending[h] : /\ w.act = "update" /\ elements[w.oid] # None
                              /\ elements[w.oid].kind # w.e.kind
  BY DEF TypePanic, NextWork
<1>2. up /\ w \in Undone(h) /\ w \in Work
  BY <1>1 DEF TypePanic, Go, MapView, Handling, Undone, IInv, TypeOK
<1>3. SeenDesign[w.oid] # None /\ SeenDesign[w.oid].kind = w.e.kind
  BY <1>1, <1>2 DEF MapView, Fitting, Fits
<1>. QED BY <1>1, <1>2, <1>3, SeenIsShown, WorkIds

LEMMA FinishMap ==
  ASSUME IInv, MapView, NEW h \in Handlers, Finish(h)
  PROVE  /\ MapView' /\ SeenDesign' = SeenDesign
         /\ \A g \in Handlers : AtHand(g)' = AtHand(g) /\ Undone(g)' = Undone(g)
         /\ pending' = pending /\ pc[h] = "apply" /\ pc'[h] = "idle"
         /\ \A g \in Handlers : g # h => /\ pc'[g] = pc[g] /\ item'[g] = item[g]
                                        /\ old'[g] = old[g] /\ key'[g] = key[g]
                                        /\ left'[g] = left[g] /\ placed'[g] = placed[g]
         /\ UNCHANGED <<tables, spoiled, up>>
<1>1. /\ pc[h] = "apply" /\ pc'[h] = "idle" /\ pending[h] = {}
      /\ pending'[h] = {} /\ placed'[h] = {} /\ kills'[h] = {}
      /\ \A g \in Handlers : g # h =>
           /\ pc'[g] = pc[g] /\ item'[g] = item[g] /\ old'[g] = old[g] /\ key'[g] = key[g]
           /\ left'[g] = left[g] /\ placed'[g] = placed[g] /\ pending'[g] = pending[g]
           /\ kills'[g] = kills[g]
      /\ UNCHANGED <<tables, spoiled, up>>
      /\ elements' = [i \in Id |-> IF i \in kills[h] THEN None ELSE elements[i]]
  BY DEF Finish, EndHandler, Go, IInv, TypeOK
<1>2. pending' = pending
  <2>1. \A g \in Handlers : pending'[g] = pending[g]
    BY <1>1
  <2>2. pending' = [pending EXCEPT ![h] = {}]
    BY DEF Finish, EndHandler
  <2>. QED BY <1>1, <2>2 DEF IInv, TypeOK
<1>3. up
  BY <1>1 DEF MapView, Handling
<1>4. AtHand(h) = {} /\ AtHand(h)' = {}
  BY <1>1 DEF AtHand
<1>5. \A g \in Handlers : g # h => AtHand(g)' = AtHand(g) /\ Shown(g)' = Shown(g)
  BY <1>1 DEF AtHand, Shown
<1>6. \A g \in Handlers : AtHand(g)' = AtHand(g) /\ Undone(g)' = Undone(g)
  BY <1>2, <1>4, <1>5 DEF Undone
<1>7. Shown(h) = placed[h] /\ Shown(h)' = {}
  BY <1>1, <1>4 DEF Shown
<1>8. kills[h] = { w.oid : w \in { w \in placed[h] : w.act # "delete" /\ w.e.id # w.oid } }
  BY DEF MapView, Handling
<1>9. ASSUME NEW i
      PROVE  i \in Replaced <=> i \in Replaced' \/ i \in kills[h]
  <2>1. ASSUME i \in Replaced PROVE i \in Replaced' \/ i \in kills[h]
    <3>1. PICK g \in Handlers : \E w \in Shown(g) : w.act # "delete" /\ w.oid # w.e.id /\ w.oid = i
      BY <2>1 DEF Replaced
    <3>. QED BY <1>5, <1>7, <1>8, <3>1 DEF Replaced
  <2>2. ASSUME i \in Replaced' PROVE i \in Replaced
    <3>1. PICK g \in Handlers : \E w \in Shown(g)' : w.act # "delete" /\ w.oid # w.e.id /\ w.oid = i
      BY <2>2 DEF Replaced
    <3>. QED BY <1>5, <1>7, <3>1 DEF Replaced
  <2>3. ASSUME i \in kills[h] PROVE i \in Replaced
    BY <1>7, <1>8, <2>3 DEF Replaced
  <2>. QED BY <2>1, <2>2, <2>3
<1>10. SeenDesign' = SeenDesign
  BY <1>1, <1>3, <1>9 DEF SeenDesign
<1>11. Messages' /\ KeptApart' /\ Fitting' /\ Followed' /\ Founded'
  BY <1>1, <1>6, <1>10, ViewStays DEF tables
<1>12. OldSeen'
  BY <1>1, <1>10 DEF MapView, OldSeen
<1>13. ASSUME NEW g \in Handlers
       PROVE  /\ ~up' => pc'[g] = "idle"
              /\ pc'[g] = "idle" => pending'[g] = {} /\ placed'[g] = {} /\ kills'[g] = {}
              /\ Undone(g)' \subseteq placed'[g] /\ AtHand(g)' \cap pending'[g] = {}
              /\ kills'[g] = { w.oid : w \in { w \in placed'[g] : w.act # "delete" /\ w.e.id # w.oid } }
              /\ pc'[g] \in {"drop", "hide"} => item'[g].act = "delete"
              /\ pc'[g] \in Stages \ {"idle", "apply", "drop", "hide"} => item'[g].act # "delete"
              /\ \A v \in pending'[g], w \in AtHand(g)' : w.act # "delete" => w.rank <= v.rank
  <2>1. CASE g = h
    BY <1>1, <1>4, <2>1 DEF Undone
  <2>2. CASE g # h
    BY <1>1, <1>6, <2>2 DEF MapView, Handling
  <2>. QED BY <2>1, <2>2
<1>14. Handling'
  BY <1>13 DEF Handling
<1>. QED BY <1>1, <1>2, <1>6, <1>10, <1>11, <1>12, <1>14 DEF MapView

(* Nothing is at work.                                                     *)
Idle ==
  \A h \in Handlers : /\ pc[h] = "idle" /\ pending[h] = {}
                      /\ placed[h] = {} /\ kills[h] = {}

IdleView ==
  /\ MapView /\ Busy = {} /\ Inflight = {} /\ Replaced = {}
  /\ \A h \in Handlers : AtHand(h) = {} /\ Undone(h) = {}

LEMMA IdleFacts == Idle => IdleView
<1>. SUFFICES ASSUME Idle PROVE IdleView
  OBVIOUS
<1>. USE DEF Idle, IdleView
<1>1. \A h \in Handlers : AtHand(h) = {} /\ Undone(h) = {} /\ Shown(h) = {}
  BY DEF AtHand, Undone, Shown
<1>2. Messages /\ KeptApart
  BY DEF Messages, KeptApart
<1>3. Fitting /\ Followed /\ Founded /\ OldSeen
  BY <1>1 DEF Fitting, Followed, Founded, OldSeen
<1>4. Handling
  BY <1>1 DEF Handling
<1>5. Busy = {} /\ Inflight = {} /\ Replaced = {}
  BY <1>1 DEF Busy, BusyWith, Inflight, Replaced
<1>. QED BY <1>1, <1>2, <1>3, <1>4, <1>5 DEF MapView

LEMMA IdleFactsNext == Idle' => IdleView'
BY IdleFacts, PTL

LEMMA InitMap == Init => Idle
BY DEF Init, Idle

LEMMA CrashMap == Crash => Idle'
BY DEF Crash, Idle

(* A process that starts sees what the dead one has left.                  *)
LEMMA RestartMap ==
  ASSUME MapView, Restart
  PROVE  Idle /\ Idle' /\ SeenDesign' = SeenDesign
<1>1. Idle
  BY DEF Restart, MapView, Handling, Idle
<1>2. Idle'
  BY <1>1 DEF Restart, Idle, locals
<1>3. Replaced' = {} /\ up' /\ ~up /\ elements' = ReadDesign
  BY <1>2, IdleFactsNext DEF IdleView, Restart
<1>4. \A i \in Id : SeenDesign'[i] = SeenDesign[i]
  BY <1>3 DEF SeenDesign
<1>5. SeenDesign' = [i \in Id |-> elements'[i]]
  BY <1>3 DEF SeenDesign
<1>6. SeenDesign = ReadDesign /\ ReadDesign = [i \in Id |-> ReadDesign[i]]
  BY <1>3 DEF SeenDesign, ReadDesign
<1>. QED BY <1>1, <1>2, <1>3, <1>5, <1>6

LEMMA StutterMap ==
  ASSUME MapView, UNCHANGED vars
  PROVE  /\ MapView' /\ SeenDesign' = SeenDesign
         /\ \A h \in Handlers : AtHand(h)' = AtHand(h) /\ Undone(h)' = Undone(h)
<1>. USE DEF vars, tables, locals, counters
<1>1. \A h \in Handlers : AtHand(h)' = AtHand(h) /\ Undone(h)' = Undone(h) /\ Shown(h)' = Shown(h)
  BY DEF AtHand, Undone, Shown
<1>2. Replaced' = Replaced
  BY <1>1 DEF Replaced
<1>3. ReadDesign' = ReadDesign
  BY DEF ReadDesign, HostAt, LinkAt
<1>4. SeenDesign' = SeenDesign
  BY <1>2, <1>3 DEF SeenDesign
<1>5. Messages' /\ KeptApart' /\ Fitting' /\ Followed' /\ Founded'
  BY <1>1, <1>4, ViewStays
<1>6. Handling' /\ OldSeen'
  BY <1>1, <1>4 DEF MapView, Handling, OldSeen
<1>. QED BY <1>1, <1>4, <1>5, <1>6 DEF MapView

===============================================================================
