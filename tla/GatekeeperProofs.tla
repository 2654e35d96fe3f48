--------------------------- MODULE GatekeeperProofs ---------------------------
(***************************************************************************)
(* What the gatekeeper creates is complete, what addie serves of it is     *)
(* complete, and is what is stored unless a server of it died in between:  *)
(* for any number of designs, requests and processes.                      *)
(***************************************************************************)
EXTENDS Gatekeeper, TLAPS

CompleteInv == TypeOK /\ RowsInOrder

LEMMA InitComplete == Init => CompleteInv
<1>. SUFFICES ASSUME Init PROVE CompleteInv
  OBVIOUS
<1>1. TypeOK
  BY DEF Init, TypeOK, Stages, ProcStages
<1>2. RowsInOrder
  BY DEF Init, RowsInOrder
<1>. QED BY <1>1, <1>2 DEF CompleteInv

(* A step of a handler moves its own stage only. *)
LEMMA GateComplete ==
  ASSUME CompleteInv, NEW h \in Handlers, Gate(h)
  PROVE  CompleteInv'
<1>. USE DEF CompleteInv, TypeOK, RowsInOrder, db, gate, procs
<1>1. CASE NewXP(h)
  BY <1>1 DEF NewXP, Ask, Go, Stages, CreateStages
<1>2. CASE LaunchAddie(h)
  BY <1>2 DEF LaunchAddie, Ask, Go, Stages, CreateStages
<1>3. CASE CreateDesign(h)
  BY <1>3 DEF CreateDesign, Go, Stages, CreateStages
<1>4. CASE CreateRoot(h)
  BY <1>4 DEF CreateRoot, Go, Stages, CreateStages
<1>5. CASE CreateSimSettings(h)
  BY <1>5 DEF CreateSimSettings, Go, Stages, CreateStages
<1>6. CASE NewXPFails(h)
  BY <1>6 DEF NewXPFails, Stages, CreateStages
<1>7. CASE FindRunning(h) \/ FindNone(h) \/ StartFails(h)
  BY <1>7 DEF FindRunning, FindNone, StartFails, Go, Stages, CreateStages
<1>8. CASE StartAddie(h)
  <2>1. PICK p \in Procs :
          /\ Go(h, "start", "idle")
          /\ state' = [state EXCEPT ![p] = "started"]
          /\ serves' = [serves EXCEPT ![p] = name[h]]
          /\ overtaken' = overtaken \ {p}
          /\ UNCHANGED <<db, stored, name, answered, mem>>
    BY <1>8 DEF StartAddie
  <2>2. name[h] \in Designs
    BY <2>1 DEF Go
  <2>3. TypeOK'
    BY <2>1, <2>2 DEF Go, Stages, ProcStages
  <2>4. RowsInOrder'
    BY <2>1, <2>2 DEF Go, ProcStages
  <2>. QED BY <2>3, <2>4
<1>. QED BY <1>1, <1>2, <1>3, <1>4, <1>5, <1>6, <1>7, <1>8 DEF Gate

LEMMA AddieComplete ==
  ASSUME CompleteInv, NEW p \in Procs, Addie(p)
  PROVE  CompleteInv'
<1>. USE DEF CompleteInv, TypeOK, RowsInOrder, db, gate, procs, ProcStages, Step
<1>1. CASE ReadDesign(p)
  BY <1>1 DEF ReadDesign
<1>2. CASE ReadSimSettings(p)
  BY <1>2 DEF ReadSimSettings
<1>3. CASE ReadFails(p) \/ ListenFails(p) \/ AddieDies(p)
  BY <1>3 DEF ReadFails, ListenFails, AddieDies, Overtaken
<1>4. CASE Listen(p)
  BY <1>4 DEF Listen
<1>5. CASE Edit(p)
  BY <1>5 DEF Edit
<1>. QED BY <1>1, <1>2, <1>3, <1>4, <1>5 DEF Addie

LEMMA NextComplete == CompleteInv /\ [Next]_vars => CompleteInv'
<1>. SUFFICES ASSUME CompleteInv, [Next]_vars PROVE CompleteInv'
  OBVIOUS
<1>1. CASE GatekeeperDies
  BY <1>1 DEF GatekeeperDies, CompleteInv, TypeOK, RowsInOrder, db, procs, Stages
<1>2. CASE UNCHANGED vars
  BY <1>2 DEF vars, db, gate, procs, CompleteInv, TypeOK, RowsInOrder
<1>. QED BY <1>1, <1>2, GateComplete, AddieComplete DEF Next

LEMMA Completeness == Spec => []CompleteInv
BY InitComplete, NextComplete, PTL DEF Spec

(* A design newXP answered 200 for has its row, its root system and its    *)
(* settings, and none of them is ever lost.                                *)
THEOREM AnsweredIsComplete == Spec => []AnsweredComplete
<1>1. CompleteInv => AnsweredComplete
  BY DEF CompleteInv, RowsInOrder, AnsweredComplete
<1>. QED BY Completeness, <1>1, PTL

(* A process that listens serves a design with a root system and settings. *)
THEOREM ServedIsComplete == Spec => []ServesComplete
<1>1. CompleteInv => ServesComplete
  BY DEF CompleteInv, RowsInOrder, ServesComplete
<1>. QED BY Completeness, <1>1, PTL

---------------------------------------------------------------------------
(* A process may be overtaken only by one that listened: the others keep   *)
(* what they have read current.                                            *)

StoredInv == CompleteInv /\ OneListens /\ ServesStored /\ ReadersCurrent

Current == OneListens /\ ServesStored /\ ReadersCurrent

LEMMA InitStored == Init => StoredInv
<1>. SUFFICES ASSUME Init PROVE StoredInv
  OBVIOUS
<1>1. CompleteInv
  BY InitComplete
<1>2. Current
  BY DEF Init, Current, ReadersCurrent, OneListens, ServesStored
<1>. QED BY <1>1, <1>2 DEF StoredInv, Current

(* Steps that leave the listening process and what it serves alone. *)
LEMMA KeepsStored ==
  ASSUME StoredInv, UNCHANGED <<stored, mem>>,
         \A p \in Procs : /\ (state'[p] = "listening") = (state[p] = "listening")
                          /\ state[p] = "listening" => serves'[p] = serves[p]
                          /\ state'[p] \in {"read", "loaded", "listening"} =>
                               /\ state[p] \in {"read", "loaded", "listening"}
                               /\ serves'[p] = serves[p]
                               /\ p \in overtaken => p \in overtaken'
  PROVE  Current'
BY DEF StoredInv, Current, ReadersCurrent, OneListens, ServesStored

LEMMA NextStored == StoredInv /\ [Next]_vars => StoredInv'
<1>. SUFFICES ASSUME StoredInv, [Next]_vars PROVE StoredInv'
  OBVIOUS
<1>1. CompleteInv'
  BY NextComplete DEF StoredInv
<1>. SUFFICES Current'
  BY <1>1 DEF StoredInv, Current
<1>2. CASE UNCHANGED <<stored, procs>>
  BY <1>2, KeepsStored DEF procs
<1>3. ASSUME NEW h \in Handlers, StartAddie(h)
      PROVE  Current'
  <2>1. PICK p \in Procs :
          /\ state[p] = "off"
          /\ state' = [state EXCEPT ![p] = "started"]
          /\ serves' = [serves EXCEPT ![p] = name[h]]
          /\ overtaken' = overtaken \ {p}
          /\ UNCHANGED <<stored, mem>>
    BY <1>3 DEF StartAddie
  <2>. QED BY <2>1, KeepsStored DEF StoredInv, CompleteInv, TypeOK
<1>4. ASSUME NEW p \in Procs,
             ReadSimSettings(p) \/ ReadFails(p) \/ ListenFails(p)
      PROVE  Current'
  BY <1>4, KeepsStored
  DEF ReadSimSettings, ReadFails, ListenFails, Step, StoredInv, CompleteInv, TypeOK
<1>5. ASSUME NEW p \in Procs, ReadDesign(p)
      PROVE  Current'
  <2>1. /\ state[p] = "started" /\ state' = [state EXCEPT ![p] = "read"]
        /\ mem' = [mem EXCEPT ![p] = stored[serves[p]]]
        /\ serves[p] \in Designs
        /\ UNCHANGED <<stored, serves, overtaken>>
    BY <1>5 DEF ReadDesign, Step, StoredInv, CompleteInv, TypeOK
  <2>2. ReadersCurrent'
    BY <2>1 DEF ReadersCurrent, StoredInv, CompleteInv, TypeOK
  <2>3. OneListens' /\ ServesStored'
    BY <2>1 DEF OneListens, ServesStored, StoredInv, CompleteInv, TypeOK
  <2>. QED BY <2>2, <2>3 DEF Current
<1>6. ASSUME NEW p \in Procs, Listen(p)
      PROVE  Current'
  <2>1. /\ state[p] = "loaded" /\ state' = [state EXCEPT ![p] = "listening"]
        /\ ~Taken /\ UNCHANGED <<stored, serves, mem, overtaken>>
    BY <1>6 DEF Listen, Step
  <2>2. p \notin overtaken => mem[p] = stored[serves[p]]
    BY <2>1 DEF Taken, StoredInv, ReadersCurrent
  <2>3. \A q \in Procs : /\ state'[q] = "listening" => q = p
                         /\ q # p => state'[q] = state[q]
    BY <2>1 DEF Taken, StoredInv, CompleteInv, TypeOK
  <2>4. OneListens' /\ ServesStored'
    BY <2>1, <2>2, <2>3 DEF OneListens, ServesStored
  <2>5. ReadersCurrent'
    BY <2>1, <2>3 DEF Taken, ReadersCurrent, StoredInv, CompleteInv, TypeOK
  <2>. QED BY <2>4, <2>5 DEF Current
<1>7. ASSUME NEW p \in Procs, Edit(p)
      PROVE  Current'
  <2>1. PICK e \in Edits :
          /\ state[p] = "listening"
          /\ stored' = [stored EXCEPT ![serves[p]] = @ \cup {e}]
          /\ mem' = [mem EXCEPT ![p] = @ \cup {e}]
          /\ UNCHANGED <<state, serves, overtaken>>
    BY <1>7 DEF Edit
  <2>2. \A q \in Procs : state'[q] = "listening" => q = p
    BY <2>1 DEF OneListens, StoredInv
  <2>3. p \notin overtaken => mem'[p] = stored'[serves[p]]
    BY <2>1 DEF StoredInv, ServesStored, CompleteInv, TypeOK, RowsInOrder
  <2>4. OneListens' /\ ServesStored'
    BY <2>1, <2>2, <2>3 DEF OneListens, ServesStored
  <2>5. ReadersCurrent'
    BY <2>1 DEF ReadersCurrent, StoredInv, CompleteInv, TypeOK, RowsInOrder
  <2>. QED BY <2>4, <2>5 DEF Current
<1>8. ASSUME NEW p \in Procs, AddieDies(p)
      PROVE  Current'
  <2>1. /\ state' = [state EXCEPT ![p] = "off"]
        /\ overtaken \subseteq overtaken'
        /\ state[p] = "listening" => Overtaken(p) \subseteq overtaken'
        /\ UNCHANGED <<stored, serves, mem>>
    BY <1>8 DEF AddieDies
  <2>2. OneListens' /\ ServesStored'
    BY <2>1 DEF OneListens, ServesStored, StoredInv, CompleteInv, TypeOK
  <2>3. ReadersCurrent'
    BY <2>1 DEF ReadersCurrent, Overtaken, StoredInv, CompleteInv, TypeOK
  <2>. QED BY <2>2, <2>3 DEF Current
<1>9. ASSUME NEW h \in Handlers, Gate(h), ~StartAddie(h)
      PROVE  UNCHANGED <<stored, procs>>
  BY <1>9 DEF Gate, NewXP, LaunchAddie, Ask, CreateDesign, CreateRoot, CreateSimSettings,
       NewXPFails, FindRunning, FindNone, StartFails
<1>10. CASE GatekeeperDies \/ UNCHANGED vars
  BY <1>2, <1>10 DEF GatekeeperDies, vars
<1>. QED BY <1>2, <1>3, <1>4, <1>5, <1>6, <1>7, <1>8, <1>9, <1>10 DEF Next, Addie

(* However many requests to launch a design race with each other, and      *)
(* whoever dies, the process that serves a design serves what is stored,   *)
(* unless it was overtaken.                                                *)
THEOREM ServedIsStored == Spec => []ServesStored
<1>1. StoredInv => ServesStored
  BY DEF StoredInv
<1>. QED BY InitStored, NextStored, <1>1, PTL DEF Spec

===============================================================================
