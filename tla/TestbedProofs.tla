--------------------------- MODULE TestbedProofs ---------------------------
(***************************************************************************)
(* An experiment is never removed from under its realization: proofs for   *)
(* Testbed, for any number of requests, failures and deaths.               *)
(***************************************************************************)
EXTENDS Testbed, TLAPS

USE DEF Stages, MaterializeStages, DeMaterializeStages, Holding

(* The experiment is a lock, from the start and through every step. *)
LEMMA Initially == Init => IInv
<1> SUFFICES ASSUME Init PROVE IInv
  OBVIOUS
<1>1. pc \in [Handlers -> Stages] /\ \A h \in Handlers : pc[h] = "idle"
  BY DEF Init
<1> QED
  BY <1>1 DEF Init, IInv, TypeOK, RealizedHasExperiment, ExperimentIsLock

(* onMaterialize takes the lock only where there is no experiment. *)
LEMMA MaterializeKeeps ==
  ASSUME IInv, NEW h \in Handlers, OnMaterialize(h) \/ Materialize(h)
  PROVE  IInv'
<1>1. CASE OnMaterialize(h)
  BY <1>1 DEF OnMaterialize, Go, testbed, counters, IInv, TypeOK,
     RealizedHasExperiment, ExperimentIsLock
<1>2. CASE ReadTopDL(h)
  BY <1>2 DEF ReadTopDL, Go, testbed, counters, IInv, TypeOK,
     RealizedHasExperiment, ExperimentIsLock
<1>3. CASE LookForRealizations(h)
  BY <1>3 DEF LookForRealizations, Go, testbed, counters, IInv, TypeOK,
     RealizedHasExperiment, ExperimentIsLock
<1>4. CASE AlreadyRealized(h)
  BY <1>4 DEF AlreadyRealized, Go, testbed, counters, IInv, TypeOK,
     RealizedHasExperiment, ExperimentIsLock
<1>5. CASE CreateExperiment(h)
  BY <1>5 DEF CreateExperiment, Go, counters, IInv, TypeOK,
     RealizedHasExperiment, ExperimentIsLock
<1>6. CASE RealizeExperiment(h)
  BY <1>6 DEF RealizeExperiment, Go, counters, IInv, TypeOK,
     RealizedHasExperiment, ExperimentIsLock
<1> QED
  BY <1>1, <1>2, <1>3, <1>4, <1>5, <1>6 DEF Materialize

(* onDeMaterialize takes it with the realization and gives it back with    *)
(* the experiment.                                                         *)
LEMMA DeMaterializeKeeps ==
  ASSUME IInv, NEW h \in Handlers, OnDeMaterialize(h) \/ DeMaterialize(h)
  PROVE  IInv'
<1>1. CASE OnDeMaterialize(h)
  BY <1>1 DEF OnDeMaterialize, Go, testbed, counters, IInv, TypeOK,
     RealizedHasExperiment, ExperimentIsLock
<1>2. CASE RemoveRealization(h)
  BY <1>2 DEF RemoveRealization, Go, counters, IInv, TypeOK,
     RealizedHasExperiment, ExperimentIsLock
<1>3. CASE Poll(h)
  BY <1>3 DEF Poll, NoneFound, Go, testbed, counters, IInv, TypeOK,
     RealizedHasExperiment, ExperimentIsLock
<1>4. CASE RemoveExperiment(h)
  BY <1>4 DEF RemoveExperiment, Go, counters, IInv, TypeOK,
     RealizedHasExperiment, ExperimentIsLock
<1> QED
  BY <1>1, <1>2, <1>3, <1>4 DEF DeMaterialize

(* A call that fails ends the request, whether or not it was carried out. *)
LEMMA FailureKeeps ==
  ASSUME IInv, NEW h \in Handlers, CallFails(h)
  PROVE  IInv'
<1>1. /\ pc' = [pc EXCEPT ![h] = "idle"]
      /\ faults' \in Nat /\ crashes' \in Nat
  BY DEF CallFails, IInv, TypeOK
<1>2. CASE Refuse(h)
  BY <1>1, <1>2 DEF Refuse, testbed, IInv, TypeOK,
     RealizedHasExperiment, ExperimentIsLock
<1>3. CASE LoseAnswer(h)
  BY <1>1, <1>3 DEF LoseAnswer, IInv, TypeOK,
     RealizedHasExperiment, ExperimentIsLock
<1> QED
  BY <1>2, <1>3 DEF CallFails

LEMMA Step == IInv /\ [Next]_vars => IInv'
<1> SUFFICES ASSUME IInv, [Next]_vars PROVE IInv'
  OBVIOUS
<1>1. ASSUME NEW h \in Handlers,
             \/ OnMaterialize(h) \/ Materialize(h)
             \/ OnDeMaterialize(h) \/ DeMaterialize(h)
             \/ CallFails(h)
      PROVE  IInv'
  BY <1>1, MaterializeKeeps, DeMaterializeKeeps, FailureKeeps
<1>2. CASE Crash
  BY <1>2 DEF Crash, testbed, IInv, TypeOK, RealizedHasExperiment,
     ExperimentIsLock
<1>3. CASE RealizationEnds
  BY <1>3 DEF RealizationEnds, counters, IInv, TypeOK, RealizedHasExperiment,
     ExperimentIsLock
<1>4. CASE OthersChange
  BY <1>4 DEF OthersChange, counters, IInv, TypeOK, RealizedHasExperiment,
     ExperimentIsLock
<1>5. CASE UNCHANGED vars
  BY <1>5 DEF vars, testbed, counters, IInv, TypeOK, RealizedHasExperiment,
     ExperimentIsLock
<1> QED
  BY <1>1, <1>2, <1>3, <1>4, <1>5 DEF Next

---------------------------------------------------------------------------
(* No request finds the experiment gone that it created or is to remove,   *)
(* and no two of them hold it at once.                                     *)
THEOREM LockHeld == Spec => []IInv
BY Initially, Step, PTL DEF Spec

(* An experiment is not removed from under its realization: what           *)
(* onDeMaterialize found when it polled still holds when it calls          *)
(* RemoveExperiment, since nobody can have realized the experiment again.  *)
THEOREM RealizedIsCreated == Spec => []RealizedHasExperiment
<1>1. IInv => RealizedHasExperiment
  BY DEF IInv
<1> QED
  BY <1>1, LockHeld, PTL
---------------------------------------------------------------------------
(* Who holds an experiment that is not realized goes on with it.           *)
LEMMA HolderGoesOn == IInv /\ Held /\ [Next]_vars => Held'
<1> SUFFICES ASSUME IInv, Held, [Next]_vars PROVE Held'
  OBVIOUS
<1>1. ASSUME NEW h \in Handlers,
             \/ OnMaterialize(h) \/ ReadTopDL(h) \/ LookForRealizations(h) \/ AlreadyRealized(h)
             \/ OnDeMaterialize(h)
      PROVE  Held'
  <2>1. UNCHANGED <<testbed, counters>> /\ pc[h] \notin Holding
        /\ \A g \in Handlers \ {h} : pc'[g] = pc[g]
    BY <1>1 DEF OnMaterialize, ReadTopDL, LookForRealizations, AlreadyRealized,
       OnDeMaterialize, Go, IInv, TypeOK
  <2> QED BY <2>1 DEF Held, testbed, counters
<1>2. ASSUME NEW h \in Handlers, CreateExperiment(h) PROVE Held'
  <2>1. CASE experiment
    <3>1. pc[h] \notin Holding /\ \A g \in Handlers \ {h} : pc'[g] = pc[g]
      BY <1>2 DEF CreateExperiment, Go, IInv, TypeOK
    <3> QED BY <1>2, <2>1, <3>1 DEF CreateExperiment, Held, counters
  <2>2. CASE ~experiment
    <3>1. pc'[h] = "realize"
      BY <1>2, <2>2 DEF CreateExperiment, Go, IInv, TypeOK
    <3> QED BY <3>1 DEF Held
  <2> QED BY <2>1, <2>2
<1>3. ASSUME NEW h \in Handlers, RealizeExperiment(h) PROVE Held'
  <2>1. realized' = "up"
    BY <1>3 DEF RealizeExperiment, Go, IInv, ExperimentIsLock
  <2> QED BY <2>1 DEF Held
<1>4. ASSUME NEW h \in Handlers, RemoveRealization(h) PROVE Held'
  <2>1. CASE realized = "up"
    <3>1. pc'[h] = "poll"
      BY <1>4, <2>1 DEF RemoveRealization, Go, IInv, TypeOK
    <3> QED BY <3>1 DEF Held
  <2>2. CASE realized # "up"
    <3>1. pc[h] \notin Holding /\ \A g \in Handlers \ {h} : pc'[g] = pc[g]
      BY <1>4 DEF RemoveRealization, Go, IInv, TypeOK
    <3> QED BY <1>4, <2>2, <3>1 DEF RemoveRealization, Held, counters
  <2> QED BY <2>1, <2>2
<1>5. ASSUME NEW h \in Handlers, Poll(h) PROVE Held'
  <2>1. pc'[h] = "drop"
    BY <1>5 DEF Poll, Go, IInv, TypeOK
  <2> QED BY <2>1 DEF Held
<1>6. ASSUME NEW h \in Handlers, RemoveExperiment(h) PROVE Held'
  BY <1>6 DEF RemoveExperiment, Held
<1>7. ASSUME \/ \E h \in Handlers : CallFails(h)
             \/ Crash
      PROVE  Held'
  <2>1. faults' # 0 \/ crashes' # 0
    BY <1>7 DEF CallFails, Crash, IInv, TypeOK
  <2> QED BY <2>1 DEF Held
<1>8. CASE RealizationEnds \/ OthersChange
  BY <1>8 DEF RealizationEnds, OthersChange, Held, counters
<1>9. CASE UNCHANGED vars
  BY <1>9 DEF vars, testbed, counters, Held
<1> QED
  BY <1>1, <1>2, <1>3, <1>4, <1>5, <1>6, <1>7, <1>8, <1>9 DEF Next, Materialize, DeMaterialize

(* As long as nothing fails, an experiment that no request is at is        *)
(* realized, whatever requests there were: none leaves an experiment that  *)
(* no other request could remove.                                          *)
THEOREM NothingOrphaned == Spec => []NoOrphan
<1>1. Init => Held
  BY DEF Init, Held
<1>2. Held => NoOrphan
  BY DEF Held, NoOrphan
<1> QED
  BY <1>1, <1>2, HolderGoesOn, LockHeld, PTL DEF Spec
============================================================================
