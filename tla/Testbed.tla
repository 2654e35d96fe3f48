------------------------------ MODULE Testbed ------------------------------
(***************************************************************************)
(* Materialising a design on the DETER testbed: onMaterialize and          *)
(* onDeMaterialize of cmd/addie/main.go, and the testbed as its SPI shows  *)
(* it.                                                                     *)
(*                                                                         *)
(* A design has at most one experiment on the testbed, and the experiment  *)
(* at most one realization, which takes a while to end once it is removed. *)
(* Every request runs in a goroutine of its own (Handlers); each call of   *)
(* the SPI is one step, which other requests may come before and after.    *)
(* Realizations are looked up with a regular expression, so designs whose  *)
(* name contains the name of this one (Others) are found as well.          *)
(*                                                                         *)
(* The testbed itself is no part of the repository.  What is assumed of    *)
(* it: an experiment is not created twice; only an experiment that is      *)
(* there is realized, once; only a realization that is up is removed.      *)
(***************************************************************************)
EXTENDS Naturals

CONSTANTS
  Handlers,    \* goroutines of the HTTP server
  Others,      \* designs whose name contains the name of this one
  MaxFaults,   \* bounds: calls that fail,
  MaxCrashes   \*         deaths of the process

VARIABLES
  experiment,  \* the testbed has the experiment of the design
  realized,    \* its realization: there is none, it is up, it is ending
  others,      \* the others that are realized
  pc,          \* where the handler is: the call it makes next
  faults, crashes

testbed == <<experiment, realized, others>>
counters == <<faults, crashes>>
vars == <<testbed, pc, counters>>

MaterializeStages == {"topdl", "look", "create", "realize"}
DeMaterializeStages == {"remove", "poll", "drop"}
Stages == {"idle"} \cup MaterializeStages \cup DeMaterializeStages

TypeOK ==
  /\ experiment \in BOOLEAN
  /\ realized \in {"no", "up", "ending"}
  /\ others \subseteq Others
  /\ pc \in [Handlers -> Stages]
  /\ faults \in Nat /\ crashes \in Nat

Init ==
  /\ experiment = FALSE
  /\ realized = "no"
  /\ others = {}
  /\ pc = [h \in Handlers |-> "idle"]
  /\ faults = 0 /\ crashes = 0

Go(h, from, to) == pc[h] = from /\ pc' = [pc EXCEPT ![h] = to]

(* ViewRealizations, with ".*" + design.Name + ".*". *)
NoneFound == realized = "no" /\ others = {}

---------------------------------------------------------------------------
(* onMaterialize.  An answer other than the one hoped for ends it.         *)

OnMaterialize(h) ==
  /\ Go(h, "idle", "topdl")
  /\ UNCHANGED <<testbed, counters>>

(* The file that compile writes is read, or is not there. *)
ReadTopDL(h) ==
  /\ Go(h, "topdl", "look") \/ Go(h, "topdl", "idle")
  /\ UNCHANGED <<testbed, counters>>

LookForRealizations(h) ==
  /\ Go(h, "look", "create")
  /\ NoneFound
  /\ UNCHANGED <<testbed, counters>>

(* "the design is already materialize, de-materialize first" *)
AlreadyRealized(h) ==
  /\ Go(h, "look", "idle")
  /\ ~NoneFound
  /\ UNCHANGED <<testbed, counters>>

CreateExperiment(h) ==
  /\ Go(h, "create", IF experiment THEN "idle" ELSE "realize")
  /\ experiment' = TRUE
  /\ UNCHANGED <<realized, others, counters>>

RealizeExperiment(h) ==
  /\ Go(h, "realize", "idle")
  /\ realized' = IF experiment /\ realized = "no" THEN "up" ELSE realized
  /\ UNCHANGED <<experiment, others, counters>>

---------------------------------------------------------------------------
(* onDeMaterialize: the realization is removed, and once it has ended the  *)
(* experiment.                                                             *)

OnDeMaterialize(h) ==
  /\ Go(h, "idle", "remove")
  /\ UNCHANGED <<testbed, counters>>

(* Mutant of RemoveRealization: what the testbed returns is not looked at. *)
RemoveAnyway(h) ==
  /\ Go(h, "remove", "poll")
  /\ realized' = IF realized = "up" THEN "ending" ELSE realized
  /\ UNCHANGED <<experiment, others, counters>>

(* Mutant of RemoveRealization: the experiment is removed with it. *)
RemoveBoth(h) ==
  /\ Go(h, "remove", IF realized = "up" THEN "poll" ELSE "idle")
  /\ realized' = IF realized = "up" THEN "ending" ELSE realized
  /\ experiment' = (experiment /\ realized # "up")
  /\ UNCHANGED <<others, counters>>

RemoveRealization(h) ==
  /\ Go(h, "remove", IF realized = "up" THEN "poll" ELSE "idle")
  /\ realized' = IF realized = "up" THEN "ending" ELSE realized
  /\ UNCHANGED <<experiment, others, counters>>

(* Mutant of Poll: the experiment is forgotten. *)
PollAndStop(h) ==
  /\ Go(h, "poll", "idle")
  /\ NoneFound
  /\ UNCHANGED <<testbed, counters>>

(* Once a second, until nothing is found. *)
Poll(h) ==
  /\ Go(h, "poll", "drop")
  /\ NoneFound
  /\ UNCHANGED <<testbed, counters>>

RemoveExperiment(h) ==
  /\ Go(h, "drop", "idle")
  /\ experiment' = FALSE
  /\ UNCHANGED <<realized, others, counters>>

---------------------------------------------------------------------------
(* A call fails: it was refused, or it was carried out and the answer was  *)
(* lost.  Either ends the request.                                         *)

Refuse(h) ==
  /\ pc[h] \notin {"idle", "topdl"}
  /\ UNCHANGED testbed

LoseAnswer(h) ==
  \/ pc[h] = "create" /\ experiment' = TRUE /\ UNCHANGED <<realized, others>>
  \/ /\ pc[h] = "realize" /\ experiment /\ realized = "no"
     /\ realized' = "up" /\ UNCHANGED <<experiment, others>>
  \/ /\ pc[h] = "remove" /\ realized = "up"
     /\ realized' = "ending" /\ UNCHANGED <<experiment, others>>
  \/ pc[h] = "drop" /\ experiment' = FALSE /\ UNCHANGED <<realized, others>>

CallFails(h) ==
  /\ faults < MaxFaults
  /\ faults' = faults + 1
  /\ pc' = [pc EXCEPT ![h] = "idle"]
  /\ Refuse(h) \/ LoseAnswer(h)
  /\ UNCHANGED crashes

(* The process dies, with its requests. *)
Crash ==
  /\ crashes < MaxCrashes
  /\ crashes' = crashes + 1
  /\ pc' = [h \in Handlers |-> "idle"]
  /\ UNCHANGED <<testbed, faults>>

---------------------------------------------------------------------------
(* The testbed.                                                            *)

RealizationEnds ==
  /\ realized = "ending"
  /\ realized' = "no"
  /\ UNCHANGED <<experiment, others, pc, counters>>

(* Other designs of the user come and go. *)
OthersChange ==
  /\ others' \in SUBSET Others
  /\ UNCHANGED <<experiment, realized, pc, counters>>

---------------------------------------------------------------------------
Materialize(h) ==
  \/ ReadTopDL(h) \/ LookForRealizations(h) \/ AlreadyRealized(h)
  \/ CreateExperiment(h) \/ RealizeExperiment(h)

DeMaterialize(h) == RemoveRealization(h) \/ Poll(h) \/ RemoveExperiment(h)

Next ==
  \/ \E h \in Handlers :
       \/ OnMaterialize(h) \/ Materialize(h)
       \/ OnDeMaterialize(h) \/ DeMaterialize(h)
       \/ CallFails(h)
  \/ Crash
  \/ RealizationEnds
  \/ OthersChange

Spec == Init /\ [][Next]_vars

(* A goroutine that can run is run, a call is answered, and a realization  *)
(* that was removed ends.                                                  *)
Fairness ==
  /\ \A h \in Handlers : WF_vars(Materialize(h)) /\ WF_vars(DeMaterialize(h))
  /\ WF_vars(RealizationEnds)

FairSpec == Spec /\ Fairness

---------------------------------------------------------------------------
(* Properties.                                                             *)

(* An experiment is never removed from under its realization, whatever     *)
(* requests, failures and deaths come together: onDeMaterialize removes    *)
(* the experiment without a further look once it has found no realization, *)
(* and until it does no onMaterialize gets past CreateExperiment.          *)
RealizedHasExperiment == realized # "no" => experiment

(* As long as no call has failed and the process has not died, no request  *)
(* leaves an experiment that is not realized.  No request could remove it: *)
(* onMaterialize ends when it cannot create the experiment,                *)
(* onDeMaterialize when it has nothing to remove.                          *)
NoOrphan ==
  /\ faults = 0 /\ crashes = 0
  /\ \A h \in Handlers : pc[h] = "idle"
  /\ experiment
  => realized = "up"

(* onDeMaterialize, which polls without a limit, comes to an end whatever  *)
(* the other requests do, if the designs that its regular expression finds *)
(* as well are some day no longer realized: nobody realizes this design    *)
(* again while it polls.                                                   *)
DeMaterializeEnds ==
  <>[](others = {}) =>
    \A h \in Handlers : pc[h] \in DeMaterializeStages ~> pc[h] = "idle"

---------------------------------------------------------------------------
(* The inductive invariant: the experiment is a lock.  The request that    *)
(* creates it has it until it is realized, the request that removes the    *)
(* realization from then on.                                               *)
Holding == {"realize", "poll", "drop"}

ExperimentIsLock ==
  /\ \A h \in Handlers :
       /\ pc[h] \in Holding => experiment
       /\ pc[h] \in {"realize", "drop"} => realized = "no"
       /\ pc[h] = "poll" => realized # "up"
  /\ \A g, h \in Handlers : pc[g] \in Holding /\ pc[h] \in Holding => g = h

(* While nothing fails, an experiment without a realization is held.       *)
Held ==
  faults = 0 /\ crashes = 0 /\ experiment /\ realized # "up" =>
    \E h \in Handlers : pc[h] \in Holding

IInv == TypeOK /\ RealizedHasExperiment /\ ExperimentIsLock
============================================================================
