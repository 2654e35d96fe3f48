----------------------------- MODULE AtomicDesign -----------------------------
(***************************************************************************)
(* What a client that sends consistent messages may take a process of      *)
(* addie for: one design, to which the changes of its messages are applied *)
(* one by one, each at once and for good.                                  *)
(*                                                                         *)
(* A statement that fails spoils the identities of one change.  A death of *)
(* the process forgets the changes that wait, and spoils the identities of *)
(* those it was at, at most one per goroutine, and of those that follow    *)
(* what happens to other elements.  A change that has to do with a spoiled *)
(* identity is spoiled in turn.  All other identities are never wrong.     *)
(***************************************************************************)
EXTENDS Naturals, FiniteSets

CONSTANTS
  Id,          \* identities
  None,        \* no element
  Lanes,       \* how many changes can be half done at a time
  Spot(_),     \* identities a change gives or takes
  Touches(_),  \* the same, and those it refers to
  Follows(_)   \* the change may be done, in part, by one it refers to

VARIABLES
  design,    \* the element of each identity
  inflight,  \* changes received and not yet made
  spoiled,   \* identities nothing is promised of
  faults,    \* statements that failed,
  deaths     \*   deaths of the process

vars == <<design, inflight, spoiled, faults, deaths>>

Agree(d, f, except) ==
  LET before == d  after == f IN \A i \in Id \ except : before[i] = after[i]

Outcome(w) ==
  IF w.act = "delete" THEN [design EXCEPT ![w.oid] = None]
                      ELSE [design EXCEPT ![w.oid] = None, ![w.e.id] = w.e]

Init ==
  /\ design = [i \in Id |-> None]
  /\ inflight = {} /\ spoiled = {}
  /\ faults = 0 /\ deaths = 0

Receive ==
  /\ inflight \subseteq inflight'
  /\ UNCHANGED <<design, spoiled, faults, deaths>>

Apply(w) ==
  /\ inflight' = inflight \ {w}
  /\ Agree(design', Outcome(w), spoiled)
  /\ UNCHANGED <<spoiled, faults, deaths>>

Spread(w) ==
  /\ Touches(w) \cap spoiled # {}
  /\ spoiled' = spoiled \cup Spot(w)
  /\ UNCHANGED <<design, inflight, faults, deaths>>

Fault(w) ==
  /\ faults' = faults + 1
  /\ spoiled' = spoiled \cup Spot(w)
  /\ UNCHANGED <<design, inflight, deaths>>

Halves(S) == Cardinality({ w \in S : ~Follows(w) })

Die ==
  /\ deaths' = deaths + 1
  /\ inflight' = {}
  /\ \E S \in SUBSET inflight :
       /\ Halves(S) <= Lanes
       /\ spoiled' = spoiled \cup UNION { Spot(w) : w \in S }
  /\ Agree(design', design, spoiled')
  /\ UNCHANGED faults


Next ==
  \/ Receive
  \/ \E w \in inflight : Apply(w) \/ Spread(w) \/ Fault(w)
  \/ Die

Spec == Init /\ [][Next]_vars
===============================================================================
