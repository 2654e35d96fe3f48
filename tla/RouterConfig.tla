---------------------------- MODULE RouterConfig ----------------------------
(***************************************************************************)
(* Running an experiment: onRun and configRouters of cmd/addie/main.go.    *)
(*                                                                         *)
(* configRouters starts a goroutine for every router of the design and     *)
(* hears of their outcomes over a channel that is buffered for all of      *)
(* them.  A goroutine copies three files to the node of its router and     *)
(* then starts the script that configures it.  Every onRun is a goroutine  *)
(* of its own (Runs) too, so the same routers may be configured twice at   *)
(* once.                                                                   *)
(*                                                                         *)
(* Copying (rsync) and starting (ssh) are calls of external programs; any  *)
(* of them may fail, and a copy that fails leaves what was there.          *)
(***************************************************************************)
EXTENDS Sequences, FiniteSets, Naturals

CONSTANTS
  Routers,  \* the routers of the design
  Runs      \* requests

ASSUME RoutersAssumption == IsFiniteSet(Routers)

VARIABLES
  run,     \* where onRun is
  rs,      \* design.Routers(), when it looked
  work,    \* where the goroutine of a router is
  err,     \* the outcome it has
  ch,      \* the channel: errors that are sent and not heard
  failed,  \* onRun has heard of an error
  onNode   \* files on the node of a router

vars == <<run, rs, work, err, ch, failed, onNode>>

Files == {"do-quagga-config.sh", "rc.json", "bootstrap.sh"}
Copying == {"config", "chart", "bootstrap"}
Working == Copying \cup {"start", "send"}

TypeOK ==
  /\ run \in [Runs -> {"new", "hearing", "answered"}]
  /\ rs \in [Runs -> SUBSET Routers]
  /\ work \in [Runs -> [Routers -> Working \cup {"none", "done"}]]
  /\ err \in [Runs -> [Routers -> BOOLEAN]]
  /\ ch \in [Runs -> Seq(BOOLEAN)]
  /\ failed \in [Runs -> BOOLEAN]
  /\ onNode \in [Routers -> SUBSET Files]

Init ==
  /\ run = [c \in Runs |-> "new"]
  /\ rs = [c \in Runs |-> {}]
  /\ work = [c \in Runs |-> [r \in Routers |-> "none"]]
  /\ err = [c \in Runs |-> [r \in Routers |-> FALSE]]
  /\ ch = [c \in Runs |-> << >>]
  /\ failed = [c \in Runs |-> FALSE]
  /\ onNode = [r \in Routers |-> {}]

---------------------------------------------------------------------------
(* The routers the design has at the time: some of all there ever are.     *)
OnRun(c) ==
  /\ run[c] = "new"
  /\ run' = [run EXCEPT ![c] = "hearing"]
  /\ \E now \in SUBSET Routers :
       /\ rs' = [rs EXCEPT ![c] = now]
       /\ work' = [work EXCEPT ![c] =
                    [r \in Routers |-> IF r \in now THEN "config" ELSE "none"]]
  /\ UNCHANGED <<err, ch, failed, onNode>>

Go(c, r, from, to) ==
  /\ work[c][r] = from
  /\ work' = [work EXCEPT ![c][r] = to]
  /\ UNCHANGED <<run, rs, ch, failed>>

Copy(c, r, file, from, to) ==
  /\ Go(c, r, from, to)
  /\ onNode' = [onNode EXCEPT ![r] = @ \cup {file}]
  /\ UNCHANGED err

(* syncRouterFiles *)
SyncConfig(c, r) == Copy(c, r, "do-quagga-config.sh", "config", "chart")
SyncChart(c, r) == Copy(c, r, "rc.json", "chart", "bootstrap")
SyncBootstrap(c, r) == Copy(c, r, "bootstrap.sh", "bootstrap", "start")

Bootstrap(c, r) == Go(c, r, "start", "send") /\ UNCHANGED <<err, onNode>>

(* Mutant of Fails: the chart is taken to be there. *)
FailsExceptChart(c, r) ==
  \/ /\ Go(c, r, "chart", "bootstrap")
     /\ UNCHANGED <<err, onNode>>
  \/ /\ \E at \in {"config", "bootstrap", "start"} : Go(c, r, at, "send")
     /\ err' = [err EXCEPT ![c][r] = TRUE]
     /\ UNCHANGED onNode

(* Mutant of Fails: after an error there is nothing to send. *)
FailsSilently(c, r) ==
  /\ \E at \in Copying \cup {"start"} : Go(c, r, at, "done")
  /\ err' = [err EXCEPT ![c][r] = TRUE]
  /\ UNCHANGED onNode

(* A call fails: configRouter returns the error. *)
Fails(c, r) ==
  /\ \E at \in Copying \cup {"start"} : Go(c, r, at, "send")
  /\ err' = [err EXCEPT ![c][r] = TRUE]
  /\ UNCHANGED onNode

(* Mutant of Capacity: one router too few. *)
OneTooFew(c) == Cardinality(rs[c]) - 1

(* make(chan error, len(rs)) *)
Capacity(c) == Cardinality(rs[c])

(* ch <- err *)
Send(c, r) ==
  /\ work[c][r] = "send"
  /\ Len(ch[c]) < Capacity(c)
  /\ work' = [work EXCEPT ![c][r] = "done"]
  /\ ch' = [ch EXCEPT ![c] = Append(@, err[c][r])]
  /\ UNCHANGED <<run, rs, err, failed, onNode>>

(* Mutant of Hear: the last outcome counts. *)
HearLast(c) ==
  /\ run[c] = "hearing" /\ ch[c] # << >>
  /\ ch' = [ch EXCEPT ![c] = Tail(@)]
  /\ failed' = [failed EXCEPT ![c] = Head(ch[c])]
  /\ UNCHANGED <<run, rs, work, err, onNode>>

(* for err := range ch.  Nobody closes the channel, so there is no step    *)
(* after the loop: neither the return of configRouters nor the answer.     *)
Hear(c) ==
  /\ run[c] = "hearing" /\ ch[c] # << >>
  /\ ch' = [ch EXCEPT ![c] = Tail(@)]
  /\ failed' = [failed EXCEPT ![c] = @ \/ Head(ch[c])]
  /\ UNCHANGED <<run, rs, work, err, onNode>>

---------------------------------------------------------------------------
ConfigRouter(c, r) ==
  \/ SyncConfig(c, r) \/ SyncChart(c, r) \/ SyncBootstrap(c, r)
  \/ Bootstrap(c, r) \/ Fails(c, r) \/ Send(c, r)

Next ==
  \E c \in Runs : \/ OnRun(c) \/ Hear(c)
                  \/ \E r \in Routers : ConfigRouter(c, r)

Spec == Init /\ [][Next]_vars

(* A goroutine that can run is run, and rsync and ssh come back. *)
Fairness ==
  \A c \in Runs : /\ WF_vars(Hear(c))
                  /\ \A r \in Routers : WF_vars(ConfigRouter(c, r))

FairSpec == Spec /\ Fairness

---------------------------------------------------------------------------
(* Properties.                                                             *)

(* A goroutine never waits to send, whether or not it is heard: that       *)
(* nobody hears it cannot leak it.                                         *)
SendersPass ==
  \A c \in Runs, r \in Routers : work[c][r] = "send" => Len(ch[c]) < Capacity(c)

(* When all have sent and all is heard, the run has failed if and only if  *)
(* the configuration of some router has, in whatever order they ended.     *)
FailureKept ==
  \A c \in Runs :
    /\ run[c] = "hearing" /\ ch[c] = << >>
    /\ \A r \in rs[c] : work[c][r] = "done"
    => (failed[c] <=> \E r \in rs[c] : err[c][r])

(* The script is started on nodes only that have all the files, also when  *)
(* routers are configured by several requests.                             *)
BootstrapPrepared ==
  [][ \A c \in Runs, r \in Routers : Bootstrap(c, r) => onNode[r] = Files ]_vars

(* A run hears of every router that could not be configured. *)
FailureHeard == \A c \in Runs, r \in Routers : err[c][r] ~> failed[c]

(* onRun logs "routers configured" and answers "ok". *)
RunIsAnswered == \A c \in Runs : run[c] = "hearing" ~> run[c] = "answered"
=============================================================================
