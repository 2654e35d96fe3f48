------------------------------ MODULE Gatekeeper ------------------------------
(***************************************************************************)
(* How a design comes into being and comes to be served: the gatekeeper    *)
(* (cmd/gatekeeper/main.go), which creates designs and starts processes of *)
(* addie, and the start of such a process (main, doRead and listen of      *)
(* cmd/addie/main.go).                                                     *)
(*                                                                         *)
(* newXP writes the three rows of a design one after the other and without *)
(* a transaction.  launchAddie looks for a process and starts one when it  *)
(* finds none.  A process reads the design first and takes the port last,  *)
(* and only a process that has the port edits the design.                  *)
(*                                                                         *)
(* The schema is not part of the repository; a name is assumed to occur    *)
(* once among the designs of a user.  One user is modelled.                *)
(***************************************************************************)

CONSTANTS
  Designs,    \* names of designs
  SeenAs,     \* <<d, e>>: pgrep for d reports a process that serves e
  Handlers,   \* goroutines of the gatekeeper
  Procs,      \* processes of addie
  Edits,      \* what users put into designs
  None

ASSUME SeenAsAssumption ==
  SeenAs \subseteq Designs \X Designs /\ \A d \in Designs : <<d, d>> \in SeenAs
ASSUME NoneAssumption == None \notin Designs

VARIABLES
  designs, roots, settings,  \* designs with a row, a root system, sim settings
  stored,                    \* what the database holds of a design
  pc, name,                  \* handlers: stage, and the design asked for
  answered,                  \* history: designs newXP answered 200 for
  state, serves, mem,        \* processes: stage, design and its elements
  overtaken                  \* history: processes whose design was served, and its
                             \* server died, after they read it

db == <<designs, roots, settings>>
gate == <<pc, name, answered>>
procs == <<state, serves, mem, overtaken>>
vars == <<db, stored, gate, procs>>

CreateStages == {"design", "root", "settings"}
Stages == CreateStages \cup {"idle", "pgrep", "start"}
ProcStages == {"off", "started", "read", "loaded", "listening"}

TypeOK ==
  /\ designs \subseteq Designs /\ roots \subseteq Designs /\ settings \subseteq Designs
  /\ stored \in [Designs -> SUBSET Edits]
  /\ pc \in [Handlers -> Stages]
  /\ name \in [Handlers -> Designs \cup {None}]
  /\ answered \subseteq Designs
  /\ state \in [Procs -> ProcStages]
  /\ serves \in [Procs -> Designs \cup {None}]
  /\ mem \in [Procs -> SUBSET Edits]
  /\ overtaken \subseteq Procs

Init ==
  /\ designs = {} /\ roots = {} /\ settings = {}
  /\ stored = [d \in Designs |-> {}]
  /\ pc = [h \in Handlers |-> "idle"]
  /\ name = [h \in Handlers |-> None]
  /\ answered = {}
  /\ state = [p \in Procs |-> "off"]
  /\ serves = [p \in Procs |-> None]
  /\ mem = [p \in Procs |-> {}]
  /\ overtaken = {}

---------------------------------------------------------------------------
(* The gatekeeper.                                                         *)

Go(h, from, to) == pc[h] = from /\ pc' = [pc EXCEPT ![h] = to]

Ask(h, d, stage) ==
  /\ Go(h, "idle", stage)
  /\ name' = [name EXCEPT ![h] = d]
  /\ UNCHANGED <<db, stored, answered, procs>>

(* newXP: CreateDesign, which writes the design and its root system, then  *)
(* CreateSimSettings.  An error ends it with what is written by then.      *)
NewXP(h) == \E d \in Designs : Ask(h, d, "design")

(* Mutant of CreateDesign: a design that is there already will do. *)
CreateOrKeep(h) ==
  \/ /\ name[h] \notin designs
     /\ Go(h, "design", "root")
     /\ designs' = designs \cup {name[h]}
     /\ UNCHANGED <<roots, settings, stored, name, answered, procs>>
  \/ /\ name[h] \in designs
     /\ Go(h, "design", "settings")
     /\ UNCHANGED <<db, stored, name, answered, procs>>

CreateDesign(h) ==
  /\ Go(h, "design", "root")
  /\ name[h] \notin designs
  /\ designs' = designs \cup {name[h]}
  /\ UNCHANGED <<roots, settings, stored, name, answered, procs>>

CreateRoot(h) ==
  /\ Go(h, "root", "settings")
  /\ roots' = roots \cup {name[h]}
  /\ UNCHANGED <<designs, settings, stored, name, answered, procs>>

CreateSimSettings(h) ==
  /\ Go(h, "settings", "idle")
  /\ settings' = settings \cup {name[h]}
  /\ answered' = answered \cup {name[h]}
  /\ UNCHANGED <<designs, roots, stored, name, procs>>

(* A statement fails: the connection, or the name is taken. *)
NewXPFails(h) ==
  /\ pc[h] \in CreateStages
  /\ pc' = [pc EXCEPT ![h] = "idle"]
  /\ UNCHANGED <<db, stored, name, answered, procs>>

(* launchAddie: pgrep, then the start of a process. *)
LaunchAddie(h) == \E d \in Designs : Ask(h, d, "pgrep")

Sees(h, p) == state[p] # "off" /\ <<name[h], serves[p]>> \in SeenAs

FindRunning(h) ==
  /\ Go(h, "pgrep", "idle")
  /\ \E p \in Procs : Sees(h, p)
  /\ UNCHANGED <<db, stored, name, answered, procs>>

FindNone(h) ==
  /\ Go(h, "pgrep", "start")
  /\ \A p \in Procs : ~Sees(h, p)
  /\ UNCHANGED <<db, stored, name, answered, procs>>

StartAddie(h) ==
  /\ Go(h, "start", "idle")
  /\ \E p \in Procs :
       /\ state[p] = "off"
       /\ state' = [state EXCEPT ![p] = "started"]
       /\ serves' = [serves EXCEPT ![p] = name[h]]
       /\ overtaken' = overtaken \ {p}
  /\ UNCHANGED <<db, stored, name, answered, mem>>

(* What Start returns is not looked at. *)
StartFails(h) ==
  /\ Go(h, "start", "idle")
  /\ UNCHANGED <<db, stored, name, answered, procs>>

(* The gatekeeper dies, and is started again. *)
GatekeeperDies ==
  /\ pc' = [h \in Handlers |-> "idle"]
  /\ UNCHANGED <<db, stored, name, answered, procs>>

---------------------------------------------------------------------------
(* A process of addie.                                                     *)

Step(p, from, to) == state[p] = from /\ state' = [state EXCEPT ![p] = to]

(* doRead: the elements of the design, then its settings. *)
ReadDesign(p) ==
  /\ Step(p, "started", "read")
  /\ serves[p] \in designs
  /\ mem' = [mem EXCEPT ![p] = stored[serves[p]]]
  /\ UNCHANGED <<db, stored, gate, serves, overtaken>>

(* Mutant of ReadSimSettings: without settings there are defaults. *)
ReadOrDefaultSettings(p) ==
  /\ Step(p, "read", "loaded")
  /\ UNCHANGED <<db, stored, gate, serves, mem, overtaken>>

ReadSimSettings(p) ==
  /\ Step(p, "read", "loaded")
  /\ serves[p] \in settings
  /\ UNCHANGED <<db, stored, gate, serves, mem, overtaken>>

(* A read fails, for want of a row or of a connection: log.Fatal. *)
ReadFails(p) ==
  /\ Step(p, "started", "off") \/ Step(p, "read", "off")
  /\ UNCHANGED <<db, stored, gate, serves, mem, overtaken>>

(* ListenAndServeTLS: the port is one for all designs of the host, and a   *)
(* process that cannot have it is done: log.Fatal.                         *)
Taken == \E q \in Procs : state[q] = "listening"

(* Mutant of Listen: the port is shared. *)
ListenToo(p) ==
  /\ Step(p, "loaded", "listening")
  /\ UNCHANGED <<db, stored, gate, serves, mem, overtaken>>

Listen(p) ==
  /\ Step(p, "loaded", "listening")
  /\ ~Taken
  /\ UNCHANGED <<db, stored, gate, serves, mem, overtaken>>

ListenFails(p) ==
  /\ Step(p, "loaded", "off")
  /\ Taken
  /\ UNCHANGED <<db, stored, gate, serves, mem, overtaken>>

(* onUpdate, as far as it matters here: memory and database both change.   *)
(* DesignStore is about how they do.                                       *)
Edit(p) ==
  /\ state[p] = "listening"
  /\ \E e \in Edits :
       /\ stored' = [stored EXCEPT ![serves[p]] = @ \cup {e}]
       /\ mem' = [mem EXCEPT ![p] = @ \cup {e}]
  /\ UNCHANGED <<db, gate, state, serves, overtaken>>

(* Those that have read what the dying process serves, and may yet get the *)
(* port it leaves.                                                         *)
Overtaken(p) ==
  {q \in Procs : state[q] \in {"read", "loaded"} /\ serves[q] = serves[p]}

AddieDies(p) ==
  /\ state[p] # "off" /\ state' = [state EXCEPT ![p] = "off"]
  /\ overtaken' = IF state[p] = "listening" THEN overtaken \cup Overtaken(p) ELSE overtaken
  /\ UNCHANGED <<db, stored, gate, serves, mem>>

---------------------------------------------------------------------------
Gate(h) ==
  \/ NewXP(h) \/ CreateDesign(h) \/ CreateRoot(h) \/ CreateSimSettings(h) \/ NewXPFails(h)
  \/ LaunchAddie(h) \/ FindRunning(h) \/ FindNone(h) \/ StartAddie(h) \/ StartFails(h)

Addie(p) ==
  \/ ReadDesign(p) \/ ReadSimSettings(p) \/ ReadFails(p)
  \/ Listen(p) \/ ListenFails(p) \/ Edit(p) \/ AddieDies(p)

Next ==
  \/ \E h \in Handlers : Gate(h)
  \/ \E p \in Procs : Addie(p)
  \/ GatekeeperDies

Spec == Init /\ [][Next]_vars

---------------------------------------------------------------------------
(* Properties.                                                             *)

(* A process serves a design only if all its rows are there: doRead looks  *)
(* for the settings, which newXP writes last, so the root system that      *)
(* every element of a new design needs is there too, even when newXP       *)
(* failed, died, or still ran when the process was launched.               *)
ServesComplete ==
  \A p \in Procs : state[p] = "listening" => serves[p] \in designs \cap roots \cap settings

(* A design newXP answered 200 for is complete, whatever was attempted     *)
(* under its name before.                                                  *)
AnsweredComplete == answered \subseteq designs \cap roots \cap settings

(* The design a process serves is the one that is stored, however many     *)
(* launches race and whoever dies: nobody else has written it since the    *)
(* process read it.  There is one window: another process that served the  *)
(* design died after this one read it and before it asked for the port.    *)
ServesStored ==
  \A p \in Procs : state[p] = "listening" /\ p \notin overtaken => mem[p] = stored[serves[p]]

---------------------------------------------------------------------------
(* The inductive invariants.                                               *)

(* The rows of a design are written in one order, and a handler that is    *)
(* about to write one has seen to those before it.                         *)
RowsInOrder ==
  /\ roots \subseteq designs
  /\ settings \subseteq roots
  /\ answered \subseteq settings
  /\ \A h \in Handlers : /\ pc[h] = "root" => name[h] \in designs
                         /\ pc[h] = "settings" => name[h] \in roots
                         /\ pc[h] # "idle" => name[h] \in Designs
  /\ \A p \in Procs : /\ state[p] # "off" => serves[p] \in Designs
                      /\ state[p] \in {"loaded", "listening"} => serves[p] \in settings

(* A process that has read the design and has not been overtaken knows what *)
(* is stored, unless a process that listens edits the design right now.    *)
ReadersCurrent ==
  \A p \in Procs :
    /\ state[p] \in {"read", "loaded"}
    /\ p \notin overtaken
    /\ \A q \in Procs : state[q] = "listening" => serves[q] # serves[p]
    => mem[p] = stored[serves[p]]

OneListens ==
  \A p, q \in Procs : state[p] = "listening" /\ state[q] = "listening" => p = q
===============================================================================
