----------------------------- MODULE ModelStore -----------------------------
(***************************************************************************)
(* User models, the phyos that are made of them, and the settings of the   *)
(* simulation: what onUpdate, onModelIco and doRead of cmd/addie/main.go   *)
(* do with them, and the statements of addie/db/postgres.go they run.      *)
(*                                                                         *)
(* Every design has a process of its own, with its elements and settings;  *)
(* the models are of the user, and every process has a copy, read when it  *)
(* starts.  A phyo names its model; a row of phyos has the key of a row of *)
(* models.  Requests are goroutines, and no lock is held.                  *)
(*                                                                         *)
(* The schema is not part of the repository; it is assumed that a user has *)
(* one model of a name and a design one element of an identity.  That a    *)
(* phyo changes its identity or is deleted is left to DesignStore.         *)
(***************************************************************************)
EXTENDS Naturals, Sequences, FiniteSets

CONSTANTS
  Designs,      \* the designs of one user, one process each
  Phyos,        \* identities of phyos: an identity names its design
  DesignOf(_),
  Names,        \* names of models,
  Bodies, Icons,\*   what else they are, and their icons
  Settings,     \* settings of a simulation, and
  SixDecimals(_),\*  what %f leaves of them in a statement
  FirstModel,   \* the model there is at the start,
  FirstSettings,\*   and settings of the simulation
  None,
  Handlers,     \* goroutines that serve requests
  Messages,     \* what clients send: design and items
  MaxKey,       \* bound: models ever stored
  MaxRequests,  \* bound: requests
  MaxFaults,    \* bound: statements that fail
  MaxCrashes    \* bound: deaths of a process

VARIABLES
  models, phyos, settings,              \* the tables
  userModels, elements, simSettings,    \* what the processes hold
  up,                                   \* how far their start is
  req,                                  \* what a goroutine is at
  web,                                  \* names with an icon on the web server
  doubt,                                \* what nothing is promised of
  requests, faults, crashes             \* counted so far

tables == <<models, phyos, settings>>
memory == <<userModels, elements, simSettings>>
counts == <<requests, faults, crashes>>
vars == <<tables, memory, up, req, web, doubt, counts>>

Keys == 1..MaxKey
Model == [name : Names, body : Bodies, icon : Icons]
Phyo == [id : Phyos, model : Names]
ModelItem == [kind : {"model"}, oid : Names, e : Model]
PhyoItem == [kind : {"phyo"}, e : Phyo]
AnyItem == ModelItem \cup PhyoItem
        \cup [kind : {"icon"}, name : Names, icon : Icons]
        \cup [kind : {"settings"}, e : Settings \cup {None}]

ASSUME BoundsAssumption ==
  {MaxKey, MaxRequests, MaxFaults, MaxCrashes} \subseteq Nat
ASSUME StartAssumption ==
  /\ FirstModel \in Model /\ FirstSettings \in Settings
  /\ MaxKey > 0
  /\ \A f \in Phyos : DesignOf(f) \in Designs
  /\ None \notin Model \cup Phyo \cup Settings \cup (0..MaxKey)
ASSUME SettingsAssumption ==
  /\ SixDecimals(FirstSettings) = FirstSettings   \* they are read from a row
  /\ \A s \in Settings :
       SixDecimals(s) \in Settings /\ SixDecimals(SixDecimals(s)) = SixDecimals(s)
ASSUME MessagesAssumption ==
  /\ Messages \subseteq [design : Designs, items : Seq(AnyItem)]
  /\ \A m \in Messages : \A k \in DOMAIN m.items :
       /\ m.items[k].kind = "icon" => Len(m.items) = 1
       /\ m.items[k].kind = "phyo" => DesignOf(m.items[k].e.id) = m.design
ASSUME DoubtAssumption ==
  Names \cap Phyos = {} /\ Designs \cap (Names \cup Phyos) = {}

Half == 0   \* an identity that has a key, and no row of phyos
Free == [pc |-> "free"]

(* ReadModelKey; ReadModel; ReadPhyoByKey.                                 *)
ModelKeys(n) == { k \in Keys : models[k] # None /\ models[k].name = n }
ReadModel(n) == IF ModelKeys(n) = {} THEN None
                ELSE models[CHOOSE k \in ModelKeys(n) : TRUE]
ReadPhyo(f) == IF phyos[f] \in {None, Half} THEN None
               ELSE [id |-> f, model |-> models[phyos[f]].name]

Init ==
  /\ models = [k \in Keys |-> IF k = 1 THEN FirstModel ELSE None]
  /\ phyos = [f \in Phyos |-> None]
  /\ settings = [d \in Designs |-> FirstSettings]
  /\ userModels = [d \in Designs |-> [n \in Names |-> ReadModel(n)]]
  /\ elements = [f \in Phyos |-> None]
  /\ simSettings = settings
  /\ up = [d \in Designs |-> "up"]
  /\ req = [h \in Handlers |-> Free]
  /\ web = {}
  /\ doubt = [d \in Designs |-> {}]
  /\ requests = 0 /\ faults = 0 /\ crashes = 0

---------------------------------------------------------------------------
(* What a message has to do with, and of what it leaves nothing certain.   *)

Items(m, kinds) == { m.items[k] : k \in { k \in DOMAIN m.items : m.items[k].kind \in kinds } }
Given(m) == { x.e.name : x \in Items(m, {"model"}) }
Renamed(m) == { x.oid : x \in { x \in Items(m, {"model"}) : x.oid # x.e.name } }
Gives(m) ==
  Given(m) \cup Renamed(m)
  \cup { x.name : x \in Items(m, {"icon"}) }
  \cup { x.e.id : x \in Items(m, {"phyo"}) }
  \cup (IF Items(m, {"settings"}) = {} THEN {} ELSE {m.design})
Refers(m) == { x.e.model : x \in Items(m, {"phyo"}) }
Touches(m) == Gives(m) \cup Refers(m)

InFlight == { req[h].msg : h \in { h \in Handlers : req[h].pc # "free" } }
Met(m) == { o \in InFlight : Touches(o) \cap Touches(m) # {} }

(* It gives a name that is taken, or a phyo a model that is not known, or  *)
(* one of its items has to do with what another one gives.                 *)
Clashes(m) ==
  \/ \E x \in Items(m, {"model"}) :
       x.oid # x.e.name /\ userModels[m.design][x.e.name] # None
  \/ \E n \in Refers(m) \ Given(m) :
       n \in Renamed(m) \/ userModels[m.design][n] = None
  \/ Given(m) \cap Renamed(m) # {}
  \/ \E j, k \in DOMAIN m.items :
       LET x == m.items[j]  y == m.items[k] IN
       /\ j # k /\ x.kind = y.kind
       /\ \/ x.kind = "model" /\ (x.oid = y.oid \/ x.e.name = y.e.name)
          \/ x.kind = "phyo" /\ x.e.id = y.e.id

(* Phyos that go on naming a model by the name it had.                     *)
Outdated(m, named) ==
  { f \in Phyos : named[f] # None /\ named[f].model \in Renamed(m) } \ Gives(m)

(* Nothing is promised of what a message gives if it meets another one, is *)
(* not consistent, or has to do with what nothing is promised of.          *)
Troubled(m) ==
  (IF Met(m) # {} \/ Clashes(m) \/ (Touches(m) \ Designs) \cap doubt[m.design] # {}
     THEN Gives(m) ELSE {})
  \cup UNION { Gives(o) : o \in Met(m) }

(* The other processes never hear of models that change.                   *)
DoubtsOf(m) ==
  [d \in Designs |-> doubt[d] \cup Troubled(m) \cup Outdated(m, elements)
                     \cup (IF d = m.design THEN {} ELSE Gives(m) \cap Names)]

Receive(h, m) ==
  /\ req[h].pc = "free" /\ up[m.design] = "up" /\ requests < MaxRequests
  /\ requests' = requests + 1
  /\ req' = [req EXCEPT ![h] = [pc |-> "place", msg |-> m, rest |-> m.items,
               models |-> << >>, newModels |-> << >>, nodes |-> << >>, newNodes |-> << >>,
               kill |-> {}, queue |-> << >>, key |-> None]]
  /\ doubt' = DoubtsOf(m)
  /\ UNCHANGED <<tables, memory, up, web, faults, crashes>>

---------------------------------------------------------------------------
(* onUpdate: the elements of the message, one by one.                      *)

D(h) == req[h].msg.design
Item(h) == Head(req[h].rest)
Placing(h, kind) ==
  req[h].pc = "place" /\ req[h].rest # << >> /\ Item(h).kind = kind

PlaceModel(h) ==
  LET x == Item(h)  known == userModels[D(h)][x.oid] # None IN
  /\ Placing(h, "model")
  /\ req' = [req EXCEPT ![h].rest = Tail(@),
                        ![h].models = IF known THEN Append(@, x) ELSE @,
                        ![h].newModels = IF known THEN @ ELSE Append(@, x),
                        ![h].kill = @ \cup ({x.oid} \ {x.e.name})]
  /\ UNCHANGED <<tables, memory, up, web, doubt, counts>>

PlacePhyo(h) ==
  LET x == Item(h)  known == elements[x.e.id] # None IN
  /\ Placing(h, "phyo")
  /\ req' = [req EXCEPT ![h].rest = Tail(@),
                        ![h].nodes = IF known THEN Append(@, x) ELSE @,
                        ![h].newNodes = IF known THEN @ ELSE Append(@, x)]
  /\ UNCHANGED <<tables, memory, up, web, doubt, counts>>

(* Settings are stored at once, with six decimals of each number; those    *)
(* that cannot be parsed end it all.                                       *)
StoreSettings(h) ==
  /\ Placing(h, "settings")
  /\ IF Item(h).e = None
       THEN /\ req' = [req EXCEPT ![h] = Free]
            /\ UNCHANGED settings
       ELSE /\ req' = [req EXCEPT ![h].pc = "settings"]
            /\ settings' = [settings EXCEPT ![D(h)] = SixDecimals(Item(h).e)]
  /\ UNCHANGED <<models, phyos, memory, up, web, doubt, counts>>

(* What is kept has all its decimals.                                      *)
KeepSettings(h) ==
  /\ req[h].pc = "settings"
  /\ simSettings' = [simSettings EXCEPT ![D(h)] = Item(h).e]
  /\ req' = [req EXCEPT ![h].pc = "place", ![h].rest = Tail(@)]
  /\ UNCHANGED <<tables, userModels, elements, up, web, doubt, counts>>

(* Mutant: the error is logged, and the settings are kept all the same.    *)
SettingsKept(h) ==
  /\ Placing(h, "settings") /\ Item(h).e # None
  /\ faults < MaxFaults /\ faults' = faults + 1
  /\ req' = [req EXCEPT ![h].pc = "settings"]
  /\ UNCHANGED <<tables, memory, up, web, doubt, requests, crashes>>

(* updateSimSettings gives up at a statement that fails, whose answer may  *)
(* be all that was lost.                                                   *)
SettingsFail(h) ==
  /\ Placing(h, "settings") /\ Item(h).e # None
  /\ faults < MaxFaults /\ faults' = faults + 1
  /\ req' = [req EXCEPT ![h].rest = Tail(@)]
  /\ \/ UNCHANGED <<settings, doubt>>
     \/ /\ settings' = [settings EXCEPT ![D(h)] = SixDecimals(Item(h).e)]
        /\ doubt' = [doubt EXCEPT ![D(h)] = @ \cup {D(h)}]
  /\ UNCHANGED <<models, phyos, memory, up, web, requests, crashes>>

(* Mutant: phyos are stored before the models they are made of.            *)
PhyosFirst(r) == r.nodes \o r.newNodes \o r.models \o r.newModels

Order(r) == r.models \o r.newModels \o r.nodes \o r.newNodes

(* The first statement for an element: "name" that of its table, "id" the  *)
(* identity a phyo has.                                                    *)
First(queue) ==
  IF queue = << >> THEN "kill" ELSE IF Head(queue).kind = "model" THEN "model" ELSE "id"

Placed(h) ==
  /\ req[h].pc = "place" /\ req[h].rest = << >>
  /\ req' = [req EXCEPT ![h].pc = First(Order(req[h])), ![h].queue = Order(req[h])]
  /\ UNCHANGED <<tables, memory, up, web, doubt, counts>>

---------------------------------------------------------------------------
(* onUpdate: dbCreate or dbUpdate of an element, then the map.             *)

X(h) == Head(req[h].queue)
IsNew(h) == \E k \in DOMAIN req[h].newModels : req[h].newModels[k] = X(h)

(* Mutant: the row is looked up by the name it is to have.                 *)
UpdateNamed(oldName, m) == [k \in Keys |-> IF k \in ModelKeys(m.name) THEN m ELSE models[k]]

(* UpdateModel; the row of the name, if there is one, unless the new name  *)
(* is that of another.                                                     *)
Update(oldName, m) ==
  IF m.name # oldName /\ ModelKeys(m.name) # {} THEN models
  ELSE [k \in Keys |-> IF k \in ModelKeys(oldName) THEN m ELSE models[k]]

(* CreateModel *)
Create(m) ==
  IF ModelKeys(m.name) # {} THEN {models}
  ELSE { [models EXCEPT ![k] = m] : k \in { k \in Keys : /\ models[k] = None
                                                         /\ \A j \in 1..(k - 1) : models[j] # None } }

StoreModel(h) ==
  /\ req[h].pc = "model"
  /\ models' \in IF IsNew(h) THEN Create(X(h).e)
                 ELSE IF userModels[D(h)][X(h).oid] = None THEN {models}
                 ELSE {Update(X(h).oid, X(h).e)}
  /\ req' = [req EXCEPT ![h].pc = "keep"]
  /\ UNCHANGED <<phyos, settings, memory, up, web, doubt, counts>>

(* CreateId, and CreatePosition; or UpdateId, and UpdatePosition of the    *)
(* row of the phyo.  Without any of them the rest is left.                 *)
PhyoId(h) ==
  LET f == X(h).e.id
      new == \E k \in DOMAIN req[h].newNodes : req[h].newNodes[k] = X(h) IN
  /\ req[h].pc = "id"
  /\ \/ /\ new /\ phyos[f] = None
        /\ phyos' = [phyos EXCEPT ![f] = Half]
        /\ req' = [req EXCEPT ![h].pc = "key"]
     \/ /\ ~new /\ elements[f] # None /\ phyos[f] \notin {None, Half}
        /\ req' = [req EXCEPT ![h].pc = "key"]
        /\ UNCHANGED phyos
     \/ /\ IF new THEN phyos[f] # None
                  ELSE elements[f] = None \/ phyos[f] \in {None, Half}
        /\ req' = [req EXCEPT ![h].pc = "keep"]
        /\ UNCHANGED phyos
  /\ UNCHANGED <<models, settings, memory, up, web, doubt, counts>>

(* ReadModelKey of the model it names *)
PhyoModel(h) ==
  /\ req[h].pc = "key"
  /\ LET keys == ModelKeys(X(h).e.model) IN
     req' = [req EXCEPT ![h].pc = IF keys = {} THEN "keep" ELSE "row",
                        ![h].key = IF keys = {} THEN None ELSE CHOOSE k \in keys : TRUE]
  /\ UNCHANGED <<tables, memory, up, web, doubt, counts>>

PhyoRow(h) ==
  /\ req[h].pc = "row"
  /\ phyos' = [phyos EXCEPT ![X(h).e.id] = req[h].key]
  /\ req' = [req EXCEPT ![h].pc = "keep", ![h].key = None]
  /\ UNCHANGED <<models, settings, memory, up, web, doubt, counts>>

(* A statement that fails is logged.                                       *)
Fail(h) ==
  /\ req[h].pc \in {"model", "id", "key", "row"}
  /\ faults < MaxFaults /\ faults' = faults + 1
  /\ doubt' = [d \in Designs |-> doubt[d] \cup (Gives(req[h].msg) \ Designs)]
  /\ req' = [req EXCEPT ![h].pc = "keep", ![h].key = None]
  /\ UNCHANGED <<tables, memory, up, web, requests, crashes>>

Keep(h) ==
  /\ req[h].pc = "keep"
  /\ IF X(h).kind = "model"
       THEN /\ userModels' = [userModels EXCEPT ![D(h)][X(h).e.name] = X(h).e]
            /\ UNCHANGED elements
       ELSE /\ elements' = [elements EXCEPT ![X(h).e.id] = X(h).e]
            /\ UNCHANGED userModels
  /\ req' = [req EXCEPT ![h].queue = Tail(@), ![h].pc = First(Tail(req[h].queue))]
  /\ UNCHANGED <<tables, simSettings, up, web, doubt, counts>>

(* modelKillList, and the answer *)
Kill(h) ==
  /\ req[h].pc = "kill"
  /\ userModels' = [userModels EXCEPT ![D(h)] =
       [n \in Names |-> IF n \in req[h].kill THEN None ELSE @[n]]]
  /\ req' = [req EXCEPT ![h] = Free]
  /\ UNCHANGED <<tables, elements, simSettings, up, web, doubt, counts>>

---------------------------------------------------------------------------
(* onModelIco: the model as the map has it, with another icon, is written  *)
(* back, to the map first.                                                 *)
TakeIcon(h) ==
  LET x == Item(h)  m == userModels[D(h)][x.name] IN
  /\ Placing(h, "icon")
  /\ IF m = None
       THEN /\ req' = [req EXCEPT ![h].pc = "web"]
            /\ UNCHANGED userModels
       ELSE LET given == [m EXCEPT !.icon = x.icon] IN
            /\ userModels' = [userModels EXCEPT ![D(h)][x.name] = given]
            /\ req' = [req EXCEPT ![h].pc = "icon", ![h].queue =
                         <<[kind |-> "model", oid |-> x.name, e |-> given]>>]
  /\ UNCHANGED <<tables, elements, simSettings, up, web, doubt, counts>>

StoreIcon(h) ==
  /\ req[h].pc = "icon"
  /\ \/ /\ models' = Update(X(h).oid, X(h).e)
        /\ UNCHANGED <<doubt, faults>>
     \/ /\ faults < MaxFaults /\ faults' = faults + 1
        /\ doubt' = [d \in Designs |-> doubt[d] \cup Gives(req[h].msg)]
        /\ UNCHANGED models
  /\ req' = [req EXCEPT ![h].pc = "web", ![h].queue = << >>]
  /\ UNCHANGED <<phyos, settings, memory, up, web, requests, crashes>>

(* The file is copied by rsync; an error is logged.                        *)
CopyIcon(h) ==
  /\ req[h].pc = "web"
  /\ web' \in {web, web \cup {Item(h).name}}
  /\ req' = [req EXCEPT ![h] = Free]
  /\ UNCHANGED <<tables, memory, up, doubt, counts>>

---------------------------------------------------------------------------
(* The death of a process, and doRead of the one started for it: the       *)
(* design first, then the models and settings.                             *)

Die(d) ==
  /\ up[d] # "down"
  /\ crashes < MaxCrashes /\ crashes' = crashes + 1
  /\ up' = [up EXCEPT ![d] = "down"]
  /\ req' = [h \in Handlers |->
              IF req[h].pc # "free" /\ D(h) = d THEN Free ELSE req[h]]
  /\ userModels' = [userModels EXCEPT ![d] = [n \in Names |-> None]]
  /\ elements' = [f \in Phyos |-> IF DesignOf(f) = d THEN None ELSE elements[f]]
  /\ UNCHANGED <<tables, simSettings, web, doubt, requests, faults>>

(* Of an identity left without a phyo, and of what other processes are at, *)
(* nothing is promised from the start.                                     *)
LoadDesign(d) ==
  LET own == [f \in Phyos |-> IF DesignOf(f) = d THEN ReadPhyo(f) ELSE None] IN
  /\ up[d] = "down"
  /\ up' = [up EXCEPT ![d] = "read"]
  /\ elements' = [f \in Phyos |-> IF DesignOf(f) = d THEN own[f] ELSE elements[f]]
  /\ doubt' = [doubt EXCEPT ![d] =
                 { f \in Phyos : phyos[f] = Half }
                 \cup UNION { (Gives(m) \cap Names) \cup Outdated(m, own) : m \in InFlight }]
  /\ UNCHANGED <<tables, userModels, simSettings, req, web, counts>>

LoadModels(d) ==
  /\ up[d] = "read"
  /\ up' = [up EXCEPT ![d] = "up"]
  /\ userModels' = [userModels EXCEPT ![d] = [n \in Names |-> ReadModel(n)]]
  /\ simSettings' = [simSettings EXCEPT ![d] = settings[d]]
  /\ UNCHANGED <<tables, elements, req, web, doubt, counts>>

Next ==
  \/ \E h \in Handlers, m \in Messages : Receive(h, m)
  \/ \E h \in Handlers :
       \/ PlaceModel(h) \/ PlacePhyo(h)
       \/ StoreSettings(h) \/ KeepSettings(h) \/ SettingsFail(h)
       \/ Placed(h)
       \/ StoreModel(h) \/ PhyoId(h) \/ PhyoModel(h) \/ PhyoRow(h)
       \/ Fail(h) \/ Keep(h) \/ Kill(h)
       \/ TakeIcon(h) \/ StoreIcon(h) \/ CopyIcon(h)
  \/ \E d \in Designs : Die(d) \/ LoadDesign(d) \/ LoadModels(d)

Spec == Init /\ [][Next]_vars

---------------------------------------------------------------------------
Request == [pc : {"place", "settings", "icon", "web", "model", "id", "key", "row",
                  "keep", "kill"},
            msg : Messages, rest : Seq(AnyItem),
            models : Seq(ModelItem), newModels : Seq(ModelItem),
            nodes : Seq(PhyoItem), newNodes : Seq(PhyoItem),
            kill : SUBSET Names, queue : Seq(ModelItem \cup PhyoItem),
            key : Keys \cup {None}]

TypeOK ==
  /\ models \in [Keys -> Model \cup {None}]
  /\ phyos \in [Phyos -> Keys \cup {Half, None}]
  /\ settings \in [Designs -> Settings]
  /\ userModels \in [Designs -> [Names -> Model \cup {None}]]
  /\ elements \in [Phyos -> Phyo \cup {None}]
  /\ simSettings \in [Designs -> Settings]
  /\ up \in [Designs -> {"down", "read", "up"}]
  /\ req \in [Handlers -> Request \cup {Free}]
  /\ web \subseteq Names
  /\ doubt \in [Designs -> SUBSET (Names \cup Phyos \cup Designs)]
  /\ requests \in 0..MaxRequests /\ faults \in 0..MaxFaults /\ crashes \in 0..MaxCrashes

Quiet(d) == up[d] = "up" /\ \A m \in InFlight : m.design # d

(* What a process holds that serves no request is what it would read if it *)
(* were started again: of a model that no other process changed, and that  *)
(* no two requests were at at once.                                        *)
ModelsDurable ==
  \A d \in Designs : Quiet(d) =>
    \A n \in Names \ doubt[d] : userModels[d][n] = ReadModel(n)

(* And of a phyo, whose model goes by another name once it is renamed.     *)
PhyosDurable ==
  \A d \in Designs : Quiet(d) =>
    \A f \in Phyos \ doubt[d] : DesignOf(f) = d => elements[f] = ReadPhyo(f)

(* The settings are only kept once they are stored, whatever fails: a      *)
(* process started again would have what this one has, to six decimals.    *)
SettingsDurable ==
  \A d \in Designs :
    Quiet(d) /\ d \notin doubt[d] => settings[d] = SixDecimals(simSettings[d])
===============================================================================
