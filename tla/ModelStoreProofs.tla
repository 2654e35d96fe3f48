-------------------------- MODULE ModelStoreProofs --------------------------
(***************************************************************************)
(* Of ModelStore: its types; that the settings a process keeps are those   *)
(* that are stored; and that the models and the phyos it keeps are those   *)
(* that are stored, by the inductive invariant of ModelAgreement.          *)
(***************************************************************************)
EXTENDS ModelAgreement, SequenceTheorems, TLAPS

(* What a request needs at the statement it is at.                         *)
Staged(r, ms) ==
  /\ r.pc \in {"settings", "icon", "web"} => r.rest # << >>
  /\ r.pc = "settings" => Head(r.rest).kind = "settings" /\ Head(r.rest).e \in Settings
  /\ r.pc \in {"icon", "web"} => Head(r.rest).kind = "icon"
  /\ r.pc \in {"model", "icon"} => r.queue # << >> /\ Head(r.queue).kind = "model"
  /\ r.pc \in {"id", "key", "row"} => r.queue # << >> /\ Head(r.queue).kind = "phyo"
  /\ r.pc = "keep" => r.queue # << >>
  /\ r.pc = "row" => r.key \in Keys /\ ms[r.key] # None

Stage ==
  /\ \A f \in Phyos : phyos[f] \in Keys => models[phyos[f]] # None
  /\ \A h \in Handlers : Staged(req[h], models)

Typed == TypeOK /\ Stage

(* The types of all but the requests, of which rows of models stay.        *)
Rest ==
  /\ models \in [Keys -> Model \cup {None}]
  /\ phyos \in [Phyos -> Keys \cup {Half, None}]
  /\ settings \in [Designs -> Settings]
  /\ userModels \in [Designs -> [Names -> Model \cup {None}]]
  /\ elements \in [Phyos -> Phyo \cup {None}]
  /\ simSettings \in [Designs -> Settings]
  /\ up \in [Designs -> {"down", "read", "up"}]
  /\ web \subseteq Names
  /\ doubt \in [Designs -> SUBSET (Names \cup Phyos \cup Designs)]
  /\ requests \in 0..MaxRequests /\ faults \in 0..MaxFaults /\ crashes \in 0..MaxCrashes
  /\ \A f \in Phyos : phyos[f] \in Keys => models[phyos[f]] # None

Stays == \A k \in Keys : models[k] # None => models'[k] # None

(* The kind of an item says which record it is.                            *)
LEMMA KindsOfItems ==
  \A x \in AnyItem :
    /\ x.kind \in {"model", "phyo", "icon", "settings"}
    /\ x.kind = "model" => x \in ModelItem
    /\ x.kind = "phyo" => x \in PhyoItem
    /\ x.kind = "icon" => x.name \in Names /\ x.icon \in Icons
    /\ x.kind = "settings" => x.e \in Settings \cup {None}
BY DEF AnyItem, ModelItem, PhyoItem

(* A step of a request leaves the requests typed, if what it becomes is.   *)
LEMMA StepOfRequest ==
  ASSUME Typed, NEW h \in Handlers, NEW r \in Request \cup {Free},
         req' = [req EXCEPT ![h] = r], Staged(r, models'), Stays, Rest'
  PROVE  Typed'
<1>1. req' \in [Handlers -> Request \cup {Free}]
  BY DEF Typed, TypeOK
<1>2. ASSUME NEW g \in Handlers PROVE Staged(req'[g], models')
  <2>1. CASE g = h
    BY <2>1 DEF Typed, TypeOK
  <2>2. CASE g # h
    BY <2>2 DEF Typed, TypeOK, Stage, Staged, Stays
  <2> QED BY <2>1, <2>2
<1> QED BY <1>1, <1>2 DEF Typed, TypeOK, Stage, Rest

(* A request that is being served, and the first of what it has.           *)
LEMMA Served ==
  ASSUME Typed, NEW h \in Handlers, req[h].pc # "free"
  PROVE  /\ req[h] \in Request
         /\ D(h) \in Designs
         /\ Staged(req[h], models)
         /\ req[h].rest # << >> => Item(h) \in AnyItem /\ Tail(req[h].rest) \in Seq(AnyItem)
         /\ req[h].queue # << >> =>
              /\ X(h) \in ModelItem \cup PhyoItem
              /\ Tail(req[h].queue) \in Seq(ModelItem \cup PhyoItem)
<1>1. req[h] \in Request
  BY DEF Typed, TypeOK, Free
<1>2. req[h].msg \in Messages /\ req[h].rest \in Seq(AnyItem)
      /\ req[h].queue \in Seq(ModelItem \cup PhyoItem)
  BY <1>1 DEF Request
<1>3. req[h].msg.design \in Designs
  BY <1>2, MessagesAssumption
<1> QED BY <1>1, <1>2, <1>3 DEF D, Item, X, Typed, Stage

(* A place in the file of models for what is read, which is a model.       *)
LEMMA ModelsRead ==
  ASSUME models \in [Keys -> Model \cup {None}], NEW n
  PROVE  /\ ReadModel(n) \in Model \cup {None}
         /\ ModelKeys(n) \subseteq Keys
         /\ \A k \in ModelKeys(n) : models[k] # None
<1>1. ModelKeys(n) \subseteq Keys /\ \A k \in ModelKeys(n) : models[k] # None
  BY DEF ModelKeys
<1>2. CASE ModelKeys(n) = {}
  BY <1>1, <1>2 DEF ReadModel
<1>3. CASE ModelKeys(n) # {}
  <2>1. (CHOOSE k \in ModelKeys(n) : TRUE) \in Keys
    BY <1>1, <1>3
  <2> QED BY <1>1, <1>3, <2>1 DEF ReadModel
<1> QED BY <1>1, <1>2, <1>3

(* The first statement fits the element it is for.                         *)
LEMMA FirstFits ==
  ASSUME NEW q \in Seq(ModelItem \cup PhyoItem)
  PROVE  /\ First(q) \in {"kill", "model", "id"}
         /\ First(q) = "model" => q # << >> /\ Head(q).kind = "model"
         /\ First(q) = "id" => q # << >> /\ Head(q).kind = "phyo"
BY DEF First, ModelItem, PhyoItem

---------------------------------------------------------------------------
(* Every step of a request keeps the types: what it becomes is a request,  *)
(* fit for the statement it is at.                                         *)

LEMMA InitTyped == Init => Typed
<1> SUFFICES ASSUME Init PROVE Typed
  OBVIOUS
<1>1. models \in [Keys -> Model \cup {None}]
  BY StartAssumption DEF Init
<1>2. \A n \in Names : ReadModel(n) \in Model \cup {None}
  BY <1>1, ModelsRead
<1>3. None \notin Keys
  BY StartAssumption, BoundsAssumption DEF Keys
<1>4. TypeOK
  <2>1. /\ phyos \in [Phyos -> Keys \cup {Half, None}]
        /\ settings \in [Designs -> Settings]
        /\ elements \in [Phyos -> Phyo \cup {None}]
        /\ simSettings \in [Designs -> Settings]
        /\ up \in [Designs -> {"down", "read", "up"}]
        /\ req \in [Handlers -> Request \cup {Free}]
    BY StartAssumption DEF Init
  <2>2. userModels \in [Designs -> [Names -> Model \cup {None}]]
    BY <1>2 DEF Init
  <2>3. /\ web \subseteq Names
        /\ doubt \in [Designs -> SUBSET (Names \cup Phyos \cup Designs)]
        /\ requests \in 0..MaxRequests /\ faults \in 0..MaxFaults
        /\ crashes \in 0..MaxCrashes
    BY BoundsAssumption DEF Init
  <2> QED BY <1>1, <2>1, <2>2, <2>3 DEF TypeOK
<1>5. Stage
  BY <1>3 DEF Stage, Init, Staged, Free
<1> QED BY <1>4, <1>5 DEF Typed

LEMMA GivenInMessages ==
  ASSUME NEW m \in Messages
  PROVE  /\ Gives(m) \subseteq Names \cup Phyos \cup Designs
         /\ m.design \in Designs /\ m.items \in Seq(AnyItem)
<1>1. m.design \in Designs /\ m.items \in Seq(AnyItem)
  BY MessagesAssumption
<1>2. \A kinds : \A x \in Items(m, kinds) : x \in AnyItem /\ x.kind \in kinds
  BY <1>1 DEF Items
<1>3. Given(m) \subseteq Names /\ Renamed(m) \subseteq Names
  BY <1>2, KindsOfItems DEF Given, Renamed, ModelItem, Model
<1>4. { x.name : x \in Items(m, {"icon"}) } \subseteq Names
  BY <1>2, KindsOfItems
<1>5. { x.e.id : x \in Items(m, {"phyo"}) } \subseteq Phyos
  BY <1>2, KindsOfItems DEF PhyoItem, Phyo
<1> QED BY <1>1, <1>3, <1>4, <1>5 DEF Gives

LEMMA ReceiveTyped ==
  ASSUME Typed, NEW h \in Handlers, NEW m \in Messages, Receive(h, m)
  PROVE  Typed'
<1> DEFINE r == [pc |-> "place", msg |-> m, rest |-> m.items,
               models |-> << >>, newModels |-> << >>, nodes |-> << >>, newNodes |-> << >>,
               kill |-> {}, queue |-> << >>, key |-> None]
<1>1. r \in Request
  BY GivenInMessages DEF Request
<1>2. Staged(r, models')
  BY DEF Staged
<1>3. doubt' \in [Designs -> SUBSET (Names \cup Phyos \cup Designs)]
  <2>1. Gives(m) \subseteq Names \cup Phyos \cup Designs
    BY GivenInMessages
  <2>2. \A o \in Met(m) : Gives(o) \subseteq Names \cup Phyos \cup Designs
    <3>1. \A o \in InFlight : o \in Messages
      BY Served DEF InFlight, Request
    <3> QED BY <3>1, GivenInMessages DEF Met
  <2>3. Troubled(m) \subseteq Names \cup Phyos \cup Designs
    BY <2>1, <2>2 DEF Troubled
  <2>4. Outdated(m, elements) \subseteq Phyos
    BY DEF Outdated
  <2> QED BY <2>1, <2>3, <2>4 DEF Receive, DoubtsOf, Typed, TypeOK
<1>4. requests' \in 0..MaxRequests
  BY BoundsAssumption DEF Receive, Typed, TypeOK
<1>5. Rest' /\ Stays
  BY <1>3, <1>4 DEF Receive, Rest, Stays, Typed, TypeOK, Stage, tables, memory
<1>6. req' = [req EXCEPT ![h] = r]
  BY DEF Receive
<1> QED BY <1>1, <1>2, <1>5, <1>6, StepOfRequest

LEMMA PlaceModelTyped ==
  ASSUME Typed, NEW h \in Handlers, PlaceModel(h)
  PROVE  Typed'
<1> DEFINE x == Item(h)
           known == userModels[D(h)][x.oid] # None
           r == [req[h] EXCEPT !.rest = Tail(@),
                               !.models = IF known THEN Append(@, x) ELSE @,
                               !.newModels = IF known THEN @ ELSE Append(@, x),
                               !.kill = @ \cup ({x.oid} \ {x.e.name})]
<1>1. req[h].pc = "place" /\ req[h].rest # << >> /\ x.kind = "model"
  BY DEF PlaceModel, Placing
<1>2. req[h] \in Request /\ x \in ModelItem /\ Tail(req[h].rest) \in Seq(AnyItem)
  BY <1>1, Served, KindsOfItems
<1>3. r \in Request
  <2>1. x.oid \in Names
    BY <1>2 DEF ModelItem
  <2>2. Append(req[h].newModels, x) \in Seq(ModelItem) /\ Append(req[h].models, x) \in Seq(ModelItem)
    BY <1>2 DEF Request
  <2> HIDE DEF x
  <2> QED BY <1>2, <2>1, <2>2 DEF Request
<1>4. r.pc = "place"
  BY <1>1, <1>2 DEF Request
<1>5. Staged(r, models')
  BY <1>4 DEF Staged
<1>6. Rest' /\ Stays
  BY DEF PlaceModel, Rest, Stays, Typed, TypeOK, Stage, tables, memory, counts
<1>7. req' = [req EXCEPT ![h] = r]
  BY <1>2 DEF PlaceModel, Typed, TypeOK, Request
<1> HIDE DEF r
<1> QED BY <1>3, <1>5, <1>6, <1>7, StepOfRequest

LEMMA PlacePhyoTyped ==
  ASSUME Typed, NEW h \in Handlers, PlacePhyo(h)
  PROVE  Typed'
<1> DEFINE x == Item(h)
           known == elements[x.e.id] # None
           r == [req[h] EXCEPT !.rest = Tail(@),
                               !.nodes = IF known THEN Append(@, x) ELSE @,
                               !.newNodes = IF known THEN @ ELSE Append(@, x)]
<1>1. req[h].pc = "place" /\ req[h].rest # << >> /\ x.kind = "phyo"
  BY DEF PlacePhyo, Placing
<1>2. req[h] \in Request /\ x \in PhyoItem /\ Tail(req[h].rest) \in Seq(AnyItem)
  BY <1>1, Served, KindsOfItems
<1>3. r \in Request
  <2>1. Append(req[h].newNodes, x) \in Seq(PhyoItem) /\ Append(req[h].nodes, x) \in Seq(PhyoItem)
    BY <1>2 DEF Request
  <2> HIDE DEF x
  <2> QED BY <1>2, <2>1 DEF Request
<1>4. r.pc = "place"
  BY <1>1, <1>2 DEF Request
<1>5. Staged(r, models')
  BY <1>4 DEF Staged
<1>6. Rest' /\ Stays
  BY DEF PlacePhyo, Rest, Stays, Typed, TypeOK, Stage, tables, memory, counts
<1>7. req' = [req EXCEPT ![h] = r]
  BY <1>2 DEF PlacePhyo, Typed, TypeOK, Request
<1> HIDE DEF r
<1> QED BY <1>3, <1>5, <1>6, <1>7, StepOfRequest

LEMMA StoreSettingsTyped ==
  ASSUME Typed, NEW h \in Handlers, StoreSettings(h)
  PROVE  Typed'
<1>1. req[h].pc = "place" /\ req[h].rest # << >> /\ Item(h).kind = "settings"
  BY DEF StoreSettings, Placing
<1>2. req[h] \in Request /\ D(h) \in Designs /\ Item(h).e \in Settings \cup {None}
  BY <1>1, Served, KindsOfItems
<1>3. CASE Item(h).e = None
  <2>1. req' = [req EXCEPT ![h] = Free] /\ Staged(Free, models')
    BY <1>3 DEF StoreSettings, Staged, Free
  <2>2. Rest' /\ Stays
    BY <1>3 DEF StoreSettings, Rest, Stays, Typed, TypeOK, Stage, memory, counts
  <2> QED BY <2>1, <2>2, StepOfRequest
<1>4. CASE Item(h).e # None
  <2> DEFINE r == [req[h] EXCEPT !.pc = "settings"]
  <2>1. req' = [req EXCEPT ![h] = r]
    BY <1>4 DEF StoreSettings, Typed, TypeOK
  <2>2. r \in Request /\ r.rest = req[h].rest /\ r.pc = "settings"
    BY <1>2 DEF Request
  <2>3. Staged(r, models')
    BY <1>1, <1>2, <1>4, <2>2 DEF Staged, Item
  <2>4. Rest' /\ Stays
    BY <1>2, <1>4, SettingsAssumption DEF StoreSettings, Rest, Stays, Typed, TypeOK, Stage, memory, counts
  <2> HIDE DEF r
  <2> QED BY <2>1, <2>2, <2>3, <2>4, StepOfRequest
<1> QED BY <1>3, <1>4

LEMMA KeepSettingsTyped ==
  ASSUME Typed, NEW h \in Handlers, KeepSettings(h)
  PROVE  Typed'
<1> DEFINE r == [req[h] EXCEPT !.pc = "place", !.rest = Tail(@)]
<1>1. req[h].pc = "settings"
  BY DEF KeepSettings
<1>2. /\ req[h] \in Request /\ D(h) \in Designs /\ Item(h).e \in Settings
      /\ Tail(req[h].rest) \in Seq(AnyItem)
  BY <1>1, Served DEF Staged, Item
<1>3. r \in Request /\ r.pc = "place"
  BY <1>2 DEF Request
<1>4. Staged(r, models')
  BY <1>3 DEF Staged
<1>5. req' = [req EXCEPT ![h] = r]
  BY <1>2 DEF KeepSettings, Request, Typed, TypeOK
<1>6. Rest' /\ Stays
  BY <1>2 DEF KeepSettings, Rest, Stays, Typed, TypeOK, Stage, tables, counts
<1> HIDE DEF r
<1> QED BY <1>3, <1>4, <1>5, <1>6, StepOfRequest

LEMMA SettingsFailTyped ==
  ASSUME Typed, NEW h \in Handlers, SettingsFail(h)
  PROVE  Typed'
<1> DEFINE r == [req[h] EXCEPT !.rest = Tail(@)]
<1>1. req[h].pc = "place" /\ req[h].rest # << >>
  BY DEF SettingsFail, Placing
<1>2. req[h] \in Request /\ Tail(req[h].rest) \in Seq(AnyItem)
  BY <1>1, Served
<1>3. r \in Request /\ r.pc = "place"
  BY <1>1, <1>2 DEF Request
<1>4. Staged(r, models')
  BY <1>3 DEF Staged
<1>5. req' = [req EXCEPT ![h] = r]
  BY <1>2 DEF SettingsFail, Request, Typed, TypeOK
<1>6. Item(h).kind = "settings" /\ Item(h).e # None
  BY DEF SettingsFail, Placing
<1>7. D(h) \in Designs /\ SixDecimals(Item(h).e) \in Settings
  <2>1. D(h) \in Designs /\ Item(h).e \in Settings
    BY <1>1, <1>6, Served, KindsOfItems
  <2> QED BY <2>1, SettingsAssumption
<1>8. /\ settings' \in [Designs -> Settings]
      /\ doubt' \in [Designs -> SUBSET (Names \cup Phyos \cup Designs)]
  <2>1. \/ UNCHANGED <<settings, doubt>>
        \/ /\ settings' = [settings EXCEPT ![D(h)] = SixDecimals(Item(h).e)]
           /\ doubt' = [doubt EXCEPT ![D(h)] = @ \cup {D(h)}]
    BY DEF SettingsFail
  <2>2. /\ settings \in [Designs -> Settings]
        /\ doubt \in [Designs -> SUBSET (Names \cup Phyos \cup Designs)]
    BY DEF Typed, TypeOK
  <2> QED BY <1>7, <2>1, <2>2
<1>9. faults' \in 0..MaxFaults
  BY BoundsAssumption DEF SettingsFail, Typed, TypeOK
<1>10. Rest' /\ Stays
  BY <1>8, <1>9 DEF SettingsFail, Rest, Stays, Typed, TypeOK, Stage, memory
<1> HIDE DEF r
<1> QED BY <1>3, <1>4, <1>5, <1>10, StepOfRequest

LEMMA PlacedTyped ==
  ASSUME Typed, NEW h \in Handlers, Placed(h)
  PROVE  Typed'
<1> DEFINE r == [req[h] EXCEPT !.pc = First(Order(req[h])), !.queue = Order(req[h])]
<1>1. req[h].pc = "place"
  BY DEF Placed
<1>2. req[h] \in Request
  BY <1>1, Served
<1>3. Order(req[h]) \in Seq(ModelItem \cup PhyoItem)
  <2>1. /\ req[h].models \in Seq(ModelItem \cup PhyoItem)
        /\ req[h].newModels \in Seq(ModelItem \cup PhyoItem)
        /\ req[h].nodes \in Seq(ModelItem \cup PhyoItem)
        /\ req[h].newNodes \in Seq(ModelItem \cup PhyoItem)
    BY <1>2 DEF Request
  <2> QED BY <2>1 DEF Order
<1> DEFINE q == Order(req[h])
<1>4. /\ First(q) \in {"kill", "model", "id"}
      /\ First(q) = "model" => q # << >> /\ Head(q).kind = "model"
      /\ First(q) = "id" => q # << >> /\ Head(q).kind = "phyo"
  BY <1>3, FirstFits
<1> HIDE DEF q
<1>5. r \in Request /\ r.pc = First(q) /\ r.queue = q
  BY <1>2, <1>3, <1>4 DEF Request, q
<1>6. Staged(r, models')
  BY <1>4, <1>5 DEF Staged
<1>7. req' = [req EXCEPT ![h] = r]
  BY <1>2 DEF Placed, Request, Typed, TypeOK
<1>8. Rest' /\ Stays
  BY DEF Placed, Rest, Stays, Typed, TypeOK, Stage, tables, memory, counts
<1> HIDE DEF r
<1> QED BY <1>5, <1>6, <1>7, <1>8, StepOfRequest

(* What is written to the table of models.                                 *)
LEMMA ModelsWritten ==
  ASSUME models \in [Keys -> Model \cup {None}], NEW m \in Model, NEW n
  PROVE  \A ms \in {Update(n, m)} \cup Create(m) :
           /\ ms \in [Keys -> Model \cup {None}]
           /\ \A k \in Keys : models[k] # None => ms[k] # None
<1>1. m # None
  BY StartAssumption
<1>2. ModelKeys(n) \subseteq Keys
  BY DEF ModelKeys
<1> QED BY <1>1, <1>2 DEF Update, Create

LEMMA StoreModelTyped ==
  ASSUME Typed, NEW h \in Handlers, StoreModel(h)
  PROVE  Typed'
<1> DEFINE r == [req[h] EXCEPT !.pc = "keep"]
<1>1. req[h].pc = "model"
  BY DEF StoreModel
<1>2. req[h] \in Request /\ req[h].queue # << >> /\ X(h) \in ModelItem
  BY <1>1, Served, KindsOfItems DEF Staged, X, AnyItem
<1>3. models' \in [Keys -> Model \cup {None}] /\ Stays
  <2>1. X(h).e \in Model /\ models \in [Keys -> Model \cup {None}]
    BY <1>2 DEF ModelItem, Typed, TypeOK
  <2>2. models' \in Create(X(h).e) \cup {models, Update(X(h).oid, X(h).e)}
    BY DEF StoreModel
  <2> QED BY <2>1, <2>2, ModelsWritten DEF Stays
<1>4. r \in Request /\ r.pc = "keep" /\ r.queue # << >>
  BY <1>2 DEF Request
<1>5. Staged(r, models')
  BY <1>4 DEF Staged
<1>6. req' = [req EXCEPT ![h] = r]
  BY <1>2 DEF StoreModel, Request, Typed, TypeOK
<1>7. Rest'
  BY <1>3 DEF StoreModel, Rest, Stays, Typed, TypeOK, Stage, memory, counts
<1> HIDE DEF r
<1> QED BY <1>3, <1>4, <1>5, <1>6, <1>7, StepOfRequest

LEMMA PhyoIdTyped ==
  ASSUME Typed, NEW h \in Handlers, PhyoId(h)
  PROVE  Typed'
<1>1. req[h].pc = "id"
  BY DEF PhyoId
<1>2. /\ req[h] \in Request /\ req[h].queue # << >> /\ X(h).kind = "phyo"
      /\ X(h) \in PhyoItem
  BY <1>1, Served, KindsOfItems DEF Staged, X, AnyItem
<1>3. PICK next \in {"key", "keep"} : req' = [req EXCEPT ![h].pc = next]
  BY DEF PhyoId
<1> DEFINE r == [req[h] EXCEPT !.pc = next]
<1>4. r \in Request /\ r.pc = next /\ r.queue = req[h].queue
  BY <1>2 DEF Request
<1>5. Staged(r, models')
  BY <1>2, <1>4 DEF Staged, X
<1>6. req' = [req EXCEPT ![h] = r]
  BY <1>2, <1>3 DEF Request, Typed, TypeOK
<1>7. phyos' \in [Phyos -> Keys \cup {Half, None}] /\ \A f \in Phyos : phyos'[f] \in Keys => phyos[f] = phyos'[f]
  <2>1. Half \notin Keys
    BY DEF Keys, Half
  <2> QED BY <1>2, <2>1 DEF PhyoId, Typed, TypeOK
<1>8. Rest' /\ Stays
  BY <1>7 DEF PhyoId, Rest, Stays, Typed, TypeOK, Stage, memory, counts
<1> HIDE DEF r
<1> QED BY <1>4, <1>5, <1>6, <1>8, StepOfRequest

LEMMA PhyoModelTyped ==
  ASSUME Typed, NEW h \in Handlers, PhyoModel(h)
  PROVE  Typed'
<1> DEFINE keys == ModelKeys(X(h).e.model)
           next == IF keys = {} THEN "keep" ELSE "row"
           found == IF keys = {} THEN None ELSE CHOOSE k \in keys : TRUE
           r == [req[h] EXCEPT !.pc = next, !.key = found]
<1>1. req[h].pc = "key"
  BY DEF PhyoModel
<1>2. /\ req[h] \in Request /\ req[h].queue # << >> /\ X(h).kind = "phyo"
      /\ X(h) \in PhyoItem
  BY <1>1, Served, KindsOfItems DEF Staged, X, AnyItem
<1>3. /\ found \in Keys \cup {None}
      /\ next = "row" => found \in Keys /\ models[found] # None
  <2>1. keys \subseteq Keys /\ \A k \in keys : models[k] # None
    BY ModelsRead DEF Typed, TypeOK
  <2>2. keys # {} => (CHOOSE k \in keys : TRUE) \in keys
    OBVIOUS
  <2> QED BY <2>1, <2>2
<1>4. req' = [req EXCEPT ![h] = r]
  BY <1>2 DEF PhyoModel, Request, Typed, TypeOK
<1>5. next \in {"keep", "row"}
  OBVIOUS
<1> HIDE DEF keys, next, found
<1>6. r \in Request /\ r.pc = next /\ r.queue = req[h].queue /\ r.key = found
  BY <1>2, <1>3, <1>5 DEF Request
<1>7. models' = models
  BY DEF PhyoModel, tables
<1>8. Staged(r, models')
  BY <1>2, <1>3, <1>5, <1>6, <1>7 DEF Staged, X
<1>9. Rest' /\ Stays
  BY DEF PhyoModel, Rest, Stays, Typed, TypeOK, Stage, tables, memory, counts
<1> HIDE DEF r
<1> QED BY <1>4, <1>6, <1>8, <1>9, StepOfRequest

LEMMA PhyoRowTyped ==
  ASSUME Typed, NEW h \in Handlers, PhyoRow(h)
  PROVE  Typed'
<1> DEFINE r == [req[h] EXCEPT !.pc = "keep", !.key = None]
<1>1. req[h].pc = "row"
  BY DEF PhyoRow
<1>2. /\ req[h] \in Request /\ req[h].queue # << >>
      /\ X(h) \in PhyoItem /\ req[h].key \in Keys /\ models[req[h].key] # None
  BY <1>1, Served, KindsOfItems DEF Staged, X, AnyItem
<1>3. r \in Request /\ r.pc = "keep" /\ r.queue = req[h].queue
  BY <1>2 DEF Request
<1>4. Staged(r, models')
  BY <1>2, <1>3 DEF Staged
<1>5. req' = [req EXCEPT ![h] = r]
  BY <1>2 DEF PhyoRow, Request, Typed, TypeOK
<1>6. Rest' /\ Stays
  BY <1>2 DEF PhyoRow, Rest, Stays, Typed, TypeOK, Stage, memory, counts
<1> HIDE DEF r
<1> QED BY <1>3, <1>4, <1>5, <1>6, StepOfRequest

LEMMA FailTyped ==
  ASSUME Typed, NEW h \in Handlers, Fail(h)
  PROVE  Typed'
<1> DEFINE r == [req[h] EXCEPT !.pc = "keep", !.key = None]
<1>1. req[h].pc \in {"model", "id", "key", "row"}
  BY DEF Fail
<1>2. req[h] \in Request /\ req[h].queue # << >>
  BY <1>1, Served DEF Staged
<1>3. r \in Request /\ r.pc = "keep" /\ r.queue = req[h].queue
  BY <1>2 DEF Request
<1>4. Staged(r, models')
  BY <1>2, <1>3 DEF Staged
<1>5. req' = [req EXCEPT ![h] = r]
  BY <1>2 DEF Fail, Request, Typed, TypeOK
<1>6. Gives(req[h].msg) \subseteq Names \cup Phyos \cup Designs
  BY <1>2, GivenInMessages DEF Request
<1>7. doubt' \in [Designs -> SUBSET (Names \cup Phyos \cup Designs)]
  BY <1>6 DEF Fail, Typed, TypeOK
<1>8. faults' \in 0..MaxFaults
  BY BoundsAssumption DEF Fail, Typed, TypeOK
<1>9. Rest' /\ Stays
  BY <1>7, <1>8 DEF Fail, Rest, Stays, Typed, TypeOK, Stage, tables, memory
<1> HIDE DEF r
<1> QED BY <1>3, <1>4, <1>5, <1>9, StepOfRequest

LEMMA ModelKept ==
  ASSUME userModels \in [Designs -> [Names -> Model \cup {None}]],
         NEW d \in Designs, NEW m \in Model
  PROVE  [userModels EXCEPT ![d][m.name] = m] \in [Designs -> [Names -> Model \cup {None}]]
<1>1. m.name \in Names
  BY DEF Model
<1>2. [userModels[d] EXCEPT ![m.name] = m] \in [Names -> Model \cup {None}]
  BY <1>1
<1> QED BY <1>2

LEMMA KeepTyped ==
  ASSUME Typed, NEW h \in Handlers, Keep(h)
  PROVE  Typed'
<1> DEFINE q == Tail(req[h].queue)
           r == [req[h] EXCEPT !.queue = q, !.pc = First(q)]
<1>1. req[h].pc = "keep"
  BY DEF Keep
<1>2. /\ req[h] \in Request /\ D(h) \in Designs
      /\ X(h) \in ModelItem \cup PhyoItem /\ q \in Seq(ModelItem \cup PhyoItem)
  BY <1>1, Served DEF Staged
<1>3. /\ First(q) \in {"kill", "model", "id"}
      /\ First(q) = "model" => q # << >> /\ Head(q).kind = "model"
      /\ First(q) = "id" => q # << >> /\ Head(q).kind = "phyo"
  BY <1>2, FirstFits
<1>4. req' = [req EXCEPT ![h] = r]
  BY <1>2 DEF Keep, Request, Typed, TypeOK
<1> HIDE DEF q
<1>5. r \in Request /\ r.pc = First(q) /\ r.queue = q
  BY <1>2, <1>3 DEF Request
<1>6. Staged(r, models')
  BY <1>3, <1>5 DEF Staged
<1>7. /\ userModels' \in [Designs -> [Names -> Model \cup {None}]]
      /\ elements' \in [Phyos -> Phyo \cup {None}]
  <2>1. CASE X(h).kind = "model"
    <3>1. X(h) \in ModelItem
      BY <1>2, <2>1 DEF ModelItem, PhyoItem
    <3>2. X(h).e \in Model
      BY <3>1 DEF ModelItem
    <3>3. /\ userModels' = [userModels EXCEPT ![D(h)][X(h).e.name] = X(h).e]
          /\ elements' = elements
      BY <2>1 DEF Keep
    <3>4. userModels' \in [Designs -> [Names -> Model \cup {None}]]
      BY <1>2, <3>2, <3>3, ModelKept DEF Typed, TypeOK
    <3> QED BY <3>3, <3>4 DEF Typed, TypeOK
  <2>2. CASE X(h).kind # "model"
    <3>1. X(h) \in PhyoItem
      BY <1>2, <2>2 DEF ModelItem, PhyoItem
    <3> QED BY <2>2, <3>1 DEF Keep, PhyoItem, Typed, TypeOK
  <2> QED BY <2>1, <2>2
<1>8. Rest' /\ Stays
  BY <1>7 DEF Keep, Rest, Stays, Typed, TypeOK, Stage, tables, counts
<1> HIDE DEF r
<1> QED BY <1>4, <1>5, <1>6, <1>8, StepOfRequest

LEMMA KillTyped ==
  ASSUME Typed, NEW h \in Handlers, Kill(h)
  PROVE  Typed'
<1>1. req[h].pc # "free"
  BY DEF Kill
<1>2. D(h) \in Designs
  BY <1>1, Served
<1>3. Staged(Free, models') /\ req' = [req EXCEPT ![h] = Free]
  BY DEF Kill, Staged, Free
<1>4. userModels' \in [Designs -> [Names -> Model \cup {None}]]
  BY <1>2 DEF Kill, Typed, TypeOK
<1>5. Rest' /\ Stays
  BY <1>4 DEF Kill, Rest, Stays, Typed, TypeOK, Stage, tables, counts
<1> QED BY <1>3, <1>5, StepOfRequest

LEMMA TakeIconTyped ==
  ASSUME Typed, NEW h \in Handlers, TakeIcon(h)
  PROVE  Typed'
<1> DEFINE x == Item(h)
           m == userModels[D(h)][x.name]
<1>1. req[h].pc = "place" /\ req[h].rest # << >> /\ x.kind = "icon"
  BY DEF TakeIcon, Placing
<1>2. /\ req[h] \in Request /\ D(h) \in Designs
      /\ x.name \in Names /\ x.icon \in Icons
  BY <1>1, Served, KindsOfItems
<1>3. CASE m = None
  <2> DEFINE r == [req[h] EXCEPT !.pc = "web"]
  <2>1. r \in Request /\ r.pc = "web" /\ r.rest = req[h].rest
    BY <1>2 DEF Request
  <2>2. Staged(r, models')
    BY <1>1, <2>1 DEF Staged, Item
  <2>3. req' = [req EXCEPT ![h] = r]
    BY <1>2, <1>3 DEF TakeIcon, Request, Typed, TypeOK
  <2>4. Rest' /\ Stays
    BY <1>3 DEF TakeIcon, Rest, Stays, Typed, TypeOK, Stage, tables, counts
  <2> HIDE DEF r
  <2> QED BY <2>1, <2>2, <2>3, <2>4, StepOfRequest
<1>4. CASE m # None
  <2> DEFINE given == [m EXCEPT !.icon = x.icon]
             item == [kind |-> "model", oid |-> x.name, e |-> given]
             q == <<item>>
             r == [req[h] EXCEPT !.pc = "icon", !.queue = q]
  <2>1. m \in Model
    BY <1>2, <1>4 DEF Typed, TypeOK
  <2>2. given \in Model
    BY <1>2, <2>1 DEF Model
  <2>3. /\ req' = [req EXCEPT ![h].pc = "icon", ![h].queue = q]
        /\ userModels' = [userModels EXCEPT ![D(h)][x.name] = given]
    BY <1>4 DEF TakeIcon
  <2>4. req' = [req EXCEPT ![h] = r]
    BY <1>2, <2>3 DEF Request, Typed, TypeOK
  <2>5. userModels' \in [Designs -> [Names -> Model \cup {None}]]
    <3> HIDE DEF given, x
    <3>1. [userModels[D(h)] EXCEPT ![x.name] = given] \in [Names -> Model \cup {None}]
      BY <1>2, <2>2 DEF Typed, TypeOK
    <3> QED BY <1>2, <2>3, <3>1 DEF Typed, TypeOK
  <2>6. item \in ModelItem /\ item.kind = "model"
    BY <1>2, <2>2 DEF ModelItem
  <2> HIDE DEF item
  <2>7. q \in Seq(ModelItem \cup PhyoItem) /\ q # << >> /\ Head(q).kind = "model"
    BY <2>6
  <2> HIDE DEF q
  <2>8. r \in Request /\ r.pc = "icon" /\ r.queue = q /\ r.rest = req[h].rest
    BY <1>2, <2>7 DEF Request
  <2>9. Staged(r, models')
    BY <1>1, <2>7, <2>8 DEF Staged, Item
  <2>10. Rest' /\ Stays
    BY <2>5 DEF TakeIcon, Rest, Stays, Typed, TypeOK, Stage, tables, counts
  <2> HIDE DEF r
  <2> QED BY <2>4, <2>8, <2>9, <2>10, StepOfRequest
<1> QED BY <1>3, <1>4

LEMMA StoreIconTyped ==
  ASSUME Typed, NEW h \in Handlers, StoreIcon(h)
  PROVE  Typed'
<1> DEFINE q == << >>
           r == [req[h] EXCEPT !.pc = "web", !.queue = q]
<1>1. req[h].pc = "icon"
  BY DEF StoreIcon
<1>2. /\ req[h] \in Request /\ req[h].rest # << >> /\ Head(req[h].rest).kind = "icon"
      /\ X(h) \in ModelItem
  BY <1>1, Served, KindsOfItems DEF Staged, X, AnyItem
<1>3. q \in Seq(ModelItem \cup PhyoItem)
  OBVIOUS
<1>4. req' = [req EXCEPT ![h] = r]
  BY <1>2 DEF StoreIcon, Request, Typed, TypeOK
<1> HIDE DEF q
<1>5. r \in Request /\ r.pc = "web" /\ r.rest = req[h].rest
  BY <1>2, <1>3 DEF Request
<1>6. Staged(r, models')
  BY <1>2, <1>5 DEF Staged
<1>7. models' \in [Keys -> Model \cup {None}] /\ Stays
  <2>1. X(h).e \in Model /\ models \in [Keys -> Model \cup {None}]
    BY <1>2 DEF ModelItem, Typed, TypeOK
  <2>2. models' \in {models, Update(X(h).oid, X(h).e)}
    BY DEF StoreIcon
  <2> QED BY <2>1, <2>2, ModelsWritten DEF Stays
<1>8. doubt' \in [Designs -> SUBSET (Names \cup Phyos \cup Designs)]
  <2>1. Gives(req[h].msg) \subseteq Names \cup Phyos \cup Designs
    BY <1>2, GivenInMessages DEF Request
  <2> QED BY <2>1 DEF StoreIcon, Typed, TypeOK
<1>9. faults' \in 0..MaxFaults
  BY BoundsAssumption DEF StoreIcon, Typed, TypeOK
<1>10. Rest'
  BY <1>7, <1>8, <1>9 DEF StoreIcon, Rest, Stays, Typed, TypeOK, Stage, memory
<1> HIDE DEF r
<1> QED BY <1>5, <1>6, <1>4, <1>7, <1>10, StepOfRequest

LEMMA CopyIconTyped ==
  ASSUME Typed, NEW h \in Handlers, CopyIcon(h)
  PROVE  Typed'
<1>1. req[h].pc = "web"
  BY DEF CopyIcon
<1>2. Item(h).name \in Names
  BY <1>1, Served, KindsOfItems DEF Staged, Item
<1>3. Staged(Free, models') /\ req' = [req EXCEPT ![h] = Free]
  BY DEF CopyIcon, Staged, Free
<1>4. Rest' /\ Stays
  BY <1>2 DEF CopyIcon, Rest, Stays, Typed, TypeOK, Stage, tables, memory, counts
<1> QED BY <1>3, <1>4, StepOfRequest

LEMMA DieTyped ==
  ASSUME Typed, NEW d \in Designs, Die(d)
  PROVE  Typed'
<1>1. Rest' /\ models' = models
  <2>1. crashes' \in 0..MaxCrashes
    BY BoundsAssumption DEF Die, Typed, TypeOK
  <2>2. userModels' \in [Designs -> [Names -> Model \cup {None}]]
    BY DEF Die, Typed, TypeOK
  <2> QED BY <2>1, <2>2 DEF Die, Rest, Typed, TypeOK, Stage, tables
<1>2. req' \in [Handlers -> Request \cup {Free}]
  BY DEF Die, Typed, TypeOK
<1>3. \A h \in Handlers : Staged(req'[h], models')
  <2>1. \A h \in Handlers : req'[h] \in {Free, req[h]}
    BY DEF Die
  <2>2. \A ms : Staged(Free, ms)
    BY DEF Staged, Free
  <2> QED BY <1>1, <2>1, <2>2 DEF Typed, Stage
<1> QED BY <1>1, <1>2, <1>3 DEF Typed, TypeOK, Stage, Rest

LEMMA LoadDesignTyped ==
  ASSUME Typed, NEW d \in Designs, LoadDesign(d)
  PROVE  Typed'
<1> DEFINE own == [f \in Phyos |-> IF DesignOf(f) = d THEN ReadPhyo(f) ELSE None]
<1>1. \A f \in Phyos : ReadPhyo(f) \in Phyo \cup {None}
  <2>1. TAKE f \in Phyos
  <2>2. CASE phyos[f] \in {None, Half}
    BY <2>2 DEF ReadPhyo
  <2>3. CASE phyos[f] \notin {None, Half}
    <3>1. models[phyos[f]] \in Model
      BY <2>3 DEF Typed, TypeOK, Stage
    <3>2. models[phyos[f]].name \in Names
      BY <3>1 DEF Model
    <3> QED BY <2>3, <3>2 DEF ReadPhyo, Phyo
  <2> QED BY <2>2, <2>3
<1>2. elements' \in [Phyos -> Phyo \cup {None}]
  BY <1>1 DEF LoadDesign, Typed, TypeOK
<1>3. doubt' \in [Designs -> SUBSET (Names \cup Phyos \cup Designs)]
  <2>1. \A m : Outdated(m, own) \subseteq Phyos
    BY DEF Outdated
  <2>2. \A m : (Gives(m) \cap Names) \cup Outdated(m, own) \subseteq Names \cup Phyos
    BY <2>1
  <2> DEFINE others == UNION { (Gives(m) \cap Names) \cup Outdated(m, own) : m \in InFlight }
  <2>3. others \subseteq Names \cup Phyos
    <3> HIDE DEF own
    <3> QED BY <2>2
  <2>4. doubt' = [doubt EXCEPT ![d] = { f \in Phyos : phyos[f] = Half } \cup others]
    BY DEF LoadDesign
  <2> HIDE DEF others
  <2> QED BY <2>3, <2>4 DEF Typed, TypeOK
<1>4. Rest' /\ models' = models /\ req' = req
  BY <1>2, <1>3 DEF LoadDesign, Rest, Typed, TypeOK, Stage, tables, counts
<1> QED BY <1>4 DEF Typed, TypeOK, Stage, Rest

LEMMA LoadModelsTyped ==
  ASSUME Typed, NEW d \in Designs, LoadModels(d)
  PROVE  Typed'
<1>1. \A n \in Names : ReadModel(n) \in Model \cup {None}
  BY ModelsRead DEF Typed, TypeOK
<1>2. /\ userModels' \in [Designs -> [Names -> Model \cup {None}]]
      /\ simSettings' \in [Designs -> Settings]
  BY <1>1 DEF LoadModels, Typed, TypeOK
<1>3. Rest' /\ models' = models /\ req' = req
  BY <1>2 DEF LoadModels, Rest, Typed, TypeOK, Stage, tables, counts
<1> QED BY <1>3 DEF Typed, TypeOK, Stage, Rest

LEMMA NextTyped == Typed /\ [Next]_vars => Typed'
<1> SUFFICES ASSUME Typed, [Next]_vars PROVE Typed'
  OBVIOUS
<1>1. ASSUME NEW h \in Handlers, NEW m \in Messages, Receive(h, m) PROVE Typed'
  BY <1>1, ReceiveTyped
<1>2. ASSUME NEW h \in Handlers,
             \/ PlaceModel(h) \/ PlacePhyo(h)
             \/ StoreSettings(h) \/ KeepSettings(h) \/ SettingsFail(h)
             \/ Placed(h)
             \/ StoreModel(h) \/ PhyoId(h) \/ PhyoModel(h) \/ PhyoRow(h)
             \/ Fail(h) \/ Keep(h) \/ Kill(h)
             \/ TakeIcon(h) \/ StoreIcon(h) \/ CopyIcon(h)
      PROVE Typed'
  BY <1>2, PlaceModelTyped, PlacePhyoTyped, StoreSettingsTyped, KeepSettingsTyped,
     SettingsFailTyped, PlacedTyped, StoreModelTyped, PhyoIdTyped, PhyoModelTyped,
     PhyoRowTyped, FailTyped, KeepTyped, KillTyped, TakeIconTyped, StoreIconTyped,
     CopyIconTyped
<1>3. ASSUME NEW d \in Designs, Die(d) \/ LoadDesign(d) \/ LoadModels(d) PROVE Typed'
  BY <1>3, DieTyped, LoadDesignTyped, LoadModelsTyped
<1>4. CASE UNCHANGED vars
  BY <1>4 DEF vars, tables, memory, counts, Typed, TypeOK, Stage
<1> QED BY <1>1, <1>2, <1>3, <1>4 DEF Next

(* Every variable of ModelStore keeps its type: whatever a request is at,  *)
(* the model that a row of phyos refers to is there.                       *)
THEOREM TypeCorrect == Spec => []TypeOK
<1>1. Typed => TypeOK
  BY DEF Typed
<1> QED BY <1>1, InitTyped, NextTyped, PTL DEF Spec

---------------------------------------------------------------------------
(* The settings. While nothing is doubted of them, one request at most of  *)
(* a design has settings; between its two steps they are those that it is  *)
(* at, and otherwise those that the process has.                           *)

HasSettings(m) == Items(m, {"settings"}) # {}
Setting(h, d) == Serves(h, d) /\ req[h].pc = "settings"

(* What is left of a message comes from it.                                *)
FromMessage(r) ==
  \A k \in DOMAIN r.rest : r.rest[k].kind = "settings" => HasSettings(r.msg)

KeptOf(d) ==
  /\ \A g, h \in Handlers :
       /\ Serves(g, d) /\ HasSettings(req[g].msg)
       /\ Serves(h, d) /\ HasSettings(req[h].msg)
       => g = h
  /\ \A h \in Handlers : Setting(h, d) => settings[d] = SixDecimals(Item(h).e)
  /\ (up[d] = "up" /\ \A h \in Handlers : ~Setting(h, d))
       => settings[d] = SixDecimals(simSettings[d])

Kept ==
  /\ \A h \in Handlers : req[h].pc # "free" => up[D(h)] = "up" /\ FromMessage(req[h])
  /\ \A d \in Designs : d \notin doubt[d] => KeptOf(d)

(* No more is stored of settings than six decimals.                        *)
Exact == \A d \in Designs : SixDecimals(settings[d]) = settings[d]

(* A step of a request that does not touch settings of which something is  *)
(* promised.                                                               *)
Moves(h) ==
  /\ req[h].pc \notin {"free", "settings"}
  /\ \A g \in Handlers \ {h} : req'[g] = req[g]
  /\ \/ req'[h] = Free
     \/ /\ req'[h].pc \notin {"free", "settings"}
        /\ req'[h].msg = req[h].msg
        /\ \/ req'[h].rest = req[h].rest
           \/ req[h].rest # << >> /\ req'[h].rest = Tail(req[h].rest)
  /\ UNCHANGED <<simSettings, up>>
  /\ \A d \in Designs : /\ doubt[d] \subseteq doubt'[d]
                        /\ d \notin doubt'[d] => settings'[d] = settings[d]

LEMMA TailFromMessage ==
  ASSUME NEW s \in Seq(AnyItem), s # << >>, NEW m,
         \A k \in DOMAIN s : s[k].kind = "settings" => HasSettings(m)
  PROVE  \A k \in DOMAIN Tail(s) : Tail(s)[k].kind = "settings" => HasSettings(m)
<1>1. \A k \in DOMAIN Tail(s) : k + 1 \in DOMAIN s /\ Tail(s)[k] = s[k + 1]
  OBVIOUS
<1> QED BY <1>1

LEMMA MovesKept ==
  ASSUME Typed, Kept, NEW h \in Handlers, Moves(h)
  PROVE  Kept'
<1>1. req[h] \in Request /\ FromMessage(req[h]) /\ up[D(h)] = "up"
  BY Served DEF Moves, Kept
<1>2. \A g \in Handlers : req'[g].pc # "free" => up'[D(g)'] = "up" /\ FromMessage(req'[g])
  <2>1. TAKE g \in Handlers
  <2>2. CASE g # h
    BY <2>2 DEF Moves, Kept, D
  <2>3. CASE g = h /\ req'[h] = Free
    BY <2>3 DEF Free
  <2>4. CASE g = h /\ req'[h] # Free
    <3>1. req'[h].msg = req[h].msg /\ up'[D(h)'] = "up"
      BY <1>1, <2>4 DEF Moves, D
    <3>2. FromMessage(req'[h])
      <4>1. CASE req'[h].rest = req[h].rest
        BY <1>1, <3>1, <4>1 DEF FromMessage
      <4>2. CASE req[h].rest # << >> /\ req'[h].rest = Tail(req[h].rest)
        <5>1. req[h].rest \in Seq(AnyItem)
          BY <1>1 DEF Request
        <5> QED BY <1>1, <3>1, <4>2, <5>1, TailFromMessage DEF FromMessage
      <4> QED BY <2>4, <4>1, <4>2 DEF Moves
    <3> QED BY <2>4, <3>1, <3>2
  <2> QED BY <2>2, <2>3, <2>4
<1>3. ASSUME NEW d \in Designs, d \notin doubt'[d] PROVE KeptOf(d)'
  <2>1. KeptOf(d)
    BY <1>3 DEF Moves, Kept
  <2>2. \A g \in Handlers : /\ Serves(g, d)' => Serves(g, d) /\ req'[g].msg = req[g].msg
                            /\ Setting(g, d)' <=> Setting(g, d)
    BY DEF Moves, Serves, Setting, D, Free
  <2>3. \A g \in Handlers : Setting(g, d) => Item(g)' = Item(g)
    BY DEF Moves, Setting, Item
  <2>4. settings'[d] = settings[d] /\ UNCHANGED <<simSettings, up>>
    BY <1>3 DEF Moves
  <2> QED BY <2>1, <2>2, <2>3, <2>4 DEF KeptOf
<1> QED BY <1>2, <1>3 DEF Kept

LEMMA OthersMove ==
  ASSUME Typed, NEW h \in Handlers,
         \/ PlaceModel(h) \/ PlacePhyo(h) \/ SettingsFail(h) \/ Placed(h)
         \/ StoreModel(h) \/ PhyoId(h) \/ PhyoModel(h) \/ PhyoRow(h)
         \/ Fail(h) \/ Keep(h) \/ Kill(h)
         \/ TakeIcon(h) \/ StoreIcon(h) \/ CopyIcon(h)
  PROVE  Moves(h)
<1>1. req[h].pc \notin {"free", "settings"} /\ req[h] \in Request
  <2>1. req[h].pc \notin {"free", "settings"}
    BY DEF PlaceModel, PlacePhyo, SettingsFail, Placed, StoreModel, PhyoId, PhyoModel,
           PhyoRow, Fail, Keep, Kill, TakeIcon, StoreIcon, CopyIcon, Placing
  <2> QED BY <2>1, Served
<1>2. req \in [Handlers -> Request \cup {Free}] /\ doubt \in [Designs -> SUBSET (Names \cup Phyos \cup Designs)]
  BY DEF Typed, TypeOK
<1>3. CASE PlaceModel(h) \/ PlacePhyo(h) \/ SettingsFail(h)
  <2>1. CASE PlaceModel(h)
    BY <1>1, <1>2, <2>1 DEF Moves, PlaceModel, Placing, Request, tables, memory, counts
  <2>2. CASE PlacePhyo(h)
    BY <1>1, <1>2, <2>2 DEF Moves, PlacePhyo, Placing, Request, tables, memory, counts
  <2>3. CASE SettingsFail(h)
    <3>1. \A d \in Designs : /\ doubt[d] \subseteq doubt'[d]
                             /\ d \notin doubt'[d] => settings'[d] = settings[d]
      BY <1>2, <2>3 DEF SettingsFail, Typed, TypeOK
    <3> QED BY <1>1, <1>2, <2>3, <3>1 DEF Moves, SettingsFail, Placing, Request, memory
  <2> QED BY <1>3, <2>1, <2>2, <2>3
<1>4. CASE Placed(h)
  BY <1>1, <1>2, <1>4 DEF Moves, Placed, First, Request, tables, memory, counts
<1>5. CASE StoreModel(h) \/ PhyoId(h) \/ PhyoRow(h)
  BY SMTT(30), <1>1, <1>2, <1>5 DEF Moves, StoreModel, PhyoId, PhyoRow, Request, memory, counts
<1>6. CASE PhyoModel(h)
  BY <1>1, <1>2, <1>6 DEF Moves, PhyoModel, Request, tables, memory, counts
<1>7. CASE Fail(h)
  BY <1>1, <1>2, <1>7 DEF Moves, Fail, Request, tables, memory
<1>8. CASE Keep(h)
  BY <1>1, <1>2, <1>8 DEF Moves, Keep, First, Request, tables, counts
<1>9. CASE Kill(h) \/ CopyIcon(h)
  BY <1>1, <1>2, <1>9 DEF Moves, Kill, CopyIcon, tables, memory, counts
<1>10. CASE TakeIcon(h)
  <2>1. CASE userModels[D(h)][Item(h).name] = None
    BY <1>1, <1>2, <1>10, <2>1 DEF Moves, TakeIcon, Request, tables, counts
  <2>2. CASE userModels[D(h)][Item(h).name] # None
    <3>1. PICK q : req' = [req EXCEPT ![h].pc = "icon", ![h].queue = q]
      BY <1>10, <2>2 DEF TakeIcon
    <3>2. UNCHANGED <<settings, simSettings, up, doubt>>
      BY <1>10, <2>2 DEF TakeIcon, tables
    <3> QED BY <1>1, <1>2, <3>1, <3>2 DEF Moves, Request
  <2> QED BY <2>1, <2>2
<1>11. CASE StoreIcon(h)
  BY <1>1, <1>2, <1>11 DEF Moves, StoreIcon, Request, memory
<1> QED BY <1>3, <1>4, <1>5, <1>6, <1>7, <1>8, <1>9, <1>10, <1>11

(* A message with settings has to do with its design.                      *)
LEMMA SettingsGiven ==
  ASSUME NEW m, HasSettings(m)
  PROVE  m.design \in Gives(m) /\ m.design \in Touches(m)
BY DEF HasSettings, Gives, Touches

LEMMA ReceiveKept ==
  ASSUME Typed, Kept, NEW h \in Handlers, NEW m \in Messages, Receive(h, m)
  PROVE  Kept'
<1>1. /\ req[h].pc = "free" /\ up[m.design] = "up"
      /\ req'[h].pc = "place" /\ req'[h].msg = m /\ req'[h].rest = m.items
      /\ \A g \in Handlers \ {h} : req'[g] = req[g]
      /\ UNCHANGED <<settings, simSettings, up>>
  BY DEF Receive, tables, memory, Typed, TypeOK
<1>2. m.design \in Designs /\ m.items \in Seq(AnyItem)
  BY GivenInMessages
<1>3. FromMessage(req'[h])
  <2>1. \A k \in DOMAIN m.items : m.items[k].kind = "settings" => m.items[k] \in Items(m, {"settings"})
    BY DEF Items
  <2> QED BY <1>1, <2>1 DEF FromMessage, HasSettings
<1>4. \A g \in Handlers : req'[g].pc # "free" => up'[D(g)'] = "up" /\ FromMessage(req'[g])
  BY <1>1, <1>3 DEF Kept, D
<1>5. ASSUME NEW d \in Designs, d \notin doubt'[d] PROVE KeptOf(d)'
  <2>1. doubt'[d] = doubt[d] \cup Troubled(m) \cup Outdated(m, elements)
                    \cup (IF d = m.design THEN {} ELSE Gives(m) \cap Names)
    BY DEF Receive, DoubtsOf
  <2>2. KeptOf(d) /\ d \notin Troubled(m)
    BY <1>5, <2>1 DEF Kept
  <2>3. ASSUME m.design = d, HasSettings(m),
               NEW g \in Handlers, Serves(g, d), HasSettings(req[g].msg)
        PROVE  FALSE
    <3>1. req[g].msg \in InFlight /\ req[g].msg.design = d
      BY <2>3 DEF Serves, InFlight, D
    <3>2. req[g].msg \in Met(m)
      BY <2>3, <3>1, SettingsGiven DEF Met
    <3>3. d \in Troubled(m)
      BY <2>3, <3>2, SettingsGiven DEF Troubled
    <3> QED BY <2>2, <3>3
  <2>4. \A g \in Handlers \ {h} : Serves(g, d)' <=> Serves(g, d)
    BY <1>1 DEF Serves, D
  <2>5. /\ ~Setting(h, d) /\ ~Setting(h, d)' /\ ~Serves(h, d)
        /\ Serves(h, d)' => m.design = d
    BY <1>1 DEF Setting, Serves, D
  <2>6. \A g \in Handlers : /\ Setting(g, d)' <=> Setting(g, d)
                            /\ Setting(g, d) => Item(g)' = Item(g)
    BY <1>1, <2>4, <2>5 DEF Setting, Item
  <2>7. ASSUME NEW f \in Handlers, NEW g \in Handlers,
               Serves(f, d)', HasSettings(req'[f].msg),
               Serves(g, d)', HasSettings(req'[g].msg)
        PROVE  f = g
    <3>1. CASE f = h /\ g # h
      BY <1>1, <2>3, <2>4, <2>5, <2>7, <3>1
    <3>2. CASE f # h /\ g = h
      BY <1>1, <2>3, <2>4, <2>5, <2>7, <3>2
    <3>3. CASE f # h /\ g # h
      BY <1>1, <2>2, <2>4, <2>7, <3>3 DEF KeptOf
    <3> QED BY <3>1, <3>2, <3>3
  <2> QED BY <1>1, <2>2, <2>6, <2>7 DEF KeptOf
<1> QED BY <1>4, <1>5 DEF Kept

LEMMA StoreSettingsKept ==
  ASSUME Typed, Kept, NEW h \in Handlers, StoreSettings(h)
  PROVE  Kept'
<1>1. /\ req[h].pc = "place" /\ req[h].rest # << >> /\ Item(h).kind = "settings"
      /\ UNCHANGED <<simSettings, up, doubt>>
  BY DEF StoreSettings, Placing, memory
<1>2. /\ req[h] \in Request /\ D(h) \in Designs /\ up[D(h)] = "up"
      /\ FromMessage(req[h])
  BY <1>1, Served DEF Kept
<1>3. HasSettings(req[h].msg)
  <2>1. req[h].rest \in Seq(AnyItem) /\ 1 \in DOMAIN req[h].rest /\ Item(h) = req[h].rest[1]
    BY <1>1, <1>2 DEF Request, Item
  <2> QED BY <1>1, <1>2, <2>1 DEF FromMessage
<1>4. CASE Item(h).e = None
  <2>1. req' = [req EXCEPT ![h] = Free] /\ settings' = settings
    BY <1>4 DEF StoreSettings
  <2>2. \A g \in Handlers : req'[g].pc # "free" => g # h /\ req'[g] = req[g]
    BY <2>1 DEF Free, Typed, TypeOK
  <2>3. \A d \in Designs, g \in Handlers :
          /\ Serves(g, d)' => Serves(g, d) /\ req'[g] = req[g]
          /\ Setting(g, d)' <=> Setting(g, d)
    BY <1>1, <2>1, <2>2 DEF Setting, Serves, D, Free, Typed, TypeOK
  <2>4. \A d \in Designs : KeptOf(d) => KeptOf(d)'
    BY <1>1, <2>1, <2>3 DEF KeptOf, Setting, Item
  <2> QED BY <1>1, <2>2, <2>4 DEF Kept, D
<1>5. CASE Item(h).e # None
  <2>1. /\ req' = [req EXCEPT ![h].pc = "settings"]
        /\ settings' = [settings EXCEPT ![D(h)] = SixDecimals(Item(h).e)]
    BY <1>5 DEF StoreSettings
  <2>2. /\ req'[h].pc = "settings" /\ req'[h].msg = req[h].msg /\ req'[h].rest = req[h].rest
        /\ \A g \in Handlers \ {h} : req'[g] = req[g]
    BY <1>2, <2>1 DEF Request, Typed, TypeOK
  <2>3. \A g \in Handlers : req'[g].pc # "free" => up'[D(g)'] = "up" /\ FromMessage(req'[g])
    BY <1>1, <1>2, <2>2 DEF Kept, D, FromMessage
  <2>4. ASSUME NEW d \in Designs, d \notin doubt'[d] PROVE KeptOf(d)'
    <3>1. KeptOf(d)
      BY <1>1, <2>4 DEF Kept
    <3>2. \A g \in Handlers : Serves(g, d)' <=> Serves(g, d)
      BY <1>1, <2>2 DEF Serves, D
    <3>3. \A g \in Handlers : req'[g].msg = req[g].msg /\ Item(g)' = Item(g)
      BY <2>2 DEF Item
    <3>4. \A f, g \in Handlers :
            Serves(f, d)' /\ HasSettings(req'[f].msg) /\ Serves(g, d)' /\ HasSettings(req'[g].msg)
            => f = g
      BY <3>1, <3>2, <3>3 DEF KeptOf
    <3>5. CASE D(h) = d
      <4>1. \A g \in Handlers : Setting(g, d)' => g = h
        <5>1. TAKE g \in Handlers
        <5>2. HAVE Setting(g, d)'
        <5>3. CASE g # h
          <6>1. Setting(g, d)
            BY <2>2, <3>2, <5>2, <5>3 DEF Setting
          <6>2. req[g].rest # << >> /\ Item(g).kind = "settings" /\ req[g] \in Request
            BY <6>1, Served DEF Setting, Staged, Item
          <6>3. HasSettings(req[g].msg)
            <7>1. FromMessage(req[g])
              BY <6>1 DEF Setting, Kept
            <7>2. 1 \in DOMAIN req[g].rest /\ Item(g) = req[g].rest[1]
              BY <6>2 DEF Request, Item
            <7> QED BY <6>2, <7>1, <7>2 DEF FromMessage
          <6>4. Serves(h, d) /\ Serves(g, d)
            BY <1>1, <3>5, <6>1 DEF Serves, Setting
          <6> QED BY <1>3, <3>1, <6>3, <6>4 DEF KeptOf
        <5> QED BY <5>3
      <4>2. settings'[d] = SixDecimals(Item(h).e) /\ Setting(h, d)'
        BY <1>1, <1>2, <2>1, <2>2, <3>2, <3>5 DEF Setting, Serves, Typed, TypeOK
      <4> QED BY <3>3, <3>4, <4>1, <4>2 DEF KeptOf
    <3>6. CASE D(h) # d
      <4>1. \A g \in Handlers : Setting(g, d)' <=> Setting(g, d)
        BY <2>2, <3>2, <3>6 DEF Setting, Serves
      <4>2. settings'[d] = settings[d]
        BY <1>2, <2>1, <3>6 DEF Typed, TypeOK
      <4> QED BY <1>1, <3>1, <3>3, <3>4, <4>1, <4>2 DEF KeptOf
    <3> QED BY <3>5, <3>6
  <2> QED BY <2>3, <2>4 DEF Kept
<1> QED BY <1>4, <1>5

LEMMA KeepSettingsKept ==
  ASSUME Typed, Kept, NEW h \in Handlers, KeepSettings(h)
  PROVE  Kept'
<1>1. /\ req[h].pc = "settings"
      /\ simSettings' = [simSettings EXCEPT ![D(h)] = Item(h).e]
      /\ UNCHANGED <<settings, up, doubt>>
  BY DEF KeepSettings, tables
<1>2. /\ req[h] \in Request /\ req[h].rest # << >> /\ Item(h).kind = "settings"
      /\ D(h) \in Designs /\ up[D(h)] = "up" /\ FromMessage(req[h])
  BY <1>1, Served DEF Kept, Staged, Item
<1>3. HasSettings(req[h].msg)
  <2>1. req[h].rest \in Seq(AnyItem) /\ 1 \in DOMAIN req[h].rest /\ Item(h) = req[h].rest[1]
    BY <1>2 DEF Request, Item
  <2> QED BY <1>2, <2>1 DEF FromMessage
<1>4. /\ req'[h].pc = "place" /\ req'[h].msg = req[h].msg /\ req'[h].rest = Tail(req[h].rest)
      /\ \A g \in Handlers \ {h} : req'[g] = req[g]
  BY <1>2 DEF KeepSettings, Request, Typed, TypeOK
<1>5. \A g \in Handlers : req'[g].pc # "free" => up'[D(g)'] = "up" /\ FromMessage(req'[g])
  <2>1. FromMessage(req'[h])
    <3>1. req[h].rest \in Seq(AnyItem)
      BY <1>2 DEF Request
    <3> QED BY <1>2, <1>4, <3>1, TailFromMessage DEF FromMessage
  <2> QED BY <1>1, <1>2, <1>4, <2>1 DEF Kept, D
<1>6. ASSUME NEW d \in Designs, d \notin doubt'[d] PROVE KeptOf(d)'
  <2>1. KeptOf(d)
    BY <1>1, <1>6 DEF Kept
  <2>2. \A g \in Handlers : /\ Serves(g, d)' <=> Serves(g, d)
                            /\ req'[g].msg = req[g].msg
    BY <1>1, <1>4 DEF Serves, D
  <2>3. \A g \in Handlers : Setting(g, d)' => Setting(g, d) /\ g # h /\ Item(g)' = Item(g)
    BY <1>4, <2>2 DEF Setting, Item
  <2>4. CASE D(h) = d
    <3>1. Setting(h, d)
      BY <1>1, <2>4 DEF Setting, Serves
    <3>2. settings[d] = SixDecimals(simSettings'[d])
      BY <1>1, <2>1, <2>4, <3>1 DEF KeptOf, Typed, TypeOK
    <3> QED BY <1>1, <2>1, <2>2, <2>3, <3>2 DEF KeptOf
  <2>5. CASE D(h) # d
    <3>1. \A g \in Handlers : Setting(g, d) <=> Setting(g, d)'
      BY <1>4, <2>2, <2>5 DEF Setting, Serves
    <3>2. simSettings'[d] = simSettings[d]
      BY <1>1, <1>2, <2>5 DEF Typed, TypeOK
    <3> QED BY <1>1, <2>1, <2>2, <2>3, <3>1, <3>2 DEF KeptOf
  <2> QED BY <2>4, <2>5
<1> QED BY <1>5, <1>6 DEF Kept

LEMMA DieKept ==
  ASSUME Typed, Kept, NEW c \in Designs, Die(c)
  PROVE  Kept'
<1>1. /\ up' = [up EXCEPT ![c] = "down"]
      /\ \A g \in Handlers : req'[g] = IF Serves(g, c) THEN Free ELSE req[g]
      /\ UNCHANGED <<settings, simSettings, doubt>>
  BY DEF Die, tables, Serves
<1>2. \A g \in Handlers : req'[g].pc # "free" => ~Serves(g, c) /\ req'[g] = req[g]
  BY <1>1 DEF Free
<1>3. \A g \in Handlers : req'[g].pc # "free" => up'[D(g)'] = "up" /\ FromMessage(req'[g])
  BY <1>1, <1>2 DEF Kept, D, Serves, Typed, TypeOK
<1>4. ASSUME NEW d \in Designs, KeptOf(d) PROVE KeptOf(d)'
  <2>1. \A g \in Handlers : /\ Serves(g, d)' => Serves(g, d) /\ req'[g] = req[g]
                            /\ Setting(g, d)' => Setting(g, d) /\ Item(g)' = Item(g)
    BY <1>2 DEF Serves, Setting, D, Item
  <2>2. d # c => \A g \in Handlers : Setting(g, d) => Setting(g, d)'
    BY <1>1 DEF Serves, Setting, D
  <2>3. up'[d] = "up" => d # c /\ up[d] = "up"
    BY <1>1 DEF Typed, TypeOK
  <2> QED BY <1>1, <1>4, <2>1, <2>2, <2>3 DEF KeptOf
<1> QED BY <1>1, <1>3, <1>4 DEF Kept

(* Of a process that starts nothing is known, but it serves no request.    *)
LEMMA LoadKept ==
  ASSUME Typed, Kept, Exact, NEW c \in Designs, LoadDesign(c) \/ LoadModels(c)
  PROVE  Kept'
<1>1. /\ up[c] # "up" /\ UNCHANGED <<req, settings>>
      /\ \A d \in Designs \ {c} : /\ up'[d] = up[d] /\ doubt'[d] = doubt[d]
                                  /\ simSettings'[d] = simSettings[d]
      /\ up'[c] = "up" => simSettings'[c] = settings[c]
  BY DEF LoadDesign, LoadModels, tables, Typed, TypeOK
<1>2. \A g \in Handlers : ~Serves(g, c)
  BY <1>1 DEF Kept, Serves
<1>3. \A g \in Handlers : req'[g].pc # "free" => up'[D(g)'] = "up" /\ FromMessage(req'[g])
  <2>1. \A g \in Handlers : req[g].pc # "free" => D(g) \in Designs \ {c}
    BY <1>2, Served DEF Serves
  <2> QED BY <1>1, <2>1 DEF Kept, D
<1>4. ASSUME NEW d \in Designs, d \notin doubt'[d] PROVE KeptOf(d)'
  <2>1. \A g \in Handlers : /\ Serves(g, d)' <=> Serves(g, d)
                            /\ Setting(g, d)' <=> Setting(g, d)
                            /\ Item(g)' = Item(g)
    BY <1>1 DEF Serves, Setting, D, Item
  <2>2. CASE d = c
    BY <1>1, <1>2, <2>1, <2>2 DEF KeptOf, Setting, Exact
  <2>3. CASE d # c
    BY <1>1, <1>4, <2>1, <2>3 DEF Kept, KeptOf
  <2> QED BY <2>2, <2>3
<1> QED BY <1>3, <1>4 DEF Kept

LEMMA InitKept == Init => Kept /\ Exact
<1> SUFFICES ASSUME Init PROVE Kept /\ Exact
  OBVIOUS
<1>1. \A h \in Handlers : req[h].pc = "free"
  BY DEF Init, Free
<1>2. \A d \in Designs : /\ settings[d] = FirstSettings /\ simSettings[d] = settings[d]
                        /\ SixDecimals(settings[d]) = settings[d]
  BY SettingsAssumption DEF Init
<1> QED BY <1>1, <1>2 DEF Kept, KeptOf, Serves, Setting, Exact

(* Whether a row of settings is written or its answer is lost: it has six  *)
(* decimals.                                                               *)
LEMMA ExactWritten ==
  ASSUME Typed, Exact, NEW h \in Handlers, Placing(h, "settings"), Item(h).e # None,
         settings' = [settings EXCEPT ![D(h)] = SixDecimals(Item(h).e)]
  PROVE  Exact'
<1>1. D(h) \in Designs /\ Item(h).e \in Settings
  BY Served, KindsOfItems DEF Placing
<1>2. SixDecimals(SixDecimals(Item(h).e)) = SixDecimals(Item(h).e)
  BY <1>1, SettingsAssumption
<1> QED BY <1>1, <1>2 DEF Exact, Typed, TypeOK

LEMMA NextExact == Typed /\ Exact /\ [Next]_vars => Exact'
<1> SUFFICES ASSUME Typed, Exact, [Next]_vars PROVE Exact'
  OBVIOUS
<1>1. CASE settings' = settings
  BY <1>1 DEF Exact
<1>2. ASSUME NEW h \in Handlers, StoreSettings(h) \/ SettingsFail(h) PROVE Exact'
  <2>1. CASE settings' = [settings EXCEPT ![D(h)] = SixDecimals(Item(h).e)] /\ Item(h).e # None
    BY <1>2, <2>1, ExactWritten DEF StoreSettings, SettingsFail
  <2>2. settings' = settings \/ ( /\ Item(h).e # None
                                 /\ settings' = [settings EXCEPT ![D(h)] = SixDecimals(Item(h).e)])
    BY <1>2 DEF StoreSettings, SettingsFail
  <2> QED BY <1>1, <2>1, <2>2
<1>3. ASSUME NEW h \in Handlers,
             \/ PlaceModel(h) \/ PlacePhyo(h) \/ KeepSettings(h) \/ Placed(h)
             \/ StoreModel(h) \/ PhyoId(h) \/ PhyoModel(h) \/ PhyoRow(h)
             \/ Fail(h) \/ Keep(h) \/ Kill(h)
             \/ TakeIcon(h) \/ StoreIcon(h) \/ CopyIcon(h)
      PROVE  settings' = settings
  BY <1>3 DEF PlaceModel, PlacePhyo, KeepSettings, Placed, StoreModel, PhyoId, PhyoModel,
              PhyoRow, Fail, Keep, Kill, TakeIcon, StoreIcon, CopyIcon, tables
<1>4. ASSUME NEW h \in Handlers, NEW m \in Messages, Receive(h, m) PROVE settings' = settings
  BY <1>4 DEF Receive, tables
<1>5. ASSUME NEW d \in Designs, Die(d) \/ LoadDesign(d) \/ LoadModels(d)
      PROVE  settings' = settings
  BY <1>5 DEF Die, LoadDesign, LoadModels, tables
<1>6. CASE UNCHANGED vars
  BY <1>1, <1>6 DEF vars, tables
<1> QED BY <1>1, <1>2, <1>3, <1>4, <1>5, <1>6 DEF Next

LEMMA NextKept == Typed /\ Exact /\ Kept /\ [Next]_vars => Kept'
<1> SUFFICES ASSUME Typed, Exact, Kept, [Next]_vars PROVE Kept'
  OBVIOUS
<1>1. ASSUME NEW h \in Handlers, NEW m \in Messages, Receive(h, m) PROVE Kept'
  BY <1>1, ReceiveKept
<1>2. ASSUME NEW h \in Handlers, StoreSettings(h) \/ KeepSettings(h) PROVE Kept'
  BY <1>2, StoreSettingsKept, KeepSettingsKept
<1>3. ASSUME NEW h \in Handlers,
             \/ PlaceModel(h) \/ PlacePhyo(h) \/ SettingsFail(h) \/ Placed(h)
             \/ StoreModel(h) \/ PhyoId(h) \/ PhyoModel(h) \/ PhyoRow(h)
             \/ Fail(h) \/ Keep(h) \/ Kill(h)
             \/ TakeIcon(h) \/ StoreIcon(h) \/ CopyIcon(h)
      PROVE Kept'
  BY <1>3, OthersMove, MovesKept
<1>4. ASSUME NEW d \in Designs, Die(d) \/ LoadDesign(d) \/ LoadModels(d) PROVE Kept'
  BY <1>4, DieKept, LoadKept
<1>5. CASE UNCHANGED vars
  BY <1>5 DEF vars, tables, memory, Kept, KeptOf, Serves, Setting, D, Item
<1> QED BY <1>1, <1>2, <1>3, <1>4, <1>5 DEF Next

(* Of a process that serves no request, the settings of the simulation     *)
(* are, to six decimals, the row in the table, whatever statement failed   *)
(* and whoever died, as long as no two requests of the design had settings *)
(* and no answer was lost: onUpdate writes the row before the variable.    *)
THEOREM SettingsAreDurable == Spec => []SettingsDurable
<1>1. Kept => SettingsDurable
  <2> SUFFICES ASSUME Kept, NEW d \in Designs, Quiet(d), d \notin doubt[d]
               PROVE  settings[d] = SixDecimals(simSettings[d])
    BY DEF SettingsDurable
  <2>1. \A h \in Handlers : ~Setting(h, d)
    BY DEF Quiet, InFlight, Setting, Serves, D
  <2> QED BY <2>1 DEF Kept, KeptOf, Quiet
<1> QED BY <1>1, InitTyped, NextTyped, InitKept, NextExact, NextKept, PTL DEF Spec

---------------------------------------------------------------------------
(* Models and phyos.  What a message has to do with.                       *)

LEMMA ItemsKnown ==
  ASSUME NEW m \in Messages, NEW kinds, NEW x \in Items(m, kinds)
  PROVE  x \in AnyItem /\ x.kind \in kinds /\ x \in ToSet(m.items)
BY GivenInMessages DEF Items, ToSet

LEMMA ModelsGiven ==
  ASSUME NEW m \in Messages
  PROVE  /\ \A x \in ModelItems(m) :
              /\ x \in ModelItem /\ x.kind = "model"
              /\ x.oid \in Names /\ x.e \in Model /\ x.e.name \in Names
              /\ x.oid \in Gives(m) /\ x.e.name \in Gives(m) /\ x.e.name \in Given(m)
              /\ x.oid # x.e.name => x.oid \in Renamed(m)
         /\ \A n \in Given(m) : \E x \in ModelItems(m) : x.e.name = n
         /\ \A n \in Renamed(m) : \E x \in ModelItems(m) : x.oid = n /\ x.e.name # n
         /\ Given(m) \cup Renamed(m) \subseteq Gives(m) \cap Names
<1>1. ASSUME NEW x \in ModelItems(m)
      PROVE  /\ x \in ModelItem /\ x.kind = "model"
             /\ x.oid \in Names /\ x.e \in Model /\ x.e.name \in Names
  <2>1. x \in ModelItem /\ x.kind = "model"
    BY ItemsKnown, KindsOfItems DEF ModelItems
  <2>2. x.oid \in Names /\ x.e \in Model
    BY <2>1 DEF ModelItem
  <2>. QED BY <2>1, <2>2 DEF Model
<1>2. ASSUME NEW x \in ModelItems(m)
      PROVE  /\ x.e.name \in Given(m)
             /\ x.oid # x.e.name => x.oid \in Renamed(m)
  BY DEF Given, Renamed, ModelItems
<1>3. Given(m) \cup Renamed(m) \subseteq Gives(m)
  BY DEF Gives
<1>4. /\ \A n \in Given(m) : \E x \in ModelItems(m) : x.e.name = n
      /\ \A n \in Renamed(m) : \E x \in ModelItems(m) : x.oid = n /\ x.e.name # n
  BY DEF Given, Renamed, ModelItems
<1>5. Given(m) \cup Renamed(m) \subseteq Names
  BY <1>1, <1>4
<1>. QED BY <1>1, <1>2, <1>3, <1>4, <1>5

LEMMA PhyosGiven ==
  ASSUME NEW m \in Messages
  PROVE  /\ \A y \in PhyoItems(m) :
              /\ y \in PhyoItem /\ y.kind = "phyo" /\ y.e \in Phyo
              /\ y.e.id \in Phyos /\ y.e.id \in Gives(m) /\ DesignOf(y.e.id) = m.design
              /\ y.e.model \in Names /\ y.e.model \in Refers(m)
         /\ \A n \in Refers(m) : n \in Names /\ \E y \in PhyoItems(m) : y.e.model = n
         /\ Touches(m) = Gives(m) \cup Refers(m)
<1>1. ASSUME NEW y \in PhyoItems(m)
      PROVE  /\ y \in PhyoItem /\ y.kind = "phyo" /\ y.e \in Phyo
             /\ y.e.id \in Phyos /\ y.e.model \in Names
  <2>1. y \in PhyoItem /\ y.kind = "phyo"
    BY ItemsKnown, KindsOfItems DEF PhyoItems
  <2>2. y.e \in Phyo
    BY <2>1 DEF PhyoItem
  <2>. QED BY <2>1, <2>2 DEF Phyo
<1>2. ASSUME NEW y \in PhyoItems(m)
      PROVE  y.e.id \in Gives(m) /\ y.e.model \in Refers(m)
  BY DEF PhyoItems, Gives, Refers
<1>3. ASSUME NEW y \in PhyoItems(m)
      PROVE  DesignOf(y.e.id) = m.design
  BY MessagesAssumption DEF PhyoItems, Items
<1>4. \A n \in Refers(m) : \E y \in PhyoItems(m) : y.e.model = n
  BY DEF Refers, PhyoItems
<1>. QED BY <1>1, <1>2, <1>3, <1>4 DEF Touches

LEMMA GivenFrom ==
  ASSUME NEW m \in Messages
  PROVE  /\ \A n \in Gives(m) \cap Names :
              Items(m, {"icon"}) = {} => \E x \in ModelItems(m) : n = x.oid \/ n = x.e.name
         /\ \A f \in Gives(m) \cap Phyos :
              DesignOf(f) = m.design /\ \E y \in PhyoItems(m) : y.e.id = f
<1>1. Gives(m) = Given(m) \cup Renamed(m) \cup { x.name : x \in Items(m, {"icon"}) }
                 \cup { x.e.id : x \in PhyoItems(m) }
                 \cup (IF Items(m, {"settings"}) = {} THEN {} ELSE {m.design})
  BY DEF Gives, PhyoItems
<1>2. { x.e.id : x \in PhyoItems(m) } \subseteq Phyos
  BY PhyosGiven
<1>3. { x.name : x \in Items(m, {"icon"}) } \subseteq Names
  BY ItemsKnown, KindsOfItems
<1>4. m.design \in Designs
  BY GivenInMessages
<1>5. Given(m) \cup Renamed(m) \subseteq Names
  BY ModelsGiven
<1>6. ASSUME NEW n \in Gives(m) \cap Names, Items(m, {"icon"}) = {}
      PROVE  \E x \in ModelItems(m) : n = x.oid \/ n = x.e.name
  <2>1. n \in Given(m) \cup Renamed(m)
    BY <1>1, <1>2, <1>4, <1>6, DoubtAssumption
  <2>. QED BY <2>1, ModelsGiven
<1>7. ASSUME NEW f \in Gives(m) \cap Phyos
      PROVE  \E y \in PhyoItems(m) : y.e.id = f
  BY <1>1, <1>3, <1>4, <1>5, DoubtAssumption
<1>. QED BY <1>6, <1>7, PhyosGiven

LEMMA IconGiven ==
  ASSUME NEW m \in Messages, NEW x \in Items(m, {"icon"})
  PROVE  /\ m.items = <<x>> /\ x.kind = "icon" /\ x.name \in Names /\ x.icon \in Icons
         /\ x.name \in Gives(m) /\ Gives(m) \cap Names = {x.name}
         /\ ModelItems(m) = {} /\ PhyoItems(m) = {} /\ Given(m) = {} /\ Renamed(m) = {}
<1>1. PICK k \in DOMAIN m.items : m.items[k] = x /\ x.kind = "icon"
  BY DEF Items
<1>2. m.items \in Seq(AnyItem) /\ Len(m.items) = 1
  BY <1>1, MessagesAssumption
<1>3. DOMAIN m.items = {1} /\ m.items = <<m.items[1]>>
  BY <1>2
<1>4. m.items = <<x>>
  BY <1>1, <1>3
<1>5. \A y \in ToSet(m.items) : y = x
  BY <1>3, <1>1 DEF ToSet
<1>6. ModelItems(m) = {} /\ PhyoItems(m) = {} /\ Items(m, {"settings"}) = {}
  BY <1>1, <1>3 DEF ModelItems, PhyoItems, Items
<1>7. Items(m, {"icon"}) = {x}
  BY <1>1, <1>3 DEF Items
<1>8. x.name \in Names /\ x.icon \in Icons
  BY ItemsKnown, KindsOfItems, <1>1
<1>9. Given(m) = {} /\ Renamed(m) = {}
  BY <1>6, ModelsGiven
<1>10. Gives(m) = {x.name}
  BY <1>6, <1>7, <1>9 DEF Gives, PhyoItems
<1>. QED BY <1>1, <1>4, <1>6, <1>8, <1>9, <1>10

---------------------------------------------------------------------------
(* What is read of models that are filed under their names.                *)

ReadsAsFiled ==
  /\ \A n \in Names : StoredModels[n] = None \/
       /\ StoredModels[n] \in Model /\ StoredModels[n].name = n
       /\ \E k \in Keys : models[k] = StoredModels[n]
  /\ \A k \in Keys : models[k] # None => StoredModels[models[k].name] = models[k]

LEMMA Reads == Typed /\ Filed => ReadsAsFiled
<1> SUFFICES ASSUME Typed, Filed PROVE ReadsAsFiled
  OBVIOUS
<1>1. models \in [Keys -> Model \cup {None}]
  BY DEF Typed, TypeOK
<1>2. ASSUME NEW n \in Names, ReadModel(n) # None
      PROVE  /\ ReadModel(n) \in Model /\ ReadModel(n).name = n
             /\ \E k \in Keys : models[k] = ReadModel(n)
  <2>1. ModelKeys(n) # {}
    BY <1>2 DEF ReadModel
  <2>2. PICK k \in ModelKeys(n) : ReadModel(n) = models[k]
    BY <2>1 DEF ReadModel
  <2>. QED BY <1>1, <2>2 DEF ModelKeys
<1>3. ASSUME NEW k \in Keys, models[k] # None
      PROVE  ReadModel(models[k].name) = models[k] /\ models[k].name \in Names
  <2>1. \A j \in ModelKeys(models[k].name) : j = k
    BY <1>3 DEF ModelKeys, Filed
  <2>2. k \in ModelKeys(models[k].name)
    BY <1>3 DEF ModelKeys
  <2>3. ModelKeys(models[k].name) # {} /\ (CHOOSE j \in ModelKeys(models[k].name) : TRUE) = k
    BY <2>1, <2>2
  <2>4. models[k] \in Model
    BY <1>1, <1>3
  <2>. QED BY <2>3, <2>4 DEF ReadModel, Model
<1>. QED BY <1>2, <1>3 DEF ReadsAsFiled, StoredModels

LEMMA ReadsNext == Typed' /\ Filed' => ReadsAsFiled'
BY Reads, PTL

(* What is read of a phyo, and when it is the same after a step.           *)
LEMMA PhyosRead ==
  ASSUME NEW f \in Phyos
  PROVE  /\ phyos[f] \in {None, Half} => StoredPhyos[f] = None
         /\ phyos[f] \notin {None, Half} =>
              StoredPhyos[f] = [id |-> f, model |-> models[phyos[f]].name]
         /\ phyos'[f] \in {None, Half} => StoredPhyos'[f] = None
         /\ phyos'[f] \notin {None, Half} =>
              StoredPhyos'[f] = [id |-> f, model |-> models'[phyos'[f]].name]
BY DEF StoredPhyos, ReadPhyo

(* What is stored, if the tables are as they were.                         *)
LEMMA TablesStay ==
  ASSUME UNCHANGED <<models, phyos>>
  PROVE  StoredModels' = StoredModels /\ StoredPhyos' = StoredPhyos
BY DEF StoredModels, ReadModel, ModelKeys, StoredPhyos, ReadPhyo

(* A step of a request changes what its message gives, and of that only    *)
(* what its own process holds.                                             *)
NamesKept(h) ==
  \A k \in Keys : models[k] # None =>
    /\ models'[k] # None
    /\ models'[k].name = models[k].name \/ models[k].name \in Renamed(Sent(h))

(* Of models and phyos as much is promised as before.                      *)
SameDoubt ==
  \A d \in Designs : doubt[d] \subseteq doubt'[d] /\ doubt'[d] \subseteq doubt[d] \cup Designs

Local(h) ==
  /\ \A g \in Handlers \ {h} : req'[g] = req[g]
  /\ req'[h] = Free \/ (req'[h].pc # "free" /\ req'[h].msg = req[h].msg)
  /\ up' = up
  /\ \A d \in Designs, n \in Names :
       d # D(h) \/ n \notin Gives(Sent(h)) => userModels'[d][n] = userModels[d][n]
  /\ \A n \in Names \ Gives(Sent(h)) : StoredModels'[n] = StoredModels[n]
  /\ \A f \in Phyos \ Gives(Sent(h)) : elements'[f] = elements[f] /\ phyos'[f] = phyos[f]
  /\ \A f \in Phyos : elements'[f] = elements[f] \/ elements'[f].model \in Refers(Sent(h))
  /\ NamesKept(h) /\ Filed'
  /\ \/ SameDoubt
     \/ \A d \in Designs : /\ Gives(Sent(h)) \ Designs \subseteq doubt'[d]
                           /\ doubt[d] \subseteq doubt'[d]
                           /\ doubt'[d] \subseteq doubt[d] \cup Gives(Sent(h))

Settled(h) ==
  /\ \A n \in (Gives(Sent(h)) \cap Names) \ doubt[D(h)] :
       userModels'[D(h)][n] = StoredModels'[n]
  /\ \A f \in (Gives(Sent(h)) \cap Phyos) \ doubt[D(h)] :
       elements'[f] = StoredPhyos'[f] /\ phyos'[f] # Half

(* And it gets on.                                                         *)
GetsOn(h) ==
  /\ req'[h] # Free => OfMessage(req'[h]) /\ Complete(req'[h])
  /\ Good(h) /\ SameDoubt =>
       IF req'[h] = Free THEN Settled(h) ELSE Progress(h)'

LEMMA SentKnown ==
  ASSUME Typed, NEW h \in Handlers, Busy(h)
  PROVE  Sent(h) \in Messages /\ D(h) \in Designs /\ D(h) = Sent(h).design
         /\ req[h] \in Request
BY Served DEF Busy, Sent, D, Request

(* What is the same of requests after the step of one of them.             *)
LEMMA LocalRequests ==
  ASSUME Typed, Control, NEW h \in Handlers, Busy(h), Local(h), NEW g \in Handlers, Busy(g)'
  PROVE  /\ Busy(g) /\ Sent(g)' = Sent(g) /\ D(g)' = D(g)
         /\ Good(g)' => Good(g)
         /\ Good(g)' /\ ~SameDoubt => g # h
         /\ g = h => req'[h] # Free
<1>1. Busy(g) /\ req'[g].msg = req[g].msg
  BY DEF Local, Busy, Free
<1>2. Sent(g)' = Sent(g) /\ D(g)' = D(g)
  BY <1>1 DEF Sent, D
<1>3. Sent(g) \in Messages /\ D(g) \in Designs
  BY <1>1, SentKnown
<1>4. doubt[D(g)] \subseteq doubt'[D(g)]
  BY <1>3 DEF Local, SameDoubt
<1>5. Good(g)' => Good(g)
  BY <1>1, <1>2, <1>4 DEF Good
<1>6. Good(g)' /\ ~SameDoubt => g # h
  BY <1>2, <1>3 DEF Good, Local
<1>7. g = h => req'[h] # Free
  BY DEF Busy, Free
<1>. QED BY <1>1, <1>2, <1>5, <1>6, <1>7

LEMMA LocalUnmet ==
  ASSUME Typed, Control, Agreement, NEW h \in Handlers, Busy(h), Local(h)
  PROVE  Unmet'
<1> SUFFICES ASSUME NEW g \in Handlers, Good(g)'
             PROVE  /\ Proper(Sent(g))'
                    /\ (Touches(Sent(g)) \cap Names \cap doubt[D(g)] = {})'
                    /\ \A k \in Handlers \ {g} :
                         Busy(k)' => (Touches(Sent(k)) \cap Touches(Sent(g)) = {})'
  BY DEF Unmet
<1>1. Busy(g)'
  BY DEF Good
<1>2. Good(g) /\ Sent(g)' = Sent(g) /\ D(g)' = D(g) /\ (~SameDoubt => g # h)
  BY <1>1, LocalRequests
<1>3. /\ Proper(Sent(g)) /\ Touches(Sent(g)) \cap Names \cap doubt[D(g)] = {}
      /\ \A k \in Handlers \ {g} : Busy(k) => Touches(Sent(k)) \cap Touches(Sent(g)) = {}
  BY <1>2 DEF Agreement, Unmet
<1>4. Proper(Sent(g))'
  BY <1>2, <1>3
<1>5. (Touches(Sent(g)) \cap Names \cap doubt[D(g)] = {})'
  <2>1. CASE SameDoubt
    <3>1. doubt'[D(g)] \subseteq doubt[D(g)] \cup Designs
      BY <2>1, <1>1, <1>2, SentKnown, LocalRequests DEF SameDoubt
    <3>. QED BY <3>1, <1>2, <1>3, DoubtAssumption
  <2>2. CASE ~SameDoubt
    <3>1. Touches(Sent(h)) \cap Touches(Sent(g)) = {}
      BY <2>2, <1>2, <1>3
    <3>2. doubt'[D(g)] \subseteq doubt[D(g)] \cup Gives(Sent(h))
      BY <2>2, <1>1, <1>2, SentKnown, LocalRequests DEF Local
    <3>. QED BY <3>1, <3>2, <1>2, <1>3 DEF Touches
  <2>. QED BY <2>1, <2>2
<1>6. ASSUME NEW k \in Handlers \ {g}, Busy(k)'
      PROVE  (Touches(Sent(k)) \cap Touches(Sent(g)) = {})'
  <2>1. Busy(k) /\ Sent(k)' = Sent(k)
    BY <1>6, LocalRequests
  <2>. QED BY <2>1, <1>2, <1>3
<1>. QED BY <1>4, <1>5, <1>6

LEMMA LocalForeign ==
  ASSUME Typed, Control, Agreement, NEW h \in Handlers, Busy(h), Local(h)
  PROVE  Foreign'
<1> SUFFICES ASSUME NEW g \in Handlers, Busy(g)', NEW d \in Designs, d # D(g)',
                    up'[d] # "down"
             PROVE  Gives(Sent(g)') \cap Names \subseteq doubt'[d]
  BY DEF Foreign
<1>1. Busy(g) /\ Sent(g)' = Sent(g) /\ D(g)' = D(g)
  BY LocalRequests
<1>2. Gives(Sent(g)) \cap Names \subseteq doubt[d]
  BY <1>1 DEF Agreement, Foreign, Local
<1>3. doubt[d] \subseteq doubt'[d]
  BY DEF Local, SameDoubt
<1>. QED BY <1>1, <1>2, <1>3

(* A request that gives a phyo of which something is promised is good.     *)
LEMMA GivesGood ==
  ASSUME Typed, NEW h \in Handlers, Busy(h), NEW x \in Gives(Sent(h)), x \in Names \cup Phyos,
         x \notin doubt[D(h)]
  PROVE  Good(h)
BY DoubtAssumption DEF Good

(* Of a phyo, whose doubts are those of its own design.                    *)
LEMMA GivesSure ==
  ASSUME Typed, NEW h \in Handlers, Busy(h), NEW f \in Phyos, f \in Gives(Sent(h)),
         f \notin doubt[DesignOf(f)]
  PROVE  Good(h) /\ DesignOf(f) = D(h)
<1>1. DesignOf(f) = D(h)
  BY SentKnown, GivenFrom
<1>. QED BY <1>1, GivesGood

LEMMA LocalLasting ==
  ASSUME Typed, Control, Agreement, NEW h \in Handlers, Busy(h), Local(h)
  PROVE  Lasting'
<1> SUFFICES ASSUME NEW g \in Handlers, Busy(g)', NEW f \in Phyos, f \notin Gives(Sent(g)'),
                    Sure(f)', elements'[f] # None
             PROVE  elements'[f].model \notin Renamed(Sent(g)')
  BY DEF Lasting
<1>1. Busy(g) /\ Sent(g)' = Sent(g)
  BY LocalRequests
<1>2. DesignOf(f) \in Designs
  BY StartAssumption
<1>3. doubt[DesignOf(f)] \subseteq doubt'[DesignOf(f)]
  BY <1>2 DEF Local, SameDoubt
<1>4. Sure(f)
  BY <1>3 DEF Sure, Local
<1>5. CASE elements'[f] = elements[f]
  BY <1>1, <1>4, <1>5 DEF Agreement, Lasting
<1>6. CASE elements'[f] # elements[f]
  <2>1. f \in Gives(Sent(h)) /\ elements'[f].model \in Refers(Sent(h))
    BY <1>6 DEF Local
  <2>2. Good(h) /\ g # h
    BY <2>1, <1>1, <1>4, GivesSure DEF Sure
  <2>3. Touches(Sent(g)) \cap Touches(Sent(h)) = {}
    BY <2>2, <1>1 DEF Agreement, Unmet
  <2>4. Renamed(Sent(g)) \subseteq Touches(Sent(g)) /\ Refers(Sent(h)) \subseteq Touches(Sent(h))
    BY DEF Touches, Gives
  <2>. QED BY <2>1, <2>3, <2>4, <1>1
<1>. QED BY <1>5, <1>6

LEMMA LocalModelsSame ==
  ASSUME Typed, Control, Agreement, NEW h \in Handlers, Busy(h), Local(h), GetsOn(h)
  PROVE  ModelsSame'
<1> SUFFICES ASSUME NEW d \in Designs, up'[d] = "up", NEW n \in Names, n \notin doubt'[d],
                    Unserved(d, n)'
             PROVE  userModels'[d][n] = StoredModels'[n]
  BY DEF ModelsSame, SameModel
<1>1. up[d] = "up" /\ n \notin doubt[d]
  BY DEF Local, SameDoubt
<1>2. CASE n \notin Gives(Sent(h))
  <2>1. userModels'[d][n] = userModels[d][n] /\ StoredModels'[n] = StoredModels[n]
    BY <1>2 DEF Local
  <2>2. ASSUME NEW g \in Handlers, Serves(g, d) PROVE n \notin Gives(Sent(g))
    <3>1. CASE g = h
      BY <3>1, <1>2
    <3>2. CASE g # h
      <4>1. req'[g] = req[g]
        BY <3>2 DEF Local
      <4>. QED BY <4>1, <2>2 DEF Unserved, Serves, Sent, D
    <3>. QED BY <3>1, <3>2
  <2>3. SameModel(d, n)
    BY <1>1, <2>2 DEF Agreement, ModelsSame, Unserved
  <2>. QED BY <2>1, <2>3 DEF SameModel
<1>3. CASE n \in Gives(Sent(h))
  <2>1. D(h) = d
    BY <1>1, <1>3 DEF Agreement, Foreign
  <2>2. Good(h)
    BY <1>1, <1>3, <2>1, GivesGood
  <2>3. SameDoubt
    BY <1>3, DoubtAssumption DEF Local
  <2>4. req'[h] = Free
    BY <1>3, <2>1 DEF Local, Unserved, Serves, Sent, D
  <2>. QED BY <2>1, <2>2, <2>3, <2>4, <1>1, <1>3 DEF GetsOn, Settled
<1>. QED BY <1>2, <1>3

(* A phyo that is stored, and whose model keeps its name, is stored as it  *)
(* was.                                                                    *)
LEMMA PhyoStays ==
  ASSUME Typed, NEW h \in Handlers, NamesKept(h), NEW f \in Phyos, phyos'[f] = phyos[f],
         StoredPhyos[f] # None => StoredPhyos[f].model \notin Renamed(Sent(h))
  PROVE  StoredPhyos'[f] = StoredPhyos[f]
<1>1. CASE phyos[f] \in {None, Half}
  BY <1>1, PhyosRead
<1>2. CASE phyos[f] \notin {None, Half}
  <2>1. phyos[f] \in Keys /\ models[phyos[f]] # None
    BY <1>2 DEF Typed, TypeOK, Stage
  <2>2. StoredPhyos[f] = [id |-> f, model |-> models[phyos[f]].name]
        /\ StoredPhyos'[f] = [id |-> f, model |-> models'[phyos[f]].name]
    BY <1>2, PhyosRead
  <2>3. models[phyos[f]] \in Model
    BY <2>1 DEF Typed, TypeOK
  <2>4. models[phyos[f]].name \in Names
    BY <2>3 DEF Model
  <2>5. StoredPhyos[f] \in Phyo
    BY <2>2, <2>4 DEF Phyo
  <2>6. models[phyos[f]].name \notin Renamed(Sent(h))
    BY <2>5, <2>2, StartAssumption
  <2>. QED BY <2>1, <2>2, <2>6 DEF NamesKept
<1>. QED BY <1>1, <1>2

(* So it is of one that is the same, and that the step does not give.      *)
LEMMA SamePhyoStays ==
  ASSUME Typed, Agreement, NEW h \in Handlers, Busy(h), Local(h),
         NEW f \in Phyos, f \notin Gives(Sent(h)), Sure(f), SamePhyo(f)
  PROVE  SamePhyo(f)'
<1>1. elements'[f] = elements[f] /\ phyos'[f] = phyos[f]
  BY DEF Local
<1>2. elements[f] # None => elements[f].model \notin Renamed(Sent(h))
  BY DEF Agreement, Lasting
<1>3. StoredPhyos'[f] = StoredPhyos[f]
  BY <1>1, <1>2, PhyoStays DEF SamePhyo, Local
<1>. QED BY <1>1, <1>3 DEF SamePhyo

LEMMA LocalPhyosSame ==
  ASSUME Typed, Control, Agreement, NEW h \in Handlers, Busy(h), Local(h), GetsOn(h)
  PROVE  PhyosSame'
<1> SUFFICES ASSUME NEW f \in Phyos, Sure(f)', Unserved(DesignOf(f), f)'
             PROVE  SamePhyo(f)'
  BY DEF PhyosSame
<1> DEFINE d == DesignOf(f)
<1>0. d \in Designs
  BY StartAssumption
<1>1. Sure(f)
  BY <1>0 DEF Local, SameDoubt, Sure
<1>2. CASE f \notin Gives(Sent(h))
  <2>1. ASSUME NEW g \in Handlers, Serves(g, d) PROVE f \notin Gives(Sent(g))
    <3>1. CASE g = h
      BY <3>1, <1>2
    <3>2. CASE g # h
      <4>1. req'[g] = req[g]
        BY <3>2 DEF Local
      <4>. QED BY <4>1, <2>1 DEF Unserved, Serves, Sent, D
    <3>. QED BY <3>1, <3>2
  <2>2. SamePhyo(f)
    BY <1>1, <2>1 DEF Agreement, PhyosSame, Unserved
  <2>. QED BY <1>1, <1>2, <2>2, SamePhyoStays
<1>3. CASE f \in Gives(Sent(h))
  <2>1. Good(h) /\ d = D(h)
    BY <1>1, <1>3, GivesSure DEF Sure
  <2>2. SameDoubt
    BY <1>0, <1>3, DoubtAssumption DEF Local, Sure
  <2>3. req'[h] = Free
    BY <1>3, <2>1 DEF Local, Unserved, Serves, Sent, D
  <2>. QED BY <2>1, <2>2, <2>3, <1>1, <1>3 DEF GetsOn, Settled, SamePhyo, Sure
<1>. QED BY <1>2, <1>3

(* What a good request has to do with is no other's.                       *)
LEMMA Apart ==
  ASSUME Typed, Agreement, NEW h \in Handlers, Busy(h), NEW g \in Handlers, g # h, Good(g)
  PROVE  /\ \A x \in Touches(Sent(g)) : x \notin Gives(Sent(h)) /\ x \notin Renamed(Sent(h))
         /\ Busy(g)
<1>1. Busy(g)
  BY DEF Good
<1>2. Touches(Sent(h)) \cap Touches(Sent(g)) = {}
  BY DEF Agreement, Unmet
<1>3. Gives(Sent(h)) \subseteq Touches(Sent(h)) /\ Renamed(Sent(h)) \subseteq Touches(Sent(h))
  BY DEF Touches, Gives
<1>. QED BY <1>1, <1>2, <1>3

LEMMA LocalSorting ==
  ASSUME Typed, Control, Agreement, NEW h \in Handlers, Busy(h), Local(h),
         NEW g \in Handlers, g # h, Good(g)', Sorting(g)
  PROVE  Sorting(g)'
<1>1. Busy(g)'
  BY DEF Good
<1>2. Good(g) /\ Busy(g) /\ Sent(g)' = Sent(g) /\ D(g)' = D(g) /\ req'[g] = req[g]
  BY <1>1, LocalRequests DEF Local
<1>3. Sent(g) \in Messages /\ D(g) \in Designs
  BY <1>2, SentKnown
<1>4. \A x \in Touches(Sent(g)) : x \notin Gives(Sent(h)) /\ x \notin Renamed(Sent(h))
  BY <1>2, Apart
<1>5. Gives(Sent(g)) \subseteq Touches(Sent(g))
  BY DEF Touches
<1>6. \A n \in Gives(Sent(g)) \cap Names :
        userModels'[D(g)][n] = userModels[D(g)][n] /\ StoredModels'[n] = StoredModels[n]
  BY <1>3, <1>4, <1>5 DEF Local
<1>7. \A f \in Gives(Sent(g)) \cap Phyos : elements'[f] = elements[f] /\ phyos'[f] = phyos[f]
  BY <1>4, <1>5 DEF Local
<1>8. req[g] \in Request /\ up[D(g)] = "up" /\ OfMessage(req[g])
  BY <1>2, SentKnown DEF Control
<1>9. /\ ToSet(req[g].models) \cup ToSet(req[g].newModels) \subseteq ModelItems(Sent(g))
      /\ ToSet(req[g].nodes) \cup ToSet(req[g].newNodes) \subseteq PhyoItems(Sent(g))
  BY <1>8 DEF OfMessage, Sent
<1>10. (\A n \in Gives(Sent(g)) \cap Names : SameModel(D(g), n))'
  BY <1>2, <1>6 DEF Sorting, SameModel
<1>11. (\A x \in ModelItems(Sent(g)) : x.oid # x.e.name => Held(g, x.e.name) = None)'
  BY <1>2, <1>3, <1>6, ModelsGiven DEF Sorting, Held
<1>12. /\ (\A x \in ToSet(req[g].models) : Held(g, x.oid) # None)'
       /\ (\A x \in ToSet(req[g].newModels) : Held(g, x.oid) = None)'
  BY <1>2, <1>3, <1>6, <1>9, ModelsGiven DEF Sorting, Held
<1>13. /\ (\A y \in ToSet(req[g].nodes) : elements[y.e.id] # None)'
       /\ (\A y \in ToSet(req[g].newNodes) : elements[y.e.id] = None)'
  BY <1>2, <1>3, <1>7, <1>9, PhyosGiven DEF Sorting
<1>14. ASSUME NEW f \in Gives(Sent(g)) \cap Phyos, f \notin doubt'[D(g)]
       PROVE  SamePhyo(f)'
  <2>1. f \notin doubt[D(g)]
    BY <1>3, <1>14 DEF Local, SameDoubt
  <2>2. SamePhyo(f) /\ DesignOf(f) = D(g)
    BY <1>2, <2>1, <1>3, SentKnown, GivenFrom DEF Sorting
  <2>3. Sure(f)
    BY <2>1, <2>2, <1>8 DEF Sure
  <2>. QED BY <2>2, <2>3, <1>4, <1>5, SamePhyoStays
<1>. QED BY <1>2, <1>10, <1>11, <1>12, <1>13, <1>14 DEF Sorting

LEMMA LocalModelsCome ==
  ASSUME Typed, Control, Agreement, NEW h \in Handlers, Busy(h), Local(h),
         NEW g \in Handlers, g # h, Good(g)', ModelsCome(g)
  PROVE  ModelsCome(g)'
<1>1. Busy(g)'
  BY DEF Good
<1>2. Good(g) /\ Busy(g) /\ Sent(g)' = Sent(g) /\ D(g)' = D(g) /\ req'[g] = req[g]
  BY <1>1, LocalRequests DEF Local
<1>3. Sent(g) \in Messages /\ D(g) \in Designs
  BY <1>2, SentKnown
<1>4. \A x \in Touches(Sent(g)) : x \notin Gives(Sent(h)) /\ x \notin Renamed(Sent(h))
  BY <1>2, Apart
<1>5. Gives(Sent(g)) \subseteq Touches(Sent(g))
  BY DEF Touches
<1>6. \A n \in Gives(Sent(g)) \cap Names :
        userModels'[D(g)][n] = userModels[D(g)][n] /\ StoredModels'[n] = StoredModels[n]
  BY <1>3, <1>4, <1>5 DEF Local
<1>7. Waiting(g)' = Waiting(g) /\ X(g)' = X(g)
  BY <1>2 DEF Waiting, X
<1> SUFFICES ASSUME NEW x \in ModelItems(Sent(g))
             PROVE  (\/ ModelDone(g, x)
                     \/ x \in Waiting(g) /\ ModelTodo(g, x)
                     \/ req[g].pc = "keep" /\ x = X(g) /\ ModelStored(x))'
  BY <1>2 DEF ModelsCome
<1>8. /\ userModels'[D(g)][x.oid] = userModels[D(g)][x.oid]
      /\ userModels'[D(g)][x.e.name] = userModels[D(g)][x.e.name]
      /\ StoredModels'[x.oid] = StoredModels[x.oid]
      /\ StoredModels'[x.e.name] = StoredModels[x.e.name]
  BY <1>3, <1>6, ModelsGiven
<1>9. ModelStored(x)' <=> ModelStored(x)
  BY <1>8 DEF ModelStored
<1>10. ModelDone(g, x)' <=> ModelDone(g, x)
  BY <1>2, <1>8, <1>9 DEF ModelDone, Held
<1>11. ModelTodo(g, x)' <=> ModelTodo(g, x)
  BY <1>2, <1>8 DEF ModelTodo, SameModel, Held
<1>. QED BY <1>2, <1>7, <1>9, <1>10, <1>11 DEF ModelsCome

LEMMA LocalPhyosCome ==
  ASSUME Typed, Control, Agreement, NEW h \in Handlers, Busy(h), Local(h),
         NEW g \in Handlers, g # h, Good(g)', PhyosCome(g)
  PROVE  PhyosCome(g)'
<1>1. Busy(g)'
  BY DEF Good
<1>2. Good(g) /\ Busy(g) /\ Sent(g)' = Sent(g) /\ D(g)' = D(g) /\ req'[g] = req[g]
  BY <1>1, LocalRequests DEF Local
<1>3. Sent(g) \in Messages /\ D(g) \in Designs
  BY <1>2, SentKnown
<1>4. \A x \in Touches(Sent(g)) : x \notin Gives(Sent(h)) /\ x \notin Renamed(Sent(h))
  BY <1>2, Apart
<1>5. Waiting(g)' = Waiting(g) /\ X(g)' = X(g)
  BY <1>2 DEF Waiting, X
<1> SUFFICES ASSUME NEW y \in PhyoItems(Sent(g)), y.e.id \notin doubt'[D(g)]
             PROVE  (\/ PhyoDone(y)
                     \/ y \in Waiting(g) /\ PhyoTodo(g, y)
                     \/ req[g].pc \in {"key", "row"} /\ y = X(g)
                     \/ req[g].pc = "keep" /\ y = X(g) /\ PhyoStored(y))'
  BY <1>2 DEF PhyosCome
<1>6. y.e.id \notin doubt[D(g)]
  BY <1>3 DEF Local, SameDoubt
<1>7. /\ y.e.id \in Phyos /\ y.e \in Phyo
      /\ y.e.id \in Touches(Sent(g)) /\ y.e.model \in Touches(Sent(g))
  BY <1>3, PhyosGiven
<1>8. elements'[y.e.id] = elements[y.e.id] /\ phyos'[y.e.id] = phyos[y.e.id]
  BY <1>4, <1>7 DEF Local
<1>9. ASSUME PhyoStored(y) PROVE PhyoStored(y)'
  <2>1. StoredPhyos[y.e.id] = y.e /\ y.e.model \notin Renamed(Sent(h))
    BY <1>4, <1>7, <1>9 DEF PhyoStored
  <2>2. StoredPhyos'[y.e.id] = StoredPhyos[y.e.id]
    BY <2>1, <1>7, <1>8, PhyoStays DEF Local
  <2>. QED BY <2>1, <2>2 DEF PhyoStored
<1>10. PhyoDone(y) => PhyoDone(y)'
  BY <1>8, <1>9 DEF PhyoDone
<1>11. PhyoTodo(g, y) => PhyoTodo(g, y)'
  BY <1>2, <1>8 DEF PhyoTodo
<1>. QED BY <1>2, <1>5, <1>6, <1>9, <1>10, <1>11 DEF PhyosCome

LEMMA LocalProgress ==
  ASSUME Typed, Control, Agreement, NEW h \in Handlers, Busy(h), Local(h),
         NEW g \in Handlers, g # h, Good(g)'
  PROVE  Progress(g)'
<1>1. Busy(g)'
  BY DEF Good
<1>2. Good(g) /\ Busy(g) /\ Sent(g)' = Sent(g) /\ D(g)' = D(g) /\ req'[g] = req[g]
  BY <1>1, LocalRequests DEF Local
<1>3. Sent(g) \in Messages /\ D(g) \in Designs /\ req[g] \in Request /\ Sent(g) = req[g].msg
  BY <1>2, SentKnown DEF Sent
<1>4. \A x \in Touches(Sent(g)) : x \notin Gives(Sent(h)) /\ x \notin Renamed(Sent(h))
  BY <1>2, Apart
<1>5. Gives(Sent(g)) \subseteq Touches(Sent(g)) /\ Refers(Sent(g)) \subseteq Touches(Sent(g))
  BY DEF Touches
<1>6. Progress(g) /\ OfMessage(req[g]) /\ Complete(req[g]) /\ Staged(req[g], models)
  BY <1>2, Served DEF Agreement, Progressing, Control, Busy
<1>7. \A n \in Names \cap Touches(Sent(g)) :
        userModels'[D(g)][n] = userModels[D(g)][n] /\ StoredModels'[n] = StoredModels[n]
  BY <1>3, <1>4 DEF Local
<1>8. (\A n \in Refers(Sent(g)) \ Given(Sent(g)) : StoredModels[n] # None)'
  BY <1>2, <1>3, <1>5, <1>6, <1>7, PhyosGiven DEF Progress
<1>9. (req[g].pc \in Placings => Sorting(g))'
  BY <1>2, <1>6, LocalSorting DEF Progress
<1>10. (req[g].pc \in Storings => ModelsCome(g) /\ PhyosCome(g))'
  BY <1>2, <1>6, LocalModelsCome, LocalPhyosCome DEF Progress
<1>11. X(g)' = X(g) /\ Item(g)' = Item(g)
  BY <1>2 DEF X, Item
<1>12. ASSUME req[g].pc = "row"
       PROVE  models'[req[g].key].name = X(g).e.model
  <2>1. req[g].queue # << >> /\ X(g).kind = "phyo" /\ req[g].key \in Keys
        /\ models[req[g].key] # None /\ models[req[g].key].name = X(g).e.model
    BY <1>6, <1>12 DEF Staged, X, Progress
  <2>2. X(g) \in ToSet(req[g].queue)
    BY <1>3, <2>1 DEF Request, X, ToSet
  <2>3. X(g) \in ModelItems(Sent(g)) \cup PhyoItems(Sent(g))
    BY <1>6, <1>12, <2>2, <1>3 DEF Complete, Storings
  <2>4. X(g).e.model \in Refers(Sent(g))
    BY <2>1, <2>3, <1>3, ModelsGiven, PhyosGiven
  <2>. QED BY <2>1, <2>4, <1>4, <1>5 DEF Local, NamesKept
<1>13. ASSUME req[g].pc \in {"icon", "web"}
       PROVE  Item(g).name \in Names /\ Item(g).name \in Gives(Sent(g))
  <2>1. req[g].rest # << >> /\ Item(g).kind = "icon"
    BY <1>6, <1>13 DEF Staged, Item
  <2>2. Item(g) \in ToSet(req[g].rest)
    BY <1>3, <2>1 DEF Request, Item, ToSet
  <2>3. Item(g) \in ToSet(Sent(g).items)
    BY <2>2, <1>3, <1>6 DEF OfMessage
  <2>4. Item(g) \in Items(Sent(g), {"icon"})
    BY <2>1, <2>3 DEF Items, ToSet
  <2>. QED BY <2>4, <1>3, IconGiven
<1>14. (req[g].pc = "row" => models[req[g].key].name = X(g).e.model)'
  BY <1>2, <1>11, <1>12
<1>15. (req[g].pc = "icon" =>
         Held(g, Item(g).name) = X(g).e /\ StoredModels[Item(g).name] # None)'
  BY <1>2, <1>5, <1>6, <1>7, <1>11, <1>13 DEF Progress, Held
<1>16. (req[g].pc = "web" => SameModel(D(g), Item(g).name))'
  BY <1>2, <1>5, <1>6, <1>7, <1>11, <1>13 DEF Progress, SameModel
<1>. QED BY <1>8, <1>9, <1>10, <1>14, <1>15, <1>16 DEF Progress

(* A step of a request that changes only what it gives, and gets on, leaves*)
(* what processes hold and what is stored in agreement.                    *)
LEMMA LocalKeeps ==
  ASSUME Typed, Control, Agreement, NEW h \in Handlers, Busy(h), Local(h), GetsOn(h)
  PROVE  Control' /\ Agreement'
<1>1. Control'
  <2> SUFFICES ASSUME NEW g \in Handlers, Busy(g)'
               PROVE  (up[D(g)] = "up" /\ OfMessage(req[g]) /\ Complete(req[g]))'
    BY DEF Control
  <2>1. Busy(g) /\ D(g)' = D(g)
    BY LocalRequests
  <2>2. up[D(g)] = "up" /\ OfMessage(req[g]) /\ Complete(req[g])
    BY <2>1 DEF Control
  <2>3. CASE g # h
    BY <2>1, <2>2, <2>3 DEF Local
  <2>4. CASE g = h
    BY <2>1, <2>2, <2>4, LocalRequests DEF Local, GetsOn
  <2>. QED BY <2>3, <2>4
<1>2. Progressing'
  <2> SUFFICES ASSUME NEW g \in Handlers, Good(g)' PROVE Progress(g)'
    BY DEF Progressing
  <2>1. Busy(g)'
    BY DEF Good
  <2>2. CASE g = h
    <3>1. req'[h] # Free /\ Good(h) /\ SameDoubt
      BY <2>1, <2>2, LocalRequests
    <3>. QED BY <3>1, <2>2 DEF GetsOn
  <2>. QED BY <2>2, LocalProgress
<1>3. Filed'
  BY DEF Local
<1>. QED BY <1>1, <1>2, <1>3, LocalUnmet, LocalForeign, LocalLasting, LocalModelsSame,
            LocalPhyosSame DEF Agreement

LEMMA OfTail ==
  ASSUME NEW S, NEW s \in Seq(S), s # << >>
  PROVE  ToSet(s) = {Head(s)} \cup ToSet(Tail(s)) /\ Head(s) \in S /\ Tail(s) \in Seq(S)
<1>1. ToSet(Tail(s)) \subseteq ToSet(s) /\ Head(s) \in ToSet(s)
  BY DEF ToSet
<1>2. ASSUME NEW i \in DOMAIN s PROVE s[i] \in {Head(s)} \cup ToSet(Tail(s))
  <2>1. CASE i = 1
    BY <2>1
  <2>2. CASE i # 1
    <3>1. i - 1 \in DOMAIN Tail(s) /\ Tail(s)[i - 1] = s[i]
      BY <2>2
    <3>. QED BY <3>1 DEF ToSet
  <2>. QED BY <2>1, <2>2
<1>. QED BY <1>1, <1>2 DEF ToSet

LEMMA OfAppend ==
  ASSUME NEW S, NEW s \in Seq(S), NEW x \in S
  PROVE  ToSet(Append(s, x)) = ToSet(s) \cup {x}
<1>1. ToSet(Append(s, x)) \subseteq ToSet(s) \cup {x}
  BY DEF ToSet
<1>2. \A i \in DOMAIN s : i \in DOMAIN Append(s, x) /\ Append(s, x)[i] = s[i]
  OBVIOUS
<1>3. Len(s) + 1 \in DOMAIN Append(s, x) /\ Append(s, x)[Len(s) + 1] = x
  OBVIOUS
<1>. QED BY <1>1, <1>2, <1>3 DEF ToSet

LEMMA OfConcat ==
  ASSUME NEW S, NEW s \in Seq(S), NEW t \in Seq(S)
  PROVE  ToSet(s \o t) = ToSet(s) \cup ToSet(t)
<1>1. ToSet(s \o t) \subseteq ToSet(s) \cup ToSet(t)
  BY DEF ToSet
<1>2. \A i \in DOMAIN s : i \in DOMAIN (s \o t) /\ (s \o t)[i] = s[i]
  OBVIOUS
<1>3. \A i \in DOMAIN t : Len(s) + i \in DOMAIN (s \o t) /\ (s \o t)[Len(s) + i] = t[i]
  OBVIOUS
<1>4. ToSet(s) \subseteq ToSet(s \o t)
  BY <1>2 DEF ToSet
<1>5. ToSet(t) \subseteq ToSet(s \o t)
  BY <1>3 DEF ToSet
<1>. QED BY <1>1, <1>4, <1>5

(* A request with an icon has nothing else, and stays before its item.     *)
LEMMA NotOfIcon ==
  ASSUME Typed, Control, NEW h \in Handlers, Busy(h),
         req[h].rest = << >> \/ Item(h).kind # "icon"
  PROVE  Items(Sent(h), {"icon"}) = {}
<1> SUFFICES ASSUME NEW x \in Items(Sent(h), {"icon"}) PROVE FALSE
  OBVIOUS
<1>1. req[h].rest = Sent(h).items
  BY DEF Control, OfMessage, Sent
<1>2. Sent(h).items = <<x>> /\ x.kind = "icon"
  BY SentKnown, IconGiven
<1>. QED BY <1>1, <1>2 DEF Item

(* A step that changes no more than the request.                           *)
LEMMA IdleLocal ==
  ASSUME Typed, Agreement, NEW h \in Handlers, Busy(h), NEW r,
         req' = [req EXCEPT ![h] = r], r = Free \/ (r.pc # "free" /\ r.msg = req[h].msg),
         UNCHANGED <<models, phyos, userModels, elements, up>>, doubt' = doubt \/ SameDoubt
  PROVE  /\ Local(h) /\ req'[h] = r
         /\ StoredModels' = StoredModels /\ StoredPhyos' = StoredPhyos
<1>1. req'[h] = r /\ \A g \in Handlers \ {h} : req'[g] = req[g]
  BY DEF Typed, TypeOK
<1>2. StoredModels' = StoredModels
  BY DEF StoredModels, ReadModel, ModelKeys
<1>3. StoredPhyos' = StoredPhyos
  BY DEF StoredPhyos, ReadPhyo
<1>4. Filed'
  BY DEF Agreement, Filed
<1>5. NamesKept(h)
  BY DEF NamesKept
<1>6. SameDoubt
  BY DEF SameDoubt
<1>. QED BY <1>1, <1>2, <1>3, <1>4, <1>5, <1>6 DEF Local

LEMMA PlacingKeeps ==
  ASSUME Typed, Control, Agreement, NEW h \in Handlers, NEW r,
         req' = [req EXCEPT ![h] = r],
         UNCHANGED <<models, phyos, userModels, elements, up>>, doubt' = doubt \/ SameDoubt,
         req[h].pc \in Placings, r.pc \in Placings, r.msg = req[h].msg,
         OfMessage(r), Complete(r),
         \A x \in ToSet(r.models) :
           x \in ToSet(req[h].models) \/ userModels[D(h)][x.oid] # None,
         \A x \in ToSet(r.newModels) :
           x \in ToSet(req[h].newModels) \/ userModels[D(h)][x.oid] = None,
         \A y \in ToSet(r.nodes) : y \in ToSet(req[h].nodes) \/ elements[y.e.id] # None,
         \A y \in ToSet(r.newNodes) : y \in ToSet(req[h].newNodes) \/ elements[y.e.id] = None
  PROVE  Control' /\ Agreement'
<1>1. Busy(h) /\ r.pc # "free" /\ r # Free
  BY DEF Busy, Placings, Free
<1>2. Local(h) /\ req'[h] = r /\ StoredModels' = StoredModels /\ StoredPhyos' = StoredPhyos
  BY <1>1, IdleLocal
<1>3. Sent(h)' = Sent(h) /\ D(h)' = D(h)
  BY <1>2 DEF Sent, D
<1>4. ASSUME Good(h) PROVE Progress(h)'
  <2>1. Progress(h) /\ Sorting(h)
    BY <1>4 DEF Agreement, Progressing, Progress
  <2>2. doubt[D(h)] \subseteq doubt'[D(h)]
    BY <1>1, SentKnown DEF SameDoubt
  <2>3. Sorting(h)'
    BY <1>2, <1>3, <2>1, <2>2 DEF Sorting, SameModel, SamePhyo, Held
  <2>. QED BY <1>2, <1>3, <2>1, <2>3 DEF Progress, Placings, Storings
<1>5. GetsOn(h)
  BY <1>1, <1>2, <1>4 DEF GetsOn
<1>. QED BY <1>1, <1>2, <1>5, LocalKeeps

LEMMA PlaceModelAgrees ==
  ASSUME Typed, Control, Agreement, NEW h \in Handlers, PlaceModel(h)
  PROVE  Control' /\ Agreement'
<1> DEFINE x == Item(h)
           known == userModels[D(h)][x.oid] # None
           r == [req[h] EXCEPT !.rest = Tail(@),
                               !.models = IF known THEN Append(@, x) ELSE @,
                               !.newModels = IF known THEN @ ELSE Append(@, x),
                               !.kill = @ \cup ({x.oid} \ {x.e.name})]
<1>1. req[h].pc = "place" /\ req[h].rest # << >> /\ x.kind = "model" /\ Busy(h)
  BY DEF PlaceModel, Placing, Busy
<1>2. req[h] \in Request /\ x \in ModelItem
  BY <1>1, Served, KindsOfItems
<1>3. /\ r.pc = "place" /\ r.msg = req[h].msg /\ r.rest = Tail(req[h].rest)
      /\ r.models = IF known THEN Append(req[h].models, x) ELSE req[h].models
      /\ r.newModels = IF known THEN req[h].newModels ELSE Append(req[h].newModels, x)
      /\ r.nodes = req[h].nodes /\ r.newNodes = req[h].newNodes
      /\ r.kill = req[h].kill \cup ({x.oid} \ {x.e.name})
  BY <1>1, <1>2 DEF Request
<1>4. req' = [req EXCEPT ![h] = r]
  BY <1>2 DEF PlaceModel, Typed, TypeOK, Request
<1>5. UNCHANGED <<models, phyos, userModels, elements, up, doubt>>
  BY DEF PlaceModel, tables, memory
<1> HIDE DEF r, x
<1>6. /\ ToSet(req[h].rest) = {x} \cup ToSet(r.rest)
      /\ ToSet(r.models) = IF known THEN ToSet(req[h].models) \cup {x} ELSE ToSet(req[h].models)
      /\ ToSet(r.newModels) = IF known THEN ToSet(req[h].newModels)
                                       ELSE ToSet(req[h].newModels) \cup {x}
  <2>1. req[h].rest \in Seq(AnyItem) /\ req[h].models \in Seq(ModelItem)
        /\ req[h].newModels \in Seq(ModelItem)
    BY <1>2 DEF Request
  <2>2. ToSet(req[h].rest) = {x} \cup ToSet(r.rest)
    BY <1>1, <1>3, <2>1, OfTail DEF Item, x
  <2>3. /\ ToSet(Append(req[h].models, x)) = ToSet(req[h].models) \cup {x}
        /\ ToSet(Append(req[h].newModels, x)) = ToSet(req[h].newModels) \cup {x}
    BY <1>2, <2>1, OfAppend
  <2>. QED BY <1>3, <2>2, <2>3
<1>7. OfMessage(req[h]) /\ Complete(req[h])
  BY <1>1 DEF Control
<1>8. Items(Sent(h), {"icon"}) = {}
  BY <1>1, NotOfIcon DEF x
<1>9. x \in ModelItems(Sent(h))
  BY SMTT(30), <1>1, <1>6, <1>7 DEF OfMessage, ModelItems, Items, ToSet, Sent
<1>10. OfMessage(r)
  <2>1. {x.oid} \ {x.e.name} \subseteq Renamed(Sent(h))
    BY <1>9, SentKnown, <1>1, ModelsGiven
  <2>. QED BY <1>3, <1>6, <1>7, <1>8, <1>9, <2>1 DEF OfMessage, Sent
<1>11. Complete(r)
  <2>1. \A y \in PhyoItems(Sent(h)) : y # x
    BY <1>1, SentKnown, PhyosGiven
  <2>. QED BY <1>1, <1>3, <1>6, <1>7, <2>1 DEF Complete, Placings, Storings, Sent
<1>. QED BY <1>1, <1>3, <1>4, <1>5, <1>6, <1>10, <1>11, PlacingKeeps DEF Placings

LEMMA PlacePhyoAgrees ==
  ASSUME Typed, Control, Agreement, NEW h \in Handlers, PlacePhyo(h)
  PROVE  Control' /\ Agreement'
<1> DEFINE y == Item(h)
           known == elements[y.e.id] # None
           r == [req[h] EXCEPT !.rest = Tail(@),
                               !.nodes = IF known THEN Append(@, y) ELSE @,
                               !.newNodes = IF known THEN @ ELSE Append(@, y)]
<1>1. req[h].pc = "place" /\ req[h].rest # << >> /\ y.kind = "phyo" /\ Busy(h)
  BY DEF PlacePhyo, Placing, Busy
<1>2. req[h] \in Request /\ y \in PhyoItem
  BY <1>1, Served, KindsOfItems
<1>3. /\ r.pc = "place" /\ r.msg = req[h].msg /\ r.rest = Tail(req[h].rest)
      /\ r.nodes = IF known THEN Append(req[h].nodes, y) ELSE req[h].nodes
      /\ r.newNodes = IF known THEN req[h].newNodes ELSE Append(req[h].newNodes, y)
      /\ r.models = req[h].models /\ r.newModels = req[h].newModels
      /\ r.kill = req[h].kill
  BY <1>1, <1>2 DEF Request
<1>4. req' = [req EXCEPT ![h] = r]
  BY <1>2 DEF PlacePhyo, Typed, TypeOK, Request
<1>5. UNCHANGED <<models, phyos, userModels, elements, up, doubt>>
  BY DEF PlacePhyo, tables, memory
<1> HIDE DEF r, y
<1>6. /\ ToSet(req[h].rest) = {y} \cup ToSet(r.rest)
      /\ ToSet(r.nodes) = IF known THEN ToSet(req[h].nodes) \cup {y} ELSE ToSet(req[h].nodes)
      /\ ToSet(r.newNodes) = IF known THEN ToSet(req[h].newNodes)
                                      ELSE ToSet(req[h].newNodes) \cup {y}
  <2>1. req[h].rest \in Seq(AnyItem) /\ req[h].nodes \in Seq(PhyoItem)
        /\ req[h].newNodes \in Seq(PhyoItem)
    BY <1>2 DEF Request
  <2>2. ToSet(req[h].rest) = {y} \cup ToSet(r.rest)
    BY <1>1, <1>3, <2>1, OfTail DEF Item, y
  <2>3. /\ ToSet(Append(req[h].nodes, y)) = ToSet(req[h].nodes) \cup {y}
        /\ ToSet(Append(req[h].newNodes, y)) = ToSet(req[h].newNodes) \cup {y}
    BY <1>2, <2>1, OfAppend
  <2>. QED BY <1>3, <2>2, <2>3
<1>7. OfMessage(req[h]) /\ Complete(req[h])
  BY <1>1 DEF Control
<1>8. Items(Sent(h), {"icon"}) = {}
  BY <1>1, NotOfIcon DEF y
<1>9. y \in PhyoItems(Sent(h))
  BY <1>1, <1>6, <1>7 DEF OfMessage, PhyoItems, Items, ToSet, Sent
<1>10. OfMessage(r)
  BY <1>3, <1>6, <1>7, <1>8, <1>9 DEF OfMessage, Sent
<1>11. Complete(r)
  <2>1. \A x \in ModelItems(Sent(h)) : x # y
    BY <1>1, SentKnown, ModelsGiven
  <2>. QED BY <1>1, <1>3, <1>6, <1>7, <2>1 DEF Complete, Placings, Storings, Sent
<1>. QED BY <1>1, <1>3, <1>4, <1>5, <1>6, <1>10, <1>11, PlacingKeeps DEF Placings

(* Settings are neither models nor phyos.                                  *)
LEMMA SettingsPlaced ==
  ASSUME Typed, Control, Agreement, NEW h \in Handlers, NEW r,
         req[h].pc \in Placings, req[h].rest # << >>, Item(h).kind = "settings",
         req' = [req EXCEPT ![h] = r],
         r.pc \in Placings /\ r.rest \in {req[h].rest, Tail(req[h].rest)},
         /\ r.msg = req[h].msg /\ r.kill = req[h].kill
         /\ r.models = req[h].models /\ r.newModels = req[h].newModels
         /\ r.nodes = req[h].nodes /\ r.newNodes = req[h].newNodes,
         UNCHANGED <<models, phyos, userModels, elements, up>>, doubt' = doubt \/ SameDoubt
  PROVE  Control' /\ Agreement'
<1>1. Busy(h) /\ req[h] \in Request
  BY Served DEF Busy, Placings
<1>3. OfMessage(req[h]) /\ Complete(req[h])
  BY <1>1 DEF Control
<1>4. Items(Sent(h), {"icon"}) = {}
  BY <1>1, NotOfIcon
<1>5. ToSet(req[h].rest) = {Item(h)} \cup ToSet(Tail(req[h].rest))
  BY <1>1, OfTail DEF Request, Item
<1>6. \A x \in ModelItems(Sent(h)) \cup PhyoItems(Sent(h)) : x # Item(h)
  BY <1>1, SentKnown, ModelsGiven, PhyosGiven
<1>7. OfMessage(r)
  BY <1>3, <1>4, <1>5 DEF OfMessage, Sent
<1>8. Complete(r)
  BY <1>3, <1>5, <1>6 DEF Complete, Placings, Storings, Sent
<1>. QED BY <1>7, <1>8, PlacingKeeps

LEMMA KeepSettingsAgrees ==
  ASSUME Typed, Control, Agreement, NEW h \in Handlers, KeepSettings(h)
  PROVE  Control' /\ Agreement'
<1> DEFINE r == [req[h] EXCEPT !.pc = "place", !.rest = Tail(req[h].rest)]
<1>1. req[h].pc = "settings"
  BY DEF KeepSettings
<1>2. req[h].rest # << >> /\ Item(h).kind = "settings" /\ req[h] \in Request
  BY <1>1, Served DEF Staged, Item
<1>3. req' = [req EXCEPT ![h] = r]
  BY <1>2 DEF KeepSettings, Typed, TypeOK, Request
<1>4. UNCHANGED <<models, phyos, userModels, elements, up, doubt>>
  BY DEF KeepSettings, tables
<1>5. /\ r.pc \in Placings /\ r.rest \in {req[h].rest, Tail(req[h].rest)}
      /\ r.msg = req[h].msg /\ r.kill = req[h].kill
      /\ r.models = req[h].models /\ r.newModels = req[h].newModels
      /\ r.nodes = req[h].nodes /\ r.newNodes = req[h].newNodes
  BY <1>2 DEF Request, Placings
<1> HIDE DEF r
<1>6. req[h].pc \in Placings
  BY <1>1 DEF Placings
<1>. QED BY <1>1, <1>2, <1>3, <1>4, <1>5, <1>6, SettingsPlaced

LEMMA SettingsFailAgrees ==
  ASSUME Typed, Control, Agreement, NEW h \in Handlers, SettingsFail(h)
  PROVE  Control' /\ Agreement'
<1> DEFINE r == [req[h] EXCEPT !.pc = "place", !.rest = Tail(req[h].rest)]
<1>1. req[h].pc = "place" /\ req[h].rest # << >> /\ Item(h).kind = "settings"
  BY DEF SettingsFail, Placing
<1>2. req[h] \in Request
  BY <1>1, Served
<1>3. req' = [req EXCEPT ![h] = r]
  <2>1. req' = [req EXCEPT ![h].rest = Tail(@)]
    BY DEF SettingsFail
  <2>. QED BY <1>1, <1>2, <2>1 DEF Typed, TypeOK, Request
<1>4. UNCHANGED <<models, phyos, userModels, elements, up>> /\ SameDoubt
  <2>1. D(h) \in Designs
    BY <1>1, Served
  <2>2. UNCHANGED doubt \/ doubt' = [doubt EXCEPT ![D(h)] = @ \cup {D(h)}]
    BY DEF SettingsFail
  <2>3. SameDoubt
    BY <2>1, <2>2 DEF SameDoubt, Typed, TypeOK
  <2>. QED BY <2>3 DEF SettingsFail, memory
<1>5. /\ r.pc \in Placings /\ r.rest \in {req[h].rest, Tail(req[h].rest)}
      /\ r.msg = req[h].msg /\ r.kill = req[h].kill
      /\ r.models = req[h].models /\ r.newModels = req[h].newModels
      /\ r.nodes = req[h].nodes /\ r.newNodes = req[h].newNodes
  BY <1>2 DEF Request, Placings
<1> HIDE DEF r
<1>6. req[h].pc \in Placings
  BY <1>1 DEF Placings
<1>. QED BY <1>1, <1>2, <1>3, <1>4, <1>5, <1>6, SettingsPlaced

LEMMA StoreSettingsAgrees ==
  ASSUME Typed, Control, Agreement, NEW h \in Handlers, StoreSettings(h)
  PROVE  Control' /\ Agreement'
<1>1. req[h].pc = "place" /\ req[h].rest # << >> /\ Item(h).kind = "settings" /\ Busy(h)
  BY DEF StoreSettings, Placing, Busy
<1>2. req[h] \in Request
  BY <1>1, Served
<1>3. UNCHANGED <<models, phyos, userModels, elements, up, doubt>>
  BY DEF StoreSettings, memory
<1>4. CASE Item(h).e = None
  <2>1. req' = [req EXCEPT ![h] = Free]
    BY <1>4 DEF StoreSettings
  <2>2. Local(h) /\ req'[h] = Free /\ StoredModels' = StoredModels /\ StoredPhyos' = StoredPhyos
    BY <1>1, <1>3, <2>1, IdleLocal
  <2>3. Good(h) => Settled(h)
    BY <1>1, <1>3, <2>2 DEF Agreement, Progressing, Progress, Placings, Sorting, SameModel,
                            SamePhyo, Settled
  <2>. QED BY <1>1, <2>2, <2>3, LocalKeeps DEF GetsOn
<1>5. CASE Item(h).e # None
  <2> DEFINE r == [req[h] EXCEPT !.pc = "settings", !.rest = req[h].rest]
  <2>1. req' = [req EXCEPT ![h] = r]
    BY <1>2, <1>5 DEF StoreSettings, Typed, TypeOK, Request
  <2>2. /\ r.pc \in Placings /\ r.rest \in {req[h].rest, Tail(req[h].rest)}
        /\ r.msg = req[h].msg /\ r.kill = req[h].kill
        /\ r.models = req[h].models /\ r.newModels = req[h].newModels
        /\ r.nodes = req[h].nodes /\ r.newNodes = req[h].newNodes
    BY <1>2 DEF Request, Placings
  <2> HIDE DEF r
  <2>3. req[h].pc \in Placings
    BY <1>1 DEF Placings
  <2>. QED BY <1>1, <1>2, <1>3, <2>1, <2>2, <2>3, SettingsPlaced
<1>. QED BY <1>4, <1>5

LEMMA PhyosLastAppended ==
  ASSUME NEW q \in Seq(ModelItem \cup PhyoItem), PhyosLast(q), NEW s \in Seq(PhyoItem)
  PROVE  PhyosLast(q \o s)
<1> DEFINE t == q \o s
<1> SUFFICES ASSUME NEW j \in DOMAIN t, NEW k \in DOMAIN t, j < k, t[j].kind = "phyo"
             PROVE  t[k].kind = "phyo"
  BY DEF PhyosLast
<1>1. CASE k \in DOMAIN q
  <2>1. j \in DOMAIN q /\ t[j] = q[j] /\ t[k] = q[k]
    BY <1>1
  <2>. QED BY <2>1, <1>1 DEF PhyosLast
<1>2. CASE k \notin DOMAIN q
  <2>1. k - Len(q) \in DOMAIN s /\ t[k] = s[k - Len(q)]
    BY <1>2
  <2>2. t[k] \in PhyoItem
    BY <2>1
  <2>. QED BY <2>2 DEF PhyoItem
<1>. QED BY <1>1, <1>2

LEMMA PhyosLastOfModels ==
  ASSUME NEW q \in Seq(ModelItem)
  PROVE  PhyosLast(q)
<1>1. \A j \in DOMAIN q : q[j] \in ModelItem
  OBVIOUS
<1>2. \A x \in ModelItem : x.kind # "phyo"
  BY DEF ModelItem
<1>. QED BY <1>1, <1>2 DEF PhyosLast

(* Models come first, and of what a request stores nothing else.           *)
LEMMA Ordered ==
  ASSUME NEW r \in Request
  PROVE  /\ PhyosLast(Order(r)) /\ Order(r) \in Seq(ModelItem \cup PhyoItem)
         /\ ToSet(Order(r)) = ToSet(r.models) \cup ToSet(r.newModels)
                              \cup ToSet(r.nodes) \cup ToSet(r.newNodes)
<1> DEFINE S == ModelItem \cup PhyoItem
           a == r.models \o r.newModels
           b == a \o r.nodes
           c == b \o r.newNodes
<1>1. /\ r.models \in Seq(ModelItem) /\ r.newModels \in Seq(ModelItem)
      /\ r.nodes \in Seq(PhyoItem) /\ r.newNodes \in Seq(PhyoItem)
  BY DEF Request
<1>2. r.models \in Seq(S) /\ r.newModels \in Seq(S) /\ r.nodes \in Seq(S) /\ r.newNodes \in Seq(S)
  BY <1>1
<1>3. a \in Seq(ModelItem) /\ a \in Seq(S) /\ b \in Seq(S) /\ c \in Seq(S)
  BY <1>1, <1>2
<1>4. c = Order(r)
  BY DEF Order
<1> HIDE DEF S
<1>5. ToSet(a) = ToSet(r.models) \cup ToSet(r.newModels)
  BY <1>2, OfConcat
<1> HIDE DEF a
<1>6. ToSet(b) = ToSet(a) \cup ToSet(r.nodes)
  BY <1>2, <1>3, OfConcat
<1>7. PhyosLast(a) /\ PhyosLast(b)
  BY <1>1, <1>3, PhyosLastOfModels, PhyosLastAppended DEF S
<1> HIDE DEF b
<1>8. ToSet(c) = ToSet(b) \cup ToSet(r.newNodes)
  BY <1>2, <1>3, OfConcat
<1>9. PhyosLast(c)
  BY <1>1, <1>3, <1>7, PhyosLastAppended DEF S
<1> HIDE DEF c
<1>. QED BY <1>3, <1>4, <1>5, <1>6, <1>8, <1>9 DEF S

LEMMA PlacedAgrees ==
  ASSUME Typed, Control, Agreement, NEW h \in Handlers, Placed(h)
  PROVE  Control' /\ Agreement'
<1> DEFINE q == Order(req[h])
           r == [req[h] EXCEPT !.pc = First(q), !.queue = q]
           m == Sent(h)
           d == D(h)
<1>1. req[h].pc = "place" /\ req[h].rest = << >> /\ Busy(h)
  BY DEF Placed, Busy
<1>2. req[h] \in Request /\ m \in Messages /\ d \in Designs
  BY <1>1, SentKnown
<1>3. /\ q \in Seq(ModelItem \cup PhyoItem) /\ PhyosLast(q)
      /\ ToSet(q) = ToSet(req[h].models) \cup ToSet(req[h].newModels)
                    \cup ToSet(req[h].nodes) \cup ToSet(req[h].newNodes)
  BY <1>2, Ordered
<1> HIDE DEF q
<1>4. First(q) \in {"kill", "model", "id"} /\ (First(q) = "kill" => q = << >>)
  BY DEF First
<1>5. /\ r.pc = First(q) /\ r.msg = req[h].msg /\ r.rest = req[h].rest /\ r.queue = q
      /\ r.models = req[h].models /\ r.newModels = req[h].newModels
      /\ r.nodes = req[h].nodes /\ r.newNodes = req[h].newNodes /\ r.kill = req[h].kill
  BY <1>2 DEF Request
<1>6. req' = [req EXCEPT ![h] = r]
  BY <1>2 DEF Placed, Typed, TypeOK, q
<1> HIDE DEF r
<1>7. UNCHANGED <<models, phyos, userModels, elements, up, doubt>>
  BY DEF Placed, tables, memory
<1>8. r.pc # "free" /\ r # Free /\ r.pc \in Storings /\ r.pc \notin Placings
  BY <1>4, <1>5 DEF Free, Storings, Placings
<1>9. Local(h) /\ req'[h] = r /\ StoredModels' = StoredModels /\ StoredPhyos' = StoredPhyos
  BY <1>1, <1>5, <1>6, <1>7, <1>8, IdleLocal
<1>10. OfMessage(req[h]) /\ Complete(req[h])
  BY <1>1 DEF Control
<1>11. Items(m, {"icon"}) = {}
  BY <1>1, NotOfIcon
<1>12. ToSet(req[h].rest) = {}
  BY <1>1 DEF ToSet
<1>13. /\ \A x \in ModelItems(m) : x \in ToSet(req[h].models) \cup ToSet(req[h].newModels)
       /\ \A y \in PhyoItems(m) : y \in ToSet(req[h].nodes) \cup ToSet(req[h].newNodes)
       /\ \A x \in ModelItems(m) : x.oid # x.e.name => x.oid \in req[h].kill
  BY <1>1, <1>10, <1>12 DEF Complete, Placings, Sent
<1>14. OfMessage(r)
  BY <1>5, <1>10, <1>11 DEF OfMessage, Sent
<1>15. Complete(r)
  <2>1. req[h].kill = Renamed(m)
    <3>1. req[h].kill \subseteq Renamed(m)
      BY <1>10 DEF OfMessage, Sent
    <3>2. \A n \in Renamed(m) : \E x \in ModelItems(m) : x.oid = n /\ x.e.name # n
      BY <1>2, ModelsGiven
    <3>. QED BY <3>1, <3>2, <1>13
  <2>2. ToSet(q) \subseteq ModelItems(m) \cup PhyoItems(m)
    BY <1>3, <1>10 DEF OfMessage, Sent
  <2>. QED BY <1>1, <1>3, <1>4, <1>5, <1>8, <2>1, <2>2 DEF Complete, Sent
<1>16. Sent(h)' = m /\ D(h)' = d /\ Waiting(h)' = ToSet(q)
  BY <1>4, <1>5, <1>9 DEF Sent, D, Waiting
<1>17. ASSUME Good(h) PROVE Progress(h)'
  <2>1. Progress(h) /\ Sorting(h)
    BY <1>1, <1>17 DEF Agreement, Progressing, Progress, Placings
  <2>2. ASSUME NEW x \in ModelItems(m) PROVE x \in ToSet(q) /\ ModelTodo(h, x)'
    <3>1. x \in ToSet(q) /\ x.oid \in Gives(m) \cap Names /\ x.e.name \in Gives(m) \cap Names
      BY <1>2, <1>3, <1>13, ModelsGiven
    <3>2. SameModel(d, x.oid) /\ SameModel(d, x.e.name)
      BY <2>1, <3>1 DEF Sorting
    <3>3. x.oid # x.e.name => userModels[d][x.e.name] = None
      BY <2>1 DEF Sorting, Held
    <3>4. x \in ToSet(req[h].newModels) <=> userModels[d][x.oid] = None
      BY <2>1, <1>13 DEF Sorting, Held
    <3>. QED BY <3>1, <3>2, <3>3, <3>4, <1>5, <1>7, <1>9, <1>16 DEF ModelTodo, SameModel, Held
  <2>3. ModelsCome(h)'
    BY <2>2, <1>16 DEF ModelsCome
  <2>4. ASSUME NEW y \in PhyoItems(m), y.e.id \notin doubt[d]
        PROVE  y \in ToSet(q) /\ PhyoTodo(h, y)'
    <3>1. y \in ToSet(q) /\ y.e.id \in Phyos /\ y.e.id \in Gives(m)
      BY <1>2, <1>3, <1>13, PhyosGiven
    <3>2. elements[y.e.id] = StoredPhyos[y.e.id] /\ phyos[y.e.id] # Half
      BY <2>1, <2>4, <3>1 DEF Sorting, SamePhyo
    <3>3. elements[y.e.id] = None <=> phyos[y.e.id] = None
      <4>1. CASE phyos[y.e.id] = None
        BY <3>1, <3>2, <4>1, PhyosRead
      <4>2. CASE phyos[y.e.id] # None
        <5>1. StoredPhyos[y.e.id] = [id |-> y.e.id, model |-> models[phyos[y.e.id]].name]
          BY <3>1, <3>2, <4>2, PhyosRead
        <5>2. elements[y.e.id] \in Phyo \cup {None}
          BY <3>1 DEF Typed, TypeOK
        <5>3. models[phyos[y.e.id]] \in Model
          BY <3>1, <3>2, <4>2 DEF Typed, TypeOK, Stage
        <5>4. StoredPhyos[y.e.id] \in Phyo
          BY <3>1, <5>1, <5>3 DEF Phyo, Model
        <5>. QED BY <4>2, <5>4, <3>2, StartAssumption
      <4>. QED BY <4>1, <4>2
    <3>4. y \in ToSet(req[h].newNodes) <=> elements[y.e.id] = None
      BY <2>1, <1>13 DEF Sorting
    <3>. QED BY <3>1, <3>2, <3>3, <3>4, <1>5, <1>7, <1>9 DEF PhyoTodo
  <2>5. PhyosCome(h)'
    BY <2>4, <1>7, <1>16 DEF PhyosCome
  <2>6. \A n \in Refers(m) \ Given(m) : StoredModels[n] # None
    BY <2>1 DEF Progress
  <2>. QED BY <2>3, <2>5, <2>6, <1>4, <1>5, <1>8, <1>9, <1>16 DEF Progress
<1>18. GetsOn(h)
  BY <1>8, <1>9, <1>14, <1>15, <1>17 DEF GetsOn
<1>. QED BY <1>1, <1>9, <1>18, LocalKeeps

(* A model that is created or updated: what is read of names then.         *)
FiledTable ==
  \A j, k \in Keys : models[j] # None /\ models[k] # None /\ models[j].name = models[k].name => j = k

LEMMA KeysFound ==
  ASSUME Typed, Filed, NEW n \in Names
  PROVE  /\ ModelKeys(n) = {} <=> StoredModels[n] = None
         /\ \A k \in ModelKeys(n) : StoredModels[n] = models[k]
<1>1. ReadsAsFiled
  BY Reads
<1>2. StoredModels[n] # None => \E k \in Keys : models[k] # None /\ models[k].name = n
  BY <1>1 DEF ReadsAsFiled
<1>3. \A k \in ModelKeys(n) : StoredModels[n] = models[k] /\ models[k] # None
  BY <1>1 DEF ReadsAsFiled, ModelKeys
<1>. QED BY <1>2, <1>3 DEF ModelKeys

LEMMA ReadsSame ==
  ASSUME ReadsAsFiled, ReadsAsFiled', NEW n \in Names,
         \A k \in Keys : models[k] # models'[k] =>
           /\ models[k] # None => models[k].name # n
           /\ models'[k] # None => models'[k].name # n
  PROVE  StoredModels'[n] = StoredModels[n]
<1>1. CASE StoredModels[n] = None
  <2>1. ASSUME StoredModels'[n] # None PROVE FALSE
    <3>1. PICK k \in Keys : models'[k] = StoredModels'[n] /\ models'[k].name = n
      BY <2>1 DEF ReadsAsFiled
    <3>2. models[k] = models'[k]
      BY <3>1, <2>1
    <3>. QED BY <3>1, <3>2, <2>1, <1>1 DEF ReadsAsFiled
  <2>. QED BY <2>1, <1>1
<1>2. CASE StoredModels[n] # None
  <2>1. PICK k \in Keys : models[k] = StoredModels[n] /\ models[k].name = n
    BY <1>2 DEF ReadsAsFiled
  <2>2. models'[k] = models[k]
    BY <2>1, <1>2
  <2>. QED BY <2>1, <2>2, <1>2 DEF ReadsAsFiled
<1>. QED BY <1>1, <1>2

LEMMA Created ==
  ASSUME Typed, Typed', Filed, NEW e \in Model, models' \in Create(e), UNCHANGED userModels
  PROVE  /\ Filed' /\ \A k \in Keys : models[k] # None => models'[k] = models[k]
         /\ \A n \in Names \ {e.name} : StoredModels'[n] = StoredModels[n]
         /\ StoredModels[e.name] = None => StoredModels'[e.name] = e
         /\ StoredModels[e.name] # None => StoredModels'[e.name] = StoredModels[e.name]
<1>0. e.name \in Names /\ e # None
  BY StartAssumption DEF Model
<1>1. CASE ModelKeys(e.name) # {}
  <2>1. models' = models
    BY <1>1 DEF Create
  <2>2. Filed'
    BY <2>1 DEF Filed
  <2>3. ReadsAsFiled /\ ReadsAsFiled'
    BY <2>2, Reads, ReadsNext
  <2>4. \A n \in Names : StoredModels'[n] = StoredModels[n]
    BY <2>1, <2>3, ReadsSame
  <2>. QED BY <1>0, <1>1, <2>1, <2>2, <2>4, KeysFound
<1>2. CASE ModelKeys(e.name) = {}
  <2>1. PICK k \in Keys : models[k] = None /\ models' = [models EXCEPT ![k] = e]
    BY <1>2 DEF Create
  <2>2. /\ models'[k] = e
        /\ \A j \in Keys \ {k} : models'[j] = models[j]
    BY <2>1 DEF Typed, TypeOK
  <2>3. \A j \in Keys : models[j] # None => models[j].name # e.name
    BY <1>2 DEF ModelKeys
  <2>4. Filed'
    <3>1. FiledTable'
      BY <2>1, <2>2, <2>3 DEF Filed, FiledTable
    <3>. QED BY <3>1 DEF Filed, FiledTable
  <2>5. ReadsAsFiled /\ ReadsAsFiled'
    BY <2>4, Reads, ReadsNext
  <2>6. ASSUME NEW n \in Names \ {e.name} PROVE StoredModels'[n] = StoredModels[n]
    BY <2>1, <2>2, <2>5, ReadsSame
  <2>7. StoredModels'[e.name] = e
    BY <1>0, <2>2, <2>5 DEF ReadsAsFiled
  <2>. QED BY <1>0, <1>2, <2>1, <2>2, <2>4, <2>6, <2>7, KeysFound
<1>. QED BY <1>1, <1>2

LEMMA Updated ==
  ASSUME Typed, Typed', Filed, NEW oid \in Names, NEW e \in Model, models' = Update(oid, e)
  PROVE  /\ FiledTable'
         /\ \A k \in Keys : models[k] # None =>
              models'[k] # None /\ (models'[k].name = models[k].name
                                    \/ (models[k].name = oid /\ oid # e.name))
         /\ (Filed' =>
              /\ \A n \in Names \ {oid, e.name} : StoredModels'[n] = StoredModels[n]
              /\ IF StoredModels[oid] = None \/ (oid # e.name /\ StoredModels[e.name] # None)
                   THEN /\ StoredModels'[oid] = StoredModels[oid]
                        /\ StoredModels'[e.name] = StoredModels[e.name]
                   ELSE /\ StoredModels'[e.name] = e
                        /\ oid # e.name => StoredModels'[oid] = None)
<1>0. e.name \in Names /\ e # None
  BY StartAssumption DEF Model
<1>1. CASE StoredModels[oid] = None \/ (oid # e.name /\ StoredModels[e.name] # None)
  <2>1. models' = models
    <3>1. CASE oid # e.name /\ ModelKeys(e.name) # {}
      BY <3>1 DEF Update
    <3>2. CASE ModelKeys(oid) = {}
      <4>1. [k \in Keys |-> IF k \in ModelKeys(oid) THEN e ELSE models[k]] = models
        BY <3>2 DEF Typed, TypeOK
      <4>. QED BY <4>1 DEF Update
    <3>. QED BY <1>0, <1>1, <3>1, <3>2, KeysFound
  <2>2. FiledTable'
    BY <2>1 DEF Filed, FiledTable
  <2>3. ASSUME Filed', NEW n \in Names PROVE StoredModels'[n] = StoredModels[n]
    BY <2>1, <2>3, Reads, ReadsNext, ReadsSame
  <2>. QED BY <1>0, <1>1, <2>1, <2>2, <2>3
<1>2. CASE StoredModels[oid] # None /\ (oid = e.name \/ StoredModels[e.name] = None)
  <2>1. PICK k \in Keys : /\ ModelKeys(oid) = {k} /\ models[k] # None
                          /\ models[k].name = oid
    <3>1. ModelKeys(oid) # {}
      BY <1>2, KeysFound
    <3>. QED BY <3>1 DEF Filed, ModelKeys
  <2>2. models' = [j \in Keys |-> IF j \in ModelKeys(oid) THEN e ELSE models[j]]
    BY <1>0, <1>2, KeysFound DEF Update
  <2>3. /\ models'[k] = e
        /\ \A j \in Keys \ {k} : models'[j] = models[j]
    BY <2>1, <2>2
  <2>4. \A j \in Keys \ {k} : models[j] # None => models[j].name # oid /\ models[j].name # e.name
    <3>1. \A j \in Keys \ {k} : models[j] # None => models[j].name # oid
      BY <2>1 DEF ModelKeys
    <3>2. CASE oid = e.name
      BY <3>1, <3>2
    <3>3. CASE ModelKeys(e.name) = {}
      BY <3>1, <3>3 DEF ModelKeys
    <3>. QED BY <1>0, <1>2, <3>2, <3>3, KeysFound
  <2>5. FiledTable'
    BY <2>1, <2>3, <2>4 DEF Filed, FiledTable
  <2>6. ASSUME Filed', NEW n \in Names \ {oid, e.name} PROVE StoredModels'[n] = StoredModels[n]
    BY <2>1, <2>3, <2>6, Reads, ReadsNext, ReadsSame
  <2>7. ASSUME Filed'
        PROVE  StoredModels'[e.name] = e /\ (oid # e.name => StoredModels'[oid] = None)
    <3>1. ReadsAsFiled'
      BY <2>7, ReadsNext
    <3>2. StoredModels'[e.name] = e
      BY <1>0, <2>3, <3>1 DEF ReadsAsFiled
    <3>3. ASSUME oid # e.name, StoredModels'[oid] # None PROVE FALSE
      <4>1. PICK j \in Keys : models'[j] = StoredModels'[oid] /\ models'[j].name = oid
        BY <3>1, <3>3 DEF ReadsAsFiled
      <4>. QED BY <4>1, <3>3, <2>3, <2>4
    <3>. QED BY <3>2, <3>3
  <2>8. \A j \in Keys : models[j] # None =>
          models'[j] # None /\ (models'[j].name = models[j].name
                                \/ (models[j].name = oid /\ oid # e.name))
    BY <1>0, <2>1, <2>3
  <2>. QED BY <1>2, <2>5, <2>6, <2>7, <2>8
<1>. QED BY <1>1, <1>2

(* A request at its statements, and the element it is at.                  *)
LEMMA AtStatement ==
  ASSUME Typed, Control, NEW h \in Handlers, req[h].pc \in Storings
  PROVE  /\ Busy(h) /\ Sent(h) \in Messages /\ D(h) \in Designs /\ D(h) = Sent(h).design
         /\ req[h] \in Request /\ Staged(req[h], models)
         /\ OfMessage(req[h]) /\ Complete(req[h]) /\ Items(Sent(h), {"icon"}) = {}
         /\ req[h].queue # << >> =>
              /\ ToSet(req[h].queue) = {X(h)} \cup ToSet(Tail(req[h].queue))
              /\ X(h) \in ModelItems(Sent(h)) \/ X(h) \in PhyoItems(Sent(h))
              /\ X(h).kind = "model" => X(h) \in ModelItems(Sent(h))
              /\ X(h).kind = "phyo" => X(h) \in PhyoItems(Sent(h))
<1>1. Busy(h)
  BY DEF Busy, Storings
<1>2. /\ Sent(h) \in Messages /\ D(h) \in Designs /\ D(h) = Sent(h).design
      /\ req[h] \in Request /\ Staged(req[h], models)
  BY <1>1, SentKnown, Served DEF Storings
<1>3. OfMessage(req[h]) /\ Complete(req[h]) /\ req[h].rest = << >>
  BY <1>1 DEF Control, Complete
<1>4. Items(Sent(h), {"icon"}) = {}
  BY <1>1, <1>3, NotOfIcon
<1>5. ASSUME req[h].queue # << >>
      PROVE  /\ ToSet(req[h].queue) = {X(h)} \cup ToSet(Tail(req[h].queue))
             /\ X(h) \in ModelItems(Sent(h)) \/ X(h) \in PhyoItems(Sent(h))
  <2>1. ToSet(req[h].queue) = {X(h)} \cup ToSet(Tail(req[h].queue))
    BY <1>2, <1>5, OfTail DEF Request, X
  <2>. QED BY <2>1, <1>3 DEF Complete, Sent
<1>6. /\ \A x \in ModelItems(Sent(h)) : x.kind = "model"
      /\ \A y \in PhyoItems(Sent(h)) : y.kind = "phyo"
  BY <1>2, ModelsGiven, PhyosGiven
<1>. QED BY <1>1, <1>2, <1>3, <1>4, <1>5, <1>6

(* Of a proper message, no two models have a name in common.               *)
LEMMA ModelsApart ==
  ASSUME NEW m \in Messages, Proper(m), NEW x \in ModelItems(m), NEW y \in ModelItems(m), x # y
  PROVE  x.oid # y.oid /\ x.e.name # y.e.name /\ x.oid # y.e.name /\ x.e.name # y.oid
<1>1. x.oid # y.oid /\ x.e.name # y.e.name
  BY DEF Proper
<1>2. \A z \in ModelItems(m) : z.e.name \in Given(m) /\ (z.oid # z.e.name => z.oid \in Renamed(m))
  BY ModelsGiven
<1>. QED BY <1>1, <1>2 DEF Proper

(* A statement for an element that is carried out, or not, for which the   *)
(* request goes on with another one, of the same elements.                 *)
Goes(h, r) ==
  /\ req' = [req EXCEPT ![h] = r]
  /\ r.pc \in Storings \ {"kill"}
  /\ r.msg = req[h].msg /\ r.rest = req[h].rest /\ r.queue = req[h].queue
  /\ r.models = req[h].models /\ r.newModels = req[h].newModels
  /\ r.nodes = req[h].nodes /\ r.newNodes = req[h].newNodes /\ r.kill = req[h].kill

LEMMA GoesOn ==
  ASSUME Typed, Control, NEW h \in Handlers, req[h].pc \in Storings, NEW r, Goes(h, r)
  PROVE  /\ req'[h] = r /\ r # Free /\ OfMessage(r) /\ Complete(r)
         /\ Sent(h)' = Sent(h) /\ D(h)' = D(h) /\ X(h)' = X(h)
         /\ \A g \in Handlers \ {h} : req'[g] = req[g]
         /\ r.pc # "free" /\ r.msg = req[h].msg /\ r.pc \notin Placings
         /\ r.pc \notin {"icon", "web", "kill"}
<1>1. req'[h] = r /\ \A g \in Handlers \ {h} : req'[g] = req[g]
  BY DEF Goes, Typed, TypeOK
<1>2. OfMessage(req[h]) /\ Complete(req[h])
  BY AtStatement
<1>3. r.pc \notin Placings /\ r.pc # "free" /\ r.pc \notin {"icon", "web", "kill"}
  BY DEF Goes, Storings, Placings
<1>4. OfMessage(r)
  BY <1>2 DEF Goes, OfMessage
<1>5. Complete(r)
  BY <1>2, <1>3 DEF Goes, Complete
<1>6. Sent(h)' = Sent(h) /\ D(h)' = D(h) /\ X(h)' = X(h)
  BY <1>1 DEF Goes, Sent, D, X
<1>. QED BY <1>1, <1>3, <1>4, <1>5, <1>6 DEF Goes, Free

LEMMA StoreModelAgrees ==
  ASSUME Typed, Typed', Control, Agreement, NEW h \in Handlers, StoreModel(h)
  PROVE  Control' /\ Agreement'
<1> DEFINE r == [req[h] EXCEPT !.pc = "keep"]
<1>0. PICK x, m, d : x = X(h) /\ m = Sent(h) /\ d = D(h)
  OBVIOUS
<1>1. req[h].pc = "model" /\ req[h].pc \in Storings
  BY <1>0 DEF StoreModel, Storings
<1>2. /\ Busy(h) /\ m \in Messages /\ d \in Designs /\ req[h] \in Request
      /\ req[h].queue # << >> /\ x \in ModelItems(m)
      /\ ToSet(req[h].queue) = {x} \cup ToSet(Tail(req[h].queue))
  BY <1>0, <1>1, AtStatement DEF Staged, X
<1>3. Goes(h, r) /\ r.pc = "keep"
  BY <1>0, <1>1, <1>2 DEF StoreModel, Goes, Request, Storings, Typed, TypeOK
<1> HIDE DEF r
<1>4. /\ req'[h] = r /\ r # Free /\ OfMessage(r) /\ Complete(r)
      /\ Sent(h)' = m /\ D(h)' = d /\ X(h)' = x
      /\ \A g \in Handlers \ {h} : req'[g] = req[g]
      /\ r.pc # "free" /\ r.msg = req[h].msg /\ r.pc \notin Placings
  BY <1>0, <1>1, <1>3, GoesOn
<1>5. UNCHANGED <<phyos, userModels, elements, up, doubt>>
  BY <1>0 DEF StoreModel, memory
<1>6. /\ x.oid \in Names /\ x.e \in Model /\ x.e.name \in Names /\ x.e.name \in Given(m)
      /\ x.oid \in Gives(m) /\ x.e.name \in Gives(m) /\ x.kind = "model"
      /\ x.oid # x.e.name => x.oid \in Renamed(m)
  BY <1>0, <1>2, ModelsGiven
<1>7. \/ IsNew(h) /\ models' \in Create(x.e)
      \/ ~IsNew(h) /\ userModels[d][x.oid] = None /\ models' = models
      \/ ~IsNew(h) /\ userModels[d][x.oid] # None /\ models' = Update(x.oid, x.e)
  BY <1>0 DEF StoreModel
<1>8. Filed
  BY DEF Agreement
<1>9. /\ Filed' /\ NamesKept(h)
      /\ \A n \in Names \ {x.oid, x.e.name} : StoredModels'[n] = StoredModels[n]
  <2>1. CASE models' \in Create(x.e)
    BY <1>5, <1>6, <1>8, <2>1, Created DEF NamesKept
  <2>2. CASE models' = models
    <3>1. Filed'
      BY <1>5, <1>8, <2>2 DEF Filed
    <3>2. StoredModels' = StoredModels
      BY <2>2 DEF StoredModels, ReadModel, ModelKeys
    <3>. QED BY <2>2, <3>1, <3>2 DEF NamesKept
  <2>3. CASE models' = Update(x.oid, x.e)
    <3>1. Filed'
      BY <1>5, <1>6, <1>8, <2>3, Updated DEF Filed, FiledTable
    <3>2. NamesKept(h)
      <4>1. \A k \in Keys : models[k] # None =>
              models'[k] # None /\ (models'[k].name = models[k].name
                                    \/ (models[k].name = x.oid /\ x.oid # x.e.name))
        BY <1>6, <1>8, <2>3, Updated
      <4>. QED BY <1>0, <4>1, <1>6 DEF NamesKept
    <3>. QED BY <1>6, <1>8, <2>3, <3>1, <3>2, Updated
  <2>. QED BY <1>7, <2>1, <2>2, <2>3
<1>10. Local(h)
  BY <1>0, <1>4, <1>5, <1>6, <1>9 DEF Local, SameDoubt
<1>11. ASSUME Good(h) PROVE Progress(h)'
  <2>1. Progress(h) /\ ModelsCome(h) /\ PhyosCome(h) /\ Proper(m)
    BY <1>0, <1>1, <1>11 DEF Agreement, Progressing, Progress, Unmet
  <2>2. Waiting(h) = ToSet(req[h].queue) /\ Waiting(h)' = ToSet(req[h].queue) \ {x}
    BY <1>0, <1>1, <1>3, <1>4 DEF Waiting, Goes
  <2>3. ModelDone(h, x) \/ ModelTodo(h, x)
    BY <1>0, <1>1, <1>2, <2>1 DEF ModelsCome
  <2>4. IsNew(h) <=> x \in ToSet(req[h].newModels)
    BY <1>0 DEF IsNew, ToSet
  <2>5. ModelStored(x)'
    <3>1. CASE ModelDone(h, x)
      <4>1. StoredModels[x.e.name] = x.e /\ (x.oid # x.e.name => StoredModels[x.oid] = None)
            /\ x.e # None
        BY <3>1, <1>6, StartAssumption DEF ModelDone, ModelStored
      <4>2. CASE models' \in Create(x.e)
        <5>1. StoredModels'[x.e.name] = x.e
          BY <4>1, <4>2, <1>5, <1>6, <1>8, Created
        <5>2. x.oid # x.e.name => StoredModels'[x.oid] = None
          BY <4>1, <4>2, <1>5, <1>6, <1>8, Created
        <5>. QED BY <5>1, <5>2 DEF ModelStored
      <4>3. CASE models' = models
        <5>1. StoredModels' = StoredModels
          BY <4>3 DEF StoredModels, ReadModel, ModelKeys
        <5>. QED BY <5>1, <4>1 DEF ModelStored
      <4>4. CASE models' = Update(x.oid, x.e)
        <5>1. StoredModels'[x.e.name] = x.e
          BY <4>1, <4>4, <1>6, <1>8, <1>9, Updated
        <5>2. x.oid # x.e.name => StoredModels'[x.oid] = None
          BY <4>1, <4>4, <1>6, <1>8, <1>9, Updated
        <5>. QED BY <5>1, <5>2 DEF ModelStored
      <4>. QED BY <1>7, <4>2, <4>3, <4>4
    <3>2. CASE ModelTodo(h, x)
      <4>1. /\ userModels[d][x.oid] = StoredModels[x.oid]
            /\ userModels[d][x.e.name] = StoredModels[x.e.name]
            /\ x.oid # x.e.name => StoredModels[x.e.name] = None
            /\ IsNew(h) <=> StoredModels[x.oid] = None
        BY <1>0, <3>2, <2>4 DEF ModelTodo, SameModel, Held
      <4>2. CASE IsNew(h)
        <5>1. models' \in Create(x.e)
          BY <1>7, <4>2
        <5>2. StoredModels'[x.e.name] = x.e
          BY <4>1, <4>2, <5>1, <1>5, <1>6, <1>8, Created
        <5>3. x.oid # x.e.name => StoredModels'[x.oid] = None
          BY <4>1, <4>2, <5>1, <1>5, <1>6, <1>8, Created
        <5>. QED BY <5>2, <5>3 DEF ModelStored
      <4>3. CASE ~IsNew(h)
        <5>1. models' = Update(x.oid, x.e)
          BY <1>7, <4>1, <4>3
        <5>2. StoredModels'[x.e.name] = x.e
          BY <4>1, <4>3, <5>1, <1>6, <1>8, <1>9, Updated
        <5>3. x.oid # x.e.name => StoredModels'[x.oid] = None
          BY <4>1, <4>3, <5>1, <1>6, <1>8, <1>9, Updated
        <5>. QED BY <5>2, <5>3 DEF ModelStored
      <4>. QED BY <4>2, <4>3
    <3>. QED BY <2>3, <3>1, <3>2
  <2>6. ModelsCome(h)'
    <3> SUFFICES ASSUME NEW z \in ModelItems(m)
                 PROVE  (\/ ModelDone(h, z)
                         \/ z \in Waiting(h) /\ ModelTodo(h, z)
                         \/ req[h].pc = "keep" /\ z = X(h) /\ ModelStored(z))'
      BY <1>0, <1>4 DEF ModelsCome
    <3>1. CASE z = x
      BY <1>0, <3>1, <2>5, <1>3, <1>4
    <3>2. CASE z # x
      <4>1. /\ z.oid \in Names \ {x.oid, x.e.name} /\ z.e.name \in Names \ {x.oid, x.e.name}
        BY <1>0, <3>2, <1>2, <2>1, ModelsApart, ModelsGiven
      <4>2. StoredModels'[z.oid] = StoredModels[z.oid]
            /\ StoredModels'[z.e.name] = StoredModels[z.e.name]
        BY <4>1, <1>9
      <4>3. ModelDone(h, z) => ModelDone(h, z)'
        BY <1>0, <4>2, <1>4, <1>5 DEF ModelDone, ModelStored, Held
      <4>4. ModelTodo(h, z) => ModelTodo(h, z)'
        BY <1>0, <4>2, <1>3, <1>4, <1>5 DEF ModelTodo, SameModel, Held, Goes
      <4>5. ModelDone(h, z) \/ (z \in Waiting(h) /\ ModelTodo(h, z))
        BY <1>0, <1>1, <2>1 DEF ModelsCome
      <4>. QED BY <3>2, <4>3, <4>4, <4>5, <2>2
    <3>. QED BY <3>1, <3>2
  <2>7. PhyosCome(h)'
    <3> SUFFICES ASSUME NEW y \in PhyoItems(m), y.e.id \notin doubt[d]
                 PROVE  (\/ PhyoDone(y)
                         \/ y \in Waiting(h) /\ PhyoTodo(h, y)
                         \/ req[h].pc \in {"key", "row"} /\ y = X(h)
                         \/ req[h].pc = "keep" /\ y = X(h) /\ PhyoStored(y))'
      BY <1>0, <1>4, <1>5 DEF PhyosCome
    <3>1. /\ y.e.id \in Phyos /\ y.e \in Phyo /\ y.e.model \in Refers(m) /\ y # x
      BY <1>0, <1>2, <1>6, PhyosGiven
    <3>2. PhyoDone(y) => PhyoDone(y)'
      <4>1. ASSUME StoredPhyos[y.e.id] = y.e PROVE StoredPhyos'[y.e.id] = y.e
        BY <1>0, <3>1, <4>1, <2>1, <1>5, <1>9, PhyoStays DEF Proper
      <4>. QED BY <4>1, <1>5 DEF PhyoDone, PhyoStored
    <3>3. PhyoTodo(h, y) => PhyoTodo(h, y)'
      BY <1>0, <1>3, <1>4, <1>5 DEF PhyoTodo, Goes
    <3>4. PhyoDone(y) \/ (y \in Waiting(h) /\ PhyoTodo(h, y))
      BY <1>0, <1>1, <2>1 DEF PhyosCome
    <3>. QED BY <2>2, <3>1, <3>2, <3>3, <3>4
  <2>8. ASSUME NEW n \in Refers(m) \ Given(m) PROVE StoredModels'[n] # None
    <3>1. StoredModels[n] # None /\ n \notin Renamed(m) /\ n \in Names
      BY <1>0, <2>1, <1>2, PhyosGiven DEF Progress, Proper
    <3>2. n \notin {x.oid, x.e.name}
      BY <3>1, <1>6
    <3>. QED BY <3>1, <3>2, <1>9
  <2>. QED BY <1>0, <2>6, <2>7, <2>8, <1>3, <1>4 DEF Progress
<1>12. GetsOn(h)
  BY <1>0, <1>4, <1>11 DEF GetsOn
<1>. QED BY <1>0, <1>2, <1>10, <1>12, LocalKeeps

(* A statement for a phyo.                                                 *)
LEMMA PhyoStatement ==
  ASSUME Typed, Control, Agreement, NEW h \in Handlers, NEW r, NEW y, y = X(h),
         req[h].pc \in {"id", "key", "row"}, Goes(h, r), r.pc \in {"key", "row", "keep"},
         UNCHANGED <<models, userModels, elements, up, doubt>>,
         \A f \in Phyos : f # y.e.id => phyos'[f] = phyos[f],
         Good(h) /\ y.e.id \notin doubt[D(h)] =>
           r.pc \in {"key", "row"} \/ StoredPhyos'[y.e.id] = y.e,
         Good(h) /\ r.pc = "row" => models[r.key].name = y.e.model
  PROVE  Control' /\ Agreement'
<1>0. PICK m, d : m = Sent(h) /\ d = D(h)
  OBVIOUS
<1>1. req[h].pc \in Storings
  BY DEF Storings
<1>2. /\ Busy(h) /\ m \in Messages /\ d \in Designs /\ req[h] \in Request
      /\ req[h].queue # << >> /\ y \in PhyoItems(m)
      /\ ToSet(req[h].queue) = {y} \cup ToSet(Tail(req[h].queue))
  BY <1>0, <1>1, AtStatement DEF Staged, X
<1>3. /\ req'[h] = r /\ r # Free /\ OfMessage(r) /\ Complete(r)
      /\ Sent(h)' = m /\ D(h)' = d /\ X(h)' = y
      /\ \A g \in Handlers \ {h} : req'[g] = req[g]
      /\ r.pc # "free" /\ r.msg = req[h].msg /\ r.pc \notin Placings
      /\ r.pc \notin {"icon", "web"}
  BY <1>0, <1>1, GoesOn
<1>4. y.e.id \in Phyos /\ y.e.id \in Gives(m) /\ y.kind = "phyo"
  BY <1>2, PhyosGiven
<1>5. StoredModels' = StoredModels
  BY DEF StoredModels, ReadModel, ModelKeys
<1>6. Filed' /\ NamesKept(h)
  BY DEF Agreement, Filed, NamesKept
<1>7. Local(h)
  BY <1>0, <1>3, <1>4, <1>5, <1>6 DEF Local, SameDoubt
<1>8. ASSUME Good(h) PROVE Progress(h)'
  <2>1. Progress(h) /\ ModelsCome(h) /\ PhyosCome(h) /\ Proper(m)
    BY <1>0, <1>1, <1>8 DEF Agreement, Progressing, Progress, Unmet
  <2>2. Waiting(h) \subseteq ToSet(req[h].queue) /\ Waiting(h)' = ToSet(req[h].queue) \ {y}
    BY <1>0, <1>3 DEF Waiting, Goes
  <2>3. ModelsCome(h)'
    <3> SUFFICES ASSUME NEW z \in ModelItems(m)
                 PROVE  (\/ ModelDone(h, z)
                         \/ z \in Waiting(h) /\ ModelTodo(h, z)
                         \/ req[h].pc = "keep" /\ z = X(h) /\ ModelStored(z))'
      BY <1>3 DEF ModelsCome
    <3>1. z # y
      BY <1>2, <1>4, ModelsGiven
    <3>2. ModelDone(h, z) => ModelDone(h, z)'
      BY <1>0, <1>3, <1>5 DEF ModelDone, ModelStored, Held
    <3>3. ModelTodo(h, z) => ModelTodo(h, z)'
      BY <1>0, <1>3, <1>5 DEF ModelTodo, SameModel, Held, Goes
    <3>. QED BY <1>0, <2>1, <2>2, <3>1, <3>2, <3>3 DEF ModelsCome
  <2>4. PhyosCome(h)'
    <3> SUFFICES ASSUME NEW z \in PhyoItems(m), z.e.id \notin doubt[d]
                 PROVE  (\/ PhyoDone(z)
                         \/ z \in Waiting(h) /\ PhyoTodo(h, z)
                         \/ req[h].pc \in {"key", "row"} /\ z = X(h)
                         \/ req[h].pc = "keep" /\ z = X(h) /\ PhyoStored(z))'
      BY <1>3 DEF PhyosCome
    <3>1. CASE z = y
      BY <1>0, <1>3, <1>8, <3>1 DEF PhyoStored
    <3>2. CASE z # y
      <4>1. z.e.id \in Phyos /\ z.e.id # y.e.id
        BY <1>2, <2>1, <3>2, PhyosGiven DEF Proper
      <4>2. phyos'[z.e.id] = phyos[z.e.id]
        BY <4>1
      <4>3. StoredPhyos'[z.e.id] = StoredPhyos[z.e.id]
        <5>1. CASE phyos[z.e.id] \in {None, Half}
          BY <4>1, <4>2, <5>1, PhyosRead
        <5>2. CASE phyos[z.e.id] \notin {None, Half}
          <6>1. StoredPhyos[z.e.id] = [id |-> z.e.id, model |-> models[phyos[z.e.id]].name]
            BY <4>1, <5>2, PhyosRead
          <6>2. StoredPhyos'[z.e.id] = [id |-> z.e.id, model |-> models'[phyos'[z.e.id]].name]
            BY <4>1, <4>2, <5>2, PhyosRead
          <6>. QED BY <4>2, <6>1, <6>2
        <5>. QED BY <5>1, <5>2
      <4>4. PhyoDone(z) => PhyoDone(z)'
        BY <4>3 DEF PhyoDone, PhyoStored
      <4>5. PhyoTodo(h, z) => PhyoTodo(h, z)'
        BY <1>3, <4>2 DEF PhyoTodo, Goes
      <4>. QED BY <1>0, <2>1, <2>2, <3>2, <4>4, <4>5 DEF PhyosCome
    <3>. QED BY <3>1, <3>2
  <2>5. \A n \in Refers(m) \ Given(m) : StoredModels'[n] # None
    BY <1>0, <1>5, <2>1 DEF Progress
  <2>. QED BY <1>3, <1>8, <2>3, <2>4, <2>5 DEF Progress
<1>9. GetsOn(h)
  BY <1>3, <1>8 DEF GetsOn
<1>. QED BY <1>2, <1>7, <1>9, LocalKeeps

LEMMA PhyoIdAgrees ==
  ASSUME Typed, Control, Agreement, NEW h \in Handlers, PhyoId(h)
  PROVE  Control' /\ Agreement'
<1>0. PICK y : y = X(h)
  OBVIOUS
<1> DEFINE new == \E k \in DOMAIN req[h].newNodes : req[h].newNodes[k] = y
           missing == IF new THEN phyos[y.e.id] # None
                      ELSE elements[y.e.id] = None \/ phyos[y.e.id] \in {None, Half}
           r == [req[h] EXCEPT !.pc = IF missing THEN "keep" ELSE "key"]
<1>1. req[h].pc = "id" /\ req[h].pc \in Storings
  BY DEF PhyoId, Storings
<1>2. req[h] \in Request /\ y \in PhyoItems(Sent(h)) /\ Sent(h) \in Messages /\ Busy(h)
  BY <1>0, <1>1, AtStatement DEF Staged, X
<1>3. y.e.id \in Phyos
  BY <1>2, PhyosGiven
<1>4. /\ r.pc = IF missing THEN "keep" ELSE "key"
      /\ r.msg = req[h].msg /\ r.rest = req[h].rest /\ r.queue = req[h].queue
      /\ r.models = req[h].models /\ r.newModels = req[h].newModels
      /\ r.nodes = req[h].nodes /\ r.newNodes = req[h].newNodes /\ r.kill = req[h].kill
  BY <1>2 DEF Request
<1>5. /\ req' = [req EXCEPT ![h] = r]
      /\ \A f \in Phyos : f # y.e.id => phyos'[f] = phyos[f]
  BY <1>0, <1>1, <1>2 DEF PhyoId, Typed, TypeOK
<1>6. missing => phyos' = phyos
  BY <1>0 DEF PhyoId
<1>7. UNCHANGED <<models, userModels, elements, up, doubt>>
  BY DEF PhyoId, memory
<1> HIDE DEF r
<1>8. Goes(h, r)
  BY <1>4, <1>5 DEF Goes, Storings
<1>9. ASSUME Good(h), y.e.id \notin doubt[D(h)], missing
      PROVE  StoredPhyos'[y.e.id] = y.e
  <2>1. PhyosCome(h)
    BY <1>1, <1>9 DEF Agreement, Progressing, Progress
  <2>2. PhyoDone(y) \/ PhyoTodo(h, y)
    BY <1>1, <1>2, <1>9, <2>1 DEF PhyosCome
  <2>3. new <=> y \in ToSet(req[h].newNodes)
    BY DEF ToSet
  <2>4. ~PhyoTodo(h, y)
    BY <1>9, <2>3 DEF PhyoTodo
  <2>5. StoredPhyos[y.e.id] = y.e
    BY <2>2, <2>4 DEF PhyoDone, PhyoStored
  <2>6. StoredPhyos' = StoredPhyos
    BY <1>6, <1>7, <1>9, TablesStay
  <2>. QED BY <2>5, <2>6
<1> HIDE DEF missing
<1>. QED BY <1>0, <1>1, <1>4, <1>5, <1>7, <1>8, <1>9, PhyoStatement

(* A phyo is stored after the models, so the one that it names is there.   *)
LEMMA PhyoModelAgrees ==
  ASSUME Typed, Control, Agreement, NEW h \in Handlers, PhyoModel(h)
  PROVE  Control' /\ Agreement'
<1>0. PICK y : y = X(h)
  OBVIOUS
<1> DEFINE keys == ModelKeys(y.e.model)
           r == [req[h] EXCEPT !.pc = IF keys = {} THEN "keep" ELSE "row",
                               !.key = IF keys = {} THEN None ELSE CHOOSE k \in keys : TRUE]
<1>1. req[h].pc = "key" /\ req[h].pc \in Storings
  BY DEF PhyoModel, Storings
<1>2. /\ req[h] \in Request /\ y \in PhyoItems(Sent(h)) /\ Sent(h) \in Messages /\ Busy(h)
      /\ req[h].queue # << >>
  BY <1>0, <1>1, AtStatement DEF Staged, X
<1>3. y.e.id \in Phyos /\ y.e.model \in Refers(Sent(h)) /\ y.kind = "phyo" /\ y.e.model \in Names
  BY <1>2, PhyosGiven
<1>4. /\ r.pc = IF keys = {} THEN "keep" ELSE "row"
      /\ r.key = IF keys = {} THEN None ELSE CHOOSE k \in keys : TRUE
      /\ r.msg = req[h].msg /\ r.rest = req[h].rest /\ r.queue = req[h].queue
      /\ r.models = req[h].models /\ r.newModels = req[h].newModels
      /\ r.nodes = req[h].nodes /\ r.newNodes = req[h].newNodes /\ r.kill = req[h].kill
  BY <1>2 DEF Request
<1>5. req' = [req EXCEPT ![h] = r]
  BY <1>0, <1>2 DEF PhyoModel, Typed, TypeOK, Request
<1>6. UNCHANGED <<models, phyos, userModels, elements, up, doubt>>
  BY DEF PhyoModel, tables, memory
<1> HIDE DEF r
<1>7. Goes(h, r)
  BY <1>4, <1>5 DEF Goes, Storings
<1>8. ASSUME Good(h) PROVE keys # {}
  <2>1. Progress(h) /\ ModelsCome(h)
    BY <1>1, <1>8 DEF Agreement, Progressing, Progress
  <2>2. ASSUME NEW z \in ToSet(req[h].queue) PROVE z.kind = "phyo"
    <3>1. PhyosLast(req[h].queue) /\ req[h].queue \in Seq(ModelItem \cup PhyoItem)
      BY <1>1, <1>2, AtStatement DEF Complete, Request
    <3>2. PICK k \in DOMAIN req[h].queue : z = req[h].queue[k]
      BY DEF ToSet
    <3>3. CASE k = 1
      BY <1>0, <1>3, <3>2, <3>3 DEF X
    <3>4. CASE k # 1
      <4>1. 1 \in DOMAIN req[h].queue /\ 1 < k /\ req[h].queue[1].kind = "phyo"
        BY <1>0, <1>2, <1>3, <3>1, <3>4 DEF X
      <4>. QED BY <3>1, <3>2, <4>1 DEF PhyosLast
    <3>. QED BY <3>3, <3>4
  <2>3. ASSUME NEW x \in ModelItems(Sent(h)) PROVE StoredModels[x.e.name] # None
    <3>1. x \notin Waiting(h)
      BY <1>2, <2>2, ModelsGiven DEF Waiting
    <3>2. ModelDone(h, x)
      BY <1>1, <2>1, <3>1 DEF ModelsCome
    <3>3. x.e \in Model
      BY <1>2, ModelsGiven
    <3>. QED BY <3>2, <3>3, StartAssumption DEF ModelDone, ModelStored
  <2>4. StoredModels[y.e.model] # None
    <3>1. CASE y.e.model \in Given(Sent(h))
      BY <1>2, <2>3, <3>1, ModelsGiven
    <3>2. CASE y.e.model \notin Given(Sent(h))
      BY <1>3, <2>1, <3>2 DEF Progress
    <3>. QED BY <3>1, <3>2
  <2>. QED BY <1>3, <2>4, KeysFound DEF Agreement
<1>9. ASSUME keys # {} PROVE r.pc = "row" /\ models[r.key].name = y.e.model
  <2>1. r.key \in keys
    BY <1>4, <1>9
  <2>. QED BY <1>4, <1>9, <2>1 DEF ModelKeys
<1>10. r.pc \in {"row", "keep"}
  BY <1>4
<1> HIDE DEF keys
<1>. QED BY <1>0, <1>1, <1>6, <1>7, <1>8, <1>9, <1>10, PhyoStatement

LEMMA PhyoRowAgrees ==
  ASSUME Typed, Control, Agreement, NEW h \in Handlers, PhyoRow(h)
  PROVE  Control' /\ Agreement'
<1>0. PICK y : y = X(h)
  OBVIOUS
<1> DEFINE r == [req[h] EXCEPT !.pc = "keep", !.key = None]
<1>1. req[h].pc = "row" /\ req[h].pc \in Storings
  BY DEF PhyoRow, Storings
<1>2. /\ req[h] \in Request /\ y \in PhyoItems(Sent(h)) /\ Sent(h) \in Messages /\ Busy(h)
      /\ req[h].key \in Keys
  BY <1>0, <1>1, AtStatement DEF Staged, X
<1>3. y.e.id \in Phyos /\ y.e \in Phyo
  BY <1>2, PhyosGiven
<1>4. /\ r.pc = "keep"
      /\ r.msg = req[h].msg /\ r.rest = req[h].rest /\ r.queue = req[h].queue
      /\ r.models = req[h].models /\ r.newModels = req[h].newModels
      /\ r.nodes = req[h].nodes /\ r.newNodes = req[h].newNodes /\ r.kill = req[h].kill
  BY <1>2 DEF Request
<1>5. req' = [req EXCEPT ![h] = r] /\ phyos' = [phyos EXCEPT ![y.e.id] = req[h].key]
  BY <1>0, <1>2 DEF PhyoRow, Typed, TypeOK, Request
<1>6. UNCHANGED <<models, userModels, elements, up, doubt>>
  BY DEF PhyoRow, memory
<1> HIDE DEF r
<1>7. Goes(h, r)
  BY <1>4, <1>5 DEF Goes, Storings
<1>8. /\ phyos'[y.e.id] = req[h].key
      /\ \A f \in Phyos : f # y.e.id => phyos'[f] = phyos[f]
  BY <1>3, <1>5 DEF Typed, TypeOK
<1>9. ASSUME Good(h) PROVE StoredPhyos'[y.e.id] = y.e
  <2>1. models[req[h].key].name = y.e.model
    BY <1>0, <1>1, <1>9 DEF Agreement, Progressing, Progress
  <2>2. phyos'[y.e.id] \notin {None, Half}
    BY <1>2, <1>8, StartAssumption, BoundsAssumption DEF Keys, Half
  <2>3. StoredPhyos'[y.e.id] = [id |-> y.e.id, model |-> y.e.model]
    <3>1. StoredPhyos'[y.e.id] = [id |-> y.e.id, model |-> models'[phyos'[y.e.id]].name]
      BY <1>3, <2>2, PhyosRead
    <3>. QED BY <1>6, <1>8, <2>1, <3>1
  <2>4. y.e = [id |-> y.e.id, model |-> y.e.model]
    BY <1>3 DEF Phyo
  <2>. QED BY <2>3, <2>4
<1>. QED BY <1>0, <1>1, <1>4, <1>6, <1>7, <1>8, <1>9, PhyoStatement

(* Of what a request gives that a statement fails for, nothing is promised.*)
LEMMA FailAgrees ==
  ASSUME Typed, Control, Agreement, NEW h \in Handlers, Fail(h)
  PROVE  Control' /\ Agreement'
<1> DEFINE r == [req[h] EXCEPT !.pc = "keep", !.key = None]
<1>1. req[h].pc \in Storings
  BY DEF Fail, Storings
<1>2. req[h] \in Request /\ Sent(h) \in Messages /\ Busy(h) /\ D(h) \in Designs
  BY <1>1, AtStatement
<1>4. /\ r.pc = "keep"
      /\ r.msg = req[h].msg /\ r.rest = req[h].rest /\ r.queue = req[h].queue
      /\ r.models = req[h].models /\ r.newModels = req[h].newModels
      /\ r.nodes = req[h].nodes /\ r.newNodes = req[h].newNodes /\ r.kill = req[h].kill
  BY <1>2 DEF Request
<1>5. req' = [req EXCEPT ![h] = r]
  BY <1>2 DEF Fail, Typed, TypeOK, Request
<1>6. UNCHANGED <<models, phyos, userModels, elements, up>>
  BY DEF Fail, tables, memory
<1> HIDE DEF r
<1>7. Goes(h, r)
  BY <1>4, <1>5 DEF Goes, Storings
<1>8. /\ req'[h] = r /\ r # Free /\ OfMessage(r) /\ Complete(r)
      /\ \A g \in Handlers \ {h} : req'[g] = req[g]
      /\ r.pc # "free" /\ r.msg = req[h].msg
  BY <1>1, <1>7, GoesOn
<1>9. StoredModels' = StoredModels
  BY <1>6 DEF StoredModels, ReadModel, ModelKeys
<1>10. Filed' /\ NamesKept(h)
  BY <1>6 DEF Agreement, Filed, NamesKept
<1>11. \A d \in Designs : doubt'[d] = doubt[d] \cup (Gives(Sent(h)) \ Designs)
  BY DEF Fail, Sent
<1>12. Local(h)
  BY <1>6, <1>8, <1>9, <1>10, <1>11 DEF Local, SameDoubt
<1>13. ~(Good(h) /\ SameDoubt)
  BY <1>2, <1>11 DEF Good, SameDoubt
<1>14. GetsOn(h)
  BY <1>8, <1>13 DEF GetsOn
<1>. QED BY <1>2, <1>12, <1>14, LocalKeeps

LEMMA PhyosLastOfTail ==
  ASSUME NEW q \in Seq(ModelItem \cup PhyoItem), q # << >>, PhyosLast(q)
  PROVE  PhyosLast(Tail(q))
<1> SUFFICES ASSUME NEW j \in DOMAIN Tail(q), NEW k \in DOMAIN Tail(q), j < k,
                    Tail(q)[j].kind = "phyo"
             PROVE  Tail(q)[k].kind = "phyo"
  BY DEF PhyosLast
<1>1. /\ j + 1 \in DOMAIN q /\ k + 1 \in DOMAIN q /\ j + 1 < k + 1
      /\ Tail(q)[j] = q[j + 1] /\ Tail(q)[k] = q[k + 1]
  OBVIOUS
<1>. QED BY <1>1 DEF PhyosLast

(* An element that is kept leaves the queue.                               *)
LEMMA KeepMoves ==
  ASSUME Typed, Control, NEW h \in Handlers, Keep(h)
  PROVE  /\ req[h].pc = "keep" /\ req[h].pc \in Storings /\ req[h].queue # << >>
         /\ \A g \in Handlers \ {h} : req'[g] = req[g]
         /\ req'[h] # Free /\ OfMessage(req'[h]) /\ Complete(req'[h])
         /\ req'[h].pc \in {"kill", "model", "id"} /\ req'[h].msg = req[h].msg
         /\ req'[h].newModels = req[h].newModels /\ req'[h].newNodes = req[h].newNodes
         /\ Sent(h)' = Sent(h) /\ D(h)' = D(h)
         /\ \A x \in Waiting(h) : x \in Waiting(h)'
         /\ X(h) \notin Waiting(h)
<1> DEFINE q == Tail(req[h].queue)
           r == [req[h] EXCEPT !.queue = q, !.pc = First(q)]
<1>1. req[h].pc = "keep" /\ req[h].pc \in Storings
  BY DEF Keep, Storings
<1>2. /\ req[h] \in Request /\ req[h].queue # << >> /\ OfMessage(req[h]) /\ Complete(req[h])
      /\ ToSet(req[h].queue) = {X(h)} \cup ToSet(q)
  BY <1>1, AtStatement DEF Staged
<1>3. First(q) \in {"kill", "model", "id"} /\ (First(q) = "kill" => q = << >>)
  BY DEF First
<1>4. PhyosLast(q)
  BY <1>1, <1>2, PhyosLastOfTail DEF Complete, Request
<1>5. req' = [req EXCEPT ![h] = r]
  BY <1>2 DEF Keep, Typed, TypeOK, Request
<1>6. ToSet(q) \subseteq ToSet(req[h].queue)
  BY <1>2
<1> HIDE DEF q
<1>7. /\ r.pc = First(q) /\ r.msg = req[h].msg /\ r.rest = req[h].rest /\ r.queue = q
      /\ r.models = req[h].models /\ r.newModels = req[h].newModels
      /\ r.nodes = req[h].nodes /\ r.newNodes = req[h].newNodes /\ r.kill = req[h].kill
  BY <1>2 DEF Request
<1> HIDE DEF r
<1>8. req'[h] = r /\ \A g \in Handlers \ {h} : req'[g] = req[g]
  BY <1>5 DEF Typed, TypeOK
<1>9. r.pc \in Storings /\ r.pc \notin Placings /\ r.pc # "icon" /\ r # Free
  BY <1>3, <1>7 DEF Storings, Placings, Free
<1>10. OfMessage(r)
  BY <1>2, <1>7 DEF OfMessage
<1>11. Complete(r)
  BY <1>1, <1>2, <1>3, <1>4, <1>6, <1>7, <1>9 DEF Complete
<1>12. Sent(h)' = Sent(h) /\ D(h)' = D(h)
  BY <1>7, <1>8 DEF Sent, D
<1>13. Waiting(h)' = ToSet(q) /\ Waiting(h) = ToSet(req[h].queue) \ {X(h)}
  BY <1>1, <1>3, <1>7, <1>8 DEF Waiting
<1>. QED BY <1>1, <1>2, <1>3, <1>7, <1>8, <1>9, <1>10, <1>11, <1>12, <1>13

LEMMA KeepModelAgrees ==
  ASSUME Typed, Control, Agreement, NEW h \in Handlers, Keep(h), X(h).kind = "model"
  PROVE  Control' /\ Agreement'
<1>0. PICK x, m, d : x = X(h) /\ m = Sent(h) /\ d = D(h)
  OBVIOUS
<1>1. /\ req[h].pc = "keep" /\ req[h].pc \in Storings /\ req[h].queue # << >>
      /\ \A g \in Handlers \ {h} : req'[g] = req[g]
      /\ req'[h] # Free /\ OfMessage(req'[h]) /\ Complete(req'[h])
      /\ req'[h].pc \in {"kill", "model", "id"} /\ req'[h].msg = req[h].msg
      /\ req'[h].newModels = req[h].newModels /\ req'[h].newNodes = req[h].newNodes
      /\ Sent(h)' = m /\ D(h)' = d
      /\ \A z \in Waiting(h) : z \in Waiting(h)'
      /\ x \notin Waiting(h)
  BY <1>0, KeepMoves
<1>2. Busy(h) /\ m \in Messages /\ d \in Designs /\ x \in ModelItems(m)
  BY <1>0, <1>1, AtStatement
<1>3. /\ x.e \in Model /\ x.e.name \in Names /\ x.e.name \in Gives(m) /\ x.kind = "model"
  BY <1>2, ModelsGiven
<1>4. /\ UNCHANGED <<models, phyos, elements, up, doubt>>
      /\ userModels' = [userModels EXCEPT ![d][x.e.name] = x.e]
  BY <1>0, <1>3 DEF Keep, tables
<1>5. \A e \in Designs, n \in Names :
        userModels'[e][n] = IF e = d /\ n = x.e.name THEN x.e ELSE userModels[e][n]
  BY <1>2, <1>3, <1>4 DEF Typed, TypeOK
<1>6. StoredModels' = StoredModels /\ StoredPhyos' = StoredPhyos
  BY <1>4 DEF StoredModels, ReadModel, ModelKeys, StoredPhyos, ReadPhyo
<1>7. Filed'
  BY <1>4, <1>5 DEF Agreement, Filed
<1>8. NamesKept(h)
  BY <1>4 DEF NamesKept
<1>9. Local(h)
  BY <1>0, <1>1, <1>3, <1>4, <1>5, <1>6, <1>7, <1>8 DEF Local, SameDoubt
<1>10. ASSUME Good(h) PROVE Progress(h)'
  <2>1. Progress(h) /\ ModelsCome(h) /\ PhyosCome(h) /\ Proper(m)
    BY <1>0, <1>1, <1>10 DEF Agreement, Progressing, Progress, Unmet
  <2>2. ModelsCome(h)'
    <3> SUFFICES ASSUME NEW z \in ModelItems(m)
                 PROVE  (ModelDone(h, z) \/ (z \in Waiting(h) /\ ModelTodo(h, z)))'
      BY <1>1 DEF ModelsCome
    <3>1. CASE z = x
      <4>1. ModelStored(x)
        BY <1>0, <1>1, <1>2, <2>1 DEF ModelsCome, ModelDone
      <4>. QED BY <1>1, <1>2, <1>3, <1>5, <1>6, <3>1, <4>1 DEF ModelDone, ModelStored, Held
    <3>2. CASE z # x
      <4>1. z.oid \in Names \ {x.e.name} /\ z.e.name \in Names \ {x.e.name}
        BY <1>2, <2>1, <3>2, ModelsApart, ModelsGiven
      <4>2. userModels'[d][z.oid] = userModels[d][z.oid]
            /\ userModels'[d][z.e.name] = userModels[d][z.e.name]
        BY <1>2, <1>5, <4>1
      <4>3. ModelDone(h, z) => ModelDone(h, z)'
        BY <1>0, <1>1, <1>6, <4>2 DEF ModelDone, ModelStored, Held
      <4>4. ModelTodo(h, z) => ModelTodo(h, z)'
        BY <1>0, <1>1, <1>6, <4>2 DEF ModelTodo, SameModel, Held
      <4>. QED BY <1>0, <1>1, <2>1, <3>2, <4>3, <4>4 DEF ModelsCome
    <3>. QED BY <3>1, <3>2
  <2>3. PhyosCome(h)'
    <3> SUFFICES ASSUME NEW z \in PhyoItems(m), z.e.id \notin doubt[d]
                 PROVE  (PhyoDone(z) \/ (z \in Waiting(h) /\ PhyoTodo(h, z)))'
      BY <1>1, <1>4 DEF PhyosCome
    <3>1. z # x
      BY <1>2, <1>3, PhyosGiven
    <3>2. PhyoDone(z) => PhyoDone(z)'
      BY <1>4, <1>6 DEF PhyoDone, PhyoStored
    <3>3. PhyoTodo(h, z) => PhyoTodo(h, z)'
      BY <1>1, <1>4 DEF PhyoTodo
    <3>. QED BY <1>0, <1>1, <2>1, <3>1, <3>2, <3>3 DEF PhyosCome
  <2>4. \A n \in Refers(m) \ Given(m) : StoredModels'[n] # None
    BY <1>0, <1>6, <2>1 DEF Progress
  <2>. QED BY <1>1, <2>2, <2>3, <2>4 DEF Progress, Placings
<1>11. GetsOn(h)
  BY <1>1, <1>10 DEF GetsOn
<1>. QED BY <1>2, <1>9, <1>11, LocalKeeps

LEMMA KeepPhyoAgrees ==
  ASSUME Typed, Control, Agreement, NEW h \in Handlers, Keep(h), X(h).kind # "model"
  PROVE  Control' /\ Agreement'
<1>0. PICK y, m, d : y = X(h) /\ m = Sent(h) /\ d = D(h)
  OBVIOUS
<1>1. /\ req[h].pc = "keep" /\ req[h].pc \in Storings /\ req[h].queue # << >>
      /\ \A g \in Handlers \ {h} : req'[g] = req[g]
      /\ req'[h] # Free /\ OfMessage(req'[h]) /\ Complete(req'[h])
      /\ req'[h].pc \in {"kill", "model", "id"} /\ req'[h].msg = req[h].msg
      /\ req'[h].newModels = req[h].newModels /\ req'[h].newNodes = req[h].newNodes
      /\ Sent(h)' = m /\ D(h)' = d
      /\ \A z \in Waiting(h) : z \in Waiting(h)'
      /\ y \notin Waiting(h)
  BY <1>0, KeepMoves
<1>2. Busy(h) /\ m \in Messages /\ d \in Designs /\ y \in PhyoItems(m)
  BY <1>0, <1>1, AtStatement, ModelsGiven
<1>3. /\ y.e \in Phyo /\ y.e.id \in Phyos /\ y.e.id \in Gives(m) /\ y.e.model \in Refers(m)
      /\ y.kind = "phyo"
  BY <1>2, PhyosGiven
<1>4. /\ UNCHANGED <<models, phyos, userModels, up, doubt>>
      /\ elements' = [elements EXCEPT ![y.e.id] = y.e]
  BY <1>0, <1>3 DEF Keep, tables
<1>5. \A f \in Phyos : elements'[f] = IF f = y.e.id THEN y.e ELSE elements[f]
  BY <1>3, <1>4 DEF Typed, TypeOK
<1>6. StoredModels' = StoredModels /\ StoredPhyos' = StoredPhyos
  BY <1>4 DEF StoredModels, ReadModel, ModelKeys, StoredPhyos, ReadPhyo
<1>7. Filed'
  BY <1>4 DEF Agreement, Filed
<1>8. NamesKept(h)
  BY <1>4 DEF NamesKept
<1>9. Local(h)
  BY <1>0, <1>1, <1>3, <1>4, <1>5, <1>6, <1>7, <1>8 DEF Local, SameDoubt
<1>10. ASSUME Good(h) PROVE Progress(h)'
  <2>1. Progress(h) /\ ModelsCome(h) /\ PhyosCome(h) /\ Proper(m)
    BY <1>0, <1>1, <1>10 DEF Agreement, Progressing, Progress, Unmet
  <2>2. ModelsCome(h)'
    <3> SUFFICES ASSUME NEW z \in ModelItems(m)
                 PROVE  (ModelDone(h, z) \/ (z \in Waiting(h) /\ ModelTodo(h, z)))'
      BY <1>1 DEF ModelsCome
    <3>1. z # y
      BY <1>2, <1>3, ModelsGiven
    <3>2. ModelDone(h, z) => ModelDone(h, z)'
      BY <1>0, <1>1, <1>4, <1>6 DEF ModelDone, ModelStored, Held
    <3>3. ModelTodo(h, z) => ModelTodo(h, z)'
      BY <1>0, <1>1, <1>4, <1>6 DEF ModelTodo, SameModel, Held
    <3>. QED BY <1>0, <1>1, <2>1, <3>1, <3>2, <3>3 DEF ModelsCome
  <2>3. PhyosCome(h)'
    <3> SUFFICES ASSUME NEW z \in PhyoItems(m), z.e.id \notin doubt[d]
                 PROVE  (PhyoDone(z) \/ (z \in Waiting(h) /\ PhyoTodo(h, z)))'
      BY <1>1, <1>4 DEF PhyosCome
    <3>1. CASE z = y
      <4>1. PhyoStored(y)
        BY <1>0, <1>1, <1>2, <2>1, <3>1 DEF PhyosCome, PhyoDone
      <4>. QED BY <1>3, <1>5, <1>6, <3>1, <4>1 DEF PhyoDone, PhyoStored
    <3>2. CASE z # y
      <4>1. z.e.id \in Phyos /\ z.e.id # y.e.id
        BY <1>2, <2>1, <3>2, PhyosGiven DEF Proper
      <4>2. elements'[z.e.id] = elements[z.e.id]
        BY <1>5, <4>1
      <4>3. PhyoDone(z) => PhyoDone(z)'
        BY <1>6, <4>2 DEF PhyoDone, PhyoStored
      <4>4. PhyoTodo(h, z) => PhyoTodo(h, z)'
        BY <1>1, <1>4, <4>2 DEF PhyoTodo
      <4>. QED BY <1>0, <1>1, <2>1, <3>2, <4>3, <4>4 DEF PhyosCome
    <3>. QED BY <3>1, <3>2
  <2>4. \A n \in Refers(m) \ Given(m) : StoredModels'[n] # None
    BY <1>0, <1>6, <2>1 DEF Progress
  <2>. QED BY <1>1, <2>2, <2>3, <2>4 DEF Progress, Placings
<1>11. GetsOn(h)
  BY <1>1, <1>10 DEF GetsOn
<1>. QED BY <1>2, <1>9, <1>11, LocalKeeps

(* Models that were renamed are forgotten under the names they had; then   *)
(* all is as it is stored.                                                 *)
LEMMA KillAgrees ==
  ASSUME Typed, Control, Agreement, NEW h \in Handlers, Kill(h)
  PROVE  Control' /\ Agreement'
<1>0. PICK m, d : m = Sent(h) /\ d = D(h)
  OBVIOUS
<1>1. req[h].pc = "kill" /\ req[h].pc \in Storings
  BY DEF Kill, Storings
<1>2. /\ Busy(h) /\ m \in Messages /\ d \in Designs /\ Complete(req[h])
      /\ Items(m, {"icon"}) = {}
  BY <1>0, <1>1, AtStatement
<1>3. req[h].kill = Renamed(m) /\ req[h].queue = << >>
  BY <1>0, <1>1, <1>2 DEF Complete, Sent
<1>4. Renamed(m) \subseteq Gives(m) \cap Names
  BY <1>2, ModelsGiven
<1>5. /\ UNCHANGED <<models, phyos, elements, up, doubt>>
      /\ req' = [req EXCEPT ![h] = Free]
  BY DEF Kill, tables
<1>6. \A e \in Designs, n \in Names :
        userModels'[e][n] = IF e = d /\ n \in Renamed(m) THEN None ELSE userModels[e][n]
  BY <1>0, <1>2, <1>3 DEF Kill, Typed, TypeOK
<1>7. req'[h] = Free /\ \A g \in Handlers \ {h} : req'[g] = req[g]
  BY <1>5 DEF Typed, TypeOK
<1>8. StoredModels' = StoredModels /\ StoredPhyos' = StoredPhyos
  BY <1>5 DEF StoredModels, ReadModel, ModelKeys, StoredPhyos, ReadPhyo
<1>9. Filed'
  BY <1>5, <1>6 DEF Agreement, Filed
<1>10. NamesKept(h)
  BY <1>5 DEF NamesKept
<1>11. Local(h)
  BY <1>0, <1>4, <1>5, <1>6, <1>7, <1>8, <1>9, <1>10 DEF Local, SameDoubt
<1>12. ASSUME Good(h) PROVE Settled(h)
  <2>1. Progress(h) /\ ModelsCome(h) /\ PhyosCome(h) /\ Proper(m)
    BY <1>0, <1>1, <1>12 DEF Agreement, Progressing, Progress, Unmet
  <2>2. Waiting(h) = {}
    BY <1>3 DEF Waiting, ToSet
  <2>3. \A x \in ModelItems(m) : ModelDone(h, x)
    BY <1>0, <1>1, <2>1, <2>2 DEF ModelsCome
  <2>4. ASSUME NEW n \in Gives(m) \cap Names PROVE userModels'[d][n] = StoredModels'[n]
    <3>1. PICK x \in ModelItems(m) : n = x.oid \/ n = x.e.name
      BY <1>2, GivenFrom
    <3>2. /\ StoredModels[x.e.name] = x.e /\ (x.oid # x.e.name => StoredModels[x.oid] = None)
          /\ userModels[d][x.e.name] = x.e
      BY <1>0, <2>3, <3>1 DEF ModelDone, ModelStored, Held
    <3>3. /\ x.e.name \in Names /\ x.e.name \in Given(m) /\ x.oid \in Names
          /\ x.oid # x.e.name => x.oid \in Renamed(m)
      BY <1>2, <3>1, ModelsGiven
    <3>4. CASE n = x.e.name
      <4>1. n \notin Renamed(m)
        BY <2>1, <3>3, <3>4 DEF Proper
      <4>. QED BY <1>2, <1>6, <1>8, <3>2, <3>3, <3>4, <4>1
    <3>5. CASE n # x.e.name
      BY <1>2, <1>6, <1>8, <3>1, <3>2, <3>3, <3>5
    <3>. QED BY <3>4, <3>5
  <2>5. ASSUME NEW f \in Gives(m) \cap Phyos, f \notin doubt[d]
        PROVE  elements'[f] = StoredPhyos'[f] /\ phyos'[f] # Half
    <3>1. PICK y \in PhyoItems(m) : y.e.id = f
      BY <1>2, GivenFrom
    <3>2. PhyoDone(y)
      BY <1>0, <1>1, <2>1, <2>2, <2>5, <3>1 DEF PhyosCome
    <3>3. y.e \in Phyo /\ f \in Phyos
      BY <1>2, <3>1, PhyosGiven
    <3>4. StoredPhyos[f] = y.e /\ elements[f] = y.e
      BY <3>1, <3>2 DEF PhyoDone, PhyoStored
    <3>5. phyos[f] # Half
      BY <3>3, <3>4, PhyosRead, StartAssumption
    <3>. QED BY <1>5, <1>8, <3>4, <3>5
  <2>. QED BY <1>0, <2>4, <2>5 DEF Settled
<1>13. GetsOn(h)
  BY <1>7, <1>12 DEF GetsOn
<1>. QED BY <1>2, <1>11, <1>13, LocalKeeps

(* A request for an icon has no more than that item.                       *)
LEMMA AtIcon ==
  ASSUME Typed, Control, NEW h \in Handlers, Busy(h), req[h].rest # << >>, Item(h).kind = "icon"
  PROVE  /\ Sent(h) \in Messages /\ D(h) \in Designs /\ req[h] \in Request
         /\ OfMessage(req[h]) /\ req[h].rest = Sent(h).items
         /\ Item(h).name \in Names /\ Item(h).icon \in Icons
         /\ Item(h).name \in Gives(Sent(h)) /\ Gives(Sent(h)) \cap Names = {Item(h).name}
         /\ ModelItems(Sent(h)) = {} /\ PhyoItems(Sent(h)) = {}
         /\ Given(Sent(h)) = {} /\ Renamed(Sent(h)) = {} /\ Refers(Sent(h)) = {}
         /\ Gives(Sent(h)) \cap Phyos = {}
<1>1. /\ Sent(h) \in Messages /\ D(h) \in Designs /\ req[h] \in Request
      /\ OfMessage(req[h])
  BY SentKnown DEF Control
<1>2. Item(h) \in Items(Sent(h), {"icon"})
  <2>1. Item(h) \in ToSet(req[h].rest)
    BY <1>1 DEF Request, Item, ToSet
  <2>2. Item(h) \in ToSet(Sent(h).items)
    BY <1>1, <2>1 DEF OfMessage, Sent
  <2>. QED BY <2>2 DEF Items, ToSet
<1>3. req[h].rest = Sent(h).items
  BY <1>1, <1>2 DEF OfMessage, Sent
<1>4. /\ Item(h).name \in Names /\ Item(h).icon \in Icons
      /\ Item(h).name \in Gives(Sent(h)) /\ Gives(Sent(h)) \cap Names = {Item(h).name}
      /\ ModelItems(Sent(h)) = {} /\ PhyoItems(Sent(h)) = {}
      /\ Given(Sent(h)) = {} /\ Renamed(Sent(h)) = {}
  BY <1>1, <1>2, IconGiven
<1>5. Refers(Sent(h)) = {} /\ Gives(Sent(h)) \cap Phyos = {}
  BY <1>1, <1>4, PhyosGiven, GivenFrom
<1>. QED BY <1>1, <1>3, <1>4, <1>5

LEMMA TakeIconAgrees ==
  ASSUME Typed, Control, Agreement, NEW h \in Handlers, TakeIcon(h)
  PROVE  Control' /\ Agreement'
<1>0. PICK x, d, old : x = Item(h) /\ d = D(h) /\ old = userModels[d][x.name]
  OBVIOUS
<1>1. /\ req[h].pc = "place" /\ req[h].rest # << >> /\ x.kind = "icon" /\ Busy(h)
      /\ req[h].pc \in Placings
  BY <1>0 DEF TakeIcon, Placing, Busy, Placings
<1>2. /\ d \in Designs /\ req[h] \in Request /\ OfMessage(req[h])
      /\ x.name \in Names /\ x.icon \in Icons /\ x.name \in Gives(Sent(h))
      /\ ModelItems(Sent(h)) = {} /\ PhyoItems(Sent(h)) = {} /\ Refers(Sent(h)) = {}
      /\ Renamed(Sent(h)) = {}
  BY <1>0, <1>1, AtIcon
<1>3. UNCHANGED <<models, phyos, elements, up, doubt>>
  BY DEF TakeIcon, tables
<1>4. StoredModels' = StoredModels
  BY <1>3 DEF StoredModels, ReadModel, ModelKeys
<1>5. Good(h) => old = StoredModels[x.name]
  BY <1>0, <1>1, <1>2 DEF Agreement, Progressing, Progress, Sorting, SameModel
<1>6. CASE old = None
  <2> DEFINE r == [req[h] EXCEPT !.pc = "web"]
  <2>1. req' = [req EXCEPT ![h] = r] /\ userModels' = userModels
    BY <1>0, <1>6 DEF TakeIcon, Typed, TypeOK
  <2>2. /\ r.pc = "web" /\ r.msg = req[h].msg /\ r.rest = req[h].rest /\ r.queue = req[h].queue
        /\ r.models = req[h].models /\ r.newModels = req[h].newModels
        /\ r.nodes = req[h].nodes /\ r.newNodes = req[h].newNodes /\ r.kill = req[h].kill
    BY <1>2 DEF Request
  <2> HIDE DEF r
  <2>3. r # Free /\ OfMessage(r) /\ Complete(r)
    BY <1>2, <2>2 DEF Free, OfMessage, Complete, Placings, Storings
  <2>4. Local(h) /\ req'[h] = r
    BY <1>1, <1>3, <2>1, <2>2, IdleLocal
  <2>5. Sent(h)' = Sent(h) /\ D(h)' = d /\ Item(h)' = x
    BY <1>0, <2>2, <2>4 DEF Sent, D, Item
  <2>6. Good(h) => Progress(h)'
    BY <1>0, <1>2, <1>4, <1>5, <2>1, <2>2, <2>4, <2>5
       DEF Progress, SameModel, Placings, Storings
  <2>. QED BY <1>1, <2>3, <2>4, <2>6, LocalKeeps DEF GetsOn
<1>7. CASE old # None
  <2> DEFINE given == [old EXCEPT !.icon = x.icon]
             item == [kind |-> "model", oid |-> x.name, e |-> given]
             q == <<item>>
             r == [req[h] EXCEPT !.pc = "icon", !.queue = q]
  <2>1. /\ req' = [req EXCEPT ![h] = r]
        /\ userModels' = [userModels EXCEPT ![d][x.name] = given]
    BY <1>0, <1>7 DEF TakeIcon, Typed, TypeOK
  <2>2. old \in Model /\ old.name = x.name
    BY <1>0, <1>2, <1>7 DEF Typed, TypeOK, Agreement, Filed
  <2>3. given.name = x.name
    BY <2>2 DEF Model
  <2>4. Head(q).oid = x.name /\ Head(q).e = given
    OBVIOUS
  <2> HIDE DEF given, q
  <2>5. /\ r.pc = "icon" /\ r.msg = req[h].msg /\ r.rest = req[h].rest /\ r.queue = q
        /\ r.models = req[h].models /\ r.newModels = req[h].newModels
        /\ r.nodes = req[h].nodes /\ r.newNodes = req[h].newNodes /\ r.kill = req[h].kill
    BY <1>2 DEF Request
  <2> HIDE DEF r
  <2>6. r # Free /\ OfMessage(r) /\ r.pc # "free"
    BY <1>2, <2>5 DEF Free, OfMessage
  <2>7. Complete(r)
    BY <1>0, <2>3, <2>4, <2>5 DEF Complete, Placings, Storings, Item
  <2>8. req'[h] = r /\ \A g \in Handlers \ {h} : req'[g] = req[g]
    BY <2>1 DEF Typed, TypeOK
  <2>9. \A e \in Designs, n \in Names :
          userModels'[e][n] = IF e = d /\ n = x.name THEN given ELSE userModels[e][n]
    BY <1>2, <2>1 DEF Typed, TypeOK
  <2>10. Filed'
    BY <1>3, <2>3, <2>9 DEF Agreement, Filed
  <2>11. NamesKept(h)
    BY <1>3 DEF NamesKept
  <2>12. Local(h)
    BY <1>0, <1>2, <1>3, <1>4, <2>5, <2>6, <2>8, <2>9, <2>10, <2>11 DEF Local, SameDoubt
  <2>13. Sent(h)' = Sent(h) /\ D(h)' = d /\ Item(h)' = x
    BY <1>0, <2>5, <2>8 DEF Sent, D, Item
  <2>14. X(h)'.e = given
    BY <2>4, <2>5, <2>8 DEF X
  <2>15. userModels'[d][x.name] = given
    BY <1>2, <2>9
  <2>16. ASSUME Good(h) PROVE Progress(h)'
    <3>1. StoredModels'[x.name] # None
      BY <1>4, <1>5, <1>7, <2>16
    <3>2. (Held(h, Item(h).name) = X(h).e /\ StoredModels[Item(h).name] # None)'
      BY <2>13, <2>14, <2>15, <3>1 DEF Held
    <3>. QED BY <1>2, <2>5, <2>8, <2>13, <3>2 DEF Progress, Placings, Storings
  <2>. QED BY <1>1, <2>6, <2>7, <2>8, <2>12, <2>16, LocalKeeps DEF GetsOn
<1>. QED BY <1>6, <1>7

LEMMA StoreIconAgrees ==
  ASSUME Typed, Typed', Control, Agreement, NEW h \in Handlers, StoreIcon(h)
  PROVE  Control' /\ Agreement'
<1>0. PICK i, x, d : i = Item(h) /\ x = X(h) /\ d = D(h)
  OBVIOUS
<1> DEFINE r == [req[h] EXCEPT !.pc = "web", !.queue = << >>]
<1>1. req[h].pc = "icon" /\ Busy(h)
  BY DEF StoreIcon, Busy
<1>2. /\ req[h].rest # << >> /\ i.kind = "icon" /\ req[h].queue # << >>
      /\ x \in ModelItem \cup PhyoItem /\ x.kind = "model" /\ Complete(req[h])
  BY <1>0, <1>1, Served DEF Staged, Item, X, Control
<1>3. /\ d \in Designs /\ req[h] \in Request /\ OfMessage(req[h])
      /\ i.name \in Names /\ i.name \in Gives(Sent(h))
      /\ ModelItems(Sent(h)) = {} /\ PhyoItems(Sent(h)) = {} /\ Refers(Sent(h)) = {}
      /\ Renamed(Sent(h)) = {}
  BY <1>0, <1>1, <1>2, AtIcon
<1>4. x.oid = i.name /\ x.e.name = i.name /\ x.e \in Model
  <2>1. x \in ModelItem
    BY <1>2 DEF PhyoItem
  <2>. QED BY <1>0, <1>1, <1>2, <2>1 DEF Complete, Item, X, ModelItem
<1>5. req' = [req EXCEPT ![h] = r]
  BY <1>3 DEF StoreIcon, Typed, TypeOK
<1>6. /\ r.pc = "web" /\ r.msg = req[h].msg /\ r.rest = req[h].rest
      /\ r.models = req[h].models /\ r.newModels = req[h].newModels
      /\ r.nodes = req[h].nodes /\ r.newNodes = req[h].newNodes /\ r.kill = req[h].kill
  BY <1>3 DEF Request
<1> HIDE DEF r
<1>7. UNCHANGED <<phyos, userModels, elements, up>>
  BY DEF StoreIcon, memory
<1>8. r # Free /\ r.pc # "free" /\ OfMessage(r) /\ Complete(r)
  BY <1>3, <1>6 DEF Free, OfMessage, Complete, Placings, Storings
<1>9. req'[h] = r /\ \A g \in Handlers \ {h} : req'[g] = req[g]
  BY <1>5 DEF Typed, TypeOK
<1>10. Sent(h)' = Sent(h) /\ D(h)' = d /\ Item(h)' = i
  BY <1>0, <1>6, <1>9 DEF Sent, D, Item
<1>11. Filed
  BY DEF Agreement
<1>12. CASE models' = models
  <2>1. Filed' /\ NamesKept(h)
    BY <1>7, <1>11, <1>12 DEF Filed, NamesKept
  <2>2. StoredModels' = StoredModels
    BY <1>12 DEF StoredModels, ReadModel, ModelKeys
  <2>3. CASE doubt' = [e \in Designs |-> doubt[e] \cup Gives(req[h].msg)]
    <3>1. \A e \in Designs : doubt'[e] = doubt[e] \cup Gives(Sent(h))
      BY <2>3 DEF Sent
    <3>2. Local(h)
      BY <1>6, <1>7, <1>8, <1>9, <2>1, <2>2, <3>1 DEF Local, SameDoubt
    <3>3. ~(Good(h) /\ SameDoubt)
      BY <1>0, <1>3, <3>1 DEF Good, SameDoubt
    <3>. QED BY <1>1, <1>8, <1>9, <3>2, <3>3, LocalKeeps DEF GetsOn
  <2>4. CASE doubt' = doubt /\ models' = Update(x.oid, x.e)
    <3>1. Local(h)
      BY <1>6, <1>7, <1>8, <1>9, <2>1, <2>2, <2>4 DEF Local, SameDoubt
    <3>2. ASSUME Good(h) PROVE Progress(h)'
      <4>1. userModels[d][i.name] = x.e /\ StoredModels[i.name] # None
        BY <1>0, <1>1, <3>2 DEF Agreement, Progressing, Progress, Held
      <4>2. StoredModels'[i.name] = x.e
        BY <1>3, <1>4, <1>11, <2>1, <2>4, <4>1, Updated
      <4>3. SameModel(D(h), Item(h).name)'
        BY <1>7, <1>10, <4>1, <4>2 DEF SameModel
      <4>. QED BY <1>3, <1>6, <1>9, <1>10, <4>3 DEF Progress, Placings, Storings
    <3>. QED BY <1>1, <1>8, <1>9, <3>1, <3>2, LocalKeeps DEF GetsOn
  <2>. QED BY <1>0, <1>12, <2>3, <2>4 DEF StoreIcon
<1>13. CASE models' # models
  <2>1. doubt' = doubt /\ models' = Update(x.oid, x.e)
    BY <1>0, <1>13 DEF StoreIcon
  <2>2. Filed'
    BY <1>3, <1>4, <1>7, <1>11, <2>1, Updated DEF Filed, FiledTable
  <2>3. NamesKept(h)
    BY <1>3, <1>4, <1>11, <2>1, Updated DEF NamesKept
  <2>4. \A n \in Names \ {i.name} : StoredModels'[n] = StoredModels[n]
    BY <1>3, <1>4, <1>11, <2>1, <2>2, Updated
  <2>5. Local(h)
    BY <1>3, <1>6, <1>7, <1>8, <1>9, <2>1, <2>2, <2>3, <2>4 DEF Local, SameDoubt
  <2>6. ASSUME Good(h) PROVE Progress(h)'
    <3>1. userModels[d][i.name] = x.e /\ StoredModels[i.name] # None
      BY <1>0, <1>1, <2>6 DEF Agreement, Progressing, Progress, Held
    <3>2. StoredModels'[i.name] = x.e
      BY <1>3, <1>4, <1>11, <2>1, <2>2, <3>1, Updated
    <3>3. SameModel(D(h), Item(h).name)'
      BY <1>7, <1>10, <3>1, <3>2 DEF SameModel
    <3>. QED BY <1>3, <1>6, <1>9, <1>10, <3>3 DEF Progress, Placings, Storings
  <2>. QED BY <1>1, <1>8, <1>9, <2>5, <2>6, LocalKeeps DEF GetsOn
<1>. QED BY <1>12, <1>13

LEMMA CopyIconAgrees ==
  ASSUME Typed, Control, Agreement, NEW h \in Handlers, CopyIcon(h)
  PROVE  Control' /\ Agreement'
<1>1. req[h].pc = "web" /\ Busy(h)
  BY DEF CopyIcon, Busy
<1>2. req[h].rest # << >> /\ Item(h).kind = "icon"
  BY <1>1, Served DEF Staged, Item
<1>3. /\ Gives(Sent(h)) \cap Names = {Item(h).name}
      /\ Gives(Sent(h)) \cap Phyos = {}
  BY <1>1, <1>2, AtIcon
<1>4. req' = [req EXCEPT ![h] = Free]
      /\ UNCHANGED <<models, phyos, userModels, elements, up, doubt>>
  BY DEF CopyIcon, tables, memory
<1>5. Local(h) /\ req'[h] = Free /\ StoredModels' = StoredModels
  BY <1>1, <1>4, IdleLocal
<1>6. Good(h) => Settled(h)
  BY <1>1, <1>3, <1>4, <1>5 DEF Agreement, Progressing, Progress, SameModel, Settled
<1>. QED BY <1>1, <1>5, <1>6, LocalKeeps DEF GetsOn

(* A message that is not troubled is proper, meets no other, and has       *)
(* nothing to do with what nothing is promised of.                         *)
LEMMA Untroubled ==
  ASSUME Typed, NEW m \in Messages, up[m.design] = "up",
         ~(Gives(m) \ Designs \subseteq doubt[m.design] \cup Troubled(m))
  PROVE  /\ Met(m) = {} /\ Troubled(m) = {} /\ Proper(m)
         /\ (Touches(m) \ Designs) \cap doubt[m.design] = {}
         /\ \A x \in ModelItems(m) : x.oid # x.e.name => userModels[m.design][x.e.name] = None
         /\ \A n \in Refers(m) \ Given(m) : userModels[m.design][n] # None
<1>1. Met(m) = {} /\ ~Clashes(m) /\ (Touches(m) \ Designs) \cap doubt[m.design] = {}
  BY DEF Troubled
<1>2. Troubled(m) = {}
  BY <1>1 DEF Troubled
<1>3. /\ \A x \in ModelItems(m) : x.oid # x.e.name => userModels[m.design][x.e.name] = None
      /\ \A n \in Refers(m) \ Given(m) :
           n \notin Renamed(m) /\ userModels[m.design][n] # None
      /\ Given(m) \cap Renamed(m) = {}
  BY <1>1 DEF Clashes, ModelItems
<1>4. ASSUME NEW x \in ModelItems(m), NEW y \in ModelItems(m), x # y
      PROVE  x.oid # y.oid /\ x.e.name # y.e.name
  <2>1. PICK j \in DOMAIN m.items : m.items[j] = x /\ x.kind = "model"
    BY DEF ModelItems, Items
  <2>2. PICK k \in DOMAIN m.items : m.items[k] = y /\ y.kind = "model"
    BY DEF ModelItems, Items
  <2>3. j # k
    BY <1>4, <2>1, <2>2
  <2>. QED BY <1>1, <2>1, <2>2, <2>3 DEF Clashes
<1>5. ASSUME NEW x \in PhyoItems(m), NEW y \in PhyoItems(m), x # y
      PROVE  x.e.id # y.e.id
  <2>1. PICK j \in DOMAIN m.items : m.items[j] = x /\ x.kind = "phyo"
    BY DEF PhyoItems, Items
  <2>2. PICK k \in DOMAIN m.items : m.items[k] = y /\ y.kind = "phyo"
    BY DEF PhyoItems, Items
  <2>3. j # k
    BY <1>5, <2>1, <2>2
  <2>. QED BY <1>1, <2>1, <2>2, <2>3 DEF Clashes
<1>6. Refers(m) \cap Renamed(m) = {}
  BY <1>3
<1>. QED BY <1>1, <1>2, <1>3, <1>4, <1>5, <1>6 DEF Proper

LEMMA ReceiveAgrees ==
  ASSUME Typed, Typed', Control, Agreement, NEW h \in Handlers, NEW m \in Messages, Receive(h, m)
  PROVE  Control' /\ Agreement'
<1> DEFINE r == [pc |-> "place", msg |-> m, rest |-> m.items,
               models |-> << >>, newModels |-> << >>, nodes |-> << >>, newNodes |-> << >>,
               kill |-> {}, queue |-> << >>, key |-> None]
<1>1. ~Busy(h) /\ up[m.design] = "up" /\ m.design \in Designs
  BY GivenInMessages DEF Receive, Busy
<1>2. req'[h] = r /\ \A g \in Handlers \ {h} : req'[g] = req[g]
  BY DEF Receive, Typed, TypeOK
<1>3. UNCHANGED <<models, phyos, userModels, elements, up>>
  BY DEF Receive, tables, memory
<1>4. \A d \in Designs :
        doubt'[d] = doubt[d] \cup Troubled(m) \cup Outdated(m, elements)
                    \cup (IF d = m.design THEN {} ELSE Gives(m) \cap Names)
  BY DEF Receive, DoubtsOf
<1>5. StoredModels' = StoredModels /\ StoredPhyos' = StoredPhyos
  BY <1>3 DEF StoredModels, ReadModel, ModelKeys, StoredPhyos, ReadPhyo
<1>6. Busy(h)' /\ Sent(h)' = m /\ D(h)' = m.design
  BY <1>2 DEF Busy, Sent, D
<1>7. ASSUME NEW g \in Handlers, g # h
      PROVE  Busy(g)' = Busy(g) /\ Sent(g)' = Sent(g) /\ D(g)' = D(g)
  BY <1>2, <1>7 DEF Busy, Sent, D
<1>8. Outdated(m, elements) \subseteq Phyos /\ Outdated(m, elements) \cap Gives(m) = {}
  BY DEF Outdated
<1>9. /\ r.pc = "place" /\ r.msg = m /\ r.rest = m.items /\ r.kill = {}
      /\ r.models = << >> /\ r.newModels = << >> /\ r.nodes = << >> /\ r.newNodes = << >>
  OBVIOUS
<1> HIDE DEF r
<1>10. Control'
  <2>1. OfMessage(r)
    BY <1>9 DEF OfMessage, ToSet
  <2>2. Complete(r)
    <3>1. ModelItems(m) \cup PhyoItems(m) \subseteq ToSet(m.items)
      BY DEF ModelItems, PhyoItems, Items, ToSet
    <3>. QED BY <1>9, <3>1 DEF Complete, Placings, Storings
  <2> SUFFICES ASSUME NEW g \in Handlers, Busy(g)'
               PROVE  (up[D(g)] = "up" /\ OfMessage(req[g]) /\ Complete(req[g]))'
    BY DEF Control
  <2>3. CASE g = h
    BY <1>1, <1>2, <1>3, <1>6, <2>1, <2>2, <2>3
  <2>4. CASE g # h
    BY <1>2, <1>3, <1>7, <2>4 DEF Control
  <2>. QED BY <2>3, <2>4
<1>11. ASSUME NEW g \in Handlers, g # h, Good(g)'
       PROVE  /\ Good(g) /\ Sent(g) \notin Met(m)
              /\ Touches(Sent(g)) \cap Touches(m) = {}
  <2>1. Busy(g)' /\ Busy(g)
    BY <1>7, <1>11 DEF Good
  <2>2. D(g) \in Designs /\ D(g)' = D(g) /\ Sent(g)' = Sent(g)
    BY <1>7, <1>11, <2>1, SentKnown
  <2>3. Good(g)
    BY <1>4, <1>11, <2>1, <2>2 DEF Good
  <2>4. Sent(g) \notin Met(m)
    <3>1. Sent(g) \in Met(m) => Gives(Sent(g)) \subseteq Troubled(m)
      BY DEF Troubled
    <3>. QED BY <1>4, <1>11, <2>2, <3>1 DEF Good
  <2>5. Sent(g) \in InFlight
    BY <2>1 DEF InFlight, Sent, Busy
  <2>. QED BY <2>3, <2>4, <2>5 DEF Met
<1>12. ASSUME Good(h)'
       PROVE  /\ Met(m) = {} /\ Troubled(m) = {} /\ Proper(m)
              /\ (Touches(m) \ Designs) \cap doubt[m.design] = {}
              /\ \A x \in ModelItems(m) :
                   x.oid # x.e.name => userModels[m.design][x.e.name] = None
              /\ \A n \in Refers(m) \ Given(m) : userModels[m.design][n] # None
  <2>1. ~(Gives(m) \ Designs \subseteq doubt'[m.design])
    BY <1>6, <1>12 DEF Good
  <2>2. ~(Gives(m) \ Designs \subseteq doubt[m.design] \cup Troubled(m))
    BY <1>1, <1>4, <2>1
  <2>. QED BY <1>1, <2>2, Untroubled
<1>13. ASSUME NEW g \in Handlers, Busy(g), Met(m) = {}
       PROVE  Touches(Sent(g)) \cap Touches(m) = {}
  BY <1>13 DEF Met, InFlight, Busy, Sent
<1>14. Unmet'
  <2> SUFFICES ASSUME NEW g \in Handlers, Good(g)'
               PROVE  /\ Proper(Sent(g)')
                      /\ Touches(Sent(g)') \cap Names \cap doubt'[D(g)'] = {}
                      /\ \A k \in Handlers \ {g} :
                           Busy(k)' => Touches(Sent(k)') \cap Touches(Sent(g)') = {}
    BY DEF Unmet
  <2>1. CASE g = h
    <3>1. \A k \in Handlers \ {g} : Busy(k)' => Touches(Sent(k)') \cap Touches(Sent(g)') = {}
      BY <1>6, <1>7, <1>12, <1>13, <2>1
    <3>2. doubt'[m.design] = doubt[m.design] \cup Outdated(m, elements)
      BY <1>1, <1>4, <1>12, <2>1
    <3>3. Touches(m) \cap Names \cap doubt'[m.design] = {}
      BY <1>8, <1>12, <2>1, <3>2, DoubtAssumption
    <3>. QED BY <1>6, <1>12, <2>1, <3>1, <3>3
  <2>2. CASE g # h
    <3>1. Good(g) /\ Sent(g) \notin Met(m) /\ Touches(Sent(g)) \cap Touches(m) = {} /\ Busy(g)
      BY <1>11, <2>2 DEF Good
    <3>2. /\ Proper(Sent(g)) /\ Touches(Sent(g)) \cap Names \cap doubt[D(g)] = {}
          /\ \A k \in Handlers \ {g} : Busy(k) => Touches(Sent(k)) \cap Touches(Sent(g)) = {}
      BY <3>1 DEF Agreement, Unmet
    <3>3. \A k \in Handlers \ {g} : Busy(k)' => Touches(Sent(k)') \cap Touches(Sent(g)') = {}
      <4> SUFFICES ASSUME NEW k \in Handlers \ {g}, Busy(k)'
                   PROVE  Touches(Sent(k)') \cap Touches(Sent(g)') = {}
        OBVIOUS
      <4>1. CASE k = h
        BY <1>6, <1>7, <2>2, <3>1, <4>1
      <4>2. CASE k # h
        BY <1>7, <2>2, <3>2, <4>2
      <4>. QED BY <4>1, <4>2
    <3>4. \A o \in Met(m) : Gives(o) \cap Touches(Sent(g)) = {}
      <4> SUFFICES ASSUME NEW o \in Met(m) PROVE Gives(o) \cap Touches(Sent(g)) = {}
        OBVIOUS
      <4>1. PICK k \in Handlers : Busy(k) /\ o = Sent(k)
        BY DEF Met, InFlight, Busy, Sent
      <4>2. k # g
        BY <3>1, <4>1
      <4>. QED BY <3>2, <4>1, <4>2 DEF Touches
    <3>5. Troubled(m) \cap Touches(Sent(g)) = {}
      BY <3>1, <3>4 DEF Troubled, Touches
    <3>6. Gives(m) \cap Touches(Sent(g)) = {}
      BY <3>1 DEF Touches
    <3>7. D(g) \in Designs
      BY <3>1, SentKnown
    <3>8. Touches(Sent(g)) \cap Names \cap doubt'[D(g)] = {}
      BY <1>4, <1>8, <3>2, <3>5, <3>6, <3>7, DoubtAssumption
    <3>. QED BY <1>7, <2>2, <3>2, <3>3, <3>8
  <2>. QED BY <2>1, <2>2
<1>15. Foreign'
  <2> SUFFICES ASSUME NEW g \in Handlers, Busy(g)', NEW d \in Designs, d # D(g)', up'[d] # "down"
               PROVE  Gives(Sent(g)') \cap Names \subseteq doubt'[d]
    BY DEF Foreign
  <2>1. CASE g = h
    BY <1>4, <1>6, <2>1
  <2>2. CASE g # h
    <3>1. Gives(Sent(g)) \cap Names \subseteq doubt[d]
      BY <1>3, <1>7, <2>2 DEF Agreement, Foreign
    <3>. QED BY <1>4, <1>7, <2>2, <3>1
  <2>. QED BY <2>1, <2>2
<1>16. \A f \in Phyos : Sure(f)' => Sure(f)
  BY <1>3, <1>4, StartAssumption DEF Sure
<1>17. Lasting'
  <2> SUFFICES ASSUME NEW g \in Handlers, Busy(g)', NEW f \in Phyos, f \notin Gives(Sent(g)'),
                      Sure(f)', elements'[f] # None
               PROVE  elements'[f].model \notin Renamed(Sent(g)')
    BY DEF Lasting
  <2>1. CASE g = h
    <3>1. f \notin Outdated(m, elements)
      BY <1>4, StartAssumption DEF Sure
    <3>. QED BY <1>3, <1>6, <2>1, <3>1 DEF Outdated
  <2>2. CASE g # h
    BY <1>3, <1>7, <1>16, <2>2 DEF Agreement, Lasting
  <2>. QED BY <2>1, <2>2
<1>18. \A d, x : Unserved(d, x)' => Unserved(d, x)
  BY <1>1, <1>2 DEF Unserved, Serves, Busy, Sent, D
<1>19. ModelsSame' /\ PhyosSame'
  <2>1. ModelsSame'
    BY <1>3, <1>4, <1>5, <1>18 DEF Agreement, ModelsSame, SameModel
  <2>2. PhyosSame'
    BY <1>3, <1>5, <1>16, <1>18 DEF Agreement, PhyosSame, SamePhyo
  <2>. QED BY <2>1, <2>2
<1>20. Filed'
  BY <1>3 DEF Agreement, Filed
<1>21. ASSUME NEW g \in Handlers, g # h, Good(g)' PROVE Progress(g)'
  <2>1. Good(g) /\ Busy(g)
    BY <1>11, <1>21 DEF Good
  <2>2. D(g) \in Designs /\ D(g)' = D(g) /\ Sent(g)' = Sent(g) /\ req'[g] = req[g]
    BY <1>2, <1>7, <1>21, <2>1, SentKnown
  <2>3. doubt[D(g)] \subseteq doubt'[D(g)]
    BY <1>4, <2>2
  <2>4. Progress(g)
    BY <2>1 DEF Agreement, Progressing
  <2>5. Sorting(g) => Sorting(g)'
    BY <1>3, <1>5, <2>2, <2>3 DEF Sorting, SameModel, SamePhyo, Held
  <2>6. Waiting(g)' = Waiting(g) /\ X(g)' = X(g) /\ Item(g)' = Item(g)
    BY <2>2 DEF Waiting, X, Item
  <2>7. ModelsCome(g) => ModelsCome(g)'
    BY <1>3, <1>5, <2>2, <2>6 DEF ModelsCome, ModelDone, ModelTodo, ModelStored, SameModel, Held
  <2>8. PhyosCome(g) => PhyosCome(g)'
    BY <1>3, <1>5, <2>2, <2>3, <2>6 DEF PhyosCome, PhyoDone, PhyoTodo, PhyoStored
  <2>. QED BY <1>3, <1>5, <2>2, <2>4, <2>5, <2>6, <2>7, <2>8 DEF Progress, SameModel, Held
<1>22. ASSUME Good(h)' PROVE Progress(h)'
  <2> DEFINE d == m.design
  <2>1. /\ Met(m) = {} /\ (Touches(m) \ Designs) \cap doubt[d] = {}
        /\ \A x \in ModelItems(m) : x.oid # x.e.name => userModels[d][x.e.name] = None
        /\ \A n \in Refers(m) \ Given(m) : userModels[d][n] # None
    BY <1>12, <1>22
  <2>2. ASSUME NEW x \in Touches(m) PROVE Unserved(d, x) /\ (x \notin Designs => x \notin doubt[d])
    BY <1>13, <2>1 DEF Unserved, Serves, Busy, Touches
  <2>3. \A n \in Touches(m) \cap Names : SameModel(d, n)
    BY <1>1, <2>2, DoubtAssumption DEF Agreement, ModelsSame
  <2>4. ASSUME NEW f \in Gives(m) \cap Phyos PROVE SamePhyo(f)
    <3>1. DesignOf(f) = d
      BY GivenFrom
    <3>2. Unserved(d, f) /\ Sure(f)
      BY <1>1, <2>2, <3>1, DoubtAssumption DEF Touches, Sure
    <3>. QED BY <3>1, <3>2 DEF Agreement, PhyosSame
  <2>5. Sorting(h)'
    <3>1. \A n \in Gives(m) \cap Names : SameModel(D(h), n)'
      BY <1>3, <1>5, <1>6, <2>3 DEF SameModel, Touches
    <3>2. \A f \in Gives(m) \cap Phyos : SamePhyo(f)'
      BY <1>3, <1>5, <2>4 DEF SamePhyo
    <3>. QED BY <1>2, <1>3, <1>6, <1>9, <2>1, <3>1, <3>2 DEF Sorting, Held, ToSet
  <2>6. \A n \in Refers(m) \ Given(m) : StoredModels'[n] # None
    BY <1>5, <2>1, <2>3, PhyosGiven DEF SameModel, Touches
  <2>. QED BY <1>2, <1>6, <1>9, <2>5, <2>6 DEF Progress, Placings, Storings
<1>23. Progressing'
  BY <1>21, <1>22 DEF Progressing
<1>. QED BY <1>10, <1>14, <1>15, <1>17, <1>19, <1>20, <1>23 DEF Agreement

(* A request that a process is not concerned with gets neither on nor back *)
(* by what that process does.                                              *)
LEMMA OthersProgress ==
  ASSUME Typed, NEW g \in Handlers, Busy(g), req'[g] = req[g], UNCHANGED <<models, phyos>>,
         userModels'[D(g)] = userModels[D(g)], doubt'[D(g)] = doubt[D(g)],
         \A f \in Phyos : DesignOf(f) = D(g) => elements'[f] = elements[f],
         OfMessage(req[g]), Progress(g)
  PROVE  Progress(g)'
<1>1. Sent(g)' = Sent(g) /\ D(g)' = D(g) /\ Sent(g) \in Messages /\ D(g) = Sent(g).design
  BY SentKnown DEF Sent, D
<1>2. Waiting(g)' = Waiting(g) /\ X(g)' = X(g) /\ Item(g)' = Item(g)
  BY DEF Waiting, X, Item
<1>3. StoredModels' = StoredModels /\ StoredPhyos' = StoredPhyos
  BY TablesStay
<1>4. \A y \in PhyoItems(Sent(g)) : elements'[y.e.id] = elements[y.e.id]
  BY <1>1, PhyosGiven
<1>5. \A f \in Gives(Sent(g)) \cap Phyos : elements'[f] = elements[f]
  BY <1>1, GivenFrom
<1>6. Sorting(g) => Sorting(g)'
  <2>1. ToSet(req[g].nodes) \cup ToSet(req[g].newNodes) \subseteq PhyoItems(Sent(g))
    BY DEF OfMessage, Sent
  <2>. QED BY <1>1, <1>3, <1>4, <1>5, <2>1 DEF Sorting, SameModel, SamePhyo, Held
<1>7. ModelsCome(g) => ModelsCome(g)'
  BY <1>1, <1>2, <1>3 DEF ModelsCome, ModelDone, ModelTodo, ModelStored, SameModel, Held
<1>8. PhyosCome(g) => PhyosCome(g)'
  BY <1>1, <1>2, <1>3, <1>4 DEF PhyosCome, PhyoDone, PhyoTodo, PhyoStored
<1>. QED BY <1>1, <1>2, <1>3, <1>6, <1>7, <1>8 DEF Progress, SameModel, Held

LEMMA DieAgrees ==
  ASSUME Typed, Control, Agreement, NEW d \in Designs, Die(d)
  PROVE  Control' /\ Agreement'
<1>1. \A h \in Handlers : req'[h] = IF Busy(h) /\ D(h) = d THEN Free ELSE req[h]
  BY DEF Die, Busy
<1>2. UNCHANGED <<models, phyos, doubt>>
  BY DEF Die, tables
<1>3. /\ \A e \in Designs : up'[e] = IF e = d THEN "down" ELSE up[e]
      /\ \A e \in Designs \ {d} : userModels'[e] = userModels[e]
      /\ userModels'[d] = [n \in Names |-> None]
      /\ \A f \in Phyos : elements'[f] = IF DesignOf(f) = d THEN None ELSE elements[f]
  BY DEF Die, Typed, TypeOK
<1>4. ASSUME NEW h \in Handlers, Busy(h)'
      PROVE  /\ Busy(h) /\ D(h) # d /\ req'[h] = req[h] /\ D(h) \in Designs
             /\ Sent(h)' = Sent(h) /\ D(h)' = D(h) /\ (Good(h)' => Good(h))
  <2>1. Busy(h) /\ D(h) # d /\ req'[h] = req[h]
    BY <1>1, <1>4 DEF Busy, Free
  <2>2. Sent(h)' = Sent(h) /\ D(h)' = D(h)
    BY <2>1 DEF Sent, D
  <2>. QED BY <1>2, <2>1, <2>2, SentKnown DEF Good
<1>5. StoredModels' = StoredModels /\ StoredPhyos' = StoredPhyos
  BY <1>2, TablesStay
<1>6. Control'
  BY <1>3, <1>4 DEF Control
<1>7. Unmet'
  <2> SUFFICES ASSUME NEW g \in Handlers, Good(g)'
               PROVE  /\ Proper(Sent(g)')
                      /\ Touches(Sent(g)') \cap Names \cap doubt'[D(g)'] = {}
                      /\ \A k \in Handlers \ {g} :
                           Busy(k)' => Touches(Sent(k)') \cap Touches(Sent(g)') = {}
    BY DEF Unmet
  <2>1. Busy(g)'
    BY DEF Good
  <2>2. Good(g) /\ Sent(g)' = Sent(g) /\ D(g)' = D(g)
    BY <1>4, <2>1
  <2>3. /\ Proper(Sent(g)) /\ Touches(Sent(g)) \cap Names \cap doubt[D(g)] = {}
        /\ \A k \in Handlers \ {g} : Busy(k) => Touches(Sent(k)) \cap Touches(Sent(g)) = {}
    BY <2>2 DEF Agreement, Unmet
  <2>. QED BY <1>2, <1>4, <2>2, <2>3
<1>8. Foreign'
  BY <1>2, <1>3, <1>4 DEF Agreement, Foreign
<1>9. \A f \in Phyos : Sure(f)' => Sure(f) /\ DesignOf(f) # d
  BY <1>2, <1>3, StartAssumption DEF Sure
<1>10. Lasting'
  BY <1>3, <1>4, <1>9 DEF Agreement, Lasting
<1>11. Filed'
  BY <1>2, <1>3 DEF Agreement, Filed
<1>12. \A e \in Designs \ {d} : \A x : Unserved(e, x)' => Unserved(e, x)
  BY <1>1 DEF Unserved, Serves, Busy, Sent, D
<1>13. ModelsSame'
  BY <1>2, <1>3, <1>5, <1>12 DEF Agreement, ModelsSame, SameModel
<1>14. PhyosSame'
  BY <1>2, <1>3, <1>5, <1>9, <1>12, StartAssumption DEF Agreement, PhyosSame, SamePhyo
<1>15. Progressing'
  <2> SUFFICES ASSUME NEW g \in Handlers, Good(g)' PROVE Progress(g)'
    BY DEF Progressing
  <2>1. Busy(g)'
    BY DEF Good
  <2>2. Good(g) /\ Busy(g) /\ D(g) # d /\ D(g) \in Designs /\ req'[g] = req[g]
    BY <1>4, <2>1
  <2>3. Progress(g) /\ OfMessage(req[g])
    BY <2>2 DEF Agreement, Progressing, Control
  <2>. QED BY <1>2, <1>3, <2>2, <2>3, OthersProgress
<1>. QED BY <1>6, <1>7, <1>8, <1>10, <1>11, <1>13, <1>14, <1>15 DEF Agreement

(* A process that starts serves no request yet, and what others are at is  *)
(* in doubt for it.                                                        *)
LEMMA LoadDesignAgrees ==
  ASSUME Typed, Control, Agreement, NEW d \in Designs, LoadDesign(d)
  PROVE  Control' /\ Agreement'
<1> DEFINE own == [f \in Phyos |-> IF DesignOf(f) = d THEN ReadPhyo(f) ELSE None]
           new == { f \in Phyos : phyos[f] = Half }
                  \cup UNION { (Gives(m) \cap Names) \cup Outdated(m, own) : m \in InFlight }
<1>1. up[d] = "down" /\ UNCHANGED <<models, phyos, userModels, req>>
  BY DEF LoadDesign, tables
<1>2. /\ \A e \in Designs : up'[e] = IF e = d THEN "read" ELSE up[e]
      /\ \A e \in Designs \ {d} : doubt'[e] = doubt[e]
      /\ doubt'[d] = new
      /\ \A f \in Phyos : elements'[f] = IF DesignOf(f) = d THEN own[f] ELSE elements[f]
  BY DEF LoadDesign, Typed, TypeOK
<1>3. \A f \in Phyos : DesignOf(f) = d => own[f] = StoredPhyos[f]
  BY DEF StoredPhyos
<1>4. ASSUME NEW h \in Handlers, Busy(h)'
      PROVE  /\ Busy(h) /\ D(h) # d /\ D(h) \in Designs
             /\ Sent(h)' = Sent(h) /\ D(h)' = D(h) /\ (Good(h)' => Good(h))
             /\ Sent(h) \in InFlight
  <2>1. Busy(h) /\ Sent(h)' = Sent(h) /\ D(h)' = D(h)
    BY <1>1, <1>4 DEF Busy, Sent, D
  <2>2. D(h) # d /\ D(h) \in Designs
    BY <1>1, <2>1, SentKnown DEF Control
  <2>3. Sent(h) \in InFlight
    BY <2>1 DEF InFlight, Busy, Sent
  <2>. QED BY <1>2, <2>1, <2>2, <2>3 DEF Good
<1>5. StoredModels' = StoredModels /\ StoredPhyos' = StoredPhyos
  BY <1>1, TablesStay
<1>6. \A m \in InFlight : Gives(m) \cap Names \subseteq new /\ Outdated(m, own) \subseteq new
  OBVIOUS
<1> HIDE DEF new
<1>7. Control'
  BY <1>1, <1>2, <1>4 DEF Control
<1>8. Unmet'
  <2> SUFFICES ASSUME NEW g \in Handlers, Good(g)'
               PROVE  /\ Proper(Sent(g)')
                      /\ Touches(Sent(g)') \cap Names \cap doubt'[D(g)'] = {}
                      /\ \A k \in Handlers \ {g} :
                           Busy(k)' => Touches(Sent(k)') \cap Touches(Sent(g)') = {}
    BY DEF Unmet
  <2>1. Busy(g)'
    BY DEF Good
  <2>2. Good(g) /\ Sent(g)' = Sent(g) /\ D(g)' = D(g) /\ D(g) \in Designs \ {d}
    BY <1>4, <2>1
  <2>3. /\ Proper(Sent(g)) /\ Touches(Sent(g)) \cap Names \cap doubt[D(g)] = {}
        /\ \A k \in Handlers \ {g} : Busy(k) => Touches(Sent(k)) \cap Touches(Sent(g)) = {}
    BY <2>2 DEF Agreement, Unmet
  <2>. QED BY <1>2, <1>4, <2>2, <2>3
<1>9. Foreign'
  <2> SUFFICES ASSUME NEW g \in Handlers, Busy(g)', NEW e \in Designs, e # D(g)', up'[e] # "down"
               PROVE  Gives(Sent(g)') \cap Names \subseteq doubt'[e]
    BY DEF Foreign
  <2>1. CASE e = d
    BY <1>2, <1>4, <1>6, <2>1
  <2>2. CASE e # d
    BY <1>2, <1>4, <2>2 DEF Agreement, Foreign
  <2>. QED BY <2>1, <2>2
<1>10. Lasting'
  <2> SUFFICES ASSUME NEW g \in Handlers, Busy(g)', NEW f \in Phyos, f \notin Gives(Sent(g)'),
                      Sure(f)', elements'[f] # None
               PROVE  elements'[f].model \notin Renamed(Sent(g)')
    BY DEF Lasting
  <2>1. CASE DesignOf(f) = d
    <3>1. f \notin Outdated(Sent(g), own)
      BY <1>2, <1>4, <1>6, <2>1 DEF Sure
    <3>. QED BY <1>2, <1>4, <2>1, <3>1 DEF Outdated
  <2>2. CASE DesignOf(f) # d
    <3>1. Sure(f) /\ elements'[f] = elements[f]
      BY <1>2, <2>2, StartAssumption DEF Sure
    <3>. QED BY <1>4, <3>1 DEF Agreement, Lasting
  <2>. QED BY <2>1, <2>2
<1>11. Filed'
  BY <1>1 DEF Agreement, Filed
<1>12. \A e, x : Unserved(e, x)' => Unserved(e, x)
  BY <1>1 DEF Unserved, Serves, Sent, D
<1>13. ModelsSame'
  BY <1>1, <1>2, <1>5, <1>12 DEF Agreement, ModelsSame, SameModel
<1>14. PhyosSame'
  <2> SUFFICES ASSUME NEW f \in Phyos, Sure(f)', Unserved(DesignOf(f), f)'
               PROVE  elements'[f] = StoredPhyos'[f] /\ phyos'[f] # Half
    BY DEF PhyosSame, SamePhyo
  <2>1. CASE DesignOf(f) = d
    BY <1>1, <1>2, <1>3, <1>5, <2>1 DEF Sure, new
  <2>2. CASE DesignOf(f) # d
    <3>1. Sure(f) /\ elements'[f] = elements[f] /\ Unserved(DesignOf(f), f)
      BY <1>2, <1>12, <2>2, StartAssumption DEF Sure
    <3>. QED BY <1>1, <1>5, <3>1 DEF Agreement, PhyosSame, SamePhyo
  <2>. QED BY <2>1, <2>2
<1>15. Progressing'
  <2> SUFFICES ASSUME NEW g \in Handlers, Good(g)' PROVE Progress(g)'
    BY DEF Progressing
  <2>1. Busy(g)'
    BY DEF Good
  <2>2. Good(g) /\ Busy(g) /\ D(g) # d /\ D(g) \in Designs
    BY <1>4, <2>1
  <2>3. Progress(g) /\ OfMessage(req[g])
    BY <2>2 DEF Agreement, Progressing, Control
  <2>. QED BY <1>1, <1>2, <2>2, <2>3, OthersProgress
<1>. QED BY <1>7, <1>8, <1>9, <1>10, <1>11, <1>13, <1>14, <1>15 DEF Agreement

LEMMA LoadModelsAgrees ==
  ASSUME Typed, Control, Agreement, NEW d \in Designs, LoadModels(d)
  PROVE  Control' /\ Agreement'
<1>1. up[d] = "read" /\ UNCHANGED <<models, phyos, elements, req, doubt>>
  BY DEF LoadModels, tables
<1>2. /\ \A e \in Designs : up'[e] = IF e = d THEN "up" ELSE up[e]
      /\ \A e \in Designs \ {d} : userModels'[e] = userModels[e]
      /\ userModels'[d] = StoredModels
  BY DEF LoadModels, StoredModels, Typed, TypeOK
<1>3. ASSUME NEW h \in Handlers, Busy(h)'
      PROVE  /\ Busy(h) /\ D(h) # d /\ D(h) \in Designs
             /\ Sent(h)' = Sent(h) /\ D(h)' = D(h) /\ (Good(h)' => Good(h))
  <2>1. Busy(h) /\ Sent(h)' = Sent(h) /\ D(h)' = D(h)
    BY <1>1, <1>3 DEF Busy, Sent, D
  <2>2. D(h) # d /\ D(h) \in Designs
    BY <1>1, <2>1, SentKnown DEF Control
  <2>. QED BY <1>1, <2>1, <2>2 DEF Good
<1>4. StoredModels' = StoredModels /\ StoredPhyos' = StoredPhyos
  BY <1>1, TablesStay
<1>5. Control'
  BY <1>1, <1>2, <1>3 DEF Control
<1>6. Unmet'
  <2> SUFFICES ASSUME NEW g \in Handlers, Good(g)'
               PROVE  /\ Proper(Sent(g)')
                      /\ Touches(Sent(g)') \cap Names \cap doubt'[D(g)'] = {}
                      /\ \A k \in Handlers \ {g} :
                           Busy(k)' => Touches(Sent(k)') \cap Touches(Sent(g)') = {}
    BY DEF Unmet
  <2>1. Busy(g)'
    BY DEF Good
  <2>2. Good(g) /\ Sent(g)' = Sent(g) /\ D(g)' = D(g)
    BY <1>3, <2>1
  <2>3. /\ Proper(Sent(g)) /\ Touches(Sent(g)) \cap Names \cap doubt[D(g)] = {}
        /\ \A k \in Handlers \ {g} : Busy(k) => Touches(Sent(k)) \cap Touches(Sent(g)) = {}
    BY <2>2 DEF Agreement, Unmet
  <2>. QED BY <1>1, <1>3, <2>2, <2>3
<1>7. Foreign'
  BY <1>1, <1>2, <1>3 DEF Agreement, Foreign
<1>8. \A f \in Phyos : Sure(f)' => Sure(f)
  BY <1>1, <1>2, StartAssumption DEF Sure
<1>9. Lasting'
  BY <1>1, <1>3, <1>8 DEF Agreement, Lasting
<1>10. Filed'
  <2>1. ReadsAsFiled
    BY Reads DEF Agreement
  <2>. QED BY <1>1, <1>2, <2>1 DEF Agreement, Filed, ReadsAsFiled
<1>11. \A e, x : Unserved(e, x)' => Unserved(e, x)
  BY <1>1 DEF Unserved, Serves, Sent, D
<1>12. ModelsSame'
  BY <1>1, <1>2, <1>4, <1>11 DEF Agreement, ModelsSame, SameModel
<1>13. PhyosSame'
  BY <1>1, <1>4, <1>8, <1>11 DEF Agreement, PhyosSame, SamePhyo
<1>14. Progressing'
  <2> SUFFICES ASSUME NEW g \in Handlers, Good(g)' PROVE Progress(g)'
    BY DEF Progressing
  <2>1. Busy(g)'
    BY DEF Good
  <2>2. Good(g) /\ Busy(g) /\ D(g) # d /\ D(g) \in Designs
    BY <1>3, <2>1
  <2>3. Progress(g) /\ OfMessage(req[g])
    BY <2>2 DEF Agreement, Progressing, Control
  <2>. QED BY <1>1, <1>2, <2>2, <2>3, OthersProgress
<1>. QED BY <1>5, <1>6, <1>7, <1>9, <1>10, <1>12, <1>13, <1>14 DEF Agreement

LEMMA InitAgrees == Init => Control /\ Agreement
<1> SUFFICES ASSUME Init PROVE Control /\ Agreement
  OBVIOUS
<1>1. \A h \in Handlers : ~Busy(h) /\ ~Good(h)
  BY DEF Init, Busy, Good, Free
<1>2. Typed
  BY InitTyped
<1>3. Filed
  <2>1. \A k \in Keys : models[k] # None => k = 1
    BY DEF Init
  <2>2. ASSUME NEW n \in Names, ReadModel(n) # None PROVE ReadModel(n).name = n
    <3>1. ModelKeys(n) # {}
      BY <2>2 DEF ReadModel
    <3>. QED BY <3>1 DEF ReadModel, ModelKeys
  <2>3. \A d \in Designs, n \in Names : userModels[d][n] # None => userModels[d][n].name = n
    BY <2>2 DEF Init
  <2>. QED BY <2>1, <2>3 DEF Filed
<1>4. ModelsSame
  BY DEF ModelsSame, SameModel, StoredModels, Init
<1>5. PhyosSame
  <2>1. \A f \in Phyos : elements[f] = None /\ phyos[f] = None
    BY DEF Init
  <2>2. None # Half
    BY StartAssumption, BoundsAssumption DEF Half
  <2>. QED BY <2>1, <2>2, PhyosRead DEF PhyosSame, SamePhyo
<1>6. Control /\ Unmet /\ Foreign /\ Lasting /\ Progressing
  BY <1>1 DEF Control, Unmet, Foreign, Lasting, Progressing
<1>. QED BY <1>3, <1>4, <1>5, <1>6 DEF Agreement

LEMMA NextAgrees == Typed /\ Typed' /\ Control /\ Agreement /\ [Next]_vars => Control' /\ Agreement'
<1> SUFFICES ASSUME Typed, Typed', Control, Agreement, [Next]_vars PROVE Control' /\ Agreement'
  OBVIOUS
<1>1. ASSUME NEW h \in Handlers, NEW m \in Messages, Receive(h, m) PROVE Control' /\ Agreement'
  BY <1>1, ReceiveAgrees
<1>2. ASSUME NEW h \in Handlers,
             PlaceModel(h) \/ PlacePhyo(h) \/ StoreSettings(h) \/ KeepSettings(h)
             \/ SettingsFail(h) \/ Placed(h)
      PROVE  Control' /\ Agreement'
  BY <1>2, PlaceModelAgrees, PlacePhyoAgrees, StoreSettingsAgrees, KeepSettingsAgrees,
     SettingsFailAgrees, PlacedAgrees
<1>3. ASSUME NEW h \in Handlers,
             StoreModel(h) \/ PhyoId(h) \/ PhyoModel(h) \/ PhyoRow(h) \/ Fail(h)
             \/ Keep(h) \/ Kill(h)
      PROVE  Control' /\ Agreement'
  BY <1>3, StoreModelAgrees, PhyoIdAgrees, PhyoModelAgrees, PhyoRowAgrees, FailAgrees,
     KeepModelAgrees, KeepPhyoAgrees, KillAgrees
<1>4. ASSUME NEW h \in Handlers, TakeIcon(h) \/ StoreIcon(h) \/ CopyIcon(h)
      PROVE  Control' /\ Agreement'
  BY <1>4, TakeIconAgrees, StoreIconAgrees, CopyIconAgrees
<1>5. ASSUME NEW d \in Designs, Die(d) \/ LoadDesign(d) \/ LoadModels(d)
      PROVE  Control' /\ Agreement'
  BY <1>5, DieAgrees, LoadDesignAgrees, LoadModelsAgrees
<1>6. CASE UNCHANGED vars
  <2>1. UNCHANGED <<models, phyos, userModels, elements, up, req, doubt>>
    BY <1>6 DEF vars, tables, memory
  <2>2. StoredModels' = StoredModels /\ StoredPhyos' = StoredPhyos
    BY <2>1, TablesStay
  <2>3. \A h \in Handlers : /\ Busy(h)' = Busy(h) /\ Sent(h)' = Sent(h) /\ D(h)' = D(h)
                            /\ Good(h)' = Good(h)
    BY <2>1 DEF Busy, Sent, D, Good
  <2>4. Control' /\ Unmet' /\ Foreign' /\ Filed'
    <3>1. Control'
      BY <2>1, <2>3 DEF Control
    <3>2. Unmet'
      BY <2>1, <2>3 DEF Agreement, Unmet
    <3>3. Foreign'
      BY <2>1, <2>3 DEF Agreement, Foreign
    <3>4. Filed'
      BY <2>1 DEF Agreement, Filed
    <3>. QED BY <3>1, <3>2, <3>3, <3>4
  <2>5. Lasting'
    BY <2>1, <2>3 DEF Agreement, Lasting, Sure
  <2>6. \A e, x : Unserved(e, x)' => Unserved(e, x)
    BY <2>1 DEF Unserved, Serves, Sent, D
  <2>7. ModelsSame'
    BY <2>1, <2>2, <2>6 DEF Agreement, ModelsSame, SameModel
  <2>8. PhyosSame'
    BY <2>1, <2>2, <2>6 DEF Agreement, PhyosSame, SamePhyo, Sure
  <2>9. Progressing'
    <3> SUFFICES ASSUME NEW g \in Handlers, Good(g)' PROVE Progress(g)'
      BY DEF Progressing
    <3>1. Good(g) /\ Busy(g)
      BY <2>3 DEF Good
    <3>2. Progress(g) /\ OfMessage(req[g])
      BY <3>1 DEF Agreement, Progressing, Control
    <3>. QED BY <2>1, <3>1, <3>2, OthersProgress
  <2>. QED BY <2>4, <2>5, <2>7, <2>8, <2>9 DEF Agreement
<1>. QED BY <1>1, <1>2, <1>3, <1>4, <1>5, <1>6 DEF Next

LEMMA QuietAgrees == Typed /\ Agreement => ModelsDurable /\ PhyosDurable
<1> SUFFICES ASSUME Typed, Agreement PROVE ModelsDurable /\ PhyosDurable
  OBVIOUS
<1>1. ASSUME NEW d \in Designs, Quiet(d), NEW x PROVE up[d] = "up" /\ Unserved(d, x)
  <2>1. \A h \in Handlers : ~Serves(h, d)
    BY <1>1 DEF Quiet, InFlight, Serves, D
  <2>. QED BY <1>1, <2>1 DEF Quiet, Unserved
<1>2. ModelsDurable
  BY <1>1 DEF Agreement, ModelsSame, SameModel, StoredModels, ModelsDurable
<1>3. PhyosDurable
  <2> SUFFICES ASSUME NEW d \in Designs, Quiet(d), NEW f \in Phyos, f \notin doubt[d],
                      DesignOf(f) = d
               PROVE  elements[f] = ReadPhyo(f)
    BY DEF PhyosDurable
  <2>1. Sure(f) /\ Unserved(d, f)
    BY <1>1 DEF Sure
  <2>. QED BY <2>1 DEF Agreement, PhyosSame, SamePhyo, StoredPhyos
<1>. QED BY <1>2, <1>3

LEMMA AgreementHolds == Spec => [](Typed /\ Control /\ Agreement)
<1>1. Init => Typed /\ Control /\ Agreement
  BY InitTyped, InitAgrees
<1>2. Typed /\ Control /\ Agreement /\ [Next]_vars => (Typed /\ Control /\ Agreement)'
  BY NextTyped, NextAgrees
<1>. QED BY <1>1, <1>2, PTL DEF Spec

(* A process that serves no request holds of every model what it would     *)
(* read if it were started again, if something is promised of the name:    *)
(* updates, renames and icons of onUpdate and onModelIco, in any order and *)
(* number, of any number of processes, and whatever dies.                  *)
THEOREM ModelsAreDurable == Spec => []ModelsDurable
<1>1. Typed /\ Control /\ Agreement => ModelsDurable
  BY QuietAgrees
<1>. QED BY <1>1, AgreementHolds, PTL

(* And of every phyo, with the name its model has.                         *)
THEOREM PhyosAreDurable == Spec => []PhyosDurable
<1>1. Typed /\ Control /\ Agreement => PhyosDurable
  BY QuietAgrees
<1>. QED BY <1>1, AgreementHolds, PTL
=============================================================================
