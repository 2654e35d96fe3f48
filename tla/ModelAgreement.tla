---------------------------- MODULE ModelAgreement ----------------------------
(***************************************************************************)
(* Why the processes of ModelStore hold of models and phyos what is        *)
(* stored: the inductive invariant behind ModelsDurable and PhyosDurable,  *)
(* which ModelStoreProofs shows to be one.                                 *)
(*                                                                         *)
(* A request is good unless nothing is promised of what it gives.  A good  *)
(* request meets no other one, so what is held and what is stored of its   *)
(* names and phyos differ only by how far it has come (Progress).          *)
(***************************************************************************)
EXTENDS ModelStore, SequencesExt

Busy(h) == req[h].pc # "free"
Serves(h, d) == req[h].pc # "free" /\ D(h) = d
Sent(h) == req[h].msg

Placings == {"place", "settings"}
Storings == {"model", "id", "key", "row", "keep", "kill"}

ModelItems(m) == Items(m, {"model"})
PhyoItems(m) == Items(m, {"phyo"})

StoredModels == [n \in Names |-> ReadModel(n)]
StoredPhyos == [f \in Phyos |-> ReadPhyo(f)]

(* Of the names and phyos it gives, something is promised.                 *)
Good(h) == Busy(h) /\ ~(Gives(Sent(h)) \ Designs \subseteq doubt[D(h)])

---------------------------------------------------------------------------
(* A request has only what is of its message, and all of it: phyos after   *)
(* models.                                                                 *)

OfMessage(r) ==
  /\ ToSet(r.rest) \subseteq ToSet(r.msg.items)
  /\ ToSet(r.models) \cup ToSet(r.newModels) \subseteq ModelItems(r.msg)
  /\ ToSet(r.nodes) \cup ToSet(r.newNodes) \subseteq PhyoItems(r.msg)
  /\ r.kill \subseteq Renamed(r.msg)
  /\ Items(r.msg, {"icon"}) # {} => r.rest = r.msg.items

PhyosLast(q) == \A j, k \in DOMAIN q : j < k /\ q[j].kind = "phyo" => q[k].kind = "phyo"

Complete(r) ==
  /\ r.pc \in Placings =>
       /\ ModelItems(r.msg) \subseteq ToSet(r.rest) \cup ToSet(r.models) \cup ToSet(r.newModels)
       /\ PhyoItems(r.msg) \subseteq ToSet(r.rest) \cup ToSet(r.nodes) \cup ToSet(r.newNodes)
       /\ \A x \in ModelItems(r.msg) :
            x.oid # x.e.name => x \in ToSet(r.rest) \/ x.oid \in r.kill
  /\ r.pc \in Storings =>
       /\ ToSet(r.queue) \subseteq ModelItems(r.msg) \cup PhyoItems(r.msg)
       /\ r.rest = << >> /\ r.kill = Renamed(r.msg) /\ PhyosLast(r.queue)
  /\ r.pc = "kill" => r.queue = << >>
  /\ r.pc = "icon" =>
       Head(r.queue).oid = Head(r.rest).name /\ Head(r.queue).e.name = Head(r.rest).name

Control ==
  \A h \in Handlers : Busy(h) =>
    up[D(h)] = "up" /\ OfMessage(req[h]) /\ Complete(req[h])

---------------------------------------------------------------------------
(* A good request is consistent, and meets nothing.                        *)

Proper(m) ==
  /\ Given(m) \cap Renamed(m) = {} /\ Refers(m) \cap Renamed(m) = {}
  /\ \A x, y \in ModelItems(m) : x # y => x.oid # y.oid /\ x.e.name # y.e.name
  /\ \A x, y \in PhyoItems(m) : x # y => x.e.id # y.e.id

Unmet ==
  \A h \in Handlers : Good(h) =>
    /\ Proper(Sent(h))
    /\ Touches(Sent(h)) \cap Names \cap doubt[D(h)] = {}
    /\ \A g \in Handlers \ {h} : Busy(g) => Touches(Sent(g)) \cap Touches(Sent(h)) = {}

(* What other processes are at is in doubt; and so are phyos whose model   *)
(* is to go by another name.                                               *)
Foreign ==
  \A h \in Handlers : Busy(h) =>
    \A d \in Designs \ {D(h)} : up[d] # "down" => Gives(Sent(h)) \cap Names \subseteq doubt[d]

Sure(f) == up[DesignOf(f)] # "down" /\ f \notin doubt[DesignOf(f)]

Lasting ==
  \A h \in Handlers : Busy(h) =>
    \A f \in Phyos \ Gives(Sent(h)) :
      Sure(f) /\ elements[f] # None => elements[f].model \notin Renamed(Sent(h))

---------------------------------------------------------------------------
(* Models are filed under their names, and what no request is at is held   *)
(* as it is stored.                                                        *)

Filed ==
  /\ \A j, k \in Keys :
       models[j] # None /\ models[k] # None /\ models[j].name = models[k].name => j = k
  /\ \A d \in Designs, n \in Names : userModels[d][n] # None => userModels[d][n].name = n

SameModel(d, n) == userModels[d][n] = StoredModels[n]
SamePhyo(f) == elements[f] = StoredPhyos[f] /\ phyos[f] # Half

Unserved(d, x) == \A h \in Handlers : Serves(h, d) => x \notin Gives(Sent(h))

ModelsSame ==
  \A d \in Designs : up[d] = "up" =>
    \A n \in Names \ doubt[d] : Unserved(d, n) => SameModel(d, n)

PhyosSame ==
  \A f \in Phyos : Sure(f) /\ Unserved(DesignOf(f), f) => SamePhyo(f)

---------------------------------------------------------------------------
(* How far a good request has come.                                        *)

Held(h, n) == userModels[D(h)][n]

(* A model that is to be stored, is stored, and is held too.               *)
ModelTodo(h, x) ==
  /\ SameModel(D(h), x.oid) /\ SameModel(D(h), x.e.name)
  /\ x.oid # x.e.name => Held(h, x.e.name) = None
  /\ x \in ToSet(req[h].newModels) <=> Held(h, x.oid) = None

ModelStored(x) ==
  StoredModels[x.e.name] = x.e /\ (x.oid # x.e.name => StoredModels[x.oid] = None)

ModelDone(h, x) == ModelStored(x) /\ Held(h, x.e.name) = x.e

(* The same of a phyo, whose model may be renamed before its turn comes.   *)
PhyoTodo(h, y) ==
  /\ elements[y.e.id] = None <=> phyos[y.e.id] = None
  /\ phyos[y.e.id] # Half
  /\ y \in ToSet(req[h].newNodes) <=> elements[y.e.id] = None

PhyoStored(y) == StoredPhyos[y.e.id] = y.e
PhyoDone(y) == PhyoStored(y) /\ elements[y.e.id] = y.e

Sorting(h) ==
  /\ \A n \in Gives(Sent(h)) \cap Names : SameModel(D(h), n)
  /\ \A x \in ModelItems(Sent(h)) : x.oid # x.e.name => Held(h, x.e.name) = None
  /\ \A x \in ToSet(req[h].models) : Held(h, x.oid) # None
  /\ \A x \in ToSet(req[h].newModels) : Held(h, x.oid) = None
  /\ \A f \in (Gives(Sent(h)) \cap Phyos) \ doubt[D(h)] : SamePhyo(f)
  /\ \A y \in ToSet(req[h].nodes) : elements[y.e.id] # None
  /\ \A y \in ToSet(req[h].newNodes) : elements[y.e.id] = None

(* What of the queue no statement was executed for.                        *)
Waiting(h) ==
  ToSet(req[h].queue) \ (IF req[h].pc \in {"key", "row", "keep"} THEN {X(h)} ELSE {})

ModelsCome(h) ==
  \A x \in ModelItems(Sent(h)) :
    \/ ModelDone(h, x)
    \/ x \in Waiting(h) /\ ModelTodo(h, x)
    \/ req[h].pc = "keep" /\ x = X(h) /\ ModelStored(x)

PhyosCome(h) ==
  \A y \in PhyoItems(Sent(h)) : y.e.id \notin doubt[D(h)] =>
    \/ PhyoDone(y)
    \/ y \in Waiting(h) /\ PhyoTodo(h, y)
    \/ req[h].pc \in {"key", "row"} /\ y = X(h)
    \/ req[h].pc = "keep" /\ y = X(h) /\ PhyoStored(y)

Progress(h) ==
  /\ \A n \in Refers(Sent(h)) \ Given(Sent(h)) : StoredModels[n] # None
  /\ req[h].pc \in Placings => Sorting(h)
  /\ req[h].pc \in Storings => ModelsCome(h) /\ PhyosCome(h)
  /\ req[h].pc = "row" => models[req[h].key].name = X(h).e.model
  /\ req[h].pc = "icon" =>
       Held(h, Item(h).name) = X(h).e /\ StoredModels[Item(h).name] # None
  /\ req[h].pc = "web" => SameModel(D(h), Item(h).name)

Progressing == \A h \in Handlers : Good(h) => Progress(h)

Agreement == Unmet /\ Foreign /\ Lasting /\ Filed /\ ModelsSame /\ PhyosSame /\ Progressing
===============================================================================
