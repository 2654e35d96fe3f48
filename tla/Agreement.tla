------------------------------ MODULE Agreement ------------------------------
(***************************************************************************)
(* Why, for clients that are consistent and keep apart, the two copies of  *)
(* a design that DesignStore keeps agree: the inductive invariant behind   *)
(* Durable and AtomicSpec, which AtomicProofs shows to be one.             *)
(*                                                                         *)
(* MapView is about the handlers and what a client sees of the map, which  *)
(* only the loops of the handlers change.  TableView is about the database *)
(* and what each handler knows of it between two statements.               *)
(***************************************************************************)
EXTENDS DesignStore

(* Work received and not yet shown; the identities it gives up.            *)
Undone(h) == pending[h] \cup AtHand(h)

Leaving(w) == IF w.act = "delete" THEN {w.oid} ELSE Spot(w) \ {w.e.id}

(* Element f is what the end of a link needs.                              *)
EndFits(end, f) ==
  f # None /\ IsHost(f) /\ (end.ifn # None => f.ifs[end.ifn] # None)

(* The identities a link or a plink joins.                                 *)
Joins(f) ==
  IF f # None /\ IsLink(f) THEN { f.ends[n].host : n \in 1..2 } ELSE {}

Reach(h) == UNION { Touches(w) : w \in placed[h] }

---------------------------------------------------------------------------
(* The map.                                                                *)

(* What a handler has still to do is part of its message, a message        *)
(* deletes or updates, and the work at hand was as early as any.           *)
Handling == \A h \in Handlers :
  /\ ~up => pc[h] = "idle"
  /\ pc[h] = "idle" => pending[h] = {} /\ placed[h] = {} /\ kills[h] = {}
  /\ Undone(h) \subseteq placed[h] /\ AtHand(h) \cap pending[h] = {}
  /\ kills[h] = { w.oid : w \in { w \in placed[h] : w.act # "delete" /\ w.e.id # w.oid } }
  /\ pc[h] \in {"drop", "hide"} => item[h].act = "delete"
  /\ pc[h] \in Stages \ {"idle", "apply", "drop", "hide"} => item[h].act # "delete"
  /\ \A v \in pending[h], w \in AtHand(h) : w.act # "delete" => w.rank <= v.rank

(* The identities of a message do not meet, and what its links end in has  *)
(* its turn before them and stays.                                         *)
Distinct(v, w) ==
  v.oid # w.oid /\ v.e.id # w.e.id /\ v.e.id # w.oid /\ v.e.id # Halfway(w)

Supports(v, w) ==
  /\ ~IsLink(v.e) => v.rank < w.rank
  /\ \A n \in 1..2 :
       /\ w.e.ends[n].host \notin Leaving(v)
       /\ v.e.id = w.e.ends[n].host => EndFits(w.e.ends[n], v.e)

Compatible(v, w) ==
  /\ v # w => Distinct(v, w)
  /\ w.act = "delete" => w.oid = w.e.id /\ v.act = "delete"
  /\ w.e.kind \notin UnsupportedKinds
  /\ w.act # "delete" /\ IsLink(w.e) => Supports(v, w)

Messages == \A h \in Handlers : \A v, w \in placed[h] : Compatible(v, w)

KeptApart ==
  \A g, h \in Handlers : g # h =>
    \A v \in placed[g], w \in placed[h] :
      /\ Touches(v) \cap Touches(w) = {}
      /\ w.e.id.sys \notin systems => v.e.id.sys # w.e.id.sys

(* What is still to be done fits the design as it is seen by now.          *)
Fits(w) ==
  LET was == SeenDesign[w.oid] IN
  /\ w.e.id # w.oid => w.act = "update" /\ SeenDesign[w.e.id] = None
  /\ Halfway(w) # w.oid => SeenDesign[Halfway(w)] = None
  /\ w.act = "create" =>
       /\ was = None /\ w.e.id.sys \in systems
       /\ IsHost(w.e) => w.e.kind = "Computer" \/ w.e.ifs = NoInterfaces
  /\ w.act = "update" =>
       /\ was # None /\ was.kind = w.e.kind
       /\ IsHost(w.e) =>
            \A n \in IfNames : was.ifs[n] # None => w.e.ifs[n] = was.ifs[n]

Fitting == \A h \in Handlers : \A w \in Undone(h) : w.act # "delete" => Fits(w)

(* A link that is seen to end in what a handler is to rename or delete is  *)
(* to be updated or deleted by the same handler.                           *)
Followed ==
  \A h \in Handlers : \A w \in Undone(h) : \A i \in Id :
    Joins(SeenDesign[i]) \cap Leaving(w) # {} =>
      \E v \in Undone(h) : Follows(v) /\ v.oid = i

(* What a link is to end in is seen, or still to be done.                  *)
Founded ==
  \A h \in Handlers : \A w \in Undone(h) :
    w.act # "delete" /\ IsLink(w.e) =>
      \A n \in 1..2 :
        \/ EndFits(w.e.ends[n], SeenDesign[w.e.ends[n].host])
        \/ \E v \in Undone(h) : v.e.id = w.e.ends[n].host

OldSeen ==
  \A h \in Handlers :
    pc[h] \notin {"idle", "apply"} /\ item[h].act = "update" =>
      old[h] = SeenDesign[item[h].oid]

MapView ==
  Handling /\ Messages /\ KeptApart /\ Fitting /\ Followed /\ Founded /\ OldSeen

---------------------------------------------------------------------------
(* The database.                                                           *)

(* The database holds of i what is seen of it, and no stray identity.      *)
Same(i) ==
  /\ ReadDesign[i] = SeenDesign[i]
  /\ SeenDesign[i] = None => ~Taken(i)

(* Identities the database may be ahead with, or has half of.              *)
BusyWith(h) ==
  (UNION { Spot(w) : w \in AtHand(h) })
    \cup { w.oid : w \in { w \in pending[h] : Follows(w) } }

Busy == UNION { BusyWith(h) : h \in Handlers }

Agreed == \A i \in Id \ (spoiled \cup Busy) : Same(i)

(* Of an element to be updated there is a row to update; a link's ends in  *)
(* what it is seen to end in, or in what the handler has made of that.     *)
EndName(k, n) == ids[links[k].ends[n].host]

Row(h, k, w) ==
  IF IsLink(w.e)
  THEN /\ HasLinkRow(k, w.e.kind)
       /\ \A n \in 1..2 : EndName(k, n) \in Joins(SeenDesign[w.oid]) \cup Reach(h)
  ELSE HasHostRow(k, w.e.kind)

Linked ==
  \A h \in Handlers : \A w \in pending[h] :
    w.act = "update" /\ IsLink(w.e) /\ w.oid \notin spoiled =>
      \E k \in Keys : ids[k] = w.oid /\ Row(h, k, w)

(* The identity under the key that a handler holds.                        *)
Current(h) ==
  CASE pc[h] \in {"newsys", "sys"} -> item[h].oid
    [] pc[h] = "name" -> Halfway(item[h])
    [] OTHER -> item[h].e.id

KeyStages == {"newsys", "sys", "name", "row", "ends"}

KeyHeld ==
  \A h \in Handlers : pc[h] \in KeyStages =>
    /\ ids[key[h]] = Current(h)
    /\ pc[h] \in {"newsys", "sys"} => item[h].oid.sys # item[h].e.id.sys
    /\ pc[h] = "name" => item[h].oid.name # item[h].e.id.name

(* Work at hand that has to do with a spoiled identity has spoiled its own.*)
Good(w) == Touches(w) \cap spoiled = {}

Tainted ==
  \A h \in Handlers : \A w \in AtHand(h) : Good(w) \/ Spot(w) \subseteq spoiled

BareKeys == \A k \in Keys : ids[k] = None => ifaces[k] = NoInterfaces

(* What the database holds, at each stage, of good work at hand: none of   *)
(* its identities but the current one, and so much of its row that no      *)
(* statement is refused.                                                   *)
FreeBut(w, i) == \A x \in Spot(w) \ {i} : ~Taken(x)

Filled(h) ==
  IsHost(item[h].e) =>
    \A n \in IfNames :
      ifaces[key[h]][n] = IF n \in left[h] THEN None ELSE item[h].e.ifs[n]

RowFound(h) ==
  \E k \in Keys :
    /\ ids[k] = item[h].oid /\ Row(h, k, item[h])
    /\ IsHost(item[h].e) => ifaces[k] = old[h].ifs

Held(h) ==
  /\ pc[h] = "id" /\ item[h].act = "create" => ~Taken(item[h].oid)
  /\ pc[h] = "id" /\ item[h].act = "update" => FreeBut(item[h], item[h].oid) /\ RowFound(h)
  /\ pc[h] = "newsys" => item[h].e.id.sys \notin systems
  /\ pc[h] \in KeyStages =>
       /\ FreeBut(item[h], Current(h)) /\ Filled(h)
       /\ item[h].act = "update" => Row(h, key[h], item[h])
  /\ pc[h] = "ends" => links[key[h]].attr = item[h].e.attr
  /\ pc[h] = "show" => FreeBut(item[h], item[h].e.id) /\ ReadDesign[item[h].e.id] = item[h].e
  /\ pc[h] = "hide" => ~Taken(item[h].oid)

Holding ==
  \A h \in Handlers : pc[h] \notin {"idle", "apply"} /\ Good(item[h]) => Held(h)

TableView == Agreed /\ Linked /\ KeyHeld /\ Tainted /\ BareKeys /\ Holding

AgreementInv == IInv /\ MapView /\ TableView
===============================================================================
