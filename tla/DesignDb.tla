----------------------------- MODULE DesignDb -----------------------------
(***************************************************************************)
(* The tables of the database that hold designs and the statements of      *)
(* addie/db/postgres.go on them.  No statement is ever run in a            *)
(* transaction (beginTx and endTx have no caller), so one statement, or    *)
(* a run of statements nothing can be told to fall between, is one step.   *)
(*                                                                         *)
(* The schema is not part of the repository.  What the code relies on, and *)
(* is assumed of it: a name occurs once in a system, an interface once on  *)
(* a host; a row cannot refer to a missing row, and goes when the row it   *)
(* refers to is deleted ("on cascade delete cleans up everything", says    *)
(* the test of the package).  Keys are serial: none is used twice.         *)
(***************************************************************************)
EXTENDS DesignData

CONSTANT MaxKey   \* bound: identities ever stored

ASSUME MaxKeyAssumption == MaxKey \in Nat

Keys == 1..MaxKey

VARIABLES
  systems,   \* names of the stored systems of the design
  ids,       \* ids: the identity stored under a key
  hosts,     \* computers, switches, routers, saxs: row of a key
  ifaces,    \* interfaces: the interfaces stored for a host
  links,     \* links, plinks: row of a key
  nextKey    \* sequence behind the keys

tables == <<systems, ids, hosts, ifaces, links, nextKey>>

NoInterfaces == [n \in IfNames |-> None]

HostRows == [kind : HostKinds, attr : Attrs]
LinkRows == [kind : LinkKinds,
             attr : Attrs,
             ends : [1..2 -> [host : Keys, ifn : IfNames \cup {None}]]]

ASSUME RowAssumption == None \notin HostRows \cup LinkRows

DbTypeOK ==
  /\ systems \subseteq Systems
  /\ ids \in [Keys -> Id \cup {None}]
  /\ hosts \in [Keys -> HostRows \cup {None}]
  /\ ifaces \in [Keys -> Interfaces]
  /\ links \in [Keys -> LinkRows \cup {None}]
  /\ nextKey \in 1..MaxKey + 1

(* A new design has one system and no elements. *)
DbInit(root) ==
  /\ systems = {root}
  /\ ids = [k \in Keys |-> None]
  /\ hosts = [k \in Keys |-> None]
  /\ ifaces = [k \in Keys |-> NoInterfaces]
  /\ links = [k \in Keys |-> None]
  /\ nextKey = 1

---------------------------------------------------------------------------
(* Reading.                                                                *)

(* ReadIdKey: the key an identity is stored under, if it is. *)
IsIdKey(i, k) == ids[k] = i
Taken(i) == \E k \in Keys : IsIdKey(i, k)

(* No other row has the identity. *)
FreeFor(k, i) == \A j \in Keys \ {k} : ids[j] # i

(* Mutant of EndFound: the interface is not looked up. *)
HostFound(end, k) == IsIdKey(end.host, k)

(* ReadIdKey, and for a link ReadInterfaceKey, of one end. *)
EndFound(end, k) ==
  /\ IsIdKey(end.host, k)
  /\ end.ifn # None => ifaces[k][end.ifn] # None

EndsFound(e) == \A n \in 1..2 : \E k \in Keys : EndFound(e.ends[n], k)

(* The keys CreateLink, UpdateLink, CreatePlink and UpdatePlink store for  *)
(* the ends of e.                                                          *)
EndKeys(e) ==
  [n \in 1..2 |-> [host |-> CHOOSE k \in Keys : EndFound(e.ends[n], k),
                   ifn  |-> e.ends[n].ifn]]

(* The table of the kind has a row for the key. *)
HasHostRow(k, kind) == hosts[k] # None /\ hosts[k].kind = kind
HasLinkRow(k, kind) == links[k] # None /\ links[k].kind = kind

HostAt(k) == [id |-> ids[k], kind |-> hosts[k].kind, attr |-> hosts[k].attr,
              ifs |-> ifaces[k]]

LinkAt(k) ==
  [id |-> ids[k], kind |-> links[k].kind, attr |-> links[k].attr,
   ends |-> [n \in 1..2 |-> [host |-> ids[links[k].ends[n].host],
                             ifn  |-> links[k].ends[n].ifn]]]

(* ReadDesign: every row of an element's table, joined with its identity   *)
(* and its interfaces, in a map from identities.                           *)
ReadDesign ==
  [i \in Id |->
    IF \E k \in Keys : ids[k] = i /\ hosts[k] # None
    THEN HostAt(CHOOSE k \in Keys : ids[k] = i /\ hosts[k] # None)
    ELSE IF \E k \in Keys : ids[k] = i /\ links[k] # None
    THEN LinkAt(CHOOSE k \in Keys : ids[k] = i /\ links[k] # None)
    ELSE None]

---------------------------------------------------------------------------
(* Writing: one operator per statement, for the case it succeeds.          *)

CreateId(i, k) ==
  /\ k = nextKey /\ k \in Keys
  /\ i.sys \in systems
  /\ ~Taken(i)
  /\ ids' = [ids EXCEPT ![k] = i]
  /\ nextKey' = k + 1
  /\ UNCHANGED <<systems, hosts, ifaces, links>>

(* INSERT INTO interfaces. *)
CreateInterface(k, n, c) ==
  /\ ids[k] # None
  /\ ifaces[k][n] = None
  /\ ifaces' = [ifaces EXCEPT ![k][n] = c]
  /\ UNCHANGED <<systems, ids, hosts, links, nextKey>>

(* INSERT INTO computers, switches, routers or saxs. *)
InsertHost(k, e) ==
  /\ ids[k] # None
  /\ hosts' = [hosts EXCEPT ![k] = [kind |-> e.kind, attr |-> e.attr]]
  /\ UNCHANGED <<systems, ids, ifaces, links, nextKey>>

(* The reads of both ends, then INSERT INTO links or plinks. *)
InsertLink(k, e) ==
  /\ ids[k] # None
  /\ EndsFound(e)
  /\ links' = [links EXCEPT ![k] = [kind |-> e.kind, attr |-> e.attr,
                                    ends |-> EndKeys(e)]]
  /\ UNCHANGED <<systems, ids, hosts, ifaces, nextKey>>

(* INSERT INTO systems, which UpdateId does when it finds none. *)
CreateSystem(sys) ==
  /\ sys \notin systems
  /\ systems' = systems \cup {sys}
  /\ UNCHANGED <<ids, hosts, ifaces, links, nextKey>>

(* UpdateId: UPDATE ids SET sys_id, then UPDATE ids SET name.  Either is   *)
(* refused where it meets an identity that is taken, and changes nothing   *)
(* where the row is gone.                                                  *)
MoveAllowed(k, sys) ==
  ids[k] # None => FreeFor(k, [ids[k] EXCEPT !.sys = sys])

MoveToSystem(k, sys) ==
  /\ MoveAllowed(k, sys)
  /\ ids' = [ids EXCEPT ![k] = IF @ # None THEN [@ EXCEPT !.sys = sys] ELSE @]
  /\ UNCHANGED <<systems, hosts, ifaces, links, nextKey>>

RenameAllowed(k, name) ==
  ids[k] # None => FreeFor(k, [ids[k] EXCEPT !.name = name])

Rename(k, name) ==
  /\ RenameAllowed(k, name)
  /\ ids' = [ids EXCEPT ![k] = IF @ # None THEN [@ EXCEPT !.name = name] ELSE @]
  /\ UNCHANGED <<systems, hosts, ifaces, links, nextKey>>

(* UpdateComputer, UpdateSwitch, UpdateRouter, UpdateSax after UpdateId. *)
UpdateHostRow(k, e) ==
  /\ HasHostRow(k, e.kind)
  /\ hosts' = [hosts EXCEPT ![k].attr = e.attr]
  /\ UNCHANGED <<systems, ids, ifaces, links, nextKey>>

(* UpdateLink, first statement after UpdateId: the packet conductor. *)
UpdateLinkRow(k, e) ==
  /\ HasLinkRow(k, e.kind)
  /\ links' = [links EXCEPT ![k].attr = e.attr]
  /\ UNCHANGED <<systems, ids, hosts, ifaces, nextKey>>

(* The reads of both ends, then UPDATE links. *)
UpdateLinkEnds(k, e) ==
  /\ EndsFound(e)
  /\ links' = [links EXCEPT ![k] = IF HasLinkRow(k, e.kind)
                                   THEN [@ EXCEPT !.ends = EndKeys(e)] ELSE @]
  /\ UNCHANGED <<systems, ids, hosts, ifaces, nextKey>>

(* UpdatePlink after UpdateId: ends and bindings in one statement. *)
UpdatePlinkRow(k, e) ==
  /\ EndsFound(e)
  /\ links' = [links EXCEPT ![k] = IF HasLinkRow(k, e.kind)
                                   THEN [@ EXCEPT !.attr = e.attr, !.ends = EndKeys(e)]
                                   ELSE @]
  /\ UNCHANGED <<systems, ids, hosts, ifaces, nextKey>>

(* DELETE FROM ids, and what goes with the row: its host or link row, its  *)
(* interfaces, the links that end in it.  The identity of such a link      *)
(* stays.                                                                  *)
RowGone(i, k) == ids[k] = i
LinkGone(i, k) ==
  \/ RowGone(i, k)
  \/ links[k] # None /\ \E n \in 1..2 : RowGone(i, links[k].ends[n].host)

DeleteId(i) ==
  /\ ids' = [k \in Keys |-> IF RowGone(i, k) THEN None ELSE ids[k]]
  /\ hosts' = [k \in Keys |-> IF RowGone(i, k) THEN None ELSE hosts[k]]
  /\ ifaces' = [k \in Keys |-> IF RowGone(i, k) THEN NoInterfaces ELSE ifaces[k]]
  /\ links' = [k \in Keys |-> IF LinkGone(i, k) THEN None ELSE links[k]]
  /\ UNCHANGED <<systems, nextKey>>

===========================================================================
