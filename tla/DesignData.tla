---------------------------- MODULE DesignData ----------------------------
(***************************************************************************)
(* The data model of a Cypress design, as addie/model.go declares it and   *)
(* as far as the storage of designs tells its values apart.                *)
(*                                                                         *)
(* A process of addie serves one design, so an identity is a name and the  *)
(* system it belongs to.  Positions, capacities, operating systems, start  *)
(* scripts, bindings: everything that is copied and never looked at is one *)
(* attribute of the element.                                               *)
(***************************************************************************)
EXTENDS Naturals

CONSTANTS
  Names,       \* names of elements
  Systems,     \* names of systems
  Attrs,       \* values of the attributes that are only copied
  IfNames,     \* names of network interfaces
  Conductors,  \* capacity and latency of an interface
  None         \* absent: no element, no row, no interface

Id == [name : Names, sys : Systems]

ASSUME NoneAssumption == None \notin Id /\ None \notin Conductors

(* Elements with network interfaces, by what becomes of the interfaces     *)
(* when the element is created: CreateComputer stores them, the others do  *)
(* not.                                                                    *)
HostKinds == {"Computer", "Switch", "Router", "Sax"}

(* Links join two interfaces, plinks two elements. *)
LinkKinds == {"Link", "Plink"}

(* Accepted by the update handler, but no table of the database holds them. *)
UnsupportedKinds == {"Sensor", "Actuator"}

Interfaces == [IfNames -> Conductors \cup {None}]

NodeElements == [id   : Id,
                 kind : HostKinds \cup UnsupportedKinds,
                 attr : Attrs,
                 ifs  : Interfaces]

(* One end of a link: an interface of an element; of a plink: an element. *)
Ends == [host : Id, ifn : IfNames \cup {None}]

LinkElements == [id   : Id,
                 kind : LinkKinds,
                 attr : Attrs,
                 ends : [1..2 -> Ends]]

Elements == NodeElements \cup LinkElements

ASSUME ElementAssumption == None \notin Elements

IsLink(e) == e.kind \in LinkKinds
IsHost(e) == e.kind \in HostKinds
===========================================================================
