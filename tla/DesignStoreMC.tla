--------------------------- MODULE DesignStoreMC ---------------------------
(***************************************************************************)
(* Messages and constants for the model checking of DesignStore.  The      *)
(* elements a and b can be joined, by a link or by a plink; names and      *)
(* systems are few enough to collide.                                      *)
(***************************************************************************)
EXTENDS DesignStore

MCNames == {"a", "b", "l"}
MCSystems == {"root", "s2"}
MCIfNames == {"eth0"}
MCConductors == {1, 2}

InRoot(n) == [name |-> n, sys |-> "root"]
InS2(n) == [name |-> n, sys |-> "s2"]

Bare == [n \in MCIfNames |-> None]
Wired(c) == [n \in MCIfNames |-> c]

Node(kind, id, attr, ifs) == [id |-> id, kind |-> kind, attr |-> attr, ifs |-> ifs]
Computer(id, attr, ifs) == Node("Computer", id, attr, ifs)

End(id) == [host |-> id, ifn |-> "eth0"]
Link(id, attr, i, j) ==
  [id |-> id, kind |-> "Link", attr |-> attr, ends |-> <<End(i), End(j)>>]
PlinkEnd(id) == [host |-> id, ifn |-> None]
Plink(id, attr, i, j) ==
  [id |-> id, kind |-> "Plink", attr |-> attr,
   ends |-> <<PlinkEnd(i), PlinkEnd(j)>>]

Put(e) == [oid |-> e.id, e |-> e]
Over(oid, e) == [oid |-> oid, e |-> e]

a == InRoot("a")
b == InRoot("b")
l == InRoot("l")

(* Two clients side by side, which edit, rename, move and delete, one      *)
(* change or several at once: one a and the link l, the other c and the    *)
(* plink b.  Both may come to need the system s2.                          *)
FourNames == MCNames \cup {"c"}
c == InRoot("c")

ApartUpdates ==
  { <<Put(Computer(a, 1, Wired(1)))>>,
    <<Put(Link(l, 1, a, a)), Put(Computer(a, 1, Wired(1)))>>,
    <<Put(Link(l, 2, a, a))>>,
    <<Over(l, Link(InS2("l"), 2, InS2("b"), InS2("b"))),
      Over(a, Computer(InS2("b"), 2, Wired(1)))>>,
    <<Over(a, Computer(InS2("a"), 1, Wired(1)))>>,
    <<Put(Computer(c, 1, Bare))>>,
    <<Put(Computer(c, 2, Wired(2)))>>,
    <<Over(c, Computer(InS2("c"), 1, Wired(2)))>>,
    <<Put(Node("Router", c, 1, Bare)), Put(Plink(b, 1, c, c))>>,
    <<Put(Node("Router", c, 2, Wired(1))), Put(Plink(b, 2, c, c))>> }

ApartDeletes ==
  { {Computer(a, 1, Wired(1))},
    {Computer(a, 1, Wired(1)), Link(l, 1, a, a)},
    {Computer(c, 1, Bare)},
    {Plink(b, 1, c, c), Node("Router", c, 1, Bare)} }

(* A client that sends what it likes: an identity with two types, two      *)
(* elements that swap or pass on their names, elements no table holds,     *)
(* links without ends, nodes deleted under their links.                    *)
AnyUpdates ==
  { <<Put(Computer(a, 1, Wired(1)))>>,
    <<Put(Link(l, 1, a, a))>>,
    <<Put(Node("Router", a, 2, Bare))>>,
    <<Put(Plink(a, 1, b, b))>>,
    <<Over(a, Computer(b, 1, Wired(1)))>>,
    <<Over(b, Computer(InS2("a"), 2, Wired(2))), Put(Node("Sensor", b, 1, Bare))>>,
    <<Over(a, Computer(b, 1, Wired(1))), Over(b, Computer(a, 2, Wired(1)))>> }

NoDeletes == {}

AnyDeletes ==
  { {Computer(a, 1, Wired(1))},
    {Computer(b, 1, Wired(1)), Link(l, 1, a, a)},
    {Plink(a, 1, b, b), Node("Sensor", b, 1, Bare)} }

(* Findings: a node in a system that does not exist; an interface that     *)
(* changes its conductor.                                                  *)
UnknownSystemUpdates == { <<Put(Computer(InS2("a"), 1, Wired(1)))>> }

ConductorUpdates ==
  { <<Put(Computer(a, 1, Wired(1)))>>, <<Put(Computer(a, 1, Wired(2)))>> }

==========================================================================
