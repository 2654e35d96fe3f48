----------------------------- MODULE CompileMC -----------------------------
(* Designs of the kinds of element a compilation treats differently.       *)
EXTENDS Compile, TLC

CONSTANTS r, q, x, c, s, h, p, l, m, n, o

(* Of two systems with one name: a router and what is on a switch; and a   *)
(* link and a switch.                                                      *)
Names ==
  [i \in Id |-> CASE i \in {q, x} -> "qx" [] i \in {l, s} -> "ls"
                  [] OTHER -> ToString(i)]

(* Two names that are one up to the first dot: rc.1 and rc.2, say.         *)
Labels == [i \in Id |-> IF i \in {r, c} THEN "rc" ELSE Names[i]]

NoElements == [i \in Id |-> None]

Router(ifs) == [kind |-> "Router", ifs |-> ifs]
Link(a, f, b, g) == [kind |-> "Link", ends |-> <<[id |-> a, ifname |-> f], [id |-> b, ifname |-> g]>>]
Plink(a, va, b, vb) ==
  [kind |-> "Plink", ends |-> <<a, b>>,
   binds |-> <<[vars |-> va, trailing |-> FALSE], [vars |-> vb, trailing |-> FALSE]>>]
Computer == [kind |-> "Computer", ifs |-> {"e0"}]
Switch == [kind |-> "Switch"]
Phyo == [kind |-> "Phyo"]

Entry(v, by) == [var |-> v, by |-> by]
Both == {"sema", "sim"}
Reads(v) == <<Entry(v, Both)>>
Sax(ifs, sense, actuate) == [kind |-> "Sax", ifs |-> ifs, sense |-> sense, actuate |-> actuate]
Good == Sax({"e0"}, <<Reads("y")>>, <<Reads("u")>>)

(* Two routers, one of them with a computer.                               *)
Routers ==
  r :> Router({"e0", "e1"}) @@ q :> Router({"e0"}) @@ c :> Computer
  @@ l :> Link(r, "e0", q, "e0") @@ m :> Link(c, "e0", r, "e1")
  @@ NoElements
(* A router, a computer and a controller on a switch.                      *)
Switched ==
  r :> Router({"e1"}) @@ s :> Switch @@ c :> Computer @@ x :> Good
  @@ m :> Link(s, "", r, "e1") @@ n :> Link(c, "e0", s, "") @@ o :> Link(x, "e0", s, "")
  @@ NoElements
(* A physical object, sensed and actuated.                                 *)
Loop == x :> Good @@ h :> Phyo @@ p :> Plink(h, <<"a", "b">>, x, <<"y", "u">>) @@ NoElements
Put(d, i, e) == [d EXCEPT ![i] = e]
(* Two hosts of one name; two computers whose keys go to one file; and a   *)
(* link and a switch of one name.                                          *)
OneHostName ==
  [Switched EXCEPT ![c] = None, ![r] = None, ![m] = None,
                   ![q] = Router({"e0"}), ![n] = Link(q, "e0", s, "")]
OneKeyFile ==
  [Switched EXCEPT ![x] = None, ![o] = None, ![r] = [Computer EXCEPT !.ifs = {"e1"}]]
OneSubstrateName ==
  [Switched EXCEPT ![x] = None, ![o] = None, ![r] = Router({"e1", "e2"}),
                   ![c] = [Computer EXCEPT !.ifs = {"e0", "e1"}],
                   ![l] = Link(c, "e1", r, "e2")]

AllDesigns ==
  { Routers, Switched, Loop, OneHostName, OneKeyFile, OneSubstrateName,
    Put(Routers, q, None),
    Put(Put(Put(Switched, x, Router({"e0"})), n, None), c, None),
    Put(Switched, o, Link(x, "e0", h, "")),
    Put(Put(Switched, h, Phyo), o, Link(x, "e0", h, "")),
    Put(Put(Switched, x, [Good EXCEPT !.ifs = {"eth0"}]), o, Link(x, "eth0", s, "")),
    Put(Put(Routers, r, Router({"ifx", "e1"})), l, Link(r, "ifx", q, "e0")),
    Put(Loop, h, None),
    Put(Loop, x, [Good EXCEPT !.actuate = << << >> >>]),
    Put(Loop, x, [Good EXCEPT !.sense = <<Reads("y"), <<Entry("z", {"sema"})>> >>]),
    Put(Loop, x, [Good EXCEPT !.sense = <<Reads("y"), <<Entry("z", {})>> >>]),
    Put(Loop, x, [Good EXCEPT !.sense = << <<Entry("y", Both), Entry("z", Both)>> >>]),
    Put(Loop, p, Plink(h, <<"a", "b">>, x, <<"y">>)),
    Put(Loop, p, Plink(x, <<"y">>, h, <<"a", "b">>)),
    Put(Loop, p, [Plink(h, <<"a">>, x, <<"y">>) EXCEPT !.binds[1].trailing = TRUE]),
    Put(Loop, p, [Plink(h, <<"a">>, x, <<"y">>) EXCEPT
                      !.binds[1].trailing = TRUE, !.binds[2].trailing = TRUE]),
    Put(Loop, p, Plink(h, <<"a">>, x, <<"v">>)) }

SomeVersions(i) ==
  CASE i = r -> {Router({"e0"})}
    [] i = x -> {Good, [Good EXCEPT !.sense = << << >> >>]}
    [] i = h -> {Phyo}
    [] i = s -> {Switch}
    [] i = o -> {Link(x, "e0", s, ""), Link(x, "e0", r, "e1")}
    [] OTHER -> {}

(* A controller of which nothing is actuated.                              *)
SensorsOnly ==
  { Put(Put(Loop, x, [Good EXCEPT !.actuate = << << >> >>]),
          p, Plink(h, <<"a">>, x, <<"y">>)) }
===============================================================================
