---------------------------- MODULE ModelStoreMC ----------------------------
(* Messages of the clients of two designs of one user.                     *)
EXTENDS ModelStore, TLC

CONSTANTS d1, d2, f1, f2, a, b, h1, h2

Home(f) == IF f = f1 THEN d1 ELSE d2

AModel(oid, n, v) ==
  [oid |-> oid, kind |-> "model", e |-> [name |-> n, body |-> v, icon |-> "none"]]
FirstOne == AModel(a, a, 1).e
APhyo(f, n) == [kind |-> "phyo", e |-> [id |-> f, model |-> n]]
AnIcon(n) == [kind |-> "icon", name |-> n, icon |-> "given"]
(* Settings are ten millionths: a step of 1e-7 s is stored as none.         *)
Rounded(s) == ((s + 5) \div 10) * 10
TheSettings(s) == [kind |-> "settings", e |-> s]

Msg(d, items) == [items |-> items, design |-> d]

TwoDesigns ==
  { Msg(d1, <<AModel(a, a, 2)>>),
    Msg(d1, <<APhyo(f1, a)>>),
    Msg(d1, <<APhyo(f1, b), AModel(a, b, 1)>>),
    Msg(d1, <<AModel(b, b, 1), APhyo(f1, b)>>),
    Msg(d1, <<AModel(a, a, 2), TheSettings(1)>>),
    Msg(d1, <<TheSettings(17), AModel(a, b, 2), TheSettings(None)>>),
    Msg(d1, <<AnIcon(a)>>),
    Msg(d2, <<AModel(a, b, 2)>>),
    Msg(d2, <<APhyo(f2, a)>>),
    Msg(d2, <<AnIcon(b)>>) }

Anonymous == Permutations(Handlers)
===============================================================================
