---------------------------- MODULE GatekeeperMC ----------------------------
(***************************************************************************)
(* Two designs, the name of one the beginning of the name of the other:    *)
(* pgrep -f looks for "addie <user> x" anywhere in a command line.         *)
(***************************************************************************)
EXTENDS Gatekeeper, TLC

MCDesigns == {"x", "xy"}
(* Neither handlers nor processes are told apart. *)
Anonymous == Permutations(Handlers) \cup Permutations(Procs)

MCSeenAs == {<<"x", "x">>, <<"xy", "xy">>, <<"x", "xy">>}
=============================================================================
