----------------------------- MODULE MC_CmdQueue -----------------------------
(* Two producers, a command that is valid and different for each of two     *)
(* addresses, one with no registers and one with too many, three entries.   *)
EXTENDS CmdQueue, TLC

CONSTANTS p1, p2, a, b, empty, long

MCCmd == {a, b, empty, long}
MCCmdCount == a :> 1 @@ b :> 123 @@ empty :> 0 @@ long :> 124
=============================================================================
