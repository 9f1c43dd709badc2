----------------------------- MODULE MCChatTurn -----------------------------
(* Small instances of ChatTurn. *)
EXTENDS ChatTurn, TLC

CONSTANTS t1, t2, r1, c1

OneCommand == [t \in ToolIds |-> c1]

SwapTools == Permutations({t1, t2})
=============================================================================
