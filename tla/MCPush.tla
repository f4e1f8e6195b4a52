------------------------------- MODULE MCPush -------------------------------
(***************************************************************************)
(* Push for TLC: calls are interchangeable, and so are commands.           *)
(***************************************************************************)
EXTENDS Push, TLC

PushSymmetry == Permutations(Pushes) \cup Permutations(Cmds)

=============================================================================
