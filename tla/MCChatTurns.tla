----------------------------- MODULE MCChatTurns ----------------------------
(***************************************************************************)
(* More messages than the window holds, in one thread or over two.         *)
(***************************************************************************)
EXTENDS ChatTurns, TLC

TurnSymmetry == Permutations(Turns) \cup Permutations(Threads)
=============================================================================
