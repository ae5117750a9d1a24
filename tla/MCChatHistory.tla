---------------------------- MODULE MCChatHistory ----------------------------
(* Instances of ChatHistory for TLC. *)
EXTENDS ChatHistory, TLC

\* Nothing tells one user from another.
Symmetry == Permutations(Users)
=============================================================================
