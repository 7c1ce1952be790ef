----------------------------- MODULE MCChatRoom -----------------------------
(* Instances of ChatRoom for TLC.                                          *)
EXTENDS ChatRoom, TLC

MCSymmetry == Permutations(Users) \cup Permutations(Nodes) \cup Permutations(Handlers)
=============================================================================
