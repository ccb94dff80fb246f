----------------------- MODULE MCConversationOwnership -----------------------
(* Small instances of ConversationOwnership for TLC. *)
EXTENDS ConversationOwnership, TLC

TurnAndKeySymmetry == Permutations(Turn) \cup Permutations(Key)
=============================================================================
