--------------------------- MODULE MCConversation ---------------------------
(* Conversation on small instances for TLC. *)
EXTENDS Conversation, TLC

CONSTANTS k1, k2, v1, v2

OneEach == v1 :> k1 @@ v2 :> k2
OneKb == v1 :> k1 @@ v2 :> k1
AllFaults == FaultKinds
NoFaults == {}
=============================================================================
