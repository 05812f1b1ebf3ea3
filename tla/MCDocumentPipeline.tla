------------------------- MODULE MCDocumentPipeline -------------------------
(* DocumentPipeline on small instances for TLC. *)
EXTENDS DocumentPipeline, TLC

AllFaults == FaultKinds
\* The acknowledgement of a slow task's first delivery drops the message its
\* second delivery still needs; a lost child and an escaped error are
\* acknowledged; the queue may be evicted: without these four no task is lost.
KeepingFaults == FaultKinds \ {"child_lost", "error", "slow", "evict"}
NoFaults == {}

Symmetry == Permutations(Clients) \cup Permutations(Workers)
=============================================================================
