------------------------------ MODULE MCChunking ------------------------------
(* Chunking on every text of a few tokens for TLC. *)
EXTENDS Chunking

FewLimits == {l \in [size : 1..3, overlap : 0..2] : l.overlap < l.size}
=============================================================================
