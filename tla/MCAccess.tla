------------------------------ MODULE MCAccess ------------------------------
(* Access and RateLimit on a small instance for TLC. *)
EXTENDS Access, TLC

\* Request slots are alike, and users are.
Alike == Permutations(Requests) \cup Permutations(Users)
=============================================================================
