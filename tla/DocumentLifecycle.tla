-------------------------- MODULE DocumentLifecycle --------------------------
(***************************************************************************)
(* What ingestion promises about one knowledge base's documents, without   *)
(* queue, worker, transaction or file: a document appears as pending, is   *)
(* only ever searchable because a processing run of it succeeded, and once *)
(* deleted it is out of the keyword index and never comes back.            *)
(***************************************************************************)
CONSTANT Docs

VARIABLES
    status,   \* "new" before the upload commits, "gone" for ever after
    indexed   \* is the document in the keyword and in the vector index?

lifecycleVars == <<status, indexed>>

Live == {"pending", "processing", "ready", "failed"}

Init ==
    /\ status = [d \in Docs |-> "new"]
    /\ indexed = [d \in Docs |-> FALSE]

Become(d, s) == status' = [status EXCEPT ![d] = s]

\* An upload commits, or fails and leaves an id nobody can use.
Appear(d) ==
    /\ status[d] = "new"
    /\ Become(d, "pending") \/ Become(d, "gone")
    /\ UNCHANGED indexed

\* A run starts, or fails; an admin asks for another run.  None of these
\* takes a document out of the index it is already in.
Change(d) ==
    /\ status[d] \in Live
    /\ \E s \in {"pending", "processing", "failed"} : Become(d, s)
    /\ UNCHANGED indexed

\* A run succeeds.  The status is left alone if the run had itself read
\* that the document is ready: another run finished first.
Succeed(d) ==
    /\ status[d] \in Live
    /\ Become(d, "ready") \/ (indexed[d] /\ UNCHANGED status)
    /\ indexed' = [indexed EXCEPT ![d] = TRUE]

\* One document, or with their knowledge base all that are live.
Delete(D) ==
    /\ \A d \in D : status[d] # "new"
    /\ status' = [d \in Docs |-> IF d \in D THEN "gone" ELSE status[d]]
    /\ indexed' = [d \in Docs |-> d \notin D /\ indexed[d]]

Next ==
    \/ \E d \in Docs : Appear(d) \/ Change(d) \/ Succeed(d)
    \/ \E D \in SUBSET Docs : Delete(D)

Spec == Init /\ [][Next]_lifecycleVars
=============================================================================
