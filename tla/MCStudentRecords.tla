-------------------------- MODULE MCStudentRecords --------------------------
(* The records of one student, with few requests of each kind; the constants of a run
   are in its cfg. *)
EXTENDS StudentRecordsInvariant

Started(requests) == \E r \in requests : pc[r] # "ready"

\* Bounds the deletion's run: it meets content writes, or a provider link with one of the
\* requests that change the account, but not all in one behaviour, and no crash once one of
\* the latter has begun.
OneKindOfWriter ==
    /\ Started(Connects \cup AccountChanges \cup SignIns) => ~Started(Creators) /\ crashes = 0
    /\ Started(AccountChanges) => ~Started(SignIns)
=============================================================================
