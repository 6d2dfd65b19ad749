---------------------- MODULE MCCollaborationDocument ----------------------
(***************************************************************************)
(* Small instances of CollaborationDocument for TLC.                       *)
(***************************************************************************)
EXTENDS CollaborationDocument, TLC

CONSTANTS e1, e2

NoLegacy == {}

\* A page whose collaboration started before the run.
OneRow == {[id |-> 1, data |-> {}]}

\* One row more than a log of two may retain, left by an older build: a
\* document that was opened and compacted before anything was written.
OversizedRows == {[id |-> n, data |-> {}] : n \in 1..3}

\* The processes are interchangeable, and so are the identities of writes.
Symmetric == Permutations(Servers) \cup Permutations(WriteIds)

\* State constraints that keep a run to its question: a page that is shared
\* directly and never archived, and no materialization under way.
DirectSharesOnly ==
    ~isArchived /\ ~inCollection /\ \A u \in Users : collectionShares[u] = 0
RoomsAndWritesOnly == DirectSharesOnly /\ materializations = {}
=============================================================================
