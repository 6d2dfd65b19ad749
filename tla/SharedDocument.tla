--------------------------- MODULE SharedDocument ---------------------------
(***************************************************************************)
(* What collaboration promises about one page, without servers, rooms,     *)
(* cursors, leases or grants.  A page has at most one lineage at a time.   *)
(* Within a lineage the shared document only grows: a compaction, a crash, *)
(* a stale process or an uncertain commit never takes a change out of it,  *)
(* and what a client was told is saved is in it.  A lineage that ended     *)
(* never returns.                                                          *)
(***************************************************************************)
EXTENDS Naturals

CONSTANTS Edits             \* the changes a document can contain

VARIABLES
    lineage,                \* the current lineage, 0: collaboration is off
    newest,                 \* the newest lineage there ever was
    content,                \* the shared document
    promised                \* changes acknowledged to clients, with their lineage

vars == <<lineage, newest, content, promised>>

Init ==
    /\ lineage \in {0, newest}
    /\ newest \in Nat
    /\ content \in SUBSET Edits
    /\ promised = {}

\* An editor's changes become durable.
Extend ==
    /\ lineage # 0
    /\ content' \in SUBSET Edits
    /\ content \subseteq content'
    /\ UNCHANGED <<lineage, newest, promised>>

\* A client learns that changes it made in some lineage are saved.
Promise ==
    /\ \E l \in 1..newest, changes \in SUBSET Edits :
          /\ l = lineage => changes \subseteq content
          /\ promised' = promised \cup ({l} \X changes)
    /\ UNCHANGED <<lineage, newest, content>>

\* Sharing starts afresh, or a move renews the lineage.
Renew ==
    /\ newest' = newest + 1
    /\ lineage' = newest'
    /\ content' = {}
    /\ UNCHANGED promised

\* Sharing ends.
Retire ==
    /\ lineage' = 0
    /\ content' = {}
    /\ UNCHANGED <<newest, promised>>

Next == Extend \/ Promise \/ Renew \/ Retire

Spec == Init /\ [][Next]_vars

\* An acknowledged change stays in the document while its lineage lives.
PromisesKept == \A p \in promised : p[1] = lineage => p[2] \in content
=============================================================================
