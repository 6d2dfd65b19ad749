------------------------ MODULE SharedDocumentProofs ------------------------
(***************************************************************************)
(* The abstract document keeps its promises.                               *)
(***************************************************************************)
EXTENDS SharedDocument, TLAPS

\* A promise is about a lineage that exists or existed, so the next lineage
\* starts with none.
PromiseInv ==
    /\ newest \in Nat
    /\ lineage \in 0..newest
    /\ \A p \in promised : p[1] \in 1..newest
    /\ PromisesKept

\* An acknowledged change stays in the document as long as its lineage lives.
\* Collaboration on a page, which implements this document, inherits it.
THEOREM PromisesAreKept == Spec => []PromisesKept
<1>1. Init => PromiseInv
  BY DEF Init, PromiseInv, PromisesKept
<1>2. PromiseInv /\ [Next]_vars => PromiseInv'
  <2> SUFFICES ASSUME PromiseInv, [Next]_vars
               PROVE  PromiseInv'
    OBVIOUS
  <2> USE DEF PromiseInv
  <2>1. CASE Extend
    BY <2>1 DEF Extend, PromisesKept
  <2>2. CASE Promise
    <3>1. PICK l \in 1..newest, changes \in SUBSET Edits :
             /\ l = lineage => changes \subseteq content
             /\ promised' = promised \cup ({l} \X changes)
      BY <2>2 DEF Promise
    <3>2. UNCHANGED <<lineage, newest, content>>
      BY <2>2 DEF Promise
    <3>3. \A p \in {l} \X changes : p[1] = l /\ p[2] \in changes
      OBVIOUS
    <3>4. \A p \in promised' : p[1] \in 1..newest /\ (p[1] = lineage => p[2] \in content)
      BY <3>1, <3>3 DEF PromisesKept
    <3> QED
      BY <3>2, <3>4 DEF PromisesKept
  <2>3. CASE Renew
    BY <2>3 DEF Renew, PromisesKept
  <2>4. CASE Retire
    BY <2>4 DEF Retire, PromisesKept
  <2>5. CASE UNCHANGED vars
    BY <2>5 DEF vars, PromisesKept
  <2> QED
    BY <2>1, <2>2, <2>3, <2>4, <2>5 DEF Next
<1>3. PromiseInv => PromisesKept
  BY DEF PromiseInv
<1> QED
  BY <1>1, <1>2, <1>3, PTL DEF Spec
=============================================================================
