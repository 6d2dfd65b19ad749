---------------------------- MODULE TextRegister ----------------------------
(***************************************************************************)
(* What saving promises about one block, without tabs, drafts, queues,     *)
(* requests and retries.  The versions of the block are a history that     *)
(* only grows.  A page that writes another text has seen every text that   *)
(* was written before, and never goes back behind a text of its own.  A    *)
(* version may also repeat the text of the one before it.                  *)
(***************************************************************************)
EXTENDS Integers, Sequences

CONSTANTS
    Pages,                  \* page loads
    Texts                   \* numbered in the order they are typed

VARIABLES
    history                 \* per version its text, who wrote it, and the newest one seen

Newest == history[Len(history)].text

\* The first version has a text, others another one than before or the same.
Changed(v) == v > 1 => history[v].text # history[v - 1].text

Init == history = <<[text |-> 0, source |-> 0, seen |-> 0]>>

\* A page puts its text over one it knows.
Write(page, text, seen) ==
    /\ text # Newest
    /\ \A v \in 1 .. Len(history) : Changed(v) => v <= seen
    /\ \A v \in 1 .. Len(history) :
           Changed(v) /\ history[v].source = page => history[v].text <= text
    /\ history' = Append(history, [text |-> text, source |-> page, seen |-> seen])

\* A new version of the same text: what changed is something else.
Touch(page, seen) ==
    history' = Append(history, [text |-> Newest, source |-> page, seen |-> seen])

Next ==
    \E page \in Pages, seen \in 0 .. Len(history) :
        Touch(page, seen) \/ \E text \in Texts : Write(page, text, seen)

Spec == Init /\ [][Next]_history
=============================================================================
