--------------------------- MODULE MCPageTransition ---------------------------
(***************************************************************************)
(* A small instance of PageTransition: all pages are in one workspace, and *)
(* one tab, which is like every other, is followed.                        *)
(***************************************************************************)
EXTENDS PageTransition

MCWorkspace == [p \in Pages |-> CHOOSE w \in Workspaces : TRUE]

\* The editor of one tab returns.
EditorsReturn == EditorReturns(CHOOSE t \in Tabs : TRUE)
=============================================================================
