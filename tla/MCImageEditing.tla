--------------------------- MODULE MCImageEditing ---------------------------
(***************************************************************************)
(* ImageEditing for TLC: tabs are interchangeable, so the run without      *)
(* liveness uses their permutations as symmetry.                           *)
(***************************************************************************)
EXTENDS ImageEditing, TLC

TabSymmetry == Permutations(Tabs)

NotReverted == ~reverted

\* What is typed into an inert form is sent nowhere, so that a run about what
\* is sent need not follow it.
NothingTypedInVain == \A t \in Tabs : ~tab[t].unsent

=============================================================================
