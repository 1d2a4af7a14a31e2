----------------------------- MODULE MCDxgiHooks -----------------------------
(* DxgiHooks on an interface and the distinct pointer of its derived version. *)
EXTENDS DxgiHooks, TLC

Pointers == {"base", "derived"}
DerivedIsHighest == [o \in Pointers |-> "derived"]

\* One method that attaches what it returns and recognises its own detour in
\* the fallback, and one that does neither.
QueryAndPresent1 == {"QueryInterface", "Present1"}
OnlyPresent == {"Present"}

ThreadSymmetry == Permutations(Threads)
=============================================================================
