------------------------------ MODULE MCEventBus -----------------------------
(* EventBus on two subscriptions of one callback to one event: those of two  *)
(* generations of an addon, or those of two addons.                          *)
EXTENDS EventBus, TLC

Token(g, n) == [signature |-> g, generation |-> n]

PairSubs == 1..2
SameEvent == <<"frame", "frame">>
SameCallback == <<"f", "f">>
Generations == <<Token("a", 1), Token("a", 2)>>
Addons == <<Token("a", 1), Token("b", 1)>>

Symmetry == Permutations(Threads)
=============================================================================
