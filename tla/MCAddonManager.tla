--------------------------- MODULE MCAddonManager ----------------------------
(* AddonManager on one or two DLL paths and a few generations of an addon.   *)
EXTENDS AddonManager, TLC

\* An addon without flags, and one that can neither be reloaded nor be
\* started late: each flag's guards are met by one or the other.
NoFlagOrBoth == {{}, Flags}
NoFlag == {{}}

\* Without flags, what a Startup request does a Runtime request does at any
\* time: the end of start-up is followed for an addon with flags only.
StartupMatters == startup_open \/ \E g \in Signatures : flags[g] # {}

Symmetry == Permutations(Paths)
=============================================================================
