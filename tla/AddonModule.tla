----------------------------- MODULE AddonModule -----------------------------
(****************************************************************************)
(* nexus-addon-loader/src/module.rs: one mapped module.  Its owner holds it *)
(* by value, so the module is a value, its state, and an operation is a     *)
(* step from one state to the next; AddonManager.tla keeps it in an entry.  *)
(*                                                                          *)
(* The module's own callback gate guards the load callback only: nothing in *)
(* the repository clones it, so it is always drained when it is asked.      *)
(****************************************************************************)

\* "None" stands for a module that is not held; a release consumes it.
ModuleStates == {"None", "Inspected", "Active", "ActivationFailed", "ShutdownRequested",
                 "CallbacksQuiesced", "UnloadCallbackComplete", "HostCleanupComplete",
                 "ReleaseUncertain"}

CanActivate(m) == m = "Inspected"
Activated(returned) == IF returned THEN "Active" ELSE "ActivationFailed"

CanRequestShutdown(m) == m \in {"Active", "ActivationFailed"}
CanWaitForCallbacks(m) == m = "ShutdownRequested"
CanInvokeUnload(m) == m = "CallbacksQuiesced"
CanCompleteHostCleanup(m) == m = "UnloadCallbackComplete"

Releasable(m) == m \in {"Inspected", "HostCleanupComplete"}

\* What release leaves behind.  FreeLibrary succeeds, fails without effect, or
\* panics with an unknowable outcome; a module in no state to be released is
\* handed back as it is.
ReleaseOutcomes(m) ==
    IF Releasable(m) THEN {"None", m, "ReleaseUncertain"} ELSE {m}

\* The native image is certainly mapped while the module is held.
Mapped(m) == m \notin {"None", "ReleaseUncertain"}

\* Native code of the module may still be called by the host.
Callable(m) == m \in {"Inspected", "Active", "ActivationFailed", "ShutdownRequested"}
=============================================================================
