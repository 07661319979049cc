-------------------------- MODULE MCStatusTracker --------------------------
(* Small instances of StatusTracker for TLC.                                  *)
EXTENDS StatusTracker

CONSTANTS w1, o1

\* One waiter, one watcher: every operation, a buffer of two that overflows.
MCWaiters == {w1}
MCWatchers == {o1}
MCNoWatchers == {}

MCSettable == {"ready", "stopped"}
MCTwoSettable == {"working", "ready"}
MCReasons == {"crashed"}
MCNoReasons == {}
MCGuard == {"failed", "removing", "removed"}
MCTargets == {{"stopped", "failed"}, {"ready"}}
MCOneTarget == {{"ready"}}
=============================================================================
