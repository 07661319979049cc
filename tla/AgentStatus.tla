---------------------------- MODULE AgentStatus ----------------------------
(* The lifecycle status of an agent and the companion failure reason, as      *)
(* executor/status.go keeps them under StatusTracker.mu.  Every operation     *)
(* here is one critical section of that mutex, so it is one atomic step.      *)
(* The subscribers the same critical section notifies are added by module     *)
(* StatusTracker; the agents (SystemAgent, DockerAgent) only need the cell.   *)

VARIABLES
    status,   \* StatusTracker.status
    failure   \* StatusTracker.failure

statusVars == <<status, failure>>

Status == {"pulling", "starting", "ready", "working",
           "stopped", "failed", "removing", "removed"}

FailureReason == {"none", "pull", "init", "config", "model",
                  "readiness_timeout", "crashed"}

\* The zero value of Status is StatusPulling, of FailureReason FailureNone.
NewStatusTracker == status = "pulling" /\ failure = "none"

\* A reason survives only on a failed agent.
setLocked(s, reason) ==
    /\ status' = s
    /\ failure' = IF s = "failed" THEN reason ELSE "none"

Set(s) == setLocked(s, "none")

SetFailure(reason) == setLocked("failed", reason)

\* Writes s unless the current status is guarded; nothing changes otherwise.
SetUnless(s, guard) ==
    IF status \in guard THEN UNCHANGED statusVars ELSE setLocked(s, "none")

StatusTypeOK == status \in Status /\ failure \in FailureReason
=============================================================================
