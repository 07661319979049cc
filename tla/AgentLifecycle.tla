-------------------------- MODULE AgentLifecycle --------------------------
(* What executor.Agent promises of Run, whatever the backend: an agent has    *)
(* one slot for a run; a run in the slot has at most one runtime (a process   *)
(* or a container) and gives the slot back only when that runtime is gone; a  *)
(* cancelled run always gives the slot back.                                  *)
EXTENDS Naturals

VARIABLES
    phase,      \* of the run in the slot; "idle" when there is none
    run,        \* how many runs there have been: the number of the latest
    cancelled   \* the runs that were asked to end

vars == <<phase, run, cancelled>>

Phase == {"idle", "begun", "serving", "ended"}

Init == phase = "idle" /\ run = 0 /\ cancelled = {}

Begin ==
    /\ phase = "idle"
    /\ phase' = "begun" /\ run' = run + 1
    /\ UNCHANGED cancelled

Spawn ==
    /\ phase = "begun" /\ phase' = "serving"
    /\ UNCHANGED <<run, cancelled>>

\* The run ends before it has a runtime: it could not be prepared or spawned.
Abandon ==
    /\ phase = "begun" /\ phase' = "ended"
    /\ UNCHANGED <<run, cancelled>>

Exit ==
    /\ phase = "serving" /\ phase' = "ended"
    /\ UNCHANGED <<run, cancelled>>

Release ==
    /\ phase = "ended" /\ phase' = "idle"
    /\ UNCHANGED <<run, cancelled>>

\* A Stop, or the caller of Run, cancels a run it has seen; perhaps too late.
Cancel ==
    /\ \E r \in 1 .. run : cancelled' = cancelled \cup {r}
    /\ UNCHANGED <<phase, run>>

Next == Begin \/ Spawn \/ Abandon \/ Exit \/ Release \/ Cancel

Safety == Init /\ [][Next]_vars

\* A cancelled run moves on to its end, and an ended run releases the slot.
Spec ==
    /\ Safety
    /\ WF_vars(run \in cancelled /\ (Abandon \/ Exit))
    /\ WF_vars(Release)
=============================================================================
