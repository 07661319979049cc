---------------------------- MODULE ExecJobProofs ----------------------------
(* A job's result is truthful, a job leaves nothing behind but a child that   *)
(* has let go of its streams; a job sees what its agent sees and has the      *)
(* environment it should have: for every descriptor, payload, amount of       *)
(* output and number of failing calls.                                        *)
EXTENDS ExecJob, SubsequenceProofs

DockerPC == {"create", "attach", "cstart", "logs", "copy", "inspect", "cleanup"}
Done == {"nil", "exit", "ctx", "taken"}

\* The types that the argument needs.
Types ==
    /\ bin \in [st : {"none", "run"} \cup Over, code : Nat, wrote : Nat]
    /\ buf \in Nat

\* What has happened by each point of Exec.
PhaseInv ==
    /\ pc \in {"idle", "start", "create", "attach", "cstart"} => bin.st = "none" /\ waiter = "none"
    /\ pc \in {"idle", "start", "create", "select", "groupKilled"} => box = "none"
    /\ pc \in {"idle", "start"} => child = "none" /\ hit = {}
    /\ pc \in DockerPC => backend = "docker"
    /\ pc \in {"start", "select", "groupKilled"} => backend = "system"
    /\ backend = "docker" => child = "none" /\ hit = {}
    /\ pc = "groupKilled" => Ended
    /\ "timeout" \in excused => pc = "returned"

\* A process is killed only for a context that has ended, until Exec cleans up.
KillInv ==
    /\ hit # {} => Ended
    /\ bin.st = "killed" /\ pc # "returned" => Ended

\* Wait has returned: the leader is reaped, its streams are at their end and
\* nobody writes to them any more.
WaitInv ==
    waiter \in Done =>
        /\ bin.st \in Over /\ child # "run" /\ buf = bin.wrote
        /\ waiter = "nil" => bin.st = "exited" /\ bin.code = 0
        /\ waiter = "ctx" => Ended

\* The log stream has ended by itself.
InspectInv ==
    pc = "inspect" /\ "cut" \notin excused /\ ~Ended => bin.st \in Over /\ buf = bin.wrote

\* The result, from the moment it is made.
ResultInv ==
    pc \in {"cleanup", "returned"} /\ result.err = "nil" /\ "cut" \notin excused =>
        bin.st = "exited" /\ result.code = bin.code /\ result.out = bin.wrote /\ child # "run"

\* The kill of the group misses no process of it, the last resort neither; and
\* whom Exec leaves behind.
GroupInv ==
    /\ (pc = "groupKilled" \/ "timeout" \in excused) => Alive \subseteq hit
    /\ OrphansAreDetached

IInv == Types /\ PhaseInv /\ KillInv /\ WaitInv /\ InspectInv /\ ResultInv /\ LeavesNothing /\ GroupInv

\* Arithmetic on the counters of output and on exit codes.
LEMMA Counting ==
    /\ \A n \in Nat : n + 1 \in Nat
    /\ \A m, n \in Nat : m < n => m # n
    /\ {0, 1} \subseteq Nat
OBVIOUS

\* An error is not the absence of one.
LEMMA FailIsError == ASSUME NEW r, r = Result("fail", 0, 0) PROVE r.err # "nil"
BY DEF Result

\* The invariant holds before Exec is called.
LEMMA InitIInv == Init => IInv
BY DEF Init, IInv, Types, PhaseInv, KillInv, WaitInv, InspectInv, ResultInv, LeavesNothing, GroupInv,
       OrphansAreDetached, Over, Done, DockerPC, Ended

\* The steps of Exec under the system executor keep the invariant.
LEMMA SystemStepIInv == IInv /\ SystemStep => IInv'
<1> SUFFICES ASSUME IInv, SystemStep PROVE IInv'
  OBVIOUS
<1> USE DEF IInv, Types, PhaseInv, KillInv, WaitInv, InspectInv, ResultInv, LeavesNothing, GroupInv,
            OrphansAreDetached, Over, Done, DockerPC, Ended, Alive,
            callVars, procVars, stdinVars, Goes, Returns, Result
<1>1. CASE Start
  <2>1. Types'
    BY <1>1 DEF Start, CallWorks, CallFails
  <2>2. PhaseInv'
    BY <1>1 DEF Start, CallWorks, CallFails
  <2>3. KillInv'
    BY <1>1 DEF Start, CallWorks, CallFails
  <2>4. WaitInv'
    BY <1>1 DEF Start, CallWorks, CallFails
  <2>5. InspectInv'
    BY <1>1 DEF Start, CallWorks, CallFails
  <2>6. ResultInv'
    BY <1>1 DEF Start, CallWorks, CallFails
  <2>7. LeavesNothing'
    BY <1>1 DEF Start, CallWorks, CallFails
  <2>8. GroupInv'
    BY <1>1 DEF Start, CallWorks, CallFails
  <2> QED
    BY <2>1, <2>2, <2>3, <2>4, <2>5, <2>6, <2>7, <2>8 DEF IInv
<1>2. CASE ReceiveDone
  BY <1>2 DEF ReceiveDone, wrapResult
<1>3. CASE KillGroup
  BY <1>3 DEF KillGroup
<1>4. CASE GiveUp
  <2>1. Types'
    BY <1>4 DEF GiveUp
  <2>2. PhaseInv'
    BY <1>4 DEF GiveUp
  <2>3. KillInv'
    BY <1>4 DEF GiveUp
  <2>4. WaitInv'
    BY <1>4 DEF GiveUp
  <2>5. InspectInv'
    BY <1>4 DEF GiveUp
  <2>6. ResultInv'
    BY <1>4 DEF GiveUp
  <2>7. LeavesNothing'
    BY <1>4 DEF GiveUp
  <2>8. GroupInv'
    BY <1>4 DEF GiveUp
  <2> QED
    BY <2>1, <2>2, <2>3, <2>4, <2>5, <2>6, <2>7, <2>8 DEF IInv
<1> QED
  BY <1>1, <1>2, <1>3, <1>4 DEF SystemStep

\* So do those under the docker executor.
LEMMA DockerStepIInv == IInv /\ DockerStep => IInv'
<1> SUFFICES ASSUME IInv, DockerStep PROVE IInv'
  OBVIOUS
<1> USE DEF IInv, Types, PhaseInv, KillInv, WaitInv, InspectInv, ResultInv, LeavesNothing, GroupInv,
            OrphansAreDetached, Over, Done, DockerPC, Ended, Alive,
            callVars, procVars, stdinVars, Goes, Returns, CleansUp, Result,
            CallWorks, CallFails
<1>1. CASE ContainerCreate
  <2>1. Types'
    BY <1>1 DEF ContainerCreate
  <2>2. PhaseInv'
    BY <1>1 DEF ContainerCreate
  <2>3. KillInv'
    BY <1>1 DEF ContainerCreate
  <2>4. WaitInv'
    BY <1>1 DEF ContainerCreate
  <2>5. InspectInv'
    BY <1>1 DEF ContainerCreate
  <2>6. ResultInv'
    <3>1. pc' \in {"cstart", "attach"} \/ (pc' = "returned" /\ result' = Result("fail", 0, 0))
      BY <1>1 DEF ContainerCreate
    <3>2. pc' \in {"cleanup", "returned"} => result'.err # "nil"
      <4>1. CASE pc' \in {"cstart", "attach"}
        BY <4>1
      <4>2. CASE result' = Result("fail", 0, 0)
        BY <4>2, FailIsError
      <4> QED
        BY <3>1, <4>1, <4>2
    <3> QED
      BY <3>2
  <2>7. LeavesNothing'
    BY <1>1 DEF ContainerCreate
  <2>8. GroupInv'
    BY <1>1 DEF ContainerCreate
  <2> QED
    BY <2>1, <2>2, <2>3, <2>4, <2>5, <2>6, <2>7, <2>8 DEF IInv
<1>2. CASE ContainerAttach
  <2>1. Types'
    BY <1>2 DEF ContainerAttach
  <2>2. PhaseInv'
    BY <1>2 DEF ContainerAttach
  <2>3. KillInv'
    BY <1>2 DEF ContainerAttach
  <2>4. WaitInv'
    BY <1>2 DEF ContainerAttach
  <2>5. InspectInv'
    BY <1>2 DEF ContainerAttach
  <2>6. ResultInv'
    BY <1>2 DEF ContainerAttach
  <2>7. LeavesNothing'
    BY <1>2 DEF ContainerAttach
  <2>8. GroupInv'
    BY <1>2 DEF ContainerAttach
  <2> QED
    BY <2>1, <2>2, <2>3, <2>4, <2>5, <2>6, <2>7, <2>8 DEF IInv
<1>3. CASE ContainerStart
  <2>1. Types'
    BY <1>3 DEF ContainerStart
  <2>2. PhaseInv'
    BY <1>3 DEF ContainerStart
  <2>3. KillInv'
    BY <1>3 DEF ContainerStart
  <2>4. WaitInv'
    BY <1>3 DEF ContainerStart
  <2>5. InspectInv'
    BY <1>3 DEF ContainerStart
  <2>6. ResultInv'
    BY <1>3 DEF ContainerStart
  <2>7. LeavesNothing'
    BY <1>3 DEF ContainerStart
  <2>8. GroupInv'
    BY <1>3 DEF ContainerStart
  <2> QED
    BY <2>1, <2>2, <2>3, <2>4, <2>5, <2>6, <2>7, <2>8 DEF IInv
<1>4. CASE ContainerLogs
  <2>1. Types'
    BY <1>4 DEF ContainerLogs
  <2>2. PhaseInv'
    BY <1>4 DEF ContainerLogs
  <2>3. KillInv'
    BY <1>4 DEF ContainerLogs
  <2>4. WaitInv'
    BY <1>4 DEF ContainerLogs
  <2>5. InspectInv'
    BY <1>4 DEF ContainerLogs
  <2>6. ResultInv'
    BY <1>4 DEF ContainerLogs
  <2>7. LeavesNothing'
    BY <1>4 DEF ContainerLogs
  <2>8. GroupInv'
    BY <1>4 DEF ContainerLogs
  <2> QED
    BY <2>1, <2>2, <2>3, <2>4, <2>5, <2>6, <2>7, <2>8 DEF IInv
<1>5. CASE StreamEnds
  BY <1>5 DEF StreamEnds
<1>6. CASE StreamBreaks
  <2>1. Types'
    BY <1>6 DEF StreamBreaks
  <2>2. PhaseInv'
    BY <1>6 DEF StreamBreaks
  <2>3. KillInv'
    BY <1>6 DEF StreamBreaks
  <2>4. WaitInv'
    BY <1>6 DEF StreamBreaks
  <2>5. InspectInv'
    BY <1>6 DEF StreamBreaks
  <2>6. ResultInv'
    BY <1>6 DEF StreamBreaks
  <2>7. LeavesNothing'
    BY <1>6 DEF StreamBreaks
  <2>8. GroupInv'
    BY <1>6 DEF StreamBreaks
  <2> QED
    BY <2>1, <2>2, <2>3, <2>4, <2>5, <2>6, <2>7, <2>8 DEF IInv
<1>7. CASE ContainerInspect
  <2>1. Types'
    BY <1>7 DEF ContainerInspect
  <2>2. PhaseInv'
    BY <1>7 DEF ContainerInspect
  <2>3. KillInv'
    BY <1>7 DEF ContainerInspect
  <2>4. WaitInv'
    BY <1>7 DEF ContainerInspect
  <2>5. InspectInv'
    BY <1>7 DEF ContainerInspect
  <2>6. ResultInv'
    BY <1>7 DEF ContainerInspect
  <2>7. LeavesNothing'
    BY <1>7 DEF ContainerInspect
  <2>8. GroupInv'
    BY <1>7 DEF ContainerInspect
  <2> QED
    BY <2>1, <2>2, <2>3, <2>4, <2>5, <2>6, <2>7, <2>8 DEF IInv
<1>8. CASE Deferred
  BY <1>8 DEF Deferred
<1> QED
  BY <1>1, <1>2, <1>3, <1>4, <1>5, <1>6, <1>7, <1>8 DEF DockerStep

\* A step that concerns none of what the invariant speaks of.
LEMMA QuietIInv ==
    ASSUME IInv, UNCHANGED <<backend, pc, ctx, result, bin, child, hit, buf, waiter, box, excused>>
    PROVE  IInv'
<1>1. Types' /\ PhaseInv'
  BY DEF IInv, Types, PhaseInv, Ended
<1>2. KillInv' /\ WaitInv' /\ InspectInv'
  BY DEF IInv, KillInv, WaitInv, InspectInv, Ended
<1>3. ResultInv' /\ LeavesNothing'
  BY DEF IInv, ResultInv, LeavesNothing
<1>4. GroupInv'
  BY DEF IInv, GroupInv, OrphansAreDetached, Alive
<1> QED
  BY <1>1, <1>2, <1>3, <1>4 DEF IInv

\* And the goroutines, the processes, the streams and the caller.
LEMMA OtherStepIInv ==
    IInv /\ (Exec \/ Refused \/ Goroutine \/ Processes \/ CopyOutput \/ streamStdin \/ ReadStdin \/ CallerCancels
             \/ UNCHANGED vars) => IInv'
<1> SUFFICES ASSUME IInv, Exec \/ Refused \/ Goroutine \/ Processes \/ CopyOutput \/ streamStdin \/ ReadStdin
                          \/ CallerCancels \/ UNCHANGED vars
             PROVE  IInv'
  OBVIOUS
<1> USE DEF IInv, Types, PhaseInv, KillInv, WaitInv, InspectInv, ResultInv, LeavesNothing, GroupInv,
            OrphansAreDetached, Over, Done, DockerPC, Ended, Alive,
            callVars, procVars, stdinVars
<1>1. CASE Exec
  BY <1>1 DEF Exec, Goes
<1>2. CASE Refused
  BY <1>2 DEF Refused, Returns, Result
<1>3. CASE CommandContextKills
  BY <1>3 DEF CommandContextKills
<1>4. CASE WaitReturns
  BY <1>4 DEF WaitReturns
<1>5. CASE WatcherStops
  <2>1. Types'
    BY <1>5 DEF WatcherStops
  <2>2. PhaseInv'
    BY <1>5 DEF WatcherStops
  <2>3. KillInv'
    BY <1>5 DEF WatcherStops
  <2>4. WaitInv'
    BY <1>5 DEF WatcherStops
  <2>5. InspectInv'
    BY <1>5 DEF WatcherStops
  <2>6. ResultInv'
    BY <1>5 DEF WatcherStops
  <2>7. LeavesNothing'
    BY <1>5 DEF WatcherStops
  <2>8. GroupInv'
    BY <1>5 DEF WatcherStops
  <2> QED
    BY <2>1, <2>2, <2>3, <2>4, <2>5, <2>6, <2>7, <2>8 DEF IInv
<1>6. CASE BinWrites
  <2>1. Types'
    <3>1. bin' = [bin EXCEPT !.wrote = bin.wrote + 1] /\ buf' = buf
      BY <1>6 DEF BinWrites
    <3>2. bin.wrote + 1 \in Nat
      BY Counting DEF Types
    <3> QED
      BY <3>1, <3>2 DEF Types
  <2>2. PhaseInv'
    BY <1>6 DEF BinWrites, Writing, BinRuns
  <2>3. KillInv'
    BY <1>6 DEF BinWrites, Writing, BinRuns
  <2>4. WaitInv'
    BY <1>6 DEF BinWrites, Writing, BinRuns
  <2>5. InspectInv'
    BY <1>6 DEF BinWrites, Writing, BinRuns
  <2>6. ResultInv'
    BY <1>6 DEF BinWrites, Writing, BinRuns
  <2>7. LeavesNothing'
    BY <1>6 DEF BinWrites, Writing, BinRuns
  <2>8. GroupInv'
    BY <1>6 DEF BinWrites, Writing, BinRuns
  <2> QED
    BY <2>1, <2>2, <2>3, <2>4, <2>5, <2>6, <2>7, <2>8 DEF IInv
<1>7. CASE BinForks
  BY <1>7 DEF BinForks, BinRuns
<1>8. CASE ChildMoves
  <2>1. Types'
    BY <1>8 DEF ChildMoves
  <2>2. PhaseInv'
    BY <1>8 DEF ChildMoves
  <2>3. KillInv'
    BY <1>8 DEF ChildMoves
  <2>4. WaitInv'
    BY <1>8 DEF ChildMoves
  <2>5. InspectInv'
    BY <1>8 DEF ChildMoves
  <2>6. ResultInv'
    BY <1>8 DEF ChildMoves
  <2>7. LeavesNothing'
    BY <1>8 DEF ChildMoves
  <2>8. GroupInv'
    BY <1>8 DEF ChildMoves
  <2> QED
    BY <2>1, <2>2, <2>3, <2>4, <2>5, <2>6, <2>7, <2>8 DEF IInv
<1>9. CASE BinExits
  <2>1. Types'
    <3>1. PICK c \in {0, 1} : bin' = [bin EXCEPT !.st = "exited", !.code = c]
      BY <1>9 DEF BinExits
    <3>2. buf' = buf /\ c \in Nat
      BY <1>9, Counting DEF BinExits
    <3> QED
      BY <3>1, <3>2 DEF Types
  <2>2. PhaseInv'
    BY <1>9 DEF BinExits, BinRuns
  <2>3. KillInv'
    BY <1>9 DEF BinExits, BinRuns
  <2>4. WaitInv'
    BY <1>9 DEF BinExits, BinRuns
  <2>5. InspectInv'
    BY <1>9 DEF BinExits, BinRuns
  <2>6. ResultInv'
    BY <1>9 DEF BinExits, BinRuns
  <2>7. LeavesNothing'
    BY <1>9 DEF BinExits, BinRuns
  <2>8. GroupInv'
    BY <1>9 DEF BinExits, BinRuns
  <2> QED
    BY <2>1, <2>2, <2>3, <2>4, <2>5, <2>6, <2>7, <2>8 DEF IInv
<1>10. CASE Dies
  <2>1. Types'
    BY <1>10 DEF Dies
  <2>2. PhaseInv'
    BY <1>10 DEF Dies
  <2>3. KillInv'
    BY <1>10 DEF Dies
  <2>4. WaitInv'
    BY <1>10 DEF Dies
  <2>5. InspectInv'
    BY <1>10 DEF Dies
  <2>6. ResultInv'
    BY <1>10 DEF Dies
  <2>7. LeavesNothing'
    BY <1>10 DEF Dies
  <2>8. GroupInv'
    BY <1>10 DEF Dies
  <2> QED
    BY <2>1, <2>2, <2>3, <2>4, <2>5, <2>6, <2>7, <2>8 DEF IInv
<1>11. CASE CopyOutput
  <2>0. buf' = buf + 1 /\ buf < bin.wrote /\ bin' = bin /\ buf \in Nat /\ bin.wrote \in Nat
    BY <1>11 DEF CopyOutput
  <2>1. Types'
    <3>1. buf + 1 \in Nat
      BY <2>0, Counting
    <3> QED
      BY <2>0, <3>1 DEF Types
  <2>2. PhaseInv'
    BY <1>11 DEF CopyOutput
  <2>3. KillInv'
    BY <1>11 DEF CopyOutput
  <2>4. WaitInv'
    <3>1. waiter \notin Done /\ waiter' = waiter
      BY <1>11, <2>0, Counting DEF CopyOutput
    <3> QED
      BY <3>1
  <2>5. InspectInv'
    BY <1>11 DEF CopyOutput
  <2>6. ResultInv'
    BY <1>11 DEF CopyOutput
  <2>7. LeavesNothing'
    BY <1>11 DEF CopyOutput
  <2>8. GroupInv'
    BY <1>11 DEF CopyOutput
  <2> QED
    BY <2>1, <2>2, <2>3, <2>4, <2>5, <2>6, <2>7, <2>8 DEF IInv
<1>12. CASE streamStdin \/ ReadStdin
  <2>1. UNCHANGED <<backend, pc, ctx, result, bin, child, hit, buf, waiter, box, excused>>
    BY <1>12 DEF streamStdin, ReadStdin
  <2> QED
    BY ONLY IInv, <2>1, QuietIInv
<1>13. CASE CallerCancels
  <2>1. Types'
    BY <1>13 DEF CallerCancels
  <2>2. PhaseInv'
    BY <1>13 DEF CallerCancels
  <2>3. KillInv'
    BY <1>13 DEF CallerCancels
  <2>4. WaitInv'
    BY <1>13 DEF CallerCancels
  <2>5. InspectInv'
    BY <1>13 DEF CallerCancels
  <2>6. ResultInv'
    BY <1>13 DEF CallerCancels
  <2>7. LeavesNothing'
    BY <1>13 DEF CallerCancels
  <2>8. GroupInv'
    BY <1>13 DEF CallerCancels
  <2> QED
    BY <2>1, <2>2, <2>3, <2>4, <2>5, <2>6, <2>7, <2>8 DEF IInv
<1>14. CASE UNCHANGED vars
  <2>1. UNCHANGED <<backend, pc, ctx, result, bin, child, hit, buf, waiter, box, excused>>
    BY <1>14 DEF vars
  <2> QED
    BY ONLY IInv, <2>1, QuietIInv
<1> QED
  BY <1>1, <1>2, <1>3, <1>4, <1>5, <1>6, <1>7, <1>8, <1>9, <1>10, <1>11, <1>12, <1>13, <1>14
     DEF Goroutine, Processes

\* The invariant holds in every reachable state.
THEOREM Invariance == Spec => []IInv
<1>1. IInv /\ [Next]_vars => IInv'
  BY SystemStepIInv, DockerStepIInv, OtherStepIInv DEF Next
<1> QED
  BY <1>1, InitIInv, PTL DEF Spec

\* Without an error the BIN ended by itself, with that exit code, and all its
\* output is there (wrapResult, ContainerInspect).
THEOREM TruthfulResult == Spec => []ResultIsTruthful
<1>1. IInv => ResultIsTruthful
  BY DEF IInv, ResultInv, ResultIsTruthful
<1> QED
  BY <1>1, Invariance, PTL

\* When Exec has returned the BIN does not run and its container is gone, but for
\* the last resort and lost answers (the deferred ContainerRemove).
THEOREM NothingLeft == Spec => []LeavesNothing
<1>1. IInv => LeavesNothing
  BY DEF IInv
<1> QED
  BY <1>1, Invariance, PTL

\* Exec of the system backend leaves no process without a SIGKILL on its way, but
\* for a child that has closed its streams when Wait returned before the group was
\* killed (KillGroup, GiveUp, ReceiveDone).
THEOREM OnlyDetachedLeft == Spec => []OrphansAreDetached
<1>1. IInv => OrphansAreDetached
  BY DEF IInv, GroupInv
<1> QED
  BY <1>1, Invariance, PTL

-----------------------------------------------------------------------------
(* What a job is given.                                                       *)

\* Between Exec's critical section and the start of the process or the creation
\* of the container, spec is what the assembly makes of the descriptor.
SpecInv ==
    /\ pc = "idle" => spec = None
    /\ spec = None \/ (spec.of \in Descriptors /\ spec.built = Layout(backend, spec.of))

\* buildExecContainer repeats, line by line, what buildEnv and buildHostConfig
\* do: for every descriptor the two assemblies give the same environment and,
\* when the runtime image is known, the same mounts and extra hosts.
LEMMA AssembliesAgree ==
    ASSUME NEW rt, NEW fallback, NEW bin0, NEW daemonURL, NEW agentToken, rt.runtime # ""
    PROVE  /\ buildExecContainer(rt, fallback, bin0, daemonURL, agentToken).host
                = buildConfig(rt, fallback, daemonURL, agentToken).host
           /\ buildExecContainer(rt, fallback, bin0, daemonURL, agentToken).env
                = buildConfig(rt, fallback, daemonURL, agentToken).env
<1> DEFINE job   == buildExecContainer(rt, fallback, bin0, daemonURL, agentToken)
           agent == buildConfig(rt, fallback, daemonURL, agentToken)
           both  == daemonURL # "" /\ agentToken # ""
           user  == IF rt.mounts # {} THEN rt.mounts ELSE fallback
<1>1. job.env = agent.env
  BY DEF buildExecContainer, buildConfig, buildEnv
<1>2. daemonAccess("").mounts = {} /\ daemonAccess("").hosts = {}
  BY DEF daemonAccess
<1>3. user = effectiveMounts(fallback, rt.mounts)
  BY DEF effectiveMounts
<1>4. job.host = [mounts |-> agentFHSMounts \cup {Image(rt.runtime, "/opt/runtime")} \cup toolRefs(rt) \cup user
                             \cup (IF both THEN daemonAccess(daemonURL).mounts ELSE {}),
                  hosts  |-> IF both THEN daemonAccess(daemonURL).hosts ELSE {}]
  BY DEF buildExecContainer
<1>5. agent.host = buildHostConfig(rt, fallback, daemonURL, agentToken)
  BY DEF buildConfig
<1>6. job.host = agent.host
  <2>1. CASE both
    BY <2>1, <1>3, <1>4, <1>5 DEF buildHostConfig
  <2>2. CASE ~both
    BY <2>2, <1>2, <1>3, <1>4, <1>5 DEF buildHostConfig
  <2> QED
    BY <2>1, <2>2
<1> QED
  BY <1>1, <1>6

\* Only Exec builds a spec; Start and ContainerCreate hand it over.
LEMMA NextSpec == SpecInv /\ [Next]_vars => SpecInv'
<1> SUFFICES ASSUME SpecInv, [Next]_vars PROVE SpecInv'
  OBVIOUS
<1>1. CASE Exec
  <2>1. PICK b \in {"system", "docker"}, d \in Descriptors :
            /\ backend' = b
            /\ spec' = [of |-> d, built |-> Layout(b, d)]
            /\ Goes(IF b = "system" THEN "start" ELSE "create")
    BY <1>1 DEF Exec
  <2>2. pc' # "idle"
    BY <2>1 DEF Goes
  <2>3. spec'.of \in Descriptors /\ spec'.built = Layout(backend', spec'.of)
    BY <2>1
  <2> QED
    BY <2>2, <2>3 DEF SpecInv
<1>2. CASE Refused
  BY <1>2 DEF Refused, Returns, SpecInv
<1>3. CASE Start \/ ContainerCreate
  BY <1>3 DEF Start, ContainerCreate, SpecInv
<1>4. CASE ReceiveDone \/ KillGroup \/ GiveUp
  <2>1. UNCHANGED <<backend, spec>> /\ pc' # "idle"
    BY <1>4 DEF ReceiveDone, KillGroup, GiveUp, Goes, Returns, callVars
  <2> QED
    BY <2>1 DEF SpecInv
<1>5. CASE ContainerAttach \/ ContainerStart \/ ContainerLogs \/ StreamEnds \/ StreamBreaks
           \/ ContainerInspect \/ Deferred
  <2>1. UNCHANGED <<backend, spec>> /\ pc' # "idle"
    BY <1>5 DEF ContainerAttach, ContainerStart, ContainerLogs, StreamEnds, StreamBreaks, ContainerInspect,
                Deferred, Goes, CleansUp, callVars
  <2> QED
    BY <2>1 DEF SpecInv
<1>6. CASE Goroutine \/ Processes \/ CopyOutput \/ streamStdin \/ ReadStdin \/ CallerCancels \/ UNCHANGED vars
  <2>1. UNCHANGED <<backend, spec, pc>>
    BY <1>6 DEF Goroutine, Processes, CommandContextKills, WaitReturns, WatcherStops, BinWrites, BinForks,
                ChildMoves, BinExits, Dies, CopyOutput, streamStdin, ReadStdin, CallerCancels, callVars, vars
  <2> QED
    BY <2>1 DEF SpecInv
<1> QED
  BY <1>1, <1>2, <1>3, <1>4, <1>5, <1>6 DEF Next, SystemStep, DockerStep

\* "the job sees the identical filesystem the agent's runtime sees" and the same
\* environment, for every descriptor, set of mounts, CONFIG, ENV and daemon pair.
THEOREM JobSeesAgentViewHolds == Spec => []JobSeesAgentView
<1>1. Init => SpecInv
  BY DEF Init, SpecInv
<1>2. SpecInv => JobSeesAgentView
  <2> SUFFICES ASSUME SpecInv, spec # None, backend = "docker", spec.of.rt.runtime # ""
               PROVE  LET agent == buildConfig(spec.of.rt, spec.of.fallback, spec.of.daemonURL, spec.of.agentToken)
                      IN  spec.built.host = agent.host /\ Effective(spec.built.env) = Effective(agent.env)
    BY DEF JobSeesAgentView
  <2>1. PICK d : d = spec.of
    OBVIOUS
  <2>2. PICK job : job = buildExecContainer(d.rt, d.fallback, "bin", d.daemonURL, d.agentToken)
    OBVIOUS
  <2>3. PICK agent : agent = buildConfig(d.rt, d.fallback, d.daemonURL, d.agentToken)
    OBVIOUS
  <2>4. Layout("docker", d) = [env |-> job.env, host |-> job.host]
    BY <2>2 DEF Layout
  <2>5. spec.built = Layout("docker", d)
    BY <2>1 DEF SpecInv
  <2>6. spec.built.env = job.env /\ spec.built.host = job.host
    <3>1. spec.built = [env |-> job.env, host |-> job.host]
      BY <2>4, <2>5, Zenon
    <3>2. PICK r : r = spec.built
      OBVIOUS
    <3>3. r.env = job.env /\ r.host = job.host
      BY ONLY <3>1, <3>2
    <3> QED
      BY <3>2, <3>3, Zenon
  <2>7. PICK rt : rt = d.rt
    OBVIOUS
  <2>8. PICK fb : fb = d.fallback
    OBVIOUS
  <2>9. PICK url : url = d.daemonURL
    OBVIOUS
  <2>10. PICK token : token = d.agentToken
    OBVIOUS
  <2>11. job = buildExecContainer(rt, fb, "bin", url, token) /\ agent = buildConfig(rt, fb, url, token)
    BY <2>2, <2>3, <2>7, <2>8, <2>9, <2>10, Zenon
  <2>12. rt.runtime # ""
    BY <2>1, <2>7, Zenon
  <2>13. job.host = agent.host /\ job.env = agent.env
    BY ONLY <2>11, <2>12, AssembliesAgree
  <2> QED
    BY <2>1, <2>3, <2>6, <2>13
<1> QED
  BY <1>1, <1>2, NextSpec, PTL DEF Spec

-----------------------------------------------------------------------------
(* The environment of a job.                                                  *)

\* Of two lists of variables, one after the other, the second wins.
LEMMA EffectiveConcat ==
    ASSUME NEW a, NEW b, IsSeq(a), IsSeq(b)
    PROVE  Effective(a \o b) =
              [n \in DOMAIN Effective(a) \cup DOMAIN Effective(b) |->
                  IF n \in DOMAIN Effective(b) THEN Effective(b)[n] ELSE Effective(a)[n]]
<1> DEFINE c == a \o b
           E == {a[i] : i \in DOMAIN a} \cup {b[i] : i \in DOMAIN b} \cup {c[i] : i \in DOMAIN c}
           K(n) == {e \in E : e.name = n}
           names(s) == {s[i].name : i \in DOMAIN s}
<1>1. ASSUME NEW s, {s[i] : i \in DOMAIN s} \subseteq E
      PROVE  /\ Effective(s) = [n \in names(s) |-> s[Max(Where(s, K(n)))].val]
             /\ \A n : n \in names(s) <=> Where(s, K(n)) # {}
  <2>1. \A n : {i \in DOMAIN s : s[i].name = n} = Where(s, K(n))
    <3> SUFFICES ASSUME NEW n PROVE {i \in DOMAIN s : s[i].name = n} = Where(s, {e \in E : e.name = n})
      OBVIOUS
    <3> HIDE DEF E
    <3> QED BY <1>1, {s[i] : i \in DOMAIN s} \subseteq E DEF Where
  <2> HIDE DEF K, E
  <2>2. Effective(s) = [n \in names(s) |-> s[Max(Where(s, K(n)))].val]
    BY <2>1 DEF Effective
  <2>3. \A n : n \in names(s) <=> Where(s, K(n)) # {}
    BY <2>1
  <2> QED BY <2>2, <2>3
<1>2. {a[i] : i \in DOMAIN a} \subseteq E /\ {b[i] : i \in DOMAIN b} \subseteq E /\ {c[i] : i \in DOMAIN c} \subseteq E
  OBVIOUS
<1> HIDE DEF E, K, c
<1>3. /\ Effective(a) = [n \in names(a) |-> a[Max(Where(a, K(n)))].val]
      /\ Effective(b) = [n \in names(b) |-> b[Max(Where(b, K(n)))].val]
      /\ Effective(c) = [n \in names(c) |-> c[Max(Where(c, K(n)))].val]
  BY <1>1, <1>2
<1>4. /\ \A n : n \in names(a) <=> Where(a, K(n)) # {}
      /\ \A n : n \in names(b) <=> Where(b, K(n)) # {}
      /\ \A n : n \in names(c) <=> Where(c, K(n)) # {}
  BY <1>1, <1>2
<1> HIDE DEF names
<1>5. /\ \A n : Where(b, K(n)) # {} => c[Max(Where(c, K(n)))] = b[Max(Where(b, K(n)))]
      /\ \A n : Where(b, K(n)) = {} /\ Where(a, K(n)) # {} => c[Max(Where(c, K(n)))] = a[Max(Where(a, K(n)))]
      /\ \A n : Where(c, K(n)) = {} <=> Where(a, K(n)) = {} /\ Where(b, K(n)) = {}
  BY LastOfConcat DEF c
<1>6. names(c) = names(a) \cup names(b)
  BY <1>4, <1>5
<1>7. \A n \in names(c) :
          c[Max(Where(c, K(n)))].val = IF n \in names(b) THEN b[Max(Where(b, K(n)))].val
                                       ELSE a[Max(Where(a, K(n)))].val
  BY <1>4, <1>5, <1>6
<1>8. Effective(c) = [n \in names(a) \cup names(b) |-> IF n \in names(b) THEN Effective(b)[n] ELSE Effective(a)[n]]
  BY <1>3, <1>6, <1>7
<1>9. DOMAIN Effective(a) = names(a) /\ DOMAIN Effective(b) = names(b)
  BY <1>3
<1> QED BY <1>8, <1>9 DEF c

\* A variable that occurs once has the value given there.
LEMMA EffectiveOnce ==
    ASSUME NEW s, IsSeq(s), NEW i \in DOMAIN s, \A j \in DOMAIN s : s[j].name = s[i].name => j = i
    PROVE  s[i].name \in DOMAIN Effective(s) /\ Effective(s)[s[i].name] = s[i].val
<1>1. DOMAIN s = 1 .. Len(s) /\ Len(s) \in Nat
  BY SeqFacts
<1>2. {j \in DOMAIN s : s[j].name = s[i].name} = {i}
  OBVIOUS
<1>3. Max({i}) = i
  BY <1>1, MaxIs
<1> QED BY <1>2, <1>3 DEF Effective

\* The values of the locked variables.
LockedVal(n, root, binDirs, url, token) ==
    CASE n[2] = "PATH" -> binDirs [] n[2] = "LANG" -> "C.UTF-8"
      [] n[2] = "OTTERSD_URL" -> url [] n[2] = "OTTERS_AGENT_TOKEN" -> token
      [] OTHER -> root

\* The list s gives every key[i] the value val[i], and nothing else.
Gives(s, N, key, val) ==
    /\ IsSeq(s)
    /\ DOMAIN Effective(s) = {<<"", key[i], "">> : i \in 1 .. N}
    /\ \A i \in 1 .. N : Effective(s)[<<"", key[i], "">>] = val[i]

\* So does a list of locked variables whose keys differ.
LEMMA EffectiveLocked ==
    ASSUME NEW N \in Nat, NEW key, NEW val, NEW s,
           s = [i \in 1 .. N |-> Locked(key[i], val[i])],
           \A i, j \in 1 .. N : key[i] = key[j] => i = j
    PROVE  Gives(s, N, key, val)
<1>1. DOMAIN s = 1 .. N /\ \A i \in 1 .. N : s[i].name = <<"", key[i], "">> /\ s[i].val = val[i]
  BY DEF Locked, Var
<1>7. \A i \in 1 .. N : s[i].name = <<"", key[i], "">>
  BY ONLY <1>1
<1>8. \A i \in 1 .. N : s[i].val = val[i]
  BY ONLY <1>1
<1>2. IsSeq(s)
  BY FunIsSeq
<1>3. \A i, j \in 1 .. N : s[i].name = s[j].name => i = j
  <2> SUFFICES ASSUME NEW i \in 1 .. N, NEW j \in 1 .. N, s[i].name = s[j].name PROVE i = j
    OBVIOUS
  <2>1. <<"", key[i], "">> = <<"", key[j], "">>
    BY <1>7
  <2>2. key[i] = key[j]
    BY <2>1
  <2> QED BY <2>2
<1>4. DOMAIN Effective(s) = {s[i].name : i \in DOMAIN s}
  BY DEF Effective
<1>5. DOMAIN Effective(s) = {<<"", key[i], "">> : i \in 1 .. N}
  BY ONLY <1>1, <1>7, <1>4
<1>6. \A i \in 1 .. N : Effective(s)[s[i].name] = s[i].val
  <2> SUFFICES ASSUME NEW i \in 1 .. N PROVE Effective(s)[s[i].name] = s[i].val
    OBVIOUS
  <2>1. i \in DOMAIN s /\ \A j \in DOMAIN s : s[j].name = s[i].name => j = i
    BY <1>1, <1>3
  <2> QED BY <1>2, <2>1, EffectiveOnce
<1> QED BY <1>7, <1>8, <1>2, <1>5, <1>6 DEF Gives

\* The keys that are locked: the callback pair only when both halves are there.
LockedKeys(url, token) ==
    reservedRuntimeEnvKeys \ (IF url # "" /\ token # "" THEN {} ELSE {"OTTERSD_URL", "OTTERS_AGENT_TOKEN"})

\* s sets the locked keys, and nothing else.
SetsLocked(s, root, binDirs, url, token) ==
    /\ IsSeq(s)
    /\ DOMAIN Effective(s) = {<<"", k, "">> : k \in LockedKeys(url, token)}
    /\ \A k \in LockedKeys(url, token) :
          Effective(s)[<<"", k, "">>] = LockedVal(<<"", k, "">>, root, binDirs, url, token)

\* BuildLockedEnv sets every locked key once.
LEMMA LockedEnv ==
    ASSUME NEW root, NEW binDirs, NEW url, NEW token, NEW s, s = BuildLockedEnv(root, binDirs, url, token)
    PROVE  SetsLocked(s, root, binDirs, url, token)
<1>1. PICK key : key = <<"PATH", "HOME", "XDG_CONFIG_HOME", "XDG_CACHE_HOME", "XDG_DATA_HOME", "TMPDIR", "LANG",
                         "OTTERS_AGENT_ROOT">>
  OBVIOUS
<1>2. PICK val : val = <<binDirs, root, root, root, root, root, "C.UTF-8", root>>
  OBVIOUS
<1>3. PICK a : a = <<Locked("PATH", binDirs), Locked("HOME", root), Locked("XDG_CONFIG_HOME", root),
                     Locked("XDG_CACHE_HOME", root), Locked("XDG_DATA_HOME", root), Locked("TMPDIR", root),
                     Locked("LANG", "C.UTF-8"), Locked("OTTERS_AGENT_ROOT", root)>>
  OBVIOUS
<1>4. a = [i \in 1 .. 8 |-> Locked(key[i], val[i])]
  BY <1>1, <1>2, <1>3
<1>5. \A i, j \in 1 .. 8 : key[i] = key[j] => i = j
  BY <1>1
<1>6. Gives(a, 8, key, val)
  BY ONLY <1>4, <1>5, EffectiveLocked
<1> USE DEF Gives
<1> DEFINE keys8 == reservedRuntimeEnvKeys \ {"OTTERSD_URL", "OTTERS_AGENT_TOKEN"}
<1>7. keys8 = {key[i] : i \in 1 .. 8}
  BY <1>1 DEF reservedRuntimeEnvKeys
<1>8. DOMAIN Effective(a) = {<<"", k, "">> : k \in keys8}
  BY <1>6, <1>7
<1>9. \A i \in 1 .. 8 : val[i] = LockedVal(<<"", key[i], "">>, root, binDirs, url, token)
  BY <1>1, <1>2 DEF LockedVal
<1>10. \A k \in keys8 : Effective(a)[<<"", k, "">>] = LockedVal(<<"", k, "">>, root, binDirs, url, token)
  BY <1>6, <1>7, <1>9
<1>11. CASE url = "" \/ token = ""
  <2>1. s = a \o <<>>
    BY <1>3, <1>11 DEF BuildLockedEnv
  <2>2. s = a
    BY <1>6, <2>1, ConcatEmpty
  <2>3. LockedKeys(url, token) = keys8
    BY <1>11 DEF LockedKeys
  <2> HIDE DEF keys8
  <2> QED BY <1>6, <1>8, <1>10, <2>2, <2>3 DEF SetsLocked
<1>12. CASE url # "" /\ token # ""
  <2>1. PICK pair : pair = <<Locked("OTTERSD_URL", url), Locked("OTTERS_AGENT_TOKEN", token)>>
    OBVIOUS
  <2>2. s = a \o pair
    BY <1>3, <1>12, <2>1 DEF BuildLockedEnv
  <2>3. PICK key2 : key2 = <<"OTTERSD_URL", "OTTERS_AGENT_TOKEN">>
    OBVIOUS
  <2>4. PICK val2 : val2 = <<url, token>>
    OBVIOUS
  <2>5. pair = [i \in 1 .. 2 |-> Locked(key2[i], val2[i])]
    BY <2>1, <2>3, <2>4
  <2>18. \A i, j \in 1 .. 2 : key2[i] = key2[j] => i = j
    BY <2>3
  <2>6. Gives(pair, 2, key2, val2)
    <3> HIDE DEF Gives
    <3> QED BY <2>5, <2>18, EffectiveLocked
  <2> DEFINE keys2 == {"OTTERSD_URL", "OTTERS_AGENT_TOKEN"}
  <2>7. keys2 = {key2[i] : i \in 1 .. 2}
    BY <2>3
  <2>8. DOMAIN Effective(pair) = {<<"", k, "">> : k \in keys2}
    BY <2>6, <2>7
  <2>9. \A i \in 1 .. 2 : val2[i] = LockedVal(<<"", key2[i], "">>, root, binDirs, url, token)
    BY <2>3, <2>4 DEF LockedVal
  <2>10. \A k \in keys2 : Effective(pair)[<<"", k, "">>] = LockedVal(<<"", k, "">>, root, binDirs, url, token)
    BY <2>6, <2>7, <2>9
  <2>11. LockedKeys(url, token) = keys8 \cup keys2 /\ keys8 \cap keys2 = {}
    BY <1>12 DEF LockedKeys, reservedRuntimeEnvKeys
  <2> HIDE DEF keys8, keys2
  <2>12. \A k1, k2 : <<"", k1, "">> = <<"", k2, "">> => k1 = k2
    OBVIOUS
  <2>17. IsSeq(a) /\ IsSeq(pair) /\ IsSeq(s)
    BY <1>6, <2>2, <2>6, Concat
  <2>13. Effective(s) =
              [n \in DOMAIN Effective(a) \cup DOMAIN Effective(pair) |->
                  IF n \in DOMAIN Effective(pair) THEN Effective(pair)[n] ELSE Effective(a)[n]]
    BY ONLY <2>2, <2>17, EffectiveConcat, ZenonT(60)
  <2>14. DOMAIN Effective(s) = {<<"", k, "">> : k \in LockedKeys(url, token)}
    BY <1>8, <2>8, <2>11, <2>13
  <2>15. \A k \in keys2 : Effective(s)[<<"", k, "">>] = Effective(pair)[<<"", k, "">>]
    BY <2>8, <2>13
  <2>16. \A k \in keys8 : Effective(s)[<<"", k, "">>] = Effective(a)[<<"", k, "">>]
    <3> SUFFICES ASSUME NEW k \in keys8 PROVE Effective(s)[<<"", k, "">>] = Effective(a)[<<"", k, "">>]
      OBVIOUS
    <3>1. <<"", k, "">> \in DOMAIN Effective(a)
      BY <1>8
    <3>2. <<"", k, "">> \notin DOMAIN Effective(pair)
      BY <2>8, <2>11, <2>12
    <3> QED BY <3>1, <3>2, <2>13
  <2> QED BY <1>10, <2>10, <2>11, <2>14, <2>15, <2>16, <2>17 DEF SetsLocked
<1> QED BY <1>11, <1>12

\* The list s has the value v of one credential, when there is one.
GivesCredential(s, n, v, given) ==
    /\ IsSeq(s)
    /\ given => DOMAIN Effective(s) = {n} /\ Effective(s)[n] = v
    /\ ~given => DOMAIN Effective(s) = {}

\* Such is Credential.
LEMMA OneCredential ==
    ASSUME NEW provider, NEW suffix, NEW val
    PROVE  GivesCredential(Credential(provider, suffix, val), <<"", provider, suffix>>, val,
                           provider # "" /\ val # "")
<1>1. PICK s : s = Credential(provider, suffix, val)
  OBVIOUS
<1>2. CASE provider = "" \/ val = ""
  <2>1. s = <<>>
    BY <1>1, <1>2 DEF Credential
  <2>2. IsSeq(s) /\ DOMAIN s = {}
    BY <2>1, ShortSeqs
  <2>3. DOMAIN Effective(s) = {}
    BY <2>2 DEF Effective
  <2> QED BY <1>1, <1>2, <2>2, <2>3 DEF GivesCredential
<1>3. CASE provider # "" /\ val # ""
  <2>1. PICK n : n = <<"", provider, suffix>>
    OBVIOUS
  <2>2. s = <<Var(n, val)>>
    BY <1>1, <1>3, <2>1 DEF Credential
  <2>3. DOMAIN s = {1} /\ s[1].name = n /\ s[1].val = val
    <3>1. DOMAIN s = {1} /\ s[1] = Var(n, val)
      BY ONLY <2>2, ShortSeqs
    <3>2. Var(n, val).name = n /\ Var(n, val).val = val
      BY DEF Var
    <3> QED BY ONLY <3>1, <3>2
  <2>4. IsSeq(s)
    BY <2>2, ShortSeqs
  <2>5. DOMAIN Effective(s) = {n} /\ Effective(s)[n] = val
    <3>1. 1 \in DOMAIN s /\ \A j \in DOMAIN s : s[j].name = s[1].name => j = 1
      BY <2>3
    <3>2. Effective(s)[s[1].name] = s[1].val
      BY <2>4, <3>1, EffectiveOnce
    <3>3. DOMAIN Effective(s) = {s[i].name : i \in DOMAIN s}
      BY DEF Effective
    <3> QED BY <2>3, <3>2, <3>3
  <2> QED BY <1>1, <1>3, <2>1, <2>4, <2>5 DEF GivesCredential
<1> QED BY <1>2, <1>3

\* A credential of the provider, and those that are known.
CredentialVal(rt, x) == IF x = "_API_KEY" THEN rt.key ELSE rt.base
Known(rt) == {x \in {"_API_KEY", "_API_BASE"} : rt.provider # "" /\ CredentialVal(rt, x) # ""}

\* Credentials sets those that are known.
LEMMA CredentialsEnv ==
    ASSUME NEW rt, NEW s, s = Credentials(rt)
    PROVE  /\ IsSeq(s)
           /\ DOMAIN Effective(s) = {<<"", rt.provider, x>> : x \in Known(rt)}
           /\ \A x \in Known(rt) : Effective(s)[<<"", rt.provider, x>>] = CredentialVal(rt, x)
<1>1. PICK p : p = rt.provider
  OBVIOUS
<1>2. PICK kv : kv = rt.key
  OBVIOUS
<1>3. PICK bv : bv = rt.base
  OBVIOUS
<1>4. PICK kn : kn = <<"", p, "_API_KEY">>
  OBVIOUS
<1>5. PICK bn : bn = <<"", p, "_API_BASE">>
  OBVIOUS
<1>6. PICK a : a = Credential(p, "_API_KEY", kv)
  OBVIOUS
<1>7. PICK b : b = Credential(p, "_API_BASE", bv)
  OBVIOUS
<1>8. s = a \o b
  BY <1>1, <1>2, <1>3, <1>6, <1>7 DEF Credentials
<1>9. "_API_KEY" \in Known(rt) <=> p # "" /\ kv # ""
  BY <1>1, <1>2 DEF Known, CredentialVal
<1>10. "_API_BASE" \in Known(rt) <=> p # "" /\ bv # ""
  BY <1>1, <1>3 DEF Known, CredentialVal
<1>11. GivesCredential(a, kn, kv, p # "" /\ kv # "") /\ GivesCredential(b, bn, bv, p # "" /\ bv # "")
  BY <1>4, <1>5, <1>6, <1>7, OneCredential
<1>12. IsSeq(a) /\ IsSeq(b)
  BY <1>11 DEF GivesCredential
<1>13. /\ "_API_KEY" \in Known(rt) => DOMAIN Effective(a) = {kn} /\ Effective(a)[kn] = kv
       /\ "_API_KEY" \notin Known(rt) => DOMAIN Effective(a) = {}
       /\ "_API_BASE" \in Known(rt) => DOMAIN Effective(b) = {bn} /\ Effective(b)[bn] = bv
       /\ "_API_BASE" \notin Known(rt) => DOMAIN Effective(b) = {}
  BY <1>9, <1>10, <1>11 DEF GivesCredential
<1>14. IsSeq(s)
  BY <1>8, <1>12, Concat
<1>15. Effective(s) = [n \in DOMAIN Effective(a) \cup DOMAIN Effective(b) |->
                          IF n \in DOMAIN Effective(b) THEN Effective(b)[n] ELSE Effective(a)[n]]
  BY ONLY <1>8, <1>12, EffectiveConcat, ZenonT(60)
<1>16. kn # bn
  BY <1>4, <1>5
<1>17. Known(rt) \subseteq {"_API_KEY", "_API_BASE"}
  BY DEF Known
<1>18. DOMAIN Effective(s) = DOMAIN Effective(a) \cup DOMAIN Effective(b)
  BY <1>15
<1>19. \A n : n \in {<<"", p, x>> : x \in Known(rt)} <=>
            (n = kn /\ "_API_KEY" \in Known(rt)) \/ (n = bn /\ "_API_BASE" \in Known(rt))
  BY <1>4, <1>5, <1>17
<1>20. DOMAIN Effective(s) = {<<"", p, x>> : x \in Known(rt)}
  BY <1>13, <1>18, <1>19
<1>21. "_API_KEY" \in Known(rt) => Effective(s)[kn] = kv
  BY <1>13, <1>15, <1>16
<1>22. "_API_BASE" \in Known(rt) => Effective(s)[bn] = bv
  BY <1>13, <1>15
<1>23. CredentialVal(rt, "_API_KEY") = kv /\ CredentialVal(rt, "_API_BASE") = bv
  BY <1>2, <1>3 DEF CredentialVal
<1>24. \A x \in Known(rt) : Effective(s)[<<"", p, x>>] = CredentialVal(rt, x)
  BY <1>4, <1>5, <1>17, <1>21, <1>22, <1>23
<1> QED BY <1>1, <1>14, <1>20, <1>24

\* The positions of the CONFIG keys that are exported as n.
Exported(keep, n) == {i \in DOMAIN ConfigKeys : ConfigKeys[i] \in keep /\ configKeyToEnv(ConfigKeys[i]) = n}

\* s is what AppendConfigEnv appends: the exports of the keys in keep.
ExportsConfigs(s, configs, keep) ==
    /\ IsSeq(s)
    /\ \A env : AppendConfigEnv(env, configs) = env \o s
    /\ DOMAIN Effective(s) = {configKeyToEnv(k) : k \in keep}
    /\ \A n \in DOMAIN Effective(s) : Effective(s)[n] = configs[ConfigKeys[Max(Exported(keep, n))]]

\* The exports of the CONFIG entries: of the keys that are rewritten to one name
\* the last in the order of ConfigKeys counts.
LEMMA ConfigEnv ==
    ASSUME NEW configs, DOMAIN configs \subseteq {ConfigKeys[i] : i \in DOMAIN ConfigKeys},
           NEW keep, keep = DOMAIN configs \ {""}
    PROVE  \E s : ExportsConfigs(s, configs, keep)
<1>1. IsSeq(ConfigKeys) /\ Len(ConfigKeys) \in Nat /\ DOMAIN ConfigKeys = 1 .. Len(ConfigKeys)
  BY LayoutAssumption, SeqIsSeq, SeqFacts
<1>2. PICK given : given = {i \in DOMAIN ConfigKeys : ConfigKeys[i] \in DOMAIN configs /\ ConfigKeys[i] # ""}
  OBVIOUS
<1>3. PICK keys : keys = Subsequence(ConfigKeys, given)
  OBVIOUS
<1>4. given \subseteq 1 .. Len(ConfigKeys)
  BY <1>1, <1>2
<1>5. HasJust(keys, ConfigKeys, given)
  BY <1>1, <1>3, <1>4, SubsequenceIsSeq
<1>6. IsSeq(keys) /\ DOMAIN keys = 1 .. Len(keys) /\ Len(keys) \in Nat
  BY <1>5, SeqFacts DEF HasJust
<1>7. PICK s : s = [i \in DOMAIN keys |-> Var(configKeyToEnv(keys[i]), configs[keys[i]])]
  OBVIOUS
<1>8. DOMAIN s = DOMAIN keys /\ IsSeq(s)
  <2>1. DOMAIN s = 1 .. Len(keys) /\ s = [i \in 1 .. Len(keys) |-> s[i]]
    BY <1>6, <1>7
  <2> QED BY <1>6, <2>1, FunIsSeq
<1>9. \A i \in DOMAIN keys : s[i].name = configKeyToEnv(keys[i]) /\ s[i].val = configs[keys[i]]
  BY <1>7 DEF Var
<1>10. \A env : AppendConfigEnv(env, configs) = env \o s
  BY <1>2, <1>3, <1>7 DEF AppendConfigEnv
<1>11. {keys[i] : i \in DOMAIN keys} = keep
  <2>1. \A i \in given : ConfigKeys[i] \in keep
    BY <1>2
  <2>2. \A k \in keep : \E i \in given : ConfigKeys[i] = k
    BY <1>2
  <2>3. \A i \in DOMAIN keys : keys[i] \in keep
    BY <1>5, <2>1 DEF HasJust
  <2>4. \A k \in keep : \E i \in DOMAIN keys : keys[i] = k
    <3> SUFFICES ASSUME NEW k \in keep PROVE \E i \in DOMAIN keys : keys[i] = k
      OBVIOUS
    <3>1. PICK i \in given : ConfigKeys[i] = k
      BY <2>2
    <3>2. \E j \in DOMAIN keys : keys[j] = ConfigKeys[i]
      BY <1>5 DEF HasJust
    <3> QED BY <3>1, <3>2
  <2> QED BY ONLY <2>3, <2>4
<1>12. DOMAIN Effective(s) = {s[i].name : i \in DOMAIN s}
  BY DEF Effective
<1>13. DOMAIN Effective(s) = {configKeyToEnv(k) : k \in keep}
  <2>1. \A n \in DOMAIN Effective(s) : \E k \in keep : n = configKeyToEnv(k)
    <3> SUFFICES ASSUME NEW n \in DOMAIN Effective(s) PROVE \E k \in keep : n = configKeyToEnv(k)
      OBVIOUS
    <3>1. PICK i \in DOMAIN s : n = s[i].name
      BY <1>12
    <3>2. i \in DOMAIN keys /\ keys[i] \in keep /\ s[i].name = configKeyToEnv(keys[i])
      BY <1>8, <1>9, <1>11, <3>1
    <3> QED BY ONLY <3>1, <3>2
  <2>2. \A k \in keep : configKeyToEnv(k) \in DOMAIN Effective(s)
    <3> SUFFICES ASSUME NEW k \in keep PROVE configKeyToEnv(k) \in DOMAIN Effective(s)
      OBVIOUS
    <3>1. PICK i \in DOMAIN keys : keys[i] = k
      BY <1>11
    <3>2. s[i].name = configKeyToEnv(k) /\ i \in DOMAIN s
      BY <1>8, <1>9, <3>1
    <3> QED BY <1>12, <3>2
  <2> QED BY ONLY <2>1, <2>2
<1>14. ASSUME NEW n \in DOMAIN Effective(s) PROVE Effective(s)[n] = configs[ConfigKeys[Max(Exported(keep, n))]]
  <2>1. PICK K : K = {k \in keep : configKeyToEnv(k) = n}
    OBVIOUS
  <2>2. {i \in DOMAIN s : s[i].name = n} = Where(keys, K)
    <3>1. \A i \in DOMAIN keys : keys[i] \in keep
      BY <1>11
    <3>2. \A i \in DOMAIN keys : s[i].name = n <=> keys[i] \in K
      BY <1>9, <2>1, <3>1
    <3> QED BY <1>8, <3>2 DEF Where
  <2>3. Exported(keep, n) = {i \in given : ConfigKeys[i] \in K}
    BY <1>2, <2>1 DEF Exported
  <2>4. Where(keys, K) # {}
    BY <1>12, <2>2
  <2>5. /\ Where(keys, K) = {} <=> Exported(keep, n) = {}
        /\ Exported(keep, n) # {} => keys[Max(Where(keys, K))] = ConfigKeys[Max(Exported(keep, n))]
    <3>1. PICK n0 \in Nat : given \subseteq 1 .. n0
      BY <1>1, <1>4
    <3>2. PICK J : J = {i \in given : ConfigKeys[i] \in K}
      OBVIOUS
    <3>3. SameLast(Subsequence(ConfigKeys, given), ConfigKeys, K, J)
      BY ONLY <3>1, <3>2, LastOfSubsequence
    <3> QED BY <1>3, <2>3, <3>2, <3>3 DEF SameLast
  <2>6. Max(Where(keys, K)) \in Where(keys, K)
    <3>1. Where(keys, K) \subseteq 1 .. Len(keys)
      BY <1>6 DEF Where
    <3> QED BY <1>6, <2>4, <3>1, MaxFacts
  <2>7. Effective(s)[n] = s[Max(Where(keys, K))].val
    BY <1>12, <2>2 DEF Effective
  <2>8. s[Max(Where(keys, K))].val = configs[keys[Max(Where(keys, K))]]
    BY <1>9, <2>6 DEF Where
  <2> QED BY <2>4, <2>5, <2>7, <2>8
<1> QED BY <1>8, <1>10, <1>13, <1>14 DEF ExportsConfigs

\* The positions of the ENV entries that are passed on.
UserPos(envs) == {i \in DOMAIN envs : envs[i].name # NoName /\ ~isReservedEnvKey(envs[i].name)}

\* s is what AppendUserEnv appends.
PassesUser(s, envs) ==
    /\ IsSeq(s)
    /\ \A env : AppendUserEnv(env, envs) = env \o s
    /\ DOMAIN Effective(s) = {envs[i].name : i \in UserPos(envs)}
    /\ \A n \in DOMAIN Effective(s) : Effective(s)[n] = envs[Max({i \in UserPos(envs) : envs[i].name = n})].val

\* Of the ENV entries with one name the last counts.
LEMMA UserEnv == ASSUME NEW envs, IsSeq(envs) PROVE \E s : PassesUser(s, envs)
<1>1. Len(envs) \in Nat /\ DOMAIN envs = 1 .. Len(envs)
  BY SeqFacts
<1>2. PICK I : I = UserPos(envs)
  OBVIOUS
<1>3. PICK n0 \in Nat : I \subseteq 1 .. n0
  BY <1>1, <1>2 DEF UserPos
<1>4. PICK s : s = Subsequence(envs, I)
  OBVIOUS
<1>5. HasJust(s, envs, I)
  BY ONLY <1>3, <1>4, SubsequenceIsSeq
<1>6. IsSeq(s) /\ Len(s) \in Nat /\ DOMAIN s = 1 .. Len(s)
  BY <1>5, SeqFacts DEF HasJust
<1>7. \A env : AppendUserEnv(env, envs) = env \o s
  BY <1>2, <1>4 DEF AppendUserEnv, UserPos
<1>8. DOMAIN Effective(s) = {s[i].name : i \in DOMAIN s}
  BY DEF Effective
<1>9. DOMAIN Effective(s) = {envs[i].name : i \in I}
  <2>1. \A n \in DOMAIN Effective(s) : n \in {envs[i].name : i \in I}
    BY <1>5, <1>8 DEF HasJust
  <2>2. \A i \in I : \E k \in DOMAIN s : s[k].name = envs[i].name
    BY <1>5 DEF HasJust
  <2>3. \A i \in I : envs[i].name \in DOMAIN Effective(s)
    BY <1>8, <2>2
  <2> QED BY <2>1, <2>3
<1>10. ASSUME NEW n \in DOMAIN Effective(s) PROVE Effective(s)[n] = envs[Max({i \in I : envs[i].name = n})].val
  <2>1. PICK K : K = {e \in {envs[i] : i \in I} : e.name = n}
    OBVIOUS
  <2>2. PICK J : J = {i \in I : envs[i].name = n}
    OBVIOUS
  <2>3. J = {i \in I : envs[i] \in K}
    BY <2>1, <2>2
  <2>4. SameLast(s, envs, K, J)
    BY ONLY <1>3, <1>4, <2>3, LastOfSubsequence
  <2>5. \A k \in DOMAIN s : s[k] \in {envs[i] : i \in I}
    BY <1>5 DEF HasJust
  <2>6. {k \in DOMAIN s : s[k].name = n} = Where(s, K)
    BY <2>1, <2>5 DEF Where
  <2>7. J # {}
    BY <1>9, <2>2
  <2>8. Effective(s)[n] = s[Max(Where(s, K))].val
    BY <1>8, <2>6 DEF Effective
  <2> QED BY <2>2, <2>4, <2>7, <2>8 DEF SameLast
<1> QED BY <1>2, <1>6, <1>7, <1>9, <1>10 DEF PassesUser

\* ExpectedEnv, of the names of each kind.
ByKind(L, C, U, F, keep, rt, root, binDirs, url, token) ==
    [n \in L \cup C \cup U \cup F |->
        CASE n \in L -> LockedVal(n, root, binDirs, url, token)
          [] n \in C -> CredentialVal(rt, n[3])
          [] n \in U -> rt.envs[Max({i \in UserPos(rt.envs) : rt.envs[i].name = n})].val
          [] OTHER -> rt.configs[ConfigKeys[Max(Exported(keep, n))]]]

\* The assembly that both backends share: for every descriptor the environment
\* is the expected one.
LEMMA AssembledEnv ==
    ASSUME NEW rt, NEW root, NEW binDirs, NEW url, NEW token, IsSeq(rt.envs),
           DOMAIN rt.configs \subseteq {ConfigKeys[i] : i \in DOMAIN ConfigKeys}
    PROVE  Effective(AppendUserEnv(AppendConfigEnv(BuildLockedEnv(root, binDirs, url, token) \o Credentials(rt),
                                                   rt.configs), rt.envs))
              = ExpectedEnv(rt, root, binDirs, url, token)
<1>1. PICK l : l = BuildLockedEnv(root, binDirs, url, token)
  OBVIOUS
<1>2. PICK c : c = Credentials(rt)
  OBVIOUS
<1>3. PICK keep : keep = DOMAIN rt.configs \ {""}
  OBVIOUS
<1>4. PICK f : ExportsConfigs(f, rt.configs, keep)
  BY <1>3, ConfigEnv
<1>5. PICK u : PassesUser(u, rt.envs)
  BY UserEnv
<1>6. PICK L : L = DOMAIN Effective(l)
  OBVIOUS
<1>7. PICK C : C = DOMAIN Effective(c)
  OBVIOUS
<1>8. PICK F : F = DOMAIN Effective(f)
  OBVIOUS
<1>9. PICK U : U = DOMAIN Effective(u)
  OBVIOUS
<1>10. /\ IsSeq(l) /\ L = {<<"", k, "">> : k \in LockedKeys(url, token)}
       /\ \A k \in LockedKeys(url, token) :
             Effective(l)[<<"", k, "">>] = LockedVal(<<"", k, "">>, root, binDirs, url, token)
  <2>1. SetsLocked(l, root, binDirs, url, token)
    BY ONLY <1>1, LockedEnv
  <2> QED BY <1>6, <2>1 DEF SetsLocked
<1>11. /\ IsSeq(c) /\ C = {<<"", rt.provider, x>> : x \in Known(rt)}
       /\ \A x \in Known(rt) : Effective(c)[<<"", rt.provider, x>>] = CredentialVal(rt, x)
  BY <1>2, <1>7, CredentialsEnv
<1>12. /\ IsSeq(f) /\ F = {configKeyToEnv(k) : k \in keep}
       /\ \A n \in F : Effective(f)[n] = rt.configs[ConfigKeys[Max(Exported(keep, n))]]
  BY <1>4, <1>8 DEF ExportsConfigs
<1>13. /\ IsSeq(u) /\ U = {rt.envs[i].name : i \in UserPos(rt.envs)}
       /\ \A n \in U : Effective(u)[n] = rt.envs[Max({i \in UserPos(rt.envs) : rt.envs[i].name = n})].val
  BY <1>5, <1>9 DEF PassesUser
<1>14. \A n \in L : n[1] = "" /\ n[3] = "" /\ n[2] \in reservedRuntimeEnvKeys
  <2>1. \A k : <<"", k, "">>[1] = "" /\ <<"", k, "">>[2] = k /\ <<"", k, "">>[3] = ""
    OBVIOUS
  <2>2. \A k \in LockedKeys(url, token) : k \in reservedRuntimeEnvKeys
    BY DEF LockedKeys
  <2>3. \A n \in L : \E k \in LockedKeys(url, token) : n = <<"", k, "">>
    BY <1>10
  <2> QED BY ONLY <2>1, <2>2, <2>3
<1>15. \A n \in C : n[1] = "" /\ n[3] \in {"_API_KEY", "_API_BASE"}
  <2>2. \A k \in Known(rt) : k \in {"_API_KEY", "_API_BASE"}
    BY DEF Known
  <2>3. \A n \in C : \E k \in Known(rt) : n = <<"", rt.provider, k>>
    BY <1>11
  <2> SUFFICES ASSUME NEW n \in C PROVE n[1] = "" /\ n[3] \in {"_API_KEY", "_API_BASE"}
    OBVIOUS
  <2>4. PICK k \in Known(rt) : n = <<"", rt.provider, k>>
    BY <2>3
  <2>5. n[1] = "" /\ n[3] = k
    BY ONLY <2>4
  <2> QED BY <2>2, <2>5
<1>16. \A n \in F : n[1] = "RUNTIME_"
  BY <1>12 DEF configKeyToEnv
<1>17. \A n \in U : ~isReservedEnvKey(n)
  BY <1>13 DEF UserPos
<1>18. \A n \in L : n \notin C /\ n \notin F /\ n \notin U
  BY <1>14, <1>15, <1>16, <1>17 DEF isReservedEnvKey
<1>19. \A n \in C : n \notin F /\ n \notin U
  BY <1>15, <1>16, <1>17 DEF isReservedEnvKey
<1>20. PICK lc : lc = l \o c
  OBVIOUS
<1>21. PICK lcf : lcf = lc \o f
  OBVIOUS
<1>22. PICK e : e = lcf \o u
  OBVIOUS
<1>23. AppendUserEnv(AppendConfigEnv(l \o c, rt.configs), rt.envs) = e
  BY <1>4, <1>5, <1>20, <1>21, <1>22 DEF ExportsConfigs, PassesUser
<1>24. IsSeq(lc) /\ IsSeq(lcf)
  BY <1>10, <1>11, <1>12, <1>20, <1>21, Concat
<1>25. Effective(lc) = [n \in L \cup C |-> IF n \in C THEN Effective(c)[n] ELSE Effective(l)[n]]
  <2>1. IsSeq(l) /\ IsSeq(c)
    BY <1>10, <1>11
  <2>2. Effective(lc) = [n \in DOMAIN Effective(l) \cup DOMAIN Effective(c) |->
            IF n \in DOMAIN Effective(c) THEN Effective(c)[n] ELSE Effective(l)[n]]
    BY ONLY <1>20, <2>1, EffectiveConcat, ZenonT(60)
  <2> QED BY ONLY <1>6, <1>7, <2>2
<1>26. DOMAIN Effective(lc) = L \cup C
  BY <1>25
<1>27. Effective(lcf) = [n \in (L \cup C) \cup F |-> IF n \in F THEN Effective(f)[n] ELSE Effective(lc)[n]]
  <2>1. IsSeq(lc) /\ IsSeq(f)
    BY <1>12, <1>24
  <2>2. Effective(lcf) = [n \in DOMAIN Effective(lc) \cup DOMAIN Effective(f) |->
            IF n \in DOMAIN Effective(f) THEN Effective(f)[n] ELSE Effective(lc)[n]]
    BY ONLY <1>21, <2>1, EffectiveConcat, ZenonT(60)
  <2> QED BY ONLY <1>26, <1>8, <2>2
<1>28. DOMAIN Effective(lcf) = (L \cup C) \cup F
  BY <1>27
<1>29. Effective(e) = [n \in ((L \cup C) \cup F) \cup U |-> IF n \in U THEN Effective(u)[n] ELSE Effective(lcf)[n]]
  <2>1. IsSeq(lcf) /\ IsSeq(u)
    BY <1>13, <1>24
  <2>2. Effective(e) = [n \in DOMAIN Effective(lcf) \cup DOMAIN Effective(u) |->
            IF n \in DOMAIN Effective(u) THEN Effective(u)[n] ELSE Effective(lcf)[n]]
    BY ONLY <1>22, <2>1, EffectiveConcat, ZenonT(60)
  <2> QED BY ONLY <1>28, <1>9, <2>2
<1>30. PICK x : x = ExpectedEnv(rt, root, binDirs, url, token)
  OBVIOUS
<1>31. x = ByKind(L, C, U, F, keep, rt, root, binDirs, url, token)
  <2>1. x = ByKind({<<"", k, "">> : k \in LockedKeys(url, token)}, {<<"", rt.provider, s>> : s \in Known(rt)},
                   {rt.envs[i].name : i \in UserPos(rt.envs)}, {configKeyToEnv(k) : k \in DOMAIN rt.configs \ {""}},
                   DOMAIN rt.configs \ {""}, rt, root, binDirs, url, token)
    BY <1>30 DEF ExpectedEnv, LockedVal, LockedKeys, CredentialVal, Known, UserPos, Exported, ByKind
  <2>2. /\ L = {<<"", k, "">> : k \in LockedKeys(url, token)} /\ C = {<<"", rt.provider, s>> : s \in Known(rt)}
        /\ U = {rt.envs[i].name : i \in UserPos(rt.envs)}
    BY <1>10, <1>11, <1>13
  <2>3. F = {configKeyToEnv(k) : k \in DOMAIN rt.configs \ {""}}
    BY <1>3, <1>12
  <2> QED BY ONLY <1>3, <2>1, <2>2, <2>3
<1>32. \A n \in L : Effective(e)[n] = x[n]
  <2> SUFFICES ASSUME NEW n \in L PROVE Effective(e)[n] = x[n]
    OBVIOUS
  <2>1. Effective(e)[n] = Effective(l)[n]
    BY <1>18, <1>25, <1>27, <1>29
  <2>2. Effective(l)[n] = LockedVal(n, root, binDirs, url, token)
    BY <1>10
  <2>3. x[n] = LockedVal(n, root, binDirs, url, token)
    BY <1>18, <1>31 DEF ByKind
  <2> QED BY <2>1, <2>2, <2>3
<1>33. \A n \in C : Effective(e)[n] = x[n]
  <2> SUFFICES ASSUME NEW n \in C PROVE Effective(e)[n] = x[n]
    OBVIOUS
  <2>1. Effective(e)[n] = Effective(c)[n]
    BY <1>19, <1>25, <1>27, <1>29
  <2>2. Effective(c)[n] = CredentialVal(rt, n[3])
    <3>1. PICK k \in Known(rt) : n = <<"", rt.provider, k>>
      BY <1>11
    <3>2. n[3] = k
      BY <3>1
    <3> QED BY <1>11, <3>1, <3>2
  <2>3. x[n] = CredentialVal(rt, n[3])
    BY <1>18, <1>19, <1>31 DEF ByKind
  <2> QED BY <2>1, <2>2, <2>3
<1>34. \A n \in U : Effective(e)[n] = x[n]
  <2> SUFFICES ASSUME NEW n \in U PROVE Effective(e)[n] = x[n]
    OBVIOUS
  <2>1. Effective(e)[n] = Effective(u)[n]
    BY <1>29
  <2>2. n \notin L /\ n \notin C
    BY <1>18, <1>19
  <2>3. x[n] = rt.envs[Max({i \in UserPos(rt.envs) : rt.envs[i].name = n})].val
    BY <1>31, <2>2 DEF ByKind
  <2> QED BY <1>13, <2>1, <2>3
<1>35. \A n \in F : n \notin U => Effective(e)[n] = x[n]
  <2> SUFFICES ASSUME NEW n \in F, n \notin U PROVE Effective(e)[n] = x[n]
    OBVIOUS
  <2>1. Effective(e)[n] = Effective(f)[n]
    BY <1>27, <1>29
  <2>2. n \notin L /\ n \notin C
    BY <1>18, <1>19
  <2>3. x[n] = rt.configs[ConfigKeys[Max(Exported(keep, n))]]
    BY <1>31, <2>2 DEF ByKind
  <2> QED BY <1>12, <2>1, <2>3
<1>36. DOMAIN Effective(e) = DOMAIN x /\ DOMAIN x = L \cup C \cup U \cup F
  BY <1>29, <1>31 DEF ByKind
<1>37. \A n \in DOMAIN x : Effective(e)[n] = x[n]
  BY <1>32, <1>33, <1>34, <1>35, <1>36
<1>38. Effective(e) = [n \in DOMAIN Effective(e) |-> Effective(e)[n]] /\ x = [n \in DOMAIN x |-> x[n]]
  BY <1>29, <1>31 DEF ByKind
<1>39. Effective(e) = x
  BY ONLY <1>36, <1>37, <1>38
<1> QED BY <1>1, <1>2, <1>23, <1>30, <1>39

\* For every descriptor, whatever its CONFIG, ENV, provider and daemon pair, both
\* backends hand a job exactly the expected environment: no ENV entry redefines
\* a locked variable or a credential, ENV overrides CONFIG, and nothing else is
\* there (AppendUserEnv and AppendConfigEnv of env.go), the names apart that a
\* CONFIG and an ENV with a reserved name both give.
THEOREM JobEnvIsExpectedHolds == Spec => []JobEnvIsExpected
<1>1. Init => SpecInv
  BY DEF Init, SpecInv
<1>2. SpecInv => JobEnvIsExpected
  <2> SUFFICES ASSUME SpecInv, spec # None
               PROVE  JobEnvIsExpected
    BY DEF JobEnvIsExpected
  <2>1. PICK d : d = spec.of
    OBVIOUS
  <2>2. d \in Descriptors /\ spec.built = Layout(backend, d)
    BY <2>1 DEF SpecInv
  <2>3. /\ IsSeq(d.rt.envs)
        /\ DOMAIN d.rt.configs \subseteq {ConfigKeys[i] : i \in DOMAIN ConfigKeys}
    BY <2>2, JobAssumption, SeqIsSeq
  <2>4. CASE backend = "system"
    <3>1. spec.built.env = buildCmdEnv(d.rt, "root", d.daemonURL, d.agentToken)
      BY <2>2, <2>4 DEF Layout
    <3>2. Effective(spec.built.env) = ExpectedEnv(d.rt, "root", "usr/bin", d.daemonURL, d.agentToken)
      BY <2>3, <3>1, AssembledEnv DEF buildCmdEnv
    <3> QED BY <2>1, <2>4, <3>2 DEF JobEnvIsExpected
  <2>5. CASE backend # "system"
    <3>1. PICK url : url = IF d.daemonURL = "unix" THEN "unix:///run/ottersd.sock" ELSE d.daemonURL
      OBVIOUS
    <3>2. daemonAccess(d.daemonURL).url = url
      BY <3>1 DEF daemonAccess
    <3>3. spec.built.env = AppendUserEnv(AppendConfigEnv(
              BuildLockedEnv("/", "/opt/bins", url, d.agentToken) \o Credentials(d.rt), d.rt.configs), d.rt.envs)
      <4>1. PICK job : job = buildExecContainer(d.rt, d.fallback, "bin", d.daemonURL, d.agentToken)
        OBVIOUS
      <4>2. spec.built.env = job.env
        BY <2>2, <2>5, <4>1 DEF Layout
      <4>3. job.env = AppendUserEnv(AppendConfigEnv(
                BuildLockedEnv("/", "/opt/bins", daemonAccess(d.daemonURL).url, d.agentToken)
                \o Credentials(d.rt), d.rt.configs), d.rt.envs)
        BY <4>1 DEF buildExecContainer
      <4> QED BY ONLY <3>2, <4>2, <4>3
    <3>4. Effective(spec.built.env) = ExpectedEnv(d.rt, "/", "/opt/bins", url, d.agentToken)
      BY <2>3, <3>3, AssembledEnv
    <3> QED BY <2>1, <2>5, <3>1, <3>4 DEF JobEnvIsExpected
  <2> QED BY <2>4, <2>5
<1> QED
  BY <1>1, <1>2, NextSpec, PTL DEF Spec
=============================================================================
