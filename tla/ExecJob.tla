------------------------------- MODULE ExecJob -------------------------------
(* Agent.Exec of both backends: one BIN run for the async-jobs pool.          *)
(*                                                                            *)
(* system (system/exec_async.go): a process group, here the BIN and one child *)
(* of it; a goroutine in cmd.Wait; a select over its channel, the caller's    *)
(* context and a last-resort timer.                                           *)
(* docker (docker/exec_async.go): a container of its own, an attached stdin   *)
(* written by a goroutine, a goroutine that stops the container when the      *)
(* context ends, the log stream, and a deferred removal.                      *)
(*                                                                            *)
(* Output is counted in units; the live sinks are assumed not to fail.        *)
EXTENDS SpawnLayout

CONSTANTS
    Descriptors,   \* what a job can be called with: a runtime and its options
    MaxOut,        \* bound on units of output
    MaxStdin,      \* bound on units of stdin
    PipeCap,       \* units of stdin a pipe holds
    MaxFaults,     \* bound on failing calls
    None

ASSUME JobAssumption ==
    /\ MaxOut \in Nat /\ MaxStdin \in Nat /\ PipeCap \in Nat \ {0} /\ MaxFaults \in Nat
    /\ \A d \in Descriptors :
          /\ d.rt.envs \in Seq([name : STRING \X STRING \X STRING, val : STRING])
          /\ DOMAIN d.rt.configs \subseteq {ConfigKeys[i] : i \in DOMAIN ConfigKeys}

VARIABLES
    backend, pc,   \* the Exec call
    ctx,           \* its context: "live", "canceled" or "deadline"
    spec,          \* the environment and mounts built, until they are handed over
    result,        \* what Exec returns
    bin,           \* the BIN: [st, code, wrote]
    child,         \* "none", "run" (holds the streams), "detached" or "dead"
    hit,           \* processes with a pending SIGKILL
    buf,           \* units of output captured
    stdin, stream, \* the payload, and the goroutine that writes it
    waiter,        \* system: the goroutine in cmd.Wait
    watcher,       \* docker: the goroutine that waits for the context
    box,           \* docker: "none", "made" or "gone"
    faults,
    excused        \* history: why a result or a leftover is not Exec's doing

vars == <<backend, pc, ctx, spec, result, bin, child, hit, buf, stdin, stream, waiter, watcher,
          box, faults, excused>>
callVars == <<backend, ctx, spec>>
procVars == <<bin, child, hit>>
stdinVars == <<stdin, stream>>

Killed == 2   \* the exit code of a process that was killed
Over == {"exited", "killed"}

Init ==
    /\ backend = None /\ pc = "idle" /\ ctx = "live" /\ spec = None /\ result = None
    /\ bin = [st |-> "none", code |-> 0, wrote |-> 0]
    /\ child = "none" /\ hit = {} /\ buf = 0
    /\ stdin = [size |-> 0, sent |-> 0, read |-> 0, toEOF |-> FALSE]
    /\ stream = "none" /\ waiter = "none" /\ watcher = "none" /\ box = "none"
    /\ faults = 0 /\ excused = {}

Fault == faults < MaxFaults /\ faults' = faults + 1
Ended == ctx # "live"

\* A call that was given ctx fails once ctx has ended, and may fail otherwise.
CallFails == \/ Ended /\ UNCHANGED faults
             \/ Fault
CallWorks == ~Ended /\ UNCHANGED faults

Result(err, code, out) == [err |-> err, code |-> code, out |-> out]
Goes(label) == pc' = label /\ UNCHANGED result
Returns(r) == pc' = "returned" /\ result' = r
CleansUp(r) == pc' = "cleanup" /\ result' = r

\* The checks before anything is started: initialised, a filesystem, a safe name
\* that is declared and (system) on disk.
Refused ==
    /\ pc = "idle"
    /\ \E b \in {"system", "docker"} : backend' = b
    /\ Returns(Result("fail", 0, 0))
    /\ UNCHANGED <<ctx, spec, procVars, buf, stdinVars, waiter, watcher, box, faults, excused>>

Layout(b, d) ==
    IF b = "system"
    THEN [env |-> buildCmdEnv(d.rt, "root", d.daemonURL, d.agentToken), host |-> None]
    ELSE LET c == buildExecContainer(d.rt, d.fallback, "bin", d.daemonURL, d.agentToken)
         IN  [env |-> c.env, host |-> c.host]

\* The descriptor and the daemon pair are read under the lock.
Exec ==
    /\ pc = "idle"
    /\ \E b \in {"system", "docker"}, d \in Descriptors, n \in 0 .. MaxStdin, eof \in BOOLEAN :
          /\ backend' = b
          /\ spec' = [of |-> d, built |-> Layout(b, d)]
          /\ stdin' = [stdin EXCEPT !.size = n, !.toEOF = eof]
          /\ Goes(IF b = "system" THEN "start" ELSE "create")
    /\ UNCHANGED <<ctx, procVars, buf, stream, waiter, watcher, box, faults, excused>>

-----------------------------------------------------------------------------
(* The system backend.                                                        *)

\* cmd.Start also starts the goroutines that copy the streams, and refuses an
\* ended context; the waiter is launched next.
Start ==
    /\ pc = "start"
    /\ \/ /\ CallWorks /\ Goes("select")
          /\ bin' = [bin EXCEPT !.st = "run"]
          /\ waiter' = "wait"
          /\ stream' = IF stdin.size = 0 THEN "none" ELSE "on"
       \/ /\ CallFails /\ Returns(Result("fail", 0, 0))
          /\ UNCHANGED <<bin, waiter, stream>>
    /\ spec' = None
    /\ UNCHANGED <<backend, ctx, child, hit, buf, stdin, watcher, box, excused>>

\* exec.CommandContext kills the leader, and only the leader, when ctx ends.
CommandContextKills ==
    /\ backend = "system" /\ Ended /\ waiter = "wait" /\ bin.st = "run" /\ "bin" \notin hit
    /\ hit' = hit \cup {"bin"}
    /\ UNCHANGED <<pc, callVars, result, bin, child, buf, stdinVars, waiter, watcher, box, faults, excused>>

\* Wait reaps the leader and then waits for the copiers, which see the end of
\* their pipes when no process holds them. An exit that raced the kill of
\* CommandContext may be reported as the context's error.
WaitReturns ==
    /\ waiter = "wait" /\ bin.st \in Over /\ child # "run" /\ buf = bin.wrote
    /\ waiter' \in IF bin.st = "killed" \/ bin.code # 0 THEN {"exit"}
                   ELSE IF Ended THEN {"nil", "ctx"} ELSE {"nil"}
    /\ UNCHANGED <<pc, callVars, result, procVars, buf, stdinVars, watcher, box, faults, excused>>

\* Mutant: a killed BIN is reported like one that exited.
wrapResultUnpromoted(waitErr) ==
    Result("nil", IF waitErr = "nil" THEN 0 ELSE IF bin.st = "killed" THEN Killed ELSE bin.code, buf)

wrapResult(waitErr) ==
    CASE waitErr = "nil"  -> Result("nil", 0, buf)
      [] waitErr = "exit" -> Result(IF Ended THEN "ctx" ELSE "nil",
                                    IF bin.st = "killed" THEN Killed ELSE bin.code, buf)
      [] OTHER            -> Result("ctx", 0, buf)

\* Either select, whose other branch may be ready too. The first one leaves the
\* rest of the group as it is.
ReceiveDone ==
    /\ pc \in {"select", "groupKilled"} /\ waiter \in {"nil", "exit", "ctx"}
    /\ Returns(wrapResult(waiter))
    /\ waiter' = "taken"
    /\ excused' = IF pc = "select" THEN excused \cup {"unswept"} ELSE excused
    /\ UNCHANGED <<callVars, procVars, buf, stdinVars, watcher, box, faults>>

Alive == {p \in {"bin", "child"} : IF p = "bin" THEN bin.st = "run" ELSE child \in {"run", "detached"}}

\* Mutant: the kill is sent to the leader.
KillLeader ==
    /\ pc = "select" /\ Ended
    /\ hit' = hit \cup (Alive \cap {"bin"})
    /\ Goes("groupKilled")
    /\ UNCHANGED <<callVars, bin, child, buf, stdinVars, waiter, watcher, box, faults, excused>>

\* SIGKILL to -pid.
KillGroup ==
    /\ pc = "select" /\ Ended
    /\ hit' = hit \cup Alive
    /\ Goes("groupKilled")
    /\ UNCHANGED <<callVars, bin, child, buf, stdinVars, waiter, watcher, box, faults, excused>>

\* Mutant: no last resort.
GiveUpNever ==
    /\ FALSE /\ UNCHANGED vars

\* The two seconds pass before Wait has returned. The copiers may still be
\* writing the buffers that are read here.
GiveUp ==
    /\ pc = "groupKilled" /\ waiter = "wait"
    /\ hit' = hit \cup (Alive \cap {"bin"})
    /\ \E n \in 0 .. buf : Returns(Result("ctx", 0, n))
    /\ excused' = excused \cup {"timeout"}
    /\ UNCHANGED <<callVars, bin, child, buf, stdinVars, waiter, watcher, box, faults>>

-----------------------------------------------------------------------------
(* The docker backend.                                                        *)

\* An answer that is lost leaves a container without a name or a known id.
ContainerCreate ==
    /\ pc = "create"
    /\ \/ CallWorks /\ box' = "made" /\ Goes(IF stdin.size = 0 THEN "cstart" ELSE "attach") /\ UNCHANGED excused
       \/ CallFails /\ Returns(Result("fail", 0, 0)) /\ box' = "none" /\ UNCHANGED excused
       \/ CallFails /\ Returns(Result("fail", 0, 0)) /\ box' = "made" /\ excused' = excused \cup {"lost create"}
    /\ spec' = None
    /\ UNCHANGED <<backend, ctx, procVars, buf, stdinVars, waiter, watcher>>

\* Mutant: the removal is deferred after the attach.
ContainerAttachFirst ==
    /\ pc = "attach"
    /\ \/ CallWorks /\ stream' = "on" /\ Goes("cstart")
       \/ CallFails /\ UNCHANGED stream /\ Returns(Result("fail", 0, 0))
    /\ UNCHANGED <<callVars, procVars, buf, stdin, waiter, watcher, box, excused>>

\* Attach, and launch the goroutine that writes stdin.
ContainerAttach ==
    /\ pc = "attach"
    /\ \/ CallWorks /\ stream' = "on" /\ Goes("cstart")
       \/ CallFails /\ UNCHANGED stream /\ CleansUp(Result("fail", 0, 0))
    /\ UNCHANGED <<callVars, procVars, buf, stdin, waiter, watcher, box, excused>>

\* Mutant: the payload is written before the container starts.
ContainerStartAfterStdin ==
    /\ pc = "cstart" /\ stream # "on"
    /\ CallWorks /\ Goes("logs") /\ bin' = [bin EXCEPT !.st = "run"] /\ watcher' = "on"
    /\ UNCHANGED <<callVars, child, hit, buf, stdinVars, waiter, box, excused>>

\* Start and launch the watcher. A lost answer leaves a running container.
ContainerStart ==
    /\ pc = "cstart"
    /\ \/ CallWorks /\ Goes("logs") /\ bin' = [bin EXCEPT !.st = "run"] /\ watcher' = "on"
       \/ /\ CallFails /\ CleansUp(Result("fail", 0, 0)) /\ UNCHANGED watcher
          /\ bin' \in {bin, [bin EXCEPT !.st = "run"]}
    /\ UNCHANGED <<callVars, child, hit, buf, stdinVars, waiter, box, excused>>

\* The watcher: a stop without grace, with a context of its own; its error is
\* ignored, and so is a container that is gone.
WatcherStops ==
    /\ watcher = "on" /\ Ended
    /\ watcher' = "off"
    /\ \/ bin' = (IF bin.st = "run" THEN [bin EXCEPT !.st = "killed"] ELSE bin) /\ UNCHANGED faults
       \/ Fault /\ UNCHANGED bin
    /\ UNCHANGED <<pc, callVars, result, child, hit, buf, stdinVars, waiter, box, excused>>

ContainerLogs ==
    /\ pc = "logs"
    /\ \/ CallWorks /\ Goes("copy")
       \/ CallFails /\ CleansUp(Result("fail", 0, 0))
    /\ UNCHANGED <<callVars, procVars, buf, stdinVars, waiter, watcher, box, excused>>

\* dockerStdCopy meets the end of the stream: the container has exited.
StreamEnds ==
    /\ pc = "copy" /\ bin.st \in Over /\ buf = bin.wrote
    /\ Goes("inspect")
    /\ UNCHANGED <<callVars, procVars, buf, stdinVars, waiter, watcher, box, faults, excused>>

\* Or an error: a cancellation is followed by the inspection, a deadline is an
\* error, and a connection that breaks inside a frame counts as the end.
StreamBreaks ==
    /\ pc = "copy"
    /\ \/ ctx = "canceled" /\ Goes("inspect") /\ UNCHANGED <<faults, excused>>
       \/ ctx = "deadline" /\ CleansUp(Result("fail", 0, buf)) /\ UNCHANGED <<faults, excused>>
       \/ Fault /\ Goes("inspect") /\ excused' = excused \cup {"cut"}
       \/ Fault /\ CleansUp(Result("fail", 0, buf)) /\ UNCHANGED excused
    /\ UNCHANGED <<callVars, procVars, buf, stdinVars, waiter, watcher, box>>

\* A container that runs has the exit code zero. ctx is asked last.
ContainerInspect ==
    /\ pc = "inspect"
    /\ \/ /\ UNCHANGED faults
          /\ CleansUp(Result(IF Ended THEN "ctx" ELSE "nil",
                             CASE bin.st = "exited" -> bin.code [] bin.st = "killed" -> Killed [] OTHER -> 0,
                             buf))
       \/ Fault /\ CleansUp(Result("fail", 0, buf))
    /\ UNCHANGED <<callVars, procVars, buf, stdinVars, waiter, watcher, box, excused>>

\* The deferred calls: the streams are closed, the watcher is dismissed and the
\* container is removed by force, with the error ignored.
Deferred ==
    /\ pc = "cleanup"
    /\ pc' = "returned"
    /\ watcher' = "off" /\ stream' = IF stream = "none" THEN "none" ELSE "closed"
    /\ \/ /\ box' = "gone" /\ UNCHANGED <<faults, excused>>
          /\ bin' = IF bin.st = "run" THEN [bin EXCEPT !.st = "killed"] ELSE bin
       \/ Fault /\ excused' = excused \cup {"lost remove"} /\ UNCHANGED <<box, bin>>
    /\ UNCHANGED <<callVars, result, child, hit, buf, stdin, waiter>>

-----------------------------------------------------------------------------
(* The processes, the streams and the caller.                                 *)

\* A process that SIGKILL has reached runs no more code.
BinRuns == bin.st = "run" /\ "bin" \notin hit
Writing == BinRuns \/ (child = "run" /\ "child" \notin hit)

BinWrites ==
    /\ Writing /\ bin.wrote < MaxOut
    /\ bin' = [bin EXCEPT !.wrote = @ + 1]
    /\ UNCHANGED <<pc, callVars, result, child, hit, buf, stdinVars, waiter, watcher, box, faults, excused>>

\* A BIN under the system backend may fork, and the child may close the streams
\* it has inherited.
BinForks ==
    /\ backend = "system" /\ BinRuns /\ child = "none"
    /\ child' = "run"
    /\ UNCHANGED <<pc, callVars, result, bin, hit, buf, stdinVars, waiter, watcher, box, faults, excused>>

ChildMoves ==
    /\ child \in {"run", "detached"} /\ "child" \notin hit
    /\ child' \in {"detached", "dead"} \ {child}
    /\ UNCHANGED <<pc, callVars, result, bin, hit, buf, stdinVars, waiter, watcher, box, faults, excused>>

\* Some BINs read their input to the end before they exit.
AtEOF == stdin.size = 0 \/ (stream = "closed" /\ stdin.read = stdin.sent)

BinExits ==
    /\ BinRuns /\ (stdin.toEOF => AtEOF)
    /\ \E c \in {0, 1} : bin' = [bin EXCEPT !.st = "exited", !.code = c]
    /\ UNCHANGED <<pc, callVars, result, child, hit, buf, stdinVars, waiter, watcher, box, faults, excused>>

\* A pending kill takes effect, sooner or later.
Dies ==
    /\ \E p \in hit :
          /\ hit' = hit \ {p}
          /\ bin' = IF p = "bin" /\ bin.st = "run" THEN [bin EXCEPT !.st = "killed"] ELSE bin
          /\ child' = IF p = "child" THEN "dead" ELSE child
    /\ UNCHANGED <<pc, callVars, result, buf, stdinVars, waiter, watcher, box, faults, excused>>

\* The system's copiers run until Wait returns, dockerStdCopy while Exec is in it.
CopyOutput ==
    /\ buf < bin.wrote
    /\ waiter = "wait" \/ pc = "copy"
    /\ buf' = buf + 1
    /\ UNCHANGED <<pc, callVars, result, procVars, stdinVars, waiter, watcher, box, faults, excused>>

\* The goroutine that writes stdin: a unit when the pipe has room, then the
\* half-close. It also ends when no process is left to read.
streamStdin ==
    /\ stream = "on"
    /\ \/ /\ stdin.sent < stdin.size /\ stdin.sent - stdin.read < PipeCap
          /\ stdin' = [stdin EXCEPT !.sent = @ + 1]
          /\ UNCHANGED stream
       \/ /\ stdin.sent = stdin.size \/ (bin.st \in Over /\ child # "run")
          /\ stream' = "closed"
          /\ UNCHANGED stdin
    /\ UNCHANGED <<pc, callVars, result, procVars, buf, waiter, watcher, box, faults, excused>>

ReadStdin ==
    /\ BinRuns /\ stdin.read < stdin.sent
    /\ stdin' = [stdin EXCEPT !.read = @ + 1]
    /\ UNCHANGED <<pc, callVars, result, procVars, buf, stream, waiter, watcher, box, faults, excused>>

CallerCancels ==
    /\ pc # "idle" /\ ~Ended
    /\ ctx' \in {"canceled", "deadline"}
    /\ UNCHANGED <<backend, pc, spec, result, procVars, buf, stdinVars, waiter, watcher, box, faults, excused>>

-----------------------------------------------------------------------------
SystemStep == Start \/ ReceiveDone \/ KillGroup \/ GiveUp
DockerStep ==
    \/ ContainerCreate \/ ContainerAttach \/ ContainerStart \/ ContainerLogs
    \/ StreamEnds \/ StreamBreaks \/ ContainerInspect \/ Deferred
Goroutine == CommandContextKills \/ WaitReturns \/ WatcherStops
Processes == BinWrites \/ BinForks \/ ChildMoves \/ BinExits \/ Dies

Next ==
    \/ Exec \/ Refused \/ SystemStep \/ DockerStep \/ Goroutine \/ Processes
    \/ CopyOutput \/ streamStdin \/ ReadStdin \/ CallerCancels

Spec == Init /\ [][Next]_vars

\* Goroutines run, pipes move and daemon calls answer; nothing has to fail.
\* Neither the BIN nor its child has to exit, and a kill may take for ever to
\* take effect.
FairSpec ==
    /\ Spec
    /\ WF_vars(SystemStep /\ UNCHANGED faults) /\ WF_vars(DockerStep /\ UNCHANGED faults)
    /\ WF_vars(WaitReturns)
    /\ WF_vars(CopyOutput) /\ WF_vars(streamStdin)
    /\ WF_vars(ReadStdin /\ stdin.toEOF)

-----------------------------------------------------------------------------
(* Properties.                                                                *)

\* "distinguish BIN exited non-zero on its own from we killed it": without an
\* error the BIN ended by itself, with that code, and all its output is there.
\* Excused: a log stream that broke inside a frame.
ResultIsTruthful ==
    pc = "returned" /\ result.err = "nil" /\ "cut" \notin excused =>
        bin.st = "exited" /\ result.code = bin.code /\ result.out = bin.wrote

\* When Exec has returned, whichever way, the BIN does not run and its container
\* is gone. Excused: the last resort, and daemon calls whose answer was lost.
LeavesNothing ==
    pc = "returned" /\ excused \cap {"timeout", "lost create", "lost remove"} = {} =>
        bin.st # "run" /\ box # "made"

\* Whom Exec of the system backend leaves behind: no process without a SIGKILL on
\* its way, whatever was forked while the leader was dying and on the last resort
\* too, but for one. A child that has closed the streams it inherited outlives
\* Exec when the select takes the result of Wait and nothing kills the group
\* (exec_async.go:138). That is so for a job that was cancelled, too, when the kill
\* of CommandContext has ended the leader first, although exec_async.go:25-28 says
\* "no orphaned grandchildren".
OrphansAreDetached ==
    pc = "returned" /\ backend = "system" =>
        \A p \in Alive \ hit : p = "child" /\ child = "detached" /\ "unswept" \in excused

\* What the environment has to be, variable by variable: the locked ones cannot
\* be redefined, credentials come from the provider, ENV overrides CONFIG unless
\* its name is reserved (then it is dropped), of two CONFIG keys rewritten to one
\* name the greater wins, and nothing else is there.
ExpectedEnv(rt, root, binDirs, url, token) ==
    LET keys   == reservedRuntimeEnvKeys \ (IF url # "" /\ token # "" THEN {} ELSE {"OTTERSD_URL", "OTTERS_AGENT_TOKEN"})
        locked == {<<"", k, "">> : k \in keys}
        creds  == {<<"", rt.provider, s>> : s \in {s \in {"_API_KEY", "_API_BASE"} : rt.provider # ""
                                                        /\ (IF s = "_API_KEY" THEN rt.key ELSE rt.base) # ""}}
        envs   == {i \in DOMAIN rt.envs : rt.envs[i].name # NoName /\ ~isReservedEnvKey(rt.envs[i].name)}
        user   == {rt.envs[i].name : i \in envs}
        keep   == DOMAIN rt.configs \ {""}
        cfg(n) == {i \in DOMAIN ConfigKeys : ConfigKeys[i] \in keep /\ configKeyToEnv(ConfigKeys[i]) = n}
        config == {configKeyToEnv(k) : k \in keep}
    IN  [n \in locked \cup creds \cup user \cup config |->
            CASE n \in locked -> (CASE n[2] = "PATH" -> binDirs [] n[2] = "LANG" -> "C.UTF-8"
                                    [] n[2] = "OTTERSD_URL" -> url [] n[2] = "OTTERS_AGENT_TOKEN" -> token
                                    [] OTHER -> root)
              [] n \in creds -> (IF n[3] = "_API_KEY" THEN rt.key ELSE rt.base)
              [] n \in user -> rt.envs[Max({i \in envs : rt.envs[i].name = n})].val
              [] OTHER -> rt.configs[ConfigKeys[Max(cfg(n))]]]

\* The names under which a CONFIG meets an ENV that is dropped because it ends like
\* a credential: RUNTIME_X_API_KEY against CONFIG x-api-key.
Disputed(rt) ==
    {configKeyToEnv(k) : k \in DOMAIN rt.configs \ {""}}
    \cap {n \in {rt.envs[i].name : i \in DOMAIN rt.envs} : isReservedEnvKey(n)}

Without(f, S) == [x \in DOMAIN f \ S |-> f[x]]

\* Both backends hand a job exactly that environment. Excepted are the disputed
\* names: there env.go:163-165 and AGENTFILE-v1.0.0.md:480-482 say that ENV wins
\* over CONFIG, AppendUserEnv drops the ENV (env.go:189-192), and the job sees the
\* value of the CONFIG.
JobEnvIsExpected ==
    spec # None =>
        LET d == spec.of
            expected ==
              IF backend = "system" THEN ExpectedEnv(d.rt, "root", "usr/bin", d.daemonURL, d.agentToken)
              ELSE ExpectedEnv(d.rt, "/", "/opt/bins",
                               IF d.daemonURL = "unix" THEN "unix:///run/ottersd.sock" ELSE d.daemonURL,
                               d.agentToken)
        IN  Without(Effective(spec.built.env), Disputed(d.rt)) = Without(expected, Disputed(d.rt))

\* "the job sees the identical filesystem the agent's runtime sees", and its
\* environment: the container built by exec_async.go agrees with container.go's.
JobSeesAgentView ==
    spec # None /\ backend = "docker" /\ spec.of.rt.runtime # "" =>
        LET d == spec.of
            agent == buildConfig(d.rt, d.fallback, d.daemonURL, d.agentToken)
        IN  spec.built.host = agent.host /\ Effective(spec.built.env) = Effective(agent.env)

\* Exec returns: once its context has ended, even if the processes cannot be
\* killed and whatever the daemon answers; and without help once its BIN is over
\* and nobody holds the streams.
ExecReturns ==
    (pc # "idle" /\ Ended) \/ (bin.st \in Over /\ child # "run") ~> (pc = "returned")

\* "a payload larger than the pipe buffer cannot deadlock": a BIN that reads its
\* input gets all of it, unless the job is cancelled or a child keeps the pipe.
StdinDrains == (stream = "on" /\ stdin.toEOF) ~> (stream = "closed" \/ Ended \/ bin.st \in Over)
=============================================================================
