---------------------------- MODULE SystemAgent ----------------------------
(* executor/system.Agent: one agent run as a local process.  Its methods are  *)
(* called from any number of goroutines: the daemon runs it (Run, Start),     *)
(* prepares it, stops it, removes it, rotates its token; a supervisor drives  *)
(* the statuses it owns.  A step of the model is one critical section of      *)
(* Agent.mu or of the status tracker, or one step outside any lock (a         *)
(* materialisation, a spawn, a wait).                                         *)
(*                                                                            *)
(* A run is known by its number.  running, cancel and ran are written         *)
(* together (beginRun, endRun), so cur stands for the three: 0 when they are  *)
(* unset, the number of the run otherwise.                                    *)
EXTENDS AgentStatus, Naturals, FiniteSets

CONSTANTS
    Runners,     \* goroutines that call Run or Start
    Preparers,   \* goroutines that call Prepare directly
    Stoppers,    \* goroutines that call Stop
    Removers,    \* goroutines that call Remove
    MatErrors,   \* the errors a materialisation can end with
    MaxRuns,     \* bound on the number of runs
    MaxEdits,    \* bound on the edits of providers.yaml
    MaxTokens    \* bound on the calls of SetAgentToken

\* The sentinels a materialise error may wrap, and any other error.
Errors == {"ErrPull", "ErrModel", "ErrConfig", "other"}

Clients == Runners \cup Preparers \cup Stoppers \cup Removers

ASSUME ClientsAssumption ==
    /\ Runners \cap (Preparers \cup Stoppers \cup Removers) = {}
    /\ Preparers \cap (Stoppers \cup Removers) = {}
    /\ Stoppers \cap Removers = {}
    /\ MatErrors \subseteq Errors
    /\ MaxRuns \in Nat /\ MaxEdits \in Nat /\ MaxTokens \in Nat

VARIABLES
    cur,        \* the run that holds running/cancel/ran, 0 if none
    nruns,      \* number of runs begun
    ctxDone,    \* the runs whose context is cancelled
    ranClosed,  \* the runs whose ran channel is closed
    rt,         \* the runtime descriptor: 0 (nil), or which materialisation made it
    cred,       \* version of providers.yaml behind rt.APIKey and rt.APIBase
    token,      \* version of agentToken
    provVer,    \* version of providers.yaml on disk
    nmat,       \* number of materialisations that succeeded
    tree,       \* there is an agent tree on disk
    live,       \* the runs whose runtime process is running
    pc,         \* where each client is in its call
    run,        \* the run a runner executes
    target,     \* the run whose cancel and ran a Stop took
    mat,        \* what a client's materialise returned: [id, cred], or the
                \* credentials its resolver returned
    err,        \* the error a client's materialise returned
    env,        \* the credentials and token in the command a runner built
    want,       \* history: what a runner's call of Run or Start found current
    since,      \* history: number of runs when a Stop took its snapshot
    ret         \* what a call of Stop or Prepare returned

runVars == <<cur, nruns, ctxDone, ranClosed, live>>
cfgVars == <<rt, cred, token, provVer, nmat, tree>>
callVars == <<run, target, mat, err, env, want, since, ret>>
vars == <<statusVars, runVars, cfgVars, pc, callVars>>

Goto(c, l) == pc' = [pc EXCEPT ![c] = l]

NoMat == [id |-> 0, cred |-> 0]
NoEnv == [cred |-> 0, token |-> 0]

\* A call of Run or Start returns: its local variables are gone.
RunReturns(c) ==
    /\ Goto(c, "idle")
    /\ run' = [run EXCEPT ![c] = 0]
    /\ mat' = [mat EXCEPT ![c] = NoMat]
    /\ env' = [env EXCEPT ![c] = NoEnv]
    /\ want' = [want EXCEPT ![c] = NoEnv]
    /\ UNCHANGED <<target, err, since, ret>>

Init ==
    /\ NewStatusTracker
    /\ cur = 0 /\ nruns = 0 /\ ctxDone = {} /\ ranClosed = {} /\ live = {}
    /\ rt = 0 /\ cred = 0 /\ token = 0 /\ provVer = 0 /\ nmat = 0 /\ tree = FALSE
    /\ pc = [c \in Clients |-> "idle"]
    /\ run = [c \in Clients |-> 0]
    /\ target = [c \in Clients |-> 0]
    /\ mat = [c \in Clients |-> NoMat]
    /\ err = [c \in Clients |-> "none"]
    /\ env = [c \in Clients |-> NoEnv]
    /\ want = [c \in Clients |-> NoEnv]
    /\ since = [c \in Clients |-> 0]
    /\ ret = [c \in Clients |-> "none"]

-----------------------------------------------------------------------------
(* Start and the entry of Run.  A refused Start changes nothing.              *)

Start(c) ==
    /\ pc[c] = "idle" /\ status \in {"stopped", "failed"}
    /\ Goto(c, "resolve")
    /\ want' = [want EXCEPT ![c] = [cred |-> provVer, token |-> token]]
    /\ UNCHANGED <<statusVars, runVars, cfgVars, run, target, mat, err, env, since, ret>>

\* The caller of Run promises nothing about credentials: Run does not resolve
\* them again.
Run(c) ==
    /\ pc[c] = "idle"
    /\ Goto(c, "begin")
    /\ want' = [want EXCEPT ![c] = [cred |-> 0, token |-> token]]
    /\ UNCHANGED <<statusVars, runVars, cfgVars, run, target, mat, err, env, since, ret>>

\* Nothing to resolve before Prepare; otherwise the resolver runs unlocked.
\* rt never becomes nil again, so the look at rt and the resolver are one step.
reresolveCredentials(c) ==
    /\ pc[c] = "resolve"
    /\ \/ rt = 0 /\ Goto(c, "begin") /\ UNCHANGED mat
       \/ rt # 0 /\ Goto(c, "writeCreds") /\ mat' = [mat EXCEPT ![c] = [id |-> 0, cred |-> provVer]]
       \/ rt # 0 /\ "ErrModel" \in MatErrors /\ Goto(c, "modelFailed") /\ UNCHANGED mat
    /\ UNCHANGED <<statusVars, runVars, cfgVars, run, target, err, env, want, since, ret>>

\* Mutant: the fresh credentials are resolved and not stored.
DiscardCreds(c) ==
    /\ pc[c] = "writeCreds"
    /\ Goto(c, "begin")
    /\ UNCHANGED <<statusVars, runVars, cfgVars, callVars>>

WriteCreds(c) ==
    /\ pc[c] = "writeCreds"
    /\ cred' = mat[c].cred
    /\ Goto(c, "begin")
    /\ UNCHANGED <<statusVars, runVars, rt, token, provVer, nmat, tree, callVars>>

ModelFailed(c) ==
    /\ pc[c] = "modelFailed"
    /\ SetFailure("model")
    /\ RunReturns(c)
    /\ UNCHANGED <<runVars, cfgVars>>

-----------------------------------------------------------------------------
(* Run: beginRun, the statuses, Prepare, serve, endRun.                       *)

BeginRefused(c) ==
    /\ pc[c] = "begin" /\ cur # 0
    /\ RunReturns(c)
    /\ UNCHANGED <<statusVars, runVars, cfgVars>>

\* The number a run gets, and the handshake it installs.
TakeSlot(c) ==
    /\ nruns < MaxRuns
    /\ nruns' = nruns + 1
    /\ cur' = nruns + 1
    /\ run' = [run EXCEPT ![c] = nruns + 1]
    /\ Goto(c, "pulling")
    /\ UNCHANGED <<statusVars, ctxDone, ranClosed, live, cfgVars,
                   target, mat, err, env, want, since, ret>>

\* Mutant: a second Run is not rejected.
beginRunUnguarded(c) == pc[c] = "begin" /\ TakeSlot(c)

beginRun(c) == pc[c] = "begin" /\ cur = 0 /\ TakeSlot(c)

SetPulling(c) ==
    /\ pc[c] = "pulling"
    /\ Set("pulling")
    /\ Goto(c, "initialize")
    /\ UNCHANGED <<runVars, cfgVars, callVars>>

SetStarting(c) ==
    /\ pc[c] = "starting"
    /\ Set("starting")
    /\ Goto(c, "command")
    /\ UNCHANGED <<runVars, cfgVars, callVars>>

\* The command is built from the fields as they are now, under the lock.
command(c) ==
    /\ pc[c] = "command"
    /\ env' = [env EXCEPT ![c] = [cred |-> cred, token |-> token]]
    /\ Goto(c, "spawn")
    /\ UNCHANGED <<statusVars, runVars, cfgVars, run, target, mat, err, want, since, ret>>

\* cmd.Start: it needs the runtime binary, and may fail anyway.
Spawn(c) ==
    /\ pc[c] = "spawn"
    /\ \/ tree /\ live' = live \cup {run[c]} /\ Goto(c, "serve")
       \/ Goto(c, "endRun") /\ UNCHANGED live
    /\ UNCHANGED <<statusVars, cur, nruns, ctxDone, ranClosed, cfgVars, callVars>>

\* serve's select on the context, and shutdown's SIGINT.
Interrupt(c) ==
    /\ pc[c] = "serve" /\ run[c] \in ctxDone
    /\ Goto(c, "shutdown")
    /\ UNCHANGED <<statusVars, runVars, cfgVars, callVars>>

\* shutdownGrace has passed: the process group is killed.
ForceKill(c) ==
    /\ pc[c] = "shutdown"
    /\ Goto(c, "killed")
    /\ UNCHANGED <<statusVars, runVars, cfgVars, callVars>>

\* Mutant: shutdown gives up on the process after the grace period.
AwaitExitOrGiveUp(c) ==
    /\ pc[c] \in {"serve", "shutdown", "killed"}
    /\ run[c] \notin live \/ pc[c] = "killed"
    /\ Goto(c, "endRun")
    /\ UNCHANGED <<statusVars, runVars, cfgVars, callVars>>

\* The receive from done: cmd.Wait has returned.
AwaitExit(c) ==
    /\ pc[c] \in {"serve", "shutdown", "killed"} /\ run[c] \notin live
    /\ Goto(c, "endRun")
    /\ UNCHANGED <<statusVars, runVars, cfgVars, callVars>>

\* The process exits: by itself, on SIGINT, or because it was killed.
ProcessExit(c) ==
    /\ pc[c] \in {"serve", "shutdown", "killed"} /\ run[c] \in live
    /\ live' = live \ {run[c]}
    /\ UNCHANGED <<statusVars, cur, nruns, ctxDone, ranClosed, cfgVars, pc, callVars>>

\* endRun's critical section: it clears whatever run is there.
endRun(c) ==
    /\ pc[c] = "endRun"
    /\ cur' = 0
    /\ Goto(c, "settle")
    /\ UNCHANGED <<statusVars, nruns, ctxDone, ranClosed, live, cfgVars, callVars>>

\* Mutant: only a recorded failure is respected.
SettleGuardFailedOnly == {"failed"}

SettleGuard == {"failed", "removing", "removed"}

Settle(c) ==
    /\ pc[c] = "settle"
    /\ SetUnless("stopped", SettleGuard)
    /\ Goto(c, "closeRan")
    /\ UNCHANGED <<runVars, cfgVars, callVars>>

CloseRan(c) ==
    /\ pc[c] = "closeRan"
    /\ ranClosed' = ranClosed \cup {run[c]}
    /\ RunReturns(c)
    /\ UNCHANGED <<statusVars, cur, nruns, ctxDone, live, cfgVars>>

-----------------------------------------------------------------------------
(* Prepare and initialize, called by a preparer or from inside Run.           *)

\* Prepare returns e to its caller: a Run goes on or ends, a direct call is over.
PrepareReturns(c, e) ==
    /\ mat' = [mat EXCEPT ![c] = NoMat]
    /\ err' = [err EXCEPT ![c] = "none"]
    /\ IF c \in Preparers
         THEN Goto(c, "idle") /\ ret' = [ret EXCEPT ![c] = e]
         ELSE Goto(c, IF e = "nil" THEN "starting" ELSE "endRun") /\ UNCHANGED ret

Prepare(c) ==
    /\ pc[c] = "idle"
    /\ Goto(c, "initialize")
    /\ UNCHANGED <<statusVars, runVars, cfgVars, callVars>>

initialize(c) ==
    /\ pc[c] = "initialize"
    /\ \/ rt # 0 /\ PrepareReturns(c, "nil")
       \/ rt = 0 /\ Goto(c, "materialize") /\ UNCHANGED <<mat, err, ret>>
    /\ UNCHANGED <<statusVars, runVars, cfgVars, run, target, env, want, since>>

\* The tree is written and the credentials resolved, unlocked.
Materialize(c) ==
    /\ pc[c] = "materialize"
    /\ nmat' = nmat + 1
    /\ mat' = [mat EXCEPT ![c] = [id |-> nmat + 1, cred |-> provVer]]
    /\ tree' = TRUE
    /\ Goto(c, "publish")
    /\ UNCHANGED <<statusVars, runVars, rt, cred, token, provVer,
                   run, target, err, env, want, since, ret>>

\* A materialisation that fails may leave part of the tree behind.
MaterializeFails(c) ==
    /\ pc[c] = "materialize"
    /\ \E e \in MatErrors : err' = [err EXCEPT ![c] = e]
    /\ tree' \in {tree, TRUE}
    /\ Goto(c, "failed")
    /\ UNCHANGED <<statusVars, runVars, rt, cred, token, provVer, nmat,
                   run, target, mat, env, want, since, ret>>

\* Mutant: the descriptor is published without looking again.
PublishAgain(c) ==
    /\ pc[c] = "publish"
    /\ rt' = mat[c].id /\ cred' = mat[c].cred
    /\ PrepareReturns(c, "nil")
    /\ UNCHANGED <<statusVars, runVars, token, provVer, nmat, tree,
                   run, target, env, want, since>>

\* initialize's second critical section: the first to get here wins.
Publish(c) ==
    /\ pc[c] = "publish"
    /\ IF rt = 0
         THEN rt' = mat[c].id /\ cred' = mat[c].cred
         ELSE UNCHANGED <<rt, cred>>
    /\ PrepareReturns(c, "nil")
    /\ UNCHANGED <<statusVars, runVars, token, provVer, nmat, tree,
                   run, target, env, want, since>>

\* Prepare looks at its context before it records a failure.  A direct call's
\* context may or may not have ended.
PrepareFailed(c) ==
    /\ pc[c] = "failed"
    /\ \/ /\ c \in Preparers \/ run[c] \notin ctxDone
          /\ Goto(c, "setFailure") /\ UNCHANGED <<mat, err, ret>>
       \/ /\ c \in Preparers \/ run[c] \in ctxDone
          /\ PrepareReturns(c, err[c])
    /\ UNCHANGED <<statusVars, runVars, cfgVars, run, target, env, want, since>>

\* Mutant: an error without a sentinel has no reason of its own.
failureReasonForNoDefault(e) ==
    CASE e = "ErrPull" -> "pull" [] e = "ErrModel" -> "model"
      [] e = "ErrConfig" -> "config" [] OTHER -> "unknown"

failureReasonFor(e) ==
    CASE e = "ErrPull" -> "pull" [] e = "ErrModel" -> "model"
      [] e = "ErrConfig" -> "config" [] OTHER -> "init"

PrepareSetFailure(c) ==
    /\ pc[c] = "setFailure"
    /\ SetFailure(failureReasonFor(err[c]))
    /\ PrepareReturns(c, err[c])
    /\ UNCHANGED <<runVars, cfgVars, run, target, env, want, since>>

-----------------------------------------------------------------------------
(* Stop, called by a stopper or from inside Remove.                           *)

StopReturns(c, e) ==
    /\ ret' = [ret EXCEPT ![c] = e]
    /\ target' = [target EXCEPT ![c] = 0]
    /\ Goto(c, IF c \in Removers /\ e = "nil" THEN "removing" ELSE "idle")

\* The critical section of Stop: it takes cancel and ran, if there is a run.
Stop(c) ==
    /\ pc[c] = "idle"
    /\ since' = [since EXCEPT ![c] = nruns]
    /\ IF cur = 0
         THEN StopReturns(c, "nil")
         ELSE /\ target' = [target EXCEPT ![c] = cur]
              /\ ret' = [ret EXCEPT ![c] = "none"]
              /\ Goto(c, "cancel")
    /\ UNCHANGED <<statusVars, runVars, cfgVars, run, mat, err, env, want>>

\* Mutant: Stop waits for the run without cancelling it.
StopOnlyWaits(c) ==
    /\ pc[c] = "cancel"
    /\ Goto(c, "wait")
    /\ UNCHANGED <<statusVars, runVars, cfgVars, callVars>>

StopCancel(c) ==
    /\ pc[c] = "cancel"
    /\ ctxDone' = ctxDone \cup {target[c]}
    /\ Goto(c, "wait")
    /\ UNCHANGED <<statusVars, cur, nruns, ranClosed, live, cfgVars, callVars>>

\* Mutant: Stop cancels the run and does not wait for it.
StopWithoutWaiting(c) ==
    /\ pc[c] = "wait"
    /\ StopReturns(c, "nil")
    /\ UNCHANGED <<statusVars, runVars, cfgVars, run, mat, err, env, want, since>>

StopRan(c) ==
    /\ pc[c] = "wait" /\ target[c] \in ranClosed
    /\ StopReturns(c, "nil")
    /\ UNCHANGED <<statusVars, runVars, cfgVars, run, mat, err, env, want, since>>

\* The context of the Stop call ends first.
StopCtx(c) ==
    /\ pc[c] = "wait"
    /\ StopReturns(c, "ctx.Err")
    /\ UNCHANGED <<statusVars, runVars, cfgVars, run, mat, err, env, want, since>>

-----------------------------------------------------------------------------
(* Remove, after its Stop.                                                    *)

SetRemoving(c) ==
    /\ pc[c] = "removing"
    /\ Set("removing")
    /\ Goto(c, "removeAll")
    /\ UNCHANGED <<runVars, cfgVars, callVars>>

\* The log is closed and the tree deleted; an error ends the call here.
RemoveAll(c) ==
    /\ pc[c] = "removeAll"
    /\ \/ tree' = FALSE /\ Goto(c, "removed")
       \/ tree /\ Goto(c, "idle") /\ UNCHANGED tree
    /\ UNCHANGED <<statusVars, runVars, rt, cred, token, provVer, nmat, callVars>>

SetRemoved(c) ==
    /\ pc[c] = "removed"
    /\ Set("removed")
    /\ Goto(c, "idle")
    /\ UNCHANGED <<runVars, cfgVars, callVars>>

-----------------------------------------------------------------------------
(* The callers' environment.                                                  *)

SetAgentToken ==
    /\ token < MaxTokens
    /\ token' = token + 1
    /\ UNCHANGED <<statusVars, runVars, rt, cred, provVer, nmat, tree, pc, callVars>>

\* Somebody edits providers.yaml.
EditProviders ==
    /\ provVer < MaxEdits
    /\ provVer' = provVer + 1
    /\ UNCHANGED <<statusVars, runVars, rt, cred, token, nmat, tree, pc, callVars>>

\* The caller of Run cancels the context it passed.
CallerCancels(c) ==
    /\ run[c] # 0 /\ run[c] \notin ctxDone
    /\ ctxDone' = ctxDone \cup {run[c]}
    /\ UNCHANGED <<statusVars, cur, nruns, ranClosed, live, cfgVars, pc, callVars>>

\* The daemon's supervisor owns ready, working and two failures.  It acts on
\* what it sees, at once.
Supervisor ==
    /\ \/ status \in {"starting", "working"} /\ live # {} /\ Set("ready")
       \/ status = "ready" /\ live # {} /\ Set("working")
       \/ status = "starting" /\ live # {} /\ SetFailure("readiness_timeout")
       \/ status \in {"ready", "working"} /\ live = {} /\ SetFailure("crashed")
    /\ UNCHANGED <<runVars, cfgVars, pc, callVars>>

-----------------------------------------------------------------------------

\* The steps of Prepare that follow its call.
PrepareStep(c) ==
    \/ initialize(c) \/ Materialize(c) \/ MaterializeFails(c) \/ Publish(c)
    \/ PrepareFailed(c) \/ PrepareSetFailure(c)

\* The steps of Run and Start that follow their call.
RunStep(c) ==
    \/ reresolveCredentials(c) \/ WriteCreds(c) \/ ModelFailed(c)
    \/ beginRun(c) \/ BeginRefused(c) \/ SetPulling(c) \/ PrepareStep(c)
    \/ SetStarting(c) \/ command(c) \/ Spawn(c) \/ Interrupt(c) \/ ForceKill(c)
    \/ AwaitExit(c) \/ endRun(c) \/ Settle(c) \/ CloseRan(c)

\* The steps of Stop that follow its snapshot, but for its own context.
StopStep(c) == StopCancel(c) \/ StopRan(c)

RemoveStep(c) == SetRemoving(c) \/ RemoveAll(c) \/ SetRemoved(c)

Next ==
    \/ \E c \in Runners : Run(c) \/ Start(c) \/ RunStep(c) \/ ProcessExit(c) \/ CallerCancels(c)
    \/ \E c \in Preparers : Prepare(c) \/ PrepareStep(c)
    \/ \E c \in Stoppers \cup Removers : Stop(c) \/ StopStep(c) \/ StopCtx(c)
    \/ \E c \in Removers : RemoveStep(c)
    \/ SetAgentToken \/ EditProviders \/ Supervisor

Spec == Init /\ [][Next]_vars

\* A goroutine inside a call keeps being scheduled, a materialisation ends, the
\* grace period ends and a killed process exits.  Nobody has to make a call, a
\* process need not exit by itself, and no context has to end.
Fairness ==
    /\ \A c \in Runners : WF_vars(RunStep(c))
    /\ \A c \in Runners : WF_vars(pc[c] = "killed" /\ ProcessExit(c))
    /\ \A c \in Preparers : WF_vars(PrepareStep(c))
    /\ \A c \in Stoppers \cup Removers : WF_vars(StopStep(c))
    /\ \A c \in Removers : WF_vars(RemoveStep(c))

FairSpec == Spec /\ Fairness

-----------------------------------------------------------------------------
(* Properties.                                                                *)

RunPC == {"pulling", "initialize", "materialize", "publish", "failed", "setFailure",
          "starting", "command", "spawn", "serve", "shutdown", "killed", "endRun"}
ServePC == {"serve", "shutdown", "killed"}
PC == RunPC \cup {"idle", "resolve", "writeCreds", "modelFailed", "begin",
                  "settle", "closeRan", "cancel", "wait",
                  "removing", "removeAll", "removed"}

\* Every variable has its type.
TypeOK ==
    /\ StatusTypeOK
    /\ cur \in Nat /\ nruns \in Nat
    /\ ctxDone \subseteq Nat /\ ranClosed \subseteq Nat /\ live \subseteq Nat
    /\ rt \in Nat /\ cred \in Nat /\ token \in Nat /\ provVer \in Nat /\ nmat \in Nat
    /\ tree \in BOOLEAN
    /\ pc \in [Clients -> PC]
    /\ run \in [Clients -> Nat]
    /\ target \in [Clients -> Nat]
    /\ mat \in [Clients -> [id : Nat, cred : Nat]]
    /\ err \in [Clients -> Errors \cup {"none"}]
    /\ env \in [Clients -> [cred : Nat, token : Nat]]
    /\ want \in [Clients -> [cred : Nat, token : Nat]]
    /\ since \in [Clients -> Nat]
    /\ ret \in [Clients -> Errors \cup {"none", "nil", "ctx.Err"}]

\* "Only one Run may be in flight at a time": every running process belongs to
\* the run that holds the cancel/ran handshake, so there is at most one and a
\* Stop always finds it.
ProcessIsCurrent == live \subseteq {cur}

\* A Stop that returned nil was effective in every phase: no process of a run
\* begun before it is left, even if other runs have come and gone since.
StopIsEffective ==
    \A c \in Stoppers \cup Removers :
        ret[c] = "nil" => \A r \in live : r > since[c]

\* "Settle the status before releasing waiters, so a Stop/Remove blocked on ran
\* cannot race the settle and flip a removed agent back to stopped."
NeverFlipsToStopped ==
    [][(status \in {"removing", "removed"}) => status' # "stopped"]_vars

\* The workspace is published once: concurrent Prepare and Run share the
\* descriptor of the first of them, and no later call replaces it.
PublishedOnce == [][rt # 0 => rt' = rt]_vars

\* A process is spawned with the token that was current when its Run or Start
\* was called, or a later one; and after a Start with the credentials that
\* providers.yaml held then, or later ones.
SpawnsFresh ==
    \A c \in Runners :
        pc[c] \in ServePC \cup {"spawn"} =>
            env[c].cred >= want[c].cred /\ env[c].token >= want[c].token

\* An agent that reports stopped has no running process.
StoppedHasNoProcess == status = "stopped" => live = {}

\* A Stop returns even if its own context never ends: the run it cancelled
\* comes to its end from every phase.
StopTerminates == \A c \in Stoppers : pc[c] \in {"cancel", "wait"} ~> pc[c] = "idle"

-----------------------------------------------------------------------------
(* The agent implements AgentLifecycle.                                       *)

\* The phase of the run in the slot, from where its goroutine is.
phaseBar ==
    IF cur = 0 THEN "idle"
    ELSE IF cur \in live THEN "serving"
    ELSE IF \E c \in Runners : run[c] = cur /\ pc[c] \in ServePC \cup {"endRun"} THEN "ended"
    ELSE "begun"

Lifecycle == INSTANCE AgentLifecycle
                 WITH phase <- phaseBar, run <- nruns, cancelled <- ctxDone

\* The agent keeps the promises of AgentLifecycle, liveness included.
ImplementsLifecycle == Lifecycle!Spec

\* Overlapping Runs, a direct Prepare and a Remove never take a step that
\* AgentLifecycle does not allow: one run at a time, each begun, spawned and
\* ended once.
ImplementsSafety == Lifecycle!Safety
=============================================================================
