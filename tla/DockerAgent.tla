---------------------------- MODULE DockerAgent ----------------------------
(* executor/docker.Agent: one agent run in a container, with the part of the  *)
(* Docker daemon it talks to and Provider.Destroy.  A step is one critical    *)
(* section of Agent.mu or of the status tracker, or one call to the daemon.   *)
(*                                                                            *)
(* The container name is made from the agent's id, so the daemon holds at     *)
(* most one container of the agent: box is its id, 0 if there is none.  A     *)
(* call made under a run's context is sent, and then answered; when the       *)
(* context ends in between, the caller gets an error and the daemon may or    *)
(* may not have acted.  running, cancel and ran are written together, so cur  *)
(* stands for the three; rt and initialized likewise.                         *)
EXTENDS AgentStatus, Naturals, FiniteSets

CONSTANTS
    Runners,      \* goroutines that call Run or Start
    Preparers,    \* goroutines that call Prepare directly
    Stoppers,     \* goroutines that call Stop
    Removers,     \* goroutines that call Remove
    Destroyers,   \* goroutines that call Provider.Destroy
    MatErrors,    \* the errors MaterializeContent can end with
    DaemonFails,  \* whether the daemon's answers and streams can break
    MaxRuns,      \* bound on the number of runs
    MaxTokens,    \* bound on the calls of SetAgentToken
    MaxRestarts   \* bound on the restarts of this process

\* The sentinels a materialise error may wrap, and any other error.
Errors == {"ErrPull", "ErrModel", "ErrConfig", "other"}

Clients == Runners \cup Preparers \cup Stoppers \cup Removers \cup Destroyers

ASSUME DockerAssumption ==
    /\ Runners \cap (Preparers \cup Stoppers \cup Removers \cup Destroyers) = {}
    /\ Preparers \cap (Stoppers \cup Removers \cup Destroyers) = {}
    /\ Stoppers \cap (Removers \cup Destroyers) = {}
    /\ Removers \cap Destroyers = {}
    /\ MatErrors \subseteq Errors
    /\ DaemonFails \in BOOLEAN
    /\ MaxRuns \in Nat /\ MaxTokens \in Nat /\ MaxRestarts \in Nat

VARIABLES
    cur,          \* the run that holds running/cancel/ran, 0 if none
    nruns,        \* number of runs begun
    ctxDone,      \* the runs whose context is cancelled
    ranClosed,    \* the runs whose ran channel is closed
    initialized,  \* Agent.initialized, and that rt is set
    containerID,  \* Agent.containerID, 0 for the empty string
    token,        \* version of deps.agentToken
    box,          \* in the daemon: the container with the agent's name, or 0
    up,           \* in the daemon: that container is running
    made,         \* in the daemon: number of containers created
    boxToken,     \* in the daemon: the token in that container's environment
    pc,           \* where each client is in its call
    loc,          \* the local variables of that call
    inherited,    \* history: containers made before the last restart
    overtaken,    \* history: a Remove has cleared the id of a later run
    restarts      \* number of restarts

runVars == <<cur, nruns, ctxDone, ranClosed>>
cfgVars == <<initialized, containerID, token>>
boxVars == <<box, up, made, boxToken>>
bootVars == <<inherited, overtaken, restarts>>
vars == <<statusVars, runVars, cfgVars, boxVars, pc, loc, bootVars>>

\* run: the run a runner executes, or the one whose cancel and ran a Stop took;
\* id: the container a call is about; tok: the token create read; err: the
\* failure about to be recorded.  History: want, the token when Run was called;
\* since, the number of runs when a Stop or Destroy looked; ret, how it ended.
NoLoc == [run |-> 0, id |-> 0, tok |-> 0, err |-> "none",
          want |-> 0, since |-> 0, ret |-> "none"]

Goto(c, l) == pc' = [pc EXCEPT ![c] = l]

\* A step that touches nothing but the caller's own variables.
Local == UNCHANGED <<statusVars, runVars, cfgVars, boxVars, bootVars>>

Init ==
    /\ NewStatusTracker
    /\ cur = 0 /\ nruns = 0 /\ ctxDone = {} /\ ranClosed = {}
    /\ initialized = FALSE /\ containerID = 0 /\ token = 0
    /\ box = 0 /\ up = FALSE /\ made = 0 /\ boxToken = 0
    /\ pc = [c \in Clients |-> "idle"]
    /\ loc = [c \in Clients |-> NoLoc]
    /\ inherited = 0 /\ overtaken = FALSE /\ restarts = 0

-----------------------------------------------------------------------------
(* Failures: failUnless looks at the context, then records the reason.        *)

Fails(c, reason) == Goto(c, "fail") /\ loc' = [loc EXCEPT ![c].err = reason]

\* A failed Prepare is over when it was called directly; a Run ends.
FailedCall(c) ==
    /\ Goto(c, IF c \in Preparers THEN "idle" ELSE "endRun")
    /\ loc' = [loc EXCEPT ![c].err = "none"]

\* The context of a direct Prepare may or may not have ended.
failUnless(c) ==
    /\ pc[c] = "fail"
    /\ \/ (c \in Preparers \/ loc[c].run \notin ctxDone) /\ Goto(c, "setFailure") /\ UNCHANGED loc
       \/ (c \in Preparers \/ loc[c].run \in ctxDone) /\ FailedCall(c)
    /\ Local

RecordFailure(c) ==
    /\ pc[c] = "setFailure"
    /\ SetFailure(loc[c].err)
    /\ FailedCall(c)
    /\ UNCHANGED <<runVars, cfgVars, boxVars, bootVars>>

-----------------------------------------------------------------------------
(* Run and Start, up to the container.                                        *)

Run(c) ==
    /\ pc[c] = "idle"
    /\ Goto(c, "begin") /\ loc' = [loc EXCEPT ![c].want = token]
    /\ Local

\* Start is Run behind a look at the status.
Start(c) == status \in {"stopped", "failed"} /\ Run(c)

\* The handshake is installed, or refused to a second run.
beginRun(c) ==
    /\ pc[c] = "begin"
    /\ IF cur # 0
         THEN Goto(c, "idle") /\ loc' = [loc EXCEPT ![c] = NoLoc] /\ UNCHANGED <<cur, nruns>>
         ELSE /\ nruns < MaxRuns
              /\ nruns' = nruns + 1 /\ cur' = nruns + 1
              /\ Goto(c, "pulling") /\ loc' = [loc EXCEPT ![c].run = nruns + 1]
    /\ UNCHANGED <<statusVars, ctxDone, ranClosed, cfgVars, boxVars, bootVars>>

SetPulling(c) ==
    /\ pc[c] = "pulling"
    /\ Set("pulling") /\ Goto(c, "prepare")
    /\ UNCHANGED <<runVars, cfgVars, boxVars, loc, bootVars>>

\* Any error, or the absence of a descriptor, fails the pull.
ensureImagesPulled(c) ==
    /\ pc[c] = "pullImages"
    /\ \/ initialized /\ loc[c].run \notin ctxDone /\ Goto(c, "starting") /\ UNCHANGED loc
       \/ Fails(c, "pull")
    /\ Local

SetStarting(c) ==
    /\ pc[c] = "starting"
    /\ Set("starting") /\ Goto(c, "create")
    /\ UNCHANGED <<runVars, cfgVars, boxVars, loc, bootVars>>

-----------------------------------------------------------------------------
(* Prepare, called directly or from Run.                                      *)

PrepareCall(c) == pc[c] = "idle" /\ Goto(c, "prepare") /\ UNCHANGED loc /\ Local

Prepared(c) == Goto(c, IF c \in Preparers THEN "idle" ELSE "pullImages")

Prepare(c) ==
    /\ pc[c] = "prepare"
    /\ IF initialized THEN Prepared(c) ELSE Goto(c, "materialize")
    /\ UNCHANGED loc /\ Local

materializeFailureReason(e) ==
    CASE e = "ErrPull" -> "pull" [] e = "ErrModel" -> "model"
      [] e = "ErrConfig" -> "config" [] OTHER -> "init"

MaterializeContent(c) ==
    /\ pc[c] = "materialize"
    /\ \/ Goto(c, "publish") /\ UNCHANGED loc
       \/ \E e \in MatErrors : Fails(c, materializeFailureReason(e))
    /\ Local

\* The last one to get here wins: there is no second look.
Publish(c) ==
    /\ pc[c] = "publish"
    /\ initialized' = TRUE /\ Prepared(c)
    /\ UNCHANGED <<statusVars, runVars, containerID, token, boxVars, loc, bootVars>>

-----------------------------------------------------------------------------
(* create, start and wait: calls to the daemon under the run's context.       *)

\* What came of a call that was sent.  While the context lives the answer is
\* the daemon's; a broken connection or the end of the context hides it.
Answer(c, effect, ok) ==
    \/ effect /\ loc[c].run \notin ctxDone /\ ok
    \/ (DaemonFails \/ loc[c].run \in ctxDone) /\ (effect \/ UNCHANGED boxVars) /\ Fails(c, "init")

\* Mutant: the token of the first container is used for good.
createWithOldToken(c) ==
    /\ pc[c] = "create" /\ loc[c].run \notin ctxDone
    /\ Goto(c, "clearSent") /\ UNCHANGED loc
    /\ Local

\* create reads rt and the token under the lock, and sends the removal of a
\* leftover; a call whose context has ended is not sent.
create(c) ==
    /\ pc[c] = "create"
    /\ IF loc[c].run \in ctxDone
         THEN Fails(c, "init")
         ELSE Goto(c, "clearSent") /\ loc' = [loc EXCEPT ![c].tok = token]
    /\ Local

\* A forced ContainerRemove of container i; a container not found is no error.
ContainerRemove(i) ==
    /\ IF box = i THEN box' = 0 /\ up' = FALSE ELSE UNCHANGED <<box, up>>
    /\ UNCHANGED <<made, boxToken>>

\* Mutant: a leftover container of the same name is not cleared.
SkipOrphan(c) == pc[c] = "clearSent" /\ Goto(c, "createSent") /\ UNCHANGED loc /\ Local

\* By name: whatever container there is.
removeOrphanContainer(c) ==
    /\ pc[c] = "clearSent"
    /\ Answer(c, ContainerRemove(box), Goto(c, "createSent") /\ UNCHANGED loc)
    /\ UNCHANGED <<statusVars, runVars, cfgVars, bootVars>>

\* ContainerCreate: the name must be free, and the answer carries the id.
ContainerCreate(c) ==
    /\ pc[c] = "createSent"
    /\ IF box = 0
         THEN Answer(c, box' = made + 1 /\ made' = made + 1 /\ up' = FALSE /\ boxToken' = loc[c].tok,
                     Goto(c, "recordID") /\ loc' = [loc EXCEPT ![c].id = made + 1])
         ELSE Fails(c, "init") /\ UNCHANGED boxVars
    /\ UNCHANGED <<statusVars, runVars, cfgVars, bootVars>>

\* Mutant: the new id is used and not recorded.
ForgetID(c) == pc[c] = "recordID" /\ Goto(c, "startSent") /\ UNCHANGED loc /\ Local

RecordID(c) ==
    /\ pc[c] = "recordID"
    /\ containerID' = loc[c].id /\ Goto(c, "start")
    /\ UNCHANGED <<statusVars, runVars, initialized, token, boxVars, loc, bootVars>>

\* start reads the id again, under the lock, and sends ContainerStart.
start(c) ==
    /\ pc[c] = "start"
    /\ IF containerID = 0 \/ loc[c].run \in ctxDone
         THEN Fails(c, "init")
         ELSE Goto(c, "startSent") /\ loc' = [loc EXCEPT ![c].id = containerID]
    /\ Local

ContainerStart(c) ==
    /\ pc[c] = "startSent"
    /\ IF box = loc[c].id
         THEN Answer(c, up' = TRUE /\ UNCHANGED <<box, made, boxToken>>,
                     Goto(c, "logs") /\ UNCHANGED loc)
         ELSE Fails(c, "init") /\ UNCHANGED boxVars
    /\ UNCHANGED <<statusVars, runVars, cfgVars, bootVars>>

\* wait reads the id once more and opens the log stream; without an id, or with
\* an error, it returns, and nobody stops the container.
wait(c) ==
    /\ pc[c] = "logs"
    /\ loc' = [loc EXCEPT ![c].id = containerID]
    /\ \/ containerID # 0 /\ box = containerID /\ loc[c].run \notin ctxDone /\ Goto(c, "stream")
       \/ /\ containerID = 0 \/ box # containerID \/ loc[c].run \in ctxDone \/ DaemonFails
          /\ Goto(c, "endRun")
    /\ Local

\* Mutant: only the exit of the container ends the stream.
StreamUntilExit(c) ==
    /\ pc[c] = "stream" /\ ~(up /\ box = loc[c].id)
    /\ Goto(c, "endRun") /\ UNCHANGED loc /\ Local

\* The stream ends with the container, with the context, or with the connection.
StreamEnds(c) ==
    /\ pc[c] = "stream"
    /\ DaemonFails \/ loc[c].run \in ctxDone \/ ~(up /\ box = loc[c].id)
    /\ Goto(c, IF loc[c].run \in ctxDone THEN "reap" ELSE "endRun")
    /\ UNCHANGED loc /\ Local

\* stopContainer ignores every error.
stopContainer(i, mayFail) ==
    /\ up' = (up /\ box # i) \/ (mayFail /\ UNCHANGED up)
    /\ UNCHANGED <<box, made, boxToken>>

Reap(c) ==
    /\ pc[c] = "reap"
    /\ stopContainer(loc[c].id, DaemonFails) /\ Goto(c, "endRun")
    /\ UNCHANGED <<statusVars, runVars, cfgVars, loc, bootVars>>

-----------------------------------------------------------------------------
(* endRun.                                                                    *)

endRun(c) ==
    /\ pc[c] = "endRun"
    /\ cur' = 0 /\ Goto(c, "settle")
    /\ UNCHANGED <<statusVars, nruns, ctxDone, ranClosed, cfgVars, boxVars, loc, bootVars>>

SettleGuard == {"failed", "removing", "removed"}

Settle(c) ==
    /\ pc[c] = "settle"
    /\ SetUnless("stopped", SettleGuard) /\ Goto(c, "closeRan")
    /\ UNCHANGED <<runVars, cfgVars, boxVars, loc, bootVars>>

CloseRan(c) ==
    /\ pc[c] = "closeRan"
    /\ ranClosed' = ranClosed \cup {loc[c].run}
    /\ Goto(c, "idle") /\ loc' = [loc EXCEPT ![c] = NoLoc]
    /\ UNCHANGED <<statusVars, cur, nruns, ctxDone, cfgVars, boxVars, bootVars>>

-----------------------------------------------------------------------------
(* Stop, called directly or from Remove.                                      *)

\* What Stop and Destroy see when they are called; i is their container.
Look(c, i, r) ==
    loc' = [loc EXCEPT ![c] = [@ EXCEPT !.run = cur, !.id = i, !.since = nruns, !.ret = r]]

Ends(c, e) == Goto(c, "idle") /\ loc' = [loc EXCEPT ![c].ret = e]

AfterStop(c) == IF c \in Removers THEN "removing" ELSE "idle"

\* Stop's critical section: the handshake and the container id.
Stop(c) ==
    /\ pc[c] = "idle"
    /\ IF cur = 0 /\ containerID = 0
         THEN Look(c, 0, "nil") /\ Goto(c, AfterStop(c))
         ELSE Look(c, containerID, "none") /\ Goto(c, IF cur # 0 THEN "cancel" ELSE "stopBox")
    /\ Local

StopCancel(c) ==
    /\ pc[c] = "cancel"
    /\ ctxDone' = ctxDone \cup {loc[c].run}
    /\ Goto(c, IF loc[c].id # 0 THEN "stopBox" ELSE "wait")
    /\ UNCHANGED <<statusVars, cur, nruns, ranClosed, cfgVars, boxVars, loc, bootVars>>

\* Under Stop's own context, which may have ended.
StopBox(c) ==
    /\ pc[c] = "stopBox"
    /\ stopContainer(loc[c].id, TRUE)
    /\ IF loc[c].run # 0
         THEN Goto(c, "wait") /\ UNCHANGED loc
         ELSE Goto(c, AfterStop(c)) /\ loc' = [loc EXCEPT ![c].ret = "nil"]
    /\ UNCHANGED <<statusVars, runVars, cfgVars, bootVars>>

StopRan(c) ==
    /\ pc[c] = "wait" /\ loc[c].run \in ranClosed
    /\ Goto(c, AfterStop(c)) /\ loc' = [loc EXCEPT ![c].ret = "nil"]
    /\ Local

StopCtx(c) == pc[c] = "wait" /\ Ends(c, "error") /\ Local

-----------------------------------------------------------------------------
(* Remove after its Stop, and Provider.Destroy.                               *)

SetRemoving(c) ==
    /\ pc[c] = "removing"
    /\ Set("removing") /\ Goto(c, "readID")
    /\ UNCHANGED <<runVars, cfgVars, boxVars, loc, bootVars>>

\* Mutant: Remove uses the id its Stop took.
ReadNoID(c) ==
    /\ pc[c] = "readID"
    /\ Goto(c, IF loc[c].id = 0 THEN "removeAll" ELSE "removeBox") /\ UNCHANGED loc /\ Local

ReadID(c) ==
    /\ pc[c] = "readID"
    /\ loc' = [loc EXCEPT ![c].id = containerID]
    /\ Goto(c, IF containerID = 0 THEN "removeAll" ELSE "removeBox")
    /\ Local

\* A failed removal, or one whose answer is lost, ends the call; a Remove then
\* leaves the agent removing.
RemoveBox(c) ==
    /\ pc[c] = "removeBox"
    /\ \/ /\ ContainerRemove(loc[c].id)
          /\ Goto(c, IF c \in Removers THEN "clearID" ELSE "removeAll") /\ UNCHANGED loc
       \/ Ends(c, "error") /\ (ContainerRemove(loc[c].id) \/ UNCHANGED boxVars)
    /\ UNCHANGED <<statusVars, runVars, cfgVars, bootVars>>

\* It clears whatever id is there.
ClearID(c) ==
    /\ pc[c] = "clearID"
    /\ containerID' = 0 /\ Goto(c, "removeAll")
    /\ overtaken' = (overtaken \/ loc[c].since # nruns)
    /\ UNCHANGED <<statusVars, runVars, initialized, token, boxVars, loc, inherited, restarts>>

\* The tree on disk is deleted, or the call ends with an error.
RemoveAll(c) ==
    /\ pc[c] = "removeAll"
    /\ \/ c \in Removers /\ Goto(c, "removed") /\ UNCHANGED loc
       \/ c \in Destroyers /\ Ends(c, "nil")
       \/ Ends(c, "error")
    /\ Local

SetRemoved(c) ==
    /\ pc[c] = "removed"
    /\ Set("removed") /\ Ends(c, "removed")
    /\ UNCHANGED <<runVars, cfgVars, boxVars, bootVars>>

\* Destroy lists every container with the agents' label, running or not.
Destroy(c) ==
    /\ pc[c] = "idle"
    /\ Look(c, box, "none") /\ Goto(c, IF box = 0 THEN "removeAll" ELSE "removeBox")
    /\ Local

-----------------------------------------------------------------------------
(* The environment.                                                           *)

SetAgentToken ==
    /\ token < MaxTokens /\ token' = token + 1
    /\ UNCHANGED <<statusVars, runVars, initialized, containerID, boxVars, pc, loc, bootVars>>

\* The caller of Run cancels the context it passed.
CallerCancels(c) ==
    /\ loc[c].run # 0 /\ ctxDone' = ctxDone \cup {loc[c].run}
    /\ UNCHANGED <<statusVars, cur, nruns, ranClosed, cfgVars, boxVars, pc, loc, bootVars>>

\* The runtime in the container exits.
ContainerExit ==
    /\ up /\ up' = FALSE
    /\ UNCHANGED <<statusVars, runVars, cfgVars, box, made, boxToken, pc, loc, bootVars>>

\* This process dies and its successor creates the agent anew.  Load adopts no
\* container, so the daemon's container is not known to the new Agent.
Restart ==
    /\ restarts < MaxRestarts /\ restarts' = restarts + 1
    /\ inherited' = made /\ overtaken' = FALSE
    /\ status' = "pulling" /\ failure' = "none"
    /\ cur' = 0 /\ initialized' = FALSE /\ containerID' = 0
    /\ pc' = [c \in Clients |-> "idle"] /\ loc' = [c \in Clients |-> NoLoc]
    /\ UNCHANGED <<nruns, ctxDone, ranClosed, token, boxVars>>

-----------------------------------------------------------------------------

\* The steps of a call of Prepare.
PrepareStep(c) ==
    \/ Prepare(c) \/ MaterializeContent(c) \/ Publish(c)
    \/ failUnless(c) \/ RecordFailure(c)

\* The steps of a call of Run.
RunStep(c) ==
    \/ beginRun(c) \/ SetPulling(c) \/ PrepareStep(c) \/ ensureImagesPulled(c)
    \/ SetStarting(c) \/ create(c) \/ removeOrphanContainer(c)
    \/ ContainerCreate(c) \/ RecordID(c) \/ start(c) \/ ContainerStart(c)
    \/ wait(c) \/ StreamEnds(c) \/ Reap(c) \/ endRun(c) \/ Settle(c) \/ CloseRan(c)

\* The steps of Stop, but for the end of its own context.
StopStep(c) == StopCancel(c) \/ StopBox(c) \/ StopRan(c)

RemoveStep(c) == SetRemoving(c) \/ ReadID(c) \/ ClearID(c) \/ SetRemoved(c)

Next ==
    \/ \E c \in Runners : Run(c) \/ Start(c) \/ RunStep(c) \/ CallerCancels(c)
    \/ \E c \in Preparers : PrepareCall(c) \/ PrepareStep(c)
    \/ \E c \in Stoppers \cup Removers : Stop(c) \/ StopStep(c) \/ StopCtx(c)
    \/ \E c \in Removers : RemoveStep(c)
    \/ \E c \in Destroyers : Destroy(c)
    \/ \E c \in Removers \cup Destroyers : RemoveBox(c) \/ RemoveAll(c)
    \/ SetAgentToken \/ ContainerExit \/ Restart

Spec == Init /\ [][Next]_vars

\* Calls under way go on and the daemon answers them.  Nobody has to make a
\* call, and a container need not exit by itself.
FairSpec ==
    /\ Spec
    /\ \A c \in Runners : WF_vars(RunStep(c))
    /\ \A c \in Stoppers \cup Removers : WF_vars(StopStep(c))

-----------------------------------------------------------------------------
(* Properties.                                                                *)

\* removeOrphanContainer "clears a stopped leftover of the same name so
\* ContainerCreate does not 409": whatever a cancelled run, a lost answer or an
\* earlier process left behind, the name is free when the create is sent.
NoNameConflict == \A c \in Runners : pc[c] = "createSent" => box = 0

\* The container runs and was made by this process.
Running == up /\ box > inherited

\* A running container is the one containerID names, even after its run was
\* lost: the next Stop or Remove reaches it.  Only a Remove that a later run
\* overtook can clear the id of a running container.
RunningIsTracked == Running /\ ~overtaken => box = containerID

\* A Remove that returned nil, with no run begun since its Stop, leaves no
\* container running, whether or not that Stop found and stopped it.
RemovedIsDown ==
    \A c \in Removers :
        loc[c].ret = "removed" /\ loc[c].since = nruns /\ ~overtaken => ~Running

\* Destroy "leaves nothing behind", not even a container an earlier process or
\* a lost answer left, when no run was in flight and none has begun since.
DestroyedIsGone ==
    \A c \in Destroyers :
        loc[c].ret = "nil" /\ loc[c].run = 0 /\ loc[c].since = nruns => box = 0

\* Deleting an agent, or all of them, leaves no container running.
DeletionIsEffective == RemovedIsDown /\ DestroyedIsGone

\* A token rotated before Run was called is the one its container gets.
FreshToken ==
    \A c \in Runners : pc[c] = "stream" /\ box = loc[c].id => boxToken >= loc[c].want

\* A cancelled run returns, from whatever phase it is in.
CancelledRunEnds ==
    \A c \in Runners : loc[c].run # 0 /\ loc[c].run \in ctxDone ~> loc[c].run = 0

\* A Stop returns even if its own context never ends: it has cancelled the run
\* it waits for.
StopTerminates ==
    \A c \in Stoppers : pc[c] \in {"cancel", "stopBox", "wait"} ~> pc[c] = "idle"

\* Cancellation, by a Stop or by the caller of Run, comes to an end for both.
CancellationEnds == CancelledRunEnds /\ StopTerminates

\* "On cancellation it stops the container so it does not orphan": when no run
\* is in flight, no container of this process is running.
NoOrphan == cur = 0 => ~Running
=============================================================================
