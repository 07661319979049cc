------------------------- MODULE DockerAgentProofs -------------------------
(* Proofs about DockerAgent, for any number of callers, runs, tokens and      *)
(* restarts of the process.                                                   *)
(*                                                                            *)
(* The invariant says of the shared state who may be writing it, and of each  *)
(* caller, by its place in the code and its local variables, what it knows of *)
(* the shared state.  A step then has two obligations: the caller that moves  *)
(* knows enough at its new place, and what the others know is not disturbed.  *)
EXTENDS DockerAgent, TLAPS

\* What DockerAssumption says of the callers and the bounds.
LEMMA Constants ==
    /\ \A c \in Runners : c \notin Removers /\ c \notin Destroyers /\ c \notin Preparers
    /\ \A c \in Removers : c \notin Destroyers
    /\ \A c \in Stoppers : c \notin Runners /\ c \notin Removers /\ c \notin Destroyers
    /\ \A c \in Preparers : c \notin Removers /\ c \notin Destroyers
    /\ MaxRuns \in Nat
BY DockerAssumption

-----------------------------------------------------------------------------
(* The inductive invariant.                                                   *)

Locals == [run : Nat, id : Nat, tok : Nat, err : {"none", "pull", "init", "config", "model"},
           want : Nat, since : Nat, ret : {"none", "nil", "error", "removed"}]

\* The phases of a Run between beginRun and endRun.
Active == {"pulling", "prepare", "materialize", "publish", "fail", "setFailure",
           "pullImages", "starting", "create", "clearSent", "createSent", "recordID",
           "start", "startSent", "logs", "stream", "reap", "endRun"}

\* The phases of a Remove: in its Stop, after it, and with the container gone.
Stopping == {"cancel", "stopBox", "wait"}
Deleting == {"removing", "readID", "removeBox", "clearID", "removeAll", "removed"}
ContainerGone == {"clearID", "removeAll", "removed"}

Phases == Active \cup Stopping \cup Deleting \cup {"idle", "begin", "settle", "closeRan"}

TypeInv ==
    /\ cur \in Nat /\ nruns \in Nat /\ cur <= nruns
    /\ containerID \in Nat /\ token \in Nat
    /\ box \in Nat /\ made \in Nat /\ box <= made
    /\ up \in BOOLEAN /\ boxToken \in Nat
    /\ inherited \in Nat /\ overtaken \in BOOLEAN
    /\ pc \in [Clients -> Phases]
    /\ loc \in [Clients -> Locals]

\* The phases in which the run's container exists, as far as the run knows.
HasContainer == {"recordID", "start", "startSent", "logs", "stream"}

\* What a Run in phase l with local variables v knows.
RunnerInv(l, v) ==
    /\ l \in Active => v.run = cur /\ cur # 0
    /\ l \in {"settle", "closeRan"} => v.run # cur /\ v.run # 0 /\ v.run <= nruns
    /\ l \in Active \cup {"begin"} => v.want <= token
    /\ l \in {"clearSent", "createSent"} => v.want <= v.tok
    /\ l \in HasContainer => v.want <= boxToken
    /\ l = "createSent" => box = 0
    /\ l = "recordID" => box \in {0, v.id}
    /\ l = "startSent" /\ ~overtaken => containerID = v.id

\* What a Remove knows as long as no run has begun since its Stop.
RemoverInv(l, v) ==
    /\ v.since <= nruns
    /\ v.ret = "removed" => l = "idle"
    /\ v.since = nruns =>
         /\ l \in Stopping => cur \in {0, v.run}
         /\ l \in Deleting \/ v.ret = "removed" => cur = 0
         /\ l = "removeBox" /\ ~overtaken => containerID \in {0, v.id}
         /\ (l \in ContainerGone \/ v.ret = "removed") /\ ~overtaken => ~Running

\* What a Destroy that found no run in flight knows as long as none has begun.
DestroyerInv(l, v) ==
    /\ v.since <= nruns
    /\ v.ret # "none" => l = "idle"
    /\ v.since = nruns /\ v.run = 0 =>
         /\ l = "removeBox" => cur = 0 /\ box \in {0, v.id}
         /\ l = "removeAll" \/ v.ret = "nil" => cur = 0 /\ box = 0

\* At most one run is between beginRun and endRun, and the runs that are over
\* are not the one that holds the handshake.
OneOwner == \A c, d \in Runners : pc[c] \in Active /\ pc[d] \in Active => c = d
ClosedInv == \A r \in ranClosed : r \in Nat /\ r # 0 /\ r # cur /\ r <= nruns

CallersInv ==
    /\ \A c \in Runners : RunnerInv(pc[c], loc[c])
    /\ \A c \in Removers : RemoverInv(pc[c], loc[c])
    /\ \A c \in Destroyers : DestroyerInv(pc[c], loc[c])

IInv == TypeInv /\ OneOwner /\ ClosedInv /\ CallersInv /\ RunningIsTracked

-----------------------------------------------------------------------------
(* Frames: what a step leaves to the other callers.                           *)

\* Only caller c moves.
Moves(c) ==
    /\ pc' \in [Clients -> Phases] /\ loc' \in [Clients -> Locals]
    /\ \A d \in Clients : d # c => pc'[d] = pc[d] /\ loc'[d] = loc[d]

\* No run begins or ends and the container, if anything, goes away or stops.
Quiet ==
    /\ UNCHANGED <<cur, nruns, ranClosed, containerID, made, boxToken, inherited, overtaken>>
    /\ token' \in Nat /\ token <= token'
    /\ box' \in {0, box} /\ up' \in BOOLEAN
    /\ up' => up /\ box' = box

\* A quiet step keeps the parts of the invariant that name no caller.
LEMMA QuietShared ==
    ASSUME TypeInv, ClosedInv, RunningIsTracked, Quiet,
           pc' \in [Clients -> Phases], loc' \in [Clients -> Locals]
    PROVE  TypeInv' /\ ClosedInv' /\ RunningIsTracked'
<1>1. TypeInv'
  BY DEF TypeInv, Quiet
<1>2. ClosedInv'
  BY DEF ClosedInv, Quiet
<1>3. RunningIsTracked'
  BY DEF TypeInv, RunningIsTracked, Running, Quiet
<1> QED BY <1>1, <1>2, <1>3

\* A step that changes no shared state but quietly, made by caller c.
LEMMA QuietStep ==
    ASSUME IInv, NEW c \in Clients, Moves(c), Quiet,
           c \in Runners => /\ RunnerInv(pc[c], loc[c])'
                            /\ pc'[c] \in Active => pc[c] \in Active,
           c \in Removers => RemoverInv(pc[c], loc[c])',
           c \in Destroyers => DestroyerInv(pc[c], loc[c])'
    PROVE  IInv'
<1> USE DEF IInv
<1>1. /\ pc' \in [Clients -> Phases] /\ loc' \in [Clients -> Locals]
      /\ \A d \in Clients : d # c => pc'[d] = pc[d] /\ loc'[d] = loc[d]
  BY DEF Moves
<1>2. TypeInv' /\ ClosedInv' /\ RunningIsTracked'
  BY <1>1, QuietShared
<1>3. OneOwner'
  BY <1>1 DEF OneOwner, Clients
<1>4. CallersInv'
  <2>1. ASSUME NEW d \in Clients, d # c
        PROVE  /\ RunnerInv(pc[d], loc[d]) => RunnerInv(pc[d], loc[d])'
               /\ RemoverInv(pc[d], loc[d]) => RemoverInv(pc[d], loc[d])'
               /\ DestroyerInv(pc[d], loc[d]) => DestroyerInv(pc[d], loc[d])'
    <3>1. loc[d] \in Locals /\ pc'[d] = pc[d] /\ loc'[d] = loc[d]
      BY <1>1, <2>1 DEF TypeInv
    <3>2. ASSUME RunnerInv(pc[d], loc[d]) PROVE RunnerInv(pc[d], loc[d])'
      BY <3>1, <3>2 DEF TypeInv, Quiet, RunnerInv, Locals
    <3>3. ASSUME RemoverInv(pc[d], loc[d]) PROVE RemoverInv(pc[d], loc[d])'
      BY <3>1, <3>3 DEF TypeInv, Quiet, RemoverInv, Running, Locals
    <3>4. ASSUME DestroyerInv(pc[d], loc[d]) PROVE DestroyerInv(pc[d], loc[d])'
      BY <3>1, <3>4 DEF TypeInv, Quiet, DestroyerInv, Locals
    <3> QED BY <3>2, <3>3, <3>4
  <2> QED BY <2>1 DEF CallersInv, Clients
<1> QED BY <1>2, <1>3, <1>4

-----------------------------------------------------------------------------
(* The calls to the daemon that take something away.                          *)

\* The container is gone, stopped or as it was.
BoxShrinks ==
    /\ box' \in {0, box} /\ up' \in BOOLEAN /\ (up' => up /\ box' = box)
    /\ made' = made /\ boxToken' = boxToken

\* ContainerRemove takes the container of that id away, or finds none.
LEMMA ContainerRemoveShrinks ==
    ASSUME TypeInv, NEW i, ContainerRemove(i) PROVE BoxShrinks
BY DEF TypeInv, ContainerRemove, BoxShrinks

\* stopContainer takes a running container down, or its error is ignored.
LEMMA StopContainerShrinks ==
    ASSUME TypeInv, NEW i, NEW b, stopContainer(i, b) PROVE BoxShrinks
<1>1. CASE up' = (up /\ box # i)
  BY <1>1 DEF TypeInv, stopContainer, BoxShrinks
<1>2. CASE up' = up
  BY <1>2 DEF TypeInv, stopContainer, BoxShrinks
<1> QED BY <1>1, <1>2 DEF stopContainer

\* A call that the daemon does not act on is the least of these.
LEMMA NothingShrinks == ASSUME TypeInv, UNCHANGED boxVars PROVE BoxShrinks
BY DEF TypeInv, boxVars, BoxShrinks

\* A step that only takes something away is quiet.
LEMMA ShrinkIsQuiet ==
    ASSUME TypeInv, BoxShrinks, UNCHANGED <<runVars, cfgVars, bootVars>> PROVE Quiet
BY DEF TypeInv, BoxShrinks, Quiet, runVars, cfgVars, bootVars

-----------------------------------------------------------------------------
(* The quiet steps of a Run.                                                  *)

\* A step of a run that stays between beginRun and endRun.
LEMMA RunnerStep ==
    ASSUME IInv, NEW c \in Runners, Moves(c), Quiet, RunnerInv(pc[c], loc[c])',
           pc[c] \in Active \/ pc'[c] \notin Active
    PROVE  IInv'
BY QuietStep, Constants DEF Clients

\* What a runner knows before its step.
LEMMA RunnerFacts ==
    ASSUME IInv, NEW c \in Runners
    PROVE  /\ RunnerInv(pc[c], loc[c]) /\ TypeInv
           /\ c \in Clients /\ c \notin Preparers
           /\ loc[c] \in Locals 
BY Constants DEF IInv, CallersInv, TypeInv, Clients

\* Run is called: the run has no handshake yet.
LEMMA RunKeeps ==
    ASSUME IInv, NEW c \in Runners, Run(c) PROVE IInv'
<1>1. /\ RunnerInv(pc[c], loc[c]) /\ TypeInv /\ c \in Clients /\ c \notin Preparers
      /\ loc[c] \in Locals
  BY RunnerFacts
<1>2. Moves(c)
  BY <1>1 DEF Run, Goto, Moves, Local, runVars, cfgVars, boxVars, bootVars, statusVars, TypeInv,
     Locals, Phases, Active, Stopping, Deleting
<1>3. Quiet
  BY <1>1 DEF Run, Goto, Quiet, Local, runVars, cfgVars, boxVars, bootVars, statusVars, TypeInv
<1>4. RunnerInv(pc[c], loc[c])' /\ (pc[c] \in Active \/ pc'[c] \notin Active)
  BY <1>1 DEF Run, Goto, Moves, Quiet, Local, runVars, cfgVars, boxVars, bootVars, statusVars, TypeInv,
              Locals, RunnerInv, Active, HasContainer
<1> QED BY <1>2, <1>3, <1>4, RunnerStep

\* beginRun refuses a second run and leaves everything to the first.
LEMMA RefusedKeeps ==
    ASSUME IInv, NEW c \in Runners, beginRun(c), cur # 0 PROVE IInv'
<1>1. /\ RunnerInv(pc[c], loc[c]) /\ TypeInv /\ c \in Clients /\ c \notin Preparers
      /\ loc[c] \in Locals
  BY RunnerFacts
<1>2. Moves(c)
  BY <1>1 DEF beginRun, NoLoc, Goto, Moves, Local, runVars, cfgVars, boxVars, bootVars, statusVars, TypeInv,
     Locals, Phases, Active, Stopping, Deleting
<1>3. Quiet
  BY <1>1 DEF beginRun, NoLoc, Goto, Quiet, Local, runVars, cfgVars, boxVars, bootVars, statusVars, TypeInv
<1>4. RunnerInv(pc[c], loc[c])' /\ (pc[c] \in Active \/ pc'[c] \notin Active)
  BY <1>1 DEF beginRun, NoLoc, Goto, Moves, Quiet, Local, runVars, cfgVars, boxVars, bootVars, statusVars,
              TypeInv, Locals, RunnerInv, Active, HasContainer
<1> QED BY <1>2, <1>3, <1>4, RunnerStep

\* The owner writes the status pulling.
LEMMA SetPullingKeeps ==
    ASSUME IInv, NEW c \in Runners, SetPulling(c) PROVE IInv'
<1>1. /\ RunnerInv(pc[c], loc[c]) /\ TypeInv /\ c \in Clients /\ c \notin Preparers
      /\ loc[c] \in Locals
  BY RunnerFacts
<1>2. Moves(c)
  BY <1>1 DEF SetPulling, Goto, Moves, Local, runVars, cfgVars, boxVars, bootVars, statusVars, TypeInv,
     Locals, Phases, Active, Stopping, Deleting
<1>3. Quiet
  BY <1>1 DEF SetPulling, Goto, Quiet, Local, runVars, cfgVars, boxVars, bootVars, statusVars, TypeInv
<1>4. RunnerInv(pc[c], loc[c])' /\ (pc[c] \in Active \/ pc'[c] \notin Active)
  BY <1>1 DEF SetPulling, Goto, Moves, Quiet, Local, runVars, cfgVars, boxVars, bootVars, statusVars,
              TypeInv, Locals, RunnerInv, Active, HasContainer
<1> QED BY <1>2, <1>3, <1>4, RunnerStep

\* The images are pulled or the run fails; the container is not touched.
LEMMA ensureImagesPulledKeeps ==
    ASSUME IInv, NEW c \in Runners, ensureImagesPulled(c) PROVE IInv'
<1>1. /\ RunnerInv(pc[c], loc[c]) /\ TypeInv /\ c \in Clients /\ c \notin Preparers
      /\ loc[c] \in Locals
  BY RunnerFacts
<1>2. Moves(c)
  BY <1>1 DEF ensureImagesPulled, Fails, Goto, Moves, Local, runVars, cfgVars, boxVars, bootVars,
              statusVars, TypeInv,
     Locals, Phases, Active, Stopping, Deleting
<1>3. Quiet
  BY <1>1 DEF ensureImagesPulled, Fails, Goto, Quiet, Local, runVars, cfgVars, boxVars, bootVars,
              statusVars, TypeInv
<1>4. RunnerInv(pc[c], loc[c])' /\ (pc[c] \in Active \/ pc'[c] \notin Active)
  BY <1>1 DEF ensureImagesPulled, Fails, Goto, Moves, Quiet, Local, runVars, cfgVars, boxVars, bootVars,
              statusVars, TypeInv, Locals, RunnerInv, Active, HasContainer
<1> QED BY <1>2, <1>3, <1>4, RunnerStep

\* The owner writes the status starting.
LEMMA SetStartingKeeps ==
    ASSUME IInv, NEW c \in Runners, SetStarting(c) PROVE IInv'
<1>1. /\ RunnerInv(pc[c], loc[c]) /\ TypeInv /\ c \in Clients /\ c \notin Preparers
      /\ loc[c] \in Locals
  BY RunnerFacts
<1>2. Moves(c)
  BY <1>1 DEF SetStarting, Goto, Moves, Local, runVars, cfgVars, boxVars, bootVars, statusVars, TypeInv,
     Locals, Phases, Active, Stopping, Deleting
<1>3. Quiet
  BY <1>1 DEF SetStarting, Goto, Quiet, Local, runVars, cfgVars, boxVars, bootVars, statusVars, TypeInv
<1>4. RunnerInv(pc[c], loc[c])' /\ (pc[c] \in Active \/ pc'[c] \notin Active)
  BY <1>1 DEF SetStarting, Goto, Moves, Quiet, Local, runVars, cfgVars, boxVars, bootVars, statusVars,
              TypeInv, Locals, RunnerInv, Active, HasContainer
<1> QED BY <1>2, <1>3, <1>4, RunnerStep

\* Run calls Prepare; a materialised agent is done at once.
LEMMA PrepareKeeps ==
    ASSUME IInv, NEW c \in Runners, Prepare(c) PROVE IInv'
<1>1. /\ RunnerInv(pc[c], loc[c]) /\ TypeInv /\ c \in Clients /\ c \notin Preparers
      /\ loc[c] \in Locals
  BY RunnerFacts
<1>2. Moves(c)
  BY <1>1 DEF Prepare, Prepared, Goto, Moves, Local, runVars, cfgVars, boxVars, bootVars, statusVars, TypeInv,
     Locals, Phases, Active, Stopping, Deleting
<1>3. Quiet
  BY <1>1 DEF Prepare, Prepared, Goto, Quiet, Local, runVars, cfgVars, boxVars, bootVars, statusVars, TypeInv
<1>4. RunnerInv(pc[c], loc[c])' /\ (pc[c] \in Active \/ pc'[c] \notin Active)
  BY <1>1 DEF Prepare, Prepared, Goto, Moves, Quiet, Local, runVars, cfgVars, boxVars, bootVars, statusVars,
              TypeInv, Locals, RunnerInv, Active, HasContainer
<1> QED BY <1>2, <1>3, <1>4, RunnerStep

\* The content is materialised outside the lock.
LEMMA MaterializeContentKeeps ==
    ASSUME IInv, NEW c \in Runners, MaterializeContent(c) PROVE IInv'
<1>1. /\ RunnerInv(pc[c], loc[c]) /\ TypeInv /\ c \in Clients /\ c \notin Preparers
      /\ loc[c] \in Locals
  BY RunnerFacts
<1>2. Moves(c)
  BY <1>1 DEF MaterializeContent, Fails, materializeFailureReason, Goto, Moves, Local, runVars, cfgVars,
              boxVars, bootVars, statusVars, TypeInv,
     Locals, Phases, Active, Stopping, Deleting
<1>3. Quiet
  BY <1>1 DEF MaterializeContent, Fails, materializeFailureReason, Goto, Quiet, Local, runVars, cfgVars,
              boxVars, bootVars, statusVars, TypeInv
<1>4. RunnerInv(pc[c], loc[c])' /\ (pc[c] \in Active \/ pc'[c] \notin Active)
  BY <1>1 DEF MaterializeContent, Fails, materializeFailureReason, Goto, Moves, Quiet, Local, runVars,
              cfgVars, boxVars, bootVars, statusVars, TypeInv, Locals, RunnerInv, Active, HasContainer
<1> QED BY <1>2, <1>3, <1>4, RunnerStep

\* The first Prepare to finish publishes its descriptor.
LEMMA PublishKeeps ==
    ASSUME IInv, NEW c \in Runners, Publish(c) PROVE IInv'
<1>1. /\ RunnerInv(pc[c], loc[c]) /\ TypeInv /\ c \in Clients /\ c \notin Preparers
      /\ loc[c] \in Locals
  BY RunnerFacts
<1>2. Moves(c)
  BY <1>1 DEF Publish, Prepared, Goto, Moves, Local, runVars, cfgVars, boxVars, bootVars, statusVars, TypeInv,
     Locals, Phases, Active, Stopping, Deleting
<1>3. Quiet
  BY <1>1 DEF Publish, Prepared, Goto, Quiet, Local, runVars, cfgVars, boxVars, bootVars, statusVars, TypeInv
<1>4. RunnerInv(pc[c], loc[c])' /\ (pc[c] \in Active \/ pc'[c] \notin Active)
  BY <1>1 DEF Publish, Prepared, Goto, Moves, Quiet, Local, runVars, cfgVars, boxVars, bootVars, statusVars,
              TypeInv, Locals, RunnerInv, Active, HasContainer
<1> QED BY <1>2, <1>3, <1>4, RunnerStep

\* failUnless records no failure of a run that was cancelled.
LEMMA failUnlessKeeps ==
    ASSUME IInv, NEW c \in Runners, failUnless(c) PROVE IInv'
<1>1. /\ RunnerInv(pc[c], loc[c]) /\ TypeInv /\ c \in Clients /\ c \notin Preparers
      /\ loc[c] \in Locals
  BY RunnerFacts
<1>2. Moves(c)
  BY <1>1 DEF failUnless, FailedCall, Goto, Moves, Local, runVars, cfgVars, boxVars, bootVars, statusVars, TypeInv,
     Locals, Phases, Active, Stopping, Deleting
<1>3. Quiet
  BY <1>1 DEF failUnless, FailedCall, Goto, Quiet, Local, runVars, cfgVars, boxVars, bootVars, statusVars, TypeInv
<1>4. RunnerInv(pc[c], loc[c])' /\ (pc[c] \in Active \/ pc'[c] \notin Active)
  BY <1>1 DEF failUnless, FailedCall, Goto, Moves, Quiet, Local, runVars, cfgVars, boxVars, bootVars,
              statusVars, TypeInv, Locals, RunnerInv, Active, HasContainer
<1> QED BY <1>2, <1>3, <1>4, RunnerStep

\* SetFailure writes the status alone.
LEMMA RecordFailureKeeps ==
    ASSUME IInv, NEW c \in Runners, RecordFailure(c) PROVE IInv'
<1>1. /\ RunnerInv(pc[c], loc[c]) /\ TypeInv /\ c \in Clients /\ c \notin Preparers
      /\ loc[c] \in Locals
  BY RunnerFacts
<1>2. Moves(c)
  BY <1>1 DEF RecordFailure, FailedCall, Goto, Moves, Local, runVars, cfgVars, boxVars, bootVars,
              statusVars, TypeInv,
     Locals, Phases, Active, Stopping, Deleting
<1>3. Quiet
  BY <1>1 DEF RecordFailure, FailedCall, Goto, Quiet, Local, runVars, cfgVars, boxVars, bootVars,
              statusVars, TypeInv
<1>4. RunnerInv(pc[c], loc[c])' /\ (pc[c] \in Active \/ pc'[c] \notin Active)
  BY <1>1 DEF RecordFailure, FailedCall, Goto, Moves, Quiet, Local, runVars, cfgVars, boxVars, bootVars,
              statusVars, TypeInv, Locals, RunnerInv, Active, HasContainer
<1> QED BY <1>2, <1>3, <1>4, RunnerStep

\* create reads the token: what it will send is no older than the call.
LEMMA createKeeps ==
    ASSUME IInv, NEW c \in Runners, create(c) PROVE IInv'
<1>1. /\ RunnerInv(pc[c], loc[c]) /\ TypeInv /\ c \in Clients /\ c \notin Preparers
      /\ loc[c] \in Locals
  BY RunnerFacts
<1>2. Moves(c)
  BY <1>1 DEF create, Fails, Goto, Moves, Local, runVars, cfgVars, boxVars, bootVars, statusVars, TypeInv,
     Locals, Phases, Active, Stopping, Deleting
<1>3. Quiet
  BY <1>1 DEF create, Fails, Goto, Quiet, Local, runVars, cfgVars, boxVars, bootVars, statusVars, TypeInv
<1>4. RunnerInv(pc[c], loc[c])' /\ (pc[c] \in Active \/ pc'[c] \notin Active)
  BY <1>1 DEF create, Fails, Goto, Moves, Quiet, Local, runVars, cfgVars, boxVars, bootVars, statusVars,
              TypeInv, Locals, RunnerInv, Active, HasContainer
<1> QED BY <1>2, <1>3, <1>4, RunnerStep

\* removeOrphanContainer frees the name or the run fails, so that create
\* finds no container.
LEMMA removeOrphanKeeps ==
    ASSUME IInv, NEW c \in Runners, removeOrphanContainer(c) PROVE IInv'
<1>1. /\ RunnerInv(pc[c], loc[c]) /\ TypeInv /\ c \in Clients /\ c \notin Preparers
      /\ loc[c] \in Locals
  BY RunnerFacts
<1>2. Moves(c)
  BY <1>1 DEF removeOrphanContainer, Answer, ContainerRemove, Fails, Goto, Moves, Local, runVars, cfgVars,
              boxVars, bootVars, statusVars, TypeInv,
     Locals, Phases, Active, Stopping, Deleting
<1>3. Quiet
  <2>1. ContainerRemove(box) \/ UNCHANGED boxVars
    BY DEF removeOrphanContainer, Answer
  <2> QED BY <1>1, <2>1, ContainerRemoveShrinks, NothingShrinks, ShrinkIsQuiet
        DEF removeOrphanContainer
<1>4. RunnerInv(pc[c], loc[c])' /\ (pc[c] \in Active \/ pc'[c] \notin Active)
  BY <1>1 DEF removeOrphanContainer, Answer, ContainerRemove, Fails, Goto, Moves, Quiet, Local, runVars,
              cfgVars, boxVars, bootVars, statusVars, TypeInv, Locals, RunnerInv, Active, HasContainer
<1> QED BY <1>2, <1>3, <1>4, RunnerStep

\* ContainerStart is sent for the container that containerID names.
LEMMA startKeeps ==
    ASSUME IInv, NEW c \in Runners, start(c) PROVE IInv'
<1>1. /\ RunnerInv(pc[c], loc[c]) /\ TypeInv /\ c \in Clients /\ c \notin Preparers
      /\ loc[c] \in Locals
  BY RunnerFacts
<1>2. Moves(c)
  <2>1. CASE Fails(c, "init")
    BY <1>1, <2>1 DEF Fails, Goto, Moves, TypeInv, Locals, Phases, Active
  <2>2. CASE Goto(c, "startSent") /\ loc' = [loc EXCEPT ![c].id = containerID]
    BY <1>1, <2>2 DEF Goto, Moves, TypeInv, Locals, Phases, Active
  <2> QED BY <2>1, <2>2 DEF start
<1>3. Quiet
  BY <1>1 DEF start, Fails, Goto, Quiet, Local, runVars, cfgVars, boxVars, bootVars, statusVars, TypeInv
<1>4. RunnerInv(pc[c], loc[c])' /\ (pc[c] \in Active \/ pc'[c] \notin Active)
  BY <1>1 DEF start, Fails, Goto, Moves, Quiet, Local, runVars, cfgVars, boxVars, bootVars, statusVars,
              TypeInv, Locals, RunnerInv, Active, HasContainer
<1> QED BY <1>2, <1>3, <1>4, RunnerStep

\* The log stream is opened, or the run goes to its end without it.
LEMMA waitKeeps ==
    ASSUME IInv, NEW c \in Runners, wait(c) PROVE IInv'
<1>1. /\ RunnerInv(pc[c], loc[c]) /\ TypeInv /\ c \in Clients /\ c \notin Preparers
      /\ loc[c] \in Locals
  BY RunnerFacts
<1>2. Moves(c)
  BY <1>1 DEF wait, Goto, Moves, Local, runVars, cfgVars, boxVars, bootVars, statusVars, TypeInv,
     Locals, Phases, Active, Stopping, Deleting
<1>3. Quiet
  BY <1>1 DEF wait, Goto, Quiet, Local, runVars, cfgVars, boxVars, bootVars, statusVars, TypeInv
<1>4. RunnerInv(pc[c], loc[c])' /\ (pc[c] \in Active \/ pc'[c] \notin Active)
  BY <1>1 DEF wait, Goto, Moves, Quiet, Local, runVars, cfgVars, boxVars, bootVars, statusVars, TypeInv,
              Locals, RunnerInv, Active, HasContainer
<1> QED BY <1>2, <1>3, <1>4, RunnerStep

\* The log stream of a container ends.
LEMMA StreamEndsKeeps ==
    ASSUME IInv, NEW c \in Runners, StreamEnds(c) PROVE IInv'
<1>1. /\ RunnerInv(pc[c], loc[c]) /\ TypeInv /\ c \in Clients /\ c \notin Preparers
      /\ loc[c] \in Locals
  BY RunnerFacts
<1>2. Moves(c)
  BY <1>1 DEF StreamEnds, Goto, Moves, Local, runVars, cfgVars, boxVars, bootVars, statusVars, TypeInv,
     Locals, Phases, Active, Stopping, Deleting
<1>3. Quiet
  BY <1>1 DEF StreamEnds, Goto, Quiet, Local, runVars, cfgVars, boxVars, bootVars, statusVars, TypeInv
<1>4. RunnerInv(pc[c], loc[c])' /\ (pc[c] \in Active \/ pc'[c] \notin Active)
  BY <1>1 DEF StreamEnds, Goto, Moves, Quiet, Local, runVars, cfgVars, boxVars, bootVars, statusVars,
              TypeInv, Locals, RunnerInv, Active, HasContainer
<1> QED BY <1>2, <1>3, <1>4, RunnerStep

\* After the stream the container is stopped, under a context of its own.
LEMMA ReapKeeps ==
    ASSUME IInv, NEW c \in Runners, Reap(c) PROVE IInv'
<1>1. /\ RunnerInv(pc[c], loc[c]) /\ TypeInv /\ c \in Clients /\ c \notin Preparers
      /\ loc[c] \in Locals
  BY RunnerFacts
<1>2. Moves(c)
  BY <1>1 DEF Reap, stopContainer, Goto, Moves, Local, runVars, cfgVars, boxVars, bootVars, statusVars, TypeInv,
     Locals, Phases, Active, Stopping, Deleting
<1>3. Quiet
  BY <1>1, StopContainerShrinks, ShrinkIsQuiet DEF Reap
<1>4. RunnerInv(pc[c], loc[c])' /\ (pc[c] \in Active \/ pc'[c] \notin Active)
  BY <1>1 DEF Reap, stopContainer, Goto, Moves, Quiet, Local, runVars, cfgVars, boxVars, bootVars,
              statusVars, TypeInv, Locals, RunnerInv, Active, HasContainer
<1> QED BY <1>2, <1>3, <1>4, RunnerStep

\* The run has freed the handshake and settles the status; its number is not
\* current.
LEMMA SettleKeeps ==
    ASSUME IInv, NEW c \in Runners, Settle(c) PROVE IInv'
<1>1. /\ RunnerInv(pc[c], loc[c]) /\ TypeInv /\ c \in Clients /\ c \notin Preparers
      /\ loc[c] \in Locals
  BY RunnerFacts
<1>2. Moves(c)
  BY <1>1 DEF Settle, Goto, Moves, Local, runVars, cfgVars, boxVars, bootVars, statusVars, TypeInv,
     Locals, Phases, Active, Stopping, Deleting
<1>3. Quiet
  BY <1>1 DEF Settle, Goto, Quiet, Local, runVars, cfgVars, boxVars, bootVars, statusVars, TypeInv
<1>4. RunnerInv(pc[c], loc[c])' /\ (pc[c] \in Active \/ pc'[c] \notin Active)
  BY <1>1 DEF Settle, Goto, Moves, Quiet, Local, runVars, cfgVars, boxVars, bootVars, statusVars, TypeInv,
              Locals, RunnerInv, Active, HasContainer
<1> QED BY <1>2, <1>3, <1>4, RunnerStep

-----------------------------------------------------------------------------
(* The steps of a Run that write the shared state.                            *)

\* While a run is between beginRun and endRun it alone makes containers and
\* records their ids, and no Remove or Destroy relies on either.
LEMMA OwnerStep ==
    ASSUME IInv, NEW c \in Runners, pc[c] \in Active, Moves(c),
           UNCHANGED <<cur, nruns, ranClosed, token, inherited, overtaken>>,
           containerID' \in Nat, box' \in Nat, made' \in Nat, box' <= made',
           up' \in BOOLEAN, boxToken' \in Nat,
           RunnerInv(pc[c], loc[c])', RunningIsTracked'
    PROVE  IInv'
<1>1. /\ RunnerInv(pc[c], loc[c]) /\ TypeInv /\ c \in Clients
  BY RunnerFacts
<1>2. /\ TypeInv'
      /\ \A d \in Clients : d # c => pc'[d] = pc[d] /\ loc'[d] = loc[d]
  BY <1>1 DEF TypeInv, Moves
<1>3. cur # 0
  BY <1>1 DEF RunnerInv
<1>4. ClosedInv'
  BY DEF IInv, ClosedInv
<1>5. OneOwner'
  BY <1>2 DEF IInv, OneOwner, Clients
<1>6. ASSUME NEW d \in Runners PROVE RunnerInv(pc[d], loc[d])'
  <2>1. CASE d = c
    BY <2>1
  <2>2. CASE d # c
    <3>1. pc[d] \notin Active /\ RunnerInv(pc[d], loc[d])
      BY <2>2 DEF IInv, OneOwner, CallersInv
    <3>2. pc'[d] = pc[d] /\ loc'[d] = loc[d]
      BY <1>2, <2>2 DEF Clients
    <3> QED BY <3>1, <3>2 DEF RunnerInv, Active, HasContainer
  <2> QED BY <2>1, <2>2
<1>7. ASSUME NEW d \in Removers PROVE RemoverInv(pc[d], loc[d])'
  <2>1. RemoverInv(pc[d], loc[d]) /\ pc'[d] = pc[d] /\ loc'[d] = loc[d]
    BY <1>2, Constants DEF IInv, CallersInv, Clients
  <2> QED BY <1>3, <2>1 DEF RemoverInv, Deleting, ContainerGone
<1>8. ASSUME NEW d \in Destroyers PROVE DestroyerInv(pc[d], loc[d])'
  <2>1. DestroyerInv(pc[d], loc[d]) /\ pc'[d] = pc[d] /\ loc'[d] = loc[d]
    BY <1>2, Constants DEF IInv, CallersInv, Clients
  <2> QED BY <1>3, <2>1 DEF DestroyerInv
<1> QED BY <1>2, <1>4, <1>5, <1>6, <1>7, <1>8 DEF IInv, CallersInv

\* A create that the daemon carried out makes a stopped container; one that it
\* did not leaves the daemon as it was.
LEMMA ContainerCreateKeeps ==
    ASSUME IInv, NEW c \in Runners, ContainerCreate(c) PROVE IInv'
<1>1. /\ RunnerInv(pc[c], loc[c]) /\ TypeInv /\ c \in Clients /\ c \notin Preparers
      /\ loc[c] \in Locals
  BY RunnerFacts
<1>2. pc[c] = "createSent" /\ pc[c] \in Active /\ loc[c].tok \in Nat
  BY <1>1 DEF ContainerCreate, Active, Locals
<1>3. UNCHANGED <<cur, nruns, ranClosed, token, inherited, overtaken, containerID>>
  BY DEF ContainerCreate, runVars, cfgVars, boxVars, bootVars, statusVars
<1>4. CASE UNCHANGED boxVars /\ Fails(c, "init")
  <2>1. Moves(c)
    BY <1>1, <1>4 DEF Fails, Goto, Moves, runVars, cfgVars, boxVars, bootVars, statusVars, TypeInv,
     Locals, Phases, Active, Stopping, Deleting
  <2>2. Quiet
    BY <1>1, <1>3, <1>4 DEF Quiet, TypeInv, boxVars
  <2>3. RunnerInv(pc[c], loc[c])'
    BY <1>1, <1>2, <1>3, <1>4 DEF Fails, Goto, TypeInv, Locals, RunnerInv, Active, HasContainer
  <2> QED BY <1>2, <2>1, <2>2, <2>3, RunnerStep
<1>5. CASE /\ box' = made + 1 /\ made' = made + 1 /\ up' = FALSE /\ boxToken' = loc[c].tok
           /\ \/ Fails(c, "init")
              \/ Goto(c, "recordID") /\ loc' = [loc EXCEPT ![c].id = made + 1]
  <2>1. Moves(c)
    BY <1>1, <1>5 DEF Fails, Goto, Moves, runVars, cfgVars, boxVars, bootVars, statusVars, TypeInv,
     Locals, Phases, Active, Stopping, Deleting
  <2>2. RunnerInv(pc[c], loc[c])'
    BY <1>1, <1>2, <1>3, <1>5 DEF Fails, Goto, TypeInv, Locals, RunnerInv, Active, HasContainer
  <2>3. RunningIsTracked'
    BY <1>5 DEF RunningIsTracked, Running
  <2>4. containerID' \in Nat /\ boxToken' \in Nat /\ up' \in BOOLEAN
    BY <1>1, <1>2, <1>3, <1>5 DEF TypeInv
  <2>5. box' \in Nat /\ made' \in Nat /\ box' <= made'
    BY <1>1, <1>5 DEF TypeInv
  <2> QED BY <1>2, <1>3, <2>1, <2>2, <2>3, <2>4, <2>5, OwnerStep
<1> QED BY <1>4, <1>5 DEF ContainerCreate, Answer

\* The id of the new container is written under the lock; only the owner
\* creates one.
LEMMA RecordIDKeeps ==
    ASSUME IInv, NEW c \in Runners, RecordID(c) PROVE IInv'
<1>1. /\ RunnerInv(pc[c], loc[c]) /\ TypeInv /\ c \in Clients /\ c \notin Preparers
      /\ loc[c] \in Locals
  BY RunnerFacts
<1>2. /\ pc[c] = "recordID" /\ pc[c] \in Active /\ loc[c].id \in Nat
      /\ pc' = [pc EXCEPT ![c] = "start"] /\ loc' = loc /\ containerID' = loc[c].id
  BY <1>1 DEF RecordID, Active, Locals, Goto, runVars, cfgVars, boxVars, bootVars, statusVars
<1>3. /\ UNCHANGED <<cur, nruns, ranClosed, token, inherited, overtaken>>
      /\ UNCHANGED <<box, made, up, boxToken>>
  BY DEF RecordID, runVars, cfgVars, boxVars, bootVars, statusVars
<1>4. Moves(c)
  BY <1>1, <1>2 DEF Moves, runVars, cfgVars, boxVars, bootVars, statusVars, TypeInv,
     Locals, Phases, Active, Stopping, Deleting
<1>5. RunnerInv(pc[c], loc[c])'
  BY <1>1, <1>2, <1>3 DEF TypeInv, RunnerInv, Active, HasContainer
<1>6. RunningIsTracked'
  BY <1>1, <1>2, <1>3 DEF RunningIsTracked, Running, RunnerInv, TypeInv
<1>7. /\ containerID' \in Nat /\ box' \in Nat /\ made' \in Nat /\ box' <= made'
      /\ up' \in BOOLEAN /\ boxToken' \in Nat
  BY <1>1, <1>2, <1>3 DEF TypeInv
<1> QED BY <1>2, <1>3, <1>4, <1>5, <1>6, <1>7, OwnerStep

\* The container that is started is the one whose id is recorded.
LEMMA ContainerStartKeeps ==
    ASSUME IInv, NEW c \in Runners, ContainerStart(c) PROVE IInv'
<1>1. /\ RunnerInv(pc[c], loc[c]) /\ TypeInv /\ c \in Clients /\ c \notin Preparers
      /\ loc[c] \in Locals
  BY RunnerFacts
<1>2. pc[c] = "startSent" /\ pc[c] \in Active
  BY <1>1 DEF ContainerStart, Active
<1>3. UNCHANGED <<cur, nruns, ranClosed, token, inherited, overtaken, containerID>>
  BY DEF ContainerStart, runVars, cfgVars, boxVars, bootVars, statusVars
<1>4. Moves(c)
  <2>1. Fails(c, "init") \/ (Goto(c, "logs") /\ UNCHANGED loc)
    BY DEF ContainerStart, Answer
  <2> QED BY <1>1, <2>1 DEF Fails, Goto, Moves, runVars, cfgVars, boxVars, bootVars, statusVars, TypeInv,
     Locals, Phases, Active, Stopping, Deleting
<1>5. CASE UNCHANGED boxVars
  <2>1. Quiet
    BY <1>1, <1>3, <1>5 DEF Quiet, TypeInv, boxVars
  <2>2. RunnerInv(pc[c], loc[c])'
    <3>1. Fails(c, "init") \/ (Goto(c, "logs") /\ UNCHANGED loc)
      BY DEF ContainerStart, Answer
    <3> QED BY <1>1, <1>2, <1>3, <1>5, <3>1
         DEF Fails, Goto, TypeInv, Locals, RunnerInv, Active, HasContainer, boxVars
  <2> QED BY <1>2, <1>4, <2>1, <2>2, RunnerStep
<1>6. CASE /\ box = loc[c].id /\ up' = TRUE /\ UNCHANGED <<box, made, boxToken>>
           /\ Fails(c, "init") \/ (Goto(c, "logs") /\ UNCHANGED loc)
  <2>1. RunnerInv(pc[c], loc[c])'
    BY <1>1, <1>2, <1>3, <1>6 DEF Fails, Goto, TypeInv, Locals, RunnerInv, Active, HasContainer
  <2>2. RunningIsTracked'
    BY <1>1, <1>2, <1>3, <1>6 DEF RunningIsTracked, Running, RunnerInv
  <2>3. /\ containerID' \in Nat /\ box' \in Nat /\ made' \in Nat /\ box' <= made'
        /\ up' \in BOOLEAN /\ boxToken' \in Nat
    BY <1>1, <1>2, <1>3, <1>6 DEF TypeInv
  <2> QED BY <1>2, <1>3, <1>4, <2>1, <2>2, <2>3, OwnerStep
<1> QED BY <1>5, <1>6 DEF ContainerStart, Answer

\* A run begins only when no other is in progress; from then on no Remove or
\* Destroy that looked before can rely on what it saw.
LEMMA BegunKeeps ==
    ASSUME IInv, NEW c \in Runners, beginRun(c), cur = 0 PROVE IInv'
<1>1. /\ RunnerInv(pc[c], loc[c]) /\ TypeInv /\ c \in Clients /\ c \notin Preparers
      /\ loc[c] \in Locals
  BY RunnerFacts
<1>2. /\ pc[c] = "begin" /\ nruns' = nruns + 1 /\ cur' = nruns + 1
      /\ pc' = [pc EXCEPT ![c] = "pulling"] /\ loc' = [loc EXCEPT ![c].run = nruns + 1]
  BY DEF beginRun, Goto
<1>3. UNCHANGED <<ranClosed, containerID, token, box, up, made, boxToken, inherited, overtaken>>
  BY DEF beginRun, runVars, cfgVars, boxVars, bootVars, statusVars
<1>4. Moves(c)
  BY <1>1, <1>2 DEF Moves, runVars, cfgVars, boxVars, bootVars, statusVars, TypeInv,
     Locals, Phases, Active, Stopping, Deleting
<1>5. TypeInv'
  <2>1. cur' \in Nat /\ nruns' \in Nat /\ cur' <= nruns'
    BY <1>1, <1>2 DEF TypeInv
  <2> QED BY <1>1, <1>3, <1>4, <2>1 DEF TypeInv, Moves
<1>6. \A d \in Runners : pc[d] \notin Active
  BY DEF IInv, CallersInv, RunnerInv
<1>7. OneOwner'
  BY <1>4, <1>6 DEF OneOwner, Moves, Clients
<1>8. ClosedInv'
  BY <1>1, <1>2, <1>3 DEF IInv, ClosedInv, TypeInv
<1>9. RunningIsTracked'
  BY <1>3 DEF IInv, RunningIsTracked, Running
<1>10. ASSUME NEW d \in Runners PROVE RunnerInv(pc[d], loc[d])'
  <2>1. CASE d = c
    BY <1>1, <1>2, <1>3, <2>1 DEF RunnerInv, TypeInv, Locals, Active, HasContainer
  <2>2. CASE d # c
    <3>1. /\ RunnerInv(pc[d], loc[d]) /\ pc'[d] = pc[d] /\ loc'[d] = loc[d]
          /\ loc[d] \in Locals /\ pc[d] \notin Active
      BY <1>1, <1>4, <1>6, <2>2 DEF IInv, CallersInv, Clients, Moves, TypeInv
    <3> QED BY <1>1, <1>2, <1>3, <3>1 DEF RunnerInv, TypeInv, Locals, Active, HasContainer
  <2> QED BY <2>1, <2>2
<1>11. ASSUME NEW d \in Removers PROVE RemoverInv(pc[d], loc[d])'
  <2>1. RemoverInv(pc[d], loc[d]) /\ pc'[d] = pc[d] /\ loc'[d] = loc[d] /\ loc[d] \in Locals
    BY <1>1, <1>4, Constants DEF IInv, CallersInv, Clients, Moves, TypeInv
  <2> QED BY <1>1, <1>2, <2>1 DEF RemoverInv, TypeInv, Locals
<1>12. ASSUME NEW d \in Destroyers PROVE DestroyerInv(pc[d], loc[d])'
  <2>1. DestroyerInv(pc[d], loc[d]) /\ pc'[d] = pc[d] /\ loc'[d] = loc[d] /\ loc[d] \in Locals
    BY <1>1, <1>4, Constants DEF IInv, CallersInv, Clients, Moves, TypeInv
  <2> QED BY <1>1, <1>2, <2>1 DEF DestroyerInv, TypeInv, Locals
<1> QED BY <1>5, <1>7, <1>8, <1>9, <1>10, <1>11, <1>12 DEF IInv, CallersInv

\* With its end a run gives up the handshake.
LEMMA endRunKeeps ==
    ASSUME IInv, NEW c \in Runners, endRun(c) PROVE IInv'
<1>1. /\ RunnerInv(pc[c], loc[c]) /\ TypeInv /\ c \in Clients /\ c \notin Preparers
      /\ loc[c] \in Locals
  BY RunnerFacts
<1>2. /\ pc[c] = "endRun" /\ cur' = 0
      /\ pc' = [pc EXCEPT ![c] = "settle"] /\ loc' = loc
  BY DEF endRun, Goto, runVars, cfgVars, boxVars, bootVars, statusVars
<1>3. /\ UNCHANGED <<nruns, ranClosed, containerID, token, box, up, made, boxToken>>
      /\ UNCHANGED <<inherited, overtaken>>
  BY DEF endRun, runVars, cfgVars, boxVars, bootVars, statusVars
<1>4. Moves(c)
  BY <1>1, <1>2 DEF Moves, runVars, cfgVars, boxVars, bootVars, statusVars, TypeInv,
     Locals, Phases, Active, Stopping, Deleting
<1>5. TypeInv'
  BY <1>1, <1>2, <1>3, <1>4 DEF TypeInv, Moves
<1>6. \A d \in Runners : d # c => pc[d] \notin Active
  BY <1>2 DEF IInv, OneOwner, Active
<1>7. OneOwner'
  BY <1>1, <1>2, <1>4, <1>6 DEF OneOwner, Moves, Clients, Active, TypeInv
<1>8. ClosedInv'
  BY <1>2, <1>3 DEF IInv, ClosedInv
<1>9. RunningIsTracked'
  BY <1>3 DEF IInv, RunningIsTracked, Running
<1>10. ASSUME NEW d \in Runners PROVE RunnerInv(pc[d], loc[d])'
  <2>1. CASE d = c
    BY <1>1, <1>2, <1>3, <2>1 DEF RunnerInv, TypeInv, Locals, Active, HasContainer
  <2>2. CASE d # c
    <3>1. /\ RunnerInv(pc[d], loc[d]) /\ pc'[d] = pc[d] /\ loc'[d] = loc[d]
          /\ loc[d] \in Locals /\ pc[d] \notin Active
      BY <1>1, <1>4, <1>6, <2>2 DEF IInv, CallersInv, Clients, Moves, TypeInv
    <3> QED BY <1>2, <1>3, <3>1 DEF RunnerInv, Active, HasContainer
  <2> QED BY <2>1, <2>2
<1>11. ASSUME NEW d \in Removers PROVE RemoverInv(pc[d], loc[d])'
  <2>1. RemoverInv(pc[d], loc[d]) /\ pc'[d] = pc[d] /\ loc'[d] = loc[d] /\ loc[d] \in Locals
    BY <1>1, <1>4, Constants DEF IInv, CallersInv, Clients, Moves, TypeInv
  <2> QED BY <1>1, <1>2, <1>3, <2>1 DEF RemoverInv, TypeInv, Locals, Running
<1>12. ASSUME NEW d \in Destroyers PROVE DestroyerInv(pc[d], loc[d])'
  <2>1. DestroyerInv(pc[d], loc[d]) /\ pc'[d] = pc[d] /\ loc'[d] = loc[d] /\ loc[d] \in Locals
    BY <1>1, <1>4, Constants DEF IInv, CallersInv, Clients, Moves, TypeInv
  <2> QED BY <1>1, <1>2, <1>3, <2>1 DEF DestroyerInv, TypeInv, Locals
<1> QED BY <1>5, <1>7, <1>8, <1>9, <1>10, <1>11, <1>12 DEF IInv, CallersInv

\* The channel that is closed is not that of the run in progress.
LEMMA CloseRanKeeps ==
    ASSUME IInv, NEW c \in Runners, CloseRan(c) PROVE IInv'
<1>1. /\ RunnerInv(pc[c], loc[c]) /\ TypeInv /\ c \in Clients /\ c \notin Preparers
      /\ loc[c] \in Locals
  BY RunnerFacts
<1>2. /\ pc[c] = "closeRan" /\ ranClosed' = ranClosed \cup {loc[c].run}
      /\ pc' = [pc EXCEPT ![c] = "idle"] /\ loc' = [loc EXCEPT ![c] = NoLoc]
  BY DEF CloseRan, Goto
<1>3. UNCHANGED <<cur, nruns, containerID, token, box, up, made, boxToken, inherited, overtaken>>
  BY DEF CloseRan, runVars, cfgVars, boxVars, bootVars, statusVars
<1>4. Moves(c)
  BY <1>1, <1>2 DEF Moves, runVars, cfgVars, boxVars, bootVars, statusVars, TypeInv,
     Locals, Phases, Active, Stopping, Deleting, NoLoc
<1>5. TypeInv'
  BY <1>1, <1>3, <1>4 DEF TypeInv, Moves
<1>7. OneOwner'
  BY <1>1, <1>2, <1>4 DEF IInv, OneOwner, Moves, Clients, Active, TypeInv
<1>8. ClosedInv'
  BY <1>1, <1>2, <1>3 DEF IInv, ClosedInv, RunnerInv, Locals
<1>9. RunningIsTracked'
  BY <1>3 DEF IInv, RunningIsTracked, Running
<1>10. ASSUME NEW d \in Runners PROVE RunnerInv(pc[d], loc[d])'
  <2>1. CASE d = c
    BY <1>1, <1>2, <2>1 DEF RunnerInv, TypeInv, Active, HasContainer
  <2>2. CASE d # c
    <3>1. RunnerInv(pc[d], loc[d]) /\ pc'[d] = pc[d] /\ loc'[d] = loc[d]
      BY <1>1, <1>4, <2>2 DEF IInv, CallersInv, Clients, Moves, TypeInv
    <3> QED BY <1>3, <3>1 DEF RunnerInv
  <2> QED BY <2>1, <2>2
<1>11. ASSUME NEW d \in Removers PROVE RemoverInv(pc[d], loc[d])'
  <2>1. RemoverInv(pc[d], loc[d]) /\ pc'[d] = pc[d] /\ loc'[d] = loc[d] /\ loc[d] \in Locals
    BY <1>1, <1>4, Constants DEF IInv, CallersInv, Clients, Moves, TypeInv
  <2> QED BY <1>1, <1>3, <2>1 DEF RemoverInv, TypeInv, Locals, Running
<1>12. ASSUME NEW d \in Destroyers PROVE DestroyerInv(pc[d], loc[d])'
  <2>1. DestroyerInv(pc[d], loc[d]) /\ pc'[d] = pc[d] /\ loc'[d] = loc[d] /\ loc[d] \in Locals
    BY <1>1, <1>4, Constants DEF IInv, CallersInv, Clients, Moves, TypeInv
  <2> QED BY <1>1, <1>3, <2>1 DEF DestroyerInv, TypeInv, Locals
<1> QED BY <1>5, <1>7, <1>8, <1>9, <1>10, <1>11, <1>12 DEF IInv, CallersInv

-----------------------------------------------------------------------------
(* Prepare called directly, and Stop called directly: nothing is known of the *)
(* callers, so the step only has to be quiet.                                 *)

\* A quiet step of a Prepare or a Stop keeps the invariant: neither owns
\* anything.
LEMMA OtherStep ==
    ASSUME IInv, NEW c \in Preparers \cup Stoppers, Moves(c), Quiet PROVE IInv'
<1>1. c \in Clients /\ c \notin Runners /\ c \notin Removers /\ c \notin Destroyers
  BY Constants DEF Clients
<1> QED BY <1>1, QuietStep

\* A direct Prepare touches no container.
LEMMA PrepareKeepsOthers ==
    ASSUME IInv, NEW c \in Preparers, PrepareCall(c) \/ PrepareStep(c) PROVE IInv'
<1>1. TypeInv /\ c \in Clients /\ loc[c] \in Locals
  BY DEF IInv, TypeInv, Clients
<1>2. CASE PrepareCall(c)
  BY <1>1, <1>2, OtherStep DEF PrepareCall, Goto, Quiet, Local, Moves, runVars, cfgVars, boxVars, bootVars,
                               statusVars, TypeInv,
     Locals, Phases, Active, Stopping, Deleting
<1>3. CASE Prepare(c)
  BY <1>1, <1>3, OtherStep DEF Prepare, Prepared, Goto, Quiet, Local, Moves, runVars, cfgVars, boxVars,
                               bootVars, statusVars, TypeInv,
     Locals, Phases, Active, Stopping, Deleting
<1>4. CASE MaterializeContent(c)
  <2>1. Quiet
    BY <1>1, <1>4 DEF MaterializeContent, Quiet, Local, runVars, cfgVars, boxVars, bootVars, statusVars, TypeInv
  <2>2. Moves(c)
    BY <1>1, <1>4 DEF MaterializeContent, Fails, materializeFailureReason, Goto, Moves, runVars, cfgVars,
                      boxVars, bootVars, statusVars, TypeInv,
     Locals, Phases, Active, Stopping, Deleting
  <2> QED BY <2>1, <2>2, OtherStep
<1>5. CASE Publish(c)
  BY <1>1, <1>5, OtherStep DEF Publish, Prepared, Goto, Quiet, Moves, runVars, cfgVars, boxVars, bootVars,
                               statusVars, TypeInv,
     Locals, Phases, Active, Stopping, Deleting
<1>6. CASE failUnless(c)
  <2>1. Quiet
    BY <1>1, <1>6 DEF failUnless, Quiet, Local, runVars, cfgVars, boxVars, bootVars, statusVars, TypeInv
  <2>2. Moves(c)
    BY <1>1, <1>6 DEF failUnless, FailedCall, Goto, Moves, runVars, cfgVars, boxVars, bootVars, statusVars,
                      TypeInv,
     Locals, Phases, Active, Stopping, Deleting
  <2> QED BY <2>1, <2>2, OtherStep
<1>7. CASE RecordFailure(c)
  <2>1. Quiet
    BY <1>1, <1>7 DEF RecordFailure, Quiet, runVars, cfgVars, boxVars, bootVars, statusVars, TypeInv
  <2>2. Moves(c)
    BY <1>1, <1>7 DEF RecordFailure, FailedCall, Goto, Moves, runVars, cfgVars, boxVars, bootVars,
                      statusVars, TypeInv,
     Locals, Phases, Active, Stopping, Deleting
  <2> QED BY <2>1, <2>2, OtherStep
<1> QED BY <1>2, <1>3, <1>4, <1>5, <1>6, <1>7 DEF PrepareStep

\* What a Stop or a Destroy has in hand after its look.
LEMMA LookEffect ==
    ASSUME TypeInv, NEW c \in Clients, NEW i \in Nat,
           NEW r \in {"none", "nil", "error", "removed"}, Look(c, i, r)
    PROVE  /\ loc' \in [Clients -> Locals]
           /\ \A d \in Clients : d # c => loc'[d] = loc[d]
           /\ loc'[c].run = cur /\ loc'[c].id = i /\ loc'[c].since = nruns /\ loc'[c].ret = r
BY DEF TypeInv, Locals, Look

\* The caller's id of the container is the one it sees or none.
LEMMA StopLooks ==
    ASSUME TypeInv, NEW c \in Clients, Stop(c)
    PROVE  /\ Moves(c) /\ Quiet
           /\ loc'[c].run = cur /\ loc'[c].since = nruns /\ loc'[c].ret \in {"nil", "none"}
           /\ IF cur = 0 /\ containerID = 0 THEN pc'[c] = AfterStop(c)
              ELSE pc'[c] \in {"cancel", "stopBox"}
<1>1. CASE cur = 0 /\ containerID = 0
  <2>1. Look(c, 0, "nil") /\ Goto(c, AfterStop(c))
    BY <1>1 DEF Stop
  <2>2. /\ loc' \in [Clients -> Locals]
        /\ \A d \in Clients : d # c => loc'[d] = loc[d]
        /\ loc'[c].run = cur /\ loc'[c].since = nruns /\ loc'[c].ret = "nil"
    BY <2>1, LookEffect
  <2>3. AfterStop(c) \in Phases
    BY DEF AfterStop, Phases, Deleting
  <2>4. Moves(c)
    BY <2>1, <2>2, <2>3 DEF Goto, Moves, TypeInv
  <2>5. Quiet
    BY DEF Stop, Quiet, Local, runVars, cfgVars, boxVars, bootVars, statusVars, TypeInv
  <2>6. pc'[c] = AfterStop(c)
    BY <2>1 DEF Goto, TypeInv
  <2> QED BY <1>1, <2>2, <2>4, <2>5, <2>6
<1>2. CASE ~(cur = 0 /\ containerID = 0)
  <2>1. Look(c, containerID, "none") /\ Goto(c, IF cur # 0 THEN "cancel" ELSE "stopBox")
    BY <1>2 DEF Stop
  <2>2. /\ loc' \in [Clients -> Locals]
        /\ \A d \in Clients : d # c => loc'[d] = loc[d]
        /\ loc'[c].run = cur /\ loc'[c].since = nruns /\ loc'[c].ret = "none"
    BY <2>1, LookEffect DEF TypeInv
  <2>3. (IF cur # 0 THEN "cancel" ELSE "stopBox") \in Phases
    BY DEF Phases, Stopping
  <2>4. Moves(c)
    BY <2>1, <2>2, <2>3 DEF Goto, Moves, TypeInv
  <2>5. Quiet
    BY DEF Stop, Quiet, Local, runVars, cfgVars, boxVars, bootVars, statusVars, TypeInv
  <2>6. pc'[c] \in {"cancel", "stopBox"}
    BY <2>1 DEF Goto, TypeInv
  <2> QED BY <1>2, <2>2, <2>4, <2>5, <2>6
<1> QED BY <1>1, <1>2

\* A Stop cancels the run and may stop its container; it removes no id.
LEMMA StopKeepsOthers ==
    ASSUME IInv, NEW c \in Stoppers, Stop(c) \/ StopStep(c) \/ StopCtx(c) PROVE IInv'
<1>1. TypeInv /\ c \in Clients /\ loc[c] \in Locals
  BY DEF IInv, TypeInv, Clients
<1>2. CASE Stop(c)
  BY <1>1, <1>2, StopLooks, OtherStep
<1>3. CASE StopCancel(c)
  BY <1>1, <1>3, OtherStep DEF StopCancel, Goto, Quiet, Moves, runVars, cfgVars, boxVars, bootVars,
                               statusVars, TypeInv,
     Locals, Phases, Active, Stopping, Deleting
<1>4. CASE StopBox(c)
  <2>1. Quiet
    BY <1>1, <1>4, StopContainerShrinks, ShrinkIsQuiet DEF StopBox
  <2>2. Moves(c)
    BY <1>1, <1>4 DEF StopBox, AfterStop, Goto, Moves, runVars, cfgVars, boxVars, bootVars, statusVars, TypeInv,
     Locals, Phases, Active, Stopping, Deleting
  <2> QED BY <2>1, <2>2, OtherStep
<1>5. CASE StopRan(c)
  <2>1. Quiet
    BY <1>1, <1>5 DEF StopRan, Quiet, Local, runVars, cfgVars, boxVars, bootVars, statusVars, TypeInv
  <2>2. Moves(c)
    BY <1>1, <1>5 DEF StopRan, AfterStop, Goto, Moves, runVars, cfgVars, boxVars, bootVars, statusVars, TypeInv,
     Locals, Phases, Active, Stopping, Deleting
  <2> QED BY <2>1, <2>2, OtherStep
<1>6. CASE StopCtx(c)
  <2>1. Quiet
    BY <1>1, <1>6 DEF StopCtx, Quiet, Local, runVars, cfgVars, boxVars, bootVars, statusVars, TypeInv
  <2>2. Moves(c)
    BY <1>1, <1>6 DEF StopCtx, Ends, Goto, Moves, runVars, cfgVars, boxVars, bootVars, statusVars, TypeInv,
     Locals, Phases, Active, Stopping, Deleting
  <2> QED BY <2>1, <2>2, OtherStep
<1> QED BY <1>2, <1>3, <1>4, <1>5, <1>6 DEF StopStep

-----------------------------------------------------------------------------
(* Remove.                                                                    *)

\* What the invariant gives about a Remove.
LEMMA RemoverFacts ==
    ASSUME IInv, NEW c \in Removers
    PROVE  /\ RemoverInv(pc[c], loc[c]) /\ TypeInv /\ ClosedInv /\ RunningIsTracked
           /\ c \in Clients /\ loc[c] \in Locals
BY DEF IInv, CallersInv, TypeInv, Clients

\* A quiet step of a Remove that knows enough where it arrives.
LEMMA RemoverStep ==
    ASSUME IInv, NEW c \in Removers, Moves(c), Quiet, RemoverInv(pc[c], loc[c])' PROVE IInv'
<1>1. c \in Clients /\ c \notin Runners /\ c \notin Destroyers
  BY Constants DEF Clients
<1> QED BY <1>1, QuietStep

\* Remove's Stop takes its snapshot of the handshake.
LEMMA RemoverStopKeeps ==
    ASSUME IInv, NEW c \in Removers, Stop(c) PROVE IInv'
<1>1. /\ RemoverInv(pc[c], loc[c]) /\ TypeInv /\ ClosedInv /\ RunningIsTracked
      /\ c \in Clients /\ loc[c] \in Locals
  BY RemoverFacts
<1>2. Moves(c)
  BY <1>1, StopLooks
<1>3. Quiet
  BY <1>1, StopLooks
<1>4. RemoverInv(pc[c], loc[c])'
  <2>1. /\ loc'[c].run = cur /\ loc'[c].since = nruns /\ loc'[c].ret # "removed"
        /\ IF cur = 0 /\ containerID = 0 THEN pc'[c] = "removing"
           ELSE pc'[c] \in {"cancel", "stopBox"}
    BY <1>1, StopLooks DEF AfterStop
  <2> QED BY <1>1, <1>3, <2>1 DEF Quiet, RemoverInv, Running, TypeInv, Locals, Stopping, Deleting, ContainerGone
<1> QED BY <1>2, <1>3, <1>4, RemoverStep

\* Remove's Stop cancels the run of its snapshot.
LEMMA RemoverCancelKeeps ==
    ASSUME IInv, NEW c \in Removers, StopCancel(c) PROVE IInv'
<1>1. /\ RemoverInv(pc[c], loc[c]) /\ TypeInv /\ ClosedInv /\ RunningIsTracked
      /\ c \in Clients /\ loc[c] \in Locals
  BY RemoverFacts
<1>2. Moves(c)
  BY <1>1 DEF StopCancel, Goto, Moves, runVars, cfgVars, boxVars, bootVars, statusVars, TypeInv,
     Locals, Phases, Active, Stopping, Deleting
<1>3. Quiet
  BY <1>1 DEF StopCancel, Quiet, Local, runVars, cfgVars, boxVars, bootVars, statusVars, TypeInv
<1>4. RemoverInv(pc[c], loc[c])'
  BY <1>1, <1>3 DEF StopCancel, Goto, Local, runVars, cfgVars, boxVars, bootVars, statusVars, Quiet,
     RemoverInv, Running, TypeInv, Locals, Stopping, Deleting, ContainerGone
<1> QED BY <1>2, <1>3, <1>4, RemoverStep

\* Remove's Stop stops the container it found without a run.
LEMMA RemoverStopBoxKeeps ==
    ASSUME IInv, NEW c \in Removers, StopBox(c) PROVE IInv'
<1>1. /\ RemoverInv(pc[c], loc[c]) /\ TypeInv /\ ClosedInv /\ RunningIsTracked
      /\ c \in Clients /\ loc[c] \in Locals
  BY RemoverFacts
<1>2. Moves(c)
  BY <1>1 DEF StopBox, AfterStop, Goto, Moves, runVars, cfgVars, boxVars, bootVars, statusVars, TypeInv,
     Locals, Phases, Active, Stopping, Deleting
<1>3. Quiet
  BY <1>1, StopContainerShrinks, ShrinkIsQuiet DEF StopBox
<1>4. RemoverInv(pc[c], loc[c])'
  BY <1>1, <1>3 DEF StopBox, AfterStop, Goto, Local, runVars, cfgVars, boxVars, bootVars, statusVars, Quiet,
     RemoverInv, Running, TypeInv, Locals, Stopping, Deleting, ContainerGone
<1> QED BY <1>2, <1>3, <1>4, RemoverStep

\* The run that Stop waited for has given up the handshake.
LEMMA RemoverRanKeeps ==
    ASSUME IInv, NEW c \in Removers, StopRan(c) PROVE IInv'
<1>1. /\ RemoverInv(pc[c], loc[c]) /\ TypeInv /\ ClosedInv /\ RunningIsTracked
      /\ c \in Clients /\ loc[c] \in Locals
  BY RemoverFacts
<1>2. Moves(c)
  BY <1>1 DEF StopRan, AfterStop, ClosedInv, Goto, Moves, runVars, cfgVars, boxVars, bootVars, statusVars, TypeInv,
     Locals, Phases, Active, Stopping, Deleting
<1>3. Quiet
  BY <1>1 DEF StopRan, AfterStop, ClosedInv, Quiet, Local, runVars, cfgVars, boxVars, bootVars, statusVars, TypeInv
<1>4. RemoverInv(pc[c], loc[c])'
  BY <1>1, <1>3 DEF StopRan, AfterStop, ClosedInv, Goto, Local, runVars, cfgVars, boxVars, bootVars,
                    statusVars, Quiet,
     RemoverInv, Running, TypeInv, Locals, Stopping, Deleting, ContainerGone
<1> QED BY <1>2, <1>3, <1>4, RemoverStep

\* The caller's context ends the wait: Remove returns an error and claims
\* nothing.
LEMMA RemoverCtxKeeps ==
    ASSUME IInv, NEW c \in Removers, StopCtx(c) PROVE IInv'
<1>1. /\ RemoverInv(pc[c], loc[c]) /\ TypeInv /\ ClosedInv /\ RunningIsTracked
      /\ c \in Clients /\ loc[c] \in Locals
  BY RemoverFacts
<1>2. Moves(c)
  BY <1>1 DEF StopCtx, Ends, Goto, Moves, runVars, cfgVars, boxVars, bootVars, statusVars, TypeInv,
     Locals, Phases, Active, Stopping, Deleting
<1>3. Quiet
  BY <1>1 DEF StopCtx, Ends, Quiet, Local, runVars, cfgVars, boxVars, bootVars, statusVars, TypeInv
<1>4. RemoverInv(pc[c], loc[c])'
  BY <1>1, <1>3 DEF StopCtx, Ends, Goto, Local, runVars, cfgVars, boxVars, bootVars, statusVars, Quiet,
     RemoverInv, Running, TypeInv, Locals, Stopping, Deleting, ContainerGone
<1> QED BY <1>2, <1>3, <1>4, RemoverStep

\* The status removing; the run of the snapshot is over.
LEMMA SetRemovingKeeps ==
    ASSUME IInv, NEW c \in Removers, SetRemoving(c) PROVE IInv'
<1>1. /\ RemoverInv(pc[c], loc[c]) /\ TypeInv /\ ClosedInv /\ RunningIsTracked
      /\ c \in Clients /\ loc[c] \in Locals
  BY RemoverFacts
<1>2. Moves(c)
  BY <1>1 DEF SetRemoving, Goto, Moves, runVars, cfgVars, boxVars, bootVars, statusVars, TypeInv,
     Locals, Phases, Active, Stopping, Deleting
<1>3. Quiet
  BY <1>1 DEF SetRemoving, Quiet, Local, runVars, cfgVars, boxVars, bootVars, statusVars, TypeInv
<1>4. RemoverInv(pc[c], loc[c])'
  BY <1>1, <1>3 DEF SetRemoving, Goto, Local, runVars, cfgVars, boxVars, bootVars, statusVars, Quiet,
     RemoverInv, Running, TypeInv, Locals, Stopping, Deleting, ContainerGone
<1> QED BY <1>2, <1>3, <1>4, RemoverStep

\* Remove reads containerID again after its Stop.
LEMMA ReadIDKeeps ==
    ASSUME IInv, NEW c \in Removers, ReadID(c) PROVE IInv'
<1>1. /\ RemoverInv(pc[c], loc[c]) /\ TypeInv /\ ClosedInv /\ RunningIsTracked
      /\ c \in Clients /\ loc[c] \in Locals
  BY RemoverFacts
<1>2. Moves(c)
  BY <1>1 DEF ReadID, RunningIsTracked, Goto, Moves, runVars, cfgVars, boxVars, bootVars, statusVars, TypeInv,
     Locals, Phases, Active, Stopping, Deleting
<1>3. Quiet
  BY <1>1 DEF ReadID, RunningIsTracked, Quiet, Local, runVars, cfgVars, boxVars, bootVars, statusVars, TypeInv
<1>4. RemoverInv(pc[c], loc[c])'
  BY <1>1, <1>3 DEF ReadID, RunningIsTracked, Goto, Local, runVars, cfgVars, boxVars, bootVars, statusVars, Quiet,
     RemoverInv, Running, TypeInv, Locals, Stopping, Deleting, ContainerGone
<1> QED BY <1>2, <1>3, <1>4, RemoverStep

\* The container removed is the one that is running, if one is.
LEMMA RemoverBoxKeeps ==
    ASSUME IInv, NEW c \in Removers, RemoveBox(c) PROVE IInv'
<1>1. /\ RemoverInv(pc[c], loc[c]) /\ TypeInv /\ ClosedInv /\ RunningIsTracked
      /\ c \in Clients /\ loc[c] \in Locals
  BY RemoverFacts
<1>2. Moves(c)
  BY <1>1 DEF RemoveBox, Ends, Goto, Moves, runVars, cfgVars, boxVars, bootVars, statusVars, TypeInv,
     Locals, Phases, Active, Stopping, Deleting
<1>3. Quiet
  <2>1. ContainerRemove(loc[c].id) \/ UNCHANGED boxVars
    BY DEF RemoveBox
  <2> QED BY <1>1, <2>1, ContainerRemoveShrinks, NothingShrinks, ShrinkIsQuiet DEF RemoveBox
<1>4. RemoverInv(pc[c], loc[c])'
  <2>1. pc[c] = "removeBox" /\ loc[c].ret # "removed"
    BY <1>1 DEF RemoveBox, RemoverInv
  <2>2. CASE Ends(c, "error")
    BY <1>1, <1>3, <2>1, <2>2 DEF Ends, Goto, Quiet, RemoverInv, Running, TypeInv, Locals, Stopping,
                                  Deleting, ContainerGone
  <2>3. CASE ContainerRemove(loc[c].id) /\ Goto(c, "clearID") /\ UNCHANGED loc
    <3>1. loc[c].since = nruns /\ ~overtaken => ~Running'
      <4>1. ASSUME loc[c].since = nruns, ~overtaken, Running' PROVE FALSE
        <5>1. Running /\ box' = box /\ inherited' = inherited
          BY <1>3, <4>1 DEF Running, Quiet
        <5>2. box = containerID /\ containerID \in {0, loc[c].id} /\ box # 0
          BY <1>1, <2>1, <4>1, <5>1 DEF RunningIsTracked, RemoverInv, Running, TypeInv
        <5>3. box' = 0
          BY <2>3, <5>2 DEF ContainerRemove
        <5> QED BY <5>1, <5>2, <5>3
      <4> QED BY <4>1
    <3>2. pc'[c] = "clearID" /\ loc' = loc
      BY <1>1, <2>3 DEF Goto, TypeInv
    <3> QED BY <1>1, <1>3, <2>1, <3>1, <3>2 DEF Quiet, RemoverInv, Stopping, Deleting, ContainerGone
  <2> QED BY <2>2, <2>3 DEF RemoveBox
<1> QED BY <1>2, <1>3, <1>4, RemoverStep

\* Remove deletes the tree, after the container.
LEMMA RemoverAllKeeps ==
    ASSUME IInv, NEW c \in Removers, RemoveAll(c) PROVE IInv'
<1>1. /\ RemoverInv(pc[c], loc[c]) /\ TypeInv /\ ClosedInv /\ RunningIsTracked
      /\ c \in Clients /\ loc[c] \in Locals
  BY RemoverFacts
<1>2. Moves(c)
  BY <1>1 DEF RemoveAll, Ends, Goto, Moves, runVars, cfgVars, boxVars, bootVars, statusVars, TypeInv,
     Locals, Phases, Active, Stopping, Deleting
<1>3. Quiet
  BY <1>1 DEF RemoveAll, Ends, Quiet, Local, runVars, cfgVars, boxVars, bootVars, statusVars, TypeInv
<1>4. RemoverInv(pc[c], loc[c])'
  BY <1>1, <1>3 DEF RemoveAll, Ends, Goto, Local, runVars, cfgVars, boxVars, bootVars, statusVars, Quiet,
     RemoverInv, Running, TypeInv, Locals, Stopping, Deleting, ContainerGone
<1> QED BY <1>2, <1>3, <1>4, RemoverStep

\* Remove returns nil: what it claims then, it has known since the container
\* went.
LEMMA SetRemovedKeeps ==
    ASSUME IInv, NEW c \in Removers, SetRemoved(c) PROVE IInv'
<1>1. /\ RemoverInv(pc[c], loc[c]) /\ TypeInv /\ ClosedInv /\ RunningIsTracked
      /\ c \in Clients /\ loc[c] \in Locals
  BY RemoverFacts
<1>2. Moves(c)
  BY <1>1 DEF SetRemoved, Ends, Goto, Moves, runVars, cfgVars, boxVars, bootVars, statusVars, TypeInv,
     Locals, Phases, Active, Stopping, Deleting
<1>3. Quiet
  BY <1>1 DEF SetRemoved, Ends, Quiet, Local, runVars, cfgVars, boxVars, bootVars, statusVars, TypeInv
<1>4. RemoverInv(pc[c], loc[c])'
  BY <1>1, <1>3 DEF SetRemoved, Ends, Goto, Local, runVars, cfgVars, boxVars, bootVars, statusVars, Quiet,
     RemoverInv, Running, TypeInv, Locals, Stopping, Deleting, ContainerGone
<1> QED BY <1>2, <1>3, <1>4, RemoverStep
\* The id that Remove clears is that of no running container, unless a run has
\* begun since its Stop; then the step is recorded in overtaken.
LEMMA ClearIDKeeps ==
    ASSUME IInv, NEW c \in Removers, ClearID(c) PROVE IInv'
<1>1. /\ RemoverInv(pc[c], loc[c]) /\ TypeInv /\ ClosedInv /\ RunningIsTracked
      /\ c \in Clients /\ loc[c] \in Locals
  BY RemoverFacts
<1>2. /\ pc[c] = "clearID" /\ containerID' = 0 /\ pc' = [pc EXCEPT ![c] = "removeAll"]
      /\ loc' = loc /\ overtaken' = (overtaken \/ loc[c].since # nruns)
  BY DEF ClearID, Goto, runVars, cfgVars, boxVars, bootVars, statusVars
<1>3. UNCHANGED <<cur, nruns, ranClosed, token, box, up, made, boxToken, inherited>>
  BY DEF ClearID, runVars, cfgVars, boxVars, bootVars, statusVars
<1>4. Moves(c)
  BY <1>1, <1>2 DEF Moves, runVars, cfgVars, boxVars, bootVars, statusVars, TypeInv,
     Locals, Phases, Active, Stopping, Deleting
<1>5. overtaken' \in BOOLEAN /\ (~overtaken' => ~overtaken /\ loc[c].since = nruns)
  BY <1>1, <1>2 DEF TypeInv
<1>6. ~overtaken' => cur = 0 /\ ~Running
  BY <1>1, <1>2, <1>5 DEF RemoverInv, Deleting, ContainerGone
<1>7. TypeInv'
  BY <1>1, <1>2, <1>3, <1>4, <1>5 DEF TypeInv, Moves
<1>8. ClosedInv' /\ RunningIsTracked'
  BY <1>1, <1>3, <1>6 DEF ClosedInv, RunningIsTracked, Running
<1>9. \A d \in Runners : pc'[d] = pc[d] /\ loc'[d] = loc[d]
  BY <1>4, Constants DEF Moves, Clients
<1>10. OneOwner'
  BY <1>9 DEF IInv, OneOwner
<1>11. ASSUME NEW d \in Runners PROVE RunnerInv(pc[d], loc[d])'
  <2>1. RunnerInv(pc[d], loc[d]) /\ pc'[d] = pc[d] /\ loc'[d] = loc[d]
    BY <1>9 DEF IInv, CallersInv
  <2> QED BY <1>3, <1>6, <2>1 DEF RunnerInv, Active
<1>12. ASSUME NEW d \in Removers PROVE RemoverInv(pc[d], loc[d])'
  <2>1. RemoverInv(pc[d], loc[d]) /\ loc'[d] = loc[d]
    BY <1>2 DEF IInv, CallersInv
  <2>2. CASE d = c
    <3>1. pc'[d] = "removeAll"
      BY <1>1, <1>2, <2>2 DEF TypeInv
    <3> QED BY <1>1, <1>2, <1>3, <1>6, <2>1, <2>2, <3>1
         DEF RemoverInv, Running, Stopping, Deleting, ContainerGone
  <2>3. CASE d # c
    <3>1. pc'[d] = pc[d]
      BY <1>4, <2>3 DEF Moves, Clients
    <3> QED BY <1>2, <1>3, <1>5, <1>6, <2>1, <3>1 DEF RemoverInv, Running
  <2> QED BY <2>2, <2>3
<1>13. ASSUME NEW d \in Destroyers PROVE DestroyerInv(pc[d], loc[d])'
  <2>1. DestroyerInv(pc[d], loc[d]) /\ pc'[d] = pc[d] /\ loc'[d] = loc[d]
    BY <1>4, Constants DEF IInv, CallersInv, Moves, Clients
  <2> QED BY <1>3, <2>1 DEF DestroyerInv
<1> QED BY <1>7, <1>8, <1>10, <1>11, <1>12, <1>13 DEF IInv, CallersInv

-----------------------------------------------------------------------------
(* Provider.Destroy.                                                          *)

\* What the invariant gives about a Destroy.
LEMMA DestroyerFacts ==
    ASSUME IInv, NEW c \in Destroyers
    PROVE  /\ DestroyerInv(pc[c], loc[c]) /\ TypeInv
           /\ c \in Clients /\ loc[c] \in Locals /\ c \notin Removers
BY Constants DEF IInv, CallersInv, TypeInv, Clients

\* A quiet step of a Destroy that knows enough where it arrives.
LEMMA DestroyerStep ==
    ASSUME IInv, NEW c \in Destroyers, Moves(c), Quiet, DestroyerInv(pc[c], loc[c])' PROVE IInv'
<1>1. c \in Clients /\ c \notin Runners /\ c \notin Removers
  BY Constants DEF Clients
<1> QED BY <1>1, QuietStep

\* Destroy lists the containers by label: it has the id of the one there is.
LEMMA DestroyKeeps ==
    ASSUME IInv, NEW c \in Destroyers, Destroy(c) PROVE IInv'
<1>1. /\ DestroyerInv(pc[c], loc[c]) /\ TypeInv
      /\ c \in Clients /\ loc[c] \in Locals /\ c \notin Removers
  BY DestroyerFacts
<1>2. /\ loc' \in [Clients -> Locals]
      /\ \A d \in Clients : d # c => loc'[d] = loc[d]
      /\ loc'[c].run = cur /\ loc'[c].id = box /\ loc'[c].since = nruns /\ loc'[c].ret = "none"
  BY <1>1, LookEffect DEF Destroy, TypeInv
<1>3. pc' = [pc EXCEPT ![c] = IF box = 0 THEN "removeAll" ELSE "removeBox"]
  BY DEF Destroy, Goto
<1>4. Moves(c)
  BY <1>1, <1>2, <1>3 DEF Moves, TypeInv, Phases, Deleting
<1>5. Quiet
  BY <1>1 DEF Destroy, Quiet, Local, runVars, cfgVars, boxVars, bootVars, statusVars, TypeInv
<1>6. UNCHANGED <<cur, nruns, box>>
  BY DEF Destroy, Local, runVars, cfgVars, boxVars, bootVars, statusVars
<1>7. DestroyerInv(pc[c], loc[c])'
  BY <1>1, <1>2, <1>3, <1>6 DEF DestroyerInv, TypeInv
<1> QED BY <1>4, <1>5, <1>7, DestroyerStep

\* Destroy removes what it listed; without a run nothing was created since.
LEMMA DestroyerBoxKeeps ==
    ASSUME IInv, NEW c \in Destroyers, RemoveBox(c) PROVE IInv'
<1>1. /\ DestroyerInv(pc[c], loc[c]) /\ TypeInv
      /\ c \in Clients /\ loc[c] \in Locals /\ c \notin Removers
  BY DestroyerFacts
<1>2. Moves(c)
  BY <1>1 DEF RemoveBox, Ends, Goto, Moves, runVars, cfgVars, boxVars, bootVars, statusVars, TypeInv,
     Locals, Phases, Active, Stopping, Deleting
<1>3. Quiet
  <2>1. ContainerRemove(loc[c].id) \/ UNCHANGED boxVars
    BY DEF RemoveBox
  <2> QED BY <1>1, <2>1, ContainerRemoveShrinks, NothingShrinks, ShrinkIsQuiet DEF RemoveBox
<1>4. DestroyerInv(pc[c], loc[c])'
  <2>1. CASE Ends(c, "error")
    BY <1>1, <1>3, <2>1 DEF Ends, Goto, Quiet, DestroyerInv, TypeInv, Locals
  <2>2. CASE ContainerRemove(loc[c].id) /\ Goto(c, "removeAll") /\ UNCHANGED loc
    <3>1. pc'[c] = "removeAll" /\ loc' = loc /\ pc[c] = "removeBox"
      BY <1>1, <2>2 DEF RemoveBox, Goto, TypeInv
    <3>2. box \in {0, loc[c].id} => box' = 0
      BY <1>1, <2>2 DEF ContainerRemove
    <3> QED BY <1>1, <1>3, <3>1, <3>2 DEF Quiet, DestroyerInv
  <2> QED BY <1>1, <2>1, <2>2 DEF RemoveBox
<1> QED BY <1>2, <1>3, <1>4, DestroyerStep

\* Destroy deletes the directory after the containers.
LEMMA DestroyerAllKeeps ==
    ASSUME IInv, NEW c \in Destroyers, RemoveAll(c) PROVE IInv'
<1>1. /\ DestroyerInv(pc[c], loc[c]) /\ TypeInv
      /\ c \in Clients /\ loc[c] \in Locals /\ c \notin Removers
  BY DestroyerFacts
<1>2. Moves(c)
  BY <1>1 DEF RemoveAll, Ends, Goto, Moves, runVars, cfgVars, boxVars, bootVars, statusVars, TypeInv,
     Locals, Phases, Active, Stopping, Deleting
<1>3. Quiet
  BY <1>1 DEF RemoveAll, Quiet, Local, runVars, cfgVars, boxVars, bootVars, statusVars, TypeInv
<1>4. DestroyerInv(pc[c], loc[c])'
  BY <1>1, <1>3 DEF RemoveAll, Ends, Goto, Local, runVars, cfgVars, boxVars, bootVars, statusVars,
                    DestroyerInv, TypeInv, Locals
<1> QED BY <1>2, <1>3, <1>4, DestroyerStep

-----------------------------------------------------------------------------
(* The environment, and the death of the process.                             *)

\* A quiet step in which no caller moves.
LEMMA QuietEnvironment ==
    ASSUME IInv, Quiet, UNCHANGED <<pc, loc>> PROVE IInv'
<1>1. TypeInv' /\ ClosedInv' /\ RunningIsTracked'
  BY QuietShared DEF IInv, TypeInv
<1>2. OneOwner'
  BY DEF IInv, OneOwner
<1>3. ASSUME NEW d \in Runners PROVE RunnerInv(pc[d], loc[d])'
  <2>1. RunnerInv(pc[d], loc[d]) /\ loc[d] \in Locals /\ TypeInv
    BY DEF IInv, CallersInv, TypeInv, Clients
  <2> QED BY <2>1 DEF TypeInv, Quiet, RunnerInv, Locals
<1>4. ASSUME NEW d \in Removers PROVE RemoverInv(pc[d], loc[d])'
  <2>1. RemoverInv(pc[d], loc[d]) /\ loc[d] \in Locals /\ TypeInv
    BY DEF IInv, CallersInv, TypeInv, Clients
  <2> QED BY <2>1 DEF TypeInv, Quiet, RemoverInv, Running, Locals
<1>5. ASSUME NEW d \in Destroyers PROVE DestroyerInv(pc[d], loc[d])'
  <2>1. DestroyerInv(pc[d], loc[d]) /\ loc[d] \in Locals /\ TypeInv
    BY DEF IInv, CallersInv, TypeInv, Clients
  <2> QED BY <2>1 DEF TypeInv, Quiet, DestroyerInv, Locals
<1> QED BY <1>1, <1>2, <1>3, <1>4, <1>5 DEF IInv, CallersInv

\* A token rotation, an exit of the container and a caller's cancellation
\* are quiet.
LEMMA EnvironmentKeeps ==
    ASSUME IInv, SetAgentToken \/ ContainerExit \/ (\E c \in Runners : CallerCancels(c))
    PROVE  IInv'
<1>1. TypeInv
  BY DEF IInv
<1>2. CASE SetAgentToken
  <2>1. token' \in Nat /\ token <= token'
    BY <1>1, <1>2 DEF SetAgentToken, TypeInv
  <2> QED BY <1>1, <1>2, <2>1, QuietEnvironment DEF SetAgentToken, Quiet, runVars, cfgVars, boxVars,
                                                    bootVars, statusVars, TypeInv
<1>3. CASE ContainerExit
  <2>1. up' \in BOOLEAN /\ ~up'
    BY <1>3 DEF ContainerExit
  <2>2. UNCHANGED <<runVars, cfgVars, bootVars, box, made, boxToken, pc, loc>>
    BY <1>3 DEF ContainerExit
  <2>3. Quiet
    BY <1>1, <2>1, <2>2, ShrinkIsQuiet DEF BoxShrinks
  <2> QED BY <2>2, <2>3, QuietEnvironment
<1>4. ASSUME NEW c \in Runners, CallerCancels(c) PROVE IInv'
  BY <1>1, <1>4, QuietEnvironment DEF CallerCancels, Quiet, runVars, cfgVars, boxVars, bootVars, statusVars,
                                      TypeInv
<1> QED BY <1>2, <1>3, <1>4

\* Whatever container the old process left, the new one did not make it.
LEMMA RestartKeeps == ASSUME IInv, Restart PROVE IInv'
<1>1. TypeInv /\ ClosedInv
  BY DEF IInv
<1>2. /\ pc' = [c \in Clients |-> "idle"] /\ loc' = [c \in Clients |-> NoLoc]
      /\ cur' = 0 /\ inherited' = made /\ overtaken' = FALSE /\ containerID' = 0
      /\ UNCHANGED <<nruns, ranClosed, token, box, up, made, boxToken>>
  BY DEF Restart, boxVars
<1>3. NoLoc \in Locals /\ "idle" \in Phases
  BY DEF NoLoc, Locals, Phases
<1>4. TypeInv'
  <2>1. overtaken' \in BOOLEAN
    BY <1>2
  <2>2. cur' \in Nat /\ cur' <= nruns' /\ containerID' \in Nat
    BY <1>1, <1>2 DEF TypeInv
  <2>3. pc' \in [Clients -> Phases] /\ loc' \in [Clients -> Locals]
    BY <1>2, <1>3
  <2> QED BY <1>1, <1>2, <2>1, <2>2, <2>3 DEF TypeInv
<1>5. ClosedInv' /\ RunningIsTracked'
  BY <1>1, <1>2 DEF ClosedInv, RunningIsTracked, Running, TypeInv
<1>6. OneOwner'
  BY <1>2 DEF OneOwner, Clients, Active
<1>7. CallersInv'
  BY <1>1, <1>2 DEF CallersInv, RunnerInv, RemoverInv, DestroyerInv, Clients, NoLoc, TypeInv,
     Active, HasContainer, Stopping, Deleting, ContainerGone
<1> QED BY <1>4, <1>5, <1>6, <1>7 DEF IInv

-----------------------------------------------------------------------------
(* The invariant holds in every behaviour.                                    *)

\* A new Agent and an empty daemon satisfy the invariant.
LEMMA InitInv == Init => IInv
<1> SUFFICES ASSUME Init PROVE IInv
  OBVIOUS
<1>1. NoLoc \in Locals /\ "idle" \in Phases
  BY DEF NoLoc, Locals, Phases
<1>2. TypeInv
  <2>1. up \in BOOLEAN /\ overtaken \in BOOLEAN
    BY DEF Init
  <2>2. pc \in [Clients -> Phases] /\ loc \in [Clients -> Locals]
    BY <1>1 DEF Init
  <2> QED BY <2>1, <2>2 DEF Init, TypeInv
<1>3. ClosedInv /\ RunningIsTracked /\ OneOwner
  BY DEF Init, ClosedInv, RunningIsTracked, Running, OneOwner, Active, Clients
<1>4. CallersInv
  BY DEF Init, CallersInv, RunnerInv, RemoverInv, DestroyerInv, Clients, NoLoc,
     Active, HasContainer, Stopping, Deleting, ContainerGone
<1> QED BY <1>2, <1>3, <1>4 DEF IInv

\* Run and Start, from call to return.
LEMMA RunKeepsInv ==
    ASSUME IInv, NEW c \in Runners, Run(c) \/ Start(c) \/ RunStep(c) PROVE IInv'
<1>1. CASE Run(c) \/ Start(c)
  BY <1>1, RunKeeps DEF Start
<1>2. CASE beginRun(c)
  BY <1>2, BegunKeeps, RefusedKeeps
<1>3. CASE PrepareStep(c)
  BY <1>3, PrepareKeeps, MaterializeContentKeeps, PublishKeeps, failUnlessKeeps,
     RecordFailureKeeps DEF PrepareStep
<1>4. CASE SetPulling(c) \/ ensureImagesPulled(c) \/ SetStarting(c) \/ create(c)
  BY <1>4, SetPullingKeeps, ensureImagesPulledKeeps, SetStartingKeeps, createKeeps
<1>5. CASE removeOrphanContainer(c) \/ ContainerCreate(c) \/ RecordID(c) \/ start(c)
           \/ ContainerStart(c)
  BY <1>5, removeOrphanKeeps, ContainerCreateKeeps, RecordIDKeeps, startKeeps,
     ContainerStartKeeps
<1>6. CASE wait(c) \/ StreamEnds(c) \/ Reap(c)
  BY <1>6, waitKeeps, StreamEndsKeeps, ReapKeeps
<1>7. CASE endRun(c) \/ Settle(c) \/ CloseRan(c)
  BY <1>7, endRunKeeps, SettleKeeps, CloseRanKeeps
<1> QED BY <1>1, <1>2, <1>3, <1>4, <1>5, <1>6, <1>7 DEF RunStep

\* Remove, with the Stop it begins with.
LEMMA RemoveKeepsInv ==
    ASSUME IInv, NEW c \in Removers,
           \/ Stop(c) \/ StopStep(c) \/ StopCtx(c)
           \/ RemoveStep(c) \/ RemoveBox(c) \/ RemoveAll(c)
    PROVE  IInv'
<1>1. CASE Stop(c) \/ StopStep(c) \/ StopCtx(c)
  BY <1>1, RemoverStopKeeps, RemoverCancelKeeps, RemoverStopBoxKeeps, RemoverRanKeeps,
     RemoverCtxKeeps DEF StopStep
<1>2. CASE RemoveStep(c) \/ RemoveBox(c) \/ RemoveAll(c)
  BY <1>2, SetRemovingKeeps, ReadIDKeeps, ClearIDKeeps, SetRemovedKeeps, RemoverBoxKeeps,
     RemoverAllKeeps DEF RemoveStep
<1> QED BY <1>1, <1>2

\* Every step keeps the invariant, a restart of the process included.
LEMMA NextInv == IInv /\ [Next]_vars => IInv'
<1> SUFFICES ASSUME IInv, [Next]_vars PROVE IInv'
  OBVIOUS
<1>1. CASE UNCHANGED vars
  <2>1. Quiet /\ UNCHANGED <<pc, loc>>
    BY <1>1 DEF vars, Quiet, runVars, cfgVars, boxVars, bootVars, statusVars, IInv, TypeInv
  <2> QED BY <2>1, QuietEnvironment
<1>2. ASSUME NEW c \in Runners, Run(c) \/ Start(c) \/ RunStep(c) \/ CallerCancels(c) PROVE IInv'
  BY <1>2, RunKeepsInv, EnvironmentKeeps
<1>3. ASSUME NEW c \in Preparers, PrepareCall(c) \/ PrepareStep(c) PROVE IInv'
  BY <1>3, PrepareKeepsOthers
<1>4. ASSUME NEW c \in Stoppers, Stop(c) \/ StopStep(c) \/ StopCtx(c) PROVE IInv'
  BY <1>4, StopKeepsOthers
<1>5. ASSUME NEW c \in Removers,
             \/ Stop(c) \/ StopStep(c) \/ StopCtx(c)
             \/ RemoveStep(c) \/ RemoveBox(c) \/ RemoveAll(c)
      PROVE  IInv'
  BY <1>5, RemoveKeepsInv
<1>6. ASSUME NEW c \in Destroyers, Destroy(c) \/ RemoveBox(c) \/ RemoveAll(c) PROVE IInv'
  BY <1>6, DestroyKeeps, DestroyerBoxKeeps, DestroyerAllKeeps
<1>7. CASE SetAgentToken \/ ContainerExit
  BY <1>7, EnvironmentKeeps
<1>8. CASE Restart
  BY <1>8, RestartKeeps
<1> QED BY <1>1, <1>2, <1>3, <1>4, <1>5, <1>6, <1>7, <1>8 DEF Next

\* The invariant: at any time at most one run owns the handshake and with it the
\* making of containers, and each caller knows of the shared state what its
\* place in the code says.
THEOREM InvariantHolds == Spec => []IInv
BY InitInv, NextInv, PTL DEF Spec

-----------------------------------------------------------------------------
(* What it gives.                                                             *)

\* beginRun lets one run in at a time, also against a Start that looked at the
\* status before another Run changed it: no two runs are between beginRun and
\* endRun, whatever cancels, fails or removes them.
THEOREM RunsAreExclusive == Spec => []OneOwner
<1>1. IInv => OneOwner
  BY DEF IInv
<1> QED BY <1>1, InvariantHolds, PTL

\* When a run sends ContainerCreate the container's name is free, whatever a
\* lost answer, a cancelled run or an earlier process has left behind.
THEOREM NoNameConflictHolds == Spec => []NoNameConflict
<1>1. IInv => NoNameConflict
  BY DEF IInv, CallersInv, RunnerInv, NoNameConflict
<1> QED BY <1>1, InvariantHolds, PTL

\* A running container of this process is the one containerID names, unless a
\* Remove was overtaken by a later run.
THEOREM RunningIsTrackedHolds == Spec => []RunningIsTracked
<1>1. IInv => RunningIsTracked
  BY DEF IInv
<1> QED BY <1>1, InvariantHolds, PTL

\* A Remove that returned nil leaves no container running and a Destroy that
\* did leaves no container, as long as no run was or came in between.
THEOREM DeletionIsEffectiveHolds == Spec => []DeletionIsEffective
<1>1. IInv => RemovedIsDown
  BY DEF IInv, CallersInv, RemoverInv, RemovedIsDown
<1>2. IInv => DestroyedIsGone
  BY DEF IInv, CallersInv, DestroyerInv, DestroyedIsGone
<1> QED BY <1>1, <1>2, InvariantHolds, PTL DEF DeletionIsEffective

\* The container whose log a run streams was made with a token at least as new
\* as the one in force when Run was called.
THEOREM FreshTokenHolds == Spec => []FreshToken
<1>1. IInv => FreshToken
  BY DEF IInv, TypeInv, CallersInv, RunnerInv, HasContainer, FreshToken, Clients, Locals
<1> QED BY <1>1, InvariantHolds, PTL
=============================================================================
