# Verification of agentfile

This directory holds TLA+ specifications of this repository: the executors that run
agents and their jobs, the provisioning of an agent's workspace, and the way of an image
from an Agentfile through build, registry and store to a deployed agent. TLC checks them
on small instances; TLAPS proves the central safety properties for every size.
`PROJECT.json` is the machine-readable index: which definition stands for which source
lines, which run checks what, which mutation of the code breaks each property, and where
the code is hard to test.

## 1. The system

The repository builds, stores, resolves and runs *agents* described by an Agentfile.

| part | state it keeps | operations | hard behaviour |
|---|---|---|---|
| status tracker, `executor/status.go` | status, failure reason, set of subscribed channels | Set, SetFailure, SetUnless, Get, Failure, Subscribe and its cancel, WaitForStatus | non-blocking sends to bounded channels, close against send, lost wake-ups |
| agent contract, `executor/agent.go` | none (interface) | Prepare, Run, Start, Stop, Remove, Exec | what both backends must keep |
| system agent, `executor/system/agent.go`, `process.go` | the run handshake (running, cancel, ran), the runtime descriptor, the token, a process, a tree on disk | Run, Start, Prepare, Stop, Remove, SetAgentToken | several goroutines in the same agent, work done outside the lock, signals and a grace period |
| docker agent, `executor/docker/agent.go` | the same handshake, containerID; in the daemon a container | the same | calls whose answer is lost, a context that ends inside a call, containers left by an earlier process |
| providers, `executor/*/provider.go` | port reservations, options, directories | Create, Load, Destroy | what a restart forgets |
| workspace, `executor/system/workspace.go`, `executor/runtime.go` | the agent's tree: context, agent.yaml, mounts, runtime and BIN files | materialize, WriteTo, LoadRuntime | partial failure, repetition, a crash between two writes |
| exec, `executor/*/exec_async.go` | a job's process group or container and its pipes | Exec | exit, cancellation and a last-resort timeout race |
| environment and layout, `executor/env.go`, `executor/docker/container.go` | none | the variables and mounts of a runtime, a container, a job | precedence; two hand-written layouts that must agree |
| image stores and registries, `executor/docker/store.go`, `executor/*/registry.go`, `store/`, `build/` | blobs, tags, a hydrate cache | push, tag, resolve, list, remove, load | order of blobs, manifest and tag; names that move between two requests |
| OCI access, `oci/` | none between requests | pull, platform selection, retry transport | nested indexes, retries and bodies that cannot be replayed |
| resolve, `resolve/` | none | flattening of FROM chains | cycles, depth, precedence |
| Agentfile language, `spec/`, `validate/` | none | parse, render, validate, override | the order of instructions, what a merge may undo |

Interactions. A daemon outside this repository holds one Agent per running agent and
calls it from many goroutines: one in `Run` or `Start` for as long as the runtime lives,
others in `Prepare`, `Stop`, `Remove`, `SetAgentToken`, `Exec`. `Run` calls `Prepare`,
which materialises the workspace from an image of the local store; `Remove` calls
`Stop`; `Stop` hands the run a cancellation through `cancel` and waits on `ran`. Every
one of them writes the status tracker, and so does the daemon's supervisor. Readers
learn of changes through subscriptions and `WaitForStatus`. The docker agent and
`Provider.Destroy` share the Docker daemon, which outlives the process. Builds,
registry calls and deployments share the local store, builds and copies also the remote
registry.

What makes them correct, in one line each:

- tracker: a subscriber cannot panic the writers, and a reader that keeps up is never
  left waiting for a status the agent already has;
- agent: one run at a time, one runtime per run, a Stop that returned is effective, a
  cancelled run ends, no status says stopped over a live runtime, removal is final;
- docker agent: names never clash, no container runs out of reach of Stop, Remove and
  Destroy, whatever answers were lost;
- workspace: an agent that counts as prepared has all of it, however it got there;
- job: its result tells the truth, it leaves nothing behind, it ends when it is told to;
- images: a tag leads to blobs that are there, success means effect, the nearest
  declaration wins and the operator's wins over all.

## 2. Modules

| module | models | source |
|---|---|---|
| `AgentStatus` | the tracker's cell: setLocked, Set, SetFailure, SetUnless | `executor/status.go` |
| `StatusTracker` | the tracker with subscribers, and WaitForStatus | `executor/status.go` |
| `AgentLifecycle` | abstract: what Run and Stop promise of an agent | `executor/agent.go` |
| `SystemAgent` | the local-process agent; refines `AgentLifecycle` | `executor/system/agent.go`, `process.go` |
| `DockerAgent` | the container agent, its calls to the daemon, Destroy, a restart | `executor/docker/agent.go`, `provider.go`, `container.go` |
| `Provisioning` | materialize step by step, agent.yaml, Create, Load, Destroy, a crash | `executor/system/workspace.go`, `provider.go`, `executor/runtime.go` |
| `SpawnLayout` | environment and mounts of a runtime, an agent container, a job (operators) | `executor/env.go`, `docker/container.go`, `system/process.go` |
| `ExecJob` | one job of either executor; extends `SpawnLayout` | `executor/*/exec_async.go` |
| `Agentfile` | instructions, validation, inheritance, artifact, overrides (operators) | `spec/`, `validate/`, `resolve/`, `build/`, `store/` |
| `BinImage` | platform selection and extraction of a binary (operators) | `oci/manifest.go`, `oci/puller.go` |
| `Subsequences` | a loop that keeps some elements of a list, without recursion (operators); extended by `Agentfile`, `BinImage`, `SpawnLayout` | |
| `ImageFlow` | builds, registry calls, listings and deployments over shared stores; extends `Agentfile`, `BinImage` | `build/`, `resolve/`, `executor/*/registry.go`, `docker/store.go`, `oci/retry.go` |
| `StatusTrackerProofs`, `SystemAgentProofs`, `DockerAgentProofs`, `ProvisioningProofs`, `ExecJobProofs`, `ImageFlowProofs` | the theorems about each | |
| `SubsequenceProofs` | lemmas about lists, for lists of any length; extended by the next and by `ExecJobProofs` | |
| `InheritanceProofs` | the theorems about what images carry; extends `ImageFlowProofs` | |
| `MC...` | constants for TLC | |

`AgentStatus` is extended by the tracker and both agents: the cell is the same object in
all of them. Definitions under the comment "Mutant" are plausible bugs that stand next
to the definition they replace; no specification uses them.

### Reading StatusTracker

One action is one critical section of the tracker's mutex or one receive. A *waiter* is
a call of WaitForStatus: it subscribes (`WaitSubscribe`), reads the status (`WaitCheck`),
loops over `WaitReceive` and `WaitCtx`, and runs its deferred cancel (`WaitCancel`). A
*watcher* is any other subscriber; it may call its cancel function several times.
`Broadcast` is the select with a default arm for each subscribed channel. `lost` and
`reached` are history variables: the latest offer to a channel was dropped; the statuses
the cell held during a subscription. A guarded write that does not take effect is a
stutter, so `DoSetUnless` has only the effective case.

### Reading SystemAgent

`cur` stands for the fields running, cancel and ran, which beginRun and endRun write
together: 0, or the number of the run that installed them. `live` is the set of runs
with a running process. `pc` is the place of each calling goroutine, `run`, `target`,
`mat`, `err`, `env` its local variables, `want`, `since` and `ret` what the properties
need to remember of the moment of a call. `rt` numbers the materialisation that made the
descriptor; `cred`, `token` and `provVer` are versions of the credentials in the
descriptor, of the token and of providers.yaml.

- Run: `Run`, `beginRun` or `BeginRefused`, `SetPulling`, Prepare's steps, `SetStarting`,
  `command`, `Spawn`, then serve (`Interrupt`, `ForceKill`, `AwaitExit`), then endRun in
  the code's three steps: `endRun` (the handshake is freed), `Settle` (the guarded write
  of stopped), `CloseRan`.
- Start: the status check, then `reresolveCredentials` (unlocked), `WriteCreds`.
- Prepare: `initialize`, `Materialize` or `MaterializeFails`, `Publish`, `PrepareFailed`,
  `PrepareSetFailure`.
- Stop: `Stop` (snapshot), `StopCancel`, `StopRan` or `StopCtx`. Remove continues with
  `SetRemoving`, `RemoveAll`, `SetRemoved`.
- Environment: `SetAgentToken`, `EditProviders`, `CallerCancels`, `ProcessExit`,
  `Supervisor`.

### Reading DockerAgent

The same handshake and a record `loc` of local variables. The container's name derives
from the agent's id, so the daemon holds at most one of them: `box` (its id), `up`,
`boxToken`. A call under the run's context is sent in one step and answered in another;
`Answer` gives its three outcomes: the answer arrives; the daemon acted and the answer
was lost; the daemon did not act. Loss needs a cancelled context, or `DaemonFails`.
`Restart` forgets the agent's memory and keeps the daemon's; `inherited` remembers which
containers predate it. `overtaken` records that a Remove cleared containerID after a
later run had begun.

### Reading Provisioning

`tree` is the disk and outlives the daemon; `mem` holds the Agent objects, `status` what
each of them reports, `proc` the processes they supervise. A new and a recovered agent
are pulling, and Start refuses them: `Call` lets it through for a stopped or failed one
only. It resolves the credentials (`reresolveCredentials`, which may fail) and then
becomes a Run (`beginRun`), unless another has begun. `Makes` says which calls a
goroutine makes. A materialisation is a walk through the labels of `MaterialisePC`: the
artifact is loaded and the mounts are merged into the Agent's list (`LoadArtifact`),
layers are extracted, agent.yaml is truncated and then written (`OpenYaml`, `WriteTo`),
mounts are linked, the runtime and each BIN are opened with O_TRUNC and then pulled, and
the first to finish publishes. `StepFails` ends the call at any of them, with a failure
on record or, after a cancellation, without one. `Crash` keeps `tree` only, and `Load`
makes Agents of what it finds. `published` and `raced` are history variables; see
`PreparedIsComplete`.

### Reading ExecJob

One Exec, of either backend. `bin` and `child` are the job's processes: the child may
hold the output streams or have closed them ("detached"). `hit` is the set of processes
with a pending SIGKILL; `Dies` delivers it at any later time or never. `waiter` is the
goroutine in cmd.Wait, `watcher` the one that stops the container, `stream` the one that
writes stdin. Output and stdin are counted in units. `GiveUp` is the last resort after
two seconds; it takes any prefix of the buffers, since cmd.Wait's copiers still write
them. `excused` names the cases in which the code cannot know better.

### Reading ImageFlow

Every process makes one call. A manifest goes by its digest: the name of the builder, or
of an earlier build; `made` says what it contains, `images` which references a store
serves and `content` which blobs it holds. A reference that was pulled keeps its host in
both executors, as it does in the code (system/registry.go:285). `served`, `named` and
`window` are history variables: what each reference ever led to; per call and
deployment, the images that its source has named since it began (`Source`); and, per
listing, the references that were there all the time or at some time since it began. A
build is `FromFile`, `resolveDepth` (one fetch of a parent per step), `pushLayer`,
`pushConfig`, `pushManifest`, `tagDigest`, `tagName`; under docker it stages and
`tagName` loads. A registry call looks its reference up (`resolveImageID`) and acts on
what it found in later steps. `RoundTrip` is one attempt through the retrying transport:
the request takes effect or not, is answered or not, and is sent again while its body
can be replayed and time is left. A process that ends in "drained" has returned nil
after an error inside the daemon's progress stream, which the code discards.

The operators of `Agentfile` work on parsed instructions. `Agentfile!parse` folds them,
`mergeChain` is resolve's inheritance, `BuildLayers` and `Manifest` what an artifact
carries, `LoadHydrated` what a child gets back of its parent. `NearestWins`,
`InheritedContentKept` and `OperatorWins` are the reference definitions they are checked
against, through a whole build or deployment.

### Abstractions

- In the two agent modules contents (command line, mounts, environment, image
  references) are reduced to the token and credential versions; errors to the sentinels
  that choose a failure reason. Environment and mounts are modelled in `SpawnLayout`,
  materialisation in `Provisioning`.
- The supervisor of the system agent is outside the repository; it is assumed to act on
  what it sees at once, and only when that makes sense. In `DockerAgent` it is left out:
  its writes concern no property checked there.
- A call to the daemon that returned an error has no effect after that return, except
  where the model says that its answer was lost.
- `DockerAgent` does not carry the tree on disk, only whether its removal failed, nor the
  identity of the descriptor.
- `Provisioning` takes beginRun and the first write of a status for one step, endRun's
  three for another (SystemAgent has them apart), and does not tell ready and working
  from starting. The daemon calls nothing of an agent it has removed.
- `ExecJob` takes the live sinks not to fail and does not tell stdout from stderr.
- In `ImageFlow` a digest is a name, so two builds never have the same digest; sizes,
  dates and annotations are left out. Names rejected by a pattern are a constant set.

## 3. Runs

| run | question | result |
|---|---|---|
| `tracker_overflow` | One waiter, one watcher with two cancels, four writes into buffers of two: panics, order of delivery, lost wake-ups, results, termination | holds |
| `tracker_dropped` | One write more than the buffer, and a waiter: does WaitForStatus end | violated (finding 1) |
| `system_lifecycle` | Two goroutines in Run or Start, a Prepare, a Remove, two runs; the safety part of the refinement | holds |
| `system_restart` | One goroutine that runs and starts the agent, a Stop, edits and token rotations, three runs; liveness and the whole refinement | holds |
| `system_overlap` | Does stopped mean that there is no process | violated (finding 2) |
| `docker_containers` | A runner, a Remove, a Destroy, lost answers, two runs, a restart | holds |
| `docker_progress` | A runner, a Prepare, a Stop, a token rotation under fairness | holds |
| `docker_orphan` | Is the container down when no run is in flight | violated (finding 3) |
| `provisioning_workspace` | A supervisor that Runs and an operator who Starts, a failing or cancelled step, a crash and a Load, Remove and Destroy | holds |
| `provisioning_addr` | Does a recovered agent serve where it says | violated (finding 4) |
| `jobs_returns` | One job of either executor, with every descriptor, a failing call, a cancellation at any moment | holds |
| `flow_images` | Each Agentfile of a family against each state of a registry; builds, calls, listings and deployments of the same images at once | holds |

What the properties say:

- Tracker. `NoChannelPanic`: no send to a closed channel, no second close.
  `DrainsToCurrent`: the last buffered element is the current status. `NoLostWakeup`: a
  blocked waiter is not waiting for what the agent already is. The last two except a
  channel whose latest offer was dropped, which is what finding 1 is about.
  `ReturnsReachedTarget`: the result is a target reached during the call, or the
  context's error, and never ErrStatusClosed. `WaitEnds`: the
  wait ends with its context, or with the target unless that was dropped.
- System agent. `ProcessIsCurrent`: every process belongs to the run in the handshake.
  `StopIsEffective`: a Stop that returned nil leaves no process of an earlier run.
  `NeverFlipsToStopped`: the settle of a run never overwrites removing or removed.
  `PublishedOnce`: concurrent Prepares share the first descriptor. `SpawnsFresh`: a
  process has the token and, after Start, the credentials current at the call.
  `StoppedHasNoProcess`: stopped tells the truth, as long as one goroutine runs the
  agent. `StopTerminates`: a Stop returns whatever phase the run is in.
  `ImplementsSafety`, `ImplementsLifecycle`: the refinement, without and with liveness
  (a cancelled run gives its slot back).
- Docker agent. `NoNameConflict`: the name is free when ContainerCreate is sent.
  `RunningIsTracked`: a running container is the one containerID names. `DeletionIsEffective`:
  what Remove and Destroy leave. `FreshToken`: as `SpawnsFresh`. `CancellationEnds`: a
  cancelled run and a Stop come to their end.
- Workspace. `PreparedIsComplete`: an agent that counts as materialised has every file in
  full, the links that were asked for and the descriptor that was published, after
  failed attempts and after a crash. It speaks of a workspace that was once finished by
  one call: Load takes any tree with an agent.yaml for a finished one, also an empty or
  half-installed one (its first Start then fails, and no later Prepare repairs it), and
  two calls that materialise at once overwrite each other's files.
  `SpawnsWithCredentials`: they survive a restart although agent.yaml has none, except
  when a recovered agent is Run and not Started. `RetryUnsticks`: "Failures are not
  cached" (system/agent.go:295). An agent that failed before it was materialised gets
  through in the end if it is started again, although a Start can lose to a Run or a
  Prepare, and the attempt before has left its remains. An agent whose removal failed is
  excepted: it stays removing, and Start refuses it.
- Job. `ResultIsTruthful`: without an error the BIN ended by itself, with that code and
  that output. `LeavesNothing`: no BIN runs and no container is left.
  `OrphansAreDetached`: whoever outlives a system job is under a kill, except for a child
  that has closed its streams, and it only if the select took the result of Wait. That
  exception is the code's, and at odds with its comment (see the observations).
  `JobEnvIsExpected`: the environment, variable by variable, against a definition that
  does not mention the order of the writes; a name for which the code and the documents
  differ (`Disputed`) is excepted. `JobSeesAgentView`:
  a job container has the mounts and environment of the agent's. `ExecReturns`, `StdinDrains`:
  nothing hangs. Excused are a log stream that breaks
  inside a frame ("cut": dockerStdCopy takes it for the end and a running container's
  exit code is zero), the last resort, and a creation or removal whose answer was lost.
- Images. `TagsAreComplete`: config and layers of every tag are in its store, at every
  moment. `SuccessIsServed`: a call that succeeds gives its target an image that its source
  named while the call was under way, and a deployment uses one image that its reference
  has named since it began, although builds and other calls move both references between
  the look-up and the write. It says nothing of an error that docker reports inside its
  progress stream, which the code drains unread: such a call ends "drained".
  `NearestWins`, `InheritedContentKept`: inheritance, although ancestors are merged a
  second time (an artifact's config keeps FROM). An inherited ADD of an empty file is the
  exception: its content counts as missing and is read beside the child. `OperatorWins`:
  overrides, except a CONFIG that the artifact declares more than once, where WithConfig
  replaces the first entry and the last one counts. `BinsMatchPlatform`: no binary of
  another platform, for BIN images that are indexes (a plain manifest is taken as it is,
  oci/manifest.go:51). `ListingIsWindowed`, `RemoveSparesNewer`: names that move during a
  listing or a removal. `CallsReturn`: FROM chains, retries and listings end.

### Bounds

- `ChanSize` 2 stands for 16. The code treats all sizes alike, only "full" matters; the
  theorems hold for every positive size. `MaxTransitions` 4 is enough to fill a buffer,
  drop, drain it and write again; `MaxCancels` 2 is a repeated cancel.
- `MaxRuns` 2 gives a run before and a run after each event, 3 one more restart; the
  proofs have no bound. `MaxEdits` 2 separates "older", "current" and "newer".
- Client sets have one or two members: two runners because the interesting races are
  between two runs, one Stop or Remove because they do not interact but through the run.
  Runners are interchangeable, so `system_lifecycle` uses them as a symmetry set (it
  checks only safety).
- `MatErrors` has one or two of the four errors: they only differ in the reason they are
  recorded under.
- Provisioning: one fault and one crash at any of the steps, two addresses (one before
  and one after the crash), one BIN, two mount channels that ask for the same target. One
  goroutine Prepares and Runs, the other Prepares and Starts; two Runs at once are in
  `system_lifecycle`.
- ExecJob: two units of output and of stdin with a pipe of one make the pipe fill, drain
  and fill again; one fault. The descriptors cover every pair of sources of a variable
  and every optional mount.
- ImageFlow: `MaxDepth` 2 stands for 10 and one source is too deep for it; `MaxTries` 1
  gives a repeated request and one that runs out of time. A scenario has at most three
  processes (one has two callers, so that a tag, a pull or a removal meets another on the
  same references), and the sources contain each instruction.
- Deadlock is not checked: every instance stops when its bounds are used up, and an
  agent nobody calls does nothing.

### Fairness

A goroutine inside a call keeps being scheduled by the Go runtime: weak fairness of each
client's steps *after* its call. In detail this includes that a materialisation ends
(with or without error), that timers fire, and that the Docker daemon answers. A process
that was killed exits (`ProcessExit` at "killed") in the two agent modules. Nothing
forces a call, an exit of its own, a write, a token rotation, or the end of a caller's
context, and the branch where Stop's own context ends is not fair: StopTerminates holds
without it. The first part of `WaitEnds` needs no stronger fairness although Go's select
is random: writes are finitely many in the instance.

ExecJob assumes less of the processes: the BIN need not exit, and a kill need not take
effect; only goroutines, pipes, daemon calls that do not fail, and a BIN that reads its
input to the end are fair. Provisioning adds strong fairness of `Retry` for
`RetryUnsticks`: an operator who starts a stopped or failed agent again and again, in the
statuses in which Start accepts it. The property is about what follows a failure, so this
is its hypothesis and not an assumption about the code. ImageFlow has weak
fairness of the steps of each call: a request is answered or times out.

## 4. Findings

1. **A dropped transition can be the last** (`tracker_dropped`, status.go:181). setLocked
   drops the newest transition when a buffer is full. A WaitForStatus that then drains
   its channel sleeps on an agent that is in its target status. In the code 17
   transitions have to arrive before the first receive.
2. **The settle of a run can hit the next run** (`system_overlap`, system/agent.go:183).
   endRun frees the handshake before it settles the status, so the next Run may already
   be starting when the old one writes stopped.
3. **A cancellation between start and log stream leaves the container running**
   (`docker_orphan`, docker/agent.go:483). `RunningIsTracked` shows that its id is kept,
   so the next Stop or Remove does reach it.
4. **A recovered agent is started without an address** (`provisioning_addr`,
   system/provider.go:246). Load reserves one for the Agent, but the command line takes
   it from the descriptor, and agent.yaml keeps none.

Observations made while modelling, without a run of their own:

- neither Run nor beginRun looks at the status, so a Run can revive a removed agent
  (system/agent.go:146);
- a Start resolves its credentials without the lock and writes them before beginRun
  decides, so a Start that is refused can put older credentials in place of newer ones
  (system/agent.go:239);
- RemoveAll may fail half way; the agent then stays removing with part of its tree;
- the runtime has a process group of its own and outlives a crashed daemon: Load knows
  nothing of it, and the next Start spawns a second one (system/exec.go:39);
- the operator's ENV are never validated: materializeContent validates before it applies
  the overrides, although spec/types.go:144 says that Validate runs after Apply. The
  spawn filter drops reserved ones all the same;
- a CONFIG set by a parent and declared again as required by a child is refused, although
  configsFromSpec would use the parent's value (spec/parse.go:593);
- a direct Prepare that fails while the agent runs records a failure on a running agent;
- Remove waits for a Run and not for a direct Prepare, which may write the tree again
  after it was deleted;
- a Stop called between endRun and the settle returns before the status is settled;
- a retry of a failed materialisation appends the spec's mounts once more to the
  Agent's list; the links are the same, the descriptor has duplicates;
- the docker Remove clears containerID unconditionally, so the container of a run begun
  after its Stop loses its id (`overtaken`), and Destroy misses a container created after
  it has listed them;
- a Stop during ContainerCreate can leave a created container, never started, without a
  recorded id; the next create or Destroy removes it by name or label;
- when a system job's context ends, CommandContext kills the leader at once; if a child
  that has closed the streams is left, Wait may return before the select looks at the
  context, and nothing kills the child, although system/exec_async.go:25-28 says "no
  orphaned grandchildren". `OrphansAreDetached` states that this is the only way to leave
  one;
- an ENV named like RUNTIME_..._API_KEY is dropped as reserved and does not override the
  CONFIG of that name (x-api-key), although executor/env.go:163-165 and
  AGENTFILE-v1.0.0.md:480-482 say that ENV overrides. `JobEnvIsExpected` leaves these
  names out;
- a recovered agent is pulling, so that Start refuses it as "already running" until it
  was Run once (system/agent.go:204), and an agent whose removal failed cannot be started;
- executor/agent.go:28-29 says of a failing Prepare that repeat calls return the same
  error, system/agent.go:295 that failures are not cached. The code does the latter.

## 5. Proofs

All theorems hold for any sets of calling goroutines, agents, images and descriptors, any
buffer size and any number of runs, writes, units, faults, crashes and restarts. They
assume the named ASSUMEs of the specifications:

- the kinds of clients are disjoint, the buffer holds at least one element, the bounds
  are natural numbers;
- Provisioning: a mount list is a sequence of mounts, there are finitely many agents, and
  `None` is neither a descriptor nor an Agent;
- ImageFlow: a build makes a digest that no earlier image has, the stores of a scenario
  hold earlier images, and an earlier image is one that a build can have made
  (`WellBuilt`); a parsed file is a list of instructions with known keywords; the
  operator's overrides are a list of ENV and a finite map of CONFIG values;
- BinImage: a registry holds finitely many blobs, no index contains itself (a digest is
  a hash of what it names) and an index says the truth about the platform of its
  manifests; a BIN image is an index;
- ExecJob and SpawnLayout: the ENV of a descriptor are a list, and its CONFIG keys are
  among those that have an order.

Two theorems about the system agent have hypotheses of their own, stated in them:
`OneAtATime` (one goroutine makes all the calls of Run and Start) and, for one, that
nobody calls Prepare directly. TLC has checked each inductive invariant on an instance
before it was proved.

**StatusTrackerProofs.** `Invariance` proves that `IInv` is inductive. It is made of the
type invariant, the four safety properties and two parts that make them inductive:
`Subscribed` (the cancel function of a subscribed channel has not run; a waiter stays
subscribed until its deferred cancel) and `Held` (whatever a subscriber can still read,
the cell really held during the subscription). `NoChannelPanic` needs the first, as
"closed at most once" says nothing about the number of calls; `ReturnsReachedTarget`
needs the second, as a result is taken from a buffer filled earlier. `ChannelSafety`,
`DrainSafety`, `WakeupSafety`, `ReturnSafety` and `TypeCorrect` are the corollaries.

**SystemAgentProofs.** `ProcessIsCurrent` is not inductive: endRun clears `cur` whoever
owns it, so one must know that its caller is the owner and that its process is gone.
`RunInv` says so: the handshake holds the newest run; the goroutine between beginRun and
endRun owns it and is alone; a process exists only while its owner is in serve; a run
past endRun no longer is the current one. `StopInv` relates a Stop to its snapshot: it
waits for the newest run of that moment, and after it returned nil only a newer run can
hold the handshake. `Invariance` proves TypeOK, RunInv and StopInv together, by lemmas
per group of actions: `QuietRun` for the many steps that only move one goroutine, one
lemma each for beginRun, spawn and exit, and endRun. From it follow `TypeCorrect`,
`ProcessSafety` and `StopSafety`. `NoFlip` and `Published` are action properties and go
through the actions. `Refinement` proves the safety part of `AgentLifecycle` under
`phaseBar`; it adds `OwnInv`, that a run somebody cancels has begun.

Three more theorems say how fresh a run is and how true its status, each from an
invariant of the calls of Run and Start on top of `IInv`:

- `TokenIsFreshHolds`: a process never has a token older than the one its call found, for
  any callers. `TokenOf` follows the token from the call through command to the process.
- `SpawnsFreshHolds`: the same of the credentials after Start, if the calls of Run and
  Start come one after the other and nobody calls Prepare beside them. Both hypotheses
  are needed. A direct Prepare that has read providers.yaml before an edit may publish
  after Start has found no descriptor to write to, and a Start that overlaps another may
  write what it read earlier. `CredOf` says where the newest credentials are at each
  point: in the hands of the call, in the descriptor, in the process.
- `StoppedHasNoProcessHolds`: stopped tells the truth, if the calls of Run and Start come
  one after the other, whoever calls Prepare, Stop and Remove beside them. Without the
  hypothesis it is false (finding 2). The write of stopped is the settle of a run, so
  between its SetStarting and its own settle nobody writes it.

**DockerAgentProofs.** The shared state has two parts, the handshake in memory and the
container in the daemon, and the calls that keep them together are interrupted by lost
answers and a restart. `OneOwner` (`RunsAreExclusive`): at most one goroutine is between
beginRun and endRun. What each caller may rely on is a predicate of its place in the code
and its local variables. `RunnerInv`: the owner's run is the current one, the name is
free once the removal of a leftover was answered, the container it records is its own,
and the token it sends is no older than its call. `RemoverInv` and `DestroyerInv`: as long
as no run has begun since they looked, no run is in flight, the container is the one they
have the id of, and after its removal none runs. These are what `NoNameConflict`,
`DeletionIsEffective` and `FreshToken` need; `RunningIsTracked` is a conjunct of `IInv`,
since create, record and start are three steps. Most steps are *quiet*: no run begins or
ends, and the container at most stops or goes away. `QuietStep` shows that a quiet step of
one caller leaves to the others what they rely on; the steps that are not quiet (beginRun,
create, record, start, endRun, the close of ran, Remove's clearing of containerID and the
restart) have proofs of their own.

**ProvisioningProofs.** `PreparedIsComplete` speaks of a moment long after the writes it
is about, with other calls, failures and a crash in between. `WrittenInv` records what a
materialisation finds on disk after each of its steps, if nobody has interfered;
`MaterialInv` what it has in its hands (and that nothing is published while somebody
materialises); `RaceInv` that two materialisations of one agent are on record as a race;
`DiskInv` that what was published is on disk; `AgentInv` where a descriptor and a mount
list come from. A failed attempt leaves the overrides appended to the Agent's list, so a
retry appends them again: `LinksOfConcat`, `RelinkTwice` and `MergedAgain` prove that this
asks for nothing new, and `RelinkMerged` that linking over the remains of an earlier
attempt gives exactly the links that were asked for. `SpawnsWithCredentials` needs
`CallInv`: past its first step a Start has a descriptor with credentials or none at all.

**ExecJobProofs.** The result is made before it is returned and from state that other
actors change, so `ResultIsTruthful` needs to know what is frozen by then. `WaitInv`:
once cmd.Wait has returned, the leader is reaped, nobody holds the streams and the
buffers are complete, so no writer is left. `InspectInv`: the same of a log stream that
ended by itself. `KillInv`: a process is killed only for a context that has ended, so a
killed BIN cannot be reported without an error. `PhaseInv` says what exists at each
point of Exec and that a container's BIN has no child and no pending signal. `ResultInv`
carries the result through the deferred calls. `LeavesNothing` and `GroupInv` are
conjuncts of `IInv`. `GroupInv` adds to `OrphansAreDetached` that after the kill of the
group every process alive is marked: one that is marked cannot fork, and one that dies
leaves both sets. With `WaitInv` (after Wait no child holds a stream) this covers both
branches of the select. `TruthfulResult`, `NothingLeft` and `OnlyDetachedLeft` follow.
The environment and the mounts play no part in this argument. `JobSeesAgentViewHolds` is
about them alone: `AssembliesAgree` compares the two assemblies of a container for every
descriptor, and `SpecInv` says that what Exec hands over is what its assembly made.
`JobEnvIsExpectedHolds` says what that is. The assembly appends four lists (locked
variables, credentials, CONFIG, ENV), drops the reserved names from the last, and the
last of several entries counts; the reference definition, `ExpectedEnv`, has neither
lists nor an order. `EffectiveConcat` gives the effect of an append, `LockedEnv`,
`CredentialsEnv`, `ConfigEnv` and `UserEnv` that of each list, whatever duplicates it
has, and `AssembledEnv` puts them together.

**ImageFlowProofs.** `StoreInv` is the order of the writes as an invariant of a store:
no manifest without config and layers, no tag without its manifest. It holds at every
moment because a manifest that is visible never changes again (`Packed`) and blobs are
never taken away (`Forward`); `BuildInv`, `CallInv` and `DeployInv` say what each
process has sent or looked up so far. `TagsAreCompleteHolds` follows.
`SuccessIsServedHolds` needs `NamesInv` as well: an image that a call or a deployment
has looked up is among those its source has named since it began (`CallNamed`,
`DeployNamed`), also when the reference has moved on since. The histories only grow
(`Tells`), and a write to a store adds to the history of a call only what its source
names then. `RemoveSparesNewerHolds` is an action property: a reference only goes in a
step of a Remove that has looked up the image it leads to. `ListInv` relates what a
listing has to its `window`, whatever happens to the references in between;
`ListingIsWindowedHolds` follows. None of this needs a fact about the operators of
Agentfile and BinImage.

**SubsequenceProofs.** The library's induction theorems take a predicate and cannot be
instantiated here. `SetInduction` is the principle with a set in its place, proved from
the well-foundedness of the natural numbers; every induction below is one over a set of
the form {n \in Nat : P(n)}. Merging, parsing and platform selection are recursive
functions, so each also needs a proof that the function exists (`ReplacesExists`,
`MergesExists`, `AppliesExists`, `LooksExist`). `LastOfConcat` and `LastOfSubsequence` are
what "the last declaration counts" becomes when lists are appended and filtered.

**InheritanceProofs.** What an image says is decided long before it is deployed or used
as a parent, and `NearestWins` and the others are not inductive: they speak of one moment
of a build and need to know where its contents come from. `FlowInv` says so. Every
manifest is `WellBuilt`, also those of images nobody has built on yet. `CarryInv`: the
Agentfile in the hands of a build came out of the parser (`Fresh`), what it has fetched
was published (and so does not change any more, by `IInv`), and while it pushes, its
layers are those of the merge of the whole chain. `LoadInv`: a deployment works on such
a manifest, with the operator's overrides and binaries for its host. `FlowHolds` proves
it together with `IInv` of `ImageFlowProofs`, one lemma per step of a build.

- `NearestWinsHolds`. `ChainMerged`: the merge of a chain is the child over something that
  `Inherits` from its parent, that is, the parent or a merge with the parent as the
  nearer one. This is why a second merge of the ancestors does no harm. `NearestMerged`
  then goes through the kinds of declarations; contexts need an induction over the
  child's list (`MergedContexts`), ADDs that the parser leaves their content empty
  (`Bare`).
- `InheritedContentKeptHolds`. `BuiltCarries` says which layer of a manifest has which
  content, `HydratedContext` and `HydratedFile` that a child gets it back, and
  `ContentsMerged` that the merge keeps it, if the child has no declaration of that name.
- `OperatorWinsHolds`. `ConfigSets`: an entry of an overridden key has the operator's
  value or there is another entry of that key; `OnlyEntry`: with one entry that is what
  counts. ENV are `ConcatKeys`.
- `BinsMatchPlatformHolds`. Indexes are nested to any depth, so `IndexMatches` is an
  induction over the rank of a blob; `ExtractMatches` is about the layers of the manifest
  that it ends at.

Only model-checked: liveness, which is out of the prover's reach: `WaitEnds`,
`StopTerminates`, `CancellationEnds`, `CallsReturn`, `ExecReturns`, `StdinDrains`,
`RetryUnsticks`, and `ImplementsLifecycle` as far as it goes beyond `ImplementsSafety`.
Every invariant and every action property that a passing run checks is also a theorem.

## 6. Not modelled, and the plan

Left out for good:

- text: tokenising (quotes, heredocs, ARG expansion), rendering, typed CONFIG values,
  the generated AGENT.md, WORKSPACE.md and MOUNTS.md, the flags of a command line. They
  have no state, and a model would be a transliteration of string functions;
- the Docker client, its credential files and the check for a daemon; the construction of
  a repository client: wrappers without state of their own;
- the export archive: one pass of I/O;
- generated mocks, examples, the demo and the test registry.

Left out so far: the overrides WithRuntime, WithModel and WithMounts in `Agentfile`
(single assignments; the mounts are in `Provisioning`), the log file of the docker
provider, BIN symlinks and tool docs, the usage layer of a BIN image, and ReapplyMounts of
the system agent, which repeats applyMounts on an existing tree and which only tests call
(system/agent.go:109).

DockerAgent is not shown to implement AgentLifecycle. With the container as the process
it does not: a run that is cancelled between start and log stream gives its slot back
while its container runs (finding 3). With the goroutine's place in the code instead, the
refinement would say no more than `RunsAreExclusive`.

## 7. Running

    tlc -workers 2 -config MCSystemAgent_lifecycle.cfg MCSystemAgent
    tlapm SystemAgentProofs.tla

The runs take between a few seconds and three minutes; `docker_containers` is the largest
(3.8 million states).
