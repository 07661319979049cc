---------------------------- MODULE Provisioning ----------------------------
(* How the system backend makes an agent's workspace and finds it again:      *)
(* Provider.Create, the steps of workspace.materialize, the descriptor        *)
(* agent.yaml, the runtime process, Remove, Destroy, a crash of the daemon    *)
(* and Provider.Load after it.                                                *)
(*                                                                            *)
(* tree is what is on disk and outlives the daemon; mem, status, pc, loc and  *)
(* proc are the daemon's own. Every fetch and every write may fail, and the   *)
(* daemon may crash between any two steps. Of the statuses this module keeps  *)
(* what Start's guard tells apart; who waits for them is in SystemAgent.      *)
EXTENDS Naturals, Sequences, FiniteSets

CONSTANTS
    Ids,          \* agents
    Threads,      \* goroutines that call Prepare, Run or Start
    Makes,        \* which of these calls each goroutine makes
    Bins,         \* the BIN tools the Agentfile declares
    BaseMounts,   \* WithMounts of the executor: a sequence of mounts
    SpecMounts,   \* WithMounts of the spec overrides (RuntimeMounts)
    MaxFaults,    \* bound on failing fetches and writes
    MaxCrashes,   \* bound on crashes of the daemon
    MaxAddrs,     \* bound on reserved addresses
    None          \* nothing there

IsMounts(ms) == \A i \in DOMAIN ms : DOMAIN ms[i] = {"target", "host"}
MountsOf(ms) == {ms[k] : k \in DOMAIN ms}

\* The mounts an agent can have, its descriptors and its Agent objects.
Mounts == MountsOf(BaseMounts) \cup MountsOf(SpecMounts)
Descriptors == [addr : Nat, cred : BOOLEAN, mounts : Seq(Mounts)]
Agents == [addr : Nat, mounts : Seq(Mounts), overrides : Seq(Mounts), initialized : BOOLEAN,
           rt : Descriptors \cup {None}, loaded : BOOLEAN, removed : BOOLEAN]

ASSUME ProvisioningAssumption ==
    /\ IsMounts(BaseMounts) /\ IsMounts(SpecMounts)
    /\ BaseMounts \in Seq(Mounts) /\ SpecMounts \in Seq(Mounts)
    /\ None \notin Descriptors /\ None \notin Agents
    /\ IsFiniteSet(Ids)
    /\ \A t \in Threads : Makes[t] \subseteq {"Prepare", "Run", "Start"}
    /\ MaxFaults \in Nat /\ MaxCrashes \in Nat /\ MaxAddrs \in Nat

VARIABLES
    tree,       \* disk: one workspace per agent
    mem,        \* the Agent objects of the running daemon
    status,     \* the status each of them reports
    pc,         \* where each thread is
    loc,        \* a thread's locals: its agent, its call, the descriptor it builds
    proc,       \* the runtime process each Agent supervises
    addrs,      \* addresses reserved so far
    faults, crashes,
    published,  \* history: the mounts of the last materialisation that succeeded,
                \* none from the start of the next one or of a deletion
    raced       \* history: agents two threads materialised at once, or whose tree
                \* was deleted under them

vars == <<tree, mem, status, pc, loc, proc, addrs, faults, crashes, published, raced>>

\* A workspace directory: the generated and extracted context files, agent.yaml,
\* the runtime binary, the BINs and the mount links. A file is None, "empty" or
\* "ok".
NoTree == [content |-> FALSE, yaml |-> None, ymounts |-> <<>>, runtime |-> None,
           bins |-> [b \in Bins |-> None], links |-> {}]

\* What a deletion that fails half way leaves: agent.yaml, and no runtime.
Pieces(t) == [t EXCEPT !.runtime = None]

NoLoc == [id |-> None, op |-> None, rt |-> None, bin |-> None, done |-> {}]

\* A descriptor: its address and credentials are not persisted.
Descriptor(addr, cred, mounts) == [addr |-> addr, cred |-> cred, mounts |-> mounts]

\* An Agent object: the instance options it was created with, and its
\* workspace's mounts, which materializeContent extends.
NewAgent(addr, mounts, overrides) ==
    [addr |-> addr, mounts |-> mounts, overrides |-> overrides,
     initialized |-> FALSE, rt |-> None, loaded |-> FALSE, removed |-> FALSE]

Init ==
    /\ tree = [i \in Ids |-> NoTree]
    /\ mem = [i \in Ids |-> None]
    /\ status = [i \in Ids |-> "pulling"]
    /\ pc = [t \in Threads |-> "idle"]
    /\ loc = [t \in Threads |-> NoLoc]
    /\ proc = [i \in Ids |-> None]
    /\ addrs = 0 /\ faults = 0 /\ crashes = 0
    /\ published = [i \in Ids |-> None]
    /\ raced = {}

Live(i) == mem[i] # None
At(t, label) == pc[t] = label
Go(t, label) == pc' = [pc EXCEPT ![t] = label]

\* Threads between the first and the last write of a materialisation of i.
MaterialisePC == {"load", "extract", "yamlOpen", "yamlWrite",
                  "mounts", "rtOpen", "rtPull", "binOpen", "binPull", "publish"}
Materialising(i) == {t \in Threads : loc[t].id = i /\ pc[t] \in MaterialisePC}

Calls(i) == {t \in Threads : loc[t].id = i}

\* Agent.running: a Run that beginRun admitted and that endRun has not ended.
Running(i) == \E t \in Calls(i) : loc[t].op \in {"Run", "Start"} /\ pc[t] \notin {"resolve", "begin"}

\* The tracker's Set and SetFailure, and endRun's SetUnless.
SetStatus(i, s) == status' = [status EXCEPT ![i] = s]
Settled(s) == IF s \in {"failed", "removing", "removed"} THEN s ELSE "stopped"

Fault == faults < MaxFaults /\ faults' = faults + 1
NoFault == UNCHANGED faults

-----------------------------------------------------------------------------
(* The provider.                                                              *)

\* instanceOptions: a fresh loopback address for every Agent object.
Reserve == addrs < MaxAddrs /\ addrs' = addrs + 1

CreateWithOptions(i) ==
    /\ Live(i) => mem[i].removed /\ Calls(i) = {}
    /\ Reserve
    /\ mem' = [mem EXCEPT ![i] = NewAgent(addrs', BaseMounts, SpecMounts)]
    /\ SetStatus(i, "pulling")
    /\ raced' = raced \ {i}
    /\ UNCHANGED <<tree, pc, loc, proc, faults, crashes, published>>

\* What is read back from agent.yaml: no address and no credentials. An empty
\* file parses, into a descriptor without mounts.
LoadRuntime(t) == Descriptor(0, FALSE, t.ymounts)

\* Neither overrides nor per-instance options are given to a recovered Agent,
\* and it counts as materialised.
loadAgent(i, addr) ==
    IF tree[i].yaml = None THEN None
    ELSE [NewAgent(addr, <<>>, <<>>) EXCEPT
            !.initialized = TRUE, !.loaded = TRUE,
            !.rt = LoadRuntime(tree[i])]

\* Load runs when the daemon starts. An agent that cannot be loaded is reported
\* and skipped, so the others are recovered. Each takes its own address.
Load ==
    LET found == {i \in Ids : tree[i].yaml # None}
    IN  /\ \A i \in Ids : ~Live(i)
        /\ found # {}
        /\ addrs + Cardinality(found) <= MaxAddrs
        /\ addrs' = addrs + Cardinality(found)
        /\ \E order \in [found -> 1 .. Cardinality(found)] :
              /\ \A i, j \in found : i # j => order[i] # order[j]
              /\ mem' = [i \in Ids |-> IF i \in found THEN loadAgent(i, addrs + order[i]) ELSE None]
        /\ status' = [i \in Ids |-> "pulling"]
        /\ UNCHANGED <<tree, pc, loc, proc, faults, crashes, published, raced>>

\* Destroy deletes the directories and stops nobody; it gives up at the first
\* directory it cannot delete, which is then left in pieces.
Destroy ==
    \E gone, bad \in SUBSET Ids :
        /\ \E i \in Ids : tree[i] # NoTree
        /\ bad \cap gone = {}
        /\ \/ bad = {} /\ gone = Ids /\ NoFault
           \/ Cardinality(bad) = 1 /\ Fault
        /\ tree' = [i \in Ids |-> IF i \in gone THEN NoTree
                                  ELSE IF i \in bad THEN Pieces(tree[i]) ELSE tree[i]]
        /\ published' = [i \in Ids |-> IF i \in gone \cup bad THEN None ELSE published[i]]
        /\ raced' = raced \cup {i \in gone \cup bad : Live(i)}
        /\ UNCHANGED <<mem, status, pc, loc, proc, addrs, crashes>>

-----------------------------------------------------------------------------
(* Prepare, Run and Start up to the materialisation.                          *)

\* The calls of an agent the daemon still has. Start is for a stopped or failed
\* one: in any other status, and so on a new or recovered agent, which is
\* pulling, it returns an error at once. Run reads no status; only one of them is
\* in flight, and another returns an error. Prepare may join it.
Call(t, i, op) ==
    /\ At(t, "idle") /\ op \in Makes[t] /\ Live(i) /\ ~mem[i].removed
    /\ \/ op = "Start" /\ status[i] \in {"stopped", "failed"} /\ Go(t, "resolve") /\ UNCHANGED status
       \/ op = "Run" /\ ~Running(i) /\ Go(t, "initialize") /\ SetStatus(i, "pulling")
       \/ op = "Prepare" /\ Go(t, "initialize") /\ UNCHANGED status
    /\ loc' = [loc EXCEPT ![t] = [NoLoc EXCEPT !.id = i, !.op = op]]
    /\ UNCHANGED <<tree, mem, proc, addrs, faults, crashes, published, raced>>

Return(t) ==
    /\ Go(t, "idle")
    /\ loc' = [loc EXCEPT ![t] = NoLoc]

\* Prepare has succeeded.
Proceed(t) == IF loc[t].op = "Prepare" THEN Return(t) ELSE Go(t, "spawn") /\ UNCHANGED loc

\* Mutant: Start skips the resolver.
reresolveNothing(t) ==
    /\ At(t, "resolve") /\ Go(t, "begin")
    /\ UNCHANGED <<tree, mem, status, loc, proc, addrs, faults, crashes, published, raced>>

\* Start resolves the credentials again, if there is a descriptor to put them in;
\* a resolver that fails ends the call.
reresolveCredentials(t) ==
    LET i == loc[t].id
    IN  /\ At(t, "resolve")
        /\ \/ /\ Go(t, "begin")
              /\ mem' = IF mem[i].rt = None THEN mem ELSE [mem EXCEPT ![i].rt.cred = TRUE]
              /\ NoFault /\ UNCHANGED <<status, loc>>
           \/ /\ mem[i].rt # None
              /\ Fault /\ SetStatus(i, "failed") /\ Return(t) /\ UNCHANGED mem
        /\ UNCHANGED <<tree, proc, addrs, crashes, published, raced>>

\* Start goes on as Run does, unless a Run was begun since it read the status.
beginRun(t) ==
    LET i == loc[t].id
    IN  /\ At(t, "begin")
        /\ IF Running(i) THEN Return(t) /\ UNCHANGED status
           ELSE Go(t, "initialize") /\ SetStatus(i, "pulling") /\ UNCHANGED loc
        /\ UNCHANGED <<tree, mem, proc, addrs, faults, crashes, published, raced>>

\* Mutant: initialize caches a failure, so that once an attempt has merged the
\* mounts the next one returns its error.
initializeOnce(t) ==
    LET i == loc[t].id
    IN  /\ At(t, "initialize")
        /\ IF mem[i].initialized THEN Proceed(t) /\ UNCHANGED <<status, published>>
           ELSE IF Len(mem[i].mounts) > Len(BaseMounts)
           THEN SetStatus(i, "failed") /\ Return(t) /\ UNCHANGED published
           ELSE Go(t, "load") /\ published' = [published EXCEPT ![i] = None] /\ UNCHANGED <<status, loc>>
        /\ UNCHANGED <<tree, mem, proc, addrs, faults, crashes, raced>>

\* The call joins a materialised agent, or materialises it: unlocked, so that
\* two calls may do so at once.
initialize(t) ==
    LET i == loc[t].id
    IN  /\ At(t, "initialize")
        /\ IF mem[i].initialized THEN Proceed(t) /\ UNCHANGED <<published, raced>>
           ELSE /\ Go(t, "load") /\ UNCHANGED loc
                /\ published' = [published EXCEPT ![i] = None]
                /\ raced' = IF Materialising(i) = {} THEN raced ELSE raced \cup {i}
        /\ UNCHANGED <<tree, mem, status, proc, addrs, faults, crashes>>

-----------------------------------------------------------------------------
(* workspace.materialize, step by step. A failing step ends the call; what it *)
(* has written stays, and the next call starts over.                          *)

\* A step that writes w(tree[i]) and goes on to the next label.
Step(t, from, to, newTree) ==
    /\ At(t, from) /\ Go(t, to)
    /\ tree' = [tree EXCEPT ![loc[t].id] = newTree]
    /\ UNCHANGED <<mem, status, loc, proc, addrs, faults, crashes, published, raced>>

\* Mutant: the executor's mounts override the spec's.
mergeMountsFirst(base, extra) == extra \o base

mergeMounts(base, extra) == base \o extra

\* afstore.Load, Validate and the overrides; the two mount channels become one
\* list, kept in the Agent's workspace: a retry appends the overrides again.
LoadArtifact(t) ==
    LET i == loc[t].id
    IN  /\ At(t, "load")
        /\ Go(t, "extract")
        /\ mem' = [mem EXCEPT ![i].mounts = mergeMounts(@, mem[i].overrides)]
        /\ UNCHANGED <<tree, status, loc, proc, addrs, faults, crashes, published, raced>>

\* The descriptor has the address of the Agent, its merged mounts and resolved
\* credentials.
buildRuntime(i) == Descriptor(mem[i].addr, TRUE, mem[i].mounts)

\* The directories, the layers and AGENT.md, then the descriptor.
extractLayers(t) ==
    LET i == loc[t].id
    IN  /\ At(t, "extract") /\ Go(t, "yamlOpen")
        /\ tree' = [tree EXCEPT ![i].content = TRUE]
        /\ loc' = [loc EXCEPT ![t].rt = buildRuntime(i)]
        /\ UNCHANGED <<mem, status, proc, addrs, faults, crashes, published, raced>>

\* util.WriteFile truncates agent.yaml before it writes it.
OpenYaml(t) == Step(t, "yamlOpen", "yamlWrite", [tree[loc[t].id] EXCEPT !.yaml = "empty", !.ymounts = <<>>])
WriteTo(t) == Step(t, "yamlWrite", "mounts", [tree[loc[t].id] EXCEPT !.yaml = "ok", !.ymounts = loc[t].rt.mounts])

\* Each link is removed and made again: the last mount of a target stays.
LinksOf(mounts) ==
    {mounts[k] : k \in {k \in DOMAIN mounts :
                          \A l \in DOMAIN mounts : l > k => mounts[l].target # mounts[k].target}}

Relink(links, mounts) ==
    {l \in links : \A k \in DOMAIN mounts : mounts[k].target # l.target} \cup LinksOf(mounts)

\* WORKSPACE.md, the links and MOUNTS.md, BIN symlinks and tool docs: what the
\* properties tell apart is the links.
applyMounts(t) ==
    Step(t, "mounts", "rtOpen",
         [tree[loc[t].id] EXCEPT !.links = Relink(@, mem[loc[t].id].mounts)])

\* pullBin opens with O_TRUNC and then pulls: between the two, and after a
\* failed pull, the file is there and empty (or cut short).
OpenRuntime(t) == Step(t, "rtOpen", "rtPull", [tree[loc[t].id] EXCEPT !.runtime = "empty"])
installRuntime(t) == Step(t, "rtPull", "binOpen", [tree[loc[t].id] EXCEPT !.runtime = "ok"])

OpenBin(t) ==
    LET i == loc[t].id
    IN  /\ At(t, "binOpen")
        /\ IF loc[t].done = Bins THEN Go(t, "publish") /\ UNCHANGED <<tree, loc>>
           ELSE \E b \in Bins \ loc[t].done :
                   /\ Go(t, "binPull")
                   /\ tree' = [tree EXCEPT ![i].bins[b] = "empty"]
                   /\ loc' = [loc EXCEPT ![t].bin = b]
        /\ UNCHANGED <<mem, status, proc, addrs, faults, crashes, published, raced>>

installTools(t) ==
    LET i == loc[t].id
    IN  /\ At(t, "binPull") /\ Go(t, "binOpen")
        /\ tree' = [tree EXCEPT ![i].bins[loc[t].bin] = "ok"]
        /\ loc' = [loc EXCEPT ![t].done = @ \cup {loc[t].bin}, ![t].bin = None]
        /\ UNCHANGED <<mem, status, proc, addrs, faults, crashes, published, raced>>

\* The first call to finish publishes its descriptor.
Publish(t) ==
    LET i == loc[t].id
    IN  /\ At(t, "publish")
        /\ Proceed(t)
        /\ IF mem[i].initialized THEN UNCHANGED <<mem, published>>
           ELSE /\ mem' = [mem EXCEPT ![i].initialized = TRUE, ![i].rt = loc[t].rt]
                /\ published' = [published EXCEPT ![i] = IF i \in raced THEN None ELSE loc[t].rt.mounts]
        /\ UNCHANGED <<tree, status, proc, addrs, faults, crashes, raced>>

\* Any step before the last may fail, and leaves what the ones before it wrote.
\* Prepare reports the failure, unless its context was cancelled: then a Run's
\* endRun settles the status.
StepFails(t) ==
    LET i == loc[t].id
    IN  /\ pc[t] \in MaterialisePC \ {"publish"}
        /\ Fault /\ Return(t)
        /\ \/ SetStatus(i, "failed")
           \/ SetStatus(i, IF loc[t].op = "Prepare" THEN status[i] ELSE Settled(status[i]))
        /\ UNCHANGED <<tree, mem, proc, addrs, crashes, published, raced>>

-----------------------------------------------------------------------------
(* The process, Remove and a crash.                                           *)

\* process.command and serve: --addr comes from the descriptor. A missing or
\* empty runtime binary does not start. The status is starting; the supervisor's
\* ready and working are not told apart from it.
Spawn(t) ==
    LET i == loc[t].id
    IN  /\ At(t, "spawn")
        /\ IF tree[i].runtime = "ok"
           THEN /\ proc' = [proc EXCEPT ![i] = [addr |-> mem[i].rt.addr, cred |-> mem[i].rt.cred,
                                                op |-> loc[t].op]]
                /\ Go(t, "serve") /\ SetStatus(i, "starting") /\ UNCHANGED loc
           ELSE Return(t) /\ SetStatus(i, "stopped") /\ UNCHANGED proc
        /\ UNCHANGED <<tree, mem, addrs, faults, crashes, published, raced>>

\* The process exits, by itself or because Stop cancelled the run.
ProcessExit(t) ==
    /\ At(t, "serve") /\ Return(t)
    /\ proc' = [proc EXCEPT ![loc[t].id] = None]
    /\ SetStatus(loc[t].id, Settled(status[loc[t].id]))
    /\ UNCHANGED <<tree, mem, addrs, faults, crashes, published, raced>>

\* Remove waits for a Run, not for a Prepare, and deletes the workspace; when
\* that fails, part of it stays, and the agent is left removing. The daemon makes
\* no further call of an agent it has removed.
Remove(i) ==
    /\ Live(i) /\ ~mem[i].removed /\ ~Running(i)
    /\ \/ /\ tree' = [tree EXCEPT ![i] = NoTree]
          /\ mem' = [mem EXCEPT ![i].removed = TRUE]
          /\ SetStatus(i, "removed") /\ NoFault
       \/ /\ tree' = [tree EXCEPT ![i] = Pieces(@)]
          /\ SetStatus(i, "removing") /\ Fault /\ UNCHANGED mem
    /\ published' = [published EXCEPT ![i] = None]
    /\ raced' = raced \cup {i}
    /\ UNCHANGED <<pc, loc, proc, addrs, crashes>>

\* The daemon ends, at any point. The trees stay.
Crash ==
    /\ crashes < MaxCrashes /\ crashes' = crashes + 1
    /\ \E i \in Ids : Live(i)
    /\ mem' = [i \in Ids |-> None]
    /\ status' = [i \in Ids |-> "pulling"]
    /\ pc' = [t \in Threads |-> "idle"]
    /\ loc' = [t \in Threads |-> NoLoc]
    /\ proc' = [i \in Ids |-> None]
    /\ raced' = {}
    /\ UNCHANGED <<tree, addrs, faults, published>>

-----------------------------------------------------------------------------
MaterialiseStep(t) ==
    \/ LoadArtifact(t) \/ extractLayers(t) \/ OpenYaml(t) \/ WriteTo(t)
    \/ applyMounts(t) \/ OpenRuntime(t) \/ installRuntime(t)
    \/ OpenBin(t) \/ installTools(t) \/ Publish(t)

ThreadStep(t) ==
    \/ reresolveCredentials(t) \/ beginRun(t) \/ initialize(t)
    \/ MaterialiseStep(t) \/ Spawn(t)

Provider == Load \/ Destroy \/ \E i \in Ids : CreateWithOptions(i)

Next ==
    \/ Provider
    \/ \E t \in Threads :
          \/ ThreadStep(t) \/ StepFails(t) \/ ProcessExit(t)
          \/ \E i \in Ids, op \in {"Prepare", "Run", "Start"} : Call(t, i, op)
    \/ \E i \in Ids : Remove(i)
    \/ Crash

Spec == Init /\ [][Next]_vars

\* A call that is under way goes on, and somebody starts a stopped or failed
\* agent again and again: the operator who fixed providers.yaml. Faults end
\* (MaxFaults).
Retry == \E t \in Threads, i \in Ids : Call(t, i, "Start")
FairSpec ==
    /\ Spec
    /\ \A t \in Threads : WF_vars(ThreadStep(t))
    /\ SF_vars(Retry)

-----------------------------------------------------------------------------
(* Properties.                                                                *)

Requested == BaseMounts \o SpecMounts

\* What a prepared agent finds on disk, whatever attempts came before: every
\* file in full, and each mount target linked to the host path that was asked
\* for last, the spec's before the executor's.
Complete(i) ==
    /\ tree[i].content /\ tree[i].yaml = "ok" /\ tree[i].runtime = "ok"
    /\ \A b \in Bins : tree[i].bins[b] = "ok"
    /\ tree[i].links = LinksOf(Requested)
    /\ MountsOf(tree[i].ymounts) = MountsOf(Requested)

\* An agent that counts as materialised has a complete workspace and the
\* descriptor that was published for it: after failed attempts, and after a
\* crash and a Load that was given neither its overrides nor its mounts. The
\* workspace must have been finished once, by one call at a time.
PreparedIsComplete ==
    \A i \in Ids :
        Live(i) /\ mem[i].initialized /\ published[i] # None /\ i \notin raced =>
            Complete(i) /\ mem[i].rt.mounts = published[i]

\* agent.yaml keeps no credentials: a process still has them, unless it was
\* Run, not Started, on an agent recovered by Load.
SpawnsWithCredentials ==
    \A i \in Ids : proc[i] # None => proc[i].cred \/ (proc[i].op = "Run" /\ mem[i].loaded)

\* The runtime listens where Addr() says, which is where Prompt and Probe dial.
ServesAtAddr == \A i \in Ids : proc[i] # None => proc[i].addr = mem[i].addr

\* "Failures are not cached" (initialize, agent.go:295-297): an agent that failed
\* before it was materialised is materialised in the end, if it is started again
\* and nobody removes it. Start's guard must let every failed agent through, and
\* beginRun, a racing Run or Prepare, and what the failed attempt left on disk
\* must not stand in the way. executor/agent.go:28-29 says of Prepare that
\* "repeat calls return the same error"; the code does what initialize says.
RetryUnsticks ==
    \A i \in Ids :
        Live(i) /\ ~mem[i].initialized /\ status[i] = "failed"
            ~> ~Live(i) \/ mem[i].removed \/ status[i] = "removing" \/ mem[i].initialized
=============================================================================
