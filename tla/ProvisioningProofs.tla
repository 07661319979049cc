------------------------ MODULE ProvisioningProofs ------------------------
(* Proofs about Provisioning, for any agents, callers, tools and mounts, and  *)
(* any number of faults and crashes.                                          *)
EXTENDS Provisioning, SequenceTheorems, FiniteSetTheorems, TLAPS

-----------------------------------------------------------------------------
(* Mount lists and the links they give.                                       *)

\* Linking a list after another is linking their concatenation.
LEMMA LinksOfConcat ==
    ASSUME NEW S, NEW a \in Seq(S), NEW b \in Seq(S)
    PROVE  LinksOf(a \o b) = Relink(LinksOf(a), b)
<1> DEFINE c == a \o b
           n == Len(a)
           m == Len(b)
<1>1. /\ n \in Nat /\ m \in Nat /\ DOMAIN a = 1 .. n /\ DOMAIN b = 1 .. m /\ DOMAIN c = 1 .. (n + m)
  BY LenProperties, ConcatProperties
<1>2. /\ \A k \in 1 .. n : c[k] = a[k]
      /\ \A j \in 1 .. m : c[n + j] = b[j]
  BY <1>1
<1> HIDE DEF c, n, m
<1>3. ASSUME NEW x \in LinksOf(c) PROVE x \in Relink(LinksOf(a), b)
  <2>1. PICK k \in DOMAIN c : x = c[k] /\ \A l \in DOMAIN c : l > k => c[l].target # c[k].target
    BY DEF LinksOf
  <2>2. CASE k <= n
    <3>1. k \in DOMAIN a /\ x = a[k]
      BY <1>1, <1>2, <2>1, <2>2
    <3>2. \A l \in DOMAIN a : l > k => a[l].target # a[k].target
      BY <1>1, <1>2, <2>1, <3>1
    <3>3. \A j \in DOMAIN b : b[j].target # x.target
      <4> TAKE j \in DOMAIN b
      <4>1. n + j \in DOMAIN c /\ n + j > k
        BY <1>1, <2>1, <2>2
      <4> QED BY <1>1, <1>2, <2>1, <4>1
    <3> QED BY <3>1, <3>2, <3>3 DEF LinksOf, Relink
  <2>3. CASE k > n
    <3>1. k - n \in DOMAIN b /\ n + (k - n) = k
      BY <1>1, <2>1, <2>3
    <3>2. x = b[k - n]
      BY <1>1, <1>2, <2>1, <3>1
    <3>3. \A j \in DOMAIN b : j > k - n => b[j].target # b[k - n].target
      <4> TAKE j \in DOMAIN b
      <4> HAVE j > k - n
      <4>1. n + j \in DOMAIN c /\ n + j > k
        BY <1>1, <2>1, <2>3
      <4> QED BY <1>1, <1>2, <2>1, <3>2, <4>1
    <3> QED BY <3>1, <3>2, <3>3 DEF LinksOf, Relink
  <2> QED BY <1>1, <2>1, <2>2, <2>3
<1>4. ASSUME NEW x \in Relink(LinksOf(a), b) PROVE x \in LinksOf(c)
  <2>1. CASE x \in LinksOf(a) /\ \A j \in DOMAIN b : b[j].target # x.target
    <3>1. PICK k \in DOMAIN a : x = a[k] /\ \A l \in DOMAIN a : l > k => a[l].target # a[k].target
      BY <2>1 DEF LinksOf
    <3>2. k \in DOMAIN c /\ x = c[k]
      BY <1>1, <1>2, <3>1
    <3>3. \A l \in DOMAIN c : l > k => c[l].target # c[k].target
      <4> TAKE l \in DOMAIN c
      <4> HAVE l > k
      <4>1. CASE l <= n
        BY <1>1, <1>2, <3>1, <3>2, <4>1
      <4>2. CASE l > n
        <5>1. l - n \in DOMAIN b /\ n + (l - n) = l
          BY <1>1, <4>2
        <5>2. c[l] = b[l - n]
          BY <1>1, <1>2, <5>1
        <5> QED BY <2>1, <3>2, <5>1, <5>2
      <4> QED BY <1>1, <4>1, <4>2
    <3> QED BY <3>2, <3>3 DEF LinksOf
  <2>2. CASE x \in LinksOf(b)
    <3>1. PICK j \in DOMAIN b : x = b[j] /\ \A l \in DOMAIN b : l > j => b[l].target # b[j].target
      BY <2>2 DEF LinksOf
    <3>2. n + j \in DOMAIN c /\ x = c[n + j]
      BY <1>1, <1>2, <3>1
    <3>3. \A l \in DOMAIN c : l > n + j => c[l].target # c[n + j].target
      <4> TAKE l \in DOMAIN c
      <4> HAVE l > n + j
      <4>1. l - n \in DOMAIN b /\ n + (l - n) = l /\ l - n > j
        BY <1>1, <3>1
      <4>2. c[l] = b[l - n]
        BY <1>1, <1>2, <4>1
      <4> QED BY <3>1, <3>2, <4>1, <4>2
    <3> QED BY <3>2, <3>3 DEF LinksOf
  <2> QED BY <1>4, <2>1, <2>2 DEF Relink
<1> QED BY <1>3, <1>4 DEF c

\* The mounts of two lists together are those of either.
LEMMA MountsOfConcat ==
    ASSUME NEW S, NEW a \in Seq(S), NEW b \in Seq(S)
    PROVE  MountsOf(a \o b) = MountsOf(a) \cup MountsOf(b)
<1> DEFINE c == a \o b
           n == Len(a)
           m == Len(b)
<1>1. /\ n \in Nat /\ m \in Nat /\ DOMAIN a = 1 .. n /\ DOMAIN b = 1 .. m /\ DOMAIN c = 1 .. (n + m)
  BY LenProperties, ConcatProperties
<1>2. /\ \A k \in 1 .. n : c[k] = a[k]
      /\ \A j \in 1 .. m : c[n + j] = b[j]
  BY <1>1
<1> HIDE DEF c, n, m
<1>3. \A k \in 1 .. (n + m) : k \in 1 .. n \/ (k - n \in 1 .. m /\ n + (k - n) = k)
  BY <1>1
<1>4. ASSUME NEW x \in MountsOf(c) PROVE x \in MountsOf(a) \cup MountsOf(b)
  <2>1. PICK k \in 1 .. (n + m) : x = c[k]
    BY <1>1, <1>4 DEF MountsOf
  <2> QED BY <1>1, <1>2, <1>3, <2>1 DEF MountsOf
<1>5. ASSUME NEW x \in MountsOf(a) PROVE x \in MountsOf(c)
  <2>1. PICK k \in 1 .. n : x = a[k]
    BY <1>1, <1>5 DEF MountsOf
  <2>2. k \in 1 .. (n + m)
    BY <1>1
  <2> QED BY <1>1, <1>2, <2>1, <2>2 DEF MountsOf
<1>6. ASSUME NEW x \in MountsOf(b) PROVE x \in MountsOf(c)
  <2>1. PICK k \in 1 .. m : x = b[k]
    BY <1>1, <1>6 DEF MountsOf
  <2>2. n + k \in 1 .. (n + m)
    BY <1>1
  <2> QED BY <1>1, <1>2, <2>1, <2>2 DEF MountsOf
<1> QED BY <1>4, <1>5, <1>6 DEF c

\* Linking a list twice is linking it once.
LEMMA RelinkTwice ==
    ASSUME NEW links, NEW b PROVE Relink(Relink(links, b), b) = Relink(links, b)
BY DEF Relink, LinksOf

\* Links whose targets are all in the list do not survive it.
LEMMA RelinkAll ==
    ASSUME NEW links, NEW b, \A x \in links : \E k \in DOMAIN b : b[k].target = x.target
    PROVE  Relink(links, b) = LinksOf(b)
BY DEF Relink

\* A list that asks for what the two mount channels ask for, however often a
\* retry has appended the overrides.
Merged(ms) ==
    /\ ms \in Seq(Mounts)
    /\ LinksOf(ms) = LinksOf(Requested) /\ MountsOf(ms) = MountsOf(Requested)

-----------------------------------------------------------------------------
(* The inductive invariant.                                                   *)

Files == {None, "empty", "ok"}
Trees == [content : BOOLEAN, yaml : Files, ymounts : Seq(Mounts), runtime : Files,
          bins : [Bins -> Files], links : SUBSET MountsOf(Requested)]
Ops == {"Prepare", "Run", "Start"}
Locals == [id : Ids \cup {None}, op : Ops \cup {None}, rt : Descriptors \cup {None},
           bin : Bins \cup {None}, done : SUBSET Bins]
Processes == [addr : Nat, cred : BOOLEAN, op : Ops]
Phases == MaterialisePC \cup {"idle", "resolve", "begin", "initialize", "spawn", "serve"}

TypeInv ==
    /\ tree \in [Ids -> Trees]
    /\ mem \in [Ids -> Agents \cup {None}]
    /\ pc \in [Threads -> Phases]
    /\ loc \in [Threads -> Locals]
    /\ proc \in [Ids -> Processes \cup {None}]
    /\ addrs \in Nat
    /\ published \in [Ids -> Seq(Mounts) \cup {None}]

\* An Agent object: where its descriptor and its mounts come from.
AgentInv(i) ==
    Live(i) =>
        /\ mem[i].initialized => mem[i].rt # None
        /\ mem[i].rt # None => mem[i].rt.cred \/ mem[i].loaded
        /\ mem[i].loaded => mem[i].initialized
        /\ ~mem[i].loaded => /\ mem[i].overrides = SpecMounts
                             /\ mem[i].mounts = BaseMounts \/ Merged(mem[i].mounts)
        /\ mem[i].initialized /\ published[i] # None => mem[i].rt.mounts = published[i]

\* A workspace that was finished and not touched since.
DiskInv(i) ==
    published[i] # None =>
        i \notin raced /\ Complete(i) /\ tree[i].ymounts = published[i]

\* The phases of a materialisation after each of its steps.
AfterBins == {"publish"}
AfterRuntime == {"binOpen", "binPull"} \cup AfterBins
AfterMounts == {"rtOpen", "rtPull"} \cup AfterRuntime
AfterYaml == {"mounts"} \cup AfterMounts
AfterExtract == {"yamlOpen", "yamlWrite"} \cup AfterYaml
AfterLoad == {"extract"} \cup AfterExtract
BeforeBins == {"resolve", "begin", "initialize", "load"} \cup (AfterLoad \ AfterRuntime)

\* What a call in phase l with local variables v can rely on.
CallInv(l, v) ==
    l # "idle" =>
        /\ v.id \in Ids /\ v.op \in Ops /\ Live(v.id)
        /\ v.op = "Start" /\ l # "resolve" /\ mem[v.id].rt # None => mem[v.id].rt.cred
        /\ l \in BeforeBins => v.done = {}
        /\ l \in {"spawn", "serve"} => v.op # "Prepare" /\ mem[v.id].initialized

\* What it has of its own while it materialises.
MaterialInv(l, v) ==
    l \in MaterialisePC =>
        /\ published[v.id] = None /\ ~mem[v.id].loaded
        /\ v.id \notin raced => ~mem[v.id].initialized
        /\ l \in AfterLoad => Merged(mem[v.id].mounts)
        /\ l \in AfterExtract => v.rt # None /\ v.rt.cred /\ MountsOf(v.rt.mounts) = MountsOf(Requested)
        /\ l = "binPull" => v.bin \in Bins
        /\ l \in AfterBins => v.done = Bins

\* What it finds on disk, if nobody has interfered.
WrittenInv(l, v) ==
    l \in MaterialisePC /\ v.id \notin raced =>
        /\ l \in AfterExtract => tree[v.id].content
        /\ l \in AfterYaml => tree[v.id].yaml = "ok" /\ tree[v.id].ymounts = v.rt.mounts
        /\ l \in AfterMounts => tree[v.id].links = LinksOf(Requested)
        /\ l \in AfterRuntime => tree[v.id].runtime = "ok"
        /\ l \in AfterRuntime => \A b \in v.done : tree[v.id].bins[b] = "ok"

ThreadInv(t) ==
    CallInv(pc[t], loc[t]) /\ MaterialInv(pc[t], loc[t]) /\ WrittenInv(pc[t], loc[t])

\* Two materialisations of one agent are a race.
RaceInv ==
    \A t, u \in Threads :
        pc[t] \in MaterialisePC /\ pc[u] \in MaterialisePC /\ loc[t].id = loc[u].id /\ t # u =>
            loc[t].id \in raced

\* A process is supervised by a call.
ProcessInv(i) ==
    proc[i] # None =>
        /\ Live(i)
        /\ \E t \in Threads : pc[t] = "serve" /\ loc[t].id = i

IInv ==
    /\ TypeInv /\ RaceInv /\ SpawnsWithCredentials
    /\ \A i \in Ids : AgentInv(i) /\ DiskInv(i) /\ ProcessInv(i)
    /\ \A t \in Threads : ThreadInv(t)

-----------------------------------------------------------------------------
(* The constants.                                                             *)

\* What ProvisioningAssumption says of the constants.
LEMMA Constants ==
    /\ BaseMounts \in Seq(Mounts) /\ SpecMounts \in Seq(Mounts) /\ Requested \in Seq(Mounts)
    /\ None \notin Descriptors /\ None \notin Agents
    /\ MaxAddrs \in Nat /\ IsFiniteSet(Ids)
BY ProvisioningAssumption, ConcatProperties DEF Requested

\* The list of the first materialisation is merged.
LEMMA MergedRequested == Merged(Requested)
BY Constants DEF Merged

\* Appending the overrides once more asks for nothing new.
LEMMA MergedAgain == ASSUME NEW ms, Merged(ms) PROVE Merged(ms \o SpecMounts)
<1>1. ms \in Seq(Mounts) /\ SpecMounts \in Seq(Mounts) /\ BaseMounts \in Seq(Mounts)
  BY Constants DEF Merged
<1>2. ms \o SpecMounts \in Seq(Mounts)
  BY <1>1, ConcatProperties
<1>3. LinksOf(ms \o SpecMounts) = LinksOf(Requested)
  <2>1. LinksOf(ms \o SpecMounts) = Relink(LinksOf(ms), SpecMounts)
    BY <1>1, LinksOfConcat
  <2>2. LinksOf(ms) = Relink(LinksOf(BaseMounts), SpecMounts)
    BY <1>1, LinksOfConcat DEF Merged, Requested
  <2>3. LinksOf(Requested) = Relink(LinksOf(BaseMounts), SpecMounts)
    BY <1>1, LinksOfConcat DEF Requested
  <2> QED BY <2>1, <2>2, <2>3, RelinkTwice
<1>4. MountsOf(ms \o SpecMounts) = MountsOf(Requested)
  <2>1. MountsOf(ms \o SpecMounts) = MountsOf(ms) \cup MountsOf(SpecMounts)
    BY <1>1, MountsOfConcat
  <2>2. MountsOf(Requested) = MountsOf(BaseMounts) \cup MountsOf(SpecMounts)
    BY <1>1, MountsOfConcat DEF Requested
  <2> QED BY <2>1, <2>2 DEF Merged
<1> QED BY <1>2, <1>3, <1>4 DEF Merged

\* Whatever earlier attempts have linked, a merged list gives the links that
\* were asked for.
LEMMA RelinkMerged ==
    ASSUME NEW ms, Merged(ms), NEW links \in SUBSET MountsOf(Requested)
    PROVE  Relink(links, ms) = LinksOf(Requested)
<1>1. \A x \in links : \E k \in DOMAIN ms : ms[k].target = x.target
  BY DEF Merged, MountsOf
<1> QED BY <1>1, RelinkAll DEF Merged

\* A link is a mount of the list.
LEMMA LinksAreMounts == ASSUME NEW ms PROVE LinksOf(ms) \subseteq MountsOf(ms)
BY DEF LinksOf, MountsOf

-----------------------------------------------------------------------------
(* A call that moves, and writes to the workspace it materialises.            *)

\* Only thread t moves.
Moves(t) ==
    /\ pc' \in [Threads -> Phases] /\ loc' \in [Threads -> Locals]
    /\ \A u \in Threads : u # t => pc'[u] = pc[u] /\ loc'[u] = loc[u]

\* Workspaces are written only by a call that materialises them.
Writes(t) ==
    /\ tree' \in [Ids -> Trees]
    /\ \A j \in Ids : tree'[j] = tree[j] \/ (pc[t] \in MaterialisePC /\ j = loc[t].id)
    /\ UNCHANGED <<mem, proc, addrs, published, raced>>

\* A step of a materialisation that writes the tree and leaves the Agent
\* alone.
LEMMA WriteStep ==
    ASSUME IInv, NEW t \in Threads, Moves(t), Writes(t), pc[t] # "serve", ThreadInv(t)',
           pc'[t] \in MaterialisePC => pc[t] \in MaterialisePC /\ loc'[t].id = loc[t].id
    PROVE  IInv'
<1>1. /\ TypeInv /\ RaceInv /\ SpawnsWithCredentials
      /\ \A i \in Ids : AgentInv(i) /\ DiskInv(i) /\ ProcessInv(i)
      /\ \A u \in Threads : ThreadInv(u)
  BY DEF IInv
<1>2. TypeInv'
  BY <1>1 DEF TypeInv, Moves, Writes
<1>3. RaceInv'
  BY <1>1 DEF RaceInv, Moves, Writes
<1>4. SpawnsWithCredentials'
  BY <1>1 DEF SpawnsWithCredentials, Writes
<1>5. ASSUME NEW i \in Ids PROVE AgentInv(i)' /\ DiskInv(i)' /\ ProcessInv(i)'
  <2>1. AgentInv(i)'
    BY <1>1 DEF AgentInv, Live, Writes
  <2>2. DiskInv(i)'
    <3>1. published[i] # None => tree'[i] = tree[i]
      BY <1>1 DEF Writes, ThreadInv, MaterialInv
    <3> QED BY <1>1, <3>1 DEF DiskInv, Complete, Writes
  <2>3. ProcessInv(i)'
    BY <1>1 DEF ProcessInv, Live, Moves, Writes
  <2> QED BY <2>1, <2>2, <2>3
<1>6. ASSUME NEW u \in Threads PROVE ThreadInv(u)'
  <2>1. CASE u = t
    BY <2>1
  <2>2. CASE u # t
    <3>1. ThreadInv(u) /\ pc'[u] = pc[u] /\ loc'[u] = loc[u]
      BY <1>1, <2>2 DEF Moves
    <3>2. CallInv(pc[u], loc[u])'
      BY <3>1 DEF ThreadInv, CallInv, Live, Writes
    <3>3. MaterialInv(pc[u], loc[u])'
      BY <3>1 DEF ThreadInv, MaterialInv, Writes
    <3>4. WrittenInv(pc[u], loc[u])'
      <4>1. pc[u] \in MaterialisePC /\ loc[u].id \notin raced => tree'[loc[u].id] = tree[loc[u].id]
        <5>1. pc[u] \in MaterialisePC => loc[u].id \in Ids
          BY <3>1 DEF ThreadInv, CallInv, MaterialisePC
        <5> QED BY <1>1, <2>2, <5>1 DEF Writes, RaceInv
      <4> QED BY <3>1, <4>1 DEF ThreadInv, WrittenInv, Writes
    <3> QED BY <3>2, <3>3, <3>4 DEF ThreadInv
  <2> QED BY <2>1, <2>2
<1> QED BY <1>2, <1>3, <1>4, <1>5, <1>6 DEF IInv

\* What a thread knows before its step.
LEMMA ThreadFacts ==
    ASSUME IInv, NEW t \in Threads
    PROVE  /\ TypeInv /\ CallInv(pc[t], loc[t]) /\ MaterialInv(pc[t], loc[t])
           /\ WrittenInv(pc[t], loc[t]) /\ loc[t] \in Locals
BY DEF IInv, ThreadInv, TypeInv

\* The local variables of a goroutine that is in no call.
LEMMA NoLocType == NoLoc \in Locals
BY DEF NoLoc, Locals

\* A call of Prepare, Run or Start.
LEMMA CallKeeps ==
    ASSUME IInv, NEW t \in Threads, NEW i \in Ids, NEW op \in Ops, Call(t, i, op) PROVE IInv'
<1>1. /\ TypeInv /\ CallInv(pc[t], loc[t]) /\ MaterialInv(pc[t], loc[t])
      /\ WrittenInv(pc[t], loc[t]) /\ loc[t] \in Locals
  BY ThreadFacts
<1>2. /\ pc[t] = "idle" /\ Live(i)
      /\ loc' = [loc EXCEPT ![t] = [NoLoc EXCEPT !.id = i, !.op = op]]
      /\ pc' = [pc EXCEPT ![t] = IF op = "Start" THEN "resolve" ELSE "initialize"]
      /\ UNCHANGED <<tree, mem, proc, addrs, published, raced>>
  BY DEF Call, At, Go
<1>3. [NoLoc EXCEPT !.id = i, !.op = op] \in Locals
  BY DEF NoLoc, Locals, Ops
<1>4. Moves(t)
  BY <1>1, <1>2, <1>3 DEF Moves, TypeInv, Phases
<1>5. Writes(t)
  BY <1>1, <1>2 DEF Writes, TypeInv
<1>6. /\ pc'[t] \in {"resolve", "initialize"} /\ loc'[t].id = i /\ loc'[t].op = op
      /\ loc'[t].done = {}
      /\ op = "Start" => pc'[t] = "resolve"
  BY <1>1, <1>2 DEF TypeInv, NoLoc
<1>7. ThreadInv(t)'
  BY <1>2, <1>6 DEF ThreadInv, CallInv, MaterialInv, WrittenInv, Live, Ops, MaterialisePC
<1> QED BY <1>2, <1>4, <1>5, <1>6, <1>7, WriteStep DEF MaterialisePC

\* A call that does not supervise a process returns.
LEMMA ReturnKeeps ==
    ASSUME IInv, NEW t \in Threads, pc[t] # "serve", Return(t),
           UNCHANGED <<tree, mem, proc, addrs, published, raced>>
    PROVE  IInv'
<1>1. /\ TypeInv /\ CallInv(pc[t], loc[t]) /\ MaterialInv(pc[t], loc[t])
      /\ WrittenInv(pc[t], loc[t]) /\ loc[t] \in Locals
  BY ThreadFacts
<1>2. Moves(t)
  BY <1>1, NoLocType DEF Return, Go, Moves, TypeInv, Phases
<1>3. Writes(t)
  BY <1>1 DEF Writes, TypeInv
<1>4. pc'[t] = "idle"
  BY <1>1 DEF Return, Go, TypeInv
<1>5. ThreadInv(t)'
  BY <1>4 DEF ThreadInv, CallInv, MaterialInv, WrittenInv, MaterialisePC
<1> QED BY <1>2, <1>3, <1>4, <1>5, WriteStep DEF MaterialisePC

\* A call goes on after its Prepare, or returns.
LEMMA ProceedMoves ==
    ASSUME TypeInv, NEW t \in Threads, Proceed(t)
    PROVE  /\ Moves(t)
           /\ pc'[t] = IF loc[t].op = "Prepare" THEN "idle" ELSE "spawn"
           /\ loc[t].op # "Prepare" => loc'[t] = loc[t]
BY NoLocType DEF Proceed, Return, Go, Moves, TypeInv, Phases

\* Any step of a materialisation may fail.
LEMMA StepFailsKeeps == ASSUME IInv, NEW t \in Threads, StepFails(t) PROVE IInv'
<1>1. pc[t] # "serve" /\ Return(t) /\ UNCHANGED <<tree, mem, proc, addrs, published, raced>>
  BY DEF StepFails, MaterialisePC
<1> QED BY <1>1, ReturnKeeps

\* The shape of a step that writes one thing.
LEMMA StepShape ==
    ASSUME IInv, NEW t \in Threads, NEW from \in MaterialisePC, NEW to \in MaterialisePC,
           NEW new \in Trees, Step(t, from, to, new)
    PROVE  /\ Moves(t) /\ Writes(t) /\ pc[t] = from /\ pc'[t] = to /\ loc' = loc
           /\ loc[t].id \in Ids /\ tree'[loc[t].id] = new
           /\ UNCHANGED <<mem, published, raced>>
<1>1. /\ TypeInv /\ CallInv(pc[t], loc[t]) /\ MaterialInv(pc[t], loc[t])
      /\ WrittenInv(pc[t], loc[t]) /\ loc[t] \in Locals
  BY ThreadFacts
<1>2. /\ pc[t] = from /\ pc' = [pc EXCEPT ![t] = to] /\ loc' = loc
      /\ tree' = [tree EXCEPT ![loc[t].id] = new]
      /\ UNCHANGED <<mem, proc, addrs, published, raced>>
  BY DEF Step, At, Go
<1>3. loc[t].id \in Ids
  BY <1>1, <1>2 DEF CallInv, MaterialisePC
<1>4. Moves(t) /\ pc'[t] = to
  BY <1>1, <1>2 DEF Moves, TypeInv, Phases
<1>5. Writes(t) /\ tree'[loc[t].id] = new
  BY <1>1, <1>2, <1>3 DEF Writes, TypeInv
<1> QED BY <1>2, <1>3, <1>4, <1>5

\* agent.yaml is truncated: the workspace is not finished, whatever it was.
LEMMA OpenYamlKeeps == ASSUME IInv, NEW t \in Threads, OpenYaml(t) PROVE IInv'
<1>1. /\ TypeInv /\ CallInv(pc[t], loc[t]) /\ MaterialInv(pc[t], loc[t])
      /\ WrittenInv(pc[t], loc[t]) /\ loc[t] \in Locals
  BY ThreadFacts
<1> DEFINE i == loc[t].id
           new == [tree[i] EXCEPT !.yaml = "empty", !.ymounts = <<>>]
<1>2. pc[t] = "yamlOpen" /\ i \in Ids /\ tree[i] \in Trees /\ mem[i] \in Agents
  BY <1>1 DEF OpenYaml, Step, At, CallInv, TypeInv, Live
<1>e. <<>> \in Seq(Mounts)
  OBVIOUS
<1>3. new \in Trees
  BY <1>1, <1>2, <1>e DEF Trees, Files, Locals, Descriptors, MaterialInv, AfterLoad, AfterExtract,
                          AfterYaml, AfterMounts, AfterRuntime, AfterBins, BeforeBins, MaterialisePC
<1>4. /\ Moves(t) /\ Writes(t) /\ pc'[t] = "yamlWrite" /\ loc' = loc /\ tree'[i] = new
      /\ UNCHANGED <<mem, published, raced>>
  <2>1. Step(t, "yamlOpen", "yamlWrite", new) /\ "yamlOpen" \in MaterialisePC /\ "yamlWrite" \in MaterialisePC
    BY DEF OpenYaml, MaterialisePC
  <2> HIDE DEF new
  <2> QED BY <1>3, <2>1, StepShape
<1>5. CallInv(pc[t], loc[t])'
  BY <1>1, <1>2, <1>4 DEF CallInv, Live, BeforeBins, AfterLoad, AfterExtract, AfterYaml, AfterMounts,
     AfterRuntime, AfterBins
<1>6. MaterialInv(pc[t], loc[t])'
  BY <1>1, <1>2, <1>4 DEF MaterialInv, AfterLoad, AfterExtract, AfterYaml, AfterMounts, AfterRuntime,
                          AfterBins, BeforeBins, MaterialisePC
<1>7. WrittenInv(pc[t], loc[t])'
  BY <1>1, <1>2, <1>4 DEF WrittenInv, CallInv, Trees, AfterLoad, AfterExtract, AfterYaml, AfterMounts,
                          AfterRuntime, AfterBins, BeforeBins, MaterialisePC
<1> QED BY <1>2, <1>4, <1>5, <1>6, <1>7, WriteStep DEF ThreadInv, MaterialisePC

\* Runtime.WriteTo fills agent.yaml from the descriptor it will publish.
LEMMA WriteToKeeps == ASSUME IInv, NEW t \in Threads, WriteTo(t) PROVE IInv'
<1>1. /\ TypeInv /\ CallInv(pc[t], loc[t]) /\ MaterialInv(pc[t], loc[t])
      /\ WrittenInv(pc[t], loc[t]) /\ loc[t] \in Locals
  BY ThreadFacts
<1> DEFINE i == loc[t].id
           new == [tree[i] EXCEPT !.yaml = "ok", !.ymounts = loc[t].rt.mounts]
<1>2. pc[t] = "yamlWrite" /\ i \in Ids /\ tree[i] \in Trees /\ mem[i] \in Agents
  BY <1>1 DEF WriteTo, Step, At, CallInv, TypeInv, Live
<1>3. new \in Trees
  BY <1>1, <1>2 DEF Trees, Files, Locals, Descriptors, MaterialInv, AfterLoad, AfterExtract, AfterYaml,
                    AfterMounts, AfterRuntime, AfterBins, BeforeBins, MaterialisePC
<1>4. /\ Moves(t) /\ Writes(t) /\ pc'[t] = "mounts" /\ loc' = loc /\ tree'[i] = new
      /\ UNCHANGED <<mem, published, raced>>
  <2>1. Step(t, "yamlWrite", "mounts", new) /\ "yamlWrite" \in MaterialisePC /\ "mounts" \in MaterialisePC
    BY DEF WriteTo, MaterialisePC
  <2> HIDE DEF new
  <2> QED BY <1>3, <2>1, StepShape
<1>5. CallInv(pc[t], loc[t])'
  BY <1>1, <1>2, <1>4 DEF CallInv, Live, BeforeBins, AfterLoad, AfterExtract, AfterYaml, AfterMounts,
     AfterRuntime, AfterBins
<1>6. MaterialInv(pc[t], loc[t])'
  BY <1>1, <1>2, <1>4 DEF MaterialInv, AfterLoad, AfterExtract, AfterYaml, AfterMounts, AfterRuntime,
                          AfterBins, BeforeBins, MaterialisePC
<1>7. WrittenInv(pc[t], loc[t])'
  BY <1>1, <1>2, <1>4 DEF WrittenInv, CallInv, Trees, AfterLoad, AfterExtract, AfterYaml, AfterMounts,
                          AfterRuntime, AfterBins, BeforeBins, MaterialisePC
<1> QED BY <1>2, <1>4, <1>5, <1>6, <1>7, WriteStep DEF ThreadInv, MaterialisePC

\* The links on disk become those that were asked for, whatever an earlier
\* attempt left.
LEMMA applyMountsKeeps == ASSUME IInv, NEW t \in Threads, applyMounts(t) PROVE IInv'
<1>1. /\ TypeInv /\ CallInv(pc[t], loc[t]) /\ MaterialInv(pc[t], loc[t])
      /\ WrittenInv(pc[t], loc[t]) /\ loc[t] \in Locals
  BY ThreadFacts
<1> DEFINE i == loc[t].id
           new == [tree[i] EXCEPT !.links = Relink(@, mem[i].mounts)]
<1>2. pc[t] = "mounts" /\ i \in Ids /\ tree[i] \in Trees /\ mem[i] \in Agents
  BY <1>1 DEF applyMounts, Step, At, CallInv, TypeInv, Live
<1>r. /\ Relink(tree[i].links, mem[i].mounts) = LinksOf(Requested)
      /\ LinksOf(Requested) \subseteq MountsOf(Requested)
  BY <1>1, <1>2, RelinkMerged, LinksAreMounts DEF MaterialInv, Trees, AfterLoad, AfterExtract, AfterYaml,
                                                  AfterMounts, AfterRuntime, AfterBins, BeforeBins,
                                                  MaterialisePC
<1>3. new \in Trees
  BY <1>1, <1>2, <1>r DEF Trees, Files, Locals, Descriptors, MaterialInv, AfterLoad, AfterExtract,
                          AfterYaml, AfterMounts, AfterRuntime, AfterBins, BeforeBins, MaterialisePC
<1>4. /\ Moves(t) /\ Writes(t) /\ pc'[t] = "rtOpen" /\ loc' = loc /\ tree'[i] = new
      /\ UNCHANGED <<mem, published, raced>>
  <2>1. Step(t, "mounts", "rtOpen", new) /\ "mounts" \in MaterialisePC /\ "rtOpen" \in MaterialisePC
    BY DEF applyMounts, MaterialisePC
  <2> HIDE DEF new
  <2> QED BY <1>3, <2>1, StepShape
<1>5. CallInv(pc[t], loc[t])'
  BY <1>1, <1>2, <1>4 DEF CallInv, Live, BeforeBins, AfterLoad, AfterExtract, AfterYaml, AfterMounts,
     AfterRuntime, AfterBins
<1>6. MaterialInv(pc[t], loc[t])'
  BY <1>1, <1>2, <1>4 DEF MaterialInv, AfterLoad, AfterExtract, AfterYaml, AfterMounts, AfterRuntime,
                          AfterBins, BeforeBins, MaterialisePC
<1>7. WrittenInv(pc[t], loc[t])'
  BY <1>1, <1>2, <1>4, <1>r DEF WrittenInv, Trees, AfterLoad, AfterExtract, AfterYaml, AfterMounts,
                                AfterRuntime, AfterBins, BeforeBins, MaterialisePC
<1> QED BY <1>2, <1>4, <1>5, <1>6, <1>7, WriteStep DEF ThreadInv, MaterialisePC

\* The runtime binary is opened with O_TRUNC.
LEMMA OpenRuntimeKeeps == ASSUME IInv, NEW t \in Threads, OpenRuntime(t) PROVE IInv'
<1>1. /\ TypeInv /\ CallInv(pc[t], loc[t]) /\ MaterialInv(pc[t], loc[t])
      /\ WrittenInv(pc[t], loc[t]) /\ loc[t] \in Locals
  BY ThreadFacts
<1> DEFINE i == loc[t].id
           new == [tree[i] EXCEPT !.runtime = "empty"]
<1>2. pc[t] = "rtOpen" /\ i \in Ids /\ tree[i] \in Trees /\ mem[i] \in Agents
  BY <1>1 DEF OpenRuntime, Step, At, CallInv, TypeInv, Live
<1>3. new \in Trees
  BY <1>1, <1>2 DEF Trees, Files, Locals, Descriptors, MaterialInv, AfterLoad, AfterExtract, AfterYaml,
                    AfterMounts, AfterRuntime, AfterBins, BeforeBins, MaterialisePC
<1>4. /\ Moves(t) /\ Writes(t) /\ pc'[t] = "rtPull" /\ loc' = loc /\ tree'[i] = new
      /\ UNCHANGED <<mem, published, raced>>
  <2>1. Step(t, "rtOpen", "rtPull", new) /\ "rtOpen" \in MaterialisePC /\ "rtPull" \in MaterialisePC
    BY DEF OpenRuntime, MaterialisePC
  <2> HIDE DEF new
  <2> QED BY <1>3, <2>1, StepShape
<1>5. CallInv(pc[t], loc[t])'
  BY <1>1, <1>2, <1>4 DEF CallInv, Live, BeforeBins, AfterLoad, AfterExtract, AfterYaml, AfterMounts,
     AfterRuntime, AfterBins
<1>6. MaterialInv(pc[t], loc[t])'
  BY <1>1, <1>2, <1>4 DEF MaterialInv, AfterLoad, AfterExtract, AfterYaml, AfterMounts, AfterRuntime,
                          AfterBins, BeforeBins, MaterialisePC
<1>7. WrittenInv(pc[t], loc[t])'
  BY <1>1, <1>2, <1>4 DEF WrittenInv, CallInv, Trees, AfterLoad, AfterExtract, AfterYaml, AfterMounts,
                          AfterRuntime, AfterBins, BeforeBins, MaterialisePC
<1> QED BY <1>2, <1>4, <1>5, <1>6, <1>7, WriteStep DEF ThreadInv, MaterialisePC

\* The runtime binary is pulled in full.
LEMMA installRuntimeKeeps == ASSUME IInv, NEW t \in Threads, installRuntime(t) PROVE IInv'
<1>1. /\ TypeInv /\ CallInv(pc[t], loc[t]) /\ MaterialInv(pc[t], loc[t])
      /\ WrittenInv(pc[t], loc[t]) /\ loc[t] \in Locals
  BY ThreadFacts
<1> DEFINE i == loc[t].id
           new == [tree[i] EXCEPT !.runtime = "ok"]
<1>2. pc[t] = "rtPull" /\ i \in Ids /\ tree[i] \in Trees /\ mem[i] \in Agents
  BY <1>1 DEF installRuntime, Step, At, CallInv, TypeInv, Live
<1>3. new \in Trees
  BY <1>1, <1>2 DEF Trees, Files, Locals, Descriptors, MaterialInv, AfterLoad, AfterExtract, AfterYaml,
                    AfterMounts, AfterRuntime, AfterBins, BeforeBins, MaterialisePC
<1>4. /\ Moves(t) /\ Writes(t) /\ pc'[t] = "binOpen" /\ loc' = loc /\ tree'[i] = new
      /\ UNCHANGED <<mem, published, raced>>
  <2>1. Step(t, "rtPull", "binOpen", new) /\ "rtPull" \in MaterialisePC /\ "binOpen" \in MaterialisePC
    BY DEF installRuntime, MaterialisePC
  <2> HIDE DEF new
  <2> QED BY <1>3, <2>1, StepShape
<1>5. CallInv(pc[t], loc[t])'
  BY <1>1, <1>2, <1>4 DEF CallInv, Live, BeforeBins, AfterLoad, AfterExtract, AfterYaml, AfterMounts,
     AfterRuntime, AfterBins
<1>6. MaterialInv(pc[t], loc[t])'
  BY <1>1, <1>2, <1>4 DEF MaterialInv, AfterLoad, AfterExtract, AfterYaml, AfterMounts, AfterRuntime,
                          AfterBins, BeforeBins, MaterialisePC
<1>7. WrittenInv(pc[t], loc[t])'
  BY <1>1, <1>2, <1>4 DEF WrittenInv, CallInv, Trees, AfterLoad, AfterExtract, AfterYaml, AfterMounts,
                          AfterRuntime, AfterBins, BeforeBins, MaterialisePC
<1> QED BY <1>2, <1>4, <1>5, <1>6, <1>7, WriteStep DEF ThreadInv, MaterialisePC

\* The descriptor is built from the merged mounts.
LEMMA extractLayersKeeps == ASSUME IInv, NEW t \in Threads, extractLayers(t) PROVE IInv'
<1>1. /\ TypeInv /\ CallInv(pc[t], loc[t]) /\ MaterialInv(pc[t], loc[t])
      /\ WrittenInv(pc[t], loc[t]) /\ loc[t] \in Locals
  BY ThreadFacts
<1> DEFINE i == loc[t].id
           rt == buildRuntime(i)
<1>2. pc[t] = "extract" /\ i \in Ids /\ tree[i] \in Trees /\ mem[i] \in Agents
  BY <1>1 DEF extractLayers, At, CallInv, TypeInv, Live
<1>3. rt \in Descriptors /\ rt # None /\ rt.cred /\ rt.mounts = mem[i].mounts
  <2>1. rt = [addr |-> mem[i].addr, cred |-> TRUE, mounts |-> mem[i].mounts]
    BY DEF buildRuntime, Descriptor
  <2>2. mem[i].addr \in Nat /\ mem[i].mounts \in Seq(Mounts)
    BY <1>2 DEF Agents
  <2>3. rt \in Descriptors
    BY <2>1, <2>2 DEF Descriptors
  <2>4. rt.cred /\ rt.mounts = mem[i].mounts
    BY <2>1
  <2> QED BY <2>3, <2>4, Constants
<1>4. /\ pc' = [pc EXCEPT ![t] = "yamlOpen"] /\ loc' = [loc EXCEPT ![t].rt = rt]
      /\ tree' = [tree EXCEPT ![i].content = TRUE]
      /\ UNCHANGED <<mem, proc, addrs, published, raced>>
  BY DEF extractLayers, Go
<1> HIDE DEF rt
<1>5. Moves(t)
  BY <1>1, <1>3, <1>4 DEF Moves, TypeInv, Phases, MaterialisePC, Locals
<1>6. Writes(t)
  <2>1. [tree[i] EXCEPT !.content = TRUE] \in Trees
    BY <1>2 DEF Trees
  <2> QED BY <1>1, <1>2, <1>4, <2>1 DEF Writes, TypeInv, MaterialisePC
<1>7. /\ pc'[t] = "yamlOpen" /\ loc'[t].rt = rt /\ tree'[i].content = TRUE
      /\ loc'[t].id = i /\ loc'[t].op = loc[t].op /\ loc'[t].done = loc[t].done
  BY <1>1, <1>2, <1>4 DEF TypeInv, Locals, Trees
<1>8. CallInv(pc[t], loc[t])'
  BY <1>1, <1>2, <1>4, <1>7 DEF CallInv, Live, AfterLoad, AfterExtract, AfterYaml, AfterMounts,
                                AfterRuntime, AfterBins, BeforeBins, MaterialisePC
<1>9. MaterialInv(pc[t], loc[t])'
  BY <1>1, <1>2, <1>3, <1>4, <1>7 DEF MaterialInv, Merged, AfterLoad, AfterExtract, AfterYaml, AfterMounts,
                                      AfterRuntime, AfterBins, BeforeBins, MaterialisePC
<1>10. WrittenInv(pc[t], loc[t])'
  BY <1>1, <1>2, <1>4, <1>7 DEF WrittenInv, AfterLoad, AfterExtract, AfterYaml, AfterMounts, AfterRuntime,
                                AfterBins, BeforeBins, MaterialisePC
<1> QED BY <1>2, <1>5, <1>6, <1>7, <1>8, <1>9, <1>10, WriteStep DEF ThreadInv, MaterialisePC

\* The next tool is opened, or all are there.
LEMMA OpenBinKeeps == ASSUME IInv, NEW t \in Threads, OpenBin(t) PROVE IInv'
<1>1. /\ TypeInv /\ CallInv(pc[t], loc[t]) /\ MaterialInv(pc[t], loc[t])
      /\ WrittenInv(pc[t], loc[t]) /\ loc[t] \in Locals
  BY ThreadFacts
<1> DEFINE i == loc[t].id
<1>2. pc[t] = "binOpen" /\ i \in Ids /\ tree[i] \in Trees /\ mem[i] \in Agents
  BY <1>1 DEF OpenBin, At, CallInv, TypeInv, Live
<1>3. UNCHANGED <<mem, proc, addrs, published, raced>>
  BY DEF OpenBin
<1>4. CASE loc[t].done = Bins
  <2>1. pc' = [pc EXCEPT ![t] = "publish"] /\ tree' = tree /\ loc' = loc
    BY <1>4 DEF OpenBin, Go
  <2>2. Moves(t) /\ Writes(t) /\ pc'[t] = "publish"
    BY <1>1, <1>3, <2>1 DEF Moves, Writes, TypeInv, Phases, MaterialisePC
  <2>3. CallInv(pc[t], loc[t])'
    BY <1>1, <1>2, <1>3, <2>1, <2>2 DEF CallInv, Live, AfterLoad, AfterExtract, AfterYaml, AfterMounts,
                                        AfterRuntime, AfterBins, BeforeBins, MaterialisePC
  <2>4. MaterialInv(pc[t], loc[t])'
    BY <1>1, <1>2, <1>3, <1>4, <2>1, <2>2 DEF MaterialInv, AfterLoad, AfterExtract, AfterYaml, AfterMounts,
                                              AfterRuntime, AfterBins, BeforeBins, MaterialisePC
  <2>5. WrittenInv(pc[t], loc[t])'
    BY <1>1, <1>2, <1>3, <2>1, <2>2 DEF WrittenInv, AfterLoad, AfterExtract, AfterYaml, AfterMounts,
                                        AfterRuntime, AfterBins, BeforeBins, MaterialisePC
  <2> QED BY <1>2, <2>1, <2>2, <2>3, <2>4, <2>5, WriteStep DEF ThreadInv, MaterialisePC
<1>5. CASE loc[t].done # Bins
  <2>1. PICK b \in Bins \ loc[t].done :
           /\ pc' = [pc EXCEPT ![t] = "binPull"]
           /\ tree' = [tree EXCEPT ![i].bins[b] = "empty"]
           /\ loc' = [loc EXCEPT ![t].bin = b]
    BY <1>5 DEF OpenBin, Go
  <2>2. Moves(t)
    BY <1>1, <2>1 DEF Moves, TypeInv, Phases, MaterialisePC, Locals
  <2>3. Writes(t)
    <3>1. [tree[i] EXCEPT !.bins[b] = "empty"] \in Trees
      BY <1>2, <2>1 DEF Trees, Files
    <3> QED BY <1>1, <1>2, <1>3, <2>1, <3>1 DEF Writes, TypeInv, MaterialisePC
  <2>4. /\ pc'[t] = "binPull" /\ loc'[t].bin = b
        /\ loc'[t].id = i /\ loc'[t].op = loc[t].op /\ loc'[t].done = loc[t].done
        /\ loc'[t].rt = loc[t].rt
    BY <1>1, <2>1 DEF TypeInv, Locals
  <2>5. /\ tree'[i].content = tree[i].content /\ tree'[i].yaml = tree[i].yaml
        /\ tree'[i].ymounts = tree[i].ymounts /\ tree'[i].links = tree[i].links
        /\ tree'[i].runtime = tree[i].runtime
        /\ \A x \in loc[t].done : tree'[i].bins[x] = tree[i].bins[x]
    BY <1>1, <1>2, <2>1 DEF TypeInv, Trees, Locals
  <2>6. CallInv(pc[t], loc[t])'
    BY <1>1, <1>2, <1>3, <2>4 DEF CallInv, Live, AfterLoad, AfterExtract, AfterYaml, AfterMounts,
                                  AfterRuntime, AfterBins, BeforeBins, MaterialisePC
  <2>7. MaterialInv(pc[t], loc[t])'
    BY <1>1, <1>2, <1>3, <2>4 DEF MaterialInv, AfterLoad, AfterExtract, AfterYaml, AfterMounts,
                                  AfterRuntime, AfterBins, BeforeBins, MaterialisePC
  <2>8. WrittenInv(pc[t], loc[t])'
    BY <1>1, <1>2, <1>3, <2>4, <2>5 DEF WrittenInv, AfterLoad, AfterExtract, AfterYaml, AfterMounts,
                                        AfterRuntime, AfterBins, BeforeBins, MaterialisePC
  <2> QED BY <1>2, <2>2, <2>3, <2>4, <2>6, <2>7, <2>8, WriteStep DEF ThreadInv, MaterialisePC
<1> QED BY <1>4, <1>5

\* A BIN is pulled in full and counts as done from then on.
LEMMA installToolsKeeps == ASSUME IInv, NEW t \in Threads, installTools(t) PROVE IInv'
<1>1. /\ TypeInv /\ CallInv(pc[t], loc[t]) /\ MaterialInv(pc[t], loc[t])
      /\ WrittenInv(pc[t], loc[t]) /\ loc[t] \in Locals
  BY ThreadFacts
<1> DEFINE i == loc[t].id
           b == loc[t].bin
<1>2. pc[t] = "binPull" /\ i \in Ids /\ tree[i] \in Trees /\ mem[i] \in Agents
  BY <1>1 DEF installTools, At, CallInv, TypeInv, Live
<1>3. b \in Bins
  BY <1>1, <1>2 DEF MaterialInv, MaterialisePC, Locals
<1>4. /\ pc' = [pc EXCEPT ![t] = "binOpen"]
      /\ tree' = [tree EXCEPT ![i].bins[b] = "ok"]
      /\ loc' = [loc EXCEPT ![t].done = @ \cup {b}, ![t].bin = None]
      /\ UNCHANGED <<mem, proc, addrs, published, raced>>
  BY DEF installTools, Go
<1>5. loc'[t].done = loc[t].done \cup {b} /\ loc' \in [Threads -> Locals]
  BY <1>1, <1>3, <1>4 DEF TypeInv, Locals
<1>6. /\ pc'[t] = "binOpen" /\ loc'[t].id = i /\ loc'[t].op = loc[t].op
      /\ loc'[t].rt = loc[t].rt
      /\ \A u \in Threads : u # t => loc'[u] = loc[u]
  BY <1>1, <1>4 DEF TypeInv, Locals
<1>7. /\ tree'[i].content = tree[i].content /\ tree'[i].yaml = tree[i].yaml
      /\ tree'[i].ymounts = tree[i].ymounts /\ tree'[i].links = tree[i].links
      /\ tree'[i].runtime = tree[i].runtime /\ tree'[i].bins[b] = "ok"
      /\ \A x \in loc[t].done : x # b => tree'[i].bins[x] = tree[i].bins[x]
  BY <1>1, <1>2, <1>3, <1>4 DEF TypeInv, Trees, Locals
<1>8. Moves(t)
  BY <1>1, <1>4, <1>5, <1>6 DEF Moves, TypeInv, Phases, MaterialisePC
<1>9. Writes(t)
  <2>1. [tree[i] EXCEPT !.bins[b] = "ok"] \in Trees
    BY <1>2, <1>3 DEF Trees, Files
  <2> QED BY <1>1, <1>2, <1>4, <2>1 DEF Writes, TypeInv, MaterialisePC
<1>10. CallInv(pc[t], loc[t])'
  BY <1>1, <1>2, <1>4, <1>6 DEF CallInv, Live, AfterLoad, AfterExtract, AfterYaml, AfterMounts,
                                AfterRuntime, AfterBins, BeforeBins, MaterialisePC
<1>11. MaterialInv(pc[t], loc[t])'
  BY <1>1, <1>2, <1>4, <1>6 DEF MaterialInv, AfterLoad, AfterExtract, AfterYaml, AfterMounts, AfterRuntime,
                                AfterBins, BeforeBins, MaterialisePC
<1>12. WrittenInv(pc[t], loc[t])'
  BY <1>1, <1>2, <1>4, <1>5, <1>6, <1>7 DEF WrittenInv, AfterLoad, AfterExtract, AfterYaml, AfterMounts,
                                            AfterRuntime, AfterBins, BeforeBins, MaterialisePC
<1> QED BY <1>2, <1>6, <1>8, <1>9, <1>10, <1>11, <1>12, WriteStep DEF ThreadInv, MaterialisePC

-----------------------------------------------------------------------------
(* A call that changes its Agent object.                                      *)

\* Nothing another call of agent i relies on is taken back.
Grows(i) ==
    /\ mem' \in [Ids -> Agents \cup {None}] /\ mem'[i] \in Agents
    /\ \A j \in Ids : j # i => mem'[j] = mem[j] /\ published'[j] = published[j]
    /\ published' \in [Ids -> Seq(Mounts) \cup {None}]
    /\ mem'[i].loaded = mem[i].loaded
    /\ mem[i].initialized => mem'[i].initialized
    /\ mem[i].rt = None \/ mem[i].rt.cred => mem'[i].rt = None \/ mem'[i].rt.cred
    /\ Merged(mem[i].mounts) => Merged(mem'[i].mounts)
    /\ UNCHANGED <<tree, proc, addrs, raced>>

\* A step that changes the Agent of its own call and at most finishes a
\* workspace.
LEMMA AgentStep ==
    ASSUME IInv, NEW t \in Threads, NEW i \in Ids, i = loc[t].id, Live(i),
           Moves(t), Grows(i), pc[t] # "serve",
           pc'[t] \in MaterialisePC => pc[t] \in MaterialisePC /\ loc'[t].id = loc[t].id,
           \A u \in Threads : u # t /\ pc[u] \in MaterialisePC /\ loc[u].id = i =>
               published'[i] = None /\ (i \notin raced => ~mem'[i].initialized),
           AgentInv(i)', DiskInv(i)', ThreadInv(t)'
    PROVE  IInv'
<1>1. /\ TypeInv /\ RaceInv /\ SpawnsWithCredentials
      /\ \A j \in Ids : AgentInv(j) /\ DiskInv(j) /\ ProcessInv(j)
      /\ \A u \in Threads : ThreadInv(u)
  BY DEF IInv
<1>2. TypeInv'
  BY <1>1 DEF TypeInv, Moves, Grows
<1>3. RaceInv'
  BY <1>1 DEF RaceInv, Moves, Grows
<1>4. SpawnsWithCredentials'
  BY <1>1 DEF SpawnsWithCredentials, Grows
<1>5. \A j \in Ids : Live(j) => Live(j)'
  BY Constants DEF Live, Grows
<1>6. ASSUME NEW j \in Ids PROVE AgentInv(j)' /\ DiskInv(j)' /\ ProcessInv(j)'
  <2>1. ProcessInv(j)'
    BY <1>1, <1>5 DEF ProcessInv, Moves, Grows
  <2>2. CASE j = i
    BY <2>1, <2>2
  <2>3. CASE j # i
    <3>1. mem'[j] = mem[j] /\ published'[j] = published[j] /\ tree' = tree /\ raced' = raced
      BY <2>3 DEF Grows
    <3>2. AgentInv(j)'
      BY <1>1, <3>1 DEF AgentInv, Live
    <3>3. DiskInv(j)'
      BY <1>1, <3>1 DEF DiskInv, Complete
    <3> QED BY <2>1, <3>2, <3>3
  <2> QED BY <2>2, <2>3
<1>7. ASSUME NEW u \in Threads PROVE ThreadInv(u)'
  <2>1. CASE u = t
    BY <2>1
  <2>2. CASE u # t
    <3>1. ThreadInv(u) /\ pc'[u] = pc[u] /\ loc'[u] = loc[u]
      BY <1>1, <2>2 DEF Moves
    <3>2. CallInv(pc[u], loc[u])'
      <4>1. CASE pc[u] = "idle"
        BY <3>1, <4>1 DEF CallInv
      <4>2. CASE loc[u].id = i
        BY <1>5, <3>1, <4>2 DEF ThreadInv, CallInv, Grows
      <4>3. CASE pc[u] # "idle" /\ loc[u].id # i
        BY <1>5, <3>1, <4>3 DEF ThreadInv, CallInv, Grows
      <4> QED BY <4>1, <4>2, <4>3
    <3>3. MaterialInv(pc[u], loc[u])'
      <4>1. CASE pc[u] \notin MaterialisePC
        BY <3>1, <4>1 DEF MaterialInv
      <4>2. CASE pc[u] \in MaterialisePC /\ loc[u].id = i
        BY <2>2, <3>1, <4>2 DEF ThreadInv, MaterialInv, Grows
      <4>3. CASE pc[u] \in MaterialisePC /\ loc[u].id # i
        <5>1. loc[u].id \in Ids
          BY <3>1, <4>3 DEF ThreadInv, CallInv, MaterialisePC
        <5> QED BY <3>1, <4>3, <5>1 DEF ThreadInv, MaterialInv, Grows
      <4> QED BY <4>1, <4>2, <4>3
    <3>4. WrittenInv(pc[u], loc[u])'
      BY <3>1 DEF ThreadInv, WrittenInv, Grows
    <3> QED BY <3>2, <3>3, <3>4 DEF ThreadInv
  <2> QED BY <2>1, <2>2
<1> QED BY <1>2, <1>3, <1>4, <1>6, <1>7 DEF IInv

\* What is known of the agent a call is about.
LEMMA AgentFacts ==
    ASSUME IInv, NEW t \in Threads, pc[t] # "idle"
    PROVE  /\ loc[t].id \in Ids /\ Live(loc[t].id) /\ mem[loc[t].id] \in Agents
           /\ AgentInv(loc[t].id) /\ DiskInv(loc[t].id)
           /\ tree[loc[t].id] \in Trees
BY DEF IInv, TypeInv, ThreadInv, CallInv, Live

\* The step of a resolver that succeeds.
Resolves(t) ==
    LET i == loc[t].id
    IN  /\ pc[t] = "resolve" /\ pc' = [pc EXCEPT ![t] = "begin"] /\ loc' = loc
        /\ mem' = IF mem[i].rt = None THEN mem ELSE [mem EXCEPT ![i].rt.cred = TRUE]
        /\ UNCHANGED <<tree, proc, addrs, published, raced>>

\* It puts the credentials into the descriptor, if there is one.
LEMMA ResolvesKeeps == ASSUME IInv, NEW t \in Threads, Resolves(t) PROVE IInv'
<1>1. /\ TypeInv /\ CallInv(pc[t], loc[t]) /\ MaterialInv(pc[t], loc[t])
      /\ WrittenInv(pc[t], loc[t]) /\ loc[t] \in Locals
  BY ThreadFacts
<1> DEFINE i == loc[t].id
<1>2. /\ pc[t] = "resolve" /\ pc' = [pc EXCEPT ![t] = "begin"] /\ loc' = loc
      /\ mem' = IF mem[i].rt = None THEN mem ELSE [mem EXCEPT ![i].rt.cred = TRUE]
      /\ UNCHANGED <<tree, proc, addrs, published, raced>>
  BY DEF Resolves
<1>3. i \in Ids /\ Live(i) /\ mem[i] \in Agents /\ AgentInv(i) /\ DiskInv(i)
  BY <1>2, AgentFacts
<1>4. Moves(t) /\ pc'[t] = "begin"
  BY <1>1, <1>2 DEF Moves, TypeInv, Phases
<1>5. CASE mem[i].rt = None
  <2>1. mem' = mem
    BY <1>2, <1>5
  <2>2. Writes(t)
    BY <1>1, <1>2, <2>1 DEF Writes, TypeInv
  <2>3. ThreadInv(t)'
    BY <1>1, <1>2, <1>4, <1>5, <2>1 DEF ThreadInv, CallInv, MaterialInv, WrittenInv, Live, AfterLoad,
                                        AfterExtract, AfterYaml, AfterMounts, AfterRuntime, AfterBins,
                                        BeforeBins, MaterialisePC
  <2> QED BY <1>2, <1>4, <2>2, <2>3, WriteStep DEF MaterialisePC
<1>6. CASE mem[i].rt # None
  <2>1. mem[i].rt \in Descriptors
    BY <1>3, <1>6 DEF Agents
  <2>2. mem' = [mem EXCEPT ![i].rt.cred = TRUE]
    BY <1>2, <1>6
  <2>3. [mem[i].rt EXCEPT !.cred = TRUE] \in Descriptors
    BY <2>1 DEF Descriptors
  <2>4. [mem[i] EXCEPT !.rt.cred = TRUE] \in Agents
    BY <1>3, <2>3 DEF Agents
  <2>5. mem'[i] = [mem[i] EXCEPT !.rt.cred = TRUE]
    BY <1>1, <1>3, <2>2 DEF TypeInv
  <2>6. mem'[i].rt = [mem[i].rt EXCEPT !.cred = TRUE]
    BY <1>3, <2>5 DEF Agents
  <2>7. mem'[i].rt.cred = TRUE /\ mem'[i].rt.mounts = mem[i].rt.mounts
    BY <2>1, <2>6 DEF Descriptors
  <2>8. /\ mem'[i].loaded = mem[i].loaded /\ mem'[i].initialized = mem[i].initialized
        /\ mem'[i].mounts = mem[i].mounts /\ mem'[i].overrides = mem[i].overrides
    BY <1>3, <2>5 DEF Agents
  <2>9. Grows(i)
    BY <1>1, <1>2, <1>3, <2>2, <2>4, <2>5, <2>7, <2>8 DEF Grows, TypeInv
  <2>10. mem'[i].rt # None
    BY <2>3, <2>6, Constants
  <2>11. AgentInv(i)'
    BY <1>2, <1>3, <2>7, <2>8, <2>10 DEF AgentInv, Merged
  <2>12. DiskInv(i)'
    BY <1>2, <1>3 DEF DiskInv, Complete
  <2>13. ThreadInv(t)'
    <3>1. Live(i)'
      BY <1>2, <2>4, <2>5, Constants DEF Live
    <3> QED BY <1>1, <1>2, <1>4, <2>7, <3>1
         DEF ThreadInv, CallInv, MaterialInv, WrittenInv, AfterLoad, AfterExtract, AfterYaml, AfterMounts,
             AfterRuntime, AfterBins, BeforeBins, MaterialisePC
  <2>14. \A u \in Threads : u # t /\ pc[u] \in MaterialisePC /\ loc[u].id = i =>
            published'[i] = None /\ (i \notin raced => ~mem'[i].initialized)
    BY <1>2, <2>8 DEF IInv, ThreadInv, MaterialInv
  <2> QED BY <1>2, <1>3, <1>4, <2>9, <2>11, <2>12, <2>13, <2>14, AgentStep DEF MaterialisePC
<1> QED BY <1>5, <1>6

\* Start resolves the credentials again, or fails.
LEMMA reresolveKeeps == ASSUME IInv, NEW t \in Threads, reresolveCredentials(t) PROVE IInv'
<1>1. pc[t] = "resolve" /\ UNCHANGED <<tree, proc, addrs, published, raced>>
  BY DEF reresolveCredentials, At
<1>2. Resolves(t) \/ (Return(t) /\ UNCHANGED mem)
  BY DEF reresolveCredentials, Resolves, At, Go
<1> QED BY <1>1, <1>2, ResolvesKeeps, ReturnKeeps

\* Start becomes a Run, or finds another under way.
LEMMA beginRunKeeps == ASSUME IInv, NEW t \in Threads, beginRun(t) PROVE IInv'
<1>1. /\ TypeInv /\ CallInv(pc[t], loc[t]) /\ MaterialInv(pc[t], loc[t])
      /\ WrittenInv(pc[t], loc[t]) /\ loc[t] \in Locals
  BY ThreadFacts
<1>2. pc[t] = "begin" /\ UNCHANGED <<tree, mem, proc, addrs, published, raced>>
  BY DEF beginRun, At
<1>3. CASE Return(t)
  BY <1>2, <1>3, ReturnKeeps
<1>4. CASE Go(t, "initialize") /\ loc' = loc
  <2>1. Moves(t) /\ pc'[t] = "initialize"
    BY <1>1, <1>4 DEF Go, Moves, TypeInv, Phases
  <2>2. Writes(t)
    BY <1>1, <1>2 DEF Writes, TypeInv
  <2>3. ThreadInv(t)'
    BY <1>1, <1>2, <1>4, <2>1 DEF ThreadInv, CallInv, MaterialInv, WrittenInv, Live, BeforeBins, MaterialisePC
  <2> QED BY <1>2, <2>1, <2>2, <2>3, WriteStep DEF MaterialisePC
<1> QED BY <1>3, <1>4 DEF beginRun

\* The overrides are appended, for the first time or once more.
LEMMA LoadArtifactKeeps == ASSUME IInv, NEW t \in Threads, LoadArtifact(t) PROVE IInv'
<1>1. /\ TypeInv /\ CallInv(pc[t], loc[t]) /\ MaterialInv(pc[t], loc[t])
      /\ WrittenInv(pc[t], loc[t]) /\ loc[t] \in Locals
  BY ThreadFacts
<1> DEFINE i == loc[t].id
           ms == mem[i].mounts \o mem[i].overrides
<1>2. /\ pc[t] = "load" /\ pc' = [pc EXCEPT ![t] = "extract"] /\ loc' = loc
      /\ mem' = [mem EXCEPT ![i].mounts = ms]
      /\ UNCHANGED <<tree, proc, addrs, published, raced>>
  BY DEF LoadArtifact, At, Go, mergeMounts
<1>3. i \in Ids /\ Live(i) /\ mem[i] \in Agents /\ AgentInv(i) /\ DiskInv(i)
  BY <1>2, AgentFacts
<1>4. Moves(t) /\ pc'[t] = "extract"
  BY <1>1, <1>2 DEF Moves, TypeInv, Phases, MaterialisePC
<1>5. ~mem[i].loaded /\ published[i] = None
  BY <1>1, <1>2 DEF MaterialInv, MaterialisePC
<1>6. Merged(ms)
  <2>1. mem[i].overrides = SpecMounts /\ (mem[i].mounts = BaseMounts \/ Merged(mem[i].mounts))
    BY <1>3, <1>5 DEF AgentInv
  <2> QED BY <2>1, MergedRequested, MergedAgain DEF Requested
<1> HIDE DEF ms
<1>7. [mem[i] EXCEPT !.mounts = ms] \in Agents
  BY <1>3, <1>6 DEF Agents, Merged
<1>8. mem'[i] = [mem[i] EXCEPT !.mounts = ms]
  BY <1>1, <1>2, <1>3 DEF TypeInv
<1>9. /\ mem'[i].loaded = mem[i].loaded /\ mem'[i].initialized = mem[i].initialized
      /\ mem'[i].rt = mem[i].rt /\ mem'[i].overrides = mem[i].overrides /\ mem'[i].mounts = ms
  BY <1>3, <1>8 DEF Agents
<1>10. Grows(i)
  BY <1>1, <1>2, <1>3, <1>6, <1>7, <1>8, <1>9 DEF Grows, TypeInv
<1>11. AgentInv(i)' /\ DiskInv(i)'
  BY <1>2, <1>3, <1>5, <1>6, <1>9 DEF AgentInv, DiskInv, Merged
<1>12. Live(i)'
  BY <1>2, <1>7, <1>8, Constants DEF Live
<1>13. CallInv(pc[t], loc[t])'
  BY <1>1, <1>2, <1>4, <1>9, <1>12 DEF CallInv, AfterLoad, AfterExtract, AfterYaml, AfterMounts,
                                       AfterRuntime, AfterBins, BeforeBins, MaterialisePC
<1>14. MaterialInv(pc[t], loc[t])'
  BY <1>1, <1>2, <1>4, <1>6, <1>9 DEF MaterialInv, Merged, AfterLoad, AfterExtract, AfterYaml, AfterMounts,
                                      AfterRuntime, AfterBins, BeforeBins, MaterialisePC
<1>15. WrittenInv(pc[t], loc[t])'
  BY <1>1, <1>2, <1>4 DEF WrittenInv, AfterLoad, AfterExtract, AfterYaml, AfterMounts, AfterRuntime,
                          AfterBins, BeforeBins, MaterialisePC
<1>16. \A u \in Threads : u # t /\ pc[u] \in MaterialisePC /\ loc[u].id = i =>
          published'[i] = None /\ (i \notin raced => ~mem'[i].initialized)
  BY <1>2, <1>9 DEF IInv, ThreadInv, MaterialInv
<1> QED BY <1>2, <1>3, <1>4, <1>10, <1>11, <1>13, <1>14, <1>15, <1>16, AgentStep
      DEF ThreadInv, MaterialisePC

\* The workspace that is published is complete, or it was raced for.
LEMMA PublishKeeps == ASSUME IInv, NEW t \in Threads, Publish(t) PROVE IInv'
<1>1. /\ TypeInv /\ CallInv(pc[t], loc[t]) /\ MaterialInv(pc[t], loc[t])
      /\ WrittenInv(pc[t], loc[t]) /\ loc[t] \in Locals
  BY ThreadFacts
<1>i. PICK i : i = loc[t].id
  OBVIOUS
<1> USE <1>i
<1> DEFINE next == IF loc[t].op = "Prepare" THEN "idle" ELSE "spawn"
<1>2. /\ pc[t] = "publish" /\ Proceed(t) /\ UNCHANGED <<tree, proc, addrs, raced>>
  BY DEF Publish, At
<1>3. /\ i \in Ids /\ Live(i) /\ mem[i] \in Agents /\ AgentInv(i) /\ DiskInv(i)
      /\ tree[i] \in Trees
  BY <1>2, AgentFacts
<1>4. /\ Moves(t) /\ pc'[t] = next /\ next \in {"idle", "spawn"}
      /\ next = "spawn" => loc[t].op # "Prepare" /\ loc'[t] = loc[t]
  BY <1>1, <1>2, ProceedMoves
<1>5. /\ loc[t].rt \in Descriptors /\ loc[t].rt.cred /\ loc[t].done = Bins
      /\ MountsOf(loc[t].rt.mounts) = MountsOf(Requested)
      /\ ~mem[i].loaded /\ published[i] = None
  BY <1>1, <1>2 DEF MaterialInv, Locals, AfterLoad, AfterExtract, AfterYaml, AfterMounts, AfterRuntime,
                    AfterBins, BeforeBins, MaterialisePC
<1>6. CASE mem[i].initialized
  <2>1. UNCHANGED <<mem, published>>
    BY <1>6 DEF Publish
  <2>2. Writes(t)
    BY <1>1, <1>2, <2>1 DEF Writes, TypeInv
  <2>3. ThreadInv(t)'
    BY <1>1, <1>2, <1>4, <1>6, <2>1 DEF ThreadInv, CallInv, MaterialInv, WrittenInv, Live, AfterLoad,
                                        AfterExtract, AfterYaml, AfterMounts, AfterRuntime, AfterBins,
                                        BeforeBins, MaterialisePC
  <2> QED BY <1>2, <1>4, <2>2, <2>3, WriteStep DEF MaterialisePC
<1>7. CASE ~mem[i].initialized
  <2>1. /\ mem' = [mem EXCEPT ![i].initialized = TRUE, ![i].rt = loc[t].rt]
        /\ published' = [published EXCEPT ![i] = IF i \in raced THEN None ELSE loc[t].rt.mounts]
    BY <1>7 DEF Publish
  <2>2. mem'[i] = [mem[i] EXCEPT !.initialized = TRUE, !.rt = loc[t].rt]
    BY <1>1, <1>3, <2>1 DEF TypeInv
  <2>3. [mem[i] EXCEPT !.initialized = TRUE, !.rt = loc[t].rt] \in Agents
    BY <1>3, <1>5 DEF Agents
  <2>4. /\ mem'[i].initialized = TRUE /\ mem'[i].rt = loc[t].rt
        /\ mem'[i].loaded = mem[i].loaded /\ mem'[i].overrides = mem[i].overrides
        /\ mem'[i].mounts = mem[i].mounts
    BY <1>3, <2>2 DEF Agents
  <2>5. \A j \in Ids : j # i => mem'[j] = mem[j] /\ published'[j] = published[j]
    BY <1>1, <2>1 DEF TypeInv
  <2>6. /\ published'[i] = IF i \in raced THEN None ELSE loc[t].rt.mounts
        /\ published' \in [Ids -> Seq(Mounts) \cup {None}]
    BY <1>1, <1>3, <1>5, <2>1 DEF TypeInv, Descriptors
  <2>7. mem' \in [Ids -> Agents \cup {None}]
    <3>1. mem' = [mem EXCEPT ![i] = [mem[i] EXCEPT !.initialized = TRUE, !.rt = loc[t].rt]]
      BY <1>1, <1>3, <2>1 DEF TypeInv
    <3> QED BY <1>1, <2>3, <3>1 DEF TypeInv
  <2>8. Grows(i)
    BY <1>2, <1>5, <2>2, <2>3, <2>4, <2>5, <2>6, <2>7 DEF Grows
  <2>9. AgentInv(i)'
    BY <1>2, <1>3, <1>5, <2>4, <2>6, Constants DEF AgentInv, Merged
  <2>10. DiskInv(i)'
    <3>1. ASSUME i \notin raced
          PROVE  /\ tree[i].content /\ tree[i].yaml = "ok" /\ tree[i].runtime = "ok"
                 /\ \A b \in Bins : tree[i].bins[b] = "ok"
                 /\ tree[i].links = LinksOf(Requested)
                 /\ tree[i].ymounts = loc[t].rt.mounts
      BY <1>1, <1>2, <1>5, <3>1 DEF WrittenInv, AfterLoad, AfterExtract, AfterYaml, AfterMounts,
                                    AfterRuntime, AfterBins, BeforeBins, MaterialisePC
    <3> QED BY <1>2, <1>5, <2>6, <3>1 DEF DiskInv, Complete
  <2>11. Live(i)'
    BY <1>2, <2>2, <2>3, Constants DEF Live
  <2>12. ThreadInv(t)'
    BY <1>1, <1>2, <1>4, <1>5, <2>4, <2>11 DEF ThreadInv, CallInv, MaterialInv, WrittenInv, AfterLoad,
                                               AfterExtract, AfterYaml, AfterMounts, AfterRuntime,
                                               AfterBins, BeforeBins, MaterialisePC
  <2>13. \A u \in Threads : u # t /\ pc[u] \in MaterialisePC /\ loc[u].id = i =>
            published'[i] = None /\ (i \notin raced => ~mem'[i].initialized)
    <3>1. pc[t] \in MaterialisePC
      BY <1>2 DEF MaterialisePC
    <3> QED BY <2>6, <3>1 DEF IInv, RaceInv
  <2> QED BY <1>2, <1>3, <1>4, <2>8, <2>9, <2>10, <2>12, <2>13, AgentStep DEF MaterialisePC
<1> QED BY <1>6, <1>7

\* A call joins a finished workspace or begins another; then the old one is
\* no longer published, and a race is recorded.
LEMMA initializeKeeps == ASSUME IInv, NEW t \in Threads, initialize(t) PROVE IInv'
<1>1. /\ TypeInv /\ CallInv(pc[t], loc[t]) /\ MaterialInv(pc[t], loc[t])
      /\ WrittenInv(pc[t], loc[t]) /\ loc[t] \in Locals
  BY ThreadFacts
<1> DEFINE i == loc[t].id
<1>2. /\ pc[t] = "initialize" /\ UNCHANGED <<tree, mem, proc, addrs>>
  BY DEF initialize, At
<1>3. i \in Ids /\ Live(i) /\ mem[i] \in Agents /\ AgentInv(i) /\ DiskInv(i)
  BY <1>2, AgentFacts
<1>4. CASE mem[i].initialized
  <2> DEFINE next == IF loc[t].op = "Prepare" THEN "idle" ELSE "spawn"
  <2>1. Proceed(t) /\ UNCHANGED <<published, raced>>
    BY <1>4 DEF initialize
  <2>2. /\ Moves(t) /\ pc'[t] = next /\ next \in {"idle", "spawn"}
        /\ next = "spawn" => loc[t].op # "Prepare" /\ loc'[t] = loc[t]
    BY <1>1, <2>1, ProceedMoves
  <2>3. Writes(t)
    BY <1>1, <1>2, <2>1 DEF Writes, TypeInv
  <2>4. ThreadInv(t)'
    BY <1>1, <1>2, <1>4, <2>1, <2>2 DEF ThreadInv, CallInv, MaterialInv, WrittenInv, Live, AfterLoad,
                                        AfterExtract, AfterYaml, AfterMounts, AfterRuntime, AfterBins,
                                        BeforeBins, MaterialisePC
  <2> QED BY <1>2, <2>2, <2>3, <2>4, WriteStep DEF MaterialisePC
<1>5. CASE ~mem[i].initialized
  <2>1. /\ pc' = [pc EXCEPT ![t] = "load"] /\ loc' = loc
        /\ published' = [published EXCEPT ![i] = None]
        /\ raced' = IF Materialising(i) = {} THEN raced ELSE raced \cup {i}
    BY <1>5 DEF initialize, Go
  <2>2. Moves(t) /\ pc'[t] = "load"
    BY <1>1, <1>2, <2>1 DEF Moves, TypeInv, Phases, MaterialisePC
  <2>3. /\ raced \subseteq raced' /\ \A j \in Ids : j # i => (j \in raced' <=> j \in raced)
        /\ published'[i] = None /\ \A j \in Ids : j # i => published'[j] = published[j]
        /\ published' \in [Ids -> Seq(Mounts) \cup {None}]
    BY <1>1, <1>3, <2>1 DEF TypeInv
  <2>4. TypeInv'
    BY <1>1, <1>2, <2>2, <2>3 DEF TypeInv, Moves
  <2>5. RaceInv'
    <3>1. ASSUME NEW u \in Threads, u # t, pc[u] \in MaterialisePC, loc[u].id = i
          PROVE  i \in raced'
      <4>1. u \in Materialising(i)
        BY <3>1 DEF Materialising
      <4> QED BY <2>1, <4>1
    <3> QED BY <1>2, <2>1, <2>2, <2>3, <3>1 DEF IInv, RaceInv, Moves
  <2>6. SpawnsWithCredentials'
    BY <1>2 DEF IInv, SpawnsWithCredentials
  <2>7. ASSUME NEW j \in Ids PROVE AgentInv(j)' /\ DiskInv(j)' /\ ProcessInv(j)'
    <3>1. AgentInv(j) /\ DiskInv(j) /\ ProcessInv(j)
      BY DEF IInv
    <3>2. AgentInv(j)'
      BY <1>2, <2>3, <3>1 DEF AgentInv, Live, Merged
    <3>3. DiskInv(j)'
      BY <1>2, <2>3, <3>1 DEF DiskInv, Complete
    <3>4. ProcessInv(j)'
      BY <1>2, <2>2, <3>1 DEF ProcessInv, Live, Moves
    <3> QED BY <3>2, <3>3, <3>4
  <2>8. ASSUME NEW u \in Threads PROVE ThreadInv(u)'
    <3>1. CASE u = t
      <4>1. ~mem[i].loaded
        BY <1>3, <1>5 DEF AgentInv
      <4> QED BY <1>1, <1>2, <1>5, <2>1, <2>2, <2>3, <3>1, <4>1
           DEF ThreadInv, CallInv, MaterialInv, WrittenInv, Live, AfterLoad, AfterExtract, AfterYaml, AfterMounts,
               AfterRuntime, AfterBins, BeforeBins, MaterialisePC
    <3>2. CASE u # t
      <4>1. ThreadInv(u) /\ pc'[u] = pc[u] /\ loc'[u] = loc[u]
        BY <2>2, <3>2 DEF Moves, IInv
      <4>2. CallInv(pc[u], loc[u])'
        BY <1>2, <4>1 DEF ThreadInv, CallInv, Live
      <4>3. MaterialInv(pc[u], loc[u])'
        <5>1. pc[u] \in MaterialisePC => loc[u].id \in Ids
          BY <4>1 DEF ThreadInv, CallInv, MaterialisePC
        <5> QED BY <1>2, <2>3, <4>1, <5>1 DEF ThreadInv, MaterialInv, Merged
      <4>4. WrittenInv(pc[u], loc[u])'
        BY <1>2, <2>3, <4>1 DEF ThreadInv, WrittenInv
      <4> QED BY <4>2, <4>3, <4>4 DEF ThreadInv
    <3> QED BY <3>1, <3>2
  <2> QED BY <2>4, <2>5, <2>6, <2>7, <2>8 DEF IInv
<1> QED BY <1>4, <1>5

-----------------------------------------------------------------------------
(* The process.                                                               *)

\* A step that begins or ends a process and touches neither Agent nor tree.
LEMMA ProcessStep ==
    ASSUME IInv, NEW t \in Threads, Moves(t), UNCHANGED <<tree, mem, published, raced, addrs>>,
           proc' \in [Ids -> Processes \cup {None}], pc'[t] \notin MaterialisePC,
           ThreadInv(t)', SpawnsWithCredentials', \A j \in Ids : ProcessInv(j)'
    PROVE  IInv'
<1>1. TypeInv'
  BY DEF IInv, TypeInv, Moves
<1>2. RaceInv'
  BY DEF IInv, RaceInv, Moves
<1>3. ASSUME NEW j \in Ids PROVE AgentInv(j)' /\ DiskInv(j)'
  BY DEF IInv, AgentInv, DiskInv, Live, Complete, Merged
<1>4. ASSUME NEW u \in Threads PROVE ThreadInv(u)'
  <2>1. CASE u = t
    BY <2>1
  <2>2. CASE u # t
    <3>1. ThreadInv(u) /\ pc'[u] = pc[u] /\ loc'[u] = loc[u]
      BY <2>2 DEF Moves, IInv
    <3> QED BY <3>1 DEF ThreadInv, CallInv, MaterialInv, WrittenInv, Live, Merged
  <2> QED BY <2>1, <2>2
<1> QED BY <1>1, <1>2, <1>3, <1>4 DEF IInv

\* The process gets the credentials of the descriptor, which a Start has made
\* sure of and a Run of this process's own agent has built.
LEMMA SpawnKeeps == ASSUME IInv, NEW t \in Threads, Spawn(t) PROVE IInv'
<1>1. /\ TypeInv /\ CallInv(pc[t], loc[t]) /\ MaterialInv(pc[t], loc[t])
      /\ WrittenInv(pc[t], loc[t]) /\ loc[t] \in Locals
  BY ThreadFacts
<1> DEFINE i == loc[t].id
           p == [addr |-> mem[i].rt.addr, cred |-> mem[i].rt.cred, op |-> loc[t].op]
<1>2. pc[t] = "spawn" /\ UNCHANGED <<tree, mem, addrs, published, raced>>
  BY DEF Spawn, At
<1>3. i \in Ids /\ Live(i) /\ mem[i] \in Agents /\ AgentInv(i)
  BY <1>2, AgentFacts
<1>4. CASE tree[i].runtime = "ok"
  <2>1. proc' = [proc EXCEPT ![i] = p] /\ pc' = [pc EXCEPT ![t] = "serve"] /\ loc' = loc
    BY <1>4 DEF Spawn, Go
  <2>2. /\ mem[i].rt \in Descriptors /\ loc[t].op \in {"Run", "Start"}
        /\ loc[t].op = "Start" => mem[i].rt.cred
        /\ mem[i].rt.cred \/ mem[i].loaded
    BY <1>1, <1>2, <1>3 DEF CallInv, AgentInv, Agents, Ops
  <2>3. p \in Processes /\ p.cred = mem[i].rt.cred /\ p.op = loc[t].op
    BY <2>2 DEF Processes, Descriptors, Ops
  <2> HIDE DEF p
  <2>4. Moves(t) /\ pc'[t] = "serve" /\ proc' \in [Ids -> Processes \cup {None}]
    BY <1>1, <2>1, <2>3 DEF Moves, TypeInv, Phases
  <2>5. ThreadInv(t)'
    BY <1>1, <1>2, <2>1, <2>4 DEF ThreadInv, CallInv, MaterialInv, WrittenInv, Live, AfterLoad,
                                  AfterExtract, AfterYaml, AfterMounts, AfterRuntime, AfterBins, BeforeBins,
                                  MaterialisePC
  <2>6. proc'[i] = p /\ \A j \in Ids : j # i => proc'[j] = proc[j]
    BY <1>1, <1>3, <2>1 DEF TypeInv
  <2>7. SpawnsWithCredentials'
    BY <1>2, <2>2, <2>3, <2>6 DEF IInv, SpawnsWithCredentials
  <2>8. ASSUME NEW j \in Ids PROVE ProcessInv(j)'
    <3>1. CASE j = i
      BY <1>2, <1>3, <2>1, <2>4, <3>1 DEF ProcessInv, Live
    <3>2. CASE j # i
      <4>1. ProcessInv(j)
        BY DEF IInv
      <4> QED BY <1>2, <2>1, <2>4, <2>6, <3>2, <4>1 DEF ProcessInv, Live, Moves
    <3> QED BY <3>1, <3>2
  <2> QED BY <1>2, <2>4, <2>5, <2>7, <2>8, ProcessStep DEF MaterialisePC
<1>5. CASE tree[i].runtime # "ok"
  BY <1>2, <1>5, ReturnKeeps DEF Spawn
<1> QED BY <1>4, <1>5

\* The process ends and its call returns.
LEMMA ProcessExitKeeps == ASSUME IInv, NEW t \in Threads, ProcessExit(t) PROVE IInv'
<1>1. /\ TypeInv /\ CallInv(pc[t], loc[t]) /\ MaterialInv(pc[t], loc[t])
      /\ WrittenInv(pc[t], loc[t]) /\ loc[t] \in Locals
  BY ThreadFacts
<1> DEFINE i == loc[t].id
<1>2. /\ pc[t] = "serve" /\ UNCHANGED <<tree, mem, addrs, published, raced>>
      /\ pc' = [pc EXCEPT ![t] = "idle"] /\ loc' = [loc EXCEPT ![t] = NoLoc]
      /\ proc' = [proc EXCEPT ![i] = None]
  BY DEF ProcessExit, Return, Go, At
<1>3. i \in Ids /\ Live(i)
  BY <1>2, AgentFacts
<1>4. Moves(t) /\ pc'[t] = "idle" /\ proc' \in [Ids -> Processes \cup {None}]
  BY <1>1, <1>2, NoLocType DEF Moves, TypeInv, Phases
<1>5. ThreadInv(t)'
  BY <1>4 DEF ThreadInv, CallInv, MaterialInv, WrittenInv, MaterialisePC
<1>6. proc'[i] = None /\ \A j \in Ids : j # i => proc'[j] = proc[j]
  BY <1>1, <1>3, <1>2 DEF TypeInv
<1>7. SpawnsWithCredentials'
  BY <1>2, <1>6 DEF IInv, SpawnsWithCredentials
<1>8. ASSUME NEW j \in Ids PROVE ProcessInv(j)'
  <2>1. ProcessInv(j)
    BY DEF IInv
  <2> QED BY <1>2, <1>4, <1>6, <2>1 DEF ProcessInv, Live, Moves
<1> QED BY <1>2, <1>4, <1>5, <1>7, <1>8, ProcessStep DEF MaterialisePC

-----------------------------------------------------------------------------
(* The provider, Remove and a crash.                                          *)

\* No call is about an agent that has no Agent object, nor is a process.
LEMMA NoObject ==
    ASSUME IInv, NEW i \in Ids, ~Live(i) \/ Calls(i) = {}
    PROVE  proc[i] = None /\ \A t \in Threads : pc[t] # "idle" => loc[t].id # i
BY DEF IInv, ThreadInv, CallInv, ProcessInv, Calls

\* A new Agent object takes nothing from calls, which are about others.
LEMMA CreateKeeps == ASSUME IInv, NEW i \in Ids, CreateWithOptions(i) PROVE IInv'
<1>1. TypeInv /\ proc[i] = None /\ \A t \in Threads : pc[t] # "idle" => loc[t].id # i
  BY NoObject DEF IInv, CreateWithOptions
<1> DEFINE new == NewAgent(addrs + 1, BaseMounts, SpecMounts)
<1>2. /\ addrs' = addrs + 1 /\ mem' = [mem EXCEPT ![i] = new] /\ raced' = raced \ {i}
      /\ UNCHANGED <<tree, pc, loc, proc, published>>
  BY DEF CreateWithOptions, Reserve
<1>3. addrs + 1 \in Nat
  BY <1>1 DEF TypeInv
<1>4. /\ new \in Agents /\ new.rt = None /\ new.initialized = FALSE /\ new.loaded = FALSE
      /\ new.overrides = SpecMounts /\ new.mounts = BaseMounts
  BY <1>3, Constants DEF NewAgent, Agents
<1> HIDE DEF new
<1>5. mem'[i] = new /\ \A j \in Ids : j # i => mem'[j] = mem[j]
  BY <1>1, <1>2 DEF TypeInv
<1>6. TypeInv'
  BY <1>1, <1>2, <1>3, <1>4 DEF TypeInv
<1>7. RaceInv'
  <2>1. RaceInv
    BY DEF IInv
  <2> QED BY <1>1, <1>2, <2>1 DEF RaceInv, MaterialisePC
<1>8. SpawnsWithCredentials'
  BY <1>1, <1>2, <1>5 DEF IInv, SpawnsWithCredentials
<1>9. ASSUME NEW j \in Ids PROVE AgentInv(j)' /\ DiskInv(j)' /\ ProcessInv(j)'
  <2>1. AgentInv(j) /\ DiskInv(j) /\ ProcessInv(j)
    BY DEF IInv
  <2>2. AgentInv(j)'
    <3>1. CASE j = i
      BY <1>4, <1>5, <3>1 DEF AgentInv
    <3>2. CASE j # i
      BY <1>2, <1>5, <2>1, <3>2 DEF AgentInv, Live, Merged
    <3> QED BY <3>1, <3>2
  <2>3. DiskInv(j)'
    BY <1>2, <2>1 DEF DiskInv, Complete
  <2>4. ProcessInv(j)'
    BY <1>1, <1>2, <1>5, <2>1 DEF ProcessInv, Live
  <2> QED BY <2>2, <2>3, <2>4
<1>10. ASSUME NEW t \in Threads PROVE ThreadInv(t)'
  <2>1. ThreadInv(t)
    BY DEF IInv
  <2>2. CASE pc[t] = "idle"
    BY <1>2, <2>2 DEF ThreadInv, CallInv, MaterialInv, WrittenInv, MaterialisePC
  <2>3. CASE pc[t] # "idle"
    <3>1. loc[t].id \in Ids /\ mem'[loc[t].id] = mem[loc[t].id]
      BY <1>1, <1>5, <2>1, <2>3 DEF ThreadInv, CallInv
    <3>2. loc[t].id \in raced' <=> loc[t].id \in raced
      BY <1>1, <1>2, <2>3
    <3>3. CallInv(pc[t], loc[t])'
      BY <1>2, <2>1, <3>1 DEF ThreadInv, CallInv, Live
    <3>4. MaterialInv(pc[t], loc[t])'
      BY <1>2, <2>1, <3>1, <3>2 DEF ThreadInv, MaterialInv, Merged
    <3>5. WrittenInv(pc[t], loc[t])'
      BY <1>2, <2>1, <3>2 DEF ThreadInv, WrittenInv
    <3> QED BY <3>3, <3>4, <3>5 DEF ThreadInv
  <2> QED BY <2>2, <2>3
<1> QED BY <1>6, <1>7, <1>8, <1>9, <1>10 DEF IInv

\* A recovered Agent has the descriptor agent.yaml holds: the one that was
\* published, if the workspace was finished and not touched since.
LEMMA LoadKeeps == ASSUME IInv, Load PROVE IInv'
<1> DEFINE found == {i \in Ids : tree[i].yaml # None}
           n == Cardinality(found)
<1>1. PICK order \in [found -> 1 .. n] :
         mem' = [i \in Ids |-> IF i \in found THEN loadAgent(i, addrs + order[i]) ELSE None]
  BY DEF Load
<1>2. /\ \A i \in Ids : ~Live(i)
      /\ addrs' = addrs + n /\ UNCHANGED <<tree, pc, loc, proc, published, raced>>
  BY DEF Load
<1>3. /\ TypeInv /\ \A i \in Ids : proc[i] = None
      /\ \A t \in Threads : pc[t] = "idle"
  BY <1>2, NoObject DEF IInv, ThreadInv, CallInv
<1>4. n \in Nat
  BY Constants, FS_Subset, FS_CardinalityType
<1> HIDE DEF n
<1>5. ASSUME NEW i \in Ids, i \in found
      PROVE  /\ mem'[i] \in Agents /\ mem'[i].rt # None /\ mem'[i].initialized /\ mem'[i].loaded
             /\ mem'[i].rt.mounts = tree[i].ymounts
  <2>1. addrs + order[i] \in Nat
    BY <1>1, <1>3, <1>4, <1>5 DEF TypeInv
  <2> DEFINE rt == LoadRuntime(tree[i])
             new == [NewAgent(addrs + order[i], <<>>, <<>>) EXCEPT
                       !.initialized = TRUE, !.loaded = TRUE, !.rt = rt]
  <2>2. mem'[i] = new
    BY <1>1, <1>5 DEF loadAgent
  <2>3. rt \in Descriptors /\ rt.mounts = tree[i].ymounts
    BY <1>3 DEF TypeInv, Trees, LoadRuntime, Descriptor, Descriptors
  <2> HIDE DEF rt
  <2>4. <<>> \in Seq(Mounts)
    BY EmptySeq
  <2>5. new \in Agents /\ new.rt = rt /\ new.initialized = TRUE /\ new.loaded = TRUE
    BY <2>1, <2>3, <2>4 DEF NewAgent, Agents
  <2> QED BY <2>2, <2>3, <2>5, Constants
<1>6. \A i \in Ids : i \notin found => mem'[i] = None
  BY <1>1
<1>7. TypeInv'
  <2>1. mem' \in [Ids -> Agents \cup {None}]
    BY <1>1, <1>5, <1>6
  <2>2. addrs' \in Nat
    BY <1>2, <1>3, <1>4 DEF TypeInv
  <2> QED BY <1>2, <1>3, <2>1, <2>2 DEF TypeInv
<1>8. RaceInv' /\ SpawnsWithCredentials'
  BY <1>2, <1>3 DEF RaceInv, SpawnsWithCredentials, MaterialisePC
<1>9. ASSUME NEW i \in Ids PROVE AgentInv(i)' /\ DiskInv(i)' /\ ProcessInv(i)'
  <2>1. DiskInv(i)
    BY DEF IInv
  <2>2. DiskInv(i)'
    BY <1>2, <2>1 DEF DiskInv, Complete
  <2>3. AgentInv(i)'
    <3>1. CASE i \in found
      BY <1>2, <1>5, <2>1, <3>1 DEF AgentInv, DiskInv
    <3>2. CASE i \notin found
      BY <1>6, <3>2 DEF AgentInv, Live
    <3> QED BY <3>1, <3>2
  <2> QED BY <1>2, <1>3, <2>2, <2>3 DEF ProcessInv
<1>10. ASSUME NEW t \in Threads PROVE ThreadInv(t)'
  BY <1>2, <1>3 DEF ThreadInv, CallInv, MaterialInv, WrittenInv, MaterialisePC
<1> QED BY <1>7, <1>8, <1>9, <1>10 DEF IInv

\* A crash leaves the trees, and nothing that relies on memory.
LEMMA CrashKeeps == ASSUME IInv, Crash PROVE IInv'
<1>1. /\ mem' = [i \in Ids |-> None] /\ pc' = [t \in Threads |-> "idle"]
      /\ loc' = [t \in Threads |-> NoLoc] /\ proc' = [i \in Ids |-> None] /\ raced' = {}
      /\ UNCHANGED <<tree, addrs, published>>
  BY DEF Crash
<1>2. TypeInv'
  BY <1>1, NoLocType DEF IInv, TypeInv, Phases
<1>3. RaceInv' /\ SpawnsWithCredentials'
  BY <1>1 DEF RaceInv, SpawnsWithCredentials, MaterialisePC
<1>4. ASSUME NEW i \in Ids PROVE AgentInv(i)' /\ DiskInv(i)' /\ ProcessInv(i)'
  <2>1. DiskInv(i)
    BY DEF IInv
  <2>2. DiskInv(i)'
    BY <1>1, <2>1 DEF DiskInv, Complete
  <2> QED BY <1>1, <2>2 DEF AgentInv, ProcessInv, Live
<1>5. ASSUME NEW t \in Threads PROVE ThreadInv(t)'
  BY <1>1 DEF ThreadInv, CallInv, MaterialInv, WrittenInv, MaterialisePC
<1> QED BY <1>2, <1>3, <1>4, <1>5 DEF IInv

\* Deletions withdraw what was published, and race with the calls under way.
LEMMA DeletionStep ==
    ASSUME IInv, NEW D \in SUBSET Ids, UNCHANGED <<pc, loc, proc, addrs>>,
           tree' \in [Ids -> Trees], \A i \in Ids \ D : tree'[i] = tree[i],
           published' = [i \in Ids |-> IF i \in D THEN None ELSE published[i]],
           raced \subseteq raced', raced' \subseteq raced \cup D,
           \A i \in D : Live(i) => i \in raced',
           mem' \in [Ids -> Agents \cup {None}],
           \A i \in Ids : \/ mem'[i] = mem[i]
                          \/ /\ mem[i] \in Agents
                             /\ mem'[i] = [mem[i] EXCEPT !.removed = TRUE]
    PROVE  IInv'
<1>1. TypeInv
  BY DEF IInv
<1>2. ASSUME NEW i \in Ids
      PROVE  /\ Live(i)' <=> Live(i)
             /\ Live(i) => /\ mem'[i].initialized = mem[i].initialized /\ mem'[i].rt = mem[i].rt
                           /\ mem'[i].loaded = mem[i].loaded /\ mem'[i].mounts = mem[i].mounts
                           /\ mem'[i].overrides = mem[i].overrides
  <2>1. CASE mem'[i] = mem[i]
    BY <2>1 DEF Live
  <2>2. CASE mem[i] \in Agents /\ mem'[i] = [mem[i] EXCEPT !.removed = TRUE]
    <3>1. mem'[i] \in Agents
      BY <2>2 DEF Agents
    <3> QED BY <2>2, <3>1, Constants DEF Live, Agents
  <2> QED BY <2>1, <2>2
<1>3. published' \in [Ids -> Seq(Mounts) \cup {None}]
  BY <1>1 DEF TypeInv
<1>4. TypeInv'
  BY <1>1, <1>3 DEF TypeInv
<1>5. RaceInv'
  BY DEF IInv, RaceInv
<1>6. ASSUME NEW i \in Ids PROVE AgentInv(i)' /\ DiskInv(i)' /\ ProcessInv(i)'
  <2>1. AgentInv(i) /\ DiskInv(i) /\ ProcessInv(i)
    BY DEF IInv
  <2>2. published'[i] = None \/ published'[i] = published[i]
    OBVIOUS
  <2>3. AgentInv(i)'
    BY <1>2, <2>1, <2>2 DEF AgentInv, Merged
  <2>4. DiskInv(i)'
    <3>1. published'[i] # None => i \notin D /\ published'[i] = published[i]
      OBVIOUS
    <3> QED BY <2>1, <3>1 DEF DiskInv, Complete
  <2>5. ProcessInv(i)'
    BY <1>2, <2>1 DEF ProcessInv
  <2> QED BY <2>3, <2>4, <2>5
<1>7. SpawnsWithCredentials'
  <2>1. \A i \in Ids : proc[i] # None => Live(i)
    BY DEF IInv, ProcessInv
  <2> QED BY <1>2, <2>1 DEF IInv, SpawnsWithCredentials
<1>8. ASSUME NEW t \in Threads PROVE ThreadInv(t)'
  <2>1. ThreadInv(t)
    BY DEF IInv
  <2>2. CASE pc[t] = "idle"
    BY <2>2 DEF ThreadInv, CallInv, MaterialInv, WrittenInv, MaterialisePC
  <2>3. CASE pc[t] # "idle"
    <3>1. loc[t].id \in Ids /\ Live(loc[t].id)
      BY <2>1, <2>3 DEF ThreadInv, CallInv
    <3>2. loc[t].id \notin raced' => loc[t].id \notin raced /\ tree'[loc[t].id] = tree[loc[t].id]
      BY <3>1
    <3>3. published[loc[t].id] = None => published'[loc[t].id] = None
      BY <3>1
    <3>4. CallInv(pc[t], loc[t])'
      BY <1>2, <2>1, <3>1 DEF ThreadInv, CallInv
    <3>5. MaterialInv(pc[t], loc[t])'
      BY <1>2, <2>1, <3>1, <3>2, <3>3 DEF ThreadInv, MaterialInv, Merged
    <3>6. WrittenInv(pc[t], loc[t])'
      BY <2>1, <3>2 DEF ThreadInv, WrittenInv
    <3> QED BY <3>4, <3>5, <3>6 DEF ThreadInv
  <2> QED BY <2>2, <2>3
<1> QED BY <1>4, <1>5, <1>6, <1>7, <1>8 DEF IInv

\* What Remove may leave of a tree is a tree.
LEMMA TreeTypes == NoTree \in Trees /\ \A t \in Trees : Pieces(t) \in Trees
<1>1. <<>> \in Seq(Mounts)
  BY EmptySeq
<1>2. [b \in Bins |-> None] \in [Bins -> Files]
  BY DEF Files
<1>3. NoTree \in Trees
  BY <1>1, <1>2 DEF NoTree, Trees, Files
<1>4. \A t \in Trees : Pieces(t) \in Trees
  BY DEF Pieces, Trees, Files
<1> QED BY <1>3, <1>4

\* Provider.Destroy deletes the directories of all agents, or of some and part of
\* one.
LEMMA DestroyKeeps == ASSUME IInv, Destroy PROVE IInv'
<1>1. PICK gone, bad \in SUBSET Ids :
        /\ tree' = [i \in Ids |-> IF i \in gone THEN NoTree ELSE IF i \in bad THEN Pieces(tree[i]) ELSE tree[i]]
        /\ published' = [i \in Ids |-> IF i \in gone \cup bad THEN None ELSE published[i]]
        /\ raced' = raced \cup {i \in gone \cup bad : Live(i)}
        /\ UNCHANGED <<mem, pc, loc, proc, addrs>>
  BY DEF Destroy
<1>2. TypeInv
  BY DEF IInv
<1>3. tree' \in [Ids -> Trees]
  BY <1>1, <1>2, TreeTypes DEF TypeInv
<1>4. \A i \in Ids \ (gone \cup bad) : tree'[i] = tree[i]
  BY <1>1
<1>5. mem' \in [Ids -> Agents \cup {None}]
  BY <1>1, <1>2 DEF TypeInv
<1>6. /\ raced \subseteq raced' /\ raced' \subseteq raced \cup (gone \cup bad)
      /\ \A i \in gone \cup bad : Live(i) => i \in raced'
  BY <1>1
<1>7. gone \cup bad \in SUBSET Ids
  OBVIOUS
<1> QED BY <1>1, <1>3, <1>4, <1>5, <1>6, <1>7, DeletionStep

\* Remove deletes the tree of one agent, or part of it.
LEMMA RemoveKeeps == ASSUME IInv, NEW i \in Ids, Remove(i) PROVE IInv'
<1>1. /\ tree' = [tree EXCEPT ![i] = NoTree] \/ tree' = [tree EXCEPT ![i] = Pieces(@)]
      /\ mem' = [mem EXCEPT ![i].removed = TRUE] \/ mem' = mem
      /\ published' = [published EXCEPT ![i] = None] /\ raced' = raced \cup {i}
      /\ UNCHANGED <<pc, loc, proc, addrs>>
  BY DEF Remove
<1>2. TypeInv /\ mem[i] \in Agents
  BY DEF IInv, TypeInv, Remove, Live
<1>3. tree' \in [Ids -> Trees] /\ \A j \in Ids \ {i} : tree'[j] = tree[j]
  BY <1>1, <1>2, TreeTypes DEF TypeInv
<1>4. [mem[i] EXCEPT !.removed = TRUE] \in Agents
  BY <1>2 DEF Agents
<1>5. mem' = mem \/ mem' = [mem EXCEPT ![i] = [mem[i] EXCEPT !.removed = TRUE]]
  BY <1>1
<1>6. /\ mem' \in [Ids -> Agents \cup {None}]
      /\ \A j \in Ids : \/ mem'[j] = mem[j]
                        \/ mem[j] \in Agents /\ mem'[j] = [mem[j] EXCEPT !.removed = TRUE]
  BY <1>2, <1>4, <1>5 DEF TypeInv
<1>7. published' = [j \in Ids |-> IF j \in {i} THEN None ELSE published[j]]
  BY <1>1, <1>2 DEF TypeInv
<1>8. {i} \in SUBSET Ids /\ \A j \in {i} : Live(j) => j \in raced'
  BY <1>1
<1>9. raced \subseteq raced' /\ raced' \subseteq raced \cup {i}
  BY <1>1
<1> QED BY <1>1, <1>3, <1>6, <1>7, <1>8, <1>9, DeletionStep

-----------------------------------------------------------------------------
(* The theorems.                                                              *)

\* Before the first Create there is nothing.
LEMMA InitInv == Init => IInv
<1> SUFFICES ASSUME Init PROVE IInv
  OBVIOUS
<1>1. TypeInv
  <2>1. published \in [Ids -> Seq(Mounts) \cup {None}] /\ mem \in [Ids -> Agents \cup {None}]
    BY DEF Init
  <2> QED BY <2>1, TreeTypes, NoLocType DEF Init, TypeInv, Phases
<1>2. RaceInv /\ SpawnsWithCredentials
  BY DEF Init, RaceInv, SpawnsWithCredentials, MaterialisePC
<1>3. ASSUME NEW i \in Ids PROVE AgentInv(i) /\ DiskInv(i) /\ ProcessInv(i)
  BY DEF Init, AgentInv, DiskInv, ProcessInv, Live
<1>4. ASSUME NEW t \in Threads PROVE ThreadInv(t)
  BY DEF Init, ThreadInv, CallInv, MaterialInv, WrittenInv, MaterialisePC
<1> QED BY <1>1, <1>2, <1>3, <1>4 DEF IInv

\* Nothing happens.
LEMMA StutterInv == ASSUME IInv, UNCHANGED vars PROVE IInv'
<1>1. TypeInv' /\ RaceInv' /\ SpawnsWithCredentials'
  BY DEF vars, IInv, TypeInv, RaceInv, SpawnsWithCredentials
<1>2. ASSUME NEW i \in Ids PROVE AgentInv(i)' /\ DiskInv(i)' /\ ProcessInv(i)'
  BY DEF vars, IInv, AgentInv, DiskInv, ProcessInv, Live, Complete, Merged
<1>3. ASSUME NEW t \in Threads PROVE ThreadInv(t)'
  BY DEF vars, IInv, ThreadInv, CallInv, MaterialInv, WrittenInv, Live, Merged
<1> QED BY <1>1, <1>2, <1>3 DEF IInv

\* Every step keeps the invariant, a crash and a Load included.
LEMMA NextInv == ASSUME IInv, [Next]_vars PROVE IInv'
<1>1. CASE Provider
  BY <1>1, LoadKeeps, DestroyKeeps, CreateKeeps DEF Provider
<1>2. ASSUME NEW t \in Threads, MaterialiseStep(t) PROVE IInv'
  BY <1>2, LoadArtifactKeeps, extractLayersKeeps, OpenYamlKeeps, WriteToKeeps, applyMountsKeeps,
     OpenRuntimeKeeps, installRuntimeKeeps, OpenBinKeeps, installToolsKeeps, PublishKeeps
     DEF MaterialiseStep
<1>3. ASSUME NEW t \in Threads, ThreadStep(t) PROVE IInv'
  BY <1>2, <1>3, reresolveKeeps, beginRunKeeps, initializeKeeps, SpawnKeeps DEF ThreadStep
<1>4. ASSUME NEW t \in Threads, StepFails(t) \/ ProcessExit(t) PROVE IInv'
  BY <1>4, StepFailsKeeps, ProcessExitKeeps
<1>5. ASSUME NEW t \in Threads, NEW i \in Ids, NEW op \in {"Prepare", "Run", "Start"}, Call(t, i, op)
      PROVE  IInv'
  BY <1>5, CallKeeps DEF Ops
<1>6. ASSUME NEW i \in Ids, Remove(i) PROVE IInv'
  BY <1>6, RemoveKeeps
<1>7. CASE Crash
  BY <1>7, CrashKeeps
<1>8. CASE UNCHANGED vars
  BY <1>8, StutterInv
<1> QED BY <1>1, <1>3, <1>4, <1>5, <1>6, <1>7, <1>8 DEF Next

\* The inductive invariant: at every step of every materialisation, what the
\* call has in its hands and what it has written are what was asked for, unless
\* another call or a deletion has been at the same workspace.
THEOREM InvariantHolds == Spec => []IInv
<1>1. IInv /\ [Next]_vars => IInv'
  BY NextInv
<1> QED BY InitInv, <1>1, PTL DEF Spec

\* materialize, writeRuntimeYAML, applyMounts and loadAgent: an agent that counts
\* as materialised has the files, links and descriptor it was asked for, after
\* any number of failed attempts, crashes and Loads.
THEOREM PreparedIsCompleteHolds == Spec => []PreparedIsComplete
<1>1. IInv => PreparedIsComplete
  BY DEF IInv, PreparedIsComplete, AgentInv, DiskInv
<1> QED BY InvariantHolds, <1>1, PTL

\* reresolveCredentials and process.command: no process is spawned without
\* credentials, except by Run on an agent that Load recovered.
THEOREM SpawnsWithCredentialsHolds == Spec => []SpawnsWithCredentials
<1>1. IInv => SpawnsWithCredentials
  BY DEF IInv
<1> QED BY InvariantHolds, <1>1, PTL

=============================================================================
