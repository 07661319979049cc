--------------------------- MODULE ImageFlowProofs ---------------------------
(* Proofs about ImageFlow: for any Agentfiles, registries and overrides, and  *)
(* any number of builds, calls, listings and deployments at once.             *)
EXTENDS ImageFlow, TLAPS

-----------------------------------------------------------------------------
(* The inductive invariant of the stores.                                     *)

Stores == {"local", "hub"}
Kinds == {"data", "config", "manifest"}
BuildFields == {"pc", "src", "fetched", "own", "agent", "layers", "pushed", "staged"}
CallFields == {"pc", "kind", "from", "ref", "to", "dst", "m", "tries"}
DeployFields == {"pc", "ref", "with", "m", "config", "bins"}
ListFields == {"pc", "entries", "todo", "out", "dropped"}

TypeInv ==
    /\ backend \in {"system", "docker"}
    /\ DOMAIN made = Digests
    /\ DOMAIN images = Stores
    /\ DOMAIN content = Stores /\ \A s \in Stores : DOMAIN content[s] = Kinds
    /\ DOMAIN build = Builders /\ DOMAIN call = Calls /\ DOMAIN deploy = Deployers

\* The manifest of d is what it will always be.
Packed(d) ==
    d \in Digests /\ (d \in Builders => build[d].pc \notin {"off", "idle", "resolve", "push"})

\* Everything that manifest d names is in store s.
Stored(s, d) == DataOf(made[d]) \subseteq content[s].data /\ d \in content[s].config

\* A store holds no manifest without its blobs, and no tag without its manifest.
StoreInv(s) ==
    /\ \A d \in content[s].manifest : Packed(d) /\ Stored(s, d)
    /\ \A r \in DOMAIN images[s] :
          images[s][r] \in content[s].manifest /\ <<s, r, images[s][r]>> \in served

\* Where the blobs of a build with local variables v are.
Sent(v) == IF backend = "docker" THEN v.staged ELSE content["local"]

\* What a build has sent at each point, and that a docker build stages no
\* manifest but its own.
BuildInv(b, v) ==
    /\ DOMAIN v = BuildFields /\ DOMAIN v.staged = Kinds
    /\ v.pushed \in Nat /\ v.staged.manifest \subseteq {b}
    /\ v.pc \in {"idle", "resolve"} => v.pushed = 0
    /\ v.pc = "push" => \A i \in 1 .. v.pushed : v.layers[i][1].data \in Sent(v).data
    /\ v.pc \in {"manifest", "digest", "name"} =>
          DataOf(made[b]) \subseteq Sent(v).data /\ b \in Sent(v).config
    /\ v.pc \in {"digest", "name"} /\ backend = "docker" => b \in v.staged.manifest
    /\ v.pc = "ok" /\ made[b].config.name # "" => <<"local", Local(b), b>> \in served

\* What a call with local variables v can rely on between its look-up, its
\* blobs and its tag.
CallInv(v) ==
    /\ DOMAIN v = CallFields
    /\ v.pc \notin {"off", "idle"} => v.from \in Stores /\ v.to \in Stores
    /\ v.pc \in {"resolve", "tag"} /\ v.kind = "tag" => v.to = "local"
    /\ v.pc = "tag" /\ backend = "system" => v.kind = "tag"
    /\ v.pc = "remove" => v.kind = "remove"
    /\ v.pc = "tag" => v.kind \in {"tag", "push"}
    /\ v.pc \in {"blobs", "copy"} \/ (v.pc = "tag" /\ backend = "system") => Packed(v.m)
    /\ v.pc = "copy" => Stored(v.to, v.m)
    /\ v.pc = "ok" /\ v.kind # "remove" => <<v.to, v.dst, v.m>> \in served

DeployInv(v) ==
    /\ DOMAIN v = DeployFields
    /\ v.pc \in {"fetch", "apply"} => <<"local", v.ref, v.m>> \in served
    /\ v.pc = "apply" => v.config = v.m

IInv ==
    /\ TypeInv
    /\ \A s \in Stores : StoreInv(s)
    /\ \A b \in Builders : BuildInv(b, build[b])
    /\ \A c \in Calls : CallInv(call[c])
    /\ \A d \in Deployers : DeployInv(deploy[d])

-----------------------------------------------------------------------------
(* The inductive invariant of the listings.                                   *)

ListInv(l, v) ==
    /\ DOMAIN v = ListFields
    /\ v.pc \in {"off", "idle"} => v.out = {} /\ v.dropped = FALSE
    /\ v.pc \notin {"off", "idle"} =>
          window[l].always \subseteq DOMAIN images["local"] /\ DOMAIN images["local"] \subseteq window[l].ever
    /\ v.out \subseteq window[l].ever
    /\ v.pc = "inspect" => v.todo \subseteq window[l].ever
    /\ v.pc = "tags" /\ ~v.dropped => \A r \in window[l].always : r \in v.out \/ Repo(r) \in v.todo
    /\ v.pc = "inspect" /\ ~v.dropped => window[l].always \subseteq v.out \cup v.todo
    /\ v.pc = "done" /\ ~v.dropped => window[l].always \subseteq v.out

ListsInv ==
    /\ DOMAIN images = Stores /\ DOMAIN list = Listers /\ DOMAIN window = Listers
    /\ \A l \in Listers : ListInv(l, list[l])

-----------------------------------------------------------------------------
(* What holds of any step: blobs are added, and packed manifests stay.        *)

Forward ==
    /\ backend' = backend /\ served \subseteq served'
    /\ \A s \in Stores : /\ content[s].data \subseteq content'[s].data
                         /\ content[s].config \subseteq content'[s].config
    /\ \A d \in Digests : Packed(d) => Packed(d)' /\ made'[d] = made[d]

\* What a process relies on survives every step that goes forward and is not
\* its own.
LEMMA OthersKeep ==
    ASSUME IInv, Forward
    PROVE  /\ \A b \in Builders : build'[b] = build[b] /\ made'[b] = made[b] => BuildInv(b, build[b])'
           /\ \A c \in Calls : call'[c] = call[c] => CallInv(call[c])'
           /\ \A d \in Deployers : deploy'[d] = deploy[d] => DeployInv(deploy[d])'
<1>1. ASSUME NEW b \in Builders, build'[b] = build[b], made'[b] = made[b] PROVE BuildInv(b, build[b])'
  <2>1. BuildInv(b, build[b])
    BY DEF IInv
  <2>2. /\ Sent(build[b]).data \subseteq Sent(build[b])'.data
        /\ Sent(build[b]).config \subseteq Sent(build[b])'.config
    BY <1>1 DEF Sent, Forward, Stores
  <2> QED BY <1>1, <2>1, <2>2 DEF BuildInv, Forward, Local, Of
<1>2. ASSUME NEW c \in Calls, call'[c] = call[c] PROVE CallInv(call[c])'
  <2>1. CallInv(call[c])
    BY DEF IInv
  <2>2. Packed(call[c].m) => Packed(call[c].m)' /\ made'[call[c].m] = made[call[c].m]
    BY <1>2 DEF Packed, Forward
  <2>3. call[c].pc = "copy" => Stored(call[c].to, call[c].m)'
    BY <1>2, <2>1, <2>2 DEF CallInv, Stored, Forward
  <2> QED BY <1>2, <2>1, <2>2, <2>3 DEF CallInv, Forward, Packed
<1>3. ASSUME NEW d \in Deployers, deploy'[d] = deploy[d] PROVE DeployInv(deploy[d])'
  BY <1>3 DEF IInv, DeployInv, Forward
<1> QED BY <1>1, <1>2, <1>3

\* A step that goes forward keeps the invariant if it does where it changes
\* something.
LEMMA StepKeeps ==
    ASSUME IInv, Forward, TypeInv', \A s \in Stores : StoreInv(s)',
           \A b \in Builders : (build'[b] = build[b] /\ made'[b] = made[b]) \/ BuildInv(b, build[b])',
           \A c \in Calls : call'[c] = call[c] \/ CallInv(call[c])',
           \A d \in Deployers : deploy'[d] = deploy[d] \/ DeployInv(deploy[d])'
    PROVE  IInv'
BY OthersKeep DEF IInv

\* A step that changes store s: every manifest it adds is packed and stored, and
\* every tag it leaves has its manifest.
LEMMA StoresKeep ==
    ASSUME IInv, Forward, NEW s \in Stores,
           \A u \in Stores \ {s} : content'[u] = content[u] /\ images'[u] = images[u],
           \A d \in content'[s].manifest : d \in content[s].manifest \/ (Packed(d)' /\ Stored(s, d)'),
           \A r \in DOMAIN images'[s] :
              images'[s][r] \in content'[s].manifest /\ <<s, r, images'[s][r]>> \in served'
    PROVE  \A u \in Stores : StoreInv(u)'
<1>1. ASSUME NEW u \in Stores, NEW d, Packed(d), Stored(u, d) PROVE Packed(d)' /\ Stored(u, d)'
  BY <1>1 DEF Forward, Packed, Stored
<1>2. ASSUME NEW u \in Stores PROVE StoreInv(u)'
  <2>1. StoreInv(u)
    BY DEF IInv
  <2>2. CASE u = s
    BY <1>1, <2>1, <2>2 DEF StoreInv
  <2>3. CASE u # s
    BY <1>1, <2>1, <2>3 DEF StoreInv, Forward
  <2> QED BY <2>2, <2>3
<1> QED BY <1>2

\* A step that leaves the stores alone keeps them in order.
LEMMA StoresUnchanged ==
    ASSUME IInv, Forward, UNCHANGED <<images, content>> PROVE \A u \in Stores : StoreInv(u)'
<1>1. ASSUME NEW u \in Stores, NEW d, Packed(d), Stored(u, d) PROVE Packed(d)' /\ Stored(u, d)'
  BY <1>1 DEF Forward, Packed, Stored
<1>2. ASSUME NEW u \in Stores PROVE StoreInv(u)'
  <2>1. StoreInv(u)
    BY DEF IInv
  <2> QED BY <1>1, <2>1 DEF StoreInv, Forward
<1> QED BY <1>2

-----------------------------------------------------------------------------
(* The effects of the stores' operations.                                     *)

\* What a store holds after blobs were added to it.
LEMMA JoinFacts ==
    ASSUME TypeInv, NEW s \in Stores, NEW blobs, content' = [content EXCEPT ![s] = Join(@, blobs)]
    PROVE  /\ DOMAIN content' = Stores /\ \A u \in Stores : DOMAIN content'[u] = Kinds
           /\ \A u \in Stores \ {s} : content'[u] = content[u]
           /\ content'[s].data = content[s].data \cup blobs.data
           /\ content'[s].config = content[s].config \cup blobs.config
           /\ content'[s].manifest = content[s].manifest \cup blobs.manifest
<1>1. content'[s] = Join(content[s], blobs) /\ \A u \in Stores \ {s} : content'[u] = content[u]
  BY DEF TypeInv
<1>2. DOMAIN content' = Stores
  BY DEF TypeInv
<1>3. /\ DOMAIN Join(content[s], blobs) = Kinds
      /\ \A k \in Kinds : Join(content[s], blobs)[k] = content[s][k] \cup blobs[k]
  BY DEF TypeInv, Join
<1>4. \A u \in Stores : DOMAIN content'[u] = Kinds
  BY <1>1, <1>3 DEF TypeInv
<1> QED BY <1>1, <1>2, <1>3, <1>4 DEF Kinds

\* What the references of a store are after they were written.
LEMMA TagFacts ==
    ASSUME TypeInv, NEW s \in Stores, NEW tags, SetImages(s, tags)
    PROVE  /\ DOMAIN images' = Stores /\ images'[s] = tags
           /\ \A u \in Stores \ {s} : images'[u] = images[u]
           /\ served \subseteq served' /\ \A r \in DOMAIN tags : <<s, r, tags[r]>> \in served'
BY DEF TypeInv, SetImages

\* Setting one reference leaves the others.
LEMMA PutFacts ==
    ASSUME NEW f, NEW x, NEW v
    PROVE  /\ DOMAIN Put(f, x, v) = DOMAIN f \cup {x}
           /\ \A y \in DOMAIN f \cup {x} : Put(f, x, v)[y] = IF y = x THEN v ELSE f[y]
BY DEF Put

\* The records of blobs that a push is made of.
LEMMA NoBlobsFacts ==
    /\ DOMAIN NoBlobs = Kinds /\ NoBlobs.data = {} /\ NoBlobs.config = {} /\ NoBlobs.manifest = {}
    /\ \A x : /\ [NoBlobs EXCEPT !.data = x].data = x /\ [NoBlobs EXCEPT !.data = x].config = {}
              /\ [NoBlobs EXCEPT !.data = x].manifest = {}
    /\ \A x : /\ [NoBlobs EXCEPT !.config = x].data = {} /\ [NoBlobs EXCEPT !.config = x].config = x
              /\ [NoBlobs EXCEPT !.config = x].manifest = {}
    /\ \A x : /\ [NoBlobs EXCEPT !.manifest = x].data = {} /\ [NoBlobs EXCEPT !.manifest = x].config = {}
              /\ [NoBlobs EXCEPT !.manifest = x].manifest = x
BY DEF NoBlobs, Kinds

-----------------------------------------------------------------------------
(* Builds.                                                                    *)

\* No manifest but b's changes.
Packs(b) == made' = made \/ \E m : made' = [made EXCEPT ![b] = m]

\* Build b moves to local state v, and packs its manifest if at all.
BuildMoves(b, v) ==
    /\ build' = [build EXCEPT ![b] = v]
    /\ build[b].pc \notin {"off", "idle", "resolve", "push"} =>
          v.pc \notin {"off", "idle", "resolve", "push"} /\ made' = made
    /\ Packs(b)
    /\ UNCHANGED <<backend, call, list, deploy>>

\* A build changes its own local variables and, while it packs, its own
\* manifest.
LEMMA BuildFacts ==
    ASSUME IInv, NEW b \in Builders, NEW v, BuildMoves(b, v)
    PROVE  /\ DOMAIN build' = Builders /\ build'[b] = v /\ DOMAIN made' = Digests
           /\ \A u \in Builders \ {b} : build'[u] = build[u] /\ made'[u] = made[u]
           /\ \A d \in Digests : Packed(d) => Packed(d)' /\ made'[d] = made[d]
<1>1. TypeInv
  BY DEF IInv
<1>2. /\ DOMAIN build' = Builders /\ build'[b] = v
      /\ \A u \in Builders \ {b} : build'[u] = build[u]
  BY <1>1 DEF TypeInv, BuildMoves
<1>3. DOMAIN made' = Digests /\ \A d \in Digests \ {b} : made'[d] = made[d]
  BY <1>1 DEF TypeInv, BuildMoves, Packs
<1>4. Builders \subseteq Digests
  BY DEF Digests
<1>5. \A d \in Digests : Packed(d) => Packed(d)' /\ made'[d] = made[d]
  BY <1>2, <1>3 DEF Packed, BuildMoves
<1> QED BY <1>2, <1>3, <1>4, <1>5

\* A step of a build that leaves the stores alone.
LEMMA BuildLocal ==
    ASSUME IInv, NEW b \in Builders, NEW v, BuildMoves(b, v), UNCHANGED stores, BuildInv(b, v)'
    PROVE  IInv'
<1>1. UNCHANGED <<images, content, served>>
  BY DEF stores
<1>2. Forward
  BY <1>1, BuildFacts DEF Forward, BuildMoves
<1>3. TypeInv'
  BY <1>1, BuildFacts DEF IInv, TypeInv, BuildMoves
<1>4. \A u \in Stores : StoreInv(u)'
  BY <1>1, <1>2, StoresUnchanged
<1> QED BY <1>2, <1>3, <1>4, BuildFacts, StepKeeps DEF BuildMoves

\* A step that also puts blobs into the local store, and tags if at all.
LEMMA BuildStores ==
    ASSUME IInv, NEW b \in Builders, NEW v, BuildMoves(b, v), NEW blobs,
           content' = [content EXCEPT !["local"] = Join(@, blobs)],
           DOMAIN images' = Stores, images'["hub"] = images["hub"], served \subseteq served',
           \A d \in blobs.manifest : Packed(d)' /\ Stored("local", d)',
           \A r \in DOMAIN images'["local"] :
              /\ images'["local"][r] \in content'["local"].manifest
              /\ <<"local", r, images'["local"][r]>> \in served',
           BuildInv(b, v)'
    PROVE  IInv'
<1>1. TypeInv /\ "local" \in Stores
  BY DEF IInv, Stores
<1>2. /\ DOMAIN content' = Stores /\ \A u \in Stores : DOMAIN content'[u] = Kinds
      /\ \A u \in Stores \ {"local"} : content'[u] = content[u]
      /\ content'["local"].data = content["local"].data \cup blobs.data
      /\ content'["local"].config = content["local"].config \cup blobs.config
      /\ content'["local"].manifest = content["local"].manifest \cup blobs.manifest
  BY <1>1, JoinFacts
<1>3. Forward
  BY <1>2, BuildFacts DEF Forward, BuildMoves
<1>4. TypeInv'
  BY <1>1, <1>2, BuildFacts DEF TypeInv, BuildMoves
<1>5. \A u \in Stores \ {"local"} : content'[u] = content[u] /\ images'[u] = images[u]
  BY <1>2 DEF Stores
<1>6. \A u \in Stores : StoreInv(u)'
  BY <1>1, <1>2, <1>3, <1>5, StoresKeep
<1> QED BY <1>3, <1>4, <1>6, BuildFacts, StepKeeps DEF BuildMoves

\* A build that ends with an error, or goes on to another point that promises
\* no more than the one it was at.
LEMMA BuildErr ==
    ASSUME IInv, NEW b \in Builders, BuildMoves(b, [build[b] EXCEPT !.pc = "err"]), UNCHANGED stores
    PROVE  IInv'
<1>1. BuildInv(b, build[b])
  BY DEF IInv
<1>2. PICK v : v = [build[b] EXCEPT !.pc = "err"]
  OBVIOUS
<1>3. /\ DOMAIN v = BuildFields /\ v.pc = "err" /\ v.pushed = build[b].pushed
      /\ v.staged = build[b].staged
  BY <1>1, <1>2 DEF BuildInv, BuildFields
<1>4. BuildInv(b, v)'
  BY <1>1, <1>3 DEF BuildInv
<1>5. BuildMoves(b, v)
  BY <1>2
<1> QED BY <1>4, <1>5, BuildLocal

\* A build that fails at any point leaves what it has pushed and no tag.
LEMMA BuildFailsKeeps ==
    ASSUME IInv, NEW b \in Builders, BuildGoto(b, "err"), UNCHANGED stores, BuildOnly(b),
           made' = made \/ (build[b].pc = "push" /\ Packs(b))
    PROVE  IInv'
<1>1. TypeInv
  BY DEF IInv
<1>2. BuildMoves(b, [build[b] EXCEPT !.pc = "err"])
  <2>1. build' = [build EXCEPT ![b] = [build[b] EXCEPT !.pc = "err"]]
    BY <1>1 DEF TypeInv, BuildGoto
  <2>2. [build[b] EXCEPT !.pc = "err"].pc = "err"
    BY DEF IInv, BuildInv, BuildFields
  <2> QED BY <2>1, <2>2 DEF BuildMoves, BuildOnly, Packs
<1> QED BY <1>2, BuildErr

\* build.FromFile is called.
LEMMA FromFileKeeps == ASSUME IInv, NEW b \in Builders, FromFile(b) PROVE IInv'
<1> DEFINE parsed == parse(Sources[build[b].src].insts)
<1>1. /\ build[b].pc = "idle" /\ UNCHANGED <<made, stores>> /\ BuildOnly(b)
      /\ build' = [build EXCEPT ![b] = IF parsed = <<>> THEN [@ EXCEPT !.pc = "err"]
                                       ELSE [@ EXCEPT !.pc = "resolve", !.own = parsed[1]]]
  BY DEF FromFile
<1>2. TypeInv /\ BuildInv(b, build[b])
  BY DEF IInv
<1> HIDE DEF parsed
<1>3. CASE parsed = <<>>
  <2>1. BuildMoves(b, [build[b] EXCEPT !.pc = "err"])
    BY <1>1, <1>2, <1>3 DEF BuildMoves, BuildOnly, Packs, TypeInv
  <2> QED BY <1>1, <2>1, BuildErr
<1>4. CASE parsed # <<>>
  <2>0. PICK v : v = [build[b] EXCEPT !.pc = "resolve", !.own = parsed[1]]
    OBVIOUS
  <2>1. /\ DOMAIN v = BuildFields /\ v.pc = "resolve" /\ v.pushed = build[b].pushed
        /\ v.staged = build[b].staged
    BY <1>2, <2>0 DEF BuildInv, BuildFields
  <2>2. build' = [build EXCEPT ![b] = v]
    BY <1>1, <1>2, <1>4, <2>0 DEF TypeInv
  <2>3. BuildMoves(b, v)
    BY <1>1, <2>2 DEF BuildMoves, BuildOnly, Packs
  <2>4. BuildInv(b, v)'
    BY <1>1, <1>2, <2>1 DEF BuildInv
  <2> QED BY <1>1, <2>3, <2>4, BuildLocal
<1> QED BY <1>3, <1>4

\* A parent is fetched, or the chain is complete and the layers are made.
LEMMA resolveKeeps == ASSUME IInv, NEW b \in Builders, resolveDepth(b) PROVE IInv'
<1>1. build[b].pc = "resolve" /\ UNCHANGED <<made, stores>> /\ BuildOnly(b)
  BY DEF resolveDepth
<1>2. TypeInv /\ BuildInv(b, build[b])
  BY DEF IInv
<1>3. ASSUME NEW agent, Resolved(b, agent) PROVE IInv'
  <2> DEFINE layers == BuildLayers(agent, build[b].src, Sources[build[b].src].dir)
  <2>0. PICK v : v = [build[b] EXCEPT !.pc = "push", !.agent = agent, !.layers = layers]
    OBVIOUS
  <2>1. build' = [build EXCEPT ![b] = v]
    BY <1>3, <2>0 DEF Resolved
  <2> HIDE DEF layers
  <2>2. DOMAIN v = BuildFields /\ v.pc = "push" /\ v.pushed = 0 /\ v.staged = build[b].staged
    BY <1>1, <1>2, <2>0 DEF BuildInv, BuildFields
  <2>3. BuildMoves(b, v)
    BY <1>1, <2>1 DEF BuildMoves, BuildOnly, Packs
  <2>4. BuildInv(b, v)'
    BY <1>1, <1>2, <2>2 DEF BuildInv
  <2> QED BY <1>1, <2>3, <2>4, BuildLocal
<1>4. ASSUME NEW m, build' = [build EXCEPT ![b].fetched = Append(@, m)] PROVE IInv'
  <2>0. PICK v : v = [build[b] EXCEPT !.fetched = Append(@, m)]
    OBVIOUS
  <2>1. build' = [build EXCEPT ![b] = v]
    BY <1>4, <2>0
  <2>2. DOMAIN v = BuildFields /\ v.pc = "resolve" /\ v.pushed = 0 /\ v.staged = build[b].staged
    BY <1>1, <1>2, <2>0 DEF BuildInv, BuildFields
  <2>3. BuildMoves(b, v)
    BY <1>1, <2>1 DEF BuildMoves, BuildOnly, Packs
  <2>4. BuildInv(b, v)'
    BY <1>1, <1>2, <2>2 DEF BuildInv
  <2> QED BY <1>1, <2>3, <2>4, BuildLocal
<1>5. CASE BuildGoto(b, "err")
  BY <1>1, <1>5, BuildFailsKeeps
<1> QED BY <1>3, <1>4, <1>5 DEF resolveDepth

\* A blob that is pushed: staged, stored or refused.
LEMMA PushKeeps ==
    ASSUME IInv, NEW b \in Builders, NEW blobs, NEW next, Push(b, blobs, next), BuildOnly(b),
           build[b].pc \in {"push", "manifest"},
           DOMAIN blobs = Kinds, DOMAIN next = BuildFields, next.staged = build[b].staged,
           next.pushed \in Nat, next.pc \in {"push", "manifest", "digest"},
           build[b].pc = "manifest" => next.pc # "push" /\ made' = made,
           Packs(b),
           blobs.manifest \subseteq {b},
           blobs.manifest # {} => build[b].pc = "manifest",
           next.pc = "push" => \A i \in 1 .. next.pushed :
               next.layers[i][1].data \in Sent(build[b]).data \cup blobs.data,
           next.pc \in {"manifest", "digest"} =>
               /\ DataOf(made'[b]) \subseteq Sent(build[b]).data \cup blobs.data
               /\ b \in Sent(build[b]).config \cup blobs.config,
           next.pc = "digest" => b \in blobs.manifest
    PROVE  IInv'
<1>1. TypeInv /\ BuildInv(b, build[b])
  BY DEF IInv
<1>2. CASE /\ backend = "docker" /\ UNCHANGED stores
           /\ build' = [build EXCEPT ![b] = [next EXCEPT !.staged = Join(next.staged, blobs)]]
  <2> DEFINE v == [next EXCEPT !.staged = Join(next.staged, blobs)]
  <2>1. /\ DOMAIN v = BuildFields /\ v.pc = next.pc /\ v.pushed = next.pushed /\ v.layers = next.layers
        /\ v.staged = Join(build[b].staged, blobs)
    BY DEF BuildFields
  <2>2. /\ DOMAIN v.staged = Kinds /\ v.staged.data = build[b].staged.data \cup blobs.data
        /\ v.staged.config = build[b].staged.config \cup blobs.config
        /\ v.staged.manifest = build[b].staged.manifest \cup blobs.manifest
    BY <1>1, <2>1 DEF BuildInv, Join, Kinds
  <2> HIDE DEF v
  <2>3. BuildMoves(b, v)
    BY <1>2, <2>1 DEF BuildMoves, BuildOnly, Packs, v
  <2>4. Sent(build[b]) = build[b].staged /\ Sent(v)' = v.staged
    BY <1>2 DEF Sent, BuildOnly
  <2>5. BuildInv(b, v)'
    BY <1>1, <2>1, <2>2, <2>4 DEF BuildInv
  <2> QED BY <1>2, <2>3, <2>5, BuildLocal
<1>3. CASE backend = "system" /\ build' = [build EXCEPT ![b] = next] /\ PutBlobs("local", blobs)
  <2>1. BuildMoves(b, next)
    BY <1>3 DEF BuildMoves, BuildOnly, Packs
  <2>2. content' = [content EXCEPT !["local"] = Join(@, blobs)] /\ UNCHANGED <<images, served>>
    BY <1>3 DEF PutBlobs
  <2>3. /\ content'["local"].data = content["local"].data \cup blobs.data
        /\ content'["local"].config = content["local"].config \cup blobs.config
        /\ content'["local"].manifest = content["local"].manifest \cup blobs.manifest
    BY <1>1, <2>2, JoinFacts DEF Stores
  <2>4. Sent(build[b]) = content["local"] /\ Sent(next)' = content'["local"]
    BY <1>3 DEF Sent, BuildOnly
  <2>5. BuildInv(b, next)'
    BY <1>1, <1>3, <2>3, <2>4 DEF BuildInv, BuildOnly
  <2>6. \A d \in blobs.manifest : Packed(d)' /\ Stored("local", d)'
    <3>1. ASSUME b \in blobs.manifest PROVE Packed(b)'
      BY <3>1, <2>1, BuildFacts DEF Packed, Digests
    <3>2. ASSUME b \in blobs.manifest PROVE Stored("local", b)'
      BY <3>2, <2>3, <2>4 DEF Stored
    <3> QED BY <3>1, <3>2
  <2>7. StoreInv("local") /\ DOMAIN images = Stores
    BY <1>1 DEF IInv, Stores, TypeInv
  <2>8. \A r \in DOMAIN images'["local"] :
            /\ images'["local"][r] \in content'["local"].manifest
            /\ <<"local", r, images'["local"][r]>> \in served'
    BY <2>2, <2>3, <2>7 DEF StoreInv
  <2> QED BY <2>1, <2>2, <2>5, <2>6, <2>7, <2>8, BuildStores
<1>4. CASE BuildFails(b)
  BY <1>4, BuildFailsKeeps DEF BuildFails
<1> QED BY <1>2, <1>3, <1>4 DEF Push

\* One layer is pushed; the blobs of those before it stay.
LEMMA pushLayerKeeps == ASSUME IInv, NEW b \in Builders, pushLayer(b) PROVE IInv'
<1>1. build[b].pc = "push" /\ made' = made /\ Packs(b) /\ BuildOnly(b)
  BY DEF pushLayer, Packs
<1>2. TypeInv /\ BuildInv(b, build[b])
  BY DEF IInv
<1>3. PICK layer : layer = build[b].layers[build[b].pushed + 1]
  OBVIOUS
<1>4. CASE layer = <<>>
  BY <1>1, <1>3, <1>4, BuildFailsKeeps DEF pushLayer, BuildFails
<1>5. CASE layer # <<>>
  <2>1. PICK blobs : blobs = [NoBlobs EXCEPT !.data = {layer[1].data}]
    OBVIOUS
  <2>2. PICK next : next = [build[b] EXCEPT !.pushed = @ + 1]
    OBVIOUS
  <2>3. Push(b, blobs, next)
    BY <1>3, <1>5, <2>1, <2>2 DEF pushLayer
  <2>4. /\ DOMAIN blobs = Kinds /\ blobs.data = {layer[1].data} /\ blobs.manifest = {}
        /\ blobs.config = {}
    BY <2>1, NoBlobsFacts
  <2>5. /\ DOMAIN next = BuildFields /\ next.staged = build[b].staged /\ next.pc = "push"
        /\ next.pushed = build[b].pushed + 1 /\ next.layers = build[b].layers
    BY <1>1, <1>2, <2>2 DEF BuildInv, BuildFields
  <2>6. build[b].pushed \in Nat /\ next.pushed \in Nat
    <3>1. build[b].pushed \in Nat
      BY <1>2 DEF BuildInv
    <3> QED BY <2>5, <3>1
  <2>7. \A i \in 1 .. next.pushed : i \in 1 .. build[b].pushed \/ i = build[b].pushed + 1
    BY <2>5, <2>6
  <2>8. \A i \in 1 .. next.pushed : next.layers[i][1].data \in Sent(build[b]).data \cup blobs.data
    BY <1>1, <1>2, <1>3, <2>4, <2>5, <2>7 DEF BuildInv
  <2> QED BY <1>1, <2>3, <2>4, <2>5, <2>6, <2>8, PushKeeps
<1> QED BY <1>4, <1>5

\* With the last layer in place the config is pushed and the manifest is
\* fixed.
LEMMA pushConfigKeeps == ASSUME IInv, NEW b \in Builders, pushConfig(b) PROVE IInv'
<1> DEFINE layers == build[b].layers
<1>1. /\ build[b].pc = "push" /\ BuildOnly(b) /\ DOMAIN layers \subseteq 1 .. build[b].pushed
      /\ made' = [made EXCEPT ![b] = Manifest(build[b].agent, [i \in DOMAIN layers |-> layers[i][1]])]
  BY DEF pushConfig, Pack
<1>2. TypeInv /\ BuildInv(b, build[b])
  BY DEF IInv
<1>3. PICK blobs : blobs = [NoBlobs EXCEPT !.config = {b}]
  OBVIOUS
<1>4. PICK next : next = PackedState(b)
  OBVIOUS
<1>5. Push(b, blobs, next)
  BY <1>3, <1>4 DEF pushConfig
<1>6. DOMAIN blobs = Kinds /\ blobs.data = {} /\ blobs.manifest = {} /\ blobs.config = {b}
  <2>1. DOMAIN blobs = Kinds
    BY <1>3, NoBlobsFacts
  <2> QED BY <1>3, <2>1, NoBlobsFacts
<1>7. /\ DOMAIN next = BuildFields /\ next.staged = build[b].staged /\ next.pc = "manifest"
      /\ next.pushed = 0
  BY <1>2, <1>4 DEF PackedState, BuildInv, BuildFields
<1>8. DataOf(made'[b]) \subseteq Sent(build[b]).data
  <2>1. b \in DOMAIN made
    BY <1>2 DEF TypeInv, Digests
  <2>2. made'[b] = Manifest(build[b].agent, [i \in DOMAIN layers |-> layers[i][1]])
    BY <1>1, <2>1
  <2>3. made'[b].layers = [i \in DOMAIN layers |-> layers[i][1]]
    BY <2>2 DEF Manifest
  <2>4. \A i \in DOMAIN layers : layers[i][1].data \in Sent(build[b]).data
    BY <1>1, <1>2 DEF BuildInv
  <2> QED BY <2>3, <2>4 DEF DataOf
<1>9. Packs(b)
  BY <1>1 DEF Packs
<1> QED BY <1>1, <1>5, <1>6, <1>7, <1>8, <1>9, PushKeeps

\* The manifest is pushed when its blobs are there.
LEMMA pushManifestKeeps == ASSUME IInv, NEW b \in Builders, pushManifest(b) PROVE IInv'
<1>1. build[b].pc = "manifest" /\ made' = made /\ Packs(b) /\ BuildOnly(b)
  BY DEF pushManifest, Packs
<1>2. TypeInv /\ BuildInv(b, build[b])
  BY DEF IInv
<1>3. PICK blobs : blobs = [NoBlobs EXCEPT !.manifest = {b}]
  OBVIOUS
<1>4. PICK next : next = [build[b] EXCEPT !.pc = "digest"]
  OBVIOUS
<1>5. Push(b, blobs, next)
  BY <1>3, <1>4 DEF pushManifest
<1>6. DOMAIN blobs = Kinds /\ blobs.data = {} /\ blobs.manifest = {b} /\ blobs.config = {}
  <2>1. DOMAIN blobs = Kinds
    BY <1>3, NoBlobsFacts
  <2> QED BY <1>3, <2>1, NoBlobsFacts
<1>7. /\ DOMAIN next = BuildFields /\ next.staged = build[b].staged /\ next.pc = "digest"
      /\ next.pushed \in Nat
  BY <1>2, <1>4 DEF BuildInv, BuildFields
<1>8. DataOf(made'[b]) \subseteq Sent(build[b]).data /\ b \in Sent(build[b]).config
  BY <1>1, <1>2 DEF BuildInv
<1> QED BY <1>1, <1>5, <1>6, <1>7, <1>8, PushKeeps

\* Tagging by digest makes nothing new reachable, it asks for the manifest.
LEMMA tagDigestKeeps == ASSUME IInv, NEW b \in Builders, tagDigest(b) PROVE IInv'
<1>1. build[b].pc = "digest" /\ UNCHANGED <<made, stores>> /\ BuildOnly(b)
  BY DEF tagDigest
<1>2. TypeInv /\ BuildInv(b, build[b])
  BY DEF IInv
<1>3. CASE BuildGoto(b, "err")
  BY <1>1, <1>3, BuildFailsKeeps
<1>4. CASE BuildGoto(b, IF made[b].config.name = "" THEN "ok" ELSE "name")
  <2>1. PICK pc : pc = IF made[b].config.name = "" THEN "ok" ELSE "name"
    OBVIOUS
  <2>2. PICK v : v = [build[b] EXCEPT !.pc = pc]
    OBVIOUS
  <2>3. build' = [build EXCEPT ![b] = v]
    BY <1>4, <2>1, <2>2 DEF BuildGoto
  <2>4. /\ DOMAIN v = BuildFields /\ v.pushed = build[b].pushed /\ v.staged = build[b].staged
        /\ v.pc = pc
    BY <1>2, <2>2 DEF BuildInv, BuildFields
  <2>5. BuildMoves(b, v)
    BY <1>1, <2>1, <2>3, <2>4 DEF BuildMoves, BuildOnly, Packs
  <2>6. Sent(v)' = Sent(build[b])
    BY <1>1, <2>4 DEF Sent, BuildOnly, stores
  <2>7. BuildInv(b, v)'
    BY <1>1, <1>2, <2>1, <2>4, <2>6 DEF BuildInv, BuildOnly, Local, Of
  <2> QED BY <1>1, <2>5, <2>7, BuildLocal
<1> QED BY <1>3, <1>4 DEF tagDigest

\* The image is loaded with its blobs, or they are in the registry already.
LEMMA tagNameKeeps == ASSUME IInv, NEW b \in Builders, tagName(b) PROVE IInv'
<1>1. build[b].pc = "name" /\ made' = made /\ BuildOnly(b)
  BY DEF tagName
<1>2. TypeInv /\ BuildInv(b, build[b]) /\ StoreInv("local") /\ "local" \in Stores
  BY DEF IInv, Stores
<1>3. CASE BuildFails(b)
  BY <1>1, <1>3, BuildFailsKeeps DEF BuildFails
<1>4. ASSUME NEW pc \in {"ok", "err", "drained"}, BuildGoto(b, pc)
      PROVE  \E v : /\ BuildMoves(b, v) /\ DOMAIN v = BuildFields /\ v.pushed = build[b].pushed
                    /\ v.staged = build[b].staged /\ v.pc = pc
  <2>1. PICK v : v = [build[b] EXCEPT !.pc = pc]
    OBVIOUS
  <2>2. build' = [build EXCEPT ![b] = v]
    BY <1>4, <2>1 DEF BuildGoto
  <2>3. /\ DOMAIN v = BuildFields /\ v.pushed = build[b].pushed /\ v.staged = build[b].staged
        /\ v.pc = pc
    BY <1>2, <2>1 DEF BuildInv, BuildFields
  <2>4. BuildMoves(b, v)
    BY <1>1, <2>2, <2>3 DEF BuildMoves, BuildOnly, Packs
  <2> QED BY <2>3, <2>4
<1>5. CASE BuildGoto(b, "drained") /\ UNCHANGED stores
  <2>1. PICK v : /\ BuildMoves(b, v) /\ DOMAIN v = BuildFields /\ v.pushed = build[b].pushed
                 /\ v.staged = build[b].staged /\ v.pc = "drained"
    BY <1>4, <1>5
  <2>2. BuildInv(b, v)'
    BY <1>2, <2>1 DEF BuildInv
  <2> QED BY <1>5, <2>1, <2>2, BuildLocal
<1>6. ASSUME backend = "docker" \/ Has("local", b),
             StoreImage("local", Local(b), b, buildOCILayoutTar(b)),
             NEW pc \in {"ok", "err"}, BuildGoto(b, pc)
      PROVE  IInv'
  <2>1. PICK v : /\ BuildMoves(b, v) /\ DOMAIN v = BuildFields /\ v.pushed = build[b].pushed
                 /\ v.staged = build[b].staged /\ v.pc = pc
    BY <1>4, <1>6
  <2>2. PICK blobs : blobs = buildOCILayoutTar(b)
    OBVIOUS
  <2>3. PICK tags : tags = Put(images["local"], Local(b), b)
    OBVIOUS
  <2>4. content' = [content EXCEPT !["local"] = Join(@, blobs)] /\ SetImages("local", tags)
    BY <1>6, <2>2, <2>3 DEF StoreImage
  <2>tags. /\ Local(b) \in DOMAIN tags /\ tags[Local(b)] = b
           /\ \A r \in DOMAIN tags : tags[r] = b \/ (r \in DOMAIN images["local"] /\ tags[r] = images["local"][r])
    BY <2>3 DEF Put
  <2>5. /\ DOMAIN images' = Stores /\ images'["local"] = tags /\ images'["hub"] = images["hub"]
        /\ served \subseteq served' /\ \A r \in DOMAIN tags : <<"local", r, tags[r]>> \in served'
    <3>1. /\ DOMAIN images' = Stores /\ images'["local"] = tags
          /\ \A u \in Stores \ {"local"} : images'[u] = images[u]
          /\ served \subseteq served' /\ \A r \in DOMAIN tags : <<"local", r, tags[r]>> \in served'
      BY <1>2, <2>4, TagFacts
    <3> QED BY <3>1 DEF Stores
  <2>6. /\ content'["local"].data = content["local"].data \cup blobs.data
        /\ content'["local"].config = content["local"].config \cup blobs.config
        /\ content'["local"].manifest = content["local"].manifest \cup blobs.manifest
    BY <1>2, <2>4, JoinFacts
  <2>7. /\ blobs.manifest \subseteq {b}
        /\ DataOf(made[b]) \subseteq content'["local"].data /\ b \in content'["local"].config
        /\ b \in content'["local"].manifest
    <3>1. CASE backend = "docker"
      <4>1. blobs = build[b].staged /\ Sent(build[b]) = build[b].staged
        BY <2>2, <3>1 DEF buildOCILayoutTar, Sent
      <4> QED BY <1>1, <1>2, <2>6, <3>1, <4>1 DEF BuildInv
    <3>2. CASE backend # "docker"
      <4>1. blobs = NoBlobs /\ Sent(build[b]) = content["local"]
        BY <2>2, <3>2 DEF buildOCILayoutTar, Sent
      <4> QED BY <1>1, <1>2, <1>6, <2>6, <3>2, <4>1, NoBlobsFacts DEF BuildInv, Has
    <3> QED BY <3>1, <3>2
  <2>8. Packed(b)' /\ Stored("local", b)'
    <3>1. Packed(b)'
      <4>1. build'[b] = v
        BY <2>1, BuildFacts
      <4> QED BY <2>1, <4>1 DEF Packed, Digests
    <3>2. Stored("local", b)'
      BY <1>1, <2>7 DEF Stored
    <3> QED BY <3>1, <3>2
  <2>9. \A r \in DOMAIN tags : tags[r] \in content'["local"].manifest
    BY <1>2, <2>6, <2>7, <2>tags DEF StoreInv
  <2>10. <<"local", Local(b), b>> \in served'
    BY <2>5, <2>tags
  <2>11. BuildInv(b, v)'
    BY <1>1, <1>2, <2>1, <2>10 DEF BuildInv, Local, Of
  <2> QED BY <2>1, <2>4, <2>5, <2>7, <2>8, <2>9, <2>11, BuildStores
<1> QED BY <1>3, <1>5, <1>6 DEF tagName

\* A build, from call to return.
LEMMA BuildStepKeeps ==
    ASSUME IInv, NEW b \in Builders, FromFile(b) \/ BuildStep(b) PROVE IInv'
BY FromFileKeeps, resolveKeeps, pushLayerKeeps, pushConfigKeeps, pushManifestKeeps, tagDigestKeeps,
   tagNameKeeps DEF BuildStep

-----------------------------------------------------------------------------
(* Registry calls.                                                            *)

CallMoves(c, v) == call' = [call EXCEPT ![c] = v] /\ CallOnly(c)

\* The same call, at another point.
Continues(c, v, pc) ==
    /\ DOMAIN v = CallFields /\ v.pc = pc /\ v.kind = call[c].kind /\ v.from = call[c].from
    /\ v.ref = call[c].ref /\ v.to = call[c].to /\ v.dst = call[c].dst

\* A registry call changes its own local variables and no manifest.
LEMMA CallFacts ==
    ASSUME IInv, NEW c \in Calls, NEW v, CallMoves(c, v)
    PROVE  /\ DOMAIN call' = Calls /\ call'[c] = v /\ \A u \in Calls \ {c} : call'[u] = call[u]
           /\ \A d \in Digests : Packed(d) => Packed(d)' /\ made'[d] = made[d]
BY DEF IInv, TypeInv, CallMoves, CallOnly, Packed

\* A step of a call that leaves the stores alone.
LEMMA CallLocal ==
    ASSUME IInv, NEW c \in Calls, NEW v, CallMoves(c, v), UNCHANGED <<images, content, served>>, CallInv(v)'
    PROVE  IInv'
<1>1. UNCHANGED <<images, content, served>>
  OBVIOUS
<1>2. Forward
  BY <1>1, CallFacts DEF Forward, CallMoves, CallOnly
<1>3. TypeInv'
  BY <1>1, CallFacts DEF IInv, TypeInv, CallMoves, CallOnly
<1>4. \A u \in Stores : StoreInv(u)'
  BY <1>1, <1>2, StoresUnchanged
<1> QED BY <1>2, <1>3, <1>4, CallFacts, StepKeeps DEF CallMoves, CallOnly

\* A call that puts blobs into store s, and tags if at all.
LEMMA CallStores ==
    ASSUME IInv, NEW c \in Calls, NEW v, CallMoves(c, v), NEW s \in Stores, NEW blobs,
           content' = [content EXCEPT ![s] = Join(@, blobs)],
           DOMAIN images' = Stores, \A u \in Stores \ {s} : images'[u] = images[u],
           served \subseteq served',
           \A d \in blobs.manifest : Packed(d) /\ Stored(s, d)',
           \A r \in DOMAIN images'[s] :
              images'[s][r] \in content'[s].manifest /\ <<s, r, images'[s][r]>> \in served',
           CallInv(v)'
    PROVE  IInv'
<1>1. TypeInv
  BY DEF IInv
<1>2. /\ DOMAIN content' = Stores /\ \A u \in Stores : DOMAIN content'[u] = Kinds
      /\ \A u \in Stores \ {s} : content'[u] = content[u]
      /\ content'[s].data = content[s].data \cup blobs.data
      /\ content'[s].config = content[s].config \cup blobs.config
      /\ content'[s].manifest = content[s].manifest \cup blobs.manifest
  BY <1>1, JoinFacts
<1>3. Forward
  BY <1>2, CallFacts DEF Forward, CallMoves, CallOnly
<1>4. TypeInv'
  BY <1>1, <1>2, CallFacts DEF TypeInv, CallMoves, CallOnly
<1>5. \A d \in blobs.manifest : Packed(d)'
  BY CallFacts DEF Packed
<1>6. \A u \in Stores : StoreInv(u)'
  BY <1>2, <1>3, <1>5, StoresKeep
<1> QED BY <1>3, <1>4, <1>6, CallFacts, StepKeeps DEF CallMoves, CallOnly

\* A step of a call that adds blobs and no manifest to a store.
LEMMA CallPuts ==
    ASSUME IInv, NEW c \in Calls, NEW v, CallMoves(c, v), NEW s \in Stores, NEW blobs,
           PutBlobs(s, blobs), blobs.manifest = {}, CallInv(v)'
    PROVE  IInv'
<1>1. content' = [content EXCEPT ![s] = Join(@, blobs)] /\ UNCHANGED <<images, served>>
  BY DEF PutBlobs
<1>2. TypeInv /\ StoreInv(s)
  BY DEF IInv
<1>3. content'[s].manifest = content[s].manifest
  BY <1>1, <1>2, JoinFacts
<1>4. \A r \in DOMAIN images'[s] :
         images'[s][r] \in content'[s].manifest /\ <<s, r, images'[s][r]>> \in served'
  BY <1>1, <1>2, <1>3 DEF StoreInv
<1>5. DOMAIN images' = Stores
  BY <1>1, <1>2 DEF TypeInv
<1> QED BY <1>1, <1>4, <1>5, CallStores

\* A call that tags m in store s, with the blobs that were missing.
LEMMA CallTags ==
    ASSUME IInv, NEW c \in Calls, NEW v, CallMoves(c, v), NEW s \in Stores, NEW ref, NEW m, NEW blobs,
           StoreImage(s, ref, m, blobs), blobs.manifest \subseteq {m},
           m \in content[s].manifest \cup blobs.manifest, Packed(m),
           DataOf(made[m]) \subseteq content[s].data \cup blobs.data,
           m \in content[s].config \cup blobs.config,
           <<s, ref, m>> \in served' => CallInv(v)'
    PROVE  IInv'
<1>1. TypeInv /\ StoreInv(s)
  BY DEF IInv
<1>2. PICK tags : tags = Put(images[s], ref, m)
  OBVIOUS
<1>3. content' = [content EXCEPT ![s] = Join(@, blobs)] /\ SetImages(s, tags)
  BY <1>2 DEF StoreImage
<1>4. /\ DOMAIN images' = Stores /\ images'[s] = tags
      /\ \A u \in Stores \ {s} : images'[u] = images[u]
      /\ served \subseteq served' /\ \A r \in DOMAIN tags : <<s, r, tags[r]>> \in served'
  BY <1>1, <1>3, TagFacts
<1>5. /\ ref \in DOMAIN tags /\ tags[ref] = m
      /\ \A r \in DOMAIN tags : tags[r] = m \/ (r \in DOMAIN images[s] /\ tags[r] = images[s][r])
  BY <1>2 DEF Put
<1>6. /\ content'[s].data = content[s].data \cup blobs.data
      /\ content'[s].config = content[s].config \cup blobs.config
      /\ content'[s].manifest = content[s].manifest \cup blobs.manifest
  BY <1>1, <1>3, JoinFacts
<1>7. \A r \in DOMAIN tags : tags[r] \in content'[s].manifest
  BY <1>1, <1>5, <1>6 DEF StoreInv
<1>8. \A d \in blobs.manifest : Packed(d) /\ Stored(s, d)'
  <2>1. made' = made
    BY DEF CallMoves, CallOnly
  <2> QED BY <1>6, <2>1 DEF Stored
<1>9. CallInv(v)'
  BY <1>4, <1>5
<1> QED BY <1>3, <1>4, <1>7, <1>8, <1>9, CallStores

\* A call at pc, or one that ends with an error or with its error drained.
LEMMA CallGotoKeeps ==
    ASSUME IInv, NEW c \in Calls, NEW pc \in {"err", "drained"}, CallGoto(c, pc), UNCHANGED stores,
           CallOnly(c), call[c].pc \notin {"off", "idle"}
    PROVE  IInv'
<1>1. CallInv(call[c])
  BY DEF IInv
<1>2. PICK v : v = [call[c] EXCEPT !.pc = pc]
  OBVIOUS
<1>3. CallMoves(c, v)
  BY <1>2 DEF CallGoto, CallMoves
<1>4. Continues(c, v, pc)
  BY <1>1, <1>2 DEF CallInv, CallFields, Continues
<1>5. CallInv(v)'
  BY <1>1, <1>4 DEF CallInv, Continues
<1> QED BY <1>3, <1>5, CallLocal DEF stores

\* A registry call begins with nothing to rely on.
LEMMA BeginKeeps ==
    ASSUME IInv, NEW c \in Calls, NEW kind, NEW from \in Stores, NEW ref, NEW to \in Stores, NEW dst,
           NEW pc \in {"resolve", "tag", "transfer"}, Begin(c, kind, from, ref, to, dst, pc),
           kind = "tag" => to = "local",
           pc = "tag" => backend = "docker" /\ kind \in {"tag", "push"}
    PROVE  IInv'
<1>1. CallInv(call[c])
  BY DEF IInv
<1>2. PICK v : v = [call[c] EXCEPT !.pc = pc, !.kind = kind, !.from = from, !.ref = ref,
                                   !.to = to, !.dst = dst]
  OBVIOUS
<1>3. CallMoves(c, v) /\ UNCHANGED <<images, content, served>>
  BY <1>2 DEF Begin, CallMoves
<1>4. DOMAIN v = CallFields /\ v.pc = pc /\ v.kind = kind /\ v.from = from /\ v.to = to
  BY <1>1, <1>2 DEF CallInv, CallFields
<1>5. backend' = backend /\ (backend = "docker" => backend # "system")
  BY <1>3 DEF CallMoves, CallOnly
<1>6. CallInv(v)'
  BY <1>4, <1>5 DEF CallInv
<1> QED BY <1>3, <1>6, CallLocal

\* Tag, Remove, pull and push are called.
LEMMA CallBeginsKeeps ==
    ASSUME IInv, NEW c \in Calls, Tag(c) \/ RemoveRef(c) \/ PullRemote(c) \/ PushRemote(c) PROVE IInv'
<1>1. backend \in {"system", "docker"} /\ "local" \in Stores /\ "hub" \in Stores
  BY DEF IInv, TypeInv, Stores
<1>2. CASE Tag(c)
  <2>1. PICK pc : pc = IF backend = "system" THEN "resolve" ELSE "tag"
    OBVIOUS
  <2>2. PICK ref, dst : Begin(c, "tag", "local", ref, "local", dst, pc)
    BY <1>2, <2>1 DEF Tag
  <2> QED BY <1>1, <2>1, <2>2, BeginKeeps
<1>3. CASE RemoveRef(c)
  <2>1. PICK ref : Begin(c, "remove", "local", ref, "local", ref, "resolve")
    BY <1>3 DEF RemoveRef
  <2> QED BY <1>1, <2>1, BeginKeeps
<1>4. CASE PullRemote(c)
  <2>1. PICK pc : pc = IF backend = "system" THEN "resolve" ELSE "transfer"
    OBVIOUS
  <2>2. PICK ref : Begin(c, "pull", "hub", ref, "local", ref, pc)
    BY <1>4, <2>1 DEF PullRemote
  <2> QED BY <1>1, <2>1, <2>2, BeginKeeps
<1>5. CASE PushRemote(c)
  <2>1. PICK ref : LET dst == [ref EXCEPT !.host = "hub"]
                   IN  Begin(c, "push", "local", ref, "hub", dst,
                             IF backend = "system" THEN "resolve" ELSE IF ref = dst THEN "transfer" ELSE "tag")
    BY <1>5 DEF PushRemote
  <2>2. PICK dst, pc : /\ dst = [ref EXCEPT !.host = "hub"]
                       /\ pc = IF backend = "system" THEN "resolve" ELSE IF ref = dst THEN "transfer" ELSE "tag"
    OBVIOUS
  <2>3. Begin(c, "push", "local", ref, "hub", dst, pc)
    BY <2>1, <2>2
  <2> QED BY <1>1, <2>2, <2>3, BeginKeeps
<1> QED BY <1>2, <1>3, <1>4, <1>5

\* What is looked up is a manifest of the store, and so is packed.
LEMMA resolveImageIDKeeps == ASSUME IInv, NEW c \in Calls, resolveImageID(c) PROVE IInv'
<1>1. call[c].pc = "resolve" /\ CallOnly(c)
  BY DEF resolveImageID
<1>2. CallInv(call[c]) /\ call[c].from \in Stores /\ StoreInv(call[c].from)
  BY <1>1 DEF IInv, CallInv
<1>3. CASE CallFails(c)
  BY <1>1, <1>3, CallGotoKeeps DEF CallFails
<1>4. CASE ~CallFails(c)
  <2> DEFINE found == images[call[c].from]
             pc == IF call[c].kind \in {"tag", "remove"} THEN call[c].kind ELSE "blobs"
  <2>1. /\ call[c].ref \in DOMAIN found /\ UNCHANGED stores
        /\ call' = [call EXCEPT ![c].m = found[call[c].ref], ![c].pc = pc]
    BY <1>4 DEF resolveImageID
  <2>2. PICK m : m = found[call[c].ref]
    OBVIOUS
  <2>3. PICK v : v = [call[c] EXCEPT !.m = m, !.pc = pc]
    OBVIOUS
  <2>4. call' = [call EXCEPT ![c] = v]
    BY <2>1, <2>2, <2>3
  <2>5. Continues(c, v, pc) /\ v.m = m
    BY <1>2, <2>3 DEF CallInv, CallFields, Continues
  <2>6. Packed(m)
    BY <1>2, <2>1, <2>2 DEF StoreInv
  <2>7. CallMoves(c, v)
    BY <1>1, <2>4 DEF CallMoves
  <2>8. Packed(v.m)'
    BY <2>5, <2>6, <2>7, CallFacts DEF Packed
  <2>9. CallInv(v)'
    BY <1>1, <1>2, <2>5, <2>8 DEF CallInv, Continues
  <2> QED BY <2>1, <2>7, <2>9, CallLocal DEF stores
<1> QED BY <1>3, <1>4

\* Tag writes a reference to what it has looked up: the manifest is still
\* there.
LEMMA tagKeeps == ASSUME IInv, NEW c \in Calls, tag(c) PROVE IInv'
<1>1. call[c].pc = "tag" /\ CallOnly(c)
  BY DEF tag
<1>2. CallInv(call[c]) /\ "local" \in Stores /\ StoreInv("local") /\ backend \in {"system", "docker"}
  BY DEF IInv, Stores, TypeInv
<1>3. CASE CallFails(c)
  BY <1>1, <1>3, CallGotoKeeps DEF CallFails
<1>4. CASE ~CallFails(c)
  <2>1. PICK m : m = IF backend = "docker" THEN images["local"][call[c].ref] ELSE call[c].m
    OBVIOUS
  <2>2. PICK pc \in {IF call[c].kind = "push" THEN "transfer" ELSE "ok", "err"} :
           call' = [call EXCEPT ![c].m = m, ![c].pc = pc]
    BY <1>4, <2>1 DEF tag
  <2>3. /\ Has("local", m) /\ StoreImage("local", call[c].dst, m, NoBlobs)
        /\ call' = [call EXCEPT ![c].m = m, ![c].pc = pc]
    BY <1>4, <2>1, <2>2 DEF tag
  <2>4. PICK v : v = [call[c] EXCEPT !.m = m, !.pc = pc]
    OBVIOUS
  <2>5. CallMoves(c, v)
    BY <1>1, <2>3, <2>4 DEF CallMoves
  <2>6. Continues(c, v, pc) /\ v.m = m
    BY <1>2, <2>4 DEF CallInv, CallFields, Continues
  <2>7. /\ m \in content["local"].manifest /\ Packed(m) /\ DataOf(made[m]) \subseteq content["local"].data
        /\ m \in content["local"].config
    BY <1>2, <2>3 DEF Has, StoreInv, Stored
  <2>8. <<"local", call[c].dst, m>> \in served' => CallInv(v)'
    BY <1>1, <1>2, <2>2, <2>6 DEF CallInv, Continues
  <2>9. PICK dst : dst = call[c].dst
    OBVIOUS
  <2> QED BY <1>2, <2>3, <2>5, <2>7, <2>8, <2>9, NoBlobsFacts, CallTags
<1> QED BY <1>3, <1>4

\* The manifest goes only when its last tag has gone; blobs stay.
LEMMA removeKeeps == ASSUME IInv, NEW c \in Calls, remove(c) PROVE IInv'
<1>1. call[c].pc = "remove" /\ CallOnly(c)
  BY DEF remove
<1>2. TypeInv /\ CallInv(call[c]) /\ "local" \in Stores /\ StoreInv("local")
  BY DEF IInv, Stores
<1>3. CASE CallFails(c)
  BY <1>1, <1>3, CallGotoKeeps DEF CallFails
<1>4. CASE ~CallFails(c)
  <2>1. PICK m : m = call[c].m
    OBVIOUS
  <2>2. PICK kept : kept = Only(images["local"], DOMAIN images["local"] \ Untagged(m, call[c].ref))
    OBVIOUS
  <2>3. /\ SetImages("local", kept)
        /\ content' = IF \E r \in DOMAIN kept : kept[r] = m THEN content
                      ELSE [content EXCEPT !["local"].manifest = @ \ {m}]
    BY <1>4, <2>1, <2>2 DEF remove
  <2>4. PICK pc \in {"ok", "err"} : CallGoto(c, pc)
    BY <1>4 DEF remove
  <2>5. PICK v : v = [call[c] EXCEPT !.pc = pc]
    OBVIOUS
  <2>6. CallMoves(c, v)
    BY <1>1, <2>4, <2>5 DEF CallMoves, CallGoto
  <2>7. Continues(c, v, pc)
    BY <1>2, <2>5 DEF CallInv, CallFields, Continues
  <2>8. CallInv(v)'
    BY <1>1, <1>2, <2>7 DEF CallInv, Continues
  <2>9. /\ DOMAIN images' = Stores /\ images'["local"] = kept
        /\ \A u \in Stores \ {"local"} : images'[u] = images[u]
        /\ served \subseteq served' /\ \A r \in DOMAIN kept : <<"local", r, kept[r]>> \in served'
    BY <1>2, <2>3, TagFacts
  <2>10. \A r \in DOMAIN kept : r \in DOMAIN images["local"] /\ kept[r] = images["local"][r]
    BY <2>2 DEF Only
  <2>11. /\ DOMAIN content' = Stores /\ \A u \in Stores : DOMAIN content'[u] = Kinds
         /\ \A u \in Stores \ {"local"} : content'[u] = content[u]
         /\ content'["local"].data = content["local"].data
         /\ content'["local"].config = content["local"].config
         /\ content'["local"].manifest \subseteq content["local"].manifest
         /\ \A r \in DOMAIN kept : kept[r] \in content["local"].manifest => kept[r] \in content'["local"].manifest
    <3>1. CASE \E r \in DOMAIN kept : kept[r] = m
      BY <1>2, <2>3, <3>1 DEF TypeInv
    <3>2. CASE ~\E r \in DOMAIN kept : kept[r] = m
      <4>1. content' = [content EXCEPT !["local"] = [content["local"] EXCEPT !.manifest = @ \ {m}]]
        BY <2>3, <3>2
      <4>2. /\ DOMAIN content' = Stores /\ \A u \in Stores \ {"local"} : content'[u] = content[u]
            /\ content'["local"] = [content["local"] EXCEPT !.manifest = @ \ {m}]
        BY <1>2, <4>1 DEF TypeInv
      <4>3. /\ DOMAIN content'["local"] = Kinds /\ content'["local"].data = content["local"].data
            /\ content'["local"].config = content["local"].config
            /\ content'["local"].manifest = content["local"].manifest \ {m}
        BY <1>2, <4>2 DEF TypeInv, Kinds
      <4> QED BY <1>2, <3>2, <4>2, <4>3 DEF TypeInv
    <3> QED BY <3>1, <3>2
  <2>12. Forward
    BY <2>6, <2>9, <2>11, CallFacts DEF Forward, CallMoves, CallOnly
  <2>13. TypeInv'
    BY <1>2, <2>6, <2>9, <2>11, CallFacts DEF TypeInv, CallMoves, CallOnly
  <2>14. \A r \in DOMAIN images'["local"] :
            /\ images'["local"][r] \in content'["local"].manifest
            /\ <<"local", r, images'["local"][r]>> \in served'
    BY <1>2, <2>9, <2>10, <2>11 DEF StoreInv
  <2>15. \A u \in Stores : StoreInv(u)'
    BY <1>2, <2>9, <2>11, <2>12, <2>14, StoresKeep
  <2> QED BY <2>6, <2>8, <2>12, <2>13, <2>15, CallFacts, StepKeeps DEF CallMoves, CallOnly
<1> QED BY <1>3, <1>4

\* Under docker the daemon moves image and reference in one request.
LEMMA transferKeeps == ASSUME IInv, NEW c \in Calls, transfer(c) PROVE IInv'
<1>1. call[c].pc = "transfer" /\ CallOnly(c)
  BY DEF transfer
<1>2. /\ CallInv(call[c]) /\ call[c].from \in Stores /\ call[c].to \in Stores
      /\ StoreInv(call[c].from)
  BY <1>1 DEF IInv, CallInv
<1>3. CASE \E pc \in {"err", "drained"} : CallGoto(c, pc) /\ UNCHANGED stores
  BY <1>1, <1>3, CallGotoKeeps
<1>4. CASE ~\E pc \in {"err", "drained"} : CallGoto(c, pc) /\ UNCHANGED stores
  <2>1. PICK src : src = IF call[c].kind = "push" THEN call[c].dst ELSE call[c].ref
    OBVIOUS
  <2>2. PICK m : m = images[call[c].from][src]
    OBVIOUS
  <2>3. src \in DOMAIN images[call[c].from] /\ StoreImage(call[c].to, call[c].dst, m, Blobs(m))
    BY <1>4, <2>1, <2>2 DEF transfer
  <2>4. PICK pc \in {"ok", "err"} : call' = [call EXCEPT ![c].m = m, ![c].pc = pc]
    BY <1>4, <2>1, <2>2 DEF transfer
  <2>5. PICK v : v = [call[c] EXCEPT !.m = m, !.pc = pc]
    OBVIOUS
  <2>6. CallMoves(c, v)
    BY <1>1, <2>4, <2>5 DEF CallMoves
  <2>7. Continues(c, v, pc) /\ v.m = m
    BY <1>2, <2>5 DEF CallInv, CallFields, Continues
  <2>8. Packed(m)
    BY <1>2, <2>2, <2>3 DEF StoreInv
  <2>9. PICK blobs : blobs = Blobs(m)
    OBVIOUS
  <2>10. blobs.manifest = {m} /\ blobs.config = {m} /\ blobs.data = DataOf(made[m])
    BY <2>9 DEF Blobs, Of
  <2>11. PICK to, dst : to \in Stores /\ to = call[c].to /\ dst = call[c].dst
    BY <1>2
  <2>12. <<to, dst, m>> \in served' => CallInv(v)'
    BY <1>1, <1>2, <2>7, <2>11 DEF CallInv, Continues
  <2> QED BY <2>3, <2>6, <2>8, <2>9, <2>10, <2>11, <2>12, CallTags
<1> QED BY <1>3, <1>4

\* A request that is sent again leaves the call where it was, or ends it.
LEMMA RetryFacts ==
    ASSUME IInv, NEW c \in Calls, NEW canRetry \in BOOLEAN, Retry(c, canRetry), CallOnly(c)
    PROVE  \E v : /\ CallMoves(c, v) /\ v.m = call[c].m
                  /\ Continues(c, v, call[c].pc) \/ Continues(c, v, "err")
<1>1. CallInv(call[c])
  BY DEF IInv
<1>2. PICK v : v = IF canRetry /\ call[c].tries < MaxTries THEN [call[c] EXCEPT !.tries = call[c].tries + 1]
                   ELSE [call[c] EXCEPT !.pc = "err"]
  OBVIOUS
<1>3. CallMoves(c, v)
  BY <1>2 DEF Retry, CallMoves
<1>4. v.m = call[c].m /\ (Continues(c, v, call[c].pc) \/ Continues(c, v, "err"))
  <2>1. CASE v = [call[c] EXCEPT !.tries = call[c].tries + 1]
    BY <1>1, <2>1 DEF CallInv, CallFields, Continues
  <2>2. CASE v = [call[c] EXCEPT !.pc = "err"]
    BY <1>1, <2>2 DEF CallInv, CallFields, Continues
  <2> QED BY <1>2, <2>1, <2>2
<1> QED BY <1>3, <1>4

\* A call that goes on to another label keeps what it looked up.
LEMMA GotoFacts ==
    ASSUME IInv, NEW c \in Calls, NEW pc, CallGoto(c, pc), CallOnly(c)
    PROVE  \E v : CallMoves(c, v) /\ v.m = call[c].m /\ Continues(c, v, pc)
<1>1. CallInv(call[c])
  BY DEF IInv
<1>2. PICK v : v = [call[c] EXCEPT !.pc = pc]
  OBVIOUS
<1>3. CallMoves(c, v)
  BY <1>2 DEF CallGoto, CallMoves
<1>4. v.m = call[c].m /\ Continues(c, v, pc)
  BY <1>1, <1>2 DEF CallInv, CallFields, Continues
<1> QED BY <1>3, <1>4

\* Copy brings the blobs of the manifest before the manifest.
LEMMA copyBlobsKeeps == ASSUME IInv, NEW c \in Calls, copyBlobs(c) PROVE IInv'
<1>1. call[c].pc = "blobs" /\ CallOnly(c)
  BY DEF copyBlobs
<1>2. TypeInv /\ CallInv(call[c]) /\ call[c].to \in Stores /\ Packed(call[c].m)
  BY <1>1 DEF IInv, CallInv
<1>3. PICK blobs : blobs = [Blobs(call[c].m) EXCEPT !.manifest = {}]
  OBVIOUS
<1>4. blobs.manifest = {} /\ blobs.data = DataOf(made[call[c].m]) /\ blobs.config = {call[c].m}
  BY <1>3 DEF Blobs, Of
<1>5. PICK to \in Stores : to = call[c].to
  BY <1>2
<1>6. PICK canRetry \in BOOLEAN : RoundTrip(c, canRetry, PutBlobs(to, blobs), "copy")
  BY <1>3, <1>5 DEF copyBlobs
<1>7. CASE PutBlobs(to, blobs) /\ CallGoto(c, "copy")
  <2>1. PICK v : CallMoves(c, v) /\ v.m = call[c].m /\ Continues(c, v, "copy")
    BY <1>1, <1>7, GotoFacts
  <2>2. Packed(v.m)'
    BY <1>2, <2>1, CallFacts DEF Packed
  <2>3. Stored(to, v.m)'
    <3>1. content'[to].data = content[to].data \cup blobs.data /\ content'[to].config = content[to].config \cup blobs.config
      BY <1>2, <1>7, JoinFacts DEF PutBlobs
    <3>2. made' = made
      BY <1>1 DEF CallOnly
    <3> QED BY <1>4, <2>1, <3>1, <3>2 DEF Stored
  <2>4. CallInv(v)'
    BY <1>1, <1>2, <1>5, <2>1, <2>2, <2>3 DEF CallInv, Continues
  <2> QED BY <1>4, <1>7, <2>1, <2>4, CallPuts
<1>8. CASE (PutBlobs(to, blobs) \/ UNCHANGED stores) /\ Retry(c, canRetry)
  <2>1. PICK v : /\ CallMoves(c, v) /\ v.m = call[c].m
                 /\ Continues(c, v, "blobs") \/ Continues(c, v, "err")
    BY <1>1, <1>8, RetryFacts
  <2>2. Packed(v.m)'
    BY <1>2, <2>1, CallFacts DEF Packed
  <2>3. CallInv(v)'
    BY <1>1, <1>2, <2>1, <2>2 DEF CallInv, Continues
  <2>4. CASE PutBlobs(to, blobs)
    BY <1>4, <2>1, <2>3, <2>4, CallPuts
  <2>5. CASE UNCHANGED stores
    BY <2>1, <2>3, <2>5, CallLocal DEF stores
  <2> QED BY <1>8, <2>4, <2>5
<1> QED BY <1>6, <1>7, <1>8 DEF RoundTrip

\* The manifest is stored under its tag, after its blobs and perhaps twice.
LEMMA copyManifestKeeps == ASSUME IInv, NEW c \in Calls, copyManifest(c) PROVE IInv'
<1>1. call[c].pc = "copy" /\ CallOnly(c)
  BY DEF copyManifest
<1>2. /\ TypeInv /\ CallInv(call[c]) /\ call[c].to \in Stores /\ Packed(call[c].m)
      /\ Stored(call[c].to, call[c].m)
  BY <1>1 DEF IInv, CallInv
<1>3. PICK to, dst, m : to \in Stores /\ to = call[c].to /\ dst = call[c].dst /\ m = call[c].m
  BY <1>2
<1>4. PICK blobs : blobs = [NoBlobs EXCEPT !.manifest = {m}]
  OBVIOUS
<1>5. blobs.manifest = {m} /\ blobs.data = {} /\ blobs.config = {}
  BY <1>4, NoBlobsFacts
<1>6. RoundTrip(c, TRUE, StoreImage(to, dst, m, blobs), "ok")
  BY <1>3, <1>4 DEF copyManifest
<1>7. /\ DataOf(made[m]) \subseteq content[to].data /\ m \in content[to].config /\ Packed(m)
  BY <1>2, <1>3 DEF Stored
<1>8. CASE StoreImage(to, dst, m, blobs) /\ CallGoto(c, "ok")
  <2>1. PICK v : CallMoves(c, v) /\ v.m = call[c].m /\ Continues(c, v, "ok")
    BY <1>1, <1>8, GotoFacts
  <2>2. <<to, dst, m>> \in served' => CallInv(v)'
    BY <1>1, <1>2, <1>3, <2>1 DEF CallInv, Continues
  <2> QED BY <1>3, <1>5, <1>7, <1>8, <2>1, <2>2, CallTags
<1>9. CASE (StoreImage(to, dst, m, blobs) \/ UNCHANGED stores) /\ Retry(c, TRUE)
  <2>1. PICK v : /\ CallMoves(c, v) /\ v.m = call[c].m
                 /\ Continues(c, v, "copy") \/ Continues(c, v, "err")
    BY <1>1, <1>9, RetryFacts
  <2>2. Packed(v.m)' /\ made' = made
    BY <1>2, <2>1, CallFacts DEF Packed, CallMoves, CallOnly
  <2>3. content[to].data \subseteq content'[to].data /\ content[to].config \subseteq content'[to].config
    <3>1. CASE StoreImage(to, dst, m, blobs)
      <4>1. TypeInv /\ to \in Stores
        BY <1>2, <1>3
      <4>2. content' = [content EXCEPT ![to] = Join(@, blobs)]
        BY <3>1 DEF StoreImage
      <4> QED BY <4>1, <4>2, JoinFacts
    <3>2. CASE UNCHANGED stores
      BY <3>2 DEF stores
    <3> QED BY <1>9, <3>1, <3>2
  <2>4. Stored(to, v.m)'
    BY <1>3, <1>7, <2>1, <2>2, <2>3 DEF Stored
  <2>5. CallInv(v)'
    BY <1>1, <1>2, <1>3, <2>1, <2>2, <2>4 DEF CallInv, Continues
  <2>6. CASE StoreImage(to, dst, m, blobs)
    BY <1>3, <1>5, <1>7, <2>1, <2>5, <2>6, CallTags
  <2>7. CASE UNCHANGED stores
    BY <2>1, <2>5, <2>7, CallLocal DEF stores
  <2> QED BY <1>9, <2>6, <2>7
<1> QED BY <1>6, <1>8, <1>9 DEF RoundTrip

\* A registry call, from call to return.
LEMMA CallStepKeeps == ASSUME IInv, NEW c \in Calls, CallStep(c) PROVE IInv'
BY resolveImageIDKeeps, tagKeeps, removeKeeps, transferKeeps, copyBlobsKeeps, copyManifestKeeps
   DEF CallStep

-----------------------------------------------------------------------------
(* Listings and deployments change no store.                                  *)

\* Listings and deployments write no store.
LEMMA ReadersKeep ==
    ASSUME IInv, UNCHANGED <<backend, made, build, call, images, content, served>>,
           DOMAIN deploy' = Deployers,
           \A d \in Deployers : deploy'[d] = deploy[d] \/ DeployInv(deploy[d])'
    PROVE  IInv'
<1>1. Forward
  BY DEF Forward, Packed
<1>2. TypeInv'
  BY DEF IInv, TypeInv
<1>3. \A u \in Stores : StoreInv(u)'
  BY <1>1, StoresUnchanged
<1> QED BY <1>1, <1>2, <1>3, StepKeeps

\* A listing reads.
LEMMA ListKeeps == ASSUME IInv, NEW l \in Listers, List(l) \/ ListStep(l) PROVE IInv'
<1>1. ListOnly
  BY DEF List, ListStep, fetchTags, listed, Inspect
<1>2. DOMAIN deploy' = Deployers
  BY <1>1 DEF ListOnly, IInv, TypeInv
<1> QED BY <1>1, <1>2, ReadersKeep DEF ListOnly

\* A step of a deployment changes its own local variables.
LEMMA DeployMoves ==
    ASSUME IInv, NEW d \in Deployers, NEW v, deploy' = [deploy EXCEPT ![d] = v], DeployOnly(d), DeployInv(v)'
    PROVE  IInv'
<1>1. /\ DOMAIN deploy' = Deployers /\ deploy'[d] = v
      /\ \A u \in Deployers \ {d} : deploy'[u] = deploy[u]
  BY DEF IInv, TypeInv
<1>2. UNCHANGED <<backend, made, build, call, images, content, served>>
  BY DEF DeployOnly, stores
<1>3. \A u \in Deployers : deploy'[u] = deploy[u] \/ DeployInv(deploy[u])'
  BY <1>1
<1> QED BY <1>1, <1>2, <1>3, ReadersKeep

\* A deployment resolves its reference once and reads config and layers by
\* digest.
LEMMA DeployKeeps == ASSUME IInv, NEW d \in Deployers, Deploy(d) \/ DeployStep(d) PROVE IInv'
<1>1. DeployInv(deploy[d]) /\ StoreInv("local") /\ DeployOnly(d) /\ served' = served
  BY DEF IInv, Stores, Deploy, DeployStep, DeployResolve, Load, materialize, DeployOnly, stores
<1>2. CASE DeployFails(d)
  <2>1. PICK v : v = [deploy[d] EXCEPT !.pc = "err"]
    OBVIOUS
  <2>2. DeployInv(v)'
    BY <1>1, <2>1 DEF DeployInv, DeployFields
  <2> QED BY <1>1, <1>2, <2>1, <2>2, DeployMoves DEF DeployFails
<1>3. CASE Deploy(d)
  <2>1. PICK ref, o : deploy' = [deploy EXCEPT ![d] = [@ EXCEPT !.pc = "resolve", !.ref = ref, !.with = o]]
    BY <1>3 DEF Deploy
  <2>2. PICK v : v = [deploy[d] EXCEPT !.pc = "resolve", !.ref = ref, !.with = o]
    OBVIOUS
  <2>3. DeployInv(v)'
    BY <1>1, <2>2 DEF DeployInv, DeployFields
  <2> QED BY <1>1, <2>1, <2>2, <2>3, DeployMoves
<1>4. CASE DeployResolve(d) /\ ~DeployFails(d)
  <2>1. PICK m : m = hydrate(deploy[d].ref)
    OBVIOUS
  <2>2. /\ deploy[d].ref \in DOMAIN images["local"]
        /\ deploy' = [deploy EXCEPT ![d].pc = "fetch", ![d].m = m]
    BY <1>4, <2>1 DEF DeployResolve
  <2>3. PICK v : v = [deploy[d] EXCEPT !.pc = "fetch", !.m = m]
    OBVIOUS
  <2>4. DOMAIN v = DeployFields /\ v.pc = "fetch" /\ v.m = m /\ v.ref = deploy[d].ref
    BY <1>1, <2>3 DEF DeployInv, DeployFields
  <2>5. DeployInv(v)'
    BY <1>1, <2>1, <2>2, <2>4 DEF DeployInv, StoreInv, hydrate
  <2> QED BY <1>1, <2>2, <2>3, <2>5, DeployMoves
<1>5. CASE Load(d) /\ ~DeployFails(d)
  <2>1. PICK v : v = [deploy[d] EXCEPT !.pc = "apply", !.config = deploy[d].m]
    OBVIOUS
  <2>2. deploy' = [deploy EXCEPT ![d] = v] /\ deploy[d].pc = "fetch"
    BY <1>5, <2>1 DEF Load
  <2>3. /\ DOMAIN v = DeployFields /\ v.pc = "apply" /\ v.m = deploy[d].m /\ v.ref = deploy[d].ref
        /\ v.config = deploy[d].m
    BY <1>1, <2>1 DEF DeployInv, DeployFields
  <2>4. DeployInv(v)'
    BY <1>1, <2>2, <2>3 DEF DeployInv
  <2> QED BY <1>1, <2>2, <2>4, DeployMoves
<1>6. CASE materialize(d) /\ ~DeployFails(d)
  <2>1. PICK bins : deploy' = [deploy EXCEPT ![d].pc = "ok", ![d].bins = bins]
    BY <1>6 DEF materialize
  <2>2. PICK v : v = [deploy[d] EXCEPT !.pc = "ok", !.bins = bins]
    OBVIOUS
  <2>3. DOMAIN v = DeployFields /\ v.pc = "ok"
    BY <1>1, <2>2 DEF DeployInv, DeployFields
  <2>4. DeployInv(v)'
    BY <2>3 DEF DeployInv
  <2> QED BY <1>1, <2>1, <2>2, <2>4, DeployMoves
<1> QED BY <1>2, <1>3, <1>4, <1>5, <1>6 DEF DeployStep

-----------------------------------------------------------------------------
(* The theorems about the stores.                                             *)

\* The scenarios begin with stores in order.
LEMMA InitInv == Init => IInv
<1> SUFFICES ASSUME Init PROVE IInv
  OBVIOUS
<1> DEFINE held(f) == [data |-> UNION {DataOf(Earlier[d]) : d \in {f[r] : r \in DOMAIN f}},
                       config |-> {f[r] : r \in DOMAIN f}, manifest |-> {f[r] : r \in DOMAIN f}]
<1>1. PICK sc \in Scenarios :
        /\ images = [local |-> sc.local, hub |-> sc.hub]
        /\ content = [local |-> held(sc.local), hub |-> held(sc.hub)]
        /\ served = {<<"local", r, sc.local[r]>> : r \in DOMAIN sc.local}
                    \cup {<<"hub", r, sc.hub[r]>> : r \in DOMAIN sc.hub}
        /\ \E src \in [Builders \cap sc.procs -> sc.sources] :
             build = [b \in Builders |->
               [pc |-> IF b \in sc.procs THEN "idle" ELSE "off",
                src |-> IF b \in sc.procs THEN src[b] ELSE "", fetched |-> <<>>, own |-> newAgent,
                agent |-> newAgent, layers |-> <<>>, pushed |-> 0, staged |-> NoBlobs]]
        /\ call = [c \in Calls |->
             [pc |-> IF c \in sc.procs THEN "idle" ELSE "off", kind |-> "", from |-> "", ref |-> NoRef,
              to |-> "", dst |-> NoRef, m |-> NoDigest, tries |-> 0]]
        /\ deploy = [d \in Deployers |->
             [pc |-> IF d \in sc.procs THEN "idle" ELSE "off", ref |-> NoRef,
              with |-> CHOOSE o \in Deploys : TRUE, m |-> NoDigest, config |-> NoDigest, bins |-> {}]]
  BY DEF Init
<1>2. /\ backend \in {"system", "docker"}
      /\ made = [d \in Digests |-> IF d \in Builders THEN NoManifest ELSE Earlier[d]]
  BY DEF Init
<1>3. /\ Builders \cap DOMAIN Earlier = {}
      /\ \A f \in {sc.local, sc.hub} : \A r \in DOMAIN f : f[r] \in DOMAIN Earlier
  BY ImageFlowAssumption DEF ImageFlowAssumption
<1>4. \A f : /\ DOMAIN held(f) = Kinds /\ held(f).config = {f[r] : r \in DOMAIN f}
             /\ held(f).manifest = {f[r] : r \in DOMAIN f}
             /\ \A r \in DOMAIN f : DataOf(Earlier[f[r]]) \subseteq held(f).data
  BY DEF Kinds
<1> HIDE DEF held
<1>5. PICK src : build = [b \in Builders |->
               [pc |-> IF b \in sc.procs THEN "idle" ELSE "off",
                src |-> IF b \in sc.procs THEN src[b] ELSE "", fetched |-> <<>>, own |-> newAgent,
                agent |-> newAgent, layers |-> <<>>, pushed |-> 0, staged |-> NoBlobs]]
  BY <1>1
<1>6. /\ DOMAIN images = Stores /\ images["local"] = sc.local /\ images["hub"] = sc.hub
      /\ DOMAIN content = Stores /\ content["local"] = held(sc.local) /\ content["hub"] = held(sc.hub)
  BY <1>1 DEF Stores
<1>7. TypeInv
  BY <1>1, <1>2, <1>4, <1>5, <1>6 DEF TypeInv, Stores
<1>8. ASSUME NEW s \in Stores PROVE StoreInv(s)
  <2>1. images[s] \in {sc.local, sc.hub} /\ content[s] = held(images[s])
    BY <1>6 DEF Stores
  <2>2. \A r \in DOMAIN images[s] : <<s, r, images[s][r]>> \in served
    <3>1. CASE s = "local"
      BY <1>1, <1>6, <3>1
    <3>2. CASE s = "hub"
      BY <1>1, <1>6, <3>2
    <3> QED BY <3>1, <3>2 DEF Stores
  <2>3. \A r \in DOMAIN images[s] : images[s][r] \in content[s].manifest
    BY <1>4, <2>1
  <2>4. ASSUME NEW d \in content[s].manifest PROVE Packed(d) /\ Stored(s, d)
    <3>1. PICK r \in DOMAIN images[s] : d = images[s][r]
      BY <1>4, <2>1, <2>4
    <3>2. d \in DOMAIN Earlier
      BY <1>3, <2>1, <3>1
    <3>3. d \in Digests /\ d \notin Builders /\ made[d] = Earlier[d]
      BY <1>2, <1>3, <3>2 DEF Digests
    <3> QED BY <1>4, <2>1, <3>1, <3>3 DEF Packed, Stored
  <2> QED BY <2>2, <2>3, <2>4 DEF StoreInv
<1>9. ASSUME NEW b \in Builders PROVE BuildInv(b, build[b])
  <2>1. /\ DOMAIN build[b] = BuildFields /\ build[b].pc \in {"idle", "off"} /\ build[b].pushed = 0
        /\ build[b].staged = NoBlobs
    BY <1>5 DEF BuildFields
  <2>2. DOMAIN build[b].staged = Kinds /\ build[b].staged.manifest = {}
    BY <2>1, NoBlobsFacts
  <2>3. build[b].pushed \in Nat /\ build[b].staged.manifest \subseteq {b}
    BY <2>1, <2>2
  <2>4. build[b].pc \notin {"resolve", "push", "manifest", "digest", "name", "ok"}
    BY <2>1
  <2> QED BY <2>1, <2>2, <2>3, <2>4 DEF BuildInv
<1>10. ASSUME NEW c \in Calls PROVE CallInv(call[c])
  <2>1. DOMAIN call[c] = CallFields /\ call[c].pc \in {"idle", "off"}
    BY <1>1 DEF CallFields
  <2> QED BY <2>1 DEF CallInv
<1>11. ASSUME NEW d \in Deployers PROVE DeployInv(deploy[d])
  <2>1. DOMAIN deploy[d] = DeployFields /\ deploy[d].pc \in {"idle", "off"}
    BY <1>1 DEF DeployFields
  <2> QED BY <2>1 DEF DeployInv
<1> QED BY <1>7, <1>8, <1>9, <1>10, <1>11 DEF IInv

\* Every step keeps the invariant of the stores.
LEMMA NextInv == ASSUME IInv, [Next]_vars PROVE IInv'
<1>1. ASSUME NEW b \in Builders, FromFile(b) \/ BuildStep(b) PROVE IInv'
  BY <1>1, BuildStepKeeps
<1>2. ASSUME NEW c \in Calls, Tag(c) \/ RemoveRef(c) \/ PullRemote(c) \/ PushRemote(c) \/ CallStep(c)
      PROVE  IInv'
  BY <1>2, CallBeginsKeeps, CallStepKeeps
<1>3. ASSUME NEW l \in Listers, List(l) \/ ListStep(l) PROVE IInv'
  BY <1>3, ListKeeps
<1>4. ASSUME NEW d \in Deployers, Deploy(d) \/ DeployStep(d) PROVE IInv'
  BY <1>4, DeployKeeps
<1>5. CASE UNCHANGED vars
  <2>1. UNCHANGED <<backend, made, build, call, deploy, images, content, served>>
    BY <1>5 DEF vars
  <2>2. DOMAIN deploy' = Deployers
    BY <2>1 DEF IInv, TypeInv
  <2> QED BY <2>1, <2>2, ReadersKeep
<1> QED BY <1>1, <1>2, <1>3, <1>4, <1>5 DEF Next

\* The inductive invariant: at every step of every build, call and deployment,
\* manifests come after their blobs and tags after their manifests.
THEOREM InvariantHolds == Spec => []IInv
<1>1. IInv /\ [Next]_vars => IInv'
  BY NextInv
<1> QED BY InitInv, <1>1, PTL DEF Spec

\* build.go, store.go and oras.Copy: whatever a reference names can be loaded
\* from the same store, in both backends, at every moment.
THEOREM TagsAreCompleteHolds == Spec => []TagsAreComplete
<1>1. IInv => TagsAreComplete
  <2> SUFFICES ASSUME IInv, NEW s \in Stores, NEW r \in DOMAIN images[s],
                      NEW k \in DOMAIN Blobs(images[s][r])
               PROVE  Blobs(images[s][r])[k] \subseteq content[s][k]
    BY DEF TagsAreComplete, Stores
  <2>1. PICK d : d = images[s][r]
    OBVIOUS
  <2>2. Stored(s, d) /\ d \in content[s].manifest
    BY <2>1 DEF IInv, StoreInv
  <2>3. k \in {"data", "config", "manifest"}
    BY DEF Blobs
  <2>4. /\ Blobs(d)["data"] = DataOf(made[d]) /\ Blobs(d)["config"] = {d}
        /\ Blobs(d)["manifest"] = {d}
    BY DEF Blobs, Of
  <2> QED BY <2>1, <2>2, <2>3, <2>4 DEF Stored
<1> QED BY InvariantHolds, <1>1, PTL

-----------------------------------------------------------------------------
(* What the calls and deployments read. The inductive invariant: whatever the *)
(* reference means while it has still to be read is in the history, and so is *)
(* what was read.                                                             *)

CallNamed(c, v) ==
    /\ v.kind \in {"tag", "push"} => v.from = "local"
    /\ v.pc \in {"resolve", "tag"} \/ (v.pc = "transfer" /\ v.kind # "push") =>
          (v.ref \in DOMAIN images[v.from] => images[v.from][v.ref] \in named[c])
    /\ v.pc = "transfer" /\ v.kind = "push" =>
          (v.dst \in DOMAIN images[v.from] => images[v.from][v.dst] \in named[c])
    /\ v.pc \in {"remove", "blobs", "copy", "ok"} \/ (v.pc = "tag" /\ backend = "system") => v.m \in named[c]

DeployNamed(d, v) ==
    /\ v.pc = "resolve" => (v.ref \in DOMAIN images["local"] => images["local"][v.ref] \in named[d])
    /\ v.pc \in {"fetch", "apply", "ok"} => v.m \in named[d]
    /\ v.pc \in {"apply", "ok"} => v.config = v.m

NamesInv ==
    /\ DOMAIN named = Calls \cup Deployers
    /\ \A c \in Calls : CallNamed(c, call[c])
    /\ \A d \in Deployers : DeployNamed(d, deploy[d])

\* A step that writes the references of one store, or none.
Writes == UNCHANGED <<images, named>> \/ \E s \in Stores : \E tags : SetImages(s, tags)

\* What p knows of its reference is true after the step, too.
Tells ==
    /\ DOMAIN images' = Stores /\ DOMAIN named' = Calls \cup Deployers
    /\ \A p \in Calls \cup Deployers : named[p] \subseteq named'[p]
    /\ \A p \in Calls \cup Deployers : \A s \in Stores : \A r \in DOMAIN images'[s] :
          \/ r \in DOMAIN images[s] /\ images'[s][r] = images[s][r]
          \/ <<s, r>> = Source(p) => images'[s][r] \in named'[p]

\* Every write is told to those who read the reference.
LEMMA WritesTells == ASSUME IInv, NamesInv, Writes PROVE Tells
<1>1. DOMAIN images = Stores /\ DOMAIN named = Calls \cup Deployers
  BY DEF IInv, TypeInv, NamesInv
<1>2. CASE UNCHANGED <<images, named>>
  BY <1>1, <1>2 DEF Tells
<1>3. ASSUME NEW s \in Stores, NEW tags, SetImages(s, tags) PROVE Tells
  <2>1. DOMAIN images' = Stores /\ images'[s] = tags /\ \A u \in Stores \ {s} : images'[u] = images[u]
    BY <1>1, <1>3 DEF SetImages
  <2>2. /\ DOMAIN named' = Calls \cup Deployers
        /\ \A p \in Calls \cup Deployers :
              named'[p] = named[p] \cup {tags[r] : r \in {x \in DOMAIN tags : <<s, x>> = Source(p)}}
    BY <1>3 DEF SetImages
  <2> HIDE DEF Source
  <2>3. ASSUME NEW p \in Calls \cup Deployers, NEW r \in DOMAIN tags, <<s, r>> = Source(p)
        PROVE  tags[r] \in named'[p]
    BY <2>2, <2>3
  <2>4. ASSUME NEW p \in Calls \cup Deployers, NEW u \in Stores, NEW r \in DOMAIN images'[u]
        PROVE  \/ r \in DOMAIN images[u] /\ images'[u][r] = images[u][r]
               \/ <<u, r>> = Source(p) => images'[u][r] \in named'[p]
    BY <2>1, <2>3
  <2> QED BY <2>1, <2>2, <2>4 DEF Tells
<1> QED BY <1>2, <1>3 DEF Writes

\* So a process that does not move keeps what it relies on.
LEMMA TellsOthers ==
    ASSUME IInv, NamesInv, Tells, backend' = backend
    PROVE  /\ \A c \in Calls : call'[c] = call[c] => CallNamed(c, call[c])'
           /\ \A d \in Deployers : deploy'[d] = deploy[d] => DeployNamed(d, deploy[d])'
<1>1. ASSUME NEW c \in Calls, call'[c] = call[c] PROVE CallNamed(c, call[c])'
  <2>1. PICK v : v = call[c]
    OBVIOUS
  <2>2. CallNamed(c, v) /\ CallInv(v) /\ named[c] \subseteq named'[c]
    BY <2>1 DEF IInv, NamesInv, Tells
  <2>3. Source(c) = <<v.from, IF v.pc = "transfer" /\ v.kind = "push" THEN v.dst ELSE v.ref>>
    BY <2>1, ImageFlowAssumption DEF Source, ImageFlowAssumption
  <2>4. v.pc \notin {"off", "idle"} => v.from \in Stores
    BY <2>2 DEF CallInv
  <2>5. ASSUME NEW r, v.from \in Stores, <<v.from, r>> = Source(c), r \in DOMAIN images'[v.from],
               r \in DOMAIN images[v.from] => images[v.from][r] \in named[c]
        PROVE  images'[v.from][r] \in named'[c]
    BY <2>2, <2>5 DEF Tells
  <2>6. CallNamed(c, v)'
    <3>1. v.pc \in {"resolve", "tag"} \/ (v.pc = "transfer" /\ v.kind # "push") =>
             (v.ref \in DOMAIN images'[v.from] => images'[v.from][v.ref] \in named'[c])
      BY <2>2, <2>3, <2>4, <2>5 DEF CallNamed
    <3>2. v.pc = "transfer" /\ v.kind = "push" =>
             (v.dst \in DOMAIN images'[v.from] => images'[v.from][v.dst] \in named'[c])
      BY <2>2, <2>3, <2>4, <2>5 DEF CallNamed
    <3> QED BY <2>2, <3>1, <3>2 DEF CallNamed
  <2> QED BY <1>1, <2>1, <2>6
<1>2. ASSUME NEW d \in Deployers, deploy'[d] = deploy[d] PROVE DeployNamed(d, deploy[d])'
  <2>1. PICK v : v = deploy[d]
    OBVIOUS
  <2>2. DeployNamed(d, v) /\ named[d] \subseteq named'[d] /\ Source(d) = <<"local", v.ref>> /\ "local" \in Stores
    BY <2>1 DEF NamesInv, Tells, Source, Stores
  <2>3. v.ref \in DOMAIN images'["local"] =>
           \/ v.ref \in DOMAIN images["local"] /\ images'["local"][v.ref] = images["local"][v.ref]
           \/ images'["local"][v.ref] \in named'[d]
    BY <2>2 DEF Tells
  <2>4. DeployNamed(d, v)'
    BY <2>2, <2>3 DEF DeployNamed
  <2> QED BY <1>2, <2>1, <2>4
<1> QED BY <1>1, <1>2

\* A step of one call, whose new state is v.
LEMMA CallNames ==
    ASSUME IInv, NamesInv, Writes, NEW c \in Calls, NEW v, CallMoves(c, v), CallNamed(c, v)'
    PROVE  NamesInv'
<1>1. /\ DOMAIN call' = Calls /\ call'[c] = v /\ \A u \in Calls \ {c} : call'[u] = call[u]
      /\ deploy' = deploy /\ backend' = backend
  BY CallFacts DEF CallMoves, CallOnly
<1>2. Tells
  BY WritesTells
<1> QED BY <1>1, <1>2, TellsOthers DEF NamesInv, Tells

\* A build writes one reference at most.
LEMMA BuildNames == ASSUME IInv, NamesInv, NEW b \in Builders, FromFile(b) \/ BuildStep(b) PROVE NamesInv'
<1>1. call' = call /\ deploy' = deploy /\ backend' = backend /\ "local" \in Stores
  BY DEF BuildOnly, BuildStep, FromFile, resolveDepth, pushLayer, pushConfig, pushManifest, tagDigest,
         tagName, Stores
<1>2. ASSUME NEW blobs, NEW next, Push(b, blobs, next) PROVE UNCHANGED <<images, named>>
  BY <1>2 DEF Push, PutBlobs, BuildFails, stores
<1>3. ASSUME FromFile(b) \/ resolveDepth(b) \/ tagDigest(b) PROVE Writes
  BY <1>3 DEF FromFile, resolveDepth, tagDigest, stores, Writes
<1>4. ASSUME pushLayer(b) \/ pushConfig(b) \/ pushManifest(b) PROVE Writes
  <2>1. UNCHANGED <<images, named>>
    BY <1>2, <1>4 DEF pushLayer, pushConfig, pushManifest, BuildFails, stores
  <2> QED BY <2>1 DEF Writes
<1>5. ASSUME tagName(b) PROVE Writes
  <2>1. UNCHANGED stores \/ \E blobs : StoreImage("local", Local(b), b, blobs)
    BY <1>5 DEF tagName, BuildFails
  <2> QED BY <1>1, <2>1 DEF StoreImage, stores, Writes
<1>6. Writes
  BY <1>3, <1>4, <1>5 DEF BuildStep
<1>7. Tells
  BY <1>6, WritesTells
<1> QED BY <1>1, <1>7, TellsOthers DEF NamesInv, Tells

\* A call begins with what its reference means at that moment.
LEMMA BeginNames ==
    ASSUME IInv, NamesInv, NEW c \in Calls, NEW kind, NEW from \in Stores, NEW ref, NEW to, NEW dst,
           NEW pc \in {"resolve", "tag", "transfer"}, Begin(c, kind, from, ref, to, dst, pc),
           kind \in {"tag", "push"} => from = "local",
           pc = "tag" => backend = "docker",
           pc = "transfer" /\ kind = "push" => dst = ref
    PROVE  NamesInv'
<1>1. CallInv(call[c]) /\ DOMAIN call = Calls /\ DOMAIN named = Calls \cup Deployers
  BY DEF IInv, TypeInv, NamesInv
<1>2. PICK v : v = [call[c] EXCEPT !.pc = pc, !.kind = kind, !.from = from, !.ref = ref,
                                   !.to = to, !.dst = dst]
  OBVIOUS
<1>3. /\ call' = [call EXCEPT ![c] = v] /\ named' = [named EXCEPT ![c] = {images[from][ref]}]
      /\ UNCHANGED <<images, deploy, backend>>
  BY <1>2 DEF Begin, CallOnly
<1>4. v.pc = pc /\ v.kind = kind /\ v.from = from /\ v.ref = ref /\ v.dst = dst
  BY <1>1, <1>2 DEF CallInv, CallFields
<1>5. /\ call'[c] = v /\ named'[c] = {images[from][ref]} /\ DOMAIN named' = Calls \cup Deployers
      /\ \A p \in (Calls \cup Deployers) \ {c} : named'[p] = named[p]
      /\ \A u \in Calls \ {c} : call'[u] = call[u]
  BY <1>1, <1>3
<1>6. CallNamed(c, v)'
  <2>1. (v.pc = "tag" /\ backend' = "system") = FALSE
    BY <1>3, <1>4
  <2> QED BY <1>3, <1>4, <1>5, <2>1 DEF CallNamed
<1>7. ASSUME NEW u \in Calls \ {c} PROVE CallNamed(u, call[u])'
  <2>1. CallNamed(u, call[u]) /\ call'[u] = call[u] /\ named'[u] = named[u]
    BY <1>5 DEF NamesInv
  <2> QED BY <1>3, <2>1 DEF CallNamed
<1>8. ASSUME NEW d \in Deployers PROVE DeployNamed(d, deploy[d])'
  <2>1. d # c
    BY ImageFlowAssumption DEF ImageFlowAssumption
  <2>2. DeployNamed(d, deploy[d]) /\ named'[d] = named[d]
    BY <1>5, <2>1 DEF NamesInv
  <2> QED BY <1>3, <2>2 DEF DeployNamed
<1> QED BY <1>5, <1>6, <1>7, <1>8 DEF NamesInv

\* Tag, Remove, pull and push are called.
LEMMA CallBeginsNames ==
    ASSUME IInv, NamesInv, NEW c \in Calls, Tag(c) \/ RemoveRef(c) \/ PullRemote(c) \/ PushRemote(c)
    PROVE  NamesInv'
<1>1. backend \in {"system", "docker"} /\ "local" \in Stores /\ "hub" \in Stores
  BY DEF IInv, TypeInv, Stores
<1>2. CASE Tag(c)
  <2>1. PICK pc : pc = IF backend = "system" THEN "resolve" ELSE "tag"
    OBVIOUS
  <2>2. PICK ref, dst : Begin(c, "tag", "local", ref, "local", dst, pc)
    BY <1>2, <2>1 DEF Tag
  <2> QED BY <1>1, <2>1, <2>2, BeginNames
<1>3. CASE RemoveRef(c)
  <2>1. PICK ref : Begin(c, "remove", "local", ref, "local", ref, "resolve")
    BY <1>3 DEF RemoveRef
  <2> QED BY <1>1, <2>1, BeginNames
<1>4. CASE PullRemote(c)
  <2>1. PICK pc : pc = IF backend = "system" THEN "resolve" ELSE "transfer"
    OBVIOUS
  <2>2. PICK ref : Begin(c, "pull", "hub", ref, "local", ref, pc)
    BY <1>4, <2>1 DEF PullRemote
  <2> QED BY <1>1, <2>1, <2>2, BeginNames
<1>5. CASE PushRemote(c)
  <2>1. PICK ref : LET dst == [ref EXCEPT !.host = "hub"]
                   IN  Begin(c, "push", "local", ref, "hub", dst,
                             IF backend = "system" THEN "resolve" ELSE IF ref = dst THEN "transfer" ELSE "tag")
    BY <1>5 DEF PushRemote
  <2>2. PICK dst, pc : /\ dst = [ref EXCEPT !.host = "hub"]
                       /\ pc = IF backend = "system" THEN "resolve" ELSE IF ref = dst THEN "transfer" ELSE "tag"
    OBVIOUS
  <2>3. Begin(c, "push", "local", ref, "hub", dst, pc)
    BY <2>1, <2>2
  <2> QED BY <1>1, <2>2, <2>3, BeginNames
<1> QED BY <1>2, <1>3, <1>4, <1>5

\* A call that has read its reference, or has failed, keeps what it has read.
LEMMA ReadNames ==
    ASSUME IInv, NamesInv, Writes, NEW c \in Calls, NEW v, NEW pc, CallMoves(c, v), Continues(c, v, pc),
           pc \notin {"resolve", "tag", "transfer"}, pc \in {"remove", "blobs", "copy", "ok"} => v.m \in named[c]
    PROVE  NamesInv'
<1>1. named[c] \subseteq named'[c] /\ CallNamed(c, call[c])
  BY WritesTells DEF Tells, NamesInv
<1>2. CallNamed(c, v)'
  BY <1>1 DEF CallNamed, Continues
<1> QED BY <1>2, CallNames

\* Every step of a call writes the references of one store, or none.
LEMMA CallWrites == ASSUME IInv, NEW c \in Calls, CallStep(c) PROVE Writes
<1>1. "local" \in Stores /\ CallInv(call[c])
  BY DEF IInv, Stores
<1>2. CASE UNCHANGED stores
  BY <1>2 DEF stores, Writes
<1>3. ASSUME NEW s \in Stores, NEW ref, NEW m, NEW blobs, StoreImage(s, ref, m, blobs) PROVE Writes
  BY <1>3 DEF StoreImage, Writes
<1>4. CASE resolveImageID(c)
  BY <1>2, <1>4 DEF resolveImageID, CallFails
<1>5. CASE tag(c)
  <2>1. UNCHANGED stores \/ \E m : StoreImage("local", call[c].dst, m, NoBlobs)
    BY <1>5 DEF tag, CallFails
  <2> QED BY <1>1, <1>2, <1>3, <2>1
<1>6. CASE remove(c)
  BY <1>1, <1>2, <1>6 DEF remove, CallFails, Writes
<1>7. CASE transfer(c)
  <2>1. call[c].to \in Stores
    BY <1>1, <1>7 DEF transfer, CallInv
  <2>2. UNCHANGED stores \/ \E m : StoreImage(call[c].to, call[c].dst, m, Blobs(m))
    BY <1>7 DEF transfer
  <2> QED BY <1>2, <1>3, <2>1, <2>2
<1>8. CASE copyBlobs(c)
  BY <1>2, <1>8 DEF copyBlobs, RoundTrip, PutBlobs, Writes
<1>9. CASE copyManifest(c)
  <2>1. call[c].to \in Stores
    BY <1>1, <1>9 DEF copyManifest, CallInv
  <2>2. UNCHANGED stores \/ \E blobs : StoreImage(call[c].to, call[c].dst, call[c].m, blobs)
    BY <1>9 DEF copyManifest, RoundTrip
  <2> QED BY <1>2, <1>3, <2>1, <2>2
<1> QED BY <1>4, <1>5, <1>6, <1>7, <1>8, <1>9 DEF CallStep

\* A call that ends with an error, or goes on with what it has read.
LEMMA GotoNames ==
    ASSUME IInv, NamesInv, Writes, NEW c \in Calls, NEW pc, CallGoto(c, pc), CallOnly(c),
           pc \notin {"resolve", "tag", "transfer"},
           pc \in {"remove", "blobs", "copy", "ok"} => call[c].m \in named[c]
    PROVE  NamesInv'
<1>1. PICK v : CallMoves(c, v) /\ v.m = call[c].m /\ Continues(c, v, pc)
  BY GotoFacts
<1> QED BY <1>1, ReadNames

\* The daemon tags what the name means to it, and a push goes on with that.
LEMMA tagNames == ASSUME IInv, NamesInv, NEW c \in Calls, tag(c) PROVE NamesInv'
<1>1. call[c].pc = "tag" /\ CallOnly(c) /\ Writes
  BY CallWrites DEF tag, CallStep
<1>2. CallInv(call[c]) /\ CallNamed(c, call[c]) /\ backend \in {"system", "docker"} /\ DOMAIN images = Stores
  BY DEF IInv, TypeInv, NamesInv
<1>3. CASE CallFails(c)
  BY <1>1, <1>3, GotoNames DEF CallFails
<1>4. CASE ~CallFails(c)
  <2>1. PICK m : m = IF backend = "docker" THEN images["local"][call[c].ref] ELSE call[c].m
    OBVIOUS
  <2>2. PICK pc \in {IF call[c].kind = "push" THEN "transfer" ELSE "ok", "err"} :
           call' = [call EXCEPT ![c].m = m, ![c].pc = pc]
    BY <1>4, <2>1 DEF tag
  <2>3. /\ StoreImage("local", call[c].dst, m, NoBlobs)
        /\ backend = "docker" => call[c].ref \in DOMAIN images["local"]
    BY <1>4, <2>1 DEF tag
  <2>4. call[c].from = "local" /\ m \in named[c]
    BY <1>1, <1>2, <2>1, <2>3 DEF CallInv, CallNamed
  <2>5. PICK v : v = [call[c] EXCEPT !.m = m, !.pc = pc]
    OBVIOUS
  <2>6. CallMoves(c, v)
    BY <1>1, <2>2, <2>5 DEF CallMoves
  <2>7. Continues(c, v, pc) /\ v.m = m
    BY <1>2, <2>5 DEF CallInv, CallFields, Continues
  <2>8. CASE pc # "transfer"
    BY <1>1, <2>2, <2>4, <2>6, <2>7, <2>8, ReadNames
  <2>9. CASE pc = "transfer"
    <3>1. v.kind = "push" /\ v.pc = "transfer" /\ v.from = "local" /\ v.dst = call[c].dst
      BY <2>2, <2>4, <2>7, <2>9 DEF Continues
    <3>2. images'["local"] = Put(images["local"], v.dst, m)
      BY <1>2, <2>3, <3>1 DEF StoreImage, SetImages, Stores
    <3>3. Put(images["local"], v.dst, m)[v.dst] = m
      BY DEF Put
    <3>4. named[c] \subseteq named'[c]
      BY <1>1, WritesTells DEF Tells
    <3>5. CallNamed(c, v)'
      BY <2>4, <3>1, <3>2, <3>3, <3>4 DEF CallNamed
    <3> QED BY <1>1, <2>6, <3>5, CallNames
  <2> QED BY <2>8, <2>9
<1> QED BY <1>3, <1>4

\* A request that is sent again leaves what the call has read.
LEMMA RetryNames ==
    ASSUME IInv, NamesInv, Writes, NEW c \in Calls, call[c].pc \in {"blobs", "copy"},
           NEW canRetry \in BOOLEAN, Retry(c, canRetry), CallOnly(c)
    PROVE  NamesInv'
<1>1. call[c].m \in named[c]
  BY DEF NamesInv, CallNamed
<1>2. PICK v : /\ CallMoves(c, v) /\ v.m = call[c].m
               /\ Continues(c, v, call[c].pc) \/ Continues(c, v, "err")
  BY RetryFacts
<1>3. CASE Continues(c, v, "err")
  BY <1>2, <1>3, ReadNames
<1>4. CASE Continues(c, v, call[c].pc)
  <2>1. PICK pc \in {"blobs", "copy"} : pc = call[c].pc
    OBVIOUS
  <2> QED BY <1>1, <1>2, <1>4, <2>1, ReadNames
<1> QED BY <1>2, <1>3, <1>4

\* A call does what it does to the image that it has read.
LEMMA CallStepNames == ASSUME IInv, NamesInv, NEW c \in Calls, CallStep(c) PROVE NamesInv'
<1>1. Writes /\ CallInv(call[c]) /\ CallNamed(c, call[c])
  BY CallWrites DEF IInv, NamesInv
<1>2. ASSUME NEW m \in named[c], NEW pc, pc \notin {"resolve", "tag", "transfer"}, CallOnly(c),
             call' = [call EXCEPT ![c].m = m, ![c].pc = pc]
      PROVE  NamesInv'
  <2>1. PICK v : v = [call[c] EXCEPT !.m = m, !.pc = pc]
    OBVIOUS
  <2>2. CallMoves(c, v)
    BY <1>2, <2>1 DEF CallMoves
  <2>3. Continues(c, v, pc) /\ v.m = m
    BY <1>1, <2>1 DEF CallInv, CallFields, Continues
  <2> QED BY <1>1, <1>2, <2>2, <2>3, ReadNames
<1>3. CASE resolveImageID(c)
  <2>1. call[c].pc = "resolve" /\ CallOnly(c)
    BY <1>3 DEF resolveImageID
  <2>2. CASE CallFails(c)
    BY <1>1, <2>1, <2>2, GotoNames DEF CallFails
  <2>3. CASE ~CallFails(c)
    <3>1. PICK m, pc : /\ m = images[call[c].from][call[c].ref]
                       /\ pc = IF call[c].kind \in {"tag", "remove"} THEN call[c].kind ELSE "blobs"
      OBVIOUS
    <3>2. call[c].ref \in DOMAIN images[call[c].from] /\ call' = [call EXCEPT ![c].m = m, ![c].pc = pc]
      BY <1>3, <2>3, <3>1 DEF resolveImageID
    <3>3. m \in named[c]
      BY <1>1, <2>1, <3>1, <3>2 DEF CallNamed
    <3>4. CASE pc # "tag"
      <4>1. pc \notin {"resolve", "tag", "transfer"}
        BY <3>1, <3>4
      <4> QED BY <1>2, <2>1, <3>2, <3>3, <4>1
    <3>5. CASE pc = "tag"
      <4>1. PICK v : v = [call[c] EXCEPT !.m = m, !.pc = pc]
        OBVIOUS
      <4>2. CallMoves(c, v)
        BY <2>1, <3>2, <4>1 DEF CallMoves
      <4>3. Continues(c, v, pc) /\ v.m = m
        BY <1>1, <4>1 DEF CallInv, CallFields, Continues
      <4>4. UNCHANGED <<images, named>>
        BY <1>3, <2>3 DEF resolveImageID, stores
      <4>5. CallNamed(c, v)'
        BY <1>1, <2>1, <3>3, <3>5, <4>3, <4>4 DEF CallNamed, Continues
      <4> QED BY <1>1, <4>2, <4>5, CallNames
    <3> QED BY <3>4, <3>5
  <2> QED BY <2>2, <2>3
<1>4. CASE tag(c)
  BY <1>4, tagNames
<1>5. CASE remove(c)
  <2>1. CallOnly(c) /\ call[c].m \in named[c] /\ \E pc \in {"ok", "err"} : CallGoto(c, pc)
    BY <1>1, <1>5 DEF remove, CallFails, CallNamed
  <2>2. PICK pc \in {"ok", "err"} : CallGoto(c, pc)
    BY <2>1
  <2> QED BY <1>1, <2>1, <2>2, GotoNames
<1>6. CASE transfer(c)
  <2>1. call[c].pc = "transfer" /\ CallOnly(c)
    BY <1>6 DEF transfer
  <2>2. CASE \E pc \in {"err", "drained"} : CallGoto(c, pc) /\ UNCHANGED stores
    <3>1. PICK pc \in {"err", "drained"} : CallGoto(c, pc)
      BY <2>2
    <3> QED BY <1>1, <2>1, <3>1, GotoNames
  <2>3. CASE ~\E pc \in {"err", "drained"} : CallGoto(c, pc) /\ UNCHANGED stores
    <3>1. PICK src, m : /\ src = IF call[c].kind = "push" THEN call[c].dst ELSE call[c].ref
                        /\ m = images[call[c].from][src]
      OBVIOUS
    <3>2. src \in DOMAIN images[call[c].from]
      BY <1>6, <2>3, <3>1 DEF transfer
    <3>3. PICK pc \in {"ok", "err"} : call' = [call EXCEPT ![c].m = m, ![c].pc = pc]
      BY <1>6, <2>3, <3>1 DEF transfer
    <3>4. m \in named[c]
      BY <1>1, <2>1, <3>1, <3>2 DEF CallNamed
    <3> QED BY <1>2, <2>1, <3>3, <3>4
  <2> QED BY <2>2, <2>3
<1>7. CASE copyBlobs(c)
  <2>1. call[c].pc = "blobs" /\ CallOnly(c) /\ (CallGoto(c, "copy") \/ \E canRetry \in BOOLEAN : Retry(c, canRetry))
    BY <1>7 DEF copyBlobs, RoundTrip
  <2>2. call[c].m \in named[c]
    BY <1>1, <2>1 DEF CallNamed
  <2> QED BY <1>1, <2>1, <2>2, GotoNames, RetryNames
<1>8. CASE copyManifest(c)
  <2>1. call[c].pc = "copy" /\ CallOnly(c) /\ (CallGoto(c, "ok") \/ Retry(c, TRUE))
    BY <1>8 DEF copyManifest, RoundTrip
  <2>2. call[c].m \in named[c]
    BY <1>1, <2>1 DEF CallNamed
  <2> QED BY <1>1, <2>1, <2>2, GotoNames, RetryNames
<1> QED BY <1>3, <1>4, <1>5, <1>6, <1>7, <1>8 DEF CallStep

\* Listings and deployments write nothing: deployment d moves to v.
LEMMA DeployMovesNames ==
    ASSUME IInv, NamesInv, UNCHANGED <<backend, images, call>>, NEW d \in Deployers, NEW v,
           deploy' = [deploy EXCEPT ![d] = v], DOMAIN named' = Calls \cup Deployers,
           \A p \in (Calls \cup Deployers) \ {d} : named'[p] = named[p], DeployNamed(d, v)'
    PROVE  NamesInv'
<1>1. deploy'[d] = v /\ \A u \in Deployers \ {d} : deploy'[u] = deploy[u]
  BY DEF IInv, TypeInv
<1>2. ASSUME NEW c \in Calls PROVE CallNamed(c, call[c])'
  <2>1. c # d
    BY ImageFlowAssumption DEF ImageFlowAssumption
  <2>2. CallNamed(c, call[c]) /\ named'[c] = named[c]
    BY <2>1 DEF NamesInv
  <2> QED BY <2>2 DEF CallNamed
<1>3. ASSUME NEW u \in Deployers \ {d} PROVE DeployNamed(u, deploy[u])'
  <2>1. DeployNamed(u, deploy[u]) /\ named'[u] = named[u] /\ deploy'[u] = deploy[u]
    BY <1>1 DEF NamesInv
  <2> QED BY <2>1 DEF DeployNamed
<1> QED BY <1>1, <1>2, <1>3 DEF NamesInv

\* A deployment reads its reference once.
LEMMA DeployNames == ASSUME IInv, NamesInv, NEW d \in Deployers, Deploy(d) \/ DeployStep(d) PROVE NamesInv'
<1>1. /\ DeployInv(deploy[d]) /\ DeployNamed(d, deploy[d]) /\ DOMAIN named = Calls \cup Deployers
      /\ UNCHANGED <<backend, images, call>>
  BY DEF IInv, NamesInv, Deploy, DeployStep, DeployResolve, Load, materialize, DeployOnly
<1>2. CASE Deploy(d)
  <2>1. PICK ref, o : /\ deploy' = [deploy EXCEPT ![d] = [@ EXCEPT !.pc = "resolve", !.ref = ref, !.with = o]]
                      /\ named' = [named EXCEPT ![d] = {images["local"][ref]}]
    BY <1>2 DEF Deploy
  <2>2. PICK v : v = [deploy[d] EXCEPT !.pc = "resolve", !.ref = ref, !.with = o]
    OBVIOUS
  <2>3. v.pc = "resolve" /\ v.ref = ref
    BY <1>1, <2>2 DEF DeployInv, DeployFields
  <2>4. /\ named'[d] = {images["local"][ref]} /\ DOMAIN named' = Calls \cup Deployers
        /\ \A p \in (Calls \cup Deployers) \ {d} : named'[p] = named[p]
    BY <1>1, <2>1
  <2>5. DeployNamed(d, v)'
    BY <1>1, <2>3, <2>4 DEF DeployNamed
  <2> QED BY <1>1, <2>1, <2>2, <2>4, <2>5, DeployMovesNames
<1>3. ASSUME NEW v, deploy' = [deploy EXCEPT ![d] = v], named' = named, DeployNamed(d, v) PROVE NamesInv'
  <2>1. DeployNamed(d, v)'
    BY <1>1, <1>3 DEF DeployNamed
  <2> QED BY <1>1, <1>3, <2>1, DeployMovesNames
<1>4. CASE DeployFails(d) /\ named' = named
  <2>1. PICK v : v = [deploy[d] EXCEPT !.pc = "err"]
    OBVIOUS
  <2>2. v.pc = "err"
    BY <1>1, <2>1 DEF DeployInv, DeployFields
  <2>3. DeployNamed(d, v)
    BY <2>2 DEF DeployNamed
  <2> QED BY <1>3, <1>4, <2>1, <2>3 DEF DeployFails
<1>5. CASE DeployResolve(d) /\ ~DeployFails(d)
  <2>1. PICK m : m = images["local"][deploy[d].ref]
    OBVIOUS
  <2>2. /\ deploy[d].pc = "resolve" /\ deploy[d].ref \in DOMAIN images["local"] /\ named' = named
        /\ deploy' = [deploy EXCEPT ![d].pc = "fetch", ![d].m = m]
    BY <1>5, <2>1 DEF DeployResolve, hydrate
  <2>3. PICK v : v = [deploy[d] EXCEPT !.pc = "fetch", !.m = m]
    OBVIOUS
  <2>4. v.pc = "fetch" /\ v.m = m
    BY <1>1, <2>3 DEF DeployInv, DeployFields
  <2>5. DeployNamed(d, v)
    BY <1>1, <2>1, <2>2, <2>4 DEF DeployNamed
  <2> QED BY <1>3, <2>2, <2>3, <2>5
<1>6. CASE Load(d) /\ ~DeployFails(d)
  <2>1. PICK v : v = [deploy[d] EXCEPT !.pc = "apply", !.config = deploy[d].m]
    OBVIOUS
  <2>2. deploy' = [deploy EXCEPT ![d] = v] /\ deploy[d].pc = "fetch" /\ named' = named
    BY <1>6, <2>1 DEF Load
  <2>3. v.pc = "apply" /\ v.m = deploy[d].m /\ v.config = deploy[d].m
    BY <1>1, <2>1 DEF DeployInv, DeployFields
  <2>4. DeployNamed(d, v)
    BY <1>1, <2>2, <2>3 DEF DeployNamed
  <2> QED BY <1>3, <2>2, <2>4
<1>7. CASE materialize(d) /\ ~DeployFails(d)
  <2>1. PICK bins : deploy' = [deploy EXCEPT ![d].pc = "ok", ![d].bins = bins]
    BY <1>7 DEF materialize
  <2>2. PICK v : v = [deploy[d] EXCEPT !.pc = "ok", !.bins = bins]
    OBVIOUS
  <2>3. v.pc = "ok" /\ v.m = deploy[d].m /\ v.config = deploy[d].config
    BY <1>1, <2>2 DEF DeployInv, DeployFields
  <2>4. deploy[d].pc = "apply" /\ named' = named
    BY <1>7 DEF materialize
  <2>5. DeployNamed(d, v)
    BY <1>1, <2>3, <2>4 DEF DeployNamed
  <2> QED BY <1>3, <2>1, <2>2, <2>4, <2>5
<1>8. named' = named \/ Deploy(d)
  BY DEF DeployStep, DeployResolve, Load, materialize
<1> QED BY <1>2, <1>4, <1>5, <1>6, <1>7, <1>8 DEF DeployStep

\* Listings, and steps in which nothing moves.
LEMMA StillNames ==
    ASSUME IInv, NamesInv, UNCHANGED <<backend, images, call, deploy, named>> PROVE NamesInv'
<1>1. Tells
  BY WritesTells DEF Writes
<1> QED BY <1>1, TellsOthers DEF NamesInv, Tells

\* No process has read anything at first.
LEMMA InitNames == Init => NamesInv
<1> SUFFICES ASSUME Init PROVE NamesInv
  OBVIOUS
<1>1. DOMAIN named = Calls \cup Deployers
  BY DEF Init
<1>0. PICK sc \in Scenarios :
        /\ call = [c \in Calls |->
             [pc |-> IF c \in sc.procs THEN "idle" ELSE "off", kind |-> "", from |-> "", ref |-> NoRef,
              to |-> "", dst |-> NoRef, m |-> NoDigest, tries |-> 0]]
        /\ deploy = [d \in Deployers |->
             [pc |-> IF d \in sc.procs THEN "idle" ELSE "off", ref |-> NoRef,
              with |-> CHOOSE o \in Deploys : TRUE, m |-> NoDigest, config |-> NoDigest, bins |-> {}]]
  BY DEF Init
<1>2. ASSUME NEW c \in Calls PROVE call[c].pc \in {"idle", "off"} /\ call[c].kind = ""
  BY <1>0
<1>3. ASSUME NEW d \in Deployers PROVE deploy[d].pc \in {"idle", "off"}
  BY <1>0
<1> QED BY <1>1, <1>2, <1>3 DEF NamesInv, CallNamed, DeployNamed

\* Every step keeps the invariant of the readers.
LEMMA NextNames == ASSUME IInv, NamesInv, [Next]_vars PROVE NamesInv'
<1>1. ASSUME NEW l \in Listers, List(l) \/ ListStep(l) PROVE NamesInv'
  <2>1. ListOnly
    BY <1>1 DEF List, ListStep, fetchTags, listed, Inspect
  <2> QED BY <2>1, StillNames DEF ListOnly
<1>2. CASE UNCHANGED vars
  BY <1>2, StillNames DEF vars
<1> QED BY <1>1, <1>2, BuildNames, CallBeginsNames, CallStepNames, DeployNames DEF Next

\* build.FromFile, the Registry calls and materializeContent: what is reported as
\* tagged, removed, pushed, pulled or deployed is an image that the reference
\* named while the call ran, whoever else writes the reference meanwhile, and it
\* was served under the name it was given.
THEOREM SuccessIsServedHolds == Spec => []SuccessIsServed
<1>1. IInv /\ NamesInv => SuccessIsServed
  <2> SUFFICES ASSUME IInv, NamesInv PROVE SuccessIsServed
    OBVIOUS
  <2>1. ASSUME NEW b \in Builders, build[b].pc = "ok", made[b].config.name # ""
        PROVE  <<"local", Local(b), b>> \in served
    BY <2>1 DEF IInv, BuildInv
  <2>2. ASSUME NEW c \in Calls, call[c].pc = "ok"
        PROVE  /\ call[c].m \in named[c]
               /\ call[c].kind # "remove" => <<call[c].to, call[c].dst, call[c].m>> \in served
    BY <2>2 DEF IInv, CallInv, NamesInv, CallNamed
  <2>3. ASSUME NEW d \in Deployers, deploy[d].pc \in {"apply", "ok"}
        PROVE  deploy[d].config = deploy[d].m /\ deploy[d].m \in named[d]
    BY <2>3 DEF NamesInv, DeployNamed
  <2> QED BY <2>1, <2>2, <2>3 DEF SuccessIsServed
<1>2. IInv /\ NamesInv /\ [Next]_vars => NamesInv'
  BY NextNames
<1> QED BY InvariantHolds, InitNames, <1>1, <1>2, PTL DEF Spec

-----------------------------------------------------------------------------
(* What the local references do in a step.                                    *)

\* The window of every listing follows the local references.
Shows ==
    /\ DOMAIN images' = Stores
    /\ \/ DOMAIN images'["local"] = DOMAIN images["local"] /\ window' = window
       \/ window' = [l \in Listers |-> [always |-> window[l].always \cap DOMAIN images'["local"],
                                        ever   |-> window[l].ever \cup DOMAIN images'["local"]]]

\* References that go are tags of an image that a Remove has looked up.
Spares ==
    \A r \in DOMAIN images["local"] \ DOMAIN images'["local"] :
        \E c \in Calls : call[c].pc = "remove" /\ call[c].m = images["local"][r]

\* A step that leaves the references alone.
LEMMA UnchangedShows ==
    ASSUME DOMAIN images = Stores, UNCHANGED <<images, window>> PROVE Shows /\ Spares
BY DEF Shows, Spares

\* A write of the references is seen by every listing; it spares what it
\* does not delete.
LEMMA SetImagesShows ==
    ASSUME DOMAIN images = Stores, NEW s \in Stores, NEW tags, SetImages(s, tags)
    PROVE  Shows /\ (DOMAIN images[s] \subseteq DOMAIN tags => Spares)
<1>1. DOMAIN images' = Stores /\ images'[s] = tags /\ \A u \in Stores \ {s} : images'[u] = images[u]
  BY DEF SetImages
<1>2. CASE s = "local"
  BY <1>1, <1>2 DEF SetImages, Shows, Spares
<1>3. CASE s = "hub"
  <2>1. images'["local"] = images["local"] /\ window' = window
    BY <1>1, <1>3 DEF SetImages, Stores
  <2> QED BY <1>1, <2>1 DEF Shows, Spares
<1> QED BY <1>2, <1>3 DEF Stores

\* Storing an image deletes no reference.
LEMMA StoreImageShows ==
    ASSUME DOMAIN images = Stores, NEW s \in Stores, NEW ref, NEW m, NEW blobs, StoreImage(s, ref, m, blobs)
    PROVE  Shows /\ Spares
<1>1. PICK tags : tags = Put(images[s], ref, m)
  OBVIOUS
<1>2. DOMAIN images[s] \subseteq DOMAIN tags
  BY <1>1 DEF Put
<1> QED BY <1>1, <1>2, SetImagesShows DEF StoreImage

\* A build deletes no reference.
LEMMA BuildShows ==
    ASSUME IInv, NEW b \in Builders, FromFile(b) \/ BuildStep(b) PROVE Shows /\ Spares /\ list' = list
<1>1. DOMAIN images = Stores /\ "local" \in Stores
  BY DEF IInv, TypeInv, Stores
<1>2. list' = list
  BY DEF BuildOnly, BuildStep, FromFile, resolveDepth, pushLayer, pushConfig, pushManifest, tagDigest, tagName
<1>3. ASSUME NEW blobs, NEW next, Push(b, blobs, next) PROVE UNCHANGED <<images, window>>
  BY <1>3 DEF Push, PutBlobs, BuildFails, stores
<1>4. CASE FromFile(b) \/ resolveDepth(b) \/ tagDigest(b)
  BY <1>1, <1>2, <1>4, UnchangedShows DEF FromFile, resolveDepth, tagDigest, stores
<1>5. CASE pushLayer(b) \/ pushConfig(b) \/ pushManifest(b)
  <2>1. UNCHANGED <<images, window>>
    BY <1>3, <1>5 DEF pushLayer, pushConfig, pushManifest, BuildFails, stores
  <2> QED BY <1>1, <1>2, <2>1, UnchangedShows
<1>6. CASE tagName(b)
  <2>1. CASE StoreImage("local", Local(b), b, buildOCILayoutTar(b))
    BY <1>1, <1>2, <2>1, StoreImageShows
  <2>2. CASE UNCHANGED <<images, window>>
    BY <1>1, <1>2, <2>2, UnchangedShows
  <2> QED BY <1>6, <2>1, <2>2 DEF tagName, BuildFails, stores
<1> QED BY <1>4, <1>5, <1>6 DEF BuildStep

\* Of the calls, Remove alone deletes references, those of the image it has
\* looked up.
LEMMA CallShows ==
    ASSUME IInv, NEW c \in Calls,
           Tag(c) \/ RemoveRef(c) \/ PullRemote(c) \/ PushRemote(c) \/ CallStep(c)
    PROVE  Shows /\ Spares /\ list' = list
<1>1. DOMAIN images = Stores /\ "local" \in Stores /\ CallInv(call[c])
  BY DEF IInv, TypeInv, Stores
<1>2. list' = list
  BY DEF CallOnly, CallStep, Tag, RemoveRef, PullRemote, PushRemote, Begin, resolveImageID, tag, remove,
         transfer, copyBlobs, copyManifest
<1>3. CASE UNCHANGED stores
  BY <1>1, <1>2, <1>3, UnchangedShows DEF stores
<1>4. CASE Tag(c) \/ RemoveRef(c) \/ PullRemote(c) \/ PushRemote(c) \/ resolveImageID(c)
  <2>1. UNCHANGED <<images, window>>
    BY <1>4 DEF Tag, RemoveRef, PullRemote, PushRemote, Begin, resolveImageID, CallFails, stores
  <2> QED BY <1>1, <1>2, <2>1, UnchangedShows
<1>5. CASE tag(c)
  <2>1. UNCHANGED stores \/ \E m : StoreImage("local", call[c].dst, m, NoBlobs)
    BY <1>5 DEF tag, CallFails
  <2> QED BY <1>1, <1>2, <1>3, <2>1, StoreImageShows
<1>6. CASE transfer(c)
  <2>1. call[c].to \in Stores
    BY <1>1, <1>6 DEF transfer, CallInv
  <2>2. UNCHANGED stores \/ \E m : StoreImage(call[c].to, call[c].dst, m, Blobs(m))
    BY <1>6 DEF transfer
  <2> QED BY <1>1, <1>2, <1>3, <2>1, <2>2, StoreImageShows
<1>7. CASE copyBlobs(c)
  <2>1. UNCHANGED <<images, window>>
    BY <1>7 DEF copyBlobs, RoundTrip, PutBlobs, stores
  <2> QED BY <1>1, <1>2, <2>1, UnchangedShows
<1>8. CASE copyManifest(c)
  <2>1. call[c].to \in Stores
    BY <1>1, <1>8 DEF copyManifest, CallInv
  <2>2. UNCHANGED stores \/ \E blobs : StoreImage(call[c].to, call[c].dst, call[c].m, blobs)
    BY <1>8 DEF copyManifest, RoundTrip
  <2> QED BY <1>1, <1>2, <1>3, <2>1, <2>2, StoreImageShows
<1>9. CASE remove(c) /\ ~UNCHANGED stores
  <2>1. PICK kept : kept = Only(images["local"], DOMAIN images["local"] \ Untagged(call[c].m, call[c].ref))
    OBVIOUS
  <2>2. SetImages("local", kept) /\ call[c].pc = "remove"
    BY <1>9, <2>1 DEF remove, CallFails
  <2>3. Shows /\ images'["local"] = kept
    <3>1. Shows
      BY <1>1, <2>2, SetImagesShows
    <3> QED BY <1>1, <2>2, <3>1 DEF SetImages
  <2>4. \A r \in DOMAIN images["local"] \ DOMAIN kept : images["local"][r] = call[c].m
    BY <2>1 DEF Only, Untagged
  <2>5. Spares
    BY <2>2, <2>3, <2>4 DEF Spares
  <2> QED BY <1>2, <2>3, <2>5
<1> QED BY <1>3, <1>4, <1>5, <1>6, <1>7, <1>8, <1>9 DEF CallStep

\* A deployment deletes no reference.
LEMMA DeployShows ==
    ASSUME IInv, NEW d \in Deployers, Deploy(d) \/ DeployStep(d) PROVE Shows /\ Spares /\ list' = list
<1>1. DeployOnly(d)
  BY DEF Deploy, DeployStep, DeployResolve, Load, materialize
<1> QED BY <1>1, UnchangedShows DEF DeployOnly, stores, IInv, TypeInv

\* DELETE by digest and ImageRemove by ID: an image that a build or a tag has put
\* under the reference since Remove looked it up stays.
THEOREM RemoveSparesNewerHolds == Spec => RemoveSparesNewer
<1>1. ASSUME IInv, [Next]_vars PROVE [Spares]_vars
  <2>1. ASSUME NEW l \in Listers, List(l) \/ ListStep(l) PROVE Spares
    BY <2>1 DEF List, ListStep, fetchTags, listed, Inspect, ListOnly, Spares
  <2> QED BY <1>1, <2>1, BuildShows, CallShows, DeployShows DEF Next
<1>2. IInv /\ [Next]_vars => [Spares]_vars
  BY <1>1
<1>3. [][Spares]_vars => RemoveSparesNewer
  BY DEF RemoveSparesNewer, Spares
<1> QED BY InvariantHolds, <1>2, <1>3, PTL DEF Spec

-----------------------------------------------------------------------------
(* Listings.                                                                  *)

\* Whatever the others do to the local references, a listing loses nothing.
LEMMA ShowsKeeps == ASSUME ListsInv, Shows, list' = list PROVE ListsInv'
<1>1. DOMAIN images' = Stores /\ DOMAIN list' = Listers /\ DOMAIN window' = Listers
  BY DEF ListsInv, Shows
<1>2. ASSUME NEW l \in Listers PROVE ListInv(l, list[l])'
  <2>1. ListInv(l, list[l])
    BY DEF ListsInv
  <2>2. CASE DOMAIN images'["local"] = DOMAIN images["local"] /\ window' = window
    BY <2>1, <2>2 DEF ListInv
  <2>3. CASE window' = [k \in Listers |-> [always |-> window[k].always \cap DOMAIN images'["local"],
                                           ever   |-> window[k].ever \cup DOMAIN images'["local"]]]
    <3>1. /\ window'[l].always = window[l].always \cap DOMAIN images'["local"]
          /\ window'[l].ever = window[l].ever \cup DOMAIN images'["local"]
      BY <2>3
    <3> QED BY <2>1, <3>1 DEF ListInv
  <2> QED BY <2>2, <2>3 DEF Shows
<1> QED BY <1>1, <1>2 DEF ListsInv

\* Listing l moves to local state v; the references stay.
LEMMA ListMoves ==
    ASSUME ListsInv, NEW l \in Listers, NEW v, list' = [list EXCEPT ![l] = v], images' = images,
           DOMAIN window' = Listers, \A k \in Listers \ {l} : window'[k] = window[k], ListInv(l, v)'
    PROVE  ListsInv'
<1>1. /\ DOMAIN list' = Listers /\ list'[l] = v /\ \A k \in Listers \ {l} : list'[k] = list[k]
      /\ DOMAIN images' = Stores
  BY DEF ListsInv
<1>2. ASSUME NEW k \in Listers PROVE ListInv(k, list[k])'
  <2>1. CASE k = l
    BY <1>1, <2>1
  <2>2. CASE k # l
    <3>1. ListInv(k, list[k]) /\ list'[k] = list[k] /\ window'[k] = window[k]
      BY <1>1, <2>2 DEF ListsInv
    <3> QED BY <3>1 DEF ListInv
  <2> QED BY <2>1, <2>2
<1> QED BY <1>1, <1>2 DEF ListsInv

\* A listing begins: its window is the references of that moment.
LEMMA ListBeginsKeeps == ASSUME ListsInv, NEW l \in Listers, List(l) PROVE ListsInv'
<1> DEFINE now == DOMAIN images["local"]
<1>1. /\ list[l].pc = "idle" /\ images' = images
      /\ window' = [window EXCEPT ![l] = [always |-> now, ever |-> now]]
  BY DEF List, ListOnly
<1>2. ListInv(l, list[l])
  BY DEF ListsInv
<1>3. /\ DOMAIN window' = Listers /\ \A k \in Listers \ {l} : window'[k] = window[k]
      /\ window'[l].always = now /\ window'[l].ever = now
  BY <1>1 DEF ListsInv
<1>4. CASE list' = [list EXCEPT ![l].pc = "err"]
  <2>1. PICK v : v = [list[l] EXCEPT !.pc = "err"]
    OBVIOUS
  <2>2. DOMAIN v = ListFields /\ v.pc = "err" /\ v.out = list[l].out
    BY <1>2, <2>1 DEF ListInv, ListFields
  <2>3. ListInv(l, v)'
    BY <1>1, <1>2, <1>3, <2>2 DEF ListInv
  <2> QED BY <1>1, <1>3, <1>4, <2>1, <2>3, ListMoves
<1>5. CASE list' = [list EXCEPT ![l] = [list[l] EXCEPT !.pc = "done", !.out = now]]
  <2>1. PICK v : v = [list[l] EXCEPT !.pc = "done", !.out = now]
    OBVIOUS
  <2>2. DOMAIN v = ListFields /\ v.pc = "done" /\ v.out = now
    BY <1>2, <2>1 DEF ListInv, ListFields
  <2>3. ListInv(l, v)'
    BY <1>1, <1>2, <1>3, <2>2 DEF ListInv
  <2> QED BY <1>1, <1>3, <1>5, <2>1, <2>3, ListMoves
<1>6. ASSUME NEW entries \in BOOLEAN,
             list' = [list EXCEPT ![l] = [list[l] EXCEPT !.pc = "tags", !.entries = entries, !.todo = {Repo(r) : r \in now}]]
      PROVE  ListsInv'
  <2>1. PICK v : v = [list[l] EXCEPT !.pc = "tags", !.entries = entries, !.todo = {Repo(r) : r \in now}]
    OBVIOUS
  <2>2. DOMAIN v = ListFields /\ v.pc = "tags" /\ v.out = list[l].out /\ v.todo = {Repo(r) : r \in now}
    BY <1>2, <2>1 DEF ListInv, ListFields
  <2>3. \A r \in now : Repo(r) \in v.todo
    BY <2>2
  <2>4. ListInv(l, v)'
    BY <1>1, <1>2, <1>3, <2>2, <2>3 DEF ListInv
  <2> QED BY <1>1, <1>3, <1>6, <2>1, <2>4, ListMoves
<1> QED BY <1>4, <1>5, <1>6 DEF List

\* A repository is asked for its tags at some moment after the listing began:
\* those that were there all along are among the answer.
LEMMA fetchTagsKeeps == ASSUME ListsInv, NEW l \in Listers, fetchTags(l) PROVE ListsInv'
<1>1. list[l].pc = "tags" /\ images' = images /\ window' = window
  BY DEF fetchTags, ListOnly
<1>2. ListInv(l, list[l]) /\ DOMAIN window' = Listers
  BY <1>1 DEF ListsInv
<1>3. PICK repo, tags :
         /\ tags = {r \in DOMAIN images["local"] : Repo(r) = repo}
         /\ \/ list' = [list EXCEPT ![l].todo = @ \ {repo}, ![l].out = @ \cup tags]
            \/ list' = [list EXCEPT ![l].todo = @ \ {repo}, ![l].dropped = TRUE]
  BY DEF fetchTags
<1>4. CASE list' = [list EXCEPT ![l].todo = @ \ {repo}, ![l].out = @ \cup tags]
  <2>1. PICK v : v = [list[l] EXCEPT !.todo = @ \ {repo}, !.out = @ \cup tags]
    OBVIOUS
  <2>2. /\ DOMAIN v = ListFields /\ v.pc = "tags" /\ v.todo = list[l].todo \ {repo}
        /\ v.out = list[l].out \cup tags /\ v.dropped = list[l].dropped
    BY <1>1, <1>2, <2>1 DEF ListInv, ListFields
  <2>3. ListInv(l, v)'
    BY <1>1, <1>2, <1>3, <2>2 DEF ListInv
  <2> QED BY <1>1, <1>2, <1>4, <2>1, <2>3, ListMoves
<1>5. CASE list' = [list EXCEPT ![l].todo = @ \ {repo}, ![l].dropped = TRUE]
  <2>1. PICK v : v = [list[l] EXCEPT !.todo = @ \ {repo}, !.dropped = TRUE]
    OBVIOUS
  <2>2. DOMAIN v = ListFields /\ v.pc = "tags" /\ v.out = list[l].out /\ v.dropped = TRUE
    BY <1>1, <1>2, <2>1 DEF ListInv, ListFields
  <2>3. ListInv(l, v)'
    BY <1>1, <1>2, <2>2 DEF ListInv
  <2> QED BY <1>1, <1>2, <1>5, <2>1, <2>3, ListMoves
<1> QED BY <1>3, <1>4, <1>5

\* All repositories have answered: the names are looked up next, or returned.
LEMMA listedKeeps == ASSUME ListsInv, NEW l \in Listers, listed(l) PROVE ListsInv'
<1>1. list[l].pc = "tags" /\ list[l].todo = {} /\ images' = images /\ window' = window
  BY DEF listed, ListOnly
<1>2. ListInv(l, list[l]) /\ DOMAIN window' = Listers
  BY <1>1 DEF ListsInv
<1>3. CASE list' = [list EXCEPT ![l] = [list[l] EXCEPT !.pc = "inspect", !.todo = list[l].out, !.out = {}]]
  <2>1. PICK v : v = [list[l] EXCEPT !.pc = "inspect", !.todo = list[l].out, !.out = {}]
    OBVIOUS
  <2>2. /\ DOMAIN v = ListFields /\ v.pc = "inspect" /\ v.todo = list[l].out /\ v.out = {}
        /\ v.dropped = list[l].dropped
    BY <1>2, <2>1 DEF ListInv, ListFields
  <2>3. ListInv(l, v)'
    BY <1>1, <1>2, <2>2 DEF ListInv
  <2> QED BY <1>1, <1>2, <1>3, <2>1, <2>3, ListMoves
<1>4. CASE list' = [list EXCEPT ![l] = [list[l] EXCEPT !.pc = "done"]]
  <2>1. PICK v : v = [list[l] EXCEPT !.pc = "done"]
    OBVIOUS
  <2>2. DOMAIN v = ListFields /\ v.pc = "done" /\ v.out = list[l].out /\ v.dropped = list[l].dropped
    BY <1>2, <2>1 DEF ListInv, ListFields
  <2>3. ListInv(l, v)'
    BY <1>1, <1>2, <2>2 DEF ListInv
  <2> QED BY <1>1, <1>2, <1>4, <2>1, <2>3, ListMoves
<1> QED BY <1>3, <1>4 DEF listed

\* A reference that is gone was not there all along.
LEMMA InspectKeeps == ASSUME ListsInv, NEW l \in Listers, Inspect(l) PROVE ListsInv'
<1>1. list[l].pc = "inspect" /\ images' = images /\ window' = window
  BY DEF Inspect, ListOnly
<1>2. ListInv(l, list[l]) /\ DOMAIN window' = Listers
  BY <1>1 DEF ListsInv
<1>3. CASE list[l].todo = {} /\ list' = [list EXCEPT ![l].pc = "done"]
  <2>1. PICK v : v = [list[l] EXCEPT !.pc = "done"]
    OBVIOUS
  <2>2. DOMAIN v = ListFields /\ v.pc = "done" /\ v.out = list[l].out /\ v.dropped = list[l].dropped
    BY <1>2, <2>1 DEF ListInv, ListFields
  <2>3. ListInv(l, v)'
    BY <1>1, <1>2, <1>3, <2>2 DEF ListInv
  <2> QED BY <1>1, <1>2, <1>3, <2>1, <2>3, ListMoves
<1>4. ASSUME NEW ref \in DOMAIN images["local"],
             list' = [list EXCEPT ![l].todo = @ \ {ref}, ![l].out = @ \cup {ref}]
      PROVE  ListsInv'
  <2>1. PICK v : v = [list[l] EXCEPT !.todo = @ \ {ref}, !.out = @ \cup {ref}]
    OBVIOUS
  <2>2. /\ DOMAIN v = ListFields /\ v.pc = "inspect" /\ v.todo = list[l].todo \ {ref}
        /\ v.out = list[l].out \cup {ref} /\ v.dropped = list[l].dropped
    BY <1>1, <1>2, <2>1 DEF ListInv, ListFields
  <2>3. ListInv(l, v)'
    BY <1>1, <1>2, <1>4, <2>2 DEF ListInv
  <2> QED BY <1>1, <1>2, <1>4, <2>1, <2>3, ListMoves
<1>5. ASSUME NEW ref, ref \notin DOMAIN images["local"], list' = [list EXCEPT ![l].todo = @ \ {ref}]
      PROVE  ListsInv'
  <2>1. PICK v : v = [list[l] EXCEPT !.todo = @ \ {ref}]
    OBVIOUS
  <2>2. /\ DOMAIN v = ListFields /\ v.pc = "inspect" /\ v.todo = list[l].todo \ {ref}
        /\ v.out = list[l].out /\ v.dropped = list[l].dropped
    BY <1>1, <1>2, <2>1 DEF ListInv, ListFields
  <2>3. ListInv(l, v)'
    BY <1>1, <1>2, <1>5, <2>2 DEF ListInv
  <2> QED BY <1>1, <1>2, <1>5, <2>1, <2>3, ListMoves
<1>6. ASSUME NEW ref, list' = [list EXCEPT ![l].todo = @ \ {ref}, ![l].dropped = TRUE]
      PROVE  ListsInv'
  <2>1. PICK v : v = [list[l] EXCEPT !.todo = @ \ {ref}, !.dropped = TRUE]
    OBVIOUS
  <2>2. /\ DOMAIN v = ListFields /\ v.pc = "inspect" /\ v.todo = list[l].todo \ {ref}
        /\ v.out = list[l].out /\ v.dropped = TRUE
    BY <1>1, <1>2, <2>1 DEF ListInv, ListFields
  <2>3. ListInv(l, v)'
    BY <1>1, <1>2, <2>2 DEF ListInv
  <2> QED BY <1>1, <1>2, <1>6, <2>1, <2>3, ListMoves
<1> QED BY <1>3, <1>4, <1>5, <1>6 DEF Inspect

\* Before its call a listing has nothing.
LEMMA ListsInit == Init => ListsInv
<1> SUFFICES ASSUME Init PROVE ListsInv
  OBVIOUS
<1>1. PICK procs :
        list = [l \in Listers |-> [pc |-> IF l \in procs THEN "idle" ELSE "off", entries |-> FALSE,
                                   todo |-> {}, out |-> {}, dropped |-> FALSE]]
  BY DEF Init
<1>2. window = [l \in Listers |-> [always |-> {}, ever |-> {}]]
  BY DEF Init
<1>3. DOMAIN images = Stores
  BY InitInv DEF IInv, TypeInv
<1>4. ASSUME NEW l \in Listers PROVE ListInv(l, list[l])
  <2>1. /\ DOMAIN list[l] = ListFields /\ list[l].pc \in {"idle", "off"} /\ list[l].out = {}
        /\ list[l].dropped = FALSE
    BY <1>1 DEF ListFields
  <2> QED BY <2>1 DEF ListInv
<1> QED BY <1>1, <1>2, <1>3, <1>4 DEF ListsInv

\* Every step keeps the invariant of the listings.
LEMMA ListsNext == ASSUME IInv, ListsInv, [Next]_vars PROVE ListsInv'
<1>1. ASSUME NEW b \in Builders, FromFile(b) \/ BuildStep(b) PROVE ListsInv'
  BY <1>1, BuildShows, ShowsKeeps
<1>2. ASSUME NEW c \in Calls, Tag(c) \/ RemoveRef(c) \/ PullRemote(c) \/ PushRemote(c) \/ CallStep(c)
      PROVE  ListsInv'
  BY <1>2, CallShows, ShowsKeeps
<1>3. ASSUME NEW l \in Listers, List(l) \/ ListStep(l) PROVE ListsInv'
  BY <1>3, ListBeginsKeeps, fetchTagsKeeps, listedKeeps, InspectKeeps DEF ListStep
<1>4. ASSUME NEW d \in Deployers, Deploy(d) \/ DeployStep(d) PROVE ListsInv'
  BY <1>4, DeployShows, ShowsKeeps
<1>5. CASE UNCHANGED vars
  <2>1. UNCHANGED <<images, window, list>>
    BY <1>5 DEF vars
  <2> QED BY <2>1 DEF ListsInv, ListInv
<1> QED BY <1>1, <1>2, <1>3, <1>4, <1>5 DEF Next

\* registry.go List and ListEntries: a finished listing has every reference that
\* was there all along and none that never was, although it is put together from
\* several requests while others build, tag and remove.
THEOREM ListingIsWindowedHolds == Spec => []ListingIsWindowed
<1>1. IInv /\ ListsInv /\ [Next]_vars => ListsInv'
  BY ListsNext
<1>2. ListsInv => ListingIsWindowed
  BY DEF ListsInv, ListInv, ListingIsWindowed
<1> QED BY InvariantHolds, ListsInit, <1>1, <1>2, PTL DEF Spec

=============================================================================
