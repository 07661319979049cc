------------------------------ MODULE ImageFlow ------------------------------
(* Images from Agentfile to agent: builds (build/build.go) resolve their      *)
(* parents in a remote registry and write a local store, the Registry calls   *)
(* of both executors (system/registry.go, docker/registry.go, docker/store.go)*)
(* tag, remove, push, pull and list there, and a deployment loads an image,   *)
(* applies the operator's overrides and pulls the BINs. Every process makes   *)
(* one call. The system executor's store is an OCI registry that is written   *)
(* blob by blob; the docker executor stages blobs and loads whole images.     *)
EXTENDS Agentfile, BinImage, FiniteSets

CONSTANTS
    Sources,    \* name -> [insts, dir]: an Agentfile and the files beside it
    Earlier,    \* digest -> manifest: the artifacts of earlier builds
    Scenarios,  \* [procs, sources, hub, local]: the processes that run, what they
                \* build, and what the stores hold at first (reference -> digest)
    Aliases,    \* references that Tag writes
    Deploys,    \* [values, envs]: the overrides of a deployment
    BinDigest,  \* BIN image -> digest
    Builders, Calls, Listers, Deployers,   \* processes
    MaxDepth,   \* FROM depth (10 in the code)
    MaxTries    \* attempts that fit in the retry time

VARIABLES
    backend,    \* the executor
    made,       \* digest -> manifest; that of a build goes by its builder
    images,     \* store -> reference -> digest
    content,    \* store -> the blobs it holds; a config goes by its manifest's digest
    build, call, list, deploy,             \* the processes' local states
    served,     \* history: <<store, reference, digest>> ever served
    window,     \* history: local references since each listing began
    named       \* history: what the reference a call or deployment reads has named since it began

stores == <<images, content, served, window, named>>
vars == <<backend, made, images, content, build, call, list, deploy, served, window, named>>

ImageFlowAssumption ==
    /\ MaxDepth \in Nat /\ MaxTries \in Nat
    /\ \A s \in DOMAIN Sources : DOMAIN Sources[s] = {"insts", "dir"}
    /\ \A s \in DOMAIN Sources : LET insts == Sources[s].insts IN
          /\ IsSeq(insts)
          /\ \A i \in DOMAIN insts : /\ insts[i].op \in Keywords
                                     /\ insts[i].op = "CAPABILITY" => IsSeq(insts[i].names)
    /\ Builders \cap DOMAIN Earlier = {} /\ Calls \cap Deployers = {}
    /\ \A d \in DOMAIN Earlier : WellBuilt(Earlier[d])
    /\ \A sc \in Scenarios : sc.sources \subseteq DOMAIN Sources
    /\ \A sc \in Scenarios : \A held \in {sc.local, sc.hub} : \A r \in DOMAIN held : held[r] \in DOMAIN Earlier
    /\ \A o \in Deploys : /\ IsSeq(o.envs) /\ IsFiniteSet(DOMAIN o.values)
                          /\ \A k \in DOMAIN o.values : o.values[k] # Nil
    /\ \A image \in DOMAIN BinDigest : BinDigest[image] \in DOMAIN BinBlobs /\ BinBlobs[BinDigest[image]].index # <<>>
ASSUME ImageFlowAssumption

Only(f, S) == [x \in DOMAIN f \cap S |-> f[x]]
NoDigest == "none"
NoManifest == Manifest(newAgent, <<>>)
Digests == Builders \cup DOMAIN Earlier
Of(d) == made[d]
Local(d) == Ref("", Of(d).config.name, "latest")
DataOf(m) == {m.layers[i].data : i \in DOMAIN m.layers}
Blobs(d) == [data |-> DataOf(Of(d)), config |-> {d}, manifest |-> {d}]
NoBlobs == [data |-> {}, config |-> {}, manifest |-> {}]
Join(a, b) == [k \in DOMAIN a |-> a[k] \cup b[k]]

-----------------------------------------------------------------------------
(* The stores.                                                                *)

\* The store and the reference that a call or a deployment reads. The daemon
\* pushes whatever the remote name means to it by then.
Source(p) ==
    IF p \in Deployers THEN <<"local", deploy[p].ref>>
    ELSE <<call[p].from, IF call[p].pc = "transfer" /\ call[p].kind = "push" THEN call[p].dst ELSE call[p].ref>>

\* A store's references become tags; the blobs stay.
SetImages(s, tags) ==
    /\ images' = [images EXCEPT ![s] = tags]
    /\ served' = served \cup {<<s, r, tags[r]>> : r \in DOMAIN tags}
    /\ window' = IF s = "local" THEN [l \in Listers |-> [always |-> window[l].always \cap DOMAIN tags,
                                                         ever   |-> window[l].ever \cup DOMAIN tags]]
                 ELSE window
    /\ named' = [p \in Calls \cup Deployers |->
                    named[p] \cup {tags[r] : r \in {x \in DOMAIN tags : <<s, x>> = Source(p)}}]

\* A manifest is stored under a reference, with blobs.
StoreImage(s, ref, m, blobs) ==
    /\ content' = [content EXCEPT ![s] = Join(@, blobs)]
    /\ SetImages(s, Put(images[s], ref, m))

PutBlobs(s, blobs) ==
    /\ content' = [content EXCEPT ![s] = Join(@, blobs)]
    /\ UNCHANGED <<images, served, window, named>>

Has(s, m) == m \in content[s].manifest

-----------------------------------------------------------------------------
(* build.FromFile.                                                            *)

BuildGoto(b, pc) == build' = [build EXCEPT ![b].pc = pc]
BuildOnly(b) == UNCHANGED <<backend, call, list, deploy>>
BuildFails(b) == BuildGoto(b, "err") /\ UNCHANGED stores

FromFile(b) ==
    /\ build[b].pc = "idle"
    /\ LET parsed == parse(Sources[build[b].src].insts)
       IN  build' = [build EXCEPT ![b] = IF parsed = <<>> THEN [@ EXCEPT !.pc = "err"]
                                         ELSE [@ EXCEPT !.pc = "resolve", !.own = parsed[1]]]
    /\ UNCHANGED <<made, stores>> /\ BuildOnly(b)

\* The child, then its ancestors as far as they have been fetched.
Chain(b) == <<build[b].own>> \o [i \in DOMAIN build[b].fetched |-> LoadHydrated(Of(build[b].fetched[i]))]

\* The merged Agentfile is built from the files beside the child.
Resolved(b, agent) ==
    build' = [build EXCEPT ![b] = [@ EXCEPT !.pc = "push", !.agent = agent,
                                            !.layers = BuildLayers(agent, build[b].src, Sources[build[b].src].dir)]]

\* Depth, root and cycle are checked in this order before the next fetch.
resolveDepth(b) ==
    LET chain == Chain(b)
        from  == Last(chain).from
        ref   == ParseReference(from)
        seen  == {ParseReference(chain[i].from) : i \in 1..(Len(chain) - 1)}
    IN  /\ build[b].pc = "resolve"
        /\ IF Len(chain) - 1 > MaxDepth THEN BuildGoto(b, "err")
           ELSE IF from \in {NoRef, Scratch} THEN Resolved(b, mergeChain(chain))
           ELSE IF ref \in seen THEN BuildGoto(b, "err")
           ELSE \/ /\ ref \in DOMAIN images["hub"]
                   /\ build' = [build EXCEPT ![b].fetched = Append(@, images["hub"][ref])]
                \/ BuildGoto(b, "err")
        /\ UNCHANGED <<made, stores>> /\ BuildOnly(b)

\* Store.Push stages; a registry stores the blob or fails.
Push(b, blobs, next) ==
    \/ /\ backend = "docker"
       /\ build' = [build EXCEPT ![b] = [next EXCEPT !.staged = Join(next.staged, blobs)]]
       /\ UNCHANGED stores
    \/ /\ backend = "system"
       /\ \/ build' = [build EXCEPT ![b] = next] /\ PutBlobs("local", blobs)
          \/ BuildFails(b)

\* Build: one layer after the other, each read just before it is pushed.
pushLayer(b) ==
    /\ build[b].pc = "push" /\ build[b].pushed + 1 \in DOMAIN build[b].layers
    /\ LET layer == build[b].layers[build[b].pushed + 1]
       IN  IF layer = <<>> THEN BuildFails(b)
           ELSE Push(b, [NoBlobs EXCEPT !.data = {layer[1].data}], [build[b] EXCEPT !.pushed = @ + 1])
    /\ UNCHANGED made /\ BuildOnly(b)

Pack(b) ==
    /\ build[b].pc = "push" /\ DOMAIN build[b].layers \subseteq 1 .. build[b].pushed
    /\ made' = [made EXCEPT ![b] = Manifest(build[b].agent, [i \in DOMAIN build[b].layers |-> build[b].layers[i][1]])]

PackedState(b) == [build[b] EXCEPT !.pc = "manifest", !.agent = newAgent, !.layers = <<>>, !.pushed = 0]

\* Mutant: the config blob is forgotten.
pushConfigNever(b) == Pack(b) /\ build' = [build EXCEPT ![b] = PackedState(b)] /\ UNCHANGED stores /\ BuildOnly(b)

\* packManifest: the config, then the manifest that names it and the layers.
pushConfig(b) == Pack(b) /\ Push(b, [NoBlobs EXCEPT !.config = {b}], PackedState(b)) /\ BuildOnly(b)

pushManifest(b) ==
    /\ build[b].pc = "manifest"
    /\ Push(b, [NoBlobs EXCEPT !.manifest = {b}], [build[b] EXCEPT !.pc = "digest"])
    /\ UNCHANGED made /\ BuildOnly(b)

\* The digest is no name in either store: the manifest only has to be there.
tagDigest(b) ==
    /\ build[b].pc = "digest"
    /\ \/ /\ backend = "docker" \/ Has("local", b)
          /\ BuildGoto(b, IF made[b].config.name = "" THEN "ok" ELSE "name")
       \/ backend = "system" /\ BuildGoto(b, "err")
    /\ UNCHANGED <<made, stores>> /\ BuildOnly(b)

\* The layout that is loaded has every staged blob; a registry has them already.
buildOCILayoutTar(b) == IF backend = "docker" THEN build[b].staged ELSE NoBlobs

\* Store.Tag loads the staged image. The answer may be an error after the load;
\* an error inside the answer's stream is drained with it.
tagName(b) ==
    /\ build[b].pc = "name"
    /\ \/ /\ backend = "docker" \/ Has("local", b)
          /\ StoreImage("local", Local(b), b, buildOCILayoutTar(b))
          /\ \E pc \in {"ok", "err"} : BuildGoto(b, pc)
       \/ BuildFails(b)
       \/ backend = "docker" /\ BuildGoto(b, "drained") /\ UNCHANGED stores
    /\ UNCHANGED made /\ BuildOnly(b)

BuildStep(b) ==
    resolveDepth(b) \/ pushLayer(b) \/ pushConfig(b) \/ pushManifest(b) \/ tagDigest(b) \/ tagName(b)

-----------------------------------------------------------------------------
(* The Registry calls Tag, Remove, PullRemote and PushRemote.                 *)

CallGoto(c, pc) == call' = [call EXCEPT ![c].pc = pc]
CallOnly(c) == UNCHANGED <<backend, made, build, list, deploy>>
CallFails(c) == CallGoto(c, "err") /\ UNCHANGED stores
Begin(c, kind, from, ref, to, dst, pc) ==
    /\ call[c].pc = "idle"
    /\ call' = [call EXCEPT ![c] = [@ EXCEPT !.pc = pc, !.kind = kind, !.from = from, !.ref = ref,
                                             !.to = to, !.dst = dst]]
    /\ named' = [named EXCEPT ![c] = {images[from][ref]}]
    /\ UNCHANGED <<images, content, served, window>> /\ CallOnly(c)

\* ImageTag needs no look-up.
Tag(c) ==
    \E ref \in DOMAIN images["local"], dst \in Aliases :
        Begin(c, "tag", "local", ref, "local", dst, IF backend = "system" THEN "resolve" ELSE "tag")

RemoveRef(c) == \E ref \in DOMAIN images["local"] : Begin(c, "remove", "local", ref, "local", ref, "resolve")

\* The local copy goes by the whole remote reference: the repository of the
\* system registry is its name, the host included (ParseReference).
PullRemote(c) ==
    \E ref \in DOMAIN images["hub"] :
        Begin(c, "pull", "hub", ref, "local", ref, IF backend = "system" THEN "resolve" ELSE "transfer")

\* docker tags the remote reference in the daemon first, when it is another one.
PushRemote(c) ==
    \E ref \in DOMAIN images["local"] :
        LET dst == [ref EXCEPT !.host = "hub"]
        IN  Begin(c, "push", "local", ref, "hub", dst,
                  IF backend = "system" THEN "resolve" ELSE IF ref = dst THEN "transfer" ELSE "tag")

\* Reference to descriptor: the registry's manifest, the image ID of the daemon.
resolveImageID(c) ==
    LET found == images[call[c].from]
        next  == IF call[c].kind \in {"tag", "remove"} THEN call[c].kind ELSE "blobs"
    IN  /\ call[c].pc = "resolve"
        /\ \/ /\ call[c].ref \in DOMAIN found
              /\ call' = [call EXCEPT ![c].m = found[call[c].ref], ![c].pc = next]
              /\ UNCHANGED stores
           \/ CallFails(c)
        /\ CallOnly(c)

\* registry.Tag: the descriptor that was looked up, or the image that the name
\* has in the daemon by now. The answer may be lost. PushRemote goes on with the push.
tag(c) ==
    /\ call[c].pc = "tag"
    /\ \/ /\ backend = "docker" => call[c].ref \in DOMAIN images["local"]
          /\ LET m == IF backend = "docker" THEN images["local"][call[c].ref] ELSE call[c].m
             IN  /\ Has("local", m)
                 /\ StoreImage("local", call[c].dst, m, NoBlobs)
                 /\ \E pc \in {IF call[c].kind = "push" THEN "transfer" ELSE "ok", "err"} :
                        call' = [call EXCEPT ![c].m = m, ![c].pc = pc]
       \/ CallFails(c)
    /\ CallOnly(c)

\* A manifest goes with its tags: those of the repository in an OCI registry,
\* every alias in the daemon.
Untagged(m, ref) ==
    {r \in DOMAIN images["local"] :
        images["local"][r] = m /\ (backend = "system" => r.host = ref.host /\ r.name = ref.name)}

\* Mutant: whatever the reference names by now.
removeByTag(c) ==
    LET ref == call[c].ref
    IN  /\ call[c].pc = "remove"
        /\ ref \in DOMAIN images["local"]
        /\ SetImages("local", Only(images["local"], DOMAIN images["local"] \ {ref}))
        /\ CallGoto(c, "ok") /\ UNCHANGED content /\ CallOnly(c)

\* DELETE by digest, ImageRemove by ID.
remove(c) ==
    LET m    == call[c].m
        kept == Only(images["local"], DOMAIN images["local"] \ Untagged(m, call[c].ref))
    IN  /\ call[c].pc = "remove"
        /\ \/ /\ Has("local", m)
              /\ SetImages("local", kept)
              /\ content' = IF \E r \in DOMAIN kept : kept[r] = m THEN content
                            ELSE [content EXCEPT !["local"].manifest = @ \ {m}]
              /\ \E pc \in {"ok", "err"} : CallGoto(c, pc)
           \/ CallFails(c)
        /\ CallOnly(c)

\* ImagePush and ImagePull: the daemon moves the whole image. An error in the
\* middle ends the call or is drained with the progress stream.
transfer(c) ==
    LET from == images[call[c].from]
        src  == IF call[c].kind = "push" THEN call[c].dst ELSE call[c].ref
    IN  /\ call[c].pc = "transfer"
        /\ \/ /\ src \in DOMAIN from
              /\ StoreImage(call[c].to, call[c].dst, from[src], Blobs(from[src]))
              /\ \E pc \in {"ok", "err"} : call' = [call EXCEPT ![c].m = from[src], ![c].pc = pc]
           \/ \E pc \in {"err", "drained"} : CallGoto(c, pc) /\ UNCHANGED stores
        /\ CallOnly(c)

\* Mutant: the time starts again with each attempt.
RetryForever(c, canRetry) == call' = [call EXCEPT ![c].tries = (@ + 1) % (MaxTries + 1)]

Retry(c, canRetry) ==
    call' = [call EXCEPT ![c] = IF canRetry /\ @.tries < MaxTries THEN [@ EXCEPT !.tries = call[c].tries + 1]
                                ELSE [@ EXCEPT !.pc = "err"]]

\* A request takes effect or not and is answered or not; without an answer, or
\* with a 5xx, it is sent again while time is left and its body can be replayed.
RoundTrip(c, canRetry, effect, next) ==
    \/ effect /\ CallGoto(c, next)
    \/ (effect \/ UNCHANGED stores) /\ Retry(c, canRetry)

\* oras.Copy: the blobs, then the manifest under its tag.
copyBlobs(c) ==
    /\ call[c].pc = "blobs"
    /\ \E canRetry \in BOOLEAN :
        RoundTrip(c, canRetry, PutBlobs(call[c].to, [Blobs(call[c].m) EXCEPT !.manifest = {}]), "copy")
    /\ CallOnly(c)

copyManifest(c) ==
    /\ call[c].pc = "copy"
    /\ RoundTrip(c, TRUE, StoreImage(call[c].to, call[c].dst, call[c].m, [NoBlobs EXCEPT !.manifest = {call[c].m}]), "ok")
    /\ CallOnly(c)

CallStep(c) == resolveImageID(c) \/ tag(c) \/ remove(c) \/ transfer(c) \/ copyBlobs(c) \/ copyManifest(c)

-----------------------------------------------------------------------------
(* List and ListEntries.                                                      *)

ListOnly == UNCHANGED <<backend, made, build, call, deploy, images, content, served, named>>
Repo(ref) == [ref EXCEPT !.tag = ""]

\* docker answers from one ImageList; system asks for the catalogue first. The
\* first request may fail.
List(l) ==
    /\ list[l].pc = "idle"
    /\ LET now == DOMAIN images["local"]
       IN  /\ window' = [window EXCEPT ![l] = [always |-> now, ever |-> now]]
           /\ \/ \E entries \in BOOLEAN :
                    list' = [list EXCEPT ![l] =
                        IF backend = "docker" THEN [@ EXCEPT !.pc = "done", !.out = now]
                        ELSE [@ EXCEPT !.pc = "tags", !.entries = entries, !.todo = {Repo(r) : r \in now}]]
              \/ list' = [list EXCEPT ![l].pc = "err"]
    /\ ListOnly

\* A repository whose tags cannot be read is skipped.
fetchTags(l) ==
    /\ list[l].pc = "tags" /\ list[l].todo # {}
    /\ \E repo \in list[l].todo :
        LET tags == {r \in DOMAIN images["local"] : Repo(r) = repo}
        IN  \/ list' = [list EXCEPT ![l].todo = @ \ {repo}, ![l].out = @ \cup tags]
            \/ list' = [list EXCEPT ![l].todo = @ \ {repo}, ![l].dropped = TRUE]
    /\ UNCHANGED window /\ ListOnly

listed(l) ==
    /\ list[l].pc = "tags" /\ list[l].todo = {}
    /\ list' = [list EXCEPT ![l] = IF @.entries THEN [@ EXCEPT !.pc = "inspect", !.todo = list[l].out, !.out = {}]
                                   ELSE [@ EXCEPT !.pc = "done"]]
    /\ UNCHANGED window /\ ListOnly

\* Mutant: the listing ends at the first reference that is gone.
InspectOrEnd(l) ==
    /\ list[l].pc = "inspect"
    /\ \E ref \in list[l].todo :
        list' = [list EXCEPT ![l] = IF ref \in DOMAIN images["local"]
                                    THEN [@ EXCEPT !.todo = @ \ {ref}, !.out = @ \cup {ref}]
                                    ELSE [@ EXCEPT !.pc = "done"]]
    /\ UNCHANGED window /\ ListOnly

\* ListEntries inspects each reference; one that fails is dropped.
Inspect(l) ==
    /\ list[l].pc = "inspect"
    /\ \/ /\ list[l].todo = {} /\ list' = [list EXCEPT ![l].pc = "done"]
       \/ \E ref \in list[l].todo :
            \/ /\ ref \in DOMAIN images["local"]
               /\ list' = [list EXCEPT ![l].todo = @ \ {ref}, ![l].out = @ \cup {ref}]
            \/ /\ ref \notin DOMAIN images["local"]
               /\ list' = [list EXCEPT ![l].todo = @ \ {ref}]
            \/ list' = [list EXCEPT ![l].todo = @ \ {ref}, ![l].dropped = TRUE]
    /\ UNCHANGED window /\ ListOnly

ListStep(l) == fetchTags(l) \/ listed(l) \/ Inspect(l)

-----------------------------------------------------------------------------
(* Deployment: materializeContent, buildRuntime and installTools.             *)

DeployOnly(d) == UNCHANGED <<backend, made, build, call, list, images, content, served, window>>
DeployFails(d) == deploy' = [deploy EXCEPT ![d].pc = "err"]
HostPlatform == IF backend = "docker" THEN "linux" ELSE "host"

Deploy(d) ==
    /\ deploy[d].pc = "idle"
    /\ \E ref \in DOMAIN images["local"], o \in Deploys :
        /\ deploy' = [deploy EXCEPT ![d] = [@ EXCEPT !.pc = "resolve", !.ref = ref, !.with = o]]
        /\ named' = [named EXCEPT ![d] = {images["local"][ref]}]
    /\ DeployOnly(d)

\* The manifest of the image that the daemon saves, or that the registry serves.
hydrate(ref) == images["local"][ref]

\* Store.Resolve and registry.Resolve.
DeployResolve(d) ==
    /\ deploy[d].pc = "resolve"
    /\ \/ /\ deploy[d].ref \in DOMAIN images["local"]
          /\ deploy' = [deploy EXCEPT ![d].pc = "fetch", ![d].m = hydrate(deploy[d].ref)]
       \/ DeployFails(d)
    /\ UNCHANGED named /\ DeployOnly(d)

\* Mutant: the config is read through the name again.
LoadByName(d) ==
    /\ deploy[d].pc = "fetch" /\ deploy[d].ref \in DOMAIN images["local"]
    /\ deploy' = [deploy EXCEPT ![d].pc = "apply", ![d].config = images["local"][deploy[d].ref]]
    /\ UNCHANGED named /\ DeployOnly(d)

\* store.Load: the content of the descriptor, which may be gone by now.
Load(d) ==
    /\ deploy[d].pc = "fetch"
    /\ \/ /\ Has("local", deploy[d].m)
          /\ deploy' = [deploy EXCEPT ![d].pc = "apply", ![d].config = deploy[d].m]
       \/ DeployFails(d)
    /\ UNCHANGED named /\ DeployOnly(d)

\* The artifact's Agentfile, and what the overrides make of it.
Loaded(d) == Of(deploy[d].config).config
Deployed(d) == WithExtraEnvs(WithConfig(Loaded(d), deploy[d].with.values), deploy[d].with.envs)
\* An image that no registry has is an error.
Pulled(bin) == IF bin.image \in DOMAIN BinDigest THEN RemotePuller(HostPlatform, BinDigest[bin.image]) ELSE <<>>

\* Validation, overrides, the required-config gate, then the BINs.
materialize(d) ==
    LET bins == {Pulled(Deployed(d).bins[i]) : i \in DOMAIN Deployed(d).bins}
    IN  /\ deploy[d].pc = "apply"
        /\ IF Validate(Loaded(d)) /\ RequiredConfigsProvided(Deployed(d).configs) /\ <<>> \notin bins
           THEN deploy' = [deploy EXCEPT ![d].pc = "ok", ![d].bins = {f[1] : f \in bins}]
           ELSE DeployFails(d)
        /\ UNCHANGED named /\ DeployOnly(d)

DeployStep(d) == DeployResolve(d) \/ Load(d) \/ materialize(d)

-----------------------------------------------------------------------------
Init ==
    /\ backend \in {"system", "docker"}
    /\ made = [d \in Digests |-> IF d \in Builders THEN NoManifest ELSE Earlier[d]]
    /\ window = [l \in Listers |-> [always |-> {}, ever |-> {}]]
    /\ named = [p \in Calls \cup Deployers |-> {}]
    /\ \E sc \in Scenarios :
        LET pc(p)   == IF p \in sc.procs THEN "idle" ELSE "off"
            held(f) == LET D == {f[r] : r \in DOMAIN f}
                       IN  [data |-> UNION {DataOf(Earlier[d]) : d \in D}, config |-> D, manifest |-> D]
        IN  /\ images = [local |-> sc.local, hub |-> sc.hub]
            /\ content = [local |-> held(sc.local), hub |-> held(sc.hub)]
            /\ served = {<<"local", r, sc.local[r]>> : r \in DOMAIN sc.local}
                        \cup {<<"hub", r, sc.hub[r]>> : r \in DOMAIN sc.hub}
            /\ \E src \in [Builders \cap sc.procs -> sc.sources] :
                build = [b \in Builders |->
                  [pc |-> pc(b), src |-> IF b \in sc.procs THEN src[b] ELSE "", fetched |-> <<>>, own |-> newAgent, agent |-> newAgent, layers |-> <<>>,
                   pushed |-> 0, staged |-> NoBlobs]]
            /\ call = [c \in Calls |->
                  [pc |-> pc(c), kind |-> "", from |-> "", ref |-> NoRef, to |-> "", dst |-> NoRef,
                   m |-> NoDigest, tries |-> 0]]
            /\ list = [l \in Listers |->
                  [pc |-> pc(l), entries |-> FALSE, todo |-> {}, out |-> {}, dropped |-> FALSE]]
            /\ deploy = [d \in Deployers |->
                  [pc |-> pc(d), ref |-> NoRef, with |-> CHOOSE o \in Deploys : TRUE, m |-> NoDigest,
                   config |-> NoDigest, bins |-> {}]]

Next ==
    \/ \E b \in Builders : FromFile(b) \/ BuildStep(b)
    \/ \E c \in Calls : Tag(c) \/ RemoveRef(c) \/ PullRemote(c) \/ PushRemote(c) \/ CallStep(c)
    \/ \E l \in Listers : List(l) \/ ListStep(l)
    \/ \E d \in Deployers : Deploy(d) \/ DeployStep(d)

Spec == Init /\ [][Next]_vars

\* Each call runs in a goroutine that is scheduled, and its requests are
\* answered or time out.
Fairness ==
    /\ \A b \in Builders : WF_vars(BuildStep(b))
    /\ \A c \in Calls : WF_vars(CallStep(c))
    /\ \A l \in Listers : WF_vars(ListStep(l))
    /\ \A d \in Deployers : WF_vars(DeployStep(d))

FairSpec == Spec /\ Fairness

-----------------------------------------------------------------------------
\* Whatever a reference names can be loaded, at any moment of any build, copy,
\* retag or removal (build.go packManifest, store.go Tag, oras.Copy): its config
\* and all its layers are in the same store.
TagsAreComplete ==
    \A s \in {"local", "hub"} : \A r \in DOMAIN images[s] :
        LET need == Blobs(images[s][r]) IN \A k \in DOMAIN need : need[k] \subseteq content[s][k]

\* A call that reports success did it to an image that its reference named at
\* some moment of the call, whatever was built, tagged or removed meanwhile: what
\* was tagged, pushed or pulled was served under the new reference, what was
\* removed is what the reference meant, and an agent is deployed from one image
\* (load.go Load: manifest and config by the descriptor that was looked up). An
\* image that was built was served under its name. A docker push moves what the
\* remote name means to the daemon after it was tagged (docker/registry.go:280-285).
\* This is about calls whose error is read: one that the daemon reports inside
\* its progress stream is not, and the call ends as "drained", where the code
\* says success and nothing was served (store.go:220, registry.go:270 and :293).
SuccessIsServed ==
    /\ \A b \in Builders :
        build[b].pc = "ok" /\ made[b].config.name # "" => <<"local", Local(b), b>> \in served
    /\ \A c \in Calls : call[c].pc = "ok" =>
        /\ call[c].m \in named[c]
        /\ call[c].kind # "remove" => <<call[c].to, call[c].dst, call[c].m>> \in served
    /\ \A d \in Deployers :
        deploy[d].pc \in {"apply", "ok"} => deploy[d].config = deploy[d].m /\ deploy[d].m \in named[d]

Wins(result, child, parent) ==
    \A k \in DOMAIN child \cup DOMAIN parent : result[k] = IF k \in DOMAIN child THEN child[k] ELSE parent[k]

\* Inheritance: what the child declares wins, then what its parent's artifact
\* says, for every ENV, CONFIG, CONTEXT, ADD, BIN and LABEL, however long the
\* chain is and although an artifact's ancestors are merged into it a second
\* time (its config keeps FROM, build.go:129). CONFIGs of the parent are dropped
\* under a RUNTIME of the child.
NearestWins ==
    \A b \in Builders : build[b].pc = "manifest" /\ build[b].fetched # <<>> =>
        LET child  == build[b].own
            parent == configBlob(LoadHydrated(Of(build[b].fetched[1])))
            result == made[b].config
            dropped == child.runtime # ""
        IN  /\ Wins(LastValue(result.envs), LastValue(child.envs), LastValue(parent.envs))
            /\ Wins(LastValue(result.configs), LastValue(child.configs),
                    IF dropped THEN <<>> ELSE LastValue(parent.configs))
            /\ dropped => result.configs = child.configs
            /\ Wins(LastNamed(result.contexts), LastNamed(child.contexts), LastNamed(parent.contexts))
            /\ Wins(LastNamed(result.adds), LastNamed(child.adds), LastNamed(parent.adds))
            /\ Wins(LastNamed(result.bins), LastNamed(child.bins), LastNamed(parent.bins))
            /\ Wins(result.labels, child.labels, parent.labels)
            /\ ToSet(parent.caps) \cup ToSet(child.caps) \subseteq ToSet(result.caps)

\* A child's artifact carries the content of an inherited file, never that of a
\* file of the same name beside the child (load.go LoadHydrated: the parent's
\* directory is not available). An added file that is empty is the exception:
\* build.go:97 takes its empty content for a missing one.
InheritedContentKept ==
    \A b \in Builders : build[b].pc = "manifest" /\ build[b].fetched # <<>> =>
        \A media \in {"context", "file"} :
            LET parent == Of(build[b].fetched[1])
                own    == Names(IF media = "context" THEN build[b].own.contexts ELSE build[b].own.adds)
            IN  \A i \in DOMAIN parent.layers :
                    LET title == parent.layers[i].title
                        data  == Titled(parent.layers, media, title)
                    IN  /\ data # <<>> /\ title \notin own
                        /\ media = "file" => data # <<"">>
                        => Titled(made[b].layers, media, title) = data

\* What the operator gives at deployment is what the agent sees: every ENV, and
\* every CONFIG that the artifact declares at most once (WithConfig replaces the
\* first of several entries and the last one counts).
OperatorWins ==
    \A d \in Deployers : deploy[d].pc = "ok" =>
        LET o       == deploy[d].with
            configs == Deployed(d).configs
            once(k) == Cardinality({i \in DOMAIN configs : configs[i].key = k}) = 1
        IN  /\ \A i \in DOMAIN o.envs : LastValue(Deployed(d).envs)[o.envs[i].key] = LastValue(o.envs)[o.envs[i].key]
            /\ \A k \in DOMAIN o.values : once(k) => configsFromSpec(configs)[k] = o.values[k]

\* A binary that is installed is for the platform that runs it, through nested
\* indexes too (oci/manifest.go: resolution fails closed). A BIN image is an
\* index here: a plain manifest is taken as it is.
BinsMatchPlatform == \A d \in Deployers : \A f \in deploy[d].bins : f.platform = HostPlatform

\* A finished listing has every reference that was there all along and none
\* that never was, whatever is built and removed between its requests; only a
\* request that fails drops others.
ListingIsWindowed ==
    \A l \in Listers : list[l].pc = "done" =>
        /\ list[l].out \subseteq window[l].ever
        /\ ~list[l].dropped => window[l].always \subseteq list[l].out

\* Remove takes away only the image it looked up: one that a build or a tag puts
\* under the reference meanwhile survives.
RemoveSparesNewer ==
    [][\A r \in DOMAIN images["local"] \ DOMAIN images'["local"] :
        \E c \in Calls : call[c].pc = "remove" /\ call[c].m = images["local"][r]]_vars

Returned == {"off", "idle", "ok", "err", "drained", "done"}
Quiet ==
    /\ \A b \in Builders : build[b].pc \in Returned
    /\ \A c \in Calls : call[c].pc \in Returned
    /\ \A l \in Listers : list[l].pc \in Returned
    /\ \A d \in Deployers : deploy[d].pc \in Returned

\* Every call returns: a FROM chain ends at its root, in a cycle or at the depth
\* limit (resolveDepth), retries end (oci/retry.go) and so do listings. A process
\* makes one call, so in the end none is in the middle of one.
CallsReturn == <>[]Quiet
=============================================================================
