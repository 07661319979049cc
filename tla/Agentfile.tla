------------------------------ MODULE Agentfile ------------------------------
(* The Agentfile language (spec/), inheritance (resolve/) and what an         *)
(* artifact carries of it (build/, store/). Pure operators.                   *)
(*                                                                            *)
(* A file is a sequence of instructions [op |-> keyword, ...]; an Agentfile   *)
(* is the record they fold into. A reference is [host, name, tag], each ""    *)
(* when it is not written; a file's content is a string, "" when it is empty. *)
EXTENDS SequencesExt, Subsequences

CONSTANTS
    BadNames,     \* names that the patterns for paths, labels and ENV keys reject
    ReservedEnvs  \* ENV keys reserved by name or by suffix

Ref(host, name, tag) == [host |-> host, name |-> name, tag |-> tag]
NoRef == Ref("", "", "")
Scratch == Ref("", "scratch", "")

\* A reference without a tag names latest; String writes the tag out.
ParseReference(r) == IF r.tag = "" THEN [r EXCEPT !.tag = "latest"] ELSE r

Nil == "nil"             \* the value of a CONFIG or an ARG, or the name of an ADD, without one

newAgent ==
    [from |-> NoRef, runtime |-> "", model |-> "", name |-> "", exec |-> <<>>,
     contexts |-> <<>>, configs |-> <<>>, bins |-> <<>>, adds |-> <<>>, envs |-> <<>>,
     labels |-> <<>>, args |-> <<>>, caps |-> <<>>]

\* The lists of an Agentfile, and the fields of the entries that are rewritten.
Lists(seq, fields) == IsSeq(seq) /\ \A i \in DOMAIN seq : DOMAIN seq[i] = fields
WellFormed(agent) ==
    /\ DOMAIN agent = DOMAIN newAgent
    /\ Lists(agent.contexts, {"name", "file", "content"})
    /\ Lists(agent.configs, {"key", "value", "required"})
    /\ Lists(agent.adds, {"name", "src", "content"})
    /\ IsSeq(agent.bins) /\ IsSeq(agent.envs) /\ IsSeq(agent.caps)

Keywords == {"FROM", "RUNTIME", "MODEL", "NAME", "CONTEXT", "CONFIG", "BIN", "ADD", "LABEL", "EXEC", "ARG", "ENV",
             "CAPABILITY"}

\* By name: the last declaration takes the place of the first.
ReplaceContext(contexts, c) ==
    LET same == {i \in DOMAIN contexts : contexts[i].name = c.name}
    IN  IF same = {} THEN Append(contexts, c)
        ELSE [i \in DOMAIN contexts |-> IF i \in same THEN c ELSE contexts[i]]

\* A map with one more entry, and the entries of one map over those of another.
Put(f, x, v) == [y \in DOMAIN f \cup {x} |-> IF y = x THEN v ELSE f[y]]
Over(f, g) == [x \in DOMAIN f \cup DOMAIN g |-> IF x \in DOMAIN f THEN f[x] ELSE g[x]]

NonEmpty(names) == Subsequence(names, {i \in DOMAIN names : names[i] # ""})

\* RUNTIME drops the CONFIGs before it; an ADD goes by the base of its path unless
\* it is named.
applyInstruction(agent, inst) ==
    CASE inst.op = "FROM"       -> [agent EXCEPT !.from = inst.ref]
      [] inst.op = "RUNTIME"    -> [agent EXCEPT !.runtime = inst.image, !.configs = <<>>]
      [] inst.op = "MODEL"      -> [agent EXCEPT !.model = inst.model]
      [] inst.op = "NAME"       -> [agent EXCEPT !.name = inst.name]
      [] inst.op = "CONTEXT"    -> [agent EXCEPT !.contexts = ReplaceContext(@,
                                        [name |-> inst.name, file |-> inst.file, content |-> inst.heredoc])]
      [] inst.op = "CONFIG"     -> [agent EXCEPT !.configs = Append(@,
                                        [key |-> inst.key, value |-> inst.value, required |-> inst.required])]
      [] inst.op = "BIN"        -> [agent EXCEPT !.bins = Append(@, [name |-> inst.name, image |-> inst.image])]
      [] inst.op = "ADD"        -> [agent EXCEPT !.adds = Append(@,
                                        [name |-> IF inst.name = Nil THEN inst.base ELSE inst.name,
                                         src |-> inst.src, content |-> ""])]
      [] inst.op = "LABEL"      -> [agent EXCEPT !.labels = Put(@, inst.key, inst.value)]
      [] inst.op = "EXEC"       -> [agent EXCEPT !.exec = inst.args]
      [] inst.op = "ARG"        -> [agent EXCEPT !.args = IF inst.value = Nil THEN @ ELSE Put(@, inst.key, inst.value)]
      [] inst.op = "ENV"        -> [agent EXCEPT !.envs = Append(@, [key |-> inst.key, value |-> inst.value])]
      [] inst.op = "CAPABILITY" -> [agent EXCEPT !.caps = Distinct(@ \o NonEmpty(inst.names))]

Names(seq) == {seq[i].name : i \in DOMAIN seq}
Keys(seq) == {seq[i].key : i \in DOMAIN seq}

reservedContextNames == {"AGENT", "WORKSPACE", "MOUNTS"}

Validate(agent) ==
    /\ agent.from # NoRef
    /\ (Names(agent.contexts) \cup Names(agent.bins) \cup Names(agent.adds) \cup {agent.name}
        \cup Keys(agent.configs) \cup ToSet(agent.caps) \cup Keys(agent.envs)) \cap BadNames = {}
    /\ Names(agent.contexts) \cap reservedContextNames = {}
    /\ \A i \in DOMAIN agent.configs : ~(agent.configs[i].required /\ agent.configs[i].value # Nil)
    /\ Keys(agent.envs) \cap ReservedEnvs = {}

\* The Agentfile after each instruction.
applied(insts) ==
    LET after[i \in 0 .. Len(insts)] == IF i = 0 THEN newAgent ELSE applyInstruction(after[i - 1], insts[i])
    IN  after

\* <<agent>>, or <<>> for an error: FROM is the first instruction and occurs
\* once, and a context is a file or a heredoc.
parse(insts) ==
    LET agent == applied(insts)[Len(insts)]
    IN  IF /\ {i \in DOMAIN insts : insts[i].op = "FROM"} \subseteq {1}
           /\ insts = <<>> \/ insts[1].op = "FROM"
           /\ \A i \in DOMAIN insts :
                  insts[i].op = "CONTEXT" => insts[i].file = "" \/ insts[i].heredoc = ""
           /\ Validate(agent)
        THEN <<agent>> ELSE <<>>

-----------------------------------------------------------------------------
(* resolve: inheritance.                                                      *)

mergeStringSet(parent, child) == Distinct(parent \o child)

\* One context of the child after the other.
mergeContexts(parent, child) ==
    LET after[i \in 0 .. Len(child)] == IF i = 0 THEN parent ELSE ReplaceContext(after[i - 1], child[i])
    IN  after[Len(child)]

Override(parent, child, unset) == IF child = unset THEN parent ELSE child

\* Mutant: an inherited ENV comes after the child's.
mergeAgentParentLast(parent, child) ==
    [child EXCEPT !.envs = @ \o parent.envs, !.contexts = mergeContexts(parent.contexts, @),
                  !.adds = parent.adds \o @]

\* A child that sets RUNTIME drops the parent's CONFIGs.
mergeAgent(parent, child) ==
    [from     |-> child.from,
     runtime  |-> Override(parent.runtime, child.runtime, ""),
     model    |-> Override(parent.model, child.model, ""),
     name     |-> Override(parent.name, child.name, ""),
     exec     |-> Override(parent.exec, child.exec, <<>>),
     contexts |-> mergeContexts(parent.contexts, child.contexts),
     configs  |-> IF child.runtime # "" THEN child.configs ELSE parent.configs \o child.configs,
     bins     |-> parent.bins \o child.bins,
     adds     |-> parent.adds \o child.adds,
     envs     |-> parent.envs \o child.envs,
     labels   |-> Over(child.labels, parent.labels),
     args     |-> Over(child.args, parent.args),
     caps     |-> mergeStringSet(parent.caps, child.caps)]

\* The chain from the child to its root, merged from the root down.
mergeChain(chain) ==
    LET merged[i \in DOMAIN chain] ==
            IF i = Len(chain) THEN chain[i] ELSE mergeAgent(merged[i + 1], chain[i])
    IN  merged[1]

-----------------------------------------------------------------------------
(* build and store: the artifact.                                             *)

Layer(media, title, data) == [media |-> media, title |-> title, data |-> data]

\* <<content>>, or <<>> when the source directory has no such file.
readFile(dir, path) == IF path \in DOMAIN dir THEN <<dir[path]>> ELSE <<>>

resolveContextContent(c, dir) ==
    IF c.content # "" THEN <<c.content>> ELSE IF c.file # "" THEN readFile(dir, c.file) ELSE <<"">>

AddContent(a, dir) == IF a.content # "" THEN <<a.content>> ELSE readFile(dir, a.src)

\* The source, then the contexts, then the added files: each <<layer>>, or <<>>
\* when its file cannot be read.
BuildLayers(agent, source, dir) ==
    LET layer(media, title, data) == IF data = <<>> THEN <<>> ELSE <<Layer(media, title, data[1])>>
        context(c) == layer("context", c.name, resolveContextContent(c, dir))
        add(a)     == layer("file", a.name, AddContent(a, dir))
    IN  << <<Layer("agentfile", "Agentfile", source)>> >>
        \o [i \in DOMAIN agent.contexts |-> context(agent.contexts[i])]
        \o [i \in DOMAIN agent.adds |-> add(agent.adds[i])]

\* The config blob is the resolved Agentfile as JSON, without the added contents.
configBlob(agent) == [agent EXCEPT !.adds = [i \in DOMAIN @ |-> [@[i] EXCEPT !.content = ""]]]

Manifest(agent, layers) == [config |-> configBlob(agent), layers |-> layers]

\* The data of the last layer with this title, <<>> when there is none.
Titled(layers, media, title) ==
    LET found == {i \in DOMAIN layers : layers[i].media = media /\ layers[i].title = title}
    IN  IF found = {} THEN <<>> ELSE <<layers[Max(found)].data>>

HydrateContext(layers, c) ==
    LET data == Titled(layers, "context", c.name)
    IN  IF c.content = "" /\ data # <<>> THEN [c EXCEPT !.content = data[1], !.file = ""] ELSE c

HydrateAdd(layers, a) ==
    LET data == Titled(layers, "file", a.name) IN IF data # <<>> THEN [a EXCEPT !.content = data[1]] ELSE a

\* Mutant: contexts keep their file names.
LoadHydratedAdds(m) ==
    [m.config EXCEPT !.adds = [i \in DOMAIN @ |-> HydrateAdd(m.layers, @[i])]]

LoadHydrated(m) ==
    [m.config EXCEPT !.contexts = [i \in DOMAIN @ |-> HydrateContext(m.layers, @[i])],
                     !.adds     = [i \in DOMAIN @ |-> HydrateAdd(m.layers, @[i])]]

LastNamed(seq) == [n \in Names(seq) |-> seq[Max({i \in DOMAIN seq : seq[i].name = n})]]

\* What build makes: the layers are those of the contexts and files it lists,
\* and a context whose content is in the config has it in its layer too.
WellBuilt(m) ==
    /\ WellFormed(m.config) /\ IsSeq(m.layers)
    /\ \A i \in DOMAIN m.layers :
          /\ m.layers[i].media = "context" => m.layers[i].title \in Names(m.config.contexts)
          /\ m.layers[i].media = "file" => m.layers[i].title \in Names(m.config.adds)
    /\ \A n \in Names(m.config.contexts) :
          LET text == LastNamed(m.config.contexts)[n].content
          IN  text # "" => Titled(m.layers, "context", n) = <<text>>

-----------------------------------------------------------------------------
(* Overrides and the view that is deployed.                                   *)

\* Keyed, the last writer wins.
LastValue(seq) == [k \in Keys(seq) |-> seq[Max({i \in DOMAIN seq : seq[i].key = k})].value]

\* Mutant: the operator's variables come first.
WithExtraEnvsFirst(agent, envs) == [agent EXCEPT !.envs = envs \o @]

\* Declared variables that are overridden are dropped.
WithExtraEnvs(agent, envs) ==
    [agent EXCEPT !.envs = Subsequence(@, {i \in DOMAIN @ : @[i].key \notin Keys(envs)}) \o envs]

\* The first entry of a key takes the value; keys nobody declared are appended.
WithConfig(agent, values) ==
    LET configs  == agent.configs
        first(i) == \A j \in 1..(i - 1) : configs[j].key # configs[i].key
        new      == SetToSeq(DOMAIN values \ Keys(configs))
    IN  [agent EXCEPT !.configs =
            [i \in DOMAIN configs |-> IF configs[i].key \in DOMAIN values /\ first(i)
                                      THEN [configs[i] EXCEPT !.value = values[configs[i].key]] ELSE configs[i]]
            \o [i \in DOMAIN new |-> [key |-> new[i], value |-> values[new[i]], required |-> FALSE]]]

\* The last entry of a required key has a value.
RequiredConfigsProvided(configs) ==
    \A i \in DOMAIN configs : configs[i].required => LastValue(configs)[configs[i].key] # Nil

\* Entries without a value are skipped.
configsFromSpec(configs) == LastValue(Subsequence(configs, {i \in DOMAIN configs : configs[i].value # Nil}))
=============================================================================
