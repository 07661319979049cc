----------------------------- MODULE MCImageFlow -----------------------------
(* Small instances of ImageFlow for TLC.                                      *)
EXTENDS ImageFlow

CONSTANTS b1, b2, c1, c2, l1, d1

From(host, n, t) == [op |-> "FROM", ref |-> Ref(host, n, t)]
Name(n) == [op |-> "NAME", name |-> n]
EnvVar(k, v) == [op |-> "ENV", key |-> k, value |-> v]
Config(k, v, r) == [op |-> "CONFIG", key |-> k, value |-> v, required |-> r]
Context(n, file, heredoc) == [op |-> "CONTEXT", name |-> n, file |-> file, heredoc |-> heredoc]
Add(src, base, name) == [op |-> "ADD", src |-> src, base |-> base, name |-> name]
Bin(n, image) == [op |-> "BIN", name |-> n, image |-> image]

\* A root with a required CONFIG and an empty file, a child whose directory has
\* files of the same names, a grandchild that sets RUNTIME, a child that keeps
\* its parent's name, one too deep, a small root, and two files that are refused.
AllSources ==
    [base |-> [insts |-> <<From("", "scratch", ""), [op |-> "RUNTIME", image |-> "rt1"], Name("base"),
                           Config("k", "v1", FALSE), Config("r", Nil, TRUE), EnvVar("A", "1"), EnvVar("B", "1"),
                           Context("SOUL", "soul.md", ""), Add("docs/empty", "empty", Nil), Add("notes", "notes", "data"), Bin("tool", "multi"),
                           [op |-> "CAPABILITY", names |-> <<"c1", "", "c1">>],
                           [op |-> "LABEL", key |-> "l", value |-> "1"]>>,
               dir |-> [f \in {"soul.md", "docs/empty", "notes"} |-> IF f = "docs/empty" THEN "" ELSE "base " \o f]],
     mid  |-> [insts |-> <<From("hub", "base", ""), Name("mid"), Config("k", "v2", FALSE), EnvVar("B", "2"),
                           [op |-> "CAPABILITY", names |-> <<"c2", "c1">>], [op |-> "MODEL", model |-> "m1"],
                           [op |-> "LABEL", key |-> "l", value |-> "2"], [op |-> "ARG", key |-> "a", value |-> "1"],
                           [op |-> "ARG", key |-> "b", value |-> Nil]>>,
               dir |-> [f \in {"soul.md", "docs/empty", "notes"} |-> "mid " \o f]],
     leaf |-> [insts |-> <<From("hub", "mid", "latest"), [op |-> "RUNTIME", image |-> "rt2"], Name("leaf"),
                           Config("k", "v3", FALSE), EnvVar("A", "3"), Context("SOUL", "", "leaf soul"),
                           Bin("other", "foreign"), [op |-> "EXEC", args |-> <<"run">>]>>,
               dir |-> [f \in {"docs/empty"} |-> "leaf empty"]],
     self |-> [insts |-> <<From("hub", "base", "latest"), Context("SOUL", "missing.md", "")>>,
               dir |-> [f \in {"docs/empty"} |-> "self empty"]],
     same |-> [insts |-> <<From("hub", "base", "latest"), EnvVar("A", "4")>>, dir |-> [f \in {"soul.md", "docs/empty"} |-> "same " \o f]],
     deep |-> [insts |-> <<From("hub", "leaf", "")>>, dir |-> <<>>],
     tiny |-> [insts |-> <<From("", "scratch", ""), Name("base"), Add("notes", "notes", Nil)>>, dir |-> [f \in {"notes"} |-> "tiny notes"]],
     bad  |-> [insts |-> <<From("", "scratch", ""), Name("mid"), Context("AGENT", "", "text")>>, dir |-> <<>>],
     twice |-> [insts |-> <<From("", "scratch", ""), Name("mid"), From("hub", "base", "")>>, dir |-> <<>>]]

\* The artifacts of earlier builds.
Built(s, parents) ==
    LET agent  == mergeChain(<<parse(AllSources[s].insts)[1]>> \o [i \in DOMAIN parents |-> LoadHydrated(parents[i])])
        layers == BuildLayers(agent, s, AllSources[s].dir)
    IN  Manifest(agent, [i \in DOMAIN layers |-> layers[i][1]])

Base == Built("base", <<>>)
Mid == Built("mid", <<Base>>)
MCEarlier ==
    [base |-> Base, mid |-> Mid, same |-> Built("same", <<Base>>), leaf |-> Built("leaf", <<Mid, Base>>)]

\* Nothing; a root; a chain; a root that was overwritten by its own child.
Hub(n) == Ref("hub", n, "latest")
AllHubs == {<<>>, Hub("base") :> "base", (Hub("base") :> "base") @@ (Hub("mid") :> "mid") @@ (Hub("leaf") :> "leaf"), Hub("base") :> "same"}
TwoImages == (Ref("", "base", "latest") :> "base") @@ (Ref("", "mid", "latest") :> "mid")
TwoAliases == {Ref("", "base", "v1"), Ref("", "mid", "latest")}

\* With and without the required value; an ENV that is declared and one that is not.
AllDeploys ==
    {[values |-> <<>>, envs |-> <<>>],
     [values |-> ("r" :> "o1") @@ ("k" :> "o2") @@ ("new" :> "o3"),
      envs |-> <<[key |-> "B", value |-> "o4"], [key |-> "C", value |-> "o5"]>>]}

Plain(platform, tar) ==
    [index |-> <<>>, name |-> "tool", path |-> "tool",
     layers |-> << [tar |-> tar, title |-> "tool",
                    files |-> IF tar THEN << [base |-> "tool", regular |-> FALSE, data |-> [platform |-> "none"]],
                                             [base |-> "tool", regular |-> TRUE, data |-> [platform |-> platform]] >>
                              ELSE <<>>, data |-> [platform |-> platform]] >>]
Index(entries) == [index |-> entries, name |-> "", path |-> "", layers |-> <<>>]
Entry(p, d) == [platform |-> p, digest |-> d]

\* An index whose linux entry is an index itself, and one for linux only.
MCBinBlobs ==
    [d1 |-> Index(<<Entry("", "d4"), Entry("linux", "d2"), Entry("host", "d4")>>),
     d2 |-> Index(<<Entry("host", "d4"), Entry("linux", "d3")>>),
     d3 |-> Plain("linux", TRUE), d4 |-> Plain("host", FALSE),
     d5 |-> Index(<<Entry("linux", "d3")>>)]
MCBinDigest == [multi |-> "d1", foreign |-> "d5"]

Scenario(procs, sources, hub, local) == [procs |-> procs, sources |-> sources, hub |-> hub, local |-> local]

\* Every source against every registry; a build that overwrites an image while
\* it is tagged, removed, pulled, pushed, listed or deployed; two of these calls at
\* once, where one may write what the other reads; two builds of one
\* name; a deployment of each image.
AllScenarios ==
    {Scenario({b1}, DOMAIN AllSources, hub, <<>>) : hub \in AllHubs}
    \cup {Scenario({b1, c1, d1}, {"tiny"}, Hub("mid") :> "mid", TwoImages),
          Scenario({b1, c1, l1}, {"tiny"}, Hub("mid") :> "mid", TwoImages),
          Scenario({c1, c2}, {"tiny"}, Hub("mid") :> "leaf", TwoImages),
          Scenario({b1, b2}, {"tiny", "same"}, Hub("base") :> "base", <<>>),
          Scenario({d1}, {"base"}, <<>>, Ref("", "leaf", "latest") :> "leaf")}
=============================================================================
