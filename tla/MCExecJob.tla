------------------------------ MODULE MCExecJob ------------------------------
(* Small instances of ExecJob for TLC.                                        *)
EXTENDS ExecJob

\* Two keys that become one name ('-' sorts before '_'), and one that ends like
\* a provider's credential.
MCConfigKeys == <<"a-b", "a_b", "x-api-key">>
MCRewritten == [k \in {"a-b", "a_b", "x-api-key"} |-> IF k = "x-api-key" THEN <<"X", "_API_KEY">> ELSE <<"A_B", "">>]

Configs == {<<>>, [k \in {"a-b"} |-> "c1"], [k \in {"a-b", "a_b", "x-api-key"} |-> IF k = "a-b" THEN "c1" ELSE "c2"]}

UserEnvs ==
    {<<>>,
     <<Var(<<"RUNTIME_", "A_B", "">>, "u1"), Var(<<"", "PATH", "">>, "u1")>>,
     <<Var(<<"", "FOO", "">>, "u1"), Var(NoName, "u1"), Var(<<"", "FOO", "">>, "u2")>>,
     <<Var(<<"", "P", "_API_KEY">>, "u1"), Var(<<"RUNTIME_", "X", "_API_KEY">>, "u1"),
       Var(<<"", "OTTERSD_URL", "">>, "u1")>>}

Providers == {[p |-> "", k |-> "k", b |-> ""], [p |-> "P", k |-> "k", b |-> ""], [p |-> "P", k |-> "k", b |-> "b"]}

Mounts == {<<{}, {}>>, <<{}, {Bind("h1", "/data", FALSE)}>>, <<{Bind("h2", "/data", TRUE)}, {Bind("h1", "/data", FALSE)}>>}

Runtime(pr, c, e, m, r) ==
    [provider |-> pr.p, key |-> pr.k, base |-> pr.b, configs |-> c, envs |-> e, mounts |-> m,
     runtime |-> r, tools |-> {[name |-> "bin", ref |-> "img"]}, exec |-> ""]

AllDescriptors ==
    {[rt |-> Runtime(pr, c, e, m[1], r), fallback |-> m[2], daemonURL |-> u, agentToken |-> t] :
        pr \in Providers, c \in Configs, e \in UserEnvs, m \in Mounts, r \in {"", "img"},
        u \in {"", "unix", "host.docker.internal", "tcp"}, t \in {"", "tok"}}
=============================================================================
