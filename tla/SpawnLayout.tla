----------------------------- MODULE SpawnLayout -----------------------------
(* What a runtime process, an agent container and a job container are given:  *)
(* the locked-down environment (executor/env.go, system/process.go) and the   *)
(* mounts (docker/container.go, docker/exec_async.go). Pure operators.        *)
(*                                                                            *)
(* The name of a variable is a triple <<prefix, stem, suffix>>, so that the   *)
(* RUNTIME_ prefix of a CONFIG export and the suffixes of provider            *)
(* credentials are visible; a value below the agent's root is the root.       *)
EXTENDS Subsequences, FiniteSetsExt

CONSTANTS
    ConfigKeys,  \* CONFIG keys in byte order: the order of sort.Strings
    Rewritten    \* key -> <<stem, suffix>>: upper case, other characters to _

ASSUME LayoutAssumption == ConfigKeys \in Seq(DOMAIN Rewritten)

Var(name, val) == [name |-> name, val |-> val]
Locked(key, val) == Var(<<"", key, "">>, val)
NoName == <<"", "", "">>

reservedRuntimeEnvKeys ==
    {"PATH", "HOME", "XDG_CONFIG_HOME", "XDG_CACHE_HOME", "XDG_DATA_HOME", "TMPDIR", "LANG",
     "OTTERS_AGENT_ROOT", "OTTERSD_URL", "OTTERS_AGENT_TOKEN"}

isReservedEnvKey(name) ==
    \/ name[1] = "" /\ name[3] = "" /\ name[2] \in reservedRuntimeEnvKeys
    \/ name[3] \in {"_API_KEY", "_API_BASE"}

\* The callback pair is both or neither.
BuildLockedEnv(root, binDirs, daemonURL, agentToken) ==
    <<Locked("PATH", binDirs), Locked("HOME", root), Locked("XDG_CONFIG_HOME", root),
      Locked("XDG_CACHE_HOME", root), Locked("XDG_DATA_HOME", root), Locked("TMPDIR", root),
      Locked("LANG", "C.UTF-8"), Locked("OTTERS_AGENT_ROOT", root)>>
    \o IF daemonURL = "" \/ agentToken = "" THEN <<>>
       ELSE <<Locked("OTTERSD_URL", daemonURL), Locked("OTTERS_AGENT_TOKEN", agentToken)>>

Credential(provider, suffix, val) ==
    IF provider = "" \/ val = "" THEN <<>> ELSE <<Var(<<"", provider, suffix>>, val)>>

Credentials(rt) == Credential(rt.provider, "_API_KEY", rt.key) \o Credential(rt.provider, "_API_BASE", rt.base)

configKeyToEnv(k) == <<"RUNTIME_", Rewritten[k][1], Rewritten[k][2]>>

\* The exports of the CONFIG entries, in the order of their keys.
AppendConfigEnv(env, configs) ==
    LET given == {i \in DOMAIN ConfigKeys : ConfigKeys[i] \in DOMAIN configs /\ ConfigKeys[i] # ""}
        keys  == Subsequence(ConfigKeys, given)
    IN  env \o [i \in DOMAIN keys |-> Var(configKeyToEnv(keys[i]), configs[keys[i]])]

\* Mutant: the safety net is missing.
AppendUserEnvUnfiltered(env, userEnvs) == env \o userEnvs

\* Entries without a key are dropped, reserved ones are skipped.
AppendUserEnv(env, userEnvs) ==
    env \o Subsequence(userEnvs, {i \in DOMAIN userEnvs :
                            userEnvs[i].name # NoName /\ ~isReservedEnvKey(userEnvs[i].name)})

\* Last write wins, in os/exec and in the daemon.
Effective(env) ==
    [n \in {env[i].name : i \in DOMAIN env} |->
        env[Max({i \in DOMAIN env : env[i].name = n})].val]

buildCmdEnv(rt, rootDir, daemonURL, agentToken) ==
    AppendUserEnv(
        AppendConfigEnv(BuildLockedEnv(rootDir, "usr/bin", daemonURL, agentToken) \o Credentials(rt),
                        rt.configs), rt.envs)

-----------------------------------------------------------------------------
(* The container of an agent.                                                 *)

Bind(source, target, ro) == [type |-> "bind", source |-> source, target |-> target, ro |-> ro]
Image(ref, target) == [type |-> "image", source |-> ref, target |-> target, ro |-> TRUE]

\* A daemon URL is "", a unix:// one, one through host.docker.internal or another.
daemonAccess(daemonURL) ==
    CASE daemonURL = "unix" -> [url |-> "unix:///run/ottersd.sock",
                                mounts |-> {Bind("daemon socket", "/run/ottersd.sock", FALSE)}, hosts |-> {}]
      [] daemonURL = "host.docker.internal" ->
                               [url |-> daemonURL, mounts |-> {}, hosts |-> {"host.docker.internal:host-gateway"}]
      [] OTHER -> [url |-> daemonURL, mounts |-> {}, hosts |-> {}]

\* Configuration and context are read-only, so is the directory of BIN links.
agentFHSMounts ==
    {Bind(d, d, TRUE) : d \in {"/etc/context", "/etc/data", "/etc/Agentfile", "/etc/agent.yaml", "/opt/bins"}}
    \cup {Bind(d, d, FALSE) : d \in {"/home", "/tmp", "/var/lib", "/workspace"}}

\* Each BIN image below /opt/bin-images, under its name.
toolRefs(rt) == {Image(t.ref, t.name) : t \in rt.tools}

\* The descriptor's mounts, or else the provider's.
effectiveMounts(fallback, mounts) == IF mounts = {} THEN fallback ELSE mounts

buildEnv(rt, daemonURL, agentToken) ==
    AppendUserEnv(
        AppendConfigEnv(BuildLockedEnv("/", "/opt/bins", daemonAccess(daemonURL).url, agentToken) \o Credentials(rt),
                        rt.configs), rt.envs)

\* Daemon access is wired only with the full pair.
buildHostConfig(rt, fallback, daemonURL, agentToken) ==
    LET access == IF daemonURL = "" \/ agentToken = "" THEN daemonAccess("") ELSE daemonAccess(daemonURL)
    IN  [mounts |-> agentFHSMounts \cup {Image(rt.runtime, "/opt/runtime")} \cup toolRefs(rt)
                    \cup effectiveMounts(fallback, rt.mounts) \cup access.mounts,
         hosts  |-> access.hosts]

\* The argument vector: the EXEC verb, then flags that are always present.
buildConfig(rt, fallback, daemonURL, agentToken) ==
    [cmd |-> IF rt.exec = "" THEN "serve" ELSE rt.exec,
     env |-> buildEnv(rt, daemonURL, agentToken),
     host |-> buildHostConfig(rt, fallback, daemonURL, agentToken)]

-----------------------------------------------------------------------------
(* The container of a job, assembled separately in exec_async.go.             *)

\* Mutant: provider-level mounts are forgotten.
buildExecContainerNoFallback(rt, fallback, bin, daemonURL, agentToken) ==
    [cmd |-> bin,
     env |-> buildEnv(rt, daemonURL, agentToken),
     host |-> buildHostConfig(rt, {}, daemonURL, agentToken)]

\* An unknown runtime image is not mounted.
buildExecContainer(rt, fallback, bin, daemonURL, agentToken) ==
    LET access == daemonAccess(daemonURL)
        locked == BuildLockedEnv("/", "/opt/bins", access.url, agentToken)
        image  == IF rt.runtime = "" THEN {} ELSE {Image(rt.runtime, "/opt/runtime")}
        user   == IF rt.mounts # {} THEN rt.mounts ELSE fallback
        both   == daemonURL # "" /\ agentToken # ""
    IN  [cmd  |-> bin,
         env  |-> AppendUserEnv(AppendConfigEnv(locked \o Credentials(rt), rt.configs), rt.envs),
         host |-> [mounts |-> agentFHSMounts \cup image \cup toolRefs(rt) \cup user
                              \cup (IF both THEN access.mounts ELSE {}),
                   hosts  |-> IF both THEN access.hosts ELSE {}]]
=============================================================================
