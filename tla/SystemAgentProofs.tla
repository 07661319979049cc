------------------------- MODULE SystemAgentProofs -------------------------
(* The safety properties of SystemAgent, for any number of concurrent calls   *)
(* and of runs.                                                               *)
EXTENDS SystemAgent, TLAPS

\* The run that holds the handshake is the newest one; the goroutine inside Run
\* owns it, alone, until endRun; a process lives only under its owner's serve.
RunInv ==
    /\ cur = 0 \/ cur = nruns
    /\ cur \notin ranClosed
    /\ \A r \in ranClosed : r # 0 /\ r <= nruns
    /\ \A c \in Runners : pc[c] \in RunPC => run[c] = cur /\ cur # 0
    /\ \A c, d \in Runners : pc[c] \in RunPC /\ pc[d] \in RunPC => c = d
    /\ \A c \in Runners :
         pc[c] \in {"settle", "closeRan"} => run[c] # cur /\ run[c] # 0 /\ run[c] <= nruns
    /\ \A r \in live : r = cur /\ \E c \in Runners : pc[c] \in ServePC

\* A Stop that waits, waits for the newest run of its snapshot; once it has
\* returned nil, only a newer run can hold the handshake.
StopInv ==
    \A c \in Stoppers \cup Removers :
        /\ since[c] <= nruns
        /\ pc[c] \in {"cancel", "wait"} => target[c] = since[c]
        /\ ret[c] = "nil" /\ cur # 0 => cur > since[c]

\* The inductive invariant.
IInv == TypeOK /\ RunInv /\ StopInv

\* The initial states satisfy the invariant: NewAgent has no run and no call.
LEMMA InitIInv == Init => IInv
<1> SUFFICES ASSUME Init PROVE IInv
  OBVIOUS
<1>1. StatusTypeOK
  BY DEF Init, NewStatusTracker, StatusTypeOK, Status, FailureReason
<1>2. NoMat \in [id : Nat, cred : Nat] /\ NoEnv \in [cred : Nat, token : Nat]
  BY DEF NoMat, NoEnv
<1>3. "idle" \in PC
  BY DEF PC
<1>4. TypeOK
  BY <1>1, <1>2, <1>3 DEF Init, TypeOK
<1>5. \A c \in Runners : pc[c] = "idle"
  BY DEF Init, Clients
<1>6. "idle" \notin RunPC \cup {"settle", "closeRan"}
  BY DEF RunPC
<1>7. RunInv
  BY <1>5, <1>6 DEF Init, RunInv
<1>8. \A c \in Stoppers \cup Removers : pc[c] = "idle" /\ since[c] = 0 /\ ret[c] = "none"
  BY DEF Init, Clients
<1>9. StopInv
  BY <1>8 DEF Init, StopInv
<1> QED
  BY <1>4, <1>7, <1>9 DEF IInv

-----------------------------------------------------------------------------
(* Types.                                                                     *)

\* A status write keeps the type of the tracker's cell.
LEMMA CellType ==
    ASSUME StatusTypeOK, NEW s \in Status, NEW r \in FailureReason,
           setLocked(s, r) \/ UNCHANGED statusVars
    PROVE  StatusTypeOK'
BY DEF StatusTypeOK, setLocked, statusVars, FailureReason

\* Writing one client's entry keeps the type of pc, of the calls' variables.
LEMMA GotoType ==
    ASSUME TypeOK, NEW c \in Clients, NEW l \in PC, Goto(c, l)
    PROVE  pc' \in [Clients -> PC]
BY DEF TypeOK, Goto

\* A status write with one of the constants the code passes.
LEMMA SetType ==
    ASSUME StatusTypeOK, NEW s \in Status, Set(s) PROVE StatusTypeOK'
<1>1. "none" \in FailureReason
  BY DEF FailureReason
<1> QED
  BY <1>1, CellType DEF Set

\* The same for a recorded failure.
LEMMA SetFailureType ==
    ASSUME StatusTypeOK, NEW r \in FailureReason, SetFailure(r) PROVE StatusTypeOK'
<1>1. "failed" \in Status
  BY DEF Status
<1> QED
  BY <1>1, CellType DEF SetFailure

\* Every materialise error has a failure reason.
LEMMA ReasonType == \A e : failureReasonFor(e) \in FailureReason
BY DEF failureReasonFor, FailureReason

\* The return of Prepare keeps the types of what it writes.
LEMMA PrepareReturnsType ==
    ASSUME TypeOK, NEW c \in Clients, NEW e \in Errors \cup {"none", "nil"},
           PrepareReturns(c, e)
    PROVE  /\ pc' \in [Clients -> PC]
           /\ mat' \in [Clients -> [id : Nat, cred : Nat]]
           /\ err' \in [Clients -> Errors \cup {"none"}]
           /\ ret' \in [Clients -> Errors \cup {"none", "nil", "ctx.Err"}]
<1>1. NoMat \in [id : Nat, cred : Nat]
  BY DEF NoMat
<1>2. /\ mat' \in [Clients -> [id : Nat, cred : Nat]]
      /\ err' \in [Clients -> Errors \cup {"none"}]
  BY <1>1 DEF PrepareReturns, TypeOK
<1>3. pc' \in [Clients -> PC]
  BY DEF PrepareReturns, Goto, TypeOK, PC, RunPC
<1>4. ret' \in [Clients -> Errors \cup {"none", "nil", "ctx.Err"}]
  BY DEF PrepareReturns, TypeOK
<1> QED
  BY <1>2, <1>3, <1>4

\* The return of Run or Start keeps the types of what it writes.
LEMMA RunReturnsType ==
    ASSUME TypeOK, NEW c \in Clients, RunReturns(c)
    PROVE  /\ pc' \in [Clients -> PC]
           /\ run' \in [Clients -> Nat]
           /\ mat' \in [Clients -> [id : Nat, cred : Nat]]
           /\ env' \in [Clients -> [cred : Nat, token : Nat]]
           /\ want' \in [Clients -> [cred : Nat, token : Nat]]
           /\ target' = target /\ err' = err /\ since' = since /\ ret' = ret
<1>1. NoMat \in [id : Nat, cred : Nat] /\ NoEnv \in [cred : Nat, token : Nat]
  BY DEF NoMat, NoEnv
<1>2. /\ pc' = [pc EXCEPT ![c] = "idle"]
      /\ run' = [run EXCEPT ![c] = 0]
      /\ mat' = [mat EXCEPT ![c] = NoMat]
      /\ env' = [env EXCEPT ![c] = NoEnv]
      /\ want' = [want EXCEPT ![c] = NoEnv]
      /\ target' = target /\ err' = err /\ since' = since /\ ret' = ret
  BY DEF RunReturns, Goto
<1>3. "idle" \in PC
  BY DEF PC
<1> QED
  BY <1>1, <1>2, <1>3 DEF TypeOK

\* The steps Run and Prepare share keep the types.
LEMMA PrepareStepType ==
    ASSUME TypeOK, NEW c \in Clients, PrepareStep(c)
    PROVE  TypeOK'
<1> USE ClientsAssumption
<1>1. CASE initialize(c)
  <2>1. CASE rt # 0 /\ PrepareReturns(c, "nil")
    BY <1>1, <2>1, PrepareReturnsType
       DEF initialize, TypeOK, StatusTypeOK, statusVars, runVars, cfgVars
  <2>2. CASE Goto(c, "materialize") /\ UNCHANGED <<mat, err, ret>>
    BY <1>1, <2>2
       DEF initialize, TypeOK, StatusTypeOK, statusVars, runVars, cfgVars, Goto, PC, RunPC
  <2> QED
    BY <1>1, <2>1, <2>2 DEF initialize
<1>2. CASE Materialize(c)
  BY <1>2 DEF Materialize, TypeOK, StatusTypeOK, statusVars, runVars, Goto, PC, RunPC
<1>3. CASE MaterializeFails(c)
  BY <1>3 DEF MaterializeFails, TypeOK, StatusTypeOK, statusVars, runVars, Goto, PC, RunPC
<1>4. CASE Publish(c)
  <2>1. rt' \in Nat /\ cred' \in Nat
    BY <1>4 DEF Publish, TypeOK
  <2>2. PrepareReturns(c, "nil")
    BY <1>4 DEF Publish
  <2> QED
    BY <1>4, <2>1, <2>2, PrepareReturnsType DEF Publish, TypeOK, StatusTypeOK, statusVars, runVars
<1>5. CASE PrepareFailed(c)
  <2>1. CASE Goto(c, "setFailure") /\ UNCHANGED <<mat, err, ret>>
    BY <1>5, <2>1
       DEF PrepareFailed, TypeOK, StatusTypeOK, statusVars, runVars, cfgVars, Goto, PC, RunPC
  <2>2. CASE PrepareReturns(c, err[c])
    <3>1. PICK e \in Errors \cup {"none", "nil"} : e = err[c]
      BY DEF TypeOK
    <3>2. PrepareReturns(c, e)
      BY <2>2, <3>1
    <3> QED
      BY <1>5, <3>1, <3>2, PrepareReturnsType
         DEF PrepareFailed, TypeOK, StatusTypeOK, statusVars, runVars, cfgVars
  <2> QED
    BY <1>5, <2>1, <2>2 DEF PrepareFailed
<1>6. CASE PrepareSetFailure(c)
  <2>1. PICK e \in Errors \cup {"none", "nil"} : e = err[c]
    BY DEF TypeOK
  <2>2. PrepareReturns(c, e) /\ SetFailure(failureReasonFor(e))
    BY <1>6, <2>1 DEF PrepareSetFailure
  <2>3. StatusTypeOK'
    BY <2>2, ReasonType, SetFailureType DEF TypeOK
  <2> QED
    BY <1>6, <2>1, <2>2, <2>3, PrepareReturnsType DEF PrepareSetFailure, TypeOK, runVars, cfgVars
<1> QED
  BY <1>1, <1>2, <1>3, <1>4, <1>5, <1>6 DEF PrepareStep

\* The calls of Run and Start and the steps that follow them keep the types.
LEMMA RunStepType ==
    ASSUME TypeOK, NEW c \in Clients,
           Run(c) \/ Start(c) \/ RunStep(c) \/ ProcessExit(c) \/ CallerCancels(c)
    PROVE  TypeOK'
<1> USE DEF TypeOK, statusVars, runVars, cfgVars, callVars
<1>1. CASE Run(c)
  BY <1>1 DEF Run, StatusTypeOK, Goto, PC
<1>2. CASE Start(c)
  BY <1>2 DEF Start, StatusTypeOK, Goto, PC
<1>3. CASE reresolveCredentials(c)
  <2>1. mat' \in [Clients -> [id : Nat, cred : Nat]]
    <3>1. [id |-> 0, cred |-> provVer] \in [id : Nat, cred : Nat]
      OBVIOUS
    <3> QED
      BY <1>3, <3>1 DEF reresolveCredentials
  <2>2. pc' \in [Clients -> PC]
    BY <1>3 DEF reresolveCredentials, Goto, PC
  <2> QED
    BY <1>3, <2>1, <2>2 DEF reresolveCredentials, StatusTypeOK
<1>4. CASE WriteCreds(c)
  BY <1>4 DEF WriteCreds, StatusTypeOK, Goto, PC
<1>5. CASE ModelFailed(c)
  <2>1. StatusTypeOK'
    <3>1. "model" \in FailureReason
      BY DEF FailureReason
    <3> QED
      BY <1>5, <3>1, SetFailureType DEF ModelFailed
  <2> QED
    BY <1>5, <2>1, RunReturnsType DEF ModelFailed
<1>6. CASE beginRun(c)
  BY <1>6 DEF beginRun, TakeSlot, StatusTypeOK, Goto, PC, RunPC
<1>7. CASE BeginRefused(c)
  BY <1>7, RunReturnsType DEF BeginRefused, StatusTypeOK
<1>8. CASE SetPulling(c)
  <2>1. StatusTypeOK'
    BY <1>8, SetType DEF SetPulling, Status
  <2> QED
    BY <1>8, <2>1 DEF SetPulling, Goto, PC, RunPC
<1>9. CASE PrepareStep(c)
  BY <1>9, PrepareStepType
<1>10. CASE SetStarting(c)
  <2>1. StatusTypeOK'
    BY <1>10, SetType DEF SetStarting, Status
  <2> QED
    BY <1>10, <2>1 DEF SetStarting, Goto, PC, RunPC
<1>11. CASE command(c)
  BY <1>11 DEF command, StatusTypeOK, Goto, PC, RunPC
<1>12. CASE Spawn(c)
  <2>1. live' \subseteq Nat
    <3>1. run[c] \in Nat
      OBVIOUS
    <3> QED
      BY <1>12, <3>1 DEF Spawn
  <2>2. pc' \in [Clients -> PC]
    BY <1>12 DEF Spawn, Goto, PC, RunPC
  <2> QED
    BY <1>12, <2>1, <2>2 DEF Spawn, StatusTypeOK
<1>13. CASE Interrupt(c)
  BY <1>13 DEF Interrupt, StatusTypeOK, Goto, PC, RunPC
<1>14. CASE ForceKill(c)
  BY <1>14 DEF ForceKill, StatusTypeOK, Goto, PC, RunPC
<1>15. CASE AwaitExit(c)
  BY <1>15 DEF AwaitExit, StatusTypeOK, Goto, PC, RunPC
<1>16. CASE endRun(c)
  BY <1>16 DEF endRun, StatusTypeOK, Goto, PC
<1>17. CASE Settle(c)
  <2>1. StatusTypeOK'
    <3>1. "stopped" \in Status /\ "none" \in FailureReason
      BY DEF Status, FailureReason
    <3>2. setLocked("stopped", "none") \/ UNCHANGED statusVars
      BY <1>17 DEF Settle, SetUnless
    <3> QED
      BY <3>1, <3>2, CellType
  <2> QED
    BY <1>17, <2>1 DEF Settle, Goto, PC
<1>18. CASE CloseRan(c)
  <2>1. ranClosed' \subseteq Nat
    <3>1. run[c] \in Nat
      OBVIOUS
    <3> QED
      BY <1>18, <3>1 DEF CloseRan
  <2> QED
    BY <1>18, <2>1, RunReturnsType DEF CloseRan, StatusTypeOK
<1>19. CASE ProcessExit(c)
  BY <1>19 DEF ProcessExit, StatusTypeOK
<1>20. CASE CallerCancels(c)
  BY <1>20 DEF CallerCancels, StatusTypeOK
<1> QED
  BY <1>1, <1>2, <1>3, <1>4, <1>5, <1>6, <1>7, <1>8, <1>9, <1>10, <1>11, <1>12,
     <1>13, <1>14, <1>15, <1>16, <1>17, <1>18, <1>19, <1>20 DEF RunStep

\* Stop, Remove and the environment keep the types.
LEMMA OtherStepType ==
    ASSUME TypeOK,
           \/ \E c \in Clients : Prepare(c) \/ Stop(c) \/ StopStep(c) \/ StopCtx(c) \/ RemoveStep(c)
           \/ SetAgentToken \/ EditProviders \/ Supervisor
    PROVE  TypeOK'
<1> USE DEF TypeOK, statusVars, runVars, cfgVars, callVars
<1>1. ASSUME NEW c \in Clients, NEW e \in {"nil", "ctx.Err"}, StopReturns(c, e)
      PROVE  /\ pc' \in [Clients -> PC] /\ target' \in [Clients -> Nat]
             /\ ret' \in [Clients -> Errors \cup {"none", "nil", "ctx.Err"}]
  BY <1>1 DEF StopReturns, Goto, PC
<1>2. ASSUME NEW c \in Clients, Prepare(c) PROVE TypeOK'
  BY <1>2 DEF Prepare, StatusTypeOK, Goto, PC, RunPC
<1>3. ASSUME NEW c \in Clients, Stop(c) PROVE TypeOK'
  <2>1. /\ pc' \in [Clients -> PC] /\ target' \in [Clients -> Nat]
        /\ ret' \in [Clients -> Errors \cup {"none", "nil", "ctx.Err"}]
    <3>1. CASE cur = 0
      BY <1>1, <1>3, <3>1 DEF Stop
    <3>2. CASE cur # 0
      <4>1. /\ pc' = [pc EXCEPT ![c] = "cancel"]
            /\ target' = [target EXCEPT ![c] = cur]
            /\ ret' = [ret EXCEPT ![c] = "none"]
        BY <1>3, <3>2 DEF Stop, Goto
      <4>2. "cancel" \in PC
        BY DEF PC
      <4> QED
        BY <4>1, <4>2
    <3> QED
      BY <3>1, <3>2
  <2> QED
    BY <1>3, <2>1 DEF Stop, StatusTypeOK
<1>4. ASSUME NEW c \in Clients, StopStep(c) PROVE TypeOK'
  <2>1. CASE StopCancel(c)
    <3>1. target[c] \in Nat /\ "wait" \in PC
      BY DEF PC
    <3>2. ctxDone' \subseteq Nat
      BY <2>1, <3>1 DEF StopCancel
    <3>3. pc' \in [Clients -> PC]
      BY <2>1, <3>1 DEF StopCancel, Goto
    <3> QED
      BY <2>1, <3>2, <3>3 DEF StopCancel, StatusTypeOK
  <2>2. CASE StopRan(c)
    BY <1>1, <2>2 DEF StopRan, StatusTypeOK
  <2> QED
    BY <1>4, <2>1, <2>2 DEF StopStep
<1>5. ASSUME NEW c \in Clients, StopCtx(c) PROVE TypeOK'
  BY <1>1, <1>5 DEF StopCtx, StatusTypeOK
<1>6. ASSUME NEW c \in Clients, RemoveStep(c) PROVE TypeOK'
  <2>1. CASE SetRemoving(c)
    <3>1. StatusTypeOK'
      <4>1. "removing" \in Status
        BY DEF Status
      <4> QED
        BY <2>1, <4>1, SetType DEF SetRemoving
    <3> QED
      BY <2>1, <3>1 DEF SetRemoving, Goto, PC
  <2>2. CASE RemoveAll(c)
    <3>1. tree' \in BOOLEAN
      BY <2>2 DEF RemoveAll
    <3> QED
      BY <2>2, <3>1 DEF RemoveAll, StatusTypeOK, Goto, PC
  <2>3. CASE SetRemoved(c)
    <3>1. StatusTypeOK'
      <4>1. "removed" \in Status
        BY DEF Status
      <4> QED
        BY <2>3, <4>1, SetType DEF SetRemoved
    <3> QED
      BY <2>3, <3>1 DEF SetRemoved, Goto, PC
  <2> QED
    BY <1>6, <2>1, <2>2, <2>3 DEF RemoveStep
<1>7. CASE SetAgentToken
  BY <1>7 DEF SetAgentToken, StatusTypeOK
<1>8. CASE EditProviders
  BY <1>8 DEF EditProviders, StatusTypeOK
<1>9. CASE Supervisor
  <2>1. StatusTypeOK'
    <3>1. {"ready", "working"} \subseteq Status /\ {"readiness_timeout", "crashed"} \subseteq FailureReason
      BY DEF Status, FailureReason
    <3> QED
      BY <1>9, <3>1, SetType, SetFailureType DEF Supervisor
  <2> QED
    BY <1>9, <2>1 DEF Supervisor
<1> QED
  BY <1>2, <1>3, <1>4, <1>5, <1>6, <1>7, <1>8, <1>9

\* Every step keeps the types.
LEMMA NextType == TypeOK /\ [Next]_vars => TypeOK'
<1> SUFFICES ASSUME TypeOK, [Next]_vars PROVE TypeOK'
  OBVIOUS
<1>1. ASSUME NEW c \in Runners,
             Run(c) \/ Start(c) \/ RunStep(c) \/ ProcessExit(c) \/ CallerCancels(c)
      PROVE  TypeOK'
  BY <1>1, RunStepType DEF Clients
<1>2. ASSUME NEW c \in Preparers, PrepareStep(c) PROVE TypeOK'
  BY <1>2, PrepareStepType DEF Clients
<1>3. CASE \/ \E c \in Preparers : Prepare(c)
           \/ \E c \in Stoppers \cup Removers : Stop(c) \/ StopStep(c) \/ StopCtx(c)
           \/ \E c \in Removers : RemoveStep(c)
           \/ SetAgentToken \/ EditProviders \/ Supervisor
  BY <1>3, OtherStepType DEF Clients
<1>4. CASE UNCHANGED vars
  BY <1>4 DEF vars, statusVars, runVars, cfgVars, callVars, TypeOK, StatusTypeOK
<1> QED
  BY <1>1, <1>2, <1>3, <1>4 DEF Next

-----------------------------------------------------------------------------
(* The run that holds the handshake.                                          *)

\* The client at c moves from one place to another without entering or leaving
\* Run's body, endRun's tail or, with a live process, serve.
Stays(c, l) ==
    /\ l \in RunPC => pc[c] \in RunPC
    /\ l \in {"settle", "closeRan"} => pc[c] \in {"settle", "closeRan"}
    /\ pc[c] \in ServePC /\ run[c] \in live => l \in ServePC

\* A step that only moves one client, and does not enter or leave a section,
\* keeps RunInv.
LEMMA QuietRun ==
    ASSUME TypeOK, RunInv, NEW c \in Clients, NEW l, Goto(c, l),
           c \in Runners => Stays(c, l), UNCHANGED runVars,
           run' = run \/ (run' = [run EXCEPT ![c] = 0] /\ l = "idle")
    PROVE  RunInv'
<1>1. /\ cur' = cur /\ nruns' = nruns /\ ranClosed' = ranClosed /\ live' = live
  BY DEF runVars
<1>2. \A d \in Runners : d \in Clients
  BY DEF Clients
<1>3. /\ pc'[c] = l /\ \A d \in Runners \ {c} : pc'[d] = pc[d] /\ run'[d] = run[d]
      /\ run'[c] = run[c] \/ (run'[c] = 0 /\ l = "idle")
  BY <1>2 DEF Goto, TypeOK
<1>4. "idle" \notin RunPC \cup {"settle", "closeRan"} /\ ServePC \subseteq RunPC
  BY DEF RunPC, ServePC
<1>5. \A d \in Runners : pc'[d] \in RunPC => pc[d] \in RunPC /\ run'[d] = run[d]
  BY <1>3, <1>4 DEF Stays
<1>6. \A d \in Runners : pc'[d] \in {"settle", "closeRan"} =>
         pc[d] \in {"settle", "closeRan"} /\ run'[d] = run[d]
  BY <1>3, <1>4 DEF Stays
<1>7. \A r \in live' : r = cur' /\ \E d \in Runners : pc'[d] \in ServePC
  <2> SUFFICES ASSUME NEW r \in live PROVE r = cur /\ \E d \in Runners : pc'[d] \in ServePC
    BY <1>1
  <2>1. r = cur
    BY DEF RunInv
  <2>2. PICK d \in Runners : pc[d] \in ServePC
    BY DEF RunInv
  <2>3. run[d] = cur
    BY <1>4, <2>2 DEF RunInv
  <2>4. pc'[d] \in ServePC
    BY <1>3, <2>1, <2>2, <2>3 DEF Stays
  <2> QED
    BY <2>1, <2>4
<1> QED
  BY <1>1, <1>5, <1>6, <1>7 DEF RunInv

\* The steps of Prepare, inside Run or not, keep RunInv.
LEMMA PrepareStepRun ==
    ASSUME TypeOK, RunInv, NEW c \in Clients, PrepareStep(c)
    PROVE  RunInv'
<1>1. UNCHANGED runVars /\ run' = run
  BY DEF PrepareStep, initialize, Materialize, MaterializeFails, Publish, PrepareFailed,
         PrepareSetFailure
<1>2. pc[c] \in {"initialize", "materialize", "publish", "failed", "setFailure"}
  BY DEF PrepareStep, initialize, Materialize, MaterializeFails, Publish, PrepareFailed,
         PrepareSetFailure
<1>3. \E l \in {"idle", "starting", "endRun", "materialize", "publish", "failed", "setFailure"} :
         Goto(c, l)
  BY DEF PrepareStep, initialize, Materialize, MaterializeFails, Publish, PrepareFailed,
         PrepareSetFailure, PrepareReturns
<1>4. PICK l \in {"idle", "starting", "endRun", "materialize", "publish", "failed", "setFailure"} :
         Goto(c, l)
  BY <1>3
<1>5. Stays(c, l)
  BY <1>2, <1>4 DEF Stays, RunPC, ServePC
<1> QED
  BY <1>1, <1>4, <1>5, QuietRun

\* The steps of a runner that leave the handshake and the process alone.
LEMMA QuietRunnerStep ==
    ASSUME TypeOK, RunInv, NEW c \in Runners,
           \/ Run(c) \/ Start(c) \/ reresolveCredentials(c) \/ WriteCreds(c)
           \/ ModelFailed(c) \/ BeginRefused(c) \/ SetPulling(c) \/ SetStarting(c)
           \/ command(c) \/ Interrupt(c) \/ ForceKill(c) \/ AwaitExit(c) \/ Settle(c)
    PROVE  RunInv'
<1> c \in Clients
  BY DEF Clients
<1> USE DEF Stays, RunPC, ServePC
<1>1. CASE Run(c)
  BY <1>1, QuietRun DEF Run
<1>2. CASE Start(c)
  BY <1>2, QuietRun DEF Start
<1>3. CASE reresolveCredentials(c)
  BY <1>3, QuietRun DEF reresolveCredentials
<1>4. CASE WriteCreds(c)
  BY <1>4, QuietRun DEF WriteCreds, callVars
<1>5. CASE ModelFailed(c)
  BY <1>5, QuietRun DEF ModelFailed, RunReturns
<1>6. CASE BeginRefused(c)
  BY <1>6, QuietRun DEF BeginRefused, RunReturns
<1>7. CASE SetPulling(c)
  BY <1>7, QuietRun DEF SetPulling, callVars
<1>8. CASE SetStarting(c)
  BY <1>8, QuietRun DEF SetStarting, callVars
<1>9. CASE command(c)
  BY <1>9, QuietRun DEF command
<1>10. CASE Interrupt(c)
  BY <1>10, QuietRun DEF Interrupt, callVars
<1>11. CASE ForceKill(c)
  BY <1>11, QuietRun DEF ForceKill, callVars
<1>12. CASE AwaitExit(c)
  BY <1>12, QuietRun DEF AwaitExit, callVars
<1>13. CASE Settle(c)
  BY <1>13, QuietRun DEF Settle, callVars
<1> QED
  BY <1>1, <1>2, <1>3, <1>4, <1>5, <1>6, <1>7, <1>8, <1>9, <1>10, <1>11, <1>12, <1>13

\* beginRun: the new run is the newest, and nobody else is inside Run.
LEMMA BeginRun ==
    ASSUME TypeOK, RunInv, NEW c \in Runners, beginRun(c) PROVE RunInv'
<1>1. /\ cur = 0 /\ cur' = nruns + 1 /\ nruns' = nruns + 1
      /\ ranClosed' = ranClosed /\ live' = live /\ pc[c] = "begin"
      /\ pc' = [pc EXCEPT ![c] = "pulling"] /\ run' = [run EXCEPT ![c] = nruns + 1]
      /\ nruns \in Nat
  BY DEF beginRun, TakeSlot, Goto, TypeOK
<1>2. /\ pc'[c] = "pulling" /\ run'[c] = nruns + 1
      /\ \A d \in Runners \ {c} : pc'[d] = pc[d] /\ run'[d] = run[d] /\ run[d] \in Nat
      /\ ranClosed \subseteq Nat
  BY <1>1 DEF TypeOK, Clients
<1>3. \A d \in Runners : pc[d] \notin RunPC
  BY <1>1 DEF RunInv
<1>4. live = {}
  BY <1>3 DEF RunInv, RunPC, ServePC
<1>5. "pulling" \notin {"settle", "closeRan"}
  OBVIOUS
<1>6. \A r \in ranClosed : r # 0 /\ r <= nruns + 1 /\ r # nruns + 1
  BY <1>1, <1>2 DEF RunInv
<1>7. \A d \in Runners : pc'[d] \in RunPC => d = c
  BY <1>2, <1>3
<1>8. \A d \in Runners : pc'[d] \in {"settle", "closeRan"} =>
        run'[d] # nruns + 1 /\ run'[d] # 0 /\ run'[d] <= nruns + 1
  <2> SUFFICES ASSUME NEW d \in Runners, pc'[d] \in {"settle", "closeRan"}
               PROVE  run'[d] # nruns + 1 /\ run'[d] # 0 /\ run'[d] <= nruns + 1
    OBVIOUS
  <2>1. d # c
    BY <1>2
  <2>2. run[d] # 0 /\ run[d] <= nruns /\ run[d] \in Nat
    BY <1>2, <2>1 DEF RunInv
  <2> QED
    BY <1>1, <1>2, <2>1, <2>2
<1> QED
  BY <1>1, <1>2, <1>4, <1>6, <1>7, <1>8 DEF RunInv

\* The spawn and the exit of a process happen under the owner's serve.
LEMMA SpawnAndExit ==
    ASSUME TypeOK, RunInv, NEW c \in Runners, Spawn(c) \/ ProcessExit(c)
    PROVE  RunInv'
<1>1. /\ cur' = cur /\ nruns' = nruns /\ ranClosed' = ranClosed /\ run' = run
  BY DEF Spawn, ProcessExit, callVars
<1>2. c \in Clients /\ pc \in [Clients -> PC] /\ \A d \in Runners : d \in Clients
  BY DEF Clients, TypeOK
<1>3. CASE Spawn(c)
  <2>1. /\ pc[c] = "spawn" /\ \E l \in {"serve", "endRun"} : Goto(c, l)
        /\ \/ live' = live
           \/ live' = live \cup {run[c]} /\ Goto(c, "serve")
    BY <1>3 DEF Spawn
  <2>2. pc'[c] \in {"serve", "endRun"} /\ \A d \in Runners \ {c} : pc'[d] = pc[d]
    BY <1>2, <2>1 DEF Goto
  <2>3. pc[c] \in RunPC /\ pc'[c] \in RunPC /\ pc'[c] \notin {"settle", "closeRan"}
    BY <2>1, <2>2 DEF RunPC
  <2>4. run[c] = cur
    BY <2>3 DEF RunInv
  <2>5. live = {}
    <3>1. \A d \in Runners : pc[d] \in ServePC => d = c
      BY <2>3 DEF RunInv, RunPC, ServePC
    <3>2. pc[c] \notin ServePC
      BY <2>1 DEF ServePC
    <3> QED
      BY <3>1, <3>2 DEF RunInv
  <2>6. live' # {} => live' = {cur} /\ pc'[c] \in ServePC
    BY <1>2, <2>1, <2>4, <2>5 DEF Goto, ServePC
  <2>7. \A d \in Runners : pc'[d] \in RunPC => pc[d] \in RunPC
    BY <2>2, <2>3
  <2>8. \A d \in Runners : pc'[d] \in {"settle", "closeRan"} => pc[d] \in {"settle", "closeRan"}
    BY <2>2, <2>3
  <2> QED
    BY <1>1, <2>6, <2>7, <2>8 DEF RunInv
<1>4. CASE ProcessExit(c)
  BY <1>1, <1>4 DEF ProcessExit, RunInv
<1> QED
  BY <1>3, <1>4

\* endRun gives the handshake back when the process is gone; ran is closed for
\* a run that no longer holds it.
LEMMA EndRun ==
    ASSUME TypeOK, RunInv, NEW c \in Runners, endRun(c) \/ CloseRan(c)
    PROVE  RunInv'
<1>1. c \in Clients /\ pc \in [Clients -> PC] /\ run \in [Clients -> Nat]
      /\ \A d \in Runners : d \in Clients
  BY DEF Clients, TypeOK
<1>2. CASE endRun(c)
  <2>1. /\ pc[c] = "endRun" /\ cur' = 0 /\ nruns' = nruns /\ ranClosed' = ranClosed
        /\ live' = live /\ run' = run /\ pc' = [pc EXCEPT ![c] = "settle"]
    BY <1>2 DEF endRun, Goto, callVars
  <2>2. pc[c] \in RunPC /\ pc[c] \notin ServePC /\ "settle" \notin RunPC /\ ServePC \subseteq RunPC
    BY <2>1 DEF RunPC, ServePC
  <2>3. run[c] = cur /\ cur # 0 /\ cur = nruns /\ nruns \in Nat
    BY <2>2 DEF RunInv, TypeOK
  <2>4. live = {}
    BY <2>2 DEF RunInv
  <2>5. \A d \in Runners : pc'[d] \notin RunPC
    BY <1>1, <2>1, <2>2 DEF RunInv
  <2>6. 0 \notin ranClosed
    BY DEF RunInv
  <2> QED
    BY <1>1, <2>1, <2>3, <2>4, <2>5, <2>6 DEF RunInv
<1>3. CASE CloseRan(c)
  <2>1. /\ pc[c] = "closeRan" /\ cur' = cur /\ nruns' = nruns /\ live' = live
        /\ ranClosed' = ranClosed \cup {run[c]}
        /\ pc' = [pc EXCEPT ![c] = "idle"] /\ run' = [run EXCEPT ![c] = 0]
    BY <1>3 DEF CloseRan, RunReturns, Goto
  <2>2. run[c] # cur /\ run[c] # 0 /\ run[c] <= nruns
    BY <2>1 DEF RunInv
  <2>3. pc[c] \notin RunPC /\ "idle" \notin RunPC /\ ServePC \subseteq RunPC
    BY <2>1 DEF RunPC, ServePC
  <2>4. \A d \in Runners : pc'[d] \in RunPC => pc[d] \in RunPC /\ run'[d] = run[d]
    BY <1>1, <2>1, <2>3
  <2>5. \A d \in Runners : pc'[d] \in {"settle", "closeRan"} =>
          pc[d] \in {"settle", "closeRan"} /\ run'[d] = run[d]
    BY <1>1, <2>1
  <2>6. \A d \in Runners : pc[d] \in ServePC => pc'[d] \in ServePC
    BY <1>1, <2>1, <2>3
  <2>7. \A r \in live' : r = cur' /\ \E d \in Runners : pc'[d] \in ServePC
    BY <2>1, <2>6 DEF RunInv
  <2>8. cur' \notin ranClosed' /\ \A r \in ranClosed' : r # 0 /\ r <= nruns'
    BY <2>1, <2>2 DEF RunInv
  <2> QED
    BY <2>1, <2>4, <2>5, <2>7, <2>8 DEF RunInv
<1> QED
  BY <1>2, <1>3

\* Stop, Remove and the environment do not touch the handshake.
LEMMA OtherStepRun ==
    ASSUME TypeOK, RunInv,
           \/ \E c \in Preparers : Prepare(c)
           \/ \E c \in Stoppers \cup Removers : Stop(c) \/ StopStep(c) \/ StopCtx(c)
           \/ \E c \in Removers : RemoveStep(c)
           \/ \E c \in Runners : CallerCancels(c)
           \/ SetAgentToken \/ EditProviders \/ Supervisor
    PROVE  RunInv'
<1>1. cur' = cur /\ nruns' = nruns /\ ranClosed' = ranClosed /\ live' = live /\ run' = run
  BY DEF Prepare, Stop, StopStep, StopCancel, StopRan, StopCtx, RemoveStep, SetRemoving,
         RemoveAll, SetRemoved, CallerCancels, SetAgentToken, EditProviders, Supervisor,
         runVars, callVars
<1>2. \A d \in Runners : pc'[d] = pc[d]
  <2>1. \A c \in Preparers \cup Stoppers \cup Removers : c \notin Runners
    BY ClientsAssumption
  <2>2. \A c, l : (c \notin Runners /\ Goto(c, l)) => \A d \in Runners : pc'[d] = pc[d]
    BY DEF Goto, TypeOK, Clients
  <2>3. ASSUME NEW c \in Preparers, Prepare(c) PROVE \A d \in Runners : pc'[d] = pc[d]
    BY <2>1, <2>2, <2>3 DEF Prepare
  <2>4. ASSUME NEW c \in Stoppers \cup Removers, Stop(c) \/ StopStep(c) \/ StopCtx(c)
        PROVE  \A d \in Runners : pc'[d] = pc[d]
    BY <2>1, <2>2, <2>4 DEF Stop, StopStep, StopCancel, StopRan, StopCtx, StopReturns
  <2>5. ASSUME NEW c \in Removers, RemoveStep(c) PROVE \A d \in Runners : pc'[d] = pc[d]
    BY <2>1, <2>2, <2>5 DEF RemoveStep, SetRemoving, RemoveAll, SetRemoved
  <2>6. ASSUME \/ \E c \in Runners : CallerCancels(c)
               \/ SetAgentToken \/ EditProviders \/ Supervisor
        PROVE  pc' = pc
    BY <2>6 DEF CallerCancels, SetAgentToken, EditProviders, Supervisor
  <2> QED
    BY <2>3, <2>4, <2>5, <2>6
<1> QED
  BY <1>1, <1>2 DEF RunInv

\* Every step keeps RunInv.
LEMMA NextRun == TypeOK /\ RunInv /\ [Next]_vars => RunInv'
<1> SUFFICES ASSUME TypeOK, RunInv, [Next]_vars PROVE RunInv'
  OBVIOUS
<1>1. ASSUME NEW c \in Runners, Run(c) \/ Start(c) \/ RunStep(c) \/ ProcessExit(c) PROVE RunInv'
  <2> c \in Clients
    BY DEF Clients
  <2> QED
    BY <1>1, QuietRunnerStep, PrepareStepRun, BeginRun, SpawnAndExit, EndRun DEF RunStep
<1>2. ASSUME NEW c \in Preparers, PrepareStep(c) PROVE RunInv'
  BY <1>2, PrepareStepRun DEF Clients
<1>3. CASE UNCHANGED vars
  BY <1>3 DEF vars, runVars, callVars, RunInv
<1> QED
  BY <1>1, <1>2, <1>3, OtherStepRun DEF Next

-----------------------------------------------------------------------------
(* Stop.                                                                      *)

\* A step leaves the callers of Stop alone.
StopFrame ==
    \A d \in Stoppers \cup Removers :
        pc'[d] = pc[d] /\ since'[d] = since[d] /\ target'[d] = target[d] /\ ret'[d] = ret[d]

\* What may happen to the handshake.
SlotStep ==
    \/ cur' = cur /\ nruns' = nruns
    \/ cur' = 0 /\ nruns' = nruns
    \/ cur' = nruns + 1 /\ nruns' = nruns + 1

\* A step of anybody else keeps StopInv.
LEMMA FrameStop ==
    ASSUME TypeOK, StopInv, StopFrame, SlotStep PROVE StopInv'
<1>1. nruns \in Nat /\ cur \in Nat /\ \A d \in Stoppers \cup Removers : since[d] \in Nat
  BY DEF TypeOK, Clients
<1> SUFFICES ASSUME NEW d \in Stoppers \cup Removers
             PROVE  /\ since'[d] <= nruns'
                    /\ pc'[d] \in {"cancel", "wait"} => target'[d] = since'[d]
                    /\ ret'[d] = "nil" /\ cur' # 0 => cur' > since'[d]
  BY DEF StopInv
<1>2. pc'[d] = pc[d] /\ since'[d] = since[d] /\ target'[d] = target[d] /\ ret'[d] = ret[d]
  BY DEF StopFrame
<1>3. /\ since[d] <= nruns
      /\ pc[d] \in {"cancel", "wait"} => target[d] = since[d]
      /\ ret[d] = "nil" /\ cur # 0 => cur > since[d]
  BY DEF StopInv
<1>4. since'[d] <= nruns'
  BY <1>1, <1>2, <1>3 DEF SlotStep
<1>5. ret'[d] = "nil" /\ cur' # 0 => cur' > since'[d]
  BY <1>1, <1>2, <1>3 DEF SlotStep
<1> QED
  BY <1>2, <1>3, <1>4, <1>5

\* Moving a client that is not a caller of Stop, or nobody, is such a step.
LEMMA GotoFrame ==
    ASSUME TypeOK, NEW c \in Runners \cup Preparers, NEW l, Goto(c, l),
           since' = since, target' = target,
           ret' = ret \/ \E e : ret' = [ret EXCEPT ![c] = e]
    PROVE  StopFrame
<1>1. c \notin Stoppers \cup Removers
  BY ClientsAssumption
<1> QED
  BY <1>1 DEF StopFrame, Goto, TypeOK, Clients

\* The steps of Prepare leave the callers of Stop alone.
LEMMA PrepareFrame ==
    ASSUME TypeOK, NEW c \in Runners \cup Preparers, Prepare(c) \/ PrepareStep(c)
    PROVE  StopFrame /\ SlotStep
<1>1. cur' = cur /\ nruns' = nruns /\ since' = since /\ target' = target
  BY DEF Prepare, PrepareStep, initialize, Materialize, MaterializeFails, Publish,
         PrepareFailed, PrepareSetFailure, runVars, callVars
<1>2. \E l : Goto(c, l)
  BY DEF Prepare, PrepareStep, initialize, Materialize, MaterializeFails, Publish,
         PrepareFailed, PrepareSetFailure, PrepareReturns
<1>3. ret' = ret \/ \E e : ret' = [ret EXCEPT ![c] = e]
  BY DEF Prepare, PrepareStep, initialize, Materialize, MaterializeFails, Publish,
         PrepareFailed, PrepareSetFailure, PrepareReturns, callVars
<1> QED
  BY <1>1, <1>2, <1>3, GotoFrame DEF SlotStep

\* The steps of a runner leave the callers of Stop alone.
LEMMA RunnerFrame ==
    ASSUME TypeOK, NEW c \in Runners,
           Run(c) \/ Start(c) \/ RunStep(c) \/ ProcessExit(c) \/ CallerCancels(c)
    PROVE  StopFrame /\ SlotStep
<1> USE DEF SlotStep
<1>1. CASE PrepareStep(c)
  BY <1>1, PrepareFrame
<1>2. CASE Run(c) \/ Start(c) \/ reresolveCredentials(c)
  <2>1. cur' = cur /\ nruns' = nruns /\ since' = since /\ target' = target /\ ret' = ret
    BY <1>2 DEF Run, Start, reresolveCredentials, runVars
  <2>2. \E l : Goto(c, l)
    BY <1>2 DEF Run, Start, reresolveCredentials
  <2> QED
    BY <2>1, <2>2, GotoFrame
<1>3. CASE WriteCreds(c) \/ ModelFailed(c) \/ BeginRefused(c) \/ SetPulling(c) \/ SetStarting(c)
  <2>1. cur' = cur /\ nruns' = nruns /\ since' = since /\ target' = target /\ ret' = ret
    BY <1>3 DEF WriteCreds, ModelFailed, BeginRefused, SetPulling, SetStarting, RunReturns,
                runVars, callVars
  <2>2. \E l : Goto(c, l)
    BY <1>3 DEF WriteCreds, ModelFailed, BeginRefused, SetPulling, SetStarting, RunReturns
  <2> QED
    BY <2>1, <2>2, GotoFrame
<1>4. CASE beginRun(c)
  BY <1>4, GotoFrame DEF beginRun, TakeSlot
<1>5. CASE command(c) \/ Spawn(c) \/ Interrupt(c) \/ ForceKill(c) \/ AwaitExit(c)
  <2>1. cur' = cur /\ nruns' = nruns /\ since' = since /\ target' = target /\ ret' = ret
    BY <1>5 DEF command, Spawn, Interrupt, ForceKill, AwaitExit, runVars, callVars
  <2>2. \E l : Goto(c, l)
    BY <1>5 DEF command, Spawn, Interrupt, ForceKill, AwaitExit
  <2> QED
    BY <2>1, <2>2, GotoFrame
<1>6. CASE endRun(c)
  BY <1>6, GotoFrame DEF endRun, callVars
<1>7. CASE Settle(c) \/ CloseRan(c)
  <2>1. cur' = cur /\ nruns' = nruns /\ since' = since /\ target' = target /\ ret' = ret
    BY <1>7 DEF Settle, CloseRan, RunReturns, runVars, callVars
  <2>2. \E l : Goto(c, l)
    BY <1>7 DEF Settle, CloseRan, RunReturns
  <2> QED
    BY <2>1, <2>2, GotoFrame
<1>8. CASE ProcessExit(c) \/ CallerCancels(c)
  BY <1>8 DEF ProcessExit, CallerCancels, StopFrame, callVars
<1> QED
  BY <1>1, <1>2, <1>3, <1>4, <1>5, <1>6, <1>7, <1>8 DEF RunStep

\* The steps of Stop and Remove.
LEMMA StopStepStop ==
    ASSUME TypeOK, RunInv, StopInv, NEW c \in Stoppers \cup Removers,
           \/ Stop(c) \/ StopStep(c) \/ StopCtx(c)
           \/ c \in Removers /\ RemoveStep(c)
    PROVE  StopInv'
<1>1. cur' = cur /\ nruns' = nruns
  BY DEF Stop, StopStep, StopCancel, StopRan, StopCtx, RemoveStep, SetRemoving,
         RemoveAll, SetRemoved, runVars
<1>2. /\ c \in Clients /\ \A d \in Stoppers \cup Removers : d \in Clients
      /\ pc \in [Clients -> PC] /\ target \in [Clients -> Nat] /\ since \in [Clients -> Nat]
      /\ ret \in [Clients -> Errors \cup {"none", "nil", "ctx.Err"}]
      /\ cur \in Nat /\ nruns \in Nat
  BY DEF TypeOK, Clients
<1>3. \A d \in (Stoppers \cup Removers) \ {c} :
         pc'[d] = pc[d] /\ since'[d] = since[d] /\ target'[d] = target[d] /\ ret'[d] = ret[d]
  <2>1. CASE Stop(c)
    BY <1>2, <2>1 DEF Stop, StopReturns, Goto
  <2>2. CASE StopStep(c) \/ StopCtx(c)
    BY <1>2, <2>2 DEF StopStep, StopCancel, StopRan, StopCtx, StopReturns, Goto, callVars
  <2>3. CASE RemoveStep(c)
    BY <1>2, <2>3 DEF RemoveStep, SetRemoving, RemoveAll, SetRemoved, Goto, callVars
  <2> QED
    BY <2>1, <2>2, <2>3
<1>4. /\ since[c] <= nruns
      /\ pc[c] \in {"cancel", "wait"} => target[c] = since[c]
      /\ ret[c] = "nil" /\ cur # 0 => cur > since[c]
  BY DEF StopInv
<1>5. /\ since'[c] <= nruns'
      /\ pc'[c] \in {"cancel", "wait"} => target'[c] = since'[c]
      /\ ret'[c] = "nil" /\ cur' # 0 => cur' > since'[c]
  <2>1. CASE Stop(c)
    <3>1. since'[c] = nruns
      BY <1>2, <2>1 DEF Stop
    <3>2. CASE cur = 0
      <4>1. pc'[c] \in {"removing", "idle"}
        BY <1>2, <2>1, <3>2 DEF Stop, StopReturns, Goto
      <4> QED
        BY <1>1, <1>2, <3>1, <3>2, <4>1
    <3>3. CASE cur # 0
      <4>1. target'[c] = cur /\ ret'[c] = "none"
        BY <1>2, <2>1, <3>3 DEF Stop
      <4>2. cur = nruns
        BY <3>3 DEF RunInv
      <4> QED
        BY <1>1, <1>2, <3>1, <4>1, <4>2
    <3> QED
      BY <3>2, <3>3
  <2>2. CASE StopCancel(c)
    BY <1>1, <1>2, <1>4, <2>2 DEF StopCancel, Goto, callVars
  <2>3. CASE StopRan(c)
    <3>1. target[c] = since[c] /\ target[c] \in ranClosed
      BY <1>4, <2>3 DEF StopRan
    <3>2. cur # since[c] /\ (cur # 0 => cur = nruns)
      BY <3>1 DEF RunInv
    <3>3. cur # 0 => cur > since[c]
      BY <1>2, <1>4, <3>2
    <3>4. pc'[c] \in {"removing", "idle"} /\ since'[c] = since[c]
      BY <1>2, <2>3 DEF StopRan, StopReturns, Goto
    <3> QED
      BY <1>1, <1>4, <3>3, <3>4
  <2>4. CASE StopCtx(c)
    BY <1>1, <1>2, <1>4, <2>4 DEF StopCtx, StopReturns, Goto
  <2>5. CASE RemoveStep(c)
    <3>1. pc'[c] \in {"removeAll", "removed", "idle"} /\ since' = since /\ target' = target /\ ret' = ret
      BY <1>2, <2>5 DEF RemoveStep, SetRemoving, RemoveAll, SetRemoved, Goto, callVars
    <3> QED
      BY <1>1, <1>4, <3>1
  <2> QED
    BY <2>1, <2>2, <2>3, <2>4, <2>5 DEF StopStep
<1> QED
  BY <1>1, <1>3, <1>5 DEF StopInv

\* Every step keeps StopInv.
LEMMA NextStop == TypeOK /\ RunInv /\ StopInv /\ [Next]_vars => StopInv'
<1> SUFFICES ASSUME TypeOK, RunInv, StopInv, [Next]_vars PROVE StopInv'
  OBVIOUS
<1>1. ASSUME NEW c \in Runners,
             Run(c) \/ Start(c) \/ RunStep(c) \/ ProcessExit(c) \/ CallerCancels(c)
      PROVE  StopInv'
  BY <1>1, RunnerFrame, FrameStop
<1>2. ASSUME NEW c \in Preparers, Prepare(c) \/ PrepareStep(c) PROVE StopInv'
  BY <1>2, PrepareFrame, FrameStop
<1>3. CASE SetAgentToken \/ EditProviders \/ Supervisor \/ UNCHANGED vars
  <2>1. StopFrame /\ SlotStep
    BY <1>3 DEF SetAgentToken, EditProviders, Supervisor, vars, runVars, callVars,
                StopFrame, SlotStep
  <2> QED
    BY <2>1, FrameStop
<1> QED
  BY <1>1, <1>2, <1>3, StopStepStop DEF Next

-----------------------------------------------------------------------------

\* The invariant holds in every reachable state.
THEOREM Invariance == Spec => []IInv
<1>1. IInv /\ [Next]_vars => IInv'
  BY NextType, NextRun, NextStop DEF IInv
<1> QED
  BY <1>1, InitIInv, PTL DEF Spec

\* Every variable of the agent's lock, handshake and callers keeps its type in every
\* reachable state, for any constants.
THEOREM TypeCorrect == Spec => []TypeOK
<1>1. IInv => TypeOK
  BY DEF IInv
<1> QED
  BY <1>1, Invariance, PTL

\* However many goroutines call Run, Start, Stop and Remove, a running process
\* belongs to the run that holds the cancel/ran handshake: there is at most one
\* and Stop finds it (beginRun, serve, endRun).
THEOREM ProcessSafety == Spec => []ProcessIsCurrent
<1>1. IInv => ProcessIsCurrent
  BY DEF IInv, RunInv, ProcessIsCurrent
<1> QED
  BY <1>1, Invariance, PTL

\* Once Stop has returned nil, no process of a run begun before it is left.
THEOREM StopSafety == Spec => []StopIsEffective
<1>1. IInv => StopIsEffective
  <2> SUFFICES ASSUME IInv, NEW c \in Stoppers \cup Removers, ret[c] = "nil", NEW r \in live
               PROVE  r > since[c]
    BY DEF StopIsEffective
  <2>1. r = cur /\ \E d \in Runners : pc[d] \in ServePC
    BY DEF IInv, RunInv
  <2>2. cur # 0
    BY <2>1 DEF IInv, RunInv, RunPC, ServePC
  <2> QED
    BY <2>1, <2>2 DEF IInv, StopInv
<1> QED
  BY <1>1, Invariance, PTL

\* No step takes a removing or removed agent to stopped: the one write of
\* stopped is endRun's, and its guard holds both statuses.
THEOREM NoFlip == Spec => NeverFlipsToStopped
<1>1. [Next]_vars => [(status \in {"removing", "removed"}) => status' # "stopped"]_vars
  <2> SUFFICES ASSUME Next, status \in {"removing", "removed"} PROVE status' # "stopped"
    OBVIOUS
  <2> USE DEF statusVars
  <2>1. ASSUME NEW s, Set(s), s # "stopped" PROVE status' # "stopped"
    BY <2>1 DEF Set, setLocked
  <2>2. ASSUME NEW r, SetFailure(r) PROVE status' # "stopped"
    BY <2>2 DEF SetFailure, setLocked
  <2>3. ASSUME NEW c, PrepareStep(c) PROVE status' # "stopped"
    BY <2>2, <2>3 DEF PrepareStep, initialize, Materialize, MaterializeFails, Publish,
                      PrepareFailed, PrepareSetFailure
  <2>4. ASSUME NEW c, Run(c) \/ Start(c) \/ reresolveCredentials(c) \/ WriteCreds(c)
                      \/ ModelFailed(c) \/ beginRun(c) \/ BeginRefused(c)
                      \/ SetPulling(c) \/ SetStarting(c) \/ command(c) \/ Spawn(c)
        PROVE  status' # "stopped"
    BY <2>1, <2>2, <2>4
       DEF Run, Start, reresolveCredentials, WriteCreds, ModelFailed, beginRun, TakeSlot,
           BeginRefused, SetPulling, SetStarting, command, Spawn
  <2>5. ASSUME NEW c, Interrupt(c) \/ ForceKill(c) \/ AwaitExit(c) \/ endRun(c)
                      \/ CloseRan(c) \/ ProcessExit(c) \/ CallerCancels(c)
        PROVE  status' # "stopped"
    BY <2>5 DEF Interrupt, ForceKill, AwaitExit, endRun, CloseRan, ProcessExit, CallerCancels
  <2>6. ASSUME NEW c, Settle(c) PROVE status' # "stopped"
    BY <2>6 DEF Settle, SetUnless, SettleGuard
  <2>7. ASSUME NEW c, Prepare(c) \/ Stop(c) \/ StopStep(c) \/ StopCtx(c) \/ RemoveStep(c)
        PROVE  status' # "stopped"
    BY <2>1, <2>7 DEF Prepare, Stop, StopStep, StopCancel, StopRan, StopCtx, RemoveStep,
                      SetRemoving, RemoveAll, SetRemoved
  <2>8. CASE SetAgentToken \/ EditProviders \/ Supervisor
    BY <2>1, <2>2, <2>8 DEF SetAgentToken, EditProviders, Supervisor
  <2> QED
    BY <2>3, <2>4, <2>5, <2>6, <2>7, <2>8 DEF Next, RunStep
<1> QED
  BY <1>1, PTL DEF Spec, NeverFlipsToStopped

\* Once initialize has published a descriptor, no call of Prepare, Run or Start
\* replaces it.
THEOREM Published == Spec => PublishedOnce
<1>1. [Next]_vars => [rt # 0 => rt' = rt]_vars
  <2> SUFFICES ASSUME Next, rt # 0 PROVE rt' = rt
    OBVIOUS
  <2> USE DEF cfgVars
  <2>1. ASSUME NEW c, PrepareStep(c) PROVE rt' = rt
    BY <2>1 DEF PrepareStep, initialize, Materialize, MaterializeFails, Publish,
                PrepareFailed, PrepareSetFailure
  <2>2. ASSUME NEW c, Run(c) \/ Start(c) \/ reresolveCredentials(c) \/ WriteCreds(c)
                      \/ ModelFailed(c) \/ beginRun(c) \/ BeginRefused(c)
                      \/ SetPulling(c) \/ SetStarting(c) \/ command(c) \/ Spawn(c)
        PROVE  rt' = rt
    BY <2>2
       DEF Run, Start, reresolveCredentials, WriteCreds, ModelFailed, beginRun, TakeSlot,
           BeginRefused, SetPulling, SetStarting, command, Spawn
  <2>3. ASSUME NEW c, Interrupt(c) \/ ForceKill(c) \/ AwaitExit(c) \/ endRun(c) \/ Settle(c)
                      \/ CloseRan(c) \/ ProcessExit(c) \/ CallerCancels(c)
        PROVE  rt' = rt
    BY <2>3 DEF Interrupt, ForceKill, AwaitExit, endRun, Settle, CloseRan, ProcessExit,
                CallerCancels
  <2>4. ASSUME NEW c, Prepare(c) \/ Stop(c) \/ StopStep(c) \/ StopCtx(c) \/ RemoveStep(c)
        PROVE  rt' = rt
    BY <2>4 DEF Prepare, Stop, StopStep, StopCancel, StopRan, StopCtx, RemoveStep,
                SetRemoving, RemoveAll, SetRemoved
  <2>5. CASE SetAgentToken \/ EditProviders \/ Supervisor
    BY <2>5 DEF SetAgentToken, EditProviders, Supervisor
  <2> QED
    BY <2>1, <2>2, <2>3, <2>4, <2>5 DEF Next, RunStep
<1> QED
  BY <1>1, PTL DEF Spec, PublishedOnce

-----------------------------------------------------------------------------
(* The refinement of AgentLifecycle.                                          *)

\* The run of a goroutine, or of a Stop about to cancel, is one that was begun.
OwnInv ==
    /\ \A c \in Runners : run[c] <= nruns
    /\ \A c \in Stoppers \cup Removers : pc[c] = "cancel" => target[c] # 0

\* Run's goroutine is past the spawn.
TailPC == ServePC \cup {"endRun"}

\* Every step keeps OwnInv.
LEMMA NextOwn == TypeOK /\ OwnInv /\ [Next]_vars => OwnInv'
<1> SUFFICES ASSUME TypeOK, OwnInv, [Next]_vars PROVE OwnInv'
  OBVIOUS
<1>1. /\ nruns \in Nat /\ \A c \in Runners : c \in Clients /\ run[c] \in Nat
      /\ run \in [Clients -> Nat] /\ pc \in [Clients -> PC] /\ target \in [Clients -> Nat]
      /\ \A c \in Stoppers \cup Removers : c \in Clients
  BY DEF TypeOK, Clients
<1>2. ASSUME StopFrame,
             \/ run' = run /\ (nruns' = nruns \/ nruns' = nruns + 1)
             \/ \E c \in Runners : run' = [run EXCEPT ![c] = 0] /\ nruns' = nruns
             \/ \E c \in Runners : run' = [run EXCEPT ![c] = nruns + 1] /\ nruns' = nruns + 1
      PROVE  OwnInv'
  <2>1. \A d \in Runners : run'[d] <= nruns'
    BY <1>1, <1>2 DEF OwnInv
  <2> QED
    BY <1>2, <2>1 DEF OwnInv, StopFrame
<1>3. ASSUME NEW c \in Runners,
             Run(c) \/ Start(c) \/ RunStep(c) \/ ProcessExit(c) \/ CallerCancels(c)
      PROVE  OwnInv'
  <2>1. StopFrame
    BY <1>3, RunnerFrame
  <2>2. CASE beginRun(c)
    BY <1>2, <2>1, <2>2 DEF beginRun, TakeSlot
  <2>3. CASE ModelFailed(c) \/ BeginRefused(c) \/ CloseRan(c)
    BY <1>2, <2>1, <2>3 DEF ModelFailed, BeginRefused, CloseRan, RunReturns, runVars
  <2>4. CASE PrepareStep(c)
    BY <1>2, <2>1, <2>4 DEF PrepareStep, initialize, Materialize, MaterializeFails, Publish,
                            PrepareFailed, PrepareSetFailure, runVars
  <2>5. CASE Run(c) \/ Start(c) \/ reresolveCredentials(c) \/ WriteCreds(c) \/ SetPulling(c)
             \/ SetStarting(c) \/ command(c) \/ Spawn(c)
    BY <1>2, <2>1, <2>5 DEF Run, Start, reresolveCredentials, WriteCreds, SetPulling,
                            SetStarting, command, Spawn, runVars, callVars
  <2>6. CASE Interrupt(c) \/ ForceKill(c) \/ AwaitExit(c) \/ endRun(c) \/ Settle(c)
             \/ ProcessExit(c) \/ CallerCancels(c)
    BY <1>2, <2>1, <2>6 DEF Interrupt, ForceKill, AwaitExit, endRun, Settle, ProcessExit,
                            CallerCancels, runVars, callVars
  <2> QED
    BY <1>3, <2>2, <2>3, <2>4, <2>5, <2>6 DEF RunStep
<1>4. ASSUME NEW c \in Preparers, Prepare(c) \/ PrepareStep(c) PROVE OwnInv'
  <2>1. StopFrame
    BY <1>4, PrepareFrame
  <2> QED
    BY <1>2, <1>4, <2>1
       DEF Prepare, PrepareStep, initialize, Materialize, MaterializeFails, Publish,
           PrepareFailed, PrepareSetFailure, runVars, callVars
<1>5. ASSUME NEW c \in Stoppers \cup Removers,
             Stop(c) \/ StopStep(c) \/ StopCtx(c) \/ RemoveStep(c)
      PROVE  OwnInv'
  <2>1. run' = run /\ nruns' = nruns
    BY <1>5 DEF Stop, StopStep, StopCancel, StopRan, StopCtx, RemoveStep, SetRemoving,
                RemoveAll, SetRemoved, runVars, callVars
  <2>2. ASSUME NEW d \in Stoppers \cup Removers, d # c, pc'[d] = "cancel" PROVE target'[d] # 0
    <3>1. pc'[d] = pc[d] /\ target'[d] = target[d]
      BY <1>1, <1>5, <2>2
         DEF Stop, StopStep, StopCancel, StopRan, StopCtx, StopReturns, RemoveStep,
             SetRemoving, RemoveAll, SetRemoved, Goto, callVars
    <3> QED
      BY <2>2, <3>1 DEF OwnInv
  <2>3. pc'[c] = "cancel" => target'[c] # 0
    <3>1. CASE Stop(c)
      BY <1>1, <3>1 DEF Stop, StopReturns, Goto
    <3>2. CASE StopStep(c) \/ StopCtx(c) \/ RemoveStep(c)
      BY <1>1, <3>2 DEF StopStep, StopCancel, StopRan, StopCtx, StopReturns, RemoveStep,
                        SetRemoving, RemoveAll, SetRemoved, Goto
    <3> QED
      BY <1>5, <3>1, <3>2
  <2> QED
    BY <2>1, <2>2, <2>3 DEF OwnInv
<1>6. CASE SetAgentToken \/ EditProviders \/ Supervisor \/ UNCHANGED vars
  BY <1>6 DEF SetAgentToken, EditProviders, Supervisor, vars, runVars, callVars, OwnInv
<1> QED
  BY <1>3, <1>4, <1>5, <1>6 DEF Next

\* OwnInv holds initially.
LEMMA InitOwn == Init => OwnInv
BY DEF Init, OwnInv, Clients

\* A step that moves no goroutine across the spawn keeps the abstract phase.
LEMMA SamePhase ==
    ASSUME TypeOK, cur' = cur, live' = live,
           NEW c \in Clients,
           \/ pc' = pc /\ run' = run
           \/ \E l : /\ Goto(c, l)
                     /\ c \in Runners => (l \in TailPC <=> pc[c] \in TailPC)
                     /\ \/ run' = run
                        \/ run' = [run EXCEPT ![c] = 0] /\ c \in Runners /\ l \notin TailPC
    PROVE  phaseBar' = phaseBar
<1>1. pc \in [Clients -> PC] /\ run \in [Clients -> Nat] /\ \A d \in Runners : d \in Clients
  BY DEF TypeOK, Clients
<1>2. \A d \in Runners : (run'[d] = cur' /\ pc'[d] \in TailPC) <=> (run[d] = cur /\ pc[d] \in TailPC)
  BY <1>1 DEF Goto
<1> QED
  BY <1>2 DEF phaseBar, TailPC

\* The abstract phase of a goroutine inside Run.
LEMMA OwnerPhase ==
    ASSUME RunInv, NEW c \in Runners, pc[c] \in RunPC
    PROVE  /\ cur # 0
           /\ live # {} => phaseBar = "serving"
           /\ live = {} /\ pc[c] \in TailPC => phaseBar = "ended"
           /\ live = {} /\ pc[c] \notin TailPC => phaseBar = "begun"
           /\ pc[c] \notin ServePC => live = {}
<1>1. run[c] = cur /\ cur # 0
  BY DEF RunInv
<1>2. TailPC \subseteq RunPC /\ ServePC \subseteq RunPC
  BY DEF TailPC, ServePC, RunPC
<1>3. \A d \in Runners : pc[d] \in TailPC => d = c
  BY <1>2 DEF RunInv
<1>4. live # {} => cur \in live
  BY DEF RunInv
<1>5. pc[c] \notin ServePC => live = {}
  BY <1>2 DEF RunInv
<1> QED
  BY <1>1, <1>3, <1>4, <1>5 DEF phaseBar, TailPC

\* A step of Prepare inside Run is a stutter, or the run is abandoned.
LEMMA PrepareRefines ==
    ASSUME IInv, IInv', NEW c \in Runners, PrepareStep(c)
    PROVE  [Lifecycle!Next]_(Lifecycle!vars)
<1>1. /\ cur' = cur /\ nruns' = nruns /\ ctxDone' = ctxDone /\ live' = live /\ run' = run
      /\ pc[c] \in {"initialize", "materialize", "publish", "failed", "setFailure"}
  BY DEF PrepareStep, initialize, Materialize, MaterializeFails, Publish, PrepareFailed,
         PrepareSetFailure, runVars
<1>2. c \notin Preparers
  BY ClientsAssumption
<1> DEFINE Labels == {"materialize", "publish", "failed", "setFailure", "starting", "endRun"}
<1>3. PICK l \in Labels : Goto(c, l)
  BY <1>2 DEF PrepareStep, initialize, Materialize, MaterializeFails, Publish, PrepareFailed,
              PrepareSetFailure, PrepareReturns
<1>4. /\ c \in Clients /\ c \notin Preparers /\ TypeOK /\ pc'[c] = l
      /\ pc[c] \in RunPC /\ pc[c] \notin TailPC
  <2>1. c \in Clients /\ c \notin Preparers /\ TypeOK
    BY ClientsAssumption DEF Clients, IInv
  <2>2. pc'[c] = l
    BY <1>3, <2>1 DEF TypeOK, Goto
  <2>3. pc[c] \in RunPC /\ pc[c] \notin TailPC
    BY <1>1 DEF RunPC, TailPC, ServePC
  <2> QED
    BY <2>1, <2>2, <2>3
<1>5. l \in Labels
  BY <1>3
<1>6. CASE l = "endRun"
  <2>1. pc'[c] \in RunPC /\ pc'[c] \in TailPC /\ pc'[c] \notin ServePC
    BY <1>4, <1>6 DEF RunPC, TailPC, ServePC
  <2>2. phaseBar = "begun" /\ phaseBar' = "ended"
    <3>1. live = {} /\ phaseBar = "begun"
      BY <1>4, OwnerPhase DEF IInv, TailPC
    <3>2. RunInv' /\ live' = {}
      BY <1>1, <3>1 DEF IInv
    <3>3. run'[c] = cur' /\ cur' # 0
      BY <2>1, <3>2 DEF RunInv
    <3>4. phaseBar' = "ended"
      BY <2>1, <3>2, <3>3 DEF phaseBar, TailPC
    <3> QED
      BY <3>1, <3>4
  <2> QED
    BY <1>1, <2>2 DEF Lifecycle!Next, Lifecycle!Abandon, Lifecycle!vars
<1>7. CASE l # "endRun"
  <2>1. l \notin TailPC
    BY <1>5, <1>7 DEF TailPC, ServePC
  <2>2. phaseBar' = phaseBar
    BY <1>1, <1>3, <1>4, <2>1, SamePhase
  <2> QED
    BY <1>1, <2>2 DEF Lifecycle!vars
<1> QED
  BY <1>6, <1>7

\* The steps of a runner that take the slot, spawn, and give the slot back.
LEMMA SlotRefines ==
    ASSUME IInv, IInv', NEW c \in Runners,
           beginRun(c) \/ Spawn(c) \/ ProcessExit(c) \/ endRun(c)
    PROVE  Lifecycle!Next
<1>1. /\ c \in Clients /\ pc \in [Clients -> PC] /\ run \in [Clients -> Nat]
      /\ RunInv /\ RunInv' /\ nruns \in Nat
  BY DEF Clients, IInv, TypeOK
<1>2. CASE beginRun(c)
  <2>1. /\ cur = 0 /\ nruns' = nruns + 1 /\ ctxDone' = ctxDone /\ cur' = nruns + 1
        /\ pc'[c] = "pulling" /\ live' = live
    BY <1>1, <1>2 DEF beginRun, TakeSlot, Goto
  <2>2. phaseBar = "idle"
    BY <2>1 DEF phaseBar
  <2>3. pc'[c] \in RunPC /\ pc'[c] \notin TailPC /\ ServePC \subseteq TailPC
        /\ TailPC \subseteq RunPC
    BY <2>1 DEF RunPC, TailPC, ServePC
  <2>4. \A d \in Runners : pc'[d] \notin TailPC
    BY <1>1, <2>3 DEF RunInv
  <2>5. live' = {}
    BY <1>1, <2>3, <2>4 DEF RunInv
  <2>6. cur' # 0
    BY <1>1, <2>1
  <2>7. phaseBar' = "begun"
    BY <2>4, <2>5, <2>6 DEF phaseBar, TailPC
  <2> QED
    BY <2>1, <2>2, <2>7 DEF Lifecycle!Next, Lifecycle!Begin
<1>3. CASE Spawn(c)
  <2>1. /\ cur' = cur /\ nruns' = nruns /\ ctxDone' = ctxDone /\ run' = run
        /\ pc[c] = "spawn" /\ pc'[c] \in {"serve", "endRun"}
        /\ \/ live' = live \cup {run[c]}
           \/ live' = live
    BY <1>1, <1>3 DEF Spawn, Goto, callVars
  <2>2. pc[c] \in RunPC /\ pc[c] \notin TailPC /\ pc[c] \notin ServePC
        /\ pc'[c] \in TailPC
    BY <2>1 DEF RunPC, TailPC, ServePC
  <2>3. phaseBar = "begun" /\ live = {} /\ cur # 0 /\ run[c] = cur
    BY <1>1, <2>2, OwnerPhase DEF RunInv
  <2>4. CASE live' = live
    <3>1. phaseBar' = "ended"
      BY <2>1, <2>2, <2>3, <2>4 DEF phaseBar, TailPC
    <3> QED
      BY <2>1, <2>3, <3>1 DEF Lifecycle!Next, Lifecycle!Abandon
  <2>5. CASE live' = live \cup {run[c]}
    <3>1. phaseBar' = "serving"
      BY <2>1, <2>3, <2>5 DEF phaseBar
    <3> QED
      BY <2>1, <2>3, <3>1 DEF Lifecycle!Next, Lifecycle!Spawn
  <2> QED
    BY <2>1, <2>4, <2>5
<1>4. CASE ProcessExit(c)
  <2>1. /\ cur' = cur /\ nruns' = nruns /\ ctxDone' = ctxDone /\ run' = run /\ pc' = pc
        /\ pc[c] \in ServePC /\ run[c] \in live /\ live' = live \ {run[c]}
    BY <1>4 DEF ProcessExit, ServePC, callVars
  <2>2. pc[c] \in RunPC /\ pc[c] \in TailPC
    BY <2>1 DEF RunPC, TailPC, ServePC
  <2>3. phaseBar = "serving" /\ cur # 0 /\ run[c] = cur
    BY <1>1, <2>1, <2>2, OwnerPhase DEF RunInv
  <2>4. phaseBar' = "ended"
    BY <2>1, <2>2, <2>3 DEF phaseBar, TailPC
  <2> QED
    BY <2>1, <2>3, <2>4 DEF Lifecycle!Next, Lifecycle!Exit
<1>5. CASE endRun(c)
  <2>1. /\ cur' = 0 /\ nruns' = nruns /\ ctxDone' = ctxDone /\ pc[c] = "endRun"
    BY <1>5 DEF endRun
  <2>2. pc[c] \in RunPC /\ pc[c] \in TailPC /\ pc[c] \notin ServePC
    BY <2>1 DEF RunPC, TailPC, ServePC
  <2>3. phaseBar = "ended"
    BY <1>1, <2>2, OwnerPhase
  <2>4. phaseBar' = "idle"
    BY <2>1 DEF phaseBar
  <2> QED
    BY <2>1, <2>3, <2>4 DEF Lifecycle!Next, Lifecycle!Release
<1> QED
  BY <1>2, <1>3, <1>4, <1>5

\* The other steps of a runner.
LEMMA QuietRefines ==
    ASSUME IInv, NEW c \in Runners,
           \/ Run(c) \/ Start(c) \/ reresolveCredentials(c) \/ WriteCreds(c)
           \/ ModelFailed(c) \/ BeginRefused(c) \/ SetPulling(c) \/ SetStarting(c)
           \/ command(c) \/ Interrupt(c) \/ ForceKill(c) \/ AwaitExit(c) \/ Settle(c)
           \/ CloseRan(c)
    PROVE  UNCHANGED Lifecycle!vars
<1>1. c \in Clients /\ TypeOK
  BY DEF Clients, IInv
<1>2. cur' = cur /\ nruns' = nruns /\ ctxDone' = ctxDone /\ live' = live
  BY DEF Run, Start, reresolveCredentials, WriteCreds, ModelFailed, BeginRefused, SetPulling,
         SetStarting, command, Interrupt, ForceKill, AwaitExit, Settle, CloseRan, runVars
<1>3. phaseBar' = phaseBar
  <2> USE DEF TailPC, ServePC
  <2>1. CASE Run(c) \/ Start(c) \/ reresolveCredentials(c)
    BY <1>1, <1>2, <2>1, SamePhase DEF Run, Start, reresolveCredentials
  <2>2. CASE WriteCreds(c) \/ SetPulling(c) \/ SetStarting(c) \/ command(c)
    BY <1>1, <1>2, <2>2, SamePhase DEF WriteCreds, SetPulling, SetStarting, command, callVars
  <2>3. CASE ModelFailed(c) \/ BeginRefused(c) \/ CloseRan(c)
    BY <1>1, <1>2, <2>3, SamePhase DEF ModelFailed, BeginRefused, CloseRan, RunReturns
  <2>4. CASE Interrupt(c) \/ ForceKill(c) \/ AwaitExit(c) \/ Settle(c)
    BY <1>1, <1>2, <2>4, SamePhase DEF Interrupt, ForceKill, AwaitExit, Settle, callVars
  <2> QED
    BY <2>1, <2>2, <2>3, <2>4
<1> QED
  BY <1>2, <1>3 DEF Lifecycle!vars

\* Every step of the agent is a step of AgentLifecycle, or changes nothing there.
LEMMA StepRefines ==
    IInv /\ IInv' /\ OwnInv /\ [Next]_vars => [Lifecycle!Next]_(Lifecycle!vars)
<1> SUFFICES ASSUME IInv, IInv', OwnInv, [Next]_vars
             PROVE  [Lifecycle!Next]_(Lifecycle!vars)
  OBVIOUS
<1>1. TypeOK /\ nruns \in Nat
  BY DEF IInv, TypeOK
<1>2. ASSUME NEW c \in Clients, NEW r \in 1 .. nruns, ctxDone' = ctxDone \cup {r},
             cur' = cur, nruns' = nruns, live' = live, run' = run,
             pc' = pc \/ (c \notin Runners /\ \E l : Goto(c, l))
      PROVE  Lifecycle!Next
  <2>1. phaseBar' = phaseBar
    BY <1>1, <1>2, SamePhase
  <2> QED
    BY <1>2, <2>1 DEF Lifecycle!Next, Lifecycle!Cancel
<1>3. ASSUME NEW c \in Runners, CallerCancels(c) PROVE Lifecycle!Next
  <2>1. /\ run[c] # 0 /\ ctxDone' = ctxDone \cup {run[c]} /\ pc' = pc /\ run' = run
        /\ cur' = cur /\ nruns' = nruns /\ live' = live
    BY <1>3 DEF CallerCancels, callVars
  <2>2. c \in Clients /\ run[c] \in Nat /\ run[c] <= nruns
    BY DEF Clients, IInv, TypeOK, OwnInv
  <2>3. PICK r \in 1 .. nruns : r = run[c]
    BY <1>1, <2>1, <2>2
  <2> QED
    BY <1>2, <2>1, <2>2, <2>3
<1>4. ASSUME NEW c \in Stoppers \cup Removers, StopCancel(c) PROVE Lifecycle!Next
  <2>1. /\ pc[c] = "cancel" /\ ctxDone' = ctxDone \cup {target[c]} /\ Goto(c, "wait")
        /\ run' = run /\ cur' = cur /\ nruns' = nruns /\ live' = live
    BY <1>4 DEF StopCancel, callVars
  <2>2. c \in Clients /\ c \notin Runners /\ target[c] \in Nat
    BY ClientsAssumption DEF Clients, IInv, TypeOK
  <2>3. target[c] # 0 /\ target[c] <= nruns
    BY <2>1 DEF OwnInv, IInv, StopInv
  <2>4. PICK r \in 1 .. nruns : r = target[c]
    BY <1>1, <2>2, <2>3
  <2> QED
    BY <1>2, <2>1, <2>2, <2>4
<1>5. ASSUME NEW c \in Clients, c \notin Runners,
             Prepare(c) \/ PrepareStep(c) \/ Stop(c) \/ StopRan(c) \/ StopCtx(c) \/ RemoveStep(c)
      PROVE  UNCHANGED Lifecycle!vars
  <2>1. cur' = cur /\ nruns' = nruns /\ ctxDone' = ctxDone /\ live' = live /\ run' = run
    BY <1>5 DEF Prepare, PrepareStep, initialize, Materialize, MaterializeFails, Publish,
                PrepareFailed, PrepareSetFailure, Stop, StopRan, StopCtx, RemoveStep,
                SetRemoving, RemoveAll, SetRemoved, runVars, callVars
  <2>2. \E l : Goto(c, l)
    BY <1>5 DEF Prepare, PrepareStep, initialize, Materialize, MaterializeFails, Publish,
                PrepareFailed, PrepareSetFailure, PrepareReturns, Stop, StopRan, StopCtx,
                StopReturns, RemoveStep, SetRemoving, RemoveAll, SetRemoved
  <2>3. phaseBar' = phaseBar
    BY <1>1, <1>5, <2>1, <2>2, SamePhase
  <2> QED
    BY <2>1, <2>3 DEF Lifecycle!vars
<1>6. CASE SetAgentToken \/ EditProviders \/ Supervisor \/ UNCHANGED vars
  <2>1. /\ cur' = cur /\ nruns' = nruns /\ ctxDone' = ctxDone /\ live' = live /\ run' = run
        /\ pc' = pc
    BY <1>6 DEF SetAgentToken, EditProviders, Supervisor, vars, runVars, callVars
  <2>2. phaseBar' = phaseBar
    BY <2>1 DEF phaseBar
  <2> QED
    BY <2>1, <2>2 DEF Lifecycle!vars
<1>7. ASSUME NEW c \in Runners, Run(c) \/ Start(c) \/ RunStep(c) \/ ProcessExit(c)
      PROVE  [Lifecycle!Next]_(Lifecycle!vars)
  BY <1>7, PrepareRefines, SlotRefines, QuietRefines DEF RunStep
<1>8. \A c \in Preparers \cup Stoppers \cup Removers : c \in Clients /\ c \notin Runners
  BY ClientsAssumption DEF Clients
<1> QED
  BY <1>3, <1>4, <1>5, <1>6, <1>7, <1>8 DEF Next, StopStep

\* The system agent implements AgentLifecycle: one run in the slot, at most one
\* process under it, and the slot given back only when that process is gone.
THEOREM Refinement == Spec => ImplementsSafety
<1>1. Init => Lifecycle!Init
  BY DEF Init, Lifecycle!Init, phaseBar
<1>2. Spec => []OwnInv
  <2>1. IInv /\ OwnInv /\ [Next]_vars => OwnInv'
    BY NextOwn DEF IInv
  <2> QED
    BY <2>1, InitOwn, Invariance, PTL DEF Spec
<1> QED
  BY <1>1, <1>2, StepRefines, Invariance, PTL DEF Spec, Lifecycle!Safety, ImplementsSafety

-----------------------------------------------------------------------------
(* What a process is spawned with.                                            *)

SpawnedPC == ServePC \cup {"spawn"}
InitializePC == {"begin", "pulling", "initialize", "materialize", "publish", "failed", "setFailure"}

\* The token only grows, and command reads it after the call has begun.
TokenOf(c) ==
    /\ want[c].token <= token
    /\ pc[c] \in SpawnedPC => want[c].token <= env[c].token

\* Once Start has written what it resolved, or has found no descriptor to write
\* to, the descriptor that the run spawns from is as new as the call.
CredOf(c) ==
    /\ want[c].cred <= provVer
    /\ pc[c] \in {"writeCreds", "publish"} => want[c].cred <= mat[c].cred
    /\ pc[c] \in InitializePC => rt = 0 \/ want[c].cred <= cred
    /\ pc[c] \in {"starting", "command"} => want[c].cred <= cred
    /\ pc[c] \in SpawnedPC => want[c].cred <= env[c].cred

\* Run has set starting and not settled yet: nobody else writes stopped.
StatusOf(c) == pc[c] \in SpawnedPC \cup {"command"} => status # "stopped"

TokenInv == \A c \in Runners : TokenOf(c)
CredInv == \A c \in Runners : CredOf(c)
StatusInv == \A c \in Runners : StatusOf(c)

\* One goroutine makes all the calls of Run and Start.
OneAtATime == \A c, d \in Runners : c = d

\* A step that leaves the call of c alone.
SameCall(c) == pc'[c] = pc[c] /\ want'[c] = want[c] /\ mat'[c] = mat[c] /\ env'[c] = env[c]

\* A client writes its own entries only.
LEMMA OwnEntries ==
    ASSUME TypeOK, NEW c \in Runners, NEW d \in Clients, d # c,
           \/ Run(d) \/ Start(d) \/ RunStep(d) \/ Prepare(d) \/ PrepareStep(d)
           \/ Stop(d) \/ StopStep(d) \/ StopCtx(d) \/ RemoveStep(d)
           \/ ProcessExit(d) \/ CallerCancels(d)
    PROVE  SameCall(c) /\ token' = token /\ provVer' = provVer
<1>1. c \in Clients
  BY DEF Clients
<1> USE DEF Run, Start, RunStep, Prepare, PrepareStep, Stop, StopStep, StopCtx, RemoveStep, ProcessExit,
            CallerCancels, reresolveCredentials, WriteCreds, ModelFailed, beginRun, TakeSlot, BeginRefused,
            SetPulling, SetStarting, command, Spawn, Interrupt, ForceKill, AwaitExit, endRun, Settle, CloseRan,
            initialize, Materialize, MaterializeFails, Publish, PrepareFailed, PrepareSetFailure,
            StopCancel, StopRan, SetRemoving, RemoveAll, SetRemoved, RunReturns, cfgVars, callVars
<1>2. token' = token /\ provVer' = provVer
  OBVIOUS
<1>3. pc' = pc \/ \E l : pc' = [pc EXCEPT ![d] = l]
  BY DEF Goto, PrepareReturns, StopReturns
<1>4. want' = want \/ \E v : want' = [want EXCEPT ![d] = v]
  OBVIOUS
<1>5. mat' = mat \/ \E v : mat' = [mat EXCEPT ![d] = v]
  BY DEF PrepareReturns
<1>6. env' = env \/ \E v : env' = [env EXCEPT ![d] = v]
  OBVIOUS
<1>7. SameCall(c)
  BY ONLY TypeOK, d # c, <1>1, <1>3, <1>4, <1>5, <1>6 DEF SameCall, TypeOK
<1> QED
  BY <1>2, <1>7

\* What any step does to the call of a runner: a step of that call, or nothing.
LEMMA OwnCall ==
    ASSUME TypeOK, NEW c \in Runners, [Next]_vars
    PROVE  \/ Run(c) \/ Start(c) \/ RunStep(c)
           \/ SameCall(c) /\ token <= token' /\ provVer <= provVer'
<1>1. token \in Nat /\ provVer \in Nat
  BY DEF TypeOK
<1>2. CASE SetAgentToken \/ EditProviders \/ Supervisor \/ UNCHANGED vars
  <2>1. token' \in {token, token + 1} /\ provVer' \in {provVer, provVer + 1}
    BY <1>2 DEF SetAgentToken, EditProviders, Supervisor, vars, cfgVars
  <2>2. SameCall(c)
    BY <1>2 DEF SetAgentToken, EditProviders, Supervisor, vars, callVars, SameCall
  <2> QED
    BY <1>1, <2>1, <2>2
<1>3. CASE ProcessExit(c) \/ CallerCancels(c)
  <2>1. SameCall(c) /\ token' = token /\ provVer' = provVer
    BY <1>3 DEF ProcessExit, CallerCancels, callVars, cfgVars, SameCall
  <2> QED
    BY <1>1, <2>1
<1>4. ASSUME NEW d \in Clients, d # c,
             \/ Run(d) \/ Start(d) \/ RunStep(d) \/ Prepare(d) \/ PrepareStep(d)
             \/ Stop(d) \/ StopStep(d) \/ StopCtx(d) \/ RemoveStep(d)
             \/ ProcessExit(d) \/ CallerCancels(d)
      PROVE  SameCall(c) /\ token <= token' /\ provVer <= provVer'
  <2>1. SameCall(c) /\ token' = token /\ provVer' = provVer
    BY <1>4, OwnEntries
  <2> QED
    BY <1>1, <2>1
<1>5. \A d \in Preparers \cup Stoppers \cup Removers : d \in Clients /\ d # c
  BY ClientsAssumption DEF Clients
<1>6. \A d \in Runners : d \in Clients
  BY DEF Clients
<1>7. CASE \E d \in Preparers : Prepare(d) \/ PrepareStep(d)
  BY <1>4, <1>5, <1>7
<1>8. CASE \E d \in Stoppers \cup Removers : Stop(d) \/ StopStep(d) \/ StopCtx(d) \/ RemoveStep(d)
  BY <1>4, <1>5, <1>8
<1>9. CASE \E d \in Runners : Run(d) \/ Start(d) \/ RunStep(d) \/ ProcessExit(d) \/ CallerCancels(d)
  BY <1>3, <1>4, <1>6, <1>9
<1> QED
  BY <1>2, <1>7, <1>8, <1>9 DEF Next
\* The steps of a call keep what is known of its token.
LEMMA OwnToken ==
    ASSUME TypeOK, NEW c \in Runners, TokenOf(c), Run(c) \/ Start(c) \/ RunStep(c)
    PROVE  TokenOf(c)'
<1>1. /\ c \in Clients /\ token \in Nat /\ want[c].token \in Nat
      /\ pc \in [Clients -> PC] /\ DOMAIN want = Clients /\ DOMAIN env = Clients
  BY DEF TypeOK, Clients
<1> USE <1>1 DEF TokenOf, SpawnedPC, ServePC, Goto
<1>2. CASE Run(c) \/ Start(c)
  <2>1. want'[c].token = token /\ token' = token /\ pc'[c] \in {"begin", "resolve"}
    BY <1>2 DEF Run, Start, cfgVars
  <2> QED
    BY <2>1
<1>3. CASE command(c)
  <2>1. env'[c].token = token /\ token' = token /\ want' = want
    BY <1>3 DEF command, cfgVars
  <2> QED
    BY <2>1
<1>4. CASE ModelFailed(c) \/ BeginRefused(c) \/ CloseRan(c)
  <2>1. want'[c] = NoEnv /\ token' = token /\ pc'[c] = "idle"
    BY <1>4 DEF ModelFailed, BeginRefused, CloseRan, RunReturns, cfgVars
  <2> QED
    BY <2>1 DEF NoEnv
<1>5. CASE Spawn(c) \/ Interrupt(c) \/ ForceKill(c) \/ AwaitExit(c)
  <2>1. /\ UNCHANGED <<want, env, token>>
        /\ pc'[c] \in SpawnedPC => pc[c] \in SpawnedPC
    BY <1>5 DEF Spawn, Interrupt, ForceKill, AwaitExit, cfgVars, callVars
  <2> QED
    BY <2>1
<1>6. CASE \/ reresolveCredentials(c) \/ WriteCreds(c) \/ beginRun(c) \/ SetPulling(c) \/ SetStarting(c)
           \/ endRun(c) \/ Settle(c)
  <2>1. UNCHANGED <<want, token>> /\ pc'[c] \notin SpawnedPC
    BY <1>6 DEF reresolveCredentials, WriteCreds, beginRun, TakeSlot, SetPulling, SetStarting, endRun, Settle,
                cfgVars, callVars
  <2> QED
    BY <2>1
<1>7. CASE PrepareStep(c)
  <2>1. UNCHANGED <<want, token>> /\ pc'[c] \notin SpawnedPC
    BY <1>7 DEF PrepareStep, initialize, Materialize, MaterializeFails, Publish, PrepareFailed, PrepareSetFailure,
                PrepareReturns, cfgVars
  <2> QED
    BY <2>1
<1> QED
  BY <1>2, <1>3, <1>4, <1>5, <1>6, <1>7 DEF RunStep

\* A process is spawned with the token of its call or a newer one.
TokenIsFresh == \A c \in Runners : pc[c] \in SpawnedPC => env[c].token >= want[c].token

\* SetAgentToken is picked up by the next command, however many calls of Run,
\* Start, Prepare, Stop and Remove overlap: the token that a process is spawned
\* with is never older than the one its Run or Start found.
THEOREM TokenIsFreshHolds == Spec => []TokenIsFresh
<1>1. Init => TokenInv
  BY DEF Init, TokenInv, TokenOf, SpawnedPC, ServePC, Clients, NoEnv
<1>2. IInv /\ TokenInv /\ [Next]_vars => TokenInv'
  <2> SUFFICES ASSUME TypeOK, TokenInv, [Next]_vars, NEW c \in Runners PROVE TokenOf(c)'
    BY DEF TokenInv, IInv
  <2>1. TokenOf(c)
    BY DEF TokenInv
  <2>2. CASE Run(c) \/ Start(c) \/ RunStep(c)
    BY <2>1, <2>2, OwnToken
  <2>3. CASE SameCall(c) /\ token <= token'
    <3>1. token \in Nat /\ token' \in Nat /\ want[c].token \in Nat
      BY NextType DEF TypeOK, Clients
    <3> QED
      BY <2>1, <2>3, <3>1 DEF TokenOf, SameCall
  <2> QED
    BY <2>2, <2>3, OwnCall
<1>3. IInv /\ TokenInv => TokenIsFresh
  <2> SUFFICES ASSUME TypeOK, TokenInv, NEW c \in Runners, pc[c] \in SpawnedPC
               PROVE  env[c].token >= want[c].token
    BY DEF TokenIsFresh, IInv
  <2>1. env[c].token \in Nat /\ want[c].token \in Nat /\ want[c].token <= env[c].token
    BY DEF TypeOK, Clients, TokenInv, TokenOf
  <2> QED
    BY <2>1
<1> QED
  BY <1>1, <1>2, <1>3, Invariance, PTL DEF Spec
\* The steps of a call keep what is known of its credentials.
LEMMA OwnCred ==
    ASSUME TypeOK, NEW c \in Runners, CredOf(c), Run(c) \/ Start(c) \/ RunStep(c)
    PROVE  CredOf(c)'
<1>1. /\ c \in Clients /\ c \notin Preparers
      /\ cred \in Nat /\ provVer \in Nat /\ want[c].cred \in Nat /\ mat[c].cred \in Nat
      /\ pc \in [Clients -> PC] /\ DOMAIN want = Clients /\ DOMAIN env = Clients /\ DOMAIN mat = Clients
      /\ err[c] # "nil"
  BY ClientsAssumption DEF TypeOK, Clients, Errors
<1> USE <1>1 DEF CredOf, SpawnedPC, ServePC, InitializePC, Goto
<1>2. CASE Run(c)
  <2>1. want'[c].cred = 0 /\ pc'[c] = "begin" /\ UNCHANGED <<rt, cred, provVer>>
    BY <1>2 DEF Run, cfgVars
  <2> QED
    BY <2>1
<1>3. CASE Start(c)
  <2>1. want'[c].cred = provVer /\ pc'[c] = "resolve" /\ UNCHANGED <<rt, cred, provVer>>
    BY <1>3 DEF Start, cfgVars
  <2> QED
    BY <2>1
<1>4. CASE reresolveCredentials(c)
  <2>1. UNCHANGED <<rt, cred, provVer, want>>
    BY <1>4 DEF reresolveCredentials, cfgVars
  <2>2. \/ rt = 0 /\ pc'[c] = "begin"
        \/ pc'[c] = "writeCreds" /\ mat'[c].cred = provVer
        \/ pc'[c] = "modelFailed"
    BY <1>4 DEF reresolveCredentials
  <2> QED
    BY <2>1, <2>2
<1>5. CASE WriteCreds(c)
  <2>1. pc[c] = "writeCreds" /\ pc'[c] = "begin" /\ cred' = mat[c].cred /\ UNCHANGED <<rt, provVer, want>>
    BY <1>5 DEF WriteCreds, callVars
  <2> QED
    BY <2>1
<1>6. CASE ModelFailed(c) \/ BeginRefused(c) \/ CloseRan(c)
  <2>1. want'[c].cred = 0 /\ pc'[c] = "idle" /\ UNCHANGED <<rt, cred, provVer>>
    BY <1>6 DEF ModelFailed, BeginRefused, CloseRan, RunReturns, NoEnv, cfgVars
  <2> QED
    BY <2>1
<1>7. CASE beginRun(c) \/ SetPulling(c)
  <2>1. /\ pc[c] \in InitializePC /\ pc'[c] \in {"pulling", "initialize"}
        /\ UNCHANGED <<rt, cred, provVer, want>>
    BY <1>7 DEF beginRun, TakeSlot, SetPulling, cfgVars, callVars
  <2> QED
    BY <2>1
<1>8. CASE initialize(c)
  <2>1. UNCHANGED <<rt, cred, provVer, want>> /\ pc[c] = "initialize"
    BY <1>8 DEF initialize, cfgVars
  <2>2. CASE rt # 0 /\ PrepareReturns(c, "nil")
    <3>1. pc'[c] = "starting"
      BY <2>2 DEF PrepareReturns
    <3> QED
      BY <2>1, <2>2, <3>1
  <2>3. CASE rt = 0 /\ Goto(c, "materialize")
    BY <2>1, <2>3
  <2> QED
    BY <1>8, <2>2, <2>3 DEF initialize
<1>9. CASE Materialize(c)
  <2>1. /\ UNCHANGED <<rt, cred, provVer, want>> /\ pc[c] = "materialize"
        /\ pc'[c] = "publish" /\ mat'[c].cred = provVer
    BY <1>9 DEF Materialize
  <2> QED
    BY <2>1
<1>10. CASE Publish(c)
  <2>1. UNCHANGED <<provVer, want>> /\ pc[c] = "publish" /\ pc'[c] = "starting"
    BY <1>10 DEF Publish, PrepareReturns
  <2>2. CASE rt = 0
    <3>1. cred' = mat[c].cred
      BY <1>10, <2>2 DEF Publish
    <3> QED
      BY <2>1, <3>1
  <2>3. CASE rt # 0
    <3>1. cred' = cred
      BY <1>10, <2>3 DEF Publish
    <3> QED
      BY <2>1, <2>3, <3>1
  <2> QED
    BY <2>2, <2>3
<1>11. CASE MaterializeFails(c) \/ PrepareFailed(c) \/ PrepareSetFailure(c)
  <2>1. /\ UNCHANGED <<rt, cred, provVer, want>> /\ pc[c] \in InitializePC
        /\ pc'[c] \in {"failed", "setFailure", "endRun"}
    BY <1>11 DEF MaterializeFails, PrepareFailed, PrepareSetFailure, PrepareReturns, cfgVars
  <2> QED
    BY <2>1
<1>12. CASE SetStarting(c)
  <2>1. pc[c] = "starting" /\ pc'[c] = "command" /\ UNCHANGED <<rt, cred, provVer, want>>
    BY <1>12 DEF SetStarting, cfgVars, callVars
  <2> QED
    BY <2>1
<1>13. CASE command(c)
  <2>1. /\ pc[c] = "command" /\ pc'[c] = "spawn" /\ env'[c].cred = cred
        /\ UNCHANGED <<rt, cred, provVer, want>>
    BY <1>13 DEF command, cfgVars
  <2> QED
    BY <2>1
<1>14. CASE Spawn(c) \/ Interrupt(c) \/ ForceKill(c) \/ AwaitExit(c)
  <2>1. /\ pc[c] \in SpawnedPC /\ pc'[c] \in SpawnedPC \cup {"endRun"}
        /\ UNCHANGED <<rt, cred, provVer, want, env>>
    BY <1>14 DEF Spawn, Interrupt, ForceKill, AwaitExit, cfgVars, callVars
  <2> QED
    BY <2>1
<1>15. CASE endRun(c) \/ Settle(c)
  <2>1. pc'[c] \in {"settle", "closeRan"} /\ UNCHANGED <<rt, cred, provVer, want>>
    BY <1>15 DEF endRun, Settle, cfgVars, callVars
  <2> QED
    BY <2>1
<1> QED
  BY <1>2, <1>3, <1>4, <1>5, <1>6, <1>7, <1>8, <1>9, <1>10, <1>11, <1>12, <1>13, <1>14, <1>15
     DEF RunStep, PrepareStep

\* Nobody writes the descriptor's credentials but a runner and a preparer.
LEMMA DescriptorWriters ==
    ASSUME [Next]_vars, Preparers = {}, \A d \in Runners : ~RunStep(d)
    PROVE  UNCHANGED <<rt, cred>>
BY DEF Next, Run, Start, ProcessExit, CallerCancels, Stop, StopStep, StopCancel, StopRan, StopCtx, RemoveStep,
       SetRemoving, RemoveAll, SetRemoved, SetAgentToken, EditProviders, Supervisor, vars, cfgVars

\* A restart picks up providers.yaml: when the calls of Run and Start come one
\* after the other and nobody calls Prepare beside them, the process that a Start
\* spawns has the credentials that providers.yaml held when it was called, or
\* later ones, and the token of then or a later one; whatever is stopped, removed
\* or edited meanwhile. (Overlapping calls write the one descriptor in any order.)
THEOREM SpawnsFreshHolds ==
    ASSUME OneAtATime, Preparers = {} PROVE Spec => []SpawnsFresh
<1>1. Init => CredInv
  BY DEF Init, CredInv, CredOf, SpawnedPC, ServePC, InitializePC, Clients, NoEnv
<1>2. IInv /\ CredInv /\ [Next]_vars => CredInv'
  <2> SUFFICES ASSUME TypeOK, CredInv, [Next]_vars, NEW c \in Runners PROVE CredOf(c)'
    BY DEF CredInv, IInv
  <2>1. CredOf(c)
    BY DEF CredInv
  <2>2. CASE Run(c) \/ Start(c) \/ RunStep(c)
    BY <2>1, <2>2, OwnCred
  <2>3. CASE SameCall(c) /\ provVer <= provVer' /\ ~RunStep(c)
    <3>1. UNCHANGED <<rt, cred>>
      BY <2>3, DescriptorWriters DEF OneAtATime
    <3>2. provVer \in Nat /\ provVer' \in Nat /\ want[c].cred \in Nat
      BY NextType DEF TypeOK, Clients
    <3> QED
      BY <2>1, <2>3, <3>1, <3>2 DEF CredOf, SameCall
  <2> QED
    BY <2>2, <2>3, OwnCall
<1>3. IInv /\ CredInv /\ TokenIsFresh => SpawnsFresh
  <2> SUFFICES ASSUME TypeOK, CredInv, TokenIsFresh, NEW c \in Runners, pc[c] \in SpawnedPC
               PROVE  env[c].cred >= want[c].cred /\ env[c].token >= want[c].token
    BY DEF SpawnsFresh, IInv, SpawnedPC
  <2>1. env[c].cred \in Nat /\ want[c].cred \in Nat /\ want[c].cred <= env[c].cred
    BY DEF TypeOK, Clients, CredInv, CredOf
  <2> QED
    BY <2>1 DEF TokenIsFresh
<1> QED
  BY <1>1, <1>2, <1>3, Invariance, TokenIsFreshHolds, PTL DEF Spec

-----------------------------------------------------------------------------
(* The status of an agent that has a process.                                 *)

\* endRun's settling is the one write of stopped.
LEMMA OnlySettleStops ==
    ASSUME [Next]_vars, status # "stopped", \A d \in Runners : ~Settle(d)
    PROVE  status' # "stopped"
<1> USE DEF statusVars, Set, SetFailure, setLocked
<1>1. ASSUME NEW c, PrepareStep(c) PROVE status' # "stopped"
  BY <1>1 DEF PrepareStep, initialize, Materialize, MaterializeFails, Publish, PrepareFailed, PrepareSetFailure
<1>2. ASSUME NEW c \in Runners, Run(c) \/ Start(c) \/ RunStep(c) \/ ProcessExit(c) \/ CallerCancels(c)
      PROVE  status' # "stopped"
  BY <1>1, <1>2
     DEF Run, Start, RunStep, ProcessExit, CallerCancels, reresolveCredentials, WriteCreds, ModelFailed, beginRun,
         TakeSlot, BeginRefused, SetPulling, SetStarting, command, Spawn, Interrupt, ForceKill, AwaitExit, endRun,
         CloseRan
<1>3. ASSUME NEW c, Prepare(c) \/ Stop(c) \/ StopStep(c) \/ StopCtx(c) \/ RemoveStep(c)
      PROVE  status' # "stopped"
  BY <1>3 DEF Prepare, Stop, StopStep, StopCancel, StopRan, StopCtx, RemoveStep, SetRemoving, RemoveAll, SetRemoved
<1>4. CASE SetAgentToken \/ EditProviders \/ Supervisor \/ UNCHANGED vars
  BY <1>4 DEF SetAgentToken, EditProviders, Supervisor, vars
<1> QED
  BY <1>1, <1>2, <1>3, <1>4 DEF Next

\* Between starting and endRun the status of the run's agent is not stopped.
LEMMA OwnStatus ==
    ASSUME TypeOK, OneAtATime, NEW c \in Runners, StatusOf(c), [Next]_vars
    PROVE  StatusOf(c)'
<1>1. c \in Clients /\ pc \in [Clients -> PC]
  BY DEF TypeOK, Clients
<1> USE <1>1 DEF StatusOf, SpawnedPC, ServePC, Goto
<1>2. CASE Settle(c)
  BY <1>2 DEF Settle
<1>3. CASE SetStarting(c)
  BY <1>3 DEF SetStarting, Set, setLocked
<1>4. CASE ~Settle(c) /\ ~SetStarting(c)
  <2>1. status # "stopped" => status' # "stopped"
    BY <1>4, OnlySettleStops DEF OneAtATime
  <2>2. CASE PrepareStep(c)
    BY <2>2 DEF PrepareStep, initialize, Materialize, MaterializeFails, Publish, PrepareFailed, PrepareSetFailure,
                PrepareReturns
  <2>3. CASE SameCall(c)
    BY <2>1, <2>3 DEF SameCall
  <2>4. CASE \/ Run(c) \/ Start(c) \/ reresolveCredentials(c) \/ WriteCreds(c) \/ ModelFailed(c) \/ beginRun(c)
             \/ BeginRefused(c) \/ SetPulling(c) \/ endRun(c) \/ CloseRan(c)
    BY <2>4 DEF Run, Start, reresolveCredentials, WriteCreds, ModelFailed, beginRun, TakeSlot, BeginRefused,
                SetPulling, endRun, CloseRan, RunReturns
  <2>5. CASE command(c) \/ Spawn(c) \/ Interrupt(c) \/ ForceKill(c) \/ AwaitExit(c)
    <3>1. pc[c] \in SpawnedPC \cup {"command"}
      BY <2>5 DEF command, Spawn, Interrupt, ForceKill, AwaitExit
    <3> QED
      BY <2>1, <3>1
  <2> QED
    BY <1>4, <2>2, <2>3, <2>4, <2>5, OwnCall DEF RunStep
<1> QED
  BY <1>2, <1>3, <1>4

\* An agent that reports stopped has no running process, when the calls of Run
\* and Start come one after the other, whoever calls Prepare, Stop and Remove
\* beside them. (With overlapping calls the settling of one run is late enough
\* to cover the process of the next: run system_overlap.)
THEOREM StoppedHasNoProcessHolds ==
    ASSUME OneAtATime PROVE Spec => []StoppedHasNoProcess
<1>1. Init => StatusInv
  BY DEF Init, NewStatusTracker, StatusInv, StatusOf
<1>2. IInv /\ StatusInv /\ [Next]_vars => StatusInv'
  BY OwnStatus DEF StatusInv, IInv
<1>3. IInv /\ StatusInv => StoppedHasNoProcess
  <2> SUFFICES ASSUME IInv, StatusInv, NEW r \in live PROVE status # "stopped"
    BY DEF StoppedHasNoProcess
  <2>1. PICK c \in Runners : pc[c] \in ServePC
    BY DEF IInv, RunInv
  <2> QED
    BY <2>1 DEF StatusInv, StatusOf, SpawnedPC
<1> QED
  BY <1>1, <1>2, <1>3, Invariance, PTL DEF Spec
=============================================================================
