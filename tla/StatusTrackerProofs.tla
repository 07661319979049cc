------------------------ MODULE StatusTrackerProofs ------------------------
(* The safety properties of StatusTracker, for any number of subscriptions,   *)
(* any buffer size and any number of transitions.                             *)
EXTENDS StatusTracker, TLAPS

\* The cancel function of a subscribed channel has not run, a channel is
\* closed by the first call only, and a call of WaitForStatus stays subscribed
\* until its deferred cancel.
Subscribed(w) ==
    /\ w \in subs => calls[w] = 0
    /\ calls[w] = 0 => closes[w] = 0
    /\ closes[w] <= 1
    /\ pc[w] = "idle" => w \notin subs /\ calls[w] = 0 /\ chan[w] = <<>> /\ ~lost[w]
    /\ w \in Waiters /\ pc[w] \in {"subscribed", "select", "cancel"} => w \in subs

\* What a subscriber can still read, or reads from Get, the cell really held.
Held(w) ==
    /\ w \in subs => status \in reached[w]
    /\ \A i \in 1 .. Len(chan[w]) : chan[w][i] \in reached[w]

\* The inductive invariant.
IInv ==
    /\ TypeOK
    /\ \A w \in Subscriptions : Subscribed(w)
    /\ \A w \in Subscriptions : Held(w)
    /\ DrainsToCurrent
    /\ NoLostWakeup
    /\ ReturnsReachedTarget

\* What a status write does to the cell.
LEMMA WriteCell ==
    ASSUME NEW s \in Status, NEW r \in FailureReason, setLocked(s, r)
    PROVE  status' = s /\ status' \in Status /\ failure' \in FailureReason
BY DEF setLocked, FailureReason

\* The initial states satisfy the invariant: the tracker of NewStatusTracker
\* has no subscriber.
LEMMA InitIInv == Init => IInv
BY ConstantsAssumption
   DEF Init, IInv, TypeOK, StatusTypeOK, NewStatusTracker, Status, FailureReason,
       Subscriptions, PC, Results, Subscribed, Held, DrainsToCurrent,
       NoLostWakeup, ReturnsReachedTarget

\* An effective write keeps the invariant: each subscribed channel gets the new
\* status as its last element, or is marked lost.
LEMMA WriteIInv ==
    ASSUME IInv, NEW s \in Status, NEW r \in FailureReason,
           setLocked(s, r), Write(s)
    PROVE  IInv'
<1> USE ConstantsAssumption
<1>1. status' = s /\ StatusTypeOK'
  BY WriteCell DEF StatusTypeOK
<1>2. /\ subs' = subs /\ closes' = closes /\ calls' = calls
      /\ pc' = pc /\ target' = target /\ ctxDone' = ctxDone /\ result' = result
      /\ writes' = writes + 1 /\ writes < MaxTransitions
  BY DEF Write, waitVars
<1>3. \A w \in Subscriptions :
        /\ chan'[w] = IF w \in subs /\ ~Full(w) THEN Append(chan[w], s) ELSE chan[w]
        /\ lost'[w] = IF w \in subs THEN Full(w) ELSE lost[w]
        /\ reached'[w] = IF w \in subs THEN reached[w] \cup {s} ELSE reached[w]
  BY DEF Write, Broadcast
<1>4. \A w \in Subscriptions : chan[w] \in Seq(Status) /\ Len(chan[w]) <= ChanSize
  BY DEF IInv, TypeOK
<1>5. TypeOK'
  <2>1. chan' \in [Subscriptions -> Seq(Status)]
    BY <1>4 DEF Write, Broadcast
  <2>2. \A w \in Subscriptions : Len(chan'[w]) <= ChanSize
    <3> SUFFICES ASSUME NEW w \in Subscriptions PROVE Len(chan'[w]) <= ChanSize
      OBVIOUS
    <3>1. Len(chan[w]) \in Nat /\ ChanSize \in Nat
      BY <1>4
    <3>2. CASE w \in subs /\ ~Full(w)
      <4>1. chan'[w] = Append(chan[w], s)
        BY <1>3, <3>2
      <4>2. Len(chan'[w]) = Len(chan[w]) + 1
        BY <1>4, <4>1
      <4> QED
        BY <1>4, <3>1, <3>2, <4>2 DEF Full
    <3>3. CASE ~(w \in subs /\ ~Full(w))
      BY <1>3, <1>4, <3>3
    <3> QED
      BY <3>2, <3>3
  <2>3. lost' \in [Subscriptions -> BOOLEAN]
    BY DEF Write, Broadcast, Full, IInv, TypeOK
  <2>4. reached' \in [Subscriptions -> SUBSET Status]
    BY DEF Write, Broadcast, IInv, TypeOK
  <2>5. writes' \in 0 .. MaxTransitions
    BY <1>2 DEF IInv, TypeOK
  <2> QED
    BY <1>1, <1>2, <2>1, <2>2, <2>3, <2>4, <2>5 DEF IInv, TypeOK
<1>6. \A w \in Subscriptions : Subscribed(w)'
  BY <1>2, <1>3 DEF IInv, Subscribed
<1>7. \A w \in Subscriptions : Held(w)'
  <2> SUFFICES ASSUME NEW w \in Subscriptions PROVE Held(w)'
    OBVIOUS
  <2>1. w \in subs' => status' \in reached'[w]
    BY <1>1, <1>2, <1>3
  <2>2. \A i \in 1 .. Len(chan'[w]) : chan'[w][i] \in reached'[w]
    <3>1. CASE w \in subs /\ ~Full(w)
      <4>1. chan'[w] = Append(chan[w], s) /\ reached'[w] = reached[w] \cup {s}
        BY <1>3, <3>1
      <4>2. \A i \in 1 .. Len(chan[w]) : chan[w][i] \in reached[w]
        BY DEF IInv, Held
      <4> QED
        BY <1>4, <4>1, <4>2
    <3>2. CASE ~(w \in subs /\ ~Full(w))
      <4>1. chan'[w] = chan[w] /\ reached[w] \subseteq reached'[w]
        BY <1>3, <3>2
      <4>2. \A i \in 1 .. Len(chan[w]) : chan[w][i] \in reached[w]
        BY DEF IInv, Held
      <4> QED
        BY <4>1, <4>2
    <3> QED
      BY <3>1, <3>2
  <2> QED
    BY <2>1, <2>2 DEF Held
<1>8. DrainsToCurrent'
  <2> SUFFICES ASSUME NEW w \in Subscriptions, w \in subs', ~lost'[w]
               PROVE  chan'[w][Len(chan'[w])] = status'
    BY DEF DrainsToCurrent
  <2>1. chan'[w] = Append(chan[w], s)
    BY <1>2, <1>3
  <2> QED
    BY <1>1, <1>4, <2>1
<1>9. NoLostWakeup'
  <2> SUFFICES ASSUME NEW w \in Waiters, pc'[w] = "select", ~lost'[w]
               PROVE  chan'[w] # <<>>
    BY DEF NoLostWakeup
  <2>1. w \in Subscriptions /\ w \in subs
    BY <1>2 DEF Subscriptions, IInv, Subscribed
  <2>2. chan'[w] = Append(chan[w], s)
    BY <1>3, <2>1
  <2> QED
    BY <1>4, <2>1, <2>2
<1>10. ReturnsReachedTarget'
  BY <1>2, <1>3 DEF IInv, ReturnsReachedTarget, Subscriptions
<1> QED
  BY <1>5, <1>6, <1>7, <1>8, <1>9, <1>10 DEF IInv

\* The cancel function keeps the invariant of the subscription it ends.
LEMMA CancelSubscribed ==
    ASSUME IInv, NEW w \in Subscriptions, Cancel(w), pc[w] # "idle",
           chan' = chan, lost' = lost,
           pc' = pc \/ pc' = [pc EXCEPT ![w] = "returned"],
           w \in Waiters => pc'[w] = "returned"
    PROVE  /\ \A v \in Subscriptions : Subscribed(v)'
           /\ subs' \subseteq subs
           /\ calls' \in [Subscriptions -> Nat]
           /\ closes' \in [Subscriptions -> Nat]
<1>1. /\ pc \in [Subscriptions -> PC]
      /\ calls \in [Subscriptions -> Nat] /\ closes \in [Subscriptions -> Nat]
  BY DEF IInv, TypeOK
<1>2. calls' = [calls EXCEPT ![w] = @ + 1]
  BY DEF Cancel
<1>3. CASE calls[w] = 0
  <2>1. subs' = subs \ {w} /\ closes' = [closes EXCEPT ![w] = @ + 1]
    BY <1>3 DEF Cancel
  <2>2. Subscribed(w)'
    BY <1>1, <1>2, <1>3, <2>1 DEF IInv, Subscribed
  <2>3. \A v \in Subscriptions \ {w} : Subscribed(v)'
    BY <1>1, <1>2, <2>1 DEF IInv, Subscribed
  <2> QED
    BY <1>1, <1>2, <2>1, <2>2, <2>3
<1>4. CASE calls[w] # 0
  <2>1. subs' = subs /\ closes' = closes
    BY <1>4 DEF Cancel
  <2>2. Subscribed(w)'
    BY <1>1, <1>2, <1>4, <2>1 DEF IInv, Subscribed
  <2>3. \A v \in Subscriptions \ {w} : Subscribed(v)'
    BY <1>1, <1>2, <2>1 DEF IInv, Subscribed
  <2> QED
    BY <1>1, <1>2, <2>1, <2>2, <2>3
<1> QED
  BY <1>3, <1>4

\* Subscribing starts with an empty channel and the status read under the lock.
LEMMA SubscribeIInv ==
    ASSUME IInv, NEW w \in Subscriptions, pc[w] = "idle", Subscribe(w),
           NEW p \in {"subscribed", "select"}, pc' = [pc EXCEPT ![w] = p],
           w \in Waiters => p = "subscribed",
           NEW t \in SUBSET Status, target' = target \/ target' = [target EXCEPT ![w] = t],
           ctxDone' = ctxDone, result' = result
    PROVE  IInv'
<1>1. /\ subs' = subs \cup {w} /\ reached' = [reached EXCEPT ![w] = {status}]
      /\ status' = status /\ failure' = failure /\ chan' = chan /\ closes' = closes
      /\ calls' = calls /\ writes' = writes /\ lost' = lost
  BY DEF Subscribe, statusVars
<1>2. TypeOK'
  BY <1>1 DEF IInv, TypeOK, StatusTypeOK, PC
<1>3. chan[w] = <<>> /\ ~lost[w] /\ calls[w] = 0
  BY DEF IInv, Subscribed
<1>4. \A v \in Subscriptions : Subscribed(v)'
  BY <1>1, <1>3 DEF IInv, TypeOK, Subscribed
<1>5. \A v \in Subscriptions : Held(v)'
  BY <1>1, <1>3 DEF IInv, TypeOK, StatusTypeOK, Held
<1>6. DrainsToCurrent'
  BY <1>1, <1>3 DEF IInv, DrainsToCurrent
<1>7. NoLostWakeup'
  BY <1>1 DEF IInv, TypeOK, NoLostWakeup, Subscriptions
<1>8. ReturnsReachedTarget'
  BY <1>1 DEF IInv, TypeOK, ReturnsReachedTarget, Subscriptions
<1> QED
  BY <1>2, <1>4, <1>5, <1>6, <1>7, <1>8 DEF IInv

\* What is left of a channel after a receive.
LEMMA ReceiveTail ==
    ASSUME NEW q \in Seq(Status), q # <<>>
    PROVE  /\ Head(q) \in Status /\ Head(q) = q[1] /\ Tail(q) \in Seq(Status)
           /\ Len(q) \in Nat \ {0} /\ Len(Tail(q)) = Len(q) - 1
           /\ \A i \in 1 .. Len(Tail(q)) : Tail(q)[i] = q[i + 1]
           /\ Tail(q) # <<>> => Tail(q)[Len(Tail(q))] = q[Len(q)]
           /\ Tail(q) = <<>> => Head(q) = q[Len(q)]
<1>1. /\ Head(q) \in Status /\ Head(q) = q[1] /\ Tail(q) \in Seq(Status)
      /\ Len(q) \in Nat \ {0} /\ Len(Tail(q)) = Len(q) - 1
      /\ \A i \in 1 .. Len(Tail(q)) : Tail(q)[i] = q[i + 1]
  OBVIOUS
<1>2. Tail(q) # <<>> => Tail(q)[Len(Tail(q))] = q[Len(q)]
  BY <1>1
<1>3. Tail(q) = <<>> => Head(q) = q[Len(q)]
  <2>1. \A e \in Seq(Status) : e = <<>> => Len(e) = 0
    OBVIOUS
  <2>2. Tail(q) = <<>> => Len(q) = 1
    BY <1>1, <2>1
  <2> QED
    BY <1>1, <2>2
<1> QED
  BY <1>1, <1>2, <1>3

\* A receive keeps the invariant: a waiter that goes on waiting on a drained
\* channel has just seen the current status and found it is no target.
LEMMA ReceiveIInv ==
    ASSUME IInv, NEW w \in Subscriptions, pc[w] = "select", chan[w] # <<>>,
           chan' = [chan EXCEPT ![w] = Tail(@)],
           \/ pc' = pc /\ result' = result
              /\ (w \in Waiters => Head(chan[w]) \notin target[w])
           \/ Head(chan[w]) \in target[w] /\ Return(w, Head(chan[w])),
           UNCHANGED <<statusVars, subs, closes, calls, target, ctxDone,
                       writes, lost, reached>>
    PROVE  IInv'
<1>1. /\ status' = status /\ failure' = failure /\ subs' = subs /\ closes' = closes
      /\ calls' = calls /\ target' = target /\ ctxDone' = ctxDone
      /\ writes' = writes /\ lost' = lost /\ reached' = reached
  BY DEF statusVars
<1>2. chan \in [Subscriptions -> Seq(Status)] /\ chan[w] \in Seq(Status)
  BY DEF IInv, TypeOK
<1> DEFINE q == chan[w]
<1>3. /\ Head(q) \in Status /\ Head(q) = q[1] /\ Tail(q) \in Seq(Status)
      /\ Len(q) \in Nat \ {0} /\ Len(Tail(q)) = Len(q) - 1
      /\ \A i \in 1 .. Len(Tail(q)) : Tail(q)[i] = q[i + 1]
      /\ Tail(q) # <<>> => Tail(q)[Len(Tail(q))] = q[Len(q)]
      /\ Tail(q) = <<>> => Head(q) = q[Len(q)]
  BY <1>2, ReceiveTail
<1>4. chan'[w] = Tail(q) /\ \A v \in Subscriptions \ {w} : chan'[v] = chan[v]
  BY <1>2
<1>5. /\ pc \in [Subscriptions -> PC] /\ result \in [Subscriptions -> Results]
      /\ \A v \in Subscriptions \ {w} : pc'[v] = pc[v] /\ result'[v] = result[v]
      /\ pc'[w] \in {"select", "cancel"}
      /\ pc'[w] = "cancel" => Head(q) \in target[w] /\ result'[w] = Head(q)
      /\ pc'[w] = "select" /\ w \in Waiters => Head(q) \notin target[w]
  BY DEF IInv, TypeOK, Return
<1>6. TypeOK'
  <2>1. chan' \in [Subscriptions -> Seq(Status)]
    BY <1>2, <1>3
  <2>2. \A v \in Subscriptions : Len(chan'[v]) <= ChanSize
    BY <1>3, <1>4, ConstantsAssumption DEF IInv, TypeOK
  <2>3. pc' \in [Subscriptions -> PC] /\ result' \in [Subscriptions -> Results]
    BY <1>3, <1>5 DEF Return, PC, Results
  <2> QED
    BY <1>1, <2>1, <2>2, <2>3 DEF IInv, TypeOK, StatusTypeOK
<1>7. \A v \in Subscriptions : Subscribed(v)'
  <2>1. Subscribed(w)'
    BY <1>1, <1>5 DEF IInv, Subscribed
  <2>2. \A v \in Subscriptions \ {w} : Subscribed(v)'
    BY <1>1, <1>4, <1>5 DEF IInv, Subscribed
  <2> QED
    BY <2>1, <2>2
<1>8. \A v \in Subscriptions : Held(v)'
  <2>1. Held(w)'
    BY <1>1, <1>3, <1>4 DEF IInv, Held
  <2>2. \A v \in Subscriptions \ {w} : Held(v)'
    BY <1>1, <1>4 DEF IInv, Held
  <2> QED
    BY <2>1, <2>2
<1>9. DrainsToCurrent'
  BY <1>1, <1>3, <1>4 DEF IInv, DrainsToCurrent
<1>10. NoLostWakeup'
  <2> SUFFICES ASSUME NEW v \in Waiters, pc'[v] = "select", ~lost'[v], chan'[v] = <<>>
               PROVE  status' \notin target'[v]
    BY DEF NoLostWakeup
  <2>1. v \in Subscriptions
    BY DEF Subscriptions
  <2>2. CASE v = w
    <3>1. w \in subs
      BY <2>2, <2>1 DEF IInv, Subscribed
    <3>2. q[Len(q)] = status
      BY <1>1, <2>2, <3>1 DEF IInv, DrainsToCurrent
    <3>3. Head(q) = status
      BY <1>3, <1>4, <2>2, <3>2
    <3> QED
      BY <1>1, <1>5, <2>2, <3>3
  <2>3. CASE v # w
    BY <1>1, <1>4, <1>5, <2>1, <2>3 DEF IInv, NoLostWakeup
  <2> QED
    BY <2>2, <2>3
<1>11. ReturnsReachedTarget'
  <2>1. Head(q) \in reached[w]
    BY <1>3 DEF IInv, Held
  <2> SUFFICES ASSUME NEW v \in Waiters, pc'[v] \in {"cancel", "returned"}
               PROVE  \/ result'[v] \in target'[v] \cap reached'[v]
                      \/ result'[v] = "ctx.Err" /\ v \in ctxDone'
    BY DEF ReturnsReachedTarget
  <2>2. CASE v = w
    BY <1>1, <1>5, <2>1, <2>2
  <2>3. CASE v # w
    BY <1>1, <1>5, <2>3 DEF IInv, ReturnsReachedTarget, Subscriptions
  <2> QED
    BY <2>2, <2>3
<1> QED
  BY <1>6, <1>7, <1>8, <1>9, <1>10, <1>11 DEF IInv

\* A call that leaves the loop without receiving keeps the invariant.
LEMMA ReturnIInv ==
    ASSUME IInv, NEW w \in Waiters, pc[w] \in {"subscribed", "select"},
           \/ status \in target[w] /\ Return(w, status)
           \/ w \in ctxDone /\ Return(w, "ctx.Err"),
           UNCHANGED <<statusVars, chanVars, target, ctxDone, writes, lost, reached>>
    PROVE  IInv'
<1>1. /\ status' = status /\ failure' = failure /\ subs' = subs /\ closes' = closes
      /\ calls' = calls /\ target' = target /\ ctxDone' = ctxDone /\ chan' = chan
      /\ writes' = writes /\ lost' = lost /\ reached' = reached
  BY DEF statusVars, chanVars
<1>2. w \in Subscriptions /\ w \in subs
  BY DEF Subscriptions, IInv, Subscribed
<1>3. /\ pc' = [pc EXCEPT ![w] = "cancel"] /\ result' \in [Subscriptions -> Results]
      /\ \A v \in Subscriptions \ {w} : result'[v] = result[v]
      /\ \/ result'[w] = status /\ status \in target[w]
         \/ result'[w] = "ctx.Err" /\ w \in ctxDone
      /\ pc \in [Subscriptions -> PC]
  BY <1>2 DEF Return, IInv, TypeOK, StatusTypeOK, Results
<1>4. TypeOK'
  BY <1>1, <1>3 DEF IInv, TypeOK, StatusTypeOK, PC
<1>5. \A v \in Subscriptions : Subscribed(v)'
  BY <1>1, <1>2, <1>3 DEF IInv, Subscribed
<1>6. (\A v \in Subscriptions : Held(v)') /\ DrainsToCurrent'
  BY <1>1 DEF IInv, Held, DrainsToCurrent
<1>7. NoLostWakeup'
  BY <1>1, <1>2, <1>3 DEF IInv, NoLostWakeup, Subscriptions
<1>8. ReturnsReachedTarget'
  <2>1. status \in reached[w]
    BY <1>2 DEF IInv, Held
  <2> QED
    BY <1>1, <1>2, <1>3, <2>1 DEF IInv, ReturnsReachedTarget, Subscriptions
<1> QED
  BY <1>4, <1>5, <1>6, <1>7, <1>8 DEF IInv

\* The cancel function, called by a watcher or deferred by WaitForStatus.
LEMMA CancelIInv ==
    ASSUME IInv, NEW w \in Subscriptions, Cancel(w), pc[w] # "idle",
           \/ w \in Watchers /\ pc' = pc
           \/ pc[w] = "cancel" /\ pc' = [pc EXCEPT ![w] = "returned"],
           UNCHANGED <<statusVars, chan, target, ctxDone, result, writes, lost, reached>>
    PROVE  IInv'
<1>1. /\ status' = status /\ failure' = failure /\ target' = target
      /\ ctxDone' = ctxDone /\ chan' = chan /\ result' = result
      /\ writes' = writes /\ lost' = lost /\ reached' = reached
  BY DEF statusVars
<1>2. pc \in [Subscriptions -> PC]
  BY DEF IInv, TypeOK
<1>3. /\ pc' = pc \/ pc' = [pc EXCEPT ![w] = "returned"]
      /\ w \in Waiters => pc'[w] = "returned"
  BY <1>2, ConstantsAssumption
<1>4. /\ \A v \in Subscriptions : Subscribed(v)'
      /\ subs' \subseteq subs
      /\ calls' \in [Subscriptions -> Nat]
      /\ closes' \in [Subscriptions -> Nat]
  BY <1>1, <1>3, CancelSubscribed
<1>5. TypeOK'
  BY <1>1, <1>3, <1>4 DEF IInv, TypeOK, StatusTypeOK, PC
<1>6. (\A v \in Subscriptions : Held(v)') /\ DrainsToCurrent'
  BY <1>1, <1>4 DEF IInv, Held, DrainsToCurrent
<1>7. NoLostWakeup'
  BY <1>1, <1>2, <1>3 DEF IInv, NoLostWakeup, Subscriptions
<1>8. ReturnsReachedTarget'
  BY <1>1, <1>2 DEF IInv, ReturnsReachedTarget, Subscriptions
<1> QED
  BY <1>4, <1>5, <1>6, <1>7, <1>8 DEF IInv

\* Every step keeps the invariant.
LEMMA NextIInv == IInv /\ [Next]_vars => IInv'
<1> SUFFICES ASSUME IInv, [Next]_vars PROVE IInv'
  OBVIOUS
<1> USE ConstantsAssumption
<1>1. ASSUME NEW s \in Settable, DoSet(s) PROVE IInv'
  <2>1. s \in Status /\ "none" \in FailureReason
    BY DEF FailureReason
  <2> QED
    BY <1>1, <2>1, WriteIInv DEF DoSet, Set
<1>2. ASSUME NEW r \in Reasons, DoSetFailure(r) PROVE IInv'
  <2>1. "failed" \in Status /\ r \in FailureReason
    BY DEF Status
  <2> QED
    BY <1>2, <2>1, WriteIInv DEF DoSetFailure, SetFailure
<1>3. ASSUME NEW s \in Settable, DoSetUnless(s) PROVE IInv'
  <2>1. s \in Status /\ "none" \in FailureReason
    BY DEF FailureReason
  <2> QED
    BY <1>3, <2>1, WriteIInv DEF DoSetUnless, SetUnless
<1>4. ASSUME NEW w \in Watchers, Watcher(w) PROVE IInv'
  <2> w \in Subscriptions /\ w \notin Waiters
    BY DEF Subscriptions
  <2>1. CASE WatchSubscribe(w)
    <3>1. {} \in SUBSET Status
      OBVIOUS
    <3> QED
      BY <2>1, <3>1, SubscribeIInv DEF WatchSubscribe
  <2>2. CASE WatchReceive(w)
    BY <2>2, ReceiveIInv DEF WatchReceive, waitVars
  <2>3. CASE WatchCancel(w)
    BY <2>3, CancelIInv DEF WatchCancel, waitVars
  <2> QED
    BY <1>4, <2>1, <2>2, <2>3 DEF Watcher
<1>5. ASSUME NEW w \in Waiters, Waiter(w) PROVE IInv'
  <2> w \in Subscriptions
    BY DEF Subscriptions
  <2>1. CASE WaitSubscribe(w)
    <3>1. PICK t \in Targets : target' = [target EXCEPT ![w] = t]
      BY <2>1 DEF WaitSubscribe
    <3> QED
      BY <2>1, <3>1, SubscribeIInv DEF WaitSubscribe
  <2>2. CASE WaitCheck(w)
    <3>1. CASE status \in target[w]
      BY <2>2, <3>1, ReturnIInv DEF WaitCheck
    <3>2. CASE status \notin target[w]
      <4>1. /\ pc[w] = "subscribed" /\ pc' = [pc EXCEPT ![w] = "select"]
            /\ status' = status /\ failure' = failure /\ subs' = subs
            /\ closes' = closes /\ calls' = calls /\ target' = target
            /\ ctxDone' = ctxDone /\ chan' = chan /\ result' = result
            /\ writes' = writes /\ lost' = lost /\ reached' = reached
        BY <2>2, <3>2 DEF WaitCheck, statusVars, chanVars
      <4>2. TypeOK'
        BY <4>1 DEF IInv, TypeOK, StatusTypeOK, PC
      <4>3. \A v \in Subscriptions : Subscribed(v)'
        BY <4>1 DEF IInv, TypeOK, Subscribed
      <4>4. (\A v \in Subscriptions : Held(v)') /\ DrainsToCurrent'
        BY <4>1 DEF IInv, Held, DrainsToCurrent
      <4>5. NoLostWakeup'
        BY <3>2, <4>1 DEF IInv, TypeOK, NoLostWakeup, Subscriptions
      <4>6. ReturnsReachedTarget'
        BY <4>1 DEF IInv, TypeOK, ReturnsReachedTarget, Subscriptions
      <4> QED
        BY <4>2, <4>3, <4>4, <4>5, <4>6 DEF IInv
    <3> QED
      BY <3>1, <3>2
  <2>3. CASE WaitReceive(w)
    <3>1. pc[w] = "select" /\ closes[w] = 0
      BY <2>3 DEF WaitReceive, IInv, Subscribed
    <3>2. chan[w] # <<>>
      BY <2>3, <3>1 DEF WaitReceive
    <3> QED
      BY <2>3, <3>1, <3>2, ReceiveIInv DEF WaitReceive
  <2>4. CASE WaitCtx(w)
    BY <2>4, ReturnIInv DEF WaitCtx
  <2>5. CASE WaitCancel(w)
    BY <2>5, CancelIInv DEF WaitCancel
  <2>6. CASE CtxDone(w)
    <3>1. /\ ctxDone' = ctxDone \cup {w} /\ pc' = pc
          /\ status' = status /\ failure' = failure /\ subs' = subs
          /\ closes' = closes /\ calls' = calls /\ target' = target
          /\ chan' = chan /\ result' = result
          /\ writes' = writes /\ lost' = lost /\ reached' = reached
      BY <2>6 DEF CtxDone, statusVars, chanVars
    <3> QED
      BY <3>1 DEF IInv, TypeOK, StatusTypeOK, Subscribed, Held, DrainsToCurrent,
                  NoLostWakeup, ReturnsReachedTarget
  <2> QED
    BY <1>5, <2>1, <2>2, <2>3, <2>4, <2>5, <2>6 DEF Waiter, WaiterStep
<1>6. CASE UNCHANGED vars
  BY <1>6 DEF vars, statusVars, chanVars, waitVars, IInv, TypeOK, StatusTypeOK,
              Subscribed, Held, DrainsToCurrent, NoLostWakeup, ReturnsReachedTarget
<1> QED
  BY <1>1, <1>2, <1>3, <1>4, <1>5, <1>6 DEF Next, Writer

\* The invariant holds in every reachable state.
THEOREM Invariance == Spec => []IInv
BY InitIInv, NextIInv, PTL DEF Spec

\* Every variable of the tracker's cell, channels and waiters keeps its type in every
\* reachable state, for any constants.
THEOREM TypeCorrect == Spec => []TypeOK
<1>1. IInv => TypeOK
  BY DEF IInv
<1> QED
  BY <1>1, Invariance, PTL

\* No send meets a closed channel and no channel is closed twice, however many
\* readers call their cancel function while writers broadcast (setLocked,
\* Subscribe's cancel).
THEOREM ChannelSafety == Spec => []NoChannelPanic
<1>1. IInv => NoChannelPanic
  BY DEF IInv, Subscribed, NoChannelPanic
<1> QED
  BY <1>1, Invariance, PTL

\* A drained subscription ends on the current status unless the latest
\* transition was dropped (setLocked's select with a default arm).
THEOREM DrainSafety == Spec => []DrainsToCurrent
<1>1. IInv => DrainsToCurrent
  BY DEF IInv
<1> QED
  BY <1>1, Invariance, PTL

\* WaitForStatus never sleeps on a status the agent already has, unless the
\* latest transition was dropped (subscribe first, then read the status).
THEOREM WakeupSafety == Spec => []NoLostWakeup
<1>1. IInv => NoLostWakeup
  BY DEF IInv
<1> QED
  BY <1>1, Invariance, PTL

\* WaitForStatus returns a target the agent reached during the call, or the
\* error of its own cancelled context, and never ErrStatusClosed.
THEOREM ReturnSafety == Spec => []ReturnsReachedTarget
<1>1. IInv => ReturnsReachedTarget
  BY DEF IInv
<1> QED
  BY <1>1, Invariance, PTL
=============================================================================
