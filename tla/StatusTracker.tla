--------------------------- MODULE StatusTracker ---------------------------
(* executor.StatusTracker with its subscribers, and WaitForStatus on top.     *)
(*                                                                            *)
(* Writers (the executor's run loop, the daemon's supervisor, Stop, Remove)   *)
(* call Set, SetFailure and SetUnless at any time.  Each call writes the cell *)
(* and offers the new status to every subscribed channel inside one critical  *)
(* section; an offer to a full channel is dropped, so the lock never waits    *)
(* on a reader.  A Subscription is one call of Subscribe: a Waiter is a call  *)
(* of WaitForStatus, which subscribes, then reads the status, then loops on   *)
(* its channel; a Watcher reads its channel and calls its cancel function,    *)
(* perhaps more than once.                                                    *)
EXTENDS AgentStatus, Naturals, Sequences, FiniteSets

CONSTANTS
    Waiters,         \* calls of WaitForStatus
    Watchers,        \* other calls of Subscribe
    ChanSize,        \* statusChanSize (16 in the code)
    Settable,        \* the statuses writers pass to Set and SetUnless
    Reasons,         \* the reasons writers pass to SetFailure
    Guard,           \* the guard a writer passes to SetUnless
    Targets,         \* the target sets waiters ask for
    MaxTransitions,  \* bound on the number of status writes
    MaxCancels       \* bound on the calls of one watcher's cancel function

Subscriptions == Waiters \cup Watchers

ASSUME ConstantsAssumption ==
    /\ Waiters \cap Watchers = {}
    /\ ChanSize \in Nat \ {0}
    /\ Settable \subseteq Status
    /\ Reasons \subseteq FailureReason
    /\ Targets \subseteq SUBSET Status
    /\ MaxTransitions \in Nat
    /\ MaxCancels \in Nat

VARIABLES
    subs,      \* StatusTracker.subs: the channels a write is offered to
    chan,      \* the buffered statuses of each channel
    closes,    \* how many times each channel was closed
    calls,     \* how many times each cancel function was called (once.Do)
    pc,        \* where each call of WaitForStatus (or watcher) is
    target,    \* the statuses a waiter waits for
    ctxDone,   \* the waiters whose context is cancelled
    result,    \* what WaitForStatus returned: a status or an error
    writes,    \* number of status writes (bounded by MaxTransitions)
    lost,      \* history: the latest offer to this channel was dropped
    reached    \* history: the statuses the cell held during the subscription

chanVars == <<subs, chan, closes, calls>>
waitVars == <<pc, target, ctxDone, result>>
vars == <<statusVars, chanVars, waitVars, writes, lost, reached>>

PC == {"idle", "subscribed", "select", "cancel", "returned"}
Results == Status \cup {"none", "ctx.Err", "ErrStatusClosed"}

Init ==
    /\ NewStatusTracker
    /\ subs = {}
    /\ chan = [w \in Subscriptions |-> <<>>]
    /\ closes = [w \in Subscriptions |-> 0]
    /\ calls = [w \in Subscriptions |-> 0]
    /\ pc = [w \in Subscriptions |-> "idle"]
    /\ target = [w \in Subscriptions |-> {}]
    /\ ctxDone = {}
    /\ result = [w \in Subscriptions |-> "none"]
    /\ writes = 0
    /\ lost = [w \in Subscriptions |-> FALSE]
    /\ reached = [w \in Subscriptions |-> {}]

-----------------------------------------------------------------------------
(* Writers.                                                                   *)

\* Mutant: one slot too many.
FullOffByOne(w) == Len(chan[w]) > ChanSize

Full(w) == Len(chan[w]) = ChanSize

\* The select with a default arm, for every subscribed channel.
Broadcast(s) ==
    /\ chan' = [w \in Subscriptions |->
                  IF w \in subs /\ ~Full(w) THEN Append(chan[w], s) ELSE chan[w]]
    /\ lost' = [w \in Subscriptions |-> IF w \in subs THEN Full(w) ELSE lost[w]]
    /\ reached' = [w \in Subscriptions |->
                     IF w \in subs THEN reached[w] \cup {s} ELSE reached[w]]

\* A write that takes effect: the cell and the offers, in one critical section.
Write(s) ==
    /\ writes < MaxTransitions
    /\ writes' = writes + 1
    /\ Broadcast(s)
    /\ UNCHANGED <<subs, closes, calls, waitVars>>

\* Mutant: the failure is recorded and no subscriber hears of it.
DoSetFailureSilently(reason) ==
    /\ writes < MaxTransitions
    /\ writes' = writes + 1
    /\ SetFailure(reason)
    /\ UNCHANGED <<chanVars, waitVars, lost, reached>>

DoSet(s) == Set(s) /\ Write(s)

DoSetFailure(reason) == SetFailure(reason) /\ Write("failed")

\* A guarded write that does not take effect changes nothing at all.
DoSetUnless(s) == status \notin Guard /\ SetUnless(s, Guard) /\ Write(s)

-----------------------------------------------------------------------------
(* Subscribe and the cancel function it returns.                              *)

Subscribe(w) ==
    /\ subs' = subs \cup {w}
    /\ reached' = [reached EXCEPT ![w] = {status}]
    /\ UNCHANGED <<statusVars, chan, closes, calls, writes, lost>>

\* Mutant: the cancel function without sync.Once.
CancelWithoutOnce(w) ==
    /\ calls' = [calls EXCEPT ![w] = @ + 1]
    /\ subs' = subs \ {w}
    /\ closes' = [closes EXCEPT ![w] = @ + 1]

\* once.Do: only the first call deletes the entry and closes the channel.
Cancel(w) ==
    /\ calls' = [calls EXCEPT ![w] = @ + 1]
    /\ IF calls[w] = 0
         THEN subs' = subs \ {w} /\ closes' = [closes EXCEPT ![w] = @ + 1]
         ELSE UNCHANGED <<subs, closes>>

WatchSubscribe(w) ==
    /\ pc[w] = "idle"
    /\ pc' = [pc EXCEPT ![w] = "select"]
    /\ Subscribe(w)
    /\ UNCHANGED <<target, ctxDone, result>>

WatchReceive(w) ==
    /\ pc[w] = "select" /\ chan[w] # <<>>
    /\ chan' = [chan EXCEPT ![w] = Tail(@)]
    /\ UNCHANGED <<statusVars, subs, closes, calls, waitVars, writes, lost, reached>>

WatchCancel(w) ==
    /\ pc[w] = "select" /\ calls[w] < MaxCancels
    /\ Cancel(w)
    /\ UNCHANGED <<statusVars, chan, waitVars, writes, lost, reached>>

-----------------------------------------------------------------------------
(* WaitForStatus.                                                             *)

WaitSubscribe(w) ==
    /\ pc[w] = "idle"
    /\ \E t \in Targets : target' = [target EXCEPT ![w] = t]
    /\ pc' = [pc EXCEPT ![w] = "subscribed"]
    /\ Subscribe(w)
    /\ UNCHANGED <<ctxDone, result>>

Return(w, r) ==
    /\ result' = [result EXCEPT ![w] = r]
    /\ pc' = [pc EXCEPT ![w] = "cancel"]

\* Mutant: the wait starts without looking at the current status.
WaitCheckNothing(w) ==
    /\ pc[w] = "subscribed"
    /\ pc' = [pc EXCEPT ![w] = "select"]
    /\ UNCHANGED <<statusVars, chanVars, target, ctxDone, result, writes, lost, reached>>

\* The status is read once, after the subscription is in place.
WaitCheck(w) ==
    /\ pc[w] = "subscribed"
    /\ IF status \in target[w]
         THEN Return(w, status)
         ELSE pc' = [pc EXCEPT ![w] = "select"] /\ UNCHANGED result
    /\ UNCHANGED <<statusVars, chanVars, target, ctxDone, writes, lost, reached>>

\* Mutant: the first transition is returned whatever it is.
WaitReceiveFirst(w) ==
    /\ pc[w] = "select" /\ chan[w] # <<>>
    /\ chan' = [chan EXCEPT ![w] = Tail(@)]
    /\ Return(w, Head(chan[w]))
    /\ UNCHANGED <<statusVars, subs, closes, calls, target, ctxDone, writes, lost, reached>>

\* s, ok := <-ch: a buffered status first; ok is FALSE once the channel is
\* closed and drained.
WaitReceive(w) ==
    /\ pc[w] = "select" /\ (chan[w] # <<>> \/ closes[w] > 0)
    /\ IF chan[w] = <<>>
         THEN Return(w, "ErrStatusClosed") /\ UNCHANGED chan
         ELSE /\ chan' = [chan EXCEPT ![w] = Tail(@)]
              /\ IF Head(chan[w]) \in target[w]
                   THEN Return(w, Head(chan[w]))
                   ELSE UNCHANGED <<pc, result>>
    /\ UNCHANGED <<statusVars, subs, closes, calls, target, ctxDone, writes, lost, reached>>

\* Mutant: the loop only listens to its channel.
WaitCtxIgnored(w) == FALSE /\ UNCHANGED vars

WaitCtx(w) ==
    /\ pc[w] = "select" /\ w \in ctxDone
    /\ Return(w, "ctx.Err")
    /\ UNCHANGED <<statusVars, chanVars, target, ctxDone, writes, lost, reached>>

\* The deferred cancel.
WaitCancel(w) ==
    /\ pc[w] = "cancel"
    /\ pc' = [pc EXCEPT ![w] = "returned"]
    /\ Cancel(w)
    /\ UNCHANGED <<statusVars, chan, target, ctxDone, result, writes, lost, reached>>

\* The caller's context ends while the call is under way.
CtxDone(w) ==
    /\ pc[w] \in {"subscribed", "select"} /\ w \notin ctxDone
    /\ ctxDone' = ctxDone \cup {w}
    /\ UNCHANGED <<statusVars, chanVars, pc, target, result, writes, lost, reached>>

-----------------------------------------------------------------------------

Writer ==
    \/ \E s \in Settable : DoSet(s)
    \/ \E r \in Reasons : DoSetFailure(r)
    \/ \E s \in Settable : DoSetUnless(s)

Watcher(w) == WatchSubscribe(w) \/ WatchReceive(w) \/ WatchCancel(w)

\* The steps of a call that is under way.
WaiterStep(w) ==
    WaitCheck(w) \/ WaitReceive(w) \/ WaitCtx(w) \/ WaitCancel(w)

Waiter(w) == WaitSubscribe(w) \/ WaiterStep(w) \/ CtxDone(w)

Next ==
    \/ Writer
    \/ \E w \in Watchers : Watcher(w)
    \/ \E w \in Waiters : Waiter(w)

Spec == Init /\ [][Next]_vars

\* A goroutine inside WaitForStatus keeps being scheduled; nobody has to call
\* WaitForStatus, write a status, or cancel a context.
FairSpec == Spec /\ \A w \in Waiters : WF_vars(WaiterStep(w))

-----------------------------------------------------------------------------
(* Properties.                                                                *)

\* Every variable has its type; a channel never holds more than ChanSize.
TypeOK ==
    /\ StatusTypeOK
    /\ subs \subseteq Subscriptions
    /\ chan \in [Subscriptions -> Seq(Status)]
    /\ \A w \in Subscriptions : Len(chan[w]) <= ChanSize
    /\ closes \in [Subscriptions -> Nat]
    /\ calls \in [Subscriptions -> Nat]
    /\ pc \in [Subscriptions -> PC]
    /\ target \in [Subscriptions -> SUBSET Status]
    /\ ctxDone \subseteq Waiters
    /\ result \in [Subscriptions -> Results]
    /\ writes \in 0 .. MaxTransitions
    /\ lost \in [Subscriptions -> BOOLEAN]
    /\ reached \in [Subscriptions -> SUBSET Status]

\* setLocked sends to every channel of subs and a cancel function may be called
\* twice: no send ever meets a closed channel and no channel is closed twice,
\* either of which would panic the daemon.
NoChannelPanic ==
    \A w \in Subscriptions : closes[w] <= 1 /\ (w \in subs => closes[w] = 0)

\* Broadcasts are first-in first-out and drop only when the buffer is full: a
\* reader that drains its channel ends on the current status, unless the very
\* latest transition found the buffer full.
DrainsToCurrent ==
    \A w \in Subscriptions :
        w \in subs /\ ~lost[w] /\ chan[w] # <<>> => chan[w][Len(chan[w])] = status

\* WaitForStatus subscribes before it reads the status, so no transition falls
\* between the two: a call that is blocked on an empty channel is not waiting
\* for the status the agent already has, unless the latest transition was
\* dropped on a full buffer.
NoLostWakeup ==
    \A w \in Waiters :
        pc[w] = "select" /\ ~lost[w] /\ chan[w] = <<>> => status \notin target[w]

\* A call without error returns one of its targets, and one the agent really
\* was in at some moment of the call; it never reports ErrStatusClosed, because
\* only its own deferred cancel closes its channel.
ReturnsReachedTarget ==
    \A w \in Waiters :
        pc[w] \in {"cancel", "returned"} =>
            \/ result[w] \in target[w] \cap reached[w]
            \/ result[w] = "ctx.Err" /\ w \in ctxDone

\* WaitForStatus returns once its context ends, whatever the writers do.
CtxEndsWait ==
    \A w \in Waiters : w \in ctxDone ~> pc[w] = "returned"

\* An agent that has come to rest in a target status releases every call that
\* waits for it, unless the transition into that status found the call's buffer
\* full.
UndroppedEndsWait ==
    \A w \in Waiters :
        [](pc[w] \in {"subscribed", "select"} /\ [](status \in target[w] /\ ~lost[w])
             => <>(pc[w] = "returned"))

\* WaitForStatus ends: at the latest with its context, and with the status it
\* waits for unless that was dropped.
WaitEnds == CtxEndsWait /\ UndroppedEndsWait

\* WaitForStatus "blocks until the observer reaches one of target": an agent
\* that has come to rest in a target status releases the call.
TargetEndsWait ==
    \A w \in Waiters :
        [](pc[w] \in {"subscribed", "select"} /\ [](status \in target[w])
             => <>(pc[w] = "returned"))
=============================================================================
