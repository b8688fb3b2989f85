--------------------------- MODULE WorkerLifecycle ---------------------------
(***************************************************************************)
(* The worker lifecycle of one Service: Start, runWorker and Close.        *)
(*                                                                         *)
(* Start creates a worker generation that runs under the context of its    *)
(* caller, or joins the live one; Close cancels the service's own context  *)
(* and waits for the live generation.  Callers and closers are concurrent  *)
(* goroutines: the Runtime host in Module mode; in SaaS mode startWorker   *)
(* of any request, whose context the whole process cancels on Shutdown,    *)
(* and Shutdown itself.  A critical section of lifecycleMu is one step.    *)
(***************************************************************************)
EXTENDS Naturals

CONSTANTS
    Callers,        \* goroutines that call Start, each with a context of its own
    NoCaller,
    Closers,        \* goroutines that call Close
    MaxGenerations  \* model bound on worker generations

ASSUME LifecycleAssumption ==
    /\ NoCaller \notin Callers
    /\ MaxGenerations \in Nat

VARIABLES
    closed,         \* Service.closed
    ownerDone,      \* Service.ctx is cancelled
    callerDone,     \* callers whose context is cancelled
    workerDone,     \* Service.workerDone: the live generation, 0 for nil
    started,        \* generations started so far
    loop,           \* what the goroutine of a generation does
    parent,         \* the caller whose context a generation runs under
    signalled,      \* generations that the service's own cancellation has reached
    startPc, joined,            \* per caller: control state, generation joined
    closePc, first, awaited     \* per closer: control state and locals

vars == <<closed, ownerDone, callerDone, workerDone, started, loop, parent, signalled,
          startPc, joined, closePc, first, awaited>>

Generations == 1..MaxGenerations
Alive       == {"starting", "polling", "ending"}

LifecycleTypeOK ==
    /\ closed \in BOOLEAN /\ ownerDone \in BOOLEAN
    /\ callerDone \subseteq Callers
    /\ started \in 0..MaxGenerations
    /\ workerDone \in 0..started
    /\ loop \in [Generations -> Alive \union {"none", "finished"}]
    /\ parent \in [Generations -> Callers \union {NoCaller}]
    /\ \A g \in 1..started : loop[g] # "none" /\ parent[g] \in Callers
    /\ signalled \subseteq Generations
    /\ startPc \in [Callers -> {"idle", "locking", "joined"}]
    /\ joined \in [Callers -> 0..started]
    /\ closePc \in [Closers -> {"idle", "cancelling", "waiting", "closed", "timedout"}]
    /\ first \in [Closers -> BOOLEAN]
    /\ awaited \in [Closers -> 0..started]

Live(g) == loop[g] \in Alive

-----------------------------------------------------------------------------
(* Start *)

\* The caller's context is looked at before the lock and not again.
StartCheck(c) ==
    /\ startPc[c] = "idle"
    /\ c \notin callerDone
    /\ startPc' = [startPc EXCEPT ![c] = "locking"]
    /\ UNCHANGED <<closed, ownerDone, callerDone, workerDone, started, loop, parent, signalled,
                   joined, closePc, first, awaited>>

\* Faulty variant: a closed service is told by its context alone.
StartableOwner == ~ownerDone

\* Nothing is started once the service is closed or its context cancelled.
Startable == ~closed /\ ~ownerDone

\* Faulty variant: a live generation is not noticed.
VacantAlways == workerDone \in Nat

Vacant == workerDone = 0

\* Faulty variant: the worker gets a context that no caller can cancel.
DetachedContext(c) == IF c \in Callers THEN NoCaller ELSE c

\* The worker's context is a child of the caller's.
WorkerContext(c) == c

\* Start's critical section: refuse, join the live generation, or start one.  A start
\* is refused too when the run store rejects the configured backlog limit.
StartLocked(c) ==
    /\ startPc[c] = "locking"
    /\ \/ /\ ~Startable \/ Vacant
          /\ startPc' = [startPc EXCEPT ![c] = "idle"]
          /\ UNCHANGED <<workerDone, started, loop, parent, joined>>
       \/ /\ Startable /\ ~Vacant
          /\ startPc' = [startPc EXCEPT ![c] = "joined"]
          /\ joined' = [joined EXCEPT ![c] = workerDone]
          /\ UNCHANGED <<workerDone, started, loop, parent>>
       \/ /\ Startable /\ Vacant
          /\ started < MaxGenerations
          /\ started' = started + 1
          /\ workerDone' = started + 1
          /\ loop' = [loop EXCEPT ![started + 1] = "starting"]
          /\ parent' = [parent EXCEPT ![started + 1] = WorkerContext(c)]
          /\ joined' = [joined EXCEPT ![c] = started + 1]
          /\ startPc' = [startPc EXCEPT ![c] = "joined"]
    /\ UNCHANGED <<closed, ownerDone, callerDone, signalled, closePc, first, awaited>>

\* The done channel of the generation is closed: the caller may start again.
StartReturns(c) ==
    /\ startPc[c] = "joined"
    /\ loop[joined[c]] = "finished"
    /\ startPc' = [startPc EXCEPT ![c] = "idle"]
    /\ joined' = [joined EXCEPT ![c] = 0]
    /\ UNCHANGED <<closed, ownerDone, callerDone, workerDone, started, loop, parent, signalled,
                   closePc, first, awaited>>

-----------------------------------------------------------------------------
(* runWorker *)

\* Faulty variant: the service's cancellation does not reach the worker.
SignalNothing(g) == g \in signalled /\ UNCHANGED vars

\* context.AfterFunc: the service's cancellation reaches the worker's context in a
\* goroutine of its own.
Signal(g) ==
    /\ ownerDone
    /\ Live(g)
    /\ g \notin signalled
    /\ signalled' = signalled \union {g}
    /\ UNCHANGED <<closed, ownerDone, callerDone, workerDone, started, loop, parent,
                   startPc, joined, closePc, first, awaited>>

Cancelled(g) == parent[g] \in callerDone \/ g \in signalled

\* Module mode reconciles and hydrates first; then the poll loop runs until the
\* worker's context is cancelled and the tick in progress has ended.
RunWorker(g) ==
    /\ \/ loop[g] = "starting" /\ loop' = [loop EXCEPT ![g] = "polling"]
       \/ loop[g] = "polling" /\ Cancelled(g) /\ loop' = [loop EXCEPT ![g] = "ending"]
    /\ UNCHANGED <<closed, ownerDone, callerDone, workerDone, started, parent, signalled,
                   startPc, joined, closePc, first, awaited>>

\* The deferred critical section: give up workerDone and close the channel.
FinishWorker(g) ==
    /\ loop[g] = "ending"
    /\ loop' = [loop EXCEPT ![g] = "finished"]
    /\ workerDone' = IF workerDone = g THEN 0 ELSE workerDone
    /\ UNCHANGED <<closed, ownerDone, callerDone, started, parent, signalled,
                   startPc, joined, closePc, first, awaited>>

-----------------------------------------------------------------------------
(* Close *)

\* Close's critical section.
CloseLocked(k) ==
    /\ closePc[k] = "idle"
    /\ closed' = TRUE
    /\ first' = [first EXCEPT ![k] = ~closed]
    /\ awaited' = [awaited EXCEPT ![k] = workerDone]
    /\ closePc' = [closePc EXCEPT ![k] = "cancelling"]
    /\ UNCHANGED <<ownerDone, callerDone, workerDone, started, loop, parent, signalled,
                   startPc, joined>>

\* Only the first Close cancels; without a live generation it returns at once.
CloseCancel(k) ==
    /\ closePc[k] = "cancelling"
    /\ ownerDone' = (ownerDone \/ first[k])
    /\ closePc' = [closePc EXCEPT ![k] = IF awaited[k] = 0 THEN "closed" ELSE "waiting"]
    /\ UNCHANGED <<closed, callerDone, workerDone, started, loop, parent, signalled,
                   startPc, joined, first, awaited>>

\* The channel is closed, or the closer's own context ends first.
CloseWait(k) ==
    /\ closePc[k] = "waiting"
    /\ \/ /\ loop[awaited[k]] = "finished"
          /\ closePc' = [closePc EXCEPT ![k] = "closed"]
       \/ closePc' = [closePc EXCEPT ![k] = "timedout"]
    /\ UNCHANGED <<closed, ownerDone, callerDone, workerDone, started, loop, parent, signalled,
                   startPc, joined, first, awaited>>

-----------------------------------------------------------------------------
(* Cancellation from outside *)

CancelCaller(c) ==
    /\ c \notin callerDone
    /\ callerDone' = callerDone \union {c}
    /\ UNCHANGED <<closed, ownerDone, workerDone, started, loop, parent, signalled,
                   startPc, joined, closePc, first, awaited>>

\* Shutdown of the SaaS process cancels the context that both the service's own and
\* every worker's context descend from.
CancelParent ==
    /\ ~ownerDone
    /\ ownerDone' = TRUE
    /\ callerDone' = Callers
    /\ UNCHANGED <<closed, workerDone, started, loop, parent, signalled,
                   startPc, joined, closePc, first, awaited>>

-----------------------------------------------------------------------------
Init ==
    /\ closed = FALSE /\ ownerDone = FALSE
    /\ callerDone = {}
    /\ workerDone = 0
    /\ started = 0
    /\ loop = [g \in Generations |-> "none"]
    /\ parent = [g \in Generations |-> NoCaller]
    /\ signalled = {}
    /\ startPc = [c \in Callers |-> "idle"]
    /\ joined = [c \in Callers |-> 0]
    /\ closePc = [k \in Closers |-> "idle"]
    /\ first = [k \in Closers |-> FALSE]
    /\ awaited = [k \in Closers |-> 0]

WorkerStep(g) == RunWorker(g) \/ FinishWorker(g)

Next ==
    \/ \E c \in Callers : StartCheck(c) \/ StartLocked(c) \/ StartReturns(c) \/ CancelCaller(c)
    \/ \E g \in Generations : WorkerStep(g) \/ Signal(g)
    \/ \E k \in Closers : CloseLocked(k) \/ CloseCancel(k) \/ CloseWait(k)
    \/ CancelParent

Spec == Init /\ [][Next]_vars

\* Goroutines that can go on do: ticks are bounded by their timeouts, and a Close
\* that has begun cancels.  Nothing is assumed of callers.
FairSpec ==
    /\ Spec
    /\ \A g \in Generations : WF_vars(WorkerStep(g)) /\ WF_vars(Signal(g))
    /\ \A k \in Closers : WF_vars(CloseCancel(k))

-----------------------------------------------------------------------------
(* Properties *)

\* "One Start call owns each live worker generation": two poll loops never run at
\* the same time, however Start calls, cancellations and endings interleave.
OneWorkerLoop == \A g, h \in Generations : Live(g) /\ Live(h) => g = h

\* A Close that returned without an error has left no worker behind, and none ever
\* appears afterwards, whatever Start calls were under way.
ClosedMeansStopped ==
    (\E k \in Closers : closePc[k] = "closed") => \A g \in Generations : ~Live(g)

\* Closing stops the worker for good, even when the closer gave up waiting; and so does
\* the cancellation of every caller's context, also for a worker that a Start call already
\* past its context check creates afterwards.
StopsForGood ==
    closed \/ callerDone = Callers ~> [](\A g \in Generations : ~Live(g))
=============================================================================
