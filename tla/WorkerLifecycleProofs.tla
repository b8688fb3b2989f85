------------------------ MODULE WorkerLifecycleProofs ------------------------
(***************************************************************************)
(* Safety of the worker lifecycle, for any number of callers, closers and  *)
(* worker generations.                                                     *)
(***************************************************************************)
EXTENDS WorkerLifecycle, TLAPS

-----------------------------------------------------------------------------
(* Types *)

LEMMA TypeInit == Init => LifecycleTypeOK
<1> SUFFICES ASSUME Init PROVE LifecycleTypeOK
  OBVIOUS
<1>1. /\ closed \in BOOLEAN /\ ownerDone \in BOOLEAN
      /\ first \in [Closers -> BOOLEAN]
  BY DEF Init
<1>2. /\ started \in 0..MaxGenerations
      /\ workerDone \in 0..started
      /\ joined \in [Callers -> 0..started]
      /\ awaited \in [Closers -> 0..started]
      /\ \A g \in 1..started : loop[g] # "none" /\ parent[g] \in Callers
  BY LifecycleAssumption DEF Init
<1>3. /\ loop \in [Generations -> Alive \union {"none", "finished"}]
      /\ parent \in [Generations -> Callers \union {NoCaller}]
      /\ startPc \in [Callers -> {"idle", "locking", "joined"}]
      /\ closePc \in [Closers -> {"idle", "cancelling", "waiting", "closed", "timedout"}]
      /\ callerDone \subseteq Callers /\ signalled \subseteq Generations
  BY DEF Init
<1> QED BY <1>1, <1>2, <1>3 DEF LifecycleTypeOK

LEMMA TypeStart ==
    ASSUME LifecycleTypeOK, NEW c \in Callers,
           StartCheck(c) \/ StartLocked(c) \/ StartReturns(c) \/ CancelCaller(c)
    PROVE  LifecycleTypeOK'
<1> USE LifecycleAssumption DEF LifecycleTypeOK, Generations, Alive
<1>1. CASE StartCheck(c)
  BY <1>1 DEF StartCheck
<1>2. CASE StartLocked(c)
  <2>1. CASE UNCHANGED <<workerDone, started, loop, parent>> /\ joined' \in [Callers -> 0..started]
    BY <1>2, <2>1 DEF StartLocked
  <2>2. CASE started' = started + 1
    <3> DEFINE g == started + 1
    <3>1. /\ g \in Generations
          /\ started' = g /\ workerDone' = g
          /\ loop' = [loop EXCEPT ![g] = "starting"]
          /\ parent' = [parent EXCEPT ![g] = c]
          /\ joined' = [joined EXCEPT ![c] = g]
          /\ startPc' = [startPc EXCEPT ![c] = "joined"]
      BY <1>2, <2>2 DEF StartLocked, WorkerContext
    <3>2. \A h \in 1..g : loop'[h] # "none" /\ parent'[h] \in Callers
      BY <3>1
    <3>3. joined' \in [Callers -> 0..g] /\ awaited \in [Closers -> 0..g]
      BY <3>1
    <3>4. UNCHANGED <<closed, ownerDone, callerDone, signalled, closePc, first, awaited>>
      BY <1>2 DEF StartLocked
    <3> QED BY <3>1, <3>2, <3>3, <3>4
  <2> QED BY <1>2, <2>1, <2>2 DEF StartLocked
<1>3. CASE StartReturns(c)
  BY <1>3 DEF StartReturns
<1>4. CASE CancelCaller(c)
  BY <1>4 DEF CancelCaller
<1> QED BY <1>1, <1>2, <1>3, <1>4

LEMMA TypeWorker ==
    ASSUME LifecycleTypeOK, NEW g \in Generations, WorkerStep(g) \/ Signal(g)
    PROVE  LifecycleTypeOK'
<1> USE LifecycleAssumption DEF LifecycleTypeOK, Generations, Alive
<1>1. CASE RunWorker(g)
  <2>1. PICK l \in {"polling", "ending"} : loop' = [loop EXCEPT ![g] = l]
    BY <1>1 DEF RunWorker
  <2> QED BY <1>1, <2>1 DEF RunWorker
<1>2. CASE FinishWorker(g)
  BY <1>2 DEF FinishWorker
<1>3. CASE Signal(g)
  BY <1>3 DEF Signal
<1> QED BY <1>1, <1>2, <1>3 DEF WorkerStep

LEMMA TypeClose ==
    ASSUME LifecycleTypeOK, NEW k \in Closers, CloseLocked(k) \/ CloseCancel(k) \/ CloseWait(k)
    PROVE  LifecycleTypeOK'
<1> USE DEF LifecycleTypeOK
<1>1. CASE CloseLocked(k)
  BY <1>1 DEF CloseLocked
<1>2. CASE CloseCancel(k)
  <2>1. ownerDone' \in BOOLEAN
    BY <1>2 DEF CloseCancel
  <2>2. QED BY <1>2, <2>1 DEF CloseCancel
<1>3. CASE CloseWait(k)
  BY <1>3 DEF CloseWait
<1> QED BY <1>1, <1>2, <1>3

LEMMA TypeNext == LifecycleTypeOK /\ [Next]_vars => LifecycleTypeOK'
<1> SUFFICES ASSUME LifecycleTypeOK, [Next]_vars PROVE LifecycleTypeOK'
  OBVIOUS
<1>1. CASE CancelParent
  BY <1>1 DEF CancelParent, LifecycleTypeOK
<1>2. CASE UNCHANGED vars
  BY <1>2 DEF vars, LifecycleTypeOK
<1> QED BY <1>1, <1>2, TypeStart, TypeWorker, TypeClose DEF Next

\* Start, runWorker and Close keep the types of the service's fields and of their own
\* locals; in particular a live generation always runs under the context of a caller.
THEOREM LifecycleTypeCorrect == Spec => []LifecycleTypeOK
  BY TypeInit, TypeNext, PTL DEF Spec

-----------------------------------------------------------------------------
(* One worker at a time *)

\* The inductive form of OneWorkerLoop: workerDone names the only live generation.
LiveIsCurrent == \A g \in Generations : Live(g) => g = workerDone

LEMMA CurrentNext == LifecycleTypeOK /\ LiveIsCurrent /\ [Next]_vars => LiveIsCurrent'
<1> SUFFICES ASSUME LifecycleTypeOK, LiveIsCurrent, [Next]_vars PROVE LiveIsCurrent'
  OBVIOUS
<1> USE DEF LiveIsCurrent, Live
<1>1. ASSUME NEW c \in Callers, StartLocked(c) PROVE LiveIsCurrent'
  BY <1>1, LifecycleAssumption DEF StartLocked, Vacant, LifecycleTypeOK, Generations, Alive
<1>2. ASSUME NEW g \in Generations, WorkerStep(g) PROVE LiveIsCurrent'
  <2>1. CASE RunWorker(g)
    BY <2>1 DEF RunWorker, LifecycleTypeOK, Alive
  <2>2. CASE FinishWorker(g)
    BY <2>2 DEF FinishWorker, LifecycleTypeOK, Alive
  <2> QED BY <1>2, <2>1, <2>2 DEF WorkerStep
<1>3. CASE UNCHANGED <<workerDone, loop>>
  BY <1>3
<1>4. ASSUME NEW c \in Callers, StartCheck(c) \/ StartReturns(c) \/ CancelCaller(c)
      PROVE  UNCHANGED <<workerDone, loop>>
  BY <1>4 DEF StartCheck, StartReturns, CancelCaller
<1>5. ASSUME NEW g \in Generations, Signal(g) PROVE UNCHANGED <<workerDone, loop>>
  BY <1>5 DEF Signal
<1>6. ASSUME NEW k \in Closers, CloseLocked(k) \/ CloseCancel(k) \/ CloseWait(k)
      PROVE  UNCHANGED <<workerDone, loop>>
  BY <1>6 DEF CloseLocked, CloseCancel, CloseWait
<1>7. CASE CancelParent
  BY <1>3, <1>7 DEF CancelParent
<1>8. CASE UNCHANGED vars
  BY <1>3, <1>8 DEF vars
<1> QED BY <1>1, <1>2, <1>3, <1>4, <1>5, <1>6, <1>7, <1>8 DEF Next

LEMMA CurrentInit == Init => LiveIsCurrent
  BY DEF Init, LiveIsCurrent, Live, Alive

\* Two poll loops never run at the same time, however Start calls, cancellations and
\* endings interleave.
THEOREM OneLoopAtATime == Spec => []OneWorkerLoop
<1>1. LiveIsCurrent => OneWorkerLoop
  BY DEF LiveIsCurrent, OneWorkerLoop
<1> QED BY <1>1, CurrentInit, CurrentNext, LifecycleTypeCorrect, PTL DEF Spec

-----------------------------------------------------------------------------
(* Closing *)

\* What a Close under way knows: no Start can create a generation any more, and the
\* one it waits for is the only one that may still run.
CloserKnows ==
    \A k \in Closers :
        /\ closePc[k] # "idle" => closed
        /\ closePc[k] \in {"cancelling", "waiting"} =>
              \A g \in Generations : Live(g) => g = awaited[k]
        /\ closePc[k] = "closed" => \A g \in Generations : ~Live(g)

LEMMA KnowsInit == Init => CloserKnows
  BY DEF Init, CloserKnows

\* A worker that ends, or a Start call, takes nothing from what closers know.
LEMMA KnowsKept ==
    ASSUME CloserKnows, UNCHANGED <<closed, closePc, awaited>>,
           closed => \A g \in Generations : Live(g)' => Live(g)
    PROVE  CloserKnows'
  BY DEF CloserKnows

LEMMA KnowsClose ==
    ASSUME LifecycleTypeOK, LiveIsCurrent, CloserKnows, NEW k \in Closers,
           CloseLocked(k) \/ CloseCancel(k) \/ CloseWait(k)
    PROVE  CloserKnows'
<1> USE DEF CloserKnows, Live
<1>1. CASE CloseLocked(k)
  BY <1>1 DEF CloseLocked, LiveIsCurrent, LifecycleTypeOK
<1>2. CASE CloseCancel(k)
  BY <1>2, LifecycleAssumption DEF CloseCancel, LifecycleTypeOK, Generations
<1>3. CASE CloseWait(k)
  BY <1>3 DEF CloseWait, LifecycleTypeOK, Alive
<1> QED BY <1>1, <1>2, <1>3

LEMMA KnowsNext ==
    LifecycleTypeOK /\ LiveIsCurrent /\ CloserKnows /\ [Next]_vars => CloserKnows'
<1> SUFFICES ASSUME LifecycleTypeOK, LiveIsCurrent, CloserKnows, [Next]_vars
             PROVE  CloserKnows'
  OBVIOUS
<1>1. ASSUME NEW c \in Callers,
             StartCheck(c) \/ StartLocked(c) \/ StartReturns(c) \/ CancelCaller(c)
      PROVE  CloserKnows'
  <2>1. UNCHANGED <<closed, closePc, awaited>>
    BY <1>1 DEF StartCheck, StartLocked, StartReturns, CancelCaller
  <2>2. closed => UNCHANGED loop
    BY <1>1 DEF StartCheck, StartLocked, StartReturns, CancelCaller, Startable
  <2> QED BY <2>1, <2>2, KnowsKept DEF Live
<1>2. ASSUME NEW g \in Generations, WorkerStep(g) \/ Signal(g) PROVE CloserKnows'
  <2>1. UNCHANGED <<closed, closePc, awaited>>
    BY <1>2 DEF WorkerStep, RunWorker, FinishWorker, Signal
  <2>2. \A h \in Generations : Live(h)' => Live(h)
    BY <1>2 DEF WorkerStep, RunWorker, FinishWorker, Signal, Live, Alive, LifecycleTypeOK
  <2> QED BY <2>1, <2>2, KnowsKept
<1>3. CASE CancelParent
  <2>1. UNCHANGED <<closed, closePc, awaited, loop>>
    BY <1>3 DEF CancelParent
  <2> QED BY <2>1, KnowsKept DEF Live
<1>4. CASE UNCHANGED vars
  <2>1. UNCHANGED <<closed, closePc, awaited, loop>>
    BY <1>4 DEF vars
  <2> QED BY <2>1, KnowsKept DEF Live
<1> QED BY <1>1, <1>2, <1>3, <1>4, KnowsClose DEF Next

\* A Close that returned without an error has left no worker behind, and none appears
\* afterwards, whatever Start calls were under way.
THEOREM NothingRunsAfterClose == Spec => []ClosedMeansStopped
<1>1. CloserKnows => ClosedMeansStopped
  BY DEF CloserKnows, ClosedMeansStopped
<1> QED BY <1>1, CurrentInit, CurrentNext, KnowsInit, KnowsNext, LifecycleTypeCorrect, PTL
        DEF Spec
=============================================================================
