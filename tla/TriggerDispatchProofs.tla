----------------------- MODULE TriggerDispatchProofs -----------------------
(***************************************************************************)
(* Proofs about TriggerDispatch, for every number of processes and actors, *)
(* every batch limit and every misfire policy that its assumptions admit.  *)
(*                                                                         *)
(* The dispatcher is shown to use the store only through the operations of *)
(* RunStore and with copies RunStore allows, so everything proved of the   *)
(* store holds of it.  That needs an invariant about what the actors carry *)
(* from one database call to the next.                                     *)
(***************************************************************************)
EXTENDS TriggerDispatch, RunStoreProofs, SequenceTheorems

\* A due item never asks for a cursor at or before its own window.
ForwardTriggers == {t \in DueTriggers : t.next # 0 => t.at < t.next}

ActorTypeOK ==
    /\ pc \in [Actors -> PcValues]
    /\ now \in [Actors -> 0..Horizon]
    /\ rows \in [Actors -> SUBSET DueRows]
    /\ queue \in [Actors -> Seq(ForwardTriggers)]
    /\ retries \in [Actors -> SUBSET RunIds]
    /\ held \in [Actors -> RunCopies \union {NoCopy}]
    /\ clock \in 0..Horizon
    /\ delivered \subseteq RunIds
    /\ commands \in Nat
    /\ faults \in Nat

Working == {"dispatching", "accepting", "failing"}

\* What an actor may rely on between two database calls, however stale it is: the
\* rows it scanned were due at its own "now" and are resolved before it claims
\* anything; its copy is of an existing run and, unless it was read after the lease
\* was gone, judges by the token's attempt; and it accepts only what the downstream
\* owner has accepted.
ActorInv(a) ==
    /\ pc[a] # "due" => rows[a] = {}
    /\ \A row \in rows[a] : row.cursor <= now[a]
    /\ pc[a] \in Busy => held[a] \in RunCopies
    /\ pc[a] \in Working /\ held[a].owner # NoOwner => held[a].attempt = held[a].token
    /\ pc[a] = "accepting" => held[a].id \in delivered

\* Fencing tokens stay within the model's bound, so that a live copy is one of the
\* copies RunStore lets its callers write with.
TokensBounded == \A r \in RunIds : token[r] <= TokenBound

DispatchInv ==
    /\ StoreTypeOK
    /\ RowsInv
    /\ TokensBounded
    /\ ActorTypeOK
    /\ SucceededWasDelivered
    /\ \A a \in Actors : ActorInv(a)

-----------------------------------------------------------------------------
(* Due items and copies *)

\* A queue of forward items is a queue of due items.
LEMMA QueueType ==
    ASSUME NEW s \in Seq(ForwardTriggers)
    PROVE  s \in Seq(DueTriggers)
<1>1. \A i \in 1..Len(s) : s[i] \in DueTriggers
  BY ElementOfSeq DEF ForwardTriggers
<1> QED
  BY <1>1, LenProperties, SeqDef

\* The item made of a due run or a manual trigger leaves the cursor alone.
LEMMA PlainItemType ==
    ASSUME NEW r \in RunIds
    PROVE  /\ PlainItem(r) \in ForwardTriggers
           /\ RunId(PlainItem(r)) = r
           /\ PlainItem(r).kind = "plain"
  BY ConstantsAssumption DEF PlainItem, RunIds, ForwardTriggers, DueTriggers, RunId

\* What the dispatch loop is at is a due item, whose cursor moves forward.
LEMMA CurrentItemType ==
    ASSUME ActorTypeOK, NEW a \in Actors, NEW item \in CurrentItems(a)
    PROVE  /\ item \in ForwardTriggers
           /\ item \in DueTriggers
           /\ RunId(item) \in RunIds
<1>1. queue[a] \in Seq(ForwardTriggers) /\ retries[a] \subseteq RunIds
  BY DEF ActorTypeOK
<1>2. item \in ForwardTriggers
  <2>1. CASE queue[a] # <<>>
    BY <1>1, <2>1, HeadTailProperties DEF CurrentItems
  <2>2. CASE queue[a] = <<>>
    BY <1>1, <2>2, PlainItemType DEF CurrentItems
  <2> QED
    BY <2>1, <2>2
<1> QED
  BY <1>2 DEF ForwardTriggers, DueTriggers, RunId, RunIds

\* What the misfire policy answers for a row that Due has read.
LEMMA ResolutionType ==
    ASSUME ActorTypeOK, NEW a \in Actors, ActorInv(a), Remaining(a) > 0,
           NEW row \in rows[a],
           NEW res \in Resolutions(row.def, row.cursor, now[a], Remaining(a))
    PROVE  /\ row.def \in Definitions
           /\ row.cursor \in Instants
           /\ res.windows \in Seq(Instants)
           /\ res.after \in 0..(Horizon + 1)
           /\ res.disable \in BOOLEAN
           /\ \A i \in 1..Len(res.windows) : res.after # 0 => res.windows[i] < res.after
           /\ res.windows = <<>> /\ res.after # 0 => row.cursor < res.after
<1>1. /\ row.def \in Definitions
      /\ row.cursor \in Instants
      /\ row.cursor <= now[a]
      /\ now[a] \in 0..Horizon
  BY DEF ActorTypeOK, ActorInv, DueRows
<1>2. now[a] \in Instants
  BY <1>1, ConstantsAssumption DEF Instants
<1>3. Len(queue[a]) \in Nat
  BY LenProperties DEF ActorTypeOK
<1>4. Remaining(a) \in 1..BatchLimit
  BY <1>3, DispatchAssumption DEF Remaining
<1>5. /\ res \in [windows: Seq(Instants), after: 0..(Horizon + 1), disable: BOOLEAN]
      /\ \A i \in 1..Len(res.windows) : res.after # 0 => res.windows[i] < res.after
      /\ res.windows = <<>> /\ res.after # 0 => row.cursor < res.after
  BY <1>1, <1>2, <1>4, MisfireAssumption
<1> QED
  BY <1>1, <1>5

\* The windows Due queues for a row are due items, whose cursor moves forward.
LEMMA WindowItemsType ==
    ASSUME NEW d \in Definitions, NEW res,
           res.windows \in Seq(Instants), res.after \in 0..(Horizon + 1),
           \A i \in 1..Len(res.windows) : res.after # 0 => res.windows[i] < res.after
    PROVE  WindowItems(d, res) \in Seq(ForwardTriggers)
<1>1. Len(res.windows) \in Nat
  BY LenProperties
<1>2. ASSUME NEW i \in 1..Len(res.windows)
      PROVE  WindowItems(d, res)[i] \in ForwardTriggers
  <2>1. res.windows[i] \in Instants
    BY ElementOfSeq
  <2> DEFINE item == [kind |-> "window", def |-> d, at |-> res.windows[i],
                      next |-> IF i = Len(res.windows) THEN res.after ELSE 0]
  <2>2. item.next \in 0..(Horizon + 1)
    BY ConstantsAssumption
  <2>3. item \in DueTriggers
    BY <2>1, <2>2 DEF DueTriggers
  <2>4. item.next # 0 => item.at < item.next
    OBVIOUS
  <2>5. item \in ForwardTriggers
    BY <2>3, <2>4 DEF ForwardTriggers
  <2> QED
    BY <2>5 DEF WindowItems
<1>3. WindowItems(d, res) \in [1..Len(res.windows) -> ForwardTriggers]
  BY <1>2 DEF WindowItems
<1> QED
  BY <1>1, <1>3, SeqDef

\* A copy under which an actor can still write is one of RunStore's: it was read
\* from a leased row, so it names an owner and its attempt is its token.
LEMMA LiveCopyIsHeld ==
    ASSUME DispatchInv, NEW a \in Actors, pc[a] \in Working, LiveLease(held[a])
    PROVE  held[a] \in HeldCopies
<1>1. held[a] \in RunCopies
  BY DEF DispatchInv, ActorInv, Working, Busy
<1> DEFINE c == held[a]
<1>2. c.id \in RunIds /\ c.owner \in Owners \union {NoOwner} /\ c.token \in Nat /\ c.attempt \in Nat
  BY <1>1 DEF RunCopies
<1>3. status[c.id] = "leased" /\ owner[c.id] = c.owner /\ token[c.id] = c.token
  BY DEF LiveLease
<1>4. /\ c.owner # NoOwner
      /\ token[c.id] = attempt[c.id]
      /\ attempt[c.id] >= 1
      /\ token[c.id] <= TokenBound
  BY <1>2, <1>3 DEF DispatchInv, RowsInv, RowsConsistent, TokensBounded
<1>5. c.attempt = c.token
  BY <1>4 DEF DispatchInv, ActorInv
<1>6. c.token \in 1..TokenBound
  BY <1>2, <1>3, <1>4, ConstantsAssumption
<1> QED
  BY <1>1, <1>2, <1>4, <1>5, <1>6 DEF HeldCopies, RunCopies

-----------------------------------------------------------------------------
(* The dispatcher uses the store as RunStore allows *)

\* A scanned row is resolved by one store operation or none.
LEMMA DueRowUsesStore ==
    ASSUME DispatchInv, NEW a \in Actors, DueRow(a)
    PROVE  [DefinitionStep]_storeVars
<1>1. ActorTypeOK /\ ActorInv(a) /\ Remaining(a) > 0
  BY DEF DispatchInv, DueRow
<1>2. PICK row \in rows[a] :
         \E res \in Resolutions(row.def, row.cursor, now[a], Remaining(a)) :
            \/ UNCHANGED storeVars
            \/ FastForward(row.def, row.cursor, res.after, res.disable)
  BY DEF DueRow
<1>3. PICK res \in Resolutions(row.def, row.cursor, now[a], Remaining(a)) :
            \/ UNCHANGED storeVars
            \/ FastForward(row.def, row.cursor, res.after, res.disable)
  BY <1>2
<1>4. /\ row.def \in Definitions
      /\ row.cursor \in Instants
      /\ res.after \in 0..(Horizon + 1)
      /\ res.disable \in BOOLEAN
  BY <1>1, ResolutionType
<1> QED
  BY <1>3, <1>4 DEF DefinitionStep

\* A claim inserts the run of a due item under the actor's worker id.
LEMMA ClaimUsesStore ==
    ASSUME DispatchInv, NEW a \in Actors, NEW item \in CurrentItems(a),
           ClaimInsert(a, item)
    PROVE  StoreNext
<1>1. item \in DueTriggers
  BY CurrentItemType DEF DispatchInv
<1>2. OwnerOf[a] \in Owners
  BY DispatchAssumption
<1>3. ClaimNew(OwnerOf[a], item)
  BY DEF ClaimInsert
<1> QED
  BY <1>1, <1>2, <1>3 DEF StoreNext, ClaimStep

\* Heartbeats, acceptances and failures write only under a copy of a leased row.
LEMMA LeaseUsesStore ==
    ASSUME DispatchInv, NEW a \in Actors, Heartbeat(a) \/ AcceptRun(a) \/ FailRun(a)
    PROVE  [LeaseStep]_storeVars
<1> SUFFICES ASSUME ~UNCHANGED storeVars
             PROVE  LeaseStep
  OBVIOUS
<1>1. pc[a] \in Working
  BY DEF Heartbeat, AcceptRun, FailRun, Working
<1>2. Renew(held[a]) \/ Accept(held[a]) \/ Fail(held[a])
  BY DEF Heartbeat, AcceptRun, FailRun
<1>3. LiveLease(held[a])
  BY <1>2 DEF Renew, Accept, Fail
<1>4. held[a] \in HeldCopies
  BY <1>1, <1>3, LiveCopyIsHeld
<1> QED
  BY <1>2, <1>4 DEF LeaseStep

\* The cursor of a new revision is a cursor.
LEMMA ReconciledCursorType ==
    ASSUME ActorTypeOK, NEW d \in Definitions, ReconciledCursor(d) # 0
    PROVE  ReconciledCursor(d) \in Cursors
<1>1. clock \in 0..Horizon /\ 0 \in 0..Horizon
  BY ConstantsAssumption DEF ActorTypeOK
<1>2. NextSchedule[d][clock] \in Cursors \union {0} /\ NextSchedule[d][0] \in Cursors
  BY <1>1, ScheduleAssumption
<1>3. InitialNextRunAt[d] # 0 => InitialNextRunAt[d] \in Cursors
  BY DispatchAssumption, ConstantsAssumption DEF Cursors
<1> QED
  BY <1>2, <1>3 DEF ReconciledCursor, PlanInstant

\* Operator commands are operations of the store.
LEMMA CommandUsesStore ==
    ASSUME DispatchInv, OperatorCommand
    PROVE  StoreNext
<1>1. ActorTypeOK
  BY DEF DispatchInv
<1>2. ASSUME NEW r \in RunIds,
             (\E o \in Owners : Retry(o, r)) \/ Cancel(r) \/ ResolveDeadLetter(r)
      PROVE  StoreNext
  BY <1>2 DEF StoreNext, OperatorStep
<1>3. ASSUME NEW d \in Definitions, NEW t \in ManualInstants, Reschedule(d, t)
      PROVE  StoreNext
  <2>1. t \in Cursors
    BY DispatchAssumption, ConstantsAssumption DEF Instants, Cursors
  <2> QED
    BY <1>3, <2>1 DEF StoreNext, DefinitionStep
<1>4. ASSUME NEW d \in Definitions, ReconciledCursor(d) # 0,
             ReconcileChanged(d, ReconciledCursor(d), TRUE)
      PROVE  StoreNext
  <2>1. ReconciledCursor(d) \in Cursors
    BY <1>1, <1>4, ReconciledCursorType
  <2> QED
    BY <1>4, <2>1 DEF StoreNext, DefinitionStep
<1> QED
  BY <1>2, <1>3, <1>4 DEF OperatorCommand

\* Every step of the dispatcher is a step of the store or leaves it alone.
LEMMA StoreSimulation == DispatchInv /\ [Next]_vars => [StoreNext]_storeVars
<1> SUFFICES ASSUME DispatchInv, [Next]_vars
             PROVE  [StoreNext]_storeVars
  OBVIOUS
<1>1. ASSUME NEW a \in Actors, Progress(a)
      PROVE  [StoreNext]_storeVars
  <2>1. CASE DueRow(a)
    BY <2>1, DueRowUsesStore DEF StoreNext
  <2>2. ASSUME NEW item \in CurrentItems(a), ClaimInsert(a, item)
        PROVE  [StoreNext]_storeVars
    BY <2>2, ClaimUsesStore
  <2>3. CASE TakeOver(a)
    <3>1. held[a].id \in RunIds /\ OwnerOf[a] \in Owners
      BY <2>3, DispatchAssumption DEF DispatchInv, ActorInv, TakeOver, Busy, RunCopies
    <3> QED
      BY <2>3, <3>1 DEF TakeOver, StoreNext, ClaimStep
  <2>4. CASE AcceptRun(a) \/ FailRun(a)
    BY <2>4, LeaseUsesStore DEF StoreNext
  <2>5. ASSUME NEW item \in CurrentItems(a), ClaimRefused(a, item) \/ ClaimExisting(a, item)
        PROVE  [StoreNext]_storeVars
    BY <2>5 DEF ClaimRefused, ClaimExisting
  <2>6. CASE \/ DueStates(a) \/ DueRetries(a) \/ TakeRefused(a) \/ ReadTaken(a)
             \/ HeartbeatLost(a) \/ ReturnReceipt(a) \/ ReturnError(a) \/ TickDone(a)
    BY <2>6 DEF DueStates, DueRetries, TakeRefused, ReadTaken, HeartbeatLost,
                ReturnReceipt, ReturnError, TickDone
  <2> QED
    BY <1>1, <2>1, <2>2, <2>3, <2>4, <2>5, <2>6 DEF Progress
<1>2. ASSUME NEW a \in Actors, Heartbeat(a)
      PROVE  [StoreNext]_storeVars
  BY <1>2, LeaseUsesStore DEF StoreNext
<1>3. ASSUME NEW a \in Actors,
             Crash(a) \/ Restart(a) \/ \E d \in Definitions : TriggerNow(a, d)
      PROVE  [StoreNext]_storeVars
  BY <1>3 DEF Crash, Restart, TriggerNow
<1>4. CASE OperatorCommand
  BY <1>4, CommandUsesStore
<1>5. ASSUME NEW r \in RunIds, DeadlinePasses(r) \/ HeartbeatStalls(r)
      PROVE  [StoreNext]_storeVars
  BY <1>5 DEF DeadlinePasses, HeartbeatStalls, StoreNext
<1>6. CASE ClockTick \/ UNCHANGED vars
  BY <1>6 DEF ClockTick, vars
<1> QED
  BY <1>1, <1>2, <1>3, <1>4, <1>5, <1>6 DEF Next

\* Fencing tokens stay within the bound that every increment is guarded by.
LEMMA TokensStep ==
    StoreTypeOK /\ TokensBounded /\ [StoreNext]_storeVars => TokensBounded'
<1> SUFFICES ASSUME StoreTypeOK, TokensBounded, [StoreNext]_storeVars
             PROVE  TokensBounded'
  OBVIOUS
<1> USE ConstantsAssumption DEF TokensBounded
<1>1. ASSUME NEW o \in Owners, NEW item \in DueTriggers, ClaimNew(o, item)
      PROVE  TokensBounded'
  <2>1. token' = [token EXCEPT ![RunId(item)] = 1]
    BY <1>1 DEF ClaimNew
  <2> QED
    BY <2>1 DEF StoreTypeOK
<1>2. ASSUME NEW o \in Owners, NEW r \in RunIds, TakeExpired(o, r)
      PROVE  TokensBounded'
  BY <1>2 DEF TakeExpired, StoreTypeOK
<1>3. ASSUME NEW r \in RunIds, Cancel(r)
      PROVE  TokensBounded'
  BY <1>3 DEF Cancel, StoreTypeOK
<1>4. CASE UNCHANGED token
  BY <1>4
<1> QED
  BY <1>1, <1>2, <1>3, <1>4, DefinitionStepKeepsRuns
  DEF StoreNext, ClaimStep, LeaseStep, OperatorStep, Renew, Accept, Fail, Retry,
      ResolveDeadLetter, Elapse, storeVars

-----------------------------------------------------------------------------
(* What the actors carry *)

\* The loop moving past an item keeps the types of the queue and the retries.
LEMMA NextItemType ==
    ASSUME ActorTypeOK, NEW a \in Actors, NEW item, NextItem(a, item)
    PROVE  /\ queue' \in [Actors -> Seq(ForwardTriggers)]
           /\ retries' \in [Actors -> SUBSET RunIds]
<1>1. CASE queue[a] # <<>>
  <2>1. Tail(queue[a]) \in Seq(ForwardTriggers)
    BY <1>1, HeadTailProperties DEF ActorTypeOK
  <2> QED
    BY <1>1, <2>1 DEF NextItem, ActorTypeOK
<1>2. CASE queue[a] = <<>>
  BY <1>2 DEF NextItem, ActorTypeOK
<1> QED
  BY <1>1, <1>2

\* Due's steps keep the types, with a queue of forward items.
LEMMA DueTypes ==
    ASSUME DispatchInv, NEW a \in Actors, DueStates(a) \/ DueRow(a) \/ DueRetries(a)
    PROVE  ActorTypeOK'
<1>a. ActorTypeOK /\ ActorInv(a) /\ StoreTypeOK
  BY DEF DispatchInv
<1> USE DEF ActorTypeOK, PcValues
<1>1. CASE DueStates(a)
  <2> DEFINE due == {[def |-> d, cursor |-> cursor[d]] :
                        d \in {e \in enabled : cursor[e] <= clock}}
  <2>1. due \subseteq DueRows
    BY <1>a, ConstantsAssumption DEF DueRows, StoreTypeOK, Cursors, Instants
  <2>2. PICK batch \in SUBSET due : rows' = [rows EXCEPT ![a] = batch]
    BY <1>1 DEF DueStates
  <2>3. rows' \in [Actors -> SUBSET DueRows]
    BY <1>a, <2>1, <2>2
  <2>4. /\ pc' = [pc EXCEPT ![a] = "due"]
        /\ now' = [now EXCEPT ![a] = clock]
        /\ UNCHANGED <<queue, retries, held, clock, delivered, commands, faults>>
    BY <1>1 DEF DueStates, envVars
  <2> QED
    BY <1>a, <2>3, <2>4
<1>2. CASE DueRow(a)
  <2>1. UNCHANGED <<pc, now, retries, held, clock, delivered, commands, faults>>
    BY <1>2 DEF DueRow, envVars
  <2>2. Remaining(a) > 0
    BY <1>2 DEF DueRow
  <2>3. PICK row \in rows[a] :
           \E res \in Resolutions(row.def, row.cursor, now[a], Remaining(a)) :
              /\ rows' = [rows EXCEPT ![a] = @ \ {row}]
              /\ \/ UNCHANGED queue
                 \/ queue' = [queue EXCEPT ![a] = @ \o WindowItems(row.def, res)]
    BY <1>2 DEF DueRow
  <2>4. PICK res \in Resolutions(row.def, row.cursor, now[a], Remaining(a)) :
              /\ rows' = [rows EXCEPT ![a] = @ \ {row}]
              /\ \/ UNCHANGED queue
                 \/ queue' = [queue EXCEPT ![a] = @ \o WindowItems(row.def, res)]
    BY <2>3
  <2>5. WindowItems(row.def, res) \in Seq(ForwardTriggers)
    <3>1. /\ row.def \in Definitions
          /\ res.windows \in Seq(Instants)
          /\ res.after \in 0..(Horizon + 1)
          /\ \A i \in 1..Len(res.windows) : res.after # 0 => res.windows[i] < res.after
      BY <1>a, <2>2, ResolutionType
    <3> QED
      BY <3>1, WindowItemsType
  <2>6. queue[a] \o WindowItems(row.def, res) \in Seq(ForwardTriggers)
    BY <1>a, <2>5, ConcatProperties
  <2>7. queue' \in [Actors -> Seq(ForwardTriggers)]
    BY <1>a, <2>4, <2>6
  <2>8. rows' \in [Actors -> SUBSET DueRows]
    BY <1>a, <2>4
  <2> QED
    BY <1>a, <2>1, <2>7, <2>8
<1>3. CASE DueRetries(a)
  <2>1. PICK batch \in SUBSET RunIds : retries' = [retries EXCEPT ![a] = batch]
    BY <1>3 DEF DueRetries
  <2>2. /\ rows' = [rows EXCEPT ![a] = {}]
        /\ pc' = [pc EXCEPT ![a] = "items"]
        /\ UNCHANGED <<now, queue, held, clock, delivered, commands, faults>>
    BY <1>3 DEF DueRetries, envVars
  <2> QED
    BY <1>a, <2>1, <2>2
<1> QED
  BY <1>1, <1>2, <1>3

\* Claiming, taking over and dispatching one item keeps the types.
LEMMA ItemTypes ==
    ASSUME DispatchInv, NEW a \in Actors, Progress(a),
           ~(DueStates(a) \/ DueRow(a) \/ DueRetries(a))
    PROVE  ActorTypeOK'
<1>a. ActorTypeOK /\ ActorInv(a) /\ StoreTypeOK
  BY DEF DispatchInv
<1>b. pc[a] \in Busy => held[a] \in RunCopies /\ held[a].id \in RunIds
  BY <1>a DEF ActorInv, RunCopies
<1> USE DEF ActorTypeOK, PcValues, envVars
<1>1. ASSUME NEW item \in CurrentItems(a), ClaimInsert(a, item)
      PROVE  ActorTypeOK'
  <2>1. [id |-> RunId(item), owner |-> OwnerOf[a], token |-> 1, attempt |-> 1] \in RunCopies
    BY <1>a, CurrentItemType, DispatchAssumption DEF RunCopies
  <2>2. /\ queue' \in [Actors -> Seq(ForwardTriggers)]
        /\ retries' \in [Actors -> SUBSET RunIds]
    BY <1>1, <1>a, NextItemType DEF ClaimInsert
  <2> QED
    BY <1>1, <1>a, <2>1, <2>2 DEF ClaimInsert
<1>2. ASSUME NEW item \in CurrentItems(a), ClaimRefused(a, item) \/ ClaimExisting(a, item)
      PROVE  ActorTypeOK'
  <2>1. [NoCopy EXCEPT !.id = RunId(item)] \in RunCopies
    BY <1>a, CurrentItemType DEF RunCopies, NoCopy
  <2>2. /\ queue' \in [Actors -> Seq(ForwardTriggers)]
        /\ retries' \in [Actors -> SUBSET RunIds]
    BY <1>2, <1>a, NextItemType DEF ClaimRefused, ClaimExisting
  <2> QED
    BY <1>2, <1>a, <2>1, <2>2 DEF ClaimRefused, ClaimExisting
<1>3. CASE TakeOver(a) \/ TakeRefused(a) \/ AcceptRun(a) \/ FailRun(a) \/ TickDone(a)
  <2>1. CASE TakeOver(a)
    BY <2>1, <1>a DEF TakeOver
  <2>2. CASE TickDone(a)
    BY <2>2, <1>a, ConstantsAssumption DEF TickDone
  <2>3. CASE TakeRefused(a) \/ AcceptRun(a) \/ FailRun(a)
    <3>1. FinishItem(a) /\ UNCHANGED envVars
      BY <2>3 DEF TakeRefused, AcceptRun, FailRun
    <3> QED
      BY <3>1, <1>a DEF FinishItem
  <2> QED
    BY <1>3, <2>1, <2>2, <2>3
<1>4. CASE ReadTaken(a)
  <2> DEFINE r == held[a].id
             copy == [id |-> r, owner |-> owner[r], token |-> token[r], attempt |-> attempt[r]]
  <2>1. r \in RunIds
    BY <1>4, <1>b DEF ReadTaken, Busy
  <2>2. copy \in RunCopies
    BY <2>1, <1>a DEF StoreTypeOK, RunCopies
  <2> QED
    BY <1>4, <1>a, <2>2 DEF ReadTaken
<1>5. CASE HeartbeatLost(a) \/ ReturnReceipt(a) \/ ReturnError(a)
  <2>1. held[a].id \in RunIds
    BY <1>5, <1>b DEF HeartbeatLost, ReturnReceipt, ReturnError, Busy
  <2> QED
    BY <1>5, <1>a, <2>1
    DEF HeartbeatLost, ReturnReceipt, ReturnError, MaybeDelivered, FinishItem
<1> QED
  BY <1>1, <1>2, <1>3, <1>4, <1>5 DEF Progress

\* Every step keeps the types of what the actors and the environment carry.
LEMMA ActorTypeStep == DispatchInv /\ [Next]_vars => ActorTypeOK'
<1> SUFFICES ASSUME DispatchInv, [Next]_vars
             PROVE  ActorTypeOK'
  OBVIOUS
<1>a. ActorTypeOK
  BY DEF DispatchInv
<1> USE DEF ActorTypeOK, PcValues, envVars, actorVars
<1>1. ASSUME NEW a \in Actors, Progress(a)
      PROVE  ActorTypeOK'
  BY <1>1, DueTypes, ItemTypes
<1>2. ASSUME NEW a \in Actors, Heartbeat(a) \/ Restart(a)
      PROVE  ActorTypeOK'
  BY <1>2, <1>a DEF Heartbeat, Restart
<1>3. ASSUME NEW a \in Actors, Crash(a)
      PROVE  ActorTypeOK'
  <2>1. <<>> \in Seq(ForwardTriggers) /\ 0 \in 0..Horizon
    BY EmptySeq, ConstantsAssumption
  <2> QED
    BY <1>3, <1>a, <2>1 DEF Crash
<1>4. ASSUME NEW a \in Actors, NEW d \in Definitions, TriggerNow(a, d)
      PROVE  ActorTypeOK'
  <2>1. <<d, clock>> \in RunIds
    BY <1>4, DispatchAssumption DEF TriggerNow, RunIds
  <2>2. <<PlainItem(<<d, clock>>)>> \in Seq(ForwardTriggers)
    BY <2>1, PlainItemType
  <2> QED
    BY <1>4, <1>a, <2>2 DEF TriggerNow, Issue
<1>5. CASE OperatorCommand
  <2>1. /\ commands' = commands + 1
        /\ UNCHANGED <<clock, delivered, faults>>
        /\ UNCHANGED actorVars
    BY <1>5, Zenon DEF OperatorCommand, Issue
  <2> QED
    BY <2>1, <1>a
<1>6. CASE ClockTick
  BY <1>6, <1>a, ConstantsAssumption DEF ClockTick
<1>7. ASSUME NEW r \in RunIds, DeadlinePasses(r) \/ HeartbeatStalls(r)
      PROVE  ActorTypeOK'
  BY <1>7, <1>a DEF DeadlinePasses, HeartbeatStalls
<1>8. CASE UNCHANGED vars
  BY <1>8, <1>a DEF vars
<1> QED
  BY <1>1, <1>2, <1>3, <1>4, <1>5, <1>6, <1>7, <1>8 DEF Next

-----------------------------------------------------------------------------
(* The actors' own invariant *)

\* What ActorInv(b) speaks of is the same before and after a step of another actor.
Untouched(b) ==
    pc'[b] = pc[b] /\ now'[b] = now[b] /\ rows'[b] = rows[b] /\ held'[b] = held[b]

\* An actor writes only its own variables, and no acceptance is taken back.
LEMMA OthersUntouched ==
    ASSUME ActorTypeOK, NEW a \in Actors, Progress(a)
    PROVE  /\ \A b \in Actors \ {a} : Untouched(b)
           /\ delivered \subseteq delivered'
<1> USE DEF ActorTypeOK, Untouched, envVars
<1>1. CASE DueStates(a)
  BY <1>1 DEF DueStates
<1>2. CASE DueRow(a)
  <2>1. UNCHANGED <<pc, now, held, delivered>> /\ \E S : rows' = [rows EXCEPT ![a] = S]
    BY <1>2 DEF DueRow
  <2> QED
    BY <2>1
<1>3. CASE DueRetries(a)
  BY <1>3 DEF DueRetries
<1>4. ASSUME NEW item \in CurrentItems(a),
             ClaimInsert(a, item) \/ ClaimRefused(a, item) \/ ClaimExisting(a, item)
      PROVE  /\ \A b \in Actors \ {a} : Untouched(b)
             /\ delivered \subseteq delivered'
  BY <1>4 DEF ClaimInsert, ClaimRefused, ClaimExisting
<1>5. CASE TakeOver(a) \/ ReadTaken(a) \/ TickDone(a)
  BY <1>5 DEF TakeOver, ReadTaken, TickDone
<1>6. CASE TakeRefused(a) \/ AcceptRun(a) \/ FailRun(a)
  <2>1. FinishItem(a) /\ UNCHANGED envVars
    BY <1>6 DEF TakeRefused, AcceptRun, FailRun
  <2> QED
    BY <2>1 DEF FinishItem
<1>7. CASE HeartbeatLost(a) \/ ReturnReceipt(a) \/ ReturnError(a)
  BY <1>7 DEF HeartbeatLost, ReturnReceipt, ReturnError, MaybeDelivered, FinishItem
<1> QED
  BY <1>1, <1>2, <1>3, <1>4, <1>5, <1>6, <1>7 DEF Progress

\* A step of its own keeps the actor's invariant.
LEMMA OwnStep ==
    ASSUME DispatchInv, NEW a \in Actors, Progress(a)
    PROVE  ActorInv(a)'
<1>a. ActorTypeOK /\ ActorInv(a) /\ StoreTypeOK /\ RowsConsistent
  BY DEF DispatchInv, RowsInv
<1> USE DEF ActorTypeOK, ActorInv, Busy, Working, envVars
<1>1. CASE DueStates(a)
  <2> DEFINE due == {[def |-> d, cursor |-> cursor[d]] :
                        d \in {e \in enabled : cursor[e] <= clock}}
  <2>1. \A row \in due : row.cursor <= clock
    OBVIOUS
  <2>2. PICK batch \in SUBSET due : rows' = [rows EXCEPT ![a] = batch]
    BY <1>1 DEF DueStates
  <2>3. pc'[a] = "due" /\ now'[a] = clock /\ rows'[a] = batch
    BY <1>1, <1>a, <2>2 DEF DueStates
  <2> QED
    BY <2>1, <2>3
<1>2. CASE DueRow(a)
  <2>1. /\ UNCHANGED <<pc, now, held, delivered>>
        /\ \E row : rows' = [rows EXCEPT ![a] = @ \ {row}]
    BY <1>2 DEF DueRow
  <2> QED
    BY <2>1, <1>a
<1>3. CASE DueRetries(a)
  <2>1. pc'[a] = "items" /\ rows'[a] = {}
    BY <1>3, <1>a DEF DueRetries
  <2> QED
    BY <2>1
<1>4. ASSUME NEW item \in CurrentItems(a), ClaimInsert(a, item)
      PROVE  ActorInv(a)'
  <2>1. [id |-> RunId(item), owner |-> OwnerOf[a], token |-> 1, attempt |-> 1] \in RunCopies
    BY <1>a, CurrentItemType, DispatchAssumption DEF RunCopies
  <2> QED
    BY <1>4, <1>a, <2>1 DEF ClaimInsert
<1>5. ASSUME NEW item \in CurrentItems(a), ClaimExisting(a, item)
      PROVE  ActorInv(a)'
  <2>1. [NoCopy EXCEPT !.id = RunId(item)] \in RunCopies
    BY <1>a, CurrentItemType DEF RunCopies, NoCopy
  <2> QED
    BY <1>5, <1>a, <2>1 DEF ClaimExisting
<1>6. ASSUME NEW item \in CurrentItems(a), ClaimRefused(a, item)
      PROVE  ActorInv(a)'
  BY <1>6, <1>a DEF ClaimRefused
<1>7. CASE TakeOver(a)
  BY <1>7, <1>a DEF TakeOver
<1>8. CASE ReadTaken(a)
  <2> DEFINE r == held[a].id
             copy == [id |-> r, owner |-> owner[r], token |-> token[r], attempt |-> attempt[r]]
  <2>1. r \in RunIds
    BY <1>8, <1>a DEF ReadTaken, RunCopies
  <2>2. copy \in RunCopies
    BY <2>1, <1>a DEF StoreTypeOK, RunCopies
  <2>3. owner[r] # NoOwner => attempt[r] = token[r]
    BY <2>1, <1>a DEF RowsConsistent
  <2>4. /\ pc[a] = "reading"
        /\ pc'[a] = "dispatching"
        /\ held'[a] = copy
        /\ UNCHANGED <<now, rows>>
    BY <1>8, <1>a DEF ReadTaken
  <2> QED
    BY <2>2, <2>3, <2>4, <1>a
<1>9. ASSUME pc[a] # "due", FinishItem(a)
      PROVE  ActorInv(a)'
  BY <1>9, <1>a DEF FinishItem
<1>10. CASE TakeRefused(a) \/ HeartbeatLost(a) \/ AcceptRun(a) \/ FailRun(a)
  BY <1>9, <1>10 DEF TakeRefused, HeartbeatLost, AcceptRun, FailRun
<1>11. CASE ReturnReceipt(a) \/ ReturnError(a)
  BY <1>11, <1>a DEF ReturnReceipt, ReturnError
<1>12. CASE TickDone(a)
  BY <1>12, <1>a DEF TickDone
<1> QED
  BY <1>1, <1>2, <1>3, <1>4, <1>5, <1>6, <1>7, <1>8, <1>10, <1>11, <1>12 DEF Progress

\* Every step keeps every actor's invariant: nothing another actor does makes what
\* an actor carries worse than stale.
LEMMA ActorInvStep == DispatchInv /\ [Next]_vars => \A b \in Actors : ActorInv(b)'
<1> SUFFICES ASSUME DispatchInv, [Next]_vars, NEW b \in Actors
             PROVE  ActorInv(b)'
  OBVIOUS
<1>a. ActorTypeOK /\ ActorInv(b)
  BY DEF DispatchInv
<1>1. ASSUME Untouched(b), delivered \subseteq delivered'
      PROVE  ActorInv(b)'
  BY <1>1, <1>a DEF ActorInv, Untouched
<1>2. ASSUME NEW a \in Actors, Progress(a)
      PROVE  ActorInv(b)'
  <2>1. CASE b = a
    BY <1>2, <2>1, OwnStep
  <2>2. CASE b # a
    BY <1>1, <1>2, <1>a, <2>2, OthersUntouched
  <2> QED
    BY <2>1, <2>2
<1>3. ASSUME NEW a \in Actors, Crash(a)
      PROVE  ActorInv(b)'
  <2>1. CASE b = a
    <3>1. pc'[b] = "down" /\ rows'[b] = {}
      BY <1>3, <1>a, <2>1 DEF Crash, ActorTypeOK
    <3> QED
      BY <3>1 DEF ActorInv, Busy, Working
  <2>2. CASE b # a
    BY <1>1, <1>3, <1>a, <2>2 DEF Crash, ActorTypeOK, Untouched
  <2> QED
    BY <2>1, <2>2
<1>4. ASSUME NEW a \in Actors,
             Restart(a) \/ \E d \in Definitions : TriggerNow(a, d)
      PROVE  ActorInv(b)'
  <2>1. UNCHANGED <<now, rows, held, delivered>>
    BY <1>4 DEF Restart, TriggerNow, Issue, envVars
  <2>2. CASE b = a
    <3>1. pc[b] \in {"idle", "down"} /\ pc'[b] \in {"idle", "items"}
      BY <1>4, <1>a, <2>2 DEF Restart, TriggerNow, ActorTypeOK
    <3> QED
      BY <3>1, <2>1, <1>a DEF ActorInv, Busy, Working
  <2>3. CASE b # a
    <3>1. pc'[b] = pc[b]
      BY <1>4, <1>a, <2>3 DEF Restart, TriggerNow, ActorTypeOK
    <3> QED
      BY <1>1, <2>1, <3>1 DEF Untouched
  <2> QED
    BY <2>2, <2>3
<1>5. CASE UNCHANGED <<pc, now, rows, held, delivered>>
  BY <1>1, <1>5 DEF Untouched
<1>6. CASE OperatorCommand
  <2>1. UNCHANGED <<pc, now, rows, held, delivered>>
    BY <1>6, Zenon DEF OperatorCommand, Issue, actorVars
  <2> QED
    BY <2>1, <1>5
<1>7. ASSUME NEW a \in Actors, Heartbeat(a)
      PROVE  ActorInv(b)'
  BY <1>5, <1>7 DEF Heartbeat, actorVars, envVars
<1>8. ASSUME NEW r \in RunIds, DeadlinePasses(r) \/ HeartbeatStalls(r)
      PROVE  ActorInv(b)'
  BY <1>5, <1>8 DEF DeadlinePasses, HeartbeatStalls, actorVars, envVars
<1>9. CASE ClockTick \/ UNCHANGED vars
  BY <1>5, <1>9 DEF ClockTick, vars, actorVars, envVars
<1> QED
  BY <1>2, <1>3, <1>4, <1>6, <1>7, <1>8, <1>9 DEF Next

-----------------------------------------------------------------------------
(* Success means delivered *)

\* Only the acceptance of a receipt makes a run succeed.
LEMMA DeliveredStep == DispatchInv /\ [Next]_vars => SucceededWasDelivered'
<1> SUFFICES ASSUME DispatchInv, [Next]_vars, NEW r \in RunIds, status'[r] = "succeeded"
             PROVE  r \in delivered'
  BY DEF SucceededWasDelivered
<1>a. /\ StoreTypeOK /\ ActorTypeOK
      /\ status[r] = "succeeded" => r \in delivered
      /\ \A a \in Actors : ActorInv(a)
  BY DEF DispatchInv, SucceededWasDelivered
<1>1. ASSUME status[r] = "succeeded", delivered \subseteq delivered'
      PROVE  r \in delivered'
  BY <1>1, <1>a
<1>2. ASSUME NEW a \in Actors, Progress(a)
      PROVE  r \in delivered'
  <2>a. delivered \subseteq delivered'
    BY <1>2, <1>a, OthersUntouched
  <2>b. pc[a] \in Busy => held[a].id \in RunIds
    BY <1>a DEF ActorInv, RunCopies
  <2>1. CASE DueRow(a)
    <3>1. UNCHANGED status
      BY <2>1, DueRowUsesStore, DefinitionStepKeepsRuns DEF storeVars
    <3> QED
      BY <3>1, <1>1, <2>a
  <2>2. ASSUME NEW item \in CurrentItems(a), ClaimInsert(a, item)
        PROVE  r \in delivered'
    <3>1. status' = [status EXCEPT ![RunId(item)] = "leased"]
      BY <2>2 DEF ClaimInsert, ClaimNew
    <3>2. status[r] = "succeeded"
      BY <3>1, <1>a DEF StoreTypeOK
    <3> QED
      BY <3>2, <1>1, <2>a
  <2>3. CASE TakeOver(a)
    <3>1. status' = [status EXCEPT ![held[a].id] = "leased"]
      BY <2>3 DEF TakeOver, TakeExpired
    <3>2. status[r] = "succeeded"
      BY <3>1, <1>a DEF StoreTypeOK
    <3> QED
      BY <3>2, <1>1, <2>a
  <2>4. CASE AcceptRun(a)
    <3>1. held[a].id \in delivered
      BY <2>4, <1>a DEF AcceptRun, ActorInv
    <3>2. \/ UNCHANGED status
          \/ status' = [status EXCEPT ![held[a].id] = "succeeded"]
      BY <2>4 DEF AcceptRun, Accept, storeVars
    <3>3. status[r] = "succeeded" \/ r = held[a].id
      BY <3>2, <1>a DEF StoreTypeOK
    <3> QED
      BY <3>1, <3>3, <1>1, <2>a
  <2>5. CASE FailRun(a)
    <3>1. \/ UNCHANGED status
          \/ status' = [status EXCEPT ![held[a].id] = "retrying"]
          \/ status' = [status EXCEPT ![held[a].id] = "dead_letter"]
      BY <2>5 DEF FailRun, Fail, storeVars
    <3>2. status[r] = "succeeded"
      BY <3>1, <1>a DEF StoreTypeOK
    <3> QED
      BY <3>2, <1>1, <2>a
  <2>6. ASSUME UNCHANGED storeVars
        PROVE  r \in delivered'
    BY <2>6, <1>1, <2>a DEF storeVars
  <2>7. ASSUME NEW item \in CurrentItems(a), ClaimRefused(a, item) \/ ClaimExisting(a, item)
        PROVE  r \in delivered'
    BY <2>6, <2>7 DEF ClaimRefused, ClaimExisting
  <2>8. CASE \/ DueStates(a) \/ DueRetries(a) \/ TakeRefused(a) \/ ReadTaken(a)
             \/ HeartbeatLost(a) \/ ReturnReceipt(a) \/ ReturnError(a) \/ TickDone(a)
    BY <2>6, <2>8 DEF DueStates, DueRetries, TakeRefused, ReadTaken, HeartbeatLost,
                      ReturnReceipt, ReturnError, TickDone
  <2> QED
    BY <1>2, <2>1, <2>2, <2>3, <2>4, <2>5, <2>7, <2>8 DEF Progress
<1>3. ASSUME NEW a \in Actors, Heartbeat(a)
      PROVE  r \in delivered'
  BY <1>1, <1>3 DEF Heartbeat, Renew, envVars
<1>4. ASSUME NEW a \in Actors,
             Crash(a) \/ Restart(a) \/ \E d \in Definitions : TriggerNow(a, d)
      PROVE  r \in delivered'
  BY <1>1, <1>4 DEF Crash, Restart, TriggerNow, Issue, storeVars, envVars
<1>5. CASE OperatorCommand
  <2>1. UNCHANGED delivered
    BY <1>5, Zenon DEF OperatorCommand, Issue
  <2>2. ASSUME NEW s \in RunIds,
               (\E o \in Owners : Retry(o, s)) \/ Cancel(s) \/ ResolveDeadLetter(s)
        PROVE  status[r] = "succeeded"
    BY <2>2, <1>a DEF Retry, Cancel, ResolveDeadLetter, StoreTypeOK
  <2>3. ASSUME NEW d \in Definitions, NEW t,
               Reschedule(d, t) \/ ReconcileChanged(d, t, TRUE)
        PROVE  status[r] = "succeeded"
    BY <2>3 DEF Reschedule, ReconcileChanged, PlaceCursor
  <2>4. status[r] = "succeeded"
    BY <1>5, <2>2, <2>3, Zenon DEF OperatorCommand
  <2> QED
    BY <2>1, <2>4, <1>1
<1>6. ASSUME NEW s \in RunIds, DeadlinePasses(s) \/ HeartbeatStalls(s)
      PROVE  r \in delivered'
  BY <1>1, <1>6 DEF DeadlinePasses, HeartbeatStalls, Elapse, envVars
<1>7. CASE ClockTick \/ UNCHANGED vars
  BY <1>1, <1>7 DEF ClockTick, vars, storeVars, envVars
<1> QED
  BY <1>2, <1>3, <1>4, <1>5, <1>6, <1>7 DEF Next

-----------------------------------------------------------------------------
(* Theorems *)

\* The invariant holds initially: the actors carry nothing and no run exists.
LEMMA DispatchInvInit == Init => DispatchInv
<1> SUFFICES ASSUME Init
             PROVE  DispatchInv
  OBVIOUS
<1>1. StoreTypeOK
  BY ConstantsAssumption, ScheduleAssumption DEF Init, StoreInit, StoreTypeOK, Statuses
<1>2. RowsInv
  BY ConstantsAssumption DEF Init, StoreInit, RowsInv, RowsConsistent, DeadLetterEvidence,
                             RetryBudget, Active
<1>3. TokensBounded /\ SucceededWasDelivered
  BY ConstantsAssumption DEF Init, StoreInit, TokensBounded, SucceededWasDelivered
<1>4. ActorTypeOK
  <2>1. <<>> \in Seq(ForwardTriggers) /\ 0 \in 0..Horizon
    BY EmptySeq, ConstantsAssumption
  <2> QED
    BY <2>1 DEF Init, ActorTypeOK, PcValues
<1>5. \A a \in Actors : ActorInv(a)
  BY DEF Init, ActorInv, Busy, Working
<1> QED
  BY <1>1, <1>2, <1>3, <1>4, <1>5 DEF DispatchInv

\* Whatever is scanned, claimed, taken over, lost, crashed or commanded in between,
\* the store's rows stay consistent and what each actor carries stays usable.
THEOREM DispatchInvariant == Spec => []DispatchInv
<1>1. DispatchInv /\ [Next]_vars => DispatchInv'
  <2> SUFFICES ASSUME DispatchInv, [Next]_vars
               PROVE  DispatchInv'
    OBVIOUS
  <2>1. [StoreNext]_storeVars
    BY StoreSimulation
  <2>2. StoreTypeOK' /\ RowsInv' /\ TokensBounded'
    BY <2>1, TypeStep, RowsStep, TokensStep DEF DispatchInv
  <2>3. ActorTypeOK' /\ SucceededWasDelivered' /\ \A a \in Actors : ActorInv(a)'
    BY ActorTypeStep, DeliveredStep, ActorInvStep
  <2> QED
    BY <2>2, <2>3 DEF DispatchInv
<1> QED
  BY <1>1, DispatchInvInit, PTL DEF Spec

\* Every variable of the dispatcher keeps its type; in particular an actor that works
\* on a run always holds a copy of an existing run.
THEOREM DispatchTypes == Spec => []DispatchTypeOK
<1>1. DispatchInv => DispatchTypeOK
  <2> SUFFICES ASSUME DispatchInv
               PROVE  DispatchTypeOK
    OBVIOUS
  <2>1. StoreTypeOK /\ ActorTypeOK /\ \A a \in Actors : ActorInv(a)
    BY DEF DispatchInv
  <2>2. queue \in [Actors -> Seq(DueTriggers)]
    BY <2>1, QueueType DEF ActorTypeOK
  <2> QED
    BY <2>1, <2>2 DEF DispatchTypeOK, ActorTypeOK, ActorInv
<1> QED
  BY <1>1, DispatchInvariant, PTL

\* A succeeded run was accepted by the downstream owner, whatever crashes, takeovers
\* and lost answers came before the acceptance that was recorded.
THEOREM SuccessMeansDelivered == Spec => []SucceededWasDelivered
  BY DispatchInvariant, PTL DEF DispatchInv

\* The dispatcher implements the store's specification: stale scans, stale copies,
\* crashed actors and heartbeats of lost leases never write what RunStore forbids.
THEOREM DispatcherUsesStore == Spec => StoreSpec
<1>1. Init => StoreInit
  BY DEF Init
<1> QED
  BY <1>1, StoreSimulation, DispatchInvariant, PTL DEF Spec, StoreSpec

\* So every guarantee of the store is one of the dispatcher, for any number of
\* processes: the bounded backlog, no lost window, the retry budget, dead letters
\* that agree with the runs, and final outcomes that no late answer changes.
COROLLARY StoreGuaranteesKept ==
    Spec => /\ [](BacklogBounded /\ WindowsAccounted /\ RetryBudget)
            /\ [](DeadLetterEvidence /\ RowsConsistent)
            /\ SettledIsFinal
  BY DispatcherUsesStore, BacklogNeverExceeded, WindowsNeverLost, RetryBudgetKept,
     DeadLettersCorrect, RowsStayConsistent, SettledStaysFinal, PTL

\* A late answer never settles a run on behalf of a newer attempt.
THEOREM OnlyLatestSettles == Spec => OnlyLatestAttemptSettles
<1> DEFINE Settles(a) == /\ pc[a] \in {"accepting", "failing"}
                         /\ pc'[a] = "items"
                         /\ status'[held[a].id] # status[held[a].id]
           Latest == \A a \in Actors : Settles(a) => held[a].attempt = attempt[held[a].id]
<1>1. DispatchInv /\ [Next]_vars => [Latest]_vars
  <2> SUFFICES ASSUME DispatchInv, Next, NEW a \in Actors, Settles(a)
               PROVE  held[a].attempt = attempt[held[a].id]
    OBVIOUS
  <2>a. ActorTypeOK /\ StoreTypeOK /\ RowsConsistent
    BY DEF DispatchInv, RowsInv
  <2>1. pc'[a] # pc[a] /\ pc'[a] # "down" /\ pc[a] \in Working
    BY DEF Working
  <2>2. ASSUME NEW b \in Actors, Progress(b)
        PROVE  AcceptRun(a) \/ FailRun(a)
    <3>1. b = a
      BY <2>1, <2>2, <2>a, OthersUntouched DEF Untouched
    <3> QED
      BY <2>2, <3>1
      DEF Progress, DueStates, DueRow, DueRetries, ClaimInsert, ClaimRefused,
          ClaimExisting, TakeOver, TakeRefused, ReadTaken, HeartbeatLost,
          ReturnReceipt, ReturnError, TickDone
  <2>3. ASSUME NEW b \in Actors,
               Crash(b) \/ Restart(b) \/ \E d \in Definitions : TriggerNow(b, d)
        PROVE  FALSE
    <3>1. /\ pc[b] \notin Working \/ pc'[b] = "down"
          /\ \A e \in Actors \ {b} : pc'[e] = pc[e]
      BY <2>3, <2>a DEF Crash, Restart, TriggerNow, ActorTypeOK, Working
    <3> QED
      BY <3>1, <2>1
  <2>4. ASSUME NEW b \in Actors, Heartbeat(b)
        PROVE  FALSE
    BY <2>1, <2>4 DEF Heartbeat, actorVars
  <2>5. ASSUME OperatorCommand \/ ClockTick
        PROVE  FALSE
    <3>1. UNCHANGED pc
      BY <2>5, Zenon DEF OperatorCommand, ClockTick, actorVars
    <3> QED
      BY <3>1, <2>1
  <2>6. ASSUME NEW r \in RunIds, DeadlinePasses(r) \/ HeartbeatStalls(r)
        PROVE  FALSE
    BY <2>1, <2>6 DEF DeadlinePasses, HeartbeatStalls, actorVars
  <2>7. AcceptRun(a) \/ FailRun(a)
    BY <2>2, <2>3, <2>4, <2>5, <2>6 DEF Next
  <2>8. Accept(held[a]) \/ Fail(held[a])
    BY <2>7 DEF AcceptRun, FailRun, storeVars
  <2>9. LiveLease(held[a])
    BY <2>8 DEF Accept, Fail
  <2>10. held[a] \in HeldCopies
    BY <2>1, <2>9, LiveCopyIsHeld
  <2> QED
    BY <2>9, <2>10, <2>a, LiveCopyIsCurrent
<1> QED
  BY <1>1, DispatchInvariant, PTL DEF Spec, OnlyLatestAttemptSettles

\* Workers never move a cursor backwards, however late an item is claimed.
THEOREM WorkersMoveForward == Spec => CursorNeverRegresses
<1> DEFINE Forward == \A d \in Definitions : cursor'[d] < cursor[d] => commands' # commands
<1>1. DispatchInv /\ [Next]_vars => [Forward]_vars
  <2> SUFFICES ASSUME DispatchInv, Next, NEW d \in Definitions, cursor'[d] < cursor[d]
               PROVE  commands' # commands
    OBVIOUS
  <2>a. ActorTypeOK /\ StoreTypeOK /\ \A a \in Actors : ActorInv(a)
    BY DEF DispatchInv
  <2>b. cursor[d] \in Nat /\ ~(cursor[d] < cursor[d])
    BY <2>a, ConstantsAssumption DEF StoreTypeOK, Cursors
  <2>1. ASSUME NEW a \in Actors, DueRow(a)
        PROVE  FALSE
    <3>1. Remaining(a) > 0
      BY <2>1 DEF DueRow
    <3>2. PICK row \in rows[a] :
             \E res \in Resolutions(row.def, row.cursor, now[a], Remaining(a)) :
                \/ UNCHANGED storeVars
                \/ /\ res.windows = <<>>
                   /\ FastForward(row.def, row.cursor, res.after, res.disable)
      BY <2>1 DEF DueRow
    <3>3. PICK res \in Resolutions(row.def, row.cursor, now[a], Remaining(a)) :
                \/ UNCHANGED storeVars
                \/ /\ res.windows = <<>>
                   /\ FastForward(row.def, row.cursor, res.after, res.disable)
      BY <3>2
    <3>4. /\ row.def \in Definitions
          /\ row.cursor \in Instants
          /\ res.after \in 0..(Horizon + 1)
          /\ res.windows = <<>> /\ res.after # 0 => row.cursor < res.after
      BY <3>1, <2>a, ResolutionType
    <3>5. CASE UNCHANGED storeVars
      BY <3>5, <2>b DEF storeVars
    <3>6. CASE res.windows = <<>> /\ FastForward(row.def, row.cursor, res.after, res.disable)
      <4>1. /\ cursor[row.def] = row.cursor
            /\ cursor' = [cursor EXCEPT ![row.def] = IF res.after = 0 THEN row.cursor
                                                     ELSE res.after]
        BY <3>6 DEF FastForward, CursorIs, PlaceCursor
      <4> QED
        BY <4>1, <3>4, <3>6, <2>a, <2>b, ConstantsAssumption DEF StoreTypeOK, Instants
    <3> QED
      BY <3>3, <3>5, <3>6
  <2>2. ASSUME NEW a \in Actors, NEW item \in CurrentItems(a), ClaimInsert(a, item)
        PROVE  FALSE
    <3>1. item \in ForwardTriggers /\ item \in DueTriggers
      BY <2>a, CurrentItemType
    <3>2. /\ item.def \in Definitions
          /\ item.at \in Instants
          /\ item.next \in 0..(Horizon + 1)
          /\ item.next # 0 => item.at < item.next
      BY <3>1 DEF ForwardTriggers, DueTriggers
    <3>3. \/ NextSchedule[item.def][item.at] = 0
          \/ /\ NextSchedule[item.def][item.at] > item.at
             /\ NextSchedule[item.def][item.at] \in Cursors
      BY <3>2, ScheduleAssumption, ConstantsAssumption DEF Instants
    <3>4. AdvancedCursor(item) >= item.at /\ AdvancedCursor(item) \in Nat /\ item.at \in Nat
      BY <3>2, <3>3, ConstantsAssumption DEF AdvancedCursor, Instants, Cursors
    <3>5. CASE UNCHANGED cursor
      BY <3>5, <2>b
    <3>6. CASE AdvanceCursor(item)
      <4>1. /\ cursor[item.def] = item.at
            /\ cursor' = [cursor EXCEPT ![item.def] = AdvancedCursor(item)]
        BY <3>6 DEF AdvanceCursor, CursorIs
      <4> QED
        BY <4>1, <3>2, <3>4, <2>a, <2>b DEF StoreTypeOK
    <3> QED
      BY <2>2, <3>5, <3>6 DEF ClaimInsert, ClaimNew, definitionVars
  <2>3. ASSUME UNCHANGED cursor
        PROVE  FALSE
    BY <2>3, <2>b
  <2>4. ASSUME NEW a \in Actors, Progress(a)
        PROVE  FALSE
    <3>1. ASSUME NEW item \in CurrentItems(a), ClaimRefused(a, item) \/ ClaimExisting(a, item)
          PROVE  FALSE
      BY <3>1, <2>3 DEF ClaimRefused, ClaimExisting, storeVars
    <3>2. CASE TakeOver(a) \/ AcceptRun(a) \/ FailRun(a)
      BY <3>2, <2>3 DEF TakeOver, TakeExpired, AcceptRun, Accept, FailRun, Fail, storeVars
    <3>3. CASE \/ DueStates(a) \/ DueRetries(a) \/ TakeRefused(a) \/ ReadTaken(a)
               \/ HeartbeatLost(a) \/ ReturnReceipt(a) \/ ReturnError(a) \/ TickDone(a)
      BY <3>3, <2>3 DEF DueStates, DueRetries, TakeRefused, ReadTaken, HeartbeatLost,
                        ReturnReceipt, ReturnError, TickDone, storeVars
    <3> QED
      BY <2>4, <2>1, <2>2, <3>1, <3>2, <3>3 DEF Progress
  <2>5. ASSUME NEW a \in Actors,
               \/ Heartbeat(a) \/ Crash(a) \/ Restart(a)
               \/ \E e \in Definitions : TriggerNow(a, e)
        PROVE  FALSE
    BY <2>5, <2>3 DEF Heartbeat, Renew, Crash, Restart, TriggerNow, storeVars
  <2>6. CASE OperatorCommand
    <3>1. commands' = commands + 1
      BY <2>6, Zenon DEF OperatorCommand, Issue
    <3> QED
      BY <3>1, <2>a DEF ActorTypeOK
  <2>7. ASSUME NEW r \in RunIds, DeadlinePasses(r) \/ HeartbeatStalls(r)
        PROVE  FALSE
    BY <2>7, <2>3 DEF DeadlinePasses, HeartbeatStalls, Elapse
  <2>8. CASE ClockTick
    BY <2>8, <2>3 DEF ClockTick, storeVars
  <2> QED
    BY <2>4, <2>5, <2>6, <2>7, <2>8 DEF Next
<1> QED
  BY <1>1, DispatchInvariant, PTL DEF Spec, CursorNeverRegresses
=============================================================================
