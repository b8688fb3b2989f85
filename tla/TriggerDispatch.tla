--------------------------- MODULE TriggerDispatch ---------------------------
(***************************************************************************)
(* The Scheduler service on top of the run store: poll loops (Tick) and    *)
(* manual triggers (TriggerNow) of several processes scan for due work,    *)
(* claim it, dispatch it downstream under a heartbeat and settle it.       *)
(*                                                                         *)
(* An actor is one goroutine that runs Tick or TriggerNow; the actors of a *)
(* process share its worker id.  Every database call is a step of its own, *)
(* so what an actor scanned or read may be stale when it is used.          *)
(***************************************************************************)
EXTENDS RunStore, Sequences

CONSTANTS
    Actors,                         \* goroutines that dispatch runs
    OwnerOf,                        \* the worker id of each actor's process
    BatchLimit,                     \* the limit of Due (WorkerConfig.BatchSize)
    Resolutions(_, _, _, _),        \* what schedule.ResolveMisfire(def, cursor, now, remaining)
                                    \* returns under the policies a revision of def may have
    InitialNextRunAt,               \* the definitions' InitialNextRunAt, 0 when zero
    ManualInstants,                 \* instants that operators trigger at and reschedule to
    Commands,                       \* operator commands this instance exercises
    MaxCommands,                    \* bound on operator commands
    MaxFaults                       \* bound on crashes and stalled heartbeats

ASSUME DispatchAssumption ==
    /\ OwnerOf \in [Actors -> Owners]
    /\ BatchLimit \in Nat \ {0}
    /\ InitialNextRunAt \in [Definitions -> 0..Horizon]
    /\ ManualInstants \subseteq Instants
    /\ MaxCommands \in Nat
    /\ MaxFaults \in Nat

\* What Due relies on: windows start at the cursor, respect the batch and come in
\* order, and the cursor moves past them.
ASSUME MisfireAssumption ==
    \A d \in Definitions, c \in Instants, n \in Instants, k \in 1..BatchLimit :
        c <= n => \A res \in Resolutions(d, c, n, k) :
            /\ res \in [windows: Seq(Instants), after: 0..(Horizon + 1), disable: BOOLEAN]
            /\ Len(res.windows) <= k
            /\ res.windows # <<>> => res.windows[1] = c
            /\ \A i \in 1..Len(res.windows) : res.after # 0 => res.windows[i] < res.after
            /\ res.windows = <<>> /\ res.after # 0 => c < res.after

VARIABLES
    pc,         \* control state of each actor
    now,        \* the time the actor's Tick started with
    rows,       \* definition rows Due has read and not yet resolved
    queue,      \* due windows still to dispatch, in order
    retries,    \* due retries and expired leases still to dispatch
    held,       \* the run copy the actor works with
    clock,      \* wall clock
    delivered,  \* history: runs the downstream owner has accepted at least once
    commands,   \* operator commands issued so far
    faults      \* faults injected so far

actorVars == <<pc, now, rows, queue, retries, held>>
envVars   == <<clock, delivered, commands, faults>>
vars      == <<storeVars, actorVars, envVars>>

PcValues == {"idle", "due", "items", "taking", "reading", "dispatching",
             "accepting", "failing", "down"}
Busy     == {"taking", "reading", "dispatching", "accepting", "failing"}
NoCopy   == [id |-> <<>>, owner |-> NoOwner, token |-> 0, attempt |-> 0]
DueRows  == [def: Definitions, cursor: Instants]

DispatchTypeOK ==
    /\ StoreTypeOK
    /\ pc \in [Actors -> PcValues]
    /\ now \in [Actors -> 0..Horizon]
    /\ rows \in [Actors -> SUBSET DueRows]
    /\ queue \in [Actors -> Seq(DueTriggers)]
    /\ retries \in [Actors -> SUBSET RunIds]
    /\ held \in [Actors -> RunCopies \union {NoCopy}]
    /\ \A a \in Actors : pc[a] \in Busy => held[a] \in RunCopies
    /\ clock \in 0..Horizon
    /\ delivered \subseteq RunIds
    /\ commands \in Nat
    /\ faults \in Nat

-----------------------------------------------------------------------------
(* Due: one scan of the definition rows, one step per row, one scan of runs *)

\* ORDER BY key LIMIT n over the set S: batch holds the n smallest.
IsBatch(batch, S, key, n) ==
    /\ \A x \in batch, y \in S \ batch : key[x] <= key[y]
    /\ \/ Cardinality(batch) = n
       \/ batch = S /\ Cardinality(batch) <= n

DueStates(a) ==
    LET due == {[def |-> d, cursor |-> cursor[d]] :
                    d \in {e \in enabled : cursor[e] <= clock}}
    IN  /\ pc[a] = "idle"
        /\ \E batch \in SUBSET due :
              /\ IsBatch(batch, due, [row \in due |-> row.cursor], BatchLimit)
              /\ rows' = [rows EXCEPT ![a] = batch]
        /\ pc'  = [pc EXCEPT ![a] = "due"]
        /\ now' = [now EXCEPT ![a] = clock]
        /\ UNCHANGED <<storeVars, queue, retries, held, envVars>>

Remaining(a) == BatchLimit - Len(queue[a])

\* The due items of one row: only the last one carries the policy's next cursor.
WindowItems(d, res) ==
    [i \in 1..Len(res.windows) |->
        [kind |-> "window", def |-> d, at |-> res.windows[i],
         next |-> IF i = Len(res.windows) THEN res.after ELSE 0]]

DueRow(a) ==
    /\ pc[a] = "due"
    /\ Remaining(a) > 0
    /\ \E row \in rows[a] :
          \E res \in Resolutions(row.def, row.cursor, now[a], Remaining(a)) :
              /\ \A other \in rows[a] : row.cursor <= other.cursor
              /\ rows' = [rows EXCEPT ![a] = @ \ {row}]
              /\ IF res.windows # <<>>
                 THEN /\ queue' = [queue EXCEPT ![a] = @ \o WindowItems(row.def, res)]
                      /\ UNCHANGED storeVars
                 ELSE /\ \/ /\ res.after # 0 \/ res.disable
                            /\ FastForward(row.def, row.cursor, res.after, res.disable)
                         \/ /\ ~ ( /\ res.after # 0 \/ res.disable
                                   /\ CursorIs(row.def, row.cursor) )
                            /\ UNCHANGED storeVars
                      /\ UNCHANGED queue
    /\ UNCHANGED <<pc, now, retries, held, envVars>>

DueRetries(a) ==
    LET due == {r \in RunIds : Takeable(r)}
    IN  /\ pc[a] = "due"
        /\ rows[a] = {} \/ Remaining(a) <= 0
        /\ \E batch \in SUBSET due :
              /\ IF Remaining(a) <= 0 THEN batch = {}
                 ELSE IsBatch(batch, due, [r \in due |-> r[2]], Remaining(a))
              /\ retries' = [retries EXCEPT ![a] = batch]
        /\ rows' = [rows EXCEPT ![a] = {}]
        /\ pc' = [pc EXCEPT ![a] = "items"]
        /\ UNCHANGED <<storeVars, now, queue, held, envVars>>

-----------------------------------------------------------------------------
(* Claim and takeExpired, as Tick's dispatch loop and TriggerNow call them *)

PlainItem(r) == [kind |-> "plain", def |-> r[1], at |-> r[2], next |-> 0]

\* The item the loop is at: queued windows first, then retries in order.
CurrentItems(a) ==
    IF queue[a] # <<>> THEN {Head(queue[a])}
    ELSE {PlainItem(r) : r \in {s \in retries[a] : \A t \in retries[a] : s[2] <= t[2]}}

\* The loop moves past the item it has just claimed or given up.
NextItem(a, item) ==
    IF queue[a] # <<>>
    THEN queue' = [queue EXCEPT ![a] = Tail(@)] /\ UNCHANGED retries
    ELSE retries' = [retries EXCEPT ![a] = @ \ {RunId(item)}] /\ UNCHANGED queue

ClaimInsert(a, item) ==
    /\ pc[a] = "items"
    /\ NextItem(a, item)
    /\ ClaimNew(OwnerOf[a], item)
    /\ held' = [held EXCEPT ![a] = [id |-> RunId(item), owner |-> OwnerOf[a],
                                    token |-> 1, attempt |-> 1]]
    /\ pc' = [pc EXCEPT ![a] = "dispatching"]
    /\ UNCHANGED <<now, rows, envVars>>

\* ErrTriggerBacklogFull, or the cursor moved since Due read it: nothing is
\* written and the loop goes on.
ClaimRefused(a, item) ==
    /\ pc[a] = "items"
    /\ NextItem(a, item)
    /\ status[RunId(item)] = "absent"
    /\ ~CapacityLeft(OwnerOf[a]) \/ (item.kind = "window" /\ ~CursorIs(item.def, item.at))
    /\ UNCHANGED <<storeVars, pc, now, rows, held, envVars>>

\* The run exists: the transaction is rolled back and takeExpired is tried next.
\* The cursor stays where it is.
ClaimExisting(a, item) ==
    /\ pc[a] = "items"
    /\ NextItem(a, item)
    /\ status[RunId(item)] # "absent"
    /\ held' = [held EXCEPT ![a] = [NoCopy EXCEPT !.id = RunId(item)]]
    /\ pc' = [pc EXCEPT ![a] = "taking"]
    /\ UNCHANGED <<storeVars, now, rows, envVars>>

\* Returning from one item: the actor forgets the copy.
FinishItem(a) ==
    /\ pc'   = [pc EXCEPT ![a] = "items"]
    /\ held' = [held EXCEPT ![a] = NoCopy]
    /\ UNCHANGED <<now, rows, queue, retries>>

TakeOver(a) ==
    /\ pc[a] = "taking"
    /\ TakeExpired(OwnerOf[a], held[a].id)
    /\ pc' = [pc EXCEPT ![a] = "reading"]
    /\ UNCHANGED <<now, rows, queue, retries, held, envVars>>

TakeRefused(a) ==
    /\ pc[a] = "taking"
    /\ ~(Takeable(held[a].id) /\ token[held[a].id] < TokenBound)
    /\ FinishItem(a)
    /\ UNCHANGED <<storeVars, envVars>>

\* Faulty variant: the copy carries the attempt from before the update.
ReadTakenStaleAttempt(a) ==
    LET r == held[a].id
    IN  /\ pc[a] = "reading"
        /\ held' = [held EXCEPT ![a] = [id |-> r, owner |-> owner[r],
                                        token |-> token[r], attempt |-> attempt[r] - 1]]
        /\ pc' = [pc EXCEPT ![a] = "dispatching"]
        /\ UNCHANGED <<storeVars, now, rows, queue, retries, envVars>>

\* takeExpired's read of the row it has just updated: a statement of its own that
\* returns whatever the row holds by then.
ReadTaken(a) ==
    LET r == held[a].id
    IN  /\ pc[a] = "reading"
        /\ held' = [held EXCEPT ![a] = [id |-> r, owner |-> owner[r],
                                        token |-> token[r], attempt |-> attempt[r]]]
        /\ pc' = [pc EXCEPT ![a] = "dispatching"]
        /\ UNCHANGED <<storeVars, now, rows, queue, retries, envVars>>

-----------------------------------------------------------------------------
(* dispatchClaimed *)

\* The heartbeat runs only for a copy with a valid lease.
Heartbeat(a) ==
    /\ pc[a] = "dispatching"
    /\ held[a].owner # NoOwner
    /\ Renew(held[a])
    /\ UNCHANGED <<actorVars, envVars>>

\* The call may or may not have reached the downstream owner.
MaybeDelivered(a) ==
    delivered' \in {delivered, delivered \union {held[a].id}}

\* A heartbeat found the lease gone: the call is cancelled and the run is left to
\* its new holder, whatever the call has done.
HeartbeatLost(a) ==
    /\ pc[a] = "dispatching"
    /\ held[a].owner # NoOwner
    /\ ~LiveLease(held[a])
    /\ MaybeDelivered(a)
    /\ FinishItem(a)
    /\ UNCHANGED <<storeVars, clock, commands, faults>>

\* The dispatcher answers with a durable receipt.
ReturnReceipt(a) ==
    /\ pc[a] = "dispatching"
    /\ delivered' = delivered \union {held[a].id}
    /\ pc' = [pc EXCEPT ![a] = "accepting"]
    /\ UNCHANGED <<storeVars, now, rows, queue, retries, held, clock, commands, faults>>

\* Faulty variant: an answer without a receipt is taken for acceptance.
ReturnErrorAccepted(a) ==
    /\ pc[a] = "dispatching"
    /\ MaybeDelivered(a)
    /\ pc' = [pc EXCEPT ![a] = "accepting"]
    /\ UNCHANGED <<storeVars, now, rows, queue, retries, held, clock, commands, faults>>

\* The dispatcher fails, times out or returns no receipt.
ReturnError(a) ==
    /\ pc[a] = "dispatching"
    /\ MaybeDelivered(a)
    /\ pc' = [pc EXCEPT ![a] = "failing"]
    /\ UNCHANGED <<storeVars, now, rows, queue, retries, held, clock, commands, faults>>

AcceptRun(a) ==
    /\ pc[a] = "accepting"
    /\ IF LiveLease(held[a]) THEN Accept(held[a]) ELSE UNCHANGED storeVars
    /\ FinishItem(a)
    /\ UNCHANGED envVars

\* Fail's error is dropped: a lost lease or a refused dead letter leaves the row.
FailRun(a) ==
    /\ pc[a] = "failing"
    /\ \/ Fail(held[a])
       \/ /\ ~LiveLease(held[a]) \/ (Terminal(held[a]) /\ deadLetter[held[a].id] # "none")
          /\ UNCHANGED storeVars
    /\ FinishItem(a)
    /\ UNCHANGED envVars

TickDone(a) ==
    /\ pc[a] = "items"
    /\ queue[a] = <<>> /\ retries[a] = {}
    /\ pc'  = [pc EXCEPT ![a] = "idle"]
    /\ now' = [now EXCEPT ![a] = 0]
    /\ UNCHANGED <<storeVars, rows, queue, retries, held, envVars>>

-----------------------------------------------------------------------------
(* Operators, clock and faults *)

Issue(command) ==
    /\ command \in Commands
    /\ commands < MaxCommands
    /\ commands' = commands + 1
    /\ UNCHANGED <<clock, delivered, faults>>

\* TriggerNow: a manual run of a published definition, scheduled for now.
TriggerNow(a, d) ==
    /\ pc[a] = "idle"
    /\ clock \in ManualInstants
    /\ Issue("trigger")
    /\ queue' = [queue EXCEPT ![a] = <<PlainItem(<<d, clock>>)>>]
    /\ pc' = [pc EXCEPT ![a] = "items"]
    /\ UNCHANGED <<storeVars, now, rows, retries, held>>

\* A one-time plan is projected at its own instant, whatever the time.
PlanInstant(d) == NextSchedule[d][0]

\* The cursor a new revision of d gets: a published definition its next window, or
\* its InitialNextRunAt when that is earlier; a one-time plan its instant.  (A
\* definition without any window left is not published here: its cursor would be 0.)
ReconciledCursor(d) ==
    LET next == NextSchedule[d][clock]
    IN  IF d \in Once THEN PlanInstant(d)
        ELSE IF InitialNextRunAt[d] # 0 /\ InitialNextRunAt[d] < next
             THEN InitialNextRunAt[d] ELSE next

OperatorCommand ==
    /\ \/ Issue("retry") /\ \E o \in Owners, r \in RunIds : Retry(o, r)
       \/ Issue("cancel") /\ \E r \in RunIds : Cancel(r)
       \/ Issue("resolve") /\ \E r \in RunIds : ResolveDeadLetter(r)
       \/ Issue("reschedule") /\ \E d \in Definitions, t \in ManualInstants : Reschedule(d, t)
       \/ Issue("reconcile") /\ \E d \in Definitions :
                                    /\ ReconciledCursor(d) # 0
                                    /\ ReconcileChanged(d, ReconciledCursor(d), TRUE)
    /\ UNCHANGED actorVars

ClockTick ==
    /\ clock < Horizon
    /\ clock' = clock + 1
    /\ UNCHANGED <<storeVars, actorVars, delivered, commands, faults>>

\* Some live actor works under the current lease of r.
Attended(r) ==
    \E a \in Actors :
        /\ held[a].id = r
        /\ \/ pc[a] = "reading"
           \/ pc[a] \in {"dispatching", "accepting", "failing"} /\ LiveLease(held[a])

\* A deadline passes: a retry delay, or a lease nobody renews any more.
DeadlinePasses(r) ==
    /\ status[r] = "leased" => ~Attended(r)
    /\ Elapse(r)
    /\ UNCHANGED <<actorVars, envVars>>

\* A lease runs out under a live holder: its heartbeat stalled for a whole TTL.
HeartbeatStalls(r) ==
    /\ faults < MaxFaults
    /\ faults' = faults + 1
    /\ status[r] = "leased" /\ Attended(r)
    /\ Elapse(r)
    /\ UNCHANGED <<actorVars, clock, delivered, commands>>

\* The process dies, or the actor's context is cancelled so that even Fail and
\* Accept cannot reach the database.
Crash(a) ==
    /\ faults < MaxFaults
    /\ pc[a] # "down"
    /\ faults' = faults + 1
    /\ pc'      = [pc EXCEPT ![a] = "down"]
    /\ now'     = [now EXCEPT ![a] = 0]
    /\ rows'    = [rows EXCEPT ![a] = {}]
    /\ queue'   = [queue EXCEPT ![a] = <<>>]
    /\ retries' = [retries EXCEPT ![a] = {}]
    /\ held'    = [held EXCEPT ![a] = NoCopy]
    /\ UNCHANGED <<storeVars, clock, delivered, commands>>

Restart(a) ==
    /\ pc[a] = "down"
    /\ pc' = [pc EXCEPT ![a] = "idle"]
    /\ UNCHANGED <<storeVars, now, rows, queue, retries, held, envVars>>

-----------------------------------------------------------------------------
Init ==
    /\ StoreInit
    /\ pc = [a \in Actors |-> "idle"]
    /\ now = [a \in Actors |-> 0]
    /\ rows = [a \in Actors |-> {}]
    /\ queue = [a \in Actors |-> <<>>]
    /\ retries = [a \in Actors |-> {}]
    /\ held = [a \in Actors |-> NoCopy]
    /\ clock = 0
    /\ delivered = {}
    /\ commands = 0
    /\ faults = 0

\* What a running actor does by itself: every step ends a database call, a
\* dispatch (bounded by the dispatch timeout) or a loop iteration.
Progress(a) ==
    \/ DueStates(a) \/ DueRow(a) \/ DueRetries(a)
    \/ \E item \in CurrentItems(a) :
          ClaimInsert(a, item) \/ ClaimRefused(a, item) \/ ClaimExisting(a, item)
    \/ TakeOver(a) \/ TakeRefused(a) \/ ReadTaken(a)
    \/ HeartbeatLost(a) \/ ReturnReceipt(a) \/ ReturnError(a)
    \/ AcceptRun(a) \/ FailRun(a) \/ TickDone(a)

Next ==
    \/ \E a \in Actors :
          \/ Progress(a) \/ Heartbeat(a) \/ Crash(a) \/ Restart(a)
          \/ \E d \in Definitions : TriggerNow(a, d)
    \/ OperatorCommand
    \/ ClockTick
    \/ \E r \in RunIds : DeadlinePasses(r) \/ HeartbeatStalls(r)

Spec == Init /\ [][Next]_vars

\* Running actors keep running, time passes and abandoned deadlines expire.
\* Nothing is assumed of operators, restarts or downstream answers.
FairSpec ==
    /\ Spec
    /\ \A a \in Actors : WF_vars(Progress(a))
    /\ \A r \in RunIds : WF_vars(DeadlinePasses(r))
    /\ WF_vars(ClockTick)

-----------------------------------------------------------------------------
(* Properties; the store's own properties are those of RunStore *)

\* Workers never move a cursor backwards: an item that Due produced before another
\* process claimed, skipped or caught up the same windows cannot undo that when it
\* is claimed late.  Only an operator or a new revision may place a cursor earlier.
CursorNeverRegresses ==
    [][\A d \in Definitions : cursor'[d] < cursor[d] => commands' # commands]_vars

\* A late answer never settles a run on behalf of a newer attempt: when Accept or
\* Fail changes a run, the actor calling it works on the run's current attempt,
\* also when both attempts belong to goroutines of one process.
OnlyLatestAttemptSettles ==
    [][\A a \in Actors :
          /\ pc[a] \in {"accepting", "failing"}
          /\ pc'[a] = "items"
          /\ status'[held[a].id] # status[held[a].id]
          => held[a].attempt = attempt[held[a].id]]_vars

\* A run is recorded as succeeded only after the downstream owner accepted it,
\* whatever crashes, takeovers and lost answers came before ("A successful
\* downstream call must return a durable receipt before a run is accepted").
SucceededWasDelivered ==
    \A r \in RunIds : status[r] = "succeeded" => r \in delivered

\* At most one actor works under the current lease of a run: taking over an
\* expired lease fences the previous holder.
LeaseExclusive ==
    \A a, b \in Actors :
        /\ pc[a] \in {"dispatching", "accepting", "failing"}
        /\ pc[b] \in {"dispatching", "accepting", "failing"}
        /\ held[a].id = held[b].id
        /\ LiveLease(held[a])
        /\ LiveLease(held[b])
        => a = b

\* A failed dispatch reported under the current lease always ends the attempt:
\* the run is scheduled for retry or dead-lettered.
FailureIsRecorded ==
    [][\A a \in Actors :
          /\ pc[a] = "failing"
          /\ pc'[a] = "items"
          /\ LiveLease(held[a])
          => status'[held[a].id] \in {"retrying", "dead_letter"}]_vars

\* Every claimed run is eventually settled, although its actor may crash, lose
\* its lease or never get an answer: expired leases and due retries are found and
\* dispatched again until the attempts are used up.
EveryRunSettles ==
    \A r \in RunIds : status[r] \in Active ~> status[r] \notin Active

\* A due cursor never stays put: the window it points to is claimed, caught up or
\* skipped, or the definition is disabled.
DueCursorMoves ==
    \A d \in Definitions, t \in Instants :
        (d \in enabled /\ cursor[d] = t /\ t <= clock)
            ~> ~(d \in enabled /\ cursor[d] = t)
=============================================================================
