------------------------------ MODULE RunStore ------------------------------
(***************************************************************************)
(* The durable run store of one Runtime application: the definition cursor *)
(* rows, the run rows with their leases and fencing tokens, and the dead   *)
(* letters of run_store.go.                                                *)
(*                                                                         *)
(* The store is modelled as an open component: any number of Scheduler     *)
(* processes call it in any order, with due items and run copies that may  *)
(* be arbitrarily old.  One action is one database transaction (or one     *)
(* statement outside a transaction); the capacity-guard row serialises the *)
(* transactions that count the backlog.  TriggerDispatch adds the callers. *)
(*                                                                         *)
(* Time.  Instants are the numbers 1..Horizon, 0 is Go's zero time, and    *)
(* Horizon+1 stands for every instant after the modelled horizon.  Whether *)
(* a lease or a retry delay has run out is the set "elapsed" rather than a *)
(* pair of timestamps: each process compares the stored deadline with its  *)
(* own wall clock, so the moment at which a deadline counts as passed is   *)
(* not determined by the order of the other steps.                         *)
(***************************************************************************)
EXTENDS Integers, FiniteSets

CONSTANTS
    Definitions,    \* definition keys with a row in _scheduler_definition_states
    Plans,          \* those projected from scheduled plans (source_kind scheduled_plan)
    Once,           \* those whose schedule is of type "once"
    Owners,         \* worker ids of the Scheduler processes
    NoOwner,        \* the NULL of lease_owner
    Horizon,        \* last modelled instant
    NextSchedule,   \* schedule.NextSchedule of each definition's schedule
    MaxAttempts,    \* Policy.MaxAttempts (3 when unset) of each definition
    PendingLimit,   \* maxPendingTriggers, as the process of each owner configured it
    TokenBound      \* model bound on fencing_token

Instants == 1..Horizon
Cursors  == 1..(Horizon + 1)
RunIds   == Definitions \X Instants     \* runID hashes (runtime, key, scheduled_for)

\* The instants at which the schedule of d has a window.
Windows(d) == {NextSchedule[d][t] : t \in 0..Horizon}

ASSUME ConstantsAssumption ==
    /\ Plans \subseteq Definitions
    /\ Once \subseteq Definitions
    /\ NoOwner \notin Owners
    /\ Horizon \in Nat
    /\ MaxAttempts \in [Definitions -> Nat \ {0}]
    /\ PendingLimit \in [Owners -> Nat]
    /\ TokenBound \in Nat \ {0}       \* the first claim writes token 1
    /\ IsFiniteSet(Definitions)

\* What the store relies on from the schedule library: the next window is later
\* than the given instant, and no window lies between the two; 0 is the zero time
\* of a schedule that has no window any more.  Every schedule has a first window.
ASSUME ScheduleAssumption ==
    /\ NextSchedule \in [Definitions -> [0..Horizon -> Cursors \union {0}]]
    /\ \A d \in Definitions : NextSchedule[d][0] # 0
    /\ \A d \in Definitions, t \in 0..Horizon :
          /\ NextSchedule[d][t] # 0 => NextSchedule[d][t] > t
          /\ \A u \in Windows(d) : u > t => NextSchedule[d][t] # 0 /\ u >= NextSchedule[d][t]

VARIABLES
    enabled,    \* definitions whose row has enabled = true
    cursor,     \* next_run_at of each definition
    skipped,    \* history: instants a cursor move decided not to run
    status,     \* status of each run; "absent" when the row does not exist
    attempt,    \* attempt
    token,      \* fencing_token
    owner,      \* lease_owner
    elapsed,    \* runs whose lease_expires_at or next_retry_at has passed
    deadLetter  \* dead letter of each run: none, open, or resolved

definitionVars == <<enabled, cursor, skipped>>
runVars        == <<status, attempt, token, owner, elapsed>>
storeVars      == <<enabled, cursor, skipped,
                    status, attempt, token, owner, elapsed, deadLetter>>

Statuses == {"absent", "leased", "retrying", "succeeded", "dead_letter", "cancelled"}
Active   == {"leased", "retrying"}

\* A due item: ExpectedCursor is set only on a "window" item, where it equals
\* ScheduledFor; next = 0 is a zero NextRunAt.
DueTriggers == [kind: {"window", "plain"}, def: Definitions, at: Instants,
                next: 0..(Horizon + 1)]

\* A run row as a caller read it: what liveLease and Fail look at.
RunCopies == [id: RunIds, owner: Owners \union {NoOwner}, token: Nat, attempt: Nat]

StoreTypeOK ==
    /\ enabled \subseteq Definitions
    /\ cursor \in [Definitions -> Cursors]
    /\ skipped \in [Definitions -> SUBSET Instants]
    /\ status \in [RunIds -> Statuses]
    /\ attempt \in [RunIds -> Nat]
    /\ token \in [RunIds -> Nat]
    /\ owner \in [RunIds -> Owners \union {NoOwner}]
    /\ elapsed \subseteq RunIds
    /\ deadLetter \in [RunIds -> {"none", "open", "resolved"}]

-----------------------------------------------------------------------------
(* Helpers *)

RunId(item) == <<item.def, item.at>>

\* pendingTriggerCount: leased and retrying runs form the backlog.
Pending == {r \in RunIds : status[r] \in Active}

\* Faulty variant: the backlog may reach the limit and then grow by one.
CapacityOffByOne(o) == Cardinality(Pending) <= PendingLimit[o]

\* checkTriggerCapacity in the process of o, under the lock that lockTriggerCapacity takes.
CapacityLeft(o) == Cardinality(Pending) < PendingLimit[o]

\* Faulty variant: the owner stands in for the fencing token.
LiveOwner(c) ==
    /\ status[c.id] = "leased"
    /\ owner[c.id] = c.owner

\* liveLease: the predicate of every write a lease holder makes.  It compares
\* owner, token and status, and never the expiry.
LiveLease(c) ==
    /\ status[c.id] = "leased"
    /\ owner[c.id] = c.owner
    /\ token[c.id] = c.token

\* Faulty variant: a zero NextRunAt is written as it is.
AdvancedCursorZero(item) == item.next

\* Faulty variant: a zero NextRunAt is resolved from the window after the claimed one.
AdvancedCursorSkipsOne(item) ==
    IF item.next # 0 THEN item.next
    ELSE IF item.def \in Once \/ NextSchedule[item.def][item.at] \notin Instants THEN item.at
    ELSE NextSchedule[item.def][NextSchedule[item.def][item.at]]

\* The cursor value advanceCursorWith writes; without a next window it stays.
AdvancedCursor(item) ==
    IF item.next # 0 THEN item.next
    ELSE IF item.def \in Once \/ NextSchedule[item.def][item.at] = 0 THEN item.at
    ELSE NextSchedule[item.def][item.at]

\* Faulty variant: the cursor is not compared.
CursorEnabled(d, expected) == d \in enabled /\ expected \in Instants

\* The compare of advanceCursorWith and fastForwardMisfire.
CursorIs(d, expected) == d \in enabled /\ cursor[d] = expected

\* Records which instants a cursor move gives up: only a NextRunAt taken from the
\* misfire policy may pass over windows.
GivenUp(item) ==
    IF item.next = 0 THEN {} ELSE {t \in Instants : item.at < t /\ t < item.next}

\* Faulty variant: a claimed one-time definition stays enabled.
AdvanceCursorKeepsOnce(item) ==
    /\ CursorIs(item.def, item.at)
    /\ cursor'  = [cursor EXCEPT ![item.def] = AdvancedCursor(item)]
    /\ skipped' = [skipped EXCEPT ![item.def] = @ \union GivenUp(item)]
    /\ UNCHANGED enabled

\* advanceCursorWith: compare-and-swap of the cursor; "once" disables the row.
AdvanceCursor(item) ==
    LET d == item.def
    IN  /\ CursorIs(d, item.at)
        /\ cursor'  = [cursor EXCEPT ![d] = AdvancedCursor(item)]
        /\ enabled' = enabled \ ({d} \cap Once)
        /\ skipped' = [skipped EXCEPT ![d] = @ \union GivenUp(item)]

-----------------------------------------------------------------------------
(* Operations on runs *)

\* Claim, the transaction that inserts a new run.  A "window" item also moves the
\* cursor; when the compare fails the whole transaction rolls back.
ClaimNew(o, item) ==
    LET r == RunId(item)
    IN  /\ status[r] = "absent"
        /\ CapacityLeft(o)
        /\ \/ item.kind = "window" /\ AdvanceCursor(item)
           \/ item.kind = "plain" /\ UNCHANGED definitionVars
        /\ status'  = [status EXCEPT ![r] = "leased"]
        /\ attempt' = [attempt EXCEPT ![r] = 1]
        /\ token'   = [token EXCEPT ![r] = 1]
        /\ owner'   = [owner EXCEPT ![r] = o]
        /\ UNCHANGED <<elapsed, deadLetter>>

\* Faulty variant: only retries are taken over, expired leases are not.
TakeableRetry(r) == status[r] = "retrying" /\ r \in elapsed

\* takeExpired's predicate.
Takeable(r) == status[r] \in Active /\ r \in elapsed

\* takeExpired, the UPDATE: a run that exists is taken over by a statement of its
\* own, after the claim transaction has been rolled back.
TakeExpired(o, r) ==
    /\ Takeable(r)
    /\ token[r] < TokenBound
    /\ status'  = [status EXCEPT ![r] = "leased"]
    /\ attempt' = [attempt EXCEPT ![r] = @ + 1]
    /\ token'   = [token EXCEPT ![r] = @ + 1]
    /\ owner'   = [owner EXCEPT ![r] = o]
    /\ elapsed' = elapsed \ {r}
    /\ UNCHANGED <<enabled, cursor, skipped, deadLetter>>

\* Renew: a heartbeat of the holder moves the expiry into the future.
Renew(c) ==
    /\ LiveLease(c)
    /\ elapsed' = elapsed \ {c.id}
    /\ UNCHANGED <<enabled, cursor, skipped, status, attempt, token, owner, deadLetter>>

\* Accept (finish with "succeeded"): the holder records the downstream receipt.
Accept(c) ==
    /\ LiveLease(c)
    /\ status'  = [status EXCEPT ![c.id] = "succeeded"]
    /\ owner'   = [owner EXCEPT ![c.id] = NoOwner]
    /\ elapsed' = elapsed \ {c.id}
    /\ UNCHANGED <<enabled, cursor, skipped, attempt, token, deadLetter>>

\* Faulty variant: one attempt more than the policy allows.
TerminalOffByOne(c) == c.attempt > MaxAttempts[c.id[1]]

\* Fail decides from the attempt of the caller's copy, not from the row.
Terminal(c) == c.attempt >= MaxAttempts[c.id[1]]

\* Fail: schedule a retry, or dead-letter the run and insert its dead letter in
\* the same transaction.  The dead letter's primary key is the run, so a second
\* insert fails and the transaction rolls back: Fail has no effect then.
Fail(c) ==
    /\ LiveLease(c)
    /\ \/ /\ ~Terminal(c)
          /\ status' = [status EXCEPT ![c.id] = "retrying"]
          /\ UNCHANGED deadLetter
       \/ /\ Terminal(c)
          /\ deadLetter[c.id] = "none"
          /\ status' = [status EXCEPT ![c.id] = "dead_letter"]
          /\ deadLetter' = [deadLetter EXCEPT ![c.id] = "open"]
    /\ owner'   = [owner EXCEPT ![c.id] = NoOwner]
    /\ elapsed' = elapsed \ {c.id}
    /\ UNCHANGED <<enabled, cursor, skipped, attempt, token>>

\* Faulty variant: a requeued run keeps its dead letter open.
KeptOpen(letter) == letter

\* What Retry does to the dead letter row: resolved_at is set where it is NULL.
Resolved(letter) == IF letter = "open" THEN "resolved" ELSE letter

\* Retry, and RequeueDeadLetter, which is Retry behind a check that the dead
\* letter exists, in the process of o.  next_retry_at is now, so the run is due at once; neither the
\* attempt nor the dead letter's row goes away.
Retry(o, r) ==
    /\ status[r] = "dead_letter"
    /\ CapacityLeft(o)
    /\ status'  = [status EXCEPT ![r] = "retrying"]
    /\ elapsed' = elapsed \union {r}
    /\ deadLetter' = [deadLetter EXCEPT ![r] = Resolved(@)]
    /\ owner'   = [owner EXCEPT ![r] = NoOwner]
    /\ UNCHANGED <<enabled, cursor, skipped, attempt, token>>

\* Faulty variant: any existing run may be cancelled.
CancellableAlways(r) == status[r] # "absent"

\* Cancel's predicate.
Cancellable(r) == status[r] \in Active

\* Cancel: takes the lease or the pending retry away and bumps the token.
Cancel(r) ==
    /\ Cancellable(r)
    /\ token[r] < TokenBound
    /\ status'  = [status EXCEPT ![r] = "cancelled"]
    /\ token'   = [token EXCEPT ![r] = @ + 1]
    /\ owner'   = [owner EXCEPT ![r] = NoOwner]
    /\ elapsed' = elapsed \ {r}
    /\ UNCHANGED <<enabled, cursor, skipped, attempt, deadLetter>>

ResolveDeadLetter(r) ==
    /\ deadLetter[r] = "open"
    /\ deadLetter' = [deadLetter EXCEPT ![r] = "resolved"]
    /\ UNCHANGED <<enabled, cursor, skipped, status, attempt, token, owner, elapsed>>

\* The stored deadline of r is passed by some process's clock.
Elapse(r) ==
    /\ status[r] \in Active
    /\ r \notin elapsed
    /\ elapsed' = elapsed \union {r}
    /\ UNCHANGED <<enabled, cursor, skipped, status, attempt, token, owner, deadLetter>>

-----------------------------------------------------------------------------
(* Operations on definition rows *)

\* A cursor set from outside the claim path gives up every window before it.
PlaceCursor(d, next) ==
    /\ cursor'  = [cursor EXCEPT ![d] = next]
    /\ skipped' = [skipped EXCEPT ![d] = @ \union {t \in Instants : t < next}]
    /\ UNCHANGED <<status, attempt, token, owner, elapsed, deadLetter>>

\* fastForwardMisfire: move a cursor past windows the misfire policy drops.
FastForward(d, expected, next, disable) ==
    /\ CursorIs(d, expected)
    /\ PlaceCursor(d, IF next = 0 THEN expected ELSE next)
    /\ enabled' = IF disable THEN enabled \ {d} ELSE enabled

\* reconcileWith for a changed revision: the row takes the given cursor and state.
ReconcileChanged(d, next, enable) ==
    /\ enable \/ d \in Plans
    /\ PlaceCursor(d, next)
    /\ enabled' = IF enable THEN enabled \union {d} ELSE enabled \ {d}

\* reconcileWith for the stored revision: the cursor stays, and an enabled plan
\* keeps its state so that a finished one-time plan is not revived.
ReconcileStable(d, enable) ==
    /\ enable \/ d \in Plans
    /\ enabled' = IF ~enable THEN enabled \ {d}
                  ELSE IF d \in Plans THEN enabled ELSE enabled \union {d}
    /\ UNCHANGED <<cursor, skipped, status, attempt, token, owner, elapsed, deadLetter>>

\* disableMissingWith is two statements: disable every published definition, then
\* enable the active ones.  In Module mode no transaction joins them.
DisablePublished ==
    /\ enabled' = enabled \cap Plans
    /\ UNCHANGED <<cursor, skipped, status, attempt, token, owner, elapsed, deadLetter>>

EnableActive(active) ==
    /\ enabled' = enabled \union (active \ Plans)
    /\ UNCHANGED <<cursor, skipped, status, attempt, token, owner, elapsed, deadLetter>>

Reschedule(d, next) ==
    /\ PlaceCursor(d, next)
    /\ UNCHANGED enabled

-----------------------------------------------------------------------------
StoreInit ==
    /\ enabled = Definitions
    /\ cursor = [d \in Definitions |-> NextSchedule[d][0]]
    /\ skipped = [d \in Definitions |-> {}]
    /\ status = [r \in RunIds |-> "absent"]
    /\ attempt = [r \in RunIds |-> 0]
    /\ token = [r \in RunIds |-> 0]
    /\ owner = [r \in RunIds |-> NoOwner]
    /\ elapsed = {}
    /\ deadLetter = [r \in RunIds |-> "none"]

\* A caller writes with a copy the store once returned: a leased row has
\* attempt = token, and only a copy of a leased row can be live.
HeldCopies == {c \in [id: RunIds, owner: Owners, token: 1..TokenBound, attempt: 1..TokenBound] :
                 c.attempt = c.token}

LeaseStep == \E c \in HeldCopies : Renew(c) \/ Accept(c) \/ Fail(c)

ClaimStep == \E o \in Owners :
                \/ \E item \in DueTriggers : ClaimNew(o, item)
                \/ \E r \in RunIds : TakeExpired(o, r)

OperatorStep == \E r \in RunIds :
                    \/ \E o \in Owners : Retry(o, r)
                    \/ Cancel(r) \/ ResolveDeadLetter(r)

DefinitionStep ==
    \/ \E d \in Definitions, next \in Cursors :
          \/ Reschedule(d, next)
          \/ \E enable \in BOOLEAN : ReconcileChanged(d, next, enable)
    \/ \E d \in Definitions, expected \in Instants, next \in 0..(Horizon + 1),
          disable \in BOOLEAN : FastForward(d, expected, next, disable)
    \/ \E d \in Definitions, enable \in BOOLEAN : ReconcileStable(d, enable)
    \/ DisablePublished
    \/ \E active \in SUBSET Definitions : EnableActive(active)

StoreNext ==
    \/ ClaimStep
    \/ LeaseStep
    \/ OperatorStep
    \/ DefinitionStep
    \/ \E r \in RunIds : Elapse(r)

StoreSpec == StoreInit /\ [][StoreNext]_storeVars

-----------------------------------------------------------------------------
(* Properties *)

\* However many processes claim and retry at the same time, the leased and
\* retrying runs never exceed the trigger backlog limit that some process has
\* configured: no path into the backlog escapes the count that checkTriggerCapacity
\* makes, also when the processes count against different limits.
BacklogBounded ==
    Pending # {} => \E o \in Owners : Cardinality(Pending) <= PendingLimit[o]

\* The dead letter table and the run table never contradict each other: a
\* dead-lettered run has its evidence, and an open dead letter always belongs to
\* a run that is still dead (Fail, Retry and ResolveDeadLetter write both tables).
DeadLetterEvidence ==
    \A r \in RunIds :
        /\ status[r] = "dead_letter" => deadLetter[r] # "none"
        /\ deadLetter[r] = "open" => status[r] = "dead_letter"

\* No window is lost: every window of the schedule that the cursor has passed has
\* a run, or was given up by the misfire policy or by whoever placed the cursor.
\* Claim's insert and cursor move stand or fall together, whoever races for them.
WindowsAccounted ==
    \A d \in Definitions : \A t \in Windows(d) \cap Instants :
        t < cursor[d] => status[<<d, t>>] # "absent" \/ t \in skipped[d]

\* A run that Fail sends to retry by itself still has an attempt left, and a run
\* is dead-lettered only when its attempts are used up, whichever process failed
\* it and however often its lease changed hands in between.
RetryBudget ==
    \A r \in RunIds :
        /\ status[r] = "retrying" /\ deadLetter[r] = "none" => attempt[r] < MaxAttempts[r[1]]
        /\ status[r] = "dead_letter" => attempt[r] >= MaxAttempts[r[1]]

\* Succeeded and cancelled are final: no late heartbeat, answer, takeover or
\* operator command ever changes such a run again.
SettledIsFinal ==
    [][\A r \in RunIds : status[r] \in {"succeeded", "cancelled"} =>
          /\ status'[r] = status[r]
          /\ token'[r] = token[r]
          /\ attempt'[r] = attempt[r]]_storeVars

\* What ties the columns of a run row together: a lease owner exactly on leased
\* rows, deadlines only on pending rows, and a fencing token that counts the same
\* takeovers as the attempt until a cancellation bumps it once more.
RowsConsistent ==
    \A r \in RunIds :
        /\ owner[r] # NoOwner <=> status[r] = "leased"
        /\ r \in elapsed => status[r] \in Active
        /\ status[r] = "absent" => attempt[r] = 0 /\ token[r] = 0 /\ deadLetter[r] = "none"
        /\ status[r] # "absent" => attempt[r] >= 1
        /\ token[r] = IF status[r] = "cancelled" THEN attempt[r] + 1 ELSE attempt[r]
=============================================================================
