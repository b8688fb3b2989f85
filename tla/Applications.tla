---------------------------- MODULE Applications ----------------------------
(***************************************************************************)
(* One SaaS process, the DatabaseService: the applications it has opened,  *)
(* their readiness and workers, its Shutdown, and the database pool that   *)
(* requests and workers share.                                             *)
(*                                                                         *)
(* A request opens the application it names when nobody has yet, under     *)
(* the process-wide mutex and with database calls inside.  A database      *)
(* call takes a connection and gives it back, so it is a step that needs   *)
(* a free one; only the retry scan of a tick keeps its connection from     *)
(* step to step, while it asks for a second one for every row.  What the   *)
(* calls do to the database is in DefinitionPublication, ScheduledPlans    *)
(* and TriggerDispatch, how Start and Close work inside in                 *)
(* WorkerLifecycle.                                                        *)
(***************************************************************************)
EXTENDS Naturals, FiniteSets

CONSTANTS
    Apps,           \* configured applications (runtime ids)
    Requests,       \* request handlers of the process
    NoOne,
    PoolSizes,      \* the sizes a pool may be configured with (databaseMaxOpen)
    MaxInstances    \* model bound on databaseApplication objects; one per application is enough

ASSUME PoolAssumption ==
    /\ NoOne \notin Requests
    /\ PoolSizes \subseteq Nat \ {0}
    /\ IsFiniteSet(Apps)
    /\ MaxInstances \in Nat /\ MaxInstances >= Cardinality(Apps)

Instances == 1..MaxInstances

VARIABLES
    pool,           \* connections of this process's pool (SetMaxOpenConns); never changes
    durable,        \* applications with definitions or plans in the database
    mu,             \* DatabaseService.mu: the request that holds it
    table,          \* DatabaseService.applications: an instance, 0 for none
    opened,         \* instances registered so far
    of,             \* the application of an instance
    ready,          \* instances whose ready flag is set
    launched,       \* instances whose startWorker has run (cancel is set)
    worker,         \* the worker of an instance
    pc, app, at,    \* per request: control state, application, instance
    stopping,       \* the process's context is cancelled
    shutdown,       \* where Shutdown is
    closing,        \* the instances that Shutdown has still to close
    closed          \* instances whose binding is closed

vars == <<pool, durable, mu, table, opened, of, ready, launched, worker, pc, app, at,
          stopping, shutdown, closing, closed>>

requestVars  == <<app, at>>
instanceVars == <<table, opened, of, ready, launched>>
shutdownVars == <<stopping, shutdown, closing, closed>>

Goto(r, label) == pc' = [pc EXCEPT ![r] = label]

\* A connection is free.  Those taken belong to the scans of requests and of workers.
Scanners        == {r \in Requests : pc[r] = "scanning"}
ScanningWorkers == {i \in Instances : worker[i] = "scanning"}
Free            == Cardinality(Scanners) + Cardinality(ScanningWorkers) < pool

\* The request is done with its application: it is answered, or only its tick is left.
Forget(r, label) ==
    /\ Goto(r, label)
    /\ app' = [app EXCEPT ![r] = NoOne]
    /\ at' = [at EXCEPT ![r] = 0]

Live(i)        == worker[i] \in {"polling", "scanning"}

-----------------------------------------------------------------------------
(* Requests *)

StartRequest(r, a) ==
    /\ pc[r] = "idle"
    /\ app' = [app EXCEPT ![r] = a]
    /\ Goto(r, "lookup")
    /\ UNCHANGED <<pool, durable, mu, worker, at, instanceVars, shutdownVars>>

\* What a request does with its application: Reconcile and CreateScheduledPlan publish;
\* Tick requires readiness, as the other commands on runs do; the rest, and a command
\* that is refused, needs nothing more that is modelled here.
Continue(r, i, readyNow) ==
    \/ /\ at' = [at EXCEPT ![r] = i]
       /\ Goto(r, "publish")
       /\ UNCHANGED app
    \/ i \in readyNow /\ Forget(r, "tick")
    \/ Forget(r, "idle")

\* Faulty variant: the applications map is read without the mutex.
Unlocked == TRUE

\* DatabaseService.mu can be taken.
Lockable == mu = NoOne

\* application(): the instance that is registered, or the lock is kept to open one.
Lookup(r) ==
    /\ pc[r] = "lookup"
    /\ Lockable
    /\ \/ /\ table[app[r]] # 0
          /\ Continue(r, table[app[r]], ready)
          /\ UNCHANGED mu
       \/ /\ table[app[r]] = 0
          /\ mu' = r
          /\ Goto(r, "opening")
          /\ UNCHANGED requestVars
    /\ UNCHANGED <<pool, durable, worker, instanceVars, shutdownVars>>

\* startWorker: once per instance.  Start does nothing under a cancelled context.
StartedWorker(i) ==
    IF i \notin launched /\ ~stopping /\ i \notin closed
    THEN [worker EXCEPT ![i] = "polling"] ELSE worker

\* OpenSaaS and HydrateDefinitions succeed; an application with durable definitions
\* or plans is ready at once and gets its worker.
Open(r) ==
    LET i == opened + 1 IN
    /\ pc[r] = "opening"
    /\ Free
    /\ i \in Instances
    /\ opened' = i
    /\ of' = [of EXCEPT ![i] = app[r]]
    /\ table' = [table EXCEPT ![app[r]] = i]
    /\ \/ /\ app[r] \in durable
          /\ ready' = ready \union {i}
          /\ launched' = launched \union {i}
          /\ worker' = StartedWorker(i)
       \/ /\ app[r] \notin durable
          /\ UNCHANGED <<ready, launched, worker>>
    /\ mu' = NoOne
    /\ Continue(r, i, ready')
    /\ UNCHANGED <<pool, durable, shutdownVars>>

\* The downstream host, the schema or the hydration fails: nothing is registered.
OpenFails(r) ==
    /\ pc[r] = "opening"
    /\ mu' = NoOne
    /\ Forget(r, "idle")
    /\ UNCHANGED <<pool, durable, worker, instanceVars, shutdownVars>>

\* The snapshot or the plan is persisted and projected.
Persist(r) ==
    /\ pc[r] = "publish"
    /\ Free
    /\ durable' = durable \union {app[r]}
    /\ Goto(r, "persisted")
    /\ UNCHANGED <<pool, mu, worker, requestVars, instanceVars, shutdownVars>>

\* The call ends with an error, before or after it changed the database.
PersistFails(r) ==
    /\ pc[r] = "publish"
    /\ durable' \in {durable, durable \union {app[r]}}
    /\ Forget(r, "idle")
    /\ UNCHANGED <<pool, mu, worker, instanceVars, shutdownVars>>

MarkReady(r) ==
    /\ pc[r] = "persisted"
    /\ ready' = ready \union {at[r]}
    /\ Goto(r, "start")
    /\ UNCHANGED <<pool, durable, mu, worker, requestVars, table, opened, of, launched,
                   shutdownVars>>

StartWorker(r) ==
    /\ pc[r] = "start"
    /\ worker' = StartedWorker(at[r])
    /\ launched' = launched \union {at[r]}
    /\ Forget(r, "idle")
    /\ UNCHANGED <<pool, durable, mu, table, opened, of, ready, shutdownVars>>

-----------------------------------------------------------------------------
(* The retry scan of Due *)

\* A tick begins with Due; it may find something to retry.
OpenScan(r) ==
    /\ pc[r] = "tick"
    /\ Free
    /\ Goto(r, "scanning") \/ Goto(r, "idle")
    /\ UNCHANGED <<pool, durable, mu, worker, requestVars, instanceVars, shutdownVars>>

\* The last row's definition is read with a second connection and the rows are closed.
EndScan(r) ==
    /\ pc[r] = "scanning"
    /\ Free
    /\ Goto(r, "idle")
    /\ UNCHANGED <<pool, durable, mu, worker, requestVars, instanceVars, shutdownVars>>

\* The client of a tick goes away, which cancels its context.
GiveUp(r) ==
    /\ pc[r] \in {"tick", "scanning"}
    /\ Goto(r, "idle")
    /\ UNCHANGED <<pool, durable, mu, worker, requestVars, instanceVars, shutdownVars>>

\* The same in a worker, tick after tick.
WorkerOpenScan(i) ==
    /\ worker[i] = "polling"
    /\ Free
    /\ worker' = [worker EXCEPT ![i] = "scanning"]
    /\ UNCHANGED <<pool, durable, mu, pc, requestVars, instanceVars, shutdownVars>>

WorkerEndScan(i) ==
    /\ worker[i] = "scanning"
    /\ Free
    /\ worker' = [worker EXCEPT ![i] = "polling"]
    /\ UNCHANGED <<pool, durable, mu, pc, requestVars, instanceVars, shutdownVars>>

\* A worker whose context is cancelled stops waiting and ends.
WorkerStops(i) ==
    /\ stopping \/ i \in closed
    /\ Live(i)
    /\ worker' = [worker EXCEPT ![i] = "ended"]
    /\ UNCHANGED <<pool, durable, mu, pc, requestVars, instanceVars, shutdownVars>>

-----------------------------------------------------------------------------
(* Shutdown *)

\* The signal that ends the process cancels the context first.
Interrupt ==
    /\ ~stopping
    /\ stopping' = TRUE
    /\ UNCHANGED <<pool, durable, mu, worker, pc, requestVars, instanceVars,
                   shutdown, closing, closed>>

\* Faulty variant: Shutdown leaves the cancelling to the bindings it closes.
ShutdownWithoutCancel ==
    /\ shutdown = "none"
    /\ shutdown' = "locking"
    /\ UNCHANGED <<pool, durable, mu, worker, pc, requestVars, instanceVars,
                   stopping, closing, closed>>

\* Shutdown cancels before it waits for the mutex.
ShutdownCancel ==
    /\ shutdown = "none"
    /\ stopping' = TRUE
    /\ shutdown' = "locking"
    /\ UNCHANGED <<pool, durable, mu, worker, pc, requestVars, instanceVars,
                   closing, closed>>

\* It takes all instances out of the map.
ShutdownSwap ==
    /\ shutdown = "locking"
    /\ mu = NoOne
    /\ closing' = {table[a] : a \in Apps} \ {0}
    /\ table' = [a \in Apps |-> 0]
    /\ shutdown' = "closing"
    /\ UNCHANGED <<pool, durable, mu, worker, pc, requestVars, opened, of, ready, launched,
                   stopping, closed>>

\* app.cancel, which adds nothing to the cancelled parent, so that it does not matter
\* what the read of it without app.mu returns; then binding.Close, one at a time.
CloseBinding(i) ==
    /\ shutdown = "closing"
    /\ i \in closing
    /\ closing \intersect closed = {}
    /\ closed' = closed \union {i}
    /\ UNCHANGED <<pool, durable, mu, worker, pc, requestVars, instanceVars,
                   stopping, shutdown, closing>>

\* Close returns when the worker has ended.
CloseReturns(i) ==
    /\ i \in closing \intersect closed
    /\ ~Live(i)
    /\ closing' = closing \ {i}
    /\ UNCHANGED <<pool, durable, mu, worker, pc, requestVars, instanceVars,
                   stopping, shutdown, closed>>

ShutdownReturns ==
    /\ shutdown = "closing"
    /\ closing = {}
    /\ shutdown' = "done"
    /\ UNCHANGED <<pool, durable, mu, worker, pc, requestVars, instanceVars,
                   stopping, closing, closed>>

\* Another process publishes for the application.
PersistElsewhere(a) ==
    /\ a \notin durable
    /\ durable' = durable \union {a}
    /\ UNCHANGED <<pool, mu, worker, pc, requestVars, instanceVars, shutdownVars>>

-----------------------------------------------------------------------------
Init ==
    /\ pool \in PoolSizes
    /\ durable = {}
    /\ mu = NoOne
    /\ table = [a \in Apps |-> 0]
    /\ opened = 0
    /\ of = [i \in Instances |-> NoOne]
    /\ ready = {} /\ launched = {}
    /\ worker = [i \in Instances |-> "none"]
    /\ pc = [r \in Requests |-> "idle"]
    /\ app = [r \in Requests |-> NoOne]
    /\ at = [r \in Requests |-> 0]
    /\ stopping = FALSE
    /\ shutdown = "none"
    /\ closing = {} /\ closed = {}

RequestStep(r) ==
    \/ Lookup(r) \/ Open(r) \/ OpenFails(r)
    \/ Persist(r) \/ PersistFails(r) \/ MarkReady(r) \/ StartWorker(r)
    \/ OpenScan(r) \/ EndScan(r) \/ GiveUp(r)

Closing == ShutdownReturns \/ \E i \in Instances : CloseBinding(i) \/ CloseReturns(i)

Next ==
    \/ \E r \in Requests : RequestStep(r) \/ \E a \in Apps : StartRequest(r, a)
    \/ \E i \in Instances : WorkerOpenScan(i) \/ WorkerEndScan(i) \/ WorkerStops(i)
    \/ Interrupt \/ ShutdownCancel \/ ShutdownSwap \/ Closing
    \/ \E a \in Apps : PersistElsewhere(a)

Spec == Init /\ [][Next]_vars

\* A sync.Mutex is handed to those who wait in turn, so Shutdown gets it if it is free
\* again and again.  A freed connection goes to any one of those who wait for it: the
\* request that opens an application gets one that is free again and again with
\* probability one, and that is assumed.  A cancelled worker ends, and so does a Close it
\* has ended for.  Nothing else is assumed of requests, not even that one of them finishes
\* its own scan.
FairSpec ==
    /\ Spec
    /\ SF_vars(\E r \in Requests : Open(r))
    /\ \A i \in Instances : WF_vars(WorkerStops(i))
    /\ SF_vars(ShutdownSwap)
    /\ WF_vars(Closing)

-----------------------------------------------------------------------------
(* Properties *)

\* "startWorker is called after a real Runtime snapshot or a validated scheduled plan has
\* been persisted": a worker polls only for an application with durable definitions, at
\* most one of the process does, and it belongs to the instance that requests find in
\* the map or that Shutdown is about to close.  Once Shutdown has returned none polls.
OnlyRegisteredPolls ==
    \A i \in Instances : Live(i) =>
        /\ of[i] \in durable
        /\ table[of[i]] = i \/ (i \in closing /\ shutdown = "closing")
        /\ \A j \in Instances : Live(j) /\ of[j] = of[i] => j = i

\* Shutdown ends, also when it is called while the scans of workers hold every connection
\* and a request keeps the mutex until it gets one.  It can be held up by the scans of
\* requests alone, whose contexts it does not cancel: it ends if they leave a connection
\* free again and again.
ShutdownEnds ==
    []<>(Cardinality(Scanners) < pool) => (shutdown = "locking" ~> shutdown = "done")
=============================================================================
