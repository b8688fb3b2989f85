-------------------------- MODULE ApplicationsProofs --------------------------
(***************************************************************************)
(* Proofs about Applications, for any number of applications, requests,    *)
(* instances and connections.                                              *)
(*                                                                         *)
(* The argument: an application is registered at most once before          *)
(* Shutdown takes the map, because whoever found it missing keeps the      *)
(* mutex until it has registered it.  A request that holds an instance     *)
(* therefore holds the registered one until then, and after then nothing   *)
(* starts a worker, because the context was cancelled before.              *)
(***************************************************************************)
EXTENDS Applications, TLAPS

-----------------------------------------------------------------------------
(* The inductive invariant *)

Labels == {"idle", "lookup", "opening", "publish", "persisted", "start", "tick", "scanning"}

Types ==
    /\ mu \in Requests \union {NoOne}
    /\ table \in [Apps -> 0..MaxInstances]
    /\ opened \in 0..MaxInstances
    /\ of \in [Instances -> Apps \union {NoOne}]
    /\ worker \in [Instances -> {"none", "polling", "scanning", "ended"}]
    /\ pc \in [Requests -> Labels]
    /\ app \in [Requests -> Apps \union {NoOne}]
    /\ at \in [Requests -> 0..MaxInstances]
    /\ shutdown \in {"none", "locking", "closing", "done"}

\* Shutdown has taken the map.
Swapped == shutdown \in {"closing", "done"}

\* The map leads from an application to an instance of it.
TableInv == \A a \in Apps : table[a] # 0 => table[a] \in 1..opened /\ of[table[a]] = a

\* What a request knows of its application.
RequestInv(r) ==
    /\ pc[r] \in {"lookup", "opening", "publish", "persisted", "start"} => app[r] \in Apps
    /\ pc[r] = "opening" => mu = r /\ table[app[r]] = 0
    /\ pc[r] \in {"publish", "persisted", "start"} =>
          /\ at[r] \in 1..opened /\ of[at[r]] = app[r]
          /\ ~Swapped => table[app[r]] = at[r]
    /\ pc[r] \in {"persisted", "start"} => app[r] \in durable

\* A worker polls for the registered instance, or for one that Shutdown closes.
WorkerInv(i) ==
    Live(i) => /\ i \in 1..opened /\ of[i] \in durable /\ of[i] \in Apps
               /\ ~Swapped => table[of[i]] = i
               /\ Swapped => i \in closing /\ shutdown = "closing"

\* Shutdown cancels first, and closes one instance of an application.
CloseInv ==
    /\ shutdown # "none" => stopping
    /\ closing \subseteq 1..opened
    /\ \A i, j \in closing : of[i] = of[j] => i = j

ApplicationsInv ==
    /\ Types /\ TableInv /\ CloseInv
    /\ \A r \in Requests : RequestInv(r)
    /\ \A i \in Instances : WorkerInv(i)

-----------------------------------------------------------------------------
(* Steps *)

\* A step of a request that moves its control state and its locals only, keeping or
\* forgetting its application.
LEMMA RequestMoves ==
    ASSUME ApplicationsInv, NEW r \in Requests, NEW label \in Labels,
           (Goto(r, label) /\ UNCHANGED requestVars) \/ Forget(r, label),
           durable \subseteq durable',
           UNCHANGED <<table, opened, of, worker, shutdown, closing, stopping>>,
           mu' = mu \/ (mu = r /\ mu' = NoOne),
           label \in {"idle", "tick", "scanning"}
    PROVE  ApplicationsInv'
<1> USE DEF ApplicationsInv
<1>1. Types'
  <2>1. CASE Goto(r, label) /\ UNCHANGED requestVars
    BY <2>1 DEF Types, Goto, requestVars
  <2>2. CASE Forget(r, label)
    BY <2>2, PoolAssumption DEF Types, Goto, Forget
  <2> QED
    BY <2>1, <2>2
<1>2. TableInv' /\ CloseInv'
  BY DEF TableInv, CloseInv
<1>3. ASSUME NEW q \in Requests PROVE RequestInv(q)'
  <2>1. CASE q = r
    BY <2>1 DEF RequestInv, Goto, Forget, requestVars, Types
  <2>2. CASE q # r
    <3>1. pc'[q] = pc[q] /\ app'[q] = app[q] /\ at'[q] = at[q] /\ RequestInv(q)
      BY <2>2 DEF Goto, Forget, requestVars, Types
    <3> QED
      BY <2>2, <3>1 DEF RequestInv, Swapped
  <2> QED
    BY <2>1, <2>2
<1>4. ASSUME NEW i \in Instances PROVE WorkerInv(i)'
  <2>1. WorkerInv(i)
    OBVIOUS
  <2> QED
    BY <2>1 DEF WorkerInv, Live, Swapped
<1> QED
  BY <1>1, <1>2, <1>3, <1>4

\* A step that leaves requests, the map and the set of workers that poll alone.
LEMMA ServiceMoves ==
    ASSUME ApplicationsInv,
           UNCHANGED <<mu, table, opened, of, pc, app, at>>,
           durable \subseteq durable',
           worker' \in [Instances -> {"none", "polling", "scanning", "ended"}],
           \A i \in Instances : Live(i)' => Live(i),
           shutdown' = shutdown
               \/ (shutdown = "none" /\ shutdown' = "locking" /\ stopping')
               \/ (shutdown = "closing" /\ closing = {} /\ shutdown' = "done"),
           stopping => stopping',
           closing' \subseteq closing,
           \A i \in closing \ closing' : ~Live(i)
    PROVE  ApplicationsInv'
<1> USE DEF ApplicationsInv
<1>1. Types'
  BY DEF Types
<1>2. TableInv'
  BY DEF TableInv
<1>3. CloseInv'
  BY DEF CloseInv, Types
<1>4. ASSUME NEW q \in Requests PROVE RequestInv(q)'
  <2>1. RequestInv(q)
    OBVIOUS
  <2> QED
    BY <2>1 DEF RequestInv, Swapped
<1>5. ASSUME NEW i \in Instances PROVE WorkerInv(i)'
  <2>1. WorkerInv(i) /\ (Live(i)' => Live(i))
    OBVIOUS
  <2> QED
    BY <2>1 DEF WorkerInv, Swapped
<1> QED
  BY <1>1, <1>2, <1>3, <1>4, <1>5

\* A request arrives.
LEMMA StartRequestStep ==
    ASSUME ApplicationsInv, NEW r \in Requests, NEW a \in Apps, StartRequest(r, a)
    PROVE  ApplicationsInv'
<1> USE DEF ApplicationsInv
<1>1. Types'
  BY DEF Types, StartRequest, Goto, instanceVars, shutdownVars, Labels
<1>2. TableInv' /\ CloseInv'
  BY DEF TableInv, CloseInv, StartRequest, instanceVars, shutdownVars
<1>3. ASSUME NEW q \in Requests PROVE RequestInv(q)'
  <2>1. CASE q = r
    BY <2>1 DEF RequestInv, StartRequest, Goto, Types
  <2>2. CASE q # r
    <3>1. pc'[q] = pc[q] /\ app'[q] = app[q] /\ at'[q] = at[q] /\ RequestInv(q)
      BY <2>2 DEF StartRequest, Goto, Types
    <3> QED
      BY <3>1 DEF RequestInv, Swapped, StartRequest, instanceVars, shutdownVars
  <2> QED
    BY <2>1, <2>2
<1>4. ASSUME NEW i \in Instances PROVE WorkerInv(i)'
  <2>1. WorkerInv(i)
    OBVIOUS
  <2> QED
    BY <2>1 DEF WorkerInv, Live, Swapped, StartRequest, instanceVars, shutdownVars
<1> QED
  BY <1>1, <1>2, <1>3, <1>4

\* application(): the registered instance, or the mutex to open one.
LEMMA LookupStep ==
    ASSUME ApplicationsInv, NEW r \in Requests, Lookup(r)
    PROVE  ApplicationsInv'
<1> USE DEF ApplicationsInv
<1>0. /\ pc[r] = "lookup" /\ mu = NoOne /\ app[r] \in Apps
      /\ UNCHANGED <<durable, table, opened, of, worker, shutdown, closing, stopping>>
  BY DEF Lookup, Lockable, RequestInv, instanceVars, shutdownVars
<1>1. CASE table[app[r]] # 0 /\ UNCHANGED mu /\ (Forget(r, "tick") \/ Forget(r, "idle"))
  BY <1>0, <1>1, RequestMoves DEF Labels
<1>2. ASSUME \/ /\ table[app[r]] # 0 /\ at' = [at EXCEPT ![r] = table[app[r]]]
                /\ Goto(r, "publish") /\ UNCHANGED <<mu, app>>
             \/ /\ table[app[r]] = 0 /\ mu' = r
                /\ Goto(r, "opening") /\ UNCHANGED requestVars
      PROVE  ApplicationsInv'
  <2>1. Types'
    BY <1>0, <1>2 DEF Types, Goto, Labels, requestVars
  <2>2. TableInv' /\ CloseInv'
    BY <1>0 DEF TableInv, CloseInv
  <2>3. ASSUME NEW q \in Requests PROVE RequestInv(q)'
    <3>1. CASE q = r
      BY <1>0, <1>2, <3>1 DEF RequestInv, Goto, requestVars, Types, TableInv, Swapped
    <3>2. CASE q # r
      <4>1. /\ pc'[q] = pc[q] /\ app'[q] = app[q] /\ at'[q] = at[q] /\ RequestInv(q)
            /\ pc[q] # "opening"
        BY <1>0, <1>2, <3>2, PoolAssumption DEF Goto, Types, requestVars, RequestInv
      <4> QED
        BY <1>0, <4>1 DEF RequestInv, Swapped
    <3> QED
      BY <3>1, <3>2
  <2>4. ASSUME NEW i \in Instances PROVE WorkerInv(i)'
    <3>1. WorkerInv(i)
      OBVIOUS
    <3> QED
      BY <1>0, <3>1 DEF WorkerInv, Live, Swapped
  <2> QED
    BY <2>1, <2>2, <2>3, <2>4
<1> QED
  BY <1>1, <1>2 DEF Lookup, Continue

\* The holder of the mutex registers a new instance where there was none.
LEMMA OpenStep ==
    ASSUME ApplicationsInv, NEW r \in Requests, Open(r)
    PROVE  ApplicationsInv'
<1> USE DEF ApplicationsInv
<1> DEFINE n == opened + 1
<1>0. /\ pc[r] = "opening" /\ mu = r /\ app[r] \in Apps /\ table[app[r]] = 0 /\ mu' = NoOne
      /\ n \in Instances /\ opened' = n /\ of' = [of EXCEPT ![n] = app[r]]
      /\ table' = [table EXCEPT ![app[r]] = n]
      /\ UNCHANGED <<durable, shutdown, closing, stopping, closed>>
  BY DEF Open, RequestInv, shutdownVars
<1>1. /\ worker' \in [Instances -> {"none", "polling", "scanning", "ended"}]
      /\ \A i \in Instances : Live(i)' => Live(i) \/ (i = n /\ app[r] \in durable /\ ~stopping)
  <2>1. \/ UNCHANGED worker
        \/ /\ app[r] \in durable /\ ~stopping
           /\ worker' = [worker EXCEPT ![n] = "polling"]
    BY DEF Open, StartedWorker
  <2> QED
    BY <1>0, <2>1 DEF Live, Types
<1>2. \/ /\ at' = [at EXCEPT ![r] = n] /\ Goto(r, "publish") /\ UNCHANGED app
      \/ Forget(r, "tick") \/ Forget(r, "idle")
  BY DEF Open, Continue
<1>3. opened \in Nat /\ n \in 1..MaxInstances /\ MaxInstances \in Nat
  BY <1>0, PoolAssumption DEF Types, Instances
<1>4. Types'
  <2>1. /\ pc' \in [Requests -> Labels] /\ app' \in [Requests -> Apps \union {NoOne}]
        /\ at' \in [Requests -> 0..MaxInstances]
    <3>1. CASE Forget(r, "tick") \/ Forget(r, "idle")
      BY <1>3, <3>1 DEF Types, Goto, Forget, Labels
    <3>2. CASE at' = [at EXCEPT ![r] = n] /\ Goto(r, "publish") /\ UNCHANGED app
      BY <1>3, <3>2 DEF Types, Goto, Labels
    <3> QED
      BY <1>2, <3>1, <3>2
  <2>2. /\ table' \in [Apps -> 0..MaxInstances] /\ opened' \in 0..MaxInstances
        /\ of' \in [Instances -> Apps \union {NoOne}]
    BY <1>0, <1>3 DEF Types
  <2> QED
    BY <1>0, <1>1, <2>1, <2>2 DEF Types
<1>5. /\ \A i \in 1..opened : of'[i] = of[i]
      /\ of'[n] = app[r]
  BY <1>0, <1>3, PoolAssumption DEF Types, Instances
<1>6. TableInv'
  BY <1>0, <1>3, <1>5 DEF TableInv, Types
<1>7. CloseInv'
  BY <1>0, <1>3, <1>5 DEF CloseInv
<1>8. ASSUME NEW q \in Requests PROVE RequestInv(q)'
  <2>1. CASE q = r
    BY <1>0, <1>2, <1>3, <1>5, <2>1 DEF RequestInv, Goto, Forget, Types
  <2>2. CASE q # r
    <3>1. /\ pc'[q] = pc[q] /\ app'[q] = app[q] /\ at'[q] = at[q] /\ RequestInv(q)
          /\ pc[q] # "opening"
      BY <1>0, <1>2, <2>2 DEF Goto, Forget, Types, RequestInv
    <3>2. /\ at[q] \in 1..opened => at[q] \in 1..n /\ at[q] # 0
          /\ \A a \in Apps : table[a] # 0 => table'[a] = table[a]
      BY <1>0, <1>3 DEF Types
    <3> QED
      BY <1>0, <1>3, <1>5, <3>1, <3>2 DEF RequestInv, Swapped
  <2> QED
    BY <2>1, <2>2
<1>9. ASSUME NEW i \in Instances PROVE WorkerInv(i)'
  <2>1. CASE Live(i)
    <3>1. WorkerInv(i) /\ i # 0 /\ i \in 1..n
      BY <1>3, <2>1 DEF Instances, WorkerInv
    <3>2. \A a \in Apps : table[a] # 0 => table'[a] = table[a]
      BY <1>0 DEF Types
    <3> QED
      BY <1>0, <1>3, <1>5, <2>1, <3>1, <3>2 DEF WorkerInv, Swapped
  <2>2. CASE ~Live(i) /\ Live(i)'
    <3>1. i = n /\ app[r] \in durable /\ ~stopping
      BY <1>1, <2>2
    <3>2. ~Swapped'
      BY <1>0, <3>1 DEF CloseInv, Swapped
    <3> QED
      BY <1>0, <1>3, <1>5, <3>1, <3>2 DEF WorkerInv, Types
  <2> QED
    BY <2>1, <2>2 DEF WorkerInv
<1> QED
  BY <1>4, <1>6, <1>7, <1>8, <1>9

\* Persist and MarkReady: the application becomes durable before its worker may start.
LEMMA PublishStep ==
    ASSUME ApplicationsInv, NEW r \in Requests, Persist(r) \/ MarkReady(r)
    PROVE  ApplicationsInv'
<1> USE DEF ApplicationsInv
<1>0. /\ pc[r] \in {"publish", "persisted"} /\ durable \subseteq durable'
      /\ pc[r] = "publish" => app[r] \in durable'
      /\ \E label \in {"persisted", "start"} : Goto(r, label)
      /\ UNCHANGED <<mu, table, opened, of, worker, app, at, shutdown, closing, stopping>>
  BY DEF Persist, MarkReady, requestVars, instanceVars, shutdownVars
<1>1. PICK label \in {"persisted", "start"} : Goto(r, label)
  BY <1>0
<1>2. Types'
  BY <1>0, <1>1 DEF Types, Goto, Labels
<1>3. TableInv' /\ CloseInv'
  BY <1>0 DEF TableInv, CloseInv
<1>4. ASSUME NEW q \in Requests PROVE RequestInv(q)'
  <2>1. CASE q = r
    <3>1. pc'[q] = label /\ RequestInv(r)
      BY <1>1, <2>1 DEF Goto, Types
    <3> QED
      BY <1>0, <2>1, <3>1 DEF RequestInv, Swapped
  <2>2. CASE q # r
    <3>1. pc'[q] = pc[q] /\ RequestInv(q)
      BY <1>1, <2>2 DEF Goto, Types
    <3> QED
      BY <1>0, <3>1 DEF RequestInv, Swapped
  <2> QED
    BY <2>1, <2>2
<1>5. ASSUME NEW i \in Instances PROVE WorkerInv(i)'
  <2>1. WorkerInv(i)
    OBVIOUS
  <2> QED
    BY <1>0, <2>1 DEF WorkerInv, Live, Swapped
<1> QED
  BY <1>2, <1>3, <1>4, <1>5

\* startWorker, however late: before Shutdown the instance in hand is the registered one.
LEMMA StartWorkerStep ==
    ASSUME ApplicationsInv, NEW r \in Requests, StartWorker(r)
    PROVE  ApplicationsInv'
<1> USE DEF ApplicationsInv
<1> DEFINE n == at[r]
<1>0. /\ pc[r] = "start" /\ app[r] \in Apps /\ app[r] \in durable
      /\ n \in 1..opened /\ of[n] = app[r] /\ (~Swapped => table[app[r]] = n)
      /\ UNCHANGED <<durable, mu, table, opened, of, shutdown, closing, stopping>>
      /\ Forget(r, "idle")
  BY DEF StartWorker, RequestInv, shutdownVars
<1>1. \/ UNCHANGED worker
      \/ ~stopping /\ worker' = [worker EXCEPT ![n] = "polling"]
  BY DEF StartWorker, StartedWorker
<1>2. /\ worker' \in [Instances -> {"none", "polling", "scanning", "ended"}]
      /\ \A i \in Instances : Live(i)' => Live(i) \/ (i = n /\ ~stopping)
  BY <1>1 DEF Live, Types
<1>3. Types'
  BY <1>0, <1>2, PoolAssumption DEF Types, Forget, Goto, Labels
<1>4. TableInv' /\ CloseInv'
  BY <1>0 DEF TableInv, CloseInv
<1>5. ASSUME NEW q \in Requests PROVE RequestInv(q)'
  <2>1. CASE q = r
    BY <1>0, <2>1 DEF RequestInv, Forget, Goto, Types
  <2>2. CASE q # r
    <3>1. pc'[q] = pc[q] /\ app'[q] = app[q] /\ at'[q] = at[q] /\ RequestInv(q)
      BY <1>0, <2>2 DEF Forget, Goto, Types
    <3> QED
      BY <1>0, <3>1 DEF RequestInv, Swapped
  <2> QED
    BY <2>1, <2>2
<1>6. ASSUME NEW i \in Instances PROVE WorkerInv(i)'
  <2>1. CASE Live(i)
    <3>1. WorkerInv(i)
      OBVIOUS
    <3> QED
      BY <1>0, <2>1, <3>1 DEF WorkerInv, Swapped
  <2>2. CASE ~Live(i) /\ Live(i)'
    <3>1. i = n /\ ~stopping
      BY <1>2, <2>2
    <3> QED
      BY <1>0, <3>1 DEF WorkerInv, Swapped, CloseInv
  <2> QED
    BY <2>1, <2>2 DEF WorkerInv
<1> QED
  BY <1>3, <1>4, <1>5, <1>6

\* Shutdown takes every registered instance out of the map, to close it.
LEMMA ShutdownSwapStep ==
    ASSUME ApplicationsInv, ShutdownSwap
    PROVE  ApplicationsInv'
<1> USE DEF ApplicationsInv
<1>0. /\ shutdown = "locking" /\ shutdown' = "closing" /\ mu = NoOne
      /\ closing' = {table[a] : a \in Apps} \ {0}
      /\ table' = [a \in Apps |-> 0]
      /\ UNCHANGED <<durable, mu, opened, of, worker, pc, app, at, stopping>>
  BY DEF ShutdownSwap, requestVars
<1>1. Types'
  BY <1>0, PoolAssumption DEF Types
<1>2. TableInv'
  BY <1>0 DEF TableInv
<1>3. \A i \in closing' : i \in 1..opened /\ of[i] \in Apps /\ table[of[i]] = i
  BY <1>0 DEF TableInv
<1>4. CloseInv'
  BY <1>0, <1>3 DEF CloseInv
<1>5. ASSUME NEW q \in Requests PROVE RequestInv(q)'
  <2>1. RequestInv(q)
    OBVIOUS
  <2> QED
    BY <1>0, <2>1, PoolAssumption DEF RequestInv, Swapped
<1>6. ASSUME NEW i \in Instances PROVE WorkerInv(i)'
  <2>1. WorkerInv(i)
    OBVIOUS
  <2>2. Live(i) => i \in closing'
    BY <1>0, <2>1 DEF WorkerInv, Swapped, Instances
  <2> QED
    BY <1>0, <2>1, <2>2 DEF WorkerInv, Live, Swapped
<1> QED
  BY <1>1, <1>2, <1>4, <1>5, <1>6

\* Every step keeps the invariant.
LEMMA InvStep == ApplicationsInv /\ [Next]_vars => ApplicationsInv'
<1> SUFFICES ASSUME ApplicationsInv, [Next]_vars PROVE ApplicationsInv'
  OBVIOUS
<1>0. Types
  BY DEF ApplicationsInv
<1>1. ASSUME NEW r \in Requests, RequestStep(r)
      PROVE  ApplicationsInv'
  <2>1. CASE Lookup(r) \/ Open(r) \/ Persist(r) \/ MarkReady(r) \/ StartWorker(r)
    BY <2>1, LookupStep, OpenStep, PublishStep, StartWorkerStep
  <2>2. CASE OpenFails(r)
    <3>1. mu = r
      BY <2>2 DEF OpenFails, ApplicationsInv, RequestInv
    <3> QED
      BY <2>2, <3>1, RequestMoves DEF OpenFails, Labels, instanceVars, shutdownVars
  <2>3. CASE PersistFails(r)
    BY <2>3, RequestMoves DEF PersistFails, Labels, instanceVars, shutdownVars
  <2>4. CASE OpenScan(r) \/ EndScan(r) \/ GiveUp(r)
    <3>1. PICK label \in {"idle", "scanning"} : Goto(r, label) /\ UNCHANGED requestVars
      BY <2>4 DEF OpenScan, EndScan, GiveUp
    <3> QED
      BY <2>4, <3>1, RequestMoves
      DEF OpenScan, EndScan, GiveUp, Labels, instanceVars, shutdownVars
  <2> QED
    BY <1>1, <2>1, <2>2, <2>3, <2>4 DEF RequestStep
<1>2. ASSUME NEW i \in Instances, WorkerOpenScan(i) \/ WorkerEndScan(i) \/ WorkerStops(i)
      PROVE  ApplicationsInv'
  <2>1. PICK w \in {"polling", "scanning", "ended"} : worker' = [worker EXCEPT ![i] = w]
    BY <1>2 DEF WorkerOpenScan, WorkerEndScan, WorkerStops
  <2>2. Live(i)
    BY <1>2 DEF WorkerOpenScan, WorkerEndScan, WorkerStops, Live
  <2>3. /\ worker' \in [Instances -> {"none", "polling", "scanning", "ended"}]
        /\ \A j \in Instances : Live(j)' => Live(j)
    BY <1>0, <2>1, <2>2 DEF Types, Live
  <2> QED
    BY <1>2, <2>3, ServiceMoves
    DEF WorkerOpenScan, WorkerEndScan, WorkerStops, requestVars, instanceVars, shutdownVars
<1>3. CASE Interrupt \/ ShutdownCancel \/ ShutdownReturns
  BY <1>0, <1>3, ServiceMoves
  DEF Interrupt, ShutdownCancel, ShutdownReturns, Types, Live, requestVars, instanceVars
<1>4. ASSUME NEW i \in Instances, CloseBinding(i) \/ CloseReturns(i)
      PROVE  ApplicationsInv'
  BY <1>0, <1>4, ServiceMoves
  DEF CloseBinding, CloseReturns, Types, Live, requestVars, instanceVars
<1>5. ASSUME NEW a \in Apps, PersistElsewhere(a)
      PROVE  ApplicationsInv'
  BY <1>0, <1>5, ServiceMoves
  DEF PersistElsewhere, Types, Live, requestVars, instanceVars, shutdownVars
<1>6. CASE UNCHANGED vars
  BY <1>0, <1>6, ServiceMoves DEF vars, Types, Live
<1> QED
  BY <1>1, <1>2, <1>3, <1>4, <1>5, <1>6, StartRequestStep, ShutdownSwapStep DEF Next, Closing

\* The invariant holds when the process starts.
LEMMA InvInit == Init => ApplicationsInv
<1> SUFFICES ASSUME Init PROVE ApplicationsInv
  OBVIOUS
<1>1. Types
  BY PoolAssumption DEF Init, Types, Labels
<1>2. TableInv /\ CloseInv
  BY DEF Init, TableInv, CloseInv
<1>3. \A r \in Requests : RequestInv(r)
  BY DEF Init, RequestInv
<1>4. \A i \in Instances : WorkerInv(i)
  BY DEF Init, WorkerInv, Live
<1> QED
  BY <1>1, <1>2, <1>3, <1>4 DEF ApplicationsInv

\* The inductive invariant holds of the SaaS process in every reachable state.
THEOREM ApplicationsInvariant == Spec => []ApplicationsInv
  BY InvInit, InvStep, PTL DEF Spec

\* startWorker: workers poll only for applications with durable definitions, one for each,
\* and only for the instance in the map or one that Shutdown is about to close.
THEOREM WorkersAreRegistered == Spec => []OnlyRegisteredPolls
<1>1. ApplicationsInv => OnlyRegisteredPolls
  <2> SUFFICES ASSUME ApplicationsInv, NEW i \in Instances, Live(i)
               PROVE  /\ of[i] \in durable
                      /\ table[of[i]] = i \/ (i \in closing /\ shutdown = "closing")
                      /\ \A j \in Instances : Live(j) /\ of[j] = of[i] => j = i
    BY DEF OnlyRegisteredPolls
  <2>1. \A j \in Instances : WorkerInv(j)
    BY DEF ApplicationsInv
  <2> QED
    BY <2>1 DEF ApplicationsInv, WorkerInv, CloseInv
<1> QED
  BY <1>1, ApplicationsInvariant, PTL

=============================================================================
