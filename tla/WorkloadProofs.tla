---------------------------- MODULE WorkloadProofs ----------------------------
(***************************************************************************)
(* The workload generator for any number of workers, jobs, tables, query   *)
(* variants and limits: bounded tables, no lost job, an honest coverage    *)
(* and an honest verdict.                                                  *)
(***************************************************************************)
EXTENDS Workload, Integers, FiniteSetTheorems, WellFoundedInduction, TLAPS

Place == {"new", "connect", "backoff", "ended", "raised"} \cup Open
OpName == {"none", "read", "erp", "update", "claim", "hotspot"} \cup Table
Context == [at : Place, op : OpName, on : Nat \cup Job, doomed : SUBSET Nat]

(* Which operation a worker can be in at a place.                          *)
PlaceInv(w) ==
  /\ At(w, {"insert", "cleanup"}) => worker[w].op \in Table
  /\ At(w, {"requeue"}) => worker[w].op = "claim"
  /\ At(w, {"cleanup", "commit"}) /\ worker[w].op \in Table => worker[w].on \in Nat

(* The types, and that a job row is committed only when it is ready.       *)
TypeInv ==
  /\ phase \in {"preflight", "running", "joining", "done"}
  /\ futures \in SUBSET Worker
  /\ stop \in BOOLEAN /\ signalled \in BOOLEAN /\ fatal \in BOOLEAN
  /\ status \in {"none", "failed", "interrupted", "completed"}
  /\ now \in Nat /\ faults \in Nat
  /\ worker \in [Worker -> Context]
  /\ succeeded \in Nat /\ failed \in Nat /\ nextOrdinal \in Nat
  /\ visited \in SUBSET (Nat \cup Job)
  /\ rows \in [Table -> SUBSET Nat] /\ nextId \in [Table -> Nat]
  /\ job \in [Job -> [ready : {TRUE}, due : BOOLEAN]]
  /\ \A w \in Worker : PlaceInv(w)

(* One transaction at a time is between the insert and the end of a table, *)
(* and what it found doomed is still what the commit will find.            *)
RetentionInv ==
  /\ \A t \in Table : IsFiniteSet(rows[t]) /\ Cardinality(rows[t]) <= MaxRows
  /\ \A v, w \in Worker : \A t \in Table : Holds(v, t) /\ Holds(w, t) => v = w
  /\ \A w \in Worker : At(w, {"commit"}) /\ worker[w].op \in Table =>
       worker[w].doomed = Doomed(rows[worker[w].op] \cup {worker[w].on})

(* Ordinals stay within the sweep, and one that is about to be counted has *)
(* been executed.                                                          *)
CoverageInv ==
  /\ \A w \in Worker : InTransaction(w) /\ worker[w].op = "erp" =>
       /\ worker[w].on \in 0..(Target - 1)
       /\ At(w, {"commit"}) => Fingerprint(worker[w].on) \in recorded
  /\ visited \subseteq 0..(Target - 1)
  /\ recorded \subseteq (1..Tables) \X (0..(Variants - 1))
  /\ CoverageHonest

(* A worker the supervisor no longer waits for has returned, or the run is *)
(* failing; the status is set at the very end.                             *)
VerdictInv ==
  /\ phase = "preflight" => \A w \in Worker : At(w, {"new"})
  /\ fatal => phase \in {"joining", "done"}
  /\ phase \in {"running", "joining"} /\ ~fatal =>
       \A w \in Worker \ futures : At(w, {"ended"})
  /\ phase = "joining" /\ ~fatal => futures = {}
  /\ status # "none" => phase = "done"
  /\ VerdictHonest

WorkloadInv == TypeInv /\ RetentionInv /\ CoverageInv /\ VerdictInv

-----------------------------------------------------------------------------
(* The types. *)

(* The state of one worker when only its place changes, and after the end  *)
(* of a transaction.                                                       *)
LEMMA GoesType ==
  ASSUME TypeInv, NEW w \in Worker, NEW at \in Place, Goes(w, at)
  PROVE  /\ worker' \in [Worker -> Context]
         /\ worker' = [worker EXCEPT ![w] = [worker[w] EXCEPT !.at = at]]
         /\ worker'[w].at = at /\ worker'[w].op = worker[w].op
         /\ worker'[w].on = worker[w].on /\ worker'[w].doomed = worker[w].doomed
<1>1. worker[w] \in Context
  BY DEF TypeInv
<1>2. [worker[w] EXCEPT !.at = at] \in Context
  BY <1>1 DEF Context
<1>3. worker' = [worker EXCEPT ![w] = [worker[w] EXCEPT !.at = at]]
  BY DEF Goes, TypeInv
<1>4. worker'[w] = [worker[w] EXCEPT !.at = at]
  BY <1>3 DEF TypeInv
<1> QED BY <1>1, <1>2, <1>3, <1>4 DEF TypeInv, Context

LEMMA DropsType ==
  ASSUME TypeInv, NEW w \in Worker, NEW at \in Place, Drops(w, at)
  PROVE  /\ worker' \in [Worker -> Context]
         /\ worker' = [worker EXCEPT ![w] = [NoWork EXCEPT !.at = at]]
         /\ worker'[w].at = at /\ worker'[w].op = "none"
<1>1. [NoWork EXCEPT !.at = at] \in Context
  BY DEF Context, NoWork, OpName
<1>2. worker'[w] = [NoWork EXCEPT !.at = at]
  BY DEF Drops, TypeInv
<1> QED BY <1>1, <1>2 DEF Drops, TypeInv, NoWork

(* The other workers stay where they are.                                  *)
LEMMA OthersStay ==
  ASSUME TypeInv, NEW w \in Worker, NEW x, worker' = [worker EXCEPT ![w] = x],
         PlaceInv(w)'
  PROVE  \A v \in Worker : PlaceInv(v)'
<1> SUFFICES ASSUME NEW v \in Worker, v # w PROVE PlaceInv(v)'
  OBVIOUS
<1>1. worker'[v] = worker[v]
  BY DEF TypeInv
<1> QED BY <1>1 DEF TypeInv, PlaceInv, At

(* An ordinal is one of the sweep's.                                       *)
LEMMA OrdinalType ==
  ASSUME nextOrdinal \in Nat, Target > 0
  PROVE  Ordinal \in 0..(Target - 1)
<1>1. Target \in Nat
  BY WorkloadAssumption DEF Target
<1> DEFINE T == Target
<1>2. nextOrdinal % T \in 0..(T - 1)
  <2> HIDE DEF T
  <2>1. T \in Nat /\ T > 0
    BY <1>1 DEF T
  <2> QED BY <2>1
<1> QED BY <1>2 DEF Ordinal

(* While fewer ordinals than the sweep has were reserved, the next one is  *)
(* new.                                                                    *)
LEMMA OrdinalFresh ==
  ASSUME nextOrdinal \in Nat, nextOrdinal < Target
  PROVE  Ordinal = nextOrdinal
<1>1. Target \in Nat
  BY WorkloadAssumption DEF Target
<1> DEFINE T == Target
<1>2. nextOrdinal % T = nextOrdinal
  <2> HIDE DEF T
  <2>1. T \in Nat /\ nextOrdinal < T
    BY <1>1 DEF T
  <2> QED BY <2>1
<1> QED BY <1>2 DEF Ordinal

(* A worker of the ERP profile draws an operation only if it has some.     *)
LEMMA OperationType ==
  ASSUME NEW w \in Worker, NEW op \in Operation(w)
  PROVE  op \in OpName /\ (op = "erp" => Target > 0)
BY DEF Operation, OpName, Table

(* Every step of a worker that only moves it.                              *)
Moves(w) ==
  \/ Connect(w) \/ ConnectFails(w) \/ Retry(w) \/ Leave(w)
  \/ ReadRows(w) \/ UpdateRow(w) \/ ExecuteErpQuery(w) \/ ControlledLock(w)
  \/ RetentionLock(w) \/ RequeueJob(w)
(* What is known of the place a worker moves to.                           *)
Arrives(w, at) ==
  /\ Goes(w, at)
  /\ at \in Place \ {"cleanup", "requeue"}
  /\ at = "insert" => /\ worker[w].op \in Table
                      /\ \A v \in Worker \ {w} : ~Holds(v, worker[w].op)
  /\ at = "commit" => /\ worker[w].op \notin Table
                      /\ worker[w].op = "erp" => ExecuteErpQuery(w)
  /\ At(w, Open \cup {"connect", "backoff"})
  /\ InTransaction(w) <=> at \in Open \ {"idle"}

LEMMA MovesGoes ==
  ASSUME TypeInv, NEW w \in Worker, Moves(w)
  PROVE  \E at \in Place : Arrives(w, at)
<1> USE DEF Arrives, Statement, InTransaction, At, Place, Open, Table
<1>1. CASE Connect(w)
  <2>1. Arrives(w, "idle")
    BY <1>1 DEF Connect
  <2> QED BY <2>1
<1>2. CASE ConnectFails(w)
  <2>1. Arrives(w, "backoff")
    BY <1>2 DEF ConnectFails
  <2> QED BY <2>1
<1>3. CASE Retry(w)
  <2>1. Arrives(w, "connect")
    BY <1>3 DEF Retry
  <2> QED BY <2>1
<1>4. CASE Leave(w)
  <2>1. Arrives(w, "ended")
    BY <1>4 DEF Leave
  <2> QED BY <2>1
<1>5. CASE ReadRows(w)
  <2>1. Arrives(w, "commit")
    BY <1>5 DEF ReadRows
  <2> QED BY <2>1
<1>6. CASE UpdateRow(w)
  <2>1. Arrives(w, "commit")
    BY <1>6 DEF UpdateRow
  <2> QED BY <2>1
<1>7. CASE ExecuteErpQuery(w)
  <2>1. Arrives(w, "commit")
    BY <1>7 DEF ExecuteErpQuery
  <2> QED BY <2>1
<1>8. CASE ControlledLock(w)
  <2>1. Arrives(w, "commit")
    BY <1>8 DEF ControlledLock
  <2> QED BY <2>1
<1>9. CASE RetentionLock(w)
  <2>1. Arrives(w, "insert")
    BY <1>9 DEF RetentionLock, Waits
  <2> QED BY <2>1
<1>10. CASE RequeueJob(w)
  <2>1. worker[w].op = "claim"
    BY <1>10 DEF RequeueJob, TypeInv, PlaceInv
  <2>2. Arrives(w, "commit")
    BY <1>10, <2>1 DEF RequeueJob
  <2> QED BY <2>2
<1> QED BY <1>1, <1>2, <1>3, <1>4, <1>5, <1>6, <1>7, <1>8, <1>9, <1>10 DEF Moves

(* What that says of its next state.                                       *)
LEMMA MovesPlace ==
  ASSUME TypeInv, NEW w \in Worker, NEW at \in Place, Arrives(w, at)
  PROVE  /\ worker' \in [Worker -> Context]
         /\ worker' = [worker EXCEPT ![w] = worker'[w]]
         /\ worker'[w].op = worker[w].op /\ worker'[w].on = worker[w].on
         /\ worker'[w].at = at /\ at \notin {"cleanup", "requeue"}
         /\ at = "insert" => worker[w].op \in Table
         /\ at = "insert" => \A v \in Worker \ {w} : ~Holds(v, worker[w].op)
         /\ at = "commit" => worker[w].op \notin Table
         /\ at = "commit" /\ worker[w].op = "erp" => ExecuteErpQuery(w)
         /\ ~At(w, {"raised"})
         /\ InTransaction(w) <=> InTransaction(w)'
<1>1. Goes(w, at)
  BY DEF Arrives
<1>2. /\ worker' \in [Worker -> Context]
      /\ worker' = [worker EXCEPT ![w] = [worker[w] EXCEPT !.at = at]]
      /\ worker'[w].at = at /\ worker'[w].op = worker[w].op
      /\ worker'[w].on = worker[w].on
  BY <1>1, GoesType
<1>3. worker' = [worker EXCEPT ![w] = worker'[w]]
  BY <1>2 DEF TypeInv
<1>4. InTransaction(w) <=> InTransaction(w)'
  <2>1. InTransaction(w)' <=> at \in Open \ {"idle"}
    BY <1>2 DEF InTransaction, At
  <2> QED BY <2>1 DEF Arrives
<1>5. ~At(w, {"raised"})
  <2>1. At(w, Open \cup {"connect", "backoff"})
    BY DEF Arrives
  <2> QED BY <2>1 DEF At, Open
<1>6. /\ at \notin {"cleanup", "requeue"}
      /\ at = "insert" => worker[w].op \in Table
      /\ at = "insert" => \A v \in Worker \ {w} : ~Holds(v, worker[w].op)
      /\ at = "commit" => worker[w].op \notin Table
      /\ at = "commit" /\ worker[w].op = "erp" => ExecuteErpQuery(w)
  BY DEF Arrives
<1> QED BY <1>2, <1>3, <1>4, <1>5, <1>6

LEMMA MovesType ==
  ASSUME TypeInv, NEW w \in Worker, Moves(w)
  PROVE  TypeInv'
<1>1. PICK at \in Place : Arrives(w, at)
  BY MovesGoes
<1>2. /\ worker' \in [Worker -> Context]
      /\ worker' = [worker EXCEPT ![w] = worker'[w]]
      /\ worker'[w].op = worker[w].op
      /\ worker'[w].at = at /\ at \notin {"cleanup", "requeue"}
      /\ at = "insert" => worker[w].op \in Table
      /\ at = "commit" => worker[w].op \notin Table
  BY <1>1, MovesPlace
<1>3. PlaceInv(w)'
  <2>1. worker'[w].op \in Table => worker'[w].at # "commit"
    BY <1>2
  <2> QED BY <1>2, <2>1 DEF PlaceInv, At
<1>4. \A v \in Worker : PlaceInv(v)'
  BY <1>2, <1>3, OthersStay
<1>5. faults' \in Nat
  BY DEF Moves, TypeInv, Connect, ConnectFails, Retry, Leave, ReadRows, UpdateRow,
         ExecuteErpQuery, ControlledLock, RetentionLock, RequeueJob, Fault
<1>6. UNCHANGED <<mainVars, now, metricVars, rows, nextId, job>>
  BY DEF Moves, Connect, ConnectFails, Retry, Leave, ReadRows, UpdateRow,
         ExecuteErpQuery, ControlledLock, RetentionLock, RequeueJob, mainVars,
         metricVars, dataVars
<1> QED BY <1>2, <1>4, <1>5, <1>6 DEF TypeInv, mainVars, metricVars

(* An operation begins.                                                    *)
LEMMA ChooseType ==
  ASSUME TypeInv, NEW w \in Worker, NEW op \in Operation(w), Choose(w, op)
  PROVE  /\ TypeInv'
         /\ worker' = [worker EXCEPT ![w] = worker'[w]]
         /\ worker'[w].at = "begin" /\ worker'[w].op = op
         /\ op = "erp" => worker'[w].on = Ordinal
<1> DEFINE on == IF op = "erp" THEN Ordinal ELSE 0
           new == [at |-> "begin", op |-> op, on |-> on, doomed |-> {}]
<1>1. on \in Nat
  BY OrdinalType, OperationType DEF TypeInv
<1>2. new \in Context
  <2> HIDE DEF on
  <2> QED BY <1>1, OperationType DEF Context, Place, Open
<1>3. worker' = [worker EXCEPT ![w] = new]
  BY DEF Choose
<1>4. new.at = "begin" /\ new.op = op /\ (op = "erp" => new.on = Ordinal)
  OBVIOUS
<1> HIDE DEF new
<1>5. worker' \in [Worker -> Context] /\ worker'[w] = new
  BY <1>2, <1>3 DEF TypeInv
<1>6. PlaceInv(w)'
  BY <1>4, <1>5 DEF PlaceInv, At
<1>7. \A v \in Worker : PlaceInv(v)'
  BY <1>3, <1>6, OthersStay
<1>8. nextOrdinal' \in Nat
  BY DEF Choose, TypeInv
<1> QED BY <1>3, <1>4, <1>5, <1>7, <1>8 DEF Choose, TypeInv, mainVars, dataVars

(* The INSERT ...                                                          *)
LEMMA InsertType ==
  ASSUME TypeInv, NEW w \in Worker, InsertRow(w)
  PROVE  /\ TypeInv'
         /\ worker' = [worker EXCEPT ![w] = worker'[w]]
         /\ worker'[w].at = "cleanup" /\ worker'[w].op = worker[w].op
<1> DEFINE new == [worker[w] EXCEPT !.at = "cleanup", !.on = nextId[worker[w].op]]
<1>1. worker[w] \in Context /\ worker[w].op \in Table /\ nextId[worker[w].op] \in Nat
  BY DEF TypeInv, InsertRow, PlaceInv, At
<1>2. new \in Context /\ new.at = "cleanup" /\ new.on \in Nat /\ new.op = worker[w].op
  BY <1>1 DEF Context, Place, Open
<1>3. worker' = [worker EXCEPT ![w] = new]
  BY DEF InsertRow, TypeInv
<1> HIDE DEF new
<1>4. worker' \in [Worker -> Context] /\ worker'[w] = new
  BY <1>2, <1>3 DEF TypeInv
<1>5. PlaceInv(w)'
  BY <1>1, <1>2, <1>4 DEF PlaceInv, At
<1>6. \A v \in Worker : PlaceInv(v)'
  BY <1>3, <1>5, OthersStay
<1>7. nextId' \in [Table -> Nat]
  BY <1>1 DEF InsertRow, TypeInv
<1> QED BY <1>2, <1>3, <1>4, <1>6, <1>7 DEF InsertRow, TypeInv, mainVars, metricVars

(* ... and the cleanup.                                                    *)
LEMMA CleanUpType ==
  ASSUME TypeInv, NEW w \in Worker, CleanUp(w)
  PROVE  /\ TypeInv'
         /\ worker' = [worker EXCEPT ![w] = worker'[w]]
         /\ worker'[w].at = "commit" /\ worker'[w].op = worker[w].op
         /\ worker'[w].on = worker[w].on
         /\ worker'[w].doomed = Doomed(rows[worker[w].op] \cup {worker[w].on})
<1> DEFINE gone == Doomed(rows[worker[w].op] \cup {worker[w].on})
           new == [worker[w] EXCEPT !.at = "commit", !.doomed = gone]
<1>1. /\ worker[w] \in Context /\ worker[w].op \in Table /\ worker[w].on \in Nat
      /\ rows[worker[w].op] \in SUBSET Nat
  BY DEF TypeInv, CleanUp, PlaceInv, At
<1>2. gone \in SUBSET Nat
  BY <1>1 DEF Doomed
<1>3. worker' = [worker EXCEPT ![w] = new]
  BY DEF CleanUp, TypeInv
<1>4. /\ new \in Context /\ new.at = "commit" /\ new.on = worker[w].on
      /\ new.op = worker[w].op /\ new.doomed = gone
  <2> HIDE DEF gone
  <2> QED BY <1>1, <1>2 DEF Context, Place, Open
<1> HIDE DEF new
<1>5. worker' \in [Worker -> Context] /\ worker'[w] = new
  BY <1>3, <1>4 DEF TypeInv
<1>6. PlaceInv(w)'
  BY <1>1, <1>4, <1>5 DEF PlaceInv, At
<1>7. \A v \in Worker : PlaceInv(v)'
  BY <1>3, <1>6, OthersStay
<1> QED BY <1>3, <1>4, <1>5, <1>7 DEF CleanUp, TypeInv, mainVars, metricVars, dataVars

(* A job is claimed, or there is none.                                     *)
LEMMA ClaimType ==
  ASSUME TypeInv, NEW w \in Worker, ClaimJob(w)
  PROVE  /\ TypeInv'
         /\ worker' = [worker EXCEPT ![w] = worker'[w]]
         /\ worker'[w].at \in {"requeue", "commit"} /\ worker'[w].op = "claim"
<1>0. worker[w] \in Context /\ worker[w].op = "claim"
  BY DEF TypeInv, ClaimJob, Statement
<1>1. PICK new \in Context :
        /\ worker' = [worker EXCEPT ![w] = new]
        /\ new.at \in {"requeue", "commit"} /\ new.op = "claim"
  <2>1. CASE Goes(w, "commit")
    <3>1. [worker[w] EXCEPT !.at = "commit"] \in Context
      BY <1>0 DEF Context, Place, Open
    <3> QED BY <2>1, <3>1, <1>0 DEF Goes, TypeInv, Context
  <2>2. ASSUME NEW j \in Claimable,
               worker' = [worker EXCEPT ![w].at = "requeue", ![w].on = j]
        PROVE  \E new \in Context :
                 /\ worker' = [worker EXCEPT ![w] = new]
                 /\ new.at \in {"requeue", "commit"} /\ new.op = "claim"
    <3>1. j \in Job
      BY DEF Claimable
    <3>2. [worker[w] EXCEPT !.at = "requeue", !.on = j] \in Context
      BY <1>0, <3>1 DEF Context, Place, Open
    <3> QED BY <2>2, <3>2, <1>0 DEF TypeInv, Context
  <2> QED BY <2>1, <2>2 DEF ClaimJob
<1>2. worker' \in [Worker -> Context] /\ worker'[w] = new
  BY <1>1 DEF TypeInv
<1>3. PlaceInv(w)'
  BY <1>1, <1>2 DEF PlaceInv, At, Table
<1>4. \A v \in Worker : PlaceInv(v)'
  BY <1>1, <1>3, OthersStay
<1> QED BY <1>1, <1>2, <1>4 DEF ClaimJob, TypeInv, mainVars, metricVars, dataVars

(* What a commit makes durable keeps the tables well typed, and a job that *)
(* is requeued is ready.                                                   *)
LEMMA DurableType ==
  ASSUME TypeInv, NEW w \in Worker, At(w, {"commit"}), Durable(w)
  PROVE  /\ rows' \in [Table -> SUBSET Nat] /\ nextId' \in [Table -> Nat]
         /\ job' \in [Job -> [ready : {TRUE}, due : BOOLEAN]]
<1> DEFINE t == worker[w].op
<1>1. rows' \in [Table -> SUBSET Nat]
  <2>1. CASE t \in Table
    <3>1. worker[w].on \in Nat /\ rows[t] \in SUBSET Nat
      BY <2>1 DEF TypeInv, PlaceInv, At
    <3>2. rows' = [rows EXCEPT ![t] = (@ \cup {worker[w].on}) \ worker[w].doomed]
      BY <2>1 DEF Durable
    <3> QED BY <3>1, <3>2 DEF TypeInv
  <2>2. CASE t \notin Table
    BY <2>2 DEF Durable, TypeInv
  <2> QED BY <2>1, <2>2
<1>2. job' \in [Job -> [ready : {TRUE}, due : BOOLEAN]]
  BY DEF Durable, TypeInv
<1> QED BY <1>1, <1>2 DEF Durable, TypeInv

(* The transaction is over, one way or another, or the thread with it.     *)
Ends(w) == Commit(w) \/ StatementFails(w) \/ ConnectionLost(w) \/ Raise(w)

LEMMA EndsType ==
  ASSUME TypeInv, NEW w \in Worker, Ends(w)
  PROVE  /\ TypeInv'
         /\ worker' = [worker EXCEPT ![w] = worker'[w]]
         /\ worker'[w].at \in {"idle", "connect", "raised"}
         /\ worker'[w].op = "none"
<1>1. PICK at \in {"idle", "connect", "raised"} : Drops(w, at)
  BY DEF Ends, Commit, StatementFails, ConnectionLost, Raise
<1>2. at \in Place
  BY DEF Place, Open
<1>3. /\ worker' \in [Worker -> Context]
      /\ worker' = [worker EXCEPT ![w] = [NoWork EXCEPT !.at = at]]
      /\ worker'[w].at = at /\ worker'[w].op = "none"
  BY <1>1, <1>2, DropsType
<1>4. PlaceInv(w)'
  BY <1>1, <1>3 DEF PlaceInv, At
<1>5. \A v \in Worker : PlaceInv(v)'
  BY <1>3, <1>4, OthersStay
<1>6. /\ rows' \in [Table -> SUBSET Nat] /\ nextId' \in [Table -> Nat]
      /\ job' \in [Job -> [ready : {TRUE}, due : BOOLEAN]]
  <2>1. CASE UNCHANGED dataVars
    BY <2>1 DEF dataVars, TypeInv
  <2>2. CASE At(w, {"commit"}) /\ Durable(w)
    BY <2>2, DurableType
  <2> QED BY <2>1, <2>2 DEF Ends, Commit, StatementFails, ConnectionLost, Raise
<1>7. visited' \in SUBSET (Nat \cup Job)
  <2>1. worker[w].on \in Nat \cup Job
    BY DEF TypeInv, Context
  <2> QED BY <2>1 DEF Ends, Commit, StatementFails, ConnectionLost, Raise, metricVars,
                      TypeInv
<1>8. succeeded' \in Nat /\ failed' \in Nat /\ nextOrdinal' \in Nat /\ faults' \in Nat
  BY DEF Ends, Commit, StatementFails, ConnectionLost, Raise, metricVars, Fault, TypeInv
<1>9. UNCHANGED mainVars /\ now' = now
  BY DEF Ends, Commit, StatementFails, ConnectionLost, Raise
<1> QED BY <1>1, <1>3, <1>5, <1>6, <1>7, <1>8, <1>9 DEF TypeInv, mainVars

(* The supervisor, the clock and the signal.                               *)
Supervision == Abort \/ Supervise \/ Finish \/ RequestStop \/ Tick

LEMMA SupervisionType ==
  ASSUME TypeInv, Supervision
  PROVE  TypeInv' /\ worker' = worker
<1>1. worker' = worker /\ UNCHANGED <<metricVars, rows, nextId, recorded>>
  BY DEF Supervision, Abort, Supervise, Finish, RequestStop, Tick, dataVars
<1>2. \A v \in Worker : PlaceInv(v)'
  BY <1>1 DEF TypeInv, PlaceInv, At
<1>3. job' \in [Job -> [ready : {TRUE}, due : BOOLEAN]]
  <2>1. CASE Tick
    <3>1. \A j \in Job : [job[j] EXCEPT !.due = TRUE] \in [ready : {TRUE}, due : BOOLEAN]
      BY DEF TypeInv
    <3>2. job' = [j \in Job |-> [job[j] EXCEPT !.due = TRUE]]
      BY <2>1 DEF Tick
    <3> QED BY <3>1, <3>2
  <2>2. CASE job' = job
    BY <2>2 DEF TypeInv
  <2> QED BY <2>1, <2>2 DEF Supervision, Abort, Supervise, Finish, RequestStop, dataVars
<1>4. now' \in Nat /\ faults' \in Nat
  <2>1. now \in Nat /\ faults \in Nat
    BY DEF TypeInv
  <2>2. (now' = now \/ now' = now + 1) /\ (faults' = faults \/ faults' = faults + 1)
    BY DEF Supervision, Abort, Supervise, Finish, RequestStop, Tick, Fault
  <2> QED BY <2>1, <2>2
<1>5. /\ phase' \in {"preflight", "running", "joining", "done"}
      /\ status' \in {"none", "failed", "interrupted", "completed"}
      /\ stop' \in BOOLEAN /\ signalled' \in BOOLEAN /\ fatal' \in BOOLEAN
  <2>1. CASE Abort
    BY <2>1 DEF Abort, TypeInv
  <2>2. CASE Supervise
    <3>1. (\E w \in Ended : At(w, {"raised"})) \in BOOLEAN
      OBVIOUS
    <3>2. fatal' \in BOOLEAN
      BY <2>2, <3>1, Zenon DEF Supervise
    <3>3. (stop \/ fatal' \/ futures' = {} \/ now >= Duration) \in BOOLEAN
      OBVIOUS
    <3>4. stop' \in BOOLEAN
      BY <2>2, <3>3, Zenon DEF Supervise
    <3>5. phase' \in {"preflight", "running", "joining", "done"}
      <4>1. \/ phase' = "joining" \/ phase' = phase
        BY <2>2, Zenon DEF Supervise
      <4> QED BY <4>1 DEF TypeInv
    <3> QED BY <2>2, <3>2, <3>4, <3>5 DEF Supervise, TypeInv
  <2>3. CASE Finish
    BY <2>3 DEF Finish, Verdict, TypeInv
  <2>4. CASE RequestStop
    BY <2>4 DEF RequestStop, TypeInv
  <2>5. CASE Tick
    BY <2>5 DEF Tick, mainVars, TypeInv
  <2> QED BY <2>1, <2>2, <2>3, <2>4, <2>5 DEF Supervision
<1>7. futures' \in SUBSET Worker
  BY DEF Supervision, Abort, Supervise, Finish, RequestStop, Tick, mainVars, TypeInv
<1> QED BY <1>1, <1>2, <1>3, <1>4, <1>5, <1>7 DEF TypeInv, metricVars

(* The threads are started.                                                *)
LEMMA StartType ==
  ASSUME TypeInv, Start
  PROVE  TypeInv' /\ \A v \in Worker : worker'[v].at = "connect"
<1>1. \A v \in Worker : /\ [worker[v] EXCEPT !.at = "connect"] \in Context
                        /\ [worker[v] EXCEPT !.at = "connect"].at = "connect"
  BY DEF TypeInv, Context, Place
<1>2. worker' = [v \in Worker |-> [worker[v] EXCEPT !.at = "connect"]]
  BY DEF Start
<1>3. worker' \in [Worker -> Context] /\ \A v \in Worker : worker'[v].at = "connect"
  BY <1>1, <1>2
<1>4. \A v \in Worker : PlaceInv(v)'
  BY <1>3 DEF PlaceInv, At
<1> QED BY <1>3, <1>4 DEF Start, TypeInv, metricVars, dataVars

(* Every step is one of these.                                             *)
LEMMA StepCases ==
  ASSUME [Next]_vars
  PROVE  \/ \E w \in Worker : Moves(w)
         \/ \E w \in Worker : \E op \in Operation(w) : Choose(w, op)
         \/ \E w \in Worker : InsertRow(w)
         \/ \E w \in Worker : CleanUp(w)
         \/ \E w \in Worker : ClaimJob(w)
         \/ \E w \in Worker : Ends(w)
         \/ Start \/ Supervision \/ UNCHANGED vars
BY DEF Next, Work, Moves, Ends, Supervision, Terminated

LEMMA TypeStep == TypeInv /\ [Next]_vars => TypeInv'
<1> SUFFICES ASSUME TypeInv, [Next]_vars PROVE TypeInv'
  OBVIOUS
<1>1. CASE UNCHANGED vars
  BY <1>1 DEF vars, mainVars, metricVars, dataVars, TypeInv, PlaceInv, At
<1> QED BY <1>1, StepCases, MovesType, ChooseType, InsertType, CleanUpType, ClaimType,
           EndsType, StartType, SupervisionType

-----------------------------------------------------------------------------
(* The tables stay bounded. *)

(* A set of numbers that is not empty has a smallest member.               *)
LEMMA SmallestId ==
  ASSUME NEW S \in SUBSET Nat, S # {}
  PROVE  \E m \in S : \A i \in S : m <= i
<1>1. \E m \in S : \A i \in S : ~(<<i, m>> \in OpToRel(<, Nat))
  BY NatLessThanWellFounded, WFMin
<1>2. PICK m \in S : \A i \in S : ~(i < m)
  BY <1>1 DEF OpToRel
<1> QED BY <1>2

(* One row over the limit: the cleanup takes it.                           *)
LEMMA CleanedUp ==
  ASSUME NEW S \in SUBSET Nat, IsFiniteSet(S), Cardinality(S) <= MaxRows + 1
  PROVE  IsFiniteSet(S \ Doomed(S)) /\ Cardinality(S \ Doomed(S)) <= MaxRows
<1>0. MaxRows \in Nat /\ CleanupBatch \in Nat \ {0} /\ Cardinality(S) \in Nat
  BY WorkloadAssumption, FS_CardinalityType
<1>1. IsFiniteSet(S \ Doomed(S)) /\ Cardinality(S \ Doomed(S)) <= Cardinality(S)
  BY FS_Subset, S \ Doomed(S) \subseteq S
<1>2. CASE Cardinality(S) <= MaxRows
  <2>1. Cardinality(S \ Doomed(S)) \in Nat
    BY <1>1, FS_CardinalityType
  <2> QED BY <1>0, <1>1, <1>2, <2>1
<1>3. CASE Cardinality(S) = MaxRows + 1
  <2>1. S # {}
    BY <1>0, <1>3, FS_EmptySet
  <2>2. PICK m \in S : \A i \in S : m <= i
    BY <2>1, SmallestId
  <2>3. IsFiniteSet(S \ {m}) /\ Cardinality(S \ {m}) = MaxRows
    BY <1>0, <1>3, FS_RemoveElement
  <2>4. {i \in S : i > m} = S \ {m}
    <3>1. m \in Nat
      OBVIOUS
    <3>2. ASSUME NEW i \in S PROVE i > m <=> i # m
      <4>1. i \in Nat /\ m <= i
        BY <2>2
      <4> QED BY <3>1, <4>1
    <3> QED BY <3>2
  <2>5. m \in Doomed(S)
    BY <1>0, <2>3, <2>4 DEF Doomed, Newer
  <2>6. S \ Doomed(S) \subseteq S \ {m}
    BY <2>5
  <2> QED BY <1>1, <2>3, <2>6, FS_Subset
<1> QED BY <1>0, <1>2, <1>3

(* A step that leaves the tables alone: who is new to a table finds it     *)
(* free, and who comes to the commit knows what is doomed.                 *)
LEMMA RetentionFrame ==
  ASSUME TypeInv, RetentionInv, NEW w \in Worker,
         worker' = [worker EXCEPT ![w] = worker'[w]], rows' = rows,
         \A t \in Table : Holds(w, t)' =>
           Holds(w, t) \/ \A v \in Worker \ {w} : ~Holds(v, t),
         At(w, {"commit"})' /\ worker'[w].op \in Table =>
           worker'[w].doomed = Doomed(rows[worker'[w].op] \cup {worker'[w].on})
  PROVE  RetentionInv'
<1>1. \A v \in Worker \ {w} : worker'[v] = worker[v]
  BY DEF TypeInv
<1>2. \A v \in Worker \ {w} : \A t \in Table : Holds(v, t)' => Holds(v, t)
  BY <1>1 DEF Holds, At
<1>3. (\A t \in Table : IsFiniteSet(rows[t]) /\ Cardinality(rows[t]) <= MaxRows)'
  BY DEF RetentionInv
<1>4. (\A u, v \in Worker : \A t \in Table : Holds(u, t) /\ Holds(v, t) => u = v)'
  <2> SUFFICES ASSUME NEW u \in Worker, NEW v \in Worker, NEW t \in Table,
                      Holds(u, t)', Holds(v, t)', u # v
               PROVE  FALSE
    OBVIOUS
  <2>1. CASE u # w /\ v # w
    BY <2>1, <1>2 DEF RetentionInv
  <2>2. CASE u = w \/ v = w
    BY <2>2, <1>2 DEF RetentionInv
  <2> QED BY <2>1, <2>2
<1>5. (\A v \in Worker : At(v, {"commit"}) /\ worker[v].op \in Table =>
         worker[v].doomed = Doomed(rows[worker[v].op] \cup {worker[v].on}))'
  <2> SUFFICES ASSUME NEW v \in Worker, worker'[v].at = "commit",
                      worker'[v].op \in Table
               PROVE  worker'[v].doomed
                        = Doomed(rows[worker'[v].op] \cup {worker'[v].on})
    BY DEF At, Doomed, Newer
  <2>1. CASE v = w
    BY <2>1 DEF At
  <2>2. CASE v # w
    BY <2>2, <1>1 DEF At, RetentionInv
  <2> QED BY <2>1, <2>2
<1> QED BY <1>3, <1>4, <1>5 DEF RetentionInv

(* A commit that is carried out keeps every table within the limit, and    *)
(* touches only the table whose lock it holds.                             *)
LEMMA DurableBounded ==
  ASSUME TypeInv, RetentionInv, NEW w \in Worker, At(w, {"commit"}), Durable(w)
  PROVE  /\ \A t \in Table : IsFiniteSet(rows'[t]) /\ Cardinality(rows'[t]) <= MaxRows
         /\ \A t \in Table : t # worker[w].op => rows'[t] = rows[t]
<1> DEFINE op == worker[w].op
           S == rows[op] \cup {worker[w].on}
<1>1. CASE op \in Table
  <2>1. rows' = [rows EXCEPT ![op] = S \ worker[w].doomed]
    BY <1>1 DEF Durable, TypeInv
  <2>2. rows \in [Table -> SUBSET Nat] /\ worker[w].on \in Nat
    BY <1>1 DEF TypeInv, PlaceInv, At
  <2>3. worker[w].doomed = Doomed(S)
    BY <1>1 DEF RetentionInv
  <2>4. IsFiniteSet(rows[op]) /\ Cardinality(rows[op]) <= MaxRows
    BY <1>1 DEF RetentionInv
  <2>5. S \in SUBSET Nat
    BY <1>1, <2>2
  <2>6. /\ IsFiniteSet(S)
        /\ \/ Cardinality(S) = Cardinality(rows[op]) + 1
           \/ Cardinality(S) = Cardinality(rows[op])
    BY <2>4, FS_AddElement
  <2>7. Cardinality(rows[op]) \in Nat /\ MaxRows \in Nat
    BY <2>4, FS_CardinalityType, WorkloadAssumption
  <2> HIDE DEF S
  <2>8. Cardinality(S) <= MaxRows + 1
    BY <2>4, <2>6, <2>7
  <2>9. IsFiniteSet(S \ Doomed(S)) /\ Cardinality(S \ Doomed(S)) <= MaxRows
    BY <2>5, <2>6, <2>8, CleanedUp
  <2>10. \A t \in Table : rows'[t] = IF t = op THEN S \ Doomed(S) ELSE rows[t]
    BY <2>1, <2>2, <2>3
  <2> QED BY <2>9, <2>10 DEF RetentionInv
<1>2. CASE op \notin Table
  <2>1. rows' = rows
    BY <1>2 DEF Durable
  <2> QED BY <2>1 DEF RetentionInv
<1> QED BY <1>1, <1>2

(* The end of a transaction lets go of the table.                          *)
LEMMA EndsRetention ==
  ASSUME TypeInv, RetentionInv, NEW w \in Worker, Ends(w)
  PROVE  RetentionInv'
<1>1. /\ worker' = [worker EXCEPT ![w] = worker'[w]]
      /\ worker'[w].op = "none"
  BY EndsType
<1>2. \A t \in Table : ~Holds(w, t)'
  BY <1>1 DEF Holds, Table
<1>3. CASE rows' = rows
  BY <1>1, <1>2, <1>3, RetentionFrame DEF Table
<1>4. CASE At(w, {"commit"}) /\ Durable(w)
  <2>1. /\ \A t \in Table : IsFiniteSet(rows'[t]) /\ Cardinality(rows'[t]) <= MaxRows
        /\ \A t \in Table : t # worker[w].op => rows'[t] = rows[t]
    BY <1>4, DurableBounded
  <2>2. \A v \in Worker \ {w} : worker'[v] = worker[v]
    BY <1>1 DEF TypeInv
  <2>3. (\A u, v \in Worker : \A t \in Table : Holds(u, t) /\ Holds(v, t) => u = v)'
    <3> SUFFICES ASSUME NEW u \in Worker, NEW v \in Worker, NEW t \in Table,
                        Holds(u, t)', Holds(v, t)'
                 PROVE  u = v
      OBVIOUS
    <3>1. u # w /\ v # w
      BY <1>2
    <3>2. Holds(u, t) /\ Holds(v, t)
      BY <2>2, <3>1 DEF Holds, At
    <3> QED BY <3>2 DEF RetentionInv
  <2>4. (\A v \in Worker : At(v, {"commit"}) /\ worker[v].op \in Table =>
           worker[v].doomed = Doomed(rows[worker[v].op] \cup {worker[v].on}))'
    <3> SUFFICES ASSUME NEW v \in Worker, worker'[v].at = "commit",
                        worker'[v].op \in Table
                 PROVE  worker'[v].doomed
                          = Doomed(rows'[worker'[v].op] \cup {worker'[v].on})
      BY DEF At, Doomed, Newer
    <3>1. v # w
      BY <1>1 DEF Table
    <3>2. worker'[v] = worker[v] /\ Holds(v, worker[v].op)
      BY <2>2, <3>1 DEF Holds, At
    <3>3. worker[v].op # worker[w].op
      BY <1>4, <3>1, <3>2 DEF Holds, At, RetentionInv
    <3>4. rows'[worker[v].op] = rows[worker[v].op]
      BY <2>1, <3>2, <3>3
    <3>5. worker[v].doomed = Doomed(rows[worker[v].op] \cup {worker[v].on})
      BY <3>2 DEF At, RetentionInv
    <3> QED BY <3>2, <3>4, <3>5
  <2> QED BY <2>1, <2>3, <2>4 DEF RetentionInv
<1> QED BY <1>3, <1>4 DEF Ends, Commit, StatementFails, ConnectionLost, Raise, dataVars

LEMMA RetentionStep == TypeInv /\ RetentionInv /\ [Next]_vars => RetentionInv'
<1> SUFFICES ASSUME TypeInv, RetentionInv, [Next]_vars PROVE RetentionInv'
  OBVIOUS
<1>1. ASSUME NEW w \in Worker, Moves(w) PROVE RetentionInv'
  <2>1. PICK at \in Place : Arrives(w, at)
    BY <1>1, MovesGoes
  <2>2. /\ worker' = [worker EXCEPT ![w] = worker'[w]]
        /\ worker'[w].op = worker[w].op
        /\ worker'[w].at = at /\ at \notin {"cleanup", "requeue"}
        /\ at = "insert" => \A v \in Worker \ {w} : ~Holds(v, worker[w].op)
        /\ at = "commit" => worker[w].op \notin Table
    BY <2>1, MovesPlace
  <2>3. rows' = rows
    BY <1>1 DEF Moves, Connect, ConnectFails, Retry, Leave, ReadRows, UpdateRow,
       ExecuteErpQuery, ControlledLock, RetentionLock, RequeueJob, dataVars
  <2>4. \A t \in Table : Holds(w, t)' =>
          Holds(w, t) \/ \A v \in Worker \ {w} : ~Holds(v, t)
    BY <2>2 DEF Holds, At
  <2>5. ~(At(w, {"commit"})' /\ worker'[w].op \in Table)
    BY <2>2 DEF At
  <2> QED BY <2>2, <2>3, <2>4, <2>5, RetentionFrame
<1>2. ASSUME NEW w \in Worker, NEW op \in Operation(w), Choose(w, op)
      PROVE  RetentionInv'
  <2>1. worker' = [worker EXCEPT ![w] = worker'[w]] /\ worker'[w].at = "begin"
    BY <1>2, ChooseType
  <2>2. rows' = rows
    BY <1>2 DEF Choose, dataVars
  <2>3. \A t \in Table : ~Holds(w, t)'
    BY <2>1 DEF Holds, At
  <2>4. ~At(w, {"commit"})'
    BY <2>1 DEF At
  <2> QED BY <2>1, <2>2, <2>3, <2>4, RetentionFrame
<1>3. ASSUME NEW w \in Worker, InsertRow(w) PROVE RetentionInv'
  <2>1. /\ worker' = [worker EXCEPT ![w] = worker'[w]]
        /\ worker'[w].at = "cleanup" /\ worker'[w].op = worker[w].op
    BY <1>3, InsertType
  <2>2. rows' = rows /\ At(w, {"insert"})
    BY <1>3 DEF InsertRow
  <2>3. \A t \in Table : Holds(w, t)' => Holds(w, t)
    BY <2>1, <2>2 DEF Holds, At
  <2>4. ~At(w, {"commit"})'
    BY <2>1 DEF At
  <2> QED BY <2>1, <2>2, <2>3, <2>4, RetentionFrame
<1>4. ASSUME NEW w \in Worker, CleanUp(w) PROVE RetentionInv'
  <2>1. /\ worker' = [worker EXCEPT ![w] = worker'[w]]
        /\ worker'[w].at = "commit" /\ worker'[w].op = worker[w].op
        /\ worker'[w].on = worker[w].on
        /\ worker'[w].doomed = Doomed(rows[worker[w].op] \cup {worker[w].on})
    BY <1>4, CleanUpType
  <2>2. rows' = rows /\ At(w, {"cleanup"})
    BY <1>4 DEF CleanUp, dataVars
  <2>3. \A t \in Table : Holds(w, t)' => Holds(w, t)
    BY <2>1, <2>2 DEF Holds, At
  <2> QED BY <2>1, <2>2, <2>3, RetentionFrame
<1>5. ASSUME NEW w \in Worker, ClaimJob(w) PROVE RetentionInv'
  <2>1. worker' = [worker EXCEPT ![w] = worker'[w]] /\ worker'[w].op = "claim"
    BY <1>5, ClaimType
  <2>2. rows' = rows
    BY <1>5 DEF ClaimJob, dataVars
  <2>3. worker'[w].op \notin Table /\ \A t \in Table : ~Holds(w, t)'
    BY <2>1 DEF Holds, Table
  <2> QED BY <2>1, <2>2, <2>3, RetentionFrame
<1>6. ASSUME NEW w \in Worker, Ends(w) PROVE RetentionInv'
  BY <1>6, EndsRetention
<1>7. ASSUME Start PROVE RetentionInv'
  <2>1. \A v \in Worker : worker'[v].at = "connect"
    BY <1>7, StartType
  <2>2. rows' = rows
    BY <1>7 DEF Start, dataVars
  <2> QED BY <2>1, <2>2 DEF RetentionInv, Holds, At
<1>8. ASSUME worker' = worker, rows' = rows PROVE RetentionInv'
  BY <1>8 DEF RetentionInv, Holds, At, Doomed, Newer
<1>9. ASSUME Supervision \/ UNCHANGED vars PROVE worker' = worker /\ rows' = rows
  BY <1>9 DEF Supervision, Abort, Supervise, Finish, RequestStop, Tick, vars, dataVars
<1> QED BY <1>1, <1>2, <1>3, <1>4, <1>5, <1>6, <1>7, <1>8, <1>9, StepCases

-----------------------------------------------------------------------------
(* The coverage is honest. *)

(* Numbers of the sweep, by division with remainder.                       *)
LEMMA Longer ==
  ASSUME NEW V \in Nat \ {0}, NEW k \in Nat \ {0}
  PROVE  k * V >= V
<1>1. (k - 1) * V >= 0
  OBVIOUS
<1>2. k * V = (k - 1) * V + V
  OBVIOUS
<1> QED BY <1>1, <1>2

(* What division gives ...                                                 *)
LEMMA DivMod ==
  ASSUME NEW V \in Nat \ {0}, NEW n \in Nat
  PROVE  /\ n \div V \in Nat /\ n % V \in 0..(V - 1)
         /\ n = (n \div V) * V + (n % V)
<1>1. n % V \in 0..(V - 1)
  OBVIOUS
<1>2. n \div V \in Int
  OBVIOUS
<1>3. n = V * (n \div V) + (n % V)
  OBVIOUS
<1>4. n \div V >= 0
  BY <1>1, <1>2, <1>3
<1> QED BY <1>1, <1>2, <1>3, <1>4

(* ... is the only way to write a number that way.                         *)
LEMMA DivUnique ==
  ASSUME NEW V \in Nat \ {0}, NEW q \in Nat, NEW r \in 0..(V - 1), NEW n \in Nat, n = q * V + r
  PROVE  n \div V = q /\ n % V = r
<1>1. PICK d \in Nat, m \in 0..(V - 1) : d = n \div V /\ m = n % V /\ n = d * V + m
  BY DivMod
<1>2. CASE d = q
  BY <1>1, <1>2
<1>3. CASE d < q
  <2>1. q - d \in Nat \ {0}
    BY <1>3
  <2>2. (q - d) * V >= V
    BY <2>1, Longer
  <2>3. q * V = d * V + (q - d) * V
    OBVIOUS
  <2> QED BY <1>1, <2>2, <2>3
<1>4. CASE d > q
  <2>1. d - q \in Nat \ {0}
    BY <1>4
  <2>2. (d - q) * V >= V
    BY <2>1, Longer
  <2>3. d * V = q * V + (d - q) * V
    OBVIOUS
  <2> QED BY <1>1, <2>2, <2>3
<1> QED BY <1>1, <1>2, <1>3, <1>4

(* The quotient stays below the other factor ...                           *)
LEMMA DivBound ==
  ASSUME NEW V \in Nat \ {0}, NEW T \in Nat, NEW n \in 0..(T * V - 1)
  PROVE  n \div V < T
<1>1. PICK d \in Nat, m \in 0..(V - 1) : d = n \div V /\ n = d * V + m
  BY DivMod
<1>2. CASE d >= T
  <2>1. (d - T) * V >= 0
    BY <1>2
  <2>2. d * V = T * V + (d - T) * V
    OBVIOUS
  <2>3. T * V \in Nat /\ d * V \in Nat
    OBVIOUS
  <2> QED BY <1>1, <2>1, <2>2, <2>3
<1> QED BY <1>1, <1>2

(* ... and every quotient and remainder belong to a number of the sweep.   *)
LEMMA Within ==
  ASSUME NEW V \in Nat \ {0}, NEW T \in Nat, NEW t \in 1..T, NEW v \in 0..(V - 1)
  PROVE  (t - 1) * V + v \in 0..(T * V - 1)
<1>1. (T - t) * V >= 0
  OBVIOUS
<1>2. T * V = (t - 1) * V + V + (T - t) * V
  OBVIOUS
<1>3. (t - 1) * V >= 0
  OBVIOUS
<1>4. (t - 1) * V \in Int /\ T * V \in Int
  OBVIOUS
<1> QED BY <1>1, <1>2, <1>3, <1>4

(* An ordinal of the sweep names a table and a variant ...                 *)
LEMMA FingerprintType ==
  ASSUME NEW o \in 0..(Target - 1)
  PROVE  Fingerprint(o) \in (1..Tables) \X (0..(Variants - 1))
<1>1. Variants \in Nat \ {0} /\ Tables \in Nat /\ o \in 0..(Tables * Variants - 1)
  BY WorkloadAssumption DEF Target
<1>2. o \in Nat
  BY <1>1
<1>3. o \div Variants \in Nat /\ o % Variants \in 0..(Variants - 1)
  BY <1>1, <1>2, DivMod
<1>4. o \div Variants < Tables
  BY <1>1, DivBound
<1>5. o \div Variants + 1 \in 1..Tables
  BY <1>1, <1>3, <1>4
<1> QED BY <1>3, <1>5 DEF Fingerprint

(* ... and every table and variant has its ordinal.                        *)
LEMMA FingerprintOnto ==
  ASSUME NEW t \in 1..Tables, NEW v \in 0..(Variants - 1)
  PROVE  \E o \in 0..(Target - 1) : Fingerprint(o) = <<t, v>>
<1> DEFINE o == (t - 1) * Variants + v
<1>1. Variants \in Nat \ {0} /\ Tables \in Nat
  BY WorkloadAssumption
<1>2. o \in 0..(Tables * Variants - 1)
  BY <1>1, Within
<1>3. t - 1 \in Nat /\ o \in Nat
  BY <1>1, <1>2
<1>4. o \div Variants = t - 1 /\ o % Variants = v
  <2>1. o = (t - 1) * Variants + v
    OBVIOUS
  <2> HIDE DEF o
  <2> QED BY <1>1, <1>3, <2>1, DivUnique
<1>5. Fingerprint(o) = <<t, v>>
  <2> HIDE DEF o
  <2>1. (t - 1) + 1 = t
    OBVIOUS
  <2> QED BY <1>4, <2>1 DEF Fingerprint
<1> QED BY <1>2, <1>5 DEF Target

(* A step of one worker that reserves and counts nothing.                  *)
LEMMA CoverageFrame ==
  ASSUME TypeInv, CoverageInv, NEW w \in Worker,
         worker' = [worker EXCEPT ![w] = worker'[w]],
         UNCHANGED <<failed, nextOrdinal, visited>>,
         recorded \subseteq recorded',
         recorded' \subseteq (1..Tables) \X (0..(Variants - 1)),
         ~At(w, {"raised"}),
         (InTransaction(w) /\ worker[w].op = "erp")
           <=> (InTransaction(w)' /\ worker'[w].op = "erp"),
         InTransaction(w)' /\ worker'[w].op = "erp" =>
           /\ worker'[w].on = worker[w].on
           /\ At(w, {"commit"})' => Fingerprint(worker'[w].on) \in recorded'
  PROVE  CoverageInv'
<1>1. \A v \in Worker \ {w} : worker'[v] = worker[v]
  BY DEF TypeInv
<1>2. (\A v \in Worker : InTransaction(v) /\ worker[v].op = "erp" =>
         /\ worker[v].on \in 0..(Target - 1)
         /\ At(v, {"commit"}) => Fingerprint(worker[v].on) \in recorded)'
  <2> SUFFICES ASSUME NEW v \in Worker, InTransaction(v)', worker'[v].op = "erp"
               PROVE  /\ worker'[v].on \in 0..(Target - 1)
                      /\ At(v, {"commit"})' => Fingerprint(worker'[v].on) \in recorded'
    BY DEF Fingerprint, Target
  <2>1. CASE v = w
    BY <2>1 DEF CoverageInv
  <2>2. CASE v # w
    BY <2>2, <1>1 DEF CoverageInv, InTransaction, At
  <2> QED BY <2>1, <2>2
<1>3. (\A o \in visited : Fingerprint(o) \in recorded)'
  BY DEF CoverageInv, CoverageHonest, Fingerprint
<1>4. ASSUME failed' = 0, ~(\E v \in Worker : At(v, {"raised"})'),
             NEW o \in 0..(Target - 1), o < nextOrdinal', o \notin visited'
      PROVE  \E v \in Worker : InTransaction(v)' /\ worker'[v].op = "erp"
                              /\ worker'[v].on = o
  <2>1. ~(\E v \in Worker : At(v, {"raised"}))
    BY <1>1, <1>4 DEF At
  <2>2. PICK v \in Worker : InTransaction(v) /\ worker[v].op = "erp" /\ worker[v].on = o
    BY <1>4, <2>1 DEF CoverageInv, CoverageHonest
  <2>3. CASE v = w
    BY <2>2, <2>3
  <2>4. CASE v # w
    BY <2>2, <2>4, <1>1 DEF InTransaction, At
  <2> QED BY <2>3, <2>4
<1>5. CoverageHonest'
  BY <1>3, <1>4 DEF CoverageHonest, Target
<1>6. visited' \subseteq 0..(Target - 1)
  BY DEF CoverageInv
<1> QED BY <1>2, <1>5, <1>6 DEF CoverageInv, Target

(* A step that moves a worker: what it counts later it has executed.       *)
LEMMA MovesCoverage ==
  ASSUME TypeInv, CoverageInv, NEW w \in Worker, Moves(w)
  PROVE  CoverageInv'
<1>1. PICK at \in Place : Arrives(w, at)
  BY MovesGoes
<1>2. /\ worker' = [worker EXCEPT ![w] = worker'[w]]
      /\ worker'[w].op = worker[w].op /\ worker'[w].on = worker[w].on
      /\ worker'[w].at = at
      /\ at = "commit" /\ worker[w].op = "erp" => ExecuteErpQuery(w)
      /\ ~At(w, {"raised"})
      /\ InTransaction(w) <=> InTransaction(w)'
  BY <1>1, MovesPlace
<1>3. UNCHANGED <<failed, nextOrdinal, visited>>
  BY DEF Moves, Connect, ConnectFails, Retry, Leave, ReadRows, UpdateRow,
         ExecuteErpQuery, ControlledLock, RetentionLock, RequeueJob, metricVars
<1>4. CASE ExecuteErpQuery(w)
  <2>1. worker[w].op = "erp" /\ InTransaction(w)
    BY <1>4 DEF ExecuteErpQuery, Statement, InTransaction, At, Open
  <2>2. worker[w].on \in 0..(Target - 1)
    BY <2>1 DEF CoverageInv
  <2>3. recorded' = recorded \cup {Fingerprint(worker[w].on)}
    BY <1>4 DEF ExecuteErpQuery
  <2>4. recorded' \subseteq (1..Tables) \X (0..(Variants - 1))
    BY <2>2, <2>3, FingerprintType DEF CoverageInv
  <2>5. Fingerprint(worker'[w].on) \in recorded'
    BY <1>2, <2>3
  <2>6. (InTransaction(w) /\ worker[w].op = "erp")
          <=> (InTransaction(w)' /\ worker'[w].op = "erp")
    BY <1>2
  <2> QED BY <1>2, <1>3, <2>3, <2>4, <2>5, <2>6, CoverageFrame
<1>5. CASE ~ExecuteErpQuery(w)
  <2>1. recorded' = recorded
    BY <1>5 DEF Moves, Connect, ConnectFails, Retry, Leave, ReadRows, UpdateRow,
         ControlledLock, RetentionLock, RequeueJob, dataVars
  <2>2. (InTransaction(w) /\ worker[w].op = "erp")
          <=> (InTransaction(w)' /\ worker'[w].op = "erp")
    BY <1>2
  <2>3. At(w, {"commit"})' => worker'[w].op # "erp"
    BY <1>2, <1>5 DEF At
  <2> QED BY <1>2, <1>3, <2>1, <2>2, <2>3, CoverageFrame DEF CoverageInv
<1> QED BY <1>4, <1>5

(* An operation begins: the ordinal it reserves is the next of the sweep.  *)
LEMMA ChooseCoverage ==
  ASSUME TypeInv, CoverageInv, NEW w \in Worker, NEW op \in Operation(w), Choose(w, op)
  PROVE  CoverageInv'
<1>1. /\ worker' = [worker EXCEPT ![w] = worker'[w]]
      /\ worker'[w].at = "begin" /\ worker'[w].op = op
      /\ op = "erp" => worker'[w].on = Ordinal
  BY ChooseType
<1>2. UNCHANGED <<failed, visited, recorded>> /\ At(w, {"idle"})
  BY DEF Choose, dataVars
<1>3. ~InTransaction(w) /\ ~At(w, {"raised"})
  BY <1>2 DEF InTransaction, At, Open
<1>4. CASE op # "erp"
  <2>1. nextOrdinal' = nextOrdinal
    BY <1>4 DEF Choose, TypeInv
  <2> QED BY <1>1, <1>2, <1>3, <1>4, <2>1, CoverageFrame DEF CoverageInv
<1>5. CASE op = "erp"
  <2>1. nextOrdinal' = nextOrdinal + 1 /\ nextOrdinal \in Nat
    BY <1>5 DEF Choose, TypeInv
  <2>2. Ordinal \in 0..(Target - 1) /\ InTransaction(w)'
    BY <1>1, <1>5, <2>1, OrdinalType, OperationType DEF InTransaction, At, Open
  <2>3. \A v \in Worker \ {w} : worker'[v] = worker[v]
    BY <1>1 DEF TypeInv
  <2>4. (\A v \in Worker : InTransaction(v) /\ worker[v].op = "erp" =>
           /\ worker[v].on \in 0..(Target - 1)
           /\ At(v, {"commit"}) => Fingerprint(worker[v].on) \in recorded)'
    <3> SUFFICES ASSUME NEW v \in Worker, InTransaction(v)', worker'[v].op = "erp"
                 PROVE  /\ worker'[v].on \in 0..(Target - 1)
                        /\ At(v, {"commit"})' => Fingerprint(worker'[v].on) \in recorded'
      BY DEF Fingerprint, Target
    <3>1. CASE v = w
      BY <1>1, <1>5, <2>2, <3>1 DEF At
    <3>2. CASE v # w
      BY <1>2, <2>3, <3>2 DEF CoverageInv, InTransaction, At
    <3> QED BY <3>1, <3>2
  <2>5. ASSUME failed' = 0, ~(\E v \in Worker : At(v, {"raised"})'),
               NEW o \in 0..(Target - 1), o < nextOrdinal', o \notin visited'
        PROVE  \E v \in Worker : InTransaction(v)' /\ worker'[v].op = "erp"
                                /\ worker'[v].on = o
    <3>1. CASE o < nextOrdinal
      <4>1. ~(\E v \in Worker : At(v, {"raised"}))
        BY <1>3, <2>3, <2>5 DEF At
      <4>2. PICK v \in Worker :
              InTransaction(v) /\ worker[v].op = "erp" /\ worker[v].on = o
        BY <1>2, <2>5, <3>1, <4>1 DEF CoverageInv, CoverageHonest
      <4>3. v # w
        BY <1>3, <4>2
      <4> QED BY <2>3, <4>2, <4>3 DEF InTransaction, At
    <3>2. CASE o = nextOrdinal
      <4>1. Target \in Nat
        BY WorkloadAssumption DEF Target
      <4>2. nextOrdinal < Target
        BY <3>2, <4>1
      <4>3. Ordinal = o
        BY <2>1, <3>2, <4>2, OrdinalFresh
      <4> QED BY <1>1, <1>5, <2>2, <4>3
    <3> QED BY <2>1, <2>5, <3>1, <3>2
  <2>6. (\A o \in visited : Fingerprint(o) \in recorded)'
    BY <1>2 DEF CoverageInv, CoverageHonest, Fingerprint
  <2>7. CoverageHonest'
    BY <2>5, <2>6 DEF CoverageHonest, Target
  <2> QED BY <1>2, <2>4, <2>7 DEF CoverageInv, Target
<1> QED BY <1>4, <1>5

(* The end of a transaction counts what was executed, or something failed. *)
LEMMA EndsCoverage ==
  ASSUME TypeInv, CoverageInv, NEW w \in Worker, Ends(w)
  PROVE  CoverageInv'
<1>1. /\ worker' = [worker EXCEPT ![w] = worker'[w]]
      /\ worker'[w].at \in {"idle", "connect", "raised"}
      /\ worker'[w].op = "none" /\ worker' \in [Worker -> Context]
  BY EndsType DEF TypeInv
<1>2. \A v \in Worker \ {w} : worker'[v] = worker[v]
  BY <1>1 DEF TypeInv
<1>3. recorded' = recorded
  BY DEF Ends, Commit, StatementFails, ConnectionLost, Raise, Durable, dataVars
<1>4. (\A v \in Worker : InTransaction(v) /\ worker[v].op = "erp" =>
         /\ worker[v].on \in 0..(Target - 1)
         /\ At(v, {"commit"}) => Fingerprint(worker[v].on) \in recorded)'
  <2> SUFFICES ASSUME NEW v \in Worker, InTransaction(v)', worker'[v].op = "erp"
               PROVE  /\ worker'[v].on \in 0..(Target - 1)
                      /\ At(v, {"commit"})' => Fingerprint(worker'[v].on) \in recorded'
    BY DEF Fingerprint, Target
  <2>1. v # w
    BY <1>1
  <2> QED BY <1>2, <1>3, <2>1 DEF CoverageInv, InTransaction, At
<1>5. CASE Commit(w)
  <2>1. /\ At(w, {"commit"}) /\ UNCHANGED <<failed, nextOrdinal>>
        /\ visited' = visited \cup (IF worker[w].op = "erp" THEN {worker[w].on} ELSE {})
    BY <1>5 DEF Commit
  <2>2. worker[w].op = "erp" => /\ worker[w].on \in 0..(Target - 1)
                                /\ Fingerprint(worker[w].on) \in recorded
    BY <2>1 DEF CoverageInv, InTransaction, At, Open
  <2>3. visited' \subseteq 0..(Target - 1)
    BY <2>1, <2>2 DEF CoverageInv
  <2>4. \A o \in visited' : Fingerprint(o) \in recorded'
    BY <1>3, <2>1, <2>2 DEF CoverageInv, CoverageHonest
  <2>5. ASSUME failed' = 0, ~(\E v \in Worker : At(v, {"raised"})'),
               NEW o \in 0..(Target - 1), o < nextOrdinal', o \notin visited'
        PROVE  \E v \in Worker : InTransaction(v)' /\ worker'[v].op = "erp"
                                /\ worker'[v].on = o
    <3>1. ~(\E v \in Worker : At(v, {"raised"}))
      BY <1>2, <2>1, <2>5 DEF At
    <3>2. PICK v \in Worker :
            InTransaction(v) /\ worker[v].op = "erp" /\ worker[v].on = o
      BY <2>1, <2>5, <3>1 DEF CoverageInv, CoverageHonest
    <3>3. v # w
      BY <2>1, <2>5, <3>2
    <3> QED BY <1>2, <3>2, <3>3 DEF InTransaction, At
  <2>6. CoverageHonest'
    BY <2>4, <2>5 DEF CoverageHonest, Target, Fingerprint
  <2> QED BY <1>3, <1>4, <2>3, <2>6 DEF CoverageInv, Target
<1>6. CASE StatementFails(w) \/ ConnectionLost(w) \/ Raise(w)
  <2>1. visited' = visited
    BY <1>6 DEF StatementFails, ConnectionLost, Raise, metricVars
  <2>2. failed' # 0 \/ At(w, {"raised"})'
    <3>1. CASE StatementFails(w) \/ ConnectionLost(w)
      <4>1. failed' = failed + 1 /\ failed \in Nat
        BY <3>1 DEF StatementFails, ConnectionLost, TypeInv
      <4> QED BY <4>1
    <3>2. CASE Raise(w)
      <4>1. Drops(w, "raised") /\ "raised" \in Place
        BY <3>2 DEF Raise, Place
      <4>2. worker'[w].at = "raised"
        BY <4>1, DropsType
      <4> QED BY <4>2 DEF At
    <3> QED BY <1>6, <3>1, <3>2
  <2>3. (\A o \in visited : Fingerprint(o) \in recorded)'
    BY <1>3, <2>1 DEF CoverageInv, CoverageHonest, Fingerprint
  <2>4. CoverageHonest'
    BY <2>2, <2>3 DEF CoverageHonest
  <2> QED BY <1>3, <1>4, <2>1, <2>4 DEF CoverageInv, Target
<1> QED BY <1>5, <1>6 DEF Ends

LEMMA CoverageStep ==
  TypeInv /\ CoverageInv /\ VerdictInv /\ [Next]_vars => CoverageInv'
<1> SUFFICES ASSUME TypeInv, CoverageInv, VerdictInv, [Next]_vars PROVE CoverageInv'
  OBVIOUS
<1>1. ASSUME NEW w \in Worker, InsertRow(w) \/ CleanUp(w) \/ ClaimJob(w)
      PROVE  CoverageInv'
  <2>1. /\ worker' = [worker EXCEPT ![w] = worker'[w]]
        /\ worker'[w].op = worker[w].op
    BY <1>1, InsertType, CleanUpType, ClaimType DEF ClaimJob, Statement
  <2>2. worker[w].op # "erp" /\ ~At(w, {"raised"})
    BY <1>1 DEF InsertRow, CleanUp, ClaimJob, Statement, TypeInv, PlaceInv, At, Table
  <2>3. UNCHANGED <<failed, nextOrdinal, visited, recorded>>
    BY <1>1 DEF InsertRow, CleanUp, ClaimJob, metricVars, dataVars
  <2> QED BY <2>1, <2>2, <2>3, CoverageFrame DEF CoverageInv
<1>2. CASE Start
  <2>1. \A v \in Worker : worker'[v].at = "connect"
    BY <1>2, StartType
  <2>2. \A v \in Worker : worker[v].at = "new"
    BY <1>2 DEF Start, VerdictInv, At
  <2>3. UNCHANGED <<failed, nextOrdinal, visited, recorded>>
    BY <1>2 DEF Start, metricVars, dataVars
  <2>4. \A v \in Worker : ~InTransaction(v) /\ ~InTransaction(v)' /\ ~At(v, {"raised"})
    BY <2>1, <2>2 DEF InTransaction, At, Open
  <2>5. CoverageHonest'
    BY <2>3, <2>4 DEF CoverageInv, CoverageHonest, Target, Fingerprint
  <2> QED BY <2>3, <2>4, <2>5 DEF CoverageInv, Target
<1>3. ASSUME UNCHANGED <<worker, metricVars, recorded>> PROVE CoverageInv'
  BY <1>3 DEF CoverageInv, CoverageHonest, InTransaction, At, Target, Fingerprint,
             metricVars
<1>4. ASSUME Supervision \/ UNCHANGED vars
      PROVE  UNCHANGED <<worker, metricVars, recorded>>
  BY <1>4 DEF Supervision, Abort, Supervise, Finish, RequestStop, Tick, vars, dataVars
<1> QED BY <1>1, <1>2, <1>3, <1>4, StepCases, MovesCoverage, ChooseCoverage,
           EndsCoverage

-----------------------------------------------------------------------------
(* The verdict is honest. *)

(* A worker that takes a step is between its start and its end, and so is  *)
(* the run.                                                                *)
LEMMA VerdictFrame ==
  ASSUME TypeInv, VerdictInv, NEW w \in Worker,
         worker' = [worker EXCEPT ![w] = worker'[w]],
         UNCHANGED mainVars, ~At(w, {"new", "ended", "raised"})
  PROVE  VerdictInv'
<1>1. \A v \in Worker \ {w} : worker'[v] = worker[v]
  BY DEF TypeInv
<1>2. phase \notin {"preflight", "done"} /\ status = "none"
  <2>1. phase # "preflight"
    BY DEF VerdictInv, At
  <2>2. phase # "done"
    BY DEF VerdictInv, VerdictHonest
  <2> QED BY <2>1, <2>2 DEF VerdictInv
<1>3. UNCHANGED <<phase, futures, fatal, status>>
  BY DEF mainVars
<1>4. phase \in {"running", "joining"} /\ ~fatal =>
        \A v \in Worker \ futures : v # w /\ At(v, {"ended"})'
  BY <1>1 DEF VerdictInv, At
<1> QED BY <1>2, <1>3, <1>4 DEF VerdictInv, VerdictHonest

(* All ordinals of the sweep were counted: all its queries were executed.  *)
LEMMA SweepComplete ==
  ASSUME CoverageInv, Cardinality(visited) >= Target
  PROVE  recorded = (1..Tables) \X (0..(Variants - 1))
<1>1. Target \in Nat /\ visited \subseteq 0..(Target - 1)
  BY WorkloadAssumption DEF Target, CoverageInv
<1>2. IsFiniteSet(0..(Target - 1)) /\ Cardinality(0..(Target - 1)) = Target
  <2> DEFINE T == Target
  <2>1. T \in Nat
    BY <1>1
  <2> HIDE DEF T
  <2>2. /\ IsFiniteSet(0..(T - 1))
        /\ Cardinality(0..(T - 1)) = IF 0 > T - 1 THEN 0 ELSE (T - 1) - 0 + 1
    BY <2>1, FS_Interval
  <2>3. Cardinality(0..(T - 1)) = T
    BY <2>1, <2>2
  <2> QED BY <2>2, <2>3 DEF T
<1>3. IsFiniteSet(visited) /\ Cardinality(visited) <= Target
  BY <1>1, <1>2, FS_Subset
<1>4. Cardinality(visited) = Target
  <2>1. Cardinality(visited) \in Nat
    BY <1>3, FS_CardinalityType
  <2> QED BY <1>1, <1>3, <2>1
<1>5. visited = 0..(Target - 1)
  BY <1>1, <1>2, <1>4, FS_Subset
<1>6. \A t \in 1..Tables, v \in 0..(Variants - 1) : <<t, v>> \in recorded
  BY <1>5, FingerprintOnto DEF CoverageInv, CoverageHonest
<1> QED BY <1>6 DEF CoverageInv

LEMMA VerdictStep ==
  TypeInv /\ CoverageInv /\ VerdictInv /\ [Next]_vars => VerdictInv'
<1> SUFFICES ASSUME TypeInv, CoverageInv, VerdictInv, [Next]_vars PROVE VerdictInv'
  OBVIOUS
<1>1. ASSUME NEW w \in Worker, Moves(w) PROVE VerdictInv'
  <2>1. PICK at \in Place : Arrives(w, at)
    BY <1>1, MovesGoes
  <2>2. worker' = [worker EXCEPT ![w] = worker'[w]]
    BY <2>1, MovesPlace
  <2>3. ~At(w, {"new", "ended", "raised"})
    BY <2>1 DEF Arrives, At, Open
  <2>4. UNCHANGED mainVars
    BY <1>1 DEF Moves, Connect, ConnectFails, Retry, Leave, ReadRows, UpdateRow,
       ExecuteErpQuery, ControlledLock, RetentionLock, RequeueJob
  <2> QED BY <2>2, <2>3, <2>4, VerdictFrame
<1>2. ASSUME NEW w \in Worker, NEW op \in Operation(w), Choose(w, op)
      PROVE  VerdictInv'
  <2>1. worker' = [worker EXCEPT ![w] = worker'[w]]
    BY <1>2, ChooseType
  <2>2. UNCHANGED mainVars /\ ~At(w, {"new", "ended", "raised"})
    BY <1>2 DEF Choose, At
  <2> QED BY <2>1, <2>2, VerdictFrame
<1>3. ASSUME NEW w \in Worker, InsertRow(w) \/ CleanUp(w) \/ ClaimJob(w)
      PROVE  VerdictInv'
  <2>1. worker' = [worker EXCEPT ![w] = worker'[w]]
    BY <1>3, InsertType, CleanUpType, ClaimType
  <2>2. UNCHANGED mainVars /\ ~At(w, {"new", "ended", "raised"})
    BY <1>3 DEF InsertRow, CleanUp, ClaimJob, Statement, At
  <2> QED BY <2>1, <2>2, VerdictFrame
<1>4. ASSUME NEW w \in Worker, Ends(w) PROVE VerdictInv'
  <2>1. worker' = [worker EXCEPT ![w] = worker'[w]]
    BY <1>4, EndsType
  <2>2. UNCHANGED mainVars /\ ~At(w, {"new", "ended", "raised"})
    BY <1>4 DEF Ends, Commit, StatementFails, ConnectionLost, Raise, InTransaction, At,
                Open
  <2> QED BY <2>1, <2>2, VerdictFrame
<1>5. CASE Start
  <2>1. phase = "preflight" /\ phase' = "running" /\ futures' = Worker
        /\ UNCHANGED <<fatal, status>>
    BY <1>5 DEF Start
  <2>2. ~fatal /\ status = "none"
    BY <2>1 DEF VerdictInv
  <2> QED BY <2>1, <2>2 DEF VerdictInv, VerdictHonest
<1>6. CASE Abort
  <2>1. /\ phase' = "done" /\ status' = "failed"
        /\ UNCHANGED <<futures, fatal, worker>>
        /\ \/ phase = "preflight"
           \/ \A w \in Worker : At(w, {"ended", "raised"})
    BY <1>6 DEF Abort
  <2>2. \A w \in Worker : At(w, {"new", "ended", "raised"})'
    BY <2>1 DEF VerdictInv, At
  <2> QED BY <2>1, <2>2 DEF VerdictInv, VerdictHonest
<1>7. CASE Supervise
  <2>1. /\ phase = "running" /\ futures' = futures \ Ended
        /\ UNCHANGED <<status, worker, recorded>>
    BY <1>7 DEF Supervise, dataVars
  <2>2. ~fatal /\ status = "none"
    BY <2>1 DEF VerdictInv
  <2>3. fatal' = (\E w \in Ended : At(w, {"raised"}))
    BY <1>7, Zenon DEF Supervise
  <2>4. phase' = IF fatal' \/ futures' = {} THEN "joining" ELSE phase
    BY <1>7, Zenon DEF Supervise
  <2>5. ~fatal' => \A w \in Worker \ futures' : At(w, {"ended"})'
    <3> SUFFICES ASSUME ~fatal', NEW w \in Worker, w \notin futures'
                 PROVE  At(w, {"ended"})'
      OBVIOUS
    <3>1. CASE w \notin futures
      BY <2>1, <2>2, <3>1 DEF VerdictInv, At
    <3>2. CASE w \in futures
      <4>1. w \in Ended
        BY <2>1, <3>2
      <4>2. ~At(w, {"raised"})
        BY <2>3, <4>1
      <4> QED BY <2>1, <4>1, <4>2 DEF Ended, At
    <3> QED BY <3>1, <3>2
  <2>6. /\ phase' \in {"running", "joining"}
        /\ fatal' => phase' = "joining"
        /\ phase' = "joining" /\ ~fatal' => futures' = {}
    BY <2>1, <2>4
  <2> QED BY <2>1, <2>2, <2>5, <2>6 DEF VerdictInv, VerdictHonest
<1>8. CASE Finish
  <2>1. /\ phase = "joining" /\ phase' = "done" /\ status' = Verdict
        /\ \A w \in Worker : At(w, {"ended", "raised"})
        /\ UNCHANGED <<futures, fatal, worker, recorded>>
    BY <1>8 DEF Finish, dataVars
  <2>2. ASSUME Verdict = "completed"
        PROVE  /\ \A w \in Worker : At(w, {"ended"})
               /\ Erp => recorded = (1..Tables) \X (0..(Variants - 1))
    <3>1. ~fatal /\ (Erp => ~(Cardinality(visited) < Target))
      BY <2>2 DEF Verdict
    <3>2. \A w \in Worker : At(w, {"ended"})
      BY <2>1, <3>1 DEF VerdictInv
    <3>3. ASSUME Erp PROVE Cardinality(visited) >= Target
      <4>1. ~(Cardinality(visited) < Target)
        BY <3>1, <3>3
      <4>2. visited \subseteq 0..(Target - 1) /\ Target \in Nat
        BY WorkloadAssumption DEF CoverageInv, Target
      <4>3. IsFiniteSet(0..(Target - 1))
        <5> DEFINE T == Target
        <5>1. T - 1 \in Int
          BY <4>2
        <5> HIDE DEF T
        <5>2. IsFiniteSet(0..(T - 1))
          BY <5>1, FS_Interval
        <5> QED BY <5>2 DEF T
      <4>4. Cardinality(visited) \in Nat
        BY <4>2, <4>3, FS_Subset, FS_CardinalityType
      <4> QED BY <4>1, <4>2, <4>4
    <3> QED BY <3>2, <3>3, SweepComplete
  <2>3. \A w \in Worker : At(w, {"new", "ended", "raised"})'
    BY <2>1 DEF At
  <2>4. VerdictHonest'
    BY <2>1, <2>2, <2>3 DEF VerdictHonest, At
  <2> QED BY <2>1, <2>4 DEF VerdictInv
<1>9. CASE RequestStop
  <2>1. UNCHANGED <<phase, futures, fatal, status, worker, recorded>>
    BY <1>9 DEF RequestStop, dataVars
  <2> QED BY <2>1 DEF VerdictInv, VerdictHonest, At
<1>10. CASE Tick \/ UNCHANGED vars
  <2>1. UNCHANGED <<phase, futures, fatal, status, worker, recorded>>
    BY <1>10 DEF Tick, vars, mainVars, dataVars
  <2> QED BY <2>1 DEF VerdictInv, VerdictHonest, At
<1> QED BY <1>1, <1>2, <1>3, <1>4, <1>5, <1>6, <1>7, <1>8, <1>9, <1>10, StepCases
           DEF Supervision

-----------------------------------------------------------------------------
LEMMA InitInv == Init => WorkloadInv
<1> SUFFICES ASSUME Init PROVE WorkloadInv
  OBVIOUS
<1>0. MaxRows \in Nat /\ Target \in Nat
  BY WorkloadAssumption DEF Target
<1>1. \A w \in Worker : worker[w] = NoWork
  BY DEF Init
<1>2. NoWork \in Context /\ NoWork.at = "new" /\ NoWork.op = "none"
  BY DEF NoWork, Context, Place, Open, OpName
<1>3. TypeInv
  <2>1. \A w \in Worker : PlaceInv(w)
    BY <1>1, <1>2 DEF PlaceInv, At
  <2>2. worker \in [Worker -> Context]
    BY <1>2 DEF Init
  <2>3. job \in [Job -> [ready : {TRUE}, due : BOOLEAN]]
    BY DEF Init
  <2>4. rows \in [Table -> SUBSET Nat] /\ nextId \in [Table -> Nat]
    BY <1>0 DEF Init
  <2> QED BY <2>1, <2>2, <2>3, <2>4 DEF Init, TypeInv
<1>4. RetentionInv
  <2>1. IsFiniteSet(1..MaxRows) /\ Cardinality(1..MaxRows) <= MaxRows
    <3>1. /\ IsFiniteSet(1..MaxRows)
          /\ Cardinality(1..MaxRows) = IF 1 > MaxRows THEN 0 ELSE MaxRows - 1 + 1
      BY <1>0, FS_Interval
    <3> QED BY <1>0, <3>1
  <2>2. \A t \in Table : rows[t] = 1..MaxRows
    BY DEF Init
  <2>3. \A w \in Worker : ~At(w, {"insert", "cleanup", "commit"}) /\ ~At(w, {"commit"})
    BY <1>1, <1>2 DEF At
  <2> QED BY <2>1, <2>2, <2>3 DEF RetentionInv, Holds
<1>5. CoverageInv
  <2>1. \A w \in Worker : ~InTransaction(w)
    BY <1>1, <1>2 DEF InTransaction, At, Open
  <2>2. \A o \in 0..(Target - 1) : ~(o < nextOrdinal)
    BY <1>0 DEF Init
  <2> QED BY <2>1, <2>2 DEF Init, CoverageInv, CoverageHonest
<1>6. VerdictInv
  <2>1. \A w \in Worker : At(w, {"new"})
    BY <1>1, <1>2 DEF At
  <2> QED BY <2>1 DEF Init, VerdictInv, VerdictHonest
<1> QED BY <1>3, <1>4, <1>5, <1>6 DEF WorkloadInv

(* The invariant of the workload generator: types, the lock and the limit  *)
(* of each table, the sweep, and what the supervisor knows of the workers. *)
THEOREM WorkloadInvariant == Spec => []WorkloadInv
<1>1. WorkloadInv /\ [Next]_vars => WorkloadInv'
  BY TypeStep, RetentionStep, CoverageStep, VerdictStep DEF WorkloadInv
<1> QED BY InitInv, <1>1, PTL DEF Spec

(* However many writers insert at once and whatever fails, a table of the  *)
(* workload never outgrows its limit (workload.py:1075-1078).              *)
THEOREM RetentionHolds == Spec => []RetentionBounded
<1>1. WorkloadInv => RetentionBounded
  BY DEF WorkloadInv, RetentionInv, RetentionBounded
<1> QED BY <1>1, WorkloadInvariant, PTL

(* No crash loses a claimed job (workload.py:1137-1147).                   *)
THEOREM NoJobLost == Spec => []JobsReturned
<1>1. WorkloadInv => JobsReturned
  BY DEF WorkloadInv, TypeInv, JobsReturned
<1> QED BY <1>1, WorkloadInvariant, PTL

(* What the report counts has run on the source, and without a failure the *)
(* sweep skips nothing (workload.py:1518-1534).                            *)
THEOREM CoverageIsHonest == Spec => []CoverageHonest
<1>1. WorkloadInv => CoverageHonest
  BY DEF WorkloadInv, CoverageInv
<1> QED BY <1>1, WorkloadInvariant, PTL

(* The payload comes after the last worker, and "completed" means that     *)
(* every worker returned and the source has executed the whole sweep       *)
(* (workload.py:1985-2045).                                                *)
THEOREM VerdictIsHonest == Spec => []VerdictHonest
<1>1. WorkloadInv => VerdictHonest
  BY DEF WorkloadInv, VerdictInv
<1> QED BY <1>1, WorkloadInvariant, PTL
=============================================================================
