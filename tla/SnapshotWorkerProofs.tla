------------------------- MODULE SnapshotWorkerProofs -------------------------
(***************************************************************************)
(* For any number of workers, sessions, windows and faults: the advisory   *)
(* lock keeps the scans of a family apart, state rows are honest about the *)
(* views, readers keep their previous result, and locks are given back.    *)
(***************************************************************************)
EXTENDS SnapshotWorker, TLAPS

(* A session serves one worker, a closed worker has none, and a worker at  *)
(* a job has one in hand.                                                  *)
Sessions ==
  /\ \A v, w \in Worker : Connected(v) /\ conn[v] = conn[w] => v = w
  /\ \A w \in Worker : pc[w] = "closed" => ~Connected(w)
  /\ \A w \in Worker : pc[w] \in AtJob => job[w] \in Job

(* A connected worker at a job holds its family's lock; a scan runs under  *)
(* its session's lock, and a worker of that session is waiting for it.     *)
Locks ==
  /\ \A w \in Worker :
       pc[w] \in AtJob /\ Connected(w) => lock[job[w][1]] = conn[w]
  /\ \A x \in scans :
       /\ lock[x.job[1]] = x.by
       /\ x.current
       /\ \A w \in Worker : conn[w] = x.by => pc[w] = "scanning" /\ job[w] = x.job
  /\ \A x, y \in scans : x.by = y.by => x = y

(* What a worker knows of its view stays true until it acts on it.         *)
Knows ==
  \A w \in Worker :
    Connected(w) =>
      /\ pc[w] = "ready" => view[job[w]] = "current"
      /\ pc[w] = "refresh" => view[job[w]] = "empty"

Inv == TypeOK /\ Sessions /\ LocksReleased /\ Locks /\ Knows
         /\ ReadyIsCurrent /\ ReadersKeepPrevious

-----------------------------------------------------------------------------
LEMMA JobFamily == \A j \in Job : j[1] \in Family /\ j # NoJob
BY WorkerAssumption DEF NoJob

LEMMA InitInv == Init => Inv
BY JobFamily, WorkerAssumption
   DEF Init, Inv, TypeOK, Row, Sessions, LocksReleased, Locks, Knows, ReadyIsCurrent,
       ReadersKeepPrevious, Connected, AtJob, Working

(* Steps that leave the repository and the connection alone and end        *)
(* outside a connected job.                                                *)
LEMMA QuietStep ==
  ASSUME Inv, NEW w \in Worker,
         \/ PlanMetrics(w) \/ PlanTrends(w) \/ Reopen(w) \/ EndPass(w) \/ LoseJob(w)
         \/ \E j \in Job : Skip(w, j) \/ Refused(w, j)
  PROVE  Inv'
<1> USE DEF Inv, TypeOK, Goto, Due, Connected, serverVars
<1>1. TypeOK'
  <2>1. CASE PlanMetrics(w) BY <2>1 DEF PlanMetrics
  <2>2. CASE PlanTrends(w) BY <2>2 DEF PlanTrends
  <2>3. CASE Reopen(w) BY <2>3 DEF Reopen
  <2>4. CASE EndPass(w) BY <2>4 DEF EndPass
  <2>5. CASE LoseJob(w) BY <2>5 DEF LoseJob, EndJob, Sessions
  <2>6. ASSUME NEW j \in Job, Skip(w, j) PROVE TypeOK' BY <2>6 DEF Skip
  <2>7. ASSUME NEW j \in Job, Refused(w, j) PROVE TypeOK' BY <2>7 DEF Refused, Attempt
  <2> QED BY <2>1, <2>2, <2>3, <2>4, <2>5, <2>6, <2>7
<1>2. /\ UNCHANGED <<lock, row, view, scans, conn>>
      /\ \A v \in Worker \ {w} : pc'[v] = pc[v] /\ job'[v] = job[v]
      /\ pc'[w] \notin AtJob
      /\ pc'[w] = "closed" => ~Connected(w)
      /\ pc[w] \in AtJob => ~Connected(w)
  BY DEF PlanMetrics, PlanTrends, Reopen, EndPass, LoseJob, EndJob, Skip, Refused, Attempt,
         AtJob, Working
<1> HIDE DEF Goto
<1>3. Sessions' /\ LocksReleased'
  BY <1>1, <1>2 DEF Sessions, LocksReleased
<1>4. Locks'
  <2>1. \A v \in Worker : pc'[v] \in AtJob /\ Connected(v)' => lock'[job'[v][1]] = conn'[v]
    BY <1>2 DEF Locks
  <2>2. \A x \in scans : x.by # NoSession
    BY WorkerAssumption DEF Scan
  <2>3. ASSUME NEW x \in scans, NEW v \in Worker, conn[v] = x.by
        PROVE  pc'[v] = "scanning" /\ job'[v] = x.job
    <3>1. pc[v] = "scanning" /\ job[v] = x.job /\ Connected(v)
      BY <2>2, <2>3 DEF Locks
    <3> QED BY <3>1, <1>2 DEF AtJob, Working
  <2> QED BY <1>2, <2>1, <2>3 DEF Locks
<1>6. Knows'
  BY <1>2 DEF Knows, AtJob, Working
<1>5. ReadyIsCurrent' /\ ReadersKeepPrevious'
  BY <1>2 DEF ReadyIsCurrent, ReadersKeepPrevious
<1> QED BY <1>1, <1>3, <1>4, <1>5, <1>6

(* Two connected workers are never at jobs of one family.                  *)
LEMMA Exclusive ==
  ASSUME Inv, NEW v \in Worker, NEW w \in Worker,
         pc[v] \in AtJob, pc[w] \in AtJob, Connected(v), Connected(w),
         job[v][1] = job[w][1]
  PROVE  v = w
BY DEF Inv, Sessions, Locks

(* Around its REFRESH, a worker's family is not being scanned, nor does    *)
(* its session scan anything.                                              *)
LEMMA NotScanned ==
  ASSUME Inv, NEW w \in Worker, pc[w] \in AtJob, pc[w] # "scanning", Connected(w),
         NEW x \in scans
  PROVE  x.job[1] # job[w][1] /\ x.by # conn[w]
<1>1. x.by # conn[w]
  BY DEF Inv, Locks
<1> QED BY <1>1 DEF Inv, Locks

-----------------------------------------------------------------------------
LEMMA OpenStep ==
  ASSUME Inv, NEW w \in Worker, Open(w)
  PROVE  Inv'
<1> USE DEF Inv, TypeOK, Goto, Connected, serverVars
<1>1. PICK s \in Session :
        /\ \A v \in Worker : conn[v] # s
        /\ \A f \in Family : lock[f] # s
        /\ \A x \in scans : x.by # s
        /\ conn' = [conn EXCEPT ![w] = s]
  BY DEF Open
<1>2. /\ pc' = [pc EXCEPT ![w] = "plan"]
      /\ UNCHANGED <<lock, row, view, scans, job, todo, waiting, faults>>
  BY DEF Open
<1> HIDE DEF Goto
<1>3. TypeOK'
  BY <1>1, <1>2 DEF AtJob
<1>4. Sessions' /\ LocksReleased'
  BY <1>1, <1>2 DEF Sessions, LocksReleased, AtJob, Working
<1>5. Locks'
  <2>1. \A v \in Worker : pc'[v] \in AtJob /\ Connected(v)' => lock'[job'[v][1]] = conn'[v]
    BY <1>1, <1>2 DEF Locks, AtJob, Working
  <2>2. ASSUME NEW x \in scans, NEW v \in Worker, conn'[v] = x.by
        PROVE  pc'[v] = "scanning" /\ job'[v] = x.job
    BY <1>1, <1>2, <2>2 DEF Locks
  <2> QED BY <1>2, <2>1, <2>2 DEF Locks
<1>6. Knows' /\ ReadyIsCurrent' /\ ReadersKeepPrevious'
  BY <1>1, <1>2 DEF Knows, ReadyIsCurrent, ReadersKeepPrevious
<1> QED BY <1>3, <1>4, <1>5, <1>6

LEMMA TryLockStep ==
  ASSUME Inv, NEW w \in Worker, NEW j \in Job, TryLock(w, j)
  PROVE  Inv'
<1> USE DEF Inv, TypeOK, Connected
<1>1. /\ pc[w] = "jobs" /\ conn[w] # NoSession
      /\ lock[j[1]] \in {NoSession, conn[w]}
      /\ lock' = [lock EXCEPT ![j[1]] = conn[w]]
      /\ job' = [job EXCEPT ![w] = j]
      /\ pc' = [pc EXCEPT ![w] = "mark"]
      /\ todo' = [todo EXCEPT ![w] = @ \ {j}]
      /\ UNCHANGED <<row, view, scans, conn, waiting, faults>>
  BY DEF TryLock, Attempt, Goto
<1>2. j[1] \in Family
  BY JobFamily
<1>3. TypeOK'
  BY <1>1, <1>2 DEF AtJob, Working
<1>4. lock[j[1]] = NoSession
  BY <1>1, <1>2 DEF LocksReleased, AtJob, Working
<1>5. Sessions'
  BY <1>1 DEF Sessions
<1>6. LocksReleased'
  BY <1>1, <1>2 DEF LocksReleased, AtJob, Working, Sessions
<1>7. Locks'
  <2>1. ASSUME NEW v \in Worker, pc'[v] \in AtJob, Connected(v)'
        PROVE  lock'[job'[v][1]] = conn'[v]
    <3>1. CASE v = w
      BY <3>1, <1>1, <1>2
    <3>2. CASE v # w
      <4>1. lock[job[v][1]] = conn[v] /\ job[v] \in Job
        BY <3>2, <2>1, <1>1 DEF Locks, Sessions
      <4>2. job[v][1] # j[1] /\ job[v][1] \in Family
        BY <4>1, <1>4, <1>1, <2>1, JobFamily
      <4> QED BY <4>1, <4>2, <3>2, <1>1
    <3> QED BY <3>1, <3>2
  <2>2. ASSUME NEW x \in scans
        PROVE  /\ lock'[x.job[1]] = x.by
               /\ \A v \in Worker : conn'[v] = x.by => pc'[v] = "scanning" /\ job'[v] = x.job
    <3>1. lock[x.job[1]] = x.by /\ x.by # NoSession /\ x.job[1] \in Family
      BY JobFamily, WorkerAssumption DEF Locks, Scan
    <3>2. x.job[1] # j[1] /\ x.by # conn[w]
      BY <3>1, <1>4, <1>1 DEF Locks
    <3> QED BY <3>1, <3>2, <1>1 DEF Locks
  <2> QED BY <2>1, <2>2, <1>1 DEF Locks
<1>8. Knows' /\ ReadyIsCurrent' /\ ReadersKeepPrevious'
  BY <1>1 DEF Knows, ReadyIsCurrent, ReadersKeepPrevious
<1> QED BY <1>3, <1>5, <1>6, <1>7, <1>8

LEMMA SetRefreshingStep ==
  ASSUME Inv, NEW w \in Worker, SetRefreshing(w)
  PROVE  Inv'
<1> USE DEF Inv, TypeOK, Connected
<1> DEFINE j == job[w]
<1>1. /\ pc[w] = "mark" /\ conn[w] # NoSession
      /\ row' = [row EXCEPT ![j].status = "refreshing"]
      /\ view' = [view EXCEPT ![j] = IF @ = "empty" THEN @ ELSE "old"]
      /\ scans' = {IF x.job = j THEN [x EXCEPT !.current = FALSE] ELSE x : x \in scans}
      /\ pc' = [pc EXCEPT ![w] = "check"]
      /\ UNCHANGED <<lock, conn, job, todo, waiting, faults>>
  BY DEF SetRefreshing, Goto
<1>2. pc[w] \in AtJob /\ j \in Job
  BY <1>1 DEF Sessions, AtJob, Working
<1>3. \A x \in scans : x.job # j /\ x.by # conn[w]
  BY <1>1, <1>2, NotScanned
<1>4. scans' = scans
  BY <1>1, <1>3
<1>5. \A v \in Worker \ {w} : pc[v] \in AtJob /\ conn[v] # NoSession => job[v] # j
  BY <1>1, <1>2, Exclusive
<1> HIDE DEF j
<1>6. TypeOK'
  BY <1>1, <1>2, <1>4 DEF Row, AtJob, Working
<1>7. Sessions' /\ LocksReleased'
  BY <1>1, <1>2 DEF Sessions, LocksReleased, AtJob, Working
<1>8. Locks'
  BY <1>1, <1>2, <1>3, <1>4 DEF Locks, AtJob, Working
<1>9. Knows'
  BY <1>1, <1>2, <1>5 DEF Knows, AtJob, Working
<1>10. ReadyIsCurrent'
  BY <1>1, <1>2 DEF ReadyIsCurrent, Row
<1>11. ReadersKeepPrevious'
  BY <1>1, <1>3, <1>4 DEF ReadersKeepPrevious, Scan
<1> QED BY <1>6, <1>7, <1>8, <1>9, <1>10, <1>11

LEMMA CheckPopulatedStep ==
  ASSUME Inv, NEW w \in Worker, CheckPopulated(w)
  PROVE  Inv'
<1> USE DEF Inv, TypeOK, Connected
<1>1. /\ pc[w] = "check" /\ conn[w] # NoSession
      /\ pc' = [pc EXCEPT ![w] = IF view[job[w]] = "empty" THEN "refresh"
                                                           ELSE "refreshConcurrently"]
      /\ UNCHANGED <<lock, row, view, scans, conn, job, todo, waiting, faults>>
  BY DEF CheckPopulated, Goto, serverVars
<1>2. \A x \in scans : x.by # conn[w]
  BY <1>1, NotScanned DEF AtJob, Working
<1>3. TypeOK'
  BY <1>1 DEF AtJob, Working
<1>4. Sessions' /\ LocksReleased'
  BY <1>1 DEF Sessions, LocksReleased, AtJob, Working
<1>5. Locks'
  BY <1>1, <1>2 DEF Locks, AtJob, Working
<1>6. Knows'
  BY <1>1 DEF Knows
<1>7. ReadyIsCurrent' /\ ReadersKeepPrevious'
  BY <1>1 DEF ReadyIsCurrent, ReadersKeepPrevious
<1> QED BY <1>3, <1>4, <1>5, <1>6, <1>7

LEMMA StartRefreshStep ==
  ASSUME Inv, NEW w \in Worker, StartRefresh(w)
  PROVE  Inv'
<1> USE DEF Inv, TypeOK, Connected
<1> DEFINE new == [by |-> conn[w], job |-> job[w],
                   concurrently |-> pc[w] = "refreshConcurrently", current |-> TRUE]
<1>1. /\ pc[w] \in {"refresh", "refreshConcurrently"} /\ conn[w] # NoSession
      /\ scans' = scans \cup {new}
      /\ pc' = [pc EXCEPT ![w] = "scanning"]
      /\ UNCHANGED <<lock, row, view, conn, job, todo, waiting, faults>>
  BY DEF StartRefresh, Goto
<1>2. pc[w] \in AtJob /\ job[w] \in Job
  BY <1>1 DEF Sessions, AtJob, Working
<1>3. \A x \in scans : x.by # conn[w] /\ x.job # job[w]
  BY <1>1, <1>2, NotScanned
<1>4. /\ new.by = conn[w] /\ new.job = job[w] /\ new.current
      /\ new.concurrently = (pc[w] = "refreshConcurrently")
      /\ new \in Scan
  BY <1>1, <1>2 DEF Scan
<1> HIDE DEF new
<1>5. TypeOK'
  BY <1>1, <1>4 DEF AtJob, Working
<1>6. Sessions' /\ LocksReleased'
  BY <1>1, <1>2 DEF Sessions, LocksReleased, AtJob, Working
<1>7. Locks'
  <2>1. \A v \in Worker : pc'[v] \in AtJob /\ Connected(v)' => lock'[job'[v][1]] = conn'[v]
    BY <1>1, <1>2 DEF Locks
  <2>2. \A x \in scans :
          /\ lock[x.job[1]] = x.by /\ x.current
          /\ \A v \in Worker : conn[v] = x.by => v # w /\ pc[v] = "scanning" /\ job[v] = x.job
    BY <1>3 DEF Locks
  <2>3. /\ lock[new.job[1]] = new.by
        /\ \A v \in Worker : conn[v] = new.by => v = w
    BY <1>1, <1>2, <1>4 DEF Locks, Sessions
  <2>4. \A x \in scans' :
          /\ lock'[x.job[1]] = x.by
          /\ x.current
          /\ \A v \in Worker : conn'[v] = x.by => pc'[v] = "scanning" /\ job'[v] = x.job
    BY <2>2, <2>3, <1>1, <1>4
  <2>5. \A x, y \in scans' : x.by = y.by => x = y
    BY <1>1, <1>3, <1>4 DEF Locks
  <2> QED BY <2>1, <2>4, <2>5 DEF Locks
<1>8. Knows' /\ ReadyIsCurrent'
  BY <1>1 DEF Knows, ReadyIsCurrent
<1>9. ReadersKeepPrevious'
  <2>1. view[new.job] # "empty" => new.concurrently
    BY <1>1, <1>4 DEF Knows
  <2> QED BY <2>1, <1>1 DEF ReadersKeepPrevious
<1> QED BY <1>5, <1>6, <1>7, <1>8, <1>9

(* A commit shows the new data, and no other worker's knowledge of the     *)
(* view is spoilt.                                                         *)
LEMMA CommitEffect ==
  ASSUME Inv, NEW x \in scans, Commit(x)
  PROVE  /\ view' = [view EXCEPT ![x.job] = "current"]
         /\ scans' = scans \ {x}
         /\ x.job \in Job
         /\ \A y \in scans' : y.job # x.job
         /\ \A w \in Worker : Connected(w) /\ pc[w] = "refresh" => job[w] # x.job
         /\ view' \in [Job -> {"empty", "old", "current"}]
<1>1. x.current /\ x.job \in Job /\ scans' = scans \ {x}
  BY DEF Inv, TypeOK, Locks, Scan, Commit
<1>2. view' = [view EXCEPT ![x.job] = "current"]
  BY <1>1 DEF Commit
<1>3. \A y \in scans' : y.job # x.job
  BY <1>1 DEF Inv, Locks
<1>4. ASSUME NEW w \in Worker, Connected(w), pc[w] = "refresh"
      PROVE  job[w] # x.job
  BY <1>4, NotScanned DEF AtJob, Working
<1> QED BY <1>1, <1>2, <1>3, <1>4 DEF Inv, TypeOK

LEMMA FinishRefreshStep ==
  ASSUME Inv, NEW w \in Worker, FinishRefresh(w)
  PROVE  Inv'
<1> USE DEF Inv, TypeOK, Connected
<1>1. PICK x \in scans : x.by = conn[w] /\ Commit(x)
  BY DEF FinishRefresh
<1>2. /\ pc[w] = "scanning" /\ pc' = [pc EXCEPT ![w] = "ready"]
      /\ UNCHANGED <<lock, row, conn, job, todo, waiting, faults>>
  BY DEF FinishRefresh, Goto
<1>3. /\ view' = [view EXCEPT ![x.job] = "current"]
      /\ scans' = scans \ {x}
      /\ x.job \in Job
      /\ \A y \in scans' : y.job # x.job
      /\ \A v \in Worker : conn[v] # NoSession /\ pc[v] = "refresh" => job[v] # x.job
      /\ view' \in [Job -> {"empty", "old", "current"}]
  BY <1>1, CommitEffect
<1>4. job[w] = x.job /\ conn[w] # NoSession
  BY <1>1, WorkerAssumption DEF Locks, Scan
<1>5. TypeOK'
  BY <1>2, <1>3 DEF AtJob, Working
<1>6. Sessions' /\ LocksReleased'
  BY <1>2, <1>3, <1>4 DEF Sessions, LocksReleased, AtJob, Working
<1>7. Locks'
  <2>1. \A v \in Worker : pc'[v] \in AtJob /\ Connected(v)' => lock'[job'[v][1]] = conn'[v]
    BY <1>2 DEF Locks, AtJob, Working
  <2>2. \A y \in scans' : y \in scans /\ y.by # conn[w]
    BY <1>1, <1>3 DEF Locks
  <2>3. ASSUME NEW y \in scans', NEW v \in Worker, conn'[v] = y.by
        PROVE  pc'[v] = "scanning" /\ job'[v] = y.job
    BY <2>2, <2>3, <1>2 DEF Locks
  <2> QED BY <2>1, <2>2, <2>3, <1>2 DEF Locks
<1>8. Knows'
  BY <1>2, <1>3, <1>4 DEF Knows
<1>9. ReadyIsCurrent' /\ ReadersKeepPrevious'
  BY <1>2, <1>3 DEF ReadyIsCurrent, ReadersKeepPrevious, Scan
<1> QED BY <1>5, <1>6, <1>7, <1>8, <1>9

LEMMA FinishAbandonedStep ==
  ASSUME Inv, NEW s \in Session, FinishAbandoned(s)
  PROVE  Inv'
<1> USE DEF Inv, TypeOK, Connected
<1>1. PICK x \in scans : x.by = s /\ Commit(x)
  BY DEF FinishAbandoned
<1>2. UNCHANGED <<lock, row, pc, conn, job, todo, waiting, faults>>
  BY DEF FinishAbandoned, workerVars
<1>3. /\ view' = [view EXCEPT ![x.job] = "current"]
      /\ scans' = scans \ {x}
      /\ x.job \in Job
      /\ \A y \in scans' : y.job # x.job
      /\ \A v \in Worker : conn[v] # NoSession /\ pc[v] = "refresh" => job[v] # x.job
      /\ view' \in [Job -> {"empty", "old", "current"}]
  BY <1>1, CommitEffect
<1>4. TypeOK' /\ Sessions' /\ LocksReleased' /\ Locks'
  BY <1>2, <1>3 DEF Sessions, LocksReleased, Locks
<1>5. Knows'
  BY <1>2, <1>3 DEF Knows
<1>6. ReadyIsCurrent' /\ ReadersKeepPrevious'
  BY <1>2, <1>3 DEF ReadyIsCurrent, ReadersKeepPrevious, Scan
<1> QED BY <1>4, <1>5, <1>6

(* _set_ready finds the view as the worker left it, reply or no reply.     *)
LEMMA ReadyStep ==
  ASSUME Inv, NEW w \in Worker, SetReady(w) \/ LoseReadyReply(w)
  PROVE  Inv'
<1> USE DEF Inv, TypeOK, Connected
<1>1. /\ pc[w] = "ready" /\ conn[w] # NoSession
      /\ row' = [row EXCEPT ![job[w]] = [status |-> "ready", due |-> FALSE]]
      /\ UNCHANGED <<lock, view, scans, job, todo, waiting>>
      /\ faults' \in 0..MaxFaults
  BY WorkerAssumption DEF SetReady, LoseReadyReply, Fault
<1>2. \/ pc' = [pc EXCEPT ![w] = "unlock"] /\ UNCHANGED conn
      \/ pc' = [pc EXCEPT ![w] = "failed"] /\ conn' = [conn EXCEPT ![w] = NoSession]
  BY DEF SetReady, LoseReadyReply, Goto
<1>3. job[w] \in Job /\ view[job[w]] = "current"
  BY <1>1 DEF Sessions, AtJob, Working, Knows
<1>4. \A x \in scans : x.by # conn[w] /\ x.by # NoSession
  BY <1>1, NotScanned, WorkerAssumption DEF AtJob, Working, Scan
<1>5. TypeOK'
  BY <1>1, <1>2, <1>3 DEF AtJob, Working, Row
<1>6. Sessions' /\ LocksReleased'
  BY <1>1, <1>2 DEF Sessions, LocksReleased, AtJob, Working
<1>7. Locks'
  <2>1. ASSUME NEW v \in Worker, pc'[v] \in AtJob, Connected(v)'
        PROVE  lock'[job'[v][1]] = conn'[v]
    BY <2>1, <1>1, <1>2 DEF Locks, AtJob, Working
  <2>2. ASSUME NEW x \in scans, NEW v \in Worker, conn'[v] = x.by
        PROVE  pc'[v] = "scanning" /\ job'[v] = x.job
    <3>1. v # w /\ conn[v] = x.by /\ pc'[v] = pc[v]
      BY <2>2, <1>2, <1>4
    <3> QED BY <3>1, <1>1 DEF Locks
  <2> QED BY <2>1, <2>2, <1>1 DEF Locks
<1>8. Knows'
  BY <1>1, <1>2 DEF Knows
<1>9. ReadyIsCurrent' /\ ReadersKeepPrevious'
  BY <1>1, <1>3 DEF ReadyIsCurrent, ReadersKeepPrevious
<1> QED BY <1>5, <1>6, <1>7, <1>8, <1>9

(* The except block: the row says failed, or not even that.                *)
LEMMA FailedStep ==
  ASSUME Inv, NEW w \in Worker, SetFailed(w) \/ FailSetFailed(w)
  PROVE  Inv'
<1> USE DEF Inv, TypeOK, Connected
<1>1. /\ pc[w] = "failed" /\ conn[w] # NoSession
      /\ row' \in {row, [row EXCEPT ![job[w]].status = "failed"]}
      /\ pc' = [pc EXCEPT ![w] = "unlockFailed"]
      /\ UNCHANGED <<lock, view, scans, conn, job, todo, waiting>>
      /\ faults' \in 0..MaxFaults
  BY WorkerAssumption DEF SetFailed, FailSetFailed, Fault, Goto, serverVars
<1>2. job[w] \in Job
  BY <1>1 DEF Sessions, AtJob
<1>3. \A x \in scans : x.by # conn[w]
  BY <1>1, NotScanned DEF AtJob
<1>4. TypeOK'
  <2>1. row' \in [Job -> Row]
    BY <1>1, <1>2 DEF Row
  <2> QED BY <2>1, <1>1 DEF AtJob, Working
<1>5. Sessions' /\ LocksReleased'
  BY <1>1 DEF Sessions, LocksReleased, AtJob, Working
<1>6. Locks'
  <2>1. ASSUME NEW v \in Worker, pc'[v] \in AtJob, Connected(v)'
        PROVE  lock'[job'[v][1]] = conn'[v]
    BY <2>1, <1>1 DEF Locks, AtJob, Working
  <2>2. ASSUME NEW x \in scans, NEW v \in Worker, conn'[v] = x.by
        PROVE  pc'[v] = "scanning" /\ job'[v] = x.job
    <3>1. v # w /\ conn[v] = x.by /\ pc'[v] = pc[v]
      BY <2>2, <1>1, <1>3
    <3> QED BY <3>1, <1>1 DEF Locks
  <2> QED BY <2>1, <2>2, <1>1 DEF Locks
<1>7. Knows'
  BY <1>1 DEF Knows
<1>8. ReadyIsCurrent'
  <2>1. CASE row' = row
    BY <2>1, <1>1 DEF ReadyIsCurrent
  <2>2. CASE row' = [row EXCEPT ![job[w]].status = "failed"]
    BY <2>2, <1>1, <1>2 DEF ReadyIsCurrent, Row
  <2> QED BY <2>1, <2>2, <1>1
<1>9. ReadersKeepPrevious'
  BY <1>1 DEF ReadersKeepPrevious
<1> QED BY <1>4, <1>5, <1>6, <1>7, <1>8, <1>9

(* A statement raises: its scan is undone, the lock is still held.         *)
LEMMA RaiseStep ==
  ASSUME Inv, NEW w \in Worker, TimeOut(w) \/ FailStatement(w)
  PROVE  Inv'
<1> USE DEF Inv, TypeOK, Connected
<1>1. /\ pc[w] \in Working /\ conn[w] # NoSession
      /\ pc' = [pc EXCEPT ![w] = "failed"]
      /\ scans' = {x \in scans : x.by # conn[w]}
      /\ UNCHANGED <<lock, row, view, conn, job, todo, waiting>>
      /\ faults' \in 0..MaxFaults
  BY WorkerAssumption DEF TimeOut, FailStatement, Raise, Fault, Goto, Working
<1>2. TypeOK'
  BY <1>1 DEF AtJob, Working
<1>3. Sessions' /\ LocksReleased'
  BY <1>1 DEF Sessions, LocksReleased, AtJob, Working
<1>4. Locks'
  BY <1>1 DEF Locks, AtJob
<1>5. Knows' /\ ReadyIsCurrent' /\ ReadersKeepPrevious'
  BY <1>1 DEF Knows, ReadyIsCurrent, ReadersKeepPrevious
<1> QED BY <1>2, <1>3, <1>4, <1>5

LEMMA UnlockStep ==
  ASSUME Inv, NEW w \in Worker, Unlock(w)
  PROVE  Inv'
<1> USE DEF Inv, TypeOK, Connected
<1> DEFINE f == job[w][1]
<1>1. /\ pc[w] \in {"unlock", "unlockFailed"} /\ conn[w] # NoSession
      /\ lock' = [lock EXCEPT ![f] = IF @ = conn[w] THEN NoSession ELSE @]
      /\ job' = [job EXCEPT ![w] = NoJob]
      /\ pc' = [pc EXCEPT ![w] = "jobs"]
      /\ UNCHANGED <<row, view, scans, conn, todo, faults>>
  BY DEF Unlock, EndJob, Goto
<1>2. job[w] \in Job /\ f \in Family
  BY <1>1, JobFamily DEF Sessions, AtJob
<1>3. lock' = [lock EXCEPT ![f] = NoSession]
  BY <1>1, <1>2 DEF Locks, AtJob
<1>4. \A x \in scans : x.job[1] # f /\ x.by # conn[w]
  BY <1>1, NotScanned DEF AtJob
<1>5. \A v \in Worker \ {w} : pc[v] \in AtJob /\ conn[v] # NoSession => job[v][1] # f
  BY <1>1, Exclusive DEF AtJob
<1>6. \A v \in Worker : pc[v] \in AtJob => job[v][1] \in Family
  BY JobFamily DEF Sessions
<1>7. waiting' \in [Worker -> SUBSET Job]
  BY <1>2 DEF Unlock, EndJob
<1> HIDE DEF f
<1>8. TypeOK'
  BY <1>1, <1>2, <1>3, <1>7
<1>9. Sessions'
  BY <1>1 DEF Sessions, AtJob, Working
<1>10. LocksReleased'
  <2>1. \A g \in Family : lock[g] = conn[w] => g = f
    BY <1>1 DEF LocksReleased, f
  <2> QED BY <2>1, <1>1, <1>2, <1>3 DEF LocksReleased, Sessions
<1>11. Locks'
  <2>1. \A v \in Worker : pc'[v] \in AtJob /\ Connected(v)' => lock'[job'[v][1]] = conn'[v]
    BY <1>1, <1>2, <1>3, <1>5, <1>6 DEF Locks, AtJob, Working
  <2>2. \A x \in scans : x.job[1] \in Family
    BY JobFamily DEF Scan
  <2>3. \A x \in scans : lock'[x.job[1]] = x.by
    BY <2>2, <1>2, <1>3, <1>4 DEF Locks
  <2>4. ASSUME NEW x \in scans, NEW v \in Worker, conn'[v] = x.by
        PROVE  pc'[v] = "scanning" /\ job'[v] = x.job
    BY <2>4, <1>1, <1>4 DEF Locks
  <2> QED BY <2>1, <2>3, <2>4, <1>1 DEF Locks
<1>12. Knows' /\ ReadyIsCurrent' /\ ReadersKeepPrevious'
  BY <1>1 DEF Knows, ReadyIsCurrent, ReadersKeepPrevious
<1> QED BY <1>8, <1>9, <1>10, <1>11, <1>12

(* A lost connection or process: the session keeps its lock and its scan.  *)
LEMMA LossStep ==
  ASSUME Inv, NEW w \in Worker, Disconnect(w) \/ Crash(w)
  PROVE  Inv'
<1> USE DEF Inv, TypeOK, Connected
<1>1. /\ UNCHANGED <<lock, row, view, scans>>
      /\ conn' = [conn EXCEPT ![w] = NoSession]
      /\ faults' \in 0..MaxFaults
      /\ \/ UNCHANGED <<pc, job, todo, waiting>>
         \/ /\ pc' = [pc EXCEPT ![w] = "closed"] /\ job' = [job EXCEPT ![w] = NoJob]
            /\ todo' = [todo EXCEPT ![w] = {}] /\ waiting' = [waiting EXCEPT ![w] = {}]
  BY WorkerAssumption DEF Disconnect, Crash, Fault, Goto, serverVars
<1>2. \A x \in scans : x.by # NoSession
  BY WorkerAssumption DEF Scan
<1>3. TypeOK'
  BY <1>1
<1>4. Sessions'
  BY <1>1 DEF Sessions, AtJob, Working
<1>5. LocksReleased'
  BY <1>1 DEF LocksReleased
<1>6. Locks'
  BY <1>1, <1>2 DEF Locks
<1>7. Knows' /\ ReadyIsCurrent' /\ ReadersKeepPrevious'
  BY <1>1 DEF Knows, ReadyIsCurrent, ReadersKeepPrevious
<1> QED BY <1>3, <1>4, <1>5, <1>6, <1>7

LEMMA EndSessionStep ==
  ASSUME Inv, NEW s \in Session, EndSession(s)
  PROVE  Inv'
<1> USE DEF Inv, TypeOK, Connected
<1>1. /\ \A w \in Worker : conn[w] # s
      /\ lock' = [f \in Family |-> IF lock[f] = s THEN NoSession ELSE lock[f]]
      /\ scans' = {x \in scans : x.by # s}
      /\ UNCHANGED <<row, view, pc, conn, job, todo, waiting, faults>>
  BY DEF EndSession, Abandoned, workerVars
<1>2. TypeOK' /\ Sessions' /\ LocksReleased'
  BY <1>1 DEF Sessions, LocksReleased
<1>3. Locks'
  <2>1. \A v \in Worker : pc[v] \in AtJob => job[v][1] \in Family
    BY JobFamily DEF Sessions
  <2>2. \A x \in scans : x.job[1] \in Family
    BY JobFamily DEF Scan
  <2> QED BY <2>1, <2>2, <1>1 DEF Locks
<1>4. Knows' /\ ReadyIsCurrent' /\ ReadersKeepPrevious'
  BY <1>1 DEF Knows, ReadyIsCurrent, ReadersKeepPrevious
<1> QED BY <1>2, <1>3, <1>4

LEMMA TimeStep ==
  ASSUME Inv, NEW j \in Job,
         BecomeDue(j) \/ \E w \in Worker : RetryTimeComes(w, j)
  PROVE  Inv'
<1> USE DEF Inv, TypeOK, Connected
<1>1. CASE BecomeDue(j)
  <2>1. /\ row' = [row EXCEPT ![j].due = TRUE]
        /\ UNCHANGED <<lock, view, scans, workerVars, faults>>
    BY <1>1 DEF BecomeDue
  <2>2. row' \in [Job -> Row] /\ \A k \in Job : row'[k].status = row[k].status
    BY <2>1 DEF Row
  <2> QED BY <2>1, <2>2 DEF workerVars, Sessions, LocksReleased, Locks, Knows,
                            ReadyIsCurrent, ReadersKeepPrevious
<1>2. ASSUME NEW w \in Worker, RetryTimeComes(w, j) PROVE Inv'
  BY <1>2 DEF RetryTimeComes, serverVars, Sessions, LocksReleased, Locks, Knows,
              ReadyIsCurrent, ReadersKeepPrevious
<1> QED BY <1>1, <1>2

-----------------------------------------------------------------------------
LEMMA InvStep == Inv /\ [Next]_vars => Inv'
<1> SUFFICES ASSUME Inv, [Next]_vars PROVE Inv'
  OBVIOUS
<1>1. ASSUME NEW w \in Worker, WorkerStep(w) PROVE Inv'
  BY <1>1, QuietStep, OpenStep, TryLockStep, SetRefreshingStep, CheckPopulatedStep,
     StartRefreshStep, FinishRefreshStep, RaiseStep, ReadyStep, FailedStep, UnlockStep
     DEF WorkerStep
<1>2. ASSUME NEW w \in Worker, WorkerFault(w) PROVE Inv'
  BY <1>2, RaiseStep, FailedStep, LossStep, ReadyStep DEF WorkerFault
<1>3. ASSUME NEW s \in Session, FinishAbandoned(s) \/ EndSession(s) PROVE Inv'
  BY <1>3, FinishAbandonedStep, EndSessionStep
<1>4. ASSUME NEW j \in Job, BecomeDue(j) \/ \E w \in Worker : RetryTimeComes(w, j)
      PROVE  Inv'
  BY <1>4, TimeStep
<1>5. CASE UNCHANGED vars
  BY <1>5 DEF vars, serverVars, workerVars, Inv, TypeOK, Sessions, LocksReleased, Locks,
              Knows, ReadyIsCurrent, ReadersKeepPrevious, Connected
<1> QED BY <1>1, <1>2, <1>3, <1>4, <1>5 DEF Next

LEMMA Invariant == Spec => []Inv
<1> QED BY InitInv, InvStep, PTL DEF Spec

(* State tables, locks and the workers' memory stay well typed.            *)
THEOREM WorkerType == Spec => []TypeOK
<1>1. Inv => TypeOK
  BY DEF Inv
<1> QED BY <1>1, Invariant, PTL

(* The advisory lock of a family lets one REFRESH of its views run at a    *)
(* time, abandoned sessions included (pg_try_advisory_lock).               *)
THEOREM ScansExclusive == Spec => []OneScanPerFamily
<1>1. Inv => OneScanPerFamily
  BY DEF Inv, Locks, OneScanPerFamily
<1> QED BY <1>1, Invariant, PTL

(* A ready row describes data read after its refresh_started_at.           *)
THEOREM RowsHonest == Spec => []ReadyIsCurrent
<1>1. Inv => ReadyIsCurrent
  BY DEF Inv
<1> QED BY <1>1, Invariant, PTL

(* A populated view is only ever refreshed concurrently.                   *)
THEOREM ReadersServed == Spec => []ReadersKeepPrevious
<1>1. Inv => ReadersKeepPrevious
  BY DEF Inv
<1> QED BY <1>1, Invariant, PTL

(* No path of _refresh_snapshot leaves a live session with the lock.       *)
THEOREM LocksGivenBack == Spec => []LocksReleased
<1>1. Inv => LocksReleased
  BY DEF Inv
<1> QED BY <1>1, Invariant, PTL

-----------------------------------------------------------------------------
(* One worker, as deployed.  What it planned is due, and stays so until it *)
(* succeeds: nobody else clears the refreshed_at of its windows.           *)
OneWorker == \A v, w \in Worker : v = w

DueWork ==
  \A w \in Worker :
    /\ \A j \in todo[w] : row[j].due
    /\ pc[w] \in Working => row[job[w]].due
    /\ pc[w] = "failed" /\ Connected(w) => row[job[w]].due
    /\ pc[w] \in AtJob => job[w] \notin todo[w]

DueInv == DueWork /\ UnfinishedIsDue

(* Planning takes due windows only.                                        *)
LEMMA PlanDue ==
  ASSUME Inv, OneWorker, DueInv, NEW w \in Worker, PlanMetrics(w) \/ PlanTrends(w)
  PROVE  DueInv'
<1>1. /\ UNCHANGED <<row, conn, job>>
      /\ pc' = [pc EXCEPT ![w] = "planTrends"] \/ pc' = [pc EXCEPT ![w] = "jobs"]
      /\ \/ todo' = [todo EXCEPT ![w] = Due("query_metrics")]
         \/ todo' = [todo EXCEPT ![w] = @ \cup Due("global_trend")]
  BY DEF PlanMetrics, PlanTrends, Goto, serverVars
<1>2. \A j \in todo'[w] : row[j].due
  BY <1>1 DEF Inv, TypeOK, Due, DueInv, DueWork
<1>3. pc'[w] \notin AtJob
  BY <1>1 DEF Inv, TypeOK, AtJob, Working
<1>4. DueWork'
  BY <1>1, <1>2, <1>3 DEF DueWork, OneWorker, AtJob
<1> QED BY <1>1, <1>4 DEF DueInv, UnfinishedIsDue

(* Steps between jobs, and losses, take windows off the plan at most.      *)
LEMMA LeaveDue ==
  ASSUME Inv, OneWorker, DueInv, NEW w \in Worker,
         \/ Open(w) \/ Reopen(w) \/ EndPass(w) \/ LoseJob(w) \/ Unlock(w) \/ Crash(w)
         \/ \E j \in Job : Skip(w, j) \/ Refused(w, j)
  PROVE  DueInv'
<1>1. row' = row
  BY DEF Open, Reopen, EndPass, LoseJob, Unlock, Crash, Skip, Refused, serverVars
<1>2. todo'[w] \in SUBSET todo[w]
  BY DEF Open, Reopen, EndPass, LoseJob, Unlock, Crash, Skip, Refused, Attempt, EndJob,
         Inv, TypeOK
<1>3. pc'[w] \in {"plan", "closed", "jobs"}
  BY DEF Open, Reopen, EndPass, LoseJob, Unlock, Crash, Skip, Refused, Attempt, EndJob,
         Goto, Inv, TypeOK, serverVars
<1>4. DueWork'
  BY <1>1, <1>2, <1>3 DEF DueInv, DueWork, OneWorker, AtJob, Working
<1> QED BY <1>1, <1>4 DEF DueInv, UnfinishedIsDue

LEMMA TryLockDue ==
  ASSUME Inv, OneWorker, DueInv, NEW w \in Worker, NEW j \in Job, TryLock(w, j)
  PROVE  DueInv'
<1>1. /\ j \in todo[w]
      /\ todo' = [todo EXCEPT ![w] = @ \ {j}]
      /\ job' = [job EXCEPT ![w] = j]
      /\ pc' = [pc EXCEPT ![w] = "mark"]
      /\ UNCHANGED <<row, conn>>
  BY DEF TryLock, Attempt, NextUp, Goto
<1>2. row[j].due
  BY <1>1 DEF DueInv, DueWork
<1>3. DueWork'
  BY <1>1, <1>2 DEF Inv, TypeOK, DueInv, DueWork, OneWorker, AtJob, Working
<1> QED BY <1>1, <1>3 DEF DueInv, UnfinishedIsDue

(* The statements of a job that write no row, and those that fail.         *)
LEMMA StatementDue ==
  ASSUME Inv, OneWorker, DueInv, NEW w \in Worker,
         \/ CheckPopulated(w) \/ StartRefresh(w) \/ FinishRefresh(w)
         \/ TimeOut(w) \/ FailStatement(w) \/ FailSetFailed(w) \/ Disconnect(w)
  PROVE  DueInv'
<1>1. UNCHANGED <<row, job, todo>>
  BY DEF CheckPopulated, StartRefresh, FinishRefresh, TimeOut, FailStatement, FailSetFailed,
         Disconnect, Raise, serverVars
<1>2. \/ pc[w] \in Working /\ pc'[w] \in Working \cup {"failed"}
      \/ pc[w] \in AtJob /\ pc'[w] = "unlockFailed"
      \/ pc'[w] = pc[w] /\ conn'[w] = NoSession
  <2>1. CASE CheckPopulated(w) \/ StartRefresh(w) \/ FinishRefresh(w)
    BY <2>1 DEF CheckPopulated, StartRefresh, FinishRefresh, Goto, Inv, TypeOK, Working
  <2>2. CASE TimeOut(w) \/ FailStatement(w) \/ FailSetFailed(w)
    BY <2>2 DEF TimeOut, FailStatement, FailSetFailed, Raise, Goto, Inv, TypeOK, AtJob,
                Working
  <2>3. CASE Disconnect(w)
    BY <2>3 DEF Disconnect, Inv, TypeOK
  <2> QED BY <2>1, <2>2, <2>3
<1>3. DueWork'
  BY <1>1, <1>2 DEF DueInv, DueWork, OneWorker, AtJob, Working, Connected
<1> QED BY <1>1, <1>3 DEF DueInv, UnfinishedIsDue

(* _set_refreshing and _set_failed leave refreshed_at alone, and the row   *)
(* they write is due.                                                      *)
LEMMA MarkDue ==
  ASSUME Inv, OneWorker, DueInv, NEW w \in Worker, SetRefreshing(w) \/ SetFailed(w)
  PROVE  DueInv'
<1>1. /\ UNCHANGED <<job, todo, conn>>
      /\ pc[w] \in AtJob
      /\ \/ pc[w] = "mark" /\ pc'[w] = "check"
         \/ pc[w] = "failed" /\ pc'[w] = "unlockFailed" /\ Connected(w)
      /\ \/ row' = [row EXCEPT ![job[w]].status = "refreshing"]
         \/ row' = [row EXCEPT ![job[w]].status = "failed"]
  BY DEF SetRefreshing, SetFailed, Goto, Inv, TypeOK, AtJob, Working
<1>2. job[w] \in Job
  BY <1>1 DEF Inv, Sessions
<1>3. row[job[w]].due
  BY <1>1 DEF DueInv, DueWork, Working
<1>4. \A j \in Job : row'[j].due = row[j].due /\ (j # job[w] => row'[j] = row[j])
  BY <1>1, <1>2 DEF Inv, TypeOK, Row
<1>5. \A j \in todo[w] : j \in Job
  BY DEF Inv, TypeOK
<1>6. DueWork'
  BY <1>1, <1>2, <1>3, <1>4, <1>5 DEF DueInv, DueWork, OneWorker, AtJob, Working
<1>7. UnfinishedIsDue'
  BY <1>3, <1>4 DEF DueInv, UnfinishedIsDue
<1> QED BY <1>6, <1>7 DEF DueInv

(* _set_ready clears the refreshed_at of a window that left the plan.      *)
LEMMA ReadyDue ==
  ASSUME Inv, OneWorker, DueInv, NEW w \in Worker, SetReady(w) \/ LoseReadyReply(w)
  PROVE  DueInv'
<1>1. /\ UNCHANGED <<job, todo>>
      /\ pc[w] = "ready"
      /\ row' = [row EXCEPT ![job[w]] = [status |-> "ready", due |-> FALSE]]
      /\ \/ pc'[w] = "unlock"
         \/ pc'[w] = "failed" /\ conn'[w] = NoSession
  BY DEF SetReady, LoseReadyReply, Goto, Inv, TypeOK
<1>2. job[w] \in Job /\ job[w] \notin todo[w]
  BY <1>1 DEF Inv, Sessions, DueInv, DueWork, AtJob, Working
<1>3. \A j \in todo[w] : j \in Job
  BY DEF Inv, TypeOK
<1>4. /\ row'[job[w]].status = "ready"
      /\ \A j \in Job \ {job[w]} : row'[j] = row[j]
  BY <1>1, <1>2 DEF Inv, TypeOK
<1>5. DueWork'
  BY <1>1, <1>2, <1>3, <1>4 DEF DueInv, DueWork, OneWorker, AtJob, Working, Connected
<1>6. UnfinishedIsDue'
  BY <1>4 DEF DueInv, UnfinishedIsDue
<1> QED BY <1>5, <1>6 DEF DueInv

(* The server's steps and time make windows due at most.                   *)
LEMMA TimeDue ==
  ASSUME Inv, DueInv,
         \/ \E s \in Session : FinishAbandoned(s) \/ EndSession(s)
         \/ \E j \in Job : BecomeDue(j) \/ \E w \in Worker : RetryTimeComes(w, j)
         \/ UNCHANGED vars
  PROVE  DueInv'
<1>1. UNCHANGED <<pc, conn, job, todo>>
  BY DEF FinishAbandoned, EndSession, BecomeDue, RetryTimeComes, serverVars, workerVars, vars
<1>2. row' = row \/ \E j \in Job : row' = [row EXCEPT ![j].due = TRUE]
  BY DEF FinishAbandoned, EndSession, BecomeDue, RetryTimeComes, serverVars, workerVars, vars
<1>3. \A k \in Job : (row[k].due => row'[k].due) /\ row'[k].status = row[k].status
  BY <1>2 DEF Inv, TypeOK, Row
<1>4. \A w \in Worker :
        /\ \A j \in todo[w] : j \in Job
        /\ pc[w] \in AtJob => job[w] \in Job
  BY DEF Inv, TypeOK, Sessions
<1>5. DueWork'
  BY <1>1, <1>3, <1>4 DEF DueInv, DueWork, Connected, AtJob
<1>6. UnfinishedIsDue'
  BY <1>3 DEF DueInv, UnfinishedIsDue
<1> QED BY <1>5, <1>6 DEF DueInv

LEMMA DueStep == Inv /\ OneWorker /\ DueInv /\ [Next]_vars => DueInv'
<1> SUFFICES ASSUME Inv, OneWorker, DueInv, [Next]_vars PROVE DueInv'
  OBVIOUS
<1>1. ASSUME NEW w \in Worker, WorkerStep(w) PROVE DueInv'
  BY <1>1, PlanDue, LeaveDue, TryLockDue, StatementDue, MarkDue, ReadyDue DEF WorkerStep
<1>2. ASSUME NEW w \in Worker, WorkerFault(w) PROVE DueInv'
  BY <1>2, LeaveDue, StatementDue, ReadyDue DEF WorkerFault
<1> QED BY <1>1, <1>2, TimeDue DEF Next

(* With one worker, a row that does not say ready is due, however the last *)
(* try ended (_set_failed, a lost reply, a crash): with two, a plan read   *)
(* before the other's success marks a fresh row.                           *)
THEOREM UnfinishedRetried ==
  ASSUME OneWorker
  PROVE  Spec => []UnfinishedIsDue
<1>1. Init => DueInv
  BY DEF Init, DueInv, DueWork, UnfinishedIsDue, AtJob, Working
<1>2. DueInv => UnfinishedIsDue
  BY DEF DueInv
<1>3. Inv /\ DueInv /\ [Next]_vars => DueInv'
  BY DueStep
<1> QED BY <1>1, <1>2, <1>3, Invariant, PTL DEF Spec
=============================================================================
