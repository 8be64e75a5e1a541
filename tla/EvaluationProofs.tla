--------------------------- MODULE EvaluationProofs ---------------------------
(***************************************************************************)
(* Proofs about the evaluations for any number of requests, of any kinds,  *)
(* with any number of faults and restarts: one operation on the source,    *)
(* nothing executed that locks or writes, true answers, and job databases  *)
(* that are accounted for.                                                 *)
(***************************************************************************)
EXTENDS Evaluation, FiniteSetTheorems, TLAPS

Service == {"source", "clone"}
Status == {"none", "REJECTED", "VALIDATED", "RUNTIME_VALIDATED", "HEALTHY", "BUSY"}
Claim == {"yes", "no", "unknown"}

Answers == [status : Status, executed : Claim, rolledBack : Claim,
            ddl : BOOLEAN, destroyed : BOOLEAN]

Calls == [at : {"idle", "source", "clone", "answered"},
          kind : {"none", "explain", "advice", "runtime", "query", "health"},
          query : {"plain", "locking", "refused"},
          stale : BOOLEAN, planned : BOOLEAN, answer : Answers]

SourceJobs == [at : {"none", "gate", "guard", "plan", "preflight", "analyze",
                     "closing", "done", "lost"},
               started : BOOLEAN, executed : BOOLEAN, status : Status]

CloneJobs == [at : {"none", "queued", "create", "preflight", "index", "measure",
                    "explain", "drop", "done", "lost"},
              role : Role \cup {"none"}, tracked : Seq(Role), tried : Nat,
              clean : BOOLEAN, runs : Nat, ddl : BOOLEAN, used : BOOLEAN,
              status : Status, destroyed : BOOLEAN]

Mail == SUBSET [from : Service, told : Answers]

RequestType ==
  /\ call \in [Request -> Calls]
  /\ post \in [Request -> Service \cup {"none"}]
  /\ reply \in [Request -> Mail]
  /\ faults \in Nat

SourceType ==
  /\ free \in BOOLEAN
  /\ source \in [Request -> SourceJobs]
  /\ open \in SUBSET Request /\ ran \in SUBSET Request

CloneType ==
  /\ line \in Seq(Request)
  /\ clone \in [Request -> CloneJobs]
  /\ database \in [JobDatabase -> {"none", "creating", "there", "late"}]
  /\ indexed \in SUBSET JobDatabase /\ replayed \in SUBSET Request

TypeOK == RequestType /\ SourceType /\ CloneType

(* The slot is held by the one worker thread, and free without one. *)
SlotInv ==
  /\ \A r, s \in Request : OnSource(r) /\ OnSource(s) => r = s
  /\ free <=> \A r \in Request : ~OnSource(r)

(* The slot of the clone belongs to the first in line: a job past the      *)
(* queue is the first, and the others are in line.                         *)
LineInv ==
  \A r \in Request : OnClone(r) =>
    /\ \E i \in 1..Len(line) : line[i] = r
    /\ clone[r].at # "queued" => line[1] = r

(* A request reaches a service once, after it was asked; and a thread past *)
(* a gate belongs to a request that passes it.                             *)
SourceInv(r) ==
  /\ call[r].at = "idle" => post[r] = "none" /\ source[r].at = "none"
  /\ source[r].at # "none" \/ post[r] = "source" =>
       Kind(r) \in {"explain", "advice", "runtime"}
  /\ post[r] = "source" => source[r].at = "none"
  /\ source[r].at \in {"none", "gate"} => r \notin open
  /\ source[r].at \in {"none", "gate", "guard", "plan", "preflight", "analyze"} =>
       r \notin ran
  /\ source[r].at \in {"plan", "preflight", "analyze"} => ~call[r].stale
  /\ source[r].at = "analyze" => PlanReadOnly(r) /\ source[r].executed
  /\ r \in ran => PlanReadOnly(r) /\ ~call[r].stale
  /\ OnSource(r) /\ r \in ran => source[r].executed
  /\ source[r].status = "RUNTIME_VALIDATED" => r \in ran

CloneInv(r) ==
  /\ call[r].at \in {"idle", "source"} => clone[r].at = "none" /\ post[r] # "clone"
  /\ clone[r].at # "none" \/ post[r] = "clone" =>
       Kind(r) \in {"runtime", "query", "health"}
  /\ post[r] = "clone" => clone[r].at = "none"
  /\ clone[r].at = "none" => clone[r] = NoCloneJob
  /\ clone[r].at = "create" => clone[r].role \in Role
  /\ clone[r].at = "index" => clone[r].role = "cand"
  /\ \/ clone[r].at \in {"index", "measure"}
     \/ clone[r].at = "create" /\ clone[r].role = "cand"
     => PlanReadOnly(r)
  /\ r \in replayed => PlanReadOnly(r) /\ clone[r].at # "none"
  /\ \A k \in Role : <<r, k>> \in indexed =>
       PlanReadOnly(r) /\ k = "cand" /\ clone[r].at # "none"

(* A database that is there is tracked, until the job has ended; and a     *)
(* cleanup that calls itself complete has left none.                       *)
TrackedInv(r) ==
  \A k \in Role : database[<<r, k>>] = "there" =>
    \/ OnClone(r) /\ k \in ToSet(clone[r].tracked)
    \/ clone[r].at = "lost"
    \/ clone[r].at = "done" /\ ~clone[r].destroyed

(* What is told of an EXPLAIN ANALYZE, now and from now on. *)
SourceQuiet(r) == post[r] # "source" /\ ~OnSource(r)

True(r, told) ==
  /\ Kind(r) = "explain" =>
       /\ told.executed = "no" => SourceQuiet(r) /\ r \notin ran
       /\ told.rolledBack = "yes" => SourceQuiet(r) /\ r \notin open
       /\ told.status = "RUNTIME_VALIDATED" => r \in ran /\ told.rolledBack = "yes"
  /\ Kind(r) = "query" /\ told.destroyed => clone[r].at = "done" /\ clone[r].destroyed

TruthInv(r) ==
  /\ call[r].at = "idle" => reply[r] = {}
  /\ \A m \in reply[r] : True(r, m.told)
  /\ call[r].at = "answered" => True(r, call[r].answer)

RequestInv(r) == SourceInv(r) /\ CloneInv(r) /\ TrackedInv(r) /\ TruthInv(r)

IInv == TypeOK /\ SlotInv /\ LineInv /\ \A r \in Request : RequestInv(r)
-----------------------------------------------------------------------------
LEMMA ToldType ==
  ASSUME NEW status \in Status, NEW executed \in Claim, NEW rolledBack \in Claim,
         NEW ddl \in BOOLEAN, NEW destroyed \in BOOLEAN
  PROVE  Told(status, executed, rolledBack, ddl, destroyed) \in Answers
BY DEF Told, Answers

LEMMA MailType ==
  /\ {} \in Mail
  /\ \A service \in Service, told \in Answers :
       {[from |-> service, told |-> told]} \in Mail
BY DEF Mail

LEMMA InitType == Init => TypeOK
<1> SUFFICES ASSUME Init PROVE TypeOK
  OBVIOUS
<1>1. NoAnswer \in Answers
  BY ToldType DEF NoAnswer, Status, Claim
<1>2. RequestType
  BY <1>1, MailType, RequestAssumption DEF Init, RequestInit, RequestType, Calls, Service
<1>3. SourceType
  BY DEF Init, SourceInit, SourceType, SourceJobs, NoSourceJob, Status
<1>4. CloneType
  <2>1. NoCloneJob \in CloneJobs
    BY DEF NoCloneJob, CloneJobs, Status
  <2> QED BY <2>1 DEF Init, CloneInit, CloneType
<1> QED BY <1>2, <1>3, <1>4 DEF TypeOK

LEMMA UnreachedType ==
  \A kind, service : Unreached(kind, service) \in Answers
BY ToldType DEF Unreached, Status, Claim

(* A field of one call changes, and the call is still one. *)
LEMMA AnswerType ==
  ASSUME TypeOK, NEW r \in Request, NEW told \in Answers, Answer(r, told)
  PROVE  call' \in [Request -> Calls]
<1>1. call[r] \in Calls
  BY DEF TypeOK, RequestType
<1>2. [call[r] EXCEPT !.at = "answered", !.answer = told] \in Calls
  BY <1>1 DEF Calls
<1>3. call' = [call EXCEPT ![r] = [call[r] EXCEPT !.at = "answered", !.answer = told]]
  BY DEF Answer, TypeOK, RequestType
<1> QED BY <1>2, <1>3 DEF TypeOK, RequestType

LEMMA RejectedType == Told("REJECTED", "no", "no", FALSE, TRUE) \in Answers
BY ToldType DEF Status, Claim

LEMMA ApiType ==
  ASSUME TypeOK, ApiNext, UNCHANGED <<sourceVars, cloneVars>>
  PROVE  TypeOK'
<1>1. SourceType' /\ CloneType'
  BY DEF TypeOK, SourceType, CloneType, sourceVars, cloneVars
<1>2. RequestType'
  <2> SUFFICES ASSUME NEW r \in Request,
                      \/ \E kind \in Kinds[r] : Ask(r, kind)
                      \/ Receive(r) \/ Unreachable(r)
               PROVE  RequestType'
    BY DEF ApiNext
  <2>0. call[r] \in Calls
    BY DEF TypeOK, RequestType
  <2>1. ASSUME NEW kind \in Kinds[r], Refuse(r, kind) PROVE RequestType'
    <3>1. [call[r] EXCEPT !.at = "answered", !.kind = kind,
             !.answer = Told("REJECTED", "no", "no", FALSE, TRUE)] \in Calls
      BY <2>0, <2>1, RejectedType DEF Refuse, Calls
    <3>2. call' \in [Request -> Calls]
      BY <2>1, <3>1 DEF Refuse, TypeOK, RequestType
    <3> QED BY <2>1, <3>2 DEF Refuse, TypeOK, RequestType
  <2>2. ASSUME NEW kind \in Kinds[r], NEW query \in {"plain", "locking", "refused"},
               NEW stale \in BOOLEAN, Resolve(r, kind, query, stale)
        PROVE  RequestType'
    <3> DEFINE service == IF kind \in {"query", "health"} THEN "clone" ELSE "source"
    <3>1. kind \in {"explain", "advice", "runtime", "query", "health"}
      BY RequestAssumption
    <3>2. [call[r] EXCEPT !.at = service, !.kind = kind,
                          !.query = query, !.stale = stale] \in Calls
      BY <2>0, <3>1 DEF Calls
    <3>3. call' \in [Request -> Calls]
      BY <2>2, <3>2 DEF Resolve, TypeOK, RequestType
    <3>4. post' = [post EXCEPT ![r] = service] /\ service \in Service \cup {"none"}
      BY <2>2 DEF Resolve, Service
    <3>5. post' \in [Request -> Service \cup {"none"}]
      BY <3>4 DEF TypeOK, RequestType
    <3> QED BY <2>2, <3>3, <3>5 DEF Resolve, TypeOK, RequestType
  <2>3. CASE Receive(r)
    <3>1. PICK m \in reply[r] :
            /\ AskClone(r) \/ PlannerRequired(r) \/ (Answer(r, m.told) /\ UNCHANGED post)
            /\ reply' = [reply EXCEPT ![r] = {}]
            /\ UNCHANGED faults
      BY <2>3 DEF Receive
    <3>2. reply' \in [Request -> Mail] /\ faults' \in Nat
      BY <3>1, MailType DEF TypeOK, RequestType
    <3>3. CASE AskClone(r)
      <4>1. [call[r] EXCEPT !.at = "clone", !.planned = TRUE] \in Calls
        BY <2>0 DEF Calls
      <4>2. call' \in [Request -> Calls]
        BY <3>3, <4>1 DEF AskClone, TypeOK, RequestType
      <4>3. post' \in [Request -> Service \cup {"none"}]
        BY <3>3 DEF AskClone, TypeOK, RequestType, Service
      <4> QED BY <3>2, <4>2, <4>3 DEF RequestType
    <3>4. CASE PlannerRequired(r)
      <4>1. call' \in [Request -> Calls]
        BY <3>4, RejectedType, AnswerType DEF PlannerRequired
      <4> QED BY <3>2, <3>4, <4>1 DEF PlannerRequired, TypeOK, RequestType
    <3>5. CASE Answer(r, m.told) /\ UNCHANGED post
      <4>1. m.told \in Answers
        BY DEF TypeOK, RequestType, Mail
      <4>2. call' \in [Request -> Calls]
        BY <3>5, <4>1, AnswerType
      <4> QED BY <3>2, <3>5, <4>2 DEF TypeOK, RequestType
    <3> QED BY <3>1, <3>3, <3>4, <3>5
  <2>4. CASE Unreachable(r)
    <3>1. call' \in [Request -> Calls]
      BY <2>4, UnreachedType, AnswerType DEF Unreachable
    <3> QED BY <2>4, <3>1 DEF Unreachable, TypeOK, RequestType
  <2> QED BY <2>1, <2>2, <2>3, <2>4 DEF Ask
<1> QED BY <1>1, <1>2 DEF TypeOK

-----------------------------------------------------------------------------
(* The steps of the source evaluator keep the types. *)
SourcePlace == {"none", "gate", "guard", "plan", "preflight", "analyze",
                "closing", "done", "lost"}

LEMMA SourceJobType ==
  ASSUME TypeOK, NEW r \in Request, NEW status \in Status, NEW place \in SourcePlace
  PROVE  /\ Goto(r, place) => source' \in [Request -> SourceJobs]
         /\ Leave(r, status) => source' \in [Request -> SourceJobs]
<1>1. source[r] \in SourceJobs
  BY DEF TypeOK, SourceType
<1>2. [source[r] EXCEPT !.at = place] \in SourceJobs
  BY <1>1 DEF SourceJobs, SourcePlace
<1>3. [source[r] EXCEPT !.at = "closing", !.status = status] \in SourceJobs
  BY <1>1 DEF SourceJobs
<1>4. ASSUME Goto(r, place) PROVE source' \in [Request -> SourceJobs]
  BY <1>2, <1>4 DEF Goto, TypeOK, SourceType
<1>5. ASSUME Leave(r, status) PROVE source' \in [Request -> SourceJobs]
  BY <1>3, <1>5 DEF Leave, TypeOK, SourceType
<1> QED BY <1>4, <1>5

LEMMA FaultType == TypeOK /\ Fault => faults' \in Nat
BY DEF TypeOK, RequestType, Fault

LEMMA EndedType == \A how \in SourcePlace : Ended(how) \in SourceJobs
BY DEF Ended, NoSourceJob, SourceJobs, SourcePlace, Status

LEMMA RespondType ==
  ASSUME TypeOK, NEW r \in Request, NEW service \in Service, NEW told \in Answers,
         Respond(r, service, told)
  PROVE  reply' \in [Request -> Mail]
BY MailType DEF Respond, TypeOK, RequestType

LEMMA SourceResultType ==
  ASSUME TypeOK, NEW r \in Request, NEW rolledBack \in BOOLEAN
  PROVE  SourceResult(r, rolledBack) \in Answers
<1>1. source[r].status \in Status /\ source[r].executed \in BOOLEAN
  BY DEF TypeOK, SourceType, SourceJobs
<1>2. \A b \in BOOLEAN : Yes(b) \in Claim
  BY DEF Yes, Claim
<1>3. CASE call[r].kind # "explain"
  <2>1. Told(source[r].status, "no", "no", FALSE, TRUE) \in Answers
    BY <1>1, ToldType DEF Claim
  <2> QED BY <1>3, <2>1 DEF SourceResult
<1>4. CASE call[r].kind = "explain"
  <2> DEFINE status == IF source[r].status = "RUNTIME_VALIDATED" /\ ~rolledBack
                       THEN "REJECTED" ELSE source[r].status
  <2>1. status \in Status
    BY <1>1 DEF Status
  <2> HIDE DEF status
  <2>2. Told(status, Yes(source[r].executed), Yes(rolledBack), FALSE, TRUE) \in Answers
    BY <1>1, <1>2, <2>1, ToldType
  <2> QED BY <1>4, <2>2 DEF SourceResult, status
<1> QED BY <1>3, <1>4

LEMMA SourceNextType ==
  ASSUME TypeOK, SourceNext, UNCHANGED cloneVars
  PROVE  TypeOK'
<1>1. CloneType'
  BY DEF TypeOK, CloneType, cloneVars
<1>2. ASSUME NEW r \in Request, AdmitSource(r) PROVE RequestType' /\ SourceType'
  <2>1. Goto(r, "gate") => source' \in [Request -> SourceJobs]
    BY SourceJobType DEF SourcePlace, Status
  <2>2. source' \in [Request -> SourceJobs] /\ free' \in BOOLEAN
    BY <1>2, <2>1 DEF AdmitSource, TypeOK, SourceType
  <2>3. reply' \in [Request -> Mail]
    <3>1. Respond(r, "source", Told("REJECTED", "no", "no", FALSE, TRUE))
            => reply' \in [Request -> Mail]
      BY RespondType, RejectedType DEF Service
    <3> QED BY <1>2, <3>1 DEF AdmitSource, TypeOK, RequestType
  <2>4. post' \in [Request -> Service \cup {"none"}]
    BY <1>2 DEF AdmitSource, TypeOK, RequestType
  <2> QED BY <1>2, <2>2, <2>3, <2>4 DEF AdmitSource, TypeOK, RequestType, SourceType
<1>3. ASSUME NEW r \in Request,
             \/ SourceBegin(r) \/ SourceGuard(r) \/ HypotheticalPlan(r)
             \/ SourcePreflight(r) \/ SourceAnalyze(r) \/ SourceFails(r)
      PROVE  RequestType' /\ SourceType'
  <2>1. source' \in [Request -> SourceJobs]
    <3>0. source[r] \in SourceJobs
      BY DEF TypeOK, SourceType
    <3>1. \A place \in SourcePlace : Goto(r, place) => source' \in [Request -> SourceJobs]
      BY SourceJobType DEF Status
    <3>2. \A status \in Status : Leave(r, status) => source' \in [Request -> SourceJobs]
      BY SourceJobType DEF SourcePlace
    <3>3. [source[r] EXCEPT !.at = "guard", !.started = TRUE] \in SourceJobs
      BY <3>0 DEF SourceJobs
    <3>4. [source[r] EXCEPT !.at = "analyze", !.executed = TRUE] \in SourceJobs
      BY <3>0 DEF SourceJobs
    <3>5. CASE SourceBegin(r)
      <4>1. Leave(r, "REJECTED") => source' \in [Request -> SourceJobs]
        BY <3>2 DEF Status
      <4> QED BY <3>3, <3>5, <4>1 DEF SourceBegin, TypeOK, SourceType
    <3>6. CASE SourceGuard(r)
      BY <3>1, <3>2, <3>6 DEF SourceGuard, SourcePlace, Status
    <3>7. CASE HypotheticalPlan(r)
      BY <3>2, <3>7 DEF HypotheticalPlan, Status
    <3>8. CASE SourcePreflight(r)
      <4>1. Leave(r, "REJECTED") => source' \in [Request -> SourceJobs]
        BY <3>2 DEF Status
      <4> QED BY <3>4, <3>8, <4>1 DEF SourcePreflight, TypeOK, SourceType
    <3>9. CASE SourceAnalyze(r)
      BY <3>2, <3>9 DEF SourceAnalyze, Status
    <3>10. CASE SourceFails(r)
      BY <3>2, <3>10 DEF SourceFails, Status
    <3> QED BY <1>3, <3>5, <3>6, <3>7, <3>8, <3>9, <3>10
  <2>2. UNCHANGED requestVars /\ faults' \in Nat
    BY <1>3 DEF SourceBegin, SourceGuard, HypotheticalPlan, SourcePreflight,
         SourceAnalyze, SourceFails, Fault, TypeOK, RequestType
  <2>3. free' \in BOOLEAN /\ open' \in SUBSET Request /\ ran' \in SUBSET Request
    BY <1>3 DEF SourceBegin, SourceGuard, HypotheticalPlan, SourcePreflight,
         SourceAnalyze, SourceFails, TypeOK, SourceType
  <2>4. RequestType'
    BY <2>2 DEF TypeOK, RequestType, requestVars
  <2>5. SourceType'
    BY <2>1, <2>3 DEF SourceType
  <2> QED BY <2>4, <2>5
<1>4. ASSUME NEW r \in Request, Rollback(r) PROVE RequestType' /\ SourceType'
  <2>1. reply' \in [Request -> Mail]
    <3>1. \A b \in BOOLEAN : Respond(r, "source", SourceResult(r, b))
                                 => reply' \in [Request -> Mail]
      BY RespondType, SourceResultType DEF Service
    <3>2. source[r].started \in BOOLEAN
      BY DEF TypeOK, SourceType, SourceJobs
    <3> QED BY <1>4, <3>1, <3>2 DEF Rollback
  <2>2. source' \in [Request -> SourceJobs]
    BY <1>4, EndedType DEF Rollback, SourcePlace, TypeOK, SourceType
  <2>3. faults' \in Nat
    BY <1>4, FaultType DEF Rollback, TypeOK, RequestType
  <2>4. RequestType'
    BY <1>4, <2>1, <2>3 DEF Rollback, TypeOK, RequestType
  <2>5. free' \in BOOLEAN /\ open' \in SUBSET Request /\ ran' \in SUBSET Request
    BY <1>4 DEF Rollback, TypeOK, SourceType
  <2> QED BY <2>2, <2>4, <2>5 DEF SourceType
<1>5. ASSUME NEW r \in Request, SourceAborts(r) PROVE RequestType' /\ SourceType'
  BY <1>5 DEF SourceAborts, TypeOK, RequestType, SourceType, requestVars
<1>6. ASSUME SourceRestart PROVE RequestType' /\ SourceType'
  <2>1. source' \in [Request -> SourceJobs]
    BY <1>6, EndedType DEF SourceRestart, SourcePlace, TypeOK, SourceType
  <2> QED BY <1>6, <2>1 DEF SourceRestart, Fault, TypeOK, RequestType, SourceType, requestVars
<1> QED BY <1>1, <1>2, <1>3, <1>4, <1>5, <1>6 DEF SourceNext, SourceStep, TypeOK

-----------------------------------------------------------------------------
(* The steps of the clone evaluator keep the types. *)
LEMMA CloneJobType ==
  ASSUME TypeOK, NEW r \in Request, NEW status \in Status
  PROVE  Stop(r, status) => clone' \in [Request -> CloneJobs]
<1>1. clone[r] \in CloneJobs
  BY DEF TypeOK, CloneType
<1>2. [clone[r] EXCEPT !.at = "drop", !.status = status] \in CloneJobs
  BY <1>1 DEF CloneJobs
<1> QED BY <1>2 DEF Stop, TypeOK, CloneType

LEMMA OverType ==
  ASSUME TypeOK, NEW r \in Request, NEW how \in {"done", "lost"}, NEW destroyed \in BOOLEAN
  PROVE  Over(r, how, destroyed) \in CloneJobs
<1>1. clone[r].status \in Status /\ clone[r].runs \in Nat /\ clone[r].used \in BOOLEAN
  BY DEF TypeOK, CloneType, CloneJobs
<1> DEFINE runs == IF clone[r].status = "RUNTIME_VALIDATED" THEN clone[r].runs ELSE 0
           used == clone[r].status = "RUNTIME_VALIDATED" => clone[r].used
<1>2. runs \in Nat /\ used \in BOOLEAN
  BY <1>1
<1>3. Over(r, how, destroyed) =
        [NoCloneJob EXCEPT !.at = how, !.destroyed = destroyed, !.runs = runs, !.used = used]
  BY DEF Over
<1>4. NoCloneJob \in CloneJobs
  BY DEF NoCloneJob, CloneJobs, Status
<1> HIDE DEF runs, used
<1> QED BY <1>2, <1>3, <1>4 DEF CloneJobs

LEMMA TrackType ==
  ASSUME TypeOK, NEW r \in Request, clone[r].role \in Role
  PROVE  Track(r) \in Seq(Role)
BY DEF Track, TypeOK, CloneType, CloneJobs

LEMMA CloneResultType ==
  ASSUME TypeOK, NEW r \in Request, NEW destroyed \in BOOLEAN
  PROVE  CloneResult(r, destroyed) \in Answers
<1>1. clone[r].status \in Status /\ clone[r].ddl \in BOOLEAN
  BY DEF TypeOK, CloneType, CloneJobs
<1> DEFINE status == IF destroyed THEN clone[r].status ELSE "REJECTED"
<1>2. status \in Status
  BY <1>1 DEF Status
<1> HIDE DEF status
<1>3. Told(status, "no", "no", clone[r].ddl, destroyed) \in Answers
  BY <1>1, <1>2, ToldType DEF Claim
<1> QED BY <1>3 DEF CloneResult, status

(* The role of a job is known when it makes a database. *)
LEMMA RoleKnown ==
  ASSUME IInv, NEW r \in Request, At(r, "create")
  PROVE  clone[r].role \in Role
BY DEF IInv, RequestInv, CloneInv, At

LEMMA CloneNextJobs ==
  ASSUME IInv, CloneNext, UNCHANGED sourceVars
  PROVE  clone' \in [Request -> CloneJobs]
<1> USE DEF CloneData, CloneGoto, At
<1>0. TypeOK /\ clone \in [Request -> CloneJobs]
  BY DEF IInv, TypeOK, CloneType
<1> SUFFICES ASSUME CloneNext, ~CloneRestart, clone' # clone
             PROVE  clone' \in [Request -> CloneJobs]
  <2>1. ASSUME CloneRestart PROVE clone' \in [Request -> CloneJobs]
    BY <1>0, <2>1, OverType DEF CloneRestart
  <2> QED BY <1>0, <2>1
<1>1. PICK r \in Request : AdmitClone(r) \/ CloneStep(r) \/ CreateDatabaseLost(r)
                           \/ CloneFails(r)
  BY DEF CloneNext, CreateEnds
<1>2. clone[r] \in CloneJobs
  BY <1>0
<1>3. \A status \in Status : Stop(r, status) => clone' \in [Request -> CloneJobs]
  BY <1>0, CloneJobType
<1>4. {"REJECTED", "RUNTIME_VALIDATED", "HEALTHY"} \subseteq Status
  BY DEF Status
<1>5. CASE AdmitClone(r)
  <2>1. [clone[r] EXCEPT !.at = "queued"] \in CloneJobs
    BY <1>2 DEF CloneJobs
  <2> QED BY <1>0, <1>5, <2>1 DEF AdmitClone
<1>6. CASE CloneGate(r)
  <2>1. \A k \in {"query", "base"} :
          [clone[r] EXCEPT !.at = "create", !.role = k] \in CloneJobs
    BY <1>2 DEF CloneJobs, Role
  <2> QED BY <1>0, <1>3, <1>4, <1>6, <2>1 DEF CloneGate
<1>7. CASE CreateDatabase(r)
  <2>1. clone[r].role \in Role /\ Track(r) \in Seq(Role)
    BY <1>0, <1>7, RoleKnown, TrackType DEF CreateDatabase
  <2>2. \A place \in {"preflight", "index", "explain"} :
          [clone[r] EXCEPT !.tracked = Track(r), !.at = place] \in CloneJobs
    BY <1>2, <2>1 DEF CloneJobs
  <2>3. \E place \in {"preflight", "index", "explain"} :
          clone' = [clone EXCEPT ![r].tracked = Track(r), ![r].at = place]
    BY <1>7, <2>1 DEF CreateDatabase, Role
  <2> QED BY <1>0, <2>2, <2>3
<1>8. CASE PreflightBaseline(r)
  <2>1. [clone[r] EXCEPT !.at = "create", !.role = "cand"] \in CloneJobs
    BY <1>2 DEF CloneJobs, Role
  <2> QED BY <1>0, <1>3, <1>4, <1>8, <2>1 DEF PreflightBaseline
<1>9. CASE CreateCandidateIndex(r)
  <2>1. [clone[r] EXCEPT !.at = "measure", !.ddl = TRUE] \in CloneJobs
    BY <1>2 DEF CloneJobs
  <2> QED BY <1>0, <1>3, <1>4, <1>9, <2>1 DEF CreateCandidateIndex
<1>10. CASE Measure(r)
  <2>1. CASE Stop(r, "REJECTED")
    BY <1>3, <1>4, <2>1
  <2>2. CASE ~Stop(r, "REJECTED")
    <3> DEFINE job(used) == [clone[r] EXCEPT !.runs = @ + 1, !.used = @ /\ used]
    <3>1. PICK used \in BOOLEAN :
            \/ clone' = [clone EXCEPT ![r] = job(used)]
            \/ \E status \in {"REJECTED", "RUNTIME_VALIDATED"} :
                 clone' = [clone EXCEPT ![r] = [job(used) EXCEPT !.at = "drop",
                                                               !.status = status]]
      BY <1>10, <2>2 DEF Measure
    <3>2. clone[r].runs + 1 \in Nat /\ (clone[r].used /\ used) \in BOOLEAN
      BY <1>2 DEF CloneJobs
    <3>3. job(used) \in CloneJobs
      BY <1>2, <3>2 DEF CloneJobs
    <3>4. \A status \in Status :
            [job(used) EXCEPT !.at = "drop", !.status = status] \in CloneJobs
      <4> HIDE DEF job
      <4> QED BY <3>3 DEF CloneJobs
    <3> HIDE DEF job
    <3> QED BY <1>0, <1>4, <3>1, <3>3, <3>4
  <2> QED BY <2>1, <2>2
<1>11. CASE ExplainQuery(r)
  BY <1>3, <1>4, <1>11 DEF ExplainQuery
<1>12. CASE DropDatabase(r)
  <2>1. clone[r].tried + 1 \in Nat
    BY <1>2 DEF CloneJobs
  <2>2. [clone[r] EXCEPT !.tried = clone[r].tried + 1] \in CloneJobs
    BY <1>2, <2>1 DEF CloneJobs
  <2>3. [clone[r] EXCEPT !.tried = clone[r].tried + 1, !.clean = FALSE] \in CloneJobs
    BY <1>2, <2>1 DEF CloneJobs
  <2>4. \/ clone' = [clone EXCEPT ![r] = [clone[r] EXCEPT !.tried = clone[r].tried + 1]]
        \/ clone' = [clone EXCEPT ![r] = [clone[r] EXCEPT !.tried = clone[r].tried + 1,
                                                         !.clean = FALSE]]
    BY <1>0, <1>12 DEF DropDatabase
  <2> QED BY <1>0, <2>2, <2>3, <2>4
<1>13. CASE Recount(r)
  BY <1>0, <1>13, OverType DEF Recount
<1>14. CASE CreateDatabaseLost(r)
  <2>1. clone[r].role \in Role /\ Track(r) \in Seq(Role)
    BY <1>0, <1>14, RoleKnown, TrackType DEF CreateDatabaseLost
  <2>2. [clone[r] EXCEPT !.at = "drop", !.status = "REJECTED",
                         !.tracked = Track(r)] \in CloneJobs
    BY <1>2, <1>4, <2>1 DEF CloneJobs
  <2> QED BY <1>0, <1>3, <1>4, <1>14, <2>2 DEF CreateDatabaseLost
<1>15. CASE CloneFails(r)
  BY <1>3, <1>4, <1>15 DEF CloneFails
<1> QED BY <1>1, <1>5, <1>6, <1>7, <1>8, <1>9, <1>10, <1>11, <1>12, <1>13, <1>14, <1>15
        DEF CloneStep

(* A step of one job leaves the jobs of other requests alone. *)
CloneJobStep(r) ==
  AdmitClone(r) \/ CloneStep(r) \/ CreateDatabaseLost(r) \/ CloneFails(r)

LEMMA OtherJobs ==
  ASSUME TypeOK, NEW r \in Request, CloneJobStep(r)
  PROVE  \A s \in Request : s # r => clone'[s] = clone[s]
<1> USE DEF TypeOK, CloneType, CloneData, CloneGoto, Stop
<1>1. CASE AdmitClone(r) \/ CloneGate(r) \/ CreateDatabase(r) \/ PreflightBaseline(r)
  BY <1>1 DEF AdmitClone, CloneGate, CreateDatabase, PreflightBaseline
<1>2. CASE CreateCandidateIndex(r) \/ ExplainQuery(r) \/ DropDatabase(r) \/ Recount(r)
  BY <1>2 DEF CreateCandidateIndex, ExplainQuery, DropDatabase, Recount
<1>3. CASE Measure(r)
  BY <1>3 DEF Measure
<1>4. CASE CreateDatabaseLost(r) \/ CloneFails(r)
  BY <1>4 DEF CreateDatabaseLost, CloneFails
<1> QED BY <1>1, <1>2, <1>3, <1>4 DEF CloneJobStep, CloneStep

(* The first in line works; a new one is put behind; when the work is over *)
(* the next one is first.                                                  *)
LEMMA CloneLine ==
  ASSUME IInv, CloneNext, UNCHANGED sourceVars
  PROVE  line' \in Seq(Request) /\ LineInv'
<1>0. TypeOK /\ LineInv /\ line \in Seq(Request)
  BY DEF IInv, TypeOK, CloneType
<1>1. CASE CloneRestart
  <2>1. \A r \in Request : ~OnClone(r)'
    BY <1>1 DEF CloneRestart, OnClone, Over, NoCloneJob
  <2> QED BY <1>1, <2>1 DEF CloneRestart, LineInv
<1>2. ASSUME NEW d \in JobDatabase, CreateEnds(d)
      PROVE  line' \in Seq(Request) /\ LineInv'
  BY <1>0, <1>2 DEF CreateEnds, LineInv, OnClone
<1>3. ASSUME NEW r \in Request, CloneJobStep(r)
      PROVE  line' \in Seq(Request) /\ LineInv'
  <2>0. \A s \in Request : s # r => clone'[s] = clone[s]
    BY <1>0, <1>3, OtherJobs
  <2>1. CASE AdmitClone(r)
    <3>1. CASE UNCHANGED <<line, clone>>
      BY <1>0, <3>1 DEF LineInv, OnClone
    <3>2. CASE line' = Append(line, r) /\ CloneGoto(r, "queued")
      <4>1. clone'[r].at = "queued"
        BY <1>0, <3>2 DEF CloneGoto, TypeOK, CloneType, CloneJobs
      <4>2. line'[Len(line')] = r /\ Len(line') \in 1..Len(line')
        BY <1>0, <3>2
      <4>3. \A i \in 1..Len(line) : line'[i] = line[i] /\ i \in 1..Len(line')
        BY <1>0, <3>2
      <4>4. \A s \in Request : OnClone(s) => 1 \in 1..Len(line)
        BY <1>0 DEF LineInv
      <4>5. ASSUME NEW s \in Request, OnClone(s)'
            PROVE  /\ \E i \in 1..Len(line') : line'[i] = s
                   /\ clone'[s].at # "queued" => line'[1] = s
        <5>1. CASE s = r
          BY <4>1, <4>2, <5>1
        <5>2. CASE s # r
          <6>1. clone'[s] = clone[s] /\ OnClone(s)
            BY <2>0, <4>5, <5>2 DEF OnClone
          <6> QED BY <1>0, <4>3, <4>4, <6>1 DEF LineInv
        <5> QED BY <5>1, <5>2
      <4> QED BY <1>0, <3>2, <4>5 DEF LineInv
    <3> QED BY <2>1, <3>1, <3>2 DEF AdmitClone
  <2>2. CASE Recount(r)
    <3>1. line[1] = r /\ Len(line) \in Nat \ {0}
      BY <1>0, <2>2 DEF Recount, At, OnClone, LineInv
    <3>2. line' = Tail(line) /\ line' \in Seq(Request) /\ Len(line') = Len(line) - 1
      BY <1>0, <2>2, <3>1 DEF Recount
    <3>3. \A i \in 1..Len(line') : line'[i] = line[i + 1]
      BY <1>0, <3>1, <3>2
    <3>4. ~OnClone(r)'
      BY <1>0, <2>2 DEF Recount, OnClone, Over, NoCloneJob, TypeOK, CloneType
    <3>5. ASSUME NEW s \in Request, OnClone(s)'
          PROVE  /\ \E i \in 1..Len(line') : line'[i] = s
                 /\ clone'[s].at # "queued" => line'[1] = s
      <4>1. s # r /\ clone'[s] = clone[s] /\ OnClone(s)
        BY <2>0, <3>4, <3>5 DEF OnClone
      <4>2. clone[s].at = "queued"
        BY <1>0, <3>1, <4>1 DEF LineInv
      <4>3. PICK i \in 1..Len(line) : line[i] = s
        BY <1>0, <4>1 DEF LineInv
      <4>4. i - 1 \in 1..Len(line') /\ line'[i - 1] = s
        BY <3>1, <3>2, <3>3, <4>1, <4>3
      <4> QED BY <4>1, <4>2, <4>4
    <3> QED BY <3>2, <3>5 DEF LineInv
  <2>3. CASE ~AdmitClone(r) /\ ~Recount(r)
    <3>1. UNCHANGED line /\ OnClone(r)
      BY <1>3, <2>3 DEF CloneJobStep, CloneStep, CloneGate, CreateDatabase, PreflightBaseline,
           CreateCandidateIndex, Measure, ExplainQuery, DropDatabase, CreateDatabaseLost,
           CloneFails, At, OnClone
    <3>2. line[1] = r
      <4>1. clone[r].at = "queued" => Head(line) = r
        BY <1>3, <2>3 DEF CloneJobStep, CloneStep, CloneGate, CreateDatabase, PreflightBaseline,
             CreateCandidateIndex, Measure, ExplainQuery, DropDatabase, CreateDatabaseLost,
             CloneFails, At
      <4>2. Len(line) \in Nat \ {0}
        BY <1>0, <3>1 DEF LineInv
      <4> QED BY <1>0, <3>1, <4>1, <4>2 DEF LineInv
    <3>3. ASSUME NEW s \in Request, OnClone(s)'
          PROVE  /\ \E i \in 1..Len(line') : line'[i] = s
                 /\ clone'[s].at # "queued" => line'[1] = s
      BY <1>0, <2>0, <3>1, <3>2, <3>3 DEF LineInv, OnClone
    <3> QED BY <1>0, <3>1, <3>3 DEF LineInv
  <2> QED BY <2>1, <2>2, <2>3
<1> QED BY <1>1, <1>2, <1>3 DEF CloneNext, CloneJobStep

LEMMA CloneNextType ==
  ASSUME IInv, CloneNext, UNCHANGED sourceVars
  PROVE  TypeOK'
<1> USE DEF CloneData, At
<1>0. TypeOK
  BY DEF IInv
<1>1. SourceType'
  BY <1>0 DEF TypeOK, SourceType, sourceVars
<1>2. RequestType'
  <2>1. \A r \in Request, told \in Answers :
          Respond(r, "clone", told) => reply' \in [Request -> Mail]
    BY <1>0, RespondType DEF Service
  <2>2. CASE \E r \in Request : AdmitClone(r)
    <3>1. Told("BUSY", "no", "no", FALSE, TRUE) \in Answers
      BY ToldType DEF Status, Claim
    <3> QED BY <1>0, <2>1, <2>2, <3>1 DEF AdmitClone, TypeOK, RequestType
  <2>3. CASE \E r \in Request : Recount(r)
    <3>1. reply' \in [Request -> Mail]
      BY <1>0, <2>1, <2>3, CloneResultType DEF Recount
    <3>2. UNCHANGED <<call, post>> /\ faults' \in Nat
      BY <1>0, <2>3, FaultType DEF Recount, TypeOK, RequestType
    <3> QED BY <1>0, <3>1, <3>2 DEF TypeOK, RequestType
  <2>4. CASE ~(\E r \in Request : AdmitClone(r) \/ Recount(r))
    <3>1. UNCHANGED requestVars /\ (UNCHANGED faults \/ Fault)
      BY <2>4 DEF CloneNext, CloneStep, CloneGate, CreateDatabase, PreflightBaseline,
           CreateCandidateIndex, Measure, ExplainQuery, DropDatabase, CreateDatabaseLost,
           CloneFails, CreateEnds, CloneRestart
    <3> QED BY <1>0, <3>1, FaultType DEF requestVars, TypeOK, RequestType
  <2> QED BY <2>2, <2>3, <2>4
<1>3. /\ database' \in [JobDatabase -> {"none", "creating", "there", "late"}]
      /\ indexed' \in SUBSET JobDatabase /\ replayed' \in SUBSET Request
  <2> USE <1>0 DEF TypeOK, CloneType
  <2>1. ASSUME NEW r \in Request, CloneJobStep(r)
        PROVE  /\ database' \in [JobDatabase -> {"none", "creating", "there", "late"}]
               /\ indexed' \in SUBSET JobDatabase /\ replayed' \in SUBSET Request
    <3>1. CASE AdmitClone(r) \/ CloneGate(r) \/ PreflightBaseline(r) \/ Recount(r)
      BY <3>1 DEF AdmitClone, CloneGate, PreflightBaseline, Recount
    <3>2. CASE CreateDatabase(r)
      BY <3>2 DEF CreateDatabase
    <3>3. CASE CreateCandidateIndex(r) \/ CloneFails(r)
      <4>1. UNCHANGED <<database, replayed>>
        BY <3>3 DEF CreateCandidateIndex, CloneFails
      <4>2. indexed' = indexed \/ (indexed' = indexed \cup {<<r, clone[r].role>>}
                                   /\ clone[r].at = "index")
        BY <3>3 DEF CreateCandidateIndex, CloneFails
      <4>3. clone[r].at = "index" => clone[r].role \in Role
        BY DEF IInv, RequestInv, CloneInv, Role
      <4> QED BY <4>1, <4>2, <4>3 DEF JobDatabase
    <3>4. CASE Measure(r) \/ ExplainQuery(r)
      BY <3>4 DEF Measure, ExplainQuery
    <3>5. CASE DropDatabase(r)
      BY <3>5 DEF DropDatabase
    <3>6. CASE CreateDatabaseLost(r)
      BY <3>6 DEF CreateDatabaseLost
    <3> QED BY <2>1, <3>1, <3>2, <3>3, <3>4, <3>5, <3>6 DEF CloneJobStep, CloneStep
  <2>2. CASE CloneRestart
    BY <2>2 DEF CloneRestart
  <2>3. CASE \E d \in JobDatabase : CreateEnds(d)
    BY <2>3 DEF CreateEnds
  <2> QED BY <2>1, <2>2, <2>3 DEF CloneNext, CloneJobStep
<1>4. CloneType'
  BY <1>3, CloneLine, CloneNextJobs DEF CloneType
<1> QED BY <1>1, <1>2, <1>4 DEF TypeOK

-----------------------------------------------------------------------------
(* What a step leaves of a request: everything the invariant says of it    *)
(* stays.                                                                  *)
Same(s) ==
  /\ call'[s] = call[s] /\ post'[s] = post[s] /\ reply'[s] = reply[s]
  /\ source'[s] = source[s] /\ (s \in open' <=> s \in open) /\ (s \in ran' <=> s \in ran)
  /\ clone'[s] = clone[s] /\ (s \in replayed' <=> s \in replayed)
  /\ \A k \in Role : /\ database'[<<s, k>>] = database[<<s, k>>]
                     /\ <<s, k>> \in indexed' <=> <<s, k>> \in indexed

LEMMA SameKept ==
  ASSUME NEW s \in Request, RequestInv(s), Same(s)
  PROVE  RequestInv(s)'
<1>1. SourceInv(s)'
  BY DEF RequestInv, SourceInv, Same, Kind, PlanReadOnly, OnSource
<1>2. CloneInv(s)'
  BY DEF RequestInv, CloneInv, Same, Kind, PlanReadOnly
<1>3. TrackedInv(s)'
  BY DEF RequestInv, TrackedInv, Same, OnClone
<1>4. TruthInv(s)'
  BY DEF RequestInv, TruthInv, True, SourceQuiet, Same, Kind, OnSource
<1> QED BY <1>1, <1>2, <1>3, <1>4 DEF RequestInv

(* An answer says nothing of the services: it stays true of them. *)
LEMMA AnswerKeeps ==
  ASSUME IInv, NEW r \in Request, NEW told, Answer(r, told), True(r, told),
         call[r].at # "idle", UNCHANGED <<post, sourceVars, cloneVars>>,
         reply' = reply \/ reply' = [reply EXCEPT ![r] = {}]
  PROVE  \A s \in Request : RequestInv(s)'
<1>0. TypeOK /\ RequestInv(r)
  BY DEF IInv
<1>1. ASSUME NEW s \in Request, s # r PROVE RequestInv(s)'
  BY <1>1, SameKept DEF IInv, TypeOK, RequestType, Answer, Same, sourceVars, cloneVars
<1>2. /\ call'[r].at = "answered" /\ call'[r].answer = told /\ call'[r].kind = call[r].kind
      /\ call'[r].query = call[r].query /\ call'[r].stale = call[r].stale
  BY <1>0 DEF Answer, TypeOK, RequestType, Calls
<1>3. SourceInv(r)'
  BY <1>0, <1>2 DEF RequestInv, SourceInv, Kind, PlanReadOnly, OnSource, sourceVars
<1>4. CloneInv(r)'
  BY <1>0, <1>2 DEF RequestInv, CloneInv, Kind, PlanReadOnly, cloneVars
<1>5. TrackedInv(r)'
  BY <1>0 DEF RequestInv, TrackedInv, OnClone, cloneVars
<1>6. \A t : True(r, t) => True(r, t)'
  BY <1>2 DEF True, SourceQuiet, Kind, OnSource, sourceVars, cloneVars
<1>7. \A m \in reply'[r] : m \in reply[r]
  BY <1>0 DEF TypeOK, RequestType
<1>8. TruthInv(r)'
  BY <1>0, <1>2, <1>6, <1>7 DEF RequestInv, TruthInv
<1> QED BY <1>1, <1>3, <1>4, <1>5, <1>8 DEF RequestInv

LEMMA ApiKeeps ==
  ASSUME IInv, ApiNext, UNCHANGED <<sourceVars, cloneVars>>
  PROVE  \A s \in Request : RequestInv(s)'
<1>0. PICK r \in Request : (\E kind \in Kinds[r] : Ask(r, kind))
                           \/ Receive(r) \/ Unreachable(r)
  BY DEF ApiNext
<1>t. TypeOK /\ RequestInv(r) /\ call[r] \in Calls
  BY DEF IInv, TypeOK, RequestType
<1>1. ASSUME NEW kind \in Kinds[r], Refuse(r, kind) PROVE \A s \in Request : RequestInv(s)'
  <2>1. ASSUME NEW s \in Request, s # r PROVE RequestInv(s)'
    BY <1>1, <2>1, SameKept DEF IInv, TypeOK, RequestType, Refuse, Same, sourceVars, cloneVars
  <2>2. /\ call[r].at = "idle" /\ call'[r].at = "answered" /\ call'[r].kind # "query"
        /\ call'[r].answer = Told("REJECTED", "no", "no", FALSE, TRUE)
        /\ UNCHANGED <<post, reply>>
    BY <1>t, <1>1 DEF Refuse, TypeOK, RequestType, Calls
  <2>3. /\ post[r] = "none" /\ source[r].at = "none" /\ r \notin ran /\ r \notin open
        /\ source[r].status # "RUNTIME_VALIDATED"
    BY <1>t, <2>2 DEF RequestInv, SourceInv
  <2>4. /\ clone[r].at = "none" /\ clone[r] = NoCloneJob /\ r \notin replayed
        /\ \A k \in Role : <<r, k>> \notin indexed
    BY <1>t, <2>2 DEF RequestInv, CloneInv
  <2>5. SourceInv(r)'
    BY <2>2, <2>3 DEF SourceInv, OnSource, sourceVars
  <2>6. CloneInv(r)'
    BY <2>2, <2>3, <2>4 DEF CloneInv, cloneVars
  <2>7. TrackedInv(r)'
    BY <1>t DEF RequestInv, TrackedInv, OnClone, cloneVars
  <2>8. True(r, call[r].answer)'
    BY <2>2, <2>3 DEF True, SourceQuiet, Kind, OnSource, sourceVars, Told
  <2>9. TruthInv(r)'
    BY <1>t, <2>2, <2>8 DEF RequestInv, TruthInv
  <2> QED BY <2>1, <2>5, <2>6, <2>7, <2>9 DEF RequestInv
<1>2. ASSUME NEW kind \in Kinds[r], NEW query \in {"plain", "locking", "refused"},
             NEW stale \in BOOLEAN, Resolve(r, kind, query, stale)
      PROVE  \A s \in Request : RequestInv(s)'
  <2>0. kind \in {"explain", "advice", "runtime", "query", "health"}
    BY RequestAssumption
  <2>1. ASSUME NEW s \in Request, s # r PROVE RequestInv(s)'
    BY <1>2, <2>1, SameKept DEF IInv, TypeOK, RequestType, Resolve, Same, sourceVars, cloneVars
  <2>2. /\ call[r].at = "idle" /\ call'[r].kind = kind /\ UNCHANGED reply
        /\ call'[r].at = post'[r] /\ post'[r] \in Service
        /\ post'[r] = "clone" <=> kind \in {"query", "health"}
    BY <1>t, <1>2 DEF Resolve, TypeOK, RequestType, Calls, Service
  <2>3. /\ post[r] = "none" /\ source[r].at = "none" /\ r \notin ran /\ r \notin open
        /\ source[r].status # "RUNTIME_VALIDATED"
    BY <1>t, <2>2 DEF RequestInv, SourceInv
  <2>4. /\ clone[r].at = "none" /\ clone[r] = NoCloneJob /\ r \notin replayed
        /\ \A k \in Role : <<r, k>> \notin indexed
    BY <1>t, <2>2 DEF RequestInv, CloneInv
  <2>5. SourceInv(r)'
    BY <2>0, <2>2, <2>3 DEF SourceInv, OnSource, Kind, Service, sourceVars
  <2>6. CloneInv(r)'
    BY <2>0, <2>2, <2>3, <2>4 DEF CloneInv, Kind, Service, cloneVars
  <2>7. TrackedInv(r)'
    BY <1>t DEF RequestInv, TrackedInv, OnClone, cloneVars
  <2>8. TruthInv(r)'
    BY <1>t, <2>2 DEF RequestInv, TruthInv, Service
  <2> QED BY <2>1, <2>5, <2>6, <2>7, <2>8 DEF RequestInv
<1>3. CASE Receive(r)
  <2>1. PICK m \in reply[r] :
          /\ m.from = call[r].at
          /\ IF call[r].kind = "runtime" /\ m.from = "source"
             THEN AskClone(r) \/ PlannerRequired(r)
             ELSE Answer(r, m.told) /\ UNCHANGED post
          /\ reply' = [reply EXCEPT ![r] = {}]
    BY <1>3 DEF Receive
  <2>2. call[r].at # "idle"
    BY <1>3 DEF Receive
  <2>3. CASE Answer(r, m.told) /\ UNCHANGED post
    <3>1. True(r, m.told)
      BY <1>t DEF RequestInv, TruthInv
    <3> QED BY <2>1, <2>2, <2>3, <3>1, AnswerKeeps
  <2>4. CASE call[r].kind = "runtime" /\ PlannerRequired(r)
    <3>1. True(r, Told("REJECTED", "no", "no", FALSE, TRUE))
      BY <2>4 DEF True, Kind
    <3> QED BY <2>1, <2>2, <2>4, <3>1, AnswerKeeps DEF PlannerRequired
  <2>5. CASE call[r].kind = "runtime" /\ call[r].at = "source" /\ AskClone(r)
    <3>1. ASSUME NEW s \in Request, s # r PROVE RequestInv(s)'
      BY <2>1, <2>5, <3>1, SameKept
         DEF IInv, TypeOK, RequestType, AskClone, Same, sourceVars, cloneVars
    <3>2. /\ call'[r].at = "clone" /\ call'[r].kind = "runtime" /\ post'[r] = "clone"
          /\ call'[r].query = call[r].query /\ call'[r].stale = call[r].stale
          /\ reply'[r] = {}
      BY <1>t, <2>1, <2>5 DEF AskClone, TypeOK, RequestType, Calls
    <3>3. clone[r].at = "none"
      BY <1>t, <2>5 DEF RequestInv, CloneInv
    <3>4. SourceInv(r)'
      BY <1>t, <2>5, <3>2 DEF RequestInv, SourceInv, Kind, PlanReadOnly, OnSource, sourceVars
    <3>5. CloneInv(r)'
      BY <1>t, <2>5, <3>2, <3>3 DEF RequestInv, CloneInv, Kind, PlanReadOnly, cloneVars
    <3>6. TrackedInv(r)'
      BY <1>t DEF RequestInv, TrackedInv, OnClone, cloneVars
    <3>7. TruthInv(r)'
      BY <3>2 DEF TruthInv
    <3> QED BY <3>1, <3>4, <3>5, <3>6, <3>7 DEF RequestInv
  <2> QED BY <2>1, <2>3, <2>4, <2>5
<1>4. CASE Unreachable(r)
  <2>1. call[r].at # "idle"
    BY <1>4 DEF Unreachable
  <2>2. True(r, Unreached(call[r].kind, call[r].at))
    BY DEF True, Kind, Unreached, Told
  <2> QED BY <1>4, <2>1, <2>2, AnswerKeeps DEF Unreachable
<1> QED BY <1>0, <1>1, <1>2, <1>3, <1>4 DEF Ask

-----------------------------------------------------------------------------
(* While its thread lives or its request is on the way, nothing final was  *)
(* said of an operation on the source: whatever the thread does, what was  *)
(* told stays true.                                                        *)
LEMMA UnsettledKeeps ==
  ASSUME NEW r \in Request, ~SourceQuiet(r), UNCHANGED <<call, cloneVars>>,
         NEW told, True(r, told)
  PROVE  True(r, told)'
BY DEF True, Kind, cloneVars

SourceJobStep(r) ==
  \/ SourceBegin(r) \/ SourceGuard(r) \/ HypotheticalPlan(r)
  \/ SourcePreflight(r) \/ SourceAnalyze(r) \/ SourceFails(r)

LEMMA SourceJobKeeps ==
  ASSUME IInv, NEW r \in Request, SourceJobStep(r), UNCHANGED cloneVars
  PROVE  /\ \A s \in Request : RequestInv(s)'
         /\ \A s \in Request : OnSource(s)' <=> OnSource(s)
         /\ UNCHANGED free
<1> USE DEF Goto, Leave
<1>0. TypeOK /\ RequestInv(r) /\ source[r] \in SourceJobs
  BY DEF IInv, TypeOK, SourceType
<1>1. UNCHANGED <<requestVars, free>> /\ OnSource(r)
  BY DEF SourceJobStep, SourceBegin, SourceGuard, HypotheticalPlan, SourcePreflight,
     SourceAnalyze, SourceFails, OnSource
<1>2. ASSUME NEW s \in Request, s # r PROVE Same(s)
  <2>1. source'[s] = source[s]
    BY <1>0, <1>2 DEF TypeOK, SourceType, SourceJobStep, SourceBegin, SourceGuard,
       HypotheticalPlan, SourcePreflight, SourceAnalyze, SourceFails
  <2>2. (s \in open' <=> s \in open) /\ (s \in ran' <=> s \in ran)
    BY <1>2 DEF SourceJobStep, SourceBegin, SourceGuard,
       HypotheticalPlan, SourcePreflight, SourceAnalyze, SourceFails
  <2> QED BY <1>1, <2>1, <2>2 DEF Same, requestVars, cloneVars
<1>3. source'[r].at \in {"guard", "plan", "preflight", "analyze", "closing"}
  BY <1>0 DEF TypeOK, SourceType, SourceJobs, SourceJobStep, SourceBegin, SourceGuard,
     HypotheticalPlan, SourcePreflight, SourceAnalyze, SourceFails
<1>4. source'[r].at \in {"plan", "preflight"} =>
        UNCHANGED <<open, ran>> /\ source[r].at = "guard" /\ ~call[r].stale
  BY <1>0 DEF TypeOK, SourceType, SourceJobs, SourceJobStep, SourceBegin, SourceGuard,
     HypotheticalPlan, SourcePreflight, SourceAnalyze, SourceFails
<1>5. source'[r].at = "analyze" =>
        /\ UNCHANGED <<open, ran>> /\ source[r].at = "preflight"
        /\ PlanReadOnly(r) /\ source'[r].executed
  BY <1>0 DEF TypeOK, SourceType, SourceJobs, SourceJobStep, SourceBegin, SourceGuard,
     HypotheticalPlan, SourcePreflight, SourceAnalyze, SourceFails
<1>6. \/ UNCHANGED ran
      \/ source[r].at = "analyze" /\ source'[r].at = "closing" /\ ran' = ran \cup {r}
  BY <1>0 DEF TypeOK, SourceType, SourceJobs, SourceJobStep, SourceBegin, SourceGuard,
     HypotheticalPlan, SourcePreflight, SourceAnalyze, SourceFails
<1>7. source'[r].executed = source[r].executed \/ source[r].at = "preflight"
  BY <1>0 DEF TypeOK, SourceType, SourceJobs, SourceJobStep, SourceBegin, SourceGuard,
     HypotheticalPlan, SourcePreflight, SourceAnalyze, SourceFails
<1>8. source'[r].status = "RUNTIME_VALIDATED" =>
        source[r].status = "RUNTIME_VALIDATED" \/ r \in ran'
  BY <1>0 DEF TypeOK, SourceType, SourceJobs, SourceJobStep, SourceBegin, SourceGuard,
     HypotheticalPlan, SourcePreflight, SourceAnalyze, SourceFails
<1>9. source'[r].at = "guard" => UNCHANGED ran /\ source[r].at = "gate"
  BY <1>0 DEF TypeOK, SourceType, SourceJobs, SourceJobStep, SourceBegin, SourceGuard,
     HypotheticalPlan, SourcePreflight, SourceAnalyze, SourceFails
<1>10. source[r].at \in {"gate", "guard", "plan", "preflight", "analyze"}
  BY DEF SourceJobStep, SourceBegin, SourceGuard, HypotheticalPlan, SourcePreflight,
     SourceAnalyze, SourceFails
<1>11. Kind(r) \in {"explain", "advice", "runtime"} /\ post[r] # "source"
       /\ call[r].at # "idle" /\ r \notin ran
  BY <1>0, <1>10 DEF RequestInv, SourceInv
<1>12. SourceInv(r)'
  <2>1. UNCHANGED <<call, post>>
    BY <1>1 DEF requestVars
  <2>2. source'[r].at = "analyze" => PlanReadOnly(r) /\ source'[r].executed /\ ~call[r].stale
    BY <1>0, <1>5 DEF RequestInv, SourceInv
  <2>3. r \in ran' => /\ PlanReadOnly(r) /\ ~call[r].stale /\ source'[r].executed
                      /\ source'[r].at = "closing"
    BY <1>0, <1>6, <1>7, <1>11 DEF RequestInv, SourceInv
  <2>4. source'[r].status = "RUNTIME_VALIDATED" => r \in ran'
    BY <1>0, <1>8, <1>11 DEF RequestInv, SourceInv
  <2> QED BY <1>3, <1>4, <1>11, <2>1, <2>2, <2>3, <2>4
          DEF SourceInv, Kind, PlanReadOnly, OnSource
<1>13. CloneInv(r)'
  BY <1>0, <1>1 DEF RequestInv, CloneInv, Kind, PlanReadOnly, requestVars, cloneVars
<1>14. TrackedInv(r)'
  BY <1>0 DEF RequestInv, TrackedInv, OnClone, cloneVars
<1>15. TruthInv(r)'
  BY <1>0, <1>1, UnsettledKeeps DEF RequestInv, TruthInv, SourceQuiet, requestVars
<1>16. \A s \in Request : RequestInv(s)'
  BY <1>2, <1>12, <1>13, <1>14, <1>15, SameKept DEF RequestInv, IInv
<1>17. \A s \in Request : OnSource(s)' <=> OnSource(s)
  BY <1>1, <1>2, <1>3 DEF OnSource, Same
<1> QED BY <1>1, <1>16, <1>17

LEMMA AdmitSourceKeeps ==
  ASSUME IInv, NEW r \in Request, AdmitSource(r), UNCHANGED cloneVars
  PROVE  (\A s \in Request : RequestInv(s)') /\ SlotInv'
<1>0. TypeOK /\ RequestInv(r) /\ SlotInv
  BY DEF IInv
<1>1. ASSUME NEW s \in Request, s # r PROVE Same(s)
  BY <1>0, <1>1 DEF AdmitSource, Goto, Respond, TypeOK, RequestType, SourceType, Same, cloneVars
<1>2. /\ post[r] = "source" /\ post'[r] = "none" /\ UNCHANGED <<call, open, ran>>
  BY <1>0 DEF AdmitSource, TypeOK, RequestType
<1>3. /\ source[r].at = "none" /\ r \notin open /\ r \notin ran
      /\ source[r].status # "RUNTIME_VALIDATED"
      /\ call[r].at # "idle" /\ Kind(r) \in {"explain", "advice", "runtime"}
  BY <1>0, <1>2 DEF RequestInv, SourceInv
<1>4. \A told : True(r, told) => True(r, told)'
  BY <1>2, UnsettledKeeps DEF SourceQuiet, AdmitSource
<1>r. PICK t \in Answers : t = Told("REJECTED", "no", "no", FALSE, TRUE)
  BY RejectedType
<1>5. \/ /\ free /\ free' = FALSE /\ source'[r].at = "gate" /\ UNCHANGED reply
         /\ source'[r].status = source[r].status
      \/ /\ ~free /\ UNCHANGED <<free, source>>
         /\ reply'[r] = {[from |-> "source", told |-> t]}
  BY <1>0, <1>r DEF AdmitSource, Goto, Respond, TypeOK, RequestType, SourceType, SourceJobs
<1>6. SourceInv(r)'
  BY <1>2, <1>3, <1>5 DEF SourceInv, Kind, PlanReadOnly, OnSource
<1>7. CloneInv(r)'
  BY <1>0, <1>2 DEF RequestInv, CloneInv, Kind, PlanReadOnly, cloneVars
<1>8. TrackedInv(r)'
  BY <1>0 DEF RequestInv, TrackedInv, OnClone, cloneVars
<1>9. TruthInv(r)'
  <2>1. CASE UNCHANGED reply
    BY <1>0, <1>2, <1>4, <2>1 DEF RequestInv, TruthInv
  <2>2. CASE UNCHANGED source /\ reply'[r] = {[from |-> "source", told |-> t]}
    <3>1. SourceQuiet(r)' /\ r \notin ran' /\ Kind(r)' # "query"
      BY <1>2, <1>3, <2>2 DEF SourceQuiet, OnSource, Kind
    <3>3. t.rolledBack = "no" /\ t.status = "REJECTED"
      BY <1>r DEF Told
    <3>4. True(r, t)'
      BY <3>1, <3>3 DEF True
    <3>5. \A m \in reply'[r] : m.told = t
      BY <2>2
    <3>6. \A m \in reply'[r] : True(r, m.told)'
      BY <3>4, <3>5 DEF True
    <3>7. call[r].at = "answered" => True(r, call[r].answer)
      BY <1>0 DEF RequestInv, TruthInv
    <3>8. call'[r].at = "answered" => True(r, call[r].answer)'
      <4>1. SUFFICES ASSUME call[r].at = "answered" PROVE True(r, call[r].answer)'
        BY <1>2
      <4> QED BY <1>2, <1>3, <1>4, <3>1, <3>7, <4>1 DEF True
    <3> QED BY <1>2, <1>3, <3>6, <3>8 DEF TruthInv
  <2> QED BY <1>5, <2>1, <2>2
<1>10. \A s \in Request : RequestInv(s)'
  BY <1>1, <1>6, <1>7, <1>8, <1>9, SameKept DEF RequestInv, IInv
<1>11. SlotInv'
  <2>1. CASE UNCHANGED <<free, source>>
    BY <1>0, <2>1 DEF SlotInv, OnSource
  <2>2. CASE free /\ free' = FALSE /\ source'[r].at = "gate"
    <3>1. \A s \in Request : ~OnSource(s)
      BY <1>0, <2>2 DEF SlotInv
    <3>2. \A s \in Request : OnSource(s)' <=> s = r
      BY <1>1, <2>2, <3>1 DEF OnSource, Same
    <3> QED BY <2>2, <3>2 DEF SlotInv
  <2> QED BY <1>5, <2>1, <2>2
<1> QED BY <1>10, <1>11

LEMMA RollbackKeeps ==
  ASSUME IInv, NEW r \in Request, Rollback(r), UNCHANGED cloneVars
  PROVE  (\A s \in Request : RequestInv(s)') /\ SlotInv'
<1>0. TypeOK /\ RequestInv(r) /\ SlotInv /\ source[r] \in SourceJobs
  BY DEF IInv, TypeOK, SourceType
<1>1. ASSUME NEW s \in Request, s # r PROVE Same(s)
  BY <1>0, <1>1 DEF Rollback, Respond, TypeOK, RequestType, SourceType, Same, cloneVars
<1>2. /\ OnSource(r) /\ source'[r].at = "done" /\ source'[r].status = "none"
      /\ UNCHANGED <<call, post, ran>> /\ free'
  BY <1>0 DEF Rollback, OnSource, Ended, NoSourceJob, TypeOK, SourceType
<1>3. PICK b \in BOOLEAN, t \in Answers :
        /\ b => r \notin open'
        /\ t = SourceResult(r, b)
        /\ reply'[r] = {[from |-> "source", told |-> t]}
  <2>1. source[r].started \in BOOLEAN
    BY <1>0 DEF SourceJobs
  <2>2. \E b \in BOOLEAN : /\ b => r \notin open'
                           /\ reply'[r] = {[from |-> "source", told |-> SourceResult(r, b)]}
    BY <1>0, <2>1 DEF Rollback, Respond, TypeOK, RequestType
  <2> QED BY <1>0, <2>2, SourceResultType
<1>4. /\ post[r] # "source" /\ call[r].at # "idle"
      /\ Kind(r) \in {"explain", "advice", "runtime"}
      /\ r \in ran => PlanReadOnly(r) /\ ~call[r].stale /\ source[r].executed
      /\ source[r].status = "RUNTIME_VALIDATED" => r \in ran
  BY <1>0, <1>2 DEF RequestInv, SourceInv, OnSource
<1>5. SourceInv(r)'
  BY <1>2, <1>4 DEF SourceInv, Kind, PlanReadOnly, OnSource
<1>6. CloneInv(r)'
  BY <1>0, <1>2 DEF RequestInv, CloneInv, Kind, PlanReadOnly, cloneVars
<1>7. TrackedInv(r)'
  BY <1>0 DEF RequestInv, TrackedInv, OnClone, cloneVars
<1>8. True(r, t)'
  <2>1. CASE call[r].kind # "explain"
    BY <1>2, <1>4, <2>1 DEF True, Kind
  <2>2. CASE call[r].kind = "explain"
    <3>1. /\ t.executed = Yes(source[r].executed) /\ t.rolledBack = Yes(b)
          /\ t.status = "RUNTIME_VALIDATED" => source[r].status = "RUNTIME_VALIDATED" /\ b
      BY <1>3, <2>2 DEF SourceResult, Told
    <3>2. /\ t.executed = "no" => r \notin ran'
          /\ t.rolledBack = "yes" => r \notin open'
          /\ t.status = "RUNTIME_VALIDATED" => r \in ran' /\ t.rolledBack = "yes"
      BY <1>2, <1>3, <1>4, <3>1 DEF Yes
    <3>3. SourceQuiet(r)'
      BY <1>2, <1>4 DEF SourceQuiet, OnSource
    <3>4. Kind(r)' = "explain"
      BY <1>2, <2>2 DEF Kind
    <3> QED BY <3>2, <3>3, <3>4 DEF True
  <2> QED BY <2>1, <2>2
<1>9. TruthInv(r)'
  <2>1. \A told : True(r, told) => True(r, told)'
    BY <1>2, UnsettledKeeps DEF SourceQuiet
  <2>2. \A m \in reply'[r] : m.told = t
    BY <1>3
  <2> QED BY <1>0, <1>2, <1>4, <1>8, <2>1, <2>2 DEF RequestInv, TruthInv
<1>10. \A s \in Request : RequestInv(s)'
  BY <1>1, <1>5, <1>6, <1>7, <1>9, SameKept DEF RequestInv, IInv
<1>11. \A s \in Request : ~OnSource(s)'
  BY <1>0, <1>1, <1>2 DEF SlotInv, OnSource, Same
<1> QED BY <1>2, <1>10, <1>11 DEF SlotInv

LEMMA SourceKeeps ==
  ASSUME IInv, SourceNext, UNCHANGED cloneVars
  PROVE  (\A s \in Request : RequestInv(s)') /\ SlotInv'
<1>0. TypeOK /\ SlotInv /\ \A s \in Request : RequestInv(s)
  BY DEF IInv
<1>1. ASSUME NEW r \in Request, AdmitSource(r)
      PROVE  (\A s \in Request : RequestInv(s)') /\ SlotInv'
  BY <1>1, AdmitSourceKeeps
<1>2. ASSUME NEW r \in Request, SourceJobStep(r)
      PROVE  (\A s \in Request : RequestInv(s)') /\ SlotInv'
  <2>1. /\ \A s \in Request : RequestInv(s)'
        /\ \A s \in Request : OnSource(s)' <=> OnSource(s)
        /\ UNCHANGED free
    BY <1>2, SourceJobKeeps
  <2> QED BY <1>0, <2>1 DEF SlotInv
<1>3. ASSUME NEW r \in Request, Rollback(r)
      PROVE  (\A s \in Request : RequestInv(s)') /\ SlotInv'
  BY <1>3, RollbackKeeps
<1>4. ASSUME NEW r \in Request, SourceAborts(r)
      PROVE  (\A s \in Request : RequestInv(s)') /\ SlotInv'
  <2>1. ASSUME NEW s \in Request, s # r PROVE RequestInv(s)'
    BY <1>0, <1>4, <2>1, SameKept DEF SourceAborts, Same, requestVars, cloneVars
  <2>2. UNCHANGED <<requestVars, free, source, ran, cloneVars>> /\ open' = open \ {r}
    BY <1>4 DEF SourceAborts
  <2>3. SourceInv(r)'
    BY <1>0, <2>2 DEF RequestInv, SourceInv, Kind, PlanReadOnly, OnSource, requestVars
  <2>4. CloneInv(r)' /\ TrackedInv(r)'
    BY <1>0, <2>2 DEF RequestInv, CloneInv, TrackedInv, Kind, PlanReadOnly, OnClone,
       requestVars, cloneVars
  <2>5. \A told : True(r, told) => True(r, told)'
    BY <2>2 DEF True, SourceQuiet, Kind, OnSource, requestVars, cloneVars
  <2>6. TruthInv(r)'
    BY <1>0, <2>2, <2>5 DEF RequestInv, TruthInv, requestVars
  <2>7. SlotInv'
    BY <1>0, <2>2 DEF SlotInv, OnSource
  <2> QED BY <2>1, <2>3, <2>4, <2>6, <2>7 DEF RequestInv
<1>5. ASSUME SourceRestart
      PROVE  (\A s \in Request : RequestInv(s)') /\ SlotInv'
  <2>1. UNCHANGED <<requestVars, open, ran, cloneVars>> /\ free'
    BY <1>5 DEF SourceRestart
  <2>2. ASSUME NEW s \in Request, ~OnSource(s) PROVE RequestInv(s)' /\ ~OnSource(s)'
    <3>1. source'[s] = source[s]
      BY <1>5, <2>2 DEF SourceRestart
    <3>2. Same(s)
      BY <2>1, <3>1 DEF Same, requestVars, cloneVars
    <3> QED BY <1>0, <2>2, <3>1, <3>2, SameKept DEF OnSource
  <2>3. ASSUME NEW s \in Request, OnSource(s) PROVE RequestInv(s)' /\ ~OnSource(s)'
    <3>1. source'[s].at = "lost" /\ source'[s].status = "none"
      BY <1>5, <2>3 DEF SourceRestart, Ended, NoSourceJob
    <3>2. /\ post[s] # "source" /\ call[s].at # "idle"
          /\ Kind(s) \in {"explain", "advice", "runtime"}
          /\ s \in ran => PlanReadOnly(s) /\ ~call[s].stale
      BY <1>0, <2>3 DEF RequestInv, SourceInv, OnSource
    <3>3. SourceInv(s)'
      BY <2>1, <3>1, <3>2 DEF SourceInv, Kind, PlanReadOnly, OnSource, requestVars
    <3>4. CloneInv(s)' /\ TrackedInv(s)'
      BY <1>0, <2>1 DEF RequestInv, CloneInv, TrackedInv, Kind, PlanReadOnly, OnClone,
         requestVars, cloneVars
    <3>5. \A told : True(s, told) => True(s, told)'
      BY <2>1, <2>3, UnsettledKeeps DEF SourceQuiet, requestVars
    <3>6. TruthInv(s)'
      BY <1>0, <2>1, <3>5 DEF RequestInv, TruthInv, requestVars
    <3> QED BY <3>1, <3>3, <3>4, <3>6 DEF RequestInv, OnSource
  <2> QED BY <2>1, <2>2, <2>3 DEF SlotInv
<1> QED BY <1>1, <1>2, <1>3, <1>4, <1>5 DEF SourceNext, SourceStep, SourceJobStep

-----------------------------------------------------------------------------
LEMMA TrackedMore ==
  ASSUME NEW s \in Seq(Role), NEW k \in Role
  PROVE  ToSet(Append(s, k)) = ToSet(s) \cup {k}
<1>1. \A x \in ToSet(Append(s, k)) : x \in ToSet(s) \cup {k}
  BY DEF ToSet
<1>2. \A x \in ToSet(s) : x \in ToSet(Append(s, k))
  <2> SUFFICES ASSUME NEW i \in DOMAIN s PROVE s[i] \in ToSet(Append(s, k))
    BY DEF ToSet
  <2>1. i \in DOMAIN Append(s, k) /\ Append(s, k)[i] = s[i]
    OBVIOUS
  <2> QED BY <2>1 DEF ToSet
<1>3. k \in ToSet(Append(s, k))
  <2>1. Len(s) + 1 \in DOMAIN Append(s, k) /\ Append(s, k)[Len(s) + 1] = k
    OBVIOUS
  <2> QED BY <2>1 DEF ToSet
<1> QED BY <1>1, <1>2, <1>3

(* A step of a job on the clone says nothing of the source, and does not   *)
(* disturb what was told: of a clone that is gone nothing more is said.    *)
LEMMA CloneQuiet ==
  ASSUME IInv, NEW r \in Request, UNCHANGED <<call, sourceVars>>,
         post'[r] = post[r] \/ post'[r] = "none",
         clone[r].at # "done"
  PROVE  \A told \in Answers : True(r, told) => True(r, told)'
BY DEF True, SourceQuiet, Kind, OnSource, sourceVars

LEMMA AdmitCloneKeeps ==
  ASSUME IInv, NEW r \in Request, AdmitClone(r), UNCHANGED sourceVars
  PROVE  \A s \in Request : RequestInv(s)'
<1>0. TypeOK /\ RequestInv(r) /\ clone[r] \in CloneJobs
  BY DEF IInv, TypeOK, CloneType
<1>1. ASSUME NEW s \in Request, s # r PROVE Same(s)
  BY <1>0, <1>1 DEF AdmitClone, CloneGoto, CloneData, Respond, TypeOK, RequestType, CloneType,
     Same, sourceVars
<1>2. post[r] = "clone" /\ post'[r] = "none" /\ UNCHANGED <<call, database, indexed, replayed>>
  BY <1>0 DEF AdmitClone, CloneData, TypeOK, RequestType
<1>3. /\ clone[r].at = "none" /\ r \notin replayed
      /\ \A k \in Role : <<r, k>> \notin indexed
      /\ call[r].at \notin {"idle", "source"} /\ Kind(r) \in {"runtime", "query", "health"}
  BY <1>0, <1>2 DEF RequestInv, CloneInv, SourceInv
<1>4. \A k \in Role : database[<<r, k>>] # "there"
  BY <1>0, <1>3 DEF RequestInv, TrackedInv, OnClone
<1>r. PICK t \in Answers : t = Told("BUSY", "no", "no", FALSE, TRUE)
  BY ToldType DEF Status, Claim
<1>5. \/ clone'[r].at = "queued" /\ UNCHANGED reply
      \/ /\ Kind(r) = "health" /\ UNCHANGED clone
         /\ reply'[r] = {[from |-> "clone", told |-> t]}
  <2>1. reply \in [Request -> Mail] /\ clone \in [Request -> CloneJobs]
    BY <1>0 DEF TypeOK, RequestType, CloneType
  <2>2. CASE call[r].kind = "health" /\ line # <<>>
    BY <1>r, <2>1, <2>2 DEF AdmitClone, Respond, Kind
  <2>3. CASE ~(call[r].kind = "health" /\ line # <<>>)
    <3>1. CloneGoto(r, "queued") /\ UNCHANGED reply
      BY <2>3 DEF AdmitClone
    <3> QED BY <1>0, <2>1, <3>1 DEF CloneGoto, CloneJobs
  <2> QED BY <2>2, <2>3
<1>6. SourceInv(r)'
  <2>1. UNCHANGED <<call, source, open, ran>>
    BY <1>2 DEF sourceVars
  <2>2. SourceInv(r)
    BY <1>0 DEF RequestInv
  <2> QED BY <1>2, <2>1, <2>2 DEF SourceInv, Kind, PlanReadOnly, OnSource
<1>7. CloneInv(r)'
  <2>1. CASE UNCHANGED clone
    BY <1>0, <1>2, <2>1 DEF RequestInv, CloneInv, Kind, PlanReadOnly
  <2>2. CASE clone'[r].at = "queued"
    BY <1>2, <1>3, <2>2 DEF CloneInv, Kind, PlanReadOnly
  <2> QED BY <1>5, <2>1, <2>2
<1>8. TrackedInv(r)'
  BY <1>2, <1>4 DEF TrackedInv
<1>9. TruthInv(r)'
  <2>1. \A told \in Answers : True(r, told) => True(r, told)'
    BY <1>2, <1>3, CloneQuiet DEF AdmitClone
  <2>2. call[r].answer \in Answers /\ \A m \in reply[r] : m.told \in Answers
    BY <1>0 DEF TypeOK, RequestType, Calls, Mail
  <2>3. CASE UNCHANGED reply
    BY <1>0, <1>2, <2>1, <2>2, <2>3 DEF RequestInv, TruthInv
  <2>4. CASE Kind(r) = "health" /\ reply'[r] = {[from |-> "clone", told |-> t]}
    <3>1. \A told : True(r, told)'
      BY <1>2, <2>4 DEF True, Kind
    <3> QED BY <1>2, <1>3, <3>1 DEF TruthInv
  <2> QED BY <1>5, <2>3, <2>4
<1> QED BY <1>1, <1>6, <1>7, <1>8, <1>9, SameKept DEF RequestInv, IInv

(* What the worker thread does between its place in line and its result.   *)
CloneWork(r) ==
  \/ CloneGate(r) \/ CreateDatabase(r) \/ PreflightBaseline(r) \/ CreateCandidateIndex(r)
  \/ Measure(r) \/ ExplainQuery(r) \/ DropDatabase(r) \/ CreateDatabaseLost(r) \/ CloneFails(r)

(* The place and the role of the job. *)
LEMMA WorkPlaces ==
  ASSUME IInv, NEW r \in Request, CloneWork(r)
  PROVE  /\ UNCHANGED requestVars
         /\ clone[r].at \notin {"none", "done", "lost"}
         /\ clone'[r].at \notin {"none", "queued", "done", "lost"}
         /\ clone'[r].at = "create" =>
              clone'[r].role \in {"query", "base"} \/ (clone'[r].role = "cand" /\ PlanReadOnly(r))
         /\ clone'[r].at = "index" =>
              clone[r].at = "create" /\ clone[r].role = "cand" /\ clone'[r].role = "cand"
         /\ clone'[r].at = "measure" => clone[r].at \in {"index", "measure"}
         /\ \/ clone'[r].tracked = clone[r].tracked
            \/ clone[r].at = "create" /\ clone'[r].tracked = Track(r)
<1>0. clone \in [Request -> CloneJobs] /\ clone[r] \in CloneJobs
  BY DEF IInv, TypeOK, CloneType
<1> USE DEF At, Stop
<1>1. CASE CloneGate(r)
  BY <1>0, <1>1 DEF CloneGate, CloneJobs
<1>2. CASE CreateDatabase(r)
  <2>1. clone[r].role \in Role
    BY <1>2, RoleKnown DEF CreateDatabase
  <2> QED BY <1>0, <1>2, <2>1 DEF CreateDatabase, CloneJobs, Role
<1>3. CASE PreflightBaseline(r)
  BY <1>0, <1>3 DEF PreflightBaseline, CloneJobs
<1>4. CASE CreateCandidateIndex(r)
  BY <1>0, <1>4 DEF CreateCandidateIndex, CloneJobs
<1>5. CASE Measure(r)
  <2>1. UNCHANGED requestVars /\ clone[r].at = "measure"
    BY <1>5 DEF Measure
  <2>2. clone'[r].at \in {"measure", "drop"} /\ clone'[r].tracked = clone[r].tracked
    <3>1. CASE Stop(r, "REJECTED")
      BY <1>0, <3>1 DEF CloneJobs
    <3>2. CASE ~Stop(r, "REJECTED")
      <4> DEFINE job(used) == [clone[r] EXCEPT !.runs = @ + 1, !.used = @ /\ used]
      <4>1. PICK used \in BOOLEAN :
              \/ clone' = [clone EXCEPT ![r] = job(used)]
              \/ \E status \in {"REJECTED", "RUNTIME_VALIDATED"} :
                   clone' = [clone EXCEPT ![r] = [job(used) EXCEPT !.at = "drop",
                                                                 !.status = status]]
        BY <1>5, <3>2 DEF Measure
      <4>2. job(used).at = clone[r].at /\ job(used).tracked = clone[r].tracked
        BY <1>0 DEF CloneJobs
      <4>3. job(used) = [x \in DOMAIN clone[r] |-> job(used)[x]]
        BY <1>0 DEF CloneJobs
      <4>4. DOMAIN clone[r] = {"at", "role", "tracked", "tried", "clean", "runs", "ddl",
                               "used", "status", "destroyed"}
        BY <1>0 DEF CloneJobs
      <4> HIDE DEF job
      <4> QED BY <1>0, <2>1, <4>1, <4>2, <4>3, <4>4
    <3> QED BY <3>1, <3>2
  <2> QED BY <2>1, <2>2
<1>6. CASE ExplainQuery(r)
  BY <1>0, <1>6 DEF ExplainQuery, CloneJobs
<1>7. CASE DropDatabase(r)
  <2>1. UNCHANGED requestVars /\ clone[r].at = "drop"
    BY <1>7 DEF DropDatabase
  <2>2. clone'[r].at = clone[r].at /\ clone'[r].tracked = clone[r].tracked
    BY <1>0, <1>7 DEF DropDatabase, CloneJobs
  <2> QED BY <2>1, <2>2
<1>8. CASE CreateDatabaseLost(r)
  BY <1>0, <1>8 DEF CreateDatabaseLost, CloneJobs
<1>9. CASE CloneFails(r)
  BY <1>0, <1>9 DEF CloneFails, CloneJobs
<1> QED BY <1>1, <1>2, <1>3, <1>4, <1>5, <1>6, <1>7, <1>8, <1>9 DEF CloneWork

(* What it does to the databases. *)
LEMMA WorkData ==
  ASSUME IInv, NEW r \in Request, CloneWork(r)
  PROVE  /\ replayed' = replayed \/ (replayed' = replayed \cup {r}
                                    /\ (clone[r].at = "measure" \/ PlanReadOnly(r)))
         /\ indexed' \subseteq indexed \cup {<<r, clone[r].role>>}
         /\ indexed' \subseteq indexed \/ clone[r].at = "index"
         /\ \A d \in indexed : d[1] # r => d \in indexed'
         /\ \A d \in JobDatabase : d[1] # r => database'[d] = database[d]
         /\ \A d \in JobDatabase : database'[d] = "there" =>
              \/ database[d] = "there"
              \/ /\ d = <<r, clone[r].role>> /\ clone[r].at = "create"
                 /\ clone'[r].tracked = Track(r)
<1>0. /\ clone \in [Request -> CloneJobs] /\ clone[r] \in CloneJobs
      /\ database \in [JobDatabase -> {"none", "creating", "there", "late"}]
  BY DEF IInv, TypeOK, CloneType
<1>s. \A k : <<r, k>>[1] = r
  OBVIOUS
<1> USE DEF At, Stop
<1>1. CASE CloneGate(r) \/ PreflightBaseline(r)
  BY <1>1 DEF CloneGate, PreflightBaseline, CloneData
<1>2. CASE CreateDatabase(r)
  <2>1. UNCHANGED <<indexed, replayed>> /\ clone[r].at = "create"
        /\ database' = [database EXCEPT ![<<r, clone[r].role>>] = "there"]
    BY <1>2 DEF CreateDatabase
  <2>2. clone'[r].tracked = Track(r)
    BY <1>0, <1>2 DEF CreateDatabase, CloneJobs
  <2> QED BY <1>0, <2>1, <2>2
<1>3. CASE CreateCandidateIndex(r) \/ CloneFails(r)
  <2>1. UNCHANGED <<database, replayed>>
    BY <1>3 DEF CreateCandidateIndex, CloneFails
  <2>2. \/ UNCHANGED indexed
        \/ clone[r].at = "index" /\ indexed' = indexed \cup {<<r, clone[r].role>>}
    BY <1>3 DEF CreateCandidateIndex, CloneFails
  <2> QED BY <2>1, <2>2
<1>4. CASE Measure(r) \/ ExplainQuery(r)
  BY <1>4 DEF Measure, ExplainQuery
<1>5. CASE DropDatabase(r)
  <2> DEFINE d == <<r, clone[r].tracked[Len(clone[r].tracked) - clone[r].tried]>>
  <2>1. /\ UNCHANGED replayed
        /\ indexed' \in {indexed, indexed \ {d}}
        /\ database' \in {database,
             [database EXCEPT ![d] = IF @ = "creating" THEN @ ELSE "none"]}
    BY <1>5 DEF DropDatabase
  <2>2. d[1] = r
    OBVIOUS
  <2> HIDE DEF d
  <2> QED BY <1>0, <2>1, <2>2
<1>6. CASE CreateDatabaseLost(r)
  <2>1. UNCHANGED <<indexed, replayed>>
    BY <1>6 DEF CreateDatabaseLost
  <2>2. CASE UNCHANGED database
    BY <2>1, <2>2
  <2>3. CASE database' # database
    <3>1. /\ clone'[r].tracked = Track(r) /\ clone[r].at = "create"
          /\ \E outcome \in {"none", "there", "creating"} :
               database' = [database EXCEPT ![<<r, clone[r].role>>] = outcome]
      BY <1>0, <1>6, <2>3 DEF CreateDatabaseLost, CloneJobs
    <3> QED BY <1>0, <2>1, <3>1
  <2> QED BY <2>2, <2>3
<1> QED BY <1>1, <1>2, <1>3, <1>4, <1>5, <1>6 DEF CloneWork

LEMMA CloneWorkKeeps ==
  ASSUME IInv, NEW r \in Request, CloneWork(r), UNCHANGED sourceVars
  PROVE  \A s \in Request : RequestInv(s)'
<1>0. TypeOK /\ RequestInv(r) /\ clone[r] \in CloneJobs
  BY DEF IInv, TypeOK, CloneType
<1>1. UNCHANGED <<call, post, reply, source, open, ran>>
  BY WorkPlaces DEF requestVars, sourceVars
<1>2. ASSUME NEW s \in Request, s # r PROVE Same(s)
  <2>1. clone'[s] = clone[s]
    BY <1>0, <1>2, OtherJobs DEF CloneWork, CloneJobStep, CloneStep
  <2>2. s \in replayed' <=> s \in replayed
    BY <1>2, WorkData
  <2>3. ASSUME NEW k \in Role
        PROVE  /\ database'[<<s, k>>] = database[<<s, k>>]
               /\ <<s, k>> \in indexed' <=> <<s, k>> \in indexed
    <3>1. <<s, k>> \in JobDatabase /\ <<s, k>>[1] # r /\ <<s, k>> # <<r, clone[r].role>>
      BY <1>2 DEF JobDatabase
    <3> QED BY <3>1, WorkData
  <2> QED BY <1>1, <2>1, <2>2, <2>3 DEF Same
<1>3. SourceInv(r)'
  <2>1. SourceInv(r)
    BY <1>0 DEF RequestInv
  <2> QED BY <1>1, <2>1 DEF SourceInv, Kind, PlanReadOnly, OnSource
<1>4. CloneInv(r)'
  <2>1. CloneInv(r) /\ clone[r].at # "none"
    BY <1>0, WorkPlaces DEF RequestInv
  <2>2. /\ call[r].at \notin {"idle", "source"} /\ post[r] # "clone"
        /\ Kind(r) \in {"runtime", "query", "health"}
    BY <2>1 DEF CloneInv
  <2>3. /\ clone'[r].at = "create" => clone'[r].role \in Role
        /\ clone'[r].at = "index" => clone'[r].role = "cand"
        /\ clone'[r].at # "none"
    BY WorkPlaces DEF Role
  <2>4. \/ clone'[r].at \in {"index", "measure"}
        \/ clone'[r].at = "create" /\ clone'[r].role = "cand"
        => PlanReadOnly(r)
    BY <2>1, WorkPlaces DEF CloneInv
  <2>5. r \in replayed' => PlanReadOnly(r)
    BY <2>1, WorkData DEF CloneInv
  <2>6. ASSUME NEW k \in Role, <<r, k>> \in indexed' PROVE PlanReadOnly(r) /\ k = "cand"
    BY <2>1, <2>6, WorkData DEF CloneInv
  <2> QED BY <1>1, <2>2, <2>3, <2>4, <2>5, <2>6 DEF CloneInv, Kind, PlanReadOnly
<1>5. TrackedInv(r)'
  <2>1. OnClone(r) /\ OnClone(r)'
    BY WorkPlaces DEF OnClone
  <2>2. clone[r].tracked \in Seq(Role)
    BY <1>0 DEF CloneJobs
  <2>3. clone[r].at = "create" =>
          ToSet(Track(r)) = ToSet(clone[r].tracked) \cup {clone[r].role}
    BY <2>2, RoleKnown, TrackedMore DEF Track, At
  <2>4. ASSUME NEW k \in Role, database'[<<r, k>>] = "there"
        PROVE  k \in ToSet(clone'[r].tracked)
    <3>1. <<r, k>> \in JobDatabase
      BY DEF JobDatabase
    <3>2. CASE database[<<r, k>>] = "there"
      <4>1. k \in ToSet(clone[r].tracked)
        BY <1>0, <2>1, <3>2 DEF RequestInv, TrackedInv, OnClone
      <4> QED BY <2>3, <4>1, WorkPlaces
    <3>3. CASE database[<<r, k>>] # "there"
      <4>1. k = clone[r].role /\ clone[r].at = "create" /\ clone'[r].tracked = Track(r)
        BY <2>4, <3>1, <3>3, WorkData
      <4> QED BY <2>3, <4>1
    <3> QED BY <3>2, <3>3
  <2> QED BY <2>1, <2>4 DEF TrackedInv
<1>6. TruthInv(r)'
  <2>1. \A told \in Answers : True(r, told) => True(r, told)'
    BY <1>1, CloneQuiet, WorkPlaces
  <2>2. call[r].answer \in Answers /\ \A m \in reply[r] : m.told \in Answers
    BY <1>0 DEF TypeOK, RequestType, Calls, Mail
  <2> QED BY <1>0, <1>1, <2>1, <2>2 DEF RequestInv, TruthInv
<1> QED BY <1>2, <1>3, <1>4, <1>5, <1>6, SameKept DEF RequestInv, IInv

(* The result of a job: "destroyed" only of a catalog without its names.   *)
LEMMA RecountKeeps ==
  ASSUME IInv, NEW r \in Request, Recount(r), UNCHANGED sourceVars
  PROVE  \A s \in Request : RequestInv(s)'
<1>0. TypeOK /\ RequestInv(r) /\ clone[r] \in CloneJobs
  BY DEF IInv, TypeOK, CloneType
<1>1. ASSUME NEW s \in Request, s # r PROVE Same(s)
  <2>1. clone'[s] = clone[s]
    BY <1>0, <1>1, OtherJobs DEF CloneJobStep, CloneStep
  <2>2. reply'[s] = reply[s]
    BY <1>0, <1>1 DEF Recount, Respond, TypeOK, RequestType
  <2> QED BY <2>1, <2>2 DEF Recount, CloneData, Same, sourceVars
<1>2. /\ clone[r].at = "drop" /\ OnClone(r)
      /\ UNCHANGED <<call, post, source, open, ran, database, indexed, replayed>>
  BY DEF Recount, At, OnClone, CloneData, sourceVars
<1>3. PICK destroyed \in BOOLEAN, t \in Answers :
        /\ destroyed => ~Remaining(r)
        /\ t = CloneResult(r, destroyed)
        /\ reply'[r] = {[from |-> "clone", told |-> t]}
        /\ clone'[r].at = "done" /\ clone'[r].destroyed = destroyed
  <2>1. PICK destroyed \in BOOLEAN :
          /\ destroyed => ~Remaining(r)
          /\ Respond(r, "clone", CloneResult(r, destroyed))
          /\ clone' = [clone EXCEPT ![r] = Over(r, "done", destroyed)]
    BY DEF Recount
  <2>2. PICK t \in Answers : t = CloneResult(r, destroyed)
    BY <1>0, CloneResultType
  <2>3. reply'[r] = {[from |-> "clone", told |-> t]}
    BY <1>0, <2>1, <2>2 DEF Respond, TypeOK, RequestType
  <2>4. clone'[r] = Over(r, "done", destroyed)
    BY <1>0, <2>1 DEF TypeOK, CloneType
  <2>5. clone'[r].at = "done" /\ clone'[r].destroyed = destroyed
    BY <2>4 DEF Over, NoCloneJob
  <2> QED BY <2>1, <2>2, <2>3, <2>5
<1>4. SourceInv(r)'
  <2>1. SourceInv(r)
    BY <1>0 DEF RequestInv
  <2> QED BY <1>2, <2>1 DEF SourceInv, Kind, PlanReadOnly, OnSource
<1>5. CloneInv(r)'
  <2>1. CloneInv(r)
    BY <1>0 DEF RequestInv
  <2> QED BY <1>2, <1>3, <2>1 DEF CloneInv, Kind, PlanReadOnly
<1>6. TrackedInv(r)'
  <2>1. ASSUME NEW k \in Role, database[<<r, k>>] = "there" PROVE ~destroyed
    <3>1. k \in ToSet(clone[r].tracked)
      BY <1>0, <1>2, <2>1 DEF RequestInv, TrackedInv
    <3> QED BY <1>3, <2>1, <3>1 DEF Remaining
  <2> QED BY <1>2, <1>3, <2>1 DEF TrackedInv
<1>7. Kind(r) \in {"runtime", "query", "health"} /\ call[r].at # "idle"
  BY <1>0, <1>2 DEF RequestInv, CloneInv
<1>8. True(r, t)'
  <2>1. t.destroyed = destroyed
    BY <1>3 DEF CloneResult, Told
  <2>2. Kind(r)' # "explain"
    BY <1>2, <1>7 DEF Kind
  <2> QED BY <1>3, <2>1, <2>2 DEF True
<1>9. TruthInv(r)'
  <2>1. call[r].answer \in Answers
    BY <1>0 DEF TypeOK, RequestType, Calls
  <2>2. True(r, call[r].answer) => True(r, call[r].answer)'
    BY <1>2, <2>1, CloneQuiet
  <2>3. \A m \in reply'[r] : m.told = t
    BY <1>3
  <2> QED BY <1>0, <1>2, <1>7, <1>8, <2>2, <2>3 DEF RequestInv, TruthInv
<1> QED BY <1>1, <1>4, <1>5, <1>6, <1>9, SameKept DEF RequestInv, IInv

LEMMA CloneKeeps ==
  ASSUME IInv, CloneNext, UNCHANGED sourceVars
  PROVE  \A s \in Request : RequestInv(s)'
<1>0. TypeOK /\ \A s \in Request : RequestInv(s)
  BY DEF IInv
<1>1. ASSUME NEW r \in Request, AdmitClone(r) PROVE \A s \in Request : RequestInv(s)'
  BY <1>1, AdmitCloneKeeps
<1>2. ASSUME NEW r \in Request, CloneWork(r) PROVE \A s \in Request : RequestInv(s)'
  BY <1>2, CloneWorkKeeps
<1>3. ASSUME NEW r \in Request, Recount(r) PROVE \A s \in Request : RequestInv(s)'
  BY <1>3, RecountKeeps
<1>4. ASSUME NEW d \in JobDatabase, CreateEnds(d) PROVE \A s \in Request : RequestInv(s)'
  <2> SUFFICES ASSUME NEW s \in Request PROVE RequestInv(s)'
    OBVIOUS
  <2>1. UNCHANGED <<call, post, reply, source, open, ran, clone, indexed, replayed>>
    BY <1>4 DEF CreateEnds, requestVars, sourceVars
  <2>2. \A k \in Role : database'[<<s, k>>] = "there" => database[<<s, k>>] = "there"
    BY <1>0, <1>4 DEF CreateEnds, TypeOK, CloneType, JobDatabase
  <2>3. SourceInv(s)'
    BY <1>0, <2>1 DEF RequestInv, SourceInv, Kind, PlanReadOnly, OnSource
  <2>4. CloneInv(s)'
    BY <1>0, <2>1 DEF RequestInv, CloneInv, Kind, PlanReadOnly
  <2>5. TrackedInv(s)'
    BY <1>0, <2>1, <2>2 DEF RequestInv, TrackedInv, OnClone
  <2>6. TruthInv(s)'
    BY <1>0, <2>1 DEF RequestInv, TruthInv, True, SourceQuiet, Kind, OnSource
  <2> QED BY <2>3, <2>4, <2>5, <2>6 DEF RequestInv
<1>5. ASSUME CloneRestart PROVE \A s \in Request : RequestInv(s)'
  <2> SUFFICES ASSUME NEW s \in Request PROVE RequestInv(s)'
    OBVIOUS
  <2>1. UNCHANGED <<call, post, reply, source, open, ran, indexed, replayed>>
    BY <1>5 DEF CloneRestart, requestVars, sourceVars
  <2>2. clone'[s] = IF OnClone(s) THEN Over(s, "lost", FALSE) ELSE clone[s]
    BY <1>5 DEF CloneRestart
  <2>3. CASE ~OnClone(s)
    <3>1. ASSUME NEW k \in Role PROVE database'[<<s, k>>] = database[<<s, k>>]
      <4>1. CASE At(Head(line), "create")
        <5>1. Head(line) # s
          BY <2>3, <4>1 DEF At, OnClone
        <5>2. \E outcome : database' =
                [database EXCEPT ![<<Head(line), clone[Head(line)].role>>] = outcome]
          BY <1>5, <4>1 DEF CloneRestart
        <5> QED BY <1>0, <5>1, <5>2 DEF TypeOK, CloneType, JobDatabase
      <4>2. CASE ~At(Head(line), "create")
        BY <1>5, <4>2 DEF CloneRestart
      <4> QED BY <4>1, <4>2
    <3>2. Same(s)
      BY <2>1, <2>2, <2>3, <3>1 DEF Same
    <3> QED BY <1>0, <3>2, SameKept
  <2>4. CASE OnClone(s)
    <3>1. clone[s].at \notin {"none", "done"} /\ clone'[s].at = "lost"
      BY <2>2, <2>4 DEF OnClone, Over, NoCloneJob
    <3>2. SourceInv(s)'
      BY <1>0, <2>1 DEF RequestInv, SourceInv, Kind, PlanReadOnly, OnSource
    <3>3. CloneInv(s)'
      BY <1>0, <2>1, <3>1 DEF RequestInv, CloneInv, Kind, PlanReadOnly
    <3>4. TrackedInv(s)'
      BY <3>1 DEF TrackedInv
    <3>5. \A told \in Answers : True(s, told) => True(s, told)'
      BY <2>1, <3>1, CloneQuiet
    <3>6. call[s].answer \in Answers /\ \A m \in reply[s] : m.told \in Answers
      BY <1>0 DEF TypeOK, RequestType, Calls, Mail
    <3>7. TruthInv(s)'
      BY <1>0, <2>1, <3>5, <3>6 DEF RequestInv, TruthInv
    <3> QED BY <3>2, <3>3, <3>4, <3>7 DEF RequestInv
  <2> QED BY <2>3, <2>4
<1> QED BY <1>1, <1>2, <1>3, <1>4, <1>5 DEF CloneNext, CloneStep, CloneWork

-----------------------------------------------------------------------------
LEMMA InitInv == Init => IInv
<1> SUFFICES ASSUME Init PROVE IInv
  OBVIOUS
<1>1. TypeOK
  BY InitType
<1>2. SlotInv
  BY DEF Init, SourceInit, SlotInv, OnSource, NoSourceJob
<1>3. LineInv
  BY DEF Init, CloneInit, LineInv, OnClone, NoCloneJob
<1>4. ASSUME NEW r \in Request PROVE RequestInv(r)
  <2>1. /\ call[r].at = "idle" /\ post[r] = "none" /\ reply[r] = {}
        /\ source[r].at = "none" /\ source[r].status = "none" /\ open = {} /\ ran = {}
        /\ clone[r] = NoCloneJob /\ clone[r].at = "none" /\ indexed = {} /\ replayed = {}
        /\ \A k \in Role : database[<<r, k>>] = "none"
    BY DEF Init, RequestInit, SourceInit, CloneInit, NoSourceJob, NoCloneJob, JobDatabase
  <2>2. SourceInv(r) /\ CloneInv(r)
    BY <2>1 DEF SourceInv, CloneInv, OnSource
  <2> QED BY <2>1, <2>2 DEF RequestInv, TrackedInv, TruthInv
<1> QED BY <1>1, <1>2, <1>3, <1>4 DEF IInv

LEMMA NextInv == IInv /\ [Next]_vars => IInv'
<1> SUFFICES ASSUME IInv, [Next]_vars PROVE IInv'
  OBVIOUS
<1>1. CASE ApiNext /\ UNCHANGED <<sourceVars, cloneVars>>
  <2>1. SlotInv' /\ LineInv'
    BY <1>1 DEF IInv, SlotInv, LineInv, OnSource, OnClone, sourceVars, cloneVars
  <2>2. TypeOK'
    BY <1>1, ApiType DEF IInv
  <2> QED BY <1>1, <2>1, <2>2, ApiKeeps DEF IInv
<1>2. CASE SourceNext /\ UNCHANGED cloneVars
  <2>1. LineInv'
    BY <1>2 DEF IInv, LineInv, OnClone, cloneVars
  <2>2. TypeOK'
    BY <1>2, SourceNextType DEF IInv
  <2> QED BY <1>2, <2>1, <2>2, SourceKeeps DEF IInv
<1>3. CASE CloneNext /\ UNCHANGED sourceVars
  <2>1. SlotInv'
    BY <1>3 DEF IInv, SlotInv, OnSource, sourceVars
  <2> QED BY <1>3, <2>1, CloneLine, CloneNextType, CloneKeeps DEF IInv
<1>4. CASE UNCHANGED vars
  <2>1. UNCHANGED <<call, post, reply, faults, sourceVars, cloneVars>>
    BY <1>4 DEF vars, requestVars
  <2>2. TypeOK' /\ SlotInv' /\ LineInv'
    BY <2>1 DEF IInv, TypeOK, RequestType, SourceType, CloneType, SlotInv, LineInv,
       OnSource, OnClone, sourceVars, cloneVars
  <2>3. \A s \in Request : Same(s)
    BY <2>1 DEF Same, sourceVars, cloneVars
  <2> QED BY <2>2, <2>3, SameKept DEF IInv
<1> QED BY <1>1, <1>2, <1>3, <1>4 DEF Next, Settled

(***************************************************************************)
(* Type correctness of the API threads, both evaluators and the clone's    *)
(* catalog (evaluator.py:915-952, clone_evaluator.py:1780-2110).           *)
(***************************************************************************)
THEOREM EvaluationType == Spec => []TypeOK
<1>1. IInv => TypeOK
  BY DEF IInv
<1> QED BY <1>1, InitInv, NextInv, PTL DEF Spec

(***************************************************************************)
(* The clone's slot belongs to one job, the first in line, and every job   *)
(* that has not ended is in line (clone_evaluator.py:2082-2094).           *)
(***************************************************************************)
THEOREM OneCloneJob ==
  Spec => [](\A r, s \in Request :
               OnClone(r) /\ OnClone(s) /\ ~At(r, "queued") /\ ~At(s, "queued") => r = s)
<1> DEFINE Prop == \A r, s \in Request :
               OnClone(r) /\ OnClone(s) /\ ~At(r, "queued") /\ ~At(s, "queued") => r = s
<1>1. IInv => Prop
  BY DEF IInv, LineInv, At
<1> HIDE DEF Prop
<1>2. Spec => []Prop
  BY <1>1, InitInv, NextInv, PTL DEF Spec
<1> QED BY <1>2 DEF Prop

(***************************************************************************)
(* One worker thread at a time on the source, and a slot that is free      *)
(* exactly without one, whoever gives up and whatever dies                 *)
(* (evaluator.py:926-948).                                                 *)
(***************************************************************************)
THEOREM SourceSlot == Spec => []OneSourceOperation
<1>1. ASSUME SlotInv PROVE OneSourceOperation
  <2> DEFINE Active == {r \in Request : OnSource(r)}
  <2>1. Cardinality(Active) <= 1
    <3>1. CASE Active = {}
      BY <3>1, FS_EmptySet
    <3>2. CASE Active # {}
      <4>1. PICK r \in Request : Active = {r}
        BY <1>1, <3>2 DEF SlotInv
      <4>2. Cardinality({r}) = 1
        BY FS_Singleton
      <4> QED BY <4>1, <4>2
    <3> QED BY <3>1, <3>2
  <2> QED BY <1>1, <2>1 DEF OneSourceOperation, SlotInv
<1>2. IInv => OneSourceOperation
  BY <1>1 DEF IInv
<1> QED BY <1>2, InitInv, NextInv, PTL DEF Spec

(***************************************************************************)
(* No locking or writing plan is executed or indexed, and nothing runs in  *)
(* a source database other than the one of the telemetry (evaluator.py:    *)
(* 803-809, clone_evaluator.py:1496-1531).                                 *)
(***************************************************************************)
THEOREM ReplayIsReadOnly == Spec => []ReadOnlyReplay
<1>1. ASSUME IInv PROVE ReadOnlyReplay
  <2>1. ran \subseteq Request /\ replayed \subseteq Request /\ indexed \subseteq JobDatabase
    BY <1>1 DEF IInv, TypeOK, SourceType, CloneType
  <2>2. \A r \in ran : call[r].query = "plain" /\ ~call[r].stale
    BY <1>1, <2>1 DEF IInv, RequestInv, SourceInv, PlanReadOnly
  <2>3. \A r \in replayed : call[r].query = "plain"
    BY <1>1, <2>1 DEF IInv, RequestInv, CloneInv, PlanReadOnly
  <2>4. ASSUME NEW d \in indexed PROVE call[d[1]].query = "plain" /\ d[2] = "cand"
    <3>1. PICK r \in Request, k \in Role : d = <<r, k>>
      BY <2>1 DEF JobDatabase
    <3> QED BY <1>1, <3>1 DEF IInv, RequestInv, CloneInv, PlanReadOnly
  <2> QED BY <2>2, <2>3, <2>4 DEF ReadOnlyReplay
<1>2. IInv => ReadOnlyReplay
  BY <1>1
<1> QED BY <1>2, InitInv, NextInv, PTL DEF Spec

(***************************************************************************)
(* What was told of an EXPLAIN ANALYZE is true now and stays true, however *)
(* late the job is (services/evaluator.py:77-82, services/                 *)
(* clone_evaluator.py:135-140).                                            *)
(***************************************************************************)
THEOREM ToldTheTruth == Spec => []AnswersTrue
<1>1. ASSUME IInv PROVE AnswersTrue
  <2> SUFFICES ASSUME NEW r \in Request, call[r].at = "answered"
               PROVE  /\ Kind(r) = "explain" =>
                           /\ Outcome(r).executed = "no" => r \notin ran
                           /\ Outcome(r).rolledBack = "yes" => r \notin open
                           /\ Outcome(r).status = "RUNTIME_VALIDATED" =>
                                r \in ran /\ Outcome(r).rolledBack = "yes"
                      /\ Kind(r) = "query" /\ Outcome(r).destroyed =>
                           database[<<r, "query">>] # "there"
    BY DEF AnswersTrue
  <2>1. True(r, Outcome(r)) /\ TrackedInv(r)
    BY <1>1 DEF IInv, RequestInv, TruthInv, Outcome
  <2>2. "query" \in Role
    BY DEF Role
  <2> QED BY <2>1, <2>2 DEF True, TrackedInv, OnClone
<1>2. IInv => AnswersTrue
  BY <1>1
<1> QED BY <1>2, InitInv, NextInv, PTL DEF Spec

(***************************************************************************)
(* A job that says its databases are destroyed has left none, also of a    *)
(* CREATE DATABASE whose reply was lost (clone_evaluator.py:1044-1049).    *)
(***************************************************************************)
THEOREM NoSilentLeftovers == Spec => []LeftoversExplained
<1>1. IInv => LeftoversExplained
  BY DEF IInv, RequestInv, TrackedInv, LeftoversExplained, OnClone
<1> QED BY <1>1, InitInv, NextInv, PTL DEF Spec

-----------------------------------------------------------------------------
(* What has to be true before a real index is called validated.  A job of  *)
(* a runtime request has its plan; until a lost CREATE DATABASE ends it,   *)
(* none of its databases is in the making; its verdict is that of all its  *)
(* runs; and the result that carries the verdict is about an empty catalog.*)
Working == {"queued", "create", "preflight", "index", "measure", "explain"}
Validating(r) == clone[r].at = "drop" /\ clone[r].status = "RUNTIME_VALIDATED"

Measured(r) == r \in replayed /\ clone[r].runs = MeasuredRuns /\ clone[r].used

Good(r) ==
  /\ call[r].planned /\ clone[r].at = "done" /\ Measured(r)
  /\ \A k \in Role : database[<<r, k>>] = "none"

ValidInv(r) ==
  /\ call[r].at = "idle" => call[r].answer.status # "RUNTIME_VALIDATED"
  /\ Kind(r) = "runtime" /\ (post[r] = "clone" \/ clone[r].at # "none") => call[r].planned
  /\ clone[r].at \in Working =>
       clone[r].status = "none" /\ clone[r].runs < MeasuredRuns
  /\ clone[r].at = "explain" => clone[r].role = "query"
  /\ clone[r].role = "query" => Kind(r) = "query"
  /\ clone[r].at \in Working \cup {"none"} \/ Validating(r) =>
       \A k \in Role : database[<<r, k>>] \in {"none", "there"}
  /\ Validating(r) /\ Kind(r) = "runtime" => Measured(r)
  /\ Kind(r) = "runtime" =>
       /\ call[r].answer.status = "RUNTIME_VALIDATED" => Good(r)
       /\ \A m \in reply[r] :
            m.from = "clone" /\ m.told.status = "RUNTIME_VALIDATED" => Good(r)

LEMMA ValidSame ==
  ASSUME NEW s \in Request, ValidInv(s), call'[s] = call[s], clone'[s] = clone[s],
         post'[s] = post[s] \/ post'[s] # "clone",
         \A m \in reply'[s] : m \in reply[s] \/ m.from = "source"
                              \/ m.told.status # "RUNTIME_VALIDATED",
         s \in replayed' <=> s \in replayed,
         \A k \in Role : \/ database'[<<s, k>>] = database[<<s, k>>]
                         \/ database[<<s, k>>] = "creating"
  PROVE  ValidInv(s)'
<1>1. Good(s) => Good(s)'
  BY DEF Good, Measured
<1>2. Validating(s)' <=> Validating(s)
  BY DEF Validating
<1>3. Measured(s)' <=> Measured(s)
  BY DEF Measured
<1>4. Kind(s)' = Kind(s)
  BY DEF Kind
<1>5. clone[s].at \in Working \cup {"none"} \/ Validating(s) =>
        \A k \in Role : database'[<<s, k>>] \in {"none", "there"}
  BY DEF ValidInv
<1>6. Kind(s) = "runtime" =>
        /\ call[s].answer.status = "RUNTIME_VALIDATED" => Good(s)'
        /\ \A m \in reply'[s] :
             m.from = "clone" /\ m.told.status = "RUNTIME_VALIDATED" => Good(s)'
  BY <1>1 DEF ValidInv
<1> QED BY <1>2, <1>3, <1>4, <1>5, <1>6 DEF ValidInv

(* The verdict of a job at work. *)
LEMMA WorkVerdict ==
  ASSUME IInv, NEW r \in Request, ValidInv(r), CloneWork(r)
  PROVE  /\ clone'[r].at \in Working =>
              clone'[r].status = "none" /\ clone'[r].runs < MeasuredRuns
         /\ clone'[r].at = "explain" => clone'[r].role = "query"
         /\ clone'[r].role = "query" => Kind(r) = "query"
         /\ Validating(r)' /\ Kind(r) = "runtime" => Measured(r)'
<1>0. /\ clone \in [Request -> CloneJobs] /\ clone[r] \in CloneJobs
      /\ clone[r].runs \in Nat /\ MeasuredRuns \in Nat
  BY CloneAssumption DEF IInv, TypeOK, CloneType, CloneJobs
<1>v. /\ clone[r].at \in Working =>
           clone[r].status = "none" /\ clone[r].runs < MeasuredRuns
      /\ clone[r].at = "explain" => clone[r].role = "query"
      /\ clone[r].role = "query" => Kind(r) = "query"
      /\ Validating(r) /\ Kind(r) = "runtime" => Measured(r)
  BY DEF ValidInv
<1> USE DEF At, Stop, Working, Validating
<1>1. CASE CloneGate(r)
  BY <1>0, <1>v, <1>1 DEF CloneGate, CloneJobs, Kind
<1>2. CASE CreateDatabase(r)
  <2>1. clone[r].role \in Role
    BY <1>2, RoleKnown DEF CreateDatabase
  <2> QED BY <1>0, <1>v, <1>2, <2>1 DEF CreateDatabase, CloneJobs, Role
<1>3. CASE PreflightBaseline(r)
  <2>1. /\ clone[r].at = "preflight"
        /\ \/ /\ clone'[r].at = "drop" /\ clone'[r].status = "REJECTED"
              /\ clone'[r].role = clone[r].role
           \/ /\ clone'[r].at = "create" /\ clone'[r].status = clone[r].status
              /\ clone'[r].role = "cand" /\ clone'[r].runs = clone[r].runs
    BY <1>0, <1>3 DEF PreflightBaseline, CloneJobs
  <2> QED BY <1>v, <2>1
<1>4. CASE CreateCandidateIndex(r)
  <2>1. /\ clone[r].at = "index" /\ clone'[r].role = clone[r].role
        /\ \/ clone'[r].at = "drop" /\ clone'[r].status = "REJECTED"
           \/ /\ clone'[r].at = "measure" /\ clone'[r].status = clone[r].status
              /\ clone'[r].runs = clone[r].runs
    BY <1>0, <1>4 DEF CreateCandidateIndex, CloneJobs
  <2> QED BY <1>v, <2>1
<1>5. CASE Measure(r)
  <2>1. clone[r].at = "measure" /\ replayed' = replayed \cup {r}
    BY <1>5 DEF Measure
  <2>2. CASE Stop(r, "REJECTED")
    BY <1>0, <1>v, <2>1, <2>2 DEF CloneJobs
  <2>3. CASE ~Stop(r, "REJECTED")
    <3> DEFINE job(used) == [clone[r] EXCEPT !.runs = @ + 1, !.used = @ /\ used]
    <3>1. PICK used \in BOOLEAN :
            \/ job(used).runs < MeasuredRuns /\ clone' = [clone EXCEPT ![r] = job(used)]
            \/ /\ ~(job(used).runs < MeasuredRuns)
               /\ \E status \in {"REJECTED", "RUNTIME_VALIDATED"} :
                   /\ status = "RUNTIME_VALIDATED" => job(used).used
                   /\ clone' = [clone EXCEPT ![r] = [job(used) EXCEPT !.at = "drop",
                                                                 !.status = status]]
      BY <1>5, <2>3 DEF Measure
    <3>2. /\ job(used).at = "measure" /\ job(used).status = "none"
          /\ job(used).role = clone[r].role /\ job(used).runs = clone[r].runs + 1
      BY <1>0, <1>v, <2>1 DEF CloneJobs
    <3>3. job(used) = [x \in DOMAIN clone[r] |-> job(used)[x]]
      BY <1>0 DEF CloneJobs
    <3>4. DOMAIN clone[r] = {"at", "role", "tracked", "tried", "clean", "runs", "ddl",
                             "used", "status", "destroyed"}
      BY <1>0 DEF CloneJobs
    <3> HIDE DEF job
    <3>5. job(used).runs < MeasuredRuns \/ job(used).runs = MeasuredRuns
      BY <1>0, <1>v, <2>1, <3>2
    <3>6. CASE clone' = [clone EXCEPT ![r] = job(used)] /\ job(used).runs < MeasuredRuns
      BY <1>0, <1>v, <3>2, <3>6
    <3>7. ASSUME job(used).runs = MeasuredRuns, NEW status \in {"REJECTED", "RUNTIME_VALIDATED"},
                 status = "RUNTIME_VALIDATED" => job(used).used,
                 clone' = [clone EXCEPT ![r] = [job(used) EXCEPT !.at = "drop",
                                                               !.status = status]]
          PROVE  /\ clone'[r].at = "drop" /\ clone'[r].status = status
                 /\ clone'[r].role = clone[r].role /\ clone'[r].runs = MeasuredRuns
                 /\ clone'[r].status = "RUNTIME_VALIDATED" => clone'[r].used
      BY <1>0, <3>2, <3>3, <3>4, <3>7
    <3> QED BY <1>v, <2>1, <3>1, <3>5, <3>6, <3>7 DEF Measured
  <2> QED BY <2>2, <2>3
<1>6. CASE ExplainQuery(r)
  BY <1>0, <1>v, <1>6 DEF ExplainQuery, CloneJobs
<1>7. CASE DropDatabase(r)
  <2>1. /\ clone[r].at = "drop" /\ clone'[r].at = "drop" /\ clone'[r].role = clone[r].role
        /\ clone'[r].status = clone[r].status /\ clone'[r].runs = clone[r].runs
        /\ clone'[r].used = clone[r].used /\ UNCHANGED replayed
    BY <1>0, <1>7 DEF DropDatabase, CloneJobs
  <2> QED BY <1>v, <2>1 DEF Measured
<1>8. CASE CreateDatabaseLost(r)
  <2>1. /\ clone'[r].at = "drop" /\ clone'[r].status = "REJECTED"
        /\ clone'[r].role = clone[r].role
    BY <1>0, <1>8 DEF CreateDatabaseLost, CloneJobs
  <2> QED BY <1>v, <2>1
<1>9. CASE CloneFails(r)
  <2>1. /\ clone'[r].at = "drop" /\ clone'[r].status = "REJECTED"
        /\ clone'[r].role = clone[r].role
    BY <1>0, <1>9 DEF CloneFails, CloneJobs
  <2> QED BY <1>v, <2>1
<1> QED BY <1>1, <1>2, <1>3, <1>4, <1>5, <1>6, <1>7, <1>8, <1>9 DEF CloneWork

(* No database of a job is in the making but after a lost CREATE DATABASE. *)
LEMMA WorkDatabases ==
  ASSUME IInv, NEW r \in Request, CloneWork(r), clone'[r].at \in Working \/ Validating(r)'
  PROVE  /\ clone[r].at \in Working \/ Validating(r)
         /\ \A k \in Role : database'[<<r, k>>] \in {database[<<r, k>>], "there", "none"}
<1>0. /\ clone \in [Request -> CloneJobs] /\ clone[r] \in CloneJobs
      /\ database \in [JobDatabase -> {"none", "creating", "there", "late"}]
      /\ \A k \in Role : <<r, k>> \in JobDatabase
  BY DEF IInv, TypeOK, CloneType, JobDatabase
<1> USE DEF At, Stop, Working, Validating
<1>1. CASE CloneGate(r) \/ PreflightBaseline(r) \/ CreateCandidateIndex(r)
  BY <1>1 DEF CloneGate, PreflightBaseline, CreateCandidateIndex, CloneData
<1>2. CASE CreateDatabase(r)
  <2>1. clone[r].at = "create"
        /\ database' = [database EXCEPT ![<<r, clone[r].role>>] = "there"]
    BY <1>2 DEF CreateDatabase
  <2> QED BY <1>0, <2>1
<1>3. CASE Measure(r) \/ ExplainQuery(r)
  BY <1>3 DEF Measure, ExplainQuery
<1>4. CASE DropDatabase(r)
  <2> DEFINE d == <<r, clone[r].tracked[Len(clone[r].tracked) - clone[r].tried]>>
  <2>1. database' \in {database, [database EXCEPT ![d] = IF @ = "creating" THEN @ ELSE "none"]}
    BY <1>4 DEF DropDatabase
  <2>2. /\ clone[r].at = "drop" /\ clone'[r].at = "drop"
        /\ clone'[r].status = clone[r].status
    BY <1>0, <1>4 DEF DropDatabase, CloneJobs
  <2> HIDE DEF d
  <2> QED BY <1>0, <2>1, <2>2
<1>5. CASE CreateDatabaseLost(r) \/ CloneFails(r)
  <2>1. clone'[r].at = "drop" /\ clone'[r].status = "REJECTED"
    BY <1>0, <1>5 DEF CreateDatabaseLost, CloneFails, CloneJobs
  <2> QED BY <2>1
<1> QED BY <1>1, <1>2, <1>3, <1>4, <1>5 DEF CloneWork

LEMMA CloneWorkValid ==
  ASSUME IInv, NEW r \in Request, ValidInv(r), CloneWork(r)
  PROVE  ValidInv(r)'
<1>1. UNCHANGED <<call, post, reply>> /\ clone[r].at \notin {"none", "done"}
      /\ clone'[r].at \notin {"none", "done"}
  BY WorkPlaces DEF requestVars
<1>2. clone'[r].at \in Working \/ Validating(r)' =>
        \A k \in Role : database'[<<r, k>>] \in {"none", "there"}
  BY WorkDatabases DEF ValidInv
<1>3. ~Good(r)
  BY <1>1 DEF Good
<1>4. Kind(r)' = Kind(r)
  BY <1>1 DEF Kind
<1>5. Kind(r) = "runtime" => call[r].planned
  BY <1>1 DEF ValidInv
<1>6. Kind(r) = "runtime" =>
        /\ call[r].answer.status # "RUNTIME_VALIDATED"
        /\ \A m \in reply[r] : ~(m.from = "clone" /\ m.told.status = "RUNTIME_VALIDATED")
  BY <1>3 DEF ValidInv
<1> QED BY <1>1, <1>2, <1>4, <1>5, <1>6, WorkVerdict DEF ValidInv

LEMMA AdmitCloneValid ==
  ASSUME IInv, NEW r \in Request, ValidInv(r), AdmitClone(r)
  PROVE  ValidInv(r)'
<1>0. TypeOK /\ RequestInv(r) /\ clone \in [Request -> CloneJobs]
  BY DEF IInv, TypeOK, CloneType
<1>1. post[r] = "clone" /\ post'[r] = "none" /\ UNCHANGED <<call, database, indexed, replayed>>
  BY <1>0 DEF AdmitClone, CloneData, TypeOK, RequestType
<1>2. CASE call[r].kind = "health" /\ line # <<>>
  <2>1. PICK t \in Answers : t = Told("BUSY", "no", "no", FALSE, TRUE)
    BY ToldType DEF Status, Claim
  <2>2. UNCHANGED clone /\ reply'[r] = {[from |-> "clone", told |-> t]}
    BY <1>0, <1>2, <2>1 DEF AdmitClone, Respond, TypeOK, RequestType
  <2>3. t.status = "BUSY"
    BY <2>1 DEF Told
  <2>4. \A m \in reply'[r] : m.told.status # "RUNTIME_VALIDATED"
    BY <2>2, <2>3
  <2> QED BY <1>1, <2>2, <2>4, ValidSame
<1>3. CASE ~(call[r].kind = "health" /\ line # <<>>)
  <2>1. CloneGoto(r, "queued") /\ UNCHANGED reply
    BY <1>3 DEF AdmitClone
  <2>2. clone[r] = NoCloneJob
    BY <1>0, <1>1 DEF RequestInv, CloneInv
  <2>3. /\ clone'[r].at = "queued" /\ clone'[r].status = "none" /\ clone'[r].runs = 0
        /\ clone'[r].role = "none" /\ clone[r].at = "none"
    BY <1>0, <2>1, <2>2 DEF CloneGoto, NoCloneJob
  <2>4. ~Good(r) /\ ~Validating(r)' /\ 0 < MeasuredRuns
    BY <2>3, CloneAssumption DEF Good, Validating
  <2>5. Kind(r)' = Kind(r)
    BY <1>1 DEF Kind
  <2>6. \A k \in Role : database[<<r, k>>] \in {"none", "there"}
    BY <2>3 DEF ValidInv
  <2>7. Kind(r) = "runtime" =>
          /\ call[r].planned
          /\ call[r].answer.status # "RUNTIME_VALIDATED"
          /\ \A m \in reply[r] : ~(m.from = "clone" /\ m.told.status = "RUNTIME_VALIDATED")
    BY <1>1, <2>4 DEF ValidInv
  <2> QED BY <1>1, <2>1, <2>3, <2>4, <2>5, <2>6, <2>7 DEF ValidInv
<1> QED BY <1>2, <1>3

LEMMA RecountValid ==
  ASSUME IInv, NEW r \in Request, ValidInv(r), Recount(r)
  PROVE  ValidInv(r)'
<1>0. TypeOK /\ RequestInv(r) /\ clone \in [Request -> CloneJobs]
  BY DEF IInv, TypeOK, CloneType
<1>1. clone[r].at = "drop" /\ OnClone(r) /\ UNCHANGED <<call, post, database, indexed, replayed>>
  BY DEF Recount, At, OnClone, CloneData
<1>2. PICK destroyed \in BOOLEAN, t \in Answers :
        /\ destroyed => ~Remaining(r)
        /\ t = CloneResult(r, destroyed)
        /\ reply'[r] = {[from |-> "clone", told |-> t]}
        /\ clone'[r] = Over(r, "done", destroyed)
  <2>1. PICK destroyed \in BOOLEAN :
          /\ destroyed => ~Remaining(r)
          /\ Respond(r, "clone", CloneResult(r, destroyed))
          /\ clone' = [clone EXCEPT ![r] = Over(r, "done", destroyed)]
    BY DEF Recount
  <2>2. PICK t \in Answers : t = CloneResult(r, destroyed)
    BY <1>0, CloneResultType
  <2>3. reply'[r] = {[from |-> "clone", told |-> t]}
    BY <1>0, <2>1, <2>2 DEF Respond, TypeOK, RequestType
  <2>4. clone'[r] = Over(r, "done", destroyed)
    BY <1>0, <2>1
  <2> QED BY <2>1, <2>2, <2>3, <2>4
<1>3. clone'[r].at = "done" /\ clone'[r].status = "none" /\ clone'[r].role = "none"
  BY <1>2 DEF Over, NoCloneJob
<1>4. clone[r].status = "RUNTIME_VALIDATED" =>
        clone'[r].runs = clone[r].runs /\ (clone'[r].used <=> clone[r].used)
  BY <1>2 DEF Over, NoCloneJob
<1>5. ~Good(r)
  BY <1>1 DEF Good
<1>6. Kind(r)' = Kind(r)
  BY <1>1 DEF Kind
<1>7. ASSUME Kind(r) = "runtime", t.status = "RUNTIME_VALIDATED" PROVE Good(r)'
  <2>1. destroyed /\ clone[r].status = "RUNTIME_VALIDATED"
    BY <1>2, <1>7 DEF CloneResult, Told
  <2>2. Validating(r)
    BY <1>1, <2>1 DEF Validating
  <2>3. Measured(r)'
    BY <1>1, <1>4, <1>7, <2>1, <2>2 DEF ValidInv, Measured
  <2>4. ASSUME NEW k \in Role PROVE database[<<r, k>>] = "none"
    <3>1. database[<<r, k>>] \in {"none", "there"}
      BY <2>2 DEF ValidInv
    <3>2. database[<<r, k>>] # "there"
      <4>1. SUFFICES ASSUME database[<<r, k>>] = "there" PROVE FALSE
        OBVIOUS
      <4>2. k \in ToSet(clone[r].tracked)
        BY <1>0, <1>1, <4>1 DEF RequestInv, TrackedInv
      <4> QED BY <1>2, <2>1, <4>1, <4>2 DEF Remaining
    <3> QED BY <3>1, <3>2
  <2>5. call[r].planned
    BY <1>1, <1>7 DEF ValidInv
  <2> QED BY <1>1, <1>3, <2>3, <2>4, <2>5 DEF Good
<1>8. Kind(r) = "runtime" =>
        /\ call[r].planned
        /\ call[r].answer.status # "RUNTIME_VALIDATED"
  BY <1>1, <1>5 DEF ValidInv
<1>9. \A m \in reply'[r] : m.told = t
  BY <1>2
<1>10. ~Validating(r)' /\ clone'[r].at \notin Working \cup {"none"}
  BY <1>3 DEF Validating, Working
<1> QED BY <1>1, <1>3, <1>6, <1>7, <1>8, <1>9, <1>10 DEF ValidInv

LEMMA CloneValid ==
  ASSUME IInv, CloneNext, \A s \in Request : ValidInv(s)
  PROVE  \A s \in Request : ValidInv(s)'
<1>0. /\ TypeOK /\ reply \in [Request -> Mail]
      /\ database \in [JobDatabase -> {"none", "creating", "there", "late"}]
  BY DEF IInv, TypeOK, RequestType, CloneType
<1>1. ASSUME NEW r \in Request, CloneJobStep(r) PROVE \A s \in Request : ValidInv(s)'
  <2>1. ValidInv(r)'
    BY <1>1, AdmitCloneValid, CloneWorkValid, RecountValid DEF CloneJobStep, CloneStep, CloneWork
  <2>2. ASSUME NEW s \in Request, s # r PROVE ValidInv(s)'
    <3>1. clone'[s] = clone[s]
      BY <1>0, <1>1, <2>2, OtherJobs
    <3>2. CASE CloneWork(r)
      <4>1. UNCHANGED <<call, post, reply>>
        BY <3>2, WorkPlaces DEF requestVars
      <4>2. s \in replayed' <=> s \in replayed
        BY <2>2, <3>2, WorkData
      <4>3. ASSUME NEW k \in Role PROVE database'[<<s, k>>] = database[<<s, k>>]
        <5>1. <<s, k>> \in JobDatabase /\ <<s, k>>[1] # r
          BY <2>2 DEF JobDatabase
        <5> QED BY <3>2, <5>1, WorkData
      <4> QED BY <3>1, <4>1, <4>2, <4>3, ValidSame
    <3>3. CASE AdmitClone(r) \/ Recount(r)
      <4>1. UNCHANGED <<call, database, replayed>> /\ reply'[s] = reply[s]
            /\ post'[s] = post[s]
        BY <1>0, <2>2, <3>3 DEF AdmitClone, Recount, CloneData, Respond, TypeOK, RequestType
      <4> QED BY <3>1, <4>1, ValidSame
    <3> QED BY <1>1, <3>2, <3>3 DEF CloneJobStep, CloneStep, CloneWork
  <2> QED BY <2>1, <2>2
<1>2. ASSUME NEW d \in JobDatabase, CreateEnds(d) PROVE \A s \in Request : ValidInv(s)'
  <2> SUFFICES ASSUME NEW s \in Request PROVE ValidInv(s)'
    OBVIOUS
  <2>1. UNCHANGED <<call, post, reply, clone, replayed>>
    BY <1>2 DEF CreateEnds, requestVars
  <2>2. \A k \in Role : database'[<<s, k>>] = database[<<s, k>>]
                      \/ database[<<s, k>>] = "creating"
    BY <1>0, <1>2 DEF CreateEnds, JobDatabase
  <2> QED BY <2>1, <2>2, ValidSame
<1>3. ASSUME CloneRestart PROVE \A s \in Request : ValidInv(s)'
  <2> SUFFICES ASSUME NEW s \in Request PROVE ValidInv(s)'
    OBVIOUS
  <2>1. UNCHANGED <<call, post, reply, replayed>>
    BY <1>3 DEF CloneRestart, requestVars
  <2>2. clone'[s] = IF OnClone(s) THEN Over(s, "lost", FALSE) ELSE clone[s]
    BY <1>3 DEF CloneRestart
  <2>3. CASE ~OnClone(s)
    <3>1. ASSUME NEW k \in Role PROVE database'[<<s, k>>] = database[<<s, k>>]
      <4>1. CASE At(Head(line), "create")
        <5>1. Head(line) # s
          BY <2>3, <4>1 DEF At, OnClone
        <5>2. \E outcome : database' =
                [database EXCEPT ![<<Head(line), clone[Head(line)].role>>] = outcome]
          BY <1>3, <4>1 DEF CloneRestart
        <5> QED BY <1>0, <5>1, <5>2 DEF JobDatabase
      <4>2. CASE ~At(Head(line), "create")
        BY <1>3, <4>2 DEF CloneRestart
      <4> QED BY <4>1, <4>2
    <3> QED BY <2>1, <2>2, <2>3, <3>1, ValidSame
  <2>4. CASE OnClone(s)
    <3>1. /\ clone[s].at \notin {"none", "done"} /\ clone'[s].at = "lost"
          /\ clone'[s].role = "none"
      BY <2>2, <2>4 DEF OnClone, Over, NoCloneJob
    <3>2. ~Good(s) /\ ~Validating(s)' /\ clone'[s].at \notin Working \cup {"none"}
      BY <3>1 DEF Good, Validating, Working
    <3>3. Kind(s)' = Kind(s)
      BY <2>1 DEF Kind
    <3>4. Kind(s) = "runtime" =>
            /\ call[s].planned
            /\ call[s].answer.status # "RUNTIME_VALIDATED"
            /\ \A m \in reply[s] : ~(m.from = "clone" /\ m.told.status = "RUNTIME_VALIDATED")
      BY <3>1, <3>2 DEF ValidInv
    <3> QED BY <2>1, <3>1, <3>2, <3>3, <3>4 DEF ValidInv
  <2> QED BY <2>3, <2>4
<1> QED BY <1>1, <1>2, <1>3 DEF CloneNext, CloneJobStep

LEMMA SourceValid ==
  ASSUME IInv, SourceNext, UNCHANGED cloneVars, \A s \in Request : ValidInv(s)
  PROVE  \A s \in Request : ValidInv(s)'
<1> SUFFICES ASSUME NEW s \in Request PROVE ValidInv(s)'
  OBVIOUS
<1>0. reply \in [Request -> Mail] /\ post \in [Request -> Service \cup {"none"}]
  BY DEF IInv, TypeOK, RequestType
<1>1. UNCHANGED call
  BY DEF SourceNext, SourceStep, AdmitSource, SourceBegin, SourceGuard, HypotheticalPlan,
     SourcePreflight, SourceAnalyze, SourceFails, Rollback, SourceAborts, SourceRestart,
     requestVars
<1>2. post'[s] = post[s] \/ post'[s] # "clone"
  BY <1>0 DEF SourceNext, SourceStep, AdmitSource, SourceBegin, SourceGuard, HypotheticalPlan,
     SourcePreflight, SourceAnalyze, SourceFails, Rollback, SourceAborts, SourceRestart,
     requestVars
<1>3. \A m \in reply'[s] : m \in reply[s] \/ m.from = "source"
  <2>1. \/ UNCHANGED reply
        \/ \E r \in Request : \E told : Respond(r, "source", told)
    BY DEF SourceNext, SourceStep, AdmitSource, SourceBegin, SourceGuard, HypotheticalPlan,
       SourcePreflight, SourceAnalyze, SourceFails, Rollback, SourceAborts, SourceRestart,
       requestVars
  <2> QED BY <1>0, <2>1 DEF Respond
<1> QED BY <1>1, <1>2, <1>3, ValidSame DEF cloneVars

LEMMA ApiValid ==
  ASSUME IInv, ApiNext, UNCHANGED <<sourceVars, cloneVars>>, \A s \in Request : ValidInv(s)
  PROVE  \A s \in Request : ValidInv(s)'
<1>0. PICK r \in Request : (\E kind \in Kinds[r] : Ask(r, kind))
                           \/ Receive(r) \/ Unreachable(r)
  BY DEF ApiNext
<1>t. TypeOK /\ RequestInv(r) /\ call[r] \in Calls /\ call \in [Request -> Calls]
      /\ post \in [Request -> Service \cup {"none"}] /\ reply \in [Request -> Mail]
  BY DEF IInv, TypeOK, RequestType
<1>s. UNCHANGED <<clone, database, indexed, replayed>>
  BY DEF cloneVars
<1>1. ASSUME NEW s \in Request, s # r PROVE ValidInv(s)'
  <2>1. call'[s] = call[s] /\ post'[s] = post[s] /\ reply'[s] = reply[s]
    BY <1>0, <1>1, <1>t DEF Ask, Refuse, Resolve, Receive, Unreachable, AskClone, PlannerRequired,
       Answer
  <2> QED BY <1>s, <2>1, ValidSame
<1>2. (Good(r) /\ call'[r].planned => Good(r)') /\ (Validating(r)' <=> Validating(r))
      /\ (Measured(r)' <=> Measured(r))
  BY <1>s DEF Good, Validating, Measured
<1>3. ASSUME NEW told \in Answers, Answer(r, told), UNCHANGED post,
             reply' = reply \/ reply' = [reply EXCEPT ![r] = {}],
             Kind(r) = "runtime" /\ told.status = "RUNTIME_VALIDATED" => Good(r)
      PROVE  ValidInv(r)'
  <2>1. /\ call'[r].at = "answered" /\ call'[r].answer = told /\ call'[r].kind = call[r].kind
        /\ call'[r].planned = call[r].planned
    BY <1>3, <1>t DEF Answer, Calls
  <2>2. Good(r) => Good(r)'
    BY <1>2, <2>1 DEF Good
  <2>3. Kind(r)' = Kind(r) /\ \A m \in reply'[r] : m \in reply[r]
    BY <1>3, <1>t, <2>1 DEF Kind
  <2> QED BY <1>2, <1>3, <1>s, <2>1, <2>2, <2>3 DEF ValidInv
<1>4. ASSUME NEW kind \in Kinds[r], Ask(r, kind) PROVE ValidInv(r)'
  <2>1. call[r].at = "idle" /\ UNCHANGED reply
    BY <1>4 DEF Ask, Refuse, Resolve
  <2>2. reply[r] = {} /\ clone[r] = NoCloneJob /\ post[r] = "none"
    BY <1>t, <2>1 DEF RequestInv, SourceInv, CloneInv, TruthInv
  <2>3. clone[r].at = "none" /\ clone[r].role = "none"
    BY <2>2 DEF NoCloneJob
  <2>4. ~Validating(r)' /\ clone[r].at \notin Working
    BY <1>2, <2>3 DEF Validating, Working
  <2>5. \A k \in Role : database[<<r, k>>] \in {"none", "there"}
    BY <2>3 DEF ValidInv
  <2>6. call'[r].kind = kind /\ (kind = "runtime" => post'[r] # "clone")
    <3>1. CASE Refuse(r, kind)
      BY <1>t, <2>2, <3>1 DEF Refuse, Calls
    <3>2. ASSUME NEW query, NEW stale, Resolve(r, kind, query, stale)
          PROVE  call'[r].kind = kind /\ (kind = "runtime" => post'[r] # "clone")
      BY <1>t, <3>2 DEF Resolve, Calls
    <3> QED BY <1>4, <3>1, <3>2 DEF Ask
  <2>7. call'[r].answer.status # "RUNTIME_VALIDATED"
    <3>1. CASE Refuse(r, kind)
      BY <1>t, <3>1 DEF Refuse, Calls, Told
    <3>2. ASSUME NEW query, NEW stale, Resolve(r, kind, query, stale)
          PROVE  call'[r].answer = call[r].answer
      BY <1>t, <3>2 DEF Resolve, Calls
    <3>3. call[r].answer.status # "RUNTIME_VALIDATED"
      BY <2>1 DEF ValidInv
    <3> QED BY <1>4, <3>1, <3>2, <3>3 DEF Ask
  <2> QED BY <1>s, <2>1, <2>2, <2>3, <2>4, <2>5, <2>6, <2>7 DEF ValidInv, Kind
<1>5. ASSUME Receive(r) PROVE ValidInv(r)'
  <2>1. PICK m \in reply[r] :
          /\ m.from = call[r].at
          /\ IF call[r].kind = "runtime" /\ m.from = "source"
             THEN AskClone(r) \/ PlannerRequired(r)
             ELSE Answer(r, m.told) /\ UNCHANGED post
          /\ reply' = [reply EXCEPT ![r] = {}]
    BY <1>5 DEF Receive
  <2>2. m.told \in Answers /\ m.from \in Service
    BY <1>t DEF Mail
  <2>3. CASE Answer(r, m.told) /\ UNCHANGED post /\ (call[r].kind # "runtime" \/ m.from # "source")
    <3>1. Kind(r) = "runtime" /\ m.told.status = "RUNTIME_VALIDATED" => Good(r)
      BY <2>2, <2>3 DEF ValidInv, Kind, Service
    <3> QED BY <1>3, <2>1, <2>2, <2>3, <3>1
  <2>4. CASE PlannerRequired(r)
    <3>1. PICK t \in Answers : t = Told("REJECTED", "no", "no", FALSE, TRUE)
      BY RejectedType
    <3>2. t.status = "REJECTED"
      BY <3>1 DEF Told
    <3> QED BY <1>3, <2>1, <2>4, <3>1, <3>2 DEF PlannerRequired
  <2>5. CASE AskClone(r)
    <3>1. /\ call'[r].at = "clone" /\ call'[r].planned /\ call'[r].kind = call[r].kind
          /\ call'[r].answer = call[r].answer /\ reply'[r] = {}
      BY <1>t, <2>1, <2>5 DEF AskClone, Calls
    <3>2. Good(r) => Good(r)'
      BY <1>2, <3>1
    <3> QED BY <1>2, <1>s, <3>1, <3>2 DEF ValidInv, Kind
  <2> QED BY <2>1, <2>3, <2>4, <2>5
<1>6. ASSUME Unreachable(r) PROVE ValidInv(r)'
  <2>1. PICK t \in Answers : t = Unreached(call[r].kind, call[r].at)
    BY UnreachedType
  <2>2. t.status = "REJECTED"
    BY <2>1 DEF Unreached, Told
  <2> QED BY <1>3, <1>6, <2>1, <2>2 DEF Unreachable
<1> QED BY <1>0, <1>1, <1>4, <1>5, <1>6

(***************************************************************************)
(* A validated real index was planned first, measured in every run with    *)
(* the index in use, and has left no job database behind                   *)
(* (clone_evaluator.py:1847-1873, 1937-1944, api/router.py:1267-1281).     *)
(***************************************************************************)
THEOREM ValidatedMeansMeasured == Spec => []ValidatedOnClone
<1> DEFINE VInv == IInv /\ \A r \in Request : ValidInv(r)
<1>1. Init => VInv
  <2> SUFFICES ASSUME Init PROVE VInv
    OBVIOUS
  <2>1. ASSUME NEW r \in Request PROVE ValidInv(r)
    <3>1. /\ call[r].answer = NoAnswer /\ call[r].kind = "none" /\ reply[r] = {}
          /\ clone[r].at = "none" /\ clone[r].role = "none" /\ clone[r].status = "none"
          /\ \A k \in Role : database[<<r, k>>] = "none"
      BY DEF Init, RequestInit, CloneInit, NoCloneJob, JobDatabase
    <3>2. NoAnswer.status = "none"
      BY DEF NoAnswer, Told
    <3> QED BY <3>1, <3>2 DEF ValidInv, Kind, Working, Validating
  <2> QED BY <2>1, InitInv
<1>2. VInv /\ [Next]_vars => VInv'
  <2> SUFFICES ASSUME VInv, [Next]_vars PROVE VInv'
    OBVIOUS
  <2>1. CASE ApiNext /\ UNCHANGED <<sourceVars, cloneVars>>
    BY <2>1, ApiValid, NextInv
  <2>2. CASE SourceNext /\ UNCHANGED cloneVars
    BY <2>2, SourceValid, NextInv
  <2>3. CASE CloneNext /\ UNCHANGED sourceVars
    BY <2>3, CloneValid, NextInv
  <2>4. CASE UNCHANGED vars
    <3>1. UNCHANGED <<call, post, reply, clone, database, replayed>>
      BY <2>4 DEF vars, requestVars, cloneVars
    <3> QED BY <3>1, ValidSame, NextInv
  <2> QED BY <2>1, <2>2, <2>3, <2>4 DEF Next, Settled
<1>3. VInv => ValidatedOnClone
  BY DEF ValidInv, Good, Measured, ValidatedOnClone, Outcome
<1> QED BY <1>1, <1>2, <1>3, PTL DEF Spec
=============================================================================
