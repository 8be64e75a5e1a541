------------------------- MODULE EvaluationRequests -------------------------
(***************************************************************************)
(* The API side of a plan or runtime evaluation: the route that resolves   *)
(* the query (api/router.py) and the thread that posts it to the source    *)
(* evaluator or the clone evaluator and waits for the answer               *)
(* (services/evaluator.py, services/clone_evaluator.py).                   *)
(*                                                                         *)
(* A request is "explain" (EXPLAIN ANALYZE on the source), "advice" (a     *)
(* HypoPG plan), "runtime" (a real index on a clone, after a HypoPG plan), *)
(* "query" (EXPLAIN ANALYZE on a clone, which no route asks for at         *)
(* present) or "health" (the clone probe).                                 *)
(* Its query is "plain", "locking" when its plan locks or writes rows      *)
(* although its text reads as one SELECT, or "refused" by the text gate.   *)
(***************************************************************************)
EXTENDS Naturals, FiniteSets, SequencesExt

CONSTANTS
  Request,   \* requests of the run, each made once
  Kinds,     \* the kinds each request may be of
  MaxFaults  \* bound: failing statements, connections, processes

ASSUME RequestAssumption ==
  /\ Kinds \in [Request -> SUBSET {"explain", "advice", "runtime", "query", "health"}]
  /\ MaxFaults \in Nat

VARIABLES
  call,   \* per request: the API thread
  post,   \* requests on their way: the service that has not accepted them yet
  reply,  \* results on their way back
  faults

requestVars == <<call, post, reply>>

(* What a caller is told.  A status is VALIDATED, RUNTIME_VALIDATED,       *)
(* HEALTHY, or REJECTED for all the others (404, NO_IMPROVEMENT,           *)
(* INSUFFICIENT, UNSAFE, UNAVAILABLE), which no property tells apart.      *)
(* "unknown" is the null of sourceExecuted and transactionRolledBack.      *)
Told(status, executed, rolledBack, ddl, destroyed) ==
  [status |-> status, executed |-> executed, rolledBack |-> rolledBack,
   ddl |-> ddl, destroyed |-> destroyed]

NoAnswer == Told("none", "no", "no", FALSE, TRUE)

RequestInit ==
  /\ call = [r \in Request |-> [at |-> "idle", kind |-> "none", query |-> "plain",
                                stale |-> FALSE, planned |-> FALSE,
                                answer |-> NoAnswer]]
  /\ post = [r \in Request |-> "none"]
  /\ reply = [r \in Request |-> {}]
  /\ faults = 0

(* What the gates of both evaluators ask of the query of a request: its    *)
(* text scans as one SELECT without side effects; its plan neither locks   *)
(* nor writes rows.                                                        *)
TextAccepted(r) == call[r].query # "refused"
PlanReadOnly(r) == call[r].query = "plain"

Fault == faults < MaxFaults /\ faults' = faults + 1

Answer(r, told) ==
  call' = [call EXCEPT ![r].at = "answered", ![r].answer = told]

-----------------------------------------------------------------------------
(* The routes answer without an evaluator: a query, candidate, predicate   *)
(* or replay fixture is missing, the evidence is thin, a catalog name is   *)
(* unresolved.                                                             *)
Refuse(r, kind) ==
  /\ call[r].at = "idle" /\ kind \in {"explain", "advice", "runtime"}
  /\ call' = [call EXCEPT ![r].at = "answered", ![r].kind = kind,
                          ![r].answer = Told("REJECTED", "no", "no", FALSE, TRUE)]
  /\ UNCHANGED <<post, reply, faults>>

(* Identity and scope come from the repository: the telemetry may name a   *)
(* database that has been recreated since.  The probe carries no query.    *)
Resolve(r, kind, query, stale) ==
  /\ call[r].at = "idle"
  /\ kind = "health" => query = "plain"
  /\ kind \in {"query", "health"} => ~stale
  /\ LET service == IF kind \in {"query", "health"} THEN "clone" ELSE "source"
     IN  /\ call' = [call EXCEPT ![r].at = service, ![r].kind = kind,
                                 ![r].query = query, ![r].stale = stale]
         /\ post' = [post EXCEPT ![r] = service]
  /\ UNCHANGED <<reply, faults>>

(* A planner answer of a runtime request leads on to the clone, or ends it.*)
AskClone(r) ==
  /\ call' = [call EXCEPT ![r].at = "clone", ![r].planned = TRUE]
  /\ post' = [post EXCEPT ![r] = "clone"]

PlannerRequired(r) ==
  /\ Answer(r, Told("REJECTED", "no", "no", FALSE, TRUE))
  /\ UNCHANGED post

Receive(r) ==
  /\ call[r].at \in {"source", "clone"}
  /\ \E m \in reply[r] :
       /\ m.from = call[r].at
       /\ IF call[r].kind = "runtime" /\ m.from = "source"
          THEN IF m.told.status = "VALIDATED" THEN AskClone(r) ELSE PlannerRequired(r)
          ELSE Answer(r, m.told) /\ UNCHANGED post
       /\ reply' = [reply EXCEPT ![r] = {}]
  /\ UNCHANGED faults

(* Mutation: a source EXPLAIN that was not answered is taken for not run. *)
Unreached_Assured(kind, service) ==
  CASE kind = "query" -> Told("REJECTED", "no", "no", FALSE, FALSE)
    [] OTHER          -> Told("REJECTED", "no", "no", FALSE, TRUE)

(* What the service functions put in the place of a result they never got. *)
Unreached(kind, service) ==
  CASE kind = "explain" -> Told("REJECTED", "unknown", "unknown", FALSE, TRUE)
    [] kind = "query"   -> Told("REJECTED", "no", "no", FALSE, FALSE)
    [] OTHER            -> Told("REJECTED", "no", "no", FALSE, TRUE)

(* The timeout of urlopen, or a broken connection.  The request itself may *)
(* still arrive, and its job goes on.                                      *)
Unreachable(r) ==
  /\ call[r].at \in {"source", "clone"}
  /\ Answer(r, Unreached(call[r].kind, call[r].at))
  /\ UNCHANGED <<post, reply, faults>>

Respond(r, service, told) ==
  reply' = [reply EXCEPT ![r] = {[from |-> service, told |-> told]}]
=============================================================================
