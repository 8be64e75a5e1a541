------------------------------ MODULE Benchmark ------------------------------
(***************************************************************************)
(* The ERP stack benchmark (scripts/erp_stack_benchmark.py) around the     *)
(* realistic workload (scripts/run-realistic-workload.sh).  The driver     *)
(* takes a snapshot of the counters before and after the generator, keeps  *)
(* three monitoring threads busy in between, and judges the difference.    *)
(* The two processes meet at the start and at the end of the generator:    *)
(* the wrapper publishes a "ready" marker file and waits for the driver's  *)
(* "continue" or "abort".                                                  *)
(***************************************************************************)
EXTENDS Integers, FiniteSetsExt

CONSTANTS
  Query,              \* statements of the generator
  AcceptanceRequired, \* ERP_FULL_ACCEPTANCE
  MaxSamplingErrors,  \* ERP_MAX_SAMPLING_ERRORS
  MaxCalls,           \* bound: calls of the generator
  MaxBatches,         \* bound: batches of the sampling and the API thread
  MaxFaults           \* bound: failures, restarts, resets

ASSUME BenchmarkAssumption ==
  /\ AcceptanceRequired \in BOOLEAN
  /\ {MaxSamplingErrors, MaxCalls, MaxFaults} \subseteq Nat
  /\ MaxBatches \in [{"sample", "api"} -> Nat]

VARIABLES
  driver,    \* run_benchmark: its place, the phases it has answered, whether
             \*   the generator is known to be over, its snapshots and report
  thread,    \* per monitoring thread: its place, good batches, errors, and
             \*   commands given up that still run in a container
  stop,      \* the event that ends the threads
  accepted,  \* full_acceptance_result: "none", "during" or "late"
  marker,    \* the sync directory: <<phase, kind>> |-> what is published
  wrapper,   \* the shell wrapper: its place and exit code
  generator, \* the workload container: "off", "running" or "over"
  server,    \* the containers: which start they are of, what their counters
             \*   do not show any more, and the pg_stat_statements entries
  spent,     \* what each activity has cost the containers so far
  called,    \* calls the generator made of each statement
  refresh,   \* the cache refresh running in the repository: whose it is
  faults

vars == <<driver, thread, stop, accepted, marker, wrapper, generator, server,
          spent, called, refresh, faults>>

Thread   == {"sample", "api", "acceptance"}
Activity == {"prepare", "warm", "generator", "sample", "probe", "refresh", "poll",
             "metric", "postlude"}

Marker(phase, kind) == marker[<<phase, kind>>]
Publish(phase, kind, what) == marker' = [marker EXCEPT ![<<phase, kind>>] = what]
Spend(activity) == spent' = [spent EXCEPT ![activity] = @ + 1]
Fault == faults < MaxFaults /\ faults' = faults + 1

(* The warm-up probes have just left a refresh behind.                     *)
Init ==
  /\ driver = [at |-> "prepare", sent |-> {}, over |-> FALSE,
               before |-> <<>>, after |-> <<>>, report |-> "none"]
  /\ thread = [t \in Thread |-> [at |-> "off", done |-> 0, errors |-> 0, left |-> 0]]
  /\ stop = FALSE /\ accepted = "none"
  /\ marker = [m \in {"start", "end"} \X {"ready", "continue"} |-> "none"]
  /\ wrapper = [at |-> "off", exit |-> 0]
  /\ generator = "off"
  /\ \E known \in SUBSET Query :
       server = [epoch |-> 0, base |-> [a \in Activity |-> 0],
                 entry |-> [q \in Query |-> [since |-> 0, calls |-> IF q \in known THEN 1 ELSE 0]]]
  /\ spent = [a \in Activity |-> 0] /\ called = [q \in Query |-> 0]
  /\ refresh = "warm" /\ faults = 0

-----------------------------------------------------------------------------
(* What a snapshot reads: cgroup counters with the start of the container, *)
(* and the statement entries that exist, by their stats_since.  A counter  *)
(* is kept apart here by what it was spent on; the driver sees the sum.    *)
Containers ==
  [epoch |-> server.epoch, cost |-> [a \in Activity |-> spent[a] - server.base[a]]]
Statements == [q \in {p \in Query : server.entry[p].calls > 0} |-> server.entry[q]]

(* Bounded to the time between the snapshots, when it matters.             *)
Measuring == driver.before # <<>> /\ driver.at \notin {"finish", "finished", "exit", "ended"}

Restart ==
  /\ Fault /\ Measuring
  /\ server' = [server EXCEPT !.epoch = @ + 1, !.base = spent]
  /\ UNCHANGED <<driver, thread, stop, accepted, marker, wrapper, generator,
                 spent, called, refresh>>

(* An entry is evicted or reset; a later call makes a new one.             *)
LoseEntry(q) ==
  /\ Fault /\ Measuring /\ server.entry[q].calls > 0
  /\ server' = [server EXCEPT !.entry[q] = [since |-> @.since + 1, calls |-> 0]]
  /\ UNCHANGED <<driver, thread, stop, accepted, marker, wrapper, generator,
                 spent, called, refresh>>

RefreshEnds ==
  /\ refresh # "none" /\ refresh' = "none" /\ Spend(refresh)
  /\ UNCHANGED <<driver, thread, stop, accepted, marker, wrapper, generator,
                 server, called, faults>>

-----------------------------------------------------------------------------
(* The wrapper.                                                            *)
wrapperOnly == <<driver, thread, stop, accepted, server, called, refresh, faults>>

Exit(code) == wrapper' = [at |-> "exited", exit |-> code]
WrapperGoto(place) == wrapper' = [wrapper EXCEPT !.at = place]

(* Services, seed and image; then the marker of the start.                 *)
Preflight ==
  /\ wrapper.at = "preflight"
  /\ \/ Exit(1) /\ UNCHANGED marker
     \/ /\ Marker("start", "continue") = "none"
        /\ Publish("start", "ready", "ready") /\ WrapperGoto("start")
  /\ Spend("prepare")
  /\ UNCHANGED <<wrapperOnly, generator>>

(* Mutation: the wrapper waits for the answer as long as it takes. *)
AwaitStart_Forever ==
  /\ wrapper.at = "start" /\ Marker("start", "continue") # "none"
  /\ IF Marker("start", "continue") = "continue"
     THEN WrapperGoto("generator") /\ generator' = "running"
     ELSE Exit(1) /\ UNCHANGED generator
  /\ UNCHANGED <<wrapperOnly, marker, spent>>

(* The handshake gives up after its timeout, and an abort ends the wrapper.*)
(* The generator has to be told to start; when it failed the wrapper does  *)
(* not go on to the postlude but still takes part in the end.              *)
AwaitStart ==
  /\ wrapper.at = "start"
  /\ IF Marker("start", "continue") = "continue"
     THEN WrapperGoto("generator") /\ generator' = "running"
     ELSE Exit(1) /\ UNCHANGED generator
  /\ UNCHANGED <<wrapperOnly, marker, spent>>

GeneratorCall(q) ==
  /\ generator = "running" /\ spent["generator"] < MaxCalls
  /\ Spend("generator")
  /\ called' = [called EXCEPT ![q] = @ + 1]
  /\ server' = [server EXCEPT !.entry[q].calls = @ + 1]
  /\ UNCHANGED <<driver, thread, stop, accepted, marker, wrapper, generator,
                 refresh, faults>>

GeneratorEnds ==
  /\ generator = "running" /\ generator' = "over"
  /\ IF wrapper.at = "generator"
     THEN \E code \in {0, 1} : wrapper' = [at |-> "ending", exit |-> code]
     ELSE UNCHANGED wrapper
  /\ UNCHANGED <<wrapperOnly, marker, spent>>

AnnounceEnd ==
  /\ wrapper.at = "ending" /\ Marker("end", "continue") = "none"
  /\ Publish("end", "ready", "ready") /\ WrapperGoto("end")
  /\ UNCHANGED <<wrapperOnly, generator, spent>>

AwaitEnd ==
  /\ wrapper.at = "end"
  /\ IF Marker("end", "continue") # "continue" THEN Exit(1)
     ELSE IF wrapper.exit # 0 THEN Exit(wrapper.exit) ELSE WrapperGoto("postlude")
  /\ UNCHANGED <<wrapperOnly, marker, generator, spent>>

(* The forced snapshot and the verifier.                                   *)
Postlude ==
  /\ wrapper.at = "postlude"
  /\ \E code \in {0, 1} : Exit(code)
  /\ Spend("postlude")
  /\ UNCHANGED <<wrapperOnly, marker, generator>>

WrapperStep == Preflight \/ AwaitStart \/ AnnounceEnd \/ AwaitEnd \/ Postlude

-----------------------------------------------------------------------------
(* The monitoring threads.  A sample runs psql and reads the cgroup files  *)
(* in both containers, so it costs them as the probes do.                  *)
threadOnly == <<driver, stop, marker, wrapper, generator, server, called>>

Charge(t) == Spend(IF t = "sample" THEN "sample" ELSE "probe")

Good(t) == thread' = [thread EXCEPT ![t].at = "between", ![t].done = @ + 1]
Failed(t) == thread' = [thread EXCEPT ![t].at = "between", ![t].errors = @ + 1]
GivenUp(t) == thread' = [thread EXCEPT ![t].at = "between", ![t].errors = @ + 1,
                                       ![t].left = @ + 1]

(* The acceptance runs once, when the workload has been let go and a       *)
(* sample has seen the collector advance.                                  *)
StartBatch(t) ==
  /\ thread[t].at = "between" /\ ~stop
  /\ thread[t].done + thread[t].errors < IF t = "acceptance" THEN 1 ELSE MaxBatches[t]
  /\ t = "acceptance" => "start" \in driver.sent /\ thread["sample"].done > 0
  /\ thread' = [thread EXCEPT ![t].at = "busy"]
  /\ UNCHANGED <<threadOnly, accepted, spent, refresh, faults>>

(* What a batch costs is charged at its end, so one that is still in       *)
(* flight at a boundary lies behind it.  A command that times out is given *)
(* up: its docker client is killed, but what it runs in the container goes *)
(* on.  A cached answer of the API may leave a refresh behind.             *)
EndBatch(t) ==
  /\ thread[t].at = "busy"
  /\ \/ Good(t) /\ Charge(t) /\ UNCHANGED faults
     \/ Failed(t) /\ Charge(t) /\ Fault
     \/ GivenUp(t) /\ UNCHANGED spent /\ Fault
  /\ IF t = "api" /\ refresh = "none" THEN refresh' \in {"none", "refresh"}
                                      ELSE UNCHANGED refresh
  /\ accepted' = IF t # "acceptance" \/ faults' # faults THEN accepted
                 ELSE IF driver.over THEN "late" ELSE "during"
  /\ UNCHANGED threadOnly

LeftoverEnds(t) ==
  /\ thread[t].left > 0 /\ thread' = [thread EXCEPT ![t].left = @ - 1]
  /\ Charge(t)
  /\ UNCHANGED <<threadOnly, accepted, refresh, faults>>

-----------------------------------------------------------------------------
(* The driver.                                                             *)
driverOnly == <<accepted, generator, server, called, refresh>>

DriverGoto(place) == driver' = [driver EXCEPT !.at = place]

(* Image, seed and warm-up, the repository idle; then the wrapper starts.  *)
StartWrapper ==
  /\ driver.at = "prepare" /\ refresh = "none"
  /\ DriverGoto("start") /\ WrapperGoto("preflight") /\ Spend("prepare")
  /\ UNCHANGED <<driverOnly, thread, stop, marker, faults>>

SeeStart ==
  /\ driver.at = "start" /\ Marker("start", "ready") = "ready"
  /\ DriverGoto("baseline")
  /\ UNCHANGED <<driverOnly, thread, stop, marker, wrapper, spent, faults>>

(* A baseline reads PostgreSQL first and the containers last.              *)
BaselineStatements ==
  /\ driver.at = "baseline"
  /\ driver' = [driver EXCEPT !.at = "containers", !.before = [entry |-> Statements]]
  /\ Spend("metric")
  /\ UNCHANGED <<driverOnly, thread, stop, marker, wrapper, faults>>

(* A baseline with a backlog or an unhealthy collector is taken again.     *)
BaselineContainers ==
  /\ driver.at = "containers"
  /\ \/ driver' = [driver EXCEPT !.at = "threads",
                     !.before = [entry |-> @.entry, box |-> Containers]]
     \/ spent["metric"] = 1 /\ DriverGoto("baseline")
  /\ UNCHANGED <<driverOnly, thread, stop, marker, wrapper, spent, faults>>

StartThreads ==
  /\ driver.at = "threads" /\ DriverGoto("release")
  /\ thread' = [t \in Thread |->
       IF t = "acceptance" /\ ~AcceptanceRequired THEN thread[t]
       ELSE [thread[t] EXCEPT !.at = "between"]]
  /\ UNCHANGED <<driverOnly, stop, marker, wrapper, spent, faults>>

(* The marker first, then the flag and workload_active.                    *)
Release(phase) ==
  /\ driver.at = (IF phase = "start" THEN "release" ELSE "finish")
  /\ Publish(phase, "continue", "continue")
  /\ DriverGoto(IF phase = "start" THEN "released" ELSE "finished")
  /\ UNCHANGED <<driverOnly, thread, stop, wrapper, spent, faults>>

Released(phase) ==
  /\ driver.at = (IF phase = "start" THEN "released" ELSE "finished")
  /\ driver' = [driver EXCEPT !.at = IF phase = "start" THEN "load" ELSE "exit",
                              !.sent = @ \cup {phase}]
  /\ UNCHANGED <<driverOnly, thread, stop, marker, wrapper, spent, faults>>

SeeEnd ==
  /\ driver.at = "load" /\ Marker("end", "ready") = "ready"
  /\ driver' = [driver EXCEPT !.at = "join", !.over = TRUE]
  /\ stop' = TRUE
  /\ UNCHANGED <<driverOnly, thread, marker, wrapper, spent, faults>>

(* stop_monitors joins each thread with a timeout.  One that waits between *)
(* two batches ends at once; one that is still alive then counts as an     *)
(* error of its kind.                                                      *)
Alive(t) == thread[t].at = "busy"

(* Mutation: nobody asks whether the thread has ended. *)
Join_Unchecked ==
  /\ driver.at \in {"join", "joinAborted"}
  /\ DriverGoto(IF driver.at = "join" THEN "idle" ELSE "kill")
  /\ UNCHANGED <<driverOnly, thread, stop, marker, wrapper, spent, faults>>

Join ==
  /\ driver.at \in {"join", "joinAborted"}
  /\ thread' = [t \in Thread |-> IF Alive(t) THEN [thread[t] EXCEPT !.errors = @ + 1]
                                 ELSE thread[t]]
  /\ DriverGoto(IF driver.at = "join" THEN "idle" ELSE "kill")
  /\ UNCHANGED <<driverOnly, stop, marker, wrapper, spent, faults>>

(* wait_for_repository_cache_refresh: a refresh that a probe has triggered *)
(* shows in pg_stat_activity within idle_stability_seconds.  The polls run *)
(* in the repository container.                                            *)
Idle ==
  /\ driver.at = "idle" /\ refresh = "none"
  /\ DriverGoto("measured") /\ Spend("poll")
  /\ UNCHANGED <<driverOnly, thread, stop, marker, wrapper, faults>>

(* A final snapshot reads the containers first and PostgreSQL last.        *)
FinalContainers ==
  /\ driver.at = "measured"
  /\ driver' = [driver EXCEPT !.at = "statements", !.after = [box |-> Containers]]
  /\ UNCHANGED <<driverOnly, thread, stop, marker, wrapper, spent, faults>>

FinalStatements ==
  /\ driver.at = "statements"
  /\ driver' = [driver EXCEPT !.at = "finish",
                  !.after = [entry |-> Statements, box |-> @.box]]
  /\ Spend("metric")
  /\ UNCHANGED <<driverOnly, thread, stop, marker, wrapper, faults>>

(* calculate_entry_continuity: every baseline entry survived as it was.    *)
Continuous(before, after) ==
  \A q \in DOMAIN before : q \in DOMAIN after /\ after[q].since = before[q].since

(* calculate_delta, on the containers: what they spent in between.         *)
Delta(before, after) == [a \in Activity |-> after.box.cost[a] - before.box.cost[a]]
Total(cost) == MapThenSumSet(LAMBDA a : cost[a], Activity)

(* The difference is one of counters that ran through: none went back, no  *)
(* container is another, no entry was lost or reset.                       *)
CountersRanThrough ==
  /\ Total(Delta(driver.before, driver.after)) >= 0
  /\ driver.after.box.epoch = driver.before.box.epoch
  /\ Continuous(driver.before.entry, driver.after.entry)

(* calculate_peaks, calculate_api_metrics: batches that did not fail, and  *)
(* few enough that did.  No API error is tolerated.                        *)
ThreadsMeasured ==
  /\ thread["sample"].errors <= MaxSamplingErrors /\ thread["sample"].done > 0
  /\ thread["api"].errors = 0 /\ thread["api"].done > 0

(* full_acceptance and its overlap with the generator. *)
AcceptanceOverlapped == AcceptanceRequired => accepted = "during"

(* The guardrails that decide whether the difference can be trusted; a     *)
(* ceiling on a measured value is left out.                                *)
Guardrails ==
  wrapper.exit = 0 /\ CountersRanThrough /\ ThreadsMeasured /\ AcceptanceOverlapped

Report ==
  /\ driver.at = "exit" /\ wrapper.at = "exited"
  /\ driver' = [driver EXCEPT !.at = "ended",
                  !.report = IF Guardrails THEN "PASSED" ELSE "FAILED"]
  /\ UNCHANGED <<driverOnly, thread, stop, marker, wrapper, spent, faults>>

-----------------------------------------------------------------------------
(* What goes wrong for the driver: a marker or an idle repository that     *)
(* does not come in time, a wrapper that has exited, a command that fails, *)
(* an interrupt between any two steps.                                     *)
Waiting == driver.at \in {"prepare", "start", "containers", "load", "idle"}
Working == driver.at \in {"baseline", "threads", "release", "released", "join", "measured",
                          "statements", "finish", "finished", "exit"}

Raise ==
  /\ \/ Waiting /\ UNCHANGED faults
     \/ Working /\ Fault
  /\ driver' = [driver EXCEPT !.at = IF @ = "prepare" THEN "ended" ELSE "abort",
                              !.before = <<>>, !.after = <<>>]
  /\ UNCHANGED <<driverOnly, thread, stop, marker, wrapper, spent>>

(* The phase that is ready and has not been answered is aborted; a marker  *)
(* that is already there stays.                                            *)
Unanswered(phase) ==
  /\ phase \notin driver.sent /\ (phase = "end" => "start" \in driver.sent)
  /\ Marker(phase, "ready") = "ready" /\ Marker(phase, "continue") = "none"

Abort ==
  /\ driver.at = "abort" /\ stop' = TRUE
  /\ marker' = [m \in DOMAIN marker |->
       IF m[2] = "continue" /\ Unanswered(m[1]) THEN "abort" ELSE marker[m]]
  /\ DriverGoto("joinAborted")
  /\ UNCHANGED <<driverOnly, thread, wrapper, spent, faults>>

(* The process group of the wrapper ends; the container may live on.       *)
StopProcess ==
  /\ driver.at = "kill" /\ DriverGoto("ended")
  /\ IF wrapper.at = "exited" THEN UNCHANGED wrapper ELSE Exit(1)
  /\ UNCHANGED <<driverOnly, thread, stop, marker, spent, faults>>

(* The driver is killed, its threads with it.  The wrapper has a session   *)
(* of its own and goes on.                                                 *)
Die ==
  /\ driver.at \notin {"ended", "dead"} /\ Fault
  /\ driver' = [driver EXCEPT !.at = "dead", !.before = <<>>, !.after = <<>>]
  /\ thread' = [t \in Thread |-> [at |-> "off", done |-> 0, errors |-> 0, left |-> 0]]
  /\ UNCHANGED <<driverOnly, stop, marker, wrapper, spent>>

DriverStep ==
  \/ StartWrapper \/ SeeStart \/ BaselineStatements \/ BaselineContainers
  \/ StartThreads \/ SeeEnd \/ Join \/ Idle \/ FinalContainers \/ FinalStatements
  \/ Report \/ Raise \/ Abort \/ StopProcess
  \/ \E phase \in {"start", "end"} : Release(phase) \/ Released(phase)

Ended ==
  /\ driver.at \in {"ended", "dead"} /\ wrapper.at \in {"off", "exited"}
  /\ UNCHANGED vars

Next ==
  \/ DriverStep \/ Die \/ WrapperStep
  \/ \E q \in Query : GeneratorCall(q) \/ LoseEntry(q)
  \/ GeneratorEnds \/ RefreshEnds \/ Restart
  \/ \E t \in Thread : StartBatch(t) \/ EndBatch(t) \/ LeftoverEnds(t)
  \/ Ended

(* The driver and the wrapper go on, every wait of theirs has a timeout;   *)
(* only process.wait() has none, and the wrapper's own commands are        *)
(* assumed to end.  The workload ends after its duration.                  *)
Fairness ==
  WF_vars(DriverStep) /\ WF_vars(WrapperStep) /\ WF_vars(GeneratorEnds)

Spec == Init /\ [][Next]_vars
FairSpec == Spec /\ Fairness

-----------------------------------------------------------------------------
(***************************************************************************)
(* A report that passed measured all of the generator's run, its calls,    *)
(* the probes, the refreshes they caused and the wait for these; nothing   *)
(* of the preparation, the warm-up, the metric SQL or the postlude; across *)
(* no restart, eviction or reset.  Of the samples it may miss as many as   *)
(* it tolerates sampling errors: those that were in flight after the join, *)
(* or given up but not over, when the containers were read                 *)
(* (erp_stack_benchmark.py:1924-1973, 4121-4143, 4220-4238, 4326-4338).    *)
(***************************************************************************)
MeasuredExactly ==
  driver.report = "PASSED" =>
    LET before == driver.before  after == driver.after
        cost == Delta(before, after) IN
    /\ \A a \in {"generator", "probe", "refresh", "poll"} : cost[a] = spent[a]
    /\ \A a \in {"prepare", "warm", "metric", "postlude"} : cost[a] = 0
    /\ spent["sample"] - cost["sample"] \in 0..MaxSamplingErrors
    /\ \A q \in DOMAIN before.entry :
         after.entry[q].calls - before.entry[q].calls = called[q]

(***************************************************************************)
(* Neither process is left waiting for the other: whichever times out,     *)
(* fails or is killed, the driver ends and the wrapper has exited          *)
(* (erp_stack_benchmark.py:1019-1039, 4245-4267).                          *)
(***************************************************************************)
BenchmarkEnds ==
  <>(driver.at \in {"ended", "dead"} /\ wrapper.at \in {"off", "exited"})
=============================================================================
