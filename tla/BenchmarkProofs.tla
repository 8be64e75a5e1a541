--------------------------- MODULE BenchmarkProofs ---------------------------
(***************************************************************************)
(* For any set of statements, any number of calls, batches and failures:   *)
(* what a benchmark report that passed has measured, and how much of the   *)
(* sampling it may have missed.                                            *)
(***************************************************************************)
EXTENDS Benchmark, TLAPS

Counted == [since : Nat, calls : Nat]
Entries == UNION {[S -> Counted] : S \in SUBSET Query}
Box == [epoch : Nat, cost : [Activity -> Int]]
Snapshot ==
  {<<>>} \cup [entry : Entries] \cup [box : Box] \cup [entry : Entries, box : Box]

(* The driver's places on the way to a report, in order.                   *)
Baselining == {"prepare", "start", "baseline", "containers", "threads"}
Held       == Baselining \cup {"release"}
Running    == {"released", "load", "join", "idle", "measured"}
Closing    == {"statements", "finish", "finished", "exit", "ended"}
Joined     == {"idle", "measured"} \cup Closing
Place      == Held \cup Running \cup Closing \cup {"abort", "joinAborted", "kill", "dead"}

(* No exception has been raised.                                           *)
Reporting ==
  /\ driver.at \notin {"abort", "joinAborted", "kill", "dead"}
  /\ driver.at = "ended" => driver.report # "none"

DriverType ==
  /\ driver \in [at : Place, sent : SUBSET {"start", "end"}, over : BOOLEAN,
                 before : Snapshot, after : Snapshot,
                 report : {"none", "PASSED", "FAILED"}]
  /\ driver.at # "ended" => driver.report = "none"
  /\ driver.at = "containers" => driver.before \in [entry : Entries]
  /\ Reporting /\ driver.at \notin Baselining \ {"threads"} =>
       driver.before \in [entry : Entries, box : Box]
  /\ driver.at = "statements" => driver.after \in [box : Box]
  /\ Reporting /\ driver.at \in Closing \ {"statements"} =>
       driver.after \in [entry : Entries, box : Box]

ThreadType ==
  /\ thread \in [Thread -> [at : {"off", "between", "busy"}, done : Nat,
                         errors : Nat, left : Nat]]
  /\ stop \in BOOLEAN
  /\ accepted \in {"none", "during", "late"}
  /\ faults \in Nat

SyncType ==
  /\ marker \in [{"start", "end"} \X {"ready", "continue"} ->
                   {"none", "ready", "continue", "abort"}]
  /\ wrapper \in [at : {"off", "preflight", "start", "generator", "ending", "end",
                        "postlude", "exited"},
                  exit : Int]
  /\ generator \in {"off", "running", "over"}

CounterType ==
  /\ server \in [epoch : Nat, base : [Activity -> Int], entry : [Query -> Counted]]
  /\ spent \in [Activity -> Nat]
  /\ called \in [Query -> Nat]
  /\ refresh \in {"none", "warm", "refresh"}

TypeInv == DriverType /\ ThreadType /\ SyncType /\ CounterType

(* No exception has been raised, and a report that is there has passed.    *)
Sound == Reporting /\ driver.report # "FAILED"

(* The marker files keep the preparation before the baseline, the whole    *)
(* generator between the baseline and the final snapshot, and the postlude *)
(* after it.                                                               *)
Handshake ==
  /\ driver.at = "prepare" => wrapper.at = "off"
  /\ wrapper.at \in {"off", "preflight"} => Marker("start", "ready") = "none"
  /\ wrapper.at \in {"off", "preflight", "start"} => generator = "off"
  /\ driver.at \notin {"prepare", "start"} => Marker("start", "ready") = "ready"
  /\ driver.at \in Held => Marker("start", "continue") = "none"
  /\ generator # "off" => Marker("start", "continue") = "continue"
  /\ wrapper.at \in {"ending", "end", "postlude"} => generator = "over"
  /\ Marker("end", "ready") # "none" => generator = "over"
  /\ driver.at \in {"join"} \cup Joined =>
       Marker("end", "ready") = "ready" /\ stop /\ driver.over
  /\ driver.at \in Held \cup Running \cup {"statements", "finish"} =>
       Marker("end", "continue") = "none"
  /\ wrapper.at = "postlude" => Marker("end", "continue") = "continue"

(* Until the threads start nothing that is to be measured has been spent.  *)
Quiet ==
  /\ refresh = "warm" => driver.at = "prepare"
  /\ driver.at \in Baselining =>
       /\ \A t \in Thread : thread[t] = [at |-> "off", done |-> 0, errors |-> 0, left |-> 0]
       /\ spent["probe"] = 0 /\ spent["refresh"] = 0 /\ spent["sample"] = 0
       /\ spent["poll"] = 0
       /\ accepted = "none" /\ refresh # "refresh"
  /\ generator = "off" => spent["generator"] = 0 /\ \A q \in Query : called[q] = 0

(* What a thread still has to spend after its last batch was started.      *)
Pending(t) == thread[t].left + (IF Alive(t) THEN 1 ELSE 0)

(* Whatever a thread has left behind it has counted as an error, after the *)
(* join also a batch in flight; an acceptance that answers then is late.   *)
Stopped ==
  /\ ~AcceptanceRequired => thread["acceptance"].at = "off" /\ thread["acceptance"].left = 0
  /\ thread["acceptance"].at = "busy" => thread["acceptance"].left = 0
  /\ accepted # "none" =>
       /\ thread["acceptance"].done > 0 /\ thread["acceptance"].at # "busy"
       /\ thread["acceptance"].left = 0
  /\ \A t \in Thread : thread[t].left <= thread[t].errors
  /\ driver.at \in Joined => \A t \in Thread : Pending(t) <= thread[t].errors
  /\ driver.at \in {"measured"} \cup Closing /\ thread["api"].errors = 0 => refresh = "none"

(* What is measured from its beginning, and what must not be.              *)
Measured == {"generator", "probe", "refresh", "poll"}
Excluded == {"prepare", "warm", "metric", "postlude"}

(* Since the baseline the counters have gone on with nothing that is to be *)
(* left out, and what is to be measured has been spent since, unless a     *)
(* container or an entry is not the one it was.                            *)
Counting ==
  /\ driver.at \in {"containers", "threads", "release"} \cup Running \cup {"statements"} =>
       \A q \in DOMAIN driver.before.entry :
         /\ driver.before.entry[q].since <= server.entry[q].since
         /\ driver.before.entry[q].since = server.entry[q].since =>
              server.entry[q].calls - driver.before.entry[q].calls = called[q]
  /\ driver.at \in {"threads", "release"} \cup Running =>
       /\ driver.before.box.epoch <= server.epoch
       /\ driver.before.box.epoch = server.epoch =>
            /\ \A a \in Measured \cup {"sample"} :
                 driver.before.box.cost[a] = 0 - server.base[a]
            /\ \A a \in Excluded :
                 driver.before.box.cost[a] = spent[a] - server.base[a]

(* The difference of the snapshots stays what was measured while the       *)
(* report is written.                                                      *)
Untouched == thread["api"].errors = 0 /\ AcceptanceOverlapped

Cost == Delta(driver.before, driver.after)

(* Samples that were paid for after the containers were read.              *)
Late == spent["sample"] - Cost["sample"]

SamplesJudged ==
  /\ Late >= 0
  /\ driver.at = "ended" => Late + Pending("sample") <= MaxSamplingErrors
  /\ driver.at # "ended" => Late + Pending("sample") <= thread["sample"].errors

Judged ==
  /\ driver.at \in Closing /\ driver.after.box.epoch = driver.before.box.epoch =>
       /\ Untouched => \A a \in Measured : Cost[a] = spent[a]
       /\ \A a \in Excluded : Cost[a] = 0
       /\ SamplesJudged
  /\ driver.at \in Closing \ {"statements"} =>
       \A q \in DOMAIN driver.before.entry :
         q \in DOMAIN driver.after.entry
           /\ driver.after.entry[q].since = driver.before.entry[q].since
         => driver.after.entry[q].calls - driver.before.entry[q].calls = called[q]
  /\ driver.at = "ended" => Untouched /\ CountersRanThrough

Core == Handshake /\ Quiet /\ Stopped /\ Counting /\ Judged

BenchmarkInv == TypeInv /\ (Sound => Core)

-----------------------------------------------------------------------------

(* Snapshots are well typed.                                               *)
LEMMA StatementsType ==
  ASSUME CounterType
  PROVE  Statements \in Entries
<1> DEFINE S == {p \in Query : server.entry[p].calls > 0}
<1>1. \A q \in S : server.entry[q] \in Counted
  BY DEF CounterType
<1>2. Statements \in [S -> Counted]
  BY <1>1 DEF Statements
<1> QED BY <1>2 DEF Entries

LEMMA ContainersType ==
  ASSUME CounterType
  PROVE  Containers \in Box
<1>1. \A a \in Activity : spent[a] - server.base[a] \in Int
  BY DEF CounterType
<1> QED BY <1>1 DEF CounterType, Containers, Box

-----------------------------------------------------------------------------
LEMMA DriverTypeStep ==
  ASSUME TypeInv, [Next]_vars
  PROVE  DriverType'
<1> USE DEF TypeInv, DriverType, Place, Held, Baselining, Running, Closing, DriverGoto,
            Reporting, driverOnly, wrapperOnly, threadOnly
<1>1. CASE StartWrapper
  BY <1>1 DEF StartWrapper
<1>2. CASE SeeStart
  BY <1>2 DEF SeeStart
<1>3. CASE BaselineStatements
  BY <1>3, StatementsType DEF BaselineStatements, Snapshot
<1>4. CASE BaselineContainers
  <2>1. driver.before.entry \in Entries /\ Containers \in Box
    BY <1>4, ContainersType DEF DriverType, BaselineContainers
  <2>2. DEFINE b == [entry |-> driver.before.entry, box |-> Containers]
  <2>3. b \in [entry : Entries, box : Box]
    BY <2>1
  <2> HIDE DEF b
  <2>4. CASE driver' = [driver EXCEPT !.at = "threads", !.before = b]
    BY <2>3, <2>4, <1>4 DEF BaselineContainers, DriverType, Snapshot, Place, Held,
                            Baselining,
                            Running, Closing, Reporting
  <2>5. CASE DriverGoto("baseline")
    BY <2>5, <1>4 DEF BaselineContainers, DriverGoto, DriverType, Place, Held, Baselining,
                      Running, Closing, Reporting
  <2> QED BY <1>4, <2>4, <2>5 DEF BaselineContainers, b
<1>5. CASE StartThreads
  BY <1>5 DEF StartThreads
<1>6. CASE SeeEnd
  BY <1>6 DEF SeeEnd
<1>7. CASE Join
  BY <1>7 DEF Join
<1>8. CASE Idle
  BY <1>8 DEF Idle
<1>9. CASE FinalContainers
  BY <1>9, ContainersType DEF FinalContainers, Snapshot
<1>10. CASE FinalStatements
  BY <1>10, StatementsType DEF FinalStatements, Snapshot
<1>11. CASE Report
  BY <1>11 DEF Report
<1>12. CASE Raise
  <2>1. <<>> \in Snapshot
    BY DEF Snapshot
  <2>2. /\ driver' = [driver EXCEPT !.at = IF @ = "prepare" THEN "ended" ELSE "abort",
                                    !.before = <<>>, !.after = <<>>]
        /\ driver.at # "ended"
    BY <1>12 DEF Raise, Waiting, Working
  <2>3. driver'.at \in {"ended", "abort"} /\ driver'.report = "none"
    BY <2>2 DEF DriverType
  <2>4. driver' \in [at : Place, sent : SUBSET {"start", "end"}, over : BOOLEAN,
                     before : Snapshot, after : Snapshot,
                     report : {"none", "PASSED", "FAILED"}]
    BY <2>1, <2>2 DEF DriverType, Place, Closing
  <2> QED BY <2>3, <2>4 DEF DriverType, Reporting
<1>13. CASE Abort
  BY <1>13 DEF Abort
<1>14. CASE StopProcess
  BY <1>14 DEF StopProcess
<1>15. CASE Die
  BY <1>15 DEF Die, Snapshot
<1>16. CASE Release("start")
  BY <1>16 DEF Release
<1>17. CASE Release("end")
  BY <1>17 DEF Release
<1>18. CASE Released("start")
  BY <1>18 DEF Released
<1>19. CASE Released("end")
  BY <1>19 DEF Released
<1>20. CASE UNCHANGED driver
  BY <1>20 DEF DriverType, Reporting
<1> QED
  BY <1>1, <1>2, <1>3, <1>4, <1>5, <1>6, <1>7, <1>8, <1>9, <1>10, <1>11, <1>12, <1>13,
     <1>14, <1>15, <1>16, <1>17, <1>18, <1>19, <1>20
     DEF Next, DriverStep, WrapperStep, vars, Preflight, AwaitStart, AnnounceEnd, AwaitEnd,
         Postlude, GeneratorEnds, RefreshEnds, Restart, Ended, GeneratorCall, LoseEntry,
         StartBatch, EndBatch, LeftoverEnds

LEMMA ThreadTypeStep ==
  ASSUME TypeInv, [Next]_vars
  PROVE  ThreadType'
<1> USE DEF TypeInv, ThreadType, Fault, Good, Failed, GivenUp, Thread, driverOnly, wrapperOnly,
            threadOnly
<1>1. CASE StartThreads
  BY <1>1 DEF StartThreads
<1>2. CASE SeeEnd
  BY <1>2 DEF SeeEnd
<1>3. CASE Join
  BY <1>3 DEF Join
<1>4. CASE Raise
  BY <1>4 DEF Raise
<1>5. CASE Abort
  BY <1>5 DEF Abort
<1>6. CASE Die
  BY <1>6 DEF Die
<1>7. CASE Restart
  BY <1>7 DEF Restart
<1>8. ASSUME NEW q \in Query, LoseEntry(q) PROVE ThreadType'
  BY <1>8 DEF LoseEntry
<1>9. ASSUME NEW t \in Thread, StartBatch(t) PROVE ThreadType'
  BY <1>9 DEF StartBatch
<1>10. ASSUME NEW t \in Thread, EndBatch(t) PROVE ThreadType'
  BY <1>10 DEF EndBatch
<1>12. ASSUME NEW t \in Thread, LeftoverEnds(t) PROVE ThreadType'
  BY <1>12 DEF LeftoverEnds
<1>11. CASE UNCHANGED <<thread, stop, accepted, faults>>
  BY <1>11 DEF ThreadType
<1> QED
  BY <1>1, <1>2, <1>3, <1>4, <1>5, <1>6, <1>7, <1>8, <1>9, <1>10, <1>11, <1>12
     DEF Next, DriverStep, WrapperStep, vars, StartWrapper, SeeStart, BaselineStatements,
         BaselineContainers, Idle, FinalContainers, FinalStatements, Report, StopProcess,
         Release, Released, Preflight, AwaitStart, AnnounceEnd, AwaitEnd, Postlude,
         GeneratorEnds, RefreshEnds, Ended, GeneratorCall

LEMMA SyncTypeStep ==
  ASSUME TypeInv, [Next]_vars
  PROVE  SyncType'
<1> USE DEF TypeInv, SyncType, Publish, Marker, WrapperGoto, Exit, driverOnly, wrapperOnly,
            threadOnly
<1>1. CASE StartWrapper
  BY <1>1 DEF StartWrapper
<1>2. CASE Abort
  BY <1>2 DEF Abort
<1>3. CASE StopProcess
  BY <1>3 DEF StopProcess
<1>4. CASE Preflight
  BY <1>4 DEF Preflight
<1>5. CASE AwaitStart
  BY <1>5 DEF AwaitStart
<1>6. CASE AnnounceEnd
  BY <1>6 DEF AnnounceEnd
<1>7. CASE AwaitEnd
  BY <1>7 DEF AwaitEnd
<1>8. CASE Postlude
  BY <1>8 DEF Postlude
<1>9. CASE GeneratorEnds
  BY <1>9 DEF GeneratorEnds
<1>10. CASE Release("start")
  BY <1>10 DEF Release
<1>11. CASE Release("end")
  BY <1>11 DEF Release
<1>12. CASE UNCHANGED <<marker, wrapper, generator>>
  BY <1>12 DEF SyncType
<1> QED
  BY <1>1, <1>2, <1>3, <1>4, <1>5, <1>6, <1>7, <1>8, <1>9, <1>10, <1>11, <1>12
     DEF Next, DriverStep, WrapperStep, vars, SeeStart, BaselineStatements,
         BaselineContainers, StartThreads, SeeEnd, Join, Idle, FinalContainers,
         FinalStatements, Report, Raise, Released, Die, RefreshEnds, Restart, Ended,
         GeneratorCall, LoseEntry, StartBatch, EndBatch, LeftoverEnds

(* Another entry for one statement keeps the containers well typed.        *)
LEMMA EntryType ==
  ASSUME CounterType, NEW q \in Query, NEW e \in Counted
  PROVE  [server EXCEPT !.entry[q] = e] \in
           [epoch : Nat, base : [Activity -> Int], entry : [Query -> Counted]]
<1> DEFINE f == [server.entry EXCEPT ![q] = e]
<1>1. f \in [Query -> Counted]
  BY DEF CounterType
<1>2. [server EXCEPT !.entry[q] = e] = [epoch |-> server.epoch, base |-> server.base, entry |-> f]
  BY DEF CounterType
<1> HIDE DEF f
<1> QED BY <1>1, <1>2 DEF CounterType

LEMMA CounterTypeStep ==
  ASSUME TypeInv, [Next]_vars
  PROVE  CounterType'
<1> USE DEF TypeInv, CounterType, Counted, Spend, Charge, Activity, driverOnly, wrapperOnly,
            threadOnly
<1>1. CASE BaselineStatements
  BY <1>1 DEF BaselineStatements
<1>2. CASE FinalStatements
  BY <1>2 DEF FinalStatements
<1>3. CASE Preflight
  BY <1>3 DEF Preflight
<1>4. CASE Postlude
  BY <1>4 DEF Postlude
<1>5. CASE RefreshEnds
  BY <1>5 DEF RefreshEnds
<1>6. CASE Restart
  <2>1. server' = [epoch |-> server.epoch + 1, base |-> spent, entry |-> server.entry]
    BY <1>6 DEF Restart
  <2>2. server.epoch + 1 \in Nat /\ server.entry \in [Query -> Counted]
    BY DEF CounterType
  <2>3. server' \in [epoch : Nat, base : [Activity -> Int], entry : [Query -> Counted]]
    BY <2>1, <2>2
  <2>4. UNCHANGED <<spent, called, refresh>>
    BY <1>6 DEF Restart
  <2> QED BY <2>3, <2>4 DEF CounterType
<1>7. ASSUME NEW q \in Query, GeneratorCall(q) PROVE CounterType'
  <2> DEFINE e == [since |-> server.entry[q].since, calls |-> server.entry[q].calls + 1]
             f == [server.entry EXCEPT ![q] = e]
  <2>1. e \in Counted /\ f \in [Query -> Counted]
    BY DEF CounterType, Counted
  <2>2. [server.entry EXCEPT ![q].calls = @ + 1] = f
    BY DEF CounterType, Counted
  <2>3. server' = [epoch |-> server.epoch, base |-> server.base,
                   entry |-> [server.entry EXCEPT ![q].calls = @ + 1]]
    BY <1>7 DEF GeneratorCall, CounterType
  <2> HIDE DEF e, f
  <2>4. server' \in [epoch : Nat, base : [Activity -> Int], entry : [Query -> Counted]]
    BY <2>1, <2>2, <2>3 DEF CounterType
  <2>5. spent' \in [Activity -> Nat] /\ called' \in [Query -> Nat] /\ UNCHANGED refresh
    BY <1>7 DEF GeneratorCall, Spend, CounterType, Activity
  <2> QED BY <2>4, <2>5 DEF CounterType
<1>8. ASSUME NEW q \in Query, LoseEntry(q) PROVE CounterType'
  <2>1. /\ server' = [server EXCEPT !.entry[q] = [since |-> @.since + 1, calls |-> 0]]
        /\ UNCHANGED <<spent, called, refresh>>
    BY <1>8 DEF LoseEntry
  <2>2. [since |-> server.entry[q].since + 1, calls |-> 0] \in Counted
    BY DEF CounterType, Counted
  <2>3. server' \in [epoch : Nat, base : [Activity -> Int], entry : [Query -> Counted]]
    BY <2>1, <2>2, EntryType
  <2> QED BY <2>1, <2>3 DEF CounterType
<1>9. ASSUME NEW t \in Thread, EndBatch(t) PROVE CounterType'
  BY <1>9 DEF EndBatch
<1>11. ASSUME NEW t \in Thread, LeftoverEnds(t) PROVE CounterType'
  BY <1>11 DEF LeftoverEnds
<1>12. CASE StartWrapper
  BY <1>12 DEF StartWrapper
<1>13. CASE Idle
  BY <1>13 DEF Idle
<1>10. CASE UNCHANGED <<server, spent, called, refresh>>
  BY <1>10 DEF CounterType
<1> QED
  BY <1>1, <1>2, <1>3, <1>4, <1>5, <1>6, <1>7, <1>8, <1>9, <1>10, <1>11, <1>12, <1>13
     DEF Next, DriverStep, WrapperStep, vars, SeeStart, BaselineContainers,
         StartThreads, SeeEnd, Join, FinalContainers, Report, Raise, Abort,
         StopProcess, Release, Released, Die, AwaitStart, AnnounceEnd, AwaitEnd,
         GeneratorEnds, Ended, StartBatch

LEMMA TypeStep == TypeInv /\ [Next]_vars => TypeInv'
BY DriverTypeStep, ThreadTypeStep, SyncTypeStep, CounterTypeStep DEF TypeInv

-----------------------------------------------------------------------------
(* The steps on the way to a report that passes.                           *)
BenignDriverStep ==
  \/ StartWrapper \/ SeeStart \/ BaselineStatements \/ BaselineContainers
  \/ StartThreads \/ SeeEnd \/ (driver.at = "join" /\ Join) \/ Idle
  \/ FinalContainers \/ FinalStatements \/ Report
  \/ Release("start") \/ Release("end") \/ Released("start") \/ Released("end")

Benign ==
  \/ BenignDriverStep \/ WrapperStep
  \/ \E q \in Query : GeneratorCall(q) \/ LoseEntry(q)
  \/ GeneratorEnds \/ RefreshEnds \/ Restart
  \/ \E t \in Thread : StartBatch(t) \/ EndBatch(t) \/ LeftoverEnds(t)
  \/ UNCHANGED vars

(* Nothing leads back from an exception to a report.                       *)
LEMMA SoundSteps ==
  ASSUME TypeInv, [Next]_vars, Sound'
  PROVE  Sound /\ Benign
<1> USE DEF TypeInv, Sound, Reporting
<1>1. CASE BenignDriverStep
  BY <1>1 DEF BenignDriverStep, Benign, DriverType, StartWrapper, SeeStart,
              BaselineStatements,
     BaselineContainers, StartThreads, SeeEnd, Join, Idle, FinalContainers, FinalStatements,
     Report, Release, Released, DriverGoto
<1>2. CASE Raise \/ Abort \/ StopProcess \/ Die \/ (driver.at = "joinAborted" /\ Join)
  <2>1. \/ driver'.at \in {"abort", "joinAborted", "kill", "dead"}
        \/ driver'.at = "ended" /\ driver.report = "none" /\ driver'.report = "none"
    BY <1>2 DEF Raise, Abort, StopProcess, Die, Join, DriverGoto, DriverType, Waiting,
                Working
  <2> QED BY <2>1
<1>3. CASE \/ WrapperStep \/ GeneratorEnds \/ RefreshEnds \/ Restart \/ Ended \/ UNCHANGED vars
           \/ \E q \in Query : GeneratorCall(q) \/ LoseEntry(q)
           \/ \E t \in Thread : StartBatch(t) \/ EndBatch(t) \/ LeftoverEnds(t)
  BY <1>3 DEF Benign, Preflight, AwaitStart, AnnounceEnd, AwaitEnd, Postlude, WrapperStep,
     GeneratorEnds, RefreshEnds, Restart, Ended, vars, GeneratorCall, LoseEntry, StartBatch,
     EndBatch, LeftoverEnds, wrapperOnly, threadOnly
<1>4. ASSUME DriverStep
      PROVE  \/ BenignDriverStep
             \/ Raise \/ Abort \/ StopProcess \/ (driver.at = "joinAborted" /\ Join)
  <2>1. ASSUME NEW phase \in {"start", "end"}, Release(phase) \/ Released(phase)
        PROVE  BenignDriverStep
    <3>1. CASE phase = "start" BY <2>1, <3>1, Zenon DEF BenignDriverStep
    <3>2. CASE phase = "end" BY <2>1, <3>2, Zenon DEF BenignDriverStep
    <3> QED BY <3>1, <3>2
  <2>2. Join => driver.at = "join" \/ driver.at = "joinAborted"
    BY DEF Join
  <2> QED BY <1>4, <2>1, <2>2, Zenon DEF DriverStep, BenignDriverStep
<1> HIDE DEF TypeInv, Sound, Reporting
<1> QED
  BY <1>1, <1>2, <1>3, <1>4, Zenon DEF Next

LEMMA HandshakeStep ==
  ASSUME TypeInv, TypeInv', Sound, Sound', Core, Benign
  PROVE  Handshake'
<1> USE DEF TypeInv, Core
<1>1. CASE BaselineContainers
  <2>1. /\ driver.at = "containers" /\ driver'.at \in {"threads", "baseline"}
        /\ UNCHANGED <<stop, marker, wrapper, generator>>
    BY <1>1 DEF BaselineContainers, DriverGoto, DriverType, driverOnly
  <2> QED BY <2>1 DEF Handshake, Marker, Held, Baselining, Running, Closing, Joined
<1>2. CASE UNCHANGED <<driver, stop, marker, wrapper, generator>>
  BY <1>2 DEF Handshake, Marker
<1>3. CASE \/ UNCHANGED vars \/ RefreshEnds \/ Restart
           \/ \E q \in Query : GeneratorCall(q)
           \/ \E q \in Query : LoseEntry(q)
           \/ \E t \in Thread : StartBatch(t)
           \/ \E t \in Thread : EndBatch(t)
           \/ \E t \in Thread : LeftoverEnds(t)
  <2>1. UNCHANGED <<driver, stop, marker, wrapper, generator>>
    BY <1>3 DEF vars, driverOnly, wrapperOnly, threadOnly, RefreshEnds, Restart,
                GeneratorCall, LoseEntry, StartBatch, EndBatch, LeftoverEnds
  <2> QED BY <2>1, <1>2
<1> USE DEF Handshake, DriverType, SyncType, Marker, DriverGoto, Held, Baselining, Running,
            Closing, Joined, Place
<1>4. CASE StartWrapper
  BY <1>4 DEF StartWrapper, driverOnly, WrapperGoto
<1>5. CASE SeeStart
  BY <1>5 DEF SeeStart, driverOnly
<1>6. CASE BaselineStatements
  BY <1>6 DEF BaselineStatements, driverOnly
<1>7. CASE StartThreads
  BY <1>7 DEF StartThreads, driverOnly
<1>8. CASE SeeEnd
  BY <1>8 DEF SeeEnd, driverOnly
<1>9. CASE driver.at = "join" /\ Join
  BY <1>9 DEF Join, driverOnly
<1>10. CASE Idle
  BY <1>10 DEF Idle, driverOnly
<1>11. CASE FinalContainers
  BY <1>11 DEF FinalContainers, driverOnly
<1>12. CASE FinalStatements
  BY <1>12 DEF FinalStatements, driverOnly
<1>13. CASE Report
  BY <1>13 DEF Report, driverOnly
<1>14. CASE Release("start")
  BY <1>14 DEF Release, driverOnly, Publish
<1>15. CASE Release("end")
  BY <1>15 DEF Release, driverOnly, Publish
<1>16. CASE Released("start")
  BY <1>16 DEF Released, driverOnly
<1>17. CASE Released("end")
  BY <1>17 DEF Released, driverOnly
<1>18. CASE Preflight
  BY <1>18 DEF Preflight, wrapperOnly, WrapperGoto, Exit, Publish
<1>19. CASE AwaitStart
  BY <1>19 DEF AwaitStart, wrapperOnly, WrapperGoto, Exit, Publish
<1>20. CASE AnnounceEnd
  BY <1>20 DEF AnnounceEnd, wrapperOnly, WrapperGoto, Exit, Publish
<1>21. CASE AwaitEnd
  BY <1>21 DEF AwaitEnd, wrapperOnly, WrapperGoto, Exit, Publish
<1>22. CASE Postlude
  BY <1>22 DEF Postlude, wrapperOnly, WrapperGoto, Exit, Publish
<1>23. CASE GeneratorEnds
  BY <1>23 DEF GeneratorEnds, wrapperOnly
<1> HIDE DEF TypeInv, Core, Handshake, DriverType, SyncType, Marker, DriverGoto, Held,
             Baselining, Running, Closing, Joined, Place
<1> QED
  BY <1>1, <1>2, <1>3, <1>4, <1>5, <1>6, <1>7, <1>8, <1>9, <1>10, <1>11, <1>12, <1>13,
     <1>14, <1>15, <1>16, <1>17, <1>18, <1>19, <1>20, <1>21, <1>22, <1>23
     DEF Benign, BenignDriverStep, WrapperStep

LEMMA QuietStep ==
  ASSUME TypeInv, TypeInv', Sound, Sound', Core, Benign
  PROVE  Quiet'
<1> USE DEF TypeInv, Core
<1>1. CASE UNCHANGED <<driver, thread, spent, accepted, refresh, generator, called>>
  BY <1>1 DEF Quiet
<1>2. CASE \/ UNCHANGED vars \/ Restart
           \/ \E q \in Query : LoseEntry(q)
  <2>1. UNCHANGED <<driver, thread, spent, accepted, refresh, generator, called>>
    BY <1>2 DEF vars, driverOnly, wrapperOnly, threadOnly, Restart, LoseEntry
  <2> QED BY <2>1, <1>1
<1> USE DEF Quiet, Handshake, DriverType, ThreadType, CounterType, Spend, Activity, Thread,
            DriverGoto, Held, Baselining, Running, Closing, Joined, Place
<1>3. CASE StartWrapper
  BY <1>3 DEF StartWrapper, driverOnly
<1>4. CASE SeeStart
  BY <1>4 DEF SeeStart, driverOnly
<1>5. CASE BaselineStatements
  BY <1>5 DEF BaselineStatements, driverOnly
<1>6. CASE BaselineContainers
  BY <1>6 DEF BaselineContainers, driverOnly
<1>7. CASE StartThreads
  BY <1>7 DEF StartThreads, driverOnly
<1>8. CASE SeeEnd
  BY <1>8 DEF SeeEnd, driverOnly
<1>9. CASE driver.at = "join" /\ Join
  BY <1>9 DEF Join, driverOnly
<1>10. CASE Idle
  BY <1>10 DEF Idle, driverOnly
<1>11. CASE FinalContainers
  BY <1>11 DEF FinalContainers, driverOnly
<1>12. CASE FinalStatements
  BY <1>12 DEF FinalStatements, driverOnly
<1>13. CASE Report
  BY <1>13 DEF Report, driverOnly
<1>14. CASE Release("start")
  BY <1>14 DEF Release, driverOnly
<1>15. CASE Release("end")
  BY <1>15 DEF Release, driverOnly
<1>16. CASE Released("start")
  BY <1>16 DEF Released, driverOnly
<1>17. CASE Released("end")
  BY <1>17 DEF Released, driverOnly
<1>18. CASE Preflight
  BY <1>18 DEF Preflight, wrapperOnly
<1>19. CASE AwaitStart
  BY <1>19 DEF AwaitStart, wrapperOnly
<1>20. CASE AnnounceEnd
  BY <1>20 DEF AnnounceEnd, wrapperOnly
<1>21. CASE AwaitEnd
  BY <1>21 DEF AwaitEnd, wrapperOnly
<1>22. CASE Postlude
  BY <1>22 DEF Postlude, wrapperOnly
<1>23. CASE GeneratorEnds
  BY <1>23 DEF GeneratorEnds, wrapperOnly
<1>24. CASE RefreshEnds
  BY <1>24 DEF RefreshEnds
<1>25. ASSUME NEW q \in Query, GeneratorCall(q) PROVE Quiet'
  BY <1>25 DEF GeneratorCall
<1>26. ASSUME NEW t \in Thread, StartBatch(t) PROVE Quiet'
  BY <1>26 DEF StartBatch, threadOnly, Good, Failed
<1>27. ASSUME NEW t \in Thread, EndBatch(t) PROVE Quiet'
  BY <1>27 DEF EndBatch, threadOnly, Good, Failed, GivenUp, Charge
<1>28. ASSUME NEW t \in Thread, LeftoverEnds(t) PROVE Quiet'
  BY <1>28 DEF LeftoverEnds, threadOnly, Charge
<1> HIDE DEF TypeInv, Core, Quiet, Handshake, DriverType, ThreadType, CounterType, Spend,
             Activity, Thread, DriverGoto, Held, Baselining, Running, Closing, Joined, Place
<1> QED
  BY <1>1, <1>2, <1>3, <1>4, <1>5, <1>6, <1>7, <1>8, <1>9, <1>10, <1>11, <1>12, <1>13,
     <1>14, <1>15, <1>16, <1>17, <1>18, <1>19, <1>20, <1>21, <1>22, <1>23, <1>24, <1>25,
     <1>26, <1>27, <1>28
     DEF Benign, BenignDriverStep, WrapperStep

LEMMA StoppedStep ==
  ASSUME TypeInv, TypeInv', Sound, Sound', Core, Benign
  PROVE  Stopped'
<1> USE DEF TypeInv, Core
<1>1. CASE UNCHANGED <<driver, thread, accepted, refresh>>
  BY <1>1 DEF Stopped, Pending, Alive
<1>2. CASE \/ UNCHANGED vars \/ WrapperStep \/ GeneratorEnds \/ Restart
           \/ \E q \in Query : GeneratorCall(q)
           \/ \E q \in Query : LoseEntry(q)
  <2>1. UNCHANGED <<driver, thread, accepted, refresh>>
    BY <1>2 DEF vars, driverOnly, wrapperOnly, threadOnly, WrapperStep, Preflight, AwaitStart,
                AnnounceEnd, AwaitEnd, Postlude, GeneratorEnds, Restart, GeneratorCall,
                LoseEntry
  <2> QED BY <2>1, <1>1
<1> USE DEF Stopped, Quiet, Handshake, DriverType, ThreadType, CounterType, Thread, Alive, Pending,
            DriverGoto, Held, Baselining, Running, Closing, Joined, Place
<1>3. CASE StartWrapper
  BY <1>3 DEF StartWrapper, driverOnly
<1>4. CASE SeeStart
  BY <1>4 DEF SeeStart, driverOnly
<1>5. CASE BaselineStatements
  BY <1>5 DEF BaselineStatements, driverOnly
<1>6. CASE BaselineContainers
  BY <1>6 DEF BaselineContainers, driverOnly
<1>7. CASE StartThreads
  BY <1>7 DEF StartThreads, driverOnly
<1>8. CASE SeeEnd
  BY <1>8 DEF SeeEnd, driverOnly
<1>9. CASE driver.at = "join" /\ Join
  BY <1>9 DEF Join, driverOnly
<1>10. CASE Idle
  BY <1>10 DEF Idle, driverOnly
<1>11. CASE FinalContainers
  BY <1>11 DEF FinalContainers, driverOnly
<1>12. CASE FinalStatements
  BY <1>12 DEF FinalStatements, driverOnly
<1>13. CASE Report
  BY <1>13 DEF Report, driverOnly
<1>14. CASE Release("start")
  BY <1>14 DEF Release, driverOnly
<1>15. CASE Release("end")
  BY <1>15 DEF Release, driverOnly
<1>16. CASE Released("start")
  BY <1>16 DEF Released, driverOnly
<1>17. CASE Released("end")
  BY <1>17 DEF Released, driverOnly
<1>18. CASE RefreshEnds
  BY <1>18 DEF RefreshEnds
<1>19. ASSUME NEW t \in Thread, StartBatch(t) PROVE Stopped'
  BY <1>19 DEF StartBatch, threadOnly, Good, Failed
<1>20. ASSUME NEW t \in Thread, EndBatch(t) PROVE Stopped'
  BY <1>20 DEF EndBatch, threadOnly, Good, Failed, GivenUp
<1>21. ASSUME NEW t \in Thread, LeftoverEnds(t) PROVE Stopped'
  BY <1>21 DEF LeftoverEnds, threadOnly
<1> HIDE DEF TypeInv, Core, Stopped, Quiet, Handshake, DriverType, ThreadType, CounterType,
             Thread, Alive, DriverGoto, Held, Baselining, Running, Closing, Joined, Place
<1> QED
  BY <1>1, <1>2, <1>3, <1>4, <1>5, <1>6, <1>7, <1>8, <1>9, <1>10, <1>11, <1>12, <1>13,
     <1>14, <1>15, <1>16, <1>17, <1>18, <1>19, <1>20, <1>21
     DEF Benign, BenignDriverStep, WrapperStep

(* What is spent after the baseline is nothing that is to be left out.     *)
LEMMA CountsOn ==
  ASSUME Counting, UNCHANGED <<driver, server, called>>,
         driver.at \in {"threads", "release"} \cup Running =>
           \A a \in Excluded : spent'[a] = spent[a]
  PROVE  Counting'
BY DEF Counting

LEMMA CountingStep ==
  ASSUME TypeInv, TypeInv', Sound, Sound', Core, Benign
  PROVE  Counting'
<1> USE DEF TypeInv, Core
<1>1. CASE BaselineStatements
  <2>1. /\ driver.at = "baseline" /\ driver'.at = "containers"
        /\ driver'.before.entry = Statements
        /\ UNCHANGED <<server, called>>
    BY <1>1 DEF BaselineStatements, DriverType, driverOnly
  <2>2. \A q \in DOMAIN Statements : q \in Query /\ Statements[q] = server.entry[q]
    BY DEF Statements
  <2>3. \A q \in Query : server.entry[q] \in Counted /\ called[q] = 0
    BY <2>1 DEF CounterType, Handshake, Quiet, Held, Baselining
  <2> QED BY <2>1, <2>2, <2>3 DEF Counting, Counted, Running
<1>2. CASE BaselineContainers
  <2>1. driver.at = "containers" /\ UNCHANGED <<server, called, spent>>
    BY <1>2 DEF BaselineContainers, driverOnly
  <2>2. CASE driver' = [driver EXCEPT !.at = "baseline"]
    BY <2>2 DEF Counting, DriverType, Running
  <2> DEFINE b == [entry |-> driver.before.entry, box |-> Containers]
  <2>3. CASE driver' = [driver EXCEPT !.at = "threads", !.before = b]
    <3>1. /\ driver'.at = "threads"
          /\ driver'.before.entry = driver.before.entry
          /\ driver'.before.box = Containers
      BY <2>3 DEF DriverType
    <3>2. \A a \in Measured \cup {"sample"} : spent[a] = 0
      BY <2>1 DEF Quiet, Handshake, Held, Baselining, Measured
    <3>3. /\ Containers.epoch = server.epoch
          /\ \A a \in Activity : Containers.cost[a] = spent[a] - server.base[a]
      BY DEF Containers
    <3>4. server.epoch <= server.epoch
      BY DEF CounterType
    <3>5. \A a \in Measured \cup Excluded \cup {"sample"} : a \in Activity
      BY DEF Measured, Excluded, Activity
    <3>6. /\ \A a \in Measured \cup {"sample"} :
               driver'.before.box.cost[a] = 0 - server'.base[a]
          /\ \A a \in Excluded :
               driver'.before.box.cost[a] = spent'[a] - server'.base[a]
      BY <2>1, <3>1, <3>2, <3>3, <3>5
    <3>7. driver'.before.box.epoch = server'.epoch
      BY <2>1, <3>1, <3>3
    <3> QED BY <3>1, <3>4, <3>6, <3>7, <2>1 DEF Counting, Running
  <2> QED BY <1>2, <2>2, <2>3 DEF BaselineContainers, DriverGoto
<1>3. CASE RefreshEnds
  <2>1. refresh # "none" /\ Spend(refresh) /\ UNCHANGED <<driver, server, called>>
    BY <1>3 DEF RefreshEnds
  <2>2. ASSUME driver.at \in {"threads", "release"} \cup Running
        PROVE  \A a \in Excluded : spent'[a] = spent[a]
    <3>1. refresh = "refresh"
      BY <2>1, <2>2 DEF Quiet, Running, CounterType
    <3> QED BY <2>1, <3>1 DEF Spend, CounterType, Activity, Excluded
  <2> QED BY <2>1, <2>2, CountsOn
<1>4. ASSUME NEW t \in Thread, EndBatch(t) \/ LeftoverEnds(t) PROVE Counting'
  <2>1. /\ spent' = spent \/ Charge(t)
        /\ UNCHANGED <<driver, server, called>>
    BY <1>4 DEF EndBatch, LeftoverEnds, threadOnly
  <2>2. \A a \in Excluded : spent'[a] = spent[a]
    BY <2>1 DEF Charge, Spend, CounterType, Activity, Excluded
  <2> QED BY <2>1, <2>2, CountsOn
<1>5. CASE UNCHANGED <<driver, server, called, spent>>
  BY <1>5 DEF Counting
<1>6. CASE \/ UNCHANGED vars \/ AwaitStart \/ AnnounceEnd \/ AwaitEnd \/ GeneratorEnds
           \/ \E t \in Thread : StartBatch(t)
  <2>1. UNCHANGED <<driver, server, called, spent>>
    BY <1>6 DEF vars, driverOnly, wrapperOnly, threadOnly, AwaitStart, AnnounceEnd,
                AwaitEnd, GeneratorEnds, StartBatch
  <2> QED BY <2>1, <1>5
<1> USE DEF Counting, Quiet, Handshake, DriverType, ThreadType, CounterType, Thread, Spend,
            Activity, Measured, Excluded, Box, Entries, Counted, DriverGoto, Reporting, Held,
            Baselining, Running, Closing, Joined, Place
<1>7. CASE StartWrapper
  BY <1>7 DEF StartWrapper, driverOnly
<1>8. CASE SeeStart
  BY <1>8 DEF SeeStart, driverOnly
<1>9. CASE StartThreads
  BY <1>9 DEF StartThreads, driverOnly
<1>10. CASE SeeEnd
  BY <1>10 DEF SeeEnd, driverOnly
<1>11. CASE driver.at = "join" /\ Join
  BY <1>11 DEF Join, driverOnly
<1>12. CASE Idle
  BY <1>12 DEF Idle, driverOnly
<1>13. CASE FinalContainers
  BY <1>13 DEF FinalContainers, driverOnly
<1>14. CASE FinalStatements
  BY <1>14 DEF FinalStatements, driverOnly
<1>15. CASE Report
  BY <1>15 DEF Report, driverOnly
<1>16. CASE Release("start")
  BY <1>16 DEF Release, driverOnly
<1>17. CASE Release("end")
  BY <1>17 DEF Release, driverOnly
<1>18. CASE Released("start")
  BY <1>18 DEF Released, driverOnly
<1>19. CASE Released("end")
  BY <1>19 DEF Released, driverOnly
<1>20. CASE Preflight
  BY <1>20 DEF Preflight, wrapperOnly
<1>21. CASE Postlude
  BY <1>21 DEF Postlude, wrapperOnly
<1>22. CASE Restart
  BY <1>22 DEF Restart
<1>23. ASSUME NEW q \in Query, GeneratorCall(q) PROVE Counting'
  BY <1>23 DEF GeneratorCall
<1>24. ASSUME NEW q \in Query, LoseEntry(q) PROVE Counting'
  BY <1>24 DEF LoseEntry
<1> HIDE DEF TypeInv, Core, Counting, Quiet, Handshake, DriverType, ThreadType, CounterType,
             Thread, Spend, Activity, Measured, Excluded, Box, Entries, Counted, DriverGoto,
             Reporting, Held, Baselining, Running, Closing, Joined, Place
<1> QED
  BY <1>1, <1>2, <1>3, <1>4, <1>5, <1>6, <1>7, <1>8, <1>9, <1>10, <1>11, <1>12, <1>13,
     <1>14, <1>15, <1>16, <1>17, <1>18, <1>19, <1>20, <1>21, <1>22, <1>23, <1>24
     DEF Benign, BenignDriverStep, WrapperStep

(* Judged goes on while nothing that is measured is spent, ...             *)
LEMMA JudgedOn ==
  ASSUME Judged, UNCHANGED <<thread, accepted, called>>,
         driver'.before = driver.before, driver'.after = driver.after,
         \/ driver'.at = driver.at
         \/ {driver.at, driver'.at} \subseteq {"finish", "finished", "exit"},
         \A a \in Measured \cup {"sample"} : spent'[a] = spent[a]
  PROVE  Judged'
<1>1. Cost' = Cost
  BY DEF Cost, Delta
<1>2. SamplesJudged => SamplesJudged'
  BY <1>1 DEF SamplesJudged, Late, Pending, Alive
<1>3. Untouched' = Untouched /\ CountersRanThrough' = CountersRanThrough
  BY DEF Untouched, AcceptanceOverlapped, CountersRanThrough, Delta
<1> QED BY <1>1, <1>2, <1>3 DEF Judged, Closing

(* ... and when a probe or a refresh is late, because then the report has  *)
(* failed already or will.                                                 *)
LEMMA JudgedSpoiled ==
  ASSUME Judged, UNCHANGED <<driver, called>>, UNCHANGED thread["sample"],
         ~Untouched, ~Untouched',
         \A a \in Excluded \cup {"sample"} : spent'[a] = spent[a]
  PROVE  Judged'
<1>1. Cost' = Cost
  BY DEF Cost, Delta
<1>2. SamplesJudged => SamplesJudged'
  BY <1>1 DEF SamplesJudged, Late, Pending, Alive
<1> QED BY <1>1, <1>2 DEF Judged

LEMMA JudgedStep ==
  ASSUME TypeInv, TypeInv', Sound, Sound', Core, Benign
  PROVE  Judged'
<1> USE DEF TypeInv, Core
<1>1. CASE BaselineContainers
  <2>1. /\ driver.at = "containers" /\ driver'.at \in {"threads", "baseline"}
        /\ UNCHANGED <<thread>>
    BY <1>1 DEF BaselineContainers, DriverGoto, DriverType, driverOnly
  <2> QED BY <2>1 DEF Judged, Closing
<1>2. CASE FinalContainers
  <2>1. /\ driver.at = "measured" /\ driver'.at = "statements"
        /\ driver'.before = driver.before /\ driver'.after.box = Containers
        /\ UNCHANGED <<spent, thread>>
    BY <1>2 DEF FinalContainers, DriverType
  <2>2. /\ Containers.epoch = server.epoch
        /\ \A a \in Activity : Containers.cost[a] = spent[a] - server.base[a]
    BY DEF Containers
  <2>3. /\ spent \in [Activity -> Nat] /\ server.base \in [Activity -> Int]
        /\ driver.before.box \in Box
    BY <2>1 DEF CounterType, DriverType, Reporting, Sound, Baselining
  <2>4. driver.before.box.epoch = server.epoch =>
          /\ \A a \in Measured \cup {"sample"} :
               driver.before.box.cost[a] = 0 - server.base[a]
          /\ \A a \in Excluded :
               driver.before.box.cost[a] = spent[a] - server.base[a]
    BY <2>1 DEF Counting, Running
  <2>5. \A a \in Activity : Cost'[a] = Containers.cost[a] - driver.before.box.cost[a]
    BY <2>1 DEF Cost, Delta
  <2>6. Pending("sample")' <= thread'["sample"].errors
    BY <2>1 DEF Stopped, Joined, Pending, Alive, Thread
  <2>7. Pending("sample")' \in Nat /\ thread'["sample"].errors \in Nat
    BY <2>1 DEF Pending, ThreadType, Thread
  <2>8. ASSUME driver.before.box.epoch = server.epoch
        PROVE  /\ \A a \in Measured \cup {"sample"} : Cost'[a] = spent'[a]
               /\ \A a \in Excluded : Cost'[a] = 0
    BY <2>1, <2>2, <2>3, <2>4, <2>5, <2>8 DEF Measured, Excluded, Activity
  <2>9. ASSUME driver.before.box.epoch = server.epoch
        PROVE  SamplesJudged'
    <3>1. Late' = 0
      BY <2>1, <2>3, <2>8, <2>9 DEF Late, Activity
    <3> QED BY <3>1, <2>1, <2>6, <2>7 DEF SamplesJudged
  <2> QED BY <2>1, <2>2, <2>8, <2>9 DEF Judged
<1>3. CASE FinalStatements
  <2>1. /\ driver.at = "statements" /\ driver'.at = "finish"
        /\ driver'.before = driver.before /\ driver'.after.box = driver.after.box
        /\ driver'.after.entry = Statements
        /\ Spend("metric") /\ UNCHANGED <<thread, accepted, called>>
    BY <1>3 DEF FinalStatements, DriverType, driverOnly
  <2>2. \A a \in Measured \cup {"sample"} : spent'[a] = spent[a]
    BY <2>1 DEF Spend, CounterType, Activity, Measured
  <2>3. Cost' = Cost
    BY <2>1 DEF Cost, Delta
  <2>4. \A q \in DOMAIN Statements : Statements[q] = server.entry[q]
    BY DEF Statements
  <2>5. \A q \in DOMAIN driver.before.entry :
          driver.before.entry[q].since = server.entry[q].since =>
            server.entry[q].calls - driver.before.entry[q].calls = called[q]
    BY <2>1 DEF Counting
  <2>6. \A q \in DOMAIN driver'.before.entry :
          q \in DOMAIN driver'.after.entry
            /\ driver'.after.entry[q].since = driver'.before.entry[q].since
          => driver'.after.entry[q].calls - driver'.before.entry[q].calls = called'[q]
    BY <2>1, <2>4, <2>5
  <2>7. SamplesJudged => SamplesJudged'
    BY <2>1, <2>2, <2>3 DEF SamplesJudged, Late, Pending, Alive
  <2> QED BY <2>1, <2>2, <2>3, <2>6, <2>7 DEF Judged, Untouched, AcceptanceOverlapped, Closing
<1>4. CASE Report
  <2>1. /\ driver.at = "exit" /\ driver'.at = "ended" /\ Guardrails
        /\ driver'.before = driver.before /\ driver'.after = driver.after
        /\ UNCHANGED <<thread, accepted, spent, called>>
    BY <1>4 DEF Report, DriverType, driverOnly, Sound
  <2>2. Untouched /\ CountersRanThrough /\ thread["sample"].errors <= MaxSamplingErrors
    BY <2>1 DEF Guardrails, ThreadsMeasured, Untouched
  <2>3. Cost' = Cost
    BY <2>1 DEF Cost, Delta
  <2>4. CountersRanThrough' /\ Untouched'
    BY <2>1, <2>2 DEF Untouched, AcceptanceOverlapped, CountersRanThrough, Delta
  <2>5. Pending("sample")' = Pending("sample") /\ Late' = Late
    BY <2>1, <2>3 DEF Pending, Alive, Late
  <2>6. Late \in Int /\ Pending("sample") \in Nat /\ thread["sample"].errors \in Nat
    <3>1. driver.before.box \in Box /\ driver.after.box \in Box
      BY <2>1 DEF DriverType, Reporting, Sound, Closing, Baselining
    <3> QED BY <3>1 DEF Late, Cost, Delta, Box, CounterType, ThreadType, Pending, Thread, Activity
  <2>7. SamplesJudged => SamplesJudged'
    BY <2>1, <2>2, <2>5, <2>6, BenchmarkAssumption DEF SamplesJudged
  <2> QED BY <2>1, <2>3, <2>4, <2>7, <2>2 DEF Judged, Closing
<1>5. CASE Postlude
  <2>1. Spend("postlude") /\ UNCHANGED <<driver, thread, accepted, called>>
    BY <1>5 DEF Postlude, wrapperOnly
  <2>2. \A a \in Measured \cup {"sample"} : spent'[a] = spent[a]
    BY <2>1 DEF Spend, CounterType, Activity, Measured
  <2> QED BY <2>1, <2>2, JudgedOn
<1>6. CASE UNCHANGED <<driver, thread, accepted, spent, called>>
  BY <1>6, JudgedOn
<1>7. CASE \/ UNCHANGED vars \/ AwaitStart \/ AnnounceEnd \/ AwaitEnd \/ GeneratorEnds \/ Restart
           \/ \E q \in Query : LoseEntry(q)
  <2>1. UNCHANGED <<driver, thread, accepted, spent, called>>
    BY <1>7 DEF vars, driverOnly, wrapperOnly, threadOnly, AwaitStart, AnnounceEnd,
                AwaitEnd, GeneratorEnds, Restart, LoseEntry
  <2> QED BY <2>1, <1>6
<1>8. CASE driver'.at \notin Closing
  BY <1>8 DEF Judged, Closing
<1>15. StartWrapper => driver'.at \notin Closing
  BY DEF StartWrapper, DriverGoto, DriverType, Closing
<1>20. StartThreads => driver'.at \notin Closing
  BY DEF StartThreads, DriverGoto, DriverType, Closing
<1>21. SeeEnd => driver'.at \notin Closing
  BY DEF SeeEnd, DriverGoto, DriverType, Closing
<1>18. BaselineStatements => driver'.at \notin Closing
  <2>1. BaselineStatements => driver'.at = "containers"
    BY DEF BaselineStatements, DriverType
  <2> QED BY <2>1 DEF Closing
<1>16. SeeStart \/ (driver.at = "join" /\ Join) \/ Idle => driver'.at \notin Closing
  BY DEF SeeStart, Join, Idle, DriverGoto, DriverType, Closing
<1>17. Release("start") \/ Released("start") => driver'.at \notin Closing
  BY DEF Release, Released, DriverGoto, DriverType, Closing
<1>9. CASE \/ StartWrapper \/ SeeStart \/ BaselineStatements \/ StartThreads \/ SeeEnd
           \/ (driver.at = "join" /\ Join) \/ Idle \/ Release("start") \/ Released("start")
  <2> QED BY <1>9, <1>15, <1>16, <1>17, <1>18, <1>20, <1>21, <1>8
<1>10. CASE Release("end") \/ Released("end")
  <2>1. /\ driver.at \in {"finish", "finished"} /\ driver'.at \in {"finished", "exit"}
        /\ driver'.before = driver.before /\ driver'.after = driver.after
        /\ UNCHANGED <<thread, accepted, called, spent>>
    BY <1>10 DEF Release, Released, DriverGoto, DriverType, driverOnly
  <2> QED BY <2>1, JudgedOn
<1>11. ASSUME driver.at \in Closing PROVE stop /\ driver.over /\ generator = "over"
  BY <1>11 DEF Handshake, Joined, SyncType
<1>12. CASE Preflight \/ RefreshEnds \/ \E q \in Query : GeneratorCall(q)
  <2>1. UNCHANGED <<driver, thread, accepted>>
    BY <1>12 DEF Preflight, RefreshEnds, GeneratorCall, wrapperOnly
  <2>2. CASE driver.at \notin Closing
    BY <2>1, <2>2, <1>8
  <2>3. CASE driver.at \in Closing
    <3>1. ~Preflight /\ \A q \in Query : ~GeneratorCall(q)
      <4>1. Marker("start", "ready") = "ready"
        BY <2>3 DEF Handshake, Closing
      <4>2. wrapper.at # "preflight"
        BY <4>1 DEF Handshake
      <4> QED BY <1>11, <2>3, <4>2 DEF Preflight, GeneratorCall
    <3>2. RefreshEnds
      BY <1>12, <3>1
    <3>3. refresh = "refresh" /\ ~Untouched /\ ~Untouched'
      BY <2>3, <3>2 DEF RefreshEnds, Quiet, Stopped, CounterType, Closing, Untouched,
            AcceptanceOverlapped
    <3>4. \A a \in Excluded \cup {"sample"} : spent'[a] = spent[a]
      BY <3>2, <3>3 DEF RefreshEnds, Spend, CounterType, Activity, Excluded
    <3>5. called' = called
      BY <3>2 DEF RefreshEnds
    <3> QED BY <2>1, <3>3, <3>4, <3>5, JudgedSpoiled
  <2> QED BY <2>2, <2>3
<1>13. ASSUME NEW t \in Thread, StartBatch(t) PROVE Judged'
  <2>1. UNCHANGED driver /\ ~stop
    BY <1>13 DEF StartBatch, threadOnly
  <2> QED BY <2>1, <1>8, <1>11
<1>14. ASSUME NEW t \in Thread, EndBatch(t) \/ LeftoverEnds(t) PROVE Judged'
  <2>1. /\ UNCHANGED <<driver, called>>
        /\ Alive(t) \/ thread[t].left > 0
    BY <1>14 DEF EndBatch, LeftoverEnds, threadOnly, Alive
  <2>2. CASE driver.at \notin Closing
    BY <2>1, <2>2, <1>8
  <2>3. ASSUME driver.at \in Closing, t = "api" PROVE Judged'
    <3>1. thread["api"].errors # 0
      BY <2>1, <2>3 DEF Stopped, Joined, Pending, Thread, ThreadType
    <3>2. ~Untouched /\ ~Untouched'
      BY <1>14, <2>3, <3>1 DEF Untouched, EndBatch, LeftoverEnds, Good, Failed, GivenUp,
                               ThreadType, Thread
    <3>3. UNCHANGED thread["sample"]
      BY <1>14, <2>3 DEF EndBatch, LeftoverEnds, Good, Failed, GivenUp, ThreadType, Thread
    <3>4. \A a \in Excluded \cup {"sample"} : spent'[a] = spent[a]
      BY <1>14, <2>3 DEF EndBatch, LeftoverEnds, Charge, Spend, CounterType, Activity, Excluded
    <3> QED BY <2>1, <3>2, <3>3, <3>4, JudgedSpoiled
  <2>4. ASSUME driver.at \in Closing, t = "acceptance" PROVE Judged'
    <3>1. AcceptanceRequired /\ accepted = "none"
      BY <2>1, <2>4 DEF Stopped, Alive, ThreadType, Thread
    <3>2. accepted' # "during"
      BY <1>11, <1>14, <2>4, <3>1 DEF EndBatch, LeftoverEnds
    <3>3. ~Untouched /\ ~Untouched'
      BY <3>1, <3>2 DEF Untouched, AcceptanceOverlapped
    <3>4. UNCHANGED thread["sample"]
      BY <1>14, <2>4 DEF EndBatch, LeftoverEnds, Good, Failed, GivenUp, ThreadType, Thread
    <3>5. \A a \in Excluded \cup {"sample"} : spent'[a] = spent[a]
      BY <1>14, <2>4 DEF EndBatch, LeftoverEnds, Charge, Spend, CounterType, Activity, Excluded
    <3> QED BY <2>1, <3>3, <3>4, <3>5, JudgedSpoiled
  <2>5. ASSUME driver.at \in Closing, t = "sample" PROVE Judged'
    <3>1. /\ Cost' = Cost
          /\ CountersRanThrough' = CountersRanThrough
      BY <2>1 DEF Cost, Delta, CountersRanThrough
    <3>2. Untouched' = Untouched
      BY <1>14, <2>5 DEF Untouched, AcceptanceOverlapped, EndBatch, LeftoverEnds, Good, Failed,
                         GivenUp, ThreadType, Thread
    <3>3. \A a \in Measured : spent'[a] = spent[a]
      BY <1>14, <2>5 DEF EndBatch, LeftoverEnds, Charge, Spend, CounterType, Activity, Measured
    <3>4. \/ spent'["sample"] = spent["sample"] + 1 /\ Pending("sample")' = Pending("sample") - 1
          \/ spent'["sample"] = spent["sample"] /\ Pending("sample")' = Pending("sample")
      BY <1>14, <2>5 DEF EndBatch, LeftoverEnds, Charge, Spend, Good, Failed, GivenUp, Pending,
                         Alive, CounterType, ThreadType, Activity, Thread
    <3>5. thread'["sample"].errors >= thread["sample"].errors
      BY <1>14, <2>5 DEF EndBatch, LeftoverEnds, Good, Failed, GivenUp, ThreadType, Thread
    <3>6. SamplesJudged => SamplesJudged'
      <4>1. driver.before.box \in Box
        BY <2>5 DEF DriverType, Reporting, Sound, Closing, Baselining
      <4>2. driver.after.box \in Box
        BY <2>5 DEF DriverType, Reporting, Sound, Closing, Baselining
      <4>3. Cost["sample"] \in Int
        BY <4>1, <4>2 DEF Cost, Delta, Box, Activity
      <4>4. /\ Pending("sample") \in Nat /\ spent["sample"] \in Nat
            /\ thread["sample"].errors \in Nat /\ thread'["sample"].errors \in Nat
        BY DEF Pending, ThreadType, Thread, CounterType, Activity
      <4> QED BY <2>1, <3>1, <3>4, <3>5, <4>3, <4>4, BenchmarkAssumption
                 DEF SamplesJudged, Late
    <3> QED BY <2>1, <3>1, <3>2, <3>3, <3>6 DEF Judged
  <2> QED BY <2>2, <2>3, <2>4, <2>5 DEF Thread
<1> QED
  BY <1>1, <1>2, <1>3, <1>4, <1>5, <1>6, <1>7, <1>9, <1>10, <1>12, <1>13, <1>14, Zenon
     DEF Benign, BenignDriverStep, WrapperStep

-----------------------------------------------------------------------------
LEMMA CoreStep == BenchmarkInv /\ [Next]_vars => BenchmarkInv'
<1> SUFFICES ASSUME BenchmarkInv, [Next]_vars PROVE BenchmarkInv'
  OBVIOUS
<1>1. TypeInv /\ TypeInv'
  BY TypeStep DEF BenchmarkInv
<1>2. ASSUME Sound' PROVE Core'
  <2>1. Sound /\ Benign /\ Core
    BY <1>1, <1>2, SoundSteps DEF BenchmarkInv
  <2> QED BY <1>1, <1>2, <2>1, HandshakeStep, QuietStep, StoppedStep, CountingStep, JudgedStep
             DEF Core
<1> QED BY <1>1, <1>2 DEF BenchmarkInv

LEMMA InitCore == Init => BenchmarkInv
<1> SUFFICES ASSUME Init PROVE BenchmarkInv
  OBVIOUS
<1>4. <<>> \in Snapshot
  BY DEF Snapshot
<1>1. DriverType
  BY <1>4 DEF Init, DriverType, Place, Held, Baselining, Closing, Reporting
<1>5. ThreadType
  BY DEF Init, ThreadType
<1>6. SyncType
  BY DEF Init, SyncType
<1>2. CounterType
  <2> DEFINE e(known) == [q \in Query |-> [since |-> 0, calls |-> IF q \in known THEN 1 ELSE 0]]
  <2>1. PICK known \in SUBSET Query :
          server = [epoch |-> 0, base |-> [a \in Activity |-> 0], entry |-> e(known)]
    BY DEF Init
  <2>2. e(known) \in [Query -> Counted]
    BY DEF Counted
  <2>3. [a \in Activity |-> 0] \in [Activity -> Int] /\ [a \in Activity |-> 0] \in [Activity -> Nat]
    OBVIOUS
  <2> HIDE DEF e
  <2>4. server \in [epoch : Nat, base : [Activity -> Int], entry : [Query -> Counted]]
    BY <2>1, <2>2, <2>3
  <2> QED BY <2>3, <2>4 DEF Init, CounterType
<1>3. Handshake /\ Quiet /\ Stopped /\ Counting /\ Judged
  BY DEF Init, Handshake, Quiet, Stopped, Counting, Judged, Marker, Held, Baselining,
     Running,
         Closing, Joined, Activity, Thread, Alive
<1> QED BY <1>1, <1>2, <1>3, <1>5, <1>6 DEF BenchmarkInv, TypeInv, Core

(* The counters, markers and places of the two processes stay well typed.  *)
(* On the way to a passing report the markers keep the generator between   *)
(* the snapshots; the difference holds what was to be measured and nothing *)
(* of what was to be left out; and every sample it lacks, or may come to   *)
(* lack, is backed by a sampling error (run_benchmark).                    *)
THEOREM BenchmarkInvariant == Spec => []BenchmarkInv
<1> QED BY InitCore, CoreStep, PTL DEF Spec

(* A passing report measured the generator, its probes, their refreshes    *)
(* and the wait for these completely, nothing of the preparation, the      *)
(* warm-up, the metric SQL or the postlude, all samples but at most        *)
(* MaxSamplingErrors, and that across no restart, eviction or reset        *)
(* (erp_stack_benchmark.py:1924-1973, 4121-4143, 4220-4238).               *)
THEOREM ReportIsExact == Spec => []MeasuredExactly
<1>1. BenchmarkInv => MeasuredExactly
  <2> SUFFICES ASSUME TypeInv, Sound => Core, driver.report = "PASSED" PROVE MeasuredExactly
    BY DEF BenchmarkInv, MeasuredExactly
  <2>1. driver.at = "ended" /\ Sound
    BY DEF TypeInv, DriverType, Sound, Reporting
  <2>2. Untouched /\ CountersRanThrough
    BY <2>1 DEF Core, Judged
  <2>3. /\ \A a \in Measured : Cost[a] = spent[a]
        /\ \A a \in Excluded : Cost[a] = 0
        /\ SamplesJudged
    BY <2>1, <2>2 DEF Core, Judged, CountersRanThrough, Closing
  <2>4. spent["sample"] - Cost["sample"] \in 0..MaxSamplingErrors
    <3>1. driver.before.box \in Box /\ driver.after.box \in Box
      BY <2>1 DEF TypeInv, DriverType, Sound, Closing, Baselining
    <3>2. Late \in Int /\ Pending("sample") \in Nat
      BY <3>1 DEF Late, Cost, Delta, Box, TypeInv, CounterType, ThreadType, Pending, Thread,
                  Activity
    <3> QED BY <2>1, <2>3, <3>2, BenchmarkAssumption DEF SamplesJudged, Late
  <2>5. \A q \in DOMAIN driver.before.entry :
          driver.after.entry[q].calls - driver.before.entry[q].calls = called[q]
    BY <2>1, <2>2 DEF Core, Judged, CountersRanThrough, Continuous, Closing
  <2> QED BY <2>3, <2>4, <2>5 DEF MeasuredExactly, Measured, Excluded, Cost
<1> QED BY <1>1, BenchmarkInvariant, PTL
=============================================================================
