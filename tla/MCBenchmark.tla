----------------------------- MODULE MCBenchmark -----------------------------
(***************************************************************************)
(* Model checking of the benchmark: one statement, full acceptance on, a  *)
(* sampling error tolerated as the default threshold does.                 *)
(***************************************************************************)
EXTENDS Benchmark, TLC

CONSTANT q1

MCBatches == [sample |-> 2, api |-> 1]

(***************************************************************************)
(* The comment at erp_stack_benchmark.py:4230 says that all in-flight      *)
(* probes finish before the cgroup boundaries.  A sample that outlives the *)
(* join, or is given up, need not, and the report passes all the same.     *)
(***************************************************************************)
ProbesFinish ==
  driver.report = "PASSED" =>
    Delta(driver.before, driver.after)["sample"] = spent["sample"]
=============================================================================
