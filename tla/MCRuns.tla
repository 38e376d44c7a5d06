------------------------------- MODULE MCRuns -------------------------------
(* Runs.tla for TLC, with a pipeline whose check sends failures back. *)
EXTENDS Runs

MCArrows == <<
  [from |-> "build", when |-> "any", to |-> "check", max |-> None, progress |-> FALSE],
  [from |-> "check", when |-> "fail", to |-> "build", max |-> 2, progress |-> TRUE],
  [from |-> "check", when |-> "pass", to |-> "review", max |-> None, progress |-> FALSE],
  [from |-> "review", when |-> "pass", to |-> "done", max |-> None, progress |-> FALSE]>>
=============================================================================
