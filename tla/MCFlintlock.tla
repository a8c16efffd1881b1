----------------------------- MODULE MCFlintlock -----------------------------
(***************************************************************************)
(* Budgets of failures and requests for the TLC runs of Flintlock.  A kind *)
(* that is not named does not happen in the run.                           *)
(***************************************************************************)
EXTENDS Flintlock

Quiet == [k \in BudgetKinds |-> 0]

\* The failures that lose or repeat work, more failing steps than retries, and a
\* deletion that can come at any moment.
AnyFailure ==
  [Quiet EXCEPT !["step"] = 2, !["save"] = 1, !["crash"] = 1, !["delete"] = 1]

\* Of a failing save and a crash a behaviour has one.
SaveOrCrash == budget["save"] + budget["crash"] >= 1

\* Two failing steps, in one attempt after another or one in each plan, a misread
\* link lookup and a VMM that dies.
StepFailures ==
  [Quiet EXCEPT !["step"] = 2, !["lookup"] = 1, !["exit"] = 1, !["delete"] = 1]

FailureAndCrash == [Quiet EXCEPT !["step"] = 1, !["crash"] = 1, !["delete"] = 1]

DeleteAndFailure == [Quiet EXCEPT !["step"] = 1, !["delete"] = 1]

OneDelete == [Quiet EXCEPT !["delete"] = 1]

OneFailure == [Quiet EXCEPT !["step"] = 1]

=============================================================================
