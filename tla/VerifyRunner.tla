---------------------------- MODULE VerifyRunner ----------------------------
(* One `cmoa verify` process as its caller sees it (verifyrunner).            *)

(* The five statuses it may report.                                           *)
Statuses == {"pass", "fail", "apply_failed", "timeout", "runner_error"}

(* The ways a process may end: it reports a status, it prints nothing (a      *)
(* usage error, or the context killed it), something that does not decode or  *)
(* is of another schema, an answer about another label, or a pass and exits   *)
(* non-zero all the same.                                                     *)
Endings == Statuses \cup {"nothing", "garbled", "mislabelled", "pass_and_failed"}

StatusOf_ExitCode(ending) == IF ending \in Statuses THEN ending ELSE "fail"

(* What the caller takes from an ending: only a decoded answer about its own  *)
(* run that the exit code does not contradict is an answer.                   *)
StatusOf(ending) == IF ending \in Statuses THEN ending ELSE "runner_error"
=============================================================================
