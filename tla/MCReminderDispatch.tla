-------------------------- MODULE MCReminderDispatch --------------------------
(***************************************************************************)
(* Small instances of ReminderDispatch: one enrolment whose reminders two   *)
(* workers dispatch while they serve its requests, and one with a single    *)
(* worker.                                                                  *)
(***************************************************************************)
EXTENDS ReminderDispatch

CONSTANT plan

OneEnrolment == [r \in Rows |-> plan]
=============================================================================
