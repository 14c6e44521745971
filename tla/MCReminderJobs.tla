--------------------------- MODULE MCReminderJobs ---------------------------
(***************************************************************************)
(* ReminderJobs over a weekend: Saturday 22:00, Sunday 15:00 and Monday    *)
(* 09:00.                                                                  *)
(***************************************************************************)
EXTENDS ReminderJobs, TLC

Weekend == {142, 159, 177}
=============================================================================
