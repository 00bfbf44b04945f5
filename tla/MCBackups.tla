----------------------------- MODULE MCBackups -----------------------------
(* Backups on one request at a time beside the scheduler.                  *)
EXTENDS Backups, TLC

CONSTANTS h1, main_db, scheduler
=============================================================================
