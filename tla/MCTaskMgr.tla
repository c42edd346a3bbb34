----------------------------- MODULE MCTaskMgr -----------------------------
(***************************************************************************)
(* Periods for TaskMgr: 0 is housekeeping's id, 1 and 2 are periodic tasks *)
(* and 3 is a one-shot, whose period rounds to 0.                          *)
(***************************************************************************)
EXTENDS TaskMgr

Periodic   == (0 :> 100) @@ (1 :> 20) @@ (2 :> 15)
WithOneShot == (0 :> 100) @@ (1 :> 20) @@ (3 :> 9)
=============================================================================
