-------------------------- MODULE MCSleepTime --------------------------
(* Small instances of SleepTime. *)
EXTENDS SleepTime

NoLocks == {}
=======================================================================
