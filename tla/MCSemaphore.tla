---------------------------- MODULE MCSemaphore ----------------------------
(* Two-bit ints (-2..1) reach the wrap-around of sema[sem].value; -1 is a   *)
(* count the system calls accept.                                           *)
EXTENDS Semaphore

MCCount == {-1, 1}
=============================================================================
