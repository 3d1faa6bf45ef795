-------------------------- MODULE MCHealthChecker ---------------------------
EXTENDS HealthChecker

(* Whether a line is in the pipe is what the thread's control depends on,  *)
(* not which one.                                                          *)
OneCommand == {<<"DRAIN", 0>>}
=============================================================================
