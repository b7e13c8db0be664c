----------------------------- MODULE MCProcWait -----------------------------
(* ProcWait with up to two threads, for TLC.                                 *)
EXTENDS ProcWait
CONSTANTS t1, t2, p1, p2, p3
=============================================================================
