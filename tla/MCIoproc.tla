------------------------------ MODULE MCIoproc ------------------------------
(* Ioproc shared by three threads, for TLC.                                  *)
EXTENDS Ioproc
CONSTANTS t1, t2, t3, ok, err
=============================================================================
