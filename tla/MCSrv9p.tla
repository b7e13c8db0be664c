------------------------------- MODULE MCSrv9p -------------------------------
(* Srv9p with one proc besides the read loop, for TLC.                       *)
EXTENDS Srv9p
OneWorker == {"worker"}
ThreeTags == 1 .. 3
TwoFids == 1 .. 2
UpTo(a, w, i, c, f) ==
    [ty \in {"attach", "walk", "io", "clunk", "flush"} |->
        CASE ty = "attach" -> a [] ty = "walk" -> w [] ty = "io" -> i
          [] ty = "clunk" -> c [] OTHER -> f]
AllTypes == UpTo(1, 3, 3, 3, 3)
NoFlush == UpTo(1, 3, 0, 3, 0)
=============================================================================
