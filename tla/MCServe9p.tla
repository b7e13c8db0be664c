------------------------------ MODULE MCServe9p ------------------------------
(* Serve9p with two clients, one of which may hang up, for TLC.              *)
EXTENDS Serve9p
TwoConns == {"a", "b"}
TwoTags == 1 .. 2
TwoCFids == 1 .. 2
\* "a" attaches once and then sends anything, "b" only attaches.
AllOrAttach ==
    [c \in TwoConns |-> [ty \in {"attach", "walk", "io", "clunk", "flush"} |->
        IF ty = "attach" THEN 1 ELSE IF c = "a" THEN 2 ELSE 0]]
OneHangs == {"a"}
=============================================================================
