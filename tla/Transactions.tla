----------------------------- MODULE Transactions -----------------------------
(***************************************************************************)
(* What a 9P server promises the client about its transactions (flush(9P)):*)
(* a request is answered at most once, and once a Tflush has been answered *)
(* the request it names is over: it was answered before, or it is          *)
(* cancelled, and no reply to it may follow.                               *)
(***************************************************************************)
EXTENDS Naturals

CONSTANT Ids                    \* every request ever sent has an id

VARIABLES
    status,                     \* how far each transaction is
    target                      \* the transaction a Tflush names, or 0

TypeOK ==
    /\ status \in [Ids -> {"unsent", "pending", "answered", "cancelled"}]
    /\ target \in [Ids -> Ids \cup {0}]

Init ==
    /\ status = [q \in Ids |-> "unsent"]
    /\ target = [q \in Ids |-> 0]

\* A Tflush names a request that was sent.
Request(q) ==
    /\ status[q] = "unsent"
    /\ status' = [status EXCEPT ![q] = "pending"]
    /\ \E t \in {0} \cup {r \in Ids : status[r] # "unsent"} : target' = [target EXCEPT ![q] = t]

\* The reply to q goes out; an Rflush cancels the request it names if that is
\* still pending.
Answer(q) ==
    /\ status[q] = "pending"
    /\ status' = [r \in Ids |-> IF r = q THEN "answered"
                               ELSE IF r = target[q] /\ status[r] = "pending" THEN "cancelled"
                               ELSE status[r]]
    /\ UNCHANGED target

Next == \E q \in Ids : Request(q) \/ Answer(q)

Spec == Init /\ [][Next]_<<status, target>>
=============================================================================
