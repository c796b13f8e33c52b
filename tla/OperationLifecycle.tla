------------------------- MODULE OperationLifecycle -------------------------
(***************************************************************************)
(* What a client may rely on when it polls an admitted operation.  While   *)
(* its worker is open the status goes from queued to running and, however  *)
(* often, to a terminal status, never back; once the worker has closed, a  *)
(* terminal status is final and an operation without one can only be       *)
(* declared abandoned.                                                     *)
(***************************************************************************)
CONSTANT Op

VARIABLES status, open

Ended == {"completed", "partial", "failed", "cancelled"}

Init ==
    /\ status = [o \in Op |-> "queued"]
    /\ open = [o \in Op |-> TRUE]

Run(o) ==
    /\ open[o] /\ status[o] = "queued"
    /\ status' = [status EXCEPT ![o] = "running"]
    /\ UNCHANGED open

\* The worker ends the operation; its last write may be the one that closes it.
End(o) ==
    /\ open[o]
    /\ \E s \in Ended : status' = [status EXCEPT ![o] = s]
    /\ \E b \in BOOLEAN : open' = [open EXCEPT ![o] = b]

\* Workers stop: on their own, or all those of one instance at once.
Close ==
    /\ \E gone \in SUBSET Op : open' = [o \in Op |-> open[o] /\ o \notin gone]
    /\ UNCHANGED status

Abandon(o) ==
    /\ ~open[o] /\ status[o] \notin Ended
    /\ status' = [status EXCEPT ![o] = "failed"]
    /\ UNCHANGED open

Next == (\E o \in Op : Run(o) \/ End(o) \/ Abandon(o)) \/ Close

Spec == Init /\ [][Next]_<<status, open>>
=============================================================================
