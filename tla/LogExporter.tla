---------------------------- MODULE LogExporter -----------------------------
(***************************************************************************)
(* LokiEmitter (app/grafana_observability.py): a bounded queue of log      *)
(* events, one daemon worker thread that sends them, and the end of the    *)
(* service, where ObserveASGI emits a last event, flushes and stops.       *)
(*                                                                         *)
(* Every caller of emit, and the lifespan, runs on the event loop's        *)
(* thread; uncounted is 1 while this thread is inside emit, with the lock, *)
(* between putting an event and counting it.  The worker runs beside it.   *)
(* Events are alike, so the queue is its length.                           *)
(***************************************************************************)
EXTENDS Naturals

CONSTANTS
    Capacity,          \* of the queue
    MaxEmits           \* bound: events before the last one

ASSUME ExporterAssumption ==
    /\ Capacity \in Nat \ {0}
    /\ MaxEmits \in Nat

VARIABLES
    queued,            \* events in _queue
    unfinished,        \* _queue.unfinished_tasks
    worker,            \* where _run is
    uncounted,         \* events that emit has put and not yet counted
    stats,
    lifespan,          \* of the service, as ObserveASGI sees it
    flushed            \* what the flush at the end answered

exporterVars == <<queued, unfinished, worker, uncounted, stats, lifespan, flushed>>

ExporterTypeOK ==
    /\ queued \in 0..Capacity
    /\ unfinished \in Nat
    /\ worker \in {"none", "check", "drain", "get", "send", "sent", "failed", "done", "ended"}
    /\ uncounted \in 0..1
    /\ stats \in [accepted : Nat, dropped : Nat, sent : Nat, failed : Nat]
    /\ lifespan \in {"up", "flushing", "sent", "exited"}
    /\ flushed \in {"no", "all", "late"}

ExporterInit ==
    /\ queued = 0 /\ unfinished = 0
    /\ worker = "none"
    /\ uncounted = 0
    /\ stats = [accepted |-> 0, dropped |-> 0, sent |-> 0, failed |-> 0]
    /\ lifespan = "up"
    /\ flushed = "no"

-----------------------------------------------------------------------------
\* _stopped; stop is called once, after the flush.
Stopped == lifespan \in {"sent", "exited"}

Counted(s) == stats' = [stats EXCEPT ![s] = @ + 1]

\* Mutant: the queue is taken to grow.
PutUnbounded ==
    /\ queued' = queued + 1
    /\ unfinished' = unfinished + 1
    /\ uncounted' = 1
    /\ UNCHANGED stats

\* put_nowait.
Put ==
    IF queued < Capacity
      THEN /\ queued' = queued + 1
           /\ unfinished' = unfinished + 1
           /\ uncounted' = 1
           /\ UNCHANGED stats
      ELSE Counted("dropped") /\ UNCHANGED <<queued, unfinished, uncounted>>

\* emit, up to the put: after stop nothing is taken; the first event starts the
\* worker, and is dropped when no thread can be started.
Emit ==
    /\ uncounted = 0
    /\ IF Stopped THEN UNCHANGED <<queued, unfinished, worker, uncounted, stats>>
       ELSE \/ /\ worker' = IF worker = "none" THEN "check" ELSE worker
               /\ Put
            \/ /\ worker = "none"
               /\ Counted("dropped")
               /\ UNCHANGED <<queued, unfinished, worker, uncounted>>

EmitEvent ==
    /\ lifespan # "exited"
    /\ stats.accepted + stats.dropped < MaxEmits
    /\ Emit
    /\ UNCHANGED <<lifespan, flushed>>

\* An event whose body is too long is dropped before anything else is looked at.
EmitTooLong ==
    /\ lifespan # "exited" /\ uncounted = 0
    /\ stats.accepted + stats.dropped < MaxEmits
    /\ Counted("dropped")
    /\ UNCHANGED <<queued, unfinished, worker, uncounted, lifespan, flushed>>

EmitReturns ==
    /\ uncounted = 1
    /\ Counted("accepted")
    /\ uncounted' = 0
    /\ UNCHANGED <<queued, unfinished, worker, lifespan, flushed>>

-----------------------------------------------------------------------------
(***************************************************************************)
(* The worker.  The loop's condition is two reads without the lock.        *)
(***************************************************************************)
WorkerAt(s) == worker = s /\ lifespan # "exited"
WorkerOnly == UNCHANGED <<queued, unfinished, uncounted, stats, lifespan, flushed>>

\* Mutant: the queue is not looked at when stopped.
CheckOnlyStopped ==
    /\ WorkerAt("check")
    /\ worker' = IF Stopped THEN "ended" ELSE "get"
    /\ WorkerOnly

CheckStopped ==
    /\ WorkerAt("check")
    /\ worker' = IF Stopped THEN "drain" ELSE "get"
    /\ WorkerOnly

CheckEmpty ==
    /\ WorkerAt("drain")
    /\ worker' = IF queued = 0 THEN "ended" ELSE "get"
    /\ WorkerOnly

Get ==
    /\ WorkerAt("get")
    /\ IF queued = 0
         THEN worker' = "check" /\ UNCHANGED queued
         ELSE worker' = "send" /\ queued' = queued - 1
    /\ UNCHANGED <<unfinished, uncounted, stats, lifespan, flushed>>

\* Mutant: an exception of the sender ends the worker.
SendRaises ==
    /\ WorkerAt("send")
    /\ worker' \in {"sent", "ended"}
    /\ WorkerOnly

\* The sender answers, refuses or raises.
Send ==
    /\ WorkerAt("send")
    /\ worker' \in {"sent", "failed"}
    /\ WorkerOnly

\* Mutant: counted without the lock.
CountUnlocked ==
    /\ WorkerAt("sent") \/ WorkerAt("failed")
    /\ Counted(worker)
    /\ worker' = "done"
    /\ UNCHANGED <<queued, unfinished, uncounted, lifespan, flushed>>

Count ==
    /\ worker \in {"sent", "failed"} /\ lifespan # "exited"
    /\ uncounted = 0
    /\ Counted(worker)
    /\ worker' = "done"
    /\ UNCHANGED <<queued, unfinished, uncounted, lifespan, flushed>>

TaskDone ==
    /\ WorkerAt("done")
    /\ unfinished' = unfinished - 1
    /\ worker' = "check"
    /\ UNCHANGED <<queued, uncounted, stats, lifespan, flushed>>

WorkerStep ==
    CheckStopped \/ CheckEmpty \/ Get \/ Send \/ Count \/ TaskDone

-----------------------------------------------------------------------------
(***************************************************************************)
(* lifecycle_send of the last message (shutdown complete or failed,        *)
(* startup failed): emit, flush_async, stop, send.  Other tasks may emit   *)
(* while the flush polls.  After that the process ends, and the worker, a  *)
(* daemon thread, with it.                                                 *)
(***************************************************************************)
LastEvent ==
    /\ lifespan = "up"
    /\ Emit
    /\ lifespan' = "flushing"
    /\ UNCHANGED flushed

\* Mutant: the flush looks at the queue, not at the unfinished events.
FlushQueue(late) ==
    /\ lifespan = "flushing" /\ uncounted = 0
    /\ queued = 0 \/ late
    /\ flushed' = IF queued = 0 THEN "all" ELSE "late"
    /\ lifespan' = "sent"
    /\ UNCHANGED <<queued, unfinished, worker, uncounted, stats>>

FlushAndStop(late) ==
    /\ lifespan = "flushing" /\ uncounted = 0
    /\ unfinished = 0 \/ late
    /\ flushed' = IF unfinished = 0 THEN "all" ELSE "late"
    /\ lifespan' = "sent"
    /\ UNCHANGED <<queued, unfinished, worker, uncounted, stats>>

Exit ==
    /\ lifespan = "sent" /\ uncounted = 0
    /\ lifespan' = "exited"
    /\ UNCHANGED <<queued, unfinished, worker, uncounted, stats, flushed>>

ExporterNext ==
    \/ EmitEvent \/ EmitTooLong \/ EmitReturns
    \/ WorkerStep
    \/ LastEvent \/ FlushAndStop(TRUE) \/ Exit

ExporterSpec == ExporterInit /\ [][ExporterNext]_exporterVars

\* The worker is a thread, its sender and its get have timeouts; emit does not
\* block.  Nothing says that the service ever ends, or that a flush is not late.
ExporterFairSpec ==
    /\ ExporterSpec
    /\ WF_exporterVars(WorkerStep)
    /\ WF_exporterVars(EmitReturns)

-----------------------------------------------------------------------------
Delivered == stats.sent + stats.failed
InHand == IF worker \in {"send", "sent", "failed"} THEN 1 ELSE 0

(***************************************************************************)
(* No event is lost or counted twice: what was accepted is sent, failed,   *)
(* queued or in the worker's hands, and the counters never say that more   *)
(* was sent than accepted.                                                 *)
(***************************************************************************)
Conserved ==
    /\ Delivered + queued + InHand = stats.accepted + uncounted
    /\ Delivered <= stats.accepted

(***************************************************************************)
(* A flush that answers TRUE means what it says, also after the stop: no   *)
(* accepted event is left, and none comes after.                           *)
(***************************************************************************)
FlushedIsDelivered == flushed = "all" => Delivered = stats.accepted

(***************************************************************************)
(* The worker does not end with events in the queue, wherever between its  *)
(* two reads the stop and the last put fall.                               *)
(***************************************************************************)
EndedIsEmpty == worker = "ended" => queued = 0 /\ Delivered = stats.accepted

(***************************************************************************)
(* Every accepted event is sent or counted as failed, unless the process   *)
(* ends first: the worker goes on after every failure.                     *)
(***************************************************************************)
AcceptedIsDelivered ==
    \A n \in 1..(MaxEmits + 1) :
        stats.accepted >= n ~> Delivered >= n \/ lifespan = "exited"
=============================================================================
