---------------------------- MODULE ResearchTask ----------------------------
(***************************************************************************)
(* The life of admitted operations: background_research_task (app/api.py)  *)
(* and the part of _run_research (app/researcher_adapter.py) that decides  *)
(* how it ends, the heartbeat monitor beside it, cancel requests and the   *)
(* cross-instance broadcast (app/cancellation.py), shutdown's quiesce, and *)
(* the scan that fails operations nobody owns.                             *)
(*                                                                         *)
(* task[o].at names the await the task of o is suspended in.  task.cancel  *)
(* only requests: the request is delivered as a CancelledError when the    *)
(* task next resumes, by then the awaited call took effect or it did not.  *)
(* Awaits that a cancellation and an exception leave in the same way are   *)
(* one state: the first progress report and the preparation are "setup",   *)
(* a handler's save and its best-effort report are one.                    *)
(*                                                                         *)
(* Every operation starts admitted: record "queued", indexed, lease and    *)
(* slot held by its host, metered work with its hold (see Admission).      *)
(***************************************************************************)
EXTENDS OperationStore, SpendLedger

CONSTANTS
    HostOf, AmountOf,        \* per operation: its instance, its reservation
    Canceller, TargetOf, ViaOf,  \* cancel requests: of which operation, where
    Scanner,                 \* instances that run the reconciliation scan
    MayCrash, MayStop,       \* instances that may die, may be shut down
    MaxFaults, MaxLapses     \* bounds: calls that raise, TTLs of live work

ASSUME TaskAssumption ==
    /\ HostOf \in [Op -> Instance]
    /\ AmountOf \in [Op -> Amounts \cup {0}]
    /\ TargetOf \in [Canceller -> Op]
    /\ ViaOf \in [Canceller -> Instance]
    /\ Scanner \subseteq Instance
    /\ MayCrash \subseteq Instance
    /\ MayStop \subseteq Instance
    /\ MaxWindow # 0           \* the window the holds are in
    /\ MaxFaults \in Nat
    /\ MaxLapses \in Nat

VARIABLES
    task,                    \* per operation, the background task
    req,                     \* per cancel request, its handler
    inbox, listening,        \* CancellationManager._listen of each instance
    todo, removing,          \* mark_stale_operations of each instance
    stopping, dead,          \* instances: quiesce calls made, processes gone
    reaped, unleased,        \* history: failed by a scan; lease ran out alive
    faults, lapses

scanVars == <<todo, removing, reaped>>
cancelVars == <<req, inbox, listening>>
hostVars == <<stopping, dead>>
boundVars == <<faults, lapses>>
vars == <<storeVars, ledgerVars, task, cancelVars, scanVars, hostVars, unleased, boundVars>>

Metered(o) == AmountOf[o] # 0

Working == {"start", "saveRunning", "setup", "loop", "early", "synth", "stop",
            "saveResult", "reportResult", "reconcile", "saveCancelled", "saveFailed"}
Cleaning == {"ingest", "relSpend", "relLease", "relSlot"}
Ended == {"over", "raised", "neverRan", "crashed"}

Task == [at : Working \cup Cleaning \cup Ended,
         cancel : BOOLEAN,                       \* task.cancel() not yet delivered
         outcome : TerminalStatus \ {"cancelled"}, \* of the result in hand
         next : {"saveResult", "saveCancelled", "saveFailed", "cleanup", "over", "raised"},
         monitor : {"off", "on", "broken"},      \* monitor_memory
         cause : {"none", "lease", "memory"},    \* why the monitor cancelled
         settled : BOOLEAN]                      \* spend_reconciled

Reply == Status \cup {"none", "unknown", "error"}
Request == [at : {"new", "local", "await", "confirm", "remote", "fallback",
                  "done", "published", "dead"},
            seen : Reply, reply : Reply]

TypeOK ==
    /\ StoreTypeOK
    /\ LedgerTypeOK
    /\ task \in [Op -> Task]
    /\ req \in [Canceller -> Request]
    /\ inbox \in [Instance -> SUBSET Op]
    /\ listening \subseteq Instance
    /\ todo \in [Instance -> SUBSET Op]
    /\ removing \in [Instance -> SUBSET Op]
    /\ stopping \in [Instance -> 0..2]
    /\ dead \subseteq Instance
    /\ reaped \subseteq Op
    /\ unleased \subseteq Op
    /\ faults \in 0..MaxFaults
    /\ lapses \in 0..MaxLapses

Init ==
    /\ operations \in [Op -> [status : {"queued"}, key : Key]]
    /\ activeOps = Op
    /\ owners = HostOf
    /\ slots = {<<HostOf[o], o>> : o \in Op}
    /\ lapsedSlots = {}
    /\ window = 1 /\ windowSeq = 1
    /\ holds = [o \in Op |-> IF Metered(o) THEN [amount |-> AmountOf[o], window |-> 1] ELSE NoHold]
    /\ total = Budget!HeldTotal(AmountOf)
    /\ task = [o \in Op |-> [at |-> "start", cancel |-> FALSE, outcome |-> "failed",
                             next |-> "over", monitor |-> "off", cause |-> "none",
                             settled |-> FALSE]]
    /\ req = [c \in Canceller |-> [at |-> "new", seen |-> "none", reply |-> "none"]]
    /\ inbox = [i \in Instance |-> {}]
    /\ listening = Instance
    /\ todo = [i \in Instance |-> {}]
    /\ removing = [i \in Instance |-> {}]
    /\ stopping = [i \in Instance |-> 0]
    /\ dead = {}
    /\ reaped = {}
    /\ unleased = {}
    /\ faults = 0
    /\ lapses = 0

-----------------------------------------------------------------------------
At(o, s) == task[o].at = s
Live(o) == task[o].at \notin Ended
Runs(o, s) == At(o, s) /\ ~task[o].cancel

\* Mutant: the hold is not among the releases.
FirstReleaseNoSpend(o, settled) == "relLease"

\* Where the finally block starts, and where it ends.
FirstRelease(o, settled) == IF Metered(o) /\ ~settled THEN "relSpend" ELSE "relLease"

Become(o, t) == task' = [task EXCEPT ![o] = t]

\* Resume at s, the pending cancellation (if any) consumed.
GoOn(o, s) == Become(o, [task[o] EXCEPT !.at = s, !.cancel = FALSE])

CleanUp(o, exit) ==
    Become(o, [task[o] EXCEPT !.at = FirstRelease(o, task[o].settled),
                              !.cancel = FALSE, !.next = exit])

\* Leave the monitored block through its finally: with the monitor running,
\* `await monitor_task` suspends once more; one that failed raises there.
Leave(o, s, outcome) ==
    LET t == [task[o] EXCEPT !.cancel = FALSE, !.outcome = outcome] IN
    CASE t.monitor = "on" -> Become(o, [t EXCEPT !.at = "stop", !.next = s])
      [] t.monitor = "broken" -> Become(o, [t EXCEPT !.at = "saveFailed", !.monitor = "off"])
      [] t.monitor = "off" /\ s = "cleanup" ->
           Become(o, [t EXCEPT !.at = FirstRelease(o, t.settled), !.next = "over"])
      [] OTHER -> Become(o, [t EXCEPT !.at = s])

Quiet == UNCHANGED <<storeVars, ledgerVars>>
Others == UNCHANGED <<cancelVars, scanVars, hostVars, unleased, boundVars>>

-----------------------------------------------------------------------------
(***************************************************************************)
(* The task, when every call answers and no cancellation is delivered.     *)
(* Three awaits are an asyncio.wait_for whose work may be done when a      *)
(* cancellation arrives: Python 3.11 then returns the result, or raises    *)
(* the exception of that work, and drops the cancellation.  Those steps    *)
(* (Prepare, LoopEnds, LoopStops, Synthesize) and the one that awaits the  *)
(* cancelled monitor do not look at the pending request.                   *)
(***************************************************************************)
Start(o) ==
    /\ Runs(o, "start")
    /\ GoOn(o, "saveRunning")
    /\ Quiet

SaveRunning(o) ==
    /\ Runs(o, "saveRunning")
    /\ SaveOperation(o, "running")
    /\ GoOn(o, "setup")
    /\ UNCHANGED ledgerVars

\* First progress report, Brain recall, limits; then the monitor starts.
Prepare(o) ==
    /\ At(o, "setup")
    /\ Become(o, [task[o] EXCEPT !.at = "loop", !.cancel = FALSE, !.monitor = "on"])
    /\ Quiet

PrepareFails(o) ==
    /\ Runs(o, "setup")
    /\ GoOn(o, "saveFailed")
    /\ Quiet

\* run_loop returns a report, or raises.
LoopEnds(o) ==
    /\ At(o, "loop")
    /\ \/ Leave(o, "saveResult", "completed")
       \/ Leave(o, "saveFailed", "failed")
    /\ Quiet

\* The duration limit, or an exhausted search budget: synthesize what there is.
LoopStops(o) ==
    /\ At(o, "loop")
    /\ GoOn(o, "early")
    /\ Quiet

ReportEarly(o) ==
    /\ Runs(o, "early")
    /\ \/ GoOn(o, "synth")
       \/ Leave(o, "saveFailed", "failed")
    /\ Quiet

\* bounded_synthesis: a text in time, or a timeout or an error.
Synthesize(o) ==
    /\ At(o, "synth")
    /\ \E outcome \in {"partial", "failed"} : Leave(o, "saveResult", outcome)
    /\ Quiet

\* `except CancelledError: pass` swallows a cancellation of the task as well.
StopMonitor(o) ==
    /\ At(o, "stop")
    /\ LET t == [task[o] EXCEPT !.cancel = FALSE, !.monitor = "off"] IN
       Become(o, IF t.next = "cleanup"
                   THEN [t EXCEPT !.at = FirstRelease(o, t.settled), !.next = "over"]
                   ELSE [t EXCEPT !.at = t.next, !.next = "over"])
    /\ Quiet

\* A token or cost limit downgrades whatever the loop returned to "partial".
SaveResultCall(o) ==
    /\ \E status \in {task[o].outcome, "partial"} : SaveOperation(o, status)
    /\ UNCHANGED ledgerVars

SaveResult(o) ==
    /\ Runs(o, "saveResult")
    /\ SaveResultCall(o)
    /\ GoOn(o, "reportResult")

\* Best effort.  Work the gateway accounts for has nothing to reconcile.
ReportResult(o) ==
    /\ Runs(o, "reportResult")
    /\ GoOn(o, IF Metered(o) THEN "reconcile" ELSE "ingest")
    /\ Quiet

ReconcileCall(o) == ReconcileSpend(o) /\ UNCHANGED storeVars

Settle(o) ==
    Become(o, [task[o] EXCEPT !.at = "ingest", !.settled = TRUE])

Reconcile(o) ==
    /\ Runs(o, "reconcile")
    /\ ReconcileCall(o)
    /\ Settle(o)

\* The except clauses save their status; the finally block comes next.
HandlerStatus(o) == IF At(o, "saveCancelled") THEN "cancelled" ELSE "failed"
Handling(o) == task[o].at \in {"saveCancelled", "saveFailed"}

SaveHandlerCall(o) == SaveOperation(o, HandlerStatus(o)) /\ UNCHANGED ledgerVars

SaveHandler(o) ==
    /\ Handling(o) /\ ~task[o].cancel
    /\ SaveHandlerCall(o)
    /\ CleanUp(o, "over")

(***************************************************************************)
(* The finally block.  Its waits are shielded and bounded: cancellations   *)
(* are absorbed (CancelTask below does nothing here).                      *)
(***************************************************************************)
AwaitIngest(o) ==
    /\ At(o, "ingest")
    /\ GoOn(o, "relLease")
    /\ Quiet

ReleaseStep(o, s, next) ==
    /\ At(o, s)
    /\ \/ s = "relSpend" /\ ReleaseSpend(o) /\ UNCHANGED storeVars
       \/ s = "relLease" /\ ReleaseOperationLease(HostOf[o], o) /\ UNCHANGED ledgerVars
       \/ s = "relSlot" /\ ReleaseSlot(HostOf[o], o) /\ UNCHANGED ledgerVars
    /\ GoOn(o, next)

\* unregister_task follows the last release without an await.
Releases(o) ==
    \/ ReleaseStep(o, "relSpend", "relLease")
    \/ ReleaseStep(o, "relLease", "relSlot")
    \/ ReleaseStep(o, "relSlot", task[o].next)

TaskStep(o) ==
    /\ \/ Start(o) \/ SaveRunning(o) \/ Prepare(o) \/ PrepareFails(o)
       \/ LoopEnds(o) \/ LoopStops(o) \/ ReportEarly(o) \/ Synthesize(o) \/ StopMonitor(o)
       \/ SaveResult(o) \/ ReportResult(o) \/ Reconcile(o) \/ SaveHandler(o)
       \/ AwaitIngest(o) \/ Releases(o)
    /\ Others

-----------------------------------------------------------------------------
(***************************************************************************)
(* Cancellation.  A request on a task that is in its finally block, or is  *)
(* done, changes nothing.                                                  *)
(***************************************************************************)
Cancellable(o) == task[o].at \in Working

CancelAll(ops) ==
    task' = [o \in Op |-> IF o \in ops /\ Cancellable(o)
                            THEN [task[o] EXCEPT !.cancel = TRUE]
                            ELSE task[o]]

\* The awaited call of a task that is interrupted or whose call raised.
CallTookEffect(o) ==
    \/ At(o, "saveRunning") /\ SaveOperation(o, "running") /\ UNCHANGED ledgerVars
    \/ At(o, "saveResult") /\ SaveResultCall(o)
    \/ At(o, "reconcile") /\ ReconcileCall(o)
    \/ Handling(o) /\ SaveHandlerCall(o)
    \/ At(o, "relSpend") /\ ReleaseSpend(o) /\ UNCHANGED storeVars
    \/ At(o, "relLease") /\ ReleaseOperationLease(HostOf[o], o) /\ UNCHANGED ledgerVars
    \/ At(o, "relSlot") /\ ReleaseSlot(HostOf[o], o) /\ UNCHANGED ledgerVars

EffectOrNot(o) == CallTookEffect(o) \/ Quiet

\* The CancelledError arrives.  Before the first step no line of the coroutine
\* has run, so neither its handlers nor its finally block do.
Interrupt(o) ==
    /\ task[o].cancel
    /\ \/ At(o, "start") /\ GoOn(o, "neverRan") /\ Quiet
       \/ /\ task[o].at \in {"saveRunning", "setup", "saveResult", "reportResult", "reconcile"}
          /\ EffectOrNot(o)
          /\ GoOn(o, "saveCancelled")
       \/ /\ At(o, "loop") /\ Quiet
          /\ CASE task[o].cause = "lease" -> Leave(o, "cleanup", "failed")
               [] task[o].cause = "memory" -> GoOn(o, "early")
               [] OTHER -> Leave(o, "saveCancelled", "failed")
       \/ At(o, "early") /\ Leave(o, "saveCancelled", "failed") /\ Quiet
       \* client_cancel_event is set nowhere that leads here.
       \/ At(o, "synth") /\ Leave(o, "saveResult", "failed") /\ Quiet
       \/ Handling(o) /\ EffectOrNot(o) /\ CleanUp(o, "over")
    /\ Others

-----------------------------------------------------------------------------
(***************************************************************************)
(* monitor_memory, once a second while the monitored block runs: renew the *)
(* lease; on a lost lease or slot, or too much memory, cancel the task and *)
(* stop.                                                                   *)
(***************************************************************************)
Monitored(o) == task[o].monitor = "on" /\ task[o].at \in {"loop", "early", "synth"}

MonitorCancels(o, cause) ==
    Become(o, [task[o] EXCEPT !.cancel = TRUE, !.cause = cause, !.monitor = "off"])

Heartbeat(o) ==
    /\ Monitored(o)
    /\ TouchOperation(HostOf[o], o)
    /\ IF TouchSucceeds(HostOf[o], o) THEN UNCHANGED task ELSE MonitorCancels(o, "lease")
    /\ UNCHANGED ledgerVars
    /\ Others

MemoryExceeded(o) ==
    /\ Monitored(o)
    /\ MonitorCancels(o, "memory")
    /\ Quiet /\ Others

-----------------------------------------------------------------------------
(***************************************************************************)
(* A storage call of the task raises, or a release times out: it took      *)
(* effect or it did not.                                                   *)
(***************************************************************************)
Faulty == faults < MaxFaults /\ faults' = faults + 1 /\ UNCHANGED lapses
OthersFaulty == Faulty /\ UNCHANGED <<cancelVars, scanVars, hostVars, unleased>>

TaskFault(o) ==
    /\ ~task[o].cancel
    /\ \/ task[o].at \in {"saveRunning", "saveResult"} /\ GoOn(o, "saveFailed")
       \/ At(o, "reconcile") /\ Settle(o)
       \/ Handling(o) /\ CleanUp(o, "raised")
       \/ At(o, "relSpend") /\ GoOn(o, "relLease")
       \/ At(o, "relLease") /\ GoOn(o, "relSlot")
       \/ At(o, "relSlot") /\ GoOn(o, task[o].next)
    /\ EffectOrNot(o)
    /\ OthersFaulty

\* A heartbeat that raises counts as a lost lease.
HeartbeatFault(o) ==
    /\ Monitored(o)
    /\ TouchOperation(HostOf[o], o) \/ UNCHANGED storeVars
    /\ MonitorCancels(o, "lease")
    /\ UNCHANGED ledgerVars
    /\ OthersFaulty

\* The report of exceeded memory raises: the monitor dies with the exception.
MonitorFault(o) ==
    /\ Monitored(o)
    /\ Become(o, [task[o] EXCEPT !.monitor = "broken"])
    /\ Quiet /\ OthersFaulty

-----------------------------------------------------------------------------
(***************************************************************************)
(* POST .../cancel: cancel_task and the endpoint around it.  A lookup      *)
(* raises or times out with a fault.                                       *)
(***************************************************************************)
Answer(c, at, seen, reply) ==
    req' = [req EXCEPT ![c] = [at |-> at, seen |-> seen, reply |-> reply]]

Local(c) == HostOf[TargetOf[c]] = ViaOf[c] /\ Live(TargetOf[c])

CancelQuiet == Quiet /\ UNCHANGED <<scanVars, hostVars, unleased>>

\* What a lookup saw, "unknown" when it failed.
Lookup(c, seen) ==
    \/ seen = StatusOf(TargetOf[c]) /\ UNCHANGED boundVars
    \/ seen = "unknown" /\ Faulty

\* Is the task here?  Whether it is, the stored status is read first.
CancelLookup(c) ==
    /\ req[c].at = "new"
    /\ \E seen \in Reply :
         /\ Lookup(c, seen)
         /\ Answer(c, IF Local(c) THEN "local" ELSE "remote", seen, "none")
    /\ CancelQuiet /\ UNCHANGED <<task, inbox, listening>>

\* Finished when read: refuse.  Otherwise cancel, and await the task.
CancelLocal(c) ==
    /\ req[c].at = "local"
    /\ IF req[c].seen \in TerminalStatus
         THEN Answer(c, "fallback", req[c].seen, "none") /\ UNCHANGED task
         ELSE /\ CancelAll({TargetOf[c]})
              /\ Answer(c, "await", req[c].seen, "none")
    /\ CancelQuiet /\ UNCHANGED <<inbox, listening, boundVars>>

\* Mutant: only the finally block ends the wait.
CancelAwaitsCleanup(c) ==
    /\ req[c].at = "await" /\ At(TargetOf[c], "over")
    /\ Answer(c, "confirm", "none", "none")
    /\ CancelQuiet /\ UNCHANGED <<task, inbox, listening, boundVars>>

\* An exception of the task is raised again here: the request fails.
CancelAwaited(c) ==
    /\ req[c].at = "await" /\ ~Live(TargetOf[c])
    /\ IF At(TargetOf[c], "raised")
         THEN Answer(c, "done", "none", "error")
         ELSE Answer(c, "confirm", "none", "none")
    /\ CancelQuiet /\ UNCHANGED <<task, inbox, listening, boundVars>>

\* Mutant: only another terminal status contradicts the cancellation.
CancelConfirmTerminal(c) ==
    /\ req[c].at = "confirm"
    /\ \E seen \in Reply :
         /\ Lookup(c, seen)
         /\ IF seen \in TerminalStatus \ {"cancelled"}
              THEN Answer(c, "fallback", seen, "none")
              ELSE Answer(c, "done", seen, "cancelled")
    /\ CancelQuiet /\ UNCHANGED <<task, inbox, listening>>

CancelConfirm(c) ==
    /\ req[c].at = "confirm"
    /\ \E seen \in Reply :
         /\ Lookup(c, seen)
         /\ IF seen = "cancelled"
              THEN Answer(c, "done", seen, "cancelled")
              ELSE Answer(c, "fallback", seen, "none")
    /\ CancelQuiet /\ UNCHANGED <<task, inbox, listening>>

\* The endpoint answers the stored status when cancel_task was refused.
CancelFallback(c) ==
    /\ req[c].at = "fallback"
    /\ \E seen \in Reply : Lookup(c, seen) /\ Answer(c, "done", seen, seen)
    /\ CancelQuiet /\ UNCHANGED <<task, inbox, listening>>

\* The broadcast: every live listener gets it; the reply does not wait.
CancelBroadcast(c) ==
    /\ req[c].at = "remote"
    /\ IF req[c].seen \in TerminalStatus
         THEN Answer(c, "fallback", req[c].seen, "none") /\ UNCHANGED inbox
         ELSE /\ Answer(c, "published", req[c].seen, "cancelled")
              /\ inbox' = [i \in Instance |->
                             IF i \in listening THEN inbox[i] \cup {TargetOf[c]} ELSE inbox[i]]
    /\ CancelQuiet /\ UNCHANGED <<task, listening, boundVars>>

CancelStep(c) ==
    \/ CancelLookup(c) \/ CancelLocal(c) \/ CancelAwaited(c) \/ CancelConfirm(c)
    \/ CancelFallback(c) \/ CancelBroadcast(c)

\* _listen cancels whatever task of that operation runs here, unasked.
Listen(i, o) ==
    /\ i \in listening /\ o \in inbox[i]
    /\ inbox' = [inbox EXCEPT ![i] = @ \ {o}]
    /\ CancelAll(IF HostOf[o] = i THEN {o} ELSE {})
    /\ CancelQuiet /\ UNCHANGED <<req, listening, boundVars>>

\* A connection error ends the listener for good.
ListenerDies(i) ==
    /\ i \in listening
    /\ listening' = listening \ {i}
    /\ inbox' = [inbox EXCEPT ![i] = {}]
    /\ Faulty
    /\ CancelQuiet /\ UNCHANGED <<task, req>>

-----------------------------------------------------------------------------
(***************************************************************************)
(* mark_stale_operations: read the index and the records (once a day, all  *)
(* records, to rebuild the index), then per active operation one atomic    *)
(* check-and-fail and, after it, the removal from the index.               *)
(***************************************************************************)
Scanning(i) == i \in Scanner \ dead /\ stopping[i] = 0
Between(i) == Scanning(i) /\ todo[i] = {} /\ removing[i] = {}

ScanQuiet == UNCHANGED <<ledgerVars, task, cancelVars, hostVars, unleased, boundVars>>

Scan(i) ==
    /\ Between(i)
    /\ todo' = [todo EXCEPT ![i] = {o \in activeOps : Active(o)}]
    /\ UNCHANGED <<storeVars, removing, reaped>> /\ ScanQuiet

Backfill(i) ==
    /\ Between(i)
    /\ todo' = [todo EXCEPT ![i] = {o \in Op : Active(o)}]
    /\ activeOps' = activeOps \cup {o \in Op : Active(o)}
    /\ UNCHANGED <<operations, owners, slots, lapsedSlots, removing, reaped>> /\ ScanQuiet

\* Mutant: the operation leaves the index whether it was failed or not.
ReapUnindexes(i, o) ==
    /\ Scanning(i) /\ o \in todo[i] /\ removing[i] = {}
    /\ FailIfUnowned(o)
    /\ todo' = [todo EXCEPT ![i] = @ \ {o}]
    /\ removing' = [removing EXCEPT ![i] = {o}]
    /\ reaped' = IF CanFailUnowned(o) THEN reaped \cup {o} ELSE reaped
    /\ ScanQuiet

Reap(i, o) ==
    /\ Scanning(i) /\ o \in todo[i] /\ removing[i] = {}
    /\ FailIfUnowned(o)
    /\ todo' = [todo EXCEPT ![i] = @ \ {o}]
    /\ IF CanFailUnowned(o)
         THEN /\ removing' = [removing EXCEPT ![i] = {o}]
              /\ reaped' = reaped \cup {o}
         ELSE UNCHANGED <<removing, reaped>>
    /\ ScanQuiet

Unindex(i, o) ==
    /\ Scanning(i) /\ o \in removing[i]
    /\ RemoveActive(o)
    /\ removing' = [removing EXCEPT ![i] = {}]
    /\ UNCHANGED <<todo, reaped>> /\ ScanQuiet

\* A call of the scan raises: this scan is over, the next one comes.
ScanFault(i) ==
    /\ Scanning(i) /\ todo[i] \cup removing[i] # {}
    /\ todo' = [todo EXCEPT ![i] = {}]
    /\ removing' = [removing EXCEPT ![i] = {}]
    /\ UNCHANGED reaped
    /\ Quiet /\ Faulty
    /\ UNCHANGED <<task, cancelVars, hostVars, unleased>>

ScanStep(i) == Scan(i) \/ Backfill(i) \/ \E o \in Op : Reap(i, o) \/ Unindex(i, o)

-----------------------------------------------------------------------------
(***************************************************************************)
(* Shutdown and crash.  lifespan stops the scan, quiesces the tasks (twice *)
(* if they outlast its budget) and exits; a process may also just die.  A  *)
(* restarted one is another instance.                                      *)
(***************************************************************************)
HostsOps(i) == {o \in Op : HostOf[o] = i}

Quiesce(i) ==
    /\ i \in MayStop \ dead /\ stopping[i] < 2
    /\ stopping' = [stopping EXCEPT ![i] = @ + 1]
    /\ CancelAll(HostsOps(i))
    /\ todo' = [todo EXCEPT ![i] = {}]
    /\ removing' = [removing EXCEPT ![i] = {}]
    /\ Quiet /\ UNCHANGED <<cancelVars, reaped, dead, unleased, boundVars>>

Dies(i) ==
    /\ i \notin dead /\ (i \in MayCrash \/ stopping[i] > 0)
    /\ dead' = dead \cup {i}
    /\ task' = [o \in Op |-> IF HostOf[o] = i /\ Live(o)
                               THEN [task[o] EXCEPT !.at = "crashed", !.cancel = FALSE, !.monitor = "off"]
                               ELSE task[o]]
    /\ req' = [c \in Canceller |->
                 IF ViaOf[c] = i /\ req[c].at \notin {"done", "published"}
                   THEN [req[c] EXCEPT !.at = "dead"]
                   ELSE req[c]]
    /\ listening' = listening \ {i}
    /\ inbox' = [inbox EXCEPT ![i] = {}]
    /\ todo' = [todo EXCEPT ![i] = {}]
    /\ removing' = [removing EXCEPT ![i] = {}]
    /\ Quiet /\ UNCHANGED <<reaped, stopping, unleased, boundVars>>

(***************************************************************************)
(* Time.  A task or its heartbeat may stall for longer than a TTL (bounded *)
(* by MaxLapses); what an ended task left behind does run out.             *)
(***************************************************************************)
TimeQuiet == UNCHANGED <<task, cancelVars, scanVars, hostVars>>

Lapse(o) ==
    /\ IF Live(o)
         THEN lapses < MaxLapses /\ lapses' = lapses + 1
         ELSE UNCHANGED lapses
    /\ UNCHANGED faults

OwnerLapses(o) ==
    /\ LeaseExpires(o)
    /\ Lapse(o)
    /\ unleased' = IF Live(o) THEN unleased \cup {o} ELSE unleased
    /\ UNCHANGED ledgerVars /\ TimeQuiet

SlotLapses(o) ==
    /\ SlotExpires(<<HostOf[o], o>>)
    /\ Lapse(o)
    /\ UNCHANGED <<ledgerVars, unleased>> /\ TimeQuiet

\* Another request's admission reaps the members whose score has passed.
SlotsReaped ==
    /\ lapsedSlots # {}
    /\ lapsedSlots' = {}
    /\ UNCHANGED <<operations, activeOps, owners, slots, ledgerVars, unleased, boundVars>>
    /\ TimeQuiet

WindowLapses ==
    /\ lapses < MaxLapses /\ lapses' = lapses + 1
    /\ WindowExpires
    /\ UNCHANGED <<storeVars, unleased, faults>> /\ TimeQuiet

-----------------------------------------------------------------------------
Next ==
    \/ \E o \in Op :
         \/ TaskStep(o) \/ Interrupt(o) \/ Heartbeat(o) \/ MemoryExceeded(o)
         \/ TaskFault(o) \/ HeartbeatFault(o) \/ MonitorFault(o)
         \/ OwnerLapses(o) \/ SlotLapses(o)
    \/ \E c \in Canceller : CancelStep(c)
    \/ \E i \in Instance :
         \/ (\E o \in Op : Listen(i, o)) \/ ListenerDies(i)
         \/ ScanStep(i) \/ ScanFault(i) \/ Quiesce(i) \/ Dies(i)
    \/ SlotsReaped \/ WindowLapses

Spec == Init /\ [][Next]_vars

(***************************************************************************)
(* Fairness.  The long awaits of a live task are bounded (the research     *)
(* loop by its duration limit, synthesis, ingest and releases by timeouts  *)
(* of their own).  A save or a lookup is not: the code gives its storage   *)
(* client no socket timeout, and that such a call answers, or raises, is   *)
(* assumed.  Every handler of a live process goes on, the TTLs of          *)
(* abandoned leases and slots run out, and the scan of every process that  *)
(* stays up comes round, its daily rebuild of the index too.               *)
(***************************************************************************)
Fairness ==
    /\ \A o \in Op :
         /\ WF_vars(TaskStep(o) \/ Interrupt(o))
         /\ WF_vars(~Live(o) /\ OwnerLapses(o))
         /\ WF_vars(~Live(o) /\ SlotLapses(o))
    /\ \A c \in Canceller : WF_vars(CancelStep(c))
    /\ \A i \in Scanner :
         /\ WF_vars(Scan(i)) /\ SF_vars(Backfill(i))
         /\ \A o \in Op : WF_vars(Reap(i, o)) /\ WF_vars(Unindex(i, o))

FairSpec == Spec /\ Fairness

-----------------------------------------------------------------------------
(***************************************************************************)
(* A cancel request that waited for the task, or fell back to the stored   *)
(* status, and answered "cancelled" tells the truth, and it stays true:    *)
(* the record says "cancelled" then and from then on, whatever the task,   *)
(* other requests, the scan and shutdown did meanwhile.  (The answer to a  *)
(* broadcast claims no such thing.)                                        *)
(***************************************************************************)
CancelledReplyHolds ==
    \A c \in Canceller :
        req[c].at = "done" /\ req[c].reply = "cancelled" => StatusOf(TargetOf[c]) = "cancelled"

(***************************************************************************)
(* The scan fails no operation behind a worker that kept its lease: either *)
(* the lease ran out under the worker, or the worker is past the release   *)
(* of the lease, never ran or died.                                        *)
(***************************************************************************)
ReapedOnlyAbandoned ==
    \A o \in reaped \ unleased : At(o, "relSlot") \/ ~Live(o)

(***************************************************************************)
(* A result that was stored is not lost: only a cancellation that is       *)
(* already on its way replaces it, neither the scan nor the failure path   *)
(* of the task does, as long as no call raised: one that stores the result *)
(* and raises is answered with "failed".                                   *)
(***************************************************************************)
StoredResultStays ==
    [][\A o \in Op : faults = 0 /\ StatusOf(o) \in {"completed", "partial"} =>
          operations'[o].status \in {StatusOf(o), "cancelled"}]_vars

(***************************************************************************)
(* However many cancellations land, and wherever, a task that ran its      *)
(* finally block has given back lease, slot and hold, as long as every     *)
(* call answers in time.                                                   *)
(***************************************************************************)
CleanedUp ==
    \A o \in Op : faults = 0 /\ At(o, "over") =>
        /\ owners[o] # HostOf[o]
        /\ <<HostOf[o], o>> \notin slots \cup lapsedSlots
        /\ ~CurrentHold(o)

(***************************************************************************)
(* "A crash between the state write and the index update cannot leave a    *)
(* queued/running record the reconciliation scan never discovers": every   *)
(* such record is in the index the scan reads, unless its worker outlived  *)
(* its lease.                                                              *)
(***************************************************************************)
ActiveIsIndexed == \A o \in Op \ unleased : Active(o) => o \in activeOps

(***************************************************************************)
(* Seen by clients, an operation goes through OperationLifecycle.          *)
(***************************************************************************)
StatusSeen == [o \in Op |-> StatusOf(o)]
WorkerOpen == [o \in Op |-> task[o].at \in Working]

Lifecycle == INSTANCE OperationLifecycle WITH status <- StatusSeen, open <- WorkerOpen

ImplementsLifecycle == Lifecycle!Spec

(***************************************************************************)
(* Every admitted operation ends for good, if one scanning instance stays  *)
(* up: its worker ends it, or its lease runs out and a scan fails it.      *)
(***************************************************************************)
EventuallyEnded == \A o \in Op : <>[]Terminal(o)

(***************************************************************************)
(* ... and its lease and slot come back, by release or by TTL.             *)
(***************************************************************************)
EventuallyReleased ==
    \A o \in Op : <>[](owners[o] = NoInstance /\ <<HostOf[o], o>> \notin slots)

(***************************************************************************)
(* Every cancel request is answered, unless its instance dies first.       *)
(***************************************************************************)
CancelsAnswered == \A c \in Canceller : <>(req[c].at \in {"done", "published", "dead"})

-----------------------------------------------------------------------------
(***************************************************************************)
(* What comments of the code say and it does not always do; each is        *)
(* checked by a run of its own.                                            *)
(***************************************************************************)
\* cancel_task must not flip "an immutable, already-persisted result": a
\* stored result is final.
StoredResultIsFinal ==
    [][\A o \in Op : StatusOf(o) \in {"completed", "partial"} =>
          operations'[o].status = StatusOf(o)]_vars

\* "This is fail-closed: do not synthesize or persist a result another worker
\* may own": a task whose heartbeat found the lease lost writes no status.
LostLeaseWritesNothing ==
    [][\A o \in Op : task[o].cause = "lease" /\ task'[o] # task[o] =>
          operations'[o] = operations[o]]_vars
=============================================================================
