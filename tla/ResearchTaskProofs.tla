------------------------- MODULE ResearchTaskProofs -------------------------
(***************************************************************************)
(* The life of admitted operations, for every finite set of operations,    *)
(* any instances, cancel requests and scanners, and any number of faults   *)
(* and lapses.                                                             *)
(***************************************************************************)
EXTENDS ResearchTask, StorageProofs

-----------------------------------------------------------------------------
(***************************************************************************)
(* What holds of one operation between two steps.                          *)
(***************************************************************************)

\* Only the wait for the monitor remembers where the block was left to.
NextInv(o) ==
    /\ At(o, "stop") => task[o].next \notin {"over", "raised"}
    /\ task[o].at \in (Working \ {"stop"}) \cup Cleaning => task[o].next \in {"over", "raised"}

\* Nobody but the handler writes "cancelled", and nothing is written after it.
CancelledInv(o) == StatusOf(o) = "cancelled" => task[o].at \in Cleaning \cup Ended

\* A task keeps its lease until it releases it.
LeaseInv(o) == o \notin unleased /\ Live(o) /\ ~At(o, "relSlot") => owners[o] = HostOf[o]

ReapedInv(o) == o \in reaped \ unleased => (At(o, "relSlot") \/ ~Live(o)) /\ ~Active(o)

IndexInv(o) == o \notin unleased /\ Active(o) => o \in activeOps

\* Where a task can be that has stored its result.
ResultInv(o) ==
    faults = 0 /\ StatusOf(o) \in {"completed", "partial"} =>
        task[o].at \notin Working \ {"reportResult", "reconcile", "saveCancelled"}

QueuedInv(o) == o \notin unleased /\ task[o].at \in {"start", "saveRunning"} => StatusOf(o) = "queued"

\* From where on nothing is held.
HoldInv(o) ==
    \/ ~Metered(o)
    \/ /\ faults = 0
       /\ task[o].settled \/ task[o].at \in {"ingest", "relLease", "relSlot", "over", "raised"}
    => holds[o] = NoHold

CleanInv(o) ==
    faults = 0 =>
        /\ task[o].at \in {"relSlot", "over", "raised"} => owners[o] # HostOf[o]
        /\ task[o].at \in {"over", "raised"} => <<HostOf[o], o>> \notin slots \cup lapsedSlots

OpInv(o) ==
    /\ NextInv(o) /\ CancelledInv(o) /\ LeaseInv(o) /\ ReapedInv(o) /\ IndexInv(o)
    /\ ResultInv(o) /\ QueuedInv(o) /\ HoldInv(o) /\ CleanInv(o)

ScanInv == \A i \in Instance : removing[i] \subseteq reaped

IInv == TypeOK /\ (\A o \in Op : OpInv(o)) /\ ScanInv /\ CancelledReplyHolds

(***************************************************************************)
(* What a step may do to the status of one operation.                      *)
(***************************************************************************)
\* The worker runs, ends or only goes on; without it, a scan abandons.
StatusRuns(o) ==
    /\ task[o].at \in Working /\ task'[o].at \in Working
    /\ operations'[o].status = "running"
    /\ o \notin unleased => StatusOf(o) = "queued"

StatusEnds(o) == task[o].at \in Working /\ operations'[o].status \in TerminalStatus

StatusStays(o) ==
    /\ operations'[o].status = StatusOf(o)
    /\ task'[o].at \in Working => task[o].at \in Working

StatusAbandoned(o) ==
    /\ task'[o] = task[o]
    /\ Active(o) /\ operations'[o].status = "failed"

StatusStep(o) == StatusRuns(o) \/ StatusEnds(o) \/ StatusStays(o) \/ StatusAbandoned(o)

\* What is stored is replaced as the properties allow.
StoredStep(o) ==
    /\ StatusOf(o) = "cancelled" => operations'[o].status = "cancelled"
    /\ faults = 0 /\ StatusOf(o) \in {"completed", "partial"} =>
          operations'[o].status \in {StatusOf(o), "cancelled"}

OpStep(o) == OpInv(o)' /\ StatusStep(o) /\ StoredStep(o)

\* One operation changes its status, or workers stop.
LifecycleStep ==
    \/ \E o \in Op :
         /\ StatusStep(o)
         /\ \A p \in Op \ {o} : operations'[p].status = StatusOf(p) /\ task'[p] = task[p]
    \/ \A p \in Op : StatusStays(p)

StepKeeps == IInv' /\ (\A p \in Op : StoredStep(p)) /\ LifecycleStep

-----------------------------------------------------------------------------
(***************************************************************************)
(* Types.                                                                  *)
(***************************************************************************)
LEMMA NamesDiffer ==
    /\ \A o \in Op : HostOf[o] \in Instance /\ HostOf[o] # NoInstance
    /\ \A o \in Op : AmountOf[o] \in Nat
    /\ \A c \in Canceller : TargetOf[c] \in Op /\ ViaOf[c] \in Instance
<1>1. \A o \in Op : HostOf[o] \in Instance /\ HostOf[o] # NoInstance
  BY TaskAssumption, StoreAssumption DEF TaskAssumption, StoreAssumption
<1>2. \A o \in Op : AmountOf[o] \in Amounts \cup {0}
  BY TaskAssumption DEF TaskAssumption
<1>3. \A c \in Canceller : TargetOf[c] \in Op /\ ViaOf[c] \in Instance
  BY TaskAssumption DEF TaskAssumption
<1> QED BY <1>1, <1>2, <1>3, AmountsAreNaturals

\* The storage calls a task makes about its own operation.
TaskCall(o) ==
    \/ Quiet
    \/ (\E s \in Status : SaveOperation(o, s)) /\ UNCHANGED ledgerVars
    \/ ReleaseOperationLease(HostOf[o], o) /\ UNCHANGED ledgerVars
    \/ ReleaseSlot(HostOf[o], o) /\ UNCHANGED ledgerVars
    \/ TouchOperation(HostOf[o], o) /\ UNCHANGED ledgerVars
    \/ (ReleaseSpend(o) \/ ReconcileSpend(o)) /\ UNCHANGED storeVars

LEMMA TaskCallTypes ==
    ASSUME StoreTypeOK, LedgerTypeOK, NEW o \in Op, TaskCall(o)
    PROVE  StoreTypeOK' /\ LedgerTypeOK'
<1>h. HostOf[o] \in Instance
  BY NamesDiffer
<1>1. CASE Quiet
  BY <1>1 DEF Quiet, storeVars, ledgerVars, StoreTypeOK, LedgerTypeOK
<1>2. ASSUME UNCHANGED ledgerVars PROVE LedgerTypeOK'
  BY <1>2 DEF ledgerVars, LedgerTypeOK
<1>3. ASSUME UNCHANGED storeVars PROVE StoreTypeOK'
  BY <1>3 DEF storeVars, StoreTypeOK
<1>4. ASSUME NEW s \in Status, SaveOperation(o, s) PROVE StoreTypeOK'
  BY <1>4 DEF SaveOperation, StoreTypeOK, Record
<1>5. ASSUME ReleaseOperationLease(HostOf[o], o) PROVE StoreTypeOK'
  BY <1>5 DEF ReleaseOperationLease, StoreTypeOK
<1>6. ASSUME ReleaseSlot(HostOf[o], o) PROVE StoreTypeOK'
  BY <1>6 DEF ReleaseSlot, StoreTypeOK
<1>7. ASSUME TouchOperation(HostOf[o], o) PROVE StoreTypeOK'
  BY <1>7, <1>h DEF TouchOperation, TouchSucceeds, StoreTypeOK, Slot
<1>8. ASSUME ReleaseSpend(o) \/ ReconcileSpend(o) PROVE LedgerTypeOK'
  <2>1. 0 \in Amounts \cup {0}
    OBVIOUS
  <2> QED BY <1>8, <2>1, LedgerCallTypes
<1> QED BY <1>1, <1>2, <1>3, <1>4, <1>5, <1>6, <1>7, <1>8 DEF TaskCall

\* They leave every other operation alone.
LEMMA TaskCallFrame ==
    ASSUME StoreTypeOK, LedgerTypeOK, NEW o \in Op, TaskCall(o), NEW p \in Op, p # o
    PROVE  /\ operations'[p] = operations[p]
           /\ owners'[p] = owners[p]
           /\ holds'[p] = holds[p]
           /\ p \in activeOps => p \in activeOps'
           /\ <<HostOf[p], p>> \in slots' \cup lapsedSlots' =>
                 <<HostOf[p], p>> \in slots \cup lapsedSlots
<1> USE DEF StoreTypeOK, LedgerTypeOK
<1>1. CASE Quiet
  BY <1>1 DEF Quiet, storeVars, ledgerVars
<1>2. CASE (\E s \in Status : SaveOperation(o, s)) /\ UNCHANGED ledgerVars
  BY <1>2 DEF SaveOperation, ledgerVars
<1>3. CASE ReleaseOperationLease(HostOf[o], o) /\ UNCHANGED ledgerVars
  BY <1>3 DEF ReleaseOperationLease, ledgerVars
<1>4. CASE ReleaseSlot(HostOf[o], o) /\ UNCHANGED ledgerVars
  BY <1>4 DEF ReleaseSlot, ledgerVars
<1>5. CASE TouchOperation(HostOf[o], o) /\ UNCHANGED ledgerVars
  BY <1>5 DEF TouchOperation, ledgerVars
<1>6. CASE (ReleaseSpend(o) \/ ReconcileSpend(o)) /\ UNCHANGED storeVars
  BY <1>6 DEF ReleaseSpend, ReconcileSpend, storeVars
<1> QED BY <1>1, <1>2, <1>3, <1>4, <1>5, <1>6 DEF TaskCall

\* An operation that a step leaves alone.
Untouched(p) ==
    /\ task'[p].at = task[p].at
    /\ task'[p].next = task[p].next
    /\ task'[p].settled = task[p].settled
    /\ operations'[p] = operations[p]
    /\ owners'[p] = owners[p]
    /\ holds'[p] = holds[p]
    /\ p \in activeOps => p \in activeOps'
    /\ <<HostOf[p], p>> \in slots' \cup lapsedSlots' =>
          <<HostOf[p], p>> \in slots \cup lapsedSlots
    /\ p \in reaped' <=> p \in reaped
    /\ p \in unleased' <=> p \in unleased
    /\ faults' = 0 => faults = 0

LEMMA UntouchedKeeps ==
    ASSUME NEW p \in Op, OpInv(p), Untouched(p)
    PROVE  OpStep(p) /\ StatusStays(p)
<1> USE DEF Untouched, At, Live, StatusOf, Active
<1>1. NextInv(p)' /\ CancelledInv(p)' /\ QueuedInv(p)'
  BY DEF OpInv, NextInv, CancelledInv, QueuedInv
<1>2. LeaseInv(p)' /\ ReapedInv(p)' /\ IndexInv(p)'
  BY DEF OpInv, LeaseInv, ReapedInv, IndexInv
<1>3. ResultInv(p)'
  BY DEF OpInv, ResultInv
<1>4. HoldInv(p)'
  BY DEF OpInv, HoldInv, Metered
<1>5. CleanInv(p)'
  BY DEF OpInv, CleanInv
<1>6. StatusStays(p) /\ StatusStep(p)
  BY DEF StatusStep, StatusStays
<1>7. StoredStep(p)
  BY DEF StoredStep
<1> QED BY <1>1, <1>2, <1>3, <1>4, <1>5, <1>6, <1>7 DEF OpStep, OpInv

\* A step by which the task of o, and nothing else, moves.
TaskMoves(o) ==
    /\ task' = [task EXCEPT ![o] = task'[o]]
    /\ task'[o] \in Task
    /\ TaskCall(o)
    /\ UNCHANGED <<cancelVars, scanVars, hostVars, unleased>>
    /\ lapses' = lapses
    /\ faults' = faults \/ (faults < MaxFaults /\ faults' = faults + 1)

LEMMA TaskMovesKeep ==
    ASSUME IInv, NEW o \in Op, TaskMoves(o), OpStep(o)
    PROVE  StepKeeps
<1>1. StoreTypeOK' /\ LedgerTypeOK'
  BY TaskCallTypes DEF IInv, TypeOK, TaskMoves
<1>f. faults \in Nat /\ MaxFaults \in Nat
  BY TaskAssumption DEF IInv, TypeOK, TaskAssumption
<1>2. faults' \in 0..MaxFaults /\ (faults' = 0 => faults = 0)
  BY <1>f DEF IInv, TypeOK, TaskMoves
<1>3. task' \in [Op -> Task]
  BY DEF IInv, TypeOK, TaskMoves
<1>4. TypeOK'
  BY <1>1, <1>2, <1>3 DEF IInv, TypeOK, TaskMoves, cancelVars, scanVars, hostVars
<1>5. ASSUME NEW p \in Op
      PROVE  OpStep(p)
  <2>1. CASE p = o
    BY <2>1
  <2>2. CASE p # o
    <3>1. task'[p] = task[p]
      BY <2>2 DEF IInv, TypeOK, TaskMoves
    <3>2. Untouched(p)
      BY <1>2, <2>2, <3>1, TaskCallFrame DEF IInv, TypeOK, TaskMoves, Untouched, scanVars
    <3> QED BY <3>2, UntouchedKeeps DEF IInv
  <2> QED BY <2>1, <2>2
<1>6. ScanInv'
  BY DEF IInv, ScanInv, TaskMoves, scanVars
<1>7. CancelledReplyHolds'
  BY <1>5, NamesDiffer DEF IInv, CancelledReplyHolds, TaskMoves, cancelVars, OpStep, StoredStep, StatusOf
<1>8. ASSUME NEW p \in Op \ {o}
      PROVE  operations'[p].status = StatusOf(p) /\ task'[p] = task[p]
  <2>1. operations'[p] = operations[p]
    BY <1>8, TaskCallFrame DEF IInv, TypeOK, TaskMoves
  <2>2. task'[p] = task[p]
    BY <1>8 DEF IInv, TypeOK, TaskMoves
  <2> QED BY <2>1, <2>2 DEF StatusOf
<1>9. StatusStep(o)
  BY DEF OpStep
<1>10. LifecycleStep
  BY <1>8, <1>9 DEF LifecycleStep
<1> QED BY <1>4, <1>5, <1>6, <1>7, <1>10 DEF StepKeeps, IInv, OpStep

\* A step beside the operations.
LEMMA AsideKeeps ==
    ASSUME IInv, TypeOK', \A p \in Op : Untouched(p), ScanInv',
           \A c \in Canceller : req'[c].at = "done" /\ req'[c].reply = "cancelled" =>
              \/ req[c].at = "done" /\ req[c].reply = "cancelled"
              \/ StatusOf(TargetOf[c]) = "cancelled"
    PROVE  StepKeeps
<1>1. \A p \in Op : OpStep(p) /\ StatusStays(p)
  BY UntouchedKeeps DEF IInv
<1>2. LifecycleStep
  BY <1>1 DEF LifecycleStep
<1>3. CancelledReplyHolds'
  BY <1>1, NamesDiffer DEF IInv, CancelledReplyHolds, OpStep, StoredStep, StatusOf
<1> QED BY <1>1, <1>2, <1>3 DEF StepKeeps, IInv, OpStep

-----------------------------------------------------------------------------
(***************************************************************************)
(* The worker.  GoesOn is what its moves have in common: to t, from inside *)
(* the handlers' reach, not past the release of the lease.                 *)
(***************************************************************************)
Early == Working \ {"reportResult", "reconcile", "saveCancelled"}

NextOf(t) ==
    /\ t.at = "stop" => t.next \notin {"over", "raised"}
    /\ t.at \in (Working \ {"stop"}) \cup Cleaning => t.next \in {"over", "raised"}

GoesOn(o, t) ==
    /\ task[o].at \in Working /\ t.at \notin {"relSlot", "over", "raised"}
    /\ t.at \in Early => task[o].at \in Early
    /\ t.at \in {"start", "saveRunning"} => At(o, "start")
    /\ t.settled = task[o].settled
    /\ t.at \in {"ingest", "relLease"} => t.settled \/ ~Metered(o)
    /\ NextOf(t)

TaskOthers == Others \/ OthersFaulty

LEMMA Becomes ==
    ASSUME TypeOK, NEW o \in Op, NEW t \in Task, Become(o, t), TaskCall(o), TaskOthers
    PROVE  TaskMoves(o) /\ task'[o] = t /\ (faults' = 0 => faults = 0)
<1>1. task'[o] = t /\ task' = [task EXCEPT ![o] = task'[o]]
  BY DEF Become, TypeOK
<1>2. faults \in Nat
  BY TaskAssumption DEF TypeOK, TaskAssumption
<1> QED BY <1>1, <1>2 DEF TaskMoves, TaskOthers, Others, OthersFaulty, Faulty, boundVars,
        cancelVars, scanVars, hostVars

LEMMA QuietMove ==
    ASSUME IInv, NEW o \in Op, NEW t \in Task, Become(o, t), GoesOn(o, t), Quiet, TaskOthers
    PROVE  TaskMoves(o) /\ OpStep(o)
<1>1. TaskMoves(o) /\ task'[o] = t /\ (faults' = 0 => faults = 0)
  BY Becomes DEF IInv, TaskCall
<1>2. /\ OpInv(o)
      /\ operations' = operations /\ owners' = owners /\ activeOps' = activeOps
      /\ slots' = slots /\ lapsedSlots' = lapsedSlots /\ holds' = holds
      /\ unleased' = unleased /\ reaped' = reaped
  BY <1>1 DEF IInv, Quiet, storeVars, ledgerVars, TaskMoves, scanVars
<1>3. task[o].at \in Working \ {"relSlot"} /\ Live(o)
  BY DEF GoesOn, Live, Working, Ended
<1>4. NextInv(o)'
  BY <1>1 DEF NextInv, GoesOn, NextOf, At
<1>5. CancelledInv(o)' /\ ReapedInv(o)' /\ IndexInv(o)' /\ LeaseInv(o)'
  BY <1>1, <1>2, <1>3
     DEF OpInv, CancelledInv, ReapedInv, IndexInv, LeaseInv, StatusOf, Active, At, Live,
         Working, Cleaning, Ended
<1>6. ResultInv(o)'
  BY <1>1, <1>2 DEF OpInv, ResultInv, GoesOn, Early, StatusOf
<1>7. QueuedInv(o)'
  BY <1>1, <1>2 DEF OpInv, QueuedInv, GoesOn, StatusOf, At
<1>8. HoldInv(o)'
  BY <1>1, <1>2 DEF OpInv, HoldInv, GoesOn, Metered
<1>9. CleanInv(o)'
  BY <1>1, <1>2 DEF CleanInv, GoesOn
<1>10. StatusStep(o) /\ StoredStep(o)
  BY <1>1, <1>2, <1>3 DEF StatusStep, StatusStays, StoredStep, StatusOf
<1> QED BY <1>1, <1>4, <1>5, <1>6, <1>7, <1>8, <1>9, <1>10 DEF OpStep, OpInv

\* A status the worker may write where it is, on its way to t.
MayWrite(o, s, t) ==
    /\ t.at \notin {"start", "saveRunning"}
    /\ \/ s = "running" /\ At(o, "saveRunning") /\ t.at \in Working
       \/ s = "failed" /\ task[o].at \in Early
       \/ s = "cancelled" /\ At(o, "saveCancelled") /\ t.at \in Cleaning
       \/ s \in {"completed", "partial"} /\ At(o, "saveResult") /\ (t.at \notin Early \/ faults' # 0)

LEMMA SavingMove ==
    ASSUME IInv, NEW o \in Op, NEW t \in Task, Become(o, t), GoesOn(o, t),
           NEW s \in Status, SaveOperation(o, s), UNCHANGED ledgerVars, MayWrite(o, s, t),
           TaskOthers
    PROVE  TaskMoves(o) /\ OpStep(o)
<1>1. TaskMoves(o) /\ task'[o] = t /\ (faults' = 0 => faults = 0)
  BY Becomes DEF IInv, TaskCall
<1>2. /\ OpInv(o)
      /\ owners' = owners /\ slots' = slots /\ lapsedSlots' = lapsedSlots /\ holds' = holds
      /\ unleased' = unleased /\ reaped' = reaped
  BY <1>1 DEF IInv, SaveOperation, ledgerVars, TaskMoves, scanVars
<1>3. operations'[o].status = s
  BY DEF IInv, TypeOK, StoreTypeOK, SaveOperation, Record
<1>4. s \in ActiveStatus => o \in activeOps'
  BY DEF SaveOperation
<1>5. task[o].at \in Working \ {"relSlot"} /\ Live(o)
  BY DEF GoesOn, Live, Working, Ended
<1>6. NextInv(o)'
  BY <1>1 DEF NextInv, GoesOn, NextOf, At
<1>7. CancelledInv(o)'
  BY <1>1, <1>3 DEF MayWrite, CancelledInv, StatusOf
<1>8. ReapedInv(o)' /\ LeaseInv(o)'
  BY <1>1, <1>2, <1>5 DEF OpInv, ReapedInv, LeaseInv, At, Live, Working, Ended
<1>9. IndexInv(o)'
  BY <1>3, <1>4 DEF IndexInv, Active, StatusOf
<1>10. ResultInv(o)'
  BY <1>1, <1>3 DEF ResultInv, MayWrite, Early, StatusOf
<1>11. QueuedInv(o)'
  BY <1>1 DEF QueuedInv, MayWrite
<1>12. HoldInv(o)'
  BY <1>1, <1>2 DEF OpInv, HoldInv, GoesOn, Metered
<1>13. CleanInv(o)'
  BY <1>1, <1>2 DEF CleanInv, GoesOn
<1>14. StatusStep(o)
  <2>1. CASE s = "running"
    BY <1>1, <1>2, <1>3, <1>5, <2>1
       DEF MayWrite, StatusStep, StatusRuns, OpInv, QueuedInv, At
  <2>2. CASE s # "running"
    BY <1>3, <1>5, <2>2 DEF MayWrite, StatusStep, StatusEnds, TerminalStatus
  <2> QED BY <2>1, <2>2
<1>15. StoredStep(o)
  BY <1>2, <1>3, <1>5
     DEF MayWrite, StoredStep, OpInv, ResultInv, CancelledInv, Early, Working, Cleaning, Ended, At, StatusOf
<1> QED
  BY <1>1, <1>6, <1>7, <1>8, <1>9, <1>10, <1>11, <1>12, <1>13, <1>14, <1>15 DEF OpStep, OpInv

\* The ways the worker's code has of moving on.
Resumed(o, s) == [task[o] EXCEPT !.at = s, !.cancel = FALSE]

LEMMA ResumedTask ==
    ASSUME TypeOK, NEW o \in Op, NEW s, s \in Working \cup Cleaning \cup Ended
    PROVE  /\ Resumed(o, s) \in Task
           /\ Resumed(o, s).at = s
           /\ Resumed(o, s).next = task[o].next
           /\ Resumed(o, s).settled = task[o].settled
<1>1. task[o] \in Task
  BY DEF TypeOK
<1> QED BY <1>1 DEF Resumed, Task

\* ... to s within the block, or to a handler.
LEMMA GoOnGoes ==
    ASSUME IInv, NEW o \in Op, task[o].at \in Working \ {"stop"},
           NEW s, s \in Working \ {"stop", "start"},
           s = "saveRunning" => At(o, "start"),
           s \in Early => task[o].at \in Early
    PROVE  GoesOn(o, Resumed(o, s))
<1>1. s \in Working \cup Cleaning \cup Ended
  OBVIOUS
<1>2. OpInv(o)
  BY DEF IInv
<1>3. /\ Resumed(o, s).at = s
      /\ Resumed(o, s).next = task[o].next
      /\ Resumed(o, s).settled = task[o].settled
  BY <1>1, ResumedTask DEF IInv
<1> QED BY <1>2, <1>3 DEF OpInv, NextInv, GoesOn, NextOf, Working, Cleaning, At

\* ... through the finally of the monitored block.
LeaveTo == {"saveResult", "saveFailed", "saveCancelled", "cleanup"}

LeaveTask(o, s, outcome) ==
    LET t == [task[o] EXCEPT !.cancel = FALSE, !.outcome = outcome] IN
    IF t.monitor = "on" THEN [t EXCEPT !.at = "stop", !.next = s]
    ELSE IF t.monitor = "broken" THEN [t EXCEPT !.at = "saveFailed", !.monitor = "off"]
    ELSE IF s = "cleanup" THEN [t EXCEPT !.at = FirstRelease(o, t.settled), !.next = "over"]
    ELSE [t EXCEPT !.at = s]

LEMMA LeaveIs ==
    ASSUME TypeOK, NEW o \in Op, NEW s \in LeaveTo,
           NEW outcome \in TerminalStatus \ {"cancelled"}, Leave(o, s, outcome)
    PROVE  Become(o, LeaveTask(o, s, outcome)) /\ LeaveTask(o, s, outcome) \in Task
<1>1. task[o] \in Task
  BY DEF TypeOK
<1>2. task[o].monitor \in {"off", "on", "broken"}
  BY <1>1 DEF Task
<1> DEFINE t == [task[o] EXCEPT !.cancel = FALSE, !.outcome = outcome]
<1>3. t \in Task /\ t.monitor = task[o].monitor
  BY <1>1 DEF Task
<1>4. FirstRelease(o, t.settled) \in Cleaning
  BY DEF FirstRelease, Cleaning
<1>5. CASE t.monitor = "on"
  <2>1. [t EXCEPT !.at = "stop", !.next = s] \in Task
    BY <1>3, s # "cleanup" \/ s = "cleanup" DEF Task, Working, LeaveTo
  <2> QED BY <1>5, <2>1 DEF Leave, LeaveTask
<1>6. CASE t.monitor = "broken"
  <2>1. [t EXCEPT !.at = "saveFailed", !.monitor = "off"] \in Task
    BY <1>3 DEF Task, Working
  <2> QED BY <1>6, <2>1 DEF Leave, LeaveTask
<1>7. CASE t.monitor = "off" /\ s = "cleanup"
  <2>1. [t EXCEPT !.at = FirstRelease(o, t.settled), !.next = "over"] \in Task
    BY <1>3, <1>4 DEF Task
  <2> QED BY <1>7, <2>1 DEF Leave, LeaveTask
<1>8. CASE t.monitor = "off" /\ s # "cleanup"
  <2>1. [t EXCEPT !.at = s] \in Task
    BY <1>3, <1>8 DEF Task, Working, LeaveTo
  <2> QED BY <1>8, <2>1 DEF Leave, LeaveTask
<1> QED BY <1>2, <1>3, <1>5, <1>6, <1>7, <1>8

LEMMA LeaveGoes ==
    ASSUME IInv, NEW o \in Op, NEW s \in LeaveTo,
           NEW outcome \in TerminalStatus \ {"cancelled"},
           task[o].at \in {"loop", "early", "synth"}
    PROVE  GoesOn(o, LeaveTask(o, s, outcome))
<1>1. task[o] \in Task /\ OpInv(o)
  BY DEF IInv, TypeOK
<1> DEFINE t == LeaveTask(o, s, outcome)
<1>2. t.settled = task[o].settled
  BY <1>1 DEF LeaveTask, Task
<1>3. t.at \in {"stop", "saveFailed", FirstRelease(o, task[o].settled), s} /\ (t.at = "cleanup" => FALSE)
  BY <1>1 DEF LeaveTask, Task, FirstRelease, LeaveTo
<1>4. NextOf(t)
  BY <1>1 DEF LeaveTask, Task, FirstRelease, LeaveTo, NextOf, OpInv, NextInv, Working, Cleaning, At
<1>5. FirstRelease(o, task[o].settled) = "relLease" => task[o].settled \/ ~Metered(o)
  BY DEF FirstRelease
<1> QED
  BY <1>2, <1>3, <1>4, <1>5
     DEF GoesOn, Early, Working, FirstRelease, LeaveTo, At

LEMMA QuietGoOn ==
    ASSUME IInv, NEW o \in Op, task[o].at \in Working \ {"stop"},
           NEW s \in Working \ {"stop", "start"},
           s = "saveRunning" => At(o, "start"),
           s \in Early => task[o].at \in Early,
           GoOn(o, s), Quiet, TaskOthers
    PROVE  TaskMoves(o) /\ OpStep(o)
<1>1. s \in Working \cup Cleaning \cup Ended
  OBVIOUS
<1>2. Resumed(o, s) \in Task
  BY <1>1, ResumedTask DEF IInv
<1>3. GoesOn(o, Resumed(o, s))
  BY GoOnGoes
<1>4. Become(o, Resumed(o, s))
  BY DEF GoOn, Resumed
<1> QED BY <1>2, <1>3, <1>4, QuietMove

LEMMA SavingGoOn ==
    ASSUME IInv, NEW o \in Op, task[o].at \in Working \ {"stop"},
           NEW a \in Working \ {"stop", "start", "saveRunning"},
           a \in Early => task[o].at \in Early,
           GoOn(o, a),
           NEW s \in Status, SaveOperation(o, s), UNCHANGED ledgerVars,
           \/ s = "running" /\ At(o, "saveRunning")
           \/ s = "failed" /\ task[o].at \in Early
           \/ s \in {"completed", "partial"} /\ At(o, "saveResult") /\ (a \notin Early \/ faults' # 0),
           TaskOthers
    PROVE  TaskMoves(o) /\ OpStep(o)
<1>1. a \in Working \cup Cleaning \cup Ended
  OBVIOUS
<1>2. Resumed(o, a) \in Task /\ Resumed(o, a).at = a
  BY <1>1, ResumedTask DEF IInv
<1>3. GoesOn(o, Resumed(o, a))
  BY GoOnGoes
<1>4. Become(o, Resumed(o, a))
  BY DEF GoOn, Resumed
<1>5. MayWrite(o, s, Resumed(o, a))
  BY <1>2 DEF MayWrite
<1> QED BY <1>2, <1>3, <1>4, <1>5, SavingMove

LEMMA QuietLeave ==
    ASSUME IInv, NEW o \in Op, task[o].at \in {"loop", "early", "synth"}, NEW s \in LeaveTo,
           NEW outcome \in TerminalStatus \ {"cancelled"}, Leave(o, s, outcome),
           Quiet, TaskOthers
    PROVE  TaskMoves(o) /\ OpStep(o)
<1> DEFINE t == LeaveTask(o, s, outcome)
<1>1. Become(o, t) /\ t \in Task
  BY LeaveIs DEF IInv
<1>2. GoesOn(o, t)
  BY LeaveGoes
<1> HIDE DEF t
<1> QED BY <1>1, <1>2, QuietMove

\* ... from a handler to the finally block.
CleanUpTask(o, exit) ==
    [task[o] EXCEPT !.at = FirstRelease(o, task[o].settled), !.cancel = FALSE, !.next = exit]

LEMMA HandlerMove ==
    ASSUME IInv, NEW o \in Op, Handling(o), NEW exit \in {"over", "raised"}, CleanUp(o, exit),
           SaveHandlerCall(o) \/ Quiet, TaskOthers
    PROVE  TaskMoves(o) /\ OpStep(o)
<1> DEFINE t == CleanUpTask(o, exit)
<1>1. task[o] \in Task /\ OpInv(o)
  BY DEF IInv, TypeOK
<1>2. FirstRelease(o, task[o].settled) \in {"relSpend", "relLease"}
  BY DEF FirstRelease
<1>3. /\ t \in Task /\ t.at \in {"relSpend", "relLease"} /\ t.next = exit
      /\ t.settled = task[o].settled
      /\ t.at = "relLease" => task[o].settled \/ ~Metered(o)
  BY <1>1, <1>2 DEF CleanUpTask, Task, Cleaning, FirstRelease
<1>4. GoesOn(o, t)
  BY <1>3 DEF GoesOn, Handling, NextOf, Early, Working
<1>5. Become(o, t)
  BY DEF CleanUp, CleanUpTask
<1>6. MayWrite(o, HandlerStatus(o), t) /\ HandlerStatus(o) \in Status
  BY <1>3 DEF MayWrite, HandlerStatus, Handling, Early, Working, Cleaning, Status, TerminalStatus, At
<1> HIDE DEF t
<1>7. CASE SaveHandlerCall(o)
  BY <1>3, <1>4, <1>5, <1>6, <1>7, SavingMove DEF SaveHandlerCall
<1>8. CASE Quiet
  BY <1>3, <1>4, <1>5, <1>8, QuietMove
<1> QED BY <1>7, <1>8

\* The reservation is reconciled, or a call that raised may have.
LEMMA ReconcileMove ==
    ASSUME IInv, NEW o \in Op, NEW t \in Task, Become(o, t), At(o, "reconcile"),
           t.at \in {"ingest", "saveCancelled"}, t.next = task[o].next,
           ReconcileCall(o) \/ (Quiet /\ faults' # 0), TaskOthers
    PROVE  TaskMoves(o) /\ OpStep(o)
<1>1. TaskMoves(o) /\ task'[o] = t /\ (faults' = 0 => faults = 0)
  BY Becomes DEF IInv, TaskCall, ReconcileCall
<1>2. /\ OpInv(o)
      /\ operations' = operations /\ owners' = owners /\ activeOps' = activeOps
      /\ slots' = slots /\ lapsedSlots' = lapsedSlots
      /\ unleased' = unleased /\ reaped' = reaped
  BY <1>1 DEF IInv, Quiet, ReconcileCall, storeVars, TaskMoves, scanVars
<1>3. holds'[o] = NoHold \/ (holds' = holds /\ faults' # 0)
  BY DEF IInv, TypeOK, LedgerTypeOK, ReconcileCall, ReconcileSpend, Quiet, ledgerVars
<1>4. NextInv(o)'
  BY <1>1, <1>2 DEF OpInv, NextInv, At, Working, Cleaning
<1>5. CancelledInv(o)' /\ ReapedInv(o)' /\ IndexInv(o)' /\ LeaseInv(o)'
  BY <1>1, <1>2
     DEF OpInv, CancelledInv, ReapedInv, IndexInv, LeaseInv, StatusOf, Active, At, Live,
         Working, Cleaning, Ended
<1>6. ResultInv(o)' /\ QueuedInv(o)'
  BY <1>1, <1>2 DEF OpInv, ResultInv, QueuedInv, StatusOf, At, Working
<1>7. HoldInv(o)'
  BY <1>1, <1>2, <1>3 DEF OpInv, HoldInv, Metered
<1>8. CleanInv(o)'
  BY <1>1, <1>2 DEF CleanInv
<1>9. StatusStep(o) /\ StoredStep(o)
  BY <1>1, <1>2 DEF StatusStep, StatusStays, StoredStep, StatusOf, At, Working
<1> QED BY <1>1, <1>4, <1>5, <1>6, <1>7, <1>8, <1>9 DEF OpStep, OpInv

\* The finally block, one release after the other.
CleansTo(o, a) ==
    \/ At(o, "ingest") /\ a = "relLease" /\ Quiet
    \/ /\ At(o, "relSpend") /\ a = "relLease"
       /\ (ReleaseSpend(o) /\ UNCHANGED storeVars) \/ (Quiet /\ faults' # 0)
    \/ /\ At(o, "relLease") /\ a = "relSlot"
       /\ (ReleaseOperationLease(HostOf[o], o) /\ UNCHANGED ledgerVars) \/ (Quiet /\ faults' # 0)
    \/ /\ At(o, "relSlot") /\ a = task[o].next
       /\ (ReleaseSlot(HostOf[o], o) /\ UNCHANGED ledgerVars) \/ (Quiet /\ faults' # 0)

LEMMA CleaningMove ==
    ASSUME IInv, NEW o \in Op, NEW a, GoOn(o, a), CleansTo(o, a), TaskOthers
    PROVE  TaskMoves(o) /\ OpStep(o)
<1> DEFINE t == Resumed(o, a)
<1>0. task[o] \in Task /\ OpInv(o) /\ HostOf[o] # NoInstance
  BY NamesDiffer DEF IInv, TypeOK
<1>a. task[o].at \in Cleaning
  BY DEF CleansTo, At, Cleaning
<1>b. task[o].next \in {"over", "raised"}
  BY <1>0, <1>a DEF OpInv, NextInv, Working
<1>c. a \in {"relLease", "relSlot", "over", "raised"}
  BY <1>b DEF CleansTo
<1>d. t \in Task /\ t.at = a /\ t.next = task[o].next /\ t.settled = task[o].settled
  <2>1. a \in Working \cup Cleaning \cup Ended
    BY <1>c DEF Cleaning, Ended
  <2> QED BY <2>1, ResumedTask DEF IInv
<1>e. Become(o, t)
  BY DEF GoOn, Resumed
<1> HIDE DEF t
<1>1. TaskMoves(o) /\ task'[o] = t /\ (faults' = 0 => faults = 0)
  <2>1. TaskCall(o)
    BY DEF CleansTo, TaskCall
  <2> QED BY <2>1, <1>d, <1>e, Becomes DEF IInv
<1>2. /\ operations' = operations /\ activeOps' = activeOps
      /\ unleased' = unleased /\ reaped' = reaped
  BY <1>1
     DEF CleansTo, Quiet, storeVars, ReleaseOperationLease, ReleaseSlot, TaskMoves, scanVars
<1>3. /\ owners'[o] # HostOf[o] \/ owners'[o] = owners[o]
      /\ At(o, "relLease") /\ faults' = 0 => owners'[o] # HostOf[o]
      /\ ~At(o, "relLease") => owners'[o] = owners[o]
  BY <1>0 DEF CleansTo, Quiet, storeVars, ReleaseOperationLease, ReleaseSlot, At,
              IInv, TypeOK, StoreTypeOK
<1>4. /\ At(o, "relSlot") /\ faults' = 0 => <<HostOf[o], o>> \notin slots' \cup lapsedSlots'
  BY DEF CleansTo, ReleaseSlot, At
<1>5. /\ holds'[o] = NoHold \/ holds'[o] = holds[o]
      /\ At(o, "relSpend") /\ faults' = 0 => holds'[o] = NoHold
  BY DEF CleansTo, Quiet, ledgerVars, ReleaseSpend, At, IInv, TypeOK, LedgerTypeOK
<1>6. NextInv(o)'
  BY <1>1, <1>b, <1>c, <1>d DEF NextInv, At
<1>7. CancelledInv(o)' /\ IndexInv(o)'
  BY <1>0, <1>1, <1>2, <1>c, <1>d
     DEF OpInv, CancelledInv, IndexInv, StatusOf, Active, Cleaning, Ended
<1>f. /\ Live(o)
      /\ a = "relLease" => ~At(o, "relLease") /\ ~At(o, "relSlot")
      /\ At(o, "relSlot") => a \in {"over", "raised"}
  BY <1>a, <1>b DEF CleansTo, At, Live, Cleaning, Ended
<1>g. /\ Live(o)' <=> a \in {"relLease", "relSlot"}
      /\ At(o, "relSlot")' <=> a = "relSlot"
  BY <1>1, <1>c, <1>d DEF At, Live, Ended
<1>8. LeaseInv(o)'
  BY <1>0, <1>2, <1>3, <1>f, <1>g DEF OpInv, LeaseInv
<1>9. ReapedInv(o)'
  <2>1. Active(o)' <=> Active(o)
    BY <1>2 DEF Active, StatusOf
  <2> QED BY <1>0, <1>2, <1>c, <1>f, <1>g, <2>1 DEF OpInv, ReapedInv
<1>10. ResultInv(o)' /\ QueuedInv(o)'
  BY <1>1, <1>c, <1>d DEF ResultInv, QueuedInv, Working
<1>11. HoldInv(o)'
  BY <1>0, <1>1, <1>5, <1>c, <1>d DEF OpInv, HoldInv, Metered, CleansTo, At
<1>12. CleanInv(o)'
  BY <1>0, <1>1, <1>3, <1>4, <1>c, <1>d DEF OpInv, CleanInv, CleansTo, At
<1>13. StatusStep(o) /\ StoredStep(o)
  BY <1>1, <1>2, <1>c, <1>d DEF StatusStep, StatusStays, StoredStep, StatusOf, Working
<1> QED
  BY <1>1, <1>6, <1>7, <1>8, <1>9, <1>10, <1>11, <1>12, <1>13 DEF OpStep, OpInv

\* The monitor moves, beside the task.
LEMMA MonitorMove ==
    ASSUME IInv, NEW o \in Op, NEW t \in Task, Become(o, t), Monitored(o),
           t.at = task[o].at, t.next = task[o].next, t.settled = task[o].settled,
           TouchOperation(HostOf[o], o) \/ UNCHANGED storeVars, UNCHANGED ledgerVars, TaskOthers
    PROVE  TaskMoves(o) /\ OpStep(o)
<1>1. TaskMoves(o) /\ task'[o] = t /\ (faults' = 0 => faults = 0)
  <2>1. TaskCall(o)
    BY DEF TaskCall, Quiet
  <2> QED BY <2>1, Becomes DEF IInv
<1>2. /\ OpInv(o)
      /\ operations' = operations /\ owners' = owners /\ activeOps' = activeOps
      /\ holds' = holds /\ unleased' = unleased /\ reaped' = reaped
  BY <1>1 DEF IInv, TouchOperation, storeVars, ledgerVars, TaskMoves, scanVars
<1>3. task[o].at \in {"loop", "early", "synth"}
  BY DEF Monitored
<1>4. NextInv(o)' /\ CancelledInv(o)' /\ ReapedInv(o)' /\ IndexInv(o)' /\ LeaseInv(o)'
  BY <1>1, <1>2
     DEF OpInv, NextInv, CancelledInv, ReapedInv, IndexInv, LeaseInv, StatusOf, Active, At, Live
<1>5. ResultInv(o)' /\ QueuedInv(o)' /\ HoldInv(o)'
  BY <1>1, <1>2 DEF OpInv, ResultInv, QueuedInv, HoldInv, Metered, StatusOf
<1>6. CleanInv(o)'
  BY <1>1, <1>3 DEF CleanInv
<1>7. StatusStep(o) /\ StoredStep(o)
  BY <1>1, <1>2 DEF StatusStep, StatusStays, StoredStep, StatusOf
<1> QED BY <1>1, <1>4, <1>5, <1>6, <1>7 DEF OpStep, OpInv

-----------------------------------------------------------------------------
(***************************************************************************)
(* Every action of a task and its monitor is one of these moves.           *)
(***************************************************************************)
LEMMA WithinBlock ==
    ASSUME IInv, NEW o \in Op, TaskOthers,
           \/ Start(o) \/ SaveRunning(o) \/ Prepare(o) \/ PrepareFails(o)
           \/ LoopEnds(o) \/ LoopStops(o) \/ ReportEarly(o) \/ Synthesize(o)
    PROVE  TaskMoves(o) /\ OpStep(o)
<1> USE DEF Runs
<1>1. CASE Start(o)
  BY <1>1, QuietGoOn DEF Start, At, Early, Working
<1>2. CASE SaveRunning(o)
  BY <1>2, SavingGoOn DEF SaveRunning, At, Early, Working, Status, ActiveStatus
<1>3. CASE Prepare(o)
  <2> DEFINE t == [task[o] EXCEPT !.at = "loop", !.cancel = FALSE, !.monitor = "on"]
  <2>1. task[o] \in Task /\ OpInv(o) /\ task[o].at = "setup"
    BY <1>3 DEF IInv, TypeOK, Prepare, At
  <2>2. /\ t \in Task /\ t.at = "loop" /\ t.next = task[o].next
        /\ t.settled = task[o].settled
    BY <2>1 DEF Task, Working
  <2>3. Become(o, t) /\ Quiet
    BY <1>3 DEF Prepare
  <2> HIDE DEF t
  <2>4. GoesOn(o, t)
    BY <2>1, <2>2 DEF OpInv, NextInv, GoesOn, NextOf, Early, Working, At
  <2> QED BY <2>2, <2>3, <2>4, QuietMove
<1>4. CASE PrepareFails(o)
  BY <1>4, QuietGoOn DEF PrepareFails, At, Early, Working
<1>5. CASE LoopEnds(o)
  BY <1>5, QuietLeave DEF LoopEnds, At, LeaveTo, TerminalStatus
<1>6. CASE LoopStops(o)
  BY <1>6, QuietGoOn DEF LoopStops, At, Early, Working
<1>7. CASE ReportEarly(o)
  <2>1. CASE GoOn(o, "synth")
    BY <1>7, <2>1, QuietGoOn DEF ReportEarly, At, Early, Working
  <2>2. CASE Leave(o, "saveFailed", "failed")
    BY <1>7, <2>2, QuietLeave DEF ReportEarly, At, LeaveTo, TerminalStatus
  <2> QED BY <1>7, <2>1, <2>2 DEF ReportEarly
<1>8. CASE Synthesize(o)
  BY <1>8, QuietLeave DEF Synthesize, At, LeaveTo, TerminalStatus
<1> QED BY <1>1, <1>2, <1>3, <1>4, <1>5, <1>6, <1>7, <1>8

LEMMA StopMonitorMoves ==
    ASSUME IInv, NEW o \in Op, StopMonitor(o), TaskOthers
    PROVE  TaskMoves(o) /\ OpStep(o)
<1>1. task[o] \in Task /\ OpInv(o) /\ task[o].at = "stop"
  BY DEF IInv, TypeOK, StopMonitor, At
<1>2. task[o].next \in {"saveResult", "saveCancelled", "saveFailed", "cleanup"}
  BY <1>1 DEF Task, OpInv, NextInv, At
<1> DEFINE a == IF task[o].next = "cleanup" THEN FirstRelease(o, task[o].settled) ELSE task[o].next
           t == [task[o] EXCEPT !.at = a, !.cancel = FALSE, !.monitor = "off", !.next = "over"]
<1>3. FirstRelease(o, task[o].settled) \in {"relSpend", "relLease"}
  BY DEF FirstRelease
<1>4. /\ a \in {"saveResult", "saveCancelled", "saveFailed", "relSpend", "relLease"}
      /\ a = "relLease" => task[o].settled \/ ~Metered(o)
  BY <1>2, <1>3 DEF FirstRelease
<1>5. Become(o, t) /\ Quiet
  <2>1. CASE task[o].next = "cleanup"
    BY <1>1, <2>1 DEF StopMonitor, Become, Task
  <2>2. CASE task[o].next # "cleanup"
    BY <1>1, <2>2 DEF StopMonitor, Become, Task
  <2>3. Quiet
    BY DEF StopMonitor
  <2> QED BY <2>1, <2>2, <2>3
<1> HIDE DEF a
<1>6. t \in Task /\ t.at = a /\ t.next = "over" /\ t.settled = task[o].settled
  BY <1>1, <1>4 DEF Task, Working, Cleaning
<1> HIDE DEF t
<1>7. GoesOn(o, t)
  BY <1>1, <1>4, <1>6 DEF GoesOn, NextOf, Early, Working
<1> QED BY <1>5, <1>6, <1>7, QuietMove

LEMMA ResultMoves ==
    ASSUME IInv, NEW o \in Op, TaskOthers,
           SaveResult(o) \/ ReportResult(o) \/ Reconcile(o)
    PROVE  TaskMoves(o) /\ OpStep(o)
<1>0. task[o] \in Task /\ OpInv(o)
  BY DEF IInv, TypeOK
<1>1. CASE SaveResult(o)
  <2>1. PICK s \in {task[o].outcome, "partial"} : SaveOperation(o, s)
    BY <1>1 DEF SaveResult, SaveResultCall
  <2>2. s \in {"completed", "partial", "failed"}
    BY <1>0 DEF Task, TerminalStatus
  <2>3. /\ GoOn(o, "reportResult") /\ UNCHANGED ledgerVars
        /\ task[o].at = "saveResult" /\ At(o, "saveResult")
    BY <1>1 DEF SaveResult, SaveResultCall, Runs, At
  <2>4. task[o].at \in Early /\ "reportResult" \notin Early
    BY <2>3 DEF Early, Working
  <2>5. s \in Status /\ task[o].at \in Working \ {"stop"}
    BY <2>2, <2>3 DEF Status, TerminalStatus, Working
  <2>6. "reportResult" \in Working \ {"stop", "start", "saveRunning"}
    BY DEF Working
  <2> QED BY <2>1, <2>2, <2>3, <2>4, <2>5, <2>6, SavingGoOn
<1>2. CASE ReportResult(o)
  <2>1. task[o].at = "reportResult" /\ Quiet
    BY <1>2 DEF ReportResult, Runs, At
  <2>2. CASE Metered(o)
    <3>1. GoOn(o, "reconcile")
      BY <1>2, <2>2 DEF ReportResult
    <3> QED BY <2>1, <3>1, QuietGoOn DEF Early, Working
  <2>3. CASE ~Metered(o)
    <3>1. Become(o, Resumed(o, "ingest"))
      BY <1>2, <2>3 DEF ReportResult, GoOn, Resumed
    <3>2. /\ Resumed(o, "ingest") \in Task
          /\ Resumed(o, "ingest").at = "ingest"
          /\ Resumed(o, "ingest").next = task[o].next
          /\ Resumed(o, "ingest").settled = task[o].settled
      BY ResumedTask DEF IInv, Cleaning
    <3>3. GoesOn(o, Resumed(o, "ingest"))
      BY <1>0, <2>1, <2>3, <3>2 DEF OpInv, NextInv, GoesOn, NextOf, Early, Working, At
    <3> QED BY <2>1, <3>1, <3>2, <3>3, QuietMove
  <2> QED BY <2>2, <2>3
<1>3. CASE Reconcile(o)
  <2> DEFINE t == [task[o] EXCEPT !.at = "ingest", !.settled = TRUE]
  <2>1. t \in Task /\ t.at = "ingest" /\ t.next = task[o].next
    BY <1>0 DEF Task, Cleaning
  <2>2. Become(o, t) /\ At(o, "reconcile") /\ ReconcileCall(o)
    BY <1>3 DEF Reconcile, Settle, Runs
  <2> HIDE DEF t
  <2> QED BY <2>1, <2>2, ReconcileMove
<1> QED BY <1>1, <1>2, <1>3

LEMMA TaskStepMoves ==
    ASSUME IInv, NEW o \in Op, TaskStep(o)
    PROVE  TaskMoves(o) /\ OpStep(o)
<1>0. TaskOthers
  BY DEF TaskStep, TaskOthers
<1>1. CASE \/ Start(o) \/ SaveRunning(o) \/ Prepare(o) \/ PrepareFails(o)
           \/ LoopEnds(o) \/ LoopStops(o) \/ ReportEarly(o) \/ Synthesize(o)
  BY <1>0, <1>1, WithinBlock
<1>2. CASE StopMonitor(o)
  BY <1>0, <1>2, StopMonitorMoves
<1>3. CASE SaveResult(o) \/ ReportResult(o) \/ Reconcile(o)
  BY <1>0, <1>3, ResultMoves
<1>4. CASE SaveHandler(o)
  BY <1>0, <1>4, HandlerMove DEF SaveHandler
<1>5. CASE AwaitIngest(o)
  BY <1>0, <1>5, CleaningMove DEF AwaitIngest, CleansTo
<1>6. CASE Releases(o)
  <2>1. CASE ReleaseStep(o, "relSpend", "relLease")
    BY <1>0, <2>1, CleaningMove DEF ReleaseStep, CleansTo
  <2>2. CASE ReleaseStep(o, "relLease", "relSlot")
    BY <1>0, <2>2, CleaningMove DEF ReleaseStep, CleansTo
  <2>3. CASE ReleaseStep(o, "relSlot", task[o].next)
    BY <1>0, <2>3, CleaningMove DEF ReleaseStep, CleansTo
  <2> QED BY <1>6, <2>1, <2>2, <2>3 DEF Releases
<1> QED BY <1>1, <1>2, <1>3, <1>4, <1>5, <1>6 DEF TaskStep

LEMMA InterruptMoves ==
    ASSUME IInv, NEW o \in Op, Interrupt(o)
    PROVE  TaskMoves(o) /\ OpStep(o)
<1>0. TaskOthers /\ task[o] \in Task /\ OpInv(o)
  BY DEF Interrupt, TaskOthers, IInv, TypeOK
<1>1. CASE At(o, "start") /\ GoOn(o, "neverRan") /\ Quiet
  <2>1. /\ Resumed(o, "neverRan") \in Task /\ Resumed(o, "neverRan").at = "neverRan"
        /\ Resumed(o, "neverRan").settled = task[o].settled
    BY ResumedTask DEF IInv, Ended
  <2>2. GoesOn(o, Resumed(o, "neverRan"))
    BY <1>1, <2>1 DEF GoesOn, NextOf, Early, Working, Cleaning, At
  <2> QED BY <1>0, <1>1, <2>1, <2>2, QuietMove DEF GoOn, Resumed
<1>2. CASE /\ task[o].at \in {"saveRunning", "setup", "saveResult", "reportResult", "reconcile"}
           /\ EffectOrNot(o)
           /\ GoOn(o, "saveCancelled")
  <2>0. /\ task[o].at \in Working \ {"stop"}
        /\ "saveCancelled" \in Working \ {"stop", "start", "saveRunning"}
        /\ "saveCancelled" \notin Early
    BY <1>2 DEF Working, Early
  <2>1. CASE Quiet
    BY <1>0, <1>2, <2>0, <2>1, QuietGoOn
  <2>2. CASE At(o, "saveRunning") /\ SaveOperation(o, "running") /\ UNCHANGED ledgerVars
    <3>1. "running" \in Status
      BY DEF Status, ActiveStatus
    <3> QED BY <1>0, <1>2, <2>0, <2>2, <3>1, SavingGoOn
  <2>3. CASE At(o, "saveResult") /\ SaveResultCall(o)
    <3>1. PICK s \in {task[o].outcome, "partial"} : SaveOperation(o, s)
      BY <2>3 DEF SaveResultCall
    <3>2. s \in {"completed", "partial", "failed"}
      BY <1>0 DEF Task, TerminalStatus
    <3>3. s \in Status /\ UNCHANGED ledgerVars /\ task[o].at \in Early
      BY <2>3, <3>2 DEF SaveResultCall, Status, TerminalStatus, Early, Working, At
    <3> QED BY <1>0, <1>2, <2>0, <2>3, <3>1, <3>2, <3>3, SavingGoOn
  <2>4. CASE At(o, "reconcile") /\ ReconcileCall(o)
    <3>1. /\ Resumed(o, "saveCancelled") \in Task
          /\ Resumed(o, "saveCancelled").at = "saveCancelled"
          /\ Resumed(o, "saveCancelled").next = task[o].next
      BY ResumedTask DEF IInv, Working
    <3> QED BY <1>0, <1>2, <2>4, <3>1, ReconcileMove DEF GoOn, Resumed
  <2>5. ~Handling(o) /\ ~At(o, "relSpend") /\ ~At(o, "relLease") /\ ~At(o, "relSlot")
    BY <1>2 DEF Handling, At
  <2> QED BY <1>2, <2>1, <2>2, <2>3, <2>4, <2>5 DEF EffectOrNot, CallTookEffect
<1>3. CASE /\ At(o, "loop") /\ Quiet
           /\ CASE task[o].cause = "lease" -> Leave(o, "cleanup", "failed")
                [] task[o].cause = "memory" -> GoOn(o, "early")
                [] OTHER -> Leave(o, "saveCancelled", "failed")
  <2>1. \/ Leave(o, "cleanup", "failed") \/ GoOn(o, "early")
        \/ Leave(o, "saveCancelled", "failed")
    BY <1>3
  <2>2. CASE GoOn(o, "early")
    BY <1>0, <1>3, <2>2, QuietGoOn DEF At, Early, Working
  <2>3. CASE Leave(o, "cleanup", "failed")
    BY <1>0, <1>3, <2>3, QuietLeave DEF At, LeaveTo, TerminalStatus
  <2>4. CASE Leave(o, "saveCancelled", "failed")
    BY <1>0, <1>3, <2>4, QuietLeave DEF At, LeaveTo, TerminalStatus
  <2> QED BY <2>1, <2>2, <2>3, <2>4
<1>4. CASE At(o, "early") /\ Leave(o, "saveCancelled", "failed") /\ Quiet
  BY <1>0, <1>4, QuietLeave DEF At, LeaveTo, TerminalStatus
<1>5. CASE At(o, "synth") /\ Leave(o, "saveResult", "failed") /\ Quiet
  BY <1>0, <1>5, QuietLeave DEF At, LeaveTo, TerminalStatus
<1>6. CASE Handling(o) /\ EffectOrNot(o) /\ CleanUp(o, "over")
  <2>1. SaveHandlerCall(o) \/ Quiet
    BY <1>6 DEF EffectOrNot, CallTookEffect, Handling, At
  <2> QED BY <1>0, <1>6, <2>1, HandlerMove
<1> QED BY <1>1, <1>2, <1>3, <1>4, <1>5, <1>6 DEF Interrupt

LEMMA TaskFaultMoves ==
    ASSUME IInv, NEW o \in Op, TaskFault(o)
    PROVE  TaskMoves(o) /\ OpStep(o)
<1>0. TaskOthers /\ task[o] \in Task /\ OpInv(o) /\ EffectOrNot(o)
  BY DEF TaskFault, TaskOthers, IInv, TypeOK
<1>f. faults' # 0
  <2>1. faults \in Nat
    BY TaskAssumption DEF IInv, TypeOK, TaskAssumption
  <2> QED BY <2>1 DEF TaskFault, OthersFaulty, Faulty
<1>1. CASE task[o].at \in {"saveRunning", "saveResult"} /\ GoOn(o, "saveFailed")
  <2>0. /\ task[o].at \in Working \ {"stop"} /\ task[o].at \in Early
        /\ "saveFailed" \in Working \ {"stop", "start", "saveRunning"}
    BY <1>1 DEF Working, Early
  <2>1. CASE Quiet
    BY <1>0, <1>1, <2>0, <2>1, QuietGoOn
  <2>2. CASE At(o, "saveRunning") /\ SaveOperation(o, "running") /\ UNCHANGED ledgerVars
    <3>1. "running" \in Status
      BY DEF Status, ActiveStatus
    <3> QED BY <1>0, <1>1, <2>0, <2>2, <3>1, SavingGoOn
  <2>3. CASE At(o, "saveResult") /\ SaveResultCall(o)
    <3>1. PICK s \in {task[o].outcome, "partial"} : SaveOperation(o, s)
      BY <2>3 DEF SaveResultCall
    <3>2. s \in {"completed", "partial", "failed"}
      BY <1>0 DEF Task, TerminalStatus
    <3>3. s \in Status /\ UNCHANGED ledgerVars
      BY <2>3, <3>2 DEF SaveResultCall, Status, TerminalStatus
    <3> QED BY <1>0, <1>1, <1>f, <2>0, <2>3, <3>1, <3>2, <3>3, SavingGoOn
  <2>4. /\ ~Handling(o) /\ ~At(o, "relSpend") /\ ~At(o, "relLease") /\ ~At(o, "relSlot")
        /\ ~At(o, "reconcile")
    BY <1>1 DEF Handling, At
  <2> QED BY <1>0, <2>1, <2>2, <2>3, <2>4 DEF EffectOrNot, CallTookEffect
<1>2. CASE At(o, "reconcile") /\ Settle(o)
  <2> DEFINE t == [task[o] EXCEPT !.at = "ingest", !.settled = TRUE]
  <2>1. t \in Task /\ t.at = "ingest" /\ t.next = task[o].next
    BY <1>0 DEF Task, Cleaning
  <2>2. Become(o, t)
    BY <1>2 DEF Settle
  <2>3. ReconcileCall(o) \/ Quiet
    BY <1>0, <1>2 DEF EffectOrNot, CallTookEffect, Handling, At
  <2> HIDE DEF t
  <2> QED BY <1>0, <1>2, <1>f, <2>1, <2>2, <2>3, ReconcileMove
<1>3. CASE Handling(o) /\ CleanUp(o, "raised")
  <2>1. SaveHandlerCall(o) \/ Quiet
    BY <1>0, <1>3 DEF EffectOrNot, CallTookEffect, Handling, At
  <2> QED BY <1>0, <1>3, <2>1, HandlerMove
<1>4. CASE At(o, "relSpend") /\ GoOn(o, "relLease")
  <2>1. (ReleaseSpend(o) /\ UNCHANGED storeVars) \/ Quiet
    BY <1>0, <1>4 DEF EffectOrNot, CallTookEffect, Handling, At
  <2> QED BY <1>0, <1>4, <1>f, <2>1, CleaningMove DEF CleansTo
<1>5. CASE At(o, "relLease") /\ GoOn(o, "relSlot")
  <2>1. (ReleaseOperationLease(HostOf[o], o) /\ UNCHANGED ledgerVars) \/ Quiet
    BY <1>0, <1>5 DEF EffectOrNot, CallTookEffect, Handling, At
  <2> QED BY <1>0, <1>5, <1>f, <2>1, CleaningMove DEF CleansTo
<1>6. CASE At(o, "relSlot") /\ GoOn(o, task[o].next)
  <2>1. (ReleaseSlot(HostOf[o], o) /\ UNCHANGED ledgerVars) \/ Quiet
    BY <1>0, <1>6 DEF EffectOrNot, CallTookEffect, Handling, At
  <2> QED BY <1>0, <1>6, <1>f, <2>1, CleaningMove DEF CleansTo
<1> QED BY <1>1, <1>2, <1>3, <1>4, <1>5, <1>6 DEF TaskFault

LEMMA MonitorMoves ==
    ASSUME IInv, NEW o \in Op,
           Heartbeat(o) \/ MemoryExceeded(o) \/ HeartbeatFault(o) \/ MonitorFault(o)
    PROVE  TaskMoves(o) /\ OpStep(o)
<1>0. /\ TaskOthers /\ Monitored(o) /\ UNCHANGED ledgerVars
      /\ TouchOperation(HostOf[o], o) \/ UNCHANGED storeVars
  BY DEF Heartbeat, MemoryExceeded, HeartbeatFault, MonitorFault, TaskOthers, Quiet
<1>1. task[o] \in Task
  BY DEF IInv, TypeOK
<1>2. ASSUME NEW cause \in {"lease", "memory"}, MonitorCancels(o, cause)
      PROVE  TaskMoves(o) /\ OpStep(o)
  <2> DEFINE t == [task[o] EXCEPT !.cancel = TRUE, !.cause = cause, !.monitor = "off"]
  <2>1. t \in Task /\ t.at = task[o].at /\ t.next = task[o].next /\ t.settled = task[o].settled
    BY <1>1 DEF Task
  <2>2. Become(o, t)
    BY <1>2 DEF MonitorCancels
  <2> HIDE DEF t
  <2> QED BY <1>0, <2>1, <2>2, MonitorMove
<1>3. CASE UNCHANGED task
  <2>1. Become(o, task[o])
    BY <1>3 DEF IInv, TypeOK, Become
  <2> QED BY <1>0, <1>1, <2>1, MonitorMove
<1>4. CASE MonitorFault(o)
  <2> DEFINE t == [task[o] EXCEPT !.monitor = "broken"]
  <2>1. t \in Task /\ t.at = task[o].at /\ t.next = task[o].next /\ t.settled = task[o].settled
    BY <1>1 DEF Task
  <2>2. Become(o, t)
    BY <1>4 DEF MonitorFault
  <2> HIDE DEF t
  <2> QED BY <1>0, <2>1, <2>2, MonitorMove
<1> QED BY <1>2, <1>3, <1>4 DEF Heartbeat, MemoryExceeded, HeartbeatFault

LEMMA WorkerKeeps ==
    ASSUME IInv, NEW o \in Op,
           \/ TaskStep(o) \/ Interrupt(o) \/ Heartbeat(o) \/ MemoryExceeded(o)
           \/ TaskFault(o) \/ HeartbeatFault(o) \/ MonitorFault(o)
    PROVE  StepKeeps
BY TaskStepMoves, InterruptMoves, TaskFaultMoves, MonitorMoves, TaskMovesKeep

-----------------------------------------------------------------------------
(***************************************************************************)
(* Cancel requests only ask: no position and no record changes.            *)
(***************************************************************************)
Asked(ops) == UNCHANGED task \/ CancelAll(ops)

LEMMA AskedTask ==
    ASSUME TypeOK, NEW ops, Asked(ops)
    PROVE  /\ task' \in [Op -> Task]
           /\ \A p \in Op : /\ task'[p].at = task[p].at
                            /\ task'[p].next = task[p].next
                            /\ task'[p].settled = task[p].settled
<1>1. CASE UNCHANGED task
  BY <1>1 DEF TypeOK
<1>2. CASE CancelAll(ops)
  <2>1. \A p \in Op : task[p] \in Task
    BY DEF TypeOK
  <2>2. \A p \in Op : task'[p] = IF p \in ops /\ Cancellable(p)
                                   THEN [task[p] EXCEPT !.cancel = TRUE] ELSE task[p]
    BY <1>2 DEF CancelAll
  <2>3. ASSUME NEW p \in Op
        PROVE  /\ task'[p] \in Task
               /\ task'[p].at = task[p].at
               /\ task'[p].next = task[p].next
               /\ task'[p].settled = task[p].settled
    <3>1. CASE task'[p] = [task[p] EXCEPT !.cancel = TRUE]
      BY <2>1, <3>1 DEF Task
    <3>2. CASE task'[p] = task[p]
      BY <2>1, <3>2
    <3> QED BY <2>2, <3>1, <3>2
  <2>4. task' = [p \in Op |-> task'[p]]
    BY <1>2 DEF CancelAll
  <2> QED BY <2>3, <2>4
<1> QED BY <1>1, <1>2 DEF Asked

LEMMA LookupIs ==
    ASSUME TypeOK, NEW c \in Canceller, NEW seen, Lookup(c, seen)
    PROVE  /\ faults' \in 0..MaxFaults /\ lapses' \in 0..MaxLapses
           /\ faults' = 0 => faults = 0
           /\ seen = "cancelled" => StatusOf(TargetOf[c]) = "cancelled"
<1>1. faults \in Nat /\ lapses \in Nat /\ MaxFaults \in Nat
  BY TaskAssumption DEF TypeOK, TaskAssumption
<1> QED BY <1>1 DEF Lookup, boundVars, Faulty, TypeOK

\* A reply "cancelled" is given only to what is so.
Answered ==
    /\ req' \in [Canceller -> Request]
    /\ \A c \in Canceller : req'[c].at = "done" /\ req'[c].reply = "cancelled" =>
          \/ req[c].at = "done" /\ req[c].reply = "cancelled"
          \/ StatusOf(TargetOf[c]) = "cancelled"

\* What the steps of requests and listeners have in common.
Requests ==
    /\ CancelQuiet
    /\ \E ops \in SUBSET Op : Asked(ops)
    /\ faults' \in 0..MaxFaults /\ lapses' \in 0..MaxLapses
    /\ faults' = 0 => faults = 0
    /\ Answered
    /\ inbox' \in [Instance -> SUBSET Op]
    /\ listening' \subseteq Instance

LEMMA RequestsKeep ==
    ASSUME IInv, Requests
    PROVE  StepKeeps
<1>1. PICK ops \in SUBSET Op : Asked(ops)
  BY DEF Requests
<1>2. TypeOK
  BY DEF IInv
<1>3. /\ task' \in [Op -> Task]
      /\ \A p \in Op : /\ task'[p].at = task[p].at
                       /\ task'[p].next = task[p].next
                       /\ task'[p].settled = task[p].settled
  BY <1>1, <1>2, AskedTask
<1>4. /\ UNCHANGED <<operations, activeOps, owners, slots, lapsedSlots>>
      /\ UNCHANGED <<total, window, holds, windowSeq>>
      /\ UNCHANGED <<todo, removing, reaped, stopping, dead, unleased>>
  BY DEF Requests, CancelQuiet, Quiet, storeVars, ledgerVars, scanVars, hostVars
<1>5. StoreTypeOK' /\ LedgerTypeOK'
  BY <1>2, <1>4 DEF TypeOK, StoreTypeOK, LedgerTypeOK
<1>6. TypeOK'
  BY <1>2, <1>3, <1>4, <1>5 DEF TypeOK, Requests, Answered
<1>7. \A p \in Op : Untouched(p)
  BY <1>3, <1>4 DEF Requests, Untouched
<1>8. ScanInv'
  BY <1>4 DEF IInv, ScanInv
<1> QED BY <1>6, <1>7, <1>8, AsideKeeps DEF Requests, Answered

LEMMA CancelStepRequests ==
    ASSUME IInv, NEW c \in Canceller, CancelStep(c)
    PROVE  Requests
<1>0. /\ TypeOK /\ TargetOf[c] \in Op
      /\ faults \in 0..MaxFaults /\ lapses \in 0..MaxLapses
      /\ req \in [Canceller -> Request]
      /\ inbox \in [Instance -> SUBSET Op] /\ listening \subseteq Instance
  BY NamesDiffer DEF IInv, TypeOK
<1>1. StatusOf(TargetOf[c]) \in Reply /\ req[c].seen \in Reply
  BY <1>0 DEF TypeOK, StoreTypeOK, StatusOf, Record, Reply, Request
<1>3. ASSUME NEW at \in {"local", "await", "confirm", "remote", "fallback", "done", "published"},
             NEW seen \in Reply, NEW reply \in Reply, Answer(c, at, seen, reply),
             at = "done" /\ reply = "cancelled" => StatusOf(TargetOf[c]) = "cancelled"
      PROVE  Answered
  BY <1>0, <1>3 DEF Answered, Answer, Request
<1>n. "none" \in Reply /\ "cancelled" \in Reply /\ "error" \in Reply
  BY DEF Reply, Status, TerminalStatus
<1>4. CASE CancelLookup(c)
  <2>1. PICK seen \in Reply : Lookup(c, seen) /\ Answer(c, IF Local(c) THEN "local" ELSE "remote", seen, "none")
    BY <1>4 DEF CancelLookup
  <2>2. PICK at \in {"local", "remote"} : Answer(c, at, seen, "none")
    BY <2>1
  <2>3. CancelQuiet /\ UNCHANGED <<task, inbox, listening>>
    BY <1>4 DEF CancelLookup
  <2> QED BY <1>0, <1>3, <1>n, <2>1, <2>2, <2>3, LookupIs DEF Requests, Asked
<1>5. CASE CancelLocal(c)
  <2>1. CancelQuiet /\ UNCHANGED <<inbox, listening, boundVars>>
    BY <1>5 DEF CancelLocal
  <2>2. Answer(c, "fallback", req[c].seen, "none") \/ Answer(c, "await", req[c].seen, "none")
    BY <1>5 DEF CancelLocal
  <2>3. \E ops \in SUBSET Op : Asked(ops)
    <3>1. {TargetOf[c]} \in SUBSET Op
      BY <1>0
    <3>2. Asked({TargetOf[c]})
      BY <1>5 DEF CancelLocal, Asked
    <3> QED BY <3>1, <3>2
  <2>4. Answered
    BY <1>1, <1>3, <1>n, <2>2
  <2> QED BY <1>0, <2>1, <2>3, <2>4 DEF Requests, boundVars
<1>6. CASE CancelAwaited(c)
  <2>1. CancelQuiet /\ UNCHANGED <<task, inbox, listening, boundVars>>
    BY <1>6 DEF CancelAwaited
  <2>2. Answer(c, "done", "none", "error") \/ Answer(c, "confirm", "none", "none")
    BY <1>6 DEF CancelAwaited
  <2>4. Answered
    BY <1>3, <1>n, <2>2
  <2> QED BY <1>0, <2>1, <2>4 DEF Requests, Asked, boundVars
<1>7. CASE CancelConfirm(c)
  <2>1. PICK seen \in Reply :
          /\ Lookup(c, seen)
          /\ IF seen = "cancelled"
               THEN Answer(c, "done", seen, "cancelled")
               ELSE Answer(c, "fallback", seen, "none")
    BY <1>7 DEF CancelConfirm
  <2>2. CancelQuiet /\ UNCHANGED <<task, inbox, listening>>
    BY <1>7 DEF CancelConfirm
  <2>3. /\ faults' \in 0..MaxFaults /\ lapses' \in 0..MaxLapses
        /\ faults' = 0 => faults = 0
        /\ seen = "cancelled" => StatusOf(TargetOf[c]) = "cancelled"
    BY <1>0, <2>1, LookupIs
  <2>4. Answered
    BY <1>3, <1>n, <2>1, <2>3
  <2> QED BY <1>0, <2>2, <2>3, <2>4 DEF Requests, Asked
<1>8. CASE CancelFallback(c)
  <2>1. PICK seen \in Reply : Lookup(c, seen) /\ Answer(c, "done", seen, seen)
    BY <1>8 DEF CancelFallback
  <2>2. CancelQuiet /\ UNCHANGED <<task, inbox, listening>>
    BY <1>8 DEF CancelFallback
  <2>3. /\ faults' \in 0..MaxFaults /\ lapses' \in 0..MaxLapses
        /\ faults' = 0 => faults = 0
        /\ seen = "cancelled" => StatusOf(TargetOf[c]) = "cancelled"
    BY <1>0, <2>1, LookupIs
  <2>4. Answered
    BY <1>3, <2>1, <2>3
  <2> QED BY <1>0, <2>2, <2>3, <2>4 DEF Requests, Asked
<1>9. CASE CancelBroadcast(c)
  <2>1. CancelQuiet /\ UNCHANGED <<task, listening, boundVars>>
    BY <1>9 DEF CancelBroadcast
  <2>2. Answer(c, "fallback", req[c].seen, "none") \/ Answer(c, "published", req[c].seen, "cancelled")
    BY <1>9 DEF CancelBroadcast
  <2>3. inbox' \in [Instance -> SUBSET Op]
    BY <1>0, <1>9 DEF CancelBroadcast
  <2>4. Answered
    BY <1>1, <1>3, <1>n, <2>2
  <2> QED BY <1>0, <2>1, <2>3, <2>4 DEF Requests, Asked, boundVars
<1> QED BY <1>4, <1>5, <1>6, <1>7, <1>8, <1>9 DEF CancelStep

LEMMA ListenRequests ==
    ASSUME IInv, NEW i \in Instance,
           (\E o \in Op : Listen(i, o)) \/ ListenerDies(i)
    PROVE  Requests
<1>0. /\ faults \in 0..MaxFaults /\ lapses \in 0..MaxLapses
      /\ MaxFaults \in Nat /\ req \in [Canceller -> Request]
      /\ inbox \in [Instance -> SUBSET Op] /\ listening \subseteq Instance
  BY TaskAssumption DEF IInv, TypeOK, TaskAssumption
<1>1. ASSUME NEW o \in Op, Listen(i, o) PROVE Requests
  <2>1. \E ops \in SUBSET Op : Asked(ops)
    <3> DEFINE ops == IF HostOf[o] = i THEN {o} ELSE {}
    <3>1. ops \in SUBSET Op
      OBVIOUS
    <3>2. Asked(ops)
      BY <1>1 DEF Listen, Asked
    <3> QED BY <3>1, <3>2
  <2>2. /\ CancelQuiet /\ UNCHANGED <<req, listening, boundVars>>
        /\ inbox' \in [Instance -> SUBSET Op]
    BY <1>0, <1>1 DEF Listen
  <2> QED BY <1>0, <2>1, <2>2 DEF Requests, Answered, boundVars
<1>2. CASE ListenerDies(i)
  <2>1. /\ CancelQuiet /\ UNCHANGED <<task, req, lapses>>
        /\ faults' \in 0..MaxFaults /\ faults' # 0
    BY <1>0, <1>2 DEF ListenerDies, Faulty
  <2>2. inbox' \in [Instance -> SUBSET Op] /\ listening' \subseteq Instance
    BY <1>0, <1>2 DEF ListenerDies
  <2> QED BY <1>0, <2>1, <2>2 DEF Requests, Answered, Asked
<1> QED BY <1>1, <1>2

-----------------------------------------------------------------------------
(***************************************************************************)
(* The scan.                                                               *)
(***************************************************************************)
LEMMA ScansAsideKeep ==
    ASSUME IInv, NEW i \in Instance, Scan(i) \/ Backfill(i) \/ ScanFault(i)
    PROVE  StepKeeps
<1>0. /\ TypeOK /\ faults \in 0..MaxFaults /\ MaxFaults \in Nat /\ lapses' = lapses
  BY TaskAssumption
     DEF IInv, TypeOK, TaskAssumption, Scan, Backfill, ScanFault, ScanQuiet, Faulty, boundVars
<1>1. /\ UNCHANGED <<operations, owners, slots, lapsedSlots>>
      /\ UNCHANGED <<total, window, holds, windowSeq>>
      /\ UNCHANGED <<task, req, inbox, listening, reaped, stopping, dead, unleased>>
      /\ activeOps \subseteq activeOps' /\ activeOps' \subseteq Op
  BY <1>0
     DEF Scan, Backfill, ScanFault, ScanQuiet, Quiet, storeVars, ledgerVars, cancelVars, hostVars,
         TypeOK, StoreTypeOK
<1>2. /\ todo' \in [Instance -> SUBSET Op]
      /\ removing' = removing \/ removing' = [removing EXCEPT ![i] = {}]
  <2>1. todo \in [Instance -> SUBSET Op]
    BY <1>0 DEF TypeOK
  <2>2. PICK next \in SUBSET Op : todo' = [todo EXCEPT ![i] = next]
    <3>1. {o \in activeOps : Active(o)} \in SUBSET Op
      BY <1>0 DEF TypeOK, StoreTypeOK
    <3>2. {o \in Op : Active(o)} \in SUBSET Op /\ {} \in SUBSET Op
      OBVIOUS
    <3> QED BY <3>1, <3>2 DEF Scan, Backfill, ScanFault
  <2>3. removing' = removing \/ removing' = [removing EXCEPT ![i] = {}]
    BY DEF Scan, Backfill, ScanFault
  <2> QED BY <2>1, <2>2, <2>3
<1>3. faults' \in 0..MaxFaults /\ (faults' = 0 => faults = 0)
  BY <1>0 DEF Scan, Backfill, ScanFault, ScanQuiet, Faulty, boundVars
<1>4. StoreTypeOK' /\ LedgerTypeOK'
  BY <1>0, <1>1 DEF TypeOK, StoreTypeOK, LedgerTypeOK
<1>5. TypeOK'
  <2>1. removing' \in [Instance -> SUBSET Op]
    BY <1>0, <1>2 DEF TypeOK
  <2> QED BY <1>0, <1>1, <1>2, <1>3, <1>4, <2>1 DEF TypeOK
<1>6. \A p \in Op : Untouched(p)
  BY <1>1, <1>3 DEF Untouched
<1>7. ScanInv'
  BY <1>0, <1>1, <1>2 DEF IInv, ScanInv, TypeOK
<1> QED BY <1>1, <1>5, <1>6, <1>7, AsideKeeps

\* What a step that fails or removes one operation leaves alone.
ReapQuiet ==
    /\ UNCHANGED <<owners, slots, lapsedSlots>>
    /\ UNCHANGED <<total, window, holds, windowSeq>>
    /\ UNCHANGED <<task, req, inbox, listening, stopping, dead, unleased, faults, lapses>>

LEMMA ReapKeeps ==
    ASSUME IInv, NEW i \in Instance, NEW o \in Op, Reap(i, o)
    PROVE  StepKeeps
<1>0. TypeOK /\ OpInv(o) /\ HostOf[o] # NoInstance
  BY NamesDiffer DEF IInv
<1>1. ReapQuiet /\ activeOps' = activeOps
  BY DEF Reap, FailIfUnowned, ScanQuiet, ReapQuiet, ledgerVars, cancelVars, hostVars, boundVars
<1>2. /\ todo' \in [Instance -> SUBSET Op]
      /\ operations' \in [Op -> Record]
  BY <1>0 DEF Reap, FailIfUnowned, TypeOK, StoreTypeOK, Record, Status, TerminalStatus
<1>3. /\ removing' \in [Instance -> SUBSET Op] /\ reaped' \subseteq Op
      /\ \A j \in Instance : removing'[j] \subseteq reaped'
  BY <1>0 DEF Reap, TypeOK, IInv, ScanInv
<1>4. StoreTypeOK' /\ LedgerTypeOK'
  BY <1>0, <1>1, <1>2 DEF TypeOK, StoreTypeOK, LedgerTypeOK, ReapQuiet
<1>5. TypeOK'
  BY <1>0, <1>1, <1>2, <1>3, <1>4 DEF TypeOK, ReapQuiet
<1>6. ScanInv'
  BY <1>3 DEF ScanInv
<1>7. CASE ~CanFailUnowned(o)
  <2>1. operations' = operations /\ reaped' = reaped
    BY <1>7 DEF Reap, FailIfUnowned
  <2>2. \A p \in Op : Untouched(p)
    BY <1>1, <2>1 DEF Untouched, ReapQuiet
  <2> QED BY <1>1, <1>5, <1>6, <2>2, AsideKeeps DEF ReapQuiet
<1>8. CASE CanFailUnowned(o)
  <2>1. operations' = [operations EXCEPT ![o].status = "failed"] /\ reaped' = reaped \cup {o}
    BY <1>8 DEF Reap, FailIfUnowned
  <2>2. operations'[o].status = "failed" /\ \A p \in Op \ {o} : operations'[p] = operations[p]
    BY <1>0, <2>1 DEF TypeOK, StoreTypeOK, Record
  <2>3. Active(o) /\ owners[o] = NoInstance
    BY <1>8 DEF CanFailUnowned
  <2>4. o \notin unleased => At(o, "relSlot") \/ ~Live(o)
    BY <1>0, <2>3 DEF OpInv, LeaseInv
  <2>5. OpInv(o)'
    <3> USE <1>1 DEF ReapQuiet
    <3>1. NextInv(o)' /\ CancelledInv(o)'
      BY <1>0, <2>2 DEF OpInv, NextInv, CancelledInv, At, StatusOf
    <3>2. LeaseInv(o)'
      BY <1>0 DEF OpInv, LeaseInv, At, Live
    <3>3. ReapedInv(o)' /\ IndexInv(o)'
      BY <2>2, <2>4 DEF ReapedInv, IndexInv, Active, ActiveStatus, StatusOf, At, Live
    <3>4. ResultInv(o)'
      BY <2>2 DEF ResultInv, StatusOf
    <3>5. QueuedInv(o)'
      BY <2>4 DEF QueuedInv, At, Live, Ended
    <3>6. HoldInv(o)' /\ CleanInv(o)'
      BY <1>0 DEF OpInv, HoldInv, CleanInv, Metered
    <3> QED BY <3>1, <3>2, <3>3, <3>4, <3>5, <3>6 DEF OpInv
  <2>6. StoredStep(o)
    BY <2>3 DEF StoredStep, Active, ActiveStatus
  <2>7. ASSUME NEW p \in Op \ {o} PROVE OpStep(p)
    <3>1. Untouched(p)
      BY <1>1, <2>1, <2>2 DEF Untouched, ReapQuiet
    <3> QED BY <3>1, UntouchedKeeps DEF IInv
  <2>8. StatusStep(o)
    BY <1>1, <2>2, <2>3 DEF StatusStep, StatusAbandoned, ReapQuiet
  <2>9. LifecycleStep
    BY <1>1, <2>2, <2>8 DEF LifecycleStep, StatusOf, ReapQuiet
  <2>10. CancelledReplyHolds'
    <3>1. \A p \in Op : StatusOf(p) = "cancelled" => operations'[p].status = "cancelled"
      BY <2>2, <2>3 DEF StatusOf, Active, ActiveStatus
    <3> QED BY <1>1, <3>1, NamesDiffer DEF IInv, CancelledReplyHolds, StatusOf, ReapQuiet
  <2> QED BY <1>5, <1>6, <2>5, <2>6, <2>7, <2>9, <2>10 DEF StepKeeps, IInv, OpStep
<1> QED BY <1>7, <1>8

LEMMA UnindexKeeps ==
    ASSUME IInv, NEW i \in Instance, NEW o \in Op, Unindex(i, o)
    PROVE  StepKeeps
<1>0. TypeOK /\ OpInv(o)
  BY DEF IInv
<1>1. /\ ReapQuiet /\ UNCHANGED <<operations, todo, reaped>>
      /\ activeOps' = activeOps \ {o}
  BY DEF Unindex, RemoveActive, ScanQuiet, ReapQuiet, ledgerVars, cancelVars, hostVars, boundVars
<1>2. /\ removing' \in [Instance -> SUBSET Op]
      /\ \A j \in Instance : removing'[j] \subseteq reaped
  BY <1>0 DEF Unindex, TypeOK, IInv, ScanInv
<1>3. StoreTypeOK' /\ LedgerTypeOK'
  BY <1>0, <1>1 DEF TypeOK, StoreTypeOK, LedgerTypeOK, ReapQuiet
<1>4. TypeOK'
  BY <1>0, <1>1, <1>2, <1>3 DEF TypeOK, ReapQuiet
<1>5. ScanInv'
  BY <1>1, <1>2 DEF ScanInv
<1>6. o \in reaped
  BY <1>0 DEF Unindex, IInv, ScanInv
<1>7. OpInv(o)'
  <2> USE <1>1 DEF ReapQuiet
  <2>1. NextInv(o)' /\ CancelledInv(o)' /\ LeaseInv(o)' /\ ReapedInv(o)' /\ QueuedInv(o)'
    BY <1>0 DEF OpInv, NextInv, CancelledInv, LeaseInv, ReapedInv, QueuedInv, At, Live, StatusOf, Active
  <2>2. IndexInv(o)'
    BY <1>0, <1>6 DEF OpInv, ReapedInv, IndexInv, StatusOf, Active
  <2>3. ResultInv(o)' /\ HoldInv(o)' /\ CleanInv(o)'
    BY <1>0 DEF OpInv, ResultInv, HoldInv, CleanInv, Metered, StatusOf
  <2> QED BY <2>1, <2>2, <2>3 DEF OpInv
<1>8. ASSUME NEW p \in Op \ {o} PROVE OpInv(p)'
  <2>1. Untouched(p)
    BY <1>1 DEF Untouched, ReapQuiet
  <2> QED BY <2>1, UntouchedKeeps DEF IInv, OpStep
<1>9. \A p \in Op : StoredStep(p) /\ StatusStays(p)
  BY <1>1 DEF StoredStep, StatusStays, StatusOf, ReapQuiet
<1>10. CancelledReplyHolds'
  BY <1>1 DEF IInv, CancelledReplyHolds, StatusOf, ReapQuiet
<1> QED BY <1>4, <1>5, <1>7, <1>8, <1>9, <1>10 DEF StepKeeps, IInv, LifecycleStep

LEMMA ScanKeeps ==
    ASSUME IInv, NEW i \in Instance, ScanStep(i) \/ ScanFault(i)
    PROVE  StepKeeps
BY ScansAsideKeep, ReapKeeps, UnindexKeeps DEF ScanStep

-----------------------------------------------------------------------------
(***************************************************************************)
(* Shutdown, crashes and time.                                             *)
(***************************************************************************)
LEMMA QuiesceKeeps ==
    ASSUME IInv, NEW i \in Instance, Quiesce(i)
    PROVE  StepKeeps
<1>0. TypeOK /\ stopping[i] \in 0..2 /\ stopping[i] < 2
  BY DEF IInv, TypeOK, Quiesce
<1>1. /\ UNCHANGED <<operations, activeOps, owners, slots, lapsedSlots>>
      /\ UNCHANGED <<total, window, holds, windowSeq>>
      /\ UNCHANGED <<req, inbox, listening, reaped, dead, unleased, faults, lapses>>
  BY DEF Quiesce, Quiet, storeVars, ledgerVars, cancelVars, boundVars
<1>2. /\ task' \in [Op -> Task]
      /\ \A p \in Op : /\ task'[p].at = task[p].at
                       /\ task'[p].next = task[p].next
                       /\ task'[p].settled = task[p].settled
  <2>1. Asked(HostsOps(i))
    BY DEF Quiesce, Asked
  <2> QED BY <1>0, <2>1, AskedTask
<1>3. todo' \in [Instance -> SUBSET Op] /\ removing' \in [Instance -> SUBSET Op]
  BY <1>0 DEF Quiesce, TypeOK
<1>4. stopping' \in [Instance -> 0..2]
  BY <1>0 DEF Quiesce, TypeOK
<1>5. StoreTypeOK' /\ LedgerTypeOK'
  BY <1>0, <1>1 DEF TypeOK, StoreTypeOK, LedgerTypeOK
<1>6. TypeOK'
  BY <1>0, <1>1, <1>2, <1>3, <1>4, <1>5 DEF TypeOK
<1>7. \A p \in Op : Untouched(p)
  BY <1>1, <1>2 DEF Untouched
<1>8. ScanInv'
  BY <1>0, <1>1 DEF Quiesce, IInv, ScanInv, TypeOK
<1> QED BY <1>1, <1>6, <1>7, <1>8, AsideKeeps

\* A worker that dies, whatever it was doing.
LEMMA CrashKeeps ==
    ASSUME IInv, NEW p \in Op, task'[p].at = "crashed", task'[p].settled = task[p].settled,
           UNCHANGED <<operations, activeOps, owners, slots, lapsedSlots, holds, reaped, unleased, faults>>
    PROVE  OpStep(p) /\ StatusStays(p)
<1>0. OpInv(p)
  BY DEF IInv
<1>1. NextInv(p)' /\ CancelledInv(p)' /\ QueuedInv(p)' /\ LeaseInv(p)'
  BY DEF NextInv, CancelledInv, QueuedInv, LeaseInv, At, Live, Working, Cleaning, Ended
<1>2. IndexInv(p)' /\ ResultInv(p)' /\ CleanInv(p)'
  BY <1>0 DEF OpInv, IndexInv, ResultInv, CleanInv, Active, StatusOf, Working
<1>3. ReapedInv(p)'
  BY <1>0 DEF OpInv, ReapedInv, Active, StatusOf, At, Live, Ended
<1>4. HoldInv(p)'
  BY <1>0 DEF OpInv, HoldInv, Metered
<1>5. StatusStays(p) /\ StoredStep(p)
  BY DEF StatusStays, StoredStep, StatusOf, Working
<1> QED BY <1>1, <1>2, <1>3, <1>4, <1>5 DEF OpStep, OpInv, StatusStep

LEMMA DiesKeeps ==
    ASSUME IInv, NEW i \in Instance, Dies(i)
    PROVE  StepKeeps
<1>0. TypeOK
  BY DEF IInv
<1>1. /\ UNCHANGED <<operations, activeOps, owners, slots, lapsedSlots>>
      /\ UNCHANGED <<total, window, holds, windowSeq>>
      /\ UNCHANGED <<reaped, stopping, unleased, faults, lapses>>
  BY DEF Dies, Quiet, storeVars, ledgerVars, boundVars
<1>2. \A p \in Op : task'[p] = IF HostOf[p] = i /\ Live(p)
                                 THEN [task[p] EXCEPT !.at = "crashed", !.cancel = FALSE, !.monitor = "off"]
                                 ELSE task[p]
  BY DEF Dies
<1>3. ASSUME NEW p \in Op
      PROVE  /\ task'[p] \in Task
             /\ task'[p] = task[p] \/ (task'[p].at = "crashed" /\ task'[p].settled = task[p].settled)
  <2>1. task[p] \in Task
    BY <1>0 DEF TypeOK
  <2>2. CASE task'[p] = [task[p] EXCEPT !.at = "crashed", !.cancel = FALSE, !.monitor = "off"]
    BY <2>1, <2>2 DEF Task, Ended
  <2>3. CASE task'[p] = task[p]
    BY <2>1, <2>3
  <2> QED BY <1>2, <2>2, <2>3
<1>4. task' \in [Op -> Task]
  BY <1>3 DEF Dies
<1>5. ASSUME NEW c \in Canceller
      PROVE  /\ req'[c] \in Request
             /\ req'[c] = req[c] \/ req'[c].at = "dead"
  <2>1. req[c] \in Request
    BY <1>0 DEF TypeOK
  <2> QED BY <2>1 DEF Dies, Request
<1>6. req' \in [Canceller -> Request]
  BY <1>5 DEF Dies
<1>7. /\ listening' \subseteq Instance /\ dead' \subseteq Instance
      /\ inbox' \in [Instance -> SUBSET Op]
      /\ todo' \in [Instance -> SUBSET Op]
      /\ removing' \in [Instance -> SUBSET Op]
  BY <1>0 DEF Dies, TypeOK
<1>8. StoreTypeOK' /\ LedgerTypeOK'
  BY <1>0, <1>1 DEF TypeOK, StoreTypeOK, LedgerTypeOK
<1>9. TypeOK'
  BY <1>0, <1>1, <1>4, <1>6, <1>7, <1>8 DEF TypeOK
<1>10. ScanInv'
  BY <1>0, <1>1 DEF Dies, IInv, ScanInv, TypeOK
<1>11. ASSUME NEW p \in Op PROVE OpStep(p) /\ StatusStays(p)
  <2>1. CASE task'[p] = task[p]
    <3>1. Untouched(p)
      BY <1>1, <2>1 DEF Untouched
    <3> QED BY <3>1, UntouchedKeeps DEF IInv
  <2>2. CASE task'[p].at = "crashed" /\ task'[p].settled = task[p].settled
    BY <1>1, <2>2, CrashKeeps
  <2> QED BY <1>3, <2>1, <2>2
<1>12. CancelledReplyHolds'
  BY <1>1, <1>5 DEF IInv, CancelledReplyHolds, StatusOf
<1> QED BY <1>9, <1>10, <1>11, <1>12 DEF StepKeeps, IInv, LifecycleStep, OpStep

\* What the passing of time leaves alone.
TimePasses ==
    /\ UNCHANGED <<operations, activeOps, holds>>
    /\ UNCHANGED <<task, req, inbox, listening, todo, removing, reaped, stopping, dead, faults>>
    /\ StoreTypeOK' /\ LedgerTypeOK'
    /\ lapses' \in 0..MaxLapses /\ unleased' \subseteq Op

LEMMA TimeTypes ==
    ASSUME IInv, TimePasses
    PROVE  TypeOK' /\ ScanInv'
BY DEF IInv, TypeOK, TimePasses, ScanInv

LEMMA LapseIs ==
    ASSUME IInv, NEW o \in Op, Lapse(o)
    PROVE  lapses' \in 0..MaxLapses /\ faults' = faults
<1>1. lapses \in 0..MaxLapses /\ MaxLapses \in Nat
  BY TaskAssumption DEF IInv, TypeOK, TaskAssumption
<1> QED BY <1>1 DEF Lapse

LEMMA OwnerLapsesKeeps ==
    ASSUME IInv, NEW o \in Op, OwnerLapses(o)
    PROVE  StepKeeps
<1>0. /\ TypeOK /\ OpInv(o) /\ HostOf[o] # NoInstance
      /\ lapses' \in 0..MaxLapses /\ faults' = faults
  BY NamesDiffer, LapseIs DEF IInv, OwnerLapses
<1>1. /\ owners' = [owners EXCEPT ![o] = NoInstance]
      /\ UNCHANGED <<operations, activeOps, slots, lapsedSlots>>
      /\ UNCHANGED <<total, window, holds, windowSeq>>
      /\ UNCHANGED <<task, req, inbox, listening, todo, removing, reaped, stopping, dead>>
      /\ unleased' = IF Live(o) THEN unleased \cup {o} ELSE unleased
  BY DEF OwnerLapses, LeaseExpires, TimeQuiet, ledgerVars, cancelVars, scanVars, hostVars
<1>2. /\ owners'[o] = NoInstance /\ owners' \in [Op -> Instance \cup {NoInstance}]
      /\ \A p \in Op \ {o} : owners'[p] = owners[p]
  BY <1>0, <1>1 DEF TypeOK, StoreTypeOK
<1>3. TimePasses
  <2>1. StoreTypeOK' /\ LedgerTypeOK'
    BY <1>0, <1>1, <1>2 DEF TypeOK, StoreTypeOK, LedgerTypeOK
  <2>2. unleased' \subseteq Op
    BY <1>0, <1>1 DEF TypeOK
  <2> QED BY <1>0, <1>1, <2>1, <2>2 DEF TimePasses
<1>4. OpInv(o)'
  <2> USE <1>0, <1>1, <1>2
  <2>1. NextInv(o)' /\ CancelledInv(o)'
    BY DEF OpInv, NextInv, CancelledInv, At, StatusOf
  <2>2. LeaseInv(o)'
    BY DEF LeaseInv, Live
  <2>3. ReapedInv(o)' /\ IndexInv(o)' /\ QueuedInv(o)'
    BY DEF OpInv, ReapedInv, IndexInv, QueuedInv, Active, StatusOf, At, Live
  <2>4. ResultInv(o)' /\ HoldInv(o)'
    BY DEF OpInv, ResultInv, HoldInv, Metered, StatusOf
  <2>5. CleanInv(o)'
    BY DEF OpInv, CleanInv
  <2> QED BY <2>1, <2>2, <2>3, <2>4, <2>5 DEF OpInv
<1>5. ASSUME NEW p \in Op \ {o} PROVE OpInv(p)'
  <2>1. Untouched(p)
    BY <1>0, <1>1, <1>2 DEF Untouched
  <2> QED BY <2>1, UntouchedKeeps DEF IInv, OpStep
<1>6. \A p \in Op : StoredStep(p) /\ StatusStays(p)
  BY <1>1 DEF StoredStep, StatusStays, StatusOf
<1>7. CancelledReplyHolds'
  BY <1>1 DEF IInv, CancelledReplyHolds, StatusOf
<1> QED BY <1>3, <1>4, <1>5, <1>6, <1>7, TimeTypes DEF StepKeeps, IInv, LifecycleStep

LEMMA TimeKeeps ==
    ASSUME IInv, (\E o \in Op : SlotLapses(o)) \/ SlotsReaped \/ WindowLapses
    PROVE  StepKeeps
<1>0. /\ TypeOK /\ lapses \in 0..MaxLapses /\ MaxLapses \in Nat
      /\ \A o \in Op : HostOf[o] \in Instance
  BY TaskAssumption, NamesDiffer DEF IInv, TypeOK, TaskAssumption
<1>1. /\ UNCHANGED <<operations, activeOps, owners, holds>>
      /\ UNCHANGED <<task, req, inbox, listening, todo, removing, reaped, stopping, dead>>
      /\ UNCHANGED <<unleased, faults>>
  BY DEF SlotLapses, SlotExpires, Lapse, SlotsReaped, WindowLapses, WindowExpires, TimeQuiet,
         storeVars, ledgerVars, cancelVars, scanVars, hostVars, boundVars
<1>2. lapses' \in 0..MaxLapses
  <2>1. ASSUME NEW o \in Op, SlotLapses(o) PROVE lapses' \in 0..MaxLapses
    BY <2>1, LapseIs DEF SlotLapses
  <2>2. CASE SlotsReaped
    BY <1>0, <2>2 DEF SlotsReaped, boundVars
  <2>3. CASE WindowLapses
    BY <1>0, <2>3 DEF WindowLapses
  <2> QED BY <2>1, <2>2, <2>3
<1>3. /\ slots' \subseteq Slot /\ lapsedSlots' \subseteq Slot
      /\ slots' \cup lapsedSlots' \subseteq slots \cup lapsedSlots
  <2>1. ASSUME NEW o \in Op, SlotLapses(o)
        PROVE  /\ slots' \subseteq Slot /\ lapsedSlots' \subseteq Slot
               /\ slots' \cup lapsedSlots' \subseteq slots \cup lapsedSlots
    BY <1>0, <2>1 DEF SlotLapses, SlotExpires, TypeOK, StoreTypeOK
  <2>2. CASE SlotsReaped \/ WindowLapses
    BY <1>0, <2>2 DEF SlotsReaped, WindowLapses, storeVars, TypeOK, StoreTypeOK
  <2> QED BY <2>1, <2>2
<1>4. LedgerTypeOK'
  <2>1. CASE WindowLapses
    BY <1>0, <2>1, LedgerTimeTypes DEF WindowLapses, TypeOK
  <2>2. CASE UNCHANGED ledgerVars
    BY <1>0, <2>2 DEF TypeOK, ledgerVars, LedgerTypeOK
  <2> QED BY <2>1, <2>2 DEF SlotLapses, SlotsReaped
<1>5. StoreTypeOK'
  BY <1>0, <1>1, <1>3 DEF TypeOK, StoreTypeOK
<1>6. TypeOK' /\ ScanInv'
  <2>1. TimePasses
    BY <1>0, <1>1, <1>2, <1>4, <1>5 DEF TimePasses, TypeOK
  <2> QED BY <2>1, TimeTypes
<1>7. \A p \in Op : Untouched(p)
  BY <1>1, <1>3 DEF Untouched
<1> QED BY <1>1, <1>6, <1>7, AsideKeeps

LEMMA StutterKeeps ==
    ASSUME IInv, UNCHANGED vars
    PROVE  StepKeeps
<1>1. /\ UNCHANGED <<operations, activeOps, owners, slots, lapsedSlots>>
      /\ UNCHANGED <<total, window, holds, windowSeq>>
      /\ UNCHANGED <<task, req, inbox, listening, todo, removing, reaped, stopping, dead>>
      /\ UNCHANGED <<unleased, faults, lapses>>
  BY DEF vars, storeVars, ledgerVars, cancelVars, scanVars, hostVars, boundVars
<1>2. TypeOK' /\ ScanInv'
  BY <1>1 DEF IInv, TypeOK, StoreTypeOK, LedgerTypeOK, ScanInv
<1>3. \A p \in Op : Untouched(p)
  BY <1>1 DEF Untouched
<1> QED BY <1>1, <1>2, <1>3, AsideKeeps

LEMMA NextKeeps ==
    ASSUME IInv, [Next]_vars
    PROVE  StepKeeps
<1>1. ASSUME NEW o \in Op,
             \/ TaskStep(o) \/ Interrupt(o) \/ Heartbeat(o) \/ MemoryExceeded(o)
             \/ TaskFault(o) \/ HeartbeatFault(o) \/ MonitorFault(o)
      PROVE  StepKeeps
  BY <1>1, WorkerKeeps
<1>2. ASSUME NEW o \in Op, OwnerLapses(o) PROVE StepKeeps
  BY <1>2, OwnerLapsesKeeps
<1>3. ASSUME NEW o \in Op, SlotLapses(o) PROVE StepKeeps
  BY <1>3, TimeKeeps
<1>4. ASSUME NEW c \in Canceller, CancelStep(c) PROVE StepKeeps
  BY <1>4, CancelStepRequests, RequestsKeep
<1>5. ASSUME NEW i \in Instance, (\E o \in Op : Listen(i, o)) \/ ListenerDies(i) PROVE StepKeeps
  BY <1>5, ListenRequests, RequestsKeep
<1>6. ASSUME NEW i \in Instance, ScanStep(i) \/ ScanFault(i) PROVE StepKeeps
  BY <1>6, ScanKeeps
<1>7. ASSUME NEW i \in Instance, Quiesce(i) PROVE StepKeeps
  BY <1>7, QuiesceKeeps
<1>8. ASSUME NEW i \in Instance, Dies(i) PROVE StepKeeps
  BY <1>8, DiesKeeps
<1>9. CASE SlotsReaped \/ WindowLapses
  BY <1>9, TimeKeeps
<1>10. CASE UNCHANGED vars
  BY <1>10, StutterKeeps
<1> QED BY <1>1, <1>2, <1>3, <1>4, <1>5, <1>6, <1>7, <1>8, <1>9, <1>10 DEF Next

LEMMA InitHolds == ASSUME Init PROVE IInv
<1>0. /\ HostOf \in [Op -> Instance] /\ AmountOf \in [Op -> Amounts \cup {0}]
      /\ MaxWindow \in Nat \ {0} /\ MaxFaults \in Nat /\ MaxLapses \in Nat
  BY TaskAssumption, LedgerAssumption DEF TaskAssumption, LedgerAssumption
<1>1. StoreTypeOK
  <2>1. operations \in [Op -> Record]
    BY DEF Init, Record, Status, ActiveStatus
  <2>2. slots \subseteq Slot
    BY <1>0 DEF Init, Slot
  <2> QED BY <1>0, <2>1, <2>2 DEF Init, StoreTypeOK
<1>2. LedgerTypeOK
  <2>1. holds \in [Op -> Hold]
    <3>1. ASSUME NEW o \in Op
          PROVE  (IF Metered(o) THEN [amount |-> AmountOf[o], window |-> 1] ELSE NoHold) \in Hold
      BY <1>0 DEF Hold, NoHold
    <3> QED BY <3>1 DEF Init
  <2>2. total \in Nat
    <3>1. Summable(AmountOf, Op)
      BY <1>0, NamesDiffer, OperationsAssumption DEF Summable, OperationsAssumption
    <3>2. total = SumOver(AmountOf, Op)
      BY HeldTotalIs DEF Init
    <3> QED BY <3>1, <3>2, SumIsNatural
  <2>3. windowSeq \in 0..MaxWindow /\ window \in 0..windowSeq
    BY <1>0 DEF Init
  <2> QED BY <2>1, <2>2, <2>3 DEF LedgerTypeOK
<1>3. task \in [Op -> Task]
  BY DEF Init, Task, Working, TerminalStatus
<1>4. req \in [Canceller -> Request]
  BY DEF Init, Request, Reply
<1>5. TypeOK
  BY <1>0, <1>1, <1>2, <1>3, <1>4 DEF Init, TypeOK
<1>6. ASSUME NEW o \in Op PROVE OpInv(o)
  <2>1. task[o].at = "start" /\ task[o].next = "over" /\ task[o].settled = FALSE
    BY DEF Init
  <2>2. StatusOf(o) = "queued" /\ owners[o] = HostOf[o] /\ reaped = {} /\ o \in activeOps
    BY DEF Init, StatusOf
  <2>3. ~Metered(o) => holds[o] = NoHold
    BY DEF Init
  <2> QED BY <2>1, <2>2, <2>3
       DEF OpInv, NextInv, CancelledInv, LeaseInv, ReapedInv, IndexInv, ResultInv, QueuedInv,
           HoldInv, CleanInv, At, Working, Cleaning
<1>7. ScanInv /\ CancelledReplyHolds
  BY DEF Init, ScanInv, CancelledReplyHolds
<1> QED BY <1>5, <1>6, <1>7 DEF IInv

-----------------------------------------------------------------------------
LEMMA TaskInvariant == Spec => []IInv
<1>1. IInv /\ [Next]_vars => IInv'
  BY NextKeeps DEF StepKeeps
<1> QED BY <1>1, InitHolds, PTL DEF Spec

(***************************************************************************)
(* The variables of the task, its requests and the scan keep their types.  *)
(***************************************************************************)
THEOREM TaskTypeCorrect == Spec => []TypeOK
<1>1. IInv => TypeOK
  BY DEF IInv
<1> QED BY <1>1, TaskInvariant, PTL

(***************************************************************************)
(* A "cancelled" answered after waiting for the task, or from the store,   *)
(* is what the record says from then on.                                   *)
(***************************************************************************)
THEOREM CancelledReplyIsTrue == Spec => []CancelledReplyHolds
<1>1. IInv => CancelledReplyHolds
  BY DEF IInv
<1> QED BY <1>1, TaskInvariant, PTL

(***************************************************************************)
(* The scan fails nothing behind a worker that kept its lease.             *)
(***************************************************************************)
THEOREM OnlyAbandonedReaped == Spec => []ReapedOnlyAbandoned
<1>1. IInv => ReapedOnlyAbandoned
  <2> SUFFICES ASSUME IInv, NEW o \in reaped \ unleased
               PROVE  At(o, "relSlot") \/ ~Live(o)
    BY DEF ReapedOnlyAbandoned
  <2>1. o \in Op /\ OpInv(o)
    BY DEF IInv, TypeOK
  <2> QED BY <2>1 DEF OpInv, ReapedInv
<1> QED BY <1>1, TaskInvariant, PTL

(***************************************************************************)
(* A queued or running record whose worker did not outlive its lease is in *)
(* the index the scan reads.                                               *)
(***************************************************************************)
THEOREM ActiveIndexed == Spec => []ActiveIsIndexed
<1>1. IInv => ActiveIsIndexed
  BY DEF IInv, OpInv, IndexInv, ActiveIsIndexed
<1> QED BY <1>1, TaskInvariant, PTL

(***************************************************************************)
(* A finished task whose calls answered holds no lease, slot or            *)
(* reservation.                                                            *)
(***************************************************************************)
THEOREM TaskCleansUp == Spec => []CleanedUp
<1>1. IInv => CleanedUp
  <2> SUFFICES ASSUME IInv, NEW o \in Op, faults = 0, At(o, "over")
               PROVE  /\ owners[o] # HostOf[o]
                      /\ <<HostOf[o], o>> \notin slots \cup lapsedSlots
                      /\ ~CurrentHold(o)
    BY DEF CleanedUp
  <2>1. HoldInv(o) /\ CleanInv(o)
    BY DEF IInv, OpInv
  <2>2. holds[o] = NoHold
    BY <2>1 DEF HoldInv, At
  <2>3. ~CurrentHold(o)
    BY <2>2 DEF CurrentHold, NoHold
  <2> QED BY <2>1, <2>3 DEF CleanInv, At
<1> QED BY <1>1, TaskInvariant, PTL

(***************************************************************************)
(* A stored result is replaced by a cancellation at most, as long as no    *)
(* call raised.                                                            *)
(***************************************************************************)
THEOREM ResultStays == Spec => StoredResultStays
<1> DEFINE Stays == \A o \in Op : faults = 0 /\ StatusOf(o) \in {"completed", "partial"} =>
                       operations'[o].status \in {StatusOf(o), "cancelled"}
<1>1. IInv /\ [Next]_vars => [Stays]_vars
  BY NextKeeps DEF StepKeeps, StoredStep
<1> QED BY <1>1, TaskInvariant, PTL DEF Spec, StoredResultStays

(***************************************************************************)
(* The refinement: what clients see, while no worker outlives its lease.   *)
(***************************************************************************)
LEMMA LifecycleStarts == Init => Lifecycle!Init
<1> SUFFICES ASSUME Init PROVE Lifecycle!Init
  OBVIOUS
<1>1. StatusSeen = [o \in Op |-> "queued"]
  BY DEF Init, StatusSeen, StatusOf
<1>2. WorkerOpen = [o \in Op |-> TRUE]
  BY DEF Init, WorkerOpen, Working
<1> QED BY <1>1, <1>2 DEF Lifecycle!Init

WorkersKeepLeases == unleased = {}

LEMMA LifecycleSteps ==
    ASSUME IInv, LifecycleStep, WorkersKeepLeases
    PROVE  [Lifecycle!Next]_<<StatusSeen, WorkerOpen>>
<1>1. CASE \A p \in Op : StatusStays(p)
  <2>1. StatusSeen' = StatusSeen
    BY <1>1 DEF StatusStays, StatusSeen, StatusOf
  <2> DEFINE gone == {p \in Op : task'[p].at \notin Working}
  <2>2. WorkerOpen' = [o \in Op |-> WorkerOpen[o] /\ o \notin gone]
    <3>1. ASSUME NEW o \in Op
          PROVE  (task'[o].at \in Working) <=> (WorkerOpen[o] /\ o \notin gone)
      <4>1. WorkerOpen[o] <=> task[o].at \in Working
        BY DEF WorkerOpen
      <4>2. o \in gone <=> task'[o].at \notin Working
        OBVIOUS
      <4> QED BY <1>1, <4>1, <4>2 DEF StatusStays
    <3>2. WorkerOpen' = [o \in Op |-> task'[o].at \in Working]
      BY DEF WorkerOpen
    <3>3. \A o \in Op : (task'[o].at \in Working) = (WorkerOpen[o] /\ o \notin gone)
      BY <3>1, SMT
    <3> HIDE DEF gone
    <3> QED BY <3>2, <3>3, Zenon
  <2>3. gone \in SUBSET Op
    OBVIOUS
  <2>4. Lifecycle!Close
    BY <2>1, <2>2, <2>3 DEF Lifecycle!Close
  <2> QED BY <2>4 DEF Lifecycle!Next
<1>2. ASSUME NEW o \in Op, StatusStep(o),
             \A p \in Op \ {o} : operations'[p].status = StatusOf(p) /\ task'[p] = task[p]
      PROVE  [Lifecycle!Next]_<<StatusSeen, WorkerOpen>>
  <2>0. OpInv(o) /\ o \notin unleased
    BY DEF IInv, WorkersKeepLeases
  <2>1. StatusSeen' = [StatusSeen EXCEPT ![o] = operations'[o].status]
    BY <1>2 DEF StatusSeen, StatusOf
  <2>2. WorkerOpen' = [WorkerOpen EXCEPT ![o] = task'[o].at \in Working]
    BY <1>2 DEF WorkerOpen
  <2>3. StatusSeen[o] = StatusOf(o) /\ WorkerOpen[o] = (task[o].at \in Working)
    BY DEF StatusSeen, WorkerOpen
  <2>4. CASE StatusRuns(o)
    <3>1. WorkerOpen' = WorkerOpen
      BY <2>2, <2>3, <2>4 DEF StatusRuns, WorkerOpen
    <3>2. Lifecycle!Run(o)
      BY <2>0, <2>1, <2>3, <2>4, <3>1 DEF StatusRuns, Lifecycle!Run
    <3> QED BY <3>2 DEF Lifecycle!Next
  <2>5. CASE StatusEnds(o)
    <3>1. operations'[o].status \in Lifecycle!Ended
      BY <2>5 DEF StatusEnds, TerminalStatus, Lifecycle!Ended
    <3>2. (task'[o].at \in Working) \in BOOLEAN
      OBVIOUS
    <3>3. Lifecycle!End(o)
      BY <2>1, <2>2, <2>3, <2>5, <3>1, <3>2 DEF StatusEnds, Lifecycle!End
    <3> QED BY <3>3 DEF Lifecycle!Next
  <2>6. CASE StatusStays(o)
    <3>1. \A p \in Op : StatusStays(p)
      BY <1>2, <2>6 DEF StatusStays
    <3> QED BY <1>1, <3>1
  <2>7. CASE StatusAbandoned(o)
    <3>1. WorkerOpen' = WorkerOpen
      BY <2>2, <2>3, <2>7 DEF StatusAbandoned, WorkerOpen
    <3>2. CASE task[o].at \in Working
      <4>1. Lifecycle!End(o)
        <5>1. "failed" \in Lifecycle!Ended
          BY DEF Lifecycle!Ended
        <5>2. StatusSeen' = [StatusSeen EXCEPT ![o] = "failed"]
          BY <2>1, <2>7 DEF StatusAbandoned
        <5>3. WorkerOpen' = [WorkerOpen EXCEPT ![o] = TRUE]
          BY <2>2, <2>7, <3>2 DEF StatusAbandoned
        <5> QED BY <2>3, <3>2, <5>1, <5>2, <5>3 DEF Lifecycle!End
      <4> QED BY <4>1 DEF Lifecycle!Next
    <3>3. CASE task[o].at \notin Working
      <4>1. Lifecycle!Abandon(o)
        BY <2>1, <2>3, <2>7, <3>1, <3>3
           DEF StatusAbandoned, Lifecycle!Abandon, Lifecycle!Ended, Active, ActiveStatus
      <4> QED BY <4>1 DEF Lifecycle!Next
    <3> QED BY <3>2, <3>3
  <2> QED BY <1>2, <2>4, <2>5, <2>6, <2>7 DEF StatusStep
<1> QED BY <1>1, <1>2 DEF LifecycleStep

(***************************************************************************)
(* Seen by clients, an operation goes through its lifecycle, in every      *)
(* behaviour in which no worker outlives its lease.                        *)
(***************************************************************************)
THEOREM LifecycleImplemented == Spec /\ []WorkersKeepLeases => ImplementsLifecycle
<1>1. IInv /\ [Next]_vars /\ WorkersKeepLeases => [Lifecycle!Next]_<<StatusSeen, WorkerOpen>>
  BY NextKeeps, LifecycleSteps DEF StepKeeps
<1> QED
  BY <1>1, LifecycleStarts, TaskInvariant, PTL DEF Spec, ImplementsLifecycle, Lifecycle!Spec
=============================================================================
