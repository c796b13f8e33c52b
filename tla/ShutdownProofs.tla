--------------------------- MODULE ShutdownProofs ---------------------------
(***************************************************************************)
(* The time budgets of the shutdown, for any number of tasks and any       *)
(* durations that keep TimingAssumption; and the log exporter, which the   *)
(* shutdown flushes last, for any capacity and any number of events.       *)
(***************************************************************************)
EXTENDS Shutdown, LogExporter, TLAPS

Prompt == Task \ Slow
Afterwards == {"flush", "again", "unsubscribing", "closing", "closed"}
Position == [at : {"work", "over"} \cup Timed, releases : 0..3, left : Nat]

\* The constants are naturals, and so are the two sums.
LEMMA Durations ==
    /\ GracePeriod \in Nat /\ FinalMargin \in Nat /\ DrainBudget \in Nat
    /\ FlushWait \in Nat /\ MaxSave \in Nat /\ MaxUnsubscribe \in Nat
    /\ IngestWait \in Nat /\ IngestWait > 0 /\ StepWait \in Nat /\ StepWait > 0
    /\ MaxUnsubscribe + FlushWait <= FinalMargin /\ FinalMargin <= GracePeriod
    /\ QuiesceWait \in Nat /\ QuiesceWait = IngestWait + 4 * StepWait
    /\ Deadline \in Nat /\ Deadline + FinalMargin = GracePeriod
    /\ QuiesceWait <= DrainBudget /\ DrainBudget <= Deadline
    /\ MaxSave < 2 * StepWait /\ 2 * MaxSave < IngestWait + StepWait
BY TimingAssumption DEF TimingAssumption, QuiesceWait, Deadline

-----------------------------------------------------------------------------
(***************************************************************************)
(* Types.                                                                  *)
(***************************************************************************)
LEMMA Positions ==
    /\ Saving \in Position /\ Unwinding \in Position /\ AwaitingIngest \in Position
    /\ \A n \in 0..3 : Releasing(n) \in Position
    /\ Over \in Position
BY Durations DEF Saving, Unwinding, AwaitingIngest, Releasing, Over, Position, Timed

\* A step of a task gives it a position.
LEMMA TaskStepTypes ==
    ASSUME TypeOK, NEW u \in Task, TaskStep(u)
    PROVE  /\ \E p \in Position : Becomes(u, p)
           /\ ingest' \in [Task -> {"none", "pending", "done"}]
           /\ UNCHANGED Lifespan
<1> USE Positions
<1>1. CASE ResearchEnds(u)
  BY <1>1 DEF ResearchEnds, TypeOK
<1>2. CASE ResultSaved(u)
  <2>1. Releasing(2) \in Position
    BY Durations DEF Releasing, Position, Timed
  <2> QED BY <1>2, <2>1 DEF ResultSaved, TypeOK
<1>3. CASE SaveFails(u)
  BY <1>3 DEF SaveFails, TypeOK
<1>4. CASE Unwound(u)
  <2>1. Releasing(3) \in Position
    BY Durations DEF Releasing, Position, Timed
  <2> QED BY <1>4, <2>1 DEF Unwound, TypeOK
<1>5. CASE IngestAwaited(u)
  <2>1. Releasing(2) \in Position
    BY Durations DEF Releasing, Position, Timed
  <2> QED BY <1>5, <2>1 DEF IngestAwaited, TypeOK
<1>6. CASE ReleaseStep(u)
  <2>1. task[u].releases \in 0..3
    BY DEF TypeOK
  <2>2. task[u].releases > 1 => Releasing(task[u].releases - 1) \in Position
    BY <2>1, Durations DEF Releasing, Position, Timed
  <2> QED BY <1>6, <2>2 DEF ReleaseStep, TypeOK
<1> QED BY <1>1, <1>2, <1>3, <1>4, <1>5, <1>6 DEF TaskStep, CleanupStep

\* A cancellation leaves every task a position.
LEMMA CancelTypes ==
    ASSUME TypeOK, CancelAll
    PROVE  task' \in [Task -> Position] /\ deaf' \subseteq Task
<1>1. PICK answer \in [Task -> Answer] :
         /\ task' = [t \in Task |-> Cancelled(t, answer[t])]
         /\ deaf' = deaf \cup {t \in Task : task[t].at = "work" /\ answer[t] = "worksOn"}
  BY DEF CancelAll
<1>2. ASSUME NEW t \in Task PROVE Cancelled(t, answer[t]) \in Position
  <2>1. task[t] \in Position
    BY DEF TypeOK, Position
  <2>2. Releasing(3) \in Position
    BY Durations DEF Releasing, Position, Timed
  <2> QED BY <2>1, <2>2, Positions DEF Cancelled
<1>3. deaf' \subseteq Task
  BY <1>1 DEF TypeOK
<1> QED BY <1>1, <1>2, <1>3

LEMMA LifespanTypes == ASSUME TypeOK, LifespanStep PROVE TypeOK'
<1> USE Durations
<1>1. PendingIngests \subseteq Task /\ Registered \subseteq Task
  BY DEF PendingIngests, Registered
<1>2. BeginFlush => /\ phase' \in {"unsubscribing", "flush"} /\ waiting' \subseteq Task
                    /\ waitUntil' \in Nat
  BY <1>1 DEF BeginFlush, BeginClose, TypeOK
<1>3. BeginClose => phase' = "unsubscribing" /\ waiting' \subseteq Task /\ waitUntil' \in Nat
  BY DEF BeginClose, TypeOK
<1>4. CASE BeginShutdown
  <2>1. CASE Registered = {}
    BY <1>4, <1>2, <2>1 DEF BeginShutdown, TypeOK, Draining
  <2>2. CASE Registered # {}
    BY <1>4, <1>1, <2>2, CancelTypes DEF BeginShutdown, TypeOK, Draining, Position
  <2> QED BY <2>1, <2>2
<1>5. CASE QuiesceEnds
  BY <1>5, <1>2 DEF QuiesceEnds, TypeOK, Draining
<1>6. CASE FlushEnds
  BY <1>6, <1>3 DEF FlushEnds, TypeOK, Draining
<1>7. CASE DrainTimesOut
  BY <1>7, <1>1, <1>3, CancelTypes DEF DrainTimesOut, TypeOK, Draining, Position
<1>8. CASE AgainEnds
  BY <1>8, <1>3 DEF AgainEnds, TypeOK, Draining
<1>9. CASE Unsubscribed
  BY <1>9 DEF Unsubscribed, TypeOK, Draining
<1>10. CASE Close
  BY <1>10 DEF Close, TypeOK, Draining
<1> QED BY <1>4, <1>5, <1>6, <1>7, <1>8, <1>9, <1>10 DEF LifespanStep, ShutdownStep

LEMMA TypeOKInductive == TypeOK /\ [Next]_vars => TypeOK'
<1> SUFFICES ASSUME TypeOK, [Next]_vars PROVE TypeOK'
  OBVIOUS
<1>1. ASSUME NEW u \in Task, TaskStep(u) PROVE TypeOK'
  <2>1. PICK p \in Position : Becomes(u, p)
    BY <1>1, TaskStepTypes
  <2>2. task' \in [Task -> Position]
    BY <2>1 DEF Becomes, TypeOK, Position
  <2> QED BY <1>1, <2>2, TaskStepTypes DEF TypeOK, Lifespan, Position
<1>2. ASSUME NEW u \in Task, IngestEnds(u) PROVE TypeOK'
  BY <1>2 DEF IngestEnds, TypeOK, Lifespan
<1>3. CASE LifespanStep
  BY <1>3, LifespanTypes
<1>4. CASE Tick
  <2>1. ASSUME NEW t \in Task
        PROVE  [task[t] EXCEPT !.left = IF @ = 0 THEN 0 ELSE @ - 1] \in Position
    <3>1. task[t] \in Position
      BY DEF TypeOK, Position
    <3> QED BY <3>1 DEF Position
  <2>2. task' \in [Task -> Position]
    BY <1>4, <2>1 DEF Tick
  <2> QED BY <1>4, <2>2 DEF Tick, TypeOK, Position
<1>5. CASE UNCHANGED vars
  BY <1>5 DEF vars, TypeOK
<1> QED BY <1>1, <1>2, <1>3, <1>4, <1>5 DEF Next

LEMMA InitTypeOK == Init => TypeOK
BY DEF Init, TypeOK, Timed

(***************************************************************************)
(* The positions, waits and clocks keep their types: no duration that the  *)
(* shutdown computes is ever negative.                                     *)
(***************************************************************************)
THEOREM TypeCorrect == Spec => []TypeOK
BY InitTypeOK, TypeOKInductive, PTL DEF Spec

-----------------------------------------------------------------------------
(***************************************************************************)
(* The clock.  Each phase of the shutdown has a deadline of its own, and   *)
(* the clock stands still at a deadline until the phase is left.           *)
(***************************************************************************)
ClockInv ==
    /\ phase = "serving" => clock = 0
    /\ phase \in Draining => clock <= drainUntil /\ drainUntil = DrainBudget
    /\ phase = "again" => clock <= waitUntil /\ waitUntil = Deadline
    /\ phase = "unsubscribing" => clock <= waitUntil /\ waitUntil + FlushWait <= GracePeriod
    /\ phase = "closing" => clock <= waitUntil /\ waitUntil <= GracePeriod
    /\ phase = "closed" => clock <= GracePeriod

\* Closing begins at a time that leaves room for the unsubscribe and the last flush.
LEMMA CloseInTime ==
    ASSUME TypeOK, BeginClose, UNCHANGED clock, clock <= Deadline
    PROVE  ClockInv'
BY Durations DEF BeginClose, ClockInv, TypeOK, Draining

LEMMA FlushInTime ==
    ASSUME TypeOK, BeginFlush, UNCHANGED clock, clock <= drainUntil', drainUntil' = DrainBudget
    PROVE  ClockInv'
BY Durations DEF BeginFlush, BeginClose, ClockInv, TypeOK, Draining

LEMMA ClockInvInductive == TypeOK /\ ClockInv /\ [Next]_vars => ClockInv'
<1> SUFFICES ASSUME TypeOK, ClockInv, [Next]_vars PROVE ClockInv'
  OBVIOUS
<1> USE Durations
<1>1. ASSUME NEW u \in Task, TaskStep(u) PROVE ClockInv'
  BY <1>1, TaskStepTypes DEF Lifespan, ClockInv
<1>2. ASSUME NEW u \in Task, IngestEnds(u) PROVE ClockInv'
  BY <1>2 DEF IngestEnds, Lifespan, ClockInv
<1>3. CASE BeginShutdown
  <2>1. clock' = 0 /\ UNCHANGED clock /\ drainUntil' = DrainBudget
    BY <1>3 DEF BeginShutdown, ClockInv
  <2>2. CASE Registered = {}
    BY <1>3, <2>1, <2>2, FlushInTime DEF BeginShutdown
  <2>3. CASE Registered # {}
    BY <1>3, <2>1, <2>3 DEF BeginShutdown, ClockInv, Draining
  <2> QED BY <2>2, <2>3
<1>4. CASE QuiesceEnds
  BY <1>4, FlushInTime DEF QuiesceEnds, ClockInv, Draining
<1>5. CASE FlushEnds
  BY <1>5, CloseInTime DEF FlushEnds, ClockInv, Draining, TypeOK
<1>6. CASE DrainTimesOut
  <2>1. clock <= Deadline /\ UNCHANGED clock
    BY <1>6 DEF DrainTimesOut, ClockInv, TypeOK
  <2>2. CASE clock < Deadline /\ Registered # {}
    BY <1>6, <2>1, <2>2 DEF DrainTimesOut, ClockInv, Draining
  <2>3. CASE ~(clock < Deadline /\ Registered # {})
    BY <1>6, <2>1, <2>3, CloseInTime DEF DrainTimesOut
  <2> QED BY <2>2, <2>3
<1>7. CASE AgainEnds
  BY <1>7, CloseInTime DEF AgainEnds, ClockInv
<1>8. CASE Close
  BY <1>8 DEF Close, ClockInv, TypeOK, Draining
<1>9. CASE Tick
  <2>1. CASE phase = "serving"
    BY <1>9, <2>1 DEF Tick, ClockInv, Draining
  <2>2. CASE phase # "serving"
    BY <1>9, <2>2 DEF Tick, LifespanDue, ClockInv, TypeOK, Draining
  <2> QED BY <2>1, <2>2
<1>10. CASE UNCHANGED vars
  BY <1>10 DEF vars, ClockInv
<1>11. CASE Unsubscribed
  BY <1>11 DEF Unsubscribed, ClockInv, TypeOK, Draining
<1> QED
  BY <1>1, <1>2, <1>3, <1>4, <1>5, <1>6, <1>7, <1>8, <1>9, <1>10, <1>11
  DEF Next, LifespanStep, ShutdownStep

LEMMA ClockInvHolds == Spec => [](TypeOK /\ ClockInv)
<1>1. Init => TypeOK /\ ClockInv
  BY InitTypeOK DEF Init, ClockInv, Draining
<1> QED BY <1>1, TypeOKInductive, ClockInvInductive, PTL DEF Spec

(***************************************************************************)
(* "Anchoring every subsequent wait to the single deadline keeps the total *)
(* bounded": whatever tasks and ingests do, the clock never passes the     *)
(* grace period of the platform.                                           *)
(***************************************************************************)
THEOREM EndsWithinGrace == Spec => []WithinGrace
<1>1. TypeOK /\ ClockInv => WithinGrace
  BY Durations DEF TypeOK, ClockInv, WithinGrace, Draining
<1> QED BY <1>1, ClockInvHolds, PTL

-----------------------------------------------------------------------------
(***************************************************************************)
(* The cleanup of prompt tasks.  While lifespan waits for the tasks it has *)
(* cancelled, each one that is not over is among those waited for, and the *)
(* time it still needs at most ends strictly before the wait does.         *)
(***************************************************************************)
LeftBounded(p) ==
    /\ p.at \in {"saving", "unwind"} => p.left <= MaxSave
    /\ p.at = "ingest" => p.left <= IngestWait
    /\ p.at = "release" => p.left <= StepWait /\ p.releases \in 1..3

\* A task in p at time c is over before time w.
InTime(p, c, w) ==
    /\ p.at # "work"
    /\ p.at = "saving" => /\ c + p.left + IngestWait + 2 * StepWait < w
                          /\ c + p.left + MaxSave + 3 * StepWait < w
    /\ p.at = "unwind" => c + p.left + 3 * StepWait < w
    /\ p.at = "ingest" => c + p.left + 2 * StepWait < w
    /\ p.at = "release" =>
          \/ p.releases = 3 /\ c + p.left + 2 * StepWait < w
          \/ p.releases = 2 /\ c + p.left + StepWait < w
          \/ p.releases = 1 /\ c + p.left < w

BoundedInv == \A t \in Task : LeftBounded(task[t])

CleanupInv ==
    /\ phase = "quiesce" =>
          /\ waitUntil <= drainUntil
          /\ \A t \in Prompt \ deaf : task[t].at # "over" =>
                t \in waiting /\ InTime(task[t], clock, waitUntil)
    /\ phase \in Afterwards => \A t \in Prompt \ deaf : task[t].at = "over"

\* Whatever a step makes of one task keeps its remaining time bounded, and if
\* the task was in time, it still is.
StaysInTime(p, q) ==
    /\ LeftBounded(q)
    /\ p.at # "over"
    /\ \A c, w \in Nat : InTime(p, c, w) => q.at = "over" \/ InTime(q, c, w)

LEMMA BoundedPositions ==
    /\ LeftBounded(Saving) /\ LeftBounded(Unwinding) /\ LeftBounded(AwaitingIngest)
    /\ \A n \in 1..3 : LeftBounded(Releasing(n))
    /\ LeftBounded(Over)
BY Durations DEF LeftBounded, Saving, Unwinding, AwaitingIngest, Releasing, Over

LEMMA TaskStepInTime ==
    ASSUME TypeOK, BoundedInv, NEW u \in Task, TaskStep(u)
    PROVE  \E q \in Position : Becomes(u, q) /\ StaysInTime(task[u], q)
<1> DEFINE p == task[u]
<1>0. p \in Position /\ LeftBounded(p)
  BY DEF TypeOK, Position, BoundedInv
<1> HIDE DEF p
<1> USE <1>0, Durations, Positions, BoundedPositions
<1>1. CASE ResearchEnds(u)
  BY <1>1 DEF ResearchEnds, TaskAt, StaysInTime, InTime, p
<1>2. CASE ResultSaved(u)
  <2>0. p.at = "saving" /\ p.left \in Nat
    BY <1>2 DEF ResultSaved, TaskAt, p, Position
  <2>1. StaysInTime(p, AwaitingIngest)
    BY <2>0 DEF StaysInTime, InTime, AwaitingIngest
  <2>2. Releasing(2) \in Position /\ StaysInTime(p, Releasing(2))
    BY <2>0 DEF StaysInTime, InTime, Releasing, Position, Timed
  <2> QED BY <1>2, <2>1, <2>2 DEF ResultSaved, p
<1>3. CASE SaveFails(u)
  <2>0. p.at = "saving" /\ p.left \in Nat
    BY <1>3 DEF SaveFails, TaskAt, p, Position
  <2>1. StaysInTime(p, Unwinding)
    BY <2>0 DEF StaysInTime, InTime, Unwinding
  <2> QED BY <1>3, <2>1 DEF SaveFails, p
<1>4. CASE Unwound(u)
  <2>0. p.at = "unwind" /\ p.left \in Nat
    BY <1>4 DEF Unwound, TaskAt, p, Position
  <2>1. Releasing(3) \in Position /\ StaysInTime(p, Releasing(3))
    BY <2>0 DEF StaysInTime, InTime, Releasing, Position, Timed
  <2> QED BY <1>4, <2>1 DEF Unwound, p
<1>5. CASE IngestAwaited(u)
  <2>0. p.at = "ingest" /\ p.left \in Nat
    BY <1>5 DEF IngestAwaited, TaskAt, p, Position
  <2>1. Releasing(2) \in Position /\ StaysInTime(p, Releasing(2))
    BY <2>0 DEF StaysInTime, InTime, Releasing, Position, Timed
  <2> QED BY <1>5, <2>1 DEF IngestAwaited, p
<1>6. CASE ReleaseStep(u)
  <2>0. p.at = "release" /\ p.left \in Nat /\ p.releases \in 1..3
    BY <1>6 DEF ReleaseStep, TaskAt, p, Position, LeftBounded
  <2>1. CASE p.releases > 1
    <3>1. Releasing(p.releases - 1) \in Position /\ LeftBounded(Releasing(p.releases - 1))
      BY <2>0, <2>1 DEF Releasing, Position, Timed, LeftBounded
    <3>2. StaysInTime(p, Releasing(p.releases - 1))
      BY <2>0, <2>1, <3>1 DEF StaysInTime, InTime, Releasing
    <3> QED BY <1>6, <2>1, <3>1, <3>2 DEF ReleaseStep, p
  <2>2. CASE ~(p.releases > 1)
    <3>1. StaysInTime(p, Over)
      BY <2>0 DEF StaysInTime, Over
    <3> QED BY <1>6, <2>2, <3>1 DEF ReleaseStep, p
  <2> QED BY <2>1, <2>2
<1> QED BY <1>1, <1>2, <1>3, <1>4, <1>5, <1>6 DEF TaskStep, CleanupStep, p

\* What a cancellation makes of a task: bounded, over only if it was, and at
\* the beginning of the shutdown in time for the wait, unless it works on.
LEMMA CancelledInTime ==
    ASSUME NEW p \in Position, LeftBounded(p), NEW t \in Task, task[t] = p,
           NEW answer \in Answer
    PROVE  LET q == Cancelled(t, answer)
           IN  /\ LeftBounded(q)
               /\ p.at = "over" => q.at = "over"
               /\ p.at # "over" /\ ~(p.at = "work" /\ answer = "worksOn")
                    => q.at # "over" /\ InTime(q, 0, QuiesceWait)
<1> USE Durations
<1>1. CASE p.at = "work"
  <2>1. CASE answer = "ends"
    BY <1>1, <2>1 DEF Cancelled, LeftBounded, InTime, Saving
  <2>2. CASE answer = "takes"
    BY <1>1, <2>2 DEF Cancelled, LeftBounded, InTime, Unwinding
  <2>3. CASE answer = "worksOn"
    BY <1>1, <2>3 DEF Cancelled, LeftBounded
  <2> QED BY <2>1, <2>2, <2>3 DEF Answer
<1>2. CASE p.at = "saving"
  BY <1>2 DEF Cancelled, LeftBounded, InTime, Unwinding
<1>3. CASE p.at = "unwind"
  BY <1>3 DEF Cancelled, LeftBounded, InTime, Releasing
<1>4. CASE p.at \in {"ingest", "release", "over"}
  <2>1. Cancelled(t, answer) = p
    BY <1>4 DEF Cancelled
  <2>2. p.left \in Nat
    BY DEF Position
  <2>3. CASE p.at = "ingest"
    BY <2>1, <2>2, <2>3 DEF LeftBounded, InTime
  <2>4. CASE p.at = "release"
    <3>1. p.releases \in 1..3 /\ p.left <= StepWait
      BY <2>4 DEF LeftBounded
    <3>2. InTime(p, 0, QuiesceWait)
      BY <2>2, <2>4, <3>1 DEF InTime
    <3> QED BY <2>1, <2>4, <3>2
  <2>5. CASE p.at = "over"
    BY <2>1, <2>5
  <2> QED BY <1>4, <2>3, <2>4, <2>5
<1> QED BY <1>1, <1>2, <1>3, <1>4 DEF Position, Timed

LEMMA CancelAllInTime ==
    ASSUME TypeOK, BoundedInv, CancelAll
    PROVE  /\ BoundedInv'
           /\ deaf \subseteq deaf'
           /\ \A t \in Task :
                 /\ task[t].at = "over" => task'[t].at = "over"
                 /\ task[t].at # "over" /\ t \notin deaf' => InTime(task'[t], 0, QuiesceWait)
<1>1. PICK answer \in [Task -> Answer] :
         /\ task' = [t \in Task |-> Cancelled(t, answer[t])]
         /\ deaf' = deaf \cup {t \in Task : task[t].at = "work" /\ answer[t] = "worksOn"}
  BY DEF CancelAll
<1>2. ASSUME NEW t \in Task
      PROVE  /\ LeftBounded(task'[t])
             /\ task[t].at = "over" => task'[t].at = "over"
             /\ task[t].at # "over" /\ t \notin deaf' => InTime(task'[t], 0, QuiesceWait)
  <2>1. /\ task[t] \in Position /\ LeftBounded(task[t])
        /\ answer[t] \in Answer /\ task'[t] = Cancelled(t, answer[t])
    BY <1>1 DEF TypeOK, Position, BoundedInv
  <2>2. t \notin deaf' => ~(task[t].at = "work" /\ answer[t] = "worksOn")
    BY <1>1
  <2> QED BY <2>1, <2>2, CancelledInTime
<1>3. deaf \subseteq deaf'
  BY <1>1
<1> QED BY <1>2, <1>3 DEF BoundedInv

\* Time takes from what is left as much as it adds to the clock, for every task
\* that is not due.
LEMMA TickInTime ==
    ASSUME TypeOK, BoundedInv, Tick, NEW t \in Task
    PROVE  /\ task'[t].at = task[t].at
           /\ LeftBounded(task'[t])
           /\ phase # "serving" /\ t \in Prompt =>
                \A w \in Nat : InTime(task[t], clock, w) => InTime(task'[t], clock', w)
<1> DEFINE p == task[t]
           q == [p EXCEPT !.left = IF @ = 0 THEN 0 ELSE @ - 1]
<1>1. p \in Position /\ LeftBounded(p) /\ task'[t] = q
  BY DEF TypeOK, Position, BoundedInv, Tick
<1>2. q.at = p.at /\ q.releases = p.releases
  BY <1>1 DEF Position
<1>3. q.left = IF p.left = 0 THEN 0 ELSE p.left - 1
  BY <1>1 DEF Position
<1>4. p.left \in Nat /\ q.left \in Nat /\ q.left <= p.left
  BY <1>1, <1>3 DEF Position
<1>5. LeftBounded(q)
  BY <1>1, <1>2, <1>4, Durations DEF LeftBounded
<1>6. ASSUME phase # "serving", t \in Prompt, NEW w \in Nat, InTime(p, clock, w)
      PROVE  InTime(q, clock', w)
  <2>1. clock \in Nat /\ clock' = clock + 1
    BY <1>6 DEF TypeOK, Tick
  <2>2. p.at \in Timed => p.left # 0
    BY <1>6 DEF Tick, TaskDue, Prompt
  <2>3. p.at \in Timed => clock' + q.left = clock + p.left
    BY <1>3, <1>4, <2>1, <2>2
  <2> QED
    BY <1>2, <1>4, <1>6, <2>1, <2>3, Durations DEF InTime, Timed
<1> QED BY <1>1, <1>2, <1>5, <1>6

LEMMA CleanupInvInductive ==
    TypeOK /\ ClockInv /\ BoundedInv /\ CleanupInv /\ [Next]_vars => BoundedInv' /\ CleanupInv'
<1> SUFFICES ASSUME TypeOK, ClockInv, BoundedInv, CleanupInv, [Next]_vars
             PROVE  BoundedInv' /\ CleanupInv'
  OBVIOUS
<1> USE Durations
<1>1. ASSUME NEW u \in Task, TaskStep(u) PROVE BoundedInv' /\ CleanupInv'
  <2>1. PICK q \in Position : Becomes(u, q) /\ StaysInTime(task[u], q)
    BY <1>1, TaskStepInTime
  <2>2. task'[u] = q /\ \A t \in Task \ {u} : task'[t] = task[t]
    BY <2>1 DEF Becomes, TypeOK
  <2>3. UNCHANGED Lifespan
    BY <1>1, TaskStepTypes
  <2>4. BoundedInv'
    BY <2>1, <2>2 DEF BoundedInv, StaysInTime
  <2>5. task[u].at # "over" /\ clock \in Nat /\ waitUntil \in Nat
    BY <2>1 DEF StaysInTime, TypeOK
  <2>6. ASSUME phase = "quiesce", NEW t \in Prompt \ deaf, task'[t].at # "over"
        PROVE  t \in waiting /\ InTime(task'[t], clock, waitUntil)
    <3>1. CASE t = u
      BY <2>1, <2>2, <2>5, <2>6, <3>1 DEF CleanupInv, StaysInTime
    <3>2. CASE t # u
      BY <2>2, <2>6, <3>2 DEF CleanupInv, Prompt
    <3> QED BY <3>1, <3>2
  <2>7. ASSUME phase \in Afterwards, NEW t \in Prompt \ deaf PROVE task'[t].at = "over"
    BY <2>2, <2>5, <2>7 DEF CleanupInv, Prompt
  <2> QED BY <2>3, <2>4, <2>6, <2>7 DEF CleanupInv, Lifespan
<1>2. ASSUME NEW u \in Task, IngestEnds(u) PROVE BoundedInv' /\ CleanupInv'
  BY <1>2 DEF IngestEnds, Lifespan, BoundedInv, CleanupInv
<1>3. CASE BeginShutdown
  <2>1. clock = 0 /\ clock' = 0 /\ drainUntil' = DrainBudget
    BY <1>3 DEF BeginShutdown, ClockInv
  <2>2. CASE Registered = {}
    <3>1. \A t \in Task : task[t].at = "over"
      BY <2>2 DEF Registered
    <3>2. UNCHANGED <<task, deaf>> /\ phase' \in Afterwards
      BY <1>3, <2>2 DEF BeginShutdown, BeginFlush, BeginClose, Afterwards
    <3> QED BY <3>1, <3>2 DEF BoundedInv, CleanupInv, Prompt, Afterwards
  <2>3. CASE Registered # {}
    <3>1. /\ CancelAll /\ phase' = "quiesce" /\ waiting' = Registered
          /\ waitUntil' = QuiesceWait
      BY <1>3, <2>1, <2>3 DEF BeginShutdown
    <3>2. \A t \in Prompt : t \in Task /\ (task[t].at # "over" => t \in Registered)
      BY DEF Prompt, Registered
    <3> QED BY <2>1, <3>1, <3>2, CancelAllInTime DEF CleanupInv, Afterwards
  <2> QED BY <2>2, <2>3
<1>4. CASE QuiesceEnds
  <2>1. \A t \in Prompt \ deaf : task[t].at = "over"
    <3>1. SUFFICES ASSUME NEW t \in Prompt \ deaf, task[t].at # "over" PROVE FALSE
      OBVIOUS
    <3>2. t \in Task /\ task[t] \in Position /\ LeftBounded(task[t])
      BY DEF Prompt, TypeOK, Position, BoundedInv
    <3>3. t \in waiting \cap Registered /\ InTime(task[t], clock, waitUntil)
      BY <1>4, <3>1, <3>2 DEF QuiesceEnds, CleanupInv, Registered
    <3>4. clock >= waitUntil
      BY <1>4, <3>3 DEF QuiesceEnds, Settled
    <3> QED
      BY <3>1, <3>2, <3>3, <3>4 DEF InTime, TypeOK, Position, Timed, LeftBounded
  <2>2. UNCHANGED <<task, deaf>> /\ phase' \in Afterwards
    BY <1>4 DEF QuiesceEnds, BeginFlush, BeginClose, Afterwards
  <2> QED BY <2>1, <2>2 DEF BoundedInv, CleanupInv, Afterwards
<1>5. ASSUME UNCHANGED <<task, deaf>>, phase \in Afterwards, phase' \in Afterwards
      PROVE  BoundedInv' /\ CleanupInv'
  BY <1>5 DEF BoundedInv, CleanupInv, Afterwards
<1>6. CASE FlushEnds \/ AgainEnds \/ Unsubscribed \/ Close
  BY <1>5, <1>6 DEF FlushEnds, AgainEnds, Unsubscribed, Close, BeginClose, Afterwards
<1>7. CASE DrainTimesOut
  <2>1. \A t \in Prompt \ deaf : task[t].at = "over"
    <3>1. CASE phase = "flush"
      BY <3>1 DEF CleanupInv, Afterwards
    <3>2. CASE phase = "quiesce"
      <4>1. SUFFICES ASSUME NEW t \in Prompt \ deaf, task[t].at # "over" PROVE FALSE
        OBVIOUS
      <4>2. t \in Task /\ task[t] \in Position /\ LeftBounded(task[t])
        BY DEF Prompt, TypeOK, Position, BoundedInv
      <4>3. InTime(task[t], clock, waitUntil) /\ clock >= waitUntil
        BY <1>7, <3>2, <4>1, <4>2 DEF DrainTimesOut, CleanupInv, TypeOK
      <4> QED
        BY <4>1, <4>2, <4>3 DEF InTime, TypeOK, Position, Timed, LeftBounded
    <3> QED BY <1>7, <3>1, <3>2 DEF DrainTimesOut, Draining
  <2>2. CancelAll /\ phase' \in Afterwards
    BY <1>7 DEF DrainTimesOut, BeginClose, Afterwards
  <2>3. \A t \in Prompt \ deaf' : task'[t].at = "over"
    BY <2>1, <2>2, CancelAllInTime DEF Prompt
  <2> QED BY <2>2, <2>3, CancelAllInTime DEF CleanupInv, Afterwards
<1>8. CASE Tick
  <2>1. BoundedInv'
    BY <1>8, TickInTime DEF BoundedInv
  <2>2. UNCHANGED <<phase, waitUntil, drainUntil, waiting, deaf>>
    BY <1>8 DEF Tick
  <2>3. ASSUME phase = "quiesce", NEW t \in Prompt \ deaf, task'[t].at # "over"
        PROVE  t \in waiting /\ InTime(task'[t], clock', waitUntil)
    <3>1. t \in Task /\ waitUntil \in Nat
      BY DEF Prompt, TypeOK
    <3>2. task[t].at # "over"
      BY <1>8, <2>3, <3>1, TickInTime
    <3>3. t \in waiting /\ InTime(task[t], clock, waitUntil)
      BY <2>3, <3>2 DEF CleanupInv
    <3> QED BY <1>8, <2>3, <3>1, <3>3, TickInTime
  <2>4. ASSUME phase \in Afterwards, NEW t \in Prompt \ deaf PROVE task'[t].at = "over"
    BY <1>8, <2>4, TickInTime DEF CleanupInv, Prompt
  <2> QED BY <2>1, <2>2, <2>3, <2>4 DEF CleanupInv
<1>9. CASE UNCHANGED vars
  BY <1>9 DEF vars, BoundedInv, CleanupInv
<1> QED
  BY <1>1, <1>2, <1>3, <1>4, <1>6, <1>7, <1>8, <1>9 DEF Next, LifespanStep, ShutdownStep

IInv == TypeOK /\ ClockInv /\ BoundedInv /\ CleanupInv

LEMMA Inductive == Spec => []IInv
<1>1. Init => IInv
  BY InitTypeOK
  DEF Init, IInv, ClockInv, BoundedInv, LeftBounded, CleanupInv, Draining, Afterwards
<1>2. IInv /\ [Next]_vars => IInv'
  BY TypeOKInductive, ClockInvInductive, CleanupInvInductive DEF IInv
<1> QED BY <1>1, <1>2, PTL DEF Spec

(***************************************************************************)
(* "The default must cover a task's own worst-case cleanup time": with the *)
(* constants as the comments want them, every task whose saves are         *)
(* answered, and whose research does not go on in spite of the             *)
(* cancellation, is over when lifespan stops waiting for it.               *)
(***************************************************************************)
THEOREM CleanupsComplete == Spec => []CleanupCompletes
<1>1. IInv => CleanupCompletes
  BY DEF IInv, CleanupInv, CleanupCompletes, Afterwards, Prompt
<1> QED BY <1>1, Inductive, PTL

(***************************************************************************)
(* Cancelling and awaiting the tasks first makes the snapshot of pending   *)
(* ingests complete: no such task adds one later.                          *)
(***************************************************************************)
THEOREM SnapshotComplete == Spec => SnapshotIsComplete
<1> DEFINE Complete ==
      phase \notin {"serving", "quiesce"} =>
          \A t \in Task \ (Slow \cup deaf) :
              ingest'[t] = "pending" => ingest[t] = "pending"
<1>1. IInv /\ [Next]_vars => [Complete]_vars
  <2>1. SUFFICES ASSUME IInv, Next, phase \notin {"serving", "quiesce"},
                        NEW t \in Prompt \ deaf, ingest'[t] = "pending"
                 PROVE  ingest[t] = "pending"
    BY DEF Prompt
  <2>2. t \in Task /\ task[t].at = "over" /\ ingest \in [Task -> {"none", "pending", "done"}]
    BY <2>1 DEF IInv, CleanupInv, TypeOK, Afterwards, Draining, Prompt
  <2>3. ASSUME NEW u \in Task, TaskStep(u) PROVE ingest'[t] = ingest[t]
    <3>1. CASE ResultSaved(u)
      BY <2>2, <3>1 DEF ResultSaved, TaskAt
    <3>2. CASE ~ResultSaved(u)
      BY <2>3, <3>2 DEF TaskStep, CleanupStep, ResearchEnds, SaveFails, Unwound, IngestAwaited, ReleaseStep
    <3> QED BY <3>1, <3>2
  <2>4. ASSUME NEW u \in Task, IngestEnds(u), ingest'[t] = "pending"
        PROVE  ingest[t] = "pending"
    BY <2>2, <2>4 DEF IngestEnds
  <2>5. CASE LifespanStep \/ Tick
    BY <2>1, <2>5 DEF LifespanStep, ShutdownStep, BeginShutdown, QuiesceEnds, FlushEnds,
                      DrainTimesOut, AgainEnds, Unsubscribed, Close, Tick
  <2> QED BY <2>1, <2>3, <2>4, <2>5 DEF Next
<1> QED BY <1>1, Inductive, PTL DEF Spec, SnapshotIsComplete

-----------------------------------------------------------------------------
(***************************************************************************)
(* The log exporter.                                                       *)
(***************************************************************************)
Holding == {"send", "sent", "failed", "done"}

\* What the queue's own counter says of the worker.
UnfinishedInv ==
    unfinished = queued + (IF worker \in Holding THEN 1 ELSE 0)

\* Every accepted or put event is somewhere; one that is put and not yet
\* counted has not been delivered, since the worker counts under emit's lock.
ConservedInv ==
    /\ Delivered + queued + InHand = stats.accepted + uncounted
    /\ uncounted = 1 => queued + InHand >= 1

\* After the stop nothing comes in, and only then does the worker end.
StopInv ==
    /\ Stopped => uncounted = 0
    /\ worker \in {"drain", "ended"} => Stopped
    /\ worker = "ended" => queued = 0
    /\ flushed = "all" => Stopped /\ unfinished = 0

ExporterInv ==
    /\ ExporterTypeOK
    /\ UnfinishedInv
    /\ ConservedInv
    /\ StopInv

LEMMA ExporterInitInv == ExporterInit => ExporterInv
  BY ExporterAssumption
  DEF ExporterAssumption, ExporterInit, ExporterInv, ExporterTypeOK, UnfinishedInv, Holding,
      ConservedInv, Delivered, InHand, StopInv, Stopped

\* What emit does, for an event of a request or the last one.
LEMMA EmitKeeps ==
  ASSUME ExporterInv, Emit, flushed' = flushed,
         lifespan' = lifespan \/ (lifespan = "up" /\ lifespan' = "flushing")
  PROVE  ExporterInv'
<1> USE ExporterAssumption DEF ExporterAssumption, ExporterInv, ExporterTypeOK, UnfinishedInv,
        Holding, ConservedInv, Delivered, InHand, StopInv, Stopped
<1>1. CASE Stopped
  BY <1>1 DEF Emit
<1>2. CASE ~Stopped /\ Put /\ worker' = IF worker = "none" THEN "check" ELSE worker
  <2>1. CASE queued < Capacity
    BY <1>2, <2>1 DEF Emit, Put
  <2>2. CASE ~(queued < Capacity)
    BY <1>2, <2>2 DEF Emit, Put, Counted
  <2> QED BY <2>1, <2>2
<1>3. CASE ~Stopped /\ Counted("dropped") /\ UNCHANGED <<queued, unfinished, worker, uncounted>>
  BY <1>3 DEF Counted
<1> QED BY <1>1, <1>2, <1>3 DEF Emit

LEMMA WorkerKeeps == ASSUME ExporterInv, WorkerStep PROVE ExporterInv'
<1> USE ExporterAssumption DEF ExporterAssumption, ExporterInv, ExporterTypeOK, UnfinishedInv,
        Holding, ConservedInv, Delivered, InHand, StopInv, Stopped, WorkerAt, WorkerOnly
<1>1. CASE CheckStopped
  BY <1>1 DEF CheckStopped
<1>2. CASE CheckEmpty
  BY <1>2 DEF CheckEmpty
<1>3. CASE Get
  <2>1. CASE queued = 0
    BY <1>3, <2>1 DEF Get
  <2>2. CASE queued # 0
    BY <1>3, <2>2 DEF Get
  <2> QED BY <2>1, <2>2
<1>4. CASE Send
  BY <1>4 DEF Send
<1>5. CASE Count
  <2>1. CASE worker = "sent"
    BY <1>5, <2>1 DEF Count, Counted
  <2>2. CASE worker = "failed"
    BY <1>5, <2>2 DEF Count, Counted
  <2> QED BY <1>5, <2>1, <2>2 DEF Count
<1>6. CASE TaskDone
  BY <1>6 DEF TaskDone
<1> QED BY <1>1, <1>2, <1>3, <1>4, <1>5, <1>6 DEF WorkerStep

LEMMA ExporterNextInv == ExporterInv /\ [ExporterNext]_exporterVars => ExporterInv'
<1> SUFFICES ASSUME ExporterInv, [ExporterNext]_exporterVars PROVE ExporterInv'
  OBVIOUS
<1>1. CASE EmitEvent
  <2>1. Emit /\ flushed' = flushed /\ lifespan' = lifespan
    BY <1>1 DEF EmitEvent
  <2> QED BY <2>1, EmitKeeps
<1>2. CASE LastEvent
  BY <1>2, EmitKeeps DEF LastEvent
<1>3. CASE WorkerStep
  BY <1>3, WorkerKeeps
<1> USE DEF ExporterInv, ExporterTypeOK, UnfinishedInv, Holding, ConservedInv, Delivered, InHand,
        StopInv, Stopped
<1>4. CASE EmitTooLong
  BY <1>4 DEF EmitTooLong, Counted
<1>5. CASE EmitReturns
  BY <1>5 DEF EmitReturns, Counted
<1>6. CASE FlushAndStop(TRUE)
  BY <1>6 DEF FlushAndStop
<1>7. CASE Exit
  BY <1>7 DEF Exit
<1>8. CASE UNCHANGED exporterVars
  BY <1>8 DEF exporterVars
<1> QED
  BY <1>1, <1>2, <1>3, <1>4, <1>5, <1>6, <1>7, <1>8 DEF ExporterNext

LEMMA ExporterInvariant == ExporterSpec => []ExporterInv
<1>1. ExporterInit => ExporterInv
  BY ExporterInitInv
<1>2. ExporterInv /\ [ExporterNext]_exporterVars => ExporterInv'
  BY ExporterNextInv
<1> QED BY <1>1, <1>2, PTL DEF ExporterSpec

(***************************************************************************)
(* The queue stays within its capacity; its count of unfinished events     *)
(* never goes below zero, which would raise in the worker's task_done.     *)
(***************************************************************************)
THEOREM ExporterTypeCorrect == ExporterSpec => []ExporterTypeOK
<1>1. ExporterInv => ExporterTypeOK
  BY DEF ExporterInv
<1> QED BY <1>1, ExporterInvariant, PTL

(***************************************************************************)
(* No accepted event is lost or counted twice, whatever is emitted while   *)
(* the worker sends, counts, fails or is stopped.                          *)
(***************************************************************************)
THEOREM EventsConserved == ExporterSpec => []Conserved
<1>1. ExporterInv => Conserved
  BY DEF ExporterInv, ExporterTypeOK, ConservedInv, Conserved, Delivered, InHand
<1> QED BY <1>1, ExporterInvariant, PTL

(***************************************************************************)
(* A flush that answers TRUE leaves nothing behind, then and later.        *)
(***************************************************************************)
THEOREM FlushDelivers == ExporterSpec => []FlushedIsDelivered
<1>1. ExporterInv => FlushedIsDelivered
  BY DEF ExporterInv, ExporterTypeOK, UnfinishedInv, Holding, ConservedInv, StopInv, Stopped,
         FlushedIsDelivered, Delivered, InHand
<1> QED BY <1>1, ExporterInvariant, PTL

(***************************************************************************)
(* A worker that has ended left nothing in the queue.                      *)
(***************************************************************************)
THEOREM WorkerEndsEmpty == ExporterSpec => []EndedIsEmpty
<1>1. ExporterInv => EndedIsEmpty
  BY DEF ExporterInv, ExporterTypeOK, ConservedInv, StopInv, Stopped, EndedIsEmpty, Delivered, InHand
<1> QED BY <1>1, ExporterInvariant, PTL
=============================================================================
