------------------------------ MODULE Shutdown ------------------------------
(***************************************************************************)
(* The end of the service against the clock: lifespan after its yield      *)
(* (app/main.py), CancellationManager.quiesce_tasks (app/cancellation.py), *)
(* flush_pending_ingest_tasks (app/researcher_adapter.py), the last event  *)
(* of the log exporter, and what background_research_task (app/api.py)     *)
(* still does in its handlers and its finally block.                       *)
(*                                                                         *)
(* Time is discrete.  It does not pass a timer that is due: the event loop *)
(* is prompt.  The Redis client has no socket timeout: outside the bounded *)
(* waits a call of a task takes at most MaxSave, but for the tasks in Slow *)
(* any time or forever; and the unsubscribe that ends the listener, which  *)
(* no timeout of the code bounds either, is assumed to be answered within  *)
(* MaxUnsubscribe.                                                         *)
(***************************************************************************)
EXTENDS Naturals

CONSTANTS
    Task, Slow,
    GracePeriod,       \* ASSUMED_PLATFORM_GRACE_PERIOD_S
    FinalMargin,       \* SHUTDOWN_FINAL_STEPS_MARGIN_S
    DrainBudget,       \* SHUTDOWN_DRAIN_BUDGET_S
    IngestWait,        \* DEFAULT_INGEST_WAIT_TIMEOUT_S
    StepWait,          \* STATUS_LOOKUP_TIMEOUT_S
    FlushWait,         \* timeout of LokiEmitter.flush_async
    MaxSave, MaxUnsubscribe

\* Mutant: the releases and saves are forgotten.
IngestOnly == IngestWait

\* The default timeout of quiesce_tasks.
QuiesceWait == IngestWait + 4 * StepWait
Deadline == GracePeriod - FinalMargin

\* What the comments at the constants ask of them.  A task makes two releases
\* after an ingest, three without one; what QuiesceWait has left is for its saves.
ASSUME TimingAssumption ==
    /\ {GracePeriod, FinalMargin, DrainBudget, FlushWait, MaxSave, MaxUnsubscribe} \subseteq Nat
    /\ {IngestWait, StepWait} \subseteq Nat \ {0}
    /\ MaxUnsubscribe + FlushWait <= FinalMargin /\ FinalMargin <= GracePeriod
    /\ QuiesceWait <= DrainBudget /\ DrainBudget <= Deadline
    /\ MaxSave < 2 * StepWait /\ 2 * MaxSave < IngestWait + StepWait
    /\ Slow \subseteq Task

VARIABLES
    clock,             \* since the shutdown began
    phase,             \* of lifespan
    waitUntil,         \* when the wait it stands in gives up
    drainUntil,        \* when the wait_for around the drain gives up
    waiting,           \* the tasks, or ingests, of the wait
    task,              \* background tasks: where, releases left, time left there
    ingest,            \* the Brain ingest of each
    deaf               \* history: tasks whose research went on after a cancellation

vars == <<clock, phase, waitUntil, drainUntil, waiting, task, ingest, deaf>>

Timed == {"saving", "unwind", "ingest", "release"}
Draining == {"quiesce", "flush"}

TypeOK ==
    /\ clock \in Nat /\ waitUntil \in Nat /\ drainUntil \in Nat
    /\ phase \in {"serving", "again", "unsubscribing", "closing", "closed"} \cup Draining
    /\ waiting \subseteq Task
    /\ task \in [Task -> [at : {"work", "over"} \cup Timed, releases : 0..3, left : Nat]]
    /\ ingest \in [Task -> {"none", "pending", "done"}]
    /\ deaf \subseteq Task

Init ==
    /\ clock = 0 /\ waitUntil = 0 /\ drainUntil = 0
    /\ phase = "serving"
    /\ waiting = {}
    /\ task = [t \in Task |-> [at |-> "work", releases |-> 0, left |-> 0]]
    /\ ingest = [t \in Task |-> "none"]
    /\ deaf = {}

-----------------------------------------------------------------------------
(***************************************************************************)
(* A background task that has begun (one that is cancelled before its      *)
(* first step runs nothing: ResearchTask).                                 *)
(***************************************************************************)
Lifespan == <<clock, phase, waitUntil, drainUntil, waiting, deaf>>

Saving == [at |-> "saving", releases |-> 0, left |-> MaxSave]
Unwinding == [at |-> "unwind", releases |-> 0, left |-> MaxSave]
AwaitingIngest == [at |-> "ingest", releases |-> 0, left |-> IngestWait]
Releasing(n) == [at |-> "release", releases |-> n, left |-> StepWait]
Over == [at |-> "over", releases |-> 0, left |-> 0]

\* A task runs while the loop does, until the process ends.
TaskAt(t, s) == task[t].at = s /\ phase # "closed"
Becomes(t, s) == task' = [task EXCEPT ![t] = s]

\* The research ends with a result, or fails.
ResearchEnds(t) ==
    /\ TaskAt(t, "work")
    /\ \E next \in {Saving, Unwinding} : Becomes(t, next)
    /\ UNCHANGED <<Lifespan, ingest>>

\* The result is durable: an ingest is scheduled if there is a Brain.
ResultSaved(t) ==
    /\ TaskAt(t, "saving")
    /\ \/ Becomes(t, AwaitingIngest) /\ ingest' = [ingest EXCEPT ![t] = "pending"]
       \/ Becomes(t, Releasing(2)) /\ UNCHANGED ingest
    /\ UNCHANGED Lifespan

SaveFails(t) ==
    /\ TaskAt(t, "saving")
    /\ Becomes(t, Unwinding)
    /\ UNCHANGED <<Lifespan, ingest>>

\* The handler has saved and reported, or raised.
Unwound(t) ==
    /\ TaskAt(t, "unwind")
    /\ Becomes(t, Releasing(3))
    /\ UNCHANGED <<Lifespan, ingest>>

\* The wait for the task's own ingest; the ingest itself is a thread.
IngestAwaited(t) ==
    /\ TaskAt(t, "ingest")
    /\ ingest[t] = "done" \/ task[t].left = 0
    /\ Becomes(t, Releasing(2))
    /\ UNCHANGED <<Lifespan, ingest>>

IngestEnds(t) ==
    /\ ingest[t] = "pending" /\ phase # "closed"
    /\ ingest' = [ingest EXCEPT ![t] = "done"]
    /\ UNCHANGED <<Lifespan, task>>

\* One _release_cancellation_safe; after the last the task unregisters.
ReleaseStep(t) ==
    /\ TaskAt(t, "release")
    /\ Becomes(t, IF task[t].releases > 1 THEN Releasing(task[t].releases - 1) ELSE Over)
    /\ UNCHANGED <<Lifespan, ingest>>

\* What follows the research.
CleanupStep(t) ==
    ResultSaved(t) \/ SaveFails(t) \/ Unwound(t) \/ IngestAwaited(t) \/ ReleaseStep(t)

TaskStep(t) == ResearchEnds(t) \/ CleanupStep(t)

-----------------------------------------------------------------------------
(***************************************************************************)
(* lifespan.                                                               *)
(***************************************************************************)
Registered == {t \in Task : task[t].at # "over"}
PendingIngests == {t \in Task : ingest[t] = "pending"}

\* How research answers a cancellation (ResearchTask has the details).  It takes
\* it; or drops it because a wait_for has its result or its synthesis is
\* interrupted, and ends with what it has; or drops it and works on: the recall
\* was answered, memory or the search budget ran out at the same time.
Answer == {"takes", "ends", "worksOn"}

\* What task.cancel() makes of a task.  A save or a handler it interrupts is left
\* for the handler, for the finally block; the waits of that block survive it.
Cancelled(t, answer) ==
    CASE task[t].at = "work" /\ answer = "takes" -> Unwinding
      [] task[t].at = "work" /\ answer = "ends" -> Saving
      [] task[t].at = "saving" -> Unwinding
      [] task[t].at = "unwind" -> Releasing(3)
      [] OTHER -> task[t]

CancelAll ==
    \E answer \in [Task -> Answer] :
        /\ task' = [t \in Task |-> Cancelled(t, answer[t])]
        /\ deaf' = deaf \cup {t \in Task : task[t].at = "work" /\ answer[t] = "worksOn"}

\* cancellation_manager.shutdown begins.
BeginClose ==
    /\ phase' = "unsubscribing"
    /\ waiting' = {}
    /\ waitUntil' = clock + MaxUnsubscribe

\* flush_pending_ingest_tasks begins: the snapshot.
BeginFlush ==
    IF PendingIngests = {}
      THEN BeginClose
      ELSE /\ phase' = "flush"
           /\ waiting' = PendingIngests
           /\ waitUntil' = clock + IngestWait

\* The drain begins: quiesce_tasks cancels what is registered and waits for it.
BeginShutdown ==
    /\ phase = "serving"
    /\ drainUntil' = DrainBudget
    /\ IF Registered = {}
         THEN BeginFlush /\ UNCHANGED <<task, deaf>>
         ELSE /\ phase' = "quiesce"
              /\ waiting' = Registered
              /\ waitUntil' = clock + QuiesceWait
              /\ CancelAll
    /\ UNCHANGED <<clock, ingest>>

Settled == waiting \cap Registered = {}

\* Mutant: cancelled, not awaited.
QuiesceAtOnce ==
    /\ phase = "quiesce"
    /\ BeginFlush
    /\ UNCHANGED <<clock, drainUntil, task, ingest, deaf>>

QuiesceEnds ==
    /\ phase = "quiesce"
    /\ Settled \/ clock >= waitUntil
    /\ BeginFlush
    /\ UNCHANGED <<clock, drainUntil, task, ingest, deaf>>

FlushEnds ==
    /\ phase = "flush"
    /\ waiting \cap PendingIngests = {} \/ clock >= waitUntil
    /\ BeginClose
    /\ UNCHANGED <<clock, drainUntil, task, ingest, deaf>>

\* Mutant: the second attempt has a time of its own.
DrainTimesOutAfresh ==
    /\ phase \in Draining /\ clock >= drainUntil
    /\ phase' = "again"
    /\ waiting' = Registered
    /\ waitUntil' = clock + QuiesceWait
    /\ CancelAll
    /\ UNCHANGED <<clock, drainUntil, ingest>>

\* wait_for gives up on the drain: quiesce_tasks again, for the time that
\* remains, or a last cancellation when none does.
DrainTimesOut ==
    /\ phase \in Draining /\ clock >= drainUntil
    /\ IF clock < Deadline /\ Registered # {}
         THEN /\ phase' = "again"
              /\ waiting' = Registered
              /\ waitUntil' = Deadline
         ELSE BeginClose
    /\ CancelAll
    /\ UNCHANGED <<clock, drainUntil, ingest>>

\* Mutant: the second attempt waits until all is settled.
AgainUntilSettled ==
    /\ phase = "again"
    /\ Settled
    /\ BeginClose
    /\ UNCHANGED <<clock, drainUntil, task, ingest, deaf>>

AgainEnds ==
    /\ phase = "again"
    /\ Settled \/ clock >= waitUntil
    /\ BeginClose
    /\ UNCHANGED <<clock, drainUntil, task, ingest, deaf>>

\* The unsubscribe is answered; the last event is emitted and its flush begins.
Unsubscribed ==
    /\ phase = "unsubscribing"
    /\ phase' = "closing"
    /\ waitUntil' = clock + FlushWait
    /\ UNCHANGED <<clock, drainUntil, waiting, task, ingest, deaf>>

\* The flush returns: the end.
Close ==
    /\ phase = "closing"
    /\ phase' = "closed"
    /\ UNCHANGED <<clock, waitUntil, drainUntil, waiting, task, ingest, deaf>>

ShutdownStep ==
    QuiesceEnds \/ FlushEnds \/ DrainTimesOut \/ AgainEnds \/ Unsubscribed \/ Close

LifespanStep == BeginShutdown \/ ShutdownStep

-----------------------------------------------------------------------------
\* What has to happen before time goes on.
TaskDue(t) ==
    /\ task[t].at \in Timed /\ task[t].left = 0
    /\ t \in Slow => task[t].at \notin {"saving", "unwind"}

LifespanDue ==
    \/ phase \in Draining \cup {"again", "unsubscribing", "closing"} /\ clock >= waitUntil
    \/ phase \in Draining /\ clock >= drainUntil

Tick ==
    /\ phase # "closed"
    /\ ~LifespanDue
    /\ \A t \in Task : ~TaskDue(t)
    /\ clock' = IF phase = "serving" THEN 0 ELSE clock + 1
    /\ task' = [t \in Task |-> [task[t] EXCEPT !.left = IF @ = 0 THEN 0 ELSE @ - 1]]
    /\ UNCHANGED <<phase, waitUntil, drainUntil, waiting, ingest, deaf>>

Next ==
    \/ \E t \in Task : TaskStep(t) \/ IngestEnds(t)
    \/ LifespanStep
    \/ Tick

Spec == Init /\ [][Next]_vars

\* Time passes, timers fire, the event loop runs what follows the research of
\* tasks that are not slow.  When the platform stops the service is its own
\* affair, when research ends is the researcher's, when an ingest does, Brain's.
FairSpec ==
    /\ Spec
    /\ WF_vars(Tick)
    /\ WF_vars(ShutdownStep)
    /\ \A t \in Task \ Slow : WF_vars(CleanupStep(t))
    /\ \A t \in Slow : WF_vars(IngestAwaited(t) \/ ReleaseStep(t))

-----------------------------------------------------------------------------
(***************************************************************************)
(* "Anchoring every subsequent wait to the single deadline keeps the total *)
(* bounded": whatever the tasks and ingests do, the service ends before    *)
(* the platform kills it.                                                  *)
(***************************************************************************)
WithinGrace == clock <= GracePeriod

(***************************************************************************)
(* "The default must cover a task's own worst-case cleanup time": when     *)
(* lifespan goes on to close, every task whose saves are answered has run  *)
(* its cleanup to the end, wherever the shutdown found it: in its saves,   *)
(* handlers or releases, or in its research, if that took the cancellation *)
(* or had ended when it dropped it.  The code does not bound the others:   *)
(* research that works on has its own limit, and a synthesis 30 seconds.   *)
(***************************************************************************)
CleanupCompletes ==
    phase \in {"flush", "again", "unsubscribing", "closing", "closed"} =>
        \A t \in Task \ (Slow \cup deaf) : task[t].at = "over"

(***************************************************************************)
(* "Cancelling and awaiting the active tasks first makes that snapshot     *)
(* complete": no such task schedules an ingest after the pending ingests   *)
(* have been collected, one that dropped the cancellation and has a result *)
(* to save included.                                                       *)
(***************************************************************************)
SnapshotIsComplete ==
    [][phase \notin {"serving", "quiesce"} =>
          \A t \in Task \ (Slow \cup deaf) :
              ingest'[t] = "pending" => ingest[t] = "pending"]_vars

(***************************************************************************)
(* The shutdown ends, whatever tasks and ingests hang.                     *)
(***************************************************************************)
ShutdownEnds == phase = "quiesce" ~> phase = "closed"
=============================================================================
