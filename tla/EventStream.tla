---------------------------- MODULE EventStream ----------------------------
(***************************************************************************)
(* Progress events of one operation and the clients that stream them:      *)
(* the reports of start_research and background_research_task (app/api.py, *)
(* app/progress_adapter.py), the Redis stream behind them                  *)
(* (app/storage.py) and event_generator, one per open SSE connection.      *)
(*                                                                         *)
(* An event is its stage.  published lists all that were ever added; first *)
(* is the oldest one still held.  The id a client gets is the place after  *)
(* base: 0 in Redis, whose ids never start over, while the in-memory list  *)
(* is begun anew once it was evicted.  The stream outlives the 24 hours of *)
(* an idempotency key, after which the same operation may be admitted and  *)
(* run again.                                                              *)
(***************************************************************************)
EXTENDS Integers, Sequences, FiniteSetsExt

CONSTANTS
    Client,       \* open event streams
    MaxLen,       \* the cap of XADD
    GraceReads,   \* reads in the grace period: 0.5 s, one each 0.1 s
    MaxEvents,    \* bound: events published by the work itself
    MaxRuns,      \* bound: admissions of the operation
    MaxFaults     \* bound: calls that raise, leases lost by live workers

ASSUME StreamAssumption ==
    /\ MaxLen \in Nat \ {0}
    /\ GraceReads \in Nat
    /\ {MaxEvents, MaxFaults} \subseteq Nat
    /\ MaxRuns \in Nat \ {0}

\* "completed" stands for the status of any result.
TerminalStatus == {"completed", "failed", "cancelled"}
LiveStatus == {"queued", "running"}
Status == LiveStatus \cup TerminalStatus \cup {"gone"}
Stage == {"planning", "searching"} \cup TerminalStatus

VARIABLES
    memory,       \* the backend is InMemoryStorage, not Redis
    status,       \* the stored status of the operation
    worker,       \* where its admission or its task is
    published, first, base,
    client,       \* per stream, its generator
    stored,       \* history: the terminal statuses stored so far
    before,       \* history: events published before the status became terminal
    events, runs, faults

record == <<memory, status, stored, before>>
stream == <<published, first, base>>
vars == <<record, stream, worker, client, events, runs, faults>>

\* What a worker that stored its terminal status has left to say.
Says == [announcing |-> "completed", closingCancelled |-> "cancelled", closingFailed |-> "failed"]

Worker == {"admitted", "created", "started", "working", "cancelling", "failing", "ended",
           "neverRan"} \cup DOMAIN Says

Generator == [at : {"read", "lookup", "grace", "closed", "broken"},
              sent : Seq(1..Len(published)),       \* events, in the order sent
              cursor : Nat,                        \* the id of the last of them
              sawTerminal : BOOLEAN,
              waits : 0..GraceReads,
              due : 0..Len(published),             \* history: before, when it saw the status
              missed : BOOLEAN]                    \* history: a read failed, or the list
                                                   \* that its cursor is of was evicted

TypeOK ==
    /\ memory \in BOOLEAN
    /\ status \in Status
    /\ worker \in Worker
    /\ published \in Seq(Stage)
    /\ first \in 1..(Len(published) + 1)
    /\ base \in Nat /\ base < first
    /\ client \in [Client -> Generator]
    /\ stored \subseteq TerminalStatus
    /\ before \in 0..Len(published)
    /\ events \in 0..MaxEvents
    /\ runs \in 1..MaxRuns
    /\ faults \in 0..MaxFaults

\* A stream is refused before the record exists.
Init ==
    /\ memory \in BOOLEAN
    /\ status = "queued" /\ stored = {} /\ before = 0
    /\ worker = "admitted"
    /\ published = <<>> /\ first = 1 /\ base = 0
    /\ client = [c \in Client |-> [at |-> "read", sent |-> <<>>, cursor |-> 0,
                                   sawTerminal |-> FALSE, waits |-> 0, due |-> 0,
                                   missed |-> FALSE]]
    /\ events = 0 /\ runs = 1 /\ faults = 0

-----------------------------------------------------------------------------
\* XADD with a maxlen, which redis-py sends as "~": at least MaxLen stay.  The
\* in-memory list is not trimmed.
Publish(stage) ==
    /\ published' = Append(published, stage)
    /\ IF memory THEN UNCHANGED first
       ELSE first' \in first..Max({first, Len(published') + 1 - MaxLen})
    /\ UNCHANGED base

Save(new) ==
    /\ status' = new
    /\ stored' = stored \cup ({new} \cap TerminalStatus)
    /\ before' = IF new \in TerminalStatus THEN Len(published) ELSE before
    /\ UNCHANGED memory

Faulty == ~memory /\ faults < MaxFaults /\ faults' = faults + 1
NoFault == UNCHANGED faults

\* A report or a save of the task: done, or it raises, done or not.
Report(stage, next, caught) ==
    /\ \/ Publish(stage) /\ worker' = next /\ NoFault
       \/ (Publish(stage) \/ UNCHANGED stream) /\ worker' = caught /\ Faulty
    /\ UNCHANGED record

Store(new, next, caught) ==
    /\ \/ Save(new) /\ worker' = next /\ NoFault
       \/ (Save(new) \/ UNCHANGED record) /\ worker' = caught /\ Faulty
    /\ UNCHANGED stream

BestEffort(stage, next) == Report(stage, next, next)

(***************************************************************************)
(* The writer: admission's report, then the task.  Its terminal status is  *)
(* saved first and announced second.                                       *)
(***************************************************************************)
ReportQueued == worker = "admitted" /\ BestEffort("planning", "created")

SaveRunning == worker = "created" /\ Store("running", "started", "failing")

ReportStarted == worker = "started" /\ Report("planning", "working", "failing")

ReportWork ==
    /\ worker = "working" /\ events < MaxEvents
    /\ Report("searching", "working", "failing")

WorkFails ==
    /\ worker = "working" /\ worker' = "failing"
    /\ UNCHANGED <<record, stream, faults>>

\* Mutant: announced before the save, which is never made.
AnnounceUnsaved ==
    worker = "working" /\ BestEffort("completed", "ended")

SaveResult ==
    worker = "working" /\ Store("completed", "announcing", "failing")

SaveHandler ==
    \/ worker = "cancelling" /\ Store("cancelled", "closingCancelled", "ended")
    \/ worker = "failing" /\ Store("failed", "closingFailed", "ended")

\* Of the result, or of what a handler saved.
Announce == worker \in DOMAIN Says /\ BestEffort(Says[worker], "ended")

\* A cancellation lands on the await; the call it interrupts was done or not.
\* A handler that it interrupts announces nothing.
Interrupted ==
    \/ worker = "created" /\ Save("running") /\ UNCHANGED stream
    \/ worker = "started" /\ Publish("planning") /\ UNCHANGED record
    \/ worker = "working" /\ Save("completed") /\ UNCHANGED stream
    \/ worker = "cancelling" /\ Save("cancelled") /\ UNCHANGED stream
    \/ worker = "failing" /\ Save("failed") /\ UNCHANGED stream
    \/ worker \in DOMAIN Says /\ Publish(Says[worker]) /\ UNCHANGED record

Cancel ==
    /\ worker \notin {"admitted", "ended", "neverRan"}
    /\ Interrupted \/ UNCHANGED <<record, stream>>
    /\ worker' = IF worker \in {"cancelling", "failing", "closingCancelled", "closingFailed"}
                   THEN "ended" ELSE "cancelling"
    /\ NoFault

\* It dies, never runs, or lost its lease and leaves without a word.  In memory
\* only the second, and the ownership it was admitted with then stays for good.
Stops ==
    /\ IF memory THEN worker = "created" /\ worker' = "neverRan"
       ELSE worker # "ended" /\ worker' = "ended"
    /\ UNCHANGED <<record, stream, faults>>

\* The scan (of another instance, or of this one) publishes nothing.
Reap ==
    /\ status \in LiveStatus /\ worker # "neverRan"
    /\ IF worker = "ended" THEN NoFault ELSE Faulty
    /\ Save("failed")
    /\ UNCHANGED <<stream, worker>>

\* A day later (or pushed out by a bound) the key and the claim are gone; the
\* stream is not.
Readmit ==
    /\ worker = "ended" /\ status \in TerminalStatus \cup {"gone"}
    /\ runs < MaxRuns /\ runs' = runs + 1
    /\ Save("queued") /\ worker' = "admitted"
    /\ UNCHANGED <<stream, client, events, faults>>

\* The in-memory backend evicts a finished operation and its events, possibly
\* before the last of them is reported: that one begins a new list, and a client
\* goes on with the cursor it has.
Evict ==
    /\ memory /\ status \in TerminalStatus
    /\ status' = "gone"
    /\ first' = Len(published) + 1
    /\ base' = Len(published)
    /\ client' = [c \in Client |->
                    [client[c] EXCEPT !.missed = client[c].missed \/ client[c].cursor # 0]]
    /\ UNCHANGED <<memory, stored, before, published, worker, events, runs, faults>>

\* What the task does when nobody interferes.
Work ==
    /\ ReportQueued \/ SaveRunning \/ ReportStarted \/ WorkFails \/ SaveResult
       \/ SaveHandler \/ Announce
    /\ UNCHANGED <<client, events, runs>>

Abandoned == worker = "ended" /\ Reap /\ UNCHANGED <<client, events, runs>>

Write ==
    \/ Work
    \/ ReportWork /\ events' = events + 1 /\ UNCHANGED <<client, runs>>
    \/ (Cancel \/ Stops \/ Reap) /\ UNCHANGED <<client, events, runs>>
    \/ Readmit
    \/ Evict

-----------------------------------------------------------------------------
(***************************************************************************)
(* event_generator: read what follows the cursor, look the status up,      *)
(* sleep; once it is terminal, wait a bounded time for the terminal event, *)
(* flush and close.  The cursor is the last id sent.                       *)
(***************************************************************************)
\* How far the cursor is past, of what is listed now.
Past(g) == base + g.cursor

\* Mutant: XRANGE from the cursor on, instead of after it.
AfterInclusive(g) ==
    LET from == Max({first, Past(g)}) IN
    [n \in 1..(Len(published) + 1 - from) |-> from + n - 1]

After(g) ==
    LET from == Max({first, Past(g) + 1}) IN
    [n \in 1..(Len(published) + 1 - from) |-> from + n - 1]

\* get_progress_events_after answers nothing when the call raises.
Receive(c, ids, missed, at, waits) ==
    LET g == client[c] IN
    client' = [client EXCEPT ![c] = [g EXCEPT
        !.at = at,
        !.sent = g.sent \o ids,
        !.cursor = IF ids = <<>> THEN g.cursor ELSE ids[Len(ids)] - base,
        !.sawTerminal = g.sawTerminal \/ \E n \in DOMAIN ids : published[ids[n]] \in TerminalStatus,
        !.waits = waits,
        !.missed = g.missed \/ missed]]

Fetch(c, at, waits) ==
    \/ Receive(c, After(client[c]), FALSE, at, waits) /\ NoFault
    \/ Receive(c, <<>>, TRUE, at, waits) /\ Faulty

Read(c) ==
    /\ client[c].at = "read"
    /\ Fetch(c, "lookup", 0)

LookUpAs(c, at) ==
    client' = [client EXCEPT ![c].at = IF status \in TerminalStatus THEN at ELSE "read",
                             ![c].due = IF status \in TerminalStatus THEN before ELSE @]

\* Mutant: a terminal status closes the stream.
LookupCloses(c) == client[c].at = "lookup" /\ LookUpAs(c, "closed") /\ NoFault

Lookup(c) ==
    /\ client[c].at = "lookup"
    /\ \/ LookUpAs(c, "grace") /\ NoFault
       \/ client' = [client EXCEPT ![c].at = "broken"] /\ Faulty

Waits(g) == ~g.sawTerminal /\ g.waits < GraceReads

\* Mutant: the time waited is not added up.
GraceReadUncounted(c) ==
    /\ client[c].at = "grace" /\ Waits(client[c])
    /\ Fetch(c, "grace", client[c].waits)

GraceRead(c) ==
    /\ client[c].at = "grace" /\ Waits(client[c])
    /\ Fetch(c, "grace", client[c].waits + 1)

Flush(c) ==
    /\ client[c].at = "grace" /\ ~Waits(client[c])
    /\ Fetch(c, "closed", client[c].waits)

Generate(c) ==
    /\ Read(c) \/ Lookup(c) \/ GraceRead(c) \/ Flush(c)
    /\ UNCHANGED <<record, stream, worker, events, runs>>

-----------------------------------------------------------------------------
Next == Write \/ \E c \in Client : Generate(c)

Spec == Init /\ [][Next]_vars

\* The awaits of the task are bounded, the scan takes what it leaves behind,
\* and the generator of an open connection runs on.
Fairness ==
    /\ WF_vars(Work)
    /\ WF_vars(Abandoned)
    /\ \A c \in Client : WF_vars(Generate(c))

FairSpec == Spec /\ Fairness

-----------------------------------------------------------------------------
(***************************************************************************)
(* "A crash before the progress event cannot let an SSE consumer observe a *)
(* terminal announcement for a result that was never stored": whatever     *)
(* terminal stage a client was sent, that status had been stored.          *)
(***************************************************************************)
AnnouncedWasStored ==
    \A c \in Client : \A n \in DOMAIN client[c].sent :
        published[client[c].sent[n]] \in TerminalStatus => published[client[c].sent[n]] \in stored

(***************************************************************************)
(* Every client is sent each event at most once and in the order of their  *)
(* publication, across trims of the stream and the three places that read. *)
(***************************************************************************)
EachOnceInOrder ==
    \A c \in Client : \A n \in 2..Len(client[c].sent) :
        client[c].sent[n-1] < client[c].sent[n]

(***************************************************************************)
(* A stream that closed after reads that all answered was sent every event *)
(* still held that was published before the terminal status it closed on.  *)
(***************************************************************************)
ClosedIsComplete ==
    \A c \in Client : client[c].at = "closed" /\ ~client[c].missed =>
        \A id \in first..client[c].due : \E n \in DOMAIN client[c].sent : client[c].sent[n] = id

(***************************************************************************)
(* Every stream closes, whether or not a terminal event was ever published *)
(* (the scan publishes none, a failing report is dropped), but for one     *)
(* whose operation was evicted before it looked, and one that waits for a  *)
(* task that, in memory, was cancelled before its first step.              *)
(***************************************************************************)
StreamsClose ==
    \A c \in Client :
        <>(client[c].at \in {"closed", "broken"} \/ status = "gone" \/ worker = "neverRan")
=============================================================================
