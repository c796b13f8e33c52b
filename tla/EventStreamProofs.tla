------------------------- MODULE EventStreamProofs -------------------------
(***************************************************************************)
(* What a client of the event stream is sent, for any number of clients,   *)
(* events, runs and faults, any cap of the stream and any grace period.    *)
(***************************************************************************)
EXTENDS EventStream, SequenceTheorems, TLAPS

\* What was published as terminal, and the status itself, had been stored.
StoredInv ==
    /\ \A id \in 1..Len(published) : published[id] \in TerminalStatus => published[id] \in stored
    /\ status \in TerminalStatus => status \in stored
    /\ worker \in DOMAIN Says => Says[worker] \in stored

Ordered(s) == \A m, n \in 1..Len(s) : m < n => s[m] < s[n]
Sent(id, s) == \E n \in 1..Len(s) : s[n] = id

\* The cursor is past all that was sent, of this list and of those before it.
Behind(g) == \A n \in 1..Len(g.sent) : g.sent[n] <= Past(g)

\* A generator that missed nothing has sent all that is held up to its cursor;
\* its last read reached the end, which is not before what was due.
Gapless(g) ==
    \/ g.missed
    \/ /\ Past(g) <= Len(published)
       /\ \A id \in first..Past(g) : Sent(id, g.sent)

AllDue(g) ==
    g.at = "closed" => g.missed \/ \A id \in first..g.due : Sent(id, g.sent)

ClientInv ==
    \A c \in Client : /\ Ordered(client[c].sent)
                      /\ Behind(client[c])
                      /\ Gapless(client[c])
                      /\ AllDue(client[c])

IInv == TypeOK /\ StoredInv /\ ClientInv

LEMMA Plus ==
    ASSUME NEW m \in Nat, NEW n \in Nat
    PROVE  m + n \in Nat /\ m <= m + n /\ (n = 0 => m + n = m)
OBVIOUS

LEMMA SaysTerminal ==
    /\ DOMAIN Says = {"announcing", "closingCancelled", "closingFailed"}
    /\ Says["announcing"] = "completed"
    /\ Says["closingCancelled"] = "cancelled"
    /\ Says["closingFailed"] = "failed"
BY DEF Says

-----------------------------------------------------------------------------
(***************************************************************************)
(* The writer.                                                             *)
(***************************************************************************)
Grows ==
    /\ published' \in Seq(Stage)
    /\ Len(published) <= Len(published')
    /\ \A id \in 1..Len(published') :
          \/ id <= Len(published) /\ published'[id] = published[id]
          \/ published'[id] \in TerminalStatus => published'[id] \in stored
    /\ first' \in first..(Len(published') + 1)
    /\ base' \in Nat /\ base' < first'

Records ==
    /\ memory' \in BOOLEAN
    /\ status' \in Status
    /\ stored \subseteq stored' /\ stored' \subseteq TerminalStatus
    /\ status' \in TerminalStatus => status' \in stored'
    /\ before' \in 0..Len(published)

Writes ==
    /\ Grows /\ Records
    /\ worker' \in Worker
    /\ worker' \in DOMAIN Says => Says[worker'] \in stored'
    /\ faults' \in 0..MaxFaults

LEMMA PublishGrows ==
    ASSUME IInv, NEW stage \in Stage, stage \in TerminalStatus => stage \in stored,
           Publish(stage)
    PROVE  Grows /\ base' = base
<1> DEFINE n == Len(published)
<1>1. /\ published \in Seq(Stage) /\ n \in Nat
      /\ first \in 1..(n + 1) /\ first \in Nat
      /\ base \in Nat /\ base < first
  BY LenProperties DEF IInv, TypeOK
<1>2. /\ published' \in Seq(Stage) /\ Len(published') = n + 1
      /\ \A id \in 1..n : published'[id] = published[id]
      /\ published'[n + 1] = stage
  BY <1>1, AppendProperties DEF Publish
<1>3. MaxLen \in Nat /\ MaxLen > 0
  BY StreamAssumption DEF StreamAssumption
<1>4. Max({first, n + 1 + 1 - MaxLen}) \in Int
      /\ Max({first, n + 1 + 1 - MaxLen}) <= n + 2
  <2>1. CASE first >= n + 1 + 1 - MaxLen
    <3>1. Max({first, n + 1 + 1 - MaxLen}) = first
      BY <1>1, <1>3, <2>1 DEF Max
    <3> QED BY <3>1, <1>1
  <2>2. CASE ~(first >= n + 1 + 1 - MaxLen)
    <3>1. Max({first, n + 1 + 1 - MaxLen}) = n + 1 + 1 - MaxLen
      BY <1>1, <1>3, <2>2 DEF Max
    <3> QED BY <3>1, <1>1, <1>3
  <2> QED BY <2>1, <2>2
<1>5. first' \in first..(n + 2)
  BY <1>1, <1>2, <1>4 DEF Publish
<1>6. ASSUME NEW id \in 1..Len(published')
      PROVE  \/ id <= n /\ published'[id] = published[id]
             \/ published'[id] \in TerminalStatus => published'[id] \in stored
  <2>1. CASE id <= n
    BY <1>1, <1>2, <2>1
  <2>2. CASE id = n + 1
    BY <1>2, <2>2
  <2> QED BY <1>1, <1>2, <2>1, <2>2
<1>7. base' = base
  BY DEF Publish
<1>8. base \in Nat /\ base < first'
  <2>1. first' \in Nat /\ first <= first'
    BY <1>1, <1>5
  <2> QED BY <1>1, <2>1
<1>9. first' \in first..(Len(published') + 1) /\ n <= Len(published')
  BY <1>1, <1>2, <1>5
<1> QED BY <1>2, <1>6, <1>7, <1>8, <1>9 DEF Grows

LEMMA StreamStays == ASSUME IInv, UNCHANGED stream PROVE Grows /\ base' = base
BY DEF IInv, TypeOK, stream, Grows

LEMMA SaveRecords ==
    ASSUME IInv, NEW new \in LiveStatus \cup TerminalStatus, Save(new)
    PROVE  Records /\ status' = new /\ stored' = stored \cup ({new} \cap TerminalStatus)
<1>1. before \in 0..Len(published) /\ Len(published) \in 0..Len(published)
  <2>1. Len(published) \in Nat
    BY LenProperties DEF IInv, TypeOK
  <2> QED BY <2>1 DEF IInv, TypeOK
<1>2. status' = new /\ status' \in Status
  BY DEF Save, Status
<1>3. stored \subseteq stored' /\ stored' \subseteq TerminalStatus /\ memory' \in BOOLEAN
  BY DEF Save, IInv, TypeOK
<1> QED BY <1>1, <1>2, <1>3 DEF Save, Records

LEMMA RecordStays == ASSUME IInv, UNCHANGED record PROVE Records /\ stored' = stored
BY DEF IInv, TypeOK, StoredInv, record, Records

LEMMA FaultTypes == ASSUME IInv, NoFault \/ Faulty PROVE faults' \in 0..MaxFaults
BY StreamAssumption DEF StreamAssumption, IInv, TypeOK, NoFault, Faulty

LEMMA ReportWrites ==
    ASSUME IInv, NEW stage \in Stage, stage \in TerminalStatus => stage \in stored,
           NEW next \in Worker, NEW caught \in Worker,
           {next, caught} \cap DOMAIN Says = {},
           Report(stage, next, caught)
    PROVE  Writes /\ base' = base
BY PublishGrows, StreamStays, RecordStays, FaultTypes DEF Report, Writes

LEMMA StoreWrites ==
    ASSUME IInv, NEW new \in LiveStatus \cup TerminalStatus,
           NEW next \in Worker, NEW caught \in Worker,
           next \in DOMAIN Says => Says[next] = new /\ new \in TerminalStatus,
           caught \notin DOMAIN Says,
           Store(new, next, caught)
    PROVE  Writes /\ base' = base
BY SaveRecords, StreamStays, RecordStays, FaultTypes DEF Store, Writes

LEMMA WorkWrites == ASSUME IInv, Work PROVE Writes /\ base' = base
<1> USE SaysTerminal DEF BestEffort, Worker, Stage, TerminalStatus, LiveStatus
<1>1. CASE ReportQueued
  BY <1>1, ReportWrites DEF ReportQueued
<1>2. CASE SaveRunning
  BY <1>2, StoreWrites DEF SaveRunning
<1>3. CASE ReportStarted
  BY <1>3, ReportWrites DEF ReportStarted
<1>4. CASE WorkFails
  BY <1>4, StreamStays, RecordStays DEF WorkFails, Writes, NoFault, IInv, TypeOK
<1>5. CASE SaveResult
  BY <1>5, StoreWrites DEF SaveResult
<1>6. CASE SaveHandler
  BY <1>6, StoreWrites DEF SaveHandler
<1>7. CASE Announce
  <2>1. Says[worker] \in Stage /\ Says[worker] \in stored
    BY <1>7 DEF Announce, IInv, StoredInv
  <2> QED BY <1>7, <2>1, ReportWrites DEF Announce
<1> QED BY <1>1, <1>2, <1>3, <1>4, <1>5, <1>6, <1>7 DEF Work

LEMMA ReportWorkWrites == ASSUME IInv, ReportWork PROVE Writes /\ base' = base
BY ReportWrites, SaysTerminal DEF ReportWork, Worker, Stage, TerminalStatus

LEMMA CancelWrites == ASSUME IInv, Cancel PROVE Writes /\ base' = base
<1>1. worker' \in Worker /\ worker' \notin DOMAIN Says
  BY SaysTerminal DEF Cancel, Worker
<1>2. faults' \in 0..MaxFaults
  BY FaultTypes DEF Cancel
<1>3. Grows /\ Records /\ base' = base
  <2>1. CASE UNCHANGED <<record, stream>>
    BY <2>1, StreamStays, RecordStays
  <2>2. ASSUME NEW new \in LiveStatus \cup TerminalStatus, Save(new), UNCHANGED stream
        PROVE  Grows /\ Records /\ base' = base
    BY <2>2, SaveRecords, StreamStays
  <2>3. ASSUME NEW stage \in Stage, stage \in TerminalStatus => stage \in stored,
               Publish(stage), UNCHANGED record
        PROVE  Grows /\ Records /\ base' = base
    BY <2>3, PublishGrows, RecordStays
  <2>4. worker \in DOMAIN Says => Says[worker] \in Stage /\ Says[worker] \in stored
    BY SaysTerminal DEF IInv, StoredInv, Stage, TerminalStatus
  <2>5. CASE Interrupted
    BY <2>2, <2>3, <2>4, <2>5 DEF Interrupted, LiveStatus, TerminalStatus, Stage
  <2> QED BY <2>1, <2>5 DEF Cancel
<1> QED BY <1>1, <1>2, <1>3 DEF Writes

LEMMA StopsWrites == ASSUME IInv, Stops PROVE Writes /\ base' = base
BY StreamStays, RecordStays, SaysTerminal DEF Stops, Writes, Worker, IInv, TypeOK

LEMMA ReapWrites == ASSUME IInv, Reap PROVE Writes /\ base' = base
<1>1. Records
  BY SaveRecords DEF Reap, LiveStatus, TerminalStatus
<1>2. Grows /\ base' = base
  BY StreamStays DEF Reap
<1>3. faults' \in 0..MaxFaults
  BY FaultTypes DEF Reap
<1>4. worker' \in DOMAIN Says => Says[worker'] \in stored'
  BY <1>1 DEF Reap, Records, IInv, StoredInv
<1> QED BY <1>1, <1>2, <1>3, <1>4 DEF Reap, Writes, IInv, TypeOK

LEMMA ReadmitWrites == ASSUME IInv, Readmit PROVE Writes /\ base' = base
<1>1. Records
  BY SaveRecords DEF Readmit, LiveStatus
<1> QED BY <1>1, StreamStays, SaysTerminal DEF Readmit, Writes, Worker, IInv, TypeOK

\* The list is begun anew, and whoever has a cursor may miss something.
Restarts ==
    /\ published' = published /\ first' = Len(published) + 1 /\ base' = Len(published)
    /\ client' = [c \in Client |->
                    [client[c] EXCEPT !.missed = client[c].missed \/ client[c].cursor # 0]]

LEMMA EvictWrites == ASSUME IInv, Evict PROVE Writes /\ Restarts
<1>1. Len(published) \in Nat /\ published \in Seq(Stage) /\ first \in 1..(Len(published) + 1)
  BY LenProperties DEF IInv, TypeOK
<1>2. Grows
  BY <1>1 DEF Evict, Grows
<1>3. Records
  BY DEF Evict, Records, Status, TerminalStatus, IInv, TypeOK
<1>4. worker' \in DOMAIN Says => Says[worker'] \in stored'
  BY DEF Evict, IInv, StoredInv
<1> QED BY <1>2, <1>3, <1>4 DEF Evict, Restarts, Writes, IInv, TypeOK

\* What a write leaves of the invariant.
LEMMA WritesKeep ==
    ASSUME IInv, Writes,
           (client' = client /\ base' = base) \/ Restarts,
           events' \in 0..MaxEvents, runs' \in 1..MaxRuns
    PROVE  IInv'
<1>1. /\ published \in Seq(Stage) /\ Len(published) \in Nat
      /\ published' \in Seq(Stage) /\ Len(published') \in Nat
      /\ Len(published) <= Len(published')
      /\ first \in 1..(Len(published) + 1)
      /\ first' \in first..(Len(published') + 1)
      /\ base' \in Nat /\ base' < first'
      /\ first \in Nat /\ base \in Nat /\ base < first
  BY LenProperties DEF IInv, TypeOK, Writes, Grows
<1>2. 1..Len(published) \subseteq 1..Len(published') /\ 0..Len(published) \subseteq 0..Len(published')
  BY <1>1
<1>3. ASSUME NEW c \in Client
      PROVE  /\ client'[c] \in Generator'
             /\ client'[c].sent = client[c].sent
             /\ client'[c].cursor = client[c].cursor
             /\ client'[c].at = client[c].at
             /\ client'[c].due = client[c].due
             /\ \/ base' = base /\ client'[c].missed = client[c].missed
                \/ /\ Restarts
                   /\ client'[c].missed = (client[c].missed \/ client[c].cursor # 0)
  <2>1. client[c] \in Generator
    BY DEF IInv, TypeOK
  <2>2. client[c].sent \in Seq(1..Len(published'))
    BY <1>2, <2>1, SeqMonotonic DEF Generator
  <2>3. CASE client' = client /\ base' = base
    BY <1>2, <2>1, <2>2, <2>3 DEF Generator
  <2>4. CASE Restarts
    <3> DEFINE m == client[c].missed \/ client[c].cursor # 0
    <3>1. client'[c] = [client[c] EXCEPT !.missed = m] /\ m \in BOOLEAN
      BY <2>1, <2>4 DEF Restarts, Generator
    <3> HIDE DEF m
    <3>2. /\ client'[c] \in Generator'
          /\ client'[c].sent = client[c].sent
          /\ client'[c].cursor = client[c].cursor
          /\ client'[c].at = client[c].at
          /\ client'[c].due = client[c].due
          /\ client'[c].missed = m
      BY <1>2, <2>1, <2>2, <3>1 DEF Generator
    <3> QED BY <2>4, <3>2 DEF m
  <2> QED BY <2>3, <2>4
<1>4. TypeOK'
  <2>1. client' \in [Client -> Generator']
    <3>1. client' = [c \in Client |-> client'[c]]
      BY DEF IInv, TypeOK, Restarts
    <3> QED BY <3>1, <1>3
  <2>2. first' \in 1..(Len(published') + 1) /\ before' \in 0..Len(published')
    BY <1>1, <1>2 DEF Writes, Records
  <2>3. /\ memory' \in BOOLEAN /\ status' \in Status /\ stored' \subseteq TerminalStatus
        /\ worker' \in Worker /\ faults' \in 0..MaxFaults
    BY DEF Writes, Records
  <2> QED BY <1>1, <2>1, <2>2, <2>3 DEF TypeOK
<1>5. StoredInv'
  <2>1. ASSUME NEW id \in 1..Len(published'), published'[id] \in TerminalStatus
        PROVE  published'[id] \in stored'
    <3>1. CASE id <= Len(published) /\ published'[id] = published[id]
      <4>1. id \in 1..Len(published)
        BY <1>1, <3>1
      <4> QED BY <2>1, <3>1, <4>1 DEF IInv, StoredInv, Writes, Records
    <3>2. CASE published'[id] \in TerminalStatus => published'[id] \in stored
      BY <2>1, <3>2 DEF Writes, Records
    <3> QED BY <3>1, <3>2 DEF Writes, Grows
  <2> QED BY <2>1 DEF StoredInv, Writes, Records
<1>6. ClientInv'
  <2> SUFFICES ASSUME NEW c \in Client
               PROVE  /\ Ordered(client'[c].sent)
                      /\ Behind(client[c])'
                      /\ Gapless(client[c])'
                      /\ AllDue(client[c])'
    BY DEF ClientInv, Ordered
  <2>1. /\ Ordered(client[c].sent) /\ Behind(client[c])
        /\ Gapless(client[c]) /\ AllDue(client[c])
    BY DEF IInv, ClientInv
  <2>2. /\ client[c].sent \in Seq(1..Len(published)) /\ client[c].due \in 0..Len(published)
        /\ client[c].cursor \in Nat /\ client[c].missed \in BOOLEAN
    BY DEF IInv, TypeOK, Generator
  <2>3. \A n \in 1..Len(client[c].sent) : client[c].sent[n] \in 1..Len(published)
    BY <2>2, ElementOfSeq
  <2>4. Ordered(client'[c].sent)
    BY <1>3, <2>1 DEF Ordered
  <2>5. \A id : Sent(id, client[c].sent) => Sent(id, client[c].sent)'
    BY <1>3 DEF Sent
  <2>6. \A n : first'..n \subseteq first..n
    BY <1>1
  <2>7. AllDue(client[c])'
    BY <1>3, <2>1, <2>5, <2>6 DEF AllDue
  <2>8. CASE base' = base /\ client'[c].missed = client[c].missed
    <3>1. Past(client[c])' = Past(client[c])
      BY <1>3, <2>8 DEF Past
    <3>2. Behind(client[c])'
      BY <1>3, <2>1, <3>1 DEF Behind
    <3>3. Past(client[c]) <= Len(published) => Past(client[c]) <= Len(published')
      <4>1. base \in Nat /\ client[c].cursor \in Nat
        BY <1>1, <2>2
      <4>2. Past(client[c]) \in Nat
        BY <4>1, Plus DEF Past
      <4>3. Len(published) \in Nat /\ Len(published') \in Nat /\ Len(published) <= Len(published')
        BY <1>1
      <4> QED BY <4>2, <4>3
    <3>4. Gapless(client[c])'
      BY <2>1, <2>5, <2>6, <2>8, <3>1, <3>3 DEF Gapless
    <3> QED BY <2>4, <2>7, <3>2, <3>4
  <2>9. CASE Restarts /\ client'[c].missed = (client[c].missed \/ client[c].cursor # 0)
    <3>1. Past(client[c])' = Len(published) + client[c].cursor
      BY <1>3, <2>9 DEF Past, Restarts
    <3>0. Len(published) \in Nat /\ client[c].cursor \in Nat
      BY <1>1, <2>2
    <3>a. Past(client[c])' \in Nat /\ Len(published) <= Past(client[c])'
      BY <3>0, <3>1, Plus
    <3>b. \A n \in 1..Len(client[c].sent) : client[c].sent[n] <= Past(client[c])'
      <4>1. \A k \in 1..Len(published) : k <= Past(client[c])'
        BY <3>0, <3>a
      <4> QED BY <2>3, <4>1
    <3>2. Behind(client[c])'
      BY <1>3, <3>b DEF Behind
    <3>3. client'[c].missed \/ Past(client[c])' = Len(published)
      <4>1. client[c].cursor = 0 => Past(client[c])' = Len(published)
        BY <3>0, <3>1, Plus
      <4> QED BY <2>9, <4>1
    <3>4. Len(published') = Len(published) /\ first' = Len(published) + 1
      BY <2>9 DEF Restarts
    <3>5. \A id \in first'..Len(published) : FALSE
      BY <1>1, <3>4
    <3>6. Gapless(client[c])'
      BY <1>1, <3>3, <3>4, <3>5 DEF Gapless
    <3> QED BY <2>4, <2>7, <3>2, <3>6
  <2> QED BY <1>3, <2>8, <2>9
<1> QED BY <1>4, <1>5, <1>6 DEF IInv

-----------------------------------------------------------------------------
(***************************************************************************)
(* The generators.                                                         *)
(***************************************************************************)

\* A read answers all that is held after the cursor, or nothing: that too when
\* the cursor points past the end of a list begun anew.
LEMMA AfterCursor ==
    ASSUME IInv, NEW g \in Generator
    PROVE  \/ Past(g) > Len(published) /\ After(g) = <<>>
           \/ \E from \in 1..(Len(published) + 1) :
                 /\ Past(g) < from
                 /\ from = first \/ from = Past(g) + 1
                 /\ After(g) \in Seq(1..Len(published))
                 /\ Len(After(g)) = Len(published) + 1 - from
                 /\ \A n \in 1..Len(After(g)) : After(g)[n] = from + n - 1
<1> DEFINE from == Max({first, Past(g) + 1})
           len == Len(published) + 1 - from
<1>1. Len(published) \in Nat /\ first \in 1..(Len(published) + 1) /\ Past(g) \in Nat
  BY LenProperties DEF IInv, TypeOK, Past, Generator
<1>2. from \in Nat /\ Past(g) < from /\ from >= 1 /\ (from = first \/ from = Past(g) + 1)
  <2>1. CASE first >= Past(g) + 1
    <3>1. from = first
      BY <1>1, <2>1 DEF Max
    <3> QED BY <1>1, <2>1, <3>1
  <2>2. CASE ~(first >= Past(g) + 1)
    <3>1. from = Past(g) + 1
      BY <1>1, <2>2 DEF Max
    <3> QED BY <1>1, <2>2, <3>1
  <2> QED BY <2>1, <2>2
<1>3. After(g) = [n \in 1..len |-> from + n - 1]
  BY DEF After
<1> HIDE DEF from
<1>4. CASE from > Len(published) + 1
  <2>1. 1..len = {} /\ Past(g) > Len(published)
    BY <1>1, <1>2, <1>4
  <2>2. After(g) = <<>>
    BY <1>3, <2>1
  <2> QED BY <2>1, <2>2
<1>5. CASE ~(from > Len(published) + 1)
  <2>1. len \in Nat /\ \A n \in 1..len : from + n - 1 \in 1..Len(published)
    BY <1>1, <1>2, <1>5
  <2>2. [n \in 1..len |-> from + n - 1] \in Seq(1..Len(published))
    BY <2>1, IsASeq
  <2>3. After(g) \in Seq(1..Len(published)) /\ Len(After(g)) = len
    BY <1>3, <2>1, <2>2, LenProperties
  <2>4. from \in 1..(Len(published) + 1)
    BY <1>1, <1>2, <1>5
  <2> QED BY <1>2, <1>3, <2>1, <2>3, <2>4
<1> QED BY <1>4, <1>5

\* a ends at cursor; b is all from there, or from old, to N.
Joinable(N, old, cursor, from, a, b) ==
    /\ cursor \in Nat /\ from \in 1..(N + 1)
    /\ cursor < from /\ (from = old \/ from = cursor + 1)
    /\ a \in Seq(1..N) /\ Ordered(a)
    /\ \A n \in 1..Len(a) : a[n] <= cursor
    /\ b \in Seq(1..N) /\ Len(b) = N + 1 - from
    /\ \A n \in 1..Len(b) : b[n] = from + n - 1

LEMMA Join ==
    ASSUME NEW N \in Nat, NEW old \in Nat, NEW cursor, NEW from, NEW a, NEW b,
           Joinable(N, old, cursor, from, a, b)
    PROVE  /\ a \o b \in Seq(1..N)
           /\ Ordered(a \o b)
           /\ \A id \in old..N : (id <= cursor => Sent(id, a)) => Sent(id, a \o b)
<1> DEFINE s == a \o b
           k == Len(a)
           l == Len(b)
<1>a. /\ cursor \in Nat /\ from \in 1..(N + 1)
      /\ cursor < from /\ (from = old \/ from = cursor + 1)
      /\ \A n \in 1..k : a[n] <= cursor
      /\ l = N + 1 - from
      /\ \A n \in 1..l : b[n] = from + n - 1
      /\ a \in Seq(1..N) /\ b \in Seq(1..N) /\ Ordered(a)
  BY DEF Joinable
<1>b. k \in Nat /\ l \in Nat
  BY <1>a, LenProperties
<1>1. /\ s \in Seq(1..N) /\ Len(s) = k + l
      /\ \A n \in 1..(k + l) : s[n] = IF n <= k THEN a[n] ELSE b[n - k]
  BY <1>a, ConcatProperties
<1>c. \A m, n \in 1..k : m < n => a[m] < a[n]
  BY <1>a DEF Ordered
<1>d. \A id : Sent(id, a) => \E n \in 1..k : a[n] = id
  BY DEF Sent
<1>e. \A n \in 1..k : a[n] \in 1..N
  BY <1>a, ElementOfSeq
<1> HIDE DEF s, k, l
<1> USE <1>a, <1>b
<1>2. \A n \in 1..k : s[n] = a[n] /\ a[n] \in 1..N
  BY <1>1, <1>e
<1>3. ASSUME NEW n \in (k + 1)..(k + l)
      PROVE  s[n] = from + (n - k) - 1
  <2>1. n \in 1..(k + l) /\ ~(n <= k) /\ n - k \in 1..l
    OBVIOUS
  <2> QED BY <1>1, <2>1
<1>4. ASSUME NEW m \in 1..(k + l), NEW n \in 1..(k + l), m < n
      PROVE  s[m] < s[n]
  <2>1. CASE n <= k
    <3>1. m \in 1..k /\ n \in 1..k
      BY <1>4, <2>1
    <3>2. a[m] < a[n]
      BY <1>4, <3>1, <1>c
    <3> QED BY <1>2, <3>1, <3>2
  <2>2. CASE m <= k /\ ~(n <= k)
    <3>1. m \in 1..k /\ n \in (k + 1)..(k + l)
      BY <2>2
    <3>2. s[m] = a[m] /\ a[m] \in 1..N /\ a[m] <= cursor
      BY <1>2, <3>1
    <3>3. s[n] = from + (n - k) - 1
      BY <1>3, <3>1
    <3> QED BY <3>1, <3>2, <3>3
  <2>3. CASE ~(m <= k)
    <3>1. m \in (k + 1)..(k + l) /\ n \in (k + 1)..(k + l)
      BY <1>4, <2>3
    <3>2. s[m] = from + (m - k) - 1 /\ s[n] = from + (n - k) - 1
      BY <1>3, <3>1
    <3> QED BY <1>4, <3>2
  <2> QED BY <2>1, <2>2, <2>3
<1>5. Ordered(s)
  BY <1>1, <1>4 DEF Ordered
<1>6. ASSUME NEW id \in old..N, id <= cursor => Sent(id, a)
      PROVE  Sent(id, s)
  <2>1. CASE id <= cursor
    <3>1. PICK n \in 1..k : a[n] = id
      BY <1>6, <2>1, <1>d
    <3>2. n \in 1..(k + l) /\ s[n] = id
      BY <1>2, <3>1
    <3> QED BY <1>1, <3>2 DEF Sent
  <2>2. CASE ~(id <= cursor)
    <3>1. k + (id - from) + 1 \in (k + 1)..(k + l)
      BY <2>2
    <3>2. s[k + (id - from) + 1] = id
      BY <1>3, <3>1
    <3>3. k + (id - from) + 1 \in 1..(k + l)
      BY <3>1
    <3> QED BY <1>1, <3>2, <3>3 DEF Sent
  <2> QED BY <2>1, <2>2
<1> QED BY <1>1, <1>5, <1>6 DEF s

\* Appended to what was sent, they keep the order and leave no gap.
LEMMA Appended ==
    ASSUME IInv, NEW g \in Generator, Ordered(g.sent), Behind(g)
    PROVE  /\ g.sent \o After(g) \in Seq(1..Len(published))
           /\ Ordered(g.sent \o After(g))
           /\ Gapless(g) =>
                g.missed \/ \A id \in first..Len(published) : Sent(id, g.sent \o After(g))
<1>1. /\ g.sent \in Seq(1..Len(published)) /\ Len(g.sent) \in Nat
      /\ Len(published) \in Nat /\ first \in Nat /\ Past(g) \in Nat
  BY LenProperties DEF Generator, IInv, TypeOK, Past
<1>2. CASE Past(g) > Len(published) /\ After(g) = <<>>
  <2>1. g.sent \o After(g) = g.sent
    BY <1>1, <1>2, ConcatEmptySeq
  <2>2. ~(Past(g) <= Len(published))
    BY <1>1, <1>2
  <2> QED BY <1>1, <2>1, <2>2 DEF Gapless
<1>3. ASSUME NEW from \in 1..(Len(published) + 1),
              Past(g) < from,
              from = first \/ from = Past(g) + 1,
              After(g) \in Seq(1..Len(published)),
              Len(After(g)) = Len(published) + 1 - from,
              \A n \in 1..Len(After(g)) : After(g)[n] = from + n - 1
      PROVE  /\ g.sent \o After(g) \in Seq(1..Len(published))
             /\ Ordered(g.sent \o After(g))
             /\ Gapless(g) =>
                  g.missed \/ \A id \in first..Len(published) : Sent(id, g.sent \o After(g))
  <2>1. Joinable(Len(published), first, Past(g), from, g.sent, After(g))
    BY <1>1, <1>3 DEF Joinable, Behind
  <2>2. /\ g.sent \o After(g) \in Seq(1..Len(published))
        /\ Ordered(g.sent \o After(g))
        /\ \A id \in first..Len(published) :
              (id <= Past(g) => Sent(id, g.sent)) => Sent(id, g.sent \o After(g))
    BY <1>1, <2>1, Join
  <2>3. ASSUME \A id \in first..Past(g) : Sent(id, g.sent), NEW id \in first..Len(published)
        PROVE  Sent(id, g.sent \o After(g))
    <3>1. id <= Past(g) => id \in first..Past(g)
      BY <1>1
    <3> QED BY <2>2, <2>3, <3>1
  <2> QED BY <2>2, <2>3 DEF Gapless
<1> QED BY <1>2, <1>3, AfterCursor

\* Where the cursor is after a read: unmoved, or at the end.
Reached(g, ids) == IF ids = <<>> THEN g.cursor ELSE ids[Len(ids)] - base

LEMMA ReachedEnd ==
    ASSUME IInv, NEW g \in Generator, Behind(g), NEW ids, ids = <<>> \/ ids = After(g)
    PROVE  /\ Reached(g, ids) \in Nat
           /\ \/ ids = <<>> /\ base + Reached(g, ids) = Past(g)
              \/ ids # <<>> /\ base + Reached(g, ids) = Len(published)
<1>1. /\ Len(published) \in Nat /\ first \in 1..(Len(published) + 1) /\ base \in Nat /\ base < first
      /\ g.cursor \in Nat
  BY LenProperties DEF IInv, TypeOK, Generator
<1>2. CASE ids = <<>>
  BY <1>1, <1>2 DEF Reached, Past
<1>3. CASE ids # <<>>
  <2>1. PICK from \in 1..(Len(published) + 1) :
                 /\ After(g) \in Seq(1..Len(published))
                 /\ Len(After(g)) = Len(published) + 1 - from
                 /\ \A n \in 1..Len(After(g)) : After(g)[n] = from + n - 1
    BY <1>3, AfterCursor
  <2>2. Len(ids) \in Nat /\ Len(ids) # 0 /\ Len(ids) \in 1..Len(ids)
    BY <1>3, <2>1, LenProperties, EmptySeq
  <2>3. ids[Len(ids)] = Len(published)
    BY <1>1, <1>3, <2>1, <2>2
  <2> QED BY <1>1, <1>3, <2>3 DEF Reached
<1> QED BY <1>2, <1>3

-----------------------------------------------------------------------------
\* What a step of a generator may make of it.
GenOK(g) ==
    /\ g \in Generator
    /\ Ordered(g.sent) /\ Behind(g) /\ Gapless(g) /\ AllDue(g)

LEMMA ReceiveKeeps ==
    ASSUME IInv, NEW c \in Client, NEW at \in {"lookup", "grace", "closed"},
           NEW waits \in 0..GraceReads, Fetch(c, at, waits)
    PROVE  \E g : GenOK(g) /\ client' = [client EXCEPT ![c] = g]
<1>1. /\ client \in [Client -> Generator] /\ client[c] \in Generator
      /\ Ordered(client[c].sent) /\ Behind(client[c]) /\ Gapless(client[c])
  BY DEF IInv, TypeOK, ClientInv
<1>2. /\ Len(published) \in Nat /\ first \in 1..(Len(published) + 1) /\ base \in Nat
      /\ client[c].due \in 0..Len(published) /\ client[c].cursor \in Nat
      /\ client[c].sent \in Seq(1..Len(published)) /\ Len(client[c].sent) \in Nat
      /\ client[c].missed \in BOOLEAN /\ client[c].sawTerminal \in BOOLEAN
  BY <1>1, LenProperties DEF IInv, TypeOK, Generator
<1>3. ASSUME NEW ids, NEW missed \in BOOLEAN, Receive(c, ids, missed, at, waits),
             ids = After(client[c]) \/ (ids = <<>> /\ missed),
             client[c].sent \o ids \in Seq(1..Len(published)),
             Ordered(client[c].sent \o ids),
             missed \/ client[c].missed \/ \A id \in first..Len(published) : Sent(id, client[c].sent \o ids)
      PROVE  \E g : GenOK(g) /\ client' = [client EXCEPT ![c] = g]
  <2> DEFINE saw == client[c].sawTerminal \/ \E n \in DOMAIN ids : published[ids[n]] \in TerminalStatus
             missing == client[c].missed \/ missed
             cursor == Reached(client[c], ids)
             g == [client[c] EXCEPT !.at = at, !.sent = client[c].sent \o ids, !.cursor = cursor,
                                    !.sawTerminal = saw, !.waits = waits, !.missed = missing]
  <2>1. client' = [client EXCEPT ![c] = g]
    BY <1>3 DEF Receive, Reached
  <2>2. /\ cursor \in Nat
        /\ \/ ids = <<>> /\ base + cursor = Past(client[c])
           \/ ids # <<>> /\ base + cursor = Len(published)
    BY <1>1, <1>3, ReachedEnd
  <2>3. saw \in BOOLEAN /\ missing \in BOOLEAN
    BY <1>2, <1>3
  <2> HIDE DEF saw, missing, cursor
  <2>4. g \in Generator
    BY <1>1, <1>3, <2>2, <2>3 DEF Generator
  <2>5. /\ g.sent = client[c].sent \o ids /\ g.due = client[c].due
        /\ g.cursor = cursor /\ g.missed = missing
    BY <1>1, <2>3 DEF Generator
  <2> HIDE DEF g
  <2>6. g.missed \/ \A id \in first..Len(published) : Sent(id, g.sent)
    BY <1>3, <2>5 DEF missing
  <2>7. Past(g) = base + cursor
    BY <2>5 DEF Past
  <2>8. Behind(g)
    <3>1. CASE ids = <<>>
      <4>1. g.sent = client[c].sent
        BY <1>2, <2>5, <3>1, ConcatEmptySeq
      <4> QED BY <1>1, <2>2, <2>7, <3>1, <4>1 DEF Behind
    <3>2. CASE ids # <<>>
      <4>1. \A n \in 1..Len(g.sent) : g.sent[n] \in 1..Len(published)
        BY <1>3, <2>5, ElementOfSeq
      <4> QED BY <1>2, <2>2, <2>7, <3>2, <4>1 DEF Behind
    <3> QED BY <3>1, <3>2
  <2>9. Gapless(g)
    <3>1. CASE g.missed
      BY <3>1 DEF Gapless
    <3>2. CASE ~g.missed
      <4>1. ~client[c].missed
        BY <2>5, <3>2 DEF missing
      <4>2. Past(g) \in Nat /\ Past(g) <= Len(published)
        BY <1>1, <1>2, <2>2, <2>7, <4>1 DEF Gapless
      <4>3. \A id \in first..Past(g) : id \in first..Len(published)
        BY <1>2, <4>2
      <4> QED BY <2>6, <3>2, <4>2, <4>3 DEF Gapless
    <3> QED BY <3>1, <3>2
  <2>a. AllDue(g)
    <3>1. \A id \in first..g.due : id \in first..Len(published)
      BY <1>2, <2>5
    <3> QED BY <2>6, <3>1 DEF AllDue
  <2> QED BY <1>3, <2>5, <2>1, <2>4, <2>8, <2>9, <2>a DEF GenOK
<1>4. CASE Receive(c, After(client[c]), FALSE, at, waits)
  BY <1>1, <1>3, <1>4, Appended
<1>5. CASE Receive(c, <<>>, TRUE, at, waits)
  <2>1. client[c].sent \o <<>> = client[c].sent
    BY <1>2, ConcatEmptySeq
  <2> QED BY <1>1, <1>2, <1>3, <1>5, <2>1
<1> QED BY <1>4, <1>5 DEF Fetch

LEMMA GeneratorKeeps ==
    ASSUME IInv, NEW c \in Client, Read(c) \/ Lookup(c) \/ GraceRead(c) \/ Flush(c)
    PROVE  (\E g : GenOK(g) /\ client' = [client EXCEPT ![c] = g]) /\ faults' \in 0..MaxFaults
<1>1. /\ client \in [Client -> Generator] /\ client[c] \in Generator
      /\ Ordered(client[c].sent) /\ Behind(client[c])
      /\ Gapless(client[c]) /\ AllDue(client[c])
      /\ GraceReads \in Nat /\ client[c].waits \in 0..GraceReads
      /\ before \in 0..Len(published)
  BY StreamAssumption DEF StreamAssumption, IInv, TypeOK, ClientInv, Generator
<1>2. CASE Read(c)
  <2>1. Fetch(c, "lookup", 0) /\ 0 \in 0..GraceReads
    BY <1>1, <1>2 DEF Read
  <2>2. NoFault \/ Faulty
    BY <2>1 DEF Fetch
  <2> QED BY <2>1, <2>2, ReceiveKeeps, FaultTypes
<1>3. CASE GraceRead(c)
  <2>1. client[c].waits + 1 \in 0..GraceReads
    BY <1>1, <1>3 DEF GraceRead, Waits
  <2> QED BY <1>1, <1>3, <2>1, ReceiveKeeps, FaultTypes DEF GraceRead, Fetch
<1>4. CASE Flush(c)
  BY <1>1, <1>4, ReceiveKeeps, FaultTypes DEF Flush, Fetch
<1>5. CASE Lookup(c)
  <2>0. faults' \in 0..MaxFaults
    BY <1>5, FaultTypes DEF Lookup
  <2>1. ASSUME NEW at \in {"read", "grace", "broken"}, NEW due \in 0..Len(published),
               client' = [client EXCEPT ![c] = [client[c] EXCEPT !.at = at, !.due = due]]
        PROVE  \E g : GenOK(g) /\ client' = [client EXCEPT ![c] = g]
    <3> DEFINE g == [client[c] EXCEPT !.at = at, !.due = due]
    <3>1. /\ g \in Generator /\ g.sent = client[c].sent /\ g.cursor = client[c].cursor
          /\ g.missed = client[c].missed /\ g.at = at
      BY <1>1 DEF Generator
    <3> HIDE DEF g
    <3>2. Gapless(g) /\ Behind(g)
      BY <1>1, <3>1 DEF Gapless, Behind, Past
    <3>3. AllDue(g)
      BY <3>1 DEF AllDue
    <3>4. client' = [client EXCEPT ![c] = g]
      BY <2>1 DEF g
    <3> QED BY <1>1, <3>1, <3>2, <3>3, <3>4 DEF GenOK
  <2>2. client[c].due \in 0..Len(published)
    BY <1>1 DEF Generator
  <2>3. CASE LookUpAs(c, "grace")
    <3>1. CASE status \in TerminalStatus
      <4>1. client' = [client EXCEPT ![c] = [client[c] EXCEPT !.at = "grace", !.due = before]]
        BY <1>1, <2>3, <3>1 DEF LookUpAs, Generator
      <4> QED BY <1>1, <2>0, <2>1, <4>1
    <3>2. CASE status \notin TerminalStatus
      <4>1. client' = [client EXCEPT ![c] = [client[c] EXCEPT !.at = "read", !.due = client[c].due]]
        BY <1>1, <2>3, <3>2 DEF LookUpAs, Generator
      <4> QED BY <2>0, <2>1, <2>2, <4>1
    <3> QED BY <3>1, <3>2
  <2>4. CASE client' = [client EXCEPT ![c].at = "broken"]
    <3>1. client' = [client EXCEPT ![c] = [client[c] EXCEPT !.at = "broken", !.due = client[c].due]]
      BY <1>1, <2>4 DEF Generator
    <3> QED BY <2>0, <2>1, <2>2, <3>1
  <2> QED BY <1>5, <2>3, <2>4 DEF Lookup
<1> QED BY <1>2, <1>3, <1>4, <1>5

LEMMA GenerateKeeps == ASSUME IInv, NEW c \in Client, Generate(c) PROVE IInv'
<1>1. PICK g : GenOK(g) /\ client' = [client EXCEPT ![c] = g]
  BY GeneratorKeeps DEF Generate
<1>2. faults' \in 0..MaxFaults
  BY GeneratorKeeps DEF Generate
<1>3. UNCHANGED <<memory, status, stored, before, published, first, base, worker, events, runs>>
  BY DEF Generate, record, stream
<1>4. \A d \in Client : client'[d] = IF d = c THEN g ELSE client[d]
  BY <1>1 DEF IInv, TypeOK
<1>5. client' \in [Client -> Generator]
  BY <1>1 DEF IInv, TypeOK, GenOK
<1>6. Generator' = Generator
  BY <1>3 DEF Generator
<1>7. TypeOK'
  BY <1>2, <1>3, <1>5, <1>6 DEF IInv, TypeOK
<1>8. StoredInv'
  BY <1>3 DEF IInv, StoredInv
<1>9. ClientInv'
  <2> SUFFICES ASSUME NEW d \in Client
               PROVE  /\ Ordered(client'[d].sent)
                      /\ Behind(client[d])'
                      /\ Gapless(client[d])'
                      /\ AllDue(client[d])'
    BY DEF ClientInv, Ordered
  <2>1. /\ Ordered(client'[d].sent) /\ Behind(client'[d])
        /\ Gapless(client'[d]) /\ AllDue(client'[d])
    BY <1>1, <1>4 DEF IInv, ClientInv, GenOK
  <2>2. Past(client[d])' = Past(client'[d])
    BY <1>3 DEF Past
  <2> QED BY <1>3, <2>1, <2>2 DEF Behind, Gapless, AllDue, Sent
<1> QED BY <1>7, <1>8, <1>9 DEF IInv

-----------------------------------------------------------------------------
LEMMA InitIInv == Init => IInv
<1> SUFFICES ASSUME Init PROVE IInv
  OBVIOUS
<1>1. published = <<>> /\ Len(published) = 0 /\ published \in Seq(Stage)
  BY EmptySeq DEF Init
<1>2. ASSUME NEW c \in Client
      PROVE  /\ client[c] \in Generator /\ client[c].sent = <<>> /\ client[c].at = "read"
             /\ client[c].cursor = 0
  <2>1. <<>> \in Seq(1..Len(published))
    BY EmptySeq
  <2> QED BY <1>1, <2>1, StreamAssumption DEF StreamAssumption, Init, Generator
<1>3. TypeOK
  BY <1>1, <1>2, StreamAssumption DEF StreamAssumption, Init, TypeOK, Status, LiveStatus, Worker
<1>4. StoredInv
  BY <1>1, SaysTerminal DEF Init, StoredInv, TerminalStatus
<1>5. ClientInv
  <2> SUFFICES ASSUME NEW c \in Client
               PROVE  /\ Ordered(client[c].sent) /\ Behind(client[c])
                      /\ Gapless(client[c]) /\ AllDue(client[c])
    BY DEF ClientInv
  <2>1. Len(client[c].sent) = 0 /\ Past(client[c]) = 0 /\ first = 1
    BY <1>2, EmptySeq DEF Init, Past
  <2> QED BY <1>1, <1>2, <2>1 DEF Ordered, Behind, Gapless, AllDue
<1> QED BY <1>3, <1>4, <1>5 DEF IInv

LEMMA NextIInv == IInv /\ [Next]_vars => IInv'
<1> SUFFICES ASSUME IInv, [Next]_vars PROVE IInv'
  OBVIOUS
<1>1. events \in 0..MaxEvents /\ runs \in 1..MaxRuns /\ MaxEvents \in Nat /\ MaxRuns \in Nat
  BY StreamAssumption DEF StreamAssumption, IInv, TypeOK
<1>2. CASE Work /\ UNCHANGED <<client, events, runs>>
  BY <1>1, <1>2, WorkWrites, WritesKeep
<1>3. CASE ReportWork /\ events' = events + 1 /\ UNCHANGED <<client, runs>>
  <2>1. events' \in 0..MaxEvents
    BY <1>1, <1>3 DEF ReportWork
  <2> QED BY <1>1, <1>3, <2>1, ReportWorkWrites, WritesKeep
<1>4. CASE (Cancel \/ Stops \/ Reap) /\ UNCHANGED <<client, events, runs>>
  BY <1>1, <1>4, CancelWrites, StopsWrites, ReapWrites, WritesKeep
<1>5. CASE Readmit
  <2>1. runs' \in 1..MaxRuns /\ UNCHANGED <<client, events>>
    BY <1>1, <1>5 DEF Readmit
  <2> QED BY <1>1, <1>5, <2>1, ReadmitWrites, WritesKeep
<1>6. CASE Evict
  <2>1. UNCHANGED <<events, runs>>
    BY <1>6 DEF Evict
  <2> QED BY <1>1, <1>6, <2>1, EvictWrites, WritesKeep
<1>7. ASSUME NEW c \in Client, Generate(c)
      PROVE  IInv'
  BY <1>7, GenerateKeeps
<1>8. CASE UNCHANGED vars
  <2>1. UNCHANGED <<record, stream, worker, client, events, runs, faults>>
    BY <1>8 DEF vars
  <2>2. Writes /\ base' = base
    BY <2>1, StreamStays, RecordStays DEF IInv, TypeOK, StoredInv, Writes
  <2> QED BY <1>1, <2>1, <2>2, WritesKeep
<1>9. Work => UNCHANGED <<client, events, runs>>
  BY DEF Work
<1> QED BY <1>2, <1>3, <1>4, <1>5, <1>6, <1>7, <1>8, <1>9 DEF Next, Write

LEMMA Inductive == Spec => []IInv
BY InitIInv, NextIInv, PTL DEF Spec

(***************************************************************************)
(* The stream, its generators and the task keep their types: no cursor     *)
(* points past the stream, no wait exceeds the grace period.               *)
(***************************************************************************)
THEOREM TypeCorrect == Spec => []TypeOK
<1>1. IInv => TypeOK
  BY DEF IInv
<1> QED BY <1>1, Inductive, PTL

(***************************************************************************)
(* A client is only told of terminal statuses that had been stored, in     *)
(* every order of faults, cancellations, scans, re-admissions and reads.   *)
(***************************************************************************)
THEOREM AnnouncedStored == Spec => []AnnouncedWasStored
<1>1. ASSUME IInv PROVE AnnouncedWasStored
  <2> SUFFICES ASSUME NEW c \in Client, NEW n \in DOMAIN client[c].sent,
                      published[client[c].sent[n]] \in TerminalStatus
               PROVE  published[client[c].sent[n]] \in stored
    BY DEF AnnouncedWasStored
  <2>1. client[c].sent \in Seq(1..Len(published))
    BY <1>1 DEF IInv, TypeOK, Generator
  <2>2. client[c].sent[n] \in 1..Len(published)
    BY <2>1, LenProperties, ElementOfSeq
  <2> QED BY <1>1, <2>2 DEF IInv, StoredInv
<1> QED BY <1>1, Inductive, PTL

(***************************************************************************)
(* Each event is sent at most once and in order of publication, however   *)
(* the stream is trimmed or evicted between reads.                         *)
(***************************************************************************)
THEOREM OnceInOrder == Spec => []EachOnceInOrder
<1>1. ASSUME IInv PROVE EachOnceInOrder
  <2> SUFFICES ASSUME NEW c \in Client, NEW n \in 2..Len(client[c].sent)
               PROVE  client[c].sent[n-1] < client[c].sent[n]
    BY DEF EachOnceInOrder
  <2>1. Len(client[c].sent) \in Nat
    BY <1>1, LenProperties DEF IInv, TypeOK, Generator
  <2>2. n - 1 \in 1..Len(client[c].sent) /\ n \in 1..Len(client[c].sent) /\ n - 1 < n
    BY <2>1
  <2> QED BY <1>1, <2>2 DEF IInv, ClientInv, Ordered
<1> QED BY <1>1, Inductive, PTL

(***************************************************************************)
(* A stream that closes after reads that answered has sent all that is     *)
(* held and preceded the terminal status, for any grace period, zero too.  *)
(***************************************************************************)
THEOREM ClosedComplete == Spec => []ClosedIsComplete
<1>1. ASSUME IInv PROVE ClosedIsComplete
  <2> SUFFICES ASSUME NEW c \in Client, client[c].at = "closed", ~client[c].missed,
                      NEW id \in first..client[c].due
               PROVE  \E n \in DOMAIN client[c].sent : client[c].sent[n] = id
    BY DEF ClosedIsComplete
  <2>1. DOMAIN client[c].sent = 1..Len(client[c].sent)
    BY <1>1, LenProperties DEF IInv, TypeOK, Generator
  <2>2. Sent(id, client[c].sent)
    BY <1>1 DEF IInv, ClientInv, AllDue
  <2> QED BY <2>1, <2>2 DEF Sent
<1> QED BY <1>1, Inductive, PTL
=============================================================================
