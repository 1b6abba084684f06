---------------------------- MODULE TranscriptProofs ----------------------------
(***************************************************************************)
(* The recording of Transcript for every limit, send, output and fault:    *)
(* its types, the script of whoever holds the output tape, and the account *)
(* of the queue of observed events.                                        *)
(***************************************************************************)
EXTENDS Transcript, WellFoundedInduction, TLAPS

(***************************************************************************)
(* The types of the state.                                                 *)
(***************************************************************************)
OfQueue == {"Protocol", "WorkerStarting", "WorkerStarted", "WorkerReady", "WorkerEnded",
            "StartupFailed", "CellStarted", "CellEnded", "OutputText", "OutputSummary",
            "ProcessOutput", "ImageOmitted", "ImageRetained", "SourceAdmitted", "SourceFinished",
            "SourceAssociated", "AssociateWaitingCall"}
OfUpdate == {"RecordingStarted", "RecordingActivated", "RecordingEnded", "ToolCall", "ToolResult"}
Events(kinds) == [kind : kinds, call : Nat, owner : Owner, from : Nat, to : Nat, at : Nat]
Queued == Events(OfQueue)
Entries == Events(OfQueue \cup OfUpdate)
CallRecord == [session : Nat, pending : BOOLEAN, finished : BOOLEAN]
CallMaps == UNION {[D -> CallRecord] : D \in SUBSET Nat}
Journals == [created : BOOLEAN, published : BOOLEAN, finished : BOOLEAN, failure : Causes,
             directory : {"temporary", "public"}, entries : Seq(Entries), ignored : SUBSET Nat,
             calls : CallMaps]
Queues == [pending : Seq(Queued), retained : Int, failure : Causes, draining : BOOLEAN,
           observed : Nat, sessions : Nat, owner : Owner, cell : Nat, starting : Nat,
           images : Nat]
Updates == [by : Updaters \cup {<<"nobody", 0>>}, phase : {"Free", "First", "Publishing", "Second"},
            batch : Seq(Queued), count : Nat]
File == [temporary : Nat \cup {-1}, public : Nat \cup {-1}, at : {"temporary", "public"},
         open : BOOLEAN, retained : Nat, failed : BOOLEAN]
FileMaps == UNION {[D -> File] : D \in SUBSET Owner}
Steps == [do : {"CloseIdle", "CloseCell", "CreateIdle", "EndCell", "Write", "Unowned",
                "WorkerStarted", "WorkerEnded", "WorkerRetired", "Receipts"}, arg : {0}]
         \cup [do : {"PublishCell"}, arg : Owner]
         \cup [do : {"StartCell", "CreateCell"}, arg : Calls]
         \cup [do : {"Text"}, arg : Queued]

TypeOK ==
    /\ queue \in Queues
    /\ update \in Updates
    /\ journal \in Journals
    /\ files \in FileMaps
    /\ drainer \in {"Idle", "Updating", "Checking"}
    /\ handler \in [Calls -> [at : {"Unsent", "Rejected", "Received", "Beginning", "Running",
                                    "Finishing", "Settled"}, id : BOOLEAN, addressed : Nat]]
    /\ source \in [Calls -> {"None", "Task", "Admitted", "Waiting", "Dispatched", "Done", "Settled"}]
    /\ transport \in [closed : BOOLEAN, received : Nat]
    /\ tape \in Seq(Steps)
    /\ output \in [cell : Owner, idle : Owner, active : BOOLEAN, receipts : SUBSET Owner,
                   entered : SUBSET Calls]
    /\ worker \in {"None", "Starting", "Acquired", "Startup", "Ready", "Ended", "Failed"}
    /\ image \in [stage : {"None", "Reserved"}, owner : Owner]
    /\ closing \in {"No", "Closing", "Settling", "Recording", "Finishing", "Done"}
    /\ left \in [calls : Nat, cells : Nat, workers : Nat, outputs : Nat, faults : Nat]

(***************************************************************************)
(* What a holder of the tape still has to do, and the files that it has.   *)
(***************************************************************************)
Kinds(s) == {s[i].do : i \in DOMAIN s}
Lone(s) == \A i, k \in DOMAIN s : s[i].do = s[k].do => i = k
To(do) == do \in Kinds(tape)

(* Every open interval, and every receipt, has a file.                     *)
HasFiles ==
    /\ NoOwner \notin DOMAIN files
    /\ output.cell # NoOwner => output.cell \in DOMAIN files
    /\ output.idle # NoOwner => output.idle \in DOMAIN files
    /\ output.receipts \subseteq DOMAIN files
Scripted ==
    /\ Lone(tape)
    /\ To("CloseIdle") => output.idle # NoOwner
    /\ To("CreateIdle") => output.idle = NoOwner
    /\ To("CreateCell") => output.cell = NoOwner
    /\ output.cell # NoOwner => output.active
    /\ Doing("CreateCell") => output.active
    /\ \A i \in DOMAIN tape : i > 1 /\ tape[i].do = "CreateCell" => tape[i - 1].do = "StartCell"
(* A piece of text that is written and not yet observed.                   *)
Telling ==
    \A i \in DOMAIN tape : tape[i].do = "Text" =>
        LET e == tape[i].arg IN
        /\ i = 1 /\ e.kind = "OutputText" /\ e.owner \in DOMAIN files
        /\ e.from <= e.to /\ e.to = files[e.owner].retained

(***************************************************************************)
(* The queue.                                                              *)
(***************************************************************************)
Accounted ==
    /\ QueueAccounted
    /\ update.count = Len(update.batch)
    /\ update.phase \in {"Free", "Publishing"} => update.batch = <<>>
    /\ queue.draining <=> drainer # "Idle"
    /\ update.phase # "Free" /\ update.by = Drain => drainer = "Updating"
(* An update that is under way has not failed, and its thread waits.       *)
Updating ==
    /\ update.phase # "Free" => journal.failure = "None" /\ update.by \in Updaters
    /\ update.phase = "Publishing" => MustPublish(update.by)
    /\ \A c \in Calls :
         /\ update.phase # "Free" /\ update.by = <<"activate", c>> => handler[c].at = "Received"
         /\ update.phase # "Free" /\ update.by = <<"begin", c>> => handler[c].at = "Beginning"
         /\ update.phase # "Free" /\ update.by = <<"finish", c>> => handler[c].at = "Finishing"
         /\ handler[c].id => handler[c].at \in {"Running", "Finishing", "Settled"}
         /\ handler[c].at = "Finishing" => handler[c].id
         /\ c > transport.received => handler[c].at = "Unsent"
    /\ update.phase # "Free" /\ update.by = Finalize => closing = "Recording"

(***************************************************************************)
(* Induction over data.  A set of natural numbers has a least element, so  *)
(* that a set that has 0 and the successor of what it has, has everything. *)
(***************************************************************************)
Below == {p \in Nat \X Nat : p[1] < p[2]}
LEMMA BelowWellFounded == IsWellFoundedOn(Below, Nat)
<1>1. Below = OpToRel(<, Nat)
  BY Zenon DEF Below, OpToRel
<1> QED BY <1>1, NatLessThanWellFounded, Zenon

LEMMA Least ==
    ASSUME NEW T, T \subseteq Nat, T # {}
    PROVE  \E m \in T : \A n \in T : m <= n
<1>1. PICK m \in T : \A n \in T : ~(<<n, m>> \in Below)
  BY BelowWellFounded, WFMin, Zenon
<1>2. ASSUME NEW n \in T PROVE m <= n
  <2>1. n \in Nat /\ m \in Nat
    OBVIOUS
  <2>2. ~(n < m)
    BY <1>1, <2>1 DEF Below
  <2> QED BY <2>1, <2>2
<1> QED BY <1>2

LEMMA UpTo ==
    ASSUME NEW N \in Nat, NEW T, 0 \in T, \A n \in 0..(N - 1) : n \in T => n + 1 \in T
    PROVE  N \in T
<1> DEFINE Missed == (0..N) \ T
<1>1. SUFFICES ASSUME Missed # {} PROVE FALSE
  OBVIOUS
<1>2. PICK m \in Missed : \A n \in Missed : m <= n
  <2>1. Missed \subseteq Nat
    OBVIOUS
  <2> HIDE DEF Missed
  <2> QED BY <2>1, <1>1, Least
<1>3. m \in 0..N /\ m \notin T /\ m # 0
  OBVIOUS
<1>4. m - 1 \in 0..(N - 1) /\ m - 1 \in 0..N /\ m - 1 < m
  BY <1>3
<1>5. m - 1 \in T
  BY <1>2, <1>4
<1>6. (m - 1) + 1 \in T
  BY <1>4, <1>5
<1>7. (m - 1) + 1 = m
  BY <1>3
<1> QED BY <1>3, <1>6, <1>7

(* The recursion of RecordAll, as far as the first k events.               *)
Reaches(f, j, s, k) == f = [n \in 0..k |-> IF n = 0 THEN j ELSE Record(f[n - 1], s[n])]

LEMMA RecordExists ==
    ASSUME NEW j, NEW s, NEW N \in Nat
    PROVE  \E f : Reaches(f, j, s, N)
<1> DEFINE T == {k \in 0..N : \E f : Reaches(f, j, s, k)}
<1>1. 0 \in T
  <2>1. Reaches([n \in 0..0 |-> j], j, s, 0)
    BY DEF Reaches
  <2> QED BY <2>1
<1>2. ASSUME NEW k \in 0..(N - 1), k \in T PROVE k + 1 \in T
  <2>1. PICK f : Reaches(f, j, s, k)
    BY <1>2
  <2> DEFINE g == [n \in 0..(k + 1) |-> IF n = k + 1 THEN Record(f[k], s[k + 1]) ELSE f[n]]
  <2>2. ASSUME NEW n \in 0..(k + 1) PROVE g[n] = IF n = 0 THEN j ELSE Record(g[n - 1], s[n])
    <3>1. CASE n = 0
      BY <3>1, <2>1 DEF Reaches
    <3>2. CASE n = k + 1
      BY <3>2, <2>1 DEF Reaches
    <3>3. CASE n # 0 /\ n # k + 1
      BY <3>3, <2>1 DEF Reaches
    <3> QED BY <3>1, <3>2, <3>3
  <2>3. Reaches(g, j, s, k + 1)
    BY <2>2 DEF Reaches
  <2> QED BY <2>3
<1>3. N \in T
  <2> HIDE DEF T
  <2> QED BY <1>1, <1>2, UpTo
<1> QED BY <1>3

(* RecordAll records the events one after the other.                       *)
LEMMA RecordAllSteps ==
    ASSUME NEW j, NEW S, NEW s \in Seq(S)
    PROVE  \E after : /\ after[0] = j
                      /\ \A n \in 1..Len(s) : after[n] = Record(after[n - 1], s[n])
                      /\ RecordAll(j, s) = after[Len(s)]
<1> DEFINE after == CHOOSE f : Reaches(f, j, s, Len(s))
<1>1. Len(s) \in Nat
  OBVIOUS
<1>2. Reaches(after, j, s, Len(s))
  BY <1>1, RecordExists
<1>3. RecordAll(j, s) = after[Len(s)]
  BY DEF RecordAll, Reaches
<1> HIDE DEF after
<1>4. after[0] = j
  BY <1>1, <1>2 DEF Reaches
<1>5. \A n \in 1..Len(s) : after[n] = Record(after[n - 1], s[n])
  BY <1>1, <1>2 DEF Reaches
<1> QED BY <1>3, <1>4, <1>5

(***************************************************************************)
(* What an event does to the journal.                                      *)
(***************************************************************************)
LEMMA CallMapsApart ==
    ASSUME NEW calls
    PROVE  calls \in CallMaps <=> /\ calls = [c \in DOMAIN calls |-> calls[c]]
                                  /\ DOMAIN calls \subseteq Nat
                                  /\ \A c \in DOMAIN calls : calls[c] \in CallRecord
<1>1. ASSUME calls \in CallMaps PROVE /\ calls = [c \in DOMAIN calls |-> calls[c]]
                                      /\ DOMAIN calls \subseteq Nat
                                      /\ \A c \in DOMAIN calls : calls[c] \in CallRecord
  BY <1>1 DEF CallMaps
<1>2. ASSUME /\ calls = [c \in DOMAIN calls |-> calls[c]]
             /\ DOMAIN calls \subseteq Nat
             /\ \A c \in DOMAIN calls : calls[c] \in CallRecord
      PROVE  calls \in CallMaps
  <2>1. calls \in [DOMAIN calls -> CallRecord]
    BY <1>2
  <2> QED BY <1>2, <2>1 DEF CallMaps
<1> QED BY <1>1, <1>2

LEMMA EventType ==
    ASSUME NEW kinds, NEW kind \in kinds, NEW call \in Nat, NEW owner \in Owner,
           NEW from \in Nat, NEW to \in Nat
    PROVE  Event(kind, call, owner, from, to) \in Events(kinds)
BY DEF Event, Events

LEMMA NoOwnerType == NoOwner \in Owner
BY DEF NoOwner, Owner

LEMMA PlainType ==
    ASSUME NEW kinds, NEW kind \in kinds, NEW call \in Nat
    PROVE  Plain(kind, call) \in Events(kinds)
BY NoOwnerType, EventType DEF Plain

LEMMA QueuedIsEntry == Queued \subseteq Entries
BY DEF Queued, Entries, Events

LEMMA SetCallType ==
    ASSUME NEW calls \in CallMaps, NEW c \in Nat, NEW entry \in CallRecord
    PROVE  SetCall(calls, c, entry) \in CallMaps
<1> DEFINE new == SetCall(calls, c, entry)
<1>1. DOMAIN calls \subseteq Nat /\ \A d \in DOMAIN calls : calls[d] \in CallRecord
  BY CallMapsApart
<1>2. DOMAIN new \subseteq DOMAIN calls \cup {c} /\ new = [d \in DOMAIN new |-> new[d]]
  BY DEF SetCall
<1>3. ASSUME NEW d \in DOMAIN new PROVE new[d] \in CallRecord
  BY <1>1, <1>3 DEF SetCall
<1> HIDE DEF new
<1>4. new \in CallMaps
  BY <1>1, <1>2, <1>3, CallMapsApart
<1> QED BY <1>4 DEF new

LEMMA WrittenType ==
    ASSUME NEW j \in Journals, NEW e \in Entries, ~Unknown(j, e)
    PROVE  /\ Written(j, e) \in Journals
           /\ Written(j, e).failure = j.failure
           /\ Written(j, e).published = j.published
           /\ Written(j, e).finished = j.finished
           /\ Written(j, e).created = j.created
           /\ Written(j, e).directory = j.directory
<1>0. /\ e.kind \in OfQueue \cup OfUpdate /\ e.call \in Nat /\ e.owner \in Owner
      /\ e.from \in Nat /\ e.to \in Nat /\ e.at \in Nat
  BY DEF Entries, Events
<1>1. CASE Ignores(j, e)
  BY <1>0, <1>1 DEF Written, Journals
<1>2. CASE ~Ignores(j, e)
  <2> DEFINE x == [kind |-> e.kind, call |-> e.call, owner |-> e.owner, from |-> e.from,
                   to |-> e.to, at |-> e.at]
             changes == Missing(e) # "None" \/ e.kind \in {"ToolCall", "AssociateWaitingCall"}
             calls == IF changes THEN SetCall(j.calls, e.call, CallAfter(j, e)) ELSE j.calls
  <2>1. Written(j, e) = [j EXCEPT !.entries = Append(@, x), !.calls = calls]
    BY <1>2 DEF Written
  <2>2. x \in Entries
    BY <1>0 DEF Entries, Events
  <2>3. calls \in CallMaps
    <3>1. j.calls \in CallMaps
      BY DEF Journals
    <3>2. ASSUME changes PROVE CallAfter(j, e) \in CallRecord
      <4>1. CASE e.kind = "ToolCall"
        BY <4>1 DEF CallAfter, NewCall, CallRecord
      <4>2. CASE e.kind # "ToolCall"
        <5>1. e.kind \in {"SourceAdmitted", "SourceFinished", "SourceAssociated", "ToolResult",
                          "AssociateWaitingCall"}
          BY <4>2, <3>2 DEF Missing
        <5>2. e.call \in DOMAIN j.calls
          BY <5>1, <1>2 DEF Unknown, Ignores, Calling, Missing
        <5>3. j.calls[e.call] \in CallRecord
          BY <3>1, <5>2, CallMapsApart
        <5>4. e.owner.session \in Nat
          BY <1>0 DEF Owner
        <5> QED BY <5>1, <5>3, <5>4 DEF CallAfter, CallRecord
      <4> QED BY <4>1, <4>2
    <3> QED BY <3>1, <3>2, <1>0, SetCallType
  <2> HIDE DEF calls, x
  <2>4. j.entries \in Seq(Entries)
    BY DEF Journals
  <2>5. Append(j.entries, x) \in Seq(Entries)
    BY <2>2, <2>4
  <2>6. [j EXCEPT !.entries = Append(j.entries, x), !.calls = calls] \in Journals
    BY <2>3, <2>5 DEF Journals
  <2> QED BY <2>1, <2>6 DEF Journals
<1> QED BY <1>1, <1>2

LEMMA CreatedType ==
    ASSUME NEW j \in Journals
    PROVE  /\ Created(j) \in Journals
           /\ Created(j).failure = j.failure
           /\ Created(j).published = j.published
           /\ Created(j).finished = j.finished
           /\ Created(j).directory = j.directory
           /\ Created(j).created
<1> DEFINE started == Plain("RecordingStarted", 0)
           k == [j EXCEPT !.created = TRUE]
<1>1. started \in Entries
  BY PlainType DEF Entries, OfUpdate
<1>2. k \in Journals /\ k.created /\ k.failure = j.failure /\ k.published = j.published
      /\ k.finished = j.finished /\ k.directory = j.directory
  BY DEF Journals
<1>3. ~Unknown(k, started)
  BY DEF Unknown, Missing, Plain, Event
<1>4. Created(j) = IF j.created THEN j ELSE Written(k, started)
  BY DEF Created
<1> HIDE DEF started, k
<1> QED BY <1>1, <1>2, <1>3, <1>4, WrittenType

LEMMA RecordType ==
    ASSUME NEW j \in Journals, NEW e \in Entries
    PROVE  /\ Record(j, e) \in Journals
           /\ Record(j, e).published = j.published
           /\ Record(j, e).finished = j.finished
           /\ Record(j, e).directory = j.directory
           /\ j.failure # "None" => Record(j, e) = j
<1>1. CASE j.failure # "None"
  BY <1>1 DEF Record
<1>2. CASE j.failure = "None" /\ Unknown(Created(j), e)
  <2>1. Record(j, e) = [Created(j) EXCEPT !.failure = Missing(e)]
    BY <1>2 DEF Record
  <2>2. Missing(e) \in Causes
    BY DEF Missing, Causes
  <2> QED BY <1>2, <2>1, <2>2, CreatedType DEF Journals
<1>3. CASE j.failure = "None" /\ ~Unknown(Created(j), e)
  <2>1. Record(j, e) = Written(Created(j), e)
    BY <1>3 DEF Record
  <2> QED BY <1>3, <2>1, CreatedType, WrittenType
<1> QED BY <1>1, <1>2, <1>3

(* What an update does to the journal is what its events do.               *)
LEMMA RecordAllType ==
    ASSUME NEW j \in Journals, NEW s \in Seq(Entries)
    PROVE  /\ RecordAll(j, s) \in Journals
           /\ RecordAll(j, s).published = j.published
           /\ RecordAll(j, s).finished = j.finished
           /\ RecordAll(j, s).directory = j.directory
           /\ j.failure # "None" => RecordAll(j, s) = j
<1>1. PICK after : /\ after[0] = j
                   /\ \A n \in 1..Len(s) : after[n] = Record(after[n - 1], s[n])
                   /\ RecordAll(j, s) = after[Len(s)]
  BY RecordAllSteps
<1> DEFINE Fine(k) == /\ k \in Journals /\ k.published = j.published /\ k.finished = j.finished
                      /\ k.directory = j.directory /\ (j.failure # "None" => k = j)
           T == {n \in 0..Len(s) : Fine(after[n])}
<1>2. 0 \in T
  BY <1>1
<1>3. ASSUME NEW n \in 0..(Len(s) - 1), n \in T PROVE n + 1 \in T
  <2>1. n + 1 \in 1..Len(s) /\ s[n + 1] \in Entries /\ (n + 1) - 1 = n
    OBVIOUS
  <2>2. after[n + 1] = Record(after[n], s[n + 1])
    BY <1>1, <2>1
  <2>3. Fine(after[n])
    BY <1>3
  <2>4. Fine(after[n + 1])
    BY <2>1, <2>2, <2>3, RecordType
  <2> QED BY <2>1, <2>4
<1>4. Len(s) \in T
  <2>1. Len(s) \in Nat
    OBVIOUS
  <2> HIDE DEF T
  <2> QED BY <1>2, <1>3, <2>1, UpTo
<1> QED BY <1>1, <1>4

LEMMA RecordAllNone == ASSUME NEW j PROVE RecordAll(j, <<>>) = j
<1>1. <<>> \in Seq(Nat) /\ Len(<<>>) = 0
  OBVIOUS
<1> QED BY <1>1, RecordAllSteps

LEMMA RecordAllOne == ASSUME NEW j, NEW e PROVE RecordAll(j, <<e>>) = Record(j, e)
<1> DEFINE s == <<e>>
<1>1. s \in Seq({e}) /\ Len(s) = 1 /\ s[1] = e
  OBVIOUS
<1> HIDE DEF s
<1>2. PICK after : /\ after[0] = j
                   /\ \A n \in 1..Len(s) : after[n] = Record(after[n - 1], s[n])
                   /\ RecordAll(j, s) = after[Len(s)]
  BY <1>1, RecordAllSteps
<1>3. after[1] = Record(after[1 - 1], s[1])
  BY <1>1, <1>2
<1>4. RecordAll(j, s) = Record(j, e)
  BY <1>1, <1>2, <1>3
<1> QED BY <1>4 DEF s

LEMMA RecordAllTwo ==
    ASSUME NEW j, NEW S, NEW s, s \in Seq(S), Len(s) = 2
    PROVE  RecordAll(j, s) = Record(Record(j, s[1]), s[2])
<1>1. PICK after : /\ after[0] = j
                   /\ \A n \in 1..Len(s) : after[n] = Record(after[n - 1], s[n])
                   /\ RecordAll(j, s) = after[Len(s)]
  <2>1. s \in Seq(S)
    OBVIOUS
  <2> QED BY ONLY <2>1, RecordAllSteps
<1>2. after[1] = Record(after[1 - 1], s[1]) /\ after[2] = Record(after[2 - 1], s[2])
  BY <1>1
<1> QED BY <1>1, <1>2

(***************************************************************************)
(* Types, and what the holder of the tape still has to do.                 *)
(***************************************************************************)
Handlers == [Calls -> [at : {"Unsent", "Rejected", "Received", "Beginning", "Running",
                             "Finishing", "Settled"}, id : BOOLEAN, addressed : Nat]]
Drainers == {"Idle", "Updating", "Checking"}
Closings == {"No", "Closing", "Settling", "Recording", "Finishing", "Done"}

LEMMA FileMapsApart ==
    ASSUME NEW m
    PROVE  m \in FileMaps <=> /\ m = [f \in DOMAIN m |-> m[f]]
                              /\ DOMAIN m \subseteq Owner
                              /\ \A f \in DOMAIN m : m[f] \in File
<1>1. ASSUME m \in FileMaps PROVE /\ m = [f \in DOMAIN m |-> m[f]]
                                  /\ DOMAIN m \subseteq Owner
                                  /\ \A f \in DOMAIN m : m[f] \in File
  BY <1>1 DEF FileMaps
<1>2. ASSUME /\ m = [f \in DOMAIN m |-> m[f]]
             /\ DOMAIN m \subseteq Owner
             /\ \A f \in DOMAIN m : m[f] \in File
      PROVE  m \in FileMaps
  <2>1. m \in [DOMAIN m -> File]
    BY <1>2
  <2> QED BY <1>2, <2>1 DEF FileMaps
<1> QED BY <1>1, <1>2

LEMMA Who ==
    ASSUME NEW by \in Updaters
    PROVE  \/ by = Drain /\ by[1] = "drain"
           \/ by = Finalize /\ by[1] = "finalize"
           \/ by[2] \in Calls /\ (\/ by[1] = "activate" /\ by = <<"activate", by[2]>>
                                  \/ by[1] = "begin" /\ by = <<"begin", by[2]>>
                                  \/ by[1] = "finish" /\ by = <<"finish", by[2]>>)
BY DEF Updaters, Drain, Finalize

(* The fields of the queue that observing an event does not look at.       *)
Alike(q) ==
    /\ q.pending = queue.pending /\ q.retained = queue.retained /\ q.failure = queue.failure
    /\ q.draining = queue.draining /\ q.observed = queue.observed

LEMMA StoppedType ==
    ASSUME NEW q \in Queues, NEW cause \in Causes
    PROVE  /\ Stopped(q, cause) \in Queues
           /\ Stopped(q, cause).pending = <<>>
           /\ Stopped(q, cause).retained = q.retained - Len(q.pending)
           /\ Stopped(q, cause).failure = IF q.failure = "None" THEN cause ELSE q.failure
           /\ Stopped(q, cause).draining = q.draining
           /\ Stopped(q, cause).observed = q.observed
           /\ Stopped(q, cause).owner = q.owner
<1>1. q.pending \in Seq(Queued) /\ q.retained \in Int /\ q.failure \in Causes
  BY DEF Queues
<1>2. q.retained - Len(q.pending) \in Int
  BY <1>1
<1> DEFINE cause2 == IF q.failure = "None" THEN cause ELSE q.failure
           kept == q.retained - Len(q.pending)
<1>3. cause2 \in Causes /\ kept \in Int /\ <<>> \in Seq(Queued)
  BY <1>1, <1>2
<1>4. Stopped(q, cause) = [q EXCEPT !.failure = cause2, !.retained = kept, !.pending = <<>>]
  BY DEF Stopped
<1> HIDE DEF cause2, kept
<1>5. /\ Stopped(q, cause) \in Queues
      /\ Stopped(q, cause).pending = <<>> /\ Stopped(q, cause).retained = kept
      /\ Stopped(q, cause).failure = cause2 /\ Stopped(q, cause).draining = q.draining
      /\ Stopped(q, cause).observed = q.observed /\ Stopped(q, cause).owner = q.owner
  BY <1>3, <1>4 DEF Queues
<1> QED BY <1>5 DEF cause2, kept

LEMMA PushedType ==
    ASSUME NEW q \in Queues, NEW e \in Queued
    PROVE  Pushed(q, e) \in Queues
<1>1. q.pending \in Seq(Queued) /\ q.retained \in Int /\ q.observed \in Nat
  BY DEF Queues
<1>2. CASE Merges(q, e)
  <2> DEFINE s == q.pending
             x == [s[Len(s)] EXCEPT !.to = e.to]
  <2>1. Len(s) \in Nat \ {0} /\ s[Len(s)] \in Queued
    BY <1>1, <1>2 DEF Merges
  <2>2. x \in Queued
    BY <2>1 DEF Queued, Events
  <2>3. SubSeq(s, 1, Len(s) - 1) \in Seq(Queued)
    BY <1>1, <2>1
  <2>4. SubSeq(s, 1, Len(s) - 1) \o <<x>> \in Seq(Queued)
    BY <2>2, <2>3
  <2>5. Extended(q, e) = [q EXCEPT !.pending = SubSeq(s, 1, Len(s) - 1) \o <<x>>]
    BY DEF Extended, Front, Last
  <2> QED BY <1>2, <2>4, <2>5 DEF Pushed, Queues
<1>3. CASE ~Merges(q, e) /\ q.retained = MaxEvents
  BY <1>3, StoppedType DEF Pushed, Causes
<1>4. CASE ~Merges(q, e) /\ q.retained # MaxEvents
  <2> DEFINE x == [e EXCEPT !.at = q.observed + 1]
  <2>1. x \in Queued
    BY <1>1 DEF Queued, Events
  <2>2. Append(q.pending, x) \in Seq(Queued)
    BY <1>1, <2>1
  <2>3. Added(q, e) = [q EXCEPT !.pending = Append(q.pending, x),
                                !.retained = q.retained + 1, !.observed = q.observed + 1]
    BY DEF Added
  <2>4. q.retained + 1 \in Int /\ q.observed + 1 \in Nat
    BY <1>1
  <2> DEFINE p == Append(q.pending, x)
             r == q.retained + 1
             o == q.observed + 1
  <2>5. p \in Seq(Queued) /\ r \in Int /\ o \in Nat /\ Pushed(q, e) = [q EXCEPT !.pending = p,
                                                    !.retained = r, !.observed = o]
    BY <1>4, <2>2, <2>3, <2>4 DEF Pushed
  <2> HIDE DEF p, r, o
  <2> QED BY <2>5 DEF Queues
<1> QED BY <1>2, <1>3, <1>4

LEMMA ObserveType ==
    ASSUME queue \in Queues, drainer \in Drainers, NEW q \in Queues, NEW e \in Queued,
           Observe(q, e)
    PROVE  queue' \in Queues /\ drainer' \in Drainers
<1>1. Pushed(q, e) \in Queues
  BY PushedType
<1>2. Draining(Pushed(q, e)) \in Queues
  BY <1>1 DEF Draining, Queues
<1> QED BY <1>2 DEF Observe, Starts, Drainers

LEMMA ReturnedType ==
    ASSUME drainer \in Drainers, closing \in Closings, NEW handlers \in Handlers,
           NEW by \in Updaters, NEW done \in BOOLEAN, Returned(by, done, handlers)
    PROVE  drainer' \in Drainers /\ closing' \in Closings /\ handler' \in Handlers
BY Who DEF Returned, Drainers, Closings, Handlers

LEMMA OperationType ==
    ASSUME TypeOK, NEW by \in Updaters, NEW j \in Journals
    PROVE  Operation(by, j) \in Seq(Entries)
<1>1. queue.owner \in Owner /\ Calls \subseteq Nat
  BY TranscriptAssumption DEF TypeOK, Queues, Calls
<1>2. \A kind \in OfQueue \cup OfUpdate, c \in Nat : Plain(kind, c) \in Entries
  BY PlainType DEF Entries
<1>3. \A kind \in OfQueue \cup OfUpdate, c \in Nat :
         Event(kind, c, queue.owner, 0, 0) \in Entries
  BY <1>1, EventType DEF Entries
<1>4. CASE by = Drain
  BY <1>4 DEF Operation, Drain
<1>5. CASE by = Finalize
  BY <1>2, <1>5 DEF Operation, Finalize, OfUpdate
<1>6. CASE by[1] = "activate"
  BY <1>6 DEF Operation
<1>7. CASE by[1] = "begin" /\ by[2] \in Calls
  BY <1>1, <1>2, <1>7 DEF Operation, OfUpdate
<1>8. CASE by[1] = "finish" /\ by[2] \in Calls
  <2>1. Plain("ToolResult", by[2]) \in Entries
    BY <1>1, <1>2, <1>8 DEF OfUpdate
  <2>2. Event("SourceAssociated", by[2], queue.owner, 0, 0) \in Entries
    BY <1>1, <1>3, <1>8 DEF OfQueue
  <2>3. Operation(by, j) =
          (IF Claims(j, by[2]) THEN <<Event("SourceAssociated", by[2], queue.owner, 0, 0)>> ELSE <<>>)
          \o <<Plain("ToolResult", by[2])>>
    BY <1>8 DEF Operation
  <2> QED BY <2>1, <2>2, <2>3
<1> QED BY <1>4, <1>5, <1>6, <1>7, <1>8, Who

LEMMA AddressedType ==
    ASSUME TypeOK, NEW by \in Updaters
    PROVE  Addressed(by) \in Handlers
<1>1. queue.owner.session \in Nat /\ handler \in Handlers
  BY DEF TypeOK, Queues, Owner, Handlers
<1> QED BY <1>1, Who DEF Addressed, Handlers

(* The outcome of an update.                                               *)
Named == update.phase # "Free" => update.by \in Updaters
Typed == /\ queue' \in Queues /\ update' \in Updates /\ journal' \in Journals
         /\ drainer' \in Drainers /\ handler' \in Handlers /\ closing' \in Closings
         /\ Named'

LEMMA NoUpdateType == NoUpdate \in Updates /\ NoUpdate.phase = "Free"
BY DEF NoUpdate, Updates

LEMMA TakesType ==
    ASSUME NEW by \in Updaters, NEW phase \in {"First", "Second"}, NEW q \in Queues,
           Takes(by, phase, q)
    PROVE  queue' \in Queues /\ update' \in Updates /\ Named'
<1>1. q.pending \in Seq(Queued)
  BY DEF Queues
<1>2. Len(q.pending) \in Nat /\ <<>> \in Seq(Queued)
  BY <1>1
<1>3. queue' \in Queues
  BY <1>2 DEF Takes, Queues
<1>4. update' \in Updates
  BY <1>1, <1>2 DEF Takes, Updates
<1>5. Named'
  BY DEF Takes, Named
<1> QED BY <1>3, <1>4, <1>5

LEMMA FailsType ==
    ASSUME TypeOK, NEW by \in Updaters, NEW j \in Journals, NEW q \in Queues, Fails(by, j, q)
    PROVE  Typed
<1>1. j.failure \in Causes
  BY DEF Journals
<1>2. queue' \in Queues
  BY <1>1, StoppedType DEF Fails
<1>3. handler \in Handlers /\ drainer \in Drainers /\ closing \in Closings
  BY DEF TypeOK, Handlers, Drainers, Closings
<1>4. drainer' \in Drainers /\ closing' \in Closings /\ handler' \in Handlers
  BY <1>3, ReturnedType DEF Fails
<1> QED BY <1>2, <1>4, NoUpdateType DEF Fails, Typed, Named

LEMMA CompletesType ==
    ASSUME TypeOK, NEW by \in Updaters, NEW j \in Journals, NEW q \in Queues, Completes(by, j, q)
    PROVE  Typed
<1>1. handler \in Handlers /\ drainer \in Drainers /\ closing \in Closings
  BY DEF TypeOK, Handlers, Drainers, Closings
<1>2. Addressed(by) \in Handlers
  BY AddressedType
<1>3. CASE Fails(by, j, q)
  BY <1>3, FailsType
<1>4. CASE Fails(by, [j EXCEPT !.failure = q.failure], q)
  <2>1. [j EXCEPT !.failure = q.failure] \in Journals
    BY DEF Journals, Queues
  <2> QED BY <1>4, <2>1, FailsType
<1>5. CASE /\ journal' = j /\ Takes(by, "Second", q) /\ handler' = Addressed(by)
           /\ UNCHANGED <<drainer, closing>>
  BY <1>1, <1>2, <1>5, TakesType DEF Typed
<1>6. CASE /\ journal' = j /\ queue' = q /\ update' = NoUpdate /\ Returned(by, TRUE, Addressed(by))
  BY <1>1, <1>2, <1>6, ReturnedType, NoUpdateType DEF Typed, Named
<1> QED BY <1>3, <1>4, <1>5, <1>6 DEF Completes

LEMMA OperatesType ==
    ASSUME TypeOK, NEW by \in Updaters, NEW j \in Journals, NEW q \in Queues, Operates(by, j, q)
    PROVE  Typed
<1>1. RecordAll(j, Operation(by, j)) \in Journals
  BY OperationType, RecordAllType
<1> QED BY <1>1, CompletesType DEF Operates

LEMMA UncountedType == ASSUME TypeOK PROVE Uncounted \in Queues
<1>1. queue \in Queues /\ update.count \in Nat
  BY DEF TypeOK, Updates
<1>2. queue.retained - update.count \in Int
  BY <1>1 DEF Queues
<1> QED BY <1>1, <1>2 DEF Uncounted, Queues

LEMMA BatchType ==
    ASSUME TypeOK
    PROVE  /\ RecordAll(journal, update.batch) \in Journals
           /\ \A k \in 0..Len(update.batch) :
                 /\ SubSeq(update.batch, 1, k) \in Seq(Entries)
                 /\ RecordAll(journal, SubSeq(update.batch, 1, k)) \in Journals
<1>1. update.batch \in Seq(Entries) /\ journal \in Journals
  <2>1. update.batch \in Seq(Queued)
    BY DEF TypeOK, Updates
  <2> QED BY <2>1, QueuedIsEntry DEF TypeOK
<1>2. RecordAll(journal, update.batch) \in Journals
  BY <1>1, RecordAllType
<1>3. ASSUME NEW k \in 0..Len(update.batch)
      PROVE  /\ SubSeq(update.batch, 1, k) \in Seq(Entries)
             /\ RecordAll(journal, SubSeq(update.batch, 1, k)) \in Journals
  <2>1. SubSeq(update.batch, 1, k) \in Seq(Entries)
    BY <1>1
  <2> QED BY <1>1, <2>1, RecordAllType
<1> QED BY <1>2, <1>3

(***************************************************************************)
(* Scripts: what they hold, and what is left of them.                      *)
(***************************************************************************)
LEMMA Joined ==
    ASSUME NEW s \in Seq(Steps), NEW t \in Seq(Steps), Lone(s), Lone(t),
           Kinds(s) \cap Kinds(t) = {}
    PROVE  s \o t \in Seq(Steps) /\ Lone(s \o t) /\ Kinds(s \o t) = Kinds(s) \cup Kinds(t)
<1> DEFINE u == s \o t
<1>1. /\ u \in Seq(Steps) /\ Len(u) = Len(s) + Len(t) /\ DOMAIN u = 1..(Len(s) + Len(t))
      /\ Len(s) \in Nat /\ Len(t) \in Nat /\ DOMAIN s = 1..Len(s) /\ DOMAIN t = 1..Len(t)
  OBVIOUS
<1>2. \A i \in DOMAIN s : i \in DOMAIN u /\ u[i] = s[i]
  OBVIOUS
<1>3. \A i \in DOMAIN t : Len(s) + i \in DOMAIN u /\ u[Len(s) + i] = t[i]
  OBVIOUS
<1>4. \A i \in DOMAIN u : \/ i \in DOMAIN s /\ u[i] = s[i]
                          \/ i - Len(s) \in DOMAIN t /\ u[i] = t[i - Len(s)]
  OBVIOUS
<1> HIDE DEF u
<1>5. Kinds(u) = Kinds(s) \cup Kinds(t)
  <2>1. Kinds(u) \subseteq Kinds(s) \cup Kinds(t)
    BY <1>4 DEF Kinds
  <2>2. Kinds(s) \subseteq Kinds(u)
    BY <1>2 DEF Kinds
  <2>3. Kinds(t) \subseteq Kinds(u)
    BY <1>1, <1>3 DEF Kinds
  <2> QED BY <2>1, <2>2, <2>3
<1>6. ASSUME NEW i \in DOMAIN u, NEW k \in DOMAIN u, u[i].do = u[k].do PROVE i = k
  <2>1. \A m \in DOMAIN s, n \in DOMAIN t : s[m].do # t[n].do
    BY DEF Kinds
  <2>2. CASE i \in DOMAIN s /\ u[i] = s[i] /\ k \in DOMAIN s /\ u[k] = s[k]
    BY <1>6, <2>2 DEF Lone
  <2>3. CASE /\ i - Len(s) \in DOMAIN t /\ u[i] = t[i - Len(s)]
             /\ k - Len(s) \in DOMAIN t /\ u[k] = t[k - Len(s)]
    <3>1. i - Len(s) = k - Len(s)
      BY <1>6, <2>3 DEF Lone
    <3> QED BY <3>1, <1>1
  <2> QED BY <1>4, <1>6, <2>1, <2>2, <2>3
<1>7. Lone(u)
  BY <1>6 DEF Lone
<1> QED BY <1>1, <1>5, <1>7 DEF u

LEMMA JoinedAt ==
    ASSUME NEW s, NEW t, s \in Seq(Steps), t \in Seq(Steps)
    PROVE  /\ Len(s) \in Nat /\ Len(s \o t) = Len(s) + Len(t)
           /\ DOMAIN (s \o t) = 1..Len(s \o t)
           /\ \A m \in 1..Len(t) : (s \o t)[Len(s) + m] = t[m]
OBVIOUS

LEMMA ScriptNone == <<>> \in Seq(Steps) /\ Lone(<<>>) /\ Kinds(<<>>) = {}
BY DEF Lone, Kinds
LEMMA ScriptOne ==
    ASSUME NEW a \in Steps
    PROVE  <<a>> \in Seq(Steps) /\ Lone(<<a>>) /\ Kinds(<<a>>) = {a.do}
BY DEF Lone, Kinds
LEMMA ScriptTwo ==
    ASSUME NEW a \in Steps, NEW b \in Steps, a.do # b.do
    PROVE  <<a, b>> \in Seq(Steps) /\ Lone(<<a, b>>) /\ Kinds(<<a, b>>) = {a.do, b.do}
<1> DEFINE s == <<a, b>>
<1>1. s \in Seq(Steps) /\ DOMAIN s = 1..2 /\ s[1] = a /\ s[2] = b
  OBVIOUS
<1> HIDE DEF s
<1>2. Lone(s)
  BY <1>1 DEF Lone
<1>3. Kinds(s) = {a.do, b.do}
  <2>1. a.do \in Kinds(s) /\ b.do \in Kinds(s)
    BY <1>1 DEF Kinds
  <2>2. Kinds(s) \subseteq {a.do, b.do}
    BY <1>1 DEF Kinds
  <2> QED BY <2>1, <2>2
<1> QED BY <1>1, <1>2, <1>3 DEF s

LEMMA Popped ==
    ASSUME tape \in Seq(Steps), Lone(tape), tape # <<>>, tape' = Tail(tape)
    PROVE  /\ tape' \in Seq(Steps) /\ Lone(tape')
           /\ \A i \in DOMAIN tape' : i + 1 \in DOMAIN tape /\ tape'[i] = tape[i + 1] /\ i \in Nat \ {0}
           /\ \A do \in Kinds(tape') : do \in Kinds(tape) /\ do # Head(tape).do
           /\ \A do \in Kinds(tape) : do = Head(tape).do \/ do \in Kinds(tape')
           /\ Head(tape) = tape[1] /\ 1 \in DOMAIN tape /\ tape[1] \in Steps
<1>1. /\ tape' \in Seq(Steps) /\ Head(tape) = tape[1] /\ 1 \in DOMAIN tape
      /\ \A i \in DOMAIN tape' : i + 1 \in DOMAIN tape /\ tape'[i] = tape[i + 1] /\ i \in Nat \ {0}
      /\ \A i \in DOMAIN tape : i = 1 \/ (i - 1 \in DOMAIN tape' /\ tape[i] = tape'[i - 1])
  OBVIOUS
<1>2. Lone(tape')
  <2> SUFFICES ASSUME NEW i \in DOMAIN tape', NEW k \in DOMAIN tape', tape'[i].do = tape'[k].do
               PROVE  i = k
    BY DEF Lone
  <2>1. i + 1 = k + 1
    BY <1>1 DEF Lone
  <2> QED BY <1>1, <2>1
<1>3. \A do \in Kinds(tape') : do \in Kinds(tape) /\ do # Head(tape).do
  <2> SUFFICES ASSUME NEW i \in DOMAIN tape' PROVE tape'[i].do \in Kinds(tape)
                                                /\ tape'[i].do # Head(tape).do
    BY DEF Kinds
  <2>1. i + 1 \in DOMAIN tape /\ tape'[i] = tape[i + 1] /\ i + 1 # 1
    BY <1>1
  <2> QED BY <1>1, <2>1 DEF Kinds, Lone
<1>4. \A do \in Kinds(tape) : do = Head(tape).do \/ do \in Kinds(tape')
  <2> SUFFICES ASSUME NEW i \in DOMAIN tape, i # 1 PROVE tape[i].do \in Kinds(tape')
    BY <1>1 DEF Kinds
  <2>1. i - 1 \in DOMAIN tape' /\ tape[i] = tape'[i - 1]
    BY <1>1
  <2> QED BY <2>1 DEF Kinds
<1> QED BY <1>1, <1>2, <1>3, <1>4

(* What a step of the tape may do to the open intervals.                   *)
Pops == tape # <<>> /\ tape' = Tail(tape)
Opens ==
    LET h == Head(tape).do IN
    /\ output'.idle = output.idle \/ (h = "CloseIdle" /\ output'.idle = NoOwner) \/ h = "CreateIdle"
    /\ output'.cell = output.cell \/ (h = "CloseCell" /\ output'.cell = NoOwner) \/ h = "CreateCell"
    /\ \/ output'.active = output.active /\ h # "StartCell"
       \/ h = "CloseCell" /\ output'.cell = NoOwner
       \/ h = "StartCell" /\ output'.active
LEMMA ScriptedPops ==
    ASSUME TypeOK, Scripted, Telling, Pops, Opens
    PROVE  tape' \in Seq(Steps) /\ Scripted' /\ Telling'
<1> DEFINE h == Head(tape).do
<1>0. tape \in Seq(Steps) /\ Lone(tape) /\ tape # <<>> /\ tape' = Tail(tape)
  BY DEF TypeOK, Scripted, Pops
<1>1. /\ tape' \in Seq(Steps) /\ Lone(tape')
      /\ \A i \in DOMAIN tape' : i + 1 \in DOMAIN tape /\ tape'[i] = tape[i + 1] /\ i \in Nat \ {0}
      /\ \A do \in Kinds(tape') : do \in Kinds(tape) /\ do # h
      /\ h = tape[1].do /\ 1 \in DOMAIN tape /\ h \in Kinds(tape)
  <2>1. h \in Kinds(tape)
    BY <1>0, Popped DEF Kinds
  <2> QED BY <1>0, <2>1, Popped
<1>2. Opens
  OBVIOUS
<1> HIDE DEF h
<1>3. To("CloseIdle")' => output'.idle # NoOwner
  BY <1>1, <1>2 DEF To, Scripted, Opens, h
<1>4. To("CreateIdle")' => output'.idle = NoOwner
  BY <1>1, <1>2 DEF To, Scripted, Opens, h
<1>5. To("CreateCell")' => output'.cell = NoOwner
  BY <1>1, <1>2 DEF To, Scripted, Opens, h
<1>6. \A i \in DOMAIN tape' : tape'[i].do = "CreateCell" => tape[i].do = "StartCell" /\ i \in DOMAIN tape
  <2> SUFFICES ASSUME NEW i \in DOMAIN tape', tape'[i].do = "CreateCell"
               PROVE  tape[i].do = "StartCell" /\ i \in DOMAIN tape
    OBVIOUS
  <2>1. i + 1 \in DOMAIN tape /\ tape[i + 1].do = "CreateCell" /\ i + 1 > 1 /\ (i + 1) - 1 = i
    BY <1>1
  <2>2. tape[(i + 1) - 1].do = "StartCell"
    BY <2>1 DEF Scripted
  <2> QED BY <1>0, <1>1, <2>1, <2>2
<1>7. Doing("CreateCell")' => output'.active
  <2> SUFFICES ASSUME tape' # <<>>, Head(tape').do = "CreateCell" PROVE output'.active
    BY DEF Doing
  <2>1. 1 \in DOMAIN tape' /\ Head(tape') = tape'[1]
    BY <1>1
  <2>2. tape[1].do = "StartCell"
    BY <1>6, <2>1
  <2> QED BY <1>1, <1>2, <2>2 DEF Opens, h
<1>8. output'.cell # NoOwner => output'.active
  <2>1. CASE h = "CreateCell"
    BY <1>0, <1>2, <2>1 DEF Opens, h, Scripted, Doing
  <2>2. CASE h # "CreateCell"
    BY <1>2, <2>2 DEF Opens, h, Scripted
  <2> QED BY <2>1, <2>2
<1>9. \A i \in DOMAIN tape' : i > 1 /\ tape'[i].do = "CreateCell" => tape'[i - 1].do = "StartCell"
  <2> SUFFICES ASSUME NEW i \in DOMAIN tape', i > 1, tape'[i].do = "CreateCell"
               PROVE  tape'[i - 1].do = "StartCell"
    OBVIOUS
  <2>1. i - 1 \in DOMAIN tape' /\ (i - 1) + 1 = i
    BY <1>1
  <2>2. tape'[i - 1] = tape[i]
    BY <1>1, <2>1
  <2> QED BY <1>6, <2>2
<1>10. Scripted'
  BY <1>1, <1>3, <1>4, <1>5, <1>7, <1>8, <1>9 DEF Scripted
<1>11. Telling'
  <2> SUFFICES ASSUME NEW i \in DOMAIN tape', tape'[i].do = "Text" PROVE FALSE
    BY DEF Telling
  <2>1. i + 1 \in DOMAIN tape /\ tape[i + 1].do = "Text" /\ i + 1 # 1
    BY <1>1
  <2> QED BY <2>1 DEF Telling
<1> QED BY <1>1, <1>10, <1>11

(* A free tape takes a script that fits the open intervals.                *)
Fits(s) ==
    /\ s \in Seq(Steps) /\ Lone(s) /\ "Text" \notin Kinds(s)
    /\ "CloseIdle" \in Kinds(s) => output.idle # NoOwner
    /\ "CreateIdle" \in Kinds(s) => output.idle = NoOwner
    /\ "CreateCell" \in Kinds(s) => output.cell = NoOwner
    /\ \A i \in DOMAIN s : s[i].do = "CreateCell" => i > 1 /\ s[i - 1].do = "StartCell"
LEMMA ScriptedScript ==
    ASSUME TypeOK, Scripted, NEW s, Fits(s), tape' = s, UNCHANGED output
    PROVE  tape' \in Seq(Steps) /\ Scripted' /\ Telling'
<1>1. tape' \in Seq(Steps) /\ Lone(tape')
  BY DEF Fits
<1>2. ~Doing("CreateCell")'
  <2> SUFFICES ASSUME tape' # <<>>, Head(tape').do = "CreateCell" PROVE FALSE
    BY DEF Doing
  <2>1. 1 \in DOMAIN tape' /\ Head(tape') = tape'[1]
    BY <1>1
  <2> QED BY <2>1 DEF Fits
<1>3. Scripted'
  BY <1>1, <1>2 DEF Scripted, Fits, To
<1>4. Telling'
  BY DEF Telling, Fits, Kinds
<1> QED BY <1>1, <1>3, <1>4

(***************************************************************************)
(* Types, files and scripts are kept.                                      *)
(***************************************************************************)
Base == TypeOK /\ HasFiles /\ Scripted /\ Telling /\ Named
Lefts == [calls : Nat, cells : Nat, workers : Nat, outputs : Nat, faults : Nat]
Sources1 == [Calls -> {"None", "Task", "Admitted", "Waiting", "Dispatched", "Done", "Settled"}]
Outputs == [cell : Owner, idle : Owner, active : BOOLEAN, receipts : SUBSET Owner,
            entered : SUBSET Calls]
Images == [stage : {"None", "Reserved"}, owner : Owner]
Workers == {"None", "Starting", "Acquired", "Startup", "Ready", "Ended", "Failed"}

LEMMA Apart ==
    ASSUME TypeOK
    PROVE  /\ queue \in Queues /\ update \in Updates /\ journal \in Journals /\ files \in FileMaps
           /\ drainer \in Drainers /\ handler \in Handlers /\ source \in Sources1
           /\ transport \in [closed : BOOLEAN, received : Nat] /\ tape \in Seq(Steps)
           /\ output \in Outputs /\ worker \in Workers /\ image \in Images /\ closing \in Closings
           /\ left \in Lefts
BY DEF TypeOK, Drainers, Handlers, Sources1, Outputs, Workers, Images, Closings, Lefts
LEMMA Together ==
    ASSUME /\ queue' \in Queues /\ update' \in Updates /\ journal' \in Journals
           /\ files' \in FileMaps /\ drainer' \in Drainers /\ handler' \in Handlers
           /\ source' \in Sources1 /\ transport' \in [closed : BOOLEAN, received : Nat]
           /\ tape' \in Seq(Steps) /\ output' \in Outputs /\ worker' \in Workers
           /\ image' \in Images /\ closing' \in Closings /\ left' \in Lefts
    PROVE  TypeOK'
BY DEF TypeOK, Drainers, Handlers, Sources1, Outputs, Workers, Images, Closings, Lefts

LEMMA PlainQueued ==
    ASSUME NEW kind \in OfQueue, NEW c \in Nat PROVE Plain(kind, c) \in Queued
BY PlainType DEF Queued
LEMMA EventQueued ==
    ASSUME NEW kind \in OfQueue, NEW c \in Nat, NEW owner \in Owner, NEW from \in Nat, NEW to \in Nat
    PROVE  Event(kind, c, owner, from, to) \in Queued
BY EventType DEF Queued
LEMMA CallsAreNat == Calls \subseteq Nat /\ 0 \notin Calls
BY TranscriptAssumption DEF Calls

LEMMA SpendType ==
    ASSUME TypeOK, NEW of \in {"calls", "cells", "workers", "outputs", "faults"}, Spend(of)
    PROVE  /\ left' \in Lefts /\ left[of] \in Nat \ {0} /\ left'[of] = left[of] - 1
           /\ \A other \in {"calls", "cells", "workers", "outputs", "faults"} \ {of} :
                 left'[other] = left[other]
<1>1. left \in Lefts /\ left[of] > 0 /\ left' = [left EXCEPT ![of] = left[of] - 1]
  BY Apart DEF Spend
<1>2. left[of] \in Nat
  BY <1>1 DEF Lefts
<1> DEFINE n == left[of] - 1
<1>3. n \in Nat /\ left' = [left EXCEPT ![of] = n]
  BY <1>1, <1>2
<1> HIDE DEF n
<1>4. left' \in Lefts /\ left'[of] = n
      /\ \A other \in {"calls", "cells", "workers", "outputs", "faults"} \ {of} :
                 left'[other] = left[other]
  BY <1>1, <1>3 DEF Lefts
<1> QED BY <1>1, <1>2, <1>4 DEF n

LEMMA FaultType ==
    ASSUME TypeOK, NEW kind, Fault(kind)
    PROVE  left' \in Lefts /\ left.faults \in Nat \ {0} /\ left'.faults = left.faults - 1
BY SpendType DEF Fault

LEMMA StillFiles ==
    ASSUME HasFiles, Scripted, Telling, UNCHANGED <<tape, output, files>>
    PROVE  HasFiles' /\ Scripted' /\ Telling'
BY DEF HasFiles, Scripted, Telling, Doing, To

(* The updates of the journal.                                             *)
UpdateRest == UNCHANGED <<source, transport, tape, output, worker, image>>
Updater == update.by \in Updaters
LEMMA TypedBase ==
    ASSUME Base, Typed, UpdateRest, UNCHANGED files, left' \in Lefts
    PROVE  Base'
<1>1. HasFiles' /\ Scripted' /\ Telling'
  BY StillFiles DEF Base, UpdateRest
<1>2. TypeOK'
  BY Apart, Together DEF Base, Typed, UpdateRest
<1> QED BY <1>1, <1>2 DEF Base, Typed
LEMMA Unleft == ASSUME TypeOK, UNCHANGED left PROVE left' \in Lefts
BY Apart

LEMMA LockBase == ASSUME Base, NEW by \in Updaters, Lock(by) PROVE Base'
<1>0. TypeOK /\ queue \in Queues /\ journal \in Journals
  BY Apart DEF Base
<1> DEFINE k == [journal EXCEPT !.failure = IF @ = "None" THEN queue.failure ELSE @]
<1>1. k \in Journals
  BY <1>0 DEF Journals, Queues
<1>2. ASSUME Fails(by, k, queue)
      PROVE  Typed
  BY <1>0, <1>1, <1>2, FailsType
<1>3. ASSUME Operates(by, journal, queue)
      PROVE  Typed
  BY <1>0, <1>3, OperatesType
<1>4. ASSUME Takes(by, "First", queue) /\ UNCHANGED <<journal, handler, drainer, closing>>
      PROVE  Typed
  BY <1>0, <1>4, TakesType, Apart DEF Typed
<1>5. Typed
  BY <1>2, <1>3, <1>4 DEF Lock
<1> QED BY <1>0, <1>5, Unleft, TypedBase DEF Lock, UpdateRest

LEMMA OperateBase == ASSUME Base, Updater, Operate PROVE Base'
<1>0. TypeOK /\ Uncounted \in Queues /\ RecordAll(journal, update.batch) \in Journals
  BY UncountedType, BatchType DEF Base
<1>1. Typed
  BY <1>0, OperatesType DEF Operate, Updater
<1> QED BY <1>0, <1>1, Unleft, TypedBase DEF Operate, UpdateRest

LEMMA UnlockBase == ASSUME Base, Updater, Unlock PROVE Base'
<1>0. TypeOK /\ Uncounted \in Queues /\ RecordAll(journal, update.batch) \in Journals
  BY UncountedType, BatchType DEF Base
<1>1. ASSUME Fails(update.by, RecordAll(journal, update.batch), Uncounted)
      PROVE  Typed
  BY <1>0, <1>1, FailsType DEF Updater
<1>2. ASSUME /\ journal' = RecordAll(journal, update.batch) /\ queue' = Uncounted
           /\ update' = NoUpdate /\ Returned(update.by, TRUE, handler)
      PROVE  Typed
  <2>1. drainer' \in Drainers /\ closing' \in Closings /\ handler' \in Handlers
    BY <1>0, <1>2, Apart, ReturnedType DEF Updater
  <2> QED BY <1>0, <1>2, <2>1, NoUpdateType DEF Typed, Named
<1>3. Typed
  BY <1>1, <1>2 DEF Unlock
<1> QED BY <1>0, <1>3, Unleft, TypedBase DEF Unlock, UpdateRest

LEMMA BrokenType == ASSUME NEW j \in Journals PROVE Broken(j) \in Journals /\ Broken(j).failure # "None"
                                               /\ Broken(j).finished = j.finished
                                               /\ Broken(j).published = j.published
                                               /\ Broken(j).directory = j.directory
                                               /\ Broken(j).entries = j.entries
BY DEF Broken, Journals, Causes

LEMMA WriteFailsBase == ASSUME Base, Updater, WriteFails PROVE Base'
<1>0. TypeOK /\ Uncounted \in Queues
  BY UncountedType DEF Base
<1>1. PICK k \in 0..Len(update.batch) :
         Fails(update.by, Broken(RecordAll(journal, SubSeq(update.batch, 1, k))), Uncounted)
  BY DEF WriteFails
<1>2. RecordAll(journal, SubSeq(update.batch, 1, k)) \in Journals
  BY <1>0, BatchType
<1>3. Broken(RecordAll(journal, SubSeq(update.batch, 1, k))) \in Journals
  BY <1>2, BrokenType
<1>4. Typed
  BY <1>0, <1>1, <1>3, FailsType DEF Updater
<1>5. left' \in Lefts
  BY <1>0, FaultType DEF WriteFails
<1> QED BY <1>4, <1>5, TypedBase DEF WriteFails, UpdateRest

LEMMA OperationFailsBase == ASSUME Base, NEW by \in Updaters, OperationFails(by) PROVE Base'
<1>0. TypeOK /\ queue \in Queues /\ Broken(journal) \in Journals
  BY Apart, BrokenType DEF Base
<1>1. Typed
  BY <1>0, FailsType DEF OperationFails
<1>2. left' \in Lefts
  BY <1>0, FaultType DEF OperationFails
<1> QED BY <1>1, <1>2, TypedBase DEF OperationFails, UpdateRest

LEMMA PublishBase == ASSUME Base, Updater, Publish PROVE Base'
<1>0. TypeOK /\ Uncounted \in Queues /\ RecordAll(journal, update.batch) \in Journals
      /\ update \in Updates
  BY UncountedType, BatchType, Apart DEF Base
<1>1. ASSUME Fails(update.by, RecordAll(journal, update.batch), Uncounted)
      PROVE  Typed
  BY <1>0, <1>1, FailsType DEF Updater
<1>2. ASSUME /\ journal' = Created(RecordAll(journal, update.batch)) /\ queue' = Uncounted
           /\ update' = [update EXCEPT !.phase = "Publishing", !.batch = <<>>, !.count = 0]
           /\ UNCHANGED <<handler, drainer, closing>>
      PROVE  Typed
  <2>0. <<>> \in Seq(Queued) /\ 0 \in Nat /\ "Publishing" \in {"Free", "First", "Publishing", "Second"}
    OBVIOUS
  <2>1. update' \in Updates
    BY <1>0, <1>2, <2>0 DEF Updates
  <2> QED BY <1>0, <1>2, <2>1, CreatedType, Apart DEF Typed, Named, Updater
<1>3. Typed
  BY <1>1, <1>2 DEF Publish
<1> QED BY <1>0, <1>3, Unleft, TypedBase DEF Publish, UpdateRest

LEMMA PublishFailsBase == ASSUME Base, Updater, PublishFails PROVE Base'
<1>0. TypeOK /\ queue \in Queues /\ Broken(journal) \in Journals
  BY Apart, BrokenType DEF Base
<1>1. Typed
  BY <1>0, FailsType DEF PublishFails, Updater
<1>2. left' \in Lefts
  BY <1>0, FaultType DEF PublishFails
<1> QED BY <1>1, <1>2, TypedBase DEF PublishFails, UpdateRest


(* The files.                                                              *)
LEMMA SameFiles ==
    ASSUME HasFiles, Scripted, Telling, UNCHANGED <<tape, output>>, DOMAIN files' = DOMAIN files,
           \A f \in DOMAIN files : files'[f].retained = files[f].retained
    PROVE  HasFiles' /\ Scripted' /\ Telling'
BY DEF HasFiles, Scripted, Telling, Doing, To

LEMMA AlteredFiles ==
    ASSUME files \in FileMaps, DOMAIN files' = DOMAIN files, files' = [f \in DOMAIN files' |-> files'[f]],
           \A f \in DOMAIN files : files'[f] \in File
    PROVE  files' \in FileMaps
BY FileMapsApart, Zenon

LEMMA RelocateBase == ASSUME Base, NEW f \in DOMAIN files, Relocate(f) PROVE Base'
<1> DEFINE x == [files[f] EXCEPT !.public = files[f].temporary, !.at = "public"]
<1>0. TypeOK /\ files \in FileMaps /\ \A g \in DOMAIN files : files[g] \in File
  BY Apart, FileMapsApart DEF Base
<1>1. x \in File /\ x.retained = files[f].retained
  BY <1>0 DEF File
<1>2. files' = [g \in DOMAIN files |-> IF g = f THEN x ELSE files[g]]
  <2>1. files' = [files EXCEPT ![f].public = files[f].temporary, ![f].at = "public"]
    BY DEF Relocate
  <2>2. files = [g \in DOMAIN files |-> files[g]]
    BY <1>0, FileMapsApart
  <2> QED BY <2>1, <2>2
<1> HIDE DEF x
<1>3. files' \in FileMaps /\ DOMAIN files' = DOMAIN files
      /\ \A g \in DOMAIN files : files'[g].retained = files[g].retained
  <2>1. DOMAIN files' = DOMAIN files /\ \A g \in DOMAIN files : files'[g] \in File
    BY <1>0, <1>1, <1>2
  <2>2. files' = [g \in DOMAIN files' |-> files'[g]]
    BY <1>2, <2>1
  <2> QED BY <1>0, <1>1, <1>2, <2>1, <2>2, AlteredFiles
<1>4. HasFiles' /\ Scripted' /\ Telling'
  BY <1>3, SameFiles DEF Base, Relocate
<1> QED BY <1>0, <1>3, <1>4, Apart, Together DEF Base, Relocate, Named

LEMMA CopyRestBase == ASSUME Base, CopyRest PROVE Base'
<1>0. /\ TypeOK /\ files \in FileMaps /\ \A g \in DOMAIN files : files[g] \in File
      /\ journal \in Journals
  BY Apart, FileMapsApart DEF Base
<1>1. \A f \in DOMAIN files : /\ Copied[f] \in File /\ Copied[f].retained = files[f].retained
  BY <1>0 DEF File, Copied
<1>2. files' = Copied /\ DOMAIN Copied = DOMAIN files /\ Copied = [f \in DOMAIN Copied |-> Copied[f]]
  BY DEF CopyRest, Copied
<1>3. files' \in FileMaps /\ DOMAIN files' = DOMAIN files
      /\ \A g \in DOMAIN files : files'[g].retained = files[g].retained
  BY <1>0, <1>1, <1>2, AlteredFiles, Zenon
<1>4. HasFiles' /\ Scripted' /\ Telling'
  BY <1>3, SameFiles DEF Base, CopyRest
<1>5. journal' \in Journals
  BY <1>0 DEF CopyRest, Journals
<1> QED BY <1>0, <1>3, <1>4, <1>5, Apart, Together DEF Base, CopyRest, Named

LEMMA FinishPublicationBase == ASSUME Base, Updater, FinishPublication PROVE Base'
<1> DEFINE k == [journal EXCEPT !.published = TRUE]
           activated == Plain("RecordingActivated", 0)
<1>0. /\ TypeOK /\ files \in FileMaps /\ \A g \in DOMAIN files : files[g] \in File
      /\ journal \in Journals /\ queue \in Queues
  BY Apart, FileMapsApart DEF Base
<1>1. files' = [f \in DOMAIN files |-> [files[f] EXCEPT !.temporary = -1]]
  BY DEF FinishPublication
<1>2. \A f \in DOMAIN files : files'[f] \in File /\ files'[f].retained = files[f].retained
  BY <1>0, <1>1 DEF File
<1>3. files' \in FileMaps /\ DOMAIN files' = DOMAIN files
  <2>1. DOMAIN files' = DOMAIN files /\ files' = [f \in DOMAIN files' |-> files'[f]]
    BY <1>1
  <2> QED BY <1>0, <1>2, <2>1, AlteredFiles
<1>4. HasFiles' /\ Scripted' /\ Telling'
  BY <1>2, <1>3, SameFiles DEF Base, FinishPublication
<1>5. k \in Journals
  BY <1>0 DEF Journals
<1>6. activated \in Entries
  BY PlainType DEF Entries, OfUpdate
<1>7. Record(k, activated) \in Journals
  BY <1>5, <1>6, RecordType
<1>8. Completes(update.by, Record(k, activated), queue)
  BY DEF FinishPublication
<1> HIDE DEF k, activated
<1>9. Typed
  BY <1>0, <1>7, <1>8, CompletesType DEF Updater
<1> QED BY <1>0, <1>3, <1>4, <1>9, Apart, Together DEF Base, FinishPublication, Typed

LEMMA FinalizeStorageBase == ASSUME Base, FinalizeStorage PROVE Base'
<1>0. /\ TypeOK /\ files \in FileMaps /\ \A g \in DOMAIN files : files[g] \in File
      /\ journal \in Journals
  BY Apart, FileMapsApart DEF Base
<1>1. files' = [f \in DOMAIN files |-> [files[f] EXCEPT !.open = FALSE]]
  BY DEF FinalizeStorage
<1>2. \A f \in DOMAIN files : files'[f] \in File /\ files'[f].retained = files[f].retained
  BY <1>0, <1>1 DEF File
<1>3. files' \in FileMaps /\ DOMAIN files' = DOMAIN files
  <2>1. DOMAIN files' = DOMAIN files /\ files' = [f \in DOMAIN files' |-> files'[f]]
    BY <1>1
  <2> QED BY <1>0, <1>2, <2>1, AlteredFiles
<1>4. HasFiles' /\ Scripted' /\ Telling'
  BY <1>2, <1>3, SameFiles DEF Base, FinalizeStorage
<1>5. journal' \in Journals
  BY <1>0 DEF FinalizeStorage, Journals
<1>6. closing' \in Closings
  BY DEF FinalizeStorage, Closings
<1> QED BY <1>0, <1>3, <1>4, <1>5, <1>6, Apart, Together DEF Base, FinalizeStorage, Named


(* The worker, the sends and the drain thread.                             *)
LEMMA Quietly ==
    ASSUME Base, UNCHANGED <<tape, output, files, update, journal>>,
           /\ queue' \in Queues /\ drainer' \in Drainers /\ handler' \in Handlers
           /\ source' \in Sources1 /\ transport' \in [closed : BOOLEAN, received : Nat]
           /\ worker' \in Workers /\ image' \in Images /\ closing' \in Closings /\ left' \in Lefts
    PROVE  Base'
<1>1. HasFiles' /\ Scripted' /\ Telling'
  BY StillFiles DEF Base
<1>2. TypeOK'
  BY Apart, Together DEF Base
<1> QED BY <1>1, <1>2 DEF Base, Named

LEMMA OwnerType == ASSUME TypeOK PROVE queue.owner \in Owner /\ queue \in Queues /\ drainer \in Drainers
BY Apart DEF Queues

LEMMA WorkerStartingBase == ASSUME Base, WorkerStarting PROVE Base'
<1>0. TypeOK /\ [queue EXCEPT !.starting = 0] \in Queues
  BY OwnerType DEF Base, Queues
<1>1. Plain("WorkerStarting", 0) \in Queued
  BY PlainQueued DEF OfQueue
<1>2. queue' \in Queues /\ drainer' \in Drainers
  BY <1>0, <1>1, OwnerType, ObserveType DEF WorkerStarting
<1>3. left' \in Lefts
  BY <1>0, SpendType DEF WorkerStarting
<1>4. worker' \in Workers
  BY DEF WorkerStarting, Workers
<1> QED BY <1>0, <1>2, <1>3, <1>4, Apart, Quietly DEF WorkerStarting

LEMMA WaitingType == ASSUME TypeOK, NEW c \in Calls PROVE Waiting(c) \in Queued
<1>1. queue.owner \in Owner /\ c \in Nat
  BY OwnerType, CallsAreNat
<1> QED BY <1>1, EventQueued DEF Waiting, OfQueue

LEMMA AssociateActiveBase == ASSUME Base, AssociateActive PROVE Base'
<1>0. TypeOK /\ queue \in Queues
  BY OwnerType DEF Base
<1>1. ASSUME NEW c \in Calls, Observe(queue, Waiting(c))
      PROVE  queue' \in Queues /\ drainer' \in Drainers
  BY <1>0, <1>1, OwnerType, WaitingType, ObserveType
<1>2. queue' \in Queues /\ drainer' \in Drainers
  <2>1. CASE \E c \in Calls : Active(c) /\ handler[c].id /\ queue.owner # NoOwner
                              /\ Observe(queue, Waiting(c))
    BY <1>1, <2>1
  <2>2. CASE UNCHANGED <<queue, drainer>>
    BY <1>0, <2>2, Apart
  <2> QED BY <2>1, <2>2 DEF AssociateActive
<1>3. worker' \in Workers
  BY DEF AssociateActive, Workers
<1> QED BY <1>0, <1>2, <1>3, Apart, Quietly DEF AssociateActive, workerRest

LEMMA WorkerReadyBase == ASSUME Base, WorkerReady PROVE Base'
<1>0. TypeOK /\ queue \in Queues /\ queue.owner \in Owner /\ [queue EXCEPT !.starting = 0] \in Queues
  BY OwnerType DEF Base, Queues
<1>1. Event("WorkerReady", 0, queue.owner, 0, 0) \in Queued
  BY <1>0, EventQueued DEF OfQueue
<1>2. queue' \in Queues /\ drainer' \in Drainers
  <2>1. CASE Observe([queue EXCEPT !.starting = 0], Event("WorkerReady", 0, queue.owner, 0, 0))
    BY <1>0, <1>1, <2>1, OwnerType, ObserveType
  <2>2. CASE UNCHANGED <<queue, drainer>>
    BY <1>0, <2>2, Apart
  <2> QED BY <2>1, <2>2 DEF WorkerReady
<1>3. worker' \in Workers
  BY DEF WorkerReady, Workers
<1> QED BY <1>0, <1>2, <1>3, Apart, Quietly DEF WorkerReady, workerRest

LEMMA StartupFailedBase == ASSUME Base, StartupFailed PROVE Base'
<1> DEFINE of == [NoOwner EXCEPT !.session = queue.starting]
<1>0. TypeOK /\ queue \in Queues /\ queue.starting \in Nat /\ [queue EXCEPT !.starting = 0] \in Queues
  BY OwnerType DEF Base, Queues
<1>1. of \in Owner
  BY <1>0 DEF NoOwner, Owner
<1> HIDE DEF of
<1>2. Event("StartupFailed", 0, of, 0, 0) \in Queued
  BY <1>1, EventQueued DEF OfQueue
<1>3. Observe([queue EXCEPT !.starting = 0], Event("StartupFailed", 0, of, 0, 0))
  BY DEF StartupFailed, of
<1>4. queue' \in Queues /\ drainer' \in Drainers
  BY <1>0, <1>2, <1>3, OwnerType, ObserveType
<1>5. worker' \in Workers
  BY DEF StartupFailed, Workers
<1> QED BY <1>0, <1>4, <1>5, Apart, Quietly DEF StartupFailed, workerRest

LEMMA ReserveImageBase == ASSUME Base, ReserveImage PROVE Base'
<1>0. TypeOK /\ queue \in Queues /\ queue.owner \in Owner /\ queue.images \in Nat
      /\ image \in Images /\ drainer \in Drainers
  BY OwnerType, Apart DEF Base, Queues
<1>1. Event("ImageOmitted", 0, queue.owner, 0, 0) \in Queued
  BY <1>0, EventQueued DEF OfQueue
<1>2. queue' \in Queues /\ drainer' \in Drainers /\ image' \in Images
  <2>1. CASE UNCHANGED <<queue, drainer, image>>
    BY <1>0, <2>1
  <2>2. CASE Observe(queue, Event("ImageOmitted", 0, queue.owner, 0, 0)) /\ UNCHANGED image
    BY <1>0, <1>1, <2>2, ObserveType
  <2>3. CASE /\ queue' = [queue EXCEPT !.images = @ + 1]
             /\ image' = [stage |-> "Reserved", owner |-> queue.owner] /\ UNCHANGED drainer
    BY <1>0, <2>3 DEF Queues, Images
  <2> QED BY <2>1, <2>2, <2>3 DEF ReserveImage
<1>3. left' \in Lefts
  BY <1>0, SpendType DEF ReserveImage
<1> QED BY <1>0, <1>2, <1>3, Apart, Quietly DEF ReserveImage, imageRest

LEMMA NoImageType == NoImage \in Images
BY NoOwnerType DEF NoImage, Images

LEMMA RetainImageBase == ASSUME Base, RetainImage PROVE Base'
<1>0. TypeOK /\ queue \in Queues /\ image.owner \in Owner /\ drainer \in Drainers
  BY OwnerType, Apart DEF Base, Images
<1>1. Event("ImageRetained", 0, image.owner, 0, 0) \in Queued
  BY <1>0, EventQueued DEF OfQueue
<1>2. queue' \in Queues /\ drainer' \in Drainers /\ image' \in Images
  BY <1>0, <1>1, ObserveType, NoImageType DEF RetainImage
<1> QED BY <1>0, <1>2, Apart, Quietly DEF RetainImage, imageRest

LEMMA DisableType ==
    ASSUME TypeOK, NEW cause \in Causes, Disable(cause)
    PROVE  queue' \in Queues /\ drainer' \in Drainers
<1>1. Stopped(queue, cause) \in Queues /\ drainer \in Drainers
  BY Apart, StoppedType
<1>2. queue' \in Queues
  BY <1>1 DEF Disable, Draining, Queues
<1>3. drainer' \in Drainers
  BY <1>1 DEF Disable, Starts, Drainers
<1> QED BY <1>2, <1>3

LEMMA ImageFailsBase == ASSUME Base, ImageFails PROVE Base'
<1>0. TypeOK
  BY DEF Base
<1>1. queue' \in Queues /\ drainer' \in Drainers
  BY <1>0, DisableType DEF ImageFails, Causes
<1>2. left' \in Lefts
  BY <1>0, FaultType DEF ImageFails
<1>3. image' \in Images
  BY NoImageType DEF ImageFails
<1> QED BY <1>0, <1>1, <1>2, <1>3, Apart, Quietly DEF ImageFails, imageRest

LEMMA ReceiveBase == ASSUME Base, NEW c \in Calls, Receive(c) PROVE Base'
<1>0. TypeOK /\ queue \in Queues /\ drainer \in Drainers /\ handler \in Handlers
      /\ transport \in [closed : BOOLEAN, received : Nat] /\ c \in Nat
  BY Apart, CallsAreNat DEF Base
<1>1. Plain("Protocol", c) \in Queued
  BY <1>0, PlainQueued DEF OfQueue
<1>2. queue' \in Queues /\ drainer' \in Drainers
  BY <1>0, <1>1, ObserveType DEF Receive
<1>3. left' \in Lefts
  BY <1>0, SpendType DEF Receive
<1>4. handler' \in Handlers
  BY <1>0 DEF Receive, Handlers
<1>5. transport' \in [closed : BOOLEAN, received : Nat]
  <2>1. transport' = [transport EXCEPT !.received = c] \/ transport' = [closed |-> TRUE, received |-> c]
    BY DEF Receive
  <2>2. CASE transport' = [transport EXCEPT !.received = c]
    BY <1>0, <2>2
  <2>3. CASE transport' = [closed |-> TRUE, received |-> c]
    <3>1. TRUE \in BOOLEAN
      OBVIOUS
    <3> QED BY <1>0, <2>3, <3>1
  <2> QED BY <2>1, <2>2, <2>3
<1> QED BY <1>0, <1>2, <1>3, <1>4, <1>5, Apart, Quietly DEF Receive

LEMMA SubmitBase == ASSUME Base, NEW c \in Calls, Submit(c) PROVE Base'
<1>0. TypeOK
  BY DEF Base
<1>1. left' \in Lefts
  BY <1>0, SpendType DEF Submit
<1>2. source' \in Sources1
  BY <1>0, Apart DEF Submit, Sources1
<1> QED BY <1>0, <1>1, <1>2, Apart, Quietly DEF Submit

LEMMA ReturnBase == ASSUME Base, NEW c \in Calls, Return(c) PROVE Base'
<1>0. TypeOK
  BY DEF Base
<1>1. handler' \in Handlers
  BY <1>0, Apart DEF Return, Handlers
<1> QED BY <1>0, <1>1, Apart, Quietly DEF Return, sendRest

LEMMA SourceBase ==
    ASSUME Base, NEW c \in Calls, UNCHANGED <<handler, transport, sendRest>>,
           source' \in Sources1,
           NEW e \in Queued, Observe(queue, e) \/ UNCHANGED <<queue, drainer>>
    PROVE  Base'
<1>0. TypeOK /\ queue \in Queues /\ drainer \in Drainers
  BY Apart DEF Base
<1>1. queue' \in Queues /\ drainer' \in Drainers
  BY <1>0, ObserveType
<1> QED BY <1>0, <1>1, Apart, Quietly DEF sendRest

LEMMA SourceEvents ==
    ASSUME TypeOK, NEW c \in Calls
    PROVE  /\ Plain("SourceAdmitted", c) \in Queued /\ Plain("SourceFinished", c) \in Queued
           /\ Event("SourceAssociated", c, queue.owner, 0, 0) \in Queued
           /\ source \in Sources1
<1>0. c \in Nat /\ queue.owner \in Owner
  BY CallsAreNat, OwnerType
<1>1. Plain("SourceAdmitted", c) \in Queued /\ Plain("SourceFinished", c) \in Queued
  BY <1>0, PlainQueued DEF OfQueue
<1>2. Event("SourceAssociated", c, queue.owner, 0, 0) \in Queued
  BY <1>0, EventQueued DEF OfQueue
<1> QED BY <1>1, <1>2, Apart

LEMMA AdmitSourceBase == ASSUME Base, NEW c \in Calls, AdmitSource(c) PROVE Base'
<1>1. source' \in Sources1
  BY SourceEvents DEF Base, AdmitSource, Sources1
<1> QED BY <1>1, SourceEvents, SourceBase DEF Base, AdmitSource
LEMMA AssociateWaitingBase == ASSUME Base, NEW c \in Calls, AssociateWaiting(c) PROVE Base'
<1>1. source' \in Sources1
  BY SourceEvents DEF Base, AssociateWaiting, Sources1
<1> QED BY <1>1, WaitingType, SourceBase DEF Base, AssociateWaiting
LEMMA RefuseSourceBase == ASSUME Base, NEW c \in Calls, RefuseSource(c) PROVE Base'
<1>1. source' \in Sources1
  BY SourceEvents DEF Base, RefuseSource, Sources1
<1> QED BY <1>1, SourceEvents, SourceBase DEF Base, RefuseSource
LEMMA DispatchBase == ASSUME Base, NEW c \in Calls, Dispatch(c) PROVE Base'
<1>1. source' \in Sources1
  BY SourceEvents DEF Base, Dispatch, Sources1
<1> QED BY <1>1, SourceEvents, SourceBase DEF Base, Dispatch
LEMMA SettleSourceBase == ASSUME Base, NEW c \in Calls, SettleSource(c) PROVE Base'
<1>1. source' \in Sources1
  BY SourceEvents DEF Base, SettleSource, Sources1
<1> QED BY <1>1, SourceEvents, SourceBase DEF Base, SettleSource

LEMMA DrainEndsBase == ASSUME Base, DrainEnds PROVE Base'
<1>0. TypeOK /\ queue \in Queues
  BY Apart DEF Base
<1>1. queue' \in Queues /\ drainer' \in Drainers
  BY <1>0 DEF DrainEnds, Queues, Drainers
<1> QED BY <1>0, <1>1, Apart, Quietly DEF DrainEnds
LEMMA CloseBase == ASSUME Base, Close PROVE Base'
<1>1. TypeOK /\ closing' \in Closings
  BY DEF Base, Close, Closings
<1> QED BY <1>1, Apart, Quietly DEF Close, closingRest
LEMMA CloseQueueBase == ASSUME Base, CloseQueue PROVE Base'
<1>1. TypeOK /\ closing' \in Closings
  BY DEF Base, CloseQueue, Closings
<1>2. transport' \in [closed : BOOLEAN, received : Nat]
  BY <1>1, Apart DEF CloseQueue
<1> QED BY <1>1, <1>2, Apart, Quietly DEF CloseQueue, closingRest


(* The scripts.                                                            *)
TapeRest == UNCHANGED <<update, journal, handler, source, transport, worker, image, closing>>
LEMMA Popping ==
    ASSUME Base, Pops, Opens, TapeRest,
           queue' \in Queues, drainer' \in Drainers, files' \in FileMaps, output' \in Outputs,
           left' \in Lefts, HasFiles'
    PROVE  Base'
<1>1. tape' \in Seq(Steps) /\ Scripted' /\ Telling'
  BY ScriptedPops DEF Base
<1>2. TypeOK'
  BY <1>1, Apart, Together DEF Base, TapeRest
<1> QED BY <1>1, <1>2 DEF Base, Named, TapeRest

LEMMA FileType ==
    ASSUME TypeOK, NEW f \in DOMAIN files
    PROVE  files[f] \in File /\ files[f].retained \in Nat /\ f \in Owner
<1>1. files[f] \in File /\ DOMAIN files \subseteq Owner
  BY Apart, FileMapsApart
<1> QED BY <1>1 DEF File

LEMMA SummaryType == ASSUME TypeOK, NEW f \in DOMAIN files PROVE Summary(f) \in Queued
BY FileType, EventQueued DEF Summary, OfQueue

LEMMA ClosedType ==
    ASSUME TypeOK, NEW f \in DOMAIN files
    PROVE  /\ Closed(f) \in FileMaps /\ DOMAIN Closed(f) = DOMAIN files
           /\ \A g \in DOMAIN files : Closed(f)[g].retained = files[g].retained
           /\ \A g \in DOMAIN files : Closed(f)[g].at = files[g].at
                                      /\ Closed(f)[g].public = files[g].public
                                      /\ Closed(f)[g].temporary = files[g].temporary
<1> DEFINE x == [files[f] EXCEPT !.open = FALSE]
           m == [g \in DOMAIN files |-> IF g = f THEN x ELSE files[g]]
<1>0. files \in FileMaps /\ \A g \in DOMAIN files : files[g] \in File
  BY Apart, FileMapsApart
<1>1. x \in File /\ x.retained = files[f].retained /\ x.at = files[f].at
      /\ x.public = files[f].public /\ x.temporary = files[f].temporary
  BY <1>0 DEF File
<1>2. Closed(f) = m
  <2>1. files = [g \in DOMAIN files |-> files[g]]
    BY <1>0, FileMapsApart
  <2> QED BY <2>1 DEF Closed
<1>3. m = [g \in DOMAIN m |-> m[g]] /\ DOMAIN m = DOMAIN files /\ DOMAIN m \subseteq Owner
  BY <1>0, FileMapsApart
<1>4. \A g \in DOMAIN files : m[g] \in File /\ m[g].retained = files[g].retained
                              /\ m[g].at = files[g].at /\ m[g].public = files[g].public
                              /\ m[g].temporary = files[g].temporary
  <2> HIDE DEF x
  <2> QED BY <1>0, <1>1
<1> HIDE DEF m
<1>5. m \in FileMaps
  BY <1>3, <1>4, FileMapsApart
<1> QED BY <1>2, <1>3, <1>4, <1>5

LEMMA CloseIdleBase == ASSUME Base, CloseIdle PROVE Base'
<1>0. TypeOK /\ queue \in Queues /\ drainer \in Drainers /\ output \in Outputs
  BY Apart DEF Base
<1>1. Doing("CloseIdle") /\ To("CloseIdle")
  BY <1>0, Apart DEF CloseIdle, Doing, To, Kinds
<1>2. output.idle \in DOMAIN files
  BY <1>1 DEF Base, Scripted, HasFiles
<1>3. queue' \in Queues /\ drainer' \in Drainers
  BY <1>0, <1>2, SummaryType, ObserveType DEF CloseIdle
<1>4. files' \in FileMaps /\ DOMAIN files' = DOMAIN files
  BY <1>0, <1>2, ClosedType DEF CloseIdle
<1>5. output' = [output EXCEPT !.idle = NoOwner] /\ NoOwner \in Owner
  BY NoOwnerType DEF CloseIdle
<1>6. output' \in Outputs /\ output'.idle = NoOwner /\ output'.cell = output.cell
      /\ output'.receipts = output.receipts /\ output'.active = output.active
  BY <1>0, <1>5 DEF Outputs
<1>7. HasFiles'
  BY <1>4, <1>6 DEF Base, HasFiles
<1>8. Pops /\ Opens
  BY <1>1, <1>6 DEF CloseIdle, Next1, Doing, Pops, Opens
<1> QED BY <1>0, <1>3, <1>4, <1>6, <1>7, <1>8, Apart, Popping DEF CloseIdle, tapeRest, TapeRest

LEMMA CloseCellBase == ASSUME Base, CloseCell PROVE Base'
<1>0. TypeOK /\ output \in Outputs /\ files \in FileMaps
  BY Apart DEF Base
<1>1. Doing("CloseCell")
  BY DEF CloseCell
<1>2. CASE output.cell = NoOwner
  <2>1. output' = [output EXCEPT !.active = FALSE] /\ UNCHANGED files
    BY <1>2 DEF CloseCell
  <2>2. output' \in Outputs /\ output'.idle = output.idle /\ output'.cell = NoOwner
        /\ output'.receipts = output.receipts
    BY <1>0, <1>2, <2>1 DEF Outputs
  <2>3. HasFiles'
    BY <2>1, <2>2 DEF Base, HasFiles
  <2>4. Pops /\ Opens
    BY <1>1, <2>2, <1>2 DEF CloseCell, Next1, Doing, Pops, Opens
  <2> QED BY <1>0, <2>1, <2>2, <2>3, <2>4, Apart, Popping DEF CloseCell, tapeRest, TapeRest
<1>3. CASE output.cell # NoOwner
  <2>0. output.cell \in DOMAIN files
    BY <1>3 DEF Base, HasFiles
  <2>1. /\ output' = [output EXCEPT !.cell = NoOwner, !.active = FALSE,
                                    !.receipts = output.receipts \cup {output.cell}]
        /\ files' = Closed(output.cell)
    BY <1>3 DEF CloseCell
  <2> DEFINE r == output.receipts \cup {output.cell}
  <2>2. r \subseteq Owner /\ NoOwner \in Owner
    BY <1>0, NoOwnerType DEF Outputs
  <2>3. r \subseteq DOMAIN files
    BY <2>0 DEF Base, HasFiles
  <2>4. output' = [output EXCEPT !.cell = NoOwner, !.active = FALSE, !.receipts = r]
    BY <2>1
  <2> HIDE DEF r
  <2>5. output' \in Outputs /\ output'.idle = output.idle /\ output'.cell = NoOwner
        /\ output'.receipts = r
    BY <1>0, <2>2, <2>4 DEF Outputs
  <2>6. files' \in FileMaps /\ DOMAIN files' = DOMAIN files
    BY <1>0, <2>0, <2>1, ClosedType
  <2>7. HasFiles'
    BY <2>3, <2>5, <2>6 DEF Base, HasFiles
  <2>8. Pops /\ Opens
    BY <1>1, <2>5 DEF CloseCell, Next1, Doing, Pops, Opens
  <2> QED BY <1>0, <2>5, <2>6, <2>7, <2>8, Apart, Popping DEF CloseCell, tapeRest, TapeRest
<1> QED BY <1>2, <1>3

LEMMA ReceiptOut ==
    ASSUME Base, NEW f \in output.receipts, PublishesReceipt(f), UNCHANGED files
    PROVE  /\ queue' \in Queues /\ drainer' \in Drainers /\ output' \in Outputs /\ HasFiles'
           /\ output'.idle = output.idle /\ output'.cell = output.cell
           /\ output'.active = output.active
<1>0. TypeOK /\ queue \in Queues /\ drainer \in Drainers /\ output \in Outputs
  BY Apart DEF Base
<1>1. f \in DOMAIN files
  BY DEF Base, HasFiles
<1>2. queue' \in Queues /\ drainer' \in Drainers
  BY <1>0, <1>1, SummaryType, ObserveType DEF PublishesReceipt
<1> DEFINE r == output.receipts \ {f}
<1>3. output' = [output EXCEPT !.receipts = r] /\ r \subseteq Owner /\ r \subseteq output.receipts
  BY <1>0 DEF PublishesReceipt, Outputs
<1> HIDE DEF r
<1>4. output' \in Outputs /\ output'.receipts = r /\ output'.idle = output.idle
      /\ output'.cell = output.cell /\ output'.active = output.active
  BY <1>0, <1>3 DEF Outputs
<1>5. HasFiles'
  BY <1>3, <1>4 DEF Base, HasFiles
<1> QED BY <1>2, <1>4, <1>5

(* The tape and the open intervals do not change.                          *)
LEMMA StayScripted ==
    ASSUME TypeOK, Scripted, Telling, UNCHANGED <<tape, files>>, output'.idle = output.idle,
           output'.cell = output.cell, output'.active = output.active
    PROVE  Scripted' /\ Telling'
BY DEF Scripted, Telling, Doing, To
LEMMA Staying ==
    ASSUME Base, UNCHANGED <<tape, files>>, TapeRest, queue' \in Queues, drainer' \in Drainers,
           output' \in Outputs, HasFiles', output'.idle = output.idle,
           output'.cell = output.cell, output'.active = output.active, UNCHANGED left
    PROVE  Base'
<1>1. Scripted' /\ Telling'
  BY StayScripted DEF Base
<1>2. TypeOK'
  BY Apart, Together DEF Base, TapeRest
<1> QED BY <1>1, <1>2 DEF Base, Named, TapeRest

LEMMA Head1 ==
    ASSUME TypeOK, tape # <<>>
    PROVE  Head(tape) \in Steps /\ Head(tape) = tape[1] /\ 1 \in DOMAIN tape
           /\ Head(tape).do \in Kinds(tape)
<1>1. tape \in Seq(Steps)
  BY Apart
<1> QED BY <1>1 DEF Kinds

LEMMA PublishCellBase == ASSUME Base, PublishCell PROVE Base'
<1>0. TypeOK
  BY DEF Base
<1>1. Doing("PublishCell") /\ Pops
  BY DEF PublishCell, Next1, Doing, Pops
<1>2. CASE Head(tape).arg \in output.receipts
  <2>1. PICK f \in output.receipts : f = Head(tape).arg
    BY <1>2
  <2>2. PublishesReceipt(f) /\ UNCHANGED files
    BY <2>1 DEF PublishCell
  <2>3. /\ queue' \in Queues /\ drainer' \in Drainers /\ output' \in Outputs /\ HasFiles'
        /\ output'.idle = output.idle /\ output'.cell = output.cell
        /\ output'.active = output.active
    BY <2>2, ReceiptOut
  <2>4. Opens
    BY <1>1, <2>3 DEF Opens, Doing
  <2> QED BY <1>0, <1>1, <2>2, <2>3, <2>4, Apart, Popping DEF PublishCell, tapeRest, TapeRest
<1>3. CASE Head(tape).arg \notin output.receipts
  <2>1. UNCHANGED <<queue, drainer, output, files>>
    BY <1>3 DEF PublishCell
  <2>2. HasFiles' /\ Opens
    BY <1>1, <2>1 DEF Base, HasFiles, Opens, Doing
  <2> QED BY <1>0, <1>1, <2>1, <2>2, Apart, Popping DEF PublishCell, tapeRest, TapeRest
<1> QED BY <1>2, <1>3

LEMMA PublishReceiptsBase == ASSUME Base, PublishReceipts PROVE Base'
<1>0. TypeOK /\ UNCHANGED <<files, left>> /\ TapeRest /\ Doing("Receipts")
  BY DEF Base, PublishReceipts, tapeRest, TapeRest
<1>1. ASSUME Next1, UNCHANGED <<queue, drainer, output>> PROVE Base'
  <2>1. HasFiles' /\ Opens /\ Pops
    BY <1>0, <1>1 DEF Base, HasFiles, Opens, Doing, Pops, Next1
  <2> QED BY <1>0, <1>1, <2>1, Apart, Popping
<1>2. ASSUME NEW f \in output.receipts, PublishesReceipt(f), UNCHANGED tape PROVE Base'
  <2>1. /\ queue' \in Queues /\ drainer' \in Drainers /\ output' \in Outputs /\ HasFiles'
        /\ output'.idle = output.idle /\ output'.cell = output.cell
        /\ output'.active = output.active
    BY <1>0, <1>2, ReceiptOut
  <2> QED BY <1>0, <1>2, <2>1, Staying
<1> QED BY <1>1, <1>2 DEF PublishReceipts

LEMMA DeliverReceiptBase == ASSUME Base, NEW f, DeliverReceipt(f) PROVE Base'
<1>0. f \in output.receipts /\ PublishesReceipt(f) /\ UNCHANGED <<files, tape, left>> /\ TapeRest
  BY DEF DeliverReceipt, tapeRest, TapeRest
<1>1. /\ queue' \in Queues /\ drainer' \in Drainers /\ output' \in Outputs /\ HasFiles'
      /\ output'.idle = output.idle /\ output'.cell = output.cell
      /\ output'.active = output.active
  BY <1>0, ReceiptOut
<1> QED BY <1>0, <1>1, Staying

LEMMA StartCellBase == ASSUME Base, StartCell PROVE Base'
<1> DEFINE c == Head(tape).arg
           owner == [session |-> queue.owner.session, cell |-> queue.owner.cell + 1,
                     interval |-> "Cell"]
           started == [queue EXCEPT !.owner = owner, !.cell = c, !.images = 0]
<1>0. /\ TypeOK /\ UNCHANGED <<files, left>> /\ TapeRest /\ Doing("StartCell") /\ Pops
      /\ queue \in Queues /\ drainer \in Drainers /\ output \in Outputs
  BY Apart DEF Base, StartCell, tapeRest, TapeRest, Next1, Pops, Doing
<1>1. c \in Calls /\ c \in Nat
  <2>1. Head(tape) \in Steps /\ Head(tape).do = "StartCell"
    BY <1>0, Head1 DEF Doing
  <2>2. c \in Calls
    BY <2>1 DEF Steps
  <2> QED BY <2>2, CallsAreNat
<1>2. owner \in Owner
  BY <1>0 DEF Queues, Owner
<1>3. Observe(started, Event("CellStarted", c, owner, 0, 0)) \/ UNCHANGED <<queue, drainer>>
  BY DEF StartCell
<1>4. output' = [output EXCEPT !.active = TRUE, !.entered = output.entered \cup {c}]
  BY DEF StartCell
<1> HIDE DEF owner, c
<1>5. started \in Queues
  BY <1>0, <1>1, <1>2 DEF Queues
<1>6. Event("CellStarted", c, owner, 0, 0) \in Queued
  BY <1>1, <1>2, EventQueued DEF OfQueue
<1> HIDE DEF started
<1>7. queue' \in Queues /\ drainer' \in Drainers
  BY <1>0, <1>3, <1>5, <1>6, ObserveType
<1>8. output' \in Outputs /\ output'.idle = output.idle /\ output'.cell = output.cell
      /\ output'.active /\ output'.receipts = output.receipts
  <2>1. output.entered \cup {c} \subseteq Calls
    BY <1>0, <1>1 DEF Outputs
  <2> DEFINE e == output.entered \cup {c}
  <2>2. output' = [output EXCEPT !.active = TRUE, !.entered = e] /\ e \subseteq Calls
    BY <1>4, <2>1
  <2> HIDE DEF e
  <2> QED BY <1>0, <2>2 DEF Outputs
<1>9. HasFiles' /\ Opens
  BY <1>0, <1>8 DEF Base, HasFiles, Opens, Doing
<1> QED BY <1>0, <1>7, <1>8, <1>9, Apart, Popping

LEMMA CreateFileBase ==
    ASSUME Base, NEW do, NEW field, CreateFile(do, field),
           (do = "CreateCell" /\ field = "cell") \/ (do = "CreateIdle" /\ field = "idle")
    PROVE  Base'
<1>0. /\ TypeOK /\ UNCHANGED <<queue, drainer, left>> /\ TapeRest /\ Doing(do) /\ Pops
      /\ queue \in Queues /\ output \in Outputs /\ journal \in Journals /\ files \in FileMaps
  BY Apart DEF Base, CreateFile, tapeRest, TapeRest, Next1, Pops, Doing
<1>1. CASE UNCHANGED <<files, output>>
  <2>1. HasFiles' /\ Opens
    BY <1>0, <1>1 DEF Base, HasFiles, Opens, Doing
  <2> QED BY <1>0, <1>1, <2>1, Apart, Popping
<1>2. CASE /\ queue.owner # NoOwner /\ Create(queue.owner)
           /\ output' = [output EXCEPT ![field] = queue.owner]
  <2> DEFINE o == queue.owner
             m == [g \in DOMAIN files \cup {o} |-> IF g = o THEN NewFile ELSE files[g]]
  <2>1. o \in Owner /\ o # NoOwner /\ files' = m
    BY <1>0, <1>2 DEF Queues, Create
  <2>2. NewFile \in File
    <3>1. journal.directory \in {"temporary", "public"}
      BY <1>0 DEF Journals
    <3> QED BY <3>1 DEF NewFile, NoFile, File
  <2>3. DOMAIN m = DOMAIN files \cup {o} /\ DOMAIN m \subseteq Owner /\ m = [g \in DOMAIN m |-> m[g]]
        /\ \A g \in DOMAIN m : m[g] \in File
    BY <1>0, <2>1, <2>2, FileMapsApart
  <2> HIDE DEF m, o
  <2>4. files' \in FileMaps /\ DOMAIN files' = DOMAIN files \cup {o}
    BY <2>1, <2>3, FileMapsApart
  <2>5. /\ output' \in Outputs /\ output'.active = output.active /\ output'.receipts = output.receipts
        /\ \/ do = "CreateCell" /\ output'.cell = o /\ output'.idle = output.idle
           \/ do = "CreateIdle" /\ output'.idle = o /\ output'.cell = output.cell
    BY <1>0, <1>2, <2>1 DEF Outputs, o
  <2>6. HasFiles' /\ Opens
    BY <1>0, <2>1, <2>4, <2>5 DEF Base, HasFiles, Opens, Doing
  <2> QED BY <1>0, <2>4, <2>5, <2>6, Apart, Popping
<1> QED BY <1>1, <1>2 DEF CreateFile

(* A step of the tape that leaves the intervals and the files alone.       *)
LEMMA TapeObserves ==
    ASSUME Base, Pops, TapeRest, UNCHANGED <<files, output, left>>, ~Doing("StartCell"),
           queue' \in Queues, drainer' \in Drainers
    PROVE  Base'
<1>1. HasFiles' /\ Opens
  BY DEF Base, HasFiles, Opens, Doing, Pops
<1>2. files' \in FileMaps /\ output' \in Outputs /\ left' \in Lefts
  BY Apart DEF Base
<1> QED BY <1>1, <1>2, Popping

LEMMA EndCellBase == ASSUME Base, EndCell PROVE Base'
<1>0. /\ TypeOK /\ UNCHANGED <<files, output, left>> /\ TapeRest /\ ~Doing("StartCell") /\ Pops
      /\ queue \in Queues /\ drainer \in Drainers
  BY Apart DEF Base, EndCell, tapeRest, TapeRest, Next1, Pops, Doing
<1> DEFINE ended == [queue EXCEPT !.owner.interval = "Post", !.cell = 0, !.images = 0]
           e == Event("CellEnded", queue.cell, queue.owner, 0, 0)
<1>1. ended \in Queues
  <2> DEFINE o == [queue.owner EXCEPT !.interval = "Post"]
  <2>1. o \in Owner /\ ended = [queue EXCEPT !.owner = o, !.cell = 0, !.images = 0]
    BY <1>0 DEF Queues, Owner
  <2> HIDE DEF o
  <2> QED BY <1>0, <2>1 DEF Queues
<1>2. e \in Queued
  BY <1>0, EventQueued DEF OfQueue, Queues
<1>3. Observe(ended, e) \/ UNCHANGED <<queue, drainer>>
  BY DEF EndCell
<1> HIDE DEF ended, e
<1>4. queue' \in Queues /\ drainer' \in Drainers
  BY <1>0, <1>1, <1>2, <1>3, ObserveType
<1> QED BY <1>0, <1>4, TapeObserves

LEMMA TextEventBase == ASSUME Base, TextEvent PROVE Base'
<1>0. /\ TypeOK /\ UNCHANGED <<files, output, left>> /\ TapeRest /\ ~Doing("StartCell") /\ Pops
      /\ queue \in Queues /\ drainer \in Drainers /\ Doing("Text")
  BY Apart DEF Base, TextEvent, tapeRest, TapeRest, Next1, Pops, Doing
<1>1. Head(tape).arg \in Queued
  <2>1. Head(tape) \in Steps /\ Head(tape).do = "Text"
    BY <1>0, Head1 DEF Doing
  <2> QED BY <2>1 DEF Steps
<1>2. queue' \in Queues /\ drainer' \in Drainers
  BY <1>0, <1>1, ObserveType DEF TextEvent
<1> QED BY <1>0, <1>2, TapeObserves

LEMMA UnownedTextBase == ASSUME Base, UnownedText PROVE Base'
<1>0. /\ TypeOK /\ UNCHANGED <<files, output, left>> /\ TapeRest /\ ~Doing("StartCell") /\ Pops
      /\ queue \in Queues /\ drainer \in Drainers
  BY Apart DEF Base, UnownedText, tapeRest, TapeRest, Next1, Pops, Doing
<1>1. Plain("ProcessOutput", 0) \in Queued
  BY PlainQueued DEF OfQueue
<1>2. queue' \in Queues /\ drainer' \in Drainers
  BY <1>0, <1>1, ObserveType DEF UnownedText
<1> QED BY <1>0, <1>2, TapeObserves

LEMMA WorkerStartedBase == ASSUME Base, WorkerStarted PROVE Base'
<1>0. /\ TypeOK /\ UNCHANGED <<files, output, left>> /\ TapeRest /\ ~Doing("StartCell") /\ Pops
      /\ queue \in Queues /\ drainer \in Drainers
  BY Apart DEF Base, WorkerStarted, tapeRest, TapeRest, Next1, Pops, Doing
<1> DEFINE session == queue.sessions + 1
           owner == [session |-> session, cell |-> 0, interval |-> "Startup"]
           q == [queue EXCEPT !.sessions = session, !.owner = owner, !.images = 0,
                              !.starting = session]
<1>1. session \in Nat
  BY <1>0 DEF Queues
<1>2. Observe(q, Event("WorkerStarted", 0, owner, 0, 0))
  BY DEF WorkerStarted
<1> HIDE DEF session
<1>3. owner \in Owner
  BY <1>1 DEF Owner
<1> HIDE DEF owner
<1>4. q \in Queues
  BY <1>0, <1>1, <1>3 DEF Queues
<1>5. Event("WorkerStarted", 0, owner, 0, 0) \in Queued
  BY <1>3, EventQueued DEF OfQueue
<1> HIDE DEF q
<1>6. queue' \in Queues /\ drainer' \in Drainers
  BY <1>0, <1>2, <1>4, <1>5, ObserveType
<1> QED BY <1>0, <1>6, TapeObserves

LEMMA WorkerEndedBase == ASSUME Base, WorkerEnded PROVE Base'
<1>0. /\ TypeOK /\ UNCHANGED <<files, output, left>> /\ TapeRest /\ ~Doing("StartCell") /\ Pops
      /\ queue \in Queues /\ drainer \in Drainers
  BY Apart DEF Base, WorkerEnded, tapeRest, TapeRest, Next1, Pops, Doing
<1> DEFINE q == [queue EXCEPT !.owner = NoOwner]
           e == Event("WorkerEnded", 0, queue.owner, 0, 0)
<1>1. q \in Queues
  BY <1>0, NoOwnerType DEF Queues
<1>2. e \in Queued
  BY <1>0, EventQueued DEF OfQueue, Queues
<1>3. Observe(q, e) \/ UNCHANGED <<queue, drainer>>
  BY DEF WorkerEnded
<1> HIDE DEF q, e
<1>4. queue' \in Queues /\ drainer' \in Drainers
  BY <1>0, <1>1, <1>2, <1>3, ObserveType
<1> QED BY <1>0, <1>4, TapeObserves

LEMMA WorkerRetiredBase == ASSUME Base, WorkerRetired PROVE Base'
<1>0. /\ TypeOK /\ UNCHANGED <<files, output, left>> /\ TapeRest /\ ~Doing("StartCell") /\ Pops
      /\ queue \in Queues /\ drainer \in Drainers
  BY Apart DEF Base, WorkerRetired, tapeRest, TapeRest, Next1, Pops, Doing
<1>1. queue' \in Queues /\ drainer' \in Drainers
  BY <1>0, NoOwnerType DEF WorkerRetired, Queues
<1> QED BY <1>0, <1>1, TapeObserves


(* A file map in which one file has n more bytes, where its writer writes. *)
Grows(m, f, n) ==
    /\ m \in FileMaps /\ DOMAIN m = DOMAIN files
    /\ m[f].retained = files[f].retained + n /\ m[f].at = files[f].at
    /\ files[f].at = "temporary" => m[f].temporary = files[f].temporary + n
                                    /\ m[f].public = files[f].public
    /\ files[f].at = "public" => m[f].public = files[f].public + n
                                 /\ m[f].temporary = files[f].temporary
    /\ \A g \in DOMAIN files \ {f} : /\ m[g].retained = files[g].retained
                                     /\ m[g].at = files[g].at /\ m[g].public = files[g].public
                                     /\ m[g].temporary = files[g].temporary
FailedToo(m, f) == [m EXCEPT ![f].failed = TRUE]

LEMMA AppendedType ==
    ASSUME TypeOK, NEW f \in DOMAIN files, NEW n \in Nat
    PROVE  Grows(Appended(f, n), f, n) /\ Grows(FailedToo(Appended(f, n), f), f, n)
<1> DEFINE old == files[f]
           t == IF old.at = "temporary" THEN old.temporary + n ELSE old.temporary
           p == IF old.at = "public" THEN old.public + n ELSE old.public
           r == old.retained + n
           x == [old EXCEPT !.temporary = t, !.public = p, !.retained = r]
           m == [g \in DOMAIN files |-> IF g = f THEN x ELSE files[g]]
           y == [x EXCEPT !.failed = TRUE]
           w == [g \in DOMAIN files |-> IF g = f THEN y ELSE files[g]]
<1>0. files \in FileMaps /\ \A g \in DOMAIN files : files[g] \in File
  BY Apart, FileMapsApart
<1>1. old \in File
  BY <1>0
<1> HIDE DEF old
<1>2. t \in Nat \cup {-1} /\ p \in Nat \cup {-1} /\ r \in Nat
  BY <1>1 DEF File
<1> HIDE DEF t, p, r
<1>3. x \in File /\ x.temporary = t /\ x.public = p /\ x.retained = r /\ x.at = old.at
  BY <1>1, <1>2 DEF File
<1> HIDE DEF x
<1>4. y \in File /\ y.temporary = t /\ y.public = p /\ y.retained = r /\ y.at = old.at
  BY <1>3 DEF File
<1> HIDE DEF y
<1>5. files = [g \in DOMAIN files |-> files[g]] /\ DOMAIN files \subseteq Owner
  BY <1>0, FileMapsApart
<1>6. Appended(f, n) = m
  <2>1. Appended(f, n) = [g \in DOMAIN files |-> IF g = f THEN x ELSE files[g]]
    BY <1>5 DEF Appended, x, t, p, r, old
  <2> QED BY <2>1
<1>7. FailedToo(m, f) = w
  BY DEF y, FailedToo
<1>8. m = [g \in DOMAIN m |-> m[g]] /\ DOMAIN m = DOMAIN files /\ \A g \in DOMAIN m : m[g] \in File
  BY <1>0, <1>3
<1>9. w = [g \in DOMAIN w |-> w[g]] /\ DOMAIN w = DOMAIN files /\ \A g \in DOMAIN w : w[g] \in File
  BY <1>0, <1>4
<1>10. m[f] = x /\ w[f] = y /\ \A g \in DOMAIN files \ {f} : m[g] = files[g] /\ w[g] = files[g]
  OBVIOUS
<1> HIDE DEF m, w
<1>11. m \in FileMaps /\ w \in FileMaps
  BY <1>5, <1>8, <1>9, FileMapsApart
<1>12. Grows(m, f, n)
  BY <1>3, <1>8, <1>10, <1>11 DEF Grows, t, p, r, old
<1>13. Grows(w, f, n)
  BY <1>4, <1>9, <1>10, <1>11 DEF Grows, t, p, r, old
<1> QED BY <1>6, <1>7, <1>12, <1>13

(* What a write does: nothing, or a piece of text to the file of the open  *)
(* interval, which is on the tape until it is observed.                    *)
Writes(f, n) ==
    LET e == Event("OutputText", 0, f, files[f].retained, files[f].retained + n) IN
    /\ f = OutputFile /\ tape' = <<Do("Text", e)>> /\ e \in Queued
    /\ Grows(files', f, n)
    /\ UNCHANGED left \/ Fault("Output")
LEMMA WriteDoes ==
    ASSUME Base, Write
    PROVE  /\ UNCHANGED <<queue, drainer, output>> /\ TapeRest /\ Doing("Write")
           /\ \/ Pops /\ UNCHANGED <<files, left>>
              \/ \E f \in DOMAIN files, n \in 0..1 : Writes(f, n)
<1> DEFINE f == OutputFile
           from == files[f].retained
           e(to) == Event("OutputText", 0, f, from, to)
<1>0. UNCHANGED <<queue, drainer, output>> /\ TapeRest /\ Doing("Write") /\ TypeOK
  BY DEF Write, tapeRest, TapeRest, Base
<1>1. f = NoOwner \/ f \in DOMAIN files
  BY DEF OutputFile, Base, HasFiles
<1>2. ASSUME Next1 PROVE Pops
  BY <1>0, <1>2 DEF Next1, Pops, Doing
<1>3. ASSUME f # NoOwner PROVE /\ f \in DOMAIN files /\ from \in Nat
                               /\ \A n \in 0..1 : e(from + n) \in Queued
  <2>1. f \in DOMAIN files
    BY <1>1, <1>3
  <2>2. from \in Nat /\ f \in Owner
    BY <1>0, <2>1, FileType
  <2> HIDE DEF f, from
  <2>3. ASSUME NEW n \in 0..1 PROVE e(from + n) \in Queued
    <3>1. from + n \in Nat
      BY <2>2
    <3> QED BY <2>2, <3>1, EventQueued DEF OfQueue
  <2> QED BY <2>1, <2>2, <2>3
<1>4. ASSUME f # NoOwner, NEW n \in 0..1, UNCHANGED left \/ Fault("Output"),
             files' = Appended(f, n) \/ files' = FailedToo(Appended(f, n), f),
             Script(<<Do("Text", e(from + n))>>)
      PROVE  f \in DOMAIN files /\ Writes(f, n)
  <2>1. /\ f \in DOMAIN files /\ e(from + n) \in Queued
        /\ tape' = <<Do("Text", e(from + n))>> /\ n \in Nat
    BY <1>3, <1>4 DEF Script
  <2>2. f = OutputFile
    OBVIOUS
  <2> HIDE DEF f
  <2>3. Grows(files', f, n)
    BY <1>0, <1>4, <2>1, AppendedType
  <2> QED BY <1>4, <2>1, <2>2, <2>3 DEF Writes
<1>5. \/ Next1 /\ UNCHANGED <<files, left>>
      \/ /\ f # NoOwner /\ files' = Appended(f, 1) /\ Script(<<Do("Text", e(from + 1))>>)
         /\ UNCHANGED left
      \/ /\ f # NoOwner /\ Fault("Output")
         /\ \E n \in 0..1 : /\ files' = FailedToo(Appended(f, n), f)
                            /\ Script(<<Do("Text", e(from + n))>>)
  BY DEF Write, FailedToo
<1>6. 1 \in 0..1
  OBVIOUS
<1> HIDE DEF f, from
<1> QED BY <1>0, <1>2, <1>4, <1>5, <1>6


LEMMA WriteBase == ASSUME Base, Write PROVE Base'
<1>0. UNCHANGED <<queue, drainer, output>> /\ TapeRest /\ Doing("Write") /\ TypeOK
  BY WriteDoes DEF Base
<1>1. CASE Pops /\ UNCHANGED <<files, left>>
  <2>1. ~Doing("StartCell")
    BY <1>0 DEF Doing
  <2> QED BY <1>0, <1>1, <2>1, Apart, TapeObserves
<1>2. ASSUME NEW f \in DOMAIN files, NEW n \in 0..1, Writes(f, n) PROVE Base'
  <2> DEFINE e == Event("OutputText", 0, f, files[f].retained, files[f].retained + n)
             d == Do("Text", e)
  <2>1. /\ f = OutputFile /\ tape' = <<d>> /\ e \in Queued /\ Grows(files', f, n)
        /\ UNCHANGED left \/ Fault("Output")
    BY <1>2 DEF Writes
  <2>2. d \in Steps /\ d.do = "Text" /\ d.arg = e
    BY <2>1 DEF Do, Steps
  <2>3. /\ e.kind = "OutputText" /\ e.owner = f /\ e.from = files[f].retained
        /\ e.to = files[f].retained + n
    BY DEF Event
  <2> HIDE DEF e, d
  <2>4. tape' \in Seq(Steps) /\ Lone(tape') /\ Kinds(tape') = {"Text"}
        /\ DOMAIN tape' = {1} /\ tape'[1] = d /\ Head(tape') = d
    BY <2>1, <2>2, ScriptOne
  <2>5. files' \in FileMaps /\ DOMAIN files' = DOMAIN files /\ files'[f].retained = files[f].retained + n
    BY <2>1 DEF Grows
  <2>6. left' \in Lefts
    BY <1>0, <2>1, FaultType, Unleft
  <2>7. HasFiles'
    BY <1>0, <2>5 DEF Base, HasFiles
  <2>8. Scripted'
    BY <1>0, <2>2, <2>4 DEF Base, Scripted, To, Doing
  <2>9. files[f].retained \in Nat
    BY <1>0, FileType
  <2>10. Telling'
    BY <2>2, <2>3, <2>4, <2>5, <2>9 DEF Telling
  <2>11. TypeOK'
    BY <1>0, <2>4, <2>5, <2>6, Apart, Together DEF TapeRest
  <2> QED BY <1>0, <2>7, <2>8, <2>10, <2>11 DEF Base, Named, TapeRest
<1> QED BY <1>1, <1>2, WriteDoes

(* The scripts that the worker and shutdown give to a free tape.           *)
ScriptRest == UNCHANGED <<queue, drainer, update, journal, files, handler, source, transport,
                          output, image>>
LEMMA Scripting ==
    ASSUME Base, ScriptRest, NEW s, Fits(s), tape' = s, worker' \in Workers,
           closing' \in Closings, left' \in Lefts
    PROVE  Base'
<1>1. tape' \in Seq(Steps) /\ Scripted' /\ Telling'
  BY ScriptedScript DEF Base, ScriptRest
<1>2. HasFiles'
  BY DEF Base, HasFiles, ScriptRest
<1>3. TypeOK'
  BY <1>1, Apart, Together DEF Base, ScriptRest
<1> QED BY <1>1, <1>2, <1>3 DEF Base, Named, ScriptRest

LEMMA DoType ==
    /\ \A do \in {"CloseIdle", "CloseCell", "CreateIdle", "EndCell", "Write", "Unowned",
                  "WorkerStarted", "WorkerEnded", "WorkerRetired", "Receipts"} :
          Do(do, 0) \in Steps
    /\ \A f \in Owner : Do("PublishCell", f) \in Steps
    /\ \A c \in Calls : Do("StartCell", c) \in Steps /\ Do("CreateCell", c) \in Steps
    /\ \A do, arg : Do(do, arg).do = do /\ Do(do, arg).arg = arg
BY DEF Do, Steps

LEMMA ClosesIdleScript ==
    /\ ClosesIdle \in Seq(Steps) /\ Lone(ClosesIdle)
    /\ Kinds(ClosesIdle) \subseteq {"CloseIdle"}
    /\ "CloseIdle" \in Kinds(ClosesIdle) <=> output.idle # NoOwner
<1>1. Do("CloseIdle", 0) \in Steps /\ Do("CloseIdle", 0).do = "CloseIdle"
  BY DoType
<1>2. CASE output.idle = NoOwner
  BY <1>2, ScriptNone DEF ClosesIdle
<1>3. CASE output.idle # NoOwner
  <2>1. ClosesIdle = <<Do("CloseIdle", 0)>>
    BY <1>3 DEF ClosesIdle
  <2> QED BY <1>1, <1>3, <2>1, ScriptOne
<1> QED BY <1>2, <1>3

LEMMA CloseIntervalsScript ==
    ASSUME TypeOK
    PROVE  /\ CloseIntervals \in Seq(Steps) /\ Lone(CloseIntervals)
           /\ Kinds(CloseIntervals) \subseteq {"CloseCell", "PublishCell", "CloseIdle", "EndCell"}
           /\ "CloseIdle" \in Kinds(CloseIntervals) <=> output.idle # NoOwner
           /\ output.cell # NoOwner => {"CloseCell", "PublishCell"} \subseteq Kinds(CloseIntervals)
<1> DEFINE a == IF output.cell = NoOwner /\ ~output.active THEN <<>>
                ELSE <<Do("CloseCell", 0), Do("PublishCell", output.cell)>>
           b == ClosesIdle
           c == IF output.active THEN <<Do("EndCell", 0)>> ELSE <<>>
<1>0. output.cell \in Owner
  BY Apart DEF Outputs
<1>1. /\ a \in Seq(Steps) /\ Lone(a) /\ Kinds(a) \subseteq {"CloseCell", "PublishCell"}
      /\ output.cell # NoOwner => {"CloseCell", "PublishCell"} \subseteq Kinds(a)
  <2>1. CASE output.cell = NoOwner /\ ~output.active
    BY <2>1, ScriptNone
  <2>2. CASE ~(output.cell = NoOwner /\ ~output.active)
    <3> DEFINE x == Do("CloseCell", 0)
               y == Do("PublishCell", output.cell)
    <3>1. x \in Steps /\ y \in Steps /\ x.do = "CloseCell" /\ y.do = "PublishCell" /\ a = <<x, y>>
      BY <1>0, <2>2, DoType
    <3> HIDE DEF x, y, a
    <3> QED BY <3>1, ScriptTwo
  <2> QED BY <2>1, <2>2
<1>2. /\ b \in Seq(Steps) /\ Lone(b) /\ Kinds(b) \subseteq {"CloseIdle"}
      /\ "CloseIdle" \in Kinds(b) <=> output.idle # NoOwner
  BY ClosesIdleScript
<1>3. c \in Seq(Steps) /\ Lone(c) /\ Kinds(c) \subseteq {"EndCell"}
  <2>1. CASE output.active
    <3>1. c = <<Do("EndCell", 0)>> /\ Do("EndCell", 0) \in Steps /\ Do("EndCell", 0).do = "EndCell"
      BY <2>1, DoType
    <3> QED BY <3>1, ScriptOne
  <2>2. CASE ~output.active
    BY <2>2, ScriptNone
  <2> QED BY <2>1, <2>2
<1>4. CloseIntervals = a \o (b \o c) /\ CloseIntervals = (a \o b) \o c
  <2>1. CloseIntervals = a \o b \o c
    BY DEF CloseIntervals
  <2> HIDE DEF a, b, c
  <2> QED BY <1>1, <1>2, <1>3, <2>1
<1> HIDE DEF a, b, c
<1>5. /\ b \o c \in Seq(Steps) /\ Lone(b \o c) /\ Kinds(b \o c) = Kinds(b) \cup Kinds(c)
  <2>1. Kinds(b) \cap Kinds(c) = {}
    BY <1>2, <1>3
  <2> QED BY <1>2, <1>3, <2>1, Joined
<1> DEFINE d == b \o c
<1>6. d \in Seq(Steps) /\ Lone(d) /\ Kinds(a) \cap Kinds(d) = {}
  BY <1>1, <1>2, <1>3, <1>5
<1> HIDE DEF d
<1>7. a \o d \in Seq(Steps) /\ Lone(a \o d) /\ Kinds(a \o d) = Kinds(a) \cup Kinds(d)
  BY <1>1, <1>6, Joined
<1>8. CloseIntervals = a \o d /\ Kinds(d) = Kinds(b) \cup Kinds(c)
  BY <1>4, <1>5 DEF d
<1> QED BY <1>1, <1>2, <1>3, <1>7, <1>8

LEMMA EndScript ==
    ASSUME TypeOK, NEW t \in Seq(Steps), Lone(t), Kinds(t) \subseteq {"WorkerEnded", "WorkerRetired", "Receipts"}
    PROVE  /\ CloseIntervals \o t \in Seq(Steps) /\ Lone(CloseIntervals \o t)
           /\ Kinds(CloseIntervals \o t) = Kinds(CloseIntervals) \cup Kinds(t)
           /\ Fits(CloseIntervals \o t)
<1> DEFINE u == CloseIntervals \o t
<1>1. /\ CloseIntervals \in Seq(Steps) /\ Lone(CloseIntervals)
      /\ Kinds(CloseIntervals) \subseteq {"CloseCell", "PublishCell", "CloseIdle", "EndCell"}
      /\ "CloseIdle" \in Kinds(CloseIntervals) <=> output.idle # NoOwner
  BY CloseIntervalsScript
<1>2. Kinds(CloseIntervals) \cap Kinds(t) = {}
  BY <1>1
<1>3. u \in Seq(Steps) /\ Lone(u) /\ Kinds(u) = Kinds(CloseIntervals) \cup Kinds(t)
  BY <1>1, <1>2, Joined
<1> HIDE DEF u
<1>4. \A i \in DOMAIN u : u[i].do # "CreateCell"
  BY <1>1, <1>3 DEF Kinds
<1>5. Fits(u)
  BY <1>1, <1>3, <1>4 DEF Fits
<1> QED BY <1>3, <1>5 DEF u

LEMMA RetirementScript ==
    ASSUME TypeOK
    PROVE  /\ Fits(Retirement)
           /\ Kinds(Retirement) = Kinds(CloseIntervals) \cup {"WorkerRetired", "Receipts"}
<1> DEFINE t == <<Do("WorkerRetired", 0), Do("Receipts", 0)>>
<1>1. t \in Seq(Steps) /\ Lone(t) /\ Kinds(t) = {"WorkerRetired", "Receipts"}
  BY DoType, ScriptTwo
<1>2. Retirement = CloseIntervals \o t
  BY DEF Retirement
<1> HIDE DEF t
<1> QED BY <1>1, <1>2, EndScript


LEMMA AcquireBase == ASSUME Base, Acquire PROVE Base' /\ Fits(tape')
<1> DEFINE t == <<Do("WorkerStarted", 0)>>
           u == ClosesIdle \o t
<1>0. TypeOK /\ ScriptRest /\ UNCHANGED <<closing, left>> /\ worker' \in Workers /\ tape' = u
  BY DEF Base, Acquire, workerRest, ScriptRest, Workers, Script
<1>1. t \in Seq(Steps) /\ Lone(t) /\ Kinds(t) = {"WorkerStarted"}
  BY DoType, ScriptOne
<1>2. Kinds(ClosesIdle) \cap Kinds(t) = {}
  BY <1>1, ClosesIdleScript
<1> HIDE DEF t
<1>3. u \in Seq(Steps) /\ Lone(u) /\ Kinds(u) = Kinds(ClosesIdle) \cup Kinds(t)
  BY <1>1, <1>2, ClosesIdleScript, Joined
<1> HIDE DEF u
<1>4. \A i \in DOMAIN u : u[i].do # "CreateCell"
  BY <1>1, <1>3, ClosesIdleScript DEF Kinds
<1>5. Fits(u)
  BY <1>1, <1>3, <1>4, ClosesIdleScript DEF Fits
<1> QED BY <1>0, <1>5, Apart, Scripting

LEMMA WorkerEndsBase == ASSUME Base, WorkerEnds PROVE Base' /\ Fits(tape')
<1> DEFINE t == <<Do("WorkerEnded", 0)>>
<1>0. /\ TypeOK /\ ScriptRest /\ UNCHANGED <<closing, left>> /\ worker' \in Workers
      /\ tape' = CloseIntervals \o t
  BY DEF Base, WorkerEnds, workerRest, ScriptRest, Workers, Script
<1>1. t \in Seq(Steps) /\ Lone(t) /\ Kinds(t) = {"WorkerEnded"}
  BY DoType, ScriptOne
<1> HIDE DEF t
<1>2. Fits(CloseIntervals \o t)
  BY <1>0, <1>1, EndScript
<1> QED BY <1>0, <1>2, Apart, Scripting

LEMMA RetireBase == ASSUME Base, Retire PROVE Base' /\ Fits(tape')
<1>0. /\ TypeOK /\ ScriptRest /\ UNCHANGED <<closing, left>> /\ worker' \in Workers
      /\ tape' = Retirement
  BY DEF Base, Retire, workerRest, ScriptRest, Workers, Script
<1> QED BY <1>0, RetirementScript, Apart, Scripting

LEMMA FinishRecordingBase == ASSUME Base, FinishRecording PROVE Base' /\ Fits(tape')
<1>0. /\ TypeOK /\ ScriptRest /\ UNCHANGED <<worker, left>> /\ closing' \in Closings
      /\ tape' = Retirement
  BY DEF Base, FinishRecording, closingRest, ScriptRest, Closings, Script
<1> QED BY <1>0, RetirementScript, Apart, Scripting

LEMMA CellEndsBase == ASSUME Base, CellEnds PROVE Base' /\ Fits(tape')
<1> DEFINE t == <<Do("CloseCell", 0), Do("EndCell", 0)>>
<1>0. /\ TypeOK /\ ScriptRest /\ UNCHANGED <<worker, closing, left>> /\ tape' = t
  BY DEF Base, CellEnds, workerRest, ScriptRest, Script
<1>1. t \in Seq(Steps) /\ Lone(t) /\ Kinds(t) = {"CloseCell", "EndCell"}
  BY DoType, ScriptTwo
<1> HIDE DEF t
<1>2. \A i \in DOMAIN t : t[i].do # "CreateCell"
  BY <1>1 DEF Kinds
<1>3. Fits(t)
  BY <1>1, <1>2 DEF Fits
<1> QED BY <1>0, <1>3, Apart, Scripting

LEMMA TextBase == ASSUME Base, Text PROVE Base' /\ Fits(tape')
<1> DEFINE a == <<Do("Unowned", 0)>>
           b == <<Do("CreateIdle", 0), Do("Write", 0)>>
           c == <<Do("Write", 0)>>
<1>0. TypeOK /\ ScriptRest /\ UNCHANGED <<worker, closing>>
  BY DEF Base, Text, ScriptRest
<1>1. left' \in Lefts
  BY <1>0, SpendType DEF Text
<1>2. \/ tape' = a
      \/ tape' = b /\ output.idle = NoOwner
      \/ tape' = c
  BY DEF Text, Script
<1>3. /\ a \in Seq(Steps) /\ Lone(a) /\ Kinds(a) = {"Unowned"}
      /\ c \in Seq(Steps) /\ Lone(c) /\ Kinds(c) = {"Write"}
  BY DoType, ScriptOne
<1>4. b \in Seq(Steps) /\ Lone(b) /\ Kinds(b) = {"CreateIdle", "Write"}
  BY DoType, ScriptTwo
<1> HIDE DEF a, b, c
<1>5. /\ \A i \in DOMAIN a : a[i].do # "CreateCell"
      /\ \A i \in DOMAIN b : b[i].do # "CreateCell"
      /\ \A i \in DOMAIN c : c[i].do # "CreateCell"
  BY <1>3, <1>4 DEF Kinds
<1>6. Fits(a) /\ Fits(c) /\ (output.idle = NoOwner => Fits(b))
  BY <1>3, <1>4, <1>5 DEF Fits
<1> QED BY <1>0, <1>1, <1>2, <1>6, Apart, Scripting

LEMMA EnterCellBase == ASSUME Base, NEW c \in Calls, EnterCell(c) PROVE Base' /\ Fits(tape')
<1> DEFINE x == Do("StartCell", c)
           y == Do("CreateCell", c)
           t == <<x, y>>
           u == ClosesIdle \o t
<1>0. /\ TypeOK /\ ScriptRest /\ UNCHANGED <<worker, closing, left>> /\ tape' = u
      /\ output.cell = NoOwner
  BY DEF Base, Scripted, EnterCell, workerRest, ScriptRest, Script
<1>1. x \in Steps /\ y \in Steps /\ x.do = "StartCell" /\ y.do = "CreateCell"
  BY DoType
<1> HIDE DEF x, y
<1>2. t \in Seq(Steps) /\ Lone(t) /\ Kinds(t) = {"StartCell", "CreateCell"}
      /\ Len(t) = 2 /\ t[1] = x /\ t[2] = y
  BY <1>1, ScriptTwo
<1>3. Kinds(ClosesIdle) \cap Kinds(t) = {}
  BY <1>2, ClosesIdleScript
<1> HIDE DEF t
<1>4. u \in Seq(Steps) /\ Lone(u) /\ Kinds(u) = Kinds(ClosesIdle) \cup Kinds(t)
  BY <1>2, <1>3, ClosesIdleScript, Joined
<1>5. \A i \in DOMAIN u : u[i].do = "CreateCell" => i > 1 /\ u[i - 1].do = "StartCell"
  <2> SUFFICES ASSUME NEW i \in DOMAIN u, u[i].do = "CreateCell"
               PROVE  i > 1 /\ u[i - 1].do = "StartCell"
    OBVIOUS
  <2> DEFINE n == Len(ClosesIdle)
  <2>0. /\ n \in Nat /\ Len(u) = n + Len(t) /\ DOMAIN u = 1..Len(u)
        /\ \A m \in 1..Len(t) : u[n + m] = t[m]
    <3>1. ClosesIdle \in Seq(Steps) /\ t \in Seq(Steps)
      BY <1>2, ClosesIdleScript
    <3> QED BY <3>1, JoinedAt
  <2>1. n \in Nat /\ u[n + 1] = x /\ u[n + 2] = y /\ n + 2 \in DOMAIN u
    <3> HIDE DEF n, u
    <3> QED BY <1>2, <2>0
  <2>2. u[n + 2].do = u[i].do
    BY <1>1, <2>1
  <2>3. i = n + 2
    <3> HIDE DEF u, n
    <3> QED BY <1>4, <2>1, <2>2 DEF Lone
  <2> HIDE DEF u, n
  <2>4. i > 1 /\ i - 1 = n + 1
    BY <2>1, <2>3
  <2> QED BY <1>1, <2>1, <2>4
<1> HIDE DEF u
<1>6. Fits(u)
  BY <1>0, <1>2, <1>4, <1>5, ClosesIdleScript DEF Fits
<1> QED BY <1>0, <1>6, Apart, Scripting

(***************************************************************************)
(* The steps, one by one.                                                  *)
(***************************************************************************)
Updated ==
    \/ \E by \in Updaters : Lock(by) \/ OperationFails(by)
    \/ Operate \/ Unlock \/ Publish \/ WriteFails \/ PublishFails
Filed == CopyRest \/ FinalizeStorage \/ \E f \in DOMAIN files : Relocate(f)
Reported ==
    \/ WorkerStarting \/ AssociateActive \/ WorkerReady \/ StartupFailed \/ ReserveImage
    \/ RetainImage \/ ImageFails
Sent ==
    \E c \in Calls :
      \/ Receive(c) \/ Submit(c) \/ AssociateWaiting(c) \/ AdmitSource(c) \/ Return(c)
      \/ RefuseSource(c) \/ Dispatch(c) \/ SettleSource(c)
Told1 == DrainEnds \/ Close \/ CloseQueue
Planned == Acquire \/ WorkerEnds \/ Retire \/ Text \/ CellEnds \/ FinishRecording
           \/ \E c \in Calls : EnterCell(c)
Delivered == \E f \in DOMAIN files : DeliverReceipt(f)

LEMMA NextCases ==
    ASSUME Next
    PROVE  \/ Updated \/ FinishPublication \/ Filed \/ Reported \/ Sent \/ Told1 \/ Planned
           \/ ScriptSteps \/ Delivered
<1>1. CASE Recorder
  BY <1>1 DEF Recorder, Updated, Filed, Told1
<1>2. CASE Tape
  BY <1>2 DEF Tape
<1>3. CASE Worker
  BY <1>3 DEF Worker, Planned, Reported
<1>4. CASE Send
  BY <1>4 DEF Send, Sent
<1>5. CASE Close \/ Closing
  BY <1>5 DEF Closing, Told1, Planned, Filed
<1>6. CASE Failing
  BY <1>6 DEF Failing, Updated, Reported
<1>7. CASE Deliver
  BY <1>7 DEF Deliver, Reported, Delivered
<1> QED BY <1>1, <1>2, <1>3, <1>4, <1>5, <1>6, <1>7 DEF Next

LEMMA UpdatedBase == ASSUME Base, Updated PROVE Base'
<1>1. update.phase # "Free" => Updater
  BY DEF Base, Named, Updater
<1>2. ASSUME NEW by \in Updaters, Lock(by) \/ OperationFails(by) PROVE Base'
  BY <1>2, LockBase, OperationFailsBase
<1>3. CASE Operate
  BY <1>1, <1>3, OperateBase DEF Operate
<1>4. CASE Unlock
  BY <1>1, <1>4, UnlockBase DEF Unlock
<1>5. CASE Publish
  BY <1>1, <1>5, PublishBase DEF Publish
<1>6. CASE WriteFails
  BY <1>1, <1>6, WriteFailsBase DEF WriteFails
<1>7. CASE PublishFails
  BY <1>1, <1>7, PublishFailsBase DEF PublishFails
<1> QED BY <1>2, <1>3, <1>4, <1>5, <1>6, <1>7 DEF Updated

LEMMA ScriptStepsBase == ASSUME Base, ScriptSteps PROVE Base'
BY CloseIdleBase, CloseCellBase, PublishCellBase, PublishReceiptsBase, StartCellBase,
   CreateFileBase, EndCellBase, WriteBase, TextEventBase, UnownedTextBase, WorkerStartedBase,
   WorkerEndedBase, WorkerRetiredBase DEF ScriptSteps

LEMMA BaseStep == ASSUME Base, [Next]_vars PROVE Base'
<1>1. CASE UNCHANGED vars
  BY <1>1 DEF vars, Base, TypeOK, HasFiles, Scripted, Telling, Named, To, Doing
<1>2. CASE Updated
  BY <1>2, UpdatedBase
<1>3. CASE FinishPublication
  BY <1>3, FinishPublicationBase DEF FinishPublication, Base, Named, Updater
<1>4. CASE Filed
  BY <1>4, CopyRestBase, FinalizeStorageBase, RelocateBase DEF Filed
<1>5. CASE Reported
  BY <1>5, WorkerStartingBase, AssociateActiveBase, WorkerReadyBase, StartupFailedBase,
     ReserveImageBase, RetainImageBase, ImageFailsBase DEF Reported
<1>6. CASE Sent
  BY <1>6, ReceiveBase, SubmitBase, AssociateWaitingBase, AdmitSourceBase, ReturnBase,
     RefuseSourceBase, DispatchBase, SettleSourceBase DEF Sent
<1>7. CASE Told1
  BY <1>7, DrainEndsBase, CloseBase, CloseQueueBase DEF Told1
<1>8. CASE Planned
  BY <1>8, AcquireBase, WorkerEndsBase, RetireBase, TextBase, CellEndsBase,
     FinishRecordingBase, EnterCellBase DEF Planned
<1>9. CASE ScriptSteps
  BY <1>9, ScriptStepsBase
<1>10. CASE Delivered
  BY <1>10, DeliverReceiptBase DEF Delivered
<1> QED BY <1>1, <1>2, <1>3, <1>4, <1>5, <1>6, <1>7, <1>8, <1>9, <1>10, NextCases

LEMMA InitBase == ASSUME Init PROVE Base
<1>1. /\ <<>> \in Seq(Queued) /\ <<>> \in Seq(Entries) /\ <<>> \in Seq(Steps)
      /\ NoOwner \in Owner /\ NoUpdate \in Updates /\ NoUpdate.phase = "Free" /\ NoImage \in Images
  BY NoOwnerType, NoUpdateType, NoImageType
<1>2. queue \in Queues
  BY <1>1 DEF Init, Queues, Causes
<1>3. <<>> \in CallMaps /\ <<>> \in FileMaps /\ files = <<>> /\ DOMAIN files = {}
  <2>1. <<>> \in [{} -> CallRecord] /\ <<>> \in [{} -> File]
    BY SMT
  <2>2. files = <<>>
    BY DEF Init
  <2> QED BY <2>1, <2>2 DEF CallMaps, FileMaps
<1>4. journal \in Journals
  BY <1>1, <1>3 DEF Init, Journals, Causes
<1>5. handler \in Handlers /\ source \in Sources1
  BY DEF Init, Handlers, Sources1
<1>6. output \in Outputs
  BY <1>1 DEF Init, Outputs
<1>7. left \in Lefts
  <2>1. left \in [calls : 0..NCalls, cells : Nat, workers : Nat, outputs : Nat, faults : Nat]
    BY TranscriptAssumption DEF Init
  <2> QED BY <2>1, TranscriptAssumption DEF Lefts
<1>8. TypeOK
  BY <1>1, <1>2, <1>3, <1>4, <1>5, <1>6, <1>7
     DEF Init, TypeOK, Handlers, Sources1, Outputs, Images, Lefts
<1>9. HasFiles /\ Scripted /\ Telling /\ Named
  BY <1>1, <1>3 DEF Init, HasFiles, Scripted, Telling, Named, To, Doing, Lone, Kinds
<1> QED BY <1>8, <1>9 DEF Base

(* Types, and every open interval and every receipt has its file: what a   *)
(* holder of the output tape still has to do fits the intervals that are   *)
(* open (src/transcript/queue.rs, src/worker_client/output/tape.rs).       *)
THEOREM TypesHold == Spec => [](TypeOK /\ HasFiles)
<1>1. Init => Base
  BY InitBase
<1>2. Base /\ [Next]_vars => Base'
  BY BaseStep
<1>3. Base => TypeOK /\ HasFiles
  BY DEF Base
<1> QED BY <1>1, <1>2, <1>3, PTL DEF Spec

(***************************************************************************)
(* The account of the queue.                                               *)
(***************************************************************************)
(* What an operation of the queue leaves: what it counts beyond what it    *)
(* holds is what the update took.                                          *)
Counts(q) ==
    /\ q.retained = Len(q.pending) + update.count
    /\ q.retained \in 0..MaxEvents
    /\ q.failure # "None" => q.pending = <<>>

LEMMA PushedCounts ==
    ASSUME TypeOK, NEW q \in Queues, NEW e \in Queued, Counts(q), q.failure = "None"
    PROVE  Counts(Pushed(q, e))
<1>0. /\ q.pending \in Seq(Queued) /\ q.retained \in Int /\ q.observed \in Nat /\ update.count \in Nat
      /\ MaxEvents \in Nat /\ Len(q.pending) \in Nat
  BY TranscriptAssumption, Apart DEF Queues, Updates
<1>1. CASE Merges(q, e)
  <2> DEFINE s == q.pending
             front == SubSeq(s, 1, Len(s) - 1)
             last == <<[s[Len(s)] EXCEPT !.to = e.to]>>
  <2>1. Len(s) \in Nat /\ Len(s) # 0 /\ s \in Seq(Queued) /\ s[Len(s)] \in Queued
    BY <1>0, <1>1 DEF Merges
  <2>2. [s[Len(s)] EXCEPT !.to = e.to] \in Queued
    BY <2>1 DEF Queued, Events
  <2>3. front \in Seq(Queued) /\ Len(front) = Len(s) - 1
    BY <2>1
  <2>4. last \in Seq(Queued) /\ Len(last) = 1
    BY <2>2
  <2>5. Extended(q, e) = [q EXCEPT !.pending = front \o last]
    BY DEF Extended, Front, Last
  <2> HIDE DEF front, last
  <2>6. Len(front \o last) = Len(front) + Len(last)
    <3>1. front \in Seq(Queued) /\ last \in Seq(Queued)
      BY <2>3, <2>4
    <3> HIDE DEF s
    <3> QED BY ONLY <3>1
  <2>7. Len(front \o last) = Len(s) /\ Pushed(q, e) = [q EXCEPT !.pending = front \o last]
    BY <1>1, <2>1, <2>3, <2>4, <2>5, <2>6 DEF Pushed
  <2> DEFINE p == front \o last
  <2>8. Pushed(q, e) = [q EXCEPT !.pending = p] /\ Len(p) = Len(q.pending)
    BY <2>7
  <2> HIDE DEF p
  <2> QED BY <2>8 DEF Counts, Queues
<1>2. CASE ~Merges(q, e) /\ q.retained = MaxEvents
  <2>1. Pushed(q, e) = Stopped(q, "Backlog")
    BY <1>2 DEF Pushed
  <2>2. /\ Stopped(q, "Backlog").pending = <<>>
        /\ Stopped(q, "Backlog").retained = q.retained - Len(q.pending)
    BY StoppedType DEF Causes
  <2>3. q.retained - Len(q.pending) = update.count /\ update.count \in 0..MaxEvents
    BY <1>0 DEF Counts
  <2> QED BY <2>1, <2>2, <2>3, <1>0 DEF Counts
<1>3. CASE ~Merges(q, e) /\ q.retained # MaxEvents
  <2> DEFINE p == Append(q.pending, [e EXCEPT !.at = q.observed + 1])
             r == q.retained + 1
             o == q.observed + 1
  <2>1. Pushed(q, e) = [q EXCEPT !.pending = p, !.retained = r, !.observed = o]
    BY <1>3 DEF Pushed, Added
  <2>2. Len(p) = Len(q.pending) + 1 /\ r = q.retained + 1
    BY <1>0
  <2> HIDE DEF p, r, o
  <2>3. Pushed(q, e).pending = p /\ Pushed(q, e).retained = r /\ Pushed(q, e).failure = q.failure
    BY <2>1 DEF Queues
  <2>4. r \in 0..MaxEvents
    BY <1>0, <1>3, <2>2 DEF Counts
  <2>5. r = Len(p) + update.count
    BY <1>0, <2>2 DEF Counts
  <2> QED BY <2>3, <2>4, <2>5 DEF Counts
<1> QED BY <1>1, <1>2, <1>3

LEMMA StoppedCounts ==
    ASSUME TypeOK, NEW q \in Queues, NEW cause \in Causes, Counts(q)
    PROVE  Counts(Stopped(q, cause))
<1>0. /\ q.pending \in Seq(Queued) /\ q.retained \in Int /\ update.count \in Nat
      /\ MaxEvents \in Nat /\ Len(q.pending) \in Nat
  BY TranscriptAssumption, Apart DEF Queues, Updates
<1>1. /\ Stopped(q, cause).pending = <<>>
      /\ Stopped(q, cause).retained = q.retained - Len(q.pending)
  BY StoppedType
<1>2. q.retained - Len(q.pending) = update.count /\ update.count \in 0..MaxEvents
  BY <1>0 DEF Counts
<1> QED BY <1>0, <1>1, <1>2 DEF Counts

(* The part of the account that a report of an event keeps.                *)
Awake == /\ queue.pending # <<>> => queue.draining
         /\ queue.draining <=> drainer # "Idle"
LEMMA ObserveCounts ==
    ASSUME TypeOK, NEW q \in Queues, NEW e \in Queued, Counts(queue), Alike(q), Awake, Observe(q, e)
    PROVE  /\ queue'.retained = Len(queue'.pending) + update.count
           /\ queue'.retained \in 0..MaxEvents
           /\ queue'.failure # "None" => queue'.pending = <<>>
           /\ Awake'
           /\ queue.draining => UNCHANGED drainer
<1>1. CASE queue.failure # "None"
  BY <1>1 DEF Observe, Counts, Awake
<1>2. CASE queue.failure = "None"
  <2>1. Counts(q) /\ q.failure = "None" /\ q.draining = queue.draining
    BY <1>2 DEF Counts, Alike
  <2>2. Counts(Pushed(q, e)) /\ Pushed(q, e) \in Queues
    BY <2>1, PushedCounts, PushedType
  <2>3. queue' = Draining(Pushed(q, e)) /\ drainer' = Starts(queue)
    BY <1>2 DEF Observe
  <2>4. /\ queue'.retained = Pushed(q, e).retained /\ queue'.pending = Pushed(q, e).pending
        /\ queue'.failure = Pushed(q, e).failure /\ queue'.draining
    BY <2>2, <2>3 DEF Draining, Queues
  <2>5. drainer' # "Idle"
    BY <2>3 DEF Starts, Awake
  <2> QED BY <2>2, <2>3, <2>4, <2>5 DEF Counts, Awake, Starts
<1> QED BY <1>1, <1>2

LEMMA SameCounts ==
    ASSUME Counts(queue), Awake,
           queue'.pending = queue.pending, queue'.retained = queue.retained,
           queue'.failure = queue.failure, queue'.draining = queue.draining, UNCHANGED drainer
    PROVE  /\ queue'.retained = Len(queue'.pending) + update.count
           /\ queue'.retained \in 0..MaxEvents
           /\ queue'.failure # "None" => queue'.pending = <<>>
           /\ Awake'
           /\ queue.draining => UNCHANGED drainer
BY DEF Counts, Awake

(* The queue after a report: an event, or nothing that is counted.         *)
Reports ==
    \/ \E q \in Queues, e \in Queued : Alike(q) /\ Observe(q, e)
    \/ /\ queue' \in Queues
       /\ queue'.pending = queue.pending /\ queue'.retained = queue.retained
       /\ queue'.failure = queue.failure /\ queue'.draining = queue.draining
       /\ queue'.observed = queue.observed /\ UNCHANGED drainer

Account == Accounted /\ Updating
LEMMA AccountSplits == ASSUME Accounted PROVE Counts(queue) /\ Awake
BY DEF Accounted, QueueAccounted, Counts, Awake

LEMMA ReportsAccounted ==
    ASSUME TypeOK, Accounted, Reports, UNCHANGED update
    PROVE  Accounted'
<1>1. Counts(queue) /\ Awake
  BY AccountSplits
<1>2. /\ queue'.retained = Len(queue'.pending) + update.count
      /\ queue'.retained \in 0..MaxEvents
      /\ queue'.failure # "None" => queue'.pending = <<>>
      /\ Awake'
      /\ queue.draining => UNCHANGED drainer
  <2>1. ASSUME NEW q \in Queues, NEW e \in Queued, Alike(q), Observe(q, e)
        PROVE  /\ queue'.retained = Len(queue'.pending) + update.count
               /\ queue'.retained \in 0..MaxEvents
               /\ queue'.failure # "None" => queue'.pending = <<>>
               /\ Awake'
               /\ queue.draining => UNCHANGED drainer
    BY <1>1, <2>1, ObserveCounts
  <2>2. CASE /\ queue'.pending = queue.pending /\ queue'.retained = queue.retained
             /\ queue'.failure = queue.failure /\ queue'.draining = queue.draining
             /\ UNCHANGED drainer
    BY <1>1, <2>2, SameCounts
  <2> QED BY <2>1, <2>2 DEF Reports
<1>3. update.phase # "Free" /\ update.by = Drain => drainer' = "Updating"
  BY <1>2 DEF Accounted
<1> QED BY <1>2, <1>3 DEF Accounted, QueueAccounted, Awake

LEMMA DisableAccounted ==
    ASSUME TypeOK, Accounted, NEW cause \in Causes, Disable(cause), UNCHANGED update
    PROVE  Accounted'
<1>1. Counts(queue) /\ Awake /\ queue \in Queues
  BY AccountSplits, Apart
<1> DEFINE q == Stopped(queue, cause)
<1>2. q \in Queues /\ q.pending = <<>> /\ Counts(q) /\ q.draining = queue.draining
  BY <1>1, StoppedType, StoppedCounts
<1>3. queue' = Draining(q) /\ drainer' = Starts(queue)
  BY DEF Disable
<1> HIDE DEF q
<1>4. queue'.pending = <<>> /\ queue'.retained = q.retained /\ queue'.draining
  BY <1>2, <1>3 DEF Draining, Queues
<1>5. drainer' # "Idle" /\ (queue.draining => UNCHANGED drainer)
  BY <1>1, <1>3 DEF Starts, Awake
<1>6. update.phase # "Free" /\ update.by = Drain => drainer' = "Updating"
  BY <1>1, <1>5 DEF Accounted, Awake
<1> QED BY <1>2, <1>4, <1>5, <1>6 DEF Accounted, QueueAccounted, Counts


(* The thread of an update waits for it.                                   *)
Holding(by) ==
    /\ by \in Updaters
    /\ by = Drain => drainer = "Updating"
    /\ by = Finalize => closing = "Recording"
    /\ \A c \in Calls : /\ by = <<"activate", c>> => handler[c].at = "Received"
                        /\ by = <<"begin", c>> => handler[c].at = "Beginning"
                        /\ by = <<"finish", c>> => handler[c].at = "Finishing"
LEMMA WantsHolds == ASSUME NEW by \in Updaters, Wants(by) PROVE Holding(by)
<1>1. CASE by = Drain
  BY <1>1 DEF Wants, Holding, Drain, Finalize
<1>2. CASE by = Finalize
  BY <1>2 DEF Wants, Holding, Drain, Finalize
<1>3. CASE by[2] \in Calls /\ by[1] = "activate" /\ by = <<"activate", by[2]>>
  BY <1>3 DEF Wants, Holding, Drain, Finalize
<1>4. CASE by[2] \in Calls /\ by[1] = "begin" /\ by = <<"begin", by[2]>>
  BY <1>4 DEF Wants, Holding, Drain, Finalize
<1>5. CASE by[2] \in Calls /\ by[1] = "finish" /\ by = <<"finish", by[2]>>
  BY <1>5 DEF Wants, Holding, Drain, Finalize
<1> QED BY <1>1, <1>2, <1>3, <1>4, <1>5, Who
LEMMA UpdateHolds == ASSUME Account, update.phase # "Free" PROVE Holding(update.by)
BY DEF Account, Accounted, Updating, Holding

(* The account of a queue of which no update has taken anything.           *)
Balanced(q) ==
    /\ q \in Queues /\ q.retained = Len(q.pending) /\ q.retained \in 0..MaxEvents
    /\ q.failure # "None" => q.pending = <<>>
    /\ q.pending = queue.pending /\ q.failure = queue.failure
    /\ q.draining = queue.draining /\ q.observed = queue.observed

LEMMA UncountedBalanced == ASSUME TypeOK, Accounted PROVE Balanced(Uncounted)
<1>0. /\ queue \in Queues /\ update \in Updates /\ MaxEvents \in Nat
      /\ queue.pending \in Seq(Queued) /\ queue.retained \in Int /\ update.count \in Nat
      /\ Len(queue.pending) \in Nat
  BY TranscriptAssumption, Apart DEF Queues, Updates
<1> DEFINE r == queue.retained - update.count
<1>1. r = Len(queue.pending) /\ r \in 0..MaxEvents
  <2> DEFINE n == Len(queue.pending)
             k == update.count
             held == queue.retained
  <2>1. held = n + k /\ held \in 0..MaxEvents
    BY DEF Accounted, QueueAccounted
  <2>2. n \in Nat /\ k \in Nat /\ held \in Int
    BY <1>0
  <2> HIDE DEF n, k, held
  <2>3. held - k = n /\ n \in 0..MaxEvents
    BY <1>0, <2>1, <2>2
  <2> QED BY <2>3 DEF n, k, held
<1>2. Uncounted = [queue EXCEPT !.retained = r]
  BY DEF Uncounted
<1> HIDE DEF r
<1>3. /\ Uncounted.pending = queue.pending /\ Uncounted.retained = r
      /\ Uncounted.failure = queue.failure /\ Uncounted.draining = queue.draining
      /\ Uncounted.observed = queue.observed
  BY <1>0, <1>2 DEF Queues
<1> QED BY <1>1, <1>3, UncountedType DEF Balanced, Accounted, QueueAccounted

LEMMA FreeBalanced ==
    ASSUME TypeOK, Accounted, update.phase \in {"Free", "Publishing"}
    PROVE  Balanced(queue)
<1>1. update.count = 0
  BY DEF Accounted
<1>2. queue \in Queues /\ Len(queue.pending) \in Nat
  BY Apart DEF Queues
<1> QED BY <1>1, <1>2 DEF Accounted, QueueAccounted, Balanced

Same(handlers) ==
    /\ handlers \in Handlers
    /\ \A c \in Calls : handlers[c].at = handler[c].at /\ handlers[c].id = handler[c].id
LEMMA SameHandlers == ASSUME TypeOK, NEW by \in Updaters PROVE Same(handler) /\ Same(Addressed(by))
<1>1. handler \in Handlers /\ Addressed(by) \in Handlers
  BY Apart, AddressedType
<1>2. \A c \in Calls : Addressed(by)[c].at = handler[c].at /\ Addressed(by)[c].id = handler[c].id
  BY <1>1, Who DEF Addressed, Handlers
<1> QED BY <1>1, <1>2 DEF Same

LEMMA ReturnedAccount ==
    ASSUME TypeOK, Account, NEW by, Holding(by), NEW handlers, Same(handlers), NEW done \in BOOLEAN,
           Returned(by, done, handlers), update' = NoUpdate, UNCHANGED transport,
           NEW q, Balanced(q), queue' = q \/ (queue'.pending = <<>> /\ queue'.retained = 0
                                              /\ queue'.draining = q.draining)
    PROVE  Account'
<1>0. by \in Updaters /\ handler \in Handlers /\ MaxEvents \in Nat
  BY Apart, TranscriptAssumption DEF Holding
<1>1. update'.phase = "Free" /\ update'.batch = <<>> /\ update'.count = 0
  BY DEF NoUpdate
<1>2. drainer' # "Idle" <=> drainer # "Idle"
  BY DEF Returned, Holding
<1>3. queue'.draining = queue.draining /\ queue'.retained = Len(queue'.pending)
      /\ queue'.retained \in 0..MaxEvents /\ (queue'.failure # "None" => queue'.pending = <<>>)
  BY <1>0 DEF Balanced
<1>4. queue'.pending # <<>> => queue.draining
  <2>1. queue'.pending # <<>> => queue.pending # <<>>
    BY DEF Balanced
  <2> QED BY <2>1 DEF Account, Accounted, QueueAccounted
<1>5. Accounted'
  BY <1>1, <1>2, <1>3, <1>4 DEF Account, Accounted, QueueAccounted
<1>6. \A c \in Calls :
         /\ handler'[c].id => handler'[c].at \in {"Running", "Finishing", "Settled"}
         /\ handler'[c].at = "Finishing" => handler'[c].id
         /\ c > transport.received => handler'[c].at = "Unsent"
  <2> SUFFICES ASSUME NEW c \in Calls
               PROVE  /\ handler'[c].id => handler'[c].at \in {"Running", "Finishing", "Settled"}
                      /\ handler'[c].at = "Finishing" => handler'[c].id
                      /\ c > transport.received => handler'[c].at = "Unsent"
    OBVIOUS
  <2>1. /\ handlers[c].id => handlers[c].at \in {"Running", "Finishing", "Settled"}
        /\ handlers[c].at = "Finishing" => handlers[c].id
        /\ c > transport.received => handlers[c].at = "Unsent"
        /\ by = <<"activate", c>> => handlers[c].at = "Received"
        /\ by = <<"begin", c>> => handlers[c].at = "Beginning"
        /\ by = <<"finish", c>> => handlers[c].at = "Finishing"
    BY DEF Account, Updating, Same, Holding
  <2>2. CASE by = Drain \/ by = Finalize
    BY <2>1, <2>2 DEF Returned, Drain, Finalize
  <2>3. CASE by[2] \in Calls /\ by[2] # c
    <3>1. handler'[c] = handlers[c]
      BY <1>0, <2>3, Who DEF Returned, Same, Handlers
    <3> QED BY <2>1, <3>1
  <2>4. CASE by = <<"activate", c>>
    BY <2>1, <2>4 DEF Returned, Same, Handlers
  <2>5. CASE by = <<"begin", c>>
    BY <2>1, <2>5 DEF Returned, Same, Handlers
  <2>6. CASE by = <<"finish", c>>
    BY <2>1, <2>6 DEF Returned, Same, Handlers
  <2> QED BY <1>0, <2>2, <2>3, <2>4, <2>5, <2>6, Who
<1>7. Updating'
  BY <1>1, <1>6 DEF Updating
<1> QED BY <1>5, <1>7 DEF Account

LEMMA TakesAccount ==
    ASSUME TypeOK, Account, NEW by, Holding(by), NEW phase \in {"First", "Second"}, NEW q,
           Balanced(q), Takes(by, phase, q), journal'.failure = "None", Same(handler'),
           UNCHANGED <<drainer, closing, transport>>
    PROVE  Account'
<1>0. q \in Queues /\ q.pending \in Seq(Queued)
  BY DEF Balanced, Queues
<1>1. /\ update'.by = by /\ update'.phase = phase /\ update'.batch = q.pending
      /\ update'.count = Len(q.pending)
  BY DEF Takes
<1>2. /\ queue'.pending = <<>> /\ queue'.retained = q.retained /\ queue'.draining = queue.draining
  BY <1>0 DEF Takes, Queues, Balanced
<1>3. Accounted'
  BY <1>1, <1>2, <1>0 DEF Accounted, QueueAccounted, Account, Balanced, Holding
<1>4. Updating'
  BY <1>1 DEF Updating, Account, Holding, Same
<1> QED BY <1>3, <1>4 DEF Account

LEMMA FailsAccount ==
    ASSUME TypeOK, Account, NEW by, Holding(by), NEW j \in Journals, NEW q, Balanced(q),
           Fails(by, j, q), UNCHANGED transport
    PROVE  Account'
<1>0. q \in Queues /\ j.failure \in Causes /\ by \in Updaters /\ Len(q.pending) \in Nat
  BY DEF Balanced, Journals, Holding, Queues
<1>1. /\ queue'.pending = <<>> /\ queue'.retained = q.retained - Len(q.pending)
      /\ queue'.draining = q.draining
  BY <1>0, StoppedType DEF Fails
<1>2. queue'.retained = 0
  BY <1>0, <1>1 DEF Balanced
<1> QED BY <1>0, <1>1, <1>2, SameHandlers, ReturnedAccount DEF Fails

LEMMA CompletesAccount ==
    ASSUME TypeOK, Account, NEW by, Holding(by), NEW j \in Journals, NEW q, Balanced(q),
           Completes(by, j, q), UNCHANGED transport
    PROVE  Account'
<1>0. q \in Queues /\ by \in Updaters
  BY DEF Balanced, Holding
<1>1. CASE Fails(by, j, q)
  BY <1>1, FailsAccount
<1>2. CASE Fails(by, [j EXCEPT !.failure = q.failure], q)
  <2>1. [j EXCEPT !.failure = q.failure] \in Journals
    BY <1>0 DEF Journals, Queues
  <2> QED BY <1>2, <2>1, FailsAccount
<1>3. CASE /\ j.failure = "None" /\ journal' = j /\ Takes(by, "Second", q)
           /\ handler' = Addressed(by) /\ UNCHANGED <<drainer, closing>>
  <2>1. Same(handler')
    BY <1>0, <1>3, SameHandlers
  <2> QED BY <1>3, <2>1, TakesAccount
<1>4. CASE queue' = q /\ update' = NoUpdate /\ Returned(by, TRUE, Addressed(by))
  <2>1. Same(Addressed(by))
    BY <1>0, SameHandlers
  <2> QED BY <1>4, <2>1, ReturnedAccount
<1> QED BY <1>1, <1>2, <1>3, <1>4 DEF Completes

LEMMA OperatesAccount ==
    ASSUME TypeOK, Account, NEW by, Holding(by), NEW j \in Journals, NEW q, Balanced(q),
           Operates(by, j, q), UNCHANGED transport
    PROVE  Account'
<1>1. RecordAll(j, Operation(by, j)) \in Journals
  BY OperationType, RecordAllType DEF Holding
<1> QED BY <1>1, CompletesAccount DEF Operates

LEMMA LockAccount == ASSUME TypeOK, Account, NEW by \in Updaters, Lock(by) PROVE Account'
<1> DEFINE k == [journal EXCEPT !.failure = IF @ = "None" THEN queue.failure ELSE @]
<1>0. /\ Holding(by) /\ Balanced(queue) /\ UNCHANGED transport /\ journal \in Journals /\ k \in Journals
  <2>1. Holding(by) /\ UNCHANGED transport /\ update.phase = "Free"
    BY WantsHolds DEF Lock
  <2>2. journal \in Journals /\ queue \in Queues
    BY Apart
  <2>3. k \in Journals
    BY <2>2 DEF Journals, Queues
  <2> QED BY <2>1, <2>2, <2>3, FreeBalanced DEF Account
<1>1. CASE Fails(by, k, queue)
  BY <1>0, <1>1, FailsAccount
<1>2. CASE Operates(by, journal, queue)
  BY <1>0, <1>2, OperatesAccount
<1>3. CASE /\ journal.failure = "None" /\ Takes(by, "First", queue)
           /\ UNCHANGED <<journal, handler, drainer, closing>>
  <2>1. Same(handler')
    BY <1>3, SameHandlers
  <2> QED BY <1>0, <1>3, <2>1, TakesAccount
<1> QED BY <1>1, <1>2, <1>3 DEF Lock

LEMMA OperateAccount == ASSUME TypeOK, Account, Operate PROVE Account'
<1>1. Holding(update.by) /\ Balanced(Uncounted) /\ RecordAll(journal, update.batch) \in Journals
  BY UpdateHolds, UncountedBalanced, BatchType DEF Account, Operate
<1> QED BY <1>1, OperatesAccount DEF Operate

LEMMA UnlockAccount == ASSUME TypeOK, Account, Unlock PROVE Account'
<1> DEFINE j == RecordAll(journal, update.batch)
<1>1. Holding(update.by) /\ Balanced(Uncounted) /\ j \in Journals /\ UNCHANGED transport
  BY UpdateHolds, UncountedBalanced, BatchType DEF Account, Unlock
<1>2. CASE Fails(update.by, j, Uncounted)
  BY <1>1, <1>2, FailsAccount
<1>3. CASE queue' = Uncounted /\ update' = NoUpdate /\ Returned(update.by, TRUE, handler)
  <2>1. Same(handler)
    BY <1>1, SameHandlers DEF Holding
  <2> QED BY <1>1, <1>3, <2>1, ReturnedAccount
<1> QED BY <1>2, <1>3 DEF Unlock

LEMMA WriteFailsAccount == ASSUME TypeOK, Account, WriteFails PROVE Account'
<1>1. Holding(update.by) /\ Balanced(Uncounted) /\ UNCHANGED transport
  BY UpdateHolds, UncountedBalanced DEF Account, WriteFails
<1>2. PICK k \in 0..Len(update.batch) :
         Fails(update.by, Broken(RecordAll(journal, SubSeq(update.batch, 1, k))), Uncounted)
  BY DEF WriteFails
<1>3. Broken(RecordAll(journal, SubSeq(update.batch, 1, k))) \in Journals
  BY BatchType, BrokenType
<1> QED BY <1>1, <1>2, <1>3, FailsAccount

LEMMA OperationFailsAccount ==
    ASSUME TypeOK, Account, NEW by \in Updaters, OperationFails(by) PROVE Account'
<1>1. Holding(by) /\ Balanced(queue) /\ UNCHANGED transport
  BY WantsHolds, FreeBalanced DEF Account, OperationFails
<1>2. Broken(journal) \in Journals
  BY Apart, BrokenType
<1> QED BY <1>1, <1>2, FailsAccount DEF OperationFails

LEMMA PublishFailsAccount == ASSUME TypeOK, Account, PublishFails PROVE Account'
<1>1. Holding(update.by) /\ Balanced(queue) /\ UNCHANGED transport
  BY UpdateHolds, FreeBalanced DEF Account, PublishFails
<1>2. Broken(journal) \in Journals
  BY Apart, BrokenType
<1> QED BY <1>1, <1>2, FailsAccount DEF PublishFails

LEMMA PublishAccount == ASSUME TypeOK, Account, Publish PROVE Account'
<1> DEFINE j == RecordAll(journal, update.batch)
<1>1. /\ Holding(update.by) /\ Balanced(Uncounted) /\ j \in Journals /\ UNCHANGED transport
      /\ j.published = journal.published
  <2>1. update.batch \in Seq(Entries) /\ journal \in Journals
    <3>1. update.batch \in Seq(Queued)
      BY Apart DEF Updates
    <3> QED BY <3>1, Apart, QueuedIsEntry
  <2> QED BY <2>1, UpdateHolds, UncountedBalanced, RecordAllType DEF Account, Publish
<1>2. CASE Fails(update.by, j, Uncounted)
  BY <1>1, <1>2, FailsAccount
<1>3. CASE /\ j.failure = "None" /\ journal' = Created(j) /\ queue' = Uncounted
           /\ update' = [update EXCEPT !.phase = "Publishing", !.batch = <<>>, !.count = 0]
           /\ UNCHANGED <<handler, drainer, closing>>
  <2>1. update \in Updates
    BY Apart
  <2>2. /\ update'.phase = "Publishing" /\ update'.batch = <<>> /\ update'.count = 0
        /\ update'.by = update.by
    BY <1>3, <2>1 DEF Updates
  <2>3. journal'.failure = "None" /\ journal'.published = journal.published
    BY <1>1, <1>3, CreatedType
  <2>4. update.phase # "Free" /\ MustPublish(update.by)
    BY DEF Publish
  <2> HIDE DEF j
  <2>5. Accounted'
    <3>1. Uncounted.pending # <<>> => queue.draining
      BY <2>1, Apart DEF Account, Accounted, QueueAccounted, Uncounted, Queues
    <3> QED BY <1>1, <1>3, <2>2, <2>4, <3>1 DEF Account, Accounted, QueueAccounted, Balanced
  <2>6. Updating'
    BY <1>1, <1>3, <2>2, <2>3, <2>4 DEF Account, Updating, MustPublish
  <2> QED BY <2>5, <2>6 DEF Account
<1> QED BY <1>2, <1>3 DEF Publish

LEMMA FinishPublicationAccount == ASSUME TypeOK, Account, FinishPublication PROVE Account'
<1> DEFINE k == [journal EXCEPT !.published = TRUE]
           activated == Plain("RecordingActivated", 0)
<1>1. Holding(update.by) /\ Balanced(queue) /\ UNCHANGED transport
  BY UpdateHolds, FreeBalanced DEF Account, FinishPublication
<1>2. k \in Journals /\ activated \in Entries
  <2>1. journal \in Journals
    BY Apart
  <2> QED BY <2>1, PlainType DEF Journals, Entries, OfUpdate
<1>3. Completes(update.by, Record(k, activated), queue)
  BY DEF FinishPublication
<1> HIDE DEF k, activated
<1>4. Record(k, activated) \in Journals
  BY <1>2, RecordType
<1> QED BY <1>1, <1>3, <1>4, CompletesAccount


(* What the other steps report: nothing, or an event that is neither about *)
(* the source of a call nor about the bytes of a file.                     *)
Silently ==
    /\ queue' \in Queues
    /\ queue'.pending = queue.pending /\ queue'.retained = queue.retained
    /\ queue'.failure = queue.failure /\ queue'.draining = queue.draining
    /\ queue'.observed = queue.observed /\ UNCHANGED drainer
Routine(e) == e \in Queued /\ e.kind \notin {"SourceAdmitted", "SourceAssociated", "SourceFinished",
                                             "OutputText", "OutputSummary"}
Routinely ==
    Silently \/ \E q \in Queues, e \in Queued : Alike(q) /\ Routine(e) /\ Observe(q, e)
LEMMA RoutinelyReports == ASSUME Routinely PROVE Reports
BY DEF Routinely, Silently, Reports
LEMMA NothingSilent == ASSUME TypeOK, UNCHANGED <<queue, drainer>> PROVE Silently /\ Routinely
<1>1. queue \in Queues
  BY Apart
<1> QED BY <1>1 DEF Silently, Routinely
LEMMA ObservesReports == ASSUME TypeOK, NEW e \in Queued, Observe(queue, e) PROVE Reports
<1>1. queue \in Queues /\ Alike(queue)
  BY Apart DEF Alike
<1> QED BY <1>1 DEF Reports
LEMMA ObservesRoutine ==
    ASSUME TypeOK, NEW q \in Queues, Alike(q), NEW e \in Queued, Routine(e), Observe(q, e)
    PROVE  Routinely
BY DEF Routinely

LEMMA QueueAlike == Alike(queue)
BY DEF Alike
LEMMA WorkerStartingRoutine == ASSUME TypeOK, WorkerStarting PROVE Routinely
<1> DEFINE q == [queue EXCEPT !.starting = 0]
           e == Plain("WorkerStarting", 0)
<1>1. queue \in Queues
  BY Apart
<1>2. q \in Queues /\ Alike(q)
  BY <1>1 DEF Queues, Alike
<1>3. e \in Queued /\ Routine(e)
  <2>1. e \in Queued
    BY PlainQueued DEF OfQueue
  <2> QED BY <2>1 DEF Routine, Plain, Event
<1>4. Observe(q, e)
  BY DEF WorkerStarting
<1> HIDE DEF q, e
<1> QED BY <1>2, <1>3, <1>4, ObservesRoutine

LEMMA WaitingRoutine == ASSUME TypeOK, NEW c \in Calls PROVE Waiting(c) \in Queued /\ Routine(Waiting(c))
BY WaitingType DEF Routine, Waiting, Event

LEMMA AssociateActiveRoutine == ASSUME TypeOK, AssociateActive PROVE Routinely
<1>1. ASSUME NEW c \in Calls, Observe(queue, Waiting(c)) PROVE Routinely
  BY <1>1, WaitingRoutine, Apart, QueueAlike, ObservesRoutine
<1>2. CASE UNCHANGED <<queue, drainer>>
  BY <1>2, NothingSilent
<1> QED BY <1>1, <1>2 DEF AssociateActive
LEMMA AssociateWaitingRoutine ==
    ASSUME TypeOK, NEW c \in Calls, AssociateWaiting(c) PROVE Routinely
<1>1. CASE Observe(queue, Waiting(c))
  BY <1>1, WaitingRoutine, Apart, QueueAlike, ObservesRoutine
<1>2. CASE UNCHANGED <<queue, drainer>>
  BY <1>2, NothingSilent
<1> QED BY <1>1, <1>2 DEF AssociateWaiting

LEMMA WorkerReadyRoutine == ASSUME TypeOK, WorkerReady PROVE Routinely
<1> DEFINE q == [queue EXCEPT !.starting = 0]
           e == Event("WorkerReady", 0, queue.owner, 0, 0)
<1>1. q \in Queues /\ Alike(q)
  <2>1. queue \in Queues
    BY Apart
  <2> QED BY <2>1 DEF Queues, Alike
<1>2. e \in Queued /\ Routine(e)
  <2>1. e \in Queued
    BY OwnerType, EventQueued DEF OfQueue
  <2> QED BY <2>1 DEF Routine, Event
<1>3. Observe(q, e) \/ UNCHANGED <<queue, drainer>>
  BY DEF WorkerReady
<1> HIDE DEF q, e
<1> QED BY <1>1, <1>2, <1>3, ObservesRoutine, NothingSilent

LEMMA StartupFailedRoutine == ASSUME TypeOK, StartupFailed PROVE Routinely
<1> DEFINE q == [queue EXCEPT !.starting = 0]
           of == [NoOwner EXCEPT !.session = queue.starting]
           e == Event("StartupFailed", 0, of, 0, 0)
<1>1. q \in Queues /\ Alike(q) /\ queue.starting \in Nat
  <2>1. queue \in Queues
    BY Apart
  <2> QED BY <2>1 DEF Queues, Alike
<1>2. of \in Owner
  BY <1>1 DEF NoOwner, Owner
<1>3. Observe(q, e)
  BY DEF StartupFailed
<1> HIDE DEF of
<1>4. e \in Queued /\ Routine(e)
  <2>1. e \in Queued
    BY <1>2, EventQueued DEF OfQueue
  <2> QED BY <2>1 DEF Routine, Event
<1> HIDE DEF q, e
<1> QED BY <1>1, <1>3, <1>4, ObservesRoutine

LEMMA ReserveImageRoutine == ASSUME TypeOK, ReserveImage PROVE Routinely
<1> DEFINE e == Event("ImageOmitted", 0, queue.owner, 0, 0)
<1>0. queue \in Queues /\ queue.images \in Nat
  BY Apart DEF Queues
<1>1. e \in Queued /\ Routine(e)
  <2>1. e \in Queued
    BY OwnerType, EventQueued DEF OfQueue
  <2> QED BY <2>1 DEF Routine, Event
<1>2. CASE queue' = [queue EXCEPT !.images = @ + 1] /\ UNCHANGED drainer
  <2>1. Silently
    BY <1>0, <1>2 DEF Silently, Queues
  <2> QED BY <2>1 DEF Routinely
<1>3. CASE Observe(queue, e)
  <2> HIDE DEF e
  <2> QED BY <1>0, <1>1, <1>3, QueueAlike, ObservesRoutine
<1>4. CASE UNCHANGED <<queue, drainer>>
  BY <1>4, NothingSilent
<1> QED BY <1>2, <1>3, <1>4 DEF ReserveImage

LEMMA RetainImageRoutine == ASSUME TypeOK, RetainImage PROVE Routinely
<1> DEFINE e == Event("ImageRetained", 0, image.owner, 0, 0)
<1>1. e \in Queued /\ Routine(e)
  <2>1. e \in Queued
    BY Apart, EventQueued DEF OfQueue, Images
  <2> QED BY <2>1 DEF Routine, Event
<1>2. Observe(queue, e)
  BY DEF RetainImage
<1> HIDE DEF e
<1> QED BY <1>1, <1>2, Apart, QueueAlike, ObservesRoutine

LEMMA ReceiveRoutine == ASSUME TypeOK, NEW c \in Calls, Receive(c) PROVE Routinely
<1> DEFINE e == Plain("Protocol", c)
<1>1. e \in Queued /\ Routine(e)
  <2>1. e \in Queued
    BY CallsAreNat, PlainQueued DEF OfQueue
  <2> QED BY <2>1 DEF Routine, Plain, Event
<1>2. Observe(queue, e)
  BY DEF Receive
<1> HIDE DEF e
<1> QED BY <1>1, <1>2, Apart, QueueAlike, ObservesRoutine

LEMMA StartCellRoutine == ASSUME TypeOK, StartCell PROVE Routinely
<1> DEFINE c == Head(tape).arg
           owner == [session |-> queue.owner.session, cell |-> queue.owner.cell + 1,
                     interval |-> "Cell"]
           q == [queue EXCEPT !.owner = owner, !.cell = c, !.images = 0]
           e == Event("CellStarted", c, owner, 0, 0)
<1>0. queue \in Queues /\ queue.owner \in Owner
  BY OwnerType
<1>1. c \in Nat
  <2>1. tape # <<>> /\ Head(tape).do = "StartCell"
    BY DEF StartCell, Doing
  <2>2. c \in Calls
    BY <2>1, Head1 DEF Steps
  <2> QED BY <2>2, CallsAreNat
<1>2. owner \in Owner
  BY <1>0 DEF Owner
<1>3. Observe(q, e) \/ UNCHANGED <<queue, drainer>>
  BY DEF StartCell
<1> HIDE DEF owner, c
<1>4. q \in Queues /\ Alike(q)
  BY <1>0, <1>1, <1>2 DEF Queues, Alike
<1>5. e \in Queued /\ Routine(e)
  <2>1. e \in Queued
    BY <1>1, <1>2, EventQueued DEF OfQueue
  <2> QED BY <2>1 DEF Routine, Event
<1> HIDE DEF q, e
<1> QED BY <1>3, <1>4, <1>5, ObservesRoutine, NothingSilent

LEMMA EndCellRoutine == ASSUME TypeOK, EndCell PROVE Routinely
<1> DEFINE q == [queue EXCEPT !.owner.interval = "Post", !.cell = 0, !.images = 0]
           e == Event("CellEnded", queue.cell, queue.owner, 0, 0)
<1>0. queue \in Queues /\ queue.owner \in Owner /\ queue.cell \in Nat
  BY OwnerType DEF Queues
<1>1. q \in Queues /\ Alike(q)
  <2> DEFINE o == [queue.owner EXCEPT !.interval = "Post"]
  <2>1. o \in Owner /\ q = [queue EXCEPT !.owner = o, !.cell = 0, !.images = 0]
    BY <1>0 DEF Queues, Owner
  <2> HIDE DEF o
  <2> QED BY <1>0, <2>1 DEF Queues, Alike
<1>2. e \in Queued /\ Routine(e)
  <2>1. e \in Queued
    BY <1>0, EventQueued DEF OfQueue
  <2> QED BY <2>1 DEF Routine, Event
<1>3. Observe(q, e) \/ UNCHANGED <<queue, drainer>>
  BY DEF EndCell
<1> HIDE DEF q, e
<1> QED BY <1>1, <1>2, <1>3, ObservesRoutine, NothingSilent

LEMMA UnownedTextRoutine == ASSUME TypeOK, UnownedText PROVE Routinely
<1> DEFINE e == Plain("ProcessOutput", 0)
<1>1. e \in Queued /\ Routine(e)
  <2>1. e \in Queued
    BY PlainQueued DEF OfQueue
  <2> QED BY <2>1 DEF Routine, Plain, Event
<1>2. Observe(queue, e)
  BY DEF UnownedText
<1> HIDE DEF e
<1> QED BY <1>1, <1>2, Apart, QueueAlike, ObservesRoutine

LEMMA WorkerStartedRoutine == ASSUME TypeOK, WorkerStarted PROVE Routinely
<1> DEFINE session == queue.sessions + 1
           owner == [session |-> session, cell |-> 0, interval |-> "Startup"]
           q == [queue EXCEPT !.sessions = session, !.owner = owner, !.images = 0,
                              !.starting = session]
           e == Event("WorkerStarted", 0, owner, 0, 0)
<1>0. queue \in Queues
  BY Apart
<1>1. session \in Nat
  BY <1>0 DEF Queues
<1>2. Observe(q, e)
  BY DEF WorkerStarted
<1> HIDE DEF session
<1>3. owner \in Owner
  BY <1>1 DEF Owner
<1> HIDE DEF owner
<1>4. q \in Queues /\ Alike(q)
  BY <1>0, <1>1, <1>3 DEF Queues, Alike
<1>5. e \in Queued /\ Routine(e)
  <2>1. e \in Queued
    BY <1>3, EventQueued DEF OfQueue
  <2> QED BY <2>1 DEF Routine, Event
<1> HIDE DEF q, e
<1> QED BY <1>2, <1>4, <1>5, ObservesRoutine

LEMMA WorkerEndedRoutine == ASSUME TypeOK, WorkerEnded PROVE Routinely
<1> DEFINE q == [queue EXCEPT !.owner = NoOwner]
           e == Event("WorkerEnded", 0, queue.owner, 0, 0)
<1>1. q \in Queues /\ Alike(q)
  <2>1. queue \in Queues
    BY Apart
  <2> QED BY <2>1, NoOwnerType DEF Queues, Alike
<1>2. e \in Queued /\ Routine(e)
  <2>1. e \in Queued
    BY OwnerType, EventQueued DEF OfQueue
  <2> QED BY <2>1 DEF Routine, Event
<1>3. Observe(q, e) \/ UNCHANGED <<queue, drainer>>
  BY DEF WorkerEnded
<1> HIDE DEF q, e
<1> QED BY <1>1, <1>2, <1>3, ObservesRoutine, NothingSilent

LEMMA WorkerRetiredRoutine == ASSUME TypeOK, WorkerRetired PROVE Routinely
<1>0. queue \in Queues
  BY Apart
<1>1. Silently
  BY <1>0, NoOwnerType DEF WorkerRetired, Silently, Queues
<1> QED BY <1>1 DEF Routinely

(* What the steps of a script report about bytes and sources.              *)
Summarizes == \E f \in DOMAIN files : Observe(queue, Summary(f))
LEMMA SummarizesReports == ASSUME TypeOK, Summarizes PROVE Reports
BY SummaryType, ObservesReports DEF Summarizes
LEMMA PublishesSummarizes ==
    ASSUME Base, NEW f \in output.receipts, PublishesReceipt(f)
    PROVE  Summarizes
BY DEF Summarizes, PublishesReceipt, Base, HasFiles
LEMMA CloseIdleSummarizes == ASSUME Base, CloseIdle PROVE Summarizes
<1>1. TypeOK /\ Doing("CloseIdle")
  BY DEF Base, CloseIdle
<1>2. To("CloseIdle")
  BY <1>1, Head1 DEF Doing, To
<1>3. output.idle \in DOMAIN files
  BY <1>2 DEF Base, Scripted, HasFiles
<1> QED BY <1>3 DEF Summarizes, CloseIdle

LEMMA ScriptStepsReport == ASSUME Base, ScriptSteps PROVE Reports
<1>0. TypeOK
  BY DEF Base
<1>1. CASE CloseIdle
  BY <1>0, <1>1, CloseIdleSummarizes, SummarizesReports
<1>2. CASE CloseCell \/ Write \/ CreateFile("CreateCell", "cell") \/ CreateFile("CreateIdle", "idle")
  BY <1>0, <1>2, NothingSilent, RoutinelyReports DEF CloseCell, Write, CreateFile
<1>3. CASE PublishCell
  <2>1. ASSUME NEW f \in output.receipts, PublishesReceipt(f) PROVE Reports
    BY <1>0, <2>1, PublishesSummarizes, SummarizesReports
  <2> QED BY <1>0, <1>3, <2>1, NothingSilent, RoutinelyReports DEF PublishCell
<1>4. CASE PublishReceipts
  <2>1. ASSUME NEW f \in output.receipts, PublishesReceipt(f) PROVE Reports
    BY <1>0, <2>1, PublishesSummarizes, SummarizesReports
  <2> QED BY <1>0, <1>4, <2>1, NothingSilent, RoutinelyReports DEF PublishReceipts
<1>5. CASE TextEvent
  <2>1. tape # <<>> /\ Head(tape).do = "Text" /\ Observe(queue, Head(tape).arg)
    BY <1>5 DEF TextEvent, Doing
  <2>2. Head(tape).arg \in Queued
    BY <1>0, <2>1, Head1 DEF Steps
  <2> QED BY <1>0, <2>1, <2>2, ObservesReports
<1>6. CASE StartCell \/ EndCell \/ UnownedText \/ WorkerStarted \/ WorkerEnded \/ WorkerRetired
  BY <1>0, <1>6, StartCellRoutine, EndCellRoutine, UnownedTextRoutine, WorkerStartedRoutine,
     WorkerEndedRoutine, WorkerRetiredRoutine, RoutinelyReports
<1> QED BY <1>1, <1>2, <1>3, <1>4, <1>5, <1>6 DEF ScriptSteps

LEMMA SentReports == ASSUME TypeOK, Sent PROVE Reports
<1>1. ASSUME NEW c \in Calls, Receive(c) \/ AssociateWaiting(c) PROVE Reports
  BY <1>1, ReceiveRoutine, AssociateWaitingRoutine, RoutinelyReports
<1>2. ASSUME NEW c \in Calls, Submit(c) \/ Return(c) \/ RefuseSource(c) PROVE Reports
  BY <1>2, NothingSilent, RoutinelyReports DEF Submit, Return, RefuseSource
<1>3. ASSUME NEW c \in Calls, AdmitSource(c) \/ Dispatch(c) \/ SettleSource(c) PROVE Reports
  <2>1. /\ Plain("SourceAdmitted", c) \in Queued /\ Plain("SourceFinished", c) \in Queued
        /\ Event("SourceAssociated", c, queue.owner, 0, 0) \in Queued
    BY SourceEvents
  <2> QED BY <1>3, <2>1, NothingSilent, RoutinelyReports, ObservesReports
          DEF AdmitSource, Dispatch, SettleSource
<1> QED BY <1>1, <1>2, <1>3 DEF Sent


(***************************************************************************)
(* The theorem about the account.                                          *)
(***************************************************************************)
LEMMA UpdatingStays ==
    ASSUME TypeOK, Updating, UNCHANGED <<update, transport>>, journal'.failure = journal.failure,
           journal'.published = journal.published, UNCHANGED <<handler, closing>>
    PROVE  Updating'
BY DEF Updating, MustPublish

LEMMA SentUpdating == ASSUME TypeOK, Updating, Sent PROVE Updating' /\ UNCHANGED update
<1>0. handler \in Handlers /\ transport \in [closed : BOOLEAN, received : Nat] /\ Calls \subseteq Nat
  BY Apart, CallsAreNat
<1>1. ASSUME NEW c \in Calls, Submit(c) \/ AssociateWaiting(c) \/ AdmitSource(c)
                              \/ RefuseSource(c) \/ Dispatch(c) \/ SettleSource(c)
      PROVE  Updating' /\ UNCHANGED update
  BY <1>1, UpdatingStays DEF Submit, AssociateWaiting, AdmitSource, RefuseSource, Dispatch,
                             SettleSource, sendRest
<1>2. ASSUME NEW c \in Calls, Return(c) PROVE Updating' /\ UNCHANGED update
  <2>1. /\ handler[c].at = "Running" /\ UNCHANGED <<transport, update, journal, closing>>
        /\ handler' = [handler EXCEPT ![c].at = IF handler[c].id THEN "Finishing" ELSE "Settled"]
    BY <1>2 DEF Return, sendRest
  <2>2. /\ handler'[c].at = IF handler[c].id THEN "Finishing" ELSE "Settled"
        /\ handler'[c].id = handler[c].id
        /\ \A d \in Calls \ {c} : handler'[d] = handler[d]
    BY <1>0, <2>1 DEF Handlers
  <2> QED BY <2>1, <2>2 DEF Updating, MustPublish
<1>3. ASSUME NEW c \in Calls, Receive(c) PROVE Updating' /\ UNCHANGED update
  <2>1. /\ c = transport.received + 1 /\ UNCHANGED <<update, journal, closing>>
        /\ transport'.received = c
    BY <1>0, <1>3 DEF Receive
  <2>2. \E at \in {"Received", "Rejected"} : handler' = [handler EXCEPT ![c].at = at]
    BY <1>3 DEF Receive
  <2>3. PICK at \in {"Received", "Rejected"} : handler' = [handler EXCEPT ![c].at = at]
    BY <2>2
  <2>4. /\ handler'[c].at = at /\ handler'[c].id = handler[c].id
        /\ \A d \in Calls \ {c} : handler'[d] = handler[d]
    BY <1>0, <2>3 DEF Handlers
  <2>5. handler[c].at = "Unsent" /\ ~handler[c].id
    BY <1>0, <2>1 DEF Updating, Handlers
  <2>6. \A d \in Calls : d > c => d > transport.received
    BY <1>0, <2>1
  <2> QED BY <1>0, <2>1, <2>4, <2>5, <2>6 DEF Updating, MustPublish
<1> QED BY <1>1, <1>2, <1>3 DEF Sent

LEMMA UpdatedAccount == ASSUME TypeOK, Account, Updated PROVE Account'
BY LockAccount, OperationFailsAccount, OperateAccount, UnlockAccount, PublishAccount,
   WriteFailsAccount, PublishFailsAccount DEF Updated

LEMMA FiledAccount == ASSUME TypeOK, Account, Filed PROVE Account'
<1>0. Accounted /\ Updating /\ journal \in Journals
  BY Apart DEF Account
<1>1. ASSUME NEW f \in DOMAIN files, Relocate(f) PROVE Account'
  <2>1. UNCHANGED <<queue, update, journal, drainer, handler, transport, closing>>
    BY <1>1 DEF Relocate
  <2>2. Reports
    BY <2>1, NothingSilent, RoutinelyReports
  <2> QED BY <1>0, <2>1, <2>2, ReportsAccounted, UpdatingStays DEF Account
<1>2. CASE CopyRest
  <2>1. UNCHANGED <<queue, update, drainer, handler, transport, closing>>
    BY <1>2 DEF CopyRest
  <2>2. Reports
    BY <2>1, NothingSilent, RoutinelyReports
  <2>3. journal'.failure = journal.failure /\ journal'.published = journal.published
    BY <1>0, <1>2 DEF CopyRest, Journals
  <2> QED BY <1>0, <2>1, <2>2, <2>3, ReportsAccounted, UpdatingStays DEF Account
<1>3. CASE FinalizeStorage
  <2>1. UNCHANGED <<queue, update, drainer, handler, transport>> /\ update.phase = "Free"
    BY <1>3 DEF FinalizeStorage
  <2>2. Reports
    BY <2>1, NothingSilent, RoutinelyReports
  <2>3. Updating'
    BY <1>0, <2>1 DEF Updating
  <2> QED BY <1>0, <2>1, <2>2, <2>3, ReportsAccounted DEF Account
<1> QED BY <1>1, <1>2, <1>3 DEF Filed

LEMMA ReportedReports == ASSUME TypeOK, Reported, ~ImageFails PROVE Reports
BY WorkerStartingRoutine, AssociateActiveRoutine, WorkerReadyRoutine, StartupFailedRoutine,
   ReserveImageRoutine, RetainImageRoutine, RoutinelyReports DEF Reported

LEMMA ReportedAccount == ASSUME TypeOK, Account, Reported PROVE Account'
<1>0. Accounted /\ Updating
  BY DEF Account
<1>1. UNCHANGED <<update, transport, journal, handler, closing>>
  BY DEF Reported, WorkerStarting, AssociateActive, WorkerReady, StartupFailed, ReserveImage,
         RetainImage, ImageFails, workerRest, imageRest
<1>2. Updating'
  BY <1>0, <1>1, UpdatingStays
<1>3. CASE ImageFails
  BY <1>0, <1>1, <1>2, <1>3, DisableAccounted DEF ImageFails, Account, Causes
<1>4. CASE ~ImageFails
  BY <1>0, <1>1, <1>2, <1>4, ReportedReports, ReportsAccounted DEF Account
<1> QED BY <1>3, <1>4

LEMMA Told1Account == ASSUME TypeOK, Account, Told1 PROVE Account'
<1>0. Accounted /\ Updating /\ queue \in Queues
  BY Apart DEF Account
<1>1. CASE DrainEnds
  <2>1. UNCHANGED <<update, transport, journal, handler, closing>> /\ drainer = "Checking"
    BY <1>1 DEF DrainEnds
  <2>2. Updating'
    BY <1>0, <2>1, UpdatingStays
  <2>3. /\ queue'.pending = queue.pending /\ queue'.retained = queue.retained
        /\ queue'.failure = queue.failure
        /\ \/ queue.pending = <<>> /\ ~queue'.draining /\ drainer' = "Idle"
           \/ queue.pending # <<>> /\ queue'.draining = queue.draining /\ drainer' = "Updating"
    BY <1>0, <1>1 DEF DrainEnds, Queues
  <2>4. Accounted'
    BY <1>0, <2>1, <2>3 DEF Accounted, QueueAccounted
  <2> QED BY <2>2, <2>4 DEF Account
<1>2. CASE Close \/ CloseQueue
  <2>1. UNCHANGED <<queue, drainer, update, journal, handler>>
        /\ closing # "Recording" /\ transport'.received = transport.received
    <3>1. transport \in [closed : BOOLEAN, received : Nat]
      BY Apart
    <3> QED BY <1>2, <3>1 DEF Close, CloseQueue, closingRest
  <2>2. Reports
    BY <2>1, NothingSilent, RoutinelyReports
  <2>3. Updating'
    BY <1>0, <2>1 DEF Updating, MustPublish
  <2> QED BY <1>0, <2>1, <2>2, <2>3, ReportsAccounted DEF Account
<1> QED BY <1>1, <1>2 DEF Told1

LEMMA PlannedAccount == ASSUME TypeOK, Account, Planned PROVE Account'
<1>0. Accounted /\ Updating
  BY DEF Account
<1>1. UNCHANGED <<queue, drainer, update, journal, handler, transport>>
      /\ (UNCHANGED closing \/ closing # "Recording")
  BY DEF Planned, Acquire, WorkerEnds, Retire, Text, CellEnds, FinishRecording, EnterCell,
         workerRest, closingRest
<1>2. Reports
  BY <1>1, NothingSilent, RoutinelyReports
<1>3. Updating'
  BY <1>0, <1>1 DEF Updating, MustPublish
<1> QED BY <1>0, <1>1, <1>2, <1>3, ReportsAccounted DEF Account

LEMMA ScriptStepsAccount == ASSUME Base, Account, ScriptSteps PROVE Account'
<1>0. Accounted /\ Updating /\ TypeOK
  BY DEF Account, Base
<1>1. UNCHANGED <<update, journal, handler, transport, closing>>
  BY DEF ScriptSteps, CloseIdle, CloseCell, PublishCell, PublishReceipts, StartCell, CreateFile,
         EndCell, Write, TextEvent, UnownedText, WorkerStarted, WorkerEnded, WorkerRetired,
         tapeRest
<1>2. Updating'
  BY <1>0, <1>1, UpdatingStays
<1> QED BY <1>0, <1>1, <1>2, ScriptStepsReport, ReportsAccounted DEF Account

LEMMA DeliveredAccount == ASSUME Base, Account, Delivered PROVE Account'
<1>0. Accounted /\ Updating /\ TypeOK
  BY DEF Account, Base
<1>1. UNCHANGED <<update, journal, handler, transport, closing>>
  BY DEF Delivered, DeliverReceipt, tapeRest
<1>2. Updating'
  BY <1>0, <1>1, UpdatingStays
<1>3. Reports
  BY <1>0, PublishesSummarizes, SummarizesReports DEF Delivered, DeliverReceipt
<1> QED BY <1>0, <1>1, <1>2, <1>3, ReportsAccounted DEF Account

LEMMA SentAccount == ASSUME TypeOK, Account, Sent PROVE Account'
BY SentReports, SentUpdating, ReportsAccounted DEF Account

LEMMA AccountStep == ASSUME Base, Account, [Next]_vars PROVE Account'
<1>0. TypeOK
  BY DEF Base
<1>1. CASE UNCHANGED vars
  BY <1>1 DEF vars, Account, Accounted, QueueAccounted, Updating, MustPublish
<1>2. CASE Next
  BY <1>0, <1>2, NextCases, UpdatedAccount, FinishPublicationAccount, FiledAccount, ReportedAccount,
     SentAccount, Told1Account, PlannedAccount, ScriptStepsAccount, DeliveredAccount
<1> QED BY <1>1, <1>2

LEMMA InitAccount == ASSUME Init PROVE Account
<1>1. Accounted
  BY TranscriptAssumption DEF Init, Accounted, QueueAccounted, NoUpdate
<1>2. Updating
  BY DEF Init, Updating, NoUpdate
<1> QED BY <1>1, <1>2 DEF Account

(* The queue counts what it holds and what an update took from it and did  *)
(* not finish, never beyond its limit, and what it holds has a thread that *)
(* will drain it (src/transcript/queue.rs).                                *)
THEOREM QueueIsAccounted == Spec => []QueueAccounted
<1>1. Init => Base /\ Account
  BY InitBase, InitAccount
<1>2. Base /\ Account /\ [Next]_vars => (Base /\ Account)'
  BY BaseStep, AccountStep
<1>3. Account => QueueAccounted
  BY DEF Account, Accounted
<1> QED BY <1>1, <1>2, <1>3, PTL DEF Spec
================================================================================
