------------------------- MODULE TranscriptRecordProofs -------------------------
(***************************************************************************)
(* What the journal of Transcript has: its order, everything once it is    *)
(* complete, and no failure but a fault. Every step of an updater is a     *)
(* Turn, which flushes a batch, publishes the files, or finishes an update *)
(* and begins another; each invariant is shown of turns first.             *)
(***************************************************************************)
EXTENDS TranscriptProofs

(***************************************************************************)
(* Publication.                                                            *)
(***************************************************************************)
Published ==
    /\ journal.published => journal.directory = "public"
    /\ journal.directory = "public" => \A f \in DOMAIN files : files[f].at = "public"
    /\ \A f \in DOMAIN files :
         /\ files[f][files[f].at] = files[f].retained
         /\ files[f].at = "temporary" => files[f].public = -1

(***************************************************************************)
(* Shutdown: nothing opens an interval any more, and when the recording is *)
(* finished nothing is open.                                               *)
(***************************************************************************)
Late == closing \in {"Recording", "Finishing", "Done"}
Finalizing == update.phase # "Free" /\ update.by = Finalize
Quiet ==
    /\ queue.owner = NoOwner /\ output.idle = NoOwner /\ output.cell = NoOwner
    /\ output.receipts = {}
Shut ==
    closing \in {"Settling", "Recording", "Finishing", "Done"} => worker = "None" /\ transport.closed
Winding ==
    /\ AllSettled
    /\ ~To("StartCell") /\ ~To("CreateCell") /\ ~To("CreateIdle") /\ ~To("WorkerStarted")
    /\ ~To("Text")
    /\ To("Write") => output.idle = NoOwner /\ output.cell = NoOwner
    /\ queue.owner = NoOwner \/ To("WorkerRetired")
    /\ output.idle = NoOwner \/ To("CloseIdle")
    /\ output.cell = NoOwner \/ (Doing("CloseCell") /\ To("Receipts"))
    /\ output.receipts = {} \/ To("Receipts")
Still == closing \in {"Finishing", "Done"} \/ Finalizing => Quiet
Ending ==
    /\ Shut /\ Still
    /\ Late => Winding
    /\ journal.finished => closing = "Done"

(***************************************************************************)
(* The events on their way to the journal, and those that it has.          *)
(***************************************************************************)
Way == ToSet(update.batch) \cup ToSet(queue.pending)

(* The events of a sequence are in the order of their numbers.             *)
Rising(s) == \A i, k \in DOMAIN s : i < k => s[i].at < s[k].at
Placed(s) == \A i, k \in DOMAIN s : i < k /\ s[k].at # 0 => s[i].at < s[k].at
(* The journal j, and after it the events W, none beyond the n-th.         *)
Line(j, W, n) ==
    /\ Placed(j.entries)
    /\ \A d \in ToSet(j.entries), e \in W : d.at < e.at
    /\ \A e \in ToSet(j.entries) \cup W : e.at <= n
    /\ \A e \in W : e.at # 0
    /\ \A e \in ToSet(j.entries) : e.kind = "OutputText" => e.at # 0
InSequence ==
    /\ Rising(update.batch) /\ Rising(queue.pending)
    /\ \A d \in ToSet(update.batch), e \in ToSet(queue.pending) : d.at < e.at
    /\ Line(journal, Way, queue.observed)

(* They have every event up to the n-th.                                   *)
Entire(j, W, n) ==
    \A k \in 1..n : k \in j.ignored \/ \E e \in ToSet(j.entries) \cup W : e.at = k
(* They tell of the first n bytes of a file.                               *)
TextIn(N, f) == {e \in N : e.kind = "OutputText" /\ e.owner = f}
Told(N, f, n) ==
    /\ \A e \in TextIn(N, f) : e.from <= e.to /\ e.to <= n
    /\ \A d, e \in TextIn(N, f) : d.at < e.at => d.to <= e.from
    /\ \A b \in 0..(n - 1) : \E e \in TextIn(N, f) : e.from <= b /\ b < e.to
(* The text of a file that has not been observed is not counted.           *)
Observed(f) ==
    IF Doing("Text") /\ Head(tape).arg.owner = f THEN Head(tape).arg.from ELSE files[f].retained
SummaryIn(N, f) == \E e \in N : e.kind = "OutputSummary" /\ e.owner = f
Tells(j, W) == \A f \in DOMAIN files : Told(ToSet(j.entries) \cup W, f, Observed(f))
Summed(j, W) ==
    \A f \in DOMAIN files :
       \/ SummaryIn(ToSet(j.entries) \cup W, f) \/ f \in {output.cell, output.idle}
       \/ f \in output.receipts
Homes(j, W) ==
    \A e \in ToSet(j.entries) \cup W : e.kind = "OutputText" => e.owner \in DOMAIN files
Complete ==
    ~Failed => Entire(journal, Way, queue.observed) /\ Tells(journal, Way) /\ Summed(journal, Way)
Homeless == Homes(journal, Way)

(* Finalization flushes the text and the summary of every file.            *)
Bytes == {"OutputText", "OutputSummary"}
Silent ==
    /\ Finalizing \/ closing \in {"Finishing", "Done"} =>
         \A e \in ToSet(queue.pending) : e.kind \notin Bytes
    /\ closing \in {"Finishing", "Done"} => \A e \in ToSet(update.batch) : e.kind \notin Bytes

(***************************************************************************)
(* The calls of the journal.                                               *)
(***************************************************************************)
OfSource == {"SourceAdmitted", "SourceAssociated", "SourceFinished"}
Pending(j, c) == c \in DOMAIN j.calls /\ j.calls[c].pending
Live(j, W, c) ==
    Pending(j, c) \/ \E e \in W : e.kind = "SourceAdmitted" /\ e.call = c
Sound(j, W) ==
    /\ \A e \in W : e.kind \in {"SourceAssociated", "SourceFinished"} =>
          \/ Pending(j, e.call)
          \/ \E d \in W : d.kind = "SourceAdmitted" /\ d.call = e.call /\ d.at < e.at
    /\ \A d, e \in W : d.kind = "SourceFinished" /\ d.at < e.at /\ e.call = d.call =>
          e.kind \notin OfSource
Writes1(j) == j.failure = "None" /\ ~j.finished
Is(by, phase) == update.phase = phase /\ update.by = by
Begun(c) == handler[c].id \/ Is(<<"begin", c>>, "Second")
Finished(c) == handler[c].at = "Settled" \/ Is(<<"finish", c>>, "Second")
Open(j, c) == c \in DOMAIN j.calls /\ ~j.calls[c].finished
Known ==
    journal.failure = "None" => \A c \in Calls : Begun(c) /\ ~Finished(c) => Open(journal, c)
Sources ==
    /\ Writes1(journal) => Sound(journal, Way)
    /\ \A e \in Way : e.kind \in OfSource =>
         /\ e.call \in Calls
         /\ source[e.call] \notin {"None", "Task"}
         /\ handler[e.call].id
         /\ e.kind = "SourceFinished" => source[e.call] \in {"Done", "Settled"}
    /\ ~Failed /\ Writes1(journal) =>
         \A c \in Calls : handler[c].id /\ source[c] \in {"Admitted", "Waiting", "Dispatched"} =>
            Live(journal, Way, c)
    /\ \A c \in Calls : source[c] # "None" => handler[c].at \in {"Running", "Finishing", "Settled"}
Surviving ==
    /\ {journal.failure, queue.failure} \subseteq {"None", "Fault", "Backlog", "Admission"}
    /\ \E b \in Budgets : /\ left.faults <= b.faults
                          /\ "Fault" \in {journal.failure, queue.failure} => left.faults < b.faults

(***************************************************************************)
(* What a recording that ended has.                                        *)
(***************************************************************************)
HasEntry(j, kind, c) == \E e \in ToSet(j.entries) : e.kind = kind /\ e.call = c
EndsIn(j) == \E e \in ToSet(j.entries) : e.kind = "RecordingEnded"
Calls1(j) == \A c \in Nat : HasEntry(j, "ToolCall", c) => HasEntry(j, "ToolResult", c)
Summaries(N) == \A f \in DOMAIN files : SummaryIn(N, f)
(* A begun call is in the journal, and with its result when it finished.   *)
CallsRecorded ==
    /\ \A c \in Nat : HasEntry(journal, "ToolCall", c) =>
          c \in Calls /\ (journal.failure # "None" \/ Begun(c))
    /\ journal.failure = "None" =>
          \A c \in Calls : Begun(c) /\ Finished(c) => HasEntry(journal, "ToolResult", c)
(* The end is written when nothing is left to record.                      *)
EndRecorded ==
    /\ Is(Finalize, "First") => Summaries(ToSet(journal.entries) \cup ToSet(update.batch))
    /\ EndsIn(journal) =>
         /\ closing \in {"Finishing", "Done"} \/ Is(Finalize, "Second")
         /\ Calls1(journal) /\ Summaries(ToSet(journal.entries))
Recorded == CallsRecorded /\ EndRecorded

(***************************************************************************)
(* The way of the events into the journal.                                 *)
(***************************************************************************)
(* What an update may write on its own account.                            *)
Own == {e \in Entries : e.at = 0 /\ e.kind \in OfUpdate \cup {"SourceAssociated"}}
(* The journal j, with W on its way to it, became k with V.                *)
Moves(j, W, k, V) ==
    /\ V \subseteq W
    /\ ToSet(j.entries) \subseteq ToSet(k.entries)
    /\ ToSet(k.entries) \subseteq ToSet(j.entries) \cup W \cup Own
    /\ j.ignored \subseteq k.ignored
    /\ k.finished = j.finished
    /\ k.failure = "None" =>
         /\ j.failure = "None"
         /\ \A e \in W : \/ e \in ToSet(k.entries) \cup V
                         \/ e.at \in k.ignored /\ (e.kind \notin Bytes \/ j.finished)

LEMMA MovesNot == ASSUME NEW j, NEW W PROVE Moves(j, W, j, W)
BY DEF Moves
LEMMA MovesOn ==
    ASSUME NEW j, NEW W, NEW k, NEW V, NEW l, NEW U, Moves(j, W, k, V), Moves(k, V, l, U)
    PROVE  Moves(j, W, l, U)
BY DEF Moves

LEMMA AppendedSet ==
    ASSUME NEW S, NEW s \in Seq(S), NEW e \in S
    PROVE  ToSet(Append(s, e)) = ToSet(s) \cup {e}
<1> DEFINE t == Append(s, e)
<1>1. /\ Len(s) \in Nat /\ DOMAIN s = 1..Len(s) /\ DOMAIN t = 1..(Len(s) + 1)
      /\ t[Len(s) + 1] = e /\ \A i \in 1..Len(s) : t[i] = s[i]
  OBVIOUS
<1> HIDE DEF t
<1>2. ToSet(t) \subseteq ToSet(s) \cup {e}
  BY <1>1 DEF ToSet
<1>3. ToSet(s) \subseteq ToSet(t) /\ e \in ToSet(t)
  BY <1>1 DEF ToSet
<1> QED BY <1>2, <1>3 DEF t

LEMMA AppendedPlaced ==
    ASSUME NEW s \in Seq(Entries), NEW e \in Entries, Placed(s),
           e.at = 0 \/ \A d \in ToSet(s) : d.at < e.at
    PROVE  Placed(Append(s, e))
<1> DEFINE t == Append(s, e)
<1>1. /\ Len(s) \in Nat /\ DOMAIN s = 1..Len(s) /\ DOMAIN t = 1..(Len(s) + 1)
      /\ t[Len(s) + 1] = e /\ \A i \in 1..Len(s) : t[i] = s[i]
  OBVIOUS
<1> HIDE DEF t
<1>2. \A i \in DOMAIN s : s[i] \in ToSet(s)
  BY DEF ToSet
<1>3. ASSUME NEW i \in DOMAIN t, NEW k \in DOMAIN t, i < k, t[k].at # 0 PROVE t[i].at < t[k].at
  <2>1. CASE k = Len(s) + 1
    BY <1>1, <1>2, <1>3, <2>1
  <2>2. CASE k \in 1..Len(s)
    <3>1. i \in 1..Len(s)
      BY <1>1, <1>3, <2>2
    <3> QED BY <1>1, <1>3, <2>2, <3>1 DEF Placed
  <2> QED BY <1>1, <2>1, <2>2
<1>4. Placed(t)
  BY <1>3 DEF Placed
<1> QED BY <1>4 DEF t

LEMMA WrittenDoes ==
    ASSUME NEW j \in Journals, NEW e \in Entries
    PROVE  \/ /\ Ignores(j, e)
              /\ Written(j, e).entries = j.entries
              /\ Written(j, e).ignored = j.ignored \cup {e.at}
              /\ Written(j, e).calls = j.calls
              /\ Written(j, e).failure = j.failure /\ Written(j, e).finished = j.finished
           \/ /\ ~Ignores(j, e)
              /\ Written(j, e).entries = Append(j.entries, e)
              /\ Written(j, e).ignored = j.ignored
              /\ Written(j, e).calls =
                    IF Missing(e) # "None" \/ e.kind \in {"ToolCall", "AssociateWaitingCall"}
                    THEN SetCall(j.calls, e.call, CallAfter(j, e)) ELSE j.calls
              /\ Written(j, e).failure = j.failure /\ Written(j, e).finished = j.finished
<1>1. CASE Ignores(j, e)
  BY <1>1 DEF Written, Journals
<1>2. CASE ~Ignores(j, e)
  <2> DEFINE x == [kind |-> e.kind, call |-> e.call, owner |-> e.owner, from |-> e.from,
                   to |-> e.to, at |-> e.at]
             calls == IF Missing(e) # "None" \/ e.kind \in {"ToolCall", "AssociateWaitingCall"}
                      THEN SetCall(j.calls, e.call, CallAfter(j, e)) ELSE j.calls
  <2>1. Written(j, e) = [j EXCEPT !.entries = Append(j.entries, x), !.calls = calls]
    BY <1>2 DEF Written
  <2>2. x = e
    BY DEF Entries, Events
  <2> HIDE DEF calls, x
  <2>3. /\ Written(j, e).entries = Append(j.entries, e) /\ Written(j, e).ignored = j.ignored
        /\ Written(j, e).calls = calls
        /\ Written(j, e).failure = j.failure /\ Written(j, e).finished = j.finished
    BY <2>1, <2>2 DEF Journals
  <2> QED BY <1>2, <2>3 DEF calls
<1> QED BY <1>1, <1>2

(* The first record.                                                       *)
Opening == Plain("RecordingStarted", 0)
LEMMA OpeningOwn ==
    /\ Opening \in Own /\ Opening \in Entries /\ Opening.kind = "RecordingStarted" /\ Opening.at = 0
    /\ Opening.call = 0 /\ Missing(Opening) = "None"
<1>1. Opening \in Entries
  BY PlainType DEF Entries, OfUpdate, Opening
<1> QED BY <1>1 DEF Own, Opening, Plain, Event, OfUpdate, Missing

LEMMA CreatedDoes ==
    ASSUME NEW j \in Journals
    PROVE  /\ Created(j).calls = j.calls
           /\ Created(j).failure = j.failure /\ Created(j).finished = j.finished
           /\ \/ Created(j).entries = j.entries /\ j.ignored \subseteq Created(j).ignored
              \/ Created(j).entries = Append(j.entries, Opening) /\ Created(j).ignored = j.ignored
<1> DEFINE k == [j EXCEPT !.created = TRUE]
<1>1. k \in Journals /\ k.entries = j.entries /\ k.ignored = j.ignored /\ k.calls = j.calls
      /\ k.failure = j.failure /\ k.finished = j.finished
  BY DEF Journals
<1>2. Created(j) = IF j.created THEN j ELSE Written(k, Opening)
  BY DEF Created, Opening
<1> HIDE DEF k
<1>3. ~(Missing(Opening) # "None" \/ Opening.kind \in {"ToolCall", "AssociateWaitingCall"})
  BY OpeningOwn
<1>4. CASE j.created
  BY <1>2, <1>4
<1>5. CASE ~j.created
  BY <1>1, <1>2, <1>3, <1>5, OpeningOwn, WrittenDoes
<1> QED BY <1>4, <1>5

LEMMA CreatedMoves == ASSUME NEW j \in Journals, NEW W PROVE Moves(j, W, Created(j), W)
<1>1. j.entries \in Seq(Entries)
  BY DEF Journals
<1>2. ToSet(Append(j.entries, Opening)) = ToSet(j.entries) \cup {Opening}
  BY <1>1, OpeningOwn, AppendedSet
<1> QED BY <1>2, OpeningOwn, CreatedDoes DEF Moves

(* What the journal does not write is about no bytes, unless it is finished. *)
LEMMA IgnoredNoBytes ==
    ASSUME NEW j, NEW e, Ignores(j, e) PROVE e.kind \notin Bytes \/ j.finished
BY DEF Ignores, Bytes

LEMMA WrittenMoves ==
    ASSUME NEW j \in Journals, NEW e \in Entries, NEW W
    PROVE  /\ Moves(j, {e} \cup W, Written(j, e), W)
           /\ e \in Own => Moves(j, W, Written(j, e), W)
<1>1. j.entries \in Seq(Entries)
  BY DEF Journals
<1>2. ToSet(Append(j.entries, e)) = ToSet(j.entries) \cup {e}
  BY <1>1, AppendedSet
<1>3. CASE Ignores(j, e)
  BY <1>3, WrittenDoes, IgnoredNoBytes DEF Moves
<1>4. CASE ~Ignores(j, e)
  BY <1>2, <1>4, WrittenDoes DEF Moves
<1> QED BY <1>3, <1>4

LEMMA RecordMoves ==
    ASSUME NEW j \in Journals, NEW e \in Entries, NEW W
    PROVE  /\ Moves(j, {e} \cup W, Record(j, e), W)
           /\ e \in Own => Moves(j, W, Record(j, e), W)
<1> DEFINE k == Created(j)
<1>1. k \in Journals /\ Moves(j, {e} \cup W, k, {e} \cup W) /\ Moves(j, W, k, W)
  BY CreatedType, CreatedMoves
<1>2. CASE j.failure # "None"
  BY <1>2 DEF Record, Moves
<1>3. CASE j.failure = "None" /\ Unknown(k, e)
  <2>1. Record(j, e) = [k EXCEPT !.failure = Missing(e)] /\ Missing(e) # "None"
    BY <1>3 DEF Record, Unknown
  <2> DEFINE l == Record(j, e)
  <2>2. l.entries = k.entries /\ l.ignored = k.ignored /\ l.finished = k.finished /\ l.failure # "None"
    BY <1>1, <2>1 DEF Journals
  <2> HIDE DEF k, l
  <2>3. Moves(k, {e} \cup W, l, W) /\ Moves(k, W, l, W)
    BY <2>2 DEF Moves
  <2> QED BY <1>1, <2>3, MovesOn DEF l
<1>4. CASE j.failure = "None" /\ ~Unknown(k, e)
  <2>1. Record(j, e) = Written(k, e)
    BY <1>4 DEF Record
  <2> HIDE DEF k
  <2> QED BY <1>1, <2>1, WrittenMoves, MovesOn
<1> QED BY <1>2, <1>3, <1>4

(* The order of the journal and of what is on its way.                     *)
LEMMA LineLess ==
    ASSUME NEW j, NEW W, NEW V \in SUBSET W, NEW n, Line(j, W, n) PROVE Line(j, V, n)
BY DEF Line
LEMMA LineSame ==
    ASSUME NEW j, NEW k, NEW W, NEW n, Line(j, W, n), k.entries = j.entries PROVE Line(k, W, n)
BY DEF Line

LEMMA AppendedLine ==
    ASSUME NEW j \in Journals, NEW k, NEW e \in Entries, NEW W \in SUBSET Queued, NEW n \in Nat,
           Line(j, W, n), k.entries = Append(j.entries, e), \A d \in W : e.at < d.at,
           e.at <= n, e.kind = "OutputText" => e.at # 0,
           e.at = 0 \/ \A d \in ToSet(j.entries) : d.at < e.at
    PROVE  Line(k, W, n)
<1>1. j.entries \in Seq(Entries)
  BY DEF Journals
<1>2. ToSet(k.entries) = ToSet(j.entries) \cup {e}
  BY <1>1, AppendedSet
<1>3. Placed(k.entries)
  BY <1>1, AppendedPlaced DEF Line
<1> QED BY <1>2, <1>3 DEF Line

LEMMA OwnZero == \A e \in Own : e \in Entries /\ e.at = 0 /\ e.kind \notin Bytes
BY DEF Own, OfUpdate, Bytes
LEMMA QueuedPositive ==
    ASSUME NEW j, NEW W \in SUBSET Queued, NEW n, Line(j, W, n), NEW d \in W
    PROVE  0 < d.at
<1>1. d.at \in Nat /\ d.at # 0
  BY DEF Line, Queued, Events
<1> QED BY <1>1

LEMMA OwnLine ==
    ASSUME NEW j \in Journals, NEW k, NEW e \in Own, NEW W \in SUBSET Queued, NEW n \in Nat,
           Line(j, W, n), k.entries = Append(j.entries, e)
    PROVE  Line(k, W, n)
<1>1. e \in Entries /\ e.at = 0 /\ e.kind # "OutputText" /\ e.at <= n
  BY OwnZero DEF Bytes
<1>2. \A d \in W : e.at < d.at
  BY <1>1, QueuedPositive
<1> QED BY <1>1, <1>2, AppendedLine

LEMMA CreatedLine ==
    ASSUME NEW j \in Journals, NEW W \in SUBSET Queued, NEW n \in Nat, Line(j, W, n)
    PROVE  Line(Created(j), W, n)
BY OpeningOwn, CreatedDoes, OwnLine, LineSame

LEMMA FailedEntries ==
    ASSUME NEW j \in Journals, NEW e
    PROVE  /\ [j EXCEPT !.failure = e].entries = j.entries
           /\ [j EXCEPT !.failure = e].calls = j.calls
BY DEF Journals

LEMMA RecordLine ==
    ASSUME NEW j \in Journals, NEW e \in Queued, NEW W \in SUBSET Queued, NEW n \in Nat,
           Line(j, {e} \cup W, n), \A d \in W : e.at < d.at
    PROVE  Line(Record(j, e), W, n)
<1>1. Created(j) \in Journals /\ Line(Created(j), {e} \cup W, n) /\ e \in Entries /\ {e} \cup W \in SUBSET Queued
  BY CreatedType, CreatedLine, QueuedIsEntry
<1> DEFINE k == Created(j)
<1>2. Line(k, W, n) /\ Line(j, W, n)
  BY <1>1, LineLess
<1>3. CASE j.failure # "None"
  BY <1>2, <1>3 DEF Record
<1>4. CASE j.failure = "None" /\ Unknown(k, e)
  BY <1>1, <1>2, <1>4, FailedEntries, LineSame DEF Record
<1>5. CASE j.failure = "None" /\ ~Unknown(k, e)
  <2>1. Record(j, e) = Written(k, e)
    BY <1>5 DEF Record
  <2>2. e.at <= n /\ e.at # 0 /\ \A d \in ToSet(k.entries) : d.at < e.at
    BY <1>1 DEF Line
  <2> HIDE DEF k
  <2>3. CASE Written(k, e).entries = k.entries
    BY <1>2, <2>1, <2>3, LineSame
  <2>4. CASE Written(k, e).entries = Append(k.entries, e)
    BY <1>1, <1>2, <2>1, <2>2, <2>4, AppendedLine DEF k
  <2> QED BY <1>1, <2>3, <2>4, WrittenDoes DEF k
<1> QED BY <1>3, <1>4, <1>5

LEMMA RecordOwnLine ==
    ASSUME NEW j \in Journals, NEW e \in Own, NEW W \in SUBSET Queued, NEW n \in Nat, Line(j, W, n)
    PROVE  Line(Record(j, e), W, n)
<1>1. Created(j) \in Journals /\ Line(Created(j), W, n) /\ e \in Entries
  BY CreatedType, CreatedLine, OwnZero
<1> DEFINE k == Created(j)
<1>3. CASE j.failure # "None"
  BY <1>3 DEF Record
<1>4. CASE j.failure = "None" /\ Unknown(k, e)
  BY <1>1, <1>4, FailedEntries, LineSame DEF Record
<1>5. CASE j.failure = "None" /\ ~Unknown(k, e)
  <2>1. Record(j, e) = Written(k, e)
    BY <1>5 DEF Record
  <2> HIDE DEF k
  <2>3. CASE Written(k, e).entries = k.entries
    BY <1>1, <2>1, <2>3, LineSame DEF k
  <2>4. CASE Written(k, e).entries = Append(k.entries, e)
    BY <1>1, <2>1, <2>4, OwnLine DEF k
  <2> QED BY <1>1, <2>3, <2>4, WrittenDoes DEF k
<1> QED BY <1>3, <1>4, <1>5

(***************************************************************************)
(* A batch on its way into the journal.  A property of a journal and of    *)
(* what is on its way to it is a set of such pairs.                        *)
(***************************************************************************)
Rest(s, n) == {s[i] : i \in (n + 1)..Len(s)}
LEMMA Flushing ==
    ASSUME NEW j \in Journals, NEW s \in Seq(Queued), NEW V \in SUBSET Queued, Rising(s),
           \A d \in ToSet(s), e \in V : d.at < e.at,
           NEW T, <<j, ToSet(s) \cup V>> \in T,
           \A k \in Journals, e \in Queued, W \in SUBSET Queued :
              <<k, {e} \cup W>> \in T /\ (\A d \in W : e.at < d.at) => <<Record(k, e), W>> \in T
    PROVE  <<RecordAll(j, s), V>> \in T
<1>0. Len(s) \in Nat /\ DOMAIN s = 1..Len(s) /\ \A i \in 1..Len(s) : s[i] \in Queued
  OBVIOUS
<1>1. PICK after : /\ after[0] = j
                   /\ \A n \in 1..Len(s) : after[n] = Record(after[n - 1], s[n])
                   /\ RecordAll(j, s) = after[Len(s)]
  <2>1. s \in Seq(Queued)
    OBVIOUS
  <2> QED BY ONLY <2>1, RecordAllSteps
<1> DEFINE N == {n \in 0..Len(s) : after[n] \in Journals /\ <<after[n], Rest(s, n) \cup V>> \in T}
<1>2. 0 \in N
  <2>1. Rest(s, 0) = ToSet(s)
    BY <1>0 DEF Rest, ToSet
  <2>2. Rest(s, 0) \cup V = ToSet(s) \cup V /\ after[0] = j
    BY <1>1, <2>1
  <2>3. after[0] \in Journals /\ <<after[0], Rest(s, 0) \cup V>> \in T
    BY <2>2
  <2> QED BY <1>0, <2>3
<1>3. ASSUME NEW n \in 0..(Len(s) - 1), n \in N PROVE n + 1 \in N
  <2> DEFINE e == s[n + 1]
             W == Rest(s, n + 1) \cup V
  <2>1. n + 1 \in 1..Len(s) /\ (n + 1) - 1 = n /\ n + 1 \in 0..Len(s) /\ e \in Queued /\ e \in ToSet(s)
    BY <1>0 DEF ToSet
  <2>2. W \in SUBSET Queued
    BY <1>0, <2>1 DEF Rest
  <2>3. Rest(s, n) = {e} \cup Rest(s, n + 1)
    <3>1. (n + 1)..Len(s) = {n + 1} \cup ((n + 1) + 1)..Len(s)
      BY <1>0, <2>1
    <3> QED BY <3>1 DEF Rest
  <2>4. \A d \in W : e.at < d.at
    <3>1. ASSUME NEW i \in ((n + 1) + 1)..Len(s) PROVE e.at < s[i].at
      BY <1>0, <2>1, <3>1 DEF Rising
    <3> QED BY <2>1, <3>1 DEF Rest
  <2>5. after[n + 1] = Record(after[n], e) /\ after[n] \in Journals /\ <<after[n], {e} \cup W>> \in T
    <3>1. Rest(s, n) \cup V = {e} \cup W
      BY <2>3
    <3> QED BY <1>1, <1>3, <2>1, <3>1
  <2>6. after[n + 1] \in Journals
    BY <2>1, <2>5, QueuedIsEntry, RecordType
  <2> HIDE DEF e, W
  <2>7. <<Record(after[n], e), W>> \in T
    BY <2>1, <2>2, <2>4, <2>5
  <2> QED BY <2>1, <2>5, <2>6, <2>7 DEF W
<1>4. Len(s) \in N
  <2> HIDE DEF N
  <2> QED BY <1>0, <1>2, <1>3, UpTo
<1>5. Rest(s, Len(s)) = {}
  BY <1>0 DEF Rest
<1> QED BY <1>1, <1>4, <1>5

LEMMA FlushMoves ==
    ASSUME NEW j \in Journals, NEW s \in Seq(Queued), NEW V \in SUBSET Queued, Rising(s),
           \A d \in ToSet(s), e \in V : d.at < e.at
    PROVE  Moves(j, ToSet(s) \cup V, RecordAll(j, s), V)
<1> DEFINE A == ToSet(s) \cup V
           T == {p \in Journals \X SUBSET Queued : Moves(j, A, p[1], p[2])}
<1>0. A \in SUBSET Queued
  BY DEF ToSet
<1>1. <<j, A>> \in T
  BY <1>0, MovesNot
<1>2. ASSUME NEW k \in Journals, NEW e \in Queued, NEW W \in SUBSET Queued, <<k, {e} \cup W>> \in T
      PROVE  <<Record(k, e), W>> \in T
  <2>1. Moves(j, A, k, {e} \cup W)
    BY <1>2
  <2>2. e \in Entries
    BY QueuedIsEntry
  <2>3. Moves(k, {e} \cup W, Record(k, e), W) /\ Record(k, e) \in Journals
    BY <2>2, RecordMoves, RecordType
  <2> HIDE DEF A
  <2>4. Moves(j, A, Record(k, e), W)
    BY <2>1, <2>3, MovesOn
  <2> QED BY <2>3, <2>4
<1> HIDE DEF T
<1>3. <<RecordAll(j, s), V>> \in T
  BY <1>1, <1>2, Flushing
<1> QED BY <1>3 DEF T

LEMMA FlushLine ==
    ASSUME NEW j \in Journals, NEW s \in Seq(Queued), NEW V \in SUBSET Queued, Rising(s),
           \A d \in ToSet(s), e \in V : d.at < e.at, NEW n \in Nat, Line(j, ToSet(s) \cup V, n)
    PROVE  Line(RecordAll(j, s), V, n)
<1> DEFINE A == ToSet(s) \cup V
           T == {p \in Journals \X SUBSET Queued : Line(p[1], p[2], n)}
<1>0. A \in SUBSET Queued
  BY DEF ToSet
<1>1. <<j, A>> \in T
  BY <1>0
<1>2. ASSUME NEW k \in Journals, NEW e \in Queued, NEW W \in SUBSET Queued, <<k, {e} \cup W>> \in T,
             \A d \in W : e.at < d.at
      PROVE  <<Record(k, e), W>> \in T
  <2>1. Line(k, {e} \cup W, n)
    BY <1>2
  <2>2. e \in Entries
    BY QueuedIsEntry
  <2>3. Line(Record(k, e), W, n) /\ Record(k, e) \in Journals
    BY <1>2, <2>1, <2>2, RecordLine, RecordType
  <2> QED BY <2>3
<1> HIDE DEF T
<1>3. <<RecordAll(j, s), V>> \in T
  BY <1>1, <1>2, Flushing
<1> QED BY <1>3 DEF T

(* The events that an update writes on its own account.                    *)
LEMMA PlainOwn ==
    ASSUME NEW kind \in OfUpdate, NEW c \in Nat
    PROVE  /\ Plain(kind, c) \in Own /\ Plain(kind, c).kind = kind /\ Plain(kind, c).call = c
           /\ Plain(kind, c).at = 0
<1>1. Plain(kind, c) \in Entries
  BY PlainType DEF Entries
<1> QED BY <1>1 DEF Own, Plain, Event

Claim(c) == Event("SourceAssociated", c, queue.owner, 0, 0)
LEMMA ClaimOwn ==
    ASSUME TypeOK, NEW c \in Nat
    PROVE  Claim(c) \in Own /\ Claim(c).kind = "SourceAssociated" /\ Claim(c).call = c /\ Claim(c).at = 0
<1>1. queue.owner \in Owner
  BY OwnerType
<1>2. Claim(c) \in Entries
  BY <1>1, EventType DEF Entries, OfQueue, Claim
<1> QED BY <1>2 DEF Own, Claim, Event

(* What an operation makes of the journal.                                 *)
Operated(by, j, k) ==
    \/ k = j /\ by[1] \notin {"begin", "finish"} /\ (by = Finalize => ~j.created \/ j.finished)
    \/ by = Finalize /\ k = Record(j, Plain("RecordingEnded", 0))
    \/ by[1] = "begin" /\ k = Record(j, Plain("ToolCall", by[2]))
    \/ by[1] = "finish" /\ k = Record(j, Plain("ToolResult", by[2]))
    \/ by[1] = "finish" /\ Calling(j, by[2])
       /\ k = Record(Record(j, Claim(by[2])), Plain("ToolResult", by[2]))
LEMMA Chained ==
    ASSUME NEW S, NEW s, NEW t, s \in Seq(S), t \in Seq(S)
    PROVE  /\ s \o t \in Seq(S) /\ Len(s) \in Nat /\ Len(t) \in Nat
           /\ Len(s \o t) = Len(s) + Len(t)
           /\ \A m \in 1..Len(s) : (s \o t)[m] = s[m]
           /\ \A m \in 1..Len(t) : (s \o t)[Len(s) + m] = t[m]
OBVIOUS
LEMMA RecordAllPair ==
    ASSUME NEW j, NEW a, NEW b
    PROVE  RecordAll(j, <<a>> \o <<b>>) = Record(Record(j, a), b)
<1> DEFINE S == {a, b}
           t == <<a>>
           u == <<b>>
           s == t \o u
<1>1. t \in Seq(S) /\ u \in Seq(S) /\ Len(t) = 1 /\ Len(u) = 1 /\ t[1] = a /\ u[1] = b
  OBVIOUS
<1> HIDE DEF t, u, S
<1>2. t \in Seq(S) /\ u \in Seq(S)
  BY <1>1
<1>3. /\ s \in Seq(S) /\ Len(s) = Len(t) + Len(u)
      /\ \A m \in 1..Len(t) : s[m] = t[m]
      /\ \A m \in 1..Len(u) : s[Len(t) + m] = u[m]
  BY ONLY <1>2, Chained
<1> HIDE DEF s
<1>4. s \in Seq(S) /\ Len(s) = 2 /\ s[1] = a /\ s[2] = b
  BY <1>1, <1>3
<1>5. s \in Seq(S)
  BY <1>4
<1>6. RecordAll(j, s) = Record(Record(j, s[1]), s[2])
  BY <1>4, <1>5, RecordAllTwo
<1> QED BY <1>4, <1>6 DEF s, t, u
LEMMA OperationDoes ==
    ASSUME NEW by \in Updaters, NEW j
    PROVE  Operated(by, j, RecordAll(j, Operation(by, j)))
<1>1. CASE by[1] = "begin"
  <2>1. Operation(by, j) = <<Plain("ToolCall", by[2])>>
    BY <1>1 DEF Operation
  <2> QED BY <1>1, <2>1, RecordAllOne DEF Operated
<1>2. CASE by[1] = "finish" /\ Claims(j, by[2])
  <2>1. Operation(by, j) = <<Claim(by[2])>> \o <<Plain("ToolResult", by[2])>>
    BY <1>2 DEF Operation, Claim
  <2> QED BY <1>2, <2>1, RecordAllPair DEF Operated, Claims
<1>3. CASE by[1] = "finish" /\ ~Claims(j, by[2])
  <2> DEFINE b == Plain("ToolResult", by[2])
  <2>1. Operation(by, j) = <<>> \o <<b>>
    BY <1>3 DEF Operation
  <2>2. Operation(by, j) = <<b>>
    <3> HIDE DEF b
    <3>1. <<>> \o <<b>> = <<b>>
      OBVIOUS
    <3> QED BY <2>1, <3>1 DEF b
  <2> QED BY <1>3, <2>2, RecordAllOne DEF Operated
<1>4. CASE by = Finalize /\ j.created /\ ~j.finished
  <2>1. Operation(by, j) = <<Plain("RecordingEnded", 0)>>
    BY <1>4 DEF Operation, Finalize
  <2> QED BY <1>4, <2>1, RecordAllOne DEF Operated
<1>5. CASE by = Finalize /\ ~(j.created /\ ~j.finished)
  <2>1. Operation(by, j) = <<>>
    BY <1>5 DEF Operation, Finalize
  <2> QED BY <1>5, <2>1, RecordAllNone DEF Operated, Finalize
<1>6. CASE by[1] \notin {"begin", "finish"} /\ by # Finalize
  <2>1. Operation(by, j) = <<>>
    BY <1>6, Who DEF Operation
  <2> QED BY <1>6, <2>1, RecordAllNone DEF Operated
<1> QED BY <1>1, <1>2, <1>3, <1>4, <1>5, <1>6

LEMMA OperatedMoves ==
    ASSUME TypeOK, NEW by \in Updaters, NEW j \in Journals, NEW k, Operated(by, j, k), NEW W
    PROVE  k \in Journals /\ Moves(j, W, k, W)
<1>1. /\ by[1] \in {"begin", "finish"} => by[2] \in Nat
  BY Who, CallsAreNat DEF Drain, Finalize
<1>2. ASSUME NEW i \in Journals, NEW e \in Own PROVE Record(i, e) \in Journals /\ Moves(i, W, Record(i, e), W)
  BY OwnZero, RecordMoves, RecordType
<1>3. Plain("RecordingEnded", 0) \in Own
  BY PlainOwn DEF OfUpdate
<1>4. CASE k = j
  BY <1>4, MovesNot
<1>5. CASE by = Finalize /\ k = Record(j, Plain("RecordingEnded", 0))
  BY <1>2, <1>3, <1>5
<1>6. CASE by[1] = "begin" /\ k = Record(j, Plain("ToolCall", by[2]))
  BY <1>1, <1>2, <1>6, PlainOwn DEF OfUpdate
<1>7. CASE by[1] = "finish" /\ k = Record(j, Plain("ToolResult", by[2]))
  BY <1>1, <1>2, <1>7, PlainOwn DEF OfUpdate
<1>8. CASE by[1] = "finish" /\ k = Record(Record(j, Claim(by[2])), Plain("ToolResult", by[2]))
  <2>1. Claim(by[2]) \in Own /\ Plain("ToolResult", by[2]) \in Own
    BY <1>1, <1>8, PlainOwn, ClaimOwn DEF OfUpdate
  <2> DEFINE i == Record(j, Claim(by[2]))
  <2>2. i \in Journals /\ Moves(j, W, i, W)
    BY <1>2, <2>1
  <2>3. k = Record(i, Plain("ToolResult", by[2]))
    BY <1>8
  <2> HIDE DEF i
  <2> QED BY <1>2, <2>1, <2>2, <2>3, MovesOn
<1> QED BY <1>4, <1>5, <1>6, <1>7, <1>8 DEF Operated

LEMMA OperatedLine ==
    ASSUME TypeOK, NEW by \in Updaters, NEW j \in Journals, NEW k, Operated(by, j, k),
           NEW W \in SUBSET Queued, NEW n \in Nat, Line(j, W, n)
    PROVE  Line(k, W, n)
<1>1. /\ by[1] \in {"begin", "finish"} => by[2] \in Nat
  BY Who, CallsAreNat DEF Drain, Finalize
<1>2. ASSUME NEW i \in Journals, NEW e \in Own, Line(i, W, n)
      PROVE  Record(i, e) \in Journals /\ Line(Record(i, e), W, n)
  BY <1>2, OwnZero, RecordOwnLine, RecordType
<1>3. Plain("RecordingEnded", 0) \in Own
  BY PlainOwn DEF OfUpdate
<1>5. CASE by = Finalize /\ k = Record(j, Plain("RecordingEnded", 0))
  BY <1>2, <1>3, <1>5
<1>6. CASE by[1] = "begin" /\ k = Record(j, Plain("ToolCall", by[2]))
  BY <1>1, <1>2, <1>6, PlainOwn DEF OfUpdate
<1>7. CASE by[1] = "finish" /\ k = Record(j, Plain("ToolResult", by[2]))
  BY <1>1, <1>2, <1>7, PlainOwn DEF OfUpdate
<1>8. CASE by[1] = "finish" /\ k = Record(Record(j, Claim(by[2])), Plain("ToolResult", by[2]))
  <2>1. Claim(by[2]) \in Own /\ Plain("ToolResult", by[2]) \in Own
    BY <1>1, <1>8, PlainOwn, ClaimOwn DEF OfUpdate
  <2> QED BY <1>2, <1>8, <2>1
<1> QED BY <1>5, <1>6, <1>7, <1>8 DEF Operated

(***************************************************************************)
(* What an update leaves on the way to the journal.                        *)
(***************************************************************************)
Ahead == ToSet(queue.pending)
LEMMA WayType ==
    ASSUME TypeOK
    PROVE  /\ update.batch \in Seq(Queued) /\ queue.pending \in Seq(Queued)
           /\ Ahead \in SUBSET Queued /\ Way \in SUBSET Queued /\ queue.observed \in Nat
           /\ ToSet(update.batch) \in SUBSET Queued
<1>1. queue \in Queues /\ update \in Updates
  BY Apart
<1>2. update.batch \in Seq(Queued) /\ queue.pending \in Seq(Queued) /\ queue.observed \in Nat
  BY <1>1 DEF Queues, Updates
<1> QED BY <1>2 DEF Ahead, Way, ToSet

LEMMA NoneSet == ToSet(<<>>) = {} /\ Rising(<<>>)
BY DEF ToSet, Rising

(* The outcome of an update: the journal j, and what is pending.           *)
Outcome(j) ==
    /\ InSequence'
    /\ queue'.observed = queue.observed
    /\ queue'.failure = "None" => queue.failure = "None"
    /\ Moves(j, Ahead, journal', Way')

LEMMA MovesFailed ==
    ASSUME NEW j, NEW W, NEW k, NEW V, Moves(j, W, k, V), NEW X, W \subseteq X, NEW l,
           l.entries = k.entries, l.ignored = k.ignored, l.finished = k.finished,
           l.failure # "None"
    PROVE  Moves(j, X, l, {})
BY DEF Moves

LEMMA FailsOutcome ==
    ASSUME TypeOK, NEW by, NEW j \in Journals, NEW k, NEW q, Fails(by, k, q), Balanced(q),
           Line(j, {}, queue.observed), k.entries = j.entries, k.ignored = j.ignored,
           k.finished = j.finished, k.failure # "None", k \in Journals
    PROVE  /\ InSequence' /\ Way' = {} /\ journal' = k
           /\ queue'.observed = queue.observed
           /\ queue'.failure = "None" => queue.failure = "None"
<1>1. q \in Queues /\ k.failure \in Causes
  BY DEF Balanced, Journals
<1>2. /\ queue' = Stopped(q, k.failure) /\ update'.batch = <<>> /\ journal' = k
  BY DEF Fails, NoUpdate
<1>3. queue'.pending = <<>> /\ queue'.observed = queue.observed
      /\ (queue'.failure = "None" => queue.failure = "None")
  <2>1. queue'.observed = q.observed
    BY <1>1, <1>2 DEF Stopped, Queues
  <2> QED BY <1>1, <1>2, <2>1, StoppedType DEF Balanced
<1>4. Way' = {}
  BY <1>2, <1>3, NoneSet DEF Way
<1>5. Line(journal', Way', queue'.observed)
  BY <1>2, <1>3, <1>4, LineSame
<1>6. InSequence'
  BY <1>2, <1>3, <1>5, NoneSet DEF InSequence
<1> QED BY <1>2, <1>3, <1>4, <1>6

LEMMA FailsOut ==
    ASSUME TypeOK, NEW by, NEW j \in Journals, NEW k, NEW q, Fails(by, k, q), Balanced(q),
           Line(j, Ahead, queue.observed), k.entries = j.entries, k.ignored = j.ignored,
           k.finished = j.finished, k.failure # "None", k \in Journals
    PROVE  Outcome(j)
<1>1. Line(j, {}, queue.observed)
  BY LineLess
<1>2. Moves(j, Ahead, k, {})
  BY MovesNot, MovesFailed
<1> QED BY <1>1, <1>2, FailsOutcome DEF Outcome

LEMMA TakesOut ==
    ASSUME TypeOK, InSequence, NEW by, NEW phase, NEW j, NEW q, Takes(by, phase, q), Balanced(q),
           journal' = j, Line(j, Ahead, queue.observed)
    PROVE  Outcome(j)
<1>1. q \in Queues
  BY DEF Balanced
<1>2. /\ update'.batch = queue.pending /\ queue'.pending = <<>>
      /\ queue'.observed = queue.observed /\ queue'.failure = queue.failure
  BY <1>1 DEF Takes, Balanced, Queues
<1>3. Way' = Ahead
  BY <1>2, NoneSet DEF Way, Ahead
<1>4. InSequence'
  BY <1>2, <1>3, NoneSet DEF InSequence
<1> QED BY <1>2, <1>3, <1>4, MovesNot DEF Outcome

LEMMA EndsOut ==
    ASSUME TypeOK, InSequence, NEW j, NEW q, queue' = q, Balanced(q), update'.batch = <<>>,
           journal' = j, Line(j, Ahead, queue.observed)
    PROVE  Outcome(j)
<1>2. /\ update'.batch = <<>> /\ queue'.pending = queue.pending
      /\ queue'.observed = queue.observed /\ queue'.failure = queue.failure
  BY DEF Balanced
<1>3. Way' = Ahead
  BY <1>2, NoneSet DEF Way, Ahead
<1>4. InSequence'
  BY <1>2, <1>3, NoneSet DEF InSequence
<1> QED BY <1>2, <1>3, <1>4, MovesNot DEF Outcome

LEMMA CompletesOut ==
    ASSUME TypeOK, InSequence, NEW by, NEW j \in Journals, NEW q, Completes(by, j, q), Balanced(q),
           Line(j, Ahead, queue.observed)
    PROVE  Outcome(j)
<1>1. CASE j.failure # "None"
  BY <1>1, FailsOut DEF Completes
<1>2. CASE j.failure = "None" /\ q.failure # "None"
  <2> DEFINE k == [j EXCEPT !.failure = q.failure]
  <2>1. q.failure \in Causes
    BY DEF Balanced, Queues
  <2>2. k \in Journals /\ k.entries = j.entries /\ k.ignored = j.ignored /\ k.finished = j.finished
        /\ k.failure # "None"
    BY <1>2, <2>1 DEF Journals
  <2>3. Fails(by, k, q)
    BY <1>2 DEF Completes
  <2> HIDE DEF k
  <2> QED BY <2>2, <2>3, FailsOut
<1>3. CASE j.failure = "None" /\ q.failure = "None" /\ q.pending # <<>>
  BY <1>3, TakesOut DEF Completes
<1>4. CASE j.failure = "None" /\ q.failure = "None" /\ q.pending = <<>>
  <2>1. queue' = q /\ update'.batch = <<>> /\ journal' = j
    BY <1>4 DEF Completes, NoUpdate
  <2> QED BY <2>1, EndsOut
<1> QED BY <1>1, <1>2, <1>3, <1>4

(* The batch in the journal.                                               *)
Flushed == RecordAll(journal, update.batch)
LEMMA FlushedDoes ==
    ASSUME TypeOK, InSequence
    PROVE  /\ Flushed \in Journals
           /\ Moves(journal, Way, Flushed, Ahead)
           /\ Line(Flushed, Ahead, queue.observed)
<1>1. /\ update.batch \in Seq(Queued) /\ Ahead \in SUBSET Queued /\ queue.observed \in Nat
      /\ journal \in Journals /\ Way = ToSet(update.batch) \cup Ahead
  BY WayType, Apart DEF Way, Ahead
<1>2. Rising(update.batch) /\ Line(journal, Way, queue.observed)
      /\ \A d \in ToSet(update.batch), e \in Ahead : d.at < e.at
  BY DEF InSequence, Ahead
<1>3. Flushed \in Journals
  BY BatchType DEF Flushed
<1> QED BY <1>1, <1>2, <1>3, FlushMoves, FlushLine DEF Flushed

LEMMA PartDoes ==
    ASSUME TypeOK, InSequence, NEW k \in 0..Len(update.batch)
    PROVE  LET j == RecordAll(journal, SubSeq(update.batch, 1, k)) IN
           /\ j \in Journals
           /\ Moves(journal, Way, Broken(j), {})
           /\ Line(j, {}, queue.observed)
<1> DEFINE s == SubSeq(update.batch, 1, k)
           j == RecordAll(journal, s)
<1>1. /\ update.batch \in Seq(Queued) /\ queue.observed \in Nat
      /\ journal \in Journals
  BY WayType, Apart
<1>2. j \in Journals
  BY BatchType
<1>3. /\ s \in Seq(Queued) /\ Len(s) = k /\ DOMAIN s = 1..k /\ k \in Nat
      /\ \A i \in 1..k : s[i] = update.batch[i] /\ i \in DOMAIN update.batch
  BY <1>1
<1> HIDE DEF s
<1>4. Rising(s) /\ ToSet(s) \subseteq ToSet(update.batch)
  BY <1>3 DEF InSequence, Rising, ToSet
<1>5. ToSet(s) \subseteq Way /\ ToSet(s) \cup {} = ToSet(s)
  BY <1>4 DEF Way
<1>6. Line(journal, ToSet(s), queue.observed)
  BY <1>5, LineLess DEF InSequence
<1>7. Moves(journal, ToSet(s) \cup {}, j, {}) /\ Line(j, {}, queue.observed)
  <2>1. {} \in SUBSET Queued /\ \A d \in ToSet(s), e \in {} : d.at < e.at
    OBVIOUS
  <2>2. s \in Seq(Queued) /\ Line(journal, ToSet(s) \cup {}, queue.observed)
    BY <1>3, <1>5, <1>6
  <2> HIDE DEF j
  <2> QED BY <1>1, <1>4, <2>1, <2>2, FlushMoves, FlushLine DEF j
<1> HIDE DEF j
<1>8. Broken(j).entries = j.entries /\ Broken(j).ignored = j.ignored
      /\ Broken(j).finished = j.finished /\ Broken(j).failure # "None"
  BY <1>2 DEF Broken, Journals
<1>9. Moves(journal, Way, Broken(j), {})
  BY <1>5, <1>7, <1>8, MovesFailed
<1> QED BY <1>2, <1>7, <1>9 DEF j, s

LEMMA OperatesOut ==
    ASSUME TypeOK, InSequence, NEW by \in Updaters, NEW j \in Journals, NEW q, Operates(by, j, q),
           Balanced(q), Line(j, Ahead, queue.observed)
    PROVE  Outcome(j)
<1> DEFINE k == RecordAll(j, Operation(by, j))
<1>1. Ahead \in SUBSET Queued /\ queue.observed \in Nat
  BY WayType
<1>2. Operated(by, j, k)
  BY OperationDoes
<1>3. Completes(by, k, q)
  BY DEF Operates
<1> HIDE DEF k
<1>4. k \in Journals /\ Moves(j, Ahead, k, Ahead) /\ Line(k, Ahead, queue.observed)
  BY <1>1, <1>2, OperatedMoves, OperatedLine
<1>5. Outcome(k)
  BY <1>3, <1>4, CompletesOut
<1> QED BY <1>4, <1>5, MovesOn DEF Outcome

(* What every update does to the way of the events.                        *)
Along ==
    /\ InSequence'
    /\ queue'.observed = queue.observed
    /\ queue'.failure = "None" => queue.failure = "None"
    /\ Moves(journal, Way, journal', Way')

LEMMA Alongside ==
    ASSUME NEW j, Moves(journal, Way, j, Ahead), Outcome(j) PROVE Along
BY MovesOn DEF Outcome, Along

LEMMA StillLine ==
    ASSUME InSequence PROVE Line(journal, Ahead, queue.observed)
<1>1. Ahead \subseteq Way
  BY DEF Way, Ahead
<1> QED BY <1>1, LineLess DEF InSequence
LEMMA FreeWay ==
    ASSUME Account, update.phase \in {"Free", "Publishing"} PROVE Way = Ahead
BY NoneSet DEF Account, Accounted, Way, Ahead

LEMMA LockAlong == ASSUME TypeOK, Account, InSequence, NEW by \in Updaters, Lock(by) PROVE Along
<1>1. /\ Balanced(queue) /\ Way = Ahead /\ journal \in Journals /\ queue \in Queues
      /\ Line(journal, Ahead, queue.observed)
  BY FreeBalanced, FreeWay, StillLine, Apart DEF Account, Lock
<1> DEFINE k == [journal EXCEPT !.failure = IF @ = "None" THEN queue.failure ELSE @]
<1>2. ASSUME journal.failure # "None" \/ queue.failure # "None", Fails(by, k, queue) PROVE Outcome(journal)
  <2>1. k \in Journals /\ k.entries = journal.entries /\ k.ignored = journal.ignored
        /\ k.finished = journal.finished /\ k.failure # "None"
    BY <1>1, <1>2 DEF Journals, Queues
  <2>2. Fails(by, k, queue)
    BY <1>2
  <2> HIDE DEF k
  <2> QED BY <1>1, <2>1, <2>2, FailsOut
<1>3. ASSUME Operates(by, journal, queue) PROVE Outcome(journal)
  <2>1. journal \in Journals /\ Balanced(queue) /\ Line(journal, Ahead, queue.observed)
    BY <1>1
  <2> QED BY ONLY TypeOK, InSequence, by \in Updaters, <1>3, <2>1, OperatesOut
<1>4. ASSUME Takes(by, "First", queue), journal' = journal PROVE Outcome(journal)
  <2>1. Balanced(queue) /\ Line(journal, Ahead, queue.observed)
    BY <1>1
  <2> QED BY ONLY TypeOK, InSequence, <1>4, <2>1, TakesOut
<1>5. \/ (journal.failure # "None" \/ queue.failure # "None") /\ Fails(by, k, queue)
      \/ Operates(by, journal, queue)
      \/ Takes(by, "First", queue) /\ journal' = journal
  BY DEF Lock
<1> HIDE DEF k
<1>6. Outcome(journal)
  BY <1>2, <1>3, <1>4, <1>5
<1> QED BY <1>1, <1>6, MovesNot, Alongside

LEMMA OperateAlong == ASSUME TypeOK, Account, InSequence, Operate PROVE Along
<1>1. /\ Balanced(Uncounted) /\ update.by \in Updaters
  BY UncountedBalanced, UpdateHolds DEF Account, Operate, Holding
<1>2. Operates(update.by, Flushed, Uncounted)
  BY DEF Operate, Flushed
<1> QED BY <1>1, <1>2, FlushedDoes, OperatesOut, Alongside

LEMMA UnlockAlong == ASSUME TypeOK, Account, InSequence, Unlock PROVE Along
<1>1. /\ Balanced(Uncounted) /\ update.by \in Updaters
  BY UncountedBalanced, UpdateHolds DEF Account, Unlock, Holding
<1>2. CASE Flushed.failure # "None" /\ Fails(update.by, Flushed, Uncounted)
  BY <1>1, <1>2, FlushedDoes, FailsOut, Alongside
<1>3. CASE journal' = Flushed /\ queue' = Uncounted /\ update' = NoUpdate
  <2>1. update'.batch = <<>>
    BY <1>3 DEF NoUpdate
  <2> QED BY <1>1, <1>3, <2>1, FlushedDoes, EndsOut, Alongside
<1> QED BY <1>2, <1>3 DEF Unlock, Flushed

LEMMA PublishAlong == ASSUME TypeOK, Account, InSequence, Publish PROVE Along
<1>1. /\ Balanced(Uncounted) /\ update.by \in Updaters /\ update \in Updates
      /\ Ahead \in SUBSET Queued /\ queue.observed \in Nat
  BY UncountedBalanced, UpdateHolds, Apart, WayType DEF Account, Publish, Holding
<1>2. CASE Flushed.failure # "None" /\ Fails(update.by, Flushed, Uncounted)
  BY <1>1, <1>2, FlushedDoes, FailsOut, Alongside
<1>3. CASE /\ journal' = Created(Flushed) /\ queue' = Uncounted
           /\ update' = [update EXCEPT !.phase = "Publishing", !.batch = <<>>, !.count = 0]
  <2>1. update'.batch = <<>>
    BY <1>1, <1>3 DEF Updates
  <2>2. Flushed \in Journals /\ Line(Created(Flushed), Ahead, queue.observed)
        /\ Moves(Flushed, Ahead, Created(Flushed), Ahead) /\ Moves(journal, Way, Flushed, Ahead)
    BY <1>1, FlushedDoes, CreatedLine, CreatedMoves
  <2>3. Moves(journal, Way, Created(Flushed), Ahead)
    BY <2>2, MovesOn
  <2> QED BY <1>1, <1>3, <2>1, <2>2, <2>3, EndsOut, Alongside
<1> QED BY <1>2, <1>3 DEF Publish, Flushed

LEMMA FinishPublicationAlong == ASSUME TypeOK, Account, InSequence, FinishPublication PROVE Along
<1> DEFINE k == [journal EXCEPT !.published = TRUE]
           e == Plain("RecordingActivated", 0)
<1>1. /\ Balanced(queue) /\ Way = Ahead /\ journal \in Journals
      /\ Line(journal, Ahead, queue.observed) /\ Ahead \in SUBSET Queued /\ queue.observed \in Nat
  BY FreeBalanced, FreeWay, StillLine, Apart, WayType DEF Account, FinishPublication
<1>2. k \in Journals /\ k.entries = journal.entries /\ k.ignored = journal.ignored
      /\ k.finished = journal.finished /\ k.failure = journal.failure
  BY <1>1 DEF Journals
<1>3. e \in Own /\ e \in Entries
  BY PlainOwn, OwnZero DEF OfUpdate
<1>4. Completes(update.by, Record(k, e), queue)
  BY DEF FinishPublication
<1> HIDE DEF k, e
<1>5. Line(k, Ahead, queue.observed) /\ Moves(journal, Ahead, k, Ahead)
  <2>1. Moves(journal, Ahead, k, Ahead)
    BY <1>2 DEF Moves
  <2> QED BY <1>1, <1>2, <2>1, LineSame
<1>6. Record(k, e) \in Journals /\ Line(Record(k, e), Ahead, queue.observed)
      /\ Moves(k, Ahead, Record(k, e), Ahead)
  BY <1>1, <1>2, <1>3, <1>5, RecordType, RecordMoves, RecordOwnLine
<1>7. Outcome(Record(k, e))
  BY <1>1, <1>4, <1>6, CompletesOut
<1> QED BY <1>1, <1>5, <1>6, <1>7, MovesOn, Alongside

LEMMA WriteFailsAlong == ASSUME TypeOK, Account, InSequence, WriteFails PROVE Along
<1>1. Balanced(Uncounted)
  BY UncountedBalanced DEF Account
<1>2. PICK k \in 0..Len(update.batch) :
         Fails(update.by, Broken(RecordAll(journal, SubSeq(update.batch, 1, k))), Uncounted)
  BY DEF WriteFails
<1> DEFINE j == RecordAll(journal, SubSeq(update.batch, 1, k))
<1>3. j \in Journals /\ Moves(journal, Way, Broken(j), {}) /\ Line(j, {}, queue.observed)
  BY PartDoes
<1>4. Fails(update.by, Broken(j), Uncounted)
  BY <1>2
<1> HIDE DEF j
<1>5. Broken(j) \in Journals /\ Broken(j).entries = j.entries /\ Broken(j).ignored = j.ignored
      /\ Broken(j).finished = j.finished /\ Broken(j).failure # "None"
  BY <1>3, BrokenType DEF Broken, Journals
<1> QED BY <1>1, <1>3, <1>4, <1>5, FailsOutcome DEF Along

LEMMA OperationFailsAlong ==
    ASSUME TypeOK, Account, InSequence, update.phase \in {"Free", "Publishing"}, NEW by,
           Fails(by, Broken(journal), queue)
    PROVE  Along
<1>1. /\ Balanced(queue) /\ Way = Ahead /\ journal \in Journals
      /\ Line(journal, Ahead, queue.observed)
  BY FreeBalanced, FreeWay, StillLine, Apart DEF Account
<1>2. Broken(journal) \in Journals /\ Broken(journal).entries = journal.entries
      /\ Broken(journal).ignored = journal.ignored
      /\ Broken(journal).finished = journal.finished /\ Broken(journal).failure # "None"
  BY <1>1, BrokenType DEF Broken, Journals
<1> QED BY <1>1, <1>2, FailsOut, MovesNot, Alongside

LEMMA UpdatedAlong ==
    ASSUME TypeOK, Account, InSequence, Updated \/ FinishPublication PROVE Along
<1>1. ASSUME NEW by \in Updaters, OperationFails(by) PROVE Along
  BY <1>1, OperationFailsAlong DEF OperationFails
<1>2. CASE PublishFails
  BY <1>2, OperationFailsAlong DEF PublishFails
<1> QED BY <1>1, <1>2, LockAlong, OperateAlong, UnlockAlong, PublishAlong, WriteFailsAlong,
           FinishPublicationAlong DEF Updated

(***************************************************************************)
(* What a report leaves on the way to the journal.                         *)
(***************************************************************************)
Next2 == queue.observed + 1
Numbered(e) == [e EXCEPT !.at = Next2]
Longer(d, e) == [d EXCEPT !.to = e.to]
(* The report of e is dropped with the rest of the queue, or it gets the   *)
(* next number, or it continues the last event.                            *)
Drops == queue'.failure # "None" /\ queue'.observed = queue.observed /\ Way' \subseteq Way
Adds(e) ==
    /\ queue.failure = "None" /\ queue'.failure = "None" /\ queue'.observed = Next2
    /\ Way' = Way \cup {Numbered(e)} /\ Ahead' \subseteq Ahead \cup {Numbered(e)}
Extends(e) ==
    /\ queue.failure = "None" /\ queue'.failure = "None" /\ queue'.observed = queue.observed
    /\ \E d \in Way :
         /\ d.kind = "OutputText" /\ e.kind = "OutputText" /\ d.owner = e.owner /\ d.to = e.from
         /\ Way' = (Way \ {d}) \cup {Longer(d, e)} /\ Ahead' \subseteq Ahead \cup {Longer(d, e)}
         /\ \A x \in ToSet(journal.entries) \cup Way : x = d \/ x.at < d.at
Keeps ==
    /\ queue'.failure = queue.failure /\ queue'.observed = queue.observed
    /\ queue'.pending = queue.pending
Reaches1(e) == (Keeps /\ queue.failure # "None") \/ Drops \/ Adds(e) \/ Extends(e)
Spoken1(e) == InSequence' /\ Reaches1(e)

LEMMA KeepsWay ==
    ASSUME Keeps, UNCHANGED update PROVE Way' = Way /\ Ahead' = Ahead
BY DEF Keeps, Way, Ahead
LEMMA KeepsInSequence ==
    ASSUME InSequence, Keeps, UNCHANGED update, journal'.entries = journal.entries
    PROVE  InSequence'
<1>1. Line(journal', Way', queue'.observed)
  BY KeepsWay, LineSame DEF InSequence, Keeps
<1> QED BY <1>1 DEF InSequence, Keeps

LEMMA ExtendedAt ==
    ASSUME NEW q \in Queues, NEW e \in Queued, Merges(q, e)
    PROVE  LET s == q.pending
               p == Extended(q, e).pending
               n == Len(s) IN
           /\ n \in Nat \ {0} /\ DOMAIN s = 1..n /\ DOMAIN p = 1..n
           /\ s \in Seq(Queued) /\ p \in Seq(Queued)
           /\ p[n] = Longer(s[n], e) /\ \A i \in 1..(n - 1) : p[i] = s[i]
           /\ s[n].kind = "OutputText" /\ e.kind = "OutputText" /\ s[n].owner = e.owner
           /\ s[n].to = e.from
           /\ Extended(q, e).failure = q.failure /\ Extended(q, e).observed = q.observed
           /\ Extended(q, e) \in Queues
<1> DEFINE s == q.pending
           n == Len(s)
           x == Longer(s[n], e)
           front == SubSeq(s, 1, n - 1)
           last == <<x>>
<1>1. s \in Seq(Queued) /\ n \in Nat /\ n # 0 /\ DOMAIN s = 1..n /\ s[n] \in Queued
  BY DEF Queues, Merges
<1>2. x \in Queued
  BY <1>1 DEF Longer, Queued, Events
<1>3. /\ s[n].kind = "OutputText" /\ e.kind = "OutputText" /\ s[n].owner = e.owner
      /\ s[n].to = e.from
  BY DEF Merges, Last
<1>4. front \in Seq(Queued) /\ Len(front) = n - 1 /\ \A i \in 1..(n - 1) : front[i] = s[i]
  BY <1>1
<1> HIDE DEF x
<1>5. last \in Seq(Queued) /\ Len(last) = 1 /\ last[1] = x
  BY <1>2
<1>6. Extended(q, e) = [q EXCEPT !.pending = front \o last]
  BY DEF Extended, Front, Last, Longer, x
<1> HIDE DEF front, last
<1> DEFINE p == front \o last
<1>7. /\ p \in Seq(Queued) /\ Len(p) = Len(front) + Len(last) /\ DOMAIN p = 1..Len(p)
      /\ \A i \in 1..Len(front) : p[i] = front[i]
      /\ \A i \in 1..Len(last) : p[Len(front) + i] = last[i]
  <2>1. front \in Seq(Queued) /\ last \in Seq(Queued)
    BY <1>4, <1>5
  <2> QED BY ONLY <2>1
<1>8. Extended(q, e) = [q EXCEPT !.pending = p]
  BY <1>6
<1> HIDE DEF p
<1>9. DOMAIN p = 1..n /\ p[n] = x /\ \A i \in 1..(n - 1) : p[i] = s[i]
  <2>1. Len(front) = n - 1 /\ Len(last) = 1 /\ Len(p) = n
    BY <1>1, <1>4, <1>5, <1>7
  <2>2. 1 \in 1..Len(last) /\ Len(front) + 1 = n
    BY <1>1, <2>1
  <2> QED BY <1>4, <1>5, <1>7, <2>1, <2>2
<1>10. /\ Extended(q, e).pending = p /\ Extended(q, e).failure = q.failure
       /\ Extended(q, e).observed = q.observed /\ Extended(q, e) \in Queues
  BY <1>7, <1>8 DEF Queues
<1> HIDE DEF s
<1> QED BY <1>1, <1>3, <1>7, <1>9, <1>10 DEF s, x, n

LEMMA DroppedInSequence ==
    ASSUME TypeOK, InSequence, queue'.pending = <<>>, queue'.observed = queue.observed,
           queue'.failure # "None", UNCHANGED update, journal'.entries = journal.entries
    PROVE  InSequence' /\ Drops
<1>1. Way' \subseteq Way
  BY NoneSet DEF Way
<1>2. Line(journal', Way', queue'.observed)
  BY <1>1, LineLess, LineSame DEF InSequence
<1> QED BY <1>1, <1>2, NoneSet DEF InSequence, Drops

LEMMA ExtendsInSequence ==
    ASSUME TypeOK, InSequence, NEW s, NEW p, NEW n, NEW e \in Queued, n \in Nat \ {0},
           DOMAIN s = 1..n, DOMAIN p = 1..n, s = queue.pending, p = queue'.pending,
           p[n] = Longer(s[n], e), \A i \in 1..(n - 1) : p[i] = s[i],
           s[n].kind = "OutputText", e.kind = "OutputText", s[n].owner = e.owner,
           s[n].to = e.from, queue'.observed = queue.observed, queue.failure = "None",
           queue'.failure = "None", s \in Seq(Queued),
           UNCHANGED update, journal'.entries = journal.entries
    PROVE  InSequence' /\ Extends(e)
<1> DEFINE d == s[n]
           x == Longer(d, e)
           S == {s[i] : i \in 1..(n - 1)}
<1>0. d \in Queued
  BY n \in DOMAIN s, s \in Seq(Queued)
<1>1. d \in Queued /\ x.at = d.at /\ x.kind = d.kind
  <2> HIDE DEF d
  <2> QED BY <1>0 DEF Longer, Queued, Events
<1>2. 1..n = 1..(n - 1) \cup {n}
  OBVIOUS
<1>3. Ahead = S \cup {d} /\ Ahead' = S \cup {x}
  BY <1>2 DEF Ahead, ToSet
<1>4. /\ \A i, k \in 1..n : i < k => s[i].at < s[k].at
      /\ \A c \in ToSet(update.batch) : c.at < d.at
  BY <1>3 DEF InSequence, Rising, Ahead
<1>5. \A c \in S : c.at < d.at
  BY <1>4
<1>6. \A c \in ToSet(update.batch) \cup S : c.at < d.at
  BY <1>4, <1>5
<1>7. d \in Nat \/ d.at \in Nat
  BY <1>1 DEF Queued, Events
<1>8. d \notin ToSet(update.batch) \cup S
  <2>1. \A m \in Nat : ~(m < m)
    OBVIOUS
  <2>2. d.at \in Nat
    BY <1>1 DEF Queued, Events
  <2> QED BY <1>6, <2>1, <2>2
<1> HIDE DEF S, x, d
<1>9. /\ Way = ToSet(update.batch) \cup S \cup {d}
      /\ Way' = (Way \ {d}) \cup {x}
  BY <1>3, <1>8 DEF Way, Ahead
<1>10. \A i \in 1..n : p[i].at = s[i].at
  BY <1>1, <1>2 DEF x, d
<1>11. Rising(p) /\ Rising(update'.batch)
  BY <1>4, <1>10 DEF Rising, InSequence
<1>12. \A c \in ToSet(update'.batch), y \in ToSet(queue'.pending) : c.at < y.at
  <2>1. \A c \in ToSet(update.batch), y \in S \cup {d} : c.at < y.at
    BY <1>3 DEF InSequence, Ahead
  <2> QED BY <1>1, <1>3, <2>1 DEF Ahead
<1>13. Line(journal', Way', queue'.observed)
  BY <1>1, <1>9 DEF Line, InSequence
<1>14. InSequence'
  BY <1>11, <1>12, <1>13 DEF InSequence
<1>15. \A c \in ToSet(journal.entries) \cup Way : c = d \/ c.at < d.at
  <2>1. \A c \in ToSet(journal.entries) : c.at < d.at
    BY <1>9 DEF InSequence, Line
  <2> QED BY <1>6, <1>9, <2>1
<1>16. d \in Way /\ Ahead' \subseteq Ahead \cup {x}
  BY <1>3, <1>9
<1>17. Extends(e)
  <2>1. d.kind = "OutputText" /\ d.owner = e.owner /\ d.to = e.from
    BY DEF d
  <2> QED BY <1>9, <1>15, <1>16, <2>1 DEF Extends, x
<1> QED BY <1>14, <1>17

LEMMA AddsInSequence ==
    ASSUME TypeOK, InSequence, NEW e \in Queued,
           queue'.pending = Append(queue.pending, Numbered(e)), queue'.observed = Next2,
           queue.failure = "None", queue'.failure = "None",
           UNCHANGED update, journal'.entries = journal.entries
    PROVE  InSequence' /\ Adds(e)
<1> DEFINE s == queue.pending
           x == Numbered(e)
           p == Append(s, x)
           n == queue.observed
<1>1. /\ s \in Seq(Queued) /\ n \in Nat /\ Way \in SUBSET Queued /\ journal \in Journals
      /\ ToSet(update.batch) \in SUBSET Queued /\ Ahead \in SUBSET Queued
  BY WayType, Apart
<1>2. x \in Queued /\ x.at = n + 1 /\ x.kind = e.kind
  <2>1. x = [e EXCEPT !.at = n + 1] /\ n + 1 \in Nat
    BY <1>1 DEF Numbered, Next2
  <2> HIDE DEF x, n
  <2> QED BY <2>1 DEF Queued, Events
<1> HIDE DEF x
<1>3. ToSet(p) = ToSet(s) \cup {x}
  BY <1>1, <1>2, AppendedSet
<1>4. Way' = Way \cup {x} /\ Ahead' = Ahead \cup {x}
  BY <1>3 DEF Way, Ahead, x
<1>5. \A d \in ToSet(journal.entries) \cup Way : d.at <= n /\ d.at \in Nat
  <2>1. ToSet(journal.entries) \subseteq Entries
    BY <1>1 DEF Journals, ToSet
  <2> QED BY <1>1, <2>1 DEF InSequence, Line, Entries, Queued, Events
<1>6. \A d \in ToSet(journal.entries) \cup Way : d.at < x.at /\ d.at <= n + 1
  BY <1>1, <1>2, <1>5
<1>7. Rising(p)
  <2>1. /\ Len(s) \in Nat /\ DOMAIN s = 1..Len(s) /\ DOMAIN p = 1..(Len(s) + 1)
        /\ p[Len(s) + 1] = x /\ \A i \in 1..Len(s) : p[i] = s[i]
    BY <1>1, <1>2
  <2>2. \A i \in 1..Len(s) : s[i] \in Way
    BY <2>1 DEF Way, ToSet
  <2> HIDE DEF p
  <2>3. ASSUME NEW i \in DOMAIN p, NEW k \in DOMAIN p, i < k PROVE p[i].at < p[k].at
    <3>1. CASE k = Len(s) + 1
      <4>1. i \in 1..Len(s)
        BY <2>1, <2>3, <3>1
      <4> QED BY <1>6, <2>1, <2>2, <3>1, <4>1
    <3>2. CASE k \in 1..Len(s)
      <4>1. i \in 1..Len(s)
        BY <2>1, <2>3, <3>2
      <4> QED BY <2>1, <2>3, <3>2, <4>1 DEF InSequence, Rising
    <3> QED BY <2>1, <3>1, <3>2
  <2> QED BY <2>3 DEF Rising
<1> HIDE DEF p
<1>8. queue'.pending = p
  BY DEF p, x
<1>9. Rising(update'.batch) /\ Rising(queue'.pending)
  BY <1>7, <1>8 DEF InSequence
<1>10. \A d \in ToSet(update'.batch), y \in ToSet(queue'.pending) : d.at < y.at
  <2>1. \A d \in ToSet(update.batch) : d.at < x.at
    BY <1>6 DEF Way
  <2> QED BY <1>3, <1>8, <2>1 DEF InSequence
<1>11. Line(journal', Way', queue'.observed)
  <2>1. x.at <= n + 1 /\ x.at # 0
    BY <1>1, <1>2
  <2>2. queue'.observed = n + 1
    BY DEF Next2
  <2> HIDE DEF n
  <2> QED BY <1>4, <1>6, <2>1, <2>2 DEF InSequence, Line
<1> QED BY <1>4, <1>9, <1>10, <1>11 DEF InSequence, Adds, x

LEMMA ObserveSpeaks ==
    ASSUME TypeOK, InSequence, NEW q \in Queues, Alike(q), NEW e \in Queued, Observe(q, e),
           UNCHANGED update, journal'.entries = journal.entries
    PROVE  Spoken1(e)
<1>1. CASE queue.failure # "None"
  BY <1>1, KeepsInSequence DEF Observe, Keeps, Spoken1, Reaches1
<1>2. CASE queue.failure = "None"
  <2> DEFINE r == Pushed(q, e)
  <2>1. q.failure = "None" /\ q.pending = queue.pending /\ q.observed = queue.observed
    BY <1>2 DEF Alike
  <2>2. r \in Queues /\ queue' = Draining(r)
    BY <1>2, PushedType DEF Observe
  <2> HIDE DEF r
  <2>3. queue'.pending = r.pending /\ queue'.failure = r.failure /\ queue'.observed = r.observed
    BY <2>2 DEF Draining, Queues
  <2>4. CASE Merges(q, e)
    <3>1. r = Extended(q, e)
      BY <2>4 DEF r, Pushed
    <3> DEFINE s == q.pending
               p == Extended(q, e).pending
               n == Len(s)
    <3>2. /\ n \in Nat \ {0} /\ DOMAIN s = 1..n /\ DOMAIN p = 1..n /\ s \in Seq(Queued)
          /\ p[n] = Longer(s[n], e) /\ \A i \in 1..(n - 1) : p[i] = s[i]
          /\ s[n].kind = "OutputText" /\ e.kind = "OutputText" /\ s[n].owner = e.owner
          /\ s[n].to = e.from
          /\ Extended(q, e).failure = q.failure /\ Extended(q, e).observed = q.observed
      BY <2>4, ExtendedAt
    <3>3. s = queue.pending /\ p = queue'.pending /\ queue'.observed = queue.observed
          /\ queue'.failure = "None"
      BY <2>1, <2>3, <3>1, <3>2
    <3> HIDE DEF s, p, n
    <3>4. InSequence' /\ Extends(e)
      BY <1>2, <3>2, <3>3, ExtendsInSequence
    <3> QED BY <3>4 DEF Spoken1, Reaches1
  <2>5. CASE ~Merges(q, e) /\ q.retained = MaxEvents
    <3>1. r = Stopped(q, "Backlog")
      BY <2>5 DEF r, Pushed
    <3>2. r.pending = <<>> /\ r.observed = queue.observed /\ r.failure # "None"
      BY <2>1, <3>1, StoppedType DEF Causes
    <3> QED BY <2>3, <3>2, DroppedInSequence DEF Spoken1, Reaches1
  <2>6. CASE ~Merges(q, e) /\ q.retained # MaxEvents
    <3> DEFINE p == Append(q.pending, [e EXCEPT !.at = q.observed + 1])
               k == q.retained + 1
               o == q.observed + 1
    <3>1. r = [q EXCEPT !.pending = p, !.retained = k, !.observed = o]
      BY <2>6 DEF r, Pushed, Added
    <3>2. p = Append(queue.pending, Numbered(e)) /\ o = Next2
      BY <2>1 DEF Numbered, Next2
    <3> HIDE DEF p, k, o
    <3>3. r.pending = p /\ r.observed = o /\ r.failure = "None"
      BY <2>1, <3>1 DEF Queues
    <3>4. InSequence' /\ Adds(e)
      BY <1>2, <2>3, <3>2, <3>3, AddsInSequence
    <3> QED BY <3>4 DEF Spoken1, Reaches1
  <2> QED BY <2>4, <2>5, <2>6
<1> QED BY <1>1, <1>2

LEMMA DisableInSequence ==
    ASSUME TypeOK, InSequence, NEW cause \in Causes, cause # "None", Disable(cause),
           UNCHANGED update, journal'.entries = journal.entries
    PROVE  InSequence' /\ Drops
<1> DEFINE r == Stopped(queue, cause)
<1>1. queue \in Queues
  BY Apart
<1>2. r \in Queues /\ r.pending = <<>> /\ r.observed = queue.observed /\ r.failure # "None"
  BY <1>1, StoppedType
<1>3. queue' = Draining(r)
  BY DEF Disable
<1> HIDE DEF r
<1>4. queue'.pending = r.pending /\ queue'.failure = r.failure /\ queue'.observed = r.observed
  BY <1>2, <1>3 DEF Draining, Queues
<1> QED BY <1>2, <1>4, DroppedInSequence

(* A report is a report of an event, or nothing.                           *)
LEMMA ReportsSpeak ==
    ASSUME TypeOK, InSequence, Reports, UNCHANGED update, journal'.entries = journal.entries
    PROVE  InSequence' /\ (Keeps \/ \E e \in Queued : Reaches1(e))
<1>1. ASSUME NEW q \in Queues, NEW e \in Queued, Alike(q), Observe(q, e)
      PROVE  InSequence' /\ Reaches1(e)
  BY <1>1, ObserveSpeaks DEF Spoken1
<1>2. CASE Keeps
  BY <1>2, KeepsInSequence
<1> QED BY <1>1, <1>2 DEF Reports, Keeps

LEMMA SilentKeeps == ASSUME Silently PROVE Keeps
BY DEF Silently, Keeps
LEMMA SameKeeps == ASSUME UNCHANGED queue PROVE Keeps
BY DEF Keeps

LEMMA FiledRest ==
    ASSUME TypeOK, Filed
    PROVE  /\ UNCHANGED <<queue, update, tape, output>> /\ journal'.entries = journal.entries
           /\ journal'.ignored = journal.ignored /\ journal'.failure = journal.failure
           /\ journal'.calls = journal.calls
<1>1. journal \in Journals
  BY Apart
<1> QED BY <1>1 DEF Filed, CopyRest, FinalizeStorage, Relocate, Journals

LEMMA ReportedRest ==
    ASSUME Reported
    PROVE  UNCHANGED <<update, journal, files, handler, source, transport, tape, output, closing>>
BY DEF Reported, WorkerStarting, AssociateActive, WorkerReady, StartupFailed, ReserveImage,
       RetainImage, ImageFails, workerRest, imageRest
LEMMA SentRest ==
    ASSUME Sent
    PROVE  UNCHANGED <<update, journal, files, tape, output, closing, worker>>
BY DEF Sent, Receive, Submit, AssociateWaiting, AdmitSource, Return, RefuseSource, Dispatch,
       SettleSource, sendRest
LEMMA Told1Rest ==
    ASSUME TypeOK, Told1
    PROVE  UNCHANGED <<update, journal, files, handler, source, tape, output>> /\ Keeps
<1>1. queue \in Queues
  BY Apart
<1> QED BY <1>1 DEF Told1, DrainEnds, Close, CloseQueue, closingRest, Keeps, Queues
LEMMA PlannedRest ==
    ASSUME Planned
    PROVE  UNCHANGED <<queue, update, journal, files, handler, source, transport, output>>
BY DEF Planned, Acquire, WorkerEnds, Retire, Text, CellEnds, FinishRecording, EnterCell,
       workerRest, closingRest
LEMMA ScriptStepsRest ==
    ASSUME ScriptSteps
    PROVE  UNCHANGED <<update, journal, handler, source, transport, worker, closing>>
BY DEF ScriptSteps, CloseIdle, CloseCell, PublishCell, PublishReceipts, StartCell, CreateFile,
       EndCell, Write, TextEvent, UnownedText, WorkerStarted, WorkerEnded, WorkerRetired, tapeRest
LEMMA DeliveredRest ==
    ASSUME Delivered
    PROVE  UNCHANGED <<update, journal, files, tape, handler, source, transport, worker, closing>>
BY DEF Delivered, DeliverReceipt, tapeRest
LEMMA DeliveredReports == ASSUME Base, Delivered PROVE Reports
BY PublishesSummarizes, SummarizesReports DEF Delivered, DeliverReceipt, Base

LEMMA InSequenceStep == ASSUME Base, Account, InSequence, [Next]_vars PROVE InSequence'
<1>0. TypeOK
  BY DEF Base
<1>1. ASSUME Keeps, UNCHANGED update, journal'.entries = journal.entries PROVE InSequence'
  BY <1>1, KeepsInSequence
<1>2. ASSUME Reports, UNCHANGED update, journal'.entries = journal.entries PROVE InSequence'
  BY <1>0, <1>2, ReportsSpeak
<1>3. CASE UNCHANGED vars
  BY <1>1, <1>3, SameKeeps DEF vars
<1>4. CASE Updated \/ FinishPublication
  BY <1>0, <1>4, UpdatedAlong DEF Along
<1>5. CASE Filed
  BY <1>0, <1>1, <1>5, FiledRest, SameKeeps
<1>6. CASE Reported
  <2>1. CASE ImageFails
    BY <1>0, <1>6, <2>1, ReportedRest, DisableInSequence DEF ImageFails, Causes
  <2>2. CASE ~ImageFails
    BY <1>0, <1>2, <1>6, <2>2, ReportedRest, ReportedReports
  <2> QED BY <2>1, <2>2
<1>7. CASE Sent
  BY <1>0, <1>2, <1>7, SentRest, SentReports
<1>8. CASE Told1
  BY <1>0, <1>1, <1>8, Told1Rest
<1>9. CASE Planned
  BY <1>1, <1>9, PlannedRest, SameKeeps
<1>10. CASE ScriptSteps
  BY <1>2, <1>10, ScriptStepsRest, ScriptStepsReport
<1>11. CASE Delivered
  BY <1>2, <1>11, DeliveredRest, DeliveredReports
<1> QED BY <1>3, <1>4, <1>5, <1>6, <1>7, <1>8, <1>9, <1>10, <1>11, NextCases

LEMMA InitInSequence == ASSUME Init PROVE InSequence
BY NoneSet DEF Init, InSequence, Way, Line, NoUpdate, Placed, ToSet

(***************************************************************************)
(* What an update does in one step.                                        *)
(***************************************************************************)
(* The journal before the operation: the batch is in it.                   *)
Marks == {"RecordingStarted", "RecordingActivated"}
Ready(k) ==
    /\ k \in Journals /\ k.calls = Flushed.calls /\ k.failure = Flushed.failure
    /\ k.finished = Flushed.finished
    /\ ToSet(Flushed.entries) \subseteq ToSet(k.entries)
    /\ \A e \in ToSet(k.entries) : e \in ToSet(Flushed.entries) \/ e.kind \in Marks
(* How far an update can get before it fails.                              *)
Reached(by, x) ==
    \/ x = journal
    \/ \E n \in 0..Len(update.batch) : x = RecordAll(journal, SubSeq(update.batch, 1, n))
    \/ x = Flushed
    \/ update.phase # "Second" /\ \E k : Ready(k) /\ Operated(by, k, x)
Resembles(x) == journal'.entries = x.entries /\ journal'.calls = x.calls /\ journal'.finished = x.finished
Fated(x) ==
    \/ journal'.failure \in {x.failure, queue.failure} /\ UNCHANGED left
    \/ journal'.failure \in {x.failure, queue.failure, "Fault"} /\ Spend("faults")
Returns(by, done) ==
    update' = NoUpdate /\ \E hs : Same(hs) /\ Returned(by, done, hs)
TurnFails(by) ==
    /\ Returns(by, FALSE)
    /\ journal'.failure # "None" /\ queue'.failure \in {queue.failure, journal'.failure}
    /\ queue'.failure # "None" /\ queue'.pending = <<>>
    /\ \E x \in Journals : Reached(by, x) /\ Resembles(x) /\ Fated(x)
TurnStarts(by) ==
    /\ update'.by = by /\ UNCHANGED <<closing, handler, left>> /\ journal'.failure = "None"
    /\ queue'.failure = queue.failure
    /\ \/ /\ update.phase = "Free" /\ update'.phase = "First" /\ journal' = journal
          /\ update'.batch = queue.pending /\ queue'.pending = <<>> /\ Wants(by)
       \/ /\ update.phase = "First" /\ update'.phase = "Publishing" /\ update'.batch = <<>>
          /\ journal' = Created(Flushed) /\ queue'.pending = queue.pending
TurnOperates(by) ==
    /\ update.phase # "Second" /\ journal'.failure = "None" /\ UNCHANGED left
    /\ queue.failure = "None" /\ queue'.failure = "None" /\ queue'.pending = <<>>
    /\ update.phase = "Free" => queue.pending = <<>> /\ Wants(by)
    /\ \E k : Ready(k) /\ Operated(by, k, journal')
    /\ \/ /\ update'.by = by /\ update'.phase = "Second" /\ UNCHANGED closing /\ Same(handler')
          /\ update'.batch = queue.pending
       \/ Returns(by, TRUE) /\ queue.pending = <<>>
TurnUnlocks(by) ==
    /\ update.phase = "Second" /\ journal' = Flushed /\ journal'.failure = "None"
    /\ queue'.pending = queue.pending /\ queue'.failure = queue.failure /\ UNCHANGED left
    /\ Returns(by, TRUE)
Turn(by) ==
    /\ by \in Updaters /\ Holding(by)
    /\ (update.phase = "Free" /\ Wants(by)) \/ (update.phase # "Free" /\ update.by = by)
    /\ queue'.owner = queue.owner
    /\ UNCHANGED <<source, transport, tape, output, worker, image>>
    /\ TurnFails(by) \/ TurnStarts(by) \/ TurnOperates(by) \/ TurnUnlocks(by)

LEMMA FailedTurns ==
    ASSUME TypeOK, NEW by \in Updaters, NEW j \in Journals, j.failure # "None", NEW q, Balanced(q),
           q.owner = queue.owner, Fails(by, j, q), NEW x \in Journals, Reached(by, x),
           j.entries = x.entries, j.calls = x.calls, j.finished = x.finished,
           \/ j.failure \in {x.failure, queue.failure} /\ UNCHANGED left
           \/ j.failure \in {x.failure, queue.failure, "Fault"} /\ Spend("faults")
    PROVE  TurnFails(by) /\ queue'.owner = queue.owner
<1>1. q \in Queues /\ j.failure \in Causes /\ q.failure = queue.failure
  BY DEF Balanced, Journals
<1>2. queue' = Stopped(q, j.failure) /\ journal' = j /\ update' = NoUpdate /\ Returned(by, FALSE, handler)
  BY DEF Fails
<1>3. /\ queue'.pending = <<>> /\ queue'.owner = q.owner
      /\ queue'.failure = IF q.failure = "None" THEN j.failure ELSE q.failure
  BY <1>1, <1>2, StoppedType
<1>4. Same(handler)
  BY SameHandlers
<1>5. Returns(by, FALSE)
  BY <1>2, <1>4 DEF Returns
<1>6. Resembles(x) /\ Fated(x)
  BY <1>2 DEF Resembles, Fated
<1> QED BY <1>1, <1>2, <1>3, <1>5, <1>6 DEF TurnFails

LEMMA CompletesTurns ==
    ASSUME TypeOK, NEW by \in Updaters, NEW j \in Journals, NEW q, Balanced(q),
           q.owner = queue.owner, Completes(by, j, q), NEW k, Ready(k), Operated(by, k, j),
           UNCHANGED left, update.phase # "Second",
           update.phase = "Free" => queue.pending = <<>> /\ Wants(by)
    PROVE  (TurnFails(by) \/ TurnOperates(by)) /\ queue'.owner = queue.owner
<1>0. q \in Queues /\ q.failure = queue.failure /\ q.pending = queue.pending
  BY DEF Balanced
<1>1. Reached(by, j)
  BY DEF Reached
<1>2. CASE j.failure # "None"
  <2>1. Fails(by, j, q)
    BY <1>2 DEF Completes
  <2> QED BY <1>1, <1>2, <2>1, FailedTurns
<1>3. CASE j.failure = "None" /\ q.failure # "None"
  <2> DEFINE i == [j EXCEPT !.failure = q.failure]
  <2>1. i \in Journals /\ i.entries = j.entries /\ i.calls = j.calls /\ i.finished = j.finished
        /\ i.failure = q.failure
    BY <1>0 DEF Journals, Queues
  <2>2. Fails(by, i, q)
    BY <1>3 DEF Completes
  <2> HIDE DEF i
  <2> QED BY <1>0, <1>1, <1>3, <2>1, <2>2, FailedTurns
<1>4. CASE j.failure = "None" /\ q.failure = "None" /\ q.pending # <<>>
  <2>1. journal' = j /\ Takes(by, "Second", q) /\ handler' = Addressed(by) /\ UNCHANGED closing
    BY <1>4 DEF Completes
  <2>2. /\ update'.by = by /\ update'.phase = "Second" /\ update'.batch = queue.pending
        /\ queue'.pending = <<>> /\ queue'.owner = queue.owner /\ queue'.failure = "None"
    BY <1>0, <1>4, <2>1 DEF Takes, Queues
  <2>3. Same(handler')
    BY <2>1, SameHandlers
  <2> QED BY <1>0, <1>4, <2>1, <2>2, <2>3 DEF TurnOperates
<1>5. CASE j.failure = "None" /\ q.failure = "None" /\ q.pending = <<>>
  <2>1. journal' = j /\ queue' = q /\ update' = NoUpdate /\ Returned(by, TRUE, Addressed(by))
    BY <1>5 DEF Completes
  <2>2. Returns(by, TRUE)
    BY <2>1, SameHandlers DEF Returns
  <2> QED BY <1>0, <1>5, <2>1, <2>2 DEF TurnOperates
<1> QED BY <1>2, <1>3, <1>4, <1>5

LEMMA OperatesTurns ==
    ASSUME TypeOK, NEW by \in Updaters, NEW k, Ready(k), NEW q, Balanced(q),
           q.owner = queue.owner, Operates(by, k, q),
           UNCHANGED left, update.phase # "Second",
           update.phase = "Free" => queue.pending = <<>> /\ Wants(by)
    PROVE  (TurnFails(by) \/ TurnOperates(by)) /\ queue'.owner = queue.owner
<1> DEFINE j == RecordAll(k, Operation(by, k))
<1>1. Operated(by, k, j)
  BY OperationDoes
<1>2. Completes(by, j, q)
  BY DEF Operates
<1>3. k \in Journals
  BY DEF Ready
<1> HIDE DEF j
<1>4. j \in Journals
  BY <1>1, <1>3, OperatedMoves
<1> QED BY <1>1, <1>2, <1>4, CompletesTurns

LEMMA FlushedFree ==
    ASSUME Account, update.phase \in {"Free", "Publishing"} PROVE Flushed = journal
BY RecordAllNone DEF Account, Accounted, Flushed
LEMMA FlushedReady == ASSUME TypeOK PROVE Flushed \in Journals /\ Ready(Flushed)
BY BatchType DEF Ready, Flushed
LEMMA UncountedOwner == ASSUME TypeOK PROVE Uncounted.owner = queue.owner
BY Apart DEF Uncounted, Queues

UpdateAlone == UNCHANGED <<source, transport, tape, output, worker, image>>
LEMMA LockTurns == ASSUME TypeOK, Account, NEW by \in Updaters, Lock(by) PROVE Turn(by)
<1> DEFINE k == [journal EXCEPT !.failure = IF @ = "None" THEN queue.failure ELSE @]
<1>0. /\ Holding(by) /\ Balanced(queue) /\ UpdateAlone /\ journal \in Journals
      /\ update.phase = "Free" /\ UNCHANGED left /\ Wants(by) /\ queue \in Queues
  BY WantsHolds, FreeBalanced, Apart DEF Lock, Account, UpdateAlone
<1>1. CASE Fails(by, k, queue) /\ (journal.failure # "None" \/ queue.failure # "None")
  <2>1. /\ k \in Journals /\ k.entries = journal.entries /\ k.calls = journal.calls
        /\ k.finished = journal.finished /\ k.failure # "None"
        /\ k.failure \in {journal.failure, queue.failure}
    BY <1>0, <1>1 DEF Journals, Queues
  <2>2. Fails(by, k, queue)
    BY <1>1
  <2> HIDE DEF k
  <2>3. Reached(by, journal)
    BY DEF Reached
  <2>4. TurnFails(by) /\ queue'.owner = queue.owner
    BY <1>0, <2>1, <2>2, <2>3, FailedTurns
  <2> QED BY <1>0, <2>4 DEF Turn, UpdateAlone
<1>2. ASSUME Operates(by, journal, queue), queue.pending = <<>> PROVE Turn(by)
  <2>1. Ready(journal)
    BY <1>0, FlushedFree, FlushedReady
  <2>2. (TurnFails(by) \/ TurnOperates(by)) /\ queue'.owner = queue.owner
    <3>1. Operates(by, journal, queue) /\ queue.pending = <<>>
      BY <1>2
    <3> QED BY ONLY TypeOK, by \in Updaters, <1>0, <2>1, <3>1, OperatesTurns
  <2> QED BY <1>0, <2>2 DEF Turn, UpdateAlone
<1>3. ASSUME Takes(by, "First", queue), UNCHANGED <<journal, handler, drainer, closing>>,
             journal.failure = "None"
      PROVE  Turn(by)
  <2>1. /\ update'.by = by /\ update'.phase = "First" /\ update'.batch = queue.pending
        /\ queue'.pending = <<>> /\ queue'.owner = queue.owner /\ queue'.failure = queue.failure
    BY <1>0, <1>3 DEF Takes, Queues
  <2>2. TurnStarts(by)
    BY <1>0, <1>3, <2>1 DEF TurnStarts
  <2> QED BY <1>0, <2>1, <2>2 DEF Turn, UpdateAlone
<1>4. \/ (journal.failure # "None" \/ queue.failure # "None") /\ Fails(by, k, queue)
      \/ Operates(by, journal, queue) /\ queue.pending = <<>>
      \/ Takes(by, "First", queue) /\ UNCHANGED <<journal, handler, drainer, closing>>
         /\ journal.failure = "None"
  BY DEF Lock
<1> HIDE DEF k
<1> QED BY <1>1, <1>2, <1>3, <1>4

LEMMA UpdateTurns ==
    ASSUME TypeOK, Account, update.phase # "Free"
    PROVE  Holding(update.by) /\ update.by \in Updaters /\ Balanced(Uncounted)
BY UpdateHolds, UncountedBalanced DEF Account, Holding

LEMMA OperateTurns == ASSUME TypeOK, Account, Operate PROVE Turn(update.by)
<1>0. /\ UpdateAlone /\ update.phase = "First" /\ UNCHANGED left
      /\ Operates(update.by, Flushed, Uncounted)
  BY DEF Operate, UpdateAlone, Flushed
<1>1. (TurnFails(update.by) \/ TurnOperates(update.by)) /\ queue'.owner = queue.owner
  BY <1>0, UpdateTurns, UncountedOwner, FlushedReady, OperatesTurns
<1> QED BY <1>0, <1>1, UpdateTurns DEF Turn, UpdateAlone

LEMMA UnlockTurns == ASSUME TypeOK, Account, Unlock PROVE Turn(update.by)
<1>0. /\ UpdateAlone /\ update.phase = "Second" /\ UNCHANGED left
      /\ \/ Flushed.failure # "None" /\ Fails(update.by, Flushed, Uncounted)
         \/ /\ Flushed.failure = "None" /\ journal' = Flushed /\ queue' = Uncounted
            /\ update' = NoUpdate /\ Returned(update.by, TRUE, handler)
  BY DEF Unlock, UpdateAlone, Flushed
<1>1. CASE Flushed.failure # "None" /\ Fails(update.by, Flushed, Uncounted)
  <2>1. Reached(update.by, Flushed)
    BY DEF Reached
  <2>2. TurnFails(update.by) /\ queue'.owner = queue.owner
    BY <1>0, <1>1, <2>1, UpdateTurns, UncountedOwner, FlushedReady, FailedTurns
  <2> QED BY <1>0, <2>2, UpdateTurns DEF Turn, UpdateAlone
<1>2. CASE /\ Flushed.failure = "None" /\ journal' = Flushed /\ queue' = Uncounted
           /\ update' = NoUpdate /\ Returned(update.by, TRUE, handler)
  <2>1. Same(handler)
    BY <1>0, UpdateTurns, SameHandlers
  <2>2. queue'.pending = queue.pending /\ queue'.failure = queue.failure
    BY <1>0, <1>2, UpdateTurns DEF Balanced
  <2>3. TurnUnlocks(update.by)
    BY <1>0, <1>2, <2>1, <2>2 DEF TurnUnlocks, Returns
  <2> QED BY <1>0, <1>2, <2>3, UpdateTurns, UncountedOwner DEF Turn, UpdateAlone
<1> QED BY <1>0, <1>1, <1>2

LEMMA PublishTurns == ASSUME TypeOK, Account, Publish PROVE Turn(update.by)
<1>0. /\ UpdateAlone /\ update.phase = "First" /\ UNCHANGED left /\ update \in Updates
      /\ \/ Flushed.failure # "None" /\ Fails(update.by, Flushed, Uncounted)
         \/ /\ Flushed.failure = "None" /\ journal' = Created(Flushed) /\ queue' = Uncounted
            /\ update' = [update EXCEPT !.phase = "Publishing", !.batch = <<>>, !.count = 0]
            /\ UNCHANGED <<handler, drainer, closing>>
  BY Apart DEF Publish, UpdateAlone, Flushed
<1>1. CASE Flushed.failure # "None" /\ Fails(update.by, Flushed, Uncounted)
  <2>1. Reached(update.by, Flushed)
    BY DEF Reached
  <2>2. TurnFails(update.by) /\ queue'.owner = queue.owner
    BY <1>0, <1>1, <2>1, UpdateTurns, UncountedOwner, FlushedReady, FailedTurns
  <2> QED BY <1>0, <2>2, UpdateTurns DEF Turn, UpdateAlone
<1>2. CASE /\ Flushed.failure = "None" /\ journal' = Created(Flushed) /\ queue' = Uncounted
           /\ update' = [update EXCEPT !.phase = "Publishing", !.batch = <<>>, !.count = 0]
           /\ UNCHANGED <<handler, drainer, closing>>
  <2>1. queue'.pending = queue.pending /\ queue'.failure = queue.failure
    BY <1>0, <1>2, UpdateTurns DEF Balanced
  <2>2. update'.phase = "Publishing" /\ update'.batch = <<>> /\ update'.by = update.by
    BY <1>0, <1>2 DEF Updates
  <2>3. journal'.failure = "None"
    BY <1>2, FlushedReady, CreatedType
  <2>4. TurnStarts(update.by)
    BY <1>0, <1>2, <2>1, <2>2, <2>3 DEF TurnStarts
  <2> QED BY <1>0, <1>2, <2>4, UpdateTurns, UncountedOwner DEF Turn, UpdateAlone
<1> QED BY <1>0, <1>1, <1>2

LEMMA FinishPublicationTurns == ASSUME TypeOK, Account, FinishPublication PROVE Turn(update.by)
<1> DEFINE i == [journal EXCEPT !.published = TRUE]
           e == Plain("RecordingActivated", 0)
           k == Record(i, e)
<1>0. /\ UpdateAlone /\ update.phase = "Publishing" /\ UNCHANGED left /\ journal \in Journals
      /\ Completes(update.by, k, queue) /\ Balanced(queue) /\ Flushed = journal
      /\ update.by[1] = "activate" /\ journal.failure = "None"
  BY Apart, FreeBalanced, FlushedFree
     DEF FinishPublication, UpdateAlone, Account, Updating, MustPublish
<1>1. /\ i \in Journals /\ i.entries = journal.entries /\ i.calls = journal.calls
      /\ i.finished = journal.finished /\ i.failure = "None"
  BY <1>0 DEF Journals
<1>2. e \in Entries /\ e.kind = "RecordingActivated" /\ Missing(e) = "None"
  <2>1. e \in Entries /\ e.kind = "RecordingActivated"
    BY PlainOwn, OwnZero DEF OfUpdate
  <2> HIDE DEF e
  <2> QED BY <2>1 DEF Missing
<1> HIDE DEF i, e
<1> DEFINE c == Created(i)
<1>3. /\ c \in Journals /\ c.calls = i.calls /\ c.failure = "None" /\ c.finished = i.finished
      /\ (c.entries = i.entries \/ c.entries = Append(i.entries, Opening))
  BY <1>1, CreatedType, CreatedDoes
<1>4. k = Written(c, e)
  BY <1>1, <1>2 DEF Record, Unknown
<1> HIDE DEF c
<1>5. /\ k \in Journals /\ k.calls = c.calls /\ k.failure = "None" /\ k.finished = c.finished
      /\ (k.entries = c.entries \/ k.entries = Append(c.entries, e))
  <2>1. k \in Journals
    BY <1>1, <1>2, RecordType
  <2> HIDE DEF k
  <2> QED BY <1>2, <1>3, <1>4, <2>1, WrittenDoes
<1> HIDE DEF k
<1>6. /\ ToSet(journal.entries) \subseteq ToSet(k.entries)
      /\ \A d \in ToSet(k.entries) : d \in ToSet(journal.entries) \/ d.kind \in Marks
  <2>1. /\ ToSet(i.entries) \subseteq ToSet(c.entries)
        /\ \A d \in ToSet(c.entries) : d \in ToSet(i.entries) \/ d.kind \in Marks
    <3>1. i.entries \in Seq(Entries)
      BY <1>1 DEF Journals
    <3>2. ToSet(Append(i.entries, Opening)) = ToSet(i.entries) \cup {Opening}
      BY <3>1, OpeningOwn, AppendedSet
    <3> QED BY <1>3, <3>2, OpeningOwn DEF Marks
  <2>2. /\ ToSet(c.entries) \subseteq ToSet(k.entries)
        /\ \A d \in ToSet(k.entries) : d \in ToSet(c.entries) \/ d.kind \in Marks
    <3>1. c.entries \in Seq(Entries)
      BY <1>3 DEF Journals
    <3>2. ToSet(Append(c.entries, e)) = ToSet(c.entries) \cup {e}
      BY <1>2, <3>1, AppendedSet
    <3> QED BY <1>2, <1>5, <3>2 DEF Marks
  <2> QED BY <1>1, <2>1, <2>2
<1>7. Ready(k)
  BY <1>0, <1>1, <1>3, <1>5, <1>6 DEF Ready
<1>8. Operated(update.by, k, k)
  BY <1>0 DEF Operated, Finalize
<1>9. (TurnFails(update.by) \/ TurnOperates(update.by)) /\ queue'.owner = queue.owner
  BY <1>0, <1>5, <1>7, <1>8, UpdateTurns, CompletesTurns
<1> QED BY <1>0, <1>9, UpdateTurns DEF Turn, UpdateAlone

LEMMA FaultSpends == ASSUME NEW kind, Fault(kind) PROVE Spend("faults")
BY DEF Fault
LEMMA WriteFailsTurns == ASSUME TypeOK, Account, WriteFails PROVE Turn(update.by)
<1>0. /\ UpdateAlone /\ update.phase # "Free" /\ Spend("faults")
  BY FaultSpends DEF WriteFails, UpdateAlone
<1>1. PICK n \in 0..Len(update.batch) :
         Fails(update.by, Broken(RecordAll(journal, SubSeq(update.batch, 1, n))), Uncounted)
  BY DEF WriteFails
<1> DEFINE x == RecordAll(journal, SubSeq(update.batch, 1, n))
<1>2. x \in Journals /\ Reached(update.by, x) /\ Fails(update.by, Broken(x), Uncounted)
  BY <1>1, BatchType DEF Reached
<1> HIDE DEF x
<1>3. /\ Broken(x) \in Journals /\ Broken(x).failure # "None" /\ Broken(x).entries = x.entries
      /\ Broken(x).calls = x.calls /\ Broken(x).finished = x.finished
      /\ Broken(x).failure \in {x.failure, "Fault"}
  BY <1>2, BrokenType DEF Broken, Journals
<1>4. TurnFails(update.by) /\ queue'.owner = queue.owner
  BY <1>0, <1>2, <1>3, UpdateTurns, UncountedOwner, FailedTurns
<1> QED BY <1>0, <1>4, UpdateTurns DEF Turn, UpdateAlone

LEMMA BrokenTurns ==
    ASSUME TypeOK, Account, update.phase \in {"Free", "Publishing"}, NEW by \in Updaters,
           Holding(by),
           (update.phase = "Free" /\ Wants(by)) \/ (update.phase # "Free" /\ update.by = by),
           Fails(by, Broken(journal), queue),
           Spend("faults"), UpdateAlone
    PROVE  Turn(by)
<1>1. Balanced(queue) /\ journal \in Journals /\ Reached(by, journal)
  BY FreeBalanced, Apart DEF Account, Reached
<1>2. /\ Broken(journal) \in Journals /\ Broken(journal).failure # "None"
      /\ Broken(journal).entries = journal.entries
      /\ Broken(journal).calls = journal.calls /\ Broken(journal).finished = journal.finished
      /\ Broken(journal).failure \in {journal.failure, "Fault"}
  BY <1>1, BrokenType DEF Broken, Journals
<1>3. TurnFails(by) /\ queue'.owner = queue.owner
  BY <1>1, <1>2, FailedTurns
<1> QED BY <1>3 DEF Turn, UpdateAlone

LEMMA UpdatedTurns ==
    ASSUME TypeOK, Account, Updated \/ FinishPublication PROVE \E by : Turn(by)
<1>1. ASSUME NEW by \in Updaters, OperationFails(by) PROVE Turn(by)
  BY <1>1, WantsHolds, FaultSpends, BrokenTurns DEF OperationFails, UpdateAlone
<1>2. CASE PublishFails
  BY <1>2, UpdateTurns, FaultSpends, BrokenTurns DEF PublishFails, UpdateAlone
<1> QED BY <1>1, <1>2, LockTurns, OperateTurns, UnlockTurns, PublishTurns, WriteFailsTurns,
           FinishPublicationTurns DEF Updated

(***************************************************************************)
(* Shutdown.                                                               *)
(***************************************************************************)
LEMMA ObserveOwner ==
    ASSUME TypeOK, NEW q \in Queues, NEW e \in Queued, Observe(q, e)
    PROVE  queue'.owner \in {q.owner, queue.owner}
<1>1. CASE queue.failure # "None"
  BY <1>1 DEF Observe
<1>2. CASE queue.failure = "None"
  <2> DEFINE r == Pushed(q, e)
  <2>1. queue' = Draining(r) /\ r \in Queues
    BY <1>2, PushedType DEF Observe
  <2>2. r.owner = q.owner
    <3>1. CASE Merges(q, e)
      BY <3>1 DEF Pushed, Extended, Queues
    <3>2. CASE ~Merges(q, e) /\ q.retained = MaxEvents
      BY <3>2, StoppedType DEF Pushed, Causes
    <3>3. CASE ~Merges(q, e) /\ q.retained # MaxEvents
      BY <3>3 DEF Pushed, Added, Queues
    <3> QED BY <3>1, <3>2, <3>3
  <2> HIDE DEF r
  <2>3. queue'.owner = r.owner
    BY <2>1 DEF Draining, Queues
  <2> QED BY <2>2, <2>3
<1> QED BY <1>1, <1>2

(* The owner of the output stays, or there is none any more.               *)
OwnerStays == queue'.owner \in {queue.owner, NoOwner}
LEMMA ObservesOwner ==
    ASSUME TypeOK, NEW e \in Queued, Observe(queue, e) \/ UNCHANGED <<queue, drainer>>
    PROVE  queue'.owner = queue.owner
BY Apart, ObserveOwner
LEMMA SummaryOwner ==
    ASSUME Base, NEW f \in DOMAIN files, Observe(queue, Summary(f))
    PROVE  queue'.owner = queue.owner
<1>1. TypeOK
  BY DEF Base
<1>2. Summary(f) \in Queued
  BY <1>1, SummaryType
<1> QED BY <1>1, <1>2, ObservesOwner
LEMMA ReceiptOwner ==
    ASSUME Base, NEW f \in output.receipts, PublishesReceipt(f)
    PROVE  /\ queue'.owner = queue.owner /\ output'.idle = output.idle /\ output'.cell = output.cell
           /\ output'.receipts = output.receipts \ {f}
<1>1. f \in DOMAIN files /\ output \in Outputs
  BY Apart DEF Base, HasFiles
<1> QED BY <1>1, SummaryOwner DEF PublishesReceipt, Outputs

LEMMA EndCellOwner ==
    ASSUME Base, EndCell PROVE queue.owner = NoOwner => queue'.owner = NoOwner
BY DEF EndCell, Owned, NoOwner
LEMMA WorkerEndedOwner == ASSUME Base, WorkerEnded PROVE OwnerStays
<1>0. TypeOK /\ queue \in Queues /\ queue.owner \in Owner
  BY OwnerType DEF Base
<1> DEFINE q == [queue EXCEPT !.owner = NoOwner]
           e == Event("WorkerEnded", 0, queue.owner, 0, 0)
<1>1. q \in Queues /\ q.owner = NoOwner
  BY <1>0, NoOwnerType DEF Queues
<1>2. e \in Queued
  BY <1>0, EventQueued DEF OfQueue
<1>3. Observe(q, e) \/ UNCHANGED <<queue, drainer>>
  BY DEF WorkerEnded
<1> HIDE DEF q, e
<1> QED BY <1>0, <1>1, <1>2, <1>3, ObserveOwner DEF OwnerStays
LEMMA WorkerRetiredOwner == ASSUME Base, WorkerRetired PROVE queue'.owner = NoOwner
<1>0. queue \in Queues
  BY Apart DEF Base
<1> QED BY <1>0 DEF WorkerRetired, Queues

(* A step of a script does what its name says.                             *)
Scripts ==
    /\ queue.owner = NoOwner => queue'.owner = NoOwner
    /\ output'.idle \in {output.idle, NoOwner} /\ output'.cell \in {output.cell, NoOwner}
    /\ \A f \in output'.receipts : f \in output.receipts \/ (Doing("CloseCell") /\ f = output.cell
                                                            /\ f # NoOwner)
    /\ \/ tape' = tape /\ Doing("Receipts")
       \/ /\ Pops
          /\ Doing("CloseIdle") => output'.idle = NoOwner
          /\ Doing("CloseCell") => output'.cell = NoOwner
          /\ Doing("WorkerRetired") => queue'.owner = NoOwner
          /\ Doing("Receipts") => output'.receipts = {}
LEMMA DoingTo == ASSUME TypeOK, NEW do, Doing(do) PROVE To(do)
BY Head1 DEF Doing, To
LEMMA LateScripts == ASSUME Base, Winding, ScriptSteps PROVE Scripts
<1>0. TypeOK /\ output \in Outputs /\ queue \in Queues
  BY Apart DEF Base
<1>1. CASE CloseIdle
  <2>1. Doing("CloseIdle") /\ output' = [output EXCEPT !.idle = NoOwner] /\ Pops
        /\ Observe(queue, Summary(output.idle))
    BY <1>1 DEF CloseIdle, Pops, Next1, Doing
  <2>2. output.idle \in DOMAIN files
    BY <1>0, <2>1, DoingTo DEF Base, Scripted, HasFiles
  <2>3. queue'.owner = queue.owner
    BY <2>1, <2>2, SummaryOwner
  <2> QED BY <1>0, <2>1, <2>3 DEF Scripts, Outputs, Doing
<1>2. CASE CloseCell
  <2>1. Doing("CloseCell") /\ Pops /\ UNCHANGED queue
    BY <1>2 DEF CloseCell, Pops, Next1, Doing
  <2>2. output'.idle = output.idle /\ output'.cell = NoOwner
        /\ output'.receipts = IF output.cell = NoOwner THEN output.receipts
                              ELSE output.receipts \cup {output.cell}
    BY <1>0, <1>2 DEF CloseCell, Outputs
  <2> QED BY <2>1, <2>2 DEF Scripts, Doing
<1>3. CASE PublishCell
  <2>1. Doing("PublishCell") /\ Pops
    BY <1>3 DEF PublishCell, Pops, Next1, Doing
  <2>2. /\ queue'.owner = queue.owner /\ output'.idle = output.idle /\ output'.cell = output.cell
        /\ output'.receipts \subseteq output.receipts
    BY <1>3, ReceiptOwner DEF PublishCell
  <2> QED BY <2>1, <2>2 DEF Scripts, Doing
<1>4. CASE PublishReceipts
  <2>1. Doing("Receipts")
    BY <1>4 DEF PublishReceipts
  <2>2. CASE output.receipts = {} /\ Next1 /\ UNCHANGED <<queue, drainer, output>>
    BY <2>1, <2>2 DEF Scripts, Pops, Next1, Doing
  <2>3. CASE \E f \in output.receipts : PublishesReceipt(f) /\ UNCHANGED tape
    BY <2>1, <2>3, ReceiptOwner DEF Scripts
  <2> QED BY <1>4, <2>2, <2>3 DEF PublishReceipts
<1>5. CASE CreateFile("CreateCell", "cell") \/ CreateFile("CreateIdle", "idle") \/ StartCell \/ TextEvent
  <2>1. To("CreateCell") \/ To("CreateIdle") \/ To("StartCell") \/ To("Text")
    BY <1>0, <1>5, DoingTo DEF CreateFile, StartCell, TextEvent
  <2> QED BY <2>1 DEF Winding
<1>6. CASE WorkerStarted
  <2>1. To("WorkerStarted")
    BY <1>0, <1>6, DoingTo DEF WorkerStarted
  <2> QED BY <2>1 DEF Winding
<1>7. CASE EndCell
  BY <1>7, EndCellOwner DEF EndCell, Scripts, Pops, Next1, Doing
<1>8. CASE Write
  <2>1. Doing("Write") /\ UNCHANGED <<queue, drainer, output>>
    BY <1>8, WriteDoes
  <2>2. OutputFile = NoOwner
    BY <1>0, <2>1, DoingTo DEF Winding, OutputFile
  <2>3. NoOwner \notin DOMAIN files
    BY DEF Base, HasFiles
  <2>4. Pops
    BY <1>8, <2>2, <2>3, WriteDoes DEF Writes
  <2> QED BY <2>1, <2>4 DEF Scripts, Doing
<1>9. CASE UnownedText
  <2>1. Plain("ProcessOutput", 0) \in Queued
    BY PlainQueued DEF OfQueue
  <2>2. queue'.owner = queue.owner
    BY <1>0, <1>9, <2>1, ObservesOwner DEF UnownedText
  <2> QED BY <1>9, <2>2 DEF UnownedText, Scripts, Pops, Next1, Doing
<1>10. CASE WorkerEnded
  BY <1>10, WorkerEndedOwner DEF OwnerStays, WorkerEnded, Scripts, Pops, Next1, Doing
<1>11. CASE WorkerRetired
  BY <1>11, WorkerRetiredOwner DEF WorkerRetired, Scripts, Pops, Next1, Doing
<1> QED BY <1>1, <1>2, <1>3, <1>4, <1>5, <1>6, <1>7, <1>8, <1>9, <1>10, <1>11 DEF ScriptSteps

LEMMA ScriptsWind ==
    ASSUME Base, Winding, Scripts, AllSettled'
    PROVE  Winding' /\ (Quiet => Quiet')
<1>0. tape \in Seq(Steps) /\ Lone(tape) /\ TypeOK
  BY Apart DEF Base, Scripted
<1>1. CASE tape' = tape
  <2>1. \A do : (To(do)' <=> To(do)) /\ (Doing(do)' <=> Doing(do))
    BY <1>1 DEF To, Doing
  <2>2. ~Doing("CloseCell")
    <3>1. Doing("Receipts") \/ Pops
      BY DEF Scripts
    <3>2. ~Pops
      <4>1. ASSUME tape # <<>> PROVE Tail(tape) # tape
        BY <1>0, <4>1
      <4> QED BY <1>1, <4>1 DEF Pops
    <3> QED BY <3>1, <3>2 DEF Doing
  <2> QED BY <2>1, <2>2 DEF Winding, Scripts, Quiet
<1>2. CASE Pops
  <2> DEFINE h == Head(tape).do
  <2>1. /\ \A do \in Kinds(tape') : do \in Kinds(tape) /\ do # h
        /\ \A do \in Kinds(tape) : do = h \/ do \in Kinds(tape')
    BY <1>0, <1>2, Popped DEF Pops
  <2>2. /\ \A do : To(do)' => To(do) /\ ~Doing(do)
        /\ \A do : To(do) => Doing(do) \/ To(do)'
        /\ \A do : Doing(do) => \A other : Doing(other) => other = do
    BY <1>2, <2>1 DEF To, Doing, Pops
  <2>3. ~Doing("Receipts") \/ output'.receipts = {}
    BY <1>2 DEF Scripts, Doing, Pops
  <2>4. /\ Doing("CloseIdle") => output'.idle = NoOwner
        /\ Doing("CloseCell") => output'.cell = NoOwner
        /\ Doing("WorkerRetired") => queue'.owner = NoOwner
    BY <1>2 DEF Scripts, Doing, Pops
  <2>5. output'.idle \in {output.idle, NoOwner} /\ output'.cell \in {output.cell, NoOwner}
        /\ (queue.owner = NoOwner => queue'.owner = NoOwner)
        /\ \A f \in output'.receipts : f \in output.receipts \/ (Doing("CloseCell") /\ f = output.cell
                                                                /\ f # NoOwner)
    BY DEF Scripts
  <2>6. output'.cell = NoOwner
    BY <2>4, <2>5 DEF Winding
  <2>7. output'.receipts = {} \/ To("Receipts")'
    <3>1. output'.receipts # {} => To("Receipts")
      BY <2>5 DEF Winding
    <3> QED BY <2>2, <2>3, <3>1
  <2>8. queue'.owner = NoOwner \/ To("WorkerRetired")'
    BY <2>2, <2>4, <2>5 DEF Winding
  <2>9. output'.idle = NoOwner \/ To("CloseIdle")'
    BY <2>2, <2>4, <2>5 DEF Winding
  <2>10. /\ ~To("StartCell")' /\ ~To("CreateCell")' /\ ~To("CreateIdle")' /\ ~To("WorkerStarted")'
         /\ ~To("Text")' /\ (To("Write")' => output'.idle = NoOwner /\ output'.cell = NoOwner)
    BY <2>2, <2>5 DEF Winding
  <2> QED BY <2>5, <2>6, <2>7, <2>8, <2>9, <2>10 DEF Winding, Quiet
<1> QED BY <1>1, <1>2 DEF Scripts

LEMMA TurnEnding == ASSUME TypeOK, Ending, NEW by, Turn(by) PROVE Ending'
<1>0. /\ UNCHANGED <<source, transport, tape, output, worker, image>> /\ queue'.owner = queue.owner
      /\ by \in Updaters /\ Holding(by) /\ handler \in Handlers
  BY Apart DEF Turn
<1>1. \/ closing' = closing /\ Same(handler')
      \/ \E done, hs : Same(hs) /\ Returned(by, done, hs) /\ update' = NoUpdate
  BY <1>0 DEF Turn, TurnFails, TurnStarts, TurnOperates, TurnUnlocks, Returns, Same
<1>2. /\ closing' = closing \/ (by = Finalize /\ closing = "Recording" /\ closing' = "Finishing")
      /\ by \in {Drain, Finalize} => \A c \in Calls : handler'[c].at = handler[c].at
  <2>1. CASE closing' = closing /\ Same(handler')
    BY <2>1 DEF Same
  <2>2. ASSUME NEW done, NEW hs, Same(hs), Returned(by, done, hs)
        PROVE  /\ closing' = closing \/ (by = Finalize /\ closing = "Recording" /\ closing' = "Finishing")
               /\ by \in {Drain, Finalize} => \A c \in Calls : handler'[c].at = handler[c].at
    <3>1. closing' = closing \/ (by = Finalize /\ closing = "Recording" /\ closing' = "Finishing")
      BY <1>0, <2>2 DEF Returned, Holding
    <3>2. by \in {Drain, Finalize} => handler' = hs
      BY <2>2 DEF Returned, Drain, Finalize
    <3> QED BY <2>2, <3>1, <3>2 DEF Same
  <2> QED BY <1>1, <2>1, <2>2
<1>3. ASSUME Late PROVE by \in {Drain, Finalize}
  <2>1. \A c \in Calls : handler[c].at \in {"Unsent", "Rejected", "Settled"}
    BY <1>3 DEF Ending, Winding, AllSettled, Captured
  <2> QED BY <1>0, <2>1, Who DEF Holding
<1>4. Late' <=> Late
  BY <1>2 DEF Late
<1>5. Shut'
  BY <1>0, <1>2 DEF Ending, Shut
<1>6. ASSUME Late PROVE Winding'
  BY <1>0, <1>2, <1>3, <1>6 DEF Ending, Winding, AllSettled, Captured, To, Doing
<1>7. Quiet' <=> Quiet
  BY <1>0 DEF Quiet
<1>8. (Finalizing' \/ closing' # closing) => by = Finalize
  <2>1. closing' # closing => by = Finalize
    BY <1>2
  <2>2. update'.phase = "Free" \/ update'.by = by
    <3>1. NoUpdate.phase = "Free"
      BY DEF NoUpdate
    <3>2. ASSUME update' = NoUpdate PROVE update'.phase = "Free"
      BY <3>1, <3>2
    <3>3. update' = NoUpdate \/ update'.by = by
      BY DEF Turn, TurnFails, TurnStarts, TurnOperates, TurnUnlocks, Returns
    <3> QED BY <3>2, <3>3
  <2> QED BY <2>1, <2>2 DEF Finalizing
<1>9. ASSUME by = Finalize, ~Finalizing PROVE Quiet
  <2>1. Wants(by)
    BY <1>9 DEF Turn, Finalizing
  <2>2. Late /\ tape = <<>>
    BY <1>9, <2>1 DEF Wants, Late, Finalize, Drain
  <2>3. \A do : ~To(do) /\ ~Doing(do)
    BY <2>2 DEF To, Kinds, Doing
  <2> QED BY <2>2, <2>3 DEF Ending, Winding, Quiet
<1>10. Still'
  BY <1>2, <1>7, <1>8, <1>9 DEF Ending, Still
<1>11. journal'.finished = journal.finished
  <2>1. Flushed.finished = journal.finished /\ journal \in Journals /\ Flushed \in Journals
    <3>1. update.batch \in Seq(Entries)
      <4>1. update.batch \in Seq(Queued)
        BY Apart DEF Updates
      <4> QED BY <4>1, QueuedIsEntry
    <3> QED BY <3>1, Apart, RecordAllType DEF Flushed
  <2>2. ASSUME NEW k, Ready(k), NEW x, Operated(by, k, x) PROVE x.finished = journal.finished
    <3>1. k \in Journals /\ k.finished = journal.finished
      BY <2>1, <2>2 DEF Ready
    <3>2. Moves(k, {}, x, {})
      BY <1>0, <2>2, <3>1, OperatedMoves
    <3> QED BY <3>1, <3>2 DEF Moves
  <2>3. ASSUME NEW n \in 0..Len(update.batch)
        PROVE  RecordAll(journal, SubSeq(update.batch, 1, n)).finished = journal.finished
    BY <2>1, BatchType, RecordAllType
  <2>4. CASE TurnFails(by)
    BY <2>1, <2>2, <2>3, <2>4 DEF TurnFails, Reached, Resembles
  <2>5. CASE TurnStarts(by)
    BY <2>1, <2>5, CreatedType DEF TurnStarts
  <2>6. CASE TurnOperates(by)
    BY <2>2, <2>6 DEF TurnOperates
  <2>7. CASE TurnUnlocks(by)
    BY <2>1, <2>7 DEF TurnUnlocks
  <2> QED BY <2>4, <2>5, <2>6, <2>7 DEF Turn
<1>12. journal'.finished => closing' = "Done"
  BY <1>2, <1>11 DEF Ending
<1> QED BY <1>4, <1>5, <1>6, <1>10, <1>12 DEF Ending

(* Nothing of shutdown is touched, but the owner may leave.                *)
LEMMA Unended ==
    ASSUME Account, Ending, UNCHANGED <<update, journal, tape, output, closing>>,
           Shut', Late /\ queue.owner = NoOwner => queue'.owner = NoOwner, Late => AllSettled'
    PROVE  Ending'
<1>1. Finalizing => closing = "Recording"
  BY DEF Account, Updating, Finalizing
<1>2. Still'
  BY <1>1 DEF Ending, Still, Finalizing, Quiet, Late
<1> QED BY <1>2 DEF Ending, Late, Winding, To, Doing

LEMMA SourceQueued ==
    ASSUME TypeOK, NEW c \in Calls
    PROVE  /\ Plain("SourceAdmitted", c) \in Queued /\ Plain("SourceFinished", c) \in Queued
           /\ Event("SourceAssociated", c, queue.owner, 0, 0) \in Queued
           /\ Waiting(c) \in Queued /\ Plain("Protocol", c) \in Queued
BY SourceEvents, WaitingRoutine, CallsAreNat, PlainQueued DEF OfQueue

LEMMA SentOwner == ASSUME TypeOK, Sent PROVE queue'.owner = queue.owner
<1>1. PICK c \in Calls :
         \/ Receive(c) \/ Submit(c) \/ AssociateWaiting(c) \/ AdmitSource(c) \/ Return(c)
         \/ RefuseSource(c) \/ Dispatch(c) \/ SettleSource(c)
  BY DEF Sent
<1> DEFINE P == Plain("Protocol", c)
           A == Plain("SourceAdmitted", c)
           F == Plain("SourceFinished", c)
           S == Event("SourceAssociated", c, queue.owner, 0, 0)
           W == Waiting(c)
<1>2. P \in Queued /\ A \in Queued /\ F \in Queued /\ S \in Queued /\ W \in Queued
  BY SourceQueued
<1>3. \/ UNCHANGED <<queue, drainer>> \/ Observe(queue, P) \/ Observe(queue, A) \/ Observe(queue, F)
      \/ Observe(queue, S) \/ Observe(queue, W)
  BY <1>1 DEF Receive, Submit, AssociateWaiting, AdmitSource, Return, RefuseSource, Dispatch,
         SettleSource
<1> HIDE DEF P, A, F, S, W
<1> QED BY <1>2, <1>3, ObservesOwner

LEMMA SentEnding == ASSUME TypeOK, Account, Ending, Sent PROVE Ending'
<1>1. UNCHANGED <<update, journal, files, tape, output, closing, worker>> /\ handler \in Handlers
  BY SentRest, Apart
<1>2. PICK c \in Calls :
         \/ Receive(c) \/ Submit(c) \/ AssociateWaiting(c) \/ AdmitSource(c) \/ Return(c)
         \/ RefuseSource(c) \/ Dispatch(c) \/ SettleSource(c)
  BY DEF Sent
<1>3. transport.closed => UNCHANGED transport /\ ~Receive(c)
  BY <1>2 DEF Receive, Submit, AssociateWaiting, AdmitSource, Return, RefuseSource, Dispatch,
         SettleSource
<1>4. Shut'
  BY <1>1, <1>3 DEF Ending, Shut
<1>5. ASSUME Late PROVE AllSettled'
  <2>1. \A d \in Calls : handler[d].at \in {"Unsent", "Rejected", "Settled"}
    BY <1>5 DEF Ending, Winding, AllSettled, Captured
  <2>2. transport.closed
    BY <1>5 DEF Ending, Shut, Late
  <2>3. ~Return(c)
    BY <2>1 DEF Return
  <2>4. UNCHANGED handler
    BY <1>2, <1>3, <2>2, <2>3 DEF Submit, AssociateWaiting, AdmitSource, RefuseSource, Dispatch,
           SettleSource
  <2> QED BY <1>5, <2>4 DEF Ending, Winding, AllSettled, Captured
<1> QED BY <1>1, <1>4, <1>5, SentOwner, Unended

LEMMA ReportedEnding == ASSUME TypeOK, Account, Ending, Reported PROVE Ending'
<1>1. UNCHANGED <<update, journal, files, handler, source, transport, tape, output, closing>>
  BY ReportedRest
<1>2. CASE RetainImage \/ ImageFails
  <2>1. UNCHANGED worker
    BY <1>2 DEF RetainImage, ImageFails, imageRest
  <2>2. queue'.owner = queue.owner
    <3>1. CASE RetainImage
      <4> DEFINE e == Event("ImageRetained", 0, image.owner, 0, 0)
      <4>1. e \in Queued
        BY Apart, EventQueued DEF OfQueue, Images
      <4>2. Observe(queue, e)
        BY <3>1 DEF RetainImage
      <4> HIDE DEF e
      <4> QED BY <4>1, <4>2, ObservesOwner
    <3>2. CASE ImageFails
      <4> DEFINE r == Stopped(queue, "Fault")
      <4>1. r \in Queues /\ r.owner = queue.owner
        BY Apart, StoppedType DEF Causes
      <4>2. queue' = Draining(r)
        BY <3>2 DEF ImageFails, Disable
      <4> HIDE DEF r
      <4> QED BY <4>1, <4>2 DEF Draining, Queues
    <3> QED BY <1>2, <3>1, <3>2
  <2>3. Shut' /\ AllSettled' = AllSettled
    BY <1>1, <2>1 DEF Ending, Shut, AllSettled, Captured
  <2> QED BY <1>1, <2>2, <2>3, Unended DEF Ending, Winding
<1>3. CASE ~(RetainImage \/ ImageFails)
  <2>1. closing \notin {"Settling", "Recording", "Finishing", "Done"}
    BY <1>3 DEF Reported, WorkerStarting, AssociateActive, WorkerReady, StartupFailed, ReserveImage,
           Ending, Shut
  <2>2. Shut' /\ ~Late
    BY <1>1, <2>1 DEF Shut, Late
  <2> QED BY <1>1, <2>2, Unended
<1> QED BY <1>2, <1>3

LEMMA Told1Ending == ASSUME TypeOK, Account, Ending, Told1 PROVE Ending'
<1>1. UNCHANGED <<update, journal, files, handler, tape, output, worker>>
  BY DEF Told1, DrainEnds, Close, CloseQueue, closingRest
<1>2. queue'.owner = queue.owner
  BY Apart DEF Told1, DrainEnds, Close, CloseQueue, closingRest, Queues
<1>3. CASE DrainEnds
  <2>1. Shut' /\ AllSettled' = AllSettled /\ UNCHANGED closing
    BY <1>1, <1>3 DEF DrainEnds, Ending, Shut, AllSettled, Captured
  <2> QED BY <1>1, <1>2, <2>1, Unended DEF Ending, Winding
<1>4. CASE Close \/ CloseQueue
  <2>1. ~Late /\ ~Late' /\ closing # "Done" /\ closing' \notin {"Finishing", "Done"}
    BY <1>4 DEF Close, CloseQueue, Late
  <2>2. Shut'
    <3>1. CASE CloseQueue
      <4>1. transport'.closed
        BY <3>1, Apart DEF CloseQueue
      <4> QED BY <1>1, <3>1, <4>1 DEF CloseQueue, Shut
    <3>2. CASE Close
      BY <3>2 DEF Close, Shut
    <3> QED BY <1>4, <3>1, <3>2
  <2>3. Still'
    BY <1>1, <1>2, <2>1 DEF Ending, Still, Finalizing, Quiet
  <2> QED BY <1>1, <2>1, <2>2, <2>3 DEF Ending
<1> QED BY <1>3, <1>4 DEF Told1

LEMMA DeliveredEnding == ASSUME Base, Account, Ending, Delivered PROVE Ending'
<1>0. UNCHANGED <<update, journal, files, tape, handler, source, transport, worker, closing>>
  BY DeliveredRest
<1>1. PICK f \in output.receipts : PublishesReceipt(f)
  BY DEF Delivered, DeliverReceipt
<1>2. /\ queue'.owner = queue.owner /\ output'.idle = output.idle /\ output'.cell = output.cell
      /\ output'.receipts \subseteq output.receipts
  BY <1>1, ReceiptOwner
<1>3. Quiet => Quiet'
  BY <1>2 DEF Quiet
<1>4. Winding => Winding'
  <2>1. AllSettled' = AllSettled
    BY <1>0 DEF AllSettled, Captured
  <2> QED BY <1>0, <1>2, <2>1 DEF Winding, To, Doing
<1> QED BY <1>0, <1>3, <1>4 DEF Ending, Shut, Still, Late, Finalizing

LEMMA ScriptStepsEnding == ASSUME Base, Account, Ending, ScriptSteps PROVE Ending'
<1>0. UNCHANGED <<update, journal, handler, source, transport, worker, closing>>
  BY ScriptStepsRest
<1>1. (Late' <=> Late) /\ (Finalizing' <=> Finalizing) /\ Shut' /\ AllSettled' = AllSettled
  BY <1>0 DEF Late, Finalizing, Ending, Shut, AllSettled, Captured
<1>2. ASSUME Late PROVE Winding' /\ (Quiet => Quiet')
  BY <1>1, <1>2, LateScripts, ScriptsWind DEF Ending, Winding
<1>3. Finalizing \/ closing \in {"Finishing", "Done"} => Late
  BY DEF Account, Updating, Finalizing, Late
<1>4. Still'
  BY <1>0, <1>1, <1>2, <1>3 DEF Ending, Still
<1> QED BY <1>0, <1>1, <1>2, <1>4 DEF Ending

LEMMA HeadJoined ==
    ASSUME NEW s, NEW t, s \in Seq(Steps), t \in Seq(Steps), s # <<>>
    PROVE  s \o t # <<>> /\ Head(s \o t) = Head(s) /\ s \o t \in Seq(Steps)
OBVIOUS
(* A retirement closes an open cell first.                                 *)
LEMMA RetirementFirst ==
    ASSUME TypeOK, output.cell # NoOwner
    PROVE  Retirement # <<>> /\ Head(Retirement).do = "CloseCell"
<1> DEFINE x == Do("CloseCell", 0)
           y == Do("PublishCell", output.cell)
           a == <<x, y>>
           b == ClosesIdle
           c == IF output.active THEN <<Do("EndCell", 0)>> ELSE <<>>
           w == Do("WorkerRetired", 0)
           r == Do("Receipts", 0)
           d == <<w, r>>
<1>1. x \in Steps /\ y \in Steps /\ x.do = "CloseCell" /\ w \in Steps /\ r \in Steps
  BY Apart, DoType DEF Outputs
<1>2. Retirement = ((a \o b) \o c) \o d
  BY DEF Retirement, CloseIntervals
<1>3. c \in Seq(Steps)
  <2>1. Do("EndCell", 0) \in Steps
    BY DoType
  <2> QED BY <2>1
<1> HIDE DEF x, y, w, r, c
<1>4. a \in Seq(Steps) /\ a # <<>> /\ Head(a) = x /\ d \in Seq(Steps)
  BY <1>1
<1>5. b \in Seq(Steps)
  BY ClosesIdleScript
<1> HIDE DEF a, b, d
<1>6. a \o b # <<>> /\ Head(a \o b) = x /\ a \o b \in Seq(Steps)
  BY <1>4, <1>5, HeadJoined
<1> DEFINE e == a \o b
<1>7. e # <<>> /\ Head(e) = x /\ e \in Seq(Steps)
  BY <1>6
<1> HIDE DEF e
<1>8. e \o c # <<>> /\ Head(e \o c) = x /\ e \o c \in Seq(Steps)
  BY <1>3, <1>7, HeadJoined
<1> DEFINE f == e \o c
<1>9. f # <<>> /\ Head(f) = x /\ f \in Seq(Steps)
  BY <1>8
<1> HIDE DEF f
<1>10. f \o d # <<>> /\ Head(f \o d) = x
  BY <1>4, <1>9, HeadJoined
<1> QED BY <1>1, <1>2, <1>10 DEF e, f

LEMMA PlannedEnding == ASSUME Base, Account, Ending, Planned PROVE Ending'
<1>0. /\ TypeOK /\ output \in Outputs /\ tape = <<>>
      /\ UNCHANGED <<queue, update, journal, files, handler, source, transport, output>>
      /\ \A do : ~To(do) /\ ~Doing(do)
  <2>1. tape = <<>>
    BY DEF Planned, Acquire, WorkerEnds, Retire, Text, CellEnds, FinishRecording, EnterCell, TapeFree
  <2> QED BY <2>1, Apart, PlannedRest DEF Base, To, Kinds, Doing
<1>1. (Finalizing' <=> Finalizing) /\ AllSettled' = AllSettled /\ Quiet' = Quiet
      /\ (Finalizing => closing = "Recording")
  BY <1>0 DEF Finalizing, AllSettled, Captured, Quiet, Account, Updating
<1>2. CASE Acquire \/ WorkerEnds \/ Retire \/ \E c \in Calls : EnterCell(c)
  <2>1. closing \notin {"Settling", "Recording", "Finishing", "Done"} /\ closing' = closing
    BY <1>2 DEF Acquire, WorkerEnds, Retire, EnterCell, workerRest, Ending, Shut
  <2> QED BY <1>0, <1>1, <2>1 DEF Ending, Shut, Late, Still
<1>3. CASE Text
  <2>1. UNCHANGED <<worker, closing>>
    BY <1>3 DEF Text
  <2>2. ASSUME Late PROVE Kinds(tape') \subseteq {"Unowned", "Write"} /\ ~Doing("CloseCell")' /\ Quiet
    <3>1. Quiet
      BY <1>0, <2>2 DEF Ending, Winding, Quiet
    <3> DEFINE u == Do("Unowned", 0)
               w == Do("Write", 0)
    <3>2. u \in Steps /\ w \in Steps /\ u.do = "Unowned" /\ w.do = "Write"
          /\ (tape' = <<u>> \/ tape' = <<w>>)
      BY <1>3, <3>1, DoType DEF Text, Script, Quiet
    <3> HIDE DEF u, w
    <3>3. Kinds(tape') \subseteq {"Unowned", "Write"}
      BY <3>2, ScriptOne
    <3>4. Head(tape').do # "CloseCell"
      BY <3>2
    <3> QED BY <3>1, <3>3, <3>4 DEF Doing
  <2>3. Late => Winding'
    BY <1>0, <1>1, <2>2 DEF Ending, Winding, To, Quiet
  <2> QED BY <1>0, <1>1, <2>1, <2>3 DEF Ending, Shut, Late, Still
<1>4. CASE CellEnds
  <2>1. UNCHANGED <<worker, closing>>
    BY <1>4 DEF CellEnds, workerRest
  <2> DEFINE a == Do("CloseCell", 0)
             b == Do("EndCell", 0)
  <2>2. a \in Steps /\ b \in Steps /\ a.do = "CloseCell" /\ b.do = "EndCell" /\ tape' = <<a, b>>
    BY <1>4, DoType DEF CellEnds, Script
  <2> HIDE DEF a, b
  <2>3. Kinds(tape') = {"CloseCell", "EndCell"}
    BY <2>2, ScriptTwo
  <2>4. Late => Winding'
    BY <1>0, <1>1, <2>3 DEF Ending, Winding, To
  <2> QED BY <1>0, <1>1, <2>1, <2>4 DEF Ending, Shut, Late, Still
<1>5. CASE FinishRecording
  <2>1. tape' = Retirement /\ UNCHANGED worker /\ closing = "Settling" /\ closing' = "Recording"
        /\ AllSettled
    BY <1>5 DEF FinishRecording, Script, closingRest
  <2>2. Kinds(tape') = Kinds(CloseIntervals) \cup {"WorkerRetired", "Receipts"}
    BY <1>0, <2>1, RetirementScript
  <2>3. /\ Kinds(CloseIntervals) \subseteq {"CloseCell", "PublishCell", "CloseIdle", "EndCell"}
        /\ "CloseIdle" \in Kinds(CloseIntervals) <=> output.idle # NoOwner
    BY <1>0, CloseIntervalsScript
  <2>4. output.cell # NoOwner => Doing("CloseCell")'
    BY <1>0, <2>1, RetirementFirst DEF Doing
  <2>5. Winding'
    BY <1>0, <1>1, <2>1, <2>2, <2>3, <2>4 DEF Winding, To
  <2>6. Still'
    BY <1>1, <2>1 DEF Still
  <2>7. Shut'
    BY <1>0, <2>1 DEF Ending, Shut
  <2>8. ~journal'.finished
    BY <1>0, <2>1 DEF Ending
  <2> QED BY <2>5, <2>6, <2>7, <2>8 DEF Ending
<1> QED BY <1>2, <1>3, <1>4, <1>5 DEF Planned

LEMMA FiledEnding == ASSUME TypeOK, Account, Ending, Filed PROVE Ending'
<1>0. journal \in Journals /\ UNCHANGED <<queue, update, handler, transport, tape, output, worker>>
  BY Apart DEF Filed, CopyRest, FinalizeStorage, Relocate
<1>1. CASE CopyRest \/ \E f \in DOMAIN files : Relocate(f)
  <2>1. closing' = closing /\ journal'.finished = journal.finished
    BY <1>0, <1>1 DEF CopyRest, Relocate, Journals
  <2> QED BY <1>0, <2>1 DEF Ending, Shut, Still, Late, Winding, Quiet, Finalizing, AllSettled,
              Captured, To, Doing
<1>2. CASE FinalizeStorage
  <2>1. closing = "Finishing" /\ closing' = "Done"
    BY <1>2 DEF FinalizeStorage
  <2> QED BY <1>0, <2>1 DEF Ending, Shut, Still, Late, Winding, Quiet, Finalizing, AllSettled,
              Captured, To, Doing
<1> QED BY <1>1, <1>2 DEF Filed

LEMMA EndingStep == ASSUME Base, Account, Ending, [Next]_vars PROVE Ending'
<1>0. TypeOK
  BY DEF Base
<1>1. CASE UNCHANGED vars
  BY <1>1 DEF vars, Ending, Shut, Still, Late, Winding, Quiet, Finalizing, AllSettled, Captured, To, Doing
<1>2. CASE Updated \/ FinishPublication
  BY <1>0, <1>2, UpdatedTurns, TurnEnding
<1>3. CASE Next
  BY <1>0, <1>2, <1>3, NextCases, FiledEnding, ReportedEnding, SentEnding, Told1Ending, PlannedEnding,
     ScriptStepsEnding, DeliveredEnding
<1> QED BY <1>1, <1>3

LEMMA InitEnding == ASSUME Init PROVE Ending
BY DEF Init, Ending, Shut, Still, Late, Finalizing, NoUpdate

(***************************************************************************)
(* What the steps report about bytes.                                      *)
(***************************************************************************)
(* Nothing about bytes is reported.                                        *)
Plainly ==
    Keeps \/ Drops \/ \E e \in Queued : e.kind \notin Bytes /\ Adds(e)
LEMMA ObservesPlain ==
    ASSUME TypeOK, InSequence, NEW q \in Queues, Alike(q), NEW e \in Queued, e.kind \notin Bytes,
           Observe(q, e), UNCHANGED update, journal'.entries = journal.entries
    PROVE  Plainly
<1>1. Reaches1(e)
  BY ObserveSpeaks DEF Spoken1
<1>2. ~Extends(e)
  BY DEF Extends, Bytes
<1> QED BY <1>1, <1>2 DEF Reaches1, Plainly
LEMMA RoutinePlain ==
    ASSUME TypeOK, InSequence, Routinely, UNCHANGED update, journal'.entries = journal.entries
    PROVE  Plainly
<1>1. CASE Silently
  BY <1>1, SilentKeeps DEF Plainly
<1>2. ASSUME NEW q \in Queues, NEW e \in Queued, Alike(q), Routine(e), Observe(q, e) PROVE Plainly
  BY <1>2, ObservesPlain DEF Routine, Bytes
<1> QED BY <1>1, <1>2 DEF Routinely

LEMMA ReportedPlain == ASSUME TypeOK, InSequence, Reported PROVE Plainly
<1>1. UNCHANGED update /\ journal'.entries = journal.entries
  BY ReportedRest
<1>2. CASE ImageFails
  BY <1>1, <1>2, DisableInSequence DEF ImageFails, Causes, Plainly
<1>3. CASE ~ImageFails
  <2>1. Routinely
    BY <1>3, WorkerStartingRoutine, AssociateActiveRoutine, WorkerReadyRoutine, StartupFailedRoutine,
       ReserveImageRoutine, RetainImageRoutine DEF Reported
  <2> QED BY <1>1, <2>1, RoutinePlain
<1> QED BY <1>2, <1>3

LEMMA SourceKinds ==
    ASSUME NEW c
    PROVE  /\ Plain("SourceAdmitted", c).kind \notin Bytes
           /\ Plain("SourceFinished", c).kind \notin Bytes
           /\ Event("SourceAssociated", c, queue.owner, 0, 0).kind \notin Bytes
BY DEF Plain, Event, Bytes
LEMMA SentPlain == ASSUME TypeOK, InSequence, Sent PROVE Plainly
<1>1. UNCHANGED update /\ journal'.entries = journal.entries
  BY SentRest
<1>2. ASSUME NEW c \in Calls, Receive(c) \/ AssociateWaiting(c) PROVE Plainly
  BY <1>1, <1>2, ReceiveRoutine, AssociateWaitingRoutine, RoutinePlain
<1>3. CASE UNCHANGED <<queue, drainer>>
  BY <1>1, <1>3, NothingSilent, RoutinePlain
<1>4. ASSUME NEW c \in Calls, AdmitSource(c) \/ Dispatch(c) \/ SettleSource(c) PROVE Plainly
  <2> DEFINE A == Plain("SourceAdmitted", c)
             F == Plain("SourceFinished", c)
             S == Event("SourceAssociated", c, queue.owner, 0, 0)
  <2>1. /\ A \in Queued /\ F \in Queued /\ S \in Queued
        /\ A.kind \notin Bytes /\ F.kind \notin Bytes /\ S.kind \notin Bytes
    BY SourceEvents, SourceKinds
  <2>2. UNCHANGED <<queue, drainer>> \/ Observe(queue, A) \/ Observe(queue, F) \/ Observe(queue, S)
    BY <1>4 DEF AdmitSource, Dispatch, SettleSource
  <2> HIDE DEF A, F, S
  <2> QED BY <1>1, <1>3, <2>1, <2>2, Apart, QueueAlike, ObservesPlain
<1>5. ASSUME NEW c \in Calls, Submit(c) \/ Return(c) \/ RefuseSource(c) PROVE Plainly
  BY <1>3, <1>5 DEF Submit, Return, RefuseSource
<1> QED BY <1>2, <1>4, <1>5 DEF Sent

(* The steps of a script that are about no bytes, and those that end a file. *)
PlainSteps ==
    \/ CloseCell \/ Write \/ CreateFile("CreateCell", "cell") \/ CreateFile("CreateIdle", "idle")
    \/ StartCell \/ EndCell \/ UnownedText \/ WorkerStarted \/ WorkerEnded \/ WorkerRetired
    \/ (PublishCell /\ UNCHANGED <<queue, drainer, output>>)
    \/ (PublishReceipts /\ UNCHANGED <<queue, drainer, output>>)
LEMMA StepsPlain ==
    ASSUME Base, InSequence, ScriptSteps, PlainSteps PROVE Plainly
<1>0. TypeOK /\ UNCHANGED update /\ journal'.entries = journal.entries
  BY ScriptStepsRest DEF Base
<1>1. CASE UNCHANGED <<queue, drainer>>
  BY <1>0, <1>1, NothingSilent, RoutinePlain
<1>2. CASE StartCell \/ EndCell \/ UnownedText \/ WorkerStarted \/ WorkerEnded \/ WorkerRetired
  BY <1>0, <1>2, StartCellRoutine, EndCellRoutine, UnownedTextRoutine, WorkerStartedRoutine,
     WorkerEndedRoutine, WorkerRetiredRoutine, RoutinePlain
<1> QED BY <1>1, <1>2 DEF PlainSteps, CloseCell, Write, CreateFile
(* A summary is told of a file whose interval is closed.                   *)
Sums(f) == f \in DOMAIN files /\ Observe(queue, Summary(f))
LEMMA SummaryIs ==
    ASSUME NEW f PROVE Summary(f).kind = "OutputSummary" /\ Summary(f).owner = f
BY DEF Summary, Event
LEMMA SumsReach ==
    ASSUME TypeOK, InSequence, NEW f, Sums(f), UNCHANGED update, journal'.entries = journal.entries
    PROVE  (Keeps /\ queue.failure # "None") \/ Drops \/ Adds(Summary(f))
<1>1. Summary(f) \in Queued
  BY SummaryType DEF Sums
<1>2. Reaches1(Summary(f))
  BY <1>1, Apart, QueueAlike, ObserveSpeaks DEF Sums, Spoken1
<1> QED BY <1>2, SummaryIs DEF Reaches1, Extends
LEMMA ScriptCases ==
    ASSUME Base, ScriptSteps
    PROVE  \/ PlainSteps \/ TextEvent \/ (CloseIdle /\ Sums(output.idle))
           \/ \E f \in output.receipts : PublishesReceipt(f) /\ Sums(f)
              /\ (tape' = tape \/ (Pops /\ Doing("PublishCell"))) /\ UNCHANGED files
<1>0. TypeOK
  BY DEF Base
<1>1. CASE CloseIdle
  <2>1. To("CloseIdle")
    BY <1>0, <1>1, DoingTo DEF CloseIdle
  <2> QED BY <1>1, <2>1 DEF Base, Scripted, HasFiles, Sums, CloseIdle
<1>2. ASSUME NEW f \in output.receipts, PublishesReceipt(f) PROVE Sums(f)
  BY <1>2 DEF Base, HasFiles, Sums, PublishesReceipt
<1>3. CASE PublishCell
  BY <1>2, <1>3 DEF PublishCell, Pops, Next1, Doing, PlainSteps
<1>4. CASE PublishReceipts
  BY <1>2, <1>4 DEF PublishReceipts, PlainSteps
<1> QED BY <1>1, <1>3, <1>4 DEF ScriptSteps, PlainSteps

(***************************************************************************)
(* After its last flush the recording is silent about bytes.               *)
(***************************************************************************)
Closing1 == Finalizing \/ closing \in {"Finishing", "Done"}
LEMMA PlainSilent ==
    ASSUME Accounted', Silent, Plainly, UNCHANGED <<update, closing>> PROVE Silent'
<1>1. (Finalizing' <=> Finalizing)
  BY DEF Finalizing
<1>2. CASE Keeps
  BY <1>1, <1>2 DEF Keeps, Silent
<1>3. CASE Drops
  <2>1. queue'.pending = <<>>
    BY <1>3 DEF Accounted, QueueAccounted, Drops
  <2> QED BY <1>1, <2>1, NoneSet DEF Silent
<1>4. ASSUME NEW e \in Queued, e.kind \notin Bytes, Adds(e) PROVE Silent'
  <2>1. Numbered(e).kind = e.kind
    BY DEF Numbered, Queued, Events
  <2>2. \A d \in ToSet(queue'.pending) : d \in ToSet(queue.pending) \/ d = Numbered(e)
    BY <1>4 DEF Adds, Ahead
  <2> QED BY <1>1, <1>4, <2>1, <2>2 DEF Silent
<1> QED BY <1>2, <1>3, <1>4 DEF Plainly

LEMMA UnfinishedSilent ==
    ASSUME ~(Finalizing' \/ closing' \in {"Finishing", "Done"}) PROVE Silent'
BY DEF Silent
LEMMA TurnSilent ==
    ASSUME TypeOK, Silent, NEW by, Turn(by) PROVE Silent'
<1>1. /\ queue'.pending \in {<<>>, queue.pending}
      /\ update'.batch \in {<<>>, queue.pending}
      /\ update' = NoUpdate \/ (update'.by = by /\ UNCHANGED closing)
  <2>1. NoUpdate.batch = <<>>
    BY DEF NoUpdate
  <2>2. ASSUME update' = NoUpdate PROVE update'.batch = <<>>
    BY <2>1, <2>2
  <2> QED BY <2>2 DEF Turn, TurnFails, TurnStarts, TurnOperates, TurnUnlocks, Returns
<1>2. ASSUME NEW e \in ToSet(<<>>) PROVE FALSE
  BY <1>2, NoneSet
<1>3. ASSUME closing \in {"Finishing", "Done"} PROVE Silent'
  BY <1>1, <1>2, <1>3 DEF Silent
<1>4. ASSUME closing \notin {"Finishing", "Done"} PROVE Silent'
  <2>1. CASE update' = NoUpdate
    <3>1. update'.batch = <<>> /\ ~Finalizing'
      <4>1. NoUpdate.batch = <<>> /\ NoUpdate.phase = "Free"
        BY DEF NoUpdate
      <4>2. update'.batch = <<>> /\ update'.phase = "Free"
        BY <2>1, <4>1
      <4> QED BY <4>2 DEF Finalizing
    <3>2. CASE closing' = closing
      BY <1>4, <3>1, <3>2, UnfinishedSilent
    <3>3. CASE closing' # closing
      <4>1. by = Finalize
        BY <3>3 DEF Turn, TurnFails, TurnStarts, TurnOperates, TurnUnlocks, Returns, Returned
      <4>2. queue'.pending = <<>> \/ (queue'.pending = queue.pending /\ Finalizing)
        <5>1. TurnUnlocks(by) => Finalizing
          BY <4>1 DEF Turn, TurnUnlocks, Finalizing
        <5>2. ~TurnStarts(by)
          BY <3>3 DEF TurnStarts
        <5>3. TurnFails(by) \/ TurnOperates(by) => queue'.pending = <<>>
          BY DEF TurnFails, TurnOperates
        <5> QED BY <1>1, <5>1, <5>2, <5>3 DEF Turn
      <4> QED BY <1>2, <3>1, <4>2 DEF Silent
    <3> QED BY <3>2, <3>3
  <2>2. CASE update' # NoUpdate
    <3>1. update'.by = by /\ closing' \notin {"Finishing", "Done"}
      BY <1>1, <1>4, <2>2
    <3>2. ASSUME by = Finalize PROVE queue'.pending = <<>> \/ (queue'.pending = queue.pending /\ Finalizing)
      <4>1. ~TurnFails(by) /\ ~TurnUnlocks(by)
        BY <2>2 DEF TurnFails, TurnUnlocks, Returns
      <4>2. TurnOperates(by) => queue'.pending = <<>>
        BY DEF TurnOperates
      <4>3. TurnStarts(by) => queue'.pending = <<>> \/ (queue'.pending = queue.pending /\ Finalizing)
        BY <3>2 DEF Turn, TurnStarts, Finalizing
      <4> QED BY <4>1, <4>2, <4>3 DEF Turn
    <3>3. Finalizing' => by = Finalize
      BY <3>1 DEF Finalizing
    <3> QED BY <1>2, <3>1, <3>2, <3>3 DEF Silent
  <2> QED BY <2>1, <2>2
<1> QED BY <1>3, <1>4

LEMMA SilentStep ==
    ASSUME Base, Account, InSequence, Ending, Silent, Accounted', [Next]_vars PROVE Silent'
<1>0. TypeOK /\ (Finalizing => closing = "Recording")
  BY DEF Base, Account, Updating, Finalizing
<1>1. ASSUME Keeps, UNCHANGED <<update, closing>> PROVE Silent'
  BY <1>1, PlainSilent DEF Plainly
<1>2. ASSUME ~Closing1, UNCHANGED <<update, closing>> PROVE Silent'
  BY <1>2, UnfinishedSilent DEF Closing1, Finalizing
<1>3. ASSUME Closing1 PROVE Quiet /\ Winding
  BY <1>0, <1>3 DEF Closing1, Ending, Still, Late
<1>4. CASE UNCHANGED vars
  BY <1>1, <1>4, SameKeeps DEF vars
<1>5. CASE Updated \/ FinishPublication
  BY <1>0, <1>5, UpdatedTurns, TurnSilent
<1>6. CASE Filed
  <2>1. UNCHANGED <<queue, update>>
    BY <1>0, <1>6, FiledRest
  <2>2. CASE closing' = closing
    BY <1>1, <2>1, <2>2, SameKeeps
  <2>3. CASE closing' # closing
    <3>1. closing = "Finishing"
      BY <1>6, <2>3 DEF Filed, CopyRest, Relocate, FinalizeStorage
    <3> QED BY <2>1, <3>1 DEF Silent
  <2> QED BY <2>2, <2>3
<1>7. CASE Reported
  BY <1>0, <1>7, ReportedPlain, ReportedRest, PlainSilent
<1>8. CASE Sent
  BY <1>0, <1>8, SentPlain, SentRest, PlainSilent
<1>9. CASE Told1
  <2>1. UNCHANGED update /\ Keeps
    BY <1>0, <1>9, Told1Rest
  <2>2. CASE closing' = closing
    BY <1>1, <2>1, <2>2
  <2>3. CASE closing' # closing
    <3>1. closing \in {"No", "Closing"} /\ closing' \in {"Closing", "Settling"}
      BY <1>9, <2>3 DEF Told1, DrainEnds, Close, CloseQueue
    <3>2. ~(Finalizing' \/ closing' \in {"Finishing", "Done"})
      BY <1>0, <2>1, <3>1 DEF Finalizing
    <3> QED BY <3>2, UnfinishedSilent
  <2> QED BY <2>2, <2>3
<1>10. CASE Planned
  <2>1. UNCHANGED <<update, queue>>
    BY <1>10, PlannedRest
  <2>2. CASE closing' = closing
    BY <1>1, <2>1, <2>2, SameKeeps
  <2>3. CASE closing' # closing
    <3>1. closing = "Settling" /\ closing' = "Recording"
      BY <1>10, <2>3 DEF Planned, Acquire, WorkerEnds, Retire, Text, CellEnds, FinishRecording,
         EnterCell, workerRest
    <3>2. ~(Finalizing' \/ closing' \in {"Finishing", "Done"})
      BY <1>0, <2>1, <3>1 DEF Finalizing
    <3> QED BY <3>2, UnfinishedSilent
  <2> QED BY <2>2, <2>3
<1>11. CASE ScriptSteps
  <2>1. UNCHANGED <<update, closing>>
    BY <1>11, ScriptStepsRest
  <2>2. CASE PlainSteps
    BY <1>11, <2>1, <2>2, StepsPlain, PlainSilent
  <2>3. CASE ~PlainSteps
    <3>1. ~Closing1
      <4>1. TextEvent => To("Text")
        BY <1>0, DoingTo DEF TextEvent
      <4>2. NoOwner \notin DOMAIN files
        BY DEF Base, HasFiles
      <4>3. ~(Quiet /\ Winding)
        BY <1>11, <2>3, <4>1, <4>2, ScriptCases DEF Quiet, Winding, Sums
      <4> QED BY <1>3, <4>3
    <3> QED BY <1>2, <2>1, <3>1
  <2> QED BY <2>2, <2>3
<1>12. CASE Delivered
  <2>1. UNCHANGED <<update, closing>>
    BY <1>12, DeliveredRest
  <2>2. ~Closing1
    BY <1>3, <1>12 DEF Delivered, DeliverReceipt, Quiet
  <2> QED BY <1>2, <2>1, <2>2
<1> QED BY <1>4, <1>5, <1>6, <1>7, <1>8, <1>9, <1>10, <1>11, <1>12, NextCases

LEMMA InitSilent == ASSUME Init PROVE Silent
BY NoneSet DEF Init, Silent, NoUpdate, Finalizing

(***************************************************************************)
(* Nothing is missing: what a step does to what the recording has.         *)
(***************************************************************************)
Everything == ToSet(journal.entries) \cup Way
Intervals == {output.cell, output.idle} \cup output.receipts
LEMMA CompleteIs ==
    Complete <=>
      (~Failed =>
         /\ \A k \in 1..queue.observed : k \in journal.ignored \/ \E e \in Everything : e.at = k
         /\ \A f \in DOMAIN files : Told(Everything, f, Observed(f))
         /\ \A f \in DOMAIN files : SummaryIn(Everything, f) \/ f \in Intervals)
BY DEF Complete, Entire, Tells, Summed, Everything, Intervals
LEMMA HomelessIs ==
    Homeless <=> \A e \in Everything : e.kind = "OutputText" => e.owner \in DOMAIN files
BY DEF Homeless, Homes, Everything

LEMMA ToldSame ==
    ASSUME NEW N, NEW M, NEW f, NEW n, Told(N, f, n), TextIn(M, f) = TextIn(N, f)
    PROVE  Told(M, f, n)
BY DEF Told

(* An update changes nothing of what the recording has about bytes.        *)
LEMMA AlongBytes ==
    ASSUME Along, ~Failed', Ending, Silent
    PROVE  /\ ~Failed
           /\ \A e \in Everything' : e \in Everything \/ e \in Own
           /\ \A e \in Everything : e \in Everything' \/ (e.at \in journal'.ignored /\ e.kind \notin Bytes)
<1>1. Moves(journal, Way, journal', Way') /\ journal'.failure = "None" /\ queue.failure = "None"
  BY DEF Along, Failed
<1>2. ~Failed
  BY <1>1 DEF Moves, Failed
<1>3. ASSUME NEW e \in Way, journal.finished PROVE e.kind \notin Bytes
  BY <1>3 DEF Ending, Silent, Way
<1> QED BY <1>1, <1>2, <1>3 DEF Moves, Everything

LEMMA AlongComplete ==
    ASSUME TypeOK, Ending, Silent, Homeless, Complete, Along, UNCHANGED <<tape, output>>,
           DOMAIN files' = DOMAIN files, \A f \in DOMAIN files : files'[f].retained = files[f].retained
    PROVE  Complete' /\ Homeless'
<1>1. \A e \in Everything' : e \in Everything \/ e.kind \notin Bytes
  <2>1. \A e \in ToSet(journal'.entries) \cup Way' : e \in Everything \/ e \in Own
    BY DEF Along, Moves, Everything
  <2> QED BY <2>1, OwnZero DEF Everything
<1>2. Homeless'
  BY <1>1, HomelessIs DEF Homeless, Homes, Everything, Bytes
<1>3. ASSUME ~Failed' PROVE Complete'
  <2>1. /\ ~Failed
        /\ \A e \in Everything' : e \in Everything \/ e \in Own
        /\ \A e \in Everything : e \in Everything' \/ (e.at \in journal'.ignored /\ e.kind \notin Bytes)
    BY <1>3, AlongBytes
  <2>2. journal.ignored \subseteq journal'.ignored /\ queue'.observed = queue.observed
    BY DEF Along, Moves
  <2>3. \A f : TextIn(Everything', f) = TextIn(Everything, f)
    BY <1>1, <2>1 DEF TextIn, Bytes
  <2>4. \A f : SummaryIn(Everything, f) => SummaryIn(Everything', f)
    BY <1>1, <2>1 DEF SummaryIn, Bytes
  <2>5. \A f \in DOMAIN files : Observed(f)' = Observed(f)
    BY DEF Observed, Doing
  <2>6. \A k \in 1..queue'.observed : k \in journal'.ignored \/ \E e \in Everything' : e.at = k
    BY <2>1, <2>2, CompleteIs
  <2>7. \A f \in DOMAIN files' : Told(Everything', f, Observed(f)')
    BY <2>1, <2>3, <2>5, ToldSame, CompleteIs
  <2>8. \A f \in DOMAIN files' : SummaryIn(Everything', f) \/ f \in Intervals'
    BY <2>1, <2>4, CompleteIs DEF Intervals
  <2> QED BY <2>6, <2>7, <2>8 DEF Complete, Entire, Tells, Summed, Everything, Intervals
<1>4. Failed' => Complete'
  BY DEF Complete
<1> QED BY <1>2, <1>3, <1>4

(* Nothing is reported.                                                    *)
Recorded1 == UNCHANGED update /\ journal'.entries = journal.entries /\ journal'.ignored = journal.ignored
             /\ journal'.failure = journal.failure
SameObserved == DOMAIN files' = DOMAIN files /\ \A f \in DOMAIN files : Observed(f)' = Observed(f)
LEMMA KeepsComplete ==
    ASSUME Homeless, Complete, Keeps, Recorded1, SameObserved,
           \A f \in DOMAIN files : f \in Intervals => f \in Intervals'
    PROVE  Complete' /\ Homeless'
<1>1. Everything' = Everything /\ Failed' = Failed /\ queue'.observed = queue.observed
  BY KeepsWay DEF Everything, Recorded1, Failed, Keeps
<1>2. Homeless'
  BY <1>1 DEF Homeless, Homes, Everything, SameObserved
<1>3. ASSUME ~Failed' PROVE Complete'
  <2>1. \A f \in DOMAIN files' : Told(Everything', f, Observed(f)')
    BY <1>1, <1>3, CompleteIs DEF SameObserved
  <2> QED BY <1>1, <1>3, <2>1, CompleteIs
          DEF Complete, Entire, Tells, Summed, Everything, Intervals, SameObserved, Recorded1
<1> QED BY <1>2, <1>3 DEF Complete

(* What is dropped has failed.                                             *)
LEMMA DropsComplete ==
    ASSUME Homeless, Drops, Recorded1, DOMAIN files \subseteq DOMAIN files'
    PROVE  Complete' /\ Homeless'
<1>1. Failed'
  BY DEF Drops, Failed
<1>2. \A e \in ToSet(journal'.entries) \cup Way' : e \in Everything
  BY DEF Drops, Recorded1, Everything
<1> QED BY <1>1, <1>2, HomelessIs DEF Complete, Homeless, Homes

(* An event that is no text is reported, the summary of a file, maybe.     *)
LEMMA AddsComplete ==
    ASSUME TypeOK, Homeless, Complete, NEW e \in Queued, e.kind # "OutputText", Adds(e), Recorded1,
           SameObserved,
           \A f \in DOMAIN files : f \in Intervals =>
              f \in Intervals' \/ (e.kind = "OutputSummary" /\ e.owner = f)
    PROVE  Complete' /\ Homeless'
<1> DEFINE x == Numbered(e)
<1>0. x.kind = e.kind /\ x.owner = e.owner /\ x.at = Next2
  BY DEF Numbered, Queued, Events
<1> HIDE DEF x
<1>1. Everything' = Everything \cup {x} /\ Failed' = Failed /\ queue'.observed = queue.observed + 1
  BY DEF Everything, Recorded1, Failed, Adds, Next2, x
<1>2. Homeless'
  BY <1>0, <1>1, HomelessIs DEF Homeless, Homes, Everything, SameObserved
<1>3. ASSUME ~Failed' PROVE Complete'
  <2>0. queue.observed \in Nat
    BY WayType
  <2>1. \A f : TextIn(Everything', f) = TextIn(Everything, f)
    BY <1>0, <1>1 DEF TextIn
  <2>2. \A f : SummaryIn(Everything, f) => SummaryIn(Everything', f)
    BY <1>1 DEF SummaryIn
  <2>3. \A f : e.kind = "OutputSummary" /\ e.owner = f => SummaryIn(Everything', f)
    BY <1>0, <1>1 DEF SummaryIn
  <2>4. \A f \in DOMAIN files' : Told(Everything', f, Observed(f)')
    BY <1>1, <1>3, <2>1, ToldSame, CompleteIs DEF SameObserved
  <2>5. \A k \in 1..queue'.observed : k \in journal'.ignored \/ \E d \in Everything' : d.at = k
    <3>1. ASSUME NEW k \in 1..queue'.observed
          PROVE  k \in journal'.ignored \/ \E d \in Everything' : d.at = k
      <4>1. k \in 1..queue.observed \/ k = Next2
        BY <1>1, <2>0 DEF Next2
      <4> QED BY <1>0, <1>1, <1>3, <4>1, CompleteIs DEF Recorded1
    <3> QED BY <3>1
  <2>6. \A f \in DOMAIN files' : SummaryIn(Everything', f) \/ f \in Intervals'
    BY <1>1, <1>3, <2>2, <2>3, CompleteIs DEF SameObserved
  <2> QED BY <2>4, <2>5, <2>6 DEF Complete, Entire, Tells, Summed, Everything, Intervals
<1> QED BY <1>2, <1>3 DEF Complete

LEMMA PlainComplete ==
    ASSUME TypeOK, Homeless, Complete, Plainly, Recorded1, SameObserved,
           \A f \in DOMAIN files : f \in Intervals => f \in Intervals'
    PROVE  Complete' /\ Homeless'
<1>1. DOMAIN files \subseteq DOMAIN files'
  BY DEF SameObserved
<1> QED BY <1>1, KeepsComplete, DropsComplete, AddsComplete DEF Plainly, Bytes
LEMMA SumsComplete ==
    ASSUME TypeOK, InSequence, Homeless, Complete, NEW f, Sums(f), Recorded1, SameObserved,
           \A g \in DOMAIN files \ {f} : g \in Intervals => g \in Intervals'
    PROVE  Complete' /\ Homeless'
<1>1. DOMAIN files \subseteq DOMAIN files' /\ f \in DOMAIN files
  BY DEF SameObserved, Sums
<1>2. UNCHANGED update /\ journal'.entries = journal.entries
  BY DEF Recorded1
<1>3. Summary(f) \in Queued /\ Summary(f).kind = "OutputSummary" /\ Summary(f).owner = f
  BY <1>1, SummaryType, SummaryIs
<1>4. CASE Keeps /\ queue.failure # "None"
  <2>1. Failed' /\ Everything' = Everything
    BY <1>2, <1>4, KeepsWay DEF Failed, Keeps, Everything
  <2> QED BY <2>1, HomelessIs DEF Complete, Homeless, Homes, Everything, SameObserved
<1>5. CASE Drops
  BY <1>1, <1>5, DropsComplete
<1>6. CASE Adds(Summary(f))
  BY <1>3, <1>6, AddsComplete
<1> QED BY <1>2, <1>4, <1>5, <1>6, SumsReach

(* A piece of text is observed: it follows what was told of its file.      *)
LEMMA ToldAdds ==
    ASSUME NEW N \in SUBSET Entries, NEW x \in Entries, NEW f, NEW n \in Nat, Told(N, f, n),
           x.kind = "OutputText", x.owner = f, x.from = n, x.from <= x.to,
           \A e \in N : e.at < x.at
    PROVE  Told(N \cup {x}, f, x.to)
<1> DEFINE M == TextIn(N, f)
<1>0. /\ TextIn(N \cup {x}, f) = M \cup {x} /\ M \subseteq N
      /\ \A e \in M \cup {x} : e.from \in Nat /\ e.to \in Nat /\ e.at \in Nat
  BY DEF TextIn, Entries, Events
<1>1. /\ \A e \in M : e.from <= e.to /\ e.to <= n
      /\ \A d, e \in M : d.at < e.at => d.to <= e.from
      /\ \A b \in 0..(n - 1) : \E e \in M : e.from <= b /\ b < e.to
  BY DEF Told
<1> HIDE DEF M
<1>2. \A e \in M \cup {x} : e.from <= e.to /\ e.to <= x.to
  BY <1>0, <1>1
<1>3. ASSUME NEW d \in M \cup {x}, NEW e \in M \cup {x}, d.at < e.at PROVE d.to <= e.from
  <2>1. d # x
    BY <1>0, <1>3
  <2> QED BY <1>0, <1>1, <1>3, <2>1
<1>4. ASSUME NEW b \in 0..(x.to - 1) PROVE \E e \in M \cup {x} : e.from <= b /\ b < e.to
  <2>1. CASE b < n
    <3>1. b \in 0..(n - 1)
      BY <1>0, <1>4, <2>1
    <3> QED BY <1>1, <3>1
  <2>2. CASE ~(b < n)
    BY <1>0, <1>4, <2>2
  <2> QED BY <2>1, <2>2
<1> QED BY <1>0, <1>2, <1>3, <1>4 DEF Told

LEMMA ToldExtends ==
    ASSUME NEW N \in SUBSET Entries, NEW d \in N, NEW x \in Entries, NEW f, NEW n \in Nat,
           Told(N, f, n), d.kind = "OutputText", d.owner = f, d.to = n, n <= x.to,
           x.kind = d.kind, x.owner = d.owner, x.from = d.from, x.at = d.at,
           \A c \in N : c = d \/ c.at < d.at
    PROVE  Told((N \ {d}) \cup {x}, f, x.to)
<1> DEFINE M == TextIn(N, f)
           K == (M \ {d}) \cup {x}
<1>0. /\ TextIn((N \ {d}) \cup {x}, f) = K /\ M \subseteq N /\ d \in M
      /\ \A e \in M \cup K : e.from \in Nat /\ e.to \in Nat /\ e.at \in Nat
  BY DEF TextIn, Entries, Events
<1>1. /\ \A e \in M : e.from <= e.to /\ e.to <= n
      /\ \A c, e \in M : c.at < e.at => c.to <= e.from
      /\ \A b \in 0..(n - 1) : \E e \in M : e.from <= b /\ b < e.to
  BY DEF Told
<1> HIDE DEF M
<1>2. \A e \in K : e.from <= e.to /\ e.to <= x.to
  BY <1>0, <1>1
<1>3. ASSUME NEW c \in K, NEW e \in K, c.at < e.at PROVE c.to <= e.from
  <2>1. CASE c = x
    <3>1. (e \in M /\ e # d) \/ e = x
      OBVIOUS
    <3>2. e \in M /\ e # d => e.at < x.at
      BY <1>0
    <3> QED BY <1>0, <1>3, <2>1, <3>1, <3>2
  <2>2. CASE c # x
    <3>1. c \in M
      BY <2>2
    <3>2. CASE e = x
      BY <1>0, <1>1, <1>3, <3>1, <3>2
    <3>3. CASE e # x
      BY <1>1, <1>3, <3>1, <3>3
    <3> QED BY <3>2, <3>3
  <2> QED BY <2>1, <2>2
<1>4. ASSUME NEW b \in 0..(x.to - 1) PROVE \E e \in K : e.from <= b /\ b < e.to
  <2>1. CASE b < n
    <3>1. b \in 0..(n - 1)
      BY <1>0, <1>4, <2>1
    <3>2. PICK e \in M : e.from <= b /\ b < e.to
      BY <1>1, <3>1
    <3>3. e = d => x.from <= b /\ b < x.to
      BY <1>0, <1>1, <1>4, <3>2
    <3> QED BY <3>2, <3>3
  <2>2. CASE ~(b < n)
    <3>1. x.from <= b /\ b < x.to
      BY <1>0, <1>1, <1>4, <2>2
    <3> QED BY <3>1
  <2> QED BY <2>1, <2>2
<1> HIDE DEF K
<1> QED BY <1>0, <1>2, <1>3, <1>4 DEF Told

LEMMA EverythingType ==
    ASSUME TypeOK PROVE Everything \in SUBSET Entries
<1>1. journal.entries \in Seq(Entries)
  BY Apart DEF Journals
<1>2. ToSet(journal.entries) \subseteq Entries
  BY <1>1 DEF ToSet
<1> QED BY <1>2, WayType, QueuedIsEntry DEF Everything

(* After a step of a script no text waits.                                 *)
LEMMA PopsSilent == ASSUME Base, Pops PROVE ~Doing("Text")'
<1>1. tape \in Seq(Steps) /\ Lone(tape)
  BY Apart DEF Base, Scripted
<1>2. ASSUME tape' # <<>>, Head(tape').do = "Text" PROVE FALSE
  <2>1. /\ tape' \in Seq(Steps)
        /\ \A i \in DOMAIN tape' : i + 1 \in DOMAIN tape /\ tape'[i] = tape[i + 1] /\ i \in Nat \ {0}
    BY <1>1, Popped DEF Pops
  <2>2. 1 \in DOMAIN tape' /\ Head(tape') = tape'[1]
    BY <1>2, <2>1
  <2>3. 2 \in DOMAIN tape /\ tape[2].do = "Text"
    BY <1>2, <2>1, <2>2
  <2> QED BY <2>3 DEF Base, Telling
<1> QED BY <1>2 DEF Doing
LEMMA QuietObserved ==
    ASSUME ~Doing("Text"), ~Doing("Text")', DOMAIN files' = DOMAIN files,
           \A f \in DOMAIN files : files'[f].retained = files[f].retained
    PROVE  SameObserved
BY DEF SameObserved, Observed
LEMMA StaysObserved ==
    ASSUME UNCHANGED tape, DOMAIN files' = DOMAIN files,
           \A f \in DOMAIN files : files'[f].retained = files[f].retained
    PROVE  SameObserved
BY DEF SameObserved, Observed, Doing

LEMMA TextComplete ==
    ASSUME Base, InSequence, Homeless, Complete, TextEvent, Recorded1 PROVE Complete' /\ Homeless'
<1>0. TypeOK /\ Doing("Text") /\ Pops /\ UNCHANGED <<files, output>> /\ Observe(queue, Head(tape).arg)
  BY DEF Base, TextEvent, Pops, Next1, Doing
<1>a. PICK e \in Queued : /\ e = Head(tape).arg /\ e.kind = "OutputText" /\ e.owner \in DOMAIN files
                          /\ e.from <= e.to /\ e.to = files[e.owner].retained
  <2>1. Head(tape) \in Steps /\ Head(tape) = tape[1] /\ 1 \in DOMAIN tape /\ tape[1].do = "Text"
    BY <1>0, Head1 DEF Doing
  <2>2. Head(tape).arg \in Queued
    BY <2>1 DEF Steps
  <2> QED BY <2>1, <2>2 DEF Base, Telling
<1> DEFINE f == e.owner
           n == e.from
<1>1. /\ e \in Queued /\ e.kind = "OutputText" /\ f \in DOMAIN files
      /\ e.from <= e.to /\ e.to = files[f].retained
  BY <1>a
<1>2. /\ Observed(f) = n /\ Observed(f)' = e.to
      /\ \A g \in DOMAIN files \ {f} : Observed(g)' = Observed(g)
  <2>1. ~Doing("Text")' /\ files' = files
    BY <1>0, PopsSilent
  <2>2. \A g : Observed(g)' = files[g].retained
    BY <2>1 DEF Observed
  <2>3. \A g : Observed(g) = IF e.owner = g THEN e.from ELSE files[g].retained
    BY <1>0, <1>a DEF Observed
  <2> QED BY <1>1, <2>2, <2>3
<1>3. Reaches1(e)
  BY <1>0, <1>1, <1>a, Apart, QueueAlike, ObserveSpeaks DEF Spoken1, Recorded1
<1>4. n \in Nat /\ e.to \in Nat /\ Everything \in SUBSET Entries /\ queue.observed \in Nat
  BY <1>0, <1>1, EverythingType, WayType DEF Queued, Events
<1>5. CASE Keeps /\ queue.failure # "None"
  <2>1. Failed' /\ Everything' = Everything
    BY <1>5, KeepsWay DEF Failed, Keeps, Everything, Recorded1
  <2> QED BY <1>0, <2>1, HomelessIs DEF Complete, Homeless, Homes, Everything
<1>6. CASE Drops
  BY <1>0, <1>6, DropsComplete
<1>7. CASE Adds(e)
  <2> DEFINE x == Numbered(e)
  <2>0. /\ x \in Entries /\ x.kind = "OutputText" /\ x.owner = f /\ x.at = Next2 /\ x.from = n
        /\ x.to = e.to
    <3>1. Next2 \in Nat
      BY <1>4 DEF Next2
    <3>2. x \in Queued /\ x.kind = "OutputText" /\ x.owner = f /\ x.at = Next2 /\ x.from = n
          /\ x.to = e.to
      BY <1>1, <3>1 DEF Numbered, Queued, Events
    <3> QED BY <3>2, QueuedIsEntry
  <2> HIDE DEF x
  <2>1. Everything' = Everything \cup {x} /\ Failed' = Failed /\ queue'.observed = queue.observed + 1
    BY <1>7 DEF Everything, Recorded1, Failed, Adds, Next2, x
  <2>2. Homeless'
    BY <1>0, <1>1, <2>0, <2>1, HomelessIs DEF Homeless, Homes, Everything
  <2>3. ASSUME ~Failed' PROVE Complete'
    <3>1. \A d \in Everything : d.at < x.at
      <4>1. \A d \in Everything : d.at <= queue.observed /\ d.at \in Nat
        BY <1>4 DEF InSequence, Line, Everything, Entries, Events
      <4> QED BY <1>4, <2>0, <4>1 DEF Next2
    <3>2. Told(Everything, f, n)
      BY <1>1, <1>2, <2>1, <2>3, CompleteIs
    <3>3. Told(Everything', f, e.to)
      <4>1. x.from <= x.to
        BY <1>1, <2>0
      <4>2. Told(Everything \cup {x}, f, x.to)
        BY <1>4, <2>0, <3>1, <3>2, <4>1, ToldAdds
      <4> QED BY <2>0, <2>1, <4>2
    <3>4. ASSUME NEW g \in DOMAIN files, g # f PROVE Told(Everything', g, Observed(g)')
      <4>1. TextIn(Everything', g) = TextIn(Everything, g)
        BY <2>0, <2>1, <3>4 DEF TextIn
      <4>2. Told(Everything, g, Observed(g))
        BY <2>1, <2>3, CompleteIs
      <4> QED BY <1>2, <3>4, <4>1, <4>2, ToldSame
    <3>5. \A g : SummaryIn(Everything, g) => SummaryIn(Everything', g)
      BY <2>1 DEF SummaryIn
    <3>6. ASSUME NEW k \in 1..queue'.observed
          PROVE  k \in journal'.ignored \/ \E d \in Everything' : d.at = k
      <4>1. k \in 1..queue.observed \/ k = Next2
        BY <1>4, <2>1 DEF Next2
      <4> QED BY <2>0, <2>1, <2>3, <4>1, CompleteIs DEF Recorded1
    <3>7. \A g \in DOMAIN files' : SummaryIn(Everything', g) \/ g \in Intervals'
      BY <1>0, <2>1, <2>3, <3>5, CompleteIs DEF Intervals
    <3>8. \A g \in DOMAIN files' : Told(Everything', g, Observed(g)')
      BY <1>0, <1>2, <3>3, <3>4
    <3> QED BY <3>6, <3>7, <3>8 DEF Complete, Entire, Tells, Summed, Everything, Intervals
  <2> QED BY <2>2, <2>3 DEF Complete
<1>8. CASE Extends(e)
  <2>1. PICK d \in Way :
           /\ d.kind = "OutputText" /\ d.owner = f /\ d.to = n
           /\ Way' = (Way \ {d}) \cup {Longer(d, e)}
           /\ \A c \in Everything : c = d \/ c.at < d.at
    BY <1>8 DEF Extends, Everything
  <2> DEFINE x == Longer(d, e)
  <2>2. /\ d \in Queued /\ d \in Everything /\ x \in Entries /\ x.kind = "OutputText" /\ x.owner = f
        /\ x.at = d.at /\ x.from = d.from /\ x.to = e.to
    <3>1. d \in Queued /\ d \in Everything
      BY <1>0, WayType DEF Everything
    <3>2. x \in Queued /\ x.kind = d.kind /\ x.owner = d.owner /\ x.at = d.at /\ x.from = d.from
          /\ x.to = e.to
      BY <1>4, <3>1 DEF Longer, Queued, Events
    <3> QED BY <2>1, <3>1, <3>2, QueuedIsEntry
  <2> HIDE DEF x
  <2>3. d \notin ToSet(journal.entries)
    <3>1. d \in ToSet(journal.entries) => d.at < d.at
      BY <2>1 DEF InSequence, Line
    <3>2. d.at \in Nat
      BY <2>2 DEF Queued, Events
    <3> QED BY <3>1, <3>2
  <2>4. /\ Everything' = (Everything \ {d}) \cup {x} /\ Failed' = Failed
        /\ queue'.observed = queue.observed
    BY <1>8, <2>1, <2>3 DEF Everything, Recorded1, Failed, Extends, x
  <2>5. Homeless'
    BY <1>0, <1>1, <2>2, <2>4, HomelessIs DEF Homeless, Homes, Everything
  <2>6. ASSUME ~Failed' PROVE Complete'
    <3>1. Told(Everything', f, e.to)
      <4>1. Told(Everything, f, n)
        BY <1>1, <1>2, <2>4, <2>6, CompleteIs
      <4>2. n <= x.to
        BY <1>1, <2>2
      <4>3. Told((Everything \ {d}) \cup {x}, f, x.to)
        BY <1>4, <2>1, <2>2, <4>1, <4>2, ToldExtends
      <4> QED BY <2>2, <2>4, <4>3
    <3>2. ASSUME NEW g \in DOMAIN files, g # f PROVE Told(Everything', g, Observed(g)')
      <4>1. TextIn(Everything', g) = TextIn(Everything, g)
        BY <2>1, <2>2, <2>4, <3>2 DEF TextIn
      <4>2. Told(Everything, g, Observed(g))
        BY <2>4, <2>6, CompleteIs
      <4> QED BY <1>2, <3>2, <4>1, <4>2, ToldSame
    <3>3. \A g : SummaryIn(Everything, g) => SummaryIn(Everything', g)
      BY <2>1, <2>4 DEF SummaryIn
    <3>4. \A k \in 1..queue'.observed : k \in journal'.ignored \/ \E c \in Everything' : c.at = k
      BY <2>2, <2>4, <2>6, CompleteIs DEF Recorded1
    <3>5. \A g \in DOMAIN files' : SummaryIn(Everything', g) \/ g \in Intervals'
      BY <1>0, <2>4, <2>6, <3>3, CompleteIs DEF Intervals
    <3>6. \A g \in DOMAIN files' : Told(Everything', g, Observed(g)')
      BY <1>0, <1>2, <3>1, <3>2
    <3> QED BY <3>4, <3>5, <3>6 DEF Complete, Entire, Tells, Summed, Everything, Intervals
  <2> QED BY <2>5, <2>6 DEF Complete
<1> QED BY <1>3, <1>5, <1>6, <1>7, <1>8 DEF Reaches1

(***************************************************************************)
(* No step loses anything of a recording that did not fail.                *)
(***************************************************************************)
LEMMA AlteredSame ==
    ASSUME TypeOK, Filed \/ FinishPublication
    PROVE  DOMAIN files' = DOMAIN files /\ \A f \in DOMAIN files : files'[f].retained = files[f].retained
<1>0. files \in FileMaps /\ \A g \in DOMAIN files : files[g] \in File
  BY Apart, FileMapsApart
<1>1. CASE CopyRest
  <2>1. files' = [f \in DOMAIN files |->
                    [files[f] EXCEPT !.public = IF @ = -1 THEN files[f].temporary ELSE @,
                                     !.at = "public"]]
    BY <1>1 DEF CopyRest, Copied
  <2>2. \A f \in DOMAIN files : files'[f].retained = files[f].retained
    BY <1>0, <2>1 DEF File
  <2> QED BY <2>1, <2>2
<1>2. CASE FinalizeStorage
  <2>1. files' = [f \in DOMAIN files |-> [files[f] EXCEPT !.open = FALSE]]
    BY <1>2 DEF FinalizeStorage
  <2>2. \A f \in DOMAIN files : files'[f].retained = files[f].retained
    BY <1>0, <2>1 DEF File
  <2> QED BY <2>1, <2>2
<1>3. CASE FinishPublication
  <2>1. files' = [f \in DOMAIN files |-> [files[f] EXCEPT !.temporary = -1]]
    BY <1>3 DEF FinishPublication
  <2>2. \A f \in DOMAIN files : files'[f].retained = files[f].retained
    BY <1>0, <2>1 DEF File
  <2> QED BY <2>1, <2>2
<1>4. ASSUME NEW f \in DOMAIN files, Relocate(f)
      PROVE  DOMAIN files' = DOMAIN files /\ \A g \in DOMAIN files : files'[g].retained = files[g].retained
  <2>1. files' = [files EXCEPT ![f].public = files[f].temporary, ![f].at = "public"]
    BY <1>4 DEF Relocate
  <2>2. DOMAIN files' = DOMAIN files
    BY <2>1
  <2>3. ASSUME NEW g \in DOMAIN files PROVE files'[g].retained = files[g].retained
    BY <1>0, <2>1, <2>3 DEF File
  <2> QED BY <2>2, <2>3
<1> QED BY <1>1, <1>2, <1>3, <1>4 DEF Filed

LEMMA DoingOne == ASSUME Doing("Write") \/ Doing("CreateCell") \/ Doing("CreateIdle") PROVE ~Doing("Text")
BY DEF Doing

(* A piece of output that is written is not told of yet.                   *)
LEMMA WriteObserved == ASSUME Base, Write PROVE SameObserved /\ UNCHANGED <<queue, output>>
<1>1. UNCHANGED <<queue, output>> /\ ~Doing("Text")
  BY WriteDoes, DoingOne
<1>2. CASE Pops /\ UNCHANGED files
  BY <1>1, <1>2, PopsSilent, QuietObserved
<1>3. ASSUME NEW f \in DOMAIN files, NEW n \in 0..1, Writes(f, n) PROVE SameObserved
  <2> DEFINE e == Event("OutputText", 0, f, files[f].retained, files[f].retained + n)
  <2>1. tape' = <<Do("Text", e)>> /\ Grows(files', f, n)
    BY <1>3 DEF Writes
  <2>2. e.owner = f /\ e.from = files[f].retained
    BY DEF Event
  <2>3. \E d : d = e
    OBVIOUS
  <2>4. PICK d : d = e
    BY <2>3
  <2> HIDE DEF e
  <2>5. tape' # <<>> /\ Head(tape').do = "Text" /\ Head(tape').arg = d
    BY <2>1, <2>4, DoType
  <2>6. ASSUME NEW g \in DOMAIN files PROVE Observed(g)' = Observed(g)
    <3>1. Observed(g) = files[g].retained
      BY <1>1 DEF Observed
    <3>2. Observed(g)' = IF f = g THEN files[f].retained ELSE files'[g].retained
      BY <2>2, <2>4, <2>5 DEF Observed, Doing
    <3> QED BY <2>1, <2>6, <3>1, <3>2 DEF Grows
  <2> QED BY <2>1, <2>6 DEF SameObserved, Grows
<1> QED BY <1>1, <1>2, <1>3, WriteDoes

(* A new file has no bytes, and an interval of its own.                    *)
LEMMA CreateComplete ==
    ASSUME Base, Homeless, Complete, NEW do, NEW field, CreateFile(do, field),
           (do = "CreateCell" /\ field = "cell") \/ (do = "CreateIdle" /\ field = "idle")
    PROVE  Complete' /\ Homeless'
<1>0. /\ TypeOK /\ Pops /\ ~Doing("Text") /\ ~Doing("Text")' /\ Recorded1 /\ Keeps
      /\ UNCHANGED queue /\ output \in Outputs
  BY DoingOne, PopsSilent, SameKeeps, Apart
     DEF Base, CreateFile, Pops, Next1, Doing, Recorded1, tapeRest
<1>1. CASE UNCHANGED <<files, output>>
  BY <1>0, <1>1, QuietObserved, KeepsComplete DEF Intervals
<1>2. CASE ~UNCHANGED <<files, output>>
  <2>0. PICK g : g = queue.owner
    OBVIOUS
  <2>1. /\ g \notin DOMAIN files /\ output' = [output EXCEPT ![field] = g]
        /\ files' = [h \in DOMAIN files \cup {g} |-> IF h = g THEN NewFile ELSE files[h]]
    BY <1>2, <2>0 DEF CreateFile, Create
  <2>2. NewFile.retained = 0
    BY DEF NewFile, NoFile
  <2>3. To(do)
    BY <1>0, DoingTo DEF CreateFile
  <2>4. output[field] = NoOwner /\ NoOwner \notin DOMAIN files
    BY <2>3 DEF Base, Scripted, HasFiles
  <2>5. /\ DOMAIN files' = DOMAIN files \cup {g} /\ files'[g].retained = 0
        /\ \A f \in DOMAIN files : files'[f].retained = files[f].retained
    BY <2>1, <2>2
  <2>6. g \in Intervals' /\ \A f \in Intervals : f = NoOwner \/ f \in Intervals'
    BY <1>0, <2>1, <2>4 DEF Intervals, Outputs
  <2>7. Everything' = Everything /\ Failed' = Failed /\ queue'.observed = queue.observed
    BY <1>0, KeepsWay DEF Everything, Recorded1, Failed, Keeps
  <2>8. Homeless'
    BY <2>5, <2>7, HomelessIs DEF Homeless, Homes, Everything
  <2>9. ASSUME ~Failed' PROVE Complete'
    <3>1. Observed(g)' = 0 /\ \A f \in DOMAIN files : Observed(f)' = Observed(f)
      BY <1>0, <2>5 DEF Observed
    <3>2. Told(Everything', g, 0)
      <4>1. TextIn(Everything', g) = {}
        BY <2>1, <2>7, HomelessIs DEF TextIn
      <4>2. \A b \in 0..(0 - 1) : FALSE
        OBVIOUS
      <4> QED BY <4>1, <4>2 DEF Told
    <3>3. \A f \in DOMAIN files' : Told(Everything', f, Observed(f)')
      BY <2>5, <2>7, <2>9, <3>1, <3>2, CompleteIs
    <3>4. \A f \in DOMAIN files' : SummaryIn(Everything', f) \/ f \in Intervals'
      BY <2>4, <2>5, <2>6, <2>7, <2>9, CompleteIs
    <3>5. \A k \in 1..queue'.observed : k \in journal'.ignored \/ \E c \in Everything' : c.at = k
      BY <1>0, <2>7, <2>9, CompleteIs DEF Recorded1
    <3> QED BY <3>3, <3>4, <3>5 DEF Complete, Entire, Tells, Summed, Everything, Intervals
  <2> QED BY <2>8, <2>9 DEF Complete
<1> QED BY <1>1, <1>2

LEMMA ScriptComplete ==
    ASSUME Base, InSequence, Homeless, Complete, ScriptSteps PROVE Complete' /\ Homeless'
<1>0. TypeOK /\ Recorded1
  BY ScriptStepsRest DEF Base, Recorded1
<1>1. CASE TextEvent
  BY <1>0, <1>1, TextComplete
<1>2. CASE CloseIdle /\ Sums(output.idle)
  <2>1. PICK f : f = output.idle
    OBVIOUS
  <2>2. /\ Sums(f) /\ f \in DOMAIN files /\ files' = Closed(f) /\ Pops
        /\ output' = [output EXCEPT !.idle = NoOwner] /\ ~Doing("Text") /\ output \in Outputs
    BY <1>0, <1>2, <2>1, Apart DEF CloseIdle, Sums, Pops, Next1, Doing
  <2>3. SameObserved
    BY <1>0, <2>2, ClosedType, PopsSilent, QuietObserved
  <2>4. \A g \in DOMAIN files \ {f} : g \in Intervals => g \in Intervals'
    BY <2>1, <2>2 DEF Intervals, Outputs
  <2> QED BY <1>0, <2>2, <2>3, <2>4, SumsComplete
<1>3. ASSUME NEW f \in output.receipts, PublishesReceipt(f), Sums(f), UNCHANGED files,
             tape' = tape \/ (Pops /\ Doing("PublishCell"))
      PROVE  Complete' /\ Homeless'
  <2>1. SameObserved
    <3>1. CASE tape' = tape
      BY <1>3, <3>1, StaysObserved
    <3>2. CASE Pops /\ Doing("PublishCell")
      <4>1. ~Doing("Text")
        BY <3>2 DEF Doing
      <4> QED BY <1>3, <3>2, <4>1, PopsSilent, QuietObserved
    <3> QED BY <1>3, <3>1, <3>2
  <2>2. \A g \in DOMAIN files \ {f} : g \in Intervals => g \in Intervals'
    BY <1>3, ReceiptOwner DEF Intervals
  <2> QED BY <1>0, <1>3, <2>1, <2>2, SumsComplete
<1>4. CASE PlainSteps
  <2>1. CASE Write
    <3>1. SameObserved /\ Intervals' = Intervals
      BY <2>1, WriteObserved DEF Intervals
    <3> QED BY <1>0, <1>4, <3>1, StepsPlain, PlainComplete
  <2>2. CASE CreateFile("CreateCell", "cell") \/ CreateFile("CreateIdle", "idle")
    BY <2>2, CreateComplete
  <2>3. CASE PublishReceipts /\ UNCHANGED <<queue, drainer, output>>
    <3>1. ~Doing("Text") /\ UNCHANGED <<files, output>> /\ (tape' = tape \/ Pops)
      BY <2>3 DEF PublishReceipts, Pops, Next1, Doing
    <3>2. SameObserved /\ Intervals' = Intervals
      BY <3>1, PopsSilent, QuietObserved, StaysObserved DEF Intervals
    <3> QED BY <1>0, <1>4, <3>2, StepsPlain, PlainComplete
  <2>4. CASE CloseCell
    <3>1. Pops /\ ~Doing("Text") /\ output \in Outputs
      BY <1>0, <2>4, Apart DEF CloseCell, Pops, Next1, Doing
    <3>2. /\ DOMAIN files' = DOMAIN files
          /\ \A f \in DOMAIN files : files'[f].retained = files[f].retained
      BY <1>0, <2>4, ClosedType DEF CloseCell, Base, HasFiles
    <3>3. \A f \in DOMAIN files : f \in Intervals => f \in Intervals'
      BY <2>4, <3>1 DEF CloseCell, Intervals, Outputs
    <3>4. SameObserved
      BY <3>1, <3>2, PopsSilent, QuietObserved
    <3> QED BY <1>0, <1>4, <3>3, <3>4, StepsPlain, PlainComplete
  <2>5. CASE \/ StartCell \/ EndCell \/ UnownedText \/ WorkerStarted \/ WorkerEnded \/ WorkerRetired
             \/ (PublishCell /\ UNCHANGED <<queue, drainer, output>>)
    <3>1. Pops /\ ~Doing("Text") /\ UNCHANGED files /\ Intervals' = Intervals
      <4>1. output \in Outputs
        BY <1>0, Apart
      <4> QED BY <2>5, <4>1 DEF StartCell, EndCell, UnownedText, WorkerStarted, WorkerEnded, WorkerRetired,
                 PublishCell, Pops, Next1, Doing, Intervals, Outputs
    <3>2. SameObserved
      BY <3>1, PopsSilent, QuietObserved
    <3> QED BY <1>0, <1>4, <3>1, <3>2, StepsPlain, PlainComplete
  <2> QED BY <1>4, <2>1, <2>2, <2>3, <2>4, <2>5 DEF PlainSteps
<1> QED BY <1>1, <1>2, <1>3, <1>4, ScriptCases

LEMMA CompleteStep ==
    ASSUME Base, Account, InSequence, Ending, Silent, Homeless, Complete, [Next]_vars
    PROVE  Complete' /\ Homeless'
<1>0. TypeOK
  BY DEF Base
<1>1. ASSUME UNCHANGED <<tape, files, output>> PROVE SameObserved /\ Intervals' = Intervals
  BY <1>1, StaysObserved DEF Intervals
<1>2. ASSUME Plainly, Recorded1, UNCHANGED <<tape, files, output>> PROVE Complete' /\ Homeless'
  BY <1>0, <1>1, <1>2, PlainComplete
<1>3. CASE UNCHANGED vars
  BY <1>2, <1>3, SameKeeps DEF vars, Plainly, Recorded1
<1>4. CASE Updated \/ FinishPublication
  <2>1. Along /\ UNCHANGED <<tape, output>>
    BY <1>0, <1>4, UpdatedAlong, UpdatedTurns DEF Turn
  <2>2. DOMAIN files' = DOMAIN files /\ \A f \in DOMAIN files : files'[f].retained = files[f].retained
    <3>1. CASE FinishPublication
      BY <1>0, <3>1, AlteredSame
    <3>2. CASE Updated
      <4>1. UNCHANGED files
        BY <3>2 DEF Updated, Lock, OperationFails, Operate, Unlock, Publish, WriteFails, PublishFails
      <4> QED BY <4>1
    <3> QED BY <1>4, <3>1, <3>2
  <2> QED BY <1>0, <2>1, <2>2, AlongComplete
<1>5. CASE Filed
  <2>1. Recorded1 /\ Keeps /\ UNCHANGED <<tape, output>>
    BY <1>0, <1>5, FiledRest, SameKeeps DEF Recorded1
  <2>2. SameObserved
    BY <1>0, <1>5, <2>1, AlteredSame, StaysObserved
  <2>3. Intervals' = Intervals
    BY <2>1 DEF Intervals
  <2> QED BY <2>1, <2>2, <2>3, KeepsComplete
<1>6. CASE Reported
  BY <1>0, <1>2, <1>6, ReportedPlain, ReportedRest DEF Recorded1
<1>7. CASE Sent
  BY <1>0, <1>2, <1>7, SentPlain, SentRest DEF Recorded1
<1>8. CASE Told1
  BY <1>0, <1>2, <1>8, Told1Rest DEF Recorded1, Plainly
<1>9. CASE Planned
  <2>1. UNCHANGED <<queue, update, journal, files, output>> /\ Keeps /\ Recorded1
    BY <1>9, PlannedRest, SameKeeps DEF Recorded1
  <2>2. CASE tape' = tape
    BY <1>2, <2>1, <2>2 DEF Plainly
  <2>3. CASE tape' # tape
    <3>1. tape = <<>> /\ Fits(tape')
      BY <1>9, <2>3, AcquireBase, WorkerEndsBase, RetireBase, FinishRecordingBase, CellEndsBase,
         TextBase, EnterCellBase
         DEF Planned, Acquire, WorkerEnds, Retire, FinishRecording, CellEnds, Text, EnterCell, TapeFree
    <3>2. ~Doing("Text")
      BY <3>1 DEF Doing
    <3>3. ~Doing("Text")'
      <4>1. \A s : s \in Seq(Steps) /\ s # <<>> => Head(s).do \in Kinds(s)
        BY DEF Kinds
      <4> QED BY <3>1, <4>1 DEF Fits, Doing
    <3>4. SameObserved
      BY <2>1, <3>2, <3>3, QuietObserved
    <3>5. Intervals' = Intervals
      BY <2>1 DEF Intervals
    <3> QED BY <2>1, <3>4, <3>5, KeepsComplete
  <2> QED BY <2>2, <2>3
<1>10. CASE ScriptSteps
  BY <1>10, ScriptComplete
<1>11. CASE Delivered
  <2>1. PICK f \in DOMAIN files : DeliverReceipt(f)
    BY <1>11 DEF Delivered
  <2>2. /\ f \in output.receipts /\ PublishesReceipt(f) /\ UNCHANGED <<files, tape>> /\ Recorded1
        /\ Sums(f)
    BY <1>11, <2>1, DeliveredRest DEF DeliverReceipt, Recorded1, Sums, PublishesReceipt
  <2>3. \A g \in DOMAIN files \ {f} : g \in Intervals => g \in Intervals'
    BY <2>2, ReceiptOwner DEF Intervals
  <2>4. SameObserved
    BY <2>2, StaysObserved
  <2> QED BY <1>0, <2>2, <2>3, <2>4, SumsComplete
<1> QED BY <1>3, <1>4, <1>5, <1>6, <1>7, <1>8, <1>9, <1>10, <1>11, NextCases

LEMMA InitComplete == ASSUME Init PROVE Complete /\ Homeless
<1>1. Everything = {} /\ queue.observed = 0 /\ DOMAIN files = {}
  BY NoneSet DEF Init, Everything, Way, NoUpdate
<1>2. Homeless
  BY <1>1, HomelessIs
<1>3. \A k \in 1..0 : FALSE
  OBVIOUS
<1> QED BY <1>1, <1>2, <1>3, CompleteIs

(***************************************************************************)
(* The recording is in order and misses nothing.                           *)
(***************************************************************************)
LEMMA Three ==
    ASSUME NEW S, NEW s, NEW t, NEW u, s \in Seq(S), t \in Seq(S), u \in Seq(S)
    PROVE  /\ Len(s) \in Nat /\ Len(t) \in Nat /\ Len(u) \in Nat
           /\ DOMAIN (s \o t \o u) = 1..(Len(s) + Len(t) + Len(u))
           /\ \A m \in 1..Len(s) : (s \o t \o u)[m] = s[m]
           /\ \A m \in 1..Len(t) : (s \o t \o u)[Len(s) + m] = t[m]
           /\ \A m \in 1..Len(u) : (s \o t \o u)[Len(s) + Len(t) + m] = u[m]
<1> DEFINE r == s \o t
<1>1. /\ r \in Seq(S) /\ Len(s) \in Nat /\ Len(t) \in Nat /\ Len(r) = Len(s) + Len(t)
      /\ \A m \in 1..Len(s) : r[m] = s[m]
      /\ \A m \in 1..Len(t) : r[Len(s) + m] = t[m]
  BY ONLY s \in Seq(S), t \in Seq(S), Chained
<1> HIDE DEF r
<1>2. /\ r \o u \in Seq(S) /\ Len(u) \in Nat /\ Len(r \o u) = Len(r) + Len(u)
      /\ \A m \in 1..Len(r) : (r \o u)[m] = r[m]
      /\ \A m \in 1..Len(u) : (r \o u)[Len(r) + m] = u[m]
  <2>1. r \in Seq(S)
    BY <1>1
  <2> QED BY ONLY <2>1, u \in Seq(S), Chained
<1>3. PICK v : v = r \o u
  OBVIOUS
<1>4. DOMAIN v = 1..Len(v)
  BY <1>2, <1>3
<1>5. \A m \in 1..Len(s) : m \in 1..Len(r)
  BY <1>1
<1>6. \A m \in 1..Len(t) : Len(s) + m \in 1..Len(r)
  BY <1>1
<1>7. /\ DOMAIN v = 1..(Len(s) + Len(t) + Len(u))
      /\ \A m \in 1..Len(s) : v[m] = s[m]
      /\ \A m \in 1..Len(t) : v[Len(s) + m] = t[m]
      /\ \A m \in 1..Len(u) : v[Len(s) + Len(t) + m] = u[m]
  BY ONLY <1>1, <1>2, <1>3, <1>4, <1>5, <1>6
<1>8. s \o t \o u = v
  BY <1>3 DEF r
<1> QED BY <1>1, <1>2, <1>7, <1>8

(* Where an element of the three is.                                       *)
Placing(v, s, t, u, i) ==
    \/ i \in 1..Len(s) /\ v[i] = s[i]
    \/ i - Len(s) \in 1..Len(t) /\ v[i] = t[i - Len(s)]
    \/ i - Len(s) - Len(t) \in 1..Len(u) /\ v[i] = u[i - Len(s) - Len(t)]
LEMMA ThreeAt ==
    ASSUME NEW S, NEW s, NEW t, NEW u, s \in Seq(S), t \in Seq(S), u \in Seq(S)
    PROVE  \A i \in DOMAIN (s \o t \o u) : i \in Nat /\ Placing(s \o t \o u, s, t, u, i)
<1>1. PICK v : v = s \o t \o u
  OBVIOUS
<1>2. /\ Len(s) \in Nat /\ Len(t) \in Nat /\ Len(u) \in Nat
      /\ DOMAIN v = 1..(Len(s) + Len(t) + Len(u))
      /\ \A m \in 1..Len(s) : v[m] = s[m]
      /\ \A m \in 1..Len(t) : v[Len(s) + m] = t[m]
      /\ \A m \in 1..Len(u) : v[Len(s) + Len(t) + m] = u[m]
  BY <1>1, Three
<1>3. ASSUME NEW i \in DOMAIN v PROVE i \in Nat /\ Placing(v, s, t, u, i)
  <2>0. i \in Nat /\ i >= 1 /\ i <= Len(s) + Len(t) + Len(u)
    BY <1>2, <1>3
  <2>1. CASE i <= Len(s)
    BY <1>2, <2>0, <2>1 DEF Placing
  <2>2. CASE ~(i <= Len(s)) /\ i <= Len(s) + Len(t)
    <3>1. i - Len(s) \in 1..Len(t) /\ Len(s) + (i - Len(s)) = i
      BY <1>2, <2>0, <2>2
    <3>2. v[Len(s) + (i - Len(s))] = t[i - Len(s)]
      BY <1>2, <3>1
    <3> QED BY <2>0, <3>1, <3>2 DEF Placing
  <2>3. CASE ~(i <= Len(s) + Len(t))
    <3>1. i - Len(s) - Len(t) \in 1..Len(u) /\ Len(s) + Len(t) + (i - Len(s) - Len(t)) = i
      BY <1>2, <2>0, <2>3
    <3>2. v[Len(s) + Len(t) + (i - Len(s) - Len(t))] = u[i - Len(s) - Len(t)]
      BY <1>2, <3>1
    <3> QED BY <2>0, <3>1, <3>2 DEF Placing
  <2> QED BY <1>2, <2>0, <2>1, <2>2, <2>3
<1> QED BY <1>1, <1>3

LEMMA InSet == ASSUME NEW s, NEW i \in DOMAIN s PROVE s[i] \in ToSet(s)
BY DEF ToSet
LEMMA AtSet == ASSUME NEW s, NEW e \in ToSet(s) PROVE \E i \in DOMAIN s : s[i] = e
BY DEF ToSet
LEMMA ThreeSet ==
    ASSUME NEW S, NEW s, NEW t, NEW u, s \in Seq(S), t \in Seq(S), u \in Seq(S)
    PROVE  ToSet(s \o t \o u) = ToSet(s) \cup ToSet(t) \cup ToSet(u)
<1>0. /\ DOMAIN s = 1..Len(s) /\ DOMAIN t = 1..Len(t) /\ DOMAIN u = 1..Len(u)
  OBVIOUS
<1>1. PICK v : v = s \o t \o u
  OBVIOUS
<1>2. /\ Len(s) \in Nat /\ Len(t) \in Nat /\ Len(u) \in Nat
      /\ DOMAIN v = 1..(Len(s) + Len(t) + Len(u))
      /\ \A m \in 1..Len(s) : v[m] = s[m]
      /\ \A m \in 1..Len(t) : v[Len(s) + m] = t[m]
      /\ \A m \in 1..Len(u) : v[Len(s) + Len(t) + m] = u[m]
  BY <1>1, Three
<1>3. \A i \in DOMAIN v : Placing(v, s, t, u, i)
  BY <1>1, ThreeAt
<1>4. \A i \in DOMAIN v : v[i] \in ToSet(s) \cup ToSet(t) \cup ToSet(u)
  BY <1>0, <1>3, InSet DEF Placing
<1>5. ASSUME NEW e \in ToSet(s) \cup ToSet(t) \cup ToSet(u) PROVE \E i \in DOMAIN v : v[i] = e
  <2>1. CASE e \in ToSet(s)
    <3>1. PICK m \in 1..Len(s) : s[m] = e
      BY <1>0, <2>1, AtSet
    <3>2. m \in DOMAIN v /\ v[m] = e
      BY <1>2, <3>1
    <3> QED BY <3>2
  <2>2. CASE e \in ToSet(t)
    <3>1. PICK m \in 1..Len(t) : t[m] = e
      BY <1>0, <2>2, AtSet
    <3>2. Len(s) + m \in DOMAIN v /\ v[Len(s) + m] = e
      BY <1>2, <3>1
    <3> QED BY <3>2
  <2>3. CASE e \in ToSet(u)
    <3>1. PICK m \in 1..Len(u) : u[m] = e
      BY <1>0, <2>3, AtSet
    <3>2. Len(s) + Len(t) + m \in DOMAIN v /\ v[Len(s) + Len(t) + m] = e
      BY <1>2, <3>1
    <3> QED BY <3>2
  <2> QED BY <2>1, <2>2, <2>3
<1>6. ToSet(v) = ToSet(s) \cup ToSet(t) \cup ToSet(u)
  BY <1>4, <1>5 DEF ToSet
<1> QED BY <1>1, <1>6

LEMMA ThreePlaced ==
    ASSUME NEW s, NEW t, NEW u, s \in Seq(Entries), t \in Seq(Entries), u \in Seq(Entries),
           Placed(s), Rising(t), Rising(u),
           \A d \in ToSet(s), e \in ToSet(t) \cup ToSet(u) : d.at < e.at,
           \A d \in ToSet(t), e \in ToSet(u) : d.at < e.at
    PROVE  Placed(s \o t \o u)
<1>0. /\ DOMAIN s = 1..Len(s) /\ DOMAIN t = 1..Len(t) /\ DOMAIN u = 1..Len(u)
      /\ Len(s) \in Nat /\ Len(t) \in Nat /\ Len(u) \in Nat
  OBVIOUS
<1>1. PICK v : v = s \o t \o u
  OBVIOUS
<1>2. \A i \in DOMAIN v : i \in Nat /\ Placing(v, s, t, u, i)
  BY <1>1, ThreeAt
<1>3. ASSUME NEW i \in DOMAIN v, NEW k \in DOMAIN v, i < k, v[k].at # 0 PROVE v[i].at < v[k].at
  <2> DEFINE a == i - Len(s)
             b == k - Len(s)
             x == i - Len(s) - Len(t)
             y == k - Len(s) - Len(t)
  <2>0. /\ i \in Nat /\ k \in Nat
        /\ \/ i \in 1..Len(s) /\ v[i] = s[i]
           \/ a \in 1..Len(t) /\ v[i] = t[a]
           \/ x \in 1..Len(u) /\ v[i] = u[x]
        /\ \/ k \in 1..Len(s) /\ v[k] = s[k]
           \/ b \in 1..Len(t) /\ v[k] = t[b]
           \/ y \in 1..Len(u) /\ v[k] = u[y]
    BY <1>2 DEF Placing
  <2>1. a < b /\ x < y
    BY <1>0, <1>3, <2>0
  <2>2. a \in 1..Len(t) => i \notin 1..Len(s) /\ k \notin 1..Len(s)
    BY <1>0, <1>3, <2>0
  <2>3. x \in 1..Len(u) => i \notin 1..Len(s) /\ k \notin 1..Len(s) /\ b \notin 1..Len(t)
    BY <1>0, <1>3, <2>0
  <2> HIDE DEF a, b, x, y
  <2>4. CASE i \in 1..Len(s) /\ v[i] = s[i]
    <3>1. v[i] \in ToSet(s)
      BY <1>0, <2>4, InSet
    <3>2. CASE k \in 1..Len(s) /\ v[k] = s[k]
      BY <1>0, <1>3, <2>4, <3>2 DEF Placed
    <3>3. CASE b \in 1..Len(t) /\ v[k] = t[b]
      BY <1>0, <3>1, <3>3, InSet
    <3>4. CASE y \in 1..Len(u) /\ v[k] = u[y]
      BY <1>0, <3>1, <3>4, InSet
    <3> QED BY <2>0, <3>2, <3>3, <3>4
  <2>5. CASE a \in 1..Len(t) /\ v[i] = t[a]
    <3>1. CASE b \in 1..Len(t) /\ v[k] = t[b]
      BY <1>0, <2>1, <2>5, <3>1 DEF Rising
    <3>2. CASE y \in 1..Len(u) /\ v[k] = u[y]
      BY <1>0, <2>5, <3>2, InSet
    <3> QED BY <2>0, <2>2, <2>5, <3>1, <3>2
  <2>6. CASE x \in 1..Len(u) /\ v[i] = u[x]
    <3>1. y \in 1..Len(u) /\ v[k] = u[y]
      BY <2>0, <2>3, <2>6
    <3> QED BY <1>0, <2>1, <2>6, <3>1 DEF Rising
  <2> QED BY <2>0, <2>4, <2>5, <2>6
<1> QED BY <1>1, <1>3 DEF Placed

(* From the sets of the invariant to the sequence of the property.         *)
LEMMA KeptIs ==
    ASSUME TypeOK, InSequence
    PROVE  /\ ToSet(Kept) = Everything /\ Placed(Kept)
           /\ \A i \in DOMAIN Kept : i \in Nat /\ Kept[i].at \in Nat
<1>1. /\ journal.entries \in Seq(Entries) /\ update.batch \in Seq(Entries)
      /\ queue.pending \in Seq(Entries)
  <2>1. \A s \in Seq(Queued) : s \in Seq(Entries)
    BY QueuedIsEntry
  <2> QED BY <2>1, WayType, Apart DEF Journals
<1>2. PICK s, t, u : s = journal.entries /\ t = update.batch /\ u = queue.pending
  OBVIOUS
<1>3. s \in Seq(Entries) /\ t \in Seq(Entries) /\ u \in Seq(Entries)
  BY <1>1, <1>2
<1>4. Kept = s \o t \o u /\ Everything = ToSet(s) \cup ToSet(t) \cup ToSet(u)
  BY <1>2 DEF Kept, Everything, Way
<1>5. /\ Placed(s) /\ Rising(t) /\ Rising(u)
      /\ \A d \in ToSet(s), e \in ToSet(t) \cup ToSet(u) : d.at < e.at
      /\ \A d \in ToSet(t), e \in ToSet(u) : d.at < e.at
  BY <1>2 DEF InSequence, Line, Way
<1>6. Placed(s \o t \o u)
  BY ONLY <1>3, <1>5, ThreePlaced
<1>7. ToSet(s \o t \o u) = ToSet(s) \cup ToSet(t) \cup ToSet(u)
  BY ONLY <1>3, ThreeSet
<1>8. \A i \in DOMAIN (s \o t \o u) : i \in Nat
  BY ONLY <1>3, ThreeAt
<1>9. \A e \in Everything : e.at \in Nat
  BY EverythingType DEF Entries, Events
<1> QED BY <1>4, <1>6, <1>7, <1>8, <1>9, InSet

LEMMA KeptInOrder == ASSUME Base, InSequence, Complete PROVE InOrder
<1>0. TypeOK
  BY DEF Base
<1>1. PICK v : v = Kept
  OBVIOUS
<1>2. ToSet(v) = Everything /\ Placed(v) /\ \A i \in DOMAIN v : i \in Nat /\ v[i].at \in Nat
  BY <1>0, <1>1, KeptIs
<1>3. \A i \in DOMAIN v : v[i] \in Everything
  BY <1>2, InSet
<1>4. \A e \in Everything : \E i \in DOMAIN v : v[i] = e
  BY <1>2, AtSet
<1>5. Ordered(v)
  <2>1. \A i \in DOMAIN v : \A k \in 1..(i - 1) : k \in DOMAIN v /\ k < i
    <3>1. v \in Seq(Entries)
      <4>1. \A s \in Seq(Queued) : s \in Seq(Entries)
        BY QueuedIsEntry
      <4>2. journal.entries \in Seq(Entries) /\ update.batch \in Seq(Entries) /\ queue.pending \in Seq(Entries)
        BY <1>0, <4>1, WayType, Apart DEF Journals
      <4>3. PICK s, t, u : s = journal.entries /\ t = update.batch /\ u = queue.pending
        OBVIOUS
      <4>4. s \in Seq(Entries) /\ t \in Seq(Entries) /\ u \in Seq(Entries)
        BY <4>2, <4>3
      <4>5. s \o t \in Seq(Entries)
        BY ONLY <4>4, Chained
      <4>6. PICK r : r = s \o t
        OBVIOUS
      <4>7. r \in Seq(Entries)
        BY ONLY <4>5, <4>6
      <4>8. r \o u \in Seq(Entries)
        BY ONLY <4>4, <4>7, Chained
      <4> QED BY <1>1, <4>3, <4>6, <4>8 DEF Kept
    <3>2. DOMAIN v = 1..Len(v) /\ Len(v) \in Nat
      BY ONLY <3>1
    <3> QED BY <3>2
  <2> QED BY <1>2, <2>1 DEF Ordered, Placed
<1>6. NoneMissing(v)
  <2>1. ASSUME ~Failed, NEW k \in 1..queue.observed
        PROVE  k \in {v[i].at : i \in DOMAIN v} \cup journal.ignored
    BY <1>4, <2>1, CompleteIs
  <2> QED BY <2>1 DEF NoneMissing
<1>7. TextTold(v)
  <2>1. ASSUME ~Failed, ~Doing("Text"), NEW f \in DOMAIN files
        PROVE  Tiles(v, Texts(v, f), files[f].retained)
    <3>1. Told(Everything, f, files[f].retained)
      <4>1. Observed(f) = files[f].retained
        BY <2>1 DEF Observed
      <4> QED BY <2>1, <4>1, CompleteIs
    <3>2. \A e \in Everything : e.kind = "OutputText" => e.at # 0
      BY DEF InSequence, Line, Everything
    <3>3. \A i \in Texts(v, f) : i \in DOMAIN v /\ v[i] \in TextIn(Everything, f) /\ v[i].at # 0
      BY <1>3, <3>2 DEF Texts, TextIn
    <3>4. ASSUME NEW i \in Texts(v, f), NEW k \in Texts(v, f), i < k PROVE v[i].to <= v[k].from
      <4>1. v[i].at < v[k].at
        BY <1>2, <3>3, <3>4 DEF Placed
      <4> QED BY <3>1, <3>3, <4>1 DEF Told
    <3>5. ASSUME NEW b \in 0..(files[f].retained - 1)
          PROVE  \E i \in Texts(v, f) : v[i].from <= b /\ b < v[i].to
      <4>1. PICK e \in TextIn(Everything, f) : e.from <= b /\ b < e.to
        BY <3>1 DEF Told
      <4>2. PICK i \in DOMAIN v : v[i] = e
        BY <1>4, <4>1 DEF TextIn
      <4>3. i \in Texts(v, f)
        BY <4>1, <4>2 DEF TextIn, Texts
      <4> QED BY <4>1, <4>2, <4>3
    <3> QED BY <3>1, <3>3, <3>4, <3>5 DEF Tiles, Told
  <2> QED BY <2>1 DEF TextTold
<1> QED BY <1>1, <1>5, <1>6, <1>7 DEF InOrder

(* The journal, its batch and its queue have the observed events in the    *)
(* order of their observation, and a recording that did not fail misses    *)
(* none of them, the bytes of every output file included, although every   *)
(* update flushes the queue, any thread may be the one that does, and the  *)
(* queue merges (flush_protocol, update and observe).                      *)
THEOREM RecordingInOrder == Spec => []InOrder
<1> DEFINE Inv == Base /\ Account /\ InSequence /\ Ending /\ Silent /\ Complete /\ Homeless
<1>1. Init => Inv
  BY InitBase, InitAccount, InitInSequence, InitEnding, InitSilent, InitComplete
<1>2. Inv /\ [Next]_vars => Inv'
  <2>1. SUFFICES ASSUME Inv, [Next]_vars PROVE Inv'
    OBVIOUS
  <2>2. Base' /\ Account' /\ InSequence' /\ Ending' /\ Complete' /\ Homeless'
    BY <2>1, BaseStep, AccountStep, InSequenceStep, EndingStep, CompleteStep
  <2>3. Silent'
    BY <2>1, <2>2, SilentStep DEF Account
  <2> QED BY <2>2, <2>3
<1>3. Inv => InOrder
  BY KeptInOrder
<1> HIDE DEF Inv
<1> QED BY <1>1, <1>2, <1>3, PTL DEF Spec

(***************************************************************************)
(* Publication moves every file, with all its bytes.                       *)
(***************************************************************************)
SamePlace == journal'.published = journal.published /\ journal'.directory = journal.directory
InPlace(j) == j \in Journals /\ j.published = journal.published /\ j.directory = journal.directory
LEMMA CompletesPlace ==
    ASSUME NEW by, NEW j \in Journals, NEW q, Completes(by, j, q)
    PROVE  journal'.published = j.published /\ journal'.directory = j.directory
<1>1. journal' = j \/ journal' = [j EXCEPT !.failure = q.failure]
  BY DEF Completes, Fails
<1> QED BY <1>1 DEF Journals
LEMMA OperatesPlace ==
    ASSUME TypeOK, NEW by \in Updaters, NEW j, InPlace(j), NEW q, Operates(by, j, q)
    PROVE  SamePlace
<1> DEFINE s == Operation(by, j)
           k == RecordAll(j, s)
<1>1. s \in Seq(Entries)
  BY OperationType DEF InPlace
<1>2. Completes(by, k, q)
  BY DEF Operates
<1> HIDE DEF s
<1>3. k \in Journals /\ k.published = j.published /\ k.directory = j.directory
  BY <1>1, RecordAllType DEF InPlace
<1> HIDE DEF k
<1> QED BY <1>2, <1>3, CompletesPlace DEF SamePlace, InPlace
LEMMA BatchPlace ==
    ASSUME TypeOK
    PROVE  /\ InPlace(journal) /\ InPlace(RecordAll(journal, update.batch))
           /\ \A n \in 0..Len(update.batch) : InPlace(RecordAll(journal, SubSeq(update.batch, 1, n)))
<1>1. update.batch \in Seq(Entries)
  <2>1. \A s \in Seq(Queued) : s \in Seq(Entries)
    BY QueuedIsEntry
  <2> QED BY <2>1, WayType
<1> QED BY <1>1, Apart, BatchType, RecordAllType DEF InPlace
LEMMA UpdatedPlace == ASSUME TypeOK, Account, Updated PROVE SamePlace /\ UNCHANGED files
<1>0. UNCHANGED files
  BY DEF Updated, Lock, OperationFails, Operate, Unlock, Publish, WriteFails, PublishFails
<1>1. ASSUME NEW by \in Updaters, Lock(by) PROVE SamePlace
  <2> DEFINE i == [journal EXCEPT !.failure = IF @ = "None" THEN queue.failure ELSE @]
  <2>1. i.published = journal.published /\ i.directory = journal.directory
    BY BatchPlace DEF InPlace, Journals
  <2>2. Fails(by, i, queue) \/ Operates(by, journal, queue) \/ UNCHANGED journal
    BY <1>1 DEF Lock
  <2> HIDE DEF i
  <2> QED BY <2>1, <2>2, BatchPlace, OperatesPlace DEF Fails, SamePlace
<1>2. ASSUME NEW j, InPlace(j) PROVE InPlace(Broken(j)) /\ InPlace(Created(j))
  BY <1>2, BrokenType, CreatedType DEF InPlace
<1>3. ASSUME NEW by \in Updaters, OperationFails(by) PROVE SamePlace
  BY <1>2, <1>3, BatchPlace DEF OperationFails, Fails, SamePlace, InPlace
<1>4. CASE Operate
  <2>1. update.by \in Updaters
    BY <1>4 DEF Operate, Account, Updating
  <2> QED BY <1>4, <2>1, BatchPlace, OperatesPlace DEF Operate
<1>5. CASE Unlock
  BY <1>5, BatchPlace DEF Unlock, Fails, SamePlace, InPlace
<1>6. CASE Publish
  BY <1>2, <1>6, BatchPlace DEF Publish, Fails, SamePlace, InPlace
<1>7. CASE WriteFails
  <2>1. PICK n \in 0..Len(update.batch) :
           Fails(update.by, Broken(RecordAll(journal, SubSeq(update.batch, 1, n))), Uncounted)
    BY <1>7 DEF WriteFails
  <2>2. InPlace(RecordAll(journal, SubSeq(update.batch, 1, n)))
    BY BatchPlace
  <2>3. InPlace(Broken(RecordAll(journal, SubSeq(update.batch, 1, n))))
    BY <1>2, <2>2
  <2> QED BY <1>0, <2>1, <2>3 DEF Fails, SamePlace, InPlace
<1>8. CASE PublishFails
  BY <1>2, <1>8, BatchPlace DEF PublishFails, Fails, SamePlace, InPlace
<1> QED BY <1>0, <1>1, <1>3, <1>4, <1>5, <1>6, <1>7, <1>8 DEF Updated

(* The file f of the map m is whole in the directory d.                    *)
Whole(m, f, d) ==
    /\ m[f][m[f].at] = m[f].retained
    /\ m[f].at = "temporary" => m[f].public = -1
    /\ d = "public" => m[f].at = "public"
LEMMA PublishedIs ==
    Published <=> /\ journal.published => journal.directory = "public"
                  /\ \A f \in DOMAIN files : Whole(files, f, journal.directory)
BY DEF Published, Whole
LEMMA SameFilesPublished ==
    ASSUME Published, SamePlace, DOMAIN files' = DOMAIN files,
           \A f \in DOMAIN files : Whole(files', f, journal.directory)
    PROVE  Published'
BY PublishedIs DEF SamePlace, Published, Whole

LEMMA FiledPublished == ASSUME TypeOK, Published, Filed \/ FinishPublication PROVE Published'
<1>0. /\ \A g \in DOMAIN files : files[g] \in File
      /\ journal \in Journals
      /\ journal.published => journal.directory = "public"
      /\ \A f \in DOMAIN files : Whole(files, f, journal.directory)
  BY Apart, FileMapsApart, PublishedIs
<1>1. CASE CopyRest
  <2>1. files' = [f \in DOMAIN files |->
                    [files[f] EXCEPT !.public = IF @ = -1 THEN files[f].temporary ELSE @,
                                     !.at = "public"]]
        /\ journal' = [journal EXCEPT !.directory = "public"]
    BY <1>1 DEF CopyRest, Copied
  <2>2. ASSUME NEW f \in DOMAIN files PROVE Whole(files', f, "public")
    <3>1. /\ files'[f].at = "public" /\ files'[f].retained = files[f].retained
          /\ files'[f].public = IF files[f].public = -1 THEN files[f].temporary ELSE files[f].public
      BY <1>0, <2>1, <2>2 DEF File
    <3>2. files[f].at \in {"temporary", "public"} /\ files[f].retained \in Nat
      BY <1>0 DEF File
    <3>3. files[f].at = "public" => files[f].public = files[f].retained
      BY <1>0 DEF Whole
    <3>4. files[f].at = "temporary" => files[f].public = -1 /\ files[f].temporary = files[f].retained
      BY <1>0 DEF Whole
    <3>5. files'[f].public = files[f].retained
      BY <3>1, <3>2, <3>3, <3>4
    <3> QED BY <3>1, <3>5 DEF Whole
  <2>3. DOMAIN files' = DOMAIN files /\ journal'.directory = "public"
    BY <1>0, <2>1 DEF Journals
  <2> QED BY <2>2, <2>3 DEF Published, Whole
<1>2. ASSUME NEW f \in DOMAIN files, Relocate(f) PROVE Published'
  <2>1. /\ files' = [files EXCEPT ![f].public = files[f].temporary, ![f].at = "public"]
        /\ UNCHANGED journal /\ files[f].at = "temporary"
    BY <1>2 DEF Relocate
  <2>2. DOMAIN files' = DOMAIN files /\ SamePlace
    BY <2>1 DEF SamePlace
  <2>3. ASSUME NEW g \in DOMAIN files PROVE Whole(files', g, journal.directory)
    <3>1. CASE g = f
      <4>1. files'[f].public = files[f].temporary /\ files'[f].at = "public"
            /\ files'[f].retained = files[f].retained
        BY <1>0, <2>1 DEF File
      <4> QED BY <1>0, <2>1, <3>1, <4>1 DEF Whole
    <3>2. CASE g # f
      <4>1. files'[g] = files[g]
        BY <2>1, <3>2
      <4> QED BY <1>0, <4>1 DEF Whole
    <3> QED BY <3>1, <3>2
  <2> QED BY <2>2, <2>3, SameFilesPublished
<1>3. CASE FinalizeStorage
  <2>1. files' = [f \in DOMAIN files |-> [files[f] EXCEPT !.open = FALSE]]
        /\ journal' = [journal EXCEPT !.finished = journal.created]
    BY <1>3 DEF FinalizeStorage
  <2>2. SamePlace
    BY <1>0, <2>1 DEF SamePlace, Journals
  <2>3. ASSUME NEW f \in DOMAIN files PROVE Whole(files', f, journal.directory)
    <3>1. /\ files'[f].at = files[f].at /\ files'[f].retained = files[f].retained
          /\ files'[f].public = files[f].public /\ files'[f].temporary = files[f].temporary
          /\ files[f].at \in {"temporary", "public"}
      BY <1>0, <2>1 DEF File
    <3> QED BY <1>0, <3>1 DEF Whole
  <2> QED BY <2>1, <2>2, <2>3, SameFilesPublished
<1>4. CASE FinishPublication
  <2>1. files' = [f \in DOMAIN files |-> [files[f] EXCEPT !.temporary = -1]]
        /\ journal.directory = "public"
    BY <1>4 DEF FinishPublication
  <2>2. journal'.directory = "public"
    <3> DEFINE k == [journal EXCEPT !.published = TRUE]
               e == Plain("RecordingActivated", 0)
    <3>1. k \in Journals /\ k.directory = "public"
      BY <1>0, <2>1 DEF Journals
    <3>2. e \in Entries
      BY PlainType DEF Entries, OfUpdate
    <3>3. Completes(update.by, Record(k, e), queue)
      BY <1>4 DEF FinishPublication
    <3> HIDE DEF k, e
    <3>4. Record(k, e) \in Journals /\ Record(k, e).directory = "public"
      BY <3>1, <3>2, RecordType
    <3> QED BY <3>3, <3>4, CompletesPlace
  <2>3. ASSUME NEW f \in DOMAIN files PROVE Whole(files', f, "public")
    <3>1. /\ files'[f].at = files[f].at /\ files'[f].retained = files[f].retained
          /\ files'[f].public = files[f].public
      BY <1>0, <2>1 DEF File
    <3>2. files[f].at = "public" /\ files[f].public = files[f].retained
      BY <1>0, <2>1 DEF Whole
    <3> QED BY <3>1, <3>2 DEF Whole
  <2> QED BY <2>1, <2>2, <2>3 DEF Published, Whole
<1> QED BY <1>1, <1>2, <1>3, <1>4 DEF Filed

LEMMA ScriptPublished == ASSUME Base, Published, ScriptSteps PROVE Published'
<1>0. /\ TypeOK /\ \A g \in DOMAIN files : files[g] \in File
      /\ journal \in Journals /\ UNCHANGED journal /\ SamePlace
      /\ \A f \in DOMAIN files : Whole(files, f, journal.directory)
  BY Apart, FileMapsApart, PublishedIs, ScriptStepsRest DEF Base, SamePlace
<1>1. CASE UNCHANGED files
  BY <1>0, <1>1, SameFilesPublished DEF Whole
<1>2. ASSUME NEW f \in DOMAIN files, files' = Closed(f) PROVE Published'
  <2>1. ASSUME NEW g \in DOMAIN files PROVE Whole(files', g, journal.directory)
    <3>1. /\ files'[g].at = files[g].at /\ files'[g].retained = files[g].retained
          /\ files'[g].public = files[g].public /\ files'[g].temporary = files[g].temporary
          /\ files[g].at \in {"temporary", "public"}
      BY <1>0, <1>2, ClosedType DEF File
    <3> QED BY <1>0, <3>1 DEF Whole
  <2> QED BY <1>0, <1>2, <2>1, ClosedType, SameFilesPublished
<1>3. CASE CloseIdle
  <2>1. To("CloseIdle")
    BY <1>0, <1>3, DoingTo DEF CloseIdle
  <2>2. PICK f : f = output.idle
    OBVIOUS
  <2>3. f \in DOMAIN files /\ files' = Closed(f)
    BY <1>3, <2>1, <2>2 DEF Base, Scripted, HasFiles, CloseIdle
  <2> QED BY <1>2, <2>3
<1>4. CASE CloseCell
  <2>1. PICK f : f = output.cell
    OBVIOUS
  <2>2. UNCHANGED files \/ (f \in DOMAIN files /\ files' = Closed(f))
    BY <1>4, <2>1 DEF Base, HasFiles, CloseCell
  <2> QED BY <1>1, <1>2, <2>2
<1>5. ASSUME NEW do, NEW field, CreateFile(do, field) PROVE Published'
  <2>1. CASE UNCHANGED files
    BY <1>1, <2>1
  <2>2. CASE ~UNCHANGED files
    <3>1. PICK g : g = queue.owner
      OBVIOUS
    <3>2. g \notin DOMAIN files /\ files' = [h \in DOMAIN files \cup {g} |-> IF h = g THEN NewFile ELSE files[h]]
      BY <1>5, <2>2, <3>1 DEF CreateFile, Create
    <3>3. /\ NewFile.retained = 0 /\ NewFile.at = journal.directory
          /\ NewFile.temporary = IF journal.directory = "temporary" THEN 0 ELSE -1
          /\ NewFile.public = IF journal.directory = "public" THEN 0 ELSE -1
          /\ journal.directory \in {"temporary", "public"}
      BY <1>0 DEF NewFile, NoFile, Journals
    <3>4. ASSUME NEW f \in DOMAIN files' PROVE Whole(files', f, journal.directory)
      <4>1. CASE f = g
        <5>1. files'[f] = NewFile
          BY <3>2, <4>1
        <5> QED BY <3>3, <5>1 DEF Whole
      <4>2. CASE f # g
        <5>1. f \in DOMAIN files /\ files'[f] = files[f]
          BY <3>2, <4>2
        <5> QED BY <1>0, <5>1 DEF Whole
      <4> QED BY <4>1, <4>2
    <3> QED BY <1>0, <3>4, PublishedIs DEF Published, Whole
  <2> QED BY <2>1, <2>2
<1>6. CASE Write
  <2>1. ASSUME NEW f \in DOMAIN files, NEW n \in 0..1, Grows(files', f, n) PROVE Published'
    <3>1. ASSUME NEW g \in DOMAIN files PROVE Whole(files', g, journal.directory)
      <4>1. CASE g = f
        <5>1. /\ files'[f].at = files[f].at /\ files'[f].retained = files[f].retained + n
              /\ files[f].at \in {"temporary", "public"}
          BY <1>0, <2>1 DEF Grows, File
        <5>2. CASE files[f].at = "temporary"
          <6>1. files'[f].temporary = files[f].temporary + n /\ files'[f].public = files[f].public
            BY <2>1, <5>2 DEF Grows
          <6> QED BY <1>0, <4>1, <5>1, <5>2, <6>1 DEF Whole
        <5>3. CASE files[f].at = "public"
          <6>1. files'[f].public = files[f].public + n
            BY <2>1, <5>3 DEF Grows
          <6> QED BY <1>0, <4>1, <5>1, <5>3, <6>1 DEF Whole
        <5> QED BY <5>1, <5>2, <5>3
      <4>2. CASE g # f
        <5>1. /\ files'[g].at = files[g].at /\ files'[g].retained = files[g].retained
              /\ files'[g].public = files[g].public /\ files'[g].temporary = files[g].temporary
              /\ files[g].at \in {"temporary", "public"}
          BY <1>0, <2>1, <4>2 DEF Grows, File
        <5> QED BY <1>0, <5>1 DEF Whole
      <4> QED BY <4>1, <4>2
    <3> QED BY <1>0, <2>1, <3>1, SameFilesPublished DEF Grows
  <2> QED BY <1>1, <1>6, <2>1, WriteDoes DEF Writes
<1> QED BY <1>1, <1>3, <1>4, <1>5, <1>6 DEF ScriptSteps, PublishCell, PublishReceipts, StartCell, EndCell,
           TextEvent, UnownedText, WorkerStarted, WorkerEnded, WorkerRetired

LEMMA PublishedStep == ASSUME Base, Account, Published, [Next]_vars PROVE Published'
<1>0. TypeOK
  BY DEF Base
<1>1. ASSUME UNCHANGED files, SamePlace PROVE Published'
  BY <1>1, PublishedIs, SameFilesPublished DEF Whole
<1>2. CASE UNCHANGED vars
  BY <1>1, <1>2 DEF vars, SamePlace
<1>3. CASE Updated
  BY <1>0, <1>1, <1>3, UpdatedPlace
<1>4. CASE Filed \/ FinishPublication
  BY <1>0, <1>4, FiledPublished
<1>5. CASE Reported \/ Sent \/ Told1 \/ Planned \/ Delivered
  BY <1>0, <1>1, <1>5, ReportedRest, SentRest, Told1Rest, PlannedRest, DeliveredRest DEF SamePlace
<1>6. CASE ScriptSteps
  BY <1>6, ScriptPublished
<1> QED BY <1>2, <1>3, <1>4, <1>5, <1>6, NextCases

LEMMA InitPublished == ASSUME Init PROVE Published
BY DEF Init, Published

(***************************************************************************)
(* What an update writes.                                                  *)
(***************************************************************************)
LEMMA RecordEntries ==
    ASSUME NEW j \in Journals, NEW e \in Entries
    PROVE  /\ ToSet(j.entries) \subseteq ToSet(Record(j, e).entries)
           /\ \A d \in ToSet(Record(j, e).entries) :
                 d \in ToSet(j.entries) \/ d = e \/ d.kind = "RecordingStarted"
           /\ Record(j, e).failure = "None" =>
                 /\ j.failure = "None"
                 /\ ~j.finished /\ e.kind \in OfUpdate => e \in ToSet(Record(j, e).entries)
<1> DEFINE k == Created(j)
<1>0. k \in Journals /\ k.finished = j.finished /\ k.failure = j.failure
  BY CreatedType
<1>1. \/ k.entries = j.entries
      \/ k.entries = Append(j.entries, Opening)
  BY CreatedDoes
<1>2. /\ ToSet(j.entries) \subseteq ToSet(k.entries)
      /\ \A d \in ToSet(k.entries) : d \in ToSet(j.entries) \/ d.kind = "RecordingStarted"
  <2>1. j.entries \in Seq(Entries)
    BY DEF Journals
  <2> HIDE DEF k
  <2>2. CASE k.entries = j.entries
    BY <2>2
  <2>3. CASE k.entries = Append(j.entries, Opening)
    <3>1. Opening \in Entries /\ Opening.kind = "RecordingStarted"
      BY OpeningOwn
    <3>2. ToSet(k.entries) = ToSet(j.entries) \cup {Opening}
      BY <2>1, <2>3, <3>1, AppendedSet
    <3> QED BY <3>1, <3>2
  <2> QED BY <1>1, <2>2, <2>3
<1> HIDE DEF k
<1>3. CASE j.failure # "None"
  <2>1. Record(j, e) = j
    BY <1>3 DEF Record
  <2> QED BY <1>3, <2>1
<1>4. CASE j.failure = "None" /\ Unknown(k, e)
  <2>1. Record(j, e) = [k EXCEPT !.failure = Missing(e)] /\ Missing(e) # "None"
    BY <1>4 DEF Record, Unknown, k
  <2>2. Record(j, e).entries = k.entries /\ Record(j, e).failure # "None"
    BY <1>0, <2>1 DEF Journals
  <2> QED BY <1>2, <2>2
<1>5. CASE j.failure = "None" /\ ~Unknown(k, e)
  <2>1. Record(j, e) = Written(k, e)
    BY <1>5 DEF Record, k
  <2>2. CASE Ignores(k, e)
    <3>1. Written(k, e).entries = k.entries
      BY <1>0, <2>2, WrittenDoes
    <3>2. k.finished \/ e.kind \notin OfUpdate
      BY <2>2 DEF Ignores, OfUpdate
    <3> QED BY <1>0, <1>2, <1>5, <2>1, <3>1, <3>2
  <2>3. CASE ~Ignores(k, e)
    <3>1. Written(k, e).entries = Append(k.entries, e) /\ k.entries \in Seq(Entries)
      BY <1>0, <2>3, WrittenDoes DEF Journals
    <3>2. ToSet(Written(k, e).entries) = ToSet(k.entries) \cup {e}
      BY <3>1, AppendedSet
    <3> QED BY <1>2, <1>5, <2>1, <3>2
  <2> QED BY <2>2, <2>3
<1> QED BY <1>3, <1>4, <1>5

(* What a batch writes are observed events.                                *)
Noted(j, k) ==
    /\ ToSet(j.entries) \subseteq ToSet(k.entries)
    /\ \A d \in ToSet(k.entries) : d \in ToSet(j.entries) \/ d.kind \in OfQueue \cup Marks
LEMMA FlushEntries ==
    ASSUME NEW j \in Journals, NEW s \in Seq(Queued) PROVE Noted(j, RecordAll(j, s))
<1>0. Len(s) \in Nat /\ \A i \in 1..Len(s) : s[i] \in Queued
  OBVIOUS
<1>1. PICK after : /\ after[0] = j
                   /\ \A n \in 1..Len(s) : after[n] = Record(after[n - 1], s[n])
                   /\ RecordAll(j, s) = after[Len(s)]
  <2>1. s \in Seq(Queued)
    OBVIOUS
  <2> QED BY ONLY <2>1, RecordAllSteps
<1> DEFINE N == {n \in 0..Len(s) : after[n] \in Journals /\ Noted(j, after[n])}
<1>2. 0 \in N
  BY <1>0, <1>1 DEF Noted
<1>3. ASSUME NEW n \in 0..(Len(s) - 1), n \in N PROVE n + 1 \in N
  <2> DEFINE e == s[n + 1]
  <2>1. n + 1 \in 1..Len(s) /\ (n + 1) - 1 = n /\ n + 1 \in 0..Len(s) /\ e \in Queued
    BY <1>0
  <2>2. after[n + 1] = Record(after[n], e) /\ after[n] \in Journals /\ Noted(j, after[n])
    BY <1>1, <1>3, <2>1
  <2>3. e \in Entries /\ e.kind \in OfQueue
    BY <2>1, QueuedIsEntry DEF Queued, Events
  <2> HIDE DEF e
  <2>4. PICK k : k = after[n]
    OBVIOUS
  <2>5. Record(k, e) \in Journals /\ Noted(j, Record(k, e))
    BY <2>2, <2>3, <2>4, RecordType, RecordEntries DEF Noted, Marks
  <2> QED BY <2>1, <2>2, <2>4, <2>5
<1>4. Len(s) \in N
  <2> HIDE DEF N
  <2> QED BY <1>0, <1>2, <1>3, UpTo
<1> QED BY <1>1, <1>4

LEMMA OperatedEntries ==
    ASSUME TypeOK, NEW by \in Updaters, NEW j \in Journals, NEW k, Operated(by, j, k)
    PROVE  /\ ToSet(j.entries) \subseteq ToSet(k.entries)
           /\ \A e \in ToSet(k.entries) :
                 \/ e \in ToSet(j.entries) \/ e.kind \in OfQueue \cup Marks
                 \/ by = Finalize /\ e.kind = "RecordingEnded" /\ j.failure = "None"
                 \/ by = <<"begin", e.call>> /\ e.kind = "ToolCall"
                 \/ by = <<"finish", e.call>> /\ e.kind = "ToolResult"
           /\ k.failure = "None" /\ ~j.finished =>
                 /\ \A c \in Calls : by = <<"begin", c>> => HasEntry(k, "ToolCall", c)
                 /\ \A c \in Calls : by = <<"finish", c>> => HasEntry(k, "ToolResult", c)
<1> DEFINE c == by[2]
           E == Plain("RecordingEnded", 0)
           T == Plain("ToolCall", c)
           R == Plain("ToolResult", c)
           S == Claim(c)
<1>0. /\ by[1] \in {"begin", "finish"} => c \in Calls /\ c \in Nat
      /\ by[1] = "begin" => by = <<"begin", c>> /\ by # Finalize
      /\ by[1] = "finish" => by = <<"finish", c>> /\ by # Finalize
      /\ by = Finalize => by[1] = "finalize"
  <2>1. \/ by = Drain /\ by[1] = "drain"
        \/ by = Finalize /\ by[1] = "finalize"
        \/ by[2] \in Calls /\ (\/ by[1] = "activate" /\ by = <<"activate", by[2]>>
                               \/ by[1] = "begin" /\ by = <<"begin", by[2]>>
                               \/ by[1] = "finish" /\ by = <<"finish", by[2]>>)
    BY Who
  <2>2. Finalize[1] = "finalize"
    BY DEF Finalize
  <2> QED BY <2>1, <2>2, CallsAreNat
<1>a. \A d : /\ by = <<"begin", d>> => by[1] = "begin" /\ d = c
             /\ by = <<"finish", d>> => by[1] = "finish" /\ d = c
  OBVIOUS
<1>1. E \in Entries /\ E.kind = "RecordingEnded"
  BY PlainOwn, OwnZero DEF OfUpdate
<1>2. c \in Nat => /\ T \in Entries /\ T.kind = "ToolCall" /\ T.call = c
                   /\ R \in Entries /\ R.kind = "ToolResult" /\ R.call = c
                   /\ S \in Entries /\ S.kind = "SourceAssociated"
  BY PlainOwn, ClaimOwn, OwnZero DEF OfUpdate
<1>3. \/ k = j /\ by[1] \notin {"begin", "finish"}
      \/ by = Finalize /\ k = Record(j, E)
      \/ by[1] = "begin" /\ k = Record(j, T)
      \/ by[1] = "finish" /\ k = Record(j, R)
      \/ by[1] = "finish" /\ k = Record(Record(j, S), R)
  BY DEF Operated
<1> HIDE DEF E, T, R, S, c
<1>4. CASE k = j /\ by[1] \notin {"begin", "finish"}
  BY <1>a, <1>4
<1>5. CASE by = Finalize /\ k = Record(j, E)
  <2>1. j.failure # "None" => k = j
    BY <1>1, <1>5, RecordType
  <2> QED BY <1>0, <1>1, <1>5, <1>a, <2>1, RecordEntries DEF Marks
<1>6. CASE by[1] = "begin" /\ k = Record(j, T)
  BY <1>0, <1>2, <1>6, <1>a, RecordEntries DEF Marks, OfUpdate, HasEntry
<1>7. CASE by[1] = "finish" /\ k = Record(j, R)
  BY <1>0, <1>2, <1>7, <1>a, RecordEntries DEF Marks, OfUpdate, HasEntry
<1>8. CASE by[1] = "finish" /\ k = Record(Record(j, S), R)
  <2>1. PICK i : i = Record(j, S)
    OBVIOUS
  <2>2. /\ i \in Journals /\ i.finished = j.finished /\ ToSet(j.entries) \subseteq ToSet(i.entries)
        /\ \A e \in ToSet(i.entries) : e \in ToSet(j.entries) \/ e.kind \in OfQueue \cup Marks
    <3>1. S \in Entries /\ S.kind \in OfQueue
      BY <1>0, <1>2, <1>8 DEF OfQueue
    <3>2. "RecordingStarted" \in Marks
      BY DEF Marks
    <3> QED BY <2>1, <3>1, <3>2, RecordType, RecordEntries
  <2>3. k = Record(i, R)
    BY <1>8, <2>1
  <2>4. /\ ToSet(i.entries) \subseteq ToSet(k.entries)
        /\ \A d \in ToSet(k.entries) : d \in ToSet(i.entries) \/ d = R \/ d.kind = "RecordingStarted"
        /\ k.failure = "None" /\ ~i.finished => R \in ToSet(k.entries)
    BY <1>0, <1>2, <1>8, <2>2, <2>3, RecordEntries DEF OfUpdate
  <2> QED BY <1>0, <1>2, <1>8, <1>a, <2>2, <2>4 DEF Marks, HasEntry
<1> QED BY <1>3, <1>4, <1>5, <1>6, <1>7, <1>8

(***************************************************************************)
(* The calls of the journal, and its end.                                  *)
(***************************************************************************)
LEMMA FlushedEntries ==
    ASSUME TypeOK
    PROVE  /\ Noted(journal, Flushed) /\ Flushed \in Journals /\ journal \in Journals
           /\ Flushed.finished = journal.finished
           /\ Flushed.failure = "None" => journal.failure = "None"
           /\ \A n \in 0..Len(update.batch) :
                 Noted(journal, RecordAll(journal, SubSeq(update.batch, 1, n)))
<1>0. /\ update.batch \in Seq(Queued) /\ journal \in Journals
      /\ \A s : s \in Seq(Queued) => s \in Seq(Entries)
  BY WayType, QueuedIsEntry, Apart
<1>1. ASSUME NEW n \in 0..Len(update.batch) PROVE SubSeq(update.batch, 1, n) \in Seq(Queued)
  BY <1>0
<1>2. Flushed \in Journals /\ Flushed.finished = journal.finished
      /\ (journal.failure # "None" => Flushed = journal)
  BY <1>0, RecordAllType DEF Flushed
<1>3. Noted(journal, Flushed)
  BY <1>0, FlushEntries DEF Flushed
<1> QED BY <1>0, <1>1, <1>2, <1>3, FlushEntries
LEMMA ReadyEntries ==
    ASSUME TypeOK, NEW k, Ready(k)
    PROVE  /\ Noted(journal, k) /\ k \in Journals /\ k.finished = journal.finished
           /\ k.failure = Flushed.failure /\ ToSet(Flushed.entries) \subseteq ToSet(k.entries)
BY FlushedEntries DEF Ready, Noted

LEMMA ReturnsHandlers ==
    ASSUME TypeOK, NEW by \in Updaters, NEW done \in BOOLEAN, Returns(by, done)
    PROVE  /\ update'.phase = "Free"
           /\ closing' = IF by = Finalize THEN "Finishing" ELSE closing
           /\ \A c \in Calls :
                /\ handler'[c].id = IF by = <<"begin", c>> THEN done ELSE handler[c].id
                /\ handler'[c].at = IF by = <<"activate", c>> THEN "Beginning"
                                    ELSE IF by = <<"begin", c>> THEN "Running"
                                    ELSE IF by = <<"finish", c>> THEN "Settled" ELSE handler[c].at
<1>1. PICK hs : Same(hs) /\ Returned(by, done, hs) /\ update' = NoUpdate
  BY DEF Returns
<1>2. update'.phase = "Free"
  <2>1. NoUpdate.phase = "Free"
    BY DEF NoUpdate
  <2> QED BY <1>1, <2>1
<1>3. hs \in Handlers /\ \A c \in Calls : hs[c].at = handler[c].at /\ hs[c].id = handler[c].id
  BY <1>1 DEF Same
<1>4. closing' = IF by = Finalize THEN "Finishing" ELSE closing
  BY <1>1 DEF Returned
<1>5. ASSUME NEW c \in Calls
      PROVE  /\ handler'[c].id = IF by = <<"begin", c>> THEN done ELSE handler[c].id
             /\ handler'[c].at = IF by = <<"activate", c>> THEN "Beginning"
                                 ELSE IF by = <<"begin", c>> THEN "Running"
                                 ELSE IF by = <<"finish", c>> THEN "Settled" ELSE handler[c].at
  <2>0. hs[c] \in [at : {"Unsent", "Rejected", "Received", "Beginning", "Running",
                         "Finishing", "Settled"}, id : BOOLEAN, addressed : Nat]
    BY <1>3, <1>5 DEF Handlers
  <2>1. CASE by[1] = "activate"
    <3>1. by = <<"activate", by[2]>> /\ by[2] \in Calls
      BY <2>1, Who DEF Drain, Finalize
    <3>2. handler' = [hs EXCEPT ![by[2]].at = "Beginning"]
      BY <1>1, <2>1 DEF Returned
    <3>3. CASE by[2] = c
      <4>1. by = <<"activate", c>> /\ by # <<"begin", c>> /\ by # <<"finish", c>>
        BY <3>1, <3>3
      <4>2. handler'[c].at = "Beginning" /\ handler'[c].id = hs[c].id
        BY <1>3, <2>0, <3>2, <3>3 DEF Handlers
      <4> QED BY <1>3, <4>1, <4>2
    <3>4. CASE by[2] # c
      <4>1. by # <<"activate", c>> /\ by # <<"begin", c>> /\ by # <<"finish", c>>
        BY <3>4
      <4>2. handler'[c] = hs[c]
        BY <1>3, <3>2, <3>4 DEF Handlers
      <4> QED BY <1>3, <4>1, <4>2
    <3> QED BY <3>3, <3>4
  <2>2. CASE by[1] = "begin"
    <3>1. by = <<"begin", by[2]>> /\ by[2] \in Calls
      BY <2>2, Who DEF Drain, Finalize
    <3>2. handler' = [hs EXCEPT ![by[2]].at = "Running", ![by[2]].id = done]
      BY <1>1, <2>2 DEF Returned
    <3>3. CASE by[2] = c
      <4>1. by = <<"begin", c>> /\ by # <<"activate", c>> /\ by # <<"finish", c>>
        BY <3>1, <3>3
      <4>2. handler'[c].at = "Running" /\ handler'[c].id = done
        BY <1>3, <2>0, <3>2, <3>3 DEF Handlers
      <4> QED BY <1>3, <4>1, <4>2
    <3>4. CASE by[2] # c
      <4>1. by # <<"activate", c>> /\ by # <<"begin", c>> /\ by # <<"finish", c>>
        BY <3>4
      <4>2. handler'[c] = hs[c]
        BY <1>3, <3>2, <3>4 DEF Handlers
      <4> QED BY <1>3, <4>1, <4>2
    <3> QED BY <3>3, <3>4
  <2>3. CASE by[1] = "finish"
    <3>1. by = <<"finish", by[2]>> /\ by[2] \in Calls
      BY <2>3, Who DEF Drain, Finalize
    <3>2. handler' = [hs EXCEPT ![by[2]].at = "Settled"]
      BY <1>1, <2>3 DEF Returned
    <3>3. CASE by[2] = c
      <4>1. by = <<"finish", c>> /\ by # <<"activate", c>> /\ by # <<"begin", c>>
        BY <3>1, <3>3
      <4>2. handler'[c].at = "Settled" /\ handler'[c].id = hs[c].id
        BY <1>3, <2>0, <3>2, <3>3 DEF Handlers
      <4> QED BY <1>3, <4>1, <4>2
    <3>4. CASE by[2] # c
      <4>1. by # <<"activate", c>> /\ by # <<"begin", c>> /\ by # <<"finish", c>>
        BY <3>4
      <4>2. handler'[c] = hs[c]
        BY <1>3, <3>2, <3>4 DEF Handlers
      <4> QED BY <1>3, <4>1, <4>2
    <3> QED BY <3>3, <3>4
  <2>4. CASE by[1] \notin {"activate", "begin", "finish"}
    <3>1. handler' = hs
      BY <1>1, <2>4 DEF Returned
    <3>2. by # <<"activate", c>> /\ by # <<"begin", c>> /\ by # <<"finish", c>>
      BY <2>4
    <3> QED BY <1>3, <3>1, <3>2
  <2> QED BY <2>1, <2>2, <2>3, <2>4
<1> QED BY <1>2, <1>4, <1>5

(* What a turn writes.                                                     *)
EndsNow ==
    /\ Flushed.failure = "None" /\ ToSet(Flushed.entries) \subseteq ToSet(journal'.entries)
    /\ update.phase # "Second"
    /\ closing' = "Finishing" \/ Is(Finalize, "Second")'
LEMMA TurnEntries ==
    ASSUME TypeOK, NEW by, Turn(by)
    PROVE  /\ ToSet(journal.entries) \subseteq ToSet(journal'.entries)
           /\ \A e \in ToSet(journal'.entries) :
                 \/ e \in ToSet(journal.entries) \/ e.kind \in OfQueue \cup Marks
                 \/ by = Finalize /\ e.kind = "RecordingEnded" /\ EndsNow
                 \/ by = <<"begin", e.call>> /\ e.kind = "ToolCall" /\ (TurnFails(by) \/ TurnOperates(by))
                 \/ by = <<"finish", e.call>> /\ e.kind = "ToolResult"
<1>0. by \in Updaters
  BY DEF Turn
<1>1. ASSUME Noted(journal, journal')
      PROVE  /\ ToSet(journal.entries) \subseteq ToSet(journal'.entries)
             /\ \A e \in ToSet(journal'.entries) :
                   e \in ToSet(journal.entries) \/ e.kind \in OfQueue \cup Marks
  BY <1>1 DEF Noted
<1>2. ASSUME NEW x, journal'.entries = x.entries, NEW k, Ready(k), Operated(by, k, x),
             update.phase # "Second",
             TurnFails(by) \/ TurnOperates(by),
             by = Finalize => closing' = "Finishing" \/ Is(Finalize, "Second")'
      PROVE  /\ ToSet(journal.entries) \subseteq ToSet(journal'.entries)
             /\ \A e \in ToSet(journal'.entries) :
                   \/ e \in ToSet(journal.entries) \/ e.kind \in OfQueue \cup Marks
                   \/ by = Finalize /\ e.kind = "RecordingEnded" /\ EndsNow
                   \/ by = <<"begin", e.call>> /\ e.kind = "ToolCall" /\ (TurnFails(by) \/ TurnOperates(by))
                   \/ by = <<"finish", e.call>> /\ e.kind = "ToolResult"
  <2>1. /\ Noted(journal, k) /\ k \in Journals /\ k.failure = Flushed.failure
        /\ ToSet(Flushed.entries) \subseteq ToSet(k.entries)
    BY <1>2, ReadyEntries
  <2>2. /\ ToSet(k.entries) \subseteq ToSet(x.entries)
        /\ \A e \in ToSet(x.entries) :
              \/ e \in ToSet(k.entries) \/ e.kind \in OfQueue \cup Marks
              \/ by = Finalize /\ e.kind = "RecordingEnded" /\ k.failure = "None"
              \/ by = <<"begin", e.call>> /\ e.kind = "ToolCall"
              \/ by = <<"finish", e.call>> /\ e.kind = "ToolResult"
    BY <1>0, <1>2, <2>1, OperatedEntries
  <2> QED BY <1>2, <2>1, <2>2 DEF Noted, EndsNow
<1>3. CASE TurnFails(by)
  <2>1. PICK x \in Journals : Reached(by, x) /\ journal'.entries = x.entries
    BY <1>3 DEF TurnFails, Resembles
  <2>2. by = Finalize => closing' = "Finishing"
    BY <1>0, <1>3, ReturnsHandlers DEF TurnFails
  <2>3. CASE x = journal
    BY <2>1, <2>3
  <2>4. CASE x = Flushed \/ \E n \in 0..Len(update.batch) : x = RecordAll(journal, SubSeq(update.batch, 1, n))
    BY <2>1, <2>4, FlushedEntries DEF Noted
  <2>5. CASE update.phase # "Second" /\ \E k : Ready(k) /\ Operated(by, k, x)
    BY <1>2, <1>3, <2>1, <2>2, <2>5
  <2> QED BY <2>1, <2>3, <2>4, <2>5 DEF Reached
<1>4. CASE TurnStarts(by)
  <2>1. CASE journal' = journal
    BY <2>1
  <2>2. CASE journal' = Created(Flushed)
    <3>1. PICK k : k = Flushed
      OBVIOUS
    <3>2. k \in Journals /\ Noted(journal, k) /\ journal' = Created(k)
      BY <2>2, <3>1, FlushedEntries
    <3>3. k.entries \in Seq(Entries) /\ Opening \in Entries /\ Opening.kind \in Marks
      BY <3>2, OpeningOwn DEF Journals, Marks
    <3>4. ToSet(Append(k.entries, Opening)) = ToSet(k.entries) \cup {Opening}
      BY <3>3, AppendedSet
    <3>5. Created(k).entries = k.entries \/ Created(k).entries = Append(k.entries, Opening)
      BY <3>2, CreatedDoes
    <3> QED BY <3>2, <3>3, <3>4, <3>5 DEF Noted
  <2> QED BY <1>4, <2>1, <2>2 DEF TurnStarts
<1>5. CASE TurnOperates(by)
  <2>1. PICK k : Ready(k) /\ Operated(by, k, journal')
    BY <1>5 DEF TurnOperates
  <2>2. by = Finalize => closing' = "Finishing" \/ Is(Finalize, "Second")'
    BY <1>0, <1>5, ReturnsHandlers DEF TurnOperates, Is
  <2>3. update.phase # "Second"
    BY <1>5 DEF TurnOperates
  <2> QED BY <1>2, <1>5, <2>1, <2>2, <2>3
<1>6. CASE TurnUnlocks(by)
  BY <1>1, <1>6, FlushedEntries DEF TurnUnlocks
<1> QED BY <1>3, <1>4, <1>5, <1>6 DEF Turn

(* The calls that began stay begun, and only a finish finishes them.       *)
LEMMA TurnMarks ==
    ASSUME TypeOK, Account, NEW by, Turn(by), journal'.failure = "None", NEW c \in Calls
    PROVE  /\ Begun(c) => Begun(c)'
           /\ by = <<"begin", c>> /\ TurnOperates(by) => Begun(c)'
           /\ Begun(c)' /\ Finished(c)' =>
                 (Begun(c) /\ Finished(c)) \/ (by = <<"finish", c>> /\ TurnOperates(by))
<1>0. /\ by \in Updaters /\ Holding(by) /\ (update.phase # "Free" => update.by = by)
      /\ ~TurnFails(by) /\ update.phase \in {"Free", "First", "Publishing", "Second"}
  BY Apart DEF Turn, TurnFails, Updates
<1>1. by = <<"begin", c>> => handler[c].at = "Beginning"
  BY <1>0, Who DEF Holding
<1>2. CASE TurnStarts(by)
  <2>1. update.phase \in {"Free", "First"} /\ update'.phase \in {"First", "Publishing"}
        /\ handler' = handler
    BY <1>2 DEF TurnStarts
  <2>2. ~TurnOperates(by) \/ by # <<"begin", c>> \/ Begun(c)'
    <3>1. TurnOperates(by) => update'.phase \in {"Second", "Free"}
      BY <1>0, ReturnsHandlers DEF TurnOperates
    <3> QED BY <2>1, <3>1
  <2> QED BY <2>1, <2>2 DEF Begun, Finished, Is
<1>3. ASSUME update.phase # "Second", update'.by = by, update'.phase = "Second", Same(handler'),
             TurnOperates(by)
      PROVE  /\ Begun(c) => Begun(c)'
             /\ by = <<"begin", c>> /\ TurnOperates(by) => Begun(c)'
             /\ Begun(c)' /\ Finished(c)' =>
                   (Begun(c) /\ Finished(c)) \/ (by = <<"finish", c>> /\ TurnOperates(by))
  <2>1. handler'[c].at = handler[c].at /\ handler'[c].id = handler[c].id
    BY <1>3 DEF Same
  <2> QED BY <1>1, <1>3, <2>1 DEF Begun, Finished, Is
<1>4. ASSUME update.phase # "Second", Returns(by, TRUE), TurnOperates(by)
      PROVE  /\ Begun(c) => Begun(c)'
             /\ by = <<"begin", c>> /\ TurnOperates(by) => Begun(c)'
             /\ Begun(c)' /\ Finished(c)' =>
                   (Begun(c) /\ Finished(c)) \/ (by = <<"finish", c>> /\ TurnOperates(by))
  <2>1. /\ update'.phase = "Free"
        /\ handler'[c].id = IF by = <<"begin", c>> THEN TRUE ELSE handler[c].id
        /\ handler'[c].at = IF by = <<"activate", c>> THEN "Beginning"
                            ELSE IF by = <<"begin", c>> THEN "Running"
                            ELSE IF by = <<"finish", c>> THEN "Settled" ELSE handler[c].at
    BY <1>0, <1>4, ReturnsHandlers
  <2> QED BY <1>4, <2>1 DEF Begun, Finished, Is
<1>5. CASE TurnUnlocks(by)
  <2>1. update.phase = "Second" /\ update.by = by /\ Returns(by, TRUE)
    BY <1>0, <1>5 DEF TurnUnlocks
  <2>2. /\ update'.phase = "Free"
        /\ handler'[c].id = IF by = <<"begin", c>> THEN TRUE ELSE handler[c].id
        /\ handler'[c].at = IF by = <<"activate", c>> THEN "Beginning"
                            ELSE IF by = <<"begin", c>> THEN "Running"
                            ELSE IF by = <<"finish", c>> THEN "Settled" ELSE handler[c].at
    BY <1>0, <2>1, ReturnsHandlers
  <2>3. ~TurnOperates(by)
    BY <2>1 DEF TurnOperates
  <2>4. <<"finish", c>> # <<"begin", c>> /\ <<"activate", c>> # <<"finish", c>>
    OBVIOUS
  <2> QED BY <2>1, <2>2, <2>3, <2>4 DEF Begun, Finished, Is
<1>6. CASE TurnOperates(by)
  BY <1>3, <1>4, <1>6 DEF TurnOperates
<1> QED BY <1>0, <1>2, <1>5, <1>6 DEF Turn

LEMMA TurnCallsRecorded ==
    ASSUME TypeOK, Account, Ending, CallsRecorded, NEW by, Turn(by),
           journal'.failure = "None" => journal.failure = "None"
    PROVE  CallsRecorded'
<1>0. by \in Updaters /\ Holding(by)
  BY DEF Turn
<1>1. /\ ToSet(journal.entries) \subseteq ToSet(journal'.entries)
      /\ \A e \in ToSet(journal'.entries) :
            e.kind = "ToolCall" =>
              \/ e \in ToSet(journal.entries)
              \/ by = <<"begin", e.call>> /\ (TurnFails(by) \/ TurnOperates(by))
  <2>1. "ToolCall" \notin OfQueue \cup Marks
    BY DEF OfQueue, Marks
  <2> QED BY <2>1, TurnEntries
<1>2. ASSUME NEW c \in Nat, HasEntry(journal, "ToolCall", c)' PROVE c \in Calls /\ (journal'.failure # "None" \/ Begun(c)')
  <2>1. PICK e \in ToSet(journal'.entries) : e.kind = "ToolCall" /\ e.call = c
    BY <1>2 DEF HasEntry
  <2>2. CASE e \in ToSet(journal.entries)
    <3>1. c \in Calls /\ (journal.failure # "None" \/ Begun(c))
      BY <2>1, <2>2 DEF CallsRecorded, HasEntry
    <3> QED BY <3>1, TurnMarks
  <2>3. CASE by = <<"begin", e.call>> /\ (TurnFails(by) \/ TurnOperates(by))
    <3>1. c \in Calls
      BY <1>0, <2>1, <2>3, Who DEF Drain, Finalize
    <3>2. TurnFails(by) => journal'.failure # "None"
      BY DEF TurnFails
    <3> QED BY <2>1, <2>3, <3>1, <3>2, TurnMarks
  <2> QED BY <1>1, <2>1, <2>2, <2>3
<1>3. ASSUME journal'.failure = "None", NEW c \in Calls, Begun(c)', Finished(c)'
      PROVE  HasEntry(journal, "ToolResult", c)'
  <2>1. CASE Begun(c) /\ Finished(c)
    BY <1>1, <1>3, <2>1 DEF CallsRecorded, HasEntry
  <2>2. CASE by = <<"finish", c>> /\ TurnOperates(by)
    <3>1. PICK k : Ready(k) /\ Operated(by, k, journal')
      BY <2>2 DEF TurnOperates
    <3>2. handler[c].at = "Finishing"
      BY <1>0, <2>2, Who DEF Holding
    <3>3. ~journal.finished
      BY <3>2 DEF Ending, Late, Winding, AllSettled, Captured
    <3>4. k \in Journals /\ ~k.finished
      BY <3>1, <3>3, ReadyEntries
    <3>5. HasEntry(journal', "ToolResult", c)
      BY <1>0, <1>3, <2>2, <3>1, <3>4, OperatedEntries
    <3> QED BY <3>5 DEF HasEntry
  <2> QED BY <1>3, <2>1, <2>2, TurnMarks
<1> QED BY <1>2, <1>3 DEF CallsRecorded

LEMMA SameCallsRecorded ==
    ASSUME CallsRecorded, UNCHANGED <<handler, update>>, journal'.entries = journal.entries,
           journal'.failure = journal.failure
    PROVE  CallsRecorded'
BY DEF CallsRecorded, HasEntry, Begun, Finished, Is
LEMMA SentCallsRecorded == ASSUME TypeOK, Account, CallsRecorded, Sent PROVE CallsRecorded'
<1>0. UNCHANGED <<update, journal>> /\ handler \in Handlers
  BY SentRest, Apart
<1>1. PICK c \in Calls :
         \/ Receive(c) \/ Submit(c) \/ AssociateWaiting(c) \/ AdmitSource(c) \/ Return(c)
         \/ RefuseSource(c) \/ Dispatch(c) \/ SettleSource(c)
  BY DEF Sent
<1>2. CASE UNCHANGED handler
  BY <1>0, <1>2, SameCallsRecorded
<1>3. CASE Receive(c)
  <2>1. handler' = [handler EXCEPT ![c].at = "Received"] \/ handler' = [handler EXCEPT ![c].at = "Rejected"]
    BY <1>3 DEF Receive
  <2>2. ASSUME NEW d \in Calls PROVE handler'[d].id = handler[d].id
                                      /\ (handler'[d].at = "Settled" => handler[d].at = "Settled")
    BY <1>0, <2>1 DEF Handlers
  <2> QED BY <1>0, <2>2 DEF CallsRecorded, HasEntry, Begun, Finished, Is
<1>4. CASE Return(c)
  <2>1. handler[c].at = "Running"
        /\ handler' = [handler EXCEPT ![c].at = IF handler[c].id THEN "Finishing" ELSE "Settled"]
    BY <1>4 DEF Return
  <2>2. ~Is(<<"begin", c>>, "Second")
    BY <2>1 DEF Account, Updating, Is
  <2>3. ASSUME NEW d \in Calls
        PROVE  /\ handler'[d].id = handler[d].id
               /\ handler'[d].at = "Settled" => handler[d].at = "Settled" \/ (d = c /\ ~handler[c].id)
    BY <1>0, <2>1 DEF Handlers
  <2> QED BY <1>0, <2>2, <2>3 DEF CallsRecorded, HasEntry, Begun, Finished, Is
<1> QED BY <1>1, <1>2, <1>3, <1>4 DEF Submit, AssociateWaiting, AdmitSource, RefuseSource, Dispatch,
           SettleSource

(* An update of a free journal begins only when nothing failed.            *)
LEMMA FreeUpdates ==
    ASSUME TypeOK, update.phase = "Free", Updated \/ FinishPublication
    PROVE  /\ journal'.entries = journal.entries \/ (queue.pending = <<>> /\ ~Failed)
           /\ update'.phase = "First" => ~Failed
<1>0. NoUpdate.phase = "Free" /\ journal \in Journals
  BY Apart DEF NoUpdate
<1>1. ASSUME NEW by \in Updaters, Lock(by)
      PROVE  /\ journal'.entries = journal.entries \/ (queue.pending = <<>> /\ ~Failed)
             /\ update'.phase = "First" => ~Failed
  <2>1. CASE Failed
    <3> DEFINE i == [journal EXCEPT !.failure = IF @ = "None" THEN queue.failure ELSE @]
    <3>1. i.entries = journal.entries
      BY <1>0 DEF Journals
    <3>2. Fails(by, i, queue)
      BY <1>1, <2>1 DEF Lock, Failed
    <3> HIDE DEF i
    <3>3. update' = NoUpdate /\ journal' = i
      BY <3>2 DEF Fails
    <3> QED BY <1>0, <3>1, <3>3
  <2>2. CASE ~Failed
    <3>1. queue.pending = <<>> \/ UNCHANGED journal
      BY <1>1, <2>2 DEF Lock, Failed
    <3> QED BY <2>2, <3>1
  <2> QED BY <2>1, <2>2
<1>2. ASSUME NEW by, OperationFails(by) PROVE queue.pending = <<>> /\ ~Failed
  BY <1>2 DEF OperationFails, Failed
<1> QED BY <1>1, <1>2 DEF Updated, Operate, Unlock, Publish, WriteFails, PublishFails, FinishPublication

(* Every file has its summary when the end is written.                     *)
LEMMA WoundUp ==
    ASSUME Base, Account, Ending, Complete, Wants(Finalize), ~Failed, update.phase = "Free"
    PROVE  Summaries(ToSet(journal.entries) \cup ToSet(queue.pending))
<1>1. closing = "Recording" /\ tape = <<>>
  BY DEF Wants, Finalize, Drain
<1>2. \A do : ~To(do) /\ ~Doing(do)
  BY <1>1 DEF To, Kinds, Doing
<1>3. output.cell = NoOwner /\ output.idle = NoOwner /\ output.receipts = {}
  BY <1>1, <1>2 DEF Ending, Late, Winding
<1>4. Way = ToSet(queue.pending)
  BY FreeWay DEF Ahead
<1> QED BY <1>3, <1>4 DEF Complete, Summed, Summaries, Base, HasFiles
LEMMA FlushedSummaries ==
    ASSUME TypeOK, InSequence, Ending, closing = "Recording", Flushed.failure = "None",
           Summaries(ToSet(journal.entries) \cup ToSet(update.batch))
    PROVE  Summaries(ToSet(Flushed.entries))
<1>1. Moves(journal, Way, Flushed, Ahead) /\ ~journal.finished
  BY FlushedDoes DEF Ending
<1>2. ASSUME NEW e \in ToSet(update.batch) PROVE e \notin Ahead
  BY <1>2, WayType DEF InSequence, Ahead, Queued, Events
<1>3. ASSUME NEW f \in DOMAIN files PROVE SummaryIn(ToSet(Flushed.entries), f)
  <2>1. PICK e \in ToSet(journal.entries) \cup ToSet(update.batch) : e.kind = "OutputSummary" /\ e.owner = f
    BY <1>3 DEF Summaries, SummaryIn
  <2>2. CASE e \in ToSet(journal.entries)
    BY <1>1, <2>1, <2>2 DEF Moves, SummaryIn
  <2>3. CASE e \in ToSet(update.batch)
    <3>1. e \in Way /\ e \notin Ahead /\ e.kind \in Bytes
      BY <1>2, <2>1, <2>3 DEF Way, Bytes
    <3> QED BY <1>1, <2>1, <3>1 DEF Moves, SummaryIn
  <2> QED BY <2>2, <2>3
<1> QED BY <1>3 DEF Summaries

(* The end is written when every call that began has its result.           *)
LEMMA CallsEnded ==
    ASSUME Account, Ending, CallsRecorded, closing = "Recording", update.phase # "Second",
           journal.failure = "None"
    PROVE  Calls1(journal)
<1>1. ASSUME NEW c \in Calls, Begun(c) PROVE Finished(c)
  <2>1. handler[c].id
    BY <1>1 DEF Begun, Is
  <2>2. handler[c].at = "Settled"
    BY <1>1, <2>1 DEF Account, Updating, Ending, Late, Winding, AllSettled, Captured
  <2> QED BY <2>2 DEF Finished
<1> QED BY <1>1 DEF CallsRecorded, Calls1

LEMMA TurnEndRecorded ==
    ASSUME Base, Account, InSequence, Ending, Complete, CallsRecorded, EndRecorded, NEW by, Turn(by),
           Updated \/ FinishPublication, DOMAIN files' = DOMAIN files
    PROVE  EndRecorded'
<1>0. /\ TypeOK /\ by \in Updaters /\ Holding(by) /\ (update.phase # "Free" => update.by = by)
      /\ update.phase \in {"Free", "First", "Publishing", "Second"}
      /\ (update.phase = "Free" => Wants(by))
  BY Apart DEF Base, Turn, Updates
<1>1. /\ ToSet(journal.entries) \subseteq ToSet(journal'.entries)
      /\ \A e \in ToSet(journal'.entries) :
            /\ e.kind = "RecordingEnded" => e \in ToSet(journal.entries) \/ (by = Finalize /\ EndsNow)
            /\ e.kind = "ToolCall" => e \in ToSet(journal.entries) \/ by = <<"begin", e.call>>
  <2>1. "ToolCall" \notin OfQueue \cup Marks /\ "RecordingEnded" \notin OfQueue \cup Marks
    BY DEF OfQueue, Marks
  <2> QED BY <1>0, <2>1, TurnEntries
<1>2. ASSUME Is(Finalize, "First")'
      PROVE  Summaries(ToSet(journal.entries) \cup ToSet(update.batch))'
  <2>1. update'.phase = "First" /\ update'.by = Finalize
    BY <1>2 DEF Is
  <2>2. TurnStarts(by)
    <3>1. ~Returns(by, TRUE) /\ ~Returns(by, FALSE)
      BY <1>0, <2>1, ReturnsHandlers
    <3> QED BY <2>1, <3>1 DEF Turn, TurnFails, TurnOperates, TurnUnlocks
  <2>3. update.phase = "Free" /\ journal' = journal /\ update'.batch = queue.pending /\ Wants(by)
        /\ by = Finalize
    BY <2>1, <2>2 DEF TurnStarts
  <2>4. ~Failed
    BY <1>0, <2>1, <2>3, FreeUpdates
  <2> QED BY <2>3, <2>4, WoundUp DEF Summaries
<1>3. ASSUME by \in {Drain, Finalize}, Calls1(journal), Summaries(ToSet(journal.entries))
      PROVE  Calls1(journal') /\ Summaries(ToSet(journal.entries))'
  <2>1. \A c : by # <<"begin", c>>
    BY <1>3 DEF Drain, Finalize
  <2> QED BY <1>1, <1>3, <2>1 DEF Calls1, HasEntry, Summaries, SummaryIn
<1>4. ASSUME EndsIn(journal)
      PROVE  /\ closing' \in {"Finishing", "Done"} \/ Is(Finalize, "Second")'
             /\ Calls1(journal') /\ Summaries(ToSet(journal.entries))'
  <2>1. /\ closing \in {"Finishing", "Done"} \/ Is(Finalize, "Second")
        /\ Calls1(journal) /\ Summaries(ToSet(journal.entries))
    BY <1>4 DEF EndRecorded
  <2>2. CASE closing \in {"Finishing", "Done"}
    <3>1. by = Drain
      <4>1. \A c \in Calls : handler[c].at \in {"Unsent", "Rejected", "Settled"}
        BY <1>0, <2>2, Apart DEF Ending, Late, Winding, AllSettled, Captured
      <4> QED BY <1>0, <2>2, <4>1, Who DEF Holding
    <3>2. closing' = closing
      <4>1. by # Finalize
        BY <3>1 DEF Drain, Finalize
      <4> QED BY <1>0, <4>1, ReturnsHandlers DEF Turn, TurnFails, TurnStarts, TurnOperates, TurnUnlocks
    <3> QED BY <1>3, <2>1, <2>2, <3>1, <3>2
  <2>3. CASE Is(Finalize, "Second")
    <3>1. update.phase = "Second" /\ by = Finalize
      BY <1>0, <2>3 DEF Is
    <3>2. Returns(by, TRUE) \/ Returns(by, FALSE)
      BY <3>1 DEF Turn, TurnFails, TurnStarts, TurnOperates, TurnUnlocks
    <3>3. closing' = "Finishing"
      BY <1>0, <3>1, <3>2, ReturnsHandlers
    <3> QED BY <1>3, <2>1, <3>1, <3>3
  <2> QED BY <2>1, <2>2, <2>3
<1>5. ASSUME EndsIn(journal'), ~EndsIn(journal), by = Finalize, EndsNow
      PROVE  /\ closing' \in {"Finishing", "Done"} \/ Is(Finalize, "Second")'
             /\ Calls1(journal') /\ Summaries(ToSet(journal.entries))'
  <2>1. /\ Flushed.failure = "None" /\ ToSet(Flushed.entries) \subseteq ToSet(journal'.entries)
        /\ update.phase # "Second" /\ (closing' = "Finishing" \/ Is(Finalize, "Second")')
    BY <1>5 DEF EndsNow
  <2>2. closing = "Recording" /\ journal.failure = "None"
    BY <1>0, <1>5, <2>1, FlushedEntries DEF Holding
  <2>3. Calls1(journal)
    BY <2>1, <2>2, CallsEnded
  <2>4. Calls1(journal')
    <3>1. \A c : by # <<"begin", c>>
      BY <1>5 DEF Finalize
    <3> QED BY <1>1, <2>3, <3>1 DEF Calls1, HasEntry
  <2>5. Summaries(ToSet(journal'.entries))
    <3>1. CASE update.phase = "First"
      <4>1. Summaries(ToSet(journal.entries) \cup ToSet(update.batch))
        BY <1>0, <1>5, <3>1 DEF EndRecorded, Is
      <4>2. Summaries(ToSet(Flushed.entries))
        BY <1>0, <2>1, <2>2, <4>1, FlushedSummaries
      <4> QED BY <2>1, <4>2 DEF Summaries, SummaryIn
    <3>2. CASE update.phase = "Publishing"
      BY <1>0, <1>5, <3>2 DEF Account, Updating, MustPublish, Finalize
    <3>3. CASE update.phase = "Free"
      <4>1. CASE journal'.entries = journal.entries
        BY <1>5, <4>1 DEF EndsIn
      <4>2. CASE queue.pending = <<>> /\ ~Failed
        <5>1. Summaries(ToSet(journal.entries) \cup ToSet(queue.pending))
          BY <1>0, <1>5, <3>3, <4>2, WoundUp
        <5>2. ToSet(queue.pending) = {}
          BY <4>2, NoneSet
        <5> QED BY <1>1, <5>1, <5>2 DEF Summaries, SummaryIn
      <4> QED BY <1>0, <3>3, <4>1, <4>2, FreeUpdates
    <3> QED BY <1>0, <2>1, <3>1, <3>2, <3>3
  <2>6. Summaries(ToSet(journal.entries))'
    BY <2>5 DEF Summaries
  <2> QED BY <2>1, <2>4, <2>6
<1>6. ASSUME EndsIn(journal')
      PROVE  /\ closing' \in {"Finishing", "Done"} \/ Is(Finalize, "Second")'
             /\ Calls1(journal') /\ Summaries(ToSet(journal.entries))'
  <2>1. EndsIn(journal) \/ (by = Finalize /\ EndsNow)
    BY <1>1, <1>6 DEF EndsIn
  <2> QED BY <1>4, <1>5, <1>6, <2>1
<1>7. (Calls1(journal)' <=> Calls1(journal')) /\ (EndsIn(journal)' <=> EndsIn(journal'))
  BY DEF Calls1, HasEntry, EndsIn
<1> QED BY <1>2, <1>6, <1>7 DEF EndRecorded

(* Nothing else reaches the end of a recording.                            *)
LEMMA RestEndRecorded ==
    ASSUME Account, EndRecorded, UNCHANGED update, journal'.entries = journal.entries,
           Late => DOMAIN files' = DOMAIN files,
           closing \in {"Finishing", "Done"} => closing' \in {"Finishing", "Done"}
    PROVE  EndRecorded'
<1>1. Is(Finalize, "First") \/ Is(Finalize, "Second") => Late
  BY DEF Account, Updating, Is, Late
<1>2. EndsIn(journal) => Late
  BY <1>1 DEF EndRecorded, Late
<1> QED BY <1>1, <1>2 DEF EndRecorded, EndsIn, Calls1, HasEntry, Summaries, SummaryIn, Is

LEMMA LateFiles ==
    ASSUME Base, Ending, Late, ScriptSteps PROVE DOMAIN files' = DOMAIN files
<1>0. TypeOK /\ ~To("CreateCell") /\ ~To("CreateIdle")
  BY DEF Base, Ending, Winding
<1>1. ~CreateFile("CreateCell", "cell") /\ ~CreateFile("CreateIdle", "idle")
  BY <1>0, DoingTo DEF CreateFile
<1>2. ASSUME NEW f, files' = Closed(f) PROVE DOMAIN files' = DOMAIN files
  BY <1>2 DEF Closed
<1>3. CASE Write
  BY <1>3, WriteDoes DEF Writes, Grows
<1>4. CASE CloseIdle \/ CloseCell
  BY <1>2, <1>4 DEF CloseIdle, CloseCell
<1> QED BY <1>1, <1>3, <1>4 DEF ScriptSteps, PublishCell, PublishReceipts, StartCell, EndCell,
           TextEvent, UnownedText, WorkerStarted, WorkerEnded, WorkerRetired

LEMMA RecordedStep ==
    ASSUME Base, Account, InSequence, Ending, Silent, Homeless, Complete, Recorded, [Next]_vars
    PROVE  Recorded'
<1>0. TypeOK
  BY DEF Base
<1>1. CASE UNCHANGED vars
  BY <1>1, SameCallsRecorded, RestEndRecorded DEF vars, Recorded
<1>2. CASE Updated \/ FinishPublication
  <2>1. PICK by : Turn(by)
    BY <1>0, <1>2, UpdatedTurns
  <2>2. journal'.failure = "None" => journal.failure = "None"
    BY <1>0, <1>2, UpdatedAlong DEF Along, Moves
  <2>3. DOMAIN files' = DOMAIN files
    BY <1>0, <1>2, UpdatedPlace, AlteredSame
  <2> QED BY <1>0, <1>2, <2>1, <2>2, <2>3, TurnCallsRecorded, TurnEndRecorded DEF Recorded
<1>3. CASE Filed
  <2>1. UNCHANGED <<update, handler>> /\ journal'.entries = journal.entries
        /\ journal'.failure = journal.failure
    BY <1>0, <1>3, FiledRest DEF Filed, CopyRest, Relocate, FinalizeStorage
  <2>2. closing \in {"Finishing", "Done"} => closing' \in {"Finishing", "Done"}
    BY <1>3 DEF Filed, CopyRest, Relocate, FinalizeStorage
  <2> QED BY <1>0, <1>3, <2>1, <2>2, AlteredSame, SameCallsRecorded, RestEndRecorded DEF Recorded
<1>4. CASE Reported
  BY <1>4, ReportedRest, SameCallsRecorded, RestEndRecorded DEF Recorded
<1>5. CASE Sent
  BY <1>0, <1>5, SentRest, SentCallsRecorded, RestEndRecorded DEF Recorded
<1>6. CASE Told1
  <2>1. closing \in {"Finishing", "Done"} => closing' \in {"Finishing", "Done"}
    BY <1>6 DEF Told1, DrainEnds, Close, CloseQueue
  <2> QED BY <1>0, <1>6, <2>1, Told1Rest, SameCallsRecorded, RestEndRecorded DEF Recorded
<1>7. CASE Planned
  <2>1. closing \in {"Finishing", "Done"} => closing' \in {"Finishing", "Done"}
    BY <1>7 DEF Planned, Acquire, WorkerEnds, Retire, Text, CellEnds, FinishRecording, EnterCell,
       workerRest
  <2> QED BY <1>7, <2>1, PlannedRest, SameCallsRecorded, RestEndRecorded DEF Recorded
<1>8. CASE ScriptSteps
  BY <1>8, ScriptStepsRest, LateFiles, SameCallsRecorded, RestEndRecorded DEF Recorded
<1>9. CASE Delivered
  BY <1>9, DeliveredRest, SameCallsRecorded, RestEndRecorded DEF Recorded
<1> QED BY <1>1, <1>2, <1>3, <1>4, <1>5, <1>6, <1>7, <1>8, <1>9, NextCases

LEMMA InitRecorded == ASSUME Init PROVE Recorded
BY NoneSet DEF Init, Recorded, CallsRecorded, EndRecorded, HasEntry, EndsIn, Is, NoUpdate, Begun,
   Finished

(* FilesComplete speaks of the places of the entries.                      *)
LEMMA CompleteFiles == ASSUME Published, Recorded PROVE FilesComplete
<1>1. ASSUME NEW f \in DOMAIN files
      PROVE  files[f][files[f].at] = files[f].retained /\ (journal.published => files[f].at = "public")
  BY DEF Published
<1>2. ASSUME Ended PROVE EndsIn(journal)
  BY <1>2, InSet DEF Ended, EndsIn
<1>3. ASSUME Ended, NEW c \in Calls, Has("ToolCall", c) PROVE Has("ToolResult", c)
  <2>1. HasEntry(journal, "ToolCall", c)
    BY <1>3, InSet DEF Has, HasEntry
  <2>2. HasEntry(journal, "ToolResult", c)
    BY <1>2, <1>3, <2>1, CallsAreNat DEF Recorded, EndRecorded, Calls1
  <2> QED BY <2>2, AtSet DEF Has, HasEntry
<1>4. ASSUME Ended, NEW f \in DOMAIN files
      PROVE  \E i \in DOMAIN journal.entries :
                journal.entries[i].kind = "OutputSummary" /\ journal.entries[i].owner = f
  <2>1. SummaryIn(ToSet(journal.entries), f)
    BY <1>2, <1>4 DEF Recorded, EndRecorded, Summaries
  <2> QED BY <2>1, AtSet DEF SummaryIn
<1> QED BY <1>1, <1>3, <1>4 DEF FilesComplete

(* No byte is lost by publication, which moves the files one by one while  *)
(* other threads write them, and a recording that says that it ended has   *)
(* the result of every send that it began and the summary of every file.   *)
THEOREM RecordedFilesAreComplete == Spec => []FilesComplete
<1> DEFINE Inv == /\ Base /\ Account /\ InSequence /\ Ending /\ Silent /\ Complete /\ Homeless
                  /\ Published /\ Recorded
<1>1. Init => Inv
  BY InitBase, InitAccount, InitInSequence, InitEnding, InitSilent, InitComplete, InitPublished, InitRecorded
<1>2. Inv /\ [Next]_vars => Inv'
  BY BaseStep, AccountStep, InSequenceStep, EndingStep, SilentStep, CompleteStep, PublishedStep,
     RecordedStep DEF Account
<1>3. Inv => FilesComplete
  BY CompleteFiles
<1> QED BY <1>1, <1>2, <1>3, PTL DEF Spec

(***************************************************************************)
(* What a record does to the calls of the journal.                         *)
(***************************************************************************)
Touches(e) == Missing(e) # "None" \/ e.kind \in {"ToolCall", "AssociateWaitingCall"}
(* The calls m after the event e.                                          *)
Kept1(j, k, c) == (Pending(k, c) <=> Pending(j, c)) /\ (Open(k, c) <=> Open(j, c))
Changes(j, k, e) ==
    /\ \A c : c # e.call => Kept1(j, k, c)
    /\ e.kind \notin {"SourceFinished", "ToolCall"} => (Pending(j, e.call) => Pending(k, e.call))
    /\ e.kind # "ToolResult" => (Open(j, e.call) => Open(k, e.call))
    /\ e.kind = "ToolCall" /\ ~j.finished => Open(k, e.call)
    /\ e.kind = "SourceAdmitted" /\ ~j.finished => Pending(k, e.call)
LEMMA SameChanges ==
    ASSUME NEW j, NEW k, NEW e, k.calls = j.calls,
           e.kind \in {"ToolCall", "SourceAdmitted"} => j.finished
    PROVE  Changes(j, k, e)
BY DEF Changes, Kept1, Pending, Open

LEMMA CallAfterDoes ==
    ASSUME NEW j \in Journals, NEW e \in Entries, Touches(e),
           Missing(e) # "None" \/ e.kind = "AssociateWaitingCall" => Calling(j, e.call)
    PROVE  LET x == CallAfter(j, e) IN
           /\ x \in CallRecord
           /\ e.kind = "ToolCall" => ~x.finished
           /\ e.kind # "ToolCall" => Calling(j, e.call)
           /\ e.kind = "SourceAdmitted" => x.pending
           /\ e.kind \notin {"ToolCall", "ToolResult"} => x.finished = j.calls[e.call].finished
           /\ e.kind \notin {"ToolCall", "SourceAdmitted", "SourceFinished"} =>
                 x.pending = j.calls[e.call].pending
<1>0. /\ Calling(j, e.call) => j.calls[e.call] \in CallRecord
      /\ e.owner.session \in Nat
  <2>1. j.calls \in CallMaps /\ e.owner \in Owner
    BY DEF Journals, Entries, Events
  <2> QED BY <2>1, CallMapsApart DEF Calling, Owner
<1>1. CASE e.kind = "ToolCall"
  BY <1>1 DEF CallAfter, NewCall, CallRecord
<1>2. CASE e.kind = "SourceAdmitted"
  <2>1. Calling(j, e.call) /\ CallAfter(j, e) = [j.calls[e.call] EXCEPT !.pending = TRUE]
    BY <1>2 DEF Missing, CallAfter
  <2> QED BY <1>0, <1>2, <2>1 DEF CallRecord
<1>3. CASE e.kind = "SourceFinished"
  <2>1. Calling(j, e.call) /\ CallAfter(j, e) = [j.calls[e.call] EXCEPT !.pending = FALSE]
    BY <1>3 DEF Missing, CallAfter
  <2> QED BY <1>0, <1>3, <2>1 DEF CallRecord
<1>4. CASE e.kind \in {"SourceAssociated", "AssociateWaitingCall"}
  <2>1. Calling(j, e.call) /\ CallAfter(j, e) = [j.calls[e.call] EXCEPT !.session = e.owner.session]
    BY <1>4 DEF Missing, CallAfter
  <2> QED BY <1>0, <1>4, <2>1 DEF CallRecord
<1>5. CASE e.kind = "ToolResult"
  <2>1. Calling(j, e.call) /\ CallAfter(j, e) = [j.calls[e.call] EXCEPT !.finished = TRUE]
    BY <1>5 DEF Missing, CallAfter
  <2> QED BY <1>0, <1>5, <2>1 DEF CallRecord
<1>6. e.kind \in {"ToolCall", "SourceAdmitted", "SourceFinished", "SourceAssociated",
                  "AssociateWaitingCall", "ToolResult"}
  BY DEF Touches, Missing
<1> QED BY <1>1, <1>2, <1>3, <1>4, <1>5, <1>6

LEMMA SetCallDoes ==
    ASSUME NEW calls, NEW c, NEW x
    PROVE  LET m == SetCall(calls, c, x) IN
           /\ \A d : d # c => (d \in DOMAIN m <=> d \in DOMAIN calls) /\ (d \in DOMAIN calls => m[d] = calls[d])
           /\ ~Settled(x) => c \in DOMAIN m /\ m[c] = x
           /\ Settled(x) => c \notin DOMAIN m
BY DEF SetCall

LEMMA WrittenChanges ==
    ASSUME NEW j \in Journals, NEW e \in Entries, ~Unknown(j, e)
    PROVE  Changes(j, Written(j, e), e)
<1> DEFINE k == Written(j, e)
<1>1. CASE Ignores(j, e)
  <2>1. k.calls = j.calls
    BY <1>1, WrittenDoes
  <2>2. e.kind \in {"ToolCall", "SourceAdmitted"} => j.finished
    BY <1>1 DEF Ignores
  <2> HIDE DEF k
  <2>3. Changes(j, k, e)
    BY <2>1, <2>2, SameChanges
  <2> QED BY <2>3 DEF k
<1>2. CASE ~Ignores(j, e) /\ ~Touches(e)
  <2>1. k.calls = j.calls
    BY <1>2, WrittenDoes DEF Touches
  <2>2. e.kind \notin {"ToolCall", "SourceAdmitted"}
    BY <1>2 DEF Touches, Missing
  <2> HIDE DEF k
  <2>3. Changes(j, k, e)
    BY <2>1, <2>2, SameChanges
  <2> QED BY <2>3 DEF k
<1>3. CASE ~Ignores(j, e) /\ Touches(e)
  <2> DEFINE x == CallAfter(j, e)
             c == e.call
  <2>1. k.calls = SetCall(j.calls, c, x) /\ ~j.finished
    BY <1>3, WrittenDoes DEF Touches, Ignores
  <2>2. Missing(e) # "None" \/ e.kind = "AssociateWaitingCall" => Calling(j, c)
    BY <1>3, <2>1 DEF Unknown, Ignores
  <2>3. /\ x \in CallRecord
        /\ e.kind = "ToolCall" => ~x.finished
        /\ e.kind # "ToolCall" => Calling(j, c)
        /\ e.kind = "SourceAdmitted" => x.pending
        /\ e.kind \notin {"ToolCall", "ToolResult"} => x.finished = j.calls[c].finished
        /\ e.kind \notin {"ToolCall", "SourceAdmitted", "SourceFinished"} =>
              x.pending = j.calls[c].pending
    BY <1>3, <2>2, CallAfterDoes
  <2> HIDE DEF k, x
  <2>4. /\ \A d : d # c => (d \in DOMAIN k.calls <=> d \in DOMAIN j.calls)
                          /\ (d \in DOMAIN j.calls => k.calls[d] = j.calls[d])
        /\ ~Settled(x) => c \in DOMAIN k.calls /\ k.calls[c] = x
        /\ Settled(x) => c \notin DOMAIN k.calls
    BY <2>1, SetCallDoes
  <2> HIDE DEF c
  <2>5. \A d : d # c => Kept1(j, k, d)
    BY <2>4 DEF Kept1, Pending, Open
  <2>6. e.kind \notin {"SourceFinished", "ToolCall"} => (Pending(j, c) => Pending(k, c))
    BY <2>3, <2>4 DEF Pending, Settled
  <2>7. e.kind # "ToolResult" => (Open(j, c) => Open(k, c))
    BY <2>3, <2>4 DEF Open, Settled
  <2>8. e.kind = "ToolCall" => Open(k, c)
    BY <2>3, <2>4 DEF Open, Settled
  <2>9. e.kind = "SourceAdmitted" => Pending(k, c)
    BY <2>3, <2>4 DEF Pending, Settled
  <2>10. Changes(j, k, e)
    BY <2>5, <2>6, <2>7, <2>8, <2>9 DEF Changes, c
  <2> QED BY <2>10 DEF k
<1> QED BY <1>1, <1>2, <1>3

LEMMA RecordChanges ==
    ASSUME NEW j \in Journals, NEW e \in Entries
    PROVE  LET k == Record(j, e) IN
           /\ k.finished = j.finished
           /\ j.failure # "None" => k = j
           /\ j.failure = "None" /\ k.failure # "None" =>
                 k.failure = Missing(e) /\ ~j.finished /\ ~Calling(j, e.call)
           /\ j.failure = "None" /\ k.failure = "None" => Changes(j, k, e)
<1> DEFINE i == Created(j)
           k == Record(j, e)
<1>0. i \in Journals /\ i.finished = j.finished /\ i.failure = j.failure /\ i.calls = j.calls
  BY CreatedType, CreatedDoes
<1>1. k.finished = j.finished /\ (j.failure # "None" => k = j)
  BY RecordType
<1>2. CASE j.failure = "None" /\ Unknown(i, e)
  <2>1. k = [i EXCEPT !.failure = Missing(e)]
    BY <1>2 DEF Record
  <2> HIDE DEF i, k
  <2>2. k.failure = Missing(e) /\ Missing(e) # "None" /\ ~j.finished /\ ~Calling(j, e.call)
    BY <1>0, <1>2, <2>1 DEF Unknown, Calling, Journals
  <2> QED BY <1>1, <2>2 DEF k
<1>3. CASE j.failure = "None" /\ ~Unknown(i, e)
  <2>1. k = Written(i, e)
    BY <1>3 DEF Record
  <2> HIDE DEF i, k
  <2>2. k.failure = "None" /\ Changes(i, k, e)
    BY <1>0, <1>3, <2>1, WrittenType, WrittenChanges
  <2>3. Changes(j, k, e)
    BY <1>0, <2>2 DEF Changes, Kept1, Pending, Open
  <2> QED BY <1>1, <1>3, <2>2, <2>3 DEF k
<1> QED BY <1>1, <1>2, <1>3

(***************************************************************************)
(* What the sources that are on their way find in the journal.             *)
(***************************************************************************)
SourcesIn(W) == {e \in W : e.kind \in OfSource}
LEMMA SoundSame ==
    ASSUME NEW j, NEW k, NEW W, NEW V, Sound(j, W), SourcesIn(V) = SourcesIn(W),
           \A e \in W : e.kind \in OfSource /\ Pending(j, e.call) => Pending(k, e.call)
    PROVE  Sound(k, V)
<1>1. \A e : e \in V /\ e.kind \in OfSource <=> e \in W /\ e.kind \in OfSource
  BY DEF SourcesIn
<1>2. ASSUME NEW e \in V, e.kind \in {"SourceAssociated", "SourceFinished"}
      PROVE  Pending(k, e.call) \/ \E d \in V : d.kind = "SourceAdmitted" /\ d.call = e.call /\ d.at < e.at
  <2>1. e \in W /\ e.kind \in OfSource
    BY <1>1, <1>2 DEF OfSource
  <2>2. CASE Pending(j, e.call)
    BY <2>1, <2>2
  <2>3. CASE \E d \in W : d.kind = "SourceAdmitted" /\ d.call = e.call /\ d.at < e.at
    <3>1. PICK d \in W : d.kind = "SourceAdmitted" /\ d.call = e.call /\ d.at < e.at
      BY <2>3
    <3>2. d \in V
      BY <1>1, <3>1 DEF OfSource
    <3> QED BY <3>1, <3>2
  <2> QED BY <1>2, <2>1, <2>2, <2>3 DEF Sound
<1>3. ASSUME NEW d \in V, NEW e \in V, d.kind = "SourceFinished", d.at < e.at, e.call = d.call
      PROVE  e.kind \notin OfSource
  <2>1. d \in W
    BY <1>1, <1>3 DEF OfSource
  <2>2. e.kind \in OfSource => e \in W
    BY <1>1
  <2> QED BY <1>3, <2>1, <2>2 DEF Sound
<1> QED BY <1>2, <1>3 DEF Sound

LEMMA SoundBelow ==
    ASSUME NEW j, NEW W, NEW V \in SUBSET W, Sound(j, W),
           \A e \in V, d \in W : d.at < e.at => d \in V
    PROVE  Sound(j, V)
BY DEF Sound

LEMMA QueuedKinds ==
    ASSUME NEW e \in Queued
    PROVE  /\ e \in Entries /\ e.at \in Nat /\ e.kind \notin {"ToolCall", "ToolResult"}
           /\ Missing(e) # "None" => e.kind \in OfSource
           /\ Missing(e) \in {"None", "Admission", "Settlement", "Association"}
           /\ Missing(e) = "Settlement" => e.kind = "SourceFinished"
           /\ Missing(e) = "Association" => e.kind = "SourceAssociated"
<1>1. e \in Entries
  BY QueuedIsEntry
<1>2. e.kind \in OfQueue /\ e.at \in Nat
  BY DEF Queued, Events
<1> QED BY <1>1, <1>2 DEF Missing, OfQueue, OfSource

(* The only thing a flush finds missing is a call whose source is admitted. *)
LEMMA RecordSound ==
    ASSUME NEW j \in Journals, NEW e \in Queued, NEW W \in SUBSET Queued,
           \A d \in W : e.at < d.at, Writes1(j) => Sound(j, {e} \cup W)
    PROVE  LET k == Record(j, e) IN
           k.failure \in {j.failure, "Admission"} /\ (Writes1(k) => Sound(k, W))
<1> DEFINE k == Record(j, e)
<1>1. /\ k.finished = j.finished
      /\ j.failure # "None" => k = j
      /\ j.failure = "None" /\ k.failure # "None" =>
            k.failure = Missing(e) /\ ~j.finished /\ ~Calling(j, e.call)
      /\ j.failure = "None" /\ k.failure = "None" => Changes(j, k, e)
  BY QueuedIsEntry, RecordChanges
<1>2. /\ e.at \in Nat /\ e.kind \notin {"ToolCall", "ToolResult"}
      /\ Missing(e) \in {"None", "Admission", "Settlement", "Association"}
      /\ Missing(e) = "Settlement" => e.kind = "SourceFinished"
      /\ Missing(e) = "Association" => e.kind = "SourceAssociated"
  BY QueuedKinds
<1>3. \A d \in W : d.at \in Nat /\ d # e
  BY <1>2, QueuedKinds
<1> HIDE DEF k
<1>4. ASSUME j.failure = "None", k.failure # "None" PROVE k.failure = "Admission"
  <2>1. Sound(j, {e} \cup W) /\ ~Calling(j, e.call) /\ k.failure = Missing(e)
    BY <1>1, <1>4 DEF Writes1
  <2>2. ASSUME e.kind \in {"SourceFinished", "SourceAssociated"} PROVE FALSE
    <3>1. ~Pending(j, e.call)
      BY <2>1 DEF Pending, Calling
    <3>2. PICK d \in {e} \cup W : d.at < e.at
      BY <2>1, <2>2, <3>1 DEF Sound
    <3> QED BY <1>2, <1>3, <3>2
  <2> QED BY <1>2, <1>4, <2>1, <2>2
<1>5. ASSUME Writes1(k) PROVE Sound(k, W)
  <2>1. Writes1(j) /\ Changes(j, k, e)
    BY <1>1, <1>5 DEF Writes1
  <2>2. Sound(j, {e} \cup W) /\ ~j.finished
    BY <2>1 DEF Writes1
  <2>3. ASSUME NEW f \in W, f.kind \in {"SourceAssociated", "SourceFinished"}
        PROVE  Pending(k, f.call) \/ \E d \in W : d.kind = "SourceAdmitted" /\ d.call = f.call /\ d.at < f.at
    <3>1. CASE Pending(j, f.call) /\ f.call # e.call
      BY <2>1, <3>1 DEF Changes, Kept1
    <3>2. CASE Pending(j, f.call) /\ f.call = e.call
      <4>1. e.at < f.at
        OBVIOUS
      <4>2. e.kind # "SourceFinished"
        BY <2>2, <2>3, <3>2, <4>1 DEF Sound, OfSource
      <4> QED BY <1>2, <2>1, <3>2, <4>2 DEF Changes
    <3>3. ASSUME NEW d \in {e} \cup W, d.kind = "SourceAdmitted", d.call = f.call, d.at < f.at
          PROVE  Pending(k, f.call) \/ d \in W
      BY <2>1, <2>2, <3>3 DEF Changes
    <3>4. Pending(j, f.call) \/ \E d \in {e} \cup W : d.kind = "SourceAdmitted" /\ d.call = f.call /\ d.at < f.at
      BY <2>2, <2>3 DEF Sound
    <3> QED BY <3>1, <3>2, <3>3, <3>4
  <2>4. \A d, f \in W : d.kind = "SourceFinished" /\ d.at < f.at /\ f.call = d.call =>
           f.kind \notin OfSource
    BY <2>2 DEF Sound
  <2> QED BY <2>3, <2>4 DEF Sound
<1> QED BY <1>1, <1>4, <1>5 DEF k

LEMMA RecordOpen ==
    ASSUME NEW j \in Journals, NEW e \in Queued, NEW c, j.failure = "None" => Open(j, c),
           Record(j, e).failure = "None"
    PROVE  Open(Record(j, e), c)
<1> DEFINE k == Record(j, e)
<1>1. j.failure = "None" /\ Changes(j, k, e)
  <2>1. e \in Entries
    BY QueuedIsEntry
  <2>2. j.failure # "None" => k = j
    BY <2>1, RecordChanges
  <2>3. j.failure = "None" /\ k.failure = "None" => Changes(j, k, e)
    BY <2>1, RecordChanges
  <2> QED BY <2>2, <2>3
<1>2. e.kind # "ToolResult"
  BY QueuedKinds
<1> HIDE DEF k
<1>3. Open(k, c)
  BY <1>1, <1>2 DEF Changes, Kept1
<1> QED BY <1>3 DEF k

LEMMA RecordLive ==
    ASSUME NEW j \in Journals, NEW e \in Queued, NEW W, NEW c,
           Writes1(j) => Live(j, {e} \cup W, c), e.kind = "SourceFinished" => e.call # c,
           Writes1(Record(j, e))
    PROVE  Live(Record(j, e), W, c)
<1> DEFINE k == Record(j, e)
<1>1. Writes1(j) /\ Changes(j, k, e)
  <2>1. e \in Entries
    BY QueuedIsEntry
  <2>2. (j.failure # "None" => k = j) /\ k.finished = j.finished
    BY <2>1, RecordChanges
  <2>3. j.failure = "None" /\ k.failure = "None" => Changes(j, k, e)
    BY <2>1, RecordChanges
  <2> QED BY <2>2, <2>3 DEF Writes1
<1>2. e.kind # "ToolCall"
  BY QueuedKinds
<1> HIDE DEF k
<1>3. Pending(j, c) => Pending(k, c)
  BY <1>1, <1>2 DEF Changes, Kept1
<1>4. e.kind = "SourceAdmitted" /\ e.call = c => Pending(k, c)
  BY <1>1 DEF Changes, Writes1
<1>5. Live(k, W, c)
  BY <1>1, <1>3, <1>4 DEF Live
<1> QED BY <1>5 DEF k

LEMMA FlushSound ==
    ASSUME NEW j \in Journals, NEW s \in Seq(Queued), NEW V \in SUBSET Queued, Rising(s),
           \A d \in ToSet(s), e \in V : d.at < e.at, Writes1(j) => Sound(j, ToSet(s) \cup V)
    PROVE  LET k == RecordAll(j, s) IN
           k.failure \in {j.failure, "Admission"} /\ (Writes1(k) => Sound(k, V))
<1> DEFINE A == ToSet(s) \cup V
           Fair(k, W) == k.failure \in {j.failure, "Admission"} /\ (Writes1(k) => Sound(k, W))
           T == {p \in Journals \X SUBSET Queued : Fair(p[1], p[2])}
<1>0. A \in SUBSET Queued
  BY DEF ToSet
<1>1. <<j, A>> \in T
  BY <1>0
<1>2. ASSUME NEW k \in Journals, NEW e \in Queued, NEW W \in SUBSET Queued, <<k, {e} \cup W>> \in T,
             \A d \in W : e.at < d.at
      PROVE  <<Record(k, e), W>> \in T
  <2>1. k.failure \in {j.failure, "Admission"} /\ (Writes1(k) => Sound(k, {e} \cup W))
    BY <1>2
  <2>2. Record(k, e) \in Journals
    BY QueuedIsEntry, RecordType
  <2>3. Record(k, e).failure \in {k.failure, "Admission"} /\ (Writes1(Record(k, e)) => Sound(Record(k, e), W))
    BY <1>2, <2>1, RecordSound
  <2> QED BY <2>1, <2>2, <2>3
<1> HIDE DEF T
<1>3. <<RecordAll(j, s), V>> \in T
  BY <1>1, <1>2, Flushing
<1>4. Fair(RecordAll(j, s), V)
  BY <1>3 DEF T
<1> QED BY <1>4

LEMMA FlushOpen ==
    ASSUME NEW j \in Journals, NEW s \in Seq(Queued), NEW V \in SUBSET Queued, Rising(s),
           \A d \in ToSet(s), e \in V : d.at < e.at, NEW c, j.failure = "None" => Open(j, c),
           RecordAll(j, s).failure = "None"
    PROVE  Open(RecordAll(j, s), c)
<1> DEFINE A == ToSet(s) \cup V
           T == {p \in Journals \X SUBSET Queued : p[1].failure = "None" => Open(p[1], c)}
<1>0. A \in SUBSET Queued
  BY DEF ToSet
<1>1. <<j, A>> \in T
  BY <1>0
<1>2. ASSUME NEW k \in Journals, NEW e \in Queued, NEW W \in SUBSET Queued, <<k, {e} \cup W>> \in T,
             \A d \in W : e.at < d.at
      PROVE  <<Record(k, e), W>> \in T
  <2>1. k.failure = "None" => Open(k, c)
    BY <1>2
  <2>2. Record(k, e) \in Journals
    BY QueuedIsEntry, RecordType
  <2>3. Record(k, e).failure = "None" => Open(Record(k, e), c)
    BY <2>1, RecordOpen
  <2> QED BY <2>2, <2>3
<1> HIDE DEF T
<1>3. <<RecordAll(j, s), V>> \in T
  BY <1>1, <1>2, Flushing
<1> QED BY <1>3 DEF T

LEMMA FlushLive ==
    ASSUME NEW j \in Journals, NEW s \in Seq(Queued), NEW V \in SUBSET Queued, Rising(s),
           \A d \in ToSet(s), e \in V : d.at < e.at, NEW c,
           Writes1(j) => Live(j, ToSet(s) \cup V, c),
           \A e \in ToSet(s) \cup V : e.kind = "SourceFinished" => e.call # c,
           Writes1(RecordAll(j, s))
    PROVE  Live(RecordAll(j, s), V, c)
<1> DEFINE A == ToSet(s) \cup V
           Lives(k, W) == /\ Writes1(k) => Live(k, W, c)
                          /\ \A e \in W : e.kind = "SourceFinished" => e.call # c
           T == {p \in Journals \X SUBSET Queued : Lives(p[1], p[2])}
<1>0. A \in SUBSET Queued
  BY DEF ToSet
<1>1. <<j, A>> \in T
  BY <1>0
<1>2. ASSUME NEW k \in Journals, NEW e \in Queued, NEW W \in SUBSET Queued, <<k, {e} \cup W>> \in T,
             \A d \in W : e.at < d.at
      PROVE  <<Record(k, e), W>> \in T
  <2>1. Lives(k, {e} \cup W)
    BY <1>2
  <2>2. Record(k, e) \in Journals
    BY QueuedIsEntry, RecordType
  <2>3. Writes1(Record(k, e)) => Live(Record(k, e), W, c)
    BY <2>1, RecordLive
  <2>4. Lives(Record(k, e), W)
    BY <2>1, <2>3
  <2> QED BY <2>2, <2>4
<1> HIDE DEF T
<1>3. <<RecordAll(j, s), V>> \in T
  BY <1>1, <1>2, Flushing
<1>4. Lives(RecordAll(j, s), V)
  BY <1>3 DEF T
<1> QED BY <1>4

(* A flush of the batch, or of a part of it.                               *)
LEMMA FlushedSound ==
    ASSUME TypeOK, InSequence, Writes1(journal) => Sound(journal, Way)
    PROVE  /\ Flushed.failure \in {journal.failure, "Admission"}
           /\ Writes1(Flushed) => Sound(Flushed, Ahead)
<1>1. /\ update.batch \in Seq(Queued) /\ Ahead \in SUBSET Queued
      /\ journal \in Journals /\ Way = ToSet(update.batch) \cup Ahead
  BY WayType, Apart DEF Way, Ahead
<1>2. Rising(update.batch) /\ \A d \in ToSet(update.batch), e \in Ahead : d.at < e.at
  BY DEF InSequence, Ahead
<1>3. Writes1(journal) => Sound(journal, ToSet(update.batch) \cup Ahead)
  BY <1>1
<1> QED BY ONLY <1>1, <1>2, <1>3, FlushSound DEF Flushed

LEMMA FlushedOpen ==
    ASSUME TypeOK, InSequence, NEW c, journal.failure = "None" => Open(journal, c),
           Flushed.failure = "None"
    PROVE  Open(Flushed, c)
<1>1. /\ update.batch \in Seq(Queued) /\ Ahead \in SUBSET Queued /\ journal \in Journals
  BY WayType, Apart
<1>2. Rising(update.batch) /\ \A d \in ToSet(update.batch), e \in Ahead : d.at < e.at
  BY DEF InSequence, Ahead
<1> QED BY <1>1, <1>2, FlushOpen DEF Flushed

LEMMA FlushedLive ==
    ASSUME TypeOK, InSequence, NEW c, Writes1(journal) => Live(journal, Way, c),
           \A e \in Way : e.kind = "SourceFinished" => e.call # c, Writes1(Flushed)
    PROVE  Live(Flushed, Ahead, c)
<1>1. /\ update.batch \in Seq(Queued) /\ Ahead \in SUBSET Queued
      /\ journal \in Journals /\ Way = ToSet(update.batch) \cup Ahead
  BY WayType, Apart DEF Way, Ahead
<1>2. Rising(update.batch) /\ \A d \in ToSet(update.batch), e \in Ahead : d.at < e.at
  BY DEF InSequence, Ahead
<1> QED BY <1>1, <1>2, FlushLive DEF Flushed

LEMMA PartSound ==
    ASSUME TypeOK, InSequence, Writes1(journal) => Sound(journal, Way),
           NEW k \in 0..Len(update.batch)
    PROVE  RecordAll(journal, SubSeq(update.batch, 1, k)).failure \in {journal.failure, "Admission"}
<1> DEFINE b == update.batch
           s == SubSeq(b, 1, k)
<1>1. b \in Seq(Queued) /\ journal \in Journals /\ Way \in SUBSET Queued
  BY WayType, Apart
<1>2. /\ s \in Seq(Queued) /\ Len(s) = k /\ DOMAIN s = 1..k /\ k \in Nat /\ DOMAIN b = 1..Len(b)
      /\ Len(b) \in Nat /\ \A i \in 1..k : s[i] = b[i] /\ i \in DOMAIN b
  BY <1>1
<1>3. Rising(b) /\ \A d \in ToSet(b), e \in Ahead : d.at < e.at
  BY DEF InSequence, Ahead
<1>4. Way = ToSet(b) \cup Ahead
  BY DEF Way, Ahead
<1>5. \A e \in Way : e.at \in Nat
  BY <1>1, QueuedKinds
<1> HIDE DEF s, b
<1>6. Rising(s) /\ ToSet(s) \subseteq ToSet(b)
  BY <1>2, <1>3 DEF Rising, ToSet
<1>7. ASSUME NEW e \in ToSet(s), NEW d \in Way, d.at < e.at PROVE d \in ToSet(s)
  <2>1. PICK i \in 1..k : e = b[i] /\ i \in DOMAIN b
    BY <1>2 DEF ToSet
  <2>2. e \in ToSet(b) /\ d.at \in Nat /\ e.at \in Nat
    BY <1>4, <1>5, <1>6
  <2>3. d \in ToSet(b)
    BY <1>3, <1>4, <1>7, <2>2
  <2>4. PICK m \in DOMAIN b : d = b[m]
    BY <2>3 DEF ToSet
  <2>5. m < i
    BY <1>2, <1>3, <1>7, <2>1, <2>2, <2>4 DEF Rising
  <2>6. m \in 1..k /\ s[m] = d
    BY <1>2, <2>1, <2>4, <2>5
  <2> QED BY <1>2, <2>6 DEF ToSet
<1>8. ToSet(s) \in SUBSET Way /\ ToSet(s) \cup {} = ToSet(s)
  BY <1>4, <1>6
<1>9. Writes1(journal) => Sound(journal, ToSet(s) \cup {})
  BY <1>7, <1>8, SoundBelow
<1>10. {} \in SUBSET Queued /\ \A d \in ToSet(s), e \in {} : d.at < e.at
  OBVIOUS
<1>11. RecordAll(journal, s).failure \in {journal.failure, "Admission"}
  BY ONLY <1>1, <1>2, <1>6, <1>9, <1>10, FlushSound
<1> QED BY <1>11 DEF s, b

(* What the operation of an update does to the calls of the journal.       *)
Carries(by, k, x) ==
    /\ x.failure = k.failure /\ x.finished = k.finished
    /\ k.failure = "None" =>
         \A d : /\ by # <<"begin", d>> => (Pending(k, d) => Pending(x, d))
                /\ by # <<"finish", d>> => (Open(k, d) => Open(x, d))
                /\ by = <<"begin", d>> /\ ~k.finished => Open(x, d)

LEMMA OwnCarries ==
    ASSUME NEW k \in Journals, NEW e \in Own, NEW by, e.kind # "SourceFinished",
           Missing(e) # "None" => Calling(k, e.call),
           e.kind = "ToolCall" => by = <<"begin", e.call>>,
           e.kind = "ToolResult" => by = <<"finish", e.call>>,
           \A d : by = <<"begin", d>> => e.kind = "ToolCall" /\ e.call = d
    PROVE  Carries(by, k, Record(k, e))
<1> DEFINE x == Record(k, e)
<1>1. /\ x.finished = k.finished
      /\ k.failure # "None" => x = k
      /\ k.failure = "None" /\ x.failure # "None" => ~Calling(k, e.call) /\ x.failure = Missing(e)
      /\ k.failure = "None" /\ x.failure = "None" => Changes(k, x, e)
  BY OwnZero, RecordChanges
<1> HIDE DEF x
<1>2. x.failure = k.failure
  BY <1>1
<1>3. CASE k.failure = "None"
  <2>1. Changes(k, x, e)
    BY <1>1, <1>2, <1>3
  <2>2. ASSUME NEW d, by # <<"begin", d>>, Pending(k, d) PROVE Pending(x, d)
    <3>1. CASE d # e.call
      BY <2>1, <2>2, <3>1 DEF Changes, Kept1
    <3>2. CASE d = e.call
      BY <2>1, <2>2, <3>2 DEF Changes
    <3> QED BY <3>1, <3>2
  <2>3. ASSUME NEW d, by # <<"finish", d>>, Open(k, d) PROVE Open(x, d)
    <3>1. CASE d # e.call
      BY <2>1, <2>3, <3>1 DEF Changes, Kept1
    <3>2. CASE d = e.call
      BY <2>1, <2>3, <3>2 DEF Changes
    <3> QED BY <3>1, <3>2
  <2>4. ASSUME NEW d, by = <<"begin", d>>, ~k.finished PROVE Open(x, d)
    BY <2>1, <2>4 DEF Changes
  <2>5. Carries(by, k, x)
    BY <1>1, <1>2, <2>2, <2>3, <2>4 DEF Carries
  <2> QED BY <2>5 DEF x
<1>4. CASE k.failure # "None"
  <2>1. Carries(by, k, x)
    BY <1>1, <1>2, <1>4 DEF Carries
  <2> QED BY <2>1 DEF x
<1> QED BY <1>3, <1>4

LEMMA OperatedCarries ==
    ASSUME TypeOK, NEW by \in Updaters, NEW k \in Journals, NEW x, Operated(by, k, x),
           \A d : by = <<"finish", d>> /\ k.failure = "None" => Open(k, d)
    PROVE  Carries(by, k, x)
<1>1. CASE by = Drain \/ by = Finalize \/ by[1] = "activate"
  <2>1. \A d : by # <<"begin", d>> /\ by # <<"finish", d>>
    BY <1>1, Who DEF Drain, Finalize
  <2>2. CASE x = k
    BY <2>1, <2>2 DEF Carries
  <2>3. CASE x = Record(k, Plain("RecordingEnded", 0))
    <3>1. Plain("RecordingEnded", 0) \in Own /\ Plain("RecordingEnded", 0).kind = "RecordingEnded"
      BY PlainOwn DEF OfUpdate
    <3>2. Missing(Plain("RecordingEnded", 0)) = "None"
      BY <3>1 DEF Missing
    <3> QED BY <2>1, <2>3, <3>1, <3>2, OwnCarries
  <2>4. by[1] \notin {"begin", "finish"}
    BY <1>1 DEF Drain, Finalize
  <2> QED BY <2>2, <2>3, <2>4 DEF Operated
<1>2. CASE by[2] \in Calls /\ by[1] = "begin" /\ by = <<"begin", by[2]>>
  <2> DEFINE c == by[2]
             e == Plain("ToolCall", c)
  <2>1. c \in Nat /\ e \in Own /\ e.kind = "ToolCall" /\ e.call = c
    BY <1>2, CallsAreNat, PlainOwn DEF OfUpdate
  <2>2. x = Record(k, e)
    BY <1>2 DEF Operated, Finalize
  <2> HIDE DEF e
  <2>3. Missing(e) = "None"
    BY <2>1 DEF Missing
  <2>4. \A d : by = <<"begin", d>> => d = c
    OBVIOUS
  <2> QED BY <1>2, <2>1, <2>2, <2>3, <2>4, OwnCarries
<1>3. CASE by[2] \in Calls /\ by[1] = "finish" /\ by = <<"finish", by[2]>>
  <2> DEFINE c == by[2]
             e == Plain("ToolResult", c)
             a == Claim(c)
  <2>1. c \in Nat /\ e \in Own /\ e.kind = "ToolResult" /\ e.call = c
    BY <1>3, CallsAreNat, PlainOwn DEF OfUpdate
  <2>2. a \in Own /\ a.kind = "SourceAssociated" /\ a.call = c
    BY <2>1, ClaimOwn
  <2>3. k.failure = "None" => Open(k, c)
    BY <1>3
  <2>4. \A d : by # <<"begin", d>>
    BY <1>3
  <2>5. \/ x = Record(k, e)
        \/ Calling(k, c) /\ x = Record(Record(k, a), e)
    BY <1>3 DEF Operated, Finalize
  <2> HIDE DEF e, a
  <2>6. ASSUME NEW i \in Journals, i.failure = "None" => Open(i, c) PROVE Carries(by, i, Record(i, e))
    <3>1. CASE i.failure = "None"
      <4>1. Calling(i, c)
        BY <2>6, <3>1 DEF Open, Calling
      <4> QED BY <1>3, <2>1, <2>4, <4>1, OwnCarries
    <3>2. CASE i.failure # "None"
      <4>1. Record(i, e) = i
        BY <2>1, <2>6, <3>2, OwnZero, RecordType
      <4> QED BY <3>2, <4>1 DEF Carries
    <3> QED BY <3>1, <3>2
  <2>7. CASE x = Record(k, e)
    BY <2>3, <2>6, <2>7
  <2>8. CASE Calling(k, c) /\ x = Record(Record(k, a), e)
    <3> DEFINE i == Record(k, a)
    <3>1. i \in Journals
      BY <2>2, OwnZero, RecordType
    <3>2. Carries(<<"activate", c>>, k, i)
      BY <2>2, <2>8, OwnCarries
    <3> HIDE DEF i
    <3>3. i.failure = k.failure /\ i.finished = k.finished /\ (i.failure = "None" => Open(i, c))
      BY <2>3, <3>2 DEF Carries
    <3>4. Carries(by, i, Record(i, e))
      BY <2>6, <3>1, <3>3
    <3>5. x = Record(i, e)
      BY <2>8 DEF i
    <3> QED BY <2>4, <3>2, <3>3, <3>4, <3>5 DEF Carries
  <2> QED BY <2>5, <2>7, <2>8
<1> QED BY <1>1, <1>2, <1>3, Who

(***************************************************************************)
(* A turn of an updater that does not fail.                                *)
(***************************************************************************)
LEMMA TurnOpens ==
    ASSUME TypeOK, Account, NEW by, Turn(by), journal'.failure = "None", NEW c \in Calls
    PROVE  Begun(c)' /\ ~Finished(c)' =>
              \/ Begun(c) /\ ~Finished(c) /\ ~(by = <<"finish", c>> /\ TurnOperates(by))
              \/ by = <<"begin", c>> /\ TurnOperates(by)
<1>0. /\ by \in Updaters /\ Holding(by) /\ (update.phase # "Free" => update.by = by)
      /\ ~TurnFails(by) /\ update.phase \in {"Free", "First", "Publishing", "Second"}
  BY Apart DEF Turn, TurnFails, Updates
<1>1. /\ by = <<"begin", c>> => handler[c].at = "Beginning"
      /\ by = <<"activate", c>> => handler[c].at = "Received"
  BY <1>0, Who DEF Holding
<1>2. CASE TurnStarts(by)
  <2>1. update.phase \in {"Free", "First"} /\ update'.phase \in {"First", "Publishing"}
        /\ handler' = handler
    BY <1>2 DEF TurnStarts
  <2>2. ~TurnOperates(by)
    <3>1. TurnOperates(by) => update'.phase \in {"Second", "Free"}
      BY <1>0, ReturnsHandlers DEF TurnOperates
    <3> QED BY <2>1, <3>1
  <2> QED BY <2>1, <2>2 DEF Begun, Finished, Is
<1>3. ASSUME update.phase # "Second", update'.by = by, update'.phase = "Second", Same(handler'),
             TurnOperates(by), Begun(c)', ~Finished(c)'
      PROVE  \/ Begun(c) /\ ~Finished(c) /\ ~(by = <<"finish", c>> /\ TurnOperates(by))
             \/ by = <<"begin", c>> /\ TurnOperates(by)
  <2>1. handler'[c].at = handler[c].at /\ handler'[c].id = handler[c].id
    BY <1>3 DEF Same
  <2> QED BY <1>3, <2>1 DEF Begun, Finished, Is
<1>4. ASSUME update.phase # "Second", Returns(by, TRUE), TurnOperates(by), Begun(c)', ~Finished(c)'
      PROVE  \/ Begun(c) /\ ~Finished(c) /\ ~(by = <<"finish", c>> /\ TurnOperates(by))
             \/ by = <<"begin", c>> /\ TurnOperates(by)
  <2>1. /\ update'.phase = "Free"
        /\ handler'[c].id = IF by = <<"begin", c>> THEN TRUE ELSE handler[c].id
        /\ handler'[c].at = IF by = <<"activate", c>> THEN "Beginning"
                            ELSE IF by = <<"begin", c>> THEN "Running"
                            ELSE IF by = <<"finish", c>> THEN "Settled" ELSE handler[c].at
    BY <1>0, <1>4, ReturnsHandlers
  <2> QED BY <1>1, <1>4, <2>1 DEF Begun, Finished, Is
<1>5. CASE TurnUnlocks(by)
  <2>1. update.phase = "Second" /\ update.by = by /\ Returns(by, TRUE)
    BY <1>0, <1>5 DEF TurnUnlocks
  <2>2. /\ update'.phase = "Free"
        /\ handler'[c].id = IF by = <<"begin", c>> THEN TRUE ELSE handler[c].id
        /\ handler'[c].at = IF by = <<"activate", c>> THEN "Beginning"
                            ELSE IF by = <<"begin", c>> THEN "Running"
                            ELSE IF by = <<"finish", c>> THEN "Settled" ELSE handler[c].at
    BY <1>0, <2>1, ReturnsHandlers
  <2>3. ~TurnOperates(by)
    BY <2>1 DEF TurnOperates
  <2>4. <<"finish", c>> # <<"begin", c>> /\ <<"activate", c>> # <<"finish", c>>
    OBVIOUS
  <2> QED BY <1>1, <2>1, <2>2, <2>3, <2>4 DEF Begun, Finished, Is
<1>6. CASE TurnOperates(by)
  BY <1>3, <1>4, <1>6 DEF TurnOperates
<1> QED BY <1>0, <1>2, <1>5, <1>6 DEF Turn

LEMMA TurnIds ==
    ASSUME TypeOK, Account, NEW by, Turn(by), NEW c \in Calls
    PROVE  /\ handler'[c].id = handler[c].id
              \/ (by = <<"begin", c>> /\ handler[c].at = "Beginning" /\ ~handler[c].id)
           /\ handler[c].at \in {"Running", "Finishing", "Settled"} =>
                 handler'[c].at \in {"Running", "Finishing", "Settled"}
<1>0. by \in Updaters /\ Holding(by)
  BY DEF Turn
<1>1. /\ by = <<"begin", c>> => handler[c].at = "Beginning" /\ ~handler[c].id
      /\ by = <<"activate", c>> => handler[c].at = "Received"
  BY <1>0 DEF Holding, Account, Updating
<1>2. CASE Same(handler') \/ handler' = handler
  BY <1>2 DEF Same
<1>3. ASSUME NEW done \in BOOLEAN, Returns(by, done)
      PROVE  /\ handler'[c].id = handler[c].id \/ by = <<"begin", c>>
             /\ handler[c].at \in {"Running", "Finishing", "Settled"} =>
                   handler'[c].at \in {"Running", "Finishing", "Settled"}
  BY <1>0, <1>1, <1>3, ReturnsHandlers
<1>4. (Same(handler') \/ handler' = handler) \/ \E done \in BOOLEAN : Returns(by, done)
  BY DEF Turn, TurnFails, TurnStarts, TurnOperates, TurnUnlocks
<1> QED BY <1>1, <1>2, <1>3, <1>4

Goes(by) ==
    /\ Way' = Ahead /\ queue'.failure = queue.failure /\ UNCHANGED left
    /\ \E k : Ready(k) /\ (journal' = k \/ (update.phase # "Second" /\ TurnOperates(by)
                                            /\ Operated(by, k, journal')))
LEMMA TurnGoes ==
    ASSUME TypeOK, Account, NEW by, Turn(by)
    PROVE  \/ TurnFails(by) /\ Way' = {}
           \/ Goes(by) /\ journal'.failure = "None"
<1>1. CASE TurnFails(by)
  <2>1. update'.batch = <<>> /\ queue'.pending = <<>>
    <3>1. update' = NoUpdate /\ queue'.pending = <<>>
      BY <1>1 DEF TurnFails, Returns
    <3>2. NoUpdate.batch = <<>>
      BY DEF NoUpdate
    <3> QED BY <3>1, <3>2
  <2> QED BY <1>1, <2>1, NoneSet DEF Way
<1>2. CASE TurnStarts(by)
  <2>1. CASE update.phase = "Free" /\ journal' = journal /\ update'.batch = queue.pending /\ queue'.pending = <<>>
    <3>1. Way' = Ahead
      BY <2>1, NoneSet DEF Way, Ahead
    <3>2. Ready(Flushed) /\ journal' = Flushed
      BY <2>1, FlushedReady, FlushedFree
    <3> QED BY <1>2, <3>1, <3>2 DEF Goes, TurnStarts
  <2>2. CASE update'.batch = <<>> /\ journal' = Created(Flushed) /\ queue'.pending = queue.pending
    <3>1. Way' = Ahead
      BY <2>2, NoneSet DEF Way, Ahead
    <3>2. Ready(journal')
      <4> DEFINE F == Flushed
                 k == Created(F)
      <4>1. F \in Journals
        BY FlushedReady
      <4>2. k \in Journals /\ k.calls = F.calls /\ k.failure = F.failure /\ k.finished = F.finished
            /\ (k.entries = F.entries \/ k.entries = Append(F.entries, Opening))
        BY <4>1, CreatedType, CreatedDoes
      <4> HIDE DEF k, F
      <4>3. F.entries \in Seq(Entries)
        BY <4>1 DEF Journals
      <4>4. ToSet(Append(F.entries, Opening)) = ToSet(F.entries) \cup {Opening}
        BY <4>3, OpeningOwn, AppendedSet
      <4>5. /\ ToSet(F.entries) \subseteq ToSet(k.entries)
            /\ \A e \in ToSet(k.entries) : e \in ToSet(F.entries) \/ e.kind \in Marks
        <5>1. CASE k.entries = F.entries
          BY <5>1
        <5>2. CASE k.entries = Append(F.entries, Opening)
          BY <5>2, <4>4, OpeningOwn DEF Marks
        <5> QED BY <4>2, <5>1, <5>2
      <4>6. Ready(k)
        BY <4>2, <4>5 DEF Ready, F
      <4> QED BY <2>2, <4>6 DEF k, F
    <3> QED BY <1>2, <3>1, <3>2 DEF Goes, TurnStarts
  <2> QED BY <1>2, <2>1, <2>2 DEF TurnStarts
<1>3. CASE TurnOperates(by)
  <2>1. Way' = Ahead
    <3>1. CASE update'.batch = queue.pending /\ queue'.pending = <<>>
      BY <3>1, NoneSet DEF Way, Ahead
    <3>2. CASE Returns(by, TRUE) /\ queue.pending = <<>> /\ queue'.pending = <<>>
      <4>1. update'.batch = <<>>
        <5>1. update' = NoUpdate
          BY <3>2 DEF Returns
        <5>2. NoUpdate.batch = <<>>
          BY DEF NoUpdate
        <5> QED BY <5>1, <5>2
      <4> QED BY <3>2, <4>1, NoneSet DEF Way, Ahead
    <3> QED BY <1>3, <3>1, <3>2 DEF TurnOperates
  <2>2. PICK k : Ready(k) /\ Operated(by, k, journal')
    BY <1>3 DEF TurnOperates
  <2>3. /\ queue'.failure = queue.failure /\ UNCHANGED left /\ update.phase # "Second"
        /\ journal'.failure = "None"
    BY <1>3 DEF TurnOperates
  <2> QED BY <1>3, <2>1, <2>2, <2>3 DEF Goes
<1>4. CASE TurnUnlocks(by)
  <2>1. update'.batch = <<>> /\ queue'.pending = queue.pending
    <3>1. update' = NoUpdate /\ queue'.pending = queue.pending
      BY <1>4 DEF TurnUnlocks, Returns
    <3>2. NoUpdate.batch = <<>>
      BY DEF NoUpdate
    <3> QED BY <3>1, <3>2
  <2>2. Way' = Ahead
    BY <2>1, NoneSet DEF Way, Ahead
  <2>3. Ready(Flushed) /\ journal' = Flushed
    BY <1>4, FlushedReady DEF TurnUnlocks
  <2> QED BY <1>4, <2>2, <2>3 DEF Goes, TurnUnlocks
<1> QED BY <1>1, <1>2, <1>3, <1>4 DEF Turn

(* The call that an update finishes is in the journal.                     *)
LEMMA FinishOpen ==
    ASSUME TypeOK, Account, InSequence, Known, NEW by, Turn(by), update.phase # "Second",
           NEW k, Ready(k), NEW c, by = <<"finish", c>>, k.failure = "None"
    PROVE  Open(k, c)
<1>1. c \in Calls /\ handler[c].at = "Finishing"
  <2>1. by \in Updaters /\ Holding(by)
    BY DEF Turn
  <2>2. by[1] = "finish" /\ by[2] = c
    OBVIOUS
  <2>3. c \in Calls
    BY <2>1, <2>2, Who DEF Drain, Finalize
  <2> QED BY <2>1, <2>3 DEF Holding
<1>2. Begun(c) /\ ~Finished(c)
  BY <1>1 DEF Account, Updating, Begun, Finished, Is
<1>3. journal.failure = "None" => Open(journal, c)
  BY <1>1, <1>2 DEF Known
<1>4. Flushed.failure = "None" /\ k.calls = Flushed.calls
  BY DEF Ready
<1>5. Open(Flushed, c)
  BY <1>3, <1>4, FlushedOpen
<1> QED BY <1>4, <1>5 DEF Open

LEMMA ReachedFair ==
    ASSUME TypeOK, Account, InSequence, Known, Sources, NEW by, Turn(by), NEW x, Reached(by, x)
    PROVE  x.failure \in {journal.failure, "Admission"}
<1>1. Writes1(journal) => Sound(journal, Way)
  BY DEF Sources
<1>2. CASE x = journal
  BY <1>2
<1>3. CASE \E n \in 0..Len(update.batch) : x = RecordAll(journal, SubSeq(update.batch, 1, n))
  BY <1>1, <1>3, PartSound
<1>4. CASE x = Flushed
  BY <1>1, <1>4, FlushedSound
<1>5. ASSUME NEW k, Ready(k), Operated(by, k, x), update.phase # "Second"
      PROVE  x.failure \in {journal.failure, "Admission"}
  <2>1. k \in Journals /\ k.failure \in {journal.failure, "Admission"}
    BY <1>1, <1>5, FlushedSound DEF Ready
  <2>2. \A d : by = <<"finish", d>> /\ k.failure = "None" => Open(k, d)
    BY <1>5, FinishOpen
  <2>3. by \in Updaters
    BY DEF Turn
  <2>4. Carries(by, k, x)
    BY <1>5, <2>1, <2>2, <2>3, OperatedCarries
  <2> QED BY <2>1, <2>4 DEF Carries
<1> QED BY <1>2, <1>3, <1>4, <1>5 DEF Reached

LEMMA TurnSurvives ==
    ASSUME TypeOK, Account, InSequence, Known, Sources, Surviving, NEW by, Turn(by)
    PROVE  Surviving'
<1> DEFINE Okay == {"None", "Fault", "Backlog", "Admission"}
<1>0. /\ journal.failure \in Okay /\ queue.failure \in Okay
      /\ left \in Lefts
  BY Apart DEF Surviving
<1>1. PICK b \in Budgets : /\ left.faults <= b.faults
                           /\ "Fault" \in {journal.failure, queue.failure} => left.faults < b.faults
  BY DEF Surviving
<1>2. b.faults \in Nat
  BY <1>1, TranscriptAssumption
<1>3. CASE TurnFails(by)
  <2>1. queue'.failure \in {queue.failure, journal'.failure}
    BY <1>3 DEF TurnFails
  <2>2. PICK x \in Journals : Reached(by, x) /\ Fated(x)
    BY <1>3 DEF TurnFails
  <2>3. x.failure \in {journal.failure, "Admission"}
    BY <2>2, ReachedFair
  <2>4. CASE journal'.failure \in {x.failure, queue.failure} /\ UNCHANGED left
    <3>1. journal'.failure \in Okay /\ queue'.failure \in Okay
      BY <1>0, <2>1, <2>3, <2>4
    <3>2. "Fault" \in {journal'.failure, queue'.failure} => "Fault" \in {journal.failure, queue.failure}
      BY <2>1, <2>3, <2>4
    <3> QED BY <1>1, <2>4, <3>1, <3>2 DEF Surviving
  <2>5. CASE journal'.failure \in {x.failure, queue.failure, "Fault"} /\ Spend("faults")
    <3>1. journal'.failure \in Okay /\ queue'.failure \in Okay
      BY <1>0, <2>1, <2>3, <2>5
    <3>2. left.faults \in Nat \ {0} /\ left'.faults = left.faults - 1
      BY <2>5, SpendType
    <3>3. left'.faults < b.faults /\ left'.faults <= b.faults
      BY <1>1, <1>2, <3>2
    <3> QED BY <1>1, <3>1, <3>3 DEF Surviving
  <2> QED BY <2>2, <2>4, <2>5 DEF Fated
<1>4. CASE Goes(by) /\ journal'.failure = "None"
  <2>1. queue'.failure = queue.failure /\ UNCHANGED left
    BY <1>4 DEF Goes
  <2> QED BY <1>0, <1>1, <1>4, <2>1 DEF Surviving
<1> QED BY <1>3, <1>4, TurnGoes

LEMMA GoesCarries ==
    ASSUME TypeOK, Account, InSequence, Known, NEW by, Turn(by), Goes(by), journal'.failure = "None"
    PROVE  /\ Flushed.failure = "None" /\ journal.failure = "None"
           /\ Flushed.finished = journal.finished /\ journal'.finished = journal.finished
           /\ \A d : /\ by # <<"begin", d>> => (Pending(Flushed, d) => Pending(journal', d))
                     /\ by # <<"finish", d>> \/ ~TurnOperates(by) => (Open(Flushed, d) => Open(journal', d))
                     /\ by = <<"begin", d>> /\ TurnOperates(by) /\ ~journal.finished => Open(journal', d)
<1>0. by \in Updaters
  BY DEF Turn
<1>1. CASE ~TurnOperates(by)
  <2>1. Ready(journal')
    BY <1>1 DEF Goes
  <2>2. journal'.calls = Flushed.calls /\ journal'.finished = journal.finished
        /\ Flushed.finished = journal.finished /\ Flushed.failure = "None" /\ journal.failure = "None"
    BY <2>1, ReadyEntries, FlushedEntries DEF Ready
  <2> QED BY <1>1, <2>2 DEF Pending, Open
<1>2. CASE TurnOperates(by)
  <2>1. PICK k : Ready(k) /\ Operated(by, k, journal')
    BY <1>2 DEF TurnOperates
  <2>2. k \in Journals /\ k.calls = Flushed.calls /\ k.failure = Flushed.failure
        /\ k.finished = journal.finished /\ Flushed.finished = journal.finished
    BY <2>1, ReadyEntries, FlushedEntries DEF Ready
  <2>3. update.phase # "Second"
    BY <1>2 DEF TurnOperates
  <2>4. \A d : by = <<"finish", d>> /\ k.failure = "None" => Open(k, d)
    BY <2>1, <2>3, FinishOpen
  <2>5. Carries(by, k, journal')
    BY <1>0, <2>1, <2>2, <2>4, OperatedCarries
  <2>6. k.failure = "None" /\ journal'.finished = k.finished
        /\ \A d : /\ by # <<"begin", d>> => (Pending(k, d) => Pending(journal', d))
                  /\ by # <<"finish", d>> => (Open(k, d) => Open(journal', d))
                  /\ by = <<"begin", d>> /\ ~k.finished => Open(journal', d)
    BY <2>5 DEF Carries
  <2>7. journal.failure = "None"
    BY <2>2, <2>6, FlushedEntries
  <2>8. \A d : (Pending(k, d) <=> Pending(Flushed, d)) /\ (Open(k, d) <=> Open(Flushed, d))
    BY <2>2 DEF Pending, Open
  <2> QED BY <1>2, <2>2, <2>6, <2>7, <2>8
<1> QED BY <1>1, <1>2

LEMMA TurnKnown ==
    ASSUME TypeOK, Account, InSequence, Ending, Known, NEW by, Turn(by)
    PROVE  Known'
<1>1. SUFFICES ASSUME journal'.failure = "None", NEW c \in Calls, Begun(c)', ~Finished(c)'
               PROVE  Open(journal', c)
  BY DEF Known
<1>2. Goes(by)
  BY <1>1, TurnGoes DEF TurnFails
<1>3. /\ Flushed.failure = "None" /\ journal.failure = "None"
      /\ by # <<"finish", c>> \/ ~TurnOperates(by) => (Open(Flushed, c) => Open(journal', c))
      /\ by = <<"begin", c>> /\ TurnOperates(by) /\ ~journal.finished => Open(journal', c)
  BY <1>1, <1>2, GoesCarries
<1>4. CASE Begun(c) /\ ~Finished(c) /\ ~(by = <<"finish", c>> /\ TurnOperates(by))
  <2>1. Open(journal, c)
    BY <1>3, <1>4 DEF Known
  <2>2. Open(Flushed, c)
    BY <1>3, <2>1, FlushedOpen
  <2> QED BY <1>3, <1>4, <2>2
<1>5. CASE by = <<"begin", c>> /\ TurnOperates(by)
  <2>1. handler[c].at = "Beginning"
    BY <1>5 DEF Turn, Holding
  <2>2. ~Late
    BY <2>1 DEF Ending, Winding, AllSettled, Captured
  <2>3. ~journal.finished
    BY <2>2 DEF Ending, Late
  <2> QED BY <1>3, <1>5, <2>3
<1>6. \/ Begun(c) /\ ~Finished(c) /\ ~(by = <<"finish", c>> /\ TurnOperates(by))
      \/ by = <<"begin", c>> /\ TurnOperates(by)
  BY ONLY <1>1, TurnOpens, TypeOK, Account, Turn(by)
<1> QED BY <1>4, <1>5, <1>6

LEMMA TurnSources ==
    ASSUME TypeOK, Account, InSequence, Known, Sources, NEW by, Turn(by)
    PROVE  Sources'
<1>0. /\ source' = source /\ by \in Updaters
      /\ Way = ToSet(update.batch) \cup Ahead
  BY DEF Turn, Way, Ahead
<1>1. Way' \subseteq Way
  BY <1>0, TurnGoes DEF Goes
<1>2. \A c \in Calls : /\ handler'[c].id = handler[c].id
                          \/ (by = <<"begin", c>> /\ handler[c].at = "Beginning" /\ ~handler[c].id)
                       /\ handler[c].at \in {"Running", "Finishing", "Settled"} =>
                             handler'[c].at \in {"Running", "Finishing", "Settled"}
  BY TurnIds
<1>3. \A e \in Way' : e.kind \in OfSource =>
         /\ e.call \in Calls
         /\ source'[e.call] \notin {"None", "Task"}
         /\ handler'[e.call].id
         /\ e.kind = "SourceFinished" => source'[e.call] \in {"Done", "Settled"}
  <2> SUFFICES ASSUME NEW e \in Way', e.kind \in OfSource
               PROVE  /\ e.call \in Calls
                      /\ source'[e.call] \notin {"None", "Task"}
                      /\ handler'[e.call].id
                      /\ e.kind = "SourceFinished" => source'[e.call] \in {"Done", "Settled"}
    OBVIOUS
  <2>1. /\ e.call \in Calls
        /\ source[e.call] \notin {"None", "Task"}
        /\ handler[e.call].id
        /\ e.kind = "SourceFinished" => source[e.call] \in {"Done", "Settled"}
    BY <1>1 DEF Sources
  <2> QED BY <1>0, <1>2, <2>1
<1>4. \A c \in Calls : source'[c] # "None" => handler'[c].at \in {"Running", "Finishing", "Settled"}
  BY <1>0, <1>2 DEF Sources
<1>5. ASSUME journal'.failure = "None"
      PROVE  /\ Goes(by) /\ Way' = Ahead
             /\ Flushed.failure = "None" /\ journal.failure = "None"
             /\ Flushed.finished = journal.finished /\ journal'.finished = journal.finished
             /\ \A d : by # <<"begin", d>> => (Pending(Flushed, d) => Pending(journal', d))
  <2>1. Goes(by)
    BY <1>5, TurnGoes DEF TurnFails
  <2>2. Way' = Ahead
    BY <2>1 DEF Goes
  <2> QED BY <1>5, <2>1, <2>2, GoesCarries
<1>6. ASSUME Writes1(journal') PROVE Sound(journal', Way')
  <2>1. journal'.failure = "None" /\ ~journal'.finished
    BY <1>6 DEF Writes1
  <2>2. Writes1(Flushed)
    BY <1>5, <2>1 DEF Writes1
  <2>3. Sound(Flushed, Ahead)
    <3>1. Writes1(journal) => Sound(journal, Way)
      BY DEF Sources
    <3> QED BY <2>2, <3>1, FlushedSound
  <2>4. \A e \in Ahead : e.kind \in OfSource => by # <<"begin", e.call>>
    <3>1. \A e \in Ahead : e.kind \in OfSource => handler[e.call].id /\ e.call \in Calls
      BY <1>0 DEF Sources
    <3>2. \A c \in Calls : by = <<"begin", c>> => ~handler[c].id
      BY DEF Turn, Holding, Account, Updating
    <3> QED BY <3>1, <3>2
  <2>5. Sound(journal', Ahead)
    BY <1>5, <2>1, <2>3, <2>4, SoundSame
  <2> QED BY <1>5, <2>1, <2>5
<1>7. ASSUME ~Failed', Writes1(journal'), NEW c \in Calls, handler'[c].id,
             source'[c] \in {"Admitted", "Waiting", "Dispatched"}
      PROVE  Live(journal', Way', c)
  <2>1. journal'.failure = "None" /\ ~journal'.finished /\ queue'.failure = "None"
    BY <1>7 DEF Failed, Writes1
  <2>2. by # <<"begin", c>> /\ handler[c].id
    <3>1. handler[c].at # "Beginning"
      BY <1>0, <1>7 DEF Sources
    <3>2. by # <<"begin", c>>
      BY <3>1 DEF Turn, Holding
    <3> QED BY <1>2, <1>7, <3>1, <3>2
  <2>3. Goes(by) /\ queue.failure = "None" /\ Writes1(journal) /\ Writes1(Flushed) /\ ~Failed
    BY <1>5, <2>1 DEF Goes, Writes1, Failed
  <2>4. Live(journal, Way, c)
    BY <1>0, <1>7, <2>2, <2>3 DEF Sources
  <2>5. \A e \in Way : e.kind = "SourceFinished" => e.call # c
    BY <1>0, <1>7 DEF Sources, OfSource
  <2>6. Live(Flushed, Ahead, c)
    BY <2>3, <2>4, <2>5, FlushedLive
  <2>7. Live(journal', Ahead, c)
    BY <1>5, <2>1, <2>2, <2>6 DEF Live
  <2> QED BY <1>5, <2>1, <2>7
<1> QED BY <1>3, <1>4, <1>6, <1>7 DEF Sources

(***************************************************************************)
(* The steps that report no source.                                        *)
(***************************************************************************)
Sourceless ==
    \/ Keeps \/ Drops
    \/ \E e \in Queued : e.kind \notin OfSource /\ (Adds(e) \/ Extends(e))
LEMMA ObservesSourceless ==
    ASSUME TypeOK, InSequence, NEW q \in Queues, Alike(q), NEW e \in Queued, e.kind \notin OfSource,
           Observe(q, e), UNCHANGED update, journal'.entries = journal.entries
    PROVE  Sourceless
<1>1. Reaches1(e)
  BY ObserveSpeaks DEF Spoken1
<1> QED BY <1>1 DEF Reaches1, Sourceless
LEMMA RoutineSourceless ==
    ASSUME TypeOK, InSequence, Routinely, UNCHANGED update, journal'.entries = journal.entries
    PROVE  Sourceless
<1>1. CASE Silently
  BY <1>1, SilentKeeps DEF Sourceless
<1>2. ASSUME NEW q \in Queues, NEW e \in Queued, Alike(q), Routine(e), Observe(q, e) PROVE Sourceless
  BY <1>2, ObservesSourceless DEF Routine, OfSource
<1> QED BY <1>1, <1>2 DEF Routinely
LEMMA ReportedSourceless == ASSUME TypeOK, InSequence, Reported PROVE Sourceless
<1>1. UNCHANGED update /\ journal'.entries = journal.entries
  BY ReportedRest
<1>2. CASE ImageFails
  BY <1>1, <1>2, DisableInSequence DEF ImageFails, Causes, Sourceless
<1>3. CASE ~ImageFails
  <2>1. Routinely
    BY <1>3, WorkerStartingRoutine, AssociateActiveRoutine, WorkerReadyRoutine, StartupFailedRoutine,
       ReserveImageRoutine, RetainImageRoutine DEF Reported
  <2> QED BY <1>1, <2>1, RoutineSourceless
<1> QED BY <1>2, <1>3
LEMMA SumsSourceless ==
    ASSUME TypeOK, InSequence, NEW f, Sums(f), UNCHANGED update, journal'.entries = journal.entries
    PROVE  Sourceless
<1>1. Summary(f) \in Queued /\ Summary(f).kind \notin OfSource
  BY SummaryType, SummaryIs DEF Sums, OfSource
<1> QED BY <1>1, SumsReach DEF Sourceless
LEMMA ScriptSourceless == ASSUME Base, InSequence, ScriptSteps PROVE Sourceless
<1>0. TypeOK /\ UNCHANGED update /\ journal'.entries = journal.entries
  BY ScriptStepsRest DEF Base
<1>1. CASE PlainSteps
  <2>1. CASE UNCHANGED <<queue, drainer>>
    BY <1>0, <2>1, NothingSilent, RoutineSourceless
  <2>2. CASE StartCell \/ EndCell \/ UnownedText \/ WorkerStarted \/ WorkerEnded \/ WorkerRetired
    BY <1>0, <2>2, StartCellRoutine, EndCellRoutine, UnownedTextRoutine, WorkerStartedRoutine,
       WorkerEndedRoutine, WorkerRetiredRoutine, RoutineSourceless
  <2> QED BY <1>1, <2>1, <2>2 DEF PlainSteps, CloseCell, Write, CreateFile
<1>2. CASE TextEvent
  <2>1. tape # <<>> /\ Head(tape).do = "Text" /\ Observe(queue, Head(tape).arg)
    BY <1>2 DEF TextEvent, Doing
  <2>2. Head(tape).arg \in Queued /\ Head(tape).arg.kind \notin OfSource
    <3>1. Head(tape) = tape[1] /\ 1 \in DOMAIN tape /\ Head(tape) \in Steps
      BY <1>0, <2>1, Head1
    <3>2. Head(tape).arg \in Queued
      BY <2>1, <3>1 DEF Steps
    <3>3. Head(tape).arg.kind = "OutputText"
      BY <2>1, <3>1 DEF Base, Telling
    <3> QED BY <3>2, <3>3 DEF OfSource
  <2> QED BY <1>0, <2>1, <2>2, Apart, QueueAlike, ObservesSourceless
<1>3. CASE CloseIdle /\ Sums(output.idle)
  BY <1>0, <1>3, SumsSourceless
<1>4. CASE \E f \in output.receipts : PublishesReceipt(f) /\ Sums(f)
  BY <1>0, <1>4, SumsSourceless
<1> QED BY <1>1, <1>2, <1>3, <1>4, ScriptCases
LEMMA DeliveredSourceless == ASSUME Base, InSequence, Delivered PROVE Sourceless
<1>0. TypeOK /\ UNCHANGED update /\ journal'.entries = journal.entries
  BY DeliveredRest DEF Base
<1>1. PICK f \in output.receipts : PublishesReceipt(f)
  BY DEF Delivered, DeliverReceipt
<1>2. Sums(f)
  BY <1>1 DEF Base, HasFiles, Sums, PublishesReceipt
<1> QED BY <1>0, <1>2, SumsSourceless

(* What is on its way has the same sources, or the queue failed.           *)
LEMMA WayQuiet ==
    ASSUME TypeOK, InSequence, Accounted', Sourceless, UNCHANGED update
    PROVE  \/ SourcesIn(Way') = SourcesIn(Way)
              /\ (queue'.failure = "None" => queue.failure = "None")
           \/ Way' = ToSet(update.batch) /\ queue'.failure # "None"
<1>1. CASE Keeps
  BY <1>1, KeepsWay DEF Keeps
<1>2. CASE Drops
  <2>1. queue'.pending = <<>> /\ queue'.failure # "None"
    BY <1>2 DEF Accounted, QueueAccounted, Drops
  <2> QED BY <2>1, NoneSet DEF Way
<1>3. ASSUME NEW e \in Queued, e.kind \notin OfSource, Adds(e)
      PROVE  SourcesIn(Way') = SourcesIn(Way) /\ queue.failure = "None"
  <2>1. Numbered(e).kind = e.kind
    BY DEF Numbered, Queued, Events
  <2>2. Way' = Way \cup {Numbered(e)}
    BY <1>3 DEF Adds
  <2>3. SourcesIn(Way \cup {Numbered(e)}) = SourcesIn(Way)
    BY <1>3, <2>1 DEF SourcesIn
  <2> QED BY <1>3, <2>2, <2>3 DEF Adds
<1>4. ASSUME NEW e \in Queued, e.kind \notin OfSource, Extends(e)
      PROVE  SourcesIn(Way') = SourcesIn(Way) /\ queue.failure = "None"
  <2>1. PICK d \in Way : d.kind = "OutputText" /\ Way' = (Way \ {d}) \cup {Longer(d, e)}
    BY <1>4 DEF Extends
  <2>2. Longer(d, e).kind = "OutputText"
    <3>1. d \in Queued
      BY <2>1, WayType
    <3> QED BY <2>1, <3>1 DEF Longer, Queued, Events
  <2>3. SourcesIn((Way \ {d}) \cup {Longer(d, e)}) = SourcesIn(Way)
    BY <2>1, <2>2 DEF SourcesIn, OfSource
  <2> QED BY <1>4, <2>1, <2>3 DEF Extends
<1> QED BY <1>1, <1>2, <1>3, <1>4 DEF Sourceless

LEMMA BatchSound ==
    ASSUME TypeOK, InSequence, NEW j, Sound(j, Way) PROVE Sound(j, ToSet(update.batch))
<1>1. Way = ToSet(update.batch) \cup Ahead /\ Way \in SUBSET Queued
  BY WayType DEF Way, Ahead
<1>2. \A d \in ToSet(update.batch), e \in Ahead : d.at < e.at
  BY DEF InSequence, Ahead
<1>3. \A e \in Way : e.at \in Nat
  BY <1>1, QueuedKinds
<1>4. \A e \in ToSet(update.batch), d \in Way : d.at < e.at => d \in ToSet(update.batch)
  <2> SUFFICES ASSUME NEW e \in ToSet(update.batch), NEW d \in Way, d.at < e.at, d \notin ToSet(update.batch)
               PROVE  FALSE
    OBVIOUS
  <2>1. e.at < d.at /\ e.at \in Nat /\ d.at \in Nat
    BY <1>1, <1>2, <1>3
  <2> QED BY <2>1
<1> QED BY <1>1, <1>4, SoundBelow

(***************************************************************************)
(* The steps of the handlers and of their sources.                         *)
(***************************************************************************)
Active1(s) == s \in {"Admitted", "Waiting", "Dispatched"}
(* Nothing that an event on its way needs is taken back.                   *)
Onward ==
    /\ source' \in Sources1
    /\ \A c \in Calls :
         /\ handler'[c].id = handler[c].id
         /\ handler[c].at = "Settled" => handler'[c].at = "Settled"
         /\ source[c] \notin {"None", "Task"} => source'[c] \notin {"None", "Task"}
         /\ source[c] \in {"Done", "Settled"} => source'[c] \in {"Done", "Settled"}
         /\ source'[c] # "None" => handler'[c].at \in {"Running", "Finishing", "Settled"}
SameWrites ==
    /\ UNCHANGED update /\ journal'.calls = journal.calls /\ journal'.failure = journal.failure
    /\ Writes1(journal') => Writes1(journal)

LEMMA SameKnown == ASSUME Known, SameWrites, Onward PROVE Known'
<1>1. \A c \in Calls : (Begun(c)' <=> Begun(c)) /\ (~Finished(c)' => ~Finished(c))
  BY DEF SameWrites, Onward, Begun, Finished, Is
<1> QED BY <1>1 DEF Known, SameWrites, Open

LEMMA QuietSources ==
    ASSUME TypeOK, InSequence, Accounted', Sources, SameWrites, Onward, Sourceless,
           ~Failed' => \A c \in Calls : handler[c].id /\ Active1(source'[c]) => Active1(source[c])
    PROVE  Sources'
<1>1. \/ /\ SourcesIn(Way') = SourcesIn(Way)
         /\ queue'.failure = "None" => queue.failure = "None"
      \/ Way' = ToSet(update.batch) /\ queue'.failure # "None"
  BY WayQuiet DEF SameWrites
<1>2. \A c : Pending(journal', c) <=> Pending(journal, c)
  BY DEF Pending, SameWrites
<1>3. ASSUME Writes1(journal') PROVE Sound(journal', Way')
  <2>1. Sound(journal, Way)
    BY <1>3 DEF SameWrites, Sources
  <2>2. CASE SourcesIn(Way') = SourcesIn(Way)
    BY <1>2, <2>1, <2>2, SoundSame
  <2>3. CASE Way' = ToSet(update.batch)
    <3>1. Sound(journal, Way')
      BY <2>1, <2>3, BatchSound
    <3> QED BY <1>2, <3>1, SoundSame
  <2> QED BY <1>1, <2>2, <2>3
<1>4. \A e \in Way' : e.kind \in OfSource => e \in Way
  BY <1>1 DEF SourcesIn, Way
<1>5. \A e \in Way' : e.kind \in OfSource =>
         /\ e.call \in Calls
         /\ source'[e.call] \notin {"None", "Task"}
         /\ handler'[e.call].id
         /\ e.kind = "SourceFinished" => source'[e.call] \in {"Done", "Settled"}
  BY <1>4 DEF Sources, Onward
<1>6. ASSUME ~Failed', Writes1(journal'), NEW c \in Calls, handler'[c].id,
             source'[c] \in {"Admitted", "Waiting", "Dispatched"}
      PROVE  Live(journal', Way', c)
  <2>1. SourcesIn(Way') = SourcesIn(Way) /\ queue.failure = "None"
    BY <1>1, <1>6 DEF Failed
  <2>2. handler[c].id /\ source[c] \in {"Admitted", "Waiting", "Dispatched"}
    BY <1>6 DEF Onward, Active1
  <2>3. ~Failed /\ Writes1(journal)
    BY <1>6, <2>1 DEF SameWrites, Writes1, Failed
  <2>4. Live(journal, Way, c)
    BY <2>2, <2>3 DEF Sources
  <2>5. \A e : e \in Way /\ e.kind \in OfSource => e \in Way'
    BY <2>1 DEF SourcesIn
  <2> QED BY <1>2, <2>4, <2>5 DEF Live, OfSource
<1>7. \A c \in Calls : source'[c] # "None" => handler'[c].at \in {"Running", "Finishing", "Settled"}
  BY DEF Onward
<1> QED BY <1>3, <1>5, <1>6, <1>7 DEF Sources

(* An event about a source is the last on its way.                         *)
LEMMA AddsSources ==
    ASSUME TypeOK, InSequence, Sources, SameWrites, Onward, NEW e \in Queued, e.kind \in OfSource,
           Adds(e), e.call \in Calls, handler[e.call].id,
           source[e.call] \notin {"Done", "Settled"},
           e.kind # "SourceAdmitted" => source[e.call] \in {"Waiting", "Dispatched"},
           source'[e.call] \notin {"None", "Task"},
           e.kind = "SourceFinished" => source'[e.call] \in {"Done", "Settled"},
           \A c \in Calls : Active1(source'[c]) =>
              Active1(source[c]) \/ (c = e.call /\ e.kind = "SourceAdmitted")
    PROVE  Sources'
<1> DEFINE x == Numbered(e)
<1>1. /\ Way' = Way \cup {x} /\ queue.failure = "None"
      /\ x.kind = e.kind /\ x.call = e.call /\ x.at = Next2
  BY DEF Adds, Numbered, Queued, Events
<1>2. \A d \in Way : d.at < x.at /\ d.at \in Nat
  <2>1. \A d \in Way : d.at <= queue.observed
    BY DEF InSequence, Line
  <2>2. Way \in SUBSET Queued /\ queue.observed \in Nat
    BY WayType
  <2>3. \A d \in Way : d.at \in Nat
    BY <2>2, QueuedKinds
  <2> HIDE DEF x
  <2> QED BY <1>1, <2>1, <2>2, <2>3 DEF Next2
<1> HIDE DEF x
<1>3. x.at \in Nat
  BY <1>1, WayType DEF Next2
<1>4. \A c : Pending(journal', c) <=> Pending(journal, c)
  BY DEF Pending, SameWrites
<1>5. \A d \in Way : d.kind = "SourceFinished" => d.call # e.call
  BY DEF Sources, OfSource
<1>6. ASSUME Writes1(journal') PROVE Sound(journal', Way')
  <2>1. Sound(journal, Way) /\ Writes1(journal)
    BY <1>6 DEF SameWrites, Sources
  <2>2. ~Failed
    BY <1>1, <2>1 DEF Failed, Writes1
  <2>3. ASSUME NEW f \in Way', f.kind \in {"SourceAssociated", "SourceFinished"}
        PROVE  Pending(journal', f.call)
               \/ \E d \in Way' : d.kind = "SourceAdmitted" /\ d.call = f.call /\ d.at < f.at
    <3>1. CASE f \in Way
      <4>1. Pending(journal, f.call) \/ \E d \in Way : d.kind = "SourceAdmitted" /\ d.call = f.call /\ d.at < f.at
        BY <2>1, <2>3, <3>1 DEF Sound
      <4> QED BY <1>1, <1>4, <4>1
    <3>2. CASE f = x
      <4>1. source[e.call] \in {"Waiting", "Dispatched"}
        BY <1>1, <2>3, <3>2
      <4>2. Live(journal, Way, e.call)
        BY <2>1, <2>2, <4>1 DEF Sources
      <4>3. f.call = e.call
        BY <1>1, <3>2
      <4> QED BY <1>1, <1>2, <1>4, <3>2, <4>2, <4>3 DEF Live
    <3> QED BY <1>1, <3>1, <3>2
  <2>4. ASSUME NEW d \in Way', NEW f \in Way', d.kind = "SourceFinished", d.at < f.at, f.call = d.call
        PROVE  f.kind \notin OfSource
    <3>1. CASE d \in Way /\ f \in Way
      BY <2>1, <2>4, <3>1 DEF Sound
    <3>2. CASE d \in Way /\ f = x
      BY <1>1, <1>5, <2>4, <3>2
    <3>3. CASE d = x
      <4>1. f \in Way \/ f = x
        BY <1>1
      <4> QED BY <1>2, <1>3, <2>4, <3>3, <4>1
    <3> QED BY <1>1, <3>1, <3>2, <3>3
  <2> QED BY <2>3, <2>4 DEF Sound
<1>7. \A f \in Way' : f.kind \in OfSource =>
         /\ f.call \in Calls
         /\ source'[f.call] \notin {"None", "Task"}
         /\ handler'[f.call].id
         /\ f.kind = "SourceFinished" => source'[f.call] \in {"Done", "Settled"}
  <2>1. ASSUME NEW f \in Way, f.kind \in OfSource
        PROVE  /\ f.call \in Calls
               /\ source'[f.call] \notin {"None", "Task"}
               /\ handler'[f.call].id
               /\ f.kind = "SourceFinished" => source'[f.call] \in {"Done", "Settled"}
    BY <2>1 DEF Sources, Onward
  <2>2. x.call \in Calls /\ source'[x.call] \notin {"None", "Task"} /\ handler'[x.call].id
        /\ (x.kind = "SourceFinished" => source'[x.call] \in {"Done", "Settled"})
    BY <1>1 DEF Onward
  <2> QED BY <1>1, <2>1, <2>2
<1>8. ASSUME ~Failed', Writes1(journal'), NEW c \in Calls, handler'[c].id,
             source'[c] \in {"Admitted", "Waiting", "Dispatched"}
      PROVE  Live(journal', Way', c)
  <2>1. CASE c = e.call /\ e.kind = "SourceAdmitted"
    BY <1>1, <2>1 DEF Live
  <2>2. CASE Active1(source[c])
    <3>1. ~Failed /\ Writes1(journal) /\ handler[c].id
      BY <1>1, <1>8 DEF SameWrites, Writes1, Failed, Onward
    <3>2. Live(journal, Way, c)
      BY <2>2, <3>1 DEF Sources, Active1
    <3> QED BY <1>1, <1>4, <3>2 DEF Live
  <2> QED BY <1>8, <2>1, <2>2 DEF Active1
<1>9. \A c \in Calls : source'[c] # "None" => handler'[c].at \in {"Running", "Finishing", "Settled"}
  BY DEF Onward
<1> QED BY <1>6, <1>7, <1>8, <1>9 DEF Sources

(* Such an event is reported, or the queue fails, or it had failed.        *)
LEMMA ReportsSource ==
    ASSUME TypeOK, InSequence, NEW e \in Queued, e.kind \in OfSource, Observe(queue, e),
           UNCHANGED update, journal'.entries = journal.entries
    PROVE  Adds(e) \/ (Sourceless /\ queue'.failure # "None")
<1>1. Reaches1(e)
  BY Apart, QueueAlike, ObserveSpeaks DEF Spoken1
<1>2. ~Extends(e)
  BY DEF Extends, OfSource
<1> QED BY <1>1, <1>2 DEF Reaches1, Sourceless, Keeps, Drops

LEMMA UnchangedOnward ==
    ASSUME TypeOK, Sources, UNCHANGED <<handler, source>> PROVE Onward
BY Apart DEF Sources, Onward
LEMMA HandledOnward ==
    ASSUME TypeOK, Sources, UNCHANGED source, NEW c \in Calls, NEW at,
           handler' = [handler EXCEPT ![c].at = at], handler[c].at # "Settled",
           source[c] # "None" => at \in {"Running", "Finishing", "Settled"}
    PROVE  Onward
<1>1. handler \in Handlers /\ source \in Sources1
  BY Apart
<1>2. /\ handler'[c].at = at /\ handler'[c].id = handler[c].id
      /\ \A d \in Calls \ {c} : handler'[d] = handler[d]
  BY <1>1 DEF Handlers
<1> QED BY <1>1, <1>2 DEF Sources, Onward
LEMMA SourcedOnward ==
    ASSUME TypeOK, Sources, UNCHANGED handler, NEW c \in Calls, NEW s,
           source' = [source EXCEPT ![c] = s], s \in {"Task", "Admitted", "Waiting", "Dispatched", "Done", "Settled"},
           source[c] = "None" => handler[c].at = "Running",
           source[c] \notin {"None", "Task"} => s # "Task",
           source[c] \in {"Done", "Settled"} => s \in {"Done", "Settled"}
    PROVE  Onward /\ source'[c] = s /\ \A d \in Calls \ {c} : source'[d] = source[d]
<1>1. source \in Sources1
  BY Apart
<1>2. source'[c] = s /\ \A d \in Calls \ {c} : source'[d] = source[d]
  BY <1>1 DEF Sources1
<1>3. source' \in Sources1
  BY <1>1 DEF Sources1
<1> QED BY <1>2, <1>3 DEF Sources, Onward

LEMMA SentSources ==
    ASSUME TypeOK, Account, Accounted', InSequence, Known, Sources, Sent
    PROVE  Known' /\ Sources'
<1>0. /\ UNCHANGED <<update, journal>> /\ SameWrites /\ source \in Sources1 /\ handler \in Handlers
      /\ queue \in Queues
  BY Apart, SentRest DEF SameWrites
<1>1. ASSUME Onward, Sourceless,
             ~Failed' => \A d \in Calls : handler[d].id /\ Active1(source'[d]) => Active1(source[d])
      PROVE  Known' /\ Sources'
  BY ONLY <1>0, <1>1, TypeOK, InSequence, Accounted', Known, Sources, SameKnown, QuietSources
<1>2. UNCHANGED <<queue, drainer>> => Sourceless
  BY SameKeeps DEF Sourceless
<1>3. ASSUME NEW c \in Calls, Receive(c) PROVE Known' /\ Sources'
  <2>1. PICK at : handler' = [handler EXCEPT ![c].at = at]
    BY <1>3 DEF Receive
  <2>2. handler[c].at = "Unsent" /\ UNCHANGED source
    <3>1. c > transport.received
      BY <1>3, Apart, CallsAreNat DEF Receive
    <3> QED BY <1>3, <3>1 DEF Account, Updating, Receive
  <2>3. source[c] = "None"
    BY <2>2 DEF Sources
  <2>4. Onward
    BY <2>1, <2>2, <2>3, HandledOnward
  <2>5. Sourceless
    BY <1>0, <1>3, ReceiveRoutine, RoutineSourceless
  <2> QED BY <1>1, <2>2, <2>4, <2>5
<1>4. ASSUME NEW c \in Calls, Return(c) PROVE Known' /\ Sources'
  <2> DEFINE at == IF handler[c].id THEN "Finishing" ELSE "Settled"
  <2>1. handler' = [handler EXCEPT ![c].at = at] /\ UNCHANGED source /\ handler[c].at = "Running"
        /\ UNCHANGED <<queue, drainer>>
    BY <1>4 DEF Return
  <2>2. at \in {"Finishing", "Settled"}
    OBVIOUS
  <2> HIDE DEF at
  <2>3. Onward
    BY <2>1, <2>2, HandledOnward
  <2> QED BY <1>1, <1>2, <2>1, <2>3
<1>5. ASSUME NEW c \in Calls, Submit(c) PROVE Known' /\ Sources'
  <2>1. handler[c].at = "Running" /\ source[c] = "None" /\ source' = [source EXCEPT ![c] = "Task"]
        /\ UNCHANGED <<queue, drainer, handler>>
    BY <1>5 DEF Submit
  <2>2. Onward /\ source'[c] = "Task" /\ \A d \in Calls \ {c} : source'[d] = source[d]
    BY <2>1, SourcedOnward
  <2> QED BY <1>1, <1>2, <2>1, <2>2 DEF Active1
<1>6. ASSUME NEW c \in Calls, RefuseSource(c) PROVE Known' /\ Sources'
  <2>1. source[c] = "Task" /\ source' = [source EXCEPT ![c] = "Done"]
        /\ UNCHANGED <<queue, drainer, handler>>
    BY <1>6 DEF RefuseSource
  <2>2. Onward /\ source'[c] = "Done" /\ \A d \in Calls \ {c} : source'[d] = source[d]
    BY <2>1, SourcedOnward
  <2> QED BY <1>1, <1>2, <2>1, <2>2 DEF Active1
<1>7. ASSUME NEW c \in Calls, AssociateWaiting(c) PROVE Known' /\ Sources'
  <2>1. source[c] = "Admitted" /\ source' = [source EXCEPT ![c] = "Waiting"] /\ UNCHANGED handler
    BY <1>7 DEF AssociateWaiting
  <2>2. Onward /\ source'[c] = "Waiting" /\ \A d \in Calls \ {c} : source'[d] = source[d]
    BY <2>1, SourcedOnward
  <2>3. Sourceless
    BY <1>0, <1>7, AssociateWaitingRoutine, RoutineSourceless
  <2> QED BY <1>1, <2>1, <2>2, <2>3 DEF Active1
<1>8. ASSUME NEW c \in Calls, NEW e \in Queued, e.kind \in OfSource, e.call = c, UNCHANGED handler,
             NEW s \in {"Admitted", "Dispatched", "Done", "Settled"}, source' = [source EXCEPT ![c] = s],
             source[c] \in {"Task", "Waiting", "Dispatched"},
             e.kind # "SourceAdmitted" => source[c] \in {"Waiting", "Dispatched"},
             e.kind = "SourceFinished" => s \in {"Done", "Settled"},
             s = "Admitted" => e.kind = "SourceAdmitted",
             s = "Dispatched" => source[c] = "Waiting",
             IF handler[c].id THEN Observe(queue, e) \/ (s = "Dispatched" /\ UNCHANGED <<queue, drainer>>)
             ELSE UNCHANGED <<queue, drainer>>
      PROVE  Known' /\ Sources'
  <2>1. Onward /\ source'[c] = s /\ \A d \in Calls \ {c} : source'[d] = source[d]
    <3>1. /\ source[c] # "None" /\ s # "Task" /\ source[c] \notin {"Done", "Settled"}
          /\ s \in {"Task", "Admitted", "Waiting", "Dispatched", "Done", "Settled"}
      BY <1>8
    <3> QED BY <1>8, <3>1, SourcedOnward
  <2>2. Known'
    BY <1>0, <2>1, SameKnown
  <2>3. CASE ~handler[c].id
    <3>1. \A d \in Calls : handler[d].id /\ Active1(source'[d]) => Active1(source[d])
      BY <2>1, <2>3
    <3> QED BY <1>1, <1>2, <1>8, <2>1, <2>3, <3>1
  <2>4. CASE s = "Dispatched" /\ UNCHANGED <<queue, drainer>>
    <3>1. \A d \in Calls : handler[d].id /\ Active1(source'[d]) => Active1(source[d])
      BY <1>8, <2>1, <2>4 DEF Active1
    <3> QED BY <1>1, <1>2, <2>1, <2>4, <3>1
  <2>5. CASE handler[c].id /\ Observe(queue, e)
    <3>1. Adds(e) \/ (Sourceless /\ queue'.failure # "None")
      BY <1>0, <1>8, <2>5, ReportsSource
    <3>2. CASE Sourceless /\ queue'.failure # "None"
      BY <1>1, <2>1, <3>2 DEF Failed
    <3>3. CASE Adds(e)
      <4>1. source'[e.call] \notin {"None", "Task"}
            /\ (e.kind = "SourceFinished" => source'[e.call] \in {"Done", "Settled"})
            /\ e.call \in Calls /\ handler[e.call].id /\ source[e.call] \notin {"Done", "Settled"}
            /\ (e.kind # "SourceAdmitted" => source[e.call] \in {"Waiting", "Dispatched"})
        BY <1>8, <2>1, <2>5
      <4>2. \A d \in Calls : Active1(source'[d]) =>
              Active1(source[d]) \/ (d = e.call /\ e.kind = "SourceAdmitted")
        BY <1>8, <2>1 DEF Active1
      <4>3. Sources'
        BY ONLY <1>0, <1>8, <2>1, <3>3, <4>1, <4>2, TypeOK, InSequence, Sources, AddsSources
      <4> QED BY <2>2, <4>3
    <3> QED BY <3>1, <3>2, <3>3
  <2> QED BY <1>8, <2>3, <2>4, <2>5
<1>9. ASSUME NEW c \in Calls, AdmitSource(c) PROVE Known' /\ Sources'
  <2> DEFINE e == Plain("SourceAdmitted", c)
  <2>1. /\ e \in Queued /\ e.kind = "SourceAdmitted" /\ e.call = c
        /\ source[c] = "Task" /\ source' = [source EXCEPT ![c] = "Admitted"] /\ UNCHANGED handler
        /\ IF handler[c].id THEN Observe(queue, e) ELSE UNCHANGED <<queue, drainer>>
    BY <1>9, SourceEvents DEF AdmitSource, Plain, Event
  <2> HIDE DEF e
  <2>2. e.kind \in OfSource
    BY <2>1 DEF OfSource
  <2> QED BY <1>8, <2>1, <2>2
<1>10. ASSUME NEW c \in Calls, Dispatch(c) PROVE Known' /\ Sources'
  <2> DEFINE e == Event("SourceAssociated", c, queue.owner, 0, 0)
  <2>1. /\ e \in Queued /\ e.kind = "SourceAssociated" /\ e.call = c
        /\ source[c] = "Waiting" /\ source' = [source EXCEPT ![c] = "Dispatched"] /\ UNCHANGED handler
        /\ IF handler[c].id THEN Observe(queue, e) \/ UNCHANGED <<queue, drainer>>
           ELSE UNCHANGED <<queue, drainer>>
    BY <1>10, SourceEvents DEF Dispatch, Event
  <2> HIDE DEF e
  <2>2. e.kind \in OfSource
    BY <2>1 DEF OfSource
  <2> QED BY <1>8, <2>1, <2>2
<1>11. ASSUME NEW c \in Calls, SettleSource(c) PROVE Known' /\ Sources'
  <2> DEFINE e == Plain("SourceFinished", c)
  <2>1. /\ e \in Queued /\ e.kind = "SourceFinished" /\ e.call = c
        /\ source[c] \in {"Waiting", "Dispatched"} /\ UNCHANGED handler
        /\ IF handler[c].id THEN Observe(queue, e) ELSE UNCHANGED <<queue, drainer>>
    BY <1>11, SourceEvents DEF SettleSource, Plain, Event
  <2>2. \E s \in {"Done", "Settled"} : source' = [source EXCEPT ![c] = s]
    BY <1>11 DEF SettleSource
  <2> HIDE DEF e
  <2>3. e.kind \in OfSource
    BY <2>1 DEF OfSource
  <2> QED BY <1>8, <2>1, <2>2, <2>3
<1> QED BY <1>3, <1>4, <1>5, <1>6, <1>7, <1>9, <1>10, <1>11 DEF Sent

(***************************************************************************)
(* What disables a recording.                                              *)
(***************************************************************************)
Poorer == left' \in Lefts /\ left'.faults <= left.faults
LEMMA SpendPoorer ==
    ASSUME TypeOK, NEW of \in {"calls", "cells", "workers", "outputs"}, Spend(of) PROVE Poorer
<1>1. left' \in Lefts /\ left'.faults = left.faults /\ left.faults \in Nat
  BY SpendType, Apart DEF Lefts
<1> QED BY <1>1 DEF Poorer
LEMMA FaultPoorer == ASSUME TypeOK, NEW kind, Fault(kind) PROVE Poorer
<1>1. left' \in Lefts /\ left.faults \in Nat \ {0} /\ left'.faults = left.faults - 1
  BY FaultType
<1> QED BY <1>1 DEF Poorer
LEMMA SamePoorer == ASSUME TypeOK, UNCHANGED left PROVE Poorer
BY Apart DEF Poorer, Lefts
LEMMA ScriptPoorer == ASSUME Base, ScriptSteps PROVE Poorer
<1>0. TypeOK
  BY DEF Base
<1>1. CASE Write
  <2>1. UNCHANGED left \/ Fault("Output")
    BY <1>1, WriteDoes DEF Writes
  <2> QED BY <1>0, <2>1, FaultPoorer, SamePoorer
<1>2. UNCHANGED left \/ Write
  BY DEF ScriptSteps, CloseIdle, CloseCell, PublishCell, PublishReceipts, StartCell, CreateFile, EndCell,
     TextEvent, UnownedText, WorkerStarted, WorkerEnded, WorkerRetired
<1> QED BY <1>0, <1>1, <1>2, SamePoorer
LEMMA OthersPoorer ==
    ASSUME Base, Filed \/ Reported \/ Sent \/ Told1 \/ Planned \/ ScriptSteps \/ Delivered
    PROVE  Poorer
<1>0. TypeOK
  BY DEF Base
<1>1. CASE Filed \/ Told1
  BY <1>0, <1>1, SamePoorer DEF Filed, CopyRest, Relocate, FinalizeStorage, Told1, DrainEnds, Close,
     CloseQueue, closingRest
<1>2. CASE Reported
  BY <1>0, <1>2, SamePoorer, FaultPoorer, SpendPoorer DEF Reported, WorkerStarting, AssociateActive,
     WorkerReady, StartupFailed, ReserveImage, RetainImage, ImageFails, workerRest
<1>3. CASE Sent
  BY <1>0, <1>3, SamePoorer, SpendPoorer DEF Sent, Receive, Submit, AssociateWaiting, AdmitSource,
     Return, RefuseSource, Dispatch, SettleSource, sendRest
<1>4. CASE Planned
  BY <1>0, <1>4, SamePoorer, SpendPoorer DEF Planned, Acquire, WorkerEnds, Retire, Text, CellEnds,
     FinishRecording, EnterCell, workerRest, closingRest
<1>5. CASE Delivered
  BY <1>0, <1>5, SamePoorer DEF Delivered, DeliverReceipt
<1> QED BY <1>1, <1>2, <1>3, <1>4, <1>5, ScriptPoorer

(* Whoever reports, the queue fails only when it is full.                  *)
LEMMA ObserveFails ==
    ASSUME TypeOK, NEW q \in Queues, Alike(q), NEW e \in Queued, Observe(q, e)
    PROVE  queue'.failure \in {queue.failure, "Backlog"}
<1>1. Pushed(q, e).failure \in {q.failure, "Backlog"}
  BY StoppedType DEF Pushed, Extended, Added, Causes, Queues
<1>2. Pushed(q, e) \in Queues
  BY PushedType
<1>3. Draining(Pushed(q, e)).failure = Pushed(q, e).failure
  BY <1>2 DEF Draining, Queues
<1> QED BY <1>1, <1>3 DEF Observe, Alike
LEMMA ReportsFail ==
    ASSUME TypeOK, Reports PROVE queue'.failure \in {queue.failure, "Backlog"}
BY ObserveFails DEF Reports
LEMMA ReportSurvives ==
    ASSUME TypeOK, Surviving, Poorer, journal'.failure = journal.failure,
           queue'.failure \in {queue.failure, "Backlog"}
    PROVE  Surviving'
<1>1. PICK b \in Budgets : /\ left.faults <= b.faults
                           /\ "Fault" \in {journal.failure, queue.failure} => left.faults < b.faults
  BY DEF Surviving
<1>2. b.faults \in Nat /\ left.faults \in Nat /\ left'.faults \in Nat /\ left'.faults <= left.faults
  BY <1>1, TranscriptAssumption, Apart DEF Poorer, Lefts
<1>3. left'.faults <= b.faults /\ (left.faults < b.faults => left'.faults < b.faults)
  BY <1>1, <1>2
<1> QED BY <1>1, <1>3 DEF Surviving
LEMMA ImageSurvives == ASSUME TypeOK, Surviving, ImageFails PROVE Surviving'
<1>1. PICK b \in Budgets : left.faults <= b.faults
  BY DEF Surviving
<1>2. b.faults \in Nat /\ left.faults \in Nat \ {0} /\ left'.faults = left.faults - 1
  BY <1>1, TranscriptAssumption, FaultType DEF ImageFails
<1>3. left'.faults < b.faults /\ left'.faults <= b.faults
  BY <1>1, <1>2
<1>4. journal' = journal /\ queue'.failure \in {queue.failure, "Fault"}
  <2>1. Stopped(queue, "Fault") \in Queues /\ Stopped(queue, "Fault").failure \in {queue.failure, "Fault"}
    BY Apart, StoppedType DEF Causes
  <2>2. Draining(Stopped(queue, "Fault")).failure = Stopped(queue, "Fault").failure
    BY <2>1 DEF Draining, Queues
  <2> QED BY <2>1, <2>2 DEF ImageFails, Disable, imageRest
<1> QED BY <1>1, <1>3, <1>4 DEF Surviving

LEMMA SurvivingStep ==
    ASSUME Base, Account, InSequence, Ending, Known, Sources, Surviving, Accounted', [Next]_vars
    PROVE  Known' /\ Sources' /\ Surviving'
<1>0. TypeOK
  BY DEF Base
<1>1. ASSUME Keeps, UNCHANGED <<update, handler, source>>, SameWrites, Poorer
      PROVE  Known' /\ Sources' /\ Surviving'
  <2>1. Onward /\ Sourceless /\ journal'.failure = journal.failure /\ queue'.failure = queue.failure
    BY <1>0, <1>1, UnchangedOnward DEF Sourceless, SameWrites, Keeps
  <2>2. Known'
    BY <1>1, <2>1, SameKnown
  <2>3. Sources'
    BY <1>0, <1>1, <2>1, QuietSources
  <2>4. Surviving'
    BY <1>0, <1>1, <2>1, ReportSurvives
  <2> QED BY <2>2, <2>3, <2>4
<1>2. ASSUME Sourceless, UNCHANGED <<update, journal, handler, source>>
      PROVE  Known' /\ Sources'
  <2>1. Onward /\ SameWrites
    BY <1>0, <1>2, UnchangedOnward DEF SameWrites
  <2>2. Known'
    BY <2>1, SameKnown
  <2>3. Sources'
    BY <1>0, <1>2, <2>1, QuietSources
  <2> QED BY <2>2, <2>3
<1>3. CASE UNCHANGED vars
  BY <1>0, <1>1, <1>3, SameKeeps, SamePoorer DEF vars, SameWrites
<1>4. CASE Updated \/ FinishPublication
  <2>1. PICK by : Turn(by)
    BY <1>0, <1>4, UpdatedTurns
  <2> QED BY <1>0, <2>1, TurnKnown, TurnSources, TurnSurvives
<1>5. CASE Filed
  <2>1. UNCHANGED <<queue, update, handler, source>> /\ journal'.failure = journal.failure
        /\ journal'.calls = journal.calls
    BY <1>0, <1>5, FiledRest DEF Filed, CopyRest, Relocate, FinalizeStorage
  <2>2. Writes1(journal') => Writes1(journal)
    <3>1. CASE FinalizeStorage
      BY <3>1, <2>1 DEF FinalizeStorage, Ending, Writes1
    <3>2. CASE ~FinalizeStorage
      <4>1. journal'.finished = journal.finished
        BY <1>0, <1>5, <3>2, Apart DEF Filed, CopyRest, Relocate, Journals
      <4> QED BY <2>1, <4>1 DEF Writes1
    <3> QED BY <3>1, <3>2
  <2> QED BY <1>1, <1>5, <2>1, <2>2, SameKeeps, OthersPoorer DEF SameWrites
<1>6. CASE Reported
  <2>1. Known' /\ Sources'
    BY <1>0, <1>2, <1>6, ReportedRest, ReportedSourceless
  <2>2. CASE ImageFails
    BY <1>0, <2>1, <2>2, ImageSurvives
  <2>3. CASE ~ImageFails
    BY <1>0, <1>6, <2>1, <2>3, ReportedRest, ReportedReports, ReportsFail, OthersPoorer, ReportSurvives
  <2> QED BY <2>2, <2>3
<1>7. CASE Sent
  BY <1>0, <1>7, SentSources, SentRest, SentReports, ReportsFail, OthersPoorer, ReportSurvives
<1>8. CASE Told1
  BY <1>0, <1>1, <1>8, Told1Rest, OthersPoorer DEF SameWrites
<1>9. CASE Planned
  BY <1>1, <1>9, PlannedRest, SameKeeps, OthersPoorer DEF SameWrites
<1>10. CASE ScriptSteps
  BY <1>0, <1>2, <1>10, ScriptStepsRest, ScriptSourceless, ScriptStepsReport, ReportsFail, OthersPoorer,
     ReportSurvives
<1>11. CASE Delivered
  BY <1>0, <1>2, <1>11, DeliveredRest, DeliveredSourceless, DeliveredReports, ReportsFail, OthersPoorer,
     ReportSurvives
<1> QED BY <1>3, <1>4, <1>5, <1>6, <1>7, <1>8, <1>9, <1>10, <1>11, NextCases

LEMMA InitSurviving == ASSUME Init PROVE Known /\ Sources /\ Surviving
<1>1. Way = {}
  BY NoneSet DEF Init, NoUpdate, Way
<1>2. update.phase = "Free"
  BY DEF Init, NoUpdate
<1>3. \A c \in Calls : ~handler[c].id /\ source[c] = "None"
  BY DEF Init
<1>4. Known
  BY <1>2, <1>3 DEF Known, Begun, Is
<1>5. Sources
  BY <1>1, <1>3 DEF Sources, Sound
<1>6. Surviving
  <2>1. left \in Budgets /\ left.faults \in Nat
    BY TranscriptAssumption DEF Init
  <2>2. left.faults <= left.faults
    BY <2>1
  <2>3. journal.failure = "None" /\ queue.failure = "None"
    BY DEF Init
  <2> QED BY <2>1, <2>2, <2>3 DEF Surviving
<1> QED BY <1>4, <1>5, <1>6

(* Only a failure of the file system or the limit of the queue disables a  *)
(* recording, or a cell that is admitted after its cancelled send returned: *)
(* the events of a source reach the journal between the call that carries  *)
(* it and the end of its settlement, whoever flushes them, and a result    *)
(* finds the call that it finishes.                                        *)
THEOREM OnlyFaultsDisable == Spec => []RecordingSurvives
<1> DEFINE Inv == /\ Base /\ Account /\ InSequence /\ Ending /\ Known /\ Sources /\ Surviving
<1>1. Init => Inv
  BY InitBase, InitAccount, InitInSequence, InitEnding, InitSurviving
<1>2. Inv /\ [Next]_vars => Inv'
  BY BaseStep, AccountStep, InSequenceStep, EndingStep, SurvivingStep DEF Account
<1>3. Inv => RecordingSurvives
  <2>1. ASSUME Inv, NEW b \in Budgets, left.faults < b.faults PROVE b.faults > left.faults
    BY <2>1, TranscriptAssumption, Apart DEF Base, Lefts
  <2> QED BY <2>1 DEF Surviving, RecordingSurvives
<1> QED BY <1>1, <1>2, <1>3, PTL DEF Spec
================================================================================
