------------------------------- MODULE Ingest -------------------------------
(***************************************************************************)
(* From the capture log to the confirmation queue.  Hook processes append  *)
(* envelopes to a file; servanda-ingest (run by hand or by cron, so two    *)
(* may overlap) reads what is new, asks the model batch by batch, queues   *)
(* what it found and marks each envelope; the person decides.  Hooks, the  *)
(* log rotation, the ingest processes and the person interleave at every   *)
(* file operation and across the await of the model's answer.              *)
(*                                                                         *)
(* Lengths and offsets count lines; a hook's write may land in two halves. *)
(* A definition whose name extends the next one's is a slip in it.         *)
(***************************************************************************)
EXTENDS Integers, FiniteSets, SequencesExt

CONSTANTS
    Envelopes,      \* the envelopes hooks write, each once
    Own,            \* those of the persona this ingest is bound to
    Says,           \* envelope |-> the RawExtractions a reading of it yields
    Persona,        \* that persona
    Known,          \* label |-> persona id, for the labels resolveParty knows
    Processes,      \* servanda-ingest processes
    MaxBytes,       \* lines one read may consume
    BatchSize,
    MaxRounds,
    MaxFaults       \* bound on rotations, truncations, lost cursors and crashes

Malformed == "malformed"

ASSUME IngestAssumption ==
    /\ Own \subseteq Envelopes /\ Malformed \notin Envelopes
    /\ MaxBytes \in Nat \ {0} /\ BatchSize \in Nat \ {0} /\ MaxRounds \in Nat \ {0}

None == "none"
NoCursor == [ino |-> 0, offset |-> 0, gen |-> 0]

VARIABLES
    file,       \* the log: its inode, whole lines and unterminated rest; gen
                \* counts truncations and no code reads it
    halves,     \* envelopes a live hook has half written
    toWrite,    \* envelopes no hook has written yet
    cursor,     \* the saved EnvelopeLogCursor
    ingested,   \* the markers
    pending,    \* id |-> [envelope, candidate]: the confirmation queue
    stored,     \* ids whose expectation or commitment is in the vault
    run,        \* process |-> its progress
    decided,    \* history: <<envelope, candidate>> a person decided
    found,      \* history: <<envelope, candidate>> of every marked envelope
    excused,    \* history: envelopes hit by a crash or by overlapping runs
    overtaken,  \* history: a truncated log grew past the cursor unread
    faults      \* how many things have gone wrong

store == <<cursor, ingested, pending, stored>>
history == <<decided, found, excused, overtaken>>
vars == <<file, halves, toWrite, store, run, history, faults>>

Idle == [pc |-> "idle", cursor |-> NoCursor, next |-> NoCursor, rounds |-> 0,
         exhausted |-> FALSE, deferred |-> FALSE, batches |-> <<>>,
         queue |-> <<>>, todo |-> {}, answer |-> <<>>]

Init ==
    /\ file = [ino |-> 0, gen |-> 0, lines |-> <<>>, tail |-> <<>>]
    /\ halves = {} /\ toWrite = Envelopes
    /\ cursor = NoCursor /\ ingested = {} /\ stored = {}
    /\ pending = [id \in {} |-> None]
    /\ run = [p \in Processes |-> Idle]
    /\ decided = {} /\ found = {} /\ excused = {} /\ overtaken = FALSE
    /\ faults = 0

Fault == faults < MaxFaults /\ faults' = faults + 1

-----------------------------------------------------------------------------
(* The connectors: append-only, no lock.                                   *)

\* The hook fired, once, with an event of a known kind that has something to
\* say; every other event, and the extraction's own session, writes nothing.
EnvelopeFromHookEvent(e) == e \in toWrite

\* Bytes that end a line: the line is an envelope only if they are all of it.
EndLine(e, whole) ==
    file' = [file EXCEPT !.ino = IF @ = 0 THEN 1 ELSE @, !.tail = <<>>,
                         !.lines = Append(@, IF whole THEN e ELSE Malformed)]

AppendToRegularFile(e) ==
    /\ EnvelopeFromHookEvent(e)
    /\ toWrite' = toWrite \ {e}
    /\ EndLine(e, file.tail = <<>>)
    /\ UNCHANGED <<halves, store, run, history, faults>>

\* writeSync returned short, or the hook is between two calls of it.
WriteFirstHalf(e) ==
    /\ EnvelopeFromHookEvent(e)
    /\ toWrite' = toWrite \ {e}
    /\ halves' = halves \cup {e}
    /\ file' = [file EXCEPT !.ino = IF @ = 0 THEN 1 ELSE @, !.tail = Append(@, e)]
    /\ UNCHANGED <<store, run, history, faults>>

WriteRest(e) ==
    /\ e \in halves
    /\ halves' = halves \ {e}
    /\ EndLine(e, file.tail = <<e>>)
    /\ UNCHANGED <<toWrite, store, run, history, faults>>

HookDies(e) ==
    /\ e \in halves
    /\ halves' = halves \ {e}
    /\ UNCHANGED <<file, toWrite, store, run, history, faults>>

\* logrotate and its like: a new inode under the name, or a truncation in place.
Rotate ==
    /\ file.ino > 0
    /\ Fault
    /\ file' = [file EXCEPT !.ino = @ + 1, !.lines = <<>>, !.tail = <<>>]
    /\ halves' = {}
    /\ UNCHANGED <<toWrite, store, run, history>>

Truncate ==
    /\ file.ino > 0
    /\ Fault
    /\ file' = [file EXCEPT !.gen = @ + 1, !.lines = <<>>, !.tail = <<>>]
    /\ halves' = {}
    /\ UNCHANGED <<toWrite, store, run, history>>

\* The cursor file is lost, or the store is restored from before it.
LoseCursor ==
    /\ cursor # NoCursor
    /\ Fault
    /\ cursor' = NoCursor
    /\ UNCHANGED <<file, halves, toWrite, ingested, pending, stored, run, history>>

-----------------------------------------------------------------------------
(* Section 3.4 routing and the identity of a queued candidate.             *)

resolve(label) == IF label \in DOMAIN Known THEN Known[label] ELSE None

Commitment(raw, owedTo) ==
    [kind |-> "commitment", owner |-> Persona, what |-> raw.intent, who |-> owedTo]

Expectation(raw, from) ==
    [kind |-> "expectation", owner |-> from, what |-> raw.intent, who |-> None]

\* raw.owner and raw.owed_to: "local_user", None, or another party's label.
Route(raw) ==
    LET owner == resolve(raw.owner)
        to == resolve(raw.owed_to)
    IN  CASE raw.owner # "local_user" /\ owner = Persona -> Commitment(raw, None)
          [] raw.owner # "local_user" /\ owner # Persona ->
                 Expectation(raw, IF owner = None THEN raw.owner ELSE owner)
          [] raw.owner = "local_user" /\ raw.owed_to \in {None, "local_user"} ->
                 Commitment(raw, None)
          [] OTHER -> Commitment(raw, CASE to = None -> raw.owed_to
                                        [] to = Persona -> None
                                        [] OTHER -> to)

\* An expectation has neither owed_to nor owed_by: whose promise it is does not
\* enter the id.
PendingId(e, c) == [envelope |-> e, kind |-> c.kind, what |-> c.what, who |-> c.who]

-----------------------------------------------------------------------------
(* servanda-ingest.                                                        *)

SetRun(p, r) == run' = [run EXCEPT ![p] = r]

\* A rotated or a truncated log is read again from its first byte.
ReadFrom(c) ==
    IF c.ino = file.ino /\ c.offset <= Len(file.lines) THEN c.offset ELSE 0

\* The local store: a marker per envelope that outlives the decision on what
\* was found in it, and the cursor.
HasIngestedStillPending(e) == e \in ingested /\ \E id \in DOMAIN pending : pending[id].envelope = e
HasIngested(e) == e \in ingested
Mark(e) == ingested' = ingested \cup {e}
ReadCursor == cursor
WriteCursor(c) == cursor' = c

Start(p) ==
    /\ run[p].pc = "idle"
    /\ SetRun(p, [Idle EXCEPT !.pc = "reading", !.cursor = ReadCursor])
    /\ UNCHANGED <<file, halves, toWrite, store, history, faults>>

Batched(s) ==
    [b \in 1..((Len(s) + BatchSize - 1) \div BatchSize) |->
        SubSeq(s, (b - 1) * BatchSize + 1, IF b * BatchSize < Len(s) THEN b * BatchSize ELSE Len(s))]

\* The hasIngestedEnvelope filter, in the order of the log.
Fresh(lines) ==
    LET kept[i \in 0..Len(lines)] ==
          IF i = 0 THEN <<>>
          ELSE IF lines[i] \in Own /\ ~HasIngested(lines[i])
          THEN Append(kept[i - 1], lines[i]) ELSE kept[i - 1]
    IN  kept[Len(lines)]

InFlight(q) == UNION {ToSet(run[q].batches[b]) : b \in DOMAIN run[q].batches}

\* readEnvelopeLog, the filter and the batching: one synchronous stretch.  A
\* log that is not there ends the run.
ReadLog(p) ==
    LET r == run[p]
        from == ReadFrom(r.cursor)
        to == IF Len(file.lines) - from > MaxBytes THEN from + MaxBytes ELSE Len(file.lines)
        fresh == Fresh(SubSeq(file.lines, from + 1, to))
    IN  /\ r.pc = "reading"
        /\ SetRun(p, IF file.ino = 0 THEN Idle
                     ELSE [r EXCEPT !.pc = "asking", !.batches = Batched(fresh),
                                    !.rounds = @ + 1, !.deferred = FALSE,
                                    !.next = [ino |-> file.ino, offset |-> to, gen |-> file.gen],
                                    !.exhausted = Len(file.lines) > to])
        /\ overtaken' = (overtaken \/ (from > 0 /\ r.cursor.gen # file.gen))
        /\ excused' = excused \cup (ToSet(fresh) \cap UNION {InFlight(q) : q \in Processes \ {p}})
        /\ UNCHANGED <<file, halves, toWrite, store, decided, found, faults>>

\* The await of extractor.extract ends: the transport failed, or the answer was
\* not JSON, not valid, cited an envelope outside the batch or did not route.
RejectBatch(p) ==
    /\ run[p].pc = "asking" /\ run[p].batches # <<>>
    /\ SetRun(p, [run[p] EXCEPT !.deferred = TRUE, !.batches = Tail(@)])
    /\ UNCHANGED <<file, halves, toWrite, store, history, faults>>

\* The candidates of each envelope of the batch; for one the model found
\* nothing in, none.
ByEnvelope(batch, read) ==
    [e \in ToSet(batch) |-> IF e \in read THEN {Route(raw) : raw \in Says[e]} ELSE {}]

\* ... or it was accepted.
AcceptBatch(p) ==
    /\ run[p].pc = "asking" /\ run[p].batches # <<>>
    /\ LET batch == Head(run[p].batches)
       IN  \E read \in SUBSET ToSet(batch) :
             LET answer == ByEnvelope(batch, read)
             IN  SetRun(p, [run[p] EXCEPT !.pc = "queueing", !.queue = batch,
                                          !.answer = answer, !.todo = answer[Head(batch)]])
    /\ UNCHANGED <<file, halves, toWrite, store, history, faults>>

\* LocalPendingSink.ingestEnvelope, one file at a time: the candidates ...
QueuePendingExtraction(p) ==
    /\ run[p].pc = "queueing"
    /\ \E c \in run[p].todo :
         LET e == Head(run[p].queue)
             new == PendingId(e, c)
         IN  /\ pending' = [id \in DOMAIN pending \cup {new} |->
                              IF id = new THEN [envelope |-> e, candidate |-> c]
                              ELSE pending[id]]
             /\ SetRun(p, [run[p] EXCEPT !.todo = @ \ {c}])
    /\ UNCHANGED <<file, halves, toWrite, cursor, ingested, stored, history, faults>>

\* ... and then the marker, whether or not there were any.
QueuedBeforeMarkNot(r) == TRUE
QueuedBeforeMark(r) == r.todo = {}

MarkIngested(p) ==
    LET r == run[p]
        e == Head(r.queue)
    IN  /\ r.pc = "queueing" /\ QueuedBeforeMark(r)
        /\ Mark(e)
        /\ found' = found \cup {<<e, c>> : c \in r.answer[e]}
        /\ SetRun(p, IF Len(r.queue) > 1
                     THEN [r EXCEPT !.queue = Tail(@), !.todo = r.answer[r.queue[2]]]
                     ELSE [r EXCEPT !.pc = "asking", !.batches = Tail(@), !.answer = <<>>,
                                    !.queue = <<>>, !.todo = {}])
        /\ UNCHANGED <<file, halves, toWrite, cursor, pending, stored, decided,
                       excused, overtaken, faults>>

CursorAdvancedAlways(r) == TRUE
CursorAdvanced(r) == ~r.deferred

\* The batches are done: the cursor is saved only past what was ingested, and
\* another round follows only if there is more and this one moved.
FinishRound(p) ==
    LET r == run[p]
    IN  /\ r.pc = "asking" /\ r.batches = <<>>
        /\ WriteCursor(IF CursorAdvanced(r) THEN r.next ELSE cursor)
        /\ SetRun(p, IF r.exhausted /\ CursorAdvanced(r) /\ r.rounds < MaxRounds
                     THEN [r EXCEPT !.pc = "reading", !.cursor = r.next]
                     ELSE Idle)
        /\ UNCHANGED <<file, halves, toWrite, ingested, pending, stored, history, faults>>

IngestCrashes(p) ==
    /\ run[p].pc # "idle"
    /\ Fault
    /\ excused' = excused \cup IF run[p].pc = "queueing" THEN {Head(run[p].queue)} ELSE {}
    /\ SetRun(p, Idle)
    /\ UNCHANGED <<file, halves, toWrite, store, decided, found, overtaken>>

-----------------------------------------------------------------------------
(* The person, through `confirm`.                                          *)

\* locate looks among the vault's records before it looks in the queue.
LocatedAsPending(id) == id \in DOMAIN pending /\ ~(id.kind = "expectation" /\ id \in stored)

Decided(id) ==
    /\ decided' = decided \cup {<<pending[id].envelope, pending[id].candidate>>}
    /\ pending' = [other \in DOMAIN pending \ {id} |-> pending[other]]

Dismiss(id) ==
    /\ LocatedAsPending(id)
    /\ Decided(id)
    /\ UNCHANGED <<file, halves, toWrite, cursor, ingested, stored, run, found,
                   excused, overtaken, faults>>

\* An expectation is stored under the queue's own id; a commitment, edited or
\* not, under its content, and only as the persona's own.
MayConfirm(id) ==
    LocatedAsPending(id) /\ (id.kind = "commitment" => pending[id].candidate.owner = Persona)

ConfirmPending(id) ==
    /\ MayConfirm(id)
    /\ stored' = stored \cup {id}
    /\ Decided(id)
    /\ UNCHANGED <<file, halves, toWrite, cursor, ingested, run, found,
                   excused, overtaken, faults>>

\* The node dies after the vault's write and before deletePending.
ConfirmCrashes(id) ==
    /\ MayConfirm(id)
    /\ Fault
    /\ stored' = stored \cup {id}
    /\ decided' = decided \cup {<<pending[id].envelope, pending[id].candidate>>}
    /\ excused' = excused \cup {pending[id].envelope}
    /\ UNCHANGED <<file, halves, toWrite, cursor, ingested, pending, run, found, overtaken>>

Next ==
    \/ \E e \in Envelopes : AppendToRegularFile(e) \/ WriteFirstHalf(e)
                            \/ WriteRest(e) \/ HookDies(e)
    \/ Rotate \/ Truncate \/ LoseCursor
    \/ \E p \in Processes : \/ Start(p) \/ ReadLog(p) \/ RejectBatch(p) \/ AcceptBatch(p)
                             \/ QueuePendingExtraction(p) \/ MarkIngested(p)
                             \/ FinishRound(p) \/ IngestCrashes(p)
    \/ \E id \in DOMAIN pending : \/ Dismiss(id) \/ ConfirmPending(id) \/ ConfirmCrashes(id)

Spec == Init /\ [][Next]_vars

-----------------------------------------------------------------------------
\* The saved cursor never stands past an envelope of this persona that was not
\* ingested: rejected batches, overlapping runs, faults, rotations, truncated
\* logs and lost cursors leave every whole line either marked or still to be
\* read (runIngest, ingestEnvelopeLog).  A log truncated in place that has
\* grown past the cursor before the next read is the one case excluded.
NothingSkipped ==
    (cursor.ino = file.ino /\ cursor.gen = file.gen /\ ~overtaken) =>
        \A i \in 1..cursor.offset : file.lines[i] \in Own => file.lines[i] \in ingested

\* What the model found in an envelope that is marked, and so never read again,
\* is waiting in the queue or has been decided by the person: the queue is
\* written before the marker (LocalPendingSink.ingestEnvelope).  It holds where
\* the findings of an envelope have different ids: two people who owe the same
\* words in one envelope share one (PendingId), and one of the two is lost.
EveryFindingSurfaces ==
    \A f \in found : \/ f \in decided
                     \/ \E id \in DOMAIN pending :
                            f = <<pending[id].envelope, pending[id].candidate>>

\* A promise the person has confirmed or dismissed is not put to them again,
\* however often the log is read again, except where a crash fell between two
\* of its writes or two runs were reading its envelope at once.
NotReproposed ==
    \A id \in DOMAIN pending :
        <<pending[id].envelope, pending[id].candidate>> \in decided
            => pending[id].envelope \in excused
=============================================================================
