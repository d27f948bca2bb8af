-------------------------------- MODULE Spool --------------------------------
(***************************************************************************)
(* The replay spool (spool.rs) and the reader of capture files it is built *)
(* with (format.rs, stream_capture).  The capture is streamed twice: first *)
(* to size one contiguous region per session, then to write each event to  *)
(* its session's region, and each replay session reads its region through  *)
(* a cursor.  The capture file may be replaced between the two passes.     *)
(*                                                                         *)
(* The spool file is modelled cell by cell: a record of size n occupies n  *)
(* cells, the first of which holds the length prefix.                      *)
(***************************************************************************)
EXTENDS Integers, Sequences, FiniteSets, SequencesExt, Sums

CONSTANTS
    Captures,     \* what the capture file may hold: sequences of records
    FilterDb, FilterUser,        \* --filter-db, --filter-user, or None
    WindowStart, WindowEnd,      \* --time-window bounds, or None
    None,         \* an Option that is None
    AllowWrites   \* --allow-writes

\* A capture file is a sequence of records; a record of an event takes room in
\* the spool (its length prefix at least).
ASSUME CaptureAssumption ==
    \A c \in Captures :
        /\ c \in Seq({c[k] : k \in DOMAIN c})
        /\ \A k \in DOMAIN c :
              c[k].type = "event" => c[k].size \in Nat \ {0} /\ c[k].ts \in Int

ASSUME NoneAssumption == None \notin Int

VARIABLES
    capture,    \* the records of the capture file now
    replaced,   \* the file was replaced between the two passes
    phase,      \* "sizing", "layout", "writing", "built", or how build failed
    rd,         \* stream_capture: records read, what they said
    order,      \* session ids in the order of their first event
    plan,       \* SessionBuild of each session seen in pass A
    totals,     \* base_ts_micros, included and filtered
    index,      \* Spool.sessions: the regions
    file,       \* the spool file
    cursor,     \* SpoolCursor.pos of each session
    delivered,  \* the events each cursor returned
    corrupt     \* the sessions whose cursor met a corrupt record

vars == <<capture, replaced, phase, rd, order, plan, totals, index, file, cursor, delivered,
          corrupt>>
cursors == <<cursor, delivered, corrupt>>

Failures == {"unreadable", "filtered out", "no space", "changed"}

\* Faulty variant: the latest timestamp is kept.
MaxTs(a, b) == IF a = None \/ b > a THEN b ELSE a

\* None stands for i64::MAX before an event is included.
MinTs(a, b) == IF a = None \/ b < a THEN b ELSE a

NewRead == [next |-> 1, header |-> FALSE, summary |-> None, events |-> 0]

Init ==
    /\ capture \in Captures
    /\ replaced = FALSE
    /\ phase = "sizing"
    /\ rd = NewRead
    /\ order = <<>>
    /\ plan = <<>>
    /\ totals = [base |-> None, included |-> 0, filtered |-> 0]
    /\ index = <<>>
    /\ file = <<>>
    /\ cursor = <<>>
    /\ delivered = <<>>
    /\ corrupt = {}

-----------------------------------------------------------------------------
(* Filters.                                                                *)

\* TimeWindow::contains: the start is inclusive, the end exclusive.
InWindow(ts) ==
    /\ WindowStart # None => ts >= WindowStart
    /\ WindowEnd # None => ts < WindowEnd

\* Filters::matches: an event without the metadata never matches.
Matches(e) ==
    /\ FilterDb # None => e.db = FilterDb
    /\ FilterUser # None => e.user = FilterUser
    /\ InWindow(e.ts)

ShouldExecute(e) == AllowWrites \/ ~e.write

-----------------------------------------------------------------------------
(* stream_capture.                                                         *)

Rec == capture[rd.next]

\* The record at hand is an event; on_event handles it.
AtEvent == rd.next <= Len(capture) /\ Rec.type = "event"

TakeEvent == rd' = [rd EXCEPT !.next = @ + 1, !.events = @ + 1]

\* Faulty variant: the summary record is read again and again.
ReadOtherStuck ==
    /\ phase \in {"sizing", "writing"}
    /\ rd.next <= Len(capture)
    /\ \/ /\ Rec.type = "header" /\ Rec.supported
          /\ rd' = [rd EXCEPT !.next = @ + 1, !.header = TRUE]
       \/ /\ Rec.type = "summary"
          /\ rd' = [rd EXCEPT !.summary = Rec.events]
    /\ UNCHANGED <<capture, replaced, phase, order, plan, totals, index, file, cursors>>

\* A header of the supported version, or the summary.
ReadOther ==
    /\ phase \in {"sizing", "writing"}
    /\ rd.next <= Len(capture)
    /\ \/ /\ Rec.type = "header" /\ Rec.supported
          /\ rd' = [rd EXCEPT !.next = @ + 1, !.header = TRUE]
       \/ /\ Rec.type = "summary"
          /\ rd' = [rd EXCEPT !.next = @ + 1, !.summary = Rec.events]
    /\ UNCHANGED <<capture, replaced, phase, order, plan, totals, index, file, cursors>>

\* The stream ended and the capture is complete and consistent.
StreamValid == rd.header /\ rd.summary # None /\ rd.summary = rd.events

AtEnd == rd.next > Len(capture)

\* The stream fails: an unsupported version, a line that is no record, a missing
\* header or summary, a summary that declares another number of events.
StreamFails ==
    /\ phase \in {"sizing", "writing"}
    /\ \/ AtEnd /\ ~StreamValid
       \/ ~AtEnd /\ Rec.type = "header" /\ ~Rec.supported
       \/ ~AtEnd /\ Rec.type = "malformed"
    /\ phase' = "unreadable"
    /\ UNCHANGED <<capture, replaced, rd, order, plan, totals, index, file, cursors>>

-----------------------------------------------------------------------------
(* Spool::build.                                                           *)

\* Pass A meets an event.
SizeEvent ==
    /\ phase = "sizing"
    /\ AtEvent
    /\ TakeEvent
    /\ IF Matches(Rec)
       THEN LET sid  == Rec.session
                new  == sid \notin DOMAIN plan
                was  == IF new THEN [bytes |-> 0, count |-> 0, exec |-> FALSE, pos |-> 0]
                        ELSE plan[sid]
                is   == [was EXCEPT !.bytes = @ + Rec.size, !.count = @ + 1,
                                    !.exec = @ \/ ShouldExecute(Rec)]
            IN  /\ plan' = [s \in DOMAIN plan \cup {sid} |-> IF s = sid THEN is ELSE plan[s]]
                /\ order' = IF new THEN Append(order, sid) ELSE order
                /\ totals' = [totals EXCEPT !.included = @ + 1,
                                            !.base = MinTs(@, Rec.ts)]
       ELSE /\ totals' = [totals EXCEPT !.filtered = @ + 1]
            /\ UNCHANGED <<plan, order>>
    /\ UNCHANGED <<capture, replaced, phase, index, file, cursors>>

\* Offset of the i-th region, counting from zero.
Offset(i) == Total([j \in 1 .. i - 1 |-> plan[order[j]].bytes], 1 .. i - 1)

Region(i) ==
    LET s == plan[order[i]]
    IN  [session |-> order[i], start |-> Offset(i), end |-> Offset(i) + s.bytes,
         count |-> s.count, exec |-> s.exec]

\* A cell that was not written.
Blank == [part |-> -1]

\* The end of pass A: refuse an empty selection, else lay the regions out in
\* order of first appearance and size the file.
Layout ==
    /\ phase = "sizing"
    /\ AtEnd /\ StreamValid
    /\ IF totals.included = 0 /\ totals.filtered > 0
       THEN phase' = "filtered out" /\ UNCHANGED <<index, plan, file>>
       ELSE /\ phase' = "layout"
            /\ index' = [i \in DOMAIN order |-> Region(i)]
            /\ plan' = [s \in DOMAIN plan |->
                          [plan[s] EXCEPT !.pos = Offset(CHOOSE i \in DOMAIN order : order[i] = s)]]
            /\ file' = [k \in 0 .. Offset(Len(order) + 1) - 1 |-> Blank]
    /\ UNCHANGED <<capture, replaced, rd, order, totals, cursors>>

\* Someone writes another capture to the same path between the two passes.
Replace ==
    /\ phase = "layout" /\ ~replaced
    /\ capture' \in Captures \ {capture}
    /\ replaced' = TRUE
    /\ UNCHANGED <<phase, rd, order, plan, totals, index, file, cursors>>

OpenAgain ==
    /\ phase = "layout"
    /\ phase' = "writing"
    /\ rd' = NewRead
    /\ UNCHANGED <<capture, replaced, order, plan, totals, index, file, cursors>>

\* write_all_at: the cells of a record, over whatever is there.
WriteAt(e, at) ==
    [k \in DOMAIN file \cup at .. at + e.size - 1 |->
        IF k \in at .. at + e.size - 1 THEN [event |-> e, part |-> k - at] ELSE file[k]]

\* Pass B meets an event; the region's end is not looked at until the end.
WriteEvent ==
    /\ phase = "writing"
    /\ AtEvent
    /\ IF Matches(Rec) /\ Rec.session \notin DOMAIN plan
       THEN phase' = "changed" /\ UNCHANGED <<rd, plan, file>>
       ELSE /\ TakeEvent
            /\ IF Matches(Rec)
               THEN /\ file' = WriteAt(Rec, plan[Rec.session].pos)
                    /\ plan' = [plan EXCEPT ![Rec.session].pos = @ + Rec.size]
               ELSE UNCHANGED <<plan, file>>
            /\ UNCHANGED phase
    /\ UNCHANGED <<capture, replaced, order, totals, index, cursors>>

\* The file cannot be created or sized, or a record cannot be written.
DiskFails ==
    /\ phase = "layout" \/ (phase = "writing" /\ AtEvent)
    /\ phase' = "no space"
    /\ UNCHANGED <<capture, replaced, rd, order, plan, totals, index, file, cursors>>

\* Faulty variant: a region may overflow.
RegionsFilled == \A i \in DOMAIN index : plan[index[i].session].pos >= index[i].end

\* Faulty variant: a full region is taken for an overflow.
RegionsNotFull == \A i \in DOMAIN index : plan[index[i].session].pos < index[i].end

\* Every region must be exactly full.
RegionsFull == \A i \in DOMAIN index : plan[index[i].session].pos = index[i].end

\* The end of pass B: the spool is built and every session gets its cursor.
Built ==
    /\ phase = "writing"
    /\ AtEnd /\ StreamValid
    /\ phase' = IF RegionsFull THEN "built" ELSE "changed"
    /\ totals' = [totals EXCEPT !.base = IF totals.included > 0 THEN @ ELSE 0]
    /\ cursor' = [i \in DOMAIN index |-> index[i].start]
    /\ delivered' = [i \in DOMAIN index |-> <<>>]
    /\ UNCHANGED <<capture, replaced, rd, order, plan, index, file, corrupt>>

\* SpoolCursor::next_event of the i-th session.  A record that overruns the
\* region, or bytes that are not the start of a record, end the session.  (That
\* the read itself may fail is in ReplayPass.)
NextEvent(i) ==
    /\ phase = "built"
    /\ cursor[i] < index[i].end /\ i \notin corrupt
    /\ LET cell == file[cursor[i]]
       IN  IF cell.part = 0 /\ cursor[i] + cell.event.size <= index[i].end
              /\ \A k \in 0 .. cell.event.size - 1 :
                    file[cursor[i] + k] = [event |-> cell.event, part |-> k]
           THEN /\ delivered' = [delivered EXCEPT ![i] = Append(@, cell.event)]
                /\ cursor' = [cursor EXCEPT ![i] = @ + cell.event.size]
                /\ UNCHANGED corrupt
           ELSE corrupt' = corrupt \cup {i} /\ UNCHANGED <<cursor, delivered>>
    /\ UNCHANGED <<capture, replaced, phase, rd, order, plan, totals, index, file>>

CursorAtEnd(i) == cursor[i] >= index[i].end \/ i \in corrupt

Finished ==
    /\ phase \in Failures \/ (phase = "built" /\ \A i \in DOMAIN index : CursorAtEnd(i))
    /\ UNCHANGED vars

Work ==
    \/ ReadOther \/ StreamFails
    \/ SizeEvent \/ Layout \/ OpenAgain \/ WriteEvent \/ Built
    \/ \E i \in DOMAIN index : NextEvent(i)

Next == Work \/ Replace \/ DiskFails \/ Finished

Spec == Init /\ [][Next]_vars

\* Building and reading the spool waits for nobody.
FairSpec == Spec /\ WF_vars(Work)

-----------------------------------------------------------------------------
(* Reference: the in-memory ingestion the spool is to be equivalent to, by *)
(* the positions of the records in the capture.                            *)

\* The events among the first n records that pass the filters, and the others.
Selected(c, n) == {k \in 1 .. n : c[k].type = "event" /\ Matches(c[k])}

Rejected(c, n) == {k \in 1 .. n : c[k].type = "event" /\ ~Matches(c[k])}

\* Those of one session.
EventsAt(c, sid, n) == {k \in Selected(c, n) : c[k].session = sid}

EventsUpTo(c, sid) ==
    LET upTo[n \in 0 .. Len(c)] ==
            IF n = 0 THEN <<>>
            ELSE IF n \in EventsAt(c, sid, n) THEN Append(upTo[n - 1], c[n]) ELSE upTo[n - 1]
    IN  upTo

\* group_sessions: the events of a session, in the order of the capture.
EventsOf(c, sid) == EventsUpTo(c, sid)[Len(c)]

\* group_sessions: sids lists the sessions of the first n records in the order
\* of their first event.
Grouped(c, sids, n) ==
    /\ {sids[i] : i \in DOMAIN sids} = {c[k].session : k \in Selected(c, n)}
    /\ \A i, j \in DOMAIN sids : i < j =>
          \E k \in EventsAt(c, sids[i], n) : \A l \in EventsAt(c, sids[j], n) : k < l

\* The earliest timestamp of the selected events, or the given default.
BaseTs(c, n, default) ==
    IF Selected(c, n) = {} THEN default ELSE Min({c[k].ts : k \in Selected(c, n)})

-----------------------------------------------------------------------------
(* Properties.                                                             *)

\* Whatever the capture file did between the passes, a spool that is built
\* hands every session its events of the capture pass B read, in order and
\* without a corrupt record: a record that overran its region while pass B
\* was writing never survives in a spool that is used.
CursorsDeliverTheCapture ==
    phase = "built" =>
        /\ \A i \in DOMAIN index :
               /\ IsPrefix(delivered[i], EventsOf(capture, index[i].session))
               /\ CursorAtEnd(i) => delivered[i] = EventsOf(capture, index[i].session)
        /\ \A k \in Selected(capture, Len(capture)) :
               \E i \in DOMAIN index : index[i].session = capture[k].session

\* What a session's region says about its events among the first n records.
Counted(c, s, sid, n) ==
    /\ s.count = Cardinality(EventsAt(c, sid, n))
    /\ s.exec = (\E k \in EventsAt(c, sid, n) : ShouldExecute(c[k]))

\* An unchanged capture gives the replay the sessions, their order, counts,
\* write-gate verdicts and pacing origin that the in-memory path computes.
SameAsInMemory ==
    phase = "built" /\ ~replaced =>
        /\ Grouped(capture, [i \in DOMAIN index |-> index[i].session], Len(capture))
        /\ \A i \in DOMAIN index : Counted(capture, index[i], index[i].session, Len(capture))
        /\ totals = [base |-> BaseTs(capture, Len(capture), 0),
                     included |-> Cardinality(Selected(capture, Len(capture))),
                     filtered |-> Cardinality(Rejected(capture, Len(capture)))]

\* A build that reports "capture changed while being spooled" is right: the
\* two passes never disagree about an unchanged capture.
ChangeIsReal == phase = "changed" => replaced

\* Every build ends, and every cursor reaches the end of its region or fails.
SpoolSettles == <>(phase \in Failures \/ (phase = "built" /\ \A i \in DOMAIN index : CursorAtEnd(i)))

-----------------------------------------------------------------------------
(* The inductive invariant.                                                *)

\* The room that the events of a session among the first n records take.
Bytes(c, sid, n) == Total([k \in EventsAt(c, sid, n) |-> c[k].size], EventsAt(c, sid, n))

Session == [bytes : Nat, count : Nat, exec : BOOLEAN, pos : Nat]

\* The records of pass A or B that have been handled.
Handled == rd.next - 1

SpoolTypes ==
    /\ capture \in Captures /\ replaced \in BOOLEAN
    /\ DOMAIN rd = {"next", "header", "summary", "events"}
    /\ phase \in {"sizing", "writing"} => rd.next \in 1 .. Len(capture) + 1
    /\ plan \in [DOMAIN plan -> Session]
    /\ order \in Seq(DOMAIN plan)
    /\ \A s \in DOMAIN plan : \E i \in DOMAIN order : order[i] = s
    /\ \A i, j \in DOMAIN order : order[i] = order[j] => i = j
    /\ DOMAIN totals = {"base", "included", "filtered"}
    /\ corrupt = {}

\* What pass A knows about the sessions, and about the whole capture, after n
\* records.
Sized(n) ==
    /\ Grouped(capture, order, n)
    /\ \A s \in DOMAIN plan : plan[s].bytes = Bytes(capture, s, n) /\ Counted(capture, plan[s], s, n)

Totalled(n, default) ==
    totals = [base |-> BaseTs(capture, n, default), included |-> Cardinality(Selected(capture, n)),
              filtered |-> Cardinality(Rejected(capture, n))]

\* The regions lie one behind the other, in the order of the sessions.
Laid ==
    /\ DOMAIN index = DOMAIN order
    /\ \A i \in DOMAIN index :
          /\ index[i].session = order[i]
          /\ index[i].start \in Nat /\ index[i].end = index[i].start + plan[order[i]].bytes
          /\ index[i].count = plan[order[i]].count /\ index[i].exec = plan[order[i]].exec
    /\ \A i, j \in DOMAIN index : i < j => index[i].end <= index[j].start

\* Pass B, after n records: every session has written as many bytes as its
\* events take, inside its region or beyond it.
Written(n) ==
    /\ \A i \in DOMAIN index : plan[order[i]].pos = index[i].start + Bytes(capture, order[i], n)
    /\ \A k \in Selected(capture, n) : capture[k].session \in DOMAIN plan

\* The record of the capture's k-th entry is at its place in the i-th region.
Stored(i, k) ==
    \A p \in 0 .. capture[k].size - 1 :
        LET at == index[i].start + Bytes(capture, order[i], k - 1) + p
        IN  at \in DOMAIN file /\ file[at] = [event |-> capture[k], part |-> p]

\* As long as no session is beyond its region, nothing was overwritten: positions
\* only grow, so a region that is full in the end was never overrun.
Intact(n) ==
    (\A i \in DOMAIN index : plan[order[i]].pos <= index[i].end) =>
        \A i \in DOMAIN index : \A k \in EventsAt(capture, order[i], n) : Stored(i, k)

\* A cursor has delivered the session's events among the first n records.
ReadUpTo(i, n) ==
    /\ delivered[i] = EventsUpTo(capture, order[i])[n]
    /\ cursor[i] = index[i].start + Bytes(capture, order[i], n)

Delivering ==
    /\ DOMAIN cursor = DOMAIN index /\ DOMAIN delivered = DOMAIN index
    /\ \A i \in DOMAIN index : \E n \in 0 .. Len(capture) : ReadUpTo(i, n)
    /\ \A i \in DOMAIN index : index[i].end = index[i].start + Bytes(capture, order[i], Len(capture))

SpoolInv ==
    /\ SpoolTypes
    /\ phase = "sizing" => ~replaced /\ Sized(Handled) /\ Totalled(Handled, None)
    /\ phase \in {"layout", "writing"} =>
          Laid /\ (~replaced => Sized(Len(capture)) /\ Totalled(Len(capture), None))
    /\ phase = "layout" => \A i \in DOMAIN index : plan[order[i]].pos = index[i].start
    /\ phase = "writing" => Written(Handled) /\ Intact(Handled)
    /\ phase = "built" =>
          /\ Laid /\ (~replaced => Sized(Len(capture)) /\ Totalled(Len(capture), 0))
          /\ Written(Len(capture)) /\ RegionsFull /\ Intact(Len(capture))
          /\ Delivering
    /\ ChangeIsReal
=============================================================================
