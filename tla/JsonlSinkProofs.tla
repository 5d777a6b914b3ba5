-------------------------- MODULE JsonlSinkProofs --------------------------
(***************************************************************************)
(* JsonlSink for any set of events, any limit of a segment and any         *)
(* sequence of failures, up to a crash at any step: what is listed can be  *)
(* read, and nothing that was accepted is deleted.                         *)
(***************************************************************************)
EXTENDS JsonlSink, FiniteSetTheorems, TLAPS

Line == Events \cup {Torn}
SegmentFile == [there : BOOLEAN, lines : Seq(Line)]
TraceSegment == [ordinal : Ordinals, start : Events, end : Events, count : Nat]
Segment == [open : BOOLEAN, ordinal : Ordinals, start : Events, end : Events, count : Nat]
Closing == {"rename", "create", "encode", "remove", "record"}
Places == {"idle", "open", "write", "sync", "index", "reindex"} \cup Closing

TypeInv ==
    /\ next_segment \in Nat \ {0}
    /\ current = NoSegment \/ current \in Segment
    /\ index \in Seq(TraceSegment) /\ published \in Seq(TraceSegment)
    /\ partial \in [Ordinals -> SegmentFile] /\ final \in [Ordinals -> SegmentFile]
    /\ call \in [op : {"none", "emit", "flush", "flushed"}, at : Places, event : Events \cup {NoEvent}]
    /\ offered \subseteq Events /\ accepted \in Seq(Events)

\* Which segment a step of a call is about, and in which call.
CallInv ==
    /\ call.at \in {"write", "sync"} => current.open
    /\ call.at \in Closing => current # NoSegment /\ ~current.open
    /\ call.at \notin {"write", "sync"} \cup Closing => current = NoSegment \/ current.open
    /\ call.at \in {"open", "index", "reindex"} => current = NoSegment
    /\ call.at \in {"open", "write"} => call.op = "emit"
    /\ call.at = "reindex" => call.op = "flush"
    /\ call.op = "emit" => call.event \in Events
    /\ current # NoSegment => current.ordinal < next_segment

\* No event opens more than one segment.
OrdinalBound ==
    next_segment <= Cardinality(offered) + (IF call.at = "open" THEN 0 ELSE 1)

\* What a file holds of a segment that was listed, or may be, when a call was
\* refused or none was.
Whole(segment, file, refused) ==
    /\ file.there
    /\ Has(file, Torn) => refused
    /\ ~Has(file, Torn) =>
           /\ Len(file.lines) = segment.count
           /\ segment.count > 0 => file.lines[segment.count] = segment.end
           /\ ~refused => segment.count > 0 /\ file.lines[1] = segment.start

\* The same of a segment that was opened for the event that is written next.
Opened(segment, file) ==
    /\ file.there /\ file.lines = <<>> /\ segment.count = 0
    /\ call.at = "write" /\ call.event = segment.start

ContentInv ==
    LET n == current.ordinal IN
    /\ current.open => Whole(current, partial[n], failed) \/ Opened(current, partial[n])
    /\ call.at \in Closing \ {"record"} => Whole(current, partial[n], failed)
    /\ current.open \/ call.at \in {"rename", "create"} => final[n] = NoFile
    /\ call.at = "encode" => final[n] = File(<<Torn>>)
    /\ call.at = "remove" => final[n] = partial[n]
    /\ call.at = "record" => Whole(current, final[n], failed)

\* What is listed is of another segment than the current one.
ListedWell(list) ==
    \A i \in DOMAIN list :
        /\ list[i].ordinal < next_segment /\ list[i].ordinal # current.ordinal
        /\ Whole(list[i], final[list[i].ordinal], failed)
ListInv == ListedWell(index) /\ ListedWell(published)

FreshInv == \A n \in Ordinals : n >= next_segment => partial[n] = NoFile /\ final[n] = NoFile

\* An event is in a segment's files, or was glued to a torn line of them.
KeptIn(part, fin, refused, e) ==
    \/ Has(part, e) \/ Has(fin, e)
    \/ refused /\ (Has(part, Torn) \/ (Has(fin, Torn) /\ ~part.there))
Kept(e) == \E n \in Ordinals : KeptIn(partial[n], final[n], failed, e)

KeptInv ==
    /\ \A i \in DOMAIN accepted : Kept(accepted[i])
    /\ call.op = "emit" /\ call.at \in {"sync", "index"} \cup Closing => Kept(call.event)

IInv == TypeInv /\ CallInv /\ OrdinalBound /\ ContentInv /\ ListInv /\ FreshInv /\ KeptInv

-----------------------------------------------------------------------------
(* Lines. *)

LEMMA WrittenLines ==
    ASSUME NEW lines \in Seq(Line), NEW line \in Line
    PROVE  /\ Written(lines, line) \in Seq(Line)
           /\ \A i \in DOMAIN lines : i \in DOMAIN Written(lines, line) /\ Written(lines, line)[i] = lines[i]
           /\ \/ Written(lines, line) = lines /\ \E i \in DOMAIN lines : lines[i] = Torn
              \/ /\ Len(Written(lines, line)) = Len(lines) + 1
                 /\ Written(lines, line)[Len(lines) + 1] = line
<1>1. CASE lines # <<>> /\ lines[Len(lines)] = Torn
  BY <1>1 DEF Written
<1>2. CASE ~(lines # <<>> /\ lines[Len(lines)] = Torn)
  BY <1>2 DEF Written
<1> QED BY <1>1, <1>2

LEMMA OrdinalsFinite == IsFiniteSet(Events) /\ Cardinality(Events) \in Nat /\ Ordinals \subseteq Nat \ {0}
BY JsonlSinkAssumption, FS_CardinalityType DEF Ordinals

LEMMA OfferedFinite ==
    ASSUME offered \subseteq Events
    PROVE  /\ IsFiniteSet(offered) /\ Cardinality(offered) \in Nat
           /\ Cardinality(offered) <= Cardinality(Events)
BY OrdinalsFinite, FS_Subset, FS_CardinalityType

-----------------------------------------------------------------------------
LEMMA InitIInv == Init => IInv
<1> SUFFICES ASSUME Init PROVE IInv OBVIOUS
<1> USE JsonlSinkAssumption DEF Init
<1>1. TypeInv
  <2>1. NoFile \in SegmentFile
    BY DEF NoFile, SegmentFile
  <2>2. call \in [op : {"none", "emit", "flush", "flushed"}, at : Places, event : Events \cup {NoEvent}]
    BY DEF NoCall, Places
  <2>3. partial \in [Ordinals -> SegmentFile] /\ final \in [Ordinals -> SegmentFile]
    BY <2>1
  <2>4. index \in Seq(TraceSegment) /\ published \in Seq(TraceSegment) /\ accepted \in Seq(Events)
    OBVIOUS
  <2>5. next_segment \in Nat \ {0} /\ current = NoSegment /\ offered \subseteq Events
    OBVIOUS
  <2> HIDE DEF Init
  <2> QED BY <2>2, <2>3, <2>4, <2>5, Zenon DEF TypeInv
<1>2. CallInv
  BY DEF CallInv, NoCall, NoSegment, Closing
<1>3. ContentInv
  BY DEF ContentInv, NoCall, NoSegment, Closing
<1>4. OrdinalBound
  BY FS_EmptySet DEF OrdinalBound, NoCall
<1>5. ListInv /\ FreshInv
  BY DEF ListInv, ListedWell, FreshInv
<1>6. KeptInv
  BY DEF KeptInv, NoCall
<1> QED BY <1>1, <1>2, <1>3, <1>4, <1>5, <1>6 DEF IInv

-----------------------------------------------------------------------------
(* The steps that touch no segment file keep their types; the calls.        *)

Control == TypeInv /\ CallInv /\ OrdinalBound

LEMMA PlaceTypes ==
    ASSUME TypeInv, CallInv, current # NoSegment
    PROVE  /\ current \in Segment /\ current.ordinal \in Ordinals
           /\ partial[current.ordinal] \in SegmentFile /\ final[current.ordinal] \in SegmentFile
BY DEF TypeInv, Segment

LEMMA WritePartialType ==
    ASSUME TypeInv, CallInv, current # NoSegment, NEW line \in Line, WritePartial(line)
    PROVE  partial' \in [Ordinals -> SegmentFile]
<1> DEFINE lines == partial[current.ordinal].lines
<1>1. lines \in Seq(Line)
  BY PlaceTypes DEF SegmentFile
<1>2. Written(lines, line) \in Seq(Line)
  BY <1>1, WrittenLines
<1>3. File(Written(lines, line)) \in SegmentFile
  BY <1>2 DEF File, SegmentFile
<1> QED BY <1>3, PlaceTypes DEF TypeInv, WritePartial

LEMMA ControlStep == Control /\ [Next]_vars => Control'
<1> SUFFICES ASSUME Control, [Next]_vars PROVE Control' OBVIOUS
<1> USE JsonlSinkAssumption
<1> USE DEF Control
<1>1. ASSUME NEW event \in Events, Emit(event) PROVE Control'
  <2>1. /\ IsFiniteSet(offered) /\ event \notin offered /\ offered' = offered \cup {event}
        /\ Cardinality(offered') = Cardinality(offered) + 1 /\ Cardinality(offered) \in Nat
    BY <1>1, OfferedFinite, FS_AddElement DEF Emit, TypeInv
  <2>2. TypeInv'
    BY <1>1 DEF Emit, TypeInv, disk, Places
  <2>3. CallInv'
    BY <1>1 DEF Emit, TypeInv, CallInv, disk, At, Closing, Segment
  <2>4. OrdinalBound'
    BY <1>1, <2>1 DEF Emit, TypeInv, OrdinalBound, At
  <2> QED BY <2>2, <2>3, <2>4
<1>2. CASE Flush
  <2>1. TypeInv'
    BY <1>2 DEF Flush, TypeInv, disk, ghosts, Places
  <2>2. CallInv' /\ OrdinalBound'
    BY <1>2 DEF Flush, TypeInv, CallInv, OrdinalBound, disk, ghosts, At, Closing
  <2> QED BY <2>1, <2>2
<1>3. CASE OpenSegment
  <2>1. next_segment \in Ordinals /\ call.event \in Events
    <3>1. call.at = "open" /\ call.event \in Events /\ offered \subseteq Events /\ next_segment \in Nat \ {0}
      BY <1>3 DEF OpenSegment, At, TypeInv, CallInv
    <3>2. next_segment <= Cardinality(Events)
      BY <3>1, OfferedFinite, OrdinalsFinite DEF OrdinalBound
    <3> QED BY <3>1, <3>2, OrdinalsFinite DEF Ordinals
  <2>2. File(<<>>) \in SegmentFile
    BY DEF File, SegmentFile
  <2>3. partial' \in [Ordinals -> SegmentFile]
    BY <1>3, <2>1, <2>2 DEF OpenSegment, TypeInv
  <2>4. current' \in Segment
    BY <1>3, <2>1 DEF OpenSegment, Segment
  <2>5. TypeInv'
    BY <1>3, <2>3, <2>4 DEF OpenSegment, Goto, Step, ghosts, TypeInv, Places
  <2>6. CallInv' /\ OrdinalBound'
    BY <1>3, <2>1, OfferedFinite DEF OpenSegment, Goto, Step, ghosts, At, TypeInv, CallInv, OrdinalBound, Closing
  <2> QED BY <2>5, <2>6
<1>4. CASE OpenFails
  <2>1. TypeInv'
    BY <1>4 DEF OpenFails, Fail, disk, TypeInv, NoCall, Places
  <2>2. CallInv' /\ OrdinalBound'
    BY <1>4, OfferedFinite DEF OpenFails, Fail, At, TypeInv, CallInv, OrdinalBound, NoCall, Closing
  <2> QED BY <2>1, <2>2
<1>5. ASSUME NEW full \in BOOLEAN, WriteEvent(full) PROVE Control'
  <2>1. current # NoSegment /\ call.event \in Events /\ call.event \in Line /\ call.op = "emit"
    BY <1>5 DEF WriteEvent, At, CallInv, NoSegment, Line
  <2>2. partial' \in [Ordinals -> SegmentFile]
    BY <1>5, <2>1, WritePartialType DEF WriteEvent
  <2>3. current' \in Segment /\ current'.open /\ current'.ordinal = current.ordinal
    <3>1. current \in Segment /\ current.open /\ current.count + 1 \in Nat
      BY <1>5, <2>1, PlaceTypes DEF WriteEvent, Segment, At, CallInv
    <3>2. current' = [current EXCEPT !.end = call.event, !.count = current.count + 1]
      BY <1>5 DEF WriteEvent
    <3> QED BY <2>1, <3>1, <3>2 DEF Segment
  <2>4. \/ Goto("sync") /\ Step
        \/ ReturnOk
    BY <1>5 DEF WriteEvent
  <2>5. TypeInv'
    <3>1. accepted' \in Seq(Events) /\ offered' = offered
      BY <2>1, <2>4 DEF Step, ReturnOk, ghosts, TypeInv
    <3>2. call' \in [op : {"none", "emit", "flush", "flushed"}, at : Places, event : Events \cup {NoEvent}]
      BY <2>1, <2>4 DEF Goto, ReturnOk, NoCall, TypeInv, Places
    <3>3. UNCHANGED <<next_segment, index, final, published>>
      BY <1>5 DEF WriteEvent
    <3> QED BY <2>2, <2>3, <3>1, <3>2, <3>3 DEF TypeInv
  <2>6. CallInv' /\ OrdinalBound'
    <3>1. UNCHANGED <<next_segment, offered>> /\ call.at = "write"
      BY <1>5, <2>4 DEF WriteEvent, At, Step, ReturnOk, ghosts
    <3>2. \/ call'.at = "sync" /\ call'.op = "emit" /\ call'.event = call.event
          \/ call'.at = "idle" /\ call'.op = "none"
      BY <2>1, <2>4 DEF Goto, ReturnOk, NoCall, TypeInv
    <3> QED BY <2>1, <2>3, <3>1, <3>2 DEF CallInv, OrdinalBound, Closing
  <2> QED BY <2>5, <2>6
<1>6. ASSUME NEW torn \in BOOLEAN, WriteFails(torn) PROVE Control'
  <2>1. current # NoSegment /\ Torn \in Line
    BY <1>6 DEF WriteFails, At, CallInv, NoSegment, Line
  <2>2. partial' \in [Ordinals -> SegmentFile]
    BY <1>6, <2>1, WritePartialType DEF WriteFails, TypeInv
  <2>3. TypeInv'
    BY <1>6, <2>2 DEF WriteFails, Fail, NoCall, TypeInv, Places
  <2>4. CallInv' /\ OrdinalBound'
    BY <1>6 DEF WriteFails, Fail, NoCall, At, TypeInv, CallInv, OrdinalBound, Closing
  <2> QED BY <2>3, <2>4
<1>7. CASE Sync
  <2>1. current \in Segment /\ current' = [current EXCEPT !.open = FALSE] /\ current' \in Segment
    <3>1. current \in Segment /\ current' = [current EXCEPT !.open = FALSE]
      BY <1>7, PlaceTypes DEF Sync, At, CallInv, NoSegment
    <3> QED BY <3>1 DEF Segment
  <2>2. TypeInv'
    BY <1>7, <2>1 DEF Sync, Goto, Step, ghosts, disk, TypeInv, Places, Closing
  <2>3. current' # NoSegment
    BY <2>1 DEF Segment, NoSegment, Ordinals
  <2>4. CallInv' /\ OrdinalBound'
    BY <1>7, <2>1, <2>3 DEF Sync, Goto, Step, ghosts, disk, At, TypeInv, CallInv, OrdinalBound, Closing, Segment, NoSegment
  <2> QED BY <2>2, <2>4
<1>8. ASSUME Rename \/ CreateCompressed \/ Encode \/ RemovePartial PROVE Control'
  <2>1. /\ current # NoSegment /\ UNCHANGED <<next_segment, current, index, published>> /\ Step
        /\ \E step \in Closing : Goto(step)
        /\ call.at \in Closing
    BY <1>8 DEF Rename, CreateCompressed, Encode, RemovePartial, At, CallInv, Closing
  <2>2. NoFile \in SegmentFile /\ File(<<Torn>>) \in SegmentFile
    BY DEF NoFile, File, SegmentFile, Line
  <2>3. partial' \in [Ordinals -> SegmentFile] /\ final' \in [Ordinals -> SegmentFile]
    <3> DEFINE n == current.ordinal
    <3>1. n \in Ordinals /\ partial[n] \in SegmentFile
      BY <2>1, PlaceTypes
    <3>2. partial \in [Ordinals -> SegmentFile] /\ final \in [Ordinals -> SegmentFile]
      BY DEF TypeInv
    <3>3. partial' = partial \/ partial' = [partial EXCEPT ![n] = NoFile]
      BY <1>8 DEF Rename, CreateCompressed, Encode, RemovePartial
    <3>4. \/ final' = final \/ final' = [final EXCEPT ![n] = partial[n]]
          \/ final' = [final EXCEPT ![n] = File(<<Torn>>)]
      BY <1>8 DEF Rename, CreateCompressed, Encode, RemovePartial
    <3> HIDE DEF n
    <3> QED BY <2>2, <3>1, <3>2, <3>3, <3>4
  <2>4. TypeInv'
    BY <2>1, <2>3 DEF Goto, Step, ghosts, TypeInv, Places
  <2>5. CallInv' /\ OrdinalBound'
    BY <2>1 DEF Goto, Step, ghosts, TypeInv, CallInv, OrdinalBound, Closing
  <2> QED BY <2>4, <2>5
<1>9. CASE Record
  <2>1. current \in Segment
    BY <1>9, PlaceTypes DEF Record, At, CallInv, Closing
  <2> DEFINE segment == [ordinal |-> current.ordinal, start |-> current.start,
                         end |-> current.end, count |-> current.count]
  <2>2. segment \in TraceSegment
    BY <2>1 DEF Segment, TraceSegment
  <2>3. index' = Append(index, segment)
    BY <1>9 DEF Record
  <2>4. index' \in Seq(TraceSegment)
    BY <2>2, <2>3 DEF TypeInv
  <2>5. TypeInv'
    BY <1>9, <2>4 DEF Record, Goto, Step, ghosts, disk, TypeInv, Places
  <2>6. CallInv' /\ OrdinalBound'
    BY <1>9 DEF Record, Goto, Step, ghosts, disk, At, TypeInv, CallInv, OrdinalBound, Closing, NoSegment
  <2> QED BY <2>5, <2>6
<1>10. CASE CloseFails
  <2>1. call.at # "open"
    BY <1>10 DEF CloseFails, At
  <2>2. TypeInv'
    BY <1>10 DEF CloseFails, Fail, NoCall, disk, TypeInv, Places
  <2>3. CallInv' /\ OrdinalBound'
    BY <1>10, <2>1 DEF CloseFails, Fail, NoCall, TypeInv, CallInv, OrdinalBound, Closing, NoSegment
  <2> QED BY <2>2, <2>3
<1>11. CASE WriteIndex
  <2>1. call.at \in {"index", "reindex"} /\ current = NoSegment
    BY <1>11 DEF WriteIndex, At, CallInv
  <2>2. \/ Goto("reindex") /\ Step /\ call.op = "flush"
        \/ ReturnOk
    BY <1>11 DEF WriteIndex
  <2>3. TypeInv'
    <3>1. accepted' \in Seq(Events) /\ offered' = offered
      <4>1. accepted \in Seq(Events) /\ (call.op = "emit" => call.event \in Events)
        BY DEF TypeInv, CallInv
      <4>2. \/ accepted' = accepted /\ offered' = offered
            \/ call.op = "emit" /\ accepted' = Append(accepted, call.event) /\ offered' = offered
        BY <2>2 DEF Step, ReturnOk, ghosts
      <4> QED BY <4>1, <4>2
    <3>2. call' \in [op : {"none", "emit", "flush", "flushed"}, at : Places, event : Events \cup {NoEvent}]
      BY <2>2 DEF Goto, ReturnOk, NoCall, TypeInv, Places
    <3> QED BY <1>11, <3>1, <3>2 DEF WriteIndex, TypeInv
  <2>4. CallInv' /\ OrdinalBound'
    BY <1>11, <2>1, <2>2
    DEF WriteIndex, Goto, Step, ReturnOk, NoCall, ghosts, TypeInv, CallInv, OrdinalBound, Closing
  <2> QED BY <2>3, <2>4
<1>12. CASE WriteIndexFails
  <2>1. call.at # "open"
    BY <1>12 DEF WriteIndexFails, At
  <2>2. TypeInv'
    BY <1>12 DEF WriteIndexFails, Fail, NoCall, disk, TypeInv, Places
  <2>3. CallInv' /\ OrdinalBound'
    BY <1>12, <2>1 DEF WriteIndexFails, At, Fail, NoCall, TypeInv, CallInv, OrdinalBound, Closing
  <2> QED BY <2>2, <2>3
<1>13. CASE Crash
  BY <1>13 DEF Crash, TypeInv, CallInv, OrdinalBound, disk, ghosts
<1>14. CASE UNCHANGED vars
  BY <1>14 DEF vars, disk, ghosts, TypeInv, CallInv, OrdinalBound
<1> QED BY <1>1, <1>2, <1>3, <1>4, <1>5, <1>6, <1>7, <1>8, <1>9, <1>10, <1>11, <1>12, <1>13, <1>14 DEF Next

-----------------------------------------------------------------------------
(* What the files hold. *)

\* Whole speaks of the count of lines and the values of a segment, not of `open'.
LEMMA WholeOf ==
    ASSUME NEW s, NEW t, NEW file, NEW refused, Whole(s, file, refused),
           t.count = s.count, t.end = s.end, t.start = s.start
    PROVE  Whole(t, file, refused)
BY DEF Whole

\* A failure asks less of a file.
LEMMA WholeLater ==
    ASSUME NEW s, NEW file, NEW refused, NEW later, Whole(s, file, refused), refused => later
    PROVE  Whole(s, file, later)
BY DEF Whole

\* The file after a line was written.
LEMMA WrittenPartial ==
    ASSUME Control, current # NoSegment, NEW line \in Line, WritePartial(line)
    PROVE  LET n == current.ordinal IN
           /\ partial'[n] = File(Written(partial[n].lines, line))
           /\ \A k \in Ordinals \ {n} : partial'[k] = partial[k]
           /\ \A e : Has(partial[n], e) => Has(partial'[n], e)
           /\ \/ partial'[n].lines = partial[n].lines /\ Has(partial[n], Torn)
              \/ /\ Len(partial'[n].lines) = Len(partial[n].lines) + 1
                 /\ partial'[n].lines[Len(partial[n].lines) + 1] = line
                 /\ Has(partial'[n], line)
<1> DEFINE n == current.ordinal
           lines == partial[n].lines
<1>1. n \in Ordinals /\ lines \in Seq(Line) /\ partial \in [Ordinals -> SegmentFile]
  BY PlaceTypes DEF Control, SegmentFile, TypeInv
<1>2. partial' = [partial EXCEPT ![n] = File(Written(lines, line))]
  BY DEF WritePartial
<1>3. partial'[n] = File(Written(lines, line)) /\ \A k \in Ordinals \ {n} : partial'[k] = partial[k]
  BY <1>1, <1>2
<1>4. partial'[n].lines = Written(lines, line)
  BY <1>3 DEF File
<1> HIDE DEF lines, n
<1>5. /\ Written(lines, line) \in Seq(Line)
      /\ \A i \in DOMAIN lines : i \in DOMAIN Written(lines, line) /\ Written(lines, line)[i] = lines[i]
      /\ \/ Written(lines, line) = lines /\ \E i \in DOMAIN lines : lines[i] = Torn
         \/ /\ Len(Written(lines, line)) = Len(lines) + 1
            /\ Written(lines, line)[Len(lines) + 1] = line
  BY <1>1, WrittenLines
<1>6. \A e : Has(partial[n], e) => Has(partial'[n], e)
  BY <1>4, <1>5 DEF Has, lines
<1>7. \/ partial'[n].lines = lines /\ Has(partial[n], Torn)
      \/ /\ Len(partial'[n].lines) = Len(lines) + 1
         /\ partial'[n].lines[Len(lines) + 1] = line
         /\ Has(partial'[n], line)
  <2>1. CASE Written(lines, line) = lines /\ \E i \in DOMAIN lines : lines[i] = Torn
    BY <2>1, <1>4 DEF Has, lines
  <2>2. CASE Len(Written(lines, line)) = Len(lines) + 1 /\ Written(lines, line)[Len(lines) + 1] = line
    <3>1. Len(lines) + 1 \in DOMAIN Written(lines, line)
      BY <2>2, <1>1, <1>5
    <3> QED BY <2>2, <3>1, <1>4 DEF Has
  <2> QED BY <2>1, <2>2, <1>5
<1> QED BY <1>3, <1>4, <1>6, <1>7 DEF lines, n

\* No step touches the final file of a segment that is neither the open one nor
\* being closed, and a number is given to one segment only.
StepFiles ==
    /\ \A n \in Ordinals : n # current.ordinal => final'[n] = final[n]
    /\ \A n \in Ordinals : n # current.ordinal =>
           partial'[n] = partial[n] \/ (n = next_segment /\ next_segment' = next_segment + 1)
    /\ next_segment' = next_segment \/ next_segment' = next_segment + 1
    /\ current'.ordinal \in {current.ordinal, 0, next_segment}
    /\ failed => failed'

LEMMA StepFilesOk == Control /\ [Next]_vars => StepFiles
<1> SUFFICES ASSUME Control, [Next]_vars PROVE StepFiles OBVIOUS
<1>0. current = NoSegment => current.ordinal = 0
  BY DEF NoSegment
<1>1. CASE \E event \in Events : Emit(event)
  BY <1>1 DEF Emit, disk, StepFiles
<1>2. CASE Flush \/ WriteIndex \/ WriteIndexFails
  BY <1>2 DEF Flush, WriteIndex, WriteIndexFails, Fail, ReturnOk, Step, disk, ghosts, StepFiles
<1>3. CASE OpenSegment \/ OpenFails
  BY <1>3 DEF OpenSegment, OpenFails, Fail, Step, disk, ghosts, StepFiles, Control, TypeInv
<1>4. ASSUME NEW line \in Line, WritePartial(line), current # NoSegment
      PROVE  \A n \in Ordinals : n # current.ordinal => partial'[n] = partial[n]
  BY <1>4, WrittenPartial
<1>5. ASSUME NEW full \in BOOLEAN, WriteEvent(full) PROVE StepFiles
  <2>1. current # NoSegment /\ call.event \in Line /\ WritePartial(call.event)
    BY <1>5 DEF WriteEvent, At, Control, CallInv, NoSegment, Line
  <2>2. UNCHANGED <<next_segment, final, failed>>
    BY <1>5 DEF WriteEvent, Step, ReturnOk, ghosts
  <2>3. current'.ordinal = current.ordinal
    BY <1>5, <2>1, PlaceTypes DEF WriteEvent, Control, Segment
  <2> QED BY <2>1, <2>2, <2>3, <1>4 DEF StepFiles
<1>6. ASSUME NEW torn \in BOOLEAN, WriteFails(torn) PROVE StepFiles
  <2>1. current # NoSegment /\ Torn \in Line
    BY <1>6 DEF WriteFails, At, Control, CallInv, NoSegment, Line
  <2>2. \A n \in Ordinals : n # current.ordinal => partial'[n] = partial[n]
    BY <1>6, <2>1, <1>4 DEF WriteFails
  <2> QED BY <1>6, <2>1, <2>2 DEF WriteFails, Fail, StepFiles
<1>7. CASE Sync
  <2>1. current'.ordinal = current.ordinal
    BY <1>7, PlaceTypes DEF Sync, At, Control, CallInv, NoSegment, Segment
  <2> QED BY <1>7, <2>1 DEF Sync, Step, disk, ghosts, StepFiles
<1>8. CASE Rename \/ CreateCompressed \/ Encode \/ RemovePartial
  <2>1. current # NoSegment /\ UNCHANGED <<next_segment, current, failed>>
    BY <1>8 DEF Rename, CreateCompressed, Encode, RemovePartial, Step, ghosts, At, Control, CallInv, Closing
  <2>2. \A n \in Ordinals : n # current.ordinal => partial'[n] = partial[n] /\ final'[n] = final[n]
    BY <1>8, <2>1, PlaceTypes DEF Rename, CreateCompressed, Encode, RemovePartial, Control, TypeInv
  <2> QED BY <2>1, <2>2 DEF StepFiles
<1>9. CASE Record
  BY <1>9 DEF Record, Step, disk, ghosts, StepFiles, NoSegment
<1>10. CASE CloseFails
  BY <1>10 DEF CloseFails, Fail, disk, StepFiles, NoSegment
<1>11. CASE Crash \/ UNCHANGED vars
  BY <1>11 DEF Crash, vars, disk, ghosts, StepFiles
<1> QED BY <1>1, <1>2, <1>3, <1>5, <1>6, <1>7, <1>8, <1>9, <1>10, <1>11 DEF Next

LEMMA ListedStays ==
    ASSUME Control, StepFiles, NEW list \in Seq(TraceSegment), ListedWell(list)
    PROVE  \A i \in DOMAIN list :
               /\ list[i].ordinal < next_segment' /\ list[i].ordinal # current'.ordinal
               /\ Whole(list[i], final'[list[i].ordinal], failed')
<1> SUFFICES ASSUME NEW i \in DOMAIN list
             PROVE  /\ list[i].ordinal < next_segment' /\ list[i].ordinal # current'.ordinal
                    /\ Whole(list[i], final'[list[i].ordinal], failed')
  OBVIOUS
<1> DEFINE n == list[i].ordinal
<1>1. n \in Ordinals /\ n \in Nat \ {0} /\ next_segment \in Nat
  <2>1. list[i] \in TraceSegment
    OBVIOUS
  <2>2. n \in Ordinals
    BY <2>1 DEF TraceSegment
  <2>3. next_segment \in Nat
    BY DEF Control, TypeInv
  <2> QED BY <2>2, <2>3, OrdinalsFinite
<1>2. n < next_segment /\ n # current.ordinal /\ Whole(list[i], final[n], failed)
  BY DEF ListedWell
<1>3. final'[n] = final[n]
  BY <1>1, <1>2 DEF StepFiles
<1>4. Whole(list[i], final'[n], failed')
  BY <1>2, <1>3, WholeLater DEF StepFiles
<1>5. n < next_segment' /\ n # current'.ordinal
  BY <1>1, <1>2 DEF StepFiles
<1> QED BY <1>4, <1>5

\* The segment a step of the second half of a call is about.
LEMMA Held ==
    ASSUME Control, current # NoSegment
    PROVE  /\ current \in Segment /\ current.ordinal \in Ordinals /\ current.ordinal \in Nat \ {0}
           /\ partial[current.ordinal].lines \in Seq(Line) /\ final[current.ordinal].lines \in Seq(Line)
           /\ partial[current.ordinal] \in SegmentFile /\ final[current.ordinal] \in SegmentFile
           /\ current.ordinal < next_segment
BY PlaceTypes, OrdinalsFinite DEF Control, CallInv, SegmentFile

Content == ContentInv /\ ListInv /\ FreshInv

LEMMA ListStep == Control /\ Content /\ [Next]_vars => ListInv'
<1> SUFFICES ASSUME Control, Content, [Next]_vars PROVE ListInv' OBVIOUS
<1>1. StepFiles
  BY StepFilesOk
<1>2. ASSUME NEW list \in Seq(TraceSegment), ListedWell(list)
      PROVE  \A i \in DOMAIN list :
                 /\ list[i].ordinal < next_segment' /\ list[i].ordinal # current'.ordinal
                 /\ Whole(list[i], final'[list[i].ordinal], failed')
  BY <1>1, <1>2, ListedStays
<1>3. index \in Seq(TraceSegment) /\ published \in Seq(TraceSegment)
  BY DEF Control, TypeInv
<1>4. ListedWell(index) /\ ListedWell(published)
  BY DEF Content, ListInv
<1>5. ASSUME index' = index, published' \in {index, published} PROVE ListInv'
  <2>1. ListedWell(index)'
    BY <1>2, <1>3, <1>4, <1>5 DEF ListedWell
  <2>2. CASE published' = published
    <3>1. ListedWell(published)'
      BY <1>2, <1>3, <1>4, <2>2 DEF ListedWell
    <3> QED BY <2>1, <3>1 DEF ListInv
  <2>3. CASE published' = index
    <3>1. ListedWell(published)'
      BY <1>2, <1>3, <1>4, <2>3 DEF ListedWell
    <3> QED BY <2>1, <3>1 DEF ListInv
  <2> QED BY <2>2, <2>3, <1>5
<1>6. CASE Record
  <2> DEFINE segment == [ordinal |-> current.ordinal, start |-> current.start,
                         end |-> current.end, count |-> current.count]
  <2>1. /\ current # NoSegment /\ call.at = "record" /\ index' = Append(index, segment)
        /\ current' = NoSegment /\ UNCHANGED <<next_segment, final, published, failed>>
    BY <1>6 DEF Record, At, Control, CallInv, Closing, Step, ghosts, disk
  <2>2. Whole(current, final[current.ordinal], failed)
    BY <2>1 DEF Content, ContentInv
  <2>3. Whole(segment, final[current.ordinal], failed)
    <3> DEFINE file == final[current.ordinal]
    <3>1. segment.count = current.count /\ segment.end = current.end /\ segment.start = current.start
      OBVIOUS
    <3> HIDE DEF segment
    <3> QED BY <2>2, <3>1, WholeOf
  <2>4. /\ segment.ordinal = current.ordinal /\ current.ordinal < next_segment
        /\ current.ordinal # NoSegment.ordinal
    BY <2>1, Held DEF NoSegment
  <2>5. ASSUME NEW i \in DOMAIN index'
        PROVE  /\ index'[i].ordinal < next_segment' /\ index'[i].ordinal # current'.ordinal
               /\ Whole(index'[i], final'[index'[i].ordinal], failed')
    <3>1. CASE i \in DOMAIN index
      <4>1. index'[i] = index[i]
        BY <2>1, <3>1, <1>3
      <4> QED BY <4>1, <3>1, <1>2, <1>3, <1>4
    <3>2. CASE i \notin DOMAIN index
      <4>1. index'[i] = segment
        BY <2>1, <2>5, <3>2, <1>3
      <4> HIDE DEF segment
      <4> QED BY <4>1, <2>1, <2>3, <2>4
    <3> QED BY <3>1, <3>2
  <2>6. ListedWell(index)'
    BY <2>5 DEF ListedWell
  <2>7. ListedWell(published)'
    BY <2>1, <1>2, <1>3, <1>4 DEF ListedWell
  <2> QED BY <2>6, <2>7 DEF ListInv
<1>7. CASE WriteIndex
  BY <1>5, <1>7 DEF WriteIndex
<1>8. CASE ~(Record \/ WriteIndex)
  <2>1. index' = index /\ published' = published
    BY <1>8 DEF Next, Emit, Flush, OpenSegment, OpenFails, WriteEvent, WriteFails, Sync, Rename, CreateCompressed,
       Encode, RemovePartial, CloseFails, WriteIndexFails, Crash, disk, vars
  <2> QED BY <2>1, <1>5
<1> QED BY <1>6, <1>7, <1>8

LEMMA FreshStep == Control /\ Content /\ [Next]_vars => FreshInv'
<1> SUFFICES ASSUME Control, Content, [Next]_vars,
                    NEW n \in Ordinals, n >= next_segment'
             PROVE  partial'[n] = NoFile /\ final'[n] = NoFile
  BY DEF FreshInv
<1>1. StepFiles
  BY StepFilesOk
<1>2. n \in Nat /\ next_segment \in Nat /\ n >= next_segment
  BY <1>1, OrdinalsFinite DEF StepFiles, Control, TypeInv
<1>3. partial[n] = NoFile /\ final[n] = NoFile
  BY <1>2 DEF Content, FreshInv
<1>4. current # NoSegment => n # current.ordinal
  BY <1>2, Held
<1>5. current = NoSegment => n # current.ordinal
  BY OrdinalsFinite DEF NoSegment
<1>6. partial'[n] = partial[n] /\ final'[n] = final[n]
  BY <1>1, <1>2, <1>4, <1>5 DEF StepFiles
<1> QED BY <1>3, <1>6

LEMMA OpenedWhole ==
    ASSUME ContentInv, current.open, call.at # "write"
    PROVE  Whole(current, partial[current.ordinal], failed)
BY DEF ContentInv, Opened

\* Writing an event to the open segment.
LEMMA EventWritten ==
    ASSUME Control, Content, NEW full \in BOOLEAN, WriteEvent(full)
    PROVE  /\ Whole(current', partial'[current.ordinal], failed')
           /\ Has(partial'[current.ordinal], call.event)
              \/ (failed' /\ Has(partial'[current.ordinal], Torn))
<1> DEFINE n == current.ordinal
           event == call.event
           old == partial[n]
           new == partial'[n]
<1>1. /\ current # NoSegment /\ current.open /\ call.at = "write" /\ event \in Events /\ event \in Line
      /\ WritePartial(event)
  BY DEF WriteEvent, At, Control, CallInv, NoSegment, Line
<1>2. /\ failed' = failed
      /\ current' = [current EXCEPT !.end = event, !.count = current.count + 1]
  BY DEF WriteEvent, Step, ReturnOk, ghosts
<1>3. /\ current \in Segment /\ current.count \in Nat
      /\ old.lines \in Seq(Line)
  BY <1>1, Held DEF Segment
<1>4. /\ current'.count = current.count + 1 /\ current'.end = event /\ current'.start = current.start
  BY <1>2, <1>3 DEF Segment
<1>5. /\ new = File(Written(old.lines, event))
      /\ \A e : Has(old, e) => Has(new, e)
      /\ \/ new.lines = old.lines /\ Has(old, Torn)
         \/ /\ Len(new.lines) = Len(old.lines) + 1
            /\ new.lines[Len(old.lines) + 1] = event
            /\ Has(new, event)
  BY <1>1, WrittenPartial
<1>6. Whole(current, old, failed) \/ (old.lines = <<>> /\ current.count = 0 /\ event = current.start)
  BY <1>1 DEF Content, ContentInv, Opened
<1>7. new.there
  BY <1>5 DEF File
<1>8. CASE new.lines = old.lines /\ Has(old, Torn)
  <2>1. failed
    BY <1>6, <1>8 DEF Whole, Has
  <2>2. Has(new, Torn)
    BY <1>5, <1>8
  <2> QED BY <2>1, <2>2, <1>2, <1>7 DEF Whole
<1>9. CASE /\ Len(new.lines) = Len(old.lines) + 1
           /\ new.lines[Len(old.lines) + 1] = event
           /\ Has(new, event)
  <2>1. Has(new, Torn) => Has(old, Torn)
    <3>1. CASE old.lines # <<>> /\ old.lines[Len(old.lines)] = Torn
      BY <3>1, <1>3 DEF Has
    <3>2. CASE ~(old.lines # <<>> /\ old.lines[Len(old.lines)] = Torn)
      <4>1. new.lines = Append(old.lines, event)
        BY <3>2, <1>5 DEF File, Written
      <4>2. event # Torn
        BY <1>1, JsonlSinkAssumption
      <4> HIDE DEF old, new, event
      <4> QED BY <4>1, <4>2, <1>1, <1>3 DEF Has
    <3> QED BY <3>1, <3>2
  <2>2. Has(new, Torn) => failed
    BY <2>1, <1>3, <1>6 DEF Whole, Has
  <2>3. CASE Has(new, Torn)
    BY <2>2, <2>3, <1>2, <1>7, <1>9 DEF Whole
  <2>4. CASE ~Has(new, Torn)
    <3>1. ~Has(old, Torn)
      BY <2>4, <1>5
    <3>2. Len(old.lines) = current.count
      BY <3>1, <1>3, <1>6 DEF Whole
    <3>3. Len(new.lines) = current'.count /\ new.lines[current'.count] = current'.end /\ current'.count > 0
      BY <3>2, <1>3, <1>4, <1>9
    <3>4. ASSUME ~failed PROVE new.lines[1] = current'.start
      <4>1. CASE old.lines = <<>> /\ current.count = 0 /\ event = current.start
        BY <4>1, <3>2, <1>4, <1>9
      <4>2. CASE Whole(current, old, failed)
        <5>1. current.count > 0 /\ old.lines[1] = current.start
          BY <4>2, <3>1, <3>4 DEF Whole
        <5>2. \/ old.lines # <<>> /\ old.lines[Len(old.lines)] = Torn
              \/ new.lines = Append(old.lines, event)
          BY <1>5 DEF File, Written
        <5>3. new.lines = Append(old.lines, event)
          BY <5>2, <3>1, <1>3 DEF Has
        <5> HIDE DEF old, new, event
        <5> QED BY <5>1, <5>3, <3>2, <1>1, <1>3, <1>4
      <4> QED BY <4>1, <4>2, <1>6
    <3> QED BY <3>3, <3>4, <2>4, <1>2, <1>7, <1>9 DEF Whole
  <2> QED BY <2>3, <2>4
<1> QED BY <1>5, <1>8, <1>9

LEMMA ContentStep == Control /\ Content /\ [Next]_vars => ContentInv'
<1> SUFFICES ASSUME Control, Content, [Next]_vars PROVE ContentInv' OBVIOUS
<1> DEFINE n == current.ordinal
<1>0. ContentInv
  BY DEF Content
\* A step that ends the call or begins one, and leaves the segment as it is.
<1>1. ASSUME UNCHANGED <<current, partial, final, failed>>, call'.at \notin Closing,
             current.open => Whole(current, partial[n], failed)
      PROVE  ContentInv'
  <2>1. current'.open => Whole(current', partial'[n], failed')
    BY <1>1
  <2>2. current'.open => final'[n] = NoFile
    BY <1>0, <1>1 DEF ContentInv
  <2> QED BY <1>1, <2>1, <2>2 DEF ContentInv, Closing
\* The segment is closed, or there was none.
<1>2. ASSUME ~current'.open, call'.at \notin Closing PROVE ContentInv'
  BY <1>2 DEF ContentInv, Closing
<1>3. ~NoSegment.open
  BY DEF NoSegment
<1>4. CASE \E event \in Events : Emit(event)
  <2>1. /\ UNCHANGED <<current, partial, final, failed>> /\ call.at = "idle" /\ call'.at \in {"open", "write"}
    BY <1>4 DEF Emit, disk, At
  <2>2. current.open => Whole(current, partial[n], failed)
    BY <2>1, <1>0, OpenedWhole
  <2> QED BY <1>1, <2>1, <2>2 DEF Closing
<1>5. CASE Flush
  <2>1. /\ UNCHANGED <<current, partial, final, failed>> /\ call.at = "idle" /\ call'.at \in {"sync", "reindex"}
    BY <1>5 DEF Flush, disk, ghosts, At
  <2>2. current.open => Whole(current, partial[n], failed)
    BY <2>1, <1>0, OpenedWhole
  <2> QED BY <1>1, <2>1, <2>2 DEF Closing
<1>6. CASE OpenSegment
  <2>1. /\ current'.ordinal = next_segment /\ current'.count = 0 /\ current'.start = call.event
        /\ partial' = [partial EXCEPT ![next_segment] = File(<<>>)] /\ final' = final
        /\ call'.at = "write" /\ call'.event = call.event
    BY <1>6 DEF OpenSegment, Goto, Control, TypeInv
  <2>2. next_segment \in Ordinals
    <3>1. Control'
      BY ControlStep
    <3>2. current' # NoSegment
      BY <1>6 DEF OpenSegment, NoSegment
    <3> QED BY <2>1, <3>1, <3>2 DEF Control, TypeInv, Segment
  <2>3. final[next_segment] = NoFile /\ next_segment \in Nat
    BY <2>2, OrdinalsFinite DEF Content, FreshInv
  <2>4. partial'[next_segment] = File(<<>>)
    BY <2>1, <2>2 DEF Control, TypeInv
  <2>5. Opened(current, partial[current.ordinal])'
    BY <2>1, <2>4 DEF Opened, File
  <2> QED BY <2>1, <2>3, <2>5 DEF ContentInv, Closing
<1>7. CASE OpenFails
  BY <1>2, <1>3, <1>7 DEF OpenFails, Fail, NoCall, At, Control, CallInv, Closing
<1>8. ASSUME NEW full \in BOOLEAN, WriteEvent(full) PROVE ContentInv'
  <2>1. Whole(current', partial'[n], failed')
    BY <1>8, EventWritten
  <2>2. current.open /\ final' = final /\ call'.at \in {"sync", "idle"}
    BY <1>8 DEF WriteEvent, Goto, ReturnOk, NoCall, At, Control, CallInv, TypeInv
  <2>3. current'.ordinal = n /\ final'[n] = NoFile
    <3>1. current # NoSegment
      BY <2>2 DEF NoSegment
    <3>2. current'.ordinal = n
      BY <1>8, <3>1, Held DEF WriteEvent, Segment
    <3> QED BY <3>2, <2>2, <1>0 DEF ContentInv
  <2> QED BY <2>1, <2>2, <2>3 DEF ContentInv, Closing
<1>9. ASSUME NEW torn \in BOOLEAN, WriteFails(torn) PROVE ContentInv'
  <2>1. /\ current # NoSegment /\ current.open /\ Torn \in Line /\ failed'
        /\ current' = current /\ final' = final /\ call'.at = "idle"
    BY <1>9 DEF WriteFails, Fail, NoCall, At, Control, CallInv, NoSegment, Line
  <2>2. CASE ~torn
    <3>1. partial' = partial
      BY <1>9, <2>2 DEF WriteFails
    <3>2. Whole(current, partial[n], failed')
      <4>1. CASE Whole(current, partial[n], failed)
        BY <4>1, <2>1, WholeLater
      <4>2. CASE partial[n].there /\ partial[n].lines = <<>> /\ current.count = 0
        <5>1. ~Has(partial[n], Torn) /\ Len(partial[n].lines) = current.count /\ ~(current.count > 0)
          BY <4>2 DEF Has
        <5> QED BY <4>2, <5>1, <2>1, Zenon DEF Whole
      <4> QED BY <4>1, <4>2, <1>0, <2>1 DEF ContentInv, Opened
    <3> QED BY <1>0, <2>1, <3>1, <3>2 DEF ContentInv, Closing
  <2>3. CASE torn
    <3>1. WritePartial(Torn)
      BY <1>9, <2>3 DEF WriteFails
    <3>2. partial'[n].there /\ Has(partial'[n], Torn)
      <4>1. /\ partial'[n] = File(Written(partial[n].lines, Torn))
            /\ Has(partial[n], Torn) => Has(partial'[n], Torn)
            /\ Has(partial[n], Torn) \/ Has(partial'[n], Torn)
        BY <2>1, <3>1, WrittenPartial
      <4> QED BY <4>1 DEF File
    <3>3. Whole(current, partial'[n], failed')
      BY <2>1, <3>2 DEF Whole
    <3> QED BY <1>0, <2>1, <3>3 DEF ContentInv, Closing
  <2> QED BY <2>2, <2>3
<1>10. CASE Sync
  <2>1. /\ current.open /\ call.at = "sync" /\ UNCHANGED <<partial, final, failed>>
        /\ current' = [current EXCEPT !.open = FALSE] /\ call'.at \in {"create", "rename"}
    BY <1>10 DEF Sync, Goto, Step, ghosts, disk, At, Control, CallInv, TypeInv
  <2>2. current # NoSegment /\ current \in Segment
    BY <2>1, Held DEF NoSegment
  <2>3. /\ ~current'.open /\ current'.ordinal = n /\ current'.count = current.count
        /\ current'.end = current.end /\ current'.start = current.start
    BY <2>1, <2>2 DEF Segment
  <2>4. Whole(current', partial[n], failed)
    BY <1>0, <2>1, <2>3, OpenedWhole, WholeOf
  <2>5. final[n] = NoFile
    BY <1>0, <2>1 DEF ContentInv
  <2> QED BY <2>1, <2>3, <2>4, <2>5 DEF ContentInv, Closing
<1>11. ASSUME Rename \/ CreateCompressed \/ Encode \/ RemovePartial PROVE ContentInv'
  <2>1. /\ current # NoSegment /\ ~current.open /\ current' = current /\ failed' = failed
        /\ call.at \in Closing \ {"record"}
    BY <1>11 DEF Rename, CreateCompressed, Encode, RemovePartial, Step, ghosts, At, Control, CallInv, Closing
  <2>2. n \in Ordinals /\ Whole(current, partial[n], failed)
    BY <2>1, <1>0, Held DEF ContentInv
  <2>3. CASE Rename \/ RemovePartial
    <3>1. final'[n] = partial[n] /\ call'.at = "record"
      BY <2>2, <2>3, <1>0 DEF Rename, RemovePartial, Goto, At, ContentInv, Control, TypeInv
    <3> QED BY <2>1, <2>2, <3>1 DEF ContentInv, Closing
  <2>4. CASE CreateCompressed
    <3>1. final'[n] = File(<<Torn>>) /\ partial' = partial /\ call'.at = "encode"
      BY <2>2, <2>4 DEF CreateCompressed, Goto, Control, TypeInv
    <3> QED BY <2>1, <2>2, <3>1 DEF ContentInv, Closing
  <2>5. CASE Encode
    <3>1. final'[n] = partial[n] /\ partial' = partial /\ call'.at = "remove"
      BY <2>2, <2>5 DEF Encode, Goto, Control, TypeInv
    <3> QED BY <2>1, <2>2, <3>1 DEF ContentInv, Closing
  <2> QED BY <1>11, <2>3, <2>4, <2>5
<1>12. CASE Record
  BY <1>2, <1>3, <1>12 DEF Record, Goto, Control, TypeInv, Closing
<1>13. CASE CloseFails
  BY <1>2, <1>3, <1>13 DEF CloseFails, Fail, NoCall, Closing
<1>14. CASE WriteIndex
  BY <1>2, <1>3, <1>14 DEF WriteIndex, Goto, ReturnOk, NoCall, At, Control, CallInv, TypeInv, Closing
<1>15. CASE WriteIndexFails
  BY <1>2, <1>3, <1>15 DEF WriteIndexFails, Fail, NoCall, At, Control, CallInv, Closing
<1>16. CASE Crash \/ UNCHANGED vars
  <2>1. UNCHANGED <<current, partial, final, failed, call>>
    BY <1>16 DEF Crash, vars, disk, ghosts
  <2> QED BY <1>0, <2>1 DEF ContentInv, Opened
<1> QED BY <1>4, <1>5, <1>6, <1>7, <1>8, <1>9, <1>10, <1>11, <1>12, <1>13, <1>14, <1>15, <1>16 DEF Next

-----------------------------------------------------------------------------
(* Nothing that was written is deleted.                                     *)

LEMMA EmptyFiles == \A e : ~Has(NoFile, e)
BY DEF Has, NoFile

LEMMA KeptStays ==
    ASSUME Control, Content, [Next]_vars, NEW n \in Ordinals, NEW e \in Events,
           KeptIn(partial[n], final[n], failed, e)
    PROVE  KeptIn(partial'[n], final'[n], failed', e)
<1>1. StepFiles /\ ContentInv
  BY StepFilesOk DEF Content
<1>2. ASSUME partial'[n] = partial[n], final'[n] = final[n]
      PROVE  KeptIn(partial'[n], final'[n], failed', e)
  BY <1>1, <1>2 DEF KeptIn, StepFiles
<1>3. CASE n # current.ordinal
  <2>1. n # next_segment
    <3>1. next_segment \in Nat /\ (n = next_segment => partial[n] = NoFile /\ final[n] = NoFile)
      BY OrdinalsFinite DEF Content, FreshInv, Control, TypeInv
    <3> QED BY <3>1, EmptyFiles DEF KeptIn
  <2> QED BY <1>1, <1>2, <1>3, <2>1 DEF StepFiles
<1>4. CASE n = current.ordinal
  <2>1. current # NoSegment
    BY <1>4, OrdinalsFinite DEF NoSegment
  <2>2. ASSUME NEW line \in Line, WritePartial(line), final' = final, failed => failed', current.open
        PROVE  KeptIn(partial'[n], final'[n], failed', e)
    <3>1. Has(partial[n], e) => Has(partial'[n], e)
      BY <1>4, <2>1, <2>2, WrittenPartial
    <3>2. Has(partial[n], Torn) => Has(partial'[n], Torn)
      BY <1>4, <2>1, <2>2, WrittenPartial
    <3>3. final[n] = NoFile /\ final'[n] = final[n]
      BY <1>1, <1>4, <2>2 DEF ContentInv
    <3>4. ~Has(final[n], Torn) /\ ~Has(final[n], e)
      BY <3>3, EmptyFiles
    <3> QED BY <2>2, <3>1, <3>2, <3>3, <3>4 DEF KeptIn
  <2>3. ASSUME NEW full \in BOOLEAN, WriteEvent(full) PROVE KeptIn(partial'[n], final'[n], failed', e)
    <3>1. WritePartial(call.event) /\ call.event \in Line /\ final' = final /\ current.open
      BY <2>3 DEF WriteEvent, At, Control, CallInv, Line
    <3>2. failed' = failed
      BY <2>3 DEF WriteEvent, Step, ReturnOk, ghosts
    <3> QED BY <2>2, <3>1, <3>2
  <2>4. ASSUME NEW torn \in BOOLEAN, WriteFails(torn) PROVE KeptIn(partial'[n], final'[n], failed', e)
    <3>1. /\ torn => WritePartial(Torn)
          /\ ~torn => partial' = partial
          /\ final' = final /\ failed' /\ current.open /\ Torn \in Line
      BY <2>4 DEF WriteFails, Fail, At, Control, CallInv, Line
    <3> QED BY <1>2, <2>2, <3>1
  <2>5. CASE Rename
    <3>1. final'[n] = partial[n] /\ partial'[n] = NoFile /\ failed' = failed /\ call.at = "rename"
      BY <1>4, <2>5 DEF Rename, Step, ghosts, At, Control, TypeInv
    <3>2. final[n] = NoFile /\ partial[n].there
      BY <1>1, <1>4, <3>1 DEF ContentInv, Whole, Closing
    <3>3. ~Has(final[n], e) /\ ~Has(final[n], Torn) /\ ~partial'[n].there
      BY <3>1, <3>2, EmptyFiles DEF NoFile
    <3> QED BY <3>1, <3>3 DEF KeptIn
  <2>6. CASE CreateCompressed
    <3>1. partial'[n] = partial[n] /\ failed' = failed /\ call.at = "create"
      BY <2>6 DEF CreateCompressed, Step, ghosts, At
    <3>2. final[n] = NoFile
      BY <1>1, <1>4, <3>1 DEF ContentInv
    <3>3. ~Has(final[n], e) /\ ~Has(final[n], Torn)
      BY <3>2, EmptyFiles
    <3> QED BY <3>1, <3>3 DEF KeptIn
  <2>7. CASE Encode
    <3>1. partial'[n] = partial[n] /\ final'[n] = partial[n] /\ failed' = failed /\ call.at = "encode"
      BY <1>4, <2>7 DEF Encode, Step, ghosts, At, Control, TypeInv
    <3>2. final[n] = File(<<Torn>>) /\ partial[n].there
      BY <1>1, <1>4, <3>1 DEF ContentInv, Whole, Closing
    <3>3. ~Has(final[n], e)
      <4>1. e # Torn /\ final[n].lines = <<Torn>>
        BY <3>2, JsonlSinkAssumption DEF File
      <4> QED BY <4>1 DEF Has
    <3> QED BY <3>1, <3>2, <3>3 DEF KeptIn
  <2>8. CASE RemovePartial
    <3>1. /\ final'[n] = final[n] /\ final[n] = partial[n] /\ partial'[n] = NoFile /\ failed' = failed
      BY <1>1, <1>4, <2>8 DEF RemovePartial, Step, ghosts, At, ContentInv, Control, TypeInv
    <3>2. ~partial'[n].there
      BY <3>1 DEF NoFile
    <3> QED BY <3>1, <3>2 DEF KeptIn
  <2>9. CASE OpenSegment
    BY <2>1, <2>9 DEF OpenSegment, At, Control, CallInv
  <2>10. ASSUME partial' = partial, final' = final PROVE KeptIn(partial'[n], final'[n], failed', e)
    BY <1>2, <2>10
  <2> QED BY <2>3, <2>4, <2>5, <2>6, <2>7, <2>8, <2>9, <2>10
      DEF Next, Emit, Flush, OpenFails, Sync, Record, CloseFails, WriteIndex, WriteIndexFails, Crash, disk, vars
<1> QED BY <1>3, <1>4

LEMMA KeptStep == Control /\ Content /\ KeptInv /\ [Next]_vars => KeptInv'
<1> SUFFICES ASSUME Control, Content, KeptInv, [Next]_vars PROVE KeptInv' OBVIOUS
<1>1. ASSUME NEW e \in Events, Kept(e)
      PROVE  \E n \in Ordinals : KeptIn(partial'[n], final'[n], failed', e)
  <2>1. PICK n \in Ordinals : KeptIn(partial[n], final[n], failed, e)
    BY <1>1 DEF Kept
  <2> QED BY <2>1, KeptStays
<1>2. accepted \in Seq(Events) /\ \A i \in DOMAIN accepted : accepted[i] \in Events /\ Kept(accepted[i])
  BY DEF Control, TypeInv, KeptInv
\* The event of the call in progress, once it was written.
<1> DEFINE Holding == call.op = "emit" /\ call.at \in {"sync", "index"} \cup Closing
           Safe(e) == \E n \in Ordinals : KeptIn(partial'[n], final'[n], failed', e)
<1>3. Holding => call.event \in Events /\ Safe(call.event)
  BY <1>1 DEF KeptInv, Control, CallInv
<1>4. \A i \in DOMAIN accepted : Safe(accepted[i])
  BY <1>1, <1>2
<1>5. ASSUME accepted' = accepted \/ (call.event \in Events /\ accepted' = Append(accepted, call.event) /\ Safe(call.event)),
             Holding' => call'.event = call.event /\ Safe(call.event)
      PROVE  KeptInv'
  <2> HIDE DEF Safe
  <2>1. \A i \in DOMAIN accepted' : Safe(accepted'[i])
    BY <1>2, <1>4, <1>5
  <2>2. Holding' => Safe(call'.event)
    BY <1>5
  <2> USE DEF Safe
  <2> QED BY <2>1, <2>2 DEF KeptInv, Kept
<1>6. ASSUME NEW full \in BOOLEAN, WriteEvent(full) PROVE KeptInv'
  <2>1. /\ current # NoSegment /\ call.op = "emit" /\ call.event \in Events
    BY <1>6 DEF WriteEvent, At, Control, CallInv, NoSegment
  <2>2. Safe(call.event)
    <3>1. current.ordinal \in Ordinals
      BY <2>1, Held
    <3>2. KeptIn(partial'[current.ordinal], final'[current.ordinal], failed', call.event)
      BY <1>6, EventWritten DEF KeptIn
    <3> QED BY <3>1, <3>2
  <2>3. accepted' = accepted \/ accepted' = Append(accepted, call.event)
    BY <1>6 DEF WriteEvent, Step, ReturnOk, ghosts
  <2>4. Holding' => call'.event = call.event
    BY <1>6 DEF WriteEvent, Goto, ReturnOk, NoCall, Closing, Control, TypeInv
  <2> HIDE DEF Safe, Holding
  <2> QED BY <1>5, <2>1, <2>2, <2>3, <2>4
<1>7. CASE WriteIndex
  <2>1. call.op = "emit" => Holding
    BY <1>7 DEF WriteIndex, At, Control, CallInv
  <2>2. accepted' = accepted \/ (call.op = "emit" /\ accepted' = Append(accepted, call.event))
    BY <1>7 DEF WriteIndex, Step, ReturnOk, ghosts
  <2>3. ~Holding'
    BY <1>7 DEF WriteIndex, Goto, ReturnOk, NoCall, Closing, Control, TypeInv
  <2> HIDE DEF Safe, Holding
  <2> QED BY <1>3, <1>5, <2>1, <2>2, <2>3
<1>8. ASSUME accepted' = accepted, Holding' => Holding /\ call'.event = call.event
      PROVE  KeptInv'
  BY <1>3, <1>5, <1>8
<1>9. CASE OpenFails \/ CloseFails \/ WriteIndexFails \/ \E torn \in BOOLEAN : WriteFails(torn)
  <2>1. Fail
    BY <1>9 DEF OpenFails, CloseFails, WriteIndexFails, WriteFails
  <2> QED BY <1>8, <2>1 DEF Fail, NoCall
<1>10. CASE \/ Flush \/ OpenSegment \/ \E event \in Events : Emit(event)
  <2>1. accepted' = accepted /\ ~Holding'
    BY <1>10 DEF Flush, OpenSegment, Emit, Goto, Step, ghosts, Closing, Control, TypeInv
  <2> QED BY <1>8, <2>1
<1>11. CASE Sync \/ Rename \/ CreateCompressed \/ Encode \/ RemovePartial \/ Record
  <2>1. call.at \in {"sync"} \cup Closing /\ accepted' = accepted /\ \E step \in Places : Goto(step)
    BY <1>11 DEF Sync, Rename, CreateCompressed, Encode, RemovePartial, Record, At, Step, ghosts, Closing, Places
  <2>2. call'.op = call.op /\ call'.event = call.event
    BY <2>1 DEF Goto, Control, TypeInv
  <2> QED BY <1>8, <2>1, <2>2
<1>12. CASE Crash \/ UNCHANGED vars
  BY <1>8, <1>12 DEF Crash, vars, ghosts
<1> QED BY <1>6, <1>7, <1>9, <1>10, <1>11, <1>12 DEF Next

-----------------------------------------------------------------------------
(* Over every behaviour.                                                    *)

LEMMA Invariant == Spec => []IInv
<1>1. Init => IInv
  BY InitIInv
<1>2. IInv /\ [Next]_vars => IInv'
  BY ControlStep, ContentStep, ListStep, FreshStep, KeptStep DEF IInv, Control, Content
<1> QED BY <1>1, <1>2, PTL DEF Spec

\* JsonlSink writes trace-index.json after the segments it lists are complete,
\* in every prefix of every call: whatever failed, and wherever the process
\* died, what the index on disk lists can be read and is what it says.
THEOREM IndexIsReadable == Spec => []IndexedFilesMatch
<1>1. IInv => IndexedFilesMatch
  <2> SUFFICES ASSUME IInv PROVE IndexedFilesMatch OBVIOUS
  <2> SUFFICES ASSUME NEW i \in DOMAIN published
               PROVE  LET segment == published[i]
                          file == final[segment.ordinal]
                      IN  /\ file.there
                          /\ Has(file, Torn) => failed
                          /\ ~Has(file, Torn) =>
                                 /\ Len(file.lines) = segment.count
                                 /\ segment.count > 0 => file.lines[segment.count] = segment.end
                                 /\ ~failed => file.lines[1] = segment.start
    BY DEF IndexedFilesMatch
  <2>1. Whole(published[i], final[published[i].ordinal], failed)
    BY DEF IInv, ListInv, ListedWell
  <2> QED BY <2>1 DEF Whole
<1> QED BY <1>1, Invariant, PTL

\* close_current_segment moves or compresses a segment and removes the partial
\* file last: no failure of a step, and no crash, deletes an event for which
\* emit returned Ok.
THEOREM AcceptedIsKept == Spec => []AcceptedOnDisk
<1>1. IInv => AcceptedOnDisk
  BY DEF IInv, KeptInv, Kept, KeptIn, AcceptedOnDisk
<1> QED BY <1>1, Invariant, PTL

-----------------------------------------------------------------------------
(* A flush without an error before lists what was accepted, in its order.   *)

\* The events of which the file holds a line: those accepted and the one of the
\* call in progress, once it was written.
Holding == call.op = "emit" /\ call.at \in {"sync", "index"} \cup Closing
LinesDue == IF Holding THEN Append(accepted, call.event) ELSE accepted

\* The lines of the listed segments and then of the current one.
CurrentLines ==
    IF current = NoSegment THEN <<>>
    ELSE IF call.at = "record" THEN final[current.ordinal].lines ELSE partial[current.ordinal].lines
Chain == [k \in 1..(Len(index) + 1) |->
             IF k \in DOMAIN index THEN final[index[k].ordinal].lines ELSE CurrentLines]

\* The files have the lines of W, each once, in their order.
InOrder(files, W) ==
    /\ \A k \in DOMAIN files : \A l \in DOMAIN files[k] : \E i \in DOMAIN W : W[i] = files[k][l]
    /\ \A i \in DOMAIN W : \E k \in DOMAIN files : \E l \in DOMAIN files[k] : files[k][l] = W[i]
    /\ \A k, m \in DOMAIN files : \A l \in DOMAIN files[k], n \in DOMAIN files[m], i, j \in DOMAIN W :
           /\ k < m \/ (k = m /\ l < n)
           /\ files[k][l] = W[i] /\ files[m][n] = W[j]
           => i < j

OnceInv ==
    /\ \A i \in DOMAIN accepted : accepted[i] \in offered
    /\ call.op = "emit" => call.event \in offered /\ \A i \in DOMAIN accepted : accepted[i] # call.event

FlushedInv == call.op = "flushed" => call.at = "idle" /\ current = NoSegment /\ published = index

OrderInv == ~failed => InOrder(Chain, LinesDue)

\* A line written to the last file is the last of all.
LEMMA InOrderWrite ==
    ASSUME NEW K \in Nat \ {0}, NEW files, NEW more, NEW W \in Seq(Events), NEW e \in Events,
           DOMAIN files = 1..K, DOMAIN more = 1..K,
           \A k \in 1..K : files[k] \in Seq(Line),
           \A k \in 1..K : k # K => more[k] = files[k],
           more[K] = Append(files[K], e),
           \A i \in DOMAIN W : W[i] # e,
           InOrder(files, W)
    PROVE  InOrder(more, Append(W, e))
<1> DEFINE V == Append(W, e)
           last == files[K]
<1>1. /\ DOMAIN V = 1..(Len(W) + 1) /\ DOMAIN W = 1..Len(W) /\ Len(W) \in Nat
      /\ V[Len(W) + 1] = e /\ \A i \in DOMAIN W : V[i] = W[i]
  OBVIOUS
<1>2. last \in Seq(Line) /\ e \in Line /\ K \in 1..K
  BY DEF Line
<1>3. /\ DOMAIN more[K] = 1..(Len(last) + 1) /\ DOMAIN last = 1..Len(last) /\ Len(last) \in Nat
      /\ more[K][Len(last) + 1] = e /\ \A l \in DOMAIN last : more[K][l] = last[l]
  BY <1>2
\* A line of `more' is one of `files', or the last one.
<1>4. ASSUME NEW k \in 1..K, NEW l \in DOMAIN more[k]
      PROVE  \/ l \in DOMAIN files[k] /\ more[k][l] = files[k][l]
             \/ k = K /\ l = Len(last) + 1 /\ more[k][l] = e
  BY <1>3
<1>5. \A k \in 1..K : \A l \in DOMAIN files[k] : l \in DOMAIN more[k] /\ more[k][l] = files[k][l]
  BY <1>3
<1>6. \A k \in 1..K : \A l \in DOMAIN files[k] : l \in Nat /\ files[k][l] # e /\ (k = K => l <= Len(last))
  <2> SUFFICES ASSUME NEW k \in 1..K, NEW l \in DOMAIN files[k]
               PROVE  l \in Nat /\ files[k][l] # e /\ (k = K => l <= Len(last))
    OBVIOUS
  <2>1. files[k][l] # e
    <3>1. PICK i \in DOMAIN W : W[i] = files[k][l]
      BY DEF InOrder
    <3>2. QED BY <3>1
  <2>2. files[k] \in Seq(Line)
    OBVIOUS
  <2>3. l \in Nat
    BY <2>2
  <2>4. QED BY <2>1, <2>3, <1>3
<1> HIDE DEF V, last
\* An event due is one of before, or the last one.
<1>v. \A i \in DOMAIN V : \/ i \in DOMAIN W /\ V[i] = W[i] /\ i < Len(W) + 1
                          \/ i = Len(W) + 1 /\ V[i] = e
  <2> TAKE i \in DOMAIN V
  <2>1. i \in 1..(Len(W) + 1)
    BY <1>1
  <2>2. CASE i = Len(W) + 1
    BY <2>2, <1>1
  <2>3. CASE i \in 1..Len(W)
    <3>1. i < Len(W) + 1
      BY <2>3, <1>1
    <3>2. i \in DOMAIN W
      BY <2>3, <1>1
    <3>3. V[i] = W[i]
      BY <3>2, <1>1
    <3>4. QED BY <3>1, <3>2, <3>3
  <2>4. QED BY <2>1, <2>2, <2>3, <1>1
<1>7. \A k \in DOMAIN more : \A l \in DOMAIN more[k] : \E i \in DOMAIN V : V[i] = more[k][l]
  <2> SUFFICES ASSUME NEW k \in 1..K, NEW l \in DOMAIN more[k]
               PROVE  \E i \in DOMAIN V : V[i] = more[k][l]
    OBVIOUS
  <2>1. CASE l \in DOMAIN files[k] /\ more[k][l] = files[k][l]
    <3>1. PICK i \in DOMAIN W : W[i] = files[k][l]
      BY <2>1 DEF InOrder
    <3>2. i \in DOMAIN V /\ V[i] = W[i]
      BY <1>1
    <3>3. QED BY <3>1, <3>2, <2>1
  <2>2. CASE more[k][l] = e
    <3>1. Len(W) + 1 \in DOMAIN V
      BY <1>1
    <3>2. QED BY <3>1, <2>2, <1>1
  <2>3. QED BY <1>4, <2>1, <2>2
<1>8. \A i \in DOMAIN V : \E k \in DOMAIN more : \E l \in DOMAIN more[k] : more[k][l] = V[i]
  <2> SUFFICES ASSUME NEW i \in DOMAIN V PROVE \E k \in DOMAIN more : \E l \in DOMAIN more[k] : more[k][l] = V[i]
    OBVIOUS
  <2>1. CASE i \in DOMAIN W
    <3>1. PICK k \in 1..K : \E l \in DOMAIN files[k] : files[k][l] = W[i]
      BY <2>1 DEF InOrder
    <3>2. QED BY <3>1, <1>1, <1>5, <2>1
  <2>2. CASE i = Len(W) + 1
    <3>1. Len(last) + 1 \in DOMAIN more[K] /\ more[K][Len(last) + 1] = V[i]
      BY <1>1, <1>3, <2>2
    <3>2. QED BY <3>1, <1>2
  <2>3. QED BY <1>1, <2>1, <2>2
<1>9. ASSUME NEW k \in DOMAIN more, NEW m \in DOMAIN more, NEW l \in DOMAIN more[k], NEW n \in DOMAIN more[m],
             NEW i \in DOMAIN V, NEW j \in DOMAIN V,
             k < m \/ (k = m /\ l < n), more[k][l] = V[i], more[m][n] = V[j]
      PROVE  i < j
  <2>1. l \in DOMAIN files[k] /\ more[k][l] = files[k][l]
    <3>1. SUFFICES ASSUME k = K /\ l = Len(last) + 1 PROVE FALSE
      BY <1>4
    <3>2. m = K /\ l < n
      BY <1>9, <3>1
    <3>3. n \in 1..(Len(last) + 1)
      BY <3>2, <1>3
    <3>4. QED BY <3>1, <3>2, <3>3, <1>3
  <2>2. V[i] # e
    BY <2>1, <1>6, <1>9
  <2>3. i \in DOMAIN W /\ W[i] = V[i] /\ i < Len(W) + 1
    BY <2>2, <1>v
  <2>4. CASE n \in DOMAIN files[m] /\ more[m][n] = files[m][n]
    <3>1. V[j] # e
      BY <2>4, <1>6, <1>9
    <3>2. j \in DOMAIN W /\ W[j] = V[j]
      BY <3>1, <1>v
    <3>3. files[k][l] = W[i] /\ files[m][n] = W[j]
      BY <2>1, <2>3, <2>4, <3>2, <1>9
    <3>4. /\ k \in DOMAIN files /\ m \in DOMAIN files /\ l \in DOMAIN files[k] /\ n \in DOMAIN files[m]
          /\ i \in DOMAIN W /\ j \in DOMAIN W /\ (k < m \/ (k = m /\ l < n))
      BY <2>1, <2>3, <2>4, <3>2, <1>9
    <3>5. QED BY ONLY <3>3, <3>4, InOrder(files, W) DEF InOrder
  <2>5. CASE more[m][n] = e
    <3>1. j = Len(W) + 1
      <4>1. \A x \in DOMAIN W : W[x] # V[j]
        BY <2>5, <1>9
      <4>2. QED BY <4>1, <1>v
    <3>2. QED BY <2>3, <3>1
  <2>6. QED BY <1>4, <2>4, <2>5
<1>10. InOrder(more, V)
  BY <1>7, <1>8, <1>9 DEF InOrder
<1>11. QED BY <1>10 DEF V

\* An empty file more changes nothing.
LEMMA InOrderClose ==
    ASSUME NEW K \in Nat \ {0}, NEW files, NEW more, NEW W,
           DOMAIN files = 1..K, DOMAIN more = 1..(K + 1),
           \A k \in 1..K : more[k] = files[k], more[K + 1] = <<>>,
           InOrder(files, W)
    PROVE  InOrder(more, W)
<1>1. DOMAIN more[K + 1] = {}
  OBVIOUS
<1>2. \A k \in DOMAIN more : \A l \in DOMAIN more[k] : k \in DOMAIN files /\ more[k] = files[k]
  BY <1>1
<1>3. \A k \in DOMAIN files : k \in DOMAIN more /\ more[k] = files[k]
  OBVIOUS
<1>4. \A k \in DOMAIN more : \A l \in DOMAIN more[k] : \E i \in DOMAIN W : W[i] = more[k][l]
  BY <1>2 DEF InOrder
<1>5. \A i \in DOMAIN W : \E k \in DOMAIN more : \E l \in DOMAIN more[k] : more[k][l] = W[i]
  BY <1>3 DEF InOrder
<1>6. ASSUME NEW k \in DOMAIN more, NEW m \in DOMAIN more, NEW l \in DOMAIN more[k], NEW n \in DOMAIN more[m],
             NEW i \in DOMAIN W, NEW j \in DOMAIN W,
             k < m \/ (k = m /\ l < n), more[k][l] = W[i], more[m][n] = W[j]
      PROVE  i < j
  BY <1>2, <1>6 DEF InOrder
<1>7. QED BY <1>4, <1>5, <1>6 DEF InOrder

\* Every event is emitted once.
LEMMA OnceStep == Control /\ OnceInv /\ [Next]_vars => OnceInv'
<1> SUFFICES ASSUME Control, OnceInv, [Next]_vars PROVE OnceInv' OBVIOUS
<1> USE DEF OnceInv
<1>0. accepted \in Seq(Events)
  BY DEF Control, TypeInv
<1>1. ASSUME NEW event \in Events, Emit(event) PROVE OnceInv'
  BY <1>1 DEF Emit
<1>2. ASSUME Fail PROVE OnceInv'
  BY <1>2 DEF Fail, NoCall
<1>3. ASSUME ReturnOk PROVE OnceInv'
  <2>1. call'.op # "emit" /\ offered' = offered
    BY <1>3 DEF ReturnOk, NoCall
  <2>2. \/ accepted' = accepted
        \/ call.op = "emit" /\ accepted' = Append(accepted, call.event)
    BY <1>3 DEF ReturnOk
  <2>3. CASE call.op = "emit" /\ accepted' = Append(accepted, call.event)
    <3>1. call.event \in Events
      BY <2>3 DEF Control, CallInv
    <3>2. \A i \in DOMAIN accepted' : (i \in DOMAIN accepted /\ accepted'[i] = accepted[i]) \/ accepted'[i] = call.event
      BY <2>3, <3>1, <1>0
    <3>3. QED BY <2>1, <2>3, <3>2
  <2>4. QED BY <2>1, <2>2, <2>3
<1>4. ASSUME Step, NEW at, Goto(at) PROVE OnceInv'
  <2>1. call'.op = call.op /\ call'.event = call.event /\ accepted' = accepted /\ offered' = offered
    BY <1>4 DEF Step, Goto, ghosts, Control, TypeInv
  <2>2. QED BY <2>1
<1>5. CASE Flush
  BY <1>5 DEF Flush, ghosts
<1>6. CASE Crash \/ UNCHANGED vars
  BY <1>6 DEF Crash, vars, ghosts
<1>7. CASE OpenFails \/ CloseFails \/ WriteIndexFails \/ \E torn \in BOOLEAN : WriteFails(torn)
  BY <1>2, <1>7 DEF OpenFails, CloseFails, WriteIndexFails, WriteFails
<1>8. ASSUME NEW full \in BOOLEAN, WriteEvent(full) PROVE OnceInv'
  BY <1>3, <1>4, <1>8 DEF WriteEvent
<1>9. CASE WriteIndex
  BY <1>3, <1>4, <1>9 DEF WriteIndex
<1>10. CASE OpenSegment \/ Sync \/ Rename \/ CreateCompressed \/ Encode \/ RemovePartial \/ Record
  <2>1. Step /\ \E at \in Places : Goto(at)
    BY <1>10 DEF OpenSegment, Sync, Rename, CreateCompressed, Encode, RemovePartial, Record, Places, Closing
  <2>2. QED BY <2>1, <1>4
<1>11. QED BY <1>1, <1>5, <1>6, <1>7, <1>8, <1>9, <1>10 DEF Next

\* A flush that returned has written the whole index, and nothing was done since.
LEMMA FlushedStep == Control /\ FlushedInv /\ [Next]_vars => FlushedInv'
<1> SUFFICES ASSUME Control, FlushedInv, [Next]_vars PROVE FlushedInv' OBVIOUS
<1> USE DEF FlushedInv
<1>1. CASE Flush \/ \E event \in Events : Emit(event)
  BY <1>1 DEF Flush, Emit
<1>2. ASSUME Fail PROVE FlushedInv'
  BY <1>2 DEF Fail, NoCall
<1>3. CASE OpenFails \/ CloseFails \/ WriteIndexFails \/ \E torn \in BOOLEAN : WriteFails(torn)
  BY <1>2, <1>3 DEF OpenFails, CloseFails, WriteIndexFails, WriteFails
<1>4. ASSUME NEW at, Goto(at), call.at # "idle" PROVE FlushedInv'
  BY <1>4 DEF Goto, Control, TypeInv
<1>5. CASE OpenSegment \/ Sync \/ Rename \/ CreateCompressed \/ Encode \/ RemovePartial \/ Record
  <2>1. call.at # "idle" /\ \E at \in Places : Goto(at)
    BY <1>5 DEF OpenSegment, Sync, Rename, CreateCompressed, Encode, RemovePartial, Record, At, Places, Closing
  <2>2. QED BY <2>1, <1>4
<1>6. ASSUME NEW full \in BOOLEAN, WriteEvent(full) PROVE FlushedInv'
  <2>1. call.at = "write" /\ call.op = "emit"
    BY <1>6 DEF WriteEvent, At, Control, CallInv
  <2>2. Goto("sync") \/ ReturnOk
    BY <1>6 DEF WriteEvent
  <2>3. CASE ReturnOk
    BY <2>1, <2>3 DEF ReturnOk, NoCall
  <2>4. QED BY <2>1, <2>2, <2>3, <1>4
<1>7. CASE WriteIndex
  <2>1. call.at \in {"index", "reindex"} /\ current' = NoSegment /\ published' = index /\ index' = index
    BY <1>7 DEF WriteIndex, At, Control, CallInv
  <2>2. Goto("reindex") \/ ReturnOk
    BY <1>7 DEF WriteIndex
  <2>3. CASE ReturnOk
    BY <2>1, <2>3 DEF ReturnOk, NoCall
  <2>4. QED BY <2>1, <2>2, <2>3, <1>4
<1>8. CASE Crash \/ UNCHANGED vars
  BY <1>8 DEF Crash, vars, disk
<1>9. QED BY <1>1, <1>3, <1>5, <1>6, <1>7, <1>8 DEF Next

\* The chain of the files, by what is known of their places.
LEMMA ChainType ==
    ASSUME Control
    PROVE  /\ DOMAIN Chain = 1..(Len(index) + 1) /\ Len(index) \in Nat /\ DOMAIN index = 1..Len(index)
           /\ \A k \in DOMAIN Chain : Chain[k] \in Seq(Line)
           /\ Chain[Len(index) + 1] = CurrentLines
           /\ \A k \in DOMAIN index : Chain[k] = final[index[k].ordinal].lines
<1>1. Len(index) \in Nat /\ DOMAIN index = 1..Len(index)
  BY DEF Control, TypeInv
<1>2. \A k \in DOMAIN index : final[index[k].ordinal].lines \in Seq(Line)
  <2> TAKE k \in DOMAIN index
  <2>1. index[k] \in TraceSegment
    BY DEF Control, TypeInv
  <2>2. final[index[k].ordinal] \in SegmentFile
    BY <2>1 DEF TraceSegment, Control, TypeInv
  <2>3. QED BY <2>2 DEF SegmentFile
<1>3. CurrentLines \in Seq(Line)
  BY Held DEF CurrentLines
<1>4. Len(index) + 1 \notin DOMAIN index
  BY <1>1
<1>5. QED BY <1>1, <1>2, <1>3, <1>4 DEF Chain

\* The lines of listed segments stay.
LEMMA ChainStays ==
    ASSUME Control, Content, [Next]_vars, index' = index, CurrentLines' = CurrentLines
    PROVE  Chain' = Chain
<1>1. \A k \in DOMAIN index : final'[index[k].ordinal] = final[index[k].ordinal]
  <2> TAKE k \in DOMAIN index
  <2>1. index[k] \in TraceSegment
    BY DEF Control, TypeInv
  <2>2. index[k].ordinal \in Ordinals /\ index[k].ordinal # current.ordinal
    BY <2>1 DEF TraceSegment, Content, ListInv, ListedWell
  <2>3. QED BY <2>2, StepFilesOk DEF StepFiles
<1>2. \A k \in 1..(Len(index) + 1) :
          (IF k \in DOMAIN index THEN final'[index[k].ordinal].lines ELSE CurrentLines)
          = (IF k \in DOMAIN index THEN final[index[k].ordinal].lines ELSE CurrentLines)
  BY <1>1
<1>3. QED BY <1>2 DEF Chain

\* No step breaks the order: a line is written to the last file, and closing a
\* segment moves its lines to the place of the list it is appended to.
LEMMA OrderStep ==
    ASSUME Control, Control', Content, OnceInv, OrderInv, [Next]_vars
    PROVE  OrderInv'
<1> SUFFICES ASSUME ~failed' PROVE InOrder(Chain, LinesDue)'
  BY DEF OrderInv
<1>0. ~failed /\ InOrder(Chain, LinesDue) /\ ~Fail
  BY StepFilesOk DEF StepFiles, OrderInv, Fail
<1>a. accepted \in Seq(Events)
  BY DEF Control, TypeInv
<1>n. current = NoSegment => CurrentLines = <<>>
  BY DEF CurrentLines
\* Nothing is written.
<1>1. ASSUME index' = index, CurrentLines' = CurrentLines, LinesDue' = LinesDue
      PROVE  InOrder(Chain, LinesDue)'
  <2>1. Chain' = Chain
    BY <1>1, ChainStays
  <2>2. QED BY <2>1, <1>0, <1>1 DEF InOrder
<1>2. CASE Flush \/ \E event \in Events : Emit(event)
  <2>1. /\ UNCHANGED <<current, index, partial, final, accepted>>
        /\ call.at = "idle" /\ call'.at \notin {"record", "index"} \cup Closing
        /\ call'.op = "emit" => call'.at \in {"open", "write"}
    BY <1>2 DEF Flush, Emit, disk, ghosts, At, Closing
  <2>2. CurrentLines' = CurrentLines
    BY <2>1 DEF CurrentLines
  <2>3. LinesDue' = accepted /\ LinesDue = accepted
    BY <2>1 DEF LinesDue, Holding, Closing
  <2>4. QED BY <2>1, <2>2, <2>3, <1>1
<1>3. CASE Crash \/ UNCHANGED vars
  <2>1. UNCHANGED <<call, current, index, partial, final, accepted>>
    BY <1>3 DEF Crash, vars, disk, ghosts
  <2>2. CurrentLines' = CurrentLines /\ LinesDue' = LinesDue
    BY <2>1 DEF CurrentLines, LinesDue, Holding
  <2>3. QED BY <2>1, <2>2, <1>1
<1>4. CASE OpenFails \/ CloseFails \/ WriteIndexFails \/ \E torn \in BOOLEAN : WriteFails(torn)
  BY <1>4, <1>0 DEF OpenFails, CloseFails, WriteIndexFails, WriteFails
<1>5. CASE OpenSegment
  <2>1. /\ call.at = "open" /\ call'.at = "write" /\ current = NoSegment /\ current' # NoSegment
        /\ current'.ordinal = next_segment /\ partial' = [partial EXCEPT ![next_segment] = File(<<>>)]
        /\ index' = index /\ accepted' = accepted
    BY <1>5 DEF OpenSegment, At, Goto, Step, ghosts, Control, TypeInv, CallInv, NoSegment
  <2>2. next_segment \in Ordinals
    BY <2>1 DEF Control, TypeInv, Segment
  <2>3. partial'[next_segment] = File(<<>>)
    BY <2>1, <2>2 DEF Control, TypeInv
  <2>4. CurrentLines' = CurrentLines
    BY <2>1, <2>3, <1>n DEF CurrentLines, File
  <2>5. LinesDue' = LinesDue
    BY <2>1 DEF LinesDue, Holding, Closing
  <2>6. QED BY <2>1, <2>4, <2>5, <1>1
<1>6. ASSUME NEW at, Goto(at), Step, call.at \in {"sync"} \cup Closing, at \in {"index"} \cup Closing
      PROVE  LinesDue' = LinesDue
  <2>1. call'.op = call.op /\ call'.event = call.event /\ call'.at = at /\ accepted' = accepted
    BY <1>6 DEF Goto, Step, ghosts, Control, TypeInv
  <2>2. QED BY <2>1, <1>6 DEF LinesDue, Holding
<1>7. CASE Sync
  <2>1. /\ current.open /\ current # NoSegment /\ index' = index /\ partial' = partial
        /\ call.at = "sync" /\ call'.at \in {"create", "rename"}
        /\ current' = [current EXCEPT !.open = FALSE]
    BY <1>7 DEF Sync, Goto, At, disk, Control, TypeInv, CallInv, NoSegment
  <2>2. current \in Segment /\ current'.ordinal = current.ordinal
    BY <2>1, Held DEF Segment
  <2>3. current' # NoSegment
    BY <2>1, <2>2 DEF Control, CallInv, Closing
  <2>4. CurrentLines' = CurrentLines
    BY <2>1, <2>2, <2>3 DEF CurrentLines
  <2>5. LinesDue' = LinesDue
    BY <1>6, <1>7, <2>1 DEF Sync, Closing
  <2>6. QED BY <2>1, <2>4, <2>5, <1>1
<1>8. CASE Rename \/ CreateCompressed \/ Encode \/ RemovePartial
  <2> DEFINE n == current.ordinal
  <2>1. /\ current # NoSegment /\ UNCHANGED <<current, index>>
        /\ call.at \in Closing \ {"record"}
    BY <1>8 DEF Rename, CreateCompressed, Encode, RemovePartial, At, Control, CallInv, Closing
  <2>2. n \in Ordinals
    BY <2>1, Held
  <2>3. CurrentLines = partial[n].lines
    BY <2>1 DEF CurrentLines
  <2>4. CurrentLines' = CurrentLines
    <3>1. CASE Rename \/ RemovePartial
      <4>1. final'[n] = partial[n] /\ call'.at = "record"
        BY <2>2, <3>1 DEF Rename, RemovePartial, Goto, At, Content, ContentInv, Control, TypeInv
      <4>2. QED BY <4>1, <2>1, <2>3 DEF CurrentLines
    <3>2. CASE CreateCompressed \/ Encode
      <4>1. partial' = partial /\ call'.at \in {"encode", "remove"}
        BY <3>2 DEF CreateCompressed, Encode, Goto, Control, TypeInv
      <4>2. QED BY <4>1, <2>1, <2>3 DEF CurrentLines
    <3>3. QED BY <1>8, <3>1, <3>2
  <2>5. Step /\ \E at \in {"index"} \cup Closing : Goto(at)
    BY <1>8 DEF Rename, CreateCompressed, Encode, RemovePartial, Closing
  <2>6. LinesDue' = LinesDue
    BY <2>1, <2>5, <1>6
  <2>7. QED BY <2>1, <2>4, <2>6, <1>1
<1>9. CASE Record
  <2> DEFINE segment == [ordinal |-> current.ordinal, start |-> current.start,
                         end |-> current.end, count |-> current.count]
             K == Len(index) + 1
  <2>1. /\ call.at = "record" /\ current # NoSegment /\ current' = NoSegment
        /\ index' = Append(index, segment) /\ final' = final
    BY <1>9 DEF Record, At, disk, Control, CallInv, Closing
  <2>2. /\ DOMAIN index = 1..Len(index) /\ Len(index) \in Nat /\ Len(index') = K
        /\ DOMAIN index' = 1..K /\ index'[K].ordinal = current.ordinal
        /\ \A k \in DOMAIN index : index'[k] = index[k]
    BY <2>1 DEF Control, TypeInv
  <2>3. DOMAIN Chain = 1..K /\ DOMAIN Chain' = 1..(K + 1) /\ Chain'[K + 1] = <<>>
    BY <2>1, <2>2 DEF Chain, CurrentLines
  <2>4. Chain'[K] = Chain[K]
    BY <2>1, <2>2 DEF Chain, CurrentLines
  <2>5. \A k \in DOMAIN index : Chain'[k] = Chain[k]
    BY <2>1, <2>2 DEF Chain
  <2>6. \A k \in 1..K : Chain'[k] = Chain[k]
    BY <2>2, <2>4, <2>5
  <2>7. InOrder(Chain', LinesDue)
    <3>1. K \in Nat \ {0}
      BY <2>2
    <3> HIDE DEF K
    <3>2. QED BY <3>1, <2>3, <2>6, <1>0, InOrderClose
  <2>8. LinesDue' = LinesDue
    BY <1>6, <1>9, <2>1 DEF Record, Closing
  <2>9. QED BY <2>7, <2>8 DEF InOrder
<1>10. ASSUME NEW full \in BOOLEAN, WriteEvent(full) PROVE InOrder(Chain, LinesDue)'
  <2> DEFINE n == current.ordinal
             event == call.event
             K == Len(index) + 1
  <2>1. /\ call.at = "write" /\ call.op = "emit" /\ current.open /\ current # NoSegment
        /\ event \in Events /\ event \in Line /\ WritePartial(event)
        /\ UNCHANGED <<index, final>> /\ current' = [current EXCEPT !.end = event, !.count = current.count + 1]
    BY <1>10 DEF WriteEvent, At, Control, CallInv, NoSegment, Line
  <2>2. current \in Segment /\ current'.ordinal = n /\ current'.open /\ current' # NoSegment
    <3>1. current \in Segment
      BY <2>1, Held
    <3>2. current'.ordinal = n /\ current'.open
      BY <2>1, <3>1 DEF Segment
    <3>3. QED BY <3>1, <3>2 DEF NoSegment
  <2>3. call'.at \in {"sync", "idle"}
    BY <1>10 DEF WriteEvent, Goto, ReturnOk, NoCall, Control, TypeInv
  <2>4. CurrentLines = partial[n].lines /\ CurrentLines' = partial'[n].lines /\ CurrentLines \in Seq(Line)
    BY <2>1, <2>2, <2>3, Held DEF CurrentLines
  <2>5. ~Has(partial[n], Torn)
    BY <2>1, <1>0, JsonlSinkAssumption DEF Content, ContentInv, Whole, Opened, Has
  <2>6. CurrentLines' = Append(CurrentLines, event)
    <3>1. partial'[n] = File(Written(partial[n].lines, event))
      BY <2>1, WrittenPartial
    <3>2. ~(CurrentLines # <<>> /\ CurrentLines[Len(CurrentLines)] = Torn)
      BY <2>4, <2>5 DEF Has
    <3>3. QED BY <3>1, <3>2, <2>4 DEF File, Written
  <2>7. LinesDue = accepted /\ LinesDue' = Append(accepted, event)
    <3>1. LinesDue = accepted
      BY <2>1 DEF LinesDue, Holding, Closing
    <3>2. CASE Goto("sync") /\ Step
      <4>1. call'.op = "emit" /\ call'.at = "sync" /\ call'.event = event /\ accepted' = accepted
        BY <3>2, <2>1 DEF Goto, Step, ghosts, Control, TypeInv
      <4>2. QED BY <3>1, <4>1 DEF LinesDue, Holding
    <3>3. CASE ReturnOk
      <4>1. call'.op = "none" /\ accepted' = Append(accepted, event)
        BY <3>3, <2>1 DEF ReturnOk, NoCall
      <4>2. QED BY <3>1, <4>1 DEF LinesDue, Holding
    <3>4. QED BY <1>10, <3>1, <3>2, <3>3 DEF WriteEvent
  <2>8. \A i \in DOMAIN accepted : accepted[i] # event
    BY <2>1 DEF OnceInv
  <2>9. /\ DOMAIN Chain = 1..K /\ DOMAIN Chain' = 1..K /\ K \in Nat \ {0}
        /\ \A k \in 1..K : Chain[k] \in Seq(Line)
        /\ Chain[K] = CurrentLines /\ Chain'[K] = CurrentLines'
        /\ \A k \in 1..K : k # K => k \in DOMAIN index
    BY <2>1, ChainType DEF Chain
  <2>10. \A k \in 1..K : k # K => Chain'[k] = Chain[k]
    BY <2>1, <2>9 DEF Chain
  <2>11. InOrder(Chain', Append(accepted, event))
    <3> HIDE DEF K, event, n
    <3>1. Chain'[K] = Append(Chain[K], event)
      BY <2>6, <2>9
    <3>2. InOrder(Chain, accepted)
      BY <1>0, <2>7
    <3>3. QED BY <3>1, <3>2, <2>1, <2>8, <2>9, <2>10, <1>a, InOrderWrite
  <2>12. QED BY <2>7, <2>11 DEF InOrder
<1>11. CASE WriteIndex
  <2>1. call.at \in {"index", "reindex"} /\ current = NoSegment /\ UNCHANGED <<current, index>>
    BY <1>11 DEF WriteIndex, At, Control, CallInv
  <2>2. CurrentLines' = CurrentLines
    BY <2>1 DEF CurrentLines
  <2>3. LinesDue' = LinesDue
    <3>1. call.op = "emit" => call.at = "index"
      BY <2>1 DEF Control, CallInv
    <3>2. CASE Goto("reindex") /\ Step /\ call.op = "flush"
      BY <3>2 DEF Goto, Step, ghosts, LinesDue, Holding, Control, TypeInv
    <3>3. CASE ReturnOk
      BY <3>1, <3>3 DEF ReturnOk, NoCall, LinesDue, Holding
    <3>4. QED BY <1>11, <3>2, <3>3 DEF WriteIndex
  <2>4. QED BY <2>1, <2>2, <2>3, <1>1
<1>12. QED BY <1>2, <1>3, <1>4, <1>5, <1>7, <1>8, <1>9, <1>10, <1>11 DEF Next

\* flush closes the open segment, if there is one, and writes the index: if no
\* call failed before, the index on disk lists what emit returned Ok for, in that
\* order, for any number of events and any limit of a segment.
THEOREM FlushIsComplete == Spec => []FlushComplete
<1>1. Init => OnceInv /\ FlushedInv /\ OrderInv
  <2> SUFFICES ASSUME Init PROVE OnceInv /\ FlushedInv /\ OrderInv OBVIOUS
  <2>1. OnceInv /\ FlushedInv
    BY DEF Init, NoCall, OnceInv, FlushedInv
  <2>2. LinesDue = <<>> /\ CurrentLines = <<>> /\ index = <<>>
    BY DEF Init, NoCall, LinesDue, Holding, CurrentLines
  <2>3. Chain = [k \in 1..1 |-> <<>>]
    BY <2>2 DEF Chain
  <2>4. OrderInv
    BY <2>2, <2>3 DEF OrderInv, InOrder
  <2>5. QED BY <2>1, <2>4
<1>2. Spec => [](OnceInv /\ FlushedInv /\ OrderInv)
  <2>1. /\ IInv /\ IInv' /\ OnceInv /\ FlushedInv /\ OrderInv /\ [Next]_vars
        => (OnceInv /\ FlushedInv /\ OrderInv)'
    BY OnceStep, FlushedStep, OrderStep DEF IInv, Control, Content
  <2>2. QED BY <1>1, <2>1, Invariant, PTL DEF Spec
<1>3. IInv /\ FlushedInv /\ OrderInv => FlushComplete
  <2> SUFFICES ASSUME IInv, FlushedInv, OrderInv, call.op = "flushed", ~failed PROVE FlushComplete
    BY DEF FlushComplete
  <2>1. published = index /\ current = NoSegment
    BY DEF FlushedInv
  <2>2. InOrder(Chain, accepted)
    BY DEF OrderInv, LinesDue, Holding
  <2>3. /\ DOMAIN Chain = 1..(Len(index) + 1) /\ Len(index) \in Nat /\ DOMAIN index = 1..Len(index)
        /\ Chain[Len(index) + 1] = <<>>
        /\ \A k \in DOMAIN index : Chain[k] = final[index[k].ordinal].lines
    BY <2>1, ChainType DEF IInv, Control, CurrentLines
  <2>4. \A k \in DOMAIN Chain : \A l \in DOMAIN Chain[k] : k \in DOMAIN index
    BY <2>3
  <2>5. \A p \in ListedLines : p[1] \in DOMAIN index /\ p[2] \in DOMAIN Chain[p[1]] /\ LineAt(p) = Chain[p[1]][p[2]]
    <3> TAKE p \in ListedLines
    <3>1. PICK k \in DOMAIN index : p \in {k} \X DOMAIN final[index[k].ordinal].lines
      BY <2>1 DEF ListedLines
    <3>2. p[1] = k /\ p[2] \in DOMAIN final[index[k].ordinal].lines
      BY <3>1
    <3>3. QED BY <3>2, <2>1, <2>3 DEF LineAt
  <2>6. ASSUME NEW k \in DOMAIN index, NEW l \in DOMAIN Chain[k]
        PROVE  \E p \in ListedLines : LineAt(p) = Chain[k][l]
    <3> DEFINE p == <<k, l>>
    <3>1. p \in {k} \X DOMAIN final[index[k].ordinal].lines
      BY <2>3, <2>6
    <3>2. p \in ListedLines
      BY <3>1, <2>1 DEF ListedLines
    <3>3. p[1] = k /\ p[2] = l
      OBVIOUS
    <3> HIDE DEF p
    <3>4. LineAt(p) = Chain[k][l]
      BY <3>3, <2>1, <2>3 DEF LineAt
    <3>5. QED BY <3>2, <3>4
  <2>7. ASSUME NEW p \in ListedLines PROVE \E i \in DOMAIN accepted : LineAt(p) = accepted[i]
    <3>1. p[1] \in DOMAIN Chain /\ p[2] \in DOMAIN Chain[p[1]] /\ LineAt(p) = Chain[p[1]][p[2]]
      BY <2>3, <2>5
    <3>2. QED BY <3>1, <2>2 DEF InOrder
  <2>8. ASSUME NEW i \in DOMAIN accepted PROVE \E p \in ListedLines : LineAt(p) = accepted[i]
    <3>1. PICK k \in DOMAIN Chain : \E l \in DOMAIN Chain[k] : Chain[k][l] = accepted[i]
      BY <2>2 DEF InOrder
    <3>2. k \in DOMAIN index
      BY <3>1, <2>4
    <3>3. QED BY <3>1, <3>2, <2>6
  <2>9. {LineAt(p) : p \in ListedLines} = {accepted[i] : i \in DOMAIN accepted}
    BY <2>7, <2>8
  <2>10. ASSUME NEW p \in ListedLines, NEW q \in ListedLines, NEW i \in DOMAIN accepted, NEW j \in DOMAIN accepted,
                Before(p, q), LineAt(p) = accepted[i], LineAt(q) = accepted[j]
         PROVE  i < j
    <3>1. /\ p[1] \in DOMAIN Chain /\ p[2] \in DOMAIN Chain[p[1]] /\ LineAt(p) = Chain[p[1]][p[2]]
          /\ q[1] \in DOMAIN Chain /\ q[2] \in DOMAIN Chain[q[1]] /\ LineAt(q) = Chain[q[1]][q[2]]
      BY <2>3, <2>5
    <3>2. p[1] < q[1] \/ (p[1] = q[1] /\ p[2] < q[2])
      BY <2>10 DEF Before
    <3>3. Chain[p[1]][p[2]] = accepted[i] /\ Chain[q[1]][q[2]] = accepted[j]
      BY <3>1, <2>10
    <3>4. QED BY ONLY <3>1, <3>2, <3>3, <2>2, i \in DOMAIN accepted, j \in DOMAIN accepted DEF InOrder
  <2>11. QED BY <2>9, <2>10 DEF FlushComplete
<1>4. QED BY <1>2, <1>3, Invariant, PTL
=============================================================================
