----------------------------- MODULE JsonlSink -----------------------------
(***************************************************************************)
(* The file sink of crates/bw-runtime: JsonlSinkInner writes events to a   *)
(* segment `trace-segment-N.jsonl.partial', closes it when it is full or   *)
(* when the sink is flushed (sync, rename or compress and remove, hash),   *)
(* appends it to the index and rewrites trace-index.json.  emit and flush  *)
(* run under one mutex, so calls do not interleave; but every step of a    *)
(* call touches the file system, may fail, and may be the last one of the  *)
(* process.  Each such step is one action.                                 *)
(*                                                                         *)
(* Nothing here orders the events (threads may hand them over out of the   *)
(* order of their numbers), so they are just a set; a file is the sequence *)
(* of its lines.  trace-index.json.partial has no reader: writing it and   *)
(* renaming it is one step.  A missing index file and an empty one are not *)
(* told apart.                                                             *)
(***************************************************************************)
EXTENDS Naturals, FiniteSets, Sequences

CONSTANTS
    Events,           \* the events emitted, each once
    NoEvent,
    MaxPerSegment,    \* max_events_per_segment
    Torn              \* a line whose end was not written

ASSUME JsonlSinkAssumption ==
    /\ IsFiniteSet(Events)
    /\ NoEvent \notin Events
    /\ MaxPerSegment \in Nat \ {0}
    /\ Torn \notin Events

VARIABLES
    compress,      \* set by the builder
    next_segment,
    current,       \* the open segment, or the one being closed
    index,         \* TraceIndex in memory
    partial, final, \* segment files, by ordinal
    published,     \* trace-index.json
    call,          \* the call in progress and its next step
    offered,       \* events emit was called with
    accepted,      \* those for which it returned Ok, in order
    failed,        \* some call returned Err
    alive          \* the process runs

vars == <<compress, next_segment, current, index, partial, final, published,
          call, offered, accepted, failed, alive>>
disk == <<partial, final, published>>
ghosts == <<offered, accepted, failed>>

\* Every segment is opened for an event.
Ordinals == 1..Cardinality(Events)
NoFile == [there |-> FALSE, lines |-> <<>>]
File(lines) == [there |-> TRUE, lines |-> lines]
NoSegment == [open |-> FALSE, ordinal |-> 0, start |-> NoEvent,
              end |-> NoEvent, count |-> 0]
NoCall == [op |-> "none", at |-> "idle", event |-> NoEvent]

Init ==
    /\ compress \in BOOLEAN
    /\ next_segment = 1
    /\ current = NoSegment
    /\ index = <<>>
    /\ partial = [n \in Ordinals |-> NoFile]
    /\ final = [n \in Ordinals |-> NoFile]
    /\ published = <<>>
    /\ call = NoCall
    /\ offered = {}
    /\ accepted = <<>>
    /\ failed = FALSE
    /\ alive = TRUE

-----------------------------------------------------------------------------
At(step) == alive /\ call.at = step
Goto(step) == call' = [call EXCEPT !.at = step]

\* A call that returns Err.  close_current_segment has already taken the
\* segment out of `current' when one of its steps fails.
Fail ==
    /\ call' = NoCall
    /\ failed' = TRUE
    /\ UNCHANGED <<compress, offered, accepted, alive>>

ReturnOk ==
    /\ call' = [NoCall EXCEPT !.op = IF call.op = "flush" THEN "flushed" ELSE "none"]
    /\ accepted' = IF call.op = "emit" THEN Append(accepted, call.event) ELSE accepted
    /\ UNCHANGED <<compress, offered, failed, alive>>

Step == UNCHANGED <<compress, ghosts, alive>>

\* emit
Emit(event) ==
    /\ At("idle")
    /\ event \in Events \ offered
    /\ offered' = offered \cup {event}
    /\ call' = [op |-> "emit", at |-> IF current.open THEN "write" ELSE "open", event |-> event]
    /\ UNCHANGED <<compress, next_segment, current, index, disk, accepted, failed, alive>>

\* Mutant: flush writes the index and leaves the open segment.
FlushIndexOnly ==
    /\ At("idle")
    /\ call' = [op |-> "flush", at |-> "reindex", event |-> NoEvent]
    /\ UNCHANGED <<compress, next_segment, current, index, disk, ghosts, alive>>

\* flush: close_current_segment does nothing without a segment, and does not
\* write the index either.
Flush ==
    /\ At("idle")
    /\ call' = [op |-> "flush", at |-> IF current.open THEN "sync" ELSE "reindex", event |-> NoEvent]
    /\ UNCHANGED <<compress, next_segment, current, index, disk, ghosts, alive>>

\* Mutant: an ordinal that was not recorded is used again.
OpenSegmentAfterIndex ==
    /\ At("open")
    /\ next_segment' = next_segment + 1
    /\ partial' = [partial EXCEPT ![Len(index) + 1] = File(<<>>)]
    /\ current' = [open |-> TRUE, ordinal |-> Len(index) + 1,
                   start |-> call.event, end |-> call.event, count |-> 0]
    /\ Goto("write") /\ Step
    /\ UNCHANGED <<index, final, published>>

\* open_segment
OpenSegment ==
    /\ At("open")
    /\ next_segment' = next_segment + 1
    /\ partial' = [partial EXCEPT ![next_segment] = File(<<>>)]
    /\ current' = [open |-> TRUE, ordinal |-> next_segment,
                   start |-> call.event, end |-> call.event, count |-> 0]
    /\ Goto("write") /\ Step
    /\ UNCHANGED <<index, final, published>>

\* The ordinal is used up all the same.
OpenFails ==
    /\ At("open")
    /\ next_segment' = next_segment + 1
    /\ Fail
    /\ UNCHANGED <<current, index, disk>>

\* Text appended to a file whose last line has no end is glued to it.
Written(lines, line) ==
    IF lines # <<>> /\ lines[Len(lines)] = Torn THEN lines ELSE Append(lines, line)

WritePartial(line) ==
    partial' = [partial EXCEPT ![current.ordinal] = File(Written(partial[current.ordinal].lines, line))]

\* The segment is full by events, or by bytes, which may be at any count.
WriteEvent(fullByBytes) ==
    /\ At("write")
    /\ WritePartial(call.event)
    /\ current' = [current EXCEPT !.end = call.event, !.count = current.count + 1]
    /\ IF current.count + 1 >= MaxPerSegment \/ fullByBytes
       THEN Goto("sync") /\ Step
       ELSE ReturnOk
    /\ UNCHANGED <<next_segment, index, final, published>>

\* write_all stops before the first byte, or after some.
WriteFails(torn) ==
    /\ At("write")
    /\ IF torn THEN WritePartial(Torn) ELSE UNCHANGED partial
    /\ Fail
    /\ UNCHANGED <<next_segment, current, index, final, published>>

\* close_current_segment: `current' is taken first.
Sync ==
    /\ At("sync")
    /\ current' = [current EXCEPT !.open = FALSE]
    /\ Goto(IF compress THEN "create" ELSE "rename") /\ Step
    /\ UNCHANGED <<next_segment, index, disk>>

Rename ==
    /\ At("rename")
    /\ final' = [final EXCEPT ![current.ordinal] = partial[current.ordinal]]
    /\ partial' = [partial EXCEPT ![current.ordinal] = NoFile]
    /\ Goto("record") /\ Step
    /\ UNCHANGED <<next_segment, current, index, published>>

\* Mutant: the segment is listed as soon as its output exists.
CreateCompressedListed ==
    /\ At("create")
    /\ final' = [final EXCEPT ![current.ordinal] = File(<<Torn>>)]
    /\ published' = Append(index, [ordinal |-> current.ordinal, start |-> current.start,
                                   end |-> current.end, count |-> current.count])
    /\ Goto("encode") /\ Step
    /\ UNCHANGED <<next_segment, current, index, partial>>

\* compress_to_zstd: the output exists, incomplete, before it is complete.
CreateCompressed ==
    /\ At("create")
    /\ final' = [final EXCEPT ![current.ordinal] = File(<<Torn>>)]
    /\ Goto("encode") /\ Step
    /\ UNCHANGED <<next_segment, current, index, partial, published>>

Encode ==
    /\ At("encode")
    /\ final' = [final EXCEPT ![current.ordinal] = partial[current.ordinal]]
    /\ Goto("remove") /\ Step
    /\ UNCHANGED <<next_segment, current, index, partial, published>>

RemovePartial ==
    /\ At("remove")
    /\ partial' = [partial EXCEPT ![current.ordinal] = NoFile]
    /\ Goto("record") /\ Step
    /\ UNCHANGED <<next_segment, current, index, final, published>>

\* The hash is taken from the final file, then the index in memory grows.
Record ==
    /\ At("record")
    /\ index' = Append(index, [ordinal |-> current.ordinal, start |-> current.start,
                               end |-> current.end, count |-> current.count])
    /\ current' = NoSegment
    /\ Goto("index") /\ Step
    /\ UNCHANGED <<next_segment, disk>>

\* A step of close_current_segment fails: the segment is in no index from here
\* on, and the next event opens another.
CloseFails ==
    /\ \E step \in {"sync", "rename", "create", "encode", "remove", "record"} : At(step)
    /\ current' = NoSegment
    /\ Fail
    /\ UNCHANGED <<next_segment, index, disk>>

\* write_index; a flush that closed a segment writes the index twice.
WriteIndex ==
    /\ At("index") \/ At("reindex")
    /\ published' = index
    /\ IF call.at = "index" /\ call.op = "flush"
       THEN Goto("reindex") /\ Step
       ELSE ReturnOk
    /\ UNCHANGED <<next_segment, current, index, partial, final>>

WriteIndexFails ==
    /\ At("index") \/ At("reindex")
    /\ Fail
    /\ UNCHANGED <<next_segment, current, index, disk>>

\* The process dies; files keep what was written to them.
Crash ==
    /\ alive
    /\ alive' = FALSE
    /\ UNCHANGED <<compress, next_segment, current, index, disk, call, ghosts>>

Next ==
    \/ \E event \in Events : Emit(event)
    \/ Flush
    \/ OpenSegment \/ OpenFails
    \/ \E full \in BOOLEAN : WriteEvent(full)
    \/ \E torn \in BOOLEAN : WriteFails(torn)
    \/ Sync \/ Rename \/ CreateCompressed \/ Encode \/ RemovePartial \/ Record
    \/ CloseFails
    \/ WriteIndex \/ WriteIndexFails
    \/ Crash

Spec == Init /\ [][Next]_vars

-----------------------------------------------------------------------------
(* Correctness. *)

Has(file, line) == \E i \in DOMAIN file.lines : file.lines[i] = line

\* What trace-index.json lists can be read, also after a crash between any two
\* steps: the final file of every segment is there and complete; unless a write
\* that was reported tore a line of it, it holds as many events as listed, up to
\* the last; and it begins with event_start unless some write was refused (then
\* event_start may name an event that never reached the file).
IndexedFilesMatch ==
    \A i \in DOMAIN published :
        LET segment == published[i]
            file == final[segment.ordinal]
        IN  /\ file.there
            /\ Has(file, Torn) => failed
            /\ ~Has(file, Torn) =>
                   /\ Len(file.lines) = segment.count
                   /\ segment.count > 0 => file.lines[segment.count] = segment.end
                   /\ ~failed => file.lines[1] = segment.start

\* An event accepted is never deleted: it is in a segment file, whatever step
\* of whatever close failed or was the last, unless it was glued to a torn line.
AcceptedOnDisk ==
    \A i \in DOMAIN accepted : \E n \in Ordinals :
        \/ Has(partial[n], accepted[i]) \/ Has(final[n], accepted[i])
        \/ failed /\ (Has(partial[n], Torn) \/ (Has(final[n], Torn) /\ ~partial[n].there))

\* The lines of the segments the index on disk lists, by place in the index and
\* in the file, and which of two comes first.
ListedLines == UNION {{k} \X DOMAIN final[published[k].ordinal].lines : k \in DOMAIN published}
LineAt(p) == final[published[p[1]].ordinal].lines[p[2]]
Before(p, q) == p[1] < q[1] \/ (p[1] = q[1] /\ p[2] < q[2])

\* After a flush returned Ok, with no error before, the index on disk lists every
\* accepted event, and nothing else, once and in the order they came.
FlushComplete ==
    call.op = "flushed" /\ ~failed =>
        /\ {LineAt(p) : p \in ListedLines} = {accepted[i] : i \in DOMAIN accepted}
        /\ \A p, q \in ListedLines, i, j \in DOMAIN accepted :
               Before(p, q) /\ LineAt(p) = accepted[i] /\ LineAt(q) = accepted[j] => i < j
=============================================================================
