------------------------------ MODULE Recorder -----------------------------
(***************************************************************************)
(* One JSONL trace file and the Recorder objects that write it, one after  *)
(* another or, when Overlap, at the same time: the check an appending      *)
(* recorder makes before it opens the file, the buffered write and flush   *)
(* of each event, the end of the session, close, and the death of the      *)
(* recording process.                                                      *)
(*                                                                         *)
(* A line reaches the file in three chunks, because a flush may stop       *)
(* within it: the JSON text but its end (1), that end (2), the newline (3).*)
(***************************************************************************)
EXTENDS Naturals, Sequences, SequencesExt

CONSTANTS
    Recorders,
    Fresh,        \* those opened with append = False, which truncates
    SessionOf,    \* the session_id each recorder is given
    Overlap,      \* may a recorder start while another is in use?
    MaxLines,     \* bound: lines each recorder tries to write
    MaxFaults     \* bound: writes or flushes that raise OSError

ASSUME RecorderAssumption ==
    /\ Fresh \subseteq Recorders
    /\ Overlap \in BOOLEAN
    /\ MaxLines \in [Recorders -> Nat] /\ MaxFaults \in Nat

VARIABLES
    file,       \* the chunks in the file, in order
    state,      \* of each recorder: idle, checked, open, gone
    ended,      \* Recorder._ended
    buffer,     \* chunks written to the handle and not yet in the file
    tried,      \* number of lines each recorder has tried to write
    returned,   \* the lines whose call returned to the caller, in order
    met,        \* have two recorders been past their check at the same time?
    faults
handles == <<state, ended, buffer, tried>>
vars == <<file, handles, returned, met, faults>>

Chunk(line, part) == [line |-> line, part |-> part]
Chunks(line) == <<Chunk(line, 1), Chunk(line, 2), Chunk(line, 3)>>

(* What parser.read_jsonl makes of the file *)

Starts(k) == k = 1 \/ file[k - 1].part = 3

\* Every physical line is blank or one complete JSON object.
Parses ==
    /\ \A k \in DOMAIN file :
          \/ file[k].part = 1 /\ Starts(k)
          \/ file[k].part = 2 /\ k > 1 /\ file[k - 1] = Chunk(file[k].line, 1)
          \/ file[k].part = 3 /\ (Starts(k) \/ file[k - 1].part = 2)
    /\ file # <<>> => Last(file).part # 1

IsHead(chunk) == chunk.part = 1

\* The loop of the reader: the lines begun in the first k chunks, in order.
LinesOf(chunks) ==
    LET lines[k \in 0..Len(chunks)] ==
            IF k = 0 THEN <<>>
            ELSE IF IsHead(chunks[k]) THEN Append(lines[k - 1], chunks[k].line)
            ELSE lines[k - 1]
    IN  lines[Len(chunks)]
Lines == LinesOf(file)
Events == {chunk.line : chunk \in {c \in ToSet(file) : IsHead(c)}}

\* read_jsonl returns: at least one event, and all of one session.
Readable == Parses /\ Events # {} /\ \A d, e \in Events : SessionOf[d.by] = SessionOf[e.by]

Init ==
    /\ file = <<>> /\ returned = <<>>
    /\ state = [r \in Recorders |-> "idle"]
    /\ ended = [r \in Recorders |-> FALSE]
    /\ buffer = [r \in Recorders |-> <<>>]
    /\ tried = [r \in Recorders |-> 0]
    /\ met = FALSE /\ faults = 0

Alone(r) == \A q \in Recorders \ {r} : state[q] \in {"idle", "gone"}

Appendable_FirstLine(r) ==
    Readable /\ SessionOf[Lines[1].by] = SessionOf[r] /\ ~Lines[1].end
Appendable_NoParse(r) == \A e \in Events : SessionOf[e.by] = SessionOf[r] /\ ~e.end
Appendable_AnySession(r) == Readable /\ \A e \in Events : ~e.end

\* The trace is non-empty, unfinished and of the recorder's session.
Appendable(r) == Readable /\ \A e \in Events : SessionOf[e.by] = SessionOf[r] /\ ~e.end

\* __init__ with append = True, up to the open call; "gone" when it raises.
Check(r) ==
    /\ state[r] = "idle" /\ r \notin Fresh
    /\ Overlap \/ Alone(r)
    /\ state' = [state EXCEPT ![r] = IF file = <<>> \/ Appendable(r)
                                     THEN "checked" ELSE "gone"]
    /\ met' = (met \/ (state'[r] = "checked" /\ ~Alone(r)))
    /\ UNCHANGED <<file, ended, buffer, tried, returned, faults>>

OpenToAppend_Truncate(r) ==
    /\ state[r] = "checked"
    /\ state' = [state EXCEPT ![r] = "open"]
    /\ file' = <<>> /\ returned' = <<>>
    /\ UNCHANGED <<ended, buffer, tried, met, faults>>

\* path.open("a"); O_APPEND keeps every later write at the end of the file.
OpenToAppend(r) ==
    /\ state[r] = "checked"
    /\ state' = [state EXCEPT ![r] = "open"]
    /\ UNCHANGED <<file, ended, buffer, tried, returned, met, faults>>

\* path.open("w"): a new recording replaces the file, which nobody else uses.
OpenAfresh(r) ==
    /\ state[r] = "idle" /\ r \in Fresh /\ Alone(r)
    /\ state' = [state EXCEPT ![r] = "open"]
    /\ file' = <<>> /\ returned' = <<>>
    /\ met' = FALSE
    /\ UNCHANGED <<ended, buffer, tried, faults>>

\* The handle holds data; n chunks of it reach the file and the rest stays.
Flush(r, data, n) ==
    /\ file' = file \o SubSeq(data, 1, n)
    /\ buffer' = [buffer EXCEPT ![r] = SubSeq(data, n + 1, Len(data))]

Count(raised) ==
    /\ faults + (IF raised THEN 1 ELSE 0) <= MaxFaults
    /\ faults' = faults + (IF raised THEN 1 ELSE 0)

NextLine(r, end) == [by |-> r, n |-> tried[r] + 1, end |-> end]

Attempt(r) ==
    /\ state[r] = "open" /\ ~ended[r] /\ tried[r] < MaxLines[r]
    /\ tried' = [tried EXCEPT ![r] = @ + 1]

Write_NoFlush(r) ==
    /\ Attempt(r)
    /\ Flush(r, buffer[r] \o Chunks(NextLine(r, FALSE)), 0)
    /\ returned' = Append(returned, NextLine(r, FALSE))
    /\ UNCHANGED <<state, ended, met, faults>>

\* _write, by whichever event method: a flush that raises keeps in the handle
\* what it has not written; a line longer than the handle's buffers goes out
\* in handle.write, and what a failing write leaves of it is dropped.
Write(r) ==
    /\ Attempt(r)
    /\ LET line == NextLine(r, FALSE)
           data == buffer[r] \o Chunks(line)
       IN \/ \E n \in 0..Len(data) :
                /\ Count(n < Len(data))
                /\ Flush(r, data, n)
                /\ returned' = IF n < Len(data) THEN returned ELSE Append(returned, line)
          \/ \E n \in 0..(Len(data) - 2) :
                /\ Count(TRUE)
                /\ file' = file \o SubSeq(data, 1, n)
                /\ buffer' = [buffer EXCEPT ![r] = SubSeq(@, n + 1, Len(@))]
                /\ UNCHANGED returned
    /\ UNCHANGED <<state, ended, met>>

\* end: _ended is set only after the flush returns.
End(r) ==
    /\ Attempt(r)
    /\ LET line == NextLine(r, TRUE)
           data == buffer[r] \o Chunks(line)
       IN \E n \in 0..Len(data) :
             /\ Count(n < Len(data))
             /\ Flush(r, data, n)
             /\ ended' = [ended EXCEPT ![r] = n = Len(data)]
             /\ returned' = IF n < Len(data) THEN returned ELSE Append(returned, line)
    /\ UNCHANGED <<state, met>>

Shut_KeepBuffer(r, data, n, raised) ==
    /\ n < Len(data) => raised
    /\ Count(raised)
    /\ Flush(r, data, n)
    /\ state' = [state EXCEPT ![r] = "gone"]

\* close: a last flush; what a failing one leaves in the handle is lost.
Shut(r, data, n, raised) ==
    /\ n < Len(data) => raised
    /\ Count(raised)
    /\ file' = file \o SubSeq(data, 1, n)
    /\ buffer' = [buffer EXCEPT ![r] = <<>>]
    /\ state' = [state EXCEPT ![r] = "gone"]

Close(r) ==
    /\ state[r] = "open"
    /\ \E n \in 0..Len(buffer[r]) : Shut(r, buffer[r], n, n < Len(buffer[r]))
    /\ UNCHANGED <<ended, tried, returned, met>>

\* __exit__: end the session if that is not done, and close in any case, so
\* that the line of an end that raised may still reach the file.
Exit(r) ==
    \/ ended[r] /\ Close(r)
    \/ /\ Attempt(r)
       /\ LET line == NextLine(r, TRUE)
              data == buffer[r] \o Chunks(line)
          IN \E n \in 0..Len(data), raised \in BOOLEAN :
                /\ Shut(r, data, n, raised)
                /\ ended' = [ended EXCEPT ![r] = ~raised]
                /\ returned' = IF raised THEN returned ELSE Append(returned, line)
       /\ UNCHANGED met

\* The process dies, perhaps within the write of one more line; what had not
\* left its buffers is lost.
Crash(r) ==
    /\ state[r] \in {"checked", "open"}
    /\ \E end \in BOOLEAN :
          LET writing == state[r] = "open" /\ ~ended[r] /\ tried[r] < MaxLines[r]
              data == buffer[r] \o (IF writing THEN Chunks(NextLine(r, end)) ELSE <<>>)
          IN \E n \in 0..Len(data) : file' = file \o SubSeq(data, 1, n)
    /\ buffer' = [buffer EXCEPT ![r] = <<>>]
    /\ state' = [state EXCEPT ![r] = "gone"]
    /\ UNCHANGED <<ended, tried, returned, met, faults>>

Next ==
    \E r \in Recorders :
        \/ Check(r) \/ OpenToAppend(r) \/ OpenAfresh(r)
        \/ Write(r) \/ End(r) \/ Close(r) \/ Exit(r) \/ Crash(r)

Spec == Init /\ [][Next]_vars

\* The lines that recorders may try to write.
Line == {l \in [by : Recorders, n : Nat, end : BOOLEAN] : l.n \in 1..MaxLines[l.by]}

\* The types of the file, of the recorders and of the history.
TypeOK ==
    /\ file \in Seq([line : Line, part : 1..3]) /\ returned \in Seq(Line)
    /\ state \in [Recorders -> {"idle", "checked", "open", "gone"}]
    /\ ended \in [Recorders -> BOOLEAN]
    /\ buffer \in [Recorders -> Seq([line : Line, part : 1..3])]
    /\ \A r \in Recorders :
          /\ state[r] # "open" => buffer[r] = <<>>
          /\ tried[r] \in 0..MaxLines[r]
    /\ DOMAIN tried = Recorders
    /\ met \in BOOLEAN /\ faults \in 0..MaxFaults

\* A call that returned has put its event in the trace for good: whatever
\* fails or dies later, and whichever recorders overlap, a trace that can be
\* read holds each returned event once, in the order of the calls.
ReturnedIsRecorded ==
    LET Places(line) == {k \in DOMAIN Lines : Lines[k] = line}
    IN Readable =>
        /\ \A j \in DOMAIN returned : \E k \in DOMAIN Lines : Places(returned[j]) = {k}
        /\ \A i, j \in DOMAIN returned : i < j =>
              \A k \in Places(returned[i]), l \in Places(returned[j]) : k < l

\* No event follows a complete session_end: "cannot record events after
\* session_end" and "cannot append to a different or ended session".
EndIsLast ==
    \A j, k \in DOMAIN file :
        file[j].line.end /\ file[j].part = 2 /\ file[k].part = 1 => k < j

\* EndIsLast, but for its two exceptions: an end whose flush failed, and
\* recorders that were admitted to one trace at the same time.
EndIsLastUnlessFault == faults = 0 /\ ~met => EndIsLast

\* A line cut short by the death of its recorder is never continued by the
\* line of another that comes later: the trace stays where it broke.
TearIsFinal ==
    ~met => \A k \in DOMAIN file :
        file[k].part = 1 /\ k < Len(file) /\ file[k + 1] # Chunk(file[k].line, 2)
            => file[k + 1].line.by = file[k].line.by

\* The file holds the events of a single session, as long as recorders come
\* one after another: what a crash leaves of a line neither hides nor changes
\* the session of the lines before it.
OneSession == ~met => \A d, e \in Events : SessionOf[d.by] = SessionOf[e.by]
=============================================================================
