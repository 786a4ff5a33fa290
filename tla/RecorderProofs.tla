--------------------------- MODULE RecorderProofs --------------------------
(***************************************************************************)
(* The types, the unbroken lines, the single session and the final end of  *)
(* a recording, for any recorders, sessions, sizes and faults.             *)
(***************************************************************************)
EXTENDS Recorder, SequenceTheorems, WellFoundedInduction, TLAPS

\* The chunks of recorder r.
Own(r) == {c \in [line : Line, part : 1..3] : c.line.by = r}
AnyChunk == [line : Line, part : 1..3]

\* The recorders that have passed their check, or started afresh.
Past(r) == state[r] \in {"checked", "open"}

\* A complete end of session is in the file.
Over == \E k \in DOMAIN file : file[k].line.end /\ file[k].part = 2

\* TypeOK with the owner of what a handle holds.
Typed ==
    /\ file \in Seq(AnyChunk) /\ returned \in Seq(Line)
    /\ state \in [Recorders -> {"idle", "checked", "open", "gone"}]
    /\ ended \in [Recorders -> BOOLEAN]
    /\ buffer \in [Recorders -> Seq(AnyChunk)]
    /\ \A r \in Recorders : buffer[r] \in Seq(Own(r)) /\ (state[r] # "open" => buffer[r] = <<>>)
    /\ tried \in [Recorders -> Nat] /\ \A r \in Recorders : tried[r] <= MaxLines[r]
    /\ met \in BOOLEAN /\ faults \in 0..MaxFaults

\* One recorder at a time, which may go on where the file ends: after the end
\* of a line or within a line of its own.
Exclusive == ~met => \A p, q \in Recorders : Past(p) /\ Past(q) => p = q
MayGoOn(r) == file # <<>> => file[Len(file)].part # 1 \/ file[Len(file)].line.by = r
OfSession(r) == \A k \in DOMAIN file : file[k].part = 1 => SessionOf[file[k].line.by] = SessionOf[r]
Admitted == ~met => \A r \in Recorders : Past(r) => MayGoOn(r) /\ OfSession(r)
Agreed ==
    ~met => \A j, k \in DOMAIN file :
        file[j].part = 1 /\ file[k].part = 1
            => SessionOf[file[j].line.by] = SessionOf[file[k].line.by]

\* Without a fault nothing stays in a handle, and the recorder whose line
\* ended the session knows it.
Closed ==
    faults = 0 /\ ~met =>
        /\ EndIsLast
        /\ \A r \in Recorders : buffer[r] = <<>> /\ (Past(r) /\ ~ended[r] => ~Over)

IInv == Typed /\ Exclusive /\ Admitted /\ TearIsFinal /\ Agreed /\ Closed
-----------------------------------------------------------------------------
(* Sequences of a recorder's chunks *)

LEMMA OwnIsChunk == ASSUME NEW r PROVE Own(r) \subseteq AnyChunk
BY DEF Own, AnyChunk

\* A sequence of some of the elements is a sequence of all.
LEMMA Widen == ASSUME NEW S, NEW T, S \subseteq T, NEW s \in Seq(S) PROVE s \in Seq(T)
<1>1. Len(s) \in Nat /\ s \in [1..Len(s) -> S]  BY LenProperties
<1>2. \A k \in 1..Len(s) : s[k] \in T  BY <1>1
<1>3. s \in [1..Len(s) -> T]  BY <1>1, <1>2
<1> QED  BY <1>1, <1>3, IsASeq

\* What is cut off in front, and what is left.
LEMMA Cut ==
    ASSUME NEW S, NEW s \in Seq(S), NEW n \in 0..Len(s)
    PROVE  /\ SubSeq(s, 1, n) \in Seq(S) /\ SubSeq(s, n + 1, Len(s)) \in Seq(S)
           /\ Len(SubSeq(s, 1, n)) = n
           /\ \A k \in 1..n : SubSeq(s, 1, n)[k] = s[k]
BY SubSeqProperties, LenProperties

LEMMA LineOwn ==
    ASSUME Typed, RecorderAssumption, NEW r \in Recorders, tried[r] < MaxLines[r], NEW end \in BOOLEAN
    PROVE  /\ NextLine(r, end) \in Line
           /\ Chunks(NextLine(r, end)) \in Seq(Own(r))
           /\ Len(Chunks(NextLine(r, end))) = 3
<1> DEFINE l == NextLine(r, end)
<1>1. l \in Line /\ l.by = r  BY DEF NextLine, Line, Typed, RecorderAssumption
<1>2. Chunk(l, 1) \in Own(r) /\ Chunk(l, 2) \in Own(r) /\ Chunk(l, 3) \in Own(r)
  BY <1>1 DEF Own, Chunk
<1>3. \A x : Chunk(x, 1) \in Own(r) /\ Chunk(x, 2) \in Own(r) /\ Chunk(x, 3) \in Own(r)
                => Chunks(x) \in Seq(Own(r)) /\ Len(Chunks(x)) = 3
  BY DEF Chunks
<1> QED  BY <1>1, <1>2, <1>3

\* After the file, the chunks of one recorder: where its line may go on, no
\* line is broken that was not.
LEMMA GoesOn ==
    ASSUME NEW r \in Recorders, file \in Seq(AnyChunk), NEW d \in Seq(Own(r)),
           MayGoOn(r), file' = file \o d
    PROVE  /\ file' \in Seq(AnyChunk)
           /\ MayGoOn(r)'
           /\ OfSession(r) => OfSession(r)'
           /\ (\A k \in DOMAIN file :
                file[k].part = 1 /\ k < Len(file) /\ file[k + 1] # Chunk(file[k].line, 2)
                   => file[k + 1].line.by = file[k].line.by)
              => (\A k \in DOMAIN file' :
                file'[k].part = 1 /\ k < Len(file') /\ file'[k + 1] # Chunk(file'[k].line, 2)
                   => file'[k + 1].line.by = file'[k].line.by)
<1>1. d \in Seq(AnyChunk)  BY OwnIsChunk, Widen
<1>2. /\ file' \in Seq(AnyChunk) /\ Len(file') = Len(file) + Len(d)
      /\ \A k \in 1..Len(file) : file'[k] = file[k]
      /\ \A k \in (Len(file) + 1)..Len(file') : file'[k] = d[k - Len(file)]
  BY <1>1, ConcatProperties, LenProperties
<1>3. /\ Len(file) \in Nat /\ Len(d) \in Nat
      /\ DOMAIN file = 1..Len(file) /\ DOMAIN file' = 1..Len(file')
  BY <1>2, LenProperties
<1>4. \A k \in 1..Len(d) : d[k].line.by = r  BY ElementOfSeq DEF Own
<1>5. \A k \in (Len(file) + 1)..Len(file') : file'[k].line.by = r  BY <1>2, <1>3, <1>4
<1>6. MayGoOn(r)'
  <2>1. CASE Len(d) = 0  BY <2>1, <1>2, <1>3, EmptySeq DEF MayGoOn
  <2>2. CASE Len(d) > 0  BY <2>2, <1>2, <1>3, <1>5 DEF MayGoOn
  <2> QED  BY <2>1, <2>2, <1>3
<1>7. OfSession(r) => OfSession(r)'  BY <1>2, <1>3, <1>5 DEF OfSession
<1>8. ASSUME \A k \in DOMAIN file :
                file[k].part = 1 /\ k < Len(file) /\ file[k + 1] # Chunk(file[k].line, 2)
                   => file[k + 1].line.by = file[k].line.by,
             NEW k \in DOMAIN file', file'[k].part = 1, k < Len(file'),
             file'[k + 1] # Chunk(file'[k].line, 2)
      PROVE  file'[k + 1].line.by = file'[k].line.by
  <2>0. k \in Nat  BY <1>3
  <2>1. CASE k < Len(file)  BY <2>1, <1>2, <1>3, <1>8
  <2>2. CASE k = Len(file)
    <3>1. file # <<>> /\ file[Len(file)].part = 1  BY <2>2, <1>2, <1>3, <1>8
    <3>2. file[Len(file)].line.by = r  BY <3>1 DEF MayGoOn
    <3>3. file'[k + 1].line.by = r  BY <2>2, <1>3, <1>5, <1>8
    <3> QED  BY <2>2, <3>2, <3>3, <1>2, <1>3
  <2>3. CASE k > Len(file)  BY <2>3, <1>3, <1>5, <1>8
  <2>4. k < Len(file) \/ k = Len(file) \/ k > Len(file)  BY <2>0, <1>3
  <2> QED  BY <2>1, <2>2, <2>3, <2>4
<1> QED  BY <1>2, <1>6, <1>7, <1>8

\* What the steps of an open recorder have in common: chunks of its own come
\* after the file, and its handle keeps chunks of its own.
Extends(r, d) ==
    /\ file' = file \o d
    /\ \E b \in Seq(Own(r)) :
          /\ buffer' = [buffer EXCEPT ![r] = b]
          /\ \/ state[r] = "open" /\ state' = state
             \/ state' = [state EXCEPT ![r] = "gone"] /\ b = <<>>
    /\ met' = met

LEMMA OpenExtends ==
    ASSUME IInv, RecorderAssumption, NEW r \in Recorders,
           Write(r) \/ End(r) \/ Close(r) \/ Exit(r) \/ Crash(r)
    PROVE  Past(r) /\ \E d \in Seq(Own(r)) : Extends(r, d)
<1> USE DEF IInv, Typed
<1>0. Past(r) /\ buffer[r] \in Seq(Own(r)) /\ <<>> \in Seq(Own(r))
  BY EmptySeq DEF Write, End, Close, Exit, Crash, Attempt, Past
<1>1. ASSUME NEW end \in BOOLEAN, tried[r] < MaxLines[r]
      PROVE  buffer[r] \o Chunks(NextLine(r, end)) \in Seq(Own(r))
  BY <1>0, <1>1, LineOwn, ConcatProperties
<1>2. CASE Write(r)
  <2> DEFINE data == buffer[r] \o Chunks(NextLine(r, FALSE))
  <2>1. data \in Seq(Own(r)) /\ met' = met /\ state' = state /\ state[r] = "open"
    BY <1>1, <1>2 DEF Write, Attempt
  <2> HIDE DEF data
  <2>2. \/ \E n \in 0..Len(data) : Flush(r, data, n)
        \/ \E n \in 0..(Len(data) - 2) :
              /\ file' = file \o SubSeq(data, 1, n)
              /\ buffer' = [buffer EXCEPT ![r] = SubSeq(@, n + 1, Len(@))]
    BY <1>2 DEF Write, data
  <2>3. ASSUME NEW n \in 0..Len(data), Flush(r, data, n)
        PROVE  \E d \in Seq(Own(r)) : Extends(r, d)
    BY <2>1, <2>3, Cut DEF Flush, Extends
  <2>4. ASSUME NEW n \in 0..(Len(data) - 2), file' = file \o SubSeq(data, 1, n),
               buffer' = [buffer EXCEPT ![r] = SubSeq(@, n + 1, Len(@))]
        PROVE  \E d \in Seq(Own(r)) : Extends(r, d)
    <3>1. SubSeq(data, 1, n) \in Seq(Own(r))  BY <2>1, <2>4, Cut, LenProperties
    <3>2. SubSeq(buffer[r], n + 1, Len(buffer[r])) \in Seq(Own(r))
      <4>1. n + 1 \in Int /\ Len(buffer[r]) \in Int
            /\ \A k \in (n + 1)..Len(buffer[r]) : buffer[r][k] \in Own(r)
        BY <1>0, <2>1, <2>4, LenProperties, ElementOfSeq
      <4> QED  BY <4>1, SubSeqProperties
    <3> QED  BY <2>1, <2>4, <3>1, <3>2 DEF Extends
  <2> QED  BY <2>2, <2>3, <2>4, <1>0
<1>3. CASE End(r)
  <2> DEFINE data == buffer[r] \o Chunks(NextLine(r, TRUE))
  <2>1. data \in Seq(Own(r)) /\ met' = met /\ state' = state /\ state[r] = "open"
    BY <1>1, <1>3 DEF End, Attempt
  <2> HIDE DEF data
  <2>2. PICK n \in 0..Len(data) : Flush(r, data, n)  BY <1>3 DEF End, data
  <2> QED  BY <1>0, <2>1, <2>2, Cut DEF Flush, Extends
<1>4. ASSUME NEW data \in Seq(Own(r)), NEW n \in 0..Len(data), NEW raised,
             Shut(r, data, n, raised), met' = met
      PROVE  \E d \in Seq(Own(r)) : Extends(r, d)
  BY <1>0, <1>4, Cut DEF Shut, Extends
<1>5. CASE Close(r)  BY <1>0, <1>4, <1>5 DEF Close
<1>6. CASE Exit(r)
  <2>1. CASE Close(r)  BY <2>1, <1>5
  <2>2. CASE ~Close(r)
    <3> DEFINE data == buffer[r] \o Chunks(NextLine(r, TRUE))
    <3>1. Attempt(r) /\ met' = met
          /\ \E n \in 0..Len(data), raised \in BOOLEAN : Shut(r, data, n, raised)
      BY <1>6, <2>2 DEF Exit
    <3>2. data \in Seq(Own(r))  BY <1>1, <3>1 DEF Attempt
    <3> HIDE DEF data
    <3> QED  BY <1>0, <1>4, <3>1, <3>2
  <2> QED  BY <2>1, <2>2
<1>7. CASE Crash(r)
  <2>1. \E data \in Seq(Own(r)) : \E n \in 0..Len(data) : file' = file \o SubSeq(data, 1, n)
    <3>1. PICK end \in BOOLEAN :
            LET writing == state[r] = "open" /\ ~ended[r] /\ tried[r] < MaxLines[r]
                data == buffer[r] \o (IF writing THEN Chunks(NextLine(r, end)) ELSE <<>>)
            IN  \E n \in 0..Len(data) : file' = file \o SubSeq(data, 1, n)
      BY <1>7 DEF Crash
    <3>2. CASE state[r] = "open" /\ ~ended[r] /\ tried[r] < MaxLines[r]
      BY <3>1, <3>2, <1>1
    <3>3. CASE ~(state[r] = "open" /\ ~ended[r] /\ tried[r] < MaxLines[r])
      BY <3>1, <3>3, <1>0, ConcatProperties
    <3> QED  BY <3>2, <3>3
  <2>2. PICK d \in Seq(Own(r)) : file' = file \o d  BY <2>1, Cut
  <2> QED  BY <1>0, <1>7, <2>2 DEF Crash, Extends
<1> QED  BY <1>2, <1>3, <1>5, <1>6, <1>7
-----------------------------------------------------------------------------
(* The steps that every open recorder may take *)

LEMMA ExtendsKeeps ==
    ASSUME IInv, RecorderAssumption, NEW r \in Recorders, Past(r),
           NEW d \in Seq(Own(r)), Extends(r, d)
    PROVE  Exclusive' /\ Admitted' /\ TearIsFinal' /\ Agreed'
<1>1. \A q \in Recorders : Past(q)' => Past(q)  BY DEF Extends, IInv, Typed, Past
<1>2. met' = met /\ file' = file \o d /\ file \in Seq(AnyChunk)  BY DEF Extends, IInv, Typed
<1>3. Exclusive'  BY <1>1, <1>2 DEF IInv, Exclusive
<1>4. CASE met  BY <1>2, <1>3, <1>4 DEF Admitted, TearIsFinal, Agreed
<1>5. CASE ~met
  <2>1. MayGoOn(r) /\ OfSession(r)  BY <1>5 DEF IInv, Admitted
  <2>2. MayGoOn(r)' /\ OfSession(r)' /\ TearIsFinal'
    BY <1>2, <1>5, <2>1, GoesOn DEF IInv, TearIsFinal
  <2>3. \A q \in Recorders : Past(q)' => q = r  BY <1>1, <1>5 DEF IInv, Exclusive
  <2>4. Admitted'  BY <2>2, <2>3 DEF Admitted
  <2>5. Agreed'  BY <2>2 DEF Agreed, OfSession
  <2> QED  BY <1>3, <2>2, <2>4, <2>5
<1> QED  BY <1>4, <1>5

LEMMA ReturnTyped ==
    ASSUME Typed, NEW line \in Line
    PROVE  Append(returned, line) \in Seq(Line)
BY AppendProperties DEF Typed

LEMMA CountTyped == ASSUME Typed, RecorderAssumption, NEW raised, Count(raised) PROVE faults' \in 0..MaxFaults
BY DEF Typed, Count, RecorderAssumption

LEMMA ExtendsTyped ==
    ASSUME IInv, RecorderAssumption, NEW r \in Recorders, Past(r),
           NEW d \in Seq(Own(r)), Extends(r, d),
           ended' \in [Recorders -> BOOLEAN], returned' \in Seq(Line),
           tried' \in [Recorders -> Nat], \A q \in Recorders : tried'[q] <= MaxLines[q],
           faults' \in 0..MaxFaults
    PROVE  Typed'
<1> USE DEF IInv, Typed
<1>1. PICK b \in Seq(Own(r)) :
        /\ buffer' = [buffer EXCEPT ![r] = b]
        /\ \/ state[r] = "open" /\ state' = state
           \/ state' = [state EXCEPT ![r] = "gone"] /\ b = <<>>
  BY DEF Extends
<1>2. file' \in Seq(AnyChunk)
  <2>1. d \in Seq(AnyChunk)  BY OwnIsChunk, Widen
  <2> QED  BY <2>1, ConcatProperties DEF Extends
<1>3. b \in Seq(AnyChunk)  BY OwnIsChunk, Widen
<1>4. state' \in [Recorders -> {"idle", "checked", "open", "gone"}] /\ met' \in BOOLEAN
  BY <1>1 DEF Extends
<1>5. buffer' \in [Recorders -> Seq(AnyChunk)]  BY <1>1, <1>3
<1>6. \A q \in Recorders : buffer'[q] \in Seq(Own(q)) /\ (state'[q] # "open" => buffer'[q] = <<>>)
  BY <1>1, Past(r) DEF Past
<1> QED  BY <1>2, <1>4, <1>5, <1>6
-----------------------------------------------------------------------------
(* The steps one by one *)

LEMMA InitHolds == RecorderAssumption /\ Init => IInv
<1> SUFFICES ASSUME RecorderAssumption, Init PROVE IInv  OBVIOUS
<1>0. \A S : <<>> \in Seq(S)  BY EmptySeq
<1>1. Typed
  <2>1. \A r \in Recorders : buffer[r] \in Seq(Own(r)) /\ buffer[r] = <<>> /\ tried[r] <= MaxLines[r]
    BY <1>0 DEF Init, RecorderAssumption
  <2>2. /\ state \in [Recorders -> {"idle", "checked", "open", "gone"}]
        /\ ended \in [Recorders -> BOOLEAN] /\ tried \in [Recorders -> Nat]
    BY DEF Init
  <2>4. met \in BOOLEAN  BY DEF Init
  <2>5. faults \in 0..MaxFaults
    <3>1. MaxFaults \in Nat  BY DEF RecorderAssumption
    <3>2. faults = 0  BY DEF Init
    <3> QED  BY <3>1, <3>2
  <2>3. file \in Seq(AnyChunk) /\ returned \in Seq(Line) /\ buffer \in [Recorders -> Seq(AnyChunk)]
    BY <1>0 DEF Init
  <2> QED  BY <2>1, <2>2, <2>3, <2>4, <2>5 DEF Typed
<1>2. file = <<>> /\ \A r \in Recorders : state[r] = "idle" /\ buffer[r] = <<>>  BY DEF Init
<1>3. DOMAIN file = {}  BY <1>2
<1> QED
  BY <1>1, <1>2, <1>3 DEF IInv, Exclusive, Admitted, TearIsFinal, Agreed, Closed, EndIsLast, Past, Over

\* Whoever is admitted finds whole lines of its own session and no end.
LEMMA AppendableMeans ==
    ASSUME Typed, NEW r \in Recorders, file = <<>> \/ Appendable(r)
    PROVE  MayGoOn(r) /\ OfSession(r) /\ ~Over
<1>1. CASE file = <<>>
  <2>1. DOMAIN file = {}  BY <1>1
  <2> QED  BY <1>1, <2>1 DEF MayGoOn, OfSession, Over
<1>2. CASE Appendable(r) /\ file # <<>>
  <2>1. DOMAIN file = 1..Len(file) /\ Len(file) \in Nat \ {0}
    BY <1>2, LenProperties, EmptySeq DEF Typed
  <2>2. \A k \in DOMAIN file : file[k].part = 1 => file[k].line \in Events
    <3>1. \A k \in DOMAIN file : file[k] \in ToSet(file)  BY DEF ToSet
    <3> QED  BY <3>1 DEF Events, IsHead
  <2>3. \A k \in DOMAIN file :
          file[k].part = 1 => SessionOf[file[k].line.by] = SessionOf[r] /\ ~file[k].line.end
    BY <1>2, <2>2 DEF Appendable
  <2>4. MayGoOn(r)  BY <1>2, <2>1 DEF Appendable, Readable, Parses, MayGoOn, Last
  <2>5. OfSession(r)  BY <2>3 DEF OfSession
  <2>6. ASSUME NEW k \in DOMAIN file, file[k].line.end, file[k].part = 2
        PROVE  FALSE
    <3>1. k > 1 /\ file[k - 1] = Chunk(file[k].line, 1)
      BY <1>2, <2>6 DEF Appendable, Readable, Parses
    <3>2. k - 1 \in DOMAIN file /\ file[k - 1].part = 1 /\ file[k - 1].line = file[k].line
      BY <2>1, <3>1 DEF Chunk
    <3> QED  BY <2>3, <2>6, <3>2
  <2> QED  BY <2>4, <2>5, <2>6 DEF Over
<1> QED  BY <1>1, <1>2

LEMMA CheckKeeps ==
    ASSUME IInv, RecorderAssumption, NEW r \in Recorders, Check(r) PROVE IInv'
<1> USE DEF IInv
<1>1. /\ file' = file /\ returned' = returned /\ buffer' = buffer /\ ended' = ended
      /\ tried' = tried /\ faults' = faults /\ state[r] = "idle"
      /\ state' = [state EXCEPT ![r] = IF file = <<>> \/ Appendable(r) THEN "checked" ELSE "gone"]
      /\ met' = (met \/ (state'[r] = "checked" /\ ~Alone(r)))
  BY DEF Check
<1>2. Typed'  BY <1>1 DEF Typed
<1>3. TearIsFinal' /\ Agreed'  BY <1>1, <1>2 DEF TearIsFinal, Agreed, Typed
<1>4. ASSUME NEW q \in Recorders, Past(q)'
      PROVE  Past(q) \/ (q = r /\ (file = <<>> \/ Appendable(r)) /\ state'[r] = "checked")
  BY <1>1, <1>4 DEF Past, Typed
<1>5. Exclusive'
  <2>1. SUFFICES ASSUME ~met', NEW p \in Recorders, NEW q \in Recorders, Past(p)', Past(q)'
                 PROVE  p = q
    BY DEF Exclusive
  <2>2. ~met  BY <1>1, <2>1
  <2>3. state'[r] = "checked" => \A s \in Recorders \ {r} : ~Past(s)
    BY <1>1, <2>1 DEF Alone, Past
  <2> QED  BY <1>4, <2>1, <2>2, <2>3 DEF Exclusive
<1>6. Admitted'
  <2>1. SUFFICES ASSUME ~met', NEW q \in Recorders, Past(q)' PROVE MayGoOn(q)' /\ OfSession(q)'
    BY DEF Admitted
  <2>2. ~met  BY <1>1, <2>1
  <2>3. MayGoOn(q) /\ OfSession(q)  BY <1>4, <2>1, <2>2, AppendableMeans DEF Admitted
  <2> QED  BY <1>1, <2>3 DEF MayGoOn, OfSession
<1>7. Closed'
  <2>1. SUFFICES ASSUME faults = 0, ~met'
                 PROVE  EndIsLast' /\ \A q \in Recorders :
                            buffer'[q] = <<>> /\ (Past(q)' /\ ~ended'[q] => ~Over')
    BY <1>1 DEF Closed
  <2>2. ~met  BY <1>1, <2>1
  <2>3. ASSUME NEW q \in Recorders, Past(q)', ~ended'[q] PROVE ~Over
    BY <1>1, <1>4, <2>1, <2>2, <2>3, AppendableMeans DEF Closed
  <2> QED  BY <1>1, <2>1, <2>2, <2>3 DEF Closed, EndIsLast, Over
<1> QED  BY <1>2, <1>3, <1>5, <1>6, <1>7

LEMMA OpenToAppendKeeps ==
    ASSUME IInv, NEW r \in Recorders, OpenToAppend(r) PROVE IInv'
<1> USE DEF IInv
<1>1. /\ file' = file /\ returned' = returned /\ buffer' = buffer /\ ended' = ended
      /\ tried' = tried /\ faults' = faults /\ met' = met /\ state[r] = "checked"
      /\ state' = [state EXCEPT ![r] = "open"]
  BY DEF OpenToAppend
<1>2. Typed'  BY <1>1 DEF Typed
<1>3. \A q \in Recorders : Past(q)' <=> Past(q)  BY <1>1 DEF Past, Typed
<1> QED
  BY <1>1, <1>2, <1>3 DEF Exclusive, Admitted, TearIsFinal, Agreed, Closed,
     MayGoOn, OfSession, EndIsLast, Over

LEMMA OpenAfreshKeeps ==
    ASSUME IInv, NEW r \in Recorders, OpenAfresh(r) PROVE IInv'
<1> USE DEF IInv
<1>1. /\ file' = <<>> /\ returned' = <<>> /\ buffer' = buffer /\ ended' = ended
      /\ tried' = tried /\ faults' = faults /\ met' = FALSE /\ state[r] = "idle"
      /\ state' = [state EXCEPT ![r] = "open"] /\ Alone(r)
  BY DEF OpenAfresh
<1>2. Typed'  BY <1>1, EmptySeq DEF Typed
<1>3. \A q \in Recorders : Past(q)' => q = r  BY <1>1 DEF Past, Alone, Typed
<1>4. \A q \in Recorders : buffer'[q] = <<>>  BY <1>1 DEF Alone, Typed
<1>5. DOMAIN file' = {}  BY <1>1
<1> QED
  BY <1>1, <1>2, <1>3, <1>4, <1>5 DEF Exclusive, Admitted, TearIsFinal, Agreed, Closed,
     MayGoOn, OfSession, EndIsLast, Over

\* The chunks of one whole line, or a part of it, after a file without an end.
LEMMA LineAfter ==
    ASSUME Typed, RecorderAssumption, NEW r \in Recorders, tried[r] < MaxLines[r],
           NEW end \in BOOLEAN, NEW n \in 0..3, ~Over,
           file' = file \o SubSeq(Chunks(NextLine(r, end)), 1, n)
    PROVE  EndIsLast' /\ (~end => ~Over')
<1> DEFINE d == SubSeq(Chunks(NextLine(r, end)), 1, n)
<1>1. /\ d \in Seq(AnyChunk) /\ Len(d) = n
      /\ \A k \in 1..n : d[k] = Chunk(NextLine(r, end), k)
  <2>1. Chunks(NextLine(r, end)) \in Seq(AnyChunk) /\ Len(Chunks(NextLine(r, end))) = 3
    BY LineOwn, OwnIsChunk, Widen
  <2>2. \A k \in 1..3 : Chunks(NextLine(r, end))[k] = Chunk(NextLine(r, end), k)
    BY DEF Chunks
  <2> DEFINE s == Chunks(NextLine(r, end))
  <2>3. n \in 0..Len(s) /\ s \in Seq(AnyChunk)  BY <2>1
  <2>4. SubSeq(s, 1, n) \in Seq(AnyChunk) /\ Len(SubSeq(s, 1, n)) = n
        /\ \A k \in 1..n : SubSeq(s, 1, n)[k] = s[k]
    <3> HIDE DEF s
    <3> QED  BY <2>3, Cut
  <2> QED  BY <2>2, <2>4
<1>9. file' = file \o d  OBVIOUS
<1> HIDE DEF d
<1>2. /\ Len(file) \in Nat /\ DOMAIN file = 1..Len(file) /\ DOMAIN file' = 1..(Len(file) + n)
      /\ \A k \in 1..Len(file) : file'[k] = file[k]
      /\ \A k \in (Len(file) + 1)..(Len(file) + n) : file'[k] = d[k - Len(file)]
  BY <1>1, <1>9, ConcatProperties, LenProperties DEF Typed
<1>3. \A k \in (Len(file) + 1)..(Len(file) + n) :
        file'[k].part = k - Len(file) /\ file'[k].line.end = end
  BY <1>1, <1>2 DEF Chunk, NextLine
<1>4. ASSUME NEW j \in DOMAIN file', file'[j].line.end, file'[j].part = 2
      PROVE  j = Len(file) + 2 /\ end
  BY <1>2, <1>3, <1>4 DEF Over
<1>5. EndIsLast'
  <2>1. SUFFICES ASSUME NEW j \in DOMAIN file', NEW k \in DOMAIN file',
                        file'[j].line.end /\ file'[j].part = 2 /\ file'[k].part = 1
                 PROVE  k < j
    BY DEF EndIsLast
  <2>2. j = Len(file) + 2  BY <1>4, <2>1
  <2>3. k <= Len(file) \/ k = Len(file) + 1  BY <1>2, <1>3, <2>1
  <2> QED  BY <1>2, <2>2, <2>3
<1> QED  BY <1>4, <1>5 DEF Over

LEMMA NothingAfter ==
    ASSUME Typed, file' = file \/ file' = file \o <<>>
    PROVE  file' = file
BY ConcatEmptySeq DEF Typed

\* A whole line leaves the handle empty.
LEMMA WholeLine ==
    ASSUME Typed, RecorderAssumption, NEW r \in Recorders, tried[r] < MaxLines[r],
           NEW end \in BOOLEAN, buffer[r] = <<>>
    PROVE  LET data == buffer[r] \o Chunks(NextLine(r, end))
           IN  /\ data = Chunks(NextLine(r, end)) /\ Len(data) = 3
               /\ SubSeq(data, 4, 3) = <<>>
BY LineOwn, ConcatEmptySeq, SubSeqEmpty

LEMMA NoFault ==
    ASSUME Typed, RecorderAssumption, NEW raised, Count(raised), faults' = 0
    PROVE  faults = 0 /\ ~raised
BY DEF Typed, Count, RecorderAssumption

\* What the next state needs for Closed', when nothing fails.
LEMMA CloseKeeps ==
    ASSUME IInv, RecorderAssumption, NEW r \in Recorders,
           Write(r) \/ End(r) \/ Close(r) \/ Exit(r) \/ Crash(r)
    PROVE  Closed'
<1> USE DEF IInv
<1>0. PICK d \in Seq(Own(r)) : Past(r) /\ Extends(r, d)  BY OpenExtends
<1>1. SUFFICES ASSUME faults' = 0, ~met'
               PROVE  EndIsLast' /\ \A q \in Recorders :
                          buffer'[q] = <<>> /\ (Past(q)' /\ ~ended'[q] => ~Over')
  BY DEF Closed
<1>2. faults = 0 /\ ~met
  <2>1. CASE Write(r)  BY <2>1, <1>1, NoFault DEF Write
  <2>2. CASE End(r)  BY <2>2, <1>1, NoFault DEF End
  <2>3. CASE Close(r)  BY <2>3, <1>1, NoFault DEF Close, Shut
  <2>4. CASE Exit(r) /\ ~Close(r)
    <3>1. PICK raised \in BOOLEAN : Count(raised) /\ met' = met  BY <2>4 DEF Exit, Shut
    <3> QED  BY <1>1, <3>1, NoFault
  <2>5. CASE Crash(r)  BY <2>5, <1>1 DEF Crash
  <2>6. met' = met  BY <1>0 DEF Extends
  <2> QED  BY <1>1, <2>1, <2>2, <2>3, <2>4, <2>5, <2>6
<1>3. EndIsLast /\ (\A q \in Recorders : buffer[q] = <<>>) /\ (~ended[r] => ~Over)
  BY <1>0, <1>2 DEF Closed
<1>4. \A q \in Recorders : Past(q) => q = r  BY <1>0, <1>2 DEF Exclusive
<1>5. \A q \in Recorders : Past(q)' => q = r
  BY <1>0, <1>4 DEF Extends, Past, Typed
<1>6. SUFFICES EndIsLast' /\ buffer'[r] = <<>> /\ (Past(r)' /\ ~ended'[r] => ~Over')
  BY <1>0, <1>3, <1>5 DEF Extends, Typed
<1>7. CASE Write(r)
  <2> DEFINE data == buffer[r] \o Chunks(NextLine(r, FALSE))
  <2>1. tried[r] < MaxLines[r] /\ ~ended[r] /\ ended' = ended  BY <1>7 DEF Write, Attempt
  <2>2. data = Chunks(NextLine(r, FALSE)) /\ Len(data) = 3 /\ SubSeq(data, 4, 3) = <<>>
    BY <1>3, <2>1, WholeLine
  <2> HIDE DEF data
  <2>3. PICK n \in 0..Len(data) : Count(n < Len(data)) /\ Flush(r, data, n)
    BY <1>1, <1>7, NoFault DEF Write, data
  <2>4. n = 3
    <3>1. ~(n < Len(data))  BY <1>1, <2>3, NoFault
    <3>2. n \in 0..3 /\ Len(data) = 3  BY <2>2
    <3> QED  BY <3>1, <3>2
  <2>5. file' = file \o SubSeq(Chunks(NextLine(r, FALSE)), 1, 3) /\ buffer'[r] = <<>>
    BY <2>2, <2>3, <2>4 DEF Flush, Typed
  <2>6. EndIsLast' /\ ~Over'
    <3>1. 3 \in 0..3 /\ FALSE \in BOOLEAN  OBVIOUS
    <3> QED  BY <1>3, <2>1, <2>5, <3>1, LineAfter
  <2> QED  BY <2>5, <2>6
<1>8. CASE End(r)
  <2> DEFINE data == buffer[r] \o Chunks(NextLine(r, TRUE))
  <2>1. tried[r] < MaxLines[r] /\ ~ended[r]  BY <1>8 DEF End, Attempt
  <2>2. data = Chunks(NextLine(r, TRUE)) /\ Len(data) = 3 /\ SubSeq(data, 4, 3) = <<>>
    BY <1>3, <2>1, WholeLine
  <2> HIDE DEF data
  <2>3. PICK n \in 0..Len(data) : /\ Count(n < Len(data)) /\ Flush(r, data, n)
                                  /\ ended' = [ended EXCEPT ![r] = n = Len(data)]
    BY <1>8 DEF End, data
  <2>4. n = 3 /\ n = Len(data)
    <3>1. ~(n < Len(data))  BY <1>1, <2>3, NoFault
    <3>2. n \in 0..3 /\ Len(data) = 3  BY <2>2
    <3> QED  BY <3>1, <3>2
  <2>5. /\ file' = file \o SubSeq(Chunks(NextLine(r, TRUE)), 1, 3)
        /\ buffer'[r] = <<>> /\ ended'[r]
    <3>1. ended'[r] = (n = Len(data))  BY <2>3 DEF Typed
    <3>2. file' = file \o SubSeq(data, 1, 3) /\ buffer'[r] = SubSeq(data, 4, 3)
      BY <2>2, <2>3, <2>4 DEF Flush, Typed
    <3> QED  BY <2>2, <2>4, <3>1, <3>2
  <2>6. EndIsLast'
    <3>1. 3 \in 0..3 /\ TRUE \in BOOLEAN  OBVIOUS
    <3> QED  BY <1>3, <2>1, <2>5, <3>1, LineAfter
  <2> QED  BY <2>5, <2>6
<1>9. CASE Close(r)
  <2>1. PICK n \in 0..Len(buffer[r]) : Shut(r, buffer[r], n, n < Len(buffer[r]))  BY <1>9 DEF Close
  <2>2. Len(buffer[r]) = 0 /\ n = 0  BY <1>3, <2>1
  <2>3. SubSeq(buffer[r], 1, n) = <<>>  BY <2>2, SubSeqEmpty
  <2>4. file' = file /\ buffer'[r] = <<>> /\ state'[r] = "gone"
    BY <2>1, <2>3, ConcatEmptySeq DEF Shut, Typed
  <2> QED  BY <1>3, <2>4 DEF EndIsLast, Past
<1>10. CASE Exit(r) /\ ~Close(r)
  <2> DEFINE data == buffer[r] \o Chunks(NextLine(r, TRUE))
  <2>1. tried[r] < MaxLines[r] /\ ~ended[r]  BY <1>10 DEF Exit, Attempt
  <2>2. data = Chunks(NextLine(r, TRUE)) /\ Len(data) = 3
    BY <1>3, <2>1, WholeLine
  <2>3. PICK n \in 0..Len(data), raised \in BOOLEAN : Shut(r, data, n, raised)
    BY <1>10 DEF Exit
  <2>4. n \in 0..3 /\ file' = file \o SubSeq(Chunks(NextLine(r, TRUE)), 1, n)
        /\ buffer'[r] = <<>> /\ state'[r] = "gone"
    BY <2>2, <2>3 DEF Shut, Typed
  <2> QED  BY <1>3, <2>1, <2>4, LineAfter DEF Past
<1>11. CASE Crash(r)
  <2>1. buffer'[r] = <<>> /\ state'[r] = "gone"  BY <1>11 DEF Crash, Typed
  <2>2. PICK end \in BOOLEAN :
          LET writing == state[r] = "open" /\ ~ended[r] /\ tried[r] < MaxLines[r]
              data == buffer[r] \o (IF writing THEN Chunks(NextLine(r, end)) ELSE <<>>)
          IN  \E n \in 0..Len(data) : file' = file \o SubSeq(data, 1, n)
    BY <1>11 DEF Crash
  <2>3. CASE state[r] = "open" /\ ~ended[r] /\ tried[r] < MaxLines[r]
    <3>1. PICK n \in 0..3 : file' = file \o SubSeq(Chunks(NextLine(r, end)), 1, n)
      BY <1>3, <2>2, <2>3, WholeLine
    <3> QED  BY <1>3, <2>1, <2>3, <3>1, LineAfter DEF Past
  <2>4. CASE ~(state[r] = "open" /\ ~ended[r] /\ tried[r] < MaxLines[r])
    <3>1. buffer[r] \o <<>> = <<>>  BY <1>3
    <3>2. SubSeq(<<>>, 1, 0) = <<>>  BY SubSeqEmpty
    <3>3. file' = file  BY <2>2, <2>4, <3>1, <3>2, ConcatEmptySeq DEF Typed
    <3> QED  BY <1>3, <2>1, <3>3 DEF EndIsLast, Past
  <2> QED  BY <2>3, <2>4
<1> QED  BY <1>7, <1>8, <1>9, <1>10, <1>11

\* The types of what a step of an open recorder does beside the file.
LEMMA StepTyped ==
    ASSUME IInv, RecorderAssumption, NEW r \in Recorders,
           Write(r) \/ End(r) \/ Close(r) \/ Exit(r) \/ Crash(r)
    PROVE  Typed'
<1> USE DEF IInv
<1>0. PICK d \in Seq(Own(r)) : Past(r) /\ Extends(r, d)  BY OpenExtends
<1>1. ASSUME Attempt(r)
      PROVE  /\ tried' \in [Recorders -> Nat] /\ \A q \in Recorders : tried'[q] <= MaxLines[q]
             /\ \A end \in BOOLEAN : Append(returned, NextLine(r, end)) \in Seq(Line)
  <2>1. tried[r] < MaxLines[r] /\ tried' = [tried EXCEPT ![r] = @ + 1]  BY <1>1 DEF Attempt
  <2>2. \A end \in BOOLEAN : NextLine(r, end) \in Line  BY <2>1, LineOwn
  <2>3. MaxLines \in [Recorders -> Nat]  BY DEF RecorderAssumption
  <2> QED  BY <2>1, <2>2, <2>3, ReturnTyped DEF Typed
<1>2. ASSUME ~Attempt(r), tried' = tried
      PROVE  tried' \in [Recorders -> Nat] /\ \A q \in Recorders : tried'[q] <= MaxLines[q]
  BY <1>2 DEF Typed
<1>3. CASE Write(r)
  <2>1. Attempt(r) /\ ended' = ended  BY <1>3 DEF Write
  <2>2. returned' = returned \/ returned' = Append(returned, NextLine(r, FALSE))  BY <1>3 DEF Write
  <2>3. returned' \in Seq(Line) /\ ended' \in [Recorders -> BOOLEAN]
    BY <1>1, <2>1, <2>2 DEF Typed
  <2>4. faults' \in 0..MaxFaults  BY <1>3, CountTyped DEF Write
  <2> QED  BY <1>0, <1>1, <2>1, <2>3, <2>4, ExtendsTyped
<1>4. CASE End(r)
  <2>1. Attempt(r) /\ ended' \in [Recorders -> BOOLEAN]
    <3>1. \E b : ended' = [ended EXCEPT ![r] = b] /\ b \in BOOLEAN  BY <1>4 DEF End
    <3> QED  BY <1>4, <3>1 DEF End, Typed
  <2>2. returned' = returned \/ returned' = Append(returned, NextLine(r, TRUE))  BY <1>4 DEF End
  <2>3. returned' \in Seq(Line)  BY <1>1, <2>1, <2>2 DEF Typed
  <2>4. faults' \in 0..MaxFaults  BY <1>4, CountTyped DEF End
  <2> QED  BY <1>0, <1>1, <2>1, <2>3, <2>4, ExtendsTyped
<1>5. CASE Close(r)
  <2>1. ended' = ended /\ tried' = tried /\ returned' = returned  BY <1>5 DEF Close
  <2>2. faults' \in 0..MaxFaults  BY <1>5, CountTyped DEF Close, Shut
  <2> QED  BY <1>0, <2>1, <2>2, ExtendsTyped DEF Typed
<1>6. CASE Exit(r) /\ ~Close(r)
  <2>1. Attempt(r)  BY <1>6 DEF Exit
  <2>2. PICK raised \in BOOLEAN :
          /\ Count(raised) /\ ended' = [ended EXCEPT ![r] = ~raised]
          /\ returned' = IF raised THEN returned ELSE Append(returned, NextLine(r, TRUE))
    BY <1>6 DEF Exit, Shut
  <2>3. returned' \in Seq(Line) /\ ended' \in [Recorders -> BOOLEAN]
    BY <1>1, <2>1, <2>2 DEF Typed
  <2>4. faults' \in 0..MaxFaults  BY <2>2, CountTyped
  <2> QED  BY <1>0, <1>1, <2>1, <2>3, <2>4, ExtendsTyped
<1>7. CASE Crash(r)
  <2>1. ended' = ended /\ tried' = tried /\ returned' = returned /\ faults' = faults
    BY <1>7 DEF Crash
  <2> QED  BY <1>0, <2>1, ExtendsTyped DEF Typed
<1> QED  BY <1>3, <1>4, <1>5, <1>6, <1>7

LEMMA StepKeeps == ASSUME IInv, [Next]_vars PROVE IInv'
<1> USE RecorderAssumption
<1>1. CASE Next
  <2>1. PICK r \in Recorders :
          \/ Check(r) \/ OpenToAppend(r) \/ OpenAfresh(r)
          \/ Write(r) \/ End(r) \/ Close(r) \/ Exit(r) \/ Crash(r)
    BY <1>1 DEF Next
  <2>2. CASE Check(r) \/ OpenToAppend(r) \/ OpenAfresh(r)
    BY <2>2, CheckKeeps, OpenToAppendKeeps, OpenAfreshKeeps
  <2>3. CASE Write(r) \/ End(r) \/ Close(r) \/ Exit(r) \/ Crash(r)
    <3>1. PICK d \in Seq(Own(r)) : Past(r) /\ Extends(r, d)  BY <2>3, OpenExtends
    <3>2. Exclusive' /\ Admitted' /\ TearIsFinal' /\ Agreed'  BY <3>1, ExtendsKeeps
    <3> QED  BY <2>3, <3>2, StepTyped, CloseKeeps DEF IInv
  <2> QED  BY <2>1, <2>2, <2>3
<1>2. CASE UNCHANGED vars
  BY <1>2 DEF vars, handles, IInv, Typed, Exclusive, Admitted, TearIsFinal, Agreed, Closed,
     EndIsLast, MayGoOn, OfSession, Past, Over
<1> QED  BY <1>1, <1>2

\* The properties of the runs follow.
LEMMA Implied == IInv => TypeOK /\ TearIsFinal /\ OneSession /\ EndIsLastUnlessFault
<1> SUFFICES ASSUME IInv PROVE TypeOK /\ OneSession /\ EndIsLastUnlessFault  BY DEF IInv
<1> USE DEF IInv
<1>1. TypeOK
  <2>1. \A r \in Recorders : tried[r] \in 0..MaxLines[r]
    BY RecorderAssumption DEF Typed, RecorderAssumption
  <2> QED  BY <2>1 DEF Typed, TypeOK, AnyChunk
<1>2. OneSession
  <2>1. SUFFICES ASSUME ~met, NEW d \in Events, NEW e \in Events
                 PROVE  SessionOf[d.by] = SessionOf[e.by]
    BY DEF OneSession
  <2>2. PICK j \in DOMAIN file, k \in DOMAIN file :
          file[j].part = 1 /\ d = file[j].line /\ file[k].part = 1 /\ e = file[k].line
    BY <2>1 DEF Events, IsHead, ToSet
  <2> QED  BY <2>1, <2>2 DEF Agreed
<1>3. EndIsLastUnlessFault  BY DEF Closed, EndIsLastUnlessFault
<1> QED  BY <1>1, <1>2, <1>3

THEOREM Inductive == Spec => []IInv
<1>1. Init => IInv  BY InitHolds, RecorderAssumption
<1> QED  BY <1>1, StepKeeps, PTL DEF Spec

\* Every state of the recorders has its types.
THEOREM RecorderTypes == Spec => []TypeOK
BY Inductive, Implied, PTL

\* A torn line is never continued by another recorder (Recorder.__init__
\* reads the trace before it appends).
THEOREM TearsAreFinal == Spec => []TearIsFinal
BY Inductive, Implied, PTL

\* One trace, one session: for recorders that come one after another.
THEOREM SessionsDoNotMix == Spec => []OneSession
BY Inductive, Implied, PTL

\* Without a failing flush, nothing is recorded after a complete end.
THEOREM EndsAreLast == Spec => []EndIsLastUnlessFault
BY Inductive, Implied, PTL
-----------------------------------------------------------------------------
(* What the reader makes of the file: read_jsonl's loop, chunk by chunk.    *)

\* A set that holds 0 and the successor of each number it holds has them all.
LEMMA InductionOnNat ==
  ASSUME NEW S, 0 \in S, \A n \in Nat : n \in S => n + 1 \in S
  PROVE  Nat \subseteq S
<1> SUFFICES ASSUME Nat \ S # {} PROVE FALSE
  OBVIOUS
<1>1. PICK m \in Nat \ S : \A k \in Nat \ S : <<k, m>> \notin OpToRel(<, Nat)
  BY NatLessThanWellFounded, WFMin, Zenon
<1>2. m - 1 \in Nat \ S
  OBVIOUS
<1>3. <<m - 1, m>> \in OpToRel(<, Nat)
  BY <1>2 DEF OpToRel
<1> QED  BY <1>1, <1>2, <1>3, Zenon

Reading(g, f, k) ==
    IF k = 0 THEN <<>>
    ELSE IF IsHead(f[k]) THEN Append(g[k - 1], f[k].line)
    ELSE g[k - 1]
Readings(g, f) == g = [k \in 0..Len(f) |-> Reading(g, f, k)]

LEMMA ReadingsExist ==
    ASSUME NEW f, Len(f) \in Nat
    PROVE  \E g : Readings(g, f)
<1> DEFINE A(n) == \E g : \A k \in 0..Len(f) : k <= n => g[k] = Reading(g, f, k)
           N == {n \in Nat : A(n)}
<1>1. 0 \in N
  <2> DEFINE g == [k \in 0..Len(f) |-> <<>>]
  <2>1. \A k \in 0..Len(f) : k <= 0 => g[k] = Reading(g, f, k)
    BY DEF Reading
  <2> HIDE DEF g
  <2> QED  BY <2>1
<1>2. ASSUME NEW n \in Nat, A(n) PROVE A(n + 1)
  <2>1. PICK g : \A k \in 0..Len(f) : k <= n => g[k] = Reading(g, f, k)
    BY <1>2
  <2> DEFINE h == [k \in 0..Len(f) |-> Reading(g, f, k)]
  <2>2. \A k \in 0..Len(f) : k <= n => h[k] = g[k]
    BY <2>1
  <2>3. ASSUME NEW k \in 0..Len(f), k <= n + 1
        PROVE  h[k] = Reading(h, f, k)
    <3>1. h[k] = Reading(g, f, k)
      OBVIOUS
    <3>2. k # 0 => k - 1 \in 0..Len(f) /\ k - 1 <= n
      BY <2>3
    <3>3. k # 0 => h[k - 1] = g[k - 1]
      BY <2>2, <3>2
    <3> QED  BY <3>1, <3>3 DEF Reading
  <2> HIDE DEF h
  <2> QED  BY <2>3
<1>3. Nat \subseteq N
  <2> HIDE DEF A
  <2>1. \A n \in Nat : n \in N => n + 1 \in N
    BY <1>2
  <2> HIDE DEF N
  <2> QED  BY <1>1, <2>1, InductionOnNat
<1>4. PICK g : \A k \in 0..Len(f) : k <= Len(f) => g[k] = Reading(g, f, k)
  BY <1>3
<1> DEFINE h == [k \in 0..Len(f) |-> g[k]]
<1>5. \A k \in 0..Len(f) : Reading(h, f, k) = Reading(g, f, k)
  BY DEF Reading
<1>6. h = [k \in 0..Len(f) |-> Reading(h, f, k)]
  BY <1>4, <1>5
<1> HIDE DEF h
<1> QED  BY <1>6 DEF Readings

LEMMA LinesAre ==
    ASSUME NEW f, Len(f) \in Nat
    PROVE  \E g : Readings(g, f) /\ LinesOf(f) = g[Len(f)]
<1> DEFINE c == CHOOSE g : Readings(g, f)
<1>1. Readings(c, f)
  BY ReadingsExist
<1>2. LinesOf(f) = c[Len(f)]
  BY Zenon DEF LinesOf, Readings, Reading
<1> QED  BY <1>1, <1>2

\* The chunks that the lines of s begin with, among the first k of f.
Placed(p, s, f, k) ==
    /\ p \in [1..Len(s) -> 1..k]
    /\ \A i \in 1..Len(s) : IsHead(f[p[i]]) /\ f[p[i]].line = s[i]
    /\ \A i, j \in 1..Len(s) : i < j => p[i] < p[j]
    /\ \A h \in 1..k : IsHead(f[h]) => \E i \in 1..Len(s) : p[i] = h

LEMMA ReadingsPlaced ==
    ASSUME NEW f \in Seq(AnyChunk), NEW g, Readings(g, f), NEW k \in 0..Len(f)
    PROVE  g[k] \in Seq(Line) /\ \E p : Placed(p, g[k], f, k)
<1> DEFINE A(n) == n <= Len(f) => g[n] \in Seq(Line) /\ \E p : Placed(p, g[n], f, n)
           N == {n \in Nat : A(n)}
<1>0. Len(f) \in Nat /\ \A n \in 1..Len(f) : f[n] \in AnyChunk
  BY LenProperties, ElementOfSeq
<1>9. \A n \in 0..Len(f) : g[n] = Reading(g, f, n)
  BY DEF Readings
<1>1. 0 \in N
  <2>1. g[0] = <<>>
    BY <1>0, <1>9 DEF Reading
  <2>2. Placed(<<>>, <<>>, f, 0)
    BY DEF Placed
  <2>3. <<>> \in Seq(Line)
    BY EmptySeq
  <2>4. A(0)
    BY <2>1, <2>2, <2>3
  <2> HIDE DEF A
  <2> QED  BY <2>4
<1>2. ASSUME NEW n \in Nat, A(n) PROVE A(n + 1)
  <2>1. SUFFICES ASSUME n + 1 <= Len(f)
                 PROVE  g[n + 1] \in Seq(Line) /\ \E p : Placed(p, g[n + 1], f, n + 1)
    OBVIOUS
  <2>2. g[n] \in Seq(Line)
    BY <1>0, <1>2, <2>1
  <2>3. PICK p : Placed(p, g[n], f, n)
    BY <1>0, <1>2, <2>1
  <2>4. n + 1 \in 1..Len(f) /\ n + 1 \in 0..Len(f) /\ n + 1 - 1 = n /\ n + 1 # 0
    BY <1>0, <2>1
  <2>5. g[n + 1] = IF IsHead(f[n + 1]) THEN Append(g[n], f[n + 1].line) ELSE g[n]
    BY <1>9, <2>4 DEF Reading
  <2>6. f[n + 1].line \in Line
    BY <1>0, <2>4 DEF AnyChunk
  <2> DEFINE s == g[n]
             l == f[n + 1].line
  <2>7. CASE IsHead(f[n + 1])
    <3>1. g[n + 1] = Append(s, l)
      BY <2>5, <2>7
    <3>2. /\ Append(s, l) \in Seq(Line) /\ Len(Append(s, l)) = Len(s) + 1 /\ Len(s) \in Nat
          /\ \A i \in 1..Len(s) : Append(s, l)[i] = s[i]
          /\ Append(s, l)[Len(s) + 1] = l
      BY <2>2, <2>6, AppendProperties, LenProperties
    <3> DEFINE t == Append(s, l)
               q == [i \in 1..(Len(s) + 1) |-> IF i = Len(s) + 1 THEN n + 1 ELSE p[i]]
    <3>3. Placed(p, s, f, n)
      BY <2>3
    <3> HIDE DEF s, l
    <3>4. /\ Len(t) = Len(s) + 1 /\ Len(s) \in Nat /\ t[Len(s) + 1] = l
          /\ \A i \in 1..Len(s) : t[i] = s[i]
      BY <3>2
    <3> HIDE DEF t
    <3>5. q \in [1..Len(t) -> 1..(n + 1)]
      BY <3>3, <3>4 DEF Placed
    <3>6. \A i \in 1..Len(t) : IsHead(f[q[i]]) /\ f[q[i]].line = t[i]
      <4>1. ASSUME NEW i \in 1..Len(s)
            PROVE  q[i] = p[i] /\ t[i] = s[i] /\ IsHead(f[p[i]]) /\ f[p[i]].line = s[i]
        BY <3>3, <3>4 DEF Placed
      <4>2. q[Len(s) + 1] = n + 1 /\ t[Len(s) + 1] = f[n + 1].line
        BY <3>4 DEF l
      <4>3. \A i \in 1..Len(t) : i \in 1..Len(s) \/ i = Len(s) + 1
        BY <3>4
      <4> HIDE DEF q
      <4> QED  BY <2>7, <4>1, <4>2, <4>3
    <3>7. ASSUME NEW i \in 1..Len(t), NEW j \in 1..Len(t), i < j
          PROVE  q[i] < q[j]
      <4>1. i \in 1..Len(s) /\ q[i] = p[i] /\ p[i] \in 1..n
        BY <3>3, <3>4, <3>7 DEF Placed
      <4>2. CASE j = Len(s) + 1
        <5>1. q[j] = n + 1
          BY <4>2, <3>4
        <5> HIDE DEF q
        <5> QED  BY <4>1, <5>1
      <4>3. CASE j # Len(s) + 1
        <5>1. j \in 1..Len(s) /\ q[j] = p[j]
          BY <4>3, <3>4
        <5> HIDE DEF q
        <5> QED  BY <3>3, <3>7, <4>1, <5>1 DEF Placed
      <4> QED  BY <4>2, <4>3
    <3>8. \A h \in 1..(n + 1) : IsHead(f[h]) => \E i \in 1..Len(t) : q[i] = h
      <4>1. q[Len(s) + 1] = n + 1 /\ Len(s) + 1 \in 1..Len(t)
        BY <3>4
      <4>2. ASSUME NEW h \in 1..n, IsHead(f[h]) PROVE \E i \in 1..Len(t) : q[i] = h
        <5>1. PICK i \in 1..Len(s) : p[i] = h
          BY <3>3, <4>2 DEF Placed
        <5>2. i \in 1..Len(t) /\ q[i] = h
          BY <3>4, <5>1
        <5> QED  BY <5>2
      <4> QED  BY <4>1, <4>2
    <3> HIDE DEF q
    <3>9. Placed(q, t, f, n + 1)
      BY <3>5, <3>6, <3>7, <3>8 DEF Placed
    <3> QED  BY <3>1, <3>2, <3>9 DEF t
  <2>8. CASE ~IsHead(f[n + 1])
    <3>1. g[n + 1] = s
      BY <2>5, <2>8
    <3>2. \A h \in 1..(n + 1) : IsHead(f[h]) => h \in 1..n
      BY <2>8
    <3>3. p \in [1..Len(s) -> 1..(n + 1)]
      BY <2>3 DEF Placed
    <3>4. Placed(p, s, f, n + 1)
      BY <2>3, <3>2, <3>3 DEF Placed
    <3> QED  BY <2>2, <3>1, <3>4
  <2> QED  BY <2>7, <2>8
<1>3. Nat \subseteq N
  <2> HIDE DEF A
  <2>1. \A n \in Nat : n \in N => n + 1 \in N
    BY <1>2
  <2> HIDE DEF N
  <2> QED  BY <1>1, <2>1, InductionOnNat
<1> QED  BY <1>0, <1>3

\* The reader returns the line of each chunk that begins one, in their order.
LEMMA LinesPlaced ==
    ASSUME NEW f \in Seq(AnyChunk)
    PROVE  LinesOf(f) \in Seq(Line) /\ \E p : Placed(p, LinesOf(f), f, Len(f))
<1>1. Len(f) \in Nat
  BY LenProperties
<1>2. PICK g : Readings(g, f) /\ LinesOf(f) = g[Len(f)]
  BY <1>1, LinesAre
<1> QED  BY <1>1, <1>2, ReadingsPlaced

Begins(s, t) == Len(s) <= Len(t) /\ \A i \in 1..Len(s) : s[i] = t[i]

\* What comes after the file comes after the lines, and without a beginning
\* of a line there are no more.
LEMMA LinesExtend ==
    ASSUME NEW f \in Seq(AnyChunk), NEW d \in Seq(AnyChunk)
    PROVE  /\ Begins(LinesOf(f), LinesOf(f \o d))
           /\ (\A k \in 1..Len(d) : ~IsHead(d[k])) => LinesOf(f \o d) = LinesOf(f)
<1> DEFINE e == f \o d
<1>1. /\ Len(f) \in Nat /\ Len(d) \in Nat
      /\ e \in Seq(AnyChunk) /\ Len(e) = Len(f) + Len(d)
      /\ \A k \in 1..Len(f) : e[k] = f[k]
      /\ \A k \in (Len(f) + 1)..(Len(f) + Len(d)) : e[k] = d[k - Len(f)]
  BY LenProperties, ConcatProperties
<1> HIDE DEF e
<1>2. PICK g : Readings(g, f) /\ LinesOf(f) = g[Len(f)]
  BY <1>1, LinesAre
<1>3. PICK h : Readings(h, e) /\ LinesOf(e) = h[Len(e)]
  <2>1. Len(e) \in Nat
    BY <1>1
  <2> QED  BY <2>1, LinesAre
<1>4. /\ \A k \in 0..Len(f) : g[k] = Reading(g, f, k)
      /\ \A k \in 0..Len(e) : h[k] = Reading(h, e, k)
  BY <1>2, <1>3 DEF Readings
<1> DEFINE A(n) == n <= Len(f) => h[n] = g[n]
           N == {n \in Nat : A(n)}
           B(n) == n <= Len(d) => /\ Begins(LinesOf(f), h[Len(f) + n])
                                  /\ (\A k \in 1..Len(d) : ~IsHead(d[k])) => h[Len(f) + n] = LinesOf(f)
           M == {n \in Nat : B(n)}
<1>5. 0 \in N
  BY <1>1, <1>4 DEF Reading
<1>6. ASSUME NEW n \in Nat, A(n) PROVE A(n + 1)
  <2>1. SUFFICES ASSUME n + 1 <= Len(f) PROVE h[n + 1] = g[n + 1]
    OBVIOUS
  <2>2. n + 1 \in 0..Len(f) /\ n + 1 \in 0..Len(e) /\ n + 1 \in 1..Len(f) /\ n + 1 # 0 /\ n + 1 - 1 = n
    BY <1>1, <2>1
  <2>3. h[n] = g[n] /\ e[n + 1] = f[n + 1]
    BY <1>1, <1>6, <2>1, <2>2
  <2> QED  BY <1>4, <2>2, <2>3 DEF Reading
<1>7. Nat \subseteq N
  <2> HIDE DEF A
  <2>1. \A n \in Nat : n \in N => n + 1 \in N
    BY <1>6
  <2> HIDE DEF N
  <2> QED  BY <1>5, <2>1, InductionOnNat
<1>8. h[Len(f)] = LinesOf(f)
  BY <1>1, <1>2, <1>7
<1>9. LinesOf(f) \in Seq(Line)
  BY LinesPlaced
<1>10. 0 \in M
  <2>1. Len(f) + 0 = Len(f) /\ Len(LinesOf(f)) \in Nat
    BY <1>1, <1>9, LenProperties
  <2> QED  BY <1>8, <2>1 DEF Begins
<1>11. ASSUME NEW n \in Nat, B(n) PROVE B(n + 1)
  <2>1. SUFFICES ASSUME n + 1 <= Len(d)
                 PROVE  /\ Begins(LinesOf(f), h[Len(f) + (n + 1)])
                        /\ (\A k \in 1..Len(d) : ~IsHead(d[k])) => h[Len(f) + (n + 1)] = LinesOf(f)
    OBVIOUS
  <2> DEFINE m == Len(f) + n
  <2>2. /\ m \in 0..Len(e) /\ m + 1 \in 0..Len(e) /\ m + 1 # 0 /\ (m + 1) - 1 = m
        /\ e[m + 1] = d[n + 1] /\ n + 1 \in 1..Len(d) /\ Len(f) + (n + 1) = m + 1
    <3>1. m + 1 \in (Len(f) + 1)..(Len(f) + Len(d)) /\ (m + 1) - Len(f) = n + 1
      BY <1>1, <2>1
    <3>2. e[m + 1] = d[(m + 1) - Len(f)]
      BY <1>1, <3>1
    <3> QED  BY <1>1, <2>1, <3>1, <3>2
  <2>3. Begins(LinesOf(f), h[m]) /\ ((\A k \in 1..Len(d) : ~IsHead(d[k])) => h[m] = LinesOf(f))
    BY <1>1, <1>11, <2>1
  <2> HIDE DEF m
  <2>4. h[m + 1] = IF IsHead(d[n + 1]) THEN Append(h[m], e[m + 1].line) ELSE h[m]
    BY <1>4, <2>2 DEF Reading
  <2>5. h[m] \in Seq(Line) /\ e[m + 1].line \in Line
    <3>1. m + 1 \in 1..Len(e)
      BY <1>1, <2>2
    <3>2. e[m + 1] \in AnyChunk
      BY <1>1, <3>1, ElementOfSeq
    <3> QED  BY <1>1, <1>3, <2>2, <3>2, ReadingsPlaced DEF AnyChunk
  <2>6. Begins(LinesOf(f), Append(h[m], e[m + 1].line))
    <3>1. Len(LinesOf(f)) \in Nat /\ Len(h[m]) \in Nat
      BY <1>9, <2>5, LenProperties
    <3>2. /\ Len(Append(h[m], e[m + 1].line)) = Len(h[m]) + 1
          /\ \A i \in 1..Len(h[m]) : Append(h[m], e[m + 1].line)[i] = h[m][i]
      BY <2>5, AppendProperties
    <3> QED  BY <2>3, <3>1, <3>2 DEF Begins
  <2> QED  BY <2>2, <2>3, <2>4, <2>6
<1>12. Nat \subseteq M
  <2> HIDE DEF B
  <2>1. \A n \in Nat : n \in M => n + 1 \in M
    BY <1>11
  <2> HIDE DEF M
  <2> QED  BY <1>10, <2>1, InductionOnNat
<1>13. B(Len(d))
  BY <1>1, <1>12
<1> QED  BY <1>1, <1>3, <1>13 DEF e
-----------------------------------------------------------------------------
(* No line is begun twice, and what was returned is begun in its order      *)

\* The lines begun in s, and that none is begun twice.
HeadsIn(s) == {s[k].line : k \in {j \in 1..Len(s) : IsHead(s[j])}}
Distinct(s) ==
    \A j, k \in 1..Len(s) : IsHead(s[j]) /\ IsHead(s[k]) /\ s[j].line = s[k].line => j = k

\* No line is begun twice, in the file and in the handles, and all were tried.
Tried(l) == l.n <= tried[l.by] + (IF state[l.by] = "gone" THEN 1 ELSE 0)
Once ==
    /\ Distinct(file) /\ \A l \in HeadsIn(file) : Tried(l)
    /\ \A r \in Recorders :
          /\ Distinct(buffer[r]) /\ HeadsIn(buffer[r]) \cap HeadsIn(file) = {}
          /\ \A l \in HeadsIn(buffer[r]) : Tried(l)

\* What was returned is begun in the file, in the order of the calls.
BegunAt(f, k, l) == IsHead(f[k]) /\ f[k].line = l
InOrder ==
    /\ \A j \in 1..Len(returned) : \E k \in 1..Len(file) : BegunAt(file, k, returned[j])
    /\ \A i, j \in 1..Len(returned) : i < j =>
          \A k, l \in 1..Len(file) : BegunAt(file, k, returned[i]) /\ BegunAt(file, l, returned[j]) => k < l

LEMMA HeadsConcat ==
    ASSUME NEW s \in Seq(AnyChunk), NEW t \in Seq(AnyChunk)
    PROVE  /\ HeadsIn(s \o t) = HeadsIn(s) \cup HeadsIn(t)
           /\ Distinct(s) /\ Distinct(t) /\ HeadsIn(s) \cap HeadsIn(t) = {} => Distinct(s \o t)
<1> DEFINE u == s \o t
<1>1. /\ Len(s) \in Nat /\ Len(t) \in Nat /\ Len(u) = Len(s) + Len(t)
      /\ \A k \in 1..Len(s) : u[k] = s[k]
      /\ \A k \in (Len(s) + 1)..(Len(s) + Len(t)) : u[k] = t[k - Len(s)]
  BY LenProperties, ConcatProperties
<1> HIDE DEF u
<1>2. \A k \in 1..Len(u) : \/ k \in 1..Len(s) /\ u[k] = s[k]
                           \/ k - Len(s) \in 1..Len(t) /\ u[k] = t[k - Len(s)]
  <2> TAKE k \in 1..Len(u)
  <2>1. CASE k <= Len(s)
    BY <1>1, <2>1
  <2>2. CASE ~(k <= Len(s))
    <3>1. k \in (Len(s) + 1)..(Len(s) + Len(t)) /\ k - Len(s) \in 1..Len(t)
      BY <1>1, <2>2
    <3> QED  BY <1>1, <3>1
  <2> QED  BY <2>1, <2>2
<1>3. \A k \in 1..Len(s) : k \in 1..Len(u)
  BY <1>1
<1>4. \A k \in 1..Len(t) : Len(s) + k \in 1..Len(u) /\ u[Len(s) + k] = t[k]
  <2> TAKE k \in 1..Len(t)
  <2>1. Len(s) + k \in (Len(s) + 1)..(Len(s) + Len(t)) /\ (Len(s) + k) - Len(s) = k
    BY <1>1
  <2>2. u[Len(s) + k] = t[(Len(s) + k) - Len(s)]
    BY <1>1, <2>1
  <2> QED  BY <1>1, <2>1, <2>2
<1>5. HeadsIn(u) \subseteq HeadsIn(s) \cup HeadsIn(t)
  BY <1>2 DEF HeadsIn
<1>6. HeadsIn(s) \subseteq HeadsIn(u)
  BY <1>1, <1>3 DEF HeadsIn
<1>7. HeadsIn(t) \subseteq HeadsIn(u)
  BY <1>4 DEF HeadsIn
<1>8. ASSUME Distinct(s), Distinct(t), HeadsIn(s) \cap HeadsIn(t) = {},
             NEW j \in 1..Len(u), NEW k \in 1..Len(u),
             IsHead(u[j]), IsHead(u[k]), u[j].line = u[k].line
      PROVE  j = k
  <2>1. CASE j \in 1..Len(s) /\ u[j] = s[j] /\ k \in 1..Len(s) /\ u[k] = s[k]
    BY <1>8, <2>1 DEF Distinct
  <2>2. CASE /\ j - Len(s) \in 1..Len(t) /\ u[j] = t[j - Len(s)]
             /\ k - Len(s) \in 1..Len(t) /\ u[k] = t[k - Len(s)]
    <3>1. j - Len(s) = k - Len(s)
      BY <1>8, <2>2 DEF Distinct
    <3> QED  BY <1>1, <3>1
  <2>3. CASE j \in 1..Len(s) /\ u[j] = s[j] /\ k - Len(s) \in 1..Len(t) /\ u[k] = t[k - Len(s)]
    <3>1. u[j].line \in HeadsIn(s) /\ u[k].line \in HeadsIn(t)
      BY <1>8, <2>3 DEF HeadsIn
    <3> QED  BY <1>8, <3>1
  <2>4. CASE k \in 1..Len(s) /\ u[k] = s[k] /\ j - Len(s) \in 1..Len(t) /\ u[j] = t[j - Len(s)]
    <3>1. u[k].line \in HeadsIn(s) /\ u[j].line \in HeadsIn(t)
      BY <1>8, <2>4 DEF HeadsIn
    <3> QED  BY <1>8, <3>1
  <2> QED  BY <1>2, <2>1, <2>2, <2>3, <2>4
<1>9. Distinct(s) /\ Distinct(t) /\ HeadsIn(s) \cap HeadsIn(t) = {} => Distinct(u)
  BY <1>8 DEF Distinct
<1> QED  BY <1>5, <1>6, <1>7, <1>9 DEF u

LEMMA HeadsOfNone == HeadsIn(<<>>) = {} /\ Distinct(<<>>)
BY DEF HeadsIn, Distinct

LEMMA HeadsOfLine ==
    ASSUME NEW l
    PROVE  HeadsIn(Chunks(l)) = {l} /\ Distinct(Chunks(l))
<1>1. /\ Len(Chunks(l)) = 3
      /\ Chunks(l)[1] = Chunk(l, 1) /\ Chunks(l)[2] = Chunk(l, 2) /\ Chunks(l)[3] = Chunk(l, 3)
  BY DEF Chunks
<1> DEFINE c == Chunks(l)
<1> HIDE DEF c
<1>2. /\ \A k \in 1..Len(c) : IsHead(c[k]) <=> k = 1
      /\ Len(c) = 3 /\ c[1].line = l
  BY <1>1 DEF Chunk, IsHead, c
<1>3. HeadsIn(c) = {l} /\ Distinct(c)
  BY <1>2 DEF HeadsIn, Distinct
<1> QED  BY <1>3 DEF c

\* Two pieces of s, one after the other.
LEMMA HeadsOfPieces ==
    ASSUME NEW s \in Seq(AnyChunk), NEW n \in 0..Len(s),
           NEW b, Len(b) \in Nat, n + Len(b) <= Len(s), \A k \in 1..Len(b) : b[k] = s[n + k],
           Distinct(s)
    PROVE  LET a == SubSeq(s, 1, n)
           IN  /\ Distinct(a) /\ Distinct(b) /\ HeadsIn(a) \cap HeadsIn(b) = {}
               /\ HeadsIn(a) \cup HeadsIn(b) \subseteq HeadsIn(s)
<1> DEFINE a == SubSeq(s, 1, n)
<1>1. Len(a) = n /\ \A k \in 1..n : a[k] = s[k]
  BY Cut
<1>2. Len(s) \in Nat
  BY LenProperties
<1> HIDE DEF a
<1>3. \A k \in 1..Len(a) : k \in 1..Len(s) /\ a[k] = s[k] /\ k <= n
  BY <1>1, <1>2
<1>4. \A k \in 1..Len(b) : n + k \in 1..Len(s) /\ b[k] = s[n + k] /\ n + k > n
  BY <1>2
<1>5. HeadsIn(a) \subseteq HeadsIn(s)
  BY <1>3 DEF HeadsIn
<1>6. HeadsIn(b) \subseteq HeadsIn(s)
  BY <1>4 DEF HeadsIn
<1>7. Distinct(a)
  BY <1>3 DEF Distinct
<1>8. ASSUME NEW j \in 1..Len(b), NEW k \in 1..Len(b),
             IsHead(b[j]), IsHead(b[k]), b[j].line = b[k].line
      PROVE  j = k
  <2>1. n + j = n + k
    BY <1>4, <1>8 DEF Distinct
  <2> QED  BY <2>1
<1>9. ASSUME NEW x \in HeadsIn(a), x \in HeadsIn(b) PROVE FALSE
  <2>1. PICK j \in 1..Len(a) : IsHead(a[j]) /\ a[j].line = x
    BY DEF HeadsIn
  <2>2. PICK k \in 1..Len(b) : IsHead(b[k]) /\ b[k].line = x
    BY <1>9 DEF HeadsIn
  <2>3. j = n + k
    BY <1>3, <1>4, <2>1, <2>2 DEF Distinct
  <2> QED  BY <1>3, <1>4, <2>3
<1> QED  BY <1>5, <1>6, <1>7, <1>8, <1>9 DEF a, Distinct
-----------------------------------------------------------------------------
\* What a step of recorder r does to the lines begun: the next line may be
\* added to those of its handle, and some of them go to the file.
Adds(r, l, a, b) ==
    /\ a \in Seq(Own(r)) /\ b \in Seq(Own(r))
    /\ file' = file \o a /\ buffer' = [buffer EXCEPT ![r] = b]
    /\ Distinct(a) /\ Distinct(b) /\ HeadsIn(a) \cap HeadsIn(b) = {}
    /\ HeadsIn(a) \cup HeadsIn(b) \subseteq HeadsIn(buffer[r]) \cup {l}
    /\ returned' = returned \/ (returned' = Append(returned, l) /\ l \in HeadsIn(a))
MovesOn(r) ==
    /\ Past(r)
    /\ \A q \in Recorders \ {r} : state'[q] = state[q] /\ tried'[q] = tried[q]
    /\ \/ tried'[r] = tried[r] + 1
       \/ tried'[r] = tried[r] /\ state'[r] = "gone"

LEMMA OwnHeads ==
    ASSUME NEW r, NEW s \in Seq(Own(r)), NEW l \in HeadsIn(s)
    PROVE  l.by = r /\ l \in Line
<1>1. PICK k \in 1..Len(s) : s[k].line = l
  BY DEF HeadsIn
<1>2. s[k] \in Own(r)
  BY ElementOfSeq
<1> QED  BY <1>1, <1>2 DEF Own

\* The next line of a recorder at work is one that was never tried.
LEMMA NextIsNew ==
    ASSUME Typed, Once, NEW r \in Recorders, Past(r), NEW end
    PROVE  NextLine(r, end) \notin HeadsIn(file) \cup HeadsIn(buffer[r])
<1>1. NextLine(r, end).by = r /\ NextLine(r, end).n = tried[r] + 1 /\ tried[r] \in Nat
  BY DEF NextLine, Typed
<1>2. ~Tried(NextLine(r, end))
  BY <1>1 DEF Tried, Past
<1> QED  BY <1>2 DEF Once

LEMMA AddsKeeps ==
    ASSUME Typed, Once, InOrder, NEW r \in Recorders, NEW end \in BOOLEAN, NEW a, NEW b,
           NEW l, l = NextLine(r, end), Adds(r, l, a, b), MovesOn(r)
    PROVE  Once' /\ InOrder'
<1>1. /\ a \in Seq(Own(r)) /\ b \in Seq(Own(r)) /\ a \in Seq(AnyChunk) /\ b \in Seq(AnyChunk)
      /\ file \in Seq(AnyChunk) /\ \A q \in Recorders : buffer[q] \in Seq(Own(q))
  BY OwnIsChunk, Widen DEF Adds, Typed
<1>2. l \notin HeadsIn(file) \cup HeadsIn(buffer[r]) /\ l.by = r /\ l.n = tried[r] + 1
  BY NextIsNew DEF MovesOn, NextLine
<1>3. /\ file' = file \o a /\ Distinct(a) /\ Distinct(b) /\ HeadsIn(a) \cap HeadsIn(b) = {}
      /\ HeadsIn(a) \cup HeadsIn(b) \subseteq HeadsIn(buffer[r]) \cup {l}
      /\ \A q \in Recorders : buffer'[q] = IF q = r THEN b ELSE buffer[q]
      /\ returned' = returned \/ (returned' = Append(returned, l) /\ l \in HeadsIn(a))
  BY DEF Adds, Typed
<1>4. HeadsIn(file') = HeadsIn(file) \cup HeadsIn(a) /\ Distinct(file')
  <2>1. HeadsIn(file) \cap HeadsIn(a) = {} /\ Distinct(file)
    BY <1>2, <1>3 DEF Once
  <2> QED  BY <1>1, <1>3, <2>1, HeadsConcat
<1>5. ASSUME NEW q \in Recorders, NEW x \in HeadsIn(buffer[q]) \cup HeadsIn(file), x \in Line
      PROVE  Tried(x)'
  <2>1. Tried(x)
    BY DEF Once
  <2>2. /\ tried \in [Recorders -> Nat] /\ tried[x.by] \in Nat
        /\ state[r] # "gone" /\ x.n \in Nat /\ x.by \in Recorders
    BY <1>5 DEF Typed, MovesOn, Past, Line
  <2>3. CASE x.by = r
    <3>1. x.n <= tried[r] /\ tried[r] \in Nat
      BY <2>1, <2>2, <2>3 DEF Tried
    <3> QED  BY <2>2, <2>3, <3>1 DEF Tried, MovesOn
  <2>4. CASE x.by # r
    BY <2>1, <2>2, <2>4 DEF Tried, MovesOn
  <2> QED  BY <2>3, <2>4
<1>6. Tried(l)'
  BY <1>2 DEF Tried, MovesOn, Typed
<1>7. \A x \in HeadsIn(file) : x \in Line
  <2> TAKE x \in HeadsIn(file)
  <2>1. PICK k \in 1..Len(file) : file[k].line = x
    BY DEF HeadsIn
  <2>2. file[k] \in AnyChunk
    BY <1>1, ElementOfSeq
  <2> QED  BY <2>1, <2>2 DEF AnyChunk
<1>8. \A q \in Recorders : \A x \in HeadsIn(buffer[q]) : x.by = q /\ x \in Line
  BY <1>1, OwnHeads
<1>9. /\ \A x \in HeadsIn(file') : Tried(x)'
      /\ \A x \in HeadsIn(b) : Tried(x)'
  BY <1>3, <1>4, <1>5, <1>6, <1>7, <1>8
<1>10. ASSUME NEW q \in Recorders
       PROVE  /\ Distinct(buffer'[q]) /\ HeadsIn(buffer'[q]) \cap HeadsIn(file') = {}
              /\ \A x \in HeadsIn(buffer'[q]) : Tried(x)'
  <2>1. CASE q = r
    <3>1. HeadsIn(b) \cap HeadsIn(file) = {}
      BY <1>2, <1>3 DEF Once
    <3> QED  BY <1>3, <1>4, <1>9, <2>1, <3>1
  <2>2. CASE q # r
    <3>1. \A x \in HeadsIn(a) : x.by = r
      BY <1>1, OwnHeads
    <3>2. HeadsIn(buffer[q]) \cap HeadsIn(a) = {}
      BY <1>8, <2>2, <3>1
    <3>3. buffer'[q] = buffer[q]
      BY <1>3, <2>2
    <3>4. \A x \in HeadsIn(buffer[q]) : Tried(x)'
      BY <1>5, <1>8
    <3> QED  BY <1>4, <3>2, <3>3, <3>4 DEF Once
  <2> QED  BY <2>1, <2>2
<1>11. Once'
  BY <1>4, <1>9, <1>10 DEF Once
<1>12. InOrder'
  <2>1. /\ Len(file) \in Nat /\ Len(a) \in Nat /\ Len(file') = Len(file) + Len(a)
        /\ \A k \in 1..Len(file) : file'[k] = file[k] /\ k \in 1..Len(file')
    BY <1>1, <1>3, LenProperties, ConcatProperties
  <2>2. \A x \in HeadsIn(file) : \A k \in 1..Len(file') : BegunAt(file', k, x) => k \in 1..Len(file)
    <3> TAKE x \in HeadsIn(file)
    <3>1. PICK j \in 1..Len(file) : IsHead(file[j]) /\ file[j].line = x
      BY DEF HeadsIn
    <3>2. ASSUME NEW k \in 1..Len(file'), BegunAt(file', k, x) PROVE k = j
      BY <1>4, <2>1, <3>1, <3>2 DEF BegunAt, Distinct
    <3> QED  BY <3>2
  <2>3. \A j \in 1..Len(returned) : returned[j] \in HeadsIn(file)
    BY DEF InOrder, BegunAt, HeadsIn
  <2>4. \A k \in 1..Len(file) : \A x : BegunAt(file', k, x) <=> BegunAt(file, k, x)
    BY <2>1 DEF BegunAt
  <2>5. \A j \in 1..Len(returned) : \E k \in 1..Len(file') : BegunAt(file', k, returned[j])
    BY <2>1, <2>4 DEF InOrder
  <2>6. \A i, j \in 1..Len(returned) : i < j =>
          \A k, m \in 1..Len(file') : BegunAt(file', k, returned[i]) /\ BegunAt(file', m, returned[j]) => k < m
    BY <2>2, <2>3, <2>4 DEF InOrder
  <2>7. CASE returned' = returned
    <3>1. (\A j \in 1..Len(returned) : \E k \in 1..Len(file) : BegunAt(file, k, returned[j]))'
      BY <2>5, <2>7
    <3>2. (\A i, j \in 1..Len(returned) : i < j =>
             \A k, m \in 1..Len(file) :
                BegunAt(file, k, returned[i]) /\ BegunAt(file, m, returned[j]) => k < m)'
      BY <2>6, <2>7
    <3> QED  BY <3>1, <3>2 DEF InOrder
  <2>8. CASE returned' = Append(returned, l) /\ l \in HeadsIn(a)
    <3>1. /\ Len(returned) \in Nat /\ Len(returned') = Len(returned) + 1
          /\ \A j \in 1..Len(returned) : returned'[j] = returned[j]
          /\ returned'[Len(returned) + 1] = l
      <4>1. returned \in Seq(Line) /\ l \in Line
        BY <1>1, <2>8, OwnHeads DEF Typed
      <4> QED  BY <2>8, <4>1, AppendProperties, LenProperties
    <3>2. \E k \in 1..Len(file') : BegunAt(file', k, l)
      <4>1. l \in HeadsIn(file')
        BY <1>4, <2>8
      <4> QED  BY <4>1 DEF HeadsIn, BegunAt
    <3>3. \A k \in 1..Len(file') : BegunAt(file', k, l) => k > Len(file)
      <4>1. ASSUME NEW k \in 1..Len(file') , BegunAt(file', k, l), k \in 1..Len(file) PROVE FALSE
        <5>1. IsHead(file[k]) /\ file[k].line = l
          BY <2>1, <4>1 DEF BegunAt
        <5> QED  BY <1>2, <4>1, <5>1 DEF HeadsIn
      <4> QED  BY <2>1, <4>1
    <3>4. \A j \in 1..Len(returned') : j \in 1..Len(returned) \/ j = Len(returned) + 1
      BY <3>1
    <3>5. \A j \in 1..Len(returned') : \E k \in 1..Len(file') : BegunAt(file', k, returned'[j])
      BY <2>5, <3>1, <3>2, <3>4
    <3>6. ASSUME NEW i \in 1..Len(returned'), NEW j \in 1..Len(returned'), i < j,
                 NEW k \in 1..Len(file'), NEW m \in 1..Len(file'),
                 BegunAt(file', k, returned'[i]), BegunAt(file', m, returned'[j])
          PROVE  k < m
      <4>1. i \in 1..Len(returned) /\ returned'[i] = returned[i]
        BY <3>1, <3>6
      <4>2. CASE j \in 1..Len(returned)
        BY <2>6, <3>1, <3>6, <4>1, <4>2
      <4>3. CASE j = Len(returned) + 1
        <5>1. k \in 1..Len(file)
          BY <2>2, <2>3, <3>6, <4>1
        <5>2. m > Len(file)
          BY <3>1, <3>3, <3>6, <4>3
        <5> QED  BY <2>1, <5>1, <5>2
      <4> QED  BY <3>4, <4>2, <4>3
    <3> QED  BY <3>5, <3>6 DEF InOrder, BegunAt
  <2> QED  BY <1>3, <2>7, <2>8
<1> QED  BY <1>11, <1>12

\* b is what follows the first n elements of s, or the beginning of it.
Follows(b, s, n) == Len(b) \in Nat /\ n + Len(b) <= Len(s) /\ \A k \in 1..Len(b) : b[k] = s[n + k]

LEMMA RestFollows ==
    ASSUME NEW r, NEW s \in Seq(Own(r)), NEW t \in Seq(Own(r)), NEW n \in Nat, n <= Len(s \o t)
    PROVE  /\ Follows(<<>>, s \o t, n)
           /\ SubSeq(s, n + 1, Len(s)) \in Seq(Own(r))
           /\ Follows(SubSeq(s, n + 1, Len(s)), s \o t, n)
<1>1. /\ Len(s) \in Nat /\ Len(t) \in Nat /\ Len(s \o t) = Len(s) + Len(t)
      /\ \A k \in 1..Len(s) : (s \o t)[k] = s[k]
  BY LenProperties, ConcatProperties
<1>2. Follows(<<>>, s \o t, n)
  BY <1>1 DEF Follows
<1>3. \A k \in (n + 1)..Len(s) : s[k] \in Own(r)
  BY <1>1, ElementOfSeq
<1> DEFINE b == SubSeq(s, n + 1, Len(s))
<1>4. /\ b \in Seq(Own(r)) /\ Len(b) = IF n + 1 <= Len(s) THEN Len(s) - (n + 1) + 1 ELSE 0
      /\ \A k \in 1..(Len(s) - (n + 1) + 1) : b[k] = s[(n + 1) + k - 1]
  <2>1. n + 1 \in Int /\ Len(s) \in Int
    BY <1>1
  <2> QED  BY <1>3, <2>1, SubSeqProperties
<1> HIDE DEF b
<1>5. CASE n < Len(s)
  <2>1. Len(b) = Len(s) - n
    BY <1>1, <1>4, <1>5
  <2>2. ASSUME NEW k \in 1..Len(b) PROVE b[k] = (s \o t)[n + k]
    <3>1. k \in 1..(Len(s) - (n + 1) + 1) /\ (n + 1) + k - 1 = n + k /\ n + k \in 1..Len(s)
      BY <1>1, <1>5, <2>1
    <3>2. b[k] = s[n + k]
      BY <1>4, <3>1
    <3> QED  BY <1>1, <3>1, <3>2
  <2>3. Follows(b, s \o t, n)
    BY <1>1, <1>5, <2>1, <2>2 DEF Follows
  <2> QED  BY <1>2, <1>4, <2>3 DEF b
<1>6. CASE ~(n < Len(s))
  <2>1. Len(b) = 0
    BY <1>1, <1>4, <1>6
  <2>2. Follows(b, s \o t, n)
    BY <1>1, <2>1 DEF Follows
  <2> QED  BY <1>2, <1>4, <2>2 DEF b
<1> QED  BY <1>5, <1>6

LEMMA AllFollows ==
    ASSUME NEW r, NEW s \in Seq(Own(r)), NEW n \in 0..Len(s)
    PROVE  /\ Follows(<<>>, s, n)
           /\ SubSeq(s, n + 1, Len(s)) \in Seq(Own(r))
           /\ Follows(SubSeq(s, n + 1, Len(s)), s, n)
<1>1. s \o <<>> = s /\ <<>> \in Seq(Own(r)) /\ Len(s) \in Nat
  BY ConcatEmptySeq, EmptySeq, LenProperties
<1> DEFINE t == s \o <<>>
           b == SubSeq(s, n + 1, Len(s))
<1>2. Follows(<<>>, t, n) /\ b \in Seq(Own(r)) /\ Follows(b, t, n)
  <2>1. n \in Nat /\ n <= Len(s \o <<>>)
    BY <1>1
  <2> QED  BY <1>1, <2>1, RestFollows
<1>3. t = s
  BY <1>1
<1> HIDE DEF t, b
<1>4. Follows(<<>>, s, n) /\ b \in Seq(Own(r)) /\ Follows(b, s, n)
  BY <1>2, <1>3
<1> QED  BY <1>4 DEF b

\* A handle with one more line in it.
LEMMA LineData ==
    ASSUME Typed, Once, RecorderAssumption, NEW r \in Recorders, Past(r),
           tried[r] < MaxLines[r], NEW end \in BOOLEAN
    PROVE  LET data == buffer[r] \o Chunks(NextLine(r, end))
           IN  /\ data \in Seq(Own(r)) /\ Distinct(data)
               /\ HeadsIn(data) = HeadsIn(buffer[r]) \cup {NextLine(r, end)}
<1> DEFINE l == NextLine(r, end)
<1>1. Chunks(l) \in Seq(Own(r)) /\ buffer[r] \in Seq(Own(r))
  BY LineOwn DEF Typed
<1>2. Chunks(l) \in Seq(AnyChunk) /\ buffer[r] \in Seq(AnyChunk)
  BY <1>1, OwnIsChunk, Widen
<1>3. HeadsIn(Chunks(l)) = {l} /\ Distinct(Chunks(l)) /\ Distinct(buffer[r])
  BY HeadsOfLine DEF Once
<1>4. HeadsIn(buffer[r]) \cap {l} = {}
  BY NextIsNew
<1>5. buffer[r] \o Chunks(l) \in Seq(Own(r))
  BY <1>1, ConcatProperties
<1> HIDE DEF l
<1>6. /\ HeadsIn(buffer[r] \o Chunks(l)) = HeadsIn(buffer[r]) \cup {l}
      /\ Distinct(buffer[r] \o Chunks(l))
  BY <1>2, <1>3, <1>4, HeadsConcat
<1> QED  BY <1>5, <1>6 DEF l

LEMMA PiecesAdd ==
    ASSUME Typed, NEW r \in Recorders, NEW l, NEW data \in Seq(Own(r)), Distinct(data),
           HeadsIn(data) \subseteq HeadsIn(buffer[r]) \cup {l},
           NEW n \in 0..Len(data), NEW b \in Seq(Own(r)), Follows(b, data, n),
           file' = file \o SubSeq(data, 1, n), buffer' = [buffer EXCEPT ![r] = b],
           \/ returned' = returned
           \/ returned' = Append(returned, l) /\ n = Len(data) /\ l \in HeadsIn(data)
    PROVE  \E a : Adds(r, l, a, b)
<1> DEFINE a == SubSeq(data, 1, n)
<1>1. data \in Seq(AnyChunk) /\ a \in Seq(Own(r))
  BY OwnIsChunk, Widen, Cut
<1>2. n = Len(data) => a = data
  BY SubSeqFull
<1>3. /\ Distinct(a) /\ Distinct(b) /\ HeadsIn(a) \cap HeadsIn(b) = {}
      /\ HeadsIn(a) \cup HeadsIn(b) \subseteq HeadsIn(data)
  BY <1>1, HeadsOfPieces DEF Follows
<1>4. file' = file \o a
  OBVIOUS
<1> HIDE DEF a
<1>5. Adds(r, l, a, b)
  BY <1>1, <1>2, <1>3, <1>4 DEF Adds
<1> QED  BY <1>5

LEMMA StepAdds ==
    ASSUME Typed, Once, RecorderAssumption, NEW r \in Recorders,
           Write(r) \/ End(r) \/ Close(r) \/ Exit(r) \/ Crash(r)
    PROVE  MovesOn(r) /\ \E end \in BOOLEAN : \E a, b : Adds(r, NextLine(r, end), a, b)
<1>0. /\ Past(r) /\ buffer[r] \in Seq(Own(r)) /\ <<>> \in Seq(Own(r))
      /\ Distinct(buffer[r]) /\ TRUE \in BOOLEAN /\ FALSE \in BOOLEAN
  BY EmptySeq DEF Write, End, Close, Exit, Crash, Attempt, Past, Typed, Once
<1>1. MovesOn(r)
  BY <1>0 DEF Write, End, Close, Exit, Crash, Shut, Attempt, MovesOn, Typed
<1>2. ASSUME Attempt(r), NEW end \in BOOLEAN
      PROVE  LET data == buffer[r] \o Chunks(NextLine(r, end))
             IN  /\ data \in Seq(Own(r)) /\ Distinct(data) /\ Len(data) \in Nat
                 /\ HeadsIn(data) = HeadsIn(buffer[r]) \cup {NextLine(r, end)}
                 /\ \A n \in 0..Len(data) :
                       /\ Follows(<<>>, data, n)
                       /\ SubSeq(data, n + 1, Len(data)) \in Seq(Own(r))
                       /\ Follows(SubSeq(data, n + 1, Len(data)), data, n)
                       /\ SubSeq(buffer[r], n + 1, Len(buffer[r])) \in Seq(Own(r))
                       /\ Follows(SubSeq(buffer[r], n + 1, Len(buffer[r])), data, n)
  <2> DEFINE t == Chunks(NextLine(r, end))
             data == buffer[r] \o t
  <2>1. tried[r] < MaxLines[r]
    BY <1>2 DEF Attempt
  <2>2. /\ data \in Seq(Own(r)) /\ Distinct(data)
        /\ HeadsIn(data) = HeadsIn(buffer[r]) \cup {NextLine(r, end)}
    BY <1>0, <2>1, LineData
  <2>3. t \in Seq(Own(r))
    BY <2>1, LineOwn
  <2>4. Len(data) \in Nat
    BY <2>2, LenProperties
  <2> HIDE DEF t
  <2>5. ASSUME NEW n \in 0..Len(data)
        PROVE  /\ Follows(<<>>, data, n)
               /\ SubSeq(buffer[r], n + 1, Len(buffer[r])) \in Seq(Own(r))
               /\ Follows(SubSeq(buffer[r], n + 1, Len(buffer[r])), data, n)
    BY <1>0, <2>3, <2>4, RestFollows
  <2>6. ASSUME NEW n \in 0..Len(data)
        PROVE  /\ SubSeq(data, n + 1, Len(data)) \in Seq(Own(r))
               /\ Follows(SubSeq(data, n + 1, Len(data)), data, n)
    <3> HIDE DEF data
    <3> QED  BY <2>2, AllFollows
  <2> QED  BY <2>2, <2>4, <2>5, <2>6 DEF t
<1>3. CASE Write(r)
  <2> DEFINE l == NextLine(r, FALSE)
             data == buffer[r] \o Chunks(l)
  <2>0. Attempt(r)
    BY <1>3 DEF Write
  <2>1. /\ data \in Seq(Own(r)) /\ Distinct(data) /\ Len(data) \in Nat
        /\ HeadsIn(data) = HeadsIn(buffer[r]) \cup {l}
        /\ \A n \in 0..Len(data) :
              /\ SubSeq(data, n + 1, Len(data)) \in Seq(Own(r))
              /\ Follows(SubSeq(data, n + 1, Len(data)), data, n)
              /\ SubSeq(buffer[r], n + 1, Len(buffer[r])) \in Seq(Own(r))
              /\ Follows(SubSeq(buffer[r], n + 1, Len(buffer[r])), data, n)
    BY <1>0, <1>2, <2>0
  <2>2. \/ \E n \in 0..Len(data) :
              /\ Flush(r, data, n)
              /\ returned' = IF n < Len(data) THEN returned ELSE Append(returned, l)
        \/ \E n \in 0..(Len(data) - 2) :
              /\ file' = file \o SubSeq(data, 1, n)
              /\ buffer' = [buffer EXCEPT ![r] = SubSeq(@, n + 1, Len(@))]
              /\ UNCHANGED returned
    BY <1>3 DEF Write
  <2> HIDE DEF l, data
  <2>3. ASSUME NEW n \in 0..Len(data), Flush(r, data, n),
               returned' = IF n < Len(data) THEN returned ELSE Append(returned, l)
        PROVE  \E a, b : Adds(r, l, a, b)
    <3>1. n < Len(data) \/ n = Len(data)
      BY <2>1
    <3> DEFINE b == SubSeq(data, n + 1, Len(data))
    <3>2. /\ b \in Seq(Own(r)) /\ Follows(b, data, n)
          /\ file' = file \o SubSeq(data, 1, n) /\ buffer' = [buffer EXCEPT ![r] = b]
      BY <2>1, <2>3 DEF Flush
    <3>3. returned' = returned \/ (returned' = Append(returned, l) /\ n = Len(data) /\ l \in HeadsIn(data))
      BY <2>1, <2>3, <3>1
    <3> HIDE DEF b
    <3> QED  BY <2>1, <3>2, <3>3, PiecesAdd
  <2>4. ASSUME NEW n \in 0..(Len(data) - 2), file' = file \o SubSeq(data, 1, n),
               buffer' = [buffer EXCEPT ![r] = SubSeq(@, n + 1, Len(@))], UNCHANGED returned
        PROVE  \E a, b : Adds(r, l, a, b)
    <3> DEFINE b == SubSeq(buffer[r], n + 1, Len(buffer[r]))
    <3>1. n \in 0..Len(data)
      BY <2>1
    <3>2. b \in Seq(Own(r)) /\ Follows(b, data, n) /\ buffer' = [buffer EXCEPT ![r] = b]
      BY <2>1, <2>4, <3>1
    <3> HIDE DEF b
    <3> QED  BY <2>1, <2>4, <3>1, <3>2, PiecesAdd
  <2> QED  BY <1>0, <1>1, <2>2, <2>3, <2>4 DEF l
<1>4. CASE End(r)
  <2> DEFINE l == NextLine(r, TRUE)
             data == buffer[r] \o Chunks(l)
  <2>0. Attempt(r)
    BY <1>4 DEF End
  <2>1. /\ data \in Seq(Own(r)) /\ Distinct(data) /\ Len(data) \in Nat
        /\ HeadsIn(data) = HeadsIn(buffer[r]) \cup {l}
        /\ \A n \in 0..Len(data) :
              /\ SubSeq(data, n + 1, Len(data)) \in Seq(Own(r))
              /\ Follows(SubSeq(data, n + 1, Len(data)), data, n)
    BY <1>0, <1>2, <2>0
  <2>2. PICK n \in 0..Len(data) :
              /\ Flush(r, data, n)
              /\ returned' = IF n < Len(data) THEN returned ELSE Append(returned, l)
    BY <1>4 DEF End
  <2> HIDE DEF l, data
  <2>3. n < Len(data) \/ n = Len(data)
    BY <2>1
  <2> DEFINE b == SubSeq(data, n + 1, Len(data))
  <2>4. /\ b \in Seq(Own(r)) /\ Follows(b, data, n)
        /\ file' = file \o SubSeq(data, 1, n) /\ buffer' = [buffer EXCEPT ![r] = b]
    BY <2>1, <2>2 DEF Flush
  <2>5. returned' = returned \/ (returned' = Append(returned, l) /\ n = Len(data) /\ l \in HeadsIn(data))
    BY <2>1, <2>2, <2>3
  <2> HIDE DEF b
  <2>6. \E a : Adds(r, l, a, b)
    BY <2>1, <2>4, <2>5, PiecesAdd
  <2> QED  BY <1>0, <1>1, <2>6 DEF l
<1>5. CASE Close(r)
  <2>1. PICK n \in 0..Len(buffer[r]) : Shut(r, buffer[r], n, n < Len(buffer[r]))
    BY <1>5 DEF Close
  <2>2. Follows(<<>>, buffer[r], n)
    BY <1>0, AllFollows
  <2>3. /\ file' = file \o SubSeq(buffer[r], 1, n) /\ buffer' = [buffer EXCEPT ![r] = <<>>]
        /\ returned' = returned
    BY <1>5, <2>1 DEF Close, Shut
  <2>4. \E a : Adds(r, NextLine(r, TRUE), a, <<>>)
    BY <1>0, <2>2, <2>3, PiecesAdd
  <2> QED  BY <1>0, <1>1, <2>4
<1>6. CASE Exit(r) /\ ~Close(r)
  <2> DEFINE l == NextLine(r, TRUE)
             data == buffer[r] \o Chunks(l)
  <2>0. Attempt(r)
    BY <1>6 DEF Exit
  <2>1. /\ data \in Seq(Own(r)) /\ Distinct(data) /\ Len(data) \in Nat
        /\ HeadsIn(data) = HeadsIn(buffer[r]) \cup {l}
        /\ \A n \in 0..Len(data) : Follows(<<>>, data, n)
    BY <1>0, <1>2, <2>0
  <2>2. PICK n \in 0..Len(data), raised \in BOOLEAN :
          /\ Shut(r, data, n, raised)
          /\ returned' = IF raised THEN returned ELSE Append(returned, l)
    BY <1>6 DEF Exit
  <2> HIDE DEF l, data
  <2>3. raised \/ n = Len(data)
    BY <2>1, <2>2 DEF Shut
  <2>4. file' = file \o SubSeq(data, 1, n) /\ buffer' = [buffer EXCEPT ![r] = <<>>]
    BY <2>2 DEF Shut
  <2>5. returned' = returned \/ (returned' = Append(returned, l) /\ n = Len(data) /\ l \in HeadsIn(data))
    BY <2>1, <2>2, <2>3
  <2>6. \E a : Adds(r, l, a, <<>>)
    BY <1>0, <2>1, <2>4, <2>5, PiecesAdd
  <2> QED  BY <1>0, <1>1, <2>6 DEF l
<1>7. CASE Crash(r)
  <2>1. buffer' = [buffer EXCEPT ![r] = <<>>] /\ returned' = returned
    BY <1>7 DEF Crash
  <2>2. PICK end \in BOOLEAN :
          LET writing == state[r] = "open" /\ ~ended[r] /\ tried[r] < MaxLines[r]
              data == buffer[r] \o (IF writing THEN Chunks(NextLine(r, end)) ELSE <<>>)
          IN  \E n \in 0..Len(data) : file' = file \o SubSeq(data, 1, n)
    BY <1>7 DEF Crash
  <2> DEFINE l == NextLine(r, end)
  <2>3. CASE state[r] = "open" /\ ~ended[r] /\ tried[r] < MaxLines[r]
    <3> DEFINE data == buffer[r] \o Chunks(l)
    <3>1. PICK n \in 0..Len(data) : file' = file \o SubSeq(data, 1, n)
      BY <2>2, <2>3
    <3>2. data \in Seq(Own(r)) /\ Distinct(data) /\ HeadsIn(data) = HeadsIn(buffer[r]) \cup {l}
      BY <1>0, <2>3, LineData
    <3>3. Follows(<<>>, data, n)
      <4>1. Chunks(l) \in Seq(Own(r))
        BY <2>3, LineOwn
      <4>2. Len(data) \in Nat
        BY <3>2, LenProperties
      <4> HIDE DEF l
      <4>3. n \in Nat /\ n <= Len(data)
        BY <4>2
      <4> QED  BY <1>0, <4>1, <4>3, RestFollows
    <3> HIDE DEF l, data
    <3>4. \E a : Adds(r, l, a, <<>>)
      BY <1>0, <2>1, <3>1, <3>2, <3>3, PiecesAdd
    <3> QED  BY <1>1, <3>4 DEF l
  <2>4. CASE ~(state[r] = "open" /\ ~ended[r] /\ tried[r] < MaxLines[r])
    <3>1. buffer[r] \o <<>> = buffer[r] /\ Len(buffer[r]) \in Nat
      BY <1>0, ConcatEmptySeq, LenProperties
    <3>2. PICK n \in 0..Len(buffer[r]) : file' = file \o SubSeq(buffer[r], 1, n)
      BY <2>2, <2>4, <3>1
    <3>3. Follows(<<>>, buffer[r], n)
      BY <1>0, AllFollows
    <3>4. \E a : Adds(r, l, a, <<>>)
      BY <1>0, <2>1, <3>2, <3>3, PiecesAdd
    <3> QED  BY <1>1, <3>4
  <2> QED  BY <2>3, <2>4
<1>8. Exit(r) /\ Close(r) => Close(r)
  OBVIOUS
<1> QED  BY <1>3, <1>4, <1>5, <1>6, <1>7

LEMMA HeadsAreLines ==
    ASSUME Typed
    PROVE  HeadsIn(file) \subseteq Line /\ \A r \in Recorders : HeadsIn(buffer[r]) \subseteq Line
<1>1. ASSUME NEW s \in Seq(AnyChunk) PROVE HeadsIn(s) \subseteq Line
  <2>1. \A k \in 1..Len(s) : s[k].line \in Line
    <3>1. \A k \in 1..Len(s) : s[k] \in AnyChunk
      BY ElementOfSeq
    <3> QED  BY <3>1 DEF AnyChunk
  <2> QED  BY <2>1 DEF HeadsIn
<1> QED  BY <1>1 DEF Typed

LEMMA OnceInit == Init => Once /\ InOrder
<1> SUFFICES ASSUME Init PROVE Once /\ InOrder
  OBVIOUS
<1>1. file = <<>> /\ returned = <<>> /\ \A r \in Recorders : buffer[r] = <<>>
  BY DEF Init
<1>2. Once
  BY <1>1, HeadsOfNone DEF Once
<1>3. InOrder
  <2>1. Len(returned) = 0
    BY <1>1
  <2> QED  BY <2>1 DEF InOrder
<1> QED  BY <1>2, <1>3

LEMMA OnceStep ==
    ASSUME IInv, Once, InOrder, [Next]_vars
    PROVE  Once' /\ InOrder'
<1> USE RecorderAssumption DEF IInv
<1>1. ASSUME UNCHANGED <<file, buffer, tried, returned>>,
             \A q \in Recorders : state[q] = "gone" => state'[q] = "gone"
      PROVE  Once' /\ InOrder'
  <2>1. ASSUME NEW l \in Line, Tried(l) PROVE Tried(l)'
    <3>1. l.by \in Recorders /\ l.n \in Nat /\ tried[l.by] \in Nat
      BY DEF Line, Typed
    <3> QED  BY <1>1, <2>1, <3>1 DEF Tried
  <2>2. Once'
    BY <1>1, <2>1, HeadsAreLines DEF Once
  <2>3. InOrder'
    BY <1>1 DEF InOrder
  <2> QED  BY <2>2, <2>3
<1>2. ASSUME NEW r \in Recorders, Check(r) \/ OpenToAppend(r) PROVE Once' /\ InOrder'
  <2>1. UNCHANGED <<file, buffer, tried, returned>>
    BY <1>2 DEF Check, OpenToAppend
  <2>2. \A q \in Recorders : state[q] = "gone" => state'[q] = "gone"
    BY <1>2 DEF Check, OpenToAppend, Typed
  <2> QED  BY <1>1, <2>1, <2>2
<1>3. ASSUME NEW r \in Recorders, OpenAfresh(r) PROVE Once' /\ InOrder'
  <2>1. file' = <<>> /\ returned' = <<>> /\ \A q \in Recorders : buffer'[q] = <<>>
    BY <1>3 DEF OpenAfresh, Alone, Typed
  <2>2. Once'
    BY <2>1, HeadsOfNone DEF Once
  <2>3. Len(returned') = 0
    BY <2>1
  <2> QED  BY <2>2, <2>3 DEF InOrder
<1>4. ASSUME NEW r \in Recorders, Write(r) \/ End(r) \/ Close(r) \/ Exit(r) \/ Crash(r)
      PROVE  Once' /\ InOrder'
  <2>1. MovesOn(r) /\ \E end \in BOOLEAN : \E a, b : Adds(r, NextLine(r, end), a, b)
    BY <1>4, StepAdds
  <2> QED  BY <2>1, AddsKeeps
<1>5. CASE UNCHANGED vars
  BY <1>1, <1>5 DEF vars, handles
<1> QED  BY <1>2, <1>3, <1>4, <1>5 DEF Next

\* What is read has each returned line once, in their order.
LEMMA OnceIsRecorded ==
    ASSUME Typed, Once, InOrder
    PROVE  ReturnedIsRecorded /\ \A j \in 1..Len(returned) : \E k \in 1..Len(Lines) : Lines[k] = returned[j]
<1>1. /\ Lines \in Seq(Line) /\ DOMAIN Lines = 1..Len(Lines) /\ Len(Lines) \in Nat
      /\ DOMAIN returned = 1..Len(returned)
  BY LinesPlaced, LenProperties DEF Typed, Lines
<1>2. PICK p : Placed(p, Lines, file, Len(file))
  BY LinesPlaced DEF Typed, Lines
<1>3. \A i, j \in 1..Len(Lines) : p[i] \in 1..Len(file) /\ (p[i] < p[j] => i < j)
  <2> TAKE i \in 1..Len(Lines), j \in 1..Len(Lines)
  <2>1. /\ p[i] \in 1..Len(file) /\ p[j] \in 1..Len(file) /\ Len(file) \in Nat
        /\ j < i => p[j] < p[i]
    BY <1>2, LenProperties DEF Placed, Typed
  <2>2. i = j => p[i] = p[j]
    OBVIOUS
  <2> QED  BY <1>1, <2>1, <2>2
<1>4. \A i \in 1..Len(Lines) : \A x : Lines[i] = x <=> BegunAt(file, p[i], x)
  BY <1>2 DEF Placed, BegunAt
<1>5. \A x : \A h \in 1..Len(file) : BegunAt(file, h, x) => \E i \in 1..Len(Lines) : p[i] = h
  BY <1>2 DEF Placed, BegunAt
<1>6. \A i, j \in 1..Len(Lines) : Lines[i] = Lines[j] => i = j
  <2> TAKE i \in 1..Len(Lines), j \in 1..Len(Lines)
  <2>1. ASSUME Lines[i] = Lines[j] PROVE p[i] = p[j]
    BY <1>3, <1>4, <2>1 DEF Once, Distinct, BegunAt
  <2>2. /\ p[i] \in 1..Len(file) /\ (i < j => p[i] < p[j]) /\ (j < i => p[j] < p[i])
    BY <1>2 DEF Placed
  <2> QED  BY <1>1, <2>1, <2>2
<1>7. \A j \in 1..Len(returned) : \E k \in 1..Len(Lines) : Lines[k] = returned[j]
  <2> TAKE j \in 1..Len(returned)
  <2>1. PICK h \in 1..Len(file) : BegunAt(file, h, returned[j])
    BY DEF InOrder
  <2>2. PICK i \in 1..Len(Lines) : p[i] = h
    BY <1>5, <2>1
  <2>3. Lines[i] = returned[j]
    BY <1>4, <2>1, <2>2
  <2> QED  BY <2>3
<1>8. ASSUME NEW i \in 1..Len(returned), NEW j \in 1..Len(returned), i < j,
             NEW k \in 1..Len(Lines), NEW m \in 1..Len(Lines),
             Lines[k] = returned[i], Lines[m] = returned[j]
      PROVE  k < m
  <2>1. BegunAt(file, p[k], returned[i]) /\ BegunAt(file, p[m], returned[j])
    BY <1>4, <1>8
  <2>2. p[k] < p[m]
    BY <1>3, <1>8, <2>1 DEF InOrder
  <2> QED  BY <1>3, <2>2
<1> DEFINE Places(line) == {k \in DOMAIN Lines : Lines[k] = line}
<1>9. \A j \in DOMAIN returned : \E k \in DOMAIN Lines : Places(returned[j]) = {k}
  <2> TAKE j \in DOMAIN returned
  <2>1. PICK k \in 1..Len(Lines) : Lines[k] = returned[j]
    BY <1>1, <1>7
  <2>2. \A i \in 1..Len(Lines) : Lines[i] = returned[j] => i = k
    BY <1>6, <2>1
  <2>3. Places(returned[j]) = {k}
    BY <1>1, <2>1, <2>2
  <2> QED  BY <1>1, <2>3
<1>10. \A i, j \in DOMAIN returned : i < j =>
          \A k \in Places(returned[i]), m \in Places(returned[j]) : k < m
  BY <1>1, <1>8
<1> HIDE DEF Places
<1>11. ReturnedIsRecorded
  BY <1>9, <1>10 DEF ReturnedIsRecorded, Places
<1> QED  BY <1>7, <1>11

\* A call that returned has put its event in the trace for good, once and in
\* its place (Recorder._write), whatever fails, dies or overlaps.
THEOREM ReturnedStays == Spec => []ReturnedIsRecorded
<1>1. Init => IInv
  BY InitHolds, RecorderAssumption
<1>2. IInv /\ [Next]_vars => IInv'
  BY StepKeeps
<1>3. IInv /\ Once /\ InOrder /\ [Next]_vars => Once' /\ InOrder'
  BY OnceStep
<1>4. IInv /\ Once /\ InOrder => ReturnedIsRecorded
  BY OnceIsRecorded DEF IInv
<1> QED  BY <1>1, <1>2, <1>3, <1>4, OnceInit, PTL DEF Spec
=============================================================================
