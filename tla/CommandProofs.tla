--------------------------- MODULE CommandProofs ---------------------------
(***************************************************************************)
(* An exit code returned for a verdict comes with complete reports of      *)
(* that invocation, and the recorders keep their promises beside commands, *)
(* for any invocations, requests, recorders and faults.                    *)
(***************************************************************************)
EXTENDS CommandLine, RecorderProofs

Fields == {"kind", "wants", "paths", "at", "judged", "status", "code", "raised"}
Reports == {"json", "sarif"}

\* The outputs that are done when invocation q has come so far.
Done(q) ==
    IF cmd[q].at \in {"paths", "json"} THEN cmd[q].wants \ Reports
    ELSE IF cmd[q].at = "sarif" THEN cmd[q].wants \ {"sarif"}
    ELSE IF cmd[q].at = "print" \/ Returned(q) THEN cmd[q].wants
    ELSE {}

\* What an invocation may have come to; past the comparison of the paths its
\* reports have a path each.
Shape(q) ==
    /\ DOMAIN cmd[q] = Fields
    /\ cmd[q].wants \subseteq Outputs
    /\ cmd[q].at \in {"idle", "input", "paths", "json", "sarif", "print", "gone"}
    /\ cmd[q].at # "gone" => cmd[q].code = Unfinished
    /\ "trace" \in cmd[q].wants => cmd[q].kind = "demo"
    /\ cmd[q].paths # "two" => Reports \subseteq cmd[q].wants
    /\ cmd[q].at \in {"json", "sarif", "print"} => cmd[q].paths = "two"
    /\ Returned(q) => cmd[q].code = CodeOf(cmd[q].status)

\* The reports that are done are there, whole.
Kept(q) == \A o \in Done(q) : out[o] = Content(q, o, TRUE)

CommandInv ==
    /\ DOMAIN cmd = Commands /\ DOMAIN out = Outputs
    /\ \A q \in Commands : Shape(q) /\ (Running(q) => latest = q) /\ (latest = q => Kept(q))
-----------------------------------------------------------------------------
LEMMA NoVerdict == Unfinished \notin VerdictCodes /\ Killed \notin VerdictCodes /\ 2 \notin VerdictCodes
BY DEF Unfinished, Killed, VerdictCodes

LEMMA ReturnedIsVerdict == \A q : Returned(q) => cmd[q].code \in VerdictCodes
BY DEF Returned, VerdictCodes

LEMMA CommandInitHolds == CommandInit => CommandInv
<1> SUFFICES ASSUME CommandInit PROVE CommandInv  OBVIOUS
<1>1. DOMAIN cmd = Commands /\ DOMAIN out = Outputs /\ \A q \in Commands : cmd[q] = NotBegun
  BY DEF CommandInit
<1>2. /\ NotBegun.at = "idle" /\ NotBegun.wants = {} /\ NotBegun.code = Unfinished
      /\ NotBegun.paths = "two" /\ DOMAIN NotBegun = Fields
  BY DEF NotBegun, Fields
<1>3. \A q \in Commands : Shape(q) /\ ~Running(q)
  BY <1>1, <1>2, NoVerdict, ReturnedIsVerdict DEF Shape, Running
<1>4. \A q \in Commands : latest # q  BY CommandAssumption DEF CommandInit, CommandAssumption
<1> QED  BY <1>1, <1>3, <1>4 DEF CommandInv

\* Only the running invocation moves, and no other is the latest.
LEMMA OnlyOne ==
    ASSUME CommandInv, NEW q \in Commands, Running(q),
           DOMAIN cmd' = Commands, DOMAIN out' = Outputs, latest' = latest,
           \A p \in Commands \ {q} : cmd'[p] = cmd[p],
           Shape(q)', Kept(q)'
    PROVE  CommandInv'
BY DEF CommandInv, Running, Shape, Returned

\* To leave with a code that is no verdict, or in an exception, asks nothing
\* of the reports.
LEMMA GoneKeeps ==
    ASSUME CommandInv, NEW q \in Commands, Running(q), NEW n, NEW e,
           cmd' = [cmd EXCEPT ![q].at = "gone", ![q].code = n, ![q].raised = e],
           latest' = latest, DOMAIN out' = Outputs,
           n \in {0, 3} \/ (n = 1 /\ ~e) =>
               cmd[q].at = "print" /\ out' = out /\ n = CodeOf(cmd[q].status)
    PROVE  CommandInv'
<1>1. /\ DOMAIN cmd' = Commands /\ \A p \in Commands \ {q} : cmd'[p] = cmd[p]
      /\ cmd'[q] = [cmd[q] EXCEPT !.at = "gone", !.code = n, !.raised = e]
  BY DEF CommandInv
<1>2. /\ cmd'[q].at = "gone" /\ cmd'[q].code = n /\ cmd'[q].raised = e
      /\ cmd'[q].wants = cmd[q].wants /\ cmd'[q].kind = cmd[q].kind
      /\ cmd'[q].paths = cmd[q].paths /\ cmd'[q].status = cmd[q].status
      /\ DOMAIN cmd'[q] = DOMAIN cmd[q]
  BY <1>1 DEF CommandInv, Shape, Fields
<1>3. Returned(q)' <=> n \in {0, 3} \/ (n = 1 /\ ~e)  BY <1>2 DEF Returned
<1>4. Shape(q)'
  <2>1. Returned(q)' => cmd'[q].code = CodeOf(cmd'[q].status)  BY <1>2, <1>3
  <2> QED  BY <1>2, <2>1 DEF CommandInv, Shape
<1>5. Kept(q)'
  <2>1. CASE Returned(q)'  BY <2>1, <1>2, <1>3 DEF CommandInv, Kept, Done
  <2>2. CASE ~Returned(q)'  BY <2>2, <1>2 DEF Kept, Done
  <2> QED  BY <2>1, <2>2
<1> QED  BY <1>1, <1>4, <1>5, OnlyOne

LEMMA LeaveKeeps ==
    ASSUME CommandInv, NEW q \in Commands, Running(q), NEW n, Leave(q, n), latest' = latest,
           DOMAIN out' = Outputs,
           n \in VerdictCodes => cmd[q].at = "print" /\ out' = out /\ n = CodeOf(cmd[q].status)
    PROVE  CommandInv'
<1>1. cmd' = [cmd EXCEPT ![q].at = "gone", ![q].code = n, ![q].raised = cmd[q].raised]
  <2>1. [cmd[q] EXCEPT !.at = "gone", !.code = n]
            = [cmd[q] EXCEPT !.at = "gone", !.code = n, !.raised = cmd[q].raised]
    BY DEF CommandInv, Shape, Fields
  <2> QED  BY <2>1 DEF Leave
<1>2. {0, 3} \subseteq VerdictCodes /\ 1 \in VerdictCodes  BY DEF VerdictCodes
<1> QED  BY <1>1, <1>2, GoneKeeps

LEMMA DieKeeps ==
    ASSUME CommandInv, NEW q \in Commands, Running(q), Die(q), latest' = latest, DOMAIN out' = Outputs
    PROVE  CommandInv'
<1>1. PICK n \in {1, 120} :
         cmd' = [cmd EXCEPT ![q].at = "gone", ![q].code = n, ![q].raised = TRUE]
  BY DEF Die
<1>2. ~(n \in {0, 3} \/ (n = 1 /\ ~TRUE))  BY <1>1
<1> QED  BY <1>1, <1>2, GoneKeeps

LEMMA ComplainKeeps ==
    ASSUME CommandInv, NEW q \in Commands, Running(q), Complain(q), latest' = latest, DOMAIN out' = Outputs
    PROVE  CommandInv'
BY NoVerdict, LeaveKeeps, DieKeeps DEF Complain

\* The next step is a report that is asked for, or everything is done.
LEMMA OnwardIs ==
    ASSUME NEW c, NEW done, c.wants \subseteq Outputs
    PROVE  \/ Onward(c, done) = "json" /\ "json" \in c.wants /\ "json" \notin done
           \/ Onward(c, done) = "sarif" /\ "sarif" \in c.wants \ done /\ c.wants \subseteq done \cup {"trace", "sarif"}
           \/ Onward(c, done) = "print" /\ c.wants \subseteq done \cup {"trace"}
BY DEF Onward, Outputs

\* The running invocation goes on to its next step.
LEMMA StepsOn ==
    ASSUME CommandInv, NEW q \in Commands, Running(q), NEW c, NEW at, GoTo(q, c, at),
           latest' = latest, DOMAIN out' = Outputs,
           DOMAIN c = Fields, c.wants = cmd[q].wants, c.kind = cmd[q].kind,
           c.paths = cmd[q].paths, c.code = Unfinished,
           at \in {"paths", "json", "sarif", "print"}, at # "paths" => c.paths = "two",
           Kept(q)'
    PROVE  CommandInv'
<1>1. /\ DOMAIN cmd' = Commands /\ \A p \in Commands \ {q} : cmd'[p] = cmd[p]
      /\ cmd'[q] = [c EXCEPT !.at = at]
  BY DEF GoTo, CommandInv
<1>2. /\ cmd'[q].at = at /\ cmd'[q].code = Unfinished /\ cmd'[q].wants = cmd[q].wants
      /\ cmd'[q].kind = cmd[q].kind /\ cmd'[q].paths = cmd[q].paths /\ DOMAIN cmd'[q] = Fields
  BY <1>1 DEF Fields
<1>3. ~Returned(q)'  BY <1>2 DEF Returned, Unfinished
<1>4. Shape(q)'  BY <1>2, <1>3 DEF CommandInv, Shape
<1> QED  BY <1>1, <1>4, OnlyOne

LEMMA OnwardIsStep == \A c, done : Onward(c, done) \in {"json", "sarif", "print"}
BY DEF Onward

LEMMA JudgedKeeps ==
    ASSUME CommandInv, NEW q \in Commands, cmd[q].at = "input", latest' = latest,
           NEW ls, NEW v, Judged(q, ls, v), DOMAIN out' = Outputs,
           "trace" \in cmd[q].wants => out'["trace"] = Content(q, "trace", TRUE)
    PROVE  CommandInv'
<1> DEFINE c == [cmd[q] EXCEPT !.judged = ls, !.status = v]
           at == IF Reports \subseteq c.wants THEN "paths" ELSE Onward(c, {})
<1>1. /\ c.wants = cmd[q].wants /\ c.kind = cmd[q].kind /\ c.paths = cmd[q].paths
      /\ c.code = Unfinished /\ DOMAIN c = Fields /\ c.wants \subseteq Outputs
  BY DEF CommandInv, Shape, Fields
<1>2. Running(q)  BY DEF Running
<1>3. GoTo(q, c, at)  BY DEF Judged, Reports
<1>4. cmd[q].paths # "two" => Reports \subseteq c.wants  BY <1>1 DEF CommandInv, Shape
<1> HIDE DEF c
<1>5. /\ at \in {"paths", "json", "sarif", "print"} /\ (at # "paths" => c.paths = "two")
      /\ cmd'[q].at = at /\ cmd'[q].wants = cmd[q].wants /\ cmd'[q].code = Unfinished
  BY <1>1, <1>3, <1>4, OnwardIsStep DEF GoTo, CommandInv, Fields
<1>6. \A o \in Done(q)' : o = "trace" /\ o \in cmd[q].wants
  <2>1. CASE at = "paths"  BY <1>1, <1>5, <2>1 DEF Done, Outputs, Reports
  <2>2. CASE at # "paths"
    <3>1. at = Onward(c, {})  BY <2>2
    <3> HIDE DEF at
    <3>2. /\ at = "json" => \A o \in cmd[q].wants \ Reports : o = "trace"
          /\ at = "sarif" => \A o \in cmd[q].wants \ {"sarif"} : o = "trace"
          /\ at = "print" => \A o \in cmd[q].wants : o = "trace"
      BY <1>1, <3>1, OnwardIs DEF Reports, Outputs
    <3>3. at \in {"json", "sarif", "print"}  BY <3>1, OnwardIsStep
    <3> QED  BY <1>5, <3>2, <3>3 DEF Done
  <2> QED  BY <2>1, <2>2
<1>7. Kept(q)'  BY <1>6 DEF Kept
<1> HIDE DEF at
<1> QED  BY <1>1, <1>2, <1>3, <1>5, <1>7, StepsOn
-----------------------------------------------------------------------------
LEMMA PutWrites ==
    ASSUME CommandInv, NEW q \in Commands, NEW o \in Outputs, Put(q, o),
           o = "trace" \/ cmd[q].paths # "same"
    PROVE  /\ DOMAIN out' = Outputs /\ out'[o] = Content(q, o, TRUE)
           /\ \A p \in Outputs \ {o} : out'[p] = out[p]
BY DEF Put, FileOf, CommandInv

LEMMA OutStays ==
    ASSUME CommandInv, NEW q, NEW o, Put(q, o) \/ Spoil(q, o) \/ out' = out
    PROVE  DOMAIN out' = Outputs
BY DEF Put, Spoil, CommandInv

LEMMA BeginKeeps == ASSUME CommandInv, NEW q \in Commands, Begin(q) PROVE CommandInv'
<1>1. PICK kind \in {"check", "demo", "test"}, wants \in Requests, paths \in Paths :
        /\ "trace" \in wants => kind = "demo"
        /\ paths # "two" => Reports \subseteq wants
        /\ GoTo(q, [NotBegun EXCEPT !.kind = kind, !.wants = wants, !.paths = paths], "input")
  BY DEF Begin, Reports
<1>2. /\ DOMAIN cmd' = Commands /\ out' = out /\ latest' = q
      /\ \A p \in Commands \ {q} : cmd'[p] = cmd[p] /\ ~Running(p)
      /\ cmd'[q].at = "input" /\ cmd'[q].wants = wants /\ cmd'[q].kind = kind
      /\ cmd'[q].paths = paths /\ cmd'[q].code = Unfinished /\ DOMAIN cmd'[q] = Fields
  BY <1>1 DEF Begin, GoTo, NotBegun, CommandInv, Fields
<1>3. wants \subseteq Outputs  BY CommandAssumption DEF CommandAssumption
<1>4. ~Returned(q)'  BY <1>2 DEF Returned, Unfinished
<1>5. Shape(q)'  BY <1>1, <1>2, <1>3, <1>4 DEF Shape
<1>6. Kept(q)'  BY <1>2, <1>4 DEF Kept, Done
<1>7. \A p \in Commands \ {q} : Shape(p)' /\ ~Running(p)' /\ latest' # p
  BY <1>2 DEF CommandInv, Shape, Running, Returned
<1> QED  BY <1>2, <1>5, <1>6, <1>7 DEF CommandInv

LEMMA RefuseKeeps == ASSUME CommandInv, NEW q \in Commands, RefuseInput(q) PROVE CommandInv'
BY ComplainKeeps, DieKeeps DEF RefuseInput, CommandInv, Running

LEMMA ReadKeeps == ASSUME CommandInv, NEW q \in Commands, ReadTrace(q) PROVE CommandInv'
<1>1. cmd[q].at = "input" /\ cmd[q].kind = "check" /\ latest' = latest /\ out' = out
  BY DEF ReadTrace
<1>2. "trace" \notin cmd[q].wants  BY <1>1 DEF CommandInv, Shape
<1>3. DOMAIN out' = Outputs  BY <1>1 DEF CommandInv
<1>4. CASE Readable
  <2>1. PICK v : Judged(q, Lines, v)  BY <1>4 DEF ReadTrace
  <2> QED  BY <1>1, <1>2, <1>3, <2>1, JudgedKeeps
<1>5. CASE ~Readable  BY <1>1, <1>3, <1>5, ComplainKeeps DEF ReadTrace, Running
<1> QED  BY <1>4, <1>5

LEMMA ComparePathsKeeps == ASSUME CommandInv, NEW q \in Commands, ComparePaths(q) PROVE CommandInv'
<1>1. cmd[q].at = "paths" /\ latest' = latest /\ out' = out /\ Running(q) /\ DOMAIN out' = Outputs
  BY DEF ComparePaths, CommandInv, Running
<1>2. CASE Complain(q) \/ Die(q)  BY <1>1, <1>2, ComplainKeeps, DieKeeps
<1>3. CASE cmd[q].paths = "two" /\ GoTo(q, cmd[q], Onward(cmd[q], {}))
  <2> DEFINE at == Onward(cmd[q], {})
  <2>1. /\ DOMAIN cmd[q] = Fields /\ cmd[q].code = Unfinished /\ cmd[q].wants \subseteq Outputs
    BY <1>1 DEF CommandInv, Shape
  <2>2. at \in {"json", "sarif", "print"}  BY OnwardIsStep
  <2>3. cmd'[q].at = at /\ cmd'[q].wants = cmd[q].wants /\ cmd'[q].code = Unfinished
    BY <1>3, <2>1 DEF GoTo, CommandInv, Fields
  <2>4. Done(q)' \subseteq Done(q)
    <3> HIDE DEF at
    <3>1. Done(q) = cmd[q].wants \ Reports  BY <1>1 DEF Done
    <3>2. /\ at = "sarif" => cmd[q].wants \ {"sarif"} \subseteq cmd[q].wants \ Reports
          /\ at = "print" => cmd[q].wants \subseteq cmd[q].wants \ Reports
      BY <2>1, OnwardIs DEF at, Reports
    <3> QED  BY <2>2, <2>3, <3>1, <3>2 DEF Done
  <2>5. Kept(q)'
    <3>1. Kept(q)  BY <1>1 DEF CommandInv
    <3> QED  BY <1>1, <2>4, <3>1 DEF Kept
  <2> HIDE DEF at
  <2> QED  BY <1>1, <1>3, <2>1, <2>2, <2>5, StepsOn DEF at
<1> QED  BY <1>2, <1>3 DEF ComparePaths

LEMMA DemoKeeps == ASSUME CommandInv, NEW q \in Commands, RunDemo(q) PROVE CommandInv'
<1>1. "trace" \in Outputs  BY DEF Outputs
<1>2. cmd[q].at = "input" /\ latest' = latest  BY DEF RunDemo
<1>3. DOMAIN out' = Outputs  BY OutStays DEF RunDemo
<1>4. ASSUME NEW v, Judged(q, <<>>, v), IF "trace" \in cmd[q].wants THEN Put(q, "trace") ELSE UNCHANGED out
      PROVE  CommandInv'
  BY <1>1, <1>2, <1>3, <1>4, PutWrites, JudgedKeeps
<1>5. CASE Leave(q, 2)  BY <1>2, <1>3, <1>5, NoVerdict, LeaveKeeps DEF Running
<1>6. CASE Die(q)  BY <1>2, <1>3, <1>6, DieKeeps DEF Running
<1> QED  BY <1>4, <1>5, <1>6 DEF RunDemo

LEMMA TestKeeps == ASSUME CommandInv, NEW q \in Commands, RunTest(q) PROVE CommandInv'
<1>1. cmd[q].at = "input" /\ cmd[q].kind = "test" /\ latest' = latest /\ out' = out
  BY DEF RunTest
<1>2. "trace" \notin cmd[q].wants  BY <1>1 DEF CommandInv, Shape
<1>3. PICK v : Judged(q, <<>>, v)  BY DEF RunTest
<1>4. DOMAIN out' = Outputs  BY <1>1 DEF CommandInv
<1> QED  BY <1>1, <1>2, <1>3, <1>4, JudgedKeeps

LEMMA ReportKeeps ==
    ASSUME CommandInv, NEW q \in Commands, NEW o \in Reports, WriteReport(q, o)
    PROVE  CommandInv'
<1>1. o \in Outputs /\ o \in {"json", "sarif"}  BY DEF Outputs, Reports
<1>2. cmd[q].at = o /\ latest' = latest /\ Running(q)  BY <1>1 DEF WriteReport, Running
<1>3. DOMAIN out' = Outputs  BY OutStays DEF WriteReport
<1>4. CASE Leave(q, 2)  BY <1>2, <1>3, <1>4, NoVerdict, LeaveKeeps
<1>5. CASE Die(q)  BY <1>2, <1>3, <1>5, DieKeeps
<1>6. CASE Put(q, o) /\ GoTo(q, cmd[q], Onward(cmd[q], {"json", o}))
  <2> DEFINE at == Onward(cmd[q], {"json", o})
  <2>1. /\ cmd[q].paths = "two" /\ cmd[q].wants \subseteq Outputs
        /\ DOMAIN cmd[q] = Fields /\ cmd[q].code = Unfinished
    BY <1>1, <1>2 DEF CommandInv, Shape
  <2>2. out'[o] = Content(q, o, TRUE) /\ \A p \in Outputs \ {o} : out'[p] = out[p]
    BY <1>1, <1>6, <2>1, PutWrites
  <2>3. cmd'[q].at = at /\ cmd'[q].wants = cmd[q].wants /\ cmd'[q].code = Unfinished
    BY <1>6, <2>1 DEF GoTo, CommandInv, Fields
  <2>4. at \in {"json", "sarif", "print"}  BY OnwardIsStep
  <2>5. latest = q /\ Kept(q)  BY <1>2 DEF CommandInv
  <2>6. \A p \in Done(q)' : p = o \/ p \in Done(q)
    <3>1. /\ at # "json"
          /\ at = "sarif" => o = "json"
          /\ at = "print" => cmd[q].wants \subseteq {"trace", "json", o}
      BY <1>1, <2>1, OnwardIs DEF Outputs
    <3> HIDE DEF at
    <3> QED  BY <1>1, <1>2, <2>1, <2>3, <2>4, <3>1 DEF Done, Outputs, Reports
  <2>7. Done(q) \subseteq Outputs  BY <2>1 DEF Done
  <2>8. Kept(q)'  BY <2>2, <2>5, <2>6, <2>7 DEF Kept
  <2> HIDE DEF at
  <2> QED  BY <1>2, <1>3, <1>6, <2>1, <2>4, <2>8, StepsOn DEF at
<1> QED  BY <1>4, <1>5, <1>6 DEF WriteReport

LEMMA AnnounceKeeps == ASSUME CommandInv, NEW q \in Commands, Announce(q) PROVE CommandInv'
<1>1. cmd[q].at = "print" /\ latest' = latest /\ out' = out /\ DOMAIN out' = Outputs /\ Running(q)
  BY DEF Announce, CommandInv, Running
<1>2. CASE Leave(q, CodeOf(cmd[q].status))  BY <1>1, <1>2, LeaveKeeps
<1>3. CASE Die(q)  BY <1>1, <1>3, DieKeeps
<1> QED  BY <1>2, <1>3 DEF Announce

LEMMA KillKeeps == ASSUME CommandInv, NEW q \in Commands, Kill(q) PROVE CommandInv'
<1>1. DOMAIN out' = Outputs  BY OutStays DEF Kill
<1> QED  BY <1>1, NoVerdict, LeaveKeeps DEF Kill

LEMMA CommandStepKeeps == ASSUME CommandInv, [CommandNext]_all PROVE CommandInv'
<1>1. CASE UNCHANGED commands
  BY <1>1 DEF commands, CommandInv, Shape, Kept, Done, Running, Returned
<1>2. CASE Record  BY <1>2 DEF Record, CommandInv, Shape, Kept, Done, Running, Returned
<1>3. CASE UNCHANGED all  BY <1>1, <1>3 DEF all
<1>4. ASSUME NEW q \in Commands, WriteReport(q, "json") \/ WriteReport(q, "sarif") PROVE CommandInv'
  BY <1>4, ReportKeeps DEF Reports
<1> QED
  BY <1>2, <1>3, <1>4, BeginKeeps, RefuseKeeps, ReadKeeps, ComparePathsKeeps, DemoKeeps, TestKeeps,
     AnnounceKeeps, KillKeeps DEF CommandNext

\* README.md's exit codes and reports go together: a command that returns the
\* code of a verdict leaves complete reports of its own and of that verdict,
\* as long as no other command begins; an exception never gives 0 or 3.
THEOREM ReportsCorrect == CommandSpec => []ReportsAreOwn
<1>1. CommandInv => ReportsAreOwn
  <2> SUFFICES ASSUME CommandInv, NEW q \in Commands, latest = q, Returned(q)
               PROVE  /\ cmd[q].code = CodeOf(cmd[q].status)
                      /\ \A o \in cmd[q].wants : out[o] = Content(q, o, TRUE)
    BY DEF ReportsAreOwn
  <2>1. Shape(q) /\ Kept(q)  BY DEF CommandInv
  <2>2. cmd[q].at = "gone"  BY <2>1, NoVerdict, ReturnedIsVerdict DEF Shape
  <2> QED  BY <2>1, <2>2 DEF Shape, Kept, Done
<1> QED  BY <1>1, CommandInitHolds, CommandStepKeeps, PTL DEF CommandSpec
-----------------------------------------------------------------------------
(* The recorders beside commands *)

LEMMA BesideKeeps == ASSUME IInv, [CommandNext]_all PROVE IInv'
<1> USE RecorderAssumption
<1>1. CASE UNCHANGED vars  BY <1>1, StepKeeps
<1>2. CASE Record  BY <1>2, StepKeeps DEF Record
<1>3. CASE OutputFails
  <2>1. /\ faults' \in 0..MaxFaults /\ faults' # 0 /\ file' = file /\ returned' = returned
        /\ state' = state /\ ended' = ended /\ buffer' = buffer /\ tried' = tried /\ met' = met
    BY <1>3 DEF OutputFails, Count, handles, IInv, Typed, RecorderAssumption
  <2> QED
    BY <2>1 DEF IInv, Typed, Exclusive, Admitted, TearIsFinal, Agreed, Closed, MayGoOn, OfSession, Past
<1>4. ASSUME NEW q \in Commands,
             \/ Begin(q) \/ RefuseInput(q) \/ ReadTrace(q) \/ RunDemo(q) \/ RunTest(q)
             \/ ComparePaths(q) \/ WriteReport(q, "json") \/ WriteReport(q, "sarif") \/ Announce(q) \/ Kill(q)
      PROVE  UNCHANGED vars \/ OutputFails
  BY <1>4 DEF Begin, RefuseInput, ReadTrace, RunDemo, RunTest, ComparePaths, WriteReport, Announce, Kill,
     Complain, Die
<1> QED  BY <1>1, <1>2, <1>3, <1>4 DEF CommandNext, all

\* The recorders keep their promises while commands read and write, and
\* outputs fail.
THEOREM RecordingStands ==
    CommandSpec => [](TypeOK /\ TearIsFinal /\ OneSession /\ EndIsLastUnlessFault)
<1>1. CommandInit => IInv  BY InitHolds, RecorderAssumption DEF CommandInit
<1> QED  BY <1>1, BesideKeeps, Implied, PTL DEF CommandSpec
-----------------------------------------------------------------------------
(* What checks have judged, while the trace is recorded *)

\* What was judged is where the lines begin, and of a PASS, the whole of them.
JudgedInv ==
    /\ about \subseteq Commands
    /\ \A q \in about :
          /\ cmd[q].at \notin {"idle", "input"}
          /\ cmd[q].judged \in Seq(Line) /\ Begins(cmd[q].judged, Lines)
PassedInv ==
    faults = 0 /\ ~met =>
        \A q \in about : cmd[q].status = "PASS" => Lines = cmd[q].judged /\ Over

\* A step that changes no file, no judgement and no status of a check.
LEMMA AsideKeeps ==
    ASSUME JudgedInv, PassedInv, file' = file, met' = met, faults' = 0 => faults = 0,
           about' = about,
           \A q \in about : /\ cmd'[q].judged = cmd[q].judged /\ cmd'[q].status = cmd[q].status
                            /\ cmd'[q].at \notin {"idle", "input"}
    PROVE  JudgedInv' /\ PassedInv'
<1>1. Lines' = Lines /\ (Over' <=> Over)
  BY DEF Lines, Over
<1> QED  BY <1>1 DEF JudgedInv, PassedInv

\* A recorder begins the file afresh or leaves what is there, and no fault is
\* forgotten.
LEMMA FileGrows ==
    ASSUME IInv, Next, ~\E r \in Recorders : OpenAfresh(r)
    PROVE  /\ \E d \in Seq(AnyChunk) : file' = file \o d
           /\ faults' = 0 => faults = 0
           /\ ~met' => ~met
<1> USE RecorderAssumption
<1>1. PICK r \in Recorders :
        \/ Check(r) \/ OpenToAppend(r)
        \/ Write(r) \/ End(r) \/ Close(r) \/ Exit(r) \/ Crash(r)
  BY DEF Next
<1>2. file \o <<>> = file /\ <<>> \in Seq(AnyChunk)
  BY ConcatEmptySeq, EmptySeq DEF IInv, Typed
<1>3. CASE Check(r) \/ OpenToAppend(r)
  <2>1. file' = file /\ faults' = faults /\ (~met' => ~met)
    <3>1. CASE Check(r)  BY <3>1 DEF Check
    <3>2. CASE OpenToAppend(r)  BY <3>2 DEF OpenToAppend
    <3> QED  BY <1>3, <3>1, <3>2
  <2>2. file' = file \o <<>>
    BY <1>2, <2>1
  <2> QED  BY <1>2, <2>1, <2>2
<1>4. CASE Write(r) \/ End(r) \/ Close(r) \/ Exit(r) \/ Crash(r)
  <2>1. PICK d \in Seq(Own(r)) : Extends(r, d)
    BY <1>4, OpenExtends
  <2>2. d \in Seq(AnyChunk) /\ file' = file \o d /\ met' = met
    BY <2>1, OwnIsChunk, Widen DEF Extends
  <2>3. ASSUME faults' = 0 PROVE faults = 0
    <3>1. CASE Write(r)  BY <2>3, <3>1, NoFault DEF Write, IInv
    <3>2. CASE End(r)  BY <2>3, <3>2, NoFault DEF End, IInv
    <3>3. CASE Close(r)  BY <2>3, <3>3, NoFault DEF Close, Shut, IInv
    <3>4. CASE Exit(r) /\ ~Close(r)  BY <2>3, <3>4, NoFault DEF Exit, Shut, IInv
    <3>5. CASE Crash(r)  BY <2>3, <3>5 DEF Crash
    <3> QED  BY <1>4, <3>1, <3>2, <3>3, <3>4, <3>5
  <2> QED  BY <2>2, <2>3
<1> QED  BY <1>1, <1>3, <1>4

\* After a complete end, what a recorder adds begins no line.
LEMMA OverIsLast ==
    ASSUME IInv, NEW d \in Seq(AnyChunk), file' = file \o d, Over, EndIsLast'
    PROVE  Over' /\ Lines' = Lines
<1>1. file \in Seq(AnyChunk)
  BY DEF IInv, Typed
<1>2. /\ Len(file) \in Nat /\ Len(d) \in Nat /\ file' \in Seq(AnyChunk)
      /\ Len(file') = Len(file) + Len(d)
      /\ DOMAIN file = 1..Len(file) /\ DOMAIN file' = 1..Len(file')
      /\ \A k \in 1..Len(file) : file'[k] = file[k]
      /\ \A k \in (Len(file) + 1)..(Len(file) + Len(d)) : file'[k] = d[k - Len(file)]
  BY <1>1, LenProperties, ConcatProperties
<1>3. PICK j \in 1..Len(file) : file[j].line.end /\ file[j].part = 2
  BY <1>2 DEF Over
<1>4. j \in DOMAIN file' /\ file'[j].line.end /\ file'[j].part = 2
  BY <1>2, <1>3
<1>5. ASSUME NEW k \in 1..Len(d), IsHead(d[k]) PROVE FALSE
  <2>1. /\ Len(file) + k \in (Len(file) + 1)..(Len(file) + Len(d))
        /\ (Len(file) + k) - Len(file) = k /\ Len(file) + k \in DOMAIN file'
    BY <1>2
  <2>2. file'[Len(file) + k] = d[(Len(file) + k) - Len(file)]
    BY <1>2, <2>1
  <2>3. file'[Len(file) + k].part = 1
    BY <1>5, <2>1, <2>2 DEF IsHead
  <2>4. Len(file) + k < j
    BY <1>4, <2>1, <2>3 DEF EndIsLast
  <2> QED  BY <1>2, <2>4
<1>6. LinesOf(file \o d) = LinesOf(file)
  BY <1>1, <1>5, LinesExtend
<1> QED  BY <1>4, <1>6 DEF Over, Lines

LEMMA RecordKeeps ==
    ASSUME IInv, IInv', JudgedInv, PassedInv, Record
    PROVE  JudgedInv' /\ PassedInv'
<1>1. CASE \E r \in Recorders : OpenAfresh(r)
  <2>1. about' = {}
    BY <1>1 DEF Record
  <2> QED  BY <2>1 DEF JudgedInv, PassedInv
<1>2. CASE ~\E r \in Recorders : OpenAfresh(r)
  <2>1. about' = about /\ cmd' = cmd
    BY <1>2 DEF Record
  <2>2. PICK d \in Seq(AnyChunk) : file' = file \o d
    BY <1>2, FileGrows DEF Record
  <2>3. (faults' = 0 => faults = 0) /\ (~met' => ~met)
    BY <1>2, FileGrows DEF Record
  <2>4. Begins(Lines, Lines') /\ Lines \in Seq(Line) /\ Lines' \in Seq(Line)
    BY <2>2, LinesExtend, LinesPlaced DEF Lines, IInv, Typed
  <2>5. ASSUME NEW s \in Seq(Line), Begins(s, Lines) PROVE Begins(s, Lines')
    <3>1. Len(s) \in Nat /\ Len(Lines) \in Nat /\ Len(Lines') \in Nat
      BY <2>4, LenProperties
    <3> QED  BY <2>4, <2>5, <3>1 DEF Begins
  <2>6. JudgedInv'
    BY <2>1, <2>5 DEF JudgedInv
  <2>7. ASSUME faults' = 0, ~met', NEW q \in about, cmd[q].status = "PASS"
        PROVE  Lines' = cmd[q].judged /\ Over'
    <3>1. Lines = cmd[q].judged /\ Over
      BY <2>3, <2>7 DEF PassedInv
    <3>2. EndIsLast'
      BY <2>7 DEF IInv, Closed
    <3> QED  BY <2>2, <3>1, <3>2, OverIsLast
  <2>8. PassedInv'
    BY <2>1, <2>7 DEF PassedInv
  <2> QED  BY <2>6, <2>8
<1> QED  BY <1>1, <1>2

\* A line that the reader returns is complete up to its newline.
LEMMA ReadEndIsOver ==
    ASSUME Typed, Readable, NEW i \in 1..Len(Lines), Lines[i].end
    PROVE  Over
<1>1. PICK p : Placed(p, Lines, file, Len(file))
  BY LinesPlaced DEF Typed, Lines
<1>2. /\ Len(file) \in Nat /\ DOMAIN file = 1..Len(file)
      /\ p[i] \in 1..Len(file) /\ file[p[i]].part = 1 /\ file[p[i]].line.end
  BY <1>1, LenProperties DEF Placed, IsHead, Typed
<1>3. file # <<>> /\ p[i] # Len(file)
  BY <1>2 DEF Readable, Parses, Last
<1>4. p[i] + 1 \in DOMAIN file /\ (p[i] + 1) - 1 = p[i] /\ p[i] + 1 # 1
  BY <1>2, <1>3
<1>5. \/ file[p[i] + 1].part = 1 /\ file[p[i]].part = 3
      \/ file[p[i] + 1].part = 2 /\ file[p[i]] = Chunk(file[p[i] + 1].line, 1)
      \/ file[p[i] + 1].part = 3 /\ (file[p[i]].part = 3 \/ file[p[i]].part = 2)
  BY <1>4 DEF Readable, Parses, Starts
<1>6. file[p[i] + 1].part = 2 /\ file[p[i]].line = file[p[i] + 1].line
  BY <1>2, <1>5 DEF Chunk
<1> QED  BY <1>2, <1>4, <1>6 DEF Over

LEMMA PassSawTheEnd ==
    ASSUME NEW ls, "PASS" \in Verdicts(ls)
    PROVE  \E i \in 1..Len(ls) : ls[i].end
<1>1. FirstEnd(ls) # 0
  BY DEF Verdicts
<1> QED  BY <1>1 DEF FirstEnd, SelectInSeq

\* An output that fails leaves the recording alone.
LEMMA FailureApart ==
    ASSUME IInv, UNCHANGED vars \/ OutputFails
    PROVE  file' = file /\ met' = met /\ (faults' = 0 => faults = 0)
<1>1. OutputFails => faults' # 0
  BY DEF OutputFails, Count, IInv, Typed, RecorderAssumption
<1> QED  BY <1>1 DEF vars, OutputFails

\* The trace that is read is the one that is judged.
LEMMA ReadJudges ==
    ASSUME IInv, CommandInv, JudgedInv, PassedInv, NEW q \in Commands, ReadTrace(q)
    PROVE  JudgedInv' /\ PassedInv'
<1>1. /\ cmd[q].at = "input" /\ file' = file /\ met' = met /\ (faults' = 0 => faults = 0)
      /\ Lines' = Lines /\ (Over' <=> Over) /\ q \notin about
  <2>1. UNCHANGED vars \/ OutputFails  BY DEF ReadTrace, Complain
  <2> QED  BY <2>1, FailureApart DEF ReadTrace, JudgedInv, Lines, Over
<1>2. CASE ~Readable
  <2>1. about' = about /\ \A p \in about : cmd'[p] = cmd[p]
    BY <1>1, <1>2 DEF ReadTrace, Complain, Leave, Die, CommandInv, JudgedInv
  <2> QED  BY <1>1, <2>1, AsideKeeps DEF JudgedInv
<1>3. CASE Readable
  <2>1. PICK v \in Verdicts(Lines) : Judged(q, Lines, v)
    BY <1>3 DEF ReadTrace
  <2>2. about' = about \cup {q}
    BY <1>3 DEF ReadTrace
  <2> DEFINE c == [cmd[q] EXCEPT !.judged = Lines, !.status = v]
  <2>3. c.judged = Lines /\ c.status = v /\ DOMAIN c = Fields
    BY DEF CommandInv, Shape, Fields
  <2>4. PICK at \in {"paths", "json", "sarif", "print"} : cmd' = [cmd EXCEPT ![q] = [c EXCEPT !.at = at]]
    BY <2>1, OnwardIsStep DEF Judged, GoTo
  <2> HIDE DEF c
  <2>5. cmd'[q].judged = Lines /\ cmd'[q].status = v /\ cmd'[q].at = at
    <3>1. cmd'[q] = [c EXCEPT !.at = at]  BY <2>4 DEF CommandInv
    <3> QED  BY <2>3, <3>1 DEF Fields
  <2>6. \A p \in about : cmd'[p] = cmd[p]
    BY <1>1, <2>4 DEF JudgedInv, CommandInv
  <2>7. Lines \in Seq(Line) /\ Begins(Lines, Lines)
    <3>1. Lines \in Seq(Line) /\ Len(Lines) \in Nat
      BY LinesPlaced, LenProperties DEF Lines, IInv, Typed
    <3> QED  BY <3>1 DEF Begins
  <2>8. JudgedInv'
    BY <1>1, <2>2, <2>4, <2>5, <2>6, <2>7 DEF JudgedInv
  <2>9. v = "PASS" => Over
    BY <1>3, <2>1, PassSawTheEnd, ReadEndIsOver DEF IInv
  <2>10. PassedInv'
    BY <1>1, <2>2, <2>5, <2>6, <2>9 DEF PassedInv
  <2> QED  BY <2>8, <2>10
<1> QED  BY <1>2, <1>3

LEMMA CommandKeepsJudged ==
    ASSUME IInv, CommandInv, JudgedInv, PassedInv, NEW q \in Commands,
           \/ Begin(q) \/ RefuseInput(q) \/ RunDemo(q) \/ RunTest(q)
           \/ ComparePaths(q) \/ WriteReport(q, "json") \/ WriteReport(q, "sarif") \/ Announce(q) \/ Kill(q)
    PROVE  JudgedInv' /\ PassedInv'
<1>1. file' = file /\ met' = met /\ (faults' = 0 => faults = 0) /\ about' = about
  <2>1. UNCHANGED vars \/ OutputFails
    BY DEF Begin, RefuseInput, RunDemo, RunTest, ComparePaths, WriteReport, Announce, Kill, Complain
  <2>2. about' = about
    BY DEF Begin, RefuseInput, RunDemo, RunTest, ComparePaths, WriteReport, Announce, Kill
  <2> QED  BY <2>1, <2>2, FailureApart
<1>2. \A p \in about : p \in Commands /\ cmd[p].at \notin {"idle", "input"}
  BY DEF JudgedInv
<1>3. \/ \E c, at : GoTo(q, c, at)
      \/ \E n : Leave(q, n)
      \/ Die(q)
  BY DEF Begin, RefuseInput, RunDemo, RunTest, ComparePaths, WriteReport, Announce, Kill, Complain, Judged
<1>4. \A p \in Commands \ {q} : cmd'[p] = cmd[p]
  BY <1>3 DEF GoTo, Leave, Die, CommandInv
<1>5. CASE cmd[q].at \in {"idle", "input"}
  <2>1. \A p \in about : cmd'[p] = cmd[p]
    BY <1>2, <1>4, <1>5
  <2> QED  BY <1>1, <1>2, <2>1, AsideKeeps
<1>6. CASE cmd[q].at \notin {"idle", "input"}
  <2>1. \/ ComparePaths(q) \/ WriteReport(q, "json") \/ WriteReport(q, "sarif")
        \/ Announce(q) \/ Kill(q)
    BY <1>6 DEF Begin, RefuseInput, RunDemo, RunTest
  <2>2. \/ \E n : Leave(q, n)
        \/ Die(q)
        \/ \E at \in {"json", "sarif", "print"} : GoTo(q, cmd[q], at)
    BY <2>1, OnwardIsStep DEF ComparePaths, WriteReport, Announce, Kill, Complain
  <2>3. DOMAIN cmd[q] = Fields
    BY DEF CommandInv, Shape
  <2>4. /\ cmd'[q].judged = cmd[q].judged /\ cmd'[q].status = cmd[q].status
        /\ cmd'[q].at \notin {"idle", "input"}
    <3> DEFINE Stays == /\ cmd'[q].judged = cmd[q].judged /\ cmd'[q].status = cmd[q].status
                        /\ cmd'[q].at \notin {"idle", "input"}
    <3>1. ASSUME NEW n, Leave(q, n) PROVE Stays
      <4>1. cmd'[q] = [cmd[q] EXCEPT !.at = "gone", !.code = n]
        BY <3>1 DEF Leave, CommandInv
      <4> QED  BY <2>3, <4>1 DEF Fields
    <3>2. ASSUME NEW n, cmd' = [cmd EXCEPT ![q].at = "gone", ![q].code = n, ![q].raised = TRUE]
          PROVE  Stays
      <4>1. cmd'[q] = [cmd[q] EXCEPT !.at = "gone", !.code = n, !.raised = TRUE]
        BY <3>2 DEF CommandInv
      <4> QED  BY <2>3, <4>1 DEF Fields
    <3>3. ASSUME NEW at \in {"json", "sarif", "print"}, GoTo(q, cmd[q], at) PROVE Stays
      <4>1. cmd'[q] = [cmd[q] EXCEPT !.at = at]
        BY <3>3 DEF GoTo, CommandInv
      <4> QED  BY <2>3, <4>1 DEF Fields
    <3> QED  BY <2>2, <3>1, <3>2, <3>3 DEF Die
  <2>5. \A p \in about : /\ cmd'[p].judged = cmd[p].judged /\ cmd'[p].status = cmd[p].status
                         /\ cmd'[p].at \notin {"idle", "input"}
    BY <1>2, <1>4, <2>4
  <2> QED  BY <1>1, <2>5, AsideKeeps
<1> QED  BY <1>5, <1>6

LEMMA NextJudged ==
    ASSUME IInv, IInv', CommandInv, JudgedInv, PassedInv, [CommandNext]_all
    PROVE  JudgedInv' /\ PassedInv'
<1>1. CASE UNCHANGED all
  <2>1. file' = file /\ met' = met /\ faults' = faults /\ about' = about /\ cmd' = cmd
    BY <1>1 DEF all, vars, commands
  <2> QED  BY <2>1, AsideKeeps DEF JudgedInv
<1>2. CASE Record  BY <1>2, RecordKeeps
<1>3. ASSUME NEW q \in Commands, ReadTrace(q) PROVE JudgedInv' /\ PassedInv'
  BY <1>3, ReadJudges
<1>4. ASSUME NEW q \in Commands,
             \/ Begin(q) \/ RefuseInput(q) \/ RunDemo(q) \/ RunTest(q)
             \/ ComparePaths(q) \/ WriteReport(q, "json") \/ WriteReport(q, "sarif") \/ Announce(q) \/ Kill(q)
      PROVE  JudgedInv' /\ PassedInv'
  BY <1>4, CommandKeepsJudged
<1> QED  BY <1>1, <1>2, <1>3, <1>4 DEF CommandNext

LEMMA BesideOnce ==
    ASSUME IInv, Once, InOrder, [CommandNext]_all
    PROVE  Once' /\ InOrder'
<1>1. CASE UNCHANGED vars  BY <1>1, OnceStep
<1>2. CASE Record  BY <1>2, OnceStep DEF Record
<1>3. CASE OutputFails
  <2>1. UNCHANGED <<file, buffer, tried, state, returned>>
    BY <1>3 DEF OutputFails, handles
  <2> QED  BY <2>1 DEF Once, InOrder, Tried
<1>4. ASSUME NEW q \in Commands,
             \/ Begin(q) \/ RefuseInput(q) \/ ReadTrace(q) \/ RunDemo(q) \/ RunTest(q)
             \/ ComparePaths(q) \/ WriteReport(q, "json") \/ WriteReport(q, "sarif") \/ Announce(q) \/ Kill(q)
      PROVE  UNCHANGED vars \/ OutputFails
  BY <1>4 DEF Begin, RefuseInput, ReadTrace, RunDemo, RunTest, ComparePaths, WriteReport, Announce, Kill,
     Complain, Die
<1> QED  BY <1>1, <1>2, <1>3, <1>4 DEF CommandNext, all

LEMMA JudgedAtFirst == CommandInit => JudgedInv /\ PassedInv
BY DEF CommandInit, JudgedInv, PassedInv

LEMMA AllStands ==
    CommandSpec => [](IInv /\ Once /\ InOrder /\ CommandInv /\ JudgedInv /\ PassedInv)
<1>1. CommandInit => IInv /\ Once /\ InOrder
  BY InitHolds, OnceInit, RecorderAssumption DEF CommandInit
<1> QED
  BY <1>1, CommandInitHolds, JudgedAtFirst, BesideKeeps, BesideOnce, CommandStepKeeps, NextJudged,
     PTL DEF CommandSpec

\* The trace holds what was recorded whatever commands read it or fail.
THEOREM ReturnedStands == CommandSpec => []ReturnedIsRecorded
<1>1. IInv /\ Once /\ InOrder => ReturnedIsRecorded
  BY OnceIsRecorded DEF IInv
<1> QED  BY <1>1, AllStands, PTL

\* What a check has judged (cmd_check) stays the beginning of the trace, until
\* a recording begins afresh.
THEOREM JudgementsStay == CommandSpec => []JudgedStays
<1>1. ASSUME NEW s \in Seq(Line), NEW t \in Seq(Line), Begins(s, t)
      PROVE  IsPrefix(s, t)
  <2>1. Len(s) \in Nat /\ Len(t) \in Nat /\ Len(s) <= Len(t)
    BY <1>1, LenProperties DEF Begins
  <2>2. SubSeq(s, 1, Len(s)) = s /\ SubSeq(t, 1, Len(s)) \in Seq(Line)
    BY <2>1, SubSeqFull, Cut
  <2>3. /\ Len(SubSeq(t, 1, Len(s))) = Len(s)
        /\ \A k \in 1..Len(s) : SubSeq(t, 1, Len(s))[k] = t[k]
    BY <2>1, Cut
  <2>4. SubSeq(t, 1, Len(s)) = s
    BY <1>1, <2>2, <2>3, SeqEqual DEF Begins
  <2> QED  BY <2>1, <2>2, <2>4 DEF IsPrefix
<1>2. IInv /\ JudgedInv => JudgedStays
  <2>1. IInv => Lines \in Seq(Line)
    BY LinesPlaced DEF Lines, IInv, Typed
  <2> QED  BY <1>1, <2>1 DEF JudgedInv, JudgedStays
<1> QED  BY <1>2, AllStands, PTL

\* A PASS of check is about the whole recording: without a failing flush and
\* without overlap nothing is left out, and nothing is added later.
THEOREM PassesStand == CommandSpec => []PassStands
<1>1. IInv /\ Once /\ InOrder /\ JudgedInv /\ PassedInv => PassStands
  <2>1. SUFFICES ASSUME IInv, Once, InOrder, JudgedInv, PassedInv, faults = 0, ~met,
                        NEW q \in about, cmd[q].status = "PASS"
                 PROVE  Lines = cmd[q].judged /\ ToSet(returned) \subseteq ToSet(cmd[q].judged)
    BY DEF PassStands
  <2>2. Lines = cmd[q].judged
    BY <2>1 DEF PassedInv
  <2>3. \A j \in 1..Len(returned) : \E k \in 1..Len(Lines) : Lines[k] = returned[j]
    BY <2>1, OnceIsRecorded DEF IInv
  <2>4. DOMAIN returned = 1..Len(returned) /\ DOMAIN Lines = 1..Len(Lines)
    BY <2>1, LinesPlaced, LenProperties DEF Lines, IInv, Typed
  <2>5. ToSet(returned) \subseteq ToSet(Lines)
    BY <2>3, <2>4 DEF ToSet
  <2> QED  BY <2>2, <2>5
<1> QED  BY <1>1, AllStands, PTL
=============================================================================
