---------------------------- MODULE CommandLine ----------------------------
(***************************************************************************)
(* The commands that give a verdict (check, demo, test), one after the     *)
(* other, while the trace that check reads is being recorded: reading the  *)
(* input, the evaluation, the JSON report and then the SARIF report, the   *)
(* text on standard output and the exit code, with inputs that are         *)
(* refused, outputs and error messages that cannot be written, exceptions  *)
(* that no clause catches and commands that are killed.                    *)
(***************************************************************************)
EXTENDS Recorder, Integers

CONSTANTS
    Commands,   \* the invocations, each at most once
    Nobody,
    Requests    \* the outputs that an invocation may be asked for

Outputs == {"trace", "json", "sarif"}
ASSUME CommandAssumption ==
    /\ Nobody \notin Commands
    /\ Requests \subseteq SUBSET Outputs

Killed == -1
Unfinished == -2
VerdictCodes == {0, 1, 3}

VARIABLES
    cmd,        \* of each invocation: arguments, progress, verdict, exit code
    out,        \* what is in the files that reports are written to
    latest,     \* the invocation that began last
    about       \* the checks that read the recording as it is continued now
commands == <<cmd, out, latest, about>>
all == <<vars, commands>>

\* An output fails, and with it perhaps the message that says so (both on a
\* full disk): the recorders are not concerned.
OutputFails == Count(TRUE) /\ UNCHANGED <<file, handles, returned, met>>

NotBegun == [kind |-> "none", wants |-> {}, paths |-> "two", at |-> "idle", judged |-> <<>>,
             status |-> "NONE", code |-> Unfinished, raised |-> FALSE]
Nothing == [by |-> Nobody, as |-> "none", whole |-> FALSE]

CommandInit ==
    /\ Init
    /\ cmd = [q \in Commands |-> NotBegun]
    /\ out = [o \in Outputs |-> Nothing]
    /\ latest = Nobody /\ about = {}

Running(q) == cmd[q].at \notin {"idle", "gone"}
GoTo(q, c, at) == cmd' = [cmd EXCEPT ![q] = [c EXCEPT !.at = at]]
Leave(q, n) == cmd' = [cmd EXCEPT ![q].at = "gone", ![q].code = n]

\* An exception that no clause catches ends Python with 1, or with 120 when
\* the flush at the exit fails as well.
Die(q) == \E n \in {1, 120} :
    cmd' = [cmd EXCEPT ![q].at = "gone", ![q].code = n, ![q].raised = TRUE]

\* An error message and exit code 2.  Nothing catches the exception of a
\* print to a standard error that cannot be written.
Complain(q) ==
    \/ Leave(q, 2) /\ UNCHANGED vars
    \/ Die(q) /\ OutputFails

\* main parses the arguments; a demo alone can write its trace.  The paths of
\* two reports may be one path, or one that resolve raises at.
Paths == {"two", "same", "unresolved"}
Begin(q) ==
    /\ cmd[q].at = "idle" /\ \A p \in Commands : ~Running(p)
    /\ \E kind \in {"check", "demo", "test"}, wants \in Requests, paths \in Paths :
          /\ "trace" \in wants => kind = "demo"
          /\ paths # "two" => {"json", "sarif"} \subseteq wants
          /\ GoTo(q, [NotBegun EXCEPT !.kind = kind, !.wants = wants, !.paths = paths], "input")
    /\ latest' = q
    /\ UNCHANGED <<vars, out, about>>

\* The policy is unreadable or not valid, or the adapter raises.  A policy
\* nested too deeply raises RecursionError, which is not caught.
RefuseInput(q) ==
    /\ cmd[q].at = "input"
    /\ \/ Complain(q)
       \/ cmd[q].kind \in {"check", "demo"} /\ Die(q) /\ UNCHANGED vars
    /\ UNCHANGED <<out, latest, about>>

\* The verdicts that evaluate_events may come to, by what else the lines say.
FirstEnd(ls) == SelectInSeq(ls, LAMBDA line : line.end)
Statuses == {"PASS", "FAIL", "INCOMPLETE"}
Verdicts_IgnoreEnd(ls) == Statuses
Verdicts(ls) ==
    IF FirstEnd(ls) = 0 THEN {"FAIL", "INCOMPLETE"}
    ELSE IF FirstEnd(ls) < Len(ls) THEN {"FAIL"}
    ELSE Statuses

\* The step after the comparison of the paths or after a report.
Onward(c, done) ==
    IF "json" \in c.wants \ done THEN "json"
    ELSE IF "sarif" \in c.wants \ done THEN "sarif" ELSE "print"

\* evaluate_events has come to v.
Judged(q, ls, v) ==
    LET c == [cmd[q] EXCEPT !.judged = ls, !.status = v]
    IN  GoTo(q, c, IF {"json", "sarif"} \subseteq c.wants THEN "paths" ELSE Onward(c, {}))

\* cmd_check: read_jsonl_with_digest takes the lines up to the end of the
\* file, as it is when that end is met, and raises at the first bad one.
ReadTrace(q) ==
    /\ cmd[q].at = "input" /\ cmd[q].kind = "check"
    /\ IF Readable
       THEN /\ \E v \in Verdicts(Lines) : Judged(q, Lines, v)
            /\ about' = about \cup {q} /\ UNCHANGED vars
       ELSE Complain(q) /\ UNCHANGED about
    /\ UNCHANGED <<out, latest>>

\* The first test of _write_machine_outputs.  resolve raises OSError, which is
\* caught, or, in some versions of Python and at a loop of symbolic links,
\* RuntimeError, which is not.
ComparePaths(q) ==
    /\ cmd[q].at = "paths"
    /\ \/ cmd[q].paths = "two" /\ GoTo(q, cmd[q], Onward(cmd[q], {})) /\ UNCHANGED vars
       \/ cmd[q].paths \in {"same", "unresolved"} /\ Complain(q)
       \/ cmd[q].paths = "unresolved" /\ Die(q) /\ UNCHANGED vars
    /\ UNCHANGED <<out, latest, about>>

\* The file that an output goes to: with --json and --sarif naming the same
\* path, there is only one.
FileOf(c, o) == IF o = "sarif" /\ c.paths = "same" THEN "json" ELSE o
Content(q, o, whole) == [by |-> q, as |-> o, whole |-> whole]

\* write_text truncates the file and writes it.  A failing open leaves the
\* file as it was, and a failing write a part of the text.
Put(q, o) == out' = [out EXCEPT ![FileOf(cmd[q], o)] = Content(q, o, TRUE)]
Spoil(q, o) ==
    \/ UNCHANGED out
    \/ out' = [out EXCEPT ![FileOf(cmd[q], o)] = Content(q, o, FALSE)]

\* cmd_demo: its events are fixed, and written before they are evaluated.
RunDemo(q) ==
    /\ cmd[q].at = "input" /\ cmd[q].kind = "demo"
    /\ \/ /\ IF "trace" \in cmd[q].wants THEN Put(q, "trace") ELSE UNCHANGED out
          /\ \E v \in Statuses : Judged(q, <<>>, v)
          /\ UNCHANGED vars
       \/ /\ "trace" \in cmd[q].wants /\ Spoil(q, "trace")
          /\ Leave(q, 2) \/ Die(q)
          /\ OutputFails
    /\ UNCHANGED <<latest, about>>

\* cmd_test: the adapter's result.
RunTest(q) ==
    /\ cmd[q].at = "input" /\ cmd[q].kind = "test"
    /\ \E v \in Statuses : Judged(q, <<>>, v)
    /\ UNCHANGED <<vars, out, latest, about>>

WriteReport_Anyway(q, o) ==
    /\ cmd[q].at = o
    /\ GoTo(q, cmd[q], Onward(cmd[q], {"json", o}))
    /\ \/ Put(q, o) /\ UNCHANGED vars
       \/ Spoil(q, o) /\ OutputFails
    /\ UNCHANGED <<latest, about>>

\* write_json_report and write_sarif; after a failing one there is no other.
WriteReport(q, o) ==
    /\ cmd[q].at = o
    /\ \/ Put(q, o) /\ GoTo(q, cmd[q], Onward(cmd[q], {"json", o})) /\ UNCHANGED vars
       \/ Spoil(q, o) /\ (Leave(q, 2) \/ Die(q)) /\ OutputFails
    /\ UNCHANGED <<latest, about>>

CodeOf(status) == CASE status = "PASS" -> 0 [] status = "FAIL" -> 1 [] status = "INCOMPLETE" -> 3

\* print(render_text(report)) and _status_code.  Standard output may fail, in
\* print or in the flush at the exit.
Announce(q) ==
    /\ cmd[q].at = "print"
    /\ \/ Leave(q, CodeOf(cmd[q].status)) /\ UNCHANGED vars
       \/ Die(q) /\ OutputFails
    /\ UNCHANGED <<out, latest, about>>

\* The command is killed, perhaps while it writes.
Kill(q) ==
    /\ Running(q)
    /\ Leave(q, Killed)
    /\ \/ UNCHANGED out
       \/ cmd[q].at \in cmd[q].wants /\ Spoil(q, cmd[q].at)
       \/ cmd[q].at = "input" /\ "trace" \in cmd[q].wants /\ Spoil(q, "trace")
    /\ UNCHANGED <<vars, latest, about>>

\* A recording made afresh is another one than was checked.
Record ==
    /\ Next
    /\ about' = IF \E r \in Recorders : OpenAfresh(r) THEN {} ELSE about
    /\ UNCHANGED <<cmd, out, latest>>

CommandNext ==
    \/ Record
    \/ \E q \in Commands :
          \/ Begin(q) \/ RefuseInput(q) \/ ReadTrace(q) \/ RunDemo(q) \/ RunTest(q)
          \/ ComparePaths(q) \/ WriteReport(q, "json") \/ WriteReport(q, "sarif")
          \/ Announce(q) \/ Kill(q)

CommandSpec == CommandInit /\ [][CommandNext]_all

\* A PASS of check is about the whole recording: without a failing flush and
\* without recorders that overlap, no event was left out that a recorder had
\* reported as recorded, and none is added later.
PassStands ==
    faults = 0 /\ ~met =>
        \A q \in about : cmd[q].status = "PASS" =>
            Lines = cmd[q].judged /\ ToSet(returned) \subseteq ToSet(cmd[q].judged)

\* What a check has judged is never taken back: as long as the trace can be
\* read, it begins with those very lines, whatever was torn, buffered, failed
\* or appended by overlapping recorders in between.
JudgedStays ==
    \A q \in about : Readable => IsPrefix(cmd[q].judged, Lines)

\* An exit code that a command returns for its verdict comes with complete
\* reports of that invocation and verdict in the files that were asked for,
\* until another one begins to write: reports of two invocations side by side,
\* a truncated one or a stale one are the mark of code 2, of a killed command,
\* or of an exception, whose code 1 is also that of FAIL.  Codes 0 and 3 are
\* never those of an exception.
Returned(q) == cmd[q].code \in {0, 3} \/ (cmd[q].code = 1 /\ ~cmd[q].raised)
ReportsAreOwn ==
    \A q \in Commands :
        latest = q /\ Returned(q) =>
            /\ cmd[q].code = CodeOf(cmd[q].status)
            /\ \A o \in cmd[q].wants : out[o] = Content(q, o, TRUE)

\* README.md: "Exit codes are 0 for PASS, 1 for FAIL, 2 for invalid
\* input/output, and 3 for INCOMPLETE."
ExitCodeIsVerdict ==
    \A q \in Commands :
        cmd[q].status \in Statuses /\ cmd[q].code \in VerdictCodes => cmd[q].code = CodeOf(cmd[q].status)
=============================================================================
