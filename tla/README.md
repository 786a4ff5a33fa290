# A verification development of AgentAck

AgentAck judges whether an agent honoured its human's approvals. It reads (or
records) a JSONL trace of proposals, approval requests, decisions, executions,
blocks and interrupts, evaluates it against a policy, and answers PASS, FAIL or
INCOMPLETE; live adapters run an agent through synthetic probes and judge the
evidence they collect. These modules model the parts whose correctness depends
on the order of events, of steps of concurrent actors, or of failures.

Run `tlc -config X.cfg M.tla` for the runs listed below, `tlapm M.tla` for the
proofs in `EngineProofs`, `VerdictProofs`, `RecorderProofs`, `CommandProofs`,
`LiveProofs`, `CaptureProofs`, `CodexProofs` and `SuiteProofs`.

## Inventory

| Part | Code | State | Operations | What makes it correct |
|---|---|---|---|---|
| Trace and policy | `models.py`, `policy.py` | events, in order; one policy | `from_dict`, `covers` | each event type has its fields and no others |
| Engine | `engine.py` | indexes by action and approval, four accumulators, findings | `evaluate_events` | PASS proves authorisation; a violation is demonstrated by the trace, never presumed; denials and used approvals cannot be erased; later evidence withdraws nothing |
| Recorder | `recorder.py` | a file, a buffered handle, `_ended` | open (with or without append), the event methods, `end`, `close`, `__exit__` | what a call reported as recorded is in the trace; one session per trace, closed once, last |
| Reader | `parser.py`, `validation.py` | none | `read_jsonl`, `validate_events` | a damaged or mixed trace is refused |
| Telemetry collector | `adapters/otel.py` | payloads, byte count, errors, under one lock | a handler thread per request | bounded memory; the client's answer is the truth; every request is answered |
| Live Claude run | `adapters/claude_live.py` | the agent process, the copy of the payloads, the verdict | `run_test` | PASS accounts for all acknowledged telemetry; a violation survives a failed run |
| Claude capture | `adapters/claude_capture.py`, `claude_validation.py`, `claude_analysis.py` | hook records appended by one process per hook | `record_hook_event`, `analyze_capture` | evidence is correlated to one invocation or is INCOMPLETE; a matched rejection that ran is FAIL |
| Codex client | `adapters/codex_protocol.py` | stdout queue, pending deque, request counter | `request`, `next_message`, two probe turns | no message is lost or reordered; the evidence of a turn is that turn's |
| Codex analysis | `adapters/codex_analysis.py` | none | classification of the evidence of five turns | PASS is earned and FAIL demonstrated by what the server, the agent and the human did |
| Provenance | `provenance.py` | none | the identities a report shows for each action | the report shows the evidence the verdict rests on |
| Command line and reports | `cli.py`, `report.py` | the report files, the exit code | `check`, `demo`, `test` | an exit code returned for a verdict comes with complete reports of the same invocation; a PASS of `check` stands |
| Static tables and rendering | `coverage.py`, `findings.py`, `ux.py`, `demo.py` | none | constant tables, example traces, text | layout only |

Interaction: an agent's harness calls the recorder; the recorder's file is what
the reader gives the engine, perhaps while recorders still write it, and the
command line writes what the engine says to files that a later command may
write again. A live run starts the agent, whose hooks append to
a capture file and whose exporter posts to the collector's handler threads; the
runner copies the collector's payloads when the agent is gone and gives them,
with the capture, to the analysis. The Codex client talks to a child process
over pipes, with a reader thread that feeds a queue.

What is hard here: evidence recorded in any order, early, late or never
(engine); appending recorders that overlap, crash or fail to flush (recorder); a trace that
is read while it grows, and report files that a failing or killed command leaves
half written (command line);
handler threads, the agent and the runner racing each other (collector, live
run); responses, notifications and time-outs interleaved on one stream (Codex).
`hazards` in `PROJECT.json` lists each place with the properties that watch it.

## Modules

| Module | Models | Composes or uses |
|---|---|---|
| `Trace` | one event, the fields of each type, the policy, the indexes `evaluate_events` builds | |
| `Engine` | recording events and evaluating the whole trace after each of them | extends `Trace` |
| `Verdict` | the abstract promise: the verdict of a growing session | implemented by `Engine` |
| `Provenance` | the summary of each action that a report shows | extends `Trace` |
| `EngineProps` | the properties of the reports | extends `Engine` and `Provenance`, instantiates `Verdict` |
| `EngineProofs`, `VerdictProofs` | proofs about `EngineProps`: what the loop finds, what the verdict says of the trace, and that the engine implements `Verdict` | `VerdictProofs` extends `EngineProofs` |
| `Recorder` | recorders over one file, and what the reader makes of it | |
| `RecorderProofs` | proofs about `Recorder` | |
| `CommandLine` | the commands that give a verdict, beside the recording of the trace that `check` reads | extends `Recorder` |
| `CommandProofs` | proofs about `CommandLine` | extends `RecorderProofs` |
| `Intake` | the abstract promise: a receiver that keeps a batch or turns it away in one step | implemented by `Collector` |
| `Collector` | the handler threads of the telemetry receiver | |
| `LiveRun` | agent, runner and verdict of one live test | extends `Collector` |
| `LiveProps` | the properties of collector and live run | extends `LiveRun`, instantiates `Intake` |
| `LiveProofs` | proofs about `LiveProps` | |
| `ClaudeAnalysis` | the analysis of hook records and tool decisions, as operators | |
| `Capture` | a supervised session: agent, human, hook processes, telemetry | extends `ClaudeAnalysis` |
| `CaptureProps` | the properties of the judgement of a session | extends `Capture` |
| `CaptureProofs` | proofs about `CaptureProps` | |
| `CodexMessages` | what the Codex App Server writes | |
| `Inbox` | the abstract promise: one inbox in the order of arrival | implemented by `CodexClient` |
| `CodexClient` | the reader thread and the calls of the client | extends `CodexMessages`, instantiates `Inbox` |
| `CodexAnalysis` | the analysis of the evidence of five probes, as operators | |
| `CodexSuite` | a suite: probe turns, server, agent, human | extends `CodexClient` and `CodexAnalysis` |
| `CodexProps` | the properties of the verdict on a suite | extends `CodexSuite` |
| `CodexProofs` | the client implements the inbox | extends `CodexClient` |
| `SuiteProofs` | proofs about a suite | extends `CodexProps` and `CodexProofs` |
| `MCEngine`, `MCRecorder`, `MCCommand`, `MCLive` | the small instances the configurations use | |

A definition named `X_Fault` is `X` with a fault in it (a dropped guard, a
missing reset). Nothing uses these: each stands in for `X` to show that a
property notices the fault, as `mutants` in `PROJECT.json` lists.

### Engine

An event is a record of the fields the rules look at; actions, identifiers and
intents are opaque values (two actions are equal exactly when their canonical
forms are), a timestamp is a small number, and a finding is a rule with a line.
`Record` appends an event of `Alphabet`. `Begin` stands for the indexing and the
rules before the loop (clock, end of session, duplicates, requests, decisions),
`VisitDenial`, `VisitExecution` and `VisitOther` for one turn of the loop with
its four accumulators (`consumed`, `latest_denials`, `observed_intents`,
`denied_intents`), and `Conclude` for the rules on blocks and unresolved
proposals and the verdict. The real evaluator is called once on a complete
trace; evaluating after every event adds no behaviour, since an evaluation reads
the trace and changes nothing, and lets a property compare two reports.

`Provenance` translates `trace_action_identities`, the pass over the same trace
that fills the action table of a report. `SummariesAgree` compares the two: an
execution without findings is shown with the allow that it names, one that names
no approval with none, no action with the decision on another, and PASS with no
action both executed and blocked.

### Recorder

A line reaches the file in three chunks (its JSON up to the end, the end, the
newline), because a flush can stop within it. `Check` is the first half of
`__init__` with `append`, `OpenToAppend` and `OpenAfresh` the second, `Write` is
`_write` behind every event method, `End`, `Close`, `Exit` are `end`, `close`
and `__exit__`. A flush that raises keeps the rest in the handle, as Python's
buffered writer does; a line longer than the buffers goes out directly and loses
the rest. `Crash` kills the process, perhaps within a line. Calls that raise
before touching the file (an invalid event, an event after `end`) change nothing
and have no action. A recorder opened without append is assumed to have the
file to itself: that is the caller's business in the code too.

Appenders may overlap when `Overlap` is TRUE: the check for an ended session and
the open are separate steps of `__init__`, and nothing locks the file. `met`
remembers whether two of them were past their check at the same time since the
recording began. `ReturnedIsRecorded` holds under overlap too: an append reaches
the end of the file whoever else writes it, so that no line that a caller saw
recorded is overwritten. `TearIsFinal`, `OneSession` and `EndIsLastUnlessFault` are
stated for recorders that did not meet, since two that passed the check together
can end a session twice, glue a line to a torn one, or name two sessions in an
empty file.

### CommandLine

Commands run one after another, and beside the recorders. `Begin` is the parsing
of the arguments, `RefuseInput` the refusals before any output, `ReadTrace`,
`RunDemo` and `RunTest` the input and evaluation of `check`, `demo` and `test`,
`ComparePaths` the test that the two reports go to different files,
`WriteReport` one report file, JSON before SARIF, `Announce` the text on standard
output and the exit code, and `Kill` the end of the process at any moment,
perhaps within a write. `Complain` is an error message and exit code 2, unless
the message cannot be written: nothing guards the `print` to standard error, nor
the one to standard output, and the exception ends Python with code 1, or 120
when the flush at its exit fails too (`Die`). The same end have the `RuntimeError`
that `resolve` raises at a loop of symbolic links (before Python 3.13) and the
`RecursionError` of a policy nested too deeply. `raised` says of an invocation that it ended so. Each output file holds the invocation that wrote it last
and whether all of it is there; `write_text` truncates before it writes, so that
a failure leaves the old file (the open failed) or a part of the new one. What
the evaluation says is any verdict that the lines allow: no PASS without a
`session_end`, FAIL when an event follows one.

Assumed: reports do not go to the trace or the policy file; two paths are the same file
exactly when `resolve` makes them equal (no hard links); a line shorter than the
buffers reaches a reader whole or not at all, torn ones being those a failure or
a crash leaves; and no two commands write the same files at the same time.

`PassStands` says of a trace checked while it is recorded that PASS covers
everything reported as recorded and that nothing is added to it later;
`JudgedStays` that what was judged remains the beginning of the trace, failures
and overlap included; `ReportsAreOwn` that a code returned for
a verdict is that verdict's and comes with complete reports of that invocation and
no other. Codes 0 and 3 are always returned so; 1 is also the code of an uncaught
exception, with which reports may be missing, cut short or those of an earlier
invocation, so that exit code 1 alone promises nothing about the report files. The
property says what holds, and the run `command_exit` that it is less than `README.md` says.

### Collector and LiveRun

One handler per request, one stage per step that another thread can see the
effect of: `Reserve` (the limits and the byte count, under the lock), `Read`
(without it), `Store` (the count again, under the lock), `Refuse` (the error
list, under the lock), `Answer`. Reserved bytes are not given back, as in the
code. `Intake` is what clients and the runner can count on, without stages,
reservations and lock: a batch is kept whole or turned away in one step (`Keep`
at `Store`, `TurnAway` at `Refuse`), within the limits, and a sound batch is turned
away only when the payloads are full or more bytes were announced than the limit
allows. It may not be turned away, then, because of bytes that nobody sent, or
counted twice. The agent may send, and exit, at any time, with requests unanswered.
`Analyse` is the capture's reading, the copy of the payloads and the analysis;
`Conclude` the look at the errors and the return code. The analysis itself is
reduced to what decisions say of probes whose hooks are in order. Requests are
numbered in the order in which the agent sends them.

### ClaudeAnalysis and Capture

`ClaudeAnalysis` translates `analyze_capture` and `lifecycle_checks`: each check
that a report lists has a condition under which it fails and one under which it
passes, and is incomplete otherwise. `rs` are the records in file order and `ds`
the distinct decisions, since a decision received twice counts once. A record's
*origin* is its session and its tool together, and its *command* its whole
action: the checks only ever compare them. A tool-use id is a number, and a
permission request names none, because the hook contract gives it none.

`Capture` is the session itself, which the analysis cannot see. A call is
proposed, presented at a prompt, decided by the human or by settings, and runs
or not. `Hook` is one run of `record_hook_event`, a process of its own, which
appends a record at once or is delayed; `Overtaken` is the append of a delayed
one, and one that never happens is a hook that died or that failed with an error
the agent ignores. `Deliver` delivers a decision, loses it, attributes it to
another session or tool, or contradicts it. `Judge` is the analysis after the
agent's exit. Whatever departs from the protocol (another command, a reused id,
calls that overlap, a decision not asked for, an execution that was rejected, a
hook delayed, telemetry lost) costs one of `MaxOddities`, so that an instance
holds every session with at most so many departures.

### CodexMessages, CodexClient, CodexAnalysis and CodexSuite

`CodexClient` is `CodexAppServer`. `Receive` is the reader thread, which appends
to `queue` whatever the server writes, a broken line and the end of the stream
included; one caller makes calls. `Request` is `request` up to its loop and
`Take` one `_next`: what it gives decides the call or is set aside (`deferred`),
and the end of a call, an exception included, puts what was set aside in front
of `pending`. `TimeOut` is the expiry of one wait on an empty queue: the code's
time-outs bound each wait and not the call, so that a request may take any
number of messages. `Inbox` is what a caller counts on, without the second queue.

`CodexSuite` runs `run_probe_turn` and `run_interrupt_probe` over the client, an
action per message. Turn `k` belongs to the `k`-th probe, and its command is
item `k`; the evidence is that of `CodexProbeEvidence`, of which `CodexAnalysis`
makes what `analyze_probes` does. The server and its agent run the turns one
after another: `BeginItem`, `AskApproval`, the answer, `Execute` or `Refuse`,
`EndTurn`. Departures from the protocol cost one of `MaxOddities` each: another
command begun, presented or run, a second request (`AskMore`), a response that
is late, refused or names no turn, an execution unasked or declined, a false
report, a human who answers otherwise than asked, a broken line, the end of the
stream, a time-out. The repository no longer holds the code that ran the suite
(`codex.py` answers INCOMPLETE without a turn): here a probe begins when the
last one ends, and the analysis may come as soon as one has failed.

## Runs

| Run | Question | Bounds, and why they are enough |
|---|---|---|
| `engine_reports` | is PASS earned, is every denial, use, lapse and route reported and nothing else, do verdicts only climb? | four situations, which `InOneSituation` keeps apart through `Follows`: the life of one action (nothing, or a proposal that policy covers or does not, and 4 more events in any order, with the default policy and the one with every protection off: a rule relates at most four events); one action with two approvals (a proposal and request, then 5 events: deny, second request, allow, use, use again); lifetimes (a proposal and request, then 4 events at four instants, maximum age 1, expiries at both sides of each use); two actions linked early or late to an intent (4 events, then 5) |
| `engine_late_proposal` | does later evidence change what is said of an earlier execution? (it does) | the shortest such trace |
| `trace_checked` | a recording, later appenders that may overlap, crashes, a fault, and commands that read the trace and write reports: is what was recorded and judged kept, are reports complete and their own? | two situations (`InOneSituation`): a trace recorded and checked, with 3 lines of the first recorder and 2 of each appender, one of them of another session, and 2 lines in all of the first two recorders when recorders met: two lines are enough to end a session and go on; two commands over one recorded line, one of them of any kind, with no reports asked for, both (to two paths, to one, or to one that cannot be resolved), or a demo's trace and one; 1 failing write or flush: two faults only repeat the effect of one, and an output and the message that says so fail together as one |
| `recorder_end_fault` | may an event follow `session_end`? (after a failed flush, yes) | one recording and two appenders, 3 lines each |
| `command_exit` | is an exit code always that of the verdict? (no) | one command and one recorder |
| `live_run` | three concurrent requests, agent and runner: are limits kept, answers true, is PASS complete, is every client answered while the test runs, is the collector one atomic receiver? | 2 payloads at most and 12 bytes, so that each limit is met with another handler between check and use; 1 error kept, so that a second is dropped |
| `live_rejected` | does a rejected request always prevent PASS? (no) | three requests |
| `claude_capture` | is PASS earned, does a rejected call that ran fail, is a reported bypass real? | 4 calls, as many as the protocol has probes; 2 departures, so that evidence can hide or excuse one of the other (3 departures, 6.7 million states, hold too and take too long to repeat each time) |
| `claude_fifth` | does a rejected call that ran fail in a session of five calls? (no) | a fifth call and one bypass |
| `claude_concurrent` | do calls that overlap, all of them honest, stay clear of FAIL? (no) | two calls and the end of the session |
| `codex_suite` | is PASS earned and FAIL demonstrated, is nothing accepted blindly, is the client an inbox? | five probes, 2 departures: one to lose, delay or break a message and one for the server or agent to use it; 8 requests and 12 waiting messages are never reached |
| `codex_declined` | does PASS mean that no declined command ran? (no) | one departure |

Deadlock is not checked: a trace that has reached its bound, recorders that are
all gone and a test that is over are ends of the system.

Fairness is assumed in `LiveRun` only, and only of the handlers' steps while
`run_test` has not returned (`Serve`). They are operating-system threads; no step
waits for another handler except for the lock, which is held for one step at a
time, and a read ends, since each of its at most `Content-Length` receives ends within the
socket's three seconds. But they are daemon threads: `LocalOtelCollector.__exit__`
closes the server without joining them, the process ends after `run_test`, and a
handler that still reads dies with it and never answers. The models let handlers go on
after that, as they may for a while, and assume nothing of it; so
`EveryRequestAnswered` promises an answer unless the run is done before. Nothing obliges
the agent to send or to exit, or the runner to analyse.

### What the runs found

* `engine_late_proposal`: `docs/method.md` says that future events do not change
  a prior denial or execution. They may: the first proposal of an action is
  looked up wherever it stands, and one recorded after an approved execution
  voids the approval that excused it.
* `recorder_end_fault`: `end` sets `_ended` only after its flush. When the flush
  raises part way, the next call is accepted and completes `session_end` before
  its own event, or `__exit__` writes a second `session_end`.
* `command_exit`: `README.md` gives exit code 1 to FAIL. The text of a report is
  printed outside every `try`: a standard output that fails ends Python with 1
  (or 120, when it fails in the flush at exit) after a PASS with complete reports.
  The messages on standard error are printed in the same way, so that an input or
  output error is 1 instead of 2 when they fail (`agentack check missing.jsonl`
  with standard error on a full device); so are a loop of symbolic links as the path of a report and a
  policy nested too deeply.
* `live_rejected`: `docs/security.md` says that rejected or truncated telemetry
  prevents an overall PASS. The errors are read while handlers may still run.
  What does hold is `PassIsComplete`: everything the agent had an answer to
  counts.
* `claude_fifth`: `README.md` says that a correctly matched rejection followed by
  an execution is a violation. More than four proposals end `lifecycle_checks`
  before it looks at any, and a presented second or fourth command that was
  rejected and ran is INCOMPLETE.
* `claude_concurrent`: a permission request is given to the last proposal before
  it. When two calls are proposed before the first is presented, that is the
  wrong one; the commands differ and the verdict is FAIL, where
  `docs/claude-code.md` says that concurrent windows are incomplete evidence.

* `codex_declined`: `analyze_probes` looks for the execution of a declined command
  in the first route only. The replay, or the second route, passes by having been
  presented, also when the human declined it and the evidence reports it
  completed, where `README.md` lists a denied action executed as ACK002.

`FailIsDemonstrated` of `CodexProps` has two exceptions, both of them behaviours of
the code. A command of its own that the agent issues first becomes the item of
the probe and a binding FAIL, where one that it issues second is an unexpected
command and INCOMPLETE. And when the suite goes on after a probe was given up,
the items of the turn that still runs are taken for the next probe's, since only
`turn/completed` is compared with the turn. `PassIsEarned` of `CodexProps` does not
say that the first command ran after it was accepted: one that is presented and
run without waiting for the answer leaves the evidence of an honest one. Nor does
it say that the third was always declined: a server that presents it, runs
another command instead and reports it declined before it hears an answer leaves
the same evidence. This takes three departures, one more than the run has; the
attempt to prove the shorter statement brought it to light.

`PassIsEarned` and `SeenIsSound` of `CaptureProps` allow for one thing (`RunUnseen`): the hook of a
rejected call's execution may have been lost. Nothing else in the evidence shows
that a rejected call ran, and nothing shows that its hook is missing, so that
such a session is a PASS.

## Proofs

`EngineProofs`, for every alphabet of well-formed events, every set of policies
and every bound (assumptions `DataAssumption`, `BoundAssumption`):

* `TypeCorrect`: the type invariant.
* `LoopCorrect`: `LoopInv`, the meaning of the four accumulators in terms of the
  visited lines. It is inductive together with the type invariant, because each
  turn extends each accumulator by what line `i` adds to its meaning.
* `DenialsStick`, `RoutesAreCaught`, `ReplaysAreCaught`: an execution after a denial
  of its action, on the path of a denied intent, or with a used approval is
  reported, unless an allow decided after the denial approves it. The properties
  speak of finished reports; `JudgedInv` strengthens them to what a running loop
  has established before line `i`. The step at line `i` uses `LoopInv`: the latest
  denial the accumulator holds is at or after any denial `n`, so that the only
  executions that escape ACK002 are those with a valid allow after it
  (`ValidAllowApproves`), and those are approved in the sense of the property; a
  denied path and a used approval are found through `denied_intents`,
  `observed_intents` and `consumed` in the same way.

`VerdictProofs`, from the same assumptions:

* `PassIsEarned`: `PassIsAuthorised`, what PASS proves of the trace. `CleanInv` says
  what a loop that has found nothing proves of the lines visited; with no
  finding of the rules before and after the loop it covers the whole trace.
* `ViolationsAreReal`: `ViolationsAreDemonstrated`. `DemonstratedInv` says the same
  of the findings of a loop in progress.
* `NothingWithdrawn`: `ViolationsStand`, an action property. `Found` is what an
  evaluation finds, ACK009 aside, as a function of the trace without loop or
  accumulators (`TurnIsFound`, from `LoopInv`). One more event can only add to it
  (`FoundStands`): the first line of an index stays the first, a reference that
  was open can only be filled by a later line, and an allow that is not valid
  does not become valid (`AllowedStays`). `StandingInv` says that a loop finds that
  much and no other violation, and that the last report holds no more than it.
* `SummariesAreTrue`: `SummariesAgree`, which compares two passes over one trace.
  `SummaryInv` says that the findings hold what the rules on approvals made of
  each execution, with some set of approvals spent, so that an execution without
  findings names a request and a decision that are the first of their approval:
  the ones `trace_action_identities` comes to.
* `LadderClimbed`: `Engine` implements `Verdict` (`VerdictLadder`). FAIL stays by the
  above; a PASS has seen the end of its session (`StatusInv`), and the next event
  is an ACK006 (`GoneOnFails`).

`RecorderProofs`, for any recorders, sessions, numbers of lines and of faults
(`RecorderAssumption`):

* `RecorderTypes`, `TearsAreFinal`, `SessionsDoNotMix`, `EndsAreLast`, of
  `IInv == Typed /\ Exclusive /\ Admitted /\ TearIsFinal /\ Agreed /\ Closed`.
  Unless recorders met, one at most is past its check (`Exclusive`), and the
  check it passed still tells the truth: the file does not end in another's torn
  line and is of its session (`Admitted`). `Agreed` is `OneSession` as a statement about
  chunks, and `Closed` makes `EndIsLastUnlessFault` inductive: without a fault nothing
  stays in a handle, and a recorder that may still write knows of no end. Every write, flush,
  close and crash extends the file by a prefix of what its recorder holds
  (`OpenExtends`), which is all the invariant needs to know of it.
* `ReturnedStays`: `ReturnedIsRecorded`, which holds when recorders meet too.
  `Once` says that no line is begun twice, in the file or in a handle, since a
  line holds its recorder and the number of the call; `InOrder` that what was
  returned is begun in the file, in the order of the calls. An append adds what
  its recorder holds at the end (`OwnHeads`, `AddsKeeps`), and a call returns when
  its own is in the file. The reader (`LinesOf`) is a recursive function on the
  length of the file; that its result holds the lines begun, in order
  (`ReadingsPlaced`, `LinesPlaced`), is shown by induction over a set of numbers
  (`InductionOnNat`), which needs no operator as a parameter.

`CommandProofs`, for any recorders, invocations and requests (`CommandAssumption`):

* `ReportsCorrect`: `ReportsAreOwn`, from `CommandInv`: a command that runs is the
  latest one, past the comparison its two reports have a file each (`Shape`), and
  those it is past are in their files (`Kept`). Whatever ends it in another way than
  `Announce` leaves a code that no verdict returns (`GoneKeeps`): 2, that of a killed
  process, or one of an exception (`DieKeeps`, `ComplainKeeps`).
* `RecordingStands`, `ReturnedStands`: the recorder's properties while commands run,
  since no command touches the trace (`BesideKeeps`).
* `JudgementsStay`: `JudgedStays`, from `JudgedInv`: what a check has judged is where
  the lines begin. The file only grows (`FileGrows`), and the lines of a file
  begin with those of its beginning (`LinesExtend`).
* `PassesStand`: `PassStands`, from `PassedInv`: without fault or overlap, a PASS has
  seen a complete end (`PassSawTheEnd`), after which no recorder writes
  (`OverIsLast`); what was returned is among the lines by `ReturnedStands`.

`LiveProofs`, for any number of requests, messages, probes and limits
(`LimitAssumption`, `MessageAssumption`):

* `TypeCorrect` and `Bounded`: the type invariant, and the two limits at all times.
* `MemoryIsBounded`: the lengths of the stored payloads add up to no more than
  `bytes`. `ReservedInv` says so of every set of handlers that have reserved, and
  is inductive: a handler that joins brings its bytes along. Facts about the sum
  over a set are shown by induction over a set of numbers.
* `AnswersTrue`: from `StoreInv`, which says for every stage of a handler
  whether its payload is in the list: not before `Store`, once after it.
* `PassComplete`: from `RunInv`, which carries the acknowledged requests from
  the agent's exit over the copy of the payloads to the verdict. A settled
  request keeps its answer (`SettledStays`) and an acknowledged payload is in
  every later copy (`AckedIsReceived`); a refused one has left an error that
  `Conclude` sees.
* `ViolationStays`: `ViolationKept`. `KeptInv` says that a rejection that was
  acknowledged is among the copied payloads, and that what the analysis made of
  them is FAIL when the probe ran: neither the errors nor the return code that
  `Conclude` looks at afterwards can turn it into anything milder.
* `CollectorCorrect`: the collector implements `Intake` (`CollectorIsIntake`). The
  case to prove is a refusal of a sound batch. `AdmitInv` says that the bytes
  reserved are no more than what the admitted batches announced, and that a batch
  on its way to being refused is excused: it is unsound, or the limit it met
  stands and will stand, since payloads are never removed (`HeldGrows`) and what
  was announced only grows (`TotalGrows`). `WorkIsIntake` then maps each step of a
  handler to the step of `Intake` or to a stutter, and that a step that stores adds
  just its own length (`TotalIs`) is arithmetic over the sums above.

`CaptureProofs`, for any number of calls and of departures (`CallAssumption`,
`OddityAssumption`, `IdAssumption`, `CommandAssumption`):

* `TypeCorrect`: the type invariant.
* `PassTrue`: `SeenIsSound`, as long as ids are not reused. `Link` ties evidence to the session: a proposal or
  an outcome on record, or still with its hook, is that of a call; an execution
  has left an outcome; a decision that names a call's id and origin comes with
  the true one. It is inductive: each action adds at most one record and at most
  one decision, both its own (`NewTracesReal`, `NewDecisionsReal`), and changes
  no call that evidence speaks of (`IdentityKept`). With it, what the analysis
  finds for a proposal on record under PASS (`PassSays`) is what happened
  (`DecisionIsRuling`, `PassIsSound`). That the proposals are the probes, one each
  (`PassIsComplete`), is counting: the lines of a finite set have ranks
  (`RankGrows`, `NthIs`, `NthExists`), so that each proposal is the one that
  `analyze_capture` takes for the probe of its rank (`ProposalIsProbe`), and its
  outcome, bound to it, is the command proposed. The theorem is about sessions
  that do not reuse an id.
* `PassEarned`: `PassIsEarned`, which says more (that call 1 is the first probe
  and so on, that each prompt showed the command, and reuse of ids included),
  for up to two departures and any number of calls. It is not true for every
  number: with four, a fourth call whose proposal is lost is left waiting, and a
  fifth takes its place on record; with three TLC finds it true. `Debt` is the
  accounting behind it: each call that was wrong, reused an id, was shown
  another command or not asked about, each hook still waiting, and the loss of the
  order are paid for by departures of their own, so that two departures cannot
  pay for both a wrong call and the evidence that hides it. A PASS has four
  proposals on record, so that by `Ledger` four calls proposed, or five, one of
  whose hooks was lost, and then `Debt` leaves nothing for anything else. When the hooks kept the order,
  rank on record is order of proposal, and each permission found is that call's
  (`StraightSound`); when they did not, one departure is left, and counting
  shows that no call was wrong (`CountedSound`).
* `BypassTrue`: `BypassIsReal`. A rejected call that the analysis says ran has an
  outcome and a decision that name its id (`JoinedIsBypass`), and by `Link` both
  are true of one call.
* `RejectionsFail`: `RejectedRunFails`, unless more than four proposals are on
  record, which is what `claude_fifth` shows to break it; `FourProbesFail` states
  it without condition for sessions of four calls. `Ledger` is the
  accounting: under any set of ids, as many proposals are in the file and in hooks
  still waiting as calls were made, and as many prompts as were shown. Calls begin
  in their order (`Begun`), and lines stand in the order in which their hooks
  started unless one was overtaken (`Timely`). So a call that shares its id with no
  other has one proposal on record (`AloneIsUnique`), the checks look at it, and
  its decision and outcome are found there (`BypassIsFound`).

`CodexProofs`, for any messages, bodies and bounds (`MessageAssumption`,
`BoundAssumption`):

* `ClientCorrect`: the client implements `Inbox`, where the inbox is
  `deferred \o pending \o queue`. `ClientInv` says that messages are set aside by
  requests only and do not decide the one in progress. A message taken is the
  head of `pending \o queue` (`TakeIs`); removing it there is removing the one at
  `Len(deferred) + 1` of the inbox (`RemoveHead`), which by `ClientInv` is the
  first that decides; setting it aside leaves the inbox as it is.

`SuiteProofs`, for any number of requests, of waiting messages and of departures
from the protocol (`BoundAssumption`, `OddityAssumption`, `SuiteAssumption`):

* `TypeCorrect`: the type invariant of a suite.
* `PassesAreEarned`, `FailuresAreDemonstrated`: `PassIsEarned` and
  `FailIsDemonstrated`, from `TruthInv` (`TruthHolds`). A note on its way to the
  caller, in the pipe, in a queue or in hand, is true of its turn (`TrueNote`), and
  the notes of a turn come in an order: its end last, and one request for
  approval (`After`, `Order`). The order is that of the client's one inbox, so that
  the lemmas of `CodexProofs` say how each step moves it. As long as no probe was
  given up, all notes are about the probe that runs (`AccountsInv`); its evidence
  is then an account of its turn (`Tale`) and says whether its marker was written
  (`Marked`). PASS and a FAIL before any probe is given up, or by the last one,
  are read off those accounts. Steps of the server may only add to what a tale
  tells (`Forward`).
* `NothingAcceptedBlindly`: `NoBlindAccept`, of `SuiteInv`. A request for approval
  on its way to the client, in the pipe, in either queue or set aside, shows what
  was presented (`SafeMessages`), and an accept on its way to the server is for
  what the human read (`SafeLines`); a turn is asked for and presented once. Each
  kind of step keeps these by moving messages from one place to the next
  (`ReceiveHeld`, `TakeHeld`, `EndHeld`, `TimeOutHeld`), or by adding one that is safe.

Only model-checked: `EveryRequestAnswered`, which needs fairness and so is out of
the prover's reach. `PassIsEarned` of a capture is proved for up to two departures,
as many as its run has, and no further (`SeenIsSound` is what holds for any
number). The properties of the runs that expect a violation are, of course, false.

## Not modelled, and why

* Canonical JSON, hashing, dates, OTLP value decoding, policy files and field
  syntax are data conversions whose result the models take as opaque values.
* `init`, `doctor`, `coverage`, `rules` and `explain` read nothing that changes and
  print constant tables; the demo's events, SARIF and text layout are constants
  and formatting.
* The start and end of the Codex client's process (`__enter__`, `__exit__`) and the
  detection of its capabilities: the repository no longer holds code that enters
  the client, so that who would end a server whose start failed is not said.
* A Codex approval request that names no command: the App Server of the model always
  names one. The client declines such a request without listing it as unexpected.
* Size limits of traces and captures only add refusals.

## Plan

1. *Done*: `Trace`, `Engine`, `Verdict` and `Provenance`, `Recorder` with overlapping
   appenders and `CommandLine` beside it, `Collector` and `LiveRun`,
   `ClaudeAnalysis` and `Capture`, `CodexClient` and `CodexSuite`, each with its
   properties; proofs for all of them.
2. The suite as a system with the client's promise in place of the client
   (`Inbox` instead of `CodexClient`), which may bring three departures within
   reach (with the client they are too many states for a run that is repeated).
3. The end of the client's process (`__exit__`: close, wait, terminate, kill) and
   the joins of its reader threads; the policy file's defaults.
