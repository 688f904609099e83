------------------------------- MODULE Replay -------------------------------
(***************************************************************************)
(* Time-travel replay from end to end: a program runs and is recorded      *)
(* (FrameWalk), the stop model is derived from the record stream           *)
(* (StopModel), and a session moves over it (ReplayCursor).  Records keep  *)
(* the true activation stack they were written in, so that properties can  *)
(* compare what the debugger does with what the program did.               *)
(***************************************************************************)
EXTENDS FrameWalk, StopModel, ReplayCursor

CONSTANTS
    Source,     \* per source line: its role and whether it is workspace code
    Requests    \* what clients set breakpoints on: [lines, addrs]

SourceAssumption == Source \in [DOMAIN Source -> [role : Roles, workspace : BOOLEAN]]
RequestsAssumption == \A q \in Requests : q.lines \subseteq Nat
ASSUME SourceAssumption /\ RequestsAssumption

VARIABLES
    trace,      \* the records, with the true stack each was written in
    runs,       \* the state of computeRunStarts' loop: [runs, starts]
    request     \* the breakpoints of the session

replayVars == <<vars, cursorVars, trace, runs, request>>

NoRequest == [lines |-> {}, addrs |-> {}]

RInit ==
    /\ Init
    /\ CursorInit
    /\ trace = <<>>
    /\ runs = [runs |-> <<>>, starts |-> <<>>]
    /\ request = NoRequest

\* The stop model's view of the record that is being written: its validated
\* position, the line the mapper gives it, and `frame?.depth ?? 0`.
NewRecord ==
    [pos   |-> IF rec'.vis THEN <<rec'.fn, rec'.off>> ELSE NoPos,
     line  |-> IF rec'.vis THEN prog.body[rec'.fn][rec'.off].line ELSE NoLine,
     depth |-> IF walk'.stack = <<>> THEN 0 ELSE Len(walk'.stack) - 1,
     stack |-> seen']

Execute ==
    /\ ~Loaded
    /\ Next
    /\ IF count' = count
       THEN UNCHANGED <<trace, runs>>
       ELSE /\ trace' = Append(trace, NewRecord)
            /\ runs' = RunStep(runs, count', NewRecord)
    /\ UNCHANGED <<cursorVars, request>>

\* launchRequest: load the trace of a run that ended, or trapped anywhere.
Load ==
    /\ count > 0
    /\ \E justMyCode \in BOOLEAN :
        stops' = BuildStopModel(trace, runs.starts, Source, justMyCode)
    /\ Attach
    /\ request' \in Requests
    /\ UNCHANGED <<vars, trace, runs>>

\* resolveBreakpoint of the source mapper: the first executed line at or after
\* the requested one.
ExecutedLines == {trace[i].line : i \in DOMAIN trace} \ {NoLine}
ResolvedLines == {Min({l \in ExecutedLines : l >= want}) :
                    want \in {w \in request.lines : \E l \in ExecutedLines : l >= w}}

\* Variant: every record of a line instead of its run starts.
AllRecordsOfLines ==
    {i \in stops.visible : trace[i].line \in ResolvedLines \/ trace[i].pos \in request.addrs}

\* resolveBreakpoints: the run starts of the resolved lines, and every record at
\* a requested address.
ResolveBreakpoints ==
    {i \in stops.raw : trace[i].line \in ResolvedLines}
        \union {i \in stops.visible : trace[i].pos \in request.addrs}

Move ==
    /\ Loaded
    /\ \/ \E kind \in ForwardSteps, gran \in Granularities : StepForward(kind, gran)
       \/ \E gran \in Granularities : StepBackward(gran)
       \/ RunForward(ResolveBreakpoints)
       \/ RunBackward(ResolveBreakpoints)
    /\ UNCHANGED <<vars, trace, runs, request>>

RNext == Execute \/ Load \/ Move

RSpec == RInit /\ [][RNext]_replayVars

-----------------------------------------------------------------------------
(***************************************************************************)
(* Properties.  `Site(i)` is the call record that created the activation   *)
(* record i belongs to; it identifies the activation.                      *)
(***************************************************************************)
Site(i) == Last(trace[i].stack).site
Mapped(i) == trace[i].line # NoLine
Starts == ToSet(runs.starts)

\* A user sees a new execution of a line when the activation's previous line was
\* another one, or when it executes an instruction of the line again.
IsExecution(i) ==
    LET earlier == {j \in Starts : j < i /\ Site(j) = Site(i)}
        start == Max(earlier)
    IN  /\ Mapped(i)
        /\ \/ earlier = {}
           \/ trace[start].line # trace[i].line
           \/ \E j \in start..(i - 1) :
                Mapped(j) /\ Site(j) = Site(i) /\ trace[j].pos = trace[i].pos

Executions == {i \in DOMAIN trace : IsExecution(i)}

RTypeOK ==
    /\ TypeOK
    /\ Len(trace) = count
    /\ \A i \in DOMAIN trace : trace[i].depth \in Nat
    /\ Starts \subseteq DOMAIN trace
    /\ cursor \in Nat /\ (Loaded => IsStopModel(stops) /\ cursor \in 1..stops.n)
    /\ request \in Requests \union {NoRequest}

\* The runs of computeRunStarts, found by depths, are the executions of lines by
\* the program's activations (docs/stepping.md, Model/run).
RunsMatchActivations == Starts = Executions

\* Line information reaches the calls: an instruction without a line calls `dark`
\* functions only, which have no lines at all.  (A caller's record without a line
\* does not end the runs of the callee before it, see README.)
CallsHaveLines(dark) ==
    /\ dark \subseteq FnNames
    /\ \A p \in Programs : \A f \in DOMAIN p.body : \A k \in DOMAIN p.body[f] :
        LET ins == p.body[f][k]
        IN  /\ f \in dark => ins.line = NoLine
            /\ ins.op = "call" /\ ins.line = NoLine => ins.to \in dark

\* Why RunsMatchActivations holds then: the run kept for a depth is that of the
\* live activation at this depth; it has the line of the activation's last start
\* and the instructions the activation executed since.
RunOf(site, start) ==
    [key |-> trace[start].line,
     offsets |-> {trace[j].pos : j \in {j \in start..count : Mapped(j) /\ Site(j) = site}}]

RunsTracked(dark) ==
    \A k \in DOMAIN acts : acts[k].fn \notin dark =>
        LET begun == {j \in Starts : Site(j) = acts[k].site}
        IN  IF begun = {} THEN k \in DOMAIN runs.runs => runs.runs[k].key = NoLine
            ELSE k \in DOMAIN runs.runs /\ runs.runs[k] = RunOf(acts[k].site, Max(begun))

\* Declaration and brace filtering never empties a frame (docs/stepping.md,
\* S17): an activation that executed a user's statement or signature keeps a
\* stop, so that step in has a target.
FilterKeepsFrames ==
    Loaded => \A i \in stops.raw :
        Source[trace[i].line].role \in {"statement", "signature"} /\ Source[trace[i].line].workspace
        => \E j \in stops.stops : Site(j) = Site(i)

\* The conditions of that: no two calls of a function are on one line, and a function
\* whose signature is workspace code has no code of others inlined into it.
CallsAlone ==
    \A p \in Programs : \A f \in DOMAIN p.body : \A k, m \in DOMAIN p.body[f] :
        LET ins == p.body[f][k]
            other == p.body[f][m]
        IN  ins.op = "call" /\ other.op = "call" /\ ins.line = other.line /\ ins.line # NoLine => k = m

InRole(line, roles) == line # NoLine /\ Source[line].role \in roles

OwnCode ==
    \A p \in Programs : \A f \in DOMAIN p.body : \A k, m \in DOMAIN p.body[f] :
        LET own == p.body[f][k].line
            line == p.body[f][m].line
        IN  InRole(own, {"signature"}) /\ Source[own].workspace /\ InRole(line, {"statement", "brace"})
            => Source[line].workspace

\* Whether record j was written by an activation that record i's one called.
Callee(i, j) == IsStrictPrefix(trace[i].stack, trace[j].stack)

\* Step over never stops in a callee and never skips a stop of its own
\* activation; step out leaves the activation (S5, S7).
StepsFollowActivations ==
    Loaded /\ last.out = "stopped" /\ cursor > last.from /\ stops.visible # {} =>
        /\ last.kind \in {"next", "stepOut"} /\ HasStatementStops(last.gran) =>
            ~Callee(last.from, cursor)
        /\ last.kind = "next" =>
            \A i \in StopPoints(last.gran) :
                last.from < i /\ i < cursor => Site(i) # Site(last.from)
        /\ last.kind = "stepOut" /\ HasStatementStops(last.gran) => Site(cursor) # Site(last.from)

\* continue stops at every execution of a line with a breakpoint, once, and at
\* every execution of an instruction with one (S12, S15).
ContinueStopsPerExecution ==
    Loaded /\ last.kind = "continue" =>
        LET hits == {i \in DOMAIN trace :
                        \/ i \in Executions /\ trace[i].line \in ResolvedLines
                        \/ trace[i].pos # NoPos /\ trace[i].pos \in request.addrs}
            ahead == {i \in hits : i > last.from}
        IN  /\ last.out = "breakpoint" => ahead # {} /\ cursor = Min(ahead)
            /\ last.out = "clamped" => ahead = {}

\* The stop model built from a recording is one the cursor accepts, and the
\* session's moves are the cursor's.
CursorImplemented == CursorSpec

=============================================================================
