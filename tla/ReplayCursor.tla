---------------------------- MODULE ReplayCursor ---------------------------
(***************************************************************************)
(* The replay cursor (src/debugAdapter/replayCursor.ts over TraceModel.ts) *)
(* as the stepping handlers of SorobanDebugSession drive it.  The trace is *)
(* known by its stop model alone: Attach accepts any.                      *)
(***************************************************************************)
EXTENDS Integers, SequencesExt

VARIABLES
    stops,      \* the stop model of the loaded trace, or NoModel
    cursor,     \* the record the session rests on
    last        \* history: the last move [kind, gran, from, out, bps]

cursorVars == <<stops, cursor, last>>

Granularities == {"statement", "instruction"}
ForwardSteps == {"stepIn", "next", "stepOut"}

NoModel == [n |-> 0]
Loaded == stops # NoModel

\* What buildStopModel promises (stopModel.ts): a non-empty trace, each stop set
\* a subset of the one above it, and no filter that empties the trace.
IsStopModel(m) ==
    /\ m.n \in Nat \ {0}
    /\ m.visible \subseteq 1..m.n
    /\ m.depth \in [1..m.n -> Nat]
    /\ m.raw \subseteq m.visible
    /\ m.stops \subseteq m.raw
    /\ m.raw # {} => m.stops # {}

\* Variant: the entry is the first visible record, whatever its line.
FirstVisible(m) == IF m.visible # {} THEN Min(m.visible) ELSE 1

FirstStopPoint(m) ==
    IF m.stops # {} THEN Min(m.stops) ELSE IF m.visible # {} THEN Min(m.visible) ELSE 1

LastStopPoint(m) ==
    IF m.stops # {} THEN Max(m.stops) ELSE IF m.visible # {} THEN Max(m.visible) ELSE m.n

HasStatementStops(gran) == gran = "statement" /\ stops.stops # {}
StopPoints(gran) == IF HasStatementStops(gran) THEN stops.stops ELSE stops.visible

\* The depths a step may rest at: step over stays out of callees, step out
\* leaves the frame.
Depth == stops.depth[cursor]
Within(kind, d) ==
    \/ kind = "stepIn"
    \/ kind = "next" /\ d <= Depth
    \/ kind = "stepOut" /\ d <= Depth - 1

\* Variants: a step without its depth limit; breakpoints on the wrong side of
\* the cursor, or under it.
ForwardPoints(kind, gran) == {i \in StopPoints(gran) : i > cursor}
BackwardPoints(gran) == {i \in StopPoints(gran) : i < cursor}
BreakpointsElsewhere(bps) == bps \ {cursor}
BreakpointsUpToHere(bps) == {i \in bps : i <= cursor}

ForwardTargets(kind, gran) ==
    {i \in StopPoints(gran) : i > cursor /\ Within(kind, stops.depth[i])}
BackwardTargets(gran) ==
    {i \in StopPoints(gran) : i < cursor /\ stops.depth[i] <= Depth}
BreakpointsAhead(bps) == {i \in bps : i > cursor}
BreakpointsBehind(bps) == {i \in bps : i < cursor}

Clamped(points, end) == IF points = {} THEN cursor ELSE end

Seek(i, kind, gran, out, bps) ==
    /\ cursor' = i
    /\ last' = [kind |-> kind, gran |-> gran, from |-> cursor, out |-> out, bps |-> bps]
    /\ UNCHANGED stops

NoMove == [kind |-> "none", gran |-> "none", from |-> 1, out |-> "none", bps |-> {}]

CursorInit == stops = NoModel /\ cursor = 1 /\ last = NoMove

\* launchRequest: build the stop model, then toEntry (S1).
Attach ==
    /\ ~Loaded
    /\ cursor' = FirstStopPoint(stops')
    /\ last' = [NoMove EXCEPT !.kind = "entry", !.from = cursor']

\* nextRequest, stepInRequest and stepOutRequest: stepForward.  A statement step
\* past the last statement ends the session and leaves the cursor alone (S20).
StepForward(kind, gran) ==
    LET targets == ForwardTargets(kind, gran)
        points == StopPoints(gran)
    IN  /\ Loaded
        /\ \/ targets # {} /\ Seek(Min(targets), kind, gran, "stopped", {})
           \/ /\ targets = {} /\ HasStatementStops(gran)
              /\ Seek(cursor, kind, gran, "terminated", {})
           \/ /\ targets = {} /\ ~HasStatementStops(gran)
              /\ Seek(Clamped(points, Max(points)), kind, gran, "stopped", {})

\* stepBackRequest: stepBackward, which clamps to the first stop point.
StepBackward(gran) ==
    LET targets == BackwardTargets(gran)
        points == StopPoints(gran)
    IN  /\ Loaded
        /\ \/ targets # {} /\ Seek(Max(targets), "stepBack", gran, "stopped", {})
           \/ targets = {} /\ Seek(Clamped(points, Min(points)), "stepBack", gran, "stopped", {})

\* continueRequest and reverseContinueRequest: run to the nearest breakpoint, or
\* settle on the trace's last or first stop point (S14).
RunForward(bps) ==
    /\ Loaded
    /\ IF BreakpointsAhead(bps) # {}
       THEN Seek(Min(BreakpointsAhead(bps)), "continue", "none", "breakpoint", bps)
       ELSE Seek(LastStopPoint(stops), "continue", "none", "clamped", bps)

RunBackward(bps) ==
    /\ Loaded
    /\ IF BreakpointsBehind(bps) # {}
       THEN Seek(Max(BreakpointsBehind(bps)), "reverse", "none", "breakpoint", bps)
       ELSE Seek(FirstStopPoint(stops), "reverse", "none", "clamped", bps)

\* resolveBreakpoints returns visible records only: run starts of the requested
\* lines, and the records validated at the requested addresses.  A specification
\* to implement: Attach and the runs name their choice by its outcome.
CursorNext ==
    \/ IsStopModel(stops') /\ Attach
    \/ \E kind \in ForwardSteps, gran \in Granularities : StepForward(kind, gran)
    \/ \E gran \in Granularities : StepBackward(gran)
    \/ /\ Loaded
       /\ last'.bps \subseteq stops.visible
       /\ RunForward(last'.bps) \/ RunBackward(last'.bps)

CursorSpec == CursorInit /\ [][CursorNext]_cursorVars

-----------------------------------------------------------------------------
(***************************************************************************)
(* Properties.                                                             *)
(***************************************************************************)

\* The cursor rests on stop points only (docs/stepping.md, "Stop points"): on a
\* visible record after every move, on a statement stop after a statement step,
\* and on a breakpoint or a statement stop after a run.
RestsOnStop ==
    Loaded /\ stops.visible # {} =>
        /\ cursor \in stops.visible
        /\ stops.stops # {} =>
            /\ last.kind = "entry" => cursor \in stops.stops
            /\ last.gran = "statement" /\ last.out = "stopped" => cursor \in stops.stops
            /\ last.out = "clamped" => cursor \in stops.stops
        /\ last.out = "breakpoint" => cursor \in last.bps

\* Time flows the way that was asked for, but for one case: a `continue` with no
\* breakpoint ahead, from beyond the last statement stop, goes back to it, and a
\* reverse move from before the first one goes forward to it (S3, S14).
DirectionRespected ==
    Loaded =>
        /\ last.kind \in ForwardSteps => cursor >= last.from
        /\ last.kind = "continue" /\ cursor < last.from => last.from > LastStopPoint(stops)
        /\ last.kind \in {"stepBack", "reverse"} /\ cursor > last.from =>
            last.from < FirstStopPoint(stops)

\* Reverse stepping revisits the stops of forward stepping in reverse order (S9):
\* a step over that stayed in its frame is undone by a step back.
StepBackUndoesNext ==
    /\ Loaded /\ last.kind = "next" /\ cursor > last.from
    /\ last.from \in StopPoints(last.gran)
    /\ stops.depth[cursor] = stops.depth[last.from]
    => /\ BackwardTargets(last.gran) # {}
       /\ Max(BackwardTargets(last.gran)) = last.from

\* continue and reverseContinue stop at the same records, in reverse order (S13).
ReverseUndoesContinue ==
    /\ Loaded /\ last.kind = "continue" /\ last.out = "breakpoint"
    /\ last.from \in last.bps
    => /\ BreakpointsBehind(last.bps) # {}
       /\ Max(BreakpointsBehind(last.bps)) = last.from

=============================================================================
