---------------------------- MODULE ReplayProofs ----------------------------
(***************************************************************************)
(* Proofs about the replay cursor for every stop model, traces of any      *)
(* length, any depths and any sets of stops and breakpoints, and then       *)
(* about replay from end to end: what is shown of the cursor and, in        *)
(* FrameWalkProofs, of the walk holds of the composed system, for every     *)
(* program, recording and sequence of moves.                                *)
(***************************************************************************)
EXTENDS Replay, FrameWalkProofs

-----------------------------------------------------------------------------
(***************************************************************************)
(* The cursor.                                                             *)
(***************************************************************************)

Promises == RestsOnStop /\ DirectionRespected /\ StepBackUndoesNext /\ ReverseUndoesContinue

\* The inductive invariant: the stop model is one, and the cursor is in the
\* trace, on a visible record when there is one.
CursorOK ==
    Loaded =>
        /\ IsStopModel(stops)
        /\ cursor \in 1..stops.n
        /\ stops.visible # {} => cursor \in stops.visible

\* What the sets of a stop model have in common.
LEMMA PointsProperties ==
    ASSUME NEW m, IsStopModel(m), NEW T, T \subseteq 1..m.n, T # {}
    PROVE  /\ Min(T) \in T /\ \A y \in T : Min(T) <= y
           /\ Max(T) \in T /\ \A y \in T : y <= Max(T)
<1>1. m.n \in Nat /\ T \subseteq Nat /\ T \subseteq 0..m.n
  BY DEF IsStopModel
<1>2. Min(T) \in T /\ \A y \in T : Min(T) <= y
  BY <1>1, MinIsLeast
<1>3. Max(T) \in T /\ \A y \in T : y <= Max(T)
  BY <1>1, MaxIsLargest
<1> QED BY <1>2, <1>3

\* The first and the last stop point are stop points.
LEMMA EndPoints ==
    ASSUME NEW m, IsStopModel(m)
    PROVE  /\ FirstStopPoint(m) \in 1..m.n /\ LastStopPoint(m) \in 1..m.n
           /\ m.visible # {} => FirstStopPoint(m) \in m.visible /\ LastStopPoint(m) \in m.visible
           /\ m.stops # {} => FirstStopPoint(m) \in m.stops /\ LastStopPoint(m) \in m.stops
<1>1. /\ m.n \in Nat \ {0}
      /\ m.stops \subseteq m.visible /\ m.visible \subseteq 1..m.n /\ m.stops \subseteq 1..m.n
  BY DEF IsStopModel
<1>2. CASE m.stops # {}
  <2>1. Min(m.stops) \in m.stops /\ Max(m.stops) \in m.stops
    BY <1>1, <1>2, PointsProperties
  <2>2. FirstStopPoint(m) = Min(m.stops) /\ LastStopPoint(m) = Max(m.stops)
    BY <1>2 DEF FirstStopPoint, LastStopPoint
  <2> QED BY <1>1, <2>1, <2>2
<1>3. CASE m.stops = {} /\ m.visible # {}
  <2>1. Min(m.visible) \in m.visible /\ Max(m.visible) \in m.visible
    BY <1>1, <1>3, PointsProperties
  <2>2. FirstStopPoint(m) = Min(m.visible) /\ LastStopPoint(m) = Max(m.visible)
    BY <1>3 DEF FirstStopPoint, LastStopPoint
  <2> QED BY <1>1, <1>3, <2>1, <2>2
<1>4. CASE m.stops = {} /\ m.visible = {}
  <2>1. FirstStopPoint(m) = 1 /\ LastStopPoint(m) = m.n
    BY <1>4 DEF FirstStopPoint, LastStopPoint
  <2>2. 1 \in 1..m.n /\ m.n \in 1..m.n
    BY <1>1
  <2> QED BY <1>4, <2>1, <2>2
<1> QED BY <1>2, <1>3, <1>4

\* The stop points of a granularity.
LEMMA StopPointsProperties ==
    ASSUME Loaded, CursorOK, NEW gran
    PROVE  /\ StopPoints(gran) \subseteq stops.visible /\ StopPoints(gran) \subseteq 1..stops.n
           /\ stops.visible # {} => StopPoints(gran) # {}
           /\ HasStatementStops(gran) => StopPoints(gran) = stops.stops
           /\ ~HasStatementStops(gran) => StopPoints(gran) = stops.visible
           /\ gran = "statement" /\ stops.stops # {} => HasStatementStops(gran)
BY DEF CursorOK, IsStopModel, StopPoints, HasStatementStops

\* launchRequest.
LEMMA AttachStep ==
    ASSUME IsStopModel(stops'), Attach
    PROVE  CursorOK' /\ Promises'
<1>1. /\ cursor' = FirstStopPoint(stops')
      /\ last'.kind = "entry" /\ last'.gran = "none" /\ last'.out = "none" /\ last'.from = cursor'
  BY DEF Attach, NoMove
<1>2. CursorOK'
  BY <1>1, EndPoints DEF CursorOK, Loaded
<1>3. RestsOnStop'
  BY <1>1, EndPoints DEF RestsOnStop, Loaded
<1>4. DirectionRespected' /\ StepBackUndoesNext' /\ ReverseUndoesContinue'
  BY <1>1 DEF DirectionRespected, StepBackUndoesNext, ReverseUndoesContinue, ForwardSteps
<1> QED BY <1>2, <1>3, <1>4 DEF Promises

\* A move's last record, field by field.
LEMMA SeekFields ==
    ASSUME NEW i, NEW kind, NEW gran, NEW out, NEW bps, Seek(i, kind, gran, out, bps)
    PROVE  /\ cursor' = i /\ stops' = stops
           /\ last'.kind = kind /\ last'.gran = gran /\ last'.from = cursor
           /\ last'.out = out /\ last'.bps = bps
BY DEF Seek

\* nextRequest, stepInRequest and stepOutRequest.
LEMMA StepForwardStep ==
    ASSUME CursorOK, NEW kind \in ForwardSteps, NEW gran \in Granularities, StepForward(kind, gran)
    PROVE  CursorOK' /\ Promises'
<1> DEFINE P == StopPoints(gran)
           T == ForwardTargets(kind, gran)
<1>1. Loaded /\ IsStopModel(stops) /\ cursor \in 1..stops.n /\ stops.n \in Nat
  BY DEF StepForward, CursorOK, IsStopModel
<1>2. /\ P \subseteq stops.visible /\ P \subseteq 1..stops.n
      /\ stops.visible # {} => P # {} /\ cursor \in stops.visible
      /\ HasStatementStops(gran) => P = stops.stops
      /\ ~HasStatementStops(gran) => P = stops.visible
      /\ gran = "statement" /\ stops.stops # {} => HasStatementStops(gran)
  BY <1>1, StopPointsProperties DEF CursorOK
<1>3. T \subseteq P /\ T \subseteq 1..stops.n /\ \A i \in T : i > cursor
  BY <1>2 DEF ForwardTargets
<1>4. \A i \in P : i > cursor /\ kind = "next" /\ stops.depth[i] <= stops.depth[cursor] => i \in T
  BY DEF ForwardTargets, Within, Depth
<1>5. stops.depth \in [1..stops.n -> Nat]
  BY <1>1 DEF IsStopModel
<1>6. kind # "continue" /\ kind # "stepBack" /\ kind # "reverse" /\ kind # "entry"
  BY DEF ForwardSteps
<1> DEFINE Lands(i, out) ==
        /\ stops' = stops /\ cursor' = i
        /\ last'.kind = kind /\ last'.gran = gran /\ last'.from = cursor /\ last'.out = out
<1>7. \/ T # {} /\ Lands(Min(T), "stopped")
      \/ T = {} /\ HasStatementStops(gran) /\ Lands(cursor, "terminated")
      \/ T = {} /\ ~HasStatementStops(gran) /\ Lands(Clamped(P, Max(P)), "stopped")
  <2>1. \/ T # {} /\ Seek(Min(T), kind, gran, "stopped", {})
        \/ T = {} /\ HasStatementStops(gran) /\ Seek(cursor, kind, gran, "terminated", {})
        \/ T = {} /\ ~HasStatementStops(gran)
           /\ Seek(Clamped(P, Max(P)), kind, gran, "stopped", {})
    BY DEF StepForward
  <2> HIDE DEF P, T
  <2>2. CASE T # {} /\ Seek(Min(T), kind, gran, "stopped", {})
    BY <2>2, SeekFields
  <2>3. CASE T = {} /\ HasStatementStops(gran) /\ Seek(cursor, kind, gran, "terminated", {})
    BY <2>3, SeekFields
  <2>4. CASE T = {} /\ ~HasStatementStops(gran)
              /\ Seek(Clamped(P, Max(P)), kind, gran, "stopped", {})
    BY <2>4, SeekFields
  <2> QED BY <2>1, <2>2, <2>3, <2>4
<1> HIDE DEF P, T, Lands
\* What is left to show of each outcome: where it lands, and that a step over
\* lands on the nearest stop of a depth that is not larger.
<1> DEFINE Nearest(i) ==
        kind = "next" /\ i > cursor /\ stops.depth[i] = stops.depth[cursor] =>
            \A j \in P : cursor < j /\ j < i => stops.depth[j] > stops.depth[cursor]
<1> DEFINE Landing(i, out) ==
        /\ Lands(i, out) /\ i \in 1..stops.n /\ i >= cursor /\ Nearest(i)
        /\ out = "stopped" \/ (out = "terminated" /\ i = cursor)
        /\ out = "stopped" /\ stops.visible # {} => i \in P
<1>8. ASSUME NEW i, NEW out, Landing(i, out)
      PROVE  CursorOK' /\ Promises'
  <2>1. /\ stops' = stops /\ cursor' = i
        /\ last'.kind = kind /\ last'.gran = gran /\ last'.from = cursor /\ last'.out = out
    BY <1>8 DEF Lands
  <2>2. stops.visible # {} => i \in stops.visible
    BY <1>2, <1>8
  <2>3. CursorOK'
    BY <1>1, <1>8, <2>1, <2>2 DEF CursorOK, Loaded
  <2>4. RestsOnStop'
    BY <1>2, <1>6, <1>8, <2>1, <2>2 DEF RestsOnStop, Loaded
  <2>5. DirectionRespected'
    BY <1>1, <1>6, <1>8, <2>1 DEF DirectionRespected, Loaded
  <2>6. ReverseUndoesContinue'
    BY <1>6, <2>1 DEF ReverseUndoesContinue
  <2>7. StepBackUndoesNext'
    <3> SUFFICES ASSUME kind = "next", i > cursor, cursor \in P,
                        stops.depth[i] = stops.depth[cursor]
                 PROVE  /\ BackwardTargets(gran)' # {}
                        /\ Max(BackwardTargets(gran)') = cursor
      BY <2>1 DEF StepBackUndoesNext, P, StopPoints, HasStatementStops
    <3> DEFINE B == {j \in P : j < i /\ stops.depth[j] <= stops.depth[i]}
    <3>1. BackwardTargets(gran)' = B
      BY <2>1 DEF BackwardTargets, StopPoints, HasStatementStops, P, Depth
    <3>2. cursor \in B /\ B \subseteq 1..stops.n
      <4>1. stops.depth[cursor] \in Nat
        BY <1>1, <1>5
      <4>2. cursor \in B
        BY <4>1
      <4>3. B \subseteq 1..stops.n
        BY <1>2
      <4> QED BY <4>2, <4>3
    <3>3. \A j \in B : j <= cursor
      <4> SUFFICES ASSUME NEW j \in B, cursor < j PROVE FALSE
        BY <1>1, <3>2
      <4>1. j \in P /\ j < i /\ stops.depth[j] <= stops.depth[cursor]
        OBVIOUS
      <4>2. stops.depth[j] > stops.depth[cursor]
        BY <1>8, <4>1
      <4>3. stops.depth[j] \in Nat /\ stops.depth[cursor] \in Nat
        BY <1>1, <1>5, <3>2
      <4> QED BY <4>1, <4>2, <4>3
    <3> HIDE DEF B
    <3>4. Max(B) \in B /\ \A y \in B : y <= Max(B)
      BY <1>1, <3>2, PointsProperties
    <3>5. Max(B) <= cursor /\ cursor <= Max(B)
      BY <3>2, <3>3, <3>4
    <3>6. 1..stops.n \subseteq Nat
      BY <1>1
    <3>7. Max(B) \in Nat /\ cursor \in Nat
      BY <1>1, <3>2, <3>4, <3>6
    <3>8. Max(B) = cursor
      BY <3>5, <3>7
    <3> QED BY <3>1, <3>2, <3>8
  <2> QED BY <2>3, <2>4, <2>5, <2>6, <2>7 DEF Promises
<1>9. CASE T # {} /\ Lands(Min(T), "stopped")
  <2>1. Min(T) \in T /\ \A y \in T : Min(T) <= y
    BY <1>1, <1>3, <1>9, PointsProperties
  <2>2. Min(T) \in P /\ Min(T) \in 1..stops.n /\ Min(T) > cursor
    BY <1>3, <2>1
  <2>3. Nearest(Min(T))
    <3> SUFFICES ASSUME kind = "next", NEW j \in P, cursor < j, j < Min(T),
                        ~(stops.depth[j] > stops.depth[cursor])
                 PROVE  FALSE
      OBVIOUS
    <3>1. stops.depth[j] <= stops.depth[cursor]
      BY <1>1, <1>2, <1>5
    <3>2. j \in T
      BY <1>4, <1>1, <1>2, <3>1
    <3> QED BY <1>1, <1>2, <2>1, <2>2, <3>2
  <2>4. Min(T) >= cursor
    BY <1>1, <2>2
  <2> DEFINE e == Min(T)
  <2> HIDE DEF Nearest
  <2>5. Landing(e, "stopped")
    BY <1>9, <2>2, <2>3, <2>4
  <2> HIDE DEF Landing, e
  <2> QED BY <1>8, <2>5
<1>10. CASE T = {} /\ HasStatementStops(gran) /\ Lands(cursor, "terminated")
  <2>1. Nearest(cursor) /\ cursor >= cursor
    BY <1>1
  <2> HIDE DEF Nearest
  <2>2. Landing(cursor, "terminated")
    BY <1>1, <1>10, <2>1
  <2> HIDE DEF Landing
  <2> QED BY <1>8, <2>2
<1>11. CASE T = {} /\ ~HasStatementStops(gran) /\ Lands(Clamped(P, Max(P)), "stopped")
  <2> DEFINE e == Clamped(P, Max(P))
  <2>1. CASE P = {}
    <3>1. e = cursor
      BY <2>1 DEF Clamped
    <3>2. Nearest(cursor) /\ cursor >= cursor
      BY <1>1
    <3> HIDE DEF Nearest
    <3>3. Landing(cursor, "stopped")
      BY <1>1, <1>2, <1>11, <2>1, <3>1, <3>2
    <3> HIDE DEF Landing
    <3> QED BY <1>8, <3>3
  <2>2. CASE P # {}
    <3>1. e = Max(P)
      BY <2>2 DEF Clamped
    <3>2. Max(P) \in P /\ \A y \in P : y <= Max(P)
      BY <1>1, <1>2, <2>2, PointsProperties
    <3>3. cursor \in P
      BY <1>2, <1>11, <2>2
    <3>4. Max(P) >= cursor /\ Max(P) \in 1..stops.n
      BY <1>1, <1>2, <3>2, <3>3
    <3>5. Nearest(Max(P))
      <4> SUFFICES ASSUME kind = "next", Max(P) > cursor,
                          stops.depth[Max(P)] = stops.depth[cursor]
                   PROVE  FALSE
        OBVIOUS
      <4>1. stops.depth[Max(P)] <= stops.depth[cursor]
        BY <1>1, <1>5, <3>4
      <4> QED BY <1>4, <1>11, <3>2, <4>1
    <3> HIDE DEF Nearest
    <3>6. Landing(e, "stopped")
      BY <1>11, <3>1, <3>2, <3>4, <3>5
    <3> HIDE DEF Landing, e
    <3> QED BY <1>8, <3>6
  <2> QED BY <2>1, <2>2
<1> QED BY <1>7, <1>9, <1>10, <1>11

\* stepBackRequest.
LEMMA StepBackwardStep ==
    ASSUME CursorOK, NEW gran \in Granularities, StepBackward(gran)
    PROVE  CursorOK' /\ Promises'
<1> DEFINE P == StopPoints(gran)
           T == BackwardTargets(gran)
           Lands(i) ==
               /\ stops' = stops /\ cursor' = i
               /\ last'.kind = "stepBack" /\ last'.gran = gran
               /\ last'.from = cursor /\ last'.out = "stopped"
<1>1. Loaded /\ IsStopModel(stops) /\ cursor \in 1..stops.n /\ stops.n \in Nat
  BY DEF StepBackward, CursorOK, IsStopModel
<1>2. /\ P \subseteq stops.visible /\ P \subseteq 1..stops.n
      /\ stops.visible # {} => P # {} /\ cursor \in stops.visible
      /\ HasStatementStops(gran) => P = stops.stops
      /\ ~HasStatementStops(gran) => P = stops.visible
      /\ gran = "statement" /\ stops.stops # {} => HasStatementStops(gran)
  BY <1>1, StopPointsProperties DEF CursorOK
<1>3. T \subseteq P /\ T \subseteq 1..stops.n /\ \A i \in T : i < cursor
  BY <1>2 DEF BackwardTargets
<1>4. \/ T # {} /\ Lands(Max(T))
      \/ T = {} /\ Lands(Clamped(P, Min(P)))
  <2>1. \/ T # {} /\ Seek(Max(T), "stepBack", gran, "stopped", {})
        \/ T = {} /\ Seek(Clamped(P, Min(P)), "stepBack", gran, "stopped", {})
    BY DEF StepBackward
  <2> HIDE DEF P, T
  <2>2. CASE T # {} /\ Seek(Max(T), "stepBack", gran, "stopped", {})
    BY <2>2, SeekFields
  <2>3. CASE T = {} /\ Seek(Clamped(P, Min(P)), "stepBack", gran, "stopped", {})
    BY <2>3, SeekFields
  <2> QED BY <2>1, <2>2, <2>3
<1> HIDE DEF P, T, Lands
<1> DEFINE Landing(i) ==
        /\ Lands(i) /\ i \in 1..stops.n
        /\ stops.visible # {} => i \in P
        /\ i > cursor => cursor < FirstStopPoint(stops)
<1>5. ASSUME NEW i, Landing(i)
      PROVE  CursorOK' /\ Promises'
  <2>1. /\ stops' = stops /\ cursor' = i
        /\ last'.kind = "stepBack" /\ last'.gran = gran
        /\ last'.from = cursor /\ last'.out = "stopped"
    BY <1>5 DEF Lands
  <2>2. stops.visible # {} => i \in stops.visible
    BY <1>2, <1>5
  <2>3. CursorOK'
    BY <1>1, <1>5, <2>1, <2>2 DEF CursorOK, Loaded
  <2>4. RestsOnStop'
    BY <1>2, <1>5, <2>1, <2>2 DEF RestsOnStop, Loaded
  <2>5. DirectionRespected'
    BY <1>5, <2>1 DEF DirectionRespected, Loaded, ForwardSteps
  <2>6. StepBackUndoesNext' /\ ReverseUndoesContinue'
    BY <2>1 DEF StepBackUndoesNext, ReverseUndoesContinue
  <2> QED BY <2>3, <2>4, <2>5, <2>6 DEF Promises
<1>6. CASE T # {} /\ Lands(Max(T))
  <2> DEFINE e == Max(T)
  <2>1. e \in T
    BY <1>1, <1>3, <1>6, PointsProperties
  <2>2. e \in P /\ e \in 1..stops.n /\ e < cursor
    BY <1>3, <2>1
  <2>3. ~(e > cursor)
    BY <1>1, <2>2
  <2>4. Landing(e)
    BY <1>6, <2>2, <2>3
  <2> HIDE DEF Landing, e
  <2> QED BY <1>5, <2>4
<1>7. CASE T = {} /\ Lands(Clamped(P, Min(P))) /\ P = {}
  <2>1. Clamped(P, Min(P)) = cursor
    BY <1>7 DEF Clamped
  <2>2. Landing(cursor)
    BY <1>1, <1>2, <1>7, <2>1
  <2> HIDE DEF Landing
  <2> QED BY <1>5, <2>2
<1>8. CASE T = {} /\ Lands(Clamped(P, Min(P))) /\ P # {}
  <2> DEFINE e == Min(P)
  <2>1. Clamped(P, Min(P)) = e
    BY <1>8 DEF Clamped
  <2>2. e \in P /\ \A y \in P : e <= y
    BY <1>1, <1>2, <1>8, PointsProperties
  <2>3. CASE HasStatementStops(gran)
    <3>1. FirstStopPoint(stops) = e
      BY <1>2, <2>3 DEF FirstStopPoint, HasStatementStops
    <3>2. Landing(e)
      BY <1>2, <1>8, <2>1, <2>2, <3>1
    <3> HIDE DEF Landing, e
    <3> QED BY <1>5, <3>2
  <2>4. CASE ~HasStatementStops(gran)
    <3>1. cursor \in P
      BY <1>2, <1>8, <2>4
    <3>2. e <= cursor /\ e \in 1..stops.n
      BY <1>2, <2>2, <3>1
    <3>3. ~(e > cursor)
      BY <1>1, <3>2
    <3>4. Landing(e)
      BY <1>8, <2>1, <2>2, <3>2, <3>3
    <3> HIDE DEF Landing, e
    <3> QED BY <1>5, <3>4
  <2> QED BY <2>3, <2>4
<1> QED BY <1>4, <1>6, <1>7, <1>8

\* continueRequest, for any breakpoints among the visible records.
LEMMA RunForwardStep ==
    ASSUME CursorOK, NEW bps, bps \subseteq stops.visible, RunForward(bps)
    PROVE  CursorOK' /\ Promises'
<1> DEFINE A == BreakpointsAhead(bps)
           Lands(i, out) ==
               /\ stops' = stops /\ cursor' = i
               /\ last'.kind = "continue" /\ last'.gran = "none"
               /\ last'.from = cursor /\ last'.out = out /\ last'.bps = bps
<1>1. Loaded /\ IsStopModel(stops) /\ cursor \in 1..stops.n /\ stops.n \in Nat
  BY DEF RunForward, CursorOK, IsStopModel
<1>2. /\ A \subseteq bps /\ A \subseteq 1..stops.n /\ bps \subseteq 1..stops.n
      /\ \A i \in A : i > cursor
      /\ \A i \in bps : i > cursor => i \in A
  BY <1>1 DEF BreakpointsAhead, IsStopModel
<1>3. \/ A # {} /\ Lands(Min(A), "breakpoint")
      \/ A = {} /\ Lands(LastStopPoint(stops), "clamped")
  <2> HIDE DEF A
  <2>1. CASE A # {}
    <3>1. Seek(Min(A), "continue", "none", "breakpoint", bps)
      BY <2>1 DEF RunForward, A
    <3> QED BY <2>1, <3>1, SeekFields
  <2>2. CASE A = {}
    <3>1. Seek(LastStopPoint(stops), "continue", "none", "clamped", bps)
      BY <2>2 DEF RunForward, A
    <3> QED BY <2>2, <3>1, SeekFields
  <2> QED BY <2>1, <2>2
<1> HIDE DEF A
<1>4. CASE A # {} /\ Lands(Min(A), "breakpoint")
  <2> DEFINE i == Min(A)
  <2>1. i \in A /\ \A y \in A : i <= y
    BY <1>1, <1>2, <1>4, PointsProperties
  <2>2. /\ stops' = stops /\ cursor' = i
        /\ last'.kind = "continue" /\ last'.gran = "none"
        /\ last'.from = cursor /\ last'.out = "breakpoint" /\ last'.bps = bps
    BY <1>4
  <2> HIDE DEF i
  <2>3. i \in bps /\ i \in stops.visible /\ i \in 1..stops.n /\ i > cursor
    BY <1>2, <2>1
  <2>4. CursorOK'
    BY <1>1, <2>2, <2>3 DEF CursorOK, Loaded
  <2>5. RestsOnStop'
    BY <2>2, <2>3 DEF RestsOnStop, Loaded
  <2>6. DirectionRespected'
    BY <1>1, <2>2, <2>3 DEF DirectionRespected, ForwardSteps
  <2>7. StepBackUndoesNext'
    BY <2>2 DEF StepBackUndoesNext
  <2>8. ReverseUndoesContinue'
    <3> SUFFICES ASSUME cursor \in bps
                 PROVE  /\ BreakpointsBehind(bps)' # {}
                        /\ Max(BreakpointsBehind(bps)') = cursor
      BY <2>2 DEF ReverseUndoesContinue, BreakpointsBehind
    <3> DEFINE B == {j \in bps : j < i}
    <3>1. BreakpointsBehind(bps)' = B
      BY <2>2 DEF BreakpointsBehind
    <3>2. cursor \in B /\ B \subseteq 1..stops.n
      BY <1>1, <1>2, <2>3
    <3>3. \A j \in B : j <= cursor
      <4> SUFFICES ASSUME NEW j \in B, cursor < j PROVE FALSE
        BY <1>1, <3>2
      <4>1. j \in A /\ j < i
        BY <1>1, <1>2, <3>2
      <4> QED BY <1>1, <1>2, <2>1, <2>3, <4>1
    <3> HIDE DEF B
    <3>4. Max(B) \in B /\ \A y \in B : y <= Max(B)
      BY <1>1, <3>2, PointsProperties
    <3>5. Max(B) <= cursor /\ cursor <= Max(B)
      BY <3>2, <3>3, <3>4
    <3>6. 1..stops.n \subseteq Nat
      BY <1>1
    <3>7. Max(B) \in Nat /\ cursor \in Nat
      BY <1>1, <3>2, <3>4, <3>6
    <3>8. Max(B) = cursor
      BY <3>5, <3>7
    <3> QED BY <3>1, <3>2, <3>8
  <2> QED BY <2>4, <2>5, <2>6, <2>7, <2>8 DEF Promises
<1>5. CASE A = {} /\ Lands(LastStopPoint(stops), "clamped")
  <2>1. /\ stops' = stops /\ cursor' = LastStopPoint(stops)
        /\ last'.kind = "continue" /\ last'.gran = "none"
        /\ last'.from = cursor /\ last'.out = "clamped" /\ last'.bps = bps
    BY <1>5
  <2>2. /\ LastStopPoint(stops) \in 1..stops.n
        /\ stops.visible # {} => LastStopPoint(stops) \in stops.visible
        /\ stops.stops # {} => LastStopPoint(stops) \in stops.stops
    BY <1>1, EndPoints
  <2>3. CursorOK'
    BY <1>1, <2>1, <2>2 DEF CursorOK, Loaded
  <2>4. RestsOnStop'
    BY <2>1, <2>2 DEF RestsOnStop, Loaded
  <2>5. DirectionRespected'
    BY <1>1, <2>1, <2>2 DEF DirectionRespected, ForwardSteps
  <2>6. StepBackUndoesNext' /\ ReverseUndoesContinue'
    BY <2>1 DEF StepBackUndoesNext, ReverseUndoesContinue
  <2> QED BY <2>3, <2>4, <2>5, <2>6 DEF Promises
<1> QED BY <1>3, <1>4, <1>5

\* reverseContinueRequest, for any breakpoints among the visible records.
LEMMA RunBackwardStep ==
    ASSUME CursorOK, NEW bps, bps \subseteq stops.visible, RunBackward(bps)
    PROVE  CursorOK' /\ Promises'
<1> DEFINE B == BreakpointsBehind(bps)
           Lands(i, out) ==
               /\ stops' = stops /\ cursor' = i
               /\ last'.kind = "reverse" /\ last'.gran = "none"
               /\ last'.from = cursor /\ last'.out = out /\ last'.bps = bps
<1>1. Loaded /\ IsStopModel(stops) /\ cursor \in 1..stops.n /\ stops.n \in Nat
  BY DEF RunBackward, CursorOK, IsStopModel
<1>2. B \subseteq bps /\ B \subseteq 1..stops.n /\ \A i \in B : i < cursor
  BY <1>1 DEF BreakpointsBehind, IsStopModel
<1>3. \/ B # {} /\ Lands(Max(B), "breakpoint")
      \/ B = {} /\ Lands(FirstStopPoint(stops), "clamped")
  <2> HIDE DEF B
  <2>1. CASE B # {}
    <3>1. Seek(Max(B), "reverse", "none", "breakpoint", bps)
      BY <2>1 DEF RunBackward, B
    <3> QED BY <2>1, <3>1, SeekFields
  <2>2. CASE B = {}
    <3>1. Seek(FirstStopPoint(stops), "reverse", "none", "clamped", bps)
      BY <2>2 DEF RunBackward, B
    <3> QED BY <2>2, <3>1, SeekFields
  <2> QED BY <2>1, <2>2
<1> HIDE DEF B
<1>4. ASSUME NEW i, NEW out, Lands(i, out), i \in 1..stops.n,
             stops.visible # {} => i \in stops.visible,
             i > cursor => cursor < FirstStopPoint(stops),
             out # "stopped",
             out = "clamped" /\ stops.stops # {} => i \in stops.stops,
             out = "breakpoint" => i \in bps
      PROVE  CursorOK' /\ Promises'
  <2>1. /\ stops' = stops /\ cursor' = i
        /\ last'.kind = "reverse" /\ last'.gran = "none"
        /\ last'.from = cursor /\ last'.out = out /\ last'.bps = bps
    BY <1>4
  <2>2. CursorOK'
    BY <1>1, <1>4, <2>1 DEF CursorOK, Loaded
  <2>3. RestsOnStop'
    BY <1>4, <2>1 DEF RestsOnStop, Loaded
  <2>4. DirectionRespected'
    BY <1>4, <2>1 DEF DirectionRespected, ForwardSteps
  <2>5. StepBackUndoesNext' /\ ReverseUndoesContinue'
    BY <2>1 DEF StepBackUndoesNext, ReverseUndoesContinue
  <2> QED BY <2>2, <2>3, <2>4, <2>5 DEF Promises
<1>5. CASE B # {} /\ Lands(Max(B), "breakpoint")
  <2> DEFINE i == Max(B)
  <2>1. i \in B
    BY <1>1, <1>2, <1>5, PointsProperties
  <2>2. i \in bps /\ i \in stops.visible /\ i \in 1..stops.n /\ i < cursor
    BY <1>2, <2>1
  <2>3. ~(i > cursor)
    BY <1>1, <2>2
  <2>4. Lands(i, "breakpoint")
    BY <1>5
  <2> HIDE DEF Lands, i
  <2> QED BY <1>4, <2>2, <2>3, <2>4
<1>6. CASE B = {} /\ Lands(FirstStopPoint(stops), "clamped")
  <2> DEFINE i == FirstStopPoint(stops)
  <2>1. /\ i \in 1..stops.n
        /\ stops.visible # {} => i \in stops.visible
        /\ stops.stops # {} => i \in stops.stops
    BY <1>1, EndPoints
  <2>2. i > cursor => cursor < FirstStopPoint(stops)
    BY <1>1, <2>1
  <2>3. Lands(i, "clamped")
    BY <1>6
  <2> HIDE DEF Lands, i
  <2> QED BY <1>4, <2>1, <2>2, <2>3
<1> QED BY <1>3, <1>5, <1>6

\* A step of another component changes no promise.
LEMMA StutterStep ==
    ASSUME CursorOK, Promises, UNCHANGED cursorVars
    PROVE  CursorOK' /\ Promises'
<1>1. stops' = stops /\ cursor' = cursor /\ last' = last
  BY DEF cursorVars
<1>2. CursorOK'
  BY <1>1 DEF CursorOK, Loaded
<1>3. RestsOnStop' /\ DirectionRespected'
  BY <1>1 DEF Promises, RestsOnStop, DirectionRespected, Loaded
<1>4. StepBackUndoesNext'
  <2>1. \A gran : StopPoints(gran)' = StopPoints(gran) /\ BackwardTargets(gran)' = BackwardTargets(gran)
    BY <1>1 DEF StopPoints, HasStatementStops, BackwardTargets, Depth
  <2> QED BY <1>1, <2>1 DEF Promises, StepBackUndoesNext, Loaded
<1>5. ReverseUndoesContinue'
  BY <1>1 DEF Promises, ReverseUndoesContinue, BreakpointsBehind, Loaded
<1> QED BY <1>2, <1>3, <1>4, <1>5 DEF Promises

\* Every promise of the cursor, with the invariant they follow from.
THEOREM CursorCorrect == CursorSpec => [](CursorOK /\ Promises)
<1>1. CursorInit => CursorOK /\ Promises
  BY DEF CursorInit, CursorOK, Promises, RestsOnStop, DirectionRespected, StepBackUndoesNext,
         ReverseUndoesContinue, Loaded
<1>2. CursorOK /\ Promises /\ [CursorNext]_cursorVars => (CursorOK /\ Promises)'
  <2> SUFFICES ASSUME CursorOK, Promises, [CursorNext]_cursorVars
               PROVE  CursorOK' /\ Promises'
    OBVIOUS
  <2>1. CASE IsStopModel(stops') /\ Attach
    BY <2>1, AttachStep
  <2>2. ASSUME NEW kind \in ForwardSteps, NEW gran \in Granularities, StepForward(kind, gran)
        PROVE  CursorOK' /\ Promises'
    BY <2>2, StepForwardStep
  <2>3. ASSUME NEW gran \in Granularities, StepBackward(gran)
        PROVE  CursorOK' /\ Promises'
    BY <2>3, StepBackwardStep
  <2>4. CASE last'.bps \subseteq stops.visible /\ (RunForward(last'.bps) \/ RunBackward(last'.bps))
    BY <2>4, RunForwardStep, RunBackwardStep
  <2>5. CASE UNCHANGED cursorVars
    BY <2>5, StutterStep
  <2> QED BY <2>1, <2>2, <2>3, <2>4, <2>5 DEF CursorNext
<1> QED BY <1>1, <1>2, PTL DEF CursorSpec

\* Whatever the trace and whatever the moves, the session rests on a stop point
\* (replayCursor.ts: toEntry, stepForward, stepBackward, runForward, runBackward).
THEOREM RestsOnStopAlways == CursorSpec => []RestsOnStop
<1>1. CursorOK /\ Promises => RestsOnStop
  BY DEF Promises
<1> QED BY <1>1, CursorCorrect, PTL

\* A forward move never goes back and a reverse move never forward, outside the
\* two clamps.
THEOREM DirectionAlwaysRespected == CursorSpec => []DirectionRespected
<1>1. CursorOK /\ Promises => DirectionRespected
  BY DEF Promises
<1> QED BY <1>1, CursorCorrect, PTL

\* A step over that stayed in its frame is undone by a step back.
THEOREM StepBackAlwaysUndoesNext == CursorSpec => []StepBackUndoesNext
<1>1. CursorOK /\ Promises => StepBackUndoesNext
  BY DEF Promises
<1> QED BY <1>1, CursorCorrect, PTL

\* A continue from one breakpoint to another is undone by a reverse continue.
THEOREM ReverseAlwaysUndoesContinue == CursorSpec => []ReverseUndoesContinue
<1>1. CursorOK /\ Promises => ReverseUndoesContinue
  BY DEF Promises
<1> QED BY <1>1, CursorCorrect, PTL

-----------------------------------------------------------------------------
(***************************************************************************)
(* Replay.                                                                 *)
(***************************************************************************)

\* A sequence is one over a larger set, too.
LEMMA WiderSeq ==
    ASSUME NEW S, NEW s \in Seq(S), NEW e
    PROVE  s \in Seq(S \union {e})
<1>1. s \in [1..Len(s) -> S] /\ Len(s) \in Nat
  BY LenProperties
<1>2. s \in [1..Len(s) -> S \union {e}]
  BY <1>1
<1> QED BY <1>1, <1>2

-----------------------------------------------------------------------------
(***************************************************************************)
(* The stop model.                                                         *)
(***************************************************************************)

\* Neither filter invents a stop, and neither empties a trace.
LEMMA StatementStopsProperties ==
    ASSUME NEW starts, NEW depth, NEW role
    PROVE  /\ StatementStops(starts, depth, role) \subseteq ToSet(starts)
           /\ ToSet(starts) # {} => StatementStops(starts, depth, role) # {}
BY DEF StatementStops, OrAll, ToSet

LEMMA MyCodeStopsProperties ==
    ASSUME NEW all, NEW workspace
    PROVE  /\ MyCodeStops(all, workspace) \subseteq all
           /\ all # {} => MyCodeStops(all, workspace) # {}
BY DEF MyCodeStops, OrAll

\* The records and the run starts found among them so far.
TraceOK ==
    /\ \E S : trace \in Seq(S)
    /\ Len(trace) = count
    /\ \A i \in 1..count : trace[i].depth \in Nat
    /\ runs.starts \in Seq(Nat)
    /\ \A i \in ToSet(runs.starts) : i \in 1..count /\ trace[i].pos # NoPos

LEMMA TraceDomain ==
    ASSUME TraceOK
    PROVE  DOMAIN trace = 1..count /\ count \in Nat
BY LenProperties DEF TraceOK

\* What a session loads: a stop model of this very trace.
ModelOf(m) ==
    /\ IsStopModel(m)
    /\ m.n = count
    /\ m.visible = {i \in 1..count : trace[i].pos # NoPos}
    /\ m.depth = [i \in 1..count |-> trace[i].depth]
    /\ m.raw = Starts

LEMMA StopModelBuilt ==
    ASSUME TraceOK, count > 0, NEW justMyCode \in BOOLEAN
    PROVE  ModelOf(BuildStopModel(trace, runs.starts, Source, justMyCode))
<1> DEFINE depth == [i \in DOMAIN trace |-> trace[i].depth]
           raw == ToSet(runs.starts)
           role == [i \in raw |-> Source[trace[i].line].role]
           statements == StatementStops(runs.starts, depth, role)
           workspace == {i \in raw : Source[trace[i].line].workspace}
           visible == {i \in DOMAIN trace : trace[i].pos # NoPos}
           kept == IF justMyCode THEN MyCodeStops(statements, workspace) ELSE statements
           m == BuildStopModel(trace, runs.starts, Source, justMyCode)
<1>1. m = [n |-> Len(trace), visible |-> visible, depth |-> depth, raw |-> raw, stops |-> kept]
  BY DEF BuildStopModel
<1>2. DOMAIN trace = 1..count /\ count \in Nat /\ Len(trace) = count
  BY TraceDomain DEF TraceOK
<1>3. statements \subseteq raw /\ (raw # {} => statements # {})
  <2> HIDE DEF depth, role
  <2> QED BY StatementStopsProperties
<1> HIDE DEF statements, workspace
<1>4. kept \subseteq raw /\ (raw # {} => kept # {})
  BY <1>3, MyCodeStopsProperties
<1>5. raw \subseteq visible /\ visible \subseteq 1..count
  BY <1>2 DEF TraceOK
<1>6. depth \in [1..count -> Nat] /\ depth = [i \in 1..count |-> trace[i].depth]
  BY <1>2 DEF TraceOK
<1>7. visible = {i \in 1..count : trace[i].pos # NoPos}
  BY <1>2
<1> HIDE DEF kept, raw, visible, depth, m
<1>8. m.n = count /\ m.visible = visible /\ m.depth = depth /\ m.raw = raw /\ m.stops = kept
  BY <1>1, <1>2
<1>9. IsStopModel(m)
  BY <1>2, <1>4, <1>5, <1>6, <1>8 DEF IsStopModel
<1> QED BY <1>6, <1>7, <1>8, <1>9 DEF ModelOf, Starts, raw, m

-----------------------------------------------------------------------------
(***************************************************************************)
(* Recording.                                                              *)
(***************************************************************************)

\* A step of the program writes the next record or none.
LEMMA NextCounts ==
    ASSUME TypeOK, Next
    PROVE  \/ count' = count /\ seen' = seen /\ walk' = walk
           \/ /\ count' = count + 1
              /\ \/ \E op : Trace(op)
                 \/ rec'.vis = FALSE /\ seen' = seen /\ walk' = walk /\ acts' = acts
<1>1. ASSUME NEW op, Trace(op) PROVE count' = count + 1
  BY <1>1 DEF Trace, Emit
<1>2. CASE FallOffEnd
  BY <1>2 DEF FallOffEnd
<1>3. CASE Invisible \/ Foreign
  BY <1>3, UnplacedStep
<1>4. CASE Plain \/ Branch \/ Call \/ HostCall \/ Return
  BY <1>1, <1>4 DEF Plain, Branch, Call, HostCall, Return
<1> QED BY <1>2, <1>3, <1>4 DEF Next

\* A record starts a run, and is then the last of them, or does not.
LEMMA RunStepStarts ==
    ASSUME NEW rs, NEW i, NEW r
    PROVE  \/ RunStep(rs, i, r).starts = rs.starts
           \/ RunStep(rs, i, r).starts = Append(rs.starts, i) /\ r.pos # NoPos
BY DEF RunStep

\* The records written so far stay, and a new one comes last.
LEMMA TraceGrows ==
    ASSUME TypeOK, TraceOK, Execute
    PROVE  /\ \E U : trace' \in Seq(U)
           /\ Len(trace') = count' /\ count' \in Nat /\ count \in Nat
           /\ \A i \in 1..count : trace'[i] = trace[i]
           /\ \/ count' = count /\ trace' = trace /\ runs' = runs
              \/ /\ count' = count + 1 /\ trace'[count'] = NewRecord
                 /\ runs' = RunStep(runs, count', NewRecord)
<1> USE TraceDomain
<1>1. CASE count' = count
  BY <1>1 DEF Execute, TraceOK
<1>2. CASE count' # count
  <2>1. count' = count + 1 /\ count \in Nat /\ Len(trace) = count
    BY <1>2, NextCounts DEF Execute, TraceOK
  <2>2. trace' = Append(trace, NewRecord) /\ runs' = RunStep(runs, count', NewRecord)
    BY <1>2 DEF Execute
  <2>3. PICK S : trace \in Seq(S)
    BY DEF TraceOK
  <2> DEFINE e == NewRecord
             T == S \union {e}
  <2>4. trace' = Append(trace, e)
    BY <2>2
  <2> HIDE DEF e
  <2>5. trace \in Seq(T) /\ e \in T
    BY <2>3, WiderSeq
  <2> HIDE DEF T
  <2>6. /\ Append(trace, e) \in Seq(T)
        /\ Len(Append(trace, e)) = Len(trace) + 1
        /\ \A i \in 1..Len(trace) : Append(trace, e)[i] = trace[i]
        /\ Append(trace, e)[Len(trace) + 1] = e
    BY <2>5, AppendProperties
  <2>7. /\ \E U : trace' \in Seq(U)
        /\ Len(trace') = count'
        /\ \A i \in 1..count : trace'[i] = trace[i]
        /\ trace'[count'] = e
    BY <2>1, <2>4, <2>6
  <2> QED BY <2>1, <2>2, <2>7 DEF e
<1> QED BY <1>1, <1>2

LEMMA RecordingKeepsTrace ==
    ASSUME TypeOK, TypeOK', TraceOK, Execute
    PROVE  TraceOK'
<1>1. CASE count' = count /\ trace' = trace /\ runs' = runs
  BY <1>1 DEF TraceOK
<1>2. CASE count' = count + 1 /\ trace'[count'] = NewRecord /\ runs' = RunStep(runs, count', NewRecord)
  <2>1. count' = count + 1 /\ count \in Nat /\ runs' = RunStep(runs, count', NewRecord)
    BY <1>2, TraceGrows
  <2>3. /\ \E U : trace' \in Seq(U)
        /\ Len(trace') = count'
        /\ \A i \in 1..count : trace'[i] = trace[i]
        /\ trace'[count'] = NewRecord
    <3> HIDE DEF NewRecord
    <3> QED BY <1>2, TraceGrows
  <2>4. NewRecord.depth \in Nat
    <3>1. walk'.stack = <<>> \/ Len(walk'.stack) \in Nat \ {0}
      BY EmptySeq DEF TypeOK
    <3> QED BY <3>1 DEF NewRecord
  <2>5. \A i \in 1..count' : trace'[i].depth \in Nat
    BY <2>1, <2>3, <2>4 DEF TraceOK
  <2>6. \/ runs'.starts = runs.starts
        \/ runs'.starts = Append(runs.starts, count') /\ NewRecord.pos # NoPos
    BY <2>1, RunStepStarts
  <2>7. runs.starts \in Seq(Nat) /\ \A i \in ToSet(runs.starts) : i \in 1..count /\ trace[i].pos # NoPos
    BY DEF TraceOK
  <2>8. CASE runs'.starts = runs.starts
    <3>1. ToSet(runs'.starts) = ToSet(runs.starts)
      BY <2>8
    <3> QED BY <2>1, <2>3, <2>5, <2>7, <2>8, <3>1 DEF TraceOK
  <2>9. CASE runs'.starts = Append(runs.starts, count') /\ NewRecord.pos # NoPos
    <3> HIDE DEF NewRecord
    <3>1. /\ runs'.starts \in Seq(Nat)
          /\ DOMAIN runs'.starts = 1..(Len(runs.starts) + 1) /\ Len(runs.starts) \in Nat
          /\ DOMAIN runs.starts = 1..Len(runs.starts)
          /\ \A k \in 1..Len(runs.starts) : runs'.starts[k] = runs.starts[k]
          /\ runs'.starts[Len(runs.starts) + 1] = count'
      <4>1. runs.starts \in Seq(Nat) /\ count' \in Nat
        BY <2>1, <2>7
      <4>2. /\ Append(runs.starts, count') \in Seq(Nat)
            /\ Len(Append(runs.starts, count')) = Len(runs.starts) + 1
            /\ \A k \in 1..Len(runs.starts) : Append(runs.starts, count')[k] = runs.starts[k]
            /\ Append(runs.starts, count')[Len(runs.starts) + 1] = count'
        BY <4>1, AppendProperties
      <4> QED BY <2>9, <4>1, <4>2, LenProperties
    <3>2. \A i \in ToSet(runs'.starts) : i \in ToSet(runs.starts) \union {count'}
      <4> SUFFICES ASSUME NEW k \in DOMAIN runs'.starts
                   PROVE  runs'.starts[k] \in ToSet(runs.starts) \union {count'}
        BY DEF ToSet
      <4>1. CASE k \in 1..Len(runs.starts)
        BY <3>1, <4>1 DEF ToSet
      <4>2. CASE k = Len(runs.starts) + 1
        BY <3>1, <4>2
      <4> QED BY <3>1, <4>1, <4>2
    <3>3. \A i \in ToSet(runs'.starts) : i \in 1..count' /\ trace'[i].pos # NoPos
      BY <2>1, <2>3, <2>7, <2>9, <3>2
    <3> QED BY <2>3, <2>5, <3>1, <3>3 DEF TraceOK
  <2> QED BY <2>6, <2>8, <2>9
<1> QED
  <2> HIDE DEF NewRecord
  <2> QED BY <1>1, <1>2, TraceGrows

-----------------------------------------------------------------------------
(***************************************************************************)
(* The session implements the cursor.                                      *)
(***************************************************************************)

\* Before a trace is loaded the cursor stands at its first record, and after that
\* the stop model is the trace's.
SessionOK ==
    /\ request \in Requests \union {NoRequest}
    /\ IF Loaded THEN ModelOf(stops) ELSE cursor = 1

RInv == TypeOK /\ TraceOK /\ SessionOK

\* Breakpoints are visible records.
LEMMA BreakpointsVisible ==
    ASSUME SessionOK, Loaded
    PROVE  ResolveBreakpoints \subseteq stops.visible
BY DEF ResolveBreakpoints, SessionOK, ModelOf, IsStopModel

\* A move says which breakpoints it heeded.
LEMMA MoveIsCursorMove ==
    ASSUME SessionOK, Move
    PROVE  CursorNext /\ stops' = stops
<1>1. Loaded
  BY DEF Move
<1>2. ASSUME NEW kind \in ForwardSteps, NEW gran \in Granularities, StepForward(kind, gran)
      PROVE  CursorNext /\ stops' = stops
  BY <1>2 DEF CursorNext, StepForward, Seek
<1>3. ASSUME NEW gran \in Granularities, StepBackward(gran)
      PROVE  CursorNext /\ stops' = stops
  BY <1>3 DEF CursorNext, StepBackward, Seek
<1>4. ASSUME NEW B, B \subseteq stops.visible, RunForward(B) \/ RunBackward(B)
      PROVE  CursorNext /\ stops' = stops
  <2>1. last'.bps = B /\ stops' = stops
    BY <1>4 DEF RunForward, RunBackward, Seek
  <2> QED BY <1>1, <1>4, <2>1 DEF CursorNext
<1>5. ResolveBreakpoints \subseteq stops.visible
  BY <1>1, BreakpointsVisible
<1> HIDE DEF ResolveBreakpoints
<1> QED BY <1>2, <1>3, <1>4, <1>5 DEF Move

LEMMA LoadBuilds ==
    ASSUME TypeOK, TraceOK, Load
    PROVE  ModelOf(stops') /\ Attach /\ stops' # NoModel
<1>1. PICK justMyCode \in BOOLEAN : stops' = BuildStopModel(trace, runs.starts, Source, justMyCode)
  BY DEF Load
<1>2. ModelOf(stops')
  BY <1>1, StopModelBuilt DEF Load
<1>3. stops' # NoModel
  BY <1>2 DEF ModelOf, IsStopModel, NoModel
<1> QED BY <1>2, <1>3 DEF Load

LEMMA InvariantKept ==
    ASSUME RInv, [RNext]_replayVars
    PROVE  RInv'
<1>1. TypeOK /\ TraceOK /\ SessionOK
  BY DEF RInv
<1>2. CASE Execute
  <2>1. TypeOK'
    BY <1>1, <1>2, TypeStep DEF Execute
  <2>2. TraceOK'
    BY <1>1, <1>2, <2>1, RecordingKeepsTrace
  <2>3. SessionOK'
    BY <1>1, <1>2 DEF Execute, SessionOK, Loaded, cursorVars
  <2> QED BY <2>1, <2>2, <2>3 DEF RInv
<1>3. ASSUME UNCHANGED <<vars, trace, runs>> PROVE TypeOK' /\ TraceOK'
  <2>1. TypeOK'
    BY <1>1, <1>3, TypeStep
  <2>2. TraceOK'
    BY <1>1, <1>3 DEF TraceOK, vars
  <2> QED BY <2>1, <2>2
<1>4. CASE Load
  <2>1. UNCHANGED <<vars, trace, runs>> /\ request' \in Requests
    BY <1>4 DEF Load
  <2>2. ModelOf(stops') /\ Attach /\ stops' # NoModel
    BY <1>1, <1>4, LoadBuilds
  <2>3. ModelOf(stops)' /\ Loaded'
    BY <2>1, <2>2 DEF ModelOf, Loaded, Starts, Attach, vars
  <2> QED BY <1>3, <2>1, <2>3 DEF RInv, SessionOK
<1>5. CASE Move
  <2>1. UNCHANGED <<vars, trace, runs, request>> /\ Loaded
    BY <1>5 DEF Move
  <2>2. stops' = stops
    BY <1>1, <1>5, MoveIsCursorMove
  <2>3. SessionOK'
    BY <1>1, <2>1, <2>2 DEF SessionOK, Loaded, ModelOf, Starts, vars
  <2> QED BY <1>3, <2>1, <2>3 DEF RInv
<1>6. CASE UNCHANGED replayVars
  <2>1. UNCHANGED <<vars, trace, runs>> /\ UNCHANGED <<request, stops, cursor>>
    BY <1>6 DEF replayVars, cursorVars
  <2>2. SessionOK'
    BY <1>1, <2>1 DEF SessionOK, Loaded, ModelOf, Starts, vars
  <2> QED BY <1>3, <2>1, <2>2 DEF RInv
<1> QED BY <1>2, <1>4, <1>5, <1>6 DEF RNext

LEMMA InvariantHolds == RSpec => []RInv
<1>1. RInit => RInv
  <2> SUFFICES ASSUME RInit PROVE RInv
    OBVIOUS
  <2>1. TypeOK
    BY InitTypeOK DEF RInit
  <2>2. TraceOK
    <3>1. trace = <<>> /\ count = 0 /\ runs.starts = <<>>
      BY DEF RInit, Init
    <3>2. trace \in Seq({}) /\ Len(trace) = 0 /\ runs.starts \in Seq(Nat) /\ ToSet(runs.starts) = {}
      BY <3>1 DEF ToSet
    <3> QED BY <3>1, <3>2 DEF TraceOK
  <2>3. SessionOK
    BY DEF RInit, CursorInit, SessionOK, Loaded
  <2> QED BY <2>1, <2>2, <2>3 DEF RInv
<1> QED BY <1>1, InvariantKept, PTL DEF RSpec

\* Whatever a program records and wherever the recording ends, the stop model built of it
\* is one the cursor accepts, and every move of the session is one of the cursor's
\* (launchRequest and the stepping handlers over replayCursor.ts).
THEOREM ReplayImplementsCursor == RSpec => CursorImplemented
<1>1. RInit => CursorInit
  BY DEF RInit
<1>2. RInv /\ [RNext]_replayVars => [CursorNext]_cursorVars
  <2> SUFFICES ASSUME RInv, [RNext]_replayVars PROVE [CursorNext]_cursorVars
    OBVIOUS
  <2>1. CASE Execute
    BY <2>1 DEF Execute
  <2>2. CASE Load
    <3>1. ModelOf(stops') /\ Attach
      BY <2>2, LoadBuilds DEF RInv
    <3> QED BY <3>1 DEF CursorNext, ModelOf
  <2>3. CASE Move
    BY <2>3, MoveIsCursorMove DEF RInv
  <2>4. CASE UNCHANGED replayVars
    BY <2>4 DEF replayVars, cursorVars
  <2> QED BY <2>1, <2>2, <2>3, <2>4 DEF RNext
<1> QED BY <1>1, <1>2, InvariantHolds, PTL DEF RSpec, CursorImplemented, CursorSpec

\* Type correctness of the composed system: the run starts are records, the depths
\* naturals, and the cursor stays in the trace it was built for.
THEOREM ReplayTypeCorrect == RSpec => []RTypeOK
<1>1. RInv /\ CursorOK => RTypeOK
  <2> SUFFICES ASSUME TypeOK, TraceOK, SessionOK, CursorOK PROVE RTypeOK
    BY DEF RInv
  <2>1. /\ DOMAIN trace = 1..count /\ Len(trace) = count
        /\ \A i \in DOMAIN trace : trace[i].depth \in Nat
        /\ Starts \subseteq DOMAIN trace
    BY TraceDomain DEF TraceOK, Starts
  <2>2. cursor \in Nat /\ (Loaded => IsStopModel(stops) /\ cursor \in 1..stops.n)
    <3>1. CASE Loaded
      BY <3>1 DEF CursorOK, IsStopModel
    <3>2. CASE ~Loaded
      BY <3>2 DEF SessionOK
    <3> QED BY <3>1, <3>2
  <2> QED BY <2>1, <2>2 DEF RTypeOK, SessionOK
<1>2. CursorImplemented => []CursorOK
  BY CursorCorrect, PTL DEF CursorImplemented
<1> QED BY <1>1, <1>2, InvariantHolds, ReplayImplementsCursor, PTL

-----------------------------------------------------------------------------
(***************************************************************************)
(* Steps follow the program's activations.                                 *)
(***************************************************************************)

\* The k-th frame of a stack was created by a record with k - 1 frames: a call
\* record identifies the activation and tells its depth.
AtLevel(records, site, k) ==
    IF k = 1 THEN site = 0 ELSE site \in DOMAIN records /\ Len(records[site].stack) = k - 1
Levels(records, stack) == \A k \in 1..Len(stack) : AtLevel(records, stack[k].site, k)

\* The depth of a record is that of the true stack it was written in.
RecordOK(records, r) ==
    /\ r.stack \in Seq(Frame)
    /\ r.depth = IF r.stack = <<>> THEN 0 ELSE Len(r.stack) - 1
    /\ r.pos # NoPos => r.stack # <<>>
    /\ Levels(records, r.stack)

StacksOK ==
    /\ Levels(trace, acts) /\ Levels(trace, seen)
    /\ \A i \in 1..count : RecordOK(trace, trace[i])

\* A longer recording tells the same of the records it begins with.
LEMMA LevelsGrow ==
    ASSUME NEW records, NEW more, DOMAIN records \subseteq DOMAIN more,
           \A i \in DOMAIN records : more[i] = records[i],
           NEW stack, Levels(records, stack)
    PROVE  Levels(more, stack)
BY DEF Levels, AtLevel

\* An instruction's record carries the stack of the activation that runs it.
LEMMA InstructionRecord ==
    ASSUME NEW rank, Layered(rank), TypeOK, WalkInvariant(rank), NEW op, Trace(op),
           NEW records, Levels(records, acts)
    PROVE  /\ RecordOK(records, NewRecord)
           /\ NewRecord.stack = Sites(acts) /\ Levels(records, Sites(acts)) /\ seen' = Sites(acts)
           /\ Len(Sites(acts)) = Len(acts) /\ Len(acts) \in Nat \ {0}
<1>1. acts # <<>> /\ seen' = Sites(acts) /\ walk'.stack = Sites(acts)
  BY RecordStep
<1>2. /\ Sites(acts) \in Seq(Frame) /\ Len(Sites(acts)) = Len(acts) /\ Len(acts) \in Nat \ {0}
      /\ \A i \in 1..Len(acts) : Sites(acts)[i].site = acts[i].site
  BY <1>1, SitesOfActs, Innermost
<1>3. Levels(records, Sites(acts))
  BY <1>2 DEF Levels
<1>4. Sites(acts) # <<>>
  BY <1>2
<1>5. NewRecord.stack = Sites(acts) /\ NewRecord.depth = Len(Sites(acts)) - 1
  BY <1>1, <1>4 DEF NewRecord
<1> HIDE DEF NewRecord
<1> QED BY <1>1, <1>2, <1>3, <1>4, <1>5 DEF RecordOK

\* A record without a position repeats the stack seen last.
LEMMA InvisibleRecord ==
    ASSUME TypeOK, FramesExact, walk' = walk, seen' = seen, rec'.vis = FALSE,
           NEW records, Levels(records, seen)
    PROVE  RecordOK(records, NewRecord)
<1>1. seen \in Seq(Frame) /\ walk'.stack = seen
  BY DEF TypeOK, FramesExact
<1>2. NewRecord.pos = NoPos /\ NewRecord.stack = seen
      /\ NewRecord.depth = IF seen = <<>> THEN 0 ELSE Len(seen) - 1
  BY <1>1 DEF NewRecord
<1> HIDE DEF NewRecord
<1> QED BY <1>1, <1>2 DEF RecordOK

\* A step keeps activations, leaves the innermost one, or enters the one that the call
\* record it wrote creates.
LEMMA ActsAfter ==
    ASSUME TypeOK, Next
    PROVE  /\ Len(acts') \in Nat
           /\ \A k \in 1..Len(acts') :
                \/ /\ k \in 1..Len(acts)
                   /\ acts'[k].site = acts[k].site /\ acts'[k].fn = acts[k].fn
                \/ /\ Call /\ k = Len(acts) + 1 /\ Len(acts) \in Nat \ {0}
                   /\ acts'[k].site = count + 1 /\ acts'[k].fn = Instr(Last(acts)).to
<1>1. Len(acts) \in Nat
  BY LenProperties DEF TypeOK
<1>2. ASSUME acts # <<>>
      PROVE  /\ Len(acts) \in Nat \ {0} /\ Last(acts).pc \in Nat \ {0} /\ acts \in Seq(Act(prog))
             /\ Front(acts) \in Seq(Act(prog)) /\ Len(Front(acts)) = Len(acts) - 1
             /\ \A k \in 1..(Len(acts) - 1) : Front(acts)[k] = acts[k]
  BY <1>2, Innermost DEF Act
<1>3. ASSUME acts # <<>>, NEW pc \in Nat \ {0}
      PROVE  /\ Advance(pc) \in Seq(Act(prog)) /\ Len(Advance(pc)) = Len(acts)
             /\ \A k \in 1..Len(acts) : /\ Advance(pc)[k].site = acts[k].site
                                        /\ Advance(pc)[k].fn = acts[k].fn
  BY <1>3, AdvanceProperties
<1>4. ASSUME acts # <<>>, NEW pc \in Nat \ {0}, acts' = Advance(pc)
      PROVE  /\ Len(acts') = Len(acts)
             /\ \A k \in 1..Len(acts) : acts'[k].site = acts[k].site /\ acts'[k].fn = acts[k].fn
  BY <1>3, <1>4
<1>5. CASE Plain \/ HostCall
  <2>1. acts # <<>> /\ acts' = Advance(Last(acts).pc + 1)
    BY <1>5 DEF Plain, HostCall, Trace
  <2>2. Last(acts).pc + 1 \in Nat \ {0}
    BY <1>2, <2>1
  <2>3. /\ Len(acts') = Len(acts)
        /\ \A k \in 1..Len(acts) : acts'[k].site = acts[k].site /\ acts'[k].fn = acts[k].fn
    BY <1>4, <2>1, <2>2
  <2> QED BY <1>1, <2>3
<1>6. CASE Branch
  <2>1. acts # <<>> /\ Instr(Last(acts)).op = "br" /\ ~AtEnd(Last(acts))
    BY <1>6 DEF Branch, Trace
  <2>2. PICK pc \in Instr(Last(acts)).to \union {Last(acts).pc + 1} : acts' = Advance(pc)
    BY <1>6 DEF Branch
  <2>3. pc \in Nat \ {0}
    BY <1>2, <2>1, <2>2, InstrProperties
  <2>4. /\ Len(acts') = Len(acts)
        /\ \A k \in 1..Len(acts) : acts'[k].site = acts[k].site /\ acts'[k].fn = acts[k].fn
    BY <1>4, <2>1, <2>2, <2>3
  <2> QED BY <1>1, <2>4
<1>7. CASE Return \/ FallOffEnd
  <2>1. acts # <<>> /\ acts' = Front(acts)
    BY <1>7 DEF Return, FallOffEnd, Trace
  <2> QED BY <1>2, <2>1
<1>8. CASE Invisible \/ Foreign
  <2>1. acts' = acts
    BY <1>8, UnplacedStep
  <2> QED BY <1>1, <2>1
<1>9. CASE Call
  <2> DEFINE new == [fn |-> Instr(Last(acts)).to, pc |-> 1, site |-> count + 1]
             base == Advance(Last(acts).pc + 1)
  <2>1. /\ acts' = Append(base, new)
        /\ acts # <<>> /\ Instr(Last(acts)).op = "call" /\ ~AtEnd(Last(acts))
    BY <1>9 DEF Call, Trace
  <2>2. count + 1 \in Nat /\ Len(acts) \in Nat \ {0}
    BY <1>2, <2>1 DEF TypeOK
  <2>3. new \in Act(prog) /\ new.site = count + 1 /\ new.fn = Instr(Last(acts)).to
    BY <2>1, <2>2, InstrProperties DEF Act
  <2>4. /\ base \in Seq(Act(prog)) /\ Len(base) = Len(acts)
        /\ \A k \in 1..Len(acts) : base[k].site = acts[k].site /\ base[k].fn = acts[k].fn
    BY <1>2, <1>3, <2>1
  <2> HIDE DEF new, base
  <2>5. /\ Len(acts') = Len(acts) + 1
        /\ \A k \in 1..Len(acts) : acts'[k] = base[k]
        /\ acts'[Len(acts) + 1] = new
    BY <2>1, <2>3, <2>4, AppendProperties
  <2> QED BY <1>9, <2>2, <2>3, <2>4, <2>5
<1> QED BY <1>5, <1>6, <1>7, <1>8, <1>9 DEF Next

LEMMA StacksKept ==
    ASSUME NEW rank, Layered(rank), TypeOK, WalkInvariant(rank), TraceOK, TraceOK', StacksOK, Execute
    PROVE  StacksOK'
<1>1. /\ DOMAIN trace = 1..count /\ DOMAIN trace' = 1..count' /\ count \in Nat /\ count' \in Nat
      /\ \A i \in 1..count : trace'[i] = trace[i]
      /\ \/ count' = count /\ trace' = trace
         \/ count' = count + 1 /\ trace'[count'] = NewRecord
  <2>1. DOMAIN trace = 1..count /\ DOMAIN trace' = 1..count'
    BY TraceDomain, LenProperties DEF TraceOK
  <2> HIDE DEF NewRecord
  <2> QED BY <2>1, TraceGrows
<1>2. DOMAIN trace \subseteq DOMAIN trace' /\ \A i \in DOMAIN trace : trace'[i] = trace[i]
  <2>1. 1..count \subseteq 1..count'
    BY <1>1
  <2> QED BY <1>1, <2>1
<1>3. ASSUME NEW stack, Levels(trace, stack) PROVE Levels(trace', stack)
  BY <1>2, <1>3, LevelsGrow
<1>4. \A i \in 1..count : RecordOK(trace', trace'[i])
  BY <1>1, <1>3 DEF StacksOK, RecordOK
<1>5. Levels(trace', acts) /\ Levels(trace', seen)
  BY <1>3 DEF StacksOK
<1>6. Next /\ (count' # count => trace'[count'] = NewRecord)
  BY <1>1 DEF Execute
<1>7. CASE count' = count
  <2>1. CASE FallOffEnd
    <3>1. acts' = Front(acts) /\ acts # <<>> /\ seen' = seen
      BY <2>1 DEF FallOffEnd
    <3>2. /\ Len(acts) \in Nat /\ Len(Front(acts)) = Len(acts) - 1
          /\ \A k \in 1..(Len(acts) - 1) : Front(acts)[k] = acts[k]
      BY <3>1, Innermost
    <3>3. Levels(trace', acts')
      BY <1>5, <3>1, <3>2 DEF Levels
    <3> QED BY <1>4, <1>5, <1>7, <3>1, <3>3 DEF StacksOK
  <2>2. ASSUME NEW op, Trace(op) PROVE FALSE
    BY <1>1, <1>7, <2>2 DEF Trace, Emit
  <2>3. ASSUME Invisible \/ Foreign PROVE FALSE
    <3>1. count' = count + 1
      BY <2>3, UnplacedStep
    <3> QED BY <1>1, <1>7, <3>1
  <2> QED BY <1>6, <2>1, <2>2, <2>3 DEF Next, Plain, Branch, Call, HostCall, Return
<1>8. ASSUME NEW op, Trace(op) PROVE StacksOK'
  <2>1. count' = count + 1
    BY <1>8 DEF Trace, Emit
  <2>2. /\ RecordOK(trace', NewRecord)
        /\ NewRecord.stack = Sites(acts) /\ Levels(trace', Sites(acts)) /\ seen' = Sites(acts)
        /\ Len(Sites(acts)) = Len(acts) /\ Len(acts) \in Nat \ {0}
    <3> DEFINE records == trace'
    <3>1. Levels(records, acts)
      BY <1>5
    <3> HIDE DEF records, NewRecord
    <3>2. /\ RecordOK(records, NewRecord)
          /\ NewRecord.stack = Sites(acts) /\ Levels(records, Sites(acts)) /\ seen' = Sites(acts)
          /\ Len(Sites(acts)) = Len(acts) /\ Len(acts) \in Nat \ {0}
      BY <1>8, <3>1, InstructionRecord
    <3> QED BY <3>2 DEF records
  <2> HIDE DEF NewRecord
  <2>3. trace'[count'] = NewRecord
    BY <1>1, <2>1
  <2>4. \A i \in 1..count' : RecordOK(trace', trace'[i])
    BY <1>1, <1>4, <2>1, <2>2, <2>3
  <2>5. \A k \in 1..Len(acts') :
            \/ k \in 1..Len(acts) /\ acts'[k].site = acts[k].site
            \/ k = Len(acts) + 1 /\ acts'[k].site = count'
    BY <1>6, <2>1, ActsAfter
  <2>6. Levels(trace', acts')
    <3> SUFFICES ASSUME NEW k \in 1..Len(acts') PROVE AtLevel(trace', acts'[k].site, k)
      BY DEF Levels
    <3>1. CASE k \in 1..Len(acts) /\ acts'[k].site = acts[k].site
      BY <1>5, <3>1 DEF Levels
    <3>2. CASE k = Len(acts) + 1 /\ acts'[k].site = count'
      <4>1. k = Len(acts) + 1 /\ k # 1 /\ acts'[k].site = count'
        BY <2>2, <3>2
      <4>2. count' \in DOMAIN trace' /\ Len(trace'[count'].stack) = k - 1
        BY <1>1, <2>1, <2>2, <2>3, <4>1
      <4> QED BY <4>1, <4>2 DEF AtLevel
    <3> QED BY <2>5, <3>1, <3>2
  <2> QED BY <2>2, <2>4, <2>6 DEF StacksOK
<1>9. CASE Invisible \/ Foreign
  <2>1. /\ count' = count + 1 /\ rec'.vis = FALSE
        /\ walk' = walk /\ seen' = seen /\ acts' = acts
    BY <1>9, UnplacedStep
  <2>2. RecordOK(trace', NewRecord)
    <3> DEFINE records == trace'
    <3>1. Levels(records, seen) /\ FramesExact
      BY <1>5 DEF WalkInvariant
    <3> HIDE DEF records, NewRecord
    <3>2. RecordOK(records, NewRecord)
      BY <2>1, <3>1, InvisibleRecord
    <3> QED BY <3>2 DEF records
  <2> HIDE DEF NewRecord
  <2>3. \A i \in 1..count' : RecordOK(trace', trace'[i])
    BY <1>1, <1>4, <2>1, <2>2
  <2> QED BY <1>5, <2>1, <2>3 DEF StacksOK
<1> QED BY <1>6, <1>7, <1>8, <1>9 DEF Next, Plain, Branch, Call, HostCall, Return, FallOffEnd

\* The walk's invariant and the stacks hold of the composed system.
LEMMA WalkHolds ==
    ASSUME NEW rank, Layered(rank)
    PROVE  RSpec => [](TypeOK /\ WalkInvariant(rank))
<1> DEFINE WInv == TypeOK /\ WalkInvariant(rank)
<1>1. RInit => Init
  BY DEF RInit
<1>2. [RNext]_replayVars => [Next]_vars
  BY DEF RNext, Execute, Load, Move, replayVars
<1>3. Spec => []WInv
  BY WalkInvariantHolds
<1> HIDE DEF WInv
<1>4. RSpec => []WInv
  BY <1>1, <1>2, <1>3, PTL DEF RSpec, Spec
<1> QED BY <1>4 DEF WInv

LEMMA StacksHold ==
    ASSUME NEW rank, Layered(rank)
    PROVE  RSpec => []StacksOK
<1> DEFINE WInv == TypeOK /\ WalkInvariant(rank)
<1>1. RSpec => []WInv
  BY WalkHolds
<1>2. RInit => StacksOK
  <2> SUFFICES ASSUME RInit PROVE StacksOK
    OBVIOUS
  <2>1. seen = <<>> /\ count = 0 /\ Len(acts) = 1 /\ acts[1].site = 0
    BY DEF RInit, Init
  <2> QED BY <2>1 DEF StacksOK, Levels, AtLevel
<1>3. RInv /\ RInv' /\ WInv /\ StacksOK /\ [RNext]_replayVars => StacksOK'
  <2> SUFFICES ASSUME RInv, RInv', WInv, StacksOK, [RNext]_replayVars PROVE StacksOK'
    OBVIOUS
  <2>1. CASE Execute
    BY <2>1, StacksKept DEF RInv
  <2>2. CASE UNCHANGED <<vars, trace>>
    BY <2>2 DEF vars, StacksOK, Levels, AtLevel, RecordOK
  <2> QED BY <2>1, <2>2 DEF RNext, Load, Move, replayVars
<1> HIDE DEF WInv
<1> QED BY <1>1, <1>2, <1>3, InvariantHolds, PTL DEF RSpec

\* What is known of two records of the same activation, and of a callee's.
LEMMA SameActivation ==
    ASSUME TypeOK, TraceOK, StacksOK, NEW i \in 1..count, NEW j \in 1..count,
           trace[i].stack # <<>>, trace[j].stack # <<>>
    PROVE  /\ Site(i) = Site(j) => trace[i].depth = trace[j].depth
           /\ Callee(i, j) => trace[i].depth < trace[j].depth
<1> DEFINE s == trace[i].stack
           t == trace[j].stack
<1>1. /\ s \in Seq(Frame) /\ t \in Seq(Frame) /\ Levels(trace, s) /\ Levels(trace, t)
      /\ trace[i].depth = Len(s) - 1 /\ trace[j].depth = Len(t) - 1
  BY DEF StacksOK, RecordOK
<1>2. Len(s) \in Nat \ {0} /\ Len(t) \in Nat \ {0}
  BY <1>1, EmptySeq
<1>3. AtLevel(trace, Site(i), Len(s)) /\ AtLevel(trace, Site(j), Len(t))
  <2>1. Site(i) = s[Len(s)].site /\ Site(j) = t[Len(t)].site
    BY DEF Site, Last
  <2> HIDE DEF s, t
  <2>2. Len(s) \in 1..Len(s) /\ Len(t) \in 1..Len(t)
    BY <1>2
  <2> QED BY <1>1, <2>1, <2>2 DEF Levels
<1>4. DOMAIN trace = 1..count
  BY TraceDomain
<1>5. ASSUME Site(i) = Site(j) PROVE Len(s) = Len(t)
  <2> DEFINE site == Site(i)
  <2>1. AtLevel(trace, site, Len(s)) /\ AtLevel(trace, site, Len(t))
    BY <1>3, <1>5
  <2>2. 0 \notin DOMAIN trace
    BY <1>4
  <2> HIDE DEF site, s, t
  <2> QED BY <1>2, <2>1, <2>2 DEF AtLevel
<1>6. ASSUME Callee(i, j) PROVE Len(s) < Len(t)
  <2>1. Len(s) <= Len(t) /\ SubSeq(s, 1, Len(s)) = SubSeq(t, 1, Len(s)) /\ s # t
    BY <1>6 DEF Callee, IsStrictPrefix, IsPrefix
  <2>2. SubSeq(s, 1, Len(s)) = s /\ SubSeq(t, 1, Len(t)) = t
    BY <1>1, SubSeqFull
  <2> HIDE DEF s, t
  <2> QED BY <1>2, <2>1, <2>2
<1> HIDE DEF s, t
<1> QED BY <1>1, <1>2, <1>5, <1>6

-----------------------------------------------------------------------------
(***************************************************************************)
(* Steps and activations.                                                  *)
(***************************************************************************)

\* Where a step over and a step out land, in depths: from a visible record, at most as
\* deep as asked for, and a step over with nothing shallower or equal in between.
Points(m, gran) == IF gran = "statement" /\ m.stops # {} THEN m.stops ELSE m.visible

LandsBy(m, at, kind, gran, from) ==
    /\ m.visible # {} => from \in m.visible /\ at \in m.visible
    /\ gran = "statement" /\ m.stops # {} =>
        IF kind = "next" THEN m.depth[at] <= m.depth[from] ELSE m.depth[at] < m.depth[from]
    /\ kind = "next" => \A i \in Points(m, gran) : from < i /\ i < at => m.depth[i] > m.depth[from]

Landed ==
    Loaded /\ last.kind \in {"next", "stepOut"} /\ last.out = "stopped" /\ cursor > last.from =>
        LandsBy(stops, cursor, last.kind, last.gran, last.from)

LEMMA StepLands ==
    ASSUME CursorOK, CursorOK', NEW kind \in {"next", "stepOut"}, NEW gran, StepForward(kind, gran), cursor' > cursor,
           last'.out = "stopped"
    PROVE  LandsBy(stops', cursor', kind, gran, cursor)
<1> DEFINE P == StopPoints(gran)
           T == ForwardTargets(kind, gran)
<1>1. Loaded /\ IsStopModel(stops) /\ cursor \in 1..stops.n /\ stops.n \in Nat
  BY DEF StepForward, CursorOK, IsStopModel
<1>2. P \subseteq 1..stops.n /\ T \subseteq P /\ T \subseteq 1..stops.n
  BY <1>1, StopPointsProperties DEF ForwardTargets
<1>3. /\ \A i \in T : Within(kind, stops.depth[i])
      /\ \A i \in P : i > cursor /\ Within(kind, stops.depth[i]) => i \in T
  BY DEF ForwardTargets
<1>4. stops' = stops /\ \/ T # {} /\ cursor' = Min(T)
                        \/ T = {} /\ HasStatementStops(gran) /\ last'.out = "terminated"
                        \/ T = {} /\ ~HasStatementStops(gran)
  <2>1. \/ T # {} /\ Seek(Min(T), kind, gran, "stopped", {})
        \/ T = {} /\ HasStatementStops(gran) /\ Seek(cursor, kind, gran, "terminated", {})
        \/ T = {} /\ ~HasStatementStops(gran)
           /\ Seek(Clamped(P, Max(P)), kind, gran, "stopped", {})
    BY DEF StepForward
  <2> HIDE DEF P, T
  <2> QED BY <2>1, SeekFields
<1>5. P = Points(stops, gran) /\ (HasStatementStops(gran) <=> gran = "statement" /\ stops.stops # {})
  BY DEF StopPoints, HasStatementStops, Points
<1>6. stops.depth \in [1..stops.n -> Nat]
  BY <1>1 DEF IsStopModel
<1>7. stops'.visible # {} => cursor \in stops'.visible /\ cursor' \in stops'.visible
  BY <1>1, <1>4 DEF CursorOK, Loaded
<1> DEFINE Below(d) == IF kind = "next" THEN d <= stops.depth[cursor] ELSE d < stops.depth[cursor]
<1>8. \A i \in P : Within(kind, stops.depth[i]) <=> Below(stops.depth[i])
  <2> SUFFICES ASSUME NEW i \in P PROVE Within(kind, stops.depth[i]) <=> Below(stops.depth[i])
    OBVIOUS
  <2>1. stops.depth[i] \in Nat /\ stops.depth[cursor] \in Nat
    BY <1>1, <1>2, <1>6
  <2> QED BY <2>1 DEF Within, Depth
<1> HIDE DEF P, T
<1>9. HasStatementStops(gran) => Below(stops.depth[cursor'])
  <2> SUFFICES ASSUME HasStatementStops(gran) PROVE Below(stops.depth[cursor'])
    OBVIOUS
  <2>1. T # {} /\ cursor' = Min(T)
    BY <1>4
  <2>2. Min(T) \in T
    BY <1>1, <1>2, <2>1, PointsProperties
  <2> QED BY <1>2, <1>3, <1>8, <2>1, <2>2
<1>10. ASSUME kind = "next", NEW i \in P, cursor < i, i < cursor' PROVE stops.depth[i] > stops.depth[cursor]
  <2>1. i \notin T
    <3>1. CASE T # {} /\ cursor' = Min(T)
      <4>1. \A y \in T : Min(T) <= y
        BY <1>1, <1>2, <3>1, PointsProperties
      <4>2. Min(T) \in T
        BY <1>1, <1>2, <3>1, PointsProperties
      <4>3. i \in 1..stops.n /\ cursor' \in 1..stops.n
        BY <1>2, <1>10, <3>1, <4>2
      <4> QED BY <1>1, <1>10, <3>1, <4>1, <4>3
    <3>2. CASE T = {}
      BY <3>2
    <3> QED BY <1>4, <3>1, <3>2
  <2>2. i > cursor
    BY <1>1, <1>2, <1>10
  <2>3. ~(stops.depth[i] <= stops.depth[cursor])
    BY <1>3, <1>8, <1>10, <2>1, <2>2
  <2>4. stops.depth[i] \in Nat /\ stops.depth[cursor] \in Nat
    BY <1>1, <1>2, <1>6
  <2> QED BY <2>3, <2>4
<1> QED BY <1>4, <1>5, <1>7, <1>9, <1>10 DEF LandsBy

\* Every other step is no step over and no step out.
LEMMA LandedKept ==
    ASSUME CursorOK, CursorOK', Landed, [CursorNext]_cursorVars
    PROVE  Landed'
<1>1. CASE Attach
  BY <1>1 DEF Attach, NoMove, Landed
<1>2. ASSUME NEW kind \in ForwardSteps, NEW gran \in Granularities, StepForward(kind, gran) PROVE Landed'
  <2>1. last'.kind = kind /\ last'.gran = gran /\ last'.from = cursor
    BY <1>2, SeekFields DEF StepForward
  <2>2. SUFFICES ASSUME last'.kind \in {"next", "stepOut"}, last'.out = "stopped", cursor' > last'.from
                 PROVE  LandsBy(stops', cursor', last'.kind, last'.gran, last'.from)
    BY DEF Landed
  <2>3. kind \in {"next", "stepOut"} /\ cursor' > cursor
    BY <2>1, <2>2
  <2>4. LandsBy(stops', cursor', kind, gran, cursor)
    BY <1>2, <2>2, <2>3, StepLands
  <2> QED BY <2>1, <2>4
<1>3. ASSUME NEW gran \in Granularities, StepBackward(gran) PROVE Landed'
  <2>1. last'.kind = "stepBack"
    BY <1>3, SeekFields DEF StepBackward
  <2> QED BY <2>1 DEF Landed
<1>4. ASSUME NEW bps, RunForward(bps) \/ RunBackward(bps) PROVE Landed'
  <2>1. last'.kind \in {"continue", "reverse"}
    BY <1>4, SeekFields DEF RunForward, RunBackward
  <2> QED BY <2>1 DEF Landed
<1>5. CASE UNCHANGED cursorVars
  BY <1>5 DEF cursorVars, Landed, Loaded
<1> QED BY <1>1, <1>2, <1>3, <1>4, <1>5 DEF CursorNext

LEMMA LandedHolds == CursorSpec => [](CursorOK /\ Landed)
<1>1. CursorInit => Landed
  BY DEF CursorInit, Landed, Loaded
<1>2. Landed /\ CursorOK /\ CursorOK' /\ [CursorNext]_cursorVars => Landed'
  BY LandedKept
<1>3. CursorOK /\ Promises => CursorOK
  OBVIOUS
<1> QED BY <1>1, <1>2, <1>3, CursorCorrect, PTL DEF CursorSpec

\* What the recording knows of depths says what it means for activations.
LEMMA StepsFollow ==
    ASSUME RInv, StacksOK, CursorOK, Landed
    PROVE  StepsFollowActivations
<1> SUFFICES ASSUME Loaded, last.out = "stopped", cursor > last.from, stops.visible # {},
                    last.kind \in {"next", "stepOut"}
             PROVE  /\ HasStatementStops(last.gran) => ~Callee(last.from, cursor)
                    /\ last.kind = "next" =>
                        \A i \in StopPoints(last.gran) :
                            last.from < i /\ i < cursor => Site(i) # Site(last.from)
                    /\ last.kind = "stepOut" /\ HasStatementStops(last.gran) => Site(cursor) # Site(last.from)
  BY DEF StepsFollowActivations
<1> DEFINE from == last.from
<1>1. LandsBy(stops, cursor, last.kind, last.gran, from)
  BY DEF Landed
<1>2. ModelOf(stops)
  BY DEF RInv, SessionOK
<1>3. \A i \in stops.visible :
        /\ i \in 1..count /\ trace[i].stack # <<>>
        /\ stops.depth[i] = trace[i].depth /\ trace[i].depth \in Nat
  BY <1>2 DEF ModelOf, RInv, TraceOK, StacksOK, RecordOK
<1>4. from \in stops.visible /\ cursor \in stops.visible
  BY <1>1 DEF LandsBy
<1>5. \A i, j \in stops.visible :
        /\ Site(i) = Site(j) => trace[i].depth = trace[j].depth
        /\ Callee(i, j) => trace[i].depth < trace[j].depth
  BY <1>3, SameActivation DEF RInv
<1>6. StopPoints(last.gran) \subseteq stops.visible /\ StopPoints(last.gran) = Points(stops, last.gran)
  BY StopPointsProperties DEF StopPoints, HasStatementStops, Points
<1>7. HasStatementStops(last.gran) <=> last.gran = "statement" /\ stops.stops # {}
  BY DEF HasStatementStops
<1> HIDE DEF from
<1>8. HasStatementStops(last.gran) => ~Callee(from, cursor)
  <2> SUFFICES ASSUME HasStatementStops(last.gran), Callee(from, cursor) PROVE FALSE
    OBVIOUS
  <2>1. trace[from].depth < trace[cursor].depth
    BY <1>4, <1>5
  <2>2. stops.depth[cursor] <= stops.depth[from] \/ stops.depth[cursor] < stops.depth[from]
    BY <1>1, <1>7 DEF LandsBy
  <2> QED BY <1>3, <1>4, <2>1, <2>2
<1>9. ASSUME last.kind = "next", NEW i \in StopPoints(last.gran), from < i, i < cursor
      PROVE  Site(i) # Site(from)
  <2>1. stops.depth[i] > stops.depth[from]
    BY <1>1, <1>6, <1>9 DEF LandsBy
  <2> QED BY <1>3, <1>4, <1>5, <1>6, <1>9, <2>1
<1>10. ASSUME last.kind = "stepOut", HasStatementStops(last.gran) PROVE Site(cursor) # Site(from)
  <2>1. stops.depth[cursor] < stops.depth[from]
    BY <1>1, <1>7, <1>10 DEF LandsBy
  <2> QED BY <1>3, <1>4, <1>5, <2>1
<1> QED BY <1>8, <1>9, <1>10 DEF from

\* Without recursion, step over never stops in a callee and never skips a stop of its own
\* activation, and step out leaves it, for every program, recording and sequence of moves
\* (nextRequest and stepOutRequest over replayCursor.ts, docs/stepping.md S5 and S7).
THEOREM StepsAlwaysFollowActivations ==
    ASSUME NEW rank, Layered(rank)
    PROVE  RSpec => []StepsFollowActivations
<1>1. CursorImplemented => [](CursorOK /\ Landed)
  BY LandedHolds DEF CursorImplemented
<1>2. RInv /\ StacksOK /\ CursorOK /\ Landed => StepsFollowActivations
  BY StepsFollow
<1>3. RSpec => []StacksOK
  BY StacksHold
<1> QED BY <1>1, <1>2, <1>3, InvariantHolds, ReplayImplementsCursor, PTL

-----------------------------------------------------------------------------
(***************************************************************************)
(* Runs and activations.                                                   *)
(***************************************************************************)

\* What one iteration of computeRunStarts does to the runs.
CurrentRun(kept, d) == IF d \in DOMAIN kept THEN kept[d] ELSE NoRun
ExtendsRun(run, r) == run.key = r.line /\ r.pos \notin run.offsets

LEMMA RunStepRuns ==
    ASSUME NEW rs, NEW i, NEW r, r.depth \in Nat, r.pos # NoPos, r.line # NoLine
    PROVE  LET after == RunStep(rs, i, r)
               d == r.depth + 1
           IN  /\ DOMAIN after.runs = 1..d
               /\ \A k \in 1..r.depth : after.runs[k] = CurrentRun(rs.runs, k)
               /\ IF ExtendsRun(CurrentRun(rs.runs, d), r)
                  THEN /\ after.starts = rs.starts
                       /\ after.runs[d] = [key |-> r.line, offsets |-> CurrentRun(rs.runs, d).offsets \union {r.pos}]
                  ELSE /\ after.starts = Append(rs.starts, i)
                       /\ after.runs[d] = [key |-> r.line, offsets |-> {r.pos}]
<1> DEFINE d == r.depth + 1
           kept == [k \in 1..d |-> IF k \in DOMAIN rs.runs THEN rs.runs[k] ELSE NoRun]
           run == kept[d]
           extends == run.key = r.line /\ r.pos \notin run.offsets
           grown == [key |-> r.line, offsets |-> (IF extends THEN run.offsets ELSE {}) \union {r.pos}]
           after == RunStep(rs, i, r)
<1>1. /\ after.runs = [kept EXCEPT ![d] = grown]
      /\ after.starts = IF extends THEN rs.starts ELSE Append(rs.starts, i)
  BY DEF RunStep
<1>2. d \in 1..d /\ \A k \in 1..r.depth : k \in 1..d /\ k # d
  OBVIOUS
<1>3. run = CurrentRun(rs.runs, d) /\ \A k \in 1..r.depth : kept[k] = CurrentRun(rs.runs, k)
  BY <1>2 DEF CurrentRun
<1>4. extends <=> ExtendsRun(CurrentRun(rs.runs, d), r)
  BY <1>3 DEF ExtendsRun
<1>5. DOMAIN kept = 1..d
  OBVIOUS
<1> HIDE DEF kept, after, extends, run, d
<1>6. /\ DOMAIN after.runs = 1..d /\ after.runs[d] = grown
      /\ \A k \in 1..r.depth : after.runs[k] = kept[k]
  BY <1>1, <1>2, <1>5
<1>7. CASE extends
  BY <1>1, <1>3, <1>4, <1>6, <1>7 DEF after, d
<1>8. CASE ~extends
  <2>1. grown = [key |-> r.line, offsets |-> {r.pos}]
    BY <1>8
  <2> QED BY <1>1, <1>3, <1>4, <1>6, <1>8, <2>1 DEF after, d
<1> QED BY <1>7, <1>8

\* The record that a step writes: it has no line, or it is an instruction's of the
\* innermost activation.
LEMMA RecordWritten ==
    ASSUME NEW rank, Layered(rank), TypeOK, WalkInvariant(rank), TraceOK, TraceOK', StacksOK,
           Execute, count' # count
    PROVE  /\ count' = count + 1
           /\ runs' = RunStep(runs, count', trace'[count'])
           /\ \/ trace'[count'].line = NoLine /\ acts' = acts
              \/ /\ acts # <<>> /\ ~AtEnd(Last(acts))
                 /\ trace'[count'].line = Instr(Last(acts)).line
                 /\ trace'[count'].pos # NoPos
                 /\ trace'[count'].depth = Len(acts) - 1
                 /\ Last(trace'[count'].stack).site = acts[Len(acts)].site
<1> DEFINE records == trace'
<1>1. /\ count' = count + 1 /\ trace'[count'] = NewRecord
      /\ runs' = RunStep(runs, count', NewRecord)
  <2> HIDE DEF NewRecord
  <2> QED BY TraceGrows
<1>2. Next
  BY DEF Execute
<1>3. ASSUME NEW op, Trace(op)
      PROVE  /\ acts # <<>> /\ ~AtEnd(Last(acts))
             /\ NewRecord.line = Instr(Last(acts)).line
             /\ NewRecord.pos # NoPos
             /\ NewRecord.depth = Len(acts) - 1
             /\ Last(NewRecord.stack).site = acts[Len(acts)].site
  <2>1. /\ acts # <<>> /\ ~AtEnd(Last(acts)) /\ prog' = prog
        /\ rec'.vis = TRUE /\ rec'.fn = Last(acts).fn /\ rec'.off = Last(acts).pc
    BY <1>3 DEF Trace, Emit
  <2>2. /\ Sites(acts) \in Seq(Frame) /\ Len(Sites(acts)) = Len(acts) /\ Len(acts) \in Nat \ {0}
        /\ \A i \in 1..Len(acts) : Sites(acts)[i].site = acts[i].site
    BY <2>1, SitesOfActs, Innermost
  <2>3. walk'.stack = Sites(acts) /\ seen' = Sites(acts)
    BY <1>3, RecordStep
  <2>4. NewRecord.stack = Sites(acts) /\ NewRecord.depth = Len(acts) - 1
    <3>1. Sites(acts) # <<>>
      BY <2>2
    <3> QED BY <2>2, <2>3, <3>1 DEF NewRecord
  <2>5. NewRecord.line = Instr(Last(acts)).line
    BY <2>1 DEF NewRecord, Instr
  <2>6. NewRecord.pos # NoPos
    BY <2>1 DEF NewRecord, NoPos
  <2>7. Last(Sites(acts)).site = acts[Len(acts)].site
    BY <2>2 DEF Last
  <2> QED BY <2>1, <2>4, <2>5, <2>6, <2>7
<1>4. CASE \E op : Trace(op)
  <2> HIDE DEF NewRecord
  <2> QED BY <1>1, <1>3, <1>4
<1>5. CASE Invisible \/ Foreign
  <2>1. NewRecord.line = NoLine /\ acts' = acts
    BY <1>5, UnplacedStep DEF NewRecord
  <2> HIDE DEF NewRecord
  <2> QED BY <1>1, <2>1
<1>6. ~FallOffEnd
  BY <1>1 DEF FallOffEnd
<1> QED BY <1>1, <1>2, <1>4, <1>5, <1>6 DEF Next, Plain, Branch, Call, HostCall, Return

\* RunsTracked of one activation, over any recording: the starts of the activation that
\* record `site` created, and what the run kept for its depth k has to be.
SiteIn(records, j) == Last(records[j].stack).site
Begun(records, starts, site) == {j \in starts : SiteIn(records, j) = site}

SinceStart(records, n, site, start) ==
    {j \in start..n : records[j].line # NoLine /\ SiteIn(records, j) = site}
RunIn(records, n, site, start) ==
    [key |-> records[start].line, offsets |-> {records[j].pos : j \in SinceStart(records, n, site, start)}]

TrackedAt(records, starts, n, rs, site, k) ==
    IF Begun(records, starts, site) = {} THEN k \in DOMAIN rs => rs[k].key = NoLine
    ELSE k \in DOMAIN rs /\ rs[k] = RunIn(records, n, site, Max(Begun(records, starts, site)))

LEMMA RunsTrackedEach ==
    ASSUME NEW dark
    PROVE  RunsTracked(dark) <=>
            \A k \in DOMAIN acts : acts[k].fn \notin dark =>
                TrackedAt(trace, Starts, count, runs.runs, acts[k].site, k)
BY DEF RunsTracked, TrackedAt, Begun, RunIn, SinceStart, SiteIn, RunOf, Site, Mapped

\* The last of an activation's starts is one of them.
LEMMA LastBegun ==
    ASSUME NEW records, NEW n \in Nat, NEW starts, starts \subseteq 1..n, NEW site,
           Begun(records, starts, site) # {}
    PROVE  /\ Max(Begun(records, starts, site)) \in Begun(records, starts, site)
           /\ Max(Begun(records, starts, site)) \in 1..n
<1> DEFINE B == Begun(records, starts, site)
<1>1. B \subseteq 1..n /\ B \subseteq 0..n
  <2>1. B \subseteq starts
    BY DEF Begun
  <2> HIDE DEF B
  <2> QED BY <2>1
<1> HIDE DEF B
<1>2. B # {}
  BY DEF B
<1>3. Max(B) \in B
  BY <1>1, <1>2, MaxIsLargest
<1> QED BY <1>1, <1>3 DEF B

\* A record without a line, or of another activation, changes nothing for this one.
LEMMA OtherRunsStay ==
    ASSUME NEW T, NEW U, NEW n \in Nat, NEW m \in Nat, NEW S, S \subseteq 1..n, NEW V, NEW site,
           \A i \in 1..n : U[i] = T[i],
           m = n \/ (m = n + 1 /\ (U[m].line = NoLine \/ SiteIn(U, m) # site)),
           V = S \/ (V = S \union {m} /\ m = n + 1 /\ SiteIn(U, m) # site),
           NEW rs, NEW k, TrackedAt(T, S, n, rs, site, k),
           NEW rt, rt = rs \/ (k \in DOMAIN rt /\ rt[k] = IF k \in DOMAIN rs THEN rs[k] ELSE NoRun)
    PROVE  TrackedAt(U, V, m, rt, site, k)
<1>1. \A i \in 1..n : SiteIn(U, i) = SiteIn(T, i)
  BY DEF SiteIn
<1>2. Begun(U, V, site) = Begun(T, S, site)
  BY <1>1 DEF Begun
<1>3. CASE Begun(T, S, site) = {}
  BY <1>2, <1>3 DEF TrackedAt, NoRun
<1>4. CASE Begun(T, S, site) # {}
  <2> DEFINE start == Max(Begun(T, S, site))
  <2>1. start \in 1..n
    BY <1>4, LastBegun
  <2> HIDE DEF start
  <2>2. SinceStart(U, m, site, start) = SinceStart(T, n, site, start)
    BY <1>1, <2>1 DEF SinceStart
  <2>3. SinceStart(T, n, site, start) \subseteq 1..n
    BY <2>1 DEF SinceStart
  <2>4. {U[j].pos : j \in SinceStart(T, n, site, start)} = {T[j].pos : j \in SinceStart(T, n, site, start)}
    BY <2>3
  <2>5. RunIn(U, m, site, start) = RunIn(T, n, site, start)
    BY <2>1, <2>2, <2>4 DEF RunIn
  <2>6. k \in DOMAIN rs /\ rs[k] = RunIn(T, n, site, start)
    BY <1>4 DEF TrackedAt, start
  <2> QED BY <1>2, <1>4, <2>5, <2>6 DEF TrackedAt, start
<1> QED BY <1>3, <1>4

\* When the activation writes a record with a line: the run is extended exactly when it
\* has this line and the activation did not execute the instruction since its start.
SeenSince(records, n, site, start, pos) ==
    \E j \in SinceStart(records, n, site, start) : records[j].pos = pos

ContinuesRun(records, starts, n, site, r) ==
    /\ Begun(records, starts, site) # {}
    /\ records[Max(Begun(records, starts, site))].line = r.line
    /\ ~SeenSince(records, n, site, Max(Begun(records, starts, site)), r.pos)

LEMMA ExtendedWhen ==
    ASSUME NEW T, NEW n \in Nat, NEW S, S \subseteq 1..n, NEW site, NEW kept, NEW r, r.line # NoLine,
           NEW k, TrackedAt(T, S, n, kept, site, k)
    PROVE  ExtendsRun(CurrentRun(kept, k), r) <=> ContinuesRun(T, S, n, site, r)
<1>1. CASE Begun(T, S, site) = {}
  BY <1>1 DEF TrackedAt, ExtendsRun, CurrentRun, NoRun, ContinuesRun
<1>2. CASE Begun(T, S, site) # {}
  <2> DEFINE start == Max(Begun(T, S, site))
  <2>1. CurrentRun(kept, k) = RunIn(T, n, site, start)
    BY <1>2 DEF TrackedAt, CurrentRun
  <2> HIDE DEF start
  <2>2. ExtendsRun(CurrentRun(kept, k), r) <=> T[start].line = r.line /\ ~SeenSince(T, n, site, start, r.pos)
    BY <2>1 DEF ExtendsRun, RunIn, SeenSince
  <2> QED BY <1>2, <2>2 DEF start, ContinuesRun
<1> QED BY <1>1, <1>2

LEMMA OwnRunTracked ==
    ASSUME NEW T, NEW U, NEW n \in Nat, NEW S, S \subseteq 1..n, NEW V, NEW site, NEW kept, NEW rt, NEW r,
           \A i \in 1..n : U[i] = T[i],
           U[n + 1] = r, SiteIn(U, n + 1) = site, r.line # NoLine,
           NEW k, TrackedAt(T, S, n, kept, site, k),
           k \in DOMAIN rt,
           IF ExtendsRun(CurrentRun(kept, k), r)
           THEN V = S /\ rt[k] = [key |-> r.line, offsets |-> CurrentRun(kept, k).offsets \union {r.pos}]
           ELSE V = S \union {n + 1} /\ rt[k] = [key |-> r.line, offsets |-> {r.pos}]
    PROVE  TrackedAt(U, V, n + 1, rt, site, k)
<1> DEFINE B == Begun(T, S, site)
<1>1. \A i \in 1..n : SiteIn(U, i) = SiteIn(T, i)
  BY DEF SiteIn
<1>2. B \subseteq 1..n /\ Begun(U, S, site) = B
  BY <1>1 DEF Begun
<1>3. CASE ExtendsRun(CurrentRun(kept, k), r)
  <2> DEFINE start == Max(B)
  <2>1. B # {} /\ T[start].line = r.line
    <3>1. ContinuesRun(T, S, n, site, r)
      BY <1>3, ExtendedWhen
    <3> QED BY <3>1 DEF ContinuesRun
  <2>2. start \in 1..n
    BY <2>1, LastBegun
  <2>3. CurrentRun(kept, k) = RunIn(T, n, site, start)
    BY <2>1 DEF TrackedAt, CurrentRun
  <2> HIDE DEF B, start
  <2>4. SinceStart(U, n + 1, site, start) = SinceStart(T, n, site, start) \union {n + 1}
    BY <1>1, <2>2 DEF SinceStart
  <2>5. SinceStart(T, n, site, start) \subseteq 1..n
    BY <2>2 DEF SinceStart
  <2>6. {U[j].pos : j \in SinceStart(U, n + 1, site, start)}
            = {T[j].pos : j \in SinceStart(T, n, site, start)} \union {r.pos}
    BY <2>4, <2>5
  <2>7. rt[k] = RunIn(U, n + 1, site, start)
    <3>1. /\ rt[k] = [key |-> r.line, offsets |-> CurrentRun(kept, k).offsets \union {r.pos}]
          /\ CurrentRun(kept, k).offsets = {T[j].pos : j \in SinceStart(T, n, site, start)}
      BY <1>3, <2>3 DEF RunIn
    <3>2. U[start].line = r.line
      BY <2>1, <2>2 DEF start
    <3> QED BY <2>6, <3>1, <3>2 DEF RunIn
  <2> QED BY <1>2, <1>3, <2>1, <2>7 DEF TrackedAt, start
<1>4. CASE ~ExtendsRun(CurrentRun(kept, k), r)
  <2> DEFINE C == Begun(U, V, site)
  <2>1. C = B \union {n + 1}
    BY <1>2, <1>4 DEF Begun
  <2> HIDE DEF B, C
  <2>2. C \subseteq 0..(n + 1) /\ C # {} /\ n + 1 \in C
    BY <1>2, <2>1
  <2>3. Max(C) = n + 1
    <3>1. n + 1 \in Nat
      OBVIOUS
    <3>2. Max(C) \in C /\ \A y \in C : y <= Max(C)
      BY <2>2, <3>1, MaxIsLargest
    <3>3. Max(C) \in 0..(n + 1) /\ n + 1 <= Max(C)
      BY <2>2, <3>2
    <3> QED BY <3>3
  <2>4. SinceStart(U, n + 1, site, n + 1) = {n + 1}
    BY DEF SinceStart
  <2>5. rt[k] = RunIn(U, n + 1, site, n + 1)
    BY <1>4, <2>4 DEF RunIn
  <2> QED BY <2>2, <2>3, <2>5 DEF TrackedAt, C
<1> QED BY <1>3, <1>4

\* Call sites are records already written, and those of live activations differ.
LEMMA SitesWritten ==
    ASSUME TypeOK, TraceOK, StacksOK
    PROVE  /\ \A k \in 1..Len(acts) : acts[k].site \in 0..count
           /\ \A k, m \in 1..Len(acts) : k # m => acts[k].site # acts[m].site
           /\ \A i \in 1..count : trace[i].stack # <<>> => SiteIn(trace, i) \in 0..count
<1>1. DOMAIN trace = 1..count /\ count \in Nat /\ Len(acts) \in Nat
  BY TraceDomain, LenProperties DEF TypeOK
<1>2. ASSUME NEW site, NEW k, AtLevel(trace, site, k) PROVE site \in 0..count
  BY <1>1, <1>2 DEF AtLevel
<1>3. \A k \in 1..Len(acts) : AtLevel(trace, acts[k].site, k)
  BY DEF StacksOK, Levels
<1>4. ASSUME NEW k \in 1..Len(acts), NEW m \in 1..Len(acts), acts[k].site = acts[m].site PROVE k = m
  <2> DEFINE site == acts[k].site
  <2>1. AtLevel(trace, site, k) /\ AtLevel(trace, site, m)
    BY <1>3, <1>4
  <2>2. 0 \notin DOMAIN trace
    BY <1>1
  <2> HIDE DEF site
  <2> QED BY <1>1, <2>1, <2>2 DEF AtLevel
<1>5. ASSUME NEW i \in 1..count, trace[i].stack # <<>> PROVE SiteIn(trace, i) \in 0..count
  <2> DEFINE s == trace[i].stack
  <2>1. s \in Seq(Frame) /\ Levels(trace, s) /\ s # <<>>
    BY <1>5 DEF StacksOK, RecordOK
  <2>2. SiteIn(trace, i) = s[Len(s)].site
    BY DEF SiteIn, Last
  <2> HIDE DEF s
  <2>3. Len(s) \in 1..Len(s)
    BY <2>1, EmptySeq
  <2>4. AtLevel(trace, SiteIn(trace, i), Len(s))
    BY <2>1, <2>2, <2>3 DEF Levels
  <2> QED BY <1>2, <2>4
<1> QED BY <1>2, <1>3, <1>4, <1>5

\* A callee's function has lines only if its call does.
LEMMA CalleeShown ==
    ASSUME TypeOK, acts # <<>>, ~AtEnd(Last(acts)), NEW dark, CallsHaveLines(dark)
    PROVE  /\ Last(acts).fn \in dark => Instr(Last(acts)).line = NoLine
           /\ Instr(Last(acts)).op = "call" /\ Instr(Last(acts)).line = NoLine =>
                Instr(Last(acts)).to \in dark
<1> DEFINE f == Last(acts).fn
           k == Last(acts).pc
<1>1. prog \in Programs /\ f \in DOMAIN prog.body /\ k \in DOMAIN prog.body[f]
  BY Innermost, InstrProperties DEF Act
<1>2. Instr(Last(acts)) = prog.body[f][k]
  BY DEF Instr
<1> HIDE DEF f, k
<1>3. /\ f \in dark => prog.body[f][k].line = NoLine
      /\ prog.body[f][k].op = "call" /\ prog.body[f][k].line = NoLine => prog.body[f][k].to \in dark
  BY <1>1 DEF CallsHaveLines
<1> QED BY <1>2, <1>3 DEF f

\* A step that starts no run and writes no line.
LEMMA TrackedWithoutLine ==
    ASSUME TypeOK, TraceOK, NEW dark, CallsHaveLines(dark), RunsTracked(dark), Next,
           count' = count \/ (count' = count + 1 /\ trace'[count'].line = NoLine),
           \A i \in 1..count : trace'[i] = trace[i],
           runs' = runs,
           Call => acts # <<>> /\ ~AtEnd(Last(acts)) /\ Instr(Last(acts)).line = NoLine
    PROVE  RunsTracked(dark)'
<1>1. count \in Nat /\ count' \in Nat /\ DOMAIN acts = 1..Len(acts)
  BY LenProperties DEF TypeOK
<1>2. Starts \subseteq 1..count /\ Starts' = Starts
  BY DEF TraceOK, Starts
<1>3. ASSUME NEW k \in 1..Len(acts'), acts'[k].fn \notin dark
      PROVE  TrackedAt(trace', Starts', count', runs'.runs, acts'[k].site, k)
  <2>1. k \in 1..Len(acts) /\ acts'[k].site = acts[k].site /\ acts'[k].fn = acts[k].fn
    <3>1. CASE Call /\ acts'[k].fn = Instr(Last(acts)).to
      <4>1. Instr(Last(acts)).op = "call"
        BY <3>1 DEF Call, Trace
      <4> QED BY <1>3, <3>1, <4>1, CalleeShown
    <3> QED BY <3>1, ActsAfter
  <2>2. TrackedAt(trace, Starts, count, runs.runs, acts[k].site, k)
    BY <1>1, <1>3, <2>1, RunsTrackedEach
  <2> DEFINE T == trace
             U == trace'
             n == count
             m == count'
             S == Starts
             V == Starts'
             site == acts[k].site
             rs == runs.runs
             rt == runs'.runs
  <2>3. /\ n \in Nat /\ m \in Nat /\ S \subseteq 1..n /\ V = S /\ rt = rs
        /\ \A i \in 1..n : U[i] = T[i]
        /\ m = n \/ (m = n + 1 /\ (U[m].line = NoLine \/ SiteIn(U, m) # site))
        /\ TrackedAt(T, S, n, rs, site, k)
    BY <1>1, <1>2, <2>2
  <2> HIDE DEF T, U, n, m, S, V, site, rs, rt
  <2>4. TrackedAt(U, V, m, rt, site, k)
    BY <2>3, OtherRunsStay
  <2> QED BY <2>1, <2>4 DEF U, V, m, rt, site
<1>4. DOMAIN acts' = 1..Len(acts')
  BY TypeStep, LenProperties DEF TypeOK
<1> QED BY <1>3, <1>4 DEF RunsTracked, TrackedAt, Begun, RunIn, SinceStart, SiteIn, RunOf, Site, Mapped

\* Adding a run start to the list adds it to the set.
LEMMA StartAdded ==
    ASSUME NEW s, s \in Seq(Nat), NEW i \in Nat
    PROVE  ToSet(Append(s, i)) = ToSet(s) \union {i}
<1>1. /\ DOMAIN s = 1..Len(s) /\ Len(s) \in Nat
      /\ Append(s, i) \in Seq(Nat) /\ Len(Append(s, i)) = Len(s) + 1
      /\ \A k \in 1..Len(s) : Append(s, i)[k] = s[k]
      /\ Append(s, i)[Len(s) + 1] = i
  BY LenProperties, AppendProperties
<1>2. DOMAIN Append(s, i) = 1..(Len(s) + 1)
  BY <1>1, LenProperties
<1>3. ASSUME NEW x \in ToSet(s) PROVE x \in ToSet(Append(s, i))
  <2>1. PICK k \in DOMAIN s : x = s[k]
    BY DEF ToSet
  <2>2. k \in DOMAIN Append(s, i) /\ Append(s, i)[k] = x
    BY <1>1, <1>2, <2>1
  <2> QED BY <2>2 DEF ToSet
<1>4. i \in ToSet(Append(s, i))
  <2>1. Len(s) + 1 \in DOMAIN Append(s, i)
    BY <1>1, <1>2
  <2> QED BY <1>1, <2>1 DEF ToSet
<1>5. ASSUME NEW x \in ToSet(Append(s, i)) PROVE x \in ToSet(s) \union {i}
  <2>1. PICK k \in DOMAIN Append(s, i) : x = Append(s, i)[k]
    BY DEF ToSet
  <2>2. CASE k = Len(s) + 1
    BY <1>1, <2>1, <2>2
  <2>3. CASE k \in DOMAIN s
    BY <1>1, <2>1, <2>3 DEF ToSet
  <2> QED BY <1>1, <1>2, <2>1, <2>2, <2>3
<1> QED BY <1>3, <1>4, <1>5

\* A record with a line: the runs below it stay, its own is extended or replaced, and
\* those above it are dropped, where a call it makes begins.
LEMMA TrackedWithLine ==
    ASSUME TypeOK, TypeOK', TraceOK, StacksOK, NEW dark, CallsHaveLines(dark), RunsTracked(dark), Next,
           count' = count + 1, \A i \in 1..count : trace'[i] = trace[i],
           runs' = RunStep(runs, count', trace'[count']),
           trace'[count'].line # NoLine, trace'[count'].pos # NoPos,
           acts # <<>>, ~AtEnd(Last(acts)), trace'[count'].line = Instr(Last(acts)).line,
           trace'[count'].depth = Len(acts) - 1, SiteIn(trace', count') = acts[Len(acts)].site
    PROVE  /\ RunsTracked(dark)'
           /\ TrackedAt(trace, Starts, count, runs.runs, acts[Len(acts)].site, Len(acts))
           /\ Starts' = IF ExtendsRun(CurrentRun(runs.runs, Len(acts)), trace'[count']) THEN Starts ELSE Starts \union {count'}
<1> DEFINE n == count
           T == trace
           U == trace'
           r == trace'[count']
           S == Starts
           V == Starts'
           L == Len(acts)
           rs == runs
           rt == runs'
           Site0(k) == acts[k].site
           Site1(k) == acts'[k].site
<1>1. /\ n \in Nat /\ L \in Nat \ {0} /\ DOMAIN acts = 1..L /\ DOMAIN acts' = 1..Len(acts')
      /\ S \subseteq 1..n /\ runs.starts \in Seq(Nat) /\ count' = n + 1
  <2>1. L \in Nat \ {0} /\ DOMAIN acts = 1..L /\ DOMAIN acts' = 1..Len(acts')
    BY EmptySeq, LenProperties DEF TypeOK
  <2> QED BY <2>1 DEF TypeOK, TraceOK, Starts
<1>2. /\ \A i \in 1..n : U[i] = T[i]
      /\ U[n + 1] = r /\ SiteIn(U, n + 1) = Site0(L) /\ r.line # NoLine /\ r.pos # NoPos
      /\ r.depth = L - 1 /\ r.depth \in Nat /\ L = r.depth + 1
      /\ rt = RunStep(rs, n + 1, r)
  BY <1>1
<1>3. acts[L].fn \notin dark
  <2>1. Last(acts) = acts[L]
    BY DEF Last
  <2> QED BY <2>1, CalleeShown
<1>4. \A k \in 1..L : acts[k].fn \notin dark => TrackedAt(T, S, n, rs.runs, Site0(k), k)
  BY <1>1, RunsTrackedEach
<1>5. /\ DOMAIN rt.runs = 1..L
      /\ \A k \in 1..(L - 1) : rt.runs[k] = CurrentRun(rs.runs, k)
      /\ IF ExtendsRun(CurrentRun(rs.runs, L), r)
         THEN /\ rt.starts = rs.starts
              /\ rt.runs[L] = [key |-> r.line, offsets |-> CurrentRun(rs.runs, L).offsets \union {r.pos}]
         ELSE /\ rt.starts = Append(rs.starts, n + 1)
              /\ rt.runs[L] = [key |-> r.line, offsets |-> {r.pos}]
  <2> DEFINE after == RunStep(rs, n + 1, r)
  <2>1. /\ DOMAIN after.runs = 1..(r.depth + 1)
        /\ \A k \in 1..r.depth : after.runs[k] = CurrentRun(rs.runs, k)
        /\ IF ExtendsRun(CurrentRun(rs.runs, r.depth + 1), r)
           THEN /\ after.starts = rs.starts
                /\ after.runs[r.depth + 1] =
                    [key |-> r.line, offsets |-> CurrentRun(rs.runs, r.depth + 1).offsets \union {r.pos}]
           ELSE /\ after.starts = Append(rs.starts, n + 1)
                /\ after.runs[r.depth + 1] = [key |-> r.line, offsets |-> {r.pos}]
    <3>1. r.depth \in Nat /\ r.pos # NoPos /\ r.line # NoLine
      BY <1>2
    <3> HIDE DEF r, rs, n, after
    <3>2. after = RunStep(rs, n + 1, r)
      BY DEF after
    <3> QED BY ONLY <3>1, <3>2, RunStepRuns
  <2>2. rt = after /\ r.depth = L - 1 /\ r.depth + 1 = L
    BY <1>2
  <2> HIDE DEF r, rs, rt, n, L, after
  <2> QED BY <2>1, <2>2
<1>6. V = IF ExtendsRun(CurrentRun(rs.runs, L), r) THEN S ELSE S \union {n + 1}
  <2>1. CASE ExtendsRun(CurrentRun(rs.runs, L), r)
    BY <1>5, <2>1 DEF Starts
  <2>2. CASE ~ExtendsRun(CurrentRun(rs.runs, L), r)
    <3>1. rt.starts = Append(rs.starts, n + 1)
      BY <1>5, <2>2
    <3>2. ToSet(Append(rs.starts, n + 1)) = ToSet(rs.starts) \union {n + 1}
      <4> DEFINE started == rs.starts
                 next == n + 1
      <4>1. started \in Seq(Nat) /\ next \in Nat
        BY <1>1
      <4> HIDE DEF started, next
      <4>2. ToSet(Append(started, next)) = ToSet(started) \union {next}
        BY <4>1, StartAdded
      <4> QED BY <4>2 DEF started, next
    <3> QED BY <2>2, <3>1, <3>2 DEF Starts
  <2> QED BY <2>1, <2>2
<1>7. /\ \A k \in 1..L : Site0(k) \in 0..n
      /\ \A k \in 1..L : k # L => Site0(k) # Site0(L)
      /\ \A i \in S : SiteIn(T, i) \in 0..n
  <2>1. \A i \in S : i \in 1..count /\ trace[i].stack # <<>>
    BY DEF Starts, TraceOK, StacksOK, RecordOK
  <2>2. /\ \A k \in 1..Len(acts) : acts[k].site \in 0..count
        /\ \A k, m \in 1..Len(acts) : k # m => acts[k].site # acts[m].site
        /\ \A i \in 1..count : trace[i].stack # <<>> => SiteIn(trace, i) \in 0..count
    BY SitesWritten
  <2>3. \A i \in S : SiteIn(T, i) \in 0..n
    BY <2>1, <2>2
  <2>4. L \in 1..L
    BY <1>1
  <2> HIDE DEF SiteIn
  <2> QED BY <2>2, <2>3, <2>4
<1>8. \A k \in 1..Len(acts') :
        \/ k \in 1..L /\ Site1(k) = Site0(k) /\ acts'[k].fn = acts[k].fn
        \/ k = L + 1 /\ Site1(k) = n + 1
  BY ActsAfter
<1>9. ASSUME NEW k \in 1..L, k # L, acts[k].fn \notin dark PROVE TrackedAt(U, V, n + 1, rt.runs, Site0(k), k)
  <2> DEFINE site == Site0(k)
             rsr == rs.runs
             rtr == rt.runs
  <2>1. SiteIn(U, n + 1) # site
    BY <1>2, <1>7, <1>9
  <2>2. V = S \/ (V = S \union {n + 1} /\ n + 1 = n + 1 /\ SiteIn(U, n + 1) # site)
    BY <1>6, <2>1
  <2>3. k \in DOMAIN rtr /\ rtr[k] = IF k \in DOMAIN rsr THEN rsr[k] ELSE NoRun
    <3>1. k \in 1..(L - 1) /\ k \in DOMAIN rtr
      <4>1. DOMAIN rtr = 1..L /\ L \in Nat
        BY <1>1, <1>5
      <4> HIDE DEF L, rtr
      <4> QED BY <1>9, <4>1
    <3>2. rtr[k] = CurrentRun(rs.runs, k)
      BY <1>5, <3>1
    <3> QED BY <3>1, <3>2 DEF CurrentRun
  <2>4. TrackedAt(T, S, n, rsr, site, k)
    BY <1>4, <1>9
  <2>5. n + 1 \in Nat /\ n \in Nat /\ S \subseteq 1..n /\ \A i \in 1..n : U[i] = T[i]
    BY <1>1, <1>2
  <2> HIDE DEF n, T, U, S, V, site, rsr, rtr
  <2>6. TrackedAt(U, V, n + 1, rtr, site, k)
    BY <2>1, <2>2, <2>3, <2>4, <2>5, OtherRunsStay
  <2> QED BY <2>6 DEF site, rtr
<1>10. TrackedAt(T, S, n, rs.runs, Site0(L), L)
  BY <1>1, <1>3, <1>4
<1>11. TrackedAt(U, V, n + 1, rt.runs, Site0(L), L)
  <2> DEFINE site == Site0(L)
             rtr == rt.runs
  <2>1. /\ TrackedAt(T, S, n, rs.runs, site, L)
        /\ \A i \in 1..n : U[i] = T[i]
        /\ U[n + 1] = r /\ SiteIn(U, n + 1) = site /\ r.line # NoLine
        /\ n \in Nat /\ S \subseteq 1..n /\ L = r.depth + 1 /\ L \in DOMAIN rtr
    BY <1>1, <1>2, <1>5, <1>10
  <2>2. IF ExtendsRun(CurrentRun(rs.runs, L), r)
        THEN V = S /\ rtr[L] = [key |-> r.line, offsets |-> CurrentRun(rs.runs, L).offsets \union {r.pos}]
        ELSE V = S \union {n + 1} /\ rtr[L] = [key |-> r.line, offsets |-> {r.pos}]
    BY <1>5, <1>6
  <2> DEFINE kept == rs.runs
  <2>3. /\ TrackedAt(T, S, n, kept, site, L)
        /\ IF ExtendsRun(CurrentRun(kept, L), r)
           THEN V = S /\ rtr[L] = [key |-> r.line, offsets |-> CurrentRun(kept, L).offsets \union {r.pos}]
           ELSE V = S \union {n + 1} /\ rtr[L] = [key |-> r.line, offsets |-> {r.pos}]
    BY <2>1, <2>2
  <2> HIDE DEF n, T, U, S, V, site, rs, rtr, r, L, kept
  <2>4. TrackedAt(U, V, n + 1, rtr, site, L)
    BY <2>1, <2>3, OwnRunTracked
  <2> QED BY <2>4 DEF site, rtr
<1>12. ASSUME NEW k, k = L + 1 PROVE TrackedAt(U, V, n + 1, rt.runs, n + 1, k)
  <2>1. \A i \in V : SiteIn(U, i) \in 0..n
    <3>1. \A i \in S : SiteIn(U, i) = SiteIn(T, i)
      BY <1>1, <1>2 DEF SiteIn
    <3>2. SiteIn(U, n + 1) \in 0..n
      <4>1. L \in 1..L /\ SiteIn(U, n + 1) = Site0(L)
        BY <1>1, <1>2
      <4> HIDE DEF L, n, U, Site0
      <4> QED BY <1>7, <4>1
    <3> QED BY <1>6, <1>7, <3>1, <3>2
  <2>2. Begun(U, V, n + 1) = {}
    BY <1>1, <2>1 DEF Begun
  <2>3. k \notin DOMAIN rt.runs
    BY <1>1, <1>5, <1>12
  <2> QED BY <2>2, <2>3 DEF TrackedAt
<1>13. \A k \in DOMAIN acts' : acts'[k].fn \notin dark => TrackedAt(U, V, n + 1, rt.runs, Site1(k), k)
  <2> SUFFICES ASSUME NEW k \in 1..Len(acts'), acts'[k].fn \notin dark
               PROVE  TrackedAt(U, V, n + 1, rt.runs, Site1(k), k)
    BY <1>1
  <2>1. CASE k = L + 1 /\ Site1(k) = n + 1
    BY <1>12, <2>1
  <2>2. CASE k \in 1..L /\ Site1(k) = Site0(k) /\ acts'[k].fn = acts[k].fn
    <3>1. CASE k = L
      BY <1>11, <2>2, <3>1
    <3>2. CASE k # L
      BY <1>9, <2>2, <3>2
    <3> QED BY <3>1, <3>2
  <2> QED BY <1>8, <2>1, <2>2
<1>14. \A k \in DOMAIN acts' : acts'[k].fn \notin dark =>
            TrackedAt(trace', Starts', count', runs'.runs, acts'[k].site, k)
  BY <1>1, <1>13
<1>15. RunsTracked(dark)'
  BY <1>14 DEF RunsTracked, TrackedAt, Begun, RunIn, SinceStart, SiteIn, RunOf, Site, Mapped
<1> QED BY <1>1, <1>6, <1>10, <1>15

\* IsExecution, over any recording.
Earlier(records, starts, i) == {j \in starts : j < i /\ SiteIn(records, j) = SiteIn(records, i)}

Again(records, i, start) ==
    \/ records[start].line # records[i].line
    \/ \E j \in start..(i - 1) :
        /\ records[j].line # NoLine /\ SiteIn(records, j) = SiteIn(records, i)
        /\ records[j].pos = records[i].pos

ExecutionIn(records, starts, i) ==
    /\ records[i].line # NoLine
    /\ Earlier(records, starts, i) = {} \/ Again(records, i, Max(Earlier(records, starts, i)))

LEMMA ExecutionsIn == RunsMatchActivations <=> Starts = {i \in DOMAIN trace : ExecutionIn(trace, Starts, i)}
<1>1. \A i : IsExecution(i) <=> ExecutionIn(trace, Starts, i)
  BY DEF IsExecution, ExecutionIn, Earlier, Again, SiteIn, Site, Mapped
<1> QED BY <1>1 DEF RunsMatchActivations, Executions

\* What is written later does not change whether a record was an execution.
LEMMA ExecutionStays ==
    ASSUME NEW T, NEW U, NEW n \in Nat, NEW S, S \subseteq 1..n, NEW V,
           \A i \in 1..n : U[i] = T[i], V = S \/ V = S \union {n + 1},
           NEW i \in 1..n
    PROVE  ExecutionIn(U, V, i) <=> ExecutionIn(T, S, i)
<1>1. \A j \in 1..n : SiteIn(U, j) = SiteIn(T, j)
  BY DEF SiteIn
<1>2. Earlier(U, V, i) = Earlier(T, S, i)
  <2>1. \A j : j \in V /\ j < i <=> j \in S /\ j < i
    OBVIOUS
  <2>2. \A j \in S : SiteIn(U, j) = SiteIn(T, j)
    BY <1>1
  <2> QED BY <1>1, <2>1, <2>2 DEF Earlier
<1>3. CASE Earlier(T, S, i) = {}
  BY <1>2, <1>3 DEF ExecutionIn
<1>4. CASE Earlier(T, S, i) # {}
  <2> DEFINE E == Earlier(T, S, i)
             start == Max(E)
  <2>1. E \subseteq 1..n
    BY DEF Earlier
  <2> HIDE DEF E
  <2>2. E \subseteq 0..n /\ E # {}
    BY <1>4, <2>1 DEF E
  <2>3. start \in E
    BY <2>2, MaxIsLargest
  <2>4. start \in 1..n
    BY <2>1, <2>3
  <2> HIDE DEF start
  <2>5. Again(U, i, start) <=> Again(T, i, start)
    <3>1. \A j \in start..(i - 1) : j \in 1..n
      BY <2>4
    <3> QED BY <1>1, <2>4, <3>1 DEF Again
  <2> QED BY <1>2, <2>5 DEF ExecutionIn, start, E
<1> QED BY <1>3, <1>4

\* A new record with a line is an execution unless it extends the activation's run.
LEMMA ExecutionNew ==
    ASSUME NEW T, NEW U, NEW n \in Nat, NEW S, S \subseteq 1..n, NEW V,
           \A i \in 1..n : U[i] = T[i], V = S \/ V = S \union {n + 1},
           NEW r, U[n + 1] = r, r.line # NoLine, NEW site, SiteIn(U, n + 1) = site
    PROVE  ExecutionIn(U, V, n + 1) <=> ~ContinuesRun(T, S, n, site, r)
<1> DEFINE B == Begun(T, S, site)
<1>1. \A j \in 1..n : SiteIn(U, j) = SiteIn(T, j)
  BY DEF SiteIn
<1>2. Earlier(U, V, n + 1) = B
  <2>1. \A j : j \in V /\ j < n + 1 <=> j \in S
    <3>1. \A j \in S : j \in 1..n /\ j < n + 1
      OBVIOUS
    <3>2. ~(n + 1 < n + 1)
      OBVIOUS
    <3>3. CASE V = S
      BY <3>1, <3>3
    <3>4. CASE V = S \union {n + 1}
      <4>1. \A j : j \in V <=> j \in S \/ j = n + 1
        BY <3>4
      <4> QED BY <3>1, <3>2, <4>1
    <3> QED BY <3>3, <3>4
  <2>2. \A j \in S : SiteIn(U, j) = SiteIn(T, j)
    BY <1>1
  <2> QED BY <2>1, <2>2 DEF Earlier, Begun
<1>3. CASE B = {}
  BY <1>2, <1>3 DEF ExecutionIn, ContinuesRun
<1>4. CASE B # {}
  <2> DEFINE start == Max(B)
  <2>1. start \in 1..n
    BY <1>4, LastBegun
  <2> HIDE DEF B, start
  <2>2. Again(U, n + 1, start) <=> T[start].line # r.line \/ SeenSince(T, n, site, start, r.pos)
    <3>1. start..((n + 1) - 1) = start..n /\ \A j \in start..n : j \in 1..n
      BY <2>1
    <3>2. (\E j \in start..n : /\ U[j].line # NoLine /\ SiteIn(U, j) = SiteIn(U, n + 1)
                               /\ U[j].pos = U[n + 1].pos)
            <=> SeenSince(T, n, site, start, r.pos)
      BY <1>1, <3>1 DEF SeenSince, SinceStart
    <3> QED BY <2>1, <3>1, <3>2 DEF Again
  <2> QED BY <1>2, <1>4, <2>2 DEF ExecutionIn, ContinuesRun, start, B
<1> QED BY <1>3, <1>4

\* A call is never a step that leaves the activations as they are.
LEMMA CallGrows ==
    ASSUME TypeOK, Call
    PROVE  acts' # acts
<1> DEFINE new == [fn |-> Instr(Last(acts)).to, pc |-> 1, site |-> count + 1]
           base == Advance(Last(acts).pc + 1)
<1>1. /\ acts' = Append(base, new)
      /\ acts # <<>> /\ Instr(Last(acts)).op = "call" /\ ~AtEnd(Last(acts))
  BY DEF Call, Trace
<1>2. count + 1 \in Nat /\ Len(acts) \in Nat /\ Last(acts).pc + 1 \in Nat \ {0}
  <2>1. Len(acts) \in Nat /\ Last(acts).pc \in Nat \ {0}
    BY <1>1, Innermost DEF Act
  <2> QED BY <2>1 DEF TypeOK
<1>3. new \in Act(prog)
  BY <1>1, <1>2, InstrProperties DEF Act
<1>4. base \in Seq(Act(prog)) /\ Len(base) = Len(acts)
  BY <1>1, <1>2, AdvanceProperties
<1> HIDE DEF new, base
<1>5. Len(acts') = Len(acts) + 1
  BY <1>1, <1>3, <1>4, AppendProperties
<1> QED BY <1>2, <1>5

LEMMA RunsKept ==
    ASSUME NEW rank, Layered(rank), NEW dark, CallsHaveLines(dark), TypeOK, TypeOK', WalkInvariant(rank),
           TraceOK, TraceOK', StacksOK, RunsTracked(dark), RunsMatchActivations, Execute
    PROVE  RunsTracked(dark)' /\ RunsMatchActivations'
<1> DEFINE r == trace'[count']
           U == trace'
           V == Starts'
<1>1. /\ count \in Nat /\ count' \in Nat /\ Starts \subseteq 1..count
      /\ DOMAIN trace = 1..count /\ DOMAIN trace' = 1..count'
      /\ \A i \in 1..count : trace'[i] = trace[i]
  <2>1. DOMAIN trace' = 1..count'
    BY LenProperties DEF TraceOK
  <2>2. \A i \in 1..count : trace'[i] = trace[i]
    <3> HIDE DEF NewRecord
    <3> QED BY TraceGrows
  <2> QED BY <2>1, <2>2, TraceDomain DEF TypeOK, TraceOK, Starts
<1>2. Next
  BY DEF Execute
<1>3. Starts = {i \in 1..count : ExecutionIn(trace, Starts, i)}
  BY <1>1, ExecutionsIn
<1>4. ASSUME count' = count + 1, V = Starts \/ V = Starts \union {count + 1},
             count + 1 \in V <=> ExecutionIn(U, V, count + 1)
      PROVE  RunsMatchActivations'
  <2>1. \A i \in 1..count : ExecutionIn(U, V, i) <=> ExecutionIn(trace, Starts, i)
    <3> SUFFICES ASSUME NEW i \in 1..count PROVE ExecutionIn(U, V, i) <=> ExecutionIn(trace, Starts, i)
      OBVIOUS
    <3> DEFINE T == trace
               n == count
               S == Starts
    <3>1. n \in Nat /\ S \subseteq 1..n /\ i \in 1..n /\ (V = S \/ V = S \union {n + 1}) /\ \A j \in 1..n : U[j] = T[j]
      BY <1>1, <1>4
    <3> HIDE DEF T, U, S, V, n
    <3>2. ExecutionIn(U, V, i) <=> ExecutionIn(T, S, i)
      BY <3>1, ExecutionStays
    <3> QED BY <3>2 DEF T, S
  <2>2. V = {i \in 1..(count + 1) : ExecutionIn(U, V, i)}
    <3> HIDE DEF U, V
    <3>1. V \subseteq 1..(count + 1)
      <4>1. Starts \subseteq 1..(count + 1) /\ count + 1 \in 1..(count + 1)
        BY <1>1
      <4> QED BY <1>4, <4>1
    <3>2. \A i \in 1..(count + 1) : i \in 1..count \/ i = count + 1
      BY <1>1
    <3>3. \A i \in 1..count : i \in V <=> i \in Starts
      BY <1>1, <1>4
    <3>4. \A i \in 1..count : i \in Starts <=> ExecutionIn(trace, Starts, i)
      BY <1>3
    <3> QED BY <1>4, <2>1, <3>1, <3>2, <3>3, <3>4
  <2>3. \A i : IsExecution(i)' <=> ExecutionIn(trace', Starts', i)
    BY DEF IsExecution, ExecutionIn, Earlier, Again, SiteIn, Site, Mapped
  <2> QED BY <1>1, <1>4, <2>2, <2>3 DEF RunsMatchActivations, Executions
<1>5. CASE count' = count
  <2>1. trace' = trace /\ runs' = runs
    BY <1>5 DEF Execute
  <2>2. ~Call
    BY <1>1, <1>5 DEF Call, Trace, Emit
  <2>3. RunsTracked(dark)'
    BY <1>1, <1>2, <1>5, <2>1, <2>2, TrackedWithoutLine
  <2>4. Starts' = Starts
    BY <2>1 DEF Starts
  <2>5. \A i : IsExecution(i)' <=> IsExecution(i)
    BY <2>1, <2>4 DEF IsExecution, Site, Mapped
  <2> QED BY <2>1, <2>3, <2>4, <2>5 DEF RunsMatchActivations, Executions
<1>6. CASE count' # count
  <2>1. /\ count' = count + 1
        /\ runs' = RunStep(runs, count', r)
        /\ \/ r.line = NoLine /\ acts' = acts
           \/ /\ acts # <<>> /\ ~AtEnd(Last(acts))
              /\ r.line = Instr(Last(acts)).line
              /\ r.pos # NoPos
              /\ r.depth = Len(acts) - 1
              /\ SiteIn(U, count') = acts[Len(acts)].site
    BY <1>6, RecordWritten DEF SiteIn
  <2>2. CASE r.line = NoLine
    <3>1. runs' = runs
      BY <2>1, <2>2 DEF RunStep
    <3>2. Call => acts # <<>> /\ ~AtEnd(Last(acts)) /\ Instr(Last(acts)).line = NoLine
      <4> SUFFICES ASSUME Call PROVE acts # <<>> /\ ~AtEnd(Last(acts)) /\ Instr(Last(acts)).line = NoLine
        OBVIOUS
      <4>1. acts # <<>> /\ ~AtEnd(Last(acts))
        BY DEF Call, Trace
      <4>2. acts' # acts
        BY <4>1, CallGrows
      <4> QED BY <2>1, <2>2, <4>1, <4>2
    <3>3. RunsTracked(dark)'
      BY <1>1, <1>2, <2>1, <2>2, <3>1, <3>2, TrackedWithoutLine
    <3>4. V = Starts /\ count + 1 \notin V
      BY <1>1, <3>1 DEF Starts
    <3>5. ~ExecutionIn(U, V, count + 1)
      BY <2>1, <2>2 DEF ExecutionIn
    <3> QED BY <1>4, <2>1, <3>3, <3>4, <3>5
  <2>3. CASE r.line # NoLine
    <3> DEFINE L == Len(acts)
               site == acts[L].site
               T == trace
               S == Starts
               n == count
    <3>1. /\ acts # <<>> /\ ~AtEnd(Last(acts)) /\ r.line = Instr(Last(acts)).line /\ r.pos # NoPos
          /\ r.depth = L - 1 /\ SiteIn(U, count') = site
      <4>1. acts # <<>> => r.line = r.line
        OBVIOUS
      <4> QED BY <2>1, <2>3
    <3>2. /\ RunsTracked(dark)'
          /\ TrackedAt(T, S, n, runs.runs, site, L)
          /\ V = IF ExtendsRun(CurrentRun(runs.runs, L), r) THEN S ELSE S \union {n + 1}
      BY <1>1, <1>2, <2>1, <2>3, <3>1, TrackedWithLine
    <3>3. L \in Nat /\ L = r.depth + 1
      BY <3>1, LenProperties DEF TypeOK
    <3>4. ExtendsRun(CurrentRun(runs.runs, L), r) <=> ContinuesRun(T, S, n, site, r)
      <4>1. n \in Nat /\ S \subseteq 1..n /\ r.line # NoLine
        BY <1>1, <2>3
      <4> DEFINE kept == runs.runs
      <4>2. TrackedAt(T, S, n, kept, site, L)
        BY <3>2
      <4> HIDE DEF T, S, n, site, L, r, kept
      <4>3. ExtendsRun(CurrentRun(kept, L), r) <=> ContinuesRun(T, S, n, site, r)
        BY <4>1, <4>2, ExtendedWhen
      <4> QED BY <4>3 DEF kept
    <3>5. ExecutionIn(U, V, n + 1) <=> ~ExtendsRun(CurrentRun(runs.runs, L), r)
      <4>1. /\ n \in Nat /\ S \subseteq 1..n /\ \A i \in 1..n : U[i] = T[i]
            /\ V = S \/ V = S \union {n + 1}
            /\ U[n + 1] = r /\ r.line # NoLine /\ SiteIn(U, n + 1) = site
        BY <1>1, <2>1, <2>3, <3>1, <3>2
      <4> HIDE DEF T, U, S, V, n, site, L, r
      <4> QED BY <3>4, <4>1, ExecutionNew
    <3>6. n + 1 \in V <=> ~ExtendsRun(CurrentRun(runs.runs, L), r)
      BY <1>1, <3>2
    <3> HIDE DEF r
    <3> QED BY <1>4, <2>1, <3>2, <3>5, <3>6
  <2> QED BY <2>2, <2>3
<1> QED BY <1>5, <1>6

LEMMA RunsHold ==
    ASSUME NEW rank, Layered(rank), NEW dark, CallsHaveLines(dark)
    PROVE  RSpec => [](RunsTracked(dark) /\ RunsMatchActivations)
<1> DEFINE WInv == TypeOK /\ WalkInvariant(rank)
           Runs == RunsTracked(dark) /\ RunsMatchActivations
<1>1. RSpec => []WInv
  BY WalkHolds
<1>2. RSpec => []StacksOK
  BY StacksHold
<1>3. RInit => Runs
  <2> SUFFICES ASSUME RInit PROVE Runs
    OBVIOUS
  <2>1. trace = <<>> /\ runs.runs = <<>> /\ runs.starts = <<>>
    BY DEF RInit
  <2>2. Starts = {} /\ DOMAIN trace = {} /\ DOMAIN runs.runs = {}
    BY <2>1 DEF Starts, ToSet
  <2>3. RunsTracked(dark)
    BY <2>2 DEF RunsTracked
  <2>4. RunsMatchActivations
    BY <2>2 DEF RunsMatchActivations, Executions
  <2> QED BY <2>3, <2>4
<1>4. RInv /\ RInv' /\ WInv /\ StacksOK /\ Runs /\ [RNext]_replayVars => Runs'
  <2> SUFFICES ASSUME RInv, RInv', WInv, StacksOK, Runs, [RNext]_replayVars PROVE Runs'
    OBVIOUS
  <2>1. CASE Execute
    BY <2>1, RunsKept DEF RInv
  <2>2. CASE UNCHANGED <<vars, trace, runs>>
    <3>1. UNCHANGED <<acts, count, trace, runs>>
      BY <2>2 DEF vars
    <3>2. Starts' = Starts
      BY <3>1 DEF Starts
    <3>3. \A i : IsExecution(i)' <=> IsExecution(i)
      BY <3>1, <3>2 DEF IsExecution, Site, Mapped
    <3>4. RunsMatchActivations'
      BY <3>1, <3>2, <3>3 DEF RunsMatchActivations, Executions
    <3>5. \A site, start : RunOf(site, start)' = RunOf(site, start)
      BY <3>1 DEF RunOf, Mapped, Site
    <3>6. RunsTracked(dark)'
      BY <3>1, <3>2, <3>5 DEF RunsTracked, Site
    <3> QED BY <3>4, <3>6
  <2> QED BY <2>1, <2>2 DEF RNext, Load, Move, replayVars
<1>5. RSpec => []Runs
  <2> HIDE DEF WInv, Runs
  <2> QED BY <1>1, <1>2, <1>3, <1>4, InvariantHolds, PTL DEF RSpec
<1> QED BY <1>5 DEF Runs

\* Without recursion, and when the lines of a callee's code imply one for its call, the run
\* starts found by depths are exactly the executions of lines by the program's activations,
\* for every program and every recording, cut anywhere (computeRunStarts over the depths of
\* computeFrames; docs/stepping.md, "The run-start rule").
THEOREM RunsAlwaysMatchActivations ==
    ASSUME NEW rank, Layered(rank), NEW dark, CallsHaveLines(dark)
    PROVE  RSpec => []RunsMatchActivations
BY RunsHold, PTL

-----------------------------------------------------------------------------
(***************************************************************************)
(* continue and executions.                                                *)
(***************************************************************************)

\* A continue went to the first breakpoint ahead, or there was none.
Heeded ==
    Loaded /\ last.kind = "continue" =>
        LET ahead == {i \in ResolveBreakpoints : i > last.from}
        IN  /\ last.out = "breakpoint" => ahead # {} /\ cursor = Min(ahead)
            /\ last.out = "clamped" => ahead = {}

LEMMA HeededKept ==
    ASSUME Heeded, [RNext]_replayVars
    PROVE  Heeded'
<1>1. CASE Execute
  BY <1>1 DEF Execute, Heeded, Loaded, cursorVars
<1>2. CASE Load
  <2>1. last'.kind = "entry"
    BY <1>2 DEF Load, Attach, NoMove
  <2> QED BY <2>1 DEF Heeded
<1>3. ASSUME UNCHANGED <<stops, trace, request>>
      PROVE  ResolveBreakpoints' = ResolveBreakpoints
  BY <1>3 DEF ResolveBreakpoints, ResolvedLines, ExecutedLines
<1>4. CASE Move
  <2>1. UNCHANGED <<trace, request>>
    BY <1>4 DEF Move
  <2>2. ASSUME NEW kind \in ForwardSteps, NEW gran \in Granularities, StepForward(kind, gran) PROVE Heeded'
    <3>1. last'.kind = kind
      BY <2>2, SeekFields DEF StepForward
    <3> QED BY <3>1 DEF Heeded, ForwardSteps
  <2>3. ASSUME NEW gran \in Granularities, StepBackward(gran) PROVE Heeded'
    <3>1. last'.kind = "stepBack"
      BY <2>3, SeekFields DEF StepBackward
    <3> QED BY <3>1 DEF Heeded
  <2>4. ASSUME RunBackward(ResolveBreakpoints) PROVE Heeded'
    <3>1. last'.kind = "reverse"
      BY <2>4, SeekFields DEF RunBackward
    <3> QED BY <3>1 DEF Heeded
  <2>5. ASSUME RunForward(ResolveBreakpoints) PROVE Heeded'
    <3> DEFINE B == ResolveBreakpoints
               ahead == {i \in B : i > cursor}
    <3>1. /\ last'.from = cursor /\ stops' = stops
          /\ \/ ahead # {} /\ cursor' = Min(ahead) /\ last'.out = "breakpoint"
             \/ ahead = {} /\ last'.out = "clamped"
      <4> HIDE DEF B
      <4> QED BY <2>5, SeekFields DEF RunForward, BreakpointsAhead, B
    <3>2. B' = B
      BY <1>3, <2>1, <3>1
    <3> HIDE DEF B
    <3>3. \/ {i \in B' : i > last'.from} # {} /\ cursor' = Min({i \in B' : i > last'.from})
             /\ last'.out = "breakpoint"
          \/ {i \in B' : i > last'.from} = {} /\ last'.out = "clamped"
      BY <3>1, <3>2
    <3> QED BY <3>3 DEF Heeded, B
  <2> QED BY <1>4, <2>2, <2>3, <2>4, <2>5 DEF Move
<1>5. CASE UNCHANGED replayVars
  <2>1. UNCHANGED <<stops, trace, request, last, cursor>>
    BY <1>5 DEF replayVars, cursorVars
  <2>2. ResolveBreakpoints' = ResolveBreakpoints
    BY <1>3, <2>1
  <2> QED BY <2>1, <2>2 DEF Heeded, Loaded
<1> QED BY <1>1, <1>2, <1>4, <1>5 DEF RNext

\* What a breakpoint resolves to are executions of its line and of its instruction.
LEMMA ResolvedAreExecutions ==
    ASSUME RInv, Loaded, RunsMatchActivations
    PROVE  ResolveBreakpoints = {i \in DOMAIN trace :
                                    \/ i \in Executions /\ trace[i].line \in ResolvedLines
                                    \/ trace[i].pos # NoPos /\ trace[i].pos \in request.addrs}
<1>1. DOMAIN trace = 1..count
  BY TraceDomain DEF RInv
<1>2. stops.raw = Starts /\ stops.visible = {i \in DOMAIN trace : trace[i].pos # NoPos}
  BY <1>1 DEF RInv, SessionOK, ModelOf
<1>3. Starts = Executions /\ Executions \subseteq DOMAIN trace
  BY DEF RunsMatchActivations, Executions
<1> QED BY <1>2, <1>3 DEF ResolveBreakpoints

\* Under the same conditions `continue` stops at every execution of a line with a
\* breakpoint, once, and at every execution of an instruction with one, and runs to the end
\* only if none is ahead (continueRequest over resolveBreakpoints; docs/stepping.md S12, S15).
THEOREM ContinueAlwaysStopsPerExecution ==
    ASSUME NEW rank, Layered(rank), NEW dark, CallsHaveLines(dark)
    PROVE  RSpec => []ContinueStopsPerExecution
<1>1. RSpec => []RunsMatchActivations
  BY RunsAlwaysMatchActivations
<1>2. RInit => Heeded
  BY DEF RInit, CursorInit, Heeded, Loaded
<1>3. Heeded /\ [RNext]_replayVars => Heeded'
  BY HeededKept
<1>4. RInv /\ RunsMatchActivations /\ Heeded => ContinueStopsPerExecution
  <2> SUFFICES ASSUME RInv, RunsMatchActivations, Heeded, Loaded, last.kind = "continue"
               PROVE  LET hits == {i \in DOMAIN trace :
                                    \/ i \in Executions /\ trace[i].line \in ResolvedLines
                                    \/ trace[i].pos # NoPos /\ trace[i].pos \in request.addrs}
                          ahead == {i \in hits : i > last.from}
                      IN  /\ last.out = "breakpoint" => ahead # {} /\ cursor = Min(ahead)
                          /\ last.out = "clamped" => ahead = {}
    BY DEF ContinueStopsPerExecution
  <2>1. ResolveBreakpoints = {i \in DOMAIN trace :
                                \/ i \in Executions /\ trace[i].line \in ResolvedLines
                                \/ trace[i].pos # NoPos /\ trace[i].pos \in request.addrs}
    BY ResolvedAreExecutions
  <2> HIDE DEF ResolveBreakpoints
  <2> QED BY <2>1 DEF Heeded
<1> QED BY <1>1, <1>2, <1>3, <1>4, InvariantHolds, PTL DEF RSpec

-----------------------------------------------------------------------------
(***************************************************************************)
(* Filtering and activations.                                              *)
(***************************************************************************)

\* Two stacks have the same frames on their first k levels.
Shares(s, t, k) ==
    /\ k <= Len(s) /\ k <= Len(t)
    /\ \A l \in 1..k : s[l].site = t[l].site /\ s[l].fn = t[l].fn

\* The instruction that a record stands for.
InstrOf(code, r) == code[r.pos[1]][r.pos[2]]

ReadsCode(code, r) ==
    /\ r.pos = <<r.pos[1], r.pos[2]>> /\ r.pos[1] = Last(r.stack).fn
    /\ r.pos[1] \in DOMAIN code /\ r.pos[2] \in DOMAIN code[r.pos[1]]
    /\ r.line = InstrOf(code, r).line

\* The record that created the k-th frame of a stack is a call of its function, from the
\* frame below.
CalledFrom(code, records, stack, k) ==
    LET c == records[stack[k].site]
    IN  /\ stack[k].site # 0 /\ c.pos # NoPos
        /\ Len(c.stack) = k - 1 /\ Shares(c.stack, stack, k - 1)
        /\ InstrOf(code, c).op = "call" /\ InstrOf(code, c).to = stack[k].fn

\* While the k-th activation of a stack lives, every record is its own or its callees'.
Encloses(records, n, stack, k) ==
    \A x \in (stack[k].site + 1)..n : records[x].pos # NoPos => Shares(records[x].stack, stack, k)

Nested(code, records, n, stack) ==
    \A k \in 1..Len(stack) :
        /\ stack[k].site \in 0..n
        /\ k > 1 => CalledFrom(code, records, stack, k)
        /\ Encloses(records, n, stack, k)

NestOK ==
    /\ Nested(prog.body, trace, count, acts)
    /\ \A i \in 1..count : trace[i].pos # NoPos =>
            ReadsCode(prog.body, trace[i]) /\ Nested(prog.body, trace, i - 1, trace[i].stack)

LEMMA SharesLess ==
    ASSUME NEW s, NEW t, NEW k \in Nat, NEW l \in 0..k, Len(s) \in Nat, Len(t) \in Nat, Shares(s, t, k)
    PROVE  Shares(s, t, l)
<1>1. l <= Len(s) /\ l <= Len(t)
  BY DEF Shares
<1>2. \A m \in 1..l : m \in 1..k
  OBVIOUS
<1> QED BY <1>1, <1>2 DEF Shares

\* Record m, if it is the (n + 1)-th and has a position, was written in `stack`; and `more`
\* consists of frames of `stack` and of the one that record m's call creates.
WrittenIn(records, n, m, stack) ==
    m = n + 1 /\ records[m].pos # NoPos =>
        Len(records[m].stack) = Len(stack) /\ Shares(records[m].stack, stack, Len(stack))

EnteredFrom(code, records, n, m, stack, more) ==
    \A k \in 1..Len(more) :
        \/ k \in 1..Len(stack) /\ more[k].site = stack[k].site /\ more[k].fn = stack[k].fn
        \/ /\ m = n + 1 /\ records[m].pos # NoPos /\ k = Len(stack) + 1 /\ k # 1 /\ more[k].site = m
           /\ InstrOf(code, records[m]).op = "call" /\ InstrOf(code, records[m]).to = more[k].fn

\* One record more, or none: the frames that stay are nested as before, and so is the frame
\* that the new record's call creates.
LEMMA NestedAfter ==
    ASSUME NEW code, NEW T, NEW U, NEW n \in Nat, NEW m \in {n, n + 1}, \A x \in 1..n : U[x] = T[x],
           NEW stack, Len(stack) \in Nat, Nested(code, T, n, stack),
           WrittenIn(U, n, m, stack), NEW more, Len(more) \in Nat, EnteredFrom(code, U, n, m, stack, more)
    PROVE  Nested(code, U, m, more)
<1> USE DEF WrittenIn, EnteredFrom
<1>1. \A l \in 1..Len(more) : l \in 1..Len(stack) =>
            more[l].site = stack[l].site /\ more[l].fn = stack[l].fn
  OBVIOUS
<1>2. \A x \in 1..m : x \in 1..n \/ (x = n + 1 /\ m = n + 1)
  OBVIOUS
<1>3. SUFFICES ASSUME NEW k \in 1..Len(more)
               PROVE  /\ more[k].site \in 0..m
                      /\ k > 1 => CalledFrom(code, U, more, k)
                      /\ Encloses(U, m, more, k)
  BY DEF Nested
<1>4. ASSUME NEW s, NEW l \in 0..Len(stack), l <= Len(more), Shares(s, stack, l) PROVE Shares(s, more, l)
  <2>1. \A j \in 1..l : j \in 1..Len(more) /\ j \in 1..Len(stack)
    BY <1>4
  <2> QED BY <1>1, <1>4, <2>1 DEF Shares
<1>5. CASE k \in 1..Len(stack) /\ more[k].site = stack[k].site /\ more[k].fn = stack[k].fn
  <2> DEFINE site == stack[k].site
             c == T[site]
  <2>1. /\ site \in 0..n /\ Encloses(T, n, stack, k)
        /\ k > 1 => CalledFrom(code, T, stack, k)
    BY <1>5 DEF Nested
  <2>2. ASSUME k > 1 PROVE CalledFrom(code, U, more, k)
    <3>1. /\ site # 0 /\ c.pos # NoPos /\ Len(c.stack) = k - 1 /\ Shares(c.stack, stack, k - 1)
          /\ InstrOf(code, c).op = "call" /\ InstrOf(code, c).to = stack[k].fn
      BY <2>1, <2>2 DEF CalledFrom
    <3>2. U[site] = c
      BY <2>1, <3>1
    <3> HIDE DEF c, site
    <3>3. k - 1 \in 0..Len(stack) /\ k - 1 <= Len(more)
      BY <1>5
    <3>4. Shares(c.stack, more, k - 1)
      BY <1>4, <3>1, <3>3
    <3>5. more[k].site = site /\ more[k].fn = stack[k].fn
      BY <1>5 DEF site
    <3> QED BY <3>1, <3>2, <3>4, <3>5 DEF CalledFrom
  <2>3. ASSUME NEW x \in (site + 1)..m, U[x].pos # NoPos PROVE Shares(U[x].stack, more, k)
    <3>1. Shares(U[x].stack, stack, k)
      <4>1. x \in 1..m
        BY <2>1
      <4>2. CASE x \in 1..n
        <5>1. x \in (site + 1)..n /\ U[x] = T[x]
          BY <2>1, <4>2
        <5> QED BY <2>1, <2>3, <5>1 DEF Encloses
      <4>3. CASE x = n + 1 /\ m = n + 1
        <5>1. Len(U[x].stack) = Len(stack) /\ Shares(U[x].stack, stack, Len(stack))
          BY <2>3, <4>3
        <5>2. k \in 0..Len(stack)
          BY <1>5
        <5> DEFINE s == U[x].stack
        <5> HIDE DEF s
        <5>3. Shares(s, stack, k)
          BY <5>1, <5>2, SharesLess DEF s
        <5> QED BY <5>3 DEF s
      <4> QED BY <1>2, <4>1, <4>2, <4>3
    <3>2. k \in 0..Len(stack) /\ k <= Len(more)
      BY <1>5
    <3> QED BY <1>4, <3>1, <3>2
  <2>4. more[k].site = site
    BY <1>5
  <2>5. site \in 0..m
    BY <2>1
  <2>6. Encloses(U, m, more, k)
    BY <2>3, <2>4 DEF Encloses
  <2> QED BY <2>2, <2>4, <2>5, <2>6
<1>6. CASE /\ m = n + 1 /\ U[m].pos # NoPos /\ k = Len(stack) + 1 /\ k # 1 /\ more[k].site = m
           /\ InstrOf(code, U[m]).op = "call" /\ InstrOf(code, U[m]).to = more[k].fn
  <2>1. Len(U[m].stack) = k - 1 /\ Shares(U[m].stack, stack, k - 1)
    BY <1>6
  <2>2. k - 1 \in 0..Len(stack) /\ k - 1 <= Len(more)
    BY <1>6
  <2>3. Shares(U[m].stack, more, k - 1)
    BY <1>4, <2>1, <2>2
  <2>4. CalledFrom(code, U, more, k)
    BY <1>6, <2>1, <2>3 DEF CalledFrom
  <2>5. (more[k].site + 1)..m = {} /\ more[k].site \in 0..m
    BY <1>6
  <2> QED BY <2>4, <2>5 DEF Encloses
<1> QED BY <1>5, <1>6


\* A longer recording and a part of the stack change nothing.
LEMMA NestedStays ==
    ASSUME NEW code, NEW T, NEW U, NEW n \in Nat, \A x \in 1..n : U[x] = T[x],
           NEW stack, Len(stack) \in Nat, Nested(code, T, n, stack),
           NEW more, Len(more) \in Nat,
           \A k \in 1..Len(more) :
              k \in 1..Len(stack) /\ more[k].site = stack[k].site /\ more[k].fn = stack[k].fn
    PROVE  Nested(code, U, n, more)
<1>1. WrittenIn(U, n, n, stack) /\ EnteredFrom(code, U, n, n, stack, more)
  BY DEF WrittenIn, EnteredFrom
<1> QED BY <1>1, NestedAfter

\* The record of an instruction.
LEMMA InstructionWritten ==
    ASSUME NEW rank, Layered(rank), TypeOK, WalkInvariant(rank), NEW op, Trace(op)
    PROVE  /\ NewRecord.pos # NoPos
           /\ NewRecord.stack = Sites(acts)
           /\ ReadsCode(prog.body, NewRecord)
           /\ InstrOf(prog.body, NewRecord) = Instr(Last(acts)) /\ Instr(Last(acts)).op = op
<1>1. /\ acts # <<>> /\ ~AtEnd(Last(acts)) /\ prog' = prog /\ Instr(Last(acts)).op = op
      /\ rec'.vis = TRUE /\ rec'.fn = Last(acts).fn /\ rec'.off = Last(acts).pc
  BY DEF Trace, Emit
<1>2. walk'.stack = Sites(acts) /\ seen' = Sites(acts)
  BY RecordStep
<1>3. /\ NewRecord.pos = <<Last(acts).fn, Last(acts).pc>> /\ NewRecord.stack = Sites(acts)
      /\ NewRecord.line = prog.body[Last(acts).fn][Last(acts).pc].line
  BY <1>1, <1>2 DEF NewRecord
<1>4. NewRecord.pos # NoPos
  BY <1>3 DEF NoPos
<1> HIDE DEF NewRecord
<1>5. NewRecord.pos[1] = Last(acts).fn /\ NewRecord.pos[2] = Last(acts).pc
  BY <1>3
<1>6. Last(acts).fn \in DOMAIN prog.body /\ Last(acts).pc \in DOMAIN prog.body[Last(acts).fn]
  BY <1>1, Innermost, InstrProperties DEF Act
<1>7. Last(Sites(acts)).fn = Last(acts).fn
  BY <1>1, Innermost, SitesOfActs DEF Last
<1>8. InstrOf(prog.body, NewRecord) = Instr(Last(acts))
  BY <1>5 DEF InstrOf, Instr
<1>9. Instr(Last(acts)).line = NewRecord.line
  BY <1>3 DEF Instr
<1> QED BY <1>1, <1>3, <1>4, <1>5, <1>6, <1>7, <1>8, <1>9 DEF ReadsCode

LEMMA RecordOrNone ==
    ASSUME NEW rank, Layered(rank), TypeOK, WalkInvariant(rank), TraceOK, Execute
    PROVE  /\ prog' = prog /\ count \in Nat /\ count' \in {count, count + 1}
           /\ \A i \in 1..count : trace'[i] = trace[i]
           /\ Call => count' = count + 1 /\ trace'[count'].pos # NoPos /\ Instr(Last(acts)).op = "call"
           /\ count' = count + 1 /\ trace'[count'].pos # NoPos =>
                /\ trace'[count'].stack = Sites(acts)
                /\ ReadsCode(prog.body, trace'[count'])
                /\ InstrOf(prog.body, trace'[count']) = Instr(Last(acts))
<1>1. /\ count \in Nat /\ \A i \in 1..count : trace'[i] = trace[i]
      /\ \/ count' = count
         \/ count' = count + 1 /\ trace'[count'] = NewRecord
  <2> HIDE DEF NewRecord
  <2> QED BY TraceGrows
<1>2. Next
  BY DEF Execute
<1>3. prog' = prog
  BY <1>2, UnplacedStep DEF Next, Plain, Branch, Call, HostCall, Return, FallOffEnd, Trace
<1>4. ASSUME NEW op, Trace(op)
      PROVE  /\ count' = count + 1 /\ trace'[count'] = NewRecord
             /\ NewRecord.pos # NoPos /\ NewRecord.stack = Sites(acts)
             /\ ReadsCode(prog.body, NewRecord)
             /\ InstrOf(prog.body, NewRecord) = Instr(Last(acts)) /\ Instr(Last(acts)).op = op
  <2>1. count' = count + 1
    BY <1>4 DEF Trace, Emit
  <2> HIDE DEF NewRecord
  <2> QED BY <1>1, <1>4, <2>1, InstructionWritten
<1>5. Call => Trace("call")
  BY DEF Call
<1>6. CASE \E op : Trace(op)
  <2> HIDE DEF NewRecord
  <2> QED BY <1>1, <1>3, <1>4, <1>5, <1>6
<1>7. CASE Invisible \/ Foreign
  <2>1. NewRecord.pos = NoPos /\ count' = count + 1
    BY <1>7, UnplacedStep DEF NewRecord
  <2> HIDE DEF NewRecord
  <2>2. ~Call
    BY <1>1, <1>4, <1>5, <2>1
  <2> QED BY <1>1, <1>3, <2>1, <2>2
<1>8. CASE FallOffEnd
  <2>1. count' = count
    BY <1>8 DEF FallOffEnd
  <2>2. ~Call
    BY <1>1, <1>4, <1>5, <2>1
  <2> QED BY <1>1, <1>3, <2>1, <2>2
<1> QED BY <1>2, <1>6, <1>7, <1>8 DEF Next, Plain, Branch, Call, HostCall, Return

LEMMA NestKept ==
    ASSUME NEW rank, Layered(rank), TypeOK, WalkInvariant(rank), TraceOK, StacksOK, NestOK, Execute
    PROVE  NestOK'
<1> DEFINE code == prog.body
           T == trace
           U == trace'
           n == count
           m == count'
           more == acts'
<1>1. /\ prog' = prog /\ n \in Nat /\ m \in {n, n + 1}
      /\ \A i \in 1..n : U[i] = T[i]
      /\ Call => m = n + 1 /\ U[m].pos # NoPos /\ Instr(Last(acts)).op = "call"
      /\ m = n + 1 /\ U[m].pos # NoPos =>
           /\ U[m].stack = Sites(acts)
           /\ ReadsCode(code, U[m])
           /\ InstrOf(code, U[m]) = Instr(Last(acts))
  BY RecordOrNone
<1>2. /\ Len(acts) \in Nat /\ Len(Sites(acts)) = Len(acts)
      /\ \A k \in 1..Len(acts) : Sites(acts)[k].site = acts[k].site /\ Sites(acts)[k].fn = acts[k].fn
  BY SitesOfActs
<1>3. /\ Len(more) \in Nat
      /\ \A k \in 1..Len(more) :
            \/ k \in 1..Len(acts) /\ more[k].site = acts[k].site /\ more[k].fn = acts[k].fn
            \/ /\ Call /\ k = Len(acts) + 1 /\ Len(acts) \in Nat \ {0}
               /\ more[k].site = n + 1 /\ more[k].fn = Instr(Last(acts)).to
  BY ActsAfter DEF Execute
<1>4. Nested(code, T, n, acts)
  BY DEF NestOK
<1>5. Shares(Sites(acts), acts, Len(acts))
  BY <1>2 DEF Shares
<1>6. Nested(code, U, m, more)
  <2> DEFINE stack == acts
  <2> HIDE DEF code, T, U, n, m, more
  <2>1. n \in Nat /\ (m = n \/ m = n + 1) /\ \A i \in 1..n : U[i] = T[i]
    BY <1>1
  <2>2. Len(stack) \in Nat /\ Len(more) \in Nat /\ Nested(code, T, n, stack)
    BY <1>2, <1>3, <1>4
  <2>3. EnteredFrom(code, U, n, m, stack, more)
    BY <1>1, <1>3 DEF EnteredFrom
  <2>4. WrittenIn(U, n, m, stack)
    BY <1>1, <1>2, <1>5 DEF WrittenIn
  <2> HIDE DEF stack
  <2>5. CASE m = n
    BY <2>1, <2>2, <2>3, <2>4, <2>5, NestedAfter
  <2>6. CASE m = n + 1
    BY <2>1, <2>2, <2>3, <2>4, <2>6, NestedAfter
  <2> QED BY <2>1, <2>5, <2>6
<1>7. ASSUME NEW i \in 1..n, T[i].pos # NoPos
      PROVE  ReadsCode(code, U[i]) /\ Nested(code, U, i - 1, U[i].stack)
  <2> DEFINE s == T[i].stack
             b == i - 1
  <2>1. ReadsCode(code, T[i]) /\ Nested(code, T, b, s) /\ U[i] = T[i]
    BY <1>1, <1>7 DEF NestOK
  <2>2. s \in Seq(Frame)
    BY DEF StacksOK, RecordOK
  <2>3. b \in Nat /\ \A x \in 1..b : U[x] = T[x]
    BY <1>1
  <2> HIDE DEF code, T, U, n, s, b
  <2>4. Len(s) \in Nat
    BY <2>2, LenProperties
  <2>5. Nested(code, U, b, s)
    BY <2>1, <2>3, <2>4, NestedStays
  <2> QED BY <2>1, <2>5 DEF s, b
<1>8. ASSUME m = n + 1, U[m].pos # NoPos
      PROVE  ReadsCode(code, U[m]) /\ Nested(code, U, m - 1, U[m].stack)
  <2> DEFINE s == Sites(acts)
  <2>1. U[m].stack = s /\ ReadsCode(code, U[m]) /\ m - 1 = n
    BY <1>1, <1>8
  <2> HIDE DEF code, T, U, n, m, s
  <2>2. \A k \in 1..Len(s) : k \in 1..Len(acts) /\ s[k].site = acts[k].site /\ s[k].fn = acts[k].fn
    BY <1>2 DEF s
  <2>3. Len(s) \in Nat
    BY <1>2 DEF s
  <2>4. Nested(code, U, n, s)
    BY <1>1, <1>2, <1>4, <2>2, <2>3, NestedStays
  <2> QED BY <2>1, <2>4
<1>9. \A i \in 1..m : i \in 1..n \/ (i = m /\ m = n + 1)
  BY <1>1
<1>10. \A i \in 1..m : U[i].pos # NoPos => ReadsCode(code, U[i]) /\ Nested(code, U, i - 1, U[i].stack)
  <2> HIDE DEF code, T, U, n, m
  <2> QED BY <1>1, <1>7, <1>8, <1>9
<1> QED BY <1>1, <1>6, <1>10 DEF NestOK

LEMMA NestHolds ==
    ASSUME NEW rank, Layered(rank)
    PROVE  RSpec => []NestOK
<1> DEFINE WInv == TypeOK /\ WalkInvariant(rank)
<1>1. RSpec => []WInv
  BY WalkHolds
<1>2. RSpec => []StacksOK
  BY StacksHold
<1>3. RInit => NestOK
  <2> SUFFICES ASSUME RInit PROVE NestOK
    OBVIOUS
  <2>1. count = 0 /\ Len(acts) = 1 /\ acts[1].site = 0
    BY DEF RInit, Init
  <2>2. Nested(prog.body, trace, count, acts)
    BY <2>1 DEF Nested, Encloses
  <2> QED BY <2>1, <2>2 DEF NestOK
<1>4. RInv /\ WInv /\ StacksOK /\ NestOK /\ [RNext]_replayVars => NestOK'
  <2> SUFFICES ASSUME RInv, WInv, StacksOK, NestOK, [RNext]_replayVars PROVE NestOK'
    OBVIOUS
  <2>1. CASE Execute
    BY <2>1, NestKept DEF RInv
  <2>2. CASE UNCHANGED <<vars, trace>>
    <3>1. UNCHANGED <<prog, acts, count, trace>>
      BY <2>2 DEF vars
    <3> QED BY <3>1 DEF NestOK
  <2> QED BY <2>1, <2>2 DEF RNext, Load, Move, replayVars
<1> HIDE DEF WInv
<1> QED BY <1>1, <1>2, <1>3, <1>4, InvariantHolds, PTL DEF RSpec


\* What is known of a record with a position.
LEMMA RecordFacts ==
    ASSUME TypeOK, TraceOK, StacksOK, NestOK, NEW i \in 1..count, trace[i].pos # NoPos
    PROVE  LET s == trace[i].stack
           IN  /\ Len(s) \in Nat \ {0} /\ trace[i].depth = Len(s) - 1 /\ i \in Nat \ {0}
               /\ SiteIn(trace, i) = s[Len(s)].site /\ trace[i].pos[1] = s[Len(s)].fn
               /\ SiteIn(trace, i) \in 0..(i - 1)
               /\ AtLevel(trace, SiteIn(trace, i), Len(s))
               /\ Nested(prog.body, trace, i - 1, s) /\ ReadsCode(prog.body, trace[i])
<1> DEFINE s == trace[i].stack
<1>1. /\ s \in Seq(Frame) /\ s # <<>> /\ trace[i].depth = Len(s) - 1 /\ Levels(trace, s)
  BY DEF StacksOK, RecordOK
<1>2. Nested(prog.body, trace, i - 1, s) /\ ReadsCode(prog.body, trace[i])
  BY DEF NestOK
<1>3. Last(s) = s[Len(s)]
  BY DEF Last
<1>4. SiteIn(trace, i) = s[Len(s)].site /\ trace[i].pos[1] = s[Len(s)].fn
  BY <1>2, <1>3 DEF SiteIn, ReadsCode
<1>5. i \in Nat \ {0}
  BY DEF TypeOK
<1> HIDE DEF s
<1>6. Len(s) \in Nat \ {0} /\ Len(s) \in 1..Len(s)
  BY <1>1, EmptySeq
<1>7. s[Len(s)].site \in 0..(i - 1)
  BY <1>2, <1>6 DEF Nested
<1>8. AtLevel(trace, s[Len(s)].site, Len(s))
  BY <1>1, <1>6 DEF Levels
<1> QED BY <1>1, <1>2, <1>4, <1>5, <1>6, <1>7, <1>8 DEF s

\* The record that created the activation of a record with a line: a call with a line.
LEMMA CreatedBy ==
    ASSUME TypeOK, TraceOK, StacksOK, NestOK, NEW dark, CallsHaveLines(dark),
           NEW i \in 1..count, trace[i].pos # NoPos, trace[i].line # NoLine,
           NEW D \in Nat, D = Len(trace[i].stack), D > 1, NEW c, c = SiteIn(trace, i)
    PROVE  /\ c \in 1..count /\ c < i
           /\ trace[c].pos # NoPos /\ trace[c].line # NoLine
           /\ Len(trace[c].stack) = D - 1 /\ Shares(trace[c].stack, trace[i].stack, D - 1)
           /\ InstrOf(prog.body, trace[c]).op = "call"
           /\ \A x \in (c + 1)..(i - 1) : trace[x].pos # NoPos =>
                Shares(trace[x].stack, trace[i].stack, D)
<1> DEFINE s == trace[i].stack
           code == prog.body
           T == trace
<1>1. /\ c = s[D].site /\ T[i].pos[1] = s[D].fn
      /\ Nested(code, T, i - 1, s) /\ ReadsCode(code, T[i]) /\ i \in Nat \ {0}
  BY RecordFacts
<1>2. D \in 1..Len(s)
  OBVIOUS
<1>3. /\ c \in 0..(i - 1) /\ CalledFrom(code, T, s, D) /\ Encloses(T, i - 1, s, D)
  BY <1>1, <1>2 DEF Nested
<1>4. /\ c # 0 /\ T[c].pos # NoPos /\ Len(T[c].stack) = D - 1 /\ Shares(T[c].stack, s, D - 1)
      /\ InstrOf(code, T[c]).op = "call" /\ InstrOf(code, T[c]).to = s[D].fn
  BY <1>1, <1>3 DEF CalledFrom
<1>5. c \in 1..count /\ c < i
  <2>1. count \in Nat /\ i \in Nat /\ i <= count
    BY DEF TypeOK
  <2>2. c \in 0..(i - 1) /\ c # 0
    BY <1>3, <1>4
  <2> QED BY <2>1, <2>2
<1>6. ReadsCode(code, T[c])
  BY <1>4, <1>5, RecordFacts
<1>7. prog \in Programs
  BY DEF TypeOK
<1>8. s[D].fn \notin dark
  BY <1>1, <1>7 DEF ReadsCode, InstrOf, CallsHaveLines
<1>9. T[c].line # NoLine
  <2>1. InstrOf(code, T[c]).line = NoLine => InstrOf(code, T[c]).to \in dark
    BY <1>4, <1>6, <1>7 DEF ReadsCode, InstrOf, CallsHaveLines
  <2> QED BY <1>4, <1>6, <1>8, <2>1 DEF ReadsCode
<1> QED BY <1>1, <1>3, <1>4, <1>5, <1>9 DEF Encloses

\* A record with a line that starts no run continues its activation's last one.
LEMMA Continues ==
    ASSUME TypeOK, TraceOK, RunsMatchActivations, NEW c \in 1..count, trace[c].line # NoLine, c \notin Starts
    PROVE  \E b \in Starts :
              /\ b < c /\ SiteIn(trace, b) = SiteIn(trace, c) /\ trace[b].line = trace[c].line
              /\ \A y \in Starts : y < c /\ SiteIn(trace, y) = SiteIn(trace, c) => y <= b
              /\ \A x \in b..(c - 1) :
                    trace[x].line # NoLine /\ SiteIn(trace, x) = SiteIn(trace, c)
                    => trace[x].pos # trace[c].pos
<1> DEFINE E == Earlier(trace, Starts, c)
           b == Max(E)
<1>1. DOMAIN trace = 1..count /\ count \in Nat
  BY TraceDomain
<1>2. ~ExecutionIn(trace, Starts, c)
  <2>1. Starts = {i \in DOMAIN trace : ExecutionIn(trace, Starts, i)}
    BY ExecutionsIn
  <2> QED BY <1>1, <2>1
<1>3. E # {} /\ ~Again(trace, c, b)
  BY <1>2 DEF ExecutionIn
<1>4. E \subseteq 0..count
  <2>1. \A j \in Starts : j \in 1..count
    BY DEF TraceOK, Starts
  <2>2. E \subseteq Starts
    BY DEF Earlier
  <2> HIDE DEF E
  <2> QED BY <1>1, <2>1, <2>2
<1> HIDE DEF E
<1>5. b \in E /\ \A y \in E : y <= b
  BY <1>1, <1>3, <1>4, MaxIsLargest
<1> HIDE DEF b
<1>6. /\ b \in Starts /\ b < c /\ SiteIn(trace, b) = SiteIn(trace, c)
      /\ \A y \in Starts : y < c /\ SiteIn(trace, y) = SiteIn(trace, c) => y <= b
  BY <1>5 DEF E, Earlier
<1>7. /\ trace[b].line = trace[c].line
      /\ \A x \in b..(c - 1) :
            trace[x].line # NoLine /\ SiteIn(trace, x) = SiteIn(trace, c) => trace[x].pos # trace[c].pos
  BY <1>3 DEF Again
<1> QED BY <1>6, <1>7


\* An activation has one depth.
LEMMA OneLevel ==
    ASSUME NEW records, 0 \notin DOMAIN records, NEW site, NEW k \in Nat \ {0}, NEW l \in Nat \ {0},
           AtLevel(records, site, k), AtLevel(records, site, l)
    PROVE  k = l
BY DEF AtLevel

\* The call of one line, from one function: an instruction of its own.
LEMMA OneCall ==
    ASSUME TypeOK, CallsAlone, NEW r, NEW t, ReadsCode(prog.body, r), ReadsCode(prog.body, t),
           InstrOf(prog.body, r).op = "call", InstrOf(prog.body, t).op = "call",
           r.pos[1] = t.pos[1], r.line = t.line, r.line # NoLine
    PROVE  r.pos = t.pos
<1>1. prog \in Programs
  BY DEF TypeOK
<1>2. r.pos[2] = t.pos[2]
  <2> DEFINE f == r.pos[1]
             k == r.pos[2]
             m == t.pos[2]
  <2>1. /\ f \in DOMAIN prog.body /\ k \in DOMAIN prog.body[f] /\ m \in DOMAIN prog.body[f]
        /\ prog.body[f][k].op = "call" /\ prog.body[f][m].op = "call"
        /\ prog.body[f][k].line = prog.body[f][m].line /\ prog.body[f][k].line # NoLine
    BY DEF ReadsCode, InstrOf
  <2> HIDE DEF f, k, m
  <2>2. k = m
    BY <1>1, <2>1 DEF CallsAlone
  <2> QED BY <2>2 DEF k, m
<1>3. r.pos = <<r.pos[1], r.pos[2]>> /\ t.pos = <<t.pos[1], t.pos[2]>>
  BY DEF ReadsCode
<1> QED BY <1>2, <1>3

\* Between starts of two activations of the same depth lies a start of a shallower one: the
\* caller's line of the second call is a start, unless it continues the run of an earlier
\* line, which then starts in between or made the first call, too.
LEMMA SiblingsApart ==
    ASSUME TypeOK, TraceOK, StacksOK, NestOK, RunsMatchActivations,
           NEW dark, CallsHaveLines(dark), CallsAlone,
           NEW i \in Starts, NEW j \in Starts, i < j, trace[i].depth = trace[j].depth,
           SiteIn(trace, i) # SiteIn(trace, j)
    PROVE  \E m \in Starts : i < m /\ m < j /\ trace[m].depth < trace[i].depth
<1> DEFINE T == trace
           code == prog.body
           D == Len(T[j].stack)
           c == SiteIn(T, j)
<1>1. \A x \in Starts : x \in 1..count /\ T[x].pos # NoPos /\ T[x].line # NoLine
  <2>1. \A x \in Starts : x \in 1..count /\ T[x].pos # NoPos
    BY DEF TraceOK, Starts
  <2>2. \A x \in Starts : ExecutionIn(T, Starts, x)
    BY ExecutionsIn
  <2> QED BY <2>1, <2>2 DEF ExecutionIn
<1>2. \A x \in 1..count : T[x].pos # NoPos =>
        /\ Len(T[x].stack) \in Nat \ {0} /\ T[x].depth = Len(T[x].stack) - 1 /\ x \in Nat \ {0}
        /\ SiteIn(T, x) = T[x].stack[Len(T[x].stack)].site /\ T[x].pos[1] = T[x].stack[Len(T[x].stack)].fn
        /\ SiteIn(T, x) \in 0..(x - 1)
        /\ AtLevel(T, SiteIn(T, x), Len(T[x].stack))
        /\ Nested(code, T, x - 1, T[x].stack) /\ ReadsCode(code, T[x])
  BY RecordFacts
<1>3. /\ i \in 1..count /\ j \in 1..count /\ T[i].pos # NoPos /\ T[j].pos # NoPos
      /\ T[i].line # NoLine /\ T[j].line # NoLine
      /\ D \in Nat \ {0} /\ Len(T[i].stack) = D /\ T[i].depth = D - 1 /\ i \in Nat /\ j \in Nat
  <2>1. /\ i \in 1..count /\ j \in 1..count /\ T[i].pos # NoPos /\ T[j].pos # NoPos
        /\ T[i].line # NoLine /\ T[j].line # NoLine
    BY <1>1
  <2>2. i \in Nat /\ Len(T[i].stack) \in Nat \ {0} /\ T[i].depth = Len(T[i].stack) - 1
    BY <1>2, <2>1
  <2>3. j \in Nat /\ D \in Nat \ {0} /\ T[j].depth = D - 1
    BY <1>2, <2>1
  <2>4. T[i].depth = T[j].depth
    OBVIOUS
  <2> HIDE DEF T, D
  <2> QED BY <2>1, <2>2, <2>3, <2>4
<1>4. D > 1
  <2>1. AtLevel(T, SiteIn(T, i), D) /\ AtLevel(T, SiteIn(T, j), D)
    BY <1>2, <1>3
  <2>2. SiteIn(T, i) # SiteIn(T, j)
    OBVIOUS
  <2> HIDE DEF T, D
  <2>3. D # 1
    BY <2>1, <2>2 DEF AtLevel
  <2> QED BY <1>3, <2>3
<1>5. /\ c \in 1..count /\ c < j /\ T[c].pos # NoPos /\ T[c].line # NoLine
      /\ Len(T[c].stack) = D - 1 /\ Shares(T[c].stack, T[j].stack, D - 1)
      /\ InstrOf(code, T[c]).op = "call"
      /\ \A x \in (c + 1)..(j - 1) : T[x].pos # NoPos => Shares(T[x].stack, T[j].stack, D)
  <2> HIDE DEF D, c
  <2>1. D = Len(T[j].stack) /\ c = SiteIn(T, j)
    BY DEF D, c
  <2>2. D \in Nat
    BY <1>3
  <2> QED BY <1>3, <1>4, <2>1, <2>2, CreatedBy
<1> HIDE DEF T, code, D, c
<1>6. c \in Nat /\ i < c
  <2>1. c \in Nat /\ c # i
    BY <1>2, <1>3, <1>5
  <2>2. ASSUME c < i PROVE FALSE
    <3>1. i \in (c + 1)..(j - 1)
      BY <1>3, <2>1, <2>2
    <3>2. Shares(T[i].stack, T[j].stack, D)
      BY <1>3, <1>5, <3>1
    <3>3. D \in 1..D
      BY <1>3
    <3>4. T[i].stack[D].site = T[j].stack[D].site
      BY <3>2, <3>3 DEF Shares
    <3>5. SiteIn(T, i) = SiteIn(T, j)
      BY <1>2, <1>3, <3>4 DEF D
    <3> QED BY <3>5 DEF T
  <2> QED BY <1>3, <2>1, <2>2
<1>7. T[c].depth = D - 2 /\ ReadsCode(code, T[c])
  <2>1. T[c].depth = Len(T[c].stack) - 1 /\ ReadsCode(code, T[c])
    BY <1>2, <1>5
  <2>2. Len(T[c].stack) = D - 1 /\ D \in Nat
    BY <1>3, <1>5
  <2> QED BY <2>1, <2>2
<1>8. CASE c \in Starts
  BY <1>3, <1>5, <1>6, <1>7, <1>8 DEF T
<1>9. CASE c \notin Starts
  <2> DEFINE w == SiteIn(T, c)
  <2>1. PICK b \in Starts :
          /\ b < c /\ SiteIn(T, b) = w /\ T[b].line = T[c].line
          /\ \A y \in Starts : y < c /\ SiteIn(T, y) = w => y <= b
          /\ \A x \in b..(c - 1) : T[x].line # NoLine /\ SiteIn(T, x) = w => T[x].pos # T[c].pos
    BY <1>5, <1>9, Continues DEF T
  <2> HIDE DEF w
  <2>2. /\ b \in 1..count /\ b \in Nat /\ T[b].pos # NoPos
        /\ Len(T[b].stack) \in Nat \ {0} /\ T[b].depth = Len(T[b].stack) - 1
    BY <1>1, <1>2
  <2>3. Len(T[b].stack) = D - 1 /\ T[b].depth = D - 2
    <3>1. AtLevel(T, w, Len(T[b].stack)) /\ AtLevel(T, w, Len(T[c].stack))
      BY <1>2, <1>5, <2>1, <2>2 DEF w
    <3>2. 0 \notin DOMAIN T
      BY TraceDomain DEF T
    <3>3. Len(T[b].stack) = Len(T[c].stack)
      BY <1>2, <1>5, <2>2, <3>1, <3>2, OneLevel
    <3> QED BY <1>3, <1>5, <2>2, <3>3
  <2>4. CASE i < b
    <3>1. b < j /\ T[b].depth < T[i].depth
      BY <1>3, <1>5, <1>6, <2>1, <2>2, <2>3
    <3> QED BY <2>4, <3>1 DEF T
  <2>5. CASE b < i
    <3> DEFINE e == SiteIn(T, i)
    <3>1. /\ e \in 1..count /\ e < i /\ T[e].pos # NoPos /\ T[e].line # NoLine
          /\ Len(T[e].stack) = D - 1 /\ Shares(T[e].stack, T[i].stack, D - 1)
          /\ InstrOf(code, T[e]).op = "call"
          /\ \A x \in (e + 1)..(i - 1) : T[x].pos # NoPos => Shares(T[x].stack, T[i].stack, D)
      <4> HIDE DEF e
      <4>1. D = Len(trace[i].stack) /\ e = SiteIn(trace, i) /\ D \in Nat
        BY <1>3 DEF T, e
      <4>2. trace[i].pos # NoPos /\ trace[i].line # NoLine
        BY <1>3 DEF T
      <4> QED BY <1>3, <1>4, <4>1, <4>2, CreatedBy DEF T, code
    <3> HIDE DEF e
    <3>2. e \in Nat
      BY <1>2, <3>1
    <3>3. ~(e < b)
      <4> SUFFICES ASSUME e < b PROVE FALSE
        OBVIOUS
      <4>1. b \in (e + 1)..(i - 1)
        BY <1>3, <2>2, <2>5, <3>2
      <4>2. Shares(T[b].stack, T[i].stack, D)
        BY <2>2, <3>1, <4>1
      <4> QED BY <1>3, <2>3, <4>2 DEF Shares
    <3>4. w \in 0..(b - 1) /\ D - 1 \in 1..(D - 1)
      BY <1>2, <1>3, <1>4, <2>1, <2>2
    <3>5. Shares(T[i].stack, T[c].stack, D - 1)
      <4>1. w = T[c].stack[D - 1].site /\ Nested(code, T, c - 1, T[c].stack)
        BY <1>2, <1>5 DEF w
      <4>2. D - 1 \in 1..Len(T[c].stack)
        BY <1>5, <3>4
      <4>3. Encloses(T, c - 1, T[c].stack, D - 1)
        BY <4>1, <4>2 DEF Nested
      <4>4. i \in (w + 1)..(c - 1)
        BY <1>3, <1>6, <2>2, <2>5, <3>4
      <4> QED BY <1>3, <4>1, <4>3, <4>4 DEF Encloses
    <3>6. SiteIn(T, e) = w /\ T[e].pos[1] = T[c].pos[1]
      <4>1. T[e].stack[D - 1].site = T[c].stack[D - 1].site /\ T[e].stack[D - 1].fn = T[c].stack[D - 1].fn
        BY <3>1, <3>4, <3>5 DEF Shares
      <4> QED BY <1>2, <1>5, <3>1, <4>1 DEF w
    <3>7. T[e].line = T[c].line
      <4>1. CASE e = b
        BY <2>1, <4>1
      <4>2. CASE b < e
        <5>1. e < c
          BY <1>3, <1>6, <3>1, <3>2
        <5>2. e \notin Starts
          <6>1. ~(e <= b)
            BY <2>2, <3>2, <4>2
          <6> QED BY <2>1, <3>6, <5>1, <6>1
        <5>3. PICK a \in Starts :
                /\ a < e /\ SiteIn(T, a) = w /\ T[a].line = T[e].line
                /\ \A y \in Starts : y < e /\ SiteIn(T, y) = w => y <= a
          <6>1. \E a \in Starts :
                  /\ a < e /\ SiteIn(T, a) = SiteIn(T, e) /\ T[a].line = T[e].line
                  /\ \A y \in Starts : y < e /\ SiteIn(T, y) = SiteIn(T, e) => y <= a
            BY <3>1, <5>2, Continues DEF T
          <6> QED BY <3>6, <6>1
        <5>4. a \in Nat /\ b <= a
          BY <1>1, <1>2, <2>1, <4>2, <5>3
        <5>5. a < c
          BY <1>6, <3>2, <5>1, <5>3, <5>4
        <5>6. a = b
          BY <2>1, <2>2, <5>3, <5>4, <5>5
        <5> QED BY <2>1, <5>3, <5>6
      <4> QED BY <2>2, <3>2, <3>3, <4>1, <4>2
    <3>8. T[e].pos = T[c].pos
      <4>1. ReadsCode(code, T[e])
        BY <1>2, <3>1
      <4> QED BY <1>5, <1>7, <3>1, <3>6, <3>7, <4>1, OneCall DEF code
    <3>9. e \in b..(c - 1)
      BY <1>3, <1>6, <2>2, <3>1, <3>2, <3>3
    <3> QED BY <2>1, <3>1, <3>6, <3>8, <3>9
  <2>6. b # i
    BY <1>3, <1>4, <2>3
  <2>7. b < i \/ i < b
    BY <1>3, <2>2, <2>6
  <2> QED BY <2>4, <2>5, <2>7
<1> QED BY <1>8, <1>9


\* The run starts come in the order of the records, and the stops of a session are those of
\* its trace.
Ascending == \A k, l \in DOMAIN runs.starts : k < l => runs.starts[k] < runs.starts[l]

StopsOK ==
    /\ Ascending
    /\ Loaded => \E justMyCode \in BOOLEAN : stops = BuildStopModel(trace, runs.starts, Source, justMyCode)

LEMMA AscendingKept ==
    ASSUME TypeOK, TraceOK, Ascending, Execute
    PROVE  Ascending'
<1>1. /\ count \in Nat
      /\ \/ runs' = runs
         \/ count' = count + 1 /\ runs' = RunStep(runs, count', NewRecord)
  <2> HIDE DEF NewRecord
  <2> QED BY TraceGrows
<1>2. CASE runs'.starts = runs.starts
  BY <1>2 DEF Ascending
<1>3. CASE runs'.starts = Append(runs.starts, count + 1)
  <2> DEFINE s == runs.starts
             L == Len(s)
  <2>1. s \in Seq(Nat) /\ \A k \in DOMAIN s : s[k] \in 1..count
    BY DEF TraceOK, ToSet
  <2>2. L \in Nat /\ DOMAIN s = 1..L
    BY <2>1, LenProperties
  <2>3. count + 1 \in Nat
    BY <1>1
  <2>4. /\ DOMAIN runs'.starts = 1..(L + 1)
        /\ \A k \in 1..L : runs'.starts[k] = s[k]
        /\ runs'.starts[L + 1] = count + 1
    <3>1. /\ Append(s, count + 1) \in Seq(Nat) /\ Len(Append(s, count + 1)) = L + 1
          /\ \A k \in 1..L : Append(s, count + 1)[k] = s[k]
          /\ Append(s, count + 1)[L + 1] = count + 1
      BY <2>1, <2>3, AppendProperties
    <3> QED BY <1>3, <3>1, LenProperties
  <2> SUFFICES ASSUME NEW k \in 1..(L + 1), NEW l \in 1..(L + 1), k < l
               PROVE  runs'.starts[k] < runs'.starts[l]
    BY <2>4 DEF Ascending
  <2>5. k \in 1..L /\ (l \in 1..L \/ l = L + 1)
    BY <2>2
  <2>6. \A x, y \in 1..L : x < y => s[x] < s[y]
    BY <2>2 DEF Ascending
  <2> HIDE DEF s, L
  <2>7. CASE l \in 1..L
    BY <2>4, <2>5, <2>6, <2>7
  <2>8. CASE l = L + 1
    <3>1. s[k] \in 1..count
      BY <2>1, <2>2, <2>5
    <3> QED BY <1>1, <2>4, <2>5, <2>8, <3>1
  <2> QED BY <2>5, <2>7, <2>8
<1> QED
  <2> HIDE DEF NewRecord
  <2> QED BY <1>1, <1>2, <1>3, RunStepStarts

LEMMA StopsHold == RSpec => []StopsOK
<1>1. RInit => StopsOK
  BY DEF RInit, CursorInit, StopsOK, Ascending, Loaded
<1>2. RInv /\ StopsOK /\ [RNext]_replayVars => StopsOK'
  <2> SUFFICES ASSUME RInv, StopsOK, [RNext]_replayVars PROVE StopsOK'
    OBVIOUS
  <2>1. CASE Execute
    <3>1. Ascending'
      BY <2>1, AscendingKept DEF RInv, StopsOK
    <3>2. ~Loaded'
      BY <2>1 DEF Execute, Loaded, cursorVars
    <3> QED BY <3>1, <3>2 DEF StopsOK
  <2>2. ASSUME runs' = runs PROVE Ascending'
    BY <2>2 DEF StopsOK, Ascending
  <2>3. CASE Load
    <3>1. UNCHANGED <<trace, runs>>
      BY <2>3 DEF Load
    <3>2. PICK justMyCode \in BOOLEAN : stops' = BuildStopModel(trace, runs.starts, Source, justMyCode)
      BY <2>3 DEF Load
    <3>3. BuildStopModel(trace, runs.starts, Source, justMyCode)'
            = BuildStopModel(trace, runs.starts, Source, justMyCode)
      BY <3>1
    <3> QED BY <2>2, <3>1, <3>2, <3>3 DEF StopsOK
  <2>4. ASSUME UNCHANGED <<trace, runs, stops>> PROVE StopsOK'
    <3>1. Loaded' = Loaded
      BY <2>4 DEF Loaded
    <3> QED BY <2>2, <2>4, <3>1 DEF StopsOK
  <2>5. CASE Move
    BY <2>4, <2>5, MoveIsCursorMove DEF RInv, Move
  <2>6. CASE UNCHANGED replayVars
    BY <2>4, <2>6 DEF replayVars, cursorVars
  <2> QED BY <2>1, <2>3, <2>5, <2>6 DEF RNext
<1> QED BY <1>1, <1>2, InvariantHolds, PTL DEF RSpec

\* Records of one activation are of one function.
LEMMA SameFunction ==
    ASSUME TypeOK, TraceOK, StacksOK, NestOK, NEW x \in 1..count, NEW y \in 1..count,
           trace[x].pos # NoPos, trace[y].pos # NoPos, SiteIn(trace, x) = SiteIn(trace, y)
    PROVE  trace[x].pos[1] = trace[y].pos[1]
<1>1. ASSUME NEW i \in 1..count, NEW j \in 1..count, trace[i].pos # NoPos, trace[j].pos # NoPos,
             SiteIn(trace, i) = SiteIn(trace, j), i < j
      PROVE  trace[i].pos[1] = trace[j].pos[1]
  <2> DEFINE s == trace[i].stack
             t == trace[j].stack
             w == SiteIn(trace, j)
  <2>1. /\ Len(s) \in Nat \ {0} /\ i \in Nat \ {0} /\ SiteIn(trace, i) \in 0..(i - 1)
        /\ trace[i].pos[1] = s[Len(s)].fn /\ AtLevel(trace, SiteIn(trace, i), Len(s))
    BY <1>1, RecordFacts
  <2>2. /\ Len(t) \in Nat \ {0} /\ j \in Nat \ {0} /\ w = t[Len(t)].site
        /\ trace[j].pos[1] = t[Len(t)].fn /\ AtLevel(trace, w, Len(t))
        /\ Nested(prog.body, trace, j - 1, t)
    BY <1>1, RecordFacts
  <2>3. SiteIn(trace, i) = w
    BY <1>1
  <2> HIDE DEF s, t, w
  <2>4. Len(s) = Len(t)
    <3>1. 0 \notin DOMAIN trace
      BY TraceDomain
    <3> QED BY <2>1, <2>2, <2>3, <3>1, OneLevel
  <2>5. Len(t) \in 1..Len(t)
    BY <2>2
  <2>6. Encloses(trace, j - 1, t, Len(t))
    BY <2>2, <2>5 DEF Nested
  <2>7. i \in (w + 1)..(j - 1)
    BY <1>1, <2>1, <2>2, <2>3
  <2>8. Shares(s, t, Len(t))
    BY <1>1, <2>2, <2>6, <2>7 DEF Encloses, s
  <2> QED BY <2>1, <2>2, <2>4, <2>5, <2>8 DEF Shares
<1>2. x \in Nat /\ y \in Nat
  BY DEF TypeOK
<1> QED BY <1>1, <1>2


\* A kept start of the activation of start i takes its place.
LEMMA KeptInFrame ==
    ASSUME TypeOK, TraceOK, StacksOK, NestOK, RunsMatchActivations, Ascending,
           NEW dark, CallsHaveLines(dark), CallsAlone,
           NEW depth, depth = [x \in DOMAIN trace |-> trace[x].depth],
           NEW role, NEW p \in DOMAIN runs.starts,
           OtherSameDepthStopInFrame(runs.starts, depth, role, p)
    PROVE  \E q \in DOMAIN runs.starts :
              /\ IsKeptStop(runs.starts, depth, role, q)
              /\ SiteIn(trace, runs.starts[q]) = SiteIn(trace, runs.starts[p])
<1> DEFINE s == runs.starts
<1>1. PICK q \in DOMAIN s \ {p} :
        /\ depth[s[q]] = depth[s[p]] /\ IsKeptStop(s, depth, role, q)
        /\ \A m \in DOMAIN s : (p < m /\ m < q) \/ (q < m /\ m < p) => depth[s[m]] >= depth[s[p]]
  BY DEF OtherSameDepthStopInFrame
<1>2. s \in Seq(Nat) /\ DOMAIN s \subseteq Nat
  BY LenProperties DEF TraceOK
<1>3. \A k \in DOMAIN s : s[k] \in Starts /\ s[k] \in DOMAIN trace /\ s[k] \in Nat
  BY <1>2, TraceDomain DEF TraceOK, Starts, ToSet
<1>4. \A k \in DOMAIN s : depth[s[k]] = trace[s[k]].depth /\ trace[s[k]].depth \in Nat
  BY <1>3, TraceDomain DEF TraceOK
<1>5. \A m \in Starts : \E k \in DOMAIN s : m = s[k]
  BY DEF Starts, ToSet
<1>6. \A k, l \in DOMAIN s : s[k] < s[l] => k < l
  <2> SUFFICES ASSUME NEW k \in DOMAIN s, NEW l \in DOMAIN s, s[k] < s[l], ~(k < l) PROVE FALSE
    OBVIOUS
  <2> HIDE DEF s
  <2>1. k = l \/ l < k
    BY <1>2
  <2>2. l < k => s[l] < s[k]
    BY DEF Ascending, s
  <2> QED BY <1>3, <2>1, <2>2
<1>7. ASSUME NEW k \in DOMAIN s, NEW l \in DOMAIN s, k < l, {k, l} = {p, q}
      PROVE  SiteIn(trace, s[k]) = SiteIn(trace, s[l])
  <2> SUFFICES ASSUME SiteIn(trace, s[k]) # SiteIn(trace, s[l]) PROVE FALSE
    OBVIOUS
  <2> DEFINE i == s[k]
             j == s[l]
  <2>1. i < j
    BY <1>7 DEF Ascending
  <2>2. trace[i].depth = trace[j].depth
    <3>1. depth[i] = depth[j]
      BY <1>1, <1>7
    <3> QED BY <1>4, <3>1
  <2>3. i \in Starts /\ j \in Starts
    BY <1>3
  <2> HIDE DEF i, j
  <2>4. PICK m \in Starts : i < m /\ m < j /\ trace[m].depth < trace[i].depth
    BY <2>1, <2>2, <2>3, SiblingsApart DEF i, j
  <2>5. PICK r \in DOMAIN s : m = s[r]
    BY <1>5
  <2>6. k < r /\ r < l
    BY <1>6, <2>4, <2>5 DEF i, j
  <2>7. depth[s[r]] >= depth[s[k]]
    BY <1>1, <1>7, <2>6
  <2> QED BY <1>4, <2>4, <2>5, <2>7 DEF i
<1>8. q < p \/ p < q
  BY <1>1, <1>2
<1>9. SiteIn(trace, s[q]) = SiteIn(trace, s[p])
  <2>1. {p, q} = {q, p}
    OBVIOUS
  <2> QED BY <1>1, <1>7, <1>8, <2>1
<1> QED BY <1>1, <1>9

\* The filters keep a stop for the sake of which they dropped another.
LEMMA FiltersKeep ==
    ASSUME NEW starts, NEW depth, NEW role, NEW workspace, NEW justMyCode \in BOOLEAN,
           NEW q \in DOMAIN starts, starts[q] \in workspace,
           \/ IsKeptStop(starts, depth, role, q)
           \/ role[starts[q]] = "signature" /\ ~OtherSameDepthStopInFrame(starts, depth, role, q)
    PROVE  starts[q] \in IF justMyCode THEN MyCodeStops(StatementStops(starts, depth, role), workspace)
                         ELSE StatementStops(starts, depth, role)
<1> DEFINE filtered == {starts[p] : p \in {p \in DOMAIN starts :
                \/ IsKeptStop(starts, depth, role, p)
                \/ /\ role[starts[p]] = "signature"
                   /\ ~OtherSameDepthStopInFrame(starts, depth, role, p)}}
<1>1. starts[q] \in filtered
  OBVIOUS
<1>2. StatementStops(starts, depth, role) = OrAll(filtered, ToSet(starts))
  BY DEF StatementStops
<1> HIDE DEF filtered
<1>3. starts[q] \in StatementStops(starts, depth, role)
  BY <1>1, <1>2 DEF OrAll
<1> QED BY <1>3 DEF MyCodeStops, OrAll

LEMMA FilterKeeps ==
    ASSUME RInv, StacksOK, NestOK, RunsMatchActivations, StopsOK, Loaded,
           NEW dark, CallsHaveLines(dark), CallsAlone, OwnCode,
           NEW i \in stops.raw, Source[trace[i].line].role \in {"statement", "signature"},
           Source[trace[i].line].workspace
    PROVE  \E j \in stops.stops : Site(j) = Site(i)
<1> DEFINE s == runs.starts
           depth == [x \in DOMAIN trace |-> trace[x].depth]
           raw == ToSet(s)
           role == [x \in raw |-> Source[trace[x].line].role]
           workspace == {x \in raw : Source[trace[x].line].workspace}
<1>1. PICK justMyCode \in BOOLEAN : stops = BuildStopModel(trace, s, Source, justMyCode)
  BY DEF StopsOK
<1>2. /\ stops.raw = raw
      /\ stops.stops = IF justMyCode THEN MyCodeStops(StatementStops(s, depth, role), workspace)
                       ELSE StatementStops(s, depth, role)
  BY <1>1 DEF BuildStopModel
<1>3. PICK p \in DOMAIN s : i = s[p]
  BY <1>2 DEF ToSet
<1>4. TypeOK /\ TraceOK /\ Ascending
  BY DEF RInv, StopsOK
<1>5. \A k \in DOMAIN s : s[k] \in raw /\ role[s[k]] = Source[trace[s[k]].line].role
  BY DEF ToSet
<1>6. SUFFICES \E q \in DOMAIN s :
        /\ s[q] \in workspace /\ SiteIn(trace, s[q]) = SiteIn(trace, i)
        /\ \/ IsKeptStop(s, depth, role, q)
           \/ role[s[q]] = "signature" /\ ~OtherSameDepthStopInFrame(s, depth, role, q)
  <2>1. PICK q \in DOMAIN s :
        /\ s[q] \in workspace /\ SiteIn(trace, s[q]) = SiteIn(trace, i)
        /\ \/ IsKeptStop(s, depth, role, q)
           \/ role[s[q]] = "signature" /\ ~OtherSameDepthStopInFrame(s, depth, role, q)
    BY <1>6
  <2> HIDE DEF s, depth, role, workspace
  <2>2. s[q] \in IF justMyCode THEN MyCodeStops(StatementStops(s, depth, role), workspace)
                 ELSE StatementStops(s, depth, role)
    BY <2>1, FiltersKeep
  <2>3. s[q] \in stops.stops
    BY <1>2, <2>2, Zenon
  <2> QED BY <2>1, <2>3 DEF SiteIn, Site
<1>7. i \in workspace
  BY <1>3, <1>5
<1>8. CASE IsKeptStop(s, depth, role, p) \/ ~OtherSameDepthStopInFrame(s, depth, role, p)
  <2>1. role[i] = "statement" \/ role[i] = "signature"
    BY <1>3, <1>5
  <2> HIDE DEF depth, role, workspace
  <2> QED BY <1>3, <1>7, <1>8, <2>1 DEF IsKeptStop
<1>9. CASE role[i] = "signature" /\ OtherSameDepthStopInFrame(s, depth, role, p)
  <2>1. PICK q \in DOMAIN s : IsKeptStop(s, depth, role, q) /\ SiteIn(trace, s[q]) = SiteIn(trace, i)
    <3> HIDE DEF role
    <3> QED BY <1>3, <1>4, <1>9, KeptInFrame
  <2> DEFINE j == s[q]
  <2>2. role[j] \in {"statement", "brace"}
    BY <2>1 DEF IsKeptStop
  <2>3. \A k \in DOMAIN s : s[k] \in 1..count /\ trace[s[k]].pos # NoPos /\ trace[s[k]].line # NoLine
    <3>1. \A x \in raw : x \in 1..count /\ trace[x].pos # NoPos
      BY <1>4 DEF TraceOK
    <3>2. \A x \in raw : ExecutionIn(trace, Starts, x)
      BY ExecutionsIn DEF Starts
    <3> QED BY <1>5, <3>1, <3>2 DEF ExecutionIn
  <2>4. trace[i].pos[1] = trace[j].pos[1]
    BY <1>3, <1>4, <2>1, <2>3, SameFunction
  <2>5. ReadsCode(prog.body, trace[i]) /\ ReadsCode(prog.body, trace[j])
    BY <1>3, <1>4, <2>3, RecordFacts
  <2>6. Source[trace[j].line].workspace
    <3> DEFINE f == trace[i].pos[1]
               k == trace[i].pos[2]
               m == trace[j].pos[2]
    <3>1. /\ f \in DOMAIN prog.body /\ k \in DOMAIN prog.body[f] /\ m \in DOMAIN prog.body[f]
          /\ prog.body[f][k].line = trace[i].line /\ prog.body[f][m].line = trace[j].line
      BY <2>4, <2>5 DEF ReadsCode, InstrOf
    <3>2. InRole(trace[i].line, {"signature"}) /\ InRole(trace[j].line, {"statement", "brace"})
      BY <1>3, <1>5, <1>9, <2>2, <2>3 DEF InRole
    <3>3. prog \in Programs
      BY <1>4 DEF TypeOK
    <3> HIDE DEF f, k, m, j
    <3> QED BY <3>1, <3>2, <3>3 DEF OwnCode
  <2>7. j \in workspace
    BY <1>5, <2>6
  <2> HIDE DEF depth, role, workspace
  <2> QED BY <2>1, <2>7
<1>10. role[i] = "statement" => IsKeptStop(s, depth, role, p)
  BY <1>3 DEF IsKeptStop
<1>11. role[i] = "statement" \/ role[i] = "signature"
  BY <1>3, <1>5
<1> HIDE DEF role, depth, s, workspace
<1> QED BY <1>8, <1>9, <1>10, <1>11

\* Without recursion, when the lines of a callee's code imply one for its call, no two calls
\* of a function share a line and none of its code is inlined library code, an activation
\* that executed a user's statement or signature keeps a stop: a signature is dropped for
\* the sake of a stop of its own activation only (statementStops and myCodeStops;
\* docs/stepping.md, S17, S18 and S21).
THEOREM FilterAlwaysKeepsFrames ==
    ASSUME NEW rank, Layered(rank), NEW dark, CallsHaveLines(dark), CallsAlone, OwnCode
    PROVE  RSpec => []FilterKeepsFrames
<1>1. RSpec => []RunsMatchActivations
  BY RunsAlwaysMatchActivations
<1>2. RSpec => []StacksOK
  BY StacksHold
<1>3. RSpec => []NestOK
  BY NestHolds
<1>4. RInv /\ StacksOK /\ NestOK /\ RunsMatchActivations /\ StopsOK => FilterKeepsFrames
  BY FilterKeeps DEF FilterKeepsFrames
<1> QED BY <1>1, <1>2, <1>3, <1>4, InvariantHolds, StopsHold, PTL


=============================================================================
