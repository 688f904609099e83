----------------------------- MODULE StopModel -----------------------------
(***************************************************************************)
(* The pure part of the stop model (src/debugAdapter/stops.ts and          *)
(* stopModel.ts): from a recorded trace to the points a debugger may rest  *)
(* on.  Record i of the code is record i + 1 here, so that 0 is "none".    *)
(***************************************************************************)
EXTENDS Integers, SequencesExt

\* A record is [pos, line, depth, ...]: its validated position (NoPos when it
\* has none), its line key (NoLine when nothing maps it) and its frame depth.
NoPos == <<>>
NoLine == 0

(***************************************************************************)
(* computeRunStarts, one iteration.  `runs` holds the current line run per *)
(* depth, index depth + 1; entries above the record's depth die.           *)
(***************************************************************************)
NoRun == [key |-> NoLine, offsets |-> {}]

\* Variants of RunStep: runs of deeper frames survive; indices are off by one.
RunStepKeepsDeeper(rs, i, r) ==
    LET size == IF Len(rs.runs) > r.depth + 1 THEN Len(rs.runs) ELSE r.depth + 1
        kept == [d \in 1..size |-> IF d \in DOMAIN rs.runs THEN rs.runs[d] ELSE NoRun]
        run == kept[r.depth + 1]
        extends == run.key = r.line /\ r.pos \notin run.offsets
        grown == [key |-> r.line, offsets |-> (IF extends THEN run.offsets ELSE {}) \union {r.pos}]
    IN  IF r.pos = NoPos \/ r.line = NoLine THEN rs
        ELSE [runs |-> [kept EXCEPT ![r.depth + 1] = grown],
              starts |-> IF extends THEN rs.starts ELSE Append(rs.starts, i)]

RunStepOffByOne(rs, i, r) ==
    IF r.pos = NoPos \/ r.line = NoLine THEN rs
    ELSE [runs |-> rs.runs, starts |-> Append(rs.starts, i - 1)]

RunStep(rs, i, r) ==
    LET kept == [d \in 1..(r.depth + 1) |-> IF d \in DOMAIN rs.runs THEN rs.runs[d] ELSE NoRun]
        run == kept[r.depth + 1]
        extends == run.key = r.line /\ r.pos \notin run.offsets
        grown == [key |-> r.line, offsets |-> (IF extends THEN run.offsets ELSE {}) \union {r.pos}]
    IN  IF r.pos = NoPos \/ r.line = NoLine THEN rs
        ELSE [runs |-> [kept EXCEPT ![r.depth + 1] = grown],
              starts |-> IF extends THEN rs.starts ELSE Append(rs.starts, i)]

(***************************************************************************)
(* statementStops (S17, S18): drop attribute lines, signatures that are    *)
(* not their frame's sole run start, and braces that are not the last one. *)
(* `starts` lists the run starts, `depth` and `role` are their functions.  *)
(***************************************************************************)
Roles == {"attribute", "signature", "brace", "statement"}

KeepBrace(starts, depth, p) ==
    p = Len(starts) \/ depth[starts[p + 1]] < depth[starts[p]]

IsKeptStop(starts, depth, role, q) ==
    \/ role[starts[q]] = "statement"
    \/ role[starts[q]] = "brace" /\ KeepBrace(starts, depth, q)

\* Variant: the search for another stop runs on into other frames.
OtherSameDepthStop(starts, depth, role, p) ==
    \E q \in DOMAIN starts \ {p} :
        depth[starts[q]] = depth[starts[p]] /\ IsKeptStop(starts, depth, role, q)

\* Another kept run start at the same depth, with no shallower one in between.
OtherSameDepthStopInFrame(starts, depth, role, p) ==
    \E q \in DOMAIN starts \ {p} :
        /\ depth[starts[q]] = depth[starts[p]]
        /\ IsKeptStop(starts, depth, role, q)
        /\ \A m \in DOMAIN starts :
            (p < m /\ m < q) \/ (q < m /\ m < p) => depth[starts[m]] >= depth[starts[p]]

\* Variant: no fallback.
OrNone(filtered, all) == filtered

\* A filter that would remove every stop removes none.
OrAll(filtered, all) == IF filtered = {} THEN all ELSE filtered

StatementStops(starts, depth, role) ==
    OrAll({starts[p] : p \in {p \in DOMAIN starts :
            \/ IsKeptStop(starts, depth, role, p)
            \/ /\ role[starts[p]] = "signature"
               /\ ~OtherSameDepthStopInFrame(starts, depth, role, p)}},
          ToSet(starts))

\* myCodeStops (S21).
MyCodeStops(stops, workspace) == OrAll(stops \cap workspace, stops)

(***************************************************************************)
(* buildStopModel.  `source` describes a line: its role and whether it is  *)
(* workspace code (classifyLineRole and isWorkspaceSource of its text and  *)
(* its path).                                                              *)
(***************************************************************************)
BuildStopModel(trace, starts, source, justMyCode) ==
    LET depth == [i \in DOMAIN trace |-> trace[i].depth]
        raw == ToSet(starts)
        role == [i \in raw |-> source[trace[i].line].role]
        statements == StatementStops(starts, depth, role)
        workspace == {i \in raw : source[trace[i].line].workspace}
    IN  [n |-> Len(trace),
         visible |-> {i \in DOMAIN trace : trace[i].pos # NoPos},
         depth |-> depth,
         raw |-> raw,
         stops |-> IF justMyCode THEN MyCodeStops(statements, workspace) ELSE statements]

=============================================================================
