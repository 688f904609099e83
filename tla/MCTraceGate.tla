---------------------------- MODULE MCTraceGate -----------------------------
(***************************************************************************)
(* A root contract and a callee whose code overlaps it: an offset where both *)
(* have the same instruction, one the trace cannot spell, a store each, and  *)
(* global initializers that coincide with code, miss it and cut into it.     *)
(***************************************************************************)
EXTENDS TraceGate

MCContracts == {"root", "callee"}
Op(op, traced, flips) == [op |-> op, traced |-> traced, flips |-> flips]
MCCode == [root |-> (0 :> Op("i32.const", "i32.const", {}) @@ 2 :> Op("if", "unknown", {})
                        @@ 4 :> Op("i32.store", "i32.store", {0})),
           callee |-> (0 :> Op("i32.const", "i32.const", {}) @@ 2 :> Op("loop", "unknown", {0, 1}))]
MCInitializers == 0 :> "i32.const" @@ 1 :> "i32.const" @@ 4 :> "i32.const"
MCCells == {0, 1}
MCReleases == {"current", "callContract", "endWasm", "contractData", "mem", "globals", "unkinded"}

\* The root's wasm: a code section that starts at byte 7, the lines of its only body
\* and those around it.
Line(at, text) == [at |-> at, text |-> text]
Good == [readable |-> TRUE, payloadStart |-> 7, lineInfo |-> "rows", scopes |-> "functions",
         listing |-> <<Line(3, "(module"), Line(7, "i32.const"), Line(11, "i32.store"), Line(9, "if"), Line(12, ")")>>,
         bodies |-> <<[start |-> 7, end |-> 12]>>, imported |-> 1, names |-> 1 :> "f"]
MCWasms == {<<>>, <<Good>>, <<[Good EXCEPT !.readable = FALSE]>>}

============================================================================
