----------------------------- MODULE Locations ------------------------------
(***************************************************************************)
(* dwarf/locexpr.ts and dwarf/debugLoc.ts: where a variable lives at a code *)
(* offset.  An expression is a sequence of operations, records [op, n], with *)
(* the slot kind for DW_OP_WASM_location; a truncated one ends in an        *)
(* operation "cut".  The run-time state is a record of one trace record's   *)
(* slots, state.slots[kind] a function of the slot index.                   *)
(***************************************************************************)
EXTENDS Integers, Sequences, SequencesExt

CONSTANTS Exact,        \* a JavaScript number holds the integers below it exactly
          Selector      \* the begin address of a base-selection entry

ASSUME ExactAssumption == Exact \in Nat \ {0}

Unavailable == [kind |-> "unavailable", n |-> 0]
Registers == {"local", "global", "stack"}

----------------------------------------------------------------------------
\* Number(v): a bigint as a JavaScript number.  A value beyond Exact keeps its leading
\* bits, the rest rounded to the nearest, ties to even.
Magnitude(v) == IF v < 0 THEN -v ELSE v
ToNumber(v) ==
    LET Unit[u \in Nat \ {0}] == IF Magnitude(v) < u * Exact THEN u ELSE Unit[2 * u]
        u == Unit[1]
        below == (Magnitude(v) \div u) * u
        up == \/ 2 * (Magnitude(v) - below) > u
              \/ 2 * (Magnitude(v) - below) = u /\ (below \div u) % 2 = 1
        rounded == IF up THEN below + u ELSE below
    IN  IF Magnitude(v) < Exact THEN v ELSE IF v < 0 THEN -rounded ELSE rounded

\* registerValue: the content of a slot as a number; <<>> when the slot is absent
\* or the location is no slot.  A slot is [form, v], form "number" or "bigint".
RegisterValue(loc, state) ==
    IF loc.kind \notin Registers \/ loc.n \notin DOMAIN state.slots[loc.kind] THEN <<>>
    ELSE LET slot == state.slots[loc.kind][loc.n]
         IN  <<IF slot.form = "bigint" THEN ToNumber(slot.v) ELSE slot.v>>

\* readWasmLocation: kinds 0, 1 and 2 are slots, kind 3 a global with a fixed-width
\* index, any other kind unsupported.
SlotKind(k) == <<"local", "global", "stack", "global">>[k + 1]

\* One turn of the loop of evaluate; st.out is a result that ends it.  base is the
\* value of the frame base, <<>> when it has none.
EvalOp(base, st, op) ==
    LET fail == [st EXCEPT !.out = <<Unavailable>>]
    IN  IF st.out # <<>> THEN st
        ELSE CASE op.op = "addr" -> [st EXCEPT !.stack = Append(@, op.n)]
               [] op.op = "plus_uconst" /\ st.stack # <<>> ->
                        [st EXCEPT !.stack = Append(Front(@), Last(@) + op.n)]
               [] op.op = "fbreg" /\ base # <<>> -> [st EXCEPT !.stack = Append(@, base[1] + op.n)]
               [] op.op = "stack_value" -> [st EXCEPT !.isValue = TRUE]
               [] op.op = "wasm" /\ op.k \in 0..3 ->
                        [st EXCEPT !.pending = <<[kind |-> SlotKind(op.k), n |-> op.n]>>]
               [] OTHER -> fail

\* evaluate: after the last operation the top of the stack is a value or an
\* address, and without one the slot named by the expression is the location.
Evaluate(expr, base, state) ==
    LET start == [stack |-> <<>>, pending |-> <<>>, isValue |-> FALSE, out |-> <<>>]
        After[i \in 0..Len(expr)] == IF i = 0 THEN start ELSE LET st == After[i - 1] IN EvalOp(base, st, expr[i])
        end == After[Len(expr)]
    IN  IF end.out # <<>> THEN end.out[1]
        ELSE IF end.stack # <<>>
        THEN [kind |-> IF end.isValue THEN "value" ELSE "memory", n |-> Last(end.stack)]
        ELSE IF end.pending # <<>> THEN end.pending[1]
        ELSE Unavailable

\* evalLocation: the frame base is itself an expression, evaluated without one.
EvalLocation(expr, frameBase, state) ==
    Evaluate(expr, RegisterValue(Evaluate(frameBase, <<>>, state), state), state)

----------------------------------------------------------------------------
\* selectLocation: the first entry of a location list that covers the offset.
\* An entry is [begin, end, expr]; begin = Selector makes its end the new base,
\* (0, 0) ends the list.
NoExpr == << >>

SelectLocation(list, pc, cuLowPc) ==
    LET Base[k \in 0..Len(list)] ==
            IF k = 0 THEN cuLowPc ELSE IF list[k].begin = Selector THEN list[k].end ELSE Base[k - 1]
        ended(k) == \E j \in 1..k : list[j].begin = 0 /\ list[j].end = 0
        covering == {k \in DOMAIN list : /\ ~ended(k) /\ list[k].begin # Selector
                                         /\ pc \in (Base[k] + list[k].begin)..(Base[k] + list[k].end - 1)}
    IN  IF covering = {} THEN NoExpr ELSE list[Min(covering)].expr

============================================================================
