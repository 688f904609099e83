--------------------------- MODULE CallStackView ---------------------------
(***************************************************************************)
(* buildCallStack (src/debugAdapter/callStack.ts): the frames shown at a   *)
(* record, from the activations found in the trace, the calls the compiler *)
(* inlined and the host's contract calls.  Sequences of the code that run  *)
(* outermost first do so here; the result is innermost first.              *)
(***************************************************************************)
EXTENDS Integers, SequencesExt

\* A record is [pos, line, stack, calls, ...]: its validated position or <<>>, the
\* line the mapper gives it or 0, its activations [fn, site], site being the
\* record of the call, and the open contract calls, innermost first.  Debug information is
\* [inlines, names]: per position, the calls inlined there [name, callSite] and
\* the qualified name of the function, <<>> when it is not known.
Unmapped == 0

\* The naming ladder: the DWARF name, the function of the module, the position.  A
\* frame without a line says how far into its function it stands.
ActivationName(qualified, fn, pos, source) ==
    LET base == IF qualified # <<>> THEN qualified ELSE fn
    IN  IF base # <<>> /\ (source # Unmapped \/ pos = <<>> \/ fn = <<>>)
        THEN [of |-> base, at |-> <<>>] ELSE [of |-> base, at |-> pos]

\* The innermost frame of an inlined chain stands where the line table points,
\* every one below it at the call site of the one above.
Chain(line, inlines) ==
    [k \in 1..(Len(inlines) + 1) |->
        IF k = 1 THEN line ELSE inlines[Len(inlines) - k + 2].callSite]

\* pcAtIndex (stopModel.ts): the position of the record or of the nearest earlier one.
PcAt(records, index) ==
    LET placed == {i \in 1..index : records[i].pos # <<>>}
    IN  IF placed = {} THEN <<>> ELSE records[Max(placed)].pos

\* pushActivation: the calls inlined at the record, then the activation itself.
ActivationFrames(info, records, fn, at) ==
    LET pos == PcAt(records, at)
        inlines == IF pos = <<>> THEN <<>> ELSE info.inlines[pos]
        qualified == IF pos = <<>> THEN <<>> ELSE info.names[pos]
        sources == Chain(records[at].line, inlines)
        own == Last(sources)
    IN  [k \in 1..(Len(inlines) + 1) |->
            IF k <= Len(inlines)
            THEN [kind |-> "inline", name |-> [of |-> inlines[Len(inlines) - k + 1].name, at |-> <<>>],
                  at |-> at, source |-> sources[k]]
            ELSE [kind |-> IF own = Unmapped THEN "wasm" ELSE "rust",
                  name |-> ActivationName(qualified, fn, pos, own), at |-> at, source |-> own]]

\* An outer activation stands at the call instruction that entered the one below
\* it; without any activation the cursor's own address is still a frame.
BuildCallStack(info, records, index) ==
    LET stack == records[index].stack
        at(j) == IF j = Len(stack) THEN index ELSE stack[j + 1].site
        activations == IF stack = <<>> THEN <<ActivationFrames(info, records, <<>>, index)>>
                       ELSE [k \in DOMAIN stack |->
                                LET j == Len(stack) - k + 1
                                IN  ActivationFrames(info, records, stack[j].fn, at(j))]
        boundary(call) == [kind |-> "contract", name |-> [of |-> call, at |-> <<>>], at |-> 0, source |-> Unmapped]
        calls == records[index].calls
    IN  FlattenSeq(activations) \o [k \in DOMAIN calls |-> boundary(calls[k])]

=============================================================================
