----------------------- MODULE VariableResolverProofs -----------------------
(***************************************************************************)
(* Proofs about what the variables view reads and shows.  Expansion ends   *)
(* for every image: any debug information, however malformed, any memory,  *)
(* any budget.  That lines, numbers, layouts and frames are shown exactly  *)
(* is proved for every image that keeps what compilers promise             *)
(* (CompiledImages).                                                       *)
(***************************************************************************)
EXTENDS CompiledImages, ProofLemmas, FiniteSetTheorems

\* What a child has to do with the context its parent was decoded in: it is one
\* level deeper in memory, and a pointee is new to the path.
Continues(shown, ctx) ==
    \A k \in DOMAIN shown.kids :
        LET kid == shown.kids[k]
        IN  kid # Elided =>
                /\ kid.loc = At(kid.loc.n)
                /\ kid.depth = ctx.depth + 1
                /\ ctx.visited \subseteq kid.visited
                /\ shown.what = "pointer" => <<kid.loc.n, kid.ref>> \in kid.visited \ ctx.visited

LEMMA LeafContinues ==
    ASSUME NEW what, NEW v, NEW ctx
    PROVE  Continues(Leaf(what, v), ctx)
BY DEF Continues, Leaf

\* A value without a pointee whose children are the elided mark or Child of the context.
LEMMA ChildrenContinue ==
    ASSUME NEW shown, NEW ctx, shown.what # "pointer",
           \A k \in DOMAIN shown.kids : \/ shown.kids[k] = Elided
                                        \/ \E addr, ref : shown.kids[k] = Child(addr, ref, ctx)
    PROVE  Continues(shown, ctx)
<1> SUFFICES ASSUME NEW k \in DOMAIN shown.kids, shown.kids[k] # Elided
             PROVE  /\ shown.kids[k].loc = At(shown.kids[k].loc.n)
                    /\ shown.kids[k].depth = ctx.depth + 1 /\ ctx.visited \subseteq shown.kids[k].visited
  BY DEF Continues
<1>1. PICK addr, ref : shown.kids[k] = Child(addr, ref, ctx)
  OBVIOUS
<1> QED BY <1>1 DEF Child, At

LEMMA AggregateContinues ==
    ASSUME NEW type, NEW loc, NEW ctx
    PROVE  Continues(Aggregate(type, loc, ctx), ctx)
<1> DEFINE shown == Aggregate(type, loc, ctx)
<1>1. \A k \in DOMAIN shown.kids : \/ shown.kids[k] = Elided
                                   \/ \E addr, ref : shown.kids[k] = Child(addr, ref, ctx)
  BY DEF Aggregate, CappedChildren
<1>2. shown.what # "pointer"
  BY DEF Aggregate
<1> QED BY <1>1, <1>2, ChildrenContinue

LEMMA ArrayContinues ==
    ASSUME NEW dies, NEW type, NEW loc, NEW ctx
    PROVE  Continues(DecodeArray(dies, type, loc, ctx), ctx)
<1> DEFINE shown == DecodeArray(dies, type, loc, ctx)
<1>1. CASE loc.kind # "memory"
  BY <1>1, LeafContinues DEF DecodeArray, Unreadable
<1>2. CASE loc.kind = "memory"
  <2>1. \A k \in DOMAIN shown.kids : \/ shown.kids[k] = Elided
                                     \/ \E addr, ref : shown.kids[k] = Child(addr, ref, ctx)
    BY <1>2 DEF DecodeArray, CappedChildren
  <2>2. shown.what # "pointer"
    BY <1>2 DEF DecodeArray
  <2> QED BY <2>1, <2>2, ChildrenContinue
<1> QED BY <1>1, <1>2

LEMMA SliceContinues ==
    ASSUME NEW dies, NEW loc, NEW fat, NEW state, NEW ctx
    PROVE  Continues(DecodeSlice(dies, loc, fat, state, ctx), ctx)
<1> DEFINE shown == DecodeSlice(dies, loc, fat, state, ctx)
<1>1. \A k \in DOMAIN shown.kids : \/ shown.kids[k] = Elided
                                   \/ \E addr, ref : shown.kids[k] = Child(addr, ref, ctx)
  <2>1. PICK addr, step, ref, count :
          \/ shown.kids = <<>>
          \/ shown.kids = CappedChildren(count, [i \in Nat \ {0} |-> Child(addr + (i - 1) * step, ref, ctx)])
    BY DEF DecodeSlice
  <2> HIDE DEF shown
  <2>2. CASE shown.kids = <<>>
    BY <2>2
  <2>3. CASE shown.kids = CappedChildren(count, [i \in Nat \ {0} |-> Child(addr + (i - 1) * step, ref, ctx)])
    BY <2>3 DEF CappedChildren
  <2> QED BY <2>1, <2>2, <2>3
<1>2. shown.what # "pointer"
  BY DEF DecodeSlice
<1> QED BY <1>1, <1>2, ChildrenContinue

LEMMA StructContinues ==
    ASSUME NEW dies, NEW type, NEW loc, NEW state, NEW ctx
    PROVE  Continues(DecodeStruct(dies, type, loc, state, ctx), ctx)
<1>1. Continues(DecodeStr(dies, loc, FatPointer(dies, type), state), ctx)
  BY LeafContinues DEF DecodeStr, Unreadable
<1> QED BY <1>1, LeafContinues, AggregateContinues, SliceContinues DEF DecodeStruct, Unreadable

LEMMA RustEnumContinues ==
    ASSUME NEW dies, NEW type, NEW loc, NEW state, NEW ctx
    PROVE  Continues(DecodeRustEnum(dies, type, loc, state, ctx), ctx)
<1> DEFINE shown == DecodeRustEnum(dies, type, loc, state, ctx)
<1>1. CASE \E what, v : shown = Leaf(what, v)
  BY <1>1, LeafContinues
<1>2. CASE ~ \E what, v : shown = Leaf(what, v)
  <2>1. PICK v, member :
            shown = [what |-> "variant", v |-> v,
                     kids |-> IF member.ref = Absent THEN <<>>
                              ELSE <<Child(loc.n + member.offset, member.ref, ctx)>>]
    BY <1>2 DEF DecodeRustEnum, Unreadable
  <2> QED BY <2>1, ChildrenContinue
<1> QED BY <1>1, <1>2

LEMMA PointerContinues ==
    ASSUME NEW type, NEW loc, NEW state, NEW ctx
    PROVE  Continues(DecodePointer(type, loc, state, ctx), ctx)
<1> DEFINE shown == DecodePointer(type, loc, state, ctx)
<1>1. CASE \E what, v : shown = Leaf(what, v)
  BY <1>1, LeafContinues
<1>2. CASE ~ \E what, v : shown = Leaf(what, v)
  <2>1. PICK p :
            LET key == <<p, type.target>>
                pointee == [loc |-> At(p), ref |-> type.target, depth |-> ctx.depth + 1,
                            visited |-> ctx.visited \cup {key}]
            IN  shown = [what |-> "pointer", v |-> p,
                         kids |-> IF p = 0 \/ type.target = Absent THEN <<>>
                                  ELSE IF key \in ctx.visited THEN <<Elided>> ELSE <<pointee>>]
    BY <1>2 DEF DecodePointer, Unreadable
  <2> QED BY <2>1 DEF Continues, At
<1> QED BY <1>1, <1>2

\* Whatever is decoded within the budget continues its context, and beyond the
\* budget nothing is.
LEMMA DecodeContinues ==
    ASSUME NEW dies, NEW loc, NEW ref, NEW state, NEW ctx
    PROVE  LET shown == Decode(dies, loc, ref, state, ctx)
           IN  /\ Continues(shown, ctx)
               /\ ctx.depth > MaxDepth => shown.kids = <<>>
<1> DEFINE type == Unwrap(dies, ref, loc)
           shown == Decode(dies, loc, ref, state, ctx)
<1>1. CASE loc.kind = "unavailable" \/ ctx.depth > MaxDepth
  BY <1>1, LeafContinues DEF Decode, Leaf
<1>2. CASE loc.kind # "unavailable" /\ ~(ctx.depth > MaxDepth)
  <2>1. \/ shown = DecodeBase(type, loc, state)
        \/ shown = DecodePointer(type, loc, state, ctx)
        \/ shown = DecodeStruct(dies, type, loc, state, ctx)
        \/ shown = DecodeArray(dies, type, loc, ctx)
        \/ shown = DecodeEnum(type, loc, state)
        \/ shown = DecodeRustEnum(dies, type, loc, state, ctx)
        \/ shown = Leaf("unknown", 0)
    <3>1. shown = DecodeAs(dies, type, loc, state, ctx)
      BY <1>2 DEF Decode
    <3> HIDE DEF type, shown
    <3> QED BY ONLY <3>1, Zenon DEF DecodeAs
  <2>2. Continues(DecodeBase(type, loc, state), ctx) /\ Continues(DecodeEnum(type, loc, state), ctx)
    BY LeafContinues DEF DecodeBase, DecodeEnum, Unreadable
  <2> QED BY <1>2, <2>1, <2>2, LeafContinues, PointerContinues, StructContinues, ArrayContinues, RustEnumContinues
<1> QED BY <1>1, <1>2

-----------------------------------------------------------------------------
\* The pointees entered on the way to the node.
Entered == {path[i] : i \in 1..Len(path)} \ {<<>>}

\* The inductive invariant: the children of the node know how far it is from the
\* variable and which pointees were entered on the way.
PathOK ==
    /\ \E S : path \in Seq(S)
    /\ node.shown.kids # <<>> => Len(path) <= MaxDepth
    /\ \A k \in DOMAIN node.shown.kids :
        LET kid == node.shown.kids[k]
        IN  kid # Elided =>
                /\ kid.depth = Len(path) + 1
                /\ Entered \subseteq kid.visited
                /\ node.shown.what = "pointer" =>
                    /\ <<kid.loc.n, kid.ref>> \in kid.visited
                    /\ <<kid.loc.n, kid.ref>> \notin Entered
    /\ ExpansionEnds

\* At the root nothing has been entered.
LEMMA RootOK ==
    ASSUME path' = <<>>, NEW ctx, ctx.depth = 0, Continues(node'.shown, ctx)
    PROVE  PathOK'
<1>1. Len(path') = 0 /\ path' \in Seq({}) /\ Entered' = {}
  BY DEF Entered
<1>2. ExpansionEnds'
  BY <1>1, BudgetAssumption DEF ExpansionEnds
<1>3. node'.shown.kids # <<>> => Len(path') <= MaxDepth
  BY <1>1, BudgetAssumption
<1> QED BY <1>1, <1>2, <1>3 DEF PathOK, Continues

LEMMA ExpandStep ==
    ASSUME PathOK, Expand
    PROVE  PathOK'
<1> DEFINE kids == node.shown.kids
<1>1. PICK i \in DOMAIN kids :
        LET kid == kids[i]
        IN  /\ kid # Elided
            /\ node' = [loc |-> kid.loc, ref |-> kid.ref,
                        shown |-> Decode(img.dies, kid.loc, kid.ref, img.state, kid)]
            /\ path' = Append(path, IF node.shown.what = "pointer" THEN <<kid.loc.n, kid.ref>> ELSE <<>>)
  BY DEF Expand
<1> DEFINE kid == kids[i]
           key == <<kid.loc.n, kid.ref>>
           entry == IF node.shown.what = "pointer" THEN key ELSE <<>>
<1>2. PICK S : path \in Seq(S)
  BY DEF PathOK
<1>3. /\ path \in Seq(S \cup {entry})
      /\ Len(path) \in Nat
  BY <1>2, SeqMonotonic, LenProperties
<1>4. /\ path' \in Seq(S \cup {entry})
      /\ Len(path') = Len(path) + 1
      /\ \A j \in 1..Len(path) : path'[j] = path[j]
      /\ path'[Len(path) + 1] = entry
      /\ DOMAIN path = 1..Len(path) /\ DOMAIN path' = 1..(Len(path) + 1)
  <2> HIDE DEF entry
  <2>1. path' = Append(path, entry)
    BY <1>1 DEF entry
  <2> QED BY <1>3, <2>1, AppendProperties, LenProperties
<1>5. /\ kids # <<>> /\ Len(path) <= MaxDepth
      /\ kid.depth = Len(path) + 1
      /\ Entered \subseteq kid.visited
      /\ entry # <<>> => entry \in kid.visited /\ entry \notin Entered
  <2>1. kids # <<>> /\ i \in DOMAIN kids /\ kid # Elided
    BY <1>1
  <2>2. Len(path) <= MaxDepth /\ kid.depth = Len(path) + 1 /\ Entered \subseteq kid.visited
    BY <2>1 DEF PathOK
  <2>3. node.shown.what = "pointer" => key \in kid.visited /\ key \notin Entered
    BY <2>1 DEF PathOK
  <2> QED BY <2>1, <2>2, <2>3
<1>6. Entered' = (Entered \cup {entry}) \ {<<>>}
  <2> HIDE DEF entry
  <2>1. {path'[j] : j \in 1..Len(path')} = {path[j] : j \in 1..Len(path)} \cup {entry}
    BY <1>3, <1>4
  <2> QED BY <2>1 DEF Entered
<1>7. Entered' \subseteq kid.visited
  BY <1>5, <1>6
<1>8. ExpansionEnds'
  <2>1. Len(path') <= MaxDepth + 1
    <3>1. Len(path) \in Nat /\ Len(path') = Len(path) + 1 /\ Len(path) <= MaxDepth
      BY <1>3, <1>4, <1>5
    <3> HIDE DEF entry
    <3> QED BY <3>1, BudgetAssumption
  <2>2. ASSUME NEW j \in DOMAIN path', NEW l \in DOMAIN path', j # l, path'[j] # <<>>
        PROVE  path'[j] # path'[l]
    <3>1. CASE j \in 1..Len(path) /\ l \in 1..Len(path)
      BY <2>2, <3>1, <1>4 DEF PathOK, ExpansionEnds
    <3>2. CASE j = Len(path) + 1 /\ l \in 1..Len(path)
      BY <2>2, <3>2, <1>4, <1>5 DEF Entered
    <3>3. CASE l = Len(path) + 1 /\ j \in 1..Len(path)
      BY <2>2, <3>3, <1>4, <1>5 DEF Entered
    <3> QED BY <2>2, <3>1, <3>2, <3>3, <1>3, <1>4
  <2> QED BY <2>1, <2>2 DEF ExpansionEnds
<1>9. Continues(node'.shown, kid) /\ (kid.depth > MaxDepth => node'.shown.kids = <<>>)
  BY <1>1, DecodeContinues
<1>10. node'.shown.kids # <<>> => Len(path') <= MaxDepth
  BY <1>3, <1>4, <1>5, <1>9, BudgetAssumption
<1>11. ASSUME NEW k \in DOMAIN node'.shown.kids, node'.shown.kids[k] # Elided
       PROVE  LET next == node'.shown.kids[k]
              IN  /\ next.depth = Len(path') + 1
                  /\ Entered' \subseteq next.visited
                  /\ node'.shown.what = "pointer" =>
                        /\ <<next.loc.n, next.ref>> \in next.visited
                        /\ <<next.loc.n, next.ref>> \notin Entered'
  BY <1>4, <1>5, <1>7, <1>9, <1>11 DEF Continues
<1> QED BY <1>4, <1>8, <1>10, <1>11 DEF PathOK

\* Expanding a variable comes to an end, whatever its type and the memory it is in.
THEOREM ExpansionAlwaysEnds == Spec => []ExpansionEnds
<1>1. Init => PathOK
  <2> SUFFICES ASSUME Init PROVE PathOK
    OBVIOUS
  <2>1. path = <<>> /\ node.shown.kids = <<>>
    BY DEF Init, NoNode, Leaf
  <2>2. path \in Seq({}) /\ Len(path) = 0
    BY <2>1
  <2>3. ExpansionEnds
    BY <2>2, BudgetAssumption DEF ExpansionEnds
  <2> QED BY <2>1, <2>2, <2>3 DEF PathOK
<1>2. PathOK /\ [Next]_vars => PathOK'
  <2> SUFFICES ASSUME PathOK, [Next]_vars PROVE PathOK'
    OBVIOUS
  <2>1. CASE Look
    <3>1. path' = <<>> /\ node' = NoNode
      BY <2>1 DEF Look
    <3>2. Continues(node'.shown, [depth |-> 0])
      BY <3>1 DEF Continues, NoNode, Leaf
    <3> QED BY <3>1, <3>2, RootOK
  <2>2. CASE Inspect
    <3>1. PICK loc, ref :
            /\ path' = <<>>
            /\ node'.shown = Decode(img.dies, loc, ref, img.state, [depth |-> 0, visited |-> {}])
      BY <2>2 DEF Inspect
    <3>2. Continues(node'.shown, [depth |-> 0, visited |-> {}])
      BY <3>1, DecodeContinues
    <3> QED BY <3>1, <3>2, RootOK
  <2>3. CASE Expand
    BY <2>3, ExpandStep
  <2>4. CASE UNCHANGED vars
    BY <2>4 DEF vars, PathOK, ExpansionEnds, Entered
  <2> QED BY <2>1, <2>2, <2>3, <2>4 DEF Next
<1>3. PathOK => ExpansionEnds
  BY DEF PathOK
<1> QED BY <1>1, <1>2, <1>3, PTL DEF Spec


-----------------------------------------------------------------------------
\* The rows of the line table.
Rows == [address : Int, file : Int, line : Int, end : BOOLEAN]
Machines == [address : Int, file : Int, line : Int, rows : Seq(Rows)]

\* One opcode moves the registers to integers and adds at most a row.
LEMMA ExecTyped ==
    ASSUME NEW st \in Machines, NEW op, op.n \in Int
    PROVE  Exec(st, op) \in Machines
<1> DEFINE address == IF op.op = "set_address" THEN op.n ELSE st.address + PcDelta(op)
           lineNow == st.line + LineDelta(op)
           file == IF op.op = "set_file" THEN op.n ELSE st.file
           row == [address |-> address, file |-> file, line |-> lineNow, end |-> op.op = "end_sequence"]
           emitted == IF Emits(op) THEN Append(st.rows, row) ELSE st.rows
<1>1. PcDelta(op) \in Int /\ LineDelta(op) \in Int
  <2>1. (op.n - OpcodeBase) \div LineRange \in Int /\ (op.n - OpcodeBase) % LineRange \in Int
        /\ (255 - OpcodeBase) \div LineRange \in Int
    BY HeaderAssumption
  <2>2. ((op.n - OpcodeBase) \div LineRange) * MinInst \in Int /\ ((255 - OpcodeBase) \div LineRange) * MinInst \in Int
        /\ op.n * MinInst \in Int
    BY <2>1, HeaderAssumption
  <2> QED BY <2>1, <2>2, HeaderAssumption DEF PcDelta, LineDelta
<1>2. address \in Int /\ lineNow \in Int /\ file \in Int /\ st.rows \in Seq(Rows)
  BY <1>1 DEF Machines
<1> HIDE DEF address, lineNow, file
<1>3. row \in Rows
  BY <1>2 DEF Rows
<1> HIDE DEF row
<1>4. emitted \in Seq(Rows)
  BY <1>2, <1>3, AppendProperties
<1>5. Exec(st, op) = IF op.op = "end_sequence" THEN StartOfSequence(emitted)
                     ELSE [address |-> address, file |-> file, line |-> lineNow, rows |-> emitted]
  BY DEF Exec, address, lineNow, file, row
<1> HIDE DEF emitted
<1> QED BY <1>2, <1>4, <1>5 DEF StartOfSequence, Machines

\* The function a program's run is an application of.
Running(ops) ==
    LET After[i \in 0..Len(ops)] == IF i = 0 THEN StartOfSequence(<<>>) ELSE Exec(After[i - 1], ops[i])
    IN  After

\* A program whose operands are integers runs to rows.
LEMMA RunProgramTyped ==
    ASSUME NEW ops, Listed(ops), \A i \in DOMAIN ops : ops[i].n \in Int
    PROVE  RunProgram(ops) \in Seq(Rows)
<1> DEFINE n == Len(ops)
           step == [x \in (1..n) \X Machines |-> Exec(x[2], ops[x[1]])]
           start == StartOfSequence(<<>>)
<1>1. n \in Nat /\ DOMAIN ops = 1..n
  BY DEF Listed
<1>2. start \in Machines
  BY DEF StartOfSequence, Machines
<1>3. step \in [(1..n) \X Machines -> Machines]
  BY <1>1, ExecTyped
<1> HIDE DEF step
<1>4. PICK f \in [0..n -> Machines] : IsRecursion(f, n, start, step)
  BY <1>1, <1>2, <1>3, RecursionExists
<1>5. f = [i \in 0..n |-> IF i = 0 THEN start ELSE Exec(f[i - 1], ops[i])]
  <2>1. \A i \in 1..n : f[i - 1] \in Machines /\ <<i, f[i - 1]>> \in (1..n) \X Machines
    BY <1>1
  <2>2. \A i \in 1..n : f[i] = Exec(f[i - 1], ops[i])
    BY <1>4, <2>1 DEF IsRecursion, step
  <2> HIDE DEF start
  <2> QED BY <1>1, <1>4, <2>2 DEF IsRecursion
<1>6. \E g : g = [i \in 0..n |-> IF i = 0 THEN start ELSE Exec(g[i - 1], ops[i])]
  BY <1>5
<1>7. Running(ops) = [i \in 0..n |-> IF i = 0 THEN start ELSE Exec(Running(ops)[i - 1], ops[i])]
  BY <1>6, Zenon DEF Running
<1> DEFINE g == Running(ops)
           Bad == {i \in 0..n : g[i] \notin Machines}
<1> HIDE DEF g, start
<1>8. g[0] = start /\ \A i \in 1..n : g[i] = Exec(g[i - 1], ops[i])
  BY <1>1, <1>7 DEF g
<1>9. ASSUME Bad # {} PROVE FALSE
  <2>1. PICK i \in Bad : \A j \in Bad : i <= j
    <3>1. Bad \subseteq Nat
      OBVIOUS
    <3> HIDE DEF Bad
    <3> QED BY <1>9, <3>1, Smallest
  <2>2. i \in 1..n /\ i - 1 \in 0..n /\ ~(i <= i - 1)
    BY <1>2, <1>8, <2>1
  <2>3. g[i - 1] \in Machines
    BY <2>1, <2>2
  <2> QED BY <1>1, <1>8, <2>1, <2>2, <2>3, ExecTyped
<1>10. n \in 0..n
  BY <1>1
<1>11. g[n] \in Machines
  BY <1>9, <1>10
<1> QED BY <1>11 DEF RunProgram, Running, g, Machines
\* The loop over the units, and the ones that can be in what it reads.
ReadNext(cus, read, i) ==
    IF cus[i].stmt # 0 /\ \A k \in DOMAIN read : read[k].stmt # cus[i].stmt
    THEN Append(read, cus[i]) ELSE read

Reading(cus) ==
    LET Read[i \in 0..Len(cus)] ==
            IF i = 0 THEN <<>>
            ELSE LET read == Read[i - 1]
                 IN  IF cus[i].stmt # 0 /\ \A k \in DOMAIN read : read[k].stmt # cus[i].stmt
                     THEN Append(read, cus[i]) ELSE read
    IN  Read

NamedUnits(cus) == {cus[i] : i \in {j \in DOMAIN cus : cus[j].stmt # 0}}

\* What is read of the units is some of those that name a program.
LEMMA ReadUnitsTyped ==
    ASSUME NEW cus, Listed(cus)
    PROVE  ReadUnits(cus) \in Seq(NamedUnits(cus))
<1> DEFINE n == Len(cus)
           T == Seq(NamedUnits(cus))
           step == [x \in (1..n) \X T |-> ReadNext(cus, x[2], x[1])]
<1>1. n \in Nat /\ DOMAIN cus = 1..n
  BY DEF Listed
<1>2. ASSUME NEW read \in T, NEW i \in 1..n PROVE ReadNext(cus, read, i) \in T
  <2>1. CASE cus[i].stmt # 0
    <3>1. cus[i] \in NamedUnits(cus)
      BY <1>1, <2>1 DEF NamedUnits
    <3> QED BY <3>1, AppendProperties DEF ReadNext
  <2>2. CASE cus[i].stmt = 0
    BY <2>2 DEF ReadNext
  <2> QED BY <2>1, <2>2
<1>3. <<>> \in T
  OBVIOUS
<1> HIDE DEF T
<1>4. step \in [(1..n) \X T -> T]
  BY <1>2
<1> HIDE DEF step
<1>5. PICK f \in [0..n -> T] : IsRecursion(f, n, <<>>, step)
  BY <1>1, <1>3, <1>4, RecursionExists
<1>6. f = [i \in 0..n |-> IF i = 0 THEN <<>> ELSE ReadNext(cus, f[i - 1], i)]
  <2>1. \A i \in 1..n : f[i - 1] \in T /\ <<i, f[i - 1]>> \in (1..n) \X T
    BY <1>1
  <2>2. \A i \in 1..n : f[i] = ReadNext(cus, f[i - 1], i)
    BY <1>5, <2>1 DEF IsRecursion, step
  <2> QED BY <1>1, <1>5, <2>2 DEF IsRecursion
<1>7. \E g : g = [i \in 0..n |-> IF i = 0 THEN <<>> ELSE ReadNext(cus, g[i - 1], i)]
  BY <1>6
<1>8. Reading(cus) = [i \in 0..n |-> IF i = 0 THEN <<>> ELSE ReadNext(cus, Reading(cus)[i - 1], i)]
  BY <1>7, Zenon DEF Reading, ReadNext
<1> DEFINE g == Reading(cus)
           Bad == {i \in 0..n : g[i] \notin T}
<1> HIDE DEF g
<1>9. g[0] = <<>> /\ \A i \in 1..n : g[i] = ReadNext(cus, g[i - 1], i)
  BY <1>1, <1>8 DEF g
<1>10. ASSUME Bad # {} PROVE FALSE
  <2>1. PICK i \in Bad : \A j \in Bad : i <= j
    <3>1. Bad \subseteq Nat
      OBVIOUS
    <3> HIDE DEF Bad
    <3> QED BY <1>10, <3>1, Smallest
  <2>2. i \in 1..n /\ i - 1 \in 0..n /\ ~(i <= i - 1)
    BY <1>3, <1>9, <2>1
  <2>3. g[i - 1] \in T
    BY <2>1, <2>2
  <2> QED BY <1>2, <1>9, <2>1, <2>2, <2>3
<1>11. n \in 0..n
  BY <1>1
<1>12. g[n] \in T
  BY <1>10, <1>11
<1> QED BY <1>12 DEF ReadUnits, Reading, g, T

\* The rows of the table once their files are resolved.
PathsOf(wasm) == {ResolveFilePath(wasm.programs[x[1].stmt], x[1], x[2]) : x \in NamedUnits(wasm.cus) \X Int}
TableRows(wasm) == [address : Int, path : PathsOf(wasm), line : Int, end : BOOLEAN]

\* Every unit that is read has rows with its paths.
LEMMA UnitRowsTyped ==
    ASSUME NEW wasm, ReadsPrograms(wasm)
    PROVE  UnitRows(wasm) \in Seq(Seq(TableRows(wasm)))
<1> DEFINE cus == ReadUnits(wasm.cus)
<1>1. cus \in Seq(NamedUnits(wasm.cus))
  BY ReadUnitsTyped DEF ReadsPrograms
<1>2. Len(cus) \in Nat /\ DOMAIN cus = 1..Len(cus) /\ \A u \in 1..Len(cus) : cus[u] \in NamedUnits(wasm.cus)
  BY <1>1, LenProperties, ElementOfSeq
<1>3. UnitRows(wasm) = [u \in 1..Len(cus) |-> EntriesOf(wasm.programs[cus[u].stmt], cus[u])]
  BY <1>2 DEF UnitRows
<1> HIDE DEF cus
<1>4. ASSUME NEW cu \in NamedUnits(wasm.cus)
      PROVE  EntriesOf(wasm.programs[cu.stmt], cu) \in Seq(TableRows(wasm))
  <2> DEFINE program == wasm.programs[cu.stmt]
             rows == RunProgram(program.ops)
  <2>1. PICK j \in DOMAIN wasm.cus : cu = wasm.cus[j] /\ cu.stmt # 0
    BY DEF NamedUnits
  <2>2. Listed(program.ops) /\ \A i \in DOMAIN program.ops : program.ops[i].n \in Int
    BY <2>1 DEF ReadsPrograms
  <2>3. rows \in Seq(Rows)
    BY <2>2, RunProgramTyped
  <2>4. Len(rows) \in Nat /\ DOMAIN rows = 1..Len(rows) /\ \A i \in 1..Len(rows) : rows[i] \in Rows
    BY <2>3, LenProperties, ElementOfSeq
  <2>5. EntriesOf(program, cu) =
          [i \in 1..Len(rows) |-> [address |-> rows[i].address, path |-> ResolveFilePath(program, cu, rows[i].file),
                                   line |-> rows[i].line, end |-> rows[i].end]]
    BY <2>4 DEF EntriesOf
  <2>6. ASSUME NEW i \in 1..Len(rows)
        PROVE  [address |-> rows[i].address, path |-> ResolveFilePath(program, cu, rows[i].file),
                line |-> rows[i].line, end |-> rows[i].end] \in TableRows(wasm)
    <3>1. rows[i] \in Rows
      BY <2>4
    <3>2. /\ rows[i].address \in Int /\ rows[i].file \in Int /\ rows[i].line \in Int
          /\ rows[i].end \in BOOLEAN
      BY <3>1 DEF Rows
    <3>3. ResolveFilePath(program, cu, rows[i].file) \in PathsOf(wasm)
      <4> DEFINE file == rows[i].file
      <4>1. <<cu, file>> \in NamedUnits(wasm.cus) \X Int /\ <<cu, file>>[1] = cu /\ <<cu, file>>[2] = file
        BY <3>2
      <4> QED BY <4>1, Zenon DEF PathsOf
    <3> QED BY <3>2, <3>3 DEF TableRows
  <2> HIDE DEF rows, program
  <2> QED BY <2>4, <2>5, <2>6, SeqDef DEF program
<1>5. \A u \in 1..Len(cus) : EntriesOf(wasm.programs[cus[u].stmt], cus[u]) \in Seq(TableRows(wasm))
  BY <1>2, <1>4
<1> QED BY <1>2, <1>3, <1>5, SeqDef

-----------------------------------------------------------------------------
\* The order of the sort, rows that tie in the order they come, and what it is for the
\* first k of them to be arranged in it: p says where each row of the table comes from.
Before(entries, a, b) ==
    Precedes(entries[a], entries[b]) \/ (~Precedes(entries[b], entries[a]) /\ a < b)

IsArrangement(sorted, entries, k, p) ==
    /\ Len(sorted) = k
    /\ \A i \in 1..k : p[i] \in 1..k /\ sorted[i] = entries[p[i]]
    /\ \A x \in 1..k : \E i \in 1..k : p[i] = x
    /\ \A i, j \in 1..k : i < j => Before(entries, p[i], p[j])

\* What a table is made of.
HasAddresses(S) == \A e \in S : e.address \in Int /\ e.end \in BOOLEAN

\* Inserting the next row of the table keeps what is sorted arranged.
LEMMA InsertArranges ==
    ASSUME NEW S, HasAddresses(S), NEW entries \in Seq(S), NEW k \in 1..Len(entries),
           NEW sorted \in Seq(S), NEW p, IsArrangement(sorted, entries, k - 1, p)
    PROVE  /\ Insert(sorted, entries[k]) \in Seq(S)
           /\ \E q : IsArrangement(Insert(sorted, entries[k]), entries, k, q)
<1> DEFINE e == entries[k]
           after == {i \in DOMAIN sorted : ~Precedes(e, sorted[i])}
           at == Max({0} \cup after)
           t == Insert(sorted, e)
           q == [i \in 1..k |-> IF i <= at THEN p[i] ELSE IF i = at + 1 THEN k ELSE p[i - 1]]
<1>1. Len(entries) \in Nat /\ k \in Nat /\ k - 1 \in Nat /\ Len(sorted) = k - 1 /\ DOMAIN sorted = 1..(k - 1)
  BY LenProperties DEF IsArrangement
<1>2. /\ \A i \in 1..Len(entries) : entries[i] \in S
      /\ \A i \in 1..Len(entries) : entries[i].address \in Int /\ entries[i].end \in BOOLEAN
  BY ElementOfSeq DEF HasAddresses
<1>3. \A i \in 1..(k - 1) : p[i] \in 1..(k - 1) /\ sorted[i] = entries[p[i]]
  BY DEF IsArrangement
<1>4. at \in {0} \cup after /\ \A y \in {0} \cup after : y <= at
  <2>1. {0} \cup after \subseteq 0..(k - 1)
    BY <1>1
  <2> HIDE DEF after
  <2> QED BY <1>1, <2>1, MaxIsLargest
<1> HIDE DEF at, e
<1>5. at \in 0..(k - 1)
  BY <1>1, <1>4
<1>6. t \in Seq(S) /\ Len(t) = k
      /\ \A i \in 1..k : t[i] = IF i <= at THEN sorted[i] ELSE IF i = at + 1 THEN e ELSE sorted[i - 1]
  <2>1. e \in S /\ at \in 0..Len(sorted)
    BY <1>1, <1>2, <1>5 DEF e
  <2>2. t = InsertAt(sorted, at + 1, e)
    BY DEF Insert, at
  <2> HIDE DEF t
  <2>3. Len(sorted) + 1 = k
    BY <1>1
  <2>4. /\ t \in Seq(S) /\ Len(t) = Len(sorted) + 1
        /\ \A i \in 1..(Len(sorted) + 1) :
              t[i] = IF i <= at THEN sorted[i] ELSE IF i = at + 1 THEN e ELSE sorted[i - 1]
    <3> DEFINE u == InsertAt(sorted, at + 1, e)
    <3>1. u \in Seq(S)
      BY <2>1, InsertAtProperties
    <3>2. Len(u) = Len(sorted) + 1
      BY <2>1, InsertAtProperties
    <3>3. \A i \in 1..(Len(sorted) + 1) :
              u[i] = IF i <= at THEN sorted[i] ELSE IF i = at + 1 THEN e ELSE sorted[i - 1]
      BY <2>1, InsertAtProperties
    <3> HIDE DEF u
    <3> QED BY <2>2, <3>1, <3>2, <3>3 DEF u
  <2> QED BY <2>3, <2>4
<1> HIDE DEF t
<1>7. ASSUME NEW i \in 1..(k - 1) PROVE Precedes(e, sorted[i]) <=> ~(i <= at)
  <2>1. CASE ~(i <= at)
    BY <1>1, <1>4, <1>5, <2>1
  <2>2. CASE i = at
    BY <1>1, <1>4, <2>2
  <2>3. CASE i <= at /\ i # at
    <3>1. at \in 1..(k - 1) /\ i < at /\ ~Precedes(e, sorted[at])
      BY <1>1, <1>4, <1>5, <2>3
    <3>2. ~Precedes(sorted[at], sorted[i])
      <4>1. Before(entries, p[i], p[at])
        BY <3>1 DEF IsArrangement
      <4>2. /\ p[i] \in 1..Len(entries) /\ p[at] \in 1..Len(entries)
            /\ sorted[i] = entries[p[i]] /\ sorted[at] = entries[p[at]]
        BY <1>1, <1>3, <3>1
      <4> QED BY <1>2, <4>1, <4>2 DEF Before, Precedes
    <3>3. /\ sorted[i].address \in Int /\ sorted[at].address \in Int /\ e.address \in Int
          /\ sorted[i].end \in BOOLEAN /\ sorted[at].end \in BOOLEAN /\ e.end \in BOOLEAN
      <4>1. p[i] \in 1..Len(entries) /\ p[at] \in 1..Len(entries) /\ k \in 1..Len(entries)
            /\ sorted[i] = entries[p[i]] /\ sorted[at] = entries[p[at]] /\ e = entries[k]
        BY <1>1, <1>3, <3>1 DEF e
      <4> QED BY <1>2, <4>1
    <3> QED BY <2>3, <3>1, <3>2, <3>3 DEF Precedes
  <2> QED BY <2>1, <2>2, <2>3
<1>8. \A i \in 1..k : q[i] = IF i <= at THEN p[i] ELSE IF i = at + 1 THEN k ELSE p[i - 1]
  OBVIOUS
<1> HIDE DEF q
<1>9. ASSUME NEW i \in 1..k PROVE q[i] \in 1..k /\ t[i] = entries[q[i]]
  <2>1. CASE i <= at
    <3>1. i \in 1..(k - 1) /\ q[i] = p[i] /\ t[i] = sorted[i]
      BY <1>1, <1>5, <1>6, <1>8, <2>1
    <3> QED BY <1>1, <1>3, <3>1
  <2>2. CASE i = at + 1
    BY <1>1, <1>5, <1>6, <1>8, <2>2 DEF e
  <2>3. CASE ~(i <= at) /\ i # at + 1
    <3>1. i - 1 \in 1..(k - 1)
      BY <1>1, <1>5, <2>3
    <3>2. q[i] = p[i - 1] /\ t[i] = sorted[i - 1]
      BY <1>6, <1>8, <2>3
    <3> QED BY <1>1, <1>3, <3>1, <3>2
  <2> QED BY <2>1, <2>2, <2>3
<1>10. ASSUME NEW x \in 1..k PROVE \E i \in 1..k : q[i] = x
  <2>1. CASE x = k
    <3>1. at + 1 \in 1..k /\ ~(at + 1 <= at)
      BY <1>1, <1>5
    <3> QED BY <1>8, <2>1, <3>1
  <2>2. CASE x # k
    <3>1. x \in 1..(k - 1)
      BY <1>1, <2>2
    <3>2. PICK i \in 1..(k - 1) : p[i] = x
      BY <3>1 DEF IsArrangement
    <3>3. CASE i <= at
      <4>1. i \in 1..k
        BY <1>1
      <4> QED BY <1>8, <3>2, <3>3, <4>1
    <3>4. CASE ~(i <= at)
      <4>1. i + 1 \in 1..k /\ ~(i + 1 <= at) /\ i + 1 # at + 1 /\ (i + 1) - 1 = i
        BY <1>1, <1>5, <3>4
      <4> QED BY <1>8, <3>2, <4>1
    <3> QED BY <3>3, <3>4
  <2> QED BY <2>1, <2>2
<1>11. ASSUME NEW i \in 1..k, NEW j \in 1..k, i < j PROVE Before(entries, q[i], q[j])
  <2>1. CASE i # at + 1 /\ j # at + 1
    <3> DEFINE x == IF i <= at THEN i ELSE i - 1
               y == IF j <= at THEN j ELSE j - 1
    <3>1. x \in 1..(k - 1) /\ y \in 1..(k - 1) /\ x < y /\ q[i] = p[x] /\ q[j] = p[y]
      BY <1>1, <1>5, <1>8, <1>11, <2>1
    <3> QED BY <3>1 DEF IsArrangement
  <2>2. CASE i = at + 1
    <3>1. q[i] = k /\ j - 1 \in 1..(k - 1) /\ ~(j - 1 <= at) /\ q[j] = p[j - 1]
      BY <1>1, <1>5, <1>8, <1>11, <2>2
    <3>2. Precedes(e, sorted[j - 1]) /\ sorted[j - 1] = entries[p[j - 1]]
      BY <1>3, <1>7, <3>1
    <3> QED BY <3>1, <3>2 DEF Before, e
  <2>3. CASE j = at + 1
    <3>1. q[j] = k /\ i \in 1..(k - 1) /\ i <= at /\ q[i] = p[i]
      BY <1>1, <1>5, <1>8, <1>11, <2>3
    <3>2. ~Precedes(e, sorted[i]) /\ sorted[i] = entries[p[i]] /\ p[i] < k
      BY <1>1, <1>3, <1>7, <3>1
    <3> QED BY <3>1, <3>2 DEF Before, e
  <2> QED BY <2>1, <2>2, <2>3
<1>12. IsArrangement(t, entries, k, q)
  BY <1>6, <1>9, <1>10, <1>11 DEF IsArrangement
<1> QED BY <1>6, <1>12 DEF t, e

\* The function the sort is an application of.
Arranging(entries) ==
    LET Upto[k \in 0..Len(entries)] == IF k = 0 THEN <<>> ELSE Insert(Upto[k - 1], entries[k])
    IN  Upto

\* Inserting an entry in a sequence gives a sequence of such entries.
LEMMA InsertTyped ==
    ASSUME NEW S, NEW s \in Seq(S), NEW e \in S
    PROVE  Insert(s, e) \in Seq(S)
<1> DEFINE after == {i \in DOMAIN s : ~Precedes(e, s[i])}
           at == Max({0} \cup after)
<1>1. Len(s) \in Nat /\ DOMAIN s = 1..Len(s)
  BY LenProperties
<1>2. {0} \cup after \subseteq 0..Len(s)
  BY <1>1
<1> HIDE DEF after
<1>3. at \in 0..Len(s)
  BY <1>1, <1>2, MaxIsLargest
<1>4. Insert(s, e) = InsertAt(s, at + 1, e)
  BY DEF Insert, after
<1> HIDE DEF at
<1> QED BY <1>3, <1>4, InsertAtProperties

\* Sorting a table arranges its rows.
LEMMA SortedArranges ==
    ASSUME NEW S, HasAddresses(S), NEW entries \in Seq(S)
    PROVE  /\ Sorted(entries) \in Seq(S)
           /\ \E p : IsArrangement(Sorted(entries), entries, Len(entries), p)
<1> DEFINE n == Len(entries)
           T == Seq(S)
           step == [x \in (1..n) \X T |-> Insert(x[2], entries[x[1]])]
<1>1. n \in Nat /\ \A i \in 1..n : entries[i] \in S
  BY LenProperties, ElementOfSeq
<1>2. \A s \in T, i \in 1..n : Insert(s, entries[i]) \in T
  BY <1>1, InsertTyped
<1>3. <<>> \in T
  OBVIOUS
<1> HIDE DEF T
<1>4. step \in [(1..n) \X T -> T]
  BY <1>2
<1> HIDE DEF step
<1>5. PICK f \in [0..n -> T] : IsRecursion(f, n, <<>>, step)
  BY <1>1, <1>3, <1>4, RecursionExists
<1>6. f = [k \in 0..n |-> IF k = 0 THEN <<>> ELSE Insert(f[k - 1], entries[k])]
  <2>1. \A i \in 1..n : f[i - 1] \in T /\ <<i, f[i - 1]>> \in (1..n) \X T
    BY <1>1
  <2>2. \A i \in 1..n : f[i] = Insert(f[i - 1], entries[i])
    BY <1>5, <2>1 DEF IsRecursion, step
  <2> QED BY <1>1, <1>5, <2>2 DEF IsRecursion
<1>7. \E g : g = [k \in 0..n |-> IF k = 0 THEN <<>> ELSE Insert(g[k - 1], entries[k])]
  BY <1>6
<1>8. Arranging(entries) = [k \in 0..n |-> IF k = 0 THEN <<>> ELSE Insert(Arranging(entries)[k - 1], entries[k])]
  BY <1>7, Zenon DEF Arranging
<1> DEFINE g == Arranging(entries)
           J == {k \in 0..n : g[k] \in T /\ \E p : IsArrangement(g[k], entries, k, p)}
<1> HIDE DEF g
<1>9. g[0] = <<>> /\ \A k \in 1..n : g[k] = Insert(g[k - 1], entries[k])
  BY <1>1, <1>8 DEF g
<1>10. 0 \in J
  <2>1. IsArrangement(<<>>, entries, 0, <<>>)
    BY DEF IsArrangement
  <2> QED BY <1>1, <1>3, <1>9, <2>1
<1>11. ASSUME NEW k \in 1..n, k - 1 \in J PROVE k \in J
  <2>1. g[k - 1] \in Seq(S) /\ \E p : IsArrangement(g[k - 1], entries, k - 1, p)
    BY <1>11 DEF T
  <2>2. PICK p : IsArrangement(g[k - 1], entries, k - 1, p)
    BY <2>1
  <2>3. /\ Insert(g[k - 1], entries[k]) \in Seq(S)
        /\ \E q : IsArrangement(Insert(g[k - 1], entries[k]), entries, k, q)
    BY <2>1, <2>2, InsertArranges
  <2> QED BY <1>9, <2>3 DEF T
<1> HIDE DEF J
<1>12. n \in J
  <2>1. 0..n \subseteq J
    BY <1>1, <1>10, <1>11, Upwards
  <2> QED BY <1>1, <2>1
<1>13. g[n] \in Seq(S) /\ \E p : IsArrangement(g[n], entries, n, p)
  BY <1>12 DEF J, T
<1> QED BY <1>13 DEF Sorted, Arranging, g

-----------------------------------------------------------------------------
\* How many of the entries are at an offset or before it.
IsBound(entries, off, c) ==
    /\ c \in 0..Len(entries)
    /\ \A k \in 1..Len(entries) : (entries[k].address <= off) <=> (k <= c)

Increasing(entries) ==
    /\ Len(entries) \in Nat
    /\ \A k \in 1..Len(entries) : entries[k].address \in Int
    /\ \A k, l \in 1..Len(entries) : k < l => entries[k].address <= entries[l].address

\* In a table that increases the entries at or before an offset are the first ones.
LEMMA BoundExists ==
    ASSUME NEW entries, Increasing(entries), NEW off \in Int
    PROVE  \E c : IsBound(entries, off, c)
<1> DEFINE n == Len(entries)
           a(k) == entries[k].address
           T == {k \in 1..n : a(k) <= off} \union {0}
<1>1. n \in Nat /\ \A k \in 1..n : a(k) \in Int
  BY DEF Increasing
<1>2. \A k, l \in 1..n : k < l => a(k) <= a(l)
  BY DEF Increasing
<1> HIDE DEF n, a
<1>3. T \subseteq 0..n /\ T # {}
  BY <1>1
<1>4. PICK c \in T : \A k \in T : k <= c
  <2> HIDE DEF T
  <2> QED BY <1>1, <1>3, Largest
<1>5. ASSUME NEW k \in 1..n, k <= c PROVE a(k) <= off
  <2>1. c \in 1..n /\ a(c) <= off
    BY <1>1, <1>4, <1>5
  <2> QED BY <1>1, <1>2, <1>5, <2>1
<1>6. ASSUME NEW k \in 1..n, a(k) <= off PROVE k <= c
  BY <1>4, <1>6
<1> QED BY <1>3, <1>4, <1>5, <1>6 DEF IsBound, n, a

\* One turn of the binary search of a lookup, and what the search comes to.
States(n) == [lo : 0..n, hi : -1..(n - 1), found : -1..(n - 1)]
SearchStep(f, entries, off, s) ==
    LET mid == (s.lo + s.hi) \div 2
    IN  IF s.lo > s.hi THEN s.found
        ELSE IF entries[mid + 1].address <= off
             THEN f[[lo |-> mid + 1, hi |-> s.hi, found |-> mid]]
             ELSE f[[lo |-> s.lo, hi |-> mid - 1, found |-> s.found]]
Found(c, s) == IF s.lo > s.hi \/ c <= s.lo THEN s.found ELSE IF c - 1 <= s.hi THEN c - 1 ELSE s.hi

\* One probe of the search does not change what it comes to.
LEMMA FoundStep ==
    ASSUME NEW entries, NEW off, NEW c, IsBound(entries, off, c), NEW n, n = Len(entries), n \in Nat,
           NEW s \in States(n), NEW f,
           s.lo <= s.hi =>
             \A t \in States(n) : t.hi - t.lo < s.hi - s.lo => f[t] = Found(c, t)
    PROVE  SearchStep(f, entries, off, s) = Found(c, s)
<1> DEFINE mid == (s.lo + s.hi) \div 2
           up == [lo |-> mid + 1, hi |-> s.hi, found |-> mid]
           down == [lo |-> s.lo, hi |-> mid - 1, found |-> s.found]
<1>1. s.lo \in 0..n /\ s.hi \in -1..(n - 1) /\ s.found \in -1..(n - 1)
  BY DEF States
<1>2. CASE s.lo > s.hi
  BY <1>2 DEF SearchStep, Found
<1>3. CASE s.lo <= s.hi
  <2>1. mid \in s.lo..s.hi /\ mid + 1 \in 1..n
    BY <1>1, <1>3
  <2> HIDE DEF mid
  <2>2. up \in States(n) /\ down \in States(n)
    BY <1>1, <2>1 DEF States
  <2>3. up.hi - up.lo < s.hi - s.lo /\ down.hi - down.lo < s.hi - s.lo
    BY <1>1, <2>1
  <2>4. f[up] = Found(c, up) /\ f[down] = Found(c, down)
    <3> HIDE DEF up, down
    <3> QED BY <1>3, <2>2, <2>3
  <2>5. (entries[mid + 1].address <= off) <=> (mid + 1 <= c)
    BY <2>1 DEF IsBound
  <2>6. c \in 0..n
    BY DEF IsBound
  <2>7. SearchStep(f, entries, off, s) = IF mid + 1 <= c THEN f[up] ELSE f[down]
    BY <1>1, <1>3, <2>5 DEF SearchStep, mid
  <2>8. mid + 1 <= c => Found(c, up) = Found(c, s)
    BY <1>1, <1>3, <2>1, <2>6 DEF Found
  <2>9. ~(mid + 1 <= c) => Found(c, down) = Found(c, s)
    BY <1>1, <1>3, <2>1, <2>6 DEF Found
  <2> QED BY <2>4, <2>7, <2>8, <2>9
<1> QED BY <1>1, <1>2, <1>3

\* The function the binary search is an application of.
Searching(entries, off) ==
    LET n == Len(entries)
        Rightmost[s \in [lo : 0..n, hi : -1..(n - 1), found : -1..(n - 1)]] ==
            LET mid == (s.lo + s.hi) \div 2
            IN  IF s.lo > s.hi THEN s.found
                ELSE IF entries[mid + 1].address <= off
                     THEN Rightmost[[lo |-> mid + 1, hi |-> s.hi, found |-> mid]]
                     ELSE Rightmost[[lo |-> s.lo, hi |-> mid - 1, found |-> s.found]]
    IN  Rightmost

\* The lookup answers with the last entry at or before the offset.
LEMMA LookupFinds ==
    ASSUME NEW entries, Increasing(entries), NEW off \in Int
    PROVE  \E c : /\ IsBound(entries, off, c)
                  /\ Lookup(entries, off) = IF c = 0 \/ entries[c].end THEN NoEntry ELSE entries[c]
<1> DEFINE n == Len(entries)
           f == Searching(entries, off)
           start == [lo |-> 0, hi |-> n - 1, found |-> -1]
<1>1. n \in Nat
  BY DEF Increasing
<1>2. PICK c : IsBound(entries, off, c)
  BY BoundExists
<1>3. Lookup(entries, off) = IF f[start] < 0 \/ entries[f[start] + 1].end THEN NoEntry ELSE entries[f[start] + 1]
  BY DEF Lookup, Searching
<1>4. f = [s \in States(n) |-> SearchStep(f, entries, off, s)]
  <2> DEFINE g == [s \in States(n) |-> Found(c, s)]
  <2>1. \A s \in States(n) : SearchStep(g, entries, off, s) = Found(c, s)
    <3>1. \A s \in States(n) : g[s] = Found(c, s)
      OBVIOUS
    <3> HIDE DEF g
    <3> QED BY <1>1, <1>2, <3>1, FoundStep
  <2>2. g = [s \in States(n) |-> SearchStep(g, entries, off, s)]
    BY <2>1
  <2>3. \E h : h = [s \in States(n) |-> SearchStep(h, entries, off, s)]
    BY <2>2
  <2> HIDE DEF g
  <2> QED BY <2>3, Zenon DEF Searching, States, SearchStep
<1> HIDE DEF f
<1> DEFINE Size(s) == IF s.lo > s.hi THEN 0 ELSE s.hi - s.lo + 1
           Wrong == {s \in States(n) : f[s] # Found(c, s)}
<1>5. ASSUME Wrong # {} PROVE FALSE
  <2> DEFINE Sizes == {Size(s) : s \in Wrong}
  <2>1. Sizes \subseteq Nat /\ Sizes # {}
    BY <1>1, <1>5 DEF States
  <2>2. PICK z \in Sizes : \A y \in Sizes : z <= y
    <3> HIDE DEF Sizes
    <3> QED BY <2>1, Smallest
  <2>3. PICK s \in Wrong : \A t \in Wrong : Size(s) <= Size(t)
    BY <2>2
  <2>4. s.lo <= s.hi => \A t \in States(n) : t.hi - t.lo < s.hi - s.lo => f[t] = Found(c, t)
    <3> SUFFICES ASSUME s.lo <= s.hi, NEW t \in States(n), t.hi - t.lo < s.hi - s.lo, t \in Wrong
                 PROVE  FALSE
      OBVIOUS
    <3>1. /\ s.lo \in Int /\ s.hi \in Int /\ t.lo \in Int /\ t.hi \in Int
      BY <1>1 DEF States
    <3>2. Size(s) <= Size(t)
      BY <2>3
    <3> QED BY <3>1, <3>2
  <2>5. SearchStep(f, entries, off, s) = Found(c, s)
    BY <1>1, <1>2, <2>4, FoundStep
  <2> QED BY <1>4, <2>5
<1>6. start \in States(n)
  BY <1>1 DEF States
<1>7. f[start] = Found(c, start)
  BY <1>5, <1>6
<1>8. c \in 0..n /\ Found(c, start) = c - 1
  BY <1>1, <1>2 DEF Found, IsBound
<1>9. f[start] + 1 = c /\ (f[start] < 0 <=> c = 0)
  BY <1>1, <1>7, <1>8
<1> HIDE DEF start
<1> QED BY <1>2, <1>3, <1>9

-----------------------------------------------------------------------------
\* The rows of all units in a row describe the matrix.
Describes(entries, matrix) ==
    /\ \A seq \in matrix : Ascending(seq)
    /\ \A s, t \in matrix : s # t => s.end <= t.rows[1].address \/ t.end <= s.rows[1].address
    /\ \A seq \in matrix : \A k \in 1..(Len(seq.rows) + 1) :
            \E x \in 1..Len(entries) : IsRow(entries[x], seq, k)
    /\ \A x \in 1..Len(entries) : \E seq \in matrix : \E k \in 1..(Len(seq.rows) + 1) :
            /\ IsRow(entries[x], seq, k)
            /\ k <= Len(seq.rows) => x + 1 \in 1..Len(entries) /\ IsRow(entries[x + 1], seq, k + 1)

\* The rows of the units one after the other still describe the matrix: none of it is
\* lost where two units meet.
LEMMA UnitsDescribe ==
    ASSUME NEW image, LinesDescribed(image)
    PROVE  /\ FlattenSeq(UnitRows(image.wasm)) \in Seq(TableRows(image.wasm))
           /\ Describes(FlattenSeq(UnitRows(image.wasm)), image.matrix)
<1> DEFINE units == UnitRows(image.wasm)
           entries == FlattenSeq(units)
           S == TableRows(image.wasm)
<1>1. units \in Seq(Seq(S))
  BY UnitRowsTyped DEF LinesDescribed
<1>2. /\ DOMAIN units = 1..Len(units)
      /\ \A u \in 1..Len(units) : Len(units[u]) \in Nat /\ DOMAIN units[u] = 1..Len(units[u])
  <2> HIDE DEF units, S
  <2> QED BY <1>1, LenProperties, ElementOfSeq
<1>3. /\ \A seq \in image.matrix : \A k \in 1..(Len(seq.rows) + 1) :
            \E u \in DOMAIN units : \E i \in DOMAIN units[u] : IsRow(units[u][i], seq, k)
      /\ \A u \in DOMAIN units : \A i \in DOMAIN units[u] :
            \E seq \in image.matrix : \E k \in 1..(Len(seq.rows) + 1) :
                /\ IsRow(units[u][i], seq, k)
                /\ k <= Len(seq.rows) => i + 1 \in DOMAIN units[u] /\ IsRow(units[u][i + 1], seq, k + 1)
  BY Zenon DEF LinesDescribed
<1>4. /\ \A seq \in image.matrix : Ascending(seq)
      /\ \A s, t \in image.matrix : s # t => s.end <= t.rows[1].address \/ t.end <= s.rows[1].address
  BY DEF LinesDescribed
<1> HIDE DEF units, S
<1>5. entries \in Seq(S) /\ \E off : PiecesOf(entries, units, off, Len(units))
  BY <1>1, FlattenPieces
<1>6. PICK off : PiecesOf(entries, units, off, Len(units))
  BY <1>5
<1>7. Len(entries) \in Nat /\ Len(units) \in Nat
  BY <1>1, <1>5, LenProperties
<1> HIDE DEF entries
<1>8. ASSUME NEW u \in DOMAIN units, NEW i \in DOMAIN units[u]
      PROVE  off[u] + i \in 1..Len(entries) /\ entries[off[u] + i] = units[u][i] /\ off[u] \in Nat
  <2>1. u \in 1..Len(units) /\ i \in 1..Len(units[u]) /\ Len(units[u]) \in Nat
    BY <1>2
  <2> QED BY <1>6, <1>7, <2>1 DEF PiecesOf
<1>9. ASSUME NEW seq \in image.matrix, NEW k \in 1..(Len(seq.rows) + 1)
      PROVE  \E x \in 1..Len(entries) : IsRow(entries[x], seq, k)
  <2>1. PICK u \in DOMAIN units : \E i \in DOMAIN units[u] : IsRow(units[u][i], seq, k)
    BY <1>3
  <2>2. PICK i \in DOMAIN units[u] : IsRow(units[u][i], seq, k)
    BY <2>1
  <2> QED BY <1>8, <2>2
<1>10. ASSUME NEW x \in 1..Len(entries)
       PROVE  \E seq \in image.matrix : \E k \in 1..(Len(seq.rows) + 1) :
                /\ IsRow(entries[x], seq, k)
                /\ k <= Len(seq.rows) => x + 1 \in 1..Len(entries) /\ IsRow(entries[x + 1], seq, k + 1)
  <2>1. PICK u \in 1..Len(units) : \E i \in 1..Len(units[u]) : x = off[u] + i
    BY <1>6 DEF PiecesOf
  <2>2. PICK i \in 1..Len(units[u]) : x = off[u] + i
    BY <2>1
  <2>3. u \in DOMAIN units /\ i \in DOMAIN units[u] /\ i \in Int
    BY <1>2
  <2>4. PICK seq \in image.matrix : \E k \in 1..(Len(seq.rows) + 1) :
            /\ IsRow(units[u][i], seq, k)
            /\ k <= Len(seq.rows) => i + 1 \in DOMAIN units[u] /\ IsRow(units[u][i + 1], seq, k + 1)
    BY <1>3, <2>3
  <2>5. PICK k \in 1..(Len(seq.rows) + 1) :
            /\ IsRow(units[u][i], seq, k)
            /\ k <= Len(seq.rows) => i + 1 \in DOMAIN units[u] /\ IsRow(units[u][i + 1], seq, k + 1)
    BY <2>4
  <2>6. entries[x] = units[u][i] /\ off[u] \in Nat
    BY <1>8, <2>2, <2>3
  <2>7. x + 1 = off[u] + (i + 1)
    <3>1. \A o, j \in Int : (o + j) + 1 = o + (j + 1)
      OBVIOUS
    <3>2. off[u] \in Int
      BY <2>6
    <3>3. (off[u] + i) + 1 = off[u] + (i + 1)
      BY <2>3, <3>1, <3>2, Zenon
    <3> QED BY <2>2, <3>3
  <2>8. k <= Len(seq.rows) => x + 1 \in 1..Len(entries) /\ entries[x + 1] = units[u][i + 1]
    <3> SUFFICES ASSUME k <= Len(seq.rows)
                 PROVE  x + 1 \in 1..Len(entries) /\ entries[x + 1] = units[u][i + 1]
      OBVIOUS
    <3>1. i + 1 \in DOMAIN units[u]
      BY <2>5
    <3>2. off[u] + (i + 1) \in 1..Len(entries) /\ entries[off[u] + (i + 1)] = units[u][i + 1]
      BY <1>8, <2>3, <3>1
    <3> QED BY <2>7, <3>2, Zenon
  <2> QED BY <2>5, <2>6, <2>8
<1> QED BY <1>4, <1>5, <1>9, <1>10 DEF Describes, entries, units, S

\* The rows of the matrix that cover an offset, as Covering selects them.
Below(seq, off) == {i \in DOMAIN seq.rows : seq.rows[i].address <= off}
Covers(seq, off) == seq.rows[1].address <= off /\ off < seq.end
IsLast(seq, off, k) == k \in Below(seq, off) /\ \A j \in Below(seq, off) : j <= k

\* What the lookup in the sorted rows answers.
LEMMA LookupExact ==
    ASSUME NEW S, HasAddresses(S), NEW entries \in Seq(S), NEW matrix, Describes(entries, matrix), NEW off \in Nat
    PROVE  LET answer == Lookup(Sorted(entries), off)
           IN  /\ \A seq \in matrix : \A k : Covers(seq, off) /\ IsLast(seq, off, k) =>
                    answer = [address |-> seq.rows[k].address, path |-> seq.rows[k].path,
                              line |-> seq.rows[k].line, end |-> FALSE]
               /\ (\A seq \in matrix : ~Covers(seq, off)) => answer = NoEntry
<1> DEFINE n == Len(entries)
           sorted == Sorted(entries)
           answer == Lookup(sorted, off)
           a(x) == entries[x].address
<1>1. n \in Nat /\ \A x \in 1..n : a(x) \in Int /\ entries[x].end \in BOOLEAN
  BY LenProperties, ElementOfSeq DEF HasAddresses
<1>2. PICK p : IsArrangement(sorted, entries, n, p)
  BY SortedArranges
<1> HIDE DEF sorted
<1>3. \A i \in 1..n : p[i] \in 1..n /\ sorted[i] = entries[p[i]]
  BY <1>2 DEF IsArrangement
<1>4. \A i, j \in 1..n : i < j => Before(entries, p[i], p[j])
  BY <1>2 DEF IsArrangement
<1>5. \A x, y \in 1..n : Before(entries, x, y) => a(x) <= a(y)
  BY <1>1 DEF Before, Precedes
<1>6. Increasing(sorted) /\ Len(sorted) = n
  <2>1. Len(sorted) = n
    BY <1>2 DEF IsArrangement
  <2>2. \A k \in 1..n : sorted[k].address \in Int
    BY <1>1, <1>3
  <2>3. \A k, l \in 1..n : k < l => sorted[k].address <= sorted[l].address
    BY <1>3, <1>4, <1>5
  <2> QED BY <1>1, <2>1, <2>2, <2>3 DEF Increasing
<1>7. PICK c : /\ IsBound(sorted, off, c)
               /\ answer = IF c = 0 \/ sorted[c].end THEN NoEntry ELSE sorted[c]
  BY <1>6, LookupFinds
<1>8. c \in 0..n /\ \A i \in 1..n : a(p[i]) <= off <=> i <= c
  BY <1>3, <1>6, <1>7 DEF IsBound
<1> DEFINE x == p[c]
<1>9. \A y \in 1..n : a(y) <= off => c # 0 /\ (y = x \/ Before(entries, y, x))
  <2> SUFFICES ASSUME NEW y \in 1..n, a(y) <= off PROVE c # 0 /\ (y = x \/ Before(entries, y, x))
    OBVIOUS
  <2>1. PICK i \in 1..n : p[i] = y
    BY <1>2 DEF IsArrangement
  <2>2. i <= c
    BY <1>8, <2>1
  <2>3. CASE i = c
    BY <1>8, <2>1, <2>2, <2>3
  <2>4. CASE i # c
    <3>1. i < c /\ c \in 1..n
      BY <1>8, <2>2, <2>4
    <3> QED BY <1>4, <2>1, <3>1
  <2> QED BY <2>3, <2>4
<1>10. c # 0 => x \in 1..n /\ a(x) <= off /\ answer = IF entries[x].end THEN NoEntry ELSE entries[x]
  BY <1>3, <1>7, <1>8
<1> HIDE DEF x, answer
<1>11. ASSUME NEW seq \in matrix, NEW k \in 1..(Len(seq.rows) + 1), NEW y \in 1..n, IsRow(entries[y], seq, k)
       PROVE  /\ k <= Len(seq.rows) =>
                    /\ a(y) = seq.rows[k].address /\ ~entries[y].end /\ k \in DOMAIN seq.rows /\ a(y) < seq.end
                    /\ entries[y] = [address |-> seq.rows[k].address, path |-> seq.rows[k].path,
                                     line |-> seq.rows[k].line, end |-> FALSE]
              /\ ~(k <= Len(seq.rows)) => a(y) = seq.end /\ entries[y].end
              /\ seq.rows[1].address <= a(y) /\ a(y) <= seq.end
              /\ seq.rows[1].address \in Nat /\ seq.end \in Nat
              /\ Len(seq.rows) \in Nat /\ Len(seq.rows) # 0
  <2>1. Ascending(seq)
    BY DEF Describes
  <2>2. /\ Len(seq.rows) \in Nat /\ DOMAIN seq.rows = 1..Len(seq.rows) /\ seq.rows # <<>> /\ seq.end \in Nat
        /\ \A l \in DOMAIN seq.rows : /\ seq.rows[l].address \in 0..(seq.end - 1)
                                      /\ \A j \in 1..l : seq.rows[j].address <= seq.rows[l].address
    BY <2>1 DEF Ascending, Listed
  <2>3. Len(seq.rows) # 0
    BY <2>2
  <2>4. 1 \in DOMAIN seq.rows
    BY <2>2, <2>3
  <2>5. CASE k <= Len(seq.rows)
    <3>1. k \in DOMAIN seq.rows /\ 1 \in 1..k
      BY <2>2, <2>5
    <3>2. entries[y] = [address |-> seq.rows[k].address, path |-> seq.rows[k].path,
                        line |-> seq.rows[k].line, end |-> FALSE]
      BY <1>11, <3>1 DEF IsRow
    <3>3. a(y) = seq.rows[k].address /\ ~entries[y].end
      BY <3>2
    <3>4. /\ seq.rows[k].address \in 0..(seq.end - 1) /\ seq.rows[1].address \in 0..(seq.end - 1)
          /\ seq.rows[1].address <= seq.rows[k].address
      BY <2>2, <2>4, <3>1
    <3>5. a(y) < seq.end /\ seq.rows[1].address <= a(y) /\ a(y) <= seq.end /\ seq.rows[1].address \in Nat
      BY <2>2, <3>3, <3>4
    <3> QED BY <2>2, <2>3, <2>5, <3>1, <3>2, <3>3, <3>5
  <2>6. CASE ~(k <= Len(seq.rows))
    <3>1. k \notin DOMAIN seq.rows
      BY <2>2, <2>6
    <3>2. entries[y].end /\ a(y) = seq.end
      BY <1>11, <3>1 DEF IsRow
    <3> QED BY <2>2, <2>3, <2>4, <2>6, <3>2
  <2> QED BY <2>5, <2>6
<1>12. \A y \in 1..n : \E seq \in matrix : \E k \in 1..(Len(seq.rows) + 1) :
            /\ IsRow(entries[y], seq, k)
            /\ k <= Len(seq.rows) => y + 1 \in 1..n /\ IsRow(entries[y + 1], seq, k + 1)
  BY DEF Describes
<1>13. \A seq \in matrix : \A k \in 1..(Len(seq.rows) + 1) : \E y \in 1..n : IsRow(entries[y], seq, k)
  BY DEF Describes
<1>14. ASSUME NEW s \in matrix, NEW k, Covers(s, off), IsLast(s, off, k)
       PROVE  answer = [address |-> s.rows[k].address, path |-> s.rows[k].path,
                        line |-> s.rows[k].line, end |-> FALSE]
  <2> DEFINE row == [address |-> s.rows[k].address, path |-> s.rows[k].path, line |-> s.rows[k].line, end |-> FALSE]
  <2>1. /\ k \in DOMAIN s.rows /\ s.rows[k].address <= off /\ DOMAIN s.rows = 1..Len(s.rows) /\ Len(s.rows) \in Nat
    BY <1>14 DEF IsLast, Below, Describes, Ascending, Listed
  <2>2. k \in 1..(Len(s.rows) + 1) /\ k <= Len(s.rows)
    BY <2>1
  <2>3. PICK y \in 1..n : IsRow(entries[y], s, k)
    BY <1>13, <2>2
  <2>4. /\ a(y) = s.rows[k].address /\ ~entries[y].end /\ a(y) <= off /\ entries[y] = row
        /\ s.rows[1].address <= a(y) /\ s.rows[1].address \in Nat /\ s.end \in Nat
    BY <1>11, <2>1, <2>2, <2>3
  <2>5. c # 0 /\ (y = x \/ Before(entries, y, x))
    BY <1>9, <2>4
  <2>6. x \in 1..n /\ a(x) <= off /\ answer = IF entries[x].end THEN NoEntry ELSE entries[x]
    BY <1>10, <2>5
  <2>7. PICK t \in matrix : \E l \in 1..(Len(t.rows) + 1) :
            /\ IsRow(entries[x], t, l)
            /\ l <= Len(t.rows) => x + 1 \in 1..n /\ IsRow(entries[x + 1], t, l + 1)
    BY <1>12, <2>6
  <2>8. PICK l \in 1..(Len(t.rows) + 1) :
            /\ IsRow(entries[x], t, l)
            /\ l <= Len(t.rows) => x + 1 \in 1..n /\ IsRow(entries[x + 1], t, l + 1)
    BY <2>7
  <2>9. /\ l <= Len(t.rows) =>
              /\ a(x) = t.rows[l].address /\ ~entries[x].end /\ l \in DOMAIN t.rows /\ a(x) < t.end
              /\ entries[x] = [address |-> t.rows[l].address, path |-> t.rows[l].path,
                               line |-> t.rows[l].line, end |-> FALSE]
        /\ ~(l <= Len(t.rows)) => a(x) = t.end /\ entries[x].end
        /\ t.rows[1].address <= a(x) /\ a(x) <= t.end
        /\ t.rows[1].address \in Nat /\ t.end \in Nat
        /\ Len(t.rows) \in Nat
    BY <1>11, <2>6, <2>8
  <2>20. /\ a(x) \in Int /\ a(y) \in Int /\ s.end \in Int /\ t.end \in Int
         /\ s.rows[1].address \in Int /\ t.rows[1].address \in Int
    <3>1. a(x) \in Int
      BY <1>1, <2>6
    <3>2. a(y) \in Int
      BY <1>1
    <3>3. /\ s.end \in Int /\ s.rows[1].address \in Int
      BY <2>4
    <3>4. t.end \in Int /\ t.rows[1].address \in Int
      BY <2>9
    <3> HIDE DEF a
    <3> QED BY <3>1, <3>2, <3>3, <3>4
  <2>10. entries[x] = row
    <3>1. CASE x = y
      BY <2>4, <3>1
    <3>2. CASE x # y /\ s # t
      <4>1. Before(entries, y, x)
        BY <2>5, <3>2
      <4>2. s.end <= t.rows[1].address \/ t.end <= s.rows[1].address
        BY <3>2 DEF Describes
      <4>3. ~(s.end <= t.rows[1].address)
        <5>1. \A i, j, k1, l1 \in Int : i <= j /\ j <= k1 /\ k1 < l1 => ~(l1 <= i)
          OBVIOUS
        <5>2. off \in Int
          OBVIOUS
        <5>3. t.rows[1].address <= a(x) /\ a(x) <= off /\ off < s.end
          BY <1>14, <2>6, <2>9 DEF Covers
        <5> HIDE DEF a
        <5> QED BY <2>20, <5>1, <5>2, <5>3
      <4>4. t.end <= s.rows[1].address
        BY <4>2, <4>3
      <4>5. a(x) <= a(y)
        <5>1. \A i, j, k1, l1 \in Int : i <= j /\ j <= k1 /\ k1 <= l1 => i <= l1
          OBVIOUS
        <5>2. a(x) <= t.end /\ t.end <= s.rows[1].address /\ s.rows[1].address <= a(y)
          BY <2>4, <2>9, <4>4
        <5> HIDE DEF a
        <5> QED BY <2>20, <5>1, <5>2
      <4>6. ~Precedes(entries[y], entries[x])
        BY <1>1, <2>4, <2>6, <4>5 DEF Precedes
      <4>7. a(x) = a(y) /\ ~entries[x].end
        BY <1>1, <2>4, <2>6, <4>1, <4>5, <4>6 DEF Before, Precedes
      <4>8. l <= Len(t.rows)
        BY <2>9, <4>7
      <4>9. a(x) < t.end /\ t.end <= a(x)
        <5>1. a(x) < t.end /\ t.end <= s.rows[1].address /\ s.rows[1].address <= a(y) /\ a(x) = a(y)
          BY <2>4, <2>9, <4>4, <4>7, <4>8
        <5> HIDE DEF a
        <5> QED BY <2>20, <5>1
      <4> HIDE DEF a
      <4> QED BY <2>20, <4>9
    <3>3. CASE x # y /\ s = t
      <4>1. l <= Len(t.rows)
        BY <1>1, <1>14, <2>6, <2>9, <3>3 DEF Covers
      <4>2. l <= k
        BY <1>14, <2>6, <2>9, <3>3, <4>1 DEF IsLast, Below
      <4>3. CASE l = k
        BY <2>9, <3>3, <4>1, <4>3
      <4>4. CASE l # k
        <5>1. l + 1 \in 1..(Len(s.rows) + 1) /\ l + 1 <= Len(s.rows) /\ l + 1 \in 1..k /\ l \in 1..(l + 1)
              /\ l + 1 \in DOMAIN s.rows
          <6>1. k \in Nat /\ k <= Len(s.rows) /\ l \in Nat /\ 1 <= l
            BY <2>1, <2>2, <2>8
          <6>2. l < k
            BY <4>2, <4>4, <6>1
          <6>3. l + 1 \in Nat /\ 1 <= l + 1 /\ l + 1 <= k /\ l + 1 <= Len(s.rows)
            BY <2>1, <6>1, <6>2
          <6> QED BY <2>1, <6>1, <6>3
        <5>2. x + 1 \in 1..n /\ IsRow(entries[x + 1], s, l + 1)
          BY <2>8, <3>3, <4>1
        <5>3. a(x + 1) = s.rows[l + 1].address /\ ~entries[x + 1].end
          BY <1>11, <5>1, <5>2
        <5>4. s.rows[l].address <= s.rows[l + 1].address /\ s.rows[l + 1].address <= s.rows[k].address
          BY <2>1, <5>1 DEF Describes, Ascending
        <5>5. a(x) = s.rows[l].address /\ ~entries[x].end
          BY <2>9, <3>3, <4>1
        <5>6. a(x + 1) <= off
          BY <1>1, <2>4, <5>2, <5>3, <5>4
        <5>7. Before(entries, x + 1, x)
          BY <1>9, <2>6, <5>2, <5>6
        <5> QED BY <1>1, <2>6, <5>2, <5>3, <5>4, <5>5, <5>7 DEF Before, Precedes
      <4> QED BY <4>3, <4>4
    <3> QED BY <3>1, <3>2, <3>3
  <2>11. ~entries[x].end
    BY <2>10
  <2> QED BY <2>6, <2>10, <2>11
<1>15. ASSUME \A seq \in matrix : ~Covers(seq, off), c # 0
       PROVE  answer = NoEntry
  <2>1. x \in 1..n /\ a(x) <= off /\ answer = IF entries[x].end THEN NoEntry ELSE entries[x]
    BY <1>10, <1>15
  <2>2. PICK t \in matrix : \E l \in 1..(Len(t.rows) + 1) : IsRow(entries[x], t, l)
    BY <1>12, <2>1
  <2>3. PICK l \in 1..(Len(t.rows) + 1) : IsRow(entries[x], t, l)
    BY <2>2
  <2>4. /\ l <= Len(t.rows) => a(x) < t.end /\ ~entries[x].end
        /\ ~(l <= Len(t.rows)) => entries[x].end
        /\ t.rows[1].address <= a(x)
        /\ t.rows[1].address \in Nat /\ t.end \in Nat
        /\ Len(t.rows) \in Nat
    BY <1>11, <2>1, <2>3
  <2>5. t.end <= off
    BY <1>1, <1>15, <2>1, <2>4 DEF Covers
  <2>6. Len(t.rows) + 1 \in 1..(Len(t.rows) + 1) /\ ~(Len(t.rows) + 1 <= Len(t.rows))
    BY <2>4
  <2>7. PICK z \in 1..n : IsRow(entries[z], t, Len(t.rows) + 1)
    BY <1>13, <2>6
  <2>8. a(z) = t.end
    BY <1>11, <2>6, <2>7
  <2>9. z = x \/ Before(entries, z, x)
    BY <1>9, <2>5, <2>8
  <2>10. a(z) <= a(x)
    BY <1>1, <1>5, <2>1, <2>9
  <2>11. ~(l <= Len(t.rows))
    BY <1>1, <2>1, <2>4, <2>8, <2>10
  <2> QED BY <2>1, <2>4, <2>11
<1>16. c = 0 => answer = NoEntry
  BY <1>7 DEF answer
<1> QED BY <1>14, <1>15, <1>16 DEF answer, sorted

\* The location of the offset is the one the compiler attributed to it.
LEMMA LinesExact ==
    ASSUME LinesDescribed(img), table = Entries(img.wasm), NEW off \in Nat, pc = off,
           line = MapEntry(Lookup(table, off), OnDisk)
    PROVE  LineExact
<1> DEFINE S == TableRows(img.wasm)
           entries == FlattenSeq(UnitRows(img.wasm))
           answer == Lookup(Sorted(entries), off)
<1>1. entries \in Seq(S) /\ Describes(entries, img.matrix)
  BY UnitsDescribe
<1>2. HasAddresses(S)
  BY DEF HasAddresses, TableRows
<1> HIDE DEF entries, S
<1>3. /\ \A seq \in img.matrix : \A k : Covers(seq, off) /\ IsLast(seq, off, k) =>
            answer = [address |-> seq.rows[k].address, path |-> seq.rows[k].path,
                      line |-> seq.rows[k].line, end |-> FALSE]
      /\ (\A seq \in img.matrix : ~Covers(seq, off)) => answer = NoEntry
  BY <1>1, <1>2, LookupExact
<1>4. line = MapEntry(answer, OnDisk)
  BY DEF Entries, entries
<1> HIDE DEF answer
<1> DEFINE last(s) == CHOOSE i \in Below(s, off) : \A j \in Below(s, off) : j <= i
           rows == {s.rows[last(s)] : s \in {t \in img.matrix : Covers(t, off)}}
<1>5. Covering(off) = rows
  BY DEF Covering, Below, Covers
<1>6. ASSUME NEW s \in img.matrix, Covers(s, off) PROVE IsLast(s, off, last(s))
  <2>1. DOMAIN s.rows = 1..Len(s.rows) /\ Len(s.rows) \in Nat /\ s.rows # <<>>
    BY <1>1 DEF Describes, Ascending, Listed
  <2>2. 1 \in DOMAIN s.rows
    BY <2>1
  <2>3. Below(s, off) \subseteq 0..Len(s.rows) /\ Below(s, off) # {}
    BY <1>6, <2>1, <2>2 DEF Below, Covers
  <2>4. \E i \in Below(s, off) : \A j \in Below(s, off) : j <= i
    BY <2>1, <2>3, Largest
  <2> QED BY <2>4 DEF IsLast
<1>7. CASE \A s \in img.matrix : ~Covers(s, off)
  <2>1. rows = {}
    BY <1>7
  <2>2. line = NoEntry
    BY <1>3, <1>4, <1>7 DEF MapEntry
  <2> HIDE DEF rows
  <2> QED BY <1>5, <2>1, <2>2 DEF LineExact
<1>8. CASE \E s \in img.matrix : Covers(s, off)
  <2>1. PICK s \in img.matrix : Covers(s, off)
    BY <1>8
  <2> DEFINE row == s.rows[last(s)]
             entry == [address |-> row.address, path |-> row.path, line |-> row.line, end |-> FALSE]
  <2>2. IsLast(s, off, last(s))
    BY <1>6, <2>1
  <2>3. answer = entry
    BY <1>3, <2>1, <2>2
  <2>4. ASSUME NEW t \in img.matrix, Covers(t, off) PROVE t = s
    <3>1. s # t => s.end <= t.rows[1].address \/ t.end <= s.rows[1].address
      BY <1>1 DEF Describes
    <3>2. /\ s.rows[1].address \in Int /\ t.rows[1].address \in Int /\ s.end \in Int /\ t.end \in Int
      BY <1>1 DEF Describes, Ascending, Listed
    <3> QED BY <2>1, <2>4, <3>1, <3>2 DEF Covers
  <2>5. rows = {row}
    BY <2>1, <2>4
  <2> HIDE DEF last, rows, row
  <2>6. entry # NoEntry
    <3>1. DOMAIN entry # DOMAIN NoEntry
      BY DEF NoEntry
    <3> QED BY <3>1
  <2>7. line = IF row.line = 0 \/ row.path \notin OnDisk THEN NoEntry ELSE [path |-> row.path, line |-> row.line]
    BY <1>4, <2>3, <2>6 DEF MapEntry
  <2>8. (CHOOSE r \in {row} : TRUE) = row
    OBVIOUS
  <2>9. Covering(pc) = {row}
    BY <1>5, <2>5
  <2>10. CASE row.line = 0 \/ row.path \notin OnDisk
    <3>1. ~\E r \in Covering(pc) : r.line # 0 /\ r.path \in OnDisk
      BY <2>9, <2>10
    <3> QED BY <2>7, <2>10, <3>1 DEF LineExact
  <2>11. CASE ~(row.line = 0 \/ row.path \notin OnDisk)
    <3>1. \E r \in Covering(pc) : r.line # 0 /\ r.path \in OnDisk
      BY <2>9, <2>11
    <3> QED BY <2>7, <2>8, <2>9, <2>11, <3>1 DEF LineExact
  <2> QED BY <2>10, <2>11
<1> QED BY <1>7, <1>8

\* The line table is the one of the image, and the line is looked up in it.
LineInv ==
    /\ img \in Images
    /\ table = Entries(img.wasm)
    /\ pc # Absent => pc \in Offsets /\ line = MapEntry(Lookup(table, pc), OnDisk)

\* Wherever the cursor stands, the line shown is the one the compiler attributed to the
\* offset, if the line programs describe the compiler's matrix (LinesDescribed).
THEOREM LineAlwaysExact ==
    ASSUME \A image \in Images : LinesDescribed(image)
    PROVE  Spec => []LineExact
<1>1. Init => LineInv
  BY DEF Init, LineInv
<1>2. LineInv /\ [Next]_vars => LineInv'
  <2> SUFFICES ASSUME LineInv, [Next]_vars PROVE LineInv'
    OBVIOUS
  <2>1. CASE Look
    BY <2>1 DEF Look, LineInv
  <2>2. CASE Inspect
    BY <2>2 DEF Inspect, LineInv
  <2>3. CASE Expand
    BY <2>3 DEF Expand, LineInv
  <2>4. CASE UNCHANGED vars
    BY <2>4 DEF vars, LineInv
  <2> QED BY <2>1, <2>2, <2>3, <2>4 DEF Next
<1>3. LineInv => LineExact
  <2> SUFFICES ASSUME LineInv, pc # Absent PROVE LineExact
    BY DEF LineExact
  <2>1. pc \in Nat
    BY OffsetsAssumption DEF LineInv
  <2>2. LinesDescribed(img)
    BY DEF LineInv
  <2> QED BY <2>1, <2>2, LinesExact DEF LineInv
<1> QED BY <1>1, <1>2, <1>3, PTL DEF Spec

-----------------------------------------------------------------------------
\* The function whose last value Weight is.
Weights(n) == LET W[i \in 0..n] == IF i = 0 THEN 1 ELSE ByteBase * W[i - 1] IN W

\* Products of naturals above 0, and of a natural and an integer.
LEMMA Products ==
    /\ \A a, b \in Nat \ {0} : a * b \in Nat \ {0}
    /\ \A a, b \in Int : a * b \in Int
OBVIOUS

LEMMA WeightsRecur ==
    ASSUME NEW n \in Nat
    PROVE  /\ Weights(n) \in [0..n -> Nat \ {0}]
           /\ Weights(n)[0] = 1
           /\ \A i \in 1..n : Weights(n)[i] = ByteBase * Weights(n)[i - 1]
<1> DEFINE S == Nat \ {0}
           step == [x \in (1..n) \X S |-> ByteBase * x[2]]
<1>1. step \in [(1..n) \X S -> S]
  BY ByteAssumption, Products
<1> HIDE DEF step
<1>2. PICK f \in [0..n -> S] : IsRecursion(f, n, 1, step)
  <2>1. 1 \in S
    OBVIOUS
  <2> HIDE DEF S
  <2> QED BY <1>1, <2>1, RecursionExists
<1>3. \A i \in 1..n : f[i] = ByteBase * f[i - 1]
  <2>1. \A i \in 1..n : f[i - 1] \in S /\ <<i, f[i - 1]>> \in (1..n) \X S
    OBVIOUS
  <2> QED BY <1>2, <2>1 DEF IsRecursion, step
<1>4. f = [i \in 0..n |-> IF i = 0 THEN 1 ELSE ByteBase * f[i - 1]]
  BY <1>2, <1>3 DEF IsRecursion
<1>5. \E g : g = [i \in 0..n |-> IF i = 0 THEN 1 ELSE ByteBase * g[i - 1]]
  BY <1>4
<1>6. Weights(n) = [i \in 0..n |-> IF i = 0 THEN 1 ELSE ByteBase * Weights(n)[i - 1]]
  BY <1>5, Zenon DEF Weights
<1> DEFINE g == Weights(n)
           J == {i \in 0..n : g[i] \in S}
<1> HIDE DEF g
<1>7. g[0] = 1 /\ DOMAIN g = 0..n /\ \A i \in 1..n : g[i] = ByteBase * g[i - 1]
  BY <1>6 DEF g
<1>8. 0 \in J /\ \A i \in 1..n : i - 1 \in J => i \in J
  <2>1. ASSUME NEW i \in 1..n, i - 1 \in J PROVE i \in J
    <3>1. g[i - 1] \in S
      BY <2>1
    <3>2. g[i] \in S
      BY <1>7, <3>1, Products, ByteAssumption
    <3> QED BY <3>2
  <2> QED BY <1>7, <2>1
<1>9. 0..n \subseteq J
  <2> HIDE DEF J
  <2> QED BY <1>8, Upwards
<1>10. g = [i \in 0..n |-> g[i]]
  BY <1>6 DEF g
<1> QED BY <1>7, <1>9, <1>10 DEF g

\* A byte one place up counts ByteBase times as much.
LEMMA WeightProperties ==
    ASSUME NEW n \in Nat
    PROVE  /\ Weight(0) = 1
           /\ Weight(n) \in Nat \ {0}
           /\ Weight(n + 1) = ByteBase * Weight(n)
<1> DEFINE f == Weights(n)
           g == Weights(n + 1)
           J == {i \in 0..n : g[i] = f[i]}
<1>1. /\ f \in [0..n -> Nat \ {0}] /\ f[0] = 1
      /\ \A i \in 1..n : f[i] = ByteBase * f[i - 1]
  BY WeightsRecur
<1>2. /\ g[0] = 1
      /\ \A i \in 1..(n + 1) : g[i] = ByteBase * g[i - 1]
  BY WeightsRecur, n + 1 \in Nat
<1>3. \A m : Weight(m) = Weights(m)[m]
  BY DEF Weight, Weights
<1>4. Weights(0)[0] = 1
  BY WeightsRecur
<1> HIDE DEF f, g
<1>5. 0 \in J /\ \A i \in 1..n : i - 1 \in J => i \in J
  <2>1. 0 \in J
    BY <1>1, <1>2
  <2>2. ASSUME NEW i \in 1..n, i - 1 \in J PROVE i \in J
    <3>1. g[i] = ByteBase * g[i - 1] /\ f[i] = ByteBase * f[i - 1]
      BY <1>1, <1>2
    <3> QED BY <2>2, <3>1
  <2> QED BY <2>1, <2>2
<1>6. 0..n \subseteq J
  <2> HIDE DEF J
  <2> QED BY <1>5, Upwards
<1>7. g[n] = f[n]
  BY <1>6
<1>8. g[n + 1] = ByteBase * g[n]
  <2>1. n + 1 \in 1..(n + 1) /\ (n + 1) - 1 = n
    OBVIOUS
  <2> QED BY <1>2, <2>1
<1> QED BY <1>1, <1>3, <1>4, <1>7, <1>8 DEF f, g

-----------------------------------------------------------------------------
\* The sums that ReadUnsignedLE adds up.
Sums(bytes) ==
    LET Sum[i \in 0..Len(bytes)] == IF i = 0 THEN 0 ELSE Sum[i - 1] + bytes[i] * Weight(i - 1) IN Sum

LEMMA SumsRecur ==
    ASSUME NEW bytes, Listed(bytes), \A i \in DOMAIN bytes : bytes[i] \in Int
    PROVE  /\ Sums(bytes) \in [0..Len(bytes) -> Int]
           /\ Sums(bytes)[0] = 0
           /\ \A i \in 1..Len(bytes) : Sums(bytes)[i] = Sums(bytes)[i - 1] + bytes[i] * Weight(i - 1)
<1> DEFINE n == Len(bytes)
           Next1(i, s) == s + bytes[i] * Weight(i - 1)
           step == [x \in (1..n) \X Int |-> Next1(x[1], x[2])]
<1>1. n \in Nat /\ DOMAIN bytes = 1..n
  BY DEF Listed
<1>2. ASSUME NEW i \in 1..n, NEW s \in Int PROVE Next1(i, s) \in Int
  <2>1. i - 1 \in Nat /\ bytes[i] \in Int
    BY <1>1
  <2>2. Weight(i - 1) \in Int
    BY <2>1, WeightProperties
  <2>3. bytes[i] * Weight(i - 1) \in Int
    BY <2>1, <2>2, Products
  <2> QED BY <2>3
<1> HIDE DEF Next1
<1>3. step \in [(1..n) \X Int -> Int]
  BY <1>2
<1> HIDE DEF step
<1>4. PICK f \in [0..n -> Int] : IsRecursion(f, n, 0, step)
  BY <1>1, <1>3, 0 \in Int, RecursionExists
<1>5. \A i \in 1..n : f[i] = Next1(i, f[i - 1])
  <2>1. \A i \in 1..n : f[i - 1] \in Int /\ <<i, f[i - 1]>> \in (1..n) \X Int
    BY <1>1
  <2> QED BY <1>4, <2>1 DEF IsRecursion, step
<1>6. f = [i \in 0..n |-> IF i = 0 THEN 0 ELSE Next1(i, f[i - 1])]
  BY <1>1, <1>4, <1>5 DEF IsRecursion
<1>7. \E g : g = [i \in 0..n |-> IF i = 0 THEN 0 ELSE Next1(i, g[i - 1])]
  BY <1>6
<1>8. Sums(bytes) = [i \in 0..n |-> IF i = 0 THEN 0 ELSE Next1(i, Sums(bytes)[i - 1])]
  BY <1>7, Zenon DEF Sums, Next1
<1> DEFINE g == Sums(bytes)
           J == {i \in 0..n : g[i] \in Int}
<1> HIDE DEF g
<1>9. g[0] = 0 /\ DOMAIN g = 0..n /\ \A i \in 1..n : g[i] = Next1(i, g[i - 1])
  BY <1>1, <1>8 DEF g
<1>10. 0 \in J /\ \A i \in 1..n : i - 1 \in J => i \in J
  BY <1>1, <1>2, <1>9
<1>11. 0..n \subseteq J
  <2> HIDE DEF J
  <2> QED BY <1>1, <1>10, Upwards
<1>12. g = [i \in 0..n |-> g[i]]
  BY <1>8 DEF g
<1> QED BY <1>9, <1>11, <1>12 DEF g, Next1

\* A byte is less than the weight of the next, whatever is below it.
LEMMA ByteFits ==
    ASSUME NEW w \in Nat \ {0}, NEW s \in 0..(w - 1), NEW b \in 0..(ByteBase - 1)
    PROVE  s + b * w \in 0..(ByteBase * w - 1)
<1>1. b * w \in Nat /\ (ByteBase - 1) * w \in Nat /\ ByteBase * w \in Nat
  BY ByteAssumption, Products
<1>2. b * w <= (ByteBase - 1) * w
  <2>1. PICK d \in Nat : b + d = ByteBase - 1
    <3>1. ByteBase - 1 - b \in Nat /\ b + (ByteBase - 1 - b) = ByteBase - 1
      BY ByteAssumption
    <3> QED BY <3>1
  <2>2. (b + d) * w = b * w + d * w /\ d * w \in Nat
    OBVIOUS
  <2> QED BY <1>1, <2>1, <2>2
<1>3. (ByteBase - 1) * w = ByteBase * w - w
  BY ByteAssumption
<1> QED BY <1>1, <1>2, <1>3

\* Bytes read to a number that fits in their width.
LEMMA ReadFits ==
    ASSUME NEW bytes, Listed(bytes), \A i \in DOMAIN bytes : bytes[i] \in 0..(ByteBase - 1)
    PROVE  ReadUnsignedLE(bytes) \in 0..(Weight(Len(bytes)) - 1)
<1> DEFINE n == Len(bytes)
           g == Sums(bytes)
           J == {i \in 0..n : g[i] \in 0..(Weight(i) - 1)}
<1>1. n \in Nat /\ DOMAIN bytes = 1..n
  BY DEF Listed
<1>2. \A i \in DOMAIN bytes : bytes[i] \in Int
  BY ByteAssumption
<1>3. /\ g \in [0..n -> Int] /\ g[0] = 0
      /\ \A i \in 1..n : g[i] = g[i - 1] + bytes[i] * Weight(i - 1)
  BY <1>2, SumsRecur
<1> HIDE DEF g
<1>4. 0 \in J
  <2>1. Weight(0) = 1 /\ 0 \in 0..n
    BY <1>1, WeightProperties
  <2> QED BY <1>3, <2>1
<1>5. ASSUME NEW i \in 1..n, i - 1 \in J PROVE i \in J
  <2> DEFINE w == Weight(i - 1)
             s == g[i - 1]
             b == bytes[i]
  <2>1. i - 1 \in Nat /\ (i - 1) + 1 = i
    BY <1>1
  <2>2. w \in Nat \ {0} /\ Weight(i) = ByteBase * w
    BY <2>1, WeightProperties
  <2>3. s \in 0..(w - 1) /\ b \in 0..(ByteBase - 1) /\ g[i] = s + b * w
    BY <1>1, <1>3, <1>5
  <2> HIDE DEF w, s, b
  <2>4. s + b * w \in 0..(ByteBase * w - 1)
    BY <2>2, <2>3, ByteFits
  <2> QED BY <2>2, <2>3, <2>4
<1>6. 0..n \subseteq J
  <2> HIDE DEF J
  <2> QED BY <1>1, <1>4, <1>5, Upwards
<1>7. n \in J
  <2> HIDE DEF J
  <2> QED BY <1>1, <1>6
<1> QED BY <1>7 DEF ReadUnsignedLE, Sums, g

-----------------------------------------------------------------------------
\* What is left of a value after the bytes that LowBytes has shifted out.
Rests(value, size) ==
    LET Rest[i \in 0..size] == IF i = 0 THEN value ELSE Rest[i - 1] \div ByteBase IN Rest

LEMMA RestsRecur ==
    ASSUME NEW value \in Int, NEW size \in Nat
    PROVE  /\ Rests(value, size) \in [0..size -> Int]
           /\ Rests(value, size)[0] = value
           /\ \A i \in 1..size : Rests(value, size)[i] = Rests(value, size)[i - 1] \div ByteBase
<1> DEFINE Shifted(s) == s \div ByteBase
           step == [x \in (1..size) \X Int |-> Shifted(x[2])]
<1>1. \A s \in Int : Shifted(s) \in Int
  BY ByteAssumption
<1> HIDE DEF Shifted
<1>2. step \in [(1..size) \X Int -> Int]
  BY <1>1
<1> HIDE DEF step
<1>3. PICK f \in [0..size -> Int] : IsRecursion(f, size, value, step)
  BY <1>2, RecursionExists
<1>4. \A i \in 1..size : f[i] = Shifted(f[i - 1])
  <2>1. \A i \in 1..size : f[i - 1] \in Int /\ <<i, f[i - 1]>> \in (1..size) \X Int
    OBVIOUS
  <2> QED BY <1>3, <2>1 DEF IsRecursion, step
<1>5. f = [i \in 0..size |-> IF i = 0 THEN value ELSE Shifted(f[i - 1])]
  BY <1>3, <1>4 DEF IsRecursion
<1>6. \E g : g = [i \in 0..size |-> IF i = 0 THEN value ELSE Shifted(g[i - 1])]
  BY <1>5
<1>7. Rests(value, size) = [i \in 0..size |-> IF i = 0 THEN value ELSE Shifted(Rests(value, size)[i - 1])]
  BY <1>6, Zenon DEF Rests, Shifted
<1> DEFINE g == Rests(value, size)
           J == {i \in 0..size : g[i] \in Int}
<1> HIDE DEF g
<1>8. g[0] = value /\ DOMAIN g = 0..size /\ \A i \in 1..size : g[i] = Shifted(g[i - 1])
  BY <1>7 DEF g
<1>9. 0 \in J /\ \A i \in 1..size : i - 1 \in J => i \in J
  <2>1. ASSUME NEW i \in 1..size, i - 1 \in J PROVE i \in J
    <3>1. g[i - 1] \in Int
      BY <2>1
    <3> QED BY <1>1, <1>8, <3>1
  <2> QED BY <1>8, <2>1
<1>10. 0..size \subseteq J
  <2> HIDE DEF J
  <2> QED BY <1>9, Upwards
<1>11. g = [i \in 0..size |-> g[i]]
  BY <1>7 DEF g
<1> QED BY <1>8, <1>10, <1>11 DEF g, Shifted

\* Division with remainder.
LEMMA Divided ==
    ASSUME NEW r \in Int
    PROVE  /\ r \div ByteBase \in Int /\ r % ByteBase \in 0..(ByteBase - 1)
           /\ r = ByteBase * (r \div ByteBase) + (r % ByteBase)
<1>1. \A b \in Nat \ {0} : r \div b \in Int /\ r % b \in 0..(b - 1) /\ r = b * (r \div b) + (r % b)
  OBVIOUS
<1> QED BY <1>1, ByteAssumption

\* Shifting a byte from the rest to the sum leaves what they stand for.
LEMMA ByteMoves ==
    ASSUME NEW s \in Int, NEW w \in Int, NEW r \in Int
    PROVE  s + w * r = (s + (r % ByteBase) * w) + (ByteBase * w) * (r \div ByteBase)
<1> DEFINE q == r \div ByteBase
           b == r % ByteBase
<1>1. q \in Int /\ b \in Int /\ r = ByteBase * q + b /\ ByteBase \in Int
  BY Divided, ByteAssumption
<1> HIDE DEF q, b
<1>2. \A x, y, z, k \in Int : z * (k * x + y) = y * z + (k * z) * x
  OBVIOUS
<1>3. w * r = b * w + (ByteBase * w) * q
  BY <1>1, <1>2
<1>4. w * r \in Int /\ b * w \in Int /\ (ByteBase * w) * q \in Int
  BY <1>1, Products
<1>5. \A x, y, z \in Int : x = y + z => s + x = (s + y) + z
  OBVIOUS
<1>6. s + w * r = (s + b * w) + (ByteBase * w) * q
  BY <1>3, <1>4, <1>5
<1> QED BY <1>6 DEF q, b

\* The bytes of a value are bytes, and read to the value up to a multiple of their range.
LEMMA LowBytesRead ==
    ASSUME NEW value \in Int, NEW size \in Nat
    PROVE  LET bytes == LowBytes(value, size)
           IN  /\ Listed(bytes) /\ Len(bytes) = size
               /\ \A i \in DOMAIN bytes : bytes[i] \in 0..(ByteBase - 1)
               /\ \E q \in Int : value = ReadUnsignedLE(bytes) + Weight(size) * q
<1> DEFINE bytes == LowBytes(value, size)
           R == Rests(value, size)
           g == Sums(bytes)
           J == {i \in 0..size : value = g[i] + Weight(i) * R[i]}
<1>1. /\ R \in [0..size -> Int] /\ R[0] = value
      /\ \A i \in 1..size : R[i] = R[i - 1] \div ByteBase
  BY RestsRecur
<1>2. bytes = [i \in 1..size |-> R[i - 1] % ByteBase]
  BY DEF LowBytes, Rests
<1> HIDE DEF bytes, R
<1>3. \A i \in 1..size : R[i - 1] \in Int /\ bytes[i] \in 0..(ByteBase - 1)
  <2>1. ASSUME NEW i \in 1..size PROVE R[i - 1] \in Int /\ bytes[i] \in 0..(ByteBase - 1)
    <3>1. R[i - 1] \in Int
      BY <1>1
    <3> QED BY <1>2, <3>1, Divided
  <2> QED BY <2>1
<1>4. bytes \in Seq(0..(ByteBase - 1)) /\ Len(bytes) = size /\ DOMAIN bytes = 1..size
  <2>1. bytes \in [1..size -> 0..(ByteBase - 1)]
    BY <1>2, <1>3
  <2>2. bytes \in Seq(0..(ByteBase - 1))
    BY <2>1, SeqDef
  <2> QED BY <2>1, <2>2, LenProperties
<1>5. Listed(bytes) /\ \A i \in DOMAIN bytes : bytes[i] \in Int
  BY <1>3, <1>4, ByteAssumption DEF Listed
<1>6. /\ g \in [0..size -> Int] /\ g[0] = 0
      /\ \A i \in 1..size : g[i] = g[i - 1] + bytes[i] * Weight(i - 1)
  BY <1>4, <1>5, SumsRecur
<1> HIDE DEF g
<1>7. 0 \in J
  <2>1. Weight(0) = 1
    BY WeightProperties
  <2> QED BY <1>1, <1>6, <2>1
<1>8. ASSUME NEW i \in 1..size, i - 1 \in J PROVE i \in J
  <2> DEFINE w == Weight(i - 1)
             s == g[i - 1]
             r == R[i - 1]
  <2>1. i - 1 \in Nat /\ (i - 1) + 1 = i
    OBVIOUS
  <2>2. w \in Int /\ Weight(i) = ByteBase * w
    BY <2>1, WeightProperties
  <2>3. s \in Int /\ r \in Int /\ g[i] = s + (r % ByteBase) * w /\ R[i] = r \div ByteBase /\ value = s + w * r
    BY <1>1, <1>2, <1>6, <1>8
  <2> HIDE DEF w, s, r
  <2>4. value = (s + (r % ByteBase) * w) + (ByteBase * w) * (r \div ByteBase)
    BY <2>2, <2>3, ByteMoves
  <2> QED BY <2>2, <2>3, <2>4
<1>9. 0..size \subseteq J
  <2> HIDE DEF J
  <2> QED BY <1>7, <1>8, Upwards
<1>10. size \in J
  <2> HIDE DEF J
  <2> QED BY <1>9
<1>11. ReadUnsignedLE(bytes) = g[size]
  BY <1>4 DEF ReadUnsignedLE, Sums, g
<1>12. \E q \in Int : value = ReadUnsignedLE(bytes) + Weight(size) * q
  BY <1>1, <1>10, <1>11
<1> QED BY <1>3, <1>4, <1>5, <1>12 DEF bytes

-----------------------------------------------------------------------------
\* Two integers that stand for the same value in a width.
Alike(a, b, w) == \E q \in Int : a = b + w * q

LEMMA AlikeRemains ==
    ASSUME NEW a \in Int, NEW b \in Int, NEW w \in Nat \ {0}, Alike(a, b, w)
    PROVE  (b - a) % w = 0 /\ Alike(a + w, b, w) /\ Alike(a, b + w, w) /\ Alike(a, b - w, w)
<1>1. PICK q \in Int : a = b + w * q
  BY DEF Alike
<1>2. w * q \in Int /\ w * (-q) = -(w * q)
  OBVIOUS
<1>3. w * (q + 1) = w * q + w /\ w * (q - 1) = w * q - w
  OBVIOUS
<1>4. (w * (-q)) % w = 0
  <2> DEFINE p == -q
             r == (w * p) % w
             d == (w * p) \div w
  <2>1. p \in Int /\ w * p \in Int
    OBVIOUS
  <2>2. d \in Int /\ r \in 0..(w - 1) /\ w * p = w * d + r
    <3>1. \A x \in Int : x \div w \in Int /\ x % w \in 0..(w - 1) /\ x = w * (x \div w) + (x % w)
      OBVIOUS
    <3> HIDE DEF p
    <3> QED BY <2>1, <3>1
  <2> HIDE DEF p, r, d
  <2>3. r = w * (p - d)
    <3>1. \A x, y, z \in Int : z * (x - y) = z * x - z * y
      OBVIOUS
    <3>2. w * (p - d) = w * p - w * d
      BY <2>1, <2>2, <3>1
    <3>3. w * d \in Int
      BY <2>2
    <3> QED BY <2>1, <2>2, <3>2, <3>3
  <2>4. \A e \in Int : w * e \in 0..(w - 1) => e = 0
    <3>1. ASSUME NEW e \in Int, e >= 1 PROVE w * e >= w
      <4>1. PICK k \in Nat : e = 1 + k
        <5>1. e - 1 \in Nat /\ e = 1 + (e - 1)
          BY <3>1
        <5> QED BY <5>1
      <4>2. w * (1 + k) = w + w * k /\ w * k \in Nat
        OBVIOUS
      <4> QED BY <4>1, <4>2
    <3>2. ASSUME NEW e \in Int, e <= -1 PROVE w * e <= -w
      <4>1. PICK k \in Nat : e = -1 - k
        <5>1. -1 - e \in Nat /\ e = -1 - (-1 - e)
          BY <3>2
        <5> QED BY <5>1
      <4>2. w * (-1 - k) = -w - w * k /\ w * k \in Nat
        OBVIOUS
      <4> QED BY <4>1, <4>2
    <3> QED BY <3>1, <3>2
  <2>5. p - d = 0
    BY <2>1, <2>2, <2>3, <2>4
  <2>6. w * 0 = 0
    OBVIOUS
  <2> QED BY <2>3, <2>5, <2>6 DEF r, p
<1>5. b - a = w * (-q)
  BY <1>1, <1>2
<1>6. a + w = b + w * (q + 1) /\ a = (b + w) + w * (q - 1) /\ a = (b - w) + w * (q + 1)
  BY <1>1, <1>2, <1>3
<1>7. q + 1 \in Int /\ q - 1 \in Int
  OBVIOUS
<1> QED BY <1>4, <1>5, <1>6, <1>7 DEF Alike

\* The bytes encoded of a value read to what it stands for in the width.
LEMMA EncodedReads ==
    ASSUME NEW value \in Int, NEW size \in Nat \ {0}
    PROVE  LET bytes == EncodeLE(value, size)
           IN  /\ Listed(bytes) /\ Len(bytes) = size
               /\ \A i \in DOMAIN bytes : bytes[i] \in 0..(ByteBase - 1)
               /\ Alike(value, ReadUnsignedLE(bytes), Weight(size))
<1> DEFINE w == Weight(size)
           v == IF value < 0 THEN value + w ELSE value
           bytes == LowBytes(v, size)
           n == ReadUnsignedLE(bytes)
<1>1. w \in Nat \ {0} /\ EncodeLE(value, size) = bytes
  BY WeightProperties DEF EncodeLE
<1> HIDE DEF w
<1>2. v \in Int
  BY <1>1
<1> HIDE DEF v
<1>3. /\ Listed(bytes) /\ Len(bytes) = size
      /\ \A i \in DOMAIN bytes : bytes[i] \in 0..(ByteBase - 1)
      /\ \E q \in Int : v = n + w * q
  BY <1>2, LowBytesRead DEF w
<1> HIDE DEF bytes
<1>4. n \in Int
  <2>1. n \in 0..(w - 1)
    BY <1>3, ReadFits DEF w
  <2> QED BY <1>1, <2>1
<1> HIDE DEF n
<1>5. Alike(v, n, w)
  BY <1>3 DEF Alike
<1>6. Alike(value, n, w)
  <2>1. CASE value < 0
    <3>1. v = value + w
      BY <2>1 DEF v
    <3>2. PICK q \in Int : v = n + w * q
      BY <1>5 DEF Alike
    <3>3. w * (q - 1) = w * q - w /\ w * q \in Int
      BY <1>1
    <3>4. value = n + w * (q - 1) /\ q - 1 \in Int
      BY <1>1, <1>4, <3>1, <3>2, <3>3
    <3> QED BY <3>4 DEF Alike
  <2>2. CASE ~(value < 0)
    BY <1>5, <2>2 DEF v
  <2> QED BY <2>1, <2>2
<1> QED BY <1>1, <1>3, <1>6 DEF w, n

\* What is read of memory is bytes.
LEMMA MemoryReads ==
    ASSUME NEW image, Readable(image), NEW addr, NEW size \in Int, ReadMemory(image.state, addr, size) # <<>>
    PROVE  LET bytes == ReadMemory(image.state, addr, size)
           IN  /\ size \in Nat \ {0} /\ Listed(bytes) /\ Len(bytes) = size
               /\ \A i \in DOMAIN bytes : bytes[i] \in 0..(ByteBase - 1)
<1> DEFINE memory == image.state.memory
           cell(i) == IF addr + i - 1 \in DOMAIN memory THEN memory[addr + i - 1] ELSE 0
           bytes == ReadMemory(image.state, addr, size)
<1>1. size \in Nat \ {0} /\ bytes = [i \in 1..size |-> cell(i)]
  BY DEF ReadMemory
<1>2. \A a \in DOMAIN memory : memory[a] \in 0..(ByteBase - 1)
  BY DEF Readable
<1>3. 0 \in 0..(ByteBase - 1)
  BY ByteAssumption
<1>4. \A i \in 1..size : cell(i) \in 0..(ByteBase - 1)
  BY <1>2, <1>3
<1> HIDE DEF cell, bytes
<1>5. bytes \in [1..size -> 0..(ByteBase - 1)]
  BY <1>1, <1>4
<1>6. bytes \in Seq(0..(ByteBase - 1)) /\ Len(bytes) = size /\ DOMAIN bytes = 1..size
  BY <1>1, <1>5, SeqDef, LenProperties
<1> QED BY <1>1, <1>5, <1>6 DEF Listed, bytes

\* The number in a slot that a location names.
LEMMA SlotReads ==
    ASSUME NEW image, Readable(image), ExactSlots(image), NEW loc, RegisterValue(loc, image.state) # <<>>
    PROVE  /\ loc.kind \in Registers
           /\ RegisterValue(loc, image.state) = <<image.state.slots[loc.kind][loc.n].v>>
           /\ image.state.slots[loc.kind][loc.n].v \in Int
<1> DEFINE slot == image.state.slots[loc.kind][loc.n]
<1>1. loc.kind \in Registers /\ loc.n \in DOMAIN image.state.slots[loc.kind]
      /\ RegisterValue(loc, image.state) = <<IF slot.form = "bigint" THEN ToNumber(slot.v) ELSE slot.v>>
  BY DEF RegisterValue
<1>2. slot.v \in Int /\ (slot.form = "bigint" => Magnitude(slot.v) < Exact)
  BY <1>1 DEF Readable, ExactSlots
<1> HIDE DEF slot
<1>3. slot.form = "bigint" => ToNumber(slot.v) = slot.v
  BY <1>2 DEF ToNumber
<1> QED BY <1>1, <1>2, <1>3 DEF slot

\* The bytes behind a location read to what it holds.
LEMMA RawBytesRead ==
    ASSUME Readable(img), ExactSlots(img), NEW loc, loc.kind = "value" => loc.n \in Int,
           NEW size \in Nat \ {0}, RawBytes(loc, size, img.state) # <<>>
    PROVE  LET bytes == RawBytes(loc, size, img.state)
           IN  /\ Listed(bytes) /\ Len(bytes) = size
               /\ \A i \in DOMAIN bytes : bytes[i] \in 0..(ByteBase - 1)
               /\ Holds(loc, size) \in Int
               /\ Alike(Holds(loc, size), ReadUnsignedLE(bytes), Weight(size))
<1>1. CASE loc.kind = "memory"
  <2> DEFINE bytes == ReadMemory(img.state, loc.n, size)
             n == ReadUnsignedLE(bytes)
             w == Weight(size)
  <2>1. RawBytes(loc, size, img.state) = bytes /\ Holds(loc, size) = n
    BY <1>1 DEF RawBytes, Holds, Registers
  <2>2. Listed(bytes) /\ Len(bytes) = size /\ \A i \in DOMAIN bytes : bytes[i] \in 0..(ByteBase - 1)
    <3>1. bytes # <<>> /\ size \in Int
      BY <2>1
    <3> QED BY <3>1, MemoryReads
  <2> HIDE DEF bytes
  <2>3. w \in Nat \ {0}
    BY WeightProperties
  <2>4. n \in 0..(w - 1)
    BY <2>2, ReadFits
  <2> HIDE DEF w, n
  <2>5. n = n + w * 0 /\ 0 \in Int
    BY <2>3, <2>4
  <2>6. Alike(n, n, w)
    BY <2>5 DEF Alike
  <2> QED BY <2>1, <2>2, <2>4, <2>6 DEF n, w
<1>2. CASE loc.kind = "value"
  <2>1. RawBytes(loc, size, img.state) = EncodeLE(loc.n, size) /\ Holds(loc, size) = loc.n
    BY <1>2 DEF RawBytes, Holds, Registers
  <2> QED BY <1>2, <2>1, EncodedReads
<1>3. CASE loc.kind \notin {"memory", "value"}
  <2> DEFINE slot == RegisterValue(loc, img.state)
             v == img.state.slots[loc.kind][loc.n].v
  <2>1. slot # <<>> /\ RawBytes(loc, size, img.state) = EncodeLE(slot[1], size)
    BY <1>3 DEF RawBytes
  <2>2. loc.kind \in Registers /\ slot = <<v>> /\ v \in Int
    BY <2>1, SlotReads
  <2>3. Holds(loc, size) = v
    BY <2>2 DEF Holds, Registers, v
  <2> HIDE DEF slot, v
  <2>4. RawBytes(loc, size, img.state) = EncodeLE(v, size)
    BY <2>1, <2>2
  <2> QED BY <2>2, <2>3, <2>4, EncodedReads
<1> QED BY <1>1, <1>2, <1>3

\* A base type is shown as what its location holds, in its width and signedness.
LEMMA BaseExact ==
    ASSUME Readable(img), ExactSlots(img), NEW loc, loc.kind = "value" => loc.n \in Int,
           NEW type, type.size \in Nat \cup {Absent}, type.enc # "boolean",
           type.size # 0,
           DecodeBase(type, loc, img.state).what = "scalar"
    PROVE  LET v == DecodeBase(type, loc, img.state).v
               range == Weight(type.size)
           IN  /\ (v - Holds(loc, type.size)) % range = 0
               /\ IF type.enc = "signed" THEN 2 * v \in (-range)..(range - 1) ELSE v \in 0..(range - 1)
<1> DEFINE size == type.size
           bytes == RawBytes(loc, size, img.state)
           n == ReadUnsignedLE(bytes)
           w == Weight(size)
           held == Holds(loc, size)
           wraps == type.enc = "signed" /\ 2 * n >= w
           v == DecodeBase(type, loc, img.state).v
<1>1. size \in Nat \ {0} /\ bytes # <<>> /\ v = IF wraps THEN n - w ELSE n
  <2>1. size # Absent /\ bytes # <<>>
    BY DEF DecodeBase, Leaf, Unreadable
  <2>2. DecodeBase(type, loc, img.state) = Leaf("scalar", IF wraps THEN n - w ELSE n)
    <3> HIDE DEF bytes, n, w
    <3> QED BY <2>1 DEF DecodeBase, bytes, n, w
  <2>3. size \in Nat \ {0}
    BY <2>1 DEF Absent
  <2> HIDE DEF n, w, bytes
  <2> QED BY <2>1, <2>2, <2>3 DEF Leaf
<1> HIDE DEF v
<1>2. /\ Listed(bytes) /\ Len(bytes) = size
      /\ \A i \in DOMAIN bytes : bytes[i] \in 0..(ByteBase - 1)
      /\ held \in Int /\ Alike(held, n, w)
  BY <1>1, RawBytesRead
<1> HIDE DEF bytes
<1>3. n \in 0..(w - 1)
  BY <1>2, ReadFits
<1>4. w \in Nat \ {0}
  BY <1>1, WeightProperties
<1> HIDE DEF n, w, held
<1>5. n \in Int /\ Alike(held, n - w, w)
  BY <1>2, <1>3, <1>4, AlikeRemains
<1>6. (v - held) % w = 0
  <2>1. CASE wraps
    <3>1. n - w \in Int
      BY <1>4, <1>5
    <3>2. ((n - w) - held) % w = 0
      BY <1>2, <1>4, <1>5, <3>1, AlikeRemains
    <3> QED BY <1>1, <2>1, <3>2
  <2>2. CASE ~wraps
    <3>1. (n - held) % w = 0
      BY <1>2, <1>4, <1>5, AlikeRemains
    <3> QED BY <1>1, <2>2, <3>1
  <2> QED BY <2>1, <2>2
<1>7. IF type.enc = "signed" THEN 2 * v \in (-w)..(w - 1) ELSE v \in 0..(w - 1)
  BY <1>1, <1>3, <1>4
<1> QED BY <1>6, <1>7 DEF v, held, w

-----------------------------------------------------------------------------
\* A relation that puts the elements of a set one after another.
Orders(before, S) ==
    /\ \A i \in S : <<i, i>> \notin before
    /\ \A i, j \in S : i # j => <<i, j>> \in before \/ <<j, i>> \in before
    /\ \A i, j, k \in S : <<i, j>> \in before /\ <<j, k>> \in before => <<i, k>> \in before

\* The elements of a finite set in an order are all there, in that order.
LEMMA InOrderLists ==
    ASSUME NEW S, IsFiniteSet(S), NEW before, Orders(before, S)
    PROVE  LET n == Cardinality(S)
               o == Scopes!InOrder(S, before)
           IN  /\ n \in Nat
               /\ o \in [1..n -> S]
               /\ \A i \in S : \E k \in 1..n : o[k] = i
               /\ \A k, l \in 1..n : k < l => <<o[k], o[l]>> \in before
<1> DEFINE Earlier(i) == {j \in S : <<j, i>> \in before}
           n == Cardinality(S)
           rank == [i \in S |-> Cardinality(Earlier(i))]
           o == Scopes!InOrder(S, before)
<1>1. n \in Nat
  BY FS_CardinalityType
<1>2. ASSUME NEW i \in S PROVE IsFiniteSet(Earlier(i)) /\ rank[i] \in 0..(n - 1)
  <2>1. Earlier(i) \subseteq S \ {i}
    BY DEF Orders
  <2>2. IsFiniteSet(S \ {i}) /\ Cardinality(S \ {i}) = n - 1
    BY FS_RemoveElement
  <2>3. IsFiniteSet(Earlier(i)) /\ Cardinality(Earlier(i)) <= n - 1
    <3> HIDE DEF Earlier
    <3> QED BY <2>1, <2>2, FS_Subset
  <2>4. Cardinality(Earlier(i)) \in Nat
    BY <2>3, FS_CardinalityType
  <2> HIDE DEF n, Earlier
  <2> QED BY <1>1, <2>3, <2>4
<1>3. rank \in [S -> 0..(n - 1)]
  BY <1>2
<1>4. ASSUME NEW i \in S, NEW j \in S, <<i, j>> \in before PROVE rank[i] < rank[j]
  <2>1. Earlier(i) \union {i} \subseteq Earlier(j) /\ i \notin Earlier(i)
    BY <1>4 DEF Orders
  <2>2. Cardinality(Earlier(i) \union {i}) = Cardinality(Earlier(i)) + 1
    <3> HIDE DEF Earlier
    <3> QED BY <1>2, <2>1, FS_AddElement
  <2>3. Cardinality(Earlier(i) \union {i}) <= Cardinality(Earlier(j))
    <3> HIDE DEF Earlier
    <3> QED BY <1>2, <2>1, FS_Subset
  <2>4. rank[i] \in Nat /\ rank[j] \in Nat
    <3> HIDE DEF rank, n
    <3> QED BY <1>1, <1>3
  <2> QED BY <2>2, <2>3, <2>4
<1>5. o = [k \in 1..n |-> CHOOSE i \in S : rank[i] = k - 1]
  BY DEF Scopes!InOrder, Scopes!Cardinality, Cardinality, Scopes!IsFiniteSet, IsFiniteSet
<1> HIDE DEF Earlier
<1> HIDE DEF rank
<1>6. \A i, j \in S : rank[i] = rank[j] => i = j
  <2> SUFFICES ASSUME NEW i \in S, NEW j \in S, rank[i] = rank[j], i # j PROVE FALSE
    OBVIOUS
  <2>1. rank[i] < rank[j] \/ rank[j] < rank[i]
    BY <1>4 DEF Orders
  <2> QED BY <1>1, <1>3, <2>1
<1>7. \A k \in 0..(n - 1) : \E i \in S : rank[i] = k
  <2>1. rank \in Injection(S, 0..(n - 1))
    BY <1>3, <1>6 DEF Injection, IsInjective
  <2>2. IsFiniteSet(0..(n - 1)) /\ Cardinality(0..(n - 1)) = n
    BY <1>1, FS_Interval
  <2>3. rank \in Surjection(S, 0..(n - 1))
    BY <2>1, <2>2, FS_Injection
  <2> QED BY <2>3 DEF Surjection
<1>8. ASSUME NEW k \in 1..n PROVE o[k] \in S /\ rank[o[k]] = k - 1
  <2>1. k - 1 \in 0..(n - 1)
    BY <1>1
  <2>2. \E i \in S : rank[i] = k - 1
    BY <1>7, <2>1
  <2> QED BY <1>5, <2>2
<1>9. o \in [1..n -> S]
  BY <1>5, <1>8
<1> HIDE DEF o, n
<1>10. ASSUME NEW i \in S PROVE \E k \in 1..n : o[k] = i
  <2>1. PICK k \in 1..n : k - 1 = rank[i]
    <3>1. rank[i] \in 0..(n - 1)
      BY <1>3
    <3>2. rank[i] + 1 \in 1..n /\ (rank[i] + 1) - 1 = rank[i]
      BY <1>1, <3>1
    <3> QED BY <3>2
  <2> QED BY <1>6, <1>8, <2>1
<1>11. ASSUME NEW k \in 1..n, NEW l \in 1..n, k < l PROVE <<o[k], o[l]>> \in before
  <2>1. o[k] \in S /\ o[l] \in S /\ rank[o[k]] = k - 1 /\ rank[o[l]] = l - 1
    BY <1>8
  <2>2. o[k] # o[l]
    BY <1>1, <1>11, <2>1
  <2>3. <<o[l], o[k]>> \notin before
    <3> SUFFICES ASSUME <<o[l], o[k]>> \in before PROVE FALSE
      OBVIOUS
    <3>1. rank[o[l]] < rank[o[k]]
      BY <1>4, <2>1
    <3> QED BY <1>1, <1>11, <2>1, <3>1
  <2> QED BY <2>1, <2>2, <2>3 DEF Orders
<1> QED BY <1>1, <1>9, <1>10, <1>11 DEF o, n

\* Entries in the order of the section.
LEMMA SectionLists ==
    ASSUME NEW n \in Nat, NEW S, S \subseteq 1..n
    PROVE  LET m == Cardinality(S)
               o == Scopes!InSection(S)
           IN  /\ m \in Nat
               /\ o \in [1..m -> S] /\ o \in Seq(S) /\ Len(o) = m
               /\ \A i \in S : \E k \in 1..m : o[k] = i
               /\ \A k, l \in 1..m : k < l => o[k] < o[l]
<1> DEFINE before == {p \in S \X S : p[1] < p[2]}
           m == Cardinality(S)
           o == Scopes!InSection(S)
<1>1. IsFiniteSet(S)
  <2>1. IsFiniteSet(1..n)
    BY FS_Interval
  <2> QED BY <2>1, FS_Subset
<1>2. Orders(before, S)
  <2>1. \A i \in S : i \in Int
    OBVIOUS
  <2> QED BY <2>1 DEF Orders
<1>3. o = Scopes!InOrder(S, before)
  BY DEF Scopes!InSection
<1>4. \A i, j : <<i, j>> \in before => i < j
  OBVIOUS
<1> HIDE DEF before, o
<1>5. /\ m \in Nat /\ o \in [1..m -> S]
      /\ \A i \in S : \E k \in 1..m : o[k] = i
      /\ \A k, l \in 1..m : k < l => <<o[k], o[l]>> \in before
  BY <1>1, <1>2, <1>3, InOrderLists
<1>6. o \in Seq(S) /\ Len(o) = m
  BY <1>5, SeqDef, LenProperties
<1> QED BY <1>4, <1>5, <1>6 DEF o

\* The declarations that Declared lists.
DeclaredIn(unit, scope, open) ==
    {i \in Scopes!Reached(unit.info, scope, open) : unit.info[i].tag \in {"param", "variable"} /\ Scopes!Shown(unit.info[i])}

\* What is listed of a scope is its declarations.
LEMMA DeclaredLists ==
    ASSUME NEW unit, Listed(unit.info), NEW fn, NEW scope, NEW open
    PROVE  LET vars1 == Scopes!Declared(unit, fn, scope, open)
               S == DeclaredIn(unit, scope, open)
           IN  /\ S \subseteq DOMAIN unit.info
               /\ \A k \in DOMAIN vars1 : \E i \in S : vars1[k] = Scopes!ToScopeVar(unit, fn, i)
               /\ \A i \in S : \E k \in DOMAIN vars1 : vars1[k] = Scopes!ToScopeVar(unit, fn, i)
<1> DEFINE V == Scopes!Declared(unit, fn, scope, open)
           S == DeclaredIn(unit, scope, open)
           o == Scopes!InSection(S)
           m == Cardinality(S)
<1>1. Len(unit.info) \in Nat /\ S \subseteq 1..Len(unit.info) /\ S \subseteq DOMAIN unit.info
  BY DEF Listed, DeclaredIn, Scopes!Reached
<1>2. V = [k \in DOMAIN o |-> Scopes!ToScopeVar(unit, fn, o[k])]
  BY DEF Scopes!Declared, DeclaredIn
<1> HIDE DEF S
<1>3. o \in [1..m -> S] /\ \A i \in S : \E k \in 1..m : o[k] = i
  BY <1>1, SectionLists
<1> HIDE DEF V, o, m
<1>4. \A k \in DOMAIN V : o[k] \in S /\ V[k] = Scopes!ToScopeVar(unit, fn, o[k])
  BY <1>2, <1>3
<1>5. \A i \in S : \E k \in DOMAIN V : V[k] = Scopes!ToScopeVar(unit, fn, i)
  BY <1>2, <1>3
<1> QED BY <1>1, <1>4, <1>5 DEF V, S

\* The inlined calls that are frames in a function.
CallsIn(unit, fn, offset) ==
    Scopes!OpenCalls(unit, offset)
        \cap Scopes!Reached(unit.info, fn, Scopes!OpenBlocks(unit, offset) \cup Scopes!OpenCalls(unit, offset))

\* The frames at an offset are the function and its calls, in the order of the section.
LEMMA FramesList ==
    ASSUME Listed(img.unit.info), NEW offset
    PROVE  LET unit == img.unit
               fn == Scopes!RecordAt(unit, offset)
               calls == CallsIn(unit, fn, offset)
               n == Cardinality(calls)
               o == Scopes!InSection(calls)
               shown == FramesAt(offset)
           IN  IF fn = 0 THEN shown = <<>>
               ELSE /\ n \in Nat /\ calls \subseteq DOMAIN unit.info
                    /\ o \in [1..n -> calls]
                    /\ \A i \in calls : \E k \in 1..n : o[k] = i
                    /\ \A k, l \in 1..n : k < l => o[k] < o[l]
                    /\ DOMAIN shown = 1..(n + 1)
                    /\ /\ shown[1].die = fn
                       /\ shown[1].name = Scopes!QualifiedName(unit.info, fn)
                       /\ shown[1].variables = Scopes!Collect(unit, fn, fn, offset)
                    /\ \A k \in 1..n : /\ shown[k + 1].die = o[k]
                                       /\ shown[k + 1].name = Scopes!ResolvedName(unit.info, o[k])
                                       /\ shown[k + 1].variables = Scopes!Collect(unit, fn, o[k], offset)
<1> DEFINE unit == img.unit
           fn == Scopes!RecordAt(unit, offset)
           calls == CallsIn(unit, fn, offset)
           n == Cardinality(calls)
           o == Scopes!InSection(calls)
           inlined == Scopes!InlineScopesAt(unit, offset)
           head == FunctionFrame(fn, offset)
           tail == InlineFrames(inlined)
           shown == FramesAt(offset)
<1>1. shown = head \o tail
  BY DEF FramesAt
<1>2. CASE fn = 0
  <2>1. head = <<>> /\ inlined = <<>>
    BY <1>2 DEF FunctionFrame, Scopes!InlineScopesAt
  <2>2. tail = <<>>
    BY <2>1 DEF InlineFrames
  <2>3. shown = <<>>
    BY <1>1, <2>1, <2>2
  <2> QED BY <1>2, <2>3
<1>3. CASE fn # 0
  <2>1. Len(unit.info) \in Nat /\ calls \subseteq 1..Len(unit.info) /\ calls \subseteq DOMAIN unit.info
    BY DEF Listed, CallsIn, Scopes!Reached
  <2>2. inlined = [k \in DOMAIN o |-> Scopes!ToInlineScope(unit, fn, o[k], offset)]
    BY <1>3 DEF Scopes!InlineScopesAt, Scopes!CollectInlines, CallsIn
  <2>3. head = <<[die |-> fn, name |-> Scopes!QualifiedName(unit.info, fn), callSite |-> NoEntry,
                  variables |-> Scopes!Collect(unit, fn, fn, offset)]>>
    BY <1>3 DEF FunctionFrame, Scopes!VariablesInScope
  <2> HIDE DEF fn, calls
  <2>4. /\ n \in Nat /\ o \in [1..n -> calls]
        /\ \A i \in calls : \E k \in 1..n : o[k] = i
        /\ \A k, l \in 1..n : k < l => o[k] < o[l]
    BY <2>1, SectionLists
  <2> HIDE DEF o, n, inlined, shown, head
  <2>5. tail = [k \in 1..n |->
                [die |-> inlined[k].die, name |-> inlined[k].name, callSite |-> CallSite(inlined[k]),
                 variables |-> inlined[k].variables]]
    BY <2>2, <2>4 DEF InlineFrames
  <2> HIDE DEF tail
  <2>6. \A k \in 1..n : /\ inlined[k].die = o[k] /\ inlined[k].name = Scopes!ResolvedName(unit.info, o[k])
                        /\ inlined[k].variables = Scopes!Collect(unit, fn, o[k], offset)
    BY <2>2, <2>4 DEF Scopes!ToInlineScope
  <2>7. \E T : head \in Seq(T) /\ tail \in Seq(T)
    <3> DEFINE T == {head[1]} \cup {tail[k] : k \in 1..n}
    <3>1. head \in Seq(T)
      BY <2>3
    <3>2. tail \in [1..n -> T]
      BY <2>5
    <3> HIDE DEF T
    <3>3. tail \in Seq(T)
      BY <2>4, <3>2, SeqDef, Zenon
    <3> QED BY <3>1, <3>3
  <2>8. Len(head) = 1 /\ Len(tail) = n /\ head[1] = [die |-> fn, name |-> Scopes!QualifiedName(unit.info, fn), callSite |-> NoEntry,
                  variables |-> Scopes!Collect(unit, fn, fn, offset)]
    BY <2>3, <2>4, <2>5, <2>7, LenProperties
  <2>9. /\ DOMAIN shown = 1..(n + 1)
        /\ shown[1] = head[1]
        /\ \A k \in 1..n : shown[k + 1] = tail[k]
    <3>1. PICK T : head \in Seq(T) /\ tail \in Seq(T)
      BY <2>7
    <3>2. /\ head \o tail \in Seq(T) /\ Len(head \o tail) = 1 + n
          /\ \A i \in 1..(1 + n) : (head \o tail)[i] = IF i <= 1 THEN head[i] ELSE tail[i - 1]
      <4>1. /\ head \o tail \in Seq(T) /\ Len(head \o tail) = Len(head) + Len(tail)
            /\ \A i \in 1..(Len(head) + Len(tail)) : (head \o tail)[i] = IF i <= Len(head) THEN head[i] ELSE tail[i - Len(head)]
        BY <3>1, ConcatProperties
      <4> QED BY <2>8, <4>1
    <3>3. DOMAIN shown = 1..(n + 1)
      BY <1>1, <2>4, <3>2, LenProperties
    <3>4. \A k \in 1..n : k + 1 \in 1..(1 + n) /\ ~(k + 1 <= 1) /\ (k + 1) - 1 = k
      BY <2>4
    <3>5. 1 \in 1..(1 + n)
      BY <2>4
    <3> QED BY <1>1, <3>2, <3>3, <3>4, <3>5
  <2>10. /\ shown[1].die = fn
         /\ shown[1].name = Scopes!QualifiedName(unit.info, fn)
         /\ shown[1].variables = Scopes!Collect(unit, fn, fn, offset)
    BY <2>8, <2>9
  <2>11. ASSUME NEW k \in 1..n
         PROVE  /\ shown[k + 1].die = o[k]
                /\ shown[k + 1].name = Scopes!ResolvedName(unit.info, o[k])
                /\ shown[k + 1].variables = Scopes!Collect(unit, fn, o[k], offset)
    BY <2>5, <2>6, <2>9
  <2>12. fn # 0
    BY <1>3 DEF fn
  <2> QED BY <2>1, <2>4, <2>9, <2>10, <2>11, <2>12 DEF fn, calls, n, o, shown
<1> QED BY <1>2, <1>3

-----------------------------------------------------------------------------
\* The slots an expression names, and the states its evaluation goes through.
SlotsOf(expr) == {<<>>} \cup {<<[kind |-> SlotKind(expr[k].k), n |-> expr[k].n]>> : k \in {j \in DOMAIN expr : expr[j].k \in 0..3}}
Evaluations(expr) ==
    [stack : Seq(Int), pending : SlotsOf(expr), isValue : BOOLEAN, out : {<<>>, <<Unavailable>>}]

\* One operation leads from such a state to another.
LEMMA EvalOpTyped ==
    ASSUME NEW expr, Operands(expr), NEW st \in Evaluations(expr), NEW k \in DOMAIN expr,
           NEW base, base # <<>> => base[1] \in Int
    PROVE  EvalOp(base, st, expr[k]) \in Evaluations(expr)
<1> DEFINE op == expr[k]
           T == Evaluations(expr)
           stack == st.stack
<1>1. /\ stack \in Seq(Int) /\ st.pending \in SlotsOf(expr) /\ st.isValue \in BOOLEAN /\ st.out \in {<<>>, <<Unavailable>>}
      /\ st = [stack |-> stack, pending |-> st.pending, isValue |-> st.isValue, out |-> st.out]
  BY DEF Evaluations
<1>2. \A s \in Seq(Int) : [st EXCEPT !.stack = s] \in T
  BY <1>1 DEF Evaluations
<1>3. [st EXCEPT !.out = <<Unavailable>>] \in T
  BY <1>1 DEF Evaluations
<1>4. [st EXCEPT !.isValue = TRUE] \in T
  BY <1>1 DEF Evaluations
<1>5. op.k \in 0..3 => [st EXCEPT !.pending = <<[kind |-> SlotKind(op.k), n |-> op.n]>>] \in T
  <2> SUFFICES ASSUME op.k \in 0..3 PROVE [st EXCEPT !.pending = <<[kind |-> SlotKind(op.k), n |-> op.n]>>] \in T
    OBVIOUS
  <2> DEFINE p == <<[kind |-> SlotKind(op.k), n |-> op.n]>>
  <2>1. p \in SlotsOf(expr)
    BY DEF SlotsOf
  <2> HIDE DEF p
  <2>2. [st EXCEPT !.pending = p] \in T
    BY <1>1, <2>1 DEF Evaluations
  <2> QED BY <2>2 DEF p
<1>6. op.op \in {"addr", "plus_uconst", "fbreg"} => op.n \in Int
  BY DEF Operands
<1> DEFINE result == EvalOp(base, st, op)
<1>7. \/ result = st
      \/ result = [st EXCEPT !.out = <<Unavailable>>]
      \/ op.op = "addr" /\ result = [st EXCEPT !.stack = Append(stack, op.n)]
      \/ op.op = "plus_uconst" /\ stack # <<>> /\ result = [st EXCEPT !.stack = Append(Front(stack), Last(stack) + op.n)]
      \/ op.op = "fbreg" /\ base # <<>> /\ result = [st EXCEPT !.stack = Append(stack, base[1] + op.n)]
      \/ result = [st EXCEPT !.isValue = TRUE]
      \/ op.k \in 0..3 /\ result = [st EXCEPT !.pending = <<[kind |-> SlotKind(op.k), n |-> op.n]>>]
  <2> HIDE DEF op
  <2> QED BY Zenon DEF EvalOp
<1> HIDE DEF result, T, op
<1>8. \A n \in Int : Append(stack, n) \in Seq(Int)
  BY <1>1, AppendProperties
<1>9. stack # <<>> => Last(stack) \in Int /\ Front(stack) \in Seq(Int)
  BY <1>1, FrontProperties
<1>10. \A s \in Seq(Int) : \A n \in Int : Append(s, n) \in Seq(Int)
  BY AppendProperties
<1> HIDE DEF stack
<1>11. ASSUME op.op = "plus_uconst" /\ stack # <<>> /\ result = [st EXCEPT !.stack = Append(Front(stack), Last(stack) + op.n)]
      PROVE  result \in T
  <2>1. Last(stack) + op.n \in Int
    BY <1>6, <1>9, <1>11
  <2> QED BY <1>2, <1>9, <1>10, <1>11, <2>1
<1>12. ASSUME op.op = "fbreg" /\ base # <<>> /\ result = [st EXCEPT !.stack = Append(stack, base[1] + op.n)]
      PROVE  result \in T
  <2>1. base[1] + op.n \in Int
    BY <1>6, <1>12
  <2> QED BY <1>2, <1>8, <1>12, <2>1
<1>13. ASSUME op.op = "addr" /\ result = [st EXCEPT !.stack = Append(stack, op.n)]
      PROVE  result \in T
  BY <1>2, <1>6, <1>8, <1>13
<1>14. st \in T
  BY DEF T
<1>15. result \in T
  BY <1>3, <1>4, <1>5, <1>7, <1>11, <1>12, <1>13, <1>14
<1> QED BY <1>15 DEF result, op, T

\* The states of an evaluation, one per operation.
Evaluating(expr, base) ==
    LET start == [stack |-> <<>>, pending |-> <<>>, isValue |-> FALSE, out |-> <<>>]
        After[i \in 0..Len(expr)] == IF i = 0 THEN start ELSE LET st == After[i - 1] IN EvalOp(base, st, expr[i])
    IN  After

\* An expression evaluates to nothing, to a slot, or to a number as an address or a value.
LEMMA EvaluateLocates ==
    ASSUME NEW expr, Operands(expr), NEW base, base # <<>> => base[1] \in Int, NEW state
    PROVE  LET loc == Evaluate(expr, base, state)
           IN  loc.kind \notin Registers \cup {"unavailable"} => loc.n \in Int
<1> DEFINE n == Len(expr)
           T == Evaluations(expr)
           start == [stack |-> <<>>, pending |-> <<>>, isValue |-> FALSE, out |-> <<>>]
           Op(st, i) == EvalOp(base, st, expr[i])
           step == [x \in (1..n) \X T |-> Op(x[2], x[1])]
<1>1. n \in Nat /\ DOMAIN expr = 1..n
  BY DEF Operands, Listed
<1>2. start \in T
  BY DEF Evaluations, SlotsOf
<1>3. \A st \in T : \A i \in 1..n : Op(st, i) \in T
  BY <1>1, EvalOpTyped
<1> HIDE DEF Op, start
<1>4. step \in [(1..n) \X T -> T]
  <2> HIDE DEF T
  <2> QED BY <1>3
<1> HIDE DEF step
<1>5. PICK f \in [0..n -> T] : IsRecursion(f, n, start, step)
  <2> HIDE DEF T
  <2> QED BY <1>1, <1>2, <1>4, RecursionExists
<1>6. f = [i \in 0..n |-> IF i = 0 THEN start ELSE Op(f[i - 1], i)]
  <2> HIDE DEF T
  <2>1. \A i \in 1..n : f[i - 1] \in T /\ <<i, f[i - 1]>> \in (1..n) \X T
    BY <1>1
  <2>2. \A i \in 1..n : f[i] = Op(f[i - 1], i)
    BY <1>5, <2>1 DEF IsRecursion, step
  <2> QED BY <1>1, <1>5, <2>2 DEF IsRecursion
<1>7. \E g : g = [i \in 0..n |-> IF i = 0 THEN start ELSE Op(g[i - 1], i)]
  BY <1>6
<1>8. Evaluating(expr, base) = [i \in 0..n |-> IF i = 0 THEN start ELSE Op(Evaluating(expr, base)[i - 1], i)]
  BY <1>7, Zenon DEF Evaluating, start, Op
<1> DEFINE g == Evaluating(expr, base)
           J == {i \in 0..n : g[i] \in T}
           end == g[n]
           loc == Evaluate(expr, base, state)
<1> HIDE DEF g, T
<1>9. g[0] = start /\ \A i \in 1..n : g[i] = Op(g[i - 1], i)
  BY <1>1, <1>8 DEF g
<1>10. 0 \in J /\ \A i \in 1..n : i - 1 \in J => i \in J
  BY <1>1, <1>2, <1>3, <1>9
<1>11. 0..n \subseteq J
  <2> HIDE DEF J
  <2> QED BY <1>1, <1>10, Upwards
<1>12. end \in T
  BY <1>1, <1>11
<1>13. loc = IF end.out # <<>> THEN end.out[1]
             ELSE IF end.stack # <<>> THEN [kind |-> IF end.isValue THEN "value" ELSE "memory", n |-> Last(end.stack)]
             ELSE IF end.pending # <<>> THEN end.pending[1]
             ELSE Unavailable
  BY DEF Evaluate, Evaluating, g
<1> HIDE DEF end, loc
<1>14. end.stack \in Seq(Int) /\ end.pending \in SlotsOf(expr) /\ end.out \in {<<>>, <<Unavailable>>}
  BY <1>12 DEF T, Evaluations
<1>15. \A k \in 0..3 : SlotKind(k) \in Registers
  BY DEF SlotKind, Registers
<1>16. end.stack # <<>> => Last(end.stack) \in Int
  BY <1>14, FrontProperties
<1>17. end.pending # <<>> => end.pending[1].kind \in Registers
  BY <1>14, <1>15 DEF SlotsOf
<1>18. Unavailable.kind = "unavailable" /\ (end.out # <<>> => end.out[1] = Unavailable)
  BY <1>14 DEF Unavailable
<1>19. loc.kind \notin Registers \cup {"unavailable"} => loc.n \in Int
  BY <1>13, <1>16, <1>17, <1>18
<1> QED BY <1>19 DEF loc

\* A list gives nothing or the expression of one of its entries.
LEMMA ListSelects ==
    ASSUME NEW list, Listed(list), NEW offset, NEW low, SelectLocation(list, offset, low) # NoExpr
    PROVE  \E k \in DOMAIN list : SelectLocation(list, offset, low) = list[k].expr
<1>1. PICK covering : /\ covering \subseteq DOMAIN list
                      /\ SelectLocation(list, offset, low) = IF covering = {} THEN NoExpr ELSE list[Min(covering)].expr
  BY DEF SelectLocation
<1>2. covering # {} /\ covering \subseteq Nat
  BY <1>1 DEF Listed
<1>3. Min(covering) \in covering
  BY <1>2, MinIsLeast
<1> QED BY <1>1, <1>2, <1>3

\* A location is a slot, a number or none.
Located(loc) == loc.kind \notin Registers \cup {"unavailable"} => loc.n \in Int

\* Whether the location of a variable is in its entry or in a list, it is one.
LEMMA VariableLocates ==
    ASSUME Readable(img), ExactSlots(img), NEW v, NEW i \in DOMAIN img.unit.info, v.loc = img.unit.info[i].loc
    PROVE  Located(VariableLocation(v))
<1> DEFINE expr == VariableExpr(v)
           base == RegisterValue(Evaluate(v.frameBase, <<>>, img.state), img.state)
<1>1. CASE expr = NoExpr
  BY <1>1 DEF VariableLocation, LocationOf, Located, Unavailable
<1>2. CASE expr # NoExpr
  <2>1. Operands(expr)
    <3>1. CASE v.loc.form = "expr"
      BY <3>1 DEF VariableExpr, Readable
    <3>2. CASE v.loc.form # "expr"
      <4> DEFINE list == img.lists[v.loc.at]
                 selected == SelectLocation(list, pc, img.unit.low)
      <4>1. v.loc.form = "list" /\ v.loc.at \in DOMAIN img.lists /\ expr = selected
        <5> HIDE DEF selected, list
        <5>1. expr = CASE v.loc.form = "expr" -> v.loc.expr
                       [] v.loc.form = "list" /\ v.loc.at \in DOMAIN img.lists -> selected
                       [] OTHER -> NoExpr
          BY DEF VariableExpr, selected, list
        <5> HIDE DEF expr
        <5> QED BY <1>2, <3>2, <5>1
      <4>2. Listed(list) /\ \A k \in DOMAIN list : Operands(list[k].expr)
        BY <4>1 DEF Readable
      <4> HIDE DEF list
      <4>3. PICK k \in DOMAIN list : selected = list[k].expr
        BY <1>2, <4>1, <4>2, ListSelects
      <4> HIDE DEF selected, expr
      <4> QED BY <4>1, <4>2, <4>3
    <3> QED BY <3>1, <3>2
  <2>2. base # <<>> => base[1] \in Int
    <3> SUFFICES ASSUME base # <<>> PROVE base[1] \in Int
      OBVIOUS
    <3> DEFINE loc == Evaluate(v.frameBase, <<>>, img.state)
               n == img.state.slots[loc.kind][loc.n].v
    <3>1. RegisterValue(loc, img.state) = <<n>> /\ n \in Int
      <4> HIDE DEF loc
      <4> QED BY SlotReads DEF loc
    <3> HIDE DEF loc, n
    <3> QED BY <3>1 DEF loc
  <2>3. VariableLocation(v) = Evaluate(expr, base, img.state)
    BY <1>2 DEF VariableLocation, LocationOf, EvalLocation
  <2> HIDE DEF expr, base
  <2> QED BY <2>1, <2>2, <2>3, EvaluateLocates DEF Located
<1> QED BY <1>1, <1>2

\* What a value is decoded as is what some reference resolves to.
LEMMA UnwrapResolves ==
    ASSUME NEW dies, NEW ref, NEW loc
    PROVE  \E r : Unwrap(dies, ref, loc) = Resolve(dies, r)
BY DEF Unwrap, StripTypedefs

\* What an entry resolves to has the width and the count that the entry says, the
\* width of an address where a pointer says none.
LEMMA ResolvedSized ==
    ASSUME NEW image, Readable(image), NEW r
    PROVE  LET type == Resolve(image.dies, r)
           IN  /\ type.kind # "unresolved" => r \in DOMAIN image.dies
               /\ type.kind \in {"base", "pointer", "enum", "struct", "union", "rustEnum"} => type.size \in Nat \cup {Absent}
               /\ type.kind = "base" => type.size # 0
               /\ type.kind = "pointer" => type.size \in Nat
               /\ type.kind = "array" => type.count \in Int
<1> DEFINE die == image.dies[r]
           type == Resolve(image.dies, r)
           part == KidsOf(die, "variant_part")
<1>1. CASE r \notin DOMAIN image.dies
  BY <1>1 DEF Resolve, Unresolved
<1>2. CASE r \in DOMAIN image.dies
  <2>1. die.size \in Nat \cup {Absent} /\ ArrayCount(die) \in Int
    BY <1>2 DEF Readable
  <2>2. type = CASE die.tag = "base" ->
                    [kind |-> "base", enc |-> die.enc, size |-> IF die.size = 0 THEN Absent ELSE die.size]
               [] die.tag = "pointer" ->
                    [kind |-> "pointer", target |-> die.type, size |-> IF die.size = Absent THEN AddressSize ELSE die.size]
               [] die.tag = "struct" /\ part # <<>> -> RustEnum(image.dies, die, part[1])
               [] die.tag \in {"struct", "union"} /\ (part = <<>> \/ die.tag = "union") ->
                    [kind |-> die.tag, name |-> die.name, size |-> die.size, members |-> Members(die)]
               [] die.tag = "array" -> [kind |-> "array", elem |-> die.type, count |-> ArrayCount(die)]
               [] die.tag = "enum" ->
                    [kind |-> "enum", size |-> die.size]
               [] die.tag \in Wrappers -> [kind |-> "alias", target |-> die.type]
               [] OTHER -> Unresolved
    BY <1>2 DEF Resolve
  <2>3. Unresolved.kind = "unresolved"
    BY DEF Unresolved
  <2>4. \A d, p : RustEnum(image.dies, d, p).kind = "rustEnum" /\ RustEnum(image.dies, d, p).size = d.size
    BY DEF RustEnum
  <2> DEFINE size == die.size
             count == ArrayCount(die)
             tag == die.tag
  <2>5. size \in Nat \cup {Absent} /\ count \in Int
    BY <2>1
  <2>6. \/ type.kind = "base" /\ type.size = (IF size = 0 THEN Absent ELSE size)
        \/ type.kind = "pointer" /\ type.size = (IF size = Absent THEN AddressSize ELSE size)
        \/ type.kind \in {"rustEnum", "struct", "union", "enum"} /\ type.size = size
        \/ type.kind = "array" /\ type.count = count
        \/ type.kind \in {"alias", "unresolved"}
    <3> HIDE DEF type, die, part
    <3> QED BY <2>2, <2>3, <2>4 DEF Wrappers, size, count
  <2> HIDE DEF type, size, count
  <2>7. /\ type.kind \in {"base", "pointer", "enum", "struct", "union", "rustEnum"} => type.size \in Nat \cup {Absent}
        /\ type.kind = "base" => type.size # 0
        /\ type.kind = "pointer" => type.size \in Nat
        /\ type.kind = "array" => type.count \in Int
    BY <2>5, <2>6, ByteAssumption DEF Absent
  <2> QED BY <1>2, <2>7 DEF type
<1> QED BY <1>1, <1>2

\* A decoded base type is exact.
LEMMA DecodedExact ==
    ASSUME Readable(img), ExactSlots(img), NEW ctx, node.loc.kind = "value" => node.loc.n \in Int,
           node.shown = Decode(img.dies, node.loc, node.ref, img.state, ctx)
    PROVE  ScalarExact
<1> DEFINE type == Unwrap(img.dies, node.ref, node.loc)
           range == Weight(type.size)
<1> SUFFICES ASSUME node.shown.what = "scalar", type.kind = "base", type.enc # "boolean"
             PROVE  /\ (node.shown.v - Holds(node.loc, type.size)) % range = 0
                    /\ IF type.enc = "signed" THEN 2 * node.shown.v \in (-range)..(range - 1)
                       ELSE node.shown.v \in 0..(range - 1)
  BY DEF ScalarExact
<1>1. node.shown = DecodeAs(img.dies, type, node.loc, img.state, ctx)
  <2> DEFINE none == Leaf("optimized out", 0)
             cut == Leaf("elided", 0)
             as == DecodeAs(img.dies, type, node.loc, img.state, ctx)
  <2>1. node.shown = IF node.loc.kind = "unavailable" THEN none ELSE IF ctx.depth > MaxDepth THEN cut ELSE as
    BY DEF Decode
  <2>2. none.what # "scalar" /\ cut.what # "scalar"
    BY DEF Leaf
  <2> HIDE DEF none, cut, as
  <2>3. node.shown = as
    BY <2>1, <2>2
  <2> QED BY <2>3 DEF as
<1>2. type.size \in Nat \cup {Absent} /\ type.size # 0
  <2>1. PICK r : type = Resolve(img.dies, r)
    BY UnwrapResolves
  <2> QED BY <2>1, ResolvedSized
<1> HIDE DEF type
<1>3. node.shown = DecodeBase(type, node.loc, img.state)
  BY <1>1 DEF DecodeAs
<1> QED BY <1>2, <1>3, BaseExact

-----------------------------------------------------------------------------
\* The width an element is given is its size where it has one.
LEMMA WidthSized ==
    ASSUME NEW image, Readable(image), NEW ref
    PROVE  /\ ByteSizeOf(image.dies, ref) \in Nat
           /\ Sized(image.dies, ref) => SizeOf(image.dies, ref) = ByteSizeOf(image.dies, ref)
<1> DEFINE type == StripTypedefs(image.dies, ref)
           width == IF type.kind \in {"base", "pointer", "enum", "struct", "union", "rustEnum"} /\ type.size \notin {0, Absent}
                    THEN type.size ELSE AddressSize
<1>1. ByteSizeOf(image.dies, ref) = width
  BY DEF ByteSizeOf
<1>2. type.kind \in {"base", "pointer", "enum", "struct", "union", "rustEnum"} => type.size \in Nat \cup {Absent}
  BY ResolvedSized DEF StripTypedefs
<1>3. Sized(image.dies, ref) => /\ type.kind \in {"base", "pointer", "enum", "struct", "union", "rustEnum"}
                                /\ type.size \in Nat \ {0} /\ SizeOf(image.dies, ref) = type.size
  BY DEF Sized, SizeOf
<1> HIDE DEF type
<1>4. width \in Nat
  BY <1>2, ByteAssumption DEF Absent
<1>5. type.size \in Nat \ {0} => type.size \notin {0, Absent}
  BY DEF Absent
<1> QED BY <1>1, <1>3, <1>4, <1>5

\* An integer read from memory is one.
LEMMA IntRead ==
    ASSUME NEW image, Readable(image), NEW addr, NEW size \in Int
    PROVE  IntAt(image.state, addr, size) \in Int
<1> DEFINE bytes == ReadMemory(image.state, addr, size)
<1>1. CASE bytes = <<>>
  BY <1>1 DEF IntAt, Absent
<1>2. CASE bytes # <<>>
  <2>1. Listed(bytes) /\ Len(bytes) = size /\ \A i \in DOMAIN bytes : bytes[i] \in 0..(ByteBase - 1)
    BY <1>2, MemoryReads
  <2> HIDE DEF bytes
  <2>2. ReadUnsignedLE(bytes) \in Int
    BY <2>1, ReadFits
  <2> QED BY <1>2, <2>2 DEF IntAt, bytes
<1> QED BY <1>1, <1>2

\* Children that follow one another from a start in steps of the width of their type.
Follow(dies, kids, start, elem, ctx) ==
    \A k \in DOMAIN kids : kids[k] # Elided =>
        /\ k \in Nat \ {0}
        /\ kids[k] = Child(start + (k - 1) * ByteSizeOf(dies, elem), elem, ctx)
        /\ k > 1 => k - 1 \in DOMAIN kids /\ kids[k - 1] # Elided

\* A child is not the mark that more exist.
LEMMA ChildShown ==
    ASSUME NEW addr, NEW ref, NEW ctx
    PROVE  Child(addr, ref, ctx) # Elided
<1>1. Child(addr, ref, ctx).loc.kind = "memory" /\ Elided.loc.kind = "elided"
  BY DEF Child, At, Elided
<1> QED BY <1>1

\* What is shown of the first so many children is one of them.
LEMMA CappedShows ==
    ASSUME NEW count \in Int, NEW child, NEW k \in DOMAIN CappedChildren(count, child),
           CappedChildren(count, child)[k] # Elided
    PROVE  /\ k \in 1..count /\ k <= MaxChildren /\ CappedChildren(count, child)[k] = child[k]
           /\ \A j \in 1..k : /\ j \in DOMAIN CappedChildren(count, child)
                              /\ CappedChildren(count, child)[j] = child[j]
<1> DEFINE n == IF count > MaxChildren THEN MaxChildren + 1 ELSE count
           kids == CappedChildren(count, child)
<1>1. kids = [i \in 1..n |-> IF i > MaxChildren THEN Elided ELSE child[i]]
  BY DEF CappedChildren
<1>2. n \in Int /\ MaxChildren \in Nat /\ (n > MaxChildren => n = MaxChildren + 1) /\ (n <= MaxChildren => n = count)
  BY BudgetAssumption
<1>3. count > MaxChildren \/ n = count
  OBVIOUS
<1> HIDE DEF n, kids
<1>4. k \in 1..n /\ kids[k] = IF k > MaxChildren THEN Elided ELSE child[k]
  BY <1>1 DEF kids
<1>5. k <= MaxChildren /\ k \in 1..count
  BY <1>2, <1>3, <1>4 DEF kids
<1>6. \A j \in 1..k : j \in DOMAIN kids /\ kids[j] = child[j]
  BY <1>1, <1>2, <1>4, <1>5
<1> QED BY <1>4, <1>5, <1>6 DEF kids

LEMMA CappedRows ==
    ASSUME NEW dies, NEW count \in Int, NEW start, NEW elem, NEW ctx
    PROVE  Follow(dies, CappedChildren(count, [i \in Nat \ {0} |->
                        Child(start + (i - 1) * ByteSizeOf(dies, elem), elem, ctx)]), start, elem, ctx)
<1> DEFINE width == ByteSizeOf(dies, elem)
           kid(i) == Child(start + (i - 1) * width, elem, ctx)
           child == [i \in Nat \ {0} |-> kid(i)]
           kids == CappedChildren(count, child)
<1>1. SUFFICES ASSUME NEW k \in DOMAIN kids, kids[k] # Elided
               PROVE  /\ k \in Nat \ {0} /\ kids[k] = kid(k)
                      /\ k > 1 => k - 1 \in DOMAIN kids /\ kids[k - 1] # Elided
  BY DEF Follow
<1>2. \A i : kid(i) # Elided
  BY ChildShown
<1>3. \A i \in Nat \ {0} : child[i] = kid(i)
  OBVIOUS
<1> HIDE DEF child, kid, width
<1>4. k \in 1..count /\ kids[k] = child[k] /\ \A j \in 1..k : j \in DOMAIN kids /\ kids[j] = child[j]
  BY <1>1, CappedShows
<1> HIDE DEF kids
<1>5. k \in Nat \ {0} /\ (k > 1 => k - 1 \in 1..k /\ k - 1 \in Nat \ {0})
  BY <1>4
<1> QED BY <1>2, <1>3, <1>4, <1>5

\* The addresses of such children.
LEMMA RowsStep ==
    ASSUME NEW dies, NEW kids, NEW start \in Int, NEW elem, ByteSizeOf(dies, elem) \in Nat, NEW ctx,
           Follow(dies, kids, start, elem, ctx), NEW k \in Int, k \in DOMAIN kids, kids[k] # Elided
    PROVE  LET width == ByteSizeOf(dies, elem)
           IN  /\ kids[k].loc.n \in Int /\ kids[k].ref = elem
               /\ k = 1 => kids[k].loc.n = start
               /\ k # 1 => /\ k - 1 \in DOMAIN kids /\ kids[k - 1] # Elided /\ kids[k - 1].ref = elem
                           /\ kids[k].loc.n = kids[k - 1].loc.n + width
<1> DEFINE width == ByteSizeOf(dies, elem)
<1>1. \A j \in DOMAIN kids : kids[j] # Elided => kids[j].loc.n = start + (j - 1) * width /\ kids[j].ref = elem
  BY DEF Follow, Child, At
<1>2. k \in Nat \ {0} /\ (k > 1 => k - 1 \in DOMAIN kids /\ kids[k - 1] # Elided)
  BY DEF Follow
<1>3. width \in Nat
  OBVIOUS
<1> HIDE DEF width
<1>4. \A n \in Int : n * width \in Int
  BY <1>3
<1>5. (k - 1) * width = ((k - 1) - 1) * width + width /\ 0 * width = 0
  BY <1>2, <1>3
<1>6. (k - 1) * width \in Int /\ ((k - 1) - 1) * width \in Int
  BY <1>2, <1>4
<1>7. k = 1 => (k - 1) * width = 0
  BY <1>5
<1> DEFINE a == (k - 1) * width
           b == ((k - 1) - 1) * width
<1>8. kids[k].loc.n = start + a /\ kids[k].ref = elem
  BY <1>1
<1>9. k # 1 => k > 1 /\ kids[k - 1].loc.n = start + b /\ kids[k - 1].ref = elem
  BY <1>1, <1>2
<1>10. a = b + width /\ a \in Int /\ b \in Int /\ (k = 1 => a = 0)
  BY <1>5, <1>6, <1>7
<1> HIDE DEF a, b
<1> QED BY <1>2, <1>3, <1>8, <1>9, <1>10 DEF width

\* Where the children of a value come from, by the type it is decoded as.
MembersOf(kids, type, loc) ==
    \A k \in DOMAIN kids : kids[k] # Elided =>
        /\ k \in DOMAIN type.members
        /\ kids[k].loc.n = loc.n + type.members[k].offset /\ kids[k].ref = type.members[k].ref

PayloadOf(kids, type, loc) ==
    \A k \in DOMAIN kids :
        /\ k = 1
        /\ \E a \in DOMAIN type.arms : LET member == type.arms[a].member
                                       IN  /\ member.ref # Absent
                                           /\ kids[k].loc.n = loc.n + member.offset /\ kids[k].ref = member.ref

SliceElem(dies, type) ==
    LET data == StripTypedefs(dies, FatPointer(dies, type)[1].ref) IN IF data.kind = "pointer" THEN data.target ELSE Absent

Shape(dies, shown, type, loc, ctx) ==
    \/ shown.kids = <<>> /\ shown.what \notin {"array", "slice", "aggregate", "variant"}
    \/ shown.what = "pointer" /\ \A k \in DOMAIN shown.kids : shown.kids[k] # Elided => shown.kids[k].loc.n \in Int
    \/ /\ shown.what = "array" /\ loc.kind = "memory" /\ type.kind = "array"
       /\ Follow(dies, shown.kids, loc.n, type.elem, ctx)
    \/ /\ shown.what = "slice" /\ loc.kind = "memory"
       /\ type.kind = "struct" /\ type.name = "&[" /\ FatPointer(dies, type) # <<>>
       /\ \E start \in Int : Follow(dies, shown.kids, start, SliceElem(dies, type), ctx)
    \/ /\ shown.what = "aggregate" /\ loc.kind = "memory" /\ type.kind \in {"struct", "union"}
       /\ MembersOf(shown.kids, type, loc)
    \/ /\ shown.what = "variant" /\ loc.kind = "memory" /\ type.kind = "rustEnum"
       /\ PayloadOf(shown.kids, type, loc)

LEMMA LeafShape ==
    ASSUME NEW dies, NEW what, what \notin {"array", "slice", "aggregate", "variant"}, NEW v, NEW type, NEW loc, NEW ctx
    PROVE  Shape(dies, Leaf(what, v), type, loc, ctx)
BY DEF Shape, Leaf

LEMMA AggregateShape ==
    ASSUME NEW dies, NEW type, type.kind \in {"struct", "union"}, Listed(type.members), NEW loc, loc.kind = "memory", NEW ctx
    PROVE  Shape(dies, Aggregate(type, loc, ctx), type, loc, ctx)
<1> DEFINE kid(i) == Child(loc.n + type.members[i].offset, type.members[i].ref, ctx)
           child == [i \in Nat \ {0} |-> kid(i)]
           n == Len(type.members)
           kids == CappedChildren(n, child)
<1>1. Aggregate(type, loc, ctx) = [what |-> "aggregate", v |-> 0, kids |-> kids]
  BY DEF Aggregate
<1>2. n \in Int /\ DOMAIN type.members = 1..n
  BY DEF Listed
<1>3. \A i \in Nat \ {0} : child[i] = kid(i)
  OBVIOUS
<1>4. \A i : kid(i).loc.n = loc.n + type.members[i].offset /\ kid(i).ref = type.members[i].ref
  BY DEF Child, At
<1> HIDE DEF n, child, kid
<1>5. ASSUME NEW k \in DOMAIN kids, kids[k] # Elided
      PROVE  k \in 1..n /\ kids[k] = child[k]
  BY <1>2, <1>5, CappedShows
<1> HIDE DEF kids
<1>6. MembersOf(kids, type, loc)
  BY <1>2, <1>3, <1>4, <1>5 DEF MembersOf
<1> QED BY <1>1, <1>6 DEF Shape

LEMMA ArrayShape ==
    ASSUME NEW dies, NEW type, type.kind = "array", type.count \in Int, NEW loc, NEW ctx
    PROVE  Shape(dies, DecodeArray(dies, type, loc, ctx), type, loc, ctx)
<1>1. CASE loc.kind # "memory"
  BY <1>1, LeafShape DEF DecodeArray, Unreadable
<1>2. CASE loc.kind = "memory"
  <2> DEFINE count == IF type.count = Absent THEN 0 ELSE type.count
             kids == CappedChildren(count, [i \in Nat \ {0} |->
                        Child(loc.n + (i - 1) * ByteSizeOf(dies, type.elem), type.elem, ctx)])
  <2>1. DecodeArray(dies, type, loc, ctx) = [what |-> "array", v |-> count, kids |-> kids]
    BY <1>2 DEF DecodeArray
  <2>2. count \in Int
    OBVIOUS
  <2> HIDE DEF count
  <2>3. Follow(dies, kids, loc.n, type.elem, ctx)
    BY <2>2, CappedRows
  <2> HIDE DEF kids
  <2> QED BY <1>2, <2>1, <2>3 DEF Shape
<1> QED BY <1>1, <1>2

LEMMA SliceShape ==
    ASSUME NEW image, Readable(image), NEW type, NEW loc, NEW ctx, loc.kind = "memory",
           type.kind = "struct", type.name = "&[", FatPointer(image.dies, type) # <<>>
    PROVE  Shape(image.dies, DecodeSlice(image.dies, loc, FatPointer(image.dies, type), image.state, ctx), type, loc, ctx)
<1> DEFINE dies == image.dies
           fat == FatPointer(dies, type)
           elem == SliceElem(dies, type)
           ptr == IntAt(image.state, loc.n + fat[1].offset, AddressSize)
           len == IntAt(image.state, loc.n + fat[2].offset, ByteSizeOf(dies, fat[2].ref))
           count == IF len = Absent THEN 0 ELSE len
           rows == CappedChildren(count, [i \in Nat \ {0} |-> Child(ptr + (i - 1) * ByteSizeOf(dies, elem), elem, ctx)])
           kids == IF ptr = Absent THEN <<>> ELSE rows
           shown == DecodeSlice(dies, loc, fat, image.state, ctx)
<1>1. shown = [what |-> "slice", v |-> count, kids |-> kids]
  BY DEF DecodeSlice, SliceElem
<1>2. ptr \in Int
  BY IntRead, ByteAssumption
<1>3. count \in Int
  <2>1. len \in Int
    BY IntRead, WidthSized
  <2> HIDE DEF len
  <2> QED BY <2>1
<1> HIDE DEF ptr, count
<1>4. Follow(dies, rows, ptr, elem, ctx)
  BY <1>3, CappedRows
<1>5. Follow(dies, <<>>, ptr, elem, ctx)
  BY DEF Follow
<1> HIDE DEF rows
<1>6. Follow(dies, kids, ptr, elem, ctx)
  BY <1>4, <1>5
<1> HIDE DEF kids, shown
<1>7. Shape(dies, shown, type, loc, ctx)
  BY <1>1, <1>2, <1>6 DEF Shape
<1> QED BY <1>7 DEF shown

LEMMA StructShape ==
    ASSUME NEW image, Readable(image), NEW r, NEW type, type = Resolve(image.dies, r), type.kind \in {"struct", "union"},
           NEW loc, NEW ctx
    PROVE  Shape(image.dies, DecodeStruct(image.dies, type, loc, image.state, ctx), type, loc, ctx)
<1> DEFINE fat == FatPointer(image.dies, type)
           str == DecodeStr(image.dies, loc, fat, image.state)
<1>1. Listed(type.members)
  BY ResolvedSized DEF Readable
<1>2. Shape(image.dies, str, type, loc, ctx)
  BY LeafShape DEF DecodeStr, Unreadable
<1>3. Shape(image.dies, Unreadable, type, loc, ctx)
  BY LeafShape DEF Unreadable
<1>4. loc.kind = "memory" => Shape(image.dies, Aggregate(type, loc, ctx), type, loc, ctx)
  BY <1>1, AggregateShape
<1>5. loc.kind = "memory" /\ type.kind = "struct" /\ type.name = "&[" /\ fat # <<>> =>
        Shape(image.dies, DecodeSlice(image.dies, loc, fat, image.state, ctx), type, loc, ctx)
  BY SliceShape
<1> HIDE DEF str, fat
<1> QED BY <1>2, <1>3, <1>4, <1>5 DEF DecodeStruct, str, fat

LEMMA RustEnumShape ==
    ASSUME NEW image, Readable(image), NEW r, NEW type, type = Resolve(image.dies, r), type.kind = "rustEnum",
           NEW loc, NEW ctx
    PROVE  Shape(image.dies, DecodeRustEnum(image.dies, type, loc, image.state, ctx), type, loc, ctx)
<1>1. Listed(type.arms)
  BY ResolvedSized DEF Readable
<1>2. \A disc : ArmOf(type.arms, disc) # <<>> => \E a \in DOMAIN type.arms : ArmOf(type.arms, disc)[1] = type.arms[a]
  <2> SUFFICES ASSUME NEW disc, ArmOf(type.arms, disc) # <<>>
               PROVE  \E a \in DOMAIN type.arms : ArmOf(type.arms, disc)[1] = type.arms[a]
    OBVIOUS
  <2>1. PICK found : /\ found \subseteq DOMAIN type.arms
                     /\ ArmOf(type.arms, disc) = IF found = {} THEN <<>> ELSE <<type.arms[Min(found)]>>
    BY DEF ArmOf
  <2>2. found # {} /\ found \subseteq Nat
    BY <1>1, <2>1 DEF Listed
  <2>3. Min(found) \in found
    BY <2>2, MinIsLeast
  <2> QED BY <2>1, <2>2, <2>3
<1> DEFINE shown == DecodeRustEnum(image.dies, type, loc, image.state, ctx)
<1>3. PICK disc : LET arm == ArmOf(type.arms, disc)
                  IN  shown = IF loc.kind # "memory" THEN Unreadable
                              ELSE IF arm = <<>> THEN Leaf("unknown", 0)
                              ELSE [what |-> "variant", v |-> arm[1].value,
                                    kids |-> IF arm[1].member.ref = Absent THEN <<>>
                                             ELSE <<Child(loc.n + arm[1].member.offset, arm[1].member.ref, ctx)>>]
  BY Zenon DEF DecodeRustEnum
<1> DEFINE arm == ArmOf(type.arms, disc)
<1> HIDE DEF shown
<1>4. CASE loc.kind # "memory" \/ arm = <<>>
  BY <1>3, <1>4, LeafShape DEF Unreadable, shown
<1>5. CASE loc.kind = "memory" /\ arm # <<>>
  <2>1. PICK a \in DOMAIN type.arms : arm[1] = type.arms[a]
    BY <1>2, <1>5
  <2> DEFINE member == type.arms[a].member
  <2>2. shown.what = "variant" /\ shown.kids = IF member.ref = Absent THEN <<>> ELSE <<Child(loc.n + member.offset, member.ref, ctx)>>
    BY <1>3, <1>5, <2>1
  <2> HIDE DEF arm
  <2>3. PayloadOf(shown.kids, type, loc)
    <3> DEFINE kid == Child(loc.n + member.offset, member.ref, ctx)
    <3>1. kid.loc.n = loc.n + member.offset /\ kid.ref = member.ref
      BY DEF Child, At
    <3> HIDE DEF kid
    <3>2. ASSUME NEW k \in DOMAIN shown.kids
          PROVE  k = 1 /\ member.ref # Absent /\ shown.kids[k] = kid
      BY <2>2, <3>2 DEF kid
    <3> QED BY <3>1, <3>2 DEF PayloadOf
  <2>4. Shape(image.dies, shown, type, loc, ctx)
    BY <1>5, <2>2, <2>3 DEF Shape
  <2> QED BY <2>4 DEF shown
<1> QED BY <1>4, <1>5

LEMMA PointerShape ==
    ASSUME Readable(img), ExactSlots(img), NEW type, type.size \in Nat,
           NEW loc, loc.kind = "value" => loc.n \in Int, NEW ctx
    PROVE  Shape(img.dies, DecodePointer(type, loc, img.state, ctx), type, loc, ctx)
<1> DEFINE size == IF type.size = 0 THEN AddressSize ELSE type.size
           bytes == RawBytes(loc, size, img.state)
           p == ReadUnsignedLE(bytes)
           key == <<p, type.target>>
           pointee == [loc |-> At(p), ref |-> type.target, depth |-> ctx.depth + 1, visited |-> ctx.visited \cup {key}]
           shown == DecodePointer(type, loc, img.state, ctx)
<1>1. CASE bytes = <<>>
  BY <1>1, LeafShape DEF DecodePointer, Unreadable
<1>2. CASE bytes # <<>>
  <2>1. size \in Nat \ {0}
    BY ByteAssumption
  <2> HIDE DEF size
  <2>2. Listed(bytes) /\ \A i \in DOMAIN bytes : bytes[i] \in 0..(ByteBase - 1)
    BY <1>2, <2>1, RawBytesRead
  <2> HIDE DEF bytes
  <2>3. p \in Int
    BY <2>2, ReadFits
  <2>4. shown = [what |-> "pointer", v |-> p,
                 kids |-> IF p = 0 \/ type.target = Absent THEN <<>>
                          ELSE IF key \in ctx.visited THEN <<Elided>> ELSE <<pointee>>]
    BY <1>2 DEF DecodePointer, bytes, size
  <2>5. pointee.loc.n = p
    BY DEF At
  <2> HIDE DEF p, key, pointee, shown
  <2>6. Shape(img.dies, shown, type, loc, ctx)
    BY <2>3, <2>4, <2>5 DEF Shape
  <2> QED BY <2>6 DEF shown
<1> QED BY <1>1, <1>2

\* Whatever is decoded has the shape of what its reference resolves to.
LEMMA DecodeShape ==
    ASSUME Readable(img), ExactSlots(img), NEW loc, loc.kind = "value" => loc.n \in Int, NEW ref, NEW ctx
    PROVE  Shape(img.dies, Decode(img.dies, loc, ref, img.state, ctx), Unwrap(img.dies, ref, loc), loc, ctx)
<1> DEFINE type == Unwrap(img.dies, ref, loc)
           shown == Decode(img.dies, loc, ref, img.state, ctx)
           S(x) == Shape(img.dies, x, type, loc, ctx)
<1>1. PICK r : type = Resolve(img.dies, r)
  BY UnwrapResolves
<1> HIDE DEF type
<1>2. \/ shown = Leaf("optimized out", 0) \/ shown = Leaf("elided", 0)
      \/ shown = DecodeAs(img.dies, type, loc, img.state, ctx)
  BY DEF Decode, type
<1>3. S(Leaf("optimized out", 0)) /\ S(Leaf("elided", 0)) /\ S(Leaf("unknown", 0))
  BY LeafShape
<1>4. S(DecodeBase(type, loc, img.state)) /\ S(DecodeEnum(type, loc, img.state))
  <2>1. \E what, v : what \in {"unknown", "unreadable", "scalar"} /\ DecodeBase(type, loc, img.state) = Leaf(what, v)
    BY DEF DecodeBase, Unreadable
  <2>2. \E what, v : what \in {"unknown", "unreadable", "scalar"} /\ DecodeEnum(type, loc, img.state) = Leaf(what, v)
    BY DEF DecodeEnum, Unreadable
  <2> QED BY <2>1, <2>2, LeafShape
<1>5. type.kind = "pointer" => S(DecodePointer(type, loc, img.state, ctx))
  BY <1>1, ResolvedSized, PointerShape
<1>6. type.kind \in {"struct", "union"} => S(DecodeStruct(img.dies, type, loc, img.state, ctx))
  BY <1>1, StructShape
<1>7. type.kind = "array" => S(DecodeArray(img.dies, type, loc, ctx))
  BY <1>1, ResolvedSized, ArrayShape
<1>8. type.kind = "rustEnum" => S(DecodeRustEnum(img.dies, type, loc, img.state, ctx))
  BY <1>1, RustEnumShape
<1> HIDE DEF S, shown
<1>9. S(DecodeAs(img.dies, type, loc, img.state, ctx))
  BY ONLY <1>3, <1>4, <1>5, <1>6, <1>7, <1>8, Zenon DEF DecodeAs
<1>10. S(shown)
  BY <1>2, <1>3, <1>9
<1> QED BY <1>10 DEF S, shown, type

\* Every child of something that is somewhere is somewhere.
LEMMA KidsPlaced ==
    ASSUME Readable(img), ExactSlots(img), NEW loc, Located(loc), NEW ref, NEW ctx,
           NEW k \in DOMAIN Decode(img.dies, loc, ref, img.state, ctx).kids,
           Decode(img.dies, loc, ref, img.state, ctx).kids[k] # Elided
    PROVE  Decode(img.dies, loc, ref, img.state, ctx).kids[k].loc.n \in Int
<1> DEFINE type == Unwrap(img.dies, ref, loc)
           shown == Decode(img.dies, loc, ref, img.state, ctx)
           kids == shown.kids
<1>1. Shape(img.dies, shown, type, loc, ctx)
  BY DecodeShape DEF Located, Registers
<1>2. loc.kind = "memory" => loc.n \in Int
  BY DEF Located, Registers
<1>3. PICK r : type = Resolve(img.dies, r)
  BY UnwrapResolves
<1> HIDE DEF shown, type
<1>4. /\ type.kind \in {"struct", "union"} => \A i \in DOMAIN type.members : type.members[i].offset \in Int
      /\ type.kind = "rustEnum" => \A a \in DOMAIN type.arms : type.arms[a].member.offset \in Int
  BY <1>3, ResolvedSized DEF Readable
<1>5. k \in DOMAIN kids /\ kids[k] # Elided
  BY DEF shown
<1>6. kids[k].loc.n \in Int
  <2>1. CASE kids = <<>>
    BY <1>5, <2>1
  <2>2. CASE \E start \in Int : \E elem : Follow(img.dies, kids, start, elem, ctx)
    <3> HIDE DEF kids
    <3>1. k \in Int
      BY <1>5, <2>2 DEF Follow
    <3> QED BY <1>5, <2>2, <3>1, WidthSized, RowsStep
  <2>3. CASE loc.kind = "memory" /\ type.kind \in {"struct", "union"} /\ MembersOf(kids, type, loc)
    <3>1. PICK m \in DOMAIN type.members : kids[k].loc.n = loc.n + type.members[m].offset
      BY <1>5, <2>3 DEF MembersOf
    <3> QED BY <1>2, <1>4, <2>3, <3>1
  <2>4. CASE loc.kind = "memory" /\ type.kind = "rustEnum" /\ PayloadOf(kids, type, loc)
    <3>1. PICK a \in DOMAIN type.arms : kids[k].loc.n = loc.n + type.arms[a].member.offset
      BY <1>5, <2>4 DEF PayloadOf
    <3> QED BY <1>2, <1>4, <2>4, <3>1
  <2> QED BY <1>1, <1>2, <1>5, <2>1, <2>2, <2>3, <2>4 DEF Shape
<1> QED BY <1>6 DEF shown

\* The children of something that is somewhere cover its storage.
LEMMA KidsTile ==
    ASSUME Readable(img), ExactSlots(img), LaidOut(img), PlainElements(img), Located(node.loc), NEW ctx,
           node.shown = Decode(img.dies, node.loc, node.ref, img.state, ctx)
    PROVE  ChildrenTile
<1> DEFINE type == Unwrap(img.dies, node.ref, node.loc)
           kids == node.shown.kids
           sizeOf(ref) == SizeOf(img.dies, ref)
           end(place) == place.loc.n + sizeOf(place.ref)
           bytes(place) == place.loc.n..(end(place) - 1)
           what == node.shown.what
           at == node.loc.n
<1>1. Shape(img.dies, node.shown, type, node.loc, ctx)
  BY DecodeShape DEF Located, Registers
<1>2. node.loc.kind = "memory" => at \in Int
  BY DEF Located, Registers
<1>3. PICK r : type = Resolve(img.dies, r)
  BY UnwrapResolves
<1>4. node.loc.kind = "memory" => type = StripTypedefs(img.dies, node.ref)
  BY DEF Unwrap, Registers
<1>5. node.loc.kind = "memory" /\ type.kind # "array" => sizeOf(node.ref) = type.size
  BY <1>4 DEF SizeOf
<1> HIDE DEF type
<1>6. type.kind # "unresolved" => r \in DOMAIN img.dies
  BY <1>3, ResolvedSized
<1>7. type.kind \in {"struct", "union", "rustEnum"} => type.size \in Nat \cup {Absent}
  BY <1>3, ResolvedSized
<1>8. /\ type.kind = "array" => Sized(img.dies, type.elem)
      /\ type.kind = "struct" /\ type.name = "&[" /\ FatPointer(img.dies, type) # <<>> => Sized(img.dies, SliceElem(img.dies, type))
  BY <1>3, <1>6 DEF LaidOut, PlainElements, SliceElem
<1>9. type.kind \in {"struct", "union"} => \A m \in DOMAIN type.members : Inside(img.dies, type.members[m], type.size)
  BY <1>3, <1>6 DEF LaidOut
<1>10. type.kind = "rustEnum" => \A a \in DOMAIN type.arms : LET member == type.arms[a].member
                                    IN  member.ref # Absent => Inside(img.dies, member, type.size)
  BY <1>3, <1>6 DEF LaidOut
<1>11. type.kind = "struct" => \A m, n \in DOMAIN type.members : m # n => Disjoint(img.dies, type.members[m], type.members[n])
  BY <1>3, <1>6 DEF LaidOut
<1> HIDE DEF kids, what, at, sizeOf
<1>12. ASSUME what \in {"array", "slice"}, NEW k \in DOMAIN kids, kids[k] # Elided
       PROVE  IF k = 1 THEN what = "array" => kids[k].loc.n = at
              ELSE k - 1 \in DOMAIN kids /\ kids[k - 1] # Elided /\ kids[k].loc.n = kids[k - 1].loc.n + sizeOf(kids[k - 1].ref)
  <2>1. PICK start \in Int : \E elem : /\ Follow(img.dies, kids, start, elem, ctx) /\ Sized(img.dies, elem)
                                       /\ what = "array" => start = at
    BY <1>1, <1>2, <1>8, <1>12 DEF Shape, what, kids, at
  <2>2. PICK elem : /\ Follow(img.dies, kids, start, elem, ctx) /\ Sized(img.dies, elem)
                    /\ what = "array" => start = at
    BY <2>1
  <2>3. sizeOf(elem) = ByteSizeOf(img.dies, elem)
    BY <2>2, WidthSized DEF sizeOf
  <2>4. /\ kids[k].loc.n \in Int /\ kids[k].ref = elem
        /\ k = 1 => kids[k].loc.n = start
        /\ k # 1 => /\ k - 1 \in DOMAIN kids /\ kids[k - 1] # Elided /\ kids[k - 1].ref = elem
                    /\ kids[k].loc.n = kids[k - 1].loc.n + ByteSizeOf(img.dies, elem)
    <3>1. ByteSizeOf(img.dies, elem) \in Nat /\ k \in Int
      BY <1>12, <2>2, WidthSized DEF Follow
    <3> QED BY <1>12, <2>2, <3>1, RowsStep
  <2> QED BY <2>2, <2>3, <2>4
<1>13. ASSUME NEW m, Inside(img.dies, m, type.size), type.kind \in {"struct", "union", "rustEnum"}, node.loc.kind = "memory",
              NEW kid, kid.loc.n = at + m.offset, kid.ref = m.ref
       PROVE  bytes(kid) \subseteq at..((at + sizeOf(node.ref)) - 1)
  <2>1. m.offset \in Nat /\ sizeOf(m.ref) \in Nat /\ m.offset + sizeOf(m.ref) <= type.size
    BY <1>13 DEF Inside, sizeOf
  <2>2. at \in Int /\ type.size \in Int /\ sizeOf(node.ref) = type.size
    BY <1>2, <1>5, <1>7, <1>13 DEF Absent
  <2> QED BY <1>13, <2>1, <2>2
<1>14. ASSUME what \in {"aggregate", "variant"}, NEW k \in DOMAIN kids, kids[k] # Elided
       PROVE  bytes(kids[k]) \subseteq at..((at + sizeOf(node.ref)) - 1)
  <2>1. CASE node.loc.kind = "memory" /\ type.kind \in {"struct", "union"} /\ MembersOf(kids, type, node.loc)
    BY <1>9, <1>13, <1>14, <2>1 DEF MembersOf, at
  <2>2. CASE node.loc.kind = "memory" /\ type.kind = "rustEnum" /\ PayloadOf(kids, type, node.loc)
    <3>1. PICK a \in DOMAIN type.arms : LET member == type.arms[a].member
                                        IN  /\ member.ref # Absent
                                            /\ kids[k].loc.n = at + member.offset /\ kids[k].ref = member.ref
      BY <1>14, <2>2 DEF PayloadOf, at
    <3> QED BY <1>10, <1>13, <2>2, <3>1
  <2> QED BY <1>1, <1>14, <2>1, <2>2 DEF Shape, what, kids
<1>15. ASSUME what \in {"aggregate", "variant"}, type.kind # "union",
              NEW k \in DOMAIN kids, kids[k] # Elided, NEW l \in DOMAIN kids, kids[l] # Elided, k # l
       PROVE  bytes(kids[k]) \cap bytes(kids[l]) = {}
  <2>1. CASE node.loc.kind = "memory" /\ type.kind \in {"struct", "union"} /\ MembersOf(kids, type, node.loc)
    <3> DEFINE m == type.members[k]
               n == type.members[l]
    <3>1. k \in DOMAIN type.members /\ l \in DOMAIN type.members
      BY <1>15, <2>1 DEF MembersOf
    <3>2. Inside(img.dies, m, type.size) /\ Inside(img.dies, n, type.size) /\ Disjoint(img.dies, m, n)
      BY <1>9, <1>11, <1>15, <2>1, <3>1
    <3>3. /\ kids[k].loc.n = at + m.offset /\ kids[k].ref = m.ref
          /\ kids[l].loc.n = at + n.offset /\ kids[l].ref = n.ref
      BY <1>15, <2>1 DEF MembersOf, at
    <3> HIDE DEF m, n
    <3>4. at \in Int /\ m.offset \in Nat /\ n.offset \in Nat /\ sizeOf(m.ref) \in Nat /\ sizeOf(n.ref) \in Nat
      BY <1>2, <2>1, <3>2 DEF Inside, sizeOf
    <3>5. m.offset + sizeOf(m.ref) <= n.offset \/ n.offset + sizeOf(n.ref) <= m.offset
      BY <3>2 DEF Disjoint, sizeOf
    <3> QED BY <3>3, <3>4, <3>5
  <2>2. CASE PayloadOf(kids, type, node.loc)
    BY <1>15, <2>2 DEF PayloadOf
  <2> QED BY <1>1, <1>15, <2>1, <2>2 DEF Shape, what, kids
<1>16. what \in {"array", "slice"} =>
            \A k \in {i \in DOMAIN kids : kids[i] # Elided} :
                IF k = 1 THEN what = "array" => kids[k].loc.n = at
                ELSE k - 1 \in {i \in DOMAIN kids : kids[i] # Elided} /\ kids[k].loc.n = kids[k - 1].loc.n + sizeOf(kids[k - 1].ref)
  BY <1>12
<1>17. what \in {"aggregate", "variant"} =>
            \A k \in {i \in DOMAIN kids : kids[i] # Elided} :
                /\ bytes(kids[k]) \subseteq bytes(node)
                /\ type.kind # "union" =>
                    \A l \in {i \in DOMAIN kids : kids[i] # Elided} \ {k} : bytes(kids[k]) \cap bytes(kids[l]) = {}
  BY <1>14, <1>15 DEF at
<1> QED BY <1>16, <1>17, Zenon DEF ChildrenTile, what, kids, at, sizeOf, type

-----------------------------------------------------------------------------
\* The inductive invariant: the variables on offer are entries of the image, and what
\* is shown is what was decoded at its location, which is a number, a slot or none.
NodeDecoded ==
    /\ img \in Images
    /\ \A f \in DOMAIN frames : \A k \in DOMAIN frames[f].variables :
            \E i \in DOMAIN img.unit.info : frames[f].variables[k].loc = img.unit.info[i].loc
    /\ Located(node.loc)
    /\ \/ node = NoNode
       \/ \E ctx : node.shown = Decode(img.dies, node.loc, node.ref, img.state, ctx)

\* The frames at an offset offer entries of the image.
LEMMA FramesOffer ==
    ASSUME Listed(img.unit.info), NEW offset, NEW f \in DOMAIN FramesAt(offset),
           NEW k \in DOMAIN FramesAt(offset)[f].variables
    PROVE  \E i \in DOMAIN img.unit.info : FramesAt(offset)[f].variables[k].loc = img.unit.info[i].loc
<1> DEFINE unit == img.unit
           fn == Scopes!RecordAt(unit, offset)
           calls == CallsIn(unit, fn, offset)
           n == Cardinality(calls)
           o == Scopes!InSection(calls)
           shown == FramesAt(offset)
           blocks == Scopes!OpenBlocks(unit, offset)
<1>1. fn # 0
  <2>1. fn = 0 => shown = <<>>
    BY FramesList
  <2> QED BY <2>1
<1>2. /\ n \in Nat /\ DOMAIN shown = 1..(n + 1)
      /\ shown[1].variables = Scopes!Collect(unit, fn, fn, offset)
      /\ \A l \in 1..n : shown[l + 1].variables = Scopes!Collect(unit, fn, o[l], offset)
  BY <1>1, FramesList
<1> HIDE DEF shown, fn, n, o
<1>3. \E scope : shown[f].variables = Scopes!Collect(unit, fn, scope, offset)
  <2>1. CASE f = 1
    BY <1>2, <2>1
  <2>2. CASE f # 1
    <3>1. f - 1 \in 1..n /\ (f - 1) + 1 = f
      BY <1>2, <2>2 DEF shown
    <3> QED BY <1>2, <3>1
  <2> QED BY <2>1, <2>2
<1>4. PICK scope : shown[f].variables = Scopes!Declared(unit, fn, scope, blocks)
  BY <1>3 DEF Scopes!Collect
<1> DEFINE S == DeclaredIn(unit, scope, blocks)
<1>5. /\ S \subseteq DOMAIN unit.info
      /\ \A l \in DOMAIN shown[f].variables : \E i \in S : shown[f].variables[l] = Scopes!ToScopeVar(unit, fn, i)
  <2> DEFINE V == Scopes!Declared(unit, fn, scope, blocks)
  <2>1. S \subseteq DOMAIN unit.info
    BY DeclaredLists
  <2>2. ASSUME NEW l \in DOMAIN V PROVE \E i \in S : V[l] = Scopes!ToScopeVar(unit, fn, i)
    BY DeclaredLists
  <2> HIDE DEF V, S
  <2> QED BY <1>4, <2>1, <2>2 DEF V
<1>6. k \in DOMAIN shown[f].variables
  BY DEF shown
<1>7. PICK i \in S : shown[f].variables[k] = Scopes!ToScopeVar(unit, fn, i)
  <2> HIDE DEF S
  <2> QED BY <1>5, <1>6
<1>8. i \in DOMAIN unit.info
  <2> HIDE DEF S
  <2> QED BY <1>5
<1> QED BY <1>7, <1>8 DEF Scopes!ToScopeVar, shown

\* At first nothing is decoded.
LEMMA NothingDecoded == Init => NodeDecoded
<1> SUFFICES ASSUME Init PROVE NodeDecoded
  OBVIOUS
<1>1. frames = <<>> /\ node = NoNode /\ img \in Images
  BY DEF Init
<1>2. Located(NoNode.loc)
  BY DEF NoNode, Unavailable, Located
<1> QED BY <1>1, <1>2 DEF NodeDecoded

\* Every step keeps it so.
LEMMA DecodedStep ==
    ASSUME \A image \in Images : Readable(image) /\ ExactSlots(image), NodeDecoded, [Next]_vars
    PROVE  NodeDecoded'
<1>1. img \in Images /\ Readable(img) /\ ExactSlots(img) /\ Listed(img.unit.info)
  BY DEF NodeDecoded, Readable
<1>2. CASE Look
  <2>1. PICK offset : frames' = FramesAt(offset) /\ node' = NoNode /\ img' = img
    BY <1>2 DEF Look
  <2>2. Located(NoNode.loc)
    BY DEF NoNode, Unavailable, Located
  <2> DEFINE shown == FramesAt(offset)
  <2>3. \A f \in DOMAIN shown : \A k \in DOMAIN shown[f].variables :
          \E i \in DOMAIN img.unit.info : shown[f].variables[k].loc = img.unit.info[i].loc
    BY <1>1, FramesOffer
  <2> HIDE DEF shown
  <2> QED BY <1>1, <2>1, <2>2, <2>3 DEF NodeDecoded, shown
<1>3. CASE Inspect
  <2>0. PICK f \in DOMAIN frames : \E i \in DOMAIN frames[f].variables :
          LET v == frames[f].variables[i]
              loc == VariableLocation(v)
          IN  node' = [loc |-> loc, ref |-> v.type,
                       shown |-> Decode(img.dies, loc, v.type, img.state, [depth |-> 0, visited |-> {}])]
    BY <1>3 DEF Inspect
  <2>1. PICK i \in DOMAIN frames[f].variables :
          LET v == frames[f].variables[i]
              loc == VariableLocation(v)
          IN  node' = [loc |-> loc, ref |-> v.type,
                       shown |-> Decode(img.dies, loc, v.type, img.state, [depth |-> 0, visited |-> {}])]
    BY <2>0
  <2> DEFINE v == frames[f].variables[i]
             loc == VariableLocation(v)
             ctx == [depth |-> 0, visited |-> {}]
  <2>2. img' = img /\ frames' = frames
    BY <1>3 DEF Inspect
  <2>3. PICK d \in DOMAIN img.unit.info : v.loc = img.unit.info[d].loc
    BY DEF NodeDecoded
  <2>4. Located(loc)
    BY <1>1, <2>3, VariableLocates
  <2> HIDE DEF loc, v, ctx
  <2>5. node'.loc = loc /\ node'.shown = Decode(img.dies, node'.loc, node'.ref, img.state, ctx)
    BY <2>1 DEF loc, v, ctx
  <2>6. Located(node'.loc)
    BY <2>4, <2>5
  <2> QED BY <2>2, <2>5, <2>6 DEF NodeDecoded
<1>4. CASE Expand
  <2> DEFINE kids == node.shown.kids
  <2>1. PICK i \in DOMAIN kids :
          /\ kids[i] # Elided
          /\ node' = [loc |-> kids[i].loc, ref |-> kids[i].ref,
                      shown |-> Decode(img.dies, kids[i].loc, kids[i].ref, img.state, kids[i])]
    BY <1>4 DEF Expand
  <2>2. img' = img /\ frames' = frames
    BY <1>4 DEF Expand
  <2>3. PICK ctx : node.shown = Decode(img.dies, node.loc, node.ref, img.state, ctx)
    BY <2>1 DEF NodeDecoded, NoNode, Leaf
  <2>4. kids[i].loc = At(kids[i].loc.n)
    <3>1. Continues(node.shown, ctx)
      BY <2>3, DecodeContinues
    <3> QED BY <2>1, <3>1 DEF Continues
  <2>5. kids[i].loc.n \in Int
    BY <1>1, <2>1, <2>3, KidsPlaced DEF NodeDecoded
  <2>6. /\ Located(node'.loc)
        /\ node'.shown = Decode(img.dies, node'.loc, node'.ref, img.state, kids[i])
    BY <2>1, <2>4, <2>5 DEF Located, At
  <2> HIDE DEF kids
  <2> QED BY <2>2, <2>6 DEF NodeDecoded
<1>5. CASE UNCHANGED vars
  BY <1>5 DEF vars, NodeDecoded
<1> QED BY <1>2, <1>3, <1>4, <1>5 DEF Next

\* Integers are shown exactly, in every image whose bigints a JavaScript number holds:
\* a wider slot is rounded on its way to the decoder (registerValue).
THEOREM ScalarAlwaysExact ==
    ASSUME \A image \in Images : Readable(image) /\ ExactSlots(image)
    PROVE  Spec => []ScalarExact
<1>1. NodeDecoded => ScalarExact
  <2> SUFFICES ASSUME NodeDecoded PROVE ScalarExact
    OBVIOUS
  <2>1. CASE node = NoNode
    BY <2>1 DEF NoNode, Leaf, ScalarExact
  <2>2. CASE \E ctx : node.shown = Decode(img.dies, node.loc, node.ref, img.state, ctx)
    BY <2>2, DecodedExact DEF NodeDecoded, Located, Registers
  <2> QED BY <2>1, <2>2 DEF NodeDecoded
<1>2. NodeDecoded /\ [Next]_vars => NodeDecoded'
  BY DecodedStep
<1> QED BY <1>1, <1>2, NothingDecoded, PTL DEF Spec

\* The children an expansion shows cover the storage of their parent, in every image
\* whose types a compiler has laid out, whose bigints a JavaScript number holds and
\* whose elements are neither arrays nor without bytes.
THEOREM ChildrenAlwaysTile ==
    ASSUME \A image \in Images : Readable(image) /\ ExactSlots(image) /\ LaidOut(image) /\ PlainElements(image)
    PROVE  Spec => []ChildrenTile
<1>1. NodeDecoded => ChildrenTile
  <2> SUFFICES ASSUME NodeDecoded PROVE ChildrenTile
    OBVIOUS
  <2>1. CASE node = NoNode
    BY <2>1 DEF NoNode, Leaf, ChildrenTile
  <2>2. CASE \E ctx : node.shown = Decode(img.dies, node.loc, node.ref, img.state, ctx)
    BY <2>2, KidsTile DEF NodeDecoded
  <2> QED BY <2>1, <2>2 DEF NodeDecoded
<1>2. NodeDecoded /\ [Next]_vars => NodeDecoded'
  BY DecodedStep
<1> QED BY <1>1, <1>2, NothingDecoded, PTL DEF Spec

-----------------------------------------------------------------------------
\* A list of entries that goes down the section.
Descends(s) == /\ s \in Seq(Nat)
               /\ \A k, l \in 1..Len(s) : k < l => s[k] < s[l]

LEMMA AppendOpens ==
    ASSUME NEW s, Descends(s), NEW i \in Nat, \A a \in ToSet(s) : a < i
    PROVE  Descends(Append(s, i)) /\ ToSet(Append(s, i)) = ToSet(s) \cup {i}
<1> DEFINE n == Len(s)
           t == Append(s, i)
<1>1. n \in Nat /\ s \in [1..n -> Nat] /\ s \in Seq(Nat)
  BY LenProperties DEF Descends
<1>2. /\ t \in Seq(Nat) /\ Len(t) = n + 1
      /\ \A k \in 1..n : t[k] = s[k]
      /\ t[n + 1] = i
  BY <1>1, AppendProperties
<1>3. t \in [1..(n + 1) -> Nat]
  BY <1>2, LenProperties
<1>4. ToSet(s) = {s[k] : k \in 1..n} /\ ToSet(t) = {t[k] : k \in 1..(n + 1)}
  BY <1>1, <1>3 DEF ToSet
<1>5. \A k, l \in 1..n : k < l => s[k] < s[l]
  BY DEF Descends
<1> HIDE DEF n, t
<1>6. \A k \in 1..n : s[k] < i
  BY <1>4
<1>7. ToSet(t) = ToSet(s) \cup {i}
  <2>1. \A x \in ToSet(t) : x \in ToSet(s) \cup {i}
    <3> SUFFICES ASSUME NEW k \in 1..(n + 1) PROVE t[k] \in ToSet(s) \cup {i}
      BY <1>4
    <3> QED BY <1>1, <1>2, <1>4
  <2>2. \A x \in ToSet(s) : x \in ToSet(t)
    <3> SUFFICES ASSUME NEW k \in 1..n PROVE s[k] \in ToSet(t)
      BY <1>4
    <3>1. k \in 1..(n + 1) /\ s[k] = t[k]
      BY <1>1, <1>2
    <3> QED BY <1>4, <3>1
  <2>3. i \in ToSet(t)
    <3>1. n + 1 \in 1..(n + 1)
      BY <1>1
    <3> QED BY <1>2, <1>4, <3>1
  <2> QED BY <2>1, <2>2, <2>3
<1>8. \A k, l \in 1..(n + 1) : k < l => t[k] < t[l]
  <2> SUFFICES ASSUME NEW k \in 1..(n + 1), NEW l \in 1..(n + 1), k < l PROVE t[k] < t[l]
    OBVIOUS
  <2>1. k \in 1..n /\ t[k] = s[k]
    BY <1>1, <1>2
  <2>2. CASE l = n + 1
    BY <1>2, <1>6, <2>1, <2>2
  <2>3. CASE l # n + 1
    <3>1. l \in 1..n /\ t[l] = s[l]
      BY <1>1, <1>2, <2>3
    <3> QED BY <1>5, <2>1, <3>1
  <2> QED BY <2>2, <2>3
<1> QED BY <1>2, <1>7, <1>8 DEF Descends, t

LEMMA FrontCloses ==
    ASSUME NEW s, Descends(s)
    PROVE  /\ Descends(Front(s)) /\ ToSet(Front(s)) \subseteq ToSet(s)
           /\ \A a \in ToSet(Front(s)), b \in ToSet(s) : b < a => b \in ToSet(Front(s))
<1> DEFINE n == Len(s)
           t == Front(s)
<1>1. n \in Nat /\ s \in [1..n -> Nat] /\ s \in Seq(Nat)
  BY LenProperties DEF Descends
<1>2. CASE s = <<>>
  <2>1. t = <<>>
    BY <1>2 DEF Front
  <2>2. Descends(<<>>) /\ ToSet(<<>>) = {}
    BY EmptySeq DEF Descends, ToSet
  <2> QED BY <2>1, <2>2
<1>3. CASE s # <<>>
  <2>1. /\ n \in Nat \ {0}
        /\ t \in Seq(Nat) /\ Len(t) = n - 1
        /\ \A k \in 1..(n - 1) : t[k] = s[k]
    BY <1>1, <1>3, FrontProperties
  <2>2. t \in [1..(n - 1) -> Nat]
    BY <2>1, LenProperties
  <2>3. ToSet(s) = {s[k] : k \in 1..n} /\ ToSet(t) = {t[k] : k \in 1..(n - 1)}
    BY <1>1, <2>2 DEF ToSet
  <2>4. \A k, l \in 1..n : k < l => s[k] < s[l]
    BY DEF Descends
  <2> HIDE DEF n, t
  <2>5. \A k \in 1..(n - 1) : k \in 1..n /\ t[k] = s[k]
    BY <2>1
  <2>6. \A k, l \in 1..(n - 1) : k < l => t[k] < t[l]
    BY <2>4, <2>5
  <2>7. ToSet(t) \subseteq ToSet(s)
    BY <2>3, <2>5
  <2>8. ASSUME NEW a \in ToSet(t), NEW b \in ToSet(s), b < a PROVE b \in ToSet(t)
    <3>1. PICK k \in 1..(n - 1) : a = t[k]
      BY <2>3
    <3>2. PICK l \in 1..n : b = s[l]
      BY <2>3
    <3>3. l # n
      <4> SUFFICES ASSUME l = n PROVE FALSE
        OBVIOUS
      <4>1. k < n /\ k \in 1..n /\ n \in 1..n
        BY <2>1
      <4>2. s[k] < s[n] /\ s[n] < s[k]
        BY <2>4, <2>5, <2>8, <3>1, <3>2, <4>1
      <4>3. s[k] \in Nat /\ s[n] \in Nat
        BY <1>1, <4>1
      <4> QED BY <4>2, <4>3
    <3>4. l \in 1..(n - 1)
      BY <2>1, <3>3
    <3> QED BY <2>3, <2>5, <3>2, <3>4
  <2> QED BY <2>1, <2>6, <2>7, <2>8 DEF Descends, t
<1> QED BY <1>2, <1>3

\* The lists of entries that are open, one after each entry.
Opening(info) ==
    LET Open[i \in 0..Len(info)] == IF i = 0 THEN <<>> ELSE LET open == Open[i - 1] IN Scopes!ReadEntry(open, info[i], i)
    IN  Open

LEMMA OpeningRecurs ==
    ASSUME NEW info, Listed(info)
    PROVE  /\ Opening(info) \in [0..Len(info) -> Seq(Nat)]
           /\ Opening(info)[0] = <<>>
           /\ \A i \in 1..Len(info) : Opening(info)[i] = Scopes!ReadEntry(Opening(info)[i - 1], info[i], i)
<1> DEFINE n == Len(info)
           T == Seq(Nat)
           Read(open, i) == Scopes!ReadEntry(open, info[i], i)
           step == [x \in (1..n) \X T |-> Read(x[2], x[1])]
<1>1. n \in Nat /\ <<>> \in T
  BY DEF Listed
<1>2. \A open \in T : \A i \in 1..n : Read(open, i) \in T
  <2> SUFFICES ASSUME NEW open \in T, NEW i \in 1..n PROVE Read(open, i) \in T
    OBVIOUS
  <2>1. Append(open, i) \in T
    BY AppendProperties
  <2>2. Scopes!Front(open) \in T
    <3>1. Scopes!Front(open) = Front(open)
      BY DEF Scopes!Front, Front
    <3>2. open = <<>> => Front(open) = <<>>
      BY DEF Front
    <3>3. open # <<>> => Front(open) \in T
      BY FrontProperties
    <3> QED BY <3>1, <3>2, <3>3
  <2> HIDE DEF T
  <2> QED BY <2>1, <2>2 DEF Scopes!ReadEntry
<1> HIDE DEF Read
<1>3. step \in [(1..n) \X T -> T]
  <2> HIDE DEF T
  <2> QED BY <1>2
<1> HIDE DEF step
<1>4. PICK f \in [0..n -> T] : IsRecursion(f, n, <<>>, step)
  <2> HIDE DEF T
  <2> QED BY <1>1, <1>3, RecursionExists
<1>5. f = [i \in 0..n |-> IF i = 0 THEN <<>> ELSE Read(f[i - 1], i)]
  <2> HIDE DEF T
  <2>1. \A i \in 1..n : f[i - 1] \in T /\ <<i, f[i - 1]>> \in (1..n) \X T
    BY <1>1
  <2>2. \A i \in 1..n : f[i] = Read(f[i - 1], i)
    BY <1>4, <2>1 DEF IsRecursion, step
  <2> QED BY <1>1, <1>4, <2>2 DEF IsRecursion
<1>6. \E g : g = [i \in 0..n |-> IF i = 0 THEN <<>> ELSE Read(g[i - 1], i)]
  BY <1>5
<1> DEFINE g == Opening(info)
<1>7. g = [i \in 0..n |-> IF i = 0 THEN <<>> ELSE Read(g[i - 1], i)]
  BY <1>6, Zenon DEF Opening, Read
<1> HIDE DEF g
<1>8. g[0] = <<>> /\ \A i \in 1..n : g[i] = Read(g[i - 1], i)
  BY <1>1, <1>7
<1> DEFINE J == {i \in 0..n : g[i] \in T}
<1>9. 0 \in J /\ \A i \in 1..n : i - 1 \in J => i \in J
  <2> HIDE DEF T
  <2> QED BY <1>1, <1>2, <1>8
<1>10. 0..n \subseteq J
  <2> HIDE DEF J
  <2> QED BY <1>1, <1>9, Upwards
<1>11. g \in [0..n -> T]
  <2> HIDE DEF T
  <2> QED BY <1>7, <1>10
<1> QED BY <1>8, <1>11 DEF g, Read

\* The entries strictly around an entry.
Above(info, i) == ToSet(Scopes!Arounds(info)[i])

\* They are before it, and those around one of them are those before that one.
IsTree(info) ==
    \A i \in DOMAIN info :
        /\ Descends(Scopes!Arounds(info)[i])
        /\ Above(info, i) \subseteq 1..(i - 1)
        /\ \A a \in Above(info, i) : Above(info, a) = {b \in Above(info, i) : b < a}

LEMMA EntriesAreTree ==
    ASSUME NEW info, Listed(info)
    PROVE  IsTree(info)
<1> DEFINE n == Len(info)
           g == Opening(info)
           V(i) == ToSet(g[i])
           J == {i \in 0..n : /\ Descends(g[i]) /\ V(i) \subseteq 1..i
                              /\ \A a \in V(i) : V(a - 1) = {b \in V(i) : b < a}}
<1>1. n \in Nat /\ DOMAIN info = 1..n
  BY DEF Listed
<1>2. g[0] = <<>> /\ \A i \in 1..n : g[i] = Scopes!ReadEntry(g[i - 1], info[i], i)
  BY OpeningRecurs
<1>3. Scopes!Arounds(info) = [i \in 1..n |-> g[i - 1]]
  BY <1>1 DEF Scopes!Arounds, Opening
<1> HIDE DEF g
<1>4. 0 \in J
  <2>1. Descends(<<>>) /\ ToSet(<<>>) = {}
    BY EmptySeq DEF Descends, ToSet
  <2> QED BY <1>1, <1>2, <2>1
<1>5. ASSUME NEW i \in 1..n, i - 1 \in J PROVE i \in J
  <2> DEFINE s == g[i - 1]
             t == g[i]
             S == ToSet(s)
             T == ToSet(t)
  <2>1. Descends(s) /\ S \subseteq 1..(i - 1) /\ \A a \in S : V(a - 1) = {b \in S : b < a}
    BY <1>5
  <2>2. t = Scopes!Front(s) \/ t = Append(s, i) \/ t = s
    BY <1>2 DEF Scopes!ReadEntry
  <2>3. CASE t = s
    <3>1. S \subseteq 1..i
      BY <1>1, <2>1
    <3> QED BY <1>1, <2>1, <2>3, <3>1
  <2>4. CASE t = Append(s, i)
    <3>1. \A a \in S : a < i
      BY <1>1, <2>1
    <3>2. Descends(t) /\ T = S \cup {i}
      <4> HIDE DEF s, t
      <4> QED BY <2>1, <2>4, <3>1, AppendOpens
    <3>3. T \subseteq 1..i
      BY <1>1, <2>1, <3>2
    <3>4. ASSUME NEW a \in T PROVE V(a - 1) = {b \in T : b < a}
      <4>1. CASE a = i
        <5>1. V(a - 1) = S
          BY <4>1
        <5>2. S = {b \in T : b < i}
          <6> HIDE DEF S, T
          <6> QED BY <1>1, <3>1, <3>2
        <5> HIDE DEF S, T, V
        <5> QED BY <4>1, <5>1, <5>2
      <4>2. CASE a # i
        <5>1. a \in S /\ V(a - 1) = {b \in S : b < a} /\ a < i
          BY <2>1, <3>1, <3>2, <4>2
        <5>2. ~(i < a)
          BY <1>1, <2>1, <5>1
        <5> HIDE DEF S, T, V, s, t
        <5> QED BY <3>2, <5>1, <5>2
      <4> QED BY <4>1, <4>2
    <3> QED BY <1>1, <3>2, <3>3, <3>4
  <2>5. CASE t = Scopes!Front(s)
    <3>1. t = Front(s)
      BY <2>5 DEF Scopes!Front, Front
    <3>2. Descends(t) /\ T \subseteq S /\ \A a \in T, b \in S : b < a => b \in T
      <4> HIDE DEF s, t
      <4> QED BY <2>1, <3>1, FrontCloses
    <3>3. T \subseteq 1..i
      BY <1>1, <2>1, <3>2
    <3>4. ASSUME NEW a \in T PROVE V(a - 1) = {b \in T : b < a}
      <4>1. a \in S /\ V(a - 1) = {b \in S : b < a}
        BY <2>1, <3>2
      <4> HIDE DEF S, T, V, s, t
      <4> QED BY <3>2, <4>1
    <3> QED BY <1>1, <3>2, <3>3, <3>4
  <2> QED BY <2>2, <2>3, <2>4, <2>5
<1>6. 0..n \subseteq J
  <2> HIDE DEF J
  <2> QED BY <1>1, <1>4, <1>5, Upwards
<1>7. ASSUME NEW i \in 1..n
      PROVE  /\ Descends(Scopes!Arounds(info)[i])
             /\ Above(info, i) \subseteq 1..(i - 1)
             /\ \A a \in Above(info, i) : Above(info, a) = {b \in Above(info, i) : b < a}
  <2>1. \A k \in 1..n : Scopes!Arounds(info)[k] = g[k - 1] /\ Above(info, k) = V(k - 1)
    BY <1>3 DEF Above
  <2>2. i - 1 \in J
    <3>1. i - 1 \in 0..n
      BY <1>1
    <3> HIDE DEF J
    <3> QED BY <1>6, <3>1
  <2>3. /\ Descends(g[i - 1]) /\ V(i - 1) \subseteq 1..(i - 1)
        /\ \A a \in V(i - 1) : V(a - 1) = {b \in V(i - 1) : b < a}
    BY <2>2
  <2>4. \A a \in V(i - 1) : a \in 1..n
    BY <1>1, <2>3
  <2> HIDE DEF V
  <2> QED BY <2>1, <2>3, <2>4
<1> QED BY <1>1, <1>7 DEF IsTree

LEMMA AroundAbove ==
    ASSUME NEW info, Listed(info), NEW i \in DOMAIN info
    PROVE  ToSet(Around(info, i)) = Above(info, i) \cup {i}
<1> DEFINE s == Scopes!Arounds(info)[i]
<1>1. i \in Nat /\ Descends(s) /\ \A a \in ToSet(s) : a \in 1..(i - 1)
  BY EntriesAreTree DEF Listed, IsTree, Above
<1>2. \A a \in ToSet(s) : a < i
  BY <1>1
<1> HIDE DEF s
<1>3. ToSet(Append(s, i)) = ToSet(s) \cup {i}
  BY <1>1, <1>2, AppendOpens
<1> QED BY <1>3 DEF Around, Above, s

\* The entries below a place in the list around an entry are those after the one there.
LEMMA BelowPlace ==
    ASSUME NEW info, Listed(info), NEW i \in DOMAIN info, NEW k \in DOMAIN Scopes!Arounds(info)[i]
    PROVE  LET s == Scopes!Arounds(info)[i]
           IN  /\ s[k] \in Above(info, i)
               /\ \A j \in (k + 1)..Len(s) : s[j] \in Above(info, i) /\ s[j] > s[k]
               /\ \A b \in Above(info, i) : b > s[k] => \E j \in (k + 1)..Len(s) : s[j] = b
<1> DEFINE s == Scopes!Arounds(info)[i]
           n == Len(s)
<1>1. Descends(s)
  BY EntriesAreTree DEF IsTree
<1>2. n \in Nat /\ s \in [1..n -> Nat]
  BY <1>1, LenProperties DEF Descends
<1>3. \A j, l \in 1..n : j < l => s[j] < s[l]
  BY <1>1 DEF Descends
<1>4. Above(info, i) = {s[j] : j \in 1..n} /\ k \in 1..n
  BY <1>2 DEF Above, ToSet
<1> HIDE DEF s, n
<1>5. \A j \in (k + 1)..n : j \in 1..n /\ k < j
  BY <1>2, <1>4
<1>6. \A j \in (k + 1)..n : s[j] \in Above(info, i) /\ s[j] > s[k]
  <2> SUFFICES ASSUME NEW j \in (k + 1)..n PROVE s[j] \in Above(info, i) /\ s[j] > s[k]
    OBVIOUS
  <2>1. j \in 1..n /\ s[k] < s[j] /\ s[k] \in Nat /\ s[j] \in Nat
    BY <1>2, <1>3, <1>4, <1>5
  <2> QED BY <1>4, <2>1
<1>7. ASSUME NEW b \in Above(info, i), b > s[k] PROVE \E j \in (k + 1)..n : s[j] = b
  <2>1. PICK j \in 1..n : b = s[j]
    BY <1>4
  <2>2. s[j] \in Nat /\ s[k] \in Nat
    BY <1>2, <1>4
  <2>3. j # k /\ ~(j < k)
    BY <1>3, <1>4, <1>7, <2>1, <2>2
  <2>4. j \in (k + 1)..n
    BY <1>2, <1>4, <2>3
  <2> QED BY <2>1, <2>4
<1> QED BY <1>4, <1>6, <1>7 DEF s, n

\* A walk comes to the entries under a scope whose entries in between are open.
LEMMA ReachedUnder ==
    ASSUME NEW info, Listed(info), NEW scope, NEW open, NEW i
    PROVE  i \in Scopes!Reached(info, scope, open) <=>
                /\ i \in DOMAIN info /\ scope \in Above(info, i)
                /\ \A b \in Above(info, i) : b > scope => b \in open
<1> DEFINE s == Scopes!Arounds(info)[i]
<1>1. i \in Scopes!Reached(info, scope, open) <=>
        i \in DOMAIN info /\ \E k \in DOMAIN s : s[k] = scope /\ \A j \in (k + 1)..Len(s) : s[j] \in open
  BY DEF Scopes!Reached
<1>2. ASSUME i \in DOMAIN info, NEW k \in DOMAIN s, s[k] = scope, \A j \in (k + 1)..Len(s) : s[j] \in open
      PROVE  scope \in Above(info, i) /\ \A b \in Above(info, i) : b > scope => b \in open
  BY <1>2, BelowPlace
<1>3. ASSUME i \in DOMAIN info, scope \in Above(info, i), \A b \in Above(info, i) : b > scope => b \in open
      PROVE  \E k \in DOMAIN s : s[k] = scope /\ \A j \in (k + 1)..Len(s) : s[j] \in open
  <2>1. PICK k \in DOMAIN s : s[k] = scope
    BY <1>3 DEF Above, ToSet
  <2>2. \A j \in (k + 1)..Len(s) : s[j] \in Above(info, i) /\ s[j] > scope
    BY <1>3, <2>1, BelowPlace
  <2> QED BY <1>3, <2>1, <2>2
<1> HIDE DEF s
<1> QED BY <1>1, <1>2, <1>3

\* How functions, inlined calls and declarations are nested.
NestedAbove(info, i) ==
    /\ info[i].tag = "subprogram" => \A b \in Above(info, i) : info[b].tag \notin ScopeTags
    /\ info[i].tag = "inlined" => \E f \in Above(info, i) : info[f].tag = "subprogram"
    /\ info[i].tag \in {"inlined", "param", "variable"} =>
            \A f \in Above(info, i) : info[f].tag = "subprogram" =>
                \A b \in Above(info, i) : b > f => info[b].tag \in {"block", "inlined"}

LEMMA NestedEntries ==
    ASSUME NEW info, Listed(info), NEW i \in DOMAIN info, Nested(info, i)
    PROVE  NestedAbove(info, i)
<1> DEFINE s == Scopes!Arounds(info)[i]
           functions == {k \in DOMAIN s : info[s[k]].tag = "subprogram"}
<1>1. /\ info[i].tag = "subprogram" => \A k \in DOMAIN s : info[s[k]].tag \notin ScopeTags
      /\ info[i].tag = "inlined" => functions # {}
      /\ info[i].tag \in {"inlined", "param", "variable"} =>
            \A k \in functions : \A j \in (k + 1)..Len(s) : info[s[j]].tag \in {"block", "inlined"}
  BY DEF Nested
<1>2. Above(info, i) = {s[k] : k \in DOMAIN s}
  BY DEF Above, ToSet
<1>3. ASSUME NEW k \in DOMAIN s, NEW b \in Above(info, i), b > s[k]
      PROVE  \E j \in (k + 1)..Len(s) : s[j] = b
  BY <1>3, BelowPlace
<1> HIDE DEF s
<1>4. info[i].tag = "subprogram" => \A b \in Above(info, i) : info[b].tag \notin ScopeTags
  BY <1>1, <1>2
<1>5. info[i].tag = "inlined" => \E f \in Above(info, i) : info[f].tag = "subprogram"
  BY <1>1, <1>2
<1>6. ASSUME info[i].tag \in {"inlined", "param", "variable"}, NEW f \in Above(info, i), info[f].tag = "subprogram",
             NEW b \in Above(info, i), b > f
      PROVE  info[b].tag \in {"block", "inlined"}
  <2>1. PICK k \in DOMAIN s : f = s[k]
    BY <1>2
  <2>2. PICK j \in (k + 1)..Len(s) : s[j] = b
    BY <1>3, <1>6, <2>1
  <2>3. k \in functions
    BY <1>6, <2>1
  <2> HIDE DEF functions
  <2> QED BY <1>1, <1>6, <2>2, <2>3
<1> QED BY <1>4, <1>5, <1>6 DEF NestedAbove

-----------------------------------------------------------------------------
\* The functions with a contiguous range, and what the compiler promises of them.
ContiguousFns(info) == {i \in Scopes!Subprograms(info) : Scopes!HasLowHigh(info[i])}

FnsApart(info) ==
    /\ Listed(info)
    /\ \A i \in ContiguousFns(info) : info[i].low \in Nat /\ info[i].size \in Nat \ {0}
    /\ \A i, j \in ContiguousFns(info) : i # j => Apart(info[i], info[j])

\* They are listed by their low addresses.
LEMMA ContiguousLists ==
    ASSUME NEW info, FnsApart(info)
    PROVE  LET S == ContiguousFns(info)
               n == Cardinality(S)
               o == Scopes!Contiguous(info)
           IN  /\ n \in Nat /\ o \in [1..n -> S] /\ Len(o) = n
               /\ \A i \in S : \E k \in 1..n : o[k] = i
               /\ \A k, l \in 1..n : k < l => o[k] # o[l] /\ info[o[k]].low <= info[o[l]].low
<1> DEFINE S == ContiguousFns(info)
           n == Cardinality(S)
           first(i, j) == info[i].low < info[j].low \/ (info[i].low = info[j].low /\ i < j)
           before == {p \in S \X S : first(p[1], p[2])}
           o == Scopes!Contiguous(info)
<1>1. S \subseteq 1..Len(info) /\ Len(info) \in Nat /\ \A i \in S : info[i].low \in Nat
  BY DEF FnsApart, Listed, ContiguousFns, Scopes!Subprograms
<1>2. o = Scopes!InOrder(S, before)
  BY DEF Scopes!Contiguous, ContiguousFns
<1> HIDE DEF S, o
<1>3. IsFiniteSet(S)
  <2>1. IsFiniteSet(1..Len(info))
    BY <1>1, FS_Interval
  <2> QED BY <1>1, <2>1, FS_Subset
<1>4. Orders(before, S)
  <2>1. \A i \in S : i \in Int /\ info[i].low \in Int
    BY <1>1
  <2>2. \A i, j \in S : <<i, j>> \in before <=> first(i, j)
    OBVIOUS
  <2>3. \A i \in S : ~first(i, i)
    BY <2>1
  <2>4. \A i, j \in S : i # j => first(i, j) \/ first(j, i)
    BY <2>1
  <2>5. \A i, j, k \in S : first(i, j) /\ first(j, k) => first(i, k)
    BY <2>1
  <2> HIDE DEF before, first
  <2> QED BY <2>2, <2>3, <2>4, <2>5 DEF Orders
<1>5. \A i, j \in S : <<i, j>> \in before => i # j /\ info[i].low <= info[j].low
  <2>1. \A i \in S : i \in Int /\ info[i].low \in Int
    BY <1>1
  <2> QED BY <2>1
<1> HIDE DEF before
<1>6. /\ n \in Nat /\ o \in [1..n -> S]
      /\ \A i \in S : \E k \in 1..n : o[k] = i
      /\ \A k, l \in 1..n : k < l => <<o[k], o[l]>> \in before
  BY <1>2, <1>3, <1>4, InOrderLists
<1>7. Len(o) = n
  BY <1>6, SeqDef, LenProperties
<1> QED BY <1>5, <1>6, <1>7 DEF S, o

\* The place of the function in the list that covers an offset, 0 for none.
Spans(fn, offset) == offset \in fn.low..(fn.low + fn.size - 1)
IsPlace(fns, info, offset, c) ==
    c \in 0..Len(fns) /\ \A k \in 1..Len(fns) : Spans(info[fns[k]], offset) <=> k = c

\* There is at most one, and the functions before it end before the offset, those after
\* it begin after the offset.
LEMMA PlaceExists ==
    ASSUME NEW info, FnsApart(info), NEW offset \in Nat, offset < Tombstone
    PROVE  LET fns == Scopes!Contiguous(info)
           IN  \E c : /\ IsPlace(fns, info, offset, c)
                      /\ c # 0 => \A k \in 1..Len(fns) : /\ k < c => offset >= info[fns[k]].low + info[fns[k]].size
                                                         /\ k > c => offset < info[fns[k]].low
<1> DEFINE S == ContiguousFns(info)
           fns == Scopes!Contiguous(info)
           n == Len(fns)
           lo(k) == info[fns[k]].low
           up(k) == lo(k) + info[fns[k]].size
<1>1. n \in Nat /\ fns \in [1..n -> S] /\ \A k, l \in 1..n : k < l => fns[k] # fns[l] /\ lo(k) <= lo(l)
  BY ContiguousLists
<1>2. \A k \in 1..n : lo(k) \in Nat /\ up(k) \in Nat /\ lo(k) < up(k)
  BY <1>1 DEF FnsApart
<1>3. \A k, l \in 1..n : fns[k] # fns[l] => up(k) <= lo(l) \/ up(l) <= lo(k) \/ (lo(k) = Tombstone /\ lo(l) = Tombstone)
  <2>1. \A k \in 1..n : fns[k] \in S
    BY <1>1
  <2> QED BY <2>1 DEF FnsApart, Apart
<1>4. \A k \in 1..n : Spans(info[fns[k]], offset) <=> (lo(k) <= offset /\ offset < up(k))
  <2> SUFFICES ASSUME NEW k \in 1..n PROVE Spans(info[fns[k]], offset) <=> (lo(k) <= offset /\ offset < up(k))
    OBVIOUS
  <2>1. info[fns[k]].low \in Nat /\ info[fns[k]].size \in Nat
    BY <1>1 DEF FnsApart
  <2> QED BY <2>1 DEF Spans
<1> HIDE DEF fns, n, lo, up
<1>5. ASSUME NEW k \in 1..n, NEW c \in 1..n, lo(c) <= offset, offset < up(c)
      PROVE  /\ k < c => offset >= up(k)
             /\ k > c => offset < lo(k)
  <2>1. lo(k) \in Nat /\ up(k) \in Nat /\ lo(k) < up(k) /\ lo(c) \in Nat /\ up(c) \in Nat /\ lo(c) < up(c)
    BY <1>2
  <2>2. k < c => lo(k) <= lo(c) /\ (up(k) <= lo(c) \/ up(c) <= lo(k) \/ lo(c) = Tombstone)
    BY <1>1, <1>3
  <2>3. k > c => lo(c) <= lo(k) /\ (up(k) <= lo(c) \/ up(c) <= lo(k) \/ lo(c) = Tombstone)
    BY <1>1, <1>3
  <2>4. lo(c) # Tombstone
    BY <1>5, <2>1
  <2> QED BY <1>5, <2>1, <2>2, <2>3, <2>4
<1>6. CASE \E c \in 1..n : lo(c) <= offset /\ offset < up(c)
  <2>1. PICK c \in 1..n : lo(c) <= offset /\ offset < up(c)
    BY <1>6
  <2>2. \A k \in 1..n : (k < c => offset >= up(k)) /\ (k > c => offset < lo(k))
    BY <1>5, <2>1
  <2>3. ASSUME NEW k \in 1..n PROVE Spans(info[fns[k]], offset) <=> k = c
    <3>1. lo(k) \in Nat /\ up(k) \in Nat /\ (k < c => offset >= up(k)) /\ (k > c => offset < lo(k))
      BY <1>2, <2>2
    <3> QED BY <1>1, <1>4, <2>1, <3>1
  <2>4. c \in 0..n
    BY <1>1
  <2>5. IsPlace(fns, info, offset, c)
    BY <2>3, <2>4 DEF IsPlace, n
  <2> QED BY <2>2, <2>5 DEF fns, n, lo, up
<1>7. CASE ~ \E c \in 1..n : lo(c) <= offset /\ offset < up(c)
  <2>1. \A k \in 1..n : ~Spans(info[fns[k]], offset) /\ k # 0
    BY <1>1, <1>4, <1>7
  <2>2. IsPlace(fns, info, offset, 0)
    BY <1>1, <2>1 DEF IsPlace, n
  <2> QED BY <2>2 DEF fns
<1> QED BY <1>6, <1>7

\* One turn of the binary search for a function, and what the search comes to.
Intervals(n) == [lo : 0..n, hi : -1..(n - 1)]
Narrowed(f, fns, info, offset, s) ==
    LET mid == (s.lo + s.hi) \div 2
        fn  == info[fns[mid + 1]]
    IN  IF s.lo > s.hi THEN 0
        ELSE IF offset < fn.low THEN f[[lo |-> s.lo, hi |-> mid - 1]]
        ELSE IF offset >= fn.low + fn.size THEN f[[lo |-> mid + 1, hi |-> s.hi]]
        ELSE fns[mid + 1]
Placed(fns, c, s) == IF c # 0 /\ s.lo <= c - 1 /\ c - 1 <= s.hi THEN fns[c] ELSE 0

\* A place splits the list: the functions before it end before the offset.
Splits(fns, info, offset, c) ==
    /\ IsPlace(fns, info, offset, c)
    /\ c # 0 => \A k \in 1..Len(fns) : /\ k < c => offset >= info[fns[k]].low + info[fns[k]].size
                                       /\ k > c => offset < info[fns[k]].low
    /\ \A k \in 1..Len(fns) : info[fns[k]].low \in Nat /\ info[fns[k]].size \in Nat \ {0}

\* One probe of the search does not change what it comes to.
LEMMA PlacedStep ==
    ASSUME NEW fns, NEW info, NEW offset \in Nat, NEW c, Splits(fns, info, offset, c), NEW n, n = Len(fns), n \in Nat,
           NEW s \in Intervals(n), NEW f,
           s.lo <= s.hi => \A t \in Intervals(n) : t.hi - t.lo < s.hi - s.lo => f[t] = Placed(fns, c, t)
    PROVE  Narrowed(f, fns, info, offset, s) = Placed(fns, c, s)
<1> DEFINE mid == (s.lo + s.hi) \div 2
           up == [lo |-> mid + 1, hi |-> s.hi]
           down == [lo |-> s.lo, hi |-> mid - 1]
           low == info[fns[mid + 1]].low
           high == low + info[fns[mid + 1]].size
<1>1. s.lo \in 0..n /\ s.hi \in -1..(n - 1)
  BY DEF Intervals
<1>2. c \in 0..n /\ \A k \in 1..n : Spans(info[fns[k]], offset) <=> k = c
  BY DEF Splits, IsPlace
<1>3. CASE s.lo > s.hi
  BY <1>1, <1>2, <1>3 DEF Narrowed, Placed
<1>4. CASE s.lo <= s.hi
  <2>1. mid \in s.lo..s.hi /\ mid + 1 \in 1..n
    <3>1. \A i \in Nat, j \in Int : i <= j => (i + j) \div 2 \in i..j
      OBVIOUS
    <3>2. mid \in s.lo..s.hi
      BY <1>1, <1>4, <3>1
    <3> HIDE DEF mid
    <3> QED BY <1>1, <3>2
  <2>2. Narrowed(f, fns, info, offset, s) = IF offset < low THEN f[down] ELSE IF offset >= high THEN f[up] ELSE fns[mid + 1]
    BY <1>1, <1>4 DEF Narrowed
  <2> HIDE DEF mid
  <2>3. up \in Intervals(n) /\ down \in Intervals(n)
    BY <1>1, <2>1 DEF Intervals
  <2>4. up.hi - up.lo < s.hi - s.lo /\ down.hi - down.lo < s.hi - s.lo
    BY <1>1, <2>1
  <2>5. f[up] = Placed(fns, c, up) /\ f[down] = Placed(fns, c, down)
    <3> HIDE DEF up, down
    <3> QED BY <1>4, <2>3, <2>4
  <2>6. low \in Nat /\ high \in Nat /\ low < high
    BY <2>1 DEF Splits
  <2>7. Spans(info[fns[mid + 1]], offset) <=> (low <= offset /\ offset < high)
    <3>1. info[fns[mid + 1]].low \in Nat /\ info[fns[mid + 1]].size \in Nat
      BY <2>1 DEF Splits
    <3> QED BY <3>1 DEF Spans
  <2>8. /\ low <= offset /\ offset < high <=> mid + 1 = c
        /\ c # 0 => (mid + 1 < c => offset >= high) /\ (mid + 1 > c => offset < low)
    BY <1>2, <2>1, <2>7 DEF Splits
  <2> HIDE DEF low, high
  <2>9. CASE offset < low
    <3>1. c = 0 \/ mid + 1 > c
      BY <1>2, <2>1, <2>6, <2>8, <2>9
    <3>2. Placed(fns, c, down) = Placed(fns, c, s)
      BY <1>1, <1>2, <2>1, <3>1 DEF Placed
    <3> QED BY <2>2, <2>5, <2>9, <3>2
  <2>10. CASE offset >= high
    <3>1. (c = 0 \/ mid + 1 < c) /\ ~(offset < low)
      BY <1>2, <2>1, <2>6, <2>8, <2>10
    <3>2. Placed(fns, c, up) = Placed(fns, c, s)
      BY <1>1, <1>2, <2>1, <3>1 DEF Placed
    <3> QED BY <2>2, <2>5, <2>10, <3>1, <3>2
  <2>11. CASE low <= offset /\ offset < high
    <3>1. mid + 1 = c
      BY <2>8, <2>11
    <3>2. ~(offset < low) /\ ~(offset >= high)
      BY <2>6, <2>11
    <3>3. Placed(fns, c, s) = fns[mid + 1]
      BY <1>1, <1>2, <2>1, <3>1 DEF Placed
    <3> QED BY <2>2, <3>2, <3>3
  <2>12. offset < low \/ offset >= high \/ (low <= offset /\ offset < high)
    BY <2>6
  <2> QED BY <2>9, <2>10, <2>11, <2>12
<1> QED BY <1>1, <1>3, <1>4

\* The function the binary search is an application of.
Narrowing(fns, info, offset) ==
    LET n == Len(fns)
        Search[s \in [lo : 0..n, hi : -1..(n - 1)]] ==
            LET mid == (s.lo + s.hi) \div 2
                fn  == info[fns[mid + 1]]
            IN  IF s.lo > s.hi THEN 0
                ELSE IF offset < fn.low THEN Search[[lo |-> s.lo, hi |-> mid - 1]]
                ELSE IF offset >= fn.low + fn.size THEN Search[[lo |-> mid + 1, hi |-> s.hi]]
                ELSE fns[mid + 1]
    IN  Search

\* The search answers with the function at the place of the offset.
LEMMA SearchFinds ==
    ASSUME NEW fns, NEW info, NEW offset \in Nat, Len(fns) \in Nat, NEW c, Splits(fns, info, offset, c)
    PROVE  Scopes!FindContiguous(fns, info, offset) = IF c = 0 THEN 0 ELSE fns[c]
<1> DEFINE n == Len(fns)
           f == Narrowing(fns, info, offset)
           start == [lo |-> 0, hi |-> n - 1]
<1>1. n \in Nat
  OBVIOUS
<1>2. Scopes!FindContiguous(fns, info, offset) = f[start]
  BY DEF Scopes!FindContiguous, Narrowing
<1>3. f = [s \in Intervals(n) |-> Narrowed(f, fns, info, offset, s)]
  <2> DEFINE g == [s \in Intervals(n) |-> Placed(fns, c, s)]
  <2>1. \A s \in Intervals(n) : Narrowed(g, fns, info, offset, s) = Placed(fns, c, s)
    <3>1. \A s \in Intervals(n) : g[s] = Placed(fns, c, s)
      OBVIOUS
    <3> HIDE DEF g
    <3> QED BY <1>1, <3>1, PlacedStep
  <2>2. g = [s \in Intervals(n) |-> Narrowed(g, fns, info, offset, s)]
    BY <2>1
  <2>3. \E h : h = [s \in Intervals(n) |-> Narrowed(h, fns, info, offset, s)]
    BY <2>2
  <2> HIDE DEF g
  <2> QED BY <2>3, Zenon DEF Narrowing, Intervals, Narrowed
<1> HIDE DEF f
<1> DEFINE Size(s) == IF s.lo > s.hi THEN 0 ELSE s.hi - s.lo + 1
           Wrong == {s \in Intervals(n) : f[s] # Placed(fns, c, s)}
<1>4. ASSUME Wrong # {} PROVE FALSE
  <2> DEFINE Sizes == {Size(s) : s \in Wrong}
  <2>1. Sizes \subseteq Nat /\ Sizes # {}
    BY <1>1, <1>4 DEF Intervals
  <2>2. PICK z \in Sizes : \A y \in Sizes : z <= y
    <3> HIDE DEF Sizes
    <3> QED BY <2>1, Smallest
  <2>3. PICK s \in Wrong : \A t \in Wrong : Size(s) <= Size(t)
    BY <2>2
  <2>4. s.lo <= s.hi => \A t \in Intervals(n) : t.hi - t.lo < s.hi - s.lo => f[t] = Placed(fns, c, t)
    <3> SUFFICES ASSUME s.lo <= s.hi, NEW t \in Intervals(n), t.hi - t.lo < s.hi - s.lo, t \in Wrong
                 PROVE  FALSE
      OBVIOUS
    <3>1. /\ s.lo \in Int /\ s.hi \in Int /\ t.lo \in Int /\ t.hi \in Int
      BY <1>1 DEF Intervals
    <3>2. Size(s) <= Size(t)
      BY <2>3
    <3> QED BY <3>1, <3>2
  <2>5. Narrowed(f, fns, info, offset, s) = Placed(fns, c, s)
    BY <1>1, <2>4, PlacedStep
  <2> QED BY <1>3, <2>5
<1>5. start \in Intervals(n)
  BY <1>1 DEF Intervals
<1>6. f[start] = Placed(fns, c, start)
  BY <1>4, <1>5
<1>7. c \in 0..n
  BY DEF Splits, IsPlace
<1>8. Placed(fns, c, start) = IF c = 0 THEN 0 ELSE fns[c]
  BY <1>1, <1>7 DEF Placed
<1> HIDE DEF start
<1> QED BY <1>2, <1>6, <1>8

-----------------------------------------------------------------------------
\* What a compiled image says of its entries at an offset.
Described(unit, offset) ==
    LET info == unit.info
    IN  /\ Listed(info) /\ IsTree(info) /\ FnsApart(info) /\ offset \in Nat /\ offset < Tombstone
        /\ \A i \in DOMAIN info : NestedAbove(info, i)
        /\ \A i \in DOMAIN info : info[i].tag \in ScopeTags => Encoded(unit, i, offset)
        /\ \A i, j \in DOMAIN info : info[i].tag \in CallTags /\ info[j].tag \in CallTags =>
                \/ i \in Above(info, j) \cup {j} \/ j \in Above(info, i) \cup {i}
                \/ info[i].extent \cap info[j].extent = {}
        /\ \A i \in DOMAIN info : info[i].tag \in CallTags => Named(info, i)

LEMMA ScopesAreDescribed ==
    ASSUME NEW image, ScopesDescribed(image), NEW offset \in Offsets
    PROVE  Described(image.unit, offset)
<1> DEFINE unit == image.unit
           info == unit.info
           with(tags) == {i \in DOMAIN info : info[i].tag \in tags}
<1>1. /\ Listed(info)
      /\ \A i \in DOMAIN info : Nested(info, i)
      /\ \A i, j \in with(CallTags) : \/ i \in ToSet(Around(info, j)) \/ j \in ToSet(Around(info, i))
                                       \/ info[i].extent \cap info[j].extent = {}
      /\ offset < Tombstone /\ \A i \in with(ScopeTags) : Encoded(unit, i, offset)
      /\ \A i \in with(CallTags) : Named(info, i)
  BY DEF ScopesDescribed
<1>2. FnsApart(info)
  <2>1. ContiguousFns(info) = {i \in with({"subprogram"}) : Scopes!HasLowHigh(info[i])}
    BY DEF ContiguousFns, Scopes!Subprograms
  <2>2. /\ \A i \in {j \in with({"subprogram"}) : Scopes!HasLowHigh(info[j])} : info[i].low \in Nat /\ info[i].size \in Nat \ {0}
        /\ \A i, j \in {k \in with({"subprogram"}) : Scopes!HasLowHigh(info[k])} : i # j => Apart(info[i], info[j])
    BY DEF ScopesDescribed
  <2> HIDE DEF with
  <2> QED BY <1>1, <2>1, <2>2 DEF FnsApart
<1>3. offset \in Nat
  BY OffsetsAssumption
<1>4. \A i \in DOMAIN info : NestedAbove(info, i)
  BY <1>1, NestedEntries
<1>5. IsTree(info)
  BY <1>1, EntriesAreTree
<1>6. ASSUME NEW i \in DOMAIN info, NEW j \in DOMAIN info, info[i].tag \in CallTags, info[j].tag \in CallTags
      PROVE  \/ i \in Above(info, j) \cup {j} \/ j \in Above(info, i) \cup {i}
             \/ info[i].extent \cap info[j].extent = {}
  <2>1. ToSet(Around(info, i)) = Above(info, i) \cup {i} /\ ToSet(Around(info, j)) = Above(info, j) \cup {j}
    BY <1>1, AroundAbove
  <2> QED BY <1>1, <1>6, <2>1
<1>7. \A i \in DOMAIN info : info[i].tag \in ScopeTags => Encoded(unit, i, offset)
  BY <1>1
<1>8. \A i \in DOMAIN info : info[i].tag \in CallTags => Named(info, i)
  BY <1>1
<1> QED BY <1>1, <1>2, <1>3, <1>4, <1>5, <1>6, <1>7, <1>8 DEF Described

\* An entry is live where the attributes of every scope around it cover the offset.
LEMMA LiveCovers ==
    ASSUME NEW unit, NEW offset, Described(unit, offset), NEW i \in DOMAIN unit.info
    PROVE  Live(unit.info, i, offset) <=>
                \A b \in Above(unit.info, i) \cup {i} :
                    unit.info[b].tag \in ScopeTags => ScopeCovers(unit, unit.info[b], offset)
<1> DEFINE info == unit.info
           around == Above(info, i) \cup {i}
           Within(b) == info[b].tag \in ScopeTags => offset \in info[b].extent
           Covered(b) == info[b].tag \in ScopeTags => ScopeCovers(unit, info[b], offset)
<1>1. Listed(info) /\ IsTree(info)
  BY DEF Described
<1>2. Live(info, i, offset) <=> \A b \in around : Within(b)
  BY <1>1, AroundAbove DEF Live
<1>3. around \subseteq DOMAIN info /\ around \subseteq Nat /\ DOMAIN info \subseteq Nat
  BY <1>1 DEF Listed, IsTree
<1>4. \A b \in around : Above(info, b) = {c \in around : c < b}
  <2>1. /\ Above(info, i) \subseteq 1..(i - 1) /\ i \in Nat
        /\ \A a \in Above(info, i) : Above(info, a) = {c \in Above(info, i) : c < a}
    BY <1>1, <1>3 DEF IsTree
  <2> QED BY <2>1
<1>5. ASSUME NEW b \in around, \A c \in around : c < b => Within(c)
      PROVE  Within(b) <=> Covered(b)
  <2>1. \A k \in Above(info, b) : Within(k)
    BY <1>4, <1>5
  <2>2. info[b].tag \in ScopeTags => Encoded(unit, b, offset)
    BY <1>3 DEF Described
  <2>3. Encoded(unit, b, offset) => (ScopeCovers(unit, info[b], offset) <=> offset \in info[b].extent)
    BY <2>1 DEF Encoded, Above
  <2> QED BY <2>2, <2>3
<1> HIDE DEF around, Within, Covered
<1>6. ASSUME \A b \in around : Within(b) PROVE \A b \in around : Covered(b)
  BY <1>5, <1>6
<1>7. ASSUME \A b \in around : Covered(b) PROVE \A b \in around : Within(b)
  <2> SUFFICES ASSUME {b \in around : ~Within(b)} # {} PROVE FALSE
    OBVIOUS
  <2>1. PICK b \in {c \in around : ~Within(c)} : \A c \in {d \in around : ~Within(d)} : b <= c
    BY <1>3, Smallest
  <2>2. \A c \in around : c < b => Within(c)
    <3>1. \A c \in around : ~Within(c) => b <= c
      BY <2>1
    <3>2. \A c \in around : b \in Nat /\ c \in Nat
      BY <1>3, <2>1
    <3> QED BY <3>1, <3>2
  <2> QED BY <1>5, <1>7, <2>1, <2>2
<1> QED BY <1>2, <1>6, <1>7 DEF around, Covered

-----------------------------------------------------------------------------
\* The function recorded at an offset covers it, and without one no function does.
LEMMA RecordCovers ==
    ASSUME NEW unit, NEW offset, Described(unit, offset)
    PROVE  LET fn == Scopes!RecordAt(unit, offset)
               functions == {i \in DOMAIN unit.info : unit.info[i].tag = "subprogram"}
               covering == {i \in functions : ScopeCovers(unit, unit.info[i], offset)}
           IN  IF fn = 0 THEN covering = {} ELSE fn \in covering
<1> DEFINE info == unit.info
           fn == Scopes!RecordAt(unit, offset)
           fns == Scopes!Contiguous(info)
           S == ContiguousFns(info)
           functions == {i \in DOMAIN info : info[i].tag = "subprogram"}
           covering == {i \in functions : ScopeCovers(unit, info[i], offset)}
           ranged == {i \in Scopes!Ranged(info) : Scopes!ListCovers(unit, info[i], offset)}
           found == Scopes!FindContiguous(fns, info, offset)
<1>1. /\ Listed(info) /\ FnsApart(info) /\ offset \in Nat /\ offset < Tombstone
      /\ DOMAIN info \subseteq Nat \ {0}
  BY DEF Described, Listed
<1>2. \A i \in functions : i \in covering <=>
        IF Scopes!HasLowHigh(info[i]) THEN Spans(info[i], offset)
        ELSE info[i].ranges # Absent /\ Scopes!ListCovers(unit, info[i], offset)
  BY DEF ScopeCovers, Spans
<1>3. S = {i \in functions : Scopes!HasLowHigh(info[i])}
  BY DEF ContiguousFns, Scopes!Subprograms
<1>4. ranged = {i \in functions : /\ ~Scopes!HasLowHigh(info[i]) /\ info[i].ranges # Absent
                                  /\ Scopes!ListCovers(unit, info[i], offset)}
  BY DEF Scopes!Ranged, Scopes!Subprograms, Absent, Scopes!Absent
<1>5. fn = IF found # 0 THEN found ELSE IF ranged # {} THEN Min(ranged) ELSE 0
  BY DEF Scopes!RecordAt, Scopes!Min, Min
<1>6. PICK c : Splits(fns, info, offset, c)
  <2>1. PICK c : /\ IsPlace(fns, info, offset, c)
                 /\ c # 0 => \A k \in 1..Len(fns) : /\ k < c => offset >= info[fns[k]].low + info[fns[k]].size
                                                    /\ k > c => offset < info[fns[k]].low
    BY <1>1, PlaceExists
  <2>2. fns \in [1..Len(fns) -> S]
    BY <1>1, ContiguousLists
  <2>3. \A k \in 1..Len(fns) : info[fns[k]].low \in Nat /\ info[fns[k]].size \in Nat \ {0}
    BY <1>1, <2>2 DEF FnsApart
  <2> HIDE DEF fns
  <2> QED BY <2>1, <2>3 DEF Splits
<1>7. /\ Len(fns) \in Nat /\ fns \in [1..Len(fns) -> S]
      /\ \A i \in S : \E k \in 1..Len(fns) : fns[k] = i
  BY <1>1, ContiguousLists
<1>8. found = IF c = 0 THEN 0 ELSE fns[c]
  BY <1>1, <1>6, <1>7, SearchFinds
<1>9. c \in 0..Len(fns) /\ \A k \in 1..Len(fns) : Spans(info[fns[k]], offset) <=> k = c
  BY <1>6 DEF Splits, IsPlace
<1> HIDE DEF fn, fns, found, S, ranged, covering
<1>10. CASE c # 0
  <2>1. c \in 1..Len(fns)
    BY <1>7, <1>9, <1>10
  <2>2. fns[c] \in S /\ Spans(info[fns[c]], offset)
    BY <1>7, <1>9, <2>1
  <2>3. fns[c] \in covering /\ fns[c] # 0
    BY <1>1, <1>2, <1>3, <2>2
  <2>4. fn = fns[c]
    BY <1>5, <1>8, <1>10, <2>3
  <2> QED BY <2>3, <2>4 DEF fn, covering
<1>11. CASE c = 0 /\ ranged # {}
  <2>1. ranged \subseteq Nat
    BY <1>1, <1>4
  <2>2. Min(ranged) \in ranged
    BY <1>11, <2>1, MinIsLeast
  <2>3. Min(ranged) \in covering /\ Min(ranged) # 0
    BY <1>1, <1>2, <1>4, <2>2
  <2>4. fn = Min(ranged)
    BY <1>5, <1>8, <1>11
  <2> QED BY <2>3, <2>4 DEF fn, covering
<1>12. CASE c = 0 /\ ranged = {}
  <2>1. fn = 0
    BY <1>5, <1>8, <1>12
  <2>2. ASSUME NEW i \in functions, i \in covering PROVE FALSE
    <3>1. CASE Scopes!HasLowHigh(info[i])
      <4>1. i \in S /\ Spans(info[i], offset)
        BY <1>2, <1>3, <2>2, <3>1
      <4>2. PICK k \in 1..Len(fns) : fns[k] = i
        BY <1>7, <4>1
      <4>3. k = c /\ k # 0
        BY <1>9, <4>1, <4>2
      <4> QED BY <1>12, <4>3
    <3>2. CASE ~Scopes!HasLowHigh(info[i])
      BY <1>2, <1>4, <1>12, <2>2, <3>2
    <3> QED BY <3>1, <3>2
  <2>3. covering = {}
    BY <2>2 DEF covering
  <2> QED BY <2>1, <2>3 DEF fn, covering
<1> QED BY <1>10, <1>11, <1>12

\* It is the one function that is live there.
LEMMA FunctionLive ==
    ASSUME NEW unit, NEW offset, Described(unit, offset)
    PROVE  LET fn == Scopes!RecordAt(unit, offset)
           IN  /\ fn # 0 => fn \in DOMAIN unit.info /\ unit.info[fn].tag = "subprogram"
               /\ \A i \in DOMAIN unit.info : unit.info[i].tag = "subprogram" =>
                        (Live(unit.info, i, offset) <=> i = fn)
<1> DEFINE info == unit.info
           fn == Scopes!RecordAt(unit, offset)
           functions == {i \in DOMAIN unit.info : unit.info[i].tag = "subprogram"}
           covering == {i \in functions : ScopeCovers(unit, info[i], offset)}
<1>1. IF fn = 0 THEN covering = {} ELSE fn \in covering
  BY RecordCovers
<1>2. DOMAIN info \subseteq Nat \ {0} /\ Listed(info)
  BY DEF Described, Listed
<1> HIDE DEF fn
<1>3. ASSUME NEW i \in functions PROVE Live(info, i, offset) <=> i \in covering
  <2>1. \A b \in Above(info, i) : info[b].tag \notin ScopeTags
    BY DEF Described, NestedAbove
  <2>2. info[i].tag \in ScopeTags
    BY DEF ScopeTags, CallTags
  <2> QED BY <2>1, <2>2, LiveCovers
<1>4. ASSUME NEW i \in functions, NEW j \in functions, i \in covering, j \in covering PROVE i = j
  <2>1. Live(info, i, offset) /\ Live(info, j, offset)
    BY <1>3, <1>4
  <2>2. info[i].tag \in CallTags /\ info[j].tag \in CallTags /\ info[i].tag \in ScopeTags /\ info[j].tag \in ScopeTags
    BY DEF ScopeTags, CallTags
  <2>3. offset \in info[i].extent \cap info[j].extent
    <3>1. i \in ToSet(Around(info, i)) /\ j \in ToSet(Around(info, j))
      BY <1>2, AroundAbove
    <3> QED BY <2>1, <2>2, <3>1 DEF Live
  <2>4. i \in Above(info, j) \cup {j} \/ j \in Above(info, i) \cup {i}
    BY <2>2, <2>3 DEF Described
  <2>5. i \notin Above(info, j) /\ j \notin Above(info, i)
    BY <2>2 DEF Described, NestedAbove
  <2> QED BY <2>4, <2>5
<1>5. ASSUME NEW i \in functions PROVE Live(info, i, offset) <=> i = fn
  <2>1. fn = 0 => i # fn /\ i \notin covering
    BY <1>1, <1>2
  <2>2. fn # 0 => (i \in covering <=> i = fn)
    BY <1>1, <1>4
  <2> HIDE DEF covering
  <2> QED BY <1>3, <2>1, <2>2
<1> QED BY <1>1, <1>5 DEF fn

\* The blocks and the inlined calls that cover an offset are open to a walk there.
LEMMA OpenCovers ==
    ASSUME NEW unit, NEW offset, NEW b \in DOMAIN unit.info, unit.info[b].tag \in {"block", "inlined"}
    PROVE  ScopeCovers(unit, unit.info[b], offset) <=>
                IF unit.info[b].tag = "block" THEN b \in Scopes!OpenBlocks(unit, offset)
                ELSE b \in Scopes!OpenCalls(unit, offset)
BY DEF ScopeCovers, Scopes!OpenBlocks, Scopes!OpenCalls

\* The calls a walk down from the function comes to are those that are live.
LEMMA CallsLive ==
    ASSUME NEW unit, NEW offset, Described(unit, offset), NEW i \in DOMAIN unit.info, unit.info[i].tag = "inlined"
    PROVE  LET fn == Scopes!RecordAt(unit, offset)
           IN  Live(unit.info, i, offset) <=> fn # 0 /\ i \in CallsIn(unit, fn, offset)
<1> DEFINE info == unit.info
           fn == Scopes!RecordAt(unit, offset)
           blocks == Scopes!OpenBlocks(unit, offset)
           calls == Scopes!OpenCalls(unit, offset)
           Covered(b) == info[b].tag \in ScopeTags => ScopeCovers(unit, info[b], offset)
<1>1. /\ Listed(info) /\ IsTree(info) /\ DOMAIN info \subseteq Nat \ {0} /\ Above(info, i) \subseteq DOMAIN info
      /\ \A b \in Above(info, i) : Above(info, b) = {c \in Above(info, i) : c < b}
  BY DEF Described, IsTree, Listed
<1>2. Live(info, i, offset) <=> \A b \in Above(info, i) \cup {i} : Covered(b)
  BY LiveCovers
<1>3. i \in CallsIn(unit, fn, offset) <=>
        /\ i \in calls /\ fn \in Above(info, i)
        /\ \A b \in Above(info, i) : b > fn => b \in blocks \cup calls
  BY <1>1, ReachedUnder DEF CallsIn
<1>4. /\ fn # 0 => fn \in DOMAIN info /\ info[fn].tag = "subprogram" /\ Live(info, fn, offset)
      /\ \A f \in DOMAIN info : info[f].tag = "subprogram" /\ Live(info, f, offset) => f = fn
  BY FunctionLive
<1>5. \A b \in DOMAIN info : b \in blocks => info[b].tag = "block"
  BY DEF Scopes!OpenBlocks
<1>6. \A b \in DOMAIN info : b \in calls => info[b].tag = "inlined"
  BY DEF Scopes!OpenCalls
<1>7. ASSUME NEW b \in DOMAIN info, info[b].tag \in {"block", "inlined"}
      PROVE  ScopeCovers(unit, info[b], offset) <=> b \in blocks \cup calls
  BY <1>5, <1>6, <1>7, OpenCovers
<1> HIDE DEF fn, blocks, calls
<1>8. ASSUME Live(info, i, offset) PROVE fn # 0 /\ i \in CallsIn(unit, fn, offset)
  <2>1. PICK f \in Above(info, i) : info[f].tag = "subprogram"
    BY DEF Described, NestedAbove
  <2>2. Live(info, f, offset)
    <3>1. \A b \in Above(info, f) \cup {f} : Covered(b)
      BY <1>1, <1>2, <1>8
    <3> QED BY <1>1, <3>1, LiveCovers
  <2>3. f = fn /\ fn # 0
    BY <1>1, <1>4, <2>1, <2>2
  <2>4. ASSUME NEW b \in Above(info, i), b > fn PROVE b \in blocks \cup calls
    <3>1. info[b].tag \in {"block", "inlined"}
      BY <2>1, <2>3, <2>4 DEF Described, NestedAbove
    <3>2. ScopeCovers(unit, info[b], offset)
      BY <1>2, <1>8, <3>1 DEF ScopeTags, CallTags
    <3> QED BY <1>1, <1>7, <3>1, <3>2
  <2>5. i \in calls
    <3>1. ScopeCovers(unit, info[i], offset)
      BY <1>2, <1>8 DEF ScopeTags, CallTags
    <3>2. i \notin blocks
      BY <1>5
    <3> QED BY <1>7, <3>1, <3>2
  <2> QED BY <1>3, <2>1, <2>3, <2>4, <2>5
<1>9. ASSUME fn # 0, i \in CallsIn(unit, fn, offset) PROVE Live(info, i, offset)
  <2>1. /\ i \in calls /\ fn \in Above(info, i)
        /\ \A b \in Above(info, i) : b > fn => b \in blocks \cup calls
    BY <1>3, <1>9
  <2>2. \A b \in Above(info, fn) \cup {fn} : Covered(b)
    BY <1>1, <1>4, <1>9, LiveCovers
  <2>3. ASSUME NEW b \in Above(info, i) \cup {i} PROVE Covered(b)
    <3>1. CASE b = i
      BY <1>7, <2>1, <3>1
    <3>2. CASE b \in Above(info, i) /\ b > fn
      <4>1. b \in DOMAIN info /\ b \in blocks \cup calls
        BY <1>1, <2>1, <3>2
      <4>2. info[b].tag \in {"block", "inlined"}
        BY <1>5, <1>6, <4>1
      <4> QED BY <1>7, <4>1, <4>2
    <3>3. CASE b \in Above(info, i) /\ ~(b > fn)
      <4>1. b \in Nat /\ fn \in Nat
        BY <1>1, <2>1, <3>3
      <4>2. b \in Above(info, fn) \cup {fn}
        BY <1>1, <2>1, <3>3, <4>1
      <4> QED BY <2>2, <4>2
    <3> QED BY <3>1, <3>2, <3>3
  <2> QED BY <1>2, <2>3
<1> QED BY <1>8, <1>9 DEF fn

\* The declarations a walk down from a live scope comes to, through the blocks that
\* cover the offset, are those that are live and its own.
LEMMA DeclarationsLive ==
    ASSUME NEW unit, NEW offset, Described(unit, offset), NEW i \in DOMAIN unit.info, unit.info[i].tag \in {"param", "variable"},
           NEW call \in DOMAIN unit.info, unit.info[call].tag \in CallTags, Live(unit.info, call, offset)
    PROVE  i \in Scopes!Reached(unit.info, call, Scopes!OpenBlocks(unit, offset)) <=>
                Live(unit.info, i, offset) /\ Owns(unit.info, call, i)
<1> DEFINE info == unit.info
           blocks == Scopes!OpenBlocks(unit, offset)
           Covered(b) == info[b].tag \in ScopeTags => ScopeCovers(unit, info[b], offset)
<1>1. /\ Listed(info) /\ IsTree(info) /\ DOMAIN info \subseteq Nat \ {0} /\ Above(info, i) \subseteq DOMAIN info
      /\ \A b \in Above(info, i) : Above(info, b) = {c \in Above(info, i) : c < b}
  BY DEF Described, IsTree, Listed
<1>2. info[i].tag \notin ScopeTags /\ info[i].tag \notin CallTags
  BY DEF ScopeTags, CallTags
<1>3. Live(info, i, offset) <=> \A b \in Above(info, i) : Covered(b)
  BY <1>2, LiveCovers
<1>4. \A b \in Above(info, call) \cup {call} : Covered(b)
  BY LiveCovers
<1>5. i \in Scopes!Reached(info, call, blocks) <=>
        call \in Above(info, i) /\ \A b \in Above(info, i) : b > call => b \in blocks
  BY <1>1, ReachedUnder
<1>6. Owns(info, call, i) <=>
        call \in Above(info, i) /\ \A b \in Above(info, i) : info[b].tag \in CallTags => b <= call
  <2>1. ToSet(Around(info, i)) = Above(info, i) \cup {i}
    BY <1>1, AroundAbove
  <2> QED BY <1>2, <2>1 DEF Owns
<1>7. \A b \in DOMAIN info : b \in blocks <=> info[b].tag = "block" /\ ScopeCovers(unit, info[b], offset)
  <2>1. \A b \in DOMAIN info : b \in blocks => info[b].tag = "block"
    BY DEF Scopes!OpenBlocks
  <2> HIDE DEF blocks
  <2>2. \A b \in DOMAIN info : info[b].tag = "block" => (ScopeCovers(unit, info[b], offset) <=> b \in blocks)
    BY OpenCovers DEF blocks
  <2> QED BY <2>1, <2>2
<1> HIDE DEF blocks
<1>8. ASSUME call \in Above(info, i), \A b \in Above(info, i) : b > call => b \in blocks
      PROVE  Live(info, i, offset) /\ \A b \in Above(info, i) : info[b].tag \in CallTags => b <= call
  <2>1. ASSUME NEW b \in Above(info, i), b > call PROVE Covered(b) /\ info[b].tag \notin CallTags
    BY <1>1, <1>7, <1>8, <2>1 DEF CallTags
  <2>2. ASSUME NEW b \in Above(info, i), ~(b > call) PROVE Covered(b) /\ b <= call
    <3>1. b \in Nat /\ call \in Nat
      BY <1>1, <2>2
    <3>2. b \in Above(info, call) \cup {call}
      BY <1>1, <1>8, <2>2, <3>1
    <3> QED BY <1>4, <2>2, <3>1, <3>2
  <2> HIDE DEF Covered
  <2> QED BY <1>3, <2>1, <2>2
<1>9. ASSUME Live(info, i, offset), call \in Above(info, i), \A b \in Above(info, i) : info[b].tag \in CallTags => b <= call
      PROVE  \A b \in Above(info, i) : b > call => b \in blocks
  <2> SUFFICES ASSUME NEW b \in Above(info, i), b > call PROVE b \in blocks
    OBVIOUS
  <2>1. info[b].tag \notin CallTags
    <3>1. b \in Nat /\ call \in Nat
      BY <1>1
    <3> QED BY <1>9, <3>1
  <2>2. PICK f \in Above(info, call) \cup {call} : info[f].tag = "subprogram"
    BY DEF Described, NestedAbove, CallTags
  <2>3. f \in Above(info, i) /\ b > f
    <3>1. b \in Nat /\ call \in Nat /\ Above(info, call) = {c \in Above(info, i) : c < call} /\ Above(info, i) \subseteq Nat
      BY <1>1, <1>9
    <3> QED BY <1>9, <2>2, <3>1
  <2>4. info[b].tag \in {"block", "inlined"}
    BY <2>2, <2>3 DEF Described, NestedAbove
  <2>5. info[b].tag = "block"
    BY <2>1, <2>4 DEF CallTags
  <2>6. ScopeCovers(unit, info[b], offset)
    BY <1>3, <1>9, <2>5 DEF ScopeTags
  <2> QED BY <1>1, <1>7, <2>5, <2>6
<1> HIDE DEF Covered
<1> QED BY <1>5, <1>6, <1>8, <1>9 DEF blocks

\* What a frame shows is what its scope declares and is live.
LEMMA DeclarationsShown ==
    ASSUME NEW unit, NEW offset, Described(unit, offset), NEW fn,
           NEW call \in DOMAIN unit.info, unit.info[call].tag \in CallTags, Live(unit.info, call, offset)
    PROVE  LET V == Scopes!Collect(unit, fn, call, offset)
               live == {i \in DOMAIN unit.info : Live(unit.info, i, offset)}
           IN  {V[k].die : k \in DOMAIN V} =
                    {i \in live : /\ unit.info[i].tag \in {"param", "variable"}
                                  /\ Scopes!Shown(unit.info[i])
                                  /\ Owns(unit.info, call, i)}
<1> DEFINE info == unit.info
           blocks == Scopes!OpenBlocks(unit, offset)
           V == Scopes!Declared(unit, fn, call, blocks)
           S == DeclaredIn(unit, call, blocks)
           live == {i \in DOMAIN info : Live(info, i, offset)}
           T == {i \in live : /\ info[i].tag \in {"param", "variable"}
                              /\ Scopes!Shown(info[i])
                              /\ Owns(info, call, i)}
<1>1. Listed(info)
  BY DEF Described
<1>2. S \subseteq DOMAIN info
  BY <1>1, DeclaredLists
<1>3. ASSUME NEW k \in DOMAIN V PROVE V[k].die \in S
  <2>1. PICK i \in S : V[k] = Scopes!ToScopeVar(unit, fn, i)
    BY <1>1, DeclaredLists
  <2>2. V[k].die = i
    BY <2>1 DEF Scopes!ToScopeVar
  <2> HIDE DEF S, V
  <2> QED BY <2>2
<1>4. ASSUME NEW i \in S PROVE \E k \in DOMAIN V : V[k].die = i
  <2>1. PICK k \in DOMAIN V : V[k] = Scopes!ToScopeVar(unit, fn, i)
    BY <1>1, DeclaredLists
  <2>2. V[k].die = i
    BY <2>1 DEF Scopes!ToScopeVar
  <2> HIDE DEF S, V
  <2> QED BY <2>2
<1>5. S = T
  <2>1. ASSUME NEW i \in DOMAIN info, info[i].tag \in {"param", "variable"}
        PROVE  i \in Scopes!Reached(info, call, blocks) <=> Live(info, i, offset) /\ Owns(info, call, i)
    BY <2>1, DeclarationsLive
  <2>2. \A i : i \in S <=> /\ i \in Scopes!Reached(info, call, blocks)
                           /\ info[i].tag \in {"param", "variable"} /\ Scopes!Shown(info[i])
    BY DEF DeclaredIn
  <2> HIDE DEF S, blocks
  <2>3. \A i : i \in S <=> i \in T
    <3> SUFFICES ASSUME NEW i PROVE i \in S <=> i \in T
      OBVIOUS
    <3>1. i \in S => i \in DOMAIN info
      BY <1>2
    <3> QED BY <2>1, <2>2, <3>1
  <2> QED BY <2>3
<1> HIDE DEF S, V, T
<1>6. {V[k].die : k \in DOMAIN V} = S
  <2>1. \A k \in DOMAIN V : V[k].die \in S
    BY <1>3
  <2>2. \A i \in S : \E k \in DOMAIN V : V[k].die = i
    BY <1>4
  <2> QED BY <2>1, <2>2
<1>7. V = Scopes!Collect(unit, fn, call, offset)
  BY DEF V, Scopes!Collect
<1> QED BY <1>5, <1>6, <1>7 DEF T

\* The frames at an offset are the scopes that are live there.
LEMMA FramesMatch ==
    ASSUME ScopesDescribed(img), pc \in Offsets, frames = FramesAt(pc)
    PROVE  FramesMatchScopes
<1> DEFINE unit == img.unit
           info == unit.info
           fn == Scopes!RecordAt(unit, pc)
           calls == CallsIn(unit, fn, pc)
           n == Cardinality(calls)
           o == Scopes!InSection(calls)
           called == {i \in DOMAIN info : Live(info, i, pc) /\ info[i].tag \in CallTags}
<1>1. Described(unit, pc)
  BY ScopesAreDescribed
<1>2. Listed(info) /\ DOMAIN info \subseteq Nat \ {0}
  BY <1>1 DEF Described, Listed
<1>3. /\ fn # 0 => fn \in DOMAIN info /\ info[fn].tag = "subprogram"
      /\ \A i \in DOMAIN info : info[i].tag = "subprogram" => (Live(info, i, pc) <=> i = fn)
  BY <1>1, FunctionLive
<1>4. \A i \in DOMAIN info : info[i].tag = "inlined" => (Live(info, i, pc) <=> fn # 0 /\ i \in calls)
  BY <1>1, CallsLive
<1>5. \A i \in calls : i \in DOMAIN info /\ info[i].tag = "inlined" /\ fn \in Above(info, i)
  BY <1>2, ReachedUnder DEF CallsIn, Scopes!OpenCalls
<1>6. /\ fn = 0 => frames = <<>>
      /\ fn # 0 => /\ n \in Nat /\ o \in [1..n -> calls]
                   /\ \A i \in calls : \E k \in 1..n : o[k] = i
                   /\ \A k, l \in 1..n : k < l => o[k] < o[l]
                   /\ DOMAIN frames = 1..(n + 1)
                   /\ frames[1].die = fn
                   /\ frames[1].name = Scopes!QualifiedName(info, fn)
                   /\ frames[1].variables = Scopes!Collect(unit, fn, fn, pc)
                   /\ \A k \in 1..n : /\ frames[k + 1].die = o[k]
                                      /\ frames[k + 1].name = Scopes!ResolvedName(info, o[k])
                                      /\ frames[k + 1].variables = Scopes!Collect(unit, fn, o[k], pc)
  BY <1>2, FramesList
<1> HIDE DEF fn, calls, n, o
<1>7. called = IF fn = 0 THEN {} ELSE {fn} \cup calls
  <2>1. \A i \in DOMAIN info : info[i].tag \in CallTags <=> info[i].tag = "subprogram" \/ info[i].tag = "inlined"
    BY DEF CallTags
  <2>2. \A i \in DOMAIN info : i \in called <=> fn # 0 /\ (i = fn \/ i \in calls)
    BY <1>2, <1>3, <1>4, <1>5, <2>1
  <2> QED BY <1>3, <1>5, <2>2
<1>8. CASE fn = 0
  <2>1. frames = <<>> /\ called = {}
    BY <1>6, <1>7, <1>8
  <2>2. {frames[f].die : f \in DOMAIN frames} = called /\ DOMAIN frames = {}
    BY <2>1
  <2> QED BY <2>2 DEF FramesMatchScopes
<1>9. CASE fn # 0
  <2>1. ASSUME NEW f \in DOMAIN frames
        PROVE  /\ frames[f].die \in called
               /\ frames[f].name = info[frames[f].die].means
               /\ frames[f].variables = Scopes!Collect(unit, fn, frames[f].die, pc)
    <3>1. CASE f = 1
      <4>1. fn \in called /\ fn \in DOMAIN info /\ info[fn].tag = "subprogram" /\ info[fn].tag \in CallTags
        BY <1>3, <1>7, <1>9 DEF CallTags
      <4>2. info[fn].means = Scopes!QualifiedName(info, fn)
        BY <1>1, <4>1 DEF Described, Named
      <4> QED BY <1>6, <1>9, <3>1, <4>1, <4>2
    <3>2. CASE f # 1
      <4>1. f - 1 \in 1..n /\ (f - 1) + 1 = f
        BY <1>6, <1>9, <3>2
      <4> DEFINE i == o[f - 1]
      <4>2. /\ frames[f].die = i /\ frames[f].name = Scopes!ResolvedName(info, i)
            /\ frames[f].variables = Scopes!Collect(unit, fn, i, pc)
        BY <1>6, <1>9, <4>1
      <4>3. i \in calls
        BY <1>6, <1>9, <4>1
      <4>4. i \in DOMAIN info /\ info[i].tag = "inlined" /\ info[i].tag \in CallTags /\ i \in called
        BY <1>5, <1>7, <1>9, <4>3 DEF CallTags
      <4>5. info[i].means = Scopes!ResolvedName(info, i)
        BY <1>1, <4>4 DEF Described, Named
      <4> QED BY <4>2, <4>4, <4>5
    <3> QED BY <3>1, <3>2
  <2>2. ASSUME NEW i \in called PROVE \E f \in DOMAIN frames : frames[f].die = i
    <3>1. CASE i = fn
      <4>1. 1 \in DOMAIN frames
        BY <1>6, <1>9
      <4> QED BY <1>6, <1>9, <3>1, <4>1
    <3>2. CASE i \in calls
      <4>1. PICK k \in 1..n : o[k] = i
        BY <1>6, <1>9, <3>2
      <4>2. k + 1 \in DOMAIN frames
        BY <1>6, <1>9
      <4> QED BY <1>6, <1>9, <4>1, <4>2
    <3> QED BY <1>7, <1>9, <3>1, <3>2
  <2>3. {frames[f].die : f \in DOMAIN frames} = called
    BY <2>1, <2>2
  <2>4. ASSUME NEW f \in DOMAIN frames, f > 1
        PROVE  frames[f - 1].die \in ToSet(Around(info, frames[f].die))
    <3>1. n \in Nat /\ f \in 1..(n + 1)
      BY <1>6, <1>9
    <3>2. f - 1 \in 1..n /\ (f - 1) + 1 = f /\ f - 1 \in DOMAIN frames
      BY <1>6, <1>9, <2>4, <3>1
    <3> DEFINE i == o[f - 1]
    <3>3. frames[f].die = i /\ i \in calls
      BY <1>6, <1>9, <3>2
    <3>4. i \in DOMAIN info /\ info[i].tag \in CallTags /\ fn \in Above(info, i) /\ ToSet(Around(info, i)) = Above(info, i) \cup {i}
      BY <1>2, <1>5, <3>3, AroundAbove DEF CallTags
    <3>5. CASE f = 2
      BY <1>6, <1>9, <3>3, <3>4, <3>5
    <3>6. CASE f # 2
      <4> DEFINE j == o[f - 2]
      <4>1. f - 2 \in 1..n /\ (f - 2) + 1 = f - 1 /\ f - 2 < f - 1
        BY <2>4, <3>1, <3>6
      <4>2. frames[f - 1].die = j /\ j \in calls /\ j < i
        BY <1>6, <1>9, <3>2, <4>1
      <4>3. j \in DOMAIN info /\ info[j].tag \in CallTags
        BY <1>5, <4>2 DEF CallTags
      <4>4. Live(info, i, pc) /\ Live(info, j, pc)
        BY <1>4, <1>5, <1>9, <3>3, <4>2
      <4> HIDE DEF i, j
      <4>5. pc \in info[i].extent \cap info[j].extent
        <5>1. j \in ToSet(Around(info, j)) /\ i \in ToSet(Around(info, i))
          BY <1>2, <3>4, <4>3, AroundAbove
        <5> QED BY <3>4, <4>3, <4>4, <5>1 DEF Live, ScopeTags
      <4>6. i \in Above(info, j) \cup {j} \/ j \in Above(info, i) \cup {i}
        BY <1>1, <3>4, <4>3, <4>5 DEF Described
      <4>7. i \notin Above(info, j) \cup {j}
        <5>1. Above(info, j) \subseteq 1..(j - 1) /\ i \in Nat /\ j \in Nat
          BY <1>1, <1>2, <3>4, <4>3 DEF Described, IsTree
        <5> QED BY <4>2, <5>1
      <4> QED BY <3>3, <3>4, <4>2, <4>6, <4>7
    <3> QED BY <3>5, <3>6
  <2>5. ASSUME NEW f \in DOMAIN frames
        PROVE  {frames[f].variables[k].die : k \in DOMAIN frames[f].variables} =
                {i \in {j \in DOMAIN info : Live(info, j, pc)} :
                        /\ info[i].tag \in {"param", "variable"}
                        /\ Scopes!Shown(info[i])
                        /\ Owns(info, frames[f].die, i)}
    <3> DEFINE call == frames[f].die
    <3>1. call \in DOMAIN info /\ info[call].tag \in CallTags /\ Live(info, call, pc)
      BY <2>1
    <3>2. frames[f].variables = Scopes!Collect(unit, fn, call, pc)
      BY <2>1
    <3> HIDE DEF call
    <3> QED BY <1>1, <3>1, <3>2, DeclarationsShown DEF call
  <2>6. \A f \in DOMAIN frames : frames[f].name = info[frames[f].die].means
    BY <2>1
  <2>7. called = {i \in {j \in DOMAIN info : Live(info, j, pc)} : info[i].tag \in CallTags}
    OBVIOUS
  <2> HIDE DEF called
  <2> QED BY <2>3, <2>4, <2>5, <2>6, <2>7 DEF FramesMatchScopes
<1> QED BY <1>8, <1>9

\* The inductive invariant: the frames are those at the offset looked at.
FramesLooked ==
    /\ img \in Images
    /\ pc # Absent => pc \in Offsets /\ frames = FramesAt(pc)

\* FramesMatchScopes, of the function lookup (ScopeIndex.ts, recordAt) and the walks down
\* from it (collectInlines, collect): for every image whose scopes a compiler has
\* described, in any of the encodings of a range, however calls and blocks are nested.
THEOREM FramesAlwaysMatch ==
    ASSUME \A image \in Images : ScopesDescribed(image)
    PROVE  Spec => []FramesMatchScopes
<1>1. Init => FramesLooked
  BY DEF Init, FramesLooked
<1>2. FramesLooked /\ [Next]_vars => FramesLooked'
  <2> SUFFICES ASSUME FramesLooked, [Next]_vars PROVE FramesLooked'
    OBVIOUS
  <2>1. CASE Look
    <3>1. img' = img
      BY <2>1 DEF Look
    <3>2. PICK offset \in Offsets : pc' = offset /\ frames' = FramesAt(offset)
      BY <2>1 DEF Look
    <3>3. FramesAt(offset)' = FramesAt(offset)
      BY <3>1 DEF FramesAt, FunctionFrame, InlineFrames, CallSite
    <3> QED BY <3>1, <3>2, <3>3 DEF FramesLooked
  <2>2. CASE Inspect \/ Expand \/ UNCHANGED vars
    <3>1. img' = img /\ pc' = pc /\ frames' = frames
      BY <2>2 DEF Inspect, Expand, vars
    <3> QED BY <3>1 DEF FramesLooked, FramesAt, FunctionFrame, InlineFrames, CallSite
  <2> QED BY <2>1, <2>2 DEF Next
<1>3. FramesLooked => FramesMatchScopes
  <2>1. pc = Absent => FramesMatchScopes
    BY DEF FramesMatchScopes
  <2>2. FramesLooked /\ pc # Absent => FramesMatchScopes
    BY FramesMatch DEF FramesLooked
  <2> QED BY <2>1, <2>2
<1> QED BY <1>1, <1>2, <1>3, PTL DEF Spec

=============================================================================
