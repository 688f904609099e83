------------------------------ MODULE MCDwarf -------------------------------
(***************************************************************************)
(* Images for VariableResolver, built as a compiler builds them: from a     *)
(* line matrix, a scope tree with the extent of every entry, and variables  *)
(* in slots and in memory, each in several encodings.                       *)
(***************************************************************************)
EXTENDS CompiledImages, FiniteSetsExt, TLC

CONSTANTS Slots,        \* the contents of the slot that variables live in
          Styles        \* the encodings of a line program

Rel(t) == [text |-> t, abs |-> FALSE]
Abs(t) == [text |-> t, abs |-> TRUE]

----------------------------------------------------------------------------
\* A row of the matrix as opcodes, after a row dl lines and da bytes before it.
Special(da, dl) == OpcodeBase + (dl - LineBase) + LineRange * da
RowOps(da, dl, file, style) ==
    LET jump == (255 - OpcodeBase) \div LineRange
        op(name, n) == [op |-> name, n |-> n]
        fits(advance) == dl \in LineBase..(LineBase + LineRange - 1) /\ Special(advance, dl) \in OpcodeBase..255
    IN  <<op("set_file", file), op("set_column", 3)>> \o
        CASE style = "const" /\ da >= jump /\ fits(da - jump) ->
                <<op("const_add_pc", 0), op("special", Special(da - jump, dl))>>
          [] style = "special" /\ fits(da) -> <<op("special", Special(da, dl))>>
          [] style = "fixed" -> <<op("fixed_advance_pc", da), op("advance_line", dl), op("copy", 0)>>
          [] OTHER -> <<op("advance_pc", da), op("advance_line", dl), op("copy", 0)>>

SeqOps(seq, style) ==
    LET from(i) == IF i = 1 THEN [address |-> seq.rows[1].address, line |-> 1] ELSE seq.rows[i - 1]
        row(i) == RowOps(seq.rows[i].address - from(i).address, seq.rows[i].line - from(i).line,
                         seq.rows[i].file, style)
    IN  <<[op |-> "set_address", n |-> seq.rows[1].address]>>
            \o FlattenSeq([i \in DOMAIN seq.rows |-> row(i)])
            \o <<[op |-> "advance_pc", n |-> seq.end - Last(seq.rows).address], [op |-> "end_sequence", n |-> 0]>>

Lib == <<Abs("/c"), Rel("src"), Rel("lib.rs")>>
Core == <<Abs("/rustc"), Rel("core.rs")>>
Primary == <<Abs("/c"), Rel("main.rs")>>

Row(at, n, ln, p) == [address |-> at, file |-> n, line |-> ln, path |-> p]
SeqA == [stmt |-> 1, end |-> 8, rows |-> <<Row(2, 1, 5, Lib), Row(2, 1, 6, Lib), Row(4, 0, 0, Primary), Row(5, 2, 9, Core)>>]
SeqB == [stmt |-> 2, end |-> 30, rows |-> <<Row(8, 1, 3, Lib), Row(28, 0, 4, Primary)>>]
SeqC == [stmt |-> 1, end |-> 34, rows |-> <<Row(32, 0, 12, Primary)>>]

Unit1 == [stmt |-> 1, compDir |-> Abs("/c"), name |-> Rel("main.rs")]
Unit2 == [stmt |-> 2, compDir |-> Abs("/c"), name |-> Rel("main.rs")]

Program(seqs, stmt, style) ==
    [version |-> IF stmt = 1 THEN 4 ELSE 5,
     dirs |-> IF stmt = 1 THEN <<Rel("src"), Abs("/rustc")>> ELSE <<Abs("/c"), Rel("src")>>,
     files |-> IF stmt = 1 THEN <<[name |-> Rel("lib.rs"), dir |-> 1], [name |-> Rel("core.rs"), dir |-> 2]>>
               ELSE <<[name |-> Rel("main.rs"), dir |-> 0], [name |-> Rel("lib.rs"), dir |-> 1]>>,
     ops |-> LET own == SelectSeq(seqs, LAMBDA s : s.stmt = stmt)
             IN  FlattenSeq([i \in DOMAIN own |-> SeqOps(own[i], style)])]

Wasm(seqs, cus, style) == [cus |-> cus, programs |-> [stmt \in {1, 2} |-> Program(seqs, stmt, style)]]

----------------------------------------------------------------------------
Entry == [tag |-> "namespace", hasKids |-> FALSE, name |-> "", low |-> Absent, size |-> Absent,
          ranges |-> Absent, origin |-> Absent, spec |-> Absent, linkage |-> "", loc |-> [form |-> "none"],
          type |-> Absent, callFile |-> Absent, callLine |-> Absent, frameBase |-> <<>>, extent |-> {}, means |-> ""]
End == [Entry EXCEPT !.tag = "end"]
Scope(tag, extent) == [Entry EXCEPT !.tag = tag, !.hasKids = TRUE, !.extent = extent]
Var(name, loc) == [Entry EXCEPT !.tag = "variable", !.name = name, !.loc = loc]
InSlot == [form |-> "expr", expr |-> <<[op |-> "wasm", k |-> 0, n |-> 1]>>]
InWide == [form |-> "expr", expr |-> <<[op |-> "wasm", k |-> 0, n |-> 2]>>]

Tree == <<[Scope("namespace", {}) EXCEPT !.name = "n"],
            [Scope("subprogram", 2..11) EXCEPT !.name = "f", !.means = "n::f"], Var("p", InSlot),
              Scope("block", 4..9), Var("w", InSlot),
                [Scope("inlined", 5..8) EXCEPT !.origin = 30, !.callFile = 1, !.callLine = 5, !.means = "i"],
                  [Var("", InSlot) EXCEPT !.tag = "param"],
                  Scope("block", 5..8), Var("z", InSlot), End,
                  [Scope("inlined", {5, 7}) EXCEPT !.linkage = "j", !.means = "j"], Var("y", [form |-> "none"]), End,
                End,
              End,
              Scope("block", {9, 10}), Var("x", InSlot), Var("", [form |-> "none"]), End,
              Scope("inlined", {}), Var("k", InSlot), End,
            End,
            Scope("subprogram", {28, 29, 32}), Var("g", InSlot),
              Scope("inlined", {29, 32}), Var("m", InSlot), End,
            End,
            [Scope("subprogram", {}) EXCEPT !.name = "i", !.means = "n::i"], Var("d", InSlot), End,
          End>>

\* The maximal runs of consecutive offsets of an extent.
Runs(extent) ==
    SetToSortSeq({<<a, b>> \in extent \X {x + 1 : x \in extent} :
                    a < b /\ a..(b - 1) \subseteq extent /\ a - 1 \notin extent /\ b \notin extent},
                 LAMBDA x, y : x[1] < y[1])

\* An entry's extent as the attributes of how, a low address and a size where
\* that is possible, and the block that spans its whole scope as nothing at all.
Placed(i, e, how) ==
    CASE e.tag \notin ScopeTags -> e
      [] e.tag = "block" /\ e.extent = 5..8 -> e
      [] e.tag \in ScopeTags /\ e.extent = {} -> [e EXCEPT !.low = Tombstone, !.size = 4]
      [] e.tag \in ScopeTags /\ e.extent # {} /\ how = "low" /\ Len(Runs(e.extent)) = 1 ->
            [e EXCEPT !.low = Runs(e.extent)[1][1], !.size = Cardinality(e.extent)]
      [] OTHER -> [e EXCEPT !.ranges = i]

List(extent, how, low) ==
    LET base == IF how = "base" THEN 1 ELSE low
        pairs == [k \in DOMAIN Runs(extent) |-> <<Runs(extent)[k][1] - base, Runs(extent)[k][2] - base>>]
    IN  (IF how = "base" THEN <<<<Tombstone, 1>>>> ELSE <<>>) \o pairs \o <<<<0, 0>>, <<0, 40>>>>

UnitOf(tree, how, low) ==
    LET info == [i \in DOMAIN tree |-> Placed(i, tree[i], how)]
    IN  [low |-> low, stmt |-> 1, info |-> info,
         ranges |-> [i \in {j \in DOMAIN info : info[j].ranges # Absent} |-> List(info[i].extent, how, low)]]

----------------------------------------------------------------------------
Die == [tag |-> "base", name |-> "", type |-> Absent, size |-> Absent, enc |-> "unsigned",
        at |-> [form |-> "none", n |-> 0], value |-> Absent, count |-> Absent, upper |-> Absent,
        discr |-> Absent, kids |-> <<>>]
Base(size, enc) == [Die EXCEPT !.size = size, !.enc = enc]
Pointer(target) == [Die EXCEPT !.tag = "pointer", !.type = target, !.size = AddressSize]
Member(name, type, at) == [Die EXCEPT !.tag = "member", !.name = name, !.type = type,
                                      !.at = [form |-> IF at = 0 THEN "const" ELSE "plus_uconst", n |-> at]]
Struct(name, size, kids) == [Die EXCEPT !.tag = "struct", !.name = name, !.size = size, !.kids = kids]
Arm(value, kids) == [Die EXCEPT !.tag = "variant", !.value = value, !.kids = kids]

\* u8, i16, a linked list, a newtype over the widest integer, an array, a slice, a
\* Rust enum with a default arm, two typedefs of one another, a &str, a
\* union and an array of octets.
Types == <<Base(1, "unsigned"), Base(2, "signed"), Pointer(4),
           Struct("Node", 3, <<Member("value", 1, 0), Member("next", 3, 1)>>),
           Struct("Val", 4, <<Member("0", 6, 0)>>), Base(4, "signed"),
           [Die EXCEPT !.tag = "array", !.type = 2, !.kids = <<[Die EXCEPT !.tag = "subrange", !.upper = 2]>>],
           Struct("&[", 4, <<Member("data_ptr", 9, 0), Member("length", 10, 2)>>),
           Pointer(2), Base(2, "unsigned"),
           Struct("Enum", 4, <<[Die EXCEPT !.tag = "variant_part", !.discr = 12,
                                 !.kids = <<Arm(1, <<Member("A", 2, 2)>>), Arm(Absent, <<Member("B", 4, 1)>>)>>]>>),
           Member("tag", 1, 0), [Die EXCEPT !.tag = "typedef", !.type = 14],
           [Die EXCEPT !.tag = "typedef", !.type = 13], [Die EXCEPT !.tag = "const", !.type = 3],
           Struct("&str", 4, <<Member("p", 15, 0), Member("n", 10, 2)>>),
           [Struct("Word", 2, <<Member("low", 1, 0), Member("all", 10, 0)>>) EXCEPT !.tag = "union"],
           [Die EXCEPT !.tag = "typedef", !.type = 1],
           [Die EXCEPT !.tag = "array", !.type = 18, !.kids = <<[Die EXCEPT !.tag = "subrange", !.count = 4]>>]>>

\* The frame pointer is in slot 0: at 8 a list of nodes 12 -> 16 -> 20 -> 12, at
\* 24 a slice of the three shorts at 40, at 28 and 32 the two arms of the enum.
Word(n) == <<n % ByteBase, n \div ByteBase>>
Memory == LET bytes == Word(12) \o <<0, 0>> \o <<7>> \o Word(16) \o <<0, 6>> \o Word(20) \o <<0, 5>> \o Word(12) \o <<0>>
                        \o Word(40) \o Word(3) \o <<1, 0, 7, 7>> \o <<2, 3, 4, 5>> \o <<0, 0, 0, 0>> \o <<1, 0, 7, 7, 0, 4>>
          IN  [a \in 8..(7 + Len(bytes)) |-> bytes[a - 7]]

Fb(n) == [form |-> "expr", expr |-> <<[op |-> "fbreg", n |-> n]>>]
Typed(name, type, loc) == [Var(name, loc) EXCEPT !.type = type]
Locals == <<[Scope("subprogram", 2..11) EXCEPT !.name = "f",
                !.means = "f", !.frameBase = <<[op |-> "wasm", k |-> 0, n |-> 0], [op |-> "stack_value"]>>],
            Typed("a", 1, InSlot), Typed("b", 2, InSlot), Typed("c", 5, InSlot), Typed("wide", 5, InWide), Typed("head", 15, Fb(0)),
            Typed("list", 3, [form |-> "list", at |-> 1]), Typed("shorts", 7, Fb(32)), Typed("slice", 8, Fb(16)),
            Typed("one", 11, Fb(20)), Typed("other", 11, Fb(24)), Typed("loop", 13, InSlot),
            Typed("str", 16, Fb(16)), Typed("word", 17, Fb(32)), Typed("octets", 19, Fb(32)), Typed("imm", 2, [form |-> "expr", expr |-> <<[op |-> "addr", n |-> 40],
                                [op |-> "plus_uconst", n |-> 9], [op |-> "stack_value"]>>]),
            Typed("cut", 2, [form |-> "expr", expr |-> <<[op |-> "addr", n |-> 4], [op |-> "cut"]>>]),
            Typed("gone", 2, [form |-> "list", at |-> 2]),
          End>>

InList(begin, end, e) == [begin |-> begin, end |-> end, expr |-> e]
Lists == <<<<InList(Selector, 3, <<>>), InList(0, 3, InSlot.expr), InList(3, 6, Fb(0).expr), InList(0, 0, <<>>)>>>>

----------------------------------------------------------------------------
Image(seqs, cus, style, unit, slot) ==
    [wasm |-> Wasm(seqs, cus, style), unit |-> unit, lists |-> Lists, dies |-> Types,
     matrix |-> ToSet(seqs),
     state |-> [memory |-> Memory,
                slots |-> [local |-> (0 :> [form |-> "number", v |-> 8]
                                        @@ (IF slot.form = "bigint" THEN 2 ELSE 1) :> slot),
                           global |-> <<>>, stack |-> <<>>]]]

Nothing == [form |-> "number", v |-> 0]
Plain == UnitOf(<<Scope("subprogram", 2..11), End>>, "low", 0)

LineImages == {Image(seqs, cus, style, Plain, Nothing) :
                  seqs \in {<<SeqA>>, <<SeqB>>, <<SeqA, SeqB>>, <<SeqC, SeqA>>, <<SeqB, SeqC, SeqA>>},
                  cus \in {<<Unit1, Unit2>>, <<Unit2, Unit1, Unit1>>}, style \in Styles}
ScopeImages == {Image(<<SeqA, SeqB>>, <<Unit1, Unit2>>, "special", UnitOf(Tree, how, low), Nothing) :
                  how \in {"low", "list", "base"}, low \in {0, 1}}
ValueImages == {Image(<<SeqA>>, <<Unit1>>, "special", UnitOf(Locals, "low", 0), slot) : slot \in Slots}

MCImages == LineImages \cup ScopeImages \cup ValueImages
ASSUME MCLinesDescribed == \A image \in MCImages : LinesDescribed(image)
ASSUME MCScopesDescribed == \A image \in MCImages : ScopesDescribed(image)
ASSUME MCReadable == \A image \in MCImages : Readable(image) /\ LaidOut(image) /\ PlainElements(image)
ASSUME MCExactSlots ==
    (\A slot \in Slots : slot.form = "bigint" => Magnitude(slot.v) < Exact) => \A image \in MCImages : ExactSlots(image)
MCOffsets == (1..12) \cup (27..34)
MCOnDisk == {Lib, Primary}
MCLineBase == -5
MCStyles == {"special", "const", "fixed"}

Held(form, values) == {[form |-> form, v |-> v] : v \in values}
MCSlots == Held("number", {-33, -1, 0, 5, 63}) \cup Held("bigint", {-64, -1, 40, 63})
MCWideSlots == Held("bigint", {-64, 40, 65})

============================================================================
