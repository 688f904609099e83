--------------------------- MODULE CompiledImages ---------------------------
(***************************************************************************)
(* What a compiler promises of the debug information of an image.  The     *)
(* theorems about exact lines, frames, values and layouts assume it of      *)
(* every image, and it is checked of those of the runs.                    *)
(***************************************************************************)
EXTENDS VariableResolver

Listed(s) == Len(s) \in Nat /\ DOMAIN s = 1..Len(s)

----------------------------------------------------------------------------
\* The line programs run to the rows of
\* its matrix, sequence by sequence, each with its end behind its last row; and the
\* code of two sequences does not overlap.
IsRow(entry, seq, k) ==
    IF k \in DOMAIN seq.rows
    THEN entry = [address |-> seq.rows[k].address, path |-> seq.rows[k].path, line |-> seq.rows[k].line, end |-> FALSE]
    ELSE entry.end /\ entry.address = seq.end

ReadsPrograms(wasm) ==
    /\ Listed(wasm.cus)
    /\ \A u \in DOMAIN wasm.cus : wasm.cus[u].stmt # 0 =>
            LET ops == wasm.programs[wasm.cus[u].stmt].ops
            IN  Listed(ops) /\ \A i \in DOMAIN ops : ops[i].n \in Int

Ascending(seq) ==
    /\ Listed(seq.rows) /\ seq.rows # <<>> /\ seq.end \in Nat
    /\ \A k \in DOMAIN seq.rows : /\ seq.rows[k].address \in 0..(seq.end - 1)
                                  /\ \A j \in 1..k : seq.rows[j].address <= seq.rows[k].address

LinesDescribed(image) ==
    LET units == UnitRows(image.wasm)
    IN  /\ ReadsPrograms(image.wasm)
        /\ \A seq \in image.matrix : Ascending(seq)
        /\ \A s, t \in image.matrix : s # t => s.end <= t.rows[1].address \/ t.end <= s.rows[1].address
        /\ \A seq \in image.matrix : \A k \in 1..(Len(seq.rows) + 1) :
                \E u \in DOMAIN units : \E i \in DOMAIN units[u] : IsRow(units[u][i], seq, k)
        /\ \A u \in DOMAIN units : \A i \in DOMAIN units[u] :
                \E seq \in image.matrix : \E k \in 1..(Len(seq.rows) + 1) :
                    /\ IsRow(units[u][i], seq, k)
                    /\ k <= Len(seq.rows) => i + 1 \in DOMAIN units[u] /\ IsRow(units[u][i + 1], seq, k + 1)

----------------------------------------------------------------------------
\* At an offset, where a scope can
\* be live its attributes give its extent, and its name is the one it means.
ScopeCovers(unit, die, offset) ==
    CASE die.tag = "subprogram" ->
            IF Scopes!HasLowHigh(die) THEN offset \in die.low..(die.low + die.size - 1)
            ELSE die.ranges # Absent /\ Scopes!ListCovers(unit, die, offset)
      [] die.tag = "inlined" -> Scopes!RangeCovers(unit, die, offset)
      [] die.tag = "block" -> Scopes!BlockCovers(unit, die, offset)

Encoded(unit, i, offset) ==
    LET around == Scopes!Arounds(unit.info)[i]
    IN  (\A k \in ToSet(around) : unit.info[k].tag \in ScopeTags => offset \in unit.info[k].extent)
            => (ScopeCovers(unit, unit.info[i], offset) <=> offset \in unit.info[i].extent)

Named(info, i) ==
    info[i].means = IF info[i].tag = "subprogram" THEN Scopes!QualifiedName(info, i) ELSE Scopes!ResolvedName(info, i)

\* Functions do not overlap, and dropped ones are beyond every offset.
Apart(f, g) == \/ f.low + f.size <= g.low \/ g.low + g.size <= f.low
               \/ f.low = Tombstone /\ g.low = Tombstone

\* Under a function, an inlined call or a declaration is below blocks and inlined calls
\* only; two calls are one inside the other or have no code in common.
Nested(info, i) ==
    LET around == Scopes!Arounds(info)[i]
        functions == {k \in DOMAIN around : info[around[k]].tag = "subprogram"}
    IN  /\ info[i].tag = "subprogram" => \A k \in DOMAIN around : info[around[k]].tag \notin ScopeTags
        /\ info[i].tag = "inlined" => functions # {}
        /\ info[i].tag \in {"inlined", "param", "variable"} =>
                \A k \in functions : \A j \in (k + 1)..Len(around) : info[around[j]].tag \in {"block", "inlined"}

ScopesDescribed(image) ==
    LET info == image.unit.info
        with(tags) == {i \in DOMAIN info : info[i].tag \in tags}
        contiguous == {i \in with({"subprogram"}) : Scopes!HasLowHigh(info[i])}
    IN  /\ Listed(info)
        /\ \A i \in DOMAIN info : Nested(info, i)
        /\ \A i, j \in with(CallTags) : \/ i \in ToSet(Around(info, j)) \/ j \in ToSet(Around(info, i))
                                         \/ info[i].extent \cap info[j].extent = {}
        /\ \A i \in contiguous : info[i].low \in Nat /\ info[i].size \in Nat \ {0}
        /\ \A i, j \in contiguous : i # j => Apart(info[i], info[j])
        /\ \A offset \in Offsets : offset < Tombstone /\ \A i \in with(ScopeTags) : Encoded(image.unit, i, offset)
        /\ \A i \in with(CallTags) : Named(info, i)

----------------------------------------------------------------------------
\* The operands of location expressions, the bytes of memory, the contents of slots,
\* the widths of types, the counts of arrays and the offsets of members are numbers.
Operands(expr) ==
    Listed(expr) /\ \A k \in DOMAIN expr : expr[k].op \in {"addr", "plus_uconst", "fbreg"} => expr[k].n \in Int

Readable(image) ==
    LET info == image.unit.info
        state == image.state
    IN  /\ Listed(info)
        /\ \A i \in DOMAIN info : info[i].loc.form = "expr" => Operands(info[i].loc.expr)
        /\ \A at \in DOMAIN image.lists : /\ Listed(image.lists[at])
                                         /\ \A k \in DOMAIN image.lists[at] : Operands(image.lists[at][k].expr)
        /\ \A addr \in DOMAIN state.memory : state.memory[addr] \in 0..(ByteBase - 1)
        /\ \A kind \in Registers : \A n \in DOMAIN state.slots[kind] : state.slots[kind][n].v \in Int
        /\ \A ref \in DOMAIN image.dies :
                LET type == Resolve(image.dies, ref)
                IN  /\ image.dies[ref].size \in Nat \cup {Absent} /\ ArrayCount(image.dies[ref]) \in Int
                    /\ type.kind \in {"struct", "union"} =>
                            Listed(type.members) /\ \A i \in DOMAIN type.members : type.members[i].offset \in Int
                    /\ type.kind = "rustEnum" =>
                            Listed(type.arms) /\ \A a \in DOMAIN type.arms : type.arms[a].member.offset \in Int

\* What is held as a bigint is also a JavaScript number.
ExactSlots(image) ==
    \A kind \in Registers : \A n \in DOMAIN image.state.slots[kind] :
        LET slot == image.state.slots[kind][n] IN slot.form = "bigint" => Magnitude(slot.v) < Exact

\* Members and payloads lie inside their type, those of a struct apart.
Inside(dies, member, size) ==
    /\ member.offset \in Nat /\ SizeOf(dies, member.ref) \in Nat
    /\ member.offset + SizeOf(dies, member.ref) <= size

Disjoint(dies, m, n) ==
    m.offset + SizeOf(dies, m.ref) <= n.offset \/ n.offset + SizeOf(dies, n.ref) <= m.offset

LaidOut(image) ==
    \A ref \in DOMAIN image.dies :
        LET dies == image.dies
            type == Resolve(dies, ref)
        IN  /\ type.kind = "rustEnum" =>
                    \A a \in DOMAIN type.arms : type.arms[a].member.ref # Absent => Inside(dies, type.arms[a].member, type.size)
            /\ type.kind \in {"struct", "union"} =>
                    \A i \in DOMAIN type.members : Inside(dies, type.members[i], type.size)
            /\ type.kind = "struct" =>
                    /\ \A i, j \in DOMAIN type.members : i # j => Disjoint(dies, type.members[i], type.members[j])
                    /\ FatPointer(dies, type) # <<>> /\ type.name = "&[" =>
                            StripTypedefs(dies, FatPointer(dies, type)[1].ref).kind = "pointer"

\* No promise of a compiler: elements are neither arrays nor without bytes.  byteSizeOf
\* (ValueDecoder.ts) takes both for the size of an address.
Sized(dies, ref) ==
    LET type == StripTypedefs(dies, ref)
    IN  type.kind \in {"base", "pointer", "enum", "struct", "union", "rustEnum"} /\ type.size \in Nat \ {0}

PlainElements(image) ==
    \A ref \in DOMAIN image.dies :
        LET dies == image.dies
            type == Resolve(dies, ref)
        IN  /\ type.kind = "array" => Sized(dies, type.elem)
            /\ type.kind = "struct" /\ FatPointer(dies, type) # <<>> /\ type.name = "&[" =>
                    Sized(dies, StripTypedefs(dies, FatPointer(dies, type)[1].ref).target)

============================================================================
