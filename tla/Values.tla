------------------------------- MODULE Values -------------------------------
(***************************************************************************)
(* dwarf/TypeRegistry.ts and dwarf/ValueDecoder.ts: the type an entry of     *)
(* .debug_info describes, and the value shown for a location of that type,   *)
(* with the children the Variables view expands one level at a time.        *)
(*                                                                         *)
(* Entries are records [tag, name, type, size, enc, at, value, count, upper, *)
(* discr, kids]; a reference is an index of the function dies.  Names are    *)
(* kept only where the decoder recognises a type by one.                    *)
(***************************************************************************)
EXTENDS Locations

CONSTANTS ByteBase,         \* the values of a byte
          AddressSize,      \* the bytes of a pointer
          MaxDepth, MaxChildren, MaxStringBytes     \* the decode budget

ASSUME BudgetAssumption == MaxDepth \in Nat /\ MaxChildren \in Nat /\ MaxStringBytes \in Nat
ASSUME ByteAssumption == ByteBase \in Nat \ {0, 1} /\ AddressSize \in Nat \ {0}

Absent == -1
Unresolved == [kind |-> "unresolved"]

----------------------------------------------------------------------------
\* TypeRegistry: one level of a type, references left to be resolved.
KidsOf(die, tag) == SelectSeq(die.kids, LAMBDA kid : kid.tag = tag)

\* memberOffset: a constant, or an expression that is one plus_uconst; else 0.
MemberOffset(die) == IF die.at.form \in {"const", "plus_uconst"} THEN die.at.n ELSE 0

BuildMember(die) == [name |-> die.name, ref |-> die.type, offset |-> MemberOffset(die)]

Members(die) == LET kids == KidsOf(die, "member") IN [i \in DOMAIN kids |-> BuildMember(kids[i])]

\* arrayCount: the count of the subrange, or its upper bound plus one.
ArrayCount(die) ==
    LET sub == KidsOf(die, "subrange")
    IN  IF sub = <<>> THEN Absent
        ELSE IF sub[1].count # Absent THEN sub[1].count
        ELSE IF sub[1].upper # Absent THEN sub[1].upper + 1 ELSE Absent

\* decodeRustEnum: the arms of the variant part, and where the discriminant is.
RustEnum(dies, die, part) ==
    LET arms == KidsOf(part, "variant")
        payload(arm) == KidsOf(arm, "member")
    IN  [kind |-> "rustEnum", size |-> die.size,
         discr |-> IF part.discr \in DOMAIN dies
                   THEN <<[offset |-> MemberOffset(dies[part.discr]), ref |-> dies[part.discr].type]>>
                   ELSE <<>>,
         arms |-> [i \in DOMAIN arms |->
                    [value |-> arms[i].value,
                     member |-> IF payload(arms[i]) # <<>> THEN BuildMember(payload(arms[i])[1])
                                ELSE [name |-> "", ref |-> Absent, offset |-> 0]]]]

\* resolve: the type at a reference.
Wrappers == {"typedef", "const", "volatile"}

Resolve(dies, ref) ==
    IF ref \notin DOMAIN dies THEN Unresolved
    ELSE LET die == dies[ref]
             part == KidsOf(die, "variant_part")
         IN  CASE die.tag = "base" ->
                    [kind |-> "base", enc |-> die.enc, size |-> IF die.size = 0 THEN Absent ELSE die.size]
               [] die.tag = "pointer" ->
                    [kind |-> "pointer", target |-> die.type, size |-> IF die.size = Absent THEN AddressSize ELSE die.size]
               [] die.tag = "struct" /\ part # <<>> -> RustEnum(dies, die, part[1])
               [] die.tag \in {"struct", "union"} /\ (part = <<>> \/ die.tag = "union") ->
                    [kind |-> die.tag, name |-> die.name, size |-> die.size, members |-> Members(die)]
               [] die.tag = "array" -> [kind |-> "array", elem |-> die.type, count |-> ArrayCount(die)]
               [] die.tag = "enum" ->
                    [kind |-> "enum", size |-> die.size]
               [] die.tag \in Wrappers -> [kind |-> "alias", target |-> die.type]
               [] OTHER -> Unresolved

\* stripTypedefs: the type under typedefs and qualifiers, stopping at a wrapper
\* without a target and on a reference already followed.
Stripped(dies, ref) ==
    LET Under[r \in Int, seen \in SUBSET DOMAIN dies] ==
            IF /\ r \in DOMAIN dies
               /\ dies[r].tag \in Wrappers
               /\ dies[r].type \in DOMAIN dies \ seen
            THEN Under[dies[r].type, seen \cup {dies[r].type}]
            ELSE r
    IN  Under[ref, {}]

StripTypedefs(dies, ref) == Resolve(dies, Stripped(dies, ref))

\* Variant: the width of a typedef is that of an address.
ByteSizeNamed(dies, ref) ==
    LET type == Resolve(dies, ref)
    IN  IF type.kind \in {"base", "pointer", "enum", "struct", "union", "rustEnum"} /\ type.size \notin {0, Absent}
        THEN type.size ELSE AddressSize

\* byteSizeOf: the width of a type, an address where it says none; arrays and what
\* is not a type fall under the default.
ByteSizeOf(dies, ref) ==
    LET type == StripTypedefs(dies, ref)
    IN  IF type.kind \in {"base", "pointer", "enum", "struct", "union", "rustEnum"} /\ type.size \notin {0, Absent}
        THEN type.size ELSE AddressSize

----------------------------------------------------------------------------
\* readMemory: the bytes of the snapshot, 0 where it has none.
ReadMemory(state, addr, size) ==
    IF size <= 0 \/ addr < 0 THEN <<>>
    ELSE [i \in 1..size |-> IF addr + i - 1 \in DOMAIN state.memory THEN state.memory[addr + i - 1] ELSE 0]

\* What a byte at place n counts for: 2^(8n) in the code.
Weight(n) == LET W[i \in 0..n] == IF i = 0 THEN 1 ELSE ByteBase * W[i - 1] IN W[n]

\* readUnsignedLE: the sum of the bytes, the lowest first.
ReadUnsignedLE(bytes) ==
    LET Sum[i \in 0..Len(bytes)] == IF i = 0 THEN 0 ELSE Sum[i - 1] + bytes[i] * Weight(i - 1)
    IN  Sum[Len(bytes)]

\* encodeLE: the low bytes of a value, shifted out one by one.
LowBytes(value, size) ==
    LET Rest[i \in 0..size] == IF i = 0 THEN value ELSE Rest[i - 1] \div ByteBase
    IN  [i \in 1..size |-> Rest[i - 1] % ByteBase]

\* Variant: the sign of a value is dropped.
EncodeMagnitude(value, size) == LowBytes(Magnitude(value), size)
EncodeLE(value, size) == LowBytes(IF value < 0 THEN value + Weight(size) ELSE value, size)

\* rawBytes: the bytes behind a location; <<>> when they cannot be read.
RawBytes(loc, size, state) ==
    LET slot == RegisterValue(loc, state)
    IN  IF loc.kind = "memory" THEN ReadMemory(state, loc.n, size)
        ELSE IF loc.kind = "value" THEN EncodeLE(loc.n, size)
        ELSE IF slot # <<>> THEN EncodeLE(slot[1], size) ELSE <<>>

IntAt(state, addr, size) == LET bytes == ReadMemory(state, addr, size)
                            IN  IF bytes = <<>> THEN Absent ELSE ReadUnsignedLE(bytes)

----------------------------------------------------------------------------
\* A decoded value: what is shown, and the children an expansion decodes.  A child
\* is the location and the type it will be decoded at, in the context it will be
\* decoded in; ctx is [depth, visited].
Leaf(what, v) == [what |-> what, v |-> v, kids |-> <<>>]
Unreadable == Leaf("unreadable", 0)
Elided == [loc |-> [kind |-> "elided", n |-> 0], ref |-> Absent, depth |-> 0, visited |-> {}]

At(addr) == [kind |-> "memory", n |-> addr]

\* Variant: only a pointer costs depth.
FreeChild(addr, ref, ctx) ==
    [loc |-> At(addr), ref |-> ref, depth |-> ctx.depth, visited |-> ctx.visited]

Child(addr, ref, ctx) ==
    [loc |-> At(addr), ref |-> ref, depth |-> ctx.depth + 1, visited |-> ctx.visited]

\* cappedChildren, where child gives the i-th: at most MaxChildren of them, then a mark that more exist.
CappedChildren(count, child) ==
    [i \in 1..(IF count > MaxChildren THEN MaxChildren + 1 ELSE count) |-> IF i > MaxChildren THEN Elided ELSE child[i]]

DecodeBase(type, loc, state) ==
    LET bytes == RawBytes(loc, type.size, state)
        n == ReadUnsignedLE(bytes)
        wraps == type.enc = "signed" /\ 2 * n >= Weight(type.size)
    IN  IF type.size = Absent THEN Leaf("unknown", 0)
        ELSE IF bytes = <<>> THEN Unreadable
        ELSE IF type.enc = "boolean" THEN Leaf("scalar", IF n = 0 THEN 0 ELSE 1)
        ELSE Leaf("scalar", IF wraps THEN n - Weight(type.size) ELSE n)

\* decodePointer: a pointee already entered on this path is cut off.
DecodePointer(type, loc, state, ctx) ==
    LET bytes == RawBytes(loc, IF type.size = 0 THEN AddressSize ELSE type.size, state)
        p == ReadUnsignedLE(bytes)
        key == <<p, type.target>>
        pointee == [loc |-> At(p), ref |-> type.target, depth |-> ctx.depth + 1,
                    visited |-> ctx.visited \cup {key}]
    IN  IF bytes = <<>> THEN Unreadable
        ELSE [what |-> "pointer", v |-> p,
              kids |-> IF p = 0 \/ type.target = Absent THEN <<>>
                       ELSE IF key \in ctx.visited THEN <<Elided>> ELSE <<pointee>>]

Aggregate(type, loc, ctx) ==
    [what |-> "aggregate", v |-> 0,
     kids |-> CappedChildren(Len(type.members),
                [i \in Nat \ {0} |->
                    Child(loc.n + type.members[i].offset, type.members[i].ref, ctx)])]

DecodeArray(dies, type, loc, ctx) ==
    IF loc.kind # "memory" THEN Unreadable
    ELSE LET count == IF type.count = Absent THEN 0 ELSE type.count
         IN  [what |-> "array", v |-> count,
              kids |-> CappedChildren(count, [i \in Nat \ {0} |->
                        Child(loc.n + (i - 1) * ByteSizeOf(dies, type.elem), type.elem, ctx)])]

DecodeEnum(type, loc, state) ==
    LET bytes == RawBytes(loc, IF type.size \in {0, Absent} THEN AddressSize ELSE type.size, state)
    IN  IF bytes = <<>> THEN Unreadable ELSE Leaf("scalar", ReadUnsignedLE(bytes))

\* The first arm with a discriminant, else the default arm, or neither.
ArmOf(arms, disc) ==
    LET with(value) == {a \in DOMAIN arms : arms[a].value = value}
        found == IF with(disc) # {} THEN with(disc) ELSE with(Absent)
    IN  IF found = {} THEN <<>> ELSE <<arms[Min(found)]>>

\* decodeRustEnum: an arm without a payload type has no children.
DecodeRustEnum(dies, type, loc, state, ctx) ==
    LET disc == IF type.discr = <<>> THEN Absent
                ELSE IntAt(state, loc.n + type.discr[1].offset, ByteSizeOf(dies, type.discr[1].ref))
        arm == ArmOf(type.arms, disc)
    IN  IF loc.kind # "memory" THEN Unreadable
        ELSE IF arm = <<>> THEN Leaf("unknown", 0)
        ELSE [what |-> "variant", v |-> arm[1].value,
              kids |-> IF arm[1].member.ref = Absent THEN <<>>
                       ELSE <<Child(loc.n + arm[1].member.offset, arm[1].member.ref, ctx)>>]

----------------------------------------------------------------------------
\* tryRustSurface: the (pointer, length) pair of a &str or a slice: the members
\* named data_ptr and length, or, under a name that says so, the first pointer and
\* the first integer.
IsPointer(dies, ref) == StripTypedefs(dies, ref).kind = "pointer"
IsInteger(dies, ref) == LET t == StripTypedefs(dies, ref)
                        IN  t.kind = "base" /\ t.enc \in {"signed", "unsigned"}

FirstTwo(ptr, len) ==
    IF ptr # <<>> /\ len # <<>> /\ ptr[1] # len[1] THEN <<ptr[1], len[1]>> ELSE <<>>

FatPointer(dies, type) ==
    LET named(n) == SelectSeq(type.members, LAMBDA m : m.name = n)
        marked == type.name \in {"&str", "&["}
        ptr == named("data_ptr") \o SelectSeq(type.members, LAMBDA m : marked /\ IsPointer(dies, m.ref))
        len == named("length") \o SelectSeq(type.members, LAMBDA m : marked /\ IsInteger(dies, m.ref))
    IN  FirstTwo(ptr, len)

DecodeStr(dies, loc, fat, state) ==
    LET ptr == IntAt(state, loc.n + fat[1].offset, AddressSize)
        len == IntAt(state, loc.n + fat[2].offset, ByteSizeOf(dies, fat[2].ref))
        bytes == ReadMemory(state, ptr, IF len > MaxStringBytes THEN MaxStringBytes ELSE len)
    IN  IF bytes = <<>> THEN Unreadable ELSE Leaf("string", bytes)

DecodeSlice(dies, loc, fat, state, ctx) ==
    LET ptr == IntAt(state, loc.n + fat[1].offset, AddressSize)
        len == IntAt(state, loc.n + fat[2].offset, ByteSizeOf(dies, fat[2].ref))
        ptrType == StripTypedefs(dies, fat[1].ref)
        elem == IF ptrType.kind = "pointer" THEN ptrType.target ELSE Absent
        count == IF len = Absent THEN 0 ELSE len
    IN  [what |-> "slice", v |-> count,
         kids |-> IF ptr = Absent THEN <<>>
                  ELSE CappedChildren(count, [i \in Nat \ {0} |->
                            Child(ptr + (i - 1) * ByteSizeOf(dies, elem), elem, ctx)])]

\* transparentMember: the reference of the only member at 0, and of its only member,
\* up to a struct that contains itself.
Innermost(dies, ref) ==
    LET Inner[r \in Int, seen \in SUBSET Int] ==
            LET type == StripTypedefs(dies, r)
            IN  IF /\ type.kind = "struct" /\ Len(type.members) = 1 /\ type.members[1].offset = 0
                   /\ type.members[1].ref \notin seen
                THEN Inner[type.members[1].ref, seen \cup {type.members[1].ref}] ELSE r
    IN  Inner[ref, {}]

\* Outside memory a struct is shown as what it wraps; one that is no wrapper is
\* unreadable there.
Unwrap(dies, ref, loc) ==
    StripTypedefs(dies, IF loc.kind \in Registers \cup {"value"} THEN Innermost(dies, ref) ELSE ref)

DecodeStruct(dies, type, loc, state, ctx) ==
    LET fat == FatPointer(dies, type)
    IN  IF loc.kind # "memory" THEN Unreadable
        ELSE IF type.kind = "union" \/ fat = <<>> THEN Aggregate(type, loc, ctx)
        ELSE IF type.name = "&[" THEN DecodeSlice(dies, loc, fat, state, ctx)
        ELSE DecodeStr(dies, loc, fat, state)

\* decode: the guards, then the decoder of the type's kind.
DecodeAs(dies, type, loc, state, ctx) ==
    CASE type.kind = "base" -> DecodeBase(type, loc, state)
      [] type.kind = "pointer" -> DecodePointer(type, loc, state, ctx)
      [] type.kind \in {"struct", "union"} -> DecodeStruct(dies, type, loc, state, ctx)
      [] type.kind = "array" -> DecodeArray(dies, type, loc, ctx)
      [] type.kind = "enum" -> DecodeEnum(type, loc, state)
      [] type.kind = "rustEnum" -> DecodeRustEnum(dies, type, loc, state, ctx)
      [] OTHER -> Leaf("unknown", 0)

Decode(dies, loc, ref, state, ctx) ==
    IF loc.kind = "unavailable" THEN Leaf("optimized out", 0)
    ELSE IF ctx.depth > MaxDepth THEN Leaf("elided", 0)
    ELSE DecodeAs(dies, Unwrap(dies, ref, loc), loc, state, ctx)

============================================================================
