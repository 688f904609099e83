----------------------------- MODULE ScopeIndex -----------------------------
(***************************************************************************)
(* dwarf/ScopeIndex.ts, with the parts of dwarf/die.ts and dwarf/info.ts it *)
(* stands on: the entry tree of .debug_info, the function that encloses a   *)
(* code offset, the inlined calls that cover it and the variables each      *)
(* frame declares there.                                                    *)
(*                                                                         *)
(* .debug_info is the sequence of entries of one unit, a record            *)
(*   [tag, hasKids, name, low, size, ranges, origin, spec, linkage, loc,    *)
(*    type, callFile, callLine, frameBase],                                *)
(* where "end" is the null entry that closes a list of siblings and Absent  *)
(* a number that is not there, NoName a name.  An entry is known by its position, as   *)
(* the code names it by its section offset.                                 *)
(***************************************************************************)
EXTENDS Integers, Sequences, SequencesExt, FiniteSets

CONSTANT Tombstone      \* the address LLVM writes for code the linker dropped

Absent == -1
NoName == ""

\* The reference hops resolvedName follows before it gives up.
MAX_NAME_HOPS == 4

----------------------------------------------------------------------------
\* readDie: entries come in pre-order, a list of siblings closed by a null entry.
\* The entries whose lists are open, outermost first, after the i-th.
ReadEntry(open, entry, i) ==
    IF entry.tag = "end" THEN Front(open) ELSE IF entry.hasKids THEN Append(open, i) ELSE open

\* The entries around each entry, the innermost its parent.
Arounds(info) ==
    LET Open[i \in 0..Len(info)] == IF i = 0 THEN <<>> ELSE LET open == Open[i - 1] IN ReadEntry(open, info[i], i)
    IN  [i \in DOMAIN info |-> Open[i - 1]]

\* The entries that a walk down from a scope comes to: it goes into the entries of open.
Reached(info, scope, open) ==
    LET arounds == Arounds(info)
    IN  {i \in DOMAIN info : \E k \in DOMAIN arounds[i] :
            /\ arounds[i][k] = scope
            /\ \A j \in (k + 1)..Len(arounds[i]) : arounds[i][j] \in open}

\* The elements of a finite set, each after those that come before it.
InOrder(S, before) ==
    LET rank == [i \in S |-> Cardinality({j \in S : <<j, i>> \in before})]
    IN  [k \in 1..Cardinality(S) |-> CHOOSE i \in S : rank[i] = k - 1]

\* Entries as the walk comes to them.
InSection(S) == InOrder(S, {p \in S \X S : p[1] < p[2]})

----------------------------------------------------------------------------
\* rangesCover: the list's pairs up to the terminator, relative to a base that
\* a base-selection entry replaces for the entries after it.
RangesCover(list, pc, cuLowPc) ==
    LET Base[k \in 0..Len(list)] ==
            IF k = 0 THEN cuLowPc ELSE IF list[k][1] = Tombstone THEN list[k][2] ELSE Base[k - 1]
    IN  \E k \in DOMAIN list : /\ \A j \in 1..k : list[j] # <<0, 0>>
                               /\ list[k][1] # Tombstone
                               /\ pc \in (Base[k] + list[k][1])..(Base[k] + list[k][2] - 1)

HasLowHigh(die) == die.low # Absent /\ die.size # Absent

\* unit is [low, stmt, info, ranges]: DW_AT_low_pc and DW_AT_stmt_list of the unit,
\* its entries, and the lists of .debug_ranges by offset, empty when the section
\* is not there.
ListCovers(unit, die, pc) ==
    die.ranges \in DOMAIN unit.ranges /\ RangesCover(unit.ranges[die.ranges], pc, unit.low)

\* rangeCovers: an inlined call is placed by a range that can be read, or not at all.
RangeCovers(unit, die, pc) ==
    IF HasLowHigh(die) THEN die.low # Tombstone /\ pc \in die.low..(die.low + die.size - 1)
    ELSE ListCovers(unit, die, pc)

\* blockCovers: a lexical block without a range applies to the whole scope around it.
BlockCovers(unit, die, pc) ==
    IF HasLowHigh(die) THEN pc \in die.low..(die.low + die.size - 1)
    ELSE die.ranges = Absent \/ ListCovers(unit, die, pc)

----------------------------------------------------------------------------
\* record: the functions with a contiguous range, sorted by their low address (the
\* sort is stable), and the functions with a range list.
Subprograms(info) == {i \in DOMAIN info : info[i].tag = "subprogram"}

Contiguous(info) ==
    LET fns == {i \in Subprograms(info) : HasLowHigh(info[i])}
        first(i, j) == info[i].low < info[j].low \/ (info[i].low = info[j].low /\ i < j)
    IN  InOrder(fns, {p \in fns \X fns : first(p[1], p[2])})

Ranged(info) == {i \in Subprograms(info) : ~HasLowHigh(info[i]) /\ info[i].ranges # Absent}

\* recordAt: a binary search of the contiguous functions, then the others in
\* turn; 0 when none covers the offset.
FindContiguous(fns, info, pc) ==
    LET n == Len(fns)
        Search[s \in [lo : 0..n, hi : -1..(n - 1)]] ==
            LET mid == (s.lo + s.hi) \div 2
                fn  == info[fns[mid + 1]]
            IN  IF s.lo > s.hi THEN 0
                ELSE IF pc < fn.low THEN Search[[lo |-> s.lo, hi |-> mid - 1]]
                ELSE IF pc >= fn.low + fn.size THEN Search[[lo |-> mid + 1, hi |-> s.hi]]
                ELSE fns[mid + 1]
    IN  Search[[lo |-> 0, hi |-> n - 1]]

RecordAt(unit, pc) ==
    LET found == FindContiguous(Contiguous(unit.info), unit.info, pc)
        ranged == {i \in Ranged(unit.info) : ListCovers(unit, unit.info[i], pc)}
    IN  IF found # 0 THEN found ELSE IF ranged # {} THEN Min(ranged) ELSE 0

\* resolvedName: an entry's own name, or the name of what it is an instance or a
\* declaration of, or at last its linkage name.
ResolvedName(info, die) ==
    LET Name[d \in DOMAIN info, hops \in 0..MAX_NAME_HOPS] ==
            LET via(target) == IF hops < MAX_NAME_HOPS /\ target \in DOMAIN info
                               THEN Name[target, hops + 1] ELSE NoName
                ladder == SelectSeq(<<info[d].name, via(info[d].origin), via(info[d].spec),
                                      info[d].linkage>>, LAMBDA name : name # NoName)
            IN  IF ladder = <<>> THEN NoName ELSE Head(ladder)
    IN  Name[die, 0]

\* indexTree and record: a function's name qualified by the namespaces and types
\* around it, outermost first; empty when the function has no name of its own.
QualifiedName(info, die) ==
    LET around == Arounds(info)[die]
        nests(d) == info[d].tag \in {"namespace", "struct"} /\ info[d].name # NoName
        Scope[k \in 0..Len(around)] ==
            IF k = 0 THEN NoName
            ELSE LET outer == Scope[k - 1]
                 IN  IF nests(around[k]) THEN outer \o info[around[k]].name \o "::" ELSE outer
    IN  IF info[die].name = NoName THEN NoName ELSE Scope[Len(around)] \o info[die].name

----------------------------------------------------------------------------
\* toScopeVar: a declaration with neither a name nor a location shows nothing.
\* The name and the type are the entry's own: an abstract origin is not followed.
Shown(die) == die.name # NoName \/ die.loc.form # "none"

ToScopeVar(unit, fn, i) ==
    LET die == unit.info[i]
    IN  [die |-> i, name |-> die.name, type |-> die.type, loc |-> die.loc,
         frameBase |-> unit.info[fn].frameBase, isParam |-> die.tag = "param"]

OpenBlocks(unit, pc) ==
    {i \in DOMAIN unit.info : unit.info[i].tag = "block" /\ BlockCovers(unit, unit.info[i], pc)}
OpenCalls(unit, pc) ==
    {i \in DOMAIN unit.info : unit.info[i].tag = "inlined" /\ RangeCovers(unit, unit.info[i], pc)}

\* The declarations a walk from a scope comes to.
Declared(unit, fn, scope, open) ==
    LET declared == {i \in Reached(unit.info, scope, open) :
                        unit.info[i].tag \in {"param", "variable"} /\ Shown(unit.info[i])}
        order == InSection(declared)
    IN  [k \in DOMAIN order |-> ToScopeVar(unit, fn, order[k])]

\* Variant: the declarations of inlined calls with those of the function.
CollectInlined(unit, fn, scope, pc) == Declared(unit, fn, scope, OpenBlocks(unit, pc) \cup OpenCalls(unit, pc))

\* collect: the declarations directly under a scope and those of the lexical
\* blocks in it that cover the offset, inner ones after outer ones.
Collect(unit, fn, scope, pc) == Declared(unit, fn, scope, OpenBlocks(unit, pc))

\* toInlineScope: an inlined call as a frame, with its call site and its own
\* declarations.
ToInlineScope(unit, fn, i, pc) ==
    [die |-> i, name |-> ResolvedName(unit.info, i), callFile |-> unit.info[i].callFile,
     callLine |-> unit.info[i].callLine, stmt |-> unit.stmt,
     variables |-> Collect(unit, fn, i, pc)]

\* collectInlines: the inlined calls under a scope that cover the offset,
\* outermost first; a covering lexical block is looked through.
CollectInlines(unit, fn, pc) ==
    LET calls == OpenCalls(unit, pc)
        order == InSection(calls \cap Reached(unit.info, fn, OpenBlocks(unit, pc) \cup calls))
    IN  [k \in DOMAIN order |-> ToInlineScope(unit, fn, order[k], pc)]

\* inlineScopesAt and variablesInScope: nothing outside every recorded function.
InlineScopesAt(unit, pc) ==
    LET fn == RecordAt(unit, pc) IN IF fn = 0 THEN <<>> ELSE CollectInlines(unit, fn, pc)

VariablesInScope(unit, pc) ==
    LET fn == RecordAt(unit, pc) IN IF fn = 0 THEN <<>> ELSE Collect(unit, fn, fn, pc)

============================================================================
