-------------------------- MODULE VariableResolver --------------------------
(***************************************************************************)
(* sourcemap/VariableResolver.ts over the DWARF modules: what a user sees   *)
(* of the source at a code offset.  Look moves to an offset, which yields a *)
(* line and the frames of the function there; Inspect decodes a variable of *)
(* one of the frames, and Expand a child of what was decoded last.          *)
(***************************************************************************)
EXTENDS LineTable, Values

CONSTANTS Tombstone,
          Images,       \* the debug information, memory and record to read from
          Offsets,      \* the code offsets a cursor can stand at
          OnDisk        \* the source paths that exist

ASSUME OffsetsAssumption == Offsets \subseteq Nat

Scopes == INSTANCE ScopeIndex

VARIABLES img,      \* [wasm, unit, lists, dies, state], one of Images, with what the
                    \* compiler meant by it: [matrix], and for each entry its
                    \* extent and the name it means
          table,    \* the line table, read once for the module
          pc,       \* the offset looked at, Absent before the first
          line,     \* the location of the offset
          frames,   \* its frames, outermost first, the function itself the first
          node,     \* what was decoded last: [loc, ref, shown]
          path      \* the expansions since a variable was inspected, with the pointees entered

vars == <<img, table, pc, line, frames, node, path>>

NoNode == [loc |-> Unavailable, ref |-> Absent, shown |-> Leaf("none", 0)]

----------------------------------------------------------------------------
\* toInlineFrame: the call site is shown when its file index resolves to a path.
CallSite(scope) ==
    LET file == IF scope.stmt \in DOMAIN img.wasm.programs
                THEN FilePath(img.wasm, scope.stmt, scope.callFile) ELSE <<>>
    IN  IF file = <<>> \/ scope.callLine = Absent THEN NoEntry ELSE [path |-> file, line |-> scope.callLine]

InlineFrames(scopes) ==
    [i \in DOMAIN scopes |->
        [die |-> scopes[i].die, name |-> scopes[i].name, callSite |-> CallSite(scopes[i]), variables |-> scopes[i].variables]]

\* The frames of one activation: the function and the calls inlined into it.
FunctionFrame(fn, offset) ==
    IF fn = 0 THEN <<>>
    ELSE <<[die |-> fn, name |-> Scopes!QualifiedName(img.unit.info, fn), callSite |-> NoEntry,
            variables |-> Scopes!VariablesInScope(img.unit, offset)]>>

FramesAt(offset) ==
    FunctionFrame(Scopes!RecordAt(img.unit, offset), offset)
        \o InlineFrames(Scopes!InlineScopesAt(img.unit, offset))

\* decodeVariable: the expression is the variable's own or the one its location
\* list gives for the offset; without one the variable is optimized out.
VariableExpr(v) ==
    CASE v.loc.form = "expr" -> v.loc.expr
      [] v.loc.form = "list" /\ v.loc.at \in DOMAIN img.lists ->
            SelectLocation(img.lists[v.loc.at], pc, img.unit.low)
      [] OTHER -> NoExpr

LocationOf(expr, v) ==
    IF expr = NoExpr THEN Unavailable ELSE EvalLocation(expr, v.frameBase, img.state)

VariableLocation(v) == LocationOf(VariableExpr(v), v)

----------------------------------------------------------------------------
Init == /\ img \in Images
        /\ table = Entries(img.wasm)
        /\ pc = Absent
        /\ line = NoEntry
        /\ frames = <<>>
        /\ node = NoNode
        /\ path = <<>>

Look == \E offset \in Offsets :
            /\ pc' = offset
            /\ line' = MapEntry(Lookup(table, offset), OnDisk)
            /\ frames' = FramesAt(offset)
            /\ node' = NoNode
            /\ path' = <<>>
            /\ UNCHANGED <<img, table>>

Inspect == \E f \in DOMAIN frames : \E i \in DOMAIN frames[f].variables :
            LET v == frames[f].variables[i]
                loc == VariableLocation(v)
            IN  /\ node' = [loc |-> loc, ref |-> v.type,
                            shown |-> Decode(img.dies, loc, v.type, img.state, [depth |-> 0, visited |-> {}])]
                /\ path' = <<>>
                /\ UNCHANGED <<img, table, pc, line, frames>>

Expand == \E i \in DOMAIN node.shown.kids :
            LET kid == node.shown.kids[i]
            IN  /\ kid # Elided
                /\ node' = [loc |-> kid.loc, ref |-> kid.ref,
                            shown |-> Decode(img.dies, kid.loc, kid.ref, img.state, kid)]
                /\ path' = Append(path, IF node.shown.what = "pointer" THEN <<kid.loc.n, kid.ref>> ELSE <<>>)
                /\ UNCHANGED <<img, table, pc, line, frames>>

Next == Look \/ Inspect \/ Expand
Spec == Init /\ [][Next]_vars

----------------------------------------------------------------------------
\* The row of the compiler's matrix that covers an offset: the last one at or below
\* it in the sequence the offset is in.
Covering(offset) ==
    LET seqs == {s \in img.matrix : s.rows[1].address <= offset /\ offset < s.end}
        below(s) == {i \in DOMAIN s.rows : s.rows[i].address <= offset}
        last(s) == CHOOSE i \in below(s) : \A j \in below(s) : j <= i
    IN  {s.rows[last(s)] : s \in seqs}

\* The line shown is the one the compiler attributed to the offset, whatever
\* encoding it chose, whichever unit comes first and wherever sequences meet; and
\* nothing is shown in a gap, at line 0 or for a file that is not there.
LineExact ==
    pc # Absent =>
        line = (IF \E row \in Covering(pc) : row.line # 0 /\ row.path \in OnDisk
                THEN LET row == CHOOSE r \in Covering(pc) : TRUE IN [path |-> row.path, line |-> row.line]
                ELSE NoEntry)

\* The entries around an entry, itself included, outermost first; it is live where
\* the scopes among them are.
Around(info, i) == Append(Scopes!Arounds(info)[i], i)

CallTags == {"subprogram", "inlined"}
ScopeTags == CallTags \cup {"block"}
Live(info, i, offset) == \A k \in ToSet(Around(info, i)) : info[k].tag \in ScopeTags => offset \in info[k].extent

\* The innermost function or inlined call around an entry.
Owns(info, call, i) ==
    LET calls == {k \in ToSet(Around(info, i)) : info[k].tag \in CallTags}
    IN  call \in calls /\ \A k \in calls : k <= call

\* The frames at an offset are the function there and every inlined call that covers
\* it, each inside the one before and under the name of the function it is an
\* instance of; and a declaration is shown in exactly one frame,
\* the one that declares it, and only while every scope around it covers the offset.
FramesMatchScopes ==
    LET info == img.unit.info
        live == {i \in DOMAIN info : Live(info, i, pc)}
        shown(f) == {frames[f].variables[k].die : k \in DOMAIN frames[f].variables}
    IN  pc # Absent =>
        /\ {frames[f].die : f \in DOMAIN frames} = {i \in live : info[i].tag \in CallTags}
        /\ \A f \in DOMAIN frames : f > 1 => frames[f - 1].die \in ToSet(Around(info, frames[f].die))
        /\ \A f \in DOMAIN frames : frames[f].name = info[frames[f].die].means
        /\ \A f \in DOMAIN frames :
                shown(f) = {i \in live : /\ info[i].tag \in {"param", "variable"}
                                        /\ Scopes!Shown(info[i])
                                        /\ Owns(info, frames[f].die, i)}

\* The integer a location holds, of a width in bytes.
Holds(loc, size) ==
    CASE loc.kind \in Registers -> img.state.slots[loc.kind][loc.n].v
      [] loc.kind = "value" -> loc.n
      [] loc.kind = "memory" -> ReadUnsignedLE(ReadMemory(img.state, loc.n, size))

\* A number is shown exactly: the value its slot or its bytes hold, read in the
\* width and the signedness of its type, whether it lives in a slot, in memory or
\* inside a newtype.
ScalarExact ==
    LET type == Unwrap(img.dies, node.ref, node.loc)
        range == Weight(type.size)
    IN  node.shown.what = "scalar" /\ type.kind = "base" /\ type.enc # "boolean" =>
            /\ (node.shown.v - Holds(node.loc, type.size)) % range = 0
            /\ IF type.enc = "signed" THEN 2 * node.shown.v \in (-range)..(range - 1)
               ELSE node.shown.v \in 0..(range - 1)

\* The bytes of a type.
SizeOf(dies, ref) ==
    LET type(r) == StripTypedefs(dies, r)
        Elements[r \in Int] ==
            LET elem == type(r).elem
            IN  type(r).count * (IF type(elem).kind = "array" THEN Elements[elem] ELSE type(elem).size)
    IN  IF type(ref).kind = "array" THEN Elements[ref] ELSE type(ref).size

\* What an expansion shows covers the storage of its parent: the elements of an
\* array or a slice follow one another without a gap or an overlap, those of an array
\* from where it starts; the members of a struct lie inside it and apart from one
\* another, those of a union inside it.
ChildrenTile ==
    LET kids == node.shown.kids
        shown == {i \in DOMAIN kids : kids[i] # Elided}
        end(place) == place.loc.n + SizeOf(img.dies, place.ref)
        bytes(place) == place.loc.n..(end(place) - 1)
    IN  /\ node.shown.what \in {"array", "slice"} =>
                \A i \in shown : IF i = 1 THEN node.shown.what = "array" => kids[i].loc.n = node.loc.n
                               ELSE i - 1 \in shown /\ kids[i].loc.n = end(kids[i - 1])
        /\ node.shown.what \in {"aggregate", "variant"} =>
                \A i \in shown :
                    /\ bytes(kids[i]) \subseteq bytes(node)
                    /\ Unwrap(img.dies, node.ref, node.loc).kind # "union" =>
                            \A j \in shown \ {i} : bytes(kids[i]) \cap bytes(kids[j]) = {}

\* Expanding always comes to an end: a path of expansions is no longer than the
\* budget and enters no pointee twice, although the data it walks is cyclic.
ExpansionEnds ==
    /\ Len(path) <= MaxDepth + 1
    /\ \A i, j \in DOMAIN path : i # j /\ path[i] # <<>> => path[i] # path[j]

============================================================================
