----------------------------- MODULE LineTable -----------------------------
(***************************************************************************)
(* dwarf/line.ts and dwarf/LineTable.ts: the line-number program of a      *)
(* compilation unit, run to the rows of its matrix, and the table of all   *)
(* units' rows that maps a code offset to a source line.                   *)
(*                                                                         *)
(* A program is a sequence of opcodes, records [op, n].  A row keeps what a *)
(* lookup reads: address, file index, line and the end-of-sequence mark;    *)
(* the column and is_stmt registers are left out.                           *)
(***************************************************************************)
EXTENDS Integers, Sequences, SequencesExt

CONSTANTS MinInst,      \* minimum_instruction_length of the header
          LineBase,     \* line_base of the header, already sign extended
          LineRange,    \* line_range of the header
          OpcodeBase    \* opcode_base: the first special opcode

ASSUME HeaderAssumption == /\ MinInst \in Nat /\ LineBase \in Int
                           /\ LineRange \in Nat \ {0} /\ OpcodeBase \in Nat

\* The answer of a lookup that finds nothing (null).
NoEntry == [line |-> -1]

----------------------------------------------------------------------------
\* The registers of the line-number machine and the rows emitted so far.
StartOfSequence(rows) == [address |-> 0, file |-> 1, line |-> 1, rows |-> rows]

\* What one opcode adds to the address register.
PcDelta(op) ==
    CASE op.op = "special"          -> ((op.n - OpcodeBase) \div LineRange) * MinInst
      [] op.op = "const_add_pc"     -> ((255 - OpcodeBase) \div LineRange) * MinInst
      [] op.op = "advance_pc"       -> op.n * MinInst
      [] op.op = "fixed_advance_pc" -> op.n
      [] OTHER                      -> 0

\* What one opcode adds to the line register.
LineDelta(op) ==
    CASE op.op = "special"      -> LineBase + ((op.n - OpcodeBase) % LineRange)
      [] op.op = "advance_line" -> op.n
      [] OTHER                  -> 0

Emits(op) == op.op \in {"special", "copy", "end_sequence"}

\* One turn of the loop of runStateMachine: move the registers, emit a row when
\* the opcode does, and start again after the end of a sequence.  Opcodes that
\* carry no state (set_column, set_isa, unknown ones) only consume their operands.
Exec(st, op) ==
    LET row == [address |-> IF op.op = "set_address" THEN op.n ELSE st.address + PcDelta(op),
                line |-> st.line + LineDelta(op),
                file |-> IF op.op = "set_file" THEN op.n ELSE st.file,
                end |-> op.op = "end_sequence"]
        emitted == IF Emits(op) THEN Append(st.rows, row) ELSE st.rows
    IN  IF row.end THEN StartOfSequence(emitted)
        ELSE [address |-> row.address, file |-> row.file, line |-> row.line, rows |-> emitted]

RunProgram(ops) ==
    LET After[i \in 0..Len(ops)] == IF i = 0 THEN StartOfSequence(<<>>) ELSE Exec(After[i - 1], ops[i])
    IN  After[Len(ops)].rows

----------------------------------------------------------------------------
\* A table read from a v4 header reserves index 0, for the compilation directory
\* and for the unit's primary file; a v5 table is indexed from 0 as written.
Indexed(version, reserved, declared) == IF version = 4 THEN <<reserved>> \o declared ELSE declared

EntryAt(table, index, default) == IF index + 1 \in DOMAIN table THEN table[index + 1] ELSE default

\* A directory or file name: an empty one, a relative one or an absolute one.
EmptyName == [text |-> "", abs |-> FALSE]

UnitDirs(program) == Indexed(program.version, EmptyName, program.dirs)
UnitFiles(program) == Indexed(program.version, [name |-> EmptyName, dir |-> 0], program.files)

\* resolveFilePath: the file's own name, or the unit's for the reserved entry; an
\* absolute name stands alone, a relative one hangs off its directory, and a
\* relative directory off the compilation directory.  A path is the sequence of
\* its non-empty parts.
ResolveFilePath(program, cu, index) ==
    LET file == EntryAt(UnitFiles(program), index, [name |-> EmptyName, dir |-> -1])
        name == IF file.name # EmptyName THEN file.name ELSE cu.name
        dir  == EntryAt(UnitDirs(program), file.dir, EmptyName)
        base == IF dir.abs THEN <<dir>> ELSE <<cu.compDir, dir>>
    IN  SelectSeq(IF name.abs THEN <<name>> ELSE base \o <<name>>, LAMBDA part : part # EmptyName)

\* collectEntries: a unit's rows with their file indices resolved.
EntriesOf(program, cu) ==
    LET rows == RunProgram(program.ops)
    IN  [i \in DOMAIN rows |->
            [address |-> rows[i].address, path |-> ResolveFilePath(program, cu, rows[i].file),
             line |-> rows[i].line, end |-> rows[i].end]]

\* The units fromWasm reads a program for: of the units that name a program the
\* first one, whose directory and name then stand for all of them.
ReadUnits(cus) ==
    LET Read[i \in 0..Len(cus)] ==
            IF i = 0 THEN <<>>
            ELSE LET read == Read[i - 1]
                 IN  IF cus[i].stmt # 0 /\ \A k \in DOMAIN read : read[k].stmt # cus[i].stmt
                     THEN Append(read, cus[i]) ELSE read
    IN  Read[Len(cus)]

\* Variant: rows at one address in the order they come.
PrecedesByAddress(e, f) == e.address < f.address

\* The order of the sort of fromWasm: by address, the end of a sequence before a row
\* at the same address.
Precedes(e, f) == e.address < f.address \/ (e.address = f.address /\ e.end /\ ~f.end)

\* Array.sort is stable: each entry comes after all that it does not precede.
Insert(sorted, entry) == InsertAt(sorted, Max({0} \cup {i \in DOMAIN sorted : ~Precedes(entry, sorted[i])}) + 1, entry)

Sorted(entries) ==
    LET Upto[k \in 0..Len(entries)] == IF k = 0 THEN <<>> ELSE Insert(Upto[k - 1], entries[k])
    IN  Upto[Len(entries)]

\* fromWasm on a module that carries the debug sections; wasm is
\* [cus, programs], a compilation unit [stmt, compDir, name].
UnitRows(wasm) ==
    LET cus == ReadUnits(wasm.cus)
    IN  [u \in DOMAIN cus |-> EntriesOf(wasm.programs[cus[u].stmt], cus[u])]

Entries(wasm) == Sorted(FlattenSeq(UnitRows(wasm)))

\* filePath: the path of a file index of the program at stmt, <<>> when unknown.
FilePath(wasm, stmt, index) ==
    LET cus == SelectSeq(ReadUnits(wasm.cus), LAMBDA cu : cu.stmt = stmt)
    IN  IF cus = <<>> \/ index \notin 0..(Len(UnitFiles(wasm.programs[stmt])) - 1) THEN <<>>
        ELSE ResolveFilePath(wasm.programs[stmt], cus[1], index)

\* lookup: the binary search for the rightmost entry at or below the offset; an
\* end-of-sequence entry covers nothing.
Lookup(entries, codeOffset) ==
    LET n == Len(entries)
        Rightmost[s \in [lo : 0..n, hi : -1..(n - 1), found : -1..(n - 1)]] ==
            LET mid == (s.lo + s.hi) \div 2
            IN  IF s.lo > s.hi THEN s.found
                ELSE IF entries[mid + 1].address <= codeOffset
                     THEN Rightmost[[lo |-> mid + 1, hi |-> s.hi, found |-> mid]]
                     ELSE Rightmost[[lo |-> s.lo, hi |-> mid - 1, found |-> s.found]]
        found == Rightmost[[lo |-> 0, hi |-> n - 1, found |-> -1]]
    IN  IF found < 0 \/ entries[found + 1].end THEN NoEntry ELSE entries[found + 1]

\* DwarfSourceMapper.mapEntry: an entry is a location the user can be shown when
\* it has a line (0 is compiler-generated code) and its file is on disk.
MapEntry(entry, onDisk) ==
    IF entry = NoEntry \/ entry.line = 0 \/ entry.path \notin onDisk THEN NoEntry
    ELSE [path |-> entry.path, line |-> entry.line]

============================================================================
