------------------------------ MODULE Artifacts ------------------------------
(***************************************************************************)
(* What a session derives from the records of a trace and the wasm of the   *)
(* root contract: the executing contract of every record (LedgerImage.ts),  *)
(* the positions it trusts and the ladder of what it falls back to          *)
(* (debugAdapter/artifacts.ts), linear memory (MemoryImage.ts) and the      *)
(* outcome (TraceModel.ts).                                                 *)
(***************************************************************************)
EXTENDS TraceRecords, Disassembly

----------------------------------------------------------------------------
\* callStackAt: the open calls at every record, outermost first.  A call counts from
\* its own record on, its end from the next one (LedgerImage, L6 and L15).
CallsAt(records) ==
    LET at(open, event) == IF event.kind = "callContract" THEN Append(open, event.fields["to"]) ELSE open
        after[i \in 0..Len(records)] ==
            IF i = 0 THEN <<>>
            ELSE LET calls == at(after[i - 1], records[i].event)
                 IN  IF records[i].event.kind = "endWasm" /\ calls # <<>> THEN Front(calls) ELSE calls
    IN  [i \in DOMAIN records |-> at(after[i - 1], records[i].event)]

\* Variant: the contract of the transaction, not that of the innermost call.
ExecutingOutermost(calls) == IF calls = <<>> THEN "none" ELSE Head(calls)

\* executingContractAt: none before any call.
Executing(calls) == IF calls = <<>> THEN "none" ELSE Last(calls)

\* The contract that executes at every record.
ContractsAt(records) ==
    LET calls == CallsAt(records)
    IN  [i \in DOMAIN records |-> Executing(calls[i])]

\* validatedPositions: the cross-contract gate, where the root is the first contract
\* that executes and a record without an open call is never gated; then an
\* instruction starts at the offset, and it is the one the record names, unless the
\* record cannot name it.
ValidatedPositions(records, dis) ==
    LET contracts == ContractsAt(records)
        root == contracts[SelectInSeq(contracts, LAMBDA c : c # "none")]
        inRoot(i) == contracts[i] = "none" \/ contracts[i] = root
        stands(rec) == LET at == IndexForAddress(dis, rec.pos[1])
                       IN  /\ at > 0
                           /\ dis.instructions[at].address = rec.pos[1]
                           /\ rec.instr \in {"unknown", dis.instructions[at].text}
    IN  [i \in DOMAIN records |->
            IF inRoot(i) /\ records[i].pos # <<>> /\ stands(records[i]) THEN records[i].pos ELSE <<>>]

\* traceDerivedArtifacts, readLineTable, resolveVariables and buildDebugArtifacts:
\* each part of the wasm that cannot be read costs what is made of it and no more.
TraceDerived(records) ==
    [dis |-> FromTrace(records), source |-> "null", variables |-> "null",
     positions |-> [i \in DOMAIN records |-> records[i].pos]]

BuildArtifacts(wasm, records) ==
    LET dis == FromWasm(wasm)
    IN  IF ~wasm.readable \/ dis.refused THEN TraceDerived(records)
        ELSE [dis |-> dis,
              source |-> IF wasm.lineInfo = "rows" THEN "dwarf" ELSE "null",
              variables |-> IF wasm.scopes = "functions" THEN "dwarf" ELSE "null",
              positions |-> ValidatedPositions(records, dis)]

\* Variant: a snapshot without a run is taken for memory that did not change.
LastFilledSnapshotAt(records, cursor) ==
    SelectLastInSubSeq(records, 1, cursor, LAMBDA rec : rec.mem \notin {Unchanged, <<Unchanged>>})

\* MemoryImage: the latest snapshot at or before the cursor, 0 where it has no run
\* and where there is no snapshot; <<>> is what cannot be read.
LastSnapshotAt(records, cursor) ==
    SelectLastInSubSeq(records, 1, cursor, LAMBDA rec : rec.mem # Unchanged)

ReadMemory(records, cursor, addr, size) ==
    LET at == LastSnapshotAt(records, cursor)
        covers(run, a) == run.addr <= a /\ a < run.addr + Len(run.bytes)
        runs == IF at = 0 THEN <<>> ELSE records[at].mem[1]
        byte(a) == LET last == SelectLastInSeq(runs, LAMBDA run : covers(run, a))
                   IN  IF last = 0 THEN 0 ELSE runs[last].bytes[a - runs[last].addr + 1]
    IN  IF size <= 0 \/ addr < 0 THEN <<>> ELSE [k \in 1..size |-> byte(addr + k - 1)]

\* The result of the call that ended at a record.
Outcome(records, at) ==
    IF at = 0 THEN "none" ELSE IF records[at].event.fields["success"] THEN "returned" ELSE "trapped"

\* Variant: the result of the first call that ended.
FirstReturnValue(records) ==
    Outcome(records, SelectInSeq(records, LAMBDA rec : rec.event.kind = "endWasm"))

\* TraceModel.returnValue: the result of the last call that ended.
ReturnValue(records) ==
    Outcome(records, SelectLastInSeq(records, LAMBDA rec : rec.event.kind = "endWasm"))

============================================================================
