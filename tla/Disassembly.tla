----------------------------- MODULE Disassembly -----------------------------
(***************************************************************************)
(* wasm/Disassembly.ts: the instructions and function bodies of a contract, *)
(* in offsets into the code section, from its wasm or, without one, from a  *)
(* trace.                                                                   *)
(***************************************************************************)
EXTENDS Integers, Sequences, SequencesExt

\* The indices of a table by their keys, which are all different, lowest first.
InOrder(key) ==
    LET before == [i \in DOMAIN key |-> Cardinality({j \in DOMAIN key : key[j] < key[i]})]
    IN  [k \in 1..Cardinality(DOMAIN key) |-> CHOOSE i \in DOMAIN key : before[i] = k - 1]

\* The constructor: addresses strictly increase, ranges are sorted; a listing with
\* two instructions at one address is refused.
NoDisassembly == [instructions |-> <<>>, functionRanges |-> <<>>, refused |-> TRUE]
Disassembled(listed, ranges) ==
    LET byAddress == InOrder([i \in DOMAIN listed |-> listed[i].address])
        byStart == InOrder([i \in DOMAIN ranges |-> ranges[i].start])
    IN  IF \E i, j \in DOMAIN listed : i # j /\ listed[i].address = listed[j].address
        THEN NoDisassembly
        ELSE [instructions |-> [k \in DOMAIN byAddress |-> listed[byAddress[k]]],
              functionRanges |-> [k \in DOMAIN byStart |-> ranges[byStart[k]]],
              refused |-> FALSE]

\* fromWasm: of the listing, lines [at, text] at file offsets, those inside a function
\* body are instructions.  Each ends where the next one starts, or with its body.  A
\* wasm is [payloadStart, listing, bodies, imported, names], a body [start, end] in
\* the order of function indices.
Holds(body, offset) == body.start <= offset /\ offset < body.end
InBodies(wasm) == {i \in DOMAIN wasm.listing : \E b \in DOMAIN wasm.bodies : Holds(wasm.bodies[b], wasm.listing[i].at)}
Instructions(wasm) ==
    LET listed == InBodies(wasm)
        at(i) == wasm.listing[i].at
        bodyEnd(i) == wasm.bodies[SelectInSeq(wasm.bodies, LAMBDA body : Holds(body, at(i)))].end
        end(i) == Min({bodyEnd(i)} \union {at(j) : j \in {j \in listed : at(i) < at(j)}})
    IN  [i \in listed |-> [address |-> at(i) - wasm.payloadStart, text |-> wasm.listing[i].text,
                           end |-> end(i) - wasm.payloadStart]]

FunctionRanges(wasm) ==
    LET index(b) == wasm.imported + b - 1
    IN  [b \in DOMAIN wasm.bodies |->
            [start |-> wasm.bodies[b].start - wasm.payloadStart, end |-> wasm.bodies[b].end - wasm.payloadStart,
             index |-> index(b), name |-> IF index(b) \in DOMAIN wasm.names THEN wasm.names[index(b)] ELSE ""]]

FromWasm(wasm) == Disassembled(Instructions(wasm), FunctionRanges(wasm))

\* What fromTrace lists of the records with those indices.
ListedFrom(records, indices) ==
    Disassembled([i \in indices |-> [address |-> records[i].pos[1], text |-> records[i].instr, end |-> -1]], <<>>)

\* Variant: every record at a position, not only the first.
FromTraceAll(records) == ListedFrom(records, {i \in DOMAIN records : records[i].pos # <<>>})

\* fromTrace: one instruction per position of the trace, the first record's.
FromTrace(records) ==
    ListedFrom(records, {i \in DOMAIN records :
        records[i].pos # <<>> /\ \A j \in 1..(i - 1) : records[j].pos # records[i].pos})

\* indexForAddress: the binary search for the instruction that contains an address;
\* 0 when it precedes them all.
IndexForAddress(dis, addr) ==
    LET n == Len(dis.instructions)
        Search[s \in [lo : 0..n, hi : -1..(n - 1), result : -1..(n - 1)]] ==
            LET mid == (s.lo + s.hi) \div 2
            IN  IF s.lo > s.hi THEN s.result
                ELSE IF dis.instructions[mid + 1].address <= addr
                     THEN Search[[lo |-> mid + 1, hi |-> s.hi, result |-> mid]]
                     ELSE Search[[lo |-> s.lo, hi |-> mid - 1, result |-> s.result]]
    IN  Search[[lo |-> 0, hi |-> n - 1, result |-> -1]] + 1

============================================================================
