------------------------------ MODULE TraceGate ------------------------------
(***************************************************************************)
(* A transaction runs, its records are written, and a session loads them.   *)
(*                                                                         *)
(* The host is the environment.  It runs the root contract and what that    *)
(* calls, logs a record before it acts on it, and counts offsets from 0 in  *)
(* the code of every contract and in its global initializers.  A record     *)
(* carries linear memory when that differs from the last snapshot.  A       *)
(* release of the host may shape some records as this reader does not know. *)
(***************************************************************************)
EXTENDS Artifacts

CONSTANTS Root,         \* the contract the transaction invokes
          Contracts,
          Code,         \* contract -> offset -> [op, traced, flips]: an instruction, how the
                        \* trace spells it, and the memory cells it flips
          Initializers, \* offset -> op: the global initializers of a contract
          Cells,        \* the addresses of linear memory
          Releases,     \* of the host: "current", or what it shapes differently
          Wasms,        \* what the session may be given as the wasm of Root
          MaxRecords, MaxDepth      \* bounds of a trace

ASSUME GateAssumption == /\ Root \in Contracts /\ "none" \notin Contracts
                         /\ IsFiniteSet(Cells) /\ Cells \subseteq Nat
                         /\ MaxRecords \in Nat /\ MaxDepth \in Nat

\* An instruction is traced by its name, or as one that cannot be named; a global
\* initializer always has a name.
ASSUME CodeAssumption ==
    /\ \A contract \in Contracts :
          /\ DOMAIN Code[contract] \subseteq Nat
          /\ \A offset \in DOMAIN Code[contract] :
                Code[contract][offset].traced \in {"unknown", Code[contract][offset].op}
    /\ DOMAIN Initializers \subseteq Nat
    /\ \A offset \in DOMAIN Initializers : Initializers[offset] # "unknown"

\* A wasm that can be read lists every instruction of Root once, at its place.
ListsRoot(wasm) ==
    /\ IsFiniteSet(DOMAIN wasm.listing) /\ wasm.payloadStart \in Nat
    /\ \A i \in InBodies(wasm) : wasm.listing[i].at \in Nat
    /\ \A i, j \in InBodies(wasm) : wasm.listing[i].at = wasm.listing[j].at => i = j
    /\ DOMAIN Code[Root] = {wasm.listing[i].at - wasm.payloadStart : i \in InBodies(wasm)}
    /\ \A i \in InBodies(wasm) : Code[Root][wasm.listing[i].at - wasm.payloadStart].op = wasm.listing[i].text

ASSUME WasmAssumption ==
    \A given \in Wasms : given # <<>> => given[1].readable \in BOOLEAN /\ (given[1].readable => ListsRoot(given[1]))

VARIABLES release,
          host,     \* the open calls: [contract, memory, fresh]
          sent,     \* the last memory a snapshot was written of
          lines,    \* the trace
          truth,    \* of each line: [calls, at, memory, fault], what the host knew
          outcome,  \* of the transaction: "open", "returned" or "trapped"
          view      \* what the session loaded

vars == <<release, host, sent, lines, truth, outcome, view>>

NoView == [loaded |-> FALSE]

----------------------------------------------------------------------------
\* The records the host writes.
Zeros == [c \in Cells |-> 0]
Snapshot(memory) ==
    LET cells == SetToSeq({c \in Cells : memory[c] # 0})
    IN  Json("runs", [k \in DOMAIN cells |-> [addr |-> cells[k], bytes |-> <<memory[cells[k]]>>]])

Instr(pos, op, memory) ==
    [kind |-> Json("string", "instr"), pos |-> Json("int", pos), instr |-> Json("instr", op),
     stack |-> Json("pairs", 0), locals |-> Json("slots", 0), globals |-> Json("slots", 0),
     mem |-> IF memory = sent THEN Json("null", 0) ELSE Snapshot(memory)]

\* An event with every field the reader asks for, and the ones that say something.
Event(kind, said) ==
    LET fields == Fields(kind, said)
    IN  [key \in {"kind"} \union DOMAIN said \union {f[1] : f \in fields} |->
            IF key = "kind" THEN Json("string", kind)
            ELSE IF key \in DOMAIN said THEN said[key]
            ELSE Json((CHOOSE f \in fields : f[1] = key)[2], <<>>)]

\* What a release makes of a record: an event of one kind with a field of another
\* type, memory in capital letters, null for no globals, records without a kind.
Shaped(obj) ==
    CASE release = obj["kind"].v /\ release # "instr" -> [obj EXCEPT ![CHOOSE k \in DOMAIN obj : k # "kind"].t = "other"]
      [] release = "mem" /\ Get(obj, "mem").t = "runs" -> [obj EXCEPT !["mem"].t = "other"]
      [] release = "globals" /\ "globals" \in DOMAIN obj -> [obj EXCEPT !["globals"].t = "null"]
      [] release = "unkinded" -> [key \in DOMAIN obj \ {"kind"} |-> obj[key]]
      [] OTHER -> obj

\* The core of a record is all that may reject a trace.
FaultOf(obj) ==
    CASE release = "mem" /\ Get(obj, "mem").t = "runs" -> "malformed"
      [] release = "globals" /\ "globals" \in DOMAIN obj -> "malformed"
      [] release = "unkinded" -> IF "pos" \in DOMAIN obj THEN "stale" ELSE "malformed"
      [] OTHER -> "none"

Calls == [k \in DOMAIN host |-> host[k].contract]
Write(obj, calls, at, memory) ==
    /\ Len(lines) < MaxRecords /\ ~view.loaded /\ outcome = "open"
    /\ lines' = Append(lines, Json("object", Shaped(obj)))
    /\ truth' = Append(truth, [calls |-> calls, at |-> at, memory |-> memory, fault |-> FaultOf(obj)])
    /\ sent' = IF Get(obj, "mem").t = "runs" THEN memory ELSE sent
    /\ UNCHANGED <<release, view>>

Quiet == Zeros      \* no memory is looked at on an event record

----------------------------------------------------------------------------
Init == /\ release \in Releases
        /\ host = <<>> /\ sent = Zeros
        /\ lines = <<>> /\ truth = <<>>
        /\ outcome = "open"
        /\ view = NoView

Baseline == /\ lines = <<>>
            /\ Write(Event("ledger", <<>>), <<>>, <<>>, Quiet)
            /\ UNCHANGED <<host, outcome>>

CallContract(contract) ==
    /\ Len(host) < MaxDepth
    /\ host = <<>> => contract = Root
    /\ host' = Append(host, [contract |-> contract, memory |-> Zeros, fresh |-> TRUE])
    /\ Write(Event("callContract", [to |-> Json("address", contract)]), Append(Calls, contract), <<>>, Quiet)
    /\ UNCHANGED outcome

\* A contract's global initializers are evaluated before its code.
Initialize(offset) ==
    /\ host # <<>> /\ Last(host).fresh
    /\ Write(Instr(offset, Initializers[offset], Last(host).memory), Calls, <<"globals", offset>>, Last(host).memory)
    /\ UNCHANGED <<host, outcome>>

Execute(offset) ==
    LET top == Last(host)
        instr == Code[top.contract][offset]
    IN  /\ host # <<>>
        /\ offset \in DOMAIN Code[top.contract]
        /\ Write(Instr(offset, instr.traced, top.memory), Calls, <<"code", offset>>, top.memory)
        /\ host' = Append(Front(host), [top EXCEPT !.fresh = FALSE,
                        !.memory = [c \in Cells |-> IF c \in instr.flips THEN 1 - @[c] ELSE @[c]]])
        /\ UNCHANGED outcome

StorageEvent ==
    /\ host # <<>>
    /\ Write(Event("contractData", [operation |-> Json("string", "put"), args |-> Json("scvals", <<1, 2>>)]),
             Calls, <<>>, Quiet)
    /\ UNCHANGED <<host, outcome>>

EndWasm(success) ==
    /\ host # <<>>
    /\ Write(Event("endWasm", [success |-> Json("bool", success)]), Calls, <<>>, Quiet)
    /\ host' = Front(host)
    /\ outcome' = IF Len(host) > 1 THEN "open" ELSE IF success THEN "returned" ELSE "trapped"

\* The trace as the node's array of records, as a file that starts with a blank
\* line, or as a file whose last line was cut off.
Received(form) ==
    CASE form = "rpc" -> lines
      [] form = "file" -> <<Json("blank", 0)>> \o lines
      [] form = "cut" -> Append(lines, Json("text", 0))

NothingBuilt == [dis |-> NoDisassembly, source |-> "null", variables |-> "null", positions |-> <<>>]

\* RawTraceBackend.resolve, and what LiveBackend makes of a trace: parse, then build
\* on the wasm if there is one; a trace that is not parsed gets no further.
Load(form, wasm) ==
    LET parsed == Parse(Received(form))
        records == parsed.records
        built == IF parsed.error # <<>> THEN NothingBuilt
                 ELSE IF wasm = <<>> THEN TraceDerived(records) ELSE BuildArtifacts(wasm[1], records)
    IN  /\ ~view.loaded
        /\ outcome # "open" \/ Len(lines) = MaxRecords
        /\ form = "rpc" => wasm # <<>>
        /\ form = "cut" => wasm = <<>>
        /\ view' = [loaded |-> TRUE, form |-> form, wasm |-> wasm, error |-> parsed.error,
                    records |-> records, built |-> built]
        /\ UNCHANGED <<release, host, sent, lines, truth, outcome>>

Next == \/ Baseline
        \/ \E contract \in Contracts : CallContract(contract)
        \/ \E offset \in DOMAIN Initializers : Initialize(offset)
        \/ \E offset \in UNION {DOMAIN Code[c] : c \in Contracts} : Execute(offset)
        \/ StorageEvent
        \/ \E success \in BOOLEAN : EndWasm(success)
        \/ \E form \in {"rpc", "file", "cut"}, wasm \in Wasms : Load(form, wasm)

Spec == Init /\ [][Next]_vars

----------------------------------------------------------------------------
Loaded == view.loaded /\ view.error = <<>>

\* Call boundaries, the events that the gate and the outcome are read from.
BoundariesIntact == release \notin {"callContract", "endWasm"}
WithWasm == view.wasm # <<>> /\ view.wasm[1].readable

\* The position of a record is trusted when it ran the root contract's own code; the
\* code of a callee never passes for it, at whatever depth and however it re-enters,
\* and a global initializer only where the code has the same instruction.
PositionsExact ==
    \A i \in DOMAIN view.built.positions :
        LET here == truth[i]
            instr(offset) == Code[Root][offset].op
        IN  view.built.positions[i] =
                IF here.at = <<>> \/ Last(here.calls) # Root THEN <<>>
                ELSE IF here.at[1] = "code" THEN <<here.at[2]>>
                ELSE IF here.at[2] \in DOMAIN Code[Root] /\ instr(here.at[2]) = Initializers[here.at[2]]
                     THEN <<here.at[2]>> ELSE <<>>

GateExact == Loaded /\ BoundariesIntact /\ WithWasm => PositionsExact

\* Source mapping depends only on the core fields of a record, never on an event
\* payload (docs/state-inspection.md).
MappingIgnoresEvents == Loaded /\ WithWasm => PositionsExact

\* Every position a session trusts is the first byte of an instruction it lists,
\* with wasm and without: the instruction pointer of a stop has a line to stand on.
PositionsListed ==
    Loaded => ~view.built.dis.refused
                 /\ \A i \in DOMAIN view.built.positions : view.built.positions[i] # <<>> =>
                        \E at \in DOMAIN view.built.dis.instructions :
                            view.built.dis.instructions[at].address = view.built.positions[i][1]

\* Memory read at a cursor is the executing contract's memory when that record was
\* written, whatever calls ran in between and however much of it is zero again.
MemoryExact ==
    Loaded =>
        \A i \in DOMAIN view.records : truth[i].at # <<>> =>
            \A c \in Cells : ReadMemory(view.records, i, c, 2) =
                [k \in 1..2 |-> IF c + k - 1 \in Cells THEN truth[i].memory[c + k - 1] ELSE 0]

\* The outcome a session reports is the root invocation's, not that of a call it made.
OutcomeExact ==
    Loaded /\ release # "endWasm" /\ outcome # "open" => ReturnValue(view.records) = outcome

\* A trace is refused for the core of a record and never for its event, whatever the
\* host's release does to those; and the error names the first line that is at fault.
RefusedForCoreOnly ==
    view.loaded =>
        LET shift == IF view.form = "file" THEN 1 ELSE 0
            bad == {i \in DOMAIN truth : truth[i].fault # "none"}
            first == CHOOSE i \in bad : \A j \in bad : i <= j
        IN  view.error = IF bad # {} THEN <<truth[first].fault, first + shift>>
                         ELSE IF view.form = "cut" THEN <<"malformed", Len(lines) + 1>>
                         ELSE <<>>

============================================================================
