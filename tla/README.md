# A verification of the Stellar debugger

TLA+ models of the Soroban time-travel debugger (`src/src`), the TLC
configurations that check them on small instances, and TLAPS proofs about them.
`src/...` below is the repository; paths like `debugAdapter/stops.ts` are
relative to `src/src`.

Records are numbered from 1 here: record `i` of the code is record `i + 1`, so
that 0 can stand for "none".  Some operators are marked *Variant*: each is what
the definition below it would be with a plausible bug in it, and `PROJECT.json`
names the property that notices (`mutants`).

## 1. The system

A client (VS Code, or anything that speaks DAP) launches a session.  The session
asks a backend for a recorded trace: the live backend spawns a `komet-node`,
builds contracts, runs a sequence of transactions on it and fetches the trace of
the one the configuration names; the raw backend reads files.  From then on nothing executes: the
session derives a stop model from the records and moves a cursor over it.

| Part | State | Operations | Interacts with |
|---|---|---|---|
| Live backend (`backends/LiveBackend.ts`, `komet/KometProcess.ts`, `komet/KometClient.ts`) | the child process, its first failure, whether we are stopping it; the health poll's loop | `resolve`, `waitUntilServing`, `start`, `stop`, `dispose`, `call` | the OS (spawn, signals, exit and close events), the node over HTTP, the session's teardown |
| Transaction sequence (`pipeline/`) | transactions done, contract handles, the traced index | `run`, `normalizeConfig` | KometClient, the transaction builder, the contract builder |
| Session (`SorobanDebugSession.ts`) | backend, stop model, cursor, breakpoints, frame cache, variable handles, `disposed` | one handler per DAP request, `teardown` | all of the below, the TCP server (`server/dapServer.ts`) |
| Trace gate (`artifacts.ts`) | none after load | `validatedPositions`: which records may be mapped to source | ledger image (which contract executes) |
| Call-stack reconstruction (`stops.ts`) | frame per record | `computeFrames`, `opcodeFrames` | stop model, Callstack view |
| Stop model (`stopModel.ts`, `stops.ts`) | run starts, statement stops, visible records | `computeRunStarts`, `statementStops`, `myCodeStops` | cursor |
| Replay cursor (`replayCursor.ts`, `TraceModel.ts`) | the cursor index | `toEntry`, `stepForward`, `stepBackward`, `runForward`, `runBackward`, `resolveBreakpoints` | session, trace CLI |
| Ledger image (`LedgerImage.ts`) | versions of the ledger per record, saved worlds, open calls | one case per event kind | inspection views, trace gate |
| Trace parsing (`komet/trace.ts`, `traceEvents.ts`) | none | `parseTrace`, one parser per event kind | backends, trace gate |
| Memory image, call stack, wasm, disassembly and ledger views | derived per stop | lookups and projections | session |
| DWARF, wasm and source mapping (`dwarf/`, `wasm/`, `sourcemap/`) | derived tables | decoding, line lookup, variable locations | stop model, views |
| Transaction and value encoding (`soroban/`), contract builder (`build/`), diagnostics, extension glue, CLIs | little or none | pure functions and I/O | |

### What is hard

* **The recording is incomplete.**  `komet-node` writes no record when a function
  returns by falling off its end, host events and other contracts' instructions
  lie between a call and its callee's first record, and a trapped run is cut
  anywhere.  Call stacks, depths, and with them every step, are reconstructed.
* **Filters on filters.**  Stops are run starts, minus attribute lines,
  signatures and braces, minus library code, each with an exception of its own.
* **A ledger told by deltas.**  An event's record comes before the host acts on
  it (mutations) or describes what already is (snapshots); failed calls undo
  some of it, nested and re-entrant.
* **Records of several contracts** share offsets, memory and one array, and host
  releases shape the events that separate them differently.
* **Debug information has many encodings** of one fact: opcodes, base addresses,
  attribute forms, locations, wrappers and cyclic types.
* **Processes.**  Two timers, three child events, a poll loop, a dropped
  connection and a second session on the same port, in any order.
* **Requests during a launch**, and caches keyed by the cursor.

### What makes each part correct

* Reconstruction: the stack shown is the activation stack of the program.
* Stop model: one stop per execution of a line by an activation; no frame of the
  user's is left without a stop.
* Cursor: it rests on stop points, goes the way it was asked to, and reverse
  moves undo forward moves.
* Ledger image: what the cursor shows is what the host held.
* Trace parsing and gate: a trace is refused for the core of a record only, no
  record of another contract is mapped to this one's source, and memory is that
  of the contract that executes.
* DWARF reading: line, frames, declarations and values are those the compiler
  described, in whatever encoding.
* Transaction sequence: the trace loaded is that of the step the configuration
  names, and every step executes exactly once.
* Session: every answer belongs to one stop, breakpoints are where the client was
  told they are, a launch is answered, and a backend is disposed of once.
* Live backend: a launch settles exactly once, no node outlives its session, a
  session runs on its own fresh ledger.

`PROJECT.json` lists 40 hazards at their lines, with the properties that cover
them or the reason why none does.

## 2. The modules

| Module | Models |
|---|---|
| `FrameWalk` | A wasm execution as `komet-node` records it (the environment), and one iteration of `computeFrames` (`FrameStep`, `NextStack`) and of `opcodeFrames` (`OpcodeStep`) per record |
| `ActivationStack` | Abstract: what the Callstack view promises of any stack of frames |
| `StopModel` | Pure: `computeRunStarts` (`RunStep`), `statementStops`, `myCodeStops`, `buildStopModel` |
| `ReplayCursor` | The cursor over *any* stop model: entry, three forward steps and a backward one at two granularities, continue and reverse continue |
| `Replay` | `FrameWalk`, `StopModel` and `ReplayCursor` composed: run, record, load any prefix, move; breakpoint resolution |
| `Ledger` | The host (environment) and `LedgerImage`'s scan of its event records |
| `LiveBackend` | Sessions on one port: launch, health poll, sequence, child process, teardown |
| `Sequence` | `normalizeConfig`, `SequenceRunner.run` and the transaction builder, against a node that executes an envelope once |
| `CallStackView` | Pure: `buildCallStack`, rows from frames, inlined frames and contract boundaries |
| `Session` | A connection to the DAP server: `Sequence`, `StopModel`, `ReplayCursor` and `CallStackView` composed with the session's own state |
| `TraceRecords` | Pure: `parseTrace` and the event parsers, on the types of JSON fields |
| `Disassembly` | Pure: the listing of a wasm module and its lookups |
| `Artifacts` | Pure: `validatedPositions`, the executing contract, `MemoryImage`, what is built with and without wasm |
| `TraceGate` | A recording of several contracts by some host release, parsed and loaded: `TraceRecords`, `Disassembly` and `Artifacts` composed |
| `LineTable` | Pure: the line-number program, file paths, the sorted table and its lookup, `mapEntry` |
| `ScopeIndex` | Pure: the entry tree, ranges, the function at an offset, inlined calls, names, declarations |
| `Locations` | Pure: location expressions and lists, slots as JavaScript numbers |
| `Values` | Pure: `TypeRegistry` and `ValueDecoder`, one level of a value at a time |
| `VariableResolver` | What a user sees at an offset, and the variables it expands: the four modules above composed |
| `CompiledImages` | What a compiler promises of the debug information of an image: hypotheses of theorems, evaluated on the images of the runs |
| `ProofLemmas`, `FrameWalkProofs`, `ReplayProofs` (the cursor, too), `TraceGateProofs`, `LedgerProofs`, `LiveBackendProofs`, `SessionProofs`, `VariableResolverProofs` | Proofs |
| `MC*` | Instances for TLC |

**FrameWalk.**  `prog`, `acts` are the environment: the program, a set of
instruction sequences, and its true activations.  Each executed instruction is
`Emit`ted before it runs; `FallOffEnd` is the return that writes nothing;
`Unplaced` is a record without a validated position, which `computeFrames` passes over
and `opcodeFrames` does not: it takes the opcode of every record.  `Invisible` ones have
an opcode that neither pushes nor pops; `Foreign` ones are the calls, host calls and
returns of another contract while a host call of this one runs.  `guest` says what such
a contract may do: its outermost function can leave in a `return` that no call record
precedes, and so can every function or contract that it calls, each once; all of them
are over when the host call is.  `walk` holds the loop
variables of `computeFrames` (the current frame with its `caller` chain as a
sequence, the previous visible record and whether it was call-class) and
`opStack` those of `opcodeFrames`.  `seen` is history: the true stack at the last
visible record, which is what the walk should have rebuilt.

**StopModel** keeps one line run per depth as the code's array does; a line's
role (`classifyLineRole`, a textual matter) and whether it is workspace code are
attributes of the line.  A trace is a sequence of `[pos, line, depth]` records.

**ReplayCursor** has the cursor, the stop model of the loaded trace and the last
move.  `Attach` takes *any* stop model that satisfies `IsStopModel`, so that what
is shown of the cursor holds of every trace.  `Within` is the depth limit the
handlers pass to `stepForward`; `StepForward` has the three outcomes of the code
(target found, session terminated past the last statement, clamp to the last stop
point).  In `Replay`, each record also carries the true activation stack it was
written in; no code sees it, properties do.

**Ledger.**  `host` acts after it logs; `image` is `Scan.current`, `saved` its
`savedWorlds`, `shown` the version a cursor on the last record sees.  A world maps
cells (storage entries, instances, codes, and the accounts and ledger info) to
entries with a time to live.  A put renews the time to live on the host without
any record saying so (`PutTtl`): the image carries the old one, and `TtlExact`
says what still holds.

**LiveBackend.**  The adapter is one JavaScript thread: an action runs from one
awaited event to the next.  `held` is `LiveBackend.process`, `poll` and `expired`
the loop of `waitForHealthy`, `failure` that of `KometProcess`, `events` which
child events have been delivered, `node` and `killed` the operating system's view.
`KometClient.call` is cut where its guarantees change: until the headers of an answer
are there, a timer aborts the request (`HealthRefused`, `CallFails`); `AnswerBegins`
clears it, `reading` is the node whose body is awaited from then on, and only that
node can end the wait, by completing the answer or by dying.
The node may serve, hang, stall in an answer, lose the port to another one, crash, and
ignore SIGTERM.
The interpreter in the node's process group is not modelled: nothing in the code
observes it.

**Session.**  An action is a handler up to its next await.  `launchRequest` is cut
at its awaits: `LaunchRequest`, `Transact` for each transaction of the sequence,
`Resolved` when the records are there, `Enter` once `configurationDone` has
resolved; every other request may come in between.  `frames` and `handles` are the
session's caches, cleared by `ReportStop`; `told` and `known` are what the client
was told of breakpoints and of variable references, and say what an answer
promised.  A variable reference keeps the record and the memory position it was
created for.  `Recordings` are what a backend can resolve to; their records carry
the activations, with inlined calls, that wrote them.  `Sequence` is the live
backend's half of the launch: a transaction is an envelope `[sequence, body]`, and
the node answers an envelope it has seen with its old receipt.

**TraceGate.**  The environment calls contracts, initializes globals, executes
instructions that change memory and writes one record for each, as the `release`
of the host shapes it: a field renamed, dropped or of another type, in one event
kind or in the core of a record.  `truth` is what was going on at each record.  A
JSON value is its type with what the parser reads of it; `Load` parses the whole
array or file and builds the artifacts on a wasm that can be read, one that
cannot, or none.

**VariableResolver.**  `img` is one module's debug information and the state of one
record, with what the compiler meant by it: the line matrix, and for each entry its
extent and its name.  `MCDwarf` plays the compiler and encodes the same facts in
several ways; `CompiledImages` says what it may not do.  `Look` moves to an offset, `Inspect` decodes a variable of a frame
there, `Expand` one of the children of what is shown; children are decoded when
they are asked for, as in the code, and carry the depth and the pointees entered.

## 3. The runs

All bounds are constants in the `.cfg` files.  `CHECK_DEADLOCK FALSE` is stated
where the system stops: a program ends, a trace reaches its bound, all sessions
are closed.

| Run | What it shows | Bounds, and why they are enough |
|---|---|---|
| `frames` | `FramesExact`: the membership walk rebuilds the true stack with true call sites; `OpcodeNeverShallow`: the fallback may keep dead frames but never loses one; `ImplementsActivationStack`: refinement of `ActivationStack` | every program of three functions with the bodies of `MCFrameWalk`, 8 records, 2 of them without a position, of any opcode another contract's may have: nested implicit returns, calls in tail position, loops and skipped arms, two calls of one function, a callee contract that leaves in a `return`, one that calls before.  The proofs lift the bound |
| `replay` | `RunsMatchActivations`: run starts, found by depths, are exactly the executions of lines by activations; `FilterKeepsFrames`; `RestsOnStop`, `DirectionRespected`, `StepBackUndoesNext`, `ReverseUndoesContinue`; `StepsFollowActivations`: step over neither enters a callee nor skips its own stops, step out leaves; `ContinueStopsPerExecution`; `CursorImplemented`: the composed system implements `CursorSpec` | 21 programs with and without debug information, loops, library code (inlined, too); 7 records let two calls and a loop iteration happen; every prefix is loaded |
| `ledger` | `LedgerExact`, `TtlExact`, `TablesExact` on every event stream, with and without a ledger baseline, cut anywhere | 7 events, 2 contracts, 2 open calls: a failing call in a succeeding one, re-entrance, a change on each level |
| `live` | `NoNodeLeaked`, `PortFreed`, `LaunchSettles`, `OutcomeFinal` | 2 sessions that may overlap on one port, 1 transaction: more transactions repeat `Submit`; every answer may begin and stall |
| `dwarf` | `LineExact`, `FramesMatchScopes`, `ScalarExact`, `ChildrenTile`, `ExpansionEnds` | line programs with special, constant-advance and fixed-advance opcodes, v4 and v5 tables, five orders of three sequences, a unit listed twice; scopes placed by low address, range list or base selection, with dropped functions; 19 types, a union, cyclic data and cyclic typedefs among them; slots as numbers and as bigints up to the largest that a number holds.  Header values are real, a byte holds 8 values, a pointer 2 bytes, so that signs, truncation and high bytes all occur |
| `gate` | `GateExact`, `PositionsListed`, `MemoryExact`, `OutcomeExact`, `RefusedForCoreOnly` | traces of up to 5 records of 2 contracts, 2 open calls, global initializers that collide with code, a release for every field that is read, three forms of input, wasm readable, unreadable or absent: a call, a callee's instruction and a return fit |
| `session` | `TracedStepExecuted`, `StackExact`, `ReferencesExact`, `VerifiedAreHit`, `ReleasedOnce`, `LaunchAnswered` | three recordings (a call that returns, a recursive one that traps, one without debug information), 11 configurations, valid and not, one reference held between two stops; 201 537 states: every request in every phase of a launch |
| `frames_mutual`, `replay_siblings`, `live_fresh`, `dwarf_wide`, `gate_drift` | each ends in a counterexample, section 5 | |

### Fairness

`live` and `session` state any.  In `LiveBackend`, weak fairness is assumed of what
Node.js promises (timers fire: `DeadlinePasses`, `Wake`, `KillTimer`; child events are
delivered: `SpawnError`, `ExitEvent`, `CloseEvent`) and of SIGKILL (`DieOfKill`).
Nothing is assumed of the node (`Boot`, `Die`) or of the client (`Launch`, `Teardown`,
`StopNode`).  A request (`RequestStep`) is fair only while it is not `Stalled`: until
its answer has begun the abort timer sees to that, and once the answering node is dead
the connection is closed; a node that stays alive may leave an answer incomplete for
ever (`KometClient.ts:96` reads the body after line 89 has cleared the timer).  So
`LaunchSettles` says that a launch settles *or* is stalled from some time on, by one
live node that never completes its answer.  The exception is needed: the poll, too, then
outlives its deadline (section 5).  Node's own fetch
gives up on a body that has been silent for minutes, but not on one that trickles, and
nothing in the code asks for either, so neither is assumed.

In `Session`, weak fairness says that a transaction and the fetch of the trace are
answered (`Transact`, `Resolved`: here, unlike in `LiveBackend`, an answer that has
begun is complete), that a continuation runs (`ArgumentsFail`,
`Enter`), and that a client finishes its configuration (`ConfigurationDone`), which
the protocol asks of it and without which the launch waits by design.

## 4. What is proved

All theorems hold for every value of the constants, under the assumptions the
modules name.  They say what the code may take for granted:

* programs are well-formed (`ProgramsAssumption`) and bounds are naturals
  (`BoundsAssumption`, `SessionAssumption`, `BackendAssumption`, `LedgerAssumption`,
  `BudgetAssumption`, `GateAssumption`);
* what a backend resolves to is a non-empty sequence of records, and a record without
  a validated position has no line (`SessionAssumption`: an empty trace is an error,
  and only validated positions are mapped); the key of address breakpoints is no path;
* a configuration is a sequence of steps (`ConfigsAssumption`), valid or not;
* memory cells are finitely many (`GateAssumption`); an instruction is traced under its
  own name or as `unknown`, and a global initializer under its name
  (`CodeAssumption`); a wasm that can be read lists each instruction of its own code
  once, at its place (`WasmAssumption`: the disassembly is that of the module).

* offsets are natural numbers (`OffsetsAssumption`), a byte has more than one value and an
  address at least one byte (`ByteAssumption`), the exact JavaScript numbers
  end somewhere (`ExactAssumption`), and a line header's values are numbers
  (`HeaderAssumption`).

Some theorems have hypotheses beyond those.  TLC evaluates each of them on the
instances of section 3, so none is empty (`MCLayered`, `MCCallsHaveLines`,
`MCCallsAlone`, `MCOwnCode`, `MCFaithful`, `MCLinesDescribed`, `MCScopesDescribed`, `MCReadable`, `MCExactSlots`):

* `Layered(rank)`: calls follow a rank, that is, no recursion.  With recursion the
  reconstruction is a documented approximation, and run `frames_mutual` refutes it.
* `CallsHaveLines(dark)`: an instruction without a line calls only functions that have
  no lines at all.  Without it a caller's record without a line does not end the run of
  a callee (`stops.ts:414`, section 5), and two executions of a callee's line become
  one.
* `CallsAlone`: no two calls of a function are on one source line; otherwise
  `replay_siblings` refutes `FilterKeepsFrames`.  `OwnCode`: a function with a
  workspace signature has no library statement inlined into it; otherwise the two
  filters together can empty its frame (`stopModel.ts:89`, section 5).
* `RecordingsFaithful`: the debug information describes the program that wrote the
  recording.  The activations read of a record are those it was written in, which is
  what `FramesAreExact` shows of the walk, and where a position is described, it names
  the function and the calls inlined there.
* Of debug information (`CompiledImages`): `LinesDescribed`, the programs of all units run to
  the rows of the compiler's matrix, whose sequences do not overlap; `ScopesDescribed`,
  the attributes of an entry give its extent wherever its scope can be live, functions do not
  overlap and inlined calls nest; `LaidOut`, members lie inside their type and those of
  a struct apart.  `PlainElements` is no promise of a compiler: elements are neither
  arrays nor without bytes, which `byteSizeOf` takes for addresses (section 5).  `Readable` says that operands, bytes and sizes are numbers, and
  `ExactSlots` that a bigint is one that a number holds (`dwarf_wide` is about the
  others).

### Call stacks

* `FrameWalkProofs!FramesAreExact`: for every rank,
  `Layered(rank) => (Spec => []FramesExact)`.
  `FramesExact` alone is not inductive: it compares the walk with the past (`seen`),
  while the next record is written by the present (`acts`), and implicit returns
  separate the two.  `WalkInvariant` says how far apart they can be: nothing is
  recorded yet (`Unrecorded`); or execution is somewhere on the recorded stack and
  every frame it may return to is past its first instruction (`Resumed`), so that
  the record is not taken for a call entry; or it is one call above, at the callee's
  first instruction, right after the call record (`Entered`), so that it is.  `Ranked`
  makes the functions on a stack distinct: "the topmost frame of this function" is
  the only one.  One lemma per action and per disjunct.
* `FrameWalkProofs!WalkAlwaysTracksMachine`: `WalkTracksMachine`, which run `frames`
  checks, is that invariant for every ranking there is (`Ranks`).
* `FrameWalkProofs!WalkImplementsView`: for every rank the walk refines
  `ActivationStack`.  On top of `WalkInvariant` it needs `SitesOld`: every call site on
  a stack is a record already written, so that a pushed frame is younger than all
  others.
* `FrameWalkProofs!FallbackNeverShallow`: `Spec => []OpcodeNeverShallow`, recursion
  and the records of other contracts included.  The inductive invariant
  `GuestsCovered` says that the fallback's stack is higher than the true one by at least
  `guest`, the number of `return` records that other contracts may still write: a host
  call pushes the frame that its contract's unmatched `return` pops.  And `TypeCorrect`.

### The cursor and the stops

* `ReplayProofs`, first part: `CursorSpec => []P` for `RestsOnStop`,
  `DirectionRespected`, `StepBackUndoesNext` and `ReverseUndoesContinue`, for stop
  models of any length, depths, stop sets and breakpoints.  The inductive part is
  `CursorOK`: the model is
  a stop model, the cursor is in it and, if anything is visible, on a visible record.
  The properties relate the last move to where it came from, so each is established
  afresh by every move from `CursorOK` alone.  The heart of `StepBackUndoesNext` is
  that a step over lands on the *nearest* stop that is not deeper: every stop passed
  is strictly deeper, so none can catch the step back.
* `ReplayImplementsCursor`: `RSpec => CursorSpec`, so that the theorems
  about the cursor hold of every recording.  `RInv` says that run starts are visible
  records of the trace (`TraceOK`) and that the model loaded is one of this trace
  (`SessionOK`); the filters keep what `IsStopModel` asks for because neither invents
  a stop and neither empties a trace.  `ReplayTypeCorrect` follows.
* `StepsAlwaysFollowActivations`, for every rank.  The stepping code compares depths,
  the property activations.  `StacksOK` ties them: the depth of a record is the height
  of the true stack it was written in (from `WalkInvariant`), and the call site of a
  frame at height k is a record of height k - 1, so that two records of one activation
  have one depth.  `Landed` says in depths where a step over and a step out come to
  rest.
* `RunsAlwaysMatchActivations`, for every rank (`Layered`) and every set of functions in
  the dark (`CallsHaveLines`).  `computeRunStarts` keeps one run per depth and knows nothing of activations.
  The invariant `RunsTracked` says what each of those runs has to be: at the depth of
  an open activation it is that of the activation's last start, with the positions it
  has executed since; an activation that has started none finds none.  The
  second half is what is easily lost: a callee's run must not survive at its depth until
  the next call, and it is the record of the caller, which has a line, that ends it.
* `ContinueAlwaysStopsPerExecution` follows from it, under the same two hypotheses
  (`Layered`, `CallsHaveLines`): a run to a breakpoint goes to the
  nearest start (`Heeded`), and a start is exactly where an activation begins to
  execute the line.
* `FilterAlwaysKeepsFrames`.  A signature is dropped when another stop at its depth
  follows or precedes without a shallower start in between, and depths do not tell
  siblings apart.  `NestOK` says how recordings nest: the frame at each height was
  created by a call record of the frame below, and until that frame is left all records
  are its own or its callees'.  `SiblingsApart` is the argument: between starts of two
  activations of one depth lies the call of the second.  If that call starts its line,
  it is the shallower start.  If not, it continues a run of its activation whose start
  lies in between, too, or before both; in the latter case the first activation was
  called from the same line, hence by the same instruction, and executing an instruction
  again does start its line.

### What a session loads of a trace

`TraceGateProofs`, for every host release that drops, renames or retypes a field, any
number of contracts, any depth of calls and traces of any length.

* `AlwaysRefusedForCoreOnly`: `TraceInv` says that every line reads as what was
  written, or is the faulty one; the parser is a recursive function over the lines,
  and it is shown by a least counterexample that it stops at the first line that cannot
  be read.
* `PositionsAlwaysListed`: the listing's binary search finds an instruction exactly if
  one starts there, which rests on the order the disassembly keeps.
* `OutcomeAlwaysExact` from `EndInv`: once the root has returned or trapped, the last
  record says so.
* `MemoryAlwaysExact` from `MemInv`: a record's memory is the last snapshot at or before
  it, snapshots are written only where memory has changed, and a snapshot leaves out
  zeros.  Other contracts write snapshots of their own in between; a record that has none
  found the memory of the last one, whosever it was, equal to its own.
* `GateAlwaysExact` from `CallsInv` and `EnteredInv`: the calls a session finds open at
  a record are the host's, wherever boundaries are read, and the contract that counts
  as the root is the one entered first.

### The session

* `ReleasedOnceAlways` from `ConnectionOK` (a teardown has happened
  exactly when the socket is no longer open, and counted exactly if there was a backend
  by then); `BreakpointsAgreeAlways` from `LaunchOK` and `ToldOK` (each answer is what
  the current breakpoints resolve to); `ViewFreshAlways` from `ViewOK`: cached frames
  are those of the cursor's record and each held reference leads to the frame it was
  given for.
* `VerifiedAreAlwaysHit`: besides the agreement, every line of a recording starts some
  run (`LinesStart`, by induction along the records): a line is verified because a
  record is on it, and a run stops at starts only.
* `StackAlwaysExact` and `ReferencesAlwaysExact`, given `RecordingsFaithful`.  `Placed`
  says that a session that has stopped rests on a record with a position: every
  stop set is one of such records, and a move goes to one or ends the session.  There
  `StackShows` finds the frames of `BuildCallStack` to be the true ones, place by
  place, each standing at the last record of its activation.  The rest is `ViewOK`:
  the cache and the references are those of this stop.
* `TracedStepAlwaysExecuted`: for every configuration, step identifiers that repeat
  included.  `SequenceOK` says after each transaction which ones are on the
  node: those that the configuration describes up to this step, in that order
  (`Performed`), a contract for every deploy among them (`Registered`), and none with a
  sequence number that is still to come (`Fresh`), so that a node which answers a repeated
  envelope with its old receipt has nothing to repeat.

### The ledger, the live backend, variables

* `LedgerProofs`: `LedgerAlwaysExact`, `TtlAlwaysExact`, `TablesAlwaysExact` (open calls
  and host objects) and
  `TypeCorrect`, for any number of contracts, cells and open calls and streams of any
  length.  The invariant `ScanInv` relates image and host not only now (`InStep`) but
  at every saved level (`SavedInStep`), since a failing exit makes a saved world the
  current one, and pairs saved worlds with open calls (`Counted`).
* `LiveBackendProofs`: `NoNodeEverLeaked` and `OutcomeAlwaysFinal` (an action property)
  for any number of sessions and transactions, with `TypeCorrect`.  `Safe` is the
  invariant: it says in each phase of a teardown what the operating system was told.
* `VariableResolverProofs!ExpansionAlwaysEnds`: for every type graph and every memory.
  `PathOK` says that the children on show know how far they are from the variable and
  which pointees were entered on the way; one lemma per decoder shows that each child
  costs depth.
* `VariableResolverProofs!LineAlwaysExact`, for any number of sequences, units and rows at
  one address.  Three facts carry it: joining the units and sorting rearranges the
  entries and keeps equal ones in their order (`SortedArranges`), so that the row after a row
  is still the next of its sequence or one that ends another at the same address; the
  binary search returns the last entry at or below the offset (`LookupFinds`); and
  that entry is the compiler's row, or an end when the offset is in a gap (`LookupExact`,
  from `Describes`), because an end sorts before a row that starts there.
* `FramesAlwaysMatch`: for every entry tree.  The tree is a sequence in pre-order and
  `Arounds` a recursive function over it; what it yields is shown to be a chain of
  scopes, each inside the one before.  Whether a scope is live is decided from outside
  inwards, so the attributes say nothing of a block whose function is dropped: `LiveCovers`
  shows by a least counterexample along the chain that what the code finds covering
  are exactly the live scopes.  The binary search over contiguous functions
  (`SearchFinds`), the walk that
  collects inlined calls and the one that collects declarations are then each shown to
  find those of the live scopes, in that order (`FunctionLive`, `CallsLive`,
  `DeclarationsLive`).
* `ScalarAlwaysExact`, given `Readable` and `ExactSlots`: the invariant `NodeDecoded` says that what is shown is what the
  decoder makes of the place and type a child stands for, through any
  number of expansions.  A number assembled byte by byte is the sum of its weights, and
  taking the bytes of a slot apart gives it back modulo the width, in the signedness of
  the type.
* `ChildrenAlwaysTile`, given `Readable`, `ExactSlots`, `LaidOut` and `PlainElements`: one lemma per decoder says what its children are (`Shape`), and
  the layout of the types does the rest.

`ProofLemmas` holds what several of these need: least and greatest elements, prefixes
of sequences, insertion into one, joins of sequences (`FlattenSeq`) piece by piece, and
that a recursive function over an interval exists.

### What is only model-checked

Every invariant and action property of the passing runs has its theorem.

* Liveness under fairness (`PortFreed`, `LaunchSettles`, `LaunchAnswered`) and
  `ENABLED` are out of the prover's reach, and so is induction that is stated over
  an arbitrary operator.  Where a proof needs induction over records it is by a least
  counterexample, and loops are recursive functions for that reason.

## 5. Where code and documentation disagree

| Run | Documented | What the code does |
|---|---|---|
| `frames_mutual` | mutual recursion is handled | A calls B, B ends by calling A, both return implicitly: the dead frames stay |
| `replay_siblings` | a frame's only stop is kept | two calls on one source line: the sibling's stops count as the frame's own |
| `live_fresh` | transactions run against one fresh ledger | a session torn down while waiting finds its successor's node healthy and runs on it |
| `dwarf_wide` | 8-byte integers decode exactly through BigInt | a 64-bit local becomes a JavaScript number before it is decoded, and is rounded |
| `gate_drift` | source mapping never depends on an event payload | the gate reads which contract executes from `callContract` and `endWasm`; a release that reshapes either misplaces records |

Observed while modelling, without a run of its own:

* `stopModel.ts:89`: declaration filtering keeps a library line for a signature's sake,
  just-my-code then drops it, and the frame is left without a stop.
* `stops.ts:414`: a record of a caller without line information does not end the runs
  of its callees.
* `LedgerImage.ts:386`: after a failed call the callee's storage baseline stays in the
  image (`docs/state-inspection.md:69` says the image is the one before it; what stays
  is true of the ledger before the call, so `LedgerExact` holds).
* `LiveBackend.ts:82`: a teardown clears `this.process`, and the poll no longer sees the
  failure: it goes on until its deadline.
* `debug-config.md:20,63`: with `attach`, sessions share a node; identical envelopes of
  two sessions are answered with the first one's receipt.
* `KometClient.ts:89`: `call` clears its abort timer when the headers of an answer are
  there, so a body that stalls is waited for beyond `timeoutMs` ("per-RPC timeout",
  `docs/debug-config.md:147`), and the poll "until healthy or the deadline passes"
  (`KometClient.ts:150`) beyond its deadline.  `Fairness` and `LaunchSettles` say so.
* `ValueDecoder.ts:545`: `byteSizeOf` ("the byte width of the type", line 531) knows no
  arrays, so an array of arrays strides by an address: the second element of a
  `[[T; 3]; 2]` is read from inside the first.  `PlainElements` leaves it out.
* `ValueDecoder.ts:433`: an empty `&str` is shown as `<unreadable>`; an
  unreadable discriminant selects the default arm; a negative C enumerator is compared
  with an unsigned read.
* `ScopeIndex.ts:432`: a parameter of an inlined call has its name on its abstract
  origin, which is not followed: it is shown without a name, or not at all when it has
  no location (`docs/callstack.md`, C7).
* An unterminated range list is read into its successor; a global initializer that
  equals the code's instruction at its offset passes validation (`GateExact` says so).
* `trace/projectStop.ts:266`: the CLI shows, inside an inlined call, the variables of
  the enclosing function.
* A `stackTrace` request before the trace is there caches an empty stack until the
  first stop; after a trace without records (error 2001) a cursor exists.

## 6. Limits

* Recursion is a documented limitation of the reconstruction; the passing runs of
  `frames` and `replay` call in layers.  The walk takes `return_call` for a call; no
  program here executes one.
* The opcode fallback is only bounded from one side, as its comment says: it keeps the
  frames of implicit returns.  `guest` allows one contract for each host call, and no call
  back into the debugged contract; a host function that ran two contracts, both leaving
  in a `return`, would make the fallback lose a frame.
* In `Replay`, `Source` abstracts the mapper and the textual classification, and
  `visible` is a choice where the code asks the trace gate.  `Load` joins the end of
  the launch into a step; `Session` has the steps apart.
* `Session` has one session on a connection and takes recordings as given; two sessions
  on one port are in `LiveBackend`.
* The DWARF modules start from decoded entries, opcodes and operands: bytes, forms,
  abbreviations and string sections are left out, and so are floats and characters.
  `dwarf` has no array of arrays and, but for the bigints of
  `dwarf_wide`, only slots that a number holds.  A scope tree is that of one compilation
  unit.
* `TraceGate` types the fields of events and does not read storage; `Ledger` reads only
  well-formed streams.

### Not modelled

* The trace CLI: a loop over the run starts of a `StopModel` that prints a projection
  of each; it keeps no state.
* The ledger view, the wasm and disassembly views and the diagnostics: text.
* The contract builder: runs `cargo` and looks for its output; its failure ends a
  launch in `Session` (`ResolveFails`).
* Encoding of transactions and values: the Stellar SDK's, apart from the account
  sequence and the substitution of handles in `Sequence`.
* The editor extension: registers the adapter.

## 7. Plan

1. `attach` across sessions: `Sequence` over a node that outlives a session.
2. `Ledger` behind `TraceRecords`, for the hazard of a storage event that is dropped.
3. The trace CLI as a second client of the stop model: its stops are those that
   stepping in visits.
4. Scopes of several compilation units (`ScopeIndex.ts`).
