----------------------------- MODULE FrameWalk -----------------------------
(***************************************************************************)
(* A wasm execution that komet-node records, and the two walks of          *)
(* src/debugAdapter/stops.ts that rebuild its call stack from the record   *)
(* stream: `computeFrames` (by function membership) and its wasm-less      *)
(* fallback `opcodeFrames` (by opcodes alone).                             *)
(*                                                                         *)
(* The machine is the environment: one record per executed instruction,    *)
(* written before the instruction runs, and NO record when a callee        *)
(* returns by falling off its end.  The walk sees the records only.        *)
(***************************************************************************)
EXTENDS Integers, SequencesExt

CONSTANTS
    Programs,       \* the wasm modules a run may execute, see below
    MaxRecords,     \* bound: records of one trace
    MaxInvisible    \* bound: records of one trace without a validated position

(***************************************************************************)
(* A program is [entry, body]: body[f] is the instruction sequence of      *)
(* function f.  An instruction is [op, to, line]: a "call" names its       *)
(* callee in `to`, a "br" the set of offsets it may jump to; `line` is     *)
(* read by Recording.                                                      *)
(***************************************************************************)
Ops == {"plain", "br", "call", "host", "return"}

FnNames == UNION {DOMAIN p.body : p \in Programs}

WellFormed(p) ==
    /\ p.entry \in DOMAIN p.body
    /\ \A f \in DOMAIN p.body :
        LET body == p.body[f]
        IN  /\ body \in Seq({body[k] : k \in DOMAIN body})
            /\ \A k \in DOMAIN body :
                /\ body[k].op \in Ops
                /\ body[k].op = "call" => body[k].to \in DOMAIN p.body
                /\ body[k].op = "br" => body[k].to \subseteq DOMAIN body

ASSUME ProgramsAssumption == \A p \in Programs : WellFormed(p)
ASSUME BoundsAssumption == MaxRecords \in Nat /\ MaxInvisible \in Nat

\* No function reaches itself through calls: `rank` grows along every call.
Layered(rank) ==
    /\ rank \in [FnNames -> Nat]
    /\ \A p \in Programs : \A f \in DOMAIN p.body : \A k \in DOMAIN p.body[f] :
        p.body[f][k].op = "call" => rank[f] < rank[p.body[f][k].to]

VARIABLES
    prog,       \* the executed program
    acts,       \* the true activation stack: <<[fn, pc, site], ...>>, outermost first
    guest,      \* `return` records that another contract may still write, see GuestAfter
    count,      \* records written so far; the code's record i is record i + 1 here
    hidden,     \* how many of them are invisible
    rec,        \* the last record
    walk,       \* the state of computeFrames' loop
    opStack,    \* the state of opcodeFrames' loop: the call sites of its frames
    seen        \* history: the true stack when the last visible record was written

vars == <<prog, acts, guest, count, hidden, rec, walk, opStack, seen>>

CallOps == {"call", "host"}
NoRecord == [vis |-> FALSE, fn |-> "", off |-> 0, op |-> "none"]

\* The functions of a stack with the call records that created them: what the
\* Callstack view shows of it.
Sites(stack) == [i \in DOMAIN stack |-> [fn |-> stack[i].fn, site |-> stack[i].site]]

(***************************************************************************)
(* computeFrames.  A walk state holds the frame stack, the index of the    *)
(* previous visible record (0: none) and whether that one was call-class.  *)
(* A frame's `caller` chain is the part of the stack below it, and its     *)
(* depth is its position.                                                  *)
(***************************************************************************)
EmptyWalk == [stack |-> <<>>, prev |-> 0, prevCall |-> FALSE]

\* The positions of function fn on a stack.
PositionsOf(stack, fn) == {k \in DOMAIN stack : stack[k].fn = fn}

\* A genuine call entry: the first instruction of a body, right after a
\* call-class record.
IsEntry(w, r) == r.off = 1 /\ w.prev > 0 /\ w.prevCall

\* Variant: whatever follows a call-class record is taken for its callee.
NextStackAnyOffset(w, r) ==
    LET top == Last(w.stack)
        back == PositionsOf(w.stack, r.fn)
    IN  IF w.stack = <<>> THEN <<[fn |-> r.fn, site |-> 0]>>
        ELSE IF top.fn # r.fn /\ w.prevCall THEN Append(w.stack, [fn |-> r.fn, site |-> w.prev])
        ELSE IF back # {} THEN SubSeq(w.stack, 1, Max(back))
        ELSE Append(Front(w.stack), [fn |-> r.fn, site |-> top.site])

\* Variant: a function that is on the stack is not looked for.
NextStackNoReturn(w, r) ==
    LET top == Last(w.stack)
    IN  IF w.stack = <<>> THEN <<[fn |-> r.fn, site |-> 0]>>
        ELSE IF top.fn # r.fn /\ IsEntry(w, r) THEN Append(w.stack, [fn |-> r.fn, site |-> w.prev])
        ELSE Append(Front(w.stack), [fn |-> r.fn, site |-> top.site])

\* The stack after visible record r: a call pushes, execution in a function
\* that is on the stack returns to its topmost frame, and execution in one that
\* is not changes the identity of the current frame.
NextStack(w, r) ==
    LET stack == w.stack
        top == Last(stack)
        back == PositionsOf(stack, r.fn)
    IN  IF stack = <<>> THEN <<[fn |-> r.fn, site |-> 0]>>
        ELSE IF top.fn # r.fn /\ IsEntry(w, r)
             THEN Append(stack, [fn |-> r.fn, site |-> w.prev])
        ELSE IF back # {} THEN SubSeq(stack, 1, Max(back))
        ELSE Append(Front(stack), [fn |-> r.fn, site |-> top.site])

\* Variant: a record without a position makes the walk forget the call before it.
FrameStepForgetsCall(w, i, r) ==
    IF r.vis
    THEN [stack |-> NextStack(w, r), prev |-> i, prevCall |-> r.op \in CallOps]
    ELSE [w EXCEPT !.prevCall = FALSE]

\* One iteration of the loop, for record number i.
FrameStep(w, i, r) ==
    IF r.vis
    THEN [stack |-> NextStack(w, r), prev |-> i, prevCall |-> r.op \in CallOps]
    ELSE w

\* Variants of OpcodeStep: `return` pops the outermost frame too; a host call
\* opens no frame, since no body of the contract runs in it.
OpcodeStepPopsOutermost(stack, i, r) ==
    IF r.op \in CallOps THEN Append(stack, i)
    ELSE IF r.op = "return" THEN Front(stack)
    ELSE stack

OpcodeStepSkipsHost(stack, i, r) ==
    IF r.op = "call" THEN Append(stack, i)
    ELSE IF r.op = "return" /\ Len(stack) > 1 THEN Front(stack)
    ELSE stack

(***************************************************************************)
(* opcodeFrames: every call-class record pushes, every `return` pops,      *)
(* except at the outermost frame.  It reads the opcodes of all records,    *)
(* those of other contracts' instructions included.                        *)
(***************************************************************************)
OpcodeStep(stack, i, r) ==
    IF r.op \in CallOps THEN Append(stack, i)
    ELSE IF r.op = "return" /\ Len(stack) > 1 THEN Front(stack)
    ELSE stack

(***************************************************************************)
(* The recorded execution.                                                 *)
(***************************************************************************)
Instr(a) == prog.body[a.fn][a.pc]
AtEnd(a) == a.pc > Len(prog.body[a.fn])
WithPc(a, pc) == [a EXCEPT !.pc = pc]

Init ==
    /\ prog \in Programs
    /\ acts = <<[fn |-> prog.entry, pc |-> 1, site |-> 0]>>
    /\ guest = 0
    /\ count = 0
    /\ hidden = 0
    /\ rec = NoRecord
    /\ walk = EmptyWalk
    /\ opStack = <<0>>
    /\ seen = <<>>

\* During a host call the host may run one other contract, whose instructions are
\* recorded too.  Its outermost function may leave in a `return`, without a call
\* record of its own, and so may every function or contract it calls: a bound on
\* the `return` records still to come before the host call is over.
GuestAfter(r) ==
    IF r.vis THEN IF r.op = "host" THEN 1 ELSE 0
    ELSE IF r.op \in CallOps THEN guest + 1
    ELSE IF r.op = "return" THEN guest - 1
    ELSE guest

\* Write record r: both walks take their next iteration.
Emit(r) ==
    /\ count < MaxRecords
    /\ guest' = GuestAfter(r)
    /\ count' = count + 1
    /\ hidden' = IF r.vis THEN hidden ELSE hidden + 1
    /\ rec' = r
    /\ walk' = FrameStep(walk, count + 1, r)
    /\ opStack' = OpcodeStep(opStack, count + 1, r)
    /\ seen' = IF r.vis THEN Sites(acts) ELSE seen

\* The record of the instruction the innermost activation is about to run.
Trace(op) ==
    /\ acts # <<>>
    /\ ~AtEnd(Last(acts))
    /\ Instr(Last(acts)).op = op
    /\ Emit([vis |-> TRUE, fn |-> Last(acts).fn, off |-> Last(acts).pc, op |-> op])
    /\ UNCHANGED prog

Advance(pc) == Append(Front(acts), WithPc(Last(acts), pc))

Plain ==
    /\ Trace("plain")
    /\ acts' = Advance(Last(acts).pc + 1)

\* A branch: fall through, or jump to one of its targets (a loop back-edge
\* or a skipped arm).
Branch ==
    /\ Trace("br")
    /\ \E pc \in Instr(Last(acts)).to \union {Last(acts).pc + 1} : acts' = Advance(pc)

Call ==
    /\ Trace("call")
    /\ acts' = Append(Advance(Last(acts).pc + 1),
                      [fn |-> Instr(Last(acts)).to, pc |-> 1, site |-> count + 1])

\* A call of an imported host function: call-class, but no wasm body runs.
HostCall ==
    /\ Trace("host")
    /\ acts' = Advance(Last(acts).pc + 1)

Return ==
    /\ Trace("return")
    /\ acts' = Front(acts)

\* An implicit return writes no record.
FallOffEnd ==
    /\ acts # <<>>
    /\ AtEnd(Last(acts))
    /\ acts' = Front(acts)
    /\ guest' = 0
    /\ UNCHANGED <<prog, count, hidden, rec, walk, opStack, seen>>

\* A record without a validated position.
Unplaced(op) ==
    /\ hidden < MaxInvisible
    /\ Emit([vis |-> FALSE, fn |-> "", off |-> 0, op |-> op])
    /\ UNCHANGED <<prog, acts>>

\* One whose opcode says nothing about calls: a global initialiser, a host event,
\* or a plain instruction of another contract.
Invisible == Unplaced("none")

\* A call, a host call or a return of another contract, during a host call.
Foreign == guest > 0 /\ \E op \in {"call", "host", "return"} : Unplaced(op)

Next == Plain \/ Branch \/ Call \/ HostCall \/ Return \/ FallOffEnd \/ Invisible \/ Foreign

Spec == Init /\ [][Next]_vars

-----------------------------------------------------------------------------
(***************************************************************************)
(* Properties.                                                             *)
(***************************************************************************)

Frame == [fn : FnNames, site : Nat]

\* Type correctness; every stack is made of frames the program can have, and
\* the fallback always keeps its outermost frame.
TypeOK ==
    /\ prog \in Programs
    /\ acts \in Seq([fn : DOMAIN prog.body, pc : Nat \ {0}, site : Nat])
    /\ guest \in Nat /\ count \in Nat /\ hidden \in Nat
    /\ walk.stack \in Seq(Frame) /\ walk.prev \in Nat /\ walk.prevCall \in BOOLEAN
    /\ opStack \in Seq(Nat) /\ opStack # <<>>
    /\ seen \in Seq(Frame)

\* The reconstructed stack is, at every visible record, the true activation
\* stack with the true call sites: implicit returns, tail host calls and
\* invisible records neither lose a frame nor leave one behind.
FramesExact == walk.stack = seen

\* Why FramesExact holds when calls follow `rank`: on both stacks the functions
\* are distinct, a suspended caller is past its first instruction, and between
\* two visible records the machine is either somewhere on the recorded stack, or
\* one call above it, at the callee's first instruction.
Ranked(rank, stack) ==
    \A i, j \in DOMAIN stack : i < j => rank[stack[i].fn] < rank[stack[j].fn]

Suspended == \A i \in DOMAIN acts : i < Len(acts) => acts[i].pc # 1

Agree(k) == \A i \in 1..k : acts[i].fn = seen[i].fn /\ acts[i].site = seen[i].site

Unrecorded ==
    /\ seen = <<>> /\ walk = EmptyWalk
    /\ Len(acts) <= 1
    /\ acts # <<>> => acts[1].site = 0

Resumed ==
    /\ seen # <<>> /\ Len(acts) <= Len(seen)
    /\ Agree(Len(acts))
    /\ \A i \in DOMAIN acts : i < Len(seen) => acts[i].pc # 1

Entered ==
    /\ seen # <<>> /\ Len(acts) = Len(seen) + 1
    /\ Agree(Len(seen))
    /\ acts[Len(acts)].pc = 1 /\ acts[Len(acts)].site = walk.prev
    /\ walk.prev > 0 /\ walk.prevCall = TRUE

WalkInvariant(rank) ==
    /\ FramesExact
    /\ Ranked(rank, acts) /\ Ranked(rank, seen)
    /\ Suspended
    /\ Unrecorded \/ Resumed \/ Entered

\* The rankings of the functions, as a set that TLC builds once.
Ranks == {rank : rank \in {r \in [FnNames -> 0..Cardinality(FnNames)] : Layered(r)}}

\* The inductive invariant behind FramesExact, for every such ranking: between two
\* visible records the machine is on the recorded stack or one fresh call above it.
WalkTracksMachine == \A rank \in Ranks : WalkInvariant(rank)

\* The opcode fallback may keep frames of implicit returns, but it never loses
\* one: neither to a host call, nor to the `return` with which another contract's
\* outermost function leaves although no call record of that contract entered it
\* (opcodeFrames reads every record).
OpcodeNeverShallow == Len(opStack) >= Len(acts)

\* The Callstack view's stack.
View == INSTANCE ActivationStack WITH frames <- walk.stack

\* computeFrames implements the stack of activations the Callstack view
\* promises: its stack changes by calls and returns only.
ImplementsActivationStack == View!Spec

=============================================================================
