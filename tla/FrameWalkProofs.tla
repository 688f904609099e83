-------------------------- MODULE FrameWalkProofs --------------------------
(***************************************************************************)
(* Proofs about FrameWalk for every program, every trace length and every  *)
(* number of invisible records.                                            *)
(***************************************************************************)
EXTENDS FrameWalk, ProofLemmas

Act(p) == [fn : DOMAIN p.body, pc : Nat \ {0}, site : Nat]

\* Sites keeps the length and the frames of a stack.
LEMMA SitesProperties ==
    ASSUME NEW p \in Programs, NEW a \in Seq(Act(p))
    PROVE  /\ Sites(a) \in Seq(Frame)
           /\ Len(Sites(a)) = Len(a)
           /\ \A i \in 1..Len(a) : Sites(a)[i] = [fn |-> a[i].fn, site |-> a[i].site]
<1>1. DOMAIN a = 1..Len(a) /\ Len(a) \in Nat /\ a \in [1..Len(a) -> Act(p)]
  BY LenProperties
<1>2. \A i \in 1..Len(a) : [fn |-> a[i].fn, site |-> a[i].site] \in Frame
  BY <1>1 DEF Act, Frame, FnNames
<1>3. Sites(a) \in [1..Len(a) -> Frame]
  BY <1>1, <1>2 DEF Sites
<1> QED BY <1>1, <1>3 DEF Sites

\* The innermost activation, where it is and what is below it.
LEMMA Innermost ==
    ASSUME TypeOK, acts # <<>>
    PROVE  /\ prog \in Programs /\ acts \in Seq(Act(prog))
           /\ Len(acts) \in Nat \ {0}
           /\ Last(acts) = acts[Len(acts)] /\ Last(acts) \in Act(prog)
           /\ Last(acts).fn \in FnNames
           /\ Front(acts) \in Seq(Act(prog)) /\ Len(Front(acts)) = Len(acts) - 1
           /\ \A i \in 1..(Len(acts) - 1) : Front(acts)[i] = acts[i]
<1>1. prog \in Programs /\ acts \in Seq(Act(prog))
  BY DEF TypeOK, Act
<1>2. Last(acts).fn \in FnNames
  <2>1. Last(acts) \in Act(prog)
    BY <1>1, FrontProperties
  <2>2. Last(acts).fn \in DOMAIN prog.body
    BY <2>1 DEF Act
  <2> QED BY <1>1, <2>2 DEF FnNames
<1> QED BY <1>1, <1>2, FrontProperties

\* A well-formed program's instruction, its branch targets and callee.
LEMMA InstrProperties ==
    ASSUME TypeOK, acts # <<>>, ~AtEnd(Last(acts))
    PROVE  /\ Last(acts).pc \in DOMAIN prog.body[Last(acts).fn]
           /\ Instr(Last(acts)).op = "br" => Instr(Last(acts)).to \subseteq Nat \ {0}
           /\ Instr(Last(acts)).op = "call" => Instr(Last(acts)).to \in DOMAIN prog.body
<1> DEFINE top == Last(acts)
           body == prog.body[top.fn]
<1>1. prog \in Programs /\ top \in Act(prog)
  BY Innermost
<1>2. WellFormed(prog) /\ top.fn \in DOMAIN prog.body
  BY <1>1, ProgramsAssumption DEF Act
<1>3. body \in Seq({body[k] : k \in DOMAIN body})
  BY <1>2 DEF WellFormed
<1>4. DOMAIN body = 1..Len(body) /\ Len(body) \in Nat
  BY <1>3, LenProperties
<1>5. top.pc \in DOMAIN body
  <2>1. top.pc \in Nat \ {0} /\ ~(top.pc > Len(body))
    BY <1>1 DEF Act, AtEnd
  <2> QED BY <1>4, <2>1
<1>6. /\ body[top.pc].op = "call" => body[top.pc].to \in DOMAIN prog.body
      /\ body[top.pc].op = "br" => body[top.pc].to \subseteq DOMAIN body
  BY <1>2, <1>5 DEF WellFormed
<1>7. Instr(Last(acts)) = body[top.pc] /\ body = prog.body[Last(acts).fn]
  BY DEF Instr
<1>8. DOMAIN body \subseteq Nat \ {0}
  BY <1>4
<1> HIDE DEF body
<1> QED BY <1>5, <1>6, <1>7, <1>8

-----------------------------------------------------------------------------
(***************************************************************************)
(* Type correctness.                                                       *)
(***************************************************************************)

\* The frame walk's stack stays a stack of frames, whatever record it is given.
LEMMA NextStackType ==
    ASSUME NEW w, w.stack \in Seq(Frame), w.prev \in Nat, NEW r, r.fn \in FnNames
    PROVE  NextStack(w, r) \in Seq(Frame)
<1> DEFINE stack == w.stack
           top == Last(stack)
           back == PositionsOf(stack, r.fn)
           enters == top.fn # r.fn /\ IsEntry(w, r)
<1>1. CASE stack = <<>>
  <2>1. [fn |-> r.fn, site |-> 0] \in Frame
    BY DEF Frame
  <2> QED BY <1>1, <2>1 DEF NextStack
<1>2. CASE stack # <<>> /\ enters
  <2>1. [fn |-> r.fn, site |-> w.prev] \in Frame
    BY DEF Frame
  <2>2. NextStack(w, r) = Append(stack, [fn |-> r.fn, site |-> w.prev])
    BY <1>2 DEF NextStack
  <2> QED BY <2>1, <2>2, AppendProperties
<1>3. CASE stack # <<>> /\ ~enters /\ back # {}
  <2>1. NextStack(w, r) = SubSeq(stack, 1, Max(back))
    BY <1>3 DEF NextStack
  <2>2. Len(stack) \in Nat /\ back \subseteq 0..Len(stack)
    BY LenProperties DEF PositionsOf
  <2>3. Max(back) \in 0..Len(stack)
    BY <1>3, <2>2, MaxIsLargest
  <2> QED BY <2>1, <2>3, PrefixProperties
<1>4. CASE stack # <<>> /\ ~enters /\ back = {}
  <2>1. NextStack(w, r) = Append(Front(stack), [fn |-> r.fn, site |-> top.site])
    BY <1>4 DEF NextStack
  <2>2. [fn |-> r.fn, site |-> top.site] \in Frame
    BY <1>4, FrontProperties DEF Frame
  <2> QED BY <1>4, <2>1, <2>2, ReplaceLastProperties
<1> QED BY <1>1, <1>2, <1>3, <1>4

\* The fallback's stack stays a non-empty stack of call sites.
LEMMA OpcodeStepType ==
    ASSUME NEW stack \in Seq(Nat), stack # <<>>, NEW i \in Nat, NEW r
    PROVE  /\ OpcodeStep(stack, i, r) \in Seq(Nat)
           /\ OpcodeStep(stack, i, r) # <<>>
           /\ Len(OpcodeStep(stack, i, r)) =
                IF r.op \in CallOps THEN Len(stack) + 1
                ELSE IF r.op = "return" /\ Len(stack) > 1 THEN Len(stack) - 1
                ELSE Len(stack)
<1>1. /\ Len(stack) \in Nat \ {0}
      /\ Front(stack) \in Seq(Nat) /\ Len(Front(stack)) = Len(stack) - 1
  BY FrontProperties
<1>2. CASE r.op \in CallOps
  <2>1. OpcodeStep(stack, i, r) = Append(stack, i)
    BY <1>2 DEF OpcodeStep
  <2> QED BY <1>2, <2>1, AppendProperties
<1>3. CASE r.op = "return" /\ Len(stack) > 1
  <2>1. "return" \notin CallOps
    BY DEF CallOps
  <2>2. OpcodeStep(stack, i, r) = Front(stack)
    BY <1>3, <2>1 DEF OpcodeStep
  <2>3. Front(stack) # <<>>
    BY <1>1, <1>3, EmptySeq
  <2> QED BY <1>1, <1>3, <2>1, <2>2, <2>3
<1>4. CASE r.op \notin CallOps /\ ~(r.op = "return" /\ Len(stack) > 1)
  <2>1. OpcodeStep(stack, i, r) = stack
    BY <1>4 DEF OpcodeStep
  <2> QED BY <1>4, <2>1
<1> QED BY <1>2, <1>3, <1>4

\* What records without a position leave alone.
LEMMA UnplacedStep ==
    ASSUME Invisible \/ Foreign
    PROVE  /\ prog' = prog /\ acts' = acts /\ walk' = walk /\ seen' = seen
           /\ count' = count + 1 /\ rec'.vis = FALSE
           /\ \E r : Emit(r) /\ r.vis = FALSE /\ (r.op = "none" \/ guest > 0)
<1>1. PICK op : Unplaced(op) /\ (op = "none" \/ guest > 0)
  BY DEF Invisible, Foreign
<1> DEFINE r == [vis |-> FALSE, fn |-> "", off |-> 0, op |-> op]
<1>2. /\ Emit(r) /\ prog' = prog /\ acts' = acts
      /\ r.vis = FALSE /\ (r.op = "none" \/ guest > 0)
  BY <1>1 DEF Unplaced
<1> HIDE DEF r
<1>3. walk' = walk /\ seen' = seen /\ count' = count + 1 /\ rec'.vis = FALSE
  BY <1>2 DEF Emit, FrameStep
<1> QED BY <1>2, <1>3

\* Writing a record keeps the types of everything it updates.
Placed(r) == \/ r.vis = TRUE /\ r.fn \in FnNames
             \/ r.vis = FALSE /\ (r.op = "none" \/ guest > 0)

LEMMA EmitType ==
    ASSUME TypeOK, NEW r, Placed(r), Emit(r)
    PROVE  /\ guest' \in Nat /\ count' \in Nat /\ hidden' \in Nat
           /\ walk'.stack \in Seq(Frame) /\ walk'.prev \in Nat /\ walk'.prevCall \in BOOLEAN
           /\ opStack' \in Seq(Nat) /\ opStack' # <<>>
           /\ seen' \in Seq(Frame)
<1>1. guest' \in Nat /\ count' \in Nat /\ hidden' \in Nat
  BY DEF TypeOK, Emit, GuestAfter, Placed
<1>2. walk'.stack \in Seq(Frame) /\ walk'.prev \in Nat /\ walk'.prevCall \in BOOLEAN
  <2>1. CASE r.vis
    <3>1. walk' = [stack |-> NextStack(walk, r), prev |-> count + 1,
                   prevCall |-> r.op \in CallOps]
      BY <2>1 DEF Emit, FrameStep
    <3>2. NextStack(walk, r) \in Seq(Frame)
      BY <2>1, NextStackType DEF TypeOK, Placed
    <3> QED BY <3>1, <3>2 DEF TypeOK
  <2>2. CASE ~r.vis
    BY <2>2 DEF Emit, FrameStep, TypeOK
  <2> QED BY <2>1, <2>2
<1>3. opStack' \in Seq(Nat) /\ opStack' # <<>>
  BY OpcodeStepType DEF TypeOK, Emit
<1>4. seen' \in Seq(Frame)
  <2>1. CASE r.vis
    BY <2>1, SitesProperties DEF TypeOK, Emit, Act
  <2>2. CASE ~r.vis
    BY <2>2 DEF Emit, TypeOK
  <2> QED BY <2>1, <2>2
<1> QED BY <1>1, <1>2, <1>3, <1>4

\* The record an activation writes names a function of the program.
LEMMA TraceEmits ==
    ASSUME TypeOK, NEW op, Trace(op)
    PROVE  \E r : /\ r = [vis |-> TRUE, fn |-> Last(acts).fn, off |-> Last(acts).pc, op |-> op]
                  /\ Emit(r)
                  /\ r.fn \in FnNames /\ r.vis = TRUE /\ r.op = op
                  /\ acts # <<>> /\ ~AtEnd(Last(acts)) /\ Instr(Last(acts)).op = op
                  /\ prog' = prog
BY Innermost DEF Trace

\* Advancing the innermost activation keeps the stack well typed and its
\* call sites and functions in place.
LEMMA AdvanceProperties ==
    ASSUME TypeOK, acts # <<>>, NEW pc \in Nat \ {0}
    PROVE  /\ Advance(pc) \in Seq(Act(prog))
           /\ Len(Advance(pc)) = Len(acts)
           /\ \A i \in 1..(Len(acts) - 1) : Advance(pc)[i] = acts[i]
           /\ Advance(pc)[Len(acts)].pc = pc
           /\ \A i \in 1..Len(acts) : /\ Advance(pc)[i].fn = acts[i].fn
                                      /\ Advance(pc)[i].site = acts[i].site
<1> DEFINE e == WithPc(Last(acts), pc)
<1>1. /\ acts \in Seq(Act(prog)) /\ Last(acts) = acts[Len(acts)]
      /\ Last(acts) \in Act(prog) /\ Len(acts) \in Nat \ {0}
  BY Innermost
<1>2. e \in Act(prog) /\ e.pc = pc /\ e.fn = Last(acts).fn /\ e.site = Last(acts).site
  BY <1>1 DEF WithPc, Act
<1>3. /\ Advance(pc) \in Seq(Act(prog))
      /\ Len(Advance(pc)) = Len(acts)
      /\ \A i \in 1..(Len(acts) - 1) : Advance(pc)[i] = acts[i]
      /\ Advance(pc)[Len(acts)] = e
  BY <1>1, <1>2, ReplaceLastProperties DEF Advance
<1>4. ASSUME NEW i \in 1..Len(acts)
      PROVE  Advance(pc)[i].fn = acts[i].fn /\ Advance(pc)[i].site = acts[i].site
  <2>1. CASE i = Len(acts)
    BY <1>1, <1>2, <1>3, <2>1
  <2>2. CASE i \in 1..(Len(acts) - 1)
    BY <1>3, <2>2
  <2> QED BY <1>1, <2>1, <2>2
<1> QED BY <1>2, <1>3, <1>4

\* No step of the machine leaves the types.
LEMMA TypeStep ==
    ASSUME TypeOK, [Next]_vars
    PROVE  TypeOK'
<1> USE DEF Act
<1>1. ASSUME NEW op, Trace(op), acts' \in Seq(Act(prog)) PROVE TypeOK'
  <2>1. PICK r : Emit(r) /\ r.fn \in FnNames /\ r.vis = TRUE /\ prog' = prog
    BY <1>1, TraceEmits
  <2>2. /\ guest' \in Nat /\ count' \in Nat /\ hidden' \in Nat
        /\ walk'.stack \in Seq(Frame) /\ walk'.prev \in Nat /\ walk'.prevCall \in BOOLEAN
        /\ opStack' \in Seq(Nat) /\ opStack' # <<>>
        /\ seen' \in Seq(Frame)
    <3> HIDE DEF Act
    <3>1. Placed(r)
      BY <2>1 DEF Placed
    <3> QED BY <2>1, <3>1, EmitType, Zenon
  <2> QED BY <1>1, <2>1, <2>2 DEF TypeOK
<1>2. CASE Plain
  <2>1. acts # <<>> /\ Last(acts).pc + 1 \in Nat \ {0}
    BY <1>2, Innermost DEF Plain, Trace
  <2> QED BY <1>1, <1>2, <2>1, AdvanceProperties DEF Plain
<1>3. CASE Branch
  <2>1. acts # <<>> /\ ~AtEnd(Last(acts)) /\ Instr(Last(acts)).op = "br"
    BY <1>3 DEF Branch, Trace
  <2>2. Instr(Last(acts)).to \union {Last(acts).pc + 1} \subseteq Nat \ {0}
    BY <2>1, InstrProperties, Innermost
  <2> QED BY <1>1, <1>3, <2>1, <2>2, AdvanceProperties DEF Branch
<1>4. CASE Call
  <2> DEFINE new == [fn |-> Instr(Last(acts)).to, pc |-> 1, site |-> count + 1]
  <2>1. acts # <<>> /\ ~AtEnd(Last(acts)) /\ Instr(Last(acts)).op = "call"
    BY <1>4 DEF Call, Trace
  <2>2. Last(acts).pc + 1 \in Nat \ {0}
    BY <2>1, Innermost
  <2>3. new \in Act(prog)
    BY <2>1, InstrProperties DEF TypeOK
  <2>4. Append(Advance(Last(acts).pc + 1), new) \in Seq(Act(prog))
    BY <2>1, <2>2, <2>3, AdvanceProperties, AppendProperties
  <2> QED BY <1>1, <1>4, <2>4 DEF Call
<1>5. CASE HostCall
  <2>1. acts # <<>> /\ Last(acts).pc + 1 \in Nat \ {0}
    BY <1>5, Innermost DEF HostCall, Trace
  <2> QED BY <1>1, <1>5, <2>1, AdvanceProperties DEF HostCall
<1>6. CASE Return
  BY <1>1, <1>6, Innermost DEF Return, Trace
<1>7. CASE FallOffEnd
  BY <1>7, Innermost DEF FallOffEnd, TypeOK
<1>8. CASE Invisible \/ Foreign
  <2>1. PICK r : /\ Emit(r) /\ prog' = prog /\ acts' = acts
                 /\ r.vis = FALSE /\ (r.op = "none" \/ guest > 0)
    BY <1>8, UnplacedStep
  <2>2. /\ guest' \in Nat /\ count' \in Nat /\ hidden' \in Nat
        /\ walk'.stack \in Seq(Frame) /\ walk'.prev \in Nat /\ walk'.prevCall \in BOOLEAN
        /\ opStack' \in Seq(Nat) /\ opStack' # <<>>
        /\ seen' \in Seq(Frame)
    <3> HIDE DEF Act
    <3>1. Placed(r)
      BY <2>1 DEF Placed
    <3> QED BY <2>1, <3>1, EmitType, Zenon
  <2> QED BY <2>1, <2>2 DEF TypeOK
<1>9. CASE UNCHANGED vars
  BY <1>9 DEF vars, TypeOK
<1> QED BY <1>2, <1>3, <1>4, <1>5, <1>6, <1>7, <1>8, <1>9 DEF Next

\* The program starts with one activation and empty reconstructions.
LEMMA InitTypeOK ==
    ASSUME Init
    PROVE  TypeOK
<1>1. prog \in Programs /\ prog.entry \in DOMAIN prog.body
  BY ProgramsAssumption DEF Init, WellFormed
<1>2. acts \in Seq([fn : DOMAIN prog.body, pc : Nat \ {0}, site : Nat])
  BY <1>1 DEF Init
<1>3. opStack \in Seq(Nat) /\ opStack # <<>>
  BY DEF Init
<1>4. /\ walk.stack \in Seq(Frame) /\ walk.prev \in Nat /\ walk.prevCall \in BOOLEAN
      /\ seen \in Seq(Frame)
  BY EmptySeq DEF Init, EmptyWalk
<1> QED BY <1>1, <1>2, <1>3, <1>4 DEF Init, TypeOK

\* TypeOK holds in every reachable state.
THEOREM TypeCorrect == Spec => []TypeOK
<1>1. Init => TypeOK
  BY InitTypeOK
<1>2. TypeOK /\ [Next]_vars => TypeOK'
  BY TypeStep
<1> QED BY <1>1, <1>2, PTL DEF Spec

-----------------------------------------------------------------------------
(***************************************************************************)
(* The walk is exact when calls are layered.                               *)
(***************************************************************************)

\* The elements of Sites(acts) are the frames of acts.
LEMMA SitesOfActs ==
    ASSUME TypeOK
    PROVE  /\ Sites(acts) \in Seq(Frame) /\ Len(Sites(acts)) = Len(acts)
           /\ DOMAIN acts = 1..Len(acts) /\ Len(acts) \in Nat
           /\ \A i \in 1..Len(acts) : /\ Sites(acts)[i].fn = acts[i].fn
                                      /\ Sites(acts)[i].site = acts[i].site
                                      /\ acts[i].fn \in FnNames
<1>1. prog \in Programs /\ acts \in Seq(Act(prog))
  BY DEF TypeOK, Act
<1>2. DOMAIN acts = 1..Len(acts) /\ Len(acts) \in Nat /\ acts \in [1..Len(acts) -> Act(prog)]
  BY <1>1, LenProperties
<1>3. \A i \in 1..Len(acts) : acts[i].fn \in FnNames
  BY <1>1, <1>2 DEF Act, FnNames
<1>4. /\ Sites(acts) \in Seq(Frame) /\ Len(Sites(acts)) = Len(acts)
      /\ \A i \in 1..Len(acts) : Sites(acts)[i] = [fn |-> acts[i].fn, site |-> acts[i].site]
  BY <1>1, SitesProperties
<1>5. \A i \in 1..Len(acts) : Sites(acts)[i].fn = acts[i].fn /\ Sites(acts)[i].site = acts[i].site
  <2> TAKE i \in 1..Len(acts)
  <2>1. Sites(acts)[i] = [fn |-> acts[i].fn, site |-> acts[i].site]
    BY <1>4
  <2> QED BY <2>1
<1> QED BY <1>2, <1>3, <1>4, <1>5

\* Two stacks with the same functions and the same call sites are equal.
LEMMA SameFrames ==
    ASSUME NEW s \in Seq(Frame), NEW t \in Seq(Frame), Len(s) = Len(t),
           \A i \in 1..Len(s) : s[i].fn = t[i].fn /\ s[i].site = t[i].site
    PROVE  s = t
<1>1. \A i \in 1..Len(s) : s[i] \in Frame /\ t[i] \in Frame
  BY LenProperties
<1>2. \A f, g \in Frame : f.fn = g.fn /\ f.site = g.site => f = g
  BY DEF Frame
<1>3. \A i \in 1..Len(s) : s[i] = t[i]
  BY <1>1, <1>2
<1> QED BY <1>3, SeqEqual

\* A function stands at one position of a ranked stack.
LEMMA RankedPosition ==
    ASSUME NEW rank, rank \in [FnNames -> Nat], NEW s \in Seq(Frame), Ranked(rank, s),
           NEW k \in 1..Len(s)
    PROVE  PositionsOf(s, s[k].fn) = {k}
<1>1. DOMAIN s = 1..Len(s) /\ Len(s) \in Nat /\ s \in [1..Len(s) -> Frame]
  BY LenProperties
<1>2. \A i \in 1..Len(s) : rank[s[i].fn] \in Nat
  BY <1>1 DEF Frame
<1>3. \A i \in 1..Len(s) : s[i].fn = s[k].fn => i = k
  <2> TAKE i \in 1..Len(s)
  <2>1. CASE i < k
    <3>1. rank[s[i].fn] < rank[s[k].fn]
      BY <1>1, <2>1 DEF Ranked
    <3> QED BY <1>2, <3>1
  <2>2. CASE k < i
    <3>1. rank[s[k].fn] < rank[s[i].fn]
      BY <1>1, <2>2 DEF Ranked
    <3> QED BY <1>2, <3>1
  <2> QED BY <1>1, <2>1, <2>2
<1> QED BY <1>1, <1>3 DEF PositionsOf

\* The greatest element of a singleton of naturals.
LEMMA MaxSingleton ==
    ASSUME NEW k \in Nat
    PROVE  Max({k}) = k
<1>1. {k} \subseteq 0..k /\ {k} # {}
  OBVIOUS
<1> QED BY <1>1, MaxIsLargest

\* The one step that matters: the record of the innermost activation makes the
\* walk's stack the true one.
LEMMA NextStackExact ==
    ASSUME NEW rank, Layered(rank), TypeOK, WalkInvariant(rank), acts # <<>>,
           NEW r, r.fn = Last(acts).fn, r.off = Last(acts).pc
    PROVE  NextStack(walk, r) = Sites(acts)
<1> DEFINE n == Len(acts)
           m == Len(seen)
<1>1. /\ n \in Nat \ {0} /\ r.fn = acts[n].fn /\ r.off = acts[n].pc
      /\ r.fn \in FnNames /\ acts[n].site \in Nat
  BY Innermost DEF Act
<1>2. /\ Sites(acts) \in Seq(Frame) /\ Len(Sites(acts)) = n
      /\ DOMAIN acts = 1..n
      /\ \A i \in 1..n : /\ Sites(acts)[i].fn = acts[i].fn
                         /\ Sites(acts)[i].site = acts[i].site
  BY SitesOfActs
<1>3. /\ walk.stack = seen /\ seen \in Seq(Frame)
      /\ DOMAIN seen = 1..m /\ m \in Nat
      /\ seen \in [1..m -> Frame]
  BY LenProperties DEF WalkInvariant, FramesExact, TypeOK
<1>4. rank \in [FnNames -> Nat]
  BY DEF Layered
<1>5. CASE Unrecorded
  <2>1. n = 1 /\ acts[1].site = 0 /\ seen = <<>>
    <3>1. n <= 1 /\ acts[1].site = 0 /\ seen = <<>>
      BY <1>5 DEF Unrecorded
    <3>2. n \in Nat \ {0}
      BY <1>1
    <3>3. n = 1
      <4> HIDE DEF n
      <4> QED BY <3>1, <3>2
    <3> QED BY <3>1, <3>3
  <2>2. NextStack(walk, r) = <<[fn |-> r.fn, site |-> 0]>>
    BY <1>3, <2>1 DEF NextStack
  <2>3. [fn |-> r.fn, site |-> 0] \in Frame
    BY <1>1 DEF Frame
  <2> DEFINE f == [fn |-> r.fn, site |-> 0]
  <2>4. /\ <<f>> \in Seq(Frame) /\ Len(<<f>>) = 1 /\ <<f>>[1] = f
        /\ f.fn = r.fn /\ f.site = 0
    BY <2>3
  <2>5. \A i \in 1..1 : <<f>>[i].fn = Sites(acts)[i].fn /\ <<f>>[i].site = Sites(acts)[i].site
    BY <1>1, <1>2, <2>1, <2>4
  <2> HIDE DEF f
  <2>6. <<f>> = Sites(acts)
    BY <1>2, <2>1, <2>4, <2>5, SameFrames
  <2> QED BY <2>2, <2>6 DEF f
<1>6. CASE Resumed
  <2>1. /\ seen # <<>> /\ n \in 1..m
        /\ \A i \in 1..n : acts[i].fn = seen[i].fn /\ acts[i].site = seen[i].site
        /\ n < m => r.off # 1
    BY <1>1, <1>2, <1>3, <1>6 DEF Resumed, Agree
  <2>2. PositionsOf(seen, r.fn) = {n}
    <3>1. Ranked(rank, seen)
      BY DEF WalkInvariant
    <3>2. r.fn = seen[n].fn
      BY <1>1, <2>1
    <3>3. PositionsOf(seen, seen[n].fn) = {n}
      BY <1>3, <1>4, <2>1, <3>1, RankedPosition
    <3> QED BY <3>2, <3>3
  <2>3. ~(Last(seen).fn # r.fn /\ IsEntry(walk, r))
    <3>1. CASE n = m
      <4>1. Last(seen) = seen[m]
        BY <1>3, <2>1, FrontProperties
      <4> QED BY <1>1, <2>1, <3>1, <4>1
    <3>2. CASE n # m
      BY <1>3, <2>1, <3>2 DEF IsEntry
    <3> QED BY <3>1, <3>2
  <2>4. NextStack(walk, r) = SubSeq(seen, 1, n)
    <3>1. Max({n}) = n
      BY <1>1, MaxSingleton
    <3> QED BY <1>3, <2>1, <2>2, <2>3, <3>1 DEF NextStack
  <2>5. /\ SubSeq(seen, 1, n) \in Seq(Frame) /\ Len(SubSeq(seen, 1, n)) = n
        /\ \A i \in 1..n : SubSeq(seen, 1, n)[i] = seen[i]
    BY <1>3, <2>1, PrefixProperties
  <2>6. \A i \in 1..n : /\ SubSeq(seen, 1, n)[i].fn = Sites(acts)[i].fn
                        /\ SubSeq(seen, 1, n)[i].site = Sites(acts)[i].site
    BY <1>2, <2>1, <2>5
  <2>7. SubSeq(seen, 1, n) = Sites(acts)
    BY <1>2, <2>5, <2>6, SameFrames
  <2> QED BY <2>4, <2>7
<1>7. CASE Entered
  <2> DEFINE new == [fn |-> r.fn, site |-> walk.prev]
  <2>1. /\ seen # <<>> /\ n = m + 1 /\ m \in 1..n
        /\ \A i \in 1..m : acts[i].fn = seen[i].fn /\ acts[i].site = seen[i].site
        /\ IsEntry(walk, r) /\ acts[n].site = walk.prev
    BY <1>1, <1>3, <1>7, EmptySeq DEF Entered, Agree, IsEntry
  <2>2. Last(seen).fn # r.fn
    <3>1. rank[acts[m].fn] < rank[acts[n].fn]
      <4>1. Ranked(rank, acts)
        BY DEF WalkInvariant
      <4>2. m \in DOMAIN acts /\ n \in DOMAIN acts /\ m < n
        BY <1>2, <1>3, <2>1
      <4> QED BY <4>1, <4>2 DEF Ranked
    <3>2. Last(seen) = seen[m] /\ acts[m].fn = seen[m].fn
      <4>1. Last(seen) = seen[m]
        BY <1>3, <2>1, FrontProperties
      <4>2. m \in 1..m
        BY <1>3, <2>1
      <4> QED BY <2>1, <4>1, <4>2
    <3>3. acts[m].fn \in FnNames
      BY <1>3, <2>1, <3>2 DEF Frame
    <3> QED BY <1>1, <1>4, <3>1, <3>2, <3>3
  <2>3. NextStack(walk, r) = Append(seen, new)
    BY <1>3, <2>1, <2>2 DEF NextStack
  <2>4. new \in Frame /\ new.fn = r.fn /\ new.site = walk.prev
    BY <1>1, <2>1 DEF Frame
  <2> HIDE DEF new
  <2>5. /\ Append(seen, new) \in Seq(Frame) /\ Len(Append(seen, new)) = n
        /\ \A i \in 1..m : Append(seen, new)[i] = seen[i]
        /\ Append(seen, new)[n] = new
    BY <1>3, <2>1, <2>4, AppendProperties
  <2>6. \A i \in 1..n : /\ Append(seen, new)[i].fn = Sites(acts)[i].fn
                        /\ Append(seen, new)[i].site = Sites(acts)[i].site
    <3> TAKE i \in 1..n
    <3>1. CASE i = n
      BY <1>1, <1>2, <2>1, <2>4, <2>5, <3>1
    <3>2. CASE i \in 1..m
      BY <1>2, <2>1, <2>5, <3>2
    <3> QED BY <1>3, <2>1, <3>1, <3>2
  <2>7. Append(seen, new) = Sites(acts)
    BY <1>2, <2>5, <2>6, SameFrames
  <2> QED BY <2>3, <2>7
<1> QED BY <1>5, <1>6, <1>7 DEF WalkInvariant

\* The record of an instruction leaves the walk with the true stack.
LEMMA RecordStep ==
    ASSUME NEW rank, Layered(rank), TypeOK, WalkInvariant(rank), NEW op, Trace(op)
    PROVE  /\ acts # <<>>
           /\ seen' = Sites(acts) /\ walk'.stack = Sites(acts)
           /\ walk'.prev = count + 1 /\ count \in Nat
           /\ op \in CallOps => walk'.prevCall = TRUE
<1> DEFINE r == [vis |-> TRUE, fn |-> Last(acts).fn, off |-> Last(acts).pc, op |-> op]
<1>1. /\ acts # <<>> /\ Emit(r)
      /\ r.vis = TRUE /\ r.fn = Last(acts).fn /\ r.off = Last(acts).pc /\ r.op = op
  BY DEF Trace
<1> HIDE DEF r
<1>2. NextStack(walk, r) = Sites(acts)
  BY <1>1, NextStackExact
<1>3. walk' = [stack |-> NextStack(walk, r), prev |-> count + 1, prevCall |-> r.op \in CallOps]
  BY <1>1 DEF Emit, FrameStep
<1>4. seen' = Sites(acts)
  BY <1>1 DEF Emit
<1>5. count \in Nat
  BY DEF TypeOK
<1>6. walk'.stack = Sites(acts) /\ walk'.prev = count + 1 /\ (walk'.prevCall = (r.op \in CallOps))
  BY <1>2, <1>3
<1> QED BY <1>1, <1>4, <1>5, <1>6

\* A step that keeps or shortens the true stack right after its record.
LEMMA ResumedStep ==
    ASSUME NEW rank, Layered(rank), TypeOK, WalkInvariant(rank), TypeOK',
           acts # <<>>, seen' = Sites(acts), walk'.stack = Sites(acts),
           Len(acts') <= Len(acts),
           \A i \in 1..Len(acts') : acts'[i].fn = acts[i].fn /\ acts'[i].site = acts[i].site,
           \A i \in 1..Len(acts') : i < Len(acts) => acts'[i].pc = acts[i].pc
    PROVE  WalkInvariant(rank)'
<1>1. /\ Len(Sites(acts)) = Len(acts)
      /\ DOMAIN acts = 1..Len(acts) /\ Len(acts) \in Nat
      /\ \A i \in 1..Len(acts) : /\ Sites(acts)[i].fn = acts[i].fn
                                 /\ Sites(acts)[i].site = acts[i].site
      /\ DOMAIN Sites(acts) = 1..Len(acts)
  BY SitesOfActs DEF Sites
<1>2. DOMAIN acts' = 1..Len(acts') /\ Len(acts') \in Nat
  BY LenProperties DEF TypeOK
<1>3. Ranked(rank, acts) /\ Suspended
  BY DEF WalkInvariant
<1>4. Len(acts) # 0
  BY EmptySeq DEF TypeOK
<1>5. FramesExact'
  BY DEF FramesExact
<1>6. Ranked(rank, seen')
  BY <1>1, <1>3 DEF Ranked
<1>7. Ranked(rank, acts')
  <2> SUFFICES ASSUME NEW i \in DOMAIN acts', NEW j \in DOMAIN acts', i < j
               PROVE  rank[acts'[i].fn] < rank[acts'[j].fn]
    BY DEF Ranked
  <2>1. i \in DOMAIN acts /\ j \in DOMAIN acts /\ i \in 1..Len(acts') /\ j \in 1..Len(acts')
    BY <1>1, <1>2
  <2>2. rank[acts[i].fn] < rank[acts[j].fn]
    BY <1>3, <2>1 DEF Ranked
  <2>3. acts'[i].fn = acts[i].fn /\ acts'[j].fn = acts[j].fn
    BY <2>1
  <2> QED BY <2>2, <2>3
<1>8. \A i \in 1..Len(acts') : i < Len(acts) => acts'[i].pc # 1
  BY <1>1, <1>2, <1>3 DEF Suspended
<1>9. Suspended'
  BY <1>1, <1>2, <1>8 DEF Suspended
<1>10. Resumed'
  <2>1. seen' # <<>> /\ Len(seen') = Len(acts)
    BY <1>1, <1>4
  <2>2. Agree(Len(acts))'
    BY <1>1, <1>2 DEF Agree
  <2> QED BY <1>2, <1>8, <2>1, <2>2 DEF Resumed
<1> QED BY <1>5, <1>6, <1>7, <1>9, <1>10 DEF WalkInvariant

\* A call puts the callee, at its first instruction, one above the record.
LEMMA EnteredStep ==
    ASSUME NEW rank, Layered(rank), TypeOK, WalkInvariant(rank), TypeOK', Call
    PROVE  WalkInvariant(rank)'
<1> DEFINE n == Len(acts)
           new == [fn |-> Instr(Last(acts)).to, pc |-> 1, site |-> count + 1]
           base == Advance(Last(acts).pc + 1)
<1>1. /\ acts # <<>> /\ ~AtEnd(Last(acts)) /\ Instr(Last(acts)).op = "call"
      /\ acts' = Append(base, new)
  BY DEF Call, Trace
<1>2. /\ seen' = Sites(acts) /\ walk'.stack = Sites(acts)
      /\ walk'.prev = count + 1 /\ count \in Nat /\ walk'.prevCall = TRUE
  BY RecordStep DEF Call, CallOps
<1>3. /\ n \in Nat \ {0} /\ Last(acts) = acts[n] /\ Last(acts).pc + 1 \in Nat \ {0}
      /\ Last(acts).pc + 1 # 1 /\ Last(acts).fn \in DOMAIN prog.body /\ prog \in Programs
  BY <1>1, Innermost DEF Act
<1>4. /\ DOMAIN Sites(acts) = 1..n /\ Len(Sites(acts)) = n
      /\ DOMAIN acts = 1..n
      /\ \A i \in 1..n : /\ Sites(acts)[i].fn = acts[i].fn
                         /\ Sites(acts)[i].site = acts[i].site
                         /\ acts[i].fn \in FnNames
  BY SitesOfActs DEF Sites
<1>5. new \in Act(prog) /\ new.fn = Instr(Last(acts)).to /\ new.pc = 1 /\ new.site = count + 1
  BY <1>1, <1>2, InstrProperties DEF Act
<1>6. /\ base \in Seq(Act(prog)) /\ Len(base) = n
      /\ \A i \in 1..(n - 1) : base[i] = acts[i]
      /\ base[n].pc = Last(acts).pc + 1
      /\ \A i \in 1..n : base[i].fn = acts[i].fn /\ base[i].site = acts[i].site
  BY <1>1, <1>3, AdvanceProperties
<1> HIDE DEF new, base
<1>7. /\ Len(acts') = n + 1 /\ DOMAIN acts' = 1..(n + 1)
      /\ \A i \in 1..n : acts'[i] = base[i]
      /\ acts'[n + 1] = new
  BY <1>1, <1>5, <1>6, AppendProperties, LenProperties
<1>8. Ranked(rank, acts) /\ Suspended
  BY DEF WalkInvariant
<1>9. FramesExact'
  BY <1>2 DEF FramesExact
<1>10. Ranked(rank, seen')
  BY <1>2, <1>4, <1>8 DEF Ranked
<1>11. Ranked(rank, acts')
  <2>1. rank[acts[n].fn] < rank[new.fn]
    <3>1. Last(acts).pc \in DOMAIN prog.body[Last(acts).fn]
      BY <1>1, InstrProperties
    <3> QED BY <1>1, <1>3, <1>5, <3>1 DEF Layered, Instr
  <2>2. \A i \in 1..n : rank[acts[i].fn] \in Nat
    BY <1>4 DEF Layered
  <2>3. rank[new.fn] \in Nat
    <3>1. new.fn \in FnNames
      BY <1>3, <1>5 DEF Act, FnNames
    <3> QED BY <3>1 DEF Layered
  <2>4. \A i \in 1..n : rank[acts[i].fn] < rank[new.fn]
    <3> TAKE i \in 1..n
    <3>1. CASE i = n
      BY <2>1, <3>1
    <3>2. CASE i < n
      <4>1. rank[acts[i].fn] < rank[acts[n].fn]
        BY <1>3, <1>4, <1>8, <3>2 DEF Ranked
      <4>2. rank[acts[i].fn] \in Nat /\ rank[acts[n].fn] \in Nat
        BY <1>3, <2>2
      <4> QED BY <2>1, <2>3, <4>1, <4>2
    <3> QED BY <1>3, <3>1, <3>2
  <2> SUFFICES ASSUME NEW i \in 1..(n + 1), NEW j \in 1..(n + 1), i < j
               PROVE  rank[acts'[i].fn] < rank[acts'[j].fn]
    BY <1>7 DEF Ranked
  <2>5. i \in 1..n /\ acts'[i].fn = acts[i].fn
    BY <1>3, <1>6, <1>7
  <2>6. CASE j = n + 1
    BY <1>7, <2>4, <2>5, <2>6
  <2>7. CASE j \in 1..n
    <3>1. acts'[j].fn = acts[j].fn
      BY <1>6, <1>7, <2>7
    <3> QED BY <1>4, <1>8, <2>5, <2>7, <3>1 DEF Ranked
  <2> QED BY <1>3, <2>6, <2>7
<1>12. \A i \in 1..n : acts'[i].pc # 1
  <2> TAKE i \in 1..n
  <2>1. CASE i = n
    BY <1>3, <1>6, <1>7, <2>1
  <2>2. CASE i \in 1..(n - 1)
    <3>1. acts'[i] = acts[i]
      BY <1>6, <1>7, <2>2
    <3>2. acts[i].pc # 1
      BY <1>4, <1>8, <2>2 DEF Suspended
    <3> QED BY <3>1, <3>2
  <2> QED BY <1>3, <2>1, <2>2
<1>13. Suspended'
  BY <1>3, <1>7, <1>12 DEF Suspended
<1>14. Entered'
  <2>1. seen' # <<>> /\ Len(seen') = n
    BY <1>2, <1>3, <1>4
  <2>2. Agree(Len(seen))'
    BY <1>2, <1>4, <1>6, <1>7, <2>1 DEF Agree
  <2>3. acts'[Len(acts')].pc = 1 /\ acts'[Len(acts')].site = walk'.prev /\ walk'.prev > 0
    BY <1>2, <1>5, <1>7
  <2> QED BY <1>2, <1>7, <2>1, <2>2, <2>3 DEF Entered
<1> QED BY <1>9, <1>10, <1>11, <1>13, <1>14 DEF WalkInvariant

\* The innermost activation ends without a record.
LEMMA FallOffStep ==
    ASSUME NEW rank, TypeOK, WalkInvariant(rank), TypeOK', FallOffEnd
    PROVE  WalkInvariant(rank)'
<1> DEFINE n == Len(acts)
           m == Len(seen)
<1>1. acts # <<>> /\ acts' = Front(acts) /\ seen' = seen /\ walk' = walk
  BY DEF FallOffEnd
<1>2. /\ n \in Nat \ {0} /\ Len(acts') = n - 1
      /\ \A i \in 1..(n - 1) : acts'[i] = acts[i]
  BY <1>1, Innermost
<1>3. DOMAIN acts = 1..n /\ DOMAIN acts' = 1..(n - 1) /\ m \in Nat
  BY <1>2, LenProperties DEF TypeOK
<1>4. /\ FramesExact /\ Ranked(rank, acts) /\ Ranked(rank, seen) /\ Suspended
      /\ Unrecorded \/ Resumed \/ Entered
  BY DEF WalkInvariant
<1>5. FramesExact' /\ Ranked(rank, seen')
  BY <1>1, <1>4 DEF FramesExact
<1>6. Ranked(rank, acts')
  BY <1>2, <1>3, <1>4 DEF Ranked
<1>7. \A i \in 1..(n - 1) : acts'[i].pc # 1
  BY <1>2, <1>3, <1>4 DEF Suspended
<1>8. Suspended'
  BY <1>3, <1>7 DEF Suspended
<1>9. CASE Unrecorded
  <2>1. Len(acts') = 0
    BY <1>2, <1>9 DEF Unrecorded
  <2>2. acts' = <<>>
    BY <2>1, EmptySeq DEF TypeOK
  <2>3. Unrecorded'
    BY <1>1, <1>9, <2>1, <2>2 DEF Unrecorded
  <2> QED BY <1>5, <1>6, <1>8, <2>3 DEF WalkInvariant
<1>10. CASE Resumed \/ Entered
  <2>1. seen # <<>> /\ n - 1 <= m /\ \A i \in 1..(n - 1) : acts[i].fn = seen[i].fn /\ acts[i].site = seen[i].site
    <3>1. CASE Resumed
      BY <1>2, <1>3, <3>1 DEF Resumed, Agree
    <3>2. CASE Entered
      BY <1>2, <1>3, <3>2 DEF Entered, Agree
    <3> QED BY <1>10, <3>1, <3>2
  <2>2. Agree(Len(acts))'
    BY <1>1, <1>2, <2>1 DEF Agree
  <2>3. Resumed'
    BY <1>1, <1>2, <1>3, <1>7, <2>1, <2>2 DEF Resumed
  <2> QED BY <1>5, <1>6, <1>8, <2>3 DEF WalkInvariant
<1> QED BY <1>4, <1>9, <1>10

\* No activation is suspended and nothing is recorded when a run starts.
LEMMA WalkInvariantStarts ==
    ASSUME NEW rank, Layered(rank), Init
    PROVE  TypeOK /\ WalkInvariant(rank)
<1>1. TypeOK
  BY InitTypeOK
<1>2. Len(acts) = 1 /\ DOMAIN acts = {1} /\ acts[1].site = 0
  BY DEF Init
<1>3. Len(seen) = 0 /\ DOMAIN seen = {} /\ seen = <<>> /\ walk = EmptyWalk
  BY DEF Init
<1>4. FramesExact
  BY <1>3 DEF FramesExact, EmptyWalk
<1>5. Ranked(rank, acts) /\ Ranked(rank, seen) /\ Suspended
  BY <1>2, <1>3 DEF Ranked, Suspended
<1>6. Unrecorded
  BY <1>2, <1>3 DEF Unrecorded
<1> QED BY <1>1, <1>4, <1>5, <1>6 DEF WalkInvariant

\* The invariant is inductive.
LEMMA WalkInvariantStep ==
    ASSUME NEW rank, Layered(rank), TypeOK, WalkInvariant(rank), [Next]_vars
    PROVE  TypeOK' /\ WalkInvariant(rank)'
<1>1. TypeOK'
  BY TypeStep
<1>2. ASSUME NEW op, Trace(op), NEW pc \in Nat \ {0}, acts' = Advance(pc)
      PROVE  WalkInvariant(rank)'
  <2>1. acts # <<>> /\ seen' = Sites(acts) /\ walk'.stack = Sites(acts)
    BY <1>2, RecordStep
  <2>2. /\ Len(acts') = Len(acts) /\ Len(acts) \in Nat
        /\ \A i \in 1..(Len(acts) - 1) : acts'[i] = acts[i]
        /\ \A i \in 1..Len(acts) : acts'[i].fn = acts[i].fn /\ acts'[i].site = acts[i].site
    BY <1>2, <2>1, AdvanceProperties, Innermost
  <2>3. \A i \in 1..Len(acts') : i < Len(acts) => acts'[i].pc = acts[i].pc
    BY <2>2
  <2> QED BY <1>1, <2>1, <2>2, <2>3, ResumedStep
<1>3. CASE Plain
  <2>1. acts # <<>> /\ Last(acts).pc + 1 \in Nat \ {0}
    BY <1>3, Innermost DEF Plain, Trace, Act
  <2> QED BY <1>1, <1>2, <1>3, <2>1 DEF Plain
<1>4. CASE Branch
  <2>1. acts # <<>> /\ ~AtEnd(Last(acts)) /\ Instr(Last(acts)).op = "br"
    BY <1>4 DEF Branch, Trace
  <2>2. Instr(Last(acts)).to \union {Last(acts).pc + 1} \subseteq Nat \ {0}
    BY <2>1, InstrProperties, Innermost DEF Act
  <2> QED BY <1>1, <1>2, <1>4, <2>2 DEF Branch
<1>5. CASE Call
  BY <1>1, <1>5, EnteredStep
<1>6. CASE HostCall
  <2>1. acts # <<>> /\ Last(acts).pc + 1 \in Nat \ {0}
    BY <1>6, Innermost DEF HostCall, Trace, Act
  <2> QED BY <1>1, <1>2, <1>6, <2>1 DEF HostCall
<1>7. CASE Return
  <2>1. acts # <<>> /\ seen' = Sites(acts) /\ walk'.stack = Sites(acts) /\ acts' = Front(acts)
    BY <1>7, RecordStep DEF Return
  <2>2. /\ Len(acts') = Len(acts) - 1 /\ Len(acts) \in Nat
        /\ \A i \in 1..Len(acts') : acts'[i] = acts[i]
    BY <2>1, Innermost
  <2>3. Len(acts') <= Len(acts)
    BY <2>2
  <2> QED BY <1>1, <2>1, <2>2, <2>3, ResumedStep
<1>8. CASE FallOffEnd
  BY <1>1, <1>8, FallOffStep
<1>9. CASE Invisible \/ Foreign
  <2>1. acts' = acts /\ walk' = walk /\ seen' = seen
    BY <1>9, UnplacedStep
  <2> QED BY <1>1, <2>1 DEF WalkInvariant, FramesExact, Ranked, Suspended, Agree, Unrecorded,
                            Resumed, Entered
<1>10. CASE UNCHANGED vars
  BY <1>1, <1>10 DEF vars, WalkInvariant, FramesExact, Ranked, Suspended, Agree, Unrecorded,
                     Resumed, Entered
<1> QED BY <1>1, <1>3, <1>4, <1>5, <1>6, <1>7, <1>8, <1>9, <1>10 DEF Next

LEMMA WalkInvariantHolds ==
    ASSUME NEW rank, Layered(rank)
    PROVE  Spec => [](TypeOK /\ WalkInvariant(rank))
<1>1. Init => TypeOK /\ WalkInvariant(rank)
  BY WalkInvariantStarts
<1>2. TypeOK /\ WalkInvariant(rank) /\ [Next]_vars => (TypeOK /\ WalkInvariant(rank))'
  BY WalkInvariantStep
<1> QED BY <1>1, <1>2, PTL DEF Spec

\* Between two visible records the machine is on the stack that computeFrames
\* rebuilt, or at the first instruction of one call above it: for every ranking of
\* the functions that the calls follow, in every program and every trace.
THEOREM WalkAlwaysTracksMachine == Spec => []WalkTracksMachine
<1> DEFINE Inv == TypeOK /\ WalkTracksMachine
<1>1. Init => Inv
  BY InitTypeOK, WalkInvariantStarts DEF WalkTracksMachine, Ranks
<1>2. Inv /\ [Next]_vars => Inv'
  <2> SUFFICES ASSUME Inv, [Next]_vars PROVE TypeOK' /\ WalkTracksMachine'
    OBVIOUS
  <2>1. ASSUME NEW rank \in Ranks PROVE WalkInvariant(rank)'
    BY <2>1, WalkInvariantStep DEF WalkTracksMachine, Ranks
  <2> QED BY <2>1, TypeStep DEF WalkTracksMachine
<1> QED BY <1>1, <1>2, PTL DEF Spec

\* computeFrames is exact for every program without recursion: implicit
\* returns, tail host calls and invisible records neither lose a frame nor
\* leave one behind, however long the trace.
THEOREM FramesAreExact ==
    ASSUME NEW rank, Layered(rank)
    PROVE  Spec => []FramesExact
<1>1. WalkInvariant(rank) => FramesExact
  BY DEF WalkInvariant
<1> QED BY <1>1, WalkInvariantHolds, PTL

-----------------------------------------------------------------------------
(***************************************************************************)
(* The Callstack view.                                                     *)
(***************************************************************************)

\* Call sites are records before the last visible one.
SitesOld ==
    /\ walk.prev <= count
    /\ \A i \in 1..Len(walk.stack) : walk.stack[i].site < walk.prev

\* An instruction's record shows the true stack, which is the first frame, a frame
\* more or some frames fewer than was shown before.
LEMMA RecordView ==
    ASSUME NEW rank, Layered(rank), TypeOK, WalkInvariant(rank), SitesOld, NEW op, Trace(op)
    PROVE  View!Next \/ UNCHANGED walk.stack
<1> DEFINE n == Len(acts)
           m == Len(seen)
<1>1. acts # <<>> /\ walk'.stack = Sites(acts) /\ walk.stack = seen
  BY RecordStep DEF WalkInvariant, FramesExact
<1>2. /\ Sites(acts) \in Seq(Frame) /\ Len(Sites(acts)) = n /\ n \in Nat \ {0} /\ DOMAIN acts = 1..n
      /\ \A i \in 1..n : Sites(acts)[i].fn = acts[i].fn /\ Sites(acts)[i].site = acts[i].site
  BY <1>1, SitesOfActs, Innermost
<1>3. seen \in Seq(Frame) /\ m \in Nat /\ DOMAIN seen = 1..m
  BY LenProperties DEF TypeOK
<1>4. CASE Unrecorded
  <2>1. seen = <<>> /\ n = 1 /\ acts[1].site = 0
    BY <1>2, <1>4 DEF Unrecorded
  <2> QED BY <2>1, <1>1, <1>2 DEF View!Next, View!Begin
<1>5. CASE Resumed
  <2>1. n \in 0..m /\ \A i \in 1..n : acts[i].fn = seen[i].fn /\ acts[i].site = seen[i].site
    BY <1>2, <1>3, <1>5 DEF Resumed, Agree
  <2>2. /\ SubSeq(seen, 1, n) \in Seq(Frame) /\ Len(SubSeq(seen, 1, n)) = n
        /\ \A i \in 1..n : SubSeq(seen, 1, n)[i] = seen[i]
    BY <1>3, <2>1, PrefixProperties
  <2>3. Sites(acts) = SubSeq(seen, 1, n)
    BY <1>2, <2>1, <2>2, SameFrames
  <2>4. CASE n = m
    <3>1. SubSeq(seen, 1, n) = seen
      BY <1>3, <2>4, SubSeqFull
    <3> QED BY <3>1, <2>3, <1>1
  <2>5. CASE n # m
    <3>1. Len(walk.stack) = m
      BY <1>1
    <3>2. n \in 1..(Len(walk.stack) - 1)
      <4> HIDE DEF n, m
      <4> QED BY <3>1, <2>1, <2>5, <1>2, <1>3
    <3>3. walk'.stack = SubSeq(walk.stack, 1, n)
      BY <2>3, <1>1
    <3> QED BY <3>2, <3>3 DEF View!Next, View!Leave
  <2> QED BY <2>4, <2>5
<1>6. CASE Entered
  <2>1. /\ seen # <<>> /\ n = m + 1 /\ acts[n].site = walk.prev
        /\ \A i \in 1..m : acts[i].fn = seen[i].fn /\ acts[i].site = seen[i].site
    BY <1>6 DEF Entered, Agree
  <2>2. /\ SubSeq(Sites(acts), 1, m) \in Seq(Frame) /\ Len(SubSeq(Sites(acts), 1, m)) = m
        /\ \A i \in 1..m : SubSeq(Sites(acts), 1, m)[i] = Sites(acts)[i]
    <3>1. m \in 0..Len(Sites(acts))
      BY <1>2, <1>3, <2>1
    <3> QED BY <3>1, <1>2, PrefixProperties
  <2>3. seen = SubSeq(Sites(acts), 1, m)
    <3>1. \A i \in 1..m : /\ seen[i].fn = SubSeq(Sites(acts), 1, m)[i].fn
                           /\ seen[i].site = SubSeq(Sites(acts), 1, m)[i].site
      BY <1>2, <1>3, <2>1, <2>2
    <3> QED BY <3>1, <1>3, <2>2, SameFrames
  <2>4. \A i \in DOMAIN walk.stack : walk.stack[i].site < walk'.stack[Len(walk'.stack)].site
    <3>1. walk'.stack[Len(walk'.stack)].site = walk.prev
      BY <1>1, <1>2, <1>3, <2>1
    <3> QED BY <3>1, <1>1, <1>3 DEF SitesOld
  <2> QED BY <1>1, <1>2, <2>1, <2>3, <2>4 DEF View!Next, View!Enter
<1> QED BY <1>4, <1>5, <1>6 DEF WalkInvariant

LEMMA SitesStayOld ==
    ASSUME NEW rank, Layered(rank), TypeOK, WalkInvariant(rank), SitesOld, [Next]_vars
    PROVE  SitesOld'
<1>1. ASSUME NEW op, Trace(op) PROVE SitesOld'
  <2>1. /\ acts # <<>> /\ walk'.stack = Sites(acts) /\ walk.stack = seen
        /\ walk'.prev = count + 1 /\ count \in Nat
    BY <1>1, RecordStep DEF WalkInvariant, FramesExact
  <2>2. count' = count + 1
    BY <1>1 DEF Trace, Emit
  <2>3. /\ Len(Sites(acts)) = Len(acts) /\ Len(acts) \in Nat
        /\ \A i \in 1..Len(acts) : Sites(acts)[i].site = acts[i].site
    BY SitesOfActs
  <2>4. walk.prev \in Nat /\ seen \in Seq(Frame) /\ Len(seen) \in Nat
    BY LenProperties DEF TypeOK
  <2>5. ASSUME NEW i \in 1..Len(acts) PROVE acts[i].site < count + 1
    <3>1. CASE Unrecorded
      BY <2>1, <2>3, <3>1 DEF Unrecorded
    <3>2. CASE Resumed
      <4>1. i \in 1..Len(seen) /\ acts[i].site = seen[i].site
        BY <2>3, <2>4, <3>2 DEF Resumed, Agree
      <4>2. seen[i].site \in Nat
        <5>1. seen[i] \in Frame
          BY <4>1, <2>4, ElementOfSeq
        <5> QED BY <5>1 DEF Frame
      <4> QED BY <2>1, <2>4, <4>1, <4>2 DEF SitesOld
    <3>3. CASE Entered
      <4>1. CASE i = Len(acts)
        BY <2>1, <2>4, <3>3, <4>1 DEF Entered, SitesOld
      <4>2. CASE i # Len(acts)
        <5>1. i \in 1..Len(seen) /\ acts[i].site = seen[i].site
          BY <2>3, <2>4, <3>3, <4>2 DEF Entered, Agree
        <5>2. seen[i].site \in Nat
          <6>1. seen[i] \in Frame
            BY <5>1, <2>4, ElementOfSeq
          <6> QED BY <6>1 DEF Frame
        <5> QED BY <2>1, <2>4, <5>1, <5>2 DEF SitesOld
      <4> QED BY <4>1, <4>2
    <3> QED BY <3>1, <3>2, <3>3 DEF WalkInvariant
  <2> QED BY <2>1, <2>2, <2>3, <2>5 DEF SitesOld
<1>2. CASE FallOffEnd
  BY <1>2 DEF FallOffEnd, SitesOld
<1>3. CASE Invisible \/ Foreign
  <2>1. count' = count + 1 /\ walk' = walk /\ count \in Nat /\ walk.prev \in Nat
    BY <1>3, UnplacedStep DEF TypeOK
  <2> QED BY <2>1 DEF SitesOld
<1>4. CASE UNCHANGED vars
  BY <1>4 DEF vars, SitesOld
<1> QED BY <1>1, <1>2, <1>3, <1>4 DEF Next, Plain, Branch, Call, HostCall, Return

\* For every program without recursion, the reconstruction implements the stack that
\* the Callstack view promises: it changes by calls and returns only, and no frame
\* ever changes the function it is of.
THEOREM WalkImplementsView ==
    ASSUME NEW rank, Layered(rank)
    PROVE  Spec => ImplementsActivationStack
<1> DEFINE Inv == TypeOK /\ WalkInvariant(rank)
<1>1. Init => SitesOld /\ View!Init
  BY DEF Init, EmptyWalk, SitesOld, View!Init
<1>2. Inv /\ SitesOld /\ [Next]_vars => SitesOld'
  BY SitesStayOld
<1>3. Inv /\ SitesOld /\ [Next]_vars => [View!Next]_(walk.stack)
  <2> SUFFICES ASSUME Inv, SitesOld, [Next]_vars
               PROVE  View!Next \/ UNCHANGED walk.stack
    OBVIOUS
  <2>1. ASSUME NEW op, Trace(op) PROVE View!Next \/ UNCHANGED walk.stack
    BY <2>1, RecordView
  <2>2. CASE FallOffEnd \/ Invisible \/ Foreign \/ UNCHANGED vars
    BY <2>2, UnplacedStep DEF FallOffEnd, vars
  <2> QED BY <2>1, <2>2 DEF Next, Plain, Branch, Call, HostCall, Return
<1>4. Spec => []Inv
  BY WalkInvariantHolds
<1> HIDE DEF Inv
<1> QED BY <1>1, <1>2, <1>3, <1>4, PTL DEF Spec, ImplementsActivationStack, View!Spec

-----------------------------------------------------------------------------
(***************************************************************************)
(* The opcode fallback.                                                    *)
(***************************************************************************)

\* Above the frames of the activations, the fallback has a frame for every `return`
\* that another contract may still record.
GuestsCovered == Len(opStack) >= Len(acts) + guest

\* What one record does to the depth of the fallback.
LEMMA OpcodeRecord ==
    ASSUME TypeOK, NEW r, Emit(r)
    PROVE  /\ Len(opStack) \in Nat \ {0} /\ guest' = GuestAfter(r)
           /\ Len(opStack') = IF r.op \in CallOps THEN Len(opStack) + 1
                              ELSE IF r.op = "return" /\ Len(opStack) > 1 THEN Len(opStack) - 1
                              ELSE Len(opStack)
<1>1. opStack' = OpcodeStep(opStack, count + 1, r) /\ guest' = GuestAfter(r)
  BY DEF Emit
<1>2. opStack \in Seq(Nat) /\ opStack # <<>> /\ count + 1 \in Nat
  BY DEF TypeOK
<1>3. Len(opStack) \in Nat \ {0}
  BY <1>2, EmptySeq, LenProperties
<1> QED BY <1>1, <1>2, <1>3, OpcodeStepType

\* What an instruction of the contract does to it: the guest of an earlier host call
\* is gone, and only a host call may have another.
LEMMA InstructionDepth ==
    ASSUME TypeOK, NEW op, Trace(op)
    PROVE  /\ acts # <<>> /\ Len(opStack) \in Nat \ {0}
           /\ guest' = IF op = "host" THEN 1 ELSE 0
           /\ Len(opStack') = IF op \in CallOps THEN Len(opStack) + 1
                              ELSE IF op = "return" /\ Len(opStack) > 1 THEN Len(opStack) - 1
                              ELSE Len(opStack)
<1>1. PICK r : Emit(r) /\ r.op = op /\ r.vis = TRUE /\ acts # <<>>
  BY TraceEmits
<1>2. guest' = IF op = "host" THEN 1 ELSE 0
  BY <1>1 DEF Emit, GuestAfter
<1> QED BY <1>1, <1>2, OpcodeRecord

\* Every other contract's `return` takes a frame that its own call or the host call put there.
LEMMA GuestDepth ==
    ASSUME TypeOK, GuestsCovered, Invisible \/ Foreign
    PROVE  GuestsCovered'
<1>1. acts' = acts /\ Len(acts) \in Nat /\ guest \in Nat
  BY UnplacedStep, LenProperties DEF TypeOK
<1>2. PICK r : Emit(r) /\ r.vis = FALSE /\ (r.op = "none" \/ guest > 0)
  BY UnplacedStep
<1>3. /\ Len(opStack) \in Nat \ {0} /\ guest' = GuestAfter(r)
      /\ Len(opStack') = IF r.op \in CallOps THEN Len(opStack) + 1
                         ELSE IF r.op = "return" /\ Len(opStack) > 1 THEN Len(opStack) - 1
                         ELSE Len(opStack)
  BY <1>2, OpcodeRecord
<1> QED BY <1>1, <1>2, <1>3 DEF GuestsCovered, GuestAfter, CallOps

\* The fallback never loses a frame, whatever the program does, recursion included, and
\* whatever calls and returns other contracts record while a host call runs: a frame too
\* shallow would let step over stop inside a callee.
THEOREM FallbackNeverShallow == Spec => []OpcodeNeverShallow
<1>1. Init => TypeOK /\ GuestsCovered
  <2> SUFFICES ASSUME Init PROVE GuestsCovered
    BY InitTypeOK
  <2>1. Len(acts) = 1 /\ Len(opStack) = 1 /\ guest = 0
    BY DEF Init
  <2> QED BY <2>1 DEF GuestsCovered
<1>2. TypeOK /\ GuestsCovered /\ [Next]_vars => (TypeOK /\ GuestsCovered)'
  <2> SUFFICES ASSUME TypeOK, GuestsCovered, [Next]_vars PROVE GuestsCovered'
    BY TypeStep
  <2>1. /\ Len(opStack) >= Len(acts) + guest
        /\ Len(opStack) \in Nat /\ Len(acts) \in Nat /\ guest \in Nat
    BY LenProperties DEF GuestsCovered, TypeOK
  <2>2. ASSUME NEW op, Trace(op), op \in {"plain", "br", "host"}, NEW pc \in Nat \ {0},
               acts' = Advance(pc)
        PROVE  GuestsCovered'
    <3>1. /\ acts # <<>> /\ guest' = IF op = "host" THEN 1 ELSE 0
          /\ Len(opStack') = IF op = "host" THEN Len(opStack) + 1 ELSE Len(opStack)
      BY <2>2, InstructionDepth DEF CallOps
    <3>2. Len(acts') = Len(acts)
      BY <2>2, <3>1, AdvanceProperties
    <3> QED BY <2>1, <3>1, <3>2 DEF GuestsCovered
  <2>3. CASE Plain
    <3>1. acts # <<>> /\ Last(acts).pc + 1 \in Nat \ {0}
      BY <2>3, Innermost DEF Plain, Trace, Act
    <3> QED BY <2>2, <2>3, <3>1 DEF Plain
  <2>4. CASE Branch
    <3>1. acts # <<>> /\ ~AtEnd(Last(acts)) /\ Instr(Last(acts)).op = "br"
      BY <2>4 DEF Branch, Trace
    <3>2. Instr(Last(acts)).to \union {Last(acts).pc + 1} \subseteq Nat \ {0}
      BY <3>1, InstrProperties, Innermost DEF Act
    <3> QED BY <2>2, <2>4, <3>2 DEF Branch
  <2>5. CASE Call
    <3> DEFINE new == [fn |-> Instr(Last(acts)).to, pc |-> 1, site |-> count + 1]
               base == Advance(Last(acts).pc + 1)
    <3>1. acts # <<>> /\ Len(opStack') = Len(opStack) + 1 /\ guest' = 0
      BY <2>5, InstructionDepth DEF Call, CallOps
    <3>2. ~AtEnd(Last(acts)) /\ Instr(Last(acts)).op = "call" /\ Last(acts).pc + 1 \in Nat \ {0}
      <4>1. ~AtEnd(Last(acts)) /\ Instr(Last(acts)).op = "call"
        BY <2>5 DEF Call, Trace
      <4>2. Last(acts).pc + 1 \in Nat \ {0}
        BY <3>1, Innermost DEF Act
      <4> QED BY <4>1, <4>2
    <3>3. new \in Act(prog) /\ base \in Seq(Act(prog)) /\ Len(base) = Len(acts)
      <4>1. Instr(Last(acts)).to \in DOMAIN prog.body /\ count \in Nat
        BY <3>1, <3>2, InstrProperties DEF TypeOK
      <4>2. new \in Act(prog)
        BY <4>1 DEF Act
      <4> QED BY <3>1, <3>2, <4>2, AdvanceProperties
    <3>4. acts' = Append(base, new)
      BY <2>5 DEF Call
    <3> HIDE DEF base, new
    <3>5. Len(acts') = Len(acts) + 1
      BY <3>3, <3>4, AppendProperties
    <3> QED BY <2>1, <3>1, <3>5 DEF GuestsCovered
  <2>6. CASE HostCall
    <3>1. acts # <<>> /\ Last(acts).pc + 1 \in Nat \ {0}
      BY <2>6, Innermost DEF HostCall, Trace, Act
    <3> QED BY <2>2, <2>6, <3>1 DEF HostCall
  <2>7. CASE Return
    <3>1. /\ acts # <<>> /\ Len(opStack) \in Nat \ {0} /\ guest' = 0
          /\ Len(opStack') = IF Len(opStack) > 1 THEN Len(opStack) - 1 ELSE Len(opStack)
      BY <2>7, InstructionDepth DEF Return, CallOps
    <3>2. Len(acts') = Len(acts) - 1
      BY <2>7, <3>1, Innermost DEF Return
    <3> QED BY <2>1, <3>1, <3>2 DEF GuestsCovered
  <2>8. CASE FallOffEnd
    <3>1. Len(acts') = Len(acts) - 1 /\ opStack' = opStack /\ guest' = 0
      BY <2>8, Innermost DEF FallOffEnd
    <3> QED BY <2>1, <3>1 DEF GuestsCovered
  <2>9. CASE Invisible \/ Foreign
    BY <2>9, GuestDepth
  <2>10. CASE UNCHANGED vars
    BY <2>10 DEF vars, GuestsCovered
  <2> QED BY <2>3, <2>4, <2>5, <2>6, <2>7, <2>8, <2>9, <2>10 DEF Next
<1>3. TypeOK /\ GuestsCovered => OpcodeNeverShallow
  <2> SUFFICES ASSUME TypeOK, GuestsCovered PROVE OpcodeNeverShallow
    OBVIOUS
  <2>1. Len(opStack) \in Nat /\ Len(acts) \in Nat /\ guest \in Nat
    BY LenProperties DEF TypeOK
  <2> QED BY <2>1 DEF GuestsCovered, OpcodeNeverShallow
<1> QED BY <1>1, <1>2, <1>3, PTL DEF Spec
=============================================================================
