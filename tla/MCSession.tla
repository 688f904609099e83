----------------------------- MODULE MCSession -----------------------------
(***************************************************************************)
(* Three recordings, written as a program writes them: every record with   *)
(* the source frames of its activations.  What the debugger reads of a     *)
(* record is derived from that the way a compiler and the node do.         *)
(***************************************************************************)
EXTENDS Session, TLC

Main(line) == [id |-> "main", fn |-> <<"f", 1>>, site |-> 0, frames |-> <<<<<<"main">>, line>>>>]
Wrapped == [id |-> "main", fn |-> <<"f", 1>>, site |-> 0, frames |-> <<<<<<"main">>, 2>>, <<<<"wrap">>, 6>>>>]
Helper(id, site, line) == [id |-> id, fn |-> <<"f", 2>>, site |-> site, frames |-> <<<<<<"helper">>, line>>>>]
Inlined(id, site) == [id |-> id, fn |-> <<"f", 2>>, site |-> site,
                      frames |-> <<<<<<"helper">>, 9>>, <<<<"outer">>, 5>>, <<<<"get">>, 21>>>>]
Bare == [id |-> "main", fn |-> <<>>, site |-> 0, frames |-> <<<<<<>>, 0>>>>]

Frames(acts) == Last(acts).frames
Record(pos, acts) ==
    [pos |-> pos, true |-> acts, depth |-> Len(acts) - 1, calls |-> IF Last(acts) = Bare THEN <<>> ELSE <<"run">>,
     line |-> IF pos = <<>> THEN 0 ELSE Last(Frames(acts))[2],
     stack |-> IF Last(acts) = Bare THEN <<>> ELSE [k \in DOMAIN acts |-> [fn |-> acts[k].fn, site |-> acts[k].site]]]

\* The root contract is called, main calls helper from a call that was inlined into
\* it, an event is recorded meanwhile, and main returns through code without a line.
Returning == <<Record(<<>>, <<Main(1)>>), Record(<<1, 0>>, <<Main(1)>>), Record(<<1, 1>>, <<Wrapped>>),
               Record(<<2, 0>>, <<Wrapped, Helper("helper", 3, 8)>>), Record(<<>>, <<Wrapped, Helper("helper", 3, 8)>>),
               Record(<<2, 1>>, <<Wrapped, Inlined("helper", 3)>>), Record(<<1, 3>>, <<Main(0)>>)>>

\* helper calls itself and traps.
Recursive == <<Record(<<1, 1>>, <<Wrapped>>), Record(<<2, 0>>, <<Wrapped, Helper("one", 1, 8)>>),
               Record(<<2, 1>>, <<Wrapped, Inlined("one", 1)>>),
               Record(<<2, 0>>, <<Wrapped, Inlined("one", 1), Helper("two", 3, 8)>>)>>

\* Nothing is known of the code.
Stripped == <<Record(<<3, 0>>, <<Bare>>), Record(<<3, 1>>, <<Bare>>)>>

MCRecordings == [file |-> {Returning, Recursive}, live |-> {Stripped}]

Written == UNION {ToSet(r) : r \in {Returning, Recursive, Stripped}}
Placed == {r.pos : r \in Written} \ {<<>>}
At(pos) == CHOOSE r \in Written : r.pos = pos
MCInfo ==
    [names |-> [pos \in Placed |-> Frames(At(pos).true)[1][1]],
     inlines |-> [pos \in Placed |->
        LET fs == Frames(At(pos).true)
        IN  [k \in 1..(Len(fs) - 1) |-> [name |-> fs[k + 1][1], callSite |-> fs[k][2]]]]]

Line(role, file) == [role |-> role, workspace |-> file = "lib.rs", file |-> file]
MCSource == 1 :> Line("signature", "lib.rs") @@ 6 :> Line("statement", "lib.rs") @@ 8 :> Line("statement", "lib.rs")
              @@ 9 :> Line("statement", "lib.rs") @@ 21 :> Line("statement", "core.rs")
MCNormalize == "lib.rs" :> "lib.rs" @@ "./lib.rs" :> "lib.rs"
MCRequests == [lines |-> {{}, {2, 7}}, addresses |-> {{<<2, 1>>, <<9, 9>>}}]

-----------------------------------------------------------------------------
Deploy(id) == [kind |-> "deploy", id |-> id, wasm |-> "w", contract |-> Absent, function |-> Absent, args |-> {}]
Call(id, contract, args) == [kind |-> "invoke", id |-> id, wasm |-> Absent, contract |-> contract, function |-> "f", args |-> args]
Config(transactions, by, n, id) == [transactions |-> transactions, trace |-> [by |-> by, n |-> n, id |-> id]]

MCConfigs ==
    {Config(<<Deploy("a"), Call(Absent, "a", {}), Call(Absent, "a", {})>>, "none", 0, Absent),
     Config(<<Deploy("a"), Call("x", "a", {}), Call("x", "a", {})>>, "string", 0, "x"),
     Config(<<Deploy("a"), Deploy("b"), Call("last", "b", {"a"}), Call(Absent, "b", {})>>, "string", 0, "last"),
     Config(<<Deploy("a"), Call(Absent, "a", {})>>, "index", 0, Absent),
     Config(<<Deploy("a"), Call(Absent, "a", {"b"}), Deploy("b")>>, "none", 0, Absent),
     Config(<<>>, "none", 0, Absent),
     Config(<<Deploy("a"), Deploy("a")>>, "none", 0, Absent),
     Config(<<Call(Absent, "a", {}), Deploy("a")>>, "none", 0, Absent),
     Config(<<Deploy("a")>>, "index", 1, Absent),
     Config(<<Deploy("a")>>, "string", 0, "z"),
     Config(<<Deploy(Absent)>>, "none", 0, Absent)}

\* The hypothesis of the theorems about the stack shown.
ASSUME MCFaithful == RecordingsFaithful

=============================================================================
