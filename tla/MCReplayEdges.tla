---------------------------- MODULE MCReplayEdges ---------------------------
(***************************************************************************)
(* A program at the edge of the stop model: two calls on one source line.  *)
(***************************************************************************)
EXTENDS Replay

Ins(op, to, line) == [op |-> op, to |-> to, line |-> line]
Plain_(line) == Ins("plain", {}, line)
CallOf(f, line) == Ins("call", f, line)

TwoFunctions(a, f, g) ==
    [entry |-> "a", body |-> ("a" :> a @@ "f" :> f @@ "g" :> g)]

\* `let x = f(1) + g(2)` on line 3: f is a one-line function (line 6), and g has
\* a signature (line 5) and a body (line 7).
SiblingPrograms == {TwoFunctions(<<Plain_(2), CallOf("f", 3), CallOf("g", 3), Plain_(4)>>,
                                 <<Plain_(6), Plain_(6)>>,
                                 <<Plain_(5), Plain_(7)>>)}

MCSource == [line \in 1..9 |->
    [role |-> IF line \in {2, 5, 6} THEN "signature" ELSE "statement",
     workspace |-> line # 9]]

MCRequests == {NoRequest}

\* "A signature is kept only when it is the sole run start of its frame", and
\* "filtering never empties a frame": f's signature is its frame's sole run
\* start (stops.ts, S17 exception; docs/stepping.md).
SoleSignatureKept == FilterKeepsFrames

=============================================================================
