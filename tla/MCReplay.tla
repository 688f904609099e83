------------------------------ MODULE MCReplay ------------------------------
(***************************************************************************)
(* A contract of three functions: `a` (lines 1 to 5) calls `b` (lines 6 to *)
(* 8) and a library function `c` (line 9), from lines of their own, and a  *)
(* function `e` that no line maps; 0 is no line.  Bodies loop, end         *)
(* implicitly, in a return or in a host call; one body of `b` begins with  *)
(* library code that was inlined into it.                                  *)
(***************************************************************************)
EXTENDS Replay

Ins(op, to, line) == [op |-> op, to |-> to, line |-> line]
Plain_(line) == Ins("plain", {}, line)
Host_(line) == Ins("host", {}, line)
CallOf(f, line) == Ins("call", f, line)
Jump(to, line) == Ins("br", to, line)

BodyA == {
    <<Plain_(2), CallOf("b", 3), Plain_(3), CallOf("c", 4), Plain_(5)>>,
    <<Plain_(1), CallOf("b", 3), Jump({1, 2}, 3), Plain_(5)>>,
    <<CallOf("c", 3), Plain_(5), CallOf("b", 4), Host_(1)>>,
    <<CallOf("e", 0), CallOf("b", 4)>>}

BodyB == {
    <<Plain_(6)>>,
    <<Plain_(6), Plain_(7), Ins("return", {}, 8)>>,
    <<Plain_(9), Plain_(7)>>,
    <<Plain_(0), CallOf("c", 7), Host_(8)>>,
    <<Plain_(0)>>}

BodyC == {<<Plain_(9), Host_(9)>>}

MCPrograms ==
    {[entry |-> "a", body |-> ("a" :> a @@ "b" :> b @@ "c" :> c @@ "e" :> <<Plain_(0)>>)] :
        a \in BodyA, b \in BodyB, c \in BodyC}
    \union {[entry |-> "d", body |-> ("d" :> <<CallOf("e", 0), Host_(0)>> @@ "e" :> <<Plain_(0)>>)]}

\* The last program has no debug information; calls follow a rank.
ASSUME MCCallsHaveLines == CallsHaveLines({"d", "e"})
ASSUME MCCallsAlone == CallsAlone
ASSUME MCOwnCode == OwnCode
ASSUME MCLayered == Layered("a" :> 0 @@ "b" :> 1 @@ "c" :> 2 @@ "d" :> 0 @@ "e" :> 1)

MCSource == [line \in 1..9 |->
    [role |-> CASE line = 1 -> "attribute"
                [] line \in {2, 6} -> "signature"
                [] line \in {5, 8} -> "brace"
                [] OTHER -> "statement",
     workspace |-> line # 9]]

MCRequests == {
    [lines |-> {2, 7}, addrs |-> {}],
    [lines |-> {3, 5}, addrs |-> {}],
    [lines |-> {9}, addrs |-> {<<"b", 1>>}]}

=============================================================================
