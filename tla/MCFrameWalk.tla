---------------------------- MODULE MCFrameWalk ----------------------------
(***************************************************************************)
(* Every program of three functions a -> b -> c whose bodies are at most   *)
(* three and two instructions long, over a leaf c that ends implicitly, in *)
(* a tail host call or in a `return`.                                      *)
(***************************************************************************)
EXTENDS FrameWalk

Ins(op, to) == [op |-> op, to |-> to, line |-> 0]
SeqsUpTo(S, n) == UNION {[1..k -> S] : k \in 1..n}

BodyC == {<<Ins("plain", {})>>, <<Ins("host", {})>>, <<Ins("plain", {}), Ins("host", {})>>,
          <<Ins("host", {}), Ins("return", {})>>}
BodyB == SeqsUpTo({Ins("plain", {}), Ins("call", "c"), Ins("return", {})}, 2)
BodyA == [1..3 -> {Ins("plain", {}), Ins("call", "b"), Ins("call", "c")}]
            \union {<<Ins("plain", {}), Ins("return", {})>>,
                    <<Ins("call", "b"), Ins("br", {1, 3}), Ins("call", "c")>>,
                    <<Ins("call", "c"), Ins("br", {1}), Ins("return", {})>>}

MCPrograms == {[entry |-> "a", body |-> ("a" :> a @@ "b" :> b @@ "c" :> c)] :
                  a \in BodyA, b \in BodyB, c \in BodyC}

MCRank == "a" :> 0 @@ "b" :> 1 @@ "c" :> 2
ASSUME MCLayered == MCRank \in Ranks

=============================================================================
