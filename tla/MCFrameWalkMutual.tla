------------------------- MODULE MCFrameWalkMutual -------------------------
(***************************************************************************)
(* Mutual recursion through a tail call: `a` calls `b`, and `b` ends by    *)
(* calling `a` again.                                                      *)
(***************************************************************************)
EXTENDS FrameWalk

Ins(op, to) == [op |-> op, to |-> to, line |-> 0]

MCPrograms == {[entry |-> "a", body |->
    ("a" :> <<Ins("br", {3}), Ins("call", "b"), Ins("plain", {})>>
        @@ "b" :> <<Ins("call", "a")>>)]}

\* "Mutual recursion (A -> B -> A) is handled, because the identities differ":
\* an activation that returns uncovers its own caller's frame
\* (docs/stepping.md, known limitations of depth reconstruction).
MutualRecursionHandled == FramesExact

=============================================================================
