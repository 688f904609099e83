-------------------------- MODULE ActivationStack --------------------------
(***************************************************************************)
(* What the Callstack view promises (docs/callstack.md, C1): a stack of    *)
(* activations that changes by calls and returns only.  A call puts one    *)
(* new frame on top, created by a record younger than every other frame;   *)
(* a return uncovers a frame that was there before.  No frame ever changes *)
(* its function.  computeFrames (FrameWalk) implements this specification. *)
(***************************************************************************)
EXTENDS Integers, Sequences

VARIABLE frames     \* <<[fn, site], ...>>, outermost first

Init == frames = <<>>

\* The first visible record establishes the outermost frame.
Begin == frames = <<>> /\ Len(frames') = 1 /\ frames'[1].site = 0

Enter ==
    /\ frames # <<>>
    /\ Len(frames') = Len(frames) + 1
    /\ frames = SubSeq(frames', 1, Len(frames))
    /\ \A i \in DOMAIN frames : frames[i].site < frames'[Len(frames')].site

Leave == \E k \in 1..(Len(frames) - 1) : frames' = SubSeq(frames, 1, k)

Next == Begin \/ Enter \/ Leave

Spec == Init /\ [][Next]_frames

=============================================================================
