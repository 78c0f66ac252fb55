----------------------------- MODULE MCCapture -----------------------------
(* Small instances of Capture for TLC. *)
EXTENDS CaptureSafety, MCChain

OneHeight == {[start |-> 2, end |-> 2]}
TwoHeights == {[start |-> 1, end |-> 2]}
Nested == OneHeight \cup TwoHeights
=============================================================================
