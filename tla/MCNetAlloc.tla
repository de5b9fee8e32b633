----------------------------- MODULE MCNetAlloc -----------------------------
(* A /29: offsets 0..7, of which 2..7 can be handed out. *)
EXTENDS NetAlloc
=============================================================================
