---------------------------- MODULE MCRingBuffer ----------------------------
(***************************************************************************)
(* RingBuffer for TLC: one reader (readers share nothing, so a second one  *)
(* adds no interleaving a property can see), or two where that is checked. *)
(***************************************************************************)
EXTENDS RingBuffer

=============================================================================
