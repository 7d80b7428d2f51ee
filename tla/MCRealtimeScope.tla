--------------------------- MODULE MCRealtimeScope ---------------------------
(* Instance of RealtimeScope for TLC: one channel, of two widths, and a ring
   that holds two frames of the narrow one or one of the wide one. *)
EXTENDS RealtimeScope
=============================================================================
