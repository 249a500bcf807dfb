---------------------------- MODULE MCSessions ----------------------------
(* Two users and two requests at a time.  No symmetry: a run checks        *)
(* liveness.                                                               *)
EXTENDS Sessions
=============================================================================
