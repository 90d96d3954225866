---------------------------- MODULE MCDlogWriter ----------------------------
(***************************************************************************)
(* DlogWriter for TLC: a configuration file cannot hold a negative number. *)
(***************************************************************************)
EXTENDS DlogWriter

(* A level between the priorities of DEBUG and ERROR, and a negative one. *)
WarnOrNegative == {DLOG_WARN, -1}
=============================================================================
