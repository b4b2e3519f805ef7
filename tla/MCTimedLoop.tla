---------------------------- MODULE MCTimedLoop ----------------------------
(***************************************************************************)
(* Three clock units to a microsecond, two microseconds to a second:       *)
(* waits of whole and of broken microseconds, of less than one, of more    *)
(* than a second, and of exactly one.                                      *)
(***************************************************************************)
EXTENDS TimedLoop
=============================================================================
