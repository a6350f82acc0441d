------------------------------ MODULE MCHwClock ------------------------------
(***************************************************************************)
(* A chip with 12 counts a second and bytes of 4 values: the divisors 12,  *)
(* 6 and 4 need the high byte, and sums below, at and above a second, here *)
(* 48 nanoseconds, occur.                                                  *)
(***************************************************************************)
EXTENDS HwClock

SomeTimes == [sec : {0, 1}, nsec : {0, 1, 8, 47}]
=============================================================================
