----------------------------- MODULE MCCalendar -----------------------------
(***************************************************************************)
(* Calendar with months of two seconds and a limit of 2, for periods on    *)
(* both sides of every case of reset_period.                               *)
(***************************************************************************)
EXTENDS Calendar

MCMultiples == {0, 1, 2, 11, 12, 13, 24, 25, 36, 255, 256, 257, 267, 268, 65535}
=============================================================================
