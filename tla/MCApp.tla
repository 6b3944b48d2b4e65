------------------------------- MODULE MCApp -------------------------------
(* The instance of App for TLC: as many listings could be in flight as     *)
(* there are names for them, and two are enough for them to overtake.      *)
EXTENDS App

CONSTANTS f1, f2

TwoFlights == {f1, f2}
============================================================================
