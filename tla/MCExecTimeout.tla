--------------------------- MODULE MCExecTimeout ---------------------------
(* Instance of ExecTimeout for TLC.  A duration holds seven seconds: no    *)
(* limit, the default, limits that fit, one whose grace does not, and two  *)
(* that wrap around, to less than zero and to a fraction of a second.      *)
EXTENDS ExecTimeout

AskedSeconds == {-1, 0, 1, 2, 6, 8, 15}
============================================================================
