------------------------------ MODULE NoValue ------------------------------
(* The value of what is not there: a row that does not exist, a nil. Modules *)
(* that are extended together share it.                                      *)
CONSTANT None
=============================================================================
