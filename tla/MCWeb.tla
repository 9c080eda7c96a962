------------------------------- MODULE MCWeb -------------------------------
(* A small instance of WebDatabase for TLC: two pages, and statements that *)
(* change the first or both.                                               *)
EXTENDS WebDatabase

TwoPages   == 1..2
OneOrBoth  == {{1}, {1, 2}}
=============================================================================
