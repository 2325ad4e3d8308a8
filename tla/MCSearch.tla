------------------------------- MODULE MCSearch -------------------------------
(* Search for TLC.                                                         *)
EXTENDS Search
===============================================================================
