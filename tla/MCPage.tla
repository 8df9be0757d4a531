------------------------------- MODULE MCPage -------------------------------
(* Instances of Page for TLC: the card of one job and its retry, whose own    *)
(* job lives as any other does; two threads whose native calls may stick, in  *)
(* a process that may crash once.                                             *)
EXTENDS Page
=============================================================================
