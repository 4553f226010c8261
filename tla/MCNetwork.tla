----------------------------- MODULE MCNetwork -----------------------------
(***************************************************************************)
(* Network for TLC: a few connections, a few numbers.                      *)
(***************************************************************************)
EXTENDS Network

CONSTANTS c1, c2

\* The first number that main's other files leave, and those after it.
MCFd == 4 .. 7
=============================================================================
