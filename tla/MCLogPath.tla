---- MODULE MCLogPath ----
(***************************************************************************)
(* A small instance of LogPath for TLC: two threads, two addresses,        *)
(* payloads whose length has one and two digits.                           *)
(***************************************************************************)
EXTENDS LogPath, TLC

CONSTANTS t1, t2

BothTransports == {"TCP", "UDP"}
TwoCallers == {t1, t2}
MCLengths == {2, 10}
MCLineLengths == {1, 3}
CallerSymmetry == Permutations(Callers)
====
