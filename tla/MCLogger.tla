---- MODULE MCLogger ----
(***************************************************************************)
(* Small instances of Logger for TLC: two loggers, two threads.            *)
(* The application holds descriptors 0, 1 and 2 when it starts.            *)
(***************************************************************************)
EXTENDS Logger, TLC

CONSTANTS l1, l2, t1, t2

TwoLoggers == {l1, l2}
OneThread == {t1}
TwoThreads == {t1, t2}
AllKinds == {"CONSOLE", "FILE", "SYSLOG"}
ConsoleAndFile == {"CONSOLE", "FILE"}
Symmetry == Permutations(TwoLoggers) \cup Permutations(TwoThreads)
====
