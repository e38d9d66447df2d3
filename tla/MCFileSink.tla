---- MODULE MCFileSink ----
(***************************************************************************)
(* Small instances of FileSink for TLC: records of one or two bytes, a     *)
(* size limit of three, an interval of two seconds.                        *)
(***************************************************************************)
EXTENDS FileSink

MCSizes == {1, 2}
MCRequests == {"AUTO", "IO_URING"}
SyncOnly == {"AUTO"}
NoFaults == {}
====
