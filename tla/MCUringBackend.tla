---- MODULE MCUringBackend ----
(***************************************************************************)
(* Small instances of UringBackend for TLC: a queue of two entries, lines  *)
(* of one or two bytes.                                                    *)
(***************************************************************************)
EXTENDS UringBackend

MCLengths == {1, 2}
====
