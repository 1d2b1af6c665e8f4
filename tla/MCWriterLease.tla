---------------------------- MODULE MCWriterLease ----------------------------
(* Two programs on one data directory, each of which may crash.            *)
EXTENDS WriterLease
=============================================================================
