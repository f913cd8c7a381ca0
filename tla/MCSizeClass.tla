---------------------------- MODULE MCSizeClass -----------------------------
(* Every request from 0 bytes to two pages beyond the large threshold, for   *)
(* both alignments the build offers.  SizeMax is 2^20 instead of 2^64.       *)
EXTENDS SizeClass
=============================================================================
