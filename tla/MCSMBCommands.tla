---------------------------- MODULE MCSMBCommands ----------------------------
(***************************************************************************)
(* Every complete SMBus command against a device that may fail anywhere.   *)
(***************************************************************************)
EXTENDS SMBCommands

MCCommands == AllCommands

\* A BYTE of 3 bits. No count (0), one byte (the worst case of the firmware's
\* comment), two, the longest that does not wrap, and 255.
MCCounts == {0, 1, 2, 5, 7}
MCLens   == {0, 1, 3}
=============================================================================
