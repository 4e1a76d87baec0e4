--------------------------- MODULE MCBlockTransfer ---------------------------
(***************************************************************************)
(* Small instances of BlockTransfer without any discipline of time or      *)
(* length: a "byte" counts to 4 Chunk - 1, temp holds 3 Chunk.             *)
(***************************************************************************)
EXTENDS BlockTransfer

\* Everything that may go wrong.
MCFaults == FaultKinds

\* No bytes, one and two: with transfers of 3 they fit one.
MCShort == {0, 1, 2}

\* With transfers of 2: one request, exactly Chunk bytes, and more than temp.
MCWildWrites == {1, 2, 7}

\* One request, three of which the last has one byte, and the count of which
\* blocklen wraps.
MCWildReads == {1, 4, 6}
=============================================================================
