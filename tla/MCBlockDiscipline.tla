-------------------------- MODULE MCBlockDiscipline --------------------------
(***************************************************************************)
(* The small instance of BlockDiscipline: transfers of 2 bytes, a temp of  *)
(* 6, so that a "byte" counts to 7 and a block takes one to four requests. *)
(***************************************************************************)
EXTENDS BlockImplementation

MCByteMax == 7

\* One request, two, and as many as temp has room for.
MCWriteLens == {1, 3, 6}
MCReadLens  == {1, 2, 5}

MCFills  == {1, 5}
MCFaults == FaultKinds
=============================================================================
