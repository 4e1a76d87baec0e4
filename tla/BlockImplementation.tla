------------------------ MODULE BlockImplementation ------------------------
(***************************************************************************)
(* Under the discipline of BlockDiscipline the driver and the firmware     *)
(* together are the service of BlockService: every request of a call but   *)
(* the one that ends it is invisible from outside.                         *)
(***************************************************************************)
EXTENDS BlockDiscipline

BlockOf(c, n, v) == [len |-> n, data |-> [k \in 1..n |-> FrameByte(c, n, v, k)]]

\* The caller's buffer counts once a read has succeeded.
Places ==
  IF pc = "idle" /\ op = "read" /\ ~failed
    THEN [k \in 1..Len(rdata) |-> <<rdata[k].call, rdata[k].idx>>]
    ELSE << >>

Service == INSTANCE BlockService WITH
  Blocks  <- {BlockOf(c, n, v) : c \in 1..MaxCalls, n \in WriteLens, v \in Fills},
  phase   <- IF pc = "idle" THEN "idle" ELSE "busy",
  kind    <- op,
  serial  <- call,
  block   <- IF op = "write" THEN BlockOf(call, wlen, fill)
             ELSE [len |-> 0, data |-> << >>],
  checked <- pec_enabled,
  sent    <- rx,
  got     <- Places,
  fault   <- faulty,
  doubt   <- timedout,
  result  <- ret

\* A block call, however many requests it takes and whatever happens between
\* them, is one operation to its caller and to the device: no request acts on
\* the bus but the last one, what was in temp is never part of another call,
\* and a call that returned never acts again.
ImplementsService == Service!Spec
=============================================================================
