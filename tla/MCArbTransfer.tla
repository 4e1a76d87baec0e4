---------------------------- MODULE MCArbTransfer ----------------------------
(***************************************************************************)
(* Transactions of SMBWrite and SMBRead calls with transfers of 2 bytes.   *)
(***************************************************************************)
EXTENDS ArbTransfer

Data(m, n) == [k \in 1..n |-> Out(m + k)]

\* The shapes of the flasher's readRam and writeRam: a write of one or more
\* transfers, then a restart and a read, or a second write with the STOP.
ReadOf(w, r) ==
  << SMBWrite(TRUE, FALSE, FALSE, <<AddrW>> \o Data(0, w)),
     SMBWrite(FALSE, TRUE, FALSE, <<AddrR>>),
     SMBRead(r, TRUE) >>

WriteOf(w, v) ==
  << SMBWrite(TRUE, FALSE, FALSE, <<AddrW>> \o Data(0, w)),
     SMBWrite(FALSE, FALSE, TRUE, Data(w, v)) >>

\* Reads in one transfer and in two, the last with a byte alone or not; writes
\* that end at and past a transfer's end. Reads in two calls, which the code
\* gets wrong (see HealthyIsTransaction), are left out.
MCTransactions ==
  {ReadOf(1, r) : r \in 1..4} \cup {ReadOf(2, 2)}
  \cup {WriteOf(1, 2), WriteOf(2, 3), WriteOf(0, 1)}

ASSUME ShapesAssumption == /\ LastGivesBack /\ StopEndsWrites
                            /\ ReadsLast /\ OneTransaction
==============================================================================
