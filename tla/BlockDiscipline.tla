--------------------------- MODULE BlockDiscipline ---------------------------
(***************************************************************************)
(* The conditions under which block transfers of any length are exact, and *)
(* the inductive invariant that shows it. The driver and the firmware      *)
(* share no sequence number, so all depends on time: a call must be done   *)
(* before BLOCK_SEQ_TIMEOUT makes the firmware forget it, and after a      *)
(* failed call the application must wait until the firmware has forgotten. *)
(***************************************************************************)
EXTENDS BlockTransfer

ASSUME DisciplineAssumption ==
  \* A block of Chunk bytes is sent as if it fitted one request, and one
  \* longer than TempSize does not fit temp.
  /\ WriteLens \subseteq (0..TempSize) \ {Chunk}
  \* blocklen = count + 2 does not wrap.
  /\ ReadLens \subseteq 1..(ByteMax - 2)
  /\ MaxGap <= SeqTimeout
  /\ SeqTimeout < MinQuiet
  \* count does not wrap while a leftover sequence waits (18 minutes).
  /\ MaxIdle + MaxGap <= CountMax

\* Between calls a sequence is left only by a failed call, its age is what
\* the application's clock says, up to the length of a call, and a call
\* begins only when it has expired.
QuietInv ==
  /\ pc # "more" /\ templen > 0 =>
       /\ failed
       /\ elapsed <= count /\ count <= elapsed + MaxGap
  /\ pc = "first" =>
       /\ off = 0 /\ rx = << >>
       /\ templen > 0 => SeqTimeout < count

\* Between the requests of a call the sequence is young.
YoungInv == pc = "more" => count = elapsed /\ elapsed <= MaxGap

\* Both ends of a long write agree on where they are, and temp holds the
\* data sent so far.
WriteInv ==
  /\ op = "write" => wlen \in WriteLens /\ fill \in Fills
  /\ pc = "more" /\ op = "write" =>
       /\ rx = << >>
       /\ Chunk <= off /\ off <= wlen
       /\ templen = wlen /\ tempptr + 1 = off
       /\ \A j \in 0..(tempptr - 1) :
            temp[j] = FrameByte(call, wlen, fill, j + 1)

\* Both ends of a long read agree on how much is still to come.
ReadInv ==
  /\ rdata \in Seq(Byte)
  /\ pc = "more" /\ op = "read" =>
       /\ rx = << >>
       /\ Len(rdata) < total
       /\ templen - tempptr = total - Len(rdata)
       /\ Len(rdata) = tempptr + Chunk - 1
  /\ pc # "idle" => op \in {"read", "write"} /\ ret = "none"
  /\ op # "none" => call > 0

\* With PEC on, everything read and everything still in temp is the call's.
ReadDataInv ==
  pc = "more" /\ op = "read" /\ pec_enabled =>
    /\ \A k \in 1..Len(rdata) : rdata[k].call = call /\ rdata[k].idx = k
    /\ \A j \in 0..(templen - 1) :
         temp[j].call = call /\ temp[j].idx = j + Chunk

IInv ==
  /\ TypeOK
  /\ QuietInv /\ YoungInv /\ WriteInv /\ ReadInv /\ ReadDataInv
  /\ WriteIntegrity /\ WriteOnce /\ ReadIntegrity /\ ReadBounds
  /\ NoPhantomError
=============================================================================
