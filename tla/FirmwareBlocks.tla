--------------------------- MODULE FirmwareBlocks ---------------------------
(***************************************************************************)
(* The block commands of the FX2LP firmware (firmware/smbusb_firmware.c,   *)
(* SMB_READ_BLOCK and SMB_WRITE_BLOCK of handle_vendorcommand), with the   *)
(* state they share: one temporary buffer, used both for the part of a     *)
(* long block read that did not fit the first answer and for collecting a  *)
(* long block write, and one timer, `count', which every I2C operation     *)
(* also uses as its own timeout.                                           *)
(*                                                                         *)
(* A byte carries where it comes from: the call it belongs to and its      *)
(* place in that call's frame (0 is the byte count, 1 .. n the data), so   *)
(* that a byte of another call, or out of order, can be told apart.        *)
(*                                                                         *)
(* A definition named after the one that follows it and a slip, such as    *)
(* Expired_Never, is not part of the model: it is the code with that slip, *)
(* kept to show which property would catch it. The other modules do alike. *)
(***************************************************************************)
EXTENDS Integers, Sequences

CONSTANTS
  Chunk,        \* bytes of one USB control transfer (64)
  TempSize,     \* size of the buffer temp[] (192)
  ByteMax,      \* largest value of a BYTE (255)
  SeqTimeout,   \* BLOCK_SEQ_TIMEOUT, in timer ticks (5)
  CountMax      \* largest value of the WORD count (65535)

ASSUME SizesAssumption ==
  /\ Chunk \in Nat /\ Chunk >= 2
  /\ ByteMax = Chunk + Chunk + Chunk + Chunk - 1
  /\ TempSize = Chunk + Chunk + Chunk
  /\ SeqTimeout \in Nat
  /\ CountMax \in Nat

VARIABLES
  temp,         \* temp[], and the memory that follows it
  templen,      \* bytes the sequence in temp has, 0 when there is none
  tempptr,      \* bytes of them already returned or already collected
  count,        \* timer ticks since it was last cleared
  pec_enabled,  \* PEC is computed, checked and sent
  pec_failed,   \* sticky: some read since the last query failed its PEC
  ep0,          \* the answer to the last request: a stall, or the bytes
  rx            \* blocks the device has accepted from the bus in this call

fwVars == <<temp, templen, tempptr, count, pec_enabled, pec_failed, ep0, rx>>

Byte  == [val : 0..ByteMax, call : Nat, idx : 0..ByteMax]
Block == [len : 0..ByteMax, data : UNION {[1..n -> Byte] : n \in 0..ByteMax}]

Lesser(a, b) == IF a < b THEN a ELSE b

\* Byte i of the frame of call c: the count n, then n bytes of value v.
FrameByte(c, n, v, i) ==
  [val |-> IF i = 0 THEN n ELSE v, call |-> c, idx |-> i]

\* A byte no call sent: left in a buffer by something else, or misread.
Stray(v) == [val |-> v, call |-> 0, idx |-> 0]

\* The endpoint buffer during an OUT request, past the bytes received too.
EP0BUF(out, k) == IF k \in DOMAIN out THEN out[k] ELSE Stray(0)

Answer(bytes) == [ok |-> TRUE, bytes |-> bytes]
Stall         == [ok |-> FALSE, bytes |-> << >>]

FwInit ==
  /\ temp = [j \in 0..ByteMax |-> Stray(0)]
  /\ templen = 0
  /\ tempptr = 0
  /\ count = 0
  /\ pec_enabled = TRUE
  /\ pec_failed = FALSE
  /\ ep0 = Answer(<< >>)
  /\ rx = << >>

-----------------------------------------------------------------------------
(* The test at the head of both commands: an old sequence is dropped.      *)

Expired_Never == FALSE
Expired == templen > 0 /\ count > SeqTimeout

FlushIfExpired ==
  IF Expired THEN templen' = 0 /\ tempptr' = 0
             ELSE UNCHANGED <<templen, tempptr>>

-----------------------------------------------------------------------------
(* SMB_READ_BLOCK                                                          *)

\* There is unread data: the request is answered from temp, whatever its
\* address and command are.
Outstanding == ~Expired /\ templen > tempptr

\* The size of the answer, and its bytes.
Returned_Full == Chunk
Returned == Lesser(Chunk, templen - tempptr)

FromTemp_Start(n) == [k \in 1..n |-> temp[k - 1]]
FromTemp(n) == [k \in 1..n |-> temp[tempptr + k - 1]]

ReturnOutstanding ==
  /\ Outstanding
  /\ ep0' = Answer(FromTemp(Returned))
  /\ IF tempptr + Returned = templen
       THEN templen' = 0 /\ tempptr' = 0
       ELSE templen' = templen /\ tempptr' = tempptr + Returned
  /\ UNCHANGED <<temp, count, pec_enabled, pec_failed, rx>>

\* No START could be made: no STOP either, and count is left alone.
ReadNotStarted ==
  /\ ~Outstanding
  /\ FlushIfExpired
  /\ ep0' = Stall
  /\ UNCHANGED <<temp, count, pec_enabled, pec_failed, rx>>

\* The address or the command is not acknowledged, or the byte count is 0
\* or above 0xFE: STOP, which clears count.
ReadRefused ==
  /\ ~Outstanding
  /\ FlushIfExpired
  /\ count' = 0
  /\ ep0' = Stall
  /\ UNCHANGED <<temp, pec_enabled, pec_failed, rx>>

\* Bytes of an answer of n: the count and the data, not the PEC that is
\* always read after them (blocklen - 1).
FrameLen(n) == n + 1

PecWrong_Unchecked(intact) == FALSE
PecWrong_Sticky(intact) == pec_enabled /\ (pec_failed \/ ~intact)
PecWrong(intact) == pec_enabled /\ ~intact

\* The device answers n bytes. What does not fit the first answer stays in
\* temp, also when the PEC then turns out wrong.
ReadTransferred(c, n, v, intact) ==
  LET Got(i) == IF intact THEN FrameByte(c, n, v, i)
                ELSE Stray(IF i = 0 THEN n ELSE v)
      frame  == FrameLen(n)
  IN /\ ~Outstanding
     /\ n \in 1..(ByteMax - 2)
     /\ temp' = [j \in 0..ByteMax |-> IF j + Chunk < frame
                                        THEN Got(j + Chunk) ELSE temp[j]]
     /\ IF frame > Chunk THEN templen' = frame - Chunk /\ tempptr' = 0
                         ELSE FlushIfExpired
     /\ count' = 0
     /\ IF PecWrong(intact)
          THEN pec_failed' = TRUE /\ ep0' = Stall
          ELSE /\ ep0' = Answer([k \in 1..Lesser(Chunk, frame) |-> Got(k - 1)])
               /\ UNCHANGED pec_failed
     /\ UNCHANGED <<pec_enabled, rx>>

\* A byte count of 0xFE: blocklen = b + 2 wraps to 0 in its BYTE, the loop
\* ends after the count byte with no PEC read (rpec is still 0), no STOP is
\* sent, and without PEC the stale endpoint buffer is the answer.
ReadCountWraps(stale) ==
  /\ ~Outstanding
  /\ FlushIfExpired
  /\ count' = 0
  /\ IF pec_enabled
       THEN pec_failed' = TRUE /\ ep0' = Stall
       ELSE /\ ep0' = Answer([k \in 1..Chunk |-> Stray(stale)])
            /\ UNCHANGED pec_failed
  /\ UNCHANGED <<temp, pec_enabled, rx>>

-----------------------------------------------------------------------------
(* SMB_WRITE_BLOCK, with out the bytes of the data stage                   *)

\* The code's only sign of a long write being collected.
InProgress == templen > 0 /\ ~Expired

\* Bytes of the first request that are kept: all but the count.
FirstKept_CountToo == Chunk
FirstKept == Chunk - 1

\* The count byte says the block needs more requests: take the first bytes.
StartSequence(out) ==
  /\ ~InProgress
  /\ EP0BUF(out, 1).val > Chunk
  /\ templen' = EP0BUF(out, 1).val
  /\ tempptr' = FirstKept
  /\ temp' = [j \in 0..ByteMax |-> IF j < FirstKept THEN EP0BUF(out, j + 2)
                                                    ELSE temp[j]]
  /\ count' = 0
  /\ ep0' = Answer(<< >>)
  /\ UNCHANGED <<pec_enabled, pec_failed, rx>>

\* Bytes this request adds to the sequence, and temp with them in place.
Taken == Lesser(Chunk, templen - tempptr)

Collected_Shifted(out) ==
  [j \in 0..ByteMax |-> IF tempptr < j /\ j <= tempptr + Taken
                          THEN EP0BUF(out, j - tempptr) ELSE temp[j]]

Collected(out) ==
  [j \in 0..ByteMax |-> IF tempptr <= j /\ j < tempptr + Taken
                          THEN EP0BUF(out, j - tempptr + 1) ELSE temp[j]]

ContinueSequence(out) ==
  /\ InProgress
  /\ tempptr + Taken < templen
  /\ temp' = Collected(out)
  /\ tempptr' = tempptr + Taken
  /\ ep0' = Answer(<< >>)
  /\ UNCHANGED <<templen, count, pec_enabled, pec_failed, rx>>

\* The bus half of a write: START, address, command, count, data, PEC, STOP.
\* A failure anywhere ends in i2c_stop, so both ways clear count.
BusWrite(done, block) ==
  /\ count' = 0
  /\ IF done THEN rx' = Append(rx, block) /\ ep0' = Answer(<< >>)
             ELSE UNCHANGED rx /\ ep0' = Stall

Forget_Never(done) == templen' = templen /\ tempptr' = templen
Forget(done) ==
  IF done THEN templen' = 0 /\ tempptr' = 0
          ELSE templen' = templen /\ tempptr' = templen

\* All the data is there: the block goes out. Only success forgets it.
FinishSequence(out, done) ==
  /\ InProgress
  /\ tempptr + Taken = templen
  /\ temp' = Collected(out)
  /\ BusWrite(done, [len  |-> templen,
                     data |-> [k \in 1..templen |-> temp'[k - 1]]])
  /\ Forget(done)
  /\ UNCHANGED <<pec_enabled, pec_failed>>

Direct_CountAsData(out, n) == [k \in 1..n |-> EP0BUF(out, k)]
Direct(out, n) == [k \in 1..n |-> EP0BUF(out, k + 1)]

\* The whole block is in this request.
DirectWrite(out, done) ==
  LET n == EP0BUF(out, 1).val
  IN /\ ~InProgress
     /\ n <= Chunk
     /\ FlushIfExpired
     /\ BusWrite(done, [len |-> n, data |-> Direct(out, n)])
     /\ UNCHANGED <<temp, pec_enabled, pec_failed>>

-----------------------------------------------------------------------------
(* The other commands, as far as the block commands can notice them        *)

\* SMB_ENABLE_PEC
EnablePEC(on) ==
  /\ pec_enabled' = on
  /\ ep0' = Answer(<< >>)
  /\ UNCHANGED <<temp, templen, tempptr, count, pec_failed, rx>>

\* SMB_GET_CLEAR_PEC_FAIL
GetClearPecFail ==
  /\ ep0' = Answer(<<Stray(IF pec_failed THEN ByteMax ELSE 0)>>)
  /\ pec_failed' = FALSE
  /\ UNCHANGED <<temp, templen, tempptr, count, pec_enabled, rx>>

\* A byte, word or probe command: it drives the bus and so clears count.
OtherBusCommand ==
  /\ count' = 0
  /\ ep0' = Answer(<< >>)
  /\ UNCHANGED <<temp, templen, tempptr, pec_enabled, pec_failed, rx>>

\* timer0_isr, one tick every 16.4 ms; count is a WORD.
timer0_isr ==
  /\ count' = IF count = CountMax THEN 0 ELSE count + 1
  /\ UNCHANGED <<temp, templen, tempptr, pec_enabled, pec_failed, ep0, rx>>

FwTypeOK ==
  /\ temp \in [0..ByteMax -> Byte]
  /\ templen \in 0..ByteMax
  /\ tempptr \in 0..templen
  /\ count \in 0..CountMax
  /\ pec_enabled \in BOOLEAN
  /\ pec_failed \in BOOLEAN
  /\ ep0.ok \in BOOLEAN
=============================================================================
