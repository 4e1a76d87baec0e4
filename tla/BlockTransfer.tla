---------------------------- MODULE BlockTransfer ----------------------------
(***************************************************************************)
(* SMBReadBlock and SMBWriteBlock end to end: the library's FX2LP driver   *)
(* (lib/smbusb-fx2lp.c), which cuts a block into control transfers of at   *)
(* most Chunk bytes, the USB, which may answer late, lose a request or     *)
(* outlive the calling process, and the firmware of FirmwareBlocks, which  *)
(* puts the block together again. Neither side tells the other where in a  *)
(* block it is: they agree only as long as they count alike.               *)
(*                                                                         *)
(* One firmware request is one step. The driver has one call at a time.    *)
(***************************************************************************)
EXTENDS FirmwareBlocks

CONSTANTS
  WriteLens,   \* lengths the application writes
  ReadLens,    \* byte counts the device answers with
  Fills,       \* values of the data bytes
  Faults,      \* what may go wrong, a subset of FaultKinds
  MaxCalls,    \* bound: block calls in a behaviour
  MaxGap,      \* most ticks from the first request of a call to its last
  MinQuiet,    \* ticks the application waits after a call that failed
  MaxIdle      \* most ticks without a request the firmware sees

FaultKinds ==
  {"start",     \* no START could be made on the bus
   "nak",       \* a byte is not acknowledged
   "badcount",  \* the device answers a count of 0 or 255
   "corrupt",   \* some byte of a read arrives changed, its PEC does not match
   "late",      \* the firmware acts, but after the host has given up
   "lost",      \* the firmware never sees the request
   "crash"}     \* the calling process ends inside a call

ASSUME EnvironmentAssumption ==
  /\ WriteLens \subseteq 0..ByteMax
  /\ ReadLens \subseteq 1..(ByteMax - 1)
  /\ Fills \subseteq 0..ByteMax
  /\ Faults \subseteq FaultKinds
  /\ {MaxCalls, MaxGap, MinQuiet, MaxIdle} \subseteq Nat

VARIABLES
  pc,       \* the driver: "idle", "first" request to do, or "more" of them
  op,       \* the call, or the last one: "none", "read", "write"
  call,     \* its number
  wlen,     \* SMBWriteBlock's len
  fill,     \* the value of the data bytes it writes
  off,      \* bytes of the frame <<len, data>> sent so far
  total,    \* SMBReadBlock's total
  rdata,    \* SMBReadBlock's data, its length is rcvd
  ret,      \* what the last library call was, if a block call: "ok", "error"
  failed,   \* the last block call failed
  faulty,   \* a fault happened in the current or last block call
  timedout, \* and one of its requests was acted on without an answer
  elapsed   \* within a call, ticks since its first request; otherwise,
            \* since the last request the firmware acted on

hostVars == <<pc, op, call, wlen, fill, off, total, rdata, ret, failed, faulty,
              timedout, elapsed>>
vars == <<fwVars, hostVars>>

Init ==
  /\ FwInit
  /\ pc = "idle" /\ op = "none"
  /\ call = 0 /\ wlen = 0 /\ fill = 0 /\ off = 0
  /\ total = 0 /\ rdata = << >>
  /\ ret = "none"
  /\ failed = FALSE /\ faulty = FALSE /\ timedout = FALSE
  /\ elapsed = 0

-----------------------------------------------------------------------------
(* Calls begin and end                                                     *)

BeginCall(kind) ==
  /\ pc = "idle"
  /\ call < MaxCalls
  /\ failed => elapsed >= MinQuiet
  /\ pc' = "first" /\ op' = kind /\ call' = call + 1
  /\ off' = 0 /\ total' = 0 /\ rdata' = << >>
  /\ ret' = "none" /\ faulty' = FALSE /\ timedout' = FALSE
  /\ rx' = << >>
  /\ UNCHANGED <<temp, templen, tempptr, count, pec_enabled, pec_failed, ep0,
                 failed, elapsed>>

FX2LP_SMBReadBlock ==
  /\ BeginCall("read")
  /\ UNCHANGED <<wlen, fill>>

FX2LP_SMBWriteBlock ==
  \E len \in WriteLens, v \in Fills :
    /\ BeginCall("write")
    /\ wlen' = len /\ fill' = v

Return(result) ==
  /\ pc' = "idle" /\ ret' = result /\ failed' = (result = "error")

\* A request other than the last: time runs from the first one.
GoOn ==
  /\ pc' = "more"
  /\ elapsed' = IF pc = "first" THEN 0 ELSE elapsed
  /\ UNCHANGED <<ret, failed>>

-----------------------------------------------------------------------------
(* The firmware's side of a request. `bad' says that a fault is part of it. *)

HandleRead(bad) ==
  \/ ~bad /\ ReturnOutstanding
  \/ ~bad /\ \E n \in ReadLens, v \in Fills : ReadTransferred(call, n, v, TRUE)
  \/ ~bad /\ ByteMax - 1 \in ReadLens /\ \E v \in Fills : ReadCountWraps(v)
  \/ bad /\ "start" \in Faults /\ ReadNotStarted
  \/ bad /\ Faults \cap {"nak", "badcount"} # {} /\ ReadRefused
  \/ bad /\ "corrupt" \in Faults
         /\ \E n \in ReadLens, v \in Fills : ReadTransferred(call, n, v, FALSE)

HandleWrite(out, bad) ==
  \/ ~bad /\ StartSequence(out)
  \/ ~bad /\ ContinueSequence(out)
  \/ (bad => Faults \cap {"start", "nak"} # {}) /\ FinishSequence(out, ~bad)
  \/ (bad => Faults \cap {"start", "nak"} # {}) /\ DirectWrite(out, ~bad)

-----------------------------------------------------------------------------
(* SMBReadBlock's requests                                                 *)

\* The answers of a call one behind the other, at data + rcvd.
Copied_ToStart(bytes) == bytes
Copied(bytes) == rdata \o bytes

ReadFails == Return("error") /\ elapsed' = 0

\* What the driver makes of the answer: the first byte of the first one is
\* the count, everything else is data.
TakeAnswer ==
  IF ~ep0'.ok
    THEN ReadFails /\ UNCHANGED <<total, rdata>>
    ELSE LET bytes == ep0'.bytes IN
         /\ IF pc = "first"
              THEN total' = bytes[1].val /\ rdata' = Tail(bytes)
              ELSE total' = total /\ rdata' = Copied(bytes)
         /\ IF Len(rdata') < total' THEN GoOn ELSE Return("ok") /\ elapsed' = 0

ReadRequest ==
  /\ pc # "idle" /\ op = "read"
  /\ \E bad \in BOOLEAN : HandleRead(bad) /\ faulty' = (faulty \/ bad)
  /\ TakeAnswer
  /\ UNCHANGED <<op, call, wlen, fill, off, timedout>>

\* The firmware does its part, but libusb_control_transfer has timed out.
ReadRequestLate ==
  /\ pc # "idle" /\ op = "read"
  /\ "late" \in Faults
  /\ \E bad \in BOOLEAN : HandleRead(bad)
  /\ Return("error") /\ elapsed' = 0
  /\ faulty' = TRUE /\ timedout' = TRUE
  /\ UNCHANGED <<op, call, wlen, fill, off, total, rdata>>

-----------------------------------------------------------------------------
(* SMBWriteBlock's requests                                                *)

\* Bytes of the next transfer: whole chunks, then the remainder.
NextLen == Lesser(Chunk, wlen + 1 - off)
NextOut == [k \in 1..NextLen |-> FrameByte(call, wlen, fill, off + k - 1)]

WriteRequest ==
  /\ pc # "idle" /\ op = "write"
  /\ \E bad \in BOOLEAN : HandleWrite(NextOut, bad) /\ faulty' = (faulty \/ bad)
  /\ off' = off + NextLen
  /\ IF ep0'.ok /\ off' < wlen + 1
       THEN GoOn
       ELSE Return(IF ep0'.ok THEN "ok" ELSE "error") /\ elapsed' = 0
  /\ UNCHANGED <<op, call, wlen, fill, total, rdata, timedout>>

WriteRequestLate ==
  /\ pc # "idle" /\ op = "write"
  /\ "late" \in Faults
  /\ \E bad \in BOOLEAN : HandleWrite(NextOut, bad)
  /\ Return("error") /\ elapsed' = 0
  /\ faulty' = TRUE /\ timedout' = TRUE
  /\ UNCHANGED <<op, call, wlen, fill, off, total, rdata>>

-----------------------------------------------------------------------------
(* A request that never reaches the firmware, which is still busy with an  *)
(* earlier one or is not scheduled by the host in time; and a process that *)
(* ends between two requests. The firmware keeps what it has.              *)

RequestLost ==
  /\ pc # "idle"
  /\ Faults \cap {"lost", "crash"} # {}
  /\ Return("error")
  /\ faulty' = TRUE
  /\ UNCHANGED fwVars
  /\ UNCHANGED <<op, call, wlen, fill, off, total, rdata, timedout, elapsed>>

-----------------------------------------------------------------------------
(* The other calls an application makes between block calls                *)

OtherCall ==
  /\ pc = "idle"
  /\ ret' = "none"
  /\ UNCHANGED <<pc, op, call, wlen, fill, off, total, rdata, failed, faulty,
                 timedout>>

FX2LP_SMBEnablePEC ==
  /\ \E state \in BOOLEAN : EnablePEC(state)
  /\ OtherCall /\ UNCHANGED elapsed

FX2LP_SMBGetLastReadPECFail ==
  /\ GetClearPecFail
  /\ OtherCall /\ UNCHANGED elapsed

\* SMBReadByte, SMBWriteWord, SMBTestAddressACK, ...
OtherBusCall ==
  /\ OtherBusCommand
  /\ OtherCall /\ elapsed' = 0

Tick ==
  /\ elapsed < IF pc = "more" THEN MaxGap ELSE MaxIdle
  /\ timer0_isr
  /\ elapsed' = elapsed + 1
  /\ UNCHANGED <<pc, op, call, wlen, fill, off, total, rdata, ret, failed,
                 faulty, timedout>>

-----------------------------------------------------------------------------
Next ==
  \/ FX2LP_SMBReadBlock \/ FX2LP_SMBWriteBlock
  \/ ReadRequest \/ ReadRequestLate
  \/ WriteRequest \/ WriteRequestLate
  \/ RequestLost
  \/ FX2LP_SMBEnablePEC \/ FX2LP_SMBGetLastReadPECFail \/ OtherBusCall
  \/ Tick

Spec == Init /\ [][Next]_vars

\* A blocked libusb_control_transfer comes back: with the answer, with an
\* error, or after its 100 ms timeout.
Fairness == WF_vars(ReadRequest) /\ WF_vars(WriteRequest)

FairSpec == Spec /\ Fairness

-----------------------------------------------------------------------------
(* What a block call promises                                              *)

\* Every variable keeps its type; what was read out of temp never passes
\* what was put in.
TypeOK ==
  /\ FwTypeOK
  /\ pc \in {"idle", "first", "more"}
  /\ op \in {"none", "read", "write"}
  /\ call \in 0..MaxCalls
  /\ wlen \in 0..ByteMax /\ fill \in 0..ByteMax
  /\ off \in 0..(wlen + 1)
  /\ total \in 0..ByteMax
  /\ ret \in {"none", "ok", "error"}
  /\ failed \in BOOLEAN /\ faulty \in BOOLEAN /\ timedout \in BOOLEAN
  /\ elapsed \in 0..(MaxIdle + MaxGap)

\* Collecting a write or keeping the rest of a read never touches the memory
\* behind temp[] (the stores `temp[j] = ...' and `temp[i-64] = b').
TempBounds ==
  [][\A j \in TempSize..ByteMax : temp'[j] = temp[j]]_vars

\* Whatever the device accepts on the bus during a write call is exactly the
\* block the caller passed: no byte of an earlier call, none out of place,
\* none missing. During a read call it accepts no block at all.
WriteIntegrity ==
  \A i \in 1..Len(rx) :
    /\ op = "write"
    /\ rx[i].len = wlen
    /\ rx[i].data = [k \in 1..wlen |-> FrameByte(call, wlen, fill, k)]

\* A write call that returns its length has put one block on the bus, not
\* two and not none; one that fails has put none, unless its last request
\* was acted on after the driver had stopped waiting.
WriteOnce ==
  /\ Len(rx) <= 1
  /\ op = "write" /\ ret = "ok" => Len(rx) = 1
  /\ op = "write" /\ ret = "error" /\ ~timedout => rx = << >>

\* With PEC on, a read call that returns without error gives the caller the
\* bytes the device sent in this call, all of them and in their order.
ReadIntegrity ==
  op = "read" /\ ret = "ok" /\ pec_enabled =>
    /\ Len(rdata) = total
    /\ \A k \in 1..total : rdata[k].call = call /\ rdata[k].idx = k

\* The driver never copies more bytes to the caller's buffer than the count
\* it took from the first answer, corrupted data without PEC included.
ReadBounds == op = "read" => Len(rdata) <= total

\* A call fails only when something went wrong in that very call: nothing an
\* earlier call left in the firmware makes a later one fail.
NoPhantomError == ret = "error" => faulty

\* Once a call has succeeded the firmware holds nothing of it, so that the
\* next call may follow at once.
NothingLeft == pc = "idle" /\ ~failed => templen = 0

\* Every call of the library comes back, whatever the bus, the USB and the
\* other end of the sequence do.
CallReturns == pc # "idle" ~> pc = "idle"
=============================================================================
