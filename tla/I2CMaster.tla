------------------------------ MODULE I2CMaster ------------------------------
(***************************************************************************)
(* The firmware's I2C primitives (i2c_start, i2c_restart, i2c_byteout,     *)
(* i2c_bytein, i2c_stop of firmware/smbusb_firmware.c) on the FX2's I2C    *)
(* controller. The controller is modelled from how these primitives use    *)
(* it: reading I2DAT returns the byte that was clocked in before and, as   *)
(* long as no STOP was asked for, clocks in the next one, acknowledging it *)
(* unless LASTRD is set. So the firmware always runs one byte behind the   *)
(* wire and must announce the last byte before it has read the one before  *)
(* it.                                                                     *)
(*                                                                         *)
(* What happens on the wire is recorded, so that a whole transaction can   *)
(* be compared with the SMBus protocol.                                    *)
(***************************************************************************)
EXTENDS Integers, Sequences, SequencesExt

VARIABLES
  wire,      \* what has happened on the bus since the handler was entered
  bytes,     \* the bytes among it, in order
  owned,     \* a START has been made and no STOP since
  i2dat,     \* the byte in I2DAT
  clocked,   \* bytes the device has sent since it was addressed to read
  lastrd     \* LASTRD is set: the next byte clocked in is not acknowledged

busVars == <<wire, bytes, owned, i2dat, clocked, lastrd>>

\* Bytes by their role in the transaction: an address, a command, the i-th
\* byte of data written or sent by the device, a PEC; and the 0 a primitive
\* returns after a timeout.
B(role, i) == [role |-> role, i |-> i]
AddrW  == B("addrW", 0)
AddrR  == B("addrR", 0)
Cmd    == B("cmd", 0)
Out(i) == B("out", i)
Dev(i) == B("dev", i)
PecOut == B("pec", 0)
Zero   == B("zero", 0)

\* What the wire shows.
START   == [ev |-> "S"]
RESTART == [ev |-> "Sr"]
STOP    == [ev |-> "P"]
Sent(b, ack) == [ev |-> "out", b |-> b, ack |-> ack]
Read(b, ack) == [ev |-> "in", b |-> b, ack |-> ack]

BusInit ==
  /\ wire = << >> /\ bytes = << >> /\ owned = FALSE
  /\ i2dat = Zero /\ clocked = 0 /\ lastrd = FALSE

-----------------------------------------------------------------------------
\* START, or a repeated one when the bus is still ours. The five attempts
\* after a bus error are one step, as nothing is visible in between.
i2c_start ==
  /\ wire' = Append(wire, IF owned THEN RESTART ELSE START)
  /\ owned' = TRUE /\ lastrd' = FALSE
  /\ UNCHANGED <<bytes, i2dat, clocked>>

i2c_restart == i2c_start

\* STOP; waiting for it to be over is bounded by the timer. Asking for it
\* without owning the bus shows nothing.
i2c_stop ==
  /\ wire' = IF owned THEN Append(wire, STOP) ELSE wire
  /\ owned' = FALSE /\ lastrd' = FALSE
  /\ UNCHANGED <<bytes, i2dat, clocked>>

\* A byte goes out and the device acknowledges it.
ByteOutAck(b) ==
  /\ owned
  /\ wire' = Append(wire, Sent(b, TRUE)) /\ bytes' = Append(bytes, b)
  /\ clocked' = 0
  /\ UNCHANGED <<owned, i2dat, lastrd>>

\* It does not: no such device, or it refuses the byte, or arbitration is lost.
ByteOutNak(b) ==
  /\ owned
  /\ wire' = Append(wire, Sent(b, FALSE)) /\ bytes' = Append(bytes, b)
  /\ UNCHANGED <<owned, i2dat, clocked, lastrd>>

\* The controller is never done with it (clock held low, or no transaction to
\* send it in): i2c_byteout stops.
ByteOutTimeout == i2c_stop

\* One byte is clocked in, acknowledged unless it was announced as the last.
Clocked(w, n, last) == Append(w, Read(Dev(n + 1), ~last))

\* LASTRD, for the byte that the next read of I2DAT clocks in.
Announced(lr, is_before_last) == lr \/ is_before_last

\* i2c_bytein, with the controller done in time. It returns the byte that
\* is in I2DAT at its one read that counts.
ByteIn(is_first, is_single, is_before_last, is_last) ==
  LET lr1 == lastrd \/ is_single
      \* the discarded read that starts the first byte
      n1  == IF is_first THEN clocked + 1 ELSE clocked
      w1  == IF is_first THEN Clocked(wire, clocked, lr1) ELSE wire
      b1  == IF is_first THEN Append(bytes, Dev(n1)) ELSE bytes
      lr2 == Announced(lr1, is_before_last)
  IN /\ owned
     /\ IF is_last
          THEN /\ wire' = Append(w1, STOP) /\ bytes' = b1
               /\ owned' = FALSE /\ lastrd' = FALSE
               /\ clocked' = n1 /\ i2dat' = Dev(n1)
          ELSE /\ wire' = Clocked(w1, n1, lr2) /\ bytes' = Append(b1, Dev(n1 + 1))
               /\ owned' = TRUE /\ lastrd' = lr2
               /\ clocked' = n1 + 1 /\ i2dat' = Dev(n1 + 1)

\* What that read returns: the newest byte clocked in before it.
ByteInValue(is_first) == IF is_first THEN Dev(clocked + 1) ELSE i2dat

\* The controller is not done in time, or the bus is no longer ours after an
\* earlier timeout: STOP, and 0 is returned as if it were data. The last byte
\* only waits for the STOP bit, which without a transaction may stay set long
\* enough: then it is what I2DAT holds.
ByteInTimeout == i2c_stop

TimeoutValues(is_last) == IF is_last /\ ~owned THEN {Zero, i2dat} ELSE {Zero}
=============================================================================
