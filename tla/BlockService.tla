---------------------------- MODULE BlockService ----------------------------
(***************************************************************************)
(* What a block call of the library promises, without transfers, buffers,  *)
(* timers or sequences: a call is made, the device acts on it at most once *)
(* and on nothing else, and the call returns. Success means the device has *)
(* the caller's block, or the caller the device's; failure means something *)
(* went wrong in this very call.                                           *)
(*                                                                         *)
(* A byte read is the number of the call it was sent in and its place.     *)
(***************************************************************************)
EXTENDS Integers, Sequences

CONSTANT Blocks    \* what callers write

VARIABLES
  phase,     \* "idle", or "busy" with a call
  kind,      \* the call, or the last one: "none", "read", "write"
  serial,    \* its number
  block,     \* the block to write
  checked,   \* reads are protected by a PEC
  sent,      \* blocks the device has accepted in this call
  got,       \* what a successful read has returned
  fault,     \* something went wrong in this call
  doubt,     \* the device may have acted on a call that failed
  result     \* "none", "ok", "error"

vars == <<phase, kind, serial, block, checked, sent, got, fault, doubt, result>>

NoBlock == [len |-> 0, data |-> << >>]

Init ==
  /\ phase = "idle" /\ kind = "none" /\ serial = 0
  /\ block = NoBlock /\ checked = TRUE
  /\ sent = << >> /\ got = << >>
  /\ fault = FALSE /\ doubt = FALSE /\ result = "none"

Call(k) ==
  /\ phase = "idle"
  /\ phase' = "busy" /\ kind' = k /\ serial' = serial + 1
  /\ sent' = << >> /\ got' = << >>
  /\ fault' = FALSE /\ doubt' = FALSE /\ result' = "none"
  /\ UNCHANGED checked

CallRead  == Call("read") /\ block' = NoBlock
CallWrite == Call("write") /\ block' \in Blocks

\* A fault that does not end the call: bytes changed with no PEC to tell.
Disturb ==
  /\ phase = "busy" /\ fault' = TRUE
  /\ UNCHANGED <<phase, kind, serial, block, checked, sent, got, doubt, result>>

Return(how) ==
  /\ phase = "busy" /\ phase' = "idle"
  /\ result' = how
  /\ UNCHANGED <<kind, serial, block, checked>>

\* The device has the caller's block, once.
WriteDone ==
  /\ kind = "write" /\ Return("ok")
  /\ sent' = <<block>>
  /\ UNCHANGED <<got, fault, doubt>>

\* With a PEC, the caller has what the device sent in this call, in order.
ReadDone ==
  /\ kind = "read" /\ Return("ok")
  /\ got' \in Seq(Nat \X Nat)
  /\ checked => \A k \in 1..Len(got') : got'[k] = <<serial, k>>
  /\ fault' \in {fault, TRUE}
  /\ UNCHANGED <<sent, doubt>>

\* Nothing was written; or it is in doubt whether the block was.
Fail ==
  /\ Return("error")
  /\ fault' = TRUE
  /\ \/ UNCHANGED <<sent, doubt>>
     \/ /\ doubt' = TRUE
        /\ \/ UNCHANGED sent
           \/ kind = "write" /\ sent' = <<block>>
  /\ UNCHANGED got

\* The application does something else.
OtherCall ==
  /\ phase = "idle"
  /\ result' = "none" /\ checked' \in BOOLEAN
  /\ UNCHANGED <<phase, kind, serial, block, sent, got, fault, doubt>>

Next ==
  \/ CallRead \/ CallWrite
  \/ Disturb
  \/ WriteDone \/ ReadDone \/ Fail
  \/ OtherCall

Spec == Init /\ [][Next]_vars
=============================================================================
