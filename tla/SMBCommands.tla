----------------------------- MODULE SMBCommands -----------------------------
(***************************************************************************)
(* One vendor command of the firmware, from the SETUP packet to its        *)
(* answer: the commands of handle_vendorcommand that make a complete SMBus *)
(* transaction, each as the list of I2C primitives it calls, executed one  *)
(* by one against a device that may refuse or hang at any of them.         *)
(***************************************************************************)
EXTENDS I2CMaster

CONSTANTS
  Commands,    \* the commands run
  Counts,      \* byte counts the device answers to a block read
  Lens,        \* lengths of direct block writes
  ByteMax      \* largest value of a BYTE (255)

AllCommands ==
  {"SEND_BYTE", "READ_BYTE", "WRITE_BYTE", "READ_WORD", "WRITE_WORD",
   "READ_BLOCK", "WRITE_BLOCK",
   "TEST_ADDRESS_ACK", "TEST_COMMAND_ACK", "TEST_COMMAND_WRITE"}

ASSUME CommandsAssumption ==
  /\ Commands \subseteq AllCommands
  /\ ByteMax \in Nat
  /\ Counts \subseteq 0..ByteMax /\ Lens \subseteq 0..ByteMax

VARIABLES
  cmd,          \* the command under way, or the last one
  n,            \* the device's byte count, or the block length to write
  todo,         \* primitives still to call
  pec_enabled,
  pec,          \* the bytes the running PEC covers, in order
  rpec,         \* the PEC byte read
  ep0buf,       \* bytes of the answer so far
  acks,         \* TEST_COMMAND_WRITE's answer, and the other probes' ack
  failing,      \* the handler is on its way out of a failure
  sound,        \* ghost: no byte of the device was changed on its way
  faulty,       \* ghost: something went wrong on the bus
  result        \* "none", "busy", "ok", or "stall"

cmdVars == <<cmd, n, todo, pec_enabled, pec, rpec, ep0buf, acks, failing,
             sound, faulty, result>>
vars == <<busVars, cmdVars>>

-----------------------------------------------------------------------------
(* What each command does on the bus. crc: with PEC on, the byte enters it. *)

Start       == [op |-> "start"]
Restart     == [op |-> "restart"]
Stop        == [op |-> "stop"]
Put(b)      == [op |-> "out", b |-> b, crc |-> TRUE]
PutPlain(b) == [op |-> "out", b |-> b, crc |-> FALSE]
Get(f, s, bl, l, use) ==
  [op |-> "in", first |-> f, single |-> s, before |-> bl, last |-> l, use |-> use]

OnlyIf(p, s) == IF p THEN s ELSE << >>

\* START, the write address and the command.
Select_CommandNotCovered == <<Start, Put(AddrW), PutPlain(Cmd)>>
Select == <<Start, Put(AddrW), Put(Cmd)>>

ReadFrom == Select \o <<Restart, Put(AddrR)>>

WriteOf(puts) == Select \o puts \o OnlyIf(pec_enabled, <<PutPlain(PecOut)>>) \o <<Stop>>

\* Byte i of the loop is the last but one.
BeforeLast_Late(i, blocklen) == i = blocklen - 1
BeforeLast_Early(i, blocklen) == i = blocklen - 3
BeforeLast(i, blocklen) == i = blocklen - 2

\* The block read loop. At i = 0 blocklen is still 255, so nothing is known
\* of the end; then it is count + 2, in a BYTE.
BlockReads(count) ==
  LET blocklen == (count + 2) % (ByteMax + 1)
  IN  <<Get(TRUE, FALSE, FALSE, FALSE, "count")>>
      \o [i \in 1..(blocklen - 1) |->
            Get(FALSE, FALSE, BeforeLast(i, blocklen), i = blocklen - 1,
                IF i = blocklen - 1 THEN "pec" ELSE "data")]

Program(c, k) ==
  CASE c = "SEND_BYTE"  -> <<Start, PutPlain(AddrW), PutPlain(Cmd), Stop>>
    [] c = "READ_BYTE"  -> ReadFrom \o
         IF pec_enabled THEN <<Get(TRUE, FALSE, TRUE, FALSE, "data"),
                               Get(FALSE, FALSE, FALSE, TRUE, "pec")>>
                        ELSE <<Get(TRUE, TRUE, FALSE, TRUE, "data")>>
    [] c = "READ_WORD"  -> ReadFrom \o
         IF pec_enabled THEN <<Get(TRUE, FALSE, FALSE, FALSE, "data"),
                               Get(FALSE, FALSE, TRUE, FALSE, "data"),
                               Get(FALSE, FALSE, FALSE, TRUE, "pec")>>
                        ELSE <<Get(TRUE, FALSE, TRUE, FALSE, "data"),
                               Get(FALSE, FALSE, FALSE, TRUE, "data")>>
    [] c = "READ_BLOCK" -> ReadFrom \o BlockReads(k)
    [] c = "WRITE_BYTE" -> WriteOf(<<Put(Out(1))>>)
    [] c = "WRITE_WORD" -> WriteOf(<<Put(Out(1)), Put(Out(2))>>)
    [] c = "WRITE_BLOCK" -> WriteOf([i \in 1..(k + 1) |-> Put(Out(i - 1))])
    [] c = "TEST_ADDRESS_ACK"   -> <<Start, PutPlain(AddrW), Stop>>
    [] c = "TEST_COMMAND_ACK"   -> <<Start, PutPlain(AddrW), PutPlain(Cmd), Stop>>
    [] c = "TEST_COMMAND_WRITE" -> <<Start, PutPlain(AddrW), PutPlain(Cmd)>>
         \o [i \in 1..5 |-> PutPlain(Out(i))] \o <<Stop>>

Probes == {"TEST_ADDRESS_ACK", "TEST_COMMAND_ACK", "TEST_COMMAND_WRITE"}

\* Commands that leave without a STOP when no START could be made.
NoStopAfterFailedStart == {"SEND_BYTE", "READ_BLOCK"} \cup Probes

-----------------------------------------------------------------------------
Init ==
  /\ BusInit
  /\ cmd = "SEND_BYTE" /\ n = 0 /\ todo = << >>
  /\ pec_enabled = TRUE /\ pec = << >> /\ rpec = Zero
  /\ ep0buf = << >> /\ acks = 0
  /\ failing = FALSE /\ sound = TRUE /\ faulty = FALSE
  /\ result = "none"

\* SMB_ENABLE_PEC
EnablePEC ==
  /\ result # "busy"
  /\ pec_enabled' = ~pec_enabled
  /\ result' = "none"
  /\ UNCHANGED <<busVars, cmd, n, todo, pec, rpec, ep0buf, acks, failing, sound,
                 faulty>>

\* The SETUP packet. pec, rpec, i, j and ack are the handler's locals.
handle_vendorcommand(c, k) ==
  /\ result # "busy"
  /\ cmd' = c /\ n' = k /\ todo' = Program(c, k)
  /\ pec' = << >> /\ rpec' = Zero /\ ep0buf' = << >> /\ acks' = 0
  /\ failing' = FALSE /\ sound' = TRUE /\ faulty' = FALSE
  /\ result' = "busy" /\ wire' = << >> /\ bytes' = << >>
  /\ UNCHANGED <<owned, i2dat, clocked, lastrd, pec_enabled>>

Enter ==
  \/ \E c \in Commands \ {"READ_BLOCK", "WRITE_BLOCK"} : handle_vendorcommand(c, 0)
  \/ "READ_BLOCK" \in Commands
     /\ \E k \in Counts : handle_vendorcommand("READ_BLOCK", k)
  \/ "WRITE_BLOCK" \in Commands
     /\ \E k \in Lens : handle_vendorcommand("WRITE_BLOCK", k)

\* The current primitive, if any, and the ways on from it.
At(op) == result = "busy" /\ todo # << >> /\ Head(todo).op = op

Advance == todo' = Tail(todo) /\ UNCHANGED <<failing, result>>

Return(r) == todo' = << >> /\ result' = r /\ UNCHANGED failing

\* The failure labels of the handlers: STOP, then FALSE; the probes instead
\* go to their STOP and answer.
GiveUp_NoStop == Return("stall")
GiveUp ==
  /\ todo' = <<Stop>>
  /\ failing' = (cmd \notin Probes)
  /\ UNCHANGED result

-----------------------------------------------------------------------------
Starts ==
  /\ At("start")
  /\ i2c_start
  /\ Advance
  /\ UNCHANGED <<cmd, n, pec_enabled, pec, rpec, ep0buf, acks, sound, faulty>>

StartFails ==
  /\ At("start")
  /\ IF cmd \in NoStopAfterFailedStart THEN UNCHANGED busVars ELSE i2c_stop
  /\ Return("stall")
  /\ faulty' = TRUE
  /\ UNCHANGED <<cmd, n, pec_enabled, pec, rpec, ep0buf, acks, sound>>

Restarts ==
  /\ At("restart")
  /\ i2c_restart
  /\ Advance
  /\ UNCHANGED <<cmd, n, pec_enabled, pec, rpec, ep0buf, acks, sound, faulty>>

\* The acknowledges a probe answers with: the address, the command, and for
\* TEST_COMMAND_WRITE one for the command and for each byte but the third.
Counted(b) ==
  \/ cmd = "TEST_ADDRESS_ACK" /\ b = AddrW
  \/ cmd = "TEST_COMMAND_ACK" /\ b = Cmd
  \/ cmd = "TEST_COMMAND_WRITE" /\ b \notin {AddrW, Out(3)}

OutAcked ==
  /\ At("out")
  /\ LET o == Head(todo) IN
       /\ ByteOutAck(o.b)
       /\ pec' = IF pec_enabled /\ o.crc THEN Append(pec, o.b) ELSE pec
       /\ acks' = IF Counted(o.b) THEN acks + 1 ELSE acks
  /\ Advance
  /\ UNCHANGED <<cmd, n, pec_enabled, rpec, ep0buf, sound, faulty>>

\* A byte that is refused or never done.
OutFails ==
  /\ At("out")
  /\ ByteOutNak(Head(todo).b) \/ ByteOutTimeout
  /\ GiveUp
  /\ faulty' = TRUE
  /\ UNCHANGED <<cmd, n, pec_enabled, pec, rpec, ep0buf, acks, sound>>

\* The STOP that ends a write, a probe or a failure.
Stops_Forever == At("stop") /\ i2c_stop /\ UNCHANGED cmdVars
Stops ==
  /\ At("stop")
  /\ i2c_stop
  /\ Return(IF failing THEN "stall" ELSE "ok")
  /\ UNCHANGED <<cmd, n, pec_enabled, pec, rpec, ep0buf, acks, sound, faulty>>

-----------------------------------------------------------------------------
\* What a read loop does with the byte v that i2c_bytein has returned.
Take(use, v) ==
  /\ pec' = IF pec_enabled /\ use # "pec" THEN Append(pec, v) ELSE pec
  /\ rpec' = IF pec_enabled /\ use = "pec" THEN v ELSE rpec
  /\ ep0buf' = IF use # "pec" THEN Append(ep0buf, v) ELSE ep0buf

\* A byte is read, perhaps not as the device sent it. The count of a block
\* decides whether there is more.
InRead ==
  /\ At("in")
  /\ LET o      == Head(todo)
         refuse == o.use = "count" /\ n \in {0, ByteMax}
         wraps  == o.use = "count" /\ n = ByteMax - 1
     IN /\ ByteIn(o.first, o.single, o.before, o.last)
        /\ IF refuse THEN GiveUp ELSE Advance
        /\ IF refuse \/ wraps THEN UNCHANGED <<pec, rpec, ep0buf>>
                             ELSE Take(o.use, ByteInValue(o.first))
        /\ \E ok \in BOOLEAN :
             /\ sound' = (sound /\ ok)
             /\ faulty' = (faulty \/ ~ok \/ refuse)
  /\ UNCHANGED <<cmd, n, pec_enabled, acks>>

\* The controller is not done in time: what i2c_bytein returns is taken for
\* the byte. As the count of a block it ends the command.
InTimesOut ==
  /\ At("in")
  /\ ByteInTimeout
  /\ IF Head(todo).use = "count"
       THEN GiveUp /\ UNCHANGED <<pec, rpec, ep0buf>>
       ELSE /\ Advance
            /\ \E v \in TimeoutValues(Head(todo).last) : Take(Head(todo).use, v)
  /\ faulty' = TRUE
  /\ UNCHANGED <<cmd, n, pec_enabled, acks, sound>>

\* The device's last byte is the PEC of everything on the wire before it.
PecMatches_Assumed == TRUE
PecMatches ==
  /\ bytes # << >> /\ sound
  /\ rpec = Last(bytes) /\ pec = Front(bytes)

\* The end of a read: the PEC is compared. On a mismatch READ_BLOCK leaves
\* without a STOP, the others with one.
ReadEnds ==
  /\ result = "busy" /\ todo = << >>
  /\ IF pec_enabled /\ ~PecMatches
       THEN /\ Return("stall")
            /\ IF cmd = "READ_BLOCK" THEN UNCHANGED busVars ELSE i2c_stop
       ELSE Return("ok") /\ UNCHANGED busVars
  /\ UNCHANGED <<cmd, n, pec_enabled, pec, rpec, ep0buf, acks, sound, faulty>>

Primitive ==
  \/ Starts \/ StartFails \/ Restarts
  \/ OutAcked \/ OutFails \/ Stops
  \/ InRead \/ InTimesOut \/ ReadEnds

Next == Enter \/ EnablePEC \/ Primitive

Spec == Init /\ [][Next]_vars

\* Every wait of the firmware is bounded by its timer.
FairSpec == Spec /\ WF_vars(Primitive)

-----------------------------------------------------------------------------
(* The SMBus protocols, as the specification of the bus draws them         *)

OutEvents(b) == [k \in DOMAIN b |-> Sent(b[k], TRUE)]

\* The device sends k bytes; the master refuses the last one only.
InEvents(k) == [i \in 1..k |-> Read(Dev(i), i # k)]

WriteProtocol(data) ==
  <<START>> \o OutEvents(<<AddrW, Cmd>> \o data \o OnlyIf(pec_enabled, <<PecOut>>))
            \o <<STOP>>

ReadProtocol(k) ==
  <<START>> \o OutEvents(<<AddrW, Cmd>>) \o <<RESTART>> \o OutEvents(<<AddrR>>)
            \o InEvents(k) \o <<STOP>>

WithPec(k) == IF pec_enabled THEN k + 1 ELSE k

\* The block read always fetches the byte after the data (the comment on the
\* workaround), and SendByte has no PEC.
Protocol ==
  CASE cmd = "SEND_BYTE"   -> <<START>> \o OutEvents(<<AddrW, Cmd>>) \o <<STOP>>
    [] cmd = "READ_BYTE"   -> ReadProtocol(WithPec(1))
    [] cmd = "READ_WORD"   -> ReadProtocol(WithPec(2))
    [] cmd = "READ_BLOCK"  -> ReadProtocol(n + 2)
    [] cmd = "WRITE_BYTE"  -> WriteProtocol(<<Out(1)>>)
    [] cmd = "WRITE_WORD"  -> WriteProtocol(<<Out(1), Out(2)>>)
    [] cmd = "WRITE_BLOCK" -> WriteProtocol([i \in 1..(n + 1) |-> Out(i - 1)])

\* Data bytes of a read command's answer, the count of a block included.
AnswerLen ==
  CASE cmd = "READ_BYTE" -> 1 [] cmd = "READ_WORD" -> 2
    [] cmd = "READ_BLOCK" -> n + 1 [] OTHER -> 0

(***************************************************************************)
(* Properties                                                              *)
(***************************************************************************)
\* The values the variables take.
TypeOK ==
  /\ owned \in BOOLEAN /\ lastrd \in BOOLEAN
  /\ clocked \in 0..(ByteMax + 2)
  /\ cmd \in AllCommands /\ n \in 0..ByteMax
  /\ result \in {"none", "busy", "ok", "stall"}
  /\ acks \in 0..5
  /\ Len(ep0buf) <= ByteMax
  /\ failing \in BOOLEAN /\ sound \in BOOLEAN /\ faulty \in BOOLEAN
  /\ pec_enabled \in BOOLEAN

\* With the bus and the device healthy, a command puts exactly its SMBus
\* protocol on the wire: every byte in its place, the acknowledges right (the
\* hard part, as LASTRD is set before the length of a block is certain), one
\* STOP and nothing after it. And it succeeds.
HealthyIsProtocol ==
  result \in {"ok", "stall"} /\ ~faulty /\ cmd \notin Probes =>
    result = "ok" /\ wire = Protocol

\* When a handler is done, in success or failure, the bus is free again.
BusReleased == result # "busy" => ~owned

\* The device is never read past a byte that was not acknowledged, and
\* nothing follows a STOP: a device that still drives the data line would
\* hold the bus.
WireDiscipline ==
  \A k \in 1..(Len(wire) - 1) :
    /\ wire[k].ev # "P"
    /\ wire[k].ev = "in" /\ ~wire[k].ack => wire[k + 1].ev = "P"
    /\ wire[k].ev = "out" /\ ~wire[k].ack => wire[k + 1].ev = "P"

\* With PEC on, the answer to a successful read is the device's bytes in
\* order, however the transaction went: a 0 returned for a byte that never
\* came is caught by the PEC.
AnswerIsDevices ==
  result = "ok" /\ (pec_enabled \/ ~faulty) =>
    ep0buf = [i \in 1..AnswerLen |-> Dev(i)]

\* A PEC that is sent covers everything on the wire before it.
PecCoversWire ==
  result = "ok" /\ pec_enabled /\ cmd \in {"WRITE_BYTE", "WRITE_WORD", "WRITE_BLOCK"}
    => bytes = Append(pec, PecOut)

\* Every vendor command is over some time, whatever the device does.
HandlerReturns == result = "busy" ~> result # "busy"
=============================================================================
