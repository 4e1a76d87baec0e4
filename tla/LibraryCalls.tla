---------------------------- MODULE LibraryCalls ----------------------------
(***************************************************************************)
(* What the calls of the library do with either driver: the dispatcher     *)
(* (lib/smbusb.c), the ioctls of lib/smbusb-i2cdev.c one by one, and the   *)
(* one control transfer of lib/smbusb-fx2lp.c, with what the board makes   *)
(* of it on the bus as a whole (SMBCommands has that step by step, and     *)
(* BlockImplementation why a block call is one step).                      *)
(*                                                                         *)
(* One device hangs on the bus. It takes so many bytes behind its address, *)
(* depending on the command; one of its commands is a register.            *)
(***************************************************************************)
EXTENDS Integers, Sequences, FiniteSets

CONSTANTS
  ByteMax,      \* largest value of a byte
  RelaxLen,     \* data bytes the i2c-dev driver reads of a block (64)
  Dev,          \* the device's write address, the argument of most calls
  Reserved,     \* addresses of the board's own EEPROM (0xA0, 0xA1)
  Reg,          \* the command that is a register
  Fixed,        \* what other commands hold that can be read
  Devices,      \* devices: for each command the bytes taken, it included
  MaxFaults     \* bound: what goes wrong in one process

Byte == 0..ByteMax

smbus_address(addr) == addr \div 2

\* The two address bytes of one device, to write and to read.
Both(addr) == {2 * smbus_address(addr), 2 * smbus_address(addr) + 1}

ASSUME LibraryAssumption ==
  /\ ByteMax \in Nat /\ ByteMax > 2 /\ RelaxLen \in Byte
  /\ Dev \in Byte /\ Both(Dev) = {Dev, Dev + 1}
  /\ Reserved \subseteq Byte \ {Dev, Dev + 1}
  /\ \A a \in Reserved : Both(a) \subseteq Reserved
  /\ MaxFaults \in Nat
  /\ Reg \in Byte /\ \A d \in Devices : d \in [Byte -> Nat]
  /\ Fixed \in [Byte -> Seq(Byte)]

VARIABLES
  s_drv,      \* "none", "fx2lp", "i2cdev"
  pec,        \* PEC in force, with either driver
  hasPec,     \* the i2c adapter can do PEC
  slave,      \* the 7-bit address I2C_SLAVE has set
  contended,  \* another master has the i2c adapter's bus: EAGAIN
  call,       \* the call under way
  k,          \* its requests to the kernel done so far
  status,     \* its result
  data,       \* the block it has read
  accepts,    \* the device
  reg,        \* the register's bytes
  seen,       \* ghost: addresses that have been on the bus in this process
  faults,     \* ghost: how often something went wrong in this process
  changed     \* ghost: a read has been changed on its way and not refused

libVars == <<s_drv, pec, hasPec, slave, contended, call, k, status, data,
             accepts, reg, seen, faults, changed>>

NoCall == [fn |-> "none", addr |-> 0, cmd |-> 0, bytes |-> << >>]

Reads  == {"ReadByte", "ReadWord", "ReadBlock"}
Writes == {"SendByte", "WriteByte", "WriteWord", "WriteBlock"}
Probes == {"TestAddressACK", "TestCommandACK", "TestCommandWrite"}

LibraryInit ==
  /\ s_drv = "none" /\ slave = 0 /\ contended = FALSE
  /\ pec \in {[fx2lp |-> b, i2cdev |-> FALSE] : b \in BOOLEAN} /\ hasPec \in BOOLEAN
  /\ call = NoCall /\ k = 0 /\ status = 0 /\ data = << >>
  /\ accepts \in Devices
  /\ seen = {} /\ faults = 0 /\ changed = FALSE

-----------------------------------------------------------------------------
(* A call and its requests                                                 *)

\* s_drv->fn(addr, cmd, bytes)
Begin(fn, addr, cmd, bytes) ==
  /\ call' = [fn |-> fn, addr |-> addr, cmd |-> cmd, bytes |-> bytes]
  /\ k' = 0 /\ status' = 0 /\ data' = << >>
  /\ UNCHANGED <<s_drv, pec, hasPec, slave, contended, accepts, reg, seen,
                 faults, changed>>

\* How much of the probe's bytes each message has: one more than what it is
\* to find out, and the fourth byte goes unnoticed.
size_checks_Dense == <<1, 2, 3, 4, 5>>
size_checks == <<1, 2, 3, 5, 6>>

outbuf(cmd) == <<cmd, 3, 0, 0, 0, 0>>

\* The ioctls of each call.
I2CDEV_Requests(fn) ==
  CASE fn = "EnablePEC"                   -> <<"I2C_PEC">>
    [] fn \in {"ReadBlock", "WriteBlock"} -> <<"I2C_RDWR">>
    [] fn = "TestCommandWrite" -> [i \in 1..Len(size_checks) |-> "I2C_RDWR"]
    [] OTHER                              -> <<"I2C_SLAVE", "I2C_SMBUS">>

Requests ==
  IF call.fn = "none" THEN << >>
  ELSE IF s_drv = "fx2lp" THEN <<"control">> ELSE I2CDEV_Requests(call.fn)

Returned == call.fn # "none" /\ k = Len(Requests)

\* The call ends here, whatever it had still to do.
Over == k' = Len(Requests)

Fault(p) == faults' = (IF p THEN faults + 1 ELSE faults) /\ faults' <= MaxFaults

\* while (true) { ioctl ... EAGAIN ... continue }
xioctl == ~contended

Pending(req) == k < Len(Requests) /\ Requests[k + 1] = req

-----------------------------------------------------------------------------
(* The bus                                                                 *)

\* The address bytes on the bus for an address, and of the request.
OnBus(addr) == IF s_drv = "i2cdev" THEN Both(addr) ELSE {addr}

SentTo ==
  IF s_drv = "i2cdev" /\ Requests[k + 1] = "I2C_SMBUS"
    THEN {2 * slave, 2 * slave + 1} ELSE OnBus(call.addr)

Answers == SentTo \cap ({Dev, Dev + 1} \cup Reserved) # {}

\* The bytes behind the address.
Sent ==
  CASE call.fn = "TestAddressACK" -> << >>
    [] call.fn \in Reads \cup {"SendByte", "TestCommandACK"} -> <<call.cmd>>
    [] call.fn \in {"WriteByte", "WriteWord"} -> <<call.cmd>> \o call.bytes
    [] call.fn = "WriteBlock" -> <<call.cmd, Len(call.bytes)>> \o call.bytes
    [] call.fn = "TestCommandWrite" ->
         SubSeq(outbuf(call.cmd), 1, IF s_drv = "fx2lp" THEN 6 ELSE size_checks[k + 1])

\* Those the device takes. The EEPROM's commands are not looked at.
Taken ==
  IF SentTo \cap {Dev, Dev + 1} = {} \/ accepts[call.cmd] >= Len(Sent)
    THEN Len(Sent) ELSE accepts[call.cmd]

Whole == Answers /\ Taken = Len(Sent)

\* A probe's bytes are as good as a write's.
Stored ==
  IF \/ SentTo \cap {Dev, Dev + 1} = {} \/ call.cmd # Reg \/ Taken < 2
     \/ call.fn \in Writes /\ ~Whole
    THEN reg
  ELSE IF call.fn = "WriteBlock" THEN call.bytes ELSE SubSeq(Sent, 2, Taken)

Content(cmd) == IF cmd = Reg THEN reg ELSE Fixed[cmd]

\* Byte i read of a command; past its end nothing pulls the bus down.
ByteOf(cmd, i) == IF i \in DOMAIN Content(cmd) THEN Content(cmd)[i] ELSE ByteMax

-----------------------------------------------------------------------------
(* Results                                                                 *)

\* What is read is copied from a buffer of zeros as far as the count says,
\* and only so much of it has been read.
smbus_read_block_data_relax(block) ==
  [i \in 1..Len(block) |-> IF i <= RelaxLen THEN block[i] ELSE 0]

Read == CASE call.fn = "ReadByte"  -> ByteOf(call.cmd, 1)
          [] call.fn = "ReadWord"  -> ByteOf(call.cmd, 1)
                                      + (ByteMax + 1) * ByteOf(call.cmd, 2)
          [] call.fn = "ReadBlock" -> Len(Content(call.cmd))

Block ==
  IF call.fn # "ReadBlock" THEN << >>
  ELSE IF s_drv = "fx2lp" THEN Content(call.cmd)
  ELSE smbus_read_block_data_relax(Content(call.cmd))

\* SMB_TEST_COMMAND_WRITE counts all acknowledges but the fourth.
TestCommandWrite(n) == IF n >= 4 THEN n - 1 ELSE n

Ack == ByteMax          \* 0xFF

\* What a control transfer that went well makes the FX2LP driver return.
FX2LP_Result ==
  CASE call.fn \in Reads      -> Read
    [] call.fn = "SendByte"   -> 1
    [] call.fn = "WriteBlock" -> Len(call.bytes)
    [] call.fn = "TestAddressACK"   -> IF Answers THEN Ack ELSE 0
    [] call.fn = "TestCommandACK"   -> IF Whole THEN Ack ELSE 0
    [] call.fn = "TestCommandWrite" -> IF Answers THEN TestCommandWrite(Taken) ELSE 0
    [] OTHER                  -> 0

\* And an ioctl that did, the i2c-dev driver. The probe counts its messages.
I2CDEV_Result ==
  CASE call.fn \in Reads             -> Read
    [] call.fn = "TestCommandWrite"  -> status + 1
    [] OTHER                         -> 0

\* And one that did not: the probe's count stays.
I2CDEV_Failed == IF call.fn = "TestCommandWrite" THEN status ELSE -1

-----------------------------------------------------------------------------
(* Requests that set something                                             *)

\* I2C_SLAVE. The kernel refuses it while one of its drivers has the address.
SetAddress ==
  /\ Pending("I2C_SLAVE") /\ xioctl
  /\ \/ /\ slave' = smbus_address(call.addr) /\ k' = k + 1
        /\ UNCHANGED <<status, faults>>
     \/ /\ Over /\ status' = -1 /\ Fault(TRUE)
        /\ UNCHANGED slave
  /\ UNCHANGED <<s_drv, pec, hasPec, contended, call, data, accepts, reg, seen,
                 changed>>

\* SMB_ENABLE_PEC, and I2C_PEC, which the kernel takes also for an adapter
\* that cannot do it. Both calls drop the result.
FX2LP_PEC(state) == [pec EXCEPT !["fx2lp"] = state]
smbus_pec(state) == [pec EXCEPT !["i2cdev"] = state /\ hasPec]

EnablePEC ==
  /\ call.fn = "EnablePEC" /\ k < Len(Requests)
  /\ s_drv = "i2cdev" => xioctl
  /\ Over
  /\ \E lost, late \in BOOLEAN :
       /\ late => lost
       /\ Fault(lost)
       /\ pec' = IF lost /\ ~late THEN pec
                 ELSE IF s_drv = "fx2lp" THEN FX2LP_PEC(call.cmd = 1)
                 ELSE smbus_pec(call.cmd = 1)
  /\ UNCHANGED <<s_drv, hasPec, slave, contended, call, status, data, accepts,
                 reg, seen, changed>>

-----------------------------------------------------------------------------
(* Requests that go on the bus                                             *)

BusRequest ==
  /\ call.fn \in Reads \cup Writes \cup Probes
  /\ \E req \in {"control", "I2C_SMBUS", "I2C_RDWR"} : Pending(req)

\* A probe of the board answers what it found; everything else needs that
\* the device takes all of it.
GoesWell == Whole \/ (s_drv = "fx2lp" /\ call.fn \in Probes)

Transfer ==
  /\ BusRequest /\ GoesWell /\ (s_drv = "i2cdev" => xioctl)
  /\ reg' = Stored /\ seen' = seen \cup SentTo
  /\ status' = IF s_drv = "fx2lp" THEN FX2LP_Result ELSE I2CDEV_Result
  /\ data' = Block
  /\ k' = k + 1
  /\ UNCHANGED <<s_drv, pec, hasPec, slave, contended, call, accepts, faults,
                 changed>>

\* The device refuses, or the transfer fails without having to: lost before
\* it began or after it was over.
TransferFails ==
  /\ BusRequest /\ (s_drv = "i2cdev" => xioctl)
  /\ reg' \in {reg, Stored} /\ seen' = seen \cup SentTo
  /\ status' = IF s_drv = "fx2lp" THEN -1 ELSE I2CDEV_Failed
  /\ Over /\ Fault(GoesWell)
  /\ UNCHANGED <<s_drv, pec, hasPec, slave, contended, call, data, accepts,
                 changed>>

\* The reads PEC is there for: all of the board's, none of I2C_RDWR.
Protected == pec[s_drv] /\ ~Pending("I2C_RDWR")

\* A byte is changed on its way.
ReadChanged ==
  /\ BusRequest /\ Whole /\ call.fn \in Reads /\ (s_drv = "i2cdev" => xioctl)
  /\ Over /\ seen' = seen \cup SentTo /\ Fault(TRUE)
  /\ IF Protected
       THEN status' = -1 /\ UNCHANGED <<data, changed>>
       ELSE /\ changed' = TRUE
            /\ status' = IF call.fn = "ReadBlock" THEN Read
                         ELSE (Read + 1) % (ByteMax + 1)
            /\ data' = [i \in DOMAIN Block |-> (Block[i] + 1) % (ByteMax + 1)]
  /\ UNCHANGED <<s_drv, pec, hasPec, slave, contended, call, accepts, reg>>

Request == SetAddress \/ EnablePEC \/ Transfer \/ TransferFails \/ ReadChanged

\* Another master takes the i2c adapter's bus, and leaves it.
Contention ==
  /\ s_drv = "i2cdev" /\ call.fn # "none"
  /\ contended' = ~contended
  /\ UNCHANGED <<s_drv, pec, hasPec, slave, call, k, status, data, accepts, reg,
                 seen, faults, changed>>
=============================================================================
