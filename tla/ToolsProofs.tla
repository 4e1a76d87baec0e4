----------------------------- MODULE ToolsProofs -----------------------------
(***************************************************************************)
(* What module Tools says of the programs, for every device, every length  *)
(* of its names, every command line and every number of faults and of      *)
(* programs run one after the other: what smbusb_comm exits with is the    *)
(* truth, what one wrote another reads back, a scan reports what is there, *)
(* and a report shows the names the device has.                            *)
(*                                                                         *)
(* The argument goes from the bus upwards.  LibInv says what a library     *)
(* call has done with each of its requests behind it: `Calling' relates    *)
(* its result to the device, to the register and to the faults there have  *)
(* been.  On it rests, tool by tool, what main has made of the results so  *)
(* far (Commanding and Kept, Scanning, Reporting), which needs what the    *)
(* options have left in its variables (Shapes), where it is (Course), and  *)
(* that a read is unprotected only where PEC could not be set (PecOn).     *)
(***************************************************************************)
EXTENDS Tools, FiniteSetTheorems, TLAPS

\* The calls that go on the bus.
BusCalls == Reads \cup Writes \cup Probes

-----------------------------------------------------------------------------
(* A call                                                                   *)

\* The library's variables have their types; a call has an open driver, and a
\* byte or word to be written has bytes.
LibTypes ==
  /\ s_drv \in {"none", "fx2lp", "i2cdev"}
  /\ pec \in [{"fx2lp", "i2cdev"} -> BOOLEAN] /\ hasPec \in BOOLEAN
  /\ accepts \in [Byte -> Nat] /\ reg \in Seq(Byte)
  /\ faults \in Nat /\ changed \in BOOLEAN /\ (changed => faults > 0)
  /\ k \in 0..Len(Requests)
  /\ call.fn = "EnablePEC" => s_drv # "none"
  /\ call.fn \in BusCalls => /\ s_drv # "none"
                             /\ call.addr \in Byte /\ call.cmd \in Byte
                             /\ call.bytes \in Seq(Byte)
                             /\ call.fn \in {"WriteByte", "WriteWord"} => Len(call.bytes) > 0

\* How many of a probe's messages are taken by what takes t bytes.
Count(t) ==
  IF t < 4 THEN t ELSE IF t = 4 THEN 3 ELSE IF t = 5 THEN 4 ELSE 5

\* Why a call may fail.
Fails ==
  \/ faults > 0 \/ ~Answering(call.addr)
  \/ AtDevice(call.addr) /\ accepts[call.cmd] < Len(Sent)

\* What a call has come to.
WasRead ==
  call.fn \in Reads =>
    (status = -1 /\ Fails) \/ (changed /\ status \in Nat) \/ (status = Read /\ data = Block)

WasWritten ==
  call.fn \in Writes =>
    \/ status = -1 /\ Fails
    \/ /\ status \in Nat /\ Answering(call.addr)
       /\ AtDevice(call.addr) /\ call.cmd = Reg /\ call.fn # "SendByte" => reg = call.bytes

\* What a probe for an ACK would find.
Accepted ==
  IF call.fn = "TestAddressACK" THEN Answering(call.addr)
                                ELSE Takes(call.addr, call.cmd) > 0

WasProbed ==
  /\ call.fn \in {"TestAddressACK", "TestCommandACK"} =>
       IF s_drv = "fx2lp"
         THEN (status = -1 /\ faults > 0) \/ status = IF Accepted THEN Ack ELSE 0
         ELSE (status = -1 /\ (faults > 0 \/ ~Accepted)) \/ (status = 0 /\ Accepted)
  /\ call.fn = "TestCommandWrite" =>
       LET most == Count(Takes(call.addr, call.cmd)) IN
         IF s_drv = "fx2lp" THEN (status = -1 /\ faults > 0) \/ status = most
         ELSE status \in 0..most /\ (faults = 0 => status = most)

\* And what while it goes on.
Midway ==
  /\ status = IF call.fn = "TestCommandWrite" THEN k ELSE 0
  /\ Requests[k + 1] = "I2C_SMBUS" => slave = smbus_address(call.addr)
  /\ call.fn = "TestCommandWrite" /\ k > 0 =>
       Takes(call.addr, call.cmd) >= size_checks[k]

\* A call on the bus, before and after it has returned.
Calling ==
  call.fn \in BusCalls =>
    IF k < Len(Requests) THEN Midway ELSE WasRead /\ WasWritten /\ WasProbed

LibInv == LibTypes /\ Calling

-----------------------------------------------------------------------------
(* A program                                                                *)

\* What an operand of smbusb_comm may be: a byte, or not given.
Addresses == Byte \cup {-1}
Typing == Seq(X..(Nibbles - 1))
CommVars == [op : 0..3, addr : Addresses, cmd : Addresses, readLen : Int,
             block : Typing, force : BOOLEAN, noPec : BOOLEAN]
ScanVars == [mode : {"none", "address", "command", "command-write"}, addr : Byte,
             start : Byte, end : Byte, skip : SUBSET Byte, i : Nat]

\* What the options -s among a line's first p ask a scan to leave out.
Skipped(p) ==
  UNION {IF line.args[i].opt = "skip" THEN SkipMap(line.args[i].arg) ELSE {} : i \in 1..p}

\* The variables of main, tool by tool, and how far getopt has come.
Shapes ==
  /\ runs \in 0..MaxRuns
  /\ tool \in {"comm", "scan", "sbsreport"} /\ line.args \in Seq(OptionsOf[tool])
  /\ tool = "comm" => o \in CommVars
  /\ tool = "scan" => o \in ScanVars
  /\ tool = "sbsreport" => /\ o.i \in 1..(Len(Report) + 1)
                            /\ o = [i |-> o.i, noPec |-> o.noPec, tempStr |-> o.tempStr]
  /\ pc = "getopt" => \E p \in 0..Len(line.args) :
       /\ args = SubSeq(line.args, p + 1, Len(line.args))
       /\ tool = "scan" => o.skip = Skipped(p)

\* Where main is, and what has been called there.
Course ==
  /\ pc \in {"getopt", "pec", "set", "run", "next", "called", "ended"}
  /\ tool # "scan" => pc # "next"
  /\ tool = "scan" => pc \notin {"pec", "set"}
  /\ pc = "getopt" => s_drv = "none" /\ faults = 0
  /\ pc \in {"pec", "set", "run", "next", "called"} => s_drv # "none"
  /\ pc \in {"getopt", "pec"} => call = NoCall
  /\ pc = "set" => call.fn = "EnablePEC"
  /\ pc \notin {"set", "called"} => k = Len(Requests)
  /\ pc = "called" => call.fn \in BusCalls
  /\ tool = "comm" /\ pc = "run" => call.fn = "EnablePEC"
  /\ pc \in {"getopt", "pec", "set"} \/ (tool # "sbsreport" /\ pc = "run") =>
       seen = {} /\ ~changed /\ call.fn \notin BusCalls

\* PEC is on if it has been asked for, or something has gone wrong.
PecOn ==
  tool = "comm" /\ (pc \in {"run", "called"} \/ (pc = "set" /\ k = Len(Requests))) =>
    pec[s_drv] \/ o.noPec \/ faults > 0 \/ (s_drv = "i2cdev" /\ ~hasPec)
\* The call that sets PEC asks for what the options say.
PecAsked == pc = "set" => call.cmd = IF o.noPec THEN 0 ELSE 1

Inv0 == LibInv /\ Shapes /\ Course

-----------------------------------------------------------------------------
(* smbusb_comm                                                              *)

\* The bytes the digits of -w stand for, and the order a word is sent in.
Decoded == hex_decode(Digits(o.block))
SentAs(block, bytes) == IF ~block /\ Len(bytes) = 2 THEN Reverse(bytes) ELSE bytes

\* The call of an operation.
Meant ==
  CASE o.op = 1 -> /\ ~WriteRefused /\ Decoded \in Seq(Byte)
                   /\ ~BlockWrite => Len(Decoded) \in {1, 2}
                   /\ call = [fn |-> IF BlockWrite THEN "WriteBlock"
                                     ELSE IF Len(Decoded) = 1 THEN "WriteByte" ELSE "WriteWord",
                              addr |-> o.addr, cmd |-> o.cmd,
                              bytes |-> SentAs(BlockWrite, Decoded)]
    [] o.op = 2 -> call = [fn |-> CASE o.readLen = 1 -> "ReadByte" [] o.readLen = 2 -> "ReadWord"
                                    [] OTHER -> "ReadBlock",
                           addr |-> o.addr, cmd |-> o.cmd, bytes |-> << >>]
    [] o.op = 3 -> call = [fn |-> "SendByte", addr |-> o.addr, cmd |-> o.cmd, bytes |-> << >>]
    [] OTHER -> FALSE

\* A read was changed only where PEC does not see it, or after another fault.
Garbled == changed => Unprotected \/ faults > 1

\* smbusb_comm calls what it was asked to, and what it exits with and prints
\* is what the call returned.
Commanding ==
  tool = "comm" =>
    /\ pc = "called" => /\ Meant /\ (o.op = 1 => typed = NoTyping)
                        /\ Garbled /\ (~Returned => ~changed)
    /\ pc = "ended" /\ s_drv # "none" =>
         \/ exit = -5 /\ seen = {}
         \/ exit = 0 /\ o.op \in {0, 1} /\ (o.op = 1 => Decoded = << >>)
         \/ /\ Meant /\ Garbled /\ Returned
            /\ IF Failed THEN exit = status ELSE exit = 0 /\ out = Printed

\* The register holds what was typed.
Kept ==
  /\ typed # NoTyping =>
       /\ typed.bytes \in Seq(Byte) /\ (~typed.block => Len(typed.bytes) \in {1, 2})
       /\ reg = SentAs(typed.block, typed.bytes)
  /\ tool = "scan" /\ pc \in {"next", "called"} => typed = NoTyping

-----------------------------------------------------------------------------
(* smbusb_scan                                                              *)

\* What a scan has gone past already.
Tried(i) == i \in Wanted /\ i < o.i

\* So far, a scan has printed what it should of what it has tried.
Scanning ==
  tool = "scan" =>
   /\ pc = "run" => o.skip = Skipped(Len(line.args)) /\ out = << >> /\ call = NoCall /\ faults = 0
   /\ pc = "getopt" => out = << >>
   /\ pc \in {"next", "called"} => o.mode # "none"
   /\ pc = "called" => /\ call = [fn |-> Probe[1], addr |-> Probe[2], cmd |-> Probe[3],
                                  bytes |-> << >>]
                       /\ o.i \in Wanted
   /\ pc \in {"next", "called", "ended"} /\ s_drv # "none" /\ o.mode # "none" =>
        /\ o.skip = Skipped(Len(line.args)) \cup AlwaysSkipped
        /\ o.i >= o.start /\ (pc = "ended" => o.i > o.end)
        /\ o.mode = "address" => seen \cap Reserved = {}
        /\ out \in Seq([at : Byte, says : Int])
        /\ \A n \in DOMAIN out :
             /\ Tried(out[n].at) /\ out[n].says <= Truth(out[n].at)
             /\ n > 1 => out[n - 1].at < out[n].at
        /\ faults = 0 =>
             IF s_drv = "fx2lp" \/ o.mode = "command-write"
               THEN /\ \A i \in Byte : i \in Reported <=> Tried(i) /\ Truth(i) > 0
                    /\ \A n \in DOMAIN out : out[n].says = Truth(out[n].at)
               ELSE \A i \in Byte : i \in Reported <=> Tried(i) /\ Truth(i) = 0

-----------------------------------------------------------------------------
(* smbusb_sbsreport                                                         *)

\* So far, a report has shown the strings as they are.
Reporting ==
  tool = "sbsreport" =>
    /\ pc = "called" => /\ o.i <= Len(Report)
                        /\ call = [fn |-> IF Report[o.i] = Reg THEN "ReadWord" ELSE "ReadBlock",
                                   addr |-> Dev, cmd |-> Report[o.i], bytes |-> << >>]
    /\ pc = "getopt" => out = << >>
    /\ Len(out) \in Nat /\ out = [n \in 1..Len(out) |-> out[n]]
    /\ NamesAreTexts => NamesAreDevices

\* The inductive invariant.
IInv == Inv0 /\ PecOn /\ PecAsked /\ Commanding /\ Kept /\ Scanning /\ Reporting

-----------------------------------------------------------------------------
(* The bus                                                                  *)

\* The numbers of the bus and of its device.
LEMMA Numbers ==
  /\ ByteMax \in Nat /\ ByteMax > 2 /\ Byte = 0..ByteMax
  /\ Dev \in Byte /\ Dev = 2 * (Dev \div 2) /\ Reg \in Byte
  /\ RelaxLen \in Byte
<1>1. Dev \in Nat /\ 2 * (Dev \div 2) \in {Dev, Dev + 1}
  <2>1. Dev \in Nat /\ Both(Dev) = {Dev, Dev + 1}
    BY LibraryAssumption DEF Byte
  <2>2. 2 * (Dev \div 2) \in Both(Dev)
    BY DEF Both, smbus_address
  <2> QED
    BY <2>1, <2>2
<1>2. Dev = 2 * (Dev \div 2)
  BY <1>1
<1> QED
  BY <1>2, LibraryAssumption DEF Byte

\* An address is one of a pair.
LEMMA Pairs ==
  ASSUME NEW a \in Nat
  PROVE  /\ smbus_address(a) \in Nat
         /\ a = 2 * smbus_address(a) \/ a = 2 * smbus_address(a) + 1
         /\ a \in Both(a) /\ Both(a) \subseteq Nat
         /\ \A b \in Both(a) : Both(b) = Both(a)
BY DEF Both, smbus_address

\* The requests of a call: how many, and which is the first and the last.
LEMMA RequestsOf ==
  ASSUME LibTypes, call.fn \in BusCalls
  PROVE  /\ s_drv \in {"fx2lp", "i2cdev"} /\ Len(Requests) \in Nat
         /\ s_drv = "fx2lp" => /\ 0 < Len(Requests) /\ Len(Requests) < 2
                               /\ Requests[1] = "control"
         /\ s_drv = "i2cdev" /\ call.fn \in {"ReadBlock", "WriteBlock"} =>
              0 < Len(Requests) /\ Len(Requests) < 2 /\ Requests[1] = "I2C_RDWR"
         /\ s_drv = "i2cdev" /\ call.fn = "TestCommandWrite" =>
              4 < Len(Requests) /\ Len(Requests) < 6 /\ \A j \in 1..5 : Requests[j] = "I2C_RDWR"
         /\ s_drv = "i2cdev" /\ call.fn \notin {"ReadBlock", "WriteBlock", "TestCommandWrite"} =>
              /\ 1 < Len(Requests) /\ Len(Requests) < 3
              /\ Requests[1] = "I2C_SLAVE" /\ Requests[2] = "I2C_SMBUS"
BY DEF LibTypes, BusCalls, Reads, Writes, Probes, Requests, I2CDEV_Requests, size_checks

\* A request that goes on the bus goes to the address of the call.
LEMMA OnWire ==
  ASSUME LibInv, BusRequest
  PROVE  /\ call.fn \in BusCalls /\ k < Len(Requests) /\ Midway
         /\ SentTo = OnBus(call.addr)
<1>1. call.fn \in BusCalls
  BY DEF BusRequest, BusCalls
<1>2. k < Len(Requests)
  BY DEF BusRequest, Pending
<1>3. Midway
  BY <1>1, <1>2 DEF LibInv, Calling
<1>4. SentTo = OnBus(call.addr)
  BY <1>3 DEF Midway, SentTo, OnBus, Both
<1> QED
  BY <1>1, <1>2, <1>3, <1>4

\* The bytes of a call that is not a probe of writes, and how many there are.
LEMMA Lengths ==
  ASSUME LibTypes, call.fn \in BusCalls
  PROVE  /\ call.fn \in Reads \cup {"SendByte", "TestAddressACK", "TestCommandACK"} =>
              Sent \in Seq(Byte) /\ Len(Sent) \in Nat /\ Len(Sent) < 2
         /\ call.fn = "TestAddressACK" => Len(Sent) < 1
         /\ call.fn = "TestCommandACK" => 0 < Len(Sent)
         /\ call.fn \in {"WriteByte", "WriteWord"} =>
              Sent = <<call.cmd>> \o call.bytes /\ Len(Sent) = 1 + Len(call.bytes)
         /\ call.fn = "WriteBlock" => Len(Sent) = 2 + Len(call.bytes)
<1>1. call.cmd \in Byte /\ call.bytes \in Seq(Byte)
  BY DEF LibTypes
<1>2. CASE call.fn = "TestAddressACK"
  BY <1>2 DEF Sent, Reads
<1>3. CASE call.fn \in Reads \cup {"SendByte", "TestCommandACK"}
  <2>1. Sent = <<call.cmd>>
    BY <1>3 DEF Sent, Reads
  <2> QED
    BY <1>1, <1>3, <2>1 DEF Reads
<1>4. CASE call.fn \in {"WriteByte", "WriteWord"}
  BY <1>1, <1>4 DEF Sent, Reads
<1>5. CASE call.fn = "WriteBlock"
  BY <1>1, <1>5 DEF Sent, Reads
<1>6. CASE call.fn = "TestCommandWrite"
  BY <1>6 DEF Reads
<1> QED
  BY <1>2, <1>3, <1>4, <1>5, <1>6 DEF BusCalls, Writes, Probes

\* What is taken of a request's bytes.
LEMMA WholeIs ==
  ASSUME LibInv, BusRequest, Len(Sent) \in Nat
  PROVE  /\ Answers <=> Answering(call.addr)
         /\ AtDevice(call.addr) => Answering(call.addr)
         /\ accepts[call.cmd] \in Nat
         /\ Taken = IF AtDevice(call.addr) /\ accepts[call.cmd] < Len(Sent)
                      THEN accepts[call.cmd] ELSE Len(Sent)
         /\ Whole <=> /\ Answering(call.addr)
                      /\ AtDevice(call.addr) => accepts[call.cmd] >= Len(Sent)
<1>1. SentTo = OnBus(call.addr) /\ accepts[call.cmd] \in Nat
  BY OnWire DEF LibInv, LibTypes
<1>2. /\ Answers <=> Answering(call.addr)
      /\ AtDevice(call.addr) => Answering(call.addr)
      /\ SentTo \cap {Dev, Dev + 1} = {} <=> ~AtDevice(call.addr)
  BY <1>1 DEF Answers, Answering, AtDevice
<1>3. Taken = IF AtDevice(call.addr) /\ accepts[call.cmd] < Len(Sent)
                THEN accepts[call.cmd] ELSE Len(Sent)
  BY <1>1, <1>2 DEF Taken
<1>4. Whole <=> /\ Answering(call.addr)
                /\ AtDevice(call.addr) => accepts[call.cmd] >= Len(Sent)
  BY <1>1, <1>2, <1>3 DEF Whole
<1> QED
  BY <1>1, <1>2, <1>3, <1>4

\* A probe of writes sends a longer message with each request of i2c-dev, and
\* the longest at once through the FX2LP.
LEMMA ProbeSent ==
  ASSUME LibInv, BusRequest, call.fn = "TestCommandWrite"
  PROVE  /\ s_drv = "fx2lp" => k = 0 /\ Len(Sent) = 6
         /\ s_drv = "i2cdev" => k \in 0..4 /\ Len(Sent) = size_checks[k + 1]
         /\ Sent \in Seq(Byte) /\ Len(Sent) \in Nat
<1>1. k \in Nat /\ k < Len(Requests) /\ call.cmd \in Byte
  BY OnWire DEF LibInv, LibTypes
<1>2. /\ s_drv \in {"fx2lp", "i2cdev"}
      /\ s_drv = "fx2lp" => k = 0
      /\ s_drv = "i2cdev" => k \in 0..4
  BY <1>1, OnWire, RequestsOf DEF LibInv
<1>3. outbuf(call.cmd) \in Seq(Byte) /\ Len(outbuf(call.cmd)) = 6
  BY <1>1, Numbers DEF outbuf
<1>4. Sent = SubSeq(outbuf(call.cmd), 1, IF s_drv = "fx2lp" THEN 6 ELSE size_checks[k + 1])
  BY DEF Sent, Reads
<1>5. s_drv = "i2cdev" => size_checks[k + 1] \in 1..6
  BY <1>2 DEF size_checks
<1>6. ASSUME NEW n \in 0..6
      PROVE  /\ SubSeq(outbuf(call.cmd), 1, n) \in Seq(Byte)
             /\ Len(SubSeq(outbuf(call.cmd), 1, n)) = n
  BY <1>3
<1> QED
  BY <1>2, <1>4, <1>5, <1>6

\* What goes on the bus is bytes, except for the count before a block.
LEMMA SentType ==
  ASSUME LibInv, BusRequest
  PROVE  (call.fn # "WriteBlock" => Sent \in Seq(Byte)) /\ Len(Sent) \in Nat
<1>1. call.fn \in BusCalls /\ call.cmd \in Byte /\ call.bytes \in Seq(Byte)
  BY OnWire DEF LibInv, LibTypes
<1>2. CASE call.fn = "TestCommandWrite"
  BY <1>2, ProbeSent
<1>3. CASE call.fn \in Reads \cup {"SendByte", "TestAddressACK", "TestCommandACK"}
  BY <1>1, <1>3, Lengths DEF LibInv
<1>4. CASE call.fn \in {"WriteByte", "WriteWord", "WriteBlock"}
  BY <1>1, <1>4 DEF Sent, Reads
<1> QED
  BY <1>1, <1>2, <1>3, <1>4 DEF BusCalls, Reads, Writes, Probes

\* What the register holds after a request that was carried out.
LEMMA StoredIs ==
  ASSUME LibInv, BusRequest
  PROVE  /\ Stored \in Seq(Byte)
         /\ call.fn \in Reads \cup {"SendByte", "TestAddressACK", "TestCommandACK"} => Stored = reg
         /\ /\ call.fn \in Writes /\ call.fn # "SendByte" /\ call.cmd = Reg
            /\ AtDevice(call.addr) /\ Whole
            => Stored = call.bytes
<1>1. /\ call.fn \in BusCalls /\ call.cmd \in Byte /\ call.bytes \in Seq(Byte) /\ reg \in Seq(Byte)
      /\ SentTo = OnBus(call.addr) /\ LibTypes
  BY OnWire DEF LibInv, LibTypes
<1>2. Taken \in 0..Len(Sent)
  BY SentType, WholeIs
<1>3. call.fn \in Reads \cup {"SendByte", "TestAddressACK", "TestCommandACK"} => Stored = reg
  BY <1>1, <1>2, Lengths DEF Stored
<1>4. ASSUME call.fn \in Writes, call.fn # "SendByte", call.cmd = Reg,
             AtDevice(call.addr), Whole
      PROVE  Stored = call.bytes
  <2>1. SentTo \cap {Dev, Dev + 1} # {} /\ Taken = Len(Sent)
    BY <1>1, <1>4 DEF AtDevice, Whole
  <2>2. CASE call.fn = "WriteBlock"
    <3>1. Len(Sent) >= 2
      BY <1>1, <2>2, Lengths
    <3> QED
      BY <1>4, <2>1, <2>2, <3>1 DEF Stored
  <2>3. CASE call.fn \in {"WriteByte", "WriteWord"}
    <3>1. Sent = <<call.cmd>> \o call.bytes /\ Len(Sent) = 1 + Len(call.bytes) /\ Len(Sent) >= 2
      BY <1>1, <2>3, Lengths DEF LibTypes
    <3>2. Stored = SubSeq(Sent, 2, Len(Sent))
      BY <1>4, <2>1, <2>3, <3>1 DEF Stored
    <3>3. SubSeq(<<call.cmd>> \o call.bytes, 2, 1 + Len(call.bytes)) = call.bytes
      BY <1>1
    <3> QED
      BY <3>1, <3>2, <3>3
  <2> QED
    BY <1>4, <2>2, <2>3 DEF Writes
<1>5. Stored \in Seq(Byte)
  <2>1. call.fn # "WriteBlock" => SubSeq(Sent, 2, Taken) \in Seq(Byte)
    BY <1>2, SentType
  <2> QED
    BY <1>1, <2>1 DEF Stored
<1> QED
  BY <1>3, <1>4, <1>5

-----------------------------------------------------------------------------
(* Requests                                                                 *)

\* What stays as it is during a call.
LEMMA Unmoved ==
  ASSUME UNCHANGED <<s_drv, call, accepts>>
  PROVE  /\ Requests' = Requests
         /\ \A a : /\ OnBus(a)' = OnBus(a) /\ (AtDevice(a)' <=> AtDevice(a))
                   /\ (Answering(a)' <=> Answering(a))
                   /\ \A c : Takes(a, c)' = Takes(a, c)
         /\ call.fn # "TestCommandWrite" => Sent' = Sent
         /\ Accepted' <=> Accepted
<1>1. Requests' = Requests
  BY DEF Requests, I2CDEV_Requests
<1>2. \A a : OnBus(a)' = OnBus(a)
  BY DEF OnBus
<1>3. \A a : (AtDevice(a)' <=> AtDevice(a)) /\ (Answering(a)' <=> Answering(a))
  BY <1>2 DEF AtDevice, Answering
<1>4. \A a : \A c : Takes(a, c)' = Takes(a, c)
  BY <1>3 DEF Takes
<1>5. call.fn # "TestCommandWrite" => Sent' = Sent
  BY DEF Sent
<1>6. Accepted' <=> Accepted
  BY <1>3, <1>4 DEF Accepted
<1> QED
  BY <1>1, <1>2, <1>3, <1>4, <1>5, <1>6

\* What a request does, whatever becomes of it.
Requested ==
  /\ UNCHANGED <<s_drv, hasPec, call, accepts>>
  /\ k' \in (k + 1)..Len(Requests) /\ faults' >= faults
  /\ reg' = reg \/ call.fn \in {"WriteByte", "WriteWord", "WriteBlock", "TestCommandWrite"}
  /\ seen' = seen \/ (call.fn \in BusCalls /\ seen' = seen \cup OnBus(call.addr))
  /\ IF call.fn = "EnablePEC"
       THEN call.cmd = 1 => pec'[s_drv] \/ faults' > 0 \/ (s_drv = "i2cdev" /\ ~hasPec)
       ELSE pec' = pec
  /\ \/ changed' = changed
     \/ /\ changed' /\ call.fn \in Reads /\ faults' > faults /\ k' = Len(Requests)
        /\ ~pec[s_drv] \/ (s_drv = "i2cdev" /\ call.fn = "ReadBlock")

\* The i2c-dev driver's I2C_SLAVE keeps what is known of the call.
LEMMA AddressIsSet ==
  ASSUME LibInv, SetAddress
  PROVE  LibInv' /\ Requested
<1>1. /\ UNCHANGED <<s_drv, pec, hasPec, call, accepts, reg, seen, changed>>
      /\ faults' \in Nat /\ faults' >= faults
      /\ k < Len(Requests) /\ Requests[k + 1] = "I2C_SLAVE"
      /\ k' \in {k + 1, Len(Requests)}
  BY DEF LibInv, LibTypes, SetAddress, Fault, Over, Pending
<1>2. LibTypes /\ k \in Nat /\ Len(Requests) \in Nat
  BY <1>1 DEF LibInv, LibTypes
<1>3. Requests' = Requests /\ k' \in (k + 1)..Len(Requests)
  BY <1>1, <1>2, Unmoved
<1>4. LibTypes'
  BY <1>1, <1>2, <1>3 DEF LibTypes
<1>5. call.fn # "EnablePEC"
  BY <1>1, <1>2 DEF Requests, I2CDEV_Requests, LibTypes
<1>6. Requested
  BY <1>1, <1>3, <1>5 DEF Requested
<1>7. ASSUME call.fn \in BusCalls PROVE Calling'
  <2>1. /\ s_drv = "i2cdev" /\ k = 0 /\ 1 < Len(Requests) /\ Len(Requests) < 3
        /\ call.fn \notin {"ReadBlock", "WriteBlock", "TestCommandWrite"}
    BY <1>1, <1>2, <1>7, RequestsOf
  <2>2. CASE slave' = smbus_address(call.addr) /\ k' = k + 1 /\ status' = status
    <3>1. Midway
      BY <1>1, <1>7 DEF LibInv, Calling
    <3> QED
      BY <1>1, <1>3, <2>1, <2>2, <3>1 DEF Calling, Midway
  <2>3. CASE Over /\ status' = -1 /\ Fault(TRUE)
    <3>1. k' = Len(Requests)' /\ faults' > 0 /\ status' = -1
      BY <1>2, <1>3, <2>3, <1>1 DEF Over, Fault, LibTypes
    <3>2. Fails'
      BY <3>1 DEF Fails
    <3>3. WasRead' /\ WasWritten' /\ WasProbed'
      BY <1>1, <2>1, <3>1, <3>2 DEF WasRead, WasWritten, WasProbed
    <3> QED
      BY <1>2, <3>1, <3>3 DEF Calling
  <2> QED
    BY <2>2, <2>3 DEF SetAddress
<1>8. Calling'
  <2>1. CASE call.fn \notin BusCalls
    BY <1>1, <2>1 DEF Calling
  <2> QED
    BY <1>7, <2>1
<1> QED
  BY <1>4, <1>6, <1>8 DEF LibInv

\* So does setting PEC, in either driver.
LEMMA PecIsSet ==
  ASSUME LibInv, EnablePEC
  PROVE  LibInv' /\ Requested
<1>1. /\ UNCHANGED <<s_drv, hasPec, call, accepts, reg, seen, changed>>
      /\ faults' \in Nat /\ faults' >= faults
      /\ k < Len(Requests) /\ k' = Len(Requests) /\ call.fn = "EnablePEC"
  BY DEF LibInv, LibTypes, EnablePEC, Fault, Over
<1>2. LibTypes /\ k \in Nat /\ Len(Requests) \in Nat /\ Requests' = Requests
  BY <1>1, Unmoved DEF LibInv, LibTypes
<1>3. PICK lost \in BOOLEAN, late \in BOOLEAN :
        /\ Fault(lost)
        /\ pec' = IF lost /\ ~late THEN pec
                  ELSE IF s_drv = "fx2lp" THEN FX2LP_PEC(call.cmd = 1)
                  ELSE smbus_pec(call.cmd = 1)
  BY DEF EnablePEC
<1>4. s_drv \in {"fx2lp", "i2cdev"}
  <2>1. CASE s_drv = "none"
    BY <1>1, <2>1, <1>2 DEF LibTypes
  <2> QED
    BY <1>2, <2>1 DEF LibTypes
<1>5. pec' \in [{"fx2lp", "i2cdev"} -> BOOLEAN]
  BY <1>2, <1>3 DEF LibTypes, FX2LP_PEC, smbus_pec
<1>6. ASSUME call.cmd = 1, ~(lost /\ ~late), s_drv = "fx2lp" \/ hasPec = TRUE
      PROVE  pec'[s_drv] = TRUE
  BY <1>2, <1>3, <1>4, <1>6 DEF LibTypes, FX2LP_PEC, smbus_pec
<1>6a. lost => faults' > 0
  BY <1>2, <1>3 DEF LibTypes, Fault
<1>6b. hasPec = TRUE \/ ~hasPec
  BY <1>2 DEF LibTypes
<1>6c. call.cmd = 1 => pec'[s_drv] \/ faults' > 0 \/ (s_drv = "i2cdev" /\ ~hasPec)
  BY <1>4, <1>6, <1>6a, <1>6b
<1>7. LibTypes'
  BY <1>1, <1>2, <1>5 DEF LibTypes, BusCalls, Reads, Writes, Probes
<1>8. Calling'
  BY <1>1 DEF Calling, BusCalls, Reads, Writes, Probes
<1> QED
  BY <1>1, <1>2, <1>6c, <1>7, <1>8 DEF LibInv, Requested

\* What a read would return is a matter of the call and the register.
LEMMA SameRead ==
  ASSUME UNCHANGED <<s_drv, call>>, reg' = reg
  PROVE  Read' = Read /\ Block' = Block
<1>1. \A c : Content(c)' = Content(c)
  BY DEF Content
<1>2. \A c, i : ByteOf(c, i)' = ByteOf(c, i)
  BY <1>1 DEF ByteOf
<1> QED
  BY <1>1, <1>2 DEF Read, Block, smbus_read_block_data_relax

\* A request that goes on the bus is one of the call's, and the call goes on
\* to its next one or is over.
LEMMA OneRequest ==
  ASSUME LibInv, BusRequest, UNCHANGED <<s_drv, hasPec, call, accepts>>,
         k' \in {k + 1, Len(Requests)}, faults' \in Nat, reg' \in Seq(Byte),
         changed' \in BOOLEAN, changed' => faults' > 0,
         pec' = pec
  PROVE  /\ k' \in (k + 1)..Len(Requests) /\ Requests' = Requests
         /\ LibTypes'
<1>1. LibTypes /\ k \in Nat /\ Len(Requests) \in Nat /\ k < Len(Requests)
  BY OnWire DEF LibInv, LibTypes
<1>2. Requests' = Requests /\ k' \in (k + 1)..Len(Requests)
  BY <1>1, Unmoved
<1>3. LibTypes'
  BY <1>1, <1>2 DEF LibTypes
<1> QED
  BY <1>2, <1>3

\* A request that is carried out as the bus allows: its result is what the
\* call comes to.
LEMMA TransferKeeps ==
  ASSUME LibInv, Transfer
  PROVE  LibInv' /\ Requested
<1>1. /\ UNCHANGED <<s_drv, pec, hasPec, slave, call, accepts, faults, changed>>
      /\ BusRequest /\ GoesWell /\ reg' = Stored /\ seen' = seen \cup SentTo
      /\ data' = Block /\ k' = k + 1
      /\ status' = IF s_drv = "fx2lp" THEN FX2LP_Result ELSE I2CDEV_Result
  BY DEF Transfer
<1>2. /\ LibTypes /\ k \in Nat /\ Len(Requests) \in Nat /\ k < Len(Requests)
      /\ call.fn \in BusCalls /\ Midway /\ SentTo = OnBus(call.addr)
      /\ reg \in Seq(Byte) /\ faults \in Nat /\ changed \in BOOLEAN /\ (changed => faults > 0)
      /\ call.bytes \in Seq(Byte)
  BY <1>1, OnWire DEF LibInv, LibTypes
<1>3. /\ k' \in (k + 1)..Len(Requests) /\ Requests' = Requests /\ LibTypes'
  BY <1>1, <1>2, StoredIs, OneRequest
<1>4. Requested
  <2>1. call.fn # "EnablePEC"
    BY <1>2 DEF BusCalls, Reads, Writes, Probes
  <2>2. reg' = reg \/ call.fn \in {"WriteByte", "WriteWord", "WriteBlock", "TestCommandWrite"}
    BY <1>1, <1>2, StoredIs DEF BusCalls, Reads, Writes, Probes
  <2> QED
    BY <1>1, <1>2, <1>3, <2>1, <2>2 DEF Requested
<1>5. ASSUME k' = Len(Requests) PROVE WasRead'
  <2>1. CASE call.fn \in Reads
    <3>0. FX2LP_Result = Read /\ I2CDEV_Result = Read
      BY <2>1 DEF FX2LP_Result, I2CDEV_Result, Reads
    <3>1. status' = Read
      BY <1>1, <3>0
    <3>1a. reg' = reg
      BY <1>1, <2>1, StoredIs
    <3>2. Read' = Read /\ Block' = Block
      BY <1>1, <3>1a, SameRead
    <3> QED
      BY <1>1, <3>1, <3>2 DEF WasRead
  <2> QED
    BY <1>1, <2>1 DEF WasRead
<1>6. ASSUME k' = Len(Requests) PROVE WasWritten'
  <2>1. CASE call.fn \in Writes
    <3>1. Whole /\ call.fn \notin Reads /\ call.fn \notin Probes
      BY <1>1, <2>1 DEF GoesWell, Reads, Writes, Probes
    <3>2. Answering(call.addr)'
      BY <1>1, <3>1, Unmoved, WholeIs, SentType
    <3>3. status' \in Nat
      BY <1>1, <1>2, <2>1, <3>1 DEF FX2LP_Result, I2CDEV_Result, Writes, Probes
    <3>4. AtDevice(call.addr)' /\ call.cmd = Reg /\ call.fn # "SendByte" => reg' = call.bytes
      BY <1>1, <2>1, <3>1, Unmoved, StoredIs
    <3> QED
      BY <1>1, <3>2, <3>3, <3>4 DEF WasWritten
  <2> QED
    BY <1>1, <2>1 DEF WasWritten
<1>7. ASSUME k' = Len(Requests), call.fn \in {"TestAddressACK", "TestCommandACK"} PROVE WasProbed'
  <2>1. (Accepted' <=> Accepted) /\ (Answers <=> Answering(call.addr))
    BY <1>1, Unmoved, WholeIs, SentType
  <2>2. call.fn = "TestCommandACK" => (Whole <=> Accepted)
    <3> SUFFICES ASSUME call.fn = "TestCommandACK" PROVE Whole <=> Accepted
      OBVIOUS
    <3>1. Len(Sent) \in Nat /\ Len(Sent) < 2 /\ 0 < Len(Sent)
      BY <1>2, Lengths
    <3>2. accepts[call.cmd] \in Nat
      BY <1>1, WholeIs, SentType
    <3> QED
      BY <1>1, <3>1, <3>2, WholeIs DEF Accepted, Takes
  <2>3. call.fn = "TestAddressACK" => (Answers <=> Accepted)
    BY <2>1 DEF Accepted
  <2>4. CASE s_drv = "fx2lp"
    <3>1. status' = IF Accepted THEN Ack ELSE 0
      BY <1>1, <1>7, <2>2, <2>3, <2>4 DEF FX2LP_Result, Reads
    <3> QED
      BY <1>1, <1>7, <2>1, <2>4, <3>1 DEF WasProbed, Ack
  <2>5. CASE s_drv # "fx2lp"
    <3>1. Whole /\ status' = 0
      BY <1>1, <1>7, <2>5 DEF I2CDEV_Result, GoesWell, Reads
    <3>2. Accepted
      BY <1>7, <2>2, <2>3, <3>1 DEF Whole
    <3> QED
      BY <1>1, <1>7, <2>1, <2>5, <3>1, <3>2 DEF WasProbed
  <2> QED
    BY <2>4, <2>5
<1>8. ASSUME call.fn = "TestCommandWrite" PROVE Calling'
  <2> DEFINE takes == Takes(call.addr, call.cmd)
  <2>1. takes' = takes /\ takes \in Nat
    BY <1>1, Unmoved, WholeIs, SentType DEF Takes
  <2>2. CASE s_drv = "fx2lp"
    <3>0. Len(Requests) \in Nat /\ 0 < Len(Requests) /\ Len(Requests) < 2
      BY <1>2, <2>2, RequestsOf
    <3>0a. k' = Len(Requests)
      BY <1>2, <1>3, <3>0
    <3>0b. Len(Sent) = 6
      BY <1>1, <1>8, <2>2, ProbeSent
    <3>1. k' = Len(Requests)' /\ Len(Sent) = 6
      BY <1>3, <3>0a, <3>0b
    <3>2. /\ Answering(call.addr) => Taken = IF takes < 6 THEN takes ELSE 6
          /\ ~Answering(call.addr) => takes = 0
          /\ Answers <=> Answering(call.addr)
      BY <1>1, <3>1, WholeIs DEF Takes
    <3>3. status' = IF Answers THEN TestCommandWrite(Taken) ELSE 0
      BY <1>1, <1>8, <2>2 DEF FX2LP_Result, Reads
    <3>4. status' = Count(takes)
      BY <2>1, <3>2, <3>3 DEF TestCommandWrite, Count
    <3>5. WasProbed'
      BY <1>1, <1>8, <2>1, <2>2, <3>4 DEF WasProbed, Count
    <3> QED
      BY <1>1, <1>3, <1>5, <1>6, <3>1, <3>5 DEF Calling
  <2>3. CASE s_drv # "fx2lp"
    <3>1. s_drv = "i2cdev" /\ k \in 0..4 /\ Len(Sent) = size_checks[k + 1]
      BY <1>1, <1>2, <1>8, <2>3, RequestsOf, ProbeSent
    <3>2. Whole /\ status = k /\ status' = k + 1
      BY <1>1, <1>2, <1>8, <2>3, <3>1 DEF GoesWell, Midway, I2CDEV_Result, Reads
    <3>3. takes >= size_checks[k + 1]
      BY <1>1, <3>1, <3>2, WholeIs, SentType DEF Takes, size_checks
    <3>4. Len(Requests) > 4 /\ Len(Requests) < 6 /\ \A j \in 1..5 : Requests[j] = "I2C_RDWR"
      BY <1>2, <1>8, <3>1, RequestsOf
    <3>5. CASE k' < Len(Requests)
      <4>1. Requests[k' + 1] = "I2C_RDWR"
        BY <1>1, <3>1, <3>4, <3>5
      <4>2. Midway'
        BY <1>1, <1>3, <1>8, <2>1, <3>2, <3>3, <4>1 DEF Midway
      <4> QED
        BY <1>3, <3>5, <4>2 DEF Calling
    <3>6. CASE k' = Len(Requests)
      <4>1. takes >= 6 /\ status' = 5
        BY <1>1, <3>1, <3>2, <3>3, <3>4, <3>6 DEF size_checks
      <4>2. Count(takes)' = 5
        BY <2>1, <4>1 DEF Count
      <4>3. WasProbed'
        BY <1>1, <1>8, <2>3, <4>1, <4>2 DEF WasProbed
      <4> QED
        BY <1>1, <1>3, <1>5, <1>6, <3>6, <4>3 DEF Calling
    <3> QED
      BY <1>1, <1>2, <3>4, <3>5, <3>6
  <2> QED
    BY <2>2, <2>3
<1>9. ASSUME call.fn # "TestCommandWrite" PROVE Calling'
  <2>1. k' = Len(Requests)
    <3>1. Requests[k + 1] # "I2C_SLAVE"
      BY <1>1 DEF BusRequest, Pending
    <3> QED
      BY <1>1, <1>2, <1>9, <3>1, RequestsOf
  <2>2. WasProbed'
    BY <1>1, <1>7, <1>9, <2>1 DEF WasProbed
  <2> QED
    BY <1>1, <1>3, <1>5, <1>6, <2>1, <2>2 DEF Calling
<1> QED
  BY <1>3, <1>4, <1>8, <1>9 DEF LibInv

\* A request that fails by a fault: it returns -1, having changed what the
\* device had taken of it, and the fault is counted.
LEMMA TransferFailsKeeps ==
  ASSUME LibInv, TransferFails
  PROVE  LibInv' /\ Requested
<1>1. /\ UNCHANGED <<s_drv, pec, hasPec, slave, call, data, accepts, changed>>
      /\ BusRequest /\ reg' \in {reg, Stored} /\ seen' = seen \cup SentTo
      /\ k' = Len(Requests)
      /\ status' = IF s_drv = "fx2lp" THEN -1 ELSE I2CDEV_Failed
      /\ Fault(GoesWell)
  BY DEF TransferFails, Over
<1>2. /\ LibTypes /\ k \in Nat /\ Len(Requests) \in Nat /\ k < Len(Requests)
      /\ call.fn \in BusCalls /\ Midway /\ SentTo = OnBus(call.addr)
      /\ reg \in Seq(Byte) /\ faults \in Nat /\ changed \in BOOLEAN /\ (changed => faults > 0)
  BY <1>1, OnWire DEF LibInv, LibTypes
<1>3. faults' \in Nat /\ faults' >= faults /\ (GoesWell => faults' > 0)
  BY <1>1, <1>2 DEF Fault
<1>4. k' \in (k + 1)..Len(Requests) /\ Requests' = Requests /\ LibTypes'
  BY <1>1, <1>2, <1>3, StoredIs, OneRequest
<1>5. Requested
  <2>1. call.fn # "EnablePEC"
    BY <1>2 DEF BusCalls, Reads, Writes, Probes
  <2>2. reg' = reg \/ call.fn \in {"WriteByte", "WriteWord", "WriteBlock", "TestCommandWrite"}
    BY <1>1, <1>2, StoredIs DEF BusCalls, Reads, Writes, Probes
  <2> QED
    BY <1>1, <1>2, <1>3, <1>4, <2>1, <2>2 DEF Requested
<1>6. call.fn # "TestCommandWrite" => Fails'
  <2> SUFFICES ASSUME call.fn # "TestCommandWrite", ~GoesWell PROVE Fails'
    BY <1>3 DEF Fails
  <2>1. ~Whole
    BY DEF GoesWell
  <2>2. ~Answering(call.addr) \/ (AtDevice(call.addr) /\ accepts[call.cmd] < Len(Sent))
    BY <1>1, <2>1, SentType, WholeIs
  <2> QED
    BY <1>1, <2>2, Unmoved DEF Fails
<1>7. WasRead' /\ WasWritten'
  <2>1. call.fn \in Reads \cup Writes => status' = -1 /\ call.fn # "TestCommandWrite"
    BY <1>1 DEF Reads, Writes, I2CDEV_Failed
  <2> QED
    BY <1>1, <1>6, <2>1 DEF WasRead, WasWritten
<1>8. ASSUME call.fn \in {"TestAddressACK", "TestCommandACK"} PROVE WasProbed'
  <2>1. Accepted' <=> Accepted
    BY <1>1, Unmoved
  <2>2. status' = -1
    BY <1>1, <1>8 DEF I2CDEV_Failed
  <2>3. CASE s_drv = "fx2lp"
    <3>1. faults' > 0
      BY <1>3, <1>8, <2>3 DEF GoesWell, Probes
    <3> QED
      BY <1>1, <1>8, <2>2, <2>3, <3>1 DEF WasProbed
  <2>4. CASE s_drv # "fx2lp"
    <3>1. faults' > 0 \/ ~Whole
      BY <1>3 DEF GoesWell
    <3>2. ~Whole => ~Accepted
      <4>1. /\ accepts[call.cmd] \in Nat /\ Len(Sent) \in Nat
            /\ call.fn = "TestAddressACK" => Len(Sent) < 1
            /\ call.fn = "TestCommandACK" => Len(Sent) < 2
        BY <1>1, <1>2, WholeIs, SentType, Lengths
      <4>2. ~Whole => \/ ~Answering(call.addr)
                      \/ AtDevice(call.addr) /\ accepts[call.cmd] < Len(Sent)
        BY <1>1, SentType, WholeIs
      <4>3. AtDevice(call.addr) => Answering(call.addr)
        BY DEF AtDevice, Answering
      <4> QED
        BY <1>8, <4>1, <4>2, <4>3 DEF Accepted, Takes
    <3> QED
      BY <1>1, <1>8, <2>1, <2>2, <2>4, <3>1, <3>2 DEF WasProbed
  <2> QED
    BY <2>3, <2>4
<1>9. ASSUME call.fn = "TestCommandWrite" PROVE WasProbed'
  <2> DEFINE takes == Takes(call.addr, call.cmd)
  <2>1. takes' = takes /\ takes \in Nat
    BY <1>1, Unmoved, WholeIs, SentType DEF Takes
  <2>2. CASE s_drv = "fx2lp"
    <3>1. status' = -1 /\ faults' > 0
      BY <1>1, <1>3, <1>9, <2>2 DEF GoesWell, Probes
    <3> QED
      BY <1>1, <1>9, <2>2, <3>1 DEF WasProbed
  <2>3. CASE s_drv # "fx2lp"
    <3>1. s_drv = "i2cdev" /\ k \in 0..4 /\ Len(Sent) = size_checks[k + 1]
      BY <1>1, <1>2, <1>9, <2>3, RequestsOf, ProbeSent
    <3>2. status' = k
      BY <1>1, <1>2, <1>9, <2>3 DEF Midway, I2CDEV_Failed
    <3>3. k > 0 => takes >= size_checks[k]
      BY <1>2, <1>9 DEF Midway
    <3>4. faults' = 0 => takes < size_checks[k + 1]
      <4> SUFFICES ASSUME ~GoesWell PROVE takes < size_checks[k + 1]
        BY <1>3
      <4>1. ~Whole
        BY DEF GoesWell
      <4>2. Len(Sent) \in Nat /\ Len(Sent) > 0
        BY <3>1 DEF size_checks
      <4>3. ~Answering(call.addr) \/ (AtDevice(call.addr) /\ accepts[call.cmd] < Len(Sent))
        BY <1>1, <4>1, <4>2, WholeIs
      <4>4. AtDevice(call.addr) => Answering(call.addr)
        BY DEF AtDevice, Answering
      <4>5. takes < Len(Sent)
        BY <4>2, <4>3, <4>4 DEF Takes
      <4> QED
        BY <3>1, <4>5
    <3>5. k \in 0..Count(takes) /\ (faults' = 0 => k = Count(takes))
      <4> HIDE DEF takes
      <4> QED
        BY <2>1, <3>1, <3>3, <3>4 DEF Count, size_checks
    <3> QED
      BY <1>1, <1>9, <2>1, <2>3, <3>2, <3>5 DEF WasProbed, Count
  <2> QED
    BY <2>2, <2>3
<1>10. WasProbed'
  BY <1>1, <1>8, <1>9 DEF WasProbed
<1>11. Calling'
  BY <1>1, <1>4, <1>7, <1>10 DEF Calling
<1> QED
  BY <1>4, <1>5, <1>11 DEF LibInv

\* A read returns a number.
LEMMA ReadNat ==
  ASSUME LibTypes, call.fn \in Reads
  PROVE  Read \in Nat
<1>1. Content(call.cmd) \in Seq(Byte)
  BY LibraryAssumption DEF LibTypes, Content, BusCalls
<1>2. \A i : ByteOf(call.cmd, i) \in Byte
  BY <1>1, Numbers DEF ByteOf
<1>3. ByteOf(call.cmd, 1) \in Nat /\ ByteOf(call.cmd, 2) \in Nat
  BY <1>2, Numbers
<1>4. (ByteMax + 1) * ByteOf(call.cmd, 2) \in Nat
  BY <1>3, Numbers
<1> QED
  BY <1>1, <1>3, <1>4 DEF Read, Reads

\* A read that was changed on its way.
LEMMA ReadChangedKeeps ==
  ASSUME LibInv, ReadChanged
  PROVE  LibInv' /\ Requested
<1>1. /\ UNCHANGED <<s_drv, pec, hasPec, slave, call, accepts, reg>>
      /\ BusRequest /\ call.fn \in Reads /\ seen' = seen \cup SentTo
      /\ k' = Len(Requests) /\ Fault(TRUE)
      /\ \/ Protected /\ status' = -1 /\ changed' = changed
         \/ /\ ~Protected /\ changed' = TRUE
            /\ status' = IF call.fn = "ReadBlock" THEN Read
                         ELSE (Read + 1) % (ByteMax + 1)
  BY DEF ReadChanged, Over
<1>2. /\ LibTypes /\ k \in Nat /\ Len(Requests) \in Nat /\ k < Len(Requests)
      /\ call.fn \in BusCalls /\ Midway /\ SentTo = OnBus(call.addr)
      /\ reg \in Seq(Byte) /\ faults \in Nat /\ changed \in BOOLEAN /\ (changed => faults > 0)
  BY <1>1, OnWire DEF LibInv, LibTypes
<1>3. faults' \in Nat /\ faults' > faults /\ faults' > 0
  BY <1>1, <1>2 DEF Fault
<1>4. k' \in (k + 1)..Len(Requests) /\ Requests' = Requests /\ LibTypes'
  BY <1>1, <1>2, <1>3, OneRequest
<1>5. ~Protected => ~pec[s_drv] \/ (s_drv = "i2cdev" /\ call.fn = "ReadBlock")
  <2> SUFFICES ASSUME Requests[k + 1] = "I2C_RDWR", k < Len(Requests)
               PROVE  s_drv = "i2cdev" /\ call.fn = "ReadBlock"
    BY DEF Protected, Pending
  <2> QED
    BY <1>1, <1>2, RequestsOf DEF Reads
<1>6. Requested
  BY <1>1, <1>2, <1>3, <1>4, <1>5 DEF Requested, Reads
<1>7. ~Protected => status' \in Nat
  BY <1>1, <1>2, ReadNat, Numbers
<1>8. Calling'
  BY <1>1, <1>3, <1>4, <1>7 DEF Calling, WasRead, WasWritten, WasProbed, Fails, Reads, Writes
<1> QED
  BY <1>4, <1>6, <1>8 DEF LibInv

\* Every request of the library keeps what is known of a call, and is one of
\* the requests of the call.
LEMMA RequestKeeps ==
  ASSUME LibInv, Request
  PROVE  LibInv' /\ Requested
BY AddressIsSet, PecIsSet, TransferKeeps, TransferFailsKeeps, ReadChangedKeeps DEF Request

\* What does not touch the bus keeps it too.
LEMMA BusLeftAlone ==
  ASSUME LibInv,
         UNCHANGED <<s_drv, pec, hasPec, slave, call, k, status, data, accepts, reg, faults,
                     changed>>
  PROVE  LibInv'
<1>1. LibTypes /\ Calling
  BY DEF LibInv
<1>2. Requests' = Requests /\ Sent' = Sent
  BY <1>1 DEF Requests, I2CDEV_Requests, Sent
<1>3. LibTypes'
  BY <1>1, <1>2 DEF LibTypes
<1>4. Read' = Read /\ Block' = Block
  BY SameRead
<1>5. (WasRead' <=> WasRead) /\ (WasWritten' <=> WasWritten) /\ (WasProbed' <=> WasProbed)
  <2>1. Fails' <=> Fails
    BY <1>1, <1>2, Unmoved DEF Fails
  <2>2. WasRead' <=> WasRead
    BY <1>1, <1>4, <2>1 DEF WasRead
  <2>3. WasWritten' <=> WasWritten
    BY <1>1, <2>1, Unmoved DEF WasWritten
  <2>4. WasProbed' <=> WasProbed
    BY <1>1, Unmoved DEF WasProbed, Count, Ack
  <2> QED
    BY <2>2, <2>3, <2>4
<1>6. Midway' <=> Midway
  BY <1>1, <1>2, Unmoved DEF Midway
<1> QED
  BY <1>1, <1>2, <1>3, <1>5, <1>6 DEF LibInv, Calling

\* And what does not touch the library.
LEMMA LibraryStays ==
  ASSUME LibInv, UNCHANGED libVars
  PROVE  LibInv'
BY BusLeftAlone DEF libVars

\* A call begins.
LEMMA BeginKeeps ==
  ASSUME LibInv, s_drv # "none",
         NEW fn \in BusCalls \cup {"EnablePEC"}, NEW addr \in Byte, NEW cmd \in Byte,
         NEW bytes \in Seq(Byte), fn \in {"WriteByte", "WriteWord"} => Len(bytes) > 0,
         Begin(fn, addr, cmd, bytes)
  PROVE  /\ LibInv' /\ k' < Len(Requests)'
         /\ call' = [fn |-> fn, addr |-> addr, cmd |-> cmd, bytes |-> bytes]
         /\ UNCHANGED <<s_drv, pec, hasPec, slave, contended, accepts, reg, seen, faults, changed>>
<1>1. /\ call' = [fn |-> fn, addr |-> addr, cmd |-> cmd, bytes |-> bytes]
      /\ k' = 0 /\ status' = 0
      /\ UNCHANGED <<s_drv, pec, hasPec, slave, contended, accepts, reg, seen, faults, changed>>
  BY DEF Begin
<1>2. s_drv \in {"fx2lp", "i2cdev"}
  BY DEF LibInv, LibTypes
<1>3. Requests' = IF s_drv = "fx2lp" THEN <<"control">> ELSE I2CDEV_Requests(fn)
  BY <1>1 DEF Requests, BusCalls, Reads, Writes, Probes, I2CDEV_Requests
<1>4. Len(Requests)' \in Nat /\ Len(Requests)' > 0 /\ Requests'[1] # "I2C_SMBUS"
  BY <1>2, <1>3 DEF I2CDEV_Requests, size_checks
<1>5. LibTypes'
  BY <1>1, <1>2, <1>4 DEF LibInv, LibTypes
<1>6. Midway'
  BY <1>1, <1>4 DEF Midway
<1>7. Calling'
  BY <1>1, <1>4, <1>6 DEF Calling
<1> QED
  BY <1>1, <1>4, <1>5, <1>7 DEF LibInv

-----------------------------------------------------------------------------
(* From the prompt to the bus                                               *)

\* The digits of a byte.
LEMMA HexNumbers ==
  /\ X = -1 /\ X \in X..(Nibbles - 1) /\ Nibbles \in Nat /\ Nibbles > 0
  /\ \A h, l \in 0..(Nibbles - 1) : Nibbles * h + l \in Byte
<1>1. Nibbles \in Nat /\ Nibbles * Nibbles = ByteMax + 1
  BY ToolsAssumption
<1>2. Nibbles > 0
  BY <1>1, Numbers
<1>3. ASSUME NEW h \in 0..(Nibbles - 1), NEW l \in 0..(Nibbles - 1)
      PROVE  Nibbles * h + l \in Byte
  <2>1. Nibbles * h \in Nat /\ Nibbles * h <= Nibbles * (Nibbles - 1)
    BY <1>1, <1>2
  <2>2. Nibbles * (Nibbles - 1) = Nibbles * Nibbles - Nibbles
    BY <1>1
  <2> QED
    BY <1>1, <2>1, <2>2, Numbers
<1>4. X = -1 /\ X \in X..(Nibbles - 1)
  BY <1>1, <1>2 DEF X
<1> QED
  BY <1>1, <1>2, <1>3, <1>4

\* What an option -s lists are addresses or commands.
LEMMA SkipMapIs ==
  ASSUME NEW pieces \in Seq(Pieces)
  PROVE  SkipMap(pieces) \subseteq Byte
<1>1. ASSUME NEW i \in DOMAIN pieces
      PROVE  (IF pieces[i] = << >> THEN 0 ELSE pieces[i][1]) \in Byte
  <2>1. pieces[i] \in Seq(Byte) /\ Len(pieces[i]) < 2
    BY DEF Pieces
  <2>2. pieces[i] # << >> => pieces[i][1] \in Byte
    BY <2>1
  <2> QED
    BY <2>2, Numbers
<1> QED
  BY <1>1 DEF SkipMap

\* The variables of smbusb_comm, of wider types.
LEMMA RecordsWiden ==
  ASSUME NEW A1, NEW A2, NEW A3, NEW A4, NEW A5, NEW A6, NEW A7,
         NEW B1, NEW B2, NEW B3, NEW B4, NEW B5, NEW B6, NEW B7,
         A1 \subseteq B1, A2 \subseteq B2, A3 \subseteq B3, A4 \subseteq B4,
         A5 \subseteq B5, A6 \subseteq B6, A7 \subseteq B7
  PROVE  [op : A1, addr : A2, cmd : A3, readLen : A4, block : A5, force : A6, noPec : A7]
           \subseteq
         [op : B1, addr : B2, cmd : B3, readLen : B4, block : B5, force : B6, noPec : B7]
OBVIOUS

\* The variables a program starts with are of its tool's shape.
LEMMA VariablesAre ==
  /\ Variables("comm") \subseteq CommVars
  /\ Variables("scan") \subseteq ScanVars
  /\ \A v \in Variables("sbsreport") :
       v.i = 1 /\ v = [i |-> v.i, noPec |-> v.noPec, tempStr |-> v.tempStr]
<1>1. Variables("comm") \subseteq CommVars
  <2>1. << >> \in Seq(X..(Nibbles - 1)) /\ <<X>> \in Seq(X..(Nibbles - 1))
    BY HexNumbers
  <2>1a. {<< >>, <<X>>} \subseteq Typing
    BY <2>1 DEF Typing
  <2>2. {-1, Dev} \subseteq Addresses
    BY Numbers DEF Addresses
  <2>3. Variables("comm") = [op : {0}, addr : {-1, Dev}, cmd : {-1}, readLen : {0},
          block : {<< >>, <<X>>}, force : {FALSE}, noPec : {FALSE}]
    BY DEF Variables
  <2>4. {0} \subseteq 0..3 /\ {0} \subseteq Int /\ {-1} \subseteq Addresses
    BY <2>2
  <2>5. {FALSE} \subseteq BOOLEAN
    OBVIOUS
  <2>6. [op : {0}, addr : {-1, Dev}, cmd : {-1}, readLen : {0},
         block : {<< >>, <<X>>}, force : {FALSE}, noPec : {FALSE}] \subseteq CommVars
    <3> HIDE DEF Addresses, Typing
    <3> QED
      BY <2>1a, <2>2, <2>4, <2>5, RecordsWiden DEF CommVars
  <2> QED
    BY <2>3, <2>6
<1>2. Variables("scan") \subseteq ScanVars
  BY Numbers DEF Variables, ScanVars
<1>3. \A v \in Variables("sbsreport") :
        v.i = 1 /\ v = [i |-> v.i, noPec |-> v.noPec, tempStr |-> v.tempStr]
  BY DEF Variables
<1> QED
  BY <1>1, <1>2, <1>3

\* What an option leaves in the variables.
LEMMA OptionTaken ==
  /\ \A a \in CommOptions : o \in CommVars /\ a.opt # "?" => CommOption(a) \in CommVars
  /\ \A a \in ScanOptions : o \in ScanVars /\ a.opt # "?" =>
       /\ ScanOption(a) \in ScanVars
       /\ ScanOption(a).skip = o.skip \cup (IF a.opt = "skip" THEN SkipMap(a.arg) ELSE {})
<1>1. ASSUME NEW a \in CommOptions, o \in CommVars, a.opt # "?"
      PROVE  CommOption(a) \in CommVars
  <2>1. CASE a.opt \in {"address", "command"}
    BY <1>1, <2>1 DEF CommOptions, CommOption, CommVars, Addresses
  <2>2. CASE a.opt = "read"
    <3>1. [o EXCEPT !.op = 2] \in CommVars /\ a.arg \in Int
      BY <1>1, <2>2 DEF CommOptions, CommVars
    <3>2. \A r \in CommVars : [r EXCEPT !.readLen = a.arg] \in CommVars
      BY <3>1 DEF CommVars
    <3>3. CommOption(a) = [[o EXCEPT !.op = 2] EXCEPT !.readLen = a.arg]
      BY <1>1, <2>2 DEF CommOption, CommVars
    <3> QED
      BY <3>1, <3>2, <3>3
  <2>3. CASE a.opt = "write"
    <3>1. [o EXCEPT !.op = 1] \in CommVars
      BY <1>1 DEF CommVars
    <3>2. a.arg \in Typing
      BY <2>3 DEF CommOptions, Typing
    <3>3. \A r \in CommVars : [r EXCEPT !.block = a.arg] \in CommVars
      BY <3>2 DEF CommVars
    <3>4. CommOption(a) = [[o EXCEPT !.op = 1] EXCEPT !.block = a.arg]
      BY <1>1, <2>3 DEF CommOption, CommVars
    <3> QED
      BY <3>1, <3>3, <3>4
  <2>4. CASE a.opt \in {"null-write", "block-write", "no-pec"}
    <3>1. CASE a.opt = "null-write"
      BY <1>1, <3>1 DEF CommOption, CommVars
    <3>2. CASE a.opt = "block-write"
      BY <1>1, <3>2 DEF CommOption, CommVars
    <3>3. CASE a.opt = "no-pec"
      BY <1>1, <3>3 DEF CommOption, CommVars
    <3> QED
      BY <2>4, <3>1, <3>2, <3>3
  <2>5. a.opt \in {"address", "command", "read", "write", "null-write", "block-write", "no-pec"}
    BY <1>1 DEF CommOptions
  <2> QED
    BY <2>1, <2>2, <2>3, <2>4, <2>5
<1>2. ASSUME NEW a \in ScanOptions, o \in ScanVars, a.opt # "?"
      PROVE  /\ ScanOption(a) \in ScanVars
             /\ ScanOption(a).skip = o.skip \cup (IF a.opt = "skip" THEN SkipMap(a.arg) ELSE {})
  <2>1. a.opt = "skip" => SkipMap(a.arg) \subseteq Byte
    BY SkipMapIs DEF ScanOptions
  <2>2. ScanOption(a) \in ScanVars
    BY <1>2, <2>1 DEF ScanOptions, ScanOption, ScanVars
  <2>3. ScanOption(a).skip = o.skip \cup (IF a.opt = "skip" THEN SkipMap(a.arg) ELSE {})
    BY <1>2 DEF ScanOptions, ScanOption, ScanVars
  <2> QED
    BY <2>2, <2>3
<1> QED
  BY <1>1, <1>2

\* What has been skipped after one more option.
LEMMA SkippedIs ==
  /\ Skipped(0) = {}
  /\ \A p \in Nat : Skipped(p + 1) =
       Skipped(p) \cup (IF line.args[p + 1].opt = "skip" THEN SkipMap(line.args[p + 1].arg) ELSE {})
<1>1. ASSUME NEW p \in Nat PROVE 1..(p + 1) = (1..p) \cup {p + 1}
  OBVIOUS
<1>2. 1..0 = {}
  OBVIOUS
<1> QED
  BY <1>1, <1>2 DEF Skipped

\* What is left of a sequence when its first elements have been taken.
LEMMA OptionsLeft ==
  ASSUME NEW S, NEW s \in Seq(S)
  PROVE  /\ s = SubSeq(s, 1, Len(s))
         /\ \A p \in 0..Len(s) : SubSeq(s, p + 1, Len(s)) = << >> => p = Len(s)
         /\ \A p \in 0..Len(s) : SubSeq(s, p + 1, Len(s)) # << >> =>
              /\ p + 1 \in 0..Len(s) /\ s[p + 1] \in S
              /\ Head(SubSeq(s, p + 1, Len(s))) = s[p + 1]
              /\ Tail(SubSeq(s, p + 1, Len(s))) = SubSeq(s, p + 2, Len(s))
OBVIOUS

\* A program is started: a new line of options, a new device to be opened.
LEMMA LaunchKeeps ==
  ASSUME IInv, Launch
  PROVE  IInv'
<1>1. /\ runs' = runs + 1 /\ runs < MaxRuns /\ line' \in CommandLines[runs']
      /\ args' = line'.args /\ o' \in Variables(line'.tool)
      /\ pc' \in {"ended", "getopt"} /\ out' = << >>
      /\ s_drv' = "none" /\ call' = NoCall /\ k' = 0 /\ seen' = {} /\ faults' = 0
      /\ changed' = FALSE
      /\ UNCHANGED <<pec, hasPec, accepts, reg, typed>>
  BY DEF Launch, End
<1>2. runs' \in 1..MaxRuns
  BY <1>1, ToolsAssumption DEF IInv, Inv0, Shapes
<1>3. tool' \in {"comm", "scan", "sbsreport"} /\ line'.args \in Seq(OptionsOf[tool'])
  <2>1. line'.tool \in DOMAIN OptionsOf /\ line'.args \in Seq(OptionsOf[line'.tool])
    BY <1>1, <1>2, ToolsAssumption
  <2> QED
    BY <2>1 DEF OptionsOf, tool
<1>4. LibInv'
  <2>1. Requests' = << >>
    BY <1>1 DEF Requests, NoCall
  <2>2. LibTypes'
    <3>1. k' \in 0..Len(Requests)' /\ faults' \in Nat /\ s_drv' \in {"none", "fx2lp", "i2cdev"}
      BY <1>1, <2>1
    <3>2. /\ pec' \in [{"fx2lp", "i2cdev"} -> BOOLEAN] /\ hasPec' \in BOOLEAN
          /\ accepts' \in [Byte -> Nat] /\ reg' \in Seq(Byte)
      BY <1>1 DEF IInv, Inv0, LibInv, LibTypes
    <3>3. changed' \in BOOLEAN /\ ~changed'
      BY <1>1
    <3>4. call'.fn # "EnablePEC" /\ call'.fn \notin BusCalls
      BY <1>1 DEF NoCall, BusCalls, Reads, Writes, Probes
    <3> QED
      BY <3>1, <3>2, <3>3, <3>4 DEF LibTypes
  <2>3. Calling'
    BY <1>1 DEF Calling, NoCall, BusCalls, Reads, Writes, Probes
  <2> QED
    BY <2>2, <2>3 DEF LibInv
<1>5. Shapes'
  <2>1. /\ tool' = "comm" => o' \in CommVars
        /\ tool' = "scan" => o' \in ScanVars /\ o'.skip = {}
        /\ tool' = "sbsreport" =>
             o'.i = 1 /\ o' = [i |-> o'.i, noPec |-> o'.noPec, tempStr |-> o'.tempStr]
    BY <1>1, VariablesAre DEF tool, Variables
  <2>2. Len(Report) \in Nat
    BY ToolsAssumption DEF Report
  <2>3. Skipped(0)' = {}
    BY DEF Skipped
  <2>4. args' = SubSeq(line'.args, 1, Len(line'.args)) /\ Len(line'.args) \in Nat
    BY <1>1, <1>3, OptionsLeft
  <2> QED
    <3>1. (\E p \in 0..Len(line.args) :
             /\ args = SubSeq(line.args, p + 1, Len(line.args))
             /\ tool = "scan" => o.skip = Skipped(p))'
      <4>1. /\ 0 \in 0..Len(line'.args)
            /\ args' = SubSeq(line'.args, 0 + 1, Len(line'.args))
            /\ tool' = "scan" => o'.skip = Skipped(0)'
        <5>1. 0 \in 0..Len(line'.args) /\ 0 + 1 = 1
          BY <2>4
        <5>2. args' = SubSeq(line'.args, 0 + 1, Len(line'.args))
          BY <2>4, <5>1
        <5> QED
          BY <2>1, <2>3, <5>1, <5>2
      <4> QED
        BY <4>1
    <3>2. tool' = "sbsreport" =>
            /\ o'.i \in 1..(Len(Report) + 1)
            /\ o' = [i |-> o'.i, noPec |-> o'.noPec, tempStr |-> o'.tempStr]
      BY <2>1, <2>2
    <3> QED
      <4>1. runs' \in 0..MaxRuns
        BY <1>2
      <4>2. tool' = "comm" => o' \in CommVars
        BY <2>1
      <4>3. tool' = "scan" => o' \in ScanVars
        BY <2>1
      <4> QED
        BY <1>3, <3>1, <3>2, <4>1, <4>2, <4>3 DEF Shapes
<1>6. Course'
  <2>1. Requests' = << >>
    BY <1>1 DEF Requests, NoCall
  <2> QED
    BY <1>1, <1>3, <2>1 DEF Course, NoCall, BusCalls, Reads, Writes, Probes
<1>7. PecOn' /\ PecAsked' /\ Commanding' /\ Kept'
  BY <1>1 DEF PecOn, PecAsked, Commanding, Kept, IInv, SentAs
<1>8. Scanning' /\ Reporting'
  BY <1>1 DEF Scanning, Reporting, NamesAreDevices
<1> QED
  BY <1>4, <1>5, <1>6, <1>7, <1>8 DEF IInv, Inv0

\* An option is taken; or the usage is printed and the program ends.
LEMMA GetOptKeeps ==
  ASSUME IInv, GetOpt
  PROVE  IInv'
<1>1. /\ pc = "getopt" /\ args # << >> /\ args' = Tail(args)
      /\ UNCHANGED libVars /\ UNCHANGED <<line, out, runs, typed>>
      /\ UNCHANGED <<s_drv, pec, hasPec, call, k, status, accepts, reg, seen, faults, changed>>
  BY DEF GetOpt, libVars
<1>2. \/ /\ Head(args).opt = "?" /\ pc' = "ended" /\ o' = o
      \/ /\ Head(args).opt # "?" /\ pc' = pc
         /\ o' = CASE tool = "comm" -> CommOption(Head(args))
                   [] tool = "scan" -> ScanOption(Head(args))
                   [] OTHER         -> o
  BY DEF GetOpt, End
<1>3. LibInv' /\ LibTypes
  BY <1>1, LibraryStays DEF IInv, Inv0, LibInv
<1>4. tool' = tool /\ Requests' = Requests
  BY <1>1, Unmoved DEF tool
<1>5. s_drv = "none" /\ call = NoCall /\ seen = {} /\ ~changed /\ faults = 0 /\ k = Len(Requests)
  BY <1>1 DEF IInv, Inv0, Course
<1>6. Shapes'
  <2>1. /\ tool \in {"comm", "scan", "sbsreport"} /\ line.args \in Seq(OptionsOf[tool])
        /\ tool = "comm" => o \in CommVars
        /\ tool = "scan" => o \in ScanVars
        /\ tool = "sbsreport" =>
             /\ o.i \in 1..(Len(Report) + 1)
             /\ o = [i |-> o.i, noPec |-> o.noPec, tempStr |-> o.tempStr]
        /\ runs \in 0..MaxRuns
    BY DEF IInv, Inv0, Shapes
  <2>2. PICK p \in 0..Len(line.args) :
          /\ args = SubSeq(line.args, p + 1, Len(line.args))
          /\ tool = "scan" => o.skip = Skipped(p)
    BY <1>1 DEF IInv, Inv0, Shapes
  <2>3. CASE pc' = "ended" /\ o' = o
    BY <1>1, <1>4, <2>1, <2>3 DEF Shapes, Report
  <2>4. CASE Head(args).opt # "?" /\ pc' = pc
             /\ o' = CASE tool = "comm" -> CommOption(Head(args))
                       [] tool = "scan" -> ScanOption(Head(args))
                       [] OTHER         -> o
    <3> DEFINE a == line.args[p + 1]
    <3>1. /\ p + 1 \in 0..Len(line.args) /\ a \in OptionsOf[tool] /\ Head(args) = a
          /\ args' = SubSeq(line.args, (p + 1) + 1, Len(line.args))
      <4>1. p + 2 = (p + 1) + 1 /\ line.args \in Seq(OptionsOf[tool])
        BY <2>1
      <4>2. args = SubSeq(line.args, p + 1, Len(line.args)) /\ args # << >>
        BY <1>1, <2>2
      <4> QED
        BY <1>1, <4>1, <4>2, OptionsLeft
    <3>2. tool = "comm" => o' \in CommVars
      <4> SUFFICES ASSUME tool = "comm" PROVE o' \in CommVars
        OBVIOUS
      <4>1. a \in CommOptions /\ o' = CommOption(a)
        BY <2>4, <3>1 DEF OptionsOf
      <4> QED
        BY <2>1, <2>4, <3>1, <4>1, OptionTaken
    <3>3. tool = "scan" => o' \in ScanVars /\ o'.skip = Skipped(p + 1)
      <4> SUFFICES ASSUME tool = "scan" PROVE o' \in ScanVars /\ o'.skip = Skipped(p + 1)
        OBVIOUS
      <4>1. a \in ScanOptions /\ o' = ScanOption(a)
        BY <2>4, <3>1 DEF OptionsOf
      <4>2. Skipped(p + 1) = Skipped(p) \cup (IF a.opt = "skip" THEN SkipMap(a.arg) ELSE {})
        <5>1. p \in Nat
          BY <2>1
        <5> QED
          BY <5>1, SkippedIs
      <4> QED
        BY <2>1, <2>2, <2>4, <3>1, <4>1, <4>2, OptionTaken
    <3>4. tool = "sbsreport" => o' = o
      BY <2>4
    <3>5. Skipped(p + 1)' = Skipped(p + 1)
      BY <1>1 DEF Skipped
    <3>6. /\ args' = SubSeq(line'.args, (p + 1) + 1, Len(line'.args))
          /\ tool' = "scan" => o'.skip = Skipped(p + 1)'
          /\ p + 1 \in 0..Len(line'.args)
      BY <1>1, <1>4, <3>1, <3>3, <3>5
    <3>7. (\E q \in 0..Len(line.args) :
             /\ args = SubSeq(line.args, q + 1, Len(line.args))
             /\ tool = "scan" => o.skip = Skipped(q))'
      BY <3>6
    <3>8. tool' = "sbsreport" =>
            /\ o'.i \in 1..(Len(Report) + 1)
            /\ o' = [i |-> o'.i, noPec |-> o'.noPec, tempStr |-> o'.tempStr]
      BY <1>4, <2>1, <3>4
    <3>9. line'.args \in Seq(OptionsOf[tool']) /\ runs' \in 0..MaxRuns
      BY <1>1, <1>4, <2>1
    <3> QED
      BY <1>4, <2>1, <3>2, <3>3, <3>7, <3>8, <3>9 DEF Shapes
  <2> QED
    BY <1>2, <2>3, <2>4
<1>7. Course'
  BY <1>1, <1>2, <1>4, <1>5 DEF IInv, Inv0, Course, NoCall
<1>8. PecOn' /\ PecAsked' /\ Commanding' /\ Kept'
  BY <1>1, <1>2, <1>5 DEF PecOn, PecAsked, Commanding, Kept, IInv, SentAs
<1>9. Scanning'
  BY <1>1, <1>2, <1>4, <1>5 DEF Scanning, IInv
<1>10. Reporting'
  BY <1>1, <1>2, <1>4, <1>5 DEF Reporting, NamesAreDevices, IInv, TooLong
<1> QED
  BY <1>3, <1>6, <1>7, <1>8, <1>9, <1>10 DEF IInv, Inv0

\* The device is opened, or the program ends with the error.
LEMMA OpenKeeps ==
  ASSUME IInv, SMBOpenDevice
  PROVE  IInv'
<1>1. /\ pc = "getopt" /\ args = << >>
      /\ UNCHANGED <<hasPec, slave, contended, call, k, status, data, accepts, reg, seen,
                     faults, changed, line, args, o, out, runs, typed>>
      /\ \/ pc' = "ended" /\ s_drv' = s_drv /\ pec' = pec
         \/ /\ s_drv' \in {"fx2lp", "i2cdev"} /\ pec' = [pec EXCEPT !["i2cdev"] = FALSE]
            /\ pc' = IF tool = "scan" THEN "run" ELSE "pec"
  BY DEF SMBOpenDevice, End
<1>2. /\ s_drv = "none" /\ call = NoCall /\ seen = {} /\ ~changed /\ faults = 0
      /\ k = Len(Requests)
  BY <1>1 DEF IInv, Inv0, Course
<1>3. Requests = << >> /\ Requests' = << >> /\ call.fn = "none"
  BY <1>1, <1>2 DEF Requests, NoCall
<1>4. LibInv'
  <2>1. /\ pec' \in [{"fx2lp", "i2cdev"} -> BOOLEAN] /\ s_drv' \in {"none", "fx2lp", "i2cdev"}
        /\ k' \in 0..Len(Requests)'
    BY <1>1, <1>2, <1>3 DEF IInv, Inv0, LibInv, LibTypes
  <2>2. call'.fn # "EnablePEC" /\ call'.fn \notin BusCalls
    BY <1>1, <1>3 DEF BusCalls, Reads, Writes, Probes
  <2>3. LibTypes'
    BY <1>1, <1>2, <2>1, <2>2 DEF IInv, Inv0, LibInv, LibTypes
  <2> QED
    BY <2>2, <2>3 DEF LibInv, Calling
<1>5. tool' = tool
  BY <1>1 DEF tool
<1>6. Shapes'
  BY <1>1, <1>5 DEF IInv, Inv0, Shapes, Report
<1>7. Course'
  BY <1>1, <1>2, <1>3, <1>5 DEF IInv, Inv0, Shapes, Course, NoCall, BusCalls, Reads, Writes, Probes
<1>8. PecOn' /\ PecAsked' /\ Commanding' /\ Kept'
  BY <1>1, <1>2, <1>5 DEF PecOn, PecAsked, Commanding, Kept, IInv, Inv0, Shapes, SentAs
<1>9. Scanning'
  <2> SUFFICES ASSUME tool = "scan" PROVE Scanning'
    BY <1>5 DEF Scanning
  <2>1. o.skip = Skipped(Len(line.args))
    <3>1. PICK p \in 0..Len(line.args) :
            args = SubSeq(line.args, p + 1, Len(line.args)) /\ o.skip = Skipped(p)
      BY <1>1 DEF IInv, Inv0, Shapes
    <3>2. line.args \in Seq(OptionsOf[tool])
      BY DEF IInv, Inv0, Shapes
    <3>3. p = Len(line.args)
      BY <1>1, <3>1, <3>2, OptionsLeft
    <3> QED
      BY <3>1, <3>3
  <2>2. Skipped(Len(line.args))' = Skipped(Len(line.args)) /\ out = << >>
    BY <1>1 DEF Skipped, IInv, Scanning
  <2> QED
    BY <1>1, <1>2, <2>1, <2>2 DEF Scanning
<1>10. Reporting'
  <2>1. tool = "sbsreport" => out = << >>
    BY <1>1 DEF IInv, Reporting
  <2> QED
    BY <1>1, <1>5, <2>1 DEF Reporting, NamesAreDevices
<1> QED
  BY <1>4, <1>6, <1>7, <1>8, <1>9, <1>10 DEF IInv, Inv0

\* PEC is to be set as the options ask.
LEMMA CallEnablePECKeeps ==
  ASSUME IInv, CallEnablePEC
  PROVE  IInv'
<1>1. /\ pc = "pec" /\ pc' = "set"
      /\ UNCHANGED <<line, args, o, out, exit, runs, typed>>
      /\ Begin("EnablePEC", 0, IF o.noPec THEN 0 ELSE 1, << >>)
  BY DEF CallEnablePEC
<1>2. s_drv # "none" /\ seen = {} /\ ~changed
  BY <1>1 DEF IInv, Inv0, Course
<1>3. /\ LibInv' /\ k' < Len(Requests)' /\ call'.fn = "EnablePEC"
      /\ call'.cmd = IF o.noPec THEN 0 ELSE 1
      /\ UNCHANGED <<s_drv, pec, hasPec, slave, contended, accepts, reg, seen, faults, changed>>
  <2> DEFINE cmd == IF o.noPec THEN 0 ELSE 1
  <2>1. cmd \in Byte /\ 0 \in Byte
    BY Numbers
  <2>2. "EnablePEC" \notin {"WriteByte", "WriteWord"} /\ << >> \in Seq(Byte)
    OBVIOUS
  <2>3. Begin("EnablePEC", 0, cmd, << >>)
    BY <1>1
  <2> HIDE DEF cmd
  <2>4. /\ LibInv' /\ k' < Len(Requests)'
        /\ call' = [fn |-> "EnablePEC", addr |-> 0, cmd |-> cmd, bytes |-> << >>]
        /\ UNCHANGED <<s_drv, pec, hasPec, slave, contended, accepts, reg, seen, faults, changed>>
    BY <1>2, <2>1, <2>2, <2>3, BeginKeeps DEF IInv, Inv0
  <2> QED
    BY <2>4 DEF cmd
<1>4. tool' = tool /\ tool # "scan"
  BY <1>1 DEF tool, IInv, Inv0, Course
<1>5. Shapes'
  BY <1>1, <1>4 DEF IInv, Inv0, Shapes, Report
<1>6. Course'
  BY <1>1, <1>2, <1>3, <1>4 DEF IInv, Inv0, Course, BusCalls, Reads, Writes, Probes
<1>7. PecOn' /\ PecAsked'
  BY <1>1, <1>3 DEF PecOn, PecAsked
<1>8. Commanding' /\ Kept' /\ Scanning'
  BY <1>1, <1>3, <1>4 DEF Commanding, Kept, Scanning, IInv, SentAs
<1>9. Reporting'
  BY <1>1, <1>3, <1>4 DEF Reporting, NamesAreDevices, IInv, TooLong
<1> QED
  BY <1>3, <1>5, <1>6, <1>7, <1>8, <1>9 DEF IInv, Inv0

\* PEC has been set: what is known of it is that it is on, or not asked for,
\* or not there, or that a fault was in the way.
LEMMA PECSetKeeps ==
  ASSUME IInv, PECSet
  PROVE  IInv'
<1>1. /\ pc = "set" /\ pc' = "run" /\ k = Len(Requests)
      /\ UNCHANGED libVars /\ UNCHANGED <<line, args, o, out, exit, runs, typed>>
      /\ UNCHANGED <<s_drv, pec, hasPec, call, k, status, accepts, reg, seen, faults, changed>>
  BY DEF PECSet, Returned, libVars
<1>2. LibInv'
  BY <1>1, LibraryStays DEF IInv, Inv0
<1>3. tool' = tool /\ tool # "scan" /\ Requests' = Requests
  BY <1>1, Unmoved DEF tool, IInv, Inv0, Course
<1>4. Shapes'
  BY <1>1, <1>3 DEF IInv, Inv0, Shapes, Report
<1>5. Course'
  BY <1>1, <1>3 DEF IInv, Inv0, Course, BusCalls, Reads, Writes, Probes
<1>6. PecOn' /\ PecAsked'
  BY <1>1, <1>3 DEF PecOn, PecAsked, IInv
<1>7. Commanding' /\ Kept' /\ Scanning'
  BY <1>1, <1>3 DEF Commanding, Kept, Scanning, IInv, SentAs
<1>8. Reporting'
  BY <1>1, <1>3 DEF Reporting, NamesAreDevices, IInv, TooLong
<1> QED
  BY <1>2, <1>4, <1>5, <1>6, <1>7, <1>8 DEF IInv, Inv0

-----------------------------------------------------------------------------
(* smbusb_comm, step by step                                                *)

\* A sequence without its first two elements.
LEMMA WithoutTwo ==
  ASSUME NEW S, NEW s \in Seq(S), Len(s) > 1
  PROVE  SubSeq(s, 3, Len(s)) \in Seq(S)
OBVIOUS

\* What smbusb_comm decodes are bytes, if it does not refuse them.
LEMMA DecodedIs ==
  ASSUME o \in CommVars
  PROVE  /\ Digits(o.block) \in Typing /\ Decoded \in Seq(Int)
         /\ ~WriteRefused /\ o.op = 1 =>
              /\ Decoded \in Seq(Byte)
              /\ ~BlockWrite /\ Digits(o.block) # << >> => Len(Decoded) \in {1, 2}
         /\ Digits(o.block) = << >> => Decoded = << >>
<1> DEFINE d == Digits(o.block)
<1>1. o.block \in Typing /\ o.block \in Seq(X..(Nibbles - 1))
  BY DEF CommVars, Typing
<1>2. d \in Typing /\ d \in Seq(X..(Nibbles - 1)) /\ Len(d) \in Nat
  <2>1. Len(o.block) > 1 => SubSeq(o.block, 3, Len(o.block)) \in Seq(X..(Nibbles - 1))
    BY <1>1, WithoutTwo
  <2>2. d \in Seq(X..(Nibbles - 1))
    BY <1>1, <2>1 DEF Digits
  <2> QED
    BY <2>2 DEF Typing
<1>3. d = o.block \/ Len(d) = Len(o.block) - 2
  BY <1>1 DEF Digits
<1>4. /\ Decoded = [t \in 1..(Len(d) \div 2) |-> Nibbles * d[2*t - 1] + d[2*t]]
      /\ Len(d) \div 2 \in Nat
  BY <1>2 DEF Decoded, hex_decode
<1>5. ASSUME NEW t \in 1..(Len(d) \div 2)
      PROVE  2*t - 1 \in DOMAIN d /\ 2*t \in DOMAIN d
  BY <1>2
<1> HIDE DEF d
<1>6. Decoded \in Seq(Int) /\ Len(Decoded) = Len(d) \div 2
  <2>1. ASSUME NEW t \in 1..(Len(d) \div 2)
        PROVE  Nibbles * d[2*t - 1] + d[2*t] \in Int
    <3>1. d[2*t - 1] \in Int /\ d[2*t] \in Int /\ Nibbles \in Int
      BY <1>2, <1>5, HexNumbers DEF X
    <3> QED
      BY <3>1
  <2> QED
    BY <1>4, <2>1
<1>7. ASSUME ~WriteRefused, o.op = 1
      PROVE  /\ Decoded \in Seq(Byte)
             /\ ~BlockWrite /\ d # << >> => Len(Decoded) \in {1, 2}
  <2>1. Len(o.block) % 2 = 0 /\ \A i \in DOMAIN d : d[i] # X
    BY <1>7 DEF WriteRefused, d
  <2>2. ASSUME NEW t \in 1..(Len(d) \div 2)
        PROVE  Nibbles * d[2*t - 1] + d[2*t] \in Byte
    <3>1. d[2*t - 1] \in 0..(Nibbles - 1) /\ d[2*t] \in 0..(Nibbles - 1)
      BY <1>2, <1>5, <2>1, HexNumbers
    <3> QED
      BY <3>1, HexNumbers
  <2>3. Decoded \in Seq(Byte)
    BY <1>4, <2>2
  <2>4. Len(d) % 2 = 0
    <3>1. \A n \in Nat : n % 2 = 0 /\ n - 2 \in Nat => (n - 2) % 2 = 0
      OBVIOUS
    <3>2. Len(o.block) \in Nat
      BY <1>1
    <3> QED
      BY <1>2, <1>3, <2>1, <3>1, <3>2
  <2>5. ~BlockWrite => Len(d) <= 4
    BY <1>2 DEF BlockWrite, d
  <2>6. d # << >> => Len(d) > 0
    BY <1>2
  <2> QED
    BY <1>2, <1>6, <2>3, <2>4, <2>5, <2>6
<1>8. d = << >> => Decoded = << >>
  BY <1>4
<1> QED
  BY <1>2, <1>6, <1>7, <1>8 DEF d

\* A program on its way to a call of the device.
LEMMA CommCalls ==
  ASSUME IInv, tool = "comm", pc = "run", pc' = "called",
         UNCHANGED <<line, args, o, out, exit, runs>>,
         NEW fn \in BusCalls, NEW addr \in Byte, NEW cmd \in Byte, NEW bytes \in Seq(Byte),
         fn \in {"WriteByte", "WriteWord"} => Len(bytes) > 0,
         Begin(fn, addr, cmd, bytes), Meant',
         typed' \in {typed, NoTyping}, o.op = 1 => typed' = NoTyping
  PROVE  IInv'
<1>1. s_drv # "none" /\ ~changed
  BY DEF IInv, Inv0, Course
<1>2. /\ LibInv' /\ k' < Len(Requests)' /\ call'.fn \in BusCalls
      /\ UNCHANGED <<s_drv, pec, hasPec, slave, contended, accepts, reg, seen, faults, changed>>
  <2>1. /\ LibInv' /\ k' < Len(Requests)'
        /\ call' = [fn |-> fn, addr |-> addr, cmd |-> cmd, bytes |-> bytes]
        /\ UNCHANGED <<s_drv, pec, hasPec, slave, contended, accepts, reg, seen, faults, changed>>
    BY <1>1, BeginKeeps DEF IInv, Inv0
  <2> QED
    BY <2>1
<1>3. tool' = tool
  BY DEF tool
<1>4. Shapes'
  BY <1>3 DEF IInv, Inv0, Shapes, Report
<1>5. Course'
  BY <1>1, <1>2, <1>3 DEF IInv, Inv0, Course
<1>6. PecOn' /\ PecAsked'
  BY <1>2, <1>3 DEF PecOn, PecAsked, IInv
<1>7. Commanding'
  BY <1>1, <1>2, <1>3 DEF Commanding, Garbled
<1>8. Kept'
  BY <1>2, <1>3 DEF Kept, IInv, SentAs
<1>9. Scanning' /\ Reporting'
  BY <1>3 DEF Scanning, Reporting
<1> QED
  BY <1>2, <1>4, <1>5, <1>6, <1>7, <1>8, <1>9 DEF IInv, Inv0

\* smbusb_comm calls the write its operands ask for.
LEMMA CommWritesKeeps ==
  ASSUME IInv, comm_Writes
  PROVE  IInv'
<1> DEFINE fn == IF BlockWrite THEN "WriteBlock"
                 ELSE IF Len(Decoded) = 1 THEN "WriteByte" ELSE "WriteWord"
           bytes == SentAs(BlockWrite, Decoded)
<1>1. /\ tool = "comm" /\ pc = "run" /\ ~Missing /\ ~WriteRefused /\ o.op = 1
      /\ o.force \/ Digits(o.block) # << >>
      /\ pc' = "called" /\ typed' = NoTyping /\ UNCHANGED <<line, args, o, out, exit, runs>>
      /\ IF BlockWrite THEN Begin("WriteBlock", o.addr, o.cmd, Decoded)
         ELSE IF Len(Decoded) = 1 THEN Begin("WriteByte", o.addr, o.cmd, Decoded)
         ELSE Begin("WriteWord", o.addr, o.cmd, Reverse(Decoded))
  BY DEF comm_Writes, Decoded, Swapped
<1>2. o \in CommVars
  BY <1>1 DEF IInv, Inv0, Shapes
<1>3. o.addr \in Byte /\ o.cmd \in Byte
  BY <1>1, <1>2 DEF Missing, CommVars, Addresses
<1>4. Decoded \in Seq(Byte) /\ (~BlockWrite => Len(Decoded) \in {1, 2})
  BY <1>1, <1>2, DecodedIs DEF BlockWrite
<1>5. bytes \in Seq(Byte) /\ (fn # "WriteBlock" => Len(bytes) > 0)
  <2>1. Reverse(Decoded) \in Seq(Byte) /\ Len(Reverse(Decoded)) = Len(Decoded)
    BY <1>4 DEF Reverse
  <2> QED
    BY <1>4, <2>1 DEF SentAs
<1>6. Begin(fn, o.addr, o.cmd, bytes)
  <2>1. CASE BlockWrite
    BY <1>1, <2>1 DEF SentAs
  <2>2. CASE ~BlockWrite /\ Len(Decoded) = 1
    BY <1>1, <2>2 DEF SentAs
  <2>3. CASE ~BlockWrite /\ Len(Decoded) = 2
    BY <1>1, <2>3 DEF SentAs
  <2> QED
    BY <1>4, <2>1, <2>2, <2>3
<1>7. fn \in BusCalls /\ (fn \in {"WriteByte", "WriteWord"} => Len(bytes) > 0)
  BY <1>5 DEF BusCalls, Writes
<1>8. Meant'
  <2>1. call' = [fn |-> fn, addr |-> o.addr, cmd |-> o.cmd, bytes |-> bytes]
    BY <1>6 DEF Begin
  <2>2. (WriteRefused' <=> WriteRefused) /\ Decoded' = Decoded /\ (BlockWrite' <=> BlockWrite)
    BY <1>1 DEF WriteRefused, Decoded, BlockWrite
  <2> QED
    BY <1>1, <1>4, <2>1, <2>2 DEF Meant, SentAs
<1> HIDE DEF fn, bytes
<1> QED
  BY <1>1, <1>3, <1>5, <1>6, <1>7, <1>8, CommCalls

\* smbusb_comm calls the read its operands ask for.
LEMMA CommReadsKeeps ==
  ASSUME IInv, comm_Reads
  PROVE  IInv'
<1> DEFINE fn == CASE o.readLen = 1 -> "ReadByte" [] o.readLen = 2 -> "ReadWord"
                   [] OTHER -> "ReadBlock"
           bytes == << >>
<1>1. /\ tool = "comm" /\ pc = "run" /\ ~Missing /\ o.op = 2 /\ pc' = "called"
      /\ UNCHANGED <<line, args, o, out, exit, runs>> /\ typed' = typed
      /\ Begin(fn, o.addr, o.cmd, bytes)
  BY DEF comm_Reads
<1>2. o \in CommVars
  BY <1>1 DEF IInv, Inv0, Shapes
<1>3. o.addr \in Byte /\ o.cmd \in Byte /\ bytes \in Seq(Byte)
  BY <1>1, <1>2 DEF Missing, CommVars, Addresses
<1>4. fn \in BusCalls /\ fn \notin {"WriteByte", "WriteWord"}
  BY DEF BusCalls, Reads
<1>5. Meant'
  BY <1>1 DEF Meant, Begin
<1> HIDE DEF fn, bytes
<1> QED
  BY <1>1, <1>3, <1>4, <1>5, CommCalls

\* smbusb_comm calls SendByte.
LEMMA CommSendsByteKeeps ==
  ASSUME IInv, comm_SendsByte
  PROVE  IInv'
<1> DEFINE fn == "SendByte"
           bytes == << >>
<1>1. /\ tool = "comm" /\ pc = "run" /\ ~Missing /\ o.op = 3 /\ pc' = "called"
      /\ UNCHANGED <<line, args, o, out, exit, runs>> /\ typed' = typed
      /\ Begin(fn, o.addr, o.cmd, bytes)
  BY DEF comm_SendsByte
<1>2. o \in CommVars
  BY <1>1 DEF IInv, Inv0, Shapes
<1>3. o.addr \in Byte /\ o.cmd \in Byte /\ bytes \in Seq(Byte)
  BY <1>1, <1>2 DEF Missing, CommVars, Addresses
<1>4. fn \in BusCalls /\ fn \notin {"WriteByte", "WriteWord"}
  BY DEF BusCalls, Writes
<1>5. Meant'
  BY <1>1 DEF Meant, Begin
<1> HIDE DEF fn, bytes
<1> QED
  BY <1>1, <1>3, <1>4, <1>5, CommCalls

\* A program that ends on the bus's side unchanged.
LEMMA CommEnds ==
  ASSUME IInv, tool = "comm", pc \in {"run", "called"}, pc' = "ended", k = Len(Requests),
         UNCHANGED libVars, UNCHANGED <<line, args, o, runs>>,
         Commanding', Kept'
  PROVE  IInv'
<1>1. UNCHANGED <<s_drv, pec, hasPec, call, k, status, accepts, reg, seen, faults, changed>>
  BY DEF libVars
<1>2. LibInv' /\ tool' = tool /\ Requests' = Requests
  BY <1>1, LibraryStays, Unmoved DEF IInv, Inv0, tool
<1>3. Shapes'
  BY <1>1, <1>2 DEF IInv, Inv0, Shapes, Report
<1>4. Course'
  BY <1>1, <1>2 DEF IInv, Inv0, Course
<1>5. PecOn' /\ PecAsked' /\ Scanning' /\ Reporting'
  BY <1>2 DEF PecOn, PecAsked, Scanning, Reporting
<1> QED
  BY <1>2, <1>3, <1>4, <1>5 DEF IInv, Inv0

\* smbusb_comm refuses to write: it ends having sent nothing.
LEMMA CommRefusesKeeps ==
  ASSUME IInv, comm_Refuses
  PROVE  IInv'
<1>1. /\ tool = "comm" /\ pc = "run" /\ pc' = "ended" /\ exit' = -5
      /\ UNCHANGED libVars /\ UNCHANGED <<line, args, o, runs>> /\ typed' = typed
  BY DEF comm_Refuses, End
<1>2. k = Len(Requests) /\ seen = {} /\ seen' = seen /\ reg' = reg
  BY <1>1 DEF IInv, Inv0, Course, libVars
<1>3. Commanding' /\ Kept'
  BY <1>1, <1>2 DEF Commanding, Kept, IInv, SentAs
<1> QED
  BY <1>1, <1>2, <1>3, CommEnds

\* smbusb_comm has nothing to do.
LEMMA CommNothingKeeps ==
  ASSUME IInv, comm_Nothing
  PROVE  IInv'
<1>1. /\ tool = "comm" /\ pc = "run" /\ pc' = "ended" /\ exit' = 0
      /\ UNCHANGED libVars /\ UNCHANGED <<line, args, o, runs>> /\ typed' = typed
      /\ o.op \in {0, 1}
      /\ o.op = 1 => o.block = << >> \/ Digits(o.block) = << >>
  BY DEF comm_Nothing, End
<1>2. k = Len(Requests) /\ reg' = reg
  BY <1>1 DEF IInv, Inv0, Course, libVars
<1>3. o.op = 1 => Decoded = << >>
  <2>1. o.block = << >> => Digits(o.block) = << >>
    BY DEF Digits
  <2> QED
    BY <1>1, <2>1, DecodedIs DEF IInv, Inv0, Shapes
<1>4. Decoded' = Decoded
  BY <1>1 DEF Decoded
<1>5. Commanding' /\ Kept'
  BY <1>1, <1>2, <1>3, <1>4 DEF Commanding, Kept, IInv, SentAs
<1> QED
  BY <1>1, <1>2, <1>5, CommEnds

\* The call of smbusb_comm has returned: what it exits with and prints, and,
\* after a write of the register, that the register holds what was typed.
LEMMA CommReturnsKeeps ==
  ASSUME IInv, comm_Returns
  PROVE  IInv'
<1>1. /\ tool = "comm" /\ pc = "called" /\ Returned /\ pc' = "ended"
      /\ UNCHANGED libVars /\ UNCHANGED <<line, args, o, runs>>
      /\ IF Failed
           THEN exit' = status /\ typed' = typed
           ELSE /\ exit' = 0 /\ out' = Printed
                /\ typed' = IF o.op = 1 /\ AtDevice(o.addr) /\ o.cmd = Reg
                              THEN [block |-> BlockWrite, bytes |-> Decoded]
                              ELSE typed
  BY DEF comm_Returns, End, Decoded
<1>2. /\ k = Len(Requests) /\ Meant /\ Garbled /\ call.fn \in BusCalls
      /\ o.op = 1 => typed = NoTyping
      /\ UNCHANGED <<s_drv, pec, hasPec, call, k, status, data, accepts, reg, seen, faults,
                     changed>>
  BY <1>1 DEF IInv, Inv0, Course, Commanding, Returned, libVars
<1>3. /\ (Meant' <=> Meant) /\ (Garbled' <=> Garbled) /\ (Returned' <=> Returned)
      /\ (Failed' <=> Failed) /\ Printed' = Printed
  <2>1. (WriteRefused' <=> WriteRefused) /\ Decoded' = Decoded /\ (BlockWrite' <=> BlockWrite)
    BY <1>1 DEF WriteRefused, Decoded, BlockWrite
  <2>2. Meant' <=> Meant
    BY <1>1, <1>2, <2>1 DEF Meant, SentAs
  <2>3. (Garbled' <=> Garbled) /\ (Failed' <=> Failed) /\ Printed' = Printed
    BY <1>1, <1>2 DEF Garbled, Unprotected, Failed, Printed
  <2>4. Returned' <=> Returned
    BY <1>2, Unmoved DEF Returned
  <2> QED
    BY <2>2, <2>3, <2>4
<1>4. Commanding'
  BY <1>1, <1>2, <1>3 DEF Commanding
<1>5. Kept'
  <2>1. tool' = "comm" /\ reg' = reg
    BY <1>1, <1>2 DEF tool
  <2>2. CASE ~Failed /\ o.op = 1 /\ AtDevice(o.addr) /\ o.cmd = Reg
    <3>1. typed' = [block |-> BlockWrite, bytes |-> Decoded]
      BY <1>1, <2>2 DEF Failed
    <3>2. /\ Decoded \in Seq(Byte) /\ (~BlockWrite => Len(Decoded) \in {1, 2})
          /\ call.addr = o.addr /\ call.cmd = o.cmd /\ call.bytes = SentAs(BlockWrite, Decoded)
          /\ call.fn \in {"WriteByte", "WriteWord", "WriteBlock"}
      BY <1>2, <2>2 DEF Meant
    <3>3. WasWritten
      BY <1>2 DEF IInv, Inv0, LibInv, Calling
    <3>4. reg = call.bytes
      BY <2>2, <3>2, <3>3 DEF WasWritten, Failed, Writes
    <3> QED
      BY <1>1, <2>1, <2>2, <3>2, <3>4 DEF Kept
  <2>3. CASE typed' = typed
    BY <2>1, <2>3 DEF Kept, IInv, SentAs
  <2> QED
    BY <1>1, <2>2, <2>3
<1> QED
  BY <1>1, <1>2, <1>4, <1>5, CommEnds

-----------------------------------------------------------------------------
(* What goes on beneath a program                                           *)

\* Another master, or nobody, has taken a step.
LEMMA Untouched ==
  ASSUME IInv, UNCHANGED toolVars,
         UNCHANGED <<s_drv, pec, hasPec, slave, call, k, status, data, accepts, reg, seen, faults,
                     changed>>
  PROVE  IInv'
<1>1. UNCHANGED <<pc, line, args, o, out, exit, runs, typed>>
  BY DEF toolVars
<1>2. LibInv' /\ tool' = tool /\ Requests' = Requests
  BY <1>1, BusLeftAlone, Unmoved DEF IInv, Inv0, tool
<1>3. \A p : Skipped(p)' = Skipped(p)
  BY <1>1 DEF Skipped
<1>4. Shapes'
  BY <1>1, <1>2, <1>3 DEF IInv, Inv0, Shapes, Report
<1>5. Course'
  BY <1>1, <1>2 DEF IInv, Inv0, Course
<1>6. PecOn' /\ PecAsked'
  BY <1>1, <1>2 DEF PecOn, PecAsked, IInv
<1>7. Commanding'
  <2>1. (WriteRefused' <=> WriteRefused) /\ Decoded' = Decoded /\ (BlockWrite' <=> BlockWrite)
    BY <1>1 DEF WriteRefused, Decoded, BlockWrite
  <2>2. (Meant' <=> Meant) /\ (Garbled' <=> Garbled)
    BY <1>1, <2>1 DEF Meant, SentAs, Garbled, Unprotected
  <2>3. (Failed' <=> Failed) /\ Printed' = Printed /\ (Returned' <=> Returned)
    BY <1>1, <1>2 DEF Failed, Printed, Returned
  <2> QED
    BY <1>1, <1>2, <2>1, <2>2, <2>3 DEF Commanding, IInv
<1>8. Kept'
  BY <1>1, <1>2 DEF Kept, IInv, SentAs
<1>9. Scanning'
  <2>1. Wanted' = Wanted /\ Probe' = Probe /\ AlwaysSkipped' = AlwaysSkipped /\ Reported' = Reported
    BY <1>1 DEF Wanted, Probe, AlwaysSkipped, Reported
  <2>2. \A i : (Tried(i)' <=> Tried(i)) /\ Truth(i)' = Truth(i)
    BY <1>1, <2>1, Unmoved DEF Tried, Truth
  <2> QED
    BY <1>1, <1>2, <1>3, <2>1, <2>2 DEF Scanning, IInv
<1>10. Reporting'
  BY <1>1, <1>2 DEF Reporting, NamesAreDevices, IInv, TooLong, Report
<1> QED
  BY <1>2, <1>4, <1>5, <1>6, <1>7, <1>8, <1>9, <1>10 DEF IInv, Inv0

\* What a call is of: the tool says.
LEMMA CallsOf ==
  ASSUME IInv, pc = "called"
  PROVE  /\ call.fn \in BusCalls
         /\ tool = "comm" => call.fn \in Reads \cup Writes
         /\ tool = "comm" /\ call.fn \notin Reads => call.fn = "SendByte" \/ o.op = 1
         /\ tool = "scan" => call.fn \in Probes
         /\ tool = "sbsreport" => call.fn \in Reads
<1>1. call.fn \in BusCalls /\ tool \in {"comm", "scan", "sbsreport"}
  BY DEF IInv, Inv0, Course, Shapes
<1>2. ASSUME tool = "comm"
      PROVE  /\ call.fn \in Reads \cup Writes
             /\ call.fn \notin Reads => call.fn = "SendByte" \/ o.op = 1
  <2>1. Meant /\ o.op \in 0..3
    BY <1>2 DEF IInv, Inv0, Shapes, CommVars, Commanding
  <2>2. o.op = 0 => FALSE
    BY <2>1 DEF Meant
  <2>3. o.op = 1 => call.fn \in Writes
    BY <2>1 DEF Meant, Writes
  <2>4. o.op = 2 => call.fn \in Reads
    BY <2>1 DEF Meant, Reads
  <2>5. o.op = 3 => call.fn = "SendByte"
    BY <2>1 DEF Meant
  <2> QED
    BY <2>1, <2>2, <2>3, <2>4, <2>5 DEF Writes
<1>3. ASSUME tool = "scan" PROVE call.fn \in Probes
  BY <1>3 DEF IInv, Inv0, Shapes, ScanVars, Scanning, Probe, Probes
<1>4. ASSUME tool = "sbsreport" PROVE call.fn \in Reads
  BY <1>4 DEF IInv, Reporting, Reads
<1> QED
  BY <1>1, <1>2, <1>3, <1>4

\* The driver takes a request of the call: of a read, a write or a probe.
LEMMA DriverKeeps ==
  ASSUME IInv, Driver
  PROVE  IInv'
<1>1. /\ LibInv' /\ Requested /\ UNCHANGED <<pc, line, args, o, out, exit, runs, typed>>
  BY RequestKeeps DEF Driver, IInv, Inv0, toolVars
<1>2. /\ UNCHANGED <<s_drv, hasPec, call, accepts>> /\ k' \in (k + 1)..Len(Requests)
      /\ faults \in Nat /\ faults' \in Nat /\ faults' >= faults
      /\ k \in Nat /\ Len(Requests) \in Nat /\ k < Len(Requests)
  <2>1. k \in 0..Len(Requests) /\ faults \in Nat /\ faults' \in Nat
    BY <1>1 DEF IInv, Inv0, LibInv, LibTypes
  <2>2. /\ UNCHANGED <<s_drv, hasPec, call, accepts>>
        /\ k' \in (k + 1)..Len(Requests) /\ faults' >= faults
    BY <1>1 DEF Requested
  <2>3. k \in Nat /\ k < Len(Requests) /\ Len(Requests) \in Nat
    BY <2>1, <2>2
  <2> QED
    BY <2>1, <2>2, <2>3
<1>3. pc \in {"set", "called"}
  BY <1>2 DEF IInv, Inv0, Course
<1>4. tool' = tool /\ Requests' = Requests
  BY <1>1, <1>2, Unmoved DEF tool
<1>5. \A p : Skipped(p)' = Skipped(p)
  BY <1>1 DEF Skipped
<1>6. Shapes'
  BY <1>1, <1>4, <1>5 DEF IInv, Inv0, Shapes, Report
<1>7. pc = "set" => call.fn = "EnablePEC" /\ call.fn \notin BusCalls /\ tool # "scan"
  BY DEF IInv, Inv0, Course, BusCalls, Reads, Writes, Probes
<1>8. seen' = seen \/ call.fn \in BusCalls
  BY <1>1 DEF Requested
<1>9. pc = "set" => changed' = changed
  BY <1>1, <1>7 DEF Requested, Reads
<1>10. Course'
  BY <1>1, <1>2, <1>3, <1>4, <1>7, <1>8, <1>9 DEF IInv, Inv0, Course
<1>11. PecAsked'
  BY <1>1, <1>2 DEF PecAsked, IInv
<1>12. PecOn'
  <2>1. CASE pc = "set"
    <3>1. call.cmd = 1 => pec'[s_drv] \/ faults' > 0 \/ (s_drv = "i2cdev" /\ ~hasPec)
      BY <1>1, <1>7, <2>1 DEF Requested
    <3>2. o.noPec \/ call.cmd = 1
      BY <2>1 DEF IInv, PecAsked
    <3> QED
      BY <1>1, <1>2, <3>1, <3>2 DEF PecOn
  <2>2. CASE pc = "called"
    <3>1. pec' = pec
      BY <1>1, <2>2, CallsOf DEF Requested, BusCalls, Reads, Writes, Probes
    <3>2. faults > 0 => faults' > 0
      BY <1>2
    <3> QED
      BY <1>1, <1>2, <1>4, <2>2, <3>1, <3>2 DEF PecOn, IInv
  <2> QED
    BY <1>3, <2>1, <2>2
<1>13. Commanding'
  <2> SUFFICES ASSUME tool = "comm", pc = "called" PROVE Commanding'
    BY <1>1, <1>3, <1>4 DEF Commanding
  <2>1. (WriteRefused' <=> WriteRefused) /\ Decoded' = Decoded /\ (BlockWrite' <=> BlockWrite)
    BY <1>1 DEF WriteRefused, Decoded, BlockWrite
  <2>2. /\ Meant /\ (o.op = 1 => typed = NoTyping) /\ ~changed
    BY <1>2 DEF IInv, Commanding, Returned
  <2>3. Meant'
    BY <1>1, <1>2, <2>1, <2>2 DEF Meant, SentAs
  <2>4. changed' => /\ k' = Len(Requests) /\ faults' > faults
                    /\ ~pec[s_drv] \/ (s_drv = "i2cdev" /\ call.fn = "ReadBlock")
    BY <1>1, <2>2 DEF Requested
  <2>5. Garbled'
    <3>1. pec[s_drv] \/ o.noPec \/ faults > 0 \/ (s_drv = "i2cdev" /\ ~hasPec)
      BY DEF IInv, PecOn
    <3>2. faults > 0 /\ faults' > faults => faults' > 1
      BY <1>2
    <3>3. Unprotected' <=> Unprotected
      BY <1>1, <1>2 DEF Unprotected
    <3> QED
      BY <2>4, <3>1, <3>2, <3>3 DEF Garbled, Unprotected
  <2>6. ~Returned' => ~changed'
    <3>1. call.fn # "none"
      BY CallsOf DEF BusCalls, Reads, Writes, Probes
    <3> QED
      BY <1>2, <1>4, <2>4, <3>1 DEF Returned
  <2> QED
    BY <1>1, <2>2, <2>3, <2>5, <2>6 DEF Commanding
<1>14. Kept'
  <2>1. typed # NoTyping => reg' = reg
    <3> SUFFICES ASSUME typed # NoTyping,
                        call.fn \in {"WriteByte", "WriteWord", "WriteBlock", "TestCommandWrite"}
                 PROVE  FALSE
      BY <1>1 DEF Requested
    <3>1. pc = "called"
      BY <1>3, <1>7
    <3>2. tool # "scan"
      BY <3>1 DEF IInv, Kept
    <3>3. tool = "comm"
      BY <3>1, <3>2, CallsOf DEF Reads, IInv, Inv0, Shapes
    <3>4. o.op # 1
      BY <3>1, <3>3 DEF IInv, Commanding
    <3> QED
      BY <3>1, <3>3, <3>4, CallsOf DEF Reads
  <2> QED
    BY <1>1, <1>4, <2>1 DEF Kept, IInv, SentAs
<1>15. Reporting'
  <2>1. ~changed' => ~changed
    BY <1>1 DEF Requested
  <2> QED
    BY <1>1, <1>2, <1>4, <2>1 DEF Reporting, NamesAreDevices, IInv, TooLong, Report
<1>16. Scanning'
  <2> SUFFICES ASSUME tool = "scan", pc = "called" PROVE Scanning'
    BY <1>1, <1>3, <1>4, <1>7 DEF Scanning
  <2>1. Wanted' = Wanted /\ Probe' = Probe /\ AlwaysSkipped' = AlwaysSkipped /\ Reported' = Reported
    BY <1>1 DEF Wanted, Probe, AlwaysSkipped, Reported
  <2>2. \A i : (Tried(i)' <=> Tried(i)) /\ Truth(i)' = Truth(i)
    BY <1>1, <1>2, <2>1, Unmoved DEF Tried, Truth
  <2>3. faults' = 0 => faults = 0
    BY <1>2
  <2>4. o.mode = "address" => seen' \cap Reserved = {}
    <3> SUFFICES ASSUME o.mode = "address" PROVE seen' \cap Reserved = {}
      OBVIOUS
    <3>1. seen \cap Reserved = {} /\ s_drv # "none" /\ call.addr = o.i /\ o.i \in Wanted
      BY DEF IInv, Inv0, Course, Scanning, Probe
    <3>2. o.i \notin Reserved /\ o.i \in Nat
      BY <3>1 DEF Wanted, IInv, Inv0, Shapes, ScanVars
    <3>3. OnBus(o.i) \cap Reserved = {}
      <4>1. ASSUME NEW a \in Reserved, a \in Both(o.i) PROVE FALSE
        <5>1. Both(a) \subseteq Reserved
          BY LibraryAssumption
        <5>2. Both(a) = Both(o.i) /\ o.i \in Both(o.i)
          BY <3>2, <4>1, Pairs
        <5> QED
          BY <3>2, <5>1, <5>2
      <4> QED
        BY <3>2, <4>1 DEF OnBus
    <3> QED
      BY <1>1, <3>1, <3>3 DEF Requested
  <2> QED
    BY <1>1, <1>2, <1>4, <1>5, <2>1, <2>2, <2>3, <2>4 DEF Scanning, IInv
<1> QED
  BY <1>1, <1>6, <1>10, <1>11, <1>12, <1>13, <1>14, <1>15, <1>16 DEF IInv, Inv0

-----------------------------------------------------------------------------
(* smbusb_scan, step by step                                                *)

\* How many of a probe's messages are no longer than t.
LEMMA HowMany ==
  ASSUME NEW t \in Nat
  PROVE  Cardinality({n \in {1, 2, 3, 5, 6} : n <= t}) = Count(t)
<1> DEFINE S == {n \in {1, 2, 3, 5, 6} : n <= t}
<1>1. IsFiniteSet({}) /\ Cardinality({}) = 0
  BY FS_EmptySet
<1>2. IsFiniteSet({1}) /\ Cardinality({1}) = 1
  BY FS_Singleton
<1>3. IsFiniteSet({1, 2}) /\ Cardinality({1, 2}) = 2
  <2>1. {1, 2} = {1} \cup {2} /\ 2 \notin {1}
    OBVIOUS
  <2> QED
    BY <1>2, <2>1, FS_AddElement
<1>4. IsFiniteSet({1, 2, 3}) /\ Cardinality({1, 2, 3}) = 3
  <2>1. {1, 2, 3} = {1, 2} \cup {3} /\ 3 \notin {1, 2}
    OBVIOUS
  <2> QED
    BY <1>3, <2>1, FS_AddElement
<1>5. IsFiniteSet({1, 2, 3, 5}) /\ Cardinality({1, 2, 3, 5}) = 4
  <2>1. {1, 2, 3, 5} = {1, 2, 3} \cup {5} /\ 5 \notin {1, 2, 3}
    OBVIOUS
  <2> QED
    BY <1>4, <2>1, FS_AddElement
<1>6. IsFiniteSet({1, 2, 3, 5, 6}) /\ Cardinality({1, 2, 3, 5, 6}) = 5
  <2>1. {1, 2, 3, 5, 6} = {1, 2, 3, 5} \cup {6} /\ 6 \notin {1, 2, 3, 5}
    OBVIOUS
  <2> QED
    BY <1>5, <2>1, FS_AddElement
<1>7. CASE t = 0
  <2>1. S = {}
    BY <1>7
  <2> QED
    BY <1>1, <1>7, <2>1 DEF Count
<1>8. CASE t = 1
  <2>1. S = {1}
    BY <1>8
  <2> QED
    BY <1>2, <1>8, <2>1 DEF Count
<1>9. CASE t = 2
  <2>1. S = {1, 2}
    BY <1>9
  <2> QED
    BY <1>3, <1>9, <2>1 DEF Count
<1>10. CASE t \in {3, 4}
  <2>1. S = {1, 2, 3}
    BY <1>10
  <2> QED
    BY <1>4, <1>10, <2>1 DEF Count
<1>11. CASE t = 5
  <2>1. S = {1, 2, 3, 5}
    BY <1>11
  <2> QED
    BY <1>5, <1>11, <2>1 DEF Count
<1>12. CASE t > 5
  <2>1. S = {1, 2, 3, 5, 6}
    BY <1>12
  <2> QED
    BY <1>6, <1>12, <2>1 DEF Count
<1> QED
  BY <1>7, <1>8, <1>9, <1>10, <1>11, <1>12

\* What a scan is to try: its range without what is to be skipped.
LEMMA WantedIs ==
  ASSUME tool = "scan", line.args \in Seq(OptionsOf[tool]), o \in ScanVars
  PROVE  /\ Wanted = (o.start..o.end) \ (Skipped(Len(line.args)) \cup AlwaysSkipped)
         /\ Wanted \subseteq Byte
<1> DEFINE skips(a) == IF a.opt = "skip" THEN SkipMap(a.arg) ELSE {}
<1>1. DOMAIN line.args = 1..Len(line.args)
  OBVIOUS
<1>2. UNION {skips(a) : a \in {line.args[i] : i \in DOMAIN line.args}} = Skipped(Len(line.args))
  BY <1>1 DEF Skipped
<1>3. Wanted = (o.start..o.end) \ (Skipped(Len(line.args)) \cup AlwaysSkipped)
  BY <1>2 DEF Wanted, AlwaysSkipped
<1>4. o.start..o.end \subseteq Byte
  BY Numbers DEF ScanVars
<1> QED
  BY <1>3, <1>4

\* Who answers at an address that a scan for addresses tries.
LEMMA WhoAnswers ==
  ASSUME NEW i \in Nat, i \notin Reserved
  PROVE  Answering(i) <=> i \in {Dev, Dev + 1}
<1>1. i \in OnBus(i) /\ OnBus(i) \subseteq Both(i)
  BY Pairs DEF OnBus
<1>2. ASSUME NEW a \in OnBus(i), a \in {Dev, Dev + 1} PROVE i \in {Dev, Dev + 1}
  <2>1. Both(i) = Both(a) /\ Both(Dev) = {Dev, Dev + 1} /\ Dev \in Nat
    BY <1>1, <1>2, Pairs, Numbers, LibraryAssumption
  <2>2. Both(a) = {Dev, Dev + 1}
    BY <1>2, <2>1, Pairs
  <2> QED
    BY <1>1, <2>1, <2>2
<1>3. ASSUME NEW a \in OnBus(i), a \in Reserved PROVE FALSE
  <2>1. Both(a) \subseteq Reserved /\ Both(i) = Both(a)
    BY <1>1, <1>3, Pairs, LibraryAssumption
  <2> QED
    BY <1>1, <2>1
<1> QED
  BY <1>1, <1>2, <1>3 DEF Answering

\* What smbusb_scan makes of a probe is never more than the device does, and
\* exactly that where nothing went wrong.
LEMMA Verdict ==
  ASSUME IInv, tool = "scan", pc = "called", k = Len(Requests)
  PROVE  /\ Says \in Int /\ Truth(o.i) \in Nat /\ Says <= Truth(o.i)
         /\ faults = 0 => IF s_drv = "fx2lp" \/ o.mode = "command-write"
                             THEN Says = Truth(o.i)
                             ELSE Says # 0 <=> Truth(o.i) = 0
<1>1. /\ o \in ScanVars /\ o.mode # "none" /\ o.i \in Wanted
      /\ call = [fn |-> Probe[1], addr |-> Probe[2], cmd |-> Probe[3], bytes |-> << >>]
      /\ line.args \in Seq(OptionsOf[tool])
  BY DEF IInv, Inv0, Shapes, Scanning
<1>2. o.i \in Byte /\ o.i \in Nat /\ (o.mode = "address" => o.i \notin Reserved)
  BY <1>1, WantedIs, Numbers DEF Wanted
<1>3. /\ WasProbed /\ faults \in Nat /\ s_drv \in {"fx2lp", "i2cdev"}
      /\ accepts \in [Byte -> Nat]
  BY CallsOf DEF IInv, Inv0, LibInv, LibTypes, Calling
<1>4. Ack \in Nat /\ Ack > 2
  BY Numbers DEF Ack
<1>5. CASE o.mode \in {"address", "command"}
  <2>1. /\ call.fn \in {"TestAddressACK", "TestCommandACK"} /\ call.fn # "TestCommandWrite"
        /\ Truth(o.i) = IF Accepted THEN 1 ELSE 0
    <3>1. CASE o.mode = "address"
      <4>1. call.fn = "TestAddressACK" /\ call.addr = o.i
        BY <1>1, <3>1 DEF Probe
      <4>2. Accepted <=> o.i \in {Dev, Dev + 1}
        BY <1>2, <3>1, <4>1, WhoAnswers DEF Accepted
      <4> QED
        BY <3>1, <4>1, <4>2 DEF Truth
    <3>2. CASE o.mode = "command"
      <4>1. call.fn = "TestCommandACK" /\ call.addr = o.addr /\ call.cmd = o.i
        BY <1>1, <3>2 DEF Probe
      <4> QED
        BY <3>2, <4>1 DEF Truth, Accepted
    <3> QED
      BY <1>5, <3>1, <3>2
  <2>2. IF s_drv = "fx2lp"
          THEN (status = -1 /\ faults > 0) \/ status = IF Accepted THEN Ack ELSE 0
          ELSE (status = -1 /\ (faults > 0 \/ ~Accepted)) \/ (status = 0 /\ Accepted)
    BY <1>3, <2>1 DEF WasProbed
  <2>3. Says = IF status < 0 THEN -1 ELSE IF status = Ack THEN 1 ELSE 0
    BY <1>5 DEF Says
  <2>4. o.mode # "command-write"
    BY <1>5
  <2>5. CASE s_drv = "fx2lp"
    BY <1>3, <1>4, <2>1, <2>2, <2>3, <2>5
  <2>6. CASE s_drv # "fx2lp"
    BY <1>3, <1>4, <2>1, <2>2, <2>3, <2>4, <2>6
  <2> QED
    BY <2>5, <2>6
<1>6. CASE o.mode = "command-write"
  <2> DEFINE t == Takes(o.addr, o.i)
  <2>1. call.fn = "TestCommandWrite" /\ call.addr = o.addr /\ call.cmd = o.i
    BY <1>1, <1>6 DEF Probe
  <2>2. t \in Nat
    BY <1>2, <1>3 DEF Takes
  <2>3. Truth(o.i) = Count(t) /\ Count(t) \in Nat
    BY <1>6, <2>2, HowMany DEF Truth, Count
  <2>4. IF s_drv = "fx2lp" THEN (status = -1 /\ faults > 0) \/ status = Count(t)
        ELSE status \in 0..Count(t) /\ (faults = 0 => status = Count(t))
    BY <1>3, <2>1 DEF WasProbed
  <2>5. Says = IF status < 0 THEN -1 ELSE status
    BY <1>6 DEF Says
  <2> QED
    BY <1>3, <1>6, <2>3, <2>4, <2>5
<1> QED
  BY <1>1, <1>5, <1>6 DEF ScanVars

\* A step of a scan between two calls.
LEMMA ScanGoesOn ==
  ASSUME IInv, tool = "scan", s_drv # "none", k = Len(Requests), pc' \in {"next", "ended"},
         UNCHANGED libVars, UNCHANGED <<line, args, runs>>, o' \in ScanVars, typed' = NoTyping,
         Scanning'
  PROVE  IInv'
<1>1. UNCHANGED <<s_drv, pec, hasPec, call, k, status, accepts, reg, seen, faults, changed>>
  BY DEF libVars
<1>2. LibInv' /\ tool' = tool /\ Requests' = Requests
  BY <1>1, LibraryStays, Unmoved DEF IInv, Inv0, tool
<1>3. Shapes'
  BY <1>2 DEF IInv, Inv0, Shapes
<1>4. Course'
  BY <1>1, <1>2 DEF IInv, Inv0, Course
<1>5. PecOn' /\ PecAsked' /\ Commanding' /\ Kept' /\ Reporting'
  BY <1>2 DEF PecOn, PecAsked, Commanding, Kept, Reporting
<1> QED
  BY <1>2, <1>3, <1>4, <1>5 DEF IInv, Inv0

\* The loop of a scan begins.
LEMMA ScanBeginsKeeps ==
  ASSUME IInv, scan_Begins
  PROVE  IInv'
<1>1. /\ tool = "scan" /\ pc = "run" /\ typed' = NoTyping
      /\ UNCHANGED libVars /\ UNCHANGED <<line, args, runs>> /\ out' = out
      /\ \/ o.mode = "none" /\ pc' = "ended" /\ o' = o
         \/ /\ o.mode # "none" /\ pc' = "next"
            /\ o' = [o EXCEPT !.i = o.start, !.skip = @ \cup AlwaysSkipped]
  BY DEF scan_Begins, End
<1>2. /\ o \in ScanVars /\ s_drv # "none" /\ k = Len(Requests) /\ seen = {}
      /\ o.skip = Skipped(Len(line.args)) /\ out = << >>
      /\ line.args \in Seq(OptionsOf[tool])
  BY <1>1 DEF IInv, Inv0, Shapes, Course, Scanning
<1>3. o' \in ScanVars
  <2>1. AlwaysSkipped \subseteq Byte /\ Byte \subseteq Nat
    BY LibraryAssumption, Numbers DEF AlwaysSkipped
  <2> QED
    BY <1>1, <1>2, <2>1 DEF ScanVars
<1>4. Scanning'
  <2> SUFFICES ASSUME o.mode # "none" PROVE Scanning'
    BY <1>1 DEF Scanning
  <2>1. /\ o'.mode = o.mode /\ o'.i = o.start /\ o'.start = o.start /\ o'.end = o.end
        /\ o'.skip = Skipped(Len(line.args)) \cup AlwaysSkipped
    BY <1>1, <1>2 DEF ScanVars
  <2>2. /\ seen' = {} /\ out' = << >> /\ faults' = faults /\ tool' = tool /\ pc' = "next"
        /\ AlwaysSkipped' = AlwaysSkipped /\ s_drv' = s_drv
        /\ Skipped(Len(line.args))' = Skipped(Len(line.args))
    BY <1>1, <1>2, <2>1 DEF libVars, tool, AlwaysSkipped, Skipped
  <2>3. Reported' = {} /\ DOMAIN out' = {}
    BY <2>2 DEF Reported
  <2>4. Wanted' \subseteq o.start..o.end
    BY <2>1 DEF Wanted
  <2>5. ASSUME NEW i \in Byte PROVE ~Tried(i)'
    BY <1>2, <2>1, <2>4, Numbers DEF Tried, ScanVars
  <2>6. o'.i >= o'.start
    BY <1>2, <2>1, Numbers DEF ScanVars
  <2> QED
    BY <2>1, <2>2, <2>3, <2>5, <2>6 DEF Scanning
<1> QED
  BY <1>1, <1>2, <1>3, <1>4, ScanGoesOn

\* The loop is over.
LEMMA ScanEndsKeeps ==
  ASSUME IInv, scan_Ends
  PROVE  IInv'
<1>1. /\ tool = "scan" /\ pc = "next" /\ pc' = "ended" /\ o.i > o.end
      /\ UNCHANGED libVars /\ UNCHANGED <<line, args, runs>>
      /\ o' = o /\ out' = out /\ typed' = typed
  BY DEF scan_Ends, End
<1>2. /\ o \in ScanVars /\ s_drv # "none" /\ k = Len(Requests) /\ typed = NoTyping
  BY <1>1 DEF IInv, Inv0, Shapes, Course, Kept
<1>3. Scanning'
  <2>1. /\ Wanted' = Wanted /\ AlwaysSkipped' = AlwaysSkipped /\ Reported' = Reported
        /\ Skipped(Len(line.args))' = Skipped(Len(line.args)) /\ tool' = tool
        /\ UNCHANGED <<s_drv, call, accepts, seen, faults>>
    BY <1>1 DEF Wanted, AlwaysSkipped, Reported, Skipped, tool, libVars
  <2>2. \A i : (Tried(i)' <=> Tried(i)) /\ Truth(i)' = Truth(i)
    BY <1>1, <2>1, Unmoved DEF Tried, Truth
  <2> QED
    BY <1>1, <2>1, <2>2 DEF Scanning, IInv
<1> QED
  BY <1>1, <1>2, <1>3, ScanGoesOn

\* One address or command is left out.
LEMMA ScanSkipsKeeps ==
  ASSUME IInv, scan_Skips
  PROVE  IInv'
<1>1. /\ tool = "scan" /\ pc = "next" /\ pc' = "next" /\ o.i <= o.end /\ o.i \in o.skip
      /\ o' = [o EXCEPT !.i = o.i + 1]
      /\ UNCHANGED libVars /\ UNCHANGED <<line, args, runs>> /\ out' = out /\ typed' = typed
  BY DEF scan_Skips, NextOne
<1>2. /\ o \in ScanVars /\ s_drv # "none" /\ k = Len(Requests) /\ typed = NoTyping
      /\ o.skip = Skipped(Len(line.args)) \cup AlwaysSkipped /\ o.i >= o.start
      /\ line.args \in Seq(OptionsOf[tool])
  BY <1>1 DEF IInv, Inv0, Shapes, Course, Kept, Scanning
<1>3. /\ o' \in ScanVars /\ o'.i = o.i + 1 /\ o'.mode = o.mode /\ o'.skip = o.skip
      /\ o'.start = o.start /\ o'.end = o.end /\ o'.addr = o.addr /\ o.i \in Nat /\ o.start \in Nat
  <2>1. o.i \in Nat /\ o.i + 1 \in Nat
    BY <1>2 DEF ScanVars
  <2>2. o.start \in Byte /\ o.start \in Nat
    BY <1>2, Numbers DEF ScanVars
  <2>3. \A i \in Nat : [o EXCEPT !.i = i] \in ScanVars
    BY <1>2 DEF ScanVars
  <2>4. /\ o'.i = o.i + 1 /\ o'.mode = o.mode /\ o'.skip = o.skip
        /\ o'.start = o.start /\ o'.end = o.end /\ o'.addr = o.addr
    BY <1>1, <1>2 DEF ScanVars
  <2> QED
    BY <1>1, <2>1, <2>2, <2>3, <2>4
<1>4. Scanning'
  <2>1. /\ Wanted' = Wanted /\ AlwaysSkipped' = AlwaysSkipped /\ Reported' = Reported
        /\ Skipped(Len(line.args))' = Skipped(Len(line.args)) /\ tool' = tool
        /\ UNCHANGED <<s_drv, call, accepts, seen, faults>>
    BY <1>1, <1>3 DEF Wanted, AlwaysSkipped, Reported, Skipped, tool, libVars
  <2>2. o.i \notin Wanted
    BY <1>1, <1>2, WantedIs
  <2>3. ASSUME NEW i PROVE Tried(i)' <=> Tried(i)
    <3>1. i \in Wanted => i \in Nat
      BY <1>1, <1>2, WantedIs, Numbers
    <3> QED
      BY <1>3, <2>1, <2>2, <3>1 DEF Tried
  <2>4. \A i : Truth(i)' = Truth(i)
    BY <1>1, <1>3, <2>1, Unmoved DEF Truth
  <2>5. o'.i >= o'.start
    BY <1>2, <1>3
  <2> QED
    BY <1>1, <1>3, <2>1, <2>3, <2>4, <2>5 DEF Scanning, IInv
<1> QED
  BY <1>1, <1>2, <1>3, <1>4, ScanGoesOn

\* A sequence with one more element.
LEMMA OneMore ==
  ASSUME NEW S, NEW s \in Seq(S), NEW e \in S
  PROVE  /\ Append(s, e) \in Seq(S)
         /\ Len(s) \in Nat /\ DOMAIN s = 1..Len(s)
         /\ Len(Append(s, e)) = Len(s) + 1 /\ DOMAIN Append(s, e) = 1..(Len(s) + 1)
         /\ Append(s, e)[Len(s) + 1] = e /\ \A n \in 1..Len(s) : Append(s, e)[n] = s[n]
         /\ Append(s, e) = [n \in 1..(Len(s) + 1) |-> Append(s, e)[n]]
<1>1. Append(s, e) \in Seq(S) /\ Len(s) \in Nat /\ DOMAIN s = 1..Len(s)
  OBVIOUS
<1>2. Len(Append(s, e)) = Len(s) + 1 /\ DOMAIN Append(s, e) = 1..(Len(s) + 1)
  OBVIOUS
<1>3. Append(s, e)[Len(s) + 1] = e /\ \A n \in 1..Len(s) : Append(s, e)[n] = s[n]
  OBVIOUS
<1>4. \A t \in Seq(S) : t = [n \in 1..Len(t) |-> t[n]]
  OBVIOUS
<1>5. Append(s, e) = [n \in 1..(Len(s) + 1) |-> Append(s, e)[n]]
  BY <1>1, <1>2, <1>4
<1> QED
  BY <1>1, <1>2, <1>3, <1>5

\* The probe has returned, and a line is printed or not.
LEMMA ScanPrintsKeeps ==
  ASSUME IInv, scan_Prints
  PROVE  IInv'
<1>1. /\ tool = "scan" /\ pc = "called" /\ pc' = "next" /\ k = Len(Requests)
      /\ out' = IF Says = 0 THEN out ELSE Append(out, [at |-> o.i, says |-> Says])
      /\ o' = [o EXCEPT !.i = o.i + 1]
      /\ UNCHANGED libVars /\ UNCHANGED <<line, args, runs>> /\ typed' = typed
  BY DEF scan_Prints, NextOne, Returned
<1>2. /\ o \in ScanVars /\ s_drv # "none" /\ typed = NoTyping /\ o.i \in Wanted
      /\ o.skip = Skipped(Len(line.args)) \cup AlwaysSkipped /\ o.i >= o.start /\ o.mode # "none"
      /\ line.args \in Seq(OptionsOf[tool])
  BY <1>1 DEF IInv, Inv0, Shapes, Course, Kept, Scanning
<1>3. /\ o' \in ScanVars /\ o'.i = o.i + 1 /\ o'.mode = o.mode /\ o'.skip = o.skip
      /\ o'.start = o.start /\ o'.end = o.end /\ o'.addr = o.addr /\ o.i \in Nat /\ o.start \in Nat
  <2>1. o.i \in Nat /\ o.i + 1 \in Nat
    BY <1>2 DEF ScanVars
  <2>2. o.start \in Byte /\ o.start \in Nat
    BY <1>2, Numbers DEF ScanVars
  <2>3. \A i \in Nat : [o EXCEPT !.i = i] \in ScanVars
    BY <1>2 DEF ScanVars
  <2>4. /\ o'.i = o.i + 1 /\ o'.mode = o.mode /\ o'.skip = o.skip
        /\ o'.start = o.start /\ o'.end = o.end /\ o'.addr = o.addr
    BY <1>1, <1>2 DEF ScanVars
  <2> QED
    BY <1>1, <2>1, <2>2, <2>3, <2>4
<1>4. Scanning'
  <2>1. /\ Wanted' = Wanted /\ AlwaysSkipped' = AlwaysSkipped
        /\ Skipped(Len(line.args))' = Skipped(Len(line.args)) /\ tool' = tool
        /\ UNCHANGED <<s_drv, call, accepts, seen, faults>>
    BY <1>1, <1>3 DEF Wanted, AlwaysSkipped, Skipped, tool, libVars
  <2>2. \A i : Truth(i)' = Truth(i)
    BY <1>1, <1>3, <2>1, Unmoved DEF Truth
  <2>3. ASSUME NEW i PROVE Tried(i)' <=> Tried(i) \/ i = o.i
    <3>1. i \in Wanted => i \in Nat
      BY <1>1, <1>2, WantedIs, Numbers
    <3> QED
      BY <1>2, <1>3, <2>1, <3>1 DEF Tried
  <2>4. ~Tried(o.i) /\ o.i \in Byte
    BY <1>1, <1>2, <1>3, WantedIs DEF Tried
  <2>5. /\ Says \in Int /\ Truth(o.i) \in Nat /\ Says <= Truth(o.i)
        /\ faults = 0 => IF s_drv = "fx2lp" \/ o.mode = "command-write"
                            THEN Says = Truth(o.i)
                            ELSE Says # 0 <=> Truth(o.i) = 0
    BY <1>1, Verdict
  <2>6. /\ out \in Seq([at : Byte, says : Int])
        /\ \A n \in DOMAIN out : /\ Tried(out[n].at) /\ out[n].says <= Truth(out[n].at)
                                 /\ n > 1 => out[n - 1].at < out[n].at
    BY <1>1, <1>2 DEF IInv, Scanning
  <2>7. (\A n \in DOMAIN out : /\ Tried(out[n].at) /\ out[n].says <= Truth(out[n].at)
                               /\ n > 1 => out[n - 1].at < out[n].at)'
    <3>1. CASE Says = 0
      <4>1. out' = out
        BY <1>1, <3>1
      <4> QED
        BY <2>2, <2>3, <2>6, <4>1
    <3>2. CASE Says # 0
      <4>1. /\ DOMAIN out' = 1..(Len(out) + 1) /\ Len(out) \in Nat /\ DOMAIN out = 1..Len(out)
            /\ out'[Len(out) + 1] = [at |-> o.i, says |-> Says]
            /\ \A n \in 1..Len(out) : out'[n] = out[n]
        BY <1>1, <2>6, <3>2
      <4>1a. \A n \in 1..Len(out) : /\ Tried(out[n].at) /\ out[n].says <= Truth(out[n].at)
                                    /\ n > 1 => out[n - 1].at < out[n].at
        <5>1. DOMAIN out = 1..Len(out)
          BY <4>1
        <5>2. \A n \in DOMAIN out : /\ Tried(out[n].at) /\ out[n].says <= Truth(out[n].at)
                                    /\ n > 1 => out[n - 1].at < out[n].at
          BY <2>6
        <5> QED
          BY <5>1, <5>2, Zenon
      <4>2. ASSUME NEW n \in 1..Len(out)
            PROVE  (/\ Tried(out[n].at) /\ out[n].says <= Truth(out[n].at)
                    /\ n > 1 => out[n - 1].at < out[n].at)'
        <5>1. n > 1 => n - 1 \in 1..Len(out)
          BY <4>1
        <5>2. out'[n] = out[n] /\ (n > 1 => out'[n - 1] = out[n - 1])
          BY <4>1, <5>1
        <5>3. Tried(out[n].at)' /\ (out[n].says <= Truth(out[n].at))'
          BY <2>2, <2>3, <4>1a, <5>2
        <5>4. n > 1 => (out[n - 1].at < out[n].at)'
          BY <4>1a, <5>2
        <5> QED
          BY <5>3, <5>4
      <4>3. ASSUME NEW n, n = Len(out) + 1
            PROVE  (/\ Tried(out[n].at) /\ out[n].says <= Truth(out[n].at)
                    /\ n > 1 => out[n - 1].at < out[n].at)'
        <5>1. out'[n].at = o.i /\ out'[n].says = Says
          BY <4>1, <4>3
        <5>2. n > 1 => Tried(out[n - 1].at) /\ out'[n - 1] = out[n - 1]
          <6>1. n > 1 => n - 1 \in 1..Len(out)
            BY <4>1, <4>3
          <6> QED
            BY <4>1, <4>1a, <6>1
        <5>3. n > 1 => out'[n - 1].at < o.i
          BY <5>2 DEF Tried
        <5> QED
          BY <2>2, <2>3, <2>5, <5>1, <5>3
      <4>4. \A n \in DOMAIN out' : n \in 1..Len(out) \/ n = Len(out) + 1
        BY <4>1
      <4>5. \A n : n \in 1..Len(out) \/ n = Len(out) + 1 =>
              (/\ Tried(out[n].at) /\ out[n].says <= Truth(out[n].at)
               /\ n > 1 => out[n - 1].at < out[n].at)'
        BY <4>2, <4>3
      <4> QED
        BY <4>4, <4>5, Zenon
    <3> QED
      BY <3>1, <3>2
  <2>8. Reported' = IF Says = 0 THEN Reported ELSE Reported \cup {o.i}
    <3>1. CASE Says = 0
      BY <1>1, <3>1 DEF Reported
    <3>2. CASE Says # 0
      <4>1. /\ DOMAIN out' = 1..(Len(out) + 1) /\ Len(out) \in Nat /\ DOMAIN out = 1..Len(out)
            /\ out'[Len(out) + 1] = [at |-> o.i, says |-> Says]
            /\ \A n \in 1..Len(out) : out'[n] = out[n]
        BY <1>1, <2>6, <3>2
      <4>2. 1..(Len(out) + 1) = (1..Len(out)) \cup {Len(out) + 1}
        BY <4>1
      <4> QED
        BY <3>2, <4>1, <4>2 DEF Reported
    <3> QED
      BY <3>1, <3>2
  <2>9. ASSUME faults = 0, s_drv = "fx2lp" \/ o.mode = "command-write"
        PROVE  /\ \A i \in Byte : i \in Reported' <=> Tried(i)' /\ Truth(i)' > 0
               /\ (\A n \in DOMAIN out : out[n].says = Truth(out[n].at))'
    <3>1. /\ \A i \in Byte : i \in Reported <=> Tried(i) /\ Truth(i) > 0
          /\ \A n \in DOMAIN out : out[n].says = Truth(out[n].at)
      BY <1>1, <1>2, <2>9 DEF IInv, Scanning
    <3>2. Says = Truth(o.i)
      BY <2>5, <2>9
    <3>3. \A i \in Byte : i \in Reported' <=> Tried(i)' /\ Truth(i)' > 0
      BY <2>2, <2>3, <2>4, <2>5, <2>8, <3>1, <3>2
    <3>4. (\A n \in DOMAIN out : out[n].says = Truth(out[n].at))'
      BY <1>1, <2>2, <2>6, <3>1, <3>2
    <3> QED
      BY <3>3, <3>4
  <2>10. ASSUME faults = 0, ~(s_drv = "fx2lp" \/ o.mode = "command-write")
         PROVE  \A i \in Byte : i \in Reported' <=> Tried(i)' /\ Truth(i)' = 0
    <3>1. \A i \in Byte : i \in Reported <=> Tried(i) /\ Truth(i) = 0
      BY <1>1, <1>2, <2>10 DEF IInv, Scanning
    <3>2. Says # 0 <=> Truth(o.i) = 0
      BY <2>5, <2>10
    <3> QED
      BY <2>2, <2>3, <2>4, <2>8, <3>1, <3>2
  <2>11. o'.mode = "address" => seen' \cap Reserved = {}
    BY <1>1, <1>2, <1>3, <2>1 DEF IInv, Scanning
  <2>12. out' \in Seq([at : Byte, says : Int])
    <3>1. [at |-> o.i, says |-> Says] \in [at : Byte, says : Int]
      BY <2>4, <2>5
    <3> QED
      BY <1>1, <2>6, <3>1, OneMore
  <2>13. /\ tool' = "scan" /\ pc' = "next" /\ o'.mode # "none" /\ o'.i >= o'.start
         /\ o'.skip = Skipped(Len(line.args))' \cup AlwaysSkipped'
    BY <1>1, <1>2, <1>3, <2>1
  <2> QED
    BY <1>3, <2>1, <2>7, <2>9, <2>10, <2>11, <2>12, <2>13 DEF Scanning
<1> QED
  BY <1>1, <1>2, <1>3, <1>4, ScanGoesOn

\* The next probe is called.
LEMMA ScanProbesKeeps ==
  ASSUME IInv, scan_Probes
  PROVE  IInv'
<1>1. /\ tool = "scan" /\ pc = "next" /\ pc' = "called" /\ o.i <= o.end /\ o.i \notin o.skip
      /\ UNCHANGED <<line, args, o, out, exit, runs, typed>>
      /\ Begin(Probe[1], Probe[2], Probe[3], << >>)
  BY DEF scan_Probes
<1>2. /\ o \in ScanVars /\ s_drv # "none" /\ typed = NoTyping /\ o.mode # "none"
      /\ o.skip = Skipped(Len(line.args)) \cup AlwaysSkipped /\ o.i >= o.start
      /\ line.args \in Seq(OptionsOf[tool])
  BY <1>1 DEF IInv, Inv0, Shapes, Course, Kept, Scanning
<1>3. o.i \in Wanted /\ o.i \in Byte
  <2>1. o.i \in o.start..o.end
    BY <1>1, <1>2, Numbers DEF ScanVars
  <2> QED
    BY <1>1, <1>2, <2>1, WantedIs
<1>4. /\ Probe[1] \in Probes /\ Probe[2] \in Byte /\ Probe[3] \in Byte
  BY <1>2, <1>3, Numbers DEF Probe, Probes, ScanVars
<1>5. /\ LibInv' /\ k' < Len(Requests)' /\ call'.fn \in BusCalls
      /\ call' = [fn |-> Probe[1], addr |-> Probe[2], cmd |-> Probe[3], bytes |-> << >>]
      /\ UNCHANGED <<s_drv, pec, hasPec, slave, contended, accepts, reg, seen, faults, changed>>
  <2> DEFINE fn == Probe[1]
             addr == Probe[2]
             cmd == Probe[3]
             bytes == << >>
  <2>1. /\ fn \in BusCalls \cup {"EnablePEC"} /\ fn \in BusCalls
        /\ fn \notin {"WriteByte", "WriteWord"}
    BY <1>4 DEF BusCalls, Probes
  <2>2. addr \in Byte /\ cmd \in Byte /\ bytes \in Seq(Byte) /\ Begin(fn, addr, cmd, bytes)
    BY <1>1, <1>4
  <2> HIDE DEF fn, addr, cmd, bytes
  <2>3. /\ LibInv' /\ k' < Len(Requests)'
        /\ call' = [fn |-> fn, addr |-> addr, cmd |-> cmd, bytes |-> bytes]
        /\ UNCHANGED <<s_drv, pec, hasPec, slave, contended, accepts, reg, seen, faults, changed>>
    BY <1>2, <2>1, <2>2, BeginKeeps DEF IInv, Inv0
  <2> QED
    BY <2>1, <2>3 DEF fn, addr, cmd, bytes
<1>6. tool' = tool
  BY <1>1 DEF tool
<1>7. Shapes'
  BY <1>1, <1>6 DEF IInv, Inv0, Shapes
<1>8. Course'
  BY <1>1, <1>2, <1>5, <1>6 DEF IInv, Inv0, Course
<1>9. PecOn' /\ PecAsked' /\ Commanding' /\ Reporting'
  BY <1>1, <1>6 DEF PecOn, PecAsked, Commanding, Reporting
<1>10. Kept'
  BY <1>1, <1>2 DEF Kept
<1>11. Scanning'
  <2>1. /\ Wanted' = Wanted /\ AlwaysSkipped' = AlwaysSkipped
        /\ Probe' = Probe /\ Reported' = Reported
        /\ Skipped(Len(line.args))' = Skipped(Len(line.args))
    BY <1>1 DEF Wanted, AlwaysSkipped, Skipped, Probe, Reported
  <2>2. \A a : OnBus(a)' = OnBus(a)
    BY <1>5 DEF OnBus
  <2>3. \A i : (Tried(i)' <=> Tried(i)) /\ Truth(i)' = Truth(i)
    BY <1>1, <1>5, <2>1, <2>2 DEF Tried, Truth, Takes, AtDevice, Answering
  <2> QED
    BY <1>1, <1>3, <1>5, <1>6, <2>1, <2>3 DEF Scanning, IInv
<1> QED
  BY <1>5, <1>7, <1>8, <1>9, <1>10, <1>11 DEF IInv, Inv0

-----------------------------------------------------------------------------
(* smbusb_sbsreport, step by step                                           *)

\* The commands of a report: the names, then a word and a block.
LEMMA ReportIs ==
  /\ Len(Report) \in Nat /\ Len(Report) = Len(Names) + 2 /\ Len(Names) \in Nat
  /\ \A i \in 1..Len(Report) : Report[i] \in Byte
  /\ \A i \in 1..Len(Report) : Report[i] \notin {Reg, Data} =>
       i \in DOMAIN Names /\ Report[i] = Names[i]
<1>1. Names \in Seq(Byte \ {Reg}) /\ Data \in Byte /\ Reg \in Byte
  BY ToolsAssumption, Numbers
<1>2. /\ Len(Names) \in Nat /\ Len(Report) = Len(Names) + 2
      /\ \A i \in 1..Len(Names) : Report[i] = Names[i] /\ Names[i] \in Byte
      /\ Report[Len(Names) + 1] = Reg /\ Report[Len(Names) + 2] = Data
  BY <1>1 DEF Report
<1>3. \A i \in 1..Len(Report) : i \in 1..Len(Names) \/ i = Len(Names) + 1 \/ i = Len(Names) + 2
  BY <1>2
<1>4. DOMAIN Names = 1..Len(Names)
  BY <1>1
<1>5. Len(Report) \in Nat
  BY <1>2
<1> HIDE DEF Report
<1> QED
  BY <1>1, <1>2, <1>3, <1>4, <1>5

\* The next register of a report is read.
LEMMA SbsReadsKeeps ==
  ASSUME IInv, sbs_Reads
  PROVE  IInv'
<1> DEFINE fn == IF Report[o.i] = Reg THEN "ReadWord" ELSE "ReadBlock"
           cmd == Report[o.i]
           bytes == << >>
<1>1. /\ tool = "sbsreport" /\ pc = "run" /\ pc' = "called" /\ o.i <= Len(Report)
      /\ UNCHANGED <<line, args, o, out, exit, runs, typed>>
      /\ Begin(fn, Dev, cmd, bytes)
  BY DEF sbs_Reads
<1>2. s_drv # "none" /\ o.i \in 1..Len(Report)
  BY <1>1, ReportIs DEF IInv, Inv0, Course, Shapes
<1>3. /\ fn \in BusCalls \cup {"EnablePEC"} /\ fn \in BusCalls
      /\ fn \notin {"WriteByte", "WriteWord"}
      /\ cmd \in Byte /\ bytes \in Seq(Byte) /\ Dev \in Byte
  BY <1>2, ReportIs, Numbers DEF BusCalls, Reads
<1> HIDE DEF fn, cmd, bytes
<1>4. /\ LibInv' /\ k' < Len(Requests)'
      /\ call' = [fn |-> fn, addr |-> Dev, cmd |-> cmd, bytes |-> bytes]
      /\ UNCHANGED <<s_drv, pec, hasPec, slave, contended, accepts, reg, seen, faults, changed>>
  BY <1>1, <1>2, <1>3, BeginKeeps DEF IInv, Inv0
<1>5. tool' = tool
  BY <1>1 DEF tool
<1>6. Shapes'
  BY <1>1, <1>5 DEF IInv, Inv0, Shapes, Report
<1>7. Course'
  BY <1>1, <1>2, <1>3, <1>4, <1>5 DEF IInv, Inv0, Course
<1>8. PecOn' /\ PecAsked' /\ Commanding' /\ Scanning'
  BY <1>1, <1>5 DEF PecOn, PecAsked, Commanding, Scanning
<1>9. Kept'
  BY <1>1, <1>4, <1>5 DEF Kept, IInv, SentAs
<1>10. Reporting'
  BY <1>1, <1>2, <1>4, <1>5 DEF Reporting, NamesAreDevices, IInv, TooLong, Report, fn, cmd, bytes
<1> QED
  BY <1>4, <1>6, <1>7, <1>8, <1>9, <1>10 DEF IInv, Inv0

\* A string is shown to its end and no further.
LEMMA StringIs ==
  ASSUME NEW text \in Seq(1..ByteMax), Len(text) <= ByteMax, Len(text) > 0,
         data = text, status = Len(text)
  PROVE  Shown = text
<1>1. ByteMax \in Nat /\ Byte = 0..ByteMax /\ Len(text) \in Byte /\ DOMAIN text = 1..Len(text)
  BY Numbers
<1>2. ASSUME NEW n \in Byte
      PROVE  tempStrRead[n] = IF n < Len(text) THEN text[n + 1] ELSE 0
  <2>1. tempStrRead[n] = IF n + 1 \in DOMAIN data THEN data[n + 1] ELSE 0
    BY DEF tempStrRead, Zeroed
  <2> QED
    BY <1>1, <2>1
<1>3. ASSUME NEW n \in Byte
      PROVE  tempStrRead[n] = 0 <=> n >= Len(text)
  <2>1. n < Len(text) => text[n + 1] \in 1..ByteMax
    BY <1>1
  <2> QED
    BY <1>1, <1>2, <2>1
<1>4. Min({n \in Byte : tempStrRead[n] = 0}) = Len(text)
  <2> DEFINE S == {n \in Byte : tempStrRead[n] = 0}
  <2>1. Len(text) \in S /\ \A n \in S : Len(text) <= n
    BY <1>1, <1>3
  <2>2. \A m \in S : (\A n \in S : m <= n) => m = Len(text)
    BY <1>1, <2>1
  <2> HIDE DEF S
  <2>3. Min(S) = Len(text)
    BY <2>1, <2>2 DEF Min
  <2> QED
    BY <2>3 DEF S
<1>5. Shown = [i \in 1..Len(text) |-> tempStrRead[i - 1]]
  BY <1>1, <1>4 DEF Shown
<1>6. \A i \in 1..Len(text) : tempStrRead[i - 1] = text[i]
  <2> TAKE i \in 1..Len(text)
  <2>1. i - 1 \in Byte /\ i - 1 < Len(text) /\ (i - 1) + 1 = i
    BY <1>1
  <2> QED
    BY <1>2, <2>1
<1>7. Shown = [i \in 1..Len(text) |-> text[i]]
  BY <1>5, <1>6
<1> QED
  BY <1>1, <1>7

\* A string's line in the report is the string.
LEMMA LineIs ==
  ASSUME IInv, NamesAreTexts, tool = "sbsreport", pc = "called", k = Len(Requests), ~changed,
         Line.as = "string", ~TooLong(Fixed[Line.cmd])
  PROVE  Line.shows = Fixed[Line.cmd]
<1> DEFINE text == Fixed[Report[o.i]]
<1>1. /\ o.i \in 1..Len(Report)
      /\ call = [fn |-> IF Report[o.i] = Reg THEN "ReadWord" ELSE "ReadBlock",
                 addr |-> Dev, cmd |-> Report[o.i], bytes |-> << >>]
  BY ReportIs DEF IInv, Inv0, Shapes, Reporting
<1>2. /\ Report[o.i] \notin {Reg, Data} /\ Line.cmd = Report[o.i] /\ Line.shows = Shown
      /\ status > 0
  <2>1. CASE Report[o.i] = Reg
    BY <2>1 DEF Line
  <2>2. CASE Report[o.i] = Data
    <3>1. Report[o.i] # Reg
      BY <2>2, ToolsAssumption
    <3> QED
      BY <2>2, <3>1 DEF Line
  <2>3. CASE Report[o.i] \notin {Reg, Data}
    <3>1. Line = [cmd |-> Report[o.i], shows |-> Shown,
                  as |-> IF status <= 0 THEN "ERROR" ELSE "string"]
      BY <2>3 DEF Line
    <3>2. WasRead /\ s_drv \in {"fx2lp", "i2cdev"}
      BY CallsOf DEF IInv, Inv0, LibInv, LibTypes, Calling
    <3>3. status \in Int
      <4>1. call.fn \in Reads
        BY CallsOf
      <4> QED
        BY <3>2, <4>1, ReadNat DEF WasRead, IInv, Inv0, LibInv
    <3> QED
      BY <2>3, <3>1, <3>3
  <2> QED
    BY <2>1, <2>2, <2>3
<1>3. text \in Seq(1..ByteMax) /\ Len(text) <= ByteMax /\ Len(text) \in Nat
  BY <1>1, <1>2, ReportIs DEF NamesAreTexts
<1>4. call.fn = "ReadBlock" /\ call.cmd = Report[o.i] /\ call.fn \in Reads
  BY <1>1, <1>2 DEF Reads
<1>5. status = Read /\ data = Block /\ s_drv \in {"fx2lp", "i2cdev"}
  <2>1. WasRead /\ s_drv \in {"fx2lp", "i2cdev"}
    BY CallsOf DEF IInv, Inv0, LibInv, LibTypes, Calling
  <2> QED
    BY <1>2, <1>4, <2>1 DEF WasRead
<1>6. Content(call.cmd) = text
  BY <1>2, <1>4 DEF Content
<1>7. status = Len(text)
  BY <1>4, <1>5, <1>6 DEF Read
<1>8. data = text
  <2>1. CASE s_drv = "fx2lp"
    BY <1>4, <1>5, <1>6, <2>1 DEF Block
  <2>2. CASE s_drv = "i2cdev"
    <3>1. Len(text) <= RelaxLen
      BY <1>2, <1>3, <2>2, Numbers DEF TooLong
    <3>2. Block = [i \in 1..Len(text) |-> IF i <= RelaxLen THEN text[i] ELSE 0]
      BY <1>4, <1>6, <2>2 DEF Block, smbus_read_block_data_relax
    <3>3. \A i \in 1..Len(text) : i <= RelaxLen
      BY <1>3, <3>1, Numbers
    <3>4. text = [i \in 1..Len(text) |-> text[i]]
      BY <1>3
    <3> HIDE DEF text
    <3>5. Block = [i \in 1..Len(text) |-> text[i]]
      BY <3>2, <3>3
    <3> QED
      BY <1>5, <3>4, <3>5
  <2> QED
    BY <1>5, <2>1, <2>2
<1>9. Shown = text
  <2> HIDE DEF text
  <2> QED
    BY <1>2, <1>3, <1>7, <1>8, StringIs
<1> QED
  BY <1>2, <1>9

\* A line of the report is printed.
LEMMA SbsPrintsKeeps ==
  ASSUME IInv, sbs_Prints
  PROVE  IInv'
<1>1. /\ tool = "sbsreport" /\ pc = "called" /\ k = Len(Requests) /\ pc' \in {"ended", "run"}
      /\ out' = Append(out, Line)
      /\ o' = [o EXCEPT !.i = @ + 1,
                        !.tempStr = IF Report[o.i] \in {Reg, Data} THEN @ ELSE tempStrRead]
      /\ UNCHANGED libVars /\ UNCHANGED <<line, args, runs>> /\ typed' = typed
      /\ UNCHANGED <<s_drv, pec, hasPec, call, k, status, accepts, reg, seen, faults, changed>>
  BY DEF sbs_Prints, End, Returned, libVars
<1>2. LibInv' /\ tool' = tool /\ Requests' = Requests
  BY <1>1, LibraryStays, Unmoved DEF IInv, Inv0, tool
<1>3. s_drv # "none" /\ o.i \in 1..Len(Report) /\ o.i \in Nat
  BY <1>1, ReportIs DEF IInv, Inv0, Course, Shapes, Reporting
<1>4. o'.i = o.i + 1 /\ o' = [i |-> o'.i, noPec |-> o'.noPec, tempStr |-> o'.tempStr]
  <2>1. o = [i |-> o.i, noPec |-> o.noPec, tempStr |-> o.tempStr]
    BY <1>1 DEF IInv, Inv0, Shapes
  <2>2. DOMAIN o = {"i", "noPec", "tempStr"}
    BY <2>1
  <2>3. o'.i = o.i + 1
    BY <1>1, <2>2
  <2>4. DOMAIN o' = {"i", "noPec", "tempStr"} /\ o' = [f \in {"i", "noPec", "tempStr"} |-> o'[f]]
    BY <1>1, <2>2
  <2>5. [i |-> o'.i, noPec |-> o'.noPec, tempStr |-> o'.tempStr]
          = [f \in {"i", "noPec", "tempStr"} |-> o'[f]]
    OBVIOUS
  <2> QED
    BY <2>3, <2>4, <2>5
<1>5. Shapes'
  <2>1. o'.i \in 1..(Len(Report) + 1)
    BY <1>3, <1>4, ReportIs
  <2>2. Report' = Report
    BY DEF Report
  <2> QED
    BY <1>1, <1>2, <1>4, <2>1, <2>2 DEF IInv, Inv0, Shapes
<1>6. Course'
  BY <1>1, <1>2, <1>3 DEF IInv, Inv0, Course
<1>7. PecOn' /\ PecAsked' /\ Commanding' /\ Scanning'
  BY <1>1, <1>2 DEF PecOn, PecAsked, Commanding, Scanning
<1>8. Kept'
  BY <1>1, <1>2 DEF Kept, IInv, SentAs
<1>9. /\ Len(out) \in Nat /\ Len(out') = Len(out) + 1 /\ out' = [n \in 1..Len(out') |-> out'[n]]
      /\ DOMAIN out = 1..Len(out) /\ DOMAIN out' = 1..Len(out')
      /\ out'[Len(out) + 1] = Line /\ \A n \in 1..Len(out) : out'[n] = out[n]
  <2>1. Len(out) \in Nat /\ out = [n \in 1..Len(out) |-> out[n]]
    BY <1>1 DEF IInv, Reporting
  <2> DEFINE S == {out[n] : n \in 1..Len(out)} \cup {Line}
  <2>2. out \in Seq(S)
    <3>1. [n \in 1..Len(out) |-> out[n]] \in Seq(S)
      BY <2>1
    <3> QED
      BY <2>1, <3>1
  <2>3. Line \in S
    OBVIOUS
  <2> HIDE DEF S
  <2> QED
    BY <1>1, <2>2, <2>3, OneMore
<1>10. Reporting'
  <2>1. Len(out)' \in Nat /\ out' = [n \in 1..Len(out') |-> out'[n]]
    BY <1>9
  <2>2. ASSUME NamesAreTexts PROVE NamesAreDevices'
    <3> SUFFICES ASSUME ~changed', NEW n \in DOMAIN out', out'[n].as = "string",
                        ~TooLong(Fixed[out[n].cmd])'
                 PROVE  out'[n].shows = Fixed[out'[n].cmd]
      BY DEF NamesAreDevices
    <3>1. ~changed /\ ~TooLong(Fixed[out'[n].cmd])
      BY <1>1 DEF TooLong
    <3>2. CASE n = Len(out) + 1
      <4>1. out'[n] = Line
        BY <1>9, <3>2
      <4> QED
        BY <1>1, <2>2, <3>1, <4>1, LineIs
    <3>3. CASE n \in 1..Len(out)
      <4>1. out'[n] = out[n] /\ n \in DOMAIN out
        BY <1>9, <3>3
      <4>2. NamesAreDevices
        BY <1>1, <2>2 DEF IInv, Reporting
      <4> QED
        BY <1>1, <3>1, <4>1, <4>2 DEF NamesAreDevices
    <3> QED
      BY <1>9, <3>2, <3>3
  <2>3. NamesAreTexts' <=> NamesAreTexts
    BY DEF NamesAreTexts
  <2> QED
    BY <1>1, <1>2, <2>1, <2>2, <2>3 DEF Reporting
<1> QED
  BY <1>2, <1>5, <1>6, <1>7, <1>8, <1>10 DEF IInv, Inv0

-----------------------------------------------------------------------------
(* The invariant                                                            *)

\* The invariant holds before any program has been started.
LEMMA InitIInv == Init => IInv
<1> SUFFICES ASSUME Init PROVE IInv
  OBVIOUS
<1>1. /\ s_drv = "none" /\ hasPec \in BOOLEAN /\ call = NoCall /\ k = 0 /\ reg = <<1>>
      /\ seen = {} /\ faults = 0 /\ changed = FALSE /\ accepts \in Devices
      /\ pec \in {[fx2lp |-> b, i2cdev |-> FALSE] : b \in BOOLEAN}
      /\ line.tool = "sbsreport" /\ line.args = << >> /\ pc = "ended"
      /\ o \in Variables("sbsreport") /\ out = << >> /\ runs = 0 /\ typed = NoTyping
  BY DEF Init, LibraryInit
<1>2. Requests = << >> /\ call.fn = "none"
  BY <1>1 DEF Requests, NoCall
<1>3. call.fn \notin BusCalls
  BY <1>2 DEF BusCalls, Reads, Writes, Probes
<1>4. LibTypes
  <2>1. pec \in [{"fx2lp", "i2cdev"} -> BOOLEAN]
    <3>1. PICK b \in BOOLEAN : pec = [fx2lp |-> b, i2cdev |-> FALSE]
      BY <1>1
    <3>2. [fx2lp |-> b, i2cdev |-> FALSE] \in [fx2lp : BOOLEAN, i2cdev : BOOLEAN]
      OBVIOUS
    <3>3. \A r \in [fx2lp : BOOLEAN, i2cdev : BOOLEAN] : r \in [{"fx2lp", "i2cdev"} -> BOOLEAN]
      OBVIOUS
    <3> QED
      BY <3>1, <3>2, <3>3
  <2>2. accepts \in [Byte -> Nat] /\ reg \in Seq(Byte)
    BY <1>1, LibraryAssumption, Numbers
  <2> QED
    <3>1. k \in 0..Len(Requests)
      BY <1>1, <1>2
    <3> QED
      BY <1>1, <1>2, <1>3, <2>1, <2>2, <3>1 DEF LibTypes
<1>5. LibInv
  BY <1>3, <1>4 DEF LibInv, Calling
<1>6. Shapes
  <2>1. o.i = 1 /\ o = [i |-> o.i, noPec |-> o.noPec, tempStr |-> o.tempStr]
    BY <1>1, VariablesAre
  <2>2. MaxRuns \in Nat
    BY ToolsAssumption
  <2>3. o.i \in 1..(Len(Report) + 1)
    BY <2>1, ReportIs
  <2> QED
    BY <1>1, <2>1, <2>2, <2>3 DEF Shapes, tool
<1>7. Course /\ PecOn /\ PecAsked /\ Commanding /\ Kept /\ Scanning /\ Reporting
  BY <1>1, <1>2, <1>3 DEF Course, PecOn, PecAsked, Commanding, Kept, Scanning, Reporting,
                          NamesAreDevices, tool
<1> QED
  BY <1>5, <1>6, <1>7 DEF IInv, Inv0

\* Every step keeps it: one case for each action.
LEMMA NextIInv == IInv /\ [Next]_vars => IInv'
<1> SUFFICES ASSUME IInv, [Next]_vars PROVE IInv'
  OBVIOUS
<1>1. CASE Launch
  BY <1>1, LaunchKeeps
<1>2. CASE main
  BY <1>2, GetOptKeeps, OpenKeeps, CallEnablePECKeeps, PECSetKeeps,
     CommRefusesKeeps, CommWritesKeeps, CommReadsKeeps, CommSendsByteKeeps, CommNothingKeeps,
     CommReturnsKeeps, ScanBeginsKeeps, ScanEndsKeeps, ScanSkipsKeeps, ScanProbesKeeps,
     ScanPrintsKeeps, SbsReadsKeeps, SbsPrintsKeeps
  DEF main, comm, scan, sbsreport
<1>3. CASE Driver
  BY <1>3, DriverKeeps
<1>4. CASE Contention /\ UNCHANGED toolVars
  BY <1>4, Untouched DEF Contention
<1>5. CASE UNCHANGED vars
  BY <1>5, Untouched DEF vars, libVars
<1> QED
  BY <1>1, <1>2, <1>3, <1>4, <1>5 DEF Next

-----------------------------------------------------------------------------
(* What it says                                                             *)

\* A sequence turned round, and turned round again.
LEMMA ReverseIs ==
  ASSUME NEW S, NEW s \in Seq(S)
  PROVE  /\ Reverse(s) \in Seq(S) /\ Len(Reverse(s)) = Len(s) /\ Reverse(Reverse(s)) = s
         /\ \A i \in 1..Len(s) : Reverse(s)[i] = s[Len(s) - i + 1]
<1>1. Reverse(s) = [i \in 1..Len(s) |-> s[(Len(s) - i) + 1]]
  BY DEF Reverse
<1>2. Reverse(s) \in Seq(S) /\ Len(Reverse(s)) = Len(s)
  BY <1>1
<1>3. Reverse(Reverse(s)) = [i \in 1..Len(s) |-> Reverse(s)[(Len(s) - i) + 1]]
  BY <1>2 DEF Reverse
<1>4. ASSUME NEW i \in 1..Len(s) PROVE Reverse(s)[(Len(s) - i) + 1] = s[i]
  <2>1. (Len(s) - i) + 1 \in 1..Len(s) /\ (Len(s) - ((Len(s) - i) + 1)) + 1 = i
    OBVIOUS
  <2> QED
    BY <1>1, <2>1
<1>5. s = [i \in 1..Len(s) |-> s[i]]
  OBVIOUS
<1>6. Reverse(Reverse(s)) = s
  BY <1>3, <1>4, <1>5
<1> QED
  BY <1>1, <1>2, <1>6

\* What is known of the call of a program of smbusb_comm that has ended.
LEMMA CommEnded ==
  ASSUME IInv, Done("comm"), Meant, Returned
  PROVE  /\ call.fn \in BusCalls /\ LibTypes /\ o \in CommVars /\ o.op \in {1, 2, 3}
         /\ WasRead /\ WasWritten
         /\ call.addr = o.addr /\ call.cmd = o.cmd
<1>1. tool = "comm" /\ pc = "ended" /\ s_drv # "none"
  BY DEF Done
<1>2. o \in CommVars /\ o.op \in 0..3
  BY <1>1 DEF IInv, Inv0, Shapes, CommVars
<1>3. o.op # 0
  BY DEF Meant
<1>4. call.fn \in BusCalls /\ call.addr = o.addr /\ call.cmd = o.cmd
  <2>1. CASE o.op = 1
    BY <2>1 DEF Meant, BusCalls, Writes
  <2>2. CASE o.op = 2
    BY <2>2 DEF Meant, BusCalls, Reads
  <2>3. CASE o.op = 3
    BY <2>3 DEF Meant, BusCalls, Writes
  <2> QED
    BY <1>2, <1>3, <2>1, <2>2, <2>3
<1>5. WasRead /\ WasWritten /\ LibTypes
  BY <1>4 DEF IInv, Inv0, LibInv, Calling, Returned
<1> QED
  BY <1>2, <1>3, <1>4, <1>5

\* What the invariant says of a program of smbusb_comm that has ended.
LEMMA TruthIsTold == IInv => ExitTellsTruth
<1> DEFINE sent == IF Len(Decoded) = 2 /\ ~BlockWrite THEN Reverse(Decoded) ELSE Decoded
           size == IF o.op = 1 THEN 1 + Len(Decoded) + (IF BlockWrite THEN 1 ELSE 0) ELSE 1
<1> SUFFICES ASSUME IInv, Done("comm")
             PROVE  /\ exit = -5 => seen = {}
                    /\ exit = 0 /\ o.op = 1 /\ Decoded # << >> =>
                         /\ Answering(o.addr)
                         /\ AtDevice(o.addr) /\ o.cmd = Reg => reg = sent
                    /\ exit \notin {0, -5} =>
                         \/ faults > 0 \/ ~Answering(o.addr)
                         \/ AtDevice(o.addr) /\ accepts[o.cmd] < size
  BY DEF ExitTellsTruth, Decoded
<1>1. CASE exit = -5 /\ seen = {}
  BY <1>1
<1>2. CASE exit = 0 /\ (o.op = 1 => Decoded = << >>)
  BY <1>2
<1>3. CASE Meant /\ Returned /\ (IF Failed THEN exit = status ELSE exit = 0)
  <2>1. /\ call.fn \in BusCalls /\ LibTypes /\ o \in CommVars /\ o.op \in {1, 2, 3}
        /\ WasRead /\ WasWritten
        /\ call.addr = o.addr /\ call.cmd = o.cmd
    BY <1>3, CommEnded
  <2>2. /\ o.op = 1 => call.fn \in Writes /\ call.fn # "SendByte"
        /\ o.op = 2 => call.fn \in Reads
        /\ o.op = 3 => call.fn = "SendByte"
    BY <1>3 DEF Meant, Writes, Reads
  <2>3. ASSUME exit = 0, o.op = 1
        PROVE  Answering(o.addr) /\ (AtDevice(o.addr) /\ o.cmd = Reg => reg = sent)
    <3>1. ~Failed /\ ~(status < 0)
      BY <1>3, <2>3 DEF Failed
    <3>2. call.bytes = SentAs(BlockWrite, Decoded)
      BY <1>3, <2>3 DEF Meant
    <3>3. Answering(o.addr) /\ (AtDevice(o.addr) /\ o.cmd = Reg => reg = call.bytes)
      BY <2>1, <2>2, <2>3, <3>1 DEF WasWritten
    <3> QED
      BY <3>2, <3>3 DEF SentAs
  <2>4. ASSUME Failed
        PROVE  /\ exit = -1
               /\ \/ faults > 0 \/ ~Answering(o.addr)
                  \/ AtDevice(o.addr) /\ accepts[o.cmd] < Len(Sent)
    <3>1. status < 0 /\ o.op \in {1, 2} /\ exit = status
      BY <1>3, <2>1, <2>4 DEF Failed
    <3>2. CASE o.op = 1
      <4>1. status = -1 /\ Fails
        BY <2>1, <2>2, <3>1, <3>2 DEF WasWritten
      <4> QED
        BY <2>1, <3>1, <4>1 DEF Fails
    <3>3. CASE o.op = 2
      <4>1. Read \in Nat
        BY <2>1, <2>2, <3>3, ReadNat
      <4>2. (status = -1 /\ Fails) \/ (changed /\ status \in Nat) \/ (status = Read)
        BY <2>1, <2>2, <3>3 DEF WasRead
      <4>3. status = -1 /\ Fails
        BY <3>1, <4>1, <4>2
      <4> QED
        BY <2>1, <3>1, <4>3 DEF Fails
    <3> QED
      BY <3>1, <3>2, <3>3
  <2>5. ASSUME Failed, o.op = 1
        PROVE  Len(Sent) = size
    <3>1. /\ call.fn = IF BlockWrite THEN "WriteBlock"
                       ELSE IF Len(Decoded) = 1 THEN "WriteByte" ELSE "WriteWord"
          /\ call.bytes = SentAs(BlockWrite, Decoded) /\ Decoded \in Seq(Byte)
      BY <1>3, <2>5 DEF Meant
    <3>2. Len(call.bytes) = Len(Decoded) /\ Len(Decoded) \in Nat
      BY <3>1, ReverseIs DEF SentAs
    <3>3. Len(Sent) = IF BlockWrite THEN 2 + Len(call.bytes) ELSE 1 + Len(call.bytes)
      BY <2>1, <3>1, Lengths
    <3> QED
      BY <2>5, <3>2, <3>3
  <2>6. ASSUME Failed, o.op # 1
        PROVE  /\ Len(Sent) \in Nat /\ Len(Sent) < 2 /\ size = 1
    BY <2>1, <2>2, <2>6, Lengths
  <2>7. AtDevice(o.addr) => accepts[o.cmd] \in Nat
    <3>1. o.cmd \in Byte /\ accepts \in [Byte -> Nat]
      BY <2>1 DEF LibTypes
    <3> QED
      BY <3>1
  <2>8. ASSUME Failed
        PROVE  \/ faults > 0 \/ ~Answering(o.addr)
               \/ AtDevice(o.addr) /\ accepts[o.cmd] < size
    <3> HIDE DEF size
    <3> QED
      BY <2>4, <2>5, <2>6, <2>7, <2>8
  <2>9. exit # 0 => Failed
    BY <1>3
  <2>10. exit # -5
    BY <1>3, <2>4
  <2> QED
    BY <2>3, <2>8, <2>9, <2>10
<1> QED
  BY <1>1, <1>2, <1>3 DEF IInv, Commanding, Done

\* The two bytes of a word.
LEMMA WordBytes ==
  ASSUME NEW n \in Nat, n > 0, NEW low \in 0..(n - 1), NEW high \in 0..(n - 1)
  PROVE  (low + n * high) \div n = high /\ (low + n * high) % n = low
OBVIOUS

\* What it says of one that has read back what was typed.
LEMMA IsReadBack == IInv => ReadBack
<1> SUFFICES ASSUME IInv, Done("comm"), o.op = 2, exit = 0, AtDevice(o.addr), o.cmd = Reg,
                    SameShape, ~TooLong(typed.bytes), ~(changed /\ (Unprotected \/ faults > 1))
             PROVE  out = typed.bytes
  BY DEF ReadBack
<1> DEFINE bytes == typed.bytes
<1>1. Meant /\ Garbled /\ Returned /\ (IF Failed THEN exit = status ELSE exit = 0 /\ out = Printed)
  BY DEF IInv, Commanding, Done
<1>2. /\ call.fn \in BusCalls /\ LibTypes /\ WasRead /\ call.cmd = Reg
      /\ call.fn \in {"ReadByte", "ReadWord", "ReadBlock"} /\ call.fn \in Reads
  BY <1>1, CommEnded DEF Meant, Reads
<1>3. ~Failed /\ out = Printed
  BY <1>1 DEF Failed
<1>4. ~changed
  BY <1>1 DEF Garbled
<1>5. status = Read /\ data = Block
  <2>1. status # -1
    BY <1>3 DEF Failed
  <2> QED
    BY <1>2, <1>4, <2>1 DEF WasRead
<1>6. /\ bytes \in Seq(Byte) /\ reg = SentAs(typed.block, bytes)
      /\ call.fn = IF typed.block THEN "ReadBlock"
                   ELSE IF Len(bytes) = 1 THEN "ReadByte" ELSE "ReadWord"
      /\ ~typed.block => Len(bytes) \in {1, 2}
      /\ Len(bytes) \in Nat
  BY DEF SameShape, IInv, Kept
<1>7. Content(call.cmd) = reg
  BY <1>2 DEF Content
<1>8. CASE call.fn = "ReadByte"
  <2>1. reg = bytes /\ Len(bytes) = 1
    <3>1. ~typed.block
      BY <1>6, <1>8
    <3>2. Len(bytes) = 1
      BY <1>6, <1>8, <3>1
    <3>3. reg = bytes
      BY <1>6, <3>1, <3>2 DEF SentAs
    <3> QED
      BY <3>2, <3>3
  <2>2. bytes = <<bytes[1]>>
    BY <1>6, <2>1
  <2>3. status = bytes[1]
    BY <1>2, <1>5, <1>6, <1>7, <1>8, <2>1 DEF Read, ByteOf
  <2> QED
    BY <1>3, <1>8, <2>2, <2>3 DEF Printed
<1>9. CASE call.fn = "ReadWord"
  <2>1. reg = Reverse(bytes) /\ Len(bytes) = 2
    BY <1>6, <1>9 DEF SentAs
  <2>2. bytes = <<bytes[1], bytes[2]>> /\ bytes[1] \in Byte /\ bytes[2] \in Byte
    BY <1>6, <2>1
  <2>3. /\ 1 \in DOMAIN reg /\ 2 \in DOMAIN reg /\ reg[1] = bytes[2] /\ reg[2] = bytes[1]
    BY <1>6, <2>1, ReverseIs
  <2>4. status = bytes[2] + (ByteMax + 1) * bytes[1]
    <3>1. ByteOf(call.cmd, 1) = bytes[2] /\ ByteOf(call.cmd, 2) = bytes[1]
      BY <1>7, <2>3 DEF ByteOf
    <3> QED
      BY <1>5, <1>9, <3>1 DEF Read
  <2>5. /\ status \div (ByteMax + 1) = bytes[1]
        /\ status % (ByteMax + 1) = bytes[2]
    <3> DEFINE n == ByteMax + 1
    <3>1. n \in Nat /\ n > 0 /\ bytes[1] \in 0..(n - 1) /\ bytes[2] \in 0..(n - 1)
      BY <2>2, Numbers
    <3>2. status = bytes[2] + n * bytes[1]
      BY <2>4
    <3> HIDE DEF n
    <3>3. status \div n = bytes[1] /\ status % n = bytes[2]
      BY <3>1, <3>2, WordBytes
    <3> QED
      BY <3>3 DEF n
  <2>6. out = <<status \div (ByteMax + 1), status % (ByteMax + 1)>>
    BY <1>3, <1>9 DEF Printed
  <2> QED
    BY <2>2, <2>5, <2>6
<1>10. CASE call.fn = "ReadBlock"
  <2>1. reg = bytes
    BY <1>6, <1>10 DEF SentAs
  <2>2. status = Len(bytes)
    BY <1>5, <1>7, <1>10, <2>1 DEF Read
  <2>3. data = bytes
    <3>1. CASE s_drv = "fx2lp"
      BY <1>5, <1>7, <1>10, <2>1, <3>1 DEF Block
    <3>2. CASE s_drv = "i2cdev"
      <4>1. Len(bytes) <= RelaxLen
        BY <1>6, <3>2, Numbers DEF TooLong
      <4>2. Block = [i \in 1..Len(bytes) |-> IF i <= RelaxLen THEN bytes[i] ELSE 0]
        BY <1>7, <1>10, <2>1, <3>2 DEF Block, smbus_read_block_data_relax
      <4>3. \A i \in 1..Len(bytes) : i <= RelaxLen
        BY <1>6, <4>1, Numbers
      <4>4. bytes = [i \in 1..Len(bytes) |-> bytes[i]]
        BY <1>6
      <4> HIDE DEF bytes
      <4>5. Block = [i \in 1..Len(bytes) |-> bytes[i]]
        BY <4>2, <4>3
      <4> QED
        BY <1>5, <4>4, <4>5
    <3> QED
      BY <1>2, <3>1, <3>2 DEF LibTypes
  <2>4. out = SubSeq(bytes, 1, Len(bytes))
    BY <1>3, <1>10, <2>2, <2>3 DEF Printed
  <2> QED
    BY <1>6, <2>4
<1> QED
  BY <1>2, <1>8, <1>9, <1>10

\* What it says of a scan that has ended.
LEMMA ScanTold == IInv => ScanIsTrue
<1> SUFFICES ASSUME IInv, Done("scan"), o.mode # "none"
             PROVE  /\ o.mode = "address" => seen \cap Reserved = {}
                    /\ \A n \in DOMAIN out :
                         /\ out[n].at \in Wanted /\ out[n].says <= Truth(out[n].at)
                         /\ n > 1 => out[n - 1].at < out[n].at
                    /\ faults = 0 =>
                         IF s_drv = "fx2lp" \/ o.mode = "command-write"
                           THEN /\ Reported = {i \in Wanted : Truth(i) > 0}
                                /\ \A n \in DOMAIN out : out[n].says = Truth(out[n].at)
                           ELSE Reported = {i \in Wanted : Truth(i) = 0}
  BY DEF ScanIsTrue
<1>1. tool = "scan" /\ pc = "ended" /\ s_drv # "none"
  BY DEF Done
<1>2. o \in ScanVars /\ line.args \in Seq(OptionsOf[tool])
  BY <1>1 DEF IInv, Inv0, Shapes
<1>3. /\ o.i > o.end
      /\ o.mode = "address" => seen \cap Reserved = {}
      /\ \A n \in DOMAIN out :
           /\ Tried(out[n].at) /\ out[n].says <= Truth(out[n].at)
           /\ n > 1 => out[n - 1].at < out[n].at
      /\ faults = 0 =>
           IF s_drv = "fx2lp" \/ o.mode = "command-write"
             THEN /\ \A i \in Byte : i \in Reported <=> Tried(i) /\ Truth(i) > 0
                  /\ \A n \in DOMAIN out : out[n].says = Truth(out[n].at)
             ELSE \A i \in Byte : i \in Reported <=> Tried(i) /\ Truth(i) = 0
  BY <1>1 DEF IInv, Scanning
<1>4. Wanted \subseteq Byte
  BY <1>1, <1>2, WantedIs
<1>5. ASSUME NEW i PROVE Tried(i) <=> i \in Wanted
  <2>1. i \in Wanted => i \in o.start..o.end
    BY DEF Wanted
  <2>2. i \in Wanted => i < o.i
    BY <1>2, <1>3, <1>4, <2>1, Numbers DEF ScanVars
  <2> QED
    BY <2>2 DEF Tried
<1>6. Reported \subseteq Byte
  <2>1. \A n \in DOMAIN out : out[n].at \in Byte
    BY <1>3, <1>4, <1>5
  <2> QED
    BY <2>1 DEF Reported
<1>7. faults = 0 =>
        IF s_drv = "fx2lp" \/ o.mode = "command-write"
          THEN /\ Reported = {i \in Wanted : Truth(i) > 0}
               /\ \A n \in DOMAIN out : out[n].says = Truth(out[n].at)
          ELSE Reported = {i \in Wanted : Truth(i) = 0}
  <2>1. \A i \in Byte : Tried(i) <=> i \in Wanted
    BY <1>5
  <2> QED
    BY <1>3, <1>4, <1>6, <2>1
<1> QED
  BY <1>3, <1>5, <1>7

\* The invariant always holds.
LEMMA AlwaysIInv == Spec => []IInv
<1>1. Init => IInv
  BY InitIInv
<1>2. IInv /\ [Next]_vars => IInv'
  BY NextIInv
<1> QED
  BY <1>1, <1>2, PTL DEF Spec

\* What one smbusb_comm has written, another that reads as many bytes prints
\* as it was typed; a read that was changed on its way is printed only where
\* PEC does not reach or could not be set.
THEOREM TypedIsReadBack == Spec => []ReadBack
<1>1. IInv => ReadBack
  BY IsReadBack
<1> QED
  BY <1>1, AlwaysIInv, PTL

\* The exit status of smbusb_comm is the truth about the bus and the register.
THEOREM ExitIsTruth == Spec => []ExitTellsTruth
<1>1. IInv => ExitTellsTruth
  BY TruthIsTold
<1> QED
  BY <1>1, AlwaysIInv, PTL

\* A scan reports what it was to try, in order, once, never more than the
\* device does, and if nothing goes wrong all of it; and a scan for addresses
\* leaves the board's own EEPROM alone.
THEOREM ScanTellsTruth == Spec => []ScanIsTrue
<1>1. IInv => ScanIsTrue
  BY ScanTold
<1> QED
  BY <1>1, AlwaysIInv, PTL

\* If the device's strings are texts, a report shows each of them as it is.
THEOREM NamesAreShown == ASSUME NamesAreTexts PROVE Spec => []NamesAreDevices
<1>1. IInv => NamesAreDevices
  <2> SUFFICES ASSUME IInv PROVE NamesAreDevices
    OBVIOUS
  <2>1. CASE tool = "sbsreport"
    BY NamesAreTexts, <2>1 DEF IInv, Reporting
  <2>2. CASE tool # "sbsreport"
    BY <2>2 DEF NamesAreDevices
  <2> QED
    BY <2>1, <2>2
<1> QED
  BY <1>1, AlwaysIInv, PTL
=============================================================================
