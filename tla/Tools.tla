------------------------------- MODULE Tools -------------------------------
(***************************************************************************)
(* The programs a user runs at the prompt, one after the other, on the     *)
(* same board and device: tools/smbusb_comm.c, tools/smbusb_scan.c and     *)
(* tools/smbusb_sbsreport.c, from their options to what they print.        *)
(***************************************************************************)
EXTENDS LibraryCalls, DeviceOptions

CONSTANTS
  CommandLines,  \* what the user types, first, second ...: tool, URI, options
  MaxRuns,       \* bound: programs run one after the other
  Nibbles,       \* hex digits (16)
  Board,         \* the numbers the board can be opened by
  Numerals,      \* the numbers a URI is made of
  Names,         \* the strings smbusb_sbsreport asks for, in order
  Data,          \* the command of the manufacturer's data
  LenovoLen      \* sizeof(lenovo_data_t)

X == -1                  \* a character that is no hex digit, such as 'x'

\* What can be typed. A number that is no byte is left out: addresses past
\* 0xFF come round to others.
CommOptions ==
  [opt : {"address", "command"}, arg : Byte] \cup [opt : {"read"}, arg : Int]
    \cup [opt : {"write"}, arg : Seq(X..(Nibbles - 1))]
    \cup [opt : {"null-write", "block-write", "no-pec", "?"}]

Pieces == {p \in Seq(Byte) : Len(p) < 2}

ScanOptions ==
  [opt : {"command", "command-write", "begin", "end"}, arg : Byte]
    \cup [opt : {"skip"}, arg : Seq(Pieces)] \cup [opt : {"address", "?"}]

OptionsOf == [comm |-> CommOptions, scan |-> ScanOptions, sbsreport |-> [opt : {"?"}]]

Schemes == {"none", "fx2lp", "i2c", "i2cdev", "other"}

ASSUME ToolsAssumption ==
  /\ MaxRuns \in Nat \ {0} /\ Nibbles \in Nat /\ Nibbles * Nibbles = ByteMax + 1
  /\ Names \in Seq(Byte \ {Reg}) /\ Data \in Byte \ {Reg}
  /\ \A n \in 1..MaxRuns : \A l \in CommandLines[n] :
       /\ l.tool \in DOMAIN OptionsOf /\ l.scheme \in Schemes
       /\ l.args \in Seq(OptionsOf[l.tool])

VARIABLES
  pc,        \* where main is
  line,      \* the command line
  args,      \* options still to take
  o,         \* the program's variables
  out,       \* what has been printed
  exit,      \* the exit status
  runs,      \* programs run so far
  typed      \* ghost: the register's last value as it was typed, or << >>

toolVars == <<pc, line, args, o, out, exit, runs, typed>>
vars == <<libVars, toolVars>>

tool == line.tool
NoTyping == [block |-> FALSE, bytes |-> << >>]

\* What main's variables hold at first. opAddress and block of smbusb_comm
\* are not initialised: of what they may hold, what main tells apart.
Variables(t) ==
  CASE t = "comm" ->
         [op : {0}, addr : {-1, Dev}, cmd : {-1}, readLen : {0},
          block : {<< >>, <<X>>}, force : {FALSE}, noPec : {FALSE}]
    [] t = "scan" ->
         [mode : {"none"}, addr : {0}, start : {0}, end : {ByteMax},
          skip : {{}}, i : {0}]
    [] t = "sbsreport" -> [i : {1}, noPec : {FALSE}, tempStr : {[i \in Byte |-> 0]}]

Init ==
  /\ LibraryInit /\ reg = <<1>>
  /\ line = [tool |-> "sbsreport", scheme |-> "none", text |-> << >>, args |-> << >>]
  /\ pc = "ended" /\ args = << >> /\ o \in Variables("sbsreport")
  /\ out = << >> /\ exit = 0 /\ runs = 0 /\ typed = NoTyping

\* A program starts. argc == 1 is asked for by two of them.
Launch ==
  /\ pc = "ended" /\ runs < MaxRuns
  /\ runs' = runs + 1
  /\ line' \in CommandLines[runs']
  /\ args' = line'.args /\ o' \in Variables(line'.tool)
  /\ IF args' = << >> /\ line'.tool # "sbsreport"
       THEN exit' = 1 /\ pc' = "ended" ELSE exit' = 0 /\ pc' = "getopt"
  /\ out' = << >>
  /\ s_drv' = "none" /\ slave' = 0 /\ contended' = FALSE
  /\ call' = NoCall /\ k' = 0 /\ status' = 0 /\ data' = << >>
  /\ seen' = {} /\ faults' = 0 /\ changed' = FALSE
  /\ UNCHANGED <<pec, hasPec, accepts, reg, typed>>

End(code) == pc' = "ended" /\ exit' = code

-----------------------------------------------------------------------------
(* Options                                                                 *)

CommOption(a) ==
  CASE a.opt = "address"     -> [o EXCEPT !.addr = a.arg]
    [] a.opt = "command"     -> [o EXCEPT !.cmd = a.arg]
    [] a.opt = "write"       -> [o EXCEPT !.op = 1, !.block = a.arg]
    [] a.opt = "read"        -> [o EXCEPT !.op = 2, !.readLen = a.arg]
    [] a.opt = "null-write"  -> [o EXCEPT !.op = 3]
    [] a.opt = "block-write" -> [o EXCEPT !.force = TRUE]
    [] a.opt = "no-pec"      -> [o EXCEPT !.noPec = TRUE]

\* strsep gives an empty piece for two commas, and strtol makes it a 0.
SkipMap(pieces) ==
  {IF pieces[i] = << >> THEN 0 ELSE pieces[i][1] : i \in DOMAIN pieces}

ScanOption(a) ==
  CASE a.opt = "address"       -> [o EXCEPT !.mode = a.opt]
    [] a.opt = "command"       -> [o EXCEPT !.mode = a.opt, !.addr = a.arg]
    [] a.opt = "command-write" -> [o EXCEPT !.mode = a.opt, !.addr = a.arg]
    [] a.opt = "skip"          -> [o EXCEPT !.skip = @ \cup SkipMap(a.arg)]
    [] a.opt = "begin"         -> [o EXCEPT !.start = a.arg]
    [] a.opt = "end"           -> [o EXCEPT !.end = a.arg]

GetOpt ==
  /\ pc = "getopt" /\ args # << >>
  /\ args' = Tail(args)
  /\ IF Head(args).opt = "?"
       THEN End(0) /\ UNCHANGED o
       ELSE /\ o' = CASE tool = "comm" -> CommOption(Head(args))
                      [] tool = "scan" -> ScanOption(Head(args))
                      [] OTHER         -> o
            /\ UNCHANGED <<pc, exit>>
  /\ UNCHANGED <<libVars, line, out, runs, typed>>

-----------------------------------------------------------------------------
(* SMBOpenDevice                                                           *)

\* What the FX2LP driver looks for; a file is all the i2c-dev driver needs.
OpenArgs == IF line.scheme = "fx2lp" THEN FX2LP_OpenArgs(line.text) ELSE Refused

Found ==
  \/ line.scheme = "fx2lp" /\ OpenArgs \in Board
  \/ line.scheme \in {"i2c", "i2cdev"}

SMBOpenDevice ==
  /\ pc = "getopt" /\ args = << >>
  /\ \/ /\ End(IF tool = "comm" THEN -1 ELSE 0)
        /\ UNCHANGED <<s_drv, pec>>
     \/ /\ Found
        /\ s_drv' = IF line.scheme = "fx2lp" THEN "fx2lp" ELSE "i2cdev"
        /\ pec' = [pec EXCEPT !["i2cdev"] = FALSE]
        /\ pc' = IF tool = "scan" THEN "run" ELSE "pec"
        /\ UNCHANGED exit
  /\ UNCHANGED <<hasPec, slave, contended, call, k, status, data, accepts, reg, seen,
                 faults, changed, line, args, o, out, runs, typed>>

\* SMBEnablePEC, and what follows it.
CallEnablePEC ==
  /\ pc = "pec"
  /\ Begin("EnablePEC", 0, IF o.noPec THEN 0 ELSE 1, << >>)
  /\ pc' = "set"
  /\ UNCHANGED <<line, args, o, out, exit, runs, typed>>

PECSet ==
  /\ pc = "set" /\ Returned
  /\ pc' = "run"
  /\ UNCHANGED <<libVars, line, args, o, out, exit, runs, typed>>

-----------------------------------------------------------------------------
(* smbusb_comm                                                             *)

\* Two digits a byte.
hex_decode(in) ==
  [t \in 1..(Len(in) \div 2) |-> Nibbles * in[2*t - 1] + in[2*t]]

\* The data without its "0x".
Digits(block) ==
  IF Len(block) > 1 /\ block[1] = 0 /\ block[2] = X
    THEN SubSeq(block, 3, Len(block)) ELSE block

Missing == o.addr = -1 \/ o.cmd = -1 \/ (o.readLen = 0 /\ o.block = << >>)

WriteRefused ==
  o.op = 1 /\ (Len(o.block) % 2 # 0 \/ \E i \in DOMAIN Digits(o.block) : Digits(o.block)[i] = X)

\* The bytes of a word are typed the other way round than they are sent.
Swapped_Not(buf) == buf
Swapped(buf) == Reverse(buf)

BlockWrite == Len(Digits(o.block)) > 4 \/ o.force

comm_Refuses ==
  /\ tool = "comm" /\ pc = "run"
  /\ Missing \/ WriteRefused
  /\ End(-5)
  /\ UNCHANGED <<libVars, line, args, o, out, runs, typed>>

comm_Writes ==
  /\ tool = "comm" /\ pc = "run" /\ ~Missing /\ ~WriteRefused
  /\ o.op = 1 /\ o.block # << >> /\ (o.force \/ Digits(o.block) # << >>)
  /\ LET buf == hex_decode(Digits(o.block))
     IN  IF BlockWrite THEN Begin("WriteBlock", o.addr, o.cmd, buf)
         ELSE IF Len(buf) = 1 THEN Begin("WriteByte", o.addr, o.cmd, buf)
         ELSE Begin("WriteWord", o.addr, o.cmd, Swapped(buf))
  /\ pc' = "called" /\ typed' = NoTyping
  /\ UNCHANGED <<line, args, o, out, exit, runs>>

comm_Reads ==
  /\ tool = "comm" /\ pc = "run" /\ ~Missing
  /\ o.op = 2
  /\ Begin(CASE o.readLen = 1 -> "ReadByte" [] o.readLen = 2 -> "ReadWord"
             [] OTHER -> "ReadBlock", o.addr, o.cmd, << >>)
  /\ pc' = "called"
  /\ UNCHANGED <<line, args, o, out, exit, runs, typed>>

comm_SendsByte ==
  /\ tool = "comm" /\ pc = "run" /\ ~Missing
  /\ o.op = 3
  /\ Begin("SendByte", o.addr, o.cmd, << >>)
  /\ pc' = "called"
  /\ UNCHANGED <<line, args, o, out, exit, runs, typed>>

\* No operation, or the data of a write is nothing, or nothing but "0x".
comm_Nothing ==
  /\ tool = "comm" /\ pc = "run" /\ ~Missing /\ ~WriteRefused
  /\ \/ o.op = 0
     \/ o.op = 1 /\ o.block = << >>
     \/ o.op = 1 /\ ~o.force /\ Digits(o.block) = << >>
  /\ End(0)
  /\ UNCHANGED <<libVars, line, args, o, out, runs, typed>>

\* %02x, %04x, or a %02x for each byte.
Printed ==
  CASE call.fn = "ReadByte"  -> <<status>>
    [] call.fn = "ReadWord"  -> <<status \div (ByteMax + 1), status % (ByteMax + 1)>>
    [] call.fn = "ReadBlock" -> SubSeq(data, 1, status)
    [] OTHER                 -> << >>

\* The device is at an address, or something is.
AtDevice(addr)  == OnBus(addr) \cap {Dev, Dev + 1} # {}
Answering(addr) == OnBus(addr) \cap ({Dev, Dev + 1} \cup Reserved) # {}

\* The result of a null write is dropped.
Failed_Never == FALSE
Failed == status < 0 /\ o.op # 3

comm_Returns ==
  /\ tool = "comm" /\ pc = "called" /\ Returned
  /\ IF Failed
       THEN End(status) /\ UNCHANGED <<out, typed>>
       ELSE /\ End(0) /\ out' = Printed
            /\ typed' = IF o.op = 1 /\ AtDevice(o.addr) /\ o.cmd = Reg
                          THEN [block |-> BlockWrite, bytes |-> hex_decode(Digits(o.block))]
                          ELSE typed
  /\ UNCHANGED <<libVars, line, args, o, runs>>

comm == comm_Refuses \/ comm_Writes \/ comm_Reads \/ comm_SendsByte
        \/ comm_Nothing \/ comm_Returns

-----------------------------------------------------------------------------
(* smbusb_scan                                                             *)

\* Without a mode there is nothing to do; the addresses of the board's own
\* EEPROM are left out of a scan for addresses.
AlwaysSkipped == IF o.mode = "address" THEN Reserved ELSE {}

scan_Begins ==
  /\ tool = "scan" /\ pc = "run"
  /\ IF o.mode = "none"
       THEN End(1) /\ UNCHANGED o
       ELSE /\ pc' = "next" /\ UNCHANGED exit
            /\ o' = [o EXCEPT !.i = o.start, !.skip = @ \cup AlwaysSkipped]
  /\ typed' = NoTyping
  /\ UNCHANGED <<libVars, line, args, out, runs>>

Probe == CASE o.mode = "address"       -> <<"TestAddressACK", o.i, 0>>
           [] o.mode = "command"       -> <<"TestCommandACK", o.addr, o.i>>
           [] o.mode = "command-write" -> <<"TestCommandWrite", o.addr, o.i>>

scan_Ends ==
  /\ tool = "scan" /\ pc = "next" /\ o.i > o.end
  /\ End(0)
  /\ UNCHANGED <<libVars, line, args, o, out, runs, typed>>

NextOne_Stuck == IF o.i \in o.skip THEN o.i ELSE o.i + 1
NextOne == o.i + 1

scan_Skips ==
  /\ tool = "scan" /\ pc = "next" /\ o.i <= o.end /\ o.i \in o.skip
  /\ o' = [o EXCEPT !.i = NextOne]
  /\ UNCHANGED <<libVars, pc, line, args, out, exit, runs, typed>>

scan_Probes ==
  /\ tool = "scan" /\ pc = "next" /\ o.i <= o.end /\ o.i \notin o.skip
  /\ Begin(Probe[1], Probe[2], Probe[3], << >>)
  /\ pc' = "called"
  /\ UNCHANGED <<line, args, o, out, exit, runs, typed>>

\* The line about i, if there is one: -1 is an error, 1 an acknowledge, more
\* what can be written.
Says ==
  IF status < 0 THEN -1
  ELSE IF o.mode = "command-write" THEN status
  ELSE IF status = Ack THEN 1 ELSE 0

scan_Prints ==
  /\ tool = "scan" /\ pc = "called" /\ Returned
  /\ out' = IF Says = 0 THEN out ELSE Append(out, [at |-> o.i, says |-> Says])
  /\ o' = [o EXCEPT !.i = NextOne]
  /\ pc' = "next"
  /\ UNCHANGED <<libVars, line, args, exit, runs, typed>>

scan == scan_Begins \/ scan_Ends \/ scan_Skips \/ scan_Probes \/ scan_Prints

-----------------------------------------------------------------------------
(* smbusb_sbsreport                                                        *)

\* The strings, a word (all words are read alike), the manufacturer's data.
Report == Names \o <<Reg, Data>>

sbs_Reads ==
  /\ tool = "sbsreport" /\ pc = "run" /\ o.i <= Len(Report)
  /\ Begin(IF Report[o.i] = Reg THEN "ReadWord" ELSE "ReadBlock", Dev, Report[o.i], << >>)
  /\ pc' = "called"
  /\ UNCHANGED <<line, args, o, out, exit, runs, typed>>

\* tempStr is zeroed before each read, as a block brings no NUL of its own.
Zeroed_Once == o.tempStr
Zeroed == [i \in Byte |-> 0]

tempStrRead == [i \in Byte |-> IF i + 1 \in DOMAIN data THEN data[i + 1] ELSE Zeroed[i]]

\* A %s, up to the NUL; a string of no bytes is an error too.
Shown ==
  IF status <= 0 THEN << >>
  ELSE [i \in 1..Min({n \in Byte : tempStrRead[n] = 0}) |-> tempStrRead[i - 1]]

\* The size is compared as an unsigned one: less than none is a lot.
Unsigned(size) == IF size < 0 THEN LenovoLen + 1 ELSE size

Line ==
  CASE Report[o.i] = Reg  -> [cmd |-> Reg, shows |-> <<status>>, as |-> "word"]
    [] Report[o.i] = Data -> [cmd |-> Data, shows |-> data,
                              as |-> IF Unsigned(status) < LenovoLen THEN "bytes" ELSE "cells"]
    [] OTHER -> [cmd |-> Report[o.i], shows |-> Shown,
                 as |-> IF status <= 0 THEN "ERROR" ELSE "string"]

sbs_Prints ==
  /\ tool = "sbsreport" /\ pc = "called" /\ Returned
  /\ out' = Append(out, Line)
  /\ o' = [o EXCEPT !.i = @ + 1,
                    !.tempStr = IF Report[o.i] \in {Reg, Data} THEN @ ELSE tempStrRead]
  /\ IF o.i = Len(Report) THEN End(0) ELSE pc' = "run" /\ UNCHANGED exit
  /\ UNCHANGED <<libVars, line, args, runs, typed>>

sbsreport == sbs_Reads \/ sbs_Prints

-----------------------------------------------------------------------------
main == GetOpt \/ SMBOpenDevice \/ CallEnablePEC \/ PECSet \/ comm \/ scan \/ sbsreport

Driver == Request /\ UNCHANGED toolVars

Next == Launch \/ main \/ Driver \/ (Contention /\ UNCHANGED toolVars)

Spec == Init /\ [][Next]_vars

\* The program and the kernel go on; libusb's transfers have their timeouts.
FairSpec == Spec /\ WF_vars(main \/ Driver)

-----------------------------------------------------------------------------
\* The values the variables take.
TypeOK ==
  /\ pc \in {"getopt", "pec", "set", "run", "next", "called", "ended"}
  /\ tool \in {"comm", "scan", "sbsreport"} /\ line.scheme \in Schemes
  /\ s_drv \in {"none", "fx2lp", "i2cdev"} /\ pec \in [{"fx2lp", "i2cdev"} -> BOOLEAN]
  /\ k \in 0..Len(Requests) /\ faults \in 0..MaxFaults /\ runs \in 0..MaxRuns
  /\ reg \in Seq(Byte) /\ data \in Seq(Byte) /\ typed.bytes \in Seq(Byte)
  /\ slave \in 0..(ByteMax \div 2) /\ seen \subseteq Byte

Done(t) == tool = t /\ pc = "ended" /\ s_drv # "none"

\* A text that is two options of a pair, each with its number, opens the board
\* with these numbers, in whatever order they come; and a text that opens a
\* board names both numbers of one pair and nothing else.
OpenedAsAsked ==
  line.scheme = "fx2lp" /\ call = NoCall /\ pc \in {"pec", "run", "ended"} =>
    LET opened == OpenArgs
        asked == Asked(line.text, Numerals)
    IN  /\ opened # Refused => NamesPair(line.text, opened.how)
        /\ asked # {} => opened \in asked

\* What of a block cannot be read back with the i2c-dev driver.
TooLong(bytes) == s_drv = "i2cdev" /\ Len(bytes) > RelaxLen

\* PEC as it is asked for does not reach this read.
Unprotected ==
  o.noPec \/ (s_drv = "i2cdev" /\ (~hasPec \/ call.fn = "ReadBlock"))

\* The read is of what was written: as many bytes, a block if it was one.
SameShape ==
  /\ typed # NoTyping
  /\ call.fn = IF typed.block THEN "ReadBlock"
               ELSE IF Len(typed.bytes) = 1 THEN "ReadByte" ELSE "ReadWord"

\* What one smbusb_comm has written, another that reads as many bytes prints
\* as it was typed, over either driver and whatever the board's PEC was left
\* at; a read that was changed on its way is printed only without PEC, which
\* is also lost when the board is not reached to set it.
ReadBack ==
  /\ Done("comm") /\ o.op = 2 /\ exit = 0 /\ AtDevice(o.addr) /\ o.cmd = Reg
  /\ SameShape /\ ~TooLong(typed.bytes)
  => \/ out = typed.bytes
     \/ changed /\ (Unprotected \/ faults > 1)

\* The exit status of smbusb_comm is the truth: 0 after a write means that it
\* was answered and, if it was one to the register, that this holds what was
\* typed, low byte first if it was a word; a refusal leaves the bus alone; and
\* nothing fails that need not. (A write of no data, "0x", says nothing.)
ExitTellsTruth ==
  Done("comm") =>
    LET buf == hex_decode(Digits(o.block))
        sent == IF Len(buf) = 2 /\ ~BlockWrite THEN Reverse(buf) ELSE buf
        size == IF o.op = 1 THEN 1 + Len(buf) + (IF BlockWrite THEN 1 ELSE 0) ELSE 1
    IN  /\ exit = -5 => seen = {}
        /\ exit = 0 /\ o.op = 1 /\ buf # << >> =>
             /\ Answering(o.addr)
             /\ AtDevice(o.addr) /\ o.cmd = Reg => reg = sent
        /\ exit \notin {0, -5} =>
             \/ faults > 0 \/ ~Answering(o.addr)
             \/ AtDevice(o.addr) /\ accepts[o.cmd] < size

\* What a scan is to try: its range, without what is to be skipped.
Wanted ==
  LET skips == UNION {IF a.opt = "skip" THEN SkipMap(a.arg) ELSE {} :
                        a \in {line.args[i] : i \in DOMAIN line.args}}
  IN  (o.start..o.end) \ (skips \cup (IF o.mode = "address" THEN Reserved ELSE {}))

\* The bytes of a probe that are taken at an address: by the device, by the
\* EEPROM, by nobody.
Takes(addr, c) ==
  IF AtDevice(addr) THEN accepts[c] ELSE IF Answering(addr) THEN 6 ELSE 0

\* What the device makes of it: 0 is nothing.
Truth(i) ==
  CASE o.mode = "address"       -> IF i \in {Dev, Dev + 1} THEN 1 ELSE 0
    [] o.mode = "command"       -> IF Takes(o.addr, i) > 0 THEN 1 ELSE 0
    [] o.mode = "command-write" ->
         Cardinality({n \in {1, 2, 3, 5, 6} : n <= Takes(o.addr, i)})

Reported == {out[n].at : n \in DOMAIN out}

\* A scan reports nothing but what it was to try, in order, once, and never
\* more than the device does. If nothing goes wrong it reports all of it:
\* every acknowledge, and with both drivers the same of what can be written.
\* (The i2c-dev driver's two other probes return 0 for an acknowledge, which
\* smbusb_scan does not print: what it reports there is the rest.)
\* "messing with it like this can hang the device": a scan for addresses does
\* not touch the board's own EEPROM, with whatever range and skip list.
ScanIsTrue ==
  Done("scan") /\ o.mode # "none" =>
    /\ o.mode = "address" => seen \cap Reserved = {}
    /\ \A n \in DOMAIN out :
         /\ out[n].at \in Wanted /\ out[n].says <= Truth(out[n].at)
         /\ n > 1 => out[n - 1].at < out[n].at
    /\ faults = 0 =>
         IF s_drv = "fx2lp" \/ o.mode = "command-write"
           THEN /\ Reported = {i \in Wanted : Truth(i) > 0}
                /\ \A n \in DOMAIN out : out[n].says = Truth(out[n].at)
           ELSE Reported = {i \in Wanted : Truth(i) = 0}

\* The strings of the device are texts, and none is longer than a block.
NamesAreTexts ==
  \A i \in DOMAIN Names :
    Fixed[Names[i]] \in Seq(1..ByteMax) /\ Len(Fixed[Names[i]]) <= ByteMax

\* Every string of a report is the device's, to its end and no further, or
\* "ERROR": nothing is left over of a longer one before it. (For a device whose
\* strings are texts.)
NamesAreDevices ==
  tool = "sbsreport" /\ ~changed =>
    \A n \in DOMAIN out :
      out[n].as = "string" /\ ~TooLong(Fixed[out[n].cmd])
        => out[n].shows = Fixed[out[n].cmd]

\* Every program ends, unless another master has the bus again and again:
\* xioctl repeats EAGAIN for ever.
ToolEnds == []<>contended \/ ((pc # "ended") ~> (pc = "ended"))
=============================================================================
