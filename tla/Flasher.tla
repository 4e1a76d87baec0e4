------------------------------- MODULE Flasher -------------------------------
(***************************************************************************)
(* One run of a flasher tool (tools/smbusb_bq8030flasher.c,                *)
(* smbusb_m37512flasher.c, smbusb_r2j240flasher.c) against a chip in its   *)
(* boot ROM. The three have one shape: look whether the chip runs its      *)
(* firmware, then dump the flash to a file, or check the file, erase,      *)
(* write chunk by chunk and read everything back; they differ in what they *)
(* check, and when. The BQ8030 tool has two targets, program and EEPROM.   *)
(*                                                                         *)
(* A call of the library is one step: done and reported so, or reported as *)
(* failed, whether the chip acted on it or not. The chip is modelled from  *)
(* how the tools use it. A cell of the flash stands for the bytes of the   *)
(* smallest transfer of a tool.                                            *)
(***************************************************************************)
EXTENDS Integers, Sequences, FiniteSets

CONSTANTS
  Size,        \* cells of the flash, and of the file
  Images,      \* contents of the file
  Runs,        \* the ways the tools are called
  Faults,      \* what may go wrong, a subset of FaultKinds
  Polls        \* how often the R2J240 tool looks for the end of an erase (10)

Cells  == 0..(Size - 1)
Blank  == "blank"   \* erased
Junk   == "junk"    \* neither erased nor what was written
Values == UNION {{image[c] : c \in Cells} : image \in Images}

Targets == {"bq_program", "bq_eeprom", "m37512", "r2j240"}

FaultKinds ==
  {"error",    \* a call fails, and the chip has not acted
   "late",     \* a call fails, but the chip has acted
   "corrupt",  \* a byte is changed on its way
   "weak"}     \* a cell is not erased, or not programmed, and nobody says so

\* A run: target, driver, what is asked for, options and the input file.
RunOK(r) ==
  /\ r.target \in Targets /\ r.driver \in {"fx2lp", "i2cdev"}
  /\ r.op \in {"dump", "write", "erase"}
  /\ r.file \in {"good", "bad"}
  /\ {r.confirm, r.verify, r.pec, r.execute} \subseteq BOOLEAN
  \* The Renesas boot ROMs have no PEC; the BQ8030 tool has no bare erase;
  \* the M37512 tool cannot start the firmware.
  /\ r.pec => r.target \in {"bq_program", "bq_eeprom"}
  /\ r.op = "erase" => r.target \in {"m37512", "r2j240"}
  /\ r.execute => r.target # "m37512"

ASSUME FlasherAssumption ==
  /\ Size \in Nat \ {0} /\ Polls \in Nat \ {0}
  /\ Images \subseteq [Cells -> Values]
  /\ Faults \subseteq FaultKinds
  /\ \A r \in Runs : RunOK(r)

VARIABLES
  run,      \* how the tool was called
  image,    \* the input file
  pc,       \* the step of main to do
  off,      \* cells written or read so far
  chunk,    \* readFlash's chunk[] of the M37512 tool, kept between chunks
  block2,   \* what has been read back or dumped
  polls,    \* polls of an erase done
  writeErr, \* the write loop was left by an error
  said,     \* the last of the tool's messages that tells of its success
  mode,     \* the chip runs its "firmware" or the "bootrom"
  flash,    \* contents of the chip
  before,   \* ghost: its contents when the tool was started
  erasing,  \* an erase is under way in the chip
  faulty,   \* ghost: something went wrong
  misread   \* ghost: a read gave other bytes than the chip's, unnoticed

toolVars == <<pc, off, chunk, block2, polls, writeErr, said>>
chipVars == <<mode, flash, erasing>>
ghosts   == <<faulty, misread>>
vars     == <<run, image, toolVars, chipVars, before, ghosts>>

Bq == run.target \in {"bq_program", "bq_eeprom"}

Init ==
  /\ run \in Runs /\ image \in Images
  /\ mode \in {"firmware", "bootrom"}
  /\ \E v \in Values \cup {Blank, Junk} : flash = [c \in Cells |-> v]
  /\ before = flash
  \* Buffers on the stack hold anything at first.
  /\ chunk \in Values \cup {Junk} /\ block2 = [c \in Cells |-> chunk]
  /\ pc = "probe" /\ off = 0 /\ polls = 0 /\ writeErr = FALSE /\ said = "nothing"
  /\ erasing = FALSE /\ faulty = FALSE /\ misread = FALSE

-----------------------------------------------------------------------------
(* Calls of the library                                                    *)

Answered == [ok |-> TRUE, acted |-> TRUE]
Failed   == [ok |-> FALSE, acted |-> FALSE]
Late     == [ok |-> FALSE, acted |-> TRUE]

Replies ==
  {Answered} \cup {Failed : f \in Faults \cap {"error"}}
             \cup {Late : f \in Faults \cap {"late"}}

\* A chip that runs its firmware refuses the boot ROM's commands.
Outcomes == IF mode = "firmware" THEN {Failed} ELSE Replies

\* What SMBWriteBlock returns for n bytes that were written: the FX2LP driver
\* n, the i2c-dev driver 0.
Written_Zero(n) == 0
Written(n) == IF run.driver = "fx2lp" THEN n ELSE 0

\* SMBTransfer: the FX2LP driver has none.
HasTransfer == run.driver = "i2cdev"

\* Blocks carry a PEC: those of the i2c-dev driver never do.
Checked == run.pec /\ run.driver = "fx2lp"

\* Bytes of one SMBWriteBlock of the BQ8030 tool, all that matters of it here.
SomeBytes == 3

\* A write of the tool is taken for done. The BQ8030 tool wants the length
\* back, the M37512 tool no error, the R2J240 tool uses SMBTransfer.
WriteTaken(o) ==
  CASE Bq -> o.ok /\ Written(SomeBytes) = SomeBytes
    [] run.target = "m37512" -> o.ok
    [] run.target = "r2j240" -> o.ok /\ HasTransfer

Exit(message) == pc' = "end" /\ said' = message

-----------------------------------------------------------------------------
(* The beginning of main                                                   *)

\* SBS Chemistry has four bytes when the firmware runs; a failed read is taken
\* for a boot ROM. The BQ8030 tool then asks for the boot ROM's version.
Probe ==
  /\ pc = "probe"
  /\ \E o \in Replies, v \in Replies :
       /\ IF (o.ok /\ mode = "firmware") \/ (Bq /\ ~v.ok)
            THEN Exit("refused")
            ELSE /\ pc' = CASE run.op = "dump"  -> "read"
                            [] run.op = "write" -> "check"
                            [] run.op = "erase" -> "confirm"
                 /\ UNCHANGED said
       /\ faulty' = (faulty \/ ~o.ok \/ ~v.ok)
  /\ UNCHANGED <<run, image, off, chunk, block2, polls, writeErr, chipVars, before,
                 misread>>

\* --confirm-delete, and the input file's existence and size: before the
\* erase, except for the program flash of the BQ8030.
FileFirst_Never == FALSE
FileFirst == run.target # "bq_program"

CheckWrite ==
  /\ pc = "check"
  /\ IF ~run.confirm \/ (FileFirst /\ run.file = "bad")
       THEN Exit("refused") ELSE pc' = "erase" /\ UNCHANGED said
  /\ UNCHANGED <<run, image, off, chunk, block2, polls, writeErr, chipVars, before,
                 ghosts>>

ConfirmErase ==
  /\ pc = "confirm"
  /\ IF run.confirm THEN pc' = "erase" /\ UNCHANGED said ELSE Exit("refused")
  /\ UNCHANGED <<run, image, off, chunk, block2, polls, writeErr, chipVars, before,
                 ghosts>>

CheckFileLate ==
  /\ pc = "file"
  /\ IF run.file = "bad" THEN Exit("refused") ELSE pc' = "write" /\ UNCHANGED said
  /\ UNCHANGED <<run, image, off, chunk, block2, polls, writeErr, chipVars, before,
                 ghosts>>

-----------------------------------------------------------------------------
(* Erasing                                                                 *)

\* The erase command. The BQ8030 tool does not look at the result; the M37512
\* tool, when it fails, calls eraseFlashBlock again to print the result.
EraseCommand ==
  /\ pc \in {"erase", "again"}
  /\ \E o \in Outcomes :
       /\ erasing' = (erasing \/ o.acted)
       /\ faulty' = (faulty \/ ~o.ok)
       /\ CASE Bq -> pc' = "wait" /\ UNCHANGED said
            [] run.target = "m37512" ->
                 IF pc = "again" THEN Exit("error")
                 ELSE pc' = (IF o.ok THEN "wait" ELSE "again") /\ UNCHANGED said
            [] run.target = "r2j240" ->
                 IF o.ok THEN pc' = "status" /\ UNCHANGED said ELSE Exit("error")
  /\ UNCHANGED <<run, image, off, chunk, block2, polls, writeErr, mode, flash, before,
                 misread>>

\* The chip has erased its cells, all but the weak ones.
EraseEnds ==
  /\ erasing
  /\ erasing' = FALSE
  /\ \E weak \in SUBSET Cells :
       /\ weak # {} => "weak" \in Faults
       /\ flash' = [c \in Cells |-> IF c \in weak THEN Junk ELSE Blank]
       /\ faulty' = (faulty \/ weak # {})
  /\ UNCHANGED <<run, image, toolVars, mode, before, misread>>

AfterErase ==
  IF run.op = "erase" THEN Exit("done")
  ELSE /\ pc' = IF FileFirst THEN "write" ELSE "file"
       /\ UNCHANGED said

\* sleep(1), taken to be long enough.
WaitErase ==
  /\ pc = "wait" /\ ~erasing
  /\ AfterErase
  /\ UNCHANGED <<run, image, off, chunk, block2, polls, writeErr, chipVars, before,
                 ghosts>>

\* The R2J240 tool reads the status register: the chip times out as long as it
\* is erasing, and then the tool polls (libusb does not promise to set errno);
\* any other failure ends it, and so does a status of 0.
ReadStatus ==
  /\ pc = "status"
  /\ \E o \in Outcomes, timedout \in BOOLEAN, zero \in BOOLEAN :
       /\ erasing /\ run.driver = "i2cdev" => timedout
       /\ zero => "corrupt" \in Faults /\ o.ok
       /\ CASE o.ok /\ ~erasing /\ ~zero -> AfterErase
            [] o.ok /\ ~erasing /\ zero -> Exit("error")
            [] (erasing \/ ~o.ok) /\ timedout -> pc' = "poll" /\ UNCHANGED said
            [] (erasing \/ ~o.ok) /\ ~timedout -> Exit("error")
       /\ faulty' = (faulty \/ zero \/ (~erasing /\ ~o.ok))
  /\ polls' = 0
  /\ UNCHANGED <<run, image, off, chunk, block2, writeErr, chipVars, before, misread>>

LastPoll == polls' = Polls

\* One readRam of the whole range. When all polls are used up, the result is
\* that of the last read: an erase whose cells never became blank is done.
PollErase ==
  /\ pc = "poll"
  /\ polls' = polls + 1
  /\ \E o \in Outcomes, dirty \in BOOLEAN :
       /\ dirty => "corrupt" \in Faults /\ o.ok
       /\ LET got   == o.ok /\ ~erasing /\ HasTransfer
              blank == ~dirty /\ \A c \in Cells : flash[c] = Blank
          IN  CASE got /\ (blank \/ LastPoll) -> AfterErase
                [] ~got /\ LastPoll -> Exit("error")
                [] OTHER -> UNCHANGED <<pc, said>>
       /\ faulty' = (faulty \/ dirty \/ (~erasing /\ ~o.ok) \/ (erasing /\ LastPoll))
  /\ UNCHANGED <<run, image, off, chunk, block2, writeErr, chipVars, before, misread>>

-----------------------------------------------------------------------------
(* Writing                                                                 *)

LastCell == off + 1 = Size

\* Flash takes a value when it is blank.
Programmed(old, new) == IF old \in {Blank, new} THEN new ELSE Junk

\* What reaches the chip: with PEC it refuses changed bytes, without it does
\* not notice; a weak cell keeps what it has.
Stored(c) ==
  {Programmed(flash[c], image[c])}
  \cup {Programmed(flash[c], Junk) : f \in IF Checked THEN {} ELSE Faults \cap {"corrupt"}}
  \cup {flash[c] : f \in Faults \cap {"weak"}}

\* The tool's only transfer that the chip never sees is one its driver has not.
Reaches(o) == o.acted /\ (run.target = "r2j240" => HasTransfer)

\* writeProgramBlock, writeEepromBlock, a chunk of writeFlash or of writeRam.
WriteChunk ==
  /\ pc = "write"
  /\ \E o \in Outcomes, v \in Stored(off) :
       /\ flash' = IF Reaches(o) THEN [flash EXCEPT ![off] = v] ELSE flash
       /\ faulty' = (faulty \/ ~o.ok \/ v # Programmed(flash[off], image[off]))
       /\ IF WriteTaken(o)
            THEN /\ off' = off + 1
                 /\ pc' = IF LastCell THEN "written" ELSE "write"
                 /\ UNCHANGED <<said, writeErr>>
            ELSE /\ IF Bq THEN Exit("error") /\ UNCHANGED writeErr
                    ELSE pc' = "written" /\ writeErr' = TRUE /\ UNCHANGED said
                 /\ UNCHANGED off
  /\ UNCHANGED <<run, image, chunk, block2, polls, mode, erasing, before, misread>>

\* The BQ8030 tool says "Verified OK!" also with --no-verify, the R2J240 tool
\* "Done!" also after an error.
AfterWrite ==
  /\ pc = "written"
  /\ off' = 0
  /\ IF run.verify
       THEN pc' = "read" /\ UNCHANGED said
       ELSE /\ pc' = "execute"
            /\ said' = CASE Bq -> "verified"
                         [] run.target = "m37512" /\ writeErr -> "error"
                         [] OTHER -> "done"
  /\ UNCHANGED <<run, image, chunk, block2, polls, writeErr, chipVars, before, ghosts>>

-----------------------------------------------------------------------------
(* Reading: dumps, and the verification of a write                         *)

\* readRam reads more at a time than writeRam writes.
ReadCells ==
  {c \in Cells : off <= c /\ c < off + IF run.target = "r2j240" THEN 2 ELSE 1}

NextOff_Stuck == off
NextOff == off + Cardinality(ReadCells)

\* The command in front of a read that sets the address.
AddressTaken(a) ==
  CASE run.target = "bq_program" -> a.ok /\ Written(SomeBytes) = SomeBytes
    [] run.target \in {"bq_eeprom", "m37512"} -> a.ok
    [] run.target = "r2j240" -> TRUE

\* The M37512 tool does not look whether the read has worked.
ReadTaken_Always(o) == TRUE
ReadTaken(o) ==
  CASE Bq -> o.ok
    [] run.target = "m37512" -> TRUE
    [] run.target = "r2j240" -> o.ok /\ HasTransfer

\* Where the bytes of cell c go: ptr moves along with the address.
Into_Stuck(c) == c - off
Into(c) == c

\* The bytes the tool has for cell c after a read that it takes for done.
Received(o, dirty, c) ==
  IF ~o.ok THEN chunk ELSE IF dirty THEN Junk ELSE flash[c]

\* The memcmp of a verification; for the EEPROM it compares 32 - 32 bytes.
Differs(read, written) == run.target # "bq_eeprom" /\ read # written

AllRead == off' = Size

\* A read that the tool takes for done.
ReadGoes(o, dirty) ==
  /\ block2' = [d \in Cells |->
       IF \E c \in ReadCells : Into(c) = d
         THEN Received(o, dirty, CHOOSE c \in ReadCells : Into(c) = d)
         ELSE block2[d]]
  /\ chunk' = IF run.target = "m37512" THEN block2'[Into(off)] ELSE chunk
  /\ off' = NextOff
  /\ misread' = (misread \/ ~o.ok \/ dirty)
  /\ IF run.op = "write" /\ Bq /\ Differs(block2'[off], image[off])
       THEN Exit("mismatch")
       ELSE /\ pc' = CASE ~AllRead -> "read"
                       [] AllRead /\ (Bq \/ run.op = "dump") -> "execute"
                       [] OTHER -> "compare"
            /\ said' = CASE AllRead /\ run.op = "dump" -> "done"
                         [] AllRead /\ run.op = "write" /\ Bq -> "verified"
                         [] OTHER -> said

\* One that it does not: the BQ8030 tool and the M37512 tool's verification
\* end, the R2J240 tool compares what it has.
ReadStops ==
  /\ IF run.op = "write" /\ run.target = "r2j240"
       THEN pc' = "compare" /\ misread' = TRUE /\ UNCHANGED said
       ELSE /\ pc' = IF run.op = "dump" /\ ~Bq THEN "execute" ELSE "end"
            /\ said' = "error" /\ UNCHANGED misread
  /\ UNCHANGED <<off, chunk, block2>>

\* readProgramBlock, readEepromBlock, a chunk of readFlash or of readRam.
ReadChunk ==
  /\ pc = "read"
  /\ \E a \in Outcomes, o \in Outcomes, dirty \in BOOLEAN :
       /\ dirty => "corrupt" \in Faults /\ ~Checked /\ o.ok
       /\ IF AddressTaken(a) /\ ReadTaken(o) THEN ReadGoes(o, dirty) ELSE ReadStops
       /\ faulty' = (faulty \/ ~a.ok \/ ~o.ok \/ dirty)
  /\ UNCHANGED <<run, image, polls, writeErr, chipVars, before>>

\* The M37512 and the R2J240 tool compare all at once.
CompareAll ==
  /\ pc = "compare"
  /\ said' = IF \E c \in Cells : Differs(block2[c], image[c])
               THEN "mismatch" ELSE "verified"
  /\ pc' = "execute"
  /\ UNCHANGED <<run, image, off, chunk, block2, polls, writeErr, chipVars, before,
                 ghosts>>

\* --execute.
Execute ==
  /\ pc = "execute"
  /\ pc' = "end"
  /\ IF run.execute
       THEN \E o \in Outcomes : /\ mode' = IF o.acted THEN "firmware" ELSE mode
                                /\ faulty' = (faulty \/ ~o.ok)
       ELSE UNCHANGED <<mode, faulty>>
  /\ UNCHANGED <<run, image, off, chunk, block2, polls, writeErr, said, flash, erasing,
                 before, misread>>

-----------------------------------------------------------------------------
main ==
  \/ Probe \/ CheckWrite \/ ConfirmErase \/ CheckFileLate
  \/ EraseCommand \/ WaitErase \/ ReadStatus \/ PollErase
  \/ WriteChunk \/ AfterWrite \/ ReadChunk \/ CompareAll \/ Execute

Next == main \/ EraseEnds

Spec == Init /\ [][Next]_vars

\* Every call of the library returns, and an erase takes its time.
FairSpec == Spec /\ WF_vars(main) /\ WF_vars(EraseEnds)

-----------------------------------------------------------------------------
\* The values the variables take.
TypeOK ==
  /\ pc \in {"probe", "check", "confirm", "file", "erase", "again", "wait", "status",
             "poll", "write", "written", "read", "compare", "execute", "end"}
  /\ said \in {"nothing", "refused", "error", "done", "verified", "mismatch"}
  /\ off \in 0..Size /\ polls \in 0..Polls
  /\ pc \in {"write", "read"} => off < Size
  /\ flash \in [Cells -> Values \cup {Blank, Junk}]
  /\ block2 \in [Cells -> Values \cup {Blank, Junk}]
  /\ mode \in {"firmware", "bootrom"}
  /\ {writeErr, erasing, faulty, misread} \subseteq BOOLEAN

\* "Verified OK!" means that the flash holds the file, whatever failed before:
\* the erase, a write, a cell. The BQ8030 tool with PEC on the board can rely
\* on it under every fault, the Renesas tools as long as no read of the
\* verification itself went wrong without a sign. (Not the EEPROM: see
\* EepromVerified.)
VerifiedMeansWritten ==
  /\ said = "verified" /\ run.verify
  /\ run.target # "bq_eeprom"
  /\ misread => run.target = "bq_program" /\ Checked
  => flash = image

\* A dump that ends with "Done!" holds the flash, if no read went wrong
\* without a sign; with the BQ8030 tool and PEC on the board none does.
DumpIsFlash ==
  /\ said = "done" /\ run.op = "dump"
  /\ misread => Bq /\ Checked
  => block2 = flash

\* With nothing going wrong, a write is refused only for a reason, and
\* otherwise the tool says so and the flash holds the file.
HealthySucceeds ==
  pc = "end" /\ ~faulty /\ run.op = "write" =>
    IF said = "refused"
      THEN mode = "firmware" \/ ~run.confirm \/ run.file = "bad"
      ELSE /\ said = IF run.verify \/ Bq THEN "verified" ELSE "done"
           /\ flash = image

\* It takes for granted a driver that the tool can work with: to write, the
\* BQ8030 tool wants the length back from SMBWriteBlock; the R2J240 tool needs
\* SMBTransfer.
DriversFit ==
  \A r \in Runs :
    /\ r.target \in {"bq_program", "bq_eeprom"} /\ r.op = "write" => r.driver = "fx2lp"
    /\ r.target = "r2j240" => r.driver = "i2cdev"

\* A tool that refuses has not touched the flash, nor started to. (The BQ8030
\* tool refuses a bad program file only after the erase.)
RefusedLeavesFlash ==
  /\ said = "refused"
  /\ run.target = "bq_program" => ~run.confirm \/ run.file = "good"
  => flash = before /\ ~erasing

\* Every run of a tool comes to its end.
FlasherEnds == <>(pc = "end")

-----------------------------------------------------------------------------
(* What a message says, and is not so                                      *)

\* "Verified OK!", said of the EEPROM.
EepromVerified ==
  said = "verified" /\ run.verify /\ run.target = "bq_eeprom" /\ ~misread
    => flash = image
=============================================================================
