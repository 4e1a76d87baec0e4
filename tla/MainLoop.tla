------------------------------ MODULE MainLoop ------------------------------
(***************************************************************************)
(* How a request gets from the host to a handler of the firmware and back  *)
(* (firmware/smbusb_firmware.c: main, sudav_isr, the way every case of     *)
(* handle_vendorcommand uses endpoint 0, and the handlers of standard      *)
(* requests). There is one endpoint, one copy of the SETUP packet and one  *)
(* bit, dosud, that says there is a packet to handle; the host may give up *)
(* at any time, and start its next request while the handler still runs.   *)
(*                                                                         *)
(* The endpoint is the controller's: a SETUP packet replaces SETUPDAT,     *)
(* makes the status stage wait (HSNAK), and ends STALL and BUSY. fx2lib's  *)
(* handle_setupdata selects the handler by SETUPDAT[1], stalls when it     *)
(* returns FALSE, and ends with the handshake.                             *)
(*                                                                         *)
(* What is in the endpoint buffer, or done on the bus, is told apart by    *)
(* the requests it was made of: the command of one, the parameters of one. *)
(***************************************************************************)
EXTENDS Integers, Sequences

CONSTANT MaxRequests    \* bound: requests the host makes

ASSUME LoopAssumption == MaxRequests \in Nat

\* "in" answers with bytes, "out" takes bytes, "none" has no data stage,
\* "unknown" is no case of the switch.
Kinds == {"in", "out", "none", "unknown"}

VARIABLES
  host,      \* stage of the host's control transfer: "idle", "data", "status"
  kinds,     \* the requests made; the last one's packet is in SETUPDAT
  got,       \* the bytes its data stage has brought
  result,    \* "none", "ok", "stalled", "left"
  clean,     \* its packet found the firmware with nothing to do
  busy,      \* EP0CS BUSY: the buffer is the controller's, to send or fill
  hsnak,     \* EP0CS HSNAK: the status stage is put off
  stall,     \* EP0CS STALL
  ep0buf,    \* EP0BUF
  dosud,     \* there is a SETUP packet to handle
  at,        \* where main is
  cmd,       \* the request whose SETUPDAT[1] selected the handler
  par,       \* the request whose value, index and length it has
  acted      \* what the handlers have done

usbVars == <<host, kinds, got, result, clean>>
ep0Vars == <<busy, hsnak, stall, ep0buf>>
fwVars  == <<dosud, at, cmd, par, acted>>
vars == <<usbVars, ep0Vars, fwVars>>

Req == Len(kinds)
Bytes(c, p) == [cmd |-> c, par |-> p]
NoBytes == Bytes(0, 0)

Init ==
  /\ host = "idle" /\ kinds = << >> /\ got = NoBytes /\ result = "none"
  /\ clean = TRUE
  /\ busy = FALSE /\ hsnak = FALSE /\ stall = FALSE /\ ep0buf = NoBytes
  /\ dosud = FALSE /\ at = "loop" /\ cmd = 0 /\ par = 0 /\ acted = << >>

-----------------------------------------------------------------------------
(* The host and the controller                                             *)

\* A SETUP packet arrives; sudav_isr runs before main takes another step.
\* The packet can be neither refused nor put off.
sudav_isr ==
  /\ host = "idle" /\ Req < MaxRequests
  /\ \E k \in Kinds :
       /\ kinds' = Append(kinds, k)
       /\ host' = IF k \in {"in", "out"} THEN "data" ELSE "status"
  /\ clean' = (at = "loop" /\ ~dosud)
  /\ got' = NoBytes /\ result' = "none"
  /\ busy' = FALSE /\ hsnak' = TRUE /\ stall' = FALSE
  /\ dosud' = TRUE
  /\ UNCHANGED <<ep0buf, at, cmd, par, acted>>

DataStage ==
  /\ host = "data" /\ busy /\ ~stall
  /\ \/ kinds[Req] = "in"  /\ got' = ep0buf /\ UNCHANGED ep0buf
     \/ kinds[Req] = "out" /\ ep0buf' = Bytes(Req, Req) /\ UNCHANGED got
  /\ busy' = FALSE /\ host' = "status"
  /\ UNCHANGED <<kinds, result, clean, hsnak, stall, fwVars>>

Returns(how) ==
  /\ host' = "idle" /\ result' = how
  /\ UNCHANGED <<kinds, got, clean, ep0Vars, fwVars>>

StatusStage == host = "status" /\ ~hsnak /\ ~stall /\ Returns("ok")
Stalled     == host # "idle" /\ stall /\ Returns("stalled")

\* 100 ms are over, or the process has been ended.
HostGivesUp == host # "idle" /\ Returns("left")

-----------------------------------------------------------------------------
(* main and the handlers                                                   *)

\* if (dosud) handle_setupdata(), which looks at SETUPDAT[1].
handle_setupdata ==
  /\ at = "loop" /\ dosud
  /\ cmd' = Req
  /\ at' = "enter"
  /\ UNCHANGED <<usbVars, ep0Vars, dosud, par, acted>>

\* The first lines of handle_vendorcommand, and its switch.
handle_vendorcommand ==
  /\ at = "enter"
  /\ par' = Req
  /\ at' = CASE kinds[cmd] = "out"     -> "take"
             [] kinds[cmd] = "unknown" -> "refuse"
             [] OTHER                  -> "wait"
  /\ UNCHANGED <<usbVars, ep0Vars, dosud, cmd, acted>>

\* EP0BCL=0: read from the host.
TakeData_Skipped == UNCHANGED busy
TakeData == busy' = TRUE

ReadFromHost ==
  /\ at = "take"
  /\ TakeData
  /\ at' = "wait"
  /\ UNCHANGED <<usbVars, hsnak, stall, ep0buf, dosud, cmd, par, acted>>

\* while (EP0CS&bmEPBUSY);
Ready_Inverted == busy
Ready == ~busy

WaitUntilReady ==
  /\ at = "wait" /\ Ready
  /\ at' = "act"
  /\ UNCHANGED <<usbVars, ep0Vars, dosud, cmd, par, acted>>

\* The handler does what it is for, and leaves its answer in EP0BUF, or
\* returns FALSE.
AfterAct(ok) ==
  IF ~ok THEN "refuse" ELSE IF kinds[cmd] = "out" THEN "handshake" ELSE "answer"

Act ==
  /\ at = "act"
  /\ \E ok \in BOOLEAN :
       /\ at' = AfterAct(ok)
       /\ acted' = IF ok
            THEN Append(acted, [did  |-> Bytes(cmd, par),
                                data |-> IF kinds[cmd] = "out" THEN ep0buf
                                                               ELSE NoBytes])
            ELSE acted
       /\ ep0buf' = IF ok /\ kinds[cmd] = "in" THEN Bytes(cmd, par) ELSE ep0buf
  /\ UNCHANGED <<usbVars, busy, hsnak, stall, dosud, cmd, par>>

\* EP0BCL=n: the buffer is the controller's.
ReturnToHost ==
  /\ at = "answer"
  /\ busy' = TRUE /\ at' = "handshake"
  /\ UNCHANGED <<usbVars, hsnak, stall, ep0buf, dosud, cmd, par, acted>>

\* return FALSE
STALLEP0 ==
  /\ at = "refuse"
  /\ stall' = TRUE /\ at' = "handshake"
  /\ UNCHANGED <<usbVars, busy, hsnak, ep0buf, dosud, cmd, par, acted>>

Acknowledge_Forgotten == UNCHANGED hsnak
Acknowledge == hsnak' = FALSE

Handshake ==
  /\ at = "handshake"
  /\ Acknowledge
  /\ at' = "clear"
  /\ UNCHANGED <<usbVars, busy, stall, ep0buf, dosud, cmd, par, acted>>

\* dosud=FALSE, also for a packet that came in the meantime.
Handled_Kept == UNCHANGED dosud
Handled == dosud' = FALSE

ClearSudav ==
  /\ at = "clear"
  /\ Handled
  /\ at' = "loop"
  /\ UNCHANGED <<usbVars, ep0Vars, cmd, par, acted>>

-----------------------------------------------------------------------------
main ==
  \/ handle_setupdata \/ handle_vendorcommand
  \/ ReadFromHost \/ WaitUntilReady \/ Act \/ ReturnToHost \/ STALLEP0
  \/ Handshake \/ ClearSudav

UsbTransfer == DataStage \/ StatusStage \/ Stalled

Next == sudav_isr \/ UsbTransfer \/ HostGivesUp \/ main

Spec == Init /\ [][Next]_vars

\* The processor runs, and the host's controller repeats its tokens until
\* they are answered. The host need not give up, nor ask for anything.
FairSpec == Spec /\ WF_vars(main) /\ WF_vars(UsbTransfer)

-----------------------------------------------------------------------------
\* The values the variables take.
TypeOK ==
  /\ host \in {"idle", "data", "status"}
  /\ kinds \in Seq(Kinds) /\ Req <= MaxRequests
  /\ result \in {"none", "ok", "stalled", "left"}
  /\ at \in {"loop", "enter", "take", "wait", "act", "answer", "refuse",
             "handshake", "clear"}
  /\ {clean, busy, hsnak, stall, dosud} \subseteq BOOLEAN
  /\ cmd \in 0..Req /\ par \in 0..Req
  /\ Len(acted) <= Req

\* What was done of request r: with another's command, parameters or data too.
DoneOf(r) ==
  {i \in 1..Len(acted) :
     r \in {acted[i].did.cmd, acted[i].did.par, acted[i].data.cmd}}

AsAsked(r) ==
  [did  |-> Bytes(r, r),
   data |-> IF kinds[r] = "out" THEN Bytes(r, r) ELSE NoBytes]

\* A request that found the firmware with nothing to do is carried out as it
\* was asked, with its own parameters and data, or not at all; and what the
\* host is told of it is true. Requests made while an abandoned one is still
\* being handled have no such promise: they get its answer.
CleanIsExact ==
  clean /\ Req > 0 =>
    /\ \A i \in DoneOf(Req) : acted[i] = AsAsked(Req)
    /\ result = "ok" =>
         /\ DoneOf(Req) # {}
         /\ kinds[Req] = "in" => got = Bytes(Req, Req)
    /\ result = "stalled" => DoneOf(Req) = {}

\* Every request is handled at most once, overtaken or not: dosud is not left
\* for a packet that has been handled already.
HandledOnce ==
  \A i, j \in 1..Len(acted) : acted[i].did.cmd = acted[j].did.cmd => i = j

\* A request that found the firmware with nothing to do is answered, if the
\* host waits for it: no packet is forgotten then and no stage is left waiting.
CleanRequestEnds == (clean /\ host # "idle") ~> (host = "idle")

\* A handler waits for data, and the host, gone or at another request, is not
\* going to send any.
LeftWaiting == at = "wait" /\ busy /\ host # "data"

\* The firmware always comes back to its loop, whatever it was asked and
\* whoever gave up, but for that one wait, which only another packet ends.
LoopAgain == (at # "loop") ~> (at = "loop" \/ LeftWaiting)
=============================================================================
