--------------------------- MODULE MainLoopProofs ---------------------------
(***************************************************************************)
(* Proofs that a request is handled at most once, and that one that found  *)
(* the firmware with nothing to do is carried out as it was asked, for any *)
(* number of requests.                                                     *)
(*                                                                         *)
(* The runs' invariants speak of the end of a request; what carries them   *)
(* is where main stands when: while it has not acted, nothing done so far  *)
(* has anything of the last request in it (Untouched), because tags only   *)
(* grow (Known, Order); once it has, what it did is exact (Served), or it  *)
(* stalled the endpoint and did nothing (Denied).                          *)
(***************************************************************************)
EXTENDS MainLoop, TLAPS

Tags == [cmd : Nat, par : Nat]
Deeds == [did : Tags, data : Tags]
Before == {"enter", "take", "wait", "act"}

\* The types of the variables, those TypeOK leaves out too.
Types ==
  /\ host \in {"idle", "data", "status"}
  /\ kinds \in Seq(Kinds)
  /\ result \in {"none", "ok", "stalled", "left"}
  /\ at \in Before \cup {"loop", "answer", "refuse", "handshake", "clear"}
  /\ clean \in BOOLEAN /\ busy \in BOOLEAN /\ hsnak \in BOOLEAN
  /\ stall \in BOOLEAN /\ dosud \in BOOLEAN
  /\ cmd \in Nat /\ par \in Nat
  /\ got \in Tags /\ ep0buf \in Tags
  /\ acted \in Seq(Deeds)

\* Nothing speaks of a request that has not been made.
Known ==
  /\ cmd <= Req /\ par <= Req /\ ep0buf.cmd <= Req
  /\ \A i \in 1..Len(acted) :
       acted[i].did.cmd <= Req /\ acted[i].did.par <= Req /\ acted[i].data.cmd <= Req

\* Requests are handled in their order, and a packet that waits is a new one.
Order ==
  /\ at = "loop" /\ dosud => cmd < Req
  /\ at # "loop" => cmd > 0
  /\ \A i \in 1..Len(acted) :
       acted[i].did.cmd <= cmd /\ (at \in Before => acted[i].did.cmd < cmd)
  /\ HandledOnce

\* Nothing done so far has anything of request r in it.
Old(r) ==
  \A i \in 1..Len(acted) :
    acted[i].did.cmd < r /\ acted[i].did.par < r /\ acted[i].data.cmd < r

\* Request r has been carried out, and as it was asked.
Exact(r) == DoneOf(r) # {} /\ \A i \in DoneOf(r) : acted[i] = AsAsked(r)

In == kinds[Req] = "in"
Out == kinds[Req] = "out"
Full == ep0buf = Bytes(Req, Req)

\* The last request has not been acted on, and the host cannot be past it.
Untouched ==
  /\ Old(Req) /\ hsnak /\ ~stall /\ result \notin {"ok", "stalled"}
  /\ In => host # "status"

Served ==
  /\ Exact(Req) /\ ~stall /\ result # "stalled"
  /\ In => /\ host = "data" => Full
           /\ host = "status" \/ result = "ok" => got = Bytes(Req, Req)

Denied == Old(Req) /\ stall /\ result # "ok"

\* What holds at each place of main of a request that found it with nothing to
\* do.
Places ==
  /\ at = "loop" /\ dosud => Untouched /\ ~busy
  /\ at = "enter" => Untouched /\ ~busy /\ cmd = Req
  /\ at = "take"  => Untouched /\ ~busy /\ cmd = Req /\ par = Req /\ Out
  /\ at = "wait"  => /\ Untouched /\ cmd = Req /\ par = Req
                     /\ IF Out THEN busy \/ Full ELSE ~busy
  /\ at = "act"   => /\ Untouched /\ cmd = Req /\ par = Req /\ ~busy
                     /\ Out => Full
  /\ at = "answer" => /\ Exact(Req) /\ hsnak /\ ~stall /\ ~busy /\ ~Out
                      /\ result \notin {"ok", "stalled"}
                      /\ In => Full /\ host # "status"
  /\ at = "refuse" => Untouched /\ ~busy
  /\ at \in {"handshake", "clear"} \/ (at = "loop" /\ ~dosud) => Served \/ Denied

Clean == clean /\ Req > 0 => Places

IInv == Types /\ Known /\ Order /\ Clean

-----------------------------------------------------------------------------
(* What the steps do to the history, and to the requests                    *)

LEMMA InitInv == Init => IInv
<1> SUFFICES ASSUME Init PROVE IInv
  OBVIOUS
<1>1. Types
  <2>1. kinds \in Seq(Kinds) /\ acted \in Seq(Deeds)
    BY DEF Init
  <2>2. NoBytes \in Tags
    BY DEF NoBytes, Bytes, Tags
  <2> QED
    BY <2>1, <2>2 DEF Init, Types, Before
<1>2. Known
  BY DEF Init, Known, NoBytes, Bytes, Req
<1>3. Order
  BY DEF Init, Order, HandledOnce, Before
<1>4. Clean
  BY DEF Init, Clean, Req
<1> QED
  BY <1>1, <1>2, <1>3, <1>4 DEF IInv

\* A request is one more than there were, and the others stay what they were.
LEMMA Packet ==
  ASSUME Types, sudav_isr
  PROVE  /\ Req' = Req + 1 /\ Req' \in Nat /\ Req \in Nat
         /\ kinds' \in Seq(Kinds) /\ kinds'[Req'] \in Kinds
         /\ host' = IF kinds'[Req'] \in {"in", "out"} THEN "data" ELSE "status"
         /\ acted' = acted
<1>1. PICK k \in Kinds : /\ kinds' = Append(kinds, k)
                         /\ host' = IF k \in {"in", "out"} THEN "data" ELSE "status"
  BY DEF sudav_isr
<1>2. kinds'[Len(kinds) + 1] = k /\ Len(kinds') = Len(kinds) + 1
  BY <1>1 DEF Types
<1> QED
  BY <1>1, <1>2 DEF Types, Req, sudav_isr

\* What a handler that succeeds adds to what has been done.
Entry == [did  |-> Bytes(cmd, par),
          data |-> IF kinds[cmd] = "out" THEN ep0buf ELSE NoBytes]

LEMMA Acting ==
  ASSUME Types, Act
  PROVE  \/ /\ acted' = acted /\ ep0buf' = ep0buf
            /\ at' = "refuse"
         \/ /\ Len(acted') = Len(acted) + 1
            /\ acted'[Len(acted) + 1] = Entry
            /\ \A i \in 1..Len(acted) : acted'[i] = acted[i]
            /\ acted' \in Seq(Deeds)
            /\ ep0buf' = IF kinds[cmd] = "in" THEN Bytes(cmd, par) ELSE ep0buf
            /\ at' = IF kinds[cmd] = "out" THEN "handshake" ELSE "answer"
<1>1. Entry \in Deeds
  BY DEF Types, Entry, Deeds, Tags, Bytes, NoBytes
<1>2. PICK ok \in BOOLEAN :
        /\ at' = AfterAct(ok)
        /\ acted' = IF ok THEN Append(acted, Entry) ELSE acted
        /\ ep0buf' = IF ok /\ kinds[cmd] = "in" THEN Bytes(cmd, par) ELSE ep0buf
  BY DEF Act, Entry
<1>3. CASE ok
  BY <1>1, <1>2, <1>3 DEF Types, AfterAct
<1>4. CASE ~ok
  BY <1>2, <1>4 DEF AfterAct
<1> QED
  BY <1>3, <1>4

-----------------------------------------------------------------------------
(* Types and Known                                                          *)

LEMMA TypesStep ==
  ASSUME Types, [Next]_vars
  PROVE  Types'
<1> USE DEF Types
<1>1. CASE sudav_isr
  BY <1>1, Packet DEF sudav_isr, NoBytes, Bytes, Tags, Before
<1>2. CASE DataStage
  <2>1. Bytes(Req, Req) \in Tags
    BY DEF Bytes, Tags, Req
  <2> QED
    BY <1>2, <2>1 DEF DataStage, fwVars
<1>7. CASE StatusStage \/ Stalled \/ HostGivesUp
  BY <1>7 DEF HostGivesUp, StatusStage, Stalled, Returns, ep0Vars, fwVars
<1>3. CASE handle_setupdata \/ handle_vendorcommand
  BY <1>3 DEF handle_setupdata, handle_vendorcommand, usbVars, ep0Vars, Before, Req
<1>4. CASE ReadFromHost \/ WaitUntilReady \/ ReturnToHost \/ STALLEP0 \/ Handshake \/ ClearSudav
  BY <1>4 DEF ReadFromHost, WaitUntilReady, ReturnToHost, STALLEP0, Handshake,
              ClearSudav, TakeData, Acknowledge, Handled, usbVars, ep0Vars, Before
<1>5. CASE Act
  BY <1>5, Acting DEF Act, usbVars, Before, Tags, Bytes
<1>6. CASE UNCHANGED vars
  BY <1>6 DEF vars, usbVars, ep0Vars, fwVars
<1> QED
  BY <1>1, <1>2, <1>3, <1>4, <1>5, <1>6, <1>7 DEF Next, UsbTransfer, main

\* Only a packet makes a request.
LEMMA SameRequests ==
  ASSUME Types, UsbTransfer \/ HostGivesUp \/ main \/ UNCHANGED vars
  PROVE  kinds' = kinds /\ Req' = Req /\ clean' = clean
BY DEF UsbTransfer, HostGivesUp, DataStage, StatusStage, Stalled, Returns, main,
       handle_setupdata, handle_vendorcommand, ReadFromHost, WaitUntilReady, Act,
       ReturnToHost, STALLEP0, Handshake, ClearSudav, vars, usbVars, Req

\* Only Act does anything.
LEMMA SameHistory ==
  ASSUME [Next]_vars, ~Act
  PROVE  acted' = acted
BY DEF Next, sudav_isr, UsbTransfer, HostGivesUp, DataStage, StatusStage, Stalled,
       Returns, main, handle_setupdata, handle_vendorcommand, ReadFromHost,
       WaitUntilReady, ReturnToHost, STALLEP0, Handshake, ClearSudav, vars,
       usbVars, ep0Vars, fwVars

\* What has been done is made of numbers.
LEMMA History ==
  ASSUME Types
  PROVE  /\ Len(acted) \in Nat
         /\ \A i \in 1..Len(acted) :
              /\ acted[i].did.cmd \in Nat
              /\ acted[i].did.par \in Nat
              /\ acted[i].data.cmd \in Nat
<1>1. acted \in Seq(Deeds)
  BY DEF Types
<1>2. \A i \in 1..Len(acted) : acted[i] \in Deeds
  BY <1>1
<1> QED
  BY <1>1, <1>2 DEF Deeds, Tags

LEMMA KnownStep ==
  ASSUME Types, Known, [Next]_vars
  PROVE  Known'
<1>0. Req \in Nat
  BY DEF Types, Req
<1> USE DEF Known, Types
<1>1. CASE sudav_isr
  <2>1. UNCHANGED <<cmd, par, ep0buf, acted>>
    BY <1>1 DEF sudav_isr
  <2>2. Req' = Req + 1
    BY <1>1, Packet
  <2>3. ep0buf.cmd \in Nat
    BY DEF Tags
  <2>4. \A n \in Nat : n <= Req => n <= Req'
    BY <1>0, <2>2
  <2>5. \A i \in 1..Len(acted) :
          acted[i].did.cmd <= Req' /\ acted[i].did.par <= Req' /\ acted[i].data.cmd <= Req'
    BY <2>4, History
  <2> QED
    BY <2>1, <2>3, <2>4, <2>5
<1>2. CASE UsbTransfer \/ HostGivesUp
  <2>1. UNCHANGED <<cmd, par, acted>> /\ (ep0buf' = ep0buf \/ ep0buf' = Bytes(Req, Req))
    BY <1>2 DEF UsbTransfer, HostGivesUp, DataStage, StatusStage, Stalled, Returns,
                ep0Vars, fwVars
  <2> QED
    BY <1>0, <1>2, <2>1, SameRequests DEF Bytes
<1>3. CASE main /\ ~Act
  <2>1. /\ cmd' \in {cmd, Req} /\ par' \in {par, Req} /\ ep0buf' = ep0buf
    BY <1>3 DEF main, handle_setupdata, handle_vendorcommand, ReadFromHost,
                WaitUntilReady, ReturnToHost, STALLEP0, Handshake, ClearSudav, ep0Vars
  <2> QED
    BY <1>0, <1>3, <2>1, SameRequests, SameHistory
<1>4. CASE Act
  <2>1. UNCHANGED <<cmd, par>> /\ Req' = Req
    BY <1>4, SameRequests DEF Act, main
  <2>2. ep0buf'.cmd <= Req
    BY <1>4, <2>1, Acting DEF Bytes
  <2>3. Entry.did.cmd <= Req /\ Entry.did.par <= Req /\ Entry.data.cmd <= Req
    BY <1>0 DEF Entry, Bytes, NoBytes
  <2>4. \A i \in 1..Len(acted') :
          acted'[i].did.cmd <= Req /\ acted'[i].did.par <= Req /\ acted'[i].data.cmd <= Req
    BY <1>4, <2>3, Acting
  <2> QED
    BY <2>1, <2>2, <2>4
<1>5. CASE UNCHANGED vars
  BY <1>5 DEF vars, usbVars, ep0Vars, fwVars, Req
<1> QED
  BY <1>1, <1>2, <1>3, <1>4, <1>5 DEF Next

-----------------------------------------------------------------------------
(* Order                                                                    *)

LEMMA OrderStep ==
  ASSUME Types, Known, Order, [Next]_vars
  PROVE  Order'
<1>0. /\ Req \in Nat /\ cmd \in Nat /\ cmd <= Req
      /\ \A i \in 1..Len(acted) : acted[i].did.cmd \in Nat
  BY History DEF Types, Known, Req
<1>1. CASE sudav_isr
  <2>1. UNCHANGED <<cmd, at, acted>> /\ Req' = Req + 1
    BY <1>1, Packet DEF sudav_isr
  <2> QED
    BY <1>0, <2>1 DEF Order, HandledOnce
<1>2. CASE UsbTransfer \/ HostGivesUp \/ UNCHANGED vars
  <2>1. UNCHANGED <<dosud, cmd, at, acted>> /\ Req' = Req
    BY <1>2, SameRequests DEF UsbTransfer, HostGivesUp, DataStage, StatusStage,
       Stalled, Returns, fwVars, vars
  <2> QED
    BY <2>1 DEF Order, HandledOnce
<1>3. CASE handle_setupdata
  <2>1. at = "loop" /\ dosud /\ cmd' = Req /\ at' = "enter" /\ UNCHANGED acted /\ Req' = Req
    BY <1>3, SameRequests DEF handle_setupdata, main
  <2>2. cmd < Req
    BY <2>1 DEF Order
  <2>3. \A i \in 1..Len(acted) : acted[i].did.cmd <= cmd
    BY DEF Order
  <2> QED
    BY <1>0, <2>1, <2>2, <2>3 DEF Order, HandledOnce
<1>4. CASE main /\ ~handle_setupdata /\ ~Act
  <2>1. /\ UNCHANGED <<cmd, acted>> /\ Req' = Req
        /\ at # "loop" /\ (at' = "loop" => ~dosud')
        /\ at' \in Before => at \in Before
    BY <1>4, SameRequests, SameHistory DEF main, handle_vendorcommand, ReadFromHost,
       WaitUntilReady, ReturnToHost, STALLEP0, Handshake, ClearSudav, Handled, Before
  <2> QED
    BY <2>1 DEF Order, HandledOnce
<1>5. CASE Act
  <2>1. at \in Before /\ at' \notin Before \cup {"loop"} /\ UNCHANGED cmd /\ cmd > 0
    BY <1>5, Acting DEF Act, Before, Order
  <2>2. \A i \in 1..Len(acted) : acted[i].did.cmd < cmd
    BY <2>1 DEF Order
  <2>3. Entry.did.cmd = cmd
    BY DEF Entry, Bytes
  <2>4. CASE acted' = acted
    BY <2>1, <2>4 DEF Order, HandledOnce
  <2>5. CASE acted' # acted
    <3>1. /\ Len(acted) \in Nat /\ Len(acted') = Len(acted) + 1
          /\ acted'[Len(acted) + 1].did.cmd = cmd
          /\ \A i \in 1..Len(acted) : acted'[i].did.cmd = acted[i].did.cmd
      BY <1>5, <2>3, <2>5, Acting, History
    <3>2. \A i \in 1..Len(acted') : i \in 1..Len(acted) \/ i = Len(acted) + 1
      BY <3>1
    <3>3. \A i \in 1..Len(acted') : acted'[i].did.cmd <= cmd
      BY <1>0, <2>2, <3>1, <3>2
    <3>4. HandledOnce'
      <4> SUFFICES ASSUME NEW i \in 1..Len(acted'), NEW j \in 1..Len(acted'),
                          acted'[i].did.cmd = acted'[j].did.cmd
                   PROVE  i = j
        BY DEF HandledOnce
      <4>1. CASE i \in 1..Len(acted) /\ j \in 1..Len(acted)
        BY <3>1, <4>1 DEF Order, HandledOnce
      <4> QED
        BY <1>0, <2>2, <3>1, <3>2, <4>1
    <3> QED
      BY <2>1, <3>3, <3>4 DEF Order
  <2> QED
    BY <2>4, <2>5
<1> QED
  BY <1>1, <1>2, <1>3, <1>4, <1>5 DEF Next

-----------------------------------------------------------------------------
(* Clean                                                                    *)

\* While nothing is done and no request is made, what has been done keeps its
\* relation to the last request.
LEMMA SameDone ==
  ASSUME acted' = acted, kinds' = kinds
  PROVE  /\ Old(Req)' = Old(Req) /\ Exact(Req)' = Exact(Req)
         /\ In' = In /\ Out' = Out /\ Req' = Req
BY DEF Old, Exact, DoneOf, AsAsked, In, Out, Req

\* A packet finds the firmware with nothing to do, or is not a clean one.
LEMMA CleanPacket ==
  ASSUME Types, Known, sudav_isr
  PROVE  Clean'
<1> SUFFICES ASSUME clean' PROVE Places'
  BY DEF Clean
<1>1. /\ at' = "loop" /\ dosud' /\ ~busy' /\ hsnak' /\ ~stall' /\ result' = "none"
      /\ UNCHANGED acted
  BY DEF sudav_isr
<1>2. Req' = Req + 1 /\ Req \in Nat /\ (In' => host' = "data")
  BY Packet DEF In
<1>3. Old(Req)'
  <2>1. \A n \in Nat : n <= Req => n < Req'
    BY <1>2
  <2>2. \A i \in 1..Len(acted) :
          acted[i].did.cmd < Req' /\ acted[i].did.par < Req' /\ acted[i].data.cmd < Req'
    BY <2>1, History DEF Known
  <2> QED
    BY <1>1, <2>2 DEF Old
<1> QED
  BY <1>1, <1>2, <1>3 DEF Places, Untouched

\* What the host's side does to a clean request.
LEMMA CleanTransfer ==
  ASSUME Types, Places, UsbTransfer \/ HostGivesUp \/ UNCHANGED vars
  PROVE  Places'
<1>1. UNCHANGED <<kinds, dosud, at, cmd, par, acted>>
  BY DEF UsbTransfer, HostGivesUp, DataStage, StatusStage, Stalled, Returns,
         fwVars, vars, usbVars
<1>2. /\ Old(Req)' = Old(Req) /\ Exact(Req)' = Exact(Req)
      /\ In' = In /\ Out' = Out /\ Req' = Req
  BY <1>1, SameDone
<1> USE <1>1, <1>2 DEF Places, Untouched, Served, Denied, Full
<1>3. CASE DataStage
  <2>1. /\ host = "data" /\ busy /\ ~stall /\ host' = "status" /\ ~busy'
        /\ UNCHANGED <<result, hsnak, stall>>
        /\ \/ In /\ ~Out /\ got' = ep0buf /\ UNCHANGED ep0buf
           \/ Out /\ ~In /\ ep0buf' = Bytes(Req, Req)
    BY <1>3 DEF DataStage, fwVars, In, Out
  <2>2. at = "wait" \/ at \in {"handshake", "clear"} \/ (at = "loop" /\ ~dosud)
    BY <2>1 DEF Types, Before
  <2>3. CASE at = "wait"
    BY <2>1, <2>3
  <2>4. CASE at # "wait"
    BY <2>1, <2>2, <2>4
  <2> QED
    BY <2>3, <2>4
<1>4. CASE StatusStage
  <2>1. /\ host = "status" /\ ~hsnak /\ ~stall /\ host' = "idle" /\ result' = "ok"
        /\ UNCHANGED <<got, busy, hsnak, stall, ep0buf>>
    BY <1>4 DEF StatusStage, Returns, ep0Vars
  <2>2. at \in {"handshake", "clear"} \/ (at = "loop" /\ ~dosud)
    BY <2>1 DEF Types, Before
  <2> QED
    BY <2>1, <2>2
<1>5. CASE Stalled
  <2>1. /\ stall /\ host' = "idle" /\ result' = "stalled"
        /\ UNCHANGED <<got, busy, hsnak, stall, ep0buf>>
    BY <1>5 DEF Stalled, Returns, ep0Vars
  <2>2. at \in {"handshake", "clear"} \/ (at = "loop" /\ ~dosud)
    BY <2>1 DEF Types, Before
  <2> QED
    BY <2>1, <2>2
<1>6. CASE HostGivesUp
  <2>1. /\ host' = "idle" /\ result' = "left"
        /\ UNCHANGED <<got, busy, hsnak, stall, ep0buf>>
    BY <1>6 DEF HostGivesUp, Returns, ep0Vars
  <2> QED
    BY <2>1
<1>7. CASE UNCHANGED vars
  BY <1>7 DEF vars, usbVars, ep0Vars
<1> QED
  BY <1>3, <1>4, <1>5, <1>6, <1>7 DEF UsbTransfer

\* What main does to it, but for the handler's own work.
LEMMA CleanMain ==
  ASSUME Types, Order, Places, main, ~Act
  PROVE  Places'
<1>1. UNCHANGED <<host, kinds, got, result, clean, acted, ep0buf>>
  BY DEF main, handle_setupdata, handle_vendorcommand, ReadFromHost, WaitUntilReady,
     ReturnToHost, STALLEP0, Handshake, ClearSudav, usbVars, ep0Vars
<1>2. /\ Old(Req)' = Old(Req) /\ Exact(Req)' = Exact(Req)
      /\ In' = In /\ Out' = Out /\ Req' = Req
  BY <1>1, SameDone
<1> USE <1>1, <1>2 DEF Places, Untouched, Served, Denied, Full
<1>3. CASE handle_setupdata
  BY <1>3 DEF handle_setupdata, ep0Vars
<1>4. CASE handle_vendorcommand
  <2>1. at = "enter" /\ cmd = Req
    BY <1>4 DEF handle_vendorcommand
  <2>2. /\ par' = Req /\ UNCHANGED <<cmd, busy, hsnak, stall>>
        /\ \/ at' = "take" /\ Out
           \/ at' = "refuse"
           \/ at' = "wait" /\ ~Out
    BY <1>4, <2>1 DEF handle_vendorcommand, ep0Vars, Out
  <2> QED
    BY <2>1, <2>2
<1>5. CASE ReadFromHost
  BY <1>5 DEF ReadFromHost, TakeData
<1>6. CASE WaitUntilReady
  BY <1>6 DEF WaitUntilReady, Ready, ep0Vars
<1>7. CASE ReturnToHost
  BY <1>7 DEF ReturnToHost
<1>8. CASE STALLEP0
  BY <1>8 DEF STALLEP0
<1>9. CASE Handshake
  BY <1>9 DEF Handshake
<1>10. CASE ClearSudav
  BY <1>10 DEF ClearSudav, Handled, ep0Vars
<1> QED
  BY <1>3, <1>4, <1>5, <1>6, <1>7, <1>8, <1>9, <1>10 DEF main

\* The handler's own work: done for this request and no other.
LEMMA CleanAct ==
  ASSUME Types, Places, Act
  PROVE  Places'
<1>1. /\ at = "act" /\ UNCHANGED <<host, kinds, got, result, busy, hsnak, stall, cmd, par>>
  BY DEF Act, usbVars
<1>2. /\ Untouched /\ cmd = Req /\ par = Req /\ ~busy /\ (Out => Full)
  BY <1>1 DEF Places
<1>3. Req' = Req /\ In' = In /\ Out' = Out /\ Req \in Nat
  BY <1>1 DEF Req, In, Out, Types
<1>4. CASE at' = "refuse" /\ acted' = acted
  <2>1. Old(Req)' = Old(Req)
    BY <1>1, <1>4, SameDone
  <2> QED
    BY <1>1, <1>2, <1>3, <1>4, <2>1 DEF Places, Untouched
<1>5. CASE at' = IF kinds[cmd] = "out" THEN "handshake" ELSE "answer"
  <2>1. /\ Len(acted) \in Nat /\ Len(acted') = Len(acted) + 1
        /\ acted'[Len(acted) + 1] = Entry
        /\ \A i \in 1..Len(acted) : acted'[i] = acted[i]
        /\ In => ep0buf' = Bytes(cmd, par)
    BY <1>2, <1>5, Acting, History DEF In
  <2>2. Entry = AsAsked(Req)
    BY <1>2 DEF Entry, AsAsked, Out, Full
  <2>3. \A i \in 1..Len(acted') : i \in 1..Len(acted) \/ i = Len(acted) + 1
    BY <2>1
  <2>4. DoneOf(Req)' = {Len(acted) + 1}
    <3>1. Entry.did.cmd = Req
      BY <1>2 DEF Entry, Bytes
    <3>2. Len(acted) + 1 \in DoneOf(Req)'
      BY <1>3, <2>1, <3>1 DEF DoneOf
    <3>3. \A i \in 1..Len(acted) : i \notin DoneOf(Req)'
      <4> SUFFICES ASSUME NEW i \in 1..Len(acted)
                   PROVE  Req \notin {acted[i].did.cmd, acted[i].did.par, acted[i].data.cmd}
        BY <1>3, <2>1 DEF DoneOf
      <4>1. acted[i].did.cmd < Req /\ acted[i].did.par < Req /\ acted[i].data.cmd < Req
        BY <1>2 DEF Untouched, Old
      <4> QED
        BY <1>3, <4>1, History
    <3>4. DoneOf(Req)' \subseteq 1..Len(acted')
      BY DEF DoneOf
    <3> QED
      BY <2>3, <3>2, <3>3, <3>4
  <2>5. Exact(Req)'
    <3>1. AsAsked(Req)' = AsAsked(Req)
      BY <1>1, <1>3 DEF AsAsked
    <3> QED
      BY <1>3, <2>1, <2>2, <2>4, <3>1 DEF Exact
  <2>6. In => Full'
    BY <1>2, <1>3, <2>1 DEF Full
  <2>7. CASE Out
    <3>1. at' = "handshake" /\ ~In
      BY <1>2, <1>5, <2>7 DEF Out, In
    <3> QED
      BY <1>1, <1>2, <1>3, <2>5, <3>1 DEF Places, Served, Untouched
  <2>8. CASE ~Out
    <3>1. at' = "answer"
      BY <1>2, <1>5, <2>8 DEF Out
    <3> QED
      BY <1>1, <1>2, <1>3, <2>5, <2>6, <2>8, <3>1 DEF Places, Untouched
  <2> QED
    BY <2>7, <2>8
<1> QED
  BY <1>4, <1>5, Acting

LEMMA CleanStep ==
  ASSUME IInv, [Next]_vars
  PROVE  Clean'
<1> USE DEF IInv
<1>1. CASE sudav_isr
  BY <1>1, CleanPacket
<1>2. CASE UsbTransfer \/ HostGivesUp \/ main \/ UNCHANGED vars
  <2>1. SUFFICES ASSUME clean', Req' > 0 PROVE Places'
    BY DEF Clean
  <2>2. Places
    BY <1>2, <2>1, SameRequests DEF Clean
  <2> QED
    BY <1>2, <2>2, CleanTransfer, CleanMain, CleanAct
<1> QED
  BY <1>1, <1>2 DEF Next

-----------------------------------------------------------------------------
(* The theorems                                                             *)

\* The types, the order of the requests and the place of main hold together in
\* every reachable state.
THEOREM Invariance == Spec => []IInv
<1>1. Init => IInv
  BY InitInv
<1>2. IInv /\ [Next]_vars => IInv'
  BY TypesStep, KnownStep, OrderStep, CleanStep DEF IInv
<1> QED
  BY <1>1, <1>2, PTL DEF Spec

\* However often the host gives up and starts again while a handler runs, no
\* handler is run a second time for a packet dosud has announced once.
THEOREM RequestsAreHandledOnce == Spec => []HandledOnce
<1>1. IInv => HandledOnce
  BY DEF IInv, Order
<1> QED
  BY <1>1, Invariance, PTL

\* A request whose packet found the firmware with nothing to do is carried out
\* with its own command, parameters and data, or not at all, and the host is
\* told the truth about it, whatever was abandoned before.
THEOREM CleanRequestsAreExact == Spec => []CleanIsExact
<1>1. IInv => CleanIsExact
  <2> SUFFICES ASSUME IInv, clean, Req > 0
               PROVE  /\ \A i \in DoneOf(Req) : acted[i] = AsAsked(Req)
                      /\ result = "ok" =>
                           /\ DoneOf(Req) # {}
                           /\ In => got = Bytes(Req, Req)
                      /\ result = "stalled" => DoneOf(Req) = {}
    BY DEF CleanIsExact, In
  <2>1. Places /\ Types
    BY DEF IInv, Clean
  <2>2. Old(Req) => DoneOf(Req) = {}
    <3> SUFFICES ASSUME Old(Req), NEW i \in DoneOf(Req) PROVE FALSE
      OBVIOUS
    <3>1. Req \in Nat
      BY <2>1 DEF Types, Req
    <3>2. i \in 1..Len(acted) /\ Req \in {acted[i].did.cmd, acted[i].did.par, acted[i].data.cmd}
      BY DEF DoneOf
    <3> QED
      BY <2>1, <3>1, <3>2, History DEF Old
  <2>3. \/ Old(Req) /\ result # "ok"
        \/ /\ Exact(Req) /\ result # "stalled"
           /\ In /\ result = "ok" => got = Bytes(Req, Req)
    BY <2>1 DEF Places, Types, Before, Untouched, Served, Denied
  <2> QED
    BY <2>2, <2>3 DEF Exact
<1> QED
  BY <1>1, Invariance, PTL
=============================================================================
