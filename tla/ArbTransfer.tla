----------------------------- MODULE ArbTransfer -----------------------------
(***************************************************************************)
(* SMBWrite and SMBRead: transactions an application puts together itself. *)
(* The driver (lib/smbusb-fx2lp.c) cuts each call into control transfers   *)
(* of at most Chunk bytes and tells the firmware by flags where the START, *)
(* the STOP and the last byte are; the firmware (SMB_WRITE, SMB_READ) puts *)
(* each on the bus that the one before left in the middle of a             *)
(* transaction. A transaction is a list of calls; the application gives it *)
(* up at the first call that fails, as the flasher tools do.               *)
(***************************************************************************)
EXTENDS I2CMaster

CONSTANTS
  Chunk,         \* bytes of one USB control transfer (64)
  Transactions   \* the transactions the application may make

SMBWrite(start, restart, stop, data) ==
  [fn |-> "write", start |-> start, restart |-> restart, stop |-> stop,
   len |-> Len(data), data |-> data]
SMBRead(len, lastRead) == [fn |-> "read", len |-> len, lastRead |-> lastRead]

\* Bytes an application sends, and the calls it makes. A call without bytes
\* makes no request and returns an uninitialised status: no application here
\* makes one.
AppBytes == [role : {"addrW", "addrR", "cmd", "out"}, i : Int]

WriteCalls ==
  {c \in [fn : {"write"}, start : BOOLEAN, restart : BOOLEAN, stop : BOOLEAN,
          len : Nat \ {0}, data : Seq(AppBytes)] : c.len = Len(c.data)}
ReadCalls == [fn : {"read"}, len : Nat \ {0}, lastRead : BOOLEAN]
Calls     == WriteCalls \cup ReadCalls

ASSUME TransactionsAssumption ==
  /\ Chunk \in Nat /\ Chunk > 1
  /\ Transactions \subseteq Seq(Calls) \ {<< >>}

VARIABLES
  pc,           \* the driver: "idle", "ready" for the next request, "waits"
  script,       \* calls of the transaction still to make, the current first
  off,          \* bytes of the current call done
  data,         \* what the application has been given in this transaction
  ret,          \* what the last call returned; -1 an error
  todo,         \* primitives the firmware has still to call
  busy,         \* it is in the handler
  stall,        \* the handler fails
  pec_enabled,
  mrq_pec,      \* the bytes the running PEC covers
  rcv_pec,      \* the PEC byte read
  ep0buf,       \* the answer so far
  done,         \* ghost: the transaction under way or the last one made
  acked,        \* ghost: data bytes the device acknowledged in this call
  sound,        \* ghost: no byte of the device was changed on its way
  faulty        \* ghost: something went wrong in this transaction

hostVars == <<pc, script, off, data, ret, done>>
fwVars   == <<todo, busy, stall, pec_enabled, mrq_pec, rcv_pec, ep0buf>>
ghosts   == <<acked, sound, faulty>>
vars     == <<busVars, hostVars, fwVars, ghosts>>

Init ==
  /\ BusInit
  /\ pc = "idle" /\ script = << >> /\ off = 0 /\ data = << >> /\ ret = 0
  /\ todo = << >> /\ busy = FALSE /\ stall = FALSE
  /\ pec_enabled = TRUE /\ mrq_pec = << >> /\ rcv_pec = Zero /\ ep0buf = << >>
  /\ done = << >> /\ acked = 0 /\ sound = TRUE /\ faulty = FALSE

-----------------------------------------------------------------------------
(* The application                                                         *)

\* A transaction begins; the bus may still be held by one given up.
Begin ==
  /\ pc = "idle" /\ ~busy
  /\ \E t \in Transactions : script' = t /\ done' = t
  /\ pc' = "ready" /\ off' = 0 /\ data' = << >>
  /\ wire' = << >> /\ bytes' = << >>
  /\ acked' = 0 /\ sound' = TRUE /\ faulty' = owned
  /\ UNCHANGED <<owned, i2dat, clocked, lastrd, ret, fwVars>>

\* SMB_ENABLE_PEC
EnablePEC ==
  /\ pc = "idle" /\ ~busy
  /\ pec_enabled' = ~pec_enabled
  /\ IF pec_enabled' THEN UNCHANGED <<mrq_pec, rcv_pec>>
                     ELSE mrq_pec' = << >> /\ rcv_pec' = Zero
  \* No transaction is described any more.
  /\ done' = << >> /\ data' = << >> /\ wire' = << >> /\ bytes' = << >>
  /\ UNCHANGED <<owned, i2dat, clocked, lastrd, pc, script, off, ret, todo, busy,
                 stall, ep0buf, ghosts>>

-----------------------------------------------------------------------------
(* The driver                                                              *)

Call  == Head(script)
Size  == IF off + Chunk <= Call.len THEN Chunk ELSE Call.len - off
Final == off + Size = Call.len

Start      == [op |-> "start"]
Restart    == [op |-> "restart"]
Stop       == [op |-> "stop"]
Put(b)     == [op |-> "out", b |-> b, crc |-> TRUE]
PutPec     == [op |-> "out", b |-> PecOut, crc |-> FALSE]
Get(f, s, bl, l) == [op |-> "in", first |-> f, single |-> s, before |-> bl, last |-> l]

OnlyIf(p, s) == IF p THEN s ELSE << >>

\* SMB_WRITE: the first request of the call has its START or restart, the
\* final one its STOP.
WriteCommand ==
     OnlyIf(off = 0 /\ Call.start, <<Start>>)
  \o OnlyIf(off = 0 /\ Call.restart, <<Restart>>)
  \o [k \in 1..Size |-> Put(Call.data[off + k])]
  \o OnlyIf(Final /\ Call.stop, OnlyIf(pec_enabled, <<PutPec>>) \o <<Stop>>)

FirstRead_Always(i) == i = 1
FirstRead(i) == off = 0 /\ i = 1

\* SMB_READ: the first request of the call is FIRST_READ, the final one
\* LAST_READ if the call is lastRead; with PEC on it has one byte more.
ReadCommand ==
  LET lastRead == Final /\ Call.lastRead
      j        == Size + IF pec_enabled /\ lastRead THEN 1 ELSE 0
  IN  [i \in 1..j |->
         Get(FirstRead(i), FirstRead(i) /\ j = 1,
             lastRead /\ i = j - 1, lastRead /\ i = j)]

\* START restarts the PEC.
NewPec_Never == FALSE
NewPec == pec_enabled /\ off = 0 /\ Call.fn = "write" /\ Call.start

\* FX2LP_SMBWrite, FX2LP_SMBRead: the next control transfer.
Request ==
  /\ pc = "ready" /\ ~busy
  /\ pc' = "waits" /\ busy' = TRUE /\ stall' = FALSE /\ ep0buf' = << >>
  /\ todo' = IF Call.fn = "write" THEN WriteCommand ELSE ReadCommand
  /\ IF NewPec THEN mrq_pec' = << >> ELSE UNCHANGED mrq_pec
  /\ acked' = IF off = 0 THEN 0 ELSE acked
  /\ UNCHANGED <<busVars, script, off, data, ret, done, pec_enabled, rcv_pec,
                 sound, faulty>>

\* The call returns r; the application goes on with the next one, or not.
CallReturns(r) ==
  /\ ret' = r
  /\ off' = 0
  /\ IF r < 0 \/ Len(script) = 1 THEN pc' = "idle" /\ script' = << >>
                                 ELSE pc' = "ready" /\ script' = Tail(script)

\* The status of the transfer is right; it is not; the host gave up on it.
StatusOK_Assumed == TRUE
StatusOK == ~stall
TransferFails_Retried == pc' = "ready" /\ UNCHANGED <<script, off, ret>>
TransferFails == CallReturns(-1)
TimesOut_Ignored ==
  IF script # << >> /\ ~Final
    THEN pc' = "ready" /\ off' = off + Size /\ UNCHANGED <<script, ret>>
    ELSE CallReturns(-1)
TimesOut == CallReturns(-1)

\* The handler is over. SMBWrite returns its length, SMBRead the size of its
\* final transfer.
RequestDone ==
  /\ busy /\ todo = << >> /\ pc = "waits"
  /\ busy' = FALSE
  /\ IF ~StatusOK THEN TransferFails /\ UNCHANGED data
     ELSE /\ data' = IF Call.fn = "read" THEN data \o ep0buf ELSE data
          /\ IF Final
               THEN CallReturns(IF Call.fn = "write" THEN Call.len ELSE Size)
               ELSE pc' = "ready" /\ off' = off + Size /\ UNCHANGED <<script, ret>>
  /\ UNCHANGED <<busVars, todo, stall, pec_enabled, mrq_pec, rcv_pec, ep0buf,
                 done, ghosts>>

\* The host gives up after 100 ms, or the process ends; the firmware, if the
\* request has reached it, goes on to the end of the handler.
HostTimesOut ==
  /\ pc \in {"ready", "waits"}
  /\ TimesOut
  /\ faulty' = TRUE
  /\ UNCHANGED <<busVars, fwVars, data, done, acked, sound>>

OrphanDone ==
  /\ busy /\ todo = << >> /\ pc # "waits"
  /\ busy' = FALSE
  /\ UNCHANGED <<busVars, hostVars, todo, stall, pec_enabled, mrq_pec, rcv_pec,
                 ep0buf, ghosts>>

-----------------------------------------------------------------------------
(* The firmware                                                            *)

At(op) == busy /\ todo # << >> /\ Head(todo).op = op

Advance == todo' = Tail(todo) /\ UNCHANGED stall

\* wafail: STOP, then FALSE.
GiveUp_NoStop == todo' = << >> /\ stall' = TRUE
GiveUp == todo' = <<Stop>> /\ stall' = TRUE

Starts ==
  /\ At("start") /\ i2c_start /\ Advance
  /\ UNCHANGED <<hostVars, busy, pec_enabled, mrq_pec, rcv_pec, ep0buf, ghosts>>

StartFails ==
  /\ At("start") /\ UNCHANGED busVars /\ GiveUp
  /\ faulty' = TRUE
  /\ UNCHANGED <<hostVars, busy, pec_enabled, mrq_pec, rcv_pec, ep0buf, acked,
                 sound>>

Restarts ==
  /\ At("restart") /\ i2c_restart /\ Advance
  /\ UNCHANGED <<hostVars, busy, pec_enabled, mrq_pec, rcv_pec, ep0buf, ghosts>>

OutAcked ==
  /\ At("out") /\ ByteOutAck(Head(todo).b) /\ Advance
  /\ IF Head(todo).crc
       THEN /\ mrq_pec' = IF pec_enabled THEN Append(mrq_pec, Head(todo).b)
                                         ELSE mrq_pec
            /\ acked' = acked + 1
       ELSE UNCHANGED <<mrq_pec, acked>>
  /\ UNCHANGED <<hostVars, busy, pec_enabled, rcv_pec, ep0buf, sound, faulty>>

OutFails ==
  /\ At("out")
  /\ ByteOutNak(Head(todo).b) \/ ByteOutTimeout
  /\ GiveUp
  /\ faulty' = TRUE
  /\ UNCHANGED <<hostVars, busy, pec_enabled, mrq_pec, rcv_pec, ep0buf, acked,
                 sound>>

Stops ==
  /\ At("stop") /\ i2c_stop /\ Advance
  /\ UNCHANGED <<hostVars, busy, pec_enabled, mrq_pec, rcv_pec, ep0buf, ghosts>>

\* The byte v that i2c_bytein has returned: with PEC on the last one is the
\* PEC, otherwise it is data.
Take(last, v) ==
  IF pec_enabled /\ last
    THEN rcv_pec' = v /\ UNCHANGED <<mrq_pec, ep0buf>>
    ELSE /\ ep0buf' = Append(ep0buf, v)
         /\ mrq_pec' = IF pec_enabled THEN Append(mrq_pec, v) ELSE mrq_pec
         /\ UNCHANGED rcv_pec

InRead ==
  /\ At("in") /\ Advance
  /\ LET g == Head(todo) IN
       /\ ByteIn(g.first, g.single, g.before, g.last)
       /\ Take(g.last, ByteInValue(g.first))
  /\ \E ok \in BOOLEAN : sound' = (sound /\ ok) /\ faulty' = (faulty \/ ~ok)
  /\ UNCHANGED <<hostVars, busy, pec_enabled, acked>>

InTimesOut ==
  /\ At("in") /\ Advance /\ ByteInTimeout
  /\ \E v \in TimeoutValues(Head(todo).last) : Take(Head(todo).last, v)
  /\ faulty' = TRUE
  /\ UNCHANGED <<hostVars, busy, pec_enabled, acked, sound>>

-----------------------------------------------------------------------------
Primitive ==
  \/ Starts \/ StartFails \/ Restarts \/ OutAcked \/ OutFails \/ Stops
  \/ InRead \/ InTimesOut

Next ==
  \/ Begin \/ EnablePEC
  \/ Request \/ RequestDone \/ HostTimesOut \/ OrphanDone
  \/ Primitive

Spec == Init /\ [][Next]_vars

\* The firmware's waits are bounded by its timer and the host's by 100 ms.
FairSpec ==
  /\ Spec
  /\ WF_vars(Primitive) /\ WF_vars(Request)
  /\ WF_vars(RequestDone) /\ WF_vars(OrphanDone)

-----------------------------------------------------------------------------
(* What the calls promise                                                  *)

\* Events of one call of a transaction, m bytes being read in all. A read is
\* one run of bytes up to the one that is refused.
CallEvents(c, m) ==
  IF c.fn = "write"
    THEN OnlyIf(c.start, <<START>>) \o OnlyIf(c.restart, <<RESTART>>)
         \o [k \in 1..c.len |-> Sent(c.data[k], TRUE)]
         \o OnlyIf(c.stop, OnlyIf(pec_enabled, <<Sent(PecOut, TRUE)>>) \o <<STOP>>)
    ELSE OnlyIf(c.lastRead, [i \in 1..m |-> Read(Dev(i), i # m)] \o <<STOP>>)

\* The bytes a transaction is to read.
BytesRead(t) == UNION {{k} \X (1..t[k].len) : k \in {j \in DOMAIN t : t[j].fn = "read"}}
ReadLen(t)   == Cardinality(BytesRead(t))

\* All of s has happened on w, after the first n events.
Shows(w, n, s) == \A i \in DOMAIN s : n + i \in DOMAIN w /\ w[n + i] = s[i]

\* So have the first n calls of t, one after the other; the k-th ends at ends[k].
Follow(w, t, n, ends) ==
  LET m == ReadLen(t) + IF pec_enabled THEN 1 ELSE 0
  IN  \A k \in 1..n :
        LET from == IF k = 1 THEN 0 ELSE ends[k - 1]
        IN  /\ ends[k] = from + Len(CallEvents(t[k], m))
            /\ Shows(w, from, CallEvents(t[k], m))

IsTransaction(w, t) ==
  \E ends \in [DOMAIN t -> 0..Len(w)] :
    ends[Len(t)] = Len(w) /\ Follow(w, t, Len(t), ends)

\* The last transaction is over and none of its calls failed.
Succeeded == pc = "idle" /\ done # << >> /\ ret >= 0

\* The values the variables take.
TypeOK ==
  /\ owned \in BOOLEAN /\ lastrd \in BOOLEAN
  /\ pc \in {"idle", "ready", "waits"}
  /\ (pc = "idle") = (script = << >>)
  /\ script # << >> => off < Call.len
  /\ Len(ep0buf) <= Chunk
  /\ busy \in BOOLEAN /\ stall \in BOOLEAN /\ pec_enabled \in BOOLEAN

\* A byte that is alone in its transfer, behind others, is announced to the
\* controller as the last one only if a PEC follows it (line 695).
LastAnnounced(t) ==
  pec_enabled \/ \A k \in DOMAIN t : t[k].fn = "read" =>
    \A x \in 1..t[k].len : t[k].len # x * Chunk + 1

\* With nothing going wrong, the pieces fit: the bus shows the transaction
\* the calls describe as if they had been one, no byte is lost or doubled
\* where one transfer ends and the next begins, the last byte is refused and
\* the bytes come out in order. (A read in two calls loses a byte, as each
\* call's first request is FIRST_READ.)
HealthyIsTransaction ==
  Succeeded /\ ~faulty /\ LastAnnounced(done) =>
    /\ IsTransaction(wire, done)
    /\ data = [i \in 1..ReadLen(done) |-> Dev(i)]

\* A call of SMBWrite that returns its length has had every byte
\* acknowledged, in this call.
WriteAcked ==
  [][pc = "waits" /\ Call.fn = "write" /\ script' # script /\ ret' > 0
       => acked = Call.len]_vars

\* With PEC on, a transaction that succeeds and whose two PECs agree (the
\* answer of SMBGetArbPEC) has given the application the device's bytes, all
\* of them and in order, whatever timed out on the way.
PecsAgree ==
  /\ sound
  /\ bytes # << >> /\ rcv_pec = Last(bytes) /\ mrq_pec = Front(bytes)

ArbReadIntegrity ==
  Succeeded /\ pec_enabled /\ ReadLen(done) > 0 /\ PecsAgree =>
    data = [i \in 1..ReadLen(done) |-> Dev(i)]

\* The PEC that ends a written transaction covers everything on the bus
\* before it, over all calls, transfers and restarts.
ArbPecCoversWire ==
  (\E k \in DOMAIN wire : wire[k] = Sent(PecOut, TRUE)) => bytes = Append(mrq_pec, PecOut)

\* A transaction that is over leaves the bus free, also when a call has
\* failed, unless it was the host that gave up.
ArbBusReleased ==
  pc = "idle" /\ ~busy /\ owned => ret = -1 /\ ~stall

\* What the last two take for granted of the application, and the flasher
\* tools keep: the last call gives the bus back, ...
GivesBack(c) == IF c.fn = "write" THEN c.stop ELSE c.lastRead

LastGivesBack == \A t \in Transactions : GivesBack(t[Len(t)])

\* ... and a STOP ends a transaction of writes whose first call alone has
\* made the START.
StopEndsWrites ==
  \A t \in Transactions : \A k \in DOMAIN t :
    t[k].fn = "write" /\ t[k].stop =>
      /\ k = Len(t)
      /\ \A j \in DOMAIN t : t[j].fn = "write" /\ (t[j].start <=> j = 1)

\* The reads that can be vouched for are those of one call, the last one, ...
ReadsLast ==
  \A t \in Transactions : \A k \in DOMAIN t : t[k].fn = "read" => k = Len(t) /\ k > 1

\* ... and what is put together well begins, goes on and ends once.
OneTransaction ==
  \A t \in Transactions : \A k \in DOMAIN t :
    IF t[k].fn = "write"
      THEN /\ t[k].start => k = 1
           /\ t[k].restart => k > 1
           /\ t[k].stop => k = Len(t)
      ELSE t[k].lastRead

\* Every call comes back.
ArbReturns == pc # "idle" ~> pc = "idle"

=============================================================================
