------------------------- MODULE BlockTransferProofs -------------------------
(***************************************************************************)
(* Proofs about BlockTransfer under the assumptions of BlockDiscipline:    *)
(* whatever the size of a transfer, the lengths, the number of calls and   *)
(* the faults, a block written is the caller's and a block read is the     *)
(* device's.  The last part proves the refinement of BlockImplementation:  *)
(* the same inductive invariant, in the state before and in the state      *)
(* after a step, says which step of BlockService it is.                    *)
(***************************************************************************)
EXTENDS BlockImplementation, TLAPS

\* What the assumptions say of the numbers, without the sets.
LEMMA Numbers ==
  /\ Chunk \in Nat /\ 2 <= Chunk
  /\ ByteMax = 4 * Chunk - 1 /\ TempSize = 3 * Chunk
  /\ SeqTimeout \in Nat /\ CountMax \in Nat
  /\ MaxCalls \in Nat /\ MaxGap \in Nat /\ MinQuiet \in Nat /\ MaxIdle \in Nat
  /\ MaxGap <= SeqTimeout /\ SeqTimeout < MinQuiet
  /\ MaxIdle + MaxGap <= CountMax
  BY SizesAssumption, EnvironmentAssumption, DisciplineAssumption

\* The lengths an application writes are those the protocol carries.
LEMMA WriteLensType ==
  ASSUME NEW n \in WriteLens
  PROVE  n \in 0..ByteMax /\ n <= TempSize /\ n # Chunk
  BY EnvironmentAssumption, DisciplineAssumption

\* The counts a device answers with do not make blocklen wrap.
LEMMA ReadLensType ==
  ASSUME NEW n \in ReadLens
  PROVE  n \in 1..(ByteMax - 2)
  BY DisciplineAssumption

\* A value written is a byte.
LEMMA FillsType ==
  ASSUME NEW v \in Fills
  PROVE  v \in 0..ByteMax
  BY EnvironmentAssumption

\* A function on 1..n is a sequence of n elements.
LEMMA FilledBuffer ==
  ASSUME NEW n \in Nat, NEW F \in [1..n -> Byte]
  PROVE  F \in Seq(Byte) /\ Len(F) = n
  OBVIOUS

\* The initial state satisfies the invariant.
LEMMA InitInv == Init => IInv
<1> SUFFICES ASSUME Init PROVE IInv
  OBVIOUS
<1> USE Numbers DEF Init, FwInit, Stray, Answer
<1>1. TypeOK
  <2>1. temp \in [0..ByteMax -> Byte]
    BY DEF Byte
  <2>2. /\ pec_enabled \in BOOLEAN /\ pec_failed \in BOOLEAN
        /\ failed \in BOOLEAN /\ faulty \in BOOLEAN /\ timedout \in BOOLEAN
        /\ ep0.ok \in BOOLEAN
    BY Zenon
  <2>3. /\ templen \in 0..ByteMax /\ tempptr \in 0..templen
        /\ count \in 0..CountMax /\ call \in 0..MaxCalls
        /\ wlen \in 0..ByteMax /\ fill \in 0..ByteMax /\ off \in 0..(wlen + 1)
        /\ total \in 0..ByteMax /\ elapsed \in 0..(MaxIdle + MaxGap)
    OBVIOUS
  <2> QED
    BY <2>1, <2>2, <2>3 DEF TypeOK, FwTypeOK
<1>2. QuietInv /\ YoungInv /\ WriteInv /\ ReadInv /\ ReadDataInv
  BY DEF QuietInv, YoungInv, WriteInv, ReadInv, ReadDataInv
<1>3. /\ WriteIntegrity /\ WriteOnce /\ ReadIntegrity /\ ReadBounds
      /\ NoPhantomError
  BY DEF WriteIntegrity, WriteOnce, ReadIntegrity, ReadBounds, NoPhantomError
<1> QED
  BY <1>1, <1>2, <1>3 DEF IInv

\* Beginning a call: what is left in the firmware has expired.
LEMMA BeginInv ==
  ASSUME IInv, FX2LP_SMBReadBlock \/ FX2LP_SMBWriteBlock
  PROVE  IInv'
<1>0. /\ pc = "idle" /\ call < MaxCalls /\ (failed => elapsed >= MinQuiet)
      /\ pc' = "first" /\ op' \in {"read", "write"} /\ call' = call + 1
      /\ off' = 0 /\ total' = 0 /\ rdata' = << >>
      /\ ret' = "none" /\ faulty' = FALSE /\ timedout' = FALSE
      /\ rx' = << >>
      /\ UNCHANGED <<temp, templen, tempptr, count, pec_enabled, pec_failed,
                     ep0, failed, elapsed>>
      /\ op' = "write" => wlen' \in WriteLens /\ fill' \in Fills
      /\ wlen' = wlen \/ wlen' \in WriteLens
      /\ fill' = fill \/ fill' \in Fills
  BY DEF FX2LP_SMBReadBlock, FX2LP_SMBWriteBlock, BeginCall
<1>1. TypeOK'
  BY <1>0, Numbers, WriteLensType, FillsType DEF IInv, TypeOK, FwTypeOK
<1>2. QuietInv'
  BY <1>0, Numbers DEF IInv, QuietInv, TypeOK, FwTypeOK
<1>3. YoungInv' /\ WriteInv' /\ ReadInv' /\ ReadDataInv'
  BY <1>0 DEF IInv, TypeOK, YoungInv, WriteInv, ReadInv, ReadDataInv
<1>4. /\ WriteIntegrity' /\ WriteOnce' /\ ReadIntegrity' /\ ReadBounds'
      /\ NoPhantomError'
  BY <1>0 DEF WriteIntegrity, WriteOnce, ReadIntegrity, ReadBounds,
              NoPhantomError
<1> QED
  BY <1>1, <1>2, <1>3, <1>4 DEF IInv

-----------------------------------------------------------------------------
(* Read requests: what the firmware may answer                             *)

\* The firmware's answer to the first request of a read of n bytes, and
\* what it keeps.
FirstAnswer(n) ==
  /\ n \in 1..(ByteMax - 2)
  /\ ep0'.bytes \in [1..Lesser(Chunk, n + 1) -> Byte]
  /\ ep0'.bytes[1].val = n
  /\ count' = 0 /\ tempptr' = 0
  /\ templen' = IF n + 1 > Chunk THEN n + 1 - Chunk ELSE 0
  /\ pec_enabled =>
       /\ \A k \in 1..Lesser(Chunk, n + 1) :
            ep0'.bytes[k].call = call /\ ep0'.bytes[k].idx = k - 1
       /\ \A j \in 0..(n - Chunk) :
            temp'[j].call = call /\ temp'[j].idx = j + Chunk

\* A call finds nothing in the firmware, or something that is flushed.
LEMMA FirstFlushes ==
  ASSUME IInv, pc = "first"
  PROVE  /\ ~Outstanding /\ ~InProgress
         /\ FlushIfExpired => templen' = 0 /\ tempptr' = 0
  BY Numbers DEF IInv, TypeOK, FwTypeOK, QuietInv, Outstanding, InProgress,
                 Expired, FlushIfExpired

\* The bytes of a frame are bytes.
LEMMA FrameBytes ==
  ASSUME NEW c \in Nat, NEW n \in 0..ByteMax, NEW v \in 0..ByteMax,
         NEW i \in 0..ByteMax
  PROVE  FrameByte(c, n, v, i) \in Byte /\ Stray(v) \in Byte
  BY Numbers DEF FrameByte, Stray, Byte

\* The answer to the first request of a read comes from the bus.
LEMMA FirstTransfer ==
  ASSUME IInv, pc = "first", NEW n \in ReadLens, NEW v \in Fills,
         NEW intact \in BOOLEAN, ReadTransferred(call, n, v, intact)
  PROVE  /\ FwTypeOK' /\ count' = 0
         /\ ep0'.ok \/ ~intact
         /\ ep0'.ok => FirstAnswer(n)
<1> DEFINE Got(i) == IF intact THEN FrameByte(call, n, v, i)
                     ELSE Stray(IF i = 0 THEN n ELSE v)
           m == Lesser(Chunk, n + 1)
<1>1. /\ n \in 1..(ByteMax - 2) /\ v \in 0..ByteMax /\ call \in Nat
      /\ temp \in [0..ByteMax -> Byte]
  BY ReadLensType, FillsType, Numbers DEF IInv, TypeOK, FwTypeOK
<1>2. ASSUME NEW i \in 0..ByteMax PROVE Got(i) \in Byte
  BY <1>1, FrameBytes, Numbers
<1>3. /\ m \in 1..(n + 1) /\ m <= Chunk
      /\ n + 1 > Chunk => m = Chunk
  BY <1>1, Numbers DEF Lesser
<1>4. /\ temp' = [j \in 0..ByteMax |-> IF j + Chunk < n + 1 THEN Got(j + Chunk)
                                                              ELSE temp[j]]
      /\ count' = 0 /\ pec_enabled' = pec_enabled
  BY DEF ReadTransferred, FrameLen, PecWrong
<1>5. ASSUME pec_enabled /\ ~intact
       PROVE  pec_failed' = TRUE /\ ep0'.ok = FALSE
  <2>1. pec_failed' = TRUE /\ ep0' = Stall
    BY <1>5 DEF ReadTransferred, FrameLen, PecWrong
  <2> QED
    BY <2>1 DEF Stall
<1>6. ASSUME ~(pec_enabled /\ ~intact)
       PROVE  /\ pec_failed' = pec_failed /\ ep0'.ok = TRUE
              /\ ep0'.bytes = [k \in 1..m |-> Got(k - 1)]
  <2>1. pec_failed' = pec_failed /\ ep0' = Answer([k \in 1..m |-> Got(k - 1)])
    BY <1>6 DEF ReadTransferred, FrameLen, PecWrong
  <2> QED
    BY <2>1 DEF Answer
<1>7. /\ templen' = IF n + 1 > Chunk THEN n + 1 - Chunk ELSE 0
      /\ tempptr' = 0
  BY FirstFlushes, <1>1, Numbers DEF ReadTransferred, FrameLen, PecWrong
<1>8. temp' \in [0..ByteMax -> Byte]
  <2>1. ASSUME NEW j \in 0..ByteMax, j + Chunk < n + 1
        PROVE  Got(j + Chunk) \in Byte
    BY <1>1, <1>2, <2>1, Numbers
  <2> QED
    BY <1>1, <1>4, <2>1
<1>9. FwTypeOK'
  <2>1. /\ pec_enabled' \in BOOLEAN /\ pec_failed' \in BOOLEAN
        /\ ep0'.ok \in BOOLEAN
    <3>1. pec_enabled \in BOOLEAN /\ pec_failed \in BOOLEAN
      BY DEF IInv, TypeOK, FwTypeOK
    <3> QED
      BY <1>4, <1>5, <1>6, <3>1, Zenon
  <2> QED
    BY <1>1, <1>4, <1>7, <1>8, <2>1, Numbers DEF FwTypeOK
<1>10. ep0'.ok => /\ ~(pec_enabled /\ ~intact)
                 /\ ep0'.bytes = [k \in 1..m |-> Got(k - 1)]
  BY <1>5, <1>6
<1>11. ASSUME ep0'.ok PROVE FirstAnswer(n)
  <2>1. ep0'.bytes \in [1..m -> Byte]
    <3>1. ASSUME NEW k \in 1..m PROVE Got(k - 1) \in Byte
      BY <1>1, <1>2, <1>3, <3>1, Numbers
    <3> QED
      BY <1>10, <1>11, <3>1
  <2>2. ep0'.bytes[1].val = n
    BY <1>3, <1>10, <1>11 DEF FrameByte, Stray
  <2>3. ASSUME pec_enabled
        PROVE  /\ \A k \in 1..m : /\ ep0'.bytes[k].call = call
                                  /\ ep0'.bytes[k].idx = k - 1
               /\ \A j \in 0..(n - Chunk) : /\ temp'[j].call = call
                                            /\ temp'[j].idx = j + Chunk
    <3>1. intact
      BY <1>10, <1>11, <2>3
    <3>2. \A i : Got(i).call = call /\ Got(i).idx = i
      BY <3>1 DEF FrameByte
    <3>3. \A k \in 1..m : ep0'.bytes[k] = Got(k - 1)
      BY <1>10, <1>11
    <3>4. \A j \in 0..(n - Chunk) : temp'[j] = Got(j + Chunk)
      <4>1. ASSUME NEW j \in 0..(n - Chunk)
            PROVE  j \in 0..ByteMax /\ j + Chunk < n + 1
        BY <1>1, Numbers
      <4> QED
        BY <1>4, <4>1
    <3> HIDE DEF Got
    <3> QED
      BY <3>2, <3>3, <3>4
  <2> QED
    BY <1>1, <1>4, <1>7, <2>1, <2>2, <2>3 DEF FirstAnswer
<1> QED
  BY <1>4, <1>9, <1>11, <1>6

\* Whatever happens to the first request of a read, the firmware is left
\* with nothing or with something whose age is known, and it stalls only
\* because of a fault.
LEMMA FirstRead ==
  ASSUME IInv, pc = "first", NEW bad \in BOOLEAN, HandleRead(bad)
  PROVE  /\ FwTypeOK' /\ rx' = rx /\ pec_enabled' = pec_enabled
         /\ templen' > 0 => count' = 0
         /\ ep0'.ok \/ bad
         /\ ep0'.ok => \E n : FirstAnswer(n)
<1>1. rx' = rx /\ pec_enabled' = pec_enabled
  BY DEF HandleRead, ReturnOutstanding, Returned, FromTemp, ReadTransferred, FrameLen, PecWrong, ReadCountWraps,
         ReadNotStarted, ReadRefused
<1>2. CASE ~bad /\ ReturnOutstanding
  BY <1>2, FirstFlushes DEF ReturnOutstanding, Returned, FromTemp
<1>3. ASSUME NEW n \in ReadLens, NEW v \in Fills, NEW intact \in BOOLEAN,
             ReadTransferred(call, n, v, intact), bad \/ intact
      PROVE  /\ FwTypeOK' /\ count' = 0 /\ (ep0'.ok \/ bad)
             /\ ep0'.ok => \E k : FirstAnswer(k)
  BY <1>3, FirstTransfer
<1>4. CASE ~bad /\ \E n \in ReadLens, v \in Fills :
                     ReadTransferred(call, n, v, TRUE)
  BY <1>1, <1>3, <1>4
<1>5. CASE bad /\ \E n \in ReadLens, v \in Fills :
                    ReadTransferred(call, n, v, FALSE)
  BY <1>1, <1>3, <1>5
<1>6. CASE ~bad /\ ByteMax - 1 \in ReadLens
  BY <1>6, ReadLensType, Numbers
<1>7. CASE bad /\ (ReadNotStarted \/ ReadRefused)
  <2>1. /\ templen' = 0 /\ tempptr' = 0 /\ ep0' = Stall
        /\ temp' = temp /\ pec_failed' = pec_failed
        /\ count' = count \/ count' = 0
    BY <1>7, FirstFlushes DEF ReadNotStarted, ReadRefused
  <2>2. ep0'.ok = FALSE
    BY <2>1 DEF Stall
  <2>3. ep0'.ok \in BOOLEAN
    BY <2>2, Zenon
  <2>4. FwTypeOK'
    BY <1>1, <2>1, <2>3, Numbers DEF IInv, TypeOK, FwTypeOK
  <2> QED
    BY <1>1, <1>7, <2>1, <2>2, <2>4
<1> QED
  BY <1>2, <1>4, <1>5, <1>6, <1>7 DEF HandleRead

\* A further request of a read is answered from temp, with as many bytes as
\* it asks for or as there are left.
LEMMA MoreRead ==
  ASSUME IInv, pc = "more", op = "read", NEW bad \in BOOLEAN, HandleRead(bad)
  PROVE  /\ FwTypeOK'
         /\ UNCHANGED <<temp, rx, count, pec_enabled>>
         /\ ep0'.ok = TRUE
         /\ LET m == Lesser(Chunk, templen - tempptr) IN
              /\ m \in 1..(templen - tempptr)
              /\ ep0'.bytes \in [1..m -> Byte]
              /\ \A k \in 1..m : ep0'.bytes[k] = temp[tempptr + k - 1]
              /\ tempptr + m = templen => templen' = 0 /\ tempptr' = 0
              /\ tempptr + m # templen => /\ templen' = templen
                                         /\ tempptr' = tempptr + m
<1> DEFINE m == Lesser(Chunk, templen - tempptr)
<1>1. /\ temp \in [0..ByteMax -> Byte]
      /\ templen \in 0..ByteMax /\ tempptr \in 0..templen
      /\ templen > tempptr /\ count <= SeqTimeout
  <2>1. Len(rdata) \in Nat /\ total \in Nat
    BY Numbers DEF IInv, TypeOK, ReadInv
  <2> QED
    BY <2>1, Numbers DEF IInv, TypeOK, FwTypeOK, ReadInv, YoungInv
<1>2. Outstanding
  BY <1>1, Numbers DEF Outstanding, Expired, IInv, TypeOK, FwTypeOK
<1>3. ReturnOutstanding
  BY <1>2 DEF HandleRead, ReadTransferred, FrameLen, PecWrong, ReadCountWraps, ReadNotStarted,
              ReadRefused
<1>4. m \in 1..(templen - tempptr)
  BY <1>1, Numbers DEF Lesser
<1>5. /\ ep0' = Answer([k \in 1..m |-> temp[tempptr + k - 1]])
      /\ UNCHANGED <<temp, rx, count, pec_enabled, pec_failed>>
      /\ tempptr + m = templen => templen' = 0 /\ tempptr' = 0
      /\ tempptr + m # templen => /\ templen' = templen
                                 /\ tempptr' = tempptr + m
  BY <1>3 DEF ReturnOutstanding, Returned, FromTemp
<1>6. ep0'.ok = TRUE /\ ep0'.bytes = [k \in 1..m |-> temp[tempptr + k - 1]]
  BY <1>5 DEF Answer
<1>7. ASSUME NEW k \in 1..m PROVE temp[tempptr + k - 1] \in Byte
  BY <1>1, <1>4, <1>7, Numbers
<1>8. ep0'.bytes \in [1..m -> Byte]
  BY <1>6, <1>7
<1>9. FwTypeOK'
  <2>1. ep0'.ok \in BOOLEAN
    BY <1>6, Zenon
  <2>2. templen' \in 0..ByteMax /\ tempptr' \in 0..templen'
    BY <1>1, <1>4, <1>5, Numbers
  <2> QED
    BY <1>5, <2>1, <2>2 DEF IInv, TypeOK, FwTypeOK
<1> QED
  BY <1>4, <1>5, <1>6, <1>8, <1>9

-----------------------------------------------------------------------------
(* The driver's steps                                                      *)

\* A call that ends in an error, whatever it has done before: what is left
\* in the firmware is younger than the call.
LEMMA FailInv ==
  ASSUME IInv, pc # "idle", FwTypeOK',
         pc' = "idle", ret' = "error", failed' = TRUE, faulty' = TRUE,
         timedout' \in BOOLEAN,
         UNCHANGED <<op, call, wlen, fill, total, rdata>>,
         off' \in 0..(wlen + 1),
         elapsed' \in 0..(MaxIdle + MaxGap),
         templen' > 0 => elapsed' <= count' /\ count' <= elapsed' + MaxGap,
         \/ rx' = << >>
         \/ timedout' /\ Len(rx') <= 1 /\ WriteIntegrity'
  PROVE  IInv'
<1>1. TypeOK'
  <2>1. failed' \in BOOLEAN /\ faulty' \in BOOLEAN
    BY Zenon
  <2> QED
    BY <2>1 DEF IInv, TypeOK
<1>2. QuietInv' /\ YoungInv' /\ WriteInv' /\ ReadInv' /\ ReadDataInv'
  BY DEF IInv, QuietInv, YoungInv, WriteInv, ReadInv, ReadDataInv
<1>3. WriteIntegrity' /\ WriteOnce'
  BY DEF WriteIntegrity, WriteOnce
<1>4. ReadIntegrity' /\ ReadBounds' /\ NoPhantomError'
  BY DEF IInv, ReadIntegrity, ReadBounds, NoPhantomError
<1> QED
  BY <1>1, <1>2, <1>3, <1>4 DEF IInv

\* While a call is under way the device has not accepted anything yet.
LEMMA NothingOut ==
  ASSUME IInv, pc # "idle"
  PROVE  rx = << >> /\ op \in {"read", "write"}
  BY DEF IInv, TypeOK, QuietInv, WriteInv, ReadInv

\* A read that the firmware answered after its first request.
LEMMA FirstReadAnswered ==
  ASSUME IInv, pc = "first", op = "read", ReadRequest, ep0'.ok
  PROVE  IInv'
<1>1. PICK bad \in BOOLEAN : HandleRead(bad) /\ faulty' = (faulty \/ bad)
  BY DEF ReadRequest
<1>2. PICK n : FirstAnswer(n)
  BY <1>1, FirstRead
<1>3. /\ FwTypeOK' /\ rx' = rx /\ pec_enabled' = pec_enabled
      /\ rx = << >>
  BY <1>1, FirstRead, NothingOut
<1> DEFINE m == Lesser(Chunk, n + 1)
<1>4. /\ total' = n /\ rdata' = Tail(ep0'.bytes)
      /\ Len(rdata') < total' => /\ pc' = "more" /\ elapsed' = 0
                                /\ ret' = ret /\ failed' = failed
      /\ ~(Len(rdata') < total') => /\ pc' = "idle" /\ elapsed' = 0
                                   /\ ret' = "ok" /\ failed' = FALSE
      /\ UNCHANGED <<op, call, wlen, fill, off, timedout>>
  BY <1>2 DEF ReadRequest, TakeAnswer, Copied, ReadFails, GoOn, Return, FirstAnswer
<1>5. /\ n \in 1..(ByteMax - 2) /\ m \in 1..(n + 1)
      /\ n + 1 > Chunk => m = Chunk
      /\ n + 1 <= Chunk => m = n + 1
  BY <1>2, Numbers DEF FirstAnswer, Lesser
<1>6. /\ ep0'.bytes \in Seq(Byte) /\ Len(ep0'.bytes) = m
  BY <1>2, <1>5, FilledBuffer DEF FirstAnswer
<1>7. /\ rdata' \in Seq(Byte) /\ Len(rdata') = m - 1
      /\ \A k \in 1..(m - 1) : rdata'[k] = ep0'.bytes[k + 1]
  BY <1>4, <1>5, <1>6
<1>8. /\ count' = 0 /\ tempptr' = 0
      /\ templen' = IF n + 1 > Chunk THEN n + 1 - Chunk ELSE 0
  BY <1>2 DEF FirstAnswer
<1>9. TypeOK'
  <2>1. faulty' \in BOOLEAN /\ failed' \in BOOLEAN
    BY <1>1, <1>4, Zenon DEF IInv, TypeOK
  <2> QED
    BY <1>3, <1>4, <1>5, <2>1, Numbers DEF IInv, TypeOK
<1>10. QuietInv' /\ YoungInv'
  BY <1>4, <1>5, <1>7, <1>8, Numbers DEF QuietInv, YoungInv
<1>11. WriteInv' /\ ReadInv'
  <2>1. op' = "read" /\ ret = "none" /\ op \in {"read", "write"} /\ call > 0
    BY <1>4 DEF IInv, ReadInv
  <2>2. pc' = "more" => /\ Len(rdata') < total' /\ n + 1 > Chunk
                        /\ ret' = "none"
    BY <1>4, <1>5, <1>7, <2>1, Numbers
  <2>3. pc' = "more" => /\ templen' - tempptr' = total' - Len(rdata')
                        /\ Len(rdata') = tempptr' + Chunk - 1
    <3> HAVE pc' = "more"
    <3>1. n + 1 > Chunk /\ m = Chunk
      BY <1>5, <2>2
    <3>2. templen' = n + 1 - Chunk /\ tempptr' = 0
      BY <1>8, <3>1
    <3>3. total' = n /\ Len(rdata') = Chunk - 1
      BY <1>4, <1>7, <3>1
    <3> QED
      BY <1>5, <3>2, <3>3, Numbers
  <2>4. rx' = << >> /\ call' = call
    BY <1>3, <1>4
  <2>5. pc' # "idle" => pc' = "more"
    BY <1>4
  <2> QED
    BY <1>7, <2>1, <2>2, <2>3, <2>4, <2>5 DEF WriteInv, ReadInv
<1>12. ASSUME pec_enabled, NEW k \in 1..(m - 1)
       PROVE  rdata'[k].call = call /\ rdata'[k].idx = k
  <2>1. k + 1 \in 1..m /\ k = (k + 1) - 1
    BY <1>5
  <2>2. ep0'.bytes[k + 1].call = call /\ ep0'.bytes[k + 1].idx = (k + 1) - 1
    BY <1>2, <1>12, <2>1 DEF FirstAnswer
  <2> QED
    BY <1>7, <2>1, <2>2
<1>13. ReadDataInv'
  <2> SUFFICES ASSUME pc' = "more", pec_enabled'
               PROVE  /\ \A k \in 1..Len(rdata') :
                           rdata'[k].call = call /\ rdata'[k].idx = k
                      /\ \A j \in 0..(templen' - 1) :
                           temp'[j].call = call /\ temp'[j].idx = j + Chunk
    BY <1>4 DEF ReadDataInv
  <2>1. pec_enabled
    BY <1>3, Zenon
  <2>2. templen' - 1 = n - Chunk
    BY <1>4, <1>5, <1>7, <1>8, Numbers
  <2>3. \A j \in 0..(n - Chunk) : temp'[j].call = call /\ temp'[j].idx = j + Chunk
    BY <1>2, <2>1 DEF FirstAnswer
  <2> QED
    BY <1>7, <1>12, <2>1, <2>2, <2>3
<1>14. /\ WriteIntegrity' /\ WriteOnce' /\ ReadBounds'
       /\ Len(rdata') <= total'
  BY <1>3, <1>4, <1>5, <1>7 DEF WriteIntegrity, WriteOnce, ReadBounds
<1>15. ReadIntegrity' /\ NoPhantomError'
  <2>1. ret' # "error" /\ (ret' = "ok" => ~(Len(rdata') < total'))
    BY <1>4 DEF IInv, ReadInv
  <2>2. ASSUME ret' = "ok", pec_enabled'
        PROVE  /\ Len(rdata') = total'
               /\ \A k \in 1..total' :
                    rdata'[k].call = call' /\ rdata'[k].idx = k
    <3>1. pec_enabled
      BY <1>3, <2>2, Zenon
    <3>2. Len(rdata') = total' /\ total' = m - 1 /\ call' = call
      BY <1>4, <1>5, <1>7, <2>1, <2>2
    <3> QED
      BY <1>12, <3>1, <3>2
  <2> QED
    BY <2>1, <2>2 DEF ReadIntegrity, NoPhantomError
<1> QED
  BY <1>9, <1>10, <1>11, <1>13, <1>14, <1>15 DEF IInv

\* The driver's buffer after another memcpy.
LEMMA Appended ==
  ASSUME NEW s \in Seq(Byte), NEW t \in Seq(Byte)
  PROVE  /\ s \o t \in Seq(Byte) /\ Len(s \o t) = Len(s) + Len(t)
         /\ \A k \in 1..Len(s) : (s \o t)[k] = s[k]
         /\ \A k \in 1..Len(t) : (s \o t)[Len(s) + k] = t[k]
  OBVIOUS

\* A read that the firmware answered from temp.
LEMMA MoreReadAnswered ==
  ASSUME IInv, pc = "more", op = "read", ReadRequest
  PROVE  IInv'
<1>1. PICK bad \in BOOLEAN : HandleRead(bad) /\ faulty' = (faulty \/ bad)
  BY DEF ReadRequest
<1> DEFINE m == Lesser(Chunk, templen - tempptr)
           b == ep0'.bytes
<1>2. /\ FwTypeOK' /\ temp' = temp /\ rx' = << >> /\ count' = count
      /\ pec_enabled' = pec_enabled /\ ep0'.ok = TRUE
      /\ m \in 1..(templen - tempptr)
      /\ b \in [1..m -> Byte]
      /\ \A k \in 1..m : b[k] = temp[tempptr + k - 1]
      /\ tempptr + m = templen => templen' = 0 /\ tempptr' = 0
      /\ tempptr + m # templen => templen' = templen /\ tempptr' = tempptr + m
  BY <1>1, MoreRead, NothingOut
<1>3. /\ total' = total /\ rdata' = rdata \o b
      /\ Len(rdata') < total' => /\ pc' = "more" /\ elapsed' = elapsed
                                /\ ret' = ret /\ failed' = failed
      /\ ~(Len(rdata') < total') => /\ pc' = "idle" /\ elapsed' = 0
                                   /\ ret' = "ok" /\ failed' = FALSE
      /\ UNCHANGED <<op, call, wlen, fill, off, timedout>>
  BY <1>2 DEF ReadRequest, TakeAnswer, Copied, ReadFails, GoOn, Return
<1>4. /\ temp \in [0..ByteMax -> Byte] /\ call \in Nat
      /\ templen \in 0..ByteMax /\ tempptr \in 0..templen
      /\ total \in 0..ByteMax
      /\ rdata \in Seq(Byte) /\ Len(rdata) \in Nat
      /\ templen - tempptr = total - Len(rdata)
      /\ Len(rdata) = tempptr + Chunk - 1
      /\ ret = "none" /\ call > 0
  BY Numbers DEF IInv, TypeOK, FwTypeOK, ReadInv
<1>5. b \in Seq(Byte) /\ Len(b) = m
  <2>1. m \in Nat
    BY <1>2, <1>4, Numbers
  <2> QED
    BY <1>2, <2>1, FilledBuffer
<1>6. /\ rdata' \in Seq(Byte) /\ Len(rdata') = Len(rdata) + m
      /\ \A k \in 1..Len(rdata) : rdata'[k] = rdata[k]
      /\ \A k \in 1..m : rdata'[Len(rdata) + k] = b[k]
  <2> HIDE DEF b, m
  <2> QED
    BY <1>3, <1>4, <1>5, Appended
<1>7. /\ Len(rdata') <= total
      /\ pc' = "more" => /\ tempptr + m # templen /\ Len(rdata') < total
                         /\ ret' = "none" /\ elapsed' = elapsed
      /\ pc' # "more" => /\ tempptr + m = templen /\ Len(rdata') = total
                         /\ pc' = "idle" /\ ret' = "ok" /\ elapsed' = 0
                         /\ templen' = 0
  <2>1. /\ m \in Nat /\ m <= templen - tempptr
        /\ (tempptr + m = templen) <=> (Len(rdata) + m = total)
        /\ Len(rdata) + m <= total
    <3>1. m \in Nat /\ m <= templen - tempptr
      BY <1>2, <1>4, Numbers
    <3> HIDE DEF m
    <3> QED
      BY <1>4, <3>1, Numbers
  <2>2. Len(rdata') = Len(rdata) + m /\ total' = total
    BY <1>3, <1>6
  <2>3. (Len(rdata') < total') <=> (tempptr + m # templen)
    BY <1>4, <2>1, <2>2, Numbers
  <2> HIDE DEF m
  <2>4. CASE tempptr + m # templen
    BY <1>3, <1>4, <2>1, <2>2, <2>3, <2>4
  <2>5. CASE tempptr + m = templen
    BY <1>2, <1>3, <1>4, <2>1, <2>2, <2>3, <2>5
  <2> QED
    BY <2>4, <2>5
<1>8. TypeOK'
  <2>1. faulty' \in BOOLEAN /\ failed' \in BOOLEAN
    BY <1>1, <1>3, Zenon DEF IInv, TypeOK
  <2>2. elapsed' \in 0..(MaxIdle + MaxGap)
    BY <1>7, Numbers DEF IInv, TypeOK
  <2>3. pc' \in {"idle", "first", "more"} /\ ret' \in {"none", "ok", "error"}
    BY <1>7
  <2> QED
    BY <1>2, <1>3, <2>1, <2>2, <2>3 DEF IInv, TypeOK
<1>9. QuietInv' /\ YoungInv'
  BY <1>2, <1>3, <1>7, Numbers DEF IInv, QuietInv, YoungInv
<1>10. WriteInv' /\ ReadInv'
  <2>1. pc' = "more" => /\ templen' - tempptr' = total' - Len(rdata')
                        /\ Len(rdata') = tempptr' + Chunk - 1
    <3> HAVE pc' = "more"
    <3>1. templen' = templen /\ tempptr' = tempptr + m
      BY <1>2, <1>7
    <3>2. m \in Nat
      BY <1>2, <1>4, Numbers
    <3>3. Len(rdata') = Len(rdata) + m /\ total' = total
      BY <1>3, <1>6
    <3> HIDE DEF m
    <3> QED
      BY <1>4, <3>1, <3>2, <3>3, Numbers
  <2> QED
    BY <1>2, <1>3, <1>4, <1>6, <1>7, <2>1 DEF WriteInv, ReadInv
<1>11. ASSUME pec_enabled, NEW k \in 1..Len(rdata')
       PROVE  rdata'[k].call = call /\ rdata'[k].idx = k
  <2>1. CASE k \in 1..Len(rdata)
    BY <1>6, <1>11, <2>1 DEF IInv, ReadDataInv
  <2>2. CASE k \notin 1..Len(rdata)
    <3>1. PICK h \in 1..m : k = Len(rdata) + h
      <4>1. k - Len(rdata) \in 1..m /\ k = Len(rdata) + (k - Len(rdata))
        BY <1>2, <1>4, <1>6, <2>2
      <4> QED
        BY <4>1
    <3>2. rdata'[k] = temp[tempptr + h - 1]
      BY <1>2, <1>6, <3>1
    <3>3. /\ tempptr + h - 1 \in 0..(templen - 1)
          /\ (tempptr + h - 1) + Chunk = k
      BY <1>2, <1>4, <3>1, Numbers
    <3> QED
      BY <1>11, <3>2, <3>3 DEF IInv, ReadDataInv
  <2> QED
    BY <2>1, <2>2
<1>12. ReadDataInv'
  <2> SUFFICES ASSUME pc' = "more", pec_enabled'
               PROVE  /\ \A k \in 1..Len(rdata') :
                           rdata'[k].call = call /\ rdata'[k].idx = k
                      /\ \A j \in 0..(templen' - 1) :
                           temp'[j].call = call /\ temp'[j].idx = j + Chunk
    BY <1>3 DEF ReadDataInv
  <2>1. pec_enabled
    BY <1>2, Zenon
  <2>2. templen' = templen /\ temp' = temp
    BY <1>2, <1>7
  <2>3. \A j \in 0..(templen - 1) : temp[j].call = call /\ temp[j].idx = j + Chunk
    BY <2>1 DEF IInv, ReadDataInv
  <2> QED
    BY <1>11, <2>1, <2>2, <2>3
<1>13. WriteIntegrity' /\ WriteOnce' /\ ReadBounds'
  BY <1>2, <1>3, <1>7 DEF WriteIntegrity, WriteOnce, ReadBounds
<1>14. ReadIntegrity' /\ NoPhantomError'
  <2>1. ASSUME ret' = "ok", pec_enabled'
        PROVE  /\ Len(rdata') = total'
               /\ \A k \in 1..total' :
                    rdata'[k].call = call' /\ rdata'[k].idx = k
    <3>1. pec_enabled
      BY <1>2, <2>1, Zenon
    <3>2. Len(rdata') = total' /\ call' = call
      BY <1>3, <1>7, <2>1
    <3> QED
      BY <1>11, <3>1, <3>2
  <2>2. ret' # "error"
    BY <1>7
  <2> QED
    BY <2>1, <2>2 DEF ReadIntegrity, NoPhantomError
<1> QED
  BY <1>8, <1>9, <1>10, <1>12, <1>13, <1>14 DEF IInv

\* What the firmware holds after a request of a read, answered in time or not.
LEMMA ReadLeaves ==
  ASSUME IInv, pc # "idle", op = "read", NEW bad \in BOOLEAN, HandleRead(bad)
  PROVE  /\ FwTypeOK' /\ rx' = << >>
         /\ templen' > 0 => 0 <= count' /\ count' <= MaxGap
         /\ ep0'.ok \/ bad
<1>1. CASE pc = "first"
  BY <1>1, FirstRead, NothingOut, Numbers
<1>2. CASE pc = "more"
  <2>1. FwTypeOK' /\ rx' = rx /\ count' = count /\ ep0'.ok = TRUE
    BY <1>2, MoreRead
  <2>2. 0 <= count /\ count <= MaxGap
    BY <1>2, Numbers DEF IInv, TypeOK, FwTypeOK, YoungInv
  <2> QED
    BY <2>1, <2>2, NothingOut
<1> QED
  BY <1>1, <1>2 DEF IInv, TypeOK

\* An answered request of a read (ReadRequest) keeps the invariant.
LEMMA ReadRequestInv ==
  ASSUME IInv, ReadRequest
  PROVE  IInv'
<1>1. CASE pc = "more"
  BY <1>1, MoreReadAnswered DEF ReadRequest
<1>2. CASE pc = "first" /\ ep0'.ok
  BY <1>2, FirstReadAnswered DEF ReadRequest
<1>3. CASE ~ep0'.ok
  <2>1. PICK bad \in BOOLEAN : HandleRead(bad) /\ faulty' = (faulty \/ bad)
    BY DEF ReadRequest
  <2>2. /\ pc # "idle" /\ op = "read"
        /\ pc' = "idle" /\ ret' = "error" /\ failed' = TRUE /\ elapsed' = 0
        /\ UNCHANGED <<op, call, wlen, fill, off, total, rdata, timedout>>
    BY <1>3 DEF ReadRequest, TakeAnswer, Copied, ReadFails, Return
  <2>3. /\ FwTypeOK' /\ rx' = << >> /\ (ep0'.ok \/ bad)
        /\ templen' > 0 => 0 <= count' /\ count' <= MaxGap
    BY <2>1, <2>2, ReadLeaves
  <2>4. faulty' = TRUE
    BY <1>3, <2>1, <2>3
  <2>5. off' \in 0..(wlen + 1) /\ timedout' \in BOOLEAN
    BY <2>2 DEF IInv, TypeOK
  <2> QED
    BY <2>2, <2>3, <2>4, <2>5, FailInv, Numbers
<1> QED
  BY <1>1, <1>2, <1>3 DEF ReadRequest, IInv, TypeOK

\* So does one that is acted on after the host has given up.
LEMMA ReadRequestLateInv ==
  ASSUME IInv, ReadRequestLate
  PROVE  IInv'
<1>1. /\ pc # "idle" /\ op = "read"
      /\ pc' = "idle" /\ ret' = "error" /\ failed' = TRUE /\ elapsed' = 0
      /\ faulty' = TRUE /\ timedout' = TRUE
      /\ UNCHANGED <<op, call, wlen, fill, off, total, rdata>>
  BY DEF ReadRequestLate, Return
<1>2. /\ FwTypeOK' /\ rx' = << >>
      /\ templen' > 0 => 0 <= count' /\ count' <= MaxGap
  BY <1>1, ReadLeaves DEF ReadRequestLate
<1>3. off' \in 0..(wlen + 1)
  BY <1>1 DEF IInv, TypeOK
<1>4. timedout' \in BOOLEAN
  BY <1>1, Zenon
<1> QED
  BY <1>1, <1>2, <1>3, <1>4, FailInv, Numbers

\* A request the firmware never sees leaves it as it was.
LEMMA RequestLostInv ==
  ASSUME IInv, RequestLost
  PROVE  IInv'
<1>1. /\ pc # "idle"
      /\ pc' = "idle" /\ ret' = "error" /\ failed' = TRUE /\ faulty' = TRUE
      /\ UNCHANGED <<op, call, wlen, fill, off, total, rdata, timedout, elapsed>>
      /\ UNCHANGED <<temp, templen, tempptr, count, pec_enabled, pec_failed,
                     ep0, rx>>
  BY DEF RequestLost, Return, fwVars
<1>2. FwTypeOK'
  BY <1>1 DEF IInv, TypeOK, FwTypeOK
<1>3. rx' = << >>
  BY <1>1, NothingOut
<1>4. /\ off' \in 0..(wlen + 1) /\ timedout' \in BOOLEAN
      /\ elapsed' \in 0..(MaxIdle + MaxGap)
  BY <1>1 DEF IInv, TypeOK
<1>5. templen' > 0 => elapsed' <= count' /\ count' <= elapsed' + MaxGap
  BY <1>1, Numbers DEF IInv, TypeOK, FwTypeOK, QuietInv, YoungInv
<1> QED
  BY <1>1, <1>2, <1>3, <1>4, <1>5, FailInv

-----------------------------------------------------------------------------
(* Write requests                                                          *)

\* The bytes of a request, as the firmware finds them in its buffer.
LEMMA OutBytes ==
  ASSUME IInv, pc # "idle", op = "write"
  PROVE  /\ wlen \in 0..ByteMax /\ wlen <= TempSize /\ wlen # Chunk
         /\ off \in 0..wlen
         /\ NextLen \in 1..(wlen + 1 - off) /\ NextLen <= Chunk
         /\ NextLen = Chunk \/ off + NextLen = wlen + 1
         /\ \A k \in 1..NextLen :
              EP0BUF(NextOut, k) = FrameByte(call, wlen, fill, off + k - 1)
         /\ \A k \in 1..(ByteMax + 1) : EP0BUF(NextOut, k) \in Byte
<1>1. /\ wlen \in 0..ByteMax /\ wlen <= TempSize /\ wlen # Chunk
      /\ off \in 0..wlen /\ fill \in 0..ByteMax /\ call \in Nat
  BY WriteLensType, Numbers DEF IInv, TypeOK, WriteInv, QuietInv
<1>2. /\ NextLen \in 1..(wlen + 1 - off) /\ NextLen <= Chunk
      /\ NextLen = Chunk \/ off + NextLen = wlen + 1
  BY <1>1, Numbers DEF NextLen, Lesser
<1>3. \A k \in 1..NextLen :
        EP0BUF(NextOut, k) = FrameByte(call, wlen, fill, off + k - 1)
  BY DEF EP0BUF, NextOut
<1>4. ASSUME NEW k \in 1..(ByteMax + 1) PROVE EP0BUF(NextOut, k) \in Byte
  <2>1. CASE k \in 1..NextLen
    <3>1. off + k - 1 \in 0..ByteMax
      BY <1>1, <1>2, <2>1, Numbers
    <3> QED
      BY <1>1, <1>3, <2>1, <3>1, FrameBytes
  <2>2. CASE k \notin 1..NextLen
    <3>1. EP0BUF(NextOut, k) = Stray(0)
      BY <2>2 DEF EP0BUF, NextOut
    <3> QED
      BY <3>1, Numbers DEF Stray, Byte
  <2> QED
    BY <2>1, <2>2
<1> QED
  BY <1>1, <1>2, <1>3, <1>4

\* The caller's block.
Whole == [len |-> wlen, data |-> [k \in 1..wlen |-> FrameByte(call, wlen, fill, k)]]

\* What a request of a write comes to: the firmware stalls after a fault, or
\* the last request has put the caller's block on the bus, or the firmware
\* holds the data sent so far.
WriteOutcome(bad) ==
  /\ FwTypeOK' /\ pec_enabled' = pec_enabled
  /\ templen' > 0 => 0 <= count' /\ count' <= MaxGap
  /\ \/ bad /\ ep0'.ok = FALSE /\ rx' = << >>
     \/ /\ ep0'.ok = TRUE
        /\ off + NextLen = wlen + 1
        /\ rx' = <<Whole>> /\ templen' = 0 /\ tempptr' = 0
     \/ /\ ep0'.ok = TRUE
        /\ off + NextLen <= wlen /\ Chunk <= off + NextLen
        /\ rx' = << >>
        /\ templen' = wlen /\ tempptr' + 1 = off + NextLen
        /\ count' = IF off = 0 THEN 0 ELSE count
        /\ \A j \in 0..(tempptr' - 1) :
             temp'[j] = FrameByte(call, wlen, fill, j + 1)

\* The first request of a write: the block goes out, or is refused, or both
\* ends agree that its first bytes are in temp.
LEMMA FirstWrite ==
  ASSUME IInv, pc = "first", op = "write",
         NEW bad \in BOOLEAN, HandleWrite(NextOut, bad)
  PROVE  WriteOutcome(bad)
<1>1. /\ off = 0 /\ rx = << >> /\ ~InProgress
      /\ FlushIfExpired => templen' = 0 /\ tempptr' = 0
  BY FirstFlushes DEF IInv, QuietInv
<1>2. /\ wlen \in 0..ByteMax /\ wlen <= TempSize /\ wlen # Chunk
      /\ NextLen \in 1..(wlen + 1) /\ NextLen <= Chunk
      /\ NextLen = Chunk \/ NextLen = wlen + 1
      /\ \A k \in 1..NextLen :
           EP0BUF(NextOut, k) = FrameByte(call, wlen, fill, k - 1)
      /\ \A k \in 1..(ByteMax + 1) : EP0BUF(NextOut, k) \in Byte
  BY <1>1, OutBytes
<1>3. EP0BUF(NextOut, 1).val = wlen
  BY <1>2 DEF FrameByte
<1>4. CASE StartSequence(NextOut)
  <2>1. wlen > Chunk /\ NextLen = Chunk
    <3>1. wlen > Chunk
      BY <1>3, <1>4 DEF StartSequence
    <3> QED
      BY <1>2, <3>1, Numbers
  <2>2. /\ templen' = wlen /\ tempptr' = Chunk - 1
        /\ temp' = [j \in 0..ByteMax |-> IF j < Chunk - 1
                       THEN EP0BUF(NextOut, j + 2) ELSE temp[j]]
        /\ count' = 0 /\ ep0' = Answer(<< >>) /\ rx' = rx
        /\ pec_enabled' = pec_enabled /\ pec_failed' = pec_failed
    BY <1>3, <1>4 DEF StartSequence, FirstKept
  <2>3. ep0'.ok = TRUE
    BY <2>2 DEF Answer
  <2>4. FwTypeOK'
    <3>1. ep0'.ok \in BOOLEAN
      BY <2>3, Zenon
    <3>2. temp' \in [0..ByteMax -> Byte]
      <4>1. \A j \in 0..ByteMax : j < Chunk - 1 => j + 2 \in 1..(ByteMax + 1)
        BY Numbers
      <4> QED
        BY <1>2, <2>2, <4>1 DEF IInv, TypeOK, FwTypeOK
    <3> QED
      BY <1>2, <2>1, <2>2, <3>1, <3>2, Numbers DEF IInv, TypeOK, FwTypeOK
  <2>5. ASSUME NEW j \in 0..(tempptr' - 1)
        PROVE  temp'[j] = FrameByte(call, wlen, fill, j + 1)
    <3>1. /\ j \in 0..ByteMax /\ j < Chunk - 1 /\ j + 2 \in 1..NextLen
          /\ (j + 2) - 1 = j + 1
      BY <2>1, <2>2, Numbers
    <3> QED
      BY <1>2, <2>2, <3>1
  <2> QED
    BY <1>1, <1>2, <2>1, <2>2, <2>3, <2>4, <2>5, Numbers DEF WriteOutcome
<1>5. CASE ~StartSequence(NextOut)
  <2>1. DirectWrite(NextOut, ~bad)
    BY <1>1, <1>5 DEF HandleWrite, ContinueSequence, FinishSequence, Forget
  <2>2. /\ wlen < Chunk /\ NextLen = wlen + 1
        /\ templen' = 0 /\ tempptr' = 0 /\ count' = 0
        /\ temp' = temp /\ pec_enabled' = pec_enabled
        /\ pec_failed' = pec_failed
    BY <1>1, <1>2, <1>3, <2>1, Numbers DEF DirectWrite, Direct, BusWrite
  <2>3. /\ bad => ep0' = Stall /\ rx' = rx
        /\ ~bad => /\ ep0' = Answer(<< >>)
                   /\ rx' = Append(rx, [len |-> wlen,
                       data |-> [k \in 1..wlen |-> EP0BUF(NextOut, k + 1)]])
    BY <1>3, <2>1 DEF DirectWrite, Direct, BusWrite
  <2>4. [k \in 1..wlen |-> EP0BUF(NextOut, k + 1)]
          = [k \in 1..wlen |-> FrameByte(call, wlen, fill, k)]
    <3>1. ASSUME NEW k \in 1..wlen
          PROVE  EP0BUF(NextOut, k + 1) = FrameByte(call, wlen, fill, k)
      <4>1. k + 1 \in 1..NextLen /\ (k + 1) - 1 = k
        BY <1>2, <2>2, Numbers
      <4> QED
        BY <1>2, <4>1
    <3> QED
      BY <3>1
  <2>5. FwTypeOK'
    <3>1. ep0'.ok \in BOOLEAN
      <4>1. ep0'.ok = TRUE \/ ep0'.ok = FALSE
        BY <2>3 DEF Stall, Answer
      <4> QED
        BY <4>1, Zenon
    <3> QED
      BY <2>2, <3>1, Numbers DEF IInv, TypeOK, FwTypeOK
  <2>6. CASE bad
    <3>1. ep0'.ok = FALSE /\ rx' = << >>
      BY <1>1, <2>3, <2>6 DEF Stall
    <3> QED
      BY <2>2, <2>5, <2>6, <3>1, Numbers DEF WriteOutcome
  <2>7. CASE ~bad
    <3>1. ep0'.ok = TRUE /\ rx' = <<Whole>>
      BY <1>1, <2>3, <2>4, <2>7 DEF Answer, Whole
    <3> QED
      BY <1>1, <2>2, <2>5, <3>1, Numbers DEF WriteOutcome
  <2> QED
    BY <2>6, <2>7
<1> QED
  BY <1>4, <1>5

\* A further request of a write: it adds its bytes in their place, and the
\* one that adds the last sends the whole block or has it refused.
LEMMA MoreWrite ==
  ASSUME IInv, pc = "more", op = "write",
         NEW bad \in BOOLEAN, HandleWrite(NextOut, bad)
  PROVE  WriteOutcome(bad)
<1>1. /\ rx = << >> /\ Chunk <= off /\ off <= wlen
      /\ templen = wlen /\ tempptr + 1 = off
      /\ \A j \in 0..(tempptr - 1) : temp[j] = FrameByte(call, wlen, fill, j + 1)
      /\ temp \in [0..ByteMax -> Byte] /\ tempptr \in Nat
      /\ count \in Nat /\ count <= MaxGap
  BY Numbers DEF IInv, WriteInv, YoungInv, TypeOK, FwTypeOK
<1>2. /\ wlen \in 0..ByteMax /\ wlen <= TempSize
      /\ NextLen \in 1..(wlen + 1 - off) /\ NextLen <= Chunk
      /\ NextLen = Chunk \/ off + NextLen = wlen + 1
      /\ \A k \in 1..NextLen :
           EP0BUF(NextOut, k) = FrameByte(call, wlen, fill, off + k - 1)
      /\ \A k \in 1..(ByteMax + 1) : EP0BUF(NextOut, k) \in Byte
  BY OutBytes
<1>3. InProgress
  BY <1>1, <1>2, Numbers DEF InProgress, Expired
<1>4. Taken = NextLen
  BY <1>1, <1>2, Numbers DEF Taken, NextLen, Lesser
<1>5. /\ Collected(NextOut) \in [0..ByteMax -> Byte]
      /\ \A j \in 0..(tempptr + NextLen - 1) :
           Collected(NextOut)[j] = FrameByte(call, wlen, fill, j + 1)
  <2>1. Collected(NextOut) = [j \in 0..ByteMax |->
           IF tempptr <= j /\ j < tempptr + NextLen
             THEN EP0BUF(NextOut, j - tempptr + 1) ELSE temp[j]]
    BY <1>4 DEF Collected
  <2>2. ASSUME NEW j \in 0..ByteMax, tempptr <= j, j < tempptr + NextLen
        PROVE  /\ j - tempptr + 1 \in 1..NextLen
               /\ j - tempptr + 1 \in 1..(ByteMax + 1)
               /\ off + (j - tempptr + 1) - 1 = j + 1
    BY <1>1, <1>2, <2>2, Numbers
  <2>3. Collected(NextOut) \in [0..ByteMax -> Byte]
    BY <1>1, <1>2, <2>1, <2>2
  <2>4. ASSUME NEW j \in 0..(tempptr + NextLen - 1)
        PROVE  Collected(NextOut)[j] = FrameByte(call, wlen, fill, j + 1)
    <3>1. j \in 0..ByteMax /\ j < tempptr + NextLen
      BY <1>1, <1>2, Numbers
    <3>2. CASE tempptr <= j
      BY <1>2, <2>1, <2>2, <3>1, <3>2
    <3>3. CASE ~(tempptr <= j)
      <4>1. j \in 0..(tempptr - 1)
        BY <1>1, <3>1, <3>3
      <4> QED
        BY <1>1, <2>1, <3>1, <3>3, <4>1
    <3> QED
      BY <3>2, <3>3
  <2> QED
    BY <2>3, <2>4
<1>6. CASE ContinueSequence(NextOut)
  <2>1. /\ tempptr + NextLen < templen
        /\ temp' = Collected(NextOut) /\ tempptr' = tempptr + NextLen
        /\ ep0' = Answer(<< >>) /\ templen' = templen /\ count' = count
        /\ pec_enabled' = pec_enabled /\ pec_failed' = pec_failed /\ rx' = rx
    BY <1>4, <1>6 DEF ContinueSequence
  <2>2. ep0'.ok = TRUE
    BY <2>1 DEF Answer
  <2>3. FwTypeOK'
    <3>1. ep0'.ok \in BOOLEAN
      BY <2>2, Zenon
    <3> QED
      BY <1>1, <1>2, <1>5, <2>1, <3>1, Numbers DEF IInv, TypeOK, FwTypeOK
  <2>4. /\ off + NextLen <= wlen /\ Chunk <= off + NextLen
        /\ tempptr' + 1 = off + NextLen /\ off # 0
    <3>1. /\ NextLen \in Nat /\ off \in Nat /\ wlen \in Nat
          /\ tempptr \in Nat /\ tempptr + 1 = off /\ Chunk <= off
      BY <1>1, <1>2, Numbers
    <3>2. tempptr' = tempptr + NextLen /\ tempptr + NextLen < wlen
      BY <1>1, <2>1
    <3> QED
      BY <3>1, <3>2, Numbers
  <2>5. /\ templen' = wlen /\ rx' = << >>
        /\ count' = IF off = 0 THEN 0 ELSE count
        /\ templen' > 0 => 0 <= count' /\ count' <= MaxGap
    BY <1>1, <2>1, <2>4
  <2>6. \A j \in 0..(tempptr' - 1) : temp'[j] = FrameByte(call, wlen, fill, j + 1)
    <3> DEFINE new == Collected(NextOut)
               upto == tempptr + NextLen - 1
    <3>1. temp' = new
      BY <2>1, Zenon
    <3>2. tempptr' - 1 = upto
      BY <1>1, <1>2, <2>1
    <3>3. \A j \in 0..upto : new[j] = FrameByte(call, wlen, fill, j + 1)
      BY <1>5
    <3> HIDE DEF new, upto
    <3> QED
      BY <3>1, <3>2, <3>3
  <2> QED
    BY <2>1, <2>2, <2>3, <2>4, <2>5, <2>6 DEF WriteOutcome
<1>7. CASE FinishSequence(NextOut, ~bad)
  <2>1. tempptr + NextLen = templen /\ temp' = Collected(NextOut)
    BY <1>4, <1>7 DEF FinishSequence, Forget
  <2>2. /\ count' = 0 /\ pec_enabled' = pec_enabled /\ pec_failed' = pec_failed
        /\ bad => /\ ep0' = Stall /\ rx' = rx
                  /\ templen' = templen /\ tempptr' = templen
        /\ ~bad => /\ ep0' = Answer(<< >>) /\ templen' = 0 /\ tempptr' = 0
                   /\ rx' = Append(rx, [len |-> templen,
                                data |-> [k \in 1..templen |-> temp'[k - 1]]])
    BY <1>7 DEF FinishSequence, Forget, BusWrite
  <2>3. [k \in 1..templen |-> temp'[k - 1]]
          = [k \in 1..wlen |-> FrameByte(call, wlen, fill, k)]
    <3>1. ASSUME NEW k \in 1..wlen
          PROVE  temp'[k - 1] = FrameByte(call, wlen, fill, k)
      <4>1. k - 1 \in 0..(tempptr + NextLen - 1) /\ (k - 1) + 1 = k
        BY <1>1, <1>2, <2>1
      <4> QED
        BY <1>5, <2>1, <4>1
    <3> QED
      BY <1>1, <3>1
  <2>4. FwTypeOK'
    <3>1. ep0'.ok \in BOOLEAN
      <4>1. ep0'.ok = TRUE \/ ep0'.ok = FALSE
        BY <2>2 DEF Stall, Answer
      <4> QED
        BY <4>1, Zenon
    <3>2. temp' \in [0..ByteMax -> Byte]
      BY <1>5, <2>1
    <3>3. templen' \in 0..ByteMax /\ tempptr' \in 0..templen'
      BY <1>1, <1>2, <2>2, Numbers
    <3> QED
      BY <2>2, <3>1, <3>2, <3>3, Numbers DEF IInv, TypeOK, FwTypeOK
  <2>5. off + NextLen = wlen + 1
    BY <1>1, <1>2, <2>1
  <2>6. CASE bad
    <3>1. ep0'.ok = FALSE /\ rx' = << >>
      BY <1>1, <2>2, <2>6 DEF Stall
    <3> QED
      BY <2>2, <2>4, <2>6, <3>1, Numbers DEF WriteOutcome
  <2>7. CASE ~bad
    <3>1. ep0'.ok = TRUE /\ rx' = <<Whole>>
      BY <1>1, <2>2, <2>3, <2>7 DEF Answer, Whole
    <3> QED
      BY <2>2, <2>4, <2>5, <2>7, <3>1, Numbers DEF WriteOutcome
  <2> QED
    BY <2>6, <2>7
<1> QED
  BY <1>3, <1>6, <1>7 DEF HandleWrite, StartSequence, FirstKept, DirectWrite, Direct

\* A request of a write, the first or not.
LEMMA AnyWrite ==
  ASSUME IInv, pc # "idle", op = "write",
         NEW bad \in BOOLEAN, HandleWrite(NextOut, bad)
  PROVE  WriteOutcome(bad)
<1>1. pc \in {"first", "more"}
  BY DEF IInv, TypeOK
<1> QED
  BY <1>1, FirstWrite, MoreWrite

\* The caller's block on the bus is what WriteIntegrity asks for.
LEMMA WholeIsRight ==
  ASSUME op' = "write", UNCHANGED <<call, wlen, fill>>,
         rx' = << >> \/ rx' = <<Whole>>
  PROVE  WriteIntegrity' /\ Len(rx') <= 1
<1>1. CASE rx' = << >>
  BY <1>1 DEF WriteIntegrity
<1>2. CASE rx' = <<Whole>>
  <2>1. Len(rx') = 1 /\ rx'[1] = Whole
    BY <1>2
  <2>2. /\ rx'[1].len = wlen'
        /\ rx'[1].data = [k \in 1..wlen' |-> FrameByte(call', wlen', fill', k)]
    BY <2>1 DEF Whole
  <2>3. \A i \in 1..Len(rx') : i = 1
    BY <2>1
  <2> QED
    BY <2>1, <2>2, <2>3 DEF WriteIntegrity
<1> QED
  BY <1>1, <1>2

\* A request of a write acted on after the host has given up keeps the
\* invariant.
LEMMA WriteRequestLateInv ==
  ASSUME IInv, WriteRequestLate
  PROVE  IInv'
<1>1. /\ pc # "idle" /\ op = "write"
      /\ pc' = "idle" /\ ret' = "error" /\ failed' = TRUE /\ elapsed' = 0
      /\ faulty' = TRUE /\ timedout' = TRUE
      /\ UNCHANGED <<op, call, wlen, fill, off, total, rdata>>
  BY DEF WriteRequestLate, Return
<1>2. PICK bad \in BOOLEAN : WriteOutcome(bad)
  BY <1>1, AnyWrite DEF WriteRequestLate
<1>3. /\ FwTypeOK' /\ (rx' = << >> \/ rx' = <<Whole>>)
      /\ templen' > 0 => 0 <= count' /\ count' <= MaxGap
  BY <1>2 DEF WriteOutcome
<1>4. WriteIntegrity' /\ Len(rx') <= 1
  BY <1>1, <1>3, WholeIsRight
<1>5. off' \in 0..(wlen + 1)
  BY <1>1 DEF IInv, TypeOK
<1>6. timedout' \in BOOLEAN
  BY <1>1, Zenon
<1> QED
  BY <1>1, <1>3, <1>4, <1>5, <1>6, FailInv, Numbers

\* An answered request of a write (WriteRequest) keeps the invariant.
LEMMA WriteRequestInv ==
  ASSUME IInv, WriteRequest
  PROVE  IInv'
<1>1. PICK bad \in BOOLEAN :
        WriteOutcome(bad) /\ faulty' = (faulty \/ bad)
  BY AnyWrite DEF WriteRequest
<1>2. /\ pc # "idle" /\ op = "write" /\ off' = off + NextLen
      /\ UNCHANGED <<op, call, wlen, fill, total, rdata, timedout>>
  BY DEF WriteRequest
<1>3. /\ ep0'.ok /\ off' < wlen + 1 =>
           /\ pc' = "more" /\ ret' = ret /\ failed' = failed
           /\ elapsed' = IF pc = "first" THEN 0 ELSE elapsed
      /\ ep0'.ok /\ ~(off' < wlen + 1) =>
           pc' = "idle" /\ ret' = "ok" /\ failed' = FALSE /\ elapsed' = 0
      /\ ~ep0'.ok =>
           pc' = "idle" /\ ret' = "error" /\ failed' = TRUE /\ elapsed' = 0
  BY DEF WriteRequest, GoOn, Return
<1>4. /\ wlen \in 0..ByteMax /\ off \in 0..wlen
      /\ NextLen \in 1..(wlen + 1 - off)
  BY <1>2, OutBytes
<1>5. off' \in 1..(wlen + 1)
  BY <1>2, <1>4
<1>6. rx' = << >> \/ rx' = <<Whole>>
  BY <1>1 DEF WriteOutcome
<1>7. WriteIntegrity' /\ Len(rx') <= 1
  BY <1>2, <1>6, WholeIsRight
<1>8. ret = "none" /\ call > 0
  BY <1>2 DEF IInv, ReadInv
<1>9. CASE bad /\ ep0'.ok = FALSE /\ rx' = << >>
  <2>1. faulty' = TRUE /\ ~ep0'.ok
    BY <1>1, <1>9
  <2>2. timedout' \in BOOLEAN
    BY <1>2 DEF IInv, TypeOK
  <2>3. /\ FwTypeOK'
        /\ templen' > 0 => 0 <= count' /\ count' <= MaxGap
    BY <1>1 DEF WriteOutcome
  <2>4. /\ pc' = "idle" /\ ret' = "error" /\ failed' = TRUE
        /\ elapsed' = 0 /\ elapsed' \in 0..(MaxIdle + MaxGap)
        /\ templen' > 0 => elapsed' <= count' /\ count' <= elapsed' + MaxGap
    BY <1>3, <2>1, <2>3, Numbers
  <2> QED
    BY <1>2, <1>5, <1>9, <2>1, <2>2, <2>3, <2>4, FailInv
<1>10. CASE ep0'.ok = TRUE
  <2>1. FwTypeOK' /\ pec_enabled' = pec_enabled
    BY <1>1 DEF WriteOutcome
  <2>2. faulty' \in BOOLEAN /\ failed' \in BOOLEAN
    BY <1>1, <1>3, <1>10, Zenon DEF IInv, TypeOK
  <2>3. TypeOK'
    BY <1>2, <1>3, <1>5, <1>8, <1>10, <2>1, <2>2, Numbers DEF IInv, TypeOK
  <2>4. CASE off' < wlen + 1
    <3>1. /\ off' <= wlen /\ Chunk <= off' /\ rx' = << >>
          /\ templen' = wlen /\ tempptr' + 1 = off'
          /\ count' = IF off = 0 THEN 0 ELSE count
          /\ \A j \in 0..(tempptr' - 1) :
               temp'[j] = FrameByte(call, wlen, fill, j + 1)
      BY <1>1, <1>2, <1>4, <1>10, <2>4 DEF WriteOutcome
    <3>2. /\ pc' = "more" /\ ret' = "none"
          /\ elapsed' = IF pc = "first" THEN 0 ELSE elapsed
      BY <1>3, <1>8, <1>10, <2>4
    <3>3. pc = "first" => off = 0
      BY DEF IInv, QuietInv
    <3>4. pc # "first" => off # 0 /\ count = elapsed /\ elapsed <= MaxGap
      BY <1>2, Numbers DEF IInv, TypeOK, WriteInv, YoungInv
    <3>5. QuietInv' /\ YoungInv'
      BY <3>1, <3>2, <3>3, <3>4, Numbers DEF QuietInv, YoungInv
    <3>6. WriteInv' /\ ReadInv' /\ ReadDataInv'
      BY <1>2, <1>8, <3>1, <3>2 DEF IInv, WriteInv, ReadInv, ReadDataInv
    <3>7. WriteOnce' /\ ReadIntegrity' /\ ReadBounds' /\ NoPhantomError'
      BY <1>2, <1>7, <3>1, <3>2
      DEF WriteOnce, ReadIntegrity, ReadBounds, NoPhantomError
    <3> QED
      BY <1>7, <2>3, <3>5, <3>6, <3>7 DEF IInv
  <2>5. CASE ~(off' < wlen + 1)
    <3>1. rx' = <<Whole>> /\ templen' = 0 /\ tempptr' = 0
      BY <1>1, <1>2, <1>4, <1>10, <2>5 DEF WriteOutcome
    <3>2. pc' = "idle" /\ ret' = "ok" /\ elapsed' = 0
      BY <1>3, <1>10, <2>5
    <3>3. Len(rx') = 1
      BY <3>1
    <3>4. QuietInv' /\ YoungInv' /\ WriteInv' /\ ReadInv' /\ ReadDataInv'
      BY <1>2, <1>8, <3>1, <3>2
      DEF IInv, QuietInv, YoungInv, WriteInv, ReadInv, ReadDataInv
    <3>5. WriteOnce' /\ ReadIntegrity' /\ ReadBounds' /\ NoPhantomError'
      BY <1>2, <3>2, <3>3
      DEF WriteOnce, ReadIntegrity, ReadBounds, NoPhantomError
    <3> QED
      BY <1>7, <2>3, <3>4, <3>5 DEF IInv
  <2> QED
    BY <2>4, <2>5
<1> QED
  BY <1>1, <1>9, <1>10 DEF WriteOutcome

-----------------------------------------------------------------------------
(* The calls between block calls, time, and the whole specification        *)

\* The calls made between block calls keep the invariant.
LEMMA OtherInv ==
  ASSUME IInv,
         \/ FX2LP_SMBEnablePEC \/ FX2LP_SMBGetLastReadPECFail \/ OtherBusCall
  PROVE  IInv'
<1>1. /\ pc = "idle" /\ pc' = "idle" /\ ret' = "none"
      /\ UNCHANGED <<op, call, wlen, fill, off, total, rdata, failed, faulty,
                     timedout>>
      /\ UNCHANGED <<temp, templen, tempptr, rx>>
      /\ \/ count' = count /\ elapsed' = elapsed
         \/ count' = 0 /\ elapsed' = 0
  BY DEF FX2LP_SMBEnablePEC, FX2LP_SMBGetLastReadPECFail, OtherBusCall,
         EnablePEC, GetClearPecFail, OtherBusCommand, OtherCall
<1>2. FwTypeOK'
  <2>1. pec_enabled' \in BOOLEAN /\ pec_failed' \in BOOLEAN
    <3>1. pec_enabled \in BOOLEAN /\ pec_failed \in BOOLEAN
      BY DEF IInv, TypeOK, FwTypeOK
    <3>2. CASE FX2LP_SMBEnablePEC
      BY <3>1, <3>2, Zenon DEF FX2LP_SMBEnablePEC, EnablePEC
    <3>3. CASE FX2LP_SMBGetLastReadPECFail
      BY <3>1, <3>3, Zenon DEF FX2LP_SMBGetLastReadPECFail, GetClearPecFail
    <3>4. CASE OtherBusCall
      BY <3>1, <3>4, Zenon DEF OtherBusCall, OtherBusCommand
    <3> QED
      BY <3>2, <3>3, <3>4
  <2>2. ep0'.ok \in BOOLEAN
    <3>1. ep0'.ok = TRUE
      BY DEF FX2LP_SMBEnablePEC, FX2LP_SMBGetLastReadPECFail, OtherBusCall,
             EnablePEC, GetClearPecFail, OtherBusCommand, Answer
    <3> QED
      BY <3>1, Zenon
  <2> QED
    BY <1>1, <2>1, <2>2, Numbers DEF IInv, TypeOK, FwTypeOK
<1>3. TypeOK'
  BY <1>1, <1>2, Numbers DEF IInv, TypeOK
<1>4. QuietInv' /\ YoungInv' /\ WriteInv' /\ ReadInv' /\ ReadDataInv'
  BY <1>1, Numbers
  DEF IInv, TypeOK, FwTypeOK, QuietInv, YoungInv, WriteInv, ReadInv, ReadDataInv
<1>5. /\ WriteIntegrity' /\ WriteOnce' /\ ReadIntegrity' /\ ReadBounds'
      /\ NoPhantomError'
  BY <1>1 DEF IInv, WriteIntegrity, WriteOnce, ReadIntegrity, ReadBounds,
              NoPhantomError
<1> QED
  BY <1>3, <1>4, <1>5 DEF IInv

\* One more tick: neither count nor the clock passes its limit, because
\* count is never further ahead than one call.
LEMMA TickInv ==
  ASSUME IInv, Tick
  PROVE  IInv'
<1>1. /\ UNCHANGED <<pc, op, call, wlen, fill, off, total, rdata, ret, failed,
                     faulty, timedout>>
      /\ UNCHANGED <<temp, templen, tempptr, pec_enabled, pec_failed, ep0, rx>>
      /\ elapsed' = elapsed + 1
      /\ elapsed < IF pc = "more" THEN MaxGap ELSE MaxIdle
      /\ count' = IF count = CountMax THEN 0 ELSE count + 1
  BY DEF Tick, timer0_isr
<1>2. TypeOK'
  BY <1>1, Numbers DEF IInv, TypeOK, FwTypeOK
<1>3. pc = "more" \/ templen > 0 => count' = count + 1
  BY <1>1, Numbers DEF IInv, TypeOK, FwTypeOK, QuietInv, YoungInv
<1>4. QuietInv' /\ YoungInv'
  BY <1>1, <1>3, Numbers DEF IInv, TypeOK, FwTypeOK, QuietInv, YoungInv
<1>5. WriteInv' /\ ReadInv' /\ ReadDataInv'
  BY <1>1 DEF IInv, WriteInv, ReadInv, ReadDataInv
<1>6. /\ WriteIntegrity' /\ WriteOnce' /\ ReadIntegrity' /\ ReadBounds'
      /\ NoPhantomError'
  BY <1>1 DEF IInv, WriteIntegrity, WriteOnce, ReadIntegrity, ReadBounds,
              NoPhantomError
<1> QED
  BY <1>2, <1>4, <1>5, <1>6 DEF IInv

\* Every step keeps the invariant.
LEMMA StepInv == IInv /\ [Next]_vars => IInv'
<1> SUFFICES ASSUME IInv, [Next]_vars PROVE IInv'
  OBVIOUS
<1>1. CASE UNCHANGED vars
  BY <1>1 DEF vars, fwVars, hostVars, IInv, TypeOK, FwTypeOK, QuietInv,
              YoungInv, WriteInv, ReadInv, ReadDataInv, WriteIntegrity,
              WriteOnce, ReadIntegrity, ReadBounds, NoPhantomError
<1> QED
  BY <1>1, BeginInv, ReadRequestInv, ReadRequestLateInv, WriteRequestInv,
     WriteRequestLateInv, RequestLostInv, OtherInv, TickInv DEF Next

\* Every reachable state satisfies the inductive invariant: what the driver
\* and the firmware each remember of a block always fits together.
THEOREM Invariance == Spec => []IInv
BY InitInv, StepInv, PTL DEF Spec

\* The variables of BlockTransfer keep their types.
THEOREM TypeCorrect == Spec => []TypeOK
<1>1. IInv => TypeOK
  BY DEF IInv
<1> QED
  BY <1>1, Invariance, PTL

\* The device never gets a block that is not the caller's, whatever the
\* sizes, the number of calls and the faults between them.
THEOREM WritesAreExact == Spec => [](WriteIntegrity /\ WriteOnce)
<1>1. IInv => WriteIntegrity /\ WriteOnce
  BY DEF IInv
<1> QED
  BY <1>1, Invariance, PTL

\* With PEC on, the caller never gets data that is not the device's answer to
\* this very call, and never more of it than the device announced.
THEOREM ReadsAreExact == Spec => [](ReadIntegrity /\ ReadBounds)
<1>1. IInv => ReadIntegrity /\ ReadBounds
  BY DEF IInv
<1> QED
  BY <1>1, Invariance, PTL

\* No call fails because of what an earlier one left behind.
THEOREM ErrorsAreReal == Spec => []NoPhantomError
<1>1. IInv => NoPhantomError
  BY DEF IInv
<1> QED
  BY <1>1, Invariance, PTL

\* A successful call leaves nothing in the firmware.
THEOREM SuccessLeavesNothing == Spec => []NothingLeft
<1>1. IInv => NothingLeft
  BY DEF IInv, TypeOK, FwTypeOK, QuietInv, NothingLeft
<1> QED
  BY <1>1, Invariance, PTL

\* No store goes past the end of temp[]: neither the rest of a long read nor
\* the data of a long write is larger.
THEOREM TempIsLargeEnough == Spec => TempBounds
<1> DEFINE Kept == \A j \in TempSize..ByteMax : temp'[j] = temp[j]
<1>1. ASSUME IInv, NEW bad \in BOOLEAN, HandleRead(bad) PROVE Kept
  <2>1. CASE temp' = temp
    BY <2>1
  <2>2. ASSUME NEW n \in ReadLens, NEW v \in Fills, NEW intact \in BOOLEAN,
               ReadTransferred(call, n, v, intact)
        PROVE  Kept
    <3>1. n \in 1..(ByteMax - 2)
      BY ReadLensType
    <3>2. ASSUME NEW j \in TempSize..ByteMax
          PROVE  j \in 0..ByteMax /\ ~(j + Chunk < n + 1)
      BY <3>1, Numbers
    <3> QED
      BY <2>2, <3>2 DEF ReadTransferred, FrameLen, PecWrong
  <2> QED
    BY <1>1, <2>1, <2>2
    DEF HandleRead, ReturnOutstanding, Returned, FromTemp, ReadCountWraps, ReadNotStarted, ReadRefused
<1>2. ASSUME IInv, pc # "idle", op = "write", NEW bad \in BOOLEAN,
             HandleWrite(NextOut, bad)
      PROVE  Kept
  <2>1. CASE StartSequence(NextOut)
    <3>1. \A j \in TempSize..ByteMax : j \in 0..ByteMax /\ ~(j < Chunk - 1)
      BY Numbers
    <3> QED
      BY <2>1, <3>1 DEF StartSequence, FirstKept
  <2>2. CASE DirectWrite(NextOut, ~bad)
    BY <2>2 DEF DirectWrite, Direct
  <2>3. CASE InProgress /\ temp' = Collected(NextOut)
    <3>1. pc = "more"
      BY <1>2, <2>3, FirstFlushes DEF IInv, TypeOK
    <3>2. /\ templen = wlen /\ wlen <= TempSize /\ wlen \in Nat
          /\ tempptr \in 0..templen
      BY <1>2, <3>1, OutBytes, Numbers DEF IInv, WriteInv, TypeOK, FwTypeOK
    <3>3. tempptr + Taken <= TempSize
      BY <3>2, Numbers DEF Taken, Lesser
    <3>4. ASSUME NEW j \in TempSize..ByteMax
          PROVE  j \in 0..ByteMax /\ ~(j < tempptr + Taken)
      <4>1. Taken \in Int
        BY <3>2, Numbers DEF Taken, Lesser
      <4> QED
        BY <3>2, <3>3, <4>1, Numbers
    <3> QED
      BY <2>3, <3>4 DEF Collected
  <2> QED
    BY <1>2, <2>1, <2>2, <2>3 DEF HandleWrite, ContinueSequence, FinishSequence, Forget
<1>3. IInv /\ [Next]_vars => [Kept]_vars
  <2> SUFFICES ASSUME IInv, Next PROVE Kept
    OBVIOUS
  <2>1. CASE ReadRequest \/ ReadRequestLate
    BY <1>1, <2>1 DEF ReadRequest, ReadRequestLate
  <2>2. CASE WriteRequest \/ WriteRequestLate
    BY <1>2, <2>2 DEF WriteRequest, WriteRequestLate
  <2>3. CASE ~(ReadRequest \/ ReadRequestLate \/ WriteRequest \/ WriteRequestLate)
    <3>1. temp' = temp
      BY <2>3 DEF Next, FX2LP_SMBReadBlock, FX2LP_SMBWriteBlock, BeginCall,
                  RequestLost, fwVars, FX2LP_SMBEnablePEC, EnablePEC,
                  FX2LP_SMBGetLastReadPECFail, GetClearPecFail,
                  OtherBusCall, OtherBusCommand, Tick, timer0_isr
    <3> QED
      BY <3>1
  <2> QED
    BY <2>1, <2>2, <2>3
<1> QED
  BY <1>3, Invariance, PTL DEF Spec, TempBounds
-----------------------------------------------------------------------------
(* The refinement                                                           *)

\* A request of a read leaves the settings alone, and what the device has.
LEMMA ReadKeeps ==
  ASSUME IInv, pc # "idle", op = "read", NEW bad \in BOOLEAN, HandleRead(bad)
  PROVE  pec_enabled' = pec_enabled /\ rx' = << >> /\ rx = << >>
<1>1. pec_enabled' = pec_enabled
  BY DEF HandleRead, ReturnOutstanding, ReadNotStarted, ReadRefused,
         ReadTransferred, ReadCountWraps
<1> QED
  BY <1>1, ReadLeaves, NothingOut

\* A request of a write is answered well only when nothing went wrong in it.
LEMMA BadIsStalled ==
  ASSUME NEW bad \in BOOLEAN, bad, HandleWrite(NextOut, bad)
  PROVE  ep0'.ok = FALSE
<1>1. FinishSequence(NextOut, FALSE) \/ DirectWrite(NextOut, FALSE)
  <2>1. CASE FinishSequence(NextOut, ~bad)
    BY <2>1, bad = TRUE
  <2>2. CASE DirectWrite(NextOut, ~bad)
    BY <2>2, bad = TRUE
  <2> QED
    BY <2>1, <2>2 DEF HandleWrite
<1>2. ep0' = Stall
  <2>1. ASSUME NEW b, BusWrite(FALSE, b) PROVE ep0' = Stall
    BY <2>1 DEF BusWrite
  <2> QED
    BY <1>1, <2>1 DEF FinishSequence, DirectWrite
<1> QED
  BY <1>2 DEF Stall

\* The first state of the driver and the firmware is one of the service.
LEMMA ServiceInit == Init => Service!Init
BY DEF Init, FwInit, Service!Init, Service!NoBlock, Places

\* A call begins.
LEMMA ServiceCalls ==
  ASSUME IInv, FX2LP_SMBReadBlock \/ FX2LP_SMBWriteBlock
  PROVE  Service!Next
<1>1. CASE FX2LP_SMBReadBlock
  <2>1. Service!CallRead
    BY <1>1 DEF FX2LP_SMBReadBlock, BeginCall, Service!CallRead, Service!Call,
                Service!NoBlock, Places
  <2> QED
    BY <2>1 DEF Service!Next
<1>2. CASE FX2LP_SMBWriteBlock
  <2>1. PICK len \in WriteLens, v \in Fills :
          BeginCall("write") /\ wlen' = len /\ fill' = v
    BY <1>2 DEF FX2LP_SMBWriteBlock
  <2>2. call' \in 1..MaxCalls
    BY <2>1, Numbers DEF BeginCall, IInv, TypeOK
  <2>3. BlockOf(call', wlen', fill')
          \in {BlockOf(c, n, w) : c \in 1..MaxCalls, n \in WriteLens, w \in Fills}
    BY <2>1, <2>2
  <2>4. /\ op' = "write" /\ pc = "idle" /\ pc' = "first"
        /\ Places' = << >>
    BY <2>1 DEF BeginCall, Places
  <2>5. Service!Call("write")
    BY <2>1, <2>4 DEF BeginCall, Service!Call
  <2>6. Service!CallWrite
    BY <2>3, <2>4, <2>5 DEF Service!CallWrite
  <2> QED
    BY <2>6 DEF Service!Next
<1> QED
  BY <1>1, <1>2

\* A read that returns with an error, or with its answer, or goes on.
LEMMA ServiceReads ==
  ASSUME IInv, IInv', ReadRequest
  PROVE  [Service!Next]_(Service!vars)
<1>1. PICK bad \in BOOLEAN : HandleRead(bad) /\ faulty' = (faulty \/ bad)
  BY DEF ReadRequest
<1>2. /\ pc # "idle" /\ op = "read"
      /\ UNCHANGED <<op, call, wlen, fill, off, timedout>>
      /\ pec_enabled' = pec_enabled /\ rx' = << >> /\ rx = << >>
  BY <1>1, ReadKeeps DEF ReadRequest
<1>10. faulty' = faulty \/ faulty' = TRUE
  BY <1>1, Zenon DEF IInv, TypeOK
<1>3. Places = << >>
  BY <1>2 DEF Places
<1>4. \/ pc' = "more" /\ ret' = ret
      \/ pc' = "idle" /\ ret' = "ok" /\ failed' = FALSE
      \/ pc' = "idle" /\ ret' = "error" /\ failed' = TRUE
  BY DEF ReadRequest, TakeAnswer, ReadFails, GoOn, Return
<1>5. CASE pc' = "more" /\ ret' = ret
  <2>1. Places' = << >>
    BY <1>5 DEF Places
  <2>2. CASE faulty' = faulty
    BY <1>2, <1>3, <1>5, <2>1, <2>2 DEF Service!vars
  <2>3. CASE faulty' = TRUE
    <3>1. Service!Disturb
      BY <1>2, <1>3, <1>5, <2>1, <2>3 DEF Service!Disturb
    <3> QED
      BY <3>1 DEF Service!Next
  <2> QED
    BY <1>10, <2>2, <2>3
<1>6. CASE pc' = "idle" /\ ret' = "ok" /\ failed' = FALSE
  <2>1. rdata' \in Seq(Byte)
    BY DEF IInv, ReadInv
  <2>2. Places' = [k \in 1..Len(rdata') |-> <<rdata'[k].call, rdata'[k].idx>>]
    BY <1>2, <1>6 DEF Places
  <2>3. ASSUME NEW k \in 1..Len(rdata')
        PROVE  <<rdata'[k].call, rdata'[k].idx>> \in Nat \X Nat
    <3>1. rdata'[k] \in Byte
      BY <2>1
    <3> QED
      BY <3>1, Numbers DEF Byte
  <2>4. Len(rdata') \in Nat
    BY <2>1
  <2>5. Places' \in Seq(Nat \X Nat) /\ Len(Places') = Len(rdata')
    BY <2>2, <2>3, <2>4
  <2>6. pec_enabled => \A k \in 1..Len(Places') : Places'[k] = <<call, k>>
    BY <1>2, <1>6, <2>2, <2>5 DEF IInv, ReadIntegrity
  <2>7. Service!ReadDone
    BY <1>2, <1>6, <1>10, <2>5, <2>6 DEF Service!ReadDone, Service!Return
  <2> QED
    BY <2>7 DEF Service!Next
<1>7. CASE pc' = "idle" /\ ret' = "error" /\ failed' = TRUE
  <2>1. Places' = << >>
    BY <1>7 DEF Places
  <2>2. faulty' = TRUE
    BY <1>7 DEF IInv, TypeOK, NoPhantomError
  <2>3. Service!Fail
    BY <1>2, <1>3, <1>7, <2>1, <2>2 DEF Service!Fail, Service!Return
  <2> QED
    BY <2>3 DEF Service!Next
<1> QED
  BY <1>4, <1>5, <1>6, <1>7

\* A write likewise.
LEMMA ServiceWrites ==
  ASSUME IInv, IInv', WriteRequest
  PROVE  [Service!Next]_(Service!vars)
<1>1. PICK bad \in BOOLEAN :
        HandleWrite(NextOut, bad) /\ faulty' = (faulty \/ bad)
  BY DEF WriteRequest
<1>2. /\ pc # "idle" /\ op = "write" /\ off' = off + NextLen
      /\ UNCHANGED <<op, call, wlen, fill, timedout>>
  BY DEF WriteRequest
<1>3. WriteOutcome(bad)
  BY <1>1, <1>2, AnyWrite
<1>4. Places = << >> /\ Places' = << >> /\ rx = << >>
  BY <1>2, NothingOut DEF Places
<1>5. \/ pc' = "more" /\ ret' = ret
      \/ pc' = "idle" /\ ret' = "ok" /\ ep0'.ok /\ ~(off' < wlen + 1)
      \/ pc' = "idle" /\ ret' = "error" /\ ~ep0'.ok
  BY DEF WriteRequest, GoOn, Return
<1>6. /\ wlen \in 0..ByteMax /\ off \in 0..wlen
      /\ NextLen \in 1..(wlen + 1 - off)
  BY <1>2, OutBytes
<1>7. CASE pc' = "more" /\ ret' = ret
  <2>1. rx' = << >>
    BY <1>2, <1>7 DEF IInv, WriteInv
  <2>2. pec_enabled' = pec_enabled
    BY <1>3 DEF WriteOutcome
  <2>3. CASE faulty' = faulty
    BY <1>2, <1>4, <1>7, <2>1, <2>2, <2>3 DEF Service!vars
  <2>4. CASE faulty' = TRUE
    <3>1. Service!Disturb
      BY <1>2, <1>4, <1>7, <2>1, <2>2, <2>4 DEF Service!Disturb
    <3> QED
      BY <3>1 DEF Service!Next
  <2>5. faulty' = faulty \/ faulty' = TRUE
    BY <1>1, Zenon DEF IInv, TypeOK
  <2> QED
    BY <2>3, <2>4, <2>5
<1>8. CASE pc' = "idle" /\ ret' = "ok" /\ ep0'.ok /\ ~(off' < wlen + 1)
  <2>1. ~bad
    BY <1>1, <1>8, BadIsStalled
  <2>2. faulty' = faulty
    BY <1>1, <2>1, Zenon DEF IInv, TypeOK
  <2>3. rx' = <<Whole>> /\ pec_enabled' = pec_enabled
    BY <1>2, <1>3, <1>6, <1>8 DEF WriteOutcome
  <2>4. Service!WriteDone
    BY <1>2, <1>4, <1>8, <2>2, <2>3
    DEF Service!WriteDone, Service!Return, Whole, BlockOf
  <2> QED
    BY <2>4 DEF Service!Next
<1>9. CASE pc' = "idle" /\ ret' = "error" /\ ~ep0'.ok
  <2>1. faulty' = TRUE
    BY <1>9 DEF IInv, TypeOK, NoPhantomError
  <2>2. rx' = << >> /\ pec_enabled' = pec_enabled
    BY <1>3, <1>9 DEF WriteOutcome
  <2>3. Service!Fail
    BY <1>2, <1>4, <1>9, <2>1, <2>2 DEF Service!Fail, Service!Return
  <2> QED
    BY <2>3 DEF Service!Next
<1> QED
  BY <1>5, <1>7, <1>8, <1>9

\* A request acted on after the host has given up: the call has failed, and
\* whether the device has the block is in doubt.
LEMMA ServiceLate ==
  ASSUME IInv, ReadRequestLate \/ WriteRequestLate
  PROVE  Service!Next
<1>1. /\ pc # "idle" /\ pc' = "idle" /\ ret' = "error" /\ failed' = TRUE
      /\ faulty' = TRUE /\ timedout' = TRUE
      /\ UNCHANGED <<op, call, wlen, fill>>
  BY DEF ReadRequestLate, WriteRequestLate, Return
<1>2. Places = << >> /\ Places' = << >> /\ rx = << >>
  BY <1>1, NothingOut DEF Places
<1>3. /\ pec_enabled' = pec_enabled
      /\ \/ rx' = rx
         \/ op = "write" /\ rx' = <<Whole>>
  <2>1. CASE ReadRequestLate
    BY <1>2, <2>1, ReadKeeps DEF ReadRequestLate
  <2>2. CASE WriteRequestLate
    BY <1>2, <2>2, AnyWrite DEF WriteRequestLate, WriteOutcome
  <2> QED
    BY <2>1, <2>2
<1>4. Service!Fail
  BY <1>1, <1>2, <1>3 DEF Service!Fail, Service!Return, Whole, BlockOf
<1> QED
  BY <1>4 DEF Service!Next

\* A request that is never seen.
LEMMA ServiceLost ==
  ASSUME IInv, RequestLost
  PROVE  Service!Next
<1>1. Service!Fail
  BY DEF RequestLost, Return, fwVars, Service!Fail, Service!Return, Places
<1> QED
  BY <1>1 DEF Service!Next

\* What an application does between its block calls, and time.
LEMMA ServiceOthers ==
  ASSUME IInv,
         \/ FX2LP_SMBEnablePEC \/ FX2LP_SMBGetLastReadPECFail \/ OtherBusCall
         \/ Tick
  PROVE  [Service!Next]_(Service!vars)
<1>1. CASE Tick
  BY <1>1 DEF Tick, timer0_isr, Service!vars, Places
<1>2. CASE FX2LP_SMBEnablePEC \/ FX2LP_SMBGetLastReadPECFail \/ OtherBusCall
  <2>1. /\ pc = "idle" /\ pc' = pc /\ ret' = "none" /\ rx' = rx
        /\ UNCHANGED <<op, call, wlen, fill, rdata, failed, faulty, timedout>>
    BY <1>2 DEF FX2LP_SMBEnablePEC, FX2LP_SMBGetLastReadPECFail, OtherBusCall,
                EnablePEC, GetClearPecFail, OtherBusCommand, OtherCall
  <2>2. pec_enabled' \in BOOLEAN
    BY <1>2, Zenon DEF FX2LP_SMBEnablePEC, FX2LP_SMBGetLastReadPECFail,
         OtherBusCall, EnablePEC, GetClearPecFail, OtherBusCommand,
         IInv, TypeOK, FwTypeOK
  <2>3. Service!OtherCall
    BY <2>1, <2>2 DEF Service!OtherCall, Places
  <2> QED
    BY <2>3 DEF Service!Next
<1> QED
  BY <1>1, <1>2

\* Every step is a step of the service, or none.
LEMMA ServiceStep ==
  IInv /\ IInv' /\ [Next]_vars => [Service!Next]_(Service!vars)
<1> SUFFICES ASSUME IInv, IInv', [Next]_vars PROVE [Service!Next]_(Service!vars)
  OBVIOUS
<1>1. CASE UNCHANGED vars
  BY <1>1 DEF vars, fwVars, hostVars, Service!vars, Places
<1> QED
  BY <1>1, ServiceCalls, ServiceReads, ServiceWrites, ServiceLate, ServiceLost,
     ServiceOthers DEF Next

\* The driver and the firmware together implement the service, whatever the
\* sizes, the number of calls and the faults: no request but the last of a
\* call can be noticed by the device or the caller.
THEOREM BlockCallsAreAtomic == Spec => ImplementsService
<1>1. IInv /\ IInv' /\ [Next]_vars => [Service!Next]_(Service!vars)
  BY ServiceStep
<1> QED
  BY <1>1, ServiceInit, Invariance, PTL DEF Spec, ImplementsService, Service!Spec
=============================================================================
