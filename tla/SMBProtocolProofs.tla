-------------------------- MODULE SMBProtocolProofs --------------------------
(***************************************************************************)
(* Proof that with a healthy bus every command puts exactly its SMBus      *)
(* protocol on the wire, that an answer is the device's bytes when the bus *)
(* was healthy or the PEC was checked, and that a PEC sent covers the      *)
(* bytes before it, for blocks of any length.                              *)
(*                                                                         *)
(* The invariant places the handler in its program: the primitives called  *)
(* and the ones to call make up the command, each is the one that its      *)
(* position asks for, and the wire, the bytes that entered the PEC and the *)
(* answer are what that position says, the first one as long as nothing    *)
(* has gone wrong. A read runs one byte ahead of its answer and two events *)
(* ahead of its program, so its position is counted (Called); a write is   *)
(* in step with its protocol.                                              *)
(***************************************************************************)
EXTENDS SMBCommandsProofs

-----------------------------------------------------------------------------
(* Reads                                                                    *)

ReadCommands  == {"READ_BYTE", "READ_WORD", "READ_BLOCK"}
WriteCommands == {"WRITE_BYTE", "WRITE_WORD", "WRITE_BLOCK"}

\* The count of a block that ends the command.
CountRefused == cmd = "READ_BLOCK" /\ n \in {0, ByteMax}

\* The bytes a read command fetches.
Fetched ==
  CASE cmd = "READ_BYTE" -> WithPec(1) [] cmd = "READ_WORD" -> WithPec(2)
    [] OTHER -> IF n = ByteMax THEN 1 ELSE n + 2

\* What the i-th of them is for.
UseOf(i) ==
  IF cmd = "READ_BLOCK" /\ i = 1 THEN "count"
  ELSE IF i = Fetched /\ (cmd = "READ_BLOCK" \/ pec_enabled) THEN "pec" ELSE "data"

\* The j-th primitive of a read.
IsReadOp(j, o) ==
  /\ j = 1 => o = Start
  /\ j = 2 => o = Put(AddrW)
  /\ j = 3 => o = Put(Cmd)
  /\ j = 4 => o = Restart
  /\ j = 5 => o = Put(AddrR)
  /\ j > 5 => /\ o.op = "in" /\ o.use = UseOf(j - 5)
              /\ ~CountRefused => /\ (o.first <=> j = 6) /\ (o.single <=> Fetched = 1)
                                  /\ (o.before <=> j = Fetched + 4) /\ (o.last <=> j = Fetched + 5)

\* What it shows on the wire when all goes well, and the STOP behind the last.
ReadEvent(j) ==
  IF j <= 5 THEN <<START, Sent(AddrW, TRUE), Sent(Cmd, TRUE), RESTART, Sent(AddrR, TRUE)>>[j]
  ELSE IF j <= Fetched + 5 THEN Read(Dev(j - 5), j - 5 # Fetched) ELSE STOP

\* The primitives of it that have been called.
Called == Fetched + 5 - Len(todo)

Going == result = "busy" /\ ~failing

ReadAhead ==
  /\ Called >= 0
  /\ \A j \in 1..Len(todo) : IsReadOp(Called + j, todo[j])
  /\ CountRefused => Called <= 5

ReadTaken ==
  /\ Len(ep0buf) = IF Called <= 5 THEN 0
                   ELSE IF Called - 5 <= AnswerLen THEN Called - 5 ELSE AnswerLen
  /\ Called <= 5 => /\ Len(bytes) = CASE Called <= 1 -> 0 [] Called = 2 -> 1
                                      [] Called = 5 -> 3 [] OTHER -> 2
                    /\ pec_enabled => pec = bytes
  /\ Called >= 5 =>
      /\ Len(bytes) = 3 + clocked
      /\ \A i \in 1..clocked : bytes[3 + i] = Dev(i)
      /\ pec_enabled => /\ Len(pec) = 3 + Len(ep0buf)
                        /\ \A i \in 1..3 : pec[i] = bytes[i]
                        /\ \A i \in 1..Len(ep0buf) : pec[3 + i] = ep0buf[i]

ReadHealthy ==
  /\ Len(wire) = IF Called <= 5 THEN Called ELSE Called + 1
  /\ \A j \in 1..Len(wire) : wire[j] = ReadEvent(j)
  /\ Called > 5 => /\ clocked = IF Called = Fetched + 5 THEN Fetched ELSE Called - 4
                   /\ i2dat = Dev(clocked)
                   /\ \A i \in 1..Len(ep0buf) : ep0buf[i] = Dev(i)
                   /\ Called = Fetched + 5 /\ pec_enabled => rpec = Dev(Fetched)

Reading ==
  Going /\ cmd \in ReadCommands =>
    ReadAhead /\ ReadTaken /\ (~faulty => ReadHealthy)

-----------------------------------------------------------------------------
(* Writes                                                                   *)

\* A primitive that puts e on the wire.
Shows(o, e) ==
  \/ o.op = "start" /\ e = START
  \/ o.op = "out" /\ e = Sent(o.b, TRUE)
  \/ o.op = "stop" /\ e = STOP

WriteAhead ==
  /\ Len(todo) \in 1..Len(Protocol)
  /\ \A j \in 1..Len(todo) : Shows(todo[j], Protocol[Len(Protocol) - Len(todo) + j])
  /\ \A j \in 1..(Len(todo) - 1) : todo[j].op # "stop"

WriteHealthy ==
  /\ Len(wire) = Len(Protocol) - Len(todo)
  /\ Len(wire) > 0 => owned
  /\ \A j \in 1..Len(wire) : wire[j] = Protocol[j]

WriteCovered ==
  /\ Len(todo) >= 2 => /\ bytes = pec
                       /\ todo[Len(todo) - 1] = PutPlain(PecOut)
                       /\ \A j \in 1..(Len(todo) - 2) : todo[j].op = "out" => todo[j].crc
  /\ Len(todo) = 1 => bytes = Append(pec, PecOut)

Writing ==
  Going /\ cmd \notin ReadCommands \cup Probes =>
    /\ WriteAhead
    /\ ~faulty => WriteHealthy
    /\ pec_enabled /\ cmd \in WriteCommands => WriteCovered

\* Nothing but a read command reads.
Silent ==
  result = "busy" /\ cmd \notin ReadCommands =>
    ep0buf = << >> /\ \A j \in 1..Len(todo) : todo[j].op # "in"

\* A failure is on record and leaves a STOP to make; so is every changed byte. The
\* count that wraps is not answered.
Recorded ==
  /\ result = "busy" /\ failing => faulty /\ todo = <<Stop>>
  /\ ~faulty => sound
  /\ cmd = "READ_BLOCK" => n # ByteMax - 1

Underway == Recorded /\ Silent /\ Reading /\ Writing

Ended == HealthyIsProtocol /\ AnswerIsDevices /\ PecCoversWire

PInv == JInv /\ Underway /\ Ended

-----------------------------------------------------------------------------
(* What a command is made of                                                *)

LEMMA FetchedIs ==
  ASSUME pec_enabled \in BOOLEAN, cmd \in ReadCommands, n \in 0..ByteMax
  PROVE  /\ Fetched \in Nat /\ Fetched >= 1 /\ AnswerLen \in Nat
         /\ ~CountRefused => \/ AnswerLen = Fetched /\ ~pec_enabled /\ cmd # "READ_BLOCK"
                             \/ AnswerLen = Fetched - 1 /\ (pec_enabled \/ cmd = "READ_BLOCK")
         /\ cmd = "READ_BLOCK" /\ ~CountRefused => Fetched = n + 2 /\ n >= 1
         /\ cmd = "READ_BLOCK" /\ n = ByteMax => Fetched = 1
         /\ cmd = "READ_BLOCK" /\ n # ByteMax => Fetched = n + 2
<1>1. ByteMax \in Nat
  BY CommandsAssumption
<1> QED
  BY <1>1 DEF Fetched, AnswerLen, WithPec, ReadCommands, CountRefused

LEMMA ReadFromIs ==
  ASSUME NEW t \in Seq(Ops)
  PROVE  /\ Len(ReadFrom \o t) = 5 + Len(t) /\ Len(t) \in Nat
         /\ (ReadFrom \o t)[1] = Start /\ (ReadFrom \o t)[2] = Put(AddrW)
         /\ (ReadFrom \o t)[3] = Put(Cmd) /\ (ReadFrom \o t)[4] = Restart
         /\ (ReadFrom \o t)[5] = Put(AddrR)
         /\ \A j \in 1..(5 + Len(t)) : j > 5 => (ReadFrom \o t)[j] = t[j - 5]
<1>1. /\ Start \in Ops /\ Put(AddrW) \in Ops /\ Put(Cmd) \in Ops /\ Restart \in Ops
      /\ Put(AddrR) \in Ops
  BY Primitives
<1> DEFINE a == Put(AddrW)  b == Put(Cmd)  c == Put(AddrR)  r == Restart  f == Start
<1> HIDE DEF a, b, c, r, f
<1>2. ReadFrom = <<f, a, b>> \o <<r, c>>
  BY DEF ReadFrom, Select, a, b, c, r, f
<1>3. f \in Ops /\ a \in Ops /\ b \in Ops /\ r \in Ops /\ c \in Ops
  BY <1>1 DEF a, b, c, r, f
<1>4. <<f, a, b>> \in Seq(Ops) /\ <<r, c>> \in Seq(Ops)
  BY <1>3
<1>5. /\ ReadFrom \in Seq(Ops) /\ Len(ReadFrom) = 5
      /\ ReadFrom[1] = f /\ ReadFrom[2] = a /\ ReadFrom[3] = b
      /\ ReadFrom[4] = r /\ ReadFrom[5] = c
  BY <1>2, <1>3, <1>4
<1>6. /\ Len(ReadFrom \o t) = 5 + Len(t) /\ Len(t) \in Nat
      /\ \A j \in 1..5 : (ReadFrom \o t)[j] = ReadFrom[j]
      /\ \A j \in 1..Len(t) : (ReadFrom \o t)[5 + j] = t[j]
  <2>1. /\ Len(ReadFrom \o t) = Len(ReadFrom) + Len(t) /\ Len(t) \in Nat
        /\ \A j \in 1..Len(ReadFrom) : (ReadFrom \o t)[j] = ReadFrom[j]
        /\ \A j \in 1..Len(t) : (ReadFrom \o t)[Len(ReadFrom) + j] = t[j]
    <3>1. ASSUME NEW u \in Seq(Ops)
          PROVE  /\ Len(u \o t) = Len(u) + Len(t) /\ Len(t) \in Nat
                 /\ \A j \in 1..Len(u) : (u \o t)[j] = u[j]
                 /\ \A j \in 1..Len(t) : (u \o t)[Len(u) + j] = t[j]
      BY Concatenated
    <3> QED
      BY <1>5, <3>1
  <2> QED
    BY <1>5, <2>1
<1>7. ASSUME NEW j \in 1..(5 + Len(t)), j > 5
      PROVE  (ReadFrom \o t)[j] = t[j - 5]
  <2>1. j - 5 \in 1..Len(t) /\ 5 + (j - 5) = j
    BY <1>6, <1>7
  <2> QED
    BY <1>6, <2>1
<1> QED
  BY <1>5, <1>6, <1>7 DEF a, b, c, r, f

\* A read command's primitives are where its position says.
ReadProgram ==
  pec_enabled \in BOOLEAN /\ cmd \in ReadCommands /\ n \in 0..ByteMax
  /\ (cmd = "READ_BLOCK" => n # ByteMax - 1) /\ todo = Program(cmd, n)
  => Len(todo) = Fetched + 5 /\ \A j \in 1..Len(todo) : IsReadOp(j, todo[j])

LEMMA ReadProgramIs == ReadProgram
<1> SUFFICES ASSUME pec_enabled \in BOOLEAN, cmd \in ReadCommands, n \in 0..ByteMax,
                    cmd = "READ_BLOCK" => n # ByteMax - 1
             PROVE  LET s == Program(cmd, n) IN
                    Len(s) = Fetched + 5 /\ \A j \in 1..Len(s) : IsReadOp(j, s[j])
  BY DEF ReadProgram
<1> DEFINE IsFetch(i, o) ==
             /\ o.op = "in" /\ o.use = UseOf(i)
             /\ ~CountRefused => /\ (o.first <=> i = 1) /\ (o.single <=> Fetched = 1)
                                 /\ (o.before <=> i = Fetched - 1) /\ (o.last <=> i = Fetched)
<1>1. ASSUME NEW t \in Seq(Ops), Len(t) = Fetched, \A i \in 1..Len(t) : IsFetch(i, t[i])
      PROVE  LET s == ReadFrom \o t IN
             Len(s) = Fetched + 5 /\ \A j \in 1..Len(s) : IsReadOp(j, s[j])
  <2> DEFINE s == ReadFrom \o t
  <2>1. /\ Len(s) = 5 + Len(t) /\ Len(t) \in Nat
        /\ s[1] = Start /\ s[2] = Put(AddrW) /\ s[3] = Put(Cmd) /\ s[4] = Restart
        /\ s[5] = Put(AddrR)
        /\ \A j \in 1..(5 + Len(t)) : j > 5 => s[j] = t[j - 5]
    BY ReadFromIs
  <2> HIDE DEF s
  <2>2. ASSUME NEW j \in 1..Len(s) PROVE IsReadOp(j, s[j])
    <3>1. CASE j <= 5
      BY <2>1, <3>1 DEF IsReadOp
    <3>2. CASE j > 5
      <4>1. j - 5 \in 1..Len(t) /\ s[j] = t[j - 5]
        BY <2>1, <3>2
      <4>2. IsFetch(j - 5, s[j])
        BY <1>1, <4>1
      <4>3. /\ s[j].op = "in" /\ s[j].use = UseOf(j - 5)
            /\ ~CountRefused => /\ s[j].first <=> j - 5 = 1
                                /\ s[j].single <=> Fetched = 1
                                /\ s[j].before <=> j - 5 = Fetched - 1
                                /\ s[j].last <=> j - 5 = Fetched
        BY <4>2
      <4>4. /\ (j - 5 = 1 <=> j = 6) /\ (j - 5 = Fetched - 1 <=> j = Fetched + 4)
            /\ (j - 5 = Fetched <=> j = Fetched + 5)
        BY <2>1, FetchedIs
      <4> QED
        BY <3>2, <4>3, <4>4 DEF IsReadOp
    <3> QED
      BY <2>1, <3>1, <3>2
  <2> QED
    BY <1>1, <2>1, <2>2 DEF s
<1>2. CASE cmd = "READ_BYTE"
  <2>1. CASE pec_enabled
    <3> DEFINE g == Get(TRUE, FALSE, TRUE, FALSE, "data")
               h == Get(FALSE, FALSE, FALSE, TRUE, "pec")
    <3>1. g \in Ops /\ h \in Ops
      BY DEF Get, Ins, Ops
    <3>2. Fetched = 2 /\ UseOf(1) = "data" /\ UseOf(2) = "pec"
      BY <1>2, <2>1 DEF Fetched, WithPec, UseOf
    <3>3. IsFetch(1, g) /\ IsFetch(2, h)
      BY <3>2 DEF Get
    <3>4. Program(cmd, n) = ReadFrom \o <<g, h>>
      BY <1>2, <2>1 DEF Program
    <3> HIDE DEF g, h, IsFetch
    <3>5. <<g, h>> \in Seq(Ops) /\ Len(<<g, h>>) = 2
          /\ \A i \in 1..Len(<<g, h>>) : IsFetch(i, <<g, h>>[i])
      BY <3>1, <3>3
    <3> QED
      BY <1>1, <3>2, <3>4, <3>5
  <2>2. CASE ~pec_enabled
    <3> DEFINE h == Get(TRUE, TRUE, FALSE, TRUE, "data")
    <3>1. h \in Ops
      BY DEF Get, Ins, Ops
    <3>2. Fetched = 1 /\ UseOf(1) = "data"
      BY <1>2, <2>2 DEF Fetched, WithPec, UseOf
    <3>3. IsFetch(1, h)
      BY <3>2 DEF Get
    <3>4. Program(cmd, n) = ReadFrom \o <<h>>
      BY <1>2, <2>2 DEF Program
    <3> HIDE DEF h, IsFetch
    <3>5. <<h>> \in Seq(Ops) /\ Len(<<h>>) = 1
          /\ \A i \in 1..Len(<<h>>) : IsFetch(i, <<h>>[i])
      BY <3>1, <3>3
    <3> QED
      BY <1>1, <3>2, <3>4, <3>5
  <2> QED
    BY <2>1, <2>2
<1>3. CASE cmd = "READ_WORD"
  <2>1. CASE pec_enabled
    <3> DEFINE f == Get(TRUE, FALSE, FALSE, FALSE, "data")
               g == Get(FALSE, FALSE, TRUE, FALSE, "data")
               h == Get(FALSE, FALSE, FALSE, TRUE, "pec")
    <3>1. f \in Ops /\ g \in Ops /\ h \in Ops
      BY DEF Get, Ins, Ops
    <3>2. Fetched = 3 /\ UseOf(1) = "data" /\ UseOf(2) = "data" /\ UseOf(3) = "pec"
      BY <1>3, <2>1 DEF Fetched, WithPec, UseOf
    <3>3. IsFetch(1, f) /\ IsFetch(2, g) /\ IsFetch(3, h)
      BY <3>2 DEF Get
    <3>4. Program(cmd, n) = ReadFrom \o <<f, g, h>>
      BY <1>3, <2>1 DEF Program
    <3> HIDE DEF f, g, h, IsFetch
    <3>5. <<f, g, h>> \in Seq(Ops) /\ Len(<<f, g, h>>) = 3
          /\ \A i \in 1..Len(<<f, g, h>>) : IsFetch(i, <<f, g, h>>[i])
      BY <3>1, <3>3
    <3> QED
      BY <1>1, <3>2, <3>4, <3>5
  <2>2. CASE ~pec_enabled
    <3> DEFINE g == Get(TRUE, FALSE, TRUE, FALSE, "data")
               h == Get(FALSE, FALSE, FALSE, TRUE, "data")
    <3>1. g \in Ops /\ h \in Ops
      BY DEF Get, Ins, Ops
    <3>2. Fetched = 2 /\ UseOf(1) = "data" /\ UseOf(2) = "data"
      BY <1>3, <2>2 DEF Fetched, WithPec, UseOf
    <3>3. IsFetch(1, g) /\ IsFetch(2, h)
      BY <3>2 DEF Get
    <3>4. Program(cmd, n) = ReadFrom \o <<g, h>>
      BY <1>3, <2>2 DEF Program
    <3> HIDE DEF g, h, IsFetch
    <3>5. <<g, h>> \in Seq(Ops) /\ Len(<<g, h>>) = 2
          /\ \A i \in 1..Len(<<g, h>>) : IsFetch(i, <<g, h>>[i])
      BY <3>1, <3>3
    <3> QED
      BY <1>1, <3>2, <3>4, <3>5
  <2> QED
    BY <2>1, <2>2
<1>4. CASE cmd = "READ_BLOCK"
  <2> DEFINE t == BlockReads(n)
             blocklen == (n + 2) % (ByteMax + 1)
  <2>1. ByteMax \in Nat /\ blocklen \in Nat
    BY CommandsAssumption
  <2>2. /\ t \in Seq(Ops) /\ Len(t) = IF blocklen = 0 THEN 1 ELSE blocklen
        /\ t[1] = Get(TRUE, FALSE, FALSE, FALSE, "count")
    BY BlockReadsAre
  <2>3. ASSUME NEW i \in 2..Len(t)
        PROVE  /\ t[i].op = "in" /\ ~t[i].first /\ ~t[i].single
               /\ t[i].use = (IF i = blocklen THEN "pec" ELSE "data")
               /\ (t[i].last <=> i = blocklen) /\ (t[i].before <=> i = blocklen - 1)
    <3>1. /\ t[i].op = "in" /\ ~t[i].first /\ ~t[i].single
          /\ t[i].use = (IF i = blocklen THEN "pec" ELSE "data")
          /\ t[i].last = (i = blocklen) /\ t[i].before = (i = blocklen - 1)
      BY BlockReadsAre
    <3> HIDE DEF t, blocklen
    <3> QED
      BY <3>1
  <2>4. /\ t[1].op = "in" /\ t[1].use = "count" /\ t[1].first /\ ~t[1].single
        /\ ~t[1].before /\ ~t[1].last
    BY <2>2 DEF Get
  <2>5. n = ByteMax => blocklen <= 1
    BY <2>1
  <2>6. n # ByteMax => blocklen = n + 2
    BY <1>4, <2>1
  <2>7. UseOf(1) = "count"
    BY <1>4 DEF UseOf
  <2>8. Program(cmd, n) = ReadFrom \o t
    BY <1>4 DEF Program
  <2> HIDE DEF t, blocklen
  <2>9. CASE n = ByteMax
    <3>1. Fetched = 1 /\ CountRefused /\ Len(t) = 1
      BY <1>4, <2>1, <2>2, <2>5, <2>9 DEF Fetched, CountRefused
    <3>2. ASSUME NEW i \in 1..Len(t) PROVE IsFetch(i, t[i])
      BY <2>4, <2>7, <3>1
    <3> HIDE DEF IsFetch
    <3> QED
      BY <1>1, <2>2, <2>8, <3>1, <3>2
  <2>10. CASE n # ByteMax
    <3>1. Fetched = blocklen /\ blocklen >= 2 /\ Len(t) = blocklen /\ (CountRefused <=> n = 0)
      BY <1>4, <2>1, <2>2, <2>6, <2>10 DEF Fetched, CountRefused
    <3>2. ASSUME NEW i \in 1..Len(t) PROVE IsFetch(i, t[i])
      <4>1. CASE i = 1
        <5>1. ~CountRefused => blocklen # 2 /\ blocklen # 1
          BY <2>6, <2>10, <3>1
        <5> QED
          BY <2>1, <2>4, <2>7, <3>1, <4>1, <5>1
      <4>2. CASE i # 1
        <5>1. i \in 2..Len(t)
          BY <2>1, <3>1, <4>2
        <5>2. UseOf(i) = (IF i = blocklen THEN "pec" ELSE "data")
          BY <1>4, <3>1, <4>2 DEF UseOf
        <5>3. i # 1 /\ Fetched # 1
          BY <2>1, <3>1, <4>2
        <5> QED
          BY <2>3, <3>1, <5>1, <5>2, <5>3
      <4> QED
        BY <4>1, <4>2
    <3> HIDE DEF IsFetch
    <3> QED
      BY <1>1, <2>2, <2>8, <3>1, <3>2
  <2> QED
    BY <2>9, <2>10
<1> QED
  BY <1>2, <1>3, <1>4 DEF ReadCommands

\* A function on 1..m is a sequence.
LEMMA Listed ==
  ASSUME NEW S, NEW m \in Nat, NEW f \in [1..m -> S]
  PROVE  f \in Seq(S) /\ Len(f) = m
OBVIOUS

\* A list of m of S; and w is the list s of a, then the list t of b of them.
IsList(S, w, m) == m \in Nat /\ w \in Seq(S) /\ Len(w) = m
Joins(S, s, a, t, b, w) == IsList(S, s, a) /\ IsList(S, t, b) /\ w = s \o t

LEMMA JoinedLists ==
  ASSUME NEW S, NEW s, NEW t, NEW w, NEW a, NEW b, Joins(S, s, a, t, b, w)
  PROVE  /\ IsList(S, w, a + b)
         /\ \A j \in 1..a : w[j] = s[j]
         /\ \A j \in 1..b : w[a + j] = t[j]
<1>1. s \in Seq(S) /\ t \in Seq(S) /\ w = s \o t
  BY DEF Joins, IsList
<1>2. /\ s \o t \in Seq(S) /\ Len(s \o t) = Len(s) + Len(t)
      /\ \A j \in 1..Len(s) : (s \o t)[j] = s[j]
      /\ \A j \in 1..Len(t) : (s \o t)[Len(s) + j] = t[j]
  BY <1>1, Concatenated
<1>3. a = Len(s) /\ b = Len(t) /\ a + b \in Nat
  BY DEF Joins, IsList
<1> QED
  BY <1>1, <1>2, <1>3 DEF IsList

LEMMA OneEvent ==
  ASSUME NEW e \in Events
  PROVE  IsList(Events, <<e>>, 1) /\ <<e>>[1] = e
BY DEF IsList

LEMMA OutEventsAre ==
  ASSUME NEW b, NEW m, IsList(WireBytes, b, m)
  PROVE  /\ IsList(Events, OutEvents(b), m)
         /\ \A j \in 1..m : OutEvents(b)[j] = Sent(b[j], TRUE)
<1>1. m \in Nat /\ DOMAIN b = 1..m /\ \A j \in 1..m : b[j] \in WireBytes
  BY DEF IsList
<1>2. \A j \in 1..m : Sent(b[j], TRUE) \in Events
  BY <1>1, EventsOf
<1>3. OutEvents(b) = [j \in 1..m |-> Sent(b[j], TRUE)]
  BY <1>1 DEF OutEvents
<1>4. OutEvents(b) \in [1..m -> Events]
  BY <1>2, <1>3
<1>5. OutEvents(b) \in Seq(Events) /\ Len(OutEvents(b)) = m
  BY <1>1, <1>4, Listed
<1> QED
  BY <1>1, <1>3, <1>5 DEF IsList

LEMMA InEventsAre ==
  ASSUME NEW k \in Nat
  PROVE  /\ IsList(Events, InEvents(k), k)
         /\ \A j \in 1..k : InEvents(k)[j] = Read(Dev(j), j # k)
<1>1. \A j \in 1..k : Dev(j) \in WireBytes /\ (j # k) \in BOOLEAN
  BY EventsOf
<1>2. \A j \in 1..k : Read(Dev(j), j # k) \in Events
  BY <1>1, EventsOf
<1> QED
  BY <1>2 DEF InEvents, IsList

\* START, the write address and the command, as seen on the wire.
LEMMA SelectShown ==
  LET h == <<START>> \o OutEvents(<<AddrW, Cmd>>)
  IN  /\ IsList(Events, h, 3)
      /\ h[1] = START /\ h[2] = Sent(AddrW, TRUE) /\ h[3] = Sent(Cmd, TRUE)
<1> DEFINE b == <<AddrW, Cmd>>  o == OutEvents(b)  s == <<START>>  h == s \o o
<1>1. AddrW \in WireBytes /\ Cmd \in WireBytes
  BY EventsOf, Primitives
<1>2. IsList(WireBytes, b, 2) /\ b[1] = AddrW /\ b[2] = Cmd
  BY <1>1 DEF IsList
<1> HIDE DEF b
<1>3. IsList(Events, o, 2) /\ o[1] = Sent(AddrW, TRUE) /\ o[2] = Sent(Cmd, TRUE)
  <2>1. IsList(Events, o, 2) /\ \A j \in 1..2 : o[j] = Sent(b[j], TRUE)
    BY <1>2, OutEventsAre
  <2> HIDE DEF o
  <2>2. 1 \in 1..2 /\ 2 \in 1..2
    OBVIOUS
  <2> QED
    BY <1>2, <2>1, <2>2, Zenon
<1>4. IsList(Events, s, 1) /\ s[1] = START
  BY EventsOf, OneEvent
<1> HIDE DEF o, s
<1>5. Joins(Events, s, 1, o, 2, h)
  BY <1>3, <1>4 DEF Joins
<1> HIDE DEF h
<1>6. IsList(Events, h, 3) /\ h[1] = s[1] /\ h[2] = o[1] /\ h[3] = o[2]
  BY <1>5, JoinedLists
<1> QED
  BY <1>3, <1>4, <1>6 DEF h, o, s, b

LEMMA ReadEventIs ==
  /\ ReadEvent(1) = START /\ ReadEvent(2) = Sent(AddrW, TRUE)
  /\ ReadEvent(3) = Sent(Cmd, TRUE) /\ ReadEvent(4) = RESTART
  /\ ReadEvent(5) = Sent(AddrR, TRUE)
BY DEF ReadEvent

\* A read with its bytes, as the bus protocol draws it, event by event.
LEMMA ReadProtocolIs ==
  ASSUME pec_enabled \in BOOLEAN, cmd \in ReadCommands, n \in 0..ByteMax, ~CountRefused
  PROVE  /\ IsList(Events, Protocol, Fetched + 6)
         /\ \A j \in 1..(Fetched + 6) : Protocol[j] = ReadEvent(j)
<1> DEFINE k == Fetched
           h == <<START>> \o OutEvents(<<AddrW, Cmd>>)
           r == <<RESTART>>
           c == <<AddrR>>
           a == OutEvents(c)
           i == InEvents(k)
           p == <<STOP>>
           h4 == h \o r
           h5 == h4 \o a
           hi == h5 \o i
           all == hi \o p
<1>1. k \in Nat /\ k >= 1
  BY FetchedIs
<1>2. Protocol = ReadProtocol(k)
  BY FetchedIs DEF Protocol, Fetched, ReadCommands
<1>3. Protocol = all
  BY <1>2 DEF ReadProtocol
<1>4. /\ IsList(Events, h, 3)
      /\ h[1] = START /\ h[2] = Sent(AddrW, TRUE) /\ h[3] = Sent(Cmd, TRUE)
  BY SelectShown
<1>5. IsList(Events, r, 1) /\ r[1] = RESTART /\ IsList(Events, p, 1) /\ p[1] = STOP
  BY EventsOf, OneEvent
<1>6. IsList(WireBytes, c, 1) /\ c[1] = AddrR
  BY EventsOf, Primitives DEF IsList
<1> HIDE DEF c
<1>7. IsList(Events, a, 1) /\ a[1] = Sent(AddrR, TRUE)
  <2>1. IsList(Events, a, 1) /\ \A j \in 1..1 : a[j] = Sent(c[j], TRUE)
    BY <1>6, OutEventsAre
  <2> HIDE DEF a
  <2>2. 1 \in 1..1
    OBVIOUS
  <2> QED
    BY <1>6, <2>1, <2>2, Zenon
<1>8. IsList(Events, i, k) /\ \A j \in 1..k : i[j] = Read(Dev(j), j # k)
  BY <1>1, InEventsAre
<1> HIDE DEF h, r, a, i, p, k
<1>9. Joins(Events, h, 3, r, 1, h4)
  BY <1>4, <1>5 DEF Joins
<1> HIDE DEF h4
<1>10. /\ IsList(Events, h4, 4)
       /\ h4[1] = h[1] /\ h4[2] = h[2] /\ h4[3] = h[3] /\ h4[4] = r[1]
  BY <1>9, JoinedLists
<1>11. Joins(Events, h4, 4, a, 1, h5)
  BY <1>7, <1>10 DEF Joins
<1> HIDE DEF h5
<1>12. /\ IsList(Events, h5, 5)
       /\ h5[1] = h4[1] /\ h5[2] = h4[2] /\ h5[3] = h4[3] /\ h5[4] = h4[4] /\ h5[5] = a[1]
  BY <1>11, JoinedLists
<1>13. Joins(Events, h5, 5, i, k, hi)
  BY <1>8, <1>12 DEF Joins
<1> HIDE DEF hi
<1>14. /\ IsList(Events, hi, 5 + k)
       /\ \A j \in 1..5 : hi[j] = h5[j]
       /\ \A j \in 1..k : hi[5 + j] = i[j]
  BY <1>13, JoinedLists
<1>15. Joins(Events, hi, 5 + k, p, 1, all)
  BY <1>5, <1>14 DEF Joins
<1> HIDE DEF all
<1>16. /\ IsList(Events, all, 5 + k + 1)
       /\ \A j \in 1..(5 + k) : all[j] = hi[j]
       /\ \A j \in 1..1 : all[5 + k + j] = p[j]
  BY <1>15, JoinedLists
<1>17. k + 6 = 5 + k + 1
  BY <1>1
<1>18. all[k + 6] = STOP
  BY <1>5, <1>16, <1>17
<1>19. ASSUME NEW j \in 1..(k + 6) PROVE all[j] = ReadEvent(j)
  <2>1. CASE j <= 5
    <3>1. all[j] = h5[j] /\ (j = 1 \/ j = 2 \/ j = 3 \/ j = 4 \/ j = 5)
      BY <1>1, <1>14, <1>16, <2>1
    <3>2. /\ h5[1] = START /\ h5[2] = Sent(AddrW, TRUE) /\ h5[3] = Sent(Cmd, TRUE)
          /\ h5[4] = RESTART /\ h5[5] = Sent(AddrR, TRUE)
      BY <1>4, <1>5, <1>7, <1>10, <1>12
    <3>3. CASE j = 1
      BY <3>1, <3>2, <3>3, ReadEventIs
    <3>4. CASE j = 2
      BY <3>1, <3>2, <3>4, ReadEventIs
    <3>5. CASE j = 3
      BY <3>1, <3>2, <3>5, ReadEventIs
    <3>6. CASE j = 4
      BY <3>1, <3>2, <3>6, ReadEventIs
    <3>7. CASE j = 5
      BY <3>1, <3>2, <3>7, ReadEventIs
    <3> QED
      BY <3>1, <3>3, <3>4, <3>5, <3>6, <3>7
  <2>2. CASE j > 5 /\ j <= k + 5
    <3>1. j - 5 \in 1..k /\ 5 + (j - 5) = j
      BY <1>1, <2>2
    <3>2. all[j] = i[j - 5]
      BY <1>1, <1>14, <1>16, <2>2, <3>1
    <3>3. all[j] = Read(Dev(j - 5), j - 5 # k)
      BY <1>8, <3>1, <3>2
    <3> QED
      BY <2>2, <3>3 DEF ReadEvent, k
  <2>3. CASE j = k + 6
    BY <1>1, <1>18, <2>3 DEF ReadEvent, k
  <2> QED
    BY <1>1, <2>1, <2>2, <2>3
<1> QED
  BY <1>3, <1>16, <1>17, <1>19 DEF k

\* A transaction that sends the k bytes b, as primitives and as events.
SendsList(s, k, b) ==
  /\ IsList(Ops, s, k + 2) /\ IsList(WireBytes, b, k)
  /\ s[1] = Start /\ s[k + 2] = Stop
  /\ \A j \in 1..k : s[1 + j].op = "out" /\ s[1 + j].b = b[j]

\* Its PEC is the last byte, and the bytes before it enter it.
SendsPec(s, k) ==
  k >= 2 /\ s[1 + k] = PutPlain(PecOut) /\ \A j \in 1..(k - 1) : s[1 + j].crc

Transaction(b) == <<START>> \o OutEvents(b) \o <<STOP>>

LEMMA TransactionIs ==
  ASSUME NEW b, NEW k, IsList(WireBytes, b, k)
  PROVE  /\ IsList(Events, Transaction(b), k + 2)
         /\ Transaction(b)[1] = START /\ Transaction(b)[k + 2] = STOP
         /\ \A j \in 1..k : Transaction(b)[1 + j] = Sent(b[j], TRUE)
<1> DEFINE s == <<START>>  o == OutEvents(b)  p == <<STOP>>  w == s \o o  all == w \o p
<1>1. k \in Nat
  BY DEF IsList
<1>2. IsList(Events, s, 1) /\ s[1] = START /\ IsList(Events, p, 1) /\ p[1] = STOP
  BY EventsOf, OneEvent
<1>3. IsList(Events, o, k) /\ \A j \in 1..k : o[j] = Sent(b[j], TRUE)
  BY OutEventsAre
<1>4. Transaction(b) = all
  BY DEF Transaction
<1> HIDE DEF s, o, p
<1>5. Joins(Events, s, 1, o, k, w)
  BY <1>2, <1>3 DEF Joins
<1> HIDE DEF w
<1>6. /\ IsList(Events, w, 1 + k)
      /\ \A j \in 1..1 : w[j] = s[j]
      /\ \A j \in 1..k : w[1 + j] = o[j]
  BY <1>5, JoinedLists
<1>7. Joins(Events, w, 1 + k, p, 1, all)
  BY <1>2, <1>6 DEF Joins
<1> HIDE DEF all
<1>8. /\ IsList(Events, all, 1 + k + 1)
      /\ \A j \in 1..(1 + k) : all[j] = w[j]
      /\ \A j \in 1..1 : all[1 + k + j] = p[j]
  BY <1>7, JoinedLists
<1>9. k + 2 = 1 + k + 1
  BY <1>1
<1>10. all[1] = START /\ all[k + 2] = STOP
  BY <1>1, <1>2, <1>6, <1>8, <1>9
<1>11. ASSUME NEW j \in 1..k PROVE all[1 + j] = Sent(b[j], TRUE)
  <2>1. 1 + j \in 1..(1 + k)
    BY <1>1
  <2>2. all[1 + j] = o[j]
    BY <1>6, <1>8, <2>1
  <2> QED
    BY <1>3, <2>2
<1> QED
  BY <1>4, <1>8, <1>9, <1>10, <1>11

\* START, the bytes that a write command sends, and STOP.
LEMMA WriteIs ==
  ASSUME pec_enabled \in BOOLEAN, NEW d, NEW puts, NEW m,
         IsList(Bytes, d, m), IsList(Ops, puts, m), \A j \in 1..m : puts[j] = Put(d[j])
  PROVE  LET q == OnlyIf(pec_enabled, <<PecOut>>)
             b == <<AddrW, Cmd>> \o d \o q
             k == m + 2 + Len(q)
         IN  /\ SendsList(WriteOf(puts), k, b)
             /\ pec_enabled => SendsPec(WriteOf(puts), k)
<1> DEFINE q == OnlyIf(pec_enabled, <<PecOut>>)
           t == OnlyIf(pec_enabled, <<PutPlain(PecOut)>>)
           l == IF pec_enabled THEN 1 ELSE 0
           k == m + 2 + l
           a == <<AddrW, Cmd>>
           ad == a \o d
           b == ad \o q
           e == <<Stop>>
           sp == Select \o puts
           st == sp \o t
           s == st \o e
<1>1. m \in Nat /\ l \in Nat
  BY DEF IsList
<1>2. /\ AddrW \in Bytes /\ Cmd \in Bytes /\ PecOut \in Bytes /\ Bytes \subseteq WireBytes
      /\ \A x \in Bytes : /\ Put(x) \in Ops /\ Put(x).op = "out" /\ Put(x).b = x /\ Put(x).crc
                          /\ PutPlain(x) \in Ops /\ PutPlain(x).op = "out" /\ PutPlain(x).b = x
      /\ Start \in Ops /\ Stop \in Ops
  BY EventsOf, Primitives DEF Put, PutPlain
<1>3. IsList(Ops, Select, 3) /\ Select[1] = Start /\ Select[2] = Put(AddrW) /\ Select[3] = Put(Cmd)
  BY <1>2 DEF IsList, Select
<1>4. /\ IsList(WireBytes, q, l) /\ Len(q) = l /\ IsList(Ops, t, l)
      /\ pec_enabled => q[1] = PecOut /\ t[1] = PutPlain(PecOut)
  BY <1>2 DEF IsList, OnlyIf
<1>5. IsList(WireBytes, a, 2) /\ a[1] = AddrW /\ a[2] = Cmd
  BY <1>2 DEF IsList
<1>6. IsList(WireBytes, d, m) /\ \A j \in 1..m : d[j] \in Bytes
  BY <1>2 DEF IsList
<1>7. IsList(Ops, e, 1) /\ e[1] = Stop
  BY <1>2 DEF IsList
<1>8. WriteOf(puts) = s
  BY DEF WriteOf
<1> HIDE DEF q, t, a, e
<1>9. Joins(WireBytes, a, 2, d, m, ad) /\ Joins(Ops, Select, 3, puts, m, sp)
  BY <1>3, <1>5, <1>6 DEF Joins
<1> HIDE DEF ad, sp
<1>10. /\ IsList(WireBytes, ad, 2 + m) /\ ad[1] = a[1] /\ ad[2] = a[2]
       /\ \A j \in 1..m : ad[2 + j] = d[j]
  BY <1>9, JoinedLists
<1>11. /\ IsList(Ops, sp, 3 + m)
       /\ sp[1] = Select[1] /\ sp[2] = Select[2] /\ sp[3] = Select[3]
       /\ \A j \in 1..m : sp[3 + j] = puts[j]
  BY <1>9, JoinedLists
<1>12. Joins(WireBytes, ad, 2 + m, q, l, b) /\ Joins(Ops, sp, 3 + m, t, l, st)
  BY <1>4, <1>10, <1>11 DEF Joins
<1> HIDE DEF b, st
<1>13. /\ IsList(WireBytes, b, 2 + m + l)
       /\ \A j \in 1..(2 + m) : b[j] = ad[j]
       /\ \A j \in 1..l : b[2 + m + j] = q[j]
  BY <1>12, JoinedLists
<1>14. /\ IsList(Ops, st, 3 + m + l)
       /\ \A j \in 1..(3 + m) : st[j] = sp[j]
       /\ \A j \in 1..l : st[3 + m + j] = t[j]
  BY <1>12, JoinedLists
<1>15. Joins(Ops, st, 3 + m + l, e, 1, s)
  BY <1>7, <1>14 DEF Joins
<1> HIDE DEF s
<1>16. /\ IsList(Ops, s, 3 + m + l + 1)
       /\ \A j \in 1..(3 + m + l) : s[j] = st[j]
       /\ \A j \in 1..1 : s[3 + m + l + j] = e[j]
  BY <1>15, JoinedLists
<1>17. k \in Nat /\ k + 2 = 3 + m + l + 1 /\ 2 + m + l = k
  BY <1>1
<1>18. s[1] = Start /\ s[k + 2] = Stop
  BY <1>1, <1>3, <1>7, <1>11, <1>14, <1>16, <1>17
<1>19. ASSUME NEW j \in 1..k
       PROVE  /\ s[1 + j].op = "out" /\ s[1 + j].b = b[j]
              /\ j <= m + 2 => s[1 + j].crc
              /\ j > m + 2 => s[1 + j] = PutPlain(PecOut)
  <2>1. 1 + j \in 1..(3 + m + l) /\ s[1 + j] = st[1 + j]
    BY <1>1, <1>16
  <2>2. CASE j = 1
    BY <1>1, <1>2, <1>3, <1>5, <1>10, <1>11, <1>13, <1>14, <2>1, <2>2
  <2>3. CASE j = 2
    BY <1>1, <1>2, <1>3, <1>5, <1>10, <1>11, <1>13, <1>14, <2>1, <2>3
  <2>4. CASE j > 2 /\ j <= m + 2
    <3> DEFINE i == j - 2
    <3>1. i \in 1..m /\ 1 + j = 3 + i /\ j = 2 + i /\ 1 + j \in 1..(3 + m) /\ j \in 1..(2 + m)
      BY <1>1, <2>4
    <3> HIDE DEF i
    <3>2. s[1 + j] = puts[i]
      BY <1>11, <1>14, <2>1, <3>1
    <3>3. b[j] = d[i]
      BY <1>10, <1>13, <3>1
    <3>4. s[1 + j] = Put(d[i]) /\ d[i] \in Bytes
      BY <1>6, <3>1, <3>2
    <3> QED
      BY <1>1, <1>2, <2>4, <3>3, <3>4
  <2>5. CASE j > m + 2
    <3>1. j = m + 3 /\ l = 1 /\ pec_enabled
      BY <1>1, <2>5
    <3>2. s[1 + j] = t[1] /\ b[j] = q[1]
      BY <1>1, <1>13, <1>14, <2>1, <3>1
    <3>3. s[1 + j] = PutPlain(PecOut) /\ b[j] = PecOut
      BY <1>4, <3>1, <3>2
    <3> QED
      BY <1>1, <1>2, <2>5, <3>3
  <2> QED
    BY <1>1, <2>2, <2>3, <2>4, <2>5
<1>20. SendsList(s, k, b)
  BY <1>13, <1>16, <1>17, <1>18, <1>19 DEF SendsList
<1>21. ASSUME pec_enabled PROVE SendsPec(s, k)
  <2>1. k = m + 3 /\ k \in 1..k /\ k > m + 2 /\ k >= 2
    BY <1>1, <1>21
  <2>2. s[1 + k] = PutPlain(PecOut)
    BY <1>19, <2>1
  <2>3. \A j \in 1..(k - 1) : j \in 1..k /\ j <= m + 2
    BY <1>1, <2>1
  <2> HIDE DEF k
  <2>4. \A j \in 1..(k - 1) : s[1 + j].crc
    BY <1>19, <2>3
  <2> QED
    BY <2>1, <2>2, <2>4 DEF SendsPec
<1> QED
  BY <1>4, <1>8, <1>20, <1>21 DEF b, ad, a, q

\* The primitives of a write command send the bytes of its protocol.
LEMMA WriteCommandIs ==
  ASSUME pec_enabled \in BOOLEAN, cmd \in AllCommands \ (ReadCommands \cup Probes),
         n \in 0..ByteMax
  PROVE  \E b, k : /\ k \in Nat /\ k >= 2 /\ Protocol = Transaction(b)
                   /\ SendsList(Program(cmd, n), k, b)
                   /\ pec_enabled /\ cmd \in WriteCommands => SendsPec(Program(cmd, n), k)
<1>1. ASSUME NEW d, NEW puts, NEW m,
             IsList(Bytes, d, m), IsList(Ops, puts, m), \A j \in 1..m : puts[j] = Put(d[j]),
             Protocol = WriteProtocol(d), Program(cmd, n) = WriteOf(puts)
      PROVE  \E b, k : /\ k \in Nat /\ k >= 2 /\ Protocol = Transaction(b)
                       /\ SendsList(Program(cmd, n), k, b)
                       /\ pec_enabled /\ cmd \in WriteCommands => SendsPec(Program(cmd, n), k)
  <2> DEFINE q == OnlyIf(pec_enabled, <<PecOut>>)
             b == <<AddrW, Cmd>> \o d \o q
             k == m + 2 + Len(q)
  <2>1. SendsList(WriteOf(puts), k, b) /\ (pec_enabled => SendsPec(WriteOf(puts), k))
    BY <1>1, WriteIs
  <2>2. m \in Nat /\ Len(q) \in Nat
    BY <1>1 DEF IsList, OnlyIf
  <2>3. Protocol = Transaction(b)
    BY <1>1 DEF WriteProtocol, Transaction
  <2>4. k \in Nat /\ k >= 2
    BY <2>2
  <2> HIDE DEF b, k
  <2> QED
    BY <1>1, <2>1, <2>3, <2>4
<1>2. CASE cmd = "SEND_BYTE"
  <2> DEFINE b == <<AddrW, Cmd>>
             s == <<Start, PutPlain(AddrW), PutPlain(Cmd), Stop>>
  <2>1. Protocol = Transaction(b) /\ Program(cmd, n) = s
    BY <1>2 DEF Protocol, Program, Transaction
  <2>2. /\ AddrW \in WireBytes /\ Cmd \in WireBytes /\ Start \in Ops /\ Stop \in Ops
        /\ PutPlain(AddrW) \in Ops /\ PutPlain(Cmd) \in Ops
        /\ PutPlain(AddrW).op = "out" /\ PutPlain(AddrW).b = AddrW
        /\ PutPlain(Cmd).op = "out" /\ PutPlain(Cmd).b = Cmd
    BY EventsOf, Primitives DEF PutPlain
  <2>3. IsList(WireBytes, b, 2) /\ b[1] = AddrW /\ b[2] = Cmd
    BY <2>2 DEF IsList
  <2>4. /\ IsList(Ops, s, 4) /\ s[1] = Start /\ s[2] = PutPlain(AddrW)
        /\ s[3] = PutPlain(Cmd) /\ s[4] = Stop
    BY <2>2 DEF IsList
  <2> HIDE DEF b, s
  <2>5. SendsList(s, 2, b)
    BY <2>2, <2>3, <2>4 DEF SendsList
  <2>6. cmd \notin WriteCommands
    BY <1>2 DEF WriteCommands
  <2> QED
    BY <2>1, <2>5, <2>6
<1>3. CASE cmd = "WRITE_BYTE"
  <2> DEFINE d == <<Out(1)>>  puts == <<Put(Out(1))>>
  <2>1. Out(1) \in Bytes /\ Put(Out(1)) \in Ops
    BY Primitives
  <2>2. IsList(Bytes, d, 1) /\ IsList(Ops, puts, 1) /\ \A j \in 1..1 : puts[j] = Put(d[j])
    BY <2>1 DEF IsList
  <2>3. Protocol = WriteProtocol(d) /\ Program(cmd, n) = WriteOf(puts)
    BY <1>3 DEF Protocol, Program
  <2> HIDE DEF d, puts
  <2> QED
    BY <1>1, <2>2, <2>3
<1>4. CASE cmd = "WRITE_WORD"
  <2> DEFINE d == <<Out(1), Out(2)>>  puts == <<Put(Out(1)), Put(Out(2))>>
  <2>1. Out(1) \in Bytes /\ Put(Out(1)) \in Ops /\ Out(2) \in Bytes /\ Put(Out(2)) \in Ops
    BY Primitives
  <2>2. IsList(Bytes, d, 2) /\ IsList(Ops, puts, 2) /\ \A j \in 1..2 : puts[j] = Put(d[j])
    BY <2>1 DEF IsList
  <2>3. Protocol = WriteProtocol(d) /\ Program(cmd, n) = WriteOf(puts)
    BY <1>4 DEF Protocol, Program
  <2> HIDE DEF d, puts
  <2> QED
    BY <1>1, <2>2, <2>3
<1>5. CASE cmd = "WRITE_BLOCK"
  <2> DEFINE d == [i \in 1..(n + 1) |-> Out(i - 1)]
             puts == [i \in 1..(n + 1) |-> Put(Out(i - 1))]
  <2>1. n + 1 \in Nat
    BY CommandsAssumption
  <2>2. \A i \in 1..(n + 1) : Out(i - 1) \in Bytes /\ Put(Out(i - 1)) \in Ops
    BY <2>1, Primitives
  <2>3. d \in [1..(n + 1) -> Bytes] /\ puts \in [1..(n + 1) -> Ops]
    BY <2>2
  <2>4. \A j \in 1..(n + 1) : puts[j] = Put(d[j])
    OBVIOUS
  <2>5. Protocol = WriteProtocol(d) /\ Program(cmd, n) = WriteOf(puts)
    BY <1>5 DEF Protocol, Program
  <2> HIDE DEF d, puts
  <2>6. IsList(Bytes, d, n + 1) /\ IsList(Ops, puts, n + 1)
    BY <2>1, <2>3, Listed DEF IsList
  <2> QED
    BY <1>1, <2>4, <2>5, <2>6
<1> QED
  BY <1>2, <1>3, <1>4, <1>5 DEF AllCommands, ReadCommands, Probes

\* Such a protocol ends with its STOP.
LEMMA WriteProtocolIs ==
  ASSUME pec_enabled \in BOOLEAN, cmd \in AllCommands \ (ReadCommands \cup Probes),
         n \in 0..ByteMax
  PROVE  /\ Protocol \in Seq(Events) /\ Len(Protocol) \in Nat /\ Len(Protocol) >= 4
         /\ Protocol[Len(Protocol)] = STOP
<1>1. PICK b, k : /\ k \in Nat /\ k >= 2 /\ Protocol = Transaction(b)
                  /\ SendsList(Program(cmd, n), k, b)
  BY WriteCommandIs
<1>2. IsList(Events, Protocol, k + 2) /\ Protocol[k + 2] = STOP
  BY <1>1, TransactionIs DEF SendsList
<1>3. Protocol \in Seq(Events) /\ Len(Protocol) = k + 2
  BY <1>2 DEF IsList
<1> HIDE DEF Protocol
<1> QED
  BY <1>1, <1>2, <1>3

WriteProgram ==
  /\ pec_enabled \in BOOLEAN /\ cmd \in AllCommands \ (ReadCommands \cup Probes)
  /\ n \in 0..ByteMax /\ todo = Program(cmd, n)
  => /\ Len(todo) = Len(Protocol) /\ WriteAhead
     /\ \A j \in 1..Len(todo) : todo[j].op # "in"
     /\ pec_enabled /\ cmd \in WriteCommands /\ bytes = pec => WriteCovered

LEMMA WriteProgramIs == WriteProgram
<1> SUFFICES ASSUME pec_enabled \in BOOLEAN, cmd \in AllCommands \ (ReadCommands \cup Probes),
                    n \in 0..ByteMax, todo = Program(cmd, n)
             PROVE  /\ Len(todo) = Len(Protocol) /\ WriteAhead
                    /\ \A j \in 1..Len(todo) : todo[j].op # "in"
                    /\ pec_enabled /\ cmd \in WriteCommands /\ bytes = pec => WriteCovered
  BY DEF WriteProgram
<1>1. PICK b, k : /\ k \in Nat /\ k >= 2 /\ Protocol = Transaction(b)
                  /\ SendsList(todo, k, b)
                  /\ pec_enabled /\ cmd \in WriteCommands => SendsPec(todo, k)
  BY WriteCommandIs
<1>2. /\ IsList(Events, Protocol, k + 2)
      /\ Protocol[1] = START /\ Protocol[k + 2] = STOP
      /\ \A j \in 1..k : Protocol[1 + j] = Sent(b[j], TRUE)
  BY <1>1, TransactionIs DEF SendsList
<1>3. /\ IsList(Ops, todo, k + 2) /\ todo[1] = Start /\ todo[k + 2] = Stop
      /\ \A j \in 1..k : todo[1 + j].op = "out" /\ todo[1 + j].b = b[j]
  BY <1>1 DEF SendsList
<1>4. Len(todo) = k + 2 /\ Len(Protocol) = k + 2
  BY <1>2, <1>3 DEF IsList
<1> HIDE DEF Protocol
<1>5. ASSUME NEW j \in 1..(k + 2)
      PROVE  Shows(todo[j], Protocol[j]) /\ (j < k + 2 => todo[j].op # "stop")
             /\ todo[j].op # "in"
  <2>1. CASE j = 1
    BY <1>1, <1>2, <1>3, <2>1, Primitives DEF Shows
  <2>2. CASE j = k + 2
    <3>1. todo[j] = Stop /\ Protocol[j] = STOP /\ Stop.op = "stop" /\ ~(j < k + 2)
      BY <1>1, <1>2, <1>3, <2>2, Primitives
    <3> QED
      BY <3>1 DEF Shows
  <2>3. CASE j # 1 /\ j # k + 2
    <3> DEFINE i == j - 1
    <3>1. i \in 1..k /\ j = 1 + i
      BY <1>1, <2>3
    <3> HIDE DEF i
    <3> QED
      BY <1>2, <1>3, <3>1 DEF Shows
  <2> QED
    BY <2>1, <2>2, <2>3
<1>6. WriteAhead
  <2>1. \A j \in 1..(k + 2) : (k + 2) - (k + 2) + j = j
    BY <1>1
  <2>2. \A j \in 1..((k + 2) - 1) : j \in 1..(k + 2) /\ j < k + 2
    BY <1>1
  <2>3. k + 2 \in 1..(k + 2)
    BY <1>1
  <2> QED
    BY <1>4, <1>5, <2>1, <2>2, <2>3 DEF WriteAhead
<1>7. ASSUME pec_enabled, cmd \in WriteCommands, bytes = pec PROVE WriteCovered
  <2>1. todo[1 + k] = PutPlain(PecOut) /\ \A j \in 1..(k - 1) : todo[1 + j].crc
    BY <1>1, <1>7 DEF SendsPec
  <2>2. (k + 2) - 1 = 1 + k /\ (k + 2) - 2 = k /\ k + 2 >= 2 /\ k + 2 # 1
    BY <1>1
  <2>3. ASSUME NEW j \in 1..k, todo[j].op = "out" PROVE todo[j].crc
    <3>1. CASE j = 1
      BY <1>3, <2>3, <3>1, Primitives
    <3>2. CASE j # 1
      <4> DEFINE i == j - 1
      <4>1. i \in 1..(k - 1) /\ j = 1 + i
        BY <1>1, <3>2
      <4> HIDE DEF i
      <4> QED
        BY <2>1, <4>1
    <3> QED
      BY <3>1, <3>2
  <2> QED
    BY <1>4, <1>7, <2>1, <2>2, <2>3 DEF WriteCovered
<1> QED
  BY <1>4, <1>5, <1>6, <1>7

-----------------------------------------------------------------------------
(* The steps of a command                                                   *)

\* As long as the command is the same, so is what it does.
LEMMA SameCommand ==
  ASSUME UNCHANGED <<cmd, n, pec_enabled>>
  PROVE  /\ Fetched' = Fetched /\ AnswerLen' = AnswerLen /\ Protocol' = Protocol
         /\ CountRefused' <=> CountRefused
         /\ \A j, o : IsReadOp(j, o)' <=> IsReadOp(j, o)
         /\ \A j : ReadEvent(j)' = ReadEvent(j)
<1>1. Fetched' = Fetched /\ AnswerLen' = AnswerLen /\ (CountRefused' <=> CountRefused)
  BY DEF Fetched, AnswerLen, WithPec, CountRefused
<1>2. Protocol' = Protocol
  BY DEF Protocol, ReadProtocol, WriteProtocol, WithPec
<1>3. \A j : UseOf(j)' = UseOf(j)
  BY <1>1 DEF UseOf
<1>4. \A j, o : IsReadOp(j, o)' <=> IsReadOp(j, o)
  BY <1>1, <1>3 DEF IsReadOp
<1>5. \A j : ReadEvent(j)' = ReadEvent(j)
  BY <1>1 DEF ReadEvent
<1> QED
  BY <1>1, <1>2, <1>4, <1>5

\* What is known of the state, in the words of the proofs below.
LEMMA Known ==
  ASSUME PInv
  PROVE  /\ todo \in Seq(Ops) /\ Len(todo) \in Nat /\ pec_enabled \in BOOLEAN
         /\ n \in 0..ByteMax /\ cmd \in AllCommands
         /\ wire \in Seq(Events) /\ bytes \in Seq(WireBytes) /\ pec \in Seq(WireBytes)
         /\ ep0buf \in Seq(WireBytes) /\ rpec \in WireBytes /\ i2dat \in WireBytes
         /\ clocked \in Nat
BY DEF PInv, JInv, IInv, Types, Values

\* The next primitive of a read.
LEMMA ReadNext ==
  ASSUME PInv, todo # << >>, Going, cmd \in ReadCommands
  PROVE  /\ ReadAhead /\ ReadTaken /\ (~faulty => ReadHealthy)
         /\ Fetched \in Nat /\ Fetched >= 1
         /\ Called = Fetched + 5 - Len(todo) /\ Called \in 0..(Fetched + 4)
         /\ IsReadOp(Called + 1, Head(todo))
<1>1. /\ todo \in Seq(Ops) /\ Len(todo) \in Nat /\ Len(todo) > 0
      /\ ReadAhead /\ ReadTaken /\ (~faulty => ReadHealthy)
      /\ Fetched \in Nat /\ Fetched >= 1
  BY Known, FetchedIs DEF PInv, Underway, Reading
<1>2. /\ Called >= 0 /\ Called = Fetched + 5 - Len(todo)
      /\ \A j \in 1..Len(todo) : IsReadOp(Called + j, todo[j])
  BY <1>1 DEF ReadAhead, Called
<1>3. Head(todo) = todo[1]
  BY <1>1
<1> QED
  BY <1>1, <1>2, <1>3

\* It has been called.
LEMMA ReadAdvances ==
  ASSUME PInv, todo # << >>, Going, cmd \in ReadCommands, Advance,
         UNCHANGED <<cmd, n, pec_enabled>>, CountRefused => Called < 5
  PROVE  Called' = Called + 1 /\ Going' /\ ReadAhead'
<1>1. /\ todo \in Seq(Ops) /\ Len(todo) \in Nat /\ Len(todo) > 0
      /\ Fetched \in Nat /\ Called = Fetched + 5 - Len(todo) /\ Called \in 0..(Fetched + 4)
      /\ \A j \in 1..Len(todo) : IsReadOp(Called + j, todo[j])
  BY Known, ReadNext DEF ReadAhead
<1>3. /\ todo' = Tail(todo) /\ Len(todo') = Len(todo) - 1
      /\ \A j \in 1..Len(todo') : todo'[j] = todo[1 + j]
  BY <1>1 DEF Advance
<1>4. Fetched' = Fetched /\ (CountRefused' <=> CountRefused)
      /\ \A j, o : IsReadOp(j, o)' <=> IsReadOp(j, o)
  BY SameCommand
<1>5. Called' = Called + 1
  <2>1. Called' = Fetched' + 5 - Len(todo')
    BY DEF Called
  <2> QED
    BY <1>1, <1>3, <1>4, <2>1
<1>7. ASSUME NEW j \in 1..Len(todo') PROVE IsReadOp(Called + j, todo[j])'
  <2>1. 1 + j \in 1..Len(todo) /\ Called + (1 + j) = Called' + j
    BY <1>1, <1>3, <1>5
  <2>2. IsReadOp(Called' + j, todo'[j])
    BY <1>1, <1>3, <2>1
  <2> QED
    BY <1>4, <2>2 DEF IsReadOp, UseOf
<1>8. ReadAhead'
  BY <1>1, <1>4, <1>5, <1>7 DEF ReadAhead
<1>9. Going'
  BY DEF Going, Advance
<1> QED
  BY <1>5, <1>8, <1>9

\* The address, the command and the address again.
LEMMA ReadSelects ==
  ASSUME PInv, Starts \/ Restarts \/ OutAcked, Going, cmd \in ReadCommands
  PROVE  Reading'
<1>1. /\ todo # << >> /\ Head(todo).op \in {"start", "restart", "out"} /\ Advance
      /\ UNCHANGED <<cmd, n, pec_enabled, rpec, ep0buf, sound, faulty>>
  BY DEF Starts, Restarts, OutAcked, At
<1> DEFINE j == Called + 1
           o == Head(todo)
<1>2. /\ ReadTaken /\ (~faulty => ReadHealthy)
      /\ Fetched \in Nat /\ Fetched >= 1 /\ Called \in 0..(Fetched + 4)
      /\ IsReadOp(j, o)
  BY <1>1, ReadNext
<1>3. Called \in 0..4
  <2>1. j \in Int /\ ~(j > 5)
    BY <1>1, <1>2 DEF IsReadOp
  <2> QED
    BY <1>2, <2>1
<1>4. Called' = j /\ Going' /\ ReadAhead'
  BY <1>1, <1>3, ReadAdvances
<1>5. /\ bytes \in Seq(WireBytes) /\ pec \in Seq(WireBytes) /\ wire \in Seq(Events)
      /\ pec_enabled \in BOOLEAN /\ ep0buf \in Seq(WireBytes)
  BY Known
<1>6. /\ ep0buf' = ep0buf /\ Len(ep0buf) = 0
      /\ Len(bytes) = CASE Called <= 1 -> 0 [] Called = 2 -> 1 [] OTHER -> 2
      /\ pec_enabled => pec = bytes
  BY <1>1, <1>2, <1>3 DEF ReadTaken
<1>7. CASE o.op \in {"start", "restart"}
  <2>1. i2c_start /\ pec' = pec /\ j \in {1, 4}
    <3>1. i2c_start /\ pec' = pec
      BY <1>7 DEF Starts, Restarts, OutAcked, At, i2c_restart
    <3>2. j \notin {2, 3, 5}
      BY <1>2, <1>7 DEF IsReadOp, Put
    <3> QED
      BY <1>3, <3>1, <3>2
  <2>2. /\ bytes' = bytes /\ clocked' = clocked
        /\ wire' = Append(wire, IF owned THEN RESTART ELSE START)
    BY <2>1 DEF i2c_start
  <2>3. ReadTaken'
    BY <1>1, <1>2, <1>3, <1>4, <1>5, <1>6, <2>1, <2>2 DEF ReadTaken
  <2>4. ASSUME ~faulty PROVE ReadHealthy'
    <3>1. Len(wire) = Called /\ \A i \in 1..Len(wire) : wire[i] = ReadEvent(i)
      BY <1>2, <1>3, <2>4 DEF ReadHealthy
    <3>2. wire' = Append(wire, ReadEvent(j))
      <4>1. Owning
        BY DEF PInv, JInv, Wires
      <4>2. CASE Called = 0
        <5>1. wire = << >>
          BY <1>5, <3>1, <4>2
        <5> QED
          BY <2>2, <4>1, <4>2, <5>1, ReadEventIs DEF Owning
      <4>3. CASE Called = 3
        <5>1. 3 = Len(wire) /\ wire # << >>
          <6>1. wire = << >> => Len(wire) = 0
            OBVIOUS
          <6> QED
            BY <3>1, <4>3, <6>1
        <5>2. Sent(Cmd, TRUE).ev = "out"
          BY DEF Sent
        <5>3. wire[3] = ReadEvent(3)
          BY <3>1, <4>3
        <5>4. owned
          BY <4>1, <5>1, <5>2, <5>3, ReadEventIs DEF Owning
        <5> QED
          BY <2>2, <4>3, <5>4, ReadEventIs
      <4> QED
        BY <1>3, <2>1, <4>2, <4>3
    <3> QED
      BY <1>3, <1>4, <1>5, <3>1, <3>2, SameCommand, <1>1 DEF ReadHealthy
  <2> QED
    BY <1>1, <1>4, <2>3, <2>4 DEF Reading
<1>8. CASE o.op = "out"
  <2>1. /\ ByteOutAck(o.b) /\ pec' = IF pec_enabled /\ o.crc THEN Append(pec, o.b) ELSE pec
    BY <1>8 DEF Starts, Restarts, OutAcked, At
  <2>2. \/ j = 2 /\ o = Put(AddrW)
        \/ j = 3 /\ o = Put(Cmd)
        \/ j = 5 /\ o = Put(AddrR)
    BY <1>2, <1>3, <1>8 DEF IsReadOp, Start, Restart
  <2>3. /\ o.crc /\ o.b \in WireBytes /\ ReadEvent(j) = Sent(o.b, TRUE)
    <3>1. AddrW \in WireBytes /\ Cmd \in WireBytes /\ AddrR \in WireBytes
      BY Primitives, EventsOf
    <3>2. \A b : Put(b).crc /\ Put(b).b = b
      BY DEF Put
    <3>3. CASE j = 2 /\ o = Put(AddrW)
      BY <3>1, <3>2, <3>3, ReadEventIs
    <3>4. CASE j = 3 /\ o = Put(Cmd)
      BY <3>1, <3>2, <3>4, ReadEventIs
    <3>5. CASE j = 5 /\ o = Put(AddrR)
      BY <3>1, <3>2, <3>5, ReadEventIs
    <3> QED
      BY <2>2, <3>3, <3>4, <3>5
  <2>4. /\ bytes' = Append(bytes, o.b) /\ clocked' = 0 /\ wire' = Append(wire, ReadEvent(j))
        /\ pec_enabled => pec' = bytes'
    BY <1>6, <2>1, <2>3 DEF ByteOutAck
  <2>5. Len(bytes') = Len(bytes) + 1
    BY <1>5, <2>3, <2>4
  <2>6. j \in {2, 3, 5}
    BY <2>2
  <2>7. ReadTaken'
    <3>1. Len(ep0buf') = 0 /\ Len(ep0buf') = Len(ep0buf)
      BY <1>6
    <3>2. Len(bytes') = CASE j = 2 -> 1 [] j = 5 -> 3 [] OTHER -> 2
      <4>1. Len(bytes') = (CASE Called <= 1 -> 0 [] Called = 2 -> 1 [] OTHER -> 2) + 1
        BY <1>6, <2>5
      <4> QED
        BY <1>3, <2>6, <4>1
    <3>3. \A i \in 1..clocked' : bytes'[3 + i] = Dev(i)
      BY <2>4
    <3>4. \A i \in 1..Len(ep0buf') : pec'[3 + i] = ep0buf'[i]
      BY <3>1
    <3>5. pec_enabled' = pec_enabled /\ Called' \in {2, 3, 5} /\ clocked' = 0
          /\ (pec_enabled' => pec' = bytes')
      BY <1>1, <1>4, <2>4, <2>6
    <3>6. Called' = 2 => Len(bytes') = 1
      BY <1>4, <3>2
    <3>7. Called' = 3 => Len(bytes') = 2
      BY <1>4, <3>2
    <3>8. Called' = 5 => Len(bytes') = 3
      BY <1>4, <3>2
    <3> QED
      BY <3>1, <3>3, <3>4, <3>5, <3>6, <3>7, <3>8 DEF ReadTaken
  <2>8. ASSUME ~faulty PROVE ReadHealthy'
    <3>1. Len(wire) = Called /\ \A i \in 1..Len(wire) : wire[i] = ReadEvent(i)
      BY <1>2, <1>3, <2>8 DEF ReadHealthy
    <3> QED
      BY <1>1, <1>3, <1>4, <1>5, <2>4, <3>1, SameCommand DEF ReadHealthy
  <2> QED
    BY <1>1, <1>4, <2>7, <2>8 DEF Reading
<1> QED
  BY <1>1, <1>7, <1>8

\* The bytes come after the addresses, and a count that ends the command is the first.
LEMMA ReadByte ==
  ASSUME PInv, todo # << >>, Going, cmd \in ReadCommands, Head(todo).op = "in"
  PROVE  LET o == Head(todo) IN
         /\ Called \in 5..(Fetched + 4) /\ o.use = UseOf(Called - 4)
         /\ CountRefused => Called = 5 /\ o.use = "count"
         /\ ~CountRefused => /\ (o.first <=> Called = 5) /\ (o.single <=> Fetched = 1)
                             /\ (o.before <=> Called = Fetched + 3)
                             /\ (o.last <=> Called = Fetched + 4)
                             /\ (o.use = "pec" <=> Called - 4 > AnswerLen)
                             /\ AnswerLen \in {Fetched, Fetched - 1}
                             /\ (pec_enabled => AnswerLen = Fetched - 1)
         /\ o.use = "count" => Called = 5 /\ cmd = "READ_BLOCK"
<1> DEFINE o == Head(todo)
<1>1. /\ ReadAhead /\ Fetched \in Nat /\ Fetched >= 1 /\ Called \in 0..(Fetched + 4)
      /\ IsReadOp(Called + 1, o)
  BY ReadNext
<1>2. Called >= 5
  <2>1. Called + 1 \notin {1, 2, 3, 4, 5}
    BY <1>1 DEF IsReadOp, Start, Restart, Put
  <2> QED
    BY <1>1, <2>1
<1>3. /\ o.use = UseOf((Called + 1) - 5)
      /\ ~CountRefused => /\ (o.first <=> Called + 1 = 6) /\ (o.single <=> Fetched = 1)
                          /\ (o.before <=> Called + 1 = Fetched + 4)
                          /\ (o.last <=> Called + 1 = Fetched + 5)
  BY <1>1, <1>2 DEF IsReadOp
<1>4. CountRefused => Called = 5 /\ cmd = "READ_BLOCK"
  BY <1>1, <1>2 DEF ReadAhead, CountRefused
<1>5. (Called + 1) - 5 = Called - 4
  BY <1>2, <1>1
<1>6. o.use = "count" => Called = 5 /\ cmd = "READ_BLOCK"
  BY <1>1, <1>3, <1>5 DEF UseOf
<1>7. /\ pec_enabled \in BOOLEAN /\ n \in 0..ByteMax
  BY Known
<1>8. ASSUME ~CountRefused
      PROVE  /\ o.use = "pec" <=> Called - 4 > AnswerLen
             /\ AnswerLen \in {Fetched, Fetched - 1}
             /\ pec_enabled => AnswerLen = Fetched - 1
  <2>1. \/ AnswerLen = Fetched /\ ~pec_enabled /\ cmd # "READ_BLOCK"
        \/ AnswerLen = Fetched - 1 /\ (pec_enabled \/ cmd = "READ_BLOCK")
    BY <1>7, <1>8, FetchedIs
  <2>2. cmd = "READ_BLOCK" => Fetched >= 3
    BY <1>7, <1>8, FetchedIs
  <2> QED
    BY <1>1, <1>2, <1>3, <1>5, <2>1, <2>2 DEF UseOf
<1> QED
  BY <1>1, <1>2, <1>3, <1>4, <1>5, <1>6, <1>8 DEF UseOf

\* What a read loop makes of its next byte v.
LEMMA ReadTakes ==
  ASSUME PInv, todo # << >>, Going, cmd \in ReadCommands, Head(todo).op = "in", ~CountRefused,
         NEW v \in WireBytes, Take(Head(todo).use, v)
  PROVE  LET k == Called - 4 IN
         /\ Len(ep0buf') = IF k <= AnswerLen THEN k ELSE AnswerLen
         /\ \A i \in 1..Len(ep0buf') :
              ep0buf'[i] = IF i = k THEN v ELSE ep0buf[i]
         /\ k <= AnswerLen => Len(ep0buf) = k - 1
         /\ k > AnswerLen => Len(ep0buf) = AnswerLen
         /\ pec_enabled => /\ Len(pec') = 3 + Len(ep0buf')
                           /\ \A i \in 1..3 : pec'[i] = bytes[i]
                           /\ \A i \in 1..Len(ep0buf') : pec'[3 + i] = ep0buf'[i]
         /\ pec_enabled /\ k = Fetched => rpec' = v
<1> DEFINE o == Head(todo)  k == Called - 4
<1>1. /\ ReadTaken /\ Fetched \in Nat /\ Called \in 5..(Fetched + 4)
      /\ o.use = "pec" <=> k > AnswerLen
      /\ AnswerLen \in {Fetched, Fetched - 1}
      /\ pec_enabled => AnswerLen = Fetched - 1
  BY ReadNext, ReadByte
<1>2. /\ pec \in Seq(WireBytes) /\ ep0buf \in Seq(WireBytes) /\ pec_enabled \in BOOLEAN
  BY Known
<1>3. Len(ep0buf) = IF Called <= 5 THEN 0 ELSE IF Called - 5 <= AnswerLen THEN Called - 5
                    ELSE AnswerLen
  BY <1>1 DEF ReadTaken
<1>4. k <= AnswerLen => Len(ep0buf) = k - 1
  BY <1>1, <1>3
<1>5. k > AnswerLen => Len(ep0buf) = AnswerLen
  BY <1>1, <1>3
<1>6. pec_enabled => /\ Len(pec) = 3 + Len(ep0buf)
                     /\ \A i \in 1..3 : pec[i] = bytes[i]
                     /\ \A i \in 1..Len(ep0buf) : pec[3 + i] = ep0buf[i]
  BY <1>1 DEF ReadTaken
<1>7. k \in 1..Fetched /\ AnswerLen \in Int
  BY <1>1
<1>8. CASE k > AnswerLen
  <2>1. /\ ep0buf' = ep0buf /\ pec' = pec /\ (pec_enabled => rpec' = v)
    BY <1>1, <1>8 DEF Take
  <2> HIDE DEF k
  <2>2. \A i \in 1..Len(ep0buf') : i # k
    BY <1>5, <1>7, <1>8, <2>1
  <2>3. \A i \in 1..Len(ep0buf') : ep0buf'[i] = IF i = k THEN v ELSE ep0buf[i]
    BY <2>1, <2>2
  <2> QED
    BY <1>5, <1>6, <1>7, <1>8, <2>1, <2>3 DEF k
<1>9. CASE k <= AnswerLen
  <2>1. /\ ep0buf' = Append(ep0buf, v) /\ (pec_enabled => pec' = Append(pec, v) /\ k # Fetched)
    BY <1>1, <1>9 DEF Take
  <2>2. k = Len(ep0buf) + 1 /\ Len(ep0buf) \in Nat
    BY <1>2, <1>4, <1>9, <1>7
  <2> HIDE DEF k, o
  <2>3. /\ Len(ep0buf') = k /\ ep0buf'[k] = v
        /\ \A i \in 1..Len(ep0buf) : ep0buf'[i] = ep0buf[i]
    BY <1>2, <2>1, <2>2
  <2>4. \A i \in 1..Len(ep0buf') : ep0buf'[i] = IF i = k THEN v ELSE ep0buf[i]
    BY <2>2, <2>3
  <2>5. ASSUME pec_enabled
        PROVE  /\ Len(pec') = 3 + Len(ep0buf')
               /\ \A i \in 1..3 : pec'[i] = bytes[i]
               /\ \A i \in 1..Len(ep0buf') : pec'[3 + i] = ep0buf'[i]
    <3>1. /\ Len(pec') = Len(pec) + 1 /\ pec'[Len(pec) + 1] = v
          /\ \A i \in 1..Len(pec) : pec'[i] = pec[i]
      BY <1>2, <2>1, <2>5
    <3>2. Len(pec) = 2 + k
      BY <1>6, <2>2, <2>5
    <3>3. ASSUME NEW i \in 1..Len(ep0buf') PROVE pec'[3 + i] = ep0buf'[i]
      <4>1. CASE i = k
        <5>1. 3 + i = Len(pec) + 1
          BY <2>2, <3>2, <4>1
        <5> QED
          BY <2>3, <3>1, <4>1, <5>1
      <4>2. CASE i # k
        <5>1. i \in 1..Len(ep0buf) /\ 3 + i \in 1..Len(pec)
          BY <2>2, <2>3, <3>2, <4>2
        <5> QED
          BY <1>6, <2>3, <2>5, <3>1, <5>1
      <4> QED
        BY <4>1, <4>2
    <3>4. ASSUME NEW i \in 1..3 PROVE pec'[i] = bytes[i]
      <4>1. i \in 1..Len(pec)
        BY <2>2, <3>2
      <4> QED
        BY <1>6, <2>5, <3>1, <4>1
    <3> QED
      BY <2>2, <2>3, <3>1, <3>2, <3>3, <3>4
  <2>6. Len(ep0buf') = IF k <= AnswerLen THEN k ELSE AnswerLen
    BY <1>9, <2>3
  <2>7. /\ k <= AnswerLen => Len(ep0buf) = k - 1
        /\ k > AnswerLen => Len(ep0buf) = AnswerLen
    BY <1>4, <1>5
  <2>8. pec_enabled /\ k = Fetched => rpec' = v
    BY <2>1
  <2> QED
    BY <2>4, <2>5, <2>6, <2>7, <2>8 DEF k
<1> QED
  BY <1>7, <1>8, <1>9

\* With it, the bytes of the answer and of the PEC are one more.
LEMMA ReadCounts ==
  ASSUME PInv, todo # << >>, Going, cmd \in ReadCommands, Head(todo).op = "in", ~CountRefused,
         NEW v \in WireBytes, Take(Head(todo).use, v),
         UNCHANGED <<cmd, n, pec_enabled>>, Called' = Called + 1,
         Len(bytes') = 3 + clocked', \A i \in 1..clocked' : bytes'[3 + i] = Dev(i),
         \A i \in 1..3 : bytes'[i] = bytes[i]
  PROVE  ReadTaken'
<1>1. Called \in 5..(Fetched + 4) /\ Fetched \in Nat /\ AnswerLen' = AnswerLen
  BY ReadNext, ReadByte, SameCommand
<1>2. /\ Len(ep0buf') = IF Called - 4 <= AnswerLen THEN Called - 4 ELSE AnswerLen
      /\ pec_enabled => /\ Len(pec') = 3 + Len(ep0buf')
                        /\ \A i \in 1..3 : pec'[i] = bytes[i]
                        /\ \A i \in 1..Len(ep0buf') : pec'[3 + i] = ep0buf'[i]
  BY ReadTakes
<1>3. Called' > 5 /\ Called' - 5 = Called - 4 /\ ~(Called' <= 5) /\ Called' >= 5
  BY <1>1
<1>4. Len(ep0buf') = IF Called' <= 5 THEN 0
                     ELSE IF Called' - 5 <= AnswerLen' THEN Called' - 5 ELSE AnswerLen'
  BY <1>1, <1>2, <1>3
<1> QED
  BY <1>2, <1>3, <1>4 DEF ReadTaken

LEMMA ReadTimesOut ==
  ASSUME PInv, InTimesOut, Going, cmd \in ReadCommands
  PROVE  Reading'
<1> DEFINE o == Head(todo)
<1>1. /\ todo # << >> /\ o.op = "in" /\ i2c_stop /\ faulty' = TRUE
      /\ UNCHANGED <<cmd, n, pec_enabled>>
      /\ IF o.use = "count" THEN GiveUp
         ELSE Advance /\ \E v \in TimeoutValues(o.last) : Take(o.use, v)
  BY DEF InTimesOut, At, ByteInTimeout
<1>2. CASE o.use = "count"
  BY <1>1, <1>2 DEF GiveUp, Reading, Going, ReadCommands, Probes
<1>3. CASE o.use # "count"
  <2>1. ~CountRefused
    BY <1>1, <1>3, ReadByte
  <2>2. Called' = Called + 1 /\ Going' /\ ReadAhead'
    BY <1>1, <1>3, <2>1, ReadAdvances
  <2>3. PICK v \in WireBytes : Take(o.use, v)
    <3>1. Zero \in WireBytes /\ i2dat \in WireBytes
      BY EventsOf, Known
    <3> QED
      BY <1>1, <1>3, <3>1 DEF TimeoutValues
  <2>4. bytes' = bytes /\ clocked' = clocked
    BY <1>1 DEF i2c_stop
  <2>5. Len(bytes) = 3 + clocked /\ \A i \in 1..clocked : bytes[3 + i] = Dev(i)
    <3>1. Called >= 5 /\ ReadTaken
      BY <1>1, ReadByte, ReadNext
    <3> QED
      BY <3>1 DEF ReadTaken
  <2>6. ReadTaken'
    BY <1>1, <2>1, <2>2, <2>3, <2>4, <2>5, ReadCounts
  <2> QED
    BY <1>1, <2>2, <2>6 DEF Reading
<1> QED
  BY <1>2, <1>3

\* One more byte from the device.
LEMMA OneMoreByte ==
  ASSUME NEW b \in Seq(WireBytes), NEW c \in Nat, Len(b) = 3 + c,
         \A i \in 1..c : b[3 + i] = Dev(i)
  PROVE  LET x == Append(b, Dev(c + 1)) IN
         /\ x \in Seq(WireBytes) /\ Len(x) = 3 + (c + 1)
         /\ \A i \in 1..(c + 1) : x[3 + i] = Dev(i)
         /\ \A i \in 1..3 : x[i] = b[i]
<1> DEFINE x == Append(b, Dev(c + 1))
<1>1. Dev(c + 1) \in WireBytes
  BY EventsOf
<1>2. /\ x \in Seq(WireBytes) /\ Len(x) = Len(b) + 1 /\ x[Len(b) + 1] = Dev(c + 1)
      /\ \A i \in 1..Len(b) : x[i] = b[i]
  BY <1>1
<1> HIDE DEF x
<1>3. ASSUME NEW i \in 1..(c + 1) PROVE x[3 + i] = Dev(i)
  <2>1. CASE i = c + 1
    <3>1. 3 + i = Len(b) + 1
      BY <2>1
    <3> QED
      BY <1>2, <2>1, <3>1
  <2>2. CASE i # c + 1
    <3>1. i \in 1..c /\ 3 + i \in 1..Len(b)
      BY <2>2
    <3> QED
      BY <1>2, <3>1
  <2> QED
    BY <2>1, <2>2
<1>4. ASSUME NEW i \in 1..3 PROVE x[i] = b[i]
  BY <1>2
<1>5. Len(x) = 3 + (c + 1)
  BY <1>2
<1> QED
  BY <1>2, <1>3, <1>4, <1>5 DEF x

\* One more event of a read.
LEMMA OneMoreEvent ==
  ASSUME NEW w \in Seq(Events), \A j \in 1..Len(w) : w[j] = ReadEvent(j),
         NEW e \in Events, e = ReadEvent(Len(w) + 1)
  PROVE  /\ Append(w, e) \in Seq(Events) /\ Len(Append(w, e)) = Len(w) + 1
         /\ \A j \in 1..Len(Append(w, e)) : Append(w, e)[j] = ReadEvent(j)
<1> DEFINE x == Append(w, e)
<1>1. /\ x \in Seq(Events) /\ Len(x) = Len(w) + 1 /\ x[Len(w) + 1] = e /\ Len(w) \in Nat
      /\ \A i \in 1..Len(w) : x[i] = w[i]
  OBVIOUS
<1> HIDE DEF x
<1>2. ASSUME NEW j \in 1..Len(x) PROVE x[j] = ReadEvent(j)
  <2>1. j \in 1..Len(w) \/ j = Len(w) + 1
    BY <1>1
  <2> QED
    BY <1>1, <2>1
<1> QED
  BY <1>1, <1>2 DEF x

\* i2c_bytein in a read: the k-th byte is returned, the one after it is on the wire.
LEMMA ReadClocks ==
  ASSUME PInv, todo # << >>, Going, cmd \in ReadCommands, Head(todo).op = "in", ~CountRefused,
         ByteIn(Head(todo).first, Head(todo).single, Head(todo).before, Head(todo).last)
  PROVE  /\ bytes' \in Seq(WireBytes) /\ clocked' \in Nat /\ Len(bytes') = 3 + clocked'
         /\ \A i \in 1..clocked' : bytes'[3 + i] = Dev(i)
         /\ \A i \in 1..3 : bytes'[i] = bytes[i]
         /\ ~faulty =>
              /\ Len(wire') = Called + 2
              /\ \A j \in 1..Len(wire') : wire'[j] = ReadEvent(j)
              /\ clocked' = IF Called = Fetched + 4 THEN Fetched ELSE Called - 3
              /\ i2dat' = Dev(clocked')
              /\ ByteInValue(Head(todo).first) = Dev(Called - 4)
<1> DEFINE o == Head(todo)
           lr1 == lastrd \/ o.single
           n1 == IF o.first THEN clocked + 1 ELSE clocked
           b1 == IF o.first THEN Append(bytes, Dev(n1)) ELSE bytes
           e1 == Read(Dev(clocked + 1), ~lr1)
           w1 == IF o.first THEN Append(wire, e1) ELSE wire
           e2 == Read(Dev(n1 + 1), ~(lr1 \/ o.before))
<1>1. /\ Called \in 5..(Fetched + 4) /\ Fetched \in Nat /\ Fetched >= 1
      /\ (o.first <=> Called = 5) /\ (o.single <=> Fetched = 1)
      /\ (o.before <=> Called = Fetched + 3) /\ (o.last <=> Called = Fetched + 4)
      /\ ReadTaken /\ (~faulty => ReadHealthy)
  BY ReadNext, ReadByte
<1>2. /\ bytes \in Seq(WireBytes) /\ wire \in Seq(Events) /\ clocked \in Nat
      /\ i2dat \in WireBytes /\ lastrd \in BOOLEAN
  BY DEF PInv, JInv, Values
<1>3. ~lastrd \/ (o.last /\ ~o.first)
  BY DEF PInv, JInv, Wires, Announcing
<1>4. /\ o.last => /\ wire' = Append(w1, STOP) /\ bytes' = b1
                   /\ clocked' = n1 /\ i2dat' = Dev(n1)
      /\ ~o.last => /\ wire' = Append(w1, e2) /\ bytes' = Append(b1, Dev(n1 + 1))
                    /\ clocked' = n1 + 1 /\ i2dat' = Dev(n1 + 1)
  BY DEF ByteIn, Clocked, Announced
<1>5. /\ Len(bytes) = 3 + clocked /\ \A i \in 1..clocked : bytes[3 + i] = Dev(i)
      /\ Called = 5 => clocked = 0
  BY <1>1, <1>2 DEF ReadTaken
<1> HIDE DEF o
<1>6. /\ n1 \in Nat /\ b1 \in Seq(WireBytes) /\ Len(b1) = 3 + n1
      /\ \A i \in 1..n1 : b1[3 + i] = Dev(i)
      /\ \A i \in 1..3 : b1[i] = bytes[i]
  <2>1. CASE o.first
    <3>1. n1 = clocked + 1 /\ b1 = Append(bytes, Dev(clocked + 1)) /\ n1 \in Nat
      BY <1>2, <2>1
    <3> HIDE DEF n1, b1
    <3> QED
      BY <1>2, <1>5, <3>1, OneMoreByte
  <2>2. CASE ~o.first
    BY <1>2, <1>5, <2>2
  <2> QED
    BY <2>1, <2>2
<1>7. /\ bytes' \in Seq(WireBytes) /\ clocked' \in Nat /\ Len(bytes') = 3 + clocked'
      /\ \A i \in 1..clocked' : bytes'[3 + i] = Dev(i)
      /\ \A i \in 1..3 : bytes'[i] = bytes[i]
  <2> HIDE DEF n1, b1, w1, e2
  <2>1. CASE o.last
    BY <1>4, <1>6, <2>1
  <2>2. CASE ~o.last
    <3> DEFINE x == Append(b1, Dev(n1 + 1))
    <3>1. /\ x \in Seq(WireBytes) /\ Len(x) = 3 + (n1 + 1)
          /\ \A i \in 1..(n1 + 1) : x[3 + i] = Dev(i)
          /\ \A i \in 1..3 : x[i] = b1[i]
      BY <1>6, OneMoreByte
    <3> HIDE DEF x
    <3>2. bytes' = x /\ clocked' = n1 + 1 /\ n1 + 1 \in Nat
      BY <1>4, <1>6, <2>2 DEF x
    <3> QED
      BY <1>6, <3>1, <3>2
  <2> QED
    BY <2>1, <2>2
<1>8. ASSUME ~faulty
      PROVE  /\ Len(wire') = Called + 2
             /\ \A j \in 1..Len(wire') : wire'[j] = ReadEvent(j)
             /\ clocked' = IF Called = Fetched + 4 THEN Fetched ELSE Called - 3
             /\ i2dat' = Dev(clocked')
             /\ ByteInValue(o.first) = Dev(Called - 4)
  <2>1. /\ Len(wire) = IF Called <= 5 THEN Called ELSE Called + 1
        /\ \A j \in 1..Len(wire) : wire[j] = ReadEvent(j)
        /\ Called > 5 => clocked = Called - 4 /\ i2dat = Dev(clocked)
    BY <1>1, <1>8 DEF ReadHealthy
  <2>2. n1 = Called - 4
    BY <1>1, <1>5, <2>1
  <2>3. ByteInValue(o.first) = Dev(Called - 4)
    BY <1>1, <1>5, <2>1 DEF ByteInValue
  <2>4. /\ w1 \in Seq(Events) /\ Len(w1) = Called + 1
        /\ \A j \in 1..Len(w1) : w1[j] = ReadEvent(j)
    <3>1. CASE o.first
      <4>1. Called = 5 /\ clocked = 0 /\ ~lastrd /\ Len(wire) = 5
        BY <1>1, <1>3, <1>5, <2>1, <3>1
      <4>2. Dev(clocked + 1) \in WireBytes
        BY <1>2, EventsOf
      <4>3. e1 \in Events
        BY <4>2, EventsOf
      <4>4. e1 = ReadEvent(6)
        <5>1. ReadEvent(6) = Read(Dev(1), 1 # Fetched)
          BY <1>1 DEF ReadEvent
        <5>2. clocked + 1 = 1 /\ (~lr1) = (1 # Fetched)
          BY <1>1, <4>1
        <5> QED
          BY <5>1, <5>2
      <4> HIDE DEF e1
      <4>5. e1 = ReadEvent(Len(wire) + 1)
        BY <4>1, <4>4
      <4> QED
        BY <1>2, <2>1, <3>1, <4>1, <4>3, <4>5, OneMoreEvent
    <3>2. CASE ~o.first
      BY <1>1, <1>2, <2>1, <3>2
    <3> QED
      BY <3>1, <3>2
  <2> HIDE DEF w1
  <2>5. CASE o.last
    <3>1. Called = Fetched + 4 /\ wire' = Append(w1, STOP) /\ STOP \in Events
      BY <1>1, <1>4, <2>5, EventsOf
    <3>2. ReadEvent(Fetched + 6) = STOP
      BY <1>1 DEF ReadEvent
    <3>3. STOP = ReadEvent(Len(w1) + 1)
      BY <1>1, <2>4, <3>1, <3>2
    <3>4. Len(wire') = Called + 2 /\ \A j \in 1..Len(wire') : wire'[j] = ReadEvent(j)
      BY <1>1, <2>4, <3>1, <3>3, OneMoreEvent
    <3> QED
      BY <1>1, <1>4, <2>2, <2>3, <2>5, <3>1, <3>4
  <2>6. CASE ~o.last
    <3>1. Called <= Fetched + 3 /\ wire' = Append(w1, e2) /\ ~lastrd /\ ~o.single
      BY <1>1, <1>3, <1>4, <2>6
    <3>2. e2 \in Events
      <4>1. Dev(n1 + 1) \in WireBytes /\ (~(lr1 \/ o.before)) \in BOOLEAN
        BY <1>6, EventsOf
      <4> QED
        BY <4>1, EventsOf
    <3>3. e2 = ReadEvent(Called + 2)
      <4>1. ReadEvent(Called + 2) = Read(Dev((Called + 2) - 5), (Called + 2) - 5 # Fetched)
        BY <1>1, <3>1 DEF ReadEvent
      <4>2. (Called + 2) - 5 = n1 + 1
        BY <1>1, <2>2
      <4>3. (~(lr1 \/ o.before)) = ((Called + 2) - 5 # Fetched)
        BY <1>1, <3>1
      <4> QED
        BY <4>1, <4>2, <4>3
    <3> HIDE DEF e2
    <3>4. e2 = ReadEvent(Len(w1) + 1)
      BY <1>1, <2>4, <3>3
    <3>5. Len(wire') = Called + 2 /\ \A j \in 1..Len(wire') : wire'[j] = ReadEvent(j)
      BY <1>1, <2>4, <3>1, <3>2, <3>4, OneMoreEvent
    <3> QED
      BY <1>1, <1>4, <2>2, <2>3, <2>6, <3>1, <3>5
  <2> QED
    BY <2>5, <2>6
<1> QED
  BY <1>7, <1>8 DEF o

LEMMA ReadReads ==
  ASSUME PInv, InRead, Going, cmd \in ReadCommands
  PROVE  Reading'
<1> DEFINE o == Head(todo)
           v == ByteInValue(o.first)
           k == Called - 4
           refuse == o.use = "count" /\ n \in {0, ByteMax}
           wraps == o.use = "count" /\ n = ByteMax - 1
<1>1. /\ todo # << >> /\ o.op = "in" /\ ByteIn(o.first, o.single, o.before, o.last)
      /\ IF refuse THEN GiveUp ELSE Advance
      /\ IF refuse \/ wraps THEN UNCHANGED <<pec, rpec, ep0buf>> ELSE Take(o.use, v)
      /\ UNCHANGED <<cmd, n, pec_enabled>>
      /\ ~faulty' => ~faulty
  BY DEF InRead, At
<1>2. CASE refuse
  BY <1>1, <1>2 DEF GiveUp, Reading, Going, ReadCommands, Probes
<1>3. CASE ~refuse
  <2>1. o.use = "count" => cmd = "READ_BLOCK"
    BY <1>1, ReadByte
  <2>2. ~CountRefused
    <3>1. CountRefused => o.use = "count"
      BY <1>1, ReadByte
    <3> QED
      BY <1>3, <3>1 DEF CountRefused
  <2>3. ~wraps
    BY <2>1 DEF PInv, Underway, Recorded
  <2>4. Advance /\ Take(o.use, v)
    BY <1>1, <1>3, <2>3
  <2>5. Called' = Called + 1 /\ Going' /\ ReadAhead'
    BY <1>1, <2>2, <2>4, ReadAdvances
  <2>6. v \in WireBytes
    BY Known, EventsOf DEF ByteInValue
  <2>7. /\ Len(bytes') = 3 + clocked' /\ \A i \in 1..clocked' : bytes'[3 + i] = Dev(i)
        /\ \A i \in 1..3 : bytes'[i] = bytes[i]
    BY <1>1, <2>2, ReadClocks
  <2>8. ReadTaken'
    BY <1>1, <2>2, <2>4, <2>5, <2>6, <2>7, ReadCounts
  <2>9. ASSUME ~faulty' PROVE ReadHealthy'
    <3>1. /\ Len(wire') = Called + 2
          /\ \A j \in 1..Len(wire') : wire'[j] = ReadEvent(j)
          /\ clocked' = IF Called = Fetched + 4 THEN Fetched ELSE Called - 3
          /\ i2dat' = Dev(clocked') /\ v = Dev(k)
      BY <1>1, <2>2, <2>9, ReadClocks
    <3>2. /\ \A i \in 1..Len(ep0buf') : ep0buf'[i] = IF i = k THEN v ELSE ep0buf[i]
          /\ Len(ep0buf') = IF k <= AnswerLen THEN k ELSE AnswerLen
          /\ k <= AnswerLen => Len(ep0buf) = k - 1
          /\ k > AnswerLen => Len(ep0buf) = AnswerLen
          /\ pec_enabled /\ k = Fetched => rpec' = v
      BY <1>1, <2>2, <2>4, <2>6, ReadTakes
    <3>3. /\ Called \in 5..(Fetched + 4) /\ Fetched \in Nat /\ AnswerLen \in Int
          /\ ReadTaken /\ ReadHealthy
      BY <1>1, <2>2, <2>9, ReadNext, ReadByte
    <3>4. ASSUME NEW i \in 1..Len(ep0buf') PROVE ep0buf'[i] = Dev(i)
      <4>1. CASE i = k
        BY <3>1, <3>2, <4>1
      <4>2. CASE i # k
        <5>1. i \in 1..Len(ep0buf) /\ ep0buf'[i] = ep0buf[i]
          BY <3>2, <3>3, <4>2
        <5>2. Called > 5
          BY <3>3, <5>1 DEF ReadTaken
        <5> QED
          BY <3>3, <5>1, <5>2 DEF ReadHealthy
      <4> QED
        BY <4>1, <4>2
    <3>5. Fetched' = Fetched /\ \A j : ReadEvent(j)' = ReadEvent(j)
      BY <1>1, SameCommand
    <3>6. Called' > 5 /\ ~(Called' <= 5) /\ Called' + 1 = Called + 2 /\ Called' - 4 = Called - 3
          /\ (Called' = Fetched + 5 <=> Called = Fetched + 4)
          /\ (Called' = Fetched + 5 => k = Fetched)
      BY <2>5, <3>3
    <3> HIDE DEF k, v
    <3>7. Len(wire') = Called' + 1
      BY <3>1, <3>6
    <3>8. clocked' = IF Called' = Fetched' + 5 THEN Fetched' ELSE Called' - 4
      BY <3>1, <3>5, <3>6
    <3>9. Called' = Fetched' + 5 /\ pec_enabled' => rpec' = Dev(Fetched')
      BY <1>1, <3>1, <3>2, <3>5, <3>6
    <3> QED
      BY <3>1, <3>4, <3>5, <3>6, <3>7, <3>8, <3>9 DEF ReadHealthy
  <2> QED
    BY <2>5, <2>8, <2>9 DEF Reading
<1> QED
  BY <1>2, <1>3

\* The next primitive of a write puts the next event on the wire.
LEMMA WriteGoes ==
  ASSUME PInv, Starts \/ Restarts \/ OutAcked, Going, cmd \notin ReadCommands \cup Probes
  PROVE  Writing'
<1> DEFINE o == Head(todo)
           m == Len(todo)
           l == Len(Protocol)
           e == Protocol[l - m + 1]
<1>1. /\ todo # << >> /\ o.op \in {"start", "restart", "out"} /\ Advance
      /\ UNCHANGED <<cmd, n, pec_enabled, faulty>>
  BY DEF Starts, Restarts, OutAcked, At
<1>2. /\ todo \in Seq(Ops) /\ m \in Nat /\ m > 0 /\ o = todo[1]
      /\ wire \in Seq(Events) /\ bytes \in Seq(WireBytes) /\ pec \in Seq(WireBytes)
      /\ WriteAhead /\ (~faulty => WriteHealthy)
      /\ (pec_enabled /\ cmd \in WriteCommands => WriteCovered)
  BY <1>1, Known DEF PInv, Underway, Writing
<1>3. l \in Nat /\ l >= 4 /\ Protocol \in Seq(Events)
  <2>1. /\ cmd \in AllCommands \ (ReadCommands \cup Probes) /\ n \in 0..ByteMax
        /\ pec_enabled \in BOOLEAN
    BY Known
  <2> QED
    BY <2>1, WriteProtocolIs
<1> HIDE DEF l, m
<1>4. /\ m \in 1..l
      /\ \A j \in 1..m : Shows(todo[j], Protocol[l - m + j])
      /\ \A j \in 1..(m - 1) : todo[j].op # "stop"
  BY <1>2 DEF WriteAhead, m, l
<1>5. m >= 2
  <2>1. Releases(todo[m], n)
    BY <1>1 DEF PInv, JInv, IInv, Released, Ends, Going, m
  <2>2. o.op # "stop" /\ o.op # "in"
    BY <1>1
  <2> QED
    BY <1>2, <2>1, <2>2 DEF Releases
<1>6. Shows(o, e)
  <2>1. 1 \in 1..m
    BY <1>5, <1>2
  <2> QED
    BY <1>2, <1>4, <2>1
<1>7. /\ todo' = Tail(todo) /\ Len(todo') = m - 1 /\ Protocol' = Protocol
      /\ \A j \in 1..(m - 1) : todo'[j] = todo[1 + j]
  BY <1>1, <1>2, SameCommand DEF Advance, m
<1> HIDE DEF o, e
<1>8. wire' = Append(wire, e) /\ owned' /\ e \in Events
  <2>1. CASE o.op \in {"start", "restart"}
    <3>1. e = START /\ o.op = "start"
      BY <1>6, <2>1 DEF Shows
    <3>2. i2c_start
      BY <2>1 DEF Starts, Restarts, OutAcked, At, i2c_restart, o
    <3>3. wire = << >> /\ ~owned
      BY <1>1, <3>1 DEF PInv, JInv, Wires, Ahead, Owning, Going, o
    <3> QED
      BY <3>1, <3>2, <3>3, EventsOf DEF i2c_start
  <2>2. CASE o.op = "out"
    <3>1. e = Sent(o.b, TRUE)
      BY <1>6, <2>2 DEF Shows
    <3>2. ByteOutAck(o.b)
      BY <2>2 DEF Starts, Restarts, OutAcked, At, o
    <3>3. o.b \in WireBytes
      <4>1. o \in Ops
        BY <1>1, <1>2
      <4> QED
        BY <2>2, <4>1, Primitives, EventsOf DEF Ops, Outs, Ins
    <3> QED
      BY <3>1, <3>2, <3>3, EventsOf DEF ByteOutAck
  <2> QED
    BY <1>1, <2>1, <2>2 DEF o
<1>9. WriteAhead'
  <2>1. ASSUME NEW j \in 1..(m - 1) PROVE Shows(todo'[j], Protocol[l - (m - 1) + j])
    <3>1. 1 + j \in 1..m /\ l - (m - 1) + j = l - m + (1 + j)
      BY <1>2, <1>3
    <3> QED
      BY <1>4, <1>7, <3>1
  <2>2. ASSUME NEW j \in 1..((m - 1) - 1) PROVE todo'[j].op # "stop"
    <3>1. 1 + j \in 1..(m - 1) /\ j \in 1..(m - 1)
      BY <1>2
    <3> QED
      BY <1>4, <1>7, <3>1
  <2>3. m - 1 \in 1..l
    BY <1>2, <1>3, <1>4, <1>5
  <2> QED
    BY <1>7, <2>1, <2>2, <2>3 DEF WriteAhead, Shows, l
<1>10. ASSUME ~faulty PROVE WriteHealthy'
  <2>1. Len(wire) = l - m /\ \A j \in 1..Len(wire) : wire[j] = Protocol[j]
    BY <1>2, <1>10 DEF WriteHealthy, l, m
  <2>2. Len(wire') = l - (m - 1)
    BY <1>2, <1>3, <1>8, <2>1
  <2>3. ASSUME NEW j \in 1..Len(wire') PROVE wire'[j] = Protocol[j]
    <3>1. CASE j \in 1..Len(wire)
      BY <1>2, <1>8, <2>1, <3>1
    <3>2. CASE j = Len(wire) + 1
      <4>1. j = l - m + 1
        BY <2>1, <3>2
      <4> QED
        BY <1>2, <1>8, <3>2, <4>1 DEF e
    <3> QED
      BY <1>2, <1>3, <2>1, <2>2, <3>1, <3>2
  <2> QED
    BY <1>7, <1>8, <2>2, <2>3 DEF WriteHealthy, l
<1>11. ASSUME pec_enabled, cmd \in WriteCommands PROVE WriteCovered'
  <2>1. /\ bytes = pec /\ todo[m - 1] = PutPlain(PecOut)
        /\ \A j \in 1..(m - 2) : todo[j].op = "out" => todo[j].crc
    BY <1>2, <1>5, <1>11 DEF WriteCovered, m
  <2>2. (m - 1) - 2 = m - 3 /\ (m - 1) - 1 = m - 2
    BY <1>2
  <2>3. ASSUME m >= 3
        PROVE  /\ todo'[m - 2] = PutPlain(PecOut)
               /\ \A j \in 1..(m - 3) : todo'[j].op = "out" => todo'[j].crc
    <3>1. m - 2 \in 1..(m - 1) /\ 1 + (m - 2) = m - 1
      BY <1>2, <2>3
    <3>2. \A j \in 1..(m - 3) : j \in 1..(m - 1) /\ 1 + j \in 1..(m - 2)
      BY <1>2, <2>3
    <3> QED
      BY <1>7, <2>1, <3>1, <3>2
  <2>4. CASE o.op \in {"start", "restart"}
    <3>1. bytes' = bytes /\ pec' = pec
      BY <2>4 DEF Starts, Restarts, OutAcked, At, i2c_restart, i2c_start, o
    <3>2. m # 2
      <4>1. m = 2 => o = PutPlain(PecOut)
        BY <1>2, <2>1
      <4> QED
        BY <2>4, <4>1 DEF PutPlain
    <3>3. m >= 3 /\ m - 1 # 1 /\ Len(todo') # 1
      BY <1>2, <1>5, <1>7, <3>2
    <3> QED
      BY <1>7, <2>1, <2>2, <2>3, <3>1, <3>3 DEF WriteCovered
  <2>5. CASE o.op = "out"
    <3>1. /\ bytes' = Append(bytes, o.b)
          /\ pec' = IF o.crc THEN Append(pec, o.b) ELSE pec
      BY <1>11, <2>5 DEF Starts, Restarts, OutAcked, At, ByteOutAck, o
    <3>2. CASE m >= 3
      <4>1. o.crc
        <5>1. 1 \in 1..(m - 2)
          BY <1>2, <3>2
        <5> QED
          BY <1>2, <2>1, <2>5, <5>1
      <4>2. Len(todo') # 1
        BY <1>2, <1>7, <3>2
      <4> QED
        BY <1>7, <2>1, <2>2, <2>3, <3>1, <3>2, <4>1, <4>2 DEF WriteCovered
    <3>3. CASE m = 2
      <4>1. o = PutPlain(PecOut) /\ ~(Len(todo') >= 2)
        BY <1>2, <1>7, <2>1, <3>3
      <4>2. bytes' = Append(pec', PecOut)
        BY <2>1, <3>1, <4>1 DEF PutPlain
      <4> QED
        BY <4>1, <4>2 DEF WriteCovered
    <3> QED
      BY <1>2, <1>5, <3>2, <3>3
  <2> QED
    BY <1>1, <2>4, <2>5 DEF o
<1> QED
  BY <1>1, <1>9, <1>10, <1>11 DEF Writing

-----------------------------------------------------------------------------
(* The invariant                                                            *)

LEMMA SilentKept ==
  ASSUME PInv, result = "busy", todo # << >>,
         Advance \/ todo' = << >> \/ todo' = <<Stop>>,
         UNCHANGED cmd, Head(todo).op # "in" => ep0buf' = ep0buf
  PROVE  Silent'
<1> SUFFICES ASSUME cmd \notin ReadCommands
             PROVE  ep0buf' = << >> /\ \A j \in 1..Len(todo') : todo'[j].op # "in"
  BY DEF Silent
<1>1. /\ ep0buf = << >> /\ todo \in Seq(Ops) /\ \A j \in 1..Len(todo) : todo[j].op # "in"
  BY Known DEF PInv, Underway, Silent
<1>2. Head(todo).op # "in"
  <2>1. 1 \in 1..Len(todo) /\ Head(todo) = todo[1]
    BY <1>1
  <2> QED
    BY <1>1, <2>1
<1>3. CASE Advance
  <2>1. todo' = Tail(todo) /\ \A j \in 1..Len(Tail(todo)) : /\ 1 + j \in 1..Len(todo)
                                                           /\ Tail(todo)[j] = todo[1 + j]
    BY <1>1, <1>3 DEF Advance
  <2> QED
    BY <1>1, <1>2, <2>1
<1>4. CASE todo' = << >>
  BY <1>1, <1>2, <1>4
<1>5. CASE todo' = <<Stop>>
  <2>1. Len(<<Stop>>) = 1 /\ <<Stop>>[1].op # "in"
    BY Primitives
  <2> QED
    BY <1>1, <1>2, <1>5, <2>1
<1> QED
  BY <1>3, <1>4, <1>5

\* Only a return says something about the answer.
LEMMA StillBusy ==
  ASSUME result' = "busy" \/ result' = "none"
  PROVE  Ended'
BY DEF Ended, HealthyIsProtocol, AnswerIsDevices, PecCoversWire

LEMMA GoesKept ==
  ASSUME PInv, Starts \/ Restarts \/ OutAcked
  PROVE  Underway' /\ Ended'
<1>1. /\ result = "busy" /\ todo # << >> /\ Head(todo).op \in {"start", "restart", "out"}
      /\ Advance /\ UNCHANGED <<cmd, n, pec_enabled, rpec, ep0buf, sound, faulty>>
  BY DEF Starts, Restarts, OutAcked, At
<1>2. result' = "busy" /\ failing' = failing
  BY <1>1 DEF Advance
<1>3. ~failing
  <2>1. Head(<<Stop>>).op = "stop"
    BY Primitives
  <2> QED
    BY <1>1, <2>1 DEF PInv, Underway, Recorded
<1>4. Recorded'
  BY <1>1, <1>2, <1>3 DEF PInv, Underway, Recorded, JInv, Values
<1>5. Silent'
  BY <1>1, SilentKept
<1>6. Reading'
  BY <1>1, <1>3, ReadSelects DEF Going, Reading
<1>7. Writing'
  BY <1>1, <1>3, WriteGoes DEF Going, Writing
<1> QED
  BY <1>2, <1>4, <1>5, <1>6, <1>7, StillBusy DEF Underway

LEMMA GivesUpKept ==
  ASSUME PInv, result = "busy", todo # << >>, GiveUp, faulty' = TRUE,
         UNCHANGED <<cmd, n, ep0buf>>
  PROVE  Underway' /\ Ended'
<1>1. todo' = <<Stop>> /\ result' = "busy" /\ failing' = (cmd \notin Probes)
  BY DEF GiveUp
<1>2. Recorded'
  BY <1>1 DEF PInv, Underway, Recorded
<1>3. Silent'
  BY <1>1, SilentKept
<1>4. Reading' /\ Writing'
  BY <1>1 DEF Reading, Writing, Going, ReadCommands, Probes
<1> QED
  BY <1>1, <1>2, <1>3, <1>4, StillBusy DEF Underway

LEMMA ReadsKept ==
  ASSUME PInv, InRead \/ InTimesOut
  PROVE  Underway' /\ Ended'
<1>1. /\ result = "busy" /\ todo # << >> /\ Head(todo).op = "in"
      /\ UNCHANGED <<cmd, n, pec_enabled>>
      /\ GiveUp \/ Advance
  BY DEF InRead, InTimesOut, At, PInv, JInv, Values
<1>2. cmd \in ReadCommands
  <2>1. 1 \in 1..Len(todo) /\ Head(todo) = todo[1]
    BY <1>1, Known
  <2> QED
    BY <1>1, <2>1 DEF PInv, Underway, Silent
<1>3. ~failing
  <2>1. Head(<<Stop>>).op = "stop"
    BY Primitives
  <2> QED
    BY <1>1, <2>1 DEF PInv, Underway, Recorded
<1>4. Recorded'
  <2>1. ~faulty' => sound'
    BY DEF InRead, InTimesOut, PInv, Underway, Recorded, JInv, Values
  <2>2. result' = "busy" /\ failing' => faulty' /\ todo' = <<Stop>>
    <3>1. CASE InTimesOut
      BY <1>1, <1>3, <3>1 DEF InTimesOut, GiveUp, Advance
    <3>2. CASE InRead
      <4> DEFINE refuse == Head(todo).use = "count" /\ n \in {0, ByteMax}
      <4>1. /\ IF refuse THEN GiveUp ELSE Advance
            /\ \E ok \in BOOLEAN : faulty' = (faulty \/ ~ok \/ refuse)
        BY <3>2 DEF InRead
      <4> QED
        BY <1>3, <4>1 DEF GiveUp, Advance
    <3> QED
      BY <3>1, <3>2
  <2>3. cmd' = "READ_BLOCK" => n' # ByteMax - 1
    BY <1>1 DEF PInv, Underway, Recorded
  <2> QED
    BY <2>1, <2>2, <2>3 DEF Recorded
<1>5. Silent' /\ Writing'
  <2>1. cmd' \in ReadCommands
    BY <1>1, <1>2
  <2> QED
    BY <2>1 DEF Silent, Writing, ReadCommands
<1>6. Reading'
  BY <1>1, <1>2, <1>3, ReadReads, ReadTimesOut DEF Going
<1>7. result' = "busy"
  BY <1>1 DEF GiveUp, Advance
<1> QED
  BY <1>4, <1>5, <1>6, <1>7, StillBusy DEF Underway

\* Two lists of the same elements are the same.
LEMMA SameList ==
  ASSUME NEW S, NEW T, NEW s \in Seq(S), NEW t \in Seq(T), Len(s) = Len(t),
         \A j \in 1..Len(s) : s[j] = t[j]
  PROVE  s = t
OBVIOUS

\* A handler that returns leaves nothing underway.
LEMMA Over ==
  ASSUME PInv, result' # "busy", UNCHANGED <<cmd, n, sound>>, ~faulty' => ~faulty
  PROVE  Underway'
BY DEF PInv, Underway, Recorded, Silent, Reading, Writing, Going

LEMMA StartFailsEnds ==
  ASSUME PInv, StartFails
  PROVE  Underway' /\ Ended'
<1>1. result' = "stall" /\ faulty' = TRUE /\ UNCHANGED <<cmd, n, sound>>
  BY DEF StartFails, Return
<1>2. Underway'
  BY <1>1, Over
<1>3. Ended'
  BY <1>1 DEF Ended, HealthyIsProtocol, AnswerIsDevices, PecCoversWire
<1> QED
  BY <1>2, <1>3

LEMMA StopsEnd ==
  ASSUME PInv, Stops
  PROVE  Underway' /\ Ended'
<1>1. /\ result = "busy" /\ todo # << >> /\ Head(todo).op = "stop" /\ i2c_stop
      /\ result' = IF failing THEN "stall" ELSE "ok"
      /\ UNCHANGED <<cmd, n, pec_enabled, pec, ep0buf, sound, faulty>>
  BY DEF Stops, At, Return
<1>2. Underway'
  BY <1>1, Over
<1>3. /\ Protocol' = Protocol /\ AnswerLen' = AnswerLen /\ bytes' = bytes
      /\ wire' = IF owned THEN Append(wire, STOP) ELSE wire
  BY <1>1, SameCommand DEF i2c_stop
<1>4. CASE failing
  <2>1. faulty' /\ result' = "stall"
    BY <1>1, <1>4 DEF PInv, Underway, Recorded
  <2> QED
    BY <1>2, <2>1 DEF Ended, HealthyIsProtocol, AnswerIsDevices, PecCoversWire
<1>5. CASE ~failing
  <2>1. Going /\ result' = "ok"
    BY <1>1, <1>5 DEF Going
  <2>2. cmd \notin ReadCommands
    <3> SUFFICES ASSUME cmd \in ReadCommands PROVE FALSE
      OBVIOUS
    <3>1. IsReadOp(Called + 1, Head(todo)) /\ Called \in 0..(Fetched + 4) /\ Fetched \in Nat
      BY <1>1, <2>1, ReadNext
    <3>2. /\ Called + 1 > 5 => Head(todo).op = "in"
          /\ Called + 1 \in 1..5 => Head(todo).op \in {"start", "restart", "out"}
      BY <3>1 DEF IsReadOp, Start, Restart, Put
    <3> QED
      BY <1>1, <3>1, <3>2
  <2>3. AnswerIsDevices'
    <3>1. ep0buf' = << >> /\ AnswerLen' = 0
      BY <1>1, <1>3, <2>2 DEF PInv, Underway, Silent, AnswerLen, ReadCommands
    <3> QED
      BY <3>1 DEF AnswerIsDevices
  <2>4. CASE cmd \in Probes
    BY <1>1, <1>2, <2>3, <2>4 DEF Ended, HealthyIsProtocol, PecCoversWire, Probes
  <2>5. CASE cmd \notin Probes
    <3>1. /\ WriteAhead /\ (~faulty => WriteHealthy)
          /\ pec_enabled /\ cmd \in WriteCommands => WriteCovered
      BY <2>1, <2>2, <2>5 DEF PInv, Underway, Writing
    <3>2. /\ Protocol \in Seq(Events) /\ Len(Protocol) \in Nat /\ Len(Protocol) >= 4
          /\ Protocol[Len(Protocol)] = STOP
      <4>1. cmd \in AllCommands \ (ReadCommands \cup Probes) /\ n \in 0..ByteMax
            /\ pec_enabled \in BOOLEAN
        BY <2>2, <2>5, Known
      <4> QED
        BY <4>1, WriteProtocolIs
    <3>3. Len(todo) = 1
      <4>1. todo \in Seq(Ops) /\ Len(todo) \in Nat /\ Len(todo) > 0 /\ todo[1].op = "stop"
        BY <1>1, Known
      <4>2. Len(todo) > 1 => 1 \in 1..(Len(todo) - 1)
        BY <4>1
      <4>3. \A j \in 1..(Len(todo) - 1) : todo[j].op # "stop"
        BY <3>1 DEF WriteAhead
      <4>4. ~(1 \in 1..(Len(todo) - 1))
        BY <4>1, <4>3
      <4> QED
        BY <4>1, <4>2, <4>4
    <3>4. ASSUME ~faulty PROVE wire' = Protocol
      <4>1. /\ Len(wire) = Len(Protocol) - 1 /\ owned
            /\ \A j \in 1..Len(wire) : wire[j] = Protocol[j]
        BY <3>1, <3>2, <3>3, <3>4 DEF WriteHealthy
      <4>2. wire \in Seq(Events) /\ STOP \in Events
        BY Known, EventsOf
      <4>3. wire' = Append(wire, STOP)
        BY <1>3, <4>1
      <4> DEFINE w == Append(wire, STOP)
      <4>4. /\ w \in Seq(Events) /\ Len(w) = Len(wire) + 1 /\ w[Len(wire) + 1] = STOP
            /\ \A j \in 1..Len(wire) : w[j] = wire[j]
        BY <4>2
      <4> HIDE DEF w
      <4>5. Len(w) = Len(Protocol) /\ Len(wire) + 1 = Len(Protocol)
        BY <3>2, <4>1, <4>4
      <4>6. ASSUME NEW j \in 1..Len(w) PROVE w[j] = Protocol[j]
        <5>1. j \in 1..Len(wire) \/ j = Len(Protocol)
          BY <3>2, <4>5
        <5> QED
          BY <3>2, <4>1, <4>4, <4>5, <5>1
      <4>7. w = Protocol
        BY <3>2, <4>4, <4>5, <4>6, SameList
      <4> QED
        BY <4>3, <4>7 DEF w
    <3>5. HealthyIsProtocol'
      BY <1>1, <1>3, <2>1, <3>4 DEF HealthyIsProtocol
    <3>6. PecCoversWire'
      BY <1>1, <1>3, <3>1, <3>3 DEF PecCoversWire, WriteCovered, WriteCommands
    <3> QED
      BY <1>2, <2>3, <3>5, <3>6 DEF Ended
  <2> QED
    BY <2>4, <2>5
<1> QED
  BY <1>4, <1>5

LEMMA ReadEndsEnd ==
  ASSUME PInv, ReadEnds
  PROVE  Underway' /\ Ended'
<1>1. /\ result = "busy" /\ todo = << >>
      /\ IF pec_enabled /\ ~PecMatches THEN result' = "stall"
                                       ELSE result' = "ok" /\ UNCHANGED busVars
      /\ UNCHANGED <<cmd, n, pec_enabled, pec, ep0buf, sound, faulty>>
  BY DEF ReadEnds, Return
<1>2. Underway'
  BY <1>1, Over
<1>3. Protocol' = Protocol /\ AnswerLen' = AnswerLen
  BY <1>1, SameCommand
<1>4. Going
  <2>1. todo # <<Stop>>
    BY <1>1
  <2> QED
    BY <1>1, <2>1 DEF PInv, Underway, Recorded, Going
<1>5. CASE cmd \notin ReadCommands
  <2>1. cmd \in Probes
    <3>1. ~WriteAhead
      BY <1>1 DEF WriteAhead
    <3> QED
      BY <1>4, <1>5, <3>1 DEF PInv, Underway, Writing
  <2>2. AnswerIsDevices'
    <3>1. ep0buf' = << >> /\ AnswerLen' = 0
      BY <1>1, <1>3, <1>5 DEF PInv, Underway, Silent, AnswerLen, ReadCommands
    <3> QED
      BY <3>1 DEF AnswerIsDevices
  <2> QED
    BY <1>1, <1>2, <2>1, <2>2 DEF Ended, HealthyIsProtocol, PecCoversWire, Probes
<1>6. CASE cmd \in ReadCommands
  <2>1. /\ pec_enabled \in BOOLEAN /\ n \in 0..ByteMax /\ bytes \in Seq(WireBytes)
        /\ pec \in Seq(WireBytes) /\ ep0buf \in Seq(WireBytes) /\ wire \in Seq(Events)
        /\ clocked \in Nat
    BY Known
  <2>2. /\ ReadAhead /\ ReadTaken /\ (~faulty => ReadHealthy)
    BY <1>4, <1>6 DEF PInv, Underway, Reading
  <2>3. Fetched \in Nat /\ Fetched >= 1 /\ AnswerLen \in Nat
    BY <1>6, <2>1, FetchedIs
  <2>4. Called = Fetched + 5
    BY <1>1, <2>3 DEF Called
  <2>5. ~CountRefused
    BY <2>2, <2>3, <2>4 DEF ReadAhead
  <2>6. AnswerLen \in {Fetched, Fetched - 1} /\ (pec_enabled => AnswerLen = Fetched - 1)
    BY <1>6, <2>1, <2>5, FetchedIs
  <2>7. /\ Len(ep0buf) = AnswerLen /\ Len(bytes) = 3 + clocked
        /\ \A i \in 1..clocked : bytes[3 + i] = Dev(i)
        /\ pec_enabled => /\ Len(pec) = 3 + Len(ep0buf)
                          /\ \A i \in 1..3 : pec[i] = bytes[i]
                          /\ \A i \in 1..Len(ep0buf) : pec[3 + i] = ep0buf[i]
    BY <2>2, <2>3, <2>4, <2>6 DEF ReadTaken
  <2>8. ~faulty => /\ Len(wire) = Fetched + 6
                   /\ \A j \in 1..Len(wire) : wire[j] = ReadEvent(j)
                   /\ clocked = Fetched
                   /\ \A i \in 1..Len(ep0buf) : ep0buf[i] = Dev(i)
                   /\ pec_enabled => rpec = Dev(Fetched)
    BY <2>2, <2>3, <2>4 DEF ReadHealthy
  <2> DEFINE f == Front(bytes)
  <2>9. /\ f \in Seq(WireBytes) /\ Len(f) = 2 + clocked
        /\ \A i \in 1..(2 + clocked) : f[i] = bytes[i]
        /\ Last(bytes) = bytes[3 + clocked] /\ bytes # << >>
    <3>1. Len(bytes) >= 3 /\ Len(bytes) - 1 = 2 + clocked
      BY <2>1, <2>7
    <3>2. /\ f = SubSeq(bytes, 1, Len(bytes) - 1) /\ Last(bytes) = bytes[3 + clocked]
      BY <2>7 DEF Front, Last
    <3>3. bytes # << >>
      <4>1. bytes = << >> => Len(bytes) = 0
        OBVIOUS
      <4> QED
        BY <3>1, <4>1
    <3>4. /\ SubSeq(bytes, 1, 2 + clocked) \in Seq(WireBytes)
          /\ Len(SubSeq(bytes, 1, 2 + clocked)) = 2 + clocked
          /\ \A i \in 1..(2 + clocked) : SubSeq(bytes, 1, 2 + clocked)[i] = bytes[i]
      BY <2>1, <2>7
    <3> QED
      BY <3>1, <3>2, <3>3, <3>4
  <2> HIDE DEF f
  <2>10. ASSUME pec_enabled, ~faulty PROVE PecMatches
    <3>1. clocked = Fetched /\ Len(pec) = Len(f) /\ rpec = bytes[3 + clocked]
      <4>1. clocked = Fetched /\ rpec = Dev(clocked) /\ clocked \in 1..clocked
        BY <2>3, <2>8, <2>10
      <4>2. Len(pec) = 3 + (Fetched - 1)
        BY <2>6, <2>7, <2>10
      <4> QED
        BY <2>3, <2>7, <2>9, <4>1, <4>2
    <3>2. ASSUME NEW j \in 1..Len(pec) PROVE pec[j] = f[j]
      <4>1. j \in 1..(2 + clocked) /\ f[j] = bytes[j]
        BY <2>9, <3>1
      <4>2. CASE j <= 3
        <5>1. j \in 1..3
          BY <4>1, <4>2
        <5> QED
          BY <2>7, <2>10, <4>1, <5>1
      <4>3. CASE j > 3
        <5> DEFINE i == j - 3
        <5>1. i \in 1..Len(ep0buf) /\ i \in 1..clocked /\ j = 3 + i
          BY <2>1, <2>3, <2>6, <2>7, <2>10, <3>1, <4>1, <4>3
        <5> HIDE DEF i
        <5>2. pec[j] = ep0buf[i] /\ ep0buf[i] = Dev(i) /\ bytes[j] = Dev(i)
          BY <2>7, <2>8, <2>10, <5>1
        <5> QED
          BY <4>1, <5>2
      <4> QED
        BY <4>1, <4>2, <4>3
    <3>3. pec = f
      BY <2>1, <2>9, <3>1, <3>2, SameList
    <3> QED
      BY <2>9, <2>10, <3>1, <3>3 DEF PecMatches, f, PInv, Underway, Recorded
  <2>11. ASSUME ~faulty
         PROVE  result' = "ok" /\ wire' = Protocol
    <3>1. result' = "ok" /\ wire' = wire
      BY <1>1, <2>10, <2>11 DEF busVars
    <3>2. /\ IsList(Events, Protocol, Fetched + 6)
          /\ \A j \in 1..(Fetched + 6) : Protocol[j] = ReadEvent(j)
      BY <1>6, <2>1, <2>5, ReadProtocolIs
    <3>3. Protocol \in Seq(Events) /\ Len(wire) = Len(Protocol)
      BY <2>8, <2>11, <3>2 DEF IsList
    <3>4. \A j \in 1..Len(wire) : wire[j] = Protocol[j]
      BY <2>8, <2>11, <3>2
    <3>5. wire = Protocol
      BY <2>1, <3>3, <3>4, SameList
    <3> QED
      BY <3>1, <3>5
  <2>12. HealthyIsProtocol'
    BY <1>1, <1>3, <2>11 DEF HealthyIsProtocol
  <2>13. ASSUME result' = "ok", pec_enabled \/ ~faulty
         PROVE  ep0buf = [i \in 1..AnswerLen |-> Dev(i)]
    <3>1. ASSUME NEW i \in 1..Len(ep0buf) PROVE ep0buf[i] = Dev(i)
      <4>1. CASE ~faulty
        BY <2>8, <4>1
      <4>2. CASE pec_enabled
        <5>1. PecMatches
          BY <1>1, <2>13, <4>2
        <5>2. pec = f
          BY <5>1 DEF PecMatches, f
        <5>3. Len(pec) = 3 + Len(ep0buf) /\ pec[3 + i] = ep0buf[i]
          BY <2>7, <4>2
        <5>4. i \in 1..clocked /\ 3 + i \in 1..(2 + clocked)
          BY <2>1, <2>7, <2>9, <5>2, <5>3
        <5> QED
          BY <2>7, <2>9, <5>2, <5>3, <5>4
      <4> QED
        BY <2>13, <4>1, <4>2
    <3>2. /\ ep0buf \in Seq(WireBytes) /\ DOMAIN ep0buf = 1..AnswerLen
      BY <2>1, <2>7
    <3> QED
      BY <2>7, <3>1, <3>2
  <2>14. AnswerIsDevices'
    BY <1>1, <1>3, <2>13 DEF AnswerIsDevices
  <2>15. PecCoversWire'
    BY <1>1, <1>6 DEF PecCoversWire, ReadCommands
  <2> QED
    BY <1>2, <2>12, <2>14, <2>15 DEF Ended
<1> QED
  BY <1>5, <1>6

\* A probe only sends.
LEMMA ProbesAreSilent ==
  ASSUME NEW c \in Probes, NEW k, NEW j \in 1..Len(Program(c, k))
  PROVE  Program(c, k)[j].op # "in"
<1>1. ASSUME NEW s, Plain(s), NEW i \in 1..Len(s \o <<Stop>>)
      PROVE  (s \o <<Stop>>)[i].op # "in"
  <2> DEFINE t == <<Stop>>
  <2>1. s \in Seq(Ops) /\ t \in Seq(Ops) /\ Len(t) = 1 /\ t[1].op = "stop"
    BY <1>1, Primitives DEF Plain
  <2> HIDE DEF t
  <2>2. /\ Len(s \o t) = Len(s) + Len(t) /\ Len(s) \in Nat
        /\ \A l \in 1..Len(s) : (s \o t)[l] = s[l]
        /\ \A l \in 1..Len(t) : (s \o t)[Len(s) + l] = t[l]
    <3>1. ASSUME NEW u \in Seq(Ops), NEW v \in Seq(Ops)
          PROVE  /\ Len(u \o v) = Len(u) + Len(v) /\ Len(u) \in Nat
                 /\ \A l \in 1..Len(u) : (u \o v)[l] = u[l]
                 /\ \A l \in 1..Len(v) : (u \o v)[Len(u) + l] = v[l]
      BY Concatenated
    <3> QED
      BY <2>1, <3>1
  <2>3. i \in 1..Len(s) \/ i = Len(s) + 1
    BY <1>1, <2>1, <2>2 DEF t
  <2> QED
    BY <1>1, <2>1, <2>2, <2>3 DEF t, Plain
<1>2. CASE c = "TEST_ADDRESS_ACK"
  <2>1. Plain(<<Start, PutPlain(AddrW)>>)
    BY Primitives DEF Plain
  <2>2. Program(c, k) = <<Start, PutPlain(AddrW)>> \o <<Stop>>
    BY <1>2 DEF Program
  <2> QED
    BY <1>1, <2>1, <2>2
<1>3. CASE c = "TEST_COMMAND_ACK"
  <2>1. Plain(<<Start, PutPlain(AddrW), PutPlain(Cmd)>>)
    BY Primitives DEF Plain
  <2>2. Program(c, k) = <<Start, PutPlain(AddrW), PutPlain(Cmd)>> \o <<Stop>>
    BY <1>3 DEF Program
  <2> QED
    BY <1>1, <2>1, <2>2
<1>4. CASE c = "TEST_COMMAND_WRITE"
  <2> DEFINE f == [i \in 1..5 |-> i]
             p == <<Start, PutPlain(AddrW), PutPlain(Cmd)>> \o [i \in 1..5 |-> PutPlain(Out(i))]
  <2>1. Plain(<<Start, PutPlain(AddrW), PutPlain(Cmd)>>)
    BY Primitives DEF Plain
  <2>2. f \in [1..5 -> Int]
    OBVIOUS
  <2>3. Plain([i \in 1..5 |-> PutPlain(Out(f[i]))])
    <3> HIDE DEF f
    <3> QED
      BY <2>2, PlainOutputs
  <2>4. [i \in 1..5 |-> PutPlain(Out(f[i]))] = [i \in 1..5 |-> PutPlain(Out(i))]
    OBVIOUS
  <2>5. Plain(p)
    BY <2>1, <2>3, <2>4, PlainJoined
  <2>6. Program(c, k) = p \o <<Stop>>
    BY <1>4 DEF Program
  <2> HIDE DEF p
  <2> QED
    BY <1>1, <2>5, <2>6
<1> QED
  BY <1>2, <1>3, <1>4 DEF Probes

\* A handler that has just been entered.
Begun ==
  /\ pec_enabled \in BOOLEAN /\ cmd \in AllCommands /\ n \in 0..ByteMax
  /\ cmd = "READ_BLOCK" => n # ByteMax - 1
  /\ todo = Program(cmd, n)
  /\ wire = << >> /\ bytes = << >> /\ pec = << >> /\ ep0buf = << >>
  /\ ~failing /\ sound

LEMMA Begins == Begun => Underway
<1> SUFFICES ASSUME Begun PROVE Underway
  OBVIOUS
<1>1. /\ pec_enabled \in BOOLEAN /\ cmd \in AllCommands /\ n \in 0..ByteMax
      /\ todo = Program(cmd, n)
      /\ wire = << >> /\ bytes = << >> /\ pec = << >> /\ ep0buf = << >>
      /\ Len(wire) = 0 /\ Len(bytes) = 0 /\ Len(pec) = 0 /\ Len(ep0buf) = 0
  BY DEF Begun
<1>2. Recorded
  BY DEF Recorded, Begun
<1>3. CASE cmd \in ReadCommands
  <2>1. Len(todo) = Fetched + 5 /\ \A j \in 1..Len(todo) : IsReadOp(j, todo[j])
    BY <1>3, ReadProgramIs DEF ReadProgram, Begun
  <2>2. Called = 0 /\ \A j \in 1..Len(todo) : Called + j = j
    <3>1. Fetched \in Nat
      BY <1>1, <1>3, FetchedIs
    <3> QED
      BY <2>1, <3>1 DEF Called
  <2>3. ReadAhead
    BY <2>1, <2>2 DEF ReadAhead
  <2>4. ReadTaken
    BY <1>1, <2>2 DEF ReadTaken
  <2>5. ReadHealthy
    BY <1>1, <2>2 DEF ReadHealthy
  <2> QED
    BY <1>2, <1>3, <2>3, <2>4, <2>5 DEF Underway, Silent, Reading, Writing
<1>4. CASE cmd \in AllCommands \ (ReadCommands \cup Probes)
  <2>1. /\ Len(todo) = Len(Protocol) /\ WriteAhead
        /\ \A j \in 1..Len(todo) : todo[j].op # "in"
        /\ pec_enabled /\ cmd \in WriteCommands => WriteCovered
    BY <1>1, <1>4, WriteProgramIs DEF WriteProgram
  <2>2. WriteHealthy
    <3>1. Len(Protocol) \in Nat
      BY <1>1, <1>4, WriteProtocolIs
    <3> QED
      BY <1>1, <2>1, <3>1 DEF WriteHealthy
  <2> QED
    BY <1>1, <1>2, <1>4, <2>1, <2>2 DEF Underway, Silent, Reading, Writing
<1>5. CASE cmd \in Probes
  <2>1. \A j \in 1..Len(todo) : todo[j].op # "in"
    BY <1>1, <1>5, ProbesAreSilent
  <2> QED
    BY <1>1, <1>2, <1>5, <2>1 DEF Underway, Silent, Reading, Writing, ReadCommands, Probes
<1> QED
  BY <1>1, <1>3, <1>4, <1>5

LEMMA EntersKept ==
  ASSUME PInv, NEW c \in AllCommands, NEW k \in 0..ByteMax, handle_vendorcommand(c, k),
         c = "READ_BLOCK" => k # ByteMax - 1
  PROVE  Underway' /\ Ended'
<1>1. /\ cmd' = c /\ n' = k /\ todo' = Program(c, k) /\ pec_enabled' = pec_enabled
      /\ pec' = << >> /\ ep0buf' = << >> /\ wire' = << >> /\ bytes' = << >>
      /\ failing' = FALSE /\ sound' = TRUE /\ result' = "busy"
  BY DEF handle_vendorcommand
<1>2. Program(cmd, n)' = Program(c, k) /\ pec_enabled' \in BOOLEAN
  BY <1>1, Known DEF Program, WriteOf, OnlyIf
<1>3. Begun'
  BY <1>1, <1>2 DEF Begun, AllCommands
<1>4. (Begun => Underway)'
  BY Begins, PTL
<1> QED
  BY <1>1, <1>3, <1>4, StillBusy

LEMMA ProtocolStep ==
  ASSUME ByteMax - 1 \notin Counts, PInv, [Next]_vars
  PROVE  PInv'
<1>1. JInv'
  BY WireStep DEF PInv
<1>2. Underway' /\ Ended'
  <2>1. CASE Enter
    BY <2>1, Entered, EntersKept
  <2>2. CASE EnablePEC
    <3>1. result' = "none" /\ UNCHANGED <<cmd, n, sound, faulty>>
      BY <2>2 DEF EnablePEC
    <3> QED
      BY <3>1, Over, StillBusy
  <2>3. CASE Starts \/ Restarts \/ OutAcked
    BY <2>3, GoesKept
  <2>4. CASE StartFails
    BY <2>4, StartFailsEnds
  <2>5. CASE OutFails
    <3>1. /\ result = "busy" /\ todo # << >> /\ GiveUp /\ faulty' = TRUE
          /\ UNCHANGED <<cmd, n, ep0buf>>
      BY <2>5 DEF OutFails, At
    <3> QED
      BY <3>1, GivesUpKept
  <2>6. CASE Stops
    BY <2>6, StopsEnd
  <2>7. CASE InRead \/ InTimesOut
    BY <2>7, ReadsKept
  <2>8. CASE ReadEnds
    BY <2>8, ReadEndsEnd
  <2>9. CASE UNCHANGED vars
    <3>1. /\ UNCHANGED <<cmd, n, todo, pec_enabled, pec, rpec, ep0buf, failing, sound, faulty>>
          /\ UNCHANGED <<result, wire, bytes, owned, i2dat, clocked>>
      BY <2>9 DEF vars, busVars, cmdVars
    <3>2. /\ Fetched' = Fetched /\ AnswerLen' = AnswerLen /\ Protocol' = Protocol
          /\ (CountRefused' <=> CountRefused) /\ \A j : ReadEvent(j)' = ReadEvent(j)
      BY <3>1, SameCommand
    <3>3. Called' = Called /\ (Going' <=> Going)
      BY <3>1, <3>2 DEF Called, Going
    <3>4. ReadAhead => ReadAhead'
      BY <3>1, <3>2, <3>3 DEF ReadAhead, IsReadOp, UseOf
    <3>5. /\ ReadTaken => ReadTaken'
          /\ ReadHealthy => ReadHealthy'
      BY <3>1, <3>2, <3>3 DEF ReadTaken, ReadHealthy
    <3>6. /\ WriteAhead => WriteAhead'
          /\ WriteHealthy => WriteHealthy'
          /\ WriteCovered => WriteCovered'
      BY <3>1, <3>2, <3>3 DEF WriteAhead, WriteHealthy, WriteCovered, Shows
    <3>7. Underway'
      BY <3>1, <3>3, <3>4, <3>5, <3>6
      DEF PInv, Underway, Recorded, Silent, Reading, Writing, ReadCommands, WriteCommands, Probes
    <3>8. Ended'
      BY <3>1, <3>2
      DEF PInv, Ended, HealthyIsProtocol, AnswerIsDevices, PecCoversWire, Probes
    <3> QED
      BY <3>7, <3>8
  <2> QED
    BY <2>1, <2>2, <2>3, <2>4, <2>5, <2>6, <2>7, <2>8, <2>9 DEF Next, Primitive
<1> QED
  BY <1>1, <1>2 DEF PInv

LEMMA ProtocolInit ==
  ASSUME Init
  PROVE  PInv
<1>1. JInv
  BY WireInit
<1>2. Underway
  BY DEF Init, Underway, Recorded, Silent, Reading, Writing, Going
<1>3. Ended
  BY DEF Init, Ended, HealthyIsProtocol, AnswerIsDevices, PecCoversWire
<1> QED
  BY <1>1, <1>2, <1>3 DEF PInv

\* What has been called and what is still to be called make up the command.
THEOREM ProtocolInvariance ==
  ASSUME ByteMax - 1 \notin Counts
  PROVE  Spec => []PInv
<1>1. Init => PInv
  BY ProtocolInit
<1>2. PInv /\ [Next]_vars => PInv'
  BY ProtocolStep
<1> QED
  BY <1>1, <1>2, PTL DEF Spec

\* With the bus and the device healthy, every command puts exactly its SMBus protocol on
\* the wire and succeeds, for blocks of any length.
THEOREM HealthyCommandsAreProtocol ==
  ASSUME ByteMax - 1 \notin Counts
  PROVE  Spec => []HealthyIsProtocol
<1>1. PInv => HealthyIsProtocol
  BY DEF PInv, Ended
<1> QED
  BY <1>1, ProtocolInvariance, PTL

\* The answer to a successful read is the device's bytes in order, if the bus was healthy
\* or PEC is on, for blocks of any length.
THEOREM AnswersAreDevices ==
  ASSUME ByteMax - 1 \notin Counts
  PROVE  Spec => []AnswerIsDevices
<1>1. PInv => AnswerIsDevices
  BY DEF PInv, Ended
<1> QED
  BY <1>1, ProtocolInvariance, PTL

\* The PEC of a write covers every byte on the wire before it, for blocks of any length.
THEOREM SentPecCoversWire ==
  ASSUME ByteMax - 1 \notin Counts
  PROVE  Spec => []PecCoversWire
<1>1. PInv => PecCoversWire
  BY DEF PInv, Ended
<1> QED
  BY <1>1, ProtocolInvariance, PTL
=============================================================================
