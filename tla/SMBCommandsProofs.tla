------------------------- MODULE SMBCommandsProofs -------------------------
(***************************************************************************)
(* Proof that every command leaves the bus free, however it ends, and that *)
(* the wire is disciplined all along, for blocks of any length and a BYTE  *)
(* of any width, as long as no device answers the count with which         *)
(* blocklen wraps to 0.                                                    *)
(*                                                                         *)
(* A handler leaves without a STOP of its own where the primitive it       *)
(* called last has made one, or where no START was made. So the first      *)
(* proof is about what is still to do: it ends with a primitive that gives *)
(* the bus back, and START is only ever the first one. The second one adds *)
(* what has been done: the last event on the wire says whether the bus is  *)
(* owned and, if nobody acknowledged it, what the only next primitive is.  *)
(***************************************************************************)
EXTENDS SMBCommands, TLAPS

Bytes == [role : {"addrW", "addrR", "cmd", "out", "pec"}, i : Int]

Outs == [op : {"out"}, b : Bytes, crc : BOOLEAN]
Ins == [op : {"in"}, first : BOOLEAN, single : BOOLEAN, before : BOOLEAN,
        last : BOOLEAN, use : {"count", "data", "pec"}]
Ops == {Start, Restart, Stop} \cup Outs \cup Ins

\* The bus is free once p has been called, if the device's count is k: a STOP, a
\* byte read as the last one, or a count that is refused.
Releases(p, k) ==
  \/ p.op = "stop"
  \/ p.op = "in" /\ (p.last \/ (p.use = "count" /\ k = ByteMax))

Ends(s, k) == s # << >> /\ Releases(s[Len(s)], k)

NoStart(s)   == \A j \in 1..Len(s) : s[j].op # "start"
FirstOnly(s) == \A j \in 2..Len(s) : s[j].op # "start"

Types ==
  /\ todo \in Seq(Ops) /\ owned \in BOOLEAN /\ pec_enabled \in BOOLEAN
  /\ n \in 0..ByteMax /\ result \in {"none", "busy", "ok", "stall"}

Released ==
  /\ result # "busy" \/ todo = << >> => ~owned
  /\ result = "busy" /\ todo # << >> => /\ Ends(todo, n) /\ FirstOnly(todo)
                                        /\ Head(todo).op = "start" => ~owned

IInv == Types /\ Released

-----------------------------------------------------------------------------
(* Sequences of primitives                                                  *)

\* One sequence after another.
LEMMA Concatenated ==
  ASSUME NEW S, NEW s \in Seq(S), NEW t \in Seq(S)
  PROVE  /\ s \o t \in Seq(S) /\ Len(s \o t) = Len(s) + Len(t)
         /\ Len(s) \in Nat /\ Len(t) \in Nat
         /\ \A j \in 1..(Len(s) + Len(t)) :
              (s \o t)[j] = IF j <= Len(s) THEN s[j] ELSE t[j - Len(s)]
         /\ \A j \in 1..Len(s) : (s \o t)[j] = s[j]
         /\ \A j \in 1..Len(t) : (s \o t)[Len(s) + j] = t[j]
OBVIOUS

LEMMA Joined ==
  ASSUME NEW s \in Seq(Ops), NEW t \in Seq(Ops), NEW k
  PROVE  /\ s \o t \in Seq(Ops)
         /\ Ends(t, k) => Ends(s \o t, k)
         /\ NoStart(s) /\ NoStart(t) => NoStart(s \o t)
         /\ s # << >> /\ FirstOnly(s) /\ NoStart(t) => FirstOnly(s \o t)
<1>1. /\ s \o t \in Seq(Ops) /\ Len(s \o t) = Len(s) + Len(t)
      /\ Len(s) \in Nat /\ Len(t) \in Nat
      /\ \A j \in 1..(Len(s) + Len(t)) :
           (s \o t)[j] = IF j <= Len(s) THEN s[j] ELSE t[j - Len(s)]
  OBVIOUS
<1>2. ASSUME Ends(t, k) PROVE Ends(s \o t, k)
  <2>1. Len(t) > 0
    BY <1>2 DEF Ends
  <2>2. (s \o t)[Len(s) + Len(t)] = t[Len(t)]
    BY <1>1, <2>1
  <2>3. s \o t # << >>
    BY <1>1, <2>1
  <2> QED
    BY <1>1, <1>2, <2>2, <2>3 DEF Ends
<1>3. NoStart(s) /\ NoStart(t) => NoStart(s \o t)
  BY <1>1 DEF NoStart
<1>4. s # << >> /\ FirstOnly(s) /\ NoStart(t) => FirstOnly(s \o t)
  BY <1>1 DEF NoStart, FirstOnly
<1> QED
  BY <1>1, <1>2, <1>3, <1>4

\* What is left when the first primitive has been called.
LEMMA Rest ==
  ASSUME NEW s \in Seq(Ops), s # << >>, FirstOnly(s), NEW k, Ends(s, k)
  PROVE  /\ Tail(s) \in Seq(Ops) /\ Head(s) \in Ops
         /\ NoStart(Tail(s)) /\ FirstOnly(Tail(s))
         /\ Tail(s) # << >> => Ends(Tail(s), k) /\ Head(Tail(s)).op # "start"
         /\ Tail(s) = << >> => Releases(Head(s), k)
<1>1. /\ Tail(s) \in Seq(Ops) /\ Len(Tail(s)) = Len(s) - 1 /\ Len(s) \in Nat /\ Len(s) > 0
      /\ Head(s) = s[1] /\ Head(s) \in Ops
      /\ \A j \in 1..(Len(s) - 1) : Tail(s)[j] = s[j + 1]
  OBVIOUS
<1>2. NoStart(Tail(s))
  BY <1>1 DEF NoStart, FirstOnly
<1>3. FirstOnly(Tail(s))
  BY <1>1, <1>2 DEF NoStart, FirstOnly
<1>4. ASSUME Tail(s) # << >> PROVE Ends(Tail(s), k) /\ Head(Tail(s)).op # "start"
  <2>1. Len(s) > 1
    BY <1>1, <1>4
  <2>2. Tail(s)[Len(s) - 1] = s[Len(s)] /\ Head(Tail(s)) = Tail(s)[1]
    BY <1>1, <2>1
  <2>3. Ends(Tail(s), k)
    BY <1>1, <1>4, <2>1, <2>2 DEF Ends
  <2>4. 1 \in 1..Len(Tail(s))
    BY <1>1, <2>1
  <2>5. Tail(s)[1].op # "start"
    BY <1>2, <2>4 DEF NoStart
  <2> QED
    BY <2>2, <2>3, <2>5
<1>5. Tail(s) = << >> => Len(s) = 1
  BY <1>1
<1> QED
  BY <1>1, <1>2, <1>3, <1>4, <1>5 DEF Ends

LEMMA Primitives ==
  /\ Start \in Ops /\ Restart \in Ops /\ Stop \in Ops
  /\ Start.op = "start" /\ Restart.op = "restart" /\ Stop.op = "stop"
  /\ \A b \in Bytes : /\ Put(b) \in Ops /\ PutPlain(b) \in Ops
                      /\ Put(b).op = "out" /\ PutPlain(b).op = "out"
  /\ \A f, s, bl, l \in BOOLEAN, use \in {"count", "data", "pec"} :
       /\ Get(f, s, bl, l, use) \in Ops
       /\ Get(f, s, bl, l, use).op = "in" /\ Get(f, s, bl, l, use).last = l
       /\ Get(f, s, bl, l, use).use = use
  /\ AddrW \in Bytes /\ AddrR \in Bytes /\ Cmd \in Bytes /\ PecOut \in Bytes
  /\ \A j \in Int : Out(j) \in Bytes
<1>2. AddrW \in Bytes /\ AddrR \in Bytes /\ Cmd \in Bytes /\ PecOut \in Bytes
      /\ \A j \in Int : Out(j) \in Bytes
  <2>1. AddrW \in Bytes /\ AddrR \in Bytes /\ Cmd \in Bytes /\ PecOut \in Bytes
    BY DEF AddrW, AddrR, Cmd, PecOut, B, Bytes
  <2>2. \A j \in Int : Out(j) \in Bytes
    BY DEF Out, B, Bytes
  <2> QED
    BY <2>1, <2>2
<1>3. /\ Start \in Ops /\ Restart \in Ops /\ Stop \in Ops
      /\ Start.op = "start" /\ Restart.op = "restart" /\ Stop.op = "stop"
  BY DEF Ops, Start, Restart, Stop
<1>4. ASSUME NEW b \in Bytes
      PROVE  /\ Put(b) \in Ops /\ PutPlain(b) \in Ops
             /\ Put(b).op = "out" /\ PutPlain(b).op = "out"
  <2>1. Put(b) \in Outs /\ PutPlain(b) \in Outs
    BY DEF Outs, Put, PutPlain
  <2> QED
    BY <2>1 DEF Ops, Put, PutPlain
<1>5. ASSUME NEW f \in BOOLEAN, NEW s \in BOOLEAN, NEW bl \in BOOLEAN, NEW l \in BOOLEAN,
             NEW use \in {"count", "data", "pec"}
      PROVE  /\ Get(f, s, bl, l, use) \in Ops
             /\ Get(f, s, bl, l, use).op = "in" /\ Get(f, s, bl, l, use).last = l
             /\ Get(f, s, bl, l, use).use = use
  <2>1. Get(f, s, bl, l, use) \in Ins
    BY DEF Ins, Get
  <2> QED
    BY <2>1 DEF Ops, Get
<1> QED
  BY <1>2, <1>3, <1>4, <1>5

\* Programs, and parts of them.
IsProgram(s, k) == s \in Seq(Ops) /\ s # << >> /\ FirstOnly(s) /\ Ends(s, k)
IsEnd(s, k) == s \in Seq(Ops) /\ NoStart(s) /\ Ends(s, k)
IsBegin(s) == s \in Seq(Ops) /\ s # << >> /\ FirstOnly(s)
IsPart(s) == s \in Seq(Ops) /\ NoStart(s)

LEMMA Composed ==
  ASSUME NEW s, NEW t, NEW k
  PROVE  /\ IsBegin(s) /\ IsEnd(t, k) => IsProgram(s \o t, k)
         /\ IsBegin(s) /\ IsPart(t) => IsBegin(s \o t)
         /\ IsPart(s) /\ IsEnd(t, k) => IsEnd(s \o t, k)
<1>1. ASSUME IsBegin(s), IsEnd(t, k) PROVE IsProgram(s \o t, k)
  <2>1. s \in Seq(Ops) /\ t \in Seq(Ops) /\ s # << >> /\ FirstOnly(s) /\ NoStart(t)
        /\ Ends(t, k)
    BY <1>1 DEF IsBegin, IsEnd
  <2>2. s \o t \in Seq(Ops) /\ FirstOnly(s \o t) /\ Ends(s \o t, k)
    BY <2>1, Joined
  <2> QED
    BY <2>2 DEF IsProgram, Ends
<1>2. ASSUME IsBegin(s), IsPart(t) PROVE IsBegin(s \o t)
  <2>1. s \in Seq(Ops) /\ t \in Seq(Ops) /\ s # << >> /\ FirstOnly(s) /\ NoStart(t)
    BY <1>2 DEF IsBegin, IsPart
  <2>2. s \o t \in Seq(Ops) /\ FirstOnly(s \o t)
    BY <2>1, Joined
  <2>3. s \o t # << >>
    BY <2>1
  <2> QED
    BY <2>2, <2>3 DEF IsBegin
<1>3. ASSUME IsPart(s), IsEnd(t, k) PROVE IsEnd(s \o t, k)
  BY <1>3, Joined DEF IsPart, IsEnd
<1> QED
  BY <1>1, <1>2, <1>3

LEMMA Pieces ==
  ASSUME NEW k
  PROVE  /\ IsBegin(Select) /\ IsBegin(ReadFrom)
         /\ IsEnd(<<Stop>>, k)
         /\ IsPart(OnlyIf(pec_enabled, <<PutPlain(PecOut)>>))
<1>1. IsBegin(Select)
  BY Primitives DEF Select, IsBegin, FirstOnly
<1>2. IsPart(<<Restart, Put(AddrR)>>)
  BY Primitives DEF IsPart, NoStart
<1>3. IsBegin(ReadFrom)
  BY <1>1, <1>2, Composed DEF ReadFrom
<1>4. IsEnd(<<Stop>>, k)
  BY Primitives DEF IsEnd, NoStart, Ends, Releases
<1>5. IsPart(OnlyIf(pec_enabled, <<PutPlain(PecOut)>>))
  BY Primitives DEF IsPart, NoStart, OnlyIf
<1> QED
  BY <1>1, <1>3, <1>4, <1>5

\* Bytes sent one after another.
LEMMA Outputs ==
  ASSUME NEW m \in Nat, NEW f \in [1..m -> Int]
  PROVE  IsPart([i \in 1..m |-> Put(Out(f[i]))]) /\ IsPart([i \in 1..m |-> PutPlain(Out(f[i]))])
<1> DEFINE s == [i \in 1..m |-> Put(Out(f[i]))]
           t == [i \in 1..m |-> PutPlain(Out(f[i]))]
<1>1. \A i \in 1..m : /\ Put(Out(f[i])) \in Ops /\ Put(Out(f[i])).op # "start"
                      /\ PutPlain(Out(f[i])) \in Ops /\ PutPlain(Out(f[i])).op # "start"
  BY Primitives
<1>2. s \in Seq(Ops) /\ Len(s) = m /\ t \in Seq(Ops) /\ Len(t) = m
  BY <1>1
<1>3. NoStart(s) /\ NoStart(t)
  BY <1>1, <1>2 DEF NoStart
<1> QED
  BY <1>2, <1>3 DEF IsPart

LEMMA Headed ==
  ASSUME NEW h \in Ops, NEW t \in Seq(Ops)
  PROVE  /\ <<h>> \o t \in Seq(Ops) /\ Len(<<h>> \o t) = 1 + Len(t) /\ Len(t) \in Nat
         /\ (<<h>> \o t)[1] = h
         /\ \A j \in 1..Len(<<h>> \o t) : j > 1 => (<<h>> \o t)[j] = t[j - 1]
<1>1. <<h>> \in Seq(Ops) /\ Len(<<h>>) = 1 /\ <<h>>[1] = h
  OBVIOUS
<1> QED
  BY <1>1

\* The block read loop, byte by byte.
LEMMA BlockReadsAre ==
  ASSUME NEW k \in 0..ByteMax
  PROVE  LET r == BlockReads(k)
             blocklen == (k + 2) % (ByteMax + 1)
         IN  /\ r \in Seq(Ops) /\ Len(r) = IF blocklen = 0 THEN 1 ELSE blocklen
             /\ r[1] = Get(TRUE, FALSE, FALSE, FALSE, "count")
             /\ \A j \in 2..Len(r) :
                  /\ r[j].op = "in" /\ ~r[j].first /\ ~r[j].single
                  /\ r[j].use = IF j = blocklen THEN "pec" ELSE "data"
                  /\ r[j].last = (j = blocklen) /\ r[j].before = (j = blocklen - 1)
<1> DEFINE blocklen == (k + 2) % (ByteMax + 1)
           h == Get(TRUE, FALSE, FALSE, FALSE, "count")
           first == <<h>>
           rd(i) == Get(FALSE, FALSE, BeforeLast(i, blocklen), i = blocklen - 1,
                        IF i = blocklen - 1 THEN "pec" ELSE "data")
           rest == [i \in 1..(blocklen - 1) |-> rd(i)]
<1>1. BlockReads(k) = first \o rest
  BY DEF BlockReads
<1>2. blocklen \in Nat
  BY CommandsAssumption
<1>3. h \in Ops /\ h.op = "in" /\ h.use = "count" /\ ~h.single /\ ~h.before /\ ~h.last
  BY DEF Get, Ins, Ops
<1> HIDE DEF h
<1> HIDE DEF first, blocklen
<1>5. \A i \in 1..(blocklen - 1) :
        /\ rd(i) \in Ops /\ rd(i).op = "in" /\ ~rd(i).first /\ ~rd(i).single
        /\ rd(i).use = IF i = blocklen - 1 THEN "pec" ELSE "data"
        /\ rd(i).last = (i = blocklen - 1) /\ rd(i).before = (i = blocklen - 2)
  <2> SUFFICES ASSUME NEW i \in 1..(blocklen - 1)
               PROVE  /\ rd(i) \in Ops /\ rd(i).op = "in" /\ ~rd(i).first /\ ~rd(i).single
                      /\ rd(i).use = IF i = blocklen - 1 THEN "pec" ELSE "data"
                      /\ rd(i).last = (i = blocklen - 1) /\ rd(i).before = (i = blocklen - 2)
    OBVIOUS
  <2>1. rd(i).op = "in" /\ ~rd(i).first /\ ~rd(i).single
        /\ rd(i).use = (IF i = blocklen - 1 THEN "pec" ELSE "data")
        /\ rd(i).last = (i = blocklen - 1) /\ rd(i).before = (i = blocklen - 2)
    BY DEF Get, BeforeLast
  <2>2. BeforeLast(i, blocklen) \in BOOLEAN /\ (i = blocklen - 1) \in BOOLEAN
    BY DEF BeforeLast
  <2>3. (IF i = blocklen - 1 THEN "pec" ELSE "data") \in {"count", "data", "pec"}
    OBVIOUS
  <2>4. rd(i) \in Ops
    BY <2>2, <2>3 DEF Get, Ins, Ops
  <2> QED
    BY <2>1, <2>4
<1> HIDE DEF rd
<1>6. /\ rest \in Seq(Ops) /\ Len(rest) \in Nat
      /\ blocklen = 0 => Len(rest) = 0
      /\ blocklen > 0 => Len(rest) = blocklen - 1
  <2>1. CASE blocklen > 0
    <3>1. rest \in Seq(Ops) /\ Len(rest) = blocklen - 1
      BY <1>2, <1>5, <2>1
    <3> QED
      BY <1>2, <2>1, <3>1
  <2>2. CASE blocklen = 0
    <3>1. rest = << >>
      BY <2>2
    <3> QED
      BY <2>2, <3>1
  <2> HIDE DEF rest
  <2> QED
    BY <1>2, <2>1, <2>2
<1>7. \A i \in 1..Len(rest) : i \in 1..(blocklen - 1) /\ rest[i] = rd(i)
  <2>1. \A i \in 1..Len(rest) : i \in 1..(blocklen - 1)
    <3> HIDE DEF rest
    <3> QED
      BY <1>2, <1>6
  <2> QED
    BY <2>1
<1> HIDE DEF rest
<1> DEFINE r == BlockReads(k)
<1>8. r \in Seq(Ops) /\ Len(r) = 1 + Len(rest)
      /\ r[1] = h /\ \A j \in 1..Len(r) : j > 1 => r[j] = rest[j - 1]
  <2>1. rest \in Seq(Ops)
    BY <1>6
  <2> QED
    BY <1>1, <1>3, <2>1, Headed DEF first
<1> HIDE DEF r
<1>9. \A j \in 1..Len(r) : j > 1 => j - 1 \in 1..Len(rest) /\ r[j] = rd(j - 1)
  BY <1>6, <1>7, <1>8
<1>10. Len(r) = IF blocklen = 0 THEN 1 ELSE blocklen
  BY <1>2, <1>6, <1>8
<1>11. ASSUME NEW j \in 2..Len(r)
       PROVE  /\ r[j].op = "in" /\ ~r[j].first /\ ~r[j].single
              /\ r[j].use = (IF j = blocklen THEN "pec" ELSE "data")
              /\ r[j].last = (j = blocklen) /\ r[j].before = (j = blocklen - 1)
  <2>1. j - 1 \in 1..(blocklen - 1) /\ r[j] = rd(j - 1)
    BY <1>6, <1>7, <1>8, <1>9
  <2>2. (j - 1 = blocklen - 1) = (j = blocklen) /\ (j - 1 = blocklen - 2) = (j = blocklen - 1)
    BY <1>2, <2>1
  <2> QED
    BY <1>5, <2>1, <2>2
<1> QED
  BY <1>8, <1>10, <1>11 DEF h, r, blocklen

\* The block read loop: its last byte is read with the STOP, or the count is
\* refused and there is no other byte.
LEMMA BlockReadsEnd ==
  ASSUME NEW k \in 0..ByteMax, k # ByteMax - 1
  PROVE  IsEnd(BlockReads(k), k)
<1> DEFINE r == BlockReads(k)
           blocklen == (k + 2) % (ByteMax + 1)
<1>1. ByteMax \in Nat /\ blocklen \in Nat
  BY CommandsAssumption
<1>2. /\ r \in Seq(Ops) /\ Len(r) = IF blocklen = 0 THEN 1 ELSE blocklen
      /\ r[1] = Get(TRUE, FALSE, FALSE, FALSE, "count")
      /\ \A j \in 2..Len(r) : r[j].op = "in" /\ r[j].last = (j = blocklen)
  BY BlockReadsAre
<1>8. /\ Len(r) \in Nat /\ Len(r) >= 1 /\ (blocklen >= 1 => Len(r) = blocklen)
      /\ blocklen = 0 => Len(r) = 1
  BY <1>1, <1>2
<1>3. r[1].op = "in" /\ r[1].use = "count"
  BY <1>2 DEF Get
<1>4. blocklen <= 1 => k = ByteMax
  <2>1. k < ByteMax - 1 => blocklen = k + 2
    BY <1>1
  <2> QED
    BY <1>1, <2>1
<1> HIDE DEF r, blocklen
<1>5. NoStart(r)
  <2> SUFFICES ASSUME NEW j \in 1..Len(r) PROVE r[j].op # "start"
    BY DEF NoStart
  <2>1. j = 1 \/ j \in 2..Len(r)
    BY <1>8
  <2> QED
    BY <1>2, <1>3, <2>1
<1>6. r # << >> /\ Len(r) \in 1..Len(r)
  BY <1>2, <1>8
<1>7. Releases(r[Len(r)], k)
  <2>1. CASE blocklen <= 1
    <3>1. Len(r) = 1
      BY <1>1, <1>8, <2>1
    <3> QED
      BY <1>3, <1>4, <2>1, <3>1 DEF Releases
  <2>2. CASE blocklen >= 2
    <3>1. Len(r) = blocklen /\ Len(r) \in 2..Len(r)
      BY <1>1, <1>8, <2>2
    <3> QED
      BY <1>2, <3>1 DEF Releases
  <2> QED
    BY <1>1, <2>1, <2>2
<1> QED
  BY <1>2, <1>5, <1>6, <1>7 DEF IsEnd, Ends, r

\* The bytes read by READ_BYTE and READ_WORD.
LEMMA Gets ==
  ASSUME NEW f \in BOOLEAN, NEW s \in BOOLEAN, NEW b \in BOOLEAN, NEW l \in BOOLEAN,
         NEW use \in {"count", "data", "pec"}
  PROVE  LET g == Get(f, s, b, l, use)
         IN  g \in Ops /\ g.op = "in" /\ g.last = l
BY DEF Get, Ins, Ops

LEMMA ReadsEnd ==
  ASSUME NEW k, NEW h \in Ops, h.op = "in", h.last
  PROVE  /\ IsEnd(<<h>>, k)
         /\ \A g \in Ops : g.op = "in" => IsEnd(<<g, h>>, k)
         /\ \A f, g \in Ops : f.op = "in" /\ g.op = "in" => IsEnd(<<f, g, h>>, k)
BY DEF IsEnd, NoStart, Ends, Releases

LEMMA WritesEnd ==
  ASSUME NEW k, NEW puts, IsPart(puts)
  PROVE  IsProgram(WriteOf(puts), k)
<1>1. IsBegin(Select \o puts)
  BY Pieces, Composed
<1>2. IsBegin(Select \o puts \o OnlyIf(pec_enabled, <<PutPlain(PecOut)>>))
  BY <1>1, Pieces, Composed
<1> QED
  BY <1>2, Pieces, Composed DEF WriteOf

\* Every command's program gives the bus back.
LEMMA Programs ==
  ASSUME pec_enabled \in BOOLEAN, NEW c \in AllCommands,
         NEW k \in 0..ByteMax, c = "READ_BLOCK" => k # ByteMax - 1
  PROVE  IsProgram(Program(c, k), k)
<1>1. CASE c = "SEND_BYTE"
  <2>1. IsBegin(<<Start, PutPlain(AddrW), PutPlain(Cmd)>>)
    BY Primitives DEF IsBegin, FirstOnly
  <2>2. Program(c, k) = <<Start, PutPlain(AddrW), PutPlain(Cmd)>> \o <<Stop>>
    BY <1>1 DEF Program
  <2> QED
    BY <2>1, <2>2, Pieces, Composed
<1>2. CASE c = "READ_BYTE"
  <2>1. CASE pec_enabled
    <3> DEFINE g == Get(TRUE, FALSE, TRUE, FALSE, "data")
               h == Get(FALSE, FALSE, FALSE, TRUE, "pec")
    <3>1. g \in Ops /\ g.op = "in" /\ h \in Ops /\ h.op = "in" /\ h.last
      BY Gets
    <3>2. Program(c, k) = ReadFrom \o <<g, h>>
      BY <1>2, <2>1 DEF Program
    <3> HIDE DEF g, h
    <3>3. IsEnd(<<g, h>>, k)
      BY <3>1, ReadsEnd
    <3> QED
      BY <3>2, <3>3, Pieces, Composed
  <2>2. CASE ~pec_enabled
    <3> DEFINE h == Get(TRUE, TRUE, FALSE, TRUE, "data")
    <3>1. h \in Ops /\ h.op = "in" /\ h.last
      BY Gets
    <3>2. Program(c, k) = ReadFrom \o <<h>>
      BY <1>2, <2>2 DEF Program
    <3> HIDE DEF h
    <3>3. IsEnd(<<h>>, k)
      BY <3>1, ReadsEnd
    <3> QED
      BY <3>2, <3>3, Pieces, Composed
  <2> QED
    BY <2>1, <2>2
<1>3. CASE c = "READ_WORD"
  <2>1. CASE pec_enabled
    <3> DEFINE f == Get(TRUE, FALSE, FALSE, FALSE, "data")
               g == Get(FALSE, FALSE, TRUE, FALSE, "data")
               h == Get(FALSE, FALSE, FALSE, TRUE, "pec")
    <3>1. f \in Ops /\ f.op = "in" /\ g \in Ops /\ g.op = "in" /\ h \in Ops /\ h.op = "in" /\ h.last
      BY Gets
    <3>2. Program(c, k) = ReadFrom \o <<f, g, h>>
      BY <1>3, <2>1 DEF Program
    <3> HIDE DEF f, g, h
    <3>3. IsEnd(<<f, g, h>>, k)
      BY <3>1, ReadsEnd
    <3> QED
      BY <3>2, <3>3, Pieces, Composed
  <2>2. CASE ~pec_enabled
    <3> DEFINE g == Get(TRUE, FALSE, TRUE, FALSE, "data")
               h == Get(FALSE, FALSE, FALSE, TRUE, "data")
    <3>1. g \in Ops /\ g.op = "in" /\ h \in Ops /\ h.op = "in" /\ h.last
      BY Gets
    <3>2. Program(c, k) = ReadFrom \o <<g, h>>
      BY <1>3, <2>2 DEF Program
    <3> HIDE DEF g, h
    <3>3. IsEnd(<<g, h>>, k)
      BY <3>1, ReadsEnd
    <3> QED
      BY <3>2, <3>3, Pieces, Composed
  <2> QED
    BY <2>1, <2>2
<1>4. CASE c = "READ_BLOCK"
  <2>1. Program(c, k) = ReadFrom \o BlockReads(k)
    BY <1>4 DEF Program
  <2> QED
    BY <1>4, <2>1, Pieces, Composed, BlockReadsEnd
<1>5. CASE c = "WRITE_BYTE"
  <2>1. IsPart(<<Put(Out(1))>>)
    BY Primitives DEF IsPart, NoStart
  <2>2. Program(c, k) = WriteOf(<<Put(Out(1))>>)
    BY <1>5 DEF Program
  <2> QED
    BY <2>1, <2>2, WritesEnd
<1>6. CASE c = "WRITE_WORD"
  <2>1. IsPart(<<Put(Out(1)), Put(Out(2))>>)
    BY Primitives DEF IsPart, NoStart
  <2>2. Program(c, k) = WriteOf(<<Put(Out(1)), Put(Out(2))>>)
    BY <1>6 DEF Program
  <2> QED
    BY <2>1, <2>2, WritesEnd
<1>7. CASE c = "WRITE_BLOCK"
  <2> DEFINE f == [i \in 1..(k + 1) |-> i - 1]
  <2>1. k + 1 \in Nat /\ f \in [1..(k + 1) -> Int]
    BY CommandsAssumption
  <2>2. IsPart([i \in 1..(k + 1) |-> Put(Out(f[i]))])
    <3> HIDE DEF f
    <3> QED
      BY <2>1, Outputs
  <2>3. [i \in 1..(k + 1) |-> Put(Out(f[i]))] = [i \in 1..(k + 1) |-> Put(Out(i - 1))]
    OBVIOUS
  <2>4. Program(c, k) = WriteOf([i \in 1..(k + 1) |-> Put(Out(i - 1))])
    BY <1>7 DEF Program
  <2> QED
    BY <2>2, <2>3, <2>4, WritesEnd
<1>8. CASE c = "TEST_ADDRESS_ACK"
  <2>1. IsBegin(<<Start, PutPlain(AddrW)>>)
    BY Primitives DEF IsBegin, FirstOnly
  <2>2. Program(c, k) = <<Start, PutPlain(AddrW)>> \o <<Stop>>
    BY <1>8 DEF Program
  <2> QED
    BY <2>1, <2>2, Pieces, Composed
<1>9. CASE c = "TEST_COMMAND_ACK"
  <2>1. IsBegin(<<Start, PutPlain(AddrW), PutPlain(Cmd)>>)
    BY Primitives DEF IsBegin, FirstOnly
  <2>2. Program(c, k) = <<Start, PutPlain(AddrW), PutPlain(Cmd)>> \o <<Stop>>
    BY <1>9 DEF Program
  <2> QED
    BY <2>1, <2>2, Pieces, Composed
<1>10. CASE c = "TEST_COMMAND_WRITE"
  <2> DEFINE f == [i \in 1..5 |-> i]
  <2>1. IsBegin(<<Start, PutPlain(AddrW), PutPlain(Cmd)>>)
    BY Primitives DEF IsBegin, FirstOnly
  <2>2. f \in [1..5 -> Int]
    OBVIOUS
  <2>3. IsPart([i \in 1..5 |-> PutPlain(Out(f[i]))])
    <3> HIDE DEF f
    <3> QED
      BY <2>2, Outputs
  <2>4. [i \in 1..5 |-> PutPlain(Out(f[i]))] = [i \in 1..5 |-> PutPlain(Out(i))]
    OBVIOUS
  <2>5. Program(c, k) = <<Start, PutPlain(AddrW), PutPlain(Cmd)>>
                          \o [i \in 1..5 |-> PutPlain(Out(i))] \o <<Stop>>
    BY <1>10 DEF Program
  <2>6. IsBegin(<<Start, PutPlain(AddrW), PutPlain(Cmd)>> \o [i \in 1..5 |-> PutPlain(Out(i))])
    BY <2>1, <2>3, <2>4, Composed
  <2> QED
    BY <2>5, <2>6, Pieces, Composed
<1> QED
  BY <1>1, <1>2, <1>3, <1>4, <1>5, <1>6, <1>7, <1>8, <1>9, <1>10 DEF AllCommands

-----------------------------------------------------------------------------
(* The invariant                                                            *)

LEMMA InitIInv ==
  ASSUME Init
  PROVE  IInv
<1>1. << >> \in Seq(Ops) /\ 0 \in 0..ByteMax
  BY CommandsAssumption
<1> QED
  BY <1>1 DEF Init, BusInit, IInv, Types, Released

\* Going on with the rest of the program, when nothing more than the bus changes.
LEMMA Advances ==
  ASSUME IInv, todo # << >>, result = "busy", Advance, owned' \in BOOLEAN,
         UNCHANGED <<n, pec_enabled>>, Releases(Head(todo), n) => ~owned'
  PROVE  IInv'
<1>1. todo \in Seq(Ops) /\ FirstOnly(todo) /\ Ends(todo, n)
  BY DEF IInv, Types, Released
<1>2. /\ Tail(todo) \in Seq(Ops) /\ FirstOnly(Tail(todo))
      /\ Tail(todo) # << >> => Ends(Tail(todo), n) /\ Head(Tail(todo)).op # "start"
      /\ Tail(todo) = << >> => ~owned'
  BY <1>1, Rest
<1>3. todo' = Tail(todo) /\ result' = "busy" /\ n' = n /\ pec_enabled' = pec_enabled
  BY DEF Advance
<1>4. Types'
  BY <1>2, <1>3 DEF IInv, Types
<1>5. Released'
  BY <1>2, <1>3 DEF Released
<1> QED
  BY <1>4, <1>5 DEF IInv

\* On the way out of a failure, a STOP is all there is to do.
LEMMA GivesUp ==
  ASSUME IInv, result = "busy", GiveUp, owned' \in BOOLEAN, UNCHANGED <<n, pec_enabled>>
  PROVE  IInv'
<1>1. todo' = <<Stop>> /\ result' = "busy" /\ n' = n /\ pec_enabled' = pec_enabled
  BY DEF GiveUp
<1>2. /\ <<Stop>> \in Seq(Ops) /\ <<Stop>> # << >> /\ FirstOnly(<<Stop>>) /\ Ends(<<Stop>>, n)
      /\ Head(<<Stop>>).op # "start"
  BY Primitives DEF FirstOnly, Ends, Releases
<1>3. Types'
  BY <1>1, <1>2 DEF IInv, Types
<1>4. Released'
  BY <1>1, <1>2 DEF Released
<1> QED
  BY <1>3, <1>4 DEF IInv

\* The handler is done, and the bus is free.
LEMMA Returns ==
  ASSUME IInv, NEW r \in {"none", "ok", "stall"}, Return(r), owned' = FALSE,
         UNCHANGED <<n, pec_enabled>>
  PROVE  IInv'
<1>1. todo' = << >> /\ result' = r /\ << >> \in Seq(Ops)
  BY DEF Return
<1> QED
  BY <1>1 DEF IInv, Types, Released

\* The SETUP packets that come: one of the commands, with a count that does not wrap.
LEMMA Entered ==
  ASSUME ByteMax - 1 \notin Counts, Enter
  PROVE  \E c \in AllCommands, k \in 0..ByteMax :
           handle_vendorcommand(c, k) /\ (c = "READ_BLOCK" => k # ByteMax - 1)
<1> USE CommandsAssumption
<1>1. CASE \E c \in Commands \ {"READ_BLOCK", "WRITE_BLOCK"} : handle_vendorcommand(c, 0)
  BY <1>1
<1>2. CASE "READ_BLOCK" \in Commands /\ \E k \in Counts : handle_vendorcommand("READ_BLOCK", k)
  BY <1>2
<1>3. CASE "WRITE_BLOCK" \in Commands /\ \E k \in Lens : handle_vendorcommand("WRITE_BLOCK", k)
  BY <1>3
<1> QED
  BY <1>1, <1>2, <1>3 DEF Enter

\* A count of ByteMax - 1 leaves the loop nothing to read: the bus is kept.
LEMMA Step ==
  ASSUME ByteMax - 1 \notin Counts, IInv, [Next]_vars
  PROVE  IInv'
<1> USE CommandsAssumption
<1>1. ASSUME NEW c \in AllCommands, NEW k \in 0..ByteMax,
             c = "READ_BLOCK" => k # ByteMax - 1, handle_vendorcommand(c, k)
      PROVE  IInv'
  <2>1. IsProgram(Program(c, k), k)
    BY <1>1, Programs DEF IInv, Types
  <2>2. /\ todo' = Program(c, k) /\ n' = k /\ result' = "busy" /\ owned' = owned /\ ~owned
        /\ pec_enabled' = pec_enabled
    BY <1>1 DEF handle_vendorcommand, IInv, Released
  <2>3. Types'
    BY <2>1, <2>2 DEF IInv, Types, IsProgram
  <2>4. Released'
    BY <2>1, <2>2 DEF Released, IsProgram
  <2> QED
    BY <2>3, <2>4 DEF IInv
<1>2. CASE Enter
  <2>1. PICK c \in AllCommands, k \in 0..ByteMax :
          handle_vendorcommand(c, k) /\ (c = "READ_BLOCK" => k # ByteMax - 1)
    BY <1>2, Entered
  <2> QED
    BY <1>1, <2>1
<1>3. CASE EnablePEC
  BY <1>3 DEF EnablePEC, busVars, IInv, Types, Released
<1>4. CASE Starts
  <2>1. todo # << >> /\ result = "busy" /\ Advance /\ owned' \in BOOLEAN
        /\ UNCHANGED <<n, pec_enabled>> /\ ~Releases(Head(todo), n)
    BY <1>4 DEF Starts, At, i2c_start, Releases
  <2> QED
    BY <2>1, Advances
<1>5. CASE StartFails
  <2>1. Return("stall") /\ owned' = FALSE /\ UNCHANGED <<n, pec_enabled>>
    BY <1>5 DEF StartFails, At, busVars, i2c_stop, IInv, Types, Released
  <2> QED
    BY <2>1, Returns
<1>6. CASE Restarts
  <2>1. todo # << >> /\ result = "busy" /\ Advance /\ owned' \in BOOLEAN
        /\ UNCHANGED <<n, pec_enabled>> /\ ~Releases(Head(todo), n)
    BY <1>6 DEF Restarts, At, i2c_restart, i2c_start, Releases
  <2> QED
    BY <2>1, Advances
<1>7. CASE OutAcked
  <2>1. todo # << >> /\ result = "busy" /\ Advance /\ owned' \in BOOLEAN
        /\ UNCHANGED <<n, pec_enabled>> /\ ~Releases(Head(todo), n)
    BY <1>7 DEF OutAcked, At, ByteOutAck, Releases, IInv, Types
  <2> QED
    BY <2>1, Advances
<1>8. CASE OutFails
  <2>1. result = "busy" /\ GiveUp /\ owned' \in BOOLEAN /\ UNCHANGED <<n, pec_enabled>>
    BY <1>8 DEF OutFails, At, ByteOutNak, ByteOutTimeout, i2c_stop, IInv, Types
  <2> QED
    BY <2>1, GivesUp
<1>9. CASE Stops
  <2>1. /\ Return(IF failing THEN "stall" ELSE "ok") /\ owned' = FALSE
        /\ UNCHANGED <<n, pec_enabled>>
    BY <1>9 DEF Stops, i2c_stop
  <2> QED
    BY <2>1, Returns
<1>10. CASE InRead
  <2>1. /\ todo # << >> /\ result = "busy" /\ Head(todo).op = "in"
        /\ UNCHANGED <<n, pec_enabled>>
    BY <1>10 DEF InRead, At
  <2>2. owned' \in BOOLEAN /\ (Head(todo).last => ~owned')
    BY <1>10 DEF InRead, ByteIn
  <2>3. CASE Head(todo).use = "count" /\ n \in {0, ByteMax}
    <3>1. GiveUp
      BY <1>10, <2>3 DEF InRead
    <3> QED
      BY <2>1, <2>2, <3>1, GivesUp
  <2>4. CASE ~(Head(todo).use = "count" /\ n \in {0, ByteMax})
    <3>1. Advance
      BY <1>10, <2>4 DEF InRead
    <3>2. Releases(Head(todo), n) => ~owned'
      BY <2>1, <2>2, <2>4 DEF Releases
    <3> QED
      BY <2>1, <2>2, <3>1, <3>2, Advances
  <2> QED
    BY <2>3, <2>4
<1>11. CASE InTimesOut
  <2>1. /\ todo # << >> /\ result = "busy" /\ owned' = FALSE /\ UNCHANGED <<n, pec_enabled>>
        /\ GiveUp \/ Advance
    BY <1>11 DEF InTimesOut, At, ByteInTimeout, i2c_stop
  <2> QED
    BY <2>1, Advances, GivesUp
<1>12. CASE ReadEnds
  <2>1. PICK r \in {"ok", "stall"} : Return(r)
    BY <1>12 DEF ReadEnds
  <2>2. owned' = FALSE /\ UNCHANGED <<n, pec_enabled>>
    BY <1>12 DEF ReadEnds, busVars, i2c_stop, IInv, Types, Released
  <2> QED
    BY <2>1, <2>2, Returns
<1>13. CASE UNCHANGED vars
  BY <1>13 DEF vars, busVars, cmdVars, IInv, Types, Released
<1> QED
  BY <1>2, <1>3, <1>4, <1>5, <1>6, <1>7, <1>8, <1>9, <1>10, <1>11, <1>12, <1>13
  DEF Next, Primitive

\* What is still to do always gives the bus back.
THEOREM Invariance ==
  ASSUME ByteMax - 1 \notin Counts
  PROVE  Spec => []IInv
<1>1. Init => IInv
  BY InitIInv
<1>2. IInv /\ [Next]_vars => IInv'
  BY Step
<1> QED
  BY <1>1, <1>2, PTL DEF Spec

\* When a handler is done, in success or failure and wherever it failed, the bus is free
\* again, for blocks of any length.
THEOREM BusIsReleased ==
  ASSUME ByteMax - 1 \notin Counts
  PROVE  Spec => []BusReleased
<1>1. IInv => BusReleased
  BY DEF IInv, Types, Released, BusReleased
<1> QED
  BY <1>1, Invariance, PTL

-----------------------------------------------------------------------------
(* The wire                                                                 *)

WireBytes == [role : {"addrW", "addrR", "cmd", "out", "pec", "dev", "zero"}, i : Int]
Events == {START, RESTART, STOP} \cup [ev : {"out", "in"}, b : WireBytes, ack : BOOLEAN]

Values ==
  /\ wire \in Seq(Events) /\ bytes \in Seq(WireBytes)
  /\ i2dat \in WireBytes /\ clocked \in Nat /\ lastrd \in BOOLEAN
  /\ cmd \in AllCommands /\ pec \in Seq(WireBytes) /\ rpec \in WireBytes
  /\ ep0buf \in Seq(WireBytes)
  /\ failing \in BOOLEAN /\ sound \in BOOLEAN /\ faulty \in BOOLEAN

\* A restart comes before anything is read or stopped; the byte that is
\* announced as the last one is followed by the last one.
Orderly(s) ==
  \A j \in 1..Len(s) :
    /\ s[j].op = "restart" => \A i \in 1..(j - 1) : s[i].op \in {"start", "out", "restart"}
    /\ s[j].op = "in" =>
         /\ s[j].single => s[j].last
         /\ s[j].use = "count" => ~s[j].before /\ ~s[j].last
         /\ s[j].before => /\ j < Len(s) /\ s[j + 1].op = "in"
                           /\ s[j + 1].last /\ ~s[j + 1].first

\* What has just happened on the wire, and what may come next.
Refused(e) == e.ev \in {"out", "in"} /\ ~e.ack

Disciplined(w) ==
  \A k \in 1..(Len(w) - 1) : w[k].ev # "P" /\ (Refused(w[k]) => w[k + 1].ev = "P")

\* The bus is owned from a START to the STOP, or to the end of what can be
\* seen of it.
Owning ==
  /\ wire = << >> => ~owned
  /\ wire # << >> => (owned <=> wire[Len(wire)].ev # "P")

\* What is still to do: START if nothing has been done, a restart while the bus
\* is still held.
Ahead ==
  result = "busy" =>
    /\ Orderly(todo)
    /\ todo # << >> /\ Head(todo).op = "start" => wire = << >>
    /\ wire # << >> /\ (\E j \in 1..Len(todo) : todo[j].op = "restart") => owned

\* After a byte nobody acknowledged, only the STOP is left; after one that the
\* firmware refused, only the read that takes it.
Refusing ==
  owned /\ Refused(wire[Len(wire)]) =>
    /\ wire[Len(wire)].ev = "out" => todo = <<Stop>>
    /\ wire[Len(wire)].ev = "in" => lastrd

Announcing ==
  lastrd => /\ result = "busy" /\ todo # << >>
            /\ Head(todo).op = "in" /\ Head(todo).last /\ ~Head(todo).first

Wires == Disciplined(wire) /\ Owning /\ Ahead /\ Refusing /\ Announcing

JInv == IInv /\ Values /\ Wires

-----------------------------------------------------------------------------
(* Programs are orderly                                                     *)

Plain(s) == s \in Seq(Ops) /\ \A j \in 1..Len(s) : s[j].op \in {"start", "out", "restart"}

IsTail(s) == s \in Seq(Ops) /\ Orderly(s) /\ \A j \in 1..Len(s) : s[j].op # "restart"

LEMMA PlainJoined ==
  ASSUME NEW s, NEW t, Plain(s), Plain(t)
  PROVE  Plain(s \o t)
<1>1. s \o t \in Seq(Ops)
  BY DEF Plain
<1> QED
  BY <1>1 DEF Plain

LEMMA OrderlyJoined ==
  ASSUME NEW s, NEW t, Plain(s), IsTail(t)
  PROVE  Orderly(s \o t)
<1>1. /\ s \in Seq(Ops) /\ t \in Seq(Ops) /\ s \o t \in Seq(Ops)
      /\ Len(s \o t) = Len(s) + Len(t) /\ Len(s) \in Nat /\ Len(t) \in Nat
      /\ \A j \in 1..(Len(s) + Len(t)) :
           (s \o t)[j] = IF j <= Len(s) THEN s[j] ELSE t[j - Len(s)]
  BY DEF Plain, IsTail
<1> SUFFICES ASSUME NEW j \in 1..(Len(s) + Len(t))
             PROVE  LET r == s \o t IN
                    /\ r[j].op = "restart" =>
                         \A i \in 1..(j - 1) : r[i].op \in {"start", "out", "restart"}
                    /\ r[j].op = "in" =>
                         /\ r[j].single => r[j].last
                         /\ r[j].use = "count" => ~r[j].before /\ ~r[j].last
                         /\ r[j].before => /\ j < Len(s) + Len(t) /\ r[j + 1].op = "in"
                                           /\ r[j + 1].last /\ ~r[j + 1].first
  BY <1>1 DEF Orderly
<1>2. CASE j <= Len(s)
  <2>1. (s \o t)[j] = s[j] /\ s[j].op \in {"start", "out", "restart"}
    BY <1>1, <1>2 DEF Plain
  <2>2. \A i \in 1..(j - 1) : (s \o t)[i] = s[i] /\ s[i].op \in {"start", "out", "restart"}
    BY <1>1, <1>2 DEF Plain
  <2> QED
    BY <2>1, <2>2
<1>3. CASE j > Len(s)
  <2> DEFINE m == j - Len(s)
  <2>1. m \in 1..Len(t) /\ (s \o t)[j] = t[m]
    BY <1>1, <1>3
  <2>2. m < Len(t) => (s \o t)[j + 1] = t[m + 1]
    BY <1>1, <1>3
  <2>3. m < Len(t) <=> j < Len(s) + Len(t)
    BY <1>1
  <2> HIDE DEF m
  <2> QED
    BY <2>1, <2>2, <2>3 DEF IsTail, Orderly
<1> QED
  BY <1>1, <1>2, <1>3

LEMMA PlainPieces ==
  /\ Plain(Select) /\ Plain(ReadFrom)
  /\ IsTail(<<Stop>>)
  /\ Plain(OnlyIf(pec_enabled, <<PutPlain(PecOut)>>))
<1>1. Plain(Select)
  BY Primitives DEF Plain, Select
<1>2. Plain(<<Restart, Put(AddrR)>>)
  BY Primitives DEF Plain
<1>3. Plain(ReadFrom)
  BY <1>1, <1>2, PlainJoined DEF ReadFrom
<1>4. IsTail(<<Stop>>)
  BY Primitives DEF IsTail, Orderly
<1>5. Plain(OnlyIf(pec_enabled, <<PutPlain(PecOut)>>))
  BY Primitives DEF Plain, OnlyIf
<1> QED
  BY <1>1, <1>3, <1>4, <1>5

LEMMA PlainOutputs ==
  ASSUME NEW m \in Nat, NEW f \in [1..m -> Int]
  PROVE  Plain([i \in 1..m |-> Put(Out(f[i]))]) /\ Plain([i \in 1..m |-> PutPlain(Out(f[i]))])
<1>1. \A i \in 1..m : /\ Put(Out(f[i])) \in Ops /\ Put(Out(f[i])).op = "out"
                      /\ PutPlain(Out(f[i])) \in Ops /\ PutPlain(Out(f[i])).op = "out"
  BY Primitives
<1> QED
  BY <1>1 DEF Plain

LEMMA OrderlyWrite ==
  ASSUME NEW puts, Plain(puts)
  PROVE  Orderly(WriteOf(puts))
<1>1. Plain(Select \o puts)
  BY PlainPieces, PlainJoined
<1>2. Plain(Select \o puts \o OnlyIf(pec_enabled, <<PutPlain(PecOut)>>))
  BY <1>1, PlainPieces, PlainJoined
<1> QED
  BY <1>2, PlainPieces, OrderlyJoined DEF WriteOf

LEMMA OrderlyBlockReads ==
  ASSUME NEW k \in 0..ByteMax
  PROVE  IsTail(BlockReads(k))
<1> DEFINE r == BlockReads(k)
           blocklen == (k + 2) % (ByteMax + 1)
<1>1. blocklen \in Nat
  BY CommandsAssumption
<1>2. /\ r \in Seq(Ops) /\ Len(r) = IF blocklen = 0 THEN 1 ELSE blocklen
      /\ r[1] = Get(TRUE, FALSE, FALSE, FALSE, "count")
      /\ \A j \in 2..Len(r) :
           /\ r[j].op = "in" /\ ~r[j].first /\ ~r[j].single
           /\ r[j].use = IF j = blocklen THEN "pec" ELSE "data"
           /\ r[j].last = (j = blocklen) /\ r[j].before = (j = blocklen - 1)
  BY BlockReadsAre
<1>3. /\ r[1].op = "in" /\ r[1].use = "count" /\ ~r[1].single
      /\ ~r[1].before /\ ~r[1].last
  BY <1>2 DEF Get
<1> HIDE DEF r, blocklen
<1>4. \A j \in 1..Len(r) : j = 1 \/ j \in 2..Len(r)
  BY <1>1, <1>2
<1>5. Len(r) \in Nat /\ (Len(r) >= 2 => Len(r) = blocklen)
  BY <1>1, <1>2
<1>6. ASSUME NEW j \in 2..Len(r)
      PROVE  /\ r[j].op = "in" /\ ~r[j].first /\ ~r[j].single /\ r[j].use # "count"
             /\ r[j].last = (j = blocklen) /\ r[j].before = (j = blocklen - 1)
  BY <1>2
<1>7. \A j \in 1..Len(r) :
        /\ r[j].op = "in" /\ (r[j].single => r[j].last)
        /\ r[j].use = "count" => ~r[j].before /\ ~r[j].last
  BY <1>3, <1>4, <1>6
<1>8. ASSUME NEW j \in 1..Len(r), r[j].before
      PROVE  j < Len(r) /\ r[j + 1].op = "in" /\ r[j + 1].last /\ ~r[j + 1].first
  <2>1. j \in 2..Len(r)
    BY <1>3, <1>4, <1>8
  <2>2. j = blocklen - 1
    BY <1>6, <1>8, <2>1
  <2>3. j + 1 \in 2..Len(r) /\ j + 1 = blocklen /\ j < Len(r)
    BY <1>1, <1>5, <2>1, <2>2
  <2> DEFINE i == j + 1
  <2>4. i \in 2..Len(r) /\ i = blocklen
    BY <2>3
  <2> HIDE DEF i
  <2>5. r[i].op = "in" /\ r[i].last /\ ~r[i].first
    BY <1>6, <2>4
  <2> QED
    BY <2>3, <2>5 DEF i
<1> QED
  BY <1>2, <1>7, <1>8 DEF IsTail, Orderly, r

LEMMA OrderlyPrograms ==
  ASSUME pec_enabled \in BOOLEAN, NEW c \in AllCommands, NEW k \in 0..ByteMax
  PROVE  Orderly(Program(c, k))
<1>1. CASE c = "SEND_BYTE"
  <2>1. Plain(<<Start, PutPlain(AddrW), PutPlain(Cmd)>>)
    BY Primitives DEF Plain
  <2>2. Program(c, k) = <<Start, PutPlain(AddrW), PutPlain(Cmd)>> \o <<Stop>>
    BY <1>1 DEF Program
  <2> QED
    BY <2>1, <2>2, PlainPieces, OrderlyJoined
<1>2. CASE c = "READ_BYTE"
  <2>1. CASE pec_enabled
    <3> DEFINE g == Get(TRUE, FALSE, TRUE, FALSE, "data")
               h == Get(FALSE, FALSE, FALSE, TRUE, "pec")
    <3>1. /\ g \in Ops /\ g.op = "in" /\ ~g.single /\ g.use # "count"
          /\ h \in Ops /\ h.op = "in" /\ h.last /\ ~h.first /\ ~h.before /\ h.use # "count"
      BY DEF Get, Ins, Ops
    <3>2. Program(c, k) = ReadFrom \o <<g, h>>
      BY <1>2, <2>1 DEF Program
    <3> HIDE DEF g, h
    <3>3. IsTail(<<g, h>>)
      BY <3>1 DEF IsTail, Orderly
    <3> QED
      BY <3>2, <3>3, PlainPieces, OrderlyJoined
  <2>2. CASE ~pec_enabled
    <3> DEFINE h == Get(TRUE, TRUE, FALSE, TRUE, "data")
    <3>1. h \in Ops /\ h.op = "in" /\ h.last /\ ~h.before /\ h.use # "count"
      BY DEF Get, Ins, Ops
    <3>2. Program(c, k) = ReadFrom \o <<h>>
      BY <1>2, <2>2 DEF Program
    <3> HIDE DEF h
    <3>3. IsTail(<<h>>)
      BY <3>1 DEF IsTail, Orderly
    <3> QED
      BY <3>2, <3>3, PlainPieces, OrderlyJoined
  <2> QED
    BY <2>1, <2>2
<1>3. CASE c = "READ_WORD"
  <2>1. CASE pec_enabled
    <3> DEFINE f == Get(TRUE, FALSE, FALSE, FALSE, "data")
               g == Get(FALSE, FALSE, TRUE, FALSE, "data")
               h == Get(FALSE, FALSE, FALSE, TRUE, "pec")
    <3>1. /\ f \in Ops /\ f.op = "in" /\ ~f.single /\ ~f.before /\ f.use # "count"
          /\ g \in Ops /\ g.op = "in" /\ ~g.single /\ g.use # "count"
          /\ h \in Ops /\ h.op = "in" /\ h.last /\ ~h.first /\ ~h.before /\ h.use # "count"
      BY DEF Get, Ins, Ops
    <3>2. Program(c, k) = ReadFrom \o <<f, g, h>>
      BY <1>3, <2>1 DEF Program
    <3> HIDE DEF f, g, h
    <3>3. IsTail(<<f, g, h>>)
      BY <3>1 DEF IsTail, Orderly
    <3> QED
      BY <3>2, <3>3, PlainPieces, OrderlyJoined
  <2>2. CASE ~pec_enabled
    <3> DEFINE g == Get(TRUE, FALSE, TRUE, FALSE, "data")
               h == Get(FALSE, FALSE, FALSE, TRUE, "data")
    <3>1. /\ g \in Ops /\ g.op = "in" /\ ~g.single /\ g.use # "count"
          /\ h \in Ops /\ h.op = "in" /\ h.last /\ ~h.first /\ ~h.before /\ h.use # "count"
      BY DEF Get, Ins, Ops
    <3>2. Program(c, k) = ReadFrom \o <<g, h>>
      BY <1>3, <2>2 DEF Program
    <3> HIDE DEF g, h
    <3>3. IsTail(<<g, h>>)
      BY <3>1 DEF IsTail, Orderly
    <3> QED
      BY <3>2, <3>3, PlainPieces, OrderlyJoined
  <2> QED
    BY <2>1, <2>2
<1>4. CASE c = "READ_BLOCK"
  <2>1. Program(c, k) = ReadFrom \o BlockReads(k)
    BY <1>4 DEF Program
  <2> QED
    BY <2>1, PlainPieces, OrderlyJoined, OrderlyBlockReads
<1>5. CASE c = "WRITE_BYTE"
  <2>1. Plain(<<Put(Out(1))>>)
    BY Primitives DEF Plain
  <2> QED
    BY <1>5, <2>1, OrderlyWrite DEF Program
<1>6. CASE c = "WRITE_WORD"
  <2>1. Plain(<<Put(Out(1)), Put(Out(2))>>)
    BY Primitives DEF Plain
  <2> QED
    BY <1>6, <2>1, OrderlyWrite DEF Program
<1>7. CASE c = "WRITE_BLOCK"
  <2> DEFINE f == [i \in 1..(k + 1) |-> i - 1]
  <2>1. k + 1 \in Nat /\ f \in [1..(k + 1) -> Int]
    BY CommandsAssumption
  <2>2. Plain([i \in 1..(k + 1) |-> Put(Out(f[i]))])
    <3> HIDE DEF f
    <3> QED
      BY <2>1, PlainOutputs
  <2>3. [i \in 1..(k + 1) |-> Put(Out(f[i]))] = [i \in 1..(k + 1) |-> Put(Out(i - 1))]
    OBVIOUS
  <2>4. Program(c, k) = WriteOf([i \in 1..(k + 1) |-> Put(Out(i - 1))])
    BY <1>7 DEF Program
  <2> QED
    BY <2>2, <2>3, <2>4, OrderlyWrite
<1>8. CASE c = "TEST_ADDRESS_ACK"
  <2>1. Plain(<<Start, PutPlain(AddrW)>>)
    BY Primitives DEF Plain
  <2>2. Program(c, k) = <<Start, PutPlain(AddrW)>> \o <<Stop>>
    BY <1>8 DEF Program
  <2> QED
    BY <2>1, <2>2, PlainPieces, OrderlyJoined
<1>9. CASE c = "TEST_COMMAND_ACK"
  <2>1. Plain(<<Start, PutPlain(AddrW), PutPlain(Cmd)>>)
    BY Primitives DEF Plain
  <2>2. Program(c, k) = <<Start, PutPlain(AddrW), PutPlain(Cmd)>> \o <<Stop>>
    BY <1>9 DEF Program
  <2> QED
    BY <2>1, <2>2, PlainPieces, OrderlyJoined
<1>10. CASE c = "TEST_COMMAND_WRITE"
  <2> DEFINE f == [i \in 1..5 |-> i]
  <2>1. Plain(<<Start, PutPlain(AddrW), PutPlain(Cmd)>>)
    BY Primitives DEF Plain
  <2>2. f \in [1..5 -> Int]
    OBVIOUS
  <2>3. Plain([i \in 1..5 |-> PutPlain(Out(f[i]))])
    <3> HIDE DEF f
    <3> QED
      BY <2>2, PlainOutputs
  <2>4. [i \in 1..5 |-> PutPlain(Out(f[i]))] = [i \in 1..5 |-> PutPlain(Out(i))]
    OBVIOUS
  <2>5. Program(c, k) = <<Start, PutPlain(AddrW), PutPlain(Cmd)>>
                          \o [i \in 1..5 |-> PutPlain(Out(i))] \o <<Stop>>
    BY <1>10 DEF Program
  <2>6. Plain(<<Start, PutPlain(AddrW), PutPlain(Cmd)>> \o [i \in 1..5 |-> PutPlain(Out(i))])
    BY <2>1, <2>3, <2>4, PlainJoined
  <2> QED
    BY <2>5, <2>6, PlainPieces, OrderlyJoined
<1> QED
  BY <1>1, <1>2, <1>3, <1>4, <1>5, <1>6, <1>7, <1>8, <1>9, <1>10 DEF AllCommands

-----------------------------------------------------------------------------
(* Events on the wire                                                       *)

\* One more event.
LEMMA Extended ==
  ASSUME NEW w \in Seq(Events), NEW e \in Events, Disciplined(w),
         w # << >> => w[Len(w)].ev # "P" /\ (Refused(w[Len(w)]) => e.ev = "P")
  PROVE  /\ Append(w, e) \in Seq(Events) /\ Append(w, e) # << >>
         /\ Append(w, e)[Len(Append(w, e))] = e
         /\ Disciplined(Append(w, e))
<1> DEFINE x == Append(w, e)
<1>1. /\ x \in Seq(Events) /\ x # << >> /\ Len(x) = Len(w) + 1 /\ x[Len(w) + 1] = e
      /\ Len(w) \in Nat /\ \A k \in 1..Len(w) : x[k] = w[k]
  <2>1. x \in Seq(Events) /\ Len(x) = Len(w) + 1 /\ x[Len(w) + 1] = e /\ Len(w) \in Nat
    OBVIOUS
  <2>2. \A k \in 1..Len(w) : x[k] = w[k]
    OBVIOUS
  <2> HIDE DEF x
  <2>3. x # << >>
    BY <2>1
  <2> QED
    BY <2>1, <2>2, <2>3
<1> HIDE DEF x
<1>2. ASSUME NEW k \in 1..(Len(x) - 1)
      PROVE  x[k].ev # "P" /\ (Refused(x[k]) => x[k + 1].ev = "P")
  <2>1. CASE k < Len(w)
    <3>1. x[k] = w[k] /\ x[k + 1] = w[k + 1] /\ k \in 1..(Len(w) - 1)
      BY <1>1, <2>1
    <3> QED
      BY <3>1 DEF Disciplined
  <2>2. CASE k = Len(w)
    <3>1. w # << >>
      BY <1>1, <2>2
    <3>2. x[k] = w[Len(w)] /\ x[k + 1] = e
      BY <1>1, <2>2
    <3> QED
      BY <3>1, <3>2
  <2> QED
    BY <1>1, <2>1, <2>2
<1>3. Disciplined(x)
  BY <1>2 DEF Disciplined
<1> QED
  BY <1>1, <1>3 DEF x

LEMMA EventsOf ==
  /\ START \in Events /\ RESTART \in Events /\ STOP \in Events
  /\ START.ev = "S" /\ RESTART.ev = "Sr" /\ STOP.ev = "P"
  /\ \A b \in WireBytes, ack \in BOOLEAN :
       /\ Sent(b, ack) \in Events /\ Sent(b, ack).ev = "out" /\ Sent(b, ack).ack = ack
       /\ Read(b, ack) \in Events /\ Read(b, ack).ev = "in" /\ Read(b, ack).ack = ack
  /\ \A i \in Int : Dev(i) \in WireBytes
  /\ Zero \in WireBytes /\ Bytes \subseteq WireBytes
<1>1. ASSUME NEW b \in WireBytes, NEW ack \in BOOLEAN
      PROVE  /\ Sent(b, ack) \in Events /\ Sent(b, ack).ev = "out" /\ Sent(b, ack).ack = ack
             /\ Read(b, ack) \in Events /\ Read(b, ack).ev = "in" /\ Read(b, ack).ack = ack
  BY DEF Sent, Read, Events
<1>2. \A i \in Int : Dev(i) \in WireBytes
  BY DEF Dev, B, WireBytes
<1>3. Zero \in WireBytes /\ Bytes \subseteq WireBytes
  BY DEF Zero, B, WireBytes, Bytes
<1>4. /\ START \in Events /\ RESTART \in Events /\ STOP \in Events
      /\ START.ev = "S" /\ RESTART.ev = "Sr" /\ STOP.ev = "P"
  BY DEF Events, START, RESTART, STOP
<1> QED
  BY <1>1, <1>2, <1>3, <1>4

-----------------------------------------------------------------------------
(* The steps                                                                *)

LEMMA OrderlyTail ==
  ASSUME NEW s \in Seq(Ops), s # << >>, Orderly(s)
  PROVE  /\ Orderly(Tail(s))
         /\ (\E j \in 1..Len(Tail(s)) : Tail(s)[j].op = "restart") =>
              /\ Head(s).op \in {"start", "out", "restart"}
              /\ \E j \in 1..Len(s) : s[j].op = "restart"
         /\ Head(s).op = "in" =>
              /\ Head(s).single => Head(s).last
              /\ Head(s).use = "count" => ~Head(s).before /\ ~Head(s).last
              /\ Head(s).before => /\ Tail(s) # << >> /\ Head(Tail(s)).op = "in"
                                   /\ Head(Tail(s)).last /\ ~Head(Tail(s)).first
<1> DEFINE t == Tail(s)
<1>1. /\ t \in Seq(Ops) /\ Len(t) = Len(s) - 1 /\ Len(s) \in Nat /\ Len(s) > 0
      /\ Head(s) = s[1] /\ \A j \in 1..(Len(s) - 1) : t[j] = s[j + 1]
      /\ t # << >> => Head(t) = t[1]
  OBVIOUS
<1> HIDE DEF t
<1>2. Orderly(t)
  <2> SUFFICES ASSUME NEW j \in 1..Len(t)
               PROVE  /\ t[j].op = "restart" =>
                           \A i \in 1..(j - 1) : t[i].op \in {"start", "out", "restart"}
                      /\ t[j].op = "in" =>
                           /\ t[j].single => t[j].last
                           /\ t[j].use = "count" => ~t[j].before /\ ~t[j].last
                           /\ t[j].before => /\ j < Len(t) /\ t[j + 1].op = "in"
                                             /\ t[j + 1].last /\ ~t[j + 1].first
    BY DEF Orderly
  <2>1. j + 1 \in 1..Len(s) /\ t[j] = s[j + 1] /\ (j < Len(t) <=> j + 1 < Len(s))
        /\ (j < Len(t) => t[j + 1] = s[j + 2])
    BY <1>1
  <2>2. \A i \in 1..(j - 1) : i + 1 \in 1..j /\ t[i] = s[i + 1]
    BY <1>1
  <2>3. s[j + 1].op = "restart" => \A i \in 1..j : s[i].op \in {"start", "out", "restart"}
    BY <2>1 DEF Orderly
  <2>4. s[j + 1].op = "in" =>
          /\ s[j + 1].single => s[j + 1].last
          /\ s[j + 1].use = "count" => ~s[j + 1].before /\ ~s[j + 1].last
          /\ s[j + 1].before => /\ j + 1 < Len(s) /\ s[j + 2].op = "in"
                                /\ s[j + 2].last /\ ~s[j + 2].first
    BY <2>1 DEF Orderly
  <2> QED
    BY <2>1, <2>2, <2>3, <2>4
<1>3. ASSUME NEW j \in 1..Len(t), t[j].op = "restart"
      PROVE  /\ Head(s).op \in {"start", "out", "restart"}
             /\ \E i \in 1..Len(s) : s[i].op = "restart"
  <2>1. j + 1 \in 1..Len(s) /\ s[j + 1].op = "restart" /\ 1 \in 1..j
    BY <1>1, <1>3
  <2>2. s[1].op \in {"start", "out", "restart"}
    BY <2>1 DEF Orderly
  <2> QED
    BY <1>1, <2>1, <2>2
<1>4. ASSUME Head(s).op = "in"
      PROVE  /\ Head(s).single => Head(s).last
             /\ Head(s).use = "count" => ~Head(s).before /\ ~Head(s).last
             /\ Head(s).before => /\ t # << >> /\ Head(t).op = "in"
                                  /\ Head(t).last /\ ~Head(t).first
  <2>1. 1 \in 1..Len(s) /\ s[1].op = "in"
    BY <1>1, <1>4
  <2>2. /\ s[1].single => s[1].last
        /\ s[1].use = "count" => ~s[1].before /\ ~s[1].last
        /\ s[1].before => 1 < Len(s) /\ s[2].op = "in" /\ s[2].last /\ ~s[2].first
    BY <2>1 DEF Orderly
  <2>3. 1 < Len(s) => t # << >> /\ t[1] = s[2]
    BY <1>1
  <2> QED
    BY <1>1, <2>2, <2>3
<1> QED
  BY <1>2, <1>3, <1>4 DEF t

\* Going on with the rest of the program keeps it orderly; a restart that is still
\* to come is behind no byte read.
LEMMA AheadKept ==
  ASSUME JInv, result = "busy", todo # << >>, Advance,
         Head(todo).op \in {"start", "restart", "out"} => owned'
  PROVE  Ahead'
<1>1. todo \in Seq(Ops) /\ Orderly(todo) /\ FirstOnly(todo) /\ Ends(todo, n)
  BY DEF JInv, IInv, Types, Released, Wires, Ahead
<1>2. todo' = Tail(todo) /\ result' = "busy"
  BY DEF Advance
<1>3. Tail(todo) # << >> => Head(Tail(todo)).op # "start"
  BY <1>1, Rest
<1>4. Orderly(Tail(todo))
  BY <1>1, OrderlyTail
<1>5. (\E j \in 1..Len(Tail(todo)) : Tail(todo)[j].op = "restart") => owned'
  BY <1>1, OrderlyTail
<1> QED
  BY <1>2, <1>3, <1>4, <1>5 DEF Ahead

\* A STOP, if the bus is owned.
LEMMA StopKept ==
  ASSUME JInv, i2c_stop
  PROVE  /\ wire' \in Seq(Events) /\ Disciplined(wire') /\ Owning'
         /\ ~owned' /\ lastrd' = FALSE /\ (wire # << >> => wire' # << >>)
<1>1. wire \in Seq(Events) /\ Disciplined(wire) /\ Owning
  BY DEF JInv, Values, Wires
<1>2. CASE owned
  <2>1. wire # << >> /\ wire[Len(wire)].ev # "P" /\ STOP \in Events /\ STOP.ev = "P"
    BY <1>1, <1>2, EventsOf DEF Owning
  <2>2. wire' = Append(wire, STOP) /\ ~owned' /\ lastrd' = FALSE
    BY <1>2 DEF i2c_stop
  <2>3. /\ Append(wire, STOP) \in Seq(Events) /\ Append(wire, STOP) # << >>
        /\ Append(wire, STOP)[Len(Append(wire, STOP))] = STOP
        /\ Disciplined(Append(wire, STOP))
    BY <1>1, <2>1, Extended
  <2> QED
    BY <2>1, <2>2, <2>3 DEF Owning
<1>3. CASE ~owned
  BY <1>1, <1>3 DEF Owning, i2c_stop
<1> QED
  BY <1>2, <1>3

LEMMA GiveUpKept ==
  ASSUME GiveUp, Values
  PROVE  todo' = <<Stop>> /\ failing' \in BOOLEAN /\ result' = result /\ Ahead'
<1>1. todo' = <<Stop>> /\ failing' \in BOOLEAN /\ result' = result
  BY DEF GiveUp
<1>2. Orderly(<<Stop>>) /\ Head(<<Stop>>).op = "stop"
      /\ Len(<<Stop>>) = 1 /\ <<Stop>>[1].op = "stop"
  BY PlainPieces, Primitives DEF IsTail
<1> QED
  BY <1>1, <1>2 DEF Ahead

LEMMA StartsKept ==
  ASSUME JInv, Starts \/ Restarts
  PROVE  Values' /\ Wires'
<1>1. /\ result = "busy" /\ todo # << >> /\ Head(todo).op \in {"start", "restart"}
      /\ i2c_start /\ Advance
      /\ UNCHANGED <<cmd, n, pec_enabled, pec, rpec, ep0buf, sound, faulty>>
  BY DEF Starts, Restarts, At, i2c_restart
<1>2. /\ wire \in Seq(Events) /\ Disciplined(wire) /\ Owning /\ Ahead
      /\ todo \in Seq(Ops)
  BY DEF JInv, Values, Wires, IInv, Types
<1>3. wire = << >> \/ owned
  <2>1. CASE Head(todo).op = "start"
    BY <1>1, <1>2, <2>1 DEF Ahead
  <2>2. CASE Head(todo).op = "restart"
    <3>1. 1 \in 1..Len(todo) /\ todo[1].op = "restart"
      BY <1>1, <1>2, <2>2
    <3> QED
      BY <1>1, <1>2, <2>2, <3>1 DEF Ahead
  <2> QED
    BY <1>1, <2>1, <2>2
<1>4. PICK e \in {START, RESTART} : wire' = Append(wire, e) /\ owned' /\ lastrd' = FALSE
                                    /\ UNCHANGED <<bytes, i2dat, clocked>>
  BY <1>1 DEF i2c_start
<1>5. wire # << >> => wire[Len(wire)].ev # "P" /\ ~Refused(wire[Len(wire)])
  <2> SUFFICES ASSUME wire # << >>
               PROVE  wire[Len(wire)].ev # "P" /\ ~Refused(wire[Len(wire)])
    OBVIOUS
  <2>1. owned /\ wire[Len(wire)].ev # "P"
    BY <1>2, <1>3 DEF Owning
  <2>2. todo # <<Stop>> /\ ~lastrd
    BY <1>1, Primitives DEF JInv, Wires, Announcing
  <2> QED
    BY <2>1, <2>2 DEF JInv, Wires, Refusing, Refused
<1>6. /\ wire' \in Seq(Events) /\ wire' # << >> /\ wire'[Len(wire')] = e /\ Disciplined(wire')
  BY <1>2, <1>4, <1>5, Extended, EventsOf
<1>7. e.ev \in {"S", "Sr"}
  BY EventsOf
<1>8. Values'
  BY <1>1, <1>4, <1>6 DEF JInv, Values, Advance
<1>9. Ahead'
  BY <1>1, <1>4, AheadKept
<1>10. Owning' /\ Refusing' /\ Announcing'
  BY <1>4, <1>6, <1>7 DEF Owning, Refusing, Announcing, Refused
<1> QED
  BY <1>6, <1>8, <1>9, <1>10 DEF Wires

LEMMA StartFailsKept ==
  ASSUME JInv, StartFails
  PROVE  Values' /\ Wires'
<1>1. /\ result = "busy" /\ todo # << >> /\ Head(todo).op = "start"
      /\ todo' = << >> /\ result' = "stall"
      /\ UNCHANGED <<cmd, n, pec_enabled, pec, rpec, ep0buf, sound, failing>> /\ faulty' = TRUE
      /\ UNCHANGED busVars \/ i2c_stop
  BY DEF StartFails, At, Return
<1>2. /\ wire' \in Seq(Events) /\ Disciplined(wire') /\ Owning' /\ ~owned' /\ lastrd' = FALSE
      /\ UNCHANGED <<bytes, i2dat, clocked>>
  <2>1. CASE i2c_stop
    BY <2>1, StopKept DEF i2c_stop
  <2>2. CASE UNCHANGED busVars
    <3>1. ~owned /\ lastrd = FALSE
      BY <1>1 DEF JInv, IInv, Released, Values, Wires, Announcing
    <3> QED
      BY <2>2, <3>1 DEF JInv, Values, Wires, busVars, Owning
  <2> QED
    BY <1>1, <2>1, <2>2
<1>3. Values'
  BY <1>1, <1>2 DEF JInv, Values
<1> QED
  BY <1>1, <1>2, <1>3 DEF Wires, Ahead, Refusing, Announcing

LEMMA OutAckedKept ==
  ASSUME JInv, OutAcked
  PROVE  Values' /\ Wires'
<1>1. /\ result = "busy" /\ todo # << >> /\ Head(todo).op = "out"
      /\ ByteOutAck(Head(todo).b) /\ Advance
      /\ UNCHANGED <<cmd, n, pec_enabled, rpec, ep0buf, sound, faulty>>
      /\ pec' \in {pec, Append(pec, Head(todo).b)}
  BY DEF OutAcked, At
<1> DEFINE b == Head(todo).b
<1>2. todo \in Seq(Ops) /\ Head(todo) \in Ops
  BY <1>1 DEF JInv, IInv, Types
<1>3. b \in WireBytes
  BY <1>1, <1>2, Primitives, EventsOf DEF Ops, Outs, Ins
<1>4. /\ wire \in Seq(Events) /\ Disciplined(wire) /\ Owning /\ bytes \in Seq(WireBytes)
      /\ pec \in Seq(WireBytes)
  BY DEF JInv, Values, Wires
<1> HIDE DEF b
<1>5. /\ owned /\ owned' /\ wire' = Append(wire, Sent(b, TRUE)) /\ bytes' = Append(bytes, b)
      /\ clocked' = 0 /\ UNCHANGED <<i2dat, lastrd>>
  BY <1>1 DEF ByteOutAck, b
<1>6. wire # << >> /\ wire[Len(wire)].ev # "P"
  BY <1>4, <1>5 DEF Owning
<1>7. ~lastrd /\ todo # <<Stop>>
  BY <1>1, Primitives DEF JInv, Wires, Announcing
<1>8. ~Refused(wire[Len(wire)])
  BY <1>5, <1>7 DEF JInv, Wires, Refusing, Refused
<1>9. /\ Sent(b, TRUE) \in Events /\ Sent(b, TRUE).ev = "out" /\ Sent(b, TRUE).ack
  BY <1>3, EventsOf
<1>10. /\ wire' \in Seq(Events) /\ wire' # << >> /\ wire'[Len(wire')] = Sent(b, TRUE)
       /\ Disciplined(wire')
  BY <1>4, <1>5, <1>6, <1>8, <1>9, Extended
<1>11. bytes' \in Seq(WireBytes) /\ pec' \in Seq(WireBytes)
  <2>1. bytes' \in Seq(WireBytes)
    BY <1>3, <1>4, <1>5
  <2>2. Append(pec, b) \in Seq(WireBytes)
    BY <1>3, <1>4
  <2>3. pec' \in {pec, Append(pec, b)}
    BY <1>1 DEF b
  <2> QED
    BY <1>4, <2>1, <2>2, <2>3
<1>12. Values'
  BY <1>1, <1>5, <1>10, <1>11 DEF JInv, Values, Advance
<1>13. Ahead'
  BY <1>1, <1>5, AheadKept
<1>14. Owning' /\ Refusing' /\ Announcing'
  BY <1>5, <1>7, <1>9, <1>10 DEF Owning, Refusing, Announcing, Refused
<1> QED
  BY <1>10, <1>12, <1>13, <1>14 DEF Wires

LEMMA OutFailsKept ==
  ASSUME JInv, OutFails
  PROVE  Values' /\ Wires'
<1>1. /\ result = "busy" /\ todo # << >> /\ Head(todo).op = "out"
      /\ ByteOutNak(Head(todo).b) \/ i2c_stop
      /\ GiveUp
      /\ UNCHANGED <<cmd, n, pec_enabled, pec, rpec, ep0buf, sound>> /\ faulty' = TRUE
  BY DEF OutFails, At, ByteOutTimeout
<1> DEFINE b == Head(todo).b
<1>2. todo \in Seq(Ops) /\ Head(todo) \in Ops
  BY <1>1 DEF JInv, IInv, Types
<1>3. b \in WireBytes
  BY <1>1, <1>2, Primitives, EventsOf DEF Ops, Outs, Ins
<1> HIDE DEF b
<1>4. todo' = <<Stop>> /\ failing' \in BOOLEAN /\ result' = result /\ Ahead'
  BY <1>1, GiveUpKept DEF JInv
<1>5. ~lastrd /\ todo # <<Stop>>
  BY <1>1, Primitives DEF JInv, Wires, Announcing
<1>6. CASE ByteOutNak(b)
  <2>1. /\ owned /\ owned' /\ wire' = Append(wire, Sent(b, FALSE)) /\ bytes' = Append(bytes, b)
        /\ UNCHANGED <<i2dat, lastrd, clocked>>
    BY <1>6 DEF ByteOutNak
  <2>2. /\ wire \in Seq(Events) /\ Disciplined(wire) /\ bytes \in Seq(WireBytes)
        /\ wire # << >> /\ wire[Len(wire)].ev # "P"
    BY <2>1 DEF JInv, Values, Wires, Owning
  <2>3. ~Refused(wire[Len(wire)])
    BY <1>5, <2>1 DEF JInv, Wires, Refusing, Refused
  <2>4. Sent(b, FALSE) \in Events /\ Sent(b, FALSE).ev = "out"
    BY <1>3, EventsOf
  <2>5. /\ wire' \in Seq(Events) /\ wire' # << >> /\ wire'[Len(wire')] = Sent(b, FALSE)
        /\ Disciplined(wire')
    BY <2>1, <2>2, <2>3, <2>4, Extended
  <2>6. bytes' \in Seq(WireBytes)
    BY <1>3, <2>1, <2>2
  <2>7. Values'
    BY <1>1, <1>4, <2>1, <2>5, <2>6 DEF JInv, Values
  <2>8. Owning' /\ Refusing' /\ Announcing'
    BY <1>4, <1>5, <2>1, <2>4, <2>5 DEF Owning, Refusing, Announcing, Refused
  <2> QED
    BY <1>4, <2>5, <2>7, <2>8 DEF Wires
<1>7. CASE i2c_stop
  <2>1. /\ wire' \in Seq(Events) /\ Disciplined(wire') /\ Owning' /\ ~owned' /\ lastrd' = FALSE
        /\ UNCHANGED <<bytes, i2dat, clocked>>
    BY <1>7, StopKept DEF i2c_stop
  <2>2. Values'
    BY <1>1, <1>4, <2>1 DEF JInv, Values
  <2> QED
    BY <1>4, <2>1, <2>2 DEF Wires, Refusing, Announcing
<1> QED
  BY <1>1, <1>6, <1>7 DEF b

LEMMA StopsKept ==
  ASSUME JInv, Stops
  PROVE  Values' /\ Wires'
<1>1. /\ i2c_stop /\ result' # "busy"
      /\ UNCHANGED <<cmd, n, pec_enabled, pec, rpec, ep0buf, sound, faulty, failing>>
  BY DEF Stops, Return
<1>2. /\ wire' \in Seq(Events) /\ Disciplined(wire') /\ Owning' /\ ~owned' /\ lastrd' = FALSE
      /\ UNCHANGED <<bytes, i2dat, clocked>>
  BY <1>1, StopKept DEF i2c_stop
<1>3. Values'
  BY <1>1, <1>2 DEF JInv, Values
<1> QED
  BY <1>1, <1>2, <1>3 DEF Wires, Ahead, Refusing, Announcing

LEMMA ReadEndsKept ==
  ASSUME JInv, ReadEnds
  PROVE  Values' /\ Wires'
<1>1. /\ result = "busy" /\ todo = << >> /\ result' # "busy"
      /\ UNCHANGED <<cmd, n, pec_enabled, pec, rpec, ep0buf, sound, faulty, failing>>
      /\ i2c_stop \/ UNCHANGED busVars
  BY DEF ReadEnds, Return
<1>2. /\ wire' \in Seq(Events) /\ Disciplined(wire') /\ Owning' /\ ~owned' /\ lastrd' = FALSE
      /\ UNCHANGED <<bytes, i2dat, clocked>>
  <2>1. CASE i2c_stop
    BY <2>1, StopKept DEF i2c_stop
  <2>2. CASE UNCHANGED busVars
    <3>1. ~owned /\ lastrd = FALSE
      BY <1>1 DEF JInv, IInv, Released, Values, Wires, Announcing
    <3> QED
      BY <2>2, <3>1 DEF JInv, Values, Wires, busVars, Owning
  <2> QED
    BY <1>1, <2>1, <2>2
<1>3. Values'
  BY <1>1, <1>2 DEF JInv, Values
<1> QED
  BY <1>1, <1>2, <1>3 DEF Wires, Ahead, Refusing, Announcing

\* What a read loop makes of a byte.
LEMMA Taken ==
  ASSUME Values, NEW use, NEW v \in WireBytes,
         Take(use, v) \/ UNCHANGED <<pec, rpec, ep0buf>>
  PROVE  pec' \in Seq(WireBytes) /\ rpec' \in WireBytes /\ ep0buf' \in Seq(WireBytes)
<1>1. /\ pec \in Seq(WireBytes) /\ rpec \in WireBytes /\ ep0buf \in Seq(WireBytes)
      /\ Append(pec, v) \in Seq(WireBytes) /\ Append(ep0buf, v) \in Seq(WireBytes)
  BY DEF Values
<1>2. /\ pec' \in {pec, Append(pec, v)} /\ rpec' \in {rpec, v}
      /\ ep0buf' \in {ep0buf, Append(ep0buf, v)}
  BY DEF Take
<1> QED
  BY <1>1, <1>2

LEMMA InReadKept ==
  ASSUME JInv, InRead
  PROVE  Values' /\ Wires'
<1> DEFINE o == Head(todo)
           v == ByteInValue(o.first)
<1>1. /\ result = "busy" /\ todo # << >> /\ o.op = "in"
      /\ ByteIn(o.first, o.single, o.before, o.last)
      /\ IF o.use = "count" /\ n \in {0, ByteMax} THEN GiveUp ELSE Advance
      /\ Take(o.use, v) \/ UNCHANGED <<pec, rpec, ep0buf>>
      /\ UNCHANGED <<cmd, n, pec_enabled>>
  BY DEF InRead, At
<1>2. sound' \in BOOLEAN /\ faulty' \in BOOLEAN
  BY DEF InRead, JInv, Values
<1>3. /\ todo \in Seq(Ops) /\ o \in Ops /\ Orderly(todo)
  BY <1>1 DEF JInv, IInv, Types, Wires, Ahead
<1>4. o.first \in BOOLEAN /\ o.single \in BOOLEAN /\ o.before \in BOOLEAN /\ o.last \in BOOLEAN
  BY <1>1, <1>3, Primitives DEF Ops, Outs, Ins
<1>5. /\ o.single => o.last
      /\ o.use = "count" => ~o.before /\ ~o.last
      /\ o.before => /\ Tail(todo) # << >> /\ Head(Tail(todo)).op = "in"
                     /\ Head(Tail(todo)).last /\ ~Head(Tail(todo)).first
  BY <1>1, <1>3, OrderlyTail
<1>6. todo # <<Stop>> /\ (lastrd => o.last /\ ~o.first)
  BY <1>1, Primitives DEF JInv, Wires, Announcing
<1> HIDE DEF o
<1> DEFINE n1 == IF o.first THEN clocked + 1 ELSE clocked
           lr1 == lastrd \/ o.single
           w1 == IF o.first THEN Append(wire, Read(Dev(clocked + 1), ~lr1)) ELSE wire
           b1 == IF o.first THEN Append(bytes, Dev(n1)) ELSE bytes
<1>7. /\ owned
      /\ o.last => /\ wire' = Append(w1, STOP) /\ bytes' = b1 /\ owned' = FALSE
                   /\ lastrd' = FALSE /\ clocked' = n1 /\ i2dat' = Dev(n1)
      /\ ~o.last => /\ wire' = Append(w1, Read(Dev(n1 + 1), ~(lr1 \/ o.before)))
                    /\ bytes' = Append(b1, Dev(n1 + 1)) /\ owned' = TRUE
                    /\ lastrd' = (lr1 \/ o.before)
                    /\ clocked' = n1 + 1 /\ i2dat' = Dev(n1 + 1)
  BY <1>1 DEF ByteIn, Clocked, Announced
<1>8. /\ wire \in Seq(Events) /\ Disciplined(wire) /\ bytes \in Seq(WireBytes)
      /\ wire # << >> /\ wire[Len(wire)].ev # "P" /\ clocked \in Nat /\ lastrd \in BOOLEAN
      /\ i2dat \in WireBytes
  BY <1>7 DEF JInv, Values, Wires, Owning
<1>9. Refused(wire[Len(wire)]) => lastrd
  BY <1>6, <1>7 DEF JInv, Wires, Refusing, Refused
<1>10. n1 \in Nat /\ Dev(n1) \in WireBytes /\ Dev(n1 + 1) \in WireBytes
       /\ Dev(clocked + 1) \in WireBytes /\ lr1 \in BOOLEAN
  BY <1>4, <1>8, EventsOf
<1>11. /\ w1 \in Seq(Events) /\ w1 # << >> /\ w1[Len(w1)].ev # "P" /\ Disciplined(w1)
       /\ Refused(w1[Len(w1)]) => lr1
  <2>1. CASE o.first
    <3> DEFINE e == Read(Dev(clocked + 1), ~lr1)
    <3>1. e \in Events /\ e.ev = "in" /\ e.ack = ~lr1
      BY <1>10, EventsOf
    <3> HIDE DEF e
    <3>2. ~Refused(wire[Len(wire)])
      BY <1>6, <1>9, <2>1
    <3>3. /\ Append(wire, e) \in Seq(Events) /\ Append(wire, e) # << >>
          /\ Append(wire, e)[Len(Append(wire, e))] = e /\ Disciplined(Append(wire, e))
      BY <1>8, <3>1, <3>2, Extended
    <3>4. w1 = Append(wire, e)
      BY <2>1 DEF e
    <3>5. Refused(e) => lr1
      BY <1>10, <3>1 DEF Refused
    <3>6. e.ev # "P"
      BY <3>1
    <3> HIDE DEF w1, lr1
    <3> QED
      BY <3>3, <3>4, <3>5, <3>6
  <2>2. CASE ~o.first
    BY <1>8, <1>9, <2>2
  <2> QED
    BY <2>1, <2>2
<1>12. b1 \in Seq(WireBytes)
  BY <1>8, <1>10
<1>13. pec' \in Seq(WireBytes) /\ rpec' \in WireBytes /\ ep0buf' \in Seq(WireBytes)
  <2>1. v \in WireBytes
    BY <1>8, <1>10 DEF ByteInValue
  <2> QED
    BY <1>1, <2>1, Taken DEF JInv
<1> HIDE DEF v, n1, lr1, w1, b1
<1>14. failing' \in BOOLEAN /\ Ahead' /\ result' = "busy"
  <2>1. CASE o.use = "count" /\ n \in {0, ByteMax}
    BY <1>1, <2>1, GiveUpKept DEF JInv
  <2>2. CASE ~(o.use = "count" /\ n \in {0, ByteMax})
    <3>1. Advance
      BY <1>1, <2>2
    <3>2. Ahead'
      BY <1>1, <3>1, AheadKept DEF o
    <3> QED
      BY <1>1, <3>1, <3>2 DEF Advance, JInv, Values
  <2> QED
    BY <2>1, <2>2
<1>15. CASE o.last
  <2>1. STOP \in Events /\ STOP.ev = "P"
    BY EventsOf
  <2>2. /\ wire' \in Seq(Events) /\ wire' # << >> /\ wire'[Len(wire')] = STOP
        /\ Disciplined(wire')
    BY <1>7, <1>11, <1>15, <2>1, Extended
  <2>3. Owning' /\ Refusing' /\ Announcing'
    BY <1>7, <1>15, <2>1, <2>2 DEF Owning, Refusing, Announcing
  <2>4. Values'
    BY <1>1, <1>2, <1>7, <1>10, <1>12, <1>13, <1>14, <1>15, <2>2 DEF JInv, Values
  <2> QED
    BY <1>14, <2>2, <2>3, <2>4 DEF Wires
<1>16. CASE ~o.last
  <2>1. ~lastrd /\ ~o.single /\ ~lr1
    BY <1>5, <1>6, <1>16 DEF lr1
  <2> DEFINE e == Read(Dev(n1 + 1), ~(lr1 \/ o.before))
  <2>2. e \in Events /\ e.ev = "in" /\ e.ack = ~o.before
    BY <1>4, <1>10, <2>1, EventsOf
  <2> HIDE DEF e
  <2>3. wire' = Append(w1, e)
    BY <1>7, <1>16 DEF e
  <2>4. /\ wire' \in Seq(Events) /\ wire' # << >> /\ wire'[Len(wire')] = e
        /\ Disciplined(wire')
    BY <1>11, <2>1, <2>2, <2>3, Extended
  <2>5. lastrd' = o.before
    BY <1>4, <1>7, <1>16, <2>1
  <2>6. Owning' /\ Refusing'
    BY <1>7, <1>16, <2>2, <2>4, <2>5 DEF Owning, Refusing, Refused
  <2>7. Announcing'
    <3> SUFFICES ASSUME o.before PROVE Announcing'
      BY <2>5 DEF Announcing
    <3>1. Advance
      BY <1>1, <1>5
    <3> QED
      BY <1>5, <1>14, <3>1 DEF Announcing, Advance
  <2>8. bytes' \in Seq(WireBytes)
    BY <1>7, <1>10, <1>12, <1>16
  <2>9. Values'
    BY <1>1, <1>2, <1>4, <1>7, <1>10, <1>13, <1>14, <1>16, <2>4, <2>5, <2>8 DEF JInv, Values
  <2> QED
    BY <1>14, <2>4, <2>6, <2>7, <2>9 DEF Wires
<1> QED
  BY <1>4, <1>15, <1>16

LEMMA InTimesOutKept ==
  ASSUME JInv, InTimesOut
  PROVE  Values' /\ Wires'
<1>1. /\ result = "busy" /\ todo # << >> /\ Head(todo).op = "in" /\ i2c_stop
      /\ GiveUp \/ Advance
      /\ (\E v \in {Zero, i2dat} : Take(Head(todo).use, v)) \/ UNCHANGED <<pec, rpec, ep0buf>>
      /\ UNCHANGED <<cmd, n, pec_enabled, sound>> /\ faulty' = TRUE
  BY DEF InTimesOut, At, ByteInTimeout, TimeoutValues
<1>2. /\ wire' \in Seq(Events) /\ Disciplined(wire') /\ Owning' /\ ~owned' /\ lastrd' = FALSE
      /\ UNCHANGED <<bytes, i2dat, clocked>>
  BY <1>1, StopKept DEF i2c_stop
<1>3. failing' \in BOOLEAN /\ Ahead'
  <2>1. CASE GiveUp
    BY <2>1, GiveUpKept DEF JInv
  <2>2. CASE Advance
    BY <1>1, <2>2, AheadKept DEF Advance, JInv, Values
  <2> QED
    BY <1>1, <2>1, <2>2
<1>4. pec' \in Seq(WireBytes) /\ rpec' \in WireBytes /\ ep0buf' \in Seq(WireBytes)
  <2>1. i2dat \in WireBytes /\ Zero \in WireBytes
    BY EventsOf DEF JInv, Values
  <2> QED
    BY <1>1, <2>1, Taken DEF JInv
<1>5. Values'
  BY <1>1, <1>2, <1>3, <1>4 DEF JInv, Values
<1> QED
  BY <1>2, <1>3, <1>5 DEF Wires, Refusing, Announcing

LEMMA EnterKept ==
  ASSUME JInv, NEW c \in AllCommands, NEW k \in 0..ByteMax, handle_vendorcommand(c, k)
  PROVE  Values' /\ Wires'
<1>1. /\ result # "busy" /\ cmd' = c /\ todo' = Program(c, k)
      /\ pec' = << >> /\ rpec' = Zero /\ ep0buf' = << >>
      /\ failing' = FALSE /\ sound' = TRUE /\ faulty' = FALSE
      /\ wire' = << >> /\ bytes' = << >>
      /\ UNCHANGED <<owned, i2dat, clocked, lastrd>>
  BY DEF handle_vendorcommand
<1>2. ~owned /\ lastrd = FALSE
  BY <1>1 DEF JInv, IInv, Types, Released, Values, Wires, Announcing
<1>3. Orderly(Program(c, k))
  BY OrderlyPrograms DEF JInv, IInv, Types
<1>4. Zero \in WireBytes /\ << >> \in Seq(WireBytes) /\ << >> \in Seq(Events) /\ Len(<< >>) = 0
  BY EventsOf
<1>5. Values'
  BY <1>1, <1>2, <1>4 DEF JInv, Values
<1>6. Ahead'
  BY <1>1, <1>3 DEF Ahead
<1>7. Disciplined(wire')
  BY <1>1, <1>4 DEF Disciplined
<1>8. Owning' /\ Refusing' /\ Announcing'
  BY <1>1, <1>2 DEF Owning, Refusing, Announcing
<1> QED
  BY <1>5, <1>6, <1>7, <1>8 DEF Wires

LEMMA WireStep ==
  ASSUME ByteMax - 1 \notin Counts, JInv, [Next]_vars
  PROVE  JInv'
<1>1. IInv'
  BY Step DEF JInv
<1>2. Values' /\ Wires'
  <2>1. CASE Enter
    BY <2>1, Entered, EnterKept
  <2>2. CASE EnablePEC
    <3>1. result # "busy" /\ result' # "busy"
          /\ UNCHANGED <<busVars, cmd, n, todo, pec, rpec, ep0buf, failing, sound, faulty>>
      BY <2>2 DEF EnablePEC
    <3> QED
      BY <3>1 DEF busVars, JInv, Values, Wires, Owning, Ahead, Refusing, Announcing
  <2>3. CASE Starts \/ Restarts
    BY <2>3, StartsKept
  <2>4. CASE StartFails
    BY <2>4, StartFailsKept
  <2>5. CASE OutAcked
    BY <2>5, OutAckedKept
  <2>6. CASE OutFails
    BY <2>6, OutFailsKept
  <2>7. CASE Stops
    BY <2>7, StopsKept
  <2>8. CASE InRead
    BY <2>8, InReadKept
  <2>9. CASE InTimesOut
    BY <2>9, InTimesOutKept
  <2>10. CASE ReadEnds
    BY <2>10, ReadEndsKept
  <2>11. CASE UNCHANGED vars
    BY <2>11 DEF vars, cmdVars, busVars, JInv, Values, Wires, Owning, Ahead, Refusing, Announcing
  <2> QED
    BY <2>1, <2>2, <2>3, <2>4, <2>5, <2>6, <2>7, <2>8, <2>9, <2>10, <2>11 DEF Next, Primitive
<1> QED
  BY <1>1, <1>2 DEF JInv

LEMMA WireInit ==
  ASSUME Init
  PROVE  JInv
<1>1. IInv
  BY InitIInv
<1>2. Zero \in WireBytes /\ << >> \in Seq(WireBytes) /\ << >> \in Seq(Events) /\ Len(<< >>) = 0
      /\ "SEND_BYTE" \in AllCommands
  BY EventsOf DEF AllCommands
<1>3. Values
  BY <1>2 DEF Init, BusInit, Values
<1>4. Disciplined(wire)
  BY <1>2 DEF Init, BusInit, Disciplined
<1>5. Owning /\ Ahead /\ Refusing /\ Announcing
  BY DEF Init, BusInit, Owning, Ahead, Refusing, Announcing
<1> QED
  BY <1>1, <1>3, <1>4, <1>5 DEF JInv, Wires

\* What is on the wire and what is still to do fit together in every reachable state.
THEOREM WireInvariance ==
  ASSUME ByteMax - 1 \notin Counts
  PROVE  Spec => []JInv
<1>1. Init => JInv
  BY WireInit
<1>2. JInv /\ [Next]_vars => JInv'
  BY WireStep
<1> QED
  BY <1>1, <1>2, PTL DEF Spec

\* For blocks of any length and a device that does what it likes: nothing follows a
\* STOP, and nothing but a STOP follows a byte that was not acknowledged.
THEOREM WireIsDisciplined ==
  ASSUME ByteMax - 1 \notin Counts
  PROVE  Spec => []WireDiscipline
<1>1. JInv => WireDiscipline
  <2> SUFFICES ASSUME JInv, NEW k \in 1..(Len(wire) - 1)
               PROVE  /\ wire[k].ev # "P"
                      /\ wire[k].ev = "in" /\ ~wire[k].ack => wire[k + 1].ev = "P"
                      /\ wire[k].ev = "out" /\ ~wire[k].ack => wire[k + 1].ev = "P"
    BY DEF WireDiscipline
  <2> QED
    BY DEF JInv, Wires, Disciplined, Refused
<1> QED
  BY <1>1, WireInvariance, PTL
=============================================================================
