------------------------- MODULE ArbTransferProofs -------------------------
(***************************************************************************)
(* Proofs about transactions that an application puts together itself, for *)
(* transfers of any size, calls of any length and any transactions:        *)
(* SMBWrite returns its length only when every byte was acknowledged, the  *)
(* bus is free when a transaction is over, the PEC covers all of it, two   *)
(* PECs that agree vouch for the bytes read, and calls that go well show   *)
(* on the bus the one transaction they describe.                           *)
(*                                                                         *)
(* The first three rest on what the primitives still to be called look     *)
(* like: how many data bytes are among them, what the last one is, and     *)
(* whether the PEC is still to be sent. That holds when a request arrives, *)
(* by how its command is put together, and for what is left after each     *)
(* primitive. A handler whose host has given up is bound by it as much as  *)
(* any other.                                                              *)
(*                                                                         *)
(* That the PECs vouch for a read rests on two accounts of the same bytes: *)
(* the bus ends in the first bytes of the device (Framed), and the         *)
(* firmware's PEC in the bytes handed over, after one that was sent        *)
(* (Covers). When the two agree, what was handed over is what the device   *)
(* has sent.                                                               *)
(*                                                                         *)
(* The last one compares the bus with what the calls would show, event by  *)
(* event: all of the calls that are over, the first events of the one      *)
(* under way, and in the handler exactly the primitives that show the rest *)
(* (Healthy).                                                              *)
(***************************************************************************)
EXTENDS ArbTransfer, FiniteSetTheorems, TLAPS

WireBytes ==
  [role : {"addrW", "addrR", "cmd", "out", "dev", "pec", "zero"}, i : Int]
Events == {START, RESTART, STOP} \cup [ev : {"out", "in"}, b : WireBytes, ack : BOOLEAN]

Outs == [op : {"out"}, b : WireBytes, crc : BOOLEAN]
Ins  == [op : {"in"}, first : BOOLEAN, single : BOOLEAN, before : BOOLEAN, last : BOOLEAN]
Ops  == {Start, Restart, Stop} \cup Outs \cup Ins

Types ==
  /\ pc \in {"idle", "ready", "waits"} /\ ret \in Int /\ acked \in Nat
  /\ script \in Seq(Calls) /\ off \in Nat
  /\ pc = "idle" <=> script = << >>
  /\ script # << >> => off < Call.len
  /\ todo \in Seq(Ops) /\ owned \in BOOLEAN /\ pec_enabled \in BOOLEAN
  /\ busy \in BOOLEAN /\ stall \in BOOLEAN
  /\ pc = "ready" => ~busy
  /\ pc = "waits" => busy
  /\ busy \/ todo = << >>
  /\ stall => todo = <<Stop>> \/ (todo = << >> /\ ~owned)

-----------------------------------------------------------------------------
\* Of the primitives s, those from the (p + 1)-th to the (p + r)-th send data,
\* and no other does.
IsPut(a) == a.op = "out" /\ a.crc

PutsAt(s, p, r) ==
  /\ p + r <= Len(s)
  /\ \A i \in 1..Len(s) : IsPut(s[i]) <=> p < i /\ i <= p + r

\* The bytes of the call that were acknowledged are those of the transfers
\* before this one and those that are not still to be sent in this one.
Acks ==
  /\ pc = "ready" /\ Call.fn = "write" => off = 0 \/ acked = off
  /\ pc = "waits" /\ Call.fn = "write" /\ ~stall =>
       /\ acked <= off + Size
       /\ \E p \in 0..2 : PutsAt(todo, p, off + Size - acked)

\* The primitive gives the bus back, whatever becomes of it.
Closes(a) == a.op = "stop" \/ (a.op = "in" /\ a.last)

Closing ==
  /\ script # << >> => GivesBack(script[Len(script)])
  /\ pc = "idle" /\ (busy \/ owned) => ret = -1
  /\ pc = "waits" /\ ~stall /\ Len(script) = 1 /\ Final =>
       IF todo = << >> THEN ~owned ELSE Closes(todo[Len(todo)])

-----------------------------------------------------------------------------
\* A PEC has been sent, and acknowledged.
PecIn(w) == \E k \in DOMAIN w : w[k] = Sent(PecOut, TRUE)

\* An application's byte, or the PEC, alone before the STOP.
PecLast(s) ==
  \A i \in 1..Len(s) :
    s[i].op = "out" =>
      \/ s[i].crc /\ s[i].b # PecOut
      \/ s[i] = PutPec /\ i + 1 = Len(s) /\ s[i + 1] = Stop

\* The PEC is among s.
Sealed(s) == \E i \in 1..Len(s) : s[i] = PutPec

NoReads(s) == \A i \in 1..Len(s) : s[i].op # "in"

\* A call that ends in a STOP is the last one, those before it write as well
\* and only the first makes a START.
StopLast(s) ==
  \A k \in 1..Len(s) : s[k].fn = "write" /\ s[k].stop =>
    /\ k = Len(s)
    /\ \A j \in 1..k : s[j].fn = "write" /\ (j > 1 => ~s[j].start)

EndsInStop(s) == s # << >> /\ s[Len(s)].fn = "write" /\ s[Len(s)].stop

WireTypes ==
  /\ wire \in Seq(Events) /\ bytes \in Seq(WireBytes)
  /\ mrq_pec \in Seq(WireBytes) /\ i2dat \in WireBytes
  /\ clocked \in Nat /\ lastrd \in BOOLEAN

\* Nothing follows a PEC; before it, the PEC covers what is on the bus.
Covering ==
  /\ StopLast(script) /\ PecLast(todo)
  /\ PecIn(wire) => /\ pc # "ready" /\ (todo = << >> \/ todo = <<Stop>>)
                    /\ pc = "waits" => stall \/ (Final /\ Len(script) = 1)
  /\ Sealed(todo) => /\ pec_enabled /\ NoReads(todo) /\ bytes = mrq_pec
                     /\ pc = "waits" => Final /\ Len(script) = 1
  /\ EndsInStop(script) /\ pec_enabled /\ ~PecIn(wire) /\ (pc = "waits" => ~stall) =>
       /\ NoReads(todo)
       /\ IF pc = "ready" /\ off = 0 /\ Call.start THEN bytes = << >>
                                                   ELSE bytes = mrq_pec

AInv == Types /\ Acks
BInv == AInv /\ Closing
CInv == AInv /\ WireTypes /\ Covering /\ ArbPecCoversWire

-----------------------------------------------------------------------------
(* Primitives and calls                                                     *)

LEMMA Primitives ==
  /\ Start \in Ops /\ Restart \in Ops /\ Stop \in Ops /\ PutPec \in Ops
  /\ Start.op = "start" /\ Restart.op = "restart" /\ Stop.op = "stop"
  /\ PutPec.op = "out" /\ ~PutPec.crc /\ PutPec.b = PecOut
  /\ PecOut \in WireBytes /\ Zero \in WireBytes /\ \A i \in Int : Dev(i) \in WireBytes
<1>1. PecOut \in WireBytes /\ Zero \in WireBytes /\ \A i \in Int : Dev(i) \in WireBytes
  BY DEF PecOut, Zero, Dev, B, WireBytes
<1>2. PutPec \in Outs /\ PutPec.op = "out" /\ ~PutPec.crc /\ PutPec.b = PecOut
  BY <1>1 DEF PutPec, Outs
<1>3. Start.op = "start" /\ Restart.op = "restart" /\ Stop.op = "stop"
  BY DEF Start, Restart, Stop
<1> QED
  BY <1>1, <1>2, <1>3 DEF Ops

LEMMA Kinds ==
  ASSUME NEW a \in Ops
  PROVE  /\ a.op \in {"start", "restart", "stop", "out", "in"}
         /\ a.op = "out" => a.b \in WireBytes /\ a.crc \in BOOLEAN
         /\ a.op = "in" => /\ a.first \in BOOLEAN /\ a.single \in BOOLEAN
                           /\ a.before \in BOOLEAN /\ a.last \in BOOLEAN
BY DEF Ops, Outs, Ins, Start, Restart, Stop

LEMMA CallTypes ==
  ASSUME NEW c \in Calls
  PROVE  /\ c.len \in Nat \ {0} /\ c.fn \in {"write", "read"}
         /\ c.fn = "write" => /\ c.start \in BOOLEAN /\ c.restart \in BOOLEAN
                              /\ c.stop \in BOOLEAN /\ c.data \in Seq(AppBytes)
                              /\ c.len = Len(c.data)
         /\ c.fn = "read" => c.lastRead \in BOOLEAN
<1>1. CASE c \in WriteCalls
  BY <1>1 DEF WriteCalls
<1>2. CASE c \in ReadCalls
  BY <1>2 DEF ReadCalls
<1> QED
  BY <1>1, <1>2 DEF Calls

\* The transfer to be made next: some of the bytes that are left.
LEMMA Transfer ==
  ASSUME Types, script # << >>
  PROVE  /\ Call \in Calls /\ Call = script[1] /\ Len(script) \in Nat /\ Len(script) > 0
         /\ Size \in Nat \ {0} /\ off + Size <= Call.len /\ Call.len \in Nat
         /\ Final <=> off + Size = Call.len
<1>1. Call \in Calls /\ Call = script[1] /\ Len(script) \in Nat /\ Len(script) > 0
  BY DEF Types, Call
<1>2. Call.len \in Nat \ {0}
  BY <1>1, CallTypes
<1> QED
  BY <1>1, <1>2, TransactionsAssumption DEF Types, Size, Final

\* Three sequences after one another.
LEMMA Concatenated ==
  ASSUME NEW S, NEW s \in Seq(S), NEW t \in Seq(S)
  PROVE  /\ s \o t \in Seq(S) /\ Len(s \o t) = Len(s) + Len(t)
         /\ Len(s) \in Nat /\ Len(t) \in Nat
         /\ \A j \in 1..Len(s) : (s \o t)[j] = s[j]
         /\ \A j \in 1..Len(t) : (s \o t)[Len(s) + j] = t[j]
OBVIOUS

\* A sequence of primitives of length m; a name for it, as the provers rewrite a
\* length that is a numeral.
IsList(s, m) == s \in Seq(Ops) /\ Len(s) = m

\* What is left of s when its first element is gone.
LEMMA Shorter ==
  ASSUME NEW S, NEW s \in Seq(S), s # << >>
  PROVE  /\ Tail(s) \in Seq(S) /\ Len(Tail(s)) = Len(s) - 1
         /\ Len(s) \in Nat /\ Len(s) > 0 /\ Head(s) = s[1] /\ s[1] \in S
         /\ \A j \in 1..(Len(s) - 1) : Tail(s)[j] = s[j + 1]
         /\ Tail(s) # << >> <=> Len(s) > 1
<1>1. /\ Tail(s) \in Seq(S) /\ Len(Tail(s)) = Len(s) - 1
      /\ Len(s) \in Nat /\ Len(s) > 0 /\ Head(s) = s[1] /\ s[1] \in S
      /\ \A j \in 1..(Len(s) - 1) : Tail(s)[j] = s[j + 1]
  OBVIOUS
<1> DEFINE t == Tail(s)
<1>2. t \in Seq(S) /\ Len(t) = Len(s) - 1
  BY <1>1
<1> HIDE DEF t
<1>3. /\ t # << >> => Len(t) > 0
      /\ t = << >> => ~(Len(t) > 0)
  <2>1. t # << >> => Len(t) > 0
    BY <1>2
  <2>2. t = << >> => ~(Len(t) > 0)
    OBVIOUS
  <2> QED
    BY <2>1, <2>2
<1>4. t # << >> <=> Len(s) > 1
  BY <1>1, <1>2, <1>3
<1> QED
  BY <1>1, <1>4 DEF t

-----------------------------------------------------------------------------
(* Commands                                                                 *)

Bit(p)    == IF p THEN 1 ELSE 0
Ahead(a, b)  == Bit(a) + Bit(b)
Behind(z, q) == IF z THEN Bit(q) + 1 ELSE 0

\* A list of at most one element.
LEMMA Optional ==
  ASSUME NEW S, NEW x \in S, NEW p \in BOOLEAN
  PROVE  /\ OnlyIf(p, <<x>>) \in Seq(S) /\ Len(OnlyIf(p, <<x>>)) = Bit(p)
         /\ p => OnlyIf(p, <<x>>)[1] = x
<1>1. CASE p
  BY <1>1 DEF OnlyIf, Bit
<1>2. CASE ~p
  <2>1. OnlyIf(p, <<x>>) = << >>
    BY <1>2 DEF OnlyIf
  <2>2. << >> \in Seq(S) /\ Len(<< >>) = 0
    OBVIOUS
  <2> QED
    BY <1>2, <2>1, <2>2 DEF Bit
<1> QED
  BY <1>1, <1>2

\* What a write is put together from, and what the wire shows of it: at most two
\* elements, the data, at most two elements more.
Parted(a, x, b, y, d, z, q, u, v) ==
  OnlyIf(a, <<x>>) \o OnlyIf(b, <<y>>) \o d \o OnlyIf(z, OnlyIf(q, <<u>>) \o <<v>>)

HasParts(S, c, p, a, x, b, y, d, e, z, q, u, v) ==
  /\ c \in Seq(S) /\ Len(c) = p + Len(d) + e
  /\ a => c[1] = x
  /\ b => c[p] = y
  /\ \A i \in 1..Len(d) : c[p + i] = d[i]
  /\ z => c[Len(c)] = v
  /\ z /\ q => c[Len(c) - 1] = u

LEMMA Pieces ==
  ASSUME NEW S, NEW x \in S, NEW y \in S, NEW u \in S, NEW v \in S, NEW d \in Seq(S),
         NEW a \in BOOLEAN, NEW b \in BOOLEAN, NEW q \in BOOLEAN, NEW z \in BOOLEAN
  PROVE  HasParts(S, Parted(a, x, b, y, d, z, q, u, v), Ahead(a, b), a, x, b, y, d,
                  Behind(z, q), z, q, u, v)
<1> DEFINE s == OnlyIf(a, <<x>>)
           t == OnlyIf(b, <<y>>)
           o == OnlyIf(q, <<u>>)
           r == OnlyIf(TRUE, <<v>>)
           w == OnlyIf(z, o \o <<v>>)
           na == Bit(a)
           nb == Bit(b)
           nq == Bit(q)
           nr == Bit(TRUE)
<1>1. /\ s \in Seq(S) /\ Len(s) = na /\ (a => s[1] = x)
      /\ t \in Seq(S) /\ Len(t) = nb /\ (b => t[1] = y)
      /\ o \in Seq(S) /\ Len(o) = nq /\ (q => o[1] = u)
      /\ r \in Seq(S) /\ Len(r) = nr /\ r[1] = v
  BY Optional
<1>2. r = <<v>> /\ w = IF z THEN o \o r ELSE << >>
  BY DEF OnlyIf
<1>3. /\ na \in 0..1 /\ nb \in 0..1 /\ nq \in 0..1
      /\ nr < 2 /\ nr > 0 /\ nr \in Nat
      /\ (a <=> na > 0) /\ (b <=> nb > 0) /\ (q <=> nq > 0)
  BY DEF Bit
<1> HIDE DEF na, nb, nq, nr
<1> HIDE DEF s, t, o, r
<1>4. /\ w \in Seq(S) /\ Len(w) = IF z THEN nq + 1 ELSE 0
      /\ z => w[Len(w)] = v
      /\ z /\ q => w[1] = u
  <2>1. CASE z
    <3>1. /\ o \o r \in Seq(S) /\ Len(o \o r) = Len(o) + Len(r)
          /\ \A j \in 1..Len(o) : (o \o r)[j] = o[j]
          /\ \A j \in 1..Len(r) : (o \o r)[Len(o) + j] = r[j]
      <4>1. o \in Seq(S) /\ r \in Seq(S)
        BY <1>1
      <4> QED
        BY <4>1, Concatenated
    <3>2. Len(o \o r) = nq + 1 /\ 1 \in 1..Len(r)
      BY <1>1, <1>3, <3>1
    <3>3. (o \o r)[nq + 1] = v
      BY <1>1, <3>1, <3>2
    <3>4. q => (o \o r)[1] = u
      <4>1. q => 1 \in 1..Len(o)
        BY <1>1, <1>3
      <4> QED
        BY <1>1, <3>1, <4>1
    <3> QED
      BY <1>2, <2>1, <3>1, <3>2, <3>3, <3>4
  <2>2. CASE ~z
    <3>1. << >> \in Seq(S) /\ Len(<< >>) = 0
      OBVIOUS
    <3> QED
      BY <1>2, <2>2, <3>1
  <2> QED
    BY <2>1, <2>2
<1> HIDE DEF w
<1>5. /\ s \o t \in Seq(S) /\ Len(s \o t) = na + nb
      /\ a => (s \o t)[1] = x
      /\ b => (s \o t)[na + nb] = y
  <2>1. /\ s \o t \in Seq(S) /\ Len(s \o t) = Len(s) + Len(t)
        /\ \A j \in 1..Len(s) : (s \o t)[j] = s[j]
        /\ \A j \in 1..Len(t) : (s \o t)[Len(s) + j] = t[j]
    <3>1. s \in Seq(S) /\ t \in Seq(S)
      BY <1>1
    <3> QED
      BY <3>1, Concatenated
  <2>2. a => (s \o t)[1] = x
    <3>1. a => 1 \in 1..Len(s)
      BY <1>1, <1>3
    <3> QED
      BY <1>1, <2>1, <3>1
  <2>3. b => (s \o t)[na + nb] = y
    <3>1. b => 1 \in 1..Len(t) /\ nb < 2
      BY <1>1, <1>3
    <3> QED
      BY <1>1, <2>1, <3>1
  <2> QED
    BY <1>1, <2>1, <2>2, <2>3
<1> DEFINE g == s \o t
           h == g \o d
           c == h \o w
           p == na + nb
<1>6. /\ g \in Seq(S) /\ Len(g) = p /\ p \in 0..2
      /\ a => g[1] = x /\ p > 0
      /\ b => g[p] = y /\ p > 0
  BY <1>3, <1>5
<1> HIDE DEF g, p
<1>7. /\ h \in Seq(S) /\ Len(h) = p + Len(d) /\ Len(d) \in Nat
      /\ \A j \in 1..p : h[j] = g[j]
      /\ \A j \in 1..Len(d) : h[p + j] = d[j]
  BY <1>6, Concatenated
<1> HIDE DEF h
<1>8. /\ c \in Seq(S) /\ Len(c) = Len(h) + Len(w) /\ Len(w) \in Nat
      /\ \A j \in 1..Len(h) : c[j] = h[j]
      /\ \A j \in 1..Len(w) : c[Len(h) + j] = w[j]
  <2>1. h \in Seq(S) /\ w \in Seq(S)
    BY <1>4, <1>7
  <2> QED
    BY <2>1, Concatenated
<1> HIDE DEF c
<1>9. ASSUME NEW j \in 1..p PROVE c[j] = g[j]
  BY <1>6, <1>7, <1>8
<1>10. ASSUME NEW j \in 1..Len(d) PROVE c[p + j] = d[j]
  BY <1>6, <1>7, <1>8
<1>11. z => c[Len(c)] = v
  BY <1>3, <1>4, <1>7, <1>8
<1>12. z /\ q => c[Len(c) - 1] = u
  BY <1>3, <1>4, <1>7, <1>8
<1>13. Len(c) = p + Len(d) + IF z THEN nq + 1 ELSE 0
  BY <1>4, <1>7, <1>8
<1>14. a => c[1] = x
  BY <1>6, <1>9
<1>15. b => c[p] = y
  BY <1>6, <1>9
<1>16. c = Parted(a, x, b, y, d, z, q, u, v)
  BY DEF c, h, g, s, t, w, o, Parted
<1>17. HasParts(S, c, p, a, x, b, y, d, IF z THEN nq + 1 ELSE 0, z, q, u, v)
  BY <1>8, <1>10, <1>11, <1>12, <1>13, <1>14, <1>15 DEF HasParts
<1> QED
  BY <1>16, <1>17 DEF p, na, nb, nq, Ahead, Behind

Pecs == Bit(pec_enabled)

\* What a call that writes has before its data and after it, on the wire.
Leads(c) == Ahead(c.start, c.restart)
Tails(c) == Behind(c.stop, pec_enabled)

Lead == IF off = 0 THEN Leads(Call) ELSE 0
Trail == IF Final THEN Tails(Call) ELSE 0

\* The bytes a call sends.
LEMMA CallBytes ==
  ASSUME NEW c \in Calls, c.fn = "write", NEW k \in 1..c.len
  PROVE  c.data[k] \in AppBytes /\ c.data[k] \in WireBytes /\ c.data[k] # PecOut
<1>1. c.data[k] \in AppBytes
  BY CallTypes
<1> QED
  BY <1>1 DEF AppBytes, WireBytes, PecOut, B

LEMMA PutTypes ==
  ASSUME NEW b \in WireBytes
  PROVE  Put(b) \in Ops /\ Put(b).op = "out" /\ Put(b).crc /\ Put(b).b = b
<1>1. Put(b) \in Outs
  BY DEF Put, Outs
<1> QED
  BY <1>1 DEF Put, Ops

\* A command of SMB_WRITE, piece by piece.
LEMMA WriteParts ==
  ASSUME Types, script # << >>, Call.fn = "write"
  PROVE  LET c == WriteCommand
         IN  /\ c \in Seq(Ops) /\ Len(c) = Lead + Size + Trail
             /\ off = 0 /\ Call.start => c[1] = Start
             /\ off = 0 /\ Call.restart => c[Lead] = Restart
             /\ \A k \in 1..Size : c[Lead + k] = Put(Call.data[off + k])
             /\ Final /\ Call.stop => c[Len(c)] = Stop
             /\ Final /\ Call.stop /\ pec_enabled => c[Len(c) - 1] = PutPec
<1> DEFINE a == off = 0 /\ Call.start
           b == off = 0 /\ Call.restart
           z == Final /\ Call.stop
           d == [k \in 1..Size |-> Put(Call.data[off + k])]
<1>1. /\ Size \in Nat /\ off \in Nat /\ off + Size <= Call.len /\ Call.len \in Nat
      /\ Call \in Calls /\ Final \in BOOLEAN
  BY Transfer DEF Types, Final
<1>2. Call.start \in BOOLEAN /\ Call.restart \in BOOLEAN /\ Call.stop \in BOOLEAN
  BY <1>1, CallTypes
<1>3. a \in BOOLEAN /\ b \in BOOLEAN /\ z \in BOOLEAN /\ pec_enabled \in BOOLEAN
  BY <1>1, <1>2 DEF Types
<1>4. d \in Seq(Ops) /\ Len(d) = Size /\ \A k \in 1..Size : d[k] = Put(Call.data[off + k])
  <2>1. ASSUME NEW k \in 1..Size PROVE Put(Call.data[off + k]) \in Ops
    <3>1. off + k \in 1..Call.len
      BY <1>1
    <3> QED
      BY <1>1, <3>1, CallBytes, PutTypes
  <2> QED
    BY <1>1, <2>1
<1>5. Start \in Ops /\ Restart \in Ops /\ PutPec \in Ops /\ Stop \in Ops
  BY Primitives
<1> DEFINE c == Parted(a, Start, b, Restart, d, z, pec_enabled, PutPec, Stop)
           e == Behind(z, pec_enabled)
<1>6. c = WriteCommand
  BY DEF WriteCommand, Parted
<1>7. Lead = Ahead(a, b) /\ Trail = e
  BY <1>1, <1>2 DEF Lead, Trail, Leads, Tails, Ahead, Behind, Bit
<1> HIDE DEF a, b, d, z
<1>8. HasParts(Ops, c, Lead, a, Start, b, Restart, d, Trail, z, pec_enabled, PutPec, Stop)
  <2>1. d \in Seq(Ops)
    BY <1>4
  <2>2. HasParts(Ops, c, Ahead(a, b), a, Start, b, Restart, d, e, z, pec_enabled,
                 PutPec, Stop)
    BY <1>3, <1>5, <2>1, Pieces
  <2> QED
    BY <1>7, <2>2
<1> HIDE DEF c
<1>9. Len(c) = Lead + Size + Trail
  BY <1>4, <1>8 DEF HasParts
<1>10. \A k \in 1..Size : c[Lead + k] = Put(Call.data[off + k])
  BY <1>4, <1>8 DEF HasParts
<1> QED
  BY <1>6, <1>8, <1>9, <1>10 DEF a, b, z, HasParts

\* Where the parts are.
LEMMA PartSizes ==
  ASSUME Types, script # << >>, Call.fn = "write"
  PROVE  /\ Lead \in 0..2 /\ Trail \in 0..2
         /\ Trail > 0 <=> Final /\ Call.stop
         /\ Trail = 2 <=> Final /\ Call.stop /\ pec_enabled
         /\ Lead > 0 <=> off = 0 /\ (Call.start \/ Call.restart)
         /\ Lead = 2 <=> off = 0 /\ Call.start /\ Call.restart
<1>1. Call.start \in BOOLEAN /\ Call.restart \in BOOLEAN /\ Call.stop \in BOOLEAN
  BY Transfer, CallTypes
<1>2. pec_enabled \in BOOLEAN /\ Final \in BOOLEAN /\ off \in Nat
  BY DEF Types, Final
<1> QED
  BY <1>1, <1>2 DEF Lead, Trail, Leads, Tails, Ahead, Behind, Bit

LEMMA Writing ==
  ASSUME Types, script # << >>, Call.fn = "write"
  PROVE  LET c == WriteCommand
         IN  /\ c \in Seq(Ops) /\ Len(c) = Lead + Size + Trail
             /\ Lead \in 0..2 /\ Trail \in 0..2
             /\ \A i \in 1..Lead : c[i].op \in {"start", "restart"}
             /\ \A i \in (Lead + 1)..(Lead + Size) :
                  c[i].op = "out" /\ c[i].crc /\ c[i].b # PecOut
             /\ Trail > 0 <=> Final /\ Call.stop
             /\ Trail > 0 => c[Len(c)] = Stop
             /\ Trail = 2 => pec_enabled /\ c[Lead + Size + 1] = PutPec
<1> DEFINE c == WriteCommand
<1>1. /\ c \in Seq(Ops) /\ Len(c) = Lead + Size + Trail
      /\ off = 0 /\ Call.start => c[1] = Start
      /\ off = 0 /\ Call.restart => c[Lead] = Restart
      /\ \A k \in 1..Size : c[Lead + k] = Put(Call.data[off + k])
      /\ Final /\ Call.stop => c[Len(c)] = Stop
      /\ Final /\ Call.stop /\ pec_enabled => c[Len(c) - 1] = PutPec
  BY WriteParts
<1> HIDE DEF c
<1>2. /\ Lead \in 0..2 /\ Trail \in 0..2
      /\ Trail > 0 <=> Final /\ Call.stop
      /\ Trail = 2 <=> Final /\ Call.stop /\ pec_enabled
      /\ Lead > 0 <=> off = 0 /\ (Call.start \/ Call.restart)
      /\ Lead = 2 <=> off = 0 /\ Call.start /\ Call.restart
  BY PartSizes
<1>3. /\ Size \in Nat /\ off \in Nat /\ off + Size <= Call.len /\ Call.len \in Nat
      /\ Call \in Calls
  BY Transfer DEF Types
<1>4. ASSUME NEW i \in 1..Lead PROVE c[i].op \in {"start", "restart"}
  <2>1. off = 0 /\ (i = 1 \/ i = Lead) /\ (i = 1 /\ i # Lead => Call.start)
        /\ (i = 1 /\ i = Lead => Call.start \/ Call.restart) /\ (i # 1 => Call.restart)
    BY <1>2
  <2> QED
    BY <1>1, <2>1, Primitives
<1>5. ASSUME NEW i \in (Lead + 1)..(Lead + Size)
      PROVE  c[i].op = "out" /\ c[i].crc /\ c[i].b # PecOut
  <2>1. i - Lead \in 1..Size /\ off + (i - Lead) \in 1..Call.len /\ i = Lead + (i - Lead)
    BY <1>2, <1>3
  <2>2. c[i] = Put(Call.data[off + (i - Lead)])
    BY <1>1, <2>1
  <2> QED
    BY <1>3, <2>1, <2>2, CallBytes, PutTypes
<1>6. Trail = 2 => Len(c) - 1 = Lead + Size + 1
  BY <1>1, <1>2, <1>3
<1> QED
  BY <1>1, <1>2, <1>4, <1>5, <1>6 DEF c

\* A command of SMB_READ, byte by byte.
AtEnd == Final /\ Call.lastRead
ReadSize == Size + Bit(pec_enabled /\ AtEnd)

LEMMA ReadParts ==
  ASSUME Types, script # << >>, Call.fn = "read"
  PROVE  LET c == ReadCommand
         IN  /\ c \in Seq(Ops) /\ Len(c) = ReadSize /\ ReadSize \in Nat \ {0}
             /\ \A i \in 1..ReadSize :
                  /\ c[i] = Get(FirstRead(i), FirstRead(i) /\ ReadSize = 1,
                                AtEnd /\ i = ReadSize - 1, AtEnd /\ i = ReadSize)
                  /\ c[i].op = "in" /\ (c[i].last <=> AtEnd /\ i = ReadSize)
<1> DEFINE j == ReadSize
           g(i) == Get(FirstRead(i), FirstRead(i) /\ j = 1, AtEnd /\ i = j - 1, AtEnd /\ i = j)
           c  == ReadCommand
<1>1. c = [i \in 1..j |-> g(i)]
  BY DEF ReadCommand, AtEnd, ReadSize, Bit
<1>2. Size \in Nat \ {0}
  BY Transfer
<1>3. j \in Nat /\ j > 0
  BY <1>2 DEF ReadSize, Bit
<1>4. AtEnd \in BOOLEAN
  BY Transfer, CallTypes DEF Final, AtEnd
<1> HIDE DEF j
<1>5. ASSUME NEW i \in 1..j PROVE g(i) \in Ops /\ g(i).op = "in" /\ g(i).last = (AtEnd /\ i = j)
  <2>1. /\ FirstRead(i) \in BOOLEAN /\ (FirstRead(i) /\ j = 1) \in BOOLEAN
        /\ (AtEnd /\ i = j - 1) \in BOOLEAN /\ (AtEnd /\ i = j) \in BOOLEAN
    BY <1>4 DEF FirstRead
  <2>2. ASSUME NEW f \in BOOLEAN, NEW o \in BOOLEAN, NEW b \in BOOLEAN, NEW l \in BOOLEAN
        PROVE  Get(f, o, b, l) \in Ops /\ Get(f, o, b, l).op = "in" /\ Get(f, o, b, l).last = l
    <3>1. Get(f, o, b, l) \in Ins
      BY DEF Get, Ins
    <3> QED
      BY <3>1 DEF Get, Ops
  <2> QED
    BY <2>1, <2>2
<1> HIDE DEF c, g
<1>6. c \in Seq(Ops) /\ Len(c) = j
  <2>1. \A i \in 1..j : g(i) \in Ops
    BY <1>5
  <2> QED
    BY <1>1, <1>3, <2>1
<1>7. \A i \in 1..j : c[i] = g(i)
  BY <1>1
<1>8. ASSUME NEW i \in 1..j PROVE c[i].op = "in" /\ (c[i].last <=> AtEnd /\ i = j)
  BY <1>4, <1>5, <1>7
<1> QED
  BY <1>3, <1>6, <1>7, <1>8 DEF c, g, j

\* The command of a request.
Command == IF Call.fn = "write" THEN WriteCommand ELSE ReadCommand

LEMMA Commands ==
  ASSUME Types, script # << >>
  PROVE  /\ Command \in Seq(Ops) /\ Len(Command) \in Nat /\ Len(Command) > 0
         /\ Call.fn = "write" =>
              (\E p \in 0..2 : PutsAt(Command, p, Size)) /\ NoReads(Command)
         /\ GivesBack(Call) /\ Final => Closes(Command[Len(Command)])
         /\ PecLast(Command)
         /\ Sealed(Command) => /\ pec_enabled /\ NoReads(Command) /\ Final
                               /\ Call.fn = "write" /\ Call.stop
<1> DEFINE c == Command
<1>0. Call.fn \in {"write", "read"} /\ Size \in Nat \ {0}
  BY Transfer, CallTypes
<1>1. CASE Call.fn = "write"
  <2>1. PICK p \in 0..2, e \in 0..2 :
          /\ c \in Seq(Ops) /\ Len(c) = p + Size + e
          /\ \A i \in 1..p : c[i].op \in {"start", "restart"}
          /\ \A i \in (p + 1)..(p + Size) : c[i].op = "out" /\ c[i].crc /\ c[i].b # PecOut
          /\ e > 0 <=> Final /\ Call.stop
          /\ e > 0 => c[Len(c)] = Stop
          /\ e = 2 => pec_enabled /\ c[p + Size + 1] = PutPec
    <3>1. Command = WriteCommand
      BY <1>1 DEF Command
    <3> QED
      BY <1>1, <3>1, Writing
  <2> HIDE DEF c
  <2>2. ASSUME NEW i \in 1..Len(c), i > p + Size
        PROVE  \/ c[i] = Stop
               \/ e = 2 /\ c[i] = PutPec /\ i + 1 = Len(c) /\ c[i + 1] = Stop
    <3>1. e > 0 /\ (i = Len(c) \/ (e = 2 /\ i = p + Size + 1 /\ i + 1 = Len(c)))
      BY <1>0, <2>1, <2>2
    <3> QED
      BY <2>1, <3>1
  <2>3. ASSUME NEW i \in 1..Len(c)
        PROVE  /\ i <= p => c[i].op \in {"start", "restart"}
               /\ p < i /\ i <= p + Size => c[i].op = "out" /\ c[i].crc /\ c[i].b # PecOut
    BY <1>0, <2>1
  <2>4. PutsAt(c, p, Size)
    <3>1. ASSUME NEW i \in 1..Len(c) PROVE IsPut(c[i]) <=> p < i /\ i <= p + Size
      BY <1>0, <2>2, <2>3, Primitives DEF IsPut
    <3> QED
      BY <1>0, <2>1, <3>1 DEF PutsAt
  <2>5. NoReads(c)
    BY <1>0, <2>1, <2>2, <2>3, Primitives DEF NoReads
  <2>6. GivesBack(Call) /\ Final => Closes(c[Len(c)])
    BY <1>1, <2>1, Primitives DEF GivesBack, Closes
  <2>7. PecLast(c)
    BY <1>0, <2>1, <2>2, <2>3, Primitives DEF PecLast
  <2>8. ASSUME Sealed(c) PROVE pec_enabled /\ Final /\ Call.stop
    <3>1. PICK i \in 1..Len(c) : c[i] = PutPec
      BY <2>8 DEF Sealed
    <3>2. i > p + Size
      BY <1>0, <2>1, <2>3, <3>1, Primitives
    <3>3. e = 2
      BY <2>2, <3>1, <3>2, Primitives
    <3> QED
      BY <2>1, <3>3
  <2>9. Len(c) \in Nat /\ Len(c) > 0
    BY <1>0, <2>1
  <2> QED
    BY <1>1, <2>1, <2>4, <2>5, <2>6, <2>7, <2>8, <2>9 DEF c
<1>2. CASE Call.fn = "read"
  <2>1. /\ c \in Seq(Ops) /\ Len(c) > 0 /\ Len(c) \in Nat
        /\ \A i \in 1..Len(c) : c[i].op = "in"
        /\ Final /\ Call.lastRead => c[Len(c)].last
    <3>1. Command = ReadCommand
      BY <1>2 DEF Command
    <3>2. /\ ReadCommand \in Seq(Ops) /\ Len(ReadCommand) = ReadSize /\ ReadSize \in Nat \ {0}
          /\ \A i \in 1..ReadSize :
               ReadCommand[i].op = "in" /\ (ReadCommand[i].last <=> AtEnd /\ i = ReadSize)
      BY <1>2, ReadParts
    <3> QED
      BY <3>1, <3>2 DEF AtEnd
  <2> HIDE DEF c
  <2>2. Len(c) \in 1..Len(c)
    BY <2>1
  <2>3. GivesBack(Call) /\ Final => Closes(c[Len(c)])
    BY <1>2, <2>1, <2>2 DEF GivesBack, Closes
  <2>4. PecLast(c) /\ ~Sealed(c)
    BY <2>1, Primitives DEF PecLast, Sealed
  <2> QED
    BY <1>2, <2>1, <2>3, <2>4 DEF c
<1> QED
  BY <1>0, <1>1, <1>2

-----------------------------------------------------------------------------
(* Bytes acknowledged                                                       *)

\* The first primitive of s is called.
LEMMA PutCalled ==
  ASSUME NEW s \in Seq(Ops), s # << >>, NEW p \in Nat, NEW r \in Nat, PutsAt(s, p, r)
  PROVE  /\ IsPut(Head(s)) => p = 0 /\ r > 0 /\ PutsAt(Tail(s), 0, r - 1)
         /\ ~IsPut(Head(s)) => IF p = 0 THEN r = 0 /\ PutsAt(Tail(s), 0, 0)
                                        ELSE PutsAt(Tail(s), p - 1, r)
<1> DEFINE t == Tail(s)
<1>1. /\ Len(s) \in Nat /\ Len(s) > 0 /\ Len(t) = Len(s) - 1 /\ Head(s) = s[1]
      /\ \A j \in 1..(Len(s) - 1) : t[j] = s[j + 1]
  BY Shorter
<1>2. p + r <= Len(s) /\ \A i \in 1..Len(s) : IsPut(s[i]) <=> p < i /\ i <= p + r
  BY DEF PutsAt
<1> HIDE DEF t
<1>3. IsPut(Head(s)) <=> p = 0 /\ r > 0
  BY <1>1, <1>2
<1>4. \A j \in 1..Len(t) : IsPut(t[j]) <=> p < j + 1 /\ j + 1 <= p + r
  BY <1>1, <1>2
<1>5. CASE IsPut(Head(s))
  <2>1. PutsAt(t, 0, r - 1)
    BY <1>1, <1>2, <1>3, <1>4, <1>5 DEF PutsAt
  <2> QED
    BY <1>3, <1>5, <2>1 DEF t
<1>6. CASE ~IsPut(Head(s)) /\ p = 0
  <2>1. r = 0 /\ PutsAt(t, 0, 0)
    BY <1>1, <1>2, <1>3, <1>4, <1>6 DEF PutsAt
  <2> QED
    BY <1>6, <2>1 DEF t
<1>7. CASE ~IsPut(Head(s)) /\ p # 0
  <2>1. PutsAt(t, p - 1, r)
    BY <1>1, <1>2, <1>4, <1>7 DEF PutsAt
  <2> QED
    BY <1>7, <2>1 DEF t
<1> QED
  BY <1>5, <1>6, <1>7

\* What every primitive leaves alone.
Steady == UNCHANGED <<pc, script, off, ret, busy, pec_enabled>>

LEMMA SteadyCall ==
  ASSUME Steady
  PROVE  Call' = Call /\ Size' = Size /\ (Final' <=> Final)
BY DEF Steady, Call, Size, Final

\* A primitive succeeds.
LEMMA Advancing ==
  ASSUME AInv, todo # << >>, Steady, Advance, owned' \in BOOLEAN,
         Head(todo).op # "stop" \/ ~owned',
         acked' = IF IsPut(Head(todo)) THEN acked + 1 ELSE acked
  PROVE  AInv' /\ (stall => Head(todo).op = "stop")
<1>1. Types /\ Acks
  BY DEF AInv
<1>2. /\ Tail(todo) \in Seq(Ops) /\ Head(todo) = todo[1] /\ Head(todo) \in Ops
      /\ todo' = Tail(todo) /\ stall' = stall
  BY <1>1, Shorter DEF Types, Advance
<1>3. ASSUME stall PROVE Head(todo).op = "stop" /\ todo' = << >>
  <2>1. todo = <<Stop>>
    BY <1>1, <1>3 DEF Types
  <2>2. Head(<<Stop>>) = Stop /\ Tail(<<Stop>>) = << >>
    OBVIOUS
  <2> QED
    BY <1>2, <2>1, <2>2, Primitives
<1>4. busy
  BY <1>1 DEF Types
<1>5. Types'
  BY <1>1, <1>2, <1>3, <1>4, SteadyCall DEF Types, Steady
<1>6. ASSUME pc = "waits", Call.fn = "write", ~stall
      PROVE  /\ acked' <= off + Size
             /\ \E p \in 0..2 : PutsAt(todo', p, off + Size - acked')
  <2>1. /\ acked <= off + Size /\ acked \in Nat /\ off \in Nat /\ Size \in Nat
    <3>1. script # << >>
      BY <1>1, <1>6 DEF Types
    <3> QED
      BY <1>1, <1>6, <3>1, Transfer DEF Types, Acks
  <2>2. PICK p \in 0..2 : PutsAt(todo, p, off + Size - acked)
    BY <1>1, <1>6 DEF Acks
  <2>3. todo \in Seq(Ops)
    BY <1>1 DEF Types
  <2> DEFINE r == off + Size - acked
  <2>4. r \in Nat /\ p \in Nat
    BY <2>1
  <2>5. /\ IsPut(Head(todo)) => p = 0 /\ r > 0 /\ PutsAt(todo', 0, r - 1)
        /\ ~IsPut(Head(todo)) => IF p = 0 THEN r = 0 /\ PutsAt(todo', 0, 0)
                                          ELSE PutsAt(todo', p - 1, r)
    <3> HIDE DEF r
    <3> QED
      BY <1>2, <2>2, <2>3, <2>4, PutCalled DEF r
  <2>6. CASE IsPut(Head(todo))
    <3>1. acked' = acked + 1 /\ off + Size - acked' = r - 1
      BY <2>1, <2>6
    <3>2. PutsAt(todo', 0, off + Size - acked') /\ r > 0
      BY <2>5, <2>6, <3>1
    <3>3. acked' <= off + Size
      BY <2>1, <3>1, <3>2
    <3> QED
      BY <3>2, <3>3
  <2>7. CASE ~IsPut(Head(todo))
    <3>1. acked' = acked
      BY <2>7
    <3>2. CASE p = 0
      <4>1. r = 0 /\ PutsAt(todo', 0, r)
        BY <2>5, <2>7, <3>2
      <4> QED
        BY <2>1, <3>1, <4>1
    <3>3. CASE p # 0
      <4>1. PutsAt(todo', p - 1, r) /\ p - 1 \in 0..2
        BY <2>5, <2>7, <3>3
      <4> QED
        BY <2>1, <3>1, <4>1
    <3> QED
      BY <3>2, <3>3
  <2> QED
    BY <2>6, <2>7
<1>7. Acks'
  BY <1>1, <1>2, <1>4, <1>6, SteadyCall DEF Acks, Types, Steady
<1> QED
  BY <1>3, <1>5, <1>7 DEF AInv

\* A primitive fails.
LEMMA GivingUp ==
  ASSUME AInv, todo # << >>, Steady, GiveUp, owned' \in BOOLEAN, acked' = acked
  PROVE  AInv'
<1>1. Types /\ Acks
  BY DEF AInv
<1>2. todo' = <<Stop>> /\ stall' = TRUE /\ <<Stop>> \in Seq(Ops)
  BY Primitives DEF GiveUp
<1>3. busy
  BY <1>1 DEF Types
<1>4. Types'
  BY <1>1, <1>2, <1>3, SteadyCall DEF Types, Steady
<1>5. Acks'
  BY <1>1, <1>2, <1>3, SteadyCall DEF Acks, Types, Steady
<1> QED
  BY <1>4, <1>5 DEF AInv

\* A write request is over: all its bytes were acknowledged.
LEMMA AllAcked ==
  ASSUME AInv, pc = "waits", Call.fn = "write", ~stall, todo = << >>
  PROVE  acked = off + Size
<1>1. /\ acked <= off + Size
      /\ \E p \in 0..2 : PutsAt(todo, p, off + Size - acked)
  BY DEF AInv, Acks
<1>2. PICK p \in 0..2 : p + (off + Size - acked) <= 0
  <2>1. Len(todo) = 0
    OBVIOUS
  <2> QED
    BY <1>1, <2>1 DEF PutsAt
<1>3. acked \in Nat /\ off \in Nat /\ Size \in Nat
  BY Transfer DEF AInv, Types
<1> QED
  BY <1>1, <1>2, <1>3

\* A call of more than one is over: the next one is a call.
LEMMA NextCall ==
  ASSUME Types, Len(script) # 1, script # << >>
  PROVE  /\ Tail(script) \in Seq(Calls) /\ Tail(script) # << >>
         /\ Head(Tail(script)) = script[2] /\ Head(Tail(script)) \in Calls
         /\ Head(Tail(script)).len > 0
<1>1. script \in Seq(Calls) /\ Len(script) \in Nat /\ Len(script) > 0
  BY DEF Types
<1>2. Len(script) > 1
  BY <1>1
<1>3. /\ Tail(script) \in Seq(Calls) /\ Tail(script) # << >>
      /\ Len(Tail(script)) = Len(script) - 1
      /\ \A j \in 1..(Len(script) - 1) : Tail(script)[j] = script[j + 1]
  BY <1>1, <1>2, Shorter
<1>4. Head(Tail(script)) = Tail(script)[1] /\ Head(Tail(script)) \in Calls
  BY <1>3, Shorter
<1>5. Tail(script)[1] = script[2]
  BY <1>2, <1>1, <1>3
<1> QED
  BY <1>3, <1>4, <1>5, CallTypes

\* A call returns.
LEMMA Returning ==
  ASSUME AInv, script # << >>, NEW r \in Int, CallReturns(r), busy' \in BOOLEAN,
         r < 0 \/ ~busy', busy' \/ todo = << >>,
         UNCHANGED <<todo, stall, owned, pec_enabled, acked>>
  PROVE  AInv'
<1>1. Types /\ Acks /\ ret' = r /\ off' = 0
  BY DEF AInv, CallReturns
<1>2. CASE r < 0 \/ Len(script) = 1
  <2>1. pc' = "idle" /\ script' = << >>
    BY <1>2 DEF CallReturns
  <2>2. Types'
    BY <1>1, <2>1 DEF Types
  <2> QED
    BY <2>1, <2>2 DEF AInv, Acks
<1>3. CASE ~(r < 0 \/ Len(script) = 1)
  <2>1. pc' = "ready" /\ script' = Tail(script)
    BY <1>3 DEF CallReturns
  <2>2. script' \in Seq(Calls) /\ script' # << >> /\ off' < Call'.len
    BY <1>1, <1>3, <2>1, NextCall DEF Call
  <2>3. Types'
    BY <1>1, <1>3, <2>1, <2>2 DEF Types
  <2> QED
    BY <1>1, <2>1, <2>3 DEF AInv, Acks
<1> QED
  BY <1>2, <1>3

LEMMA AInvInit ==
  ASSUME Init
  PROVE  AInv
<1>1. << >> \in Seq(Calls) /\ << >> \in Seq(Ops)
  OBVIOUS
<1>2. /\ pc = "idle" /\ script = << >> /\ off = 0 /\ ret = 0 /\ acked = 0
      /\ todo = << >> /\ ~owned /\ ~busy /\ ~stall
      /\ owned \in BOOLEAN /\ busy \in BOOLEAN /\ stall \in BOOLEAN
      /\ pec_enabled \in BOOLEAN
  BY DEF Init, BusInit
<1>3. Types
  BY <1>1, <1>2 DEF Types
<1>4. Acks
  BY DEF Init, Acks
<1> QED
  BY <1>3, <1>4 DEF AInv

LEMMA AInvRequest ==
  ASSUME AInv, Request
  PROVE  AInv'
<1>1. Types /\ Acks /\ pc = "ready" /\ script # << >>
  BY DEF AInv, Types, Request
<1>2. /\ pc' = "waits" /\ busy' = TRUE /\ stall' = FALSE /\ todo' = Command
      /\ acked' = IF off = 0 THEN 0 ELSE acked
      /\ UNCHANGED <<script, off, ret, pec_enabled, owned>>
  BY DEF Request, Command, busVars
<1>3. Call' = Call /\ Size' = Size
  BY <1>2 DEF Call, Size
<1>4. /\ Command \in Seq(Ops)
      /\ Call.fn = "write" => \E p \in 0..2 : PutsAt(Command, p, Size)
  BY <1>1, Commands
<1>5. Types'
  BY <1>1, <1>2, <1>3, <1>4 DEF Types
<1>6. ASSUME Call.fn = "write"
      PROVE  acked' <= off + Size /\ \E p \in 0..2 : PutsAt(todo', p, off + Size - acked')
  <2>1. acked' = off
    BY <1>1, <1>2, <1>6 DEF Acks
  <2>2. Size \in Nat /\ off \in Nat
    BY <1>1, Transfer DEF Types
  <2>3. acked' <= off + Size /\ off + Size - acked' = Size
    BY <2>1, <2>2
  <2> QED
    BY <1>2, <1>4, <1>6, <2>3
<1>7. Acks'
  BY <1>2, <1>3, <1>6 DEF Acks
<1> QED
  BY <1>5, <1>7 DEF AInv

LEMMA AInvRequestDone ==
  ASSUME AInv, RequestDone
  PROVE  AInv'
<1>1. /\ Types /\ Acks /\ pc = "waits" /\ script # << >> /\ busy /\ todo = << >>
      /\ busy' = FALSE /\ UNCHANGED <<todo, stall, owned, pec_enabled, acked>>
  BY DEF AInv, Types, RequestDone, busVars, ghosts
<1>2. CASE ~StatusOK
  <2>1. CallReturns(-1)
    BY <1>2 DEF RequestDone, TransferFails
  <2>2. ~busy' /\ busy' \in BOOLEAN
    BY <1>1
  <2>3. -1 \in Int
    OBVIOUS
  <2> QED
    BY <1>1, <2>1, <2>2, <2>3, Returning
<1>3. CASE StatusOK /\ Final
  <2>1. PICK r \in Int : CallReturns(r)
    <3>1. Call.len \in Int /\ Size \in Int
      BY <1>1, Transfer
    <3> QED
      BY <1>3, <3>1 DEF RequestDone
  <2>2. ~busy' /\ busy' \in BOOLEAN
    BY <1>1
  <2> QED
    BY <1>1, <2>1, <2>2, Returning
<1>4. CASE StatusOK /\ ~Final
  <2>1. /\ pc' = "ready" /\ off' = off + Size /\ UNCHANGED <<script, ret>>
    BY <1>4 DEF RequestDone
  <2>2. Call' = Call /\ off' \in Nat /\ off' < Call.len
    BY <1>1, <1>4, <2>1, Transfer DEF Types, Call
  <2>3. Types'
    BY <1>1, <2>1, <2>2 DEF Types
  <2>4. Call.fn = "write" => acked = off + Size
    BY <1>1, <1>4, AllAcked DEF StatusOK
  <2>5. Acks'
    BY <1>1, <2>1, <2>2, <2>4 DEF Acks
  <2> QED
    BY <2>3, <2>5 DEF AInv
<1> QED
  BY <1>2, <1>3, <1>4

\* Each primitive keeps what AInv says, and either succeeds or gives up.
LEMMA Kept ==
  ASSUME AInv, Primitive
  PROVE  /\ AInv' /\ todo # << >> /\ Steady /\ Head(todo) \in Ops
         /\ \/ Advance /\ (stall => Head(todo).op = "stop")
            \/ GiveUp /\ ~stall
<1>1. /\ Types /\ todo # << >> /\ Steady
  BY DEF AInv, Primitive, Starts, StartFails, Restarts, OutAcked, OutFails, Stops,
         InRead, InTimesOut, At, Steady, hostVars
<1>2. Head(todo) \in Ops /\ Types
  BY <1>1, Shorter DEF Types
<1>3. owned \in BOOLEAN /\ acked \in Nat
  BY <1>1 DEF Types
<1>4. ASSUME stall PROVE Head(todo).op = "stop"
  <2>1. todo = <<Stop>> /\ Head(<<Stop>>) = Stop
    BY <1>1, <1>4 DEF Types
  <2> QED
    BY <2>1, Primitives
<1>5. CASE Starts \/ Restarts
  <2>1. /\ Advance /\ owned' = TRUE /\ acked' = acked /\ Head(todo).op \in {"start", "restart"}
    BY <1>5 DEF Starts, Restarts, i2c_start, i2c_restart, At, ghosts
  <2>2. ~IsPut(Head(todo)) /\ Head(todo).op # "stop"
    BY <2>1 DEF IsPut
  <2> QED
    BY <1>1, <1>2, <1>4, <2>1, <2>2, Advancing
<1>6. CASE StartFails
  <2>1. /\ GiveUp /\ owned' = owned /\ acked' = acked /\ Head(todo).op = "start"
    BY <1>6 DEF StartFails, At, busVars
  <2> QED
    BY <1>1, <1>2, <1>3, <1>4, <2>1, GivingUp
<1>7. CASE OutAcked
  <2>1. /\ Advance /\ owned' = owned /\ Head(todo).op = "out"
        /\ acked' = IF Head(todo).crc THEN acked + 1 ELSE acked
    BY <1>7 DEF OutAcked, ByteOutAck, At
  <2>2. IsPut(Head(todo)) <=> Head(todo).crc
    BY <2>1 DEF IsPut
  <2>3. acked' = IF IsPut(Head(todo)) THEN acked + 1 ELSE acked
    BY <2>1, <2>2
  <2> QED
    BY <1>1, <1>2, <1>3, <1>4, <2>1, <2>3, Advancing
<1>8. CASE OutFails
  <2>1. /\ GiveUp /\ owned' \in BOOLEAN /\ acked' = acked /\ Head(todo).op = "out"
    BY <1>3, <1>8 DEF OutFails, At, ByteOutNak, ByteOutTimeout, i2c_stop
  <2> QED
    BY <1>1, <1>2, <1>3, <1>4, <2>1, GivingUp
<1>9. CASE Stops
  <2>1. /\ Advance /\ owned' = FALSE /\ acked' = acked /\ Head(todo).op = "stop"
    BY <1>9 DEF Stops, i2c_stop, At, ghosts
  <2>2. ~IsPut(Head(todo)) /\ ~owned' /\ owned' \in BOOLEAN
    BY <2>1 DEF IsPut
  <2> QED
    BY <1>1, <1>2, <1>4, <2>1, <2>2, Advancing
<1>10. CASE InRead \/ InTimesOut
  <2>1. /\ Advance /\ owned' \in BOOLEAN /\ acked' = acked /\ Head(todo).op = "in"
    BY <1>10 DEF InRead, InTimesOut, ByteIn, ByteInTimeout, i2c_stop, At
  <2>2. ~IsPut(Head(todo)) /\ Head(todo).op # "stop"
    BY <2>1 DEF IsPut
  <2> QED
    BY <1>1, <1>2, <1>4, <2>1, <2>2, Advancing
<1> QED
  BY <1>5, <1>6, <1>7, <1>8, <1>9, <1>10 DEF Primitive

LEMMA AInvStep ==
  ASSUME AInv, [Next]_vars
  PROVE  AInv'
<1>0. Types /\ Acks
  BY DEF AInv
<1>1. CASE Begin
  <2>1. /\ pc' = "ready" /\ ~busy /\ off' = 0 /\ acked' = 0
        /\ script' \in Transactions
        /\ UNCHANGED <<ret, todo, owned, busy, stall, pec_enabled>>
    BY <1>1 DEF Begin, fwVars
  <2>2. script' \in Seq(Calls) /\ script' # << >>
    BY <2>1, TransactionsAssumption
  <2>3. Call'.len > 0
    BY <2>2, Shorter, CallTypes DEF Call
  <2>4. Types'
    BY <1>0, <2>1, <2>2, <2>3 DEF Types
  <2> QED
    BY <2>1, <2>4 DEF AInv, Acks
<1>2. CASE EnablePEC
  <2>1. /\ pc = "idle" /\ pec_enabled' = ~pec_enabled
        /\ UNCHANGED <<pc, script, off, ret, acked, todo, owned, busy, stall>>
    BY <1>2 DEF EnablePEC, ghosts
  <2>2. pec_enabled' \in BOOLEAN
    BY <2>1
  <2>3. Types'
    BY <1>0, <2>1, <2>2 DEF Types, Call
  <2> QED
    BY <2>1, <2>3 DEF AInv, Acks
<1>3. CASE Request
  BY <1>3, AInvRequest
<1>4. CASE RequestDone
  BY <1>4, AInvRequestDone
<1>5. CASE HostTimesOut
  <2>1. /\ CallReturns(-1) /\ script # << >> /\ busy \in BOOLEAN /\ (busy \/ todo = << >>)
        /\ UNCHANGED <<todo, stall, owned, busy, pec_enabled, acked>>
    BY <1>0, <1>5 DEF HostTimesOut, TimesOut, Types, fwVars, busVars
  <2>2. busy' \in BOOLEAN /\ (busy' \/ todo = << >>)
    BY <2>1
  <2> QED
    BY <2>1, <2>2, Returning
<1>6. CASE OrphanDone
  <2>1. /\ todo = << >> /\ pc # "waits" /\ busy' = FALSE
        /\ UNCHANGED <<pc, script, off, ret, acked, todo, owned, stall, pec_enabled>>
    BY <1>6 DEF OrphanDone, hostVars, busVars, ghosts
  <2>2. Types'
    BY <1>0, <2>1 DEF Types, Call
  <2>3. Acks'
    BY <1>0, <2>1 DEF Acks, Call
  <2> QED
    BY <2>2, <2>3 DEF AInv
<1>7. CASE Primitive
  BY <1>7, Kept
<1>8. CASE UNCHANGED vars
  <2>1. UNCHANGED <<pc, script, off, ret, acked, todo, owned, busy, stall, pec_enabled>>
    BY <1>8 DEF vars, busVars, hostVars, fwVars, ghosts
  <2>2. Types'
    BY <1>0, <2>1 DEF Types, Call
  <2>3. Acks'
    BY <1>0, <2>1 DEF Acks, Call, Size
  <2> QED
    BY <2>2, <2>3 DEF AInv
<1> QED
  BY <1>1, <1>2, <1>3, <1>4, <1>5, <1>6, <1>7, <1>8 DEF Next

\* What follows is true of every state the program reaches: the types, and how
\* many bytes were acknowledged when so many are still to be sent.
THEOREM Invariance == Spec => []AInv
<1>1. Init => AInv
  BY AInvInit
<1>2. AInv /\ [Next]_vars => AInv'
  BY AInvStep
<1> QED
  BY <1>1, <1>2, PTL DEF Spec

\* A call of SMBWrite that returns its length has had every byte acknowledged,
\* whatever the size of a transfer, of the call and of the ones before it.
THEOREM WritesAreAcknowledged == Spec => WriteAcked
<1>1. ASSUME AInv, [Next]_vars,
             pc = "waits", Call.fn = "write", script' # script, ret' > 0
      PROVE  acked = Call.len
  <2>1. Types /\ script # << >>
    BY <1>1 DEF AInv, Types
  <2>2. CASE RequestDone
    <3>1. StatusOK
      BY <1>1, <2>2 DEF RequestDone, TransferFails, CallReturns
    <3>2. Final
      BY <1>1, <2>2, <3>1 DEF RequestDone
    <3>3. acked = off + Size
      BY <1>1, <2>2, <3>1, AllAcked DEF RequestDone, StatusOK
    <3> QED
      BY <2>1, <3>2, <3>3, Transfer
  <2>3. CASE HostTimesOut
    BY <1>1, <2>3 DEF HostTimesOut, TimesOut, CallReturns
  <2>4. CASE Primitive
    <3>1. Steady
      BY <1>1, <2>4, Kept
    <3> QED
      BY <1>1, <3>1 DEF Steady
  <2>5. CASE Begin \/ EnablePEC \/ Request \/ OrphanDone \/ UNCHANGED vars
    BY <1>1, <2>5 DEF Begin, EnablePEC, Request, OrphanDone, hostVars, vars
  <2> QED
    BY <1>1, <2>2, <2>3, <2>4, <2>5 DEF Next
<1>2. AInv /\ [Next]_vars =>
        [pc = "waits" /\ Call.fn = "write" /\ script' # script /\ ret' > 0
           => acked = Call.len]_vars
  BY <1>1
<1> QED
  BY <1>2, Invariance, PTL DEF Spec, WriteAcked

-----------------------------------------------------------------------------
(* The bus                                                                  *)

\* A primitive that gives the bus back has given it back.
LEMMA Closed ==
  ASSUME Primitive, Closes(Head(todo))
  PROVE  ~owned'
<1>1. CASE Stops
  BY <1>1 DEF Stops, i2c_stop
<1>2. CASE InRead
  <2>1. Head(todo).last
    BY <1>2 DEF InRead, At, Closes
  <2> QED
    BY <1>2, <2>1 DEF InRead, ByteIn
<1>3. CASE InTimesOut
  BY <1>3 DEF InTimesOut, ByteInTimeout, i2c_stop
<1>4. CASE Starts \/ StartFails \/ Restarts \/ OutAcked \/ OutFails
  BY <1>4 DEF Starts, StartFails, Restarts, OutAcked, OutFails, At, Closes
<1> QED
  BY <1>1, <1>2, <1>3, <1>4 DEF Primitive

LEMMA ClosingPrimitive ==
  ASSUME BInv, Primitive
  PROVE  Closing'
<1>1. /\ AInv /\ Closing /\ Types /\ todo # << >> /\ Steady /\ busy
      /\ \/ Advance /\ (stall => Head(todo).op = "stop")
         \/ GiveUp /\ ~stall
  <2>1. AInv /\ Closing /\ Types
    BY DEF BInv, AInv
  <2> QED
    BY <2>1, Kept DEF Types
<1>2. Call' = Call /\ Size' = Size /\ (Final' <=> Final)
  BY <1>1, SteadyCall
<1>3. UNCHANGED <<pc, script, off, ret, busy>>
  BY <1>1 DEF Steady
<1>4. CASE GiveUp
  <2>1. stall' = TRUE
    BY <1>4 DEF GiveUp
  <2> QED
    BY <1>1, <1>3, <2>1 DEF Closing
<1>5. CASE Advance
  <2>1. /\ todo \in Seq(Ops) /\ todo' = Tail(todo) /\ stall' = stall
    BY <1>1, <1>5 DEF Advance, Types
  <2>2. /\ Len(todo') = Len(todo) - 1 /\ Len(todo) \in Nat /\ Len(todo) > 0
        /\ Head(todo) = todo[1] /\ \A j \in 1..(Len(todo) - 1) : todo'[j] = todo[j + 1]
        /\ todo' # << >> <=> Len(todo) > 1
    BY <1>1, <2>1, Shorter
  <2>3. ASSUME pc = "waits", ~stall, Len(script) = 1, Final
        PROVE  IF todo' = << >> THEN ~owned' ELSE Closes(todo'[Len(todo')])
    <3>1. Closes(todo[Len(todo)])
      BY <1>1, <2>3 DEF Closing
    <3>2. CASE Len(todo) > 1
      <4>1. todo'[Len(todo')] = todo[Len(todo)]
        BY <2>2, <3>2
      <4> QED
        BY <2>2, <3>1, <3>2, <4>1
    <3>3. CASE ~(Len(todo) > 1)
      <4>1. Head(todo) = todo[Len(todo)]
        BY <2>2, <3>3
      <4>2. ~owned'
        BY <3>1, <4>1, Closed
      <4> QED
        BY <2>2, <3>3, <4>2
    <3> QED
      BY <3>2, <3>3
  <2> QED
    BY <1>1, <1>2, <1>3, <2>1, <2>3 DEF Closing
<1> QED
  BY <1>1, <1>4, <1>5

\* A call returns, and with it its transaction or not.
LEMMA ClosingReturn ==
  ASSUME Types, Closing, script # << >>, NEW r \in Int, CallReturns(r), owned' = owned,
         r = -1 \/ (r \in Nat /\ ~busy' /\ (Len(script) = 1 => ~owned))
  PROVE  Closing'
<1>1. CASE r < 0 \/ Len(script) = 1
  <2>1. pc' = "idle" /\ script' = << >> /\ ret' = r
    BY <1>1 DEF CallReturns
  <2>2. r = -1 \/ (~busy' /\ ~owned')
    BY <1>1
  <2> QED
    BY <2>1, <2>2 DEF Closing
<1>2. CASE ~(r < 0 \/ Len(script) = 1)
  <2>1. pc' = "ready" /\ script' = Tail(script)
    BY <1>2 DEF CallReturns
  <2>2. script \in Seq(Calls)
    BY DEF Types
  <2>3. /\ Len(script') = Len(script) - 1 /\ Len(script) \in Nat /\ Len(script) > 0
        /\ \A j \in 1..(Len(script) - 1) : script'[j] = script[j + 1]
    BY <2>1, <2>2, Shorter
  <2>4. Len(script) > 1
    BY <1>2, <2>3
  <2>5. script'[Len(script')] = script[Len(script)]
    BY <2>3, <2>4
  <2> QED
    BY <2>1, <2>5 DEF Closing
<1> QED
  BY <1>1, <1>2

LEMMA ClosingStep ==
  ASSUME LastGivesBack, BInv, [Next]_vars
  PROVE  Closing'
<1>0. AInv /\ Types /\ Closing
  BY DEF BInv, AInv
<1>1. CASE Begin
  <2>1. pc' = "ready" /\ script' \in Transactions
    BY <1>1 DEF Begin
  <2> QED
    BY <2>1 DEF Closing, LastGivesBack
<1>2. CASE EnablePEC
  <2>1. pc = "idle" /\ UNCHANGED <<pc, script, ret, busy, owned>>
    BY <1>2 DEF EnablePEC
  <2> QED
    BY <1>0, <2>1 DEF Closing
<1>3. CASE Request
  <2>1. /\ pc = "ready" /\ pc' = "waits" /\ todo' = Command /\ UNCHANGED <<script, off>>
    BY <1>3 DEF Request, Command
  <2>2. script # << >> /\ script \in Seq(Calls)
    BY <1>0, <2>1 DEF Types
  <2>3. Command # << >>
    <3>1. Command \in Seq(Ops) /\ Len(Command) > 0
      BY <1>0, <2>2, Commands
    <3> QED
      BY <3>1
  <2>4. ASSUME Len(script) = 1, Final PROVE Closes(Command[Len(Command)])
    <3>1. Call = script[Len(script)]
      BY <1>0, <2>2, <2>4, Transfer
    <3>2. GivesBack(Call)
      BY <1>0, <2>2, <3>1 DEF Closing
    <3> QED
      BY <1>0, <2>2, <2>4, <3>2, Commands
  <2>5. Final' <=> Final
    BY <2>1 DEF Final, Size, Call
  <2> QED
    BY <1>0, <2>1, <2>3, <2>4, <2>5 DEF Closing
<1>4. CASE RequestDone
  <2>1. /\ pc = "waits" /\ script # << >> /\ todo = << >> /\ ~busy' /\ owned' = owned
    BY <1>0, <1>4 DEF RequestDone, Types, busVars
  <2>2. CASE ~StatusOK
    <3>1. CallReturns(-1)
      BY <1>4, <2>2 DEF RequestDone, TransferFails
    <3>2. -1 \in Int
      OBVIOUS
    <3> QED
      BY <1>0, <2>1, <3>1, <3>2, ClosingReturn
  <2>3. CASE StatusOK /\ Final
    <3>1. PICK r \in Nat : CallReturns(r)
      <4>1. Call.len \in Nat /\ Size \in Nat
        BY <1>0, <2>1, Transfer
      <4> QED
        BY <1>4, <2>3, <4>1 DEF RequestDone
    <3>2. Len(script) = 1 => ~owned
      BY <1>0, <2>1, <2>3 DEF Closing, StatusOK
    <3> QED
      BY <1>0, <2>1, <3>1, <3>2, ClosingReturn
  <2>4. CASE StatusOK /\ ~Final
    <3>1. pc' = "ready" /\ script' = script
      BY <1>4, <2>4 DEF RequestDone
    <3> QED
      BY <1>0, <3>1 DEF Closing
  <2> QED
    BY <2>2, <2>3, <2>4
<1>5. CASE HostTimesOut
  <2>1. CallReturns(-1) /\ script # << >> /\ owned' = owned
    BY <1>0, <1>5 DEF HostTimesOut, TimesOut, Types, busVars
  <2>2. -1 \in Int
    OBVIOUS
  <2> QED
    BY <1>0, <2>1, <2>2, ClosingReturn
<1>6. CASE OrphanDone
  <2>1. pc # "waits" /\ busy /\ ~busy' /\ UNCHANGED <<pc, script, ret, owned>>
    BY <1>6 DEF OrphanDone, hostVars, busVars
  <2> QED
    BY <1>0, <2>1 DEF Closing
<1>7. CASE Primitive
  BY <1>7, ClosingPrimitive
<1>8. CASE UNCHANGED vars
  <2>1. UNCHANGED <<pc, script, off, ret, todo, owned, busy, stall>>
    BY <1>8 DEF vars, busVars, hostVars, fwVars
  <2> QED
    BY <1>0, <2>1 DEF Closing, Call, Size, Final
<1> QED
  BY <1>1, <1>2, <1>3, <1>4, <1>5, <1>6, <1>7, <1>8 DEF Next

\* A transaction that is over leaves the bus free, also when the device has
\* refused something or hung, unless it was the host that gave up; for every
\* application whose last call ends the transaction.
THEOREM TransactionsReleaseBus ==
  ASSUME LastGivesBack
  PROVE  Spec => []ArbBusReleased
<1>1. Init => BInv
  <2>1. ASSUME Init PROVE AInv /\ Closing
    <3>1. AInv
      BY <2>1, AInvInit
    <3>2. pc = "idle" /\ script = << >> /\ ret = 0 /\ ~busy /\ ~owned
      BY <2>1 DEF Init, BusInit
    <3> QED
      BY <3>1, <3>2 DEF Closing
  <2> QED
    BY <2>1 DEF BInv
<1>2. BInv /\ [Next]_vars => BInv'
  <2>1. ASSUME BInv, [Next]_vars PROVE AInv' /\ Closing'
    BY <2>1, AInvStep, ClosingStep DEF BInv
  <2> QED
    BY <2>1 DEF BInv
<1>3. BInv => ArbBusReleased
  <2>1. ASSUME BInv, pc = "idle", ~busy, owned PROVE ret = -1 /\ ~stall
    <3>1. Types /\ Closing /\ todo = << >>
      BY <2>1 DEF BInv, AInv, Types
    <3>2. << >> # <<Stop>>
      OBVIOUS
    <3>3. ~stall
      BY <2>1, <3>1, <3>2 DEF Types
    <3> QED
      BY <2>1, <3>1, <3>3 DEF Closing
  <2> QED
    BY <2>1 DEF ArbBusReleased
<1> QED
  BY <1>1, <1>2, <1>3, PTL DEF Spec

-----------------------------------------------------------------------------
(* The PEC                                                                  *)

LEMMA EventTypes ==
  /\ START \in Events /\ RESTART \in Events /\ STOP \in Events
  /\ \A b \in WireBytes, ack \in BOOLEAN : Sent(b, ack) \in Events /\ Read(b, ack) \in Events
  /\ \A e \in {START, RESTART, STOP} : e # Sent(PecOut, TRUE)
  /\ \A b \in WireBytes, ack \in BOOLEAN :
       /\ Sent(b, ack) = Sent(PecOut, TRUE) <=> b = PecOut /\ ack
       /\ Read(b, ack) # Sent(PecOut, TRUE)
<1>1. START \in Events /\ RESTART \in Events /\ STOP \in Events
  BY DEF Events
<1>2. Sent(PecOut, TRUE).ev = "out" /\ Sent(PecOut, TRUE).b = PecOut
      /\ Sent(PecOut, TRUE).ack = TRUE
  BY DEF Sent
<1>3. START.ev = "S" /\ RESTART.ev = "Sr" /\ STOP.ev = "P"
  BY DEF START, RESTART, STOP
<1>4. ASSUME NEW b \in WireBytes, NEW ack \in BOOLEAN
      PROVE  /\ Sent(b, ack) \in Events /\ Read(b, ack) \in Events
             /\ Sent(b, ack) = Sent(PecOut, TRUE) <=> b = PecOut /\ ack
             /\ Read(b, ack) # Sent(PecOut, TRUE)
  <2>1. /\ Sent(b, ack) \in Events /\ Read(b, ack) \in Events
        /\ Sent(b, ack).b = b /\ Sent(b, ack).ack = ack /\ Read(b, ack).ev = "in"
    BY DEF Sent, Read, Events
  <2>2. b = PecOut /\ ack => Sent(b, ack) = Sent(PecOut, TRUE)
    BY DEF Sent
  <2> QED
    BY <1>2, <2>1, <2>2
<1> QED
  BY <1>1, <1>2, <1>3, <1>4

LEMMA EventAdded ==
  ASSUME NEW w \in Seq(Events), NEW e \in Events
  PROVE  /\ Append(w, e) \in Seq(Events)
         /\ PecIn(Append(w, e)) <=> PecIn(w) \/ e = Sent(PecOut, TRUE)
<1> DEFINE x == Append(w, e)
<1>1. /\ x \in Seq(Events) /\ Len(x) = Len(w) + 1 /\ Len(w) \in Nat
      /\ x[Len(w) + 1] = e /\ \A k \in 1..Len(w) : x[k] = w[k]
  OBVIOUS
<1>2. DOMAIN x = 1..(Len(w) + 1) /\ DOMAIN w = 1..Len(w)
  BY <1>1
<1> HIDE DEF x
<1>3. ASSUME PecIn(x) PROVE PecIn(w) \/ e = Sent(PecOut, TRUE)
  <2>1. PICK k \in DOMAIN x : x[k] = Sent(PecOut, TRUE)
    BY <1>3 DEF PecIn
  <2>2. k = Len(w) + 1 \/ k \in DOMAIN w
    BY <1>1, <1>2
  <2> QED
    BY <1>1, <1>2, <2>1, <2>2 DEF PecIn
<1>4. ASSUME PecIn(w) PROVE PecIn(x)
  <2>1. PICK k \in DOMAIN w : w[k] = Sent(PecOut, TRUE)
    BY <1>4 DEF PecIn
  <2>2. k \in DOMAIN x /\ x[k] = w[k]
    BY <1>1, <1>2
  <2> QED
    BY <2>1, <2>2 DEF PecIn
<1>5. e = Sent(PecOut, TRUE) => PecIn(x)
  <2>1. Len(w) + 1 \in DOMAIN x
    BY <1>1, <1>2
  <2> QED
    BY <1>1, <2>1 DEF PecIn
<1> QED
  BY <1>1, <1>3, <1>4, <1>5 DEF x

\* What a primitive may do to the bus, and to what the PEC covers.
Silent(b) ==
  UNCHANGED <<bytes, mrq_pec>> /\ (PecIn(wire') <=> PecIn(wire))

Sends(a) ==
  /\ bytes' = Append(bytes, a.b)
  /\ mrq_pec' = IF a.crc /\ pec_enabled THEN Append(mrq_pec, a.b) ELSE mrq_pec
  /\ PecIn(wire') <=> PecIn(wire) \/ a.b = PecOut

LEMMA SilentEvent ==
  ASSUME WireTypes, NEW e \in {START, RESTART, STOP},
         wire' = Append(wire, e) \/ wire' = wire,
         UNCHANGED <<bytes, mrq_pec, i2dat, clocked>>, lastrd' = FALSE
  PROVE  WireTypes' /\ Silent(e)
<1>1. wire \in Seq(Events) /\ e \in Events /\ e # Sent(PecOut, TRUE)
  BY EventTypes DEF WireTypes
<1>2. wire' \in Seq(Events) /\ (PecIn(wire') <=> PecIn(wire))
  BY <1>1, EventAdded
<1> QED
  BY <1>2 DEF WireTypes, Silent

LEMMA StopSilent ==
  ASSUME WireTypes, i2c_stop, UNCHANGED mrq_pec
  PROVE  WireTypes' /\ Silent(STOP)
BY SilentEvent DEF i2c_stop

LEMMA OutEffect ==
  ASSUME WireTypes, OutAcked, Head(todo) \in Ops
  PROVE  WireTypes' /\ Sends(Head(todo))
<1> DEFINE a == Head(todo)
<1>1. a.op = "out" /\ a.b \in WireBytes
  BY Kinds DEF OutAcked, At
<1>2. /\ wire' = Append(wire, Sent(a.b, TRUE)) /\ bytes' = Append(bytes, a.b) /\ clocked' = 0
      /\ i2dat' = i2dat /\ lastrd' = lastrd
      /\ mrq_pec' = IF a.crc /\ pec_enabled THEN Append(mrq_pec, a.b) ELSE mrq_pec
  BY DEF OutAcked, ByteOutAck
<1> HIDE DEF a
<1>3. /\ Sent(a.b, TRUE) \in Events
      /\ Sent(a.b, TRUE) = Sent(PecOut, TRUE) <=> a.b = PecOut
  BY <1>1, EventTypes
<1>4. wire' \in Seq(Events) /\ (PecIn(wire') <=> PecIn(wire) \/ a.b = PecOut)
  BY <1>2, <1>3, EventAdded DEF WireTypes
<1>5. bytes' \in Seq(WireBytes) /\ mrq_pec' \in Seq(WireBytes)
  BY <1>1, <1>2 DEF WireTypes
<1>6. WireTypes'
  BY <1>2, <1>4, <1>5 DEF WireTypes
<1>7. Sends(a)
  BY <1>2, <1>4 DEF Sends
<1> QED
  BY <1>6, <1>7 DEF a

LEMMA OutFailure ==
  ASSUME WireTypes, OutFails, Head(todo) \in Ops
  PROVE  WireTypes' /\ (PecIn(wire') <=> PecIn(wire)) /\ UNCHANGED mrq_pec
<1>1. Head(todo).op = "out" /\ Head(todo).b \in WireBytes /\ mrq_pec' = mrq_pec
  BY Kinds DEF OutFails, At
<1>2. CASE ByteOutNak(Head(todo).b)
  <2>1. /\ wire' = Append(wire, Sent(Head(todo).b, FALSE))
        /\ bytes' = Append(bytes, Head(todo).b)
        /\ UNCHANGED <<i2dat, clocked, lastrd>>
    BY <1>2 DEF ByteOutNak
  <2>2. /\ Sent(Head(todo).b, FALSE) \in Events
        /\ Sent(Head(todo).b, FALSE) # Sent(PecOut, TRUE)
    BY <1>1, EventTypes
  <2>3. wire' \in Seq(Events) /\ (PecIn(wire') <=> PecIn(wire))
    BY <2>1, <2>2, EventAdded DEF WireTypes
  <2>4. bytes' \in Seq(WireBytes)
    BY <1>1, <2>1 DEF WireTypes
  <2> QED
    BY <1>1, <2>1, <2>3, <2>4 DEF WireTypes
<1>3. CASE ByteOutTimeout
  BY <1>1, <1>3, StopSilent DEF ByteOutTimeout, Silent
<1> QED
  BY <1>2, <1>3 DEF OutFails

\* A byte read is a byte of the device.
LEMMA InEffect ==
  ASSUME WireTypes, InRead \/ InTimesOut, Head(todo) \in Ops
  PROVE  WireTypes' /\ (PecIn(wire') <=> PecIn(wire))
<1> DEFINE g == Head(todo)
<1>0. Zero \in WireBytes /\ \A i \in Nat : Dev(i) \in WireBytes
  BY Primitives
<1>1. ASSUME NEW v \in WireBytes, Take(g.last, v) PROVE mrq_pec' \in Seq(WireBytes)
  <2>1. mrq_pec' = mrq_pec \/ mrq_pec' = Append(mrq_pec, v)
    BY <1>1 DEF Take
  <2>2. mrq_pec \in Seq(WireBytes)
    BY DEF WireTypes
  <2> QED
    BY <1>1, <2>1, <2>2
<1>2. ASSUME NEW w \in Seq(Events), NEW k \in Nat, NEW l
      PROVE  Clocked(w, k, l) \in Seq(Events) /\ (PecIn(Clocked(w, k, l)) <=> PecIn(w))
  <2>1. Dev(k + 1) \in WireBytes /\ (~l) \in BOOLEAN
    BY <1>0
  <2>2. Read(Dev(k + 1), ~l) \in Events /\ Read(Dev(k + 1), ~l) # Sent(PecOut, TRUE)
    BY <2>1, EventTypes
  <2> QED
    BY <2>2, EventAdded DEF Clocked
<1>3. CASE InRead
  <2> DEFINE lr1 == lastrd \/ g.single
             n1  == IF g.first THEN clocked + 1 ELSE clocked
             w1  == IF g.first THEN Clocked(wire, clocked, lr1) ELSE wire
             b1  == IF g.first THEN Append(bytes, Dev(n1)) ELSE bytes
             lr2 == Announced(lr1, g.before)
  <2>1. /\ Take(g.last, ByteInValue(g.first))
        /\ IF g.last
             THEN /\ wire' = Append(w1, STOP) /\ bytes' = b1 /\ lastrd' = FALSE
                  /\ clocked' = n1 /\ i2dat' = Dev(n1)
             ELSE /\ wire' = Clocked(w1, n1, lr2) /\ bytes' = Append(b1, Dev(n1 + 1))
                  /\ lastrd' = lr2 /\ clocked' = n1 + 1 /\ i2dat' = Dev(n1 + 1)
    BY <1>3 DEF InRead, ByteIn
  <2>2. n1 \in Nat /\ wire \in Seq(Events) /\ clocked \in Nat
    BY DEF WireTypes
  <2>3. lr2 \in BOOLEAN
    BY DEF Announced
  <2> HIDE DEF lr1, lr2
  <2>4. w1 \in Seq(Events) /\ (PecIn(w1) <=> PecIn(wire))
    BY <1>2, <2>2
  <2>5. b1 \in Seq(WireBytes)
    BY <1>0, <2>2 DEF WireTypes
  <2> HIDE DEF n1, w1, b1
  <2>6. wire' \in Seq(Events) /\ (PecIn(wire') <=> PecIn(wire))
    <3>1. CASE g.last
      <4>1. wire' = Append(w1, STOP) /\ STOP \in Events /\ STOP # Sent(PecOut, TRUE)
        BY <2>1, <3>1, EventTypes
      <4> QED
        BY <2>4, <4>1, EventAdded
    <3>2. CASE ~g.last
      BY <1>2, <2>1, <2>2, <2>4, <3>2
    <3> QED
      BY <3>1, <3>2
  <2>7. bytes' \in Seq(WireBytes) /\ clocked' \in Nat /\ i2dat' \in WireBytes
    <3>1. Dev(n1) \in WireBytes /\ Dev(n1 + 1) \in WireBytes /\ n1 + 1 \in Nat
      BY <1>0, <2>2
    <3>2. Append(b1, Dev(n1 + 1)) \in Seq(WireBytes)
      BY <2>5, <3>1
    <3>3. CASE g.last
      BY <2>1, <2>2, <2>5, <3>1, <3>3
    <3>4. CASE ~g.last
      BY <2>1, <3>1, <3>2, <3>4
    <3> QED
      BY <3>3, <3>4
  <2>8. lastrd' \in BOOLEAN
    BY <2>1, <2>3
  <2>9. ByteInValue(g.first) \in WireBytes
    BY <1>0, <2>2 DEF ByteInValue, WireTypes
  <2> QED
    BY <1>1, <2>1, <2>6, <2>7, <2>8, <2>9 DEF WireTypes
<1>4. CASE InTimesOut
  <2>1. PICK v \in TimeoutValues(g.last) : Take(g.last, v)
    BY <1>4 DEF InTimesOut
  <2>2. v \in WireBytes
    BY <1>0, <2>1 DEF TimeoutValues, WireTypes
  <2>3. mrq_pec' \in Seq(WireBytes)
    BY <1>1, <2>1, <2>2
  <2>4. /\ lastrd' = FALSE /\ UNCHANGED <<bytes, i2dat, clocked>>
        /\ wire' = Append(wire, STOP) \/ wire' = wire
    BY <1>4 DEF InTimesOut, ByteInTimeout, i2c_stop
  <2>5. STOP \in Events /\ STOP # Sent(PecOut, TRUE) /\ wire \in Seq(Events)
    BY EventTypes DEF WireTypes
  <2>6. wire' \in Seq(Events) /\ (PecIn(wire') <=> PecIn(wire))
    BY <2>4, <2>5, EventAdded
  <2> QED
    BY <2>3, <2>4, <2>6 DEF WireTypes
<1> QED
  BY <1>3, <1>4

\* All primitives.
LEMMA Effects ==
  ASSUME AInv, WireTypes, Primitive
  PROVE  /\ WireTypes'
         /\ \/ Head(todo).op \in {"start", "restart", "stop"} /\ Silent(Head(todo))
            \/ Head(todo).op = "out" /\ Advance /\ Sends(Head(todo))
            \/ Head(todo).op = "out" /\ GiveUp /\ (PecIn(wire') <=> PecIn(wire))
            \/ Head(todo).op = "in" /\ Advance /\ (PecIn(wire') <=> PecIn(wire))
<1>0. Head(todo) \in Ops
  BY Kept
<1>1. CASE Starts \/ Restarts
  <2>1. /\ Head(todo).op \in {"start", "restart"} /\ UNCHANGED mrq_pec
        /\ \E e \in {START, RESTART} : wire' = Append(wire, e)
        /\ lastrd' = FALSE /\ UNCHANGED <<bytes, i2dat, clocked>>
    BY <1>1 DEF Starts, Restarts, At, i2c_start, i2c_restart
  <2>2. WireTypes' /\ Silent(START)
    <3>1. PICK e \in {START, RESTART} : wire' = Append(wire, e)
      BY <2>1
    <3> QED
      BY <2>1, <3>1, SilentEvent DEF Silent
  <2> QED
    BY <2>1, <2>2 DEF Silent
<1>2. CASE StartFails
  <2>1. Head(todo).op = "start" /\ UNCHANGED <<wire, bytes, i2dat, clocked, lastrd, mrq_pec>>
    BY <1>2 DEF StartFails, At, busVars
  <2> QED
    BY <2>1 DEF Silent, WireTypes
<1>3. CASE OutAcked
  BY <1>0, <1>3, OutEffect DEF OutAcked, At
<1>4. CASE OutFails
  BY <1>0, <1>4, OutFailure DEF OutFails, At
<1>5. CASE Stops
  <2>1. Head(todo).op = "stop" /\ i2c_stop /\ UNCHANGED mrq_pec
    BY <1>5 DEF Stops, At
  <2> QED
    BY <2>1, StopSilent DEF Silent
<1>6. CASE InRead \/ InTimesOut
  BY <1>0, <1>6, InEffect DEF InRead, InTimesOut, At
<1> QED
  BY <1>1, <1>2, <1>3, <1>4, <1>5, <1>6 DEF Primitive

LEMMA SameList ==
  ASSUME NEW S, NEW s \in Seq(S), NEW t \in Seq(S), Len(s) = Len(t),
         \A i \in 1..Len(s) : s[i] = t[i]
  PROVE  s = t
OBVIOUS

\* What is left to do has the same shape.
LEMMA Shapes ==
  ASSUME NEW s \in Seq(Ops), s # << >>
  PROVE  /\ PecLast(s) => PecLast(Tail(s)) /\ (Head(s) = PutPec => Tail(s) = <<Stop>>)
                          /\ (Head(s).op = "out" =>
                                (Head(s).crc /\ Head(s).b # PecOut) \/ Head(s) = PutPec)
         /\ NoReads(s) => NoReads(Tail(s)) /\ Head(s).op # "in"
         /\ Sealed(Tail(s)) => Sealed(s)
         /\ Head(s) = PutPec => Sealed(s)
<1> DEFINE t == Tail(s)
<1>1. /\ t \in Seq(Ops) /\ Len(s) \in Nat /\ Len(s) > 0 /\ Len(t) = Len(s) - 1
      /\ Head(s) = s[1] /\ \A j \in 1..(Len(s) - 1) : t[j] = s[j + 1]
  BY Shorter
<1> HIDE DEF t
<1>2. ASSUME PecLast(s) PROVE PecLast(t)
  <2>1. ASSUME NEW i \in 1..Len(t), t[i].op = "out"
        PROVE  \/ t[i].crc /\ t[i].b # PecOut
               \/ t[i] = PutPec /\ i + 1 = Len(t) /\ t[i + 1] = Stop
    <3>1. i + 1 \in 1..Len(s) /\ t[i] = s[i + 1]
      BY <1>1
    <3>2. \/ s[i + 1].crc /\ s[i + 1].b # PecOut
          \/ s[i + 1] = PutPec /\ (i + 1) + 1 = Len(s) /\ s[(i + 1) + 1] = Stop
      BY <1>2, <2>1, <3>1 DEF PecLast
    <3>3. CASE s[i + 1] = PutPec /\ (i + 1) + 1 = Len(s) /\ s[(i + 1) + 1] = Stop
      <4>1. i + 1 \in 1..(Len(s) - 1)
        BY <1>1, <3>3
      <4>2. t[i + 1] = s[(i + 1) + 1] /\ i + 1 = Len(t)
        BY <1>1, <3>3, <4>1
      <4> QED
        BY <3>1, <3>3, <4>2
    <3> QED
      BY <3>1, <3>2, <3>3
  <2> QED
    BY <2>1 DEF PecLast
<1>3. ASSUME PecLast(s), Head(s).op = "out"
      PROVE  (Head(s).crc /\ Head(s).b # PecOut) \/ Head(s) = PutPec
  BY <1>1, <1>3 DEF PecLast
<1>4. ASSUME PecLast(s), Head(s) = PutPec PROVE t = <<Stop>>
  <2> DEFINE k == 1
  <2>1. k \in 1..Len(s) /\ s[k].op = "out" /\ ~s[k].crc /\ k \in Nat
    BY <1>1, <1>4, Primitives
  <2>2. k = 1
    OBVIOUS
  <2> HIDE DEF k
  <2>3. k + 1 = Len(s) /\ s[k + 1] = Stop
    BY <1>4, <2>1 DEF PecLast
  <2>4. Len(t) = k /\ t[k] = Stop
    BY <1>1, <2>1, <2>3
  <2>5. <<Stop>> \in Seq(Ops) /\ <<Stop>>[1] = Stop /\ 1 = Len(<<Stop>>)
    BY Primitives
  <2> DEFINE u == <<Stop>>
  <2> HIDE DEF u
  <2>6. Len(t) = Len(u) /\ u \in Seq(Ops) /\ \A i \in 1..Len(t) : t[i] = u[i]
    BY <2>2, <2>4, <2>5 DEF u
  <2>7. t = u
    BY <1>1, <2>6, SameList
  <2> QED
    BY <2>7 DEF u
<1>5. NoReads(s) => NoReads(t) /\ Head(s).op # "in"
  BY <1>1 DEF NoReads
<1>6. Sealed(t) => Sealed(s)
  BY <1>1 DEF Sealed
<1>7. Head(s) = PutPec => Sealed(s)
  BY <1>1 DEF Sealed
<1> QED
  BY <1>2, <1>3, <1>4, <1>5, <1>6, <1>7 DEF t

LEMMA OnlyStop ==
  /\ PecLast(<<Stop>>) /\ NoReads(<<Stop>>) /\ ~Sealed(<<Stop>>)
  /\ PecLast(<< >>) /\ NoReads(<< >>) /\ ~Sealed(<< >>)
  /\ Head(<<Stop>>) = Stop /\ Tail(<<Stop>>) = << >>
BY Primitives DEF PecLast, NoReads, Sealed

LEMMA CoveringPrimitive ==
  ASSUME CInv, Primitive
  PROVE  WireTypes' /\ Covering' /\ ArbPecCoversWire'
<1> DEFINE a == Head(todo)
<1>1. /\ AInv /\ Types /\ WireTypes /\ Covering /\ todo \in Seq(Ops)
      /\ PecIn(wire) => bytes = Append(mrq_pec, PecOut)
  BY DEF CInv, AInv, Types, ArbPecCoversWire, PecIn
<1>2. /\ todo # << >> /\ Steady /\ a \in Ops /\ AInv'
      /\ \/ Advance /\ (stall => a.op = "stop")
         \/ GiveUp /\ ~stall
  BY <1>1, Kept
<1>3. /\ WireTypes'
      /\ \/ a.op \in {"start", "restart", "stop"} /\ Silent(a)
         \/ a.op = "out" /\ Advance /\ Sends(a)
         \/ a.op = "out" /\ GiveUp /\ (PecIn(wire') <=> PecIn(wire))
         \/ a.op = "in" /\ Advance /\ (PecIn(wire') <=> PecIn(wire))
  BY <1>1, Effects
<1>4. Call' = Call /\ Size' = Size /\ (Final' <=> Final)
  BY <1>2, SteadyCall
<1>5. UNCHANGED <<pc, script, off, ret, busy, pec_enabled>>
  BY <1>2 DEF Steady
<1>6. pc # "ready" /\ (script # << >> => pc = "waits")
  BY <1>1, <1>2 DEF Types
<1>7. /\ PecLast(todo) => PecLast(Tail(todo)) /\ (a = PutPec => Tail(todo) = <<Stop>>)
                          /\ (a.op = "out" => (a.crc /\ a.b # PecOut) \/ a = PutPec)
      /\ NoReads(todo) => NoReads(Tail(todo)) /\ a.op # "in"
      /\ Sealed(Tail(todo)) => Sealed(todo)
      /\ a = PutPec => Sealed(todo)
  BY <1>1, <1>2, Shapes
<1>8. StopLast(script) /\ PecLast(todo)
  BY <1>1 DEF Covering
<1>9. PutPec.op = "out" /\ ~PutPec.crc /\ PutPec.b = PecOut /\ Stop.op = "stop"
  BY Primitives
<1> HIDE DEF a
<1>10. ASSUME PecIn(wire) PROVE a.op = "stop" /\ todo' = << >> /\ todo = <<Stop>>
  <2>1. todo = <<Stop>>
    BY <1>1, <1>2, <1>10 DEF Covering
  <2>2. a = Stop
    BY <2>1, OnlyStop DEF a
  <2>3. Advance
    <3>1. Starts \/ StartFails \/ OutFails => At("start") \/ At("out")
      BY DEF Starts, StartFails, OutFails
    <3>2. ~At("start") /\ ~At("out")
      BY <1>9, <2>2 DEF At, a
    <3> QED
      BY <3>1, <3>2 DEF Primitive, Restarts, OutAcked, Stops, InRead, InTimesOut
  <2> QED
    BY <1>9, <2>1, <2>2, <2>3, OnlyStop DEF Advance
<1>11. ASSUME a = PutPec
       PROVE  /\ pec_enabled /\ bytes = mrq_pec /\ NoReads(todo)
              /\ pc = "waits" => Final /\ Len(script) = 1
  BY <1>1, <1>7, <1>11 DEF Covering
<1>12. CASE GiveUp
  <2>1. todo' = <<Stop>> /\ stall' = TRUE
    BY <1>12 DEF GiveUp
  <2>2. ~PecIn(wire)
    <3>1. << >> # <<Stop>>
      OBVIOUS
    <3> QED
      BY <1>10, <2>1, <3>1
  <2>3. PecIn(wire') => ~GiveUp \/ (a.op = "out" /\ Advance)
    BY <1>3, <2>2 DEF Silent
  <2>4. ~PecIn(wire')
    <3>1. ASSUME Advance, a.op = "out" PROVE FALSE
      <4>1. stall' = stall
        BY <3>1 DEF Advance
      <4>2. stall
        BY <1>1, <2>1, <4>1 DEF Types
      <4> QED
        BY <1>2, <3>1, <4>2, <1>9
    <3> QED
      BY <1>12, <2>3, <3>1
  <2>5. ArbPecCoversWire'
    BY <2>4 DEF ArbPecCoversWire, PecIn
  <2>6. Covering'
    BY <1>5, <1>6, <1>8, <2>1, <2>4, OnlyStop DEF Covering, EndsInStop
  <2> QED
    BY <1>3, <2>5, <2>6
<1>13. CASE Advance /\ ~GiveUp
  <2>1. todo' = Tail(todo) /\ stall' = stall
    BY <1>13 DEF Advance
  <2>2. PecLast(todo')
    BY <1>7, <1>8, <2>1
  <2>3. PecIn(wire') => PecIn(wire) \/ a = PutPec
    <3>1. ASSUME a.op = "out", a.b = PecOut PROVE a = PutPec
      BY <1>7, <1>8, <3>1
    <3> QED
      BY <1>3, <1>13, <3>1 DEF Silent, Sends
  <2>4. ASSUME PecIn(wire)
        PROVE  bytes' = Append(mrq_pec', PecOut) /\ pc' # "ready" /\ todo' = << >>
    <3>1. Silent(a)
      BY <1>3, <1>10, <2>4
    <3>2. UNCHANGED <<bytes, mrq_pec>>
      BY <3>1 DEF Silent
    <3> QED
      BY <1>1, <1>5, <1>6, <1>10, <2>4, <3>2
  <2>5. ASSUME a = PutPec
        PROVE  bytes' = Append(mrq_pec', PecOut) /\ pc' # "ready" /\ todo' = <<Stop>>
    <3>1. Sends(a) /\ Tail(todo) = <<Stop>>
      BY <1>3, <1>7, <1>8, <1>9, <1>13, <2>5
    <3>2. bytes' = Append(bytes, PecOut) /\ mrq_pec' = mrq_pec
      BY <1>9, <2>5, <3>1 DEF Sends
    <3> QED
      BY <1>5, <1>6, <1>11, <2>1, <2>5, <3>1, <3>2
  <2>6. ArbPecCoversWire'
    BY <2>3, <2>4, <2>5 DEF ArbPecCoversWire, PecIn
  <2>7. ASSUME PecIn(wire')
        PROVE  /\ pc' # "ready" /\ (todo' = << >> \/ todo' = <<Stop>>)
               /\ pc' = "waits" => stall' \/ (Final /\ Len(script) = 1)
    <3>1. PecIn(wire) => (pc = "waits" => stall \/ (Final /\ Len(script) = 1))
      BY <1>1 DEF Covering
    <3> QED
      BY <1>5, <1>11, <2>1, <2>3, <2>4, <2>5, <2>7, <3>1
  \* A primitive that leaves what is on the bus and what the PEC covers alike.
  <2>8. ASSUME NoReads(todo), bytes = mrq_pec, pec_enabled, a # PutPec
        PROVE  bytes' = mrq_pec'
    <3>1. CASE Silent(a)
      BY <2>8, <3>1 DEF Silent
    <3>2. CASE a.op = "out" /\ Sends(a)
      <4>1. a.crc
        BY <1>7, <1>8, <2>8, <3>2
      <4> QED
        BY <2>8, <3>2, <4>1 DEF Sends
    <3> QED
      BY <1>3, <1>7, <1>13, <2>8, <3>1, <3>2
  <2>9. ASSUME Sealed(todo')
        PROVE  /\ pec_enabled /\ NoReads(todo') /\ bytes' = mrq_pec'
               /\ pc = "waits" => Final /\ Len(script) = 1
    <3>1. Sealed(todo)
      BY <1>7, <2>1, <2>9
    <3>2. /\ pec_enabled /\ NoReads(todo) /\ bytes = mrq_pec
          /\ pc = "waits" => Final /\ Len(script) = 1
      BY <1>1, <3>1 DEF Covering
    <3>3. a # PutPec
      BY <2>5, <2>9, OnlyStop
    <3> QED
      BY <1>7, <2>1, <2>8, <3>2, <3>3
  <2>10. ASSUME EndsInStop(script), pec_enabled, ~PecIn(wire'), ~stall
         PROVE  NoReads(todo') /\ bytes' = mrq_pec'
    <3>1. ~PecIn(wire) /\ a # PutPec
      <4>1. Silent(a) \/ Sends(a) \/ (PecIn(wire') <=> PecIn(wire))
        BY <1>3
      <4>2. ~PecIn(wire)
        BY <2>10, <4>1 DEF Silent, Sends
      <4>3. a # PutPec
        BY <1>3, <1>9, <1>13, <2>10 DEF Sends
      <4> QED
        BY <4>2, <4>3
    <3>2. NoReads(todo) /\ bytes = mrq_pec
      BY <1>1, <1>6, <2>10, <3>1 DEF Covering
    <3> QED
      BY <1>7, <2>1, <2>8, <2>10, <3>1, <3>2
  <2>11. EndsInStop(script) => pc = "waits"
    BY <1>6 DEF EndsInStop
  <2>12. Covering'
    BY <1>4, <1>5, <1>6, <1>8, <2>1, <2>2, <2>7, <2>9, <2>10, <2>11 DEF Covering
  <2> QED
    BY <1>3, <2>6, <2>12
<1> QED
  BY <1>2, <1>12, <1>13

\* The calls that are left.
LEMMA CallsLeft ==
  ASSUME NEW s \in Seq(Calls), StopLast(s), Len(s) > 1
  PROVE  /\ StopLast(Tail(s))
         /\ EndsInStop(Tail(s)) => EndsInStop(s) /\ ~Head(Tail(s)).start
<1> DEFINE t == Tail(s)
<1>1. /\ Len(s) \in Nat /\ Len(s) > 1 /\ Len(t) = Len(s) - 1 /\ t \in Seq(Calls)
      /\ \A j \in 1..(Len(s) - 1) : t[j] = s[j + 1]
  <2>1. s # << >>
    OBVIOUS
  <2> QED
    BY <2>1, Shorter
<1>2. Head(t) = t[1] /\ t[1] = s[1 + 1]
  <2>1. t # << >>
    BY <1>1, Shorter
  <2>2. 1 \in 1..(Len(s) - 1)
    BY <1>1
  <2> QED
    BY <1>1, <2>1, <2>2, Shorter
<1> HIDE DEF t
<1>3. ASSUME NEW k \in 1..Len(t), t[k].fn = "write", t[k].stop
      PROVE  /\ k = Len(t)
             /\ \A j \in 1..k : t[j].fn = "write" /\ (j > 1 => ~t[j].start)
  <2>1. k + 1 \in 1..Len(s) /\ s[k + 1].fn = "write" /\ s[k + 1].stop
    BY <1>1, <1>3
  <2>2. /\ k + 1 = Len(s)
        /\ \A j \in 1..(k + 1) : s[j].fn = "write" /\ (j > 1 => ~s[j].start)
    BY <2>1 DEF StopLast
  <2>3. ASSUME NEW j \in 1..k PROVE t[j].fn = "write" /\ ~t[j].start
    <3>1. j + 1 \in 1..(k + 1) /\ j + 1 > 1 /\ t[j] = s[j + 1]
      BY <1>1, <1>3
    <3> QED
      BY <2>2, <3>1
  <2> QED
    BY <1>1, <2>2, <2>3
<1>4. ASSUME EndsInStop(t) PROVE EndsInStop(s) /\ ~t[1].start
  <2>1. t[Len(t)].fn = "write" /\ t[Len(t)].stop /\ t[Len(t)] = s[Len(s)]
    BY <1>1, <1>4 DEF EndsInStop
  <2>2. Len(s) \in 1..Len(s) /\ 1 + 1 \in 1..Len(s) /\ 1 + 1 > 1
    BY <1>1
  <2>3. ~s[1 + 1].start
    BY <2>1, <2>2 DEF StopLast
  <2> QED
    BY <1>2, <2>1, <2>3 DEF EndsInStop
<1>5. StopLast(t)
  BY <1>3 DEF StopLast
<1> QED
  BY <1>2, <1>4, <1>5 DEF t

\* A call returns: where another one follows, it makes no START and what is on
\* the bus stays covered.
LEMMA CoveringReturn ==
  ASSUME CInv, script # << >>, NEW r \in Int, CallReturns(r),
         UNCHANGED <<todo, wire, bytes, mrq_pec, pec_enabled>>,
         r = -1 \/ (r \in Nat /\ pc = "waits" /\ ~stall /\ Final)
  PROVE  Covering'
<1>1. /\ Types /\ StopLast(script) /\ PecLast(todo)
      /\ PecIn(wire) => /\ pc # "ready" /\ (todo = << >> \/ todo = <<Stop>>)
                        /\ pc = "waits" => stall \/ (Final /\ Len(script) = 1)
      /\ Sealed(todo) => pec_enabled /\ NoReads(todo) /\ bytes = mrq_pec
  BY DEF CInv, AInv, Covering
<1>2. CASE r < 0 \/ Len(script) = 1
  <2>1. pc' = "idle" /\ script' = << >>
    BY <1>2 DEF CallReturns
  <2>2. StopLast(<< >>) /\ ~EndsInStop(<< >>)
    BY DEF StopLast, EndsInStop
  <2> QED
    BY <1>1, <2>1, <2>2 DEF Covering
<1>3. CASE ~(r < 0 \/ Len(script) = 1)
  <2>1. /\ pc' = "ready" /\ script' = Tail(script) /\ off' = 0 /\ pc = "waits" /\ ~stall
    BY <1>3 DEF CallReturns
  <2>2. script \in Seq(Calls) /\ Len(script) > 1
    <3>1. script \in Seq(Calls) /\ Len(script) \in Nat /\ Len(script) > 0
      BY <1>1, Transfer DEF Types
    <3>2. Len(script) # 1
      BY <1>3
    <3> QED
      BY <3>1, <3>2
  <2>3. /\ StopLast(script')
        /\ EndsInStop(script') => EndsInStop(script) /\ ~Call'.start
    BY <1>1, <2>1, <2>2, CallsLeft DEF Call
  <2>4. ~PecIn(wire)
    BY <1>1, <1>3, <2>1
  <2>5. ~Sealed(todo) \/ (pec_enabled /\ NoReads(todo) /\ bytes = mrq_pec)
    BY <1>1
  <2>6. EndsInStop(script') /\ pec_enabled => NoReads(todo) /\ bytes = mrq_pec
    BY <2>1, <2>3, <2>4 DEF CInv, Covering
  <2> QED
    BY <1>1, <2>1, <2>3, <2>4, <2>5, <2>6 DEF Covering
<1> QED
  BY <1>2, <1>3

LEMMA CoveringRequest ==
  ASSUME CInv, Request
  PROVE  WireTypes' /\ Covering' /\ ArbPecCoversWire'
<1>1. /\ Types /\ WireTypes /\ Covering /\ pc = "ready" /\ script # << >>
      /\ script \in Seq(Calls)
  BY DEF CInv, AInv, Types, Request
<1>2. /\ pc' = "waits" /\ stall' = FALSE /\ todo' = Command
      /\ mrq_pec' = IF NewPec THEN << >> ELSE mrq_pec
      /\ UNCHANGED <<script, off, pec_enabled, wire, bytes, i2dat, clocked, lastrd>>
  BY DEF Request, Command, busVars
<1>3. Call' = Call /\ Size' = Size /\ (Final' <=> Final)
  BY <1>2 DEF Call, Size, Final
<1>4. /\ Command \in Seq(Ops) /\ PecLast(Command)
      /\ Call.fn = "write" => NoReads(Command)
      /\ Sealed(Command) => /\ pec_enabled /\ NoReads(Command) /\ Final
                            /\ Call.fn = "write" /\ Call.stop
  BY <1>1, Commands
<1>5. ~PecIn(wire) /\ StopLast(script)
  BY <1>1 DEF Covering
<1>6. Call = script[1] /\ Len(script) \in Nat /\ Len(script) > 0
  BY <1>1, Transfer
<1>7. ASSUME EndsInStop(script) PROVE Call.fn = "write"
  <2>1. Len(script) \in 1..Len(script) /\ 1 \in 1..Len(script)
    BY <1>6
  <2> QED
    BY <1>5, <1>6, <1>7, <2>1 DEF EndsInStop, StopLast
<1>8. ASSUME EndsInStop(script), pec_enabled PROVE bytes' = mrq_pec'
  <2>1. IF off = 0 /\ Call.start THEN bytes = << >> ELSE bytes = mrq_pec
    BY <1>1, <1>5, <1>8 DEF Covering
  <2>2. NewPec <=> off = 0 /\ Call.start
    BY <1>7, <1>8 DEF NewPec
  <2> QED
    BY <1>2, <2>1, <2>2
<1>9. ASSUME Call.fn = "write", Call.stop PROVE EndsInStop(script) /\ Len(script) = 1
  <2>1. 1 \in 1..Len(script)
    BY <1>6
  <2>2. 1 = Len(script)
    BY <1>5, <1>6, <1>9, <2>1 DEF StopLast
  <2> QED
    BY <1>1, <1>6, <1>9, <2>2 DEF EndsInStop
<1>10. ASSUME Sealed(Command)
       PROVE  /\ pec_enabled /\ NoReads(Command) /\ bytes' = mrq_pec'
              /\ Final /\ Len(script) = 1
  BY <1>4, <1>8, <1>9, <1>10
<1>11. ASSUME EndsInStop(script), pec_enabled
       PROVE  NoReads(Command) /\ bytes' = mrq_pec'
  BY <1>4, <1>7, <1>8, <1>11
<1>12. Covering'
  BY <1>2, <1>3, <1>4, <1>5, <1>10, <1>11 DEF Covering
<1>13. ArbPecCoversWire'
  BY <1>2, <1>5 DEF ArbPecCoversWire, PecIn
<1>14. WireTypes'
  <2>1. << >> \in Seq(WireBytes)
    OBVIOUS
  <2> QED
    BY <1>1, <1>2, <2>1 DEF WireTypes
<1> QED
  BY <1>12, <1>13, <1>14

LEMMA CoveringStep ==
  ASSUME StopEndsWrites, CInv, [Next]_vars
  PROVE  WireTypes' /\ Covering' /\ ArbPecCoversWire'
<1>0. AInv /\ Types /\ WireTypes /\ Covering /\ ArbPecCoversWire
  BY DEF CInv, AInv
<1>a. << >> \in Seq(Events) /\ << >> \in Seq(WireBytes) /\ ~PecIn(<< >>)
  BY DEF PecIn
<1>1. CASE Begin
  <2>1. /\ pc' = "ready" /\ off' = 0 /\ script' \in Transactions /\ ~busy
        /\ wire' = << >> /\ bytes' = << >>
        /\ UNCHANGED <<todo, i2dat, clocked, lastrd, mrq_pec, pec_enabled>>
    BY <1>1 DEF Begin, fwVars
  <2>2. todo = << >> /\ script' \in Seq(Calls) /\ script' # << >>
    BY <1>0, <2>1, TransactionsAssumption DEF Types
  <2>3. DOMAIN script' = 1..Len(script') /\ Len(script') \in Nat /\ Len(script') > 0
    BY <2>2
  <2>4. \A k \in 1..Len(script') :
          script'[k].fn = "write" /\ script'[k].stop =>
            /\ k = Len(script')
            /\ \A j \in 1..Len(script') :
                 script'[j].fn = "write" /\ (script'[j].start <=> j = 1)
    BY <2>1, <2>3 DEF StopEndsWrites
  <2>5. StopLast(script')
    <3>1. ASSUME NEW k \in 1..Len(script'), script'[k].fn = "write", script'[k].stop
          PROVE  /\ k = Len(script')
                 /\ \A j \in 1..k : script'[j].fn = "write" /\ (j > 1 => ~script'[j].start)
      <4>1. /\ k = Len(script')
            /\ \A j \in 1..Len(script') :
                 script'[j].fn = "write" /\ (script'[j].start <=> j = 1)
        BY <2>4, <3>1
      <4>2. ASSUME NEW j \in 1..k
            PROVE  script'[j].fn = "write" /\ (j > 1 => ~script'[j].start)
        BY <4>1
      <4> QED
        BY <4>1, <4>2
    <3> QED
      BY <3>1 DEF StopLast
  <2>6. EndsInStop(script') => Call'.start
    <3>1. Len(script') \in 1..Len(script') /\ 1 \in 1..Len(script')
      BY <2>3
    <3>2. EndsInStop(script') => script'[1].start
      BY <2>4, <3>1 DEF EndsInStop
    <3>3. Call' = script'[1]
      BY <2>2, Shorter DEF Call
    <3> QED
      BY <3>2, <3>3
  <2>7. Covering'
    BY <1>a, <2>1, <2>2, <2>5, <2>6, OnlyStop DEF Covering
  <2>8. WireTypes'
    BY <1>0, <1>a, <2>1 DEF WireTypes
  <2>9. ArbPecCoversWire'
    BY <1>a, <2>1 DEF ArbPecCoversWire, PecIn
  <2> QED
    BY <2>7, <2>8, <2>9
<1>2. CASE EnablePEC
  <2>1. /\ pc = "idle" /\ ~busy /\ wire' = << >> /\ bytes' = << >>
        /\ mrq_pec' = mrq_pec \/ mrq_pec' = << >>
        /\ UNCHANGED <<pc, script, todo, i2dat, clocked, lastrd>>
    BY <1>2 DEF EnablePEC
  <2>2. todo = << >> /\ script = << >>
    BY <1>0, <2>1 DEF Types
  <2>3. ~EndsInStop(<< >>) /\ StopLast(<< >>)
    BY DEF EndsInStop, StopLast
  <2>4. Covering'
    BY <1>a, <2>1, <2>2, <2>3, OnlyStop DEF Covering
  <2>5. WireTypes'
    BY <1>0, <1>a, <2>1 DEF WireTypes
  <2>6. ArbPecCoversWire'
    BY <1>a, <2>1 DEF ArbPecCoversWire, PecIn
  <2> QED
    BY <2>4, <2>5, <2>6
<1>3. CASE Request
  BY <1>3, CoveringRequest
<1>4. CASE RequestDone
  <2>1. /\ pc = "waits" /\ script # << >> /\ todo = << >>
        /\ UNCHANGED <<wire, bytes, i2dat, clocked, lastrd, todo, mrq_pec, pec_enabled, stall>>
    BY <1>0, <1>4 DEF RequestDone, Types, busVars
  <2>2. WireTypes' /\ ArbPecCoversWire'
    BY <1>0, <2>1 DEF WireTypes, ArbPecCoversWire
  <2>3. CASE ~StatusOK
    <3>1. CallReturns(-1)
      BY <1>4, <2>3 DEF RequestDone, TransferFails
    <3>2. -1 \in Int
      OBVIOUS
    <3>3. Covering'
      BY <2>1, <3>1, <3>2, CoveringReturn
    <3> QED
      BY <2>2, <3>3
  <2>4. CASE StatusOK /\ Final
    <3>1. PICK r \in Nat : CallReturns(r)
      <4>1. Call.len \in Nat /\ Size \in Nat
        BY <1>0, <2>1, Transfer
      <4> QED
        BY <1>4, <2>4, <4>1 DEF RequestDone
    <3>2. ~stall /\ r \in Int
      BY <2>4 DEF StatusOK
    <3>3. Covering'
      BY <2>1, <2>4, <3>1, <3>2, CoveringReturn
    <3> QED
      BY <2>2, <3>3
  <2>5. CASE StatusOK /\ ~Final
    <3>1. pc' = "ready" /\ off' = off + Size /\ script' = script
      BY <1>4, <2>5 DEF RequestDone
    <3>2. off' > 0
      BY <1>0, <2>1, <3>1, Transfer DEF Types
    <3>3. ~stall
      BY <2>5 DEF StatusOK
    <3>4. ~PecIn(wire) /\ StopLast(script)
      BY <1>0, <2>1, <2>5, <3>3 DEF Covering
    <3>5. EndsInStop(script) /\ pec_enabled => NoReads(todo) /\ bytes = mrq_pec
      BY <1>0, <2>1, <3>3, <3>4 DEF Covering
    <3>6. Covering'
      BY <2>1, <3>1, <3>2, <3>4, <3>5, OnlyStop DEF Covering
    <3> QED
      BY <2>2, <3>6
  <2> QED
    BY <2>3, <2>4, <2>5
<1>5. CASE HostTimesOut
  <2>1. /\ CallReturns(-1) /\ script # << >>
        /\ UNCHANGED <<wire, bytes, i2dat, clocked, lastrd, todo, mrq_pec, pec_enabled>>
    BY <1>0, <1>5 DEF HostTimesOut, TimesOut, Types, fwVars, busVars
  <2>2. -1 \in Int
    OBVIOUS
  <2>3. Covering'
    BY <2>1, <2>2, CoveringReturn
  <2>4. WireTypes' /\ ArbPecCoversWire'
    BY <1>0, <2>1 DEF WireTypes, ArbPecCoversWire
  <2> QED
    BY <2>3, <2>4
<1>6. CASE OrphanDone
  <2>1. UNCHANGED <<pc, script, off, wire, bytes, i2dat, clocked, lastrd, todo, stall,
                    mrq_pec, pec_enabled>>
    BY <1>6 DEF OrphanDone, hostVars, busVars
  <2>2. Call' = Call /\ (Final' <=> Final)
    BY <2>1 DEF Call, Final, Size
  <2>3. WireTypes' /\ ArbPecCoversWire'
    BY <1>0, <2>1 DEF WireTypes, ArbPecCoversWire
  <2>4. Covering'
    BY <1>0, <2>1, <2>2 DEF Covering
  <2> QED
    BY <2>3, <2>4
<1>7. CASE Primitive
  BY <1>7, CoveringPrimitive
<1>8. CASE UNCHANGED vars
  <2>1. UNCHANGED <<pc, script, off, wire, bytes, i2dat, clocked, lastrd, todo, stall,
                    mrq_pec, pec_enabled>>
    BY <1>8 DEF vars, hostVars, fwVars, busVars
  <2>2. Call' = Call /\ (Final' <=> Final)
    BY <2>1 DEF Call, Final, Size
  <2>3. WireTypes' /\ ArbPecCoversWire'
    BY <1>0, <2>1 DEF WireTypes, ArbPecCoversWire
  <2>4. Covering'
    BY <1>0, <2>1, <2>2 DEF Covering
  <2> QED
    BY <2>3, <2>4
<1> QED
  BY <1>1, <1>2, <1>3, <1>4, <1>5, <1>6, <1>7, <1>8 DEF Next

LEMMA CInvInit ==
  ASSUME Init
  PROVE  CInv
<1>1. /\ wire = << >> /\ bytes = << >> /\ mrq_pec = << >> /\ i2dat = Zero /\ clocked = 0
      /\ lastrd \in BOOLEAN /\ todo = << >> /\ script = << >>
  BY DEF Init, BusInit
<1>2. /\ << >> \in Seq(Events) /\ << >> \in Seq(WireBytes) /\ Zero \in WireBytes
      /\ ~PecIn(<< >>) /\ ~EndsInStop(<< >>) /\ StopLast(<< >>)
  BY Primitives DEF PecIn, EndsInStop, StopLast
<1>3. AInv
  BY AInvInit
<1>4. WireTypes
  BY <1>1, <1>2 DEF WireTypes
<1>5. Covering
  BY <1>1, <1>2, OnlyStop DEF Covering
<1>6. ArbPecCoversWire
  BY <1>1, <1>2 DEF ArbPecCoversWire, PecIn
<1> QED
  BY <1>3, <1>4, <1>5, <1>6 DEF CInv

\* The PEC that ends a written transaction covers every byte on the bus before it,
\* whatever the number of calls and transfers it was put together from, also when
\* the host has given up meanwhile; for every application that ends only writes
\* begun with a START of their own with a STOP.
THEOREM WrittenPecCoversWire ==
  ASSUME StopEndsWrites
  PROVE  Spec => []ArbPecCoversWire
<1>1. Init => CInv
  BY CInvInit
<1>2. CInv /\ [Next]_vars => CInv'
  <2>1. ASSUME CInv, [Next]_vars PROVE AInv' /\ WireTypes' /\ Covering' /\ ArbPecCoversWire'
    BY <2>1, AInvStep, CoveringStep DEF CInv
  <2> QED
    BY <2>1 DEF CInv
<1>3. CInv => ArbPecCoversWire
  BY DEF CInv
<1> QED
  BY <1>1, <1>2, <1>3, PTL DEF Spec

-----------------------------------------------------------------------------
(* What a transaction has given the application                             *)

\* A byte that came neither from the device nor from a timeout.
Given(b) == b.role \notin {"dev", "zero"}

\* The bytes b end in n bytes of the device, in order; before them all are given.
Framed(b, n) ==
  /\ n <= Len(b)
  /\ \A i \in 1..Len(b) : IF i <= Len(b) - n THEN Given(b[i])
                                             ELSE b[i] = Dev(i - (Len(b) - n))

\* The PEC m covers g last, and a byte given just before it.
Covers(m, g) ==
  /\ Len(g) < Len(m) /\ Given(m[Len(m) - Len(g)])
  /\ \A i \in 1..Len(g) : m[Len(m) - Len(g) + i] = g[i]

\* What the application has been given, and is about to be.
Got == data \o (IF pc = "waits" THEN ep0buf ELSE << >>)

\* The calls still to make are the last of the transaction.
Place ==
  pc # "idle" =>
    /\ done \in Transactions /\ Len(script) <= Len(done)
    /\ \A k \in 1..Len(script) : script[k] = done[Len(done) - Len(script) + k]

\* A byte of this transaction has gone out, and nothing has come in since.
Begun == clocked = 0 /\ (pec_enabled => mrq_pec # << >> /\ Given(mrq_pec[Len(mrq_pec)]))

Writes ==
  pc # "idle" /\ Call.fn = "write" =>
    /\ data = << >> /\ \A i \in 1..Len(bytes) : Given(bytes[i])
    /\ pc = "waits" => \A i \in 1..Len(todo) :
         todo[i].op # "in" /\ (todo[i].op = "out" => Given(todo[i].b))
    /\ \/ pc = "ready" /\ off = 0 /\ Len(script) = Len(done)
       \/ pc = "waits" /\ acked = 0
       \/ Begun

\* The answer is as long as the bytes that were asked for, the PEC apart.
Reads ==
  pc # "idle" /\ Call.fn = "read" =>
    /\ Len(data) = off /\ Framed(bytes, clocked)
    /\ \A i \in 1..Len(Got) : ~Given(Got[i])
    /\ pec_enabled => Covers(mrq_pec, Got)
    /\ pc = "waits" =>
         /\ \A i \in 1..Len(todo) :
              todo[i].op = "in" /\ (todo[i].last <=> AtEnd /\ i = Len(todo))
         /\ Len(ep0buf) + Len(todo) = Size + Bit(todo # << >> /\ pec_enabled /\ AtEnd)

RTypes == WireTypes /\ data \in Seq(WireBytes) /\ ep0buf \in Seq(WireBytes)

RInv ==
  /\ AInv /\ RTypes /\ Place /\ Writes /\ Reads
  /\ pc = "idle" /\ busy => ret < 0
  /\ ~Given(i2dat)
  /\ ArbReadIntegrity

LEMMA GivenBytes ==
  /\ \A b \in AppBytes : Given(b)
  /\ Given(PecOut) /\ ~Given(Zero) /\ \A i \in Int : ~Given(Dev(i))
BY DEF Given, AppBytes, PecOut, Zero, Dev, B

LEMMA Appended ==
  ASSUME NEW S, NEW s \in Seq(S), NEW x \in S
  PROVE  /\ Append(s, x) \in Seq(S) /\ Len(Append(s, x)) = Len(s) + 1 /\ Len(s) \in Nat
         /\ \A i \in 1..Len(s) : Append(s, x)[i] = s[i]
         /\ Append(s, x)[Len(s) + 1] = x
OBVIOUS

LEMMA FramedMore ==
  ASSUME NEW b \in Seq(WireBytes), NEW n \in Nat, Framed(b, n)
  PROVE  Framed(Append(b, Dev(n + 1)), n + 1)
<1> DEFINE x == Dev(n + 1)
           c == Append(b, x)
<1>1. x \in WireBytes
  BY Primitives
<1>2. /\ Len(c) = Len(b) + 1 /\ Len(b) \in Nat
      /\ \A i \in 1..Len(b) : c[i] = b[i]
      /\ c[Len(b) + 1] = x
  <2> HIDE DEF x
  <2> QED
    BY <1>1, Appended
<1> HIDE DEF c
<1>3. ASSUME NEW i \in 1..Len(c)
      PROVE  IF i <= Len(c) - (n + 1) THEN Given(c[i])
                                      ELSE c[i] = Dev(i - (Len(c) - (n + 1)))
  <2>1. Len(c) - (n + 1) = Len(b) - n
    BY <1>2
  <2>2. CASE i = Len(b) + 1
    BY <1>2, <2>1, <2>2
  <2>3. CASE i # Len(b) + 1
    <3>1. i \in 1..Len(b)
      BY <1>2, <2>3
    <3> QED
      BY <1>2, <2>1, <3>1 DEF Framed
  <2> QED
    BY <2>2, <2>3
<1>4. n + 1 <= Len(c)
  BY <1>2 DEF Framed
<1>5. Framed(c, n + 1)
  BY <1>3, <1>4 DEF Framed
<1> QED
  BY <1>5 DEF c

LEMMA CoversMore ==
  ASSUME NEW m \in Seq(WireBytes), NEW g \in Seq(WireBytes), NEW v \in WireBytes,
         Covers(m, g)
  PROVE  Covers(Append(m, v), Append(g, v))
<1> DEFINE c == Append(m, v)
           d == Append(g, v)
<1>1. /\ Len(c) = Len(m) + 1 /\ Len(m) \in Nat /\ c[Len(m) + 1] = v
      /\ \A i \in 1..Len(m) : c[i] = m[i]
  BY Appended
<1>2. /\ Len(d) = Len(g) + 1 /\ Len(g) \in Nat /\ d[Len(g) + 1] = v
      /\ \A i \in 1..Len(g) : d[i] = g[i]
  BY Appended
<1> HIDE DEF c, d
<1>3. Len(c) - Len(d) = Len(m) - Len(g) /\ Len(m) - Len(g) \in 1..Len(m)
  BY <1>1, <1>2 DEF Covers
<1>4. ASSUME NEW i \in 1..Len(d) PROVE c[Len(c) - Len(d) + i] = d[i]
  <2>1. CASE i = Len(d)
    BY <1>1, <1>2, <1>3, <2>1
  <2>2. CASE i # Len(d)
    <3>1. i \in 1..Len(g) /\ Len(m) - Len(g) + i \in 1..Len(m)
      BY <1>1, <1>2, <1>3, <2>2
    <3> QED
      BY <1>1, <1>2, <1>3, <3>1 DEF Covers
  <2> QED
    BY <2>1, <2>2
<1>5. Covers(c, d)
  BY <1>1, <1>2, <1>3, <1>4 DEF Covers
<1> QED
  BY <1>5 DEF c, d

\* A read is the last call, and not the only one.
LEMMA LastCall ==
  ASSUME Types, Place, pc # "idle"
  PROVE  /\ done \in Seq(Calls) /\ Len(done) \in Nat /\ Len(script) \in Nat /\ Len(script) > 0
         /\ done \in Transactions /\ Len(script) <= Len(done)
         /\ Call = done[Len(done) - Len(script) + 1] /\ Call \in Calls
         /\ Len(script) < 2 => Call = done[Len(done)]
         /\ ReadsLast /\ Call.fn = "read" => Len(script) < 2 /\ Len(done) > 1
<1>1. script # << >> /\ done \in Transactions /\ done \in Seq(Calls) /\ Len(done) \in Nat
  BY TransactionsAssumption DEF Types, Place
<1>2. Call \in Calls /\ Call = script[1] /\ Len(script) \in Nat /\ Len(script) > 0
  BY <1>1, Transfer
<1>3. /\ Len(script) <= Len(done) /\ script[1] = done[Len(done) - Len(script) + 1]
      /\ Len(done) - Len(script) + 1 \in 1..Len(done)
  BY <1>1, <1>2 DEF Place
<1>4. ReadsLast /\ Call.fn = "read" => Len(done) - Len(script) + 1 = Len(done) /\ Len(done) > 1
  <2>1. DOMAIN done = 1..Len(done)
    BY <1>1
  <2> QED
    BY <1>1, <1>2, <1>3, <2>1 DEF ReadsLast
<1> QED
  BY <1>1, <1>2, <1>3, <1>4

LEMMA ReadLenIs ==
  ASSUME ReadsLast, NEW t \in Transactions
  PROVE  ReadLen(t) = IF t[Len(t)].fn = "read" THEN t[Len(t)].len ELSE 0
<1> DEFINE n == Len(t)
           K == {j \in DOMAIN t : t[j].fn = "read"}
<1>1. t \in Seq(Calls) /\ n \in Nat /\ n > 0 /\ DOMAIN t = 1..n
  BY TransactionsAssumption
<1>2. t[n] \in Calls /\ n \in DOMAIN t
  BY <1>1
<1>3. \A k \in K : k = n
  BY DEF ReadsLast
<1>4. CASE t[n].fn = "read"
  <2>1. K = {n}
    BY <1>2, <1>3, <1>4
  <2>2. BytesRead(t) = {n} \X (1..t[n].len)
    BY <2>1 DEF BytesRead
  <2>3. t[n].len \in Nat
    BY <1>2, CallTypes
  <2> DEFINE m == t[n].len
  <2> HIDE DEF m, n
  <2>4. IsFiniteSet({n}) /\ Cardinality({n}) = 1
    BY FS_Singleton
  <2>6. IsFiniteSet(1..m) /\ Cardinality(1..m) = m
    <3>1. m \in Nat
      BY <2>3 DEF m
    <3>2. IsFiniteSet(1..m) /\ Cardinality(1..m) = IF 1 > m THEN 0 ELSE m - 1 + 1
      BY <3>1, FS_Interval
    <3> QED
      BY <3>1, <3>2
  <2>5. Cardinality({n} \X (1..m)) = 1 * m
    BY <2>4, <2>6, FS_Product
  <2> QED
    BY <1>4, <2>2, <2>3, <2>5 DEF ReadLen, m, n
<1>5. CASE t[n].fn # "read"
  <2>1. K = {}
    BY <1>3, <1>5
  <2>2. BytesRead(t) = {}
    BY <2>1 DEF BytesRead
  <2> QED
    BY <1>5, <2>2, FS_EmptySet DEF ReadLen
<1> QED
  BY <1>4, <1>5

LEMMA Shortened ==
  ASSUME NEW S, NEW s \in Seq(S), s # << >>
  PROVE  /\ Len(Front(s)) = Len(s) - 1 /\ \A i \in 1..(Len(s) - 1) : Front(s)[i] = s[i]
         /\ Len(s) \in Nat /\ Len(s) > 0 /\ Front(s) \in Seq(S)
<1>1. Len(s) \in Nat /\ Len(s) > 0
  OBVIOUS
<1>2. Front(s) = SubSeq(s, 1, Len(s) - 1)
  BY DEF Front
<1>3. Front(s) = [i \in 1..(Len(s) - 1) |-> s[i]]
  BY <1>1, <1>2
<1>4. Len(Front(s)) = Len(s) - 1 /\ Front(s) \in Seq(S)
  BY <1>1, <1>3
<1> QED
  BY <1>1, <1>3, <1>4

\* The application has all the bytes of the device when it can vouch for them.
LEMMA AllRead ==
  ASSUME WireTypes, NEW g \in Seq(WireBytes), Len(g) > 0, Framed(bytes, clocked),
         \A i \in 1..Len(g) : ~Given(g[i]), Covers(mrq_pec, g),
         bytes # << >>, mrq_pec = Front(bytes)
  PROVE  g = [i \in 1..Len(g) |-> Dev(i)]
<1> DEFINE p == Len(bytes) - clocked
           q == Len(mrq_pec) - Len(g)
<1>1. /\ bytes \in Seq(WireBytes) /\ mrq_pec \in Seq(WireBytes) /\ clocked \in Nat
      /\ Len(bytes) \in Nat /\ Len(bytes) > 0 /\ Len(mrq_pec) \in Nat /\ Len(g) \in Nat
  BY DEF WireTypes
<1>2. Len(mrq_pec) = Len(bytes) - 1 /\ \A i \in 1..Len(mrq_pec) : mrq_pec[i] = bytes[i]
  BY <1>1, Shortened
<1>3. q \in 1..Len(mrq_pec) /\ Given(mrq_pec[q]) /\ \A i \in 1..Len(g) : mrq_pec[q + i] = g[i]
  BY <1>1 DEF Covers
<1>4. /\ p \in Nat
      /\ \A i \in 1..Len(bytes) : IF i <= p THEN Given(bytes[i]) ELSE bytes[i] = Dev(i - p)
  BY <1>1 DEF Framed
<1>5. \A i \in 1..Len(g) : q + i \in 1..Len(bytes) /\ bytes[q + i] = g[i]
  BY <1>1, <1>2, <1>3
<1> HIDE DEF p, q
<1>6. q <= p
  <2>1. q \in 1..Len(bytes) /\ Given(bytes[q])
    BY <1>1, <1>2, <1>3
  <2>2. ASSUME q > p PROVE FALSE
    <3>1. bytes[q] = Dev(q - p) /\ q - p \in Int
      BY <1>3, <1>4, <2>1, <2>2
    <3> QED
      BY <2>1, <3>1, GivenBytes
  <2> QED
    BY <1>1, <1>3, <1>4, <2>2
<1>7. q + 1 > p
  <2>1. 1 \in 1..Len(g) /\ ~Given(bytes[q + 1]) /\ q + 1 \in 1..Len(bytes)
    BY <1>1, <1>5
  <2> QED
    BY <1>1, <1>4, <2>1
<1>8. q = p
  BY <1>1, <1>3, <1>4, <1>6, <1>7
<1>9. ASSUME NEW i \in 1..Len(g) PROVE g[i] = Dev(i)
  <2>1. q + i \in 1..Len(bytes) /\ bytes[q + i] = g[i]
    BY <1>5
  <2>2. q + i > p /\ q + i - p = i
    BY <1>1, <1>3, <1>4, <1>8
  <2> DEFINE k == q + i
  <2>3. k \in 1..Len(bytes) /\ k > p /\ k - p = i /\ bytes[k] = g[i]
    BY <1>1, <1>3, <1>4, <2>1, <2>2
  <2> HIDE DEF k
  <2>4. bytes[k] = Dev(k - p)
    BY <1>1, <1>4, <2>3
  <2> QED
    BY <2>3, <2>4
<1>10. g = [i \in 1..Len(g) |-> g[i]]
  BY <1>1
<1> QED
  BY <1>1, <1>9, <1>10

\* What the application is given, and the answer under way, are bytes.
LEMMA RTypesStep ==
  ASSUME AInv, RTypes, [Next]_vars
  PROVE  RTypes'
<1>1. WireTypes /\ data \in Seq(WireBytes) /\ ep0buf \in Seq(WireBytes)
  BY DEF RTypes
<1>2. << >> \in Seq(WireBytes) /\ << >> \in Seq(Events)
  OBVIOUS
<1>3. CASE Begin
  <2>1. /\ data' = << >> /\ wire' = << >> /\ bytes' = << >>
        /\ UNCHANGED <<i2dat, clocked, lastrd, mrq_pec, ep0buf>>
    BY <1>3 DEF Begin, fwVars
  <2> QED
    BY <1>1, <1>2, <2>1 DEF RTypes, WireTypes
<1>4. CASE EnablePEC
  <2>1. /\ data' = << >> /\ wire' = << >> /\ bytes' = << >>
        /\ UNCHANGED <<i2dat, clocked, lastrd, ep0buf>>
        /\ mrq_pec' = mrq_pec \/ mrq_pec' = << >>
    BY <1>4 DEF EnablePEC
  <2> QED
    BY <1>1, <1>2, <2>1 DEF RTypes, WireTypes
<1>5. CASE Request
  <2>1. /\ ep0buf' = << >> /\ UNCHANGED <<wire, bytes, i2dat, clocked, lastrd, data>>
        /\ mrq_pec' = mrq_pec \/ mrq_pec' = << >>
    BY <1>5 DEF Request, busVars
  <2> QED
    BY <1>1, <1>2, <2>1 DEF RTypes, WireTypes
<1>6. CASE RequestDone
  <2>1. /\ UNCHANGED <<wire, bytes, i2dat, clocked, lastrd, mrq_pec, ep0buf>>
        /\ data' = data \/ data' = data \o ep0buf
    BY <1>6 DEF RequestDone, busVars
  <2>2. data \o ep0buf \in Seq(WireBytes)
    BY <1>1
  <2> QED
    BY <1>1, <2>1, <2>2 DEF RTypes, WireTypes
<1>7. CASE HostTimesOut \/ OrphanDone \/ UNCHANGED vars
  <2>1. UNCHANGED <<wire, bytes, i2dat, clocked, lastrd, mrq_pec, ep0buf, data>>
    BY <1>7 DEF HostTimesOut, OrphanDone, vars, busVars, fwVars, hostVars
  <2> QED
    BY <1>1, <2>1 DEF RTypes, WireTypes
<1>8. CASE Primitive
  <2>1. WireTypes' /\ Head(todo) \in Ops
    BY <1>1, <1>8, Effects, Kept
  <2>2. data' = data
    BY <1>8 DEF Primitive, Starts, StartFails, Restarts, OutAcked, OutFails, Stops,
                InRead, InTimesOut, hostVars
  <2>3. ASSUME NEW l, NEW v \in WireBytes, Take(l, v) PROVE ep0buf' \in Seq(WireBytes)
    <3>1. Append(ep0buf, v) \in Seq(WireBytes)
      BY <1>1
    <3> QED
      BY <1>1, <2>3, <3>1 DEF Take
  <2>4. CASE InRead
    <3>1. Take(Head(todo).last, ByteInValue(Head(todo).first))
      BY <2>4 DEF InRead
    <3>2. clocked + 1 \in Int /\ i2dat \in WireBytes
      BY <1>1 DEF WireTypes
    <3>3. ByteInValue(Head(todo).first) \in WireBytes
      BY <3>2, Primitives DEF ByteInValue
    <3> QED
      BY <2>1, <2>2, <2>3, <1>1, <3>1, <3>3 DEF RTypes
  <2>5. CASE InTimesOut
    <3>1. PICK v \in TimeoutValues(Head(todo).last) : Take(Head(todo).last, v)
      BY <2>5 DEF InTimesOut
    <3>2. v \in WireBytes
      BY <1>1, <3>1, Primitives DEF TimeoutValues, WireTypes
    <3> QED
      BY <2>1, <2>2, <2>3, <1>1, <3>1, <3>2 DEF RTypes
  <2>6. CASE ~InRead /\ ~InTimesOut
    <3>1. ep0buf' = ep0buf
      BY <1>8, <2>6 DEF Primitive, Starts, StartFails, Restarts, OutAcked, OutFails, Stops
    <3> QED
      BY <1>1, <2>1, <2>2, <3>1 DEF RTypes
  <2> QED
    BY <2>4, <2>5, <2>6
<1> QED
  BY <1>3, <1>4, <1>5, <1>6, <1>7, <1>8 DEF Next

\* A call returns: the calls that are left are the last ones still.
LEMMA PlaceReturn ==
  ASSUME Types, Place, script # << >>, pc # "idle", NEW r, CallReturns(r), done' = done
  PROVE  Place'
<1>1. CASE pc' = "idle"
  BY <1>1 DEF Place
<1>2. CASE pc' # "idle"
  <2>1. script' = Tail(script) /\ Len(script) \in Nat /\ Len(script) > 0
    BY <1>2, Transfer DEF CallReturns
  <2>2. /\ Len(script') = Len(script) - 1
        /\ \A j \in 1..(Len(script) - 1) : script'[j] = script[j + 1]
    BY <2>1, Shorter DEF Types
  <2>3. /\ done \in Transactions /\ Len(script) <= Len(done) /\ Len(done) \in Nat
        /\ \A k \in 1..Len(script) : script[k] = done[Len(done) - Len(script) + k]
    BY TransactionsAssumption DEF Place
  <2>4. ASSUME NEW k \in 1..Len(script')
        PROVE  script'[k] = done[Len(done) - Len(script') + k]
    <3>1. /\ k + 1 \in 1..Len(script) /\ k \in 1..(Len(script) - 1)
          /\ Len(done) - Len(script) + (k + 1) = Len(done) - Len(script') + k
      BY <2>1, <2>2, <2>3
    <3> QED
      BY <2>2, <2>3, <3>1
  <2>5. Len(script') <= Len(done)
    BY <2>1, <2>2, <2>3
  <2> QED
    BY <2>3, <2>4, <2>5 DEF Place
<1> QED
  BY <1>1, <1>2

LEMMA PlaceStep ==
  ASSUME AInv, Place, [Next]_vars
  PROVE  Place'
<1>0. Types
  BY DEF AInv
<1>1. CASE Begin
  <2>1. done' \in Transactions /\ script' = done'
    BY <1>1 DEF Begin
  <2>2. Len(done') \in Nat
    BY <2>1, TransactionsAssumption
  <2> QED
    BY <2>1, <2>2 DEF Place
<1>2. CASE EnablePEC
  BY <1>2 DEF EnablePEC, Place
<1>3. CASE Request \/ Primitive \/ UNCHANGED vars
  <2>1. UNCHANGED <<script, done>> /\ (pc' = "idle" <=> pc = "idle")
    BY <1>3 DEF Request, Primitive, Starts, StartFails, Restarts, OutAcked, OutFails, Stops,
                InRead, InTimesOut, vars, hostVars
  <2> QED
    BY <2>1 DEF Place
<1>4. CASE RequestDone
  <2>1. pc = "waits" /\ done' = done /\ script # << >>
    BY <1>0, <1>4 DEF RequestDone, Types
  <2>2. CASE ~StatusOK
    BY <1>0, <1>4, <2>1, <2>2, PlaceReturn DEF RequestDone, TransferFails
  <2>3. CASE StatusOK /\ Final
    BY <1>0, <1>4, <2>1, <2>3, PlaceReturn DEF RequestDone
  <2>4. CASE StatusOK /\ ~Final
    <3>1. script' = script
      BY <1>4, <2>4 DEF RequestDone
    <3> QED
      BY <2>1, <3>1 DEF Place
  <2> QED
    BY <2>2, <2>3, <2>4
<1>5. CASE HostTimesOut
  <2>1. pc # "idle" /\ CallReturns(-1) /\ done' = done /\ script # << >>
    BY <1>0, <1>5 DEF HostTimesOut, TimesOut, Types
  <2> QED
    BY <1>0, <2>1, PlaceReturn
<1>6. CASE OrphanDone
  BY <1>6 DEF OrphanDone, Place, hostVars
<1> QED
  BY <1>1, <1>2, <1>3, <1>4, <1>5, <1>6 DEF Next

\* What there is to do of a request that writes.
LEMMA WritesGiven ==
  ASSUME Types, script # << >>, Call.fn = "write", NEW i \in 1..Len(WriteCommand)
  PROVE  /\ WriteCommand[i].op # "in"
         /\ WriteCommand[i].op = "out" => Given(WriteCommand[i].b)
<1> DEFINE c == WriteCommand
<1>1. /\ c \in Seq(Ops) /\ Len(c) = Lead + Size + Trail
      /\ \A k \in 1..Size : c[Lead + k] = Put(Call.data[off + k])
      /\ Final /\ Call.stop => c[Len(c)] = Stop
      /\ Final /\ Call.stop /\ pec_enabled => c[Len(c) - 1] = PutPec
  BY WriteParts
<1>2. /\ Lead \in 0..2 /\ Trail \in 0..2
      /\ \A k \in 1..Lead : c[k].op \in {"start", "restart"}
      /\ Trail > 0 <=> Final /\ Call.stop
      /\ Trail = 2 <=> Final /\ Call.stop /\ pec_enabled
  BY Writing, PartSizes
<1> HIDE DEF c
<1>3. /\ Size \in Nat /\ off \in Nat /\ off + Size <= Call.len /\ Call.len \in Nat
      /\ Call \in Calls
  BY Transfer DEF Types
<1>4. CASE i <= Lead
  BY <1>2, <1>4 DEF c
<1>5. CASE i > Lead /\ i <= Lead + Size
  <2>1. i - Lead \in 1..Size /\ off + (i - Lead) \in 1..Call.len /\ i = Lead + (i - Lead)
    BY <1>2, <1>3, <1>5
  <2>2. c[i] = Put(Call.data[off + (i - Lead)])
    BY <1>1, <2>1
  <2>3. Call.data[off + (i - Lead)] \in AppBytes /\ Call.data[off + (i - Lead)] \in WireBytes
    BY <1>3, <2>1, CallBytes
  <2> QED
    BY <2>2, <2>3, PutTypes, GivenBytes DEF c
<1>6. CASE i > Lead + Size
  <2>1. i = Len(c) \/ (i = Len(c) - 1 /\ Trail = 2)
    BY <1>1, <1>2, <1>3, <1>6 DEF c
  <2>2. Trail > 0
    BY <1>1, <1>2, <1>3, <1>6 DEF c
  <2> QED
    BY <1>1, <1>2, <2>1, <2>2, Primitives, GivenBytes DEF c
<1> QED
  BY <1>2, <1>3, <1>4, <1>5, <1>6

LEMMA RInvRequest ==
  ASSUME RInv, Request
  PROVE  Writes' /\ Reads' /\ ~Given(i2dat)' /\ ArbReadIntegrity'
         /\ (pc = "idle" /\ busy => ret < 0)'
<1>1. /\ Types /\ RTypes /\ pc = "ready" /\ script # << >>
      /\ pc' = "waits" /\ ep0buf' = << >> /\ todo' = Command
      /\ UNCHANGED <<bytes, clocked, i2dat, script, off, data, done, pec_enabled>>
      /\ acked' = IF off = 0 THEN 0 ELSE acked
      /\ ~NewPec => mrq_pec' = mrq_pec
  BY DEF RInv, AInv, Types, Request, busVars, Command
<1>2. Call' = Call /\ Size' = Size /\ (Final' <=> Final) /\ (AtEnd' <=> AtEnd)
  BY <1>1 DEF Call, Size, Final, AtEnd
<1>3. ASSUME Call.fn = "write" PROVE Writes'
  <2>1. data = << >> /\ \A i \in 1..Len(bytes) : Given(bytes[i])
    BY <1>1, <1>3 DEF RInv, Writes
  <2>2. \A i \in 1..Len(todo') : todo'[i].op # "in" /\ (todo'[i].op = "out" => Given(todo'[i].b))
    BY <1>1, <1>3, WritesGiven DEF Command
  <2>3. acked' = 0 \/ Begun'
    <3>1. CASE off = 0
      BY <1>1, <3>1
    <3>2. CASE off # 0
      <4>1. Begun
        BY <1>1, <1>3, <3>2 DEF RInv, Writes
      <4>2. mrq_pec' = mrq_pec
        BY <1>1, <3>2 DEF NewPec
      <4> QED
        BY <1>1, <4>1, <4>2 DEF Begun
    <3> QED
      BY <3>1, <3>2
  <2> QED
    BY <1>1, <1>2, <1>3, <2>1, <2>2, <2>3 DEF Writes
<1>4. ASSUME Call.fn = "read" PROVE Reads'
  <2>1. /\ Len(data) = off /\ Framed(bytes, clocked)
        /\ \A i \in 1..Len(Got) : ~Given(Got[i])
        /\ pec_enabled => Covers(mrq_pec, Got)
    BY <1>1, <1>4 DEF RInv, Reads
  <2>2. mrq_pec' = mrq_pec
    BY <1>1, <1>4 DEF NewPec
  <2>3. Got = data \o << >> /\ Got' = data \o << >>
    BY <1>1 DEF Got
  <2>4. /\ todo' = ReadCommand /\ ReadSize \in Nat \ {0} /\ Len(todo') = ReadSize
        /\ \A i \in 1..ReadSize :
             todo'[i].op = "in" /\ (todo'[i].last <=> AtEnd /\ i = ReadSize)
    BY <1>1, <1>4, ReadParts DEF Command
  <2>5. Len(ep0buf') + Len(todo') = Size + Bit(todo' # << >> /\ pec_enabled /\ AtEnd)
    <3>1. todo' # << >>
      BY <2>4
    <3>2. Bit(todo' # << >> /\ pec_enabled /\ AtEnd) = Bit(pec_enabled /\ AtEnd)
      BY <3>1 DEF Bit
    <3>3. 0 = Len(ep0buf')
      BY <1>1
    <3> QED
      BY <2>4, <3>2, <3>3 DEF ReadSize
  <2>6. Covers(mrq_pec', Got') <=> Covers(mrq_pec, Got)
    BY <2>2, <2>3
  <2>7. /\ Len(data') = off' /\ Framed(bytes', clocked')
        /\ \A i \in 1..Len(Got') : ~Given(Got'[i])
        /\ pec_enabled' => Covers(mrq_pec', Got')
    BY <1>1, <2>1, <2>3, <2>6
  <2>8. \A i \in 1..Len(todo') :
          todo'[i].op = "in" /\ (todo'[i].last <=> AtEnd' /\ i = Len(todo'))
    BY <1>2, <2>4
  <2>9. Len(ep0buf') + Len(todo') = Size' + Bit(todo' # << >> /\ pec_enabled' /\ AtEnd')
    BY <1>1, <1>2, <2>5
  <2> QED
    BY <2>7, <2>8, <2>9 DEF Reads
<1>5. Writes' /\ Reads'
  BY <1>2, <1>3, <1>4 DEF Writes, Reads
<1>6. ~Given(i2dat)'
  BY <1>1 DEF RInv
<1> QED
  BY <1>1, <1>5, <1>6 DEF ArbReadIntegrity, Succeeded

\* A call that returned its bytes was the last one: the application can vouch for them.
LEMMA RInvVouched ==
  ASSUME ReadsLast, RInv, pc = "waits", todo = << >>, ~stall, Final,
         Len(script) = 1, done' = done, pec_enabled' = pec_enabled,
         UNCHANGED <<bytes, clocked, mrq_pec, rcv_pec, sound>>,
         data' = IF Call.fn = "read" THEN data \o ep0buf ELSE data
  PROVE  ArbReadIntegrity'
<1>1. /\ Types /\ RTypes /\ Place /\ Reads /\ script # << >> /\ pc # "idle"
      /\ Len(script) < 2
  BY DEF RInv, AInv, Types
<1>2. /\ done \in Transactions /\ Call = done[Len(done)] /\ Call \in Calls
  BY <1>1, LastCall
<1>3. ReadLen(done) = IF Call.fn = "read" THEN Call.len ELSE 0
  BY <1>2, ReadLenIs
<1>4. CASE Call.fn # "read"
  BY <1>3, <1>4 DEF ArbReadIntegrity
<1>5. CASE Call.fn = "read"
  <2>1. /\ Len(data) = off /\ Framed(bytes, clocked)
        /\ \A i \in 1..Len(Got) : ~Given(Got[i])
        /\ pec_enabled => Covers(mrq_pec, Got)
        /\ Len(ep0buf) + Len(todo) = Size + Bit(todo # << >> /\ pec_enabled /\ AtEnd)
    BY <1>1, <1>5 DEF Reads
  <2>2. data' = Got /\ Got \in Seq(WireBytes)
    BY <1>1, <1>5 DEF Got, RTypes
  <2>3. Len(Got) = Len(data) + Len(ep0buf) /\ Len(ep0buf) \in Nat
    BY <1>1 DEF Got, RTypes
  <2>4. Len(ep0buf) = Size
    <3>1. 0 = Len(todo) /\ Bit(todo # << >> /\ pec_enabled /\ AtEnd) = 0
      BY DEF Bit
    <3>2. Size \in Nat
      BY <1>1, Transfer
    <3> QED
      BY <2>1, <2>3, <3>1, <3>2
  <2>5. Len(Got) = Call.len /\ Len(Got) > 0
    BY <1>1, <1>2, <2>1, <2>3, <2>4, Transfer DEF Types
  <2>6. ASSUME pec_enabled, PecsAgree' PROVE Got = [i \in 1..Len(Got) |-> Dev(i)]
    <3>1. bytes # << >> /\ mrq_pec = Front(bytes)
      BY <2>6 DEF PecsAgree
    <3>2. WireTypes
      BY <1>1 DEF RTypes
    <3> QED
      BY <2>1, <2>2, <2>5, <2>6, <3>1, <3>2, AllRead
  <2>7. ReadLen(done)' = Len(Got)
    BY <1>3, <1>5, <2>5
  <2> QED
    BY <2>2, <2>6, <2>7 DEF ArbReadIntegrity
<1> QED
  BY <1>4, <1>5

LEMMA RInvRequestDone ==
  ASSUME ReadsLast, RInv, RequestDone, AInv', Place'
  PROVE  Writes' /\ Reads' /\ ~Given(i2dat)' /\ ArbReadIntegrity'
         /\ (pc = "idle" /\ busy => ret < 0)'
<1>1. /\ Types /\ RTypes /\ pc = "waits" /\ script # << >> /\ todo = << >> /\ ~busy'
      /\ UNCHANGED <<bytes, clocked, i2dat, todo, stall, pec_enabled, mrq_pec, rcv_pec, ep0buf>>
      /\ UNCHANGED <<done, acked, sound, faulty>>
  BY DEF RInv, AInv, Types, RequestDone, busVars, ghosts
<1>2. ~Given(i2dat)'
  BY <1>1 DEF RInv
<1>3. CASE ~StatusOK
  <2>1. pc' = "idle" /\ ret' = -1
    BY <1>3 DEF RequestDone, TransferFails, CallReturns
  <2>2. ~Succeeded'
    BY <2>1 DEF Succeeded
  <2> QED
    BY <1>1, <1>2, <2>1, <2>2 DEF Writes, Reads, ArbReadIntegrity
<1>4. CASE StatusOK /\ Final /\ Len(script) = 1
  <2>1. ~stall /\ data' = IF Call.fn = "read" THEN data \o ep0buf ELSE data
    BY <1>4 DEF RequestDone, StatusOK
  <2>2. pc' = "idle"
    BY <1>4 DEF RequestDone, CallReturns
  <2>3. ArbReadIntegrity'
    BY <1>1, <1>4, <2>1, RInvVouched
  <2> QED
    BY <1>1, <1>2, <2>2, <2>3 DEF Writes, Reads
<1>5. ASSUME StatusOK, Call.fn = "write"
      PROVE  Begun /\ data = << >> /\ data' = data /\ \A i \in 1..Len(bytes) : Given(bytes[i])
  <2>1. acked = off + Size /\ off \in Nat /\ Size \in Nat \ {0}
    BY <1>1, <1>5, AllAcked, Transfer DEF StatusOK, RInv, Types
  <2>2. acked # 0
    BY <2>1
  <2> QED
    BY <1>1, <1>5, <2>2 DEF RInv, Writes, RequestDone
<1>6. CASE StatusOK /\ Final /\ Len(script) # 1
  <2>1. PICK r \in Nat : CallReturns(r)
    <3>1. Call.len \in Nat /\ Size \in Nat
      BY <1>1, Transfer
    <3> QED
      BY <1>6, <3>1 DEF RequestDone
  <2>2. pc' = "ready" /\ script' = Tail(script) /\ off' = 0
    BY <1>6, <2>1 DEF CallReturns
  <2>3. Call.fn = "write"
    <3>1. ~(Len(script) < 2)
      <4> DEFINE n == Len(script)
      <4>1. n \in Nat /\ n > 0 /\ n # 1
        BY <1>1, <1>6, Transfer
      <4> HIDE DEF n
      <4>2. ~(n < 2)
        BY <4>1
      <4> QED
        BY <4>2 DEF n
    <3>2. Call.fn # "read" /\ Call \in Calls
      BY <1>1, <3>1, LastCall DEF RInv
    <3> QED
      BY <3>2, CallTypes
  <2>4. Begun /\ data = << >> /\ data' = << >> /\ \A i \in 1..Len(bytes) : Given(bytes[i])
    BY <1>5, <1>6, <2>3
  <2>5. Begun'
    BY <1>1, <2>4 DEF Begun
  <2>6. Writes'
    BY <1>1, <2>2, <2>4, <2>5 DEF Writes
  <2>7. Reads'
    <3>1. Got' = << >>
      BY <2>2, <2>4 DEF Got
    <3> DEFINE g == Got'
    <3>2. 0 = Len(g)
      BY <3>1
    <3>3. Framed(bytes', clocked')
      <4>1. clocked' = 0 /\ bytes' \in Seq(WireBytes)
        BY <1>1, <2>4 DEF Begun, RTypes, WireTypes
      <4> QED
        BY <1>1, <2>4, <4>1 DEF Framed
    <3>4. pec_enabled' => Covers(mrq_pec', g)
      <4>1. mrq_pec' \in Seq(WireBytes)
        BY <1>1 DEF RTypes, WireTypes
      <4> HIDE DEF g
      <4> QED
        BY <2>5, <3>2, <4>1 DEF Begun, Covers
    <3>5. Len(data') = off'
      BY <2>2, <2>4
    <3>6. \A i \in 1..Len(g) : ~Given(g[i])
      <4> HIDE DEF g
      <4> QED
        BY <3>2
    <3> QED
      BY <2>2, <3>3, <3>4, <3>5, <3>6 DEF Reads
  <2> QED
    BY <1>2, <2>2, <2>6, <2>7 DEF ArbReadIntegrity, Succeeded
<1>7. CASE StatusOK /\ ~Final
  <2>1. pc' = "ready" /\ off' = off + Size /\ script' = script
    BY <1>7 DEF RequestDone
  <2>2. Call' = Call
    BY <2>1 DEF Call
  <2>3. ASSUME Call.fn = "write" PROVE Writes'
    <3>1. Begun /\ data = << >> /\ data' = << >> /\ \A i \in 1..Len(bytes) : Given(bytes[i])
      BY <1>5, <1>7, <2>3
    <3>2. Begun'
      BY <1>1, <3>1 DEF Begun
    <3> QED
      BY <1>1, <2>1, <2>2, <3>1, <3>2 DEF Writes
  <2>4. ASSUME Call.fn = "read" PROVE Reads'
    <3>1. /\ Len(data) = off /\ Framed(bytes, clocked)
          /\ \A i \in 1..Len(Got) : ~Given(Got[i])
          /\ pec_enabled => Covers(mrq_pec, Got)
          /\ Len(ep0buf) + Len(todo) = Size + Bit(todo # << >> /\ pec_enabled /\ AtEnd)
      BY <1>1, <2>4 DEF RInv, Reads
    <3>2. data' = data \o ep0buf
      BY <1>7, <2>4 DEF RequestDone
    <3>3. Got = data' /\ Got' = data' \o << >> /\ data' \in Seq(WireBytes)
      BY <1>1, <2>1, <3>2 DEF Got, RTypes
    <3>4. Got' = Got
      BY <3>3
    <3>5. Len(ep0buf) = Size
      <4>1. 0 = Len(todo) /\ Bit(todo # << >> /\ pec_enabled /\ AtEnd) = 0
        BY <1>1 DEF Bit
      <4>2. Len(ep0buf) \in Nat /\ Size \in Nat
        BY <1>1, Transfer DEF RTypes
      <4> QED
        BY <3>1, <4>1, <4>2
    <3>6. Len(data') = off'
      <4>1. data \in Seq(WireBytes) /\ ep0buf \in Seq(WireBytes)
        BY <1>1 DEF RTypes
      <4>2. Len(data \o ep0buf) = Len(data) + Len(ep0buf)
        BY <4>1
      <4> QED
        BY <2>1, <3>1, <3>2, <3>5, <4>2
    <3>7. pec_enabled' => Covers(mrq_pec', Got')
      BY <1>1, <3>1, <3>4
    <3> QED
      BY <1>1, <2>1, <3>1, <3>4, <3>6, <3>7 DEF Reads
  <2>5. Writes' /\ Reads'
    BY <2>2, <2>3, <2>4 DEF Writes, Reads
  <2> QED
    BY <1>2, <2>1, <2>5 DEF ArbReadIntegrity, Succeeded
<1> QED
  BY <1>3, <1>4, <1>6, <1>7

\* A byte taken from the device, or given up, in the call that reads.
LEMMA ReadsTaken ==
  ASSUME RTypes, Types, Reads, pc = "waits", Call.fn = "read", todo # << >>, Steady,
         NEW v \in WireBytes, ~Given(v), Take(Head(todo).last, v), todo' = Tail(todo),
         data' = data, Framed(bytes', clocked')
  PROVE  Reads'
<1>1. /\ Call' = Call /\ Size' = Size /\ (Final' <=> Final) /\ (AtEnd' <=> AtEnd)
      /\ UNCHANGED <<pc, script, off, pec_enabled>>
  BY SteadyCall DEF Steady, Call, AtEnd
<1>2. /\ Len(data) = off
      /\ \A i \in 1..Len(Got) : ~Given(Got[i])
      /\ pec_enabled => Covers(mrq_pec, Got)
      /\ \A i \in 1..Len(todo) : todo[i].op = "in" /\ (todo[i].last <=> AtEnd /\ i = Len(todo))
      /\ Len(ep0buf) + Len(todo) = Size + Bit(todo # << >> /\ pec_enabled /\ AtEnd)
  BY DEF Reads
<1>3. /\ Tail(todo) \in Seq(Ops) /\ Len(Tail(todo)) = Len(todo) - 1
      /\ Len(todo) \in Nat /\ Len(todo) > 0 /\ Head(todo) = todo[1]
      /\ \A j \in 1..(Len(todo) - 1) : Tail(todo)[j] = todo[j + 1]
      /\ Tail(todo) # << >> <=> Len(todo) > 1
  BY Shorter DEF Types
<1>4. ASSUME NEW i \in 1..Len(todo')
      PROVE  todo'[i].op = "in" /\ (todo'[i].last <=> AtEnd' /\ i = Len(todo'))
  <2>1. i + 1 \in 1..Len(todo) /\ todo'[i] = todo[i + 1] /\ (i = Len(todo') <=> i + 1 = Len(todo))
    BY <1>3
  <2> QED
    BY <1>1, <1>2, <2>1
<1>5. Head(todo).last <=> AtEnd /\ Len(todo) < 2
  BY <1>2, <1>3
<1>6. data \in Seq(WireBytes) /\ ep0buf \in Seq(WireBytes) /\ mrq_pec \in Seq(WireBytes)
  BY DEF RTypes, WireTypes
<1>7. Got = data \o ep0buf /\ Got' = data \o ep0buf' /\ Got \in Seq(WireBytes)
  BY <1>1, <1>6 DEF Got
<1>8. Size \in Nat /\ Len(ep0buf) \in Nat
  BY <1>6, Transfer DEF Types
<1>9. CASE pec_enabled /\ Head(todo).last
  <2>1. ep0buf' = ep0buf /\ mrq_pec' = mrq_pec
    BY <1>9 DEF Take
  <2>2. Got' = Got
    BY <1>7, <2>1
  <2>3. Len(ep0buf') + Len(todo') = Size + Bit(todo' # << >> /\ pec_enabled /\ AtEnd)
    <3>1. AtEnd /\ Len(todo) < 2 /\ pec_enabled
      BY <1>5, <1>9
    <3>2. Bit(todo # << >> /\ pec_enabled /\ AtEnd) = 1
      BY <3>1 DEF Bit
    <3>3. Bit(todo' # << >> /\ pec_enabled /\ AtEnd) = 0
      BY <1>3, <3>1 DEF Bit
    <3>4. Len(ep0buf) + Len(todo) = Size + 1
      BY <1>2, <3>2
    <3>5. Len(ep0buf') + Len(todo') = Size + 0
      BY <1>3, <1>8, <2>1, <3>4
    <3> QED
      BY <3>3, <3>5
  <2> QED
    BY <1>1, <1>2, <1>4, <2>1, <2>2, <2>3 DEF Reads
<1>10. CASE ~(pec_enabled /\ Head(todo).last)
  <2>1. /\ ep0buf' = Append(ep0buf, v)
        /\ mrq_pec' = IF pec_enabled THEN Append(mrq_pec, v) ELSE mrq_pec
    BY <1>10 DEF Take
  <2>2. Got' = Append(Got, v)
    BY <1>6, <1>7, <2>1
  <2>3. Len(ep0buf') = Len(ep0buf) + 1
    BY <1>6, <2>1
  <2>4. /\ Len(Append(Got, v)) = Len(Got) + 1 /\ Len(Got) \in Nat
        /\ \A i \in 1..Len(Got) : Append(Got, v)[i] = Got[i]
        /\ Append(Got, v)[Len(Got) + 1] = v
    BY <1>7, Appended
  <2>5. ASSUME NEW i \in 1..Len(Append(Got, v)) PROVE ~Given(Append(Got, v)[i])
    <3>1. i = Len(Got) + 1 \/ i \in 1..Len(Got)
      BY <2>4
    <3> QED
      BY <1>2, <2>4, <3>1
  <2>6. pec_enabled' => Covers(mrq_pec', Got')
    BY <1>1, <1>2, <1>6, <1>7, <2>1, <2>2, CoversMore
  <2>7. Bit(todo' # << >> /\ pec_enabled /\ AtEnd) = Bit(todo # << >> /\ pec_enabled /\ AtEnd)
    <3>1. todo' # << >> /\ pec_enabled /\ AtEnd <=> todo # << >> /\ pec_enabled /\ AtEnd
      BY <1>3, <1>5, <1>10
    <3> QED
      BY <3>1 DEF Bit
  <2>8. Len(ep0buf') + Len(todo') = Size + Bit(todo' # << >> /\ pec_enabled /\ AtEnd)
    <3> DEFINE b == Bit(todo # << >> /\ pec_enabled /\ AtEnd)
    <3> HIDE DEF b
    <3>1. Len(ep0buf) + Len(todo) = Size + b
      BY <1>2 DEF b
    <3>2. Len(ep0buf') + Len(todo') = Size + b
      BY <1>3, <1>8, <2>3, <3>1
    <3> QED
      BY <2>7, <3>2 DEF b
  <2>9. \A i \in 1..Len(Got') : ~Given(Got'[i])
    BY <2>2, <2>5
  <2> QED
    BY <1>1, <1>2, <1>4, <2>6, <2>8, <2>9 DEF Reads
<1> QED
  BY <1>9, <1>10

\* What a read does to the bytes on the bus.
LEMMA FramedRead ==
  ASSUME WireTypes, InRead, Head(todo) \in Ops, Head(todo).op = "in"
  PROVE  /\ Framed(bytes, clocked) => Framed(bytes', clocked')
         /\ ~Given(i2dat)'
<1> DEFINE g  == Head(todo)
           n1 == IF g.first THEN clocked + 1 ELSE clocked
           b1 == IF g.first THEN Append(bytes, Dev(n1)) ELSE bytes
<1>1. IF g.last THEN bytes' = b1 /\ clocked' = n1 /\ i2dat' = Dev(n1)
                ELSE /\ bytes' = Append(b1, Dev(n1 + 1)) /\ clocked' = n1 + 1
                     /\ i2dat' = Dev(n1 + 1)
  BY DEF InRead, ByteIn
<1>2. bytes \in Seq(WireBytes) /\ clocked \in Nat
  BY DEF WireTypes
<1>3. n1 \in Nat /\ b1 \in Seq(WireBytes)
  <2>1. clocked + 1 \in Int /\ Dev(clocked + 1) \in WireBytes
    BY <1>2, Primitives
  <2>2. Append(bytes, Dev(clocked + 1)) \in Seq(WireBytes)
    BY <1>2, <2>1
  <2> QED
    BY <1>2, <2>2
<1>4. Framed(bytes, clocked) => Framed(b1, n1)
  BY <1>2, FramedMore
<1> HIDE DEF n1, b1
<1>5. Framed(bytes, clocked) => Framed(bytes', clocked')
  <2>1. CASE g.last
    BY <1>1, <1>4, <2>1
  <2>2. CASE ~g.last
    <3>1. bytes' = Append(b1, Dev(n1 + 1)) /\ clocked' = n1 + 1
      BY <1>1, <2>2
    <3> QED
      BY <1>3, <1>4, <3>1, FramedMore
  <2> QED
    BY <2>1, <2>2
<1>6. ~Given(i2dat')
  <2>1. n1 \in Int /\ n1 + 1 \in Int
    BY <1>3
  <2>2. i2dat' = Dev(n1) \/ i2dat' = Dev(n1 + 1)
    BY <1>1
  <2> QED
    BY <2>1, <2>2, GivenBytes
<1> QED
  BY <1>5, <1>6

\* What a read returns.
LEMMA ValueRead ==
  ASSUME WireTypes, ~Given(i2dat), InRead \/ InTimesOut
  PROVE  \E v \in WireBytes : ~Given(v) /\ Take(Head(todo).last, v)
<1>1. clocked + 1 \in Int /\ i2dat \in WireBytes
  BY DEF WireTypes
<1>2. CASE InRead
  <2>1. Take(Head(todo).last, ByteInValue(Head(todo).first))
    BY <1>2 DEF InRead
  <2>2. ByteInValue(Head(todo).first) \in {Dev(clocked + 1), i2dat}
    BY DEF ByteInValue
  <2> QED
    BY <1>1, <2>1, <2>2, Primitives, GivenBytes
<1>3. CASE InTimesOut
  <2>1. PICK v \in TimeoutValues(Head(todo).last) : Take(Head(todo).last, v)
    BY <1>3 DEF InTimesOut
  <2>2. v \in {Zero, i2dat}
    BY <2>1 DEF TimeoutValues
  <2> QED
    BY <1>1, <2>1, <2>2, Primitives, GivenBytes
<1> QED
  BY <1>2, <1>3

\* What the other primitives do to what is read and sent.
LEMMA NotRead ==
  ASSUME AInv, WireTypes, Primitive, Head(todo).op # "in"
  PROVE  /\ UNCHANGED <<i2dat, ep0buf>>
         /\ \/ UNCHANGED <<bytes, clocked, mrq_pec, acked>>
            \/ /\ Head(todo).op = "out" /\ bytes' = Append(bytes, Head(todo).b)
               /\ \/ UNCHANGED <<clocked, mrq_pec, acked>>
                  \/ clocked' = 0 /\ ~Head(todo).crc /\ UNCHANGED <<mrq_pec, acked>>
                  \/ /\ clocked' = 0 /\ Head(todo).crc
                     /\ mrq_pec' = IF pec_enabled THEN Append(mrq_pec, Head(todo).b) ELSE mrq_pec
<1>1. CASE Starts \/ Restarts
  BY <1>1 DEF Starts, Restarts, i2c_start, i2c_restart, ghosts
<1>2. CASE StartFails
  BY <1>2 DEF StartFails, busVars
<1>3. CASE OutAcked
  <2>1. /\ UNCHANGED <<i2dat, ep0buf>> /\ Head(todo).op = "out"
        /\ bytes' = Append(bytes, Head(todo).b) /\ clocked' = 0
    BY <1>3 DEF OutAcked, ByteOutAck, At
  <2>2. CASE Head(todo).crc
    <3>1. mrq_pec' = IF pec_enabled THEN Append(mrq_pec, Head(todo).b) ELSE mrq_pec
      BY <1>3, <2>2 DEF OutAcked
    <3> QED
      BY <2>1, <2>2, <3>1
  <2>3. CASE ~Head(todo).crc
    <3>1. UNCHANGED <<mrq_pec, acked>>
      BY <1>3, <2>3 DEF OutAcked
    <3> QED
      BY <2>1, <2>3, <3>1
  <2> QED
    BY <2>2, <2>3
<1>4. CASE OutFails
  BY <1>4 DEF OutFails, ByteOutNak, ByteOutTimeout, i2c_stop, At
<1>5. CASE Stops
  BY <1>5 DEF Stops, i2c_stop, ghosts
<1>6. ~InRead /\ ~InTimesOut
  BY DEF InRead, InTimesOut, At
<1> QED
  BY <1>1, <1>2, <1>3, <1>4, <1>5, <1>6 DEF Primitive

LEMMA WritesPrimitive ==
  ASSUME RInv, Primitive, pc = "waits", Call.fn = "write"
  PROVE  Writes' /\ ~Given(i2dat)'
<1>1. /\ AInv /\ Types /\ WireTypes /\ bytes \in Seq(WireBytes) /\ mrq_pec \in Seq(WireBytes)
      /\ todo \in Seq(Ops) /\ ~Given(i2dat)
  BY DEF RInv, RTypes, AInv, Types, WireTypes
<1>2. /\ todo # << >> /\ Steady /\ Head(todo) \in Ops
      /\ todo' = Tail(todo) \/ todo' = <<Stop>>
  BY <1>1, Kept DEF Advance, GiveUp
<1>3. /\ Call' = Call /\ UNCHANGED <<pc, script, off, pec_enabled>>
  BY <1>2, SteadyCall DEF Steady
<1>4. /\ data = << >> /\ \A i \in 1..Len(bytes) : Given(bytes[i])
      /\ \A i \in 1..Len(todo) : todo[i].op # "in" /\ (todo[i].op = "out" => Given(todo[i].b))
      /\ acked = 0 \/ Begun
  BY DEF RInv, Writes
<1>5. /\ Tail(todo) \in Seq(Ops) /\ Len(Tail(todo)) = Len(todo) - 1
      /\ Len(todo) \in Nat /\ Len(todo) > 0 /\ Head(todo) = todo[1]
      /\ \A j \in 1..(Len(todo) - 1) : Tail(todo)[j] = todo[j + 1]
  BY <1>1, <1>2, Shorter
<1>6. Head(todo).op # "in" /\ (Head(todo).op = "out" => Given(Head(todo).b))
  BY <1>4, <1>5
<1>7. Head(todo).op = "out" => Head(todo).b \in WireBytes
  BY <1>2, Kinds
<1>8. \A i \in 1..Len(todo') : todo'[i].op # "in" /\ (todo'[i].op = "out" => Given(todo'[i].b))
  <2>1. CASE todo' = Tail(todo)
    <3>1. ASSUME NEW i \in 1..Len(todo') PROVE todo'[i] = todo[i + 1] /\ i + 1 \in 1..Len(todo)
      BY <1>5, <2>1
    <3> QED
      BY <1>4, <3>1
  <2>2. CASE todo' = <<Stop>>
    <3>1. \A i \in 1..Len(<<Stop>>) : <<Stop>>[i] = Stop
      OBVIOUS
    <3> QED
      BY <2>2, <3>1, Primitives
  <2> QED
    BY <1>2, <2>1, <2>2
<1>9. data' = data
  BY DEF Primitive, Starts, StartFails, Restarts, OutAcked, OutFails, Stops,
         InRead, InTimesOut, hostVars
<1> DEFINE b == Head(todo).b
<1>10. /\ UNCHANGED <<i2dat, ep0buf>>
       /\ \/ UNCHANGED <<bytes, clocked, mrq_pec, acked>>
          \/ /\ Head(todo).op = "out" /\ bytes' = Append(bytes, b)
             /\ \/ UNCHANGED <<clocked, mrq_pec, acked>>
                \/ clocked' = 0 /\ ~Head(todo).crc /\ UNCHANGED <<mrq_pec, acked>>
                \/ /\ clocked' = 0 /\ Head(todo).crc
                   /\ mrq_pec' = IF pec_enabled THEN Append(mrq_pec, b) ELSE mrq_pec
  BY <1>1, <1>6, NotRead
<1> HIDE DEF b
<1>11. ASSUME Head(todo).op = "out"
       PROVE  /\ Len(Append(bytes, b)) = Len(bytes) + 1 /\ Len(bytes) \in Nat
              /\ \A i \in 1..Len(bytes) : Append(bytes, b)[i] = bytes[i]
              /\ Append(bytes, b)[Len(bytes) + 1] = b
              /\ Append(mrq_pec, b) # << >> /\ Len(Append(mrq_pec, b)) = Len(mrq_pec) + 1
              /\ Append(mrq_pec, b)[Len(mrq_pec) + 1] = b
              /\ Given(b)
  <2>1. b \in WireBytes /\ Given(b)
    BY <1>6, <1>7, <1>11 DEF b
  <2> QED
    BY <1>1, <2>1, Appended
<1>12. \A i \in 1..Len(bytes') : Given(bytes'[i])
  <2>1. CASE bytes' = bytes
    BY <1>4, <2>1
  <2>2. CASE bytes' # bytes
    <3>1. Head(todo).op = "out" /\ bytes' = Append(bytes, b)
      BY <1>10, <2>2
    <3>2. ASSUME NEW i \in 1..Len(bytes') PROVE Given(bytes'[i])
      <4>1. i = Len(bytes) + 1 \/ i \in 1..Len(bytes)
        BY <1>11, <3>1
      <4> QED
        BY <1>4, <1>11, <3>1, <4>1
    <3> QED
      BY <3>2
  <2> QED
    BY <2>1, <2>2
<1>13. acked' = 0 \/ Begun'
  <2>1. CASE UNCHANGED <<clocked, mrq_pec, acked>>
    BY <1>3, <1>4, <2>1 DEF Begun
  <2>2. CASE clocked' = 0 /\ UNCHANGED <<mrq_pec, acked>>
    BY <1>3, <1>4, <2>2 DEF Begun
  <2>3. CASE /\ Head(todo).op = "out" /\ clocked' = 0
             /\ mrq_pec' = IF pec_enabled THEN Append(mrq_pec, b) ELSE mrq_pec
    BY <1>3, <1>11, <2>3 DEF Begun
  <2> QED
    BY <1>10, <2>1, <2>2, <2>3
<1>14. Writes'
  BY <1>3, <1>4, <1>8, <1>9, <1>12, <1>13 DEF Writes
<1> QED
  BY <1>1, <1>10, <1>14

LEMMA ReadsPrimitive ==
  ASSUME RInv, Primitive, pc = "waits", Call.fn = "read"
  PROVE  Reads' /\ ~Given(i2dat)'
<1>1. /\ AInv /\ Types /\ RTypes /\ WireTypes /\ ~Given(i2dat) /\ todo \in Seq(Ops) /\ Reads
  BY DEF RInv, RTypes, AInv, Types
<1>2. todo # << >> /\ Steady /\ Head(todo) \in Ops
  BY <1>1, Kept
<1>3. Head(todo).op = "in" /\ Framed(bytes, clocked)
  BY <1>1, <1>2, Shorter DEF Reads
<1>4. InRead \/ InTimesOut
  BY <1>3 DEF Primitive, Starts, StartFails, Restarts, OutAcked, OutFails, Stops, At
<1>5. todo' = Tail(todo) /\ data' = data
  BY <1>4 DEF InRead, InTimesOut, Advance, hostVars
<1>6. PICK v \in WireBytes : ~Given(v) /\ Take(Head(todo).last, v)
  BY <1>1, <1>4, ValueRead
<1>7. Framed(bytes', clocked') /\ ~Given(i2dat)'
  <2>1. CASE InRead
    BY <1>1, <1>2, <1>3, <2>1, FramedRead
  <2>2. CASE InTimesOut
    BY <1>1, <1>3, <2>2 DEF InTimesOut, ByteInTimeout, i2c_stop
  <2> QED
    BY <1>4, <2>1, <2>2
<1> QED
  BY <1>1, <1>2, <1>5, <1>6, <1>7, ReadsTaken

\* The handler of a request that the host has given up.
LEMMA OrphanPrimitive ==
  ASSUME RInv, Primitive
  PROVE  ~Given(i2dat)'
<1>1. WireTypes /\ AInv /\ ~Given(i2dat) /\ Head(todo) \in Ops
  BY Kept DEF RInv, RTypes
<1>2. CASE InRead
  BY <1>1, <1>2, FramedRead DEF InRead, At
<1>3. CASE InTimesOut
  BY <1>1, <1>3 DEF InTimesOut, ByteInTimeout, i2c_stop
<1>4. CASE ~InRead /\ ~InTimesOut
  <2>1. Head(todo).op # "in"
    BY <1>4 DEF Primitive, Starts, StartFails, Restarts, OutAcked, OutFails, Stops, At
  <2> QED
    BY <1>1, <2>1, NotRead
<1> QED
  BY <1>2, <1>3, <1>4

LEMMA RInvPrimitive ==
  ASSUME RInv, Primitive
  PROVE  Writes' /\ Reads' /\ ~Given(i2dat)' /\ ArbReadIntegrity'
         /\ (pc = "idle" /\ busy => ret < 0)'
<1>1. AInv /\ Types /\ Steady
  BY Kept DEF RInv, AInv
<1>2. busy /\ UNCHANGED <<pc, script, off, ret, busy>>
  BY <1>1 DEF Steady, Primitive, Starts, StartFails, Restarts, OutAcked, OutFails, Stops,
              InRead, InTimesOut, At
<1>3. ~Given(i2dat)'
  BY OrphanPrimitive
<1>4. (pc = "idle" /\ busy => ret < 0) /\ (pc = "idle" /\ busy => ret < 0)'
  BY <1>2 DEF RInv
<1>5. CASE pc # "waits"
  <2>1. pc = "idle"
    BY <1>1, <1>2, <1>5 DEF Types
  <2>2. ret \in Int /\ ret < 0
    BY <1>1, <1>2, <1>4, <2>1 DEF Types
  <2>3. ~(ret >= 0)
    BY <2>2
  <2>4. ~Succeeded'
    BY <1>2, <2>3 DEF Succeeded
  <2> QED
    BY <1>2, <1>3, <1>4, <2>1, <2>4 DEF Writes, Reads, ArbReadIntegrity
<1>6. CASE pc = "waits"
  <2>1. Call.fn \in {"write", "read"} /\ Call' = Call
    BY <1>1, <1>6, Transfer, CallTypes, SteadyCall DEF Types
  <2>2. Writes' /\ Reads'
    <3>1. CASE Call.fn = "write"
      BY <1>6, <2>1, <3>1, WritesPrimitive DEF Reads
    <3>2. CASE Call.fn = "read"
      BY <1>6, <2>1, <3>2, ReadsPrimitive DEF Writes
    <3> QED
      BY <2>1, <3>1, <3>2
  <2>3. ~Succeeded'
    BY <1>2, <1>6 DEF Succeeded
  <2> QED
    BY <1>3, <1>4, <2>2, <2>3 DEF ArbReadIntegrity
<1> QED
  BY <1>5, <1>6

LEMMA RInvStep ==
  ASSUME ReadsLast, RInv, [Next]_vars
  PROVE  RInv'
<1>1. AInv' /\ RTypes' /\ Place'
  BY AInvStep, RTypesStep, PlaceStep DEF RInv
<1> SUFFICES Writes' /\ Reads' /\ ~Given(i2dat)' /\ ArbReadIntegrity'
             /\ (pc = "idle" /\ busy => ret < 0)'
  BY <1>1 DEF RInv
<1>2. CASE Begin
  <2>1. /\ pc' = "ready" /\ off' = 0 /\ data' = << >> /\ bytes' = << >> /\ i2dat' = i2dat
        /\ script' = done'
    BY <1>2 DEF Begin
  <2>2. ~Given(i2dat)'
    BY <2>1 DEF RInv
  <2>3. Types' /\ script' # << >>
    BY <1>1, <2>1 DEF AInv, Types
  <2>4. Call'.fn # "read"
    <3>1. done' \in Transactions
      BY <1>2 DEF Begin
    <3>2. done' \in Seq(Calls) /\ done' # << >> /\ Head(done') = done'[1] /\ 1 \in DOMAIN done'
      BY <3>1, TransactionsAssumption
    <3> QED
      BY <2>1, <3>1, <3>2 DEF ReadsLast, Call
  <2>5. Writes'
    BY <2>1 DEF Writes
  <2> QED
    BY <2>1, <2>2, <2>4, <2>5 DEF Reads, ArbReadIntegrity, Succeeded
<1>3. CASE EnablePEC
  <2>1. pc = "idle" /\ pc' = "idle" /\ done' = << >> /\ i2dat' = i2dat /\ ~busy'
    BY <1>3 DEF EnablePEC
  <2>2. ~Given(i2dat)'
    BY <2>1 DEF RInv
  <2> QED
    BY <2>1, <2>2 DEF Writes, Reads, ArbReadIntegrity, Succeeded
<1>4. CASE Request
  BY <1>4, RInvRequest
<1>5. CASE RequestDone
  BY <1>1, <1>5, RInvRequestDone
<1>6. CASE HostTimesOut
  <2>1. pc' = "idle" /\ ret' = -1 /\ i2dat' = i2dat
    BY <1>6 DEF HostTimesOut, TimesOut, CallReturns, busVars
  <2>2. ~Given(i2dat)'
    BY <2>1 DEF RInv
  <2>3. ~Succeeded'
    BY <2>1 DEF Succeeded
  <2> QED
    BY <2>1, <2>2, <2>3 DEF Writes, Reads, ArbReadIntegrity
<1>7. CASE OrphanDone
  <2>1. /\ pc = "idle" /\ ~busy' /\ UNCHANGED <<busVars, hostVars, pec_enabled, mrq_pec, rcv_pec>>
        /\ UNCHANGED sound
    BY <1>7 DEF OrphanDone, RInv, AInv, Types, ghosts
  <2>2. UNCHANGED <<pc, done, ret, data, bytes, i2dat>>
    BY <2>1 DEF hostVars, busVars
  <2>3. ArbReadIntegrity'
    BY <2>1, <2>2 DEF RInv, ArbReadIntegrity, Succeeded, PecsAgree
  <2>4. ~Given(i2dat)'
    BY <2>2 DEF RInv
  <2> QED
    BY <2>1, <2>2, <2>3, <2>4 DEF Writes, Reads
<1>8. CASE Primitive
  BY <1>8, RInvPrimitive
<1>9. CASE UNCHANGED vars
  <2>1. /\ UNCHANGED <<busVars, hostVars, fwVars, ghosts>>
    BY <1>9 DEF vars
  <2>2. UNCHANGED <<pc, script, off, data, ret, done, bytes, i2dat, clocked, todo, busy,
                    pec_enabled, mrq_pec, rcv_pec, ep0buf, acked, sound>>
    BY <2>1 DEF busVars, hostVars, fwVars, ghosts
  <2>3. Call' = Call /\ Size' = Size /\ (AtEnd' <=> AtEnd) /\ Got' = Got /\ (Begun' <=> Begun)
    BY <2>2 DEF Call, Size, AtEnd, Final, Got, Begun
  <2>4. Writes'
    BY <2>2, <2>3 DEF RInv, Writes
  <2>5. Reads'
    BY <2>2, <2>3 DEF RInv, Reads
  <2>6. ArbReadIntegrity'
    BY <2>2 DEF RInv, ArbReadIntegrity, Succeeded, PecsAgree
  <2> QED
    BY <2>2, <2>4, <2>5, <2>6 DEF RInv
<1> QED
  BY <1>2, <1>3, <1>4, <1>5, <1>6, <1>7, <1>8, <1>9 DEF Next

LEMMA RInvInit ==
  ASSUME Init
  PROVE  RInv
<1>1. AInv /\ WireTypes
  BY AInvInit, CInvInit DEF CInv
<1>2. /\ pc = "idle" /\ ~busy /\ done = << >> /\ i2dat = Zero
      /\ data = << >> /\ ep0buf = << >>
  BY DEF Init, BusInit
<1>3. RTypes
  BY <1>1, <1>2 DEF RTypes
<1> QED
  BY <1>1, <1>2, <1>3, GivenBytes DEF RInv, Place, Writes, Reads, ArbReadIntegrity, Succeeded

\* With PEC on, a transaction that succeeds and whose two PECs agree has given the
\* application the bytes of the device, all of them and in order, whatever timed out
\* on the way: SMB_READ goes on after a timeout and answers as if nothing had been
\* wrong. For every application whose read is one call, the last of a transaction.
THEOREM PecVouchesForRead ==
  ASSUME ReadsLast
  PROVE  Spec => []ArbReadIntegrity
<1>1. Init => RInv
  BY RInvInit
<1>2. RInv /\ [Next]_vars => RInv'
  BY RInvStep
<1>3. RInv => ArbReadIntegrity
  BY DEF RInv
<1> QED
  BY <1>1, <1>2, <1>3, PTL DEF Spec

-----------------------------------------------------------------------------
(* What a transaction has shown on the bus                                  *)

LEMMA EventKinds ==
  /\ START.ev = "S" /\ RESTART.ev = "Sr" /\ STOP.ev = "P"
  /\ \A b, a : Sent(b, a).ev = "out" /\ Read(b, a).ev = "in"
BY DEF START, RESTART, STOP, Sent, Read

\* What a call that writes shows on the wire, piece by piece.
LEMMA EventParts ==
  ASSUME pec_enabled \in BOOLEAN, NEW c \in Calls, c.fn = "write", NEW m
  PROVE  LET s == CallEvents(c, m)
         IN  /\ s \in Seq(Events) /\ Len(s) = Leads(c) + c.len + Tails(c)
             /\ c.start => s[1] = START
             /\ c.restart => s[Leads(c)] = RESTART
             /\ \A k \in 1..c.len : s[Leads(c) + k] = Sent(c.data[k], TRUE)
             /\ c.stop => s[Len(s)] = STOP
             /\ c.stop /\ pec_enabled => s[Len(s) - 1] = Sent(PecOut, TRUE)
<1> DEFINE d == [k \in 1..c.len |-> Sent(c.data[k], TRUE)]
           a == c.start
           b == c.restart
           z == c.stop
           u == Sent(PecOut, TRUE)
<1>1. /\ c.len \in Nat /\ a \in BOOLEAN /\ b \in BOOLEAN /\ z \in BOOLEAN
  BY CallTypes
<1>2. d \in Seq(Events) /\ Len(d) = c.len /\ \A k \in 1..c.len : d[k] = Sent(c.data[k], TRUE)
  <2>1. ASSUME NEW k \in 1..c.len PROVE Sent(c.data[k], TRUE) \in Events
    BY CallBytes, EventTypes
  <2>2. d \in Seq(Events)
    <3> DEFINE g(k) == Sent(c.data[k], TRUE)
    <3>1. d = [k \in 1..c.len |-> g(k)] /\ \A k \in 1..c.len : g(k) \in Events
      BY <2>1
    <3> HIDE DEF g, d
    <3> QED
      BY <1>1, <3>1
  <2>3. Len(d) = c.len
    BY <1>1
  <2> QED
    BY <2>2, <2>3
<1>3. START \in Events /\ RESTART \in Events /\ STOP \in Events /\ u \in Events
  BY EventTypes, Primitives
<1> DEFINE s == Parted(a, START, b, RESTART, d, z, pec_enabled, u, STOP)
<1>4. s = CallEvents(c, m)
  BY DEF CallEvents, Parted
<1> HIDE DEF d, a, b, z, u
<1>5. HasParts(Events, s, Ahead(a, b), a, START, b, RESTART, d, Behind(z, pec_enabled), z,
               pec_enabled, u, STOP)
  <2>1. d \in Seq(Events)
    BY <1>2
  <2> QED
    BY <1>1, <1>3, <2>1, Pieces
<1>6. Ahead(a, b) = Leads(c) /\ Behind(z, pec_enabled) = Tails(c)
  BY DEF Leads, Tails, a, b, z
<1> HIDE DEF s
<1>7. HasParts(Events, s, Leads(c), a, START, b, RESTART, d, Tails(c), z, pec_enabled, u, STOP)
  BY <1>5, <1>6
<1>8. Len(s) = Leads(c) + c.len + Tails(c) /\ s \in Seq(Events)
  BY <1>2, <1>7 DEF HasParts
<1>9. \A k \in 1..c.len : s[Leads(c) + k] = Sent(c.data[k], TRUE)
  BY <1>2, <1>7 DEF HasParts
<1> QED
  BY <1>4, <1>7, <1>8, <1>9 DEF a, b, z, u, HasParts

LEMMA EventSizes ==
  ASSUME pec_enabled \in BOOLEAN, NEW c \in Calls, c.fn = "write"
  PROVE  /\ Leads(c) \in 0..2 /\ Tails(c) \in 0..2
         /\ Leads(c) > 0 <=> c.start \/ c.restart
         /\ Leads(c) = 2 <=> c.start /\ c.restart
         /\ Tails(c) > 0 <=> c.stop
         /\ Tails(c) = 2 <=> c.stop /\ pec_enabled
<1>1. c.start \in BOOLEAN /\ c.restart \in BOOLEAN /\ c.stop \in BOOLEAN
  BY CallTypes
<1> QED
  BY <1>1 DEF Leads, Tails, Ahead, Behind, Bit

\* START and restart come first, STOP last.
LEMMA EventPlaces ==
  ASSUME pec_enabled \in BOOLEAN, NEW c \in Calls, c.fn = "write", NEW m,
         ~(c.start /\ c.restart)
  PROVE  LET s == CallEvents(c, m)
         IN  /\ s \in Seq(Events) /\ Len(s) \in Nat /\ Len(s) > 0
             /\ s[Len(s)] = STOP <=> c.stop
             /\ \A i \in 1..Len(s) : /\ s[i] = STOP => i = Len(s)
                                     /\ s[i] = START => i = 1 /\ c.start
                                     /\ s[i] = RESTART => i = 1 /\ c.restart
<1> DEFINE s == CallEvents(c, m)
           l == Leads(c)
           t == Tails(c)
           n == c.len
<1>1. /\ s \in Seq(Events) /\ Len(s) = l + n + t
      /\ c.start => s[1] = START
      /\ c.restart => s[l] = RESTART
      /\ \A k \in 1..n : s[l + k] = Sent(c.data[k], TRUE)
      /\ c.stop => s[Len(s)] = STOP
      /\ c.stop /\ pec_enabled => s[Len(s) - 1] = Sent(PecOut, TRUE)
  BY EventParts
<1>2. /\ l \in 0..2 /\ t \in 0..2 /\ n \in Nat \ {0}
      /\ l > 0 <=> c.start \/ c.restart
      /\ l < 2
      /\ t > 0 <=> c.stop
      /\ t = 2 <=> c.stop /\ pec_enabled
  BY EventSizes, CallTypes
<1> HIDE DEF s, l, t, n
<1>3. ASSUME NEW i \in 1..Len(s)
      PROVE  /\ s[i] = STOP => i = Len(s) /\ c.stop
             /\ s[i] = START => i = 1 /\ c.start
             /\ s[i] = RESTART => i = 1 /\ c.restart
  <2>1. CASE i <= l
    <3>1. i = 1 /\ i = l
      BY <1>2, <2>1
    <3>2. (c.start /\ s[i] = START) \/ (c.restart /\ s[i] = RESTART)
      BY <1>1, <1>2, <3>1
    <3> QED
      BY <3>1, <3>2, EventKinds
  <2>2. CASE i > l /\ i <= l + n
    <3>1. i - l \in 1..n /\ i = l + (i - l)
      BY <1>1, <1>2, <2>2
    <3>2. s[i] = Sent(c.data[i - l], TRUE)
      BY <1>1, <3>1
    <3>3. s[i].ev = "out"
      BY <3>2, EventKinds
    <3> QED
      BY <3>3, EventKinds
  <2>3. CASE i > l + n
    <3>1. t > 0 /\ (i = Len(s) \/ (i = Len(s) - 1 /\ t = 2))
      BY <1>1, <1>2, <2>3
    <3>2. c.stop /\ ((i = Len(s) /\ s[i] = STOP) \/ s[i] = Sent(PecOut, TRUE))
      BY <1>1, <1>2, <3>1
    <3> QED
      BY <3>2, EventKinds
  <2> QED
    BY <1>2, <2>1, <2>2, <2>3
<1>4. Len(s) \in Nat /\ Len(s) > 0
  BY <1>1, <1>2
<1> QED
  BY <1>1, <1>3, <1>4 DEF s

LEMMA ReadEvents ==
  ASSUME NEW c \in Calls, c.fn = "read", c.lastRead, NEW m \in Nat
  PROVE  LET s == CallEvents(c, m)
         IN  /\ s \in Seq(Events) /\ Len(s) = m + 1 /\ s[m + 1] = STOP
             /\ \A i \in 1..m : s[i] = Read(Dev(i), i # m)
<1> DEFINE d == [i \in 1..m |-> Read(Dev(i), i # m)]
           e == <<STOP>>
<1>1. CallEvents(c, m) = d \o e
  BY DEF CallEvents, OnlyIf
<1>2. d \in Seq(Events) /\ Len(d) = m /\ \A i \in 1..m : d[i] = Read(Dev(i), i # m)
  <2>1. ASSUME NEW i \in 1..m PROVE Read(Dev(i), i # m) \in Events
    <3>1. Dev(i) \in WireBytes /\ (i # m) \in BOOLEAN
      BY Primitives
    <3> QED
      BY <3>1, EventTypes
  <2> QED
    BY <2>1
<1>3. e \in Seq(Events) /\ Len(e) > 0 /\ Len(e) < 2 /\ Len(e) \in Nat /\ e[1] = STOP
  BY EventTypes
<1> HIDE DEF d, e
<1>4. /\ d \o e \in Seq(Events) /\ Len(d \o e) = Len(d) + Len(e)
      /\ \A j \in 1..Len(d) : (d \o e)[j] = d[j]
      /\ \A j \in 1..Len(e) : (d \o e)[Len(d) + j] = e[j]
  BY <1>2, <1>3, Concatenated
<1>5. (d \o e)[m + 1] = STOP
  <2>1. 1 \in 1..Len(e)
    BY <1>3
  <2> QED
    BY <1>2, <1>3, <1>4, <2>1
<1>6. Len(d \o e) = m + 1
  BY <1>2, <1>3, <1>4
<1> QED
  BY <1>1, <1>2, <1>4, <1>5, <1>6

\* The calls that are over, where the wire shows the end of the k-th, and the events
\* of the one under way.
Before == Len(done) - Len(script)
EndOf(ends, k) == IF k = 0 THEN 0 ELSE ends[k]
Ev == CallEvents(Call, ReadLen(done) + Pecs)

\* What a primitive shows when all is well.
EventOf(a) ==
  CASE a.op = "start"   -> START
    [] a.op = "restart" -> RESTART
    [] a.op = "stop"    -> STOP
    [] OTHER            -> Sent(a.b, TRUE)

\* Since the calls before, the wire shows the first events of this one.
Shown(from) ==
  /\ from \in 0..Len(wire)
  /\ \A i \in 1..(Len(wire) - from) : wire[from + i] = Ev[i]

\* Those of the transfers before, and in the handler what it has not still to show.
WritesOn(from) ==
  /\ wire # << >> => ~lastrd
  /\ pc = "ready" => Len(wire) - from = IF off = 0 THEN 0 ELSE Leads(Call) + off
  /\ pc = "waits" =>
       /\ Len(wire) - from + Len(todo) =
            IF Final THEN Len(Ev) ELSE Leads(Call) + off + Size
       /\ \A i \in 1..Len(todo) : EventOf(todo[i]) = Ev[Len(wire) - from + i]

\* The bytes a call reads, the PEC included, and those that i2c_bytein has returned: the
\* device is one byte ahead, and LASTRD set when it is the last.
Total  == Call.len + Pecs
Called == off + IF pc = "waits" THEN ReadSize - Len(todo) ELSE 0

Nth(k) == Get(k = 1, k = 1 /\ Total = 1, k = Total - 1, k = Total)

ReadsOn(from) ==
  /\ \E x \in Nat : off = x * Chunk
  /\ Called = 0 => clocked = 0 /\ ~lastrd
  /\ 0 < Called /\ Called < Total =>
       /\ clocked = Called + 1 /\ i2dat = Dev(Called + 1)
       /\ lastrd <=> Called = Total - 1
  /\ Len(wire) - from = IF Called = Total THEN Total + 1 ELSE clocked
  /\ pc = "waits" => \A i \in 1..Len(todo) : todo[i] = Nth(Called + i)
  /\ \A i \in 1..Len(Got) : Got[i] = Dev(i)

Going(from) ==
  /\ Shown(from)
  /\ Call.fn = "write" => WritesOn(from)
  /\ Call.fn = "read" => ReadsOn(from)

Owning == owned <=> wire # << >> /\ wire[Len(wire)] # STOP

Healthy ==
  ~faulty /\ LastAnnounced(done) /\ pc # "idle" =>
    /\ Owning
    /\ pc = "waits" => ~stall
    /\ \E ends \in [1..Before -> 0..Len(wire)] :
         Follow(wire, done, Before, ends) /\ Going(EndOf(ends, Before))

HInv == RInv /\ Healthy /\ HealthyIsTransaction

\* What has happened stays so as the wire goes on.
LEMMA FollowMore ==
  ASSUME NEW w \in Seq(Events), NEW x \in Seq(Events), Len(w) <= Len(x),
         \A i \in 1..Len(w) : x[i] = w[i],
         NEW t, NEW n \in Nat, NEW ends \in [1..n -> 0..Len(w)], Follow(w, t, n, ends)
  PROVE  Follow(x, t, n, ends) /\ ends \in [1..n -> 0..Len(x)]
<1>1. ASSUME NEW k, NEW s, Shows(w, k, s) PROVE Shows(x, k, s)
  <2>1. ASSUME NEW i \in DOMAIN s PROVE k + i \in DOMAIN x /\ x[k + i] = s[i]
    <3>1. k + i \in DOMAIN w /\ w[k + i] = s[i]
      BY <1>1, <2>1 DEF Shows
    <3>2. DOMAIN w = 1..Len(w) /\ DOMAIN x = 1..Len(x) /\ Len(w) \in Nat /\ Len(x) \in Nat
      OBVIOUS
    <3> QED
      BY <3>1, <3>2
  <2> QED
    BY <2>1 DEF Shows
<1>2. Follow(x, t, n, ends)
  BY <1>1 DEF Follow
<1>3. ends \in [1..n -> 0..Len(x)]
  <2>1. 0..Len(w) \subseteq 0..Len(x)
    OBVIOUS
  <2> QED
    BY <2>1
<1> QED
  BY <1>2, <1>3

\* The next call has happened too.
LEMMA FollowNext ==
  ASSUME NEW w \in Seq(Events), NEW t, NEW n \in Nat, NEW ends \in [1..n -> 0..Len(w)],
         Follow(w, t, n, ends), NEW s,
         s = CallEvents(t[n + 1], ReadLen(t) + Pecs),
         Len(w) = EndOf(ends, n) + Len(s), Shows(w, EndOf(ends, n), s)
  PROVE  \E e \in [1..(n + 1) -> 0..Len(w)] :
           Follow(w, t, n + 1, e) /\ EndOf(e, n + 1) = Len(w)
<1> DEFINE e == [k \in 1..(n + 1) |-> IF k = n + 1 THEN Len(w) ELSE ends[k]]
           m == ReadLen(t) + Pecs
<1>1. e \in [1..(n + 1) -> 0..Len(w)]
  BY Len(w) \in Nat
<1>2. EndOf(e, n + 1) = Len(w)
  BY DEF EndOf
<1>3. m = ReadLen(t) + IF pec_enabled THEN 1 ELSE 0
  BY DEF Pecs, Bit
<1> HIDE DEF m
<1>4. ASSUME NEW k \in 1..(n + 1)
      PROVE  LET from == IF k = 1 THEN 0 ELSE e[k - 1]
             IN  e[k] = from + Len(CallEvents(t[k], m)) /\ Shows(w, from, CallEvents(t[k], m))
  <2>1. CASE k = n + 1
    <3>1. (IF k = 1 THEN 0 ELSE e[k - 1]) = EndOf(ends, n)
      BY <2>1 DEF EndOf
    <3>2. e[k] = Len(w) /\ CallEvents(t[k], m) = s
      BY <2>1 DEF m
    <3> HIDE DEF e
    <3> QED
      BY <3>1, <3>2
  <2>2. CASE k # n + 1
    <3>1. k \in 1..n
      BY <2>2
    <3>2. (IF k = 1 THEN 0 ELSE e[k - 1]) = (IF k = 1 THEN 0 ELSE ends[k - 1]) /\ e[k] = ends[k]
      BY <3>1
    <3> HIDE DEF e
    <3>3. LET from == IF k = 1 THEN 0 ELSE ends[k - 1]
          IN  ends[k] = from + Len(CallEvents(t[k], m)) /\ Shows(w, from, CallEvents(t[k], m))
      BY <1>3, <3>1 DEF Follow
    <3> QED
      BY <3>2, <3>3
  <2> QED
    BY <2>1, <2>2
<1> HIDE DEF e
<1>5. Follow(w, t, n + 1, e)
  BY <1>3, <1>4 DEF Follow
<1> QED
  BY <1>1, <1>2, <1>5

\* The conventions of transactions that are put together well, for the call under way.
LEMMA CallKeeps ==
  ASSUME OneTransaction, ReadsLast, Types, Place, pc # "idle"
  PROVE  /\ Before \in Nat /\ Before < Len(done) /\ Call = done[Before + 1]
         /\ Call.fn = "write" => /\ Call.start => Before = 0
                                 /\ Call.restart => Before > 0
                                 /\ Call.stop => Len(script) < 2
         /\ Call.fn = "read" => Call.lastRead /\ Before > 0
         /\ Call.fn = "read" /\ LastAnnounced(done) /\ ~pec_enabled =>
              \A x \in Nat \ {0} : Call.len # x * Chunk + 1
<1>1. /\ done \in Seq(Calls) /\ Len(done) \in Nat /\ Len(script) \in Nat /\ Len(script) > 0
      /\ done \in Transactions /\ Len(script) <= Len(done)
      /\ Call = done[Len(done) - Len(script) + 1] /\ Call \in Calls
      /\ Call.fn = "read" => Len(script) < 2 /\ Len(done) > 1
  BY LastCall
<1> DEFINE k == Before + 1
<1>2. Before \in Nat /\ Before < Len(done) /\ Call = done[k] /\ k \in DOMAIN done
  BY <1>1 DEF Before
<1>3. /\ Call.fn = "write" => /\ Call.start => k = 1
                              /\ Call.restart => k > 1
                              /\ Call.stop => k = Len(done)
      /\ Call.fn = "read" => Call.lastRead
  <2> HIDE DEF k
  <2>1. Call.fn = "write" \/ Call.fn = "read"
    BY <1>1, CallTypes
  <2> QED
    BY <1>1, <1>2, <2>1 DEF OneTransaction
<1>4. ASSUME Call.fn = "read", LastAnnounced(done), ~pec_enabled, NEW x \in Nat \ {0}
      PROVE  Call.len # x * Chunk + 1
  <2>1. CASE x \in 1..Call.len
    BY <1>2, <1>4, <2>1 DEF LastAnnounced
  <2>2. CASE x > Call.len
    <3>1. Call.len \in Nat /\ Chunk \in Nat /\ Chunk > 1
      BY <1>1, CallTypes, TransactionsAssumption
    <3>2. x * Chunk >= x
      BY <3>1
    <3>3. x * Chunk \in Nat
      BY <3>1
    <3> QED
      BY <2>2, <3>1, <3>2, <3>3
  <2> QED
    BY <1>1, <1>4, <2>1, <2>2, CallTypes
<1> QED
  BY <1>1, <1>2, <1>3, <1>4 DEF Before

\* The events of the call under way.
LEMMA EvOfRead ==
  ASSUME OneTransaction, ReadsLast, Types, Place, pc # "idle", Call.fn = "read"
  PROVE  /\ Total \in Nat \ {0} /\ Total = Call.len + Pecs /\ Pecs \in 0..1
         /\ Call.len \in Nat \ {0} /\ ReadLen(done) = Call.len
         /\ Ev \in Seq(Events) /\ Len(Ev) = Total + 1 /\ Ev[Total + 1] = STOP
         /\ \A i \in 1..Total : Ev[i] = Read(Dev(i), i # Total)
<1>1. /\ done \in Transactions /\ Call = done[Len(done)] /\ Call \in Calls
  BY LastCall
<1>2. ReadLen(done) = Call.len /\ Call.len \in Nat \ {0}
  BY <1>1, ReadLenIs, CallTypes
<1>3. Pecs \in 0..1
  BY DEF Pecs, Bit
<1>4. Total \in Nat \ {0} /\ Ev = CallEvents(Call, Total)
  BY <1>2, <1>3 DEF Total, Ev
<1>5. Call.lastRead
  BY CallKeeps
<1> DEFINE t == Total
<1> HIDE DEF t
<1>6. t \in Nat /\ Ev = CallEvents(Call, t) /\ t = Total
  BY <1>4 DEF t
<1>7. /\ Ev \in Seq(Events) /\ Len(Ev) = t + 1 /\ Ev[t + 1] = STOP
      /\ \A i \in 1..t : Ev[i] = Read(Dev(i), i # t)
  BY <1>1, <1>5, <1>6, ReadEvents
<1> QED
  BY <1>2, <1>3, <1>4, <1>6, <1>7 DEF Total

LEMMA EvOfWrite ==
  ASSUME OneTransaction, ReadsLast, Types, Place, pc # "idle", Call.fn = "write"
  PROVE  /\ Ev \in Seq(Events) /\ Len(Ev) = Leads(Call) + Call.len + Tails(Call)
         /\ Len(Ev) \in Nat /\ Len(Ev) > 0
         /\ Call.start => Ev[1] = START /\ Before = 0
         /\ Call.restart => Ev[Leads(Call)] = RESTART /\ Before > 0
         /\ Call.stop => Ev[Len(Ev)] = STOP
         /\ Call.stop /\ pec_enabled => Ev[Len(Ev) - 1] = Sent(PecOut, TRUE)
         /\ \A k \in 1..Call.len : Ev[Leads(Call) + k] = Sent(Call.data[k], TRUE)
         /\ \A i \in 1..Len(Ev) : /\ Ev[i] = STOP => i = Len(Ev)
                                  /\ Ev[i] = START => i = 1 /\ Call.start
                                  /\ Ev[i] = RESTART => i = 1 /\ Call.restart
         /\ Leads(Call) \in 0..1 /\ Tails(Call) \in 0..2
         /\ Call.len \in Nat \ {0}
<1>1. Call \in Calls /\ pec_enabled \in BOOLEAN
  BY Transfer DEF Types
<1>2. /\ Call.start => Before = 0
      /\ Call.restart => Before > 0
  BY CallKeeps
<1>3. /\ Leads(Call) \in 0..2 /\ Tails(Call) \in 0..2
      /\ Leads(Call) = 2 <=> Call.start /\ Call.restart
  BY <1>1, EventSizes
<1>4. Leads(Call) \in 0..1 /\ ~(Call.start /\ Call.restart)
  BY <1>2, <1>3
<1>5. Call.len \in Nat \ {0}
  BY <1>1, CallTypes
<1> DEFINE m == ReadLen(done) + Pecs
<1> HIDE DEF m
<1>6. Ev = CallEvents(Call, m)
  BY DEF Ev, m
<1>7. /\ Ev \in Seq(Events) /\ Len(Ev) = Leads(Call) + Call.len + Tails(Call)
      /\ Call.start => Ev[1] = START
      /\ Call.restart => Ev[Leads(Call)] = RESTART
      /\ \A k \in 1..Call.len : Ev[Leads(Call) + k] = Sent(Call.data[k], TRUE)
      /\ Call.stop => Ev[Len(Ev)] = STOP
      /\ Call.stop /\ pec_enabled => Ev[Len(Ev) - 1] = Sent(PecOut, TRUE)
  BY <1>1, <1>6, EventParts
<1>8. /\ Len(Ev) \in Nat /\ Len(Ev) > 0
      /\ \A i \in 1..Len(Ev) : /\ Ev[i] = STOP => i = Len(Ev)
                               /\ Ev[i] = START => i = 1 /\ Call.start
                               /\ Ev[i] = RESTART => i = 1 /\ Call.restart
  BY <1>1, <1>4, <1>6, EventPlaces
<1> QED
  BY <1>2, <1>3, <1>4, <1>5, <1>7, <1>8

LEMMA OpKinds ==
  /\ EventOf(Start) = START /\ EventOf(Restart) = RESTART /\ EventOf(Stop) = STOP
  /\ \A b : EventOf(Put(b)) = Sent(b, TRUE)
  /\ EventOf(PutPec) = Sent(PecOut, TRUE)
<1>1. \A b : Put(b).op = "out" /\ Put(b).b = b
  BY DEF Put
<1> QED
  BY <1>1, Primitives DEF EventOf

LEMMA HealthyBegin ==
  ASSUME ReadsLast, Types', Begin
  PROVE  Healthy'
<1>1. /\ pc' = "ready" /\ off' = 0 /\ wire' = << >> /\ script' = done' /\ done' \in Transactions
      /\ faulty' = owned /\ owned' = owned
  BY DEF Begin
<1>2. done' \in Seq(Calls) /\ done' # << >> /\ Head(done') = done'[1] /\ 1 \in DOMAIN done'
  BY <1>1, TransactionsAssumption
<1>3. Call'.fn # "read"
  BY <1>1, <1>2 DEF ReadsLast, Call
<1>4. ASSUME ~faulty' PROVE Owning'
  BY <1>1, <1>4 DEF Owning, Types
<1>5. 0 = Len(wire') /\ Before' = 0
  BY <1>1, <1>2 DEF Before
<1>6. Shown(0)' /\ WritesOn(0)'
  BY <1>1, <1>5 DEF Shown, WritesOn
<1> DEFINE e == [k \in 1..0 |-> 0]
<1>7. e \in [1..0 -> 0..0]
  OBVIOUS
<1>8. Going(0)'
  BY <1>3, <1>6 DEF Going
<1>9. EndOf(e, 0) = 0
  BY DEF EndOf
<1> HIDE DEF e
<1>10. (\E ends \in [1..Before -> 0..Len(wire)] :
          Follow(wire, done, Before, ends) /\ Going(EndOf(ends, Before)))'
  <2>1. 1..Before' = 1..0 /\ 0..Len(wire') = 0..0 /\ Before' = 0
    BY <1>5
  <2>2. e \in [1..Before' -> 0..Len(wire')]
    BY <1>7, <2>1
  <2>3. EndOf(e, Before') = 0
    BY <1>9, <2>1
  <2>4. Follow(wire, done, Before, e)'
    BY <2>1 DEF Follow
  <2>5. Going(EndOf(e, Before))'
    BY <1>8, <2>3
  <2> QED
    BY <2>2, <2>4, <2>5
<1> QED
  BY <1>1, <1>4, <1>10 DEF Healthy

\* Where the bus goes on in the transfer after another one.
LEMMA WritesAsked ==
  ASSUME OneTransaction, ReadsLast, Types, Place, Request, Call.fn = "write",
         NEW from \in Nat, from <= Len(wire), Len(wire) \in Nat, WritesOn(from)
  PROVE  WritesOn(from)'
<1>1. /\ pc = "ready" /\ pc' = "waits" /\ script # << >> /\ todo' = WriteCommand
      /\ UNCHANGED <<wire, lastrd, script, off, done, pec_enabled>>
  BY DEF Request, busVars, Types
<1>2. /\ Call' = Call /\ Size' = Size /\ (Final' <=> Final) /\ Ev' = Ev
      /\ Leads(Call)' = Leads(Call)
  BY <1>1 DEF Call, Size, Final, Ev, Leads, Pecs, CallEvents
<1> DEFINE c == WriteCommand
           j == Len(wire) - from
           l == Leads(Call)
           n == Call.len
           q == Tails(Call)
<1>3. j = IF off = 0 THEN 0 ELSE l + off
  BY <1>1 DEF WritesOn
<1>4. /\ c \in Seq(Ops) /\ Len(c) = Lead + Size + Trail
      /\ off = 0 /\ Call.start => c[1] = Start
      /\ off = 0 /\ Call.restart => c[Lead] = Restart
      /\ \A k \in 1..Size : c[Lead + k] = Put(Call.data[off + k])
      /\ Final /\ Call.stop => c[Len(c)] = Stop
      /\ Final /\ Call.stop /\ pec_enabled => c[Len(c) - 1] = PutPec
  BY <1>1, WriteParts
<1>5. /\ Lead = IF off = 0 THEN l ELSE 0
      /\ Trail = IF Final THEN q ELSE 0
  BY DEF Lead, Trail
<1>6. /\ Size \in Nat \ {0} /\ off \in Nat /\ off + Size <= n /\ n \in Nat
      /\ Final <=> off + Size = n
  BY <1>1, Transfer DEF Types
<1>7. /\ Len(Ev) = l + n + q
      /\ Call.start => Ev[1] = START
      /\ Call.restart => Ev[l] = RESTART
      /\ Call.stop => Ev[Len(Ev)] = STOP
      /\ Call.stop /\ pec_enabled => Ev[Len(Ev) - 1] = Sent(PecOut, TRUE)
      /\ \A k \in 1..n : Ev[l + k] = Sent(Call.data[k], TRUE)
      /\ l \in 0..1 /\ q \in 0..2
  BY <1>1, EvOfWrite
<1>8. /\ l > 0 <=> Call.start \/ Call.restart
      /\ q > 0 <=> Call.stop
      /\ q = 2 <=> Call.stop /\ pec_enabled
  <2>1. Call \in Calls /\ pec_enabled \in BOOLEAN
    BY <1>1, Transfer DEF Types
  <2> QED
    BY <2>1, EventSizes
<1> HIDE DEF c, j, l, n, q
<1>9. j + Lead = l + off
  BY <1>3, <1>5, <1>6, <1>7
<1>10. j + Len(c) = IF Final THEN Len(Ev) ELSE l + off + Size
  <2>1. CASE Final
    BY <1>3, <1>4, <1>5, <1>6, <1>7, <1>9, <2>1
  <2>2. CASE ~Final
    BY <1>3, <1>4, <1>5, <1>6, <1>7, <1>9, <2>2
  <2> QED
    BY <2>1, <2>2
<1>11. ASSUME NEW i \in 1..Len(c) PROVE EventOf(c[i]) = Ev[j + i]
  <2>0. j \in Nat /\ Lead \in 0..1 /\ Trail \in 0..2 /\ i \in Nat
    BY <1>3, <1>4, <1>5, <1>6, <1>7
  <2>1. CASE i <= Lead
    <3>1. off = 0 /\ i = 1 /\ l = 1 /\ Lead = 1 /\ j = 0
      BY <1>3, <1>5, <1>6, <1>7, <2>0, <2>1
    <3>2. j + i = 1
      BY <3>1
    <3>3. CASE Call.start
      BY <1>4, <1>7, <3>1, <3>2, <3>3, OpKinds
    <3>4. CASE Call.restart
      BY <1>4, <1>7, <3>1, <3>2, <3>4, OpKinds
    <3> QED
      BY <1>8, <3>1, <3>3, <3>4
  <2>2. CASE i > Lead /\ i <= Lead + Size
    <3>1. /\ i - Lead \in 1..Size /\ i = Lead + (i - Lead) /\ off + (i - Lead) \in 1..n
          /\ j + i = l + (off + (i - Lead))
      BY <1>6, <1>7, <1>9, <2>0, <2>2
    <3>2. c[i] = Put(Call.data[off + (i - Lead)])
      BY <1>4, <3>1
    <3>3. Ev[j + i] = Sent(Call.data[off + (i - Lead)], TRUE)
      BY <1>7, <3>1
    <3> QED
      BY <3>2, <3>3, OpKinds
  <2>3. CASE i > Lead + Size
    <3>1. Final /\ Trail = q /\ q > 0 /\ Call.stop
      BY <1>4, <1>5, <1>6, <1>8, <2>0, <2>3
    <3>2. j + Len(c) = Len(Ev)
      BY <1>10, <3>1
    <3>3. CASE i = Len(c)
      <4>1. j + i = Len(Ev)
        BY <3>2, <3>3
      <4> QED
        BY <1>4, <1>7, <3>1, <3>3, <4>1, OpKinds
    <3>4. CASE i # Len(c)
      <4>1. q = 2 /\ i = Len(c) - 1
        BY <1>4, <1>6, <1>7, <2>0, <2>3, <3>1, <3>4
      <4>2. j + i = Len(Ev) - 1
        BY <1>4, <1>6, <2>0, <3>2, <4>1
      <4> QED
        BY <1>4, <1>7, <1>8, <3>1, <4>1, <4>2, OpKinds
    <3> QED
      BY <3>3, <3>4
  <2> QED
    BY <1>6, <2>0, <2>1, <2>2, <2>3
<1>12. wire' # << >> => ~lastrd'
  BY <1>1 DEF WritesOn
<1> QED
  BY <1>1, <1>2, <1>10, <1>11, <1>12 DEF WritesOn, c, j, l

\* A transfer that is not the final one is full.
LEMMA FullTransfer ==
  ASSUME Types, script # << >>
  PROVE  /\ ~Final => Size = Chunk /\ off + Size < Call.len
         /\ Size <= Chunk
         /\ Chunk \in Nat /\ Chunk > 1
<1>1. /\ Size \in Nat \ {0} /\ off \in Nat /\ off + Size <= Call.len /\ Call.len \in Nat
      /\ Final <=> off + Size = Call.len
  BY Transfer DEF Types
<1>2. Chunk \in Nat /\ Chunk > 1
  BY TransactionsAssumption
<1>3. Size = IF off + Chunk <= Call.len THEN Chunk ELSE Call.len - off
  BY DEF Size
<1> QED
  BY <1>1, <1>2, <1>3

LEMMA ReadsAsked ==
  ASSUME OneTransaction, ReadsLast, Types, Place, Request, Call.fn = "read",
         LastAnnounced(done), NEW from, ReadsOn(from)
  PROVE  ReadsOn(from)'
<1>1. /\ pc = "ready" /\ pc' = "waits" /\ script # << >> /\ todo' = ReadCommand
      /\ ep0buf' = << >>
      /\ UNCHANGED <<wire, lastrd, clocked, i2dat, script, off, data, done, pec_enabled>>
  BY DEF Request, busVars, Types
<1>2. /\ Call' = Call /\ Size' = Size /\ (Final' <=> Final) /\ (AtEnd' <=> AtEnd)
      /\ Total' = Total /\ ReadSize' = ReadSize /\ Pecs' = Pecs
  <2>1. /\ Call' = Call /\ Size' = Size /\ (Final' <=> Final) /\ (AtEnd' <=> AtEnd)
        /\ Total' = Total /\ Pecs' = Pecs
    BY <1>1 DEF Call, Size, Final, AtEnd, Total, Pecs
  <2>2. ReadSize' = ReadSize
    BY <1>1, <2>1 DEF ReadSize, Bit
  <2> QED
    BY <2>1, <2>2
<1> DEFINE j == ReadSize
           t == Total
           n == Call.len
           z == Size
<1>3. /\ Len(todo') = j /\ j \in Nat \ {0}
      /\ \A i \in 1..j : todo'[i] = Get(FirstRead(i), FirstRead(i) /\ j = 1,
                                        AtEnd /\ i = j - 1, AtEnd /\ i = j)
  BY <1>1, ReadParts
<1>4. t = n + Pecs /\ Pecs \in 0..1 /\ n \in Nat \ {0} /\ t \in Nat \ {0}
  BY <1>1, EvOfRead
<1>5. /\ z \in Nat \ {0} /\ off \in Nat /\ off + z <= n /\ (Final <=> off + z = n)
      /\ ~Final => z = Chunk /\ off + z < n
      /\ z <= Chunk /\ Chunk \in Nat /\ Chunk > 1
  BY <1>1, Transfer, FullTransfer DEF Types
<1>6. /\ AtEnd <=> Final
      /\ Pecs = 0 => \A x \in Nat \ {0} : n # x * Chunk + 1
  BY <1>1, CallKeeps, Transfer DEF AtEnd, Pecs, Bit
<1>7. j = z + IF AtEnd THEN Pecs ELSE 0
  BY DEF ReadSize, Bit, Pecs
<1>8. PICK x \in Nat : off = x * Chunk
  BY DEF ReadsOn
<1>9. ~Final /\ Pecs = 0 => off + z # n - 1
  <2>1. ASSUME ~Final, Pecs = 0, off + z = n - 1 PROVE FALSE
    <3>1. n = (x * Chunk + Chunk) + 1
      BY <1>4, <1>5, <1>8, <2>1
    <3>2. (x + 1) * Chunk = x * Chunk + Chunk
      BY <1>5, <1>8
    <3>3. n = (x + 1) * Chunk + 1 /\ x + 1 \in Nat \ {0}
      BY <3>1, <3>2
    <3> QED
      BY <1>6, <2>1, <3>3
  <2> QED
    BY <2>1
<1> HIDE DEF j, t, n, z
<1>10. Called' = off
  <2>1. Called' = off + (j - Len(todo'))
    BY <1>1, <1>2 DEF Called, j
  <2> QED
    BY <1>3, <1>5, <2>1
<1>11. Called = off
  BY <1>1, <1>5 DEF Called
<1>12. ASSUME NEW i \in 1..j PROVE todo'[i] = Nth(off + i)
  <2>1. FirstRead(i) <=> off + i = 1
    BY <1>3, <1>5 DEF FirstRead
  <2>2. FirstRead(i) /\ j = 1 <=> off + i = 1 /\ t = 1
    <3>1. CASE Final
      BY <1>3, <1>4, <1>5, <1>6, <1>7, <2>1, <3>1
    <3>2. CASE ~Final
      BY <1>3, <1>4, <1>5, <1>6, <1>7, <2>1, <3>2
    <3> QED
      BY <3>1, <3>2
  <2>3. AtEnd /\ i = j - 1 <=> off + i = t - 1
    <3>1. CASE Final
      BY <1>3, <1>4, <1>5, <1>6, <1>7, <3>1
    <3>2. CASE ~Final
      <4>1. i <= z /\ ~AtEnd /\ i \in Nat
        BY <1>3, <1>5, <1>6, <1>7, <3>2
      <4>2. CASE Pecs = 0
        <5>1. off + i # n - 1
          BY <1>4, <1>5, <1>9, <3>2, <4>1, <4>2
        <5> QED
          BY <1>4, <4>1, <4>2, <5>1
      <4>3. CASE Pecs = 1
        <5>1. off + i < n
          BY <1>4, <1>5, <3>2, <4>1
        <5> QED
          BY <1>4, <4>1, <4>3, <5>1
      <4> QED
        BY <1>4, <4>2, <4>3
    <3> QED
      BY <3>1, <3>2
  <2>4. AtEnd /\ i = j <=> off + i = t
    <3>1. CASE Final
      BY <1>3, <1>4, <1>5, <1>6, <1>7, <3>1
    <3>2. CASE ~Final
      BY <1>3, <1>4, <1>5, <1>6, <1>7, <3>2
    <3> QED
      BY <3>1, <3>2
  <2>5. todo'[i] = Get(FirstRead(i), FirstRead(i) /\ j = 1, AtEnd /\ i = j - 1, AtEnd /\ i = j)
    BY <1>3
  <2>6. /\ FirstRead(i) = (off + i = 1)
        /\ (FirstRead(i) /\ j = 1) = (off + i = 1 /\ t = 1)
        /\ (AtEnd /\ i = j - 1) = (off + i = t - 1)
        /\ (AtEnd /\ i = j) = (off + i = t)
    BY <2>1, <2>2, <2>3, <2>4 DEF FirstRead, AtEnd, Final
  <2> QED
    BY <2>5, <2>6 DEF Nth, t
<1>13. Got' = Got
  BY <1>1 DEF Got
<1>14. \A i \in 1..Len(todo') : todo'[i] = Nth(Called + i)'
  BY <1>2, <1>3, <1>10, <1>12 DEF Nth
<1> QED
  BY <1>1, <1>2, <1>10, <1>11, <1>13, <1>14 DEF ReadsOn

\* The calls that are over stay so.
LEMMA FollowOn ==
  ASSUME wire \in Seq(Events), wire' \in Seq(Events), Len(wire) <= Len(wire'),
         \A i \in 1..Len(wire) : wire'[i] = wire[i],
         UNCHANGED <<done, pec_enabled, Before>>, Before \in Nat,
         NEW ends \in [1..Before -> 0..Len(wire)], Follow(wire, done, Before, ends)
  PROVE  /\ Follow(wire, done, Before, ends)'
         /\ ends \in [1..Before' -> 0..Len(wire')]
<1>1. Follow(wire', done, Before, ends) /\ ends \in [1..Before -> 0..Len(wire')]
  BY FollowMore
<1>2. \A c, m : CallEvents(c, m)' = CallEvents(c, m)
  BY DEF CallEvents
<1>3. Follow(wire, done, Before, ends)'
  BY <1>1, <1>2 DEF Follow
<1> QED
  BY <1>1, <1>3

LEMMA HealthyRequest ==
  ASSUME OneTransaction, ReadsLast, HInv, Request
  PROVE  Healthy'
<1>1. /\ RInv /\ Types /\ Place /\ RTypes /\ WireTypes /\ Healthy
      /\ pc = "ready" /\ pc' = "waits" /\ ~stall' /\ script # << >>
      /\ UNCHANGED <<wire, owned, script, off, done, pec_enabled, faulty>>
  BY DEF HInv, RInv, AInv, RTypes, Request, busVars, Types
<1>2. Call' = Call /\ Before' = Before /\ Ev' = Ev
  BY <1>1 DEF Call, Before, Ev, Pecs, CallEvents
<1> SUFFICES ASSUME ~faulty, LastAnnounced(done)
             PROVE  /\ Owning'
                    /\ (\E ends \in [1..Before -> 0..Len(wire)] :
                          Follow(wire, done, Before, ends) /\ Going(EndOf(ends, Before)))'
  BY <1>1 DEF Healthy, LastAnnounced
<1>3. PICK ends \in [1..Before -> 0..Len(wire)] :
        Follow(wire, done, Before, ends) /\ Going(EndOf(ends, Before))
  BY <1>1 DEF Healthy
<1>4. PICK from : from = EndOf(ends, Before)
  OBVIOUS
<1>5. Going(from)
  BY <1>3, <1>4
<1>6. wire \in Seq(Events) /\ Len(wire) \in Nat
  BY <1>1 DEF WireTypes
<1>7. from \in Nat /\ from <= Len(wire) /\ Shown(from)
  BY <1>5, <1>6 DEF Shown, Going
<1>8. Shown(from)'
  BY <1>1, <1>2, <1>7 DEF Shown
<1>9. Call.fn = "write" => WritesOn(from)'
  BY <1>1, <1>5, <1>6, <1>7, WritesAsked DEF Going
<1>10. Call.fn = "read" => ReadsOn(from)'
  BY <1>1, <1>5, ReadsAsked DEF Going
<1>11. Going(from)'
  BY <1>2, <1>8, <1>9, <1>10 DEF Going
<1>12. Follow(wire, done, Before, ends)'
  <2>1. Before \in Nat
    BY <1>1, CallKeeps
  <2> QED
    BY <1>1, <1>2, <1>3, <1>6, <2>1, FollowOn
<1>13. Going(EndOf(ends, Before))'
  <2>1. EndOf(ends, Before') = from
    BY <1>2, <1>4
  <2> QED
    BY <1>11, <2>1
<1>14. ends \in [1..Before' -> 0..Len(wire')]
  BY <1>1, <1>2
<1>15. Owning'
  BY <1>1 DEF Healthy, Owning
<1> QED
  BY <1>12, <1>13, <1>14, <1>15

\* The wire shows the whole of a call that is over.
LEMMA CallOver ==
  ASSUME OneTransaction, ReadsLast, HInv, ~faulty, LastAnnounced(done), pc = "waits",
         todo = << >>, Final
  PROVE  /\ \E e \in [1..(Before + 1) -> 0..Len(wire)] :
              Follow(wire, done, Before + 1, e) /\ EndOf(e, Before + 1) = Len(wire)
         /\ Len(wire) > 0
         /\ Call.fn = "write" => ~lastrd
         /\ Call.fn = "read" => \A i \in 1..Len(Got) : Got[i] = Dev(i)
<1>1. /\ RInv /\ Types /\ Place /\ RTypes /\ script # << >> /\ pc # "idle"
      /\ wire \in Seq(Events) /\ Len(wire) \in Nat
  BY DEF HInv, RInv, AInv, RTypes, WireTypes, Types
<1>2. PICK ends \in [1..Before -> 0..Len(wire)] :
        Follow(wire, done, Before, ends) /\ Going(EndOf(ends, Before))
  BY <1>1 DEF HInv, Healthy
<1>3. PICK from : from = EndOf(ends, Before)
  OBVIOUS
<1>4. from \in Nat /\ from <= Len(wire) /\ \A i \in 1..(Len(wire) - from) : wire[from + i] = Ev[i]
  BY <1>1, <1>2, <1>3 DEF Going, Shown
<1>5. 0 = Len(todo)
  OBVIOUS
<1>6. /\ Len(wire) - from = Len(Ev) /\ Len(Ev) \in Nat /\ Len(Ev) > 0 /\ Ev \in Seq(Events)
      /\ Call.fn = "write" => (wire # << >> => ~lastrd)
      /\ Call.fn = "read" => \A i \in 1..Len(Got) : Got[i] = Dev(i)
  <2>1. Call.fn \in {"write", "read"}
    BY <1>1, Transfer, CallTypes
  <2>2. CASE Call.fn = "write"
    <3>1. /\ Len(wire) - from + Len(todo) = Len(Ev)
          /\ wire # << >> => ~lastrd
      BY <1>2, <1>3, <2>2 DEF Going, WritesOn
    <3>2. Len(Ev) \in Nat /\ Len(Ev) > 0 /\ Ev \in Seq(Events)
      BY <1>1, <2>2, EvOfWrite
    <3> QED
      BY <1>1, <1>4, <1>5, <2>2, <3>1, <3>2
  <2>3. CASE Call.fn = "read"
    <3>1. /\ Len(wire) - from = IF Called = Total THEN Total + 1 ELSE clocked
          /\ \A i \in 1..Len(Got) : Got[i] = Dev(i)
      BY <1>2, <1>3, <2>3 DEF Going, ReadsOn
    <3>2. /\ Total \in Nat \ {0} /\ Total = Call.len + Pecs /\ Pecs \in 0..1
          /\ Len(Ev) = Total + 1 /\ Ev \in Seq(Events)
      BY <1>1, <2>3, EvOfRead
    <3>3. /\ Size \in Nat \ {0} /\ off \in Nat /\ off + Size = Call.len
      BY <1>1, Transfer DEF Types
    <3>4. ReadSize = Size + Pecs
      <4>1. AtEnd
        BY <1>1, <2>3, CallKeeps DEF AtEnd
      <4> QED
        BY <4>1 DEF ReadSize, Pecs, Bit
    <3>5. Called = Total
      <4>1. Called = off + (ReadSize - 0)
        BY <1>5 DEF Called
      <4> QED
        BY <3>2, <3>3, <3>4, <4>1
    <3> QED
      BY <2>3, <3>1, <3>2, <3>5
  <2> QED
    BY <2>1, <2>2, <2>3
<1>7. Len(wire) = from + Len(Ev) /\ Len(wire) > 0 /\ wire # << >>
  <2>1. Len(wire) = from + Len(Ev) /\ Len(wire) > 0
    BY <1>1, <1>4, <1>6
  <2> QED
    BY <2>1
<1>8. Shows(wire, from, Ev)
  <2>1. DOMAIN Ev = 1..Len(Ev) /\ DOMAIN wire = 1..Len(wire)
    BY <1>1, <1>6
  <2>2. ASSUME NEW i \in DOMAIN Ev PROVE from + i \in DOMAIN wire /\ wire[from + i] = Ev[i]
    BY <1>1, <1>4, <1>6, <1>7, <2>1
  <2> QED
    BY <2>2 DEF Shows
<1>9. Before \in Nat /\ Call = done[Before + 1]
  BY <1>1, CallKeeps
<1>10. Ev = CallEvents(done[Before + 1], ReadLen(done) + Pecs)
  BY <1>9 DEF Ev
<1>11. \E e \in [1..(Before + 1) -> 0..Len(wire)] :
         Follow(wire, done, Before + 1, e) /\ EndOf(e, Before + 1) = Len(wire)
  BY <1>1, <1>2, <1>3, <1>7, <1>8, <1>9, <1>10, FollowNext
<1> QED
  BY <1>6, <1>7, <1>11

LEMMA HealthyRequestDone ==
  ASSUME OneTransaction, ReadsLast, HInv, RInv', RequestDone
  PROVE  Healthy' /\ HealthyIsTransaction'
<1>1. /\ RInv /\ Types /\ Place /\ RTypes /\ Healthy /\ script # << >> /\ pc = "waits"
      /\ wire \in Seq(Events) /\ Len(wire) \in Nat /\ todo = << >> /\ off \in Nat
      /\ UNCHANGED <<wire, owned, lastrd, clocked, i2dat, todo, stall, pec_enabled, ep0buf, done,
                     faulty>>
  BY DEF HInv, RInv, AInv, RTypes, WireTypes, Types, RequestDone, busVars, ghosts
<1>2. CASE faulty \/ ~LastAnnounced(done)
  BY <1>1, <1>2 DEF Healthy, HealthyIsTransaction, LastAnnounced
<1>3. CASE ~faulty /\ LastAnnounced(done)
  <2>1. ~stall /\ StatusOK /\ Owning
    BY <1>1, <1>3 DEF Healthy, StatusOK
  <2>2. Before \in Nat /\ Before < Len(done) /\ Len(done) \in Nat
    BY <1>1, CallKeeps, LastCall
  <2>3. data' = IF Call.fn = "read" THEN data \o ep0buf ELSE data
    BY <2>1 DEF RequestDone
  <2>4. \A c, m : CallEvents(c, m)' = CallEvents(c, m)
    BY <1>1 DEF CallEvents
  <2>5. CASE Final /\ Len(script) = 1
    <3>1. pc' = "idle"
      BY <2>1, <2>5 DEF RequestDone, CallReturns
    <3>2. PICK e \in [1..(Before + 1) -> 0..Len(wire)] :
            Follow(wire, done, Before + 1, e) /\ EndOf(e, Before + 1) = Len(wire)
      BY <1>1, <1>3, <2>5, CallOver
    <3>3. Before + 1 = Len(done)
      BY <2>2, <2>5 DEF Before
    <3>4. Len(done) # 0 /\ DOMAIN done = 1..Len(done)
      BY <1>1, <2>2, LastCall
    <3>5. e \in [DOMAIN done -> 0..Len(wire)] /\ e[Len(done)] = Len(wire)
      BY <3>2, <3>3, <3>4 DEF EndOf
    <3>6. Follow(wire, done, Len(done), e)'
      BY <1>1, <2>4, <3>2, <3>3 DEF Follow
    <3>7. IsTransaction(wire, done)'
      BY <1>1, <3>5, <3>6 DEF IsTransaction
    <3>8. data' = [i \in 1..ReadLen(done) |-> Dev(i)]
      <4>1. done \in Transactions /\ Call = done[Len(done)] /\ Call \in Calls
        <5>1. Len(script) < 2
          BY <2>5
        <5> QED
          BY <1>1, <5>1, LastCall
      <4>2. ReadLen(done) = IF Call.fn = "read" THEN Call.len ELSE 0
        BY <4>1, ReadLenIs
      <4>3. CASE Call.fn = "read"
        <5>1. data' = Got /\ Got \in Seq(WireBytes)
          BY <1>1, <2>3, <4>3 DEF Got, RTypes
        <5>2. \A i \in 1..Len(Got) : Got[i] = Dev(i)
          BY <1>1, <1>3, <2>5, <4>3, CallOver
        <5>3. Len(Got) = Call.len
          <6>1. /\ Len(data) = off
                /\ Len(ep0buf) + Len(todo) = Size + Bit(todo # << >> /\ pec_enabled /\ AtEnd)
            BY <1>1, <4>3 DEF RInv, Reads
          <6>2. 0 = Len(todo) /\ Bit(todo # << >> /\ pec_enabled /\ AtEnd) = 0
            BY <1>1 DEF Bit
          <6>3. Len(ep0buf) \in Nat /\ Size \in Nat /\ off + Size = Call.len
            BY <1>1, <2>5, Transfer DEF RTypes
          <6>4. Len(ep0buf) = Size
            BY <6>1, <6>2, <6>3
          <6>5. data \in Seq(WireBytes) /\ ep0buf \in Seq(WireBytes)
            BY <1>1 DEF RTypes
          <6>6. Len(Got) = Len(data) + Len(ep0buf)
            BY <1>1, <6>5 DEF Got
          <6> QED
            BY <6>1, <6>3, <6>4, <6>6
        <5>4. Got = [i \in 1..Len(Got) |-> Got[i]]
          BY <5>1
        <5> QED
          BY <4>2, <4>3, <5>1, <5>2, <5>3, <5>4
      <4>4. CASE Call.fn # "read"
        <5>1. Call.fn = "write"
          BY <4>1, <4>4, CallTypes
        <5>2. data = << >> /\ ReadLen(done) = 0
          BY <1>1, <4>2, <4>4, <5>1 DEF RInv, Writes
        <5> QED
          BY <2>3, <4>4, <5>2
      <4> QED
        BY <4>3, <4>4
    <3>9. ReadLen(done)' = ReadLen(done)
      BY <1>1
    <3> QED
      BY <3>1, <3>7, <3>8, <3>9 DEF Healthy, HealthyIsTransaction
  <2>6. CASE Final /\ Len(script) # 1
    <3>1. PICK r \in Nat : CallReturns(r)
      <4>1. Call.len \in Nat /\ Size \in Nat
        BY <1>1, Transfer
      <4> QED
        BY <2>1, <2>6, <4>1 DEF RequestDone
    <3>2. pc' = "ready" /\ script' = Tail(script) /\ off' = 0
      BY <2>6, <3>1 DEF CallReturns
    <3>3. ~(Len(script) < 2) /\ Len(script) \in Nat
      <4> DEFINE n == Len(script)
      <4>1. n \in Nat /\ n > 0 /\ n # 1
        BY <1>1, <2>6, Transfer
      <4> HIDE DEF n
      <4>2. ~(n < 2)
        BY <4>1
      <4> QED
        BY <4>1, <4>2 DEF n
    <3>4. Call.fn = "write"
      <4>1. Call.fn # "read" /\ Call \in Calls
        BY <1>1, <3>3, LastCall
      <4> QED
        BY <4>1, CallTypes
    <3>5. PICK e \in [1..(Before + 1) -> 0..Len(wire)] :
            Follow(wire, done, Before + 1, e) /\ EndOf(e, Before + 1) = Len(wire)
      BY <1>1, <1>3, <2>6, CallOver
    <3>6. ~lastrd /\ Len(wire) > 0
      BY <1>1, <1>3, <2>6, <3>4, CallOver
    <3>7. Before' = Before + 1
      <4>1. Len(script') = Len(script) - 1
        BY <1>1, <3>2, Shorter DEF Types
      <4> QED
        BY <1>1, <2>2, <3>3, <4>1 DEF Before
    <3>8. Follow(wire, done, Before, e)' /\ e \in [1..Before' -> 0..Len(wire')]
      <4>1. e \in [1..Before' -> 0..Len(wire')]
        BY <1>1, <3>5, <3>7
      <4>2. Follow(wire, done, Before, e)'
        BY <1>1, <2>4, <3>5, <3>7 DEF Follow
      <4> QED
        BY <4>1, <4>2
    <3>9. PICK from : from = Len(wire)
      OBVIOUS
    <3>10. EndOf(e, Before') = from
      BY <3>5, <3>7, <3>9
    <3>11. Shown(from)'
      BY <1>1, <3>9 DEF Shown
    <3>12. WritesOn(from)'
      BY <1>1, <3>2, <3>6, <3>9 DEF WritesOn
    <3>13. ASSUME Call'.fn = "read" PROVE ReadsOn(from)'
      <4>1. Called' = 0
        BY <3>2 DEF Called
      <4>2. Total' \in Nat \ {0}
        <5>1. Call' \in Calls
          <6>1. script \in Seq(Calls) /\ script' = Tail(script) /\ Call' = Head(script')
            BY <1>1, <3>2 DEF Types, Call
          <6>2. script' \in Seq(Calls) /\ Len(script') > 0
            BY <3>3, <6>1
          <6> QED
            BY <6>1, <6>2
        <5>2. Call'.len \in Nat \ {0}
          BY <5>1, CallTypes
        <5>3. Pecs' \in 0..1
          BY DEF Pecs, Bit
        <5>4. Total' = Call'.len + Pecs'
          BY DEF Total
        <5> QED
          BY <5>2, <5>3, <5>4
      <4>3. clocked' = 0 /\ Got' = << >>
        <5>1. ~stall /\ acked # 0
          <6>1. acked = off + Size /\ Size \in Nat \ {0}
            BY <1>1, <2>1, <3>4, AllAcked, Transfer DEF RInv
          <6> QED
            BY <1>1, <2>1, <6>1
        <5>2. clocked = 0 /\ data = << >>
          BY <1>1, <3>4, <5>1 DEF RInv, Writes, Begun
        <5> QED
          BY <1>1, <2>3, <3>2, <3>4, <5>2 DEF Got
      <4>4. \E x \in Nat : off' = x * Chunk
        <5>1. off' = 0 * Chunk
          BY <3>2, TransactionsAssumption
        <5> QED
          BY <5>1
      <4>5. \A i \in 1..Len(Got') : Got'[i] = Dev(i)
        <5>1. 0 = Len(Got')
          BY <4>3
        <5> QED
          BY <5>1
      <4>6. Len(wire') - from = 0
        BY <1>1, <3>9
      <4> QED
        BY <1>1, <3>2, <3>6, <4>1, <4>2, <4>3, <4>4, <4>5, <4>6 DEF ReadsOn
    <3>14. Going(from)'
      BY <3>11, <3>12, <3>13 DEF Going
    <3>15. Going(EndOf(e, Before))'
      BY <3>10, <3>14
    <3>16. Owning'
      BY <1>1, <2>1 DEF Owning
    <3> QED
      BY <3>2, <3>8, <3>15, <3>16 DEF Healthy, HealthyIsTransaction, Succeeded
  <2>7. CASE ~Final
    <3>1. pc' = "ready" /\ off' = off + Size /\ script' = script
      BY <2>1, <2>7 DEF RequestDone
    <3>2. Call' = Call /\ Before' = Before /\ Ev' = Ev /\ Leads(Call)' = Leads(Call)
          /\ Total' = Total
      BY <1>1, <2>4, <3>1 DEF Call, Before, Ev, Leads, Total, Pecs
    <3>3. PICK ends \in [1..Before -> 0..Len(wire)] :
            Follow(wire, done, Before, ends) /\ Going(EndOf(ends, Before))
      BY <1>1, <1>3 DEF Healthy
    <3>4. PICK from : from = EndOf(ends, Before)
      OBVIOUS
    <3>5. Going(from)
      BY <3>3, <3>4
    <3>6. Shown(from)'
      BY <1>1, <3>2, <3>5 DEF Going, Shown
    <3>7. 0 = Len(todo)
      BY <1>1
    <3>8. /\ Size = Chunk /\ Size \in Nat \ {0}
      BY <1>1, <2>7, FullTransfer, Transfer
    <3>9. ASSUME Call.fn = "write" PROVE WritesOn(from)'
      <4>1. /\ wire # << >> => ~lastrd
            /\ Len(wire) - from + Len(todo) = Leads(Call) + off + Size
        BY <1>1, <2>7, <3>5, <3>9 DEF Going, WritesOn
      <4>2. Leads(Call) \in Nat /\ from \in Nat
        BY <1>1, <3>5, <3>9, EvOfWrite DEF Going, Shown
      <4>3. Len(wire) - from = Leads(Call) + off'
        BY <1>1, <3>1, <3>7, <3>8, <4>1, <4>2
      <4>4. off' # 0
        BY <1>1, <3>1, <3>8
      <4> QED
        BY <1>1, <3>1, <3>2, <4>1, <4>3, <4>4 DEF WritesOn
    <3>10. ASSUME Call.fn = "read" PROVE ReadsOn(from)'
      <4>1. ReadsOn(from)
        BY <3>5, <3>10 DEF Going
      <4>2. ReadSize = Size
        BY <2>7, <3>8 DEF ReadSize, AtEnd, Bit
      <4>3. Called = off + Size
        <5>1. Called = off + (Size - 0)
          BY <1>1, <3>7, <4>2 DEF Called
        <5> QED
          BY <1>1, <3>8, <5>1
      <4>4. Called' = off + Size
        <5>1. Called' = off' + 0
          BY <3>1 DEF Called
        <5> QED
          BY <1>1, <3>1, <3>8, <5>1
      <4>5. Got' = Got
        <5>1. data \in Seq(WireBytes) /\ ep0buf \in Seq(WireBytes)
          BY <1>1 DEF RTypes
        <5>2. data' = Got /\ Got' = data' \o << >> /\ Got \in Seq(WireBytes)
          BY <1>1, <2>3, <3>1, <3>10, <5>1 DEF Got
        <5> QED
          BY <5>2
      <4>6. \E x \in Nat : off' = x * Chunk
        <5>1. PICK x \in Nat : off = x * Chunk
          BY <4>1 DEF ReadsOn
        <5>2. off' = (x + 1) * Chunk /\ x + 1 \in Nat
          BY <3>1, <3>8, <5>1
        <5> QED
          BY <5>2
      <4>7. Called' = Called
        BY <4>3, <4>4
      <4> QED
        BY <1>1, <3>1, <3>2, <4>1, <4>5, <4>6, <4>7 DEF ReadsOn
    <3>11. Going(from)'
      BY <3>2, <3>6, <3>9, <3>10 DEF Going
    <3>12. Follow(wire, done, Before, ends)'
      BY <1>1, <2>4, <3>2, <3>3 DEF Follow
    <3>13. ends \in [1..Before' -> 0..Len(wire')]
      BY <1>1, <3>2
    <3>14. EndOf(ends, Before') = from
      BY <3>2, <3>4
    <3>15. Going(EndOf(ends, Before))'
      BY <3>11, <3>14
    <3>16. Owning'
      BY <1>1, <2>1 DEF Owning
    <3> QED
      BY <3>1, <3>12, <3>13, <3>15, <3>16 DEF Healthy, HealthyIsTransaction, Succeeded
  <2> QED
    BY <2>5, <2>6, <2>7
<1> QED
  BY <1>2, <1>3

\* A primitive with which nothing goes wrong.
LEMMA WellDone ==
  ASSUME AInv, Primitive, ~faulty'
  PROVE  /\ Starts \/ Restarts \/ OutAcked \/ Stops \/ InRead
         /\ ~faulty /\ todo' = Tail(todo) /\ stall' = stall /\ data' = data
<1>1. Starts \/ Restarts \/ OutAcked \/ Stops \/ InRead
  BY DEF Primitive, StartFails, OutFails, InTimesOut
<1>2. ~faulty /\ todo' = Tail(todo) /\ stall' = stall /\ data' = data
  <2>1. CASE InRead
    BY <2>1 DEF InRead, Advance, hostVars
  <2>2. CASE ~InRead
    BY <1>1, <2>2 DEF Starts, Restarts, OutAcked, Stops, Advance, hostVars, ghosts
  <2> QED
    BY <2>1, <2>2
<1> QED
  BY <1>1, <1>2

\* What the calls before have shown does not end in STOP.
LEMMA GoesOn ==
  ASSUME OneTransaction, ReadsLast, Types, Place, pc # "idle", Before > 0,
         wire \in Seq(Events), NEW ends \in [1..Before -> 0..Len(wire)],
         Follow(wire, done, Before, ends)
  PROVE  ends[Before] > 0 /\ wire[ends[Before]] # STOP
<1> DEFINE b == Before
<1>1. /\ b \in Nat /\ b < Len(done) /\ done \in Seq(Calls) /\ done \in Transactions
      /\ Len(done) \in Nat
  BY LastCall, CallKeeps
<1> DEFINE c == done[b]
           m == ReadLen(done) + IF pec_enabled THEN 1 ELSE 0
           s == CallEvents(c, m)
           from == IF b = 1 THEN 0 ELSE ends[b - 1]
<1>2. c \in Calls /\ b \in DOMAIN done /\ b # Len(done) /\ b > 0
  BY <1>1
<1>3. c.fn = "write"
  BY <1>1, <1>2, CallTypes DEF ReadsLast
<1>4. /\ c.start => b = 1
      /\ c.restart => b > 1
      /\ c.stop => b = Len(done)
  BY <1>1, <1>2, <1>3 DEF OneTransaction
<1>5. ~(c.start /\ c.restart) /\ ~c.stop
  BY <1>2, <1>4
<1>6. pec_enabled \in BOOLEAN
  BY DEF Types
<1>7. ends[b] = from + Len(s) /\ Shows(wire, from, s)
  <2>1. b \in 1..b
    BY <1>1, <1>2
  <2> QED
    BY <2>1 DEF Follow
<1>8. from \in Nat
  BY <1>1, <1>2
<1> HIDE DEF b, m, c, from
<1>9. s \in Seq(Events) /\ Len(s) \in Nat /\ Len(s) > 0 /\ s[Len(s)] # STOP
  BY <1>2, <1>3, <1>5, <1>6, EventPlaces
<1> HIDE DEF s
<1>10. Len(s) \in DOMAIN s
  BY <1>9
<1>11. wire[from + Len(s)] = s[Len(s)]
  BY <1>7, <1>10 DEF Shows
<1> QED
  BY <1>7, <1>8, <1>9, <1>11 DEF b

\* The bus is ours from the first event of a transaction to the STOP.
LEMMA OwnedOn ==
  ASSUME OneTransaction, ReadsLast, Types, Place, pc # "idle", Call.fn = "write", Owning,
         wire \in Seq(Events), NEW ends \in [1..Before -> 0..Len(wire)],
         Follow(wire, done, Before, ends),
         NEW from, from = EndOf(ends, Before), Shown(from), Len(wire) - from < Len(Ev)
  PROVE  owned <=> Before > 0 \/ Len(wire) - from > 0
<1>1. /\ Before \in Nat /\ from \in Nat /\ from <= Len(wire) /\ Len(wire) \in Nat
      /\ \A i \in 1..(Len(wire) - from) : wire[from + i] = Ev[i]
  BY CallKeeps DEF Shown
<1>2. Len(Ev) \in Nat /\ \A i \in 1..Len(Ev) : Ev[i] = STOP => i = Len(Ev)
  BY EvOfWrite
<1>3. CASE Len(wire) - from > 0
  <2> DEFINE j == Len(wire) - from
  <2>1. j \in 1..j /\ j \in 1..Len(Ev) /\ j # Len(Ev) /\ from + j = Len(wire)
    BY <1>1, <1>2, <1>3
  <2>2. wire[Len(wire)] = Ev[j] /\ Ev[j] # STOP
    BY <1>1, <1>2, <2>1
  <2>3. wire # << >>
    BY <1>1, <1>3
  <2> QED
    BY <1>3, <2>2, <2>3 DEF Owning
<1>4. CASE Len(wire) - from = 0 /\ Before > 0
  <2>1. from = ends[Before] /\ Len(wire) = from
    BY <1>1, <1>4 DEF EndOf
  <2>2. from > 0 /\ wire[from] # STOP
    BY <1>4, <2>1, GoesOn
  <2>3. wire # << >>
    BY <2>1, <2>2
  <2> QED
    BY <1>4, <2>1, <2>2, <2>3 DEF Owning
<1>5. CASE Len(wire) - from = 0 /\ Before = 0
  <2>1. 0 = Len(wire)
    BY <1>1, <1>5 DEF EndOf
  <2>2. wire = << >>
    BY <2>1
  <2> QED
    BY <1>5, <2>2 DEF Owning
<1> QED
  BY <1>1, <1>3, <1>4, <1>5

\* A primitive of SMB_WRITE shows the next event of the call.
LEMMA WriteActs ==
  ASSUME OneTransaction, ReadsLast, RInv, Primitive, ~faulty', pc = "waits",
         Call.fn = "write", Owning,
         NEW ends \in [1..Before -> 0..Len(wire)], Follow(wire, done, Before, ends),
         NEW from, from = EndOf(ends, Before), Shown(from), WritesOn(from)
  PROVE  /\ Len(wire) - from < Len(Ev)
         /\ wire' = Append(wire, Ev[Len(wire) - from + 1])
         /\ owned' <=> Ev[Len(wire) - from + 1] # STOP
         /\ ~lastrd'
<1>1. /\ AInv /\ Types /\ Place /\ RTypes /\ WireTypes /\ pc # "idle" /\ script # << >>
      /\ wire \in Seq(Events) /\ Len(wire) \in Nat /\ todo \in Seq(Ops) /\ Writes
  BY DEF RInv, AInv, RTypes, WireTypes, Types
<1>2. todo # << >> /\ Head(todo) \in Ops
  BY <1>1, Kept
<1>3. Len(todo) \in Nat /\ Len(todo) > 0 /\ Head(todo) = todo[1] /\ 1 \in 1..Len(todo)
  BY <1>1, <1>2, Shorter
<1> DEFINE a == Head(todo)
           j == Len(wire) - from
           k == Len(wire) - from + 1
           l == Leads(Call)
           q == Tails(Call)
<1>4. from \in Nat /\ from <= Len(wire) /\ j \in Nat /\ k = j + 1
  BY <1>1 DEF Shown
<1>5. /\ wire # << >> => ~lastrd
      /\ j + Len(todo) = IF Final THEN Len(Ev) ELSE l + off + Size
      /\ EventOf(a) = Ev[k]
  <2>1. /\ wire # << >> => ~lastrd
        /\ j + Len(todo) = IF Final THEN Len(Ev) ELSE l + off + Size
        /\ \A i \in 1..Len(todo) : EventOf(todo[i]) = Ev[j + i]
    BY DEF WritesOn
  <2> HIDE DEF j
  <2>2. EventOf(todo[1]) = Ev[j + 1]
    BY <1>3, <2>1
  <2> QED
    BY <1>3, <1>4, <2>1, <2>2
<1>6. /\ Len(Ev) = l + Call.len + q /\ Len(Ev) \in Nat
      /\ Ev[l + 1] = Sent(Call.data[1], TRUE)
      /\ \A i \in 1..Len(Ev) : /\ Ev[i] = STOP => i = Len(Ev)
                               /\ Ev[i] = START => i = 1 /\ Call.start
                               /\ Ev[i] = RESTART => i = 1 /\ Call.restart
      /\ l \in 0..1 /\ q \in 0..2 /\ Call.len \in Nat \ {0}
      /\ Call.start => Before = 0
      /\ Call.restart => Before > 0
  <2>1. 1 \in 1..Call.len
    BY <1>1, EvOfWrite
  <2> QED
    BY <1>1, <2>1, EvOfWrite
<1>7. j < Len(Ev) /\ k \in 1..Len(Ev)
  <2>1. off + Size <= Call.len /\ off \in Nat /\ Size \in Nat
    BY <1>1, Transfer DEF Types
  <2> HIDE DEF j, l, q
  <2>2. j < Len(Ev)
    <3>1. CASE Final
      BY <1>3, <1>4, <1>5, <1>6, <3>1
    <3>2. CASE ~Final
      <4>1. l + off + Size <= Len(Ev)
        BY <1>6, <2>1
      <4> QED
        BY <1>3, <1>4, <1>5, <1>6, <3>2, <4>1
    <3> QED
      BY <3>1, <3>2
  <2> QED
    BY <1>4, <1>6, <2>2
<1>8. owned <=> Before > 0 \/ j > 0
  BY <1>1, <1>7, OwnedOn
<1>9. a.op # "in"
  BY <1>1, <1>3 DEF Writes
<1>10. owned => ~lastrd
  BY <1>5 DEF Owning
<1>11. Starts \/ Restarts \/ OutAcked \/ Stops
  BY <1>1, <1>9, WellDone DEF InRead, At
<1> HIDE DEF a, j, l, q
<1>12. wire' = Append(wire, Ev[k]) /\ (owned' <=> Ev[k] # STOP) /\ ~lastrd'
  <2>1. CASE Starts
    <3>1. /\ a.op = "start" /\ owned' = TRUE /\ ~lastrd'
          /\ wire' = Append(wire, IF owned THEN RESTART ELSE START)
      BY <2>1 DEF Starts, At, i2c_start, a
    <3>2. Ev[k] = START
      BY <1>5, <3>1 DEF EventOf
    <3>3. k = 1 /\ Call.start
      BY <1>6, <1>7, <3>2
    <3>4. Before = 0 /\ j = 0
      BY <1>4, <1>6, <3>3
    <3>5. ~owned
      BY <1>8, <3>4
    <3> QED
      BY <3>1, <3>2, <3>5, EventKinds
  <2>2. CASE Restarts
    <3>1. /\ a.op = "restart" /\ owned' = TRUE /\ ~lastrd'
          /\ wire' = Append(wire, IF owned THEN RESTART ELSE START)
      BY <2>2 DEF Restarts, At, i2c_restart, i2c_start, a
    <3>2. Ev[k] = RESTART
      BY <1>5, <3>1 DEF EventOf
    <3>3. Call.restart
      BY <1>6, <1>7, <3>2
    <3>4. owned
      BY <1>6, <1>8, <3>3
    <3> QED
      BY <3>1, <3>2, <3>4, EventKinds
  <2>3. CASE OutAcked
    <3>1. /\ a.op = "out" /\ owned /\ owned' = owned /\ lastrd' = lastrd
          /\ wire' = Append(wire, Sent(a.b, TRUE))
      BY <2>3 DEF OutAcked, At, ByteOutAck, a
    <3>2. Ev[k] = Sent(a.b, TRUE)
      BY <1>5, <3>1 DEF EventOf
    <3>3. Ev[k] # STOP
      BY <3>2, EventKinds
    <3> QED
      BY <1>10, <3>1, <3>2, <3>3
  <2>4. CASE Stops
    <3>1. /\ a.op = "stop" /\ owned' = FALSE /\ ~lastrd'
          /\ wire' = IF owned THEN Append(wire, STOP) ELSE wire
      BY <2>4 DEF Stops, At, i2c_stop, a
    <3>2. Ev[k] = STOP
      BY <1>5, <3>1 DEF EventOf
    <3>3. k = Len(Ev)
      BY <1>6, <1>7, <3>2
    <3>4. j > 0
      <4>1. CASE j = 0
        <5>1. k = 1 /\ l = 0
          <6> DEFINE n == Len(Ev)
          <6>1. n = l + Call.len + q /\ k = n /\ k = 0 + 1
            BY <1>4, <1>6, <3>3, <4>1
          <6> HIDE DEF n, k
          <6> QED
            BY <1>6, <6>1
        <5>2. Ev[k] = Sent(Call.data[1], TRUE)
          <6>1. l + 1 = k
            BY <5>1
          <6> QED
            BY <1>6, <6>1
        <5> QED
          BY <3>2, <5>2, EventKinds
      <4> QED
        BY <1>4, <4>1
    <3>5. owned
      BY <1>8, <3>4
    <3> QED
      BY <3>1, <3>2, <3>5
  <2> QED
    BY <1>11, <2>1, <2>2, <2>3, <2>4
<1> QED
  BY <1>7, <1>12 DEF j

\* One event more.
Agrees(w, from, s) ==
  from \in 0..Len(w) /\ \A i \in 1..(Len(w) - from) : w[from + i] = s[i]

LEMMA OneMore ==
  ASSUME NEW w \in Seq(Events), NEW s \in Seq(Events), NEW from, Agrees(w, from, s),
         NEW k, k = Len(w) - from + 1, k <= Len(s)
  PROVE  LET x == Append(w, s[k])
         IN  /\ x \in Seq(Events) /\ Len(x) = Len(w) + 1 /\ Agrees(x, from, s)
             /\ \A i \in 1..Len(w) : x[i] = w[i]
             /\ x # << >> /\ x[Len(x)] = s[k] /\ s[k] \in Events
<1>1. /\ from \in Nat /\ from <= Len(w) /\ Len(w) \in Nat /\ Len(s) \in Nat
      /\ \A i \in 1..(Len(w) - from) : w[from + i] = s[i]
  BY DEF Agrees
<1> DEFINE e == s[k]
           x == Append(w, s[k])
<1>2. k \in 1..Len(s) /\ from + k = Len(w) + 1
  BY <1>1
<1>3. e \in Events
  BY <1>2
<1>4. x = Append(w, e)
  OBVIOUS
<1> HIDE DEF e, x
<1>5. /\ x \in Seq(Events) /\ Len(x) = Len(w) + 1
      /\ \A i \in 1..Len(w) : x[i] = w[i]
      /\ x[Len(w) + 1] = e
  BY <1>3, <1>4, Appended
<1>6. ASSUME NEW i \in 1..(Len(x) - from) PROVE x[from + i] = s[i]
  <2>1. CASE i = k
    BY <1>2, <1>5, <2>1 DEF e
  <2>2. CASE i # k
    <3>1. i \in 1..(Len(w) - from) /\ from + i \in 1..Len(w)
      BY <1>1, <1>2, <1>5, <2>2
    <3> QED
      BY <1>1, <1>5, <3>1
  <2> QED
    BY <2>1, <2>2
<1>7. from \in 0..Len(x)
  BY <1>1, <1>5
<1>8. x # << >> /\ x[Len(x)] = e
  BY <1>1, <1>5
<1> QED
  BY <1>3, <1>5, <1>6, <1>7, <1>8 DEF e, x, Agrees

LEMMA ShownMore ==
  ASSUME wire \in Seq(Events), Ev \in Seq(Events), NEW from, Shown(from), Ev' = Ev,
         Len(wire) - from < Len(Ev), wire' = Append(wire, Ev[Len(wire) - from + 1])
  PROVE  /\ Shown(from)' /\ wire' \in Seq(Events) /\ Len(wire') = Len(wire) + 1
         /\ \A i \in 1..Len(wire) : wire'[i] = wire[i]
         /\ wire' # << >> /\ wire'[Len(wire')] = Ev[Len(wire) - from + 1]
<1> DEFINE k == Len(wire) - from + 1
           s == Ev
<1>1. Agrees(wire, from, s)
  BY DEF Shown, Agrees
<1>2. k <= Len(s)
  BY DEF Shown
<1>3. s \in Seq(Events) /\ wire' = Append(wire, s[k]) /\ k = Len(wire) - from + 1
  OBVIOUS
<1>4. Ev' = s
  OBVIOUS
<1> HIDE DEF s, k
<1>5. /\ wire' \in Seq(Events) /\ Len(wire') = Len(wire) + 1 /\ Agrees(wire', from, s)
      /\ \A i \in 1..Len(wire) : wire'[i] = wire[i]
      /\ wire' # << >> /\ wire'[Len(wire')] = s[k]
  BY <1>1, <1>2, <1>3, OneMore
<1>6. Shown(from)'
  BY <1>4, <1>5 DEF Shown, Agrees
<1> QED
  BY <1>5, <1>6 DEF s, k

LEMMA WritesFurther ==
  ASSUME todo \in Seq(Ops), todo # << >>, todo' = Tail(todo), pc = "waits", pc' = "waits",
         Call' = Call, Size' = Size, Final' <=> Final, off' = off, Ev' = Ev,
         UNCHANGED pec_enabled, ~lastrd', NEW from \in Nat, Len(wire) \in Nat,
         Len(wire') = Len(wire) + 1, WritesOn(from)
  PROVE  WritesOn(from)'
<1>1. Leads(Call)' = Leads(Call)
  BY DEF Leads
<1>2. /\ Len(Tail(todo)) = Len(todo) - 1 /\ Len(todo) \in Nat
      /\ \A i \in 1..(Len(todo) - 1) : Tail(todo)[i] = todo[i + 1]
  BY Shorter
<1>3. /\ Len(wire) - from + Len(todo) = IF Final THEN Len(Ev) ELSE Leads(Call) + off + Size
      /\ \A i \in 1..Len(todo) : EventOf(todo[i]) = Ev[Len(wire) - from + i]
  BY DEF WritesOn
<1>4. Len(wire') - from + Len(todo') = Len(wire) - from + Len(todo)
  BY <1>2
<1>5. ASSUME NEW i \in 1..Len(todo')
      PROVE  EventOf(todo'[i]) = Ev[Len(wire') - from + i]
  <2>1. i + 1 \in 1..Len(todo) /\ todo'[i] = todo[i + 1]
        /\ Len(wire) - from + (i + 1) = Len(wire') - from + i
    BY <1>2
  <2> QED
    BY <1>3, <2>1
<1> QED
  BY <1>1, <1>3, <1>4, <1>5 DEF WritesOn

LEMMA ReadBound ==
  ASSUME OneTransaction, ReadsLast, Types, Place, pc # "idle", Call.fn = "read"
  PROVE  /\ ReadSize \in Nat \ {0} /\ off + ReadSize <= Total
         /\ ReadSize = Size + Bit(pec_enabled /\ AtEnd)
<1>1. /\ Size \in Nat \ {0} /\ off \in Nat /\ off + Size <= Call.len /\ Call.len \in Nat
      /\ Final <=> off + Size = Call.len
  BY Transfer DEF Types
<1>2. /\ Total = Call.len + Pecs /\ Pecs \in 0..1
  BY EvOfRead
<1>3. AtEnd <=> Final
  BY CallKeeps DEF AtEnd
<1>4. ReadSize = Size + IF Final THEN Pecs ELSE 0
  BY <1>3 DEF ReadSize, Pecs, Bit
<1>5. CASE Final
  BY <1>1, <1>2, <1>4, <1>5 DEF ReadSize
<1>6. CASE ~Final
  BY <1>1, <1>2, <1>4, <1>6 DEF ReadSize
<1> QED
  BY <1>5, <1>6

\* The k-th of t bytes is read: the device is one ahead.
LEMMA ByteShown ==
  ASSUME NEW t \in Nat, NEW k \in 1..t, ByteIn(k = 1, k = 1 /\ t = 1, k = t - 1, k = t),
         k = 1 => clocked = 0 /\ ~lastrd,
         k > 1 => clocked = k /\ i2dat = Dev(k) /\ (lastrd <=> k = t)
  PROVE  /\ ByteInValue(k = 1) = Dev(k)
         /\ wire' = Append(IF k = 1 THEN Append(wire, Read(Dev(1), 1 # t)) ELSE wire,
                           IF k = t THEN STOP ELSE Read(Dev(k + 1), k + 1 # t))
         /\ owned' <=> k # t
         /\ k # t => clocked' = k + 1 /\ i2dat' = Dev(k + 1) /\ (lastrd' <=> k = t - 1)
<1>1. CASE k = 1
  <2>1. clocked = 0 /\ lastrd = FALSE /\ clocked + 1 = 1
    BY <1>1
  <2>2. CASE t = 1
    <3>1. k = t /\ (k = 1 /\ t = 1)
      BY <1>1, <2>2
    <3> QED
      BY <1>1, <2>1, <2>2, <3>1 DEF ByteIn, ByteInValue, Clocked, Announced
  <2>3. CASE t # 1
    <3>1. k # t /\ ~(k = 1 /\ t = 1) /\ 1 + 1 = 2 /\ 0 + 1 = 1
      BY <1>1, <2>3
    <3>2. /\ wire' = Append(Append(wire, Read(Dev(1), TRUE)), Read(Dev(k + 1), ~(k = t - 1)))
          /\ owned' = TRUE /\ clocked' = k + 1 /\ i2dat' = Dev(k + 1)
          /\ lastrd' = (k = t - 1) /\ ByteInValue(k = 1) = Dev(k)
      BY <1>1, <2>1, <2>3, <3>1 DEF ByteIn, ByteInValue, Clocked, Announced
    <3>3. Read(Dev(k + 1), ~(k = t - 1)) = Read(Dev(k + 1), k + 1 # t)
      BY DEF Read
    <3>4. Read(Dev(1), TRUE) = Read(Dev(1), 1 # t)
      BY <2>3 DEF Read
    <3> QED
      BY <1>1, <2>3, <3>1, <3>2, <3>3, <3>4
  <2> QED
    BY <2>2, <2>3
<1>2. CASE k # 1
  <2>1. clocked = k /\ i2dat = Dev(k) /\ (lastrd <=> k = t)
    BY <1>2
  <2>2. CASE k = t
    BY <1>2, <2>1, <2>2 DEF ByteIn, ByteInValue, Clocked, Announced
  <2>3. CASE k # t
    <3>1. lastrd = FALSE /\ ~(k = 1 /\ t = 1)
      BY <1>2, <2>1, <2>3
    <3>2. /\ wire' = Append(wire, Read(Dev(k + 1), ~(k = t - 1)))
          /\ owned' = TRUE /\ clocked' = k + 1 /\ i2dat' = Dev(k + 1)
          /\ lastrd' = (k = t - 1) /\ ByteInValue(k = 1) = Dev(k)
      BY <1>2, <2>1, <2>3, <3>1 DEF ByteIn, ByteInValue, Clocked, Announced
    <3>3. Read(Dev(k + 1), ~(k = t - 1)) = Read(Dev(k + 1), k + 1 # t)
      BY DEF Read
    <3>4. wire' = Append(IF k = 1 THEN Append(wire, Read(Dev(1), 1 # t)) ELSE wire,
                         IF k = t THEN STOP ELSE Read(Dev(k + 1), k + 1 # t))
      BY <1>2, <2>3, <3>2, <3>3
    <3> QED
      BY <2>3, <3>2, <3>4
  <2> QED
    BY <2>2, <2>3
<1> QED
  BY <1>1, <1>2

\* Which byte of the call the next primitive of SMB_READ asks for.
LEMMA NextByte ==
  ASSUME OneTransaction, ReadsLast, RInv, Primitive, pc = "waits", Call.fn = "read",
         NEW from, ReadsOn(from), NEW k, k = Called + 1
  PROVE  /\ k \in 1..Total /\ Head(todo) = Nth(k) /\ Len(Got) = k - 1
         /\ k = 1 => clocked = 0 /\ ~lastrd
         /\ k > 1 => clocked = k /\ i2dat = Dev(k) /\ (lastrd <=> k = Total)
         /\ Len(wire) - from = clocked
<1>1. /\ AInv /\ Types /\ Place /\ RTypes /\ pc # "idle" /\ todo \in Seq(Ops) /\ Reads
      /\ off \in Nat
  BY DEF RInv, AInv, Types
<1>2. todo # << >>
  BY <1>1, Kept
<1>3. /\ Len(todo) \in Nat /\ Len(todo) > 0 /\ Head(todo) = todo[1] /\ 1 \in 1..Len(todo)
  BY <1>1, <1>2, Shorter
<1>4. /\ ReadSize \in Nat \ {0} /\ off + ReadSize <= Total
      /\ ReadSize = Size + Bit(pec_enabled /\ AtEnd)
  BY <1>1, ReadBound
<1>5. Total \in Nat \ {0}
  BY <1>1, EvOfRead
<1>6. Called = off + (ReadSize - Len(todo))
  BY DEF Called
<1>7. Len(data) = off /\ Len(ep0buf) + Len(todo) = ReadSize
  <2>1. Len(data) = off
        /\ Len(ep0buf) + Len(todo) = Size + Bit(todo # << >> /\ pec_enabled /\ AtEnd)
    BY <1>1 DEF Reads
  <2>2. Bit(todo # << >> /\ pec_enabled /\ AtEnd) = Bit(pec_enabled /\ AtEnd)
    BY <1>2 DEF Bit
  <2> QED
    BY <1>4, <2>1, <2>2
<1>8. Len(ep0buf) \in Nat /\ Got = data \o ep0buf /\ Len(Got) = Len(data) + Len(ep0buf)
  <2>1. data \in Seq(WireBytes) /\ ep0buf \in Seq(WireBytes)
    BY <1>1 DEF RTypes
  <2>2. Got = data \o ep0buf
    BY DEF Got
  <2> QED
    BY <2>1, <2>2
<1>9. Called \in Nat /\ k \in 1..Total /\ Len(Got) = k - 1
  <2> DEFINE n == Len(todo)
             r == ReadSize
             e == Len(ep0buf)
             c == Called
             t == Total
             l == Len(Got)
  <2>1. /\ n \in Nat /\ n > 0 /\ r \in Nat /\ off + r <= t /\ t \in Nat /\ e \in Nat /\ off \in Nat
        /\ c = off + (r - n) /\ e + n = r /\ l = off + e /\ k = c + 1
    BY <1>1, <1>3, <1>4, <1>5, <1>6, <1>7, <1>8
  <2> HIDE DEF n, r, e, c, t, l
  <2>2. c \in Nat /\ k \in 1..t /\ l = k - 1
    BY <2>1
  <2> QED
    BY <2>2 DEF c, t, l
<1>10. todo[1] = Nth(k)
  <2>1. \A i \in 1..Len(todo) : todo[i] = Nth(Called + i)
    BY DEF ReadsOn
  <2> QED
    BY <1>3, <2>1
<1>11. /\ Called = 0 => clocked = 0 /\ ~lastrd
       /\ 0 < Called /\ Called < Total =>
            /\ clocked = Called + 1 /\ i2dat = Dev(Called + 1)
            /\ lastrd <=> Called = Total - 1
       /\ Len(wire) - from = IF Called = Total THEN Total + 1 ELSE clocked
  BY DEF ReadsOn
<1>12. k = 1 => clocked = 0 /\ ~lastrd
  BY <1>9, <1>11
<1>13. k > 1 => clocked = k /\ i2dat = Dev(k) /\ (lastrd <=> k = Total)
  <2>1. ASSUME k > 1 PROVE 0 < Called /\ Called < Total /\ (Called = Total - 1 <=> k = Total)
    BY <1>5, <1>9, <2>1
  <2> QED
    BY <1>11, <2>1
<1>14. Len(wire) - from = clocked
  BY <1>5, <1>9, <1>11
<1> QED
  BY <1>3, <1>9, <1>10, <1>12, <1>13, <1>14

\* What InRead does, told of the k-th byte.
LEMMA ByteTaken ==
  ASSUME OneTransaction, ReadsLast, RInv, Primitive, InRead, pc = "waits", Call.fn = "read",
         NEW from, ReadsOn(from), NEW k, k = Called + 1, NEW t, t = Total
  PROVE  /\ wire' = Append(IF k = 1 THEN Append(wire, Read(Dev(1), 1 # t)) ELSE wire,
                           IF k = t THEN STOP ELSE Read(Dev(k + 1), k + 1 # t))
         /\ owned' <=> k # t
         /\ k # t => clocked' = k + 1 /\ i2dat' = Dev(k + 1) /\ (lastrd' <=> k = t - 1)
         /\ Take(Head(todo).last, Dev(k))
<1>1. /\ k \in 1..t /\ Head(todo) = Nth(k)
      /\ k = 1 => clocked = 0 /\ ~lastrd
      /\ k > 1 => clocked = k /\ i2dat = Dev(k) /\ (lastrd <=> k = t)
  BY NextByte
<1>2. t \in Nat
  <2>1. Types /\ Place /\ pc # "idle"
    BY DEF RInv, AInv
  <2> QED
    BY <2>1, EvOfRead
<1> DEFINE g == Head(todo)
<1>3. /\ g.first = (k = 1) /\ g.single = (k = 1 /\ t = 1) /\ g.before = (k = t - 1)
      /\ g.last = (k = t)
  <2>1. g = Get(k = 1, k = 1 /\ t = 1, k = t - 1, k = t)
    BY <1>1 DEF Nth
  <2> QED
    BY <2>1 DEF Get
<1>4. ByteIn(g.first, g.single, g.before, g.last) /\ Take(g.last, ByteInValue(g.first))
  BY DEF InRead
<1> HIDE DEF g
<1>5. ByteIn(k = 1, k = 1 /\ t = 1, k = t - 1, k = t)
  BY <1>3, <1>4
<1>6. ByteInValue(g.first) = ByteInValue(k = 1)
  BY <1>3
<1>7. /\ ByteInValue(k = 1) = Dev(k)
      /\ wire' = Append(IF k = 1 THEN Append(wire, Read(Dev(1), 1 # t)) ELSE wire,
                        IF k = t THEN STOP ELSE Read(Dev(k + 1), k + 1 # t))
      /\ owned' <=> k # t
      /\ k # t => clocked' = k + 1 /\ i2dat' = Dev(k + 1) /\ (lastrd' <=> k = t - 1)
  BY <1>1, <1>2, <1>5, ByteShown
<1>8. Take(g.last, Dev(k))
  <2>1. ByteInValue(g.first) = Dev(k)
    BY <1>6, <1>7
  <2> QED
    BY <1>4, <2>1
<1> QED
  BY <1>7, <1>8 DEF g

LEMMA GotMore ==
  ASSUME RTypes, NEW v \in WireBytes, NEW last, Take(last, v), data' = data,
         pc = "waits", pc' = "waits", \A i \in 1..Len(Got) : Got[i] = Dev(i),
         v = Dev(Len(Got) + 1)
  PROVE  \A i \in 1..Len(Got') : Got'[i] = Dev(i)
<1>1. /\ data \in Seq(WireBytes) /\ ep0buf \in Seq(WireBytes) /\ Got = data \o ep0buf
      /\ Got' = data \o ep0buf'
  BY DEF RTypes, Got
<1>2. CASE ep0buf' = ep0buf
  BY <1>1, <1>2
<1>3. CASE ep0buf' = Append(ep0buf, v)
  <2> DEFINE g == Got
  <2>1. g \in Seq(WireBytes) /\ Got' = Append(g, v)
    <3>1. data \o Append(ep0buf, v) = Append(data \o ep0buf, v)
      BY <1>1
    <3> QED
      BY <1>1, <1>3, <3>1
  <2>2. \A i \in 1..Len(g) : g[i] = Dev(i)
    OBVIOUS
  <2>3. v = Dev(Len(g) + 1)
    OBVIOUS
  <2> HIDE DEF g
  <2>4. /\ Len(Got') = Len(g) + 1 /\ Len(g) \in Nat /\ Got'[Len(g) + 1] = v
        /\ \A i \in 1..Len(g) : Got'[i] = g[i]
    BY <2>1, Appended
  <2>5. ASSUME NEW i \in 1..Len(Got') PROVE Got'[i] = Dev(i)
    <3>1. i = Len(g) + 1 \/ i \in 1..Len(g)
      BY <2>4
    <3> QED
      BY <2>2, <2>3, <2>4, <3>1
  <2> QED
    BY <2>5
<1> QED
  BY <1>2, <1>3 DEF Take

\* The wire after the k-th byte has been read: k + 1 events of the call.
LEMMA ReadShown ==
  ASSUME wire \in Seq(Events), Ev \in Seq(Events), Ev' = Ev, NEW from, Shown(from),
         NEW t \in Nat, NEW k \in 1..t, Len(Ev) = t + 1,
         Len(wire) - from = IF k = 1 THEN 0 ELSE k,
         wire' = Append(IF k = 1 THEN Append(wire, Ev[1]) ELSE wire, Ev[k + 1])
  PROVE  /\ Shown(from)' /\ wire' \in Seq(Events) /\ Len(wire') - from = k + 1
         /\ Len(wire) <= Len(wire') /\ \A i \in 1..Len(wire) : wire'[i] = wire[i]
         /\ wire' # << >> /\ wire'[Len(wire')] = Ev[k + 1]
<1> DEFINE s == Ev
           w == IF k = 1 THEN Append(wire, s[1]) ELSE wire
<1>1. s \in Seq(Events) /\ Len(s) = t + 1 /\ Ev' = s /\ wire' = Append(w, s[k + 1]) /\ s = Ev
  OBVIOUS
<1>2. Agrees(wire, from, s)
  BY DEF Shown, Agrees
<1>3. Len(wire) \in Nat /\ from \in Nat /\ from <= Len(wire)
  BY DEF Shown
<1> HIDE DEF s
<1>4. /\ w \in Seq(Events) /\ Agrees(w, from, s) /\ Len(w) - from = k
      /\ Len(wire) <= Len(w) /\ \A i \in 1..Len(wire) : w[i] = wire[i]
  <2>1. CASE k = 1
    <3>1. k = Len(wire) - from + 1 /\ k <= Len(s) /\ w = Append(wire, s[k])
      BY <1>1, <1>3, <2>1
    <3> HIDE DEF w
    <3>2. /\ w \in Seq(Events) /\ Len(w) = Len(wire) + 1 /\ Agrees(w, from, s)
          /\ \A i \in 1..Len(wire) : w[i] = wire[i]
      BY <1>1, <1>2, <3>1, OneMore
    <3> QED
      BY <1>3, <3>1, <3>2
  <2>2. CASE k # 1
    BY <1>2, <1>3, <2>2
  <2> QED
    BY <2>1, <2>2
<1> HIDE DEF w
<1>5. /\ wire' \in Seq(Events) /\ Len(wire') = Len(w) + 1 /\ Agrees(wire', from, s)
      /\ \A i \in 1..Len(w) : wire'[i] = w[i]
      /\ wire' # << >> /\ wire'[Len(wire')] = s[k + 1]
  <2> DEFINE n == k + 1
  <2>1. n = Len(w) - from + 1 /\ n <= Len(s) /\ wire' = Append(w, s[n])
    BY <1>1, <1>3, <1>4
  <2> HIDE DEF n
  <2>2. PICK x : x = Append(w, s[n])
    OBVIOUS
  <2>3. /\ x \in Seq(Events) /\ Len(x) = Len(w) + 1 /\ Agrees(x, from, s)
        /\ \A i \in 1..Len(w) : x[i] = w[i]
        /\ x # << >> /\ x[Len(x)] = s[n]
    <3>1. w \in Seq(Events) /\ s \in Seq(Events) /\ Agrees(w, from, s)
      BY <1>1, <1>4
    <3> QED
      BY <2>1, <2>2, <3>1, OneMore
  <2>4. wire' = x
    BY <2>1, <2>2
  <2> QED
    BY <2>3, <2>4 DEF n
<1>6. Len(w) \in Nat
  BY <1>4
<1>7. Shown(from)'
  BY <1>1, <1>5 DEF Shown, Agrees
<1>8. Len(wire') - from = k + 1 /\ Len(wire) <= Len(wire')
  <2> DEFINE a == Len(wire')
             b == Len(w)
  <2>1. a = b + 1 /\ b - from = k /\ b \in Nat /\ Len(wire) <= b
    BY <1>4, <1>5, <1>6
  <2> HIDE DEF a, b
  <2>2. a - from = k + 1 /\ Len(wire) <= a
    BY <1>3, <2>1
  <2> QED
    BY <2>2 DEF a
<1>9. ASSUME NEW i \in 1..Len(wire) PROVE wire'[i] = wire[i]
  <2>1. i \in 1..Len(w)
    BY <1>3, <1>4, <1>6
  <2> QED
    BY <1>4, <1>5, <2>1
<1> QED
  BY <1>1, <1>5, <1>7, <1>8, <1>9

LEMMA ReadsFurther ==
  ASSUME OneTransaction, ReadsLast, RInv, Primitive, InRead, pc = "waits", Call.fn = "read",
         NEW from, Shown(from), ReadsOn(from)
  PROVE  /\ Shown(from)' /\ ReadsOn(from)' /\ Owning' /\ wire' \in Seq(Events)
         /\ Len(wire) <= Len(wire') /\ \A i \in 1..Len(wire) : wire'[i] = wire[i]
<1>1. /\ AInv /\ Types /\ Place /\ RTypes /\ pc # "idle" /\ wire \in Seq(Events)
      /\ off \in Nat /\ todo \in Seq(Ops)
  BY DEF RInv, AInv, RTypes, WireTypes, Types
<1>2. todo # << >> /\ Steady /\ todo' = Tail(todo) /\ UNCHANGED <<data, done>>
  BY <1>1, Kept DEF InRead, Advance, hostVars
<1>3. UNCHANGED <<pc, script, off, pec_enabled>> /\ pc' = "waits"
  BY <1>2 DEF Steady
<1>4. /\ Call' = Call /\ Total' = Total /\ Ev' = Ev /\ ReadSize' = ReadSize
  <2>1. Call' = Call /\ Size' = Size /\ (Final' <=> Final) /\ Pecs' = Pecs
    BY <1>2, <1>3, SteadyCall DEF Pecs
  <2>2. AtEnd' <=> AtEnd
    BY <2>1 DEF AtEnd
  <2>3. ReadSize' = ReadSize
    BY <1>3, <2>1, <2>2 DEF ReadSize, Bit
  <2>4. Ev' = Ev
    BY <1>2, <1>3, <2>1 DEF Ev, CallEvents
  <2> QED
    BY <2>1, <2>3, <2>4 DEF Total
<1>5. PICK k : k = Called + 1
  OBVIOUS
<1>6. PICK t : t = Total
  OBVIOUS
<1>7. /\ k \in 1..t /\ Len(Got) = k - 1
      /\ k = 1 => clocked = 0
      /\ k > 1 => clocked = k
      /\ Len(wire) - from = clocked
  BY <1>5, <1>6, NextByte
<1>8. /\ t \in Nat /\ Ev \in Seq(Events) /\ Len(Ev) = t + 1 /\ Ev[t + 1] = STOP
      /\ \A i \in 1..t : Ev[i] = Read(Dev(i), i # t)
  BY <1>1, <1>6, EvOfRead
<1>9. /\ wire' = Append(IF k = 1 THEN Append(wire, Read(Dev(1), 1 # t)) ELSE wire,
                        IF k = t THEN STOP ELSE Read(Dev(k + 1), k + 1 # t))
      /\ owned' <=> k # t
      /\ k # t => clocked' = k + 1 /\ i2dat' = Dev(k + 1) /\ (lastrd' <=> k = t - 1)
      /\ Take(Head(todo).last, Dev(k))
  BY <1>5, <1>6, ByteTaken
<1>10. Ev[k + 1] = IF k = t THEN STOP ELSE Read(Dev(k + 1), k + 1 # t)
  <2>1. k # t => k + 1 \in 1..t
    BY <1>7, <1>8
  <2> QED
    BY <1>8, <2>1
<1>11. Ev[1] = Read(Dev(1), 1 # t)
  <2>1. 1 \in 1..t
    BY <1>7, <1>8
  <2> QED
    BY <1>8, <2>1
<1>12. wire' = Append(IF k = 1 THEN Append(wire, Ev[1]) ELSE wire, Ev[k + 1])
  BY <1>9, <1>10, <1>11
<1>13. Len(wire) - from = IF k = 1 THEN 0 ELSE k
  BY <1>7, <1>8
<1>14. /\ Shown(from)' /\ wire' \in Seq(Events) /\ Len(wire') - from = k + 1
       /\ Len(wire) <= Len(wire') /\ \A i \in 1..Len(wire) : wire'[i] = wire[i]
       /\ wire' # << >> /\ wire'[Len(wire')] = Ev[k + 1]
  BY <1>1, <1>4, <1>7, <1>8, <1>12, <1>13, ReadShown
<1>15. Owning'
  <2>1. Ev[k + 1] # STOP <=> k # t
    BY <1>10, EventKinds
  <2> QED
    BY <1>9, <1>14, <2>1 DEF Owning
<1>16. Len(todo') = Len(todo) - 1 /\ \A i \in 1..Len(todo') : todo'[i] = todo[i + 1]
  BY <1>1, <1>2, Shorter
<1>17. Len(todo) \in Nat /\ ReadSize \in Nat
  BY <1>1, ReadBound
<1>18. Called' = k
  <2>1. Called = off + (ReadSize - Len(todo)) /\ Called' = off + (ReadSize - Len(todo'))
    BY <1>3, <1>4 DEF Called
  <2> QED
    BY <1>1, <1>5, <1>16, <1>17, <2>1
<1>19. \A i \in 1..Len(todo') : todo'[i] = Nth(k + i)
  <2>1. \A i \in 1..Len(todo) : todo[i] = Nth(Called + i)
    BY DEF ReadsOn
  <2>2. ASSUME NEW i \in 1..Len(todo') PROVE todo'[i] = Nth(k + i)
    <3>1. i + 1 \in 1..Len(todo) /\ Called + (i + 1) = k + i
      <4>1. Called = k - 1 /\ k \in Nat
        <5>1. Called = off + (ReadSize - Len(todo))
          BY DEF Called
        <5> QED
          BY <1>1, <1>5, <1>7, <1>17, <5>1
      <4> QED
        BY <1>16, <1>17, <4>1
    <3> QED
      BY <1>16, <2>1, <3>1
  <2> QED
    BY <2>2
<1>20. \A i \in 1..Len(todo') : todo'[i] = Nth(Called + i)'
  BY <1>4, <1>18, <1>19 DEF Nth
<1>21. \A i \in 1..Len(Got') : Got'[i] = Dev(i)
  <2>1. \A i \in 1..Len(Got) : Got[i] = Dev(i)
    BY DEF ReadsOn
  <2>2. Dev(k) \in WireBytes /\ Len(Got) + 1 = k
    BY <1>7, <1>8, Primitives
  <2> QED
    BY <1>1, <1>2, <1>3, <1>9, <2>1, <2>2, GotMore
<1>22. \E x \in Nat : off' = x * Chunk
  BY <1>3 DEF ReadsOn
<1>23. Len(wire') - from = IF k = t THEN t + 1 ELSE clocked'
  BY <1>9, <1>14
<1>24. k # 0 /\ (k < t => k # t)
  BY <1>7, <1>8
<1>25. ReadsOn(from)'
  <2>1. (Called = 0 => clocked = 0 /\ ~lastrd)'
    BY <1>18, <1>24
  <2>2. (0 < Called /\ Called < Total =>
          /\ clocked = Called + 1 /\ i2dat = Dev(Called + 1)
          /\ lastrd <=> Called = Total - 1)'
    BY <1>4, <1>6, <1>9, <1>18, <1>24
  <2>3. (Len(wire) - from = IF Called = Total THEN Total + 1 ELSE clocked)'
    BY <1>4, <1>6, <1>18, <1>23
  <2> QED
    BY <1>20, <1>21, <1>22, <2>1, <2>2, <2>3 DEF ReadsOn
<1> QED
  BY <1>14, <1>15, <1>25

LEMMA HealthyPrimitive ==
  ASSUME OneTransaction, ReadsLast, HInv, Primitive
  PROVE  Healthy' /\ HealthyIsTransaction'
<1>1. /\ RInv /\ AInv /\ Types /\ Place /\ RTypes /\ WireTypes /\ Steady
      /\ wire \in Seq(Events) /\ Len(wire) \in Nat /\ todo \in Seq(Ops) /\ todo # << >>
  BY Kept DEF HInv, RInv, AInv, RTypes, WireTypes, Types
<1>2. busy /\ UNCHANGED <<pc, script, off, ret, pec_enabled, done>>
  BY <1>1 DEF Steady, Primitive, Starts, StartFails, Restarts, OutAcked, OutFails, Stops,
              InRead, InTimesOut, At, hostVars
<1>3. CASE pc # "waits"
  <2>1. pc = "idle" /\ ret < 0 /\ ret \in Int
    BY <1>1, <1>2, <1>3 DEF RInv, Types
  <2>2. ~(ret >= 0)
    BY <2>1
  <2>3. ~Succeeded'
    BY <1>2, <2>2 DEF Succeeded
  <2> QED
    BY <1>2, <2>1, <2>3 DEF Healthy, HealthyIsTransaction
<1>4. CASE pc = "waits" /\ (faulty' \/ ~LastAnnounced(done))
  BY <1>2, <1>4 DEF Healthy, HealthyIsTransaction, LastAnnounced
<1>5. CASE pc = "waits" /\ ~faulty' /\ LastAnnounced(done)
  <2>1. ~faulty /\ todo' = Tail(todo) /\ stall' = stall /\ pc # "idle"
    BY <1>1, <1>5, WellDone
  <2>2. Owning /\ ~stall
    BY <1>5, <2>1 DEF HInv, Healthy
  <2>3. PICK ends \in [1..Before -> 0..Len(wire)] :
          Follow(wire, done, Before, ends) /\ Going(EndOf(ends, Before))
    BY <1>5, <2>1 DEF HInv, Healthy
  <2>4. PICK from : from = EndOf(ends, Before)
    OBVIOUS
  <2>5. /\ Shown(from)
        /\ Call.fn = "write" => WritesOn(from)
        /\ Call.fn = "read" => ReadsOn(from)
    BY <2>3, <2>4 DEF Going
  <2>6. Call.fn \in {"write", "read"} /\ Before \in Nat
    BY <1>1, <2>1, Transfer, CallTypes, CallKeeps DEF Types
  <2>7. /\ Call' = Call /\ Size' = Size /\ (Final' <=> Final) /\ Before' = Before /\ Ev' = Ev
    <3>1. Call' = Call /\ Size' = Size /\ (Final' <=> Final) /\ Pecs' = Pecs
      BY <1>1, <1>2, SteadyCall DEF Pecs
    <3> QED
      BY <1>2, <3>1 DEF Before, Ev, CallEvents
  <2>8. /\ Shown(from)' /\ Owning' /\ wire' \in Seq(Events)
        /\ Len(wire) <= Len(wire') /\ \A i \in 1..Len(wire) : wire'[i] = wire[i]
        /\ Call.fn = "write" => WritesOn(from)'
        /\ Call.fn = "read" => ReadsOn(from)'
    <3>1. CASE Call.fn = "write"
      <4> DEFINE e == Ev[Len(wire) - from + 1]
      <4>1. /\ Len(wire) - from < Len(Ev) /\ wire' = Append(wire, e)
            /\ owned' <=> e # STOP
            /\ ~lastrd'
        BY <1>1, <1>5, <2>2, <2>3, <2>4, <2>5, <3>1, WriteActs
      <4>2. Ev \in Seq(Events)
        BY <1>1, <2>1, <3>1, EvOfWrite
      <4>3. /\ Shown(from)' /\ wire' \in Seq(Events) /\ Len(wire') = Len(wire) + 1
            /\ \A i \in 1..Len(wire) : wire'[i] = wire[i]
            /\ wire' # << >> /\ wire'[Len(wire')] = e
        BY <1>1, <2>5, <2>7, <4>1, <4>2, ShownMore
      <4> HIDE DEF e
      <4>4. Owning'
        BY <4>1, <4>3 DEF Owning
      <4>5. from \in Nat
        BY <2>5 DEF Shown
      <4>6. WritesOn(from)'
        BY <1>1, <1>2, <1>5, <2>1, <2>5, <2>7, <3>1, <4>1, <4>3, <4>5, WritesFurther
      <4>7. Len(wire) <= Len(wire')
        BY <1>1, <4>3
      <4> QED
        BY <3>1, <4>3, <4>4, <4>6, <4>7
    <3>2. CASE Call.fn = "read"
      <4>1. InRead
        <5>1. Head(todo).op = "in"
          BY <1>1, <1>5, <3>2, Shorter DEF RInv, Reads
        <5> QED
          BY <1>1, <1>5, <5>1, WellDone DEF Starts, Restarts, OutAcked, Stops, At
      <4> QED
        BY <1>1, <1>5, <2>5, <3>2, <4>1, ReadsFurther
    <3> QED
      BY <2>6, <3>1, <3>2
  <2>9. Follow(wire, done, Before, ends)' /\ ends \in [1..Before' -> 0..Len(wire')]
    BY <1>1, <1>2, <2>3, <2>6, <2>7, <2>8, FollowOn
  <2>10. Going(from)'
    BY <2>7, <2>8 DEF Going
  <2>11. EndOf(ends, Before') = from
    BY <2>4, <2>7
  <2>12. Going(EndOf(ends, Before))'
    BY <2>10, <2>11
  <2>13. pc' = "waits" /\ ~stall'
    BY <1>2, <1>5, <2>1, <2>2
  <2> QED
    BY <2>8, <2>9, <2>12, <2>13 DEF Healthy, HealthyIsTransaction, Succeeded
<1> QED
  BY <1>3, <1>4, <1>5

LEMMA HInvStep ==
  ASSUME OneTransaction, ReadsLast, HInv, [Next]_vars
  PROVE  HInv'
<1>1. RInv' /\ RInv
  BY RInvStep DEF HInv
<1> SUFFICES Healthy' /\ HealthyIsTransaction'
  BY <1>1 DEF HInv
<1>2. CASE Begin
  <2>1. Healthy'
    BY <1>1, <1>2, HealthyBegin DEF RInv, AInv
  <2>2. pc' = "ready"
    BY <1>2 DEF Begin
  <2> QED
    BY <2>1, <2>2 DEF HealthyIsTransaction, Succeeded
<1>3. CASE EnablePEC
  <2>1. pc' = "idle" /\ done' = << >>
    BY <1>3 DEF EnablePEC
  <2> QED
    BY <2>1 DEF Healthy, HealthyIsTransaction, Succeeded
<1>4. CASE Request
  <2>1. pc' = "waits"
    BY <1>4 DEF Request
  <2> QED
    BY <1>4, <2>1, HealthyRequest DEF HealthyIsTransaction, Succeeded
<1>5. CASE RequestDone
  BY <1>1, <1>5, HealthyRequestDone
<1>6. CASE HostTimesOut
  BY <1>6 DEF HostTimesOut, Healthy, HealthyIsTransaction
<1>7. CASE OrphanDone
  <2>1. pc = "idle" /\ UNCHANGED <<busVars, hostVars, pec_enabled, faulty>>
    BY <1>1, <1>7 DEF OrphanDone, RInv, AInv, Types, ghosts
  <2>2. pc' = "idle" /\ UNCHANGED <<pc, done, ret, data, wire>>
    BY <2>1 DEF hostVars, busVars
  <2>3. \A c, m : CallEvents(c, m)' = CallEvents(c, m)
    BY <2>1 DEF CallEvents
  <2>4. HealthyIsTransaction'
    BY <2>1, <2>2, <2>3 DEF HInv, HealthyIsTransaction, Succeeded, IsTransaction, Follow,
                               LastAnnounced
  <2> QED
    BY <2>2, <2>4 DEF Healthy
<1>8. CASE Primitive
  BY <1>8, HealthyPrimitive
<1>9. CASE UNCHANGED vars
  <2>1. UNCHANGED <<wire, bytes, owned, i2dat, clocked, lastrd, pc, script, off, data, ret, done,
                    todo, stall, pec_enabled, ep0buf, faulty>>
    BY <1>9 DEF vars, busVars, hostVars, fwVars, ghosts
  <2>2. \A c, m : CallEvents(c, m)' = CallEvents(c, m)
    BY <2>1 DEF CallEvents
  <2>3. HealthyIsTransaction'
    BY <2>1, <2>2 DEF HInv, HealthyIsTransaction, Succeeded, IsTransaction, Follow,
                               LastAnnounced
  <2>4. /\ Call' = Call /\ Size' = Size /\ (Final' <=> Final) /\ (AtEnd' <=> AtEnd)
        /\ Before' = Before /\ Pecs' = Pecs /\ Got' = Got
    BY <2>1 DEF Call, Size, AtEnd, Final, Before, Pecs, Got
  <2>5. Total' = Total /\ ReadSize' = ReadSize /\ Ev' = Ev /\ Leads(Call)' = Leads(Call)
    BY <2>1, <2>2, <2>4 DEF Total, ReadSize, Bit, Ev, Leads
  <2>6. Called' = Called
    BY <2>1, <2>5 DEF Called
  <2>7. \A from : Shown(from)' <=> Shown(from)
    BY <2>1, <2>5 DEF Shown
  <2>8. \A from : WritesOn(from)' <=> WritesOn(from)
    BY <2>1, <2>4, <2>5 DEF WritesOn
  <2>9. \A from : ReadsOn(from)' <=> ReadsOn(from)
    <3>1. \A n : Nth(n)' = Nth(n)
      BY <2>5 DEF Nth
    <3> QED
      BY <2>1, <2>4, <2>5, <2>6, <3>1 DEF ReadsOn
  <2>10. \A from : Going(from)' <=> Going(from)
    BY <2>4, <2>7, <2>8, <2>9 DEF Going
  <2>11. Healthy'
    <3> SUFFICES ASSUME (~faulty /\ LastAnnounced(done) /\ pc # "idle")'
                 PROVE  /\ Owning' /\ (pc = "waits" => ~stall)'
                        /\ (\E ends \in [1..Before -> 0..Len(wire)] :
                              Follow(wire, done, Before, ends) /\ Going(EndOf(ends, Before)))'
      BY DEF Healthy
    <3>0. LastAnnounced(done)
      BY <2>1 DEF LastAnnounced
    <3>1. /\ Owning /\ (pc = "waits" => ~stall)
      BY <2>1, <3>0 DEF HInv, Healthy
    <3>2. PICK ends \in [1..Before -> 0..Len(wire)] :
            Follow(wire, done, Before, ends) /\ Going(EndOf(ends, Before))
      BY <2>1, <3>0 DEF HInv, Healthy
    <3>3. Owning' /\ (pc = "waits" => ~stall)'
      BY <2>1, <3>1 DEF Owning
    <3>4. Follow(wire, done, Before, ends)' /\ ends \in [1..Before' -> 0..Len(wire')]
      BY <2>1, <2>2, <2>4, <3>2 DEF Follow
    <3>5. EndOf(ends, Before') = EndOf(ends, Before)
      BY <2>4
    <3>6. Going(EndOf(ends, Before))'
      BY <2>10, <3>2, <3>5
    <3> QED
      BY <3>3, <3>4, <3>6
  <2> QED
    BY <2>3, <2>11
<1> QED
  BY <1>2, <1>3, <1>4, <1>5, <1>6, <1>7, <1>8, <1>9 DEF Next

\* With nothing going wrong, a transaction that succeeds has shown on the bus what its
\* calls describe, as if they had been one: nothing lost or doubled where a transfer or
\* a call ends and the next begins, one STOP, the last byte refused and the bytes of
\* the device in order; with PEC on or off, at any size of a transfer. For every
\* application that begins, goes on and ends once, and reads last and in one call.
THEOREM HealthyTransaction ==
  ASSUME ReadsLast, OneTransaction
  PROVE  Spec => []HealthyIsTransaction
<1>1. Init => HInv
  <2>1. ASSUME Init PROVE HInv
    <3>1. RInv
      BY <2>1, RInvInit
    <3>2. pc = "idle" /\ done = << >>
      BY <2>1 DEF Init
    <3> QED
      BY <3>1, <3>2 DEF HInv, Healthy, HealthyIsTransaction, Succeeded
  <2> QED
    BY <2>1
<1>2. HInv /\ [Next]_vars => HInv'
  BY HInvStep
<1>3. HInv => HealthyIsTransaction
  BY DEF HInv
<1> QED
  BY <1>1, <1>2, <1>3, PTL DEF Spec
=============================================================================
