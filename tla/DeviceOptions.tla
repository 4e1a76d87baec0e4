--------------------------- MODULE DeviceOptions ---------------------------
(***************************************************************************)
(* From the text behind "fx2lp://" to the board that is opened:            *)
(* OptDictProcess and GetNumBase (lib/smbusb.c) and FX2LP_Open             *)
(* (lib/smbusb-fx2lp.c), as operators. A text is a sequence of symbols;    *)
(* a keyword of the driver is one symbol, all others are characters.       *)
(***************************************************************************)
EXTENDS Integers, Sequences, SequencesExt

NUL == "\\0"
NoText == << >>

-----------------------------------------------------------------------------
(* strtok_r                                                                *)

\* Where the tokens of s begin and end: the longest pieces without d.
Tokens(s, d) ==
  {r \in (1..Len(s)) \X (1..Len(s)) :
     /\ r[1] <= r[2]
     /\ \A i \in r[1]..r[2] : s[i] # d
     /\ r[1] = 1 \/ s[r[1] - 1] = d
     /\ r[2] = Len(s) \/ s[r[2] + 1] = d}

InOrder(S) == SetToSortSeq(S, LAMBDA a, b : a[1] < b[1])

\* The string that begins at i.
CString(s, i) ==
  LET ends == {j \in i..Len(s) : s[j] = NUL}
  IN  SubSeq(s, i, IF ends = {} THEN Len(s) ELSE Min(ends) - 1)

-----------------------------------------------------------------------------
(* OptDictProcess                                                          *)

\* What the inner loop leaves of a token: a NUL behind each subtoken, but
\* the '=' in front of the third and those after it put back.
Restored(sub, i) == \E k \in 3..Len(sub) : sub[k][1] - 1 = i

Cut(t, sub) ==
  [i \in 1..Len(t) |->
     IF Restored(sub, i) THEN "="
     ELSE IF \E k \in 1..Len(sub) : sub[k][2] + 1 = i THEN NUL ELSE t[i]]

OptDictItem(t) ==
  LET sub == InOrder(Tokens(t, "="))
      mem == Cut(t, sub)
  IN  [key |-> IF Len(sub) < 1 THEN NoText ELSE CString(mem, sub[1][1]),
       val |-> IF Len(sub) < 2 THEN NoText ELSE CString(mem, sub[2][1])]

OptDictProcess(text) ==
  LET items == InOrder(Tokens(text, ","))
  IN  [i \in 1..Len(items) |->
         OptDictItem(SubSeq(text, items[i][1], items[i][2]))]

-----------------------------------------------------------------------------
(* Numbers                                                                 *)

Digit == [c \in {"0", "1", "2", "3", "4", "8", "b", "f"} |->
            CASE c = "0" -> 0 [] c = "1" -> 1 [] c = "2" -> 2 [] c = "3" -> 3
              [] c = "4" -> 4 [] c = "8" -> 8 [] c = "b" -> 11 [] c = "f" -> 15]

IsDigit(c, base) == c \in DOMAIN Digit /\ Digit[c] < base

\* The digits s begins with.
Leading(s, base) ==
  LET stops == {i \in 1..Len(s) : ~IsDigit(s[i], base)}
  IN  IF stops = {} THEN s ELSE SubSeq(s, 1, Min(stops) - 1)

ValueOf(digits, base) == FoldLeft(LAMBDA v, c : v * base + Digit[c], 0, digits)

\* strtoul(s, NULL, base), which takes a "0x" for what it is in base 16 only.
strtoul(s, base) ==
  IF base = 16 /\ Len(s) > 2 /\ s[1] = "0" /\ s[2] = "x" /\ IsDigit(s[3], 16)
    THEN ValueOf(Leading(SubSeq(s, 3, Len(s)), 16), 16)
    ELSE ValueOf(Leading(s, base), base)

\* The first character is compared with 0, which no character of s is.
GetNumBase(s) ==
  LET len == Len(s)
      Zero == s[1] = NUL
  IN  CASE len = 0 -> 10
        [] len >= 3 /\ Zero /\ s[2] = "x" -> 16
        [] len >= 3 /\ Zero /\ s[2] = "b" -> 2
        [] len >= 2 /\ Zero /\ s[len] # "h" -> 8
        [] len >= 2 /\ s[len] = "h" -> 16
        [] OTHER -> 10

-----------------------------------------------------------------------------
(* FX2LP_Open, up to the call of its open routine                          *)

NotGiven == -1          \* (unsigned int)-1
Refused == [how |-> "refused", arg0 |-> NotGiven, arg1 |-> NotGiven]

Pair == [vid |-> "vidpid", pid |-> "vidpid", bus |-> "busaddr", addr |-> "busaddr"]
Keys == DOMAIN Pair

\* One turn of the loop over the options. An incomplete one ends it.
Option(a, item) ==
  IF a.how = "refused" \/ a.ended THEN a
  ELSE IF NoText \in {item.key, item.val} THEN [a EXCEPT !.ended = TRUE]
  ELSE LET key == item.key[1]
           num == strtoul(item.val, GetNumBase(item.val))
       IN  IF Len(item.key) # 1 \/ key \notin Keys
              \/ a.how \notin {"none", Pair[key]}
             THEN [a EXCEPT !.how = "refused"]
             ELSE IF key \in {"vid", "bus"}
                    THEN [a EXCEPT !.how = Pair[key], !.arg0 = num]
                    ELSE [a EXCEPT !.how = Pair[key], !.arg1 = num]

Omitted_Unchecked(a) == FALSE
Omitted(a) == NotGiven \in {a.arg0, a.arg1}

FX2LP_OpenArgs(text) ==
  LET opts == OptDictProcess(text)
      a == FoldLeft(Option, [how |-> "none", arg0 |-> NotGiven,
                             arg1 |-> NotGiven, ended |-> FALSE], opts)
  IN  IF Len(opts) # 2 \/ a.how \in {"none", "refused"} \/ Omitted(a)
        THEN Refused
        ELSE [how |-> a.how, arg0 |-> a.arg0, arg1 |-> a.arg1]

-----------------------------------------------------------------------------
(* What a text means, for a reader of lib/README.md and of the comments in *)
(* GetNumBase: options between commas, "0x", "0b", "0" and "h".            *)

Meaning(s) ==
  CASE Len(s) > 2 /\ s[1] = "0" /\ s[2] = "x" -> ValueOf(SubSeq(s, 3, Len(s)), 16)
    [] Len(s) > 2 /\ s[1] = "0" /\ s[2] = "b" -> ValueOf(SubSeq(s, 3, Len(s)), 2)
    [] Len(s) > 1 /\ Last(s) = "h" -> ValueOf(Front(s), 16)
    [] Len(s) > 1 /\ s[1] = "0"    -> ValueOf(s, 8)
    [] OTHER                       -> ValueOf(s, 10)

\* The pieces of text.
Given(text) == {SubSeq(text, r[1], r[2]) : r \in Tokens(text, ",")}

\* What a text that is two options, each with its number, asks for.
Asked(text, numerals) ==
  LET Written(key, n) == <<key, "=">> \o n
      meant == {p \in {<<"vid", "pid">>, <<"bus", "addr">>} \X (numerals \X numerals) :
                  /\ Cardinality(Tokens(text, ",")) = 2
                  /\ Given(text) = {Written(p[1][1], p[2][1]), Written(p[1][2], p[2][2])}}
  IN  {[how |-> Pair[p[1][1]], arg0 |-> Meaning(p[2][1]), arg1 |-> Meaning(p[2][2])] :
         p \in meant}

\* text names a vid and a pid, or a bus and an address, and nothing else.
NamesPair(text, how) ==
  /\ Cardinality(Tokens(text, ",")) = 2
  /\ LET words == {SelectSeq(t, LAMBDA c : c # "=") : t \in Given(text)}
     IN  {Head(w) : w \in words \ {NoText}} = {k \in Keys : Pair[k] = how}
=============================================================================
