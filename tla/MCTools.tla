------------------------------ MODULE MCTools ------------------------------
(***************************************************************************)
(* Instances of Tools. Bytes are two digits of base 4. The device at 6     *)
(* takes as many bytes as there are answers to a probe; commands 2 and 3   *)
(* are strings, the second one shorter, and 4 is the manufacturer's data.  *)
(***************************************************************************)
EXTENDS Tools

MCByte == 0..15

MCFixed == [c \in MCByte |-> CASE c = 2 -> <<1, 2, 3>> [] c = 3 -> <<5>>
                              [] c = 4 -> <<1, 1, 2>> [] OTHER -> << >>]

MCDevice(n) ==
  [c \in MCByte |-> CASE c = 1 -> n [] c \in 2..4 -> c - 1 [] c = 5 -> 4
                      [] c = 7 -> 5 [] c = 8 -> 6 [] OTHER -> 0]

MCDevices == {MCDevice(3), MCDevice(6)}

MCNames == <<2, 3>>

\* An address at which nothing answers, and the board's own EEPROM.
Nobody == 4
Eeprom == 8

-----------------------------------------------------------------------------
(* URIs                                                                    *)

MCBoard == {[how |-> "vidpid", arg0 |-> 4, arg1 |-> 8],
            [how |-> "busaddr", arg0 |-> 1, arg1 |-> 2]}

\* Numbers with no prefix, and with.
PlainNumerals == {<<"4">>, <<"8">>, <<"1", "4">>, <<"1", "f", "h">>}
AllNumerals == PlainNumerals \cup {<<"0", "x", "4">>, <<"0", "x", "8">>}

VidPid == <<"vid", "=", "4", ",", "pid", "=", "8">>
DefaultText == <<"vid", "=", "0", "x", "4", ",", "pid", "=", "0", "x", "8">>

\* An option in all the ways to write one, well or not.
Items ==
  {<<key, "=">> \o n : key \in {"vid", "pid"}, n \in PlainNumerals}
    \cup {<<key, "=", "8">> : key \in {"bus", "addr"}}
    \cup {<< >>, <<"=">>, <<"vid">>, <<"vid", "=">>, <<"=", "vid">>,
          <<"x", "=", "1">>, <<"vid", "=", "=", "1">>, <<"vid", "=", "1", "=", "2">>,
          <<"pid", "=", "1", "=", "=", "2">>, <<"vid", "pid", "=", "1">>}

Texts ==
  {a : a \in Items} \cup {a \o <<",">> \o b : a, b \in Items}
    \cup {a \o <<",">> \o b \o <<",">> \o c :
            a \in {<< >>, <<"vid", "=", "4">>, <<"bus", "=", "1">>}, b, c \in Items}

-----------------------------------------------------------------------------
(* Command lines                                                           *)

Opt(name) == <<[opt |-> name]>>
OptArg(name, arg) == <<[opt |-> name, arg |-> arg]>>

Address == OptArg("address", Dev)
Command == OptArg("command", Reg)

\* Data of one, two and three bytes, with and without "0x", and none.
Typed == {<<1, 2>>, <<1, 2, 3, 0>>, <<0, X, 3, 1, 0, 2>>, <<3, 1, 2, 0, 1, 3>>,
          <<3, 1, 2, 0, 1, 3, 0, 1>>,
          <<1>>, <<1, X>>, <<0, X>>}

Operations ==
  {OptArg("read", n) : n \in 0..3} \cup {Opt("null-write"), << >>}
    \cup {OptArg("write", d) : d \in Typed}
    \cup {OptArg("write", <<1, 2>>) \o Opt("block-write"),
          OptArg("write", <<1, 2>>) \o OptArg("read", 1),
          OptArg("read", 1) \o OptArg("write", << >>)}

CommLines ==
  {Address \o Command \o op \o p : op \in Operations, p \in {<< >>, Opt("no-pec")}}
    \cup {<< >>, Opt("?"), Address \o OptArg("read", 1), Command \o OptArg("read", 1),
          Command \o OptArg("write", <<1, 2>>),
          OptArg("address", Nobody) \o Command \o OptArg("write", <<1, 2>>),
          OptArg("address", Eeprom) \o Command \o OptArg("write", <<1, 2>>)}

\* Skip lists: none, one that spares the device's write address and some of
\* its commands, one with an empty piece.
Skips == {<< >>, OptArg("skip", <<<<6>>, <<2>>>>), OptArg("skip", <<<< >>, <<7>>>>)}

ScanLines ==
  {Opt("address") \o s \o r : s \in Skips,
     r \in {<< >>, OptArg("begin", 5) \o OptArg("end", 9)}}
    \cup {OptArg(m, Dev) \o s \o r : m \in {"command", "command-write"}, s \in Skips,
            r \in {OptArg("end", 5), OptArg("begin", 7) \o OptArg("end", 8),
                   OptArg("begin", 3) \o OptArg("end", 2)}}
    \cup {OptArg("command", Nobody) \o OptArg("end", 2),
          OptArg("command-write", Nobody) \o OptArg("end", 2),
          OptArg("command-write", Eeprom) \o OptArg("end", 2),
          << >>, Opt("?"), OptArg("end", 2)}

Lines(t, scheme, text, a) ==
  {[tool |-> t, scheme |-> scheme, text |-> text, args |-> x] : x \in a}

UsualLines ==
  UNION {Lines("comm", s, VidPid, CommLines) \cup Lines("scan", s, VidPid, ScanLines)
           \cup Lines("sbsreport", s, VidPid, {<< >>}) : s \in {"fx2lp", "i2cdev"}}

WithText(scheme, texts) ==
  {[tool |-> "sbsreport", scheme |-> scheme, text |-> t, args |-> << >>] : t \in texts}

\* URIs need no history before them.
UriLines ==
  WithText("fx2lp", Texts) \cup WithText("i2c", {<< >>}) \cup WithText("other", {VidPid})

\* What comes second depends on what the first left: the register, its PEC.
SecondLines ==
  {x \in UsualLines : x.tool # "scan" /\ x.args # << >>} \cup
  UNION {Lines("scan", s, VidPid, {OptArg("command-write", Dev) \o OptArg("end", 2)})
           : s \in {"fx2lp", "i2cdev"}}

MCCommandLines == <<UsualLines \cup UriLines, SecondLines>>

ASSUME TextsAssumption == NamesAreTexts

\* The example of the README, which is the default of every tool.
DefaultLines == <<Lines("sbsreport", "fx2lp", DefaultText, {<< >>})>>
=============================================================================
