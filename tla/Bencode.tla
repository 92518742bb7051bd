------------------------------ MODULE Bencode ------------------------------
(***************************************************************************)
(* The codec of the files the tracker keeps (bencode.cpp) and the lengths  *)
(* it asks of the values it has decoded (EncodedLength of atom.cpp).       *)
(*                                                                         *)
(* A text is a sequence of characters; the digits are those of Digit, any  *)
(* other character stands for itself.  A value is what a CAtom holds: a    *)
(* number, a string, a list or a dictionary, the latter as the sequence of *)
(* its items.  Nothing is the null pointer.  Numbers are natural and fit   *)
(* the types of the code; nothing the tracker writes is negative.          *)
(*                                                                         *)
(* The encoders take the texts of the parts, in the order of the keys.     *)
(* The decoder is one recursive function of the place in the text where a  *)
(* value, or the rest of a list or a dictionary, begins.                   *)
(***************************************************************************)
EXTENDS Integers, Sequences, SequencesExt

Digit == <<"0", "1", "2", "3", "4", "5", "6", "7", "8", "9">>

IsDigit(c) == \E n \in 1..10 : Digit[n] = c

\* sprintf.
Decimal[n \in Nat] ==
  IF n < 10 THEN <<Digit[n + 1]>>
            ELSE Append(Decimal[n \div 10], Digit[(n % 10) + 1])

FirstAt(x, start, Test(_)) ==
  IF \E n \in start..Len(x) : Test(x[n])
  THEN CHOOSE n \in start..Len(x) : Test(x[n]) /\ \A m \in start..(n - 1) : ~Test(x[m])
  ELSE 0

\* atoi and sscanf read the digits a text begins with.  Without one sscanf
\* stores nothing in a variable that has not been set: it holds some number.
Number(s) ==
  LET end == FirstAt(s, 1, LAMBDA c : ~IsDigit(c))
      digits == IF end = 0 THEN s ELSE SubSeq(s, 1, end - 1)
  IN  IF digits = <<>> THEN CHOOSE n \in Nat : TRUE
      ELSE FoldLeft(LAMBDA n, c : 10 * n + (CHOOSE k \in 0..9 : Digit[k + 1] = c), 0, digits)

---------------------------------------------------------------------------

EncodeLong(n) == <<"i">> \o Decimal[n] \o <<"e">>

EncodeString(s) == Decimal[Len(s)] \o <<":">> \o s

EncodeList(texts) == <<"l">> \o FlattenSeq(texts) \o <<"e">>

\* items: pairs of a key and the text of its value.
EncodeDicti(items) ==
  <<"d">> \o FlattenSeq([k \in DOMAIN items |-> EncodeString(items[k][1]) \o items[k][2]])
          \o <<"e">>

---------------------------------------------------------------------------
(***************************************************************************)
(* Decoding yields a value and the length of its encoding, by which the    *)
(* decoder moves on.  That length is computed from the value: a string     *)
(* that the end of the text cuts short has fewer characters than announced *)
(* and perhaps fewer digits, and then the decoder goes on inside of it.    *)
(***************************************************************************)

Nothing == [kind |-> "null"]

Parsed(kind, value, length) == [kind |-> kind, value |-> value, length |-> length]

DecodeLong(x, start) ==
  LET end == FirstAt(x, start, LAMBDA c : c = "e")
      n == Number(SubSeq(x, start + 1, end - 1))
  IN  IF end = 0 THEN Nothing ELSE Parsed("long", n, Len(Decimal[n]) + 2)

\* substr takes what there is: a string may be shorter than announced.
DecodeString(x, start) ==
  LET split == FirstAt(x, start, LAMBDA c : ~IsDigit(c))
      announced == Number(SubSeq(x, start, split - 1))
      end == IF split + announced > Len(x) THEN Len(x) ELSE split + announced
      s == SubSeq(x, split + 1, end)
  IN  IF split = 0 THEN Nothing
      ELSE Parsed("string", s, Len(Decimal[Len(s)]) + 1 + Len(s))

\* The decoder is a function of what is to be decoded and where; rest is that
\* function in what follows.  DecodeList and DecodeDicti are their loops from i
\* on.  They end with an "e" or with the text; an item that cannot be decoded
\* takes the list or dictionary it is in with it.
DecodeList(x, rest, i) ==
  LET first == rest[<<"value", i>>]
      more == rest[<<"list", i + first.length>>]
  IN  IF i > Len(x) \/ x[i] = "e" THEN Parsed("list", <<>>, 2)
      ELSE IF first = Nothing \/ more = Nothing THEN Nothing
      ELSE Parsed("list", <<first>> \o more.value, first.length + more.length)

\* A key at the very end of the text, without a value, is left out; of two
\* items with one key the later one stays (setItem).
DecodeDicti(x, rest, i) ==
  LET key == rest[<<"value", i>>]
      after == i + key.length
      value == rest[<<"value", after>>]
      more == rest[<<"dicti", after + value.length>>]
  IN  IF i > Len(x) \/ x[i] = "e" THEN Parsed("dicti", <<>>, 2)
      ELSE IF key.kind # "string" THEN Nothing
      ELSE IF after > Len(x) THEN Parsed("dicti", <<>>, 2)
      ELSE IF value = Nothing \/ more = Nothing THEN Nothing
      ELSE IF \E k \in DOMAIN more.value : more.value[k][1] = key.value THEN more
      ELSE Parsed("dicti", <<<<key.value, value>>>> \o more.value,
                  key.length + value.length + more.length)

Decode(x, rest, i) ==
  IF i > Len(x) THEN Nothing
  ELSE CASE x[i] = "i"     -> DecodeLong(x, i)
         [] IsDigit(x[i])  -> DecodeString(x, i)
         [] x[i] = "l"     -> rest[<<"list", i + 1>>]
         [] x[i] = "d"     -> rest[<<"dicti", i + 1>>]
         [] OTHER          -> Nothing

Place == {"value", "list", "dicti"} \X (Nat \ {0})

DecodeAt(x, rest, place) ==
  CASE place[1] = "value" -> Decode(x, rest, place[2])
    [] place[1] = "list"  -> DecodeList(x, rest, place[2])
    [] place[1] = "dicti" -> DecodeDicti(x, rest, place[2])

Decoder(x) == LET rest[place \in Place] == DecodeAt(x, rest, place) IN rest

Decoded(x) == Decoder(x)[<<"value", 1>>]

\* CAtomDicti::getItem.
GetItem(dicti, key) ==
  IF \E k \in DOMAIN dicti.value : dicti.value[k][1] = key
  THEN LET k == CHOOSE k \in DOMAIN dicti.value : dicti.value[k][1] = key
       IN  dicti.value[k][2]
  ELSE Nothing

\* What DecodeFile makes of a file that holds the first n characters.
DecodeCut(text, n) == Decoded(SubSeq(text, 1, n))
=============================================================================
