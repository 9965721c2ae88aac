------------------------------- MODULE Printf --------------------------------
(***************************************************************************)
(* The formatter of the runtime's stdio.c.  A string is the sequence of    *)
(* its characters, its terminator left out; what is printed is what goes   *)
(* to uart_putc.  An argument is a word, and the specifier says how it is  *)
(* read.                                                                   *)
(***************************************************************************)
EXTENDS Integers, SequencesExt

CONSTANTS
  WordMod,     \* the values of an unsigned int
  Char,        \* the characters of a string, without the terminator
  Text         \* the strings in memory, by their address

ASSUME WordAssumption == WordMod \in Nat \ {0} /\ WordMod % 2 = 0

Unsigned == 0 .. WordMod - 1

\* The int that a word holds.
AsInt(w) == IF 2 * w >= WordMod THEN w - WordMod ELSE w

NUL == "NUL"               \* the terminator

NullText == <<"(", "n", "u", "l", "l", ")">>

Digit == <<"0", "1", "2", "3", "4", "5", "6", "7", "8", "9",
           "a", "b", "c", "d", "e", "f">>

ASSUME TextAssumption ==
  /\ NUL \notin Char /\ {"%", "-"} \cup Range(Digit) \cup Range(NullText) \subseteq Char
  /\ \A w \in Unsigned \ {0} : Text[w] \in Seq(Char)

-----------------------------------------------------------------------------
\* emit_dec_unsigned and emit_hex_lower: the number's front part, then its last digit.
Numeral(base, v) ==
  LET Emit[n \in Unsigned] ==
        Append(IF n >= base THEN Emit[n \div base] ELSE <<>>, Digit[(n % base) + 1])
  IN  Emit[v]

\* Mutant of SignedNumeral: the absolute value is an int.
SignedNumeralInt(v) ==
  IF v < 0 THEN <<"-">> \o Numeral(10, (-v) % (WordMod \div 2)) ELSE Numeral(10, v)

\* emit_dec_signed; the absolute value is taken as an unsigned int.
SignedNumeral(v) ==
  IF v < 0 THEN <<"-">> \o Numeral(10, (-v) % WordMod) ELSE Numeral(10, v)

\* The specifiers that take an argument.  Sixteen characters stand for all.
Takes == {"c", "d", "u", "x", "s"}

Conversion(spec, w) ==
  CASE spec = "c" -> <<Digit[(w % 16) + 1]>>
    [] spec = "d" -> SignedNumeral(AsInt(w))
    [] spec = "u" -> Numeral(10, w)
    [] spec = "x" -> Numeral(16, w)
    [] spec = "s" -> IF w = 0 THEN NullText ELSE Text[w]

\* The character that fmt + i - 1 points at.
At(fmt, i) == IF i <= Len(fmt) THEN fmt[i] ELSE NUL

-----------------------------------------------------------------------------
\* The places of the two cursors: the character in fmt and the next argument.
Cursors == (Nat \ {0}) \X (Nat \ {0})

\* Mutant of Printed: an unknown specifier takes an argument.
PrintedTakesAlways(fmt, args) ==
  LET Walk[p \in Cursors] ==
        LET i == p[1]  a == p[2]  spec == At(fmt, i + 1) IN
        CASE At(fmt, i) = NUL -> <<>>
          [] At(fmt, i) \notin {NUL, "%"} -> <<At(fmt, i)>> \o Walk[<<i + 1, a>>]
          [] At(fmt, i) = "%" /\ spec = NUL -> <<>>
          [] At(fmt, i) = "%" /\ spec = "%" -> <<"%">> \o Walk[<<i + 2, a>>]
          [] At(fmt, i) = "%" /\ spec \in Takes ->
               (IF a <= Len(args) THEN Conversion(spec, args[a]) ELSE <<NUL>>)
                 \o Walk[<<i + 2, a + 1>>]
          [] OTHER -> <<"%", spec>> \o Walk[<<i + 2, a + 1>>]
  IN  Walk[<<1, 1>>]

\* printf: fmt is at its i-th character and the next argument is the a-th.  A
\* trailing '%' ends the call; an unknown specifier is printed as it stands.
Printed(fmt, args) ==
  LET Walk[p \in Cursors] ==
        LET i == p[1]  a == p[2]  spec == At(fmt, i + 1) IN
        CASE At(fmt, i) = NUL -> <<>>
          [] At(fmt, i) \notin {NUL, "%"} -> <<At(fmt, i)>> \o Walk[<<i + 1, a>>]
          [] At(fmt, i) = "%" /\ spec = NUL -> <<>>
          [] At(fmt, i) = "%" /\ spec = "%" -> <<"%">> \o Walk[<<i + 2, a>>]
          [] At(fmt, i) = "%" /\ spec \in Takes ->
               Conversion(spec, args[a]) \o Walk[<<i + 2, a + 1>>]
          [] OTHER -> <<"%", spec>> \o Walk[<<i + 2, a>>]
  IN  Walk[<<1, 1>>]

-----------------------------------------------------------------------------
\* The reference.  A '%' opens a specifier when the run of '%' before it is even.
Opens(fmt, i) ==
  /\ fmt[i] = "%"
  /\ \E k \in 0 .. i - 1 :
        /\ k % 2 = 0
        /\ \A j \in i - k .. i - 1 : fmt[j] = "%"
        /\ i - k > 1 => fmt[i - k - 1] # "%"

Spec(fmt, i) == i > 1 /\ Opens(fmt, i - 1)

\* The positions of the specifiers that take an argument.
Taking(fmt) == {i \in DOMAIN fmt : Spec(fmt, i) /\ fmt[i] \in Takes}

\* What each character contributes to the output.
Share(fmt, args, i) ==
  CASE Opens(fmt, i) -> <<>>
    [] i \in Taking(fmt) ->
         Conversion(fmt[i], args[Cardinality({j \in Taking(fmt) : j <= i})])
    [] Spec(fmt, i) /\ fmt[i] \notin Takes \cup {"%"} -> <<"%", fmt[i]>>
    [] OTHER -> <<fmt[i]>>

Shares(fmt, args) == FlattenSeq([i \in DOMAIN fmt |-> Share(fmt, args, i)])

\* The number that a sequence of digits stands for.
DigitValue(c) == (CHOOSE d \in DOMAIN Digit : Digit[d] = c) - 1
ReadBack(base, s) ==
  LET Value[i \in 0 .. Len(s)] ==
        IF i = 0 THEN 0 ELSE base * Value[i - 1] + DigitValue(s[i])
  IN  Value[Len(s)]

IsNumeral(base, s) ==
  /\ s # <<>> /\ \A i \in DOMAIN s : s[i] \in {Digit[d] : d \in 1 .. base}
  /\ Len(s) > 1 => s[1] # "0"

\* spec and v: a number printed under %d, %u or %x; out: the characters.
RightNumber(spec, v, out) ==
  LET base == IF spec = "x" THEN 16 ELSE 10
      abs  == IF v < 0 THEN Tail(out) ELSE out
  IN  /\ v < 0 => Head(out) = "-"
      /\ IsNumeral(base, abs)
      /\ ReadBack(base, abs) = (IF v < 0 THEN -v ELSE v)
=============================================================================
