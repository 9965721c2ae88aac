-------------------------------- MODULE MCSoc ---------------------------------
(***************************************************************************)
(* SnakeSoc for TLC: what the programs on it do.                           *)
(***************************************************************************)
EXTENDS SnakeSoc

\* The times a timer program waits for: before the first carry and after it.
SomeDeadlines == {[hi |-> 0, lo |-> 2], [hi |-> 1, lo |-> 0], [hi |-> 1, lo |-> 1]}

\* Up to four characters: two specifiers, or one behind any text and any '%'.
SomeFormats ==
  UNION {[1 .. n -> {"A", "%", "d", "z"}] : n \in 0 .. 4}
    \cup {<<"%", f>> : f \in {"c", "u", "x", "s"}} \cup {<<"%", "s", "%", "x">>}

\* The characters that these and the texts below are made of.
SomeChars == {"A", "z", "s", "x", "u", "%", "-"} \cup Range(Digit) \cup Range(NullText)

\* A string at every address: it is empty, looks like a specifier or has two characters.
SomeText == [w \in Unsigned |-> CASE w % 3 = 0 -> <<>>
                                  [] w % 3 = 1 -> <<"%", "d">>
                                  [] w % 3 = 2 -> <<"A", "z">>]

\* Bytes on both sides of the sign bit.
SomeStrings == UNION {[1 .. n -> {1, 200}] : n \in 0 .. 2}
SomeBuffer  == <<7, 7, 7, 7>>
=============================================================================
