------------------------------- MODULE Strings -------------------------------
(***************************************************************************)
(* The runtime's string.c.  A C string is the sequence of its bytes, its   *)
(* terminator left out; a buffer is a sequence of bytes of any value.      *)
(***************************************************************************)
EXTENDS Integers, Sequences

CONSTANT CharMod           \* the values of a byte, 256

ASSUME CharAssumption == CharMod \in Nat /\ CharMod % 2 = 0 /\ CharMod > 2

CByte == 0 .. CharMod - 1

\* The byte that s + i - 1 points at.
ByteAt(s, i) == IF i <= Len(s) THEN s[i] ELSE 0

\* The index at which a loop over two strings stops.
FirstDifference(a, b) ==
  LET Walk[i \in 1 .. Len(a) + 1] ==
        IF ByteAt(a, i) # 0 /\ ByteAt(a, i) = ByteAt(b, i) THEN Walk[i + 1] ELSE i
  IN  Walk[1]

\* Mutant of Strcmp: the bytes are compared as signed characters.
StrcmpSigned(a, b) ==
  LET i == FirstDifference(a, b)
      Signed(c) == IF 2 * c >= CharMod THEN c - CharMod ELSE c
  IN  Signed(ByteAt(a, i)) - Signed(ByteAt(b, i))

Strcmp(a, b) ==
  LET i == FirstDifference(a, b) IN ByteAt(a, i) - ByteAt(b, i)

\* Mutant of Strncpy: a string that is shorter than n is not padded.
StrncpyUnpadded(dst, src, n) ==
  [i \in DOMAIN dst |-> IF i <= n /\ i <= Len(src) + 1 THEN ByteAt(src, i) ELSE dst[i]]

\* The first n bytes: src up to its terminator, then zeros.
Strncpy(dst, src, n) ==
  [i \in DOMAIN dst |-> IF i <= n THEN ByteAt(src, i) ELSE dst[i]]

-----------------------------------------------------------------------------
\* The reference: a precedes b in the order of unsigned bytes.
Precedes(a, b) ==
  \E k \in 0 .. Len(a) :
    /\ k <= Len(b) /\ SubSeq(a, 1, k) = SubSeq(b, 1, k)
    /\ \/ k = Len(a) /\ k < Len(b)
       \/ k < Len(a) /\ k < Len(b) /\ a[k + 1] < b[k + 1]

\* The answer of strcmp orders the strings.
Orders(a, b, r) ==
  /\ r < 0 <=> Precedes(a, b)
  /\ r > 0 <=> Precedes(b, a)
  /\ r = 0 <=> a = b

\* A buffer after strncpy holds src, cut at n and filled up to n, and nothing else.
Copies(dst, src, n, r) ==
  LET kept == IF Len(src) < n THEN Len(src) ELSE n IN
  /\ Len(r) = Len(dst)
  /\ SubSeq(r, 1, kept) = SubSeq(src, 1, kept)
  /\ \A i \in kept + 1 .. n : r[i] = 0
  /\ \A i \in n + 1 .. Len(dst) : r[i] = dst[i]
=============================================================================
