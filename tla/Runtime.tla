------------------------------- MODULE Runtime -------------------------------
(***************************************************************************)
(* The runtime library as its callers see it.  malloc and free change the  *)
(* heap; printf, strcmp and strncpy compute an answer from their           *)
(* arguments, and a call of one of these runs until it returns.            *)
(***************************************************************************)
EXTENDS Heap, Printf, Strings

CONSTANTS
  Formats,     \* the format strings
  CStrings,    \* the strings for string.h
  Buffer       \* a destination, as it was before

\* A C string ends at its first zero.
ASSUME StringsAssumption ==
  /\ CStrings \subseteq Seq(CByte \ {0}) /\ Buffer \in Seq(CByte)
  /\ Formats \subseteq Seq(Char)

VARIABLE call  \* the call that runs, with its answer

NoCall == [fn |-> "none"]

\* One argument for every specifier that takes one.
Printfs ==
  UNION {{[fn |-> "printf", fmt |-> f, args |-> a, out |-> Printed(f, a)] :
             a \in [1 .. Cardinality(Taking(f)) -> Unsigned]} : f \in Formats}

Strcmps == {[fn |-> "strcmp", a |-> a, b |-> b, out |-> Strcmp(a, b)] :
               a \in CStrings, b \in CStrings}

Strncpys == {[fn |-> "strncpy", src |-> s, n |-> n, out |-> Strncpy(Buffer, s, n)] :
                s \in CStrings, n \in 0 .. Len(Buffer)}

Calls == /\ call = NoCall
         /\ \/ call' \in Printfs
            \/ call' \in Strcmps
            \/ call' \in Strncpys

Returns == call # NoCall /\ call' = NoCall

-----------------------------------------------------------------------------
\* Every number comes out as its decimal or hexadecimal numeral, shortest and with
\* its sign, the smallest int included, whose absolute value is no int
\* (stdio.c:28-57).
NumbersPrintRight ==
  call.fn = "printf" /\ Len(call.fmt) = 2 /\ Spec(call.fmt, 2) /\ call.fmt[2] \in {"d", "u", "x"} =>
    RightNumber(call.fmt[2],
                IF call.fmt[2] = "d" THEN AsInt(call.args[1]) ELSE call.args[1], call.out)

\* Whatever stands between the '%' signs, a specifier prints its own argument, all
\* other text stands as it is and nothing behind the terminator is read, which the
\* cursor of printf (stdio.c:63-118) must get right in every branch: the reference
\* decides each character by the parity of the run of '%' before it.
PrintsFormat ==
  call.fn = "printf" => call.out = Shares(call.fmt, call.args)

\* strcmp orders strings by unsigned bytes and strncpy writes its n bytes and no
\* other (string.c:36-53), also for the bytes a signed char makes negative.
StringsAgree ==
  CASE call.fn = "strcmp"  -> Orders(call.a, call.b, call.out)
    [] call.fn = "strncpy" -> Copies(Buffer, call.src, call.n, call.out)
    [] OTHER -> TRUE
=============================================================================
