----------------------------- MODULE ByteMemory -----------------------------
(***************************************************************************)
(* What a program may expect of memory: a byte at every address that is    *)
(* there, accesses of one, two or four bytes at their natural alignment, a *)
(* bus error when a byte of the access is not there or may not be written. *)
(* Registers lie beside it: they read as anything and are no memory.       *)
(***************************************************************************)
EXTENDS Lanes

CONSTANTS
  Addresses,             \* all addresses a program can form
  Readable, Writable,    \* where memory is, and where it is no boot ROM
  ReadRegisters,         \* the addresses of registers that can be read,
  WriteRegisters,        \* and of those that can be written
  Data                   \* the words a program may store

VARIABLES
  bytes,      \* what each readable address holds
  access,     \* the access that is being answered
  reply,      \* how it ended, and with which word
  booted      \* the program is loaded

Bytes(addr, len) == addr .. addr + len - 1
Reply(status, value) == [status |-> status, value |-> value]

NoAccess == [kind |-> "none"]
StoreOf(addr, len, data)   == [kind |-> "store", addr |-> addr, len |-> len, data |-> data]
LoadOf(addr, len, signext) == [kind |-> "load", addr |-> addr, len |-> len, signext |-> signext]
Stores == [kind : {"store"}, addr : Addresses, len : MemLen, data : Data]
Loads  == [kind : {"load"}, addr : Addresses, len : MemLen, signext : BOOLEAN]

Init ==
  /\ bytes \in [Readable -> Byte]
  /\ access = NoAccess
  /\ reply = Reply("none", Zero)
  /\ booted = FALSE

\* A program is loaded: anything may become of the bytes that can be written.
Boot ==
  /\ ~booted
  /\ booted' \in BOOLEAN
  /\ DOMAIN bytes' = Readable
  /\ \A a \in Readable \ Writable : bytes'[a] = bytes[a]
  /\ UNCHANGED <<access, reply>>

StoreAs(addr, len, data) ==
  IF addr % len # 0
  THEN reply' = Reply("misaligned", Zero) /\ UNCHANGED bytes
  ELSE IF Bytes(addr, len) \subseteq Writable
  THEN /\ reply' = Reply("okay", Zero)
       /\ bytes' = [a \in Readable |->
                      IF a \in Bytes(addr, len) THEN data[a - addr] ELSE bytes[a]]
  ELSE /\ \/ reply' = Reply("error", Zero)
          \/ Bytes(addr, len) \subseteq WriteRegisters /\ reply' = Reply("okay", Zero)
       /\ UNCHANGED bytes

\* The low bytes of the value are read, the others come from the sign.
Loaded(read, len, signext) ==
  [i \in Lane |-> IF i < len THEN read[i] ELSE IF signext THEN SignOf(read[len - 1]) ELSE 0]

LoadAs(addr, len, signext) ==
  /\ IF addr % len # 0 THEN reply' = Reply("misaligned", Zero)
     ELSE IF Bytes(addr, len) \subseteq Readable
     THEN reply' = Reply("okay", Loaded([i \in 0 .. len - 1 |-> bytes[addr + i]], len, signext))
     ELSE IF Bytes(addr, len) \subseteq ReadRegisters
     THEN /\ reply'.value \in Word
          /\ reply' = Reply("okay", Loaded(reply'.value, len, signext))
     ELSE reply' = Reply("error", Zero)
  /\ UNCHANGED bytes

\* The access that comes is the one that is answered.
Answers ==
  /\ booted /\ UNCHANGED booted
  /\ access = NoAccess
  /\ \/ access' \in Stores /\ StoreAs(access'.addr, access'.len, access'.data)
     \/ access' \in Loads /\ LoadAs(access'.addr, access'.len, access'.signext)

Retires ==
  /\ access # NoAccess
  /\ access' = NoAccess
  /\ reply' = Reply("none", Zero)
  /\ UNCHANGED <<bytes, booted>>

Next == Boot \/ Answers \/ Retires

Spec == Init /\ [][Next]_<<bytes, access, reply, booted>>
=============================================================================
