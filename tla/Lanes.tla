------------------------------- MODULE Lanes --------------------------------
(***************************************************************************)
(* Byte lanes.  A word is its four bytes, the lowest first; a strobe is a  *)
(* set of lanes.  The LSU and the load filter of the core, and the         *)
(* testbench's translation of a request into an access of the C side.      *)
(***************************************************************************)
EXTENDS Naturals

Lane == 0 .. 3
Byte == 0 .. 255
Word == [Lane -> Byte]
Zero == [i \in Lane |-> 0]
MemLen == {1, 2, 4}
\* Bytes and halves are loaded with their sign or without, words have one form.
Extensions(len) == IF len = 4 THEN {FALSE} ELSE BOOLEAN

ShiftRight(w, k) == [i \in Lane |-> IF i + k \in Lane THEN w[i + k] ELSE 0]
ShiftLeft(w, k)  == [i \in Lane |-> IF i >= k THEN w[i - k] ELSE 0]

\* The low n bytes of a word, the rest filled with a byte.
Extend(w, n, fill) == [i \in Lane |-> IF i < n THEN w[i] ELSE fill]
SignOf(b) == IF b >= 128 THEN 255 ELSE 0

-----------------------------------------------------------------------------
\* lsu: byte enables and the data moved to its lanes.
LsuMisaligned(addr, len) == addr % len # 0

ByteEnable(addr, len) ==
  CASE len = 1 -> {addr % 4}
    [] len = 2 -> IF addr % 4 >= 2 THEN {2, 3} ELSE {0, 1}
    [] OTHER   -> Lane

\* Mutant of StoreLanes: the byte is not moved.
StoreLanesUnmoved(addr, len, data) ==
  CASE len = 1 -> data
    [] len = 2 -> IF addr % 4 >= 2 THEN ShiftLeft(data, 2) ELSE Extend(data, 2, 0)
    [] OTHER   -> data

StoreLanes(addr, len, data) ==
  CASE len = 1 -> ShiftLeft([i \in Lane |-> data[0]], addr % 4)
    [] len = 2 -> IF addr % 4 >= 2 THEN ShiftLeft(data, 2) ELSE Extend(data, 2, 0)
    [] OTHER   -> data

\* load_data_filter: the byte or half of the word at addr, extended.
LoadFilter(addr, rdata, len, signext) ==
  LET moved == CASE len = 1 -> ShiftRight(rdata, addr % 4)
                 [] len = 2 -> IF addr % 4 >= 2 THEN ShiftRight(rdata, 2) ELSE rdata
                 [] OTHER   -> rdata
  IN  Extend(moved, len, IF signext THEN SignOf(moved[len - 1]) ELSE 0)

-----------------------------------------------------------------------------
\* tb_top: a store as an access of the width its byte enables stand for, with
\* its data back at lane 0 and the strobes counted from the first byte.
BridgeWrite(addr, be, wdata) ==
  CASE \E k \in Lane : be = {k} ->
         [addr |-> addr, width |-> 1, strb |-> {0},
          value |-> ShiftRight(wdata, CHOOSE k \in Lane : be = {k})]
    [] be = {0, 1} -> [addr |-> addr, width |-> 2, strb |-> {0, 1}, value |-> wdata]
    [] be = {2, 3} -> [addr |-> addr, width |-> 2, strb |-> {0, 1},
                       value |-> ShiftRight(wdata, 2)]
    [] OTHER       -> [addr |-> addr, width |-> 4, strb |-> Lane, value |-> wdata]

\* A load always fetches the word that holds its bytes.
BridgeReadAddr(addr) == addr - (addr % 4)
=============================================================================
