------------------------------- MODULE MCCore -------------------------------
(***************************************************************************)
(* Instances of the core for the model checker.  An instruction is two     *)
(* words long, so a program of four instructions fills the eight words; an *)
(* odd address answers with a bus error, as the boot ROM and DRAM do.      *)
(***************************************************************************)
EXTENDS Core

\* Instructions, with what does not matter of a word left at 0.
Blank == [opcode |-> "OP_IMM", funct3 |-> 0, funct7 |-> "00", funct12 |-> "unknown",
          rs1 |-> 0, rs2 |-> 0, rd |-> 0, imm |-> 0, error |-> FALSE]

Addi(d, s, i)  == [Blank EXCEPT !.rd = d, !.rs1 = s, !.imm = i]
Add3(d, s, t)  == [Blank EXCEPT !.opcode = "OP", !.rd = d, !.rs1 = s, !.rs2 = t]
Lw(d, s, i)    == [Blank EXCEPT !.opcode = "LOAD", !.funct3 = 2, !.rd = d, !.rs1 = s, !.imm = i]
Sw(t, s, i)    == [Blank EXCEPT !.opcode = "STORE", !.funct3 = 2, !.rs1 = s, !.rs2 = t, !.imm = i]
Beq(s, t, i)   == [Blank EXCEPT !.opcode = "BRANCH", !.rs1 = s, !.rs2 = t, !.imm = i]
Jal(d, i)      == [Blank EXCEPT !.opcode = "JAL", !.rd = d, !.imm = i]
Jalr(d, s, i)  == [Blank EXCEPT !.opcode = "JALR", !.rd = d, !.rs1 = s, !.imm = i]
Auipc(d, i)    == [Blank EXCEPT !.opcode = "AUIPC", !.rd = d, !.imm = i]
Csrrw(d, c, s) == [Blank EXCEPT !.opcode = "SYSTEM", !.funct3 = 1, !.rd = d, !.funct12 = c, !.rs1 = s]
Csrr(d, c)     == [Csrrw(d, c, 0) EXCEPT !.funct3 = 2]
Csrwi(c, i)    == [Csrrw(0, c, 0) EXCEPT !.funct3 = 5, !.imm = i]
Csrsi(c, i)    == [Csrwi(c, i) EXCEPT !.funct3 = 6]
Csrrci(d, c, i) == [Csrwi(c, i) EXCEPT !.funct3 = 7, !.rd = d]
Sys(k)         == [Blank EXCEPT !.opcode = "SYSTEM", !.funct12 = k]

\* Words that are no instructions: an MRET with a destination and a branch without
\* a condition.
Mret1     == [Sys("MRET") EXCEPT !.rd = 1]
Stray(i)  == [Beq(0, 0, i) EXCEPT !.funct3 = 2]

\* A bus error comes with a word of zeros.
FetchError == [Blank EXCEPT !.opcode = "other", !.error = TRUE]

\* The program <<i0, i1, i2, i3>> as the contents of instruction memory.
Image(p) == [w \in Word |-> IF w % 2 = 1 THEN FetchError ELSE p[w \div 2 + 1]]
AfterLoad(set) == {Image(<<Lw(1, 0, 0)>> \o p) : p \in [1 .. 3 -> set]}

NoForward   == {{}}
AllForwards == {{}, {"mem"}, {"wb"}, {"mem", "wb"}}
BuildDefault == {{"mem", "wb"}}

MCDAddr == {0, 2}
MCDmem  == [a \in MCDAddr |-> a + 1]
MCReg == {1, 2}

-----------------------------------------------------------------------------
(* Programs.  The frontend delivers an instruction every third cycle, so two *)
(* of them meet in the pipeline only behind a memory access that kept the    *)
(* queue filling: the programs start with a load and the memory may wait.    *)

\* Hazards, forwarding, branches and memory: every three of these.
DataInsts ==
  {Addi(1, 1, 2), Add3(2, 1, 2), Lw(1, 2, 0), Sw(1, 1, 0), Beq(1, 2, 4),
   Jalr(1, 1, 6), Sys("EBREAK")}
DataPrograms == AfterLoad(DataInsts)

\* The same hazards with memories that keep the core waiting.
SlowInsts == {Addi(1, 1, 2), Lw(1, 2, 0), Sw(1, 1, 0), Beq(1, 2, 4), Jal(2, 4)}
SlowPrograms == {Image(Append(p, Sys("EBREAK"))) : p \in [1 .. 3 -> SlowInsts]}

\* Traps without interrupts: CSR accesses, ECALL and MRET in every order.  mtvec
\* is 0 until it is written, so a handler may well be the program itself.
TrapInsts ==
  {Csrwi("mtvec", 4), Csrr(1, "mepc"), Addi(1, 1, 2),
   Csrrw(2, "mepc", 1), Csrrci(1, "mstatus", 2),
   Sys("ECALL"), Sys("MRET")}
TrapPrograms == AfterLoad(TrapInsts)

\* What the decoder has to tell apart: words that are no instructions, with those that
\* read the pc, no source or no destination, and a CSR that may only be read.
OddInsts ==
  {Mret1, Stray(4), Stray(5), Auipc(1, 2), Csrr(1, "mhartid"), Csrwi("mhartid", 1),
   Csrrw(0, "mscratch", 0)}
OddPrograms ==
  {Image(<<Lw(1, 0, 0), p[1], p[2], Sys("EBREAK")>>) : p \in [1 .. 2 -> OddInsts]}

\* All of them, under every build of the forwarding paths.
BuildPrograms == DataPrograms \cup TrapPrograms \cup OddPrograms

\* Interrupts, for a core that resets to word 4: the handler at word 0 is one
\* instruction and MRET; the program enables the interrupts and goes round a
\* loop of a load and two different instructions, with the jump back.
IrqFirst == {Addi(1, 2, 1), Lw(2, 0, 2), Sw(1, 0, 0), Beq(0, 0, 4), Sys("ECALL"),
             Csrrci(1, "mstatus", 1)}
IrqSecond == {Sw(1, 0, 0), Sys("ECALL"), Csrrci(1, "mstatus", 1)}
IrqImage(x, y) ==
  Image(<<Csrr(2, "mcause"), Sys("MRET"),
          Csrwi("mie", 6), Csrsi("mstatus", 1),
          Lw(1, 0, 0), x, y, Jal(0, WordMod - 6)>>)
IrqPrograms ==
  {IrqImage(p[1], p[2]) : p \in {q \in IrqFirst \X IrqSecond : q[1] # q[2]}}
=============================================================================
