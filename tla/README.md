# A verification development for the DAE pipeline CPU

This directory holds TLA+ models of the CPU in `src/`, the TLC configurations
that check them on small instances, and proofs that TLAPS checks for every
value of the parameters. Paths below are relative to `src/`.

    tlc -config MCFetchUnit.cfg MCFetchUnit      # one run; the table below has them all
    tlapm FetchUnitProofs.tla                    # one proof module

`PROJECT.json` is the index: which definition models which lines, which run
checks which property, which mutation of the code breaks it, the hazards the
properties are for, and the disagreements between code and documents.

## 1. The system

An RV32 core with a decoupled frontend and an in-order EXE-MEM-WB backend, a
testbench that gives it memories and interrupt lines, C models of the SoC's
devices behind a DPI bridge, and software that runs on it.

| component | state | operations | what makes it correct |
|---|---|---|---|
| **Tags** (`include/uarch.svh`) | - | `inc_epoch`, `inc_seq`, `seq_after`, `token_killed_by` on a 2-bit epoch and a wrapping sequence id | tags that wrap still tell old from new, older from younger |
| **Frontend** (`src/frontend.sv`, `if_stage.sv`, `id_stage.sv`) | fetch pc, epoch and sequence counters, one outstanding request with its tags, `drop_q`, a packet in ID, the IR queue | fetch, accept an answer, decode into the queue, offer the head, drop a stale head, redirect | what it offers is the current path: in order, complete, nothing older; it never stops offering |
| **Decoder** (`src/decoder.sv`) | - | a word into the instruction that goes through the pipeline, or into one marked illegal | instructions are decoded as the ISA defines them, everything else is marked |
| **FIFO** (`src/fifo.sv`) | ring, two pointers, count | push, pop, both, flush | a bounded queue |
| **Scoreboard** (`src/scoreboard.sv`) | one row per stage | issue test, forwarding choice, shift, stall, kill | rows and tokens stay copies of each other; no missed and no endless hazard |
| **Backend** (`src/backend.sv`, `exe_stage.sv`, `mem_stage.sv`, `wb_stage.sv`, `regfile.sv`, `CSRFile.sv`, `alu.sv`, `branch_unit.sv`, `lsu.sv`) | three tokens, register file, CSR file, `req_sent_q`, `last_step_entered_trap_q` | stall, trap, redirect, advance | the commits are those of a machine that executes one instruction at a time; traps are precise; each store is performed once |
| **Top and testbench** (`src/Top.sv`, `tb/tb_top.sv`) | memories, sampled interrupt lines, end of run | a clock edge | - |
| **Devices** (`devices/`, `dpi/`) | UART buffer, IRQ aggregator bits, DRAM, address map | register accesses, one tick per commit | an arriving byte is announced; an access is refused or is that of one unit |
| **CLINT** (`devices/clint/`) | a 64-bit clock and deadline, each two registers | tick, register accesses, the timer's wire | the wire rises for no time that was not asked for, although software moves the deadline half by half |
| **SoC** (`snake_soc/`, `devices/common/src/ticker.c`, `terminal_backend.c`) | seven blocks of the host's memory, the ticker's list, the host's terminal | construction in stages, any of which may fail; ticks; destruction; exit | nothing is lost or freed twice; a new SoC is new; the terminal comes back |
| **ELF loader** (`elf_loader/`) | - | write segments through the memory map | what is loaded is what the file says |
| **Runtime** (`runtime/`) | heap break and count of blocks | `malloc`, `free`, `printf`, `strcmp`, `strncpy`, `uart_try_getc` | blocks in use are disjoint; the library computes what its callers expect at its edges |
| **Demo** (`freertos_demo/`) | a semaphore, tasks, a handler | main, handler, receiving task | no lost wakeup, no lost byte |

How they interact: in every cycle the backend sees the head of the IR queue and
the frontend sees the backend's redirect (a trap in MEM before a branch in EXE);
EXE reads MEM's and WB's results through the forwarding paths; MEM talks to the
data memory with a valid/ready request and a valid-only answer; CSR writes and
MRET take effect in EXE, trap entry in MEM, register writes and the commit
packet in WB. The testbench answers memory requests a cycle later, ticks the
devices when an instruction commits, and samples their interrupt wires into
registers. The UART's tick raises a wire that the IRQ aggregator's tick latches
in the same round, and software clears the latch and empties the buffer with
two different stores. The CLINT ticks in that round too, so between any two
instructions of a program that reads its clock or sets its deadline.

What is hard: redirects that cross a fetch in flight, and tags of two bits;
traps that meet branches and CSR instructions which already took effect;
interrupts that arrive in any cycle, also while an access is unfinished; two
copies of the same instruction kept by two modules; waits on each other of
fetch, queue, issue and memory; an edge-triggered interrupt between a buffer
that is polled and a handler that samples and clears in separate accesses;
64-bit registers reached in halves while they count; a constructor whose error
paths each undo another part of it.
The `hazards` of `PROJECT.json` list them at their lines.

## 2. The modules

| module | models | state and steps |
|---|---|---|
| `Uarch` | the tag functions, token and row types of `uarch_pkg` | - |
| `Frontend` | `frontend.sv`, `if_stage.sv`, `id_stage.sv` | the frontend's registers under their names; instruction memory holds words, decoded in ID by the constant operator `DecodeWord`; `FrontendRun` and `FrontendRedirect` are the two kinds of clock edge |
| `Decoder` | `decoder.sv` | one operator per opcode, on words that are records of their fields |
| `Isa` | abstract: which words are instructions, and what they mean | field by field, where `Decoder` goes opcode by opcode |
| `FetchStream` | abstract: the path the backend must receive | `next`, the address that comes next |
| `FetchUnit` | `Frontend` closed with the weakest backend | issue, wait, redirect; `credit` bounds the redirects between two issues |
| `Datapath` | ALU, branch, LSU and CSR-file functions that the core's control depends on | - |
| `Backend` | scoreboard, three stages, register and CSR file | the backend's registers; `BackendStall`, `BackendTrap`, `BackendRedirect`, `BackendAdvance` are the four kinds of edge |
| `Core` | `Top.sv` and the testbench | `Frontend` and `Backend` on one clock, data memory, end of run |
| `Iss` | abstract: one instruction at a time, as `Isa` reads its word | pc, registers, CSRs, memory |
| `Cosim` | the core beside `Iss` | histories of what the commit stream says about CSRs and memory |
| `CoreFetch` | the core beside `FetchUnit` | a history of the last issue |
| `BoundedQueue`, `Fifo` | abstract queue; the ring of `fifo.sv` | push/pop/flush in one edge |
| `Devices` | buffer and tick of `uart.c`, `irq_agg.c`, terminal, ticker | operators on a device record; `TickAll` composes the ticks in the order of registration |
| `Clint` | `clint.c` | operators on clock and deadline as pairs of halves |
| `Timer` | a program that reads the clock and sets deadlines, on a `Clint` | one action per load or store; the clock ticks in between, a new SoC may come at any point. The program is FreeRTOS's port, external |
| `Registers` | the register files of UART, IRQ aggregator and CLINT | a store or load of any register, width and strobe, or its refusal |
| `Heap` | `malloc` and `free` of `stdlib.c` | a call is a step; `live` is the history of blocks handed out |
| `Printf`, `Strings` | `stdio.c`, `string.c` | pure operators, with definitions they are compared to |
| `Runtime` | the library as its callers see it | `Heap`, and calls with their answers |
| `SnakeSoc` | `snake_soc.c`, the constructors and destructors below it, `terminal_backend.c`, the DPI bridge | one action per stage of the construction and its failure; teardown; ticks; composes `Timer`, `Registers` and `Runtime` as the programs that an SoC runs |
| `ReceivePath` | devices, sampled wires, handler and task of the demo | one action per memory access of `main`, handler and task, one for the return that succeeds and one for the return that an interrupt meets; the devices and the kernel's timer tick in between |
| `MemoryMap` | `mem_map.c` | registration, overlap and lookup as operators on sequences of units, with sums that wrap |
| `Lanes` | `lsu.sv`, `load_data_filter.sv`, the testbench's bridge | byte enables, lanes, sign extension as operators on words of four bytes |
| `SocMemory` | the five units that `snake_soc.c` registers: `boot_rom.c` and `dram.c` with their bytes, the CLINT, UART and IRQ aggregator with their answers | reads and writes with every check, as operators on the DRAM's bytes |
| `ElfLoader` | `write_segment` | the writes of a chunk in order, up to the first refusal |
| `ByteMemory` | abstract: a byte at every address of memory, registers beside it | `access`, the store or load that is answered, and its answer, a bus error where there is neither |
| `MemoryPath` | `load_elf`, then the core's accesses | one action per turn of the loader's loop, per error return, and per store, load and fetch |
| `FetchUnitProofs`, `FifoProofs`, `CoreProofs`, `CosimProofs`, `IssProofs`, `ReceivePathProofs`, `SnakeSocProofs`, `MemoryPathProofs` | theorems | - |
| `MCFetchUnit`, `MCCore`, `MCCosim`, `MCMemoryPath`, `MCSoc` | instances for TLC: memory images, programs, an address map, deadlines and strings | - |

The `DeliversStream`, `ImplementsIss`, `BackendIsEnvironment`, `ImplementsQueue`
and `ImplementsByteMemory` properties are refinements: the abstract specification is
instantiated with a mapping of the detailed state and checked as a property.
`TimerInside` is one without a mapping: `SnakeSoc` has the variables of `Timer`, and every
step of the SoC has to be one of `Timer` or leave them alone.
`ImplementsIss` maps the program counter to the oldest instruction that is
still alive, in WB, MEM, EXE, the IR queue, ID, a live request or the fetch pc,
in this order. So every commit has to be one step of the reference machine and
every other edge has to stutter.

### What is abstracted

* A word of instruction memory is the record of its fields, with the immediate of its format
  extended; a field that the decoder compares with a few values has these and one more.
  `fetch` leaves instructions uninterpreted: there the decoder is the identity. Two addresses of the model are one
  instruction (the model's word counts halfwords), so that misaligned targets
  exist. The functions that `funct3` selects in EXE are not looked at: one ALU operation and one branch condition of each shape stand for all:
  the pipeline does not look at which one it is.
* A word has 8 or 16 values, the CSR bits that control behaviour (MIE, MPIE, the
  enable bits, the direct-mode bits of `mtvec`) lie inside it, and the masks of
  the CSR file are kept as masks of that word.
* Exit codes of halts other than EBREAK are constants of their kind and are 0.
* In `SocMemory` a register is an address that takes words or answers them, with any of the words in
  `IoData`; what it does with them is in `Registers`. A character sent to the UART may be refused by the host.
* `MemoryPath` has one access at a time and bytes that all differ; the waiting, the
  interrupts and the order of accesses are the matter of `Core`, whose memory
  is one of whole words. The file is the addresses and lengths of its segments,
  a byte for every address (`FileByte`), and which of the loader's checks fails. The array that the testbench uses
  without a program file is left out.
* In `SnakeSoc` a program has one concern: it uses the timer, or any register, or
  the heap, or the formatter; a program that mixes them adds nothing that any of the
  properties relates. Registers have `HalfMod` values. The CLINT's clock does not wrap while
  a timer program runs: 2^64 commits are out of reach. At most one byte is on the host's
  side at a time. Arrays of the map and of the ticker are blocks that are allocated or not.
* An allocation fails or does not; that Ticker_add grows its array only in the first of
  three calls, and the map's array twice, is in the stages.
* In `Printf` a string is the sequence of its characters (`Char`) without the terminator, and an
  argument is a word that points to one of the strings in `Text` when the specifier says so. The two
  pointers of the loop, into the format and into the arguments, are a pair of places (`Cursors`).
* In `ReceivePath` the wire may be sampled some steps after the latch has changed, because sampling
  and software are separate actions; the code's delay is one cycle. A delay as long as a whole
  handler does not exist: the wire is up to date when `main` has made its tasks and when a handler, behind its
  last access, comes to its MRET, so no interrupt is taken there for a bit that is long cleared. The FreeRTOS
  kernel is not in the repository and is modelled by what the demo uses of it; its timer may expire at any time.

## 3. The runs

| run | question | instance |
|---|---|---|
| `fetch` | Does the frontend deliver the current path, the one the last redirect named, and go on doing so, whatever backend and memory do? | queue of 4, 4 epochs, 4 sequence ids, 8 halfwords, answers after any time, redirects to every address |
| `fifo` | Is the ring a queue? | depth 3 (no power of two), 3 values |
| `core_builds` | Is every commit a step of the reference machine, for every forwarding build? | a load and every three instructions out of 7 (data) or 7 (traps), every two out of 7 and an EBREAK (words at the decoder's edges, some of them no instructions), 4 builds |
| `core_slow` | The same when both memories accept and answer at any time; and does it go on? | every three of 5 instructions and an EBREAK |
| `core_irqs` | Are interrupts precise, do kills reach, is the backend an environment as assumed for `fetch`? | 15 loops of a load and two different ones out of 6 instructions, two interrupt lines that change in any cycle |
| `receive_path` | Does every byte reach the task, with no wakeup lost? | 4 bytes typed at any time, the kernel's tick at any time, ticks and handler between any two accesses |
| `memory_path` | Does the loader write its segments and nothing else, and report what does not fit; is what a program then loads what was stored, everywhere in the address space? | 44 addresses: boot ROM of a word, a CLINT of a register and a word without one, UART, aggregator, DRAM of two words, the top word; two segments of up to 7 bytes anywhere, in chunks of 6; behind a program of one segment, a store and loads of every length at every address |
| `soc` | Does the timer fire when and only when it should, does the SoC give back what it took, is the runtime library right at its edges? | SoCs made and taken down for ever, an allocation failing at any stage; registers of 3 values, deadlines before and behind a carry; a heap of 12 bytes, sizes 0, 3 and 5, 3 pointers; words of 5 bits; formats of up to four characters |
| `store_safety`, `return_context`, `early_byte`, `elf_byte` | disagreements, section 5 | the same programs, bytes and segments |

**Bounds.** Four epochs and four sequence ids: the epoch has its real width, and
four ids are the smallest number with which `seq_after` has two sides and
wraps in every program. A depth of 4 is the IR queue of the code. The frontend
delivers an instruction only every third cycle, so instructions are neighbours
in the pipeline only behind a memory access that let the queue fill: the programs
begin with a load, and the data memory may keep it waiting for any number of
cycles. Three instructions behind it occupy EXE, MEM and WB and one more than a
pair is needed for every forwarding choice; loops run for ever. No state
constraint is used, so these instances are explored completely. Four bytes are
enough for one in the buffer, one latched between sampling and clearing, one
behind them and one after the path has come to rest. In `memory_path` an access can lie
inside a unit, across its ends, on registers that answer, take a word, do both or neither, and wrap at the top;
a second store could only repeat the first, since no access looks at
more than one earlier write of a byte. A chunk of
6 bytes has bytes in front, a word and bytes behind, a segment of 7 needs a second
one, and a second segment can follow, overlap or repeat the first; the core
runs behind one segment only (`MCNext`), since nothing in an access depends on how many have filled the DRAM. In `soc` a register of three values is the smallest
that has a value which is neither the reset's nor all ones, a carry happens after three
ticks and the clock goes on for five more behind it; 12 bytes hold three blocks of the sizes, or a
last request that does not fit; a word of 5 bits prints as two decimal digits, negative
and not. The number of constructions is not bounded: every stage can fail in each.
The run has `CHECK_DEADLOCK FALSE`, as have `memory_path` and `elf_byte`, because there the
process or the run really ends.

**Fairness.** `fetch` and `core_slow` assume that the clock runs and that a memory
accepts a request that stays up and answers what it has accepted (weak fairness
of `Clock`, `...Accepts`, `...Answers`); the testbench does both within a cycle.
`receive_path` assumes that the core commits (`Progress`, checked in `core_slow`),
so that devices tick and the running software gets on, and that a standing
interrupt is taken. Two of its actions have strong fairness: the handler's successful return (`IsrExits`) and the
receiving task's steps (`RxStep`). The kernel's tick, which `TimerExpires` allows at any time, comes every
1000 instructions (`FreeRTOSConfig.h:5-12`), which is many times a handler and a turn of the task's loop; so not
every tick meets an MRET, and a task that a handler returns to gets on before the next. That one tick does meet the MRET
is left possible at every handler. `soc` assumes the same of the tick (`WF_vars(SocTick)`): a core that
commits ticks the devices. Nothing is assumed of the program, which may leave its
deadline alone, of the host or of the other tasks.

**PreciseIrqs.** The code takes an interrupt on whatever instruction is in MEM,
also on one that has already acted: an access that memory has accepted, a CSR
instruction or an MRET carried out in EXE. That contradicts what the documents
say, and section 5 lists it. Where the question is another one (`core_irqs`), the
constant `PreciseIrqs` restricts interrupts to instructions that can be restarted;
it is `FALSE`, the code's behaviour, in the runs that exhibit the disagreements.
`ReceivePath` has no such restriction: an interrupt is taken between any two accesses, on a store that is
already performed (`PopInterrupted`), and on the MRET that ends the handler of another (`MretInterrupted`).
The two histories of this say what they cost: `InOrder` excepts `repeated`; the liveness properties except it and a
receiving task that is `"lost"` at an MRET which returns to itself, and `NoLostWakeup` speaks of a task that is not.
`store_safety` and `return_context` exhibit the two causes in the core.

**Mutants.** Each property of a passing run comes with a plausible mistake in the
code that breaks it (the operators marked "Mutant of"): a forwarded load
address, a request repeated after acceptance, a kill that spares the instruction
in EXE, an epoch of one bit, a handler that gives only to a waiting task, a clock
without a carry, an error path that frees an array twice, a sign handled before the
number is widened.

## 4. What is proved

For every depth of the IR queue, every number of epochs from three on, every
number of sequence ids, every word size and every memory contents
(`FetchUnitProofs`):

* `PathInvariant`: `TypeOK` and `PathInv` hold in every state of `FetchUnit`.
  `PathInv` is inductive with `TypeOK`. Why it has the shape it has: that the
  backend gets no stale instruction needs that a leftover's epoch differs from the
  current one. Two redirects advance the epoch by two, and an entry survives
  them only if nothing was issued in between; so the invariant says which epochs
  leftovers can have as a function of `credit`, the number of redirects the
  backend can still cause (`StaleEpochs`). An issue gives the credit back, but it
  takes a live head, and leftovers are always in front of live entries: then there
  are none. The other half (`FetchInv`) says that `drop_q` marks exactly the
  requests of an old path, so the epoch test of the answer and the flag agree, and
  that an answer always finds room in the queue.
* `FrontendDelivers`: `DeliversStream`. `FetchUnit` implements `FetchStream` (`StreamIsDelivered`): the abstract
  `next` is the pc of the oldest live thing on its way; each kind of edge keeps it, moves it
  by one issued instruction, or sets it to the redirect's target. `FetchStream` lets a redirect go
  anywhere; the other part of the property, `PathIsTold`, ties it to the one that happened: its target is the next
  instruction in the edge of the redirect itself (`RedirectSetsPath`), and no other edge changes the path (`PathIsFollowed`).
* `FetchTypesHold`: `TypeOK` by itself.

For the core, with every set of programs, word size from eight values on, number of
tags (three epochs, four sequence ids), forwarding build and timing of the memories
(`CoreProofs`):

* `CoreTypes` and `RowsTrack`: `TypeOK` and `RowsTrackTokens`, inductive together. Types
  need the rows: a stage computes from its token what the scoreboard has promised of its
  row. The agreement of rows and tokens is proved edge by edge, with `ShiftTracks` as the
  lemma that one shift and one kill of both leaves them equal.
* `RequestIsAnswered`: `PreciseIrqs` gives `OneRequest`. The invariant adds why the
  instruction that sent a request is still in MEM when the answer comes: it is an aligned
  memory access that neither halts nor traps, and while its request is out no interrupt
  is pending. Without the condition the theorem is false, section 5.
* `EnvironmentHolds`: `BackendIsEnvironment`, so the frontend in the core is a `FetchUnit`.
  The difficult half is `credit`: two redirects without an issue between them need a trap
  in MEM behind a redirect from EXE, and then both stages are empty.
* `KillHolds`: `KillReaches`. That the kill of a trap hits the token in EXE is a fact about
  sequence ids which only the history of their issue explains. The invariant joins
  `PathInv` of the frontend, read in the core, with `LinkInv`: live tokens carry the current epoch
  and successive ids, and the one in EXE the id right in front of the next one that the
  frontend will deliver. The one exception is the instruction that has just redirected: it is of
  the epoch before, nothing is alive behind it, and it leaves MEM before a new one gets to EXE.

For the core beside the commit stream, with the same parameters and `PreciseIrqs` (`CosimProofs`):

* `CsrKeepsPace`: `CsrRunsAhead`. Inductive with `PathAndLink` (what `KillHolds` rests on) and
  `TokenInv`: a live token carries the decoded word at its address, past EXE with the CSR check
  added, and no cause or halt is noted before MEM. An edge either hands on what MEM and EXE
  hold (`MoveFacts`) or holds both (`HoldFacts`); EXE's effect on the CSRs is that of the token it
  hands over (`ExeEffect`), and a trap finds an instruction in MEM that has had none (`TrapsBeforeEffect`).
* `DmemKeepsPace`: `DmemRunsAhead`, with `AnswerInv`: the answer that waits is the one for
  the access in MEM, with the data of memory as it is.
* `RestartableIsSafe`: `StoresAreSafe` and `ReturnContextSaved`, the two claims of the documents
  that section 5 refutes for the code as it is, hold under `PreciseIrqs`: a trap leaves nothing alive in MEM,
  so both histories are up to date when it gets to WB. That is exactly the condition the code does not test.

For the core beside the reference machine, with the same parameters, `PreciseIrqs`, and an IR queue of at most
four entries (`IssProofs`):

* `CommitsAreIss`: `ImplementsIss`. The invariant `IssInv` adds to the above, for each thing the
  reference machine has, how the tokens stand to it:
  - `ChainInv`, the program counter: what comes behind each live token is where it goes (`PcAfter`);
    behind the youngest it is what the frontend will deliver.
  - `OperandInv`, the registers: the operands of a live token are what the register file holds when those in
    front of it are done (`After`); with `ReadyInv`, that a scoreboard row that is ready is not a load's, this
    is where forwarding, hazards and the write-back in the same edge meet.
  - `MemInv`, the results: a token past EXE holds what the datapath computes from those operands and from the
    CSRs as the commits in front of it leave them.
  - `EnterInv`, the trap flag: the first instruction of a handler is alone in the pipeline. The double-trap
    test in MEM looks at a flag that WB sets when something commits; it is right because nothing is between them. Between the
    redirect and that instruction, `Draining` counts the leftovers in the queue against the two cycles that a
    fetch takes. That is where the depth of four is needed: with six entries the second
    instruction of the handler can follow the first without a gap, its trap
    sees the flag still set, and TLC finds that `ImplementsIss` fails. The build has four
    (`src/Top.sv:6`, `src/frontend.sv:4`, `spec.md:34`).
  - `WbInv`, the verdict: an instruction in WB has retired, trapped or halted for the reason the reference
    machine would have (`Verdict`), with the CSRs, memory and trap flag of the commits before it.

  `CommitCode` relates the token's instruction to the one that the reference machine fetches; by `DecodesIsa` they are the same,
  except for words that are no instructions, of which `CodeFits` says what EXE and MEM still look at.
  Then `CommitRetires`, `CommitTraps` and `CommitHalts` take a step of `Iss` for each verdict, one step of the
  proof per action of `Iss`; a cycle without a commit leaves all variables of `Iss` alone.

For every word (`CoreProofs`):

* `DecodesIsa`: the decoder marks a word legal exactly when it is an instruction of RV32I with the
  CSR instructions, or one of the reserved words of section 5, and then decodes it into its meaning.
  In the runs `ImplementsIss` checks the decoder in its place, on words that a program contains.

For every depth and data set (`FifoProofs`):

* `FifoTypes`: pointers and count stay in their ranges.
* `FifoInvariant`: the write pointer is the slot behind the occupied ones.
* `FifoIsQueue`: the ring implements `BoundedQueue`, with the contents read from
  the read pointer on. Push and pop in one edge are the case that needs
  the pointers' agreement: the written slot is none of those still to be read.

For every number of addresses, size and place of the five units, contents of the boot ROM, registers of the CLINT, chunk
of the loader, file and number of words stored (`MemoryPathProofs`):

* `MemoryIsBytes`: `ImplementsByteMemory`. The access is part of what is refined: each answer is the one that `ByteMemory`
  gives to the same store or load, so a wrong byte of memory cannot pass for a register's. `MapIs` says that the registrations leave all five units in the map,
  `FindUnitIs` which unit an access is sent to, `ReadReaches` and `WriteReaches` what the unit's own checks
  make of it, and `RegistersRead` and `RegistersWritten` which words of the devices
  answer, `StoreArrives` and `LoadArrives` that the lanes which the LSU chooses and the bridge takes
  apart again are the bytes of the instruction. The accesses that wrap at the last address and get to a unit
  that has none of them (`WrapMatches`) are refused there, so the unit's check is part of the argument.
* `SegmentsInPlace` and `FaultsAreOutside`: `LoadedExactly` and `FaultsOutside`. The writes of a chunk cut it
  into bytes in front of a word boundary, words, and bytes behind them (`Parts`). `ByteLands` and `WordLands`
  say what one write does to the array, `ChunkStep` that the writes so far have stored exactly the bytes they
  are made of, except at lanes 1 to 3 (`SegmentSoFar`), and `ChunkWritten` that the loop comes to the
  end of the chunk or stops at the first byte that neither the DRAM nor a register takes. The invariant adds that
  the loader goes on only as long as everything was taken. So `load_elf` returns -EFAULT for no program inside the DRAM, and
  always for one with a byte that is neither there nor in a register that can be written; what it returns
  for the others depends on the registers and their widths.
* `PathTypesHold`: `TypeOK`; with it no access of the core and none of the loader leaves an array.

For every size of the address space (`MemoryPathProofs`):

* `OverlapIsExact` and `MatchIsExact`: the overlap test of registration and the lookup
  decide what the header says, for units and accesses that end below the last address.
* `WrapMatches`: without that condition the lookup is wrong. An access that ends at
  the last address matches every unit below it, so the first registered unit (the boot
  ROM) is asked for an offset far beyond its size; its own bounds check answers SLVERR
  where the header promises DECERR. The testbench turns both into the same bus error,
  which is why `ImplementsByteMemory` holds there too, and `TypeOK` fails as soon as the
  device trusts the map (its mutant).

For the timer, with registers of any width and any deadlines (`SnakeSocProofs`):

* `TimerNeverEarly`: `NoEarlyTimer`. The invariant says what `mtimecmp` is at each point
  of the program: the deadline, or the upper half of the deadline or of the target with all
  ones below it, a time that is not before the deadline or the target itself.
* `TimeReadIsTime`: `TimeIsRead`. The upper half was the same before and after the lower half was
  read, and the clock did not go back, so it was the same then.

For every heap, request and number of pointers (`SnakeSocProofs`):

* `HeapBlocksDisjoint` and `HeapIsReused`: without an unpaired `free(NULL)` the count is the
  number of blocks, and all of them end before the first free byte.

For the SoC, with every program and any number of constructions (`SnakeSocProofs`):

* `MemoryIsReturned`: which blocks are allocated at each stage of the construction; every
  error path frees exactly these.
* `TerminalComesBack`: the settings are saved while the terminal is raw and only then.
* `SocRunsTimer`: every step of the SoC is one of `Timer` or leaves it alone, so
  `SocTimerNeverEarly`; `SocHeapIsSafe` takes over the heap's theorems in the same way.
* `SettingsAreRepeatable`: `SafeToRepeat`. What a tick does is a matter of the devices from some place in the
  ticker's list on, so there are only a few ticks (`IoTicked`, `ClintTicked`); a store to a setting commutes
  with each of them, and done twice does what it does once.
* `SocTypesHold`: `SocTypeOK`, the types of the timer, the heap and the call among them.

For every string, format, argument and word size (`SnakeSocProofs`):

* `StringsAreRight`: `StringsAgree`. There is one index at which `strcmp` stops (`Stops`), the walk gets to
  it, and it is where the order of the two strings is decided (`StopDecides`), also when one of them ends there.
* `NumbersAreNumerals`: `NumbersPrintRight`. `NumeralIsRight` takes the least number whose numeral is wrong: its
  front part is right, and a digit appended to it reads back as the number. The sign is put in front of the
  numeral of the absolute value, which is a word also for the least int.
* `PrintfIsRight`: `PrintsFormat`. The loop decides at each character from where it stands; the
  reference looks at what is in front of it. They meet in `OpensIs`: a percent sign opens a specifier unless the one in
  front of it does. One round of the loop then prints what its one or two characters stand for
  (`RoundOfWalk`), with the argument that the number of specifiers so far selects (`ArgNo`), and so does the whole
  walk (`PrintedIsShares`).

Recursive functions (the walk over a format, a numeral, the writes of a chunk) are reasoned about
with a least element: the library's induction theorems take an operator as a parameter, which the provers
cannot instantiate, but that a set of numbers has a least one (`LeastNumber`, from `WFMin`) does not, and from it
follow `UpTo`, induction over an interval written as a set, and that a recursive definition has a
solution (`RecursionExists`, `WalkExists`).

For any number of bytes (`ReceivePathProofs`):

* `WakeupIsKept`: `NoLostWakeup` when nothing is typed before the demo runs, as long as the receiving task is not lost. The invariant adds
  which part of the software runs, when the receiving task may be blocked, and that the UART's wire
  is latched in the round that raises it.
* `BytesInOrder`: what is printed, what is in the buffer and what is on stdin make up what
  was typed, in order, as long as no pop was repeated.

Assumptions: those named `...Assumption` in the modules that declare the
constants; TLC evaluates them in every run that uses the module. `BitsAssumption` says
of `WordMod` and `WordBits` that a word holds any choice of its bits; `CoreAssumption`
that programs are made of words, that `DecodeWord` is the decoder on them, and that a word which
comes with a bus error is 0, so none of the opcodes. `PreciseIrqs` and the depth of the queue are hypotheses of the theorems that need them. That the decoder never makes a
memory access of an MRET (`src/decoder.sv:163-169`), which lets a redirector leave MEM without waiting,
is the lemma `DecodeMret`.

`SocAssumption` is the address map of `snake_soc.c:33-48`: five regions in the order of their registration, word-aligned
and without an overlap, the last of them, the DRAM, ending below the last address. `StringsAssumption` says that strings end at their first zero, and `TextAssumption` that the
terminator is no character and that a pointer which is not null points to a string.

Every safety property that a passing run checks, and every refinement in the sense of safety, is
stated by a theorem. Only model-checked are the liveness properties (`OffersForever`, `Progress`, `TimerFires` and
those of `ReceivePath`), because liveness and ENABLED are out of the prover's reach, and the disagreements of section 5, which are counterexamples.

## 5. Where code and documents disagree

1. **A store can be performed twice** (`store_safety`). `mem_stage.sv:89-106` takes an
   interrupt on a store whose request memory has accepted; mepc points at the store.
   `docs/traps-csr-stores.md:33` calls MEM the point where store safety is enforced.
   On the receive path the repeated store is the one that empties the UART's buffer:
   `InOrder` does not hold without the exception for `repeated`, a byte that
   arrived during the handler is thrown away.
2. **An interrupt on MRET loses the return address** (`return_context`). EXE has
   restored MIE and used mepc; MEM then traps on the MRET and replaces mepc by its
   address. On the receive path (`ReceivePath.MretInterrupted`): a byte or a tick of the kernel that comes while a
   handler runs is pending at its MRET, the handler it causes returns to that MRET, and this one to itself. If it was to
   return to the receiving task, the task never runs on and no later byte is printed. The liveness
   properties `EveryByteReceived` and `BufferDrains` except this (`"lost"`).
3. **A byte that is there at boot stops reception** (`early_byte`). `main.c:52` clears the
   edge of a byte that stays in the UART's buffer; no edge can come any more.
4. **Edges of a segment are lost** (`elf_byte`). The loader writes the bytes in front of and
   behind the words of a segment with width 1 and the strobe of their bus lane; the DRAM
   takes strobe 0 for the only byte of such an access. A byte at lane 1, 2 or 3 is
   acknowledged and not stored, and `load_elf` returns 0. A text and read-only data
   segment whose length leaves 2 or 3 when divided by 4 is enough.

Others have no run of their own.

* The commit packet's CSR snapshot (`wb_stage.sv:45`) includes the CSR instruction behind the
  committed one; `spec.md:253-254` offers it for the comparison with an ISS without saying so. `CsrRunsAhead` states
  exactly how far it runs ahead, and `DmemRunsAhead` the same of memory: behind an instruction
  that halts (`backend.sv:242`) a store still reaches memory.
* `Ticker_add` can fail, `ticker.h` and `snake_soc.h` promise -ENOMEM, and `snake_soc.c:131-135`
  does not look: an SoC whose CLINT is not in the ticker has no time. `TimerFires` is stated for
  the others, and `NothingLeaks` for all.
* `load_elf` writes through the same map as the core: a segment on registers of a device is stored into them word by
  word and the load returns 0. `elf_loader.h:41` promises -EFAULT only for a segment "outside any device in target", but
  `elf_loader.h:12-13` says that PT_LOAD segments must land in DRAM, which nothing checks. The -ENOMEM
  for the buffer (`elf_loader.c:111-115`) is missing in the list of `elf_loader.h:38-42`. What values the registers have
  behind such a load is not modelled.
* `decoder.sv:65` takes a register operation with `funct7` 0x20 for legal whatever its `funct3` is; only SUB and
  SRA have it, the ISA reserves the others and the core executes their neighbours (`Tolerated`). `Isa` admits them.
* A word that is no instruction is refused in MEM, and EXE has acted on it by then: an MRET with a
  destination has returned, a branch without a condition has jumped (`exe_stage.sv:65-72`). The run
  ends there, so nothing but the last CSR snapshot shows it; `Iss` has both (`StrayReturn`, `StrayJump`).
* `free(NULL)` takes the count of blocks down, which the mock of the host tests uses to reset the
  heap; with blocks in use it hands them out again. The heap's properties exclude it (`unpaired`).
* `printf("%d")` negates a `long`, which on RV32 is no wider than the `int`: for INT_MIN this is
  undefined in C and wraps in practice; the model takes the wrap. `main.c` and `app_irq_handler.c`
  pass `%02x` and `%08x`, which this formatter prints as they stand, without
  taking the argument.
* A byte that the UART of an SoC has read and not passed on is lost when a second
  `dpi_snake_soc_init` makes another. A store to the UART of less than a word is taken whatever its strobes are.
* The terminal's O_NONBLOCK is not taken back at exit, and `abort` or `$fatal` end
  the process without its handlers: `TerminalRestored` is about a process that exits.

And one follows from 1 and has no run either, because the testbench's memory is too fast to
show it: the trap clears `req_sent_q` while the request is outstanding, and with a slower
memory the next access would send a second request and take the old answer for
its own. `spec.md:345-346` promises one outstanding request. `OneRequest` states what holds
with precise interrupts (`core_slow`).

## 6. What is not modelled, and why

* The ALU's operations and the branch conditions that `funct3` selects: the pipeline's properties ask which
  operands and which kind of instruction arrive where. How the bits of an immediate are put together.
* `devices/common/include/pma_defs.h`: its table (`specs/pma_table.inc`) is not in the repository.
* The logging wrapper of the memory map, and `die` in devices without methods: text and aborts.
* `memcpy`, `memset`, `strlen`, `puts` and `putchar`, loops without a case; `uart_getc`, which
  waits for ever and has no caller; sizes near 2^32 in `malloc`, whose rounding wraps: `Requests` stays
  below.
* The tick of the DRAM, which does nothing; the DPI calls without an SoC, which all answer DECERR.
* The testbench's own array, used without a program file; `$readmemh`, plus-args and wave dumps.
* The values that a program file puts into registers of the devices: `MemoryPath` has which words they take, and the
  programs of `SnakeSoc` begin with the registers as the constructor leaves them.
* The FreeRTOS kernel (not in the repository), the demo's printing tasks, scripts and the glue
  of riscv-tests.

`PROJECT.json` has the list by component.

## 7. Plan

1. **Datapath**: the ALU's operations and the branch conditions as operators on words of a few bits,
   against reference definitions over all inputs.
2. **Core**: `DeliversStream` as one theorem of `Core` (its parts, `EnvironmentHolds` and
   `FrontendDelivers`, are proved).
3. **Interrupts as they are**: `ImplementsIss` without `PreciseIrqs`, against a reference machine
   that may repeat an access, so that the disagreements 1 and 2 become the specification's choice.
