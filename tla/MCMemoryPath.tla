---------------------------- MODULE MCMemoryPath ----------------------------
\* A boot ROM of one word, a CLINT of two words with one register, the UART, the
\* aggregator, two words of DRAM, and the last word of the address space, at which
\* sums wrap.
EXTENDS MemoryPath

MCRom == [[o \in 0 .. 3 |-> 0] EXCEPT ![0] = 183, ![3] = 128]

\* All different, so that a byte in a wrong place is seen.
MCFile == [a \in Addr |-> 100 + a]

\* Every byte of a word differs from the others, with and without sign bit, and
\* from the bytes of the file.
MCData == {[i \in Lane |-> IF i % 2 = 0 THEN 1 + i ELSE 128 + i]}

\* A register answers as the boot ROM does, which keeps the answers few.
MCIo == {MCRom}

\* The core runs programs of one segment; programs of two are only loaded.
MCNext == LoadStep \/ (loader.segments < 2 /\ CoreStep)
MCSpec == Init /\ [][MCNext]_vars
=============================================================================
