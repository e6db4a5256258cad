------------------------------- MODULE MCCpu6510 -------------------------------
(* The instructions against their documentation, for chosen registers.     *)
EXTENDS InstructionSet

MCAccumulators == {\h00, \h5D, \h80, \h99}
MCIndexes == {<<\h00, \hFF>>, <<\hFF, \h01>>, <<\h9A, \h80>>}
MCStatuses == {\h04, \h09, \h0C, \hC7}
MCOperands == {<<\hFF, \h20>>, <<\h90, \hFF>>, <<\h47, \h12>>}
MCSeeds == {\h01, \h58, \hEC}
MCCodes == 0 .. 255

\* An instruction, or an interrupt sequence, is completed by the step.
Completes == cpu'.cycle = 0 /\ start.cycle = 0 /\ cpu.cycle # 0

Registers == {"A", "X", "Y", "S", "C", "Z", "I", "D", "V", "N"}

\* Whether the CPU was held up in the cycle before the last two, where SH* stores.
Held == cpu.cycle - 2 \in stolen

Vector == IF signalled /\ ~cpu'.nmiFlag THEN \hFFFA ELSE \hFFFE

\* Every instruction, whatever cycles are taken from it, leaves the registers, the
\* flags, the memory and the program counter as its documentation says: addresses wrap
\* in the zero page and around the memory, the indirect jump stays in its page, decimal
\* arithmetic is decimal, undocumented operations are what they are put together from.
\* An NMI that comes in time takes over the interrupt sequence, and is taken once.
Executed ==
  /\ \E magic \in {\hEE, \hEF, \hFE, \hFF} :
       LET after == After(start, magic)
       IN \A r \in Registers \ Unspecified(start) : cpu'[r] = after[r]
  /\ cpu'.bus = Written(start, Held)
  /\ cpu'.PC \in LET next == NextPC(start, Vector, cpu')
                 IN IF cpu'.d1x1 THEN {next} ELSE {(next + 1) % 65536}
Executes == [][Completes => Executed]_vars

\* Every instruction takes the cycles of its documentation, one more when a read crosses
\* a page or a branch is taken, and two when it is taken to another page.
Timely == [][Completes => time + 1 = Duration(start)]_vars

=============================================================================
