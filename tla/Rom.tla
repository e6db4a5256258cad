-------------------------------- MODULE Rom --------------------------------
(***************************************************************************)
(* The ROMs a client need not have (SystemROMBanks.h): the KERNAL that     *)
(* stands in for a missing one, with its ways into and out of interrupts,  *)
(* and the patches of the BASIC. A program is a function from addresses to *)
(* instructions, of which only what the ROMs and the driver's interrupt    *)
(* routine use is known here, and of the machine only its registers, its   *)
(* stack, the addresses touched and the routines called on the way.        *)
(***************************************************************************)
EXTENDS Integers, Sequences, SequencesExt, TLC

BytesOf(i) == IF Len(i) = 1 THEN 1 ELSE IF i[1] = "LDAb" \/ i[2] < 256 THEN 2 ELSE 3
Lay(at, code) ==
  LET place(n) == FoldLeft(LAMBDA a, i : a + BytesOf(i), at, SubSeq(code, 1, n - 1))
  IN  [a \in {place(n) : n \in DOMAIN code} |-> code[CHOOSE n \in DOMAIN code : place(n) = a]]

saveRegs == <<<<"PHA">>, <<"TXA">>, <<"PHA">>, <<"TYA">>, <<"PHA">>>>
restoreRegsSwapped ==  \* as if X were pulled first
  <<<<"PLA">>, <<"TAX">>, <<"PLA">>, <<"TAY">>, <<"PLA">>>>
restoreRegs == <<<<"PLA">>, <<"TAY">>, <<"PLA">>, <<"TAX">>, <<"PLA">>>>

(* The routines of the stand-in, at the addresses of the real ones. All    *)
(* else of it does nothing.                                                *)
Kernal == \hE000..\hFFFF
Hardware == [nmi |-> \hFE43, reset |-> \hFCE2, irq |-> \hFF48]
Routines ==
  Lay(\hEA31, <<<<"JMP", \hEA7E>>>>)
  @@ Lay(\hEA7E, <<<<"NOPa", \hDC0D>>>> \o restoreRegs \o <<<<"RTI">>>>)
  @@ Lay(\hFCE2, <<<<"HLT">>>>)
  @@ Lay(\hFE43, <<<<"SEI">>, <<"JMPi", \h0318>>>>)
  @@ Lay(\hFE47, saveRegs)
  @@ Lay(\hFEBC, restoreRegs \o <<<<"RTI">>>>)
  @@ Lay(\hFF48, saveRegs \o <<<<"JMPi", \h0314>>>>)

(* The documented entry points and what they jump to in the real one.      *)
kernalFunctions ==
  {\hFF81 + 3 * n : n \in 0..38}
  \union {\hFF5B, \hFDA3, \hFD50, \hFD15, \hFD1A, \hFE18, \hEDB9, \hEDC7, \hFE25, \hFE34,
          \hEA87, \hFE21, \hEE13, \hEDDD, \hEDEF, \hEDFE, \hED0C, \hED09, \hFE07, \hFE00,
          \hFDF9, \hF34A, \hF291, \hF20E, \hF250, \hF333, \hF157, \hF1CA, \hF49E, \hF5DD,
          \hF6E4, \hF6DD, \hF6ED, \hF13E, \hF32F, \hF69B, \hE505, \hE50A, \hE500}
StandIn == [f \in kernalFunctions |-> <<"RTS">>] @@ Routines

(* The patches of the BASIC: where its warm start leads, and the number of *)
(* the song.                                                               *)
Patched(warmStart, tune) ==
  Lay(\hA7AE, <<<<"JMP", warmStart>>>>)
  @@ Lay(\hBF53, <<<<"LDAb", tune>>, <<"STA", \h030C>>, <<"JSR", \hA82C>>, <<"JMP", \hA7B1>>>>)

-----------------------------------------------------------------------------
(* One instruction of the machine. "words" are what vectors in RAM hold. A *)
(* routine that is called returns with its own registers.                  *)

Registers == [a |-> "A", x |-> "X", y |-> "Y"]
From(at) ==
  [at |-> at, regs |-> Registers, stack |-> <<>>, touched |-> {}, called |-> <<>>,
   song |-> "none", end |-> "none"]

Execute(code, words, s) ==
  LET i    == IF s.at \in DOMAIN code THEN code[s.at]
              ELSE IF s.at \in Kernal THEN <<"NOP">> ELSE <<"outside">>
      op   == i[1]
      next == [s EXCEPT !.at = @ + BytesOf(i),
                        !.touched = IF op \in {"NOPa", "LDA", "STA", "DEC"} THEN @ \union {i[2]} ELSE @]
  IN  CASE op = "PHA" -> [next EXCEPT !.stack = <<s.regs.a>> \o @]
        [] op = "PLA" -> [next EXCEPT !.stack = Tail(@), !.regs.a = Head(s.stack)]
        [] op = "TXA" -> [next EXCEPT !.regs.a = s.regs.x]
        [] op = "TYA" -> [next EXCEPT !.regs.a = s.regs.y]
        [] op = "TAX" -> [next EXCEPT !.regs.x = s.regs.a]
        [] op = "TAY" -> [next EXCEPT !.regs.y = s.regs.a]
        [] op = "LDA" -> [next EXCEPT !.regs.a = <<"of", i[2]>>]
        [] op = "LDAb" -> [next EXCEPT !.regs.a = i[2]]
        [] op = "STA" -> [next EXCEPT !.song = IF i[2] = \h030C THEN s.regs.a ELSE @]
        [] op = "JSR" -> [next EXCEPT !.called = Append(@, i[2]),
                                      !.regs = [a |-> "lost", x |-> "lost", y |-> "lost"]]
        [] op = "JMP" -> [s EXCEPT !.at = i[2]]
        [] op = "JMPi" -> [s EXCEPT !.at = words[i[2]]]
        [] op \in {"NOP", "NOPa", "DEC", "SEI"} -> next
        [] op \in {"RTI", "RTS", "HLT", "outside"} -> [s EXCEPT !.end = op]

Until(steps, code, words, start) ==
  FoldLeft(LAMBDA s, n : IF s.end # "none" THEN s ELSE Execute(code, words, s),
           start, [n \in 1..steps |-> n])

(* An interrupt comes back to where it was taken with nothing changed.     *)
Returns(s) ==
  s.end = "RTI" /\ s.regs = Registers /\ s.stack = <<>>
=============================================================================
