----------------------------- MODULE DriverImage -----------------------------
(***************************************************************************)
(* The driver as a program: its image is moved to its page (reloc65.cpp),  *)
(* the tune's parameters are written into it (psiddrv::install), it starts *)
(* up the chips and serves the interrupts (psiddrv.a65), on the machine    *)
(* with or without a KERNAL. Addresses in the image are offsets from the   *)
(* start of the assembled text.                                            *)
(***************************************************************************)
EXTENDS Driver, Rom

(* The five vectors, which are not copied into the C64's memory, the       *)
(* parameters and the entry points.                                        *)
Vectors == 10
Label ==
  [coldvec |-> 0, irqusr |-> 2, brkusr |-> 4, nmiusr |-> 6, stopusr |-> 8,
   playnum |-> 10, speed |-> 11, initvec |-> 12, playvec |-> 14, initiomap |-> 16,
   playiomap |-> 17, video |-> 18, clock |-> 19, flags |-> 20,
   play |-> 21, init |-> 24, cold |-> 27, timer |-> 74, setiomap |-> 140, idle |-> 175,
   irqjob |-> 178, irqret |-> 197, exception |-> 206]
Size == 207

(* The places in the image that hold addresses of it, in their order.      *)
Word16(at, to) == [at |-> at, kind |-> "word", to |-> Label[to]]
References ==
  <<Word16(0, "cold"), Word16(2, "irqret"), Word16(4, "exception"), Word16(6, "exception"),
    Word16(8, "setiomap"), Word16(22, "playvec"), Word16(25, "initvec"), Word16(59, "video"),
    Word16(68, "timer"), Word16(85, "clock"), Word16(88, "initiomap"), Word16(103, "initiomap"),
    Word16(108, "playiomap"), [at |-> 113, kind |-> "low", to |-> Label.irqjob],
    Word16(118, "speed"), Word16(128, "setiomap"), Word16(141, "initiomap"), Word16(150, "flags"),
    Word16(154, "playnum"), Word16(158, "init"), Word16(161, "initiomap"), Word16(166, "playiomap"),
    Word16(176, "idle"), Word16(182, "playiomap"), Word16(189, "play")>>

(* A longer program, with the other kinds of entries.                      *)
Longer ==
  <<[at |-> 1, kind |-> "low", to |-> 250], [at |-> 3, kind |-> "high", to |-> 250],
    [at |-> 258, kind |-> "word", to |-> 300], [at |-> 900, kind |-> "high", to |-> 511]>>

-----------------------------------------------------------------------------
(* The file the assembler makes for the base address tbase: the bytes of   *)
(* the text that refer to it, and the relocation table. An entry says how  *)
(* far from the last one it is, with 255 for steps of 254; the low byte of *)
(* an address of which the text holds the high one is in the table.        *)

tbase == 4096

Assembled(references) ==
  [references |-> references,
   text |-> [at \in {r.at : r \in ToSet(references)}
                      \union {r.at + 1 : r \in {q \in ToSet(references) : q.kind = "word"}} |->
      LET r == CHOOSE q \in ToSet(references) : at - q.at \in {0, 1}
      IN  IF r.kind = "high" \/ at = r.at + 1 THEN (tbase + r.to) \div 256 ELSE (tbase + r.to) % 256],
   table |-> [n \in DOMAIN references |->
      LET r    == references[n]
          step == r.at - (IF n = 1 THEN -1 ELSE references[n - 1].at)
      IN  [skips |-> (step - 1) \div 254, step |-> ((step - 1) % 254) + 1, kind |-> r.kind,
           low |-> (tbase + r.to) % 256]]]

(* reloc_seg(): the place of the next entry, and what is written there.    *)
GetWord(text, adr) == text[adr] + 256 * text[adr + 1]

RelocEntryLowKept(m_tdiff, done, entry) ==  \* as if the low byte in the table did not matter
  LET adr   == done.adr + 254 * entry.skips + entry.step
      old   == CASE entry.kind = "word" -> GetWord(done.text, adr)
                 [] entry.kind = "high" -> 256 * done.text[adr]
                 [] entry.kind = "low" -> done.text[adr]
      moved == (old + m_tdiff) % 65536
  IN  [adr |-> adr,
       text |-> CASE entry.kind = "word" ->
                       [done.text EXCEPT ![adr] = moved % 256, ![adr + 1] = moved \div 256]
                  [] entry.kind = "high" -> [done.text EXCEPT ![adr] = moved \div 256]
                  [] entry.kind = "low" -> [done.text EXCEPT ![adr] = moved % 256]]
RelocEntry(m_tdiff, done, entry) ==
  LET adr   == done.adr + 254 * entry.skips + entry.step
      old   == CASE entry.kind = "word" -> GetWord(done.text, adr)
                 [] entry.kind = "high" -> 256 * done.text[adr] + entry.low
                 [] entry.kind = "low" -> done.text[adr]
      moved == (old + m_tdiff) % 65536
  IN  [adr |-> adr,
       text |-> CASE entry.kind = "word" ->
                       [done.text EXCEPT ![adr] = moved % 256, ![adr + 1] = moved \div 256]
                  [] entry.kind = "high" -> [done.text EXCEPT ![adr] = moved \div 256]
                  [] entry.kind = "low" -> [done.text EXCEPT ![adr] = moved % 256]]

Reloc(o65, base) ==
  FoldLeft(LAMBDA done, entry : RelocEntry(base - tbase, done, entry),
           [adr |-> -1, text |-> o65.text], o65.table).text

(* The vectors are left out of the driver's page: its text begins before.  *)
Base(page) == 256 * page - Vectors

-----------------------------------------------------------------------------
(* install(): the parameters, one behind the other.                        *)

Parameters(t, s, video) ==
  <<[size |-> 1, value |-> s.number - 1],
    [size |-> 1, value |-> IF s.speed = "VBI" THEN 0 ELSE 1],
    [size |-> 2, value |-> IF t.compatibility = "BASIC" THEN 48981 ELSE t.init],
    [size |-> 2, value |-> t.play],
    [size |-> 1, value |-> Iomap(t, t.init)],
    [size |-> 1, value |-> Iomap(t, t.play)],
    [size |-> 1, value |-> video],
    [size |-> 1, value |-> CASE s.clock = "PAL" -> 1 [] s.clock = "NTSC" -> 0
                             [] OTHER -> video],
    [size |-> 1, value |-> IF t.compatibility \in {"R64", "BASIC"} THEN {} ELSE {"INTERRUPT"}]>>

(* What the program finds at a label.                                      *)
Position(parameters, n) ==
  Vectors + FoldLeft(LAMBDA pos, p : pos + p.size, 0, SubSeq(parameters, 1, n - 1))
Parameter(parameters, label) ==
  parameters[CHOOSE n \in DOMAIN parameters : Position(parameters, n) = Label[label]].value

(* copyPoweronPattern(): what the KERNAL leaves in the first pages, as a   *)
(* list of gaps and counts less one; bit 7 of a gap says that a count is   *)
(* to follow, bit 7 of a count that one byte is repeated. With each entry  *)
(* goes the address noted beside it, $64 for one that is noted as $63.     *)
POWERON ==
  <<<<\h3, \h83, \h4>>, <<\hB, \h3, 0>>, <<\hF, \h3, 0>>, <<\h16, \h86, \h5>>, <<\h22, \h86, \h3>>,
    <<\h2B, \h85, \h1>>, <<\h34, \h7, 0>>, <<\h38, \h3, 0>>, <<\h3A, \h1, 0>>, <<\h42, \h7, 0>>,
    <<\h47, \h4, 0>>, <<\h53, \h8B, \h1>>, <<\h61, \hC, 0>>, <<\h64, \h2, 0>>, <<\h69, \h84, \h2>>,
    <<\h71, \h85, \h1E>>, <<\h91, \h1, 0>>, <<\h9A, \h8, 0>>, <<\hB2, \h97, \h1>>,
    <<\hC2, \h8E, \h3>>, <<\hC8, \h82, \h82>>, <<\hCB, \h80, \h81>>, <<\hCE, \h1, 0>>,
    <<\hD1, \h82, \h1>>, <<\hD5, \h82, \h2>>, <<\hD9, \h81, \h86>>, <<\hE0, \h80, \h85>>,
    <<\hE6, \h80, \h86>>, <<\hED, \h80, \h85>>, <<\hF3, \h80, \h3>>, <<\h176, \h7F, 0>>,
    <<\h1F6, \h7F, 0>>, <<\h276, \h7F, 0>>, <<\h282, \h8B, \hA>>, <<\h28F, \h82, \h1>>,
    <<\h300, \hEF, \hB>>, <<\h310, \h84, \h2>>, <<\h314, \h81, \h1F>>>>
Unpacked ==    \* where each entry is copied to, and the address after it
  FoldLeft(LAMBDA done, entry :
             LET to == done.addr + (entry[2] % 128)
             IN  [at |-> Append(done.at, to), addr |-> to + (entry[3] % 128) + 1],
           [at |-> <<>>, addr |-> 0], POWERON)

(* The vectors of the KERNAL at $0314, $0316, $0318 and $0328: those of    *)
(* the power-on pattern, or from the relocated image.                      *)
PowerOn == [irq |-> \hEA31, brk |-> \hFE66, nmi |-> \hFE47, stop |-> \hF6ED]
InstalledVectors(t, text) ==
  [PowerOn EXCEPT
     !.irq  = IF t.compatibility = "BASIC" THEN @ ELSE GetWord(text, Label.irqusr),
     !.brk  = IF t.compatibility \in {"R64", "BASIC"} THEN @ ELSE GetWord(text, Label.brkusr),
     !.nmi  = IF t.compatibility \in {"R64", "BASIC"} THEN @ ELSE GetWord(text, Label.nmiusr),
     !.stop = IF t.compatibility = "BASIC" THEN @ ELSE GetWord(text, Label.stopusr)]

(* The program from cold to setiomap: the rate of the timer, the raster    *)
(* line, what interrupts, and the interrupt vector, of which it stores the *)
(* low byte.                                                               *)
Cold(text, parameters, vectors) ==
  LET P(label) == Parameter(parameters, label)
      tuned    == P("initiomap") # Untouched
  IN  [timer  |-> IF P("video") = 0 THEN "NTSC" ELSE "PAL",
       raster |-> IF P("video") = P("clock") /\ ~tuned THEN 311 ELSE 0,
       source |-> IF P("speed") = 0 THEN "VIC" ELSE "CIA 1",
       irq    |-> IF tuned /\ P("playiomap") # Untouched
                  THEN vectors.irq - (vectors.irq % 256) + text[113] ELSE vectors.irq]

(* The program from irqjob on.                                             *)
At(page, label) == Base(page) + Label[label]
InterruptRoutine(page) ==
  Lay(At(page, "irqjob"),
      <<<<"LDA", 1>>, <<"PHA">>, <<"LDA", At(page, "playiomap")>>, <<"STA", 1>>, <<"LDAb", 0>>,
        <<"JSR", At(page, "play")>>, <<"PLA">>, <<"STA", 1>>, <<"DEC", \hD019>>,
        <<"LDA", \hDC0D>>, <<"PLA">>, <<"TAY">>, <<"PLA">>, <<"TAX">>, <<"PLA">>, <<"RTI">>>>)
  @@ Lay(At(page, "exception"), <<<<"HLT">>>>)

Words(irq, nmi) == (\h0314 :> irq) @@ (\h0318 :> nmi)

-----------------------------------------------------------------------------
(* The driver works where it was put: it does not overwrite the tune (see  *)
(* Driver.DriverPlaced) and fits its page, every address in it is that of  *)
(* its label at the new place, the parameters are where the program looks  *)
(* for them, and a play routine is called from the interrupt that the      *)
(* song's speed asks for. Without a KERNAL an interrupt comes back with    *)
(* the registers it came with, and has taken its request back, whether the *)
(* driver, the stand-in or both serve it; the calls of the KERNAL come     *)
(* back at once; and a BASIC program finds its song however it is started. *)
Moved(references, page) ==
  LET text == Reloc(Assembled(references), Base(page))
  IN  \A r \in ToSet(references) :
        CASE r.kind = "word" -> GetWord(text, r.at) = Base(page) + r.to
          [] r.kind = "high" -> text[r.at] = (Base(page) + r.to) \div 256
          [] r.kind = "low" -> text[r.at] = (Base(page) + r.to) % 256

Starts(page, video) ==
  LET text       == Reloc(Assembled(References), Base(page))
      parameters == Parameters(tune, song, video)
      vectors    == InstalledVectors(tune, text)
      machine    == Cold(text, parameters, vectors)
      P(label)   == Parameter(parameters, label)
  IN  /\ GetWord(text, Label.coldvec) = At(page, "cold")
      /\ P("playnum") = song.number - 1 /\ P("playvec") = tune.play
      /\ P("flags") = {} <=> tune.compatibility \in {"R64", "BASIC"}
      /\ tune.compatibility # "BASIC" =>
           /\ P("initvec") = tune.init
           /\ vectors.stop = At(page, "setiomap")
           /\ machine.source = (IF song.speed = "VBI" THEN "VIC" ELSE "CIA 1")
           /\ machine.timer = (IF video = 1 THEN "PAL" ELSE "NTSC")
           /\ tune.init # 0 =>
                machine.irq = At(page, IF tune.play # 0 /\ tune.compatibility # "R64"
                                       THEN "irqjob" ELSE "irqret")
      /\ (tune.compatibility = "BASIC" \/ machine.irq \in {At(page, "irqjob"), At(page, "irqret")}) =>
           LET s == Until(40, InterruptRoutine(page) @@ StandIn,
                          Words(machine.irq, vectors.nmi), From(Hardware.irq))
           IN  /\ Returns(s)
               /\ \hDC0D \in s.touched
               /\ machine.irq = At(page, "irqjob") => \hD019 \in s.touched
               /\ s.called = IF machine.irq = At(page, "irqjob") THEN <<At(page, "play")>> ELSE <<>>
      /\ tune.compatibility = "R64" => vectors.nmi = PowerOn.nmi /\ machine.source = "CIA 1"
      /\ tune.compatibility = "BASIC" =>
           LET basic   == Patched(\hBF53, song.number - 1)
               called  == [From(P("initvec")) EXCEPT !.regs.a = P("playnum")]
               reaches == {Until(8, basic, <<>>, start) : start \in {called, From(\hA7AE)}}
           IN  \A s \in reaches :
                 s.at = \hA7B1 /\ s.end = "outside" /\ s.song = song.number - 1

StandInWorks ==
  /\ kernalFunctions \intersect DOMAIN Routines = {}
  /\ \A f \in kernalFunctions : Until(1, StandIn, <<>>, From(f)).end = "RTS"
  /\ Returns(Until(150, StandIn, Words(PowerOn.irq, PowerOn.nmi), From(Hardware.nmi)))
  /\ Until(1, StandIn, <<>>, From(Hardware.reset)).end = "HLT"
  /\ Unpacked.at = [n \in DOMAIN POWERON |-> POWERON[n][1]] /\ Unpacked.addr <= \h0400

DriverWorks ==
  /\ DriverPlaced
  /\ StandInWorks
  /\ pc = "cold" =>
       /\ Base(driver) + Size <= 256 * (driver + 1)
       /\ Moved(References, driver) /\ Moved(Longer, driver)
       /\ \A video \in {0, 1} : Starts(driver, video)
=============================================================================
