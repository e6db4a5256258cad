---------------------------- MODULE Client_proof ----------------------------
(***************************************************************************)
(* Proofs about module Player, for every set of builders, tunes and        *)
(* configurations and any storage of emulations: whatever calls the client *)
(* makes and whichever step of a set-up fails, the engine keeps its tune   *)
(* in memory on the right machine, reaches and mixes living emulations     *)
(* only, and has those that its configuration names. At the end, about     *)
(* module Loader, for every folder: which of two files plays first.        *)
(***************************************************************************)
EXTENDS Client, FiniteSetTheorems, WellFoundedInduction, SequenceTheorems, TLAPS

\* A tune that is loaded could be set up.
Accepted == m_tune # None => m_tune.fault = "none"

\* The chips are distinct and belong to a builder; while a tune is loaded
\* that is the builder of the configuration, which the client keeps.
Owned ==
  /\ ToSet(m_chips) \subseteq Used
  /\ IsInjective(m_chips)
  /\ \A b, c \in Builders : b # c => sidobjs[b] \intersect sidobjs[c] = {}
  /\ m_tune # None =>
       IF m_cfg.builder = None THEN m_chips = <<>> ELSE ToSet(m_chips) \subseteq sidobjs[m_cfg.builder]

\* The pages of the I/O area have no emulations but the chips.
Routed ==
  /\ sidBank \in ToSet(m_chips) \union {None}
  /\ \A page \in DOMAIN extraSidBanks, slot \in Slots :
       extraSidBanks[page][slot] \in ToSet(m_chips) \union {None}

\* A mixer that is not due is that of the chips.
Mixed ==
  /\ mixerDue \in BOOLEAN
  /\ mixerDue \/ m_chips = <<>> \/ m_simpleMixer = m_chips
  /\ reply.op = "play" /\ reply.samples > 0 => m_simpleMixer = m_chips

IInv == TypeOK /\ Accepted /\ PlaysTune /\ Owned /\ Routed /\ Mixed

-----------------------------------------------------------------------------
(* The operators of a set-up.                                              *)

\* The storage that SetToSeq lays out: its members, each once.
LEMMA FreshLaidOut ==
  ASSUME NEW S, IsFiniteSet(S)
  PROVE  SetToSeq(S) \in Seq(S) /\ IsInjective(SetToSeq(S))
<1> DEFINE n == Cardinality(S)
           Layout(f) == f \in [1 .. n -> S] /\ IsInjective(f)
<1>1. n \in Nat /\ ExistsBijection(1 .. n, S)
  BY FS_CardinalityType
<1>2. \E f : Layout(f)
  BY <1>1 DEF ExistsBijection, Bijection, Injection, Surjection
<1>3. Layout(SetToSeq(S))
  BY <1>2 DEF SetToSeq
<1>4. QED  BY <1>1, <1>3

LEMMA OrderFound ==
  ASSUME NEW S \in SUBSET Emu
  PROVE  OrderOf(S) = SetToSeq(S)
<1> DEFINE s == CHOOSE t \in Storage : t[1] = S
<1>1. <<S, SetToSeq(S)>> \in Storage /\ <<S, SetToSeq(S)>>[1] = S
  BY DEF Storage
<1>2. s \in Storage /\ s[1] = S
  BY <1>1
<1>3. PICK f \in SUBSET Emu : s = <<f, SetToSeq(f)>>
  BY <1>2 DEF Storage
<1>4. OrderOf(S) = s[2]
  BY DEF OrderOf
<1> HIDE DEF s
<1>5. f = S
  BY <1>2, <1>3
<1>6. QED  BY <1>3, <1>4, <1>5

\* Addresses names at most two addresses, whatever tune and configuration say.
LEMMA AddressesFew ==
  ASSUME NEW tune \in Tunes, NEW cfg \in Configs
  PROVE  Addresses(tune, cfg) \in Seq(Pages \X Slots) /\ Len(Addresses(tune, cfg)) <= 2
<1> DEFINE A(field) == Chosen(tune, cfg, field)
<1>1. A("second") \in Address /\ A("third") \in Address
  BY PlayerAssumption DEF Chosen
<1>2. \A a \in Address : Listed(a) \in Seq(Pages \X Slots) /\ Len(Listed(a)) <= 1
  <2> SUFFICES ASSUME NEW a \in Address
               PROVE  Listed(a) \in Seq(Pages \X Slots) /\ Len(Listed(a)) <= 1
    OBVIOUS
  <2>1. CASE a = None
    BY <2>1 DEF Listed
  <2>2. CASE a \in Pages \X Slots
    <3>1. Listed(a) = <<a>>
      BY <2>2, PlayerAssumption DEF Listed
    <3>2. QED  BY <2>2, <3>1
  <2>3. QED  BY <2>1, <2>2 DEF Address
<1>3. QED
  <2> DEFINE s == Listed(A("second"))
             t == Listed(A("third"))
  <2>1. s \in Seq(Pages \X Slots) /\ Len(s) <= 1 /\ t \in Seq(Pages \X Slots) /\ Len(t) <= 1
    BY <1>1, <1>2
  <2> HIDE DEF s, t
  <2>2. s \o t \in Seq(Pages \X Slots) /\ Len(s \o t) = Len(s) + Len(t)
    BY <2>1
  <2>3. QED  BY <2>1, <2>2 DEF Addresses, s, t

LEMMA ChosenMin ==
  ASSUME NEW a \in Nat, NEW b \in Nat, NEW c \in Nat
  PROVE  /\ Min({a, b, c}) \in {a, b, c}
         /\ Min({a, b, c}) <= a /\ Min({a, b, c}) <= b /\ Min({a, b, c}) <= c
<1> DEFINE m == IF a <= b /\ a <= c THEN a ELSE IF b <= c THEN b ELSE c
<1>1. m \in {a, b, c} /\ \A y \in {a, b, c} : m =< y
  OBVIOUS
<1>2. QED  BY <1>1 DEF Min

\* Of the numbers of a few chips there is a least and a greatest.
LEMMA FewExtremes ==
  ASSUME NEW S \in SUBSET (2 .. 4), S # {}
  PROVE  /\ Min(S) \in S /\ \A y \in S : Min(S) <= y
         /\ Max(S) \in S /\ \A y \in S : Max(S) >= y
<1>1. (\E x \in S : \A y \in S : x <= y) /\ (\E x \in S : \A y \in S : x >= y)
  <2>1. S \subseteq {2, 3, 4}
    OBVIOUS
  <2>2. CASE 2 \in S
    BY <2>1, <2>2
  <2>3. CASE 2 \notin S /\ 3 \in S
    BY <2>1, <2>3
  <2>4. CASE 2 \notin S /\ 3 \notin S
    <3>1. S = {4}
      BY <2>1, <2>4
    <3>2. QED  BY <3>1
  <2>5. QED  BY <2>2, <2>3, <2>4
<1>2. QED  BY <1>1 DEF Min, Max

\* The beginning of a sequence of distinct emulations.
LEMMA BeginningDistinct ==
  ASSUME NEW s \in Seq(Emu), IsInjective(s), NEW n \in 0 .. Len(s)
  PROVE  LET t == SubSeq(s, 1, n)
         IN  t \in Seq(Emu) /\ Len(t) = n /\ IsInjective(t) /\ ToSet(t) \subseteq ToSet(s)
<1> DEFINE t == SubSeq(s, 1, n)
<1>1. /\ t \in Seq(Emu) /\ Len(t) = n
      /\ \A i \in 1 .. n : t[i] = s[i]
  BY SubSeqProperties
<1> HIDE DEF t
<1>2. DOMAIN s = 1 .. Len(s) /\ DOMAIN t = 1 .. n
  BY <1>1
<1>3. IsInjective(t) /\ ToSet(t) \subseteq ToSet(s)
  BY <1>1, <1>2 DEF IsInjective, ToSet
<1>4. QED  BY <1>1, <1>3 DEF t

LEMMA BeginningWithin ==
  ASSUME NEW s \in Seq(Emu), NEW n \in 0 .. Len(s), NEW m \in 0 .. n
  PROVE  ToSet(SubSeq(s, 1, m)) \subseteq ToSet(SubSeq(s, 1, n))
<1> DEFINE t == SubSeq(s, 1, n)
           u == SubSeq(s, 1, m)
<1>1. /\ t \in Seq(Emu) /\ Len(t) = n /\ \A i \in 1 .. n : t[i] = s[i]
      /\ u \in Seq(Emu) /\ Len(u) = m /\ \A i \in 1 .. m : u[i] = s[i]
  BY SubSeqProperties
<1> HIDE DEF t, u
<1>2. DOMAIN t = 1 .. n /\ DOMAIN u = 1 .. m
  BY <1>1
<1>3. ToSet(u) \subseteq ToSet(t)
  BY <1>1, <1>2 DEF ToSet
<1>4. QED  BY <1>3 DEF t, u

\* Where sidCreate() may stop: what it has locked is new storage, the chips are
\* distinct and among what it locked, and without an error none is missing.
LEMMA SidCreateKept ==
  ASSUME NEW builder, NEW addresses \in Seq(Pages \X Slots), Len(addresses) <= 2,
         NEW fresh \in Seq(Emu), IsInjective(fresh), NEW avail \in 0 .. Len(fresh)
  PROVE  LET r == SidCreate(builder, addresses, avail, fresh)
         IN  /\ r.locked \subseteq ToSet(fresh) /\ ToSet(r.chips) \subseteq r.locked
             /\ r.chips \in Seq(Emu) /\ Len(r.chips) <= 3 /\ IsInjective(r.chips)
             /\ builder = None => r.chips = <<>>
             /\ builder # None /\ r.error = "none" => Len(r.chips) = 1 + Len(addresses)
<1> DEFINE r == SidCreate(builder, addresses, avail, fresh)
           wanted == 1 + Len(addresses)
           rejects == {i \in 2 .. wanted : ~InSidArea(addresses[i - 1])}
           bad == Min(rejects \union {wanted + 1})
           made == Min({avail, wanted, bad})
           kept == IF made = bad THEN made - 1 ELSE made
<1>1. wanted \in 1 .. 3
  OBVIOUS
<1>2. bad \in 2 .. (wanted + 1)
  <2> DEFINE S == rejects \union {wanted + 1}
  <2>1. S \subseteq 2 .. (wanted + 1) /\ S # {} /\ S \in SUBSET (2 .. 4)
    BY <1>1
  <2> HIDE DEF S, wanted
  <2>2. Min(S) \in S
    BY <2>1, FewExtremes
  <2>3. QED  BY <2>1, <2>2 DEF S
<1>3. made \in {avail, wanted, bad} /\ made <= avail /\ made <= wanted
  <2> HIDE DEF bad, wanted
  <2>1. avail \in Nat /\ wanted \in Nat /\ bad \in Nat
    BY <1>1, <1>2
  <2>2. QED  BY <2>1, ChosenMin
<1>4. /\ made \in 0 .. Len(fresh) /\ kept \in 0 .. made /\ kept <= 3
      /\ made # bad /\ ~(made < wanted) => kept = wanted
  <2> HIDE DEF made, bad, wanted
  <2>1. made \in 0 .. Len(fresh)
    BY <1>1, <1>2, <1>3
  <2>2. kept \in 0 .. made
    BY <1>1, <1>2, <1>3, <2>1
  <2>3. QED  BY <1>1, <1>2, <1>3, <2>1, <2>2
<1>5. CASE builder = None
  <2>1. r.locked = {} /\ r.chips = <<>>
    BY <1>5 DEF SidCreate
  <2>2. ToSet(<<>>) = {} /\ IsInjective(<<>>)
    BY DEF ToSet, IsInjective
  <2>3. QED  BY <1>5, <2>1, <2>2
<1>6. CASE builder # None
  <2> DEFINE error == IF made = bad THEN "address"
                      ELSE IF made < wanted THEN "emulation" ELSE "none"
  <2>1. /\ r.locked = ToSet(SubSeq(fresh, 1, made))
        /\ r.chips = SubSeq(fresh, 1, kept)
        /\ r.error = error
    BY <1>6 DEF SidCreate
  <2> HIDE DEF r, made, kept, bad, wanted
  <2>2. r.locked \subseteq ToSet(fresh)
    BY <1>4, <2>1, BeginningDistinct
  <2>3. ToSet(r.chips) \subseteq r.locked
    BY <1>4, <2>1, BeginningWithin
  <2>4. kept \in 0 .. Len(fresh)
    BY <1>4
  <2>5. r.chips \in Seq(Emu) /\ Len(r.chips) = kept /\ IsInjective(r.chips)
    BY <2>1, <2>4, BeginningDistinct
  <2>6. r.error = "none" => kept = wanted
    BY <1>4, <2>1
  <2>7. QED  BY <1>4, <1>6, <2>2, <2>3, <2>5, <2>6 DEF r, wanted
<1>7. QED  BY <1>5, <1>6

\* The banks of extra SIDs: a slot leads to the chip of an address that names
\* it, if there is one, and to nothing otherwise.
LEMMA ExtraSidsMapped ==
  ASSUME NEW chips \in Seq(Emu), Len(chips) <= 3, NEW addresses \in Seq(Pages \X Slots),
         chips = <<>> \/ Len(chips) = 1 + Len(addresses)
  PROVE  LET banks == AddExtraSids(chips, addresses)
             Named(page, slot, i) == i \in 2 .. Len(chips) /\ addresses[i - 1] = <<page, slot>>
         IN  /\ DOMAIN banks \subseteq Pages
             /\ \A page \in DOMAIN banks : banks[page] = [slot \in Slots |-> banks[page][slot]]
             /\ \A page \in Pages, slot \in Slots :
                  IF \E i : Named(page, slot, i)
                  THEN page \in DOMAIN banks /\ \E i : Named(page, slot, i) /\ banks[page][slot] = chips[i]
                  ELSE page \in DOMAIN banks => banks[page][slot] = None
<1> DEFINE banks == AddExtraSids(chips, addresses)
           Named(page, slot, i) == i \in 2 .. Len(chips) /\ addresses[i - 1] = <<page, slot>>
           at(page, slot) == {i \in 2 .. Len(chips) : addresses[i - 1] = <<page, slot>>}
           pages == {addresses[i - 1][1] : i \in 2 .. Len(chips)}
<1>1. banks = [page \in pages |->
                 [slot \in Slots |->
                    IF at(page, slot) = {} THEN None ELSE chips[Max(at(page, slot))]]]
  BY DEF AddExtraSids
<1>2. \A i \in 2 .. Len(chips) : addresses[i - 1] \in Pages \X Slots
  <2> SUFFICES ASSUME NEW i \in 2 .. Len(chips)  PROVE addresses[i - 1] \in Pages \X Slots
    OBVIOUS
  <2>1. i - 1 \in 1 .. Len(addresses)
    OBVIOUS
  <2>2. QED  BY <2>1, ElementOfSeq
<1>3. pages \subseteq Pages
  BY <1>2
<1>4. ASSUME NEW page \in Pages, NEW slot \in Slots
      PROVE  IF \E i : Named(page, slot, i)
             THEN page \in DOMAIN banks /\ \E i : Named(page, slot, i) /\ banks[page][slot] = chips[i]
             ELSE page \in DOMAIN banks => banks[page][slot] = None
  <2>1. CASE \E i : Named(page, slot, i)
    <3>1. PICK i : Named(page, slot, i)
      BY <2>1
    <3>2. page \in pages
      BY <3>1
    <3>3. at(page, slot) # {} /\ at(page, slot) \in SUBSET (2 .. 4)
      <4>1. i \in at(page, slot)
        BY <3>1
      <4>2. at(page, slot) \subseteq 2 .. 4
        OBVIOUS
      <4>3. QED  BY <4>1, <4>2
    <3>4. Max(at(page, slot)) \in at(page, slot)
      <4> HIDE DEF at
      <4>1. QED  BY <3>3, FewExtremes
    <3>5. banks[page][slot] = chips[Max(at(page, slot))]
      <4> HIDE DEF at, pages, banks
      <4>1. QED  BY <1>1, <3>2, <3>3
    <3>6. Named(page, slot, Max(at(page, slot)))
      BY <3>4
    <3>7. QED  BY <1>1, <2>1, <3>2, <3>5, <3>6, ZenonT(30)
  <2>2. CASE ~\E i : Named(page, slot, i)
    <3>1. at(page, slot) = {}
      BY <2>2
    <3>2. QED  BY <1>1, <2>2, <3>1
  <2>3. QED  BY <2>1, <2>2
<1>5. DOMAIN banks \subseteq Pages /\ \A page \in DOMAIN banks : banks[page] = [slot \in Slots |-> banks[page][slot]]
  BY <1>1, <1>3
<1>6. QED  BY <1>4, <1>5

\* A mixer's pointers, when emulations other than "kept" are deleted.
LEMMA DanglingKept ==
  ASSUME NEW pointers \in Seq(Emu \union {Freed}), NEW kept
  PROVE  /\ Dangling(pointers, kept) \in Seq(Emu \union {Freed})
         /\ ToSet(pointers) \subseteq kept => Dangling(pointers, kept) = pointers
<1> DEFINE n == Len(pointers)
           d == Dangling(pointers, kept)
<1>1. n \in Nat /\ DOMAIN pointers = 1 .. n /\ pointers \in [1 .. n -> Emu \union {Freed}]
  OBVIOUS
<1>2. d = [i \in 1 .. n |-> IF pointers[i] \in kept THEN pointers[i] ELSE Freed]
  BY <1>1 DEF Dangling
<1>3. d \in [1 .. n -> Emu \union {Freed}]
  BY <1>1, <1>2
<1>4. d \in Seq(Emu \union {Freed})
  BY <1>1, <1>3
<1>5. ASSUME ToSet(pointers) \subseteq kept  PROVE d = pointers
  <2>1. \A i \in 1 .. n : pointers[i] \in kept
    BY <1>1, <1>5 DEF ToSet
  <2>2. d = [i \in 1 .. n |-> pointers[i]]
    BY <1>2, <2>1
  <2>3. QED  BY <1>1, <2>2
<1>6. QED  BY <1>4, <1>5

-----------------------------------------------------------------------------
(* The two ends of a set-up.                                               *)

Others == UNION {Unlocked[b] : b \in Builders}

Accept(op, tune, cfg) ==
  \E chips \in Seq(Emu), locked \in SUBSET (Emu \ Others) :
    /\ Len(chips) <= 3 /\ IsInjective(chips) /\ ToSet(chips) \subseteq locked
    /\ IF cfg.builder = None THEN chips = <<>> ELSE Len(chips) = 1 + Len(Addresses(tune, cfg))
    /\ Succeed(tune, cfg, Made(Unlocked, cfg.builder, locked), chips, Addresses(tune, cfg))
    /\ tune.fault = "none"
    /\ machine' = C64Model(tune, cfg) /\ cpu' = "ready" /\ memory' = tune
    /\ m_simpleMixer' = Dangling(m_simpleMixer, Others) /\ mixerDue' = TRUE
    /\ reply' = Returned(op, TRUE, 0)

Reject(op, tune, cfg) ==
  \E leaked \in SUBSET (Emu \ Others) :
    /\ Fail(Made(Unlocked, cfg.builder, leaked))
    /\ \/ UNCHANGED <<machine, cpu, memory>>
       \/ tune.fault # "none" /\ machine' = C64Model(tune, cfg) /\ cpu' = "off" /\ memory' = None
    /\ m_simpleMixer' = Dangling(m_simpleMixer, Others) /\ mixerDue' = FALSE
    /\ reply' = Returned(op, FALSE, 0)

LEMMA SetupEnds ==
  ASSUME NEW op, NEW tune \in Tunes, NEW cfg \in Configs, Setup(op, tune, cfg)
  PROVE  Accept(op, tune, cfg) \/ Reject(op, tune, cfg)
<1> DEFINE addresses == Addresses(tune, cfg)
           fresh == OrderOf(Emu \ Others)
           r(avail) == SidCreate(cfg.builder, addresses, avail, fresh)
           failed(avail) == r(avail).error # "none" \/ tune.fault # "none"
           leaked(avail) == r(avail).locked \ ToSet(r(avail).chips)
           Step(avail) ==
             /\ IF r(avail).error = "none"
                THEN machine' = C64Model(tune, cfg) /\ Initialise(tune)
                ELSE UNCHANGED <<machine, cpu, memory>>
             /\ IF failed(avail) THEN Fail(Made(Unlocked, cfg.builder, leaked(avail)))
                ELSE Succeed(tune, cfg, Made(Unlocked, cfg.builder, r(avail).locked),
                             r(avail).chips, addresses)
             /\ m_simpleMixer' = Dangling(m_simpleMixer, Others)
             /\ reply' = Returned(op, ~failed(avail), 0)
             /\ mixerDue' = ~failed(avail)
<1>1. fresh \in Seq(Emu \ Others) /\ fresh \in Seq(Emu) /\ IsInjective(fresh) /\ ToSet(fresh) \subseteq Emu \ Others
  <2>1. IsFiniteSet(Emu \ Others)
    BY PlayerAssumption, FS_Subset
  <2>5. fresh = SetToSeq(Emu \ Others)
    BY OrderFound
  <2>2. fresh \in Seq(Emu \ Others) /\ IsInjective(fresh)
    BY <2>1, <2>5, FreshLaidOut
  <2> HIDE DEF fresh
  <2>3. fresh \in Seq(Emu) /\ ToSet(fresh) \subseteq Emu \ Others
    BY <2>2 DEF ToSet
  <2>4. QED  BY <2>2, <2>3
<1>2. addresses \in Seq(Pages \X Slots) /\ Len(addresses) <= 2
  BY AddressesFew
<1>3. PICK avail \in 0 .. Len(fresh) : Step(avail)
  BY DEF Setup, Others
<1> HIDE DEF fresh, addresses
<1>4. /\ r(avail).locked \subseteq ToSet(fresh) /\ ToSet(r(avail).chips) \subseteq r(avail).locked
      /\ r(avail).chips \in Seq(Emu) /\ Len(r(avail).chips) <= 3 /\ IsInjective(r(avail).chips)
      /\ cfg.builder = None => r(avail).chips = <<>>
      /\ cfg.builder # None /\ r(avail).error = "none" => Len(r(avail).chips) = 1 + Len(addresses)
  BY <1>1, <1>2, SidCreateKept, ZenonT(60)
<1> HIDE DEF r
<1>5. CASE failed(avail)
  <2>1. leaked(avail) \in SUBSET (Emu \ Others)
    BY <1>1, <1>4
  <2>2. /\ Fail(Made(Unlocked, cfg.builder, leaked(avail)))
        /\ m_simpleMixer' = Dangling(m_simpleMixer, Others) /\ mixerDue' = FALSE
        /\ reply' = Returned(op, FALSE, 0)
    BY <1>3, <1>5
  <2>3. \/ UNCHANGED <<machine, cpu, memory>>
        \/ tune.fault # "none" /\ machine' = C64Model(tune, cfg) /\ cpu' = "off" /\ memory' = None
    BY <1>3, <1>5 DEF Initialise
  <2>4. Reject(op, tune, cfg)
    BY <2>1, <2>2, <2>3 DEF Reject
  <2>5. QED  BY <2>4
<1>6. CASE ~failed(avail)
  <2> DEFINE chips == r(avail).chips
             locked == r(avail).locked
  <2>1. chips \in Seq(Emu) /\ locked \in SUBSET (Emu \ Others)
    BY <1>1, <1>4
  <2>2. /\ Len(chips) <= 3 /\ IsInjective(chips) /\ ToSet(chips) \subseteq locked
        /\ IF cfg.builder = None THEN chips = <<>> ELSE Len(chips) = 1 + Len(addresses)
    BY <1>4, <1>6
  <2>3. /\ Succeed(tune, cfg, Made(Unlocked, cfg.builder, locked), chips, addresses)
        /\ m_simpleMixer' = Dangling(m_simpleMixer, Others) /\ mixerDue' = TRUE
        /\ reply' = Returned(op, TRUE, 0)
    BY <1>3, <1>6
  <2>4. tune.fault = "none" /\ machine' = C64Model(tune, cfg) /\ cpu' = "ready" /\ memory' = tune
    BY <1>3, <1>6 DEF Initialise
  <2> HIDE DEF chips, locked
  <2>5. Accept(op, tune, cfg)
    BY <2>1, <2>2, <2>3, <2>4 DEF Accept, addresses
  <2>6. QED  BY <2>5
<1>7. QED  BY <1>5, <1>6

\* New emulations become those of one builder and of no other.
LEMMA MadeOwned ==
  ASSUME sidobjs \in [Builders -> SUBSET Emu],
         \A b, c \in Builders : b # c => sidobjs[b] \intersect sidobjs[c] = {},
         NEW builder \in Builders \union {None}, NEW locked \in SUBSET (Emu \ Others)
  PROVE  LET made == Made(Unlocked, builder, locked)
         IN  /\ made \in [Builders -> SUBSET Emu]
             /\ \A b, c \in Builders : b # c => made[b] \intersect made[c] = {}
             /\ builder # None => locked \subseteq made[builder]
<1> DEFINE made == Made(Unlocked, builder, locked)
<1>1. /\ Unlocked \in [Builders -> SUBSET Emu]
      /\ \A b, c \in Builders : b # c => Unlocked[b] \intersect Unlocked[c] = {}
      /\ \A b \in Builders : Unlocked[b] \intersect locked = {}
  BY DEF Unlocked, Others
<1>2. CASE builder = None
  BY <1>1, <1>2 DEF Made
<1>3. CASE builder # None
  <2>1. made = [b \in Builders |-> IF b = builder THEN Unlocked[b] \union locked ELSE Unlocked[b]]
    BY <1>1, <1>3 DEF Made
  <2> HIDE DEF made
  <2>2. made \in [Builders -> SUBSET Emu]
    BY <1>1, <2>1
  <2>3. \A b, c \in Builders : b # c => made[b] \intersect made[c] = {}
    BY <1>1, <2>1
  <2>4. builder \in Builders /\ locked \subseteq made[builder]
    BY <1>3, <2>1
  <2>5. QED  BY <2>2, <2>3, <2>4 DEF made
<1>4. QED  BY <1>2, <1>3

LEMMA ModelType ==
  ASSUME NEW tune \in Tunes, NEW cfg \in Configs
  PROVE  C64Model(tune, cfg) \in {"PAL_B", "NTSC_M", "OLD_NTSC_M", "PAL_N", "PAL_M"}
<1>1. cfg.model \in {"PAL", "NTSC", "DREAN", "OLD_NTSC", "PAL_M"}
  BY PlayerAssumption
<1>2. Preferred(cfg.model) \in {"PAL_B", "NTSC_M", "OLD_NTSC_M", "PAL_N", "PAL_M"}
  BY <1>1 DEF Preferred
<1>3. QED  BY <1>2 DEF C64Model

\* A configuration without its builder asks for the same in all else.
LEMMA BuilderDropped ==
  ASSUME NEW cfg \in Configs
  PROVE  LET less == [cfg EXCEPT !.builder = None]
         IN  /\ less \in Configs /\ less.builder = None
             /\ \A tune : C64Model(tune, less) = C64Model(tune, cfg)
<1> DEFINE less == [cfg EXCEPT !.builder = None]
<1>1. less \in Configs /\ less.builder = None /\ less.force = cfg.force /\ less.model = cfg.model
  BY PlayerAssumption
<1> HIDE DEF less
<1>2. \A tune : C64Model(tune, less) = C64Model(tune, cfg)
  BY <1>1 DEF C64Model
<1>3. QED  BY <1>1, <1>2 DEF less

LEMMA AcceptInv ==
  ASSUME IInv, NEW op, op # "play", NEW tune \in Tunes, NEW cfg \in Configs,
         Accept(op, tune, cfg), m_tune' = tune
  PROVE  IInv'
<1> DEFINE addresses == Addresses(tune, cfg)
<1>1. PICK chips \in Seq(Emu), locked \in SUBSET (Emu \ Others) :
        /\ Len(chips) <= 3 /\ IsInjective(chips) /\ ToSet(chips) \subseteq locked
        /\ IF cfg.builder = None THEN chips = <<>> ELSE Len(chips) = 1 + Len(addresses)
        /\ Succeed(tune, cfg, Made(Unlocked, cfg.builder, locked), chips, addresses)
        /\ tune.fault = "none"
        /\ machine' = C64Model(tune, cfg) /\ cpu' = "ready" /\ memory' = tune
        /\ m_simpleMixer' = Dangling(m_simpleMixer, Others) /\ mixerDue' = TRUE
        /\ reply' = Returned(op, TRUE, 0)
  BY DEF Accept
<1>2. addresses \in Seq(Pages \X Slots) /\ Len(addresses) <= 2
  BY AddressesFew
<1> HIDE DEF addresses
<1> DEFINE made == Made(Unlocked, cfg.builder, locked)
           banks == AddExtraSids(chips, addresses)
<1>3. cfg.builder \in Builders \union {None} /\ tune # None
  BY PlayerAssumption
<1>4. /\ m_chips' = chips /\ DOMAIN chipset' = DOMAIN chips /\ sidobjs' = made
      /\ sidBank' = (IF chips = <<>> THEN None ELSE chips[1])
      /\ extraSidBanks' = banks /\ m_cfg' = cfg
  BY <1>1 DEF Succeed
<1>5. /\ made \in [Builders -> SUBSET Emu]
      /\ \A b, c \in Builders : b # c => made[b] \intersect made[c] = {}
      /\ cfg.builder # None => locked \subseteq made[cfg.builder]
  BY <1>3, MadeOwned DEF IInv, TypeOK, Owned
<1>6. sidBank' \in ToSet(chips) \union {None}
  <2>1. chips # <<>> => 1 \in DOMAIN chips
    OBVIOUS
  <2>2. QED  BY <1>4, <2>1 DEF ToSet
<1>7. /\ DOMAIN banks \subseteq Pages
      /\ \A page \in DOMAIN banks : banks[page] = [slot \in Slots |-> banks[page][slot]]
      /\ \A page \in DOMAIN banks, slot \in Slots : banks[page][slot] \in ToSet(chips) \union {None}
  <2> DEFINE Named(page, slot, i) == i \in 2 .. Len(chips) /\ addresses[i - 1] = <<page, slot>>
  <2>1. chips = <<>> \/ Len(chips) = 1 + Len(addresses)
    BY <1>1
  <2>2. /\ DOMAIN banks \subseteq Pages
        /\ \A page \in DOMAIN banks : banks[page] = [slot \in Slots |-> banks[page][slot]]
        /\ \A page \in Pages, slot \in Slots :
             IF \E i : Named(page, slot, i)
             THEN page \in DOMAIN banks /\ \E i : Named(page, slot, i) /\ banks[page][slot] = chips[i]
             ELSE page \in DOMAIN banks => banks[page][slot] = None
    BY <1>1, <1>2, <2>1, ExtraSidsMapped
  <2>3. \A i \in 2 .. Len(chips) : chips[i] \in ToSet(chips)
    BY DEF ToSet
  <2> HIDE DEF banks
  <2>4. QED  BY <2>2, <2>3
<1>8. ToSet(chips) \subseteq Emu
  BY DEF ToSet
<1> HIDE DEF made, banks
<1>9. TypeOK'
  <2>1. /\ m_tune' \in Tunes \union {None} /\ m_cfg' \in Configs
        /\ m_chips' \in Seq(Emu) /\ Len(m_chips') <= 3 /\ DOMAIN chipset' = DOMAIN m_chips'
        /\ sidobjs' \in [Builders -> SUBSET Emu]
    BY <1>1, <1>4, <1>5
  <2>2. sidBank' \in Emu \union {None}
    BY <1>6, <1>8
  <2>3. DOMAIN extraSidBanks' \subseteq Pages
    BY <1>4, <1>7
  <2>4. \A page \in DOMAIN extraSidBanks' : extraSidBanks'[page] \in [Slots -> Emu \union {None}]
    <3> SUFFICES ASSUME NEW page \in DOMAIN banks
                 PROVE  banks[page] \in [Slots -> Emu \union {None}]
      BY <1>4
    <3>1. \A slot \in Slots : banks[page][slot] \in Emu \union {None}
      BY <1>7, <1>8
    <3>2. banks[page] = [slot \in Slots |-> banks[page][slot]]
      BY <1>7
    <3>3. QED  BY <3>1, <3>2
  <2>5. machine' \in {"PAL_B", "NTSC_M", "OLD_NTSC_M", "PAL_N", "PAL_M"}
    BY <1>1, ModelType
  <2>6. cpu' \in {"off", "ready", "halted"} /\ memory' \in Tunes \union {None}
    BY <1>1
  <2>7. m_simpleMixer' \in Seq(Emu \union {Freed})
    BY <1>1, DanglingKept DEF IInv, TypeOK
  <2>8. QED  BY <2>1, <2>2, <2>3, <2>4, <2>5, <2>6, <2>7 DEF TypeOK
<1>10. Accepted' /\ PlaysTune'
  BY <1>1, <1>4 DEF Accepted, PlaysTune
<1>11. Owned'
  <2>1. ToSet(chips) \subseteq UNION {made[b] : b \in Builders}
    <3>1. CASE cfg.builder = None
      BY <1>1, <3>1 DEF ToSet
    <3>2. CASE cfg.builder # None
      BY <1>1, <1>3, <1>5, <3>2
    <3>3. QED  BY <3>1, <3>2
  <2>2. (ToSet(m_chips) \subseteq Used)'
    BY <1>4, <2>1 DEF Used
  <2>3. IsInjective(m_chips')
    BY <1>1, <1>4
  <2>4. \A b, c \in Builders : b # c => sidobjs'[b] \intersect sidobjs'[c] = {}
    BY <1>4, <1>5
  <2>5. IF m_cfg'.builder = None THEN m_chips' = <<>> ELSE ToSet(m_chips') \subseteq sidobjs'[m_cfg'.builder]
    BY <1>1, <1>4, <1>5
  <2>6. QED  BY <2>2, <2>3, <2>4, <2>5 DEF Owned
<1>12. Routed'
  BY <1>4, <1>6, <1>7 DEF Routed
<1>13. Mixed'
  BY <1>1 DEF Mixed, Returned
<1>14. QED  BY <1>9, <1>10, <1>11, <1>12, <1>13 DEF IInv

\* A set-up that fails for the tune that is loaded leaves the machine alone.
LEMMA RejectInv ==
  ASSUME IInv, NEW op, op # "play", NEW tune \in Tunes, NEW cfg \in Configs,
         Reject(op, tune, cfg), m_tune' = None \/ (m_tune' = m_tune /\ tune = m_tune)
  PROVE  IInv'
<1>1. PICK leaked \in SUBSET (Emu \ Others) :
        /\ Fail(Made(Unlocked, cfg.builder, leaked))
        /\ \/ UNCHANGED <<machine, cpu, memory>>
           \/ tune.fault # "none" /\ machine' = C64Model(tune, cfg) /\ cpu' = "off" /\ memory' = None
        /\ m_simpleMixer' = Dangling(m_simpleMixer, Others) /\ mixerDue' = FALSE
        /\ reply' = Returned(op, FALSE, 0)
  BY DEF Reject
<1> DEFINE made == Made(Unlocked, cfg.builder, leaked)
<1>2. cfg.builder \in Builders \union {None} /\ tune # None
  BY PlayerAssumption
<1>3. /\ m_chips' = <<>> /\ chipset' = <<>> /\ sidobjs' = made
      /\ sidBank' = None /\ extraSidBanks' = <<>>
      /\ m_cfg' = [m_cfg EXCEPT !.builder = None]
  BY <1>1 DEF Fail, ClearSids
<1>4. /\ made \in [Builders -> SUBSET Emu]
      /\ \A b, c \in Builders : b # c => made[b] \intersect made[c] = {}
  BY <1>2, MadeOwned DEF IInv, TypeOK, Owned
<1> HIDE DEF made
<1>5. m_cfg \in Configs
  BY DEF IInv, TypeOK
<1>6. m_cfg' \in Configs /\ m_cfg'.builder = None /\ C64Model(m_tune, m_cfg') = C64Model(m_tune, m_cfg)
  BY <1>3, <1>5, BuilderDropped
<1>7. TypeOK'
  <2>1. m_tune' \in Tunes \union {None} /\ memory' \in Tunes \union {None} /\ cpu' \in {"off", "ready", "halted"}
    BY <1>1 DEF IInv, TypeOK
  <2>2. m_chips' \in Seq(Emu) /\ Len(m_chips') <= 3 /\ DOMAIN chipset' = DOMAIN m_chips'
    BY <1>3
  <2>3. machine' \in {"PAL_B", "NTSC_M", "OLD_NTSC_M", "PAL_N", "PAL_M"}
    BY <1>1, ModelType DEF IInv, TypeOK
  <2>4. m_simpleMixer' \in Seq(Emu \union {Freed})
    BY <1>1, DanglingKept DEF IInv, TypeOK
  <2>5. DOMAIN extraSidBanks' = {}
    BY <1>3
  <2>6. QED  BY <1>3, <1>4, <1>6, <2>1, <2>2, <2>3, <2>4, <2>5 DEF TypeOK
<1>8. Accepted'
  BY DEF IInv, Accepted
<1>9. PlaysTune'
  <2> SUFFICES ASSUME m_tune' # None
               PROVE  memory' = m_tune' /\ cpu' # "off" /\ machine' = C64Model(m_tune', m_cfg')
    BY DEF PlaysTune
  <2>1. m_tune' = m_tune /\ tune = m_tune /\ tune.fault = "none"
    BY <1>2 DEF IInv, Accepted
  <2>2. UNCHANGED <<machine, cpu, memory>>
    BY <1>1, <2>1
  <2>3. QED  BY <1>6, <2>1, <2>2 DEF IInv, PlaysTune
<1>10. ToSet(<<>>) = {} /\ IsInjective(<<>>)
  BY DEF ToSet, IsInjective
<1>11. Owned'
  BY <1>3, <1>4, <1>6, <1>10 DEF Owned
<1>12. Routed'
  BY <1>3 DEF Routed
<1>13. Mixed'
  BY <1>1, <1>3 DEF Mixed, Returned
<1>14. QED  BY <1>7, <1>8, <1>9, <1>11, <1>12, <1>13 DEF IInv

-----------------------------------------------------------------------------
(* The calls.                                                              *)

LEMMA InitInv ==
  ASSUME Init  PROVE IInv
<1>1. ToSet(<<>>) = {} /\ IsInjective(<<>>)
  BY DEF ToSet, IsInjective
<1>2. TypeOK
  <2>1. m_chips \in Seq(Emu) /\ Len(m_chips) <= 3 /\ DOMAIN chipset = DOMAIN m_chips
    BY DEF Init
  <2>2. m_simpleMixer \in Seq(Emu \union {Freed}) /\ DOMAIN extraSidBanks = {}
    BY DEF Init
  <2>3. m_cfg \in Configs
    BY PlayerAssumption DEF Init
  <2>4. QED  BY <2>1, <2>2, <2>3 DEF Init, TypeOK
<1>3. Owned /\ Routed
  BY <1>1 DEF Init, Owned, Routed
<1>4. Accepted /\ PlaysTune /\ Mixed
  BY DEF Init, Accepted, PlaysTune, Mixed, Returned
<1>5. QED  BY <1>2, <1>3, <1>4 DEF IInv

\* What a call leaves alone keeps its invariant, as long as the tune keeps its
\* configuration.
LEMMA KeptInv ==
  ASSUME IInv, Unchanged, m_tune' = None \/ (m_tune' = m_tune /\ m_cfg' = m_cfg),
         m_cfg' \in Configs, reply'.op # "play"
  PROVE  IInv'
<1> USE DEF IInv, Unchanged, inUse, sids
<1>1. TypeOK'
  BY DEF TypeOK
<1>2. Accepted' /\ PlaysTune'
  BY DEF Accepted, PlaysTune
<1>3. Owned' /\ Routed'
  BY DEF Owned, Routed, Used
<1>4. Mixed'
  BY DEF Mixed
<1>5. QED  BY <1>1, <1>2, <1>3, <1>4

LEMMA ConfigInv ==
  ASSUME IInv, NEW cfg \in Configs, Config(cfg)  PROVE IInv'
<1>1. m_cfg \in Configs /\ m_tune \in Tunes \union {None}
  BY DEF IInv, TypeOK
<1>2. CASE cfg = m_cfg \/ cfg.rate = "bad" \/ m_tune = None
  <2>1. Unchanged /\ m_tune' = m_tune /\ m_cfg' \in Configs /\ reply'.op # "play"
    BY <1>1, <1>2 DEF Config, Returned
  <2>2. m_tune' = None \/ m_cfg' = m_cfg
    BY <1>2 DEF Config
  <2>3. QED  BY <2>1, <2>2, KeptInv
<1>3. CASE ~(cfg = m_cfg \/ cfg.rate = "bad" \/ m_tune = None)
  <2>1. Setup("config", m_tune, cfg) /\ m_tune' = m_tune /\ m_tune \in Tunes
    BY <1>1, <1>3 DEF Config
  <2>2. CASE Accept("config", m_tune, cfg)
    BY <2>1, <2>2, AcceptInv
  <2>3. CASE Reject("config", m_tune, cfg)
    BY <2>1, <2>3, RejectInv
  <2>4. QED  BY <2>1, <2>2, <2>3, SetupEnds
<1>4. QED  BY <1>2, <1>3

LEMMA LoadInv ==
  ASSUME IInv, NEW tune \in Tunes, Load(tune)  PROVE IInv'
<1>1. Setup("load", tune, m_cfg) /\ m_tune' = (IF reply'.ok THEN tune ELSE None) /\ m_cfg \in Configs
  BY DEF Load, IInv, TypeOK
<1>2. CASE Accept("load", tune, m_cfg)
  <2>1. m_tune' = tune
    BY <1>1, <1>2 DEF Accept, Returned
  <2>2. QED  BY <1>1, <1>2, <2>1, AcceptInv
<1>3. CASE Reject("load", tune, m_cfg)
  <2>1. m_tune' = None
    BY <1>1, <1>3 DEF Reject, Returned
  <2>2. QED  BY <1>1, <1>3, <2>1, RejectInv
<1>4. QED  BY <1>1, <1>2, <1>3, SetupEnds

LEMMA UnloadInv ==
  ASSUME IInv, Unload  PROVE IInv'
<1>1. Unchanged /\ m_tune' = None /\ m_cfg' \in Configs /\ reply'.op # "play"
  BY DEF Unload, Returned, IInv, TypeOK
<1>2. QED  BY <1>1, KeptInv

\* A call that keeps the chips, their builders and the routes to them.
LEMMA SameChipsInv ==
  ASSUME IInv, UNCHANGED <<m_tune, m_cfg, inUse, sidobjs, sids, machine>>
  PROVE  Accepted' /\ Owned' /\ Routed'
<1> USE DEF IInv, inUse, sids
<1>1. Accepted'
  BY DEF Accepted
<1>2. Owned'
  BY DEF Owned, Used
<1>3. Routed'
  BY DEF Routed
<1>4. QED  BY <1>1, <1>2, <1>3

LEMMA ResetInv ==
  ASSUME IInv, Reset  PROVE IInv'
<1>1. m_tune # None /\ m_tune \in Tunes /\ m_tune.fault = "none"
  BY DEF Reset, IInv, TypeOK, Accepted
<1>2. /\ cpu' = "ready" /\ memory' = m_tune /\ reply' = Returned("reset", TRUE, 0)
      /\ UNCHANGED <<m_tune, m_cfg, inUse, sidobjs, sids, machine, m_simpleMixer, mixerDue>>
  BY <1>1 DEF Reset, Initialise
<1>3. TypeOK'
  BY <1>1, <1>2 DEF IInv, TypeOK, inUse, sids
<1>4. PlaysTune'
  BY <1>1, <1>2 DEF IInv, PlaysTune
<1>5. Mixed'
  BY <1>2 DEF IInv, Mixed, Returned, inUse
<1>6. Accepted' /\ Owned' /\ Routed'
  BY <1>2, SameChipsInv
<1>7. QED  BY <1>3, <1>4, <1>5, <1>6 DEF IInv

LEMMA PlayInv ==
  ASSUME IInv, Play  PROVE IInv'
<1>1. /\ UNCHANGED <<m_tune, m_cfg, inUse, sidobjs, sids, machine, memory, m_simpleMixer, mixerDue>>
      /\ mixerDue => m_chips = <<>>
  BY DEF Play
<1>2. cpu' = cpu \/ (cpu = "ready" /\ cpu' = "halted")
  BY DEF Play
<1>3. TypeOK'
  BY <1>1, <1>2 DEF IInv, TypeOK, inUse, sids
<1>4. PlaysTune'
  BY <1>1, <1>2 DEF IInv, PlaysTune
<1>5. Mixed'
  <2>1. reply'.samples > 0 => m_chips # <<>>
    BY DEF Play, Returned
  <2>2. QED  BY <1>1, <2>1 DEF IInv, Mixed, inUse
<1>6. Accepted' /\ Owned' /\ Routed'
  BY <1>1, SameChipsInv
<1>7. QED  BY <1>3, <1>4, <1>5, <1>6 DEF IInv

LEMMA InitMixerInv ==
  ASSUME IInv, InitMixer  PROVE IInv'
<1>1. /\ UNCHANGED <<m_tune, m_cfg, inUse, sidobjs, sids, machine, cpu, memory>>
      /\ m_simpleMixer' = m_chips /\ mixerDue' = FALSE
  BY DEF InitMixer
<1>2. m_chips \in Seq(Emu \union {Freed})
  BY DEF IInv, TypeOK
<1>3. TypeOK'
  BY <1>1, <1>2 DEF IInv, TypeOK, inUse, sids
<1>4. PlaysTune'
  BY <1>1 DEF IInv, PlaysTune
<1>5. Mixed'
  BY <1>1 DEF Mixed, inUse
<1>6. Accepted' /\ Owned' /\ Routed'
  BY <1>1, SameChipsInv
<1>7. QED  BY <1>3, <1>4, <1>5, <1>6 DEF IInv

LEMMA RemoveBuilderInv ==
  ASSUME IInv, NEW b \in Builders, RemoveBuilder(b)  PROVE IInv'
<1> DEFINE kept == Used \ sidobjs[b]
<1>1. /\ m_tune # None /\ m_cfg.builder # b
      /\ sidobjs' = [sidobjs EXCEPT ![b] = {}]
      /\ m_simpleMixer' = Dangling(m_simpleMixer, kept)
      /\ reply' = Returned("remove", TRUE, 0)
      /\ UNCHANGED <<m_tune, m_cfg, inUse, sids, machine, cpu, memory, mixerDue>>
  BY DEF RemoveBuilder
<1>2. m_cfg.builder \in Builders \union {None}
  BY PlayerAssumption DEF IInv, TypeOK
<1>3. ToSet(m_chips) \subseteq kept
  <2>1. CASE m_cfg.builder = None
    <3>1. ToSet(m_chips) = {}
      BY <1>1, <2>1 DEF IInv, Owned, ToSet
    <3>2. QED  BY <3>1
  <2>2. CASE m_cfg.builder # None
    BY <1>1, <1>2, <2>2 DEF IInv, Owned
  <2>3. QED  BY <2>1, <2>2
<1>4. /\ sidobjs' \in [Builders -> SUBSET Emu]
      /\ \A c, d \in Builders : c # d => sidobjs'[c] \intersect sidobjs'[d] = {}
      /\ \A c \in Builders : c # b => sidobjs'[c] = sidobjs[c]
  BY <1>1 DEF IInv, TypeOK, Owned
<1>5. m_simpleMixer' \in Seq(Emu \union {Freed})
  BY <1>1, DanglingKept DEF IInv, TypeOK
<1>6. TypeOK'
  BY <1>1, <1>4, <1>5 DEF IInv, TypeOK, inUse, sids
<1>7. Accepted' /\ PlaysTune'
  BY <1>1 DEF IInv, Accepted, PlaysTune
<1>8. Routed'
  BY <1>1 DEF IInv, Routed, inUse, sids
<1>9. Owned'
  <2>1. IF m_cfg'.builder = None THEN m_chips' = <<>> ELSE ToSet(m_chips') \subseteq sidobjs'[m_cfg'.builder]
    BY <1>1, <1>2, <1>4 DEF IInv, Owned, inUse
  <2>2. (ToSet(m_chips) \subseteq Used)'
    <3>1. \A e \in kept : \E c \in Builders : c # b /\ e \in sidobjs[c]
      BY DEF Used
    <3>2. QED  BY <1>1, <1>3, <1>4, <3>1 DEF Used, inUse
  <2>3. IsInjective(m_chips')
    BY <1>1 DEF IInv, Owned, inUse
  <2>4. QED  BY <1>4, <2>1, <2>2, <2>3 DEF Owned
<1>10. Mixed'
  <2>1. m_chips \in Seq(Emu \union {Freed}) /\ m_chips' = m_chips
    BY <1>1 DEF IInv, TypeOK, inUse
  <2>2. m_simpleMixer = m_chips => m_simpleMixer' = m_chips
    BY <1>1, <1>3, <2>1, DanglingKept
  <2>3. QED  BY <1>1, <2>1, <2>2 DEF IInv, Mixed, Returned
<1>11. QED  BY <1>6, <1>7, <1>8, <1>9, <1>10 DEF IInv

LEMMA StutterInv ==
  ASSUME IInv, UNCHANGED vars  PROVE IInv'
<1> USE DEF IInv, vars, inUse, sids
<1>1. TypeOK'
  BY DEF TypeOK
<1>2. PlaysTune' /\ Mixed'
  BY DEF PlaysTune, Mixed
<1>3. Accepted' /\ Owned' /\ Routed'
  BY SameChipsInv
<1>4. QED  BY <1>1, <1>2, <1>3

-----------------------------------------------------------------------------
(* What the configuration names.                                           *)

\* Each SID is of the model asked for, or of the one that stands for it.
LEMMA ModelAsked ==
  ASSUME NEW tune \in Tunes, NEW cfg \in Configs, NEW i \in Nat
  PROVE  SidModel(tune, cfg, i) =
           IF cfg.forceSid THEN cfg.sid
           ELSE IF Requested(tune, i) \in {"6581", "8580"} THEN tune.sids[i]
           ELSE IF i = 1 THEN cfg.sid ELSE SidModel(tune, cfg, 1)
<1>1. tune.sids \in Seq({"6581", "8580", "UNKNOWN", "ANY"}) /\ cfg.forceSid \in BOOLEAN
  BY PlayerAssumption
<1>2. \A j \in Nat : Requested(tune, j) \in {"6581", "8580", "UNKNOWN", "ANY"}
  BY <1>1 DEF Requested
<1>3. Requested(tune, i) \in {"6581", "8580"} => Requested(tune, i) = tune.sids[i]
  BY DEF Requested
<1>4. QED  BY <1>1, <1>2, <1>3 DEF SidModel, GetSidModel

LEMMA AcceptHonest ==
  ASSUME NEW op, NEW tune \in Tunes, NEW cfg \in Configs, IInv,
         Accept(op, tune, cfg), m_tune' = tune
  PROVE  Honest'
<1> DEFINE addresses == Addresses(tune, cfg)
<1>1. PICK chips \in Seq(Emu), locked \in SUBSET (Emu \ Others) :
        /\ Len(chips) <= 3 /\ ToSet(chips) \subseteq locked
        /\ IF cfg.builder = None THEN chips = <<>> ELSE Len(chips) = 1 + Len(addresses)
        /\ Succeed(tune, cfg, Made(Unlocked, cfg.builder, locked), chips, addresses)
        /\ machine' = C64Model(tune, cfg)
  BY DEF Accept
<1>2. addresses \in Seq(Pages \X Slots) /\ Len(addresses) <= 2
  BY AddressesFew
<1> DEFINE made == Made(Unlocked, cfg.builder, locked)
           banks == AddExtraSids(chips, addresses)
           named == Addresses(m_tune', m_cfg')
<1>3. /\ m_chips' = chips /\ sidobjs' = made /\ m_cfg' = cfg /\ named = addresses
      /\ chipset' = [i \in DOMAIN chips |->
                       [model |-> SidModel(tune, cfg, i), machine |-> SidParams(tune, cfg)]]
      /\ sidBank' = (IF chips = <<>> THEN None ELSE chips[1])
      /\ extraSidBanks' = banks
  BY <1>1 DEF Succeed
<1>4. cfg.builder \in Builders \union {None} /\ None \notin Emu
  BY PlayerAssumption
<1>5. cfg.builder # None => locked \subseteq made[cfg.builder]
  BY <1>4, MadeOwned DEF IInv, TypeOK, Owned
<1>6. DOMAIN chips = 1 .. Len(chips) /\ \A i \in DOMAIN chips : chips[i] \in Emu
  OBVIOUS
<1> DEFINE Named(page, slot, i) == i \in 2 .. Len(chips) /\ addresses[i - 1] = <<page, slot>>
<1>7. \A page \in Pages, slot \in Slots :
        IF \E i : Named(page, slot, i)
        THEN page \in DOMAIN banks /\ \E i : Named(page, slot, i) /\ banks[page][slot] = chips[i]
        ELSE page \in DOMAIN banks => banks[page][slot] = None
  <2> HIDE DEF addresses
  <2>1. chips = <<>> \/ Len(chips) = 1 + Len(addresses)
    BY <1>1
  <2>2. QED  BY <1>1, <1>2, <2>1, ExtraSidsMapped
<1> HIDE DEF addresses, banks, made, named
<1>8. IF m_cfg'.builder = None THEN m_chips' = <<>>
      ELSE Len(m_chips') = 1 + Len(named) /\ ToSet(m_chips') \subseteq sidobjs'[m_cfg'.builder]
  BY <1>1, <1>3, <1>5
<1>9. ASSUME NEW i \in DOMAIN m_chips'
      PROVE  /\ chipset'[i].machine = machine'
             /\ chipset'[i].model =
                  IF m_cfg'.forceSid THEN m_cfg'.sid
                  ELSE IF Requested(m_tune', i) \in {"6581", "8580"} THEN m_tune'.sids[i]
                  ELSE IF i = 1 THEN m_cfg'.sid ELSE chipset'[1].model
  <2>1. i \in 1 .. Len(chips) /\ 1 \in DOMAIN chips /\ i \in DOMAIN chips
    BY <1>3, <1>6
  <2>2. /\ chipset'[i].machine = machine'
        /\ chipset'[i].model = SidModel(tune, cfg, i) /\ chipset'[1].model = SidModel(tune, cfg, 1)
    BY <1>1, <1>3, <2>1 DEF SidParams
  <2>3. QED  BY <1>3, <2>1, <2>2, ModelAsked
<1>10. ASSUME m_chips' # <<>>, NEW page \in Pages, NEW slot \in Slots
       PROVE  IF <<page, slot>> \in ToSet(named)
              THEN \E i \in 2 .. Len(m_chips') :
                     named[i - 1] = <<page, slot>> /\ Reached(page, slot)' = <<"SID", m_chips'[i]>>
              ELSE Reached(page, slot)' =
                     IF Device(page) = "SID" THEN <<"SID", m_chips'[1]>> ELSE <<Device(page)>>
  <2>1. Len(chips) = 1 + Len(addresses) /\ sidBank' = chips[1]
    BY <1>1, <1>3, <1>10
  <2>2. <<page, slot>> \in ToSet(named) <=> \E i : Named(page, slot, i)
    <3>1. ASSUME NEW i, Named(page, slot, i)  PROVE <<page, slot>> \in ToSet(addresses)
      <4>1. i - 1 \in DOMAIN addresses
        BY <1>2, <2>1, <3>1
      <4>2. QED  BY <3>1, <4>1 DEF ToSet
    <3>2. ASSUME NEW j \in DOMAIN addresses, addresses[j] = <<page, slot>>
          PROVE  Named(page, slot, j + 1)
      BY <1>2, <2>1, <3>2
    <3>3. QED  BY <1>3, <3>1, <3>2 DEF ToSet
  <2>3. CASE \E i : Named(page, slot, i)
    <3>1. PICK i : Named(page, slot, i) /\ banks[page][slot] = chips[i]
      BY <1>7, <2>3
    <3>2. page \in DOMAIN banks /\ banks[page][slot] # None
      <4>1. chips[i] \in Emu
        BY <1>6, <3>1
      <4>2. QED  BY <1>4, <1>7, <2>3, <3>1, <4>1
    <3>3. Reached(page, slot)' = <<"SID", chips[i]>>
      BY <1>3, <3>1, <3>2 DEF Reached
    <3>4. QED  BY <1>3, <2>2, <2>3, <3>1, <3>3
  <2>4. CASE ~\E i : Named(page, slot, i)
    <3>1. page \in DOMAIN banks => banks[page][slot] = None
      BY <1>7, <2>4
    <3>2. QED  BY <1>3, <2>1, <2>2, <2>4, <3>1 DEF Reached
  <2>5. QED  BY <2>3, <2>4
<1>11. QED  BY <1>8, <1>9, <1>10 DEF Honest, named

LEMMA RejectHonest ==
  ASSUME NEW op, NEW tune \in Tunes, NEW cfg \in Configs, IInv, Reject(op, tune, cfg)
  PROVE  Honest'
<1>1. m_chips' = <<>> /\ m_cfg' = [m_cfg EXCEPT !.builder = None]
  BY DEF Reject, Fail
<1>2. m_cfg'.builder = None
  BY <1>1, BuilderDropped DEF IInv, TypeOK
<1>3. QED  BY <1>1, <1>2 DEF Honest

LEMMA NextHonest ==
  ASSUME IInv, Honest, [Next]_vars  PROVE Honest'
<1>1. ASSUME NEW cfg \in Configs, Config(cfg)  PROVE Honest'
  <2>1. CASE cfg = m_cfg \/ cfg.rate = "bad" \/ m_tune = None
    <3>1. Unchanged /\ m_tune' = m_tune /\ (m_tune = None \/ m_cfg' = m_cfg)
      BY <1>1, <2>1 DEF Config
    <3>2. QED  BY <3>1, ZenonT(60) DEF Honest, Reached, Unchanged, inUse, sids
  <2>2. CASE ~(cfg = m_cfg \/ cfg.rate = "bad" \/ m_tune = None)
    <3>1. Setup("config", m_tune, cfg) /\ m_tune' = m_tune /\ m_tune \in Tunes
      BY <1>1, <2>2 DEF Config, IInv, TypeOK
    <3>2. QED  BY <3>1, SetupEnds, AcceptHonest, RejectHonest
  <2>3. QED  BY <2>1, <2>2
<1>2. ASSUME NEW tune \in Tunes, Load(tune)  PROVE Honest'
  <2>1. Setup("load", tune, m_cfg) /\ m_tune' = (IF reply'.ok THEN tune ELSE None) /\ m_cfg \in Configs
    BY <1>2 DEF Load, IInv, TypeOK
  <2>2. CASE Accept("load", tune, m_cfg)
    <3>1. m_tune' = tune
      BY <2>1, <2>2 DEF Accept, Returned
    <3>2. QED  BY <2>1, <2>2, <3>1, AcceptHonest
  <2>3. CASE Reject("load", tune, m_cfg)
    BY <2>1, <2>3, RejectHonest
  <2>4. QED  BY <2>1, <2>2, <2>3, SetupEnds
<1>3. CASE Unload
  BY <1>3 DEF Unload, Honest
<1>4. CASE Reset \/ Play \/ InitMixer \/ UNCHANGED vars
  <2>1. UNCHANGED <<m_tune, m_cfg, inUse, sidobjs, sids, machine>>
    BY <1>4 DEF Reset, Play, InitMixer, vars
  <2>2. QED  BY <2>1, ZenonT(60) DEF Honest, Reached, inUse, sids
<1>5. ASSUME NEW b \in Builders, RemoveBuilder(b)  PROVE Honest'
  <2>1. /\ m_cfg.builder # b /\ sidobjs' = [sidobjs EXCEPT ![b] = {}]
        /\ UNCHANGED <<m_tune, m_cfg, inUse, sids, machine>>
    BY <1>5 DEF RemoveBuilder
  <2>2. m_cfg.builder \in Builders \union {None} /\ DOMAIN sidobjs = Builders
    BY PlayerAssumption DEF IInv, TypeOK
  <2>3. m_cfg.builder # None => sidobjs'[m_cfg.builder] = sidobjs[m_cfg.builder]
    BY <2>1, <2>2
  <2>4. QED  BY <2>1, <2>3, ZenonT(60) DEF Honest, Reached, inUse, sids
<1>6. QED  BY <1>1, <1>2, <1>3, <1>4, <1>5 DEF Next

-----------------------------------------------------------------------------
(* The theorems.                                                           *)

\* IInv is an invariant: in particular no pointer into an emulation's buffer
\* and no page of the I/O area outlives the emulations they lead to.
THEOREM Invariance == Spec => []IInv
<1>1. ASSUME IInv, [Next]_vars  PROVE IInv'
  BY <1>1, ConfigInv, LoadInv, UnloadInv, ResetInv, PlayInv, InitMixerInv, RemoveBuilderInv, StutterInv
  DEF Next
<1>2. QED  BY InitInv, <1>1, PTL DEF Spec

\* player.cpp's load() and config(): the tune they accept is the one in memory,
\* with the CPU on the queue or stopped by an opcode, on the machine it asks for.
THEOREM PlaysTuneCorrect == Spec => []PlaysTune
BY Invariance, PTL DEF IInv

\* sidRelease() and the C64's banks: after any calls and failures the chips are
\* distinct emulations that exist, the I/O area leads to them only, and play()
\* reports no sample that is not from their buffers.
THEOREM AliveCorrect == Spec => []Alive
<1>1. ASSUME IInv  PROVE Alive
  <2>1. ASSUME NEW page \in Pages, NEW slot \in Slots, Reached(page, slot)[1] = "SID"
        PROVE  Reached(page, slot)[2] = None \/ Reached(page, slot)[2] \in ToSet(m_chips)
    <3>1. CASE page \in DOMAIN extraSidBanks /\ extraSidBanks[page][slot] # None
      BY <1>1, <3>1 DEF IInv, Routed, Reached
    <3>2. CASE ~(page \in DOMAIN extraSidBanks /\ extraSidBanks[page][slot] # None) /\ Device(page) = "SID"
      BY <1>1, <3>2 DEF IInv, Routed, Reached
    <3>3. CASE ~(page \in DOMAIN extraSidBanks /\ extraSidBanks[page][slot] # None) /\ Device(page) # "SID"
      BY <2>1, <3>3 DEF Reached
    <3>4. QED  BY <3>1, <3>2, <3>3
  <2>2. reply.op = "play" /\ reply.samples > 0 => m_simpleMixer = m_chips
    BY <1>1 DEF IInv, Mixed
  <2>3. QED  BY <1>1, <2>1, <2>2 DEF IInv, Owned, Alive
<1>2. QED  BY Invariance, <1>1, PTL

\* sidCreate(), addExtraSid() and c64model(): with a tune loaded there is a SID
\* for each address that tune or configuration names, from the builder it names,
\* reached there and nowhere else, of the model and at the speed asked for.
THEOREM HonestCorrect == Spec => []Honest
<1>1. Init => Honest
  BY DEF Init, Honest
<1>2. QED  BY <1>1, Invariance, NextHonest, PTL DEF Spec

-----------------------------------------------------------------------------
(* The search for the files of a tune (Loader).                            *)

\* Of the places in a list there is a first.
LEMMA LeastNumber ==
  ASSUME NEW n \in Nat, NEW T \in SUBSET (0..n), T # {}
  PROVE  \E x \in T : \A y \in T : x <= y
<1> DEFINE Upto(x) == {i \in T : i <= x}
           S == 0..n
           D == {Upto(x) : x \in T}
<1>1. IsFiniteSet(S)
  BY FS_Interval
<1>2. D \subseteq SUBSET S /\ D # {}
  OBVIOUS
<1>3. IsWellFoundedOn(StrictSubsetOrdering(S), SUBSET S)
  <2> HIDE DEF S
  <2> QED BY <1>1, FS_StrictSubsetOrderingWellFounded, FS_FiniteSubsetsOfFinite
<1>4. PICK d \in D : \A c \in D : ~ (<<c, d>> \in StrictSubsetOrdering(S))
  <2> HIDE DEF D, S
  <2> QED BY <1>2, <1>3, WFMin
<1>5. PICK x \in T : d = Upto(x)
  OBVIOUS
<1>6. ASSUME NEW y \in T, ~ (x <= y)  PROVE FALSE
  <2>1. x \in Int /\ y \in Int /\ y < x /\ T \subseteq Int
    BY <1>6
  <2>2. \A i \in T : i <= y => i <= x
    BY <2>1
  <2>3. Upto(y) \subseteq Upto(x)
    BY <2>2
  <2>4. x \notin Upto(y)
    BY <1>6
  <2>5. x \in Upto(x)
    <3>1. x <= x BY <2>1
    <3> QED BY <3>1
  <2>6. Upto(y) \in SUBSET S /\ d \in SUBSET S /\ Upto(y) # d /\ Upto(y) \subseteq d /\ Upto(y) \in D
    BY <2>3, <2>4, <2>5, <1>5, <1>2
  <2>7. <<Upto(y), d>> \in StrictSubsetOrdering(S)
    <3> HIDE DEF S, Upto, D
    <3> QED BY <2>6 DEF StrictSubsetOrdering
  <2> QED BY <2>6, <2>7, <1>4
<1> QED BY <1>6

LEMMA FirstPlace ==
  ASSUME NEW n \in Nat, NEW T \in SUBSET (1 .. n), T # {}
  PROVE  Search!Min(T) \in T /\ \A y \in T : Search!Min(T) <= y
<1>1. T \in SUBSET (0 .. n)
  OBVIOUS
<1>2. \E x \in T : \A y \in T : x =< y
  BY <1>1, LeastNumber
<1>3. QED  BY <1>2 DEF Search!Min

LEMMA FirstOfTwo ==
  ASSUME NEW a, NEW b
  PROVE  Search!FirstOf(<<a, b>>) = IF a # Search!Unknown THEN a
                                    ELSE IF b # Search!Unknown THEN b ELSE Search!Error
<1> DEFINE c == <<a, b>>
           hits == {n \in DOMAIN c : c[n] # Search!Unknown}
<1>1. hits \in SUBSET (1 .. 2) /\ 2 \in Nat /\ c[1] = a /\ c[2] = b
  OBVIOUS
<1>2. \A n \in 1 .. 2 : n \in hits <=> c[n] # Search!Unknown
  OBVIOUS
<1>3. Search!FirstOf(c) = IF hits = {} THEN Search!Error ELSE c[Search!Min(hits)]
  BY DEF Search!FirstOf
<1> HIDE DEF c, hits
<1>4. hits # {} => Search!Min(hits) \in hits /\ \A y \in hits : Search!Min(hits) <= y
  BY <1>1, FirstPlace
<1>5. CASE a # Search!Unknown
  <2>1. 1 \in hits
    BY <1>1, <1>2, <1>5
  <2>2. PICK m \in 1 .. 2 : m = Search!Min(hits) /\ m <= 1
    BY <1>1, <1>4, <2>1
  <2>3. Search!Min(hits) = 1
    BY <2>2
  <2>4. QED  BY <1>1, <1>3, <1>5, <2>1, <2>3 DEF c
<1>6. CASE a = Search!Unknown /\ b # Search!Unknown
  <2>1. 2 \in hits /\ 1 \notin hits
    BY <1>1, <1>2, <1>6
  <2>2. PICK m \in 1 .. 2 : m = Search!Min(hits) /\ m \in hits
    BY <1>1, <1>4, <2>1
  <2>3. Search!Min(hits) = 2
    <3>1. m # 1
      BY <2>1, <2>2
    <3>2. QED  BY <2>2, <3>1
  <2>4. QED  BY <1>1, <1>3, <1>6, <2>1, <2>3 DEF c
<1>7. CASE a = Search!Unknown /\ b = Search!Unknown
  <2>1. hits = {}
    BY <1>1, <1>2, <1>7
  <2>2. QED  BY <1>3, <1>7, <2>1 DEF c
<1>8. QED  BY <1>5, <1>6, <1>7

\* Of four formats, what is needed here: the first known one, if it is among
\* the first two, and one of the four in any case.
LEMMA FirstOfFour ==
  ASSUME NEW a, NEW b, NEW c, NEW d
  PROVE  /\ Search!FirstOf(<<a, b, c, d>>) \in {a, b, c, d, Search!Error}
         /\ a = Search!Unknown /\ b # Search!Unknown => Search!FirstOf(<<a, b, c, d>>) = b
<1> DEFINE l == <<a, b, c, d>>
           hits == {n \in DOMAIN l : l[n] # Search!Unknown}
<1>1. /\ hits \in SUBSET (1 .. 4) /\ 4 \in Nat
      /\ l[1] = a /\ l[2] = b /\ l[3] = c /\ l[4] = d
  OBVIOUS
<1>2. \A n \in 1 .. 4 : n \in hits <=> l[n] # Search!Unknown
  OBVIOUS
<1>3. Search!FirstOf(l) = IF hits = {} THEN Search!Error ELSE l[Search!Min(hits)]
  BY DEF Search!FirstOf
<1> HIDE DEF l, hits
<1>4. hits # {} => Search!Min(hits) \in hits /\ \A y \in hits : Search!Min(hits) <= y
  BY <1>1, FirstPlace
<1>5. Search!FirstOf(l) \in {a, b, c, d, Search!Error}
  <2>1. CASE hits = {}
    BY <1>3, <2>1
  <2>2. CASE hits # {}
    <3>1. Search!Min(hits) \in 1 .. 4
      BY <1>1, <1>4, <2>2
    <3>2. QED  BY <1>1, <1>3, <2>2, <3>1
  <2>3. QED  BY <2>1, <2>2
<1>6. ASSUME a = Search!Unknown, b # Search!Unknown  PROVE Search!FirstOf(l) = b
  <2>1. 2 \in hits /\ 1 \notin hits
    BY <1>1, <1>2, <1>6
  <2>2. PICK m \in 1 .. 4 : m = Search!Min(hits) /\ m \in hits /\ m <= 2
    BY <1>1, <1>4, <2>1
  <2>3. Search!Min(hits) = 2
    <3>1. m # 1
      BY <2>1, <2>2
    <3>2. QED  BY <2>2, <3>1
  <2>4. QED  BY <1>1, <1>3, <2>1, <2>3
<1>7. QED  BY <1>5, <1>6 DEF l

\* What is made of two files: nothing, an error, or a tune of one or of both.
LEMMA MusIs ==
  ASSUME NEW first \in Content, NEW second \in Content
  PROVE  LET t == Search!MUS(first, second)
             limit == Search!Player1 - Search!SIDTUNE_MUS_DATA_ADDR
         IN  /\ ~Search!Detect(first) => t = Search!Unknown
             /\ Search!Detect(first) => t # Search!Unknown
             /\ second.size # 0 /\ ~Search!Detect(second) => t \in {Search!Unknown, Search!Error}
             /\ t \notin {Search!Unknown, Search!Error} =>
                  /\ Search!Detect(first) /\ (second.size # 0 => Search!Detect(second))
                  /\ first.size + second.size - 4 <= limit
                  /\ t = IF second.size # 0 THEN Search!Tune("MUS", <<first, second>>, first.size)
                         ELSE Search!Tune("MUS", <<first>>,
                                          IF first.inside # 0 THEN first.inside ELSE first.size)
             /\ /\ Search!Detect(first) /\ (second.size # 0 => Search!Detect(second))
                /\ first.size + second.size - 4 <= limit
                => t \notin {Search!Unknown, Search!Error}
<1> DEFINE one == Search!Tune("MUS", <<first>>, IF first.inside # 0 THEN first.inside ELSE first.size)
           two == Search!Tune("MUS", <<first, second>>, first.size)
<1>1. one.format = "MUS" /\ two.format = "MUS"
  BY DEF Search!Tune
<1>2. Search!Unknown.format = "unknown" /\ Search!Error.format = "error"
  BY DEF Search!Unknown, Search!Error
<1>3. /\ Search!Unknown # Search!Error
      /\ one \notin {Search!Unknown, Search!Error} /\ two \notin {Search!Unknown, Search!Error}
  BY <1>1, <1>2
<1>4. first.size \in Nat /\ second.size \in Nat
  BY DEF Content
<1> DEFINE long == first.size + second.size - 4 > Search!Player1 - Search!SIDTUNE_MUS_DATA_ADDR
<1>5. Search!MUS(first, second) =
        IF ~Search!Detect(first) THEN Search!Unknown
        ELSE IF (second.size # 0 /\ ~Search!Detect(second)) \/ long THEN Search!Error
        ELSE IF second.size # 0 THEN two ELSE one
  BY DEF Search!MUS
<1>6. long <=> ~(first.size + second.size - 4 <= Search!Player1 - Search!SIDTUNE_MUS_DATA_ADDR)
  BY <1>4 DEF Search!Player1, Search!SIDTUNE_MUS_DATA_ADDR
<1> HIDE DEF one, two, long
<1>7. QED  BY <1>3, <1>5, <1>6 DEF one, two

\* The second player is given the place of the second data.
WellPlaced(t) ==
  t.format = "MUS" /\ Search!Stereo(t) =>
    Search!PlayerData(t) =
      Search!SIDTUNE_MUS_DATA_ADDR
        + (IF Len(t.data) = 2 THEN t.data[1].size ELSE t.data[1].inside) + 2

LEMMA MusWellPlaced ==
  ASSUME NEW first \in Content, NEW second \in Content
  PROVE  WellPlaced(Search!MUS(first, second))
<1> DEFINE t == Search!MUS(first, second)
<1>1. CASE t \in {Search!Unknown, Search!Error}
  BY <1>1 DEF WellPlaced, Search!Unknown, Search!Error
<1>2. CASE t \notin {Search!Unknown, Search!Error} /\ second.size # 0
  <2>1. t = Search!Tune("MUS", <<first, second>>, first.size)
    BY <1>2, MusIs
  <2> HIDE DEF t
  <2>2. t.data = <<first, second>> /\ t.musDataLen = first.size
    BY <2>1 DEF Search!Tune
  <2>3. Len(t.data) = 2 /\ t.data[1] = first
    BY <2>2
  <2>4. QED  BY <2>2, <2>3 DEF WellPlaced, Search!PlayerData, t
<1>3. CASE t \notin {Search!Unknown, Search!Error} /\ second.size = 0
  <2>1. t = Search!Tune("MUS", <<first>>, IF first.inside # 0 THEN first.inside ELSE first.size)
    BY <1>3, MusIs
  <2> HIDE DEF t
  <2>2. /\ t.data = <<first>>
        /\ t.musDataLen = IF first.inside # 0 THEN first.inside ELSE first.size
    BY <2>1 DEF Search!Tune
  <2>3. Len(t.data) = 1 /\ t.data[1] = first
    BY <2>2
  <2>4. Search!Stereo(t) => first.inside # 0
    BY <2>3 DEF Search!Stereo
  <2>5. QED  BY <2>2, <2>3, <2>4 DEF WellPlaced, Search!PlayerData, t
<1>4. QED  BY <1>1, <1>2, <1>3

LEMMA OthersWellPlaced ==
  ASSUME NEW t, t.format # "MUS"
  PROVE  WellPlaced(t)
BY DEF WellPlaced

LEMMA ContentsAre ==
  ASSUME folder \in Folders, NEW ext
  PROVE  /\ Search!Contents(ext) \in Content
         /\ ext \in DOMAIN folder => Search!Contents(ext).size > 0 /\ Search!Contents(ext) = folder[ext]
         /\ ext \notin DOMAIN folder => Search!Contents(ext) = Search!Missing
         /\ Search!Detect(Search!Contents(ext)) => ext \in DOMAIN folder /\ Search!Readable(ext)
<1>1. Search!Missing \in Content /\ ~Search!Detect(Search!Missing)
  <2>1. Search!Missing \in Content /\ Search!Missing.format = "none"
    BY DEF Search!Missing, Content
  <2>2. QED  BY <2>1 DEF Search!Detect
<1>2. QED  BY <1>1, FilesAssumption DEF Search!Contents, Search!Readable

LEMMA CompanionPlaces == \A ext : Search!Companions(ext) \in SUBSET (1 .. 12)
BY DEF Search!Companions, Search!fileNameExtensions

\* A MUS file that is good on its own makes a tune, with a companion or without.
LEMMA FromMusIs ==
  ASSUME folder \in Folders, NEW ext, Search!MusAlone(ext)
  PROVE  /\ Search!FromMus(ext) \notin {Search!Unknown, Search!Error}
         /\ \/ Search!FromMus(ext) = Search!MUS(Search!Contents(ext), Search!Missing)
            \/ \E n \in Search!Companions(ext) :
                 Search!FromMus(ext) = Search!Pair(ext, Search!fileNameExtensions[n])
<1>1. CASE Search!Companions(ext) = {}
  BY <1>1 DEF Search!FromMus, Search!MusAlone
<1>2. CASE Search!Companions(ext) # {}
  <2>1. Search!Min(Search!Companions(ext)) \in Search!Companions(ext)
    BY <1>2, CompanionPlaces, FirstPlace
  <2>2. PICK n \in Search!Companions(ext) :
          Search!FromMus(ext) = Search!Pair(ext, Search!fileNameExtensions[n])
    BY <1>2, <2>1 DEF Search!FromMus
  <2>3. Search!Pair(ext, Search!fileNameExtensions[n]) \notin {Search!Unknown, Search!Error}
    BY <2>2 DEF Search!Companions
  <2>4. QED  BY <2>2, <2>3
<1>3. QED  BY <1>1, <1>2

LEMMA PairIsMus ==
  ASSUME folder \in Folders, NEW ext, NEW other
  PROVE  \E first, second \in Content : Search!Pair(ext, other) = Search!MUS(first, second)
<1>1. Search!Contents(ext) \in Content /\ Search!Contents(other) \in Content
  BY ContentsAre
<1>2. QED  BY <1>1 DEF Search!Pair

LEMMA FromMusMade ==
  ASSUME folder \in Folders, NEW ext, Search!MusAlone(ext)
  PROVE  \E first, second \in Content : Search!FromMus(ext) = Search!MUS(first, second)
<1>1. Search!Contents(ext) \in Content /\ Search!Missing \in Content
  BY ContentsAre DEF Search!Missing, Content
<1>2. QED  BY <1>1, FromMusIs, PairIsMus

LEMMA ResultsDiffer ==
  /\ Search!Unknown # Search!Error
  /\ Search!Unknown.format # "MUS" /\ Search!Error.format # "MUS" /\ Search!NoTune.format # "MUS"
  /\ Search!NoTune # Search!Error
BY DEF Search!Unknown, Search!Error, Search!NoTune

LEMMA TunesDiffer ==
  ASSUME NEW format, NEW data, NEW len
  PROVE  Search!Tune(format, data, len).format = format
BY DEF Search!Tune

LEMMA OtherFormats ==
  ASSUME NEW ext, NEW file
  PROVE  /\ Search!PSID(file).format # "MUS"
         /\ Search!p00(ext, file).format # "MUS" /\ Search!prg(ext, file).format # "MUS"
<1>1. Search!PSID(file).format # "MUS"
  BY ResultsDiffer, TunesDiffer DEF Search!PSID
<1>2. Search!p00(ext, file).format # "MUS"
  BY ResultsDiffer, TunesDiffer DEF Search!p00
<1>3. Search!prg(ext, file).format # "MUS"
  BY ResultsDiffer, TunesDiffer DEF Search!prg
<1>4. QED  BY <1>1, <1>2, <1>3

LEMMA FilesWellPlaced ==
  ASSUME folder \in Folders, NEW ext
  PROVE  WellPlaced(Search!GetFromFiles(ext))
<1> DEFINE file == Search!Contents(ext)
           mus == Search!MUS(file, Search!Missing)
           found == IF mus \in {Search!Unknown, Search!Error} THEN mus ELSE Search!FromMus(ext)
<1>1. /\ WellPlaced(Search!PSID(file)) /\ WellPlaced(Search!p00(ext, file))
      /\ WellPlaced(Search!prg(ext, file)) /\ WellPlaced(Search!Error)
  BY OtherFormats, OthersWellPlaced, ResultsDiffer
<1>2. WellPlaced(found)
  <2>1. CASE mus \in {Search!Unknown, Search!Error}
    BY <2>1, OthersWellPlaced, ResultsDiffer
  <2>2. CASE mus \notin {Search!Unknown, Search!Error}
    BY <2>2, FromMusMade, MusWellPlaced DEF Search!MusAlone
  <2>3. QED  BY <2>1, <2>2
<1>3. Search!GetFromFiles(ext) \in
        {Search!PSID(file), found, Search!p00(ext, file), Search!prg(ext, file), Search!Error}
  BY FirstOfFour DEF Search!GetFromFiles
<1> HIDE DEF file, found
<1>4. QED  BY <1>1, <1>2, <1>3

LEMMA BufferWellPlaced ==
  ASSUME NEW file \in Content
  PROVE  WellPlaced(Search!GetFromBuffer(file))
<1>1. Search!Missing \in Content
  BY DEF Search!Missing, Content
<1>2. /\ WellPlaced(Search!PSID(file)) /\ WellPlaced(Search!MUS(file, Search!Missing))
      /\ WellPlaced(Search!Error)
  BY <1>1, OtherFormats, OthersWellPlaced, ResultsDiffer, MusWellPlaced
<1>3. QED  BY <1>2, FirstOfTwo DEF Search!GetFromBuffer

\* A good MUS file is found as one, and with what FromMus finds.
LEMMA GoodMusFound ==
  ASSUME folder \in Folders, NEW ext, Search!MusAlone(ext)
  PROVE  /\ Search!GetFromFiles(ext) = Search!FromMus(ext)
         /\ Search!FromMus(ext) # Search!Error /\ Search!FromMus(ext).format = "MUS"
<1> DEFINE file == Search!Contents(ext)
           mus == Search!MUS(file, Search!Missing)
<1>1. file \in Content /\ Search!Missing \in Content
  BY ContentsAre DEF Search!Missing, Content
<1>2. mus \notin {Search!Unknown, Search!Error}
  BY DEF Search!MusAlone
<1>3. Search!Detect(file)
  BY <1>1, <1>2, MusIs
<1>4. Search!Readable(ext)
  BY <1>3, ContentsAre
<1>5. Search!PSID(file) = Search!Unknown
  BY <1>3 DEF Search!Detect, Search!PSID
<1>6. Search!FromMus(ext) \notin {Search!Unknown, Search!Error}
  BY FromMusIs
<1>7. Search!GetFromFiles(ext) = Search!FromMus(ext)
  BY <1>2, <1>4, <1>5, <1>6, FirstOfFour DEF Search!GetFromFiles
<1>8. Search!FromMus(ext).format = "MUS"
  <2>1. PICK first \in Content, second \in Content :
          Search!FromMus(ext) = Search!MUS(first, second)
    BY FromMusMade
  <2>2. \E data, len : Search!FromMus(ext) = Search!Tune("MUS", data, len)
    BY <1>6, <2>1, MusIs
  <2>3. QED  BY <2>2, TunesDiffer
<1>9. QED  BY <1>6, <1>7, <1>8

\* A tune that two files make has both, and is made of them.
LEMMA TwoMake ==
  ASSUME NEW first \in Content, NEW second \in Content, second.size > 0,
         Search!MUS(first, second) \notin {Search!Unknown, Search!Error}
  PROVE  /\ Search!Detect(first) /\ Search!Detect(second)
         /\ first.size + second.size - 4 <= Search!Player1 - Search!SIDTUNE_MUS_DATA_ADDR
         /\ Search!MUS(first, second) = Search!Tune("MUS", <<first, second>>, first.size)
<1>1. second.size # 0
  BY DEF Content
<1>2. QED  BY <1>1, MusIs

\* The folder has the two files of a pair, and no other voices.
Both ==
  /\ {"mus", "str"} \subseteq DOMAIN folder
  /\ Search!MUS(Search!Contents("mus"), Search!Contents("str")) \notin {Search!Unknown, Search!Error}
  /\ \A ext \in DOMAIN folder \ {"mus", "str"} : ~Search!Detect(Search!Contents(ext))

Pairing == Search!MUS(Search!Contents("mus"), Search!Contents("str"))

LEMMA BothAlone ==
  ASSUME folder \in Folders, Both, NEW ext \in {"mus", "str"}
  PROVE  Search!MusAlone(ext)
<1> DEFINE mus == Search!Contents("mus")
           str == Search!Contents("str")
<1>1. /\ mus \in Content /\ str \in Content /\ mus.size > 0 /\ str.size > 0
      /\ Search!Missing \in Content /\ Search!Missing.size = 0
  BY ContentsAre DEF Both, Search!Missing, Content
<1> HIDE DEF mus, str
<1>2. /\ Search!Detect(mus) /\ Search!Detect(str)
      /\ mus.size + str.size - 4 <= Search!Player1 - Search!SIDTUNE_MUS_DATA_ADDR
  <2>1. Search!MUS(mus, str) \notin {Search!Unknown, Search!Error}
    BY DEF Both, mus, str
  <2>2. QED  BY <1>1, <2>1, TwoMake
<1>3. /\ mus.size + 0 - 4 <= Search!Player1 - Search!SIDTUNE_MUS_DATA_ADDR
      /\ str.size + 0 - 4 <= Search!Player1 - Search!SIDTUNE_MUS_DATA_ADDR
  <2>1. mus.size \in Nat /\ str.size \in Nat
    BY <1>1 DEF Content
  <2>2. QED  BY <1>2, <2>1 DEF Search!Player1, Search!SIDTUNE_MUS_DATA_ADDR
<1>4. /\ Search!MUS(mus, Search!Missing) \notin {Search!Unknown, Search!Error}
      /\ Search!MUS(str, Search!Missing) \notin {Search!Unknown, Search!Error}
  BY <1>1, <1>2, <1>3, MusIs
<1>5. QED  BY <1>4 DEF Search!MusAlone, mus, str

\* A file that is neither of the two cannot be the second one.
LEMMA NoOtherSecond ==
  ASSUME folder \in Folders, loader = "loadFile", Both, NEW ext, NEW other,
         other \notin {"mus", "str"}, Search!Readable(other)
  PROVE  Search!MUS(Search!Contents(ext), Search!Contents(other)) \in {Search!Unknown, Search!Error}
<1>1. Search!Contents(ext) \in Content /\ Search!Contents(other) \in Content
  BY ContentsAre
<1>2. Search!Contents(other).size > 0
  BY DEF Search!Readable
<1>3. Search!Missing.size = 0
  BY DEF Search!Missing
<1>4. other \in DOMAIN folder
  BY <1>2, <1>3, ContentsAre
<1>5. ~Search!Detect(Search!Contents(other)) /\ Search!Contents(other).size # 0
  BY <1>2, <1>4 DEF Both
<1>6. QED  BY <1>1, <1>5, MusIs

LEMMA LowerIs ==
  /\ Search!Lower("mus") = "mus" /\ Search!Lower("str") = "str"
  /\ \A ext : Search!Lower(ext) = "mus" => ext \in {"mus", "MUS"}
BY DEF Search!Lower

LEMMA CompanionPairs ==
  ASSUME folder \in Folders, loader = "loadFile", Both, NEW ext \in {"mus", "str"}, NEW other,
         Search!Lower(other) # Search!Lower(ext), Search!Readable(other),
         Search!Pair(ext, other) \notin {Search!Unknown, Search!Error}
  PROVE  Search!Pair(ext, other) = Pairing
<1>1. CASE ext = "mus"
  <2>1. Search!Lower(other) # "mus" /\ other # "mus"
    BY <1>1, LowerIs
  <2>2. Search!Pair(ext, other) = Search!MUS(Search!Contents("mus"), Search!Contents(other))
    BY <1>1, <2>1 DEF Search!Pair
  <2>3. other = "str"
    BY <2>1, <2>2, NoOtherSecond
  <2>4. QED  BY <2>2, <2>3 DEF Pairing
<1>2. CASE ext = "str"
  <2>1. other # "str"
    BY <1>2, LowerIs
  <2>2. CASE Search!Lower(other) = "mus"
    <3>1. Search!Pair(ext, other) = Search!MUS(Search!Contents(other), Search!Contents("str"))
      BY <1>2, <2>2 DEF Search!Pair
    <3>2. Search!Contents(other) \in Content /\ Search!Contents("str") \in Content
      BY ContentsAre
    <3>3. Search!Detect(Search!Contents(other))
      BY <3>1, <3>2, MusIs
    <3>4. other = "mus"
      <4>1. other \in DOMAIN folder
        BY <3>3, ContentsAre
      <4>2. QED  BY <2>1, <3>3, <4>1 DEF Both
    <3>5. QED  BY <3>1, <3>4 DEF Pairing
  <2>3. CASE Search!Lower(other) # "mus"
    <3>1. Search!Pair(ext, other) = Search!MUS(Search!Contents("str"), Search!Contents(other))
      BY <1>2, <2>3 DEF Search!Pair
    <3>2. other \notin {"mus", "str"}
      BY <2>1, <2>3, LowerIs
    <3>3. QED  BY <3>1, <3>2, NoOtherSecond
  <2>4. QED  BY <2>2, <2>3
<1>3. QED  BY <1>1, <1>2

LEMMA PairFound ==
  ASSUME folder \in Folders, loader = "loadFile", Both, NEW ext \in {"mus", "str"}
  PROVE  Search!FromMus(ext) = Pairing
<1>1. Search!MusAlone(ext)
  BY BothAlone
<1>2. Search!Companions(ext) # {}
  <2>1. /\ 9 \in DOMAIN Search!fileNameExtensions /\ Search!fileNameExtensions[9] = "str"
        /\ 11 \in DOMAIN Search!fileNameExtensions /\ Search!fileNameExtensions[11] = "mus"
    BY DEF Search!fileNameExtensions
  <2>2. Search!Readable("mus") /\ Search!Readable("str")
    BY ContentsAre DEF Both, Search!Readable
  <2>3. Search!Pair("mus", "str") = Pairing /\ Search!Pair("str", "mus") = Pairing
    BY LowerIs DEF Search!Pair, Pairing
  <2>4. Pairing \notin {Search!Unknown, Search!Error}
    BY DEF Both, Pairing
  <2>5. CASE ext = "mus"
    <3>1. 9 \in Search!Companions(ext)
      BY <2>1, <2>2, <2>3, <2>4, <2>5, LowerIs DEF Search!Companions
    <3>2. QED  BY <3>1
  <2>6. CASE ext = "str"
    <3>1. 11 \in Search!Companions(ext)
      BY <2>1, <2>2, <2>3, <2>4, <2>6, LowerIs DEF Search!Companions
    <3>2. QED  BY <3>1
  <2>7. QED  BY <2>5, <2>6
<1>3. Search!Min(Search!Companions(ext)) \in Search!Companions(ext)
  BY <1>2, CompanionPlaces, FirstPlace
<1>4. PICK n \in Search!Companions(ext) :
        Search!FromMus(ext) = Search!Pair(ext, Search!fileNameExtensions[n])
  BY <1>2, <1>3 DEF Search!FromMus
<1>5. /\ Search!Lower(Search!fileNameExtensions[n]) # Search!Lower(ext)
      /\ Search!Readable(Search!fileNameExtensions[n])
      /\ Search!Pair(ext, Search!fileNameExtensions[n]) \notin {Search!Unknown, Search!Error}
  BY <1>4 DEF Search!Companions
<1>6. QED  BY <1>4, <1>5, CompanionPairs

LEMMA PairingData ==
  ASSUME folder \in Folders, Both
  PROVE  Pairing.data = <<Search!Contents("mus"), Search!Contents("str")>>
<1>1. /\ Search!Contents("mus") \in Content /\ Search!Contents("str") \in Content
      /\ Search!Contents("str").size > 0
  BY ContentsAre DEF Both
<1>2. Search!MUS(Search!Contents("mus"), Search!Contents("str"))
        \notin {Search!Unknown, Search!Error}
  BY DEF Both
<1>3. Pairing = Search!Tune("MUS", <<Search!Contents("mus"), Search!Contents("str")>>,
                            Search!Contents("mus").size)
  BY <1>1, <1>2, TwoMake DEF Pairing
<1>4. QED  BY <1>3 DEF Search!Tune

\* What PairPlays says of the object that a step leaves, in an unchanged folder.
LEMMA PairPlaysNext ==
  ASSUME folder' = folder, loader' = loader,
         fileName' # "" /\ Search!MusAlone(fileName') /\ object' # Search!Deleted
           => status' /\ object'.format = "MUS",
         fileName' \in {"mus", "str"} /\ Both /\ loader = "loadFile"
           => IF Search!MusAlone(fileName')
              THEN object'.data = <<Search!Contents("mus"), Search!Contents("str")>> ELSE ~status',
         WellPlaced(object')
  PROVE  PairPlays'
BY DEF PairPlays, Search!PairPlays, Search!MusAlone, Search!Contents, Both, WellPlaced

SearchInv == folder \in Folders /\ PairPlays

LEMMA LoadFinds ==
  ASSUME SearchInv, NEW ext, Search!Load(ext)
  PROVE  SearchInv'
<1>1. folder \in Folders /\ folder' = folder /\ loader' = loader /\ fileName' = ext
  BY DEF SearchInv, Search!Load
<1>2. CASE Search!Escapes(ext)
  <2>1. ext = "" /\ object' = Search!Deleted
    BY <1>2 DEF Search!Escapes, Search!Load
  <2>2. WellPlaced(object')
    BY <2>1, OthersWellPlaced DEF Search!Deleted
  <2>3. PairPlays'
    BY <1>1, <2>1, <2>2, PairPlaysNext
  <2>4. QED  BY <1>1, <2>3 DEF SearchInv
<1>3. CASE ~Search!Escapes(ext)
  <2> DEFINE result == Search!GetFromFiles(ext)
  <2>1. /\ object' = IF result = Search!Error THEN Search!NoTune ELSE result
        /\ status' = (result # Search!Error)
    BY <1>3 DEF Search!Load, Search!Becomes
  <2>2. WellPlaced(object')
    BY <1>1, <2>1, FilesWellPlaced, OthersWellPlaced, ResultsDiffer
  <2>3. ASSUME Search!MusAlone(ext)  PROVE status' /\ object'.format = "MUS"
    BY <1>1, <2>1, <2>3, GoodMusFound
  <2>4. ASSUME ext \in {"mus", "str"}, Both, loader = "loadFile"
        PROVE  /\ Search!MusAlone(ext)
               /\ object'.data = <<Search!Contents("mus"), Search!Contents("str")>>
    <3>1. Search!MusAlone(ext)
      BY <1>1, <2>4, BothAlone
    <3>2. result = Search!FromMus(ext) /\ result # Search!Error
      BY <1>1, <3>1, GoodMusFound
    <3>3. object' = Pairing
      BY <1>1, <2>1, <2>4, <3>2, PairFound
    <3>4. QED  BY <1>1, <2>4, <3>1, <3>3, PairingData
  <2>5. PairPlays'
    BY <1>1, <2>2, <2>3, <2>4, PairPlaysNext
  <2>6. QED  BY <1>1, <2>5 DEF SearchInv
<1>4. QED  BY <1>2, <1>3

LEMMA UnnamedKept ==
  ASSUME SearchInv, folder' = folder, loader' = loader, fileName' = "", WellPlaced(object')
  PROVE  SearchInv'
<1>1. PairPlays'
  BY PairPlaysNext
<1>2. QED  BY <1>1 DEF SearchInv

LEMMA SearchKeeps ==
  ASSUME SearchInv, Search!Next
  PROVE  SearchInv'
<1>1. ASSUME NEW ext, Search!Load(ext)  PROVE SearchInv'
  BY <1>1, LoadFinds
<1>2. CASE Search!LoadNothing
  <2>1. object' = Search!NoTune
    BY <1>2 DEF Search!LoadNothing, Search!Becomes
  <2>2. QED  BY <1>2, <2>1, UnnamedKept, OthersWellPlaced, ResultsDiffer DEF Search!LoadNothing
<1>3. ASSUME NEW file \in Buffers, Search!Read(file)  PROVE SearchInv'
  <2>1. file \in Content
    BY FilesAssumption
  <2>2. object' \in {Search!NoTune, Search!GetFromBuffer(file)}
    BY <1>3 DEF Search!Read, Search!Becomes
  <2>3. WellPlaced(object')
    BY <2>1, <2>2, BufferWellPlaced, OthersWellPlaced, ResultsDiffer
  <2>4. QED  BY <1>3, <2>3, UnnamedKept DEF Search!Read
<1>4. CASE Search!NewObject
  BY <1>4, UnnamedKept, OthersWellPlaced, ResultsDiffer DEF Search!NewObject
<1>5. QED  BY <1>1, <1>2, <1>3, <1>4 DEF Search!Next

\* SidTuneBase::getFromFiles() and MUS::load(): for every folder, a MUS file that
\* is good alone plays, and of two files the first plays first, whichever is named.
THEOREM PairPlaysCorrect == ClientSpec => []PairPlays
<1>1. ClientInit => SearchInv
  <2> SUFFICES ASSUME ClientInit  PROVE SearchInv
    OBVIOUS
  <2>1. folder \in Folders /\ fileName = "" /\ object = Search!NoTune
    BY DEF ClientInit, Search!Init
  <2>2. WellPlaced(object)
    BY <2>1, OthersWellPlaced, ResultsDiffer
  <2>3. QED  BY <2>1, <2>2 DEF SearchInv, PairPlays, Search!PairPlays, WellPlaced
<1>2. SearchInv /\ [ClientNext]_<<vars, search>> => SearchInv'
  <2> SUFFICES ASSUME SearchInv, [ClientNext]_<<vars, search>>  PROVE SearchInv'
    OBVIOUS
  <2>1. CASE UNCHANGED search
    BY <2>1 DEF search, SearchInv, PairPlays, Search!PairPlays, Search!MusAlone, Search!Contents
  <2>2. CASE SearchStep
    BY <2>2, SearchKeeps DEF SearchStep
  <2>3. QED  BY <2>1, <2>2 DEF ClientNext, PlayerStep
<1>3. QED  BY <1>1, <1>2, PTL DEF ClientSpec, SearchInv
=============================================================================
