# libsidplayfp: verification project

TLA+ models of [libsidplayfp](https://github.com/libsidplayfp/libsidplayfp), the
library that plays Commodore 64 SID music by emulating the machine around the
sound chips. All paths below are relative to the repository root.

The library is single-threaded. What makes it hard is not parallel threads but
*simulated* concurrency: every chip is a set of callbacks on one event queue, the
order of the callbacks within a half-cycle is part of the emulated hardware's
behaviour, chips are optimised to skip cycles in which nothing should happen and
to catch up when somebody looks, and configuration objects (builders, SID
emulations, tunes) are created, locked and released across failures.

## 1. Inventory

| Component | Source | State | Operations | Interacts with |
|---|---|---|---|---|
| Event scheduler | `src/EventScheduler.{h,cpp}`, `src/Event.h` | `firstEvent`, `next` and `triggerTime` of every event, `currentTime` in half-cycles | `schedule` (2), `cancel`, `reset`, `clock`, `isPending`, `getTime`, `phase`, `remaining` | everything below runs as one of its callbacks |
| CIA timer | `src/c64/CIA/timer.{h,cpp}` | counter, latch, the flag word `state`, `ciaEventPauseTime`, `pbToggle` | `event`/`clock`, `cycleSkippingEvent`, `syncWithCpu`, `wakeUpAfterSyncWithCpu`, `latchLo/Hi`, `setControlRegister`, `reset` | scheduler; calls `underFlow` of the CIA |
| CIA interrupt source | `src/c64/CIA/interrupt.{h,cpp}`, `mos652x.{h,cpp}` | `icr`, `idr`, `idrTemp`, `asserted`, `scheduled`, `last_set/clear`, four events | `trigger`, `set`, `clear`, event handlers, 6526 and 8521 variants | scheduler; the IRQ/NMI line of the C64 |
| CIA serial port | `src/c64/CIA/SerialPort.{h,cpp}` | shift count, CNT line and its history, pending byte | `startSdr`, `handle`, `switchSerialDirection`, `flipCnt` | timer A underflows; interrupt source |
| CIA time of day | `src/c64/CIA/tod.{h,cpp}` | clock, latch, alarm, ring counter | `read`, `write`, `event`, `updateCounters`, `checkAlarm` | scheduler; interrupt source |
| CIA register file | `src/c64/CIA/mos652x.{h,cpp}`, `src/c64/c64cia.h` | 16 registers, both timers, TOD, SDR | `read`, `write`, `bTick`, `underflowA/B`, `reset`, `setModel` | all the above; VIC light pen |
| VIC-II | `src/c64/VIC_II/*` | raster counters, bad-line state, sprite DMA, IRQ flags and mask, light pen | `read`, `write`, `clockPAL/NTSC/OldNTSC`, three deferred events | scheduler; BA line; IRQ line |
| C64 glue | `src/c64/c64.{h,cpp}`, `c64env.h`, `c64cpu.h` | `irqCount`, `oldBAState`, list of extra SIDs | `interruptIRQ`, `interruptNMI`, `setBA`, `reset`, `addExtraSid`, `setBaseSid`, `clearSids` | chips on one side, CPU on the other |
| CPU | `src/c64/CPU/*` | registers, `cycleCount`, `interruptCycle`, `irqAssertedOnPin`, `nmiFlag`, `rdy`, two CPU events and `clearInt` | `eventWithoutSteals`, `eventWithSteals`, `setRDY`, `triggerNMI/IRQ/RST`, `clearIRQ`, the instruction table | scheduler; bus |
| MMU and banks | `src/c64/mmu.{h,cpp}`, `src/c64/Banks/*` | the processor port, the 16-page read and write maps, ROM hooks | `cpuRead/Write`, `setCpuPort`, `reset`, ROM install/reset hooks | CPU; I/O area |
| Player | `src/player.{h,cpp}`, `src/sidplayfp/sidplayfp.cpp` | tune, configuration, `m_chips`, mixer, error string | `load`, `config`, `initialise`, `play`, `mix`, `reset`, `mute` | C64, builders, mixer, driver |
| SID builders | `src/sidplayfp/sidbuilder.{h,cpp}`, `src/sidemu.{h,cpp}`, `src/builders/*` | `sidobjs`, the lock of every emulation | `lock`, `unlock`, `remove`, `create` | player |
| Mixer | `src/simpleMixer.{h,cpp}` | sample pointers, mix function table | `doMix` | buffers of the SID emulations |
| Hardware builders | `src/builders/{exsid,usbsid}-builder/*` | the time the device has been told of | `write`, `clock`, `event`, `reset` | scheduler; the device's library |
| PSID driver, relocator | `src/psiddrv.{h,cpp}`, `src/reloc65.{h,cpp}` | driver address and length | `drvReloc`, `install`, `reloc` | tune information; C64 memory |
| Tune loaders | `src/sidtune/*` | tune information, load image | `load`, `selectSong`, `placeSidTuneInC64mem`, the formats PSID, RSID, MUS, PRG and P00 | player |
| SIDLite | `src/builders/sidlite-builder/*` | ADSR counters, oscillators, filter, buffer | `clock`, `read`, `write` | player, mixer |
| Utilities | `src/utils/*` (STIL, song-length database, MD5, INI) | parsed files | look-ups | front ends |

### What is hard here, and what must be right

* **Order within a half-cycle.** Two events of one half-cycle run in the order in
  which they were scheduled. An access of the CPU, a flag of a CIA, the end of an
  interrupt and a change of BA may meet in the same half-cycle in any order the
  program can bring about, and a chip that queues an event which is already on the
  queue destroys the list (`schedule()` does not test for it). *Right:* the queue
  never loses, doubles or reorders an event; no client queues an event twice.
* **Sleeping chips.** CIA timers, VIC-II and the CPU take themselves off the queue
  or sleep over many cycles, and are brought up to date when somebody looks.
  *Right:* nobody can tell a sleeping chip from one that is clocked in every cycle;
  nothing that matters happens in a cycle that is slept through; a sleeper always
  wakes up.
* **Interrupts.** Flags are set, read, masked and acknowledged in neighbouring cycles,
  the effects are delayed by events, and two chip models do it differently. *Right:*
  no flag and no interrupt is lost, none is reported twice, no line is low without
  a reason, an NMI is served.
* **Failure in the middle of a set-up.** `config()` and `initialise()` lock emulations,
  route addresses, place the tune and install a driver, and may throw at each of these
  points. *Right:* the engine reaches only living emulations, the configuration tells
  the truth, the tune that is loaded is the one in memory, the ROMs hold its patches
  and no others.
* **Untrusted numbers.** Every field of a tune's header may be anything. *Right:* an
  accepted tune has a song to play, the driver gets a page the tune leaves alone, and
  its routines are called with their memory banked in.
* **Stale pointers and maps.** The mixer keeps buffers of emulations, the MMU keeps a map
  made from the processor port. *Right:* they are renewed before they are used.
* **Time in pieces.** SID emulations and SID hardware are brought up to date whenever a
  register is accessed, each chip at moments of its own. *Right:* however the time is cut, every
  chip gets all of it, no sample is lost, and the chips' samples belong together.
* **Cycles of instructions.** The bus may be taken away in any cycle of any of 256
  instructions. *Right:* an instruction that is held up does what it does otherwise, and
  only cycles that write go on without the bus.

Files are read once, nothing is persisted and nothing is sent over a network, so
there is no crash recovery and no unreliable delivery to model. `PROJECT.json` lists
the hazards one by one, at their lines.

## 2. Modules

```
 EventScheduler --refines--> EventQueue <-- EventList
 MCCia       Cia: TimerOps <-- CiaTimer    CiaInterrupt    SerialPort    Tod
 MCVicII     Video: VicII    Sprites
             (their lines and BA)--> CpuInterrupt
 MCCpu6510   Opcodes <-- Cpu6510 <-- InstructionSet

 MCPlayer    Client: Player (with builders)    Loader
 MCDriver    Tune, Mmu <-- Driver <-- DriverImage --> Rom
 MCSound     Sound: Sampling    Envelope    Noise    Mixer    Device

 Proofs      EventQueue_proof (of EventList)    Cia_proof    Video_proof    Sound_proof
             Cpu6510_proof    CpuInterrupt_proof    Client_proof    Driver_proof
```

Each `MC...` module gives constants their values for TLC. Parts that meet on the
real machine only through an interface meet here through the same interface: `CpuInterrupt` takes
the lines of the CIA and of the VIC from an environment that may do whatever those chips do
(pull and release in PHI1, in any order, release after a read), and the parts of a CIA take
the CPU as one bus access in the second half of a cycle.

Several parts that do not share state are checked in one run: `MCCia`, `MCVicII`, `MCPlayer`
and `MCSound` are *sums* of modules. A variable (`part`, or in `MCVicII` whether a sprite is
visited) says which part a behaviour is of; the others stay at their first state, and fairness
and liveness are stated of that part alone. A sum has as many states as its parts together, not
their product, and each property is the part's own. The composition itself is a module, `Cia`,
`Video`, `Client` and `Sound`: there the parts take their steps in any order, and the theorems
are about that; the `MC...` module checks the behaviours in which one of them moves.

### EventQueue and EventScheduler

`EventQueue` is the abstract specification: a sequence `queue` of pending events, the
`triggerTime` of each and the `currentTime` in half-cycles. Its actions are the methods
`schedule(event, cycles, phase)`, `schedule(event, cycles)`, `cancel`, `reset` and
`clock`; an insertion goes after the events of the same time. `EventScheduler` has the
code's own state, a head `firstEvent` and a `next` pointer in each event, and the same
methods as loops over pointers. The constructor of an event initialises neither field, so
the initial values are arbitrary, and an event that leaves the list keeps its stale
pointer. A loop is a function from the number of hops to the pointer it has reached, so
that no recursive operator is needed. `Refines` says that the list implements the queue
under the mapping `queue <- Listed`; `EventList` carries the mapped queue along, so that
`QueueOK` is checked, and proved, of what the list holds.

The one obligation of the clients is a guard: an event that is pending is not scheduled.
It is a *property* of the chips' modules (`OneEvent`, `EventsOnce` and the serial port's part
of `QueuedOnce`; `OneCpuEvent`).

### Cia, TimerOps and CiaTimer

`Cia` puts the parts of a chip side by side. They share no state in the models: a part that sets
its flag is a step `Trigger` of the interrupt logic, which may come whenever the part could make
it, and timer A reaches the serial port as underflows in any rhythm. In the code a reset reaches
all parts at once; here each may be reset alone, which allows more.

`TimerOps` has the pure operations of `Timer`: one `Clock`, the writes to latch and
control register, the decision to sleep or stop, and what catching up computes. The flag
word `state` is a set of named stages. `CiaTimer` has the actions: `Cycle` (the timer's
own event or the end of a sleep), `ReadCia`, `WriteLatchLo`, `WriteLatchHi`,
`WriteControl`, each with `syncWithCpu()` and `wakeUpAfterSyncWithCpu()` around it,
`Cascade` (an underflow of timer A counted by timer B in the second half) and `Reset`. Next
to the timer runs a reference `ref` that is clocked in every cycle and never sleeps:
`Agree` compares the two in each state, through the same catching-up that an access does.
`Seen` takes off the stage `ONESHOT`, which a stopped timer keeps and which the first clock
after waking shifts out.

### CiaInterrupt

`InterruptSource` with its two subclasses for the 6526 and the 8521. The pending events are
a sequence of records with the cycles left, in the order of the queue, so that ties are
decided as in the code. Actions: a flag from any source in either half (`trigger`), the
read (`clear`) and the write (`set`) of the interrupt register, the four event handlers,
`Reset` and `SetModel`. The model is a variable, since an engine may be configured anew;
`SetModel` is one action with the reset that `Player::initialise()` performs before the
machine runs again. Three history variables serve the properties: `owed` (flags set since
the last effective read), `late` (a flag in the very cycle after a read, which may wait for
the next one) and `overlapped` (two reads in consecutive cycles: the second starts the effect of
the first afresh, and a flag that comes between them can be lost). A flag that an access
sets may come in the second half of a cycle, where it takes the place of the bus access (`OnAccess`:
the serial port's when its direction is switched, the alarm's when the clock or the alarm is written).
`reset()` leaves `idrTemp` and may make the acknowledgement condition true in the first
cycle; the model does the same.

### SerialPort and Tod

`SerialPort` is the shift register with its three events: the start of a byte, the flip of
CNT two cycles after each underflow and its effect, the change of direction with the
history of the line that decides whether a byte that is cut off counts as finished, and what
`CIA::underflowA` and the control register feed into it, in both models. The underflows come
in any pattern with a shortest distance. The time an event has when it is *not* queued is
read by `switchSerialDirection()`; it is kept, as `flipDue`, also over a reset.
`bytesOwed`, `line` and `finished` are history variables.

`Tod` is the clock: the ring counter that divides the power supply's frequency, the carries
in BCD with the hours' twelve and am/pm flag and what they do to values that are no time, the
latch, stopping and starting, and the alarm, which is compared on every change.

### CpuInterrupt

The CPU as far as interrupts and stolen cycles are concerned: `Table` holds, for each
class of instructions, what its cycles do (read, write, load the interrupt flag, set or
clear it, branch, push, fetch the vector). State: instruction and cycle, `I`, `nmiFlag`,
`irqAssertedOnPin`, `interruptCycle`, `rdy`, the events `steal`, `nosteal`, `clearInt`, and
who holds the line. Actions: the lines of CIA and VIC, NMI, BA, `Run`
(`eventWithoutSteals`), `Stall` (`eventWithSteals`), `RemoveIRQ` (`clearInt`), and the
halves and ends of cycles. `RST` is never signalled by the library and is not modelled.
`clobbered` records an event queued while it was pending.

Two kinds of behaviour are kept out of the passing run, by its constants, and named here:
writes of the CPU that *raise* the VIC's line (the violation run `cpu_irq_raise` has them)
and read-modify-write instructions on the VIC's flags, which release the line twice with
another interrupt between them and queue `clearInt` twice. `swallowed` marks an IRQ that was
pulled again while the removal of the previous one was on its way.

### Cpu6510 and InstructionSet

`Opcodes` is the table that `buildInstructionTable()` makes: for each of the 256 opcodes the
functions of its cycles, put together per addressing mode as in the code. `Cpu6510` is the
machine that runs them: the registers, `Cycle_EffectiveAddress`, `Cycle_Pointer` and
`Cycle_Data`, one function of the source at a time, with the bus taken in any cycle that
can be stolen (`Stall`, with what `eventWithSteals()` does for `CLI`, `SEI` and the `SH*` opcodes), interrupts between instructions and an NMI that comes during the interrupt sequence.
Memory is a background made from a seed plus what was written. `InstructionSet` is the
*abstract* specification: each instruction as one function of the registers and the memory,
by its documentation and without cycles, with the number of cycles of its own. The bitwise
operations of bytes are tables of half-bytes in `Cpu6510`.
`Executes` says that the machine implements it, for every way of stealing cycles, and where
the documentation leaves a result open (the constant of `ANE` and `LXA`, some flags of decimal
mode) so does the specification.

### VicII and Sprites

`VicII` models `MOS656X` for the three chip revisions with the real cycle numbers within a
line, and frames of few lines. The chip's own event, the number of cycles it sleeps, the
catching-up in front of every register access, the raster comparison, bad lines, the DMA
windows of the sprites, interrupt flags and mask and the light pen are there; a write to a
register is followed by whatever the code schedules (`badLineStateChange`,
`rasterYIRQEdgeDetector`, the light pen). Whether a sprite starts or ends its DMA at a check
cycle is nondeterministic here, and is what `Sprites` models exactly, for one sprite with
its real six-bit counters, expansion flip-flop and "crunching" writes. Left out: the light
pen's coordinates, registers that only read back, and bit 8 of the compare value as a
register of its own (`WriteD012` stands for the writes of either part).

`tricked` marks lines whose bad-line state a program changes outside the fetch interval: the
event such a write queues sets BA from that state alone, whatever the cycle, and
`BusTaken` does not speak of these lines.

### Player and Loader

The engine with its client and the builders. `config`, `load`, `play`, `reset`,
`initMixer` and the removal of a builder are actions, each with all it calls:
`sidRelease`, `sidCreate` for up to three chips, a `create` or `lock` that may fail,
`addExtraSid` that may reject an address, `initialise` that may fail to place the tune or the
driver, and the recursive `config` with the last good values. `chipset` is what the chips are
built as: the model of each SID, from the tune's request and the configuration's, and the
model of the machine. Emulations are elements of `Emu`, and a deleted one becomes `Freed` in
whoever still points to it. Error strings are left out. The client keeps to what the API
requires: `initMixer` after a successful set-up, `mix` right after `play`, and a builder is
deleted only when another is configured or none, with a tune loaded.

After a failed `load` the configuration holds no builder any more (the default of
`SidConfig`), and `config` with equal values does nothing: both are in the model.

`Loader` is the client's other object, a `SidTune`: the order in which the formats are tried,
P00 containers, the search for a second MUS file under the names with other extensions, the
swap of the two, and their merging with the limit on its size. The files come from the file system
or from a callback of the client. The callback returns an empty buffer for what it has not got,
which ends the search where the file system goes on to the next name.

### Tune, Mmu, Driver, DriverImage and Rom

`Tune` is pure: what the loaders make of a file's numbers (`Load`), the checks of
`checkCompatibility`, `checkRelocInfo` and `resolveAddrs`, the speed and clock tables, the
addresses of the extra chips and `selectSong`. `Mmu` has the processor port with its two
registers, the capacitor of the unused bit and the read map that is made only when a
register changes. `Driver` composes them: a client loads files, chooses songs,
initialises and unloads; the engine resets, places the driver and patches the ROMs; then
the driver's program runs (`SetIomap`, `InitReturns`, `IrqJob`, `PlayReturns`, translated
from `psiddrv.a65` and the table of `psiddrv.cpp`), while a tune of the set `Wild` writes and
reads the port and cycles pass (`TunePokesDir`, `TunePokesData`, `TunePeeks`, `Cycle`).

`DriverImage` looks at the driver as a program: the assembled text as the addresses it
refers to, with the relocation table that the assembler makes of them (its gaps, and its three
kinds of entries) and `reloc65::reloc` that walks over it; the parameters and vectors that
`psiddrv::install()` writes; the start, which chooses the source of the interrupt; the
interrupt routine. `Rom` has the KERNAL that stands in for a missing one, with its ways into
and out of interrupts, the patches of the BASIC, the power-on pattern that is unpacked into
memory, and a walker over programs of few instructions. It is the walker, not an assertion, that
says an interrupt comes back. Only the stand-in is in the repository; what a real KERNAL does is
in nobody's model.

Assumptions: the client selects a song before it initialises; data offsets lie inside the
file; the driver fits in one page and its relocation succeeds; the tune's init leaves
interrupts masked and the direction register of the port is written by init routines only;
of a routine, the block its first instruction is in counts. A tune that loads below `$0400`
brings vectors of its own, and `DriverWorks` has no instance of one. The cassette's bits of the
port are left out.

### Sampling, Envelope, Noise, Mixer and Device

`Sampling` is how emulations keep time: each chip is clocked when it is accessed and when a
`play()` ends, at most seven cycles at a time, and carries the rest of the division from sample to sample.
A `play()` that fails leaves the chips and their buffers as they are. `Reset` may come at any
time; it is `Player::initialise()`, which `reset()`, `config()` and `load()` run: the machine's reset
sets the clock and the chips' times to zero and keeps what the buffers hold, and the power-on loop
(`PowerOn`, once for each of its rounds), which must throw that away, goes on before the CPU
runs. `begun` notes the time up to which it did. `Envelope` and `Noise`
are the two parts of SIDLite that have a memory: the rate counter, which is compared for equality
with a period that a write may have lowered, with the states of the gate and the mute that
filters writes; and the shift register, clocked by one bit of the phase, with test, sync and the
combined waveforms that write into it. `Mixer` has the mixing functions with the width and the
rounding of their arithmetic, mono in 32-bit integers and stereo in exact halves. `Device` is
the account that the exSID and USBSID classes keep of the time they have told the hardware:
delays that exceed what one command can hold, the event that waits when nothing is written,
and the account that several USBSIDs share.

## 3. Runs

| Run | States | Properties | What it shows |
|---|---:|---|---|
| `events` | 40,920 | `QueueOK` `Refines` | the list implements the queue whatever stale fields the events hold |
| `cia` | 460,797 | `QueuedOnce` `Agree` `TimerExpires` | sleeping is invisible, events are neither doubled nor lost |
| | | `FlagsOwed` `LineExplained` `Signalled` | flags, reads, writes and events in every order, both models |
| | | `BytesAnnounced` `CutOffRightly` `BytesEnd` | underflows, writes and changes of direction in every order |
| | | `KeepsTime` `OneMoment` `AlarmOnce` | the clock, latched, stopped, set and with its alarm |
| `cpu_interrupt` | 162,485 | `OneCpuEvent` `IrqKept` `Justified` `NmiServed` | interrupts and stolen cycles against every instruction class |
| `cpu_irq_raise` | | `RaisesAnyTime` (violated) | finding 1 |
| `cpu_instructions` | 2,414,660 | `Executes` `Timely` `OnlyReadsStolen` | every opcode against its documentation, whatever cycles are stolen |
| `player` | 152,979 | `Alive` `Honest` `PlaysTune` `PairPlays` | every order of calls with a failure at each step; the search for the files of a tune |
| `player_devices` | | `UsedDevices` (violated) | finding 2 |
| `video` | 1,809,715 | `BusTaken` `RasterSeen` `LightpenOnce` | skipping is harmless, for any access in any cycle |
| | | `SpriteHeight` `FetchingEnds` | one sprite with its real counters, any writes |
| `tune` | 68,165 | `SongPlays` `DriverWorks` `CodeVisible` `BankKept` `ChargeHolds` `HooksOfTune` | headers around every boundary, and the machine they set up |
| `tune_reloc` | | `RelocInfoChecked` (violated) | finding 3 |
| `sound` | 386,626 | `SamplesMixed` `KeepsPace` | samples from the registers to the buffer, over resets; hardware in step |
| | | `EnvelopeEnds` `NoiseKept` | any writes of the registers |

Deadlock is checked in every run: the queue, the client and the machine can always go on. The
type invariants (`TypeOK`) are there for the modules that the proofs are about and for the reader;
the runs leave them to the properties, which fail on an ill-typed state.

### Bounds, and why they are enough

* `events`: three events, `MaxCycles = 2`, `MaxTime = 4`, every initial value of every stale
  field. Three events give an insertion events on both sides of its place, and ties; the order
  only depends on comparisons of times. The theorems of section 5 remove the bounds of the queue.
* `cia`. The timer: a byte of three values (`Byte = 3`), so the counter runs from 8 down. A timer
  falls asleep above 2, so sleeps of up to six cycles occur and an access falls in each of their
  cycles; the pipeline is four stages deep. `HighBytes` are the latch's high bytes 0 and 2, that
  is, short periods that never sleep and long ones that do. The interrupt logic: timer B (which
  the 6526 treats in a way of its own) and the serial port, which stands for the alarm too (both
  may come in either half); timer A and FLAG behave like them in the first half. There is one
  timer; the half of the cycle in which a cascade clocks it is taken from the code (`bTick` in
  PHI2), and that two timers could not do with PHI1 is not shown. All delays are the code's own (at
  most two cycles). The serial port: underflows at least one or two cycles apart, nearer than and
  as near as the two cycles of a flip; after a reset the stale time of the flip (`Stale`) lies
  two, four or six half-cycles ahead. The clock: the values written are those before each carry
  and two that are no time, in three programs (one reads, one uses the alarm, one changes the
  frequency); two tenths pass between resets (`MaxTenths`), enough for a carry through all
  registers and the tenth after it.
* `cpu_interrupt`: one instruction of each class and all delays of the code. Counters are cut
  off where the code only compares them (`interruptCycle` has the values it can take
  within the longest instruction, and the two sentinels).
* `cpu_instructions`: all 256 opcodes, each executed from a fresh state with chosen
  registers, operands, flags and memory: accumulators and memories of both signs, with and without
  half-carries and with decimal digits above nine, indices and operands that cross a page or
  not, that wrap in the zero page and at the end of memory, a page's last byte for the indirect
  jump, branches both ways over a page. One instruction is run at a time (`count`), as the
  code keeps nothing between two but the registers.
* `player`: two interchangeable builders (symmetry), four emulations (one set-up needs three;
  `create` may fail when they run out), tunes with no, one and two extra chips, models known,
  unknown and missing, and one that cannot be placed; configurations with a rejected address,
  an accepted one, forced models and a bad rate. The files: folders of two files that may
  belong together and a third of any other format, of lengths around each limit.
* `video`: the cycles of a line are the real ones; a frame has four lines, of which two may be
  bad, and a row of characters has two lines, so a frame holds a first line, a bad
  one, another one and a last one. The three chips have different sprites such that each
  of the eight is fetched by one of them. Two further setups have no sprites but
  writes to compare register, flags and mask, and the light pen. Of the sprite on its own nothing
  is bounded but a counter of lines used by the properties. One sprite is enough as sprites
  do not influence each other; the old NTSC chip differs in the number of one cycle only.
* `tune`: families of headers around each boundary of the checks: load addresses and
  lengths, claimed pages, init and play addresses, numbers of songs, chips' addresses,
  formats. Each family varies the fields that are compared with each other.
  `FALL_OFF = 2` cycles stand for the 350,000 of the capacitor. The relocation is also applied to
  a longer text (`Longer`) with the kinds of entries and gaps that the driver's image has not got.
* `sound`: two chips at 7.5 cycles per sample, more than the seven clocked at once as at every rate
  that is accepted, for 24 cycles from the machine's reset (`MaxTime`), three samples. The power-on
  loop has two rounds (`PowerOnDelay`) with any time between them and after them; the first
  empties what is left from before the reset, the second is one more cut of the time. The envelope
  has six levels and two periods, both longer than a chunk and shorter than the counter's range,
  as the real ones are. The noise register has five bits with a full cycle of 31, and steps that
  pass its clock in one, several or no samples. The mixer takes samples around each change of
  rounding and at the ends of what `SamplesMixed` allows. A command of the hardware holds two
  cycles (`Limit`), its event comes every five, twelve pass between resets (`LastCycle`).

### Fairness

Weak fairness of what the event queue runs, and nothing else: `EventScheduler::clock()` in the
loop of `c64::clock()` never stops serving the queue while a client plays. No access of the
program is assumed to come.

* `cia`: `Cycle` and `Cascade` of the timer, `Cycle` of the serial port. `TimerExpires` then says
  that a counting timer left alone underflows again and again: the event is never forgotten.
  `BytesEnd` says that a byte in an output port ends with an interrupt; that timer A goes on
  underflowing, and not in every cycle, is its premise, not an assumption.
* `cpu_interrupt`: the halves and ends of cycles, the CPU's two events and `RemoveIRQ`;
  `CiaReleases` follows a read of the CIA's register by its own events. That the VIC gives the
  bus back is the premise of `NmiServed`.
* `sound`: `Clocks` of the envelope, which the end of every `play()` calls. `EnvelopeEnds` says
  that an envelope whose gate stays off reaches zero and stays there, although the rate counter may
  have to wrap first.

## 4. Findings

1. `src/c64/CPU/mos6510.cpp:219`: `triggerIRQ()` puts `m_steal` on the queue when BA is
   low. When the call comes from the CPU's own write (enabling a VIC interrupt
   whose flag is set), the event handler that performs the write queues it again at line 80 and
   the events behind it are lost. `src/c64/c64.h:148`: "Calls permitted any time, but normally
   originated by chips at PHI1." (Run `cpu_irq_raise`.)
2. `src/player.cpp:564`: an emulation that was locked before `addExtraSid()` rejects its
   address is not on `m_chips` yet, so nobody unlocks it. `src/sidplayfp/sidbuilder.h:67` says
   that `usedDevices()` returns the "number of used sids, 0 if none". (Run `player_devices`.)
3. `src/sidtune/SidTuneBase.cpp:459`: the claimed pages are compared with the load range by end
   points. An area strictly inside the tune, or one that spans the BASIC ROM, is accepted,
   and the driver is put into it. The comments at lines 455 and 466 say otherwise.
   (Run `tune_reloc`.)

Met while modelling, and not the subject of a run:

* A header with a count of zero songs leaves the speed table at its defaults (`SongPlays` excepts
  it); a BASIC program loaded below `$0700` may overwrite the driver (`DriverPlaced` excepts it).
* The factors of two and three chips add up to more than one: at full scale in phase they leave
  the 16 bits that `simpleMixer.cpp:53` asserts. `SamplesMixed` speaks of samples that are no louder
  than `Quiet` says, and `Quiet` is as loud as one, two and three chips in phase may be: 32768,
  23170 and 18918.
* An acknowledgement of the VIC's flags by a read-modify-write instruction queues `clearInt`
  twice (`mos6510.cpp:229`), as `OneCpuEvent` shows when `RMW` is added to `Ordinary`.
* `USBSID::reset()` schedules an event that outlives the emulation: after a `config()` that
  failed with the tune still loaded, `play()` runs it although its object is deleted.
* `SidTuneBase.cpp:337` erases from the last dot of a name that may have none; the
  `std::out_of_range` passes `SidTune::load`, which has already deleted the old tune.
* `MUS.cpp:125` lets a merged pair be four bytes longer than the memory behind its load address.
* `c64cia.h:82` saves timer A's counter where the comment speaks of the value written.
* `sidlite-emu.cpp:116` ends with `m_status` true whatever failed before, and cuts the sampling
  frequency to 16 bits.
* `WavGen.cpp:239` computes the peak of a pulse in an `int` that frequencies below about 23 overflow.

## 5. Proofs

Eight modules of proofs are checked by TLAPS to the last leaf. Each theorem holds for every value
of the constants: sets of any size, counters of any width, any program. A run of section 3 checks
the same definition on a small instance.

| Theorem | For every | Says |
|---|---|---|
| `QueueTypeCorrect` | set of events, bounds | the queue's `TypeOK` always holds |
| `QueueCorrect` | " | `QueueOK`: an event at most once, sorted, nothing overdue |
| `TimeCorrect` | " | `TimeAdvances`: the clock moves forward and passes no pending event |
| `ListImplements` | finite set of events, stale fields | `Refines`: the linked list implements the queue |
| `ListCorrect` | " | so `QueueOK` holds of what is on the list |
| `QueuedOnceCorrect` | width of a byte, flags, chip, rhythm | `QueuedOnce`: no part of a CIA queues a pending event or forgets to queue one |
| `AgreeCorrect` | width of a byte, latch values | `Agree`: a sleeping timer cannot be told from a ticking one |
| `FlagsOwedCorrect` | set of flags, chip | `FlagsOwed` |
| `LineExplainedCorrect` | " | `LineExplained` |
| `SignalledCorrect` | " | `Signalled` |
| `BytesCorrect` | rhythm of underflows, chip | `BytesAnnounced` |
| `CutOffCorrect` | ", stale trigger time | `CutOffRightly` |
| `KeepsTimeCorrect` | values written, number of tenths | `KeepsTime` |
| `OneMomentCorrect` | " | `OneMoment` |
| `AlarmOnceCorrect` | " | `AlarmOnce` |
| `IrqKeptCorrect` | program, writes to the VIC | `IrqKept`: an asserted line is never forgotten |
| `JustifiedCorrect` | " | `Justified`: no interrupt without a cause |
| `OneCpuEventCorrect` | ", without finding 1 | `OneCpuEvent` |
| `BusTakenCorrect` | chip, frame, sprites, program | `BusTaken` |
| `RasterSeenCorrect` | " | `RasterSeen` |
| `LightpenOnceCorrect` | " | `LightpenOnce` |
| `SpriteHeightCorrect` | chip, program | `SpriteHeight`: 21 lines, or 42, or 41 |
| `FetchingEndsCorrect` | ", crunching | `FetchingEnds`: the counter cannot miss its end |
| `SpriteInvariance` | state of a sprite | lines fetched and lines to come belong together |
| `DelayQuiet` | cycle, set of sprites | no interval of the VIC skips a cycle with something in it |
| `PlaysTuneCorrect` | set of builders, tunes, configurations | `PlaysTune` |
| `AliveCorrect` | " | `Alive`: no reachable emulation is a deleted one |
| `HonestCorrect` | " | `Honest`: what a call returns is what the engine has |
| `SetupEnds` | ", state of the engine | what a set-up leaves behind, wherever it fails |
| `HooksCorrect` | set of files, values written | `HooksOfTune` |
| `ChargeCorrect` | ", and `FALL_OFF` | `ChargeHolds` |
| `BankCorrect` | " | `BankKept` |
| `CodeCorrect` | " | `CodeVisible` |
| `SongCorrect` | " | `SongPlays` |
| `PairPlaysCorrect` | set of folders, buffers | `PairPlays`: the first file plays first, whichever was named |
| `KeepsPaceCorrect` | rate, cutting of time, power-on delay, limit of a command, chips | `KeepsPace`: no chip loses or gains time |
| `SameBufferSizeCorrect` | " | `SameBufferSize`: chips return as many samples as each other |
| `NoiseKeptCorrect` | length of the register, tap, steps | `NoiseKept`: noise is not lost without mixing |
| `SamplesMixedCorrect` | samples | `SamplesMixed`: integers and halves are the weighted sum |
| `OnlyReadsStolenCorrect` | opcode, registers, memory, theft of cycles | `OnlyReadsStolen`: exactly the cycles that write go on |
| `WidthsCorrect` | " | registers, addresses and bytes written keep their width |

The assumptions are the named ones on constants, which TLC evaluates in the runs. They are types
and finiteness, with these exceptions: the request bit is not one of the flags (`SourceAssumption`;
it is bit 7 of the register), `NULL` is no event (`ListAssumption`), a byte has at least two values
(`ByteAssumption`), a frame's DMA lines lie inside it (`VicAssumption`), a sample lasts longer than the
seven cycles clocked at once (`RatioAssumption`; at 48 kHz it lasts more than 20), the noise is fed
back from another bit than the highest (`TapAssumption`), a sample is a short (`SamplesAssumption`), a
chip is not both an exSID and a USBSID (`ChipAssumption`), the power-on loop has a round
(`TimeAssumption`; it has at least 8000), a command holds some time
(`LimitAssumption`), an empty file cannot be opened (`FilesAssumption` of `Client`), and an
instruction that is tested has its three bytes below the end of memory (`InputAssumption`).
`OneCpuEventCorrect` has two
hypotheses of its own: writes of the CPU do not raise the VIC's line, and no instruction
writes twice. Without the first it is false (finding 1), without the second too (section 4, third
of the further points); the run `cpu_interrupt` satisfies both.

Every strengthening below has also been checked by TLC as an invariant of the run's instance, but
for `SongOK`, which says that a song is selected by *some* number and cannot be evaluated.

**EventQueue.** `IInv == TypeOK /\ QueueOK` is inductive. The point is the insertion:
`Slot` is the first position whose event fires later, and `SlotFound` shows that it exists
(by `LeastPosition`: a non-empty set of positions has a least one), that everything before it
fires no later and everything from it on fires later. From that, `InsertedQueue` has the three
parts of `QueueOK` for the longer queue. `Cancel` and `Clock` give a sub-queue,
for which `SubQueue` keeps them.
`NotOverdue` is needed for `TimeAdvances`: the head, to which the clock is set, is neither in
the past nor later than any other event.

**The linked list.** The mapping is `queue <- Listed`, and the invariant says that the pointers
from `firstEvent` pass through the events of `queue` in order and then reach `NULL`, whatever the
pointers of other events say. That the walks end is not an induction over the list: a walk that
does not stop would pass through `Len(queue)` hops, and the first place where it differs from the
queue contradicts the hop before it. With that, the place the code inserts at is `Slot`, and the
pointer it bends when it cancels is that of the event before.

**CIA timer.** `IInv == TypeOK /\ OneEvent /\ Follows`. While the timer ticks it is the reference
timer; while it sleeps, the reference is the timer as it was, counted down by the cycles slept,
and the sleep ends while there are two left; once stopped, a clock would change nothing. For the
last two the pipeline must be `Settled`: what every clock leaves. `Same` takes the place of
equality, since a stopped timer keeps one stage that nothing reads.

**Interrupt logic.** `FlagsOwed` and its companions hold because of when the events fire, so that
`IInv` has the times of all pending events relative to the last read (`Ages`), and the order of
those that can fall on one half-cycle (`Order`). `Remains` is what a read will find when the last
one has taken effect, that is `idrTemp` or `idr`. With them it is inductive; each action has
a lemma, and each of the four events.

**Serial port.** The flips of CNT fall on PHI1 and are two cycles away when queued (`Slots`), and
an interrupt on its way leaves no time for a byte to end (`Shifting`): so the byte that
follows cannot be announced while the one before is. `LineKnown` says that the history noted so far,
brought up to the present, is the line's. `FlipKnown` bounds the trigger times that can be mistaken for a flip.

**Time of day.** `DayInv`: what is shown is in the latch, and for a divider that was not
disturbed the ring counter is a function of the ticks. `ClockAdvances` takes the clock through
its carries, one lemma for a counter of sixty and one for the hours.

**The chip.** Each step of the chip is a step of one part and leaves the others alone, and the
same holds of `Video`, `Client` and `Sound`: each part's invariant is one of the composition.

**CPU interrupts.** `interruptCycle` is a cycle that has passed or one of the sentinels; an
interrupt that is recognised has its cause, or its removal is about to be noticed, or the
vector has been chosen already (`Caused`). For `OneCpuEvent` the point is that the line is
released by an instruction only, so that its removal is noticed before the next one can
release it again (`Distance`).

**VIC-II.** The proof is in places of a line, cut in its middle, where the fetches of sprites
are in one piece (`Place`, `Fetch`). `OnTime` says that the cycles the chip has not seen yet and those it
will sleep are quiet: no fetch starts or ends, no bad line, no new line. `DelayQuiet` is the
table of intervals against that, for the three chips and each set of sprites. `BusInv` is what BA
is at each place (`BusKnown`), and also what is left of it after a program has upset a line, until
the next fetch sets it right.

**Sprites.** The counter of a sprite advances by three modulo 64 and ends at 63, so how many lines are left
is a function of where it is: `Steps` is the inverse of three, 43, times the distance.
`LinesLeft` counts with the expansion flip-flop and the visit within a line what is still to be
fetched, and with what has been fetched it makes 21, 42 or 41 while no register is written; a
crunching write can put the counter anywhere, but no position is further than 64 steps from the end.

**Player.** `IInv` adds to `PlaysTune` who owns what: chips are distinct emulations of the
configured builder (`Owned`), pages route to chips or to nothing (`Routed`), and a mixer that is
not due mixes the chips (`Mixed`). `SetupEnds` describes what `config` leaves behind, whichever
step fails and whether or not the fall-back succeeds, and each call needs only that.

**Driver.** `IInv == EngineOK /\ HooksOfTune /\ (pc # "halted" => PortOK) /\ StackOK`.
`HooksOfTune` alone is not inductive: a file must be loaded while the engine runs
(`EngineOK`). `PortOK` says that the map is the one made from the port's registers (`Mapped`),
although it is only made on changes, and that the capacitor's state and its time agree with
what last drove the bit, although it is discharged only when looked at. `StackOK` says that,
while the play routine runs, what was pushed together with the input bits gives the map to
return to: the port is *read*, and the pins need not be what was written, but written back
under the same directions it gives the same map. For `CodeVisible` and `SongPlays` a further
invariant (`TuneOK`, `SongOK`) carries over what the loaders guarantee (`LoadTuned`: whatever the header says, an
accepted tune has addresses that `resolveAddrs` and `checkCompatibility` let through) to the
time the driver runs, and `IomapVisible` goes through the blocks of memory and the map chosen for each.

**The search for a tune's files.** `MusIs` says what is made of two data, `FromMusIs` what the
search makes of the companions of a name. By `TwoMake` a pair that is accepted is made of nothing
but its two data, and by `CompanionPairs` every companion that is accepted with `x.mus` or `x.str`
makes the same tune as these two, whichever was named and whatever else lies in the folder.

**Sound.** `SidClock` is a recursive function, and TLAPS cannot do induction over it. `RunOf` is its
closed form: how many samples a number of cycles makes, from any remainder. A run of cycles that
differs from it would have a shortest one, and that contradicts its first chunk. With it, what a
chip has in its remainder is what its time leaves (`OnTime`), in every state; and once the power-on
loop is through, what the loop threw away, what was returned and what is in the buffer are what its
time is worth (`Punctual`, `Due`), however it was cut. Between a reset and the first round of the
loop `Punctual` is false, as the buffers hold what they held; that a `play()` cannot come there is
what both theorems rest on. `SameBufferSize` has no run of its own: `KeepsPace` asks of whichever
chip the samples are counted from that they are those of the time, so the buffers are of one length.
The hardware's account (`HardwareOK`) is that time told and time owed make the present, for the
exSID per chip and for the USBSIDs in the one name they share. Noise: a shift moves a register's
ones up by one, and if the highest falls out alone it is fed back, as the other tap is then zero.
Mixing: the product in parts is the exact one (`ProductIs`), truncated once in mono and in halves in
stereo, and it fits 32 bits because `n * scale^2 <= 65536^2`.

**CPU.** The invariant is that the registers have their widths and that the CPU is in a cycle of its
program, which has not ended. It is carried by two facts. `Outcome`: each function that a cycle
may perform goes on, leaves out the next cycle or finishes, and writes to the bus exactly once if
it is one of `Writers` and never if not; there is a lemma for each group of functions.
`Program`: in the program of each opcode a cycle is marked `nosteal` exactly if its function is a
writer, only `Last` may be at the end, which always finishes, and a function that leaves out a
cycle has two behind it. `OnlyReadsStolen` then follows from the widths and the table alone.

Only model-checked:

* `TimerExpires`, `BytesEnd`, `NmiServed`, `EnvelopeEnds`: liveness under fairness is out of this
  prover's reach.
* `Executes`, `Timely`: that an instruction's cycles together do what the specification does in one
  step needs the exact contents of the object in the middle of each of the 256 programs, for
  each place at which the bus may be taken.
* `DriverWorks`: the walk over a relocation table is an induction over data.

## 6. Not modelled, and the plan

Not modelled, with the reason:

* The utilities (STIL, song-length database, MD5, INI): parsers of text files for front ends,
  with no part in the machine.
* The levels of the wave forms, the filter and the other SID emulations: arithmetic on samples
  that nothing reads back but the oscillator of voice 3, and libraries outside the repository.
* Finding and opening hardware, files and ROMs: I/O whose failures are in `Player` and `Loader`.
* Texts: titles, credits, names in containers, error messages, debug output.
* Of the C64: frequencies, color RAM, the order of the chips' resets; of a CIA the data ports;
  of the VIC the registers that only read back; of the player `mute`, `filter` and the ROM setters.

Order of work, the most important behaviour first:

1. *(done)* Scheduler, CIA, CPU interrupts and instructions, VIC-II, player with builders and
   loader, tune with driver, ROMs and MMU, sound; the first theorems.
2. *(done)* Proofs of the queue and its list, the CIA, the CPU's interrupts, the VIC-II, the
   player and the driver.
3. *(done)* Proofs of the sprites, the search for files, the sound and the CPU's cycles.
4. *(open)* `Timely`, mode by mode.
5. *(open)* The C64's reset and its chips together: one bus with `VicII`, a CIA and the CPU's interrupt
   logic in the same behaviour.
