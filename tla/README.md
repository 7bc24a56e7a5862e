# Lab 9: an AES decryptor on a Nios II system, in TLA+

The repository is a laboratory project for a DE2-115 board. A Nios II processor
(`src/software/lab9_app/main.c`) reads a message and a key from a console, encrypts
the message in software, sends the ciphertext and the key to hardware one byte at a
time, and reads the decrypted block back one byte at a time. The hardware is an
interface (`io_module.sv`), a controller (`aes_controller.sv`) and a decryption
engine (`invAES.sv`). Two push buttons reset the two halves, independently. The console
is a JTAG UART, which the program reaches through the file descriptors, the driver and
the interrupt management of its board support package. A program for a PC
(`src/lab9software`), from the lab's first week, has the same cipher.

This directory holds the models of that system, their model-checking
configurations and machine-checked proofs about them.

## Inventory

| Part | State | Operations | Talks to |
|---|---|---|---|
| Nios II program, `software/lab9_app/main.c` | program counter, loop index, `encrypted_message`, `key_pairs_hex`, `str` | start, prompt and encrypt, send message, send key, retrieve result, print | the PIO registers, by polling |
| PIO registers, `lab9_soc/.../lab9_soc_to_*.v` | two output registers (`to_hw_sig`, `to_hw_port`), two sampling registers of the inputs | write, sample every clock, reset by KEY[0] | program and `io_module` |
| `io_module.sv` | `state` (100 values), `msg_en`, `key`, `to_sw_port` | one clock edge; asynchronous reset by KEY[1] | PIO registers, controller, engine |
| `aes_controller.sv` | `state` (WAIT, COMPUTE, READY) | one clock edge; reset by KEY[1] | `io_module` (`io_ready`, `aes_ready`), engine (`start`, `ready`) |
| `invAES.sv` | `state` (105 values), 128-bit latches | one clock edge; reset by KEY[1] | reads `msg_en` and `key` from `io_module` directly |
| Key schedule, `KeyExpansion.sv` | output registers of the clocked S-boxes | a pipeline that follows the key | engine |
| Data path, `AddRoundKey.sv`, `InvShiftRows.sv`, `InvMixColumns.sv`, `SubBytes.sv` | output registers of the clocked S-boxes | combinational, except the S-boxes | engine |
| Software AES, `AES.c`, `keyexpansion.c` | none | `AES`, `KeyExpansion`, `charToHex`, `charsToHex` | program |
| Top level, `lab9.sv` | none | wiring, LEDs and displays | all of the above |
| Console input and output, `main.c`, `charToHex`, `charsToHex` | six arrays on the stack of `main` | `scanf`, pairing of digits, `printf` of each byte | standard streams |
| JTAG UART core, `lab9_soc_jtag_uart_0.v` | two FIFOs, interrupt enables, activity bits | accesses to two registers; the host types, polls, takes | driver, interrupt input 5, the host's cable |
| JTAG UART driver, `altera_avalon_jtag_uart_*.c` | two rings with their indices, `irq_enable`, `host_inactive`, `timeout` | `read`, `write`, `close`, `ioctl`; the interrupt routine; the timer routine | the core's registers; called through descriptors, interrupts, alarms |
| File descriptors, `alt_dev.c`, `alt_open.c`, ... | device and file-system lists, `alt_fd_list`, `alt_max_fd` | start-up redirection, 10 system calls, registration, exit | driver methods |
| Alarms, `alt_tick.c`, `alt_alarm_start.c`, `alt_llist.h` | a doubly linked list, `_alt_nticks` | start, stop, tick, callbacks | a timer's interrupt; asked for by the driver |
| Interrupts, `alt_iic.c`, `alt_legacy_irq.h`, `alt_irq_handler.c`, `alt_irq_entry.S` | STATUS, IENABLE, `alt_irq_active`, the table of handlers | register, enable, disable, critical sections, dispatch | every driver |
| Week 1 host program, `lab9software/` | `w`, `state` | the same cipher on a PC | nothing |
| Drafts (`*_original.sv`), generated system, rest of the BSP, simulation output | | | |

How they interact. Processor and hardware share one 50 MHz clock, nothing else
in common: not a reset, and not a queue. A transfer of a byte is a four-phase
handshake over a two-bit signal in each direction. The program writes
`to_hw_sig`, then `to_hw_port`, and polls `to_sw_sig`, which it sees through a
register, one clock late. The meaning of a signal's value depends on where both
sides are: 1 from the program announces a byte of the message, acknowledges a byte
of the key, or asks for a byte of the result.

What is hard about it:

* interleaving: the program takes any number of clocks between two accesses, the
  hardware moves at every clock;
* stale reads: through the sampling register the program can see the answer
  to what it said before its last write;
* two independent resets, at any moment: either half can find the other in the
  middle of a transfer;
* no wait has a time-out: a step that is out of order is a stop for ever;
* the controller and the engine have a final state without an exit;
* the engine reads its inputs from registers that another module writes;
* the driver's rings, its mask and the core's control register belong to the thread and
  to the interrupt routine, which comes between any two accesses; a mask bit that is
  lost is a byte that never moves, or a call that spins for ever;
* callbacks change the list of alarms that is being walked, under a counter that wraps;
* table entries and enable masks are written in several accesses with interrupts on;
* a call on descriptors fails half-way, with a descriptor and a water mark already taken;
* arrays on the stack touch each other, and `scanf` knows none of their lengths;
* the same C source runs on a target whose `unsigned long` has four bytes and on a
  host where it has eight.

What makes each part correct:

* program and `io_module` together: both are at the same byte of the same
  transfer; every byte sent is stored at its place; every byte read back is
  that byte of the result; a round that begins ends;
* controller: it reports ready only for a finished result, of inputs that did
  not move while the engine worked;
* the lab as a whole: it prints the decryption of the pair it was given;
* engine and key schedule: a round key is used only when the pipeline has
  produced it; the result is the inverse of the cipher that the software applies;
* software AES: it is the cipher of FIPS-197 on the widths of the target, and the week 1
  program does the same with its own;
* input and output: a text of the right form becomes the block it spells, and what is
  printed can be typed in again;
* driver: each direction is a pipe, no byte is lost, repeated or overtaken; an interrupt
  that is off will come back when there is work; every call returns;
* descriptors: the standard streams stay on the console, a locked device with its
  holder, a failed call leaves nothing behind;
* alarms and interrupts: a callback is made at its tick and at no other, a handler with
  its own context and at its interrupt, and no enable is lost.

`PROJECT.json` lists these parts under `components`, and under `hazards` each
line of the code where one of them can go wrong, with the properties that watch it.

## Modules

| Module | Models | Its correspondence to the code |
|---|---|---|
| `Blocks` | the shared data | a block is a function from `0 .. N-1` to `Byte`; the code has N = 16 |
| `IoModule` | `io_module.sv` | `READ_MSG_3` is `io_state = "READ_MSG"`, `io_idx = 3`; the ten kinds of state are ten actions, each a next-state part (`After...`) with a register part (`Latch...`) |
| `AesController` | `aes_controller.sv`, and the control of `invAES.sv` | `ctrl` is the controller's state; `eng` the position on the engine's single path of states, with `Latency` states between WAIT and FINISH (103 in the code); `job` is the pair the engine captured, `intact` says that its inputs have not moved since |
| `NiosMain` | `main.c` and the PIO registers | one `pc` value per access to a PIO register, one action per statement that makes an access; the local computation around it is part of the action |
| `Lab9` | `lab9.sv` | composes the three on one clock and adds the buttons; states the properties and the inductive invariant |
| `HexInput` | `main.c`'s console, `charToHex`, `charsToHex` | `frame` is the part of the stack with the six arrays, in the order of `lab9_app.objdump`, and an array an address in it; one action per `scanf`, turn of a conversion loop and call |
| `UartCore` | `lab9_soc_jtag_uart_0.v` | a FIFO is a sequence of byte numbers; RI and WI are the core's interrupt conditions; the host is external and may be unplugged |
| `JtagUart` | the driver | one action per access to what thread and routine share; `pc` and `isr` are where the two are; `got`, `sent`, `told` are history |
| `BytePipe` | no code: the abstract pipe | `Put`, `Take` |
| `JtagUartPipes` | no code | the mapping of each direction to a `BytePipe` |
| `FileDescriptors` | `alt_dev.c`, `alt_open.c`, `alt_close.c`, `alt_fd_lock.c`, ... | one action per system call, with its result and `errno`; `phase` goes through `alt_main.c`'s start-up; `Restart` is a reset of the board, after which `alt_load.c` fills the tables anew |
| `Alarms` | `alt_alarm_start.c`, `alt_tick.c`, `alt_llist.h` | the list is its two links; `alt_tick` visits one alarm per step, its callback is a step that may start and stop alarms |
| `Interrupts` | `alt_iic.c`, `alt_iic_isr_register.c`, `alt_legacy_irq.h`, `alt_irq_handler.c`, `alt_irq_entry.S` | one action per access of the thread to STATUS, IENABLE, their copy and the table; the dispatcher reads, finds, calls |
| `WeekOne` | `lab9software` | as `SoftwareAes`, on words of `Long` bytes; `outside` tells that a look-up has left its table |
| `Words` | the shared shape of the ciphers' data | W words of W bytes, 4 of 4 in the code |
| `KeyExpansion` | `KeyExpansion.sv` | `subword[r]` is the four clocked ROM outputs of round key r; `KeySchedule` is what stands on the wires, `Expanded` what will once the pipeline has settled |
| `InvAesEngine` | `invAES.sv`, `AddRoundKey.sv`, `InvShiftRows.sv`, `InvMixColumns.sv` | the 105 states as a kind and two numbers; one variable per latch, and per latch an operator in capitals for what stands at its output; `sub_out` the clocked ROMs; the inputs, `Run` and the reset move at will |
| `SoftwareAes` | `AES.c`, `keyexpansion.c` | one action per turn of a loop of `KeyExpansion` and of `AES`; `w` and `block` are `w` and `state`; a 32-bit word is its four bytes |
| `AesBytes` | the tables and multipliers of both sides | literal tables of `SubBytes.sv`, `AES.c` and `keyexpansion.c`; `Twice` and `GfMul...` of `InvMixColumns.sv`, `Product` is `xtime` of `AES.c` |
| `RoundTrip` | software, then engine | `HandOver` stands for the exchange, which `Lab9` has in full |
| `Decryptor` | no code: the abstract service | ask, take up, answer, again, reset |
| `Lab9Engine` | `lab9.sv`, with `invAES.sv` in its place | `Lab9` with the engine of `InvAesEngine` instead of `AesController`'s; the model, what it implements, and the proofs, which are short because they cite those of its components |
| `Lab9Decryptor` | no code | the refinement mapping from `Lab9` to `Decryptor` |
| `MCLab9`, `MCInvAesEngine`, `MCRoundTrip`, `MCJtagUart`, `MCFileDescriptors`, `MCSupport`, `MCWeekOne` | no code | the instances for TLC; `MCRoundTrip` also has the field arithmetic of FIPS-197 as a reference; `MCSupport` puts `HexInput`, `Alarms` and `Interrupts`, which share nothing, side by side |
| `Lab9Proofs`, `InvAesEngineProofs`, `RoundTripProofs`, `JtagUartProofs`, `FileDescriptorsProofs`, `SupportProofs` (`HexInput`, `Alarms` and `Interrupts`), `WeekOneProofs` | no code | theorems and proofs |

A step of `Lab9` is one clock edge or one movement of a button. At an edge the
hardware reads the program's registers as they were before the edge, and the program's
sampling registers take the hardware's outputs as they were before the edge; this
is what non-blocking assignment does. The program makes one access in an edge or
lets it pass, so every pace of the processor is a behaviour. A button that is down
holds its half in reset; the other half goes on, and sees the outputs of the half in
reset.

The engine's result is a constant, `InvAes`, an arbitrary function of the ciphertext
and the key. `msg_de` may have any value until the engine has finished, and again if
its inputs moved while it worked: nothing that follows relies on what the latches
hold halfway.

`InvAesEngine` discharges that abstraction. It is the engine with all of its
registers and latches, over words of W bytes and any number of rounds, with the ROM
contents and the GF(2^8) multiplications as constants (`AesBytes` has their values). `A`, inside it, is
`AesController` with `eng` replaced by the position of the state on the path and
`InvAes` by `Result`, the data path without its clock; `StepsOfTheEngine` and
`OutputsOfTheEngine` say that the detailed engine does what the abstract one does.
`Lab9Engine` puts it on the board: the engine's inputs are `io_module`'s registers, `Run`
is the controller's, `Reset` is KEY[1], and `to_sw_port` takes its byte from whatever
stands at `msg_de`.
Two things make this more than bookkeeping: the key schedule is a pipeline whose round
key r is wrong for r clocks after the key has moved, and nothing waits for it; and no
reset reaches the latches and the ROM registers, so that every job starts from what the
last one, finished or cut short, left in them. A latch that is open when the
asynchronous reset comes keeps what it followed until then, and the ROMs are clocked
during the reset too; the model has both.

### The software below the exchange

The program's `printf` and `scanf` go from newlib to the descriptors, from there to the
driver's `read` and `write`, and from there through two rings to an interrupt routine
that serves the core's FIFOs. In `JtagUart` a step is one access of the thread or of the
routine to what they share: `read` looks at the two indices, copies, and stores the new
index in three steps, `write` too, and the critical section at the end of each
(disable, load `irq_enable`, store it, write the control register, enable) in five. A
read of the data register is two steps, as it takes the core two clocks: RVALID is
sampled, and a byte taken out, in the first (`IsrReceives`), and RAVAIL is what the FIFO
holds in the second (`IsrSeesAvail`), where the host may have sent one more. The
routine preempts the thread between any two and not the reverse. Bytes are known by
their number: neither driver nor core looks at their values, so that a byte lost,
repeated or overtaken is a gap in the numbers. The model is of this system's build:
no operating system (its semaphores and flags are empty macros), so that waiting is
spinning. Whether there is a clock is a constant: this system has none,
`alt_alarm_start` fails and the driver takes the host to be there for ever; with one,
the timer's routine counts the ticks of a silent host.

In `FileDescriptors` one thread makes all calls and no interrupt routine touches
the tables, so a call is a step. A driver's method answers success or an error; the
methods a device has are a constant, and a call on one it lacks fails as `alt_open.c` and
the others say. Calls are made on open descriptors and on -1. Within the step, what a
call takes and what it gives back are computed one after the other: the table after a
failed `open` is the one it found only if `alt_release_fd` undoes what was taken.

`Interrupts` goes by access again: a registration writes handler and context, a change
of the mask reads `alt_irq_active`, writes it and writes IENABLE; what makes them
whole is the section around them, which the program may nest. Devices are
external: a line stays up until its handler has run and then may fall.

`HexInput` keeps the arrays at their places since they are what `scanf("%s")` runs over:
a text of the right length ends with a zero in the next array, a longer one goes on
there. Lines are up to `4 * N - 1` characters long; longer ones leave the modelled arrays.

`WeekOne` is the lab's cipher with a word of eight bytes. The arithmetic is that of the
C types: an `int` shift extends its sign into the `long`, `word >> 24` keeps all that
stands above, a sum carries. `ImplementsSoftwareAes` maps each word to its four low bytes.

Two variables of `Lab9` are history: `served` (a round has ended since KEY[1] was
pressed) and `aligned` (the last release of KEY[1] found the program where it can go
on). No action of the hardware or of the program reads them.

Definitions whose comment begins with "Variant" are not part of the model: each is
what a plausible slip in that piece of code would make of the definition below it, and
each makes one property fail. `PROJECT.json` pairs them under `mutants`.

## Properties and runs

Bounds, for the runs of `Lab9`: N = 3, bytes are bits, Latency = 3, and the user asks for one of
two pairs that differ in message and key. They are enough because

* three bytes give a first, a middle and a last byte, and the code treats those three
  kinds differently (the last has its own exit signal, the first follows another state);
* with bits for bytes, both pairs and the engine's function tell positions apart,
  so that a byte at the wrong place shows; the zero byte is both a datum and what the
  reset leaves, so a missed byte shows too;
* a latency of three has the captured state, a middle and an end, and the program's
  pace is free, so a longer path only repeats the middle;
* two pairs suffice to tell this round's from the last one's; the number of
  rounds, of resets and of their moments is not bounded.

The other bounds are given with their runs, of which the table has one row each.

| Run | Shows |
|---|---|
| `rounds` (`MCLab9.cfg`) | 204,487 states. With both buttons free to move at any edge: the type invariant; the inductive invariant `IInv`; `Lockstep`; `SentBytesArrived` although `to_hw_sig` announces a byte before `to_hw_port` holds it; `RetrievedBytesAreTheResult` although the byte is one clock behind its announcement; `ResultsAreOfSteadyInputs` without any condition on the buttons; `FirstRoundDecodesItsPair`; the liveness of a round (`RoundEnds`) and of the wait for the reset at the start (`ResetIsSeen`). `ImplementsDecryptor`: handshakes, PIO registers and engine add no behaviour to "one pair is taken up after a reset and every request is answered with its result", liveness included |
| `second_round` (`MCLab9SecondRound.cfg`) | `main.c` says of each turn of its loop that the message is transmitted for decryption. TLC refutes this: the second turn prints the first turn's result, since READY and FINISH are left only through KEY[1] |
| `engine` (`MCInvAesEngine.cfg`) | 1,045,600 states. Two words of two bits, three rounds (a first, a middle and a last one: they differ in the source of each latch), operations that tell places and rounds apart, two ciphertexts and two keys at inputs that change at any edge, two power-up contents of the latches. Every round key is the settled one when it is used (`RoundKeysHaveSettled`), the outputs and the steps are the abstract engine's |
| `round_trip` (`MCRoundTrip.cfg`) | 648 states. N = 16, W = 4, ten rounds and real bytes, two messages and two keys, one with high bits throughout. For all 256 bytes: ROMs and C tables against the S-box computed from its definition in GF(2^8) (`TablesAreTheSBox`), multipliers against the product of polynomials (`ProductsAreOfTheField`). The software's round keys are the hardware's (`SchedulesAgree`); `AES.c` gives the FIPS-197 answer (`KnownAnswer`); every round of `AES.c` is undone by the hardware's S-boxes, shifts and multipliers, when they get that round's key in its own byte order and the columns of the block (`RoundsCanBeUndone`). In one state it also asks what the theorems about this assume of tables and products (`SchedulesFit`, `SubstitutionsFit`, `ProductsFit`, and `XorFits` by half bytes) |
| `decoded_message` (`MCDecodedMessage.cfg`) | `main.c` prints the engine's result as the decoded message. TLC refutes this. `invAES.sv` uses the round keys in the order of encryption, `AddRoundKey.sv` transposes and reverses the key's bytes, and `InvMixColumns` gets rows. With `RoundsCanBeUndone` this locates the fault: the parts are right, their arrangement is not |
| `uart` (`MCJtagUart.cfg`) | 171,941 states. Rings of three slots, FIFOs of two bytes with a threshold of one, calls of up to two bytes, three bytes in and two out. A ring fills and wraps, also within one call; a FIFO fills; a byte comes between RVALID and RAVAIL; bytes are left for the routine while a call returns. `ReceivedInOrder`, `SentInOrder`, `MaskIsWritten`, `InterruptsComeBack`; what the calls return adds up to what moved (`CallersAreTold`); each direction is a pipe, and what is written comes out without a further call (`InputIsAPipe`, `OutputIsADrainedPipe`); every call returns (`CallsReturn`) |
| `uart_unplugged` (`MCJtagUartUnplugged.cfg`) | 81,100 states. With a clock, and the cable pulled and put back at any time: no call waits for ever for a host that is gone (`CallsEndWithoutHost`), whatever time-out below "never" is set in between. Only output matters here, so nothing is typed |
| `descriptors` (`MCFileDescriptors.cfg`) | 34,165 states. A table of five, so two descriptors for the program: enough for one to hold and one to share a device and for the table to be full; the null device, the console with the methods of its driver, and a file system that has them all; flags with and without the private bits; opens that fail at the name, the table, the lock and the driver, each after what it has taken by then; resets at any time. `BelowHighWater`, `StdioStaysOnConsole`, `DeviceFlagTells`, `OneHolder`, `LockKeepsOthersOut`, `FailedOpenLeavesNoTrace` |
| `descriptors_lock` (`MCFileDescriptorsLock.cfg`) | `alt_fd_lock.c` says that a lock is granted if no other descriptor refers to the device. TLC refutes this: the search stops below the water mark, so a second user there is not seen. What is left of the promise is `OneHolder` and `LockKeepsOthersOut` |
| `support` (`MCSupport.cfg`) | 186,484 states. `HexInput` with blocks of two bytes and texts of all kinds: too short, too long, in capitals, with other characters, over two contents of the stack (`PairsAreTyped`, `PrintedReadsBack`); `Alarms` with three alarms and a counter that wraps after four ticks (`ListHoldsTheRunning`, `AlarmsRunOnTime`); `Interrupts` with two interrupts, two drivers, one level of nesting, and resets (`HandlersAreCalledWhole`, `EnablesAreKept`) |
| `host_program` (`MCWeekOne.cfg`) | 573 states. The real sizes, a key for each choice of the words that begin with a high bit, in three variants. As long as it has not read outside of its tables, the week 1 program does turn by turn what the lab's program does (`ImplementsSoftwareAes`): what the sign extension leaves above a word never comes down |
| `week_one` (`MCWeekOneLong.cfg`) | The same program looks up bytes (`LooksUpBytes`), as its comment says. TLC refutes this for keys with a high bit in the last word: the index is then a 40-bit number |

The two runs of `WeekOne` do not check deadlock: the program ends. All the others do.

The lockstep properties hold under `InForce`: KEY[1] is up, and its last release met
`SafeToRelease` (or KEY[0] restarted the program since). The restriction is the code's,
not the model's: a release in the middle of a transfer leaves the halves
waiting for different signals, or lets a round go on over cleared registers. The
model has all those behaviours; they are outside of what can be promised.
`SafeToRelease` says exactly where the program may be.

Fairness. `WF_vars(Edge)`: the clock ticks. `WF_vars(ProgramEdge)`: the processor
executes; each of its polls is executed again and again, so a poll that can succeed
at every edge from some point on does. Weak fairness is all that is assumed, and a poll
whose answer could come and go would not be served by it; that the answers stay
until the program reacts is part of what `RoundEnds` checks. Nothing is assumed of
the user, who may never type, press or release; that is why `Prompt` is outside
`NiosRuns`.

Fairness of the driver (`JtagUart`, `Fairness`). `WF` of `DriverStarts` and of the
routine: the processor executes, and nothing preempts these. `SF` of the thread's steps
inside a call: the routine preempts them again and again, but each time it returns the
thread executes an instruction, since the Nios II completes one before it takes the
next interrupt. `SF` of `IsrEnters` and of `Tick`: a critical section closes them out
and opens again; the line is a level, which waits. `WF` of the host's polling and
taking, each while it is connected: the terminal program does nothing else. A host that
types is not assumed, nor one that comes back, nor a program that calls. The other
modules state no fairness: they have safety properties only.

## Proofs

Assumed of the constants: N is a positive natural number and `Zero` a byte
(`BlockAssumption`), `InvAes` maps pairs of blocks to blocks and `Latency` is positive
(`EngineAssumption`), and the jobs are pairs of blocks (`JobsAssumption`). Each is
evaluated by TLC in the runs.

`Lab9Proofs` proves type correctness, for every action on its own: a state machine
never leaves its enumeration and an array is never indexed outside its bounds, even
where the two halves have lost each other. It then proves `Spec => []IInv` and from it
`Lockstep`, `SentBytesArrived`, `RetrievedBytesAreTheResult`,
`ResultsAreOfSteadyInputs` and `FirstRoundDecodesItsPair`, for every N, byte set,
engine function and latency.

Why the strengthening. `Lockstep` alone is not inductive: to know that a poll that
succeeds has met the answer to this byte, one must know what the sampling register can
hold (the clauses on `sig_read` in `InStep`); to know that the last byte of a loop
leads to the next loop, where each half is on either side of the boundary (`Before`).
`SentBytesArrived` needs the byte under way (`ByteInFlight`), and that the port
holds it from the announcement's second write on (`ProgramOutputs`). The result
needs the controller's and the engine's states to go together (`EngineInStep`), and the
first round needs an engine that has not started before (`EngineFresh`). What the
program alone keeps (`LoopsStartAtZero`, `ProgramOutputs`) and what a held button
keeps (`ResetHolds`) hold unconditionally: they are what remains true when a
release of KEY[1] was not safe, and what the lockstep is rebuilt from.

`Refinement`: `Lab9` implements the steps of `Decryptor`, that is `ImplementsDecryptor`
without its fairness. Each action of the program, alone at an edge or together with
the hardware's, is a step of the service or none; that the pair taken up is this
round's and that an answer is the engine's result are instances of the invariant.

### The engine

`InvAesEngineProofs`, for every W (blocks are of W words of W bytes), every number of
rounds, every content of the ROMs and every multiplication (`WordAssumption`,
`RomAssumption`, `DataPathAssumption`: they map bytes to bytes). `EngineInv` says that
the state is one of the path's, with numbers that fit (`OnPath`), and, as long as the
inputs have not moved, what each latch and ROM register holds there (`Progress`).
For the pipeline this is a depth: when an edge has passed with steady inputs, one more
round key is the settled one, and `SettledTo` counts them against the 2W + 3 clocks of
a round and the way of the state machine through it. For the data path it is, in each
state, the part of the inverse round that has been written, so that a latch is never
read before it is written in this job, whatever the last one, finished or cut short,
left in it. The theorems are `RoundKeysHaveSettled`, `OutputsOfTheEngine` and
`StepsOfTheEngine`: the abstract engine of `AesController`, which `Lab9Proofs` reasons
about, is this engine. The data path is written with recursive functions; that they
exist, and unfold, is proved by induction on the number of rounds.

### A message's way through both halves

`RoundTripProofs`. `TripInv` holds the words that `keyexpansion.c` has filled against the
recurrence that made them. From it `SchedulesAgree`: software's round keys, word by word
out of one array, are those of the chain of modules in `KeyExpansion.sv`, for every key,
every size and every number of rounds, if the two have the same S-box and round
constants (`SchedulesFit`) and bytes under exclusive or are a group in which every
element is its own inverse (`XorFits`). `RoundsCanBeUndone`: every round of `AES.c` is
undone by `AddRoundKey`, `InvMixColumns`, `InvShiftRows` and the inverse S-boxes, on every
block, if moreover the S-boxes are inverse to each other (`SubstitutionsFit`) and, for
columns of four bytes, the multipliers distribute over exclusive or and the products of
one byte add up to it in its place and to zero in the other three (`ProductsFit`). The
run `round_trip` finds all of this true of the real tables and multipliers. Together
they say for all messages and keys what the run says for two of each: the parts of
the engine are right, and the refuted `decoded_message` is about their arrangement.

`ReconnectedTheorem` says what is wrong with it. `Reconnected` is `Decoded`, the
computation of `invAES.sv`, with three connections changed: the round keys come from the
last to the first (the states of `invAES.sv` take them in the order of encryption),
`AddRoundKey` adds to each byte the byte of the key at its own place (`AddRoundKey.sv`
takes that of the transposed key), and `InvMixColumns` is given the columns of the
block, four neighbouring bytes (`INV_MIXCOLUMNSr_g` gather every fourth). So connected,
the engine gives back the message that `main.c` encrypted, for every message, key, size
and number of rounds. The proof follows `AES.c` forwards with `TrailInv` (the blocks
after each round, each of which can be undone to the one before it), and then goes back
along that trail: the `Reconnected` block before round key r is the software's of round
`Rounds - r` (`Leads`, `TrailGoneBack`), an induction on the rounds over a recursive
function.

### The whole board

`Lab9Proofs` is about any function and any latency in the place of the engine,
`InvAesEngineProofs` about the engine in any surroundings. `Lab9Engine` has them
together, with all of the registers and latches of the board, and instances both proof
modules. Neither side's assumption is free: that the engine's inputs are always blocks
is a consequence of the types of the exchange, and that each edge of the exchange is one
that `Lab9` allows is a consequence of what the engine's latches hold. `BoardInv`, the
two invariants together, is proved by one induction (`BoardNext`): the engine's
invariant before a step makes it a step of `Lab9`, hence the exchange's invariant holds
after it, hence it was a step of the engine among allowed inputs, hence the engine's
invariant holds after it. The theorems: `EngineIsDriven` and `EngineMayBeAbstract` (the
two refinements), `ExchangeOnTheBoard` and `EngineOnTheBoard` (what the runs `rounds`
and `engine` check holds of the composition), `BoardDecodes` (while a result is read
back, `msg_de` is the decryption of the pair that was read, and the first round after a
reset prints that of its own message and key), and `BoardIsADecryptor`. Assumed, beside
the components' assumptions, is `DataPathFits`: the inverse S-boxes and the multipliers
take bytes to bytes, as `InvAesEngine` assumes and the runs `engine` and `round_trip`
evaluate. Liveness is left out, as in `Refinement`: fairness says `ENABLED`.

### Input and output

`SupportProofs`, for every block length, text and content of the stack
(`HexInputAssumption`: texts do not hold a zero byte and end inside the modelled
arrays). `InputInv` follows a text from its array through the digits paired so far into
the block it becomes, beside the other text, whose tail and terminating zero fall into
its array only before it is typed. From it `PairsAreTyped`. `PrintedReadsBack` is about a value:
the text of a block is a concatenation, whose characters are found by following it
from the first byte on, and reading two of them gives the byte back.

### The driver

`JtagUartProofs`, for every length of the rings and FIFOs, threshold, time-out and
count, with or without a clock, and whatever the host does (`UartCoreAssumption`,
`JtagUartAssumption`). The invariant `DriverInv` has six parts. `Calling`: indices are
in the ring, and a chunk that is copied has at least one byte and at most what the call
asked for. `ChunkIsFree`: between the look at the indices and the store of the new one
the routine may move its own index, but only away from the chunk; this is the theorem
`ChunkTheorem`, the reason why `memcpy` needs no lock. It is modular arithmetic on four
indices and is proved from lemmas on the ring's distances. `Masking`: the thread is
alone in its section and what it has loaded is still there; from it `MaskIsWritten`.
`Serving`: what the routine has read of the control register and not acted on yet.
`Fetching`: the receive loop never ends with the ring empty, as the pause that starts
it is only there with a byte in the FIFO, and reading that byte clears it.
`Wanting`: `InterruptsComeBack`, for which one has to know for every step of a
call whether it owes an enable (`ReadOwes`, `WriteOwes`): a routine that has turned its
interrupt off in the middle of a call relies on the critical section at its end.

The comment where the routine turns the receive interrupt off
(`altera_avalon_jtag_uart_init.c`:158) says that with data still available the ring is
full. That is not always so: a byte that comes between RVALID and RAVAIL ends the loop
with RVALID 0 and RAVAIL not, and the interrupt goes off with slots of the ring free
(TLC finds this in 12 states if `InterruptsComeBack` asks for a full ring). It does no
harm, and this is what `InterruptsComeBack` says: the ring then holds a byte for the next
read, which enables the interrupt again as it ends.

On top of it `OrderInv` is about the bytes. It says of each byte under way where its
number puts it: `Receiving` and `Sending` count from the end a direction leaves by, so
that the slot of a ring at distance d from the reading index holds the number d + 1 after
those gone, the FIFO the numbers that follow, and a chunk that is being copied overlaps
neither (`ChunkIsFree` is what makes this inductive). `Telling` adds up what calls have
returned. It gives `ReceivedInOrder`, `SentInOrder`, `CallersAreTold`, and that each
direction implements `BytePipe` with the room of its ring and FIFO together
(`InputIsAPipe`; of `OutputIsADrainedPipe` the part without the draining). The
bytes of the FIFOs are sequences, whose heads and tails are taken by the lemmas of
`SequenceTheorems`. `TypeTheorem` has the types of every variable.

### Interrupts

`SupportProofs`, for every set of interrupts and drivers and every nesting
(`InterruptsAssumption`). `InterruptInv`: the request in hand is well formed; the
contexts that `alt_irq_disable_all` has returned are a stack with TRUE at its bottom
only, so that only the outermost `alt_irq_enable_all` turns PIE on (`Nesting`);
IENABLE, `alt_irq_active` and what has been asked for differ by at most the
interrupt in hand, and only inside a section (`Masking`); an entry is whole, and there
for whatever is enabled, outside of the section that writes it (`Tables`); the
dispatcher has something to serve (`Serving`). From it `EnablesAreKept` and
`HandlersAreCalledWhole`.

### Descriptors

`FileDescriptorsProofs`, for every size of the table, set of devices, names, flags and
methods (`FileDescriptorsAssumption`: among others, the console's driver provides no
`open`, as that of the JTAG UART does not). A call has one of a few effects on the table
(opens an entry, takes one and gives it back, sets flags, releases, nothing), and
`TableInv` is proved effect by effect: `BelowHighWater`, the streams' places through each
phase of start-up, the device flag, and `Exclusive`, the strengthening `OneHolder` needs.
The lock is granted without a look at the descriptor at the water mark, so a holder may
share its device: then it lies below the mark, and the next one who asks for a lock
looks there. The theorems are `BelowHighWater`, `StdioStaysOnConsole`,
`DeviceFlagTells`, `OneHolder` and `LockKeepsOthersOut`, and `FailedOpenLeavesNoTrace`.
An `open` takes an entry (`Index`), fills it (`Taken`) and, if it fails at the lock or in
the driver, goes through `alt_release_fd` (`Released`), as `stat` does with what it has
opened and a redirection with what it has copied. That this restores the table needs two
invariants: the streams are never free, so that the entry taken is not one of the three
that `alt_release_fd` leaves alone (`Streams`), and a free entry is blank, so that
blanking it is putting it back (`FreeAreBlank`).

### Alarms

`SupportProofs`, for every set of alarms, every counter of more than two values,
every delay it can tell from the past (`AlarmsAssumption`). `AlarmInv`: the two links
are inverse to each other and the running alarms are exactly what is reached from the
head (`Linked`); each alarm's time, with its roll-over flag, is its due tick's, on the
side of `alt_tick`'s walk where the walk has yet to come or has been (`Scheduled`);
no callback was made at a wrong tick. Reachability is stated without induction: every
set that holds the head and follows the links holds all running alarms. The
theorems are `ListHoldsTheRunning` and `AlarmsRunOnTime`.

### The week 1 program

`WeekOneProofs`: `ImplementsSoftwareAes`, for every key, size of a word and number of
rounds, and an `unsigned long` that is a word or has room for another above it
(`LongFits`; four and eight bytes are the targets there are. With five, six or
seven TLC refutes it). Of the exclusive or it is assumed how it combines the two bytes
that a sign extends to (`WeekOneAssumption`). `HostInv`: the bytes above each word's own
are all zero or all ones. The core is `NothingAbove`: if they are ones, the sum in
`RotWord` carries out of them or leaves them standing, so that `word >> 24` is more than a
byte, and `SubWord` reads outside of its table; a core word that is made without that is
made from a word with nothing above it. The carries of the sum are a recursive
function, whose existence is proved place by place. `ShortWordsTheorem`: with an
`unsigned long` of one word, as on the board, the program always looks up a byte.

### Only model-checked

* Liveness, out of the prover's reach: `RoundEnds`, `ResetIsSeen`, `CallsReturn`,
  `CallsEndWithoutHost`, and the liveness in `Decryptor` and in `DrainedPipeSpec`. This
  is why `Refinement`, `BoardIsADecryptor` and `OutputPipeTheorem` state the safety parts of
  `ImplementsDecryptor` and of `OutputIsADrainedPipe`; all of the other refinements of the
  lab's system are proved in full.
* `KnownAnswer`, `TablesAreTheSBox` and `ProductsAreOfTheField` are computations on 256 bytes
  and on one example, which is the model checker's work: the real exclusive or is
  `Bitwise`'s, recursive, and not available to the provers. They are also what the hypotheses of
  `SchedulesTheorem`, `UndoneTheorem` and `ReconnectedTheorem` rest on. Of `XorFits` the run asks the sums of all
  half bytes, and that the exclusive or of two bytes is that of their halves: the
  sums of three bytes are too many to enumerate.

The other way round, `ReconnectedTheorem` and the theorems of `Lab9Engine` are proved
and have no run of their own; their components have.

## Not modelled, and why

* The LEDs and displays of `lab9.sv` show inputs of the exchange and feed nothing back.
* The Nios II core, interconnect, SDRAM controller and PLL are generated or vendor code.
  What the software sees of them is in `NiosMain` (PIO registers and the order of
  accesses) and in `Interrupts` (the two control registers).
* Metastability of the buttons: `lab9.sv` feeds them to the reset inputs directly.
  A model in steps of whole clocks does not show it.
* Drafts that the Quartus project does not build (`*_original.sv`), and `AES.sv`, a
  wrapper for simulation without state.
* Of the board support package, what this build compiles out or never calls. Profiling
  (`alt_gmon.c`) needs `-pg`; logging (`alt_log_printf.c`) is off and has no state but a
  buffer; the caches have no size; the time of day (`alt_settod.c`, `alt_gettod.c`,
  `alt_times.c`) needs a clock and is one sum; `alt_busy_sleep.c` is a counted loop;
  `alt_execve.c`, `alt_fork.c`, `alt_kill.c`, `alt_wait.c`, `alt_link.c` and their like
  fail at once or spin; `alt_sbrk.c` serves newlib's allocator, which is not in the repository. Its largest
  files, `alt_log_printf.c` apart, are register maps and declarations (`system.h`,
  `nios2.h`, `alt_dma.h`), which have no behaviour. This is why a large part of
  the repository's lines has no counterpart here.
* The polled driver of the JTAG UART (`ALTERA_AVALON_JTAG_UART_SMALL`), which this
  build does not choose, and nested interrupts (`alt_irq_interruptible`), which it does
  not offer.
* Calls that are undefined by the caller's fault: on closed descriptors, on numbers of
  interrupts past the table, an alarm's callback that stops the alarm that follows it.
  They are listed as hazards where the code neither checks nor documents them.
* How a reset restores the initial data: `Restart` of `FileDescriptors` takes the copy of
  `.rwdata` (`alt_load.c`) whole. The properties hold across resets, but none of them
  would see a copy that left something out.
* The digits of the week 1 program's output: `%x` drops leading zeros, which nothing
  reads back.

## Plan

Done: the exchange, its abstract service and its safety proofs; the engine, the software
cipher and the real bytes; the console from `main`'s arrays to the core of the UART,
with descriptors, alarms and interrupts; the week 1 program; and proofs of the safety
properties of all of them; the exact change of connections that makes the decryption right;
and the board with the engine in it, of which every property of its parts is proved to
hold. Left:

1. A run of `Lab9Engine`, for the liveness that its theorems do not have: a round on
   the board ends because the engine's path does.
2. The polled driver of the JTAG UART, should the board support package be built with it,
   against `BytePipe`.
