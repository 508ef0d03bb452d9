# Foenix Toolbox: specifications, model checking and proofs

The Foenix Toolbox is the boot ROM and device library of the Foenix computers: a
single-tasking kernel in C that gives programs channels, files, a console, block devices,
interrupts and a program loader. The source is under `src/src/`. Its build selects one
machine; these specifications follow the build for the **F256K** (65816, matrix keyboard,
SPI SD card), and say so where another machine differs.

There is one thread of control. The only concurrency is that of the interrupt handler, and of
devices, counters and users, with the program; the only failures are those that devices, drives
and full tables report. The models concentrate on those two, and on long sequences of legal calls.

## 1. Inventory

For each part: its state, its operations, who it talks to, what is hard about it, and what
makes it correct. The status is that of `PROJECT.json`.

| Part (source) | State | Operations | Interacts with | Hard because | Correct when | Status |
|---|---|---|---|---|---|---|
| channel table (`dev/channel.c`) | `g_channels` (number, device, data block), `g_channel_devs` | register, alloc, free, open, close, swap, I/O dispatch | every channel driver; `fsys.c` allocates from it | two kinds of channel share one table and one data block; swap moves blocks; failures half way | a channel reaches what was opened on it; nothing is used up by a failure | modelled: `FileHandles` |
| file descriptors (`dev/fsys.c`) | `g_fil_state`, `g_file` | open, close, mount, `fchan_*` | channel table, FatFs | two tables that must agree, tied by one byte of a third | descriptors and file channels correspond one to one | partly: `FileHandles` |
| word ring (`ring_buffer.c`) | buffer, head, tail | put (interrupt), get (program) | keyboard drivers | no lock: a put may run between any two statements of a get | what is put is got, once and in order | modelled: `RingBuffer` |
| matrix keyboard (`dev/kbd_f256k.c`, `dev/kbd_f256.c`) | key states, modifiers, BREAK flag, two rings | scan (interrupt), scan code, character, BREAK | ring, console | keys that change together; modifiers; sequences longer than a character | no character lost, torn or reordered; no modifier stuck | partly: `ConsoleInput` |
| console input (`dev/console.c`) | `key_buffer` | open, read byte, status | keyboard | the status peeks a character that a read must deliver | as above, through the peek | partly: `ConsoleInput` |
| interrupt driver (`dev/interrupts_f256.c`) | vectors; pending and mask registers | register, enable, disable, clear, dispatch | every handler | devices raise lines between any two steps; registers are read, changed and written | no interrupt lost or starved, no null call | modelled: `Interrupts` |
| directory handles (`dev/fsys.c`) | `g_dir_state`, `g_directory` | opendir, readdir, closedir, findfirst, findnext | FatFs | handles taken before the call that may fail | no handle used by two; none lost but by a failure | modelled: `Directories` |
| loaders (`dev/fsys.c`, `proc.c`) | loader table, load buffer, `proc_result` | register, load (PGX, PGZ, ELF, default), run | files, memory | formats read in blocks of a size of their own; files cut short | the program that is started is the one in the file | modelled: `Loaders` |
| block devices, SD card (`dev/block.c`, `dev/sdc_spi.c`, `fatfs/toolbox_bdev.c`) | device table; card status | register, init, read, write, status | FatFs, SPI | time-outs, cards removed, errors translated twice | the right blocks move; no call leaves the card or the bus in use; an error of the card arrives at the caller | partly: `Storage` |
| console output, text screen (`dev/console.c`, `dev/txt_screen.c`, `dev/txt_f256.c`) | ANSI buffer, region, cursor, attributes | put, escape sequences, scroll, erase, insert, delete | program | parser state across writes; geometry at the edges; a region set beside the cursor | nothing moves the cursor but into the region; every byte shows what a terminal makes of it | partly: `TextScreen`, `ConsoleOutput` |
| serial ports (`dev/uart.c`, `dev/serial_common.c`) | UART registers, line settings | open with a settings string, read, write | program | FIFO full or empty | bytes are sent once and in order | not modelled: built for the FA2560K2 only |
| boot sequence (`boot.c`, `toolbox.c`) | boot chain, boot sources | initialise, scan, choose, boot | nearly everything | a time-out against keys and pulled cards | the first source, or the chosen one, is booted in time | partly: `Boot` |
| clock and timers (`dev/rtc.c`, `timers.c`) | counters in registers | set, get, jiffies | boot screen, cartridge | a counter of three bytes read while it runs | waits are as long as they should be | partly: `Timers` |
| IEC bus (`dev/iec.c`, `C256/iecll.s`) | lines, delayed byte, flags of the last byte | print, status, close, initialise | devices on the bus | handshakes without a time limit; a byte held back; devices that are switched off | every byte arrives once and in order, and the bus is left free | partly: `IecBus` |
| flash cartridge (`cartridge.c`) | what is in the slot | identify, erase, write | the chip, jiffies | waits instead of asking the chip | what is written arrives, in order | modelled: `Cartridge` |
| memory (`memory.c`) | top of memory | reserve | programs | nothing | - | not modelled |
| other machines (`interrupt.c`, `dev/interrupts_c256.c`, `dev/interrupts_fa2560k2.c`, `dev/kbd_mo.c`, `dev/kbd_f256jr.c`, `dev/ps2.c`, `dev/txt_a2560k_*.c`, ...) | as above | as above | as above | other registers and widths | as above | not modelled: not in the build for the F256K |
| other drives (`dev/pata.c`, `dev/fdc.c`, `dev/sdc.c`, `dev/dma.c`) | controller state | as block devices | block devices | polled hardware with time-outs | as the SD card | not modelled: not in the build for the F256K |
| sound, sprites, tiles, LEDs | none of their own | register writes | programs | nothing | - | not modelled |
| system calls, start-up code | none | forwarding | all | nothing | - | not modelled |
| logging, utilities, tests | none that matters | output | all | nothing | - | not modelled |
| FatFs (`fatfs/ff.c`) | vendored | as used by `fsys.c` | - | - | - | external to the models |

## 2. Modules

| Module | What it is |
|---|---|
| `OpenFiles` | the promise of the file half of the channel system: a table from channel numbers to files |
| `FileHandles` | `channel.c` and the descriptors of `fsys.c`, one action per call |
| `WordQueue` | the promise of the ring: a queue that takes a word whenever fewer than *Sure* wait |
| `RingBuffer` | `ring_buffer.c`, put in one step, get in four |
| `TypeAhead` | the promise of console input: characters in the order of the presses, each delivered once, status before read |
| `ConsoleInput` | keyboard interrupt, `kbd_getc`, `con_read_b`, `con_has_input`, `kbd_break`; uses the ring as `WordQueue` describes it |
| `Interrupts` | registers, vectors, `int_*` and the dispatcher `int_handle_irq`, register access step by step |
| `Terminal` | the promise of console output: what each byte does to a window and its cursor, or to the sequence that is held back |
| `TextScreen` | `txt_f256.c` and `txt_screen.c`: each call an operator from screen to screen, down to the block moves in I/O memory |
| `ConsoleOutput` | the output half of `console.c`: parser, handlers, flush, ANSI switch; direct screen calls in between |
| `Storage` | `sdc_spi.c` command by command, with the card and the user who exchanges it; `block.c` and the disk layer of FatFs above |
| `FatFsObjects` | the states of a FatFs object and the error codes, which `FileHandles` and `Directories` share |
| `Directories` | the directory handles of `fsys.c`, one action per call; `OpenFiles` is their promise, too |
| `Loaders` | the loader table, `fsys_load`, `proc_run` and the four loaders, byte by byte or header by header |
| `Timers` | `timers_jiffies`, which reads a running counter in parts |
| `Boot` | the boot screen of `boot.c`; composes `Timers` and `Loaders`, whose steps run after the launch |
| `NorFlash` | the promise of a flash cartridge: what is asked for is carried out whole and in order |
| `Cartridge` | `cartridge.c` with the chip, on top of `Timers` |
| `IecBus` | `iec.c` and `iecll.s`, line by line, with the devices on the bus |
| `MC...` | instances for TLC: sizes, keys, lines, files, devices |
| `...Proofs` | theorems and their proofs |

How the state corresponds to the code:

- **FileHandles.** `number`, `dev`, `data` are the fields of `g_channels` by index; of the
  data block only `data[0]`, the byte the file driver uses, is kept. A block that another
  driver has written is the one value `DriverData`, which no descriptor has. `g_file[fd]` is
  the path the FatFs object is open on, `Closed`, or `Stale` after its drive was mounted
  again. `result` and `reached` are what the last call returned and which file it operated
  on: they make the observable behaviour. A device's driver may store data or fail.
- **RingBuffer.** `rb_word_get` is test, load, increment, wrap. A compiler may merge the
  last two into one store, which removes an interleaving and adds none. Both indices are
  words that the 65816 stores in one instruction; it does not reorder loads and stores.
- **ConsoleInput.** A scan of the matrix is one action, because the interrupt handler is not
  interrupted; it processes all keys that changed, in matrix order. The calls of the
  program are steps between which a scan may come: entry to `kbd_getc`, each turn of its
  loop, the two statements of `kbd_break`. Characters are the codes of the layout
  tables; the tables themselves are a constant, as they are data.
- **Interrupts.** A register is a set of lines. Reading and writing it are separate
  actions for the program and the dispatcher alike, since devices set bits in between. A
  pending bit is set whether or not the line is masked, and cleared by writing a one.
  `owed` is a history variable.
- **TextScreen, ConsoleOutput.** `mem` is the bank of I/O memory around the text matrix, a cell
  shows `Ink` or `Blank`; `region` and `cursor` are `f256_region` and `f256_cursor`. Block moves go byte by byte
  with 16 bit addresses that wrap, and move one byte more than their count, as the processor does. A call
  of the screen is one operator: nothing that interrupts it touches the screen. A byte
  written is one action, and so is each turn of the loop of `con_flush`, which goes on before the next call;
  `ansi_buffer` loses the characters that were shown, as the code zeroes them. `TxtSetRegion` is
  `txt_set_region` alone, which leaves the cursor where it is (`txt_f256.c:369`), as the boot screen uses it (`boot.c:103`,
  `boot.c:526`): the cursor may be outside the new region, and the next put then writes beside it, and then goes on. `Settable`
  bounds the choice of regions as `Reachable` bounds that of places. `Terminal` is seen
  through the region: its text is the part of `mem` that the region covers. `Answered` says which call of `Terminal` each
  call of the console is, so that no step may pass for another.
- **Storage.** One slot; slots share nothing. `type` and `noinit` are the fields of
  `t_sd_card_info`, `slow` and `selected` bits of the SPI control register, `step` the place in
  `sdc_init`, `sdc_read`, `sdc_write` or `sdc_ioctrl` between two commands or blocks: there
  a card may be pulled or put in. `count` and `index` are the loop's counter and buffer pointer in
  blocks. `ACMD`s are one step, as their prefix changes nothing that is modelled. `moved` is a
  history variable. The card is external: it is what the driver relies on, and obeys the time
  limits of its specification. A command to an empty slot, or to a card before `CMD0`, has no answer.

- **Directories.** `g_dir_state` is the table of allocated handles, `g_directory` the directory that the FatFs object
  of a handle is on. `held` is the set of handles that programs were given and have not closed. A call is one
  action, with its failures: a handle is taken before the call that may fail, and `fsys_findfirst` goes on with handle 0
  when none is free.
- **Loaders.** A byte has `Base` values, an address `Narrow` or `Wide` bytes instead of three or four, and a chunk `Chunk`
  bytes instead of `DEFAULT_CHUNK_SIZE`, so that a chunk ends within every field of some file. Signatures are
  values of their own. `locals` holds the variables of the loader that runs; the extension of a file is the
  format it claims. Any read may fail. A loader that a program registered is external: it sets a start address or
  none. `fsys_load` does not look at what a loader returns, and neither does the model.
- **Boot.** The chain, its count and the search for a default are the code's; a source holds a boot record,
  or boot files of some formats. Keys, ticks and pulled cards come between any two steps. After the launch
  the boot screen's variables are forgotten (`Forget`), as it does not come back; a program that was started
  from a record goes on as a shell that loads and runs others.
- **Timers.** The counter has a low byte of `LowSize` values and the rest; it ticks between the reads of the two, in
  either order, as C does not say which comes first.
- **Cartridge.** `todo` holds the bytes that the call has not sent to the chip; `delay` and `target_jiffies` make its
  wait. The chip carries out one request at a time, ignores commands while it is busy, and is done
  after at most `EraseTicks` or `WriteTicks` ticks, which is less than the calls mean to wait. `torn` is a history variable.
  `CallsAsk` says what each call must ask of the chip, so that a call that asks for nothing is no way to keep the promise.
- **IecBus.** A call is the sequence of line changes, pauses and waits it consists of, kept in `todo`. A line is low when
  anybody pulls it. The devices are external and follow the protocol: what it demands of them in
  microseconds they have done before the controller's next pause ends; everything else takes its time. `terminator` is the index
  of the 0 that `iec_status` writes behind the bytes. The
  three writes of `atn_common` and the eight bits of a byte are one step each. Waits have no limit, as in the
  code. `iec_print` closes device 4 whatever device it wrote to (`iec.c:40`).

Left out of these modules: `bdev_register`, the decoding of the card's size, checksums, and a card
that stays busy beyond its limits (`Storage`); `chan_ioctrl` and `chan_device` (no state of the table); the keyboard
layout upload, the caps LED and the optical keyboard's FIFO, which delivers the same rows; the echo and
line editing of `con_readline`, which keeps nothing between calls; colours (and so SGR), fonts, border, mode and resolution of
the screen, other screens, several channels on one console, and sequences longer than `ansi_buffer` (`ConsoleOutput`);
register addresses. Section 7 says what else is not modelled, and why.

## 3. Runs

All runs check for deadlock but three: the boot screen ends by launching a program; the cartridge may be left alone
when its bound on the counter is reached; and the bus stops for good when a device is switched off in the middle of a call,
as no wait has a limit.

| Run | Instance | Shows |
|---|---|---|
| `files` | a pool of two channels, a device above the file device, 2 descriptors, 2 paths each on a drive of its own | `FdOwnership`: allocated descriptors and open file channels correspond one to one; `ImplementsOpenFiles`; `RefusedOnlyWhenFull`, an open is refused only by a really full table |
| `ring_buffer` | ring of 5, 2 words | no get delivers a slot that was not written; a refinement of `WordQueue` sure of size - 2 words |
| `console_input` | both SHIFT keys, CTRL, CAPS, C; at most 2 words ahead | `ImplementsTypeAhead`; no modifier sticks; `char_buffer` holds at most one sequence; reads and statuses return |
| `interrupts` | two lines of group 0, and one of group 2, where a null test is wrong | no interrupt of a line that the dispatcher calls a handler for is lost; no null call; every such line that is raised is served |
| `storage` | cards of every kind, 3 blocks, transfers of up to 2, 2 attempts to wake a card | cards are addressed the way they count; the blocks asked for move; `NothingLeftOpen`: no call leaves the card within a transfer or the bus in use; every call returns |
| `screen` | a screen of 2 columns and 3 rows, regions: the full screen, and one column of two rows; all sequences but insert and delete, up to 3 characters and a letter; puts past the console | `CursorClipped`: nothing moves the cursor but into the region, wherever a change of region has left it; `ImplementsTerminal`: each byte does to the window what a terminal makes of it, half-written sequences do not show, unknown ones are shown to the last character |
| `directories` | 3 handles, 2 directories, each on a drive of its own | `ImplementsOpenDirectories`: a handle is the directory it was opened on, until it is closed, and nobody else's; `LostOnlyByFailure` |
| `boot` | every arrangement of records and files on the sources, keys for a bootable and an empty position, programs of one and two segments in every format | `RunsWholePrograms`: what is executed is in memory as the file describes it; `FirstOrChosen`, `TimeToChoose`; the screen ends |
| `cartridge` | 3 bytes of one bit, an erase of at most 2 ticks and a wait of 3, a write of 1 and 2, blocks that end before, with and behind the last byte, and blocks from outside the cartridge | `ImplementsNorFlash`: each call asks the chip for just what its code says; what is asked for is carried out in order, and lost only when the counter carried in the middle of a reading; every call returns |
| `iec` | devices 4 and 8, messages of up to two bytes, a status of two, buffers of 0 to 3 | `TransfersWhole`: messages and statuses arrive whole, and `iec_status` returns the number of bytes, or exactly one less when it read the last one; `BusLeftFree`, `OnlyAddressee`; every call returns while its device is there |
| `int_clear`, `sd_errors` | the instances of `interrupts` and `storage` | the findings of section 6 |

Why the bounds are enough. Channels and descriptors are interchangeable, so two descriptors
and a pool of two channels already show a free one beside one in use, both tables running out first,
and a swap between a file and a device. Every relation of head and tail of the ring,
including whole laps and the last slot, occurs in a ring of five; behaviour depends on
differences only. The typist's lead `MaxAhead` = 2 lets a word wait behind another while a
sequence is half read; more words only queue. Five keys hold the cases of the modifier code: a
pair sharing a bit, a toggle, a modifier with one key, and a key with a table of its own for each. Two
lines of a group and one of a later group cover a line in the group being served, and one behind it.
A transfer of two blocks out of three has a first, a last and a neighbour it must not touch; longer ones
repeat the loop. Three directory handles are one in use, one lost and one free. A `Chunk` of 4 is shorter than every
file and ends within each field of some of them; a memory of 5 bytes holds segments that touch and overlap.
One loader beside the three built in fills the table (`MAX_LOADERS` = 4). A low byte of 2 values in `boot` carries at every
second tick, and `Timeout` = 5 is longer than the error of two readings; `StartMax` and `JiffiesMax` bound the counter before
and after. In `cartridge`, two bytes copied at once have a first whose wait the second relies on; `StartMax`
and `Late` bound the counter. A message of two bytes has a byte held back and a last one; a buffer may be shorter than, as long
as and longer than the status. 1000 attempts to wake a card are 2: one that fails and is repeated, and the last.
Two columns and three rows are the least on which a window can be narrower than the screen, leave a row free below, and
scroll in more lines than one; the scroll by rows and the one by the whole matrix both occur, and the cursor is left beside, below
and diagonally below the window when it is set. A bank of 16 bytes holds the matrix of 6 with room before and behind it, where a
stray move or put shows. Tabulators stop at every second column. `MaxSequence` = 3 is ESC, [ and one
digit or character, and `MaxArgument` = 1 the largest argument of these; the proofs have neither limit. The
bounds in guards are `MaxAhead`, `MaxSequence`, `MaxArgument`, and that the cursor is not sent more than a
height of the region below it (`WithinReach`, `Reachable`), nor a region set from which the line below the cursor is as far
(`Settable`): beyond that `txt_f256_scroll` copies lines from outside the region, in a loop that no longer ends where it should.

Assumptions about callers, each a rule of the repository's documentation:

- `chan_close` is not called on files (`src/src/include/syscalls.h` says so); `fsys_close` is.
- `chan_swap` and `fsys_close` name open channels, and the latter one that carries a file.
- `CarefulSpec`: a device whose own channel number carries a swapped-in file is not opened.
  Otherwise the open takes over the channel and the descriptor is lost.
- Transfers have at least one block and their size fits a `short`, as all sizes above do (`Storage`).
- `FirmwareSpec`: `int_clear` is not called, as in the firmware of this machine.
  `int_clear` (the run) shows what happens otherwise.
- `CarefulSpec` of `ConsoleOutput`: parts of a window are erased only with the cursor in it and if no part is empty, and
  characters are neither inserted nor deleted. Otherwise an erase of an empty part clears the full screen, and an insert
  computes a negative count, and its block move goes round the whole bank. `CursorClipped`
  is proved for all programs.
- `CarefulDirSpec` of `Directories`: a search is begun only while a handle is free; otherwise it takes over handle 0.
- `cart_write` is given a destination within the cartridge, as its description says.

Fairness. A call that the program has begun goes on (`ConsoleInput`): the interrupt handler
ends and comes once a frame. The dispatcher goes on (`Interrupts`), and the CPU enters it when an
unmasked line is pending. A call to the SD card goes on (`Storage`): the SPI controller finishes
each byte and each wait for the card is a counted loop. The boot screen and its loaders go on, and the
counter ticks (`Boot`, `Cartridge`): it is driven by the frames of the screen; so does the chip finish what it began. The controller of the IEC bus goes
on, and so does each device that is there: it follows the protocol (`IecBus`). Nothing makes a typist type, a device raise a line, or a program
make a call.

## 4. Theorems

Each holds for every value of the constants that satisfies the named assumptions.

| Module | Theorem | Statement |
|---|---|---|
| `FileHandlesProofs` | `TypeCorrect`, `NeverShared` | `Spec => []TypeOK`, `Spec => []NoSharedDescriptor` |
| | `Ownership`, `HandlesComeBack` | `CarefulSpec => []FdOwnership`, `CarefulSpec => RefusedOnlyWhenFull` |
| | `OpenFilesImplemented` | `CarefulSpec => ImplementsOpenFiles` |
| | `DirTypeCorrect`, `LossesAreFailures` | `CarefulDirSpec => []DirTypeOK`, `CarefulDirSpec => LostOnlyByFailure` |
| | `TableImplemented` | `CarefulDirSpec => ImplementsOpenDirectories` |
| `InterruptsProofs` | `TypeCorrect` | `Spec => []TypeOK`, with `int_clear` |
| | `NoneLost`, `NeverCallsNull` | `FirmwareSpec => []NoLostInterrupt`, `FirmwareSpec => NoNullCall` |
| | `RingTypeCorrect`, `NoStrayWords` | `RingSpec => []RingTypeOK`, `RingSpec => []OnlyPutWords` |
| | `QueueImplemented` | `RingSpec => ImplementsWordQueue` |
| `ConsoleInputProofs` | `TypeCorrect`, `ModifiersFollowKeys` | `Spec => []TypeOK`, `Spec => []NoStuckModifier` |
| | `SequencesNeverMix`, `TypeAheadImplemented` | `Spec => []OneSequence`, `Spec => ImplementsTypeAhead` |
| `StorageProofs` | `TypeCorrect`, `AddressingCorrect`, `TransfersCorrect` | `Spec => []TypeOK`, `Spec => []AddressedRight`, `Spec => []RightBlocks` |
| | `CallsLeaveNothingOpen` | `Spec => []NothingLeftOpen` |
| `CartridgeProofs` | `TypeCorrect`, `ReturnsDone` | `Spec => []TypeOK`, `Spec => [](stage = "none" /\ ~torn => ~Busy)` |
| | `FlashImplemented` | `Spec => ImplementsNorFlash` |
| `ConsoleOutputProofs` | `CursorStays`, `CursorStaysCareful` | `Spec => CursorClipped`, `CarefulSpec => CursorClipped` |
| | `TypeCorrect`, `TypeCorrectCareful` | `Spec => []TypeOK`, `CarefulSpec => []TypeOK` |
| | `TerminalImplemented` | `CarefulSpec => ImplementsTerminal` |
| `BootProofs` | `LaunchesRight`, `TimeIsGiven` | `Spec => FirstOrChosen`, `Spec => TimeToChoose` |
| | `TypeCorrect`, `ProgramsRunWhole` | `Spec => []TypeOK`, `Spec => []RunsWholePrograms` |
| `IecBusProofs` | `InvHolds`, `TypeCorrect`, `BusIsLeftFree` | `Spec => []Inv`, `Spec => []TypeOK`, `Spec => []BusLeftFree` |
| | `WholeTransfers`, `AddresseesOnly` | `Spec => []TransfersWhole`, `Spec => OnlyAddressee` |

**FileHandles.** That no two channels share a descriptor is inductive only together with
`ChannelsNameFiles`: an open takes a descriptor that is free, and it is because every channel
names an *allocated* one that none can name the new one. Close needs the same to free a
descriptor no other channel uses. The converse, `NoLostDescriptor`, is preserved by every
call but the open of a device whose channel carries a file, hence `CarefulSpec`. With both, `data[0]` is a bijection
between the channels that carry files and the allocated descriptors (`AllAllocated`), so that a table that refuses has
given all its descriptors away: that is `HandlesComeBack`. `OpenFilesImplemented` has one lemma per action: the file a channel
stands for is the path its descriptor is open on, and an operation changes it for no channel but its own, as
no other names its descriptor.

**RingBuffer.** Equal indices mean an empty ring, except while a get is past its test:
then it has not advanced tail, so equality can only come from puts that went all the way
round. `Occupied` makes that distinction, and the invariant says that occupied slots hold
words. It is inductive together with the range of the indices, where tail may be one past the
end until it is wrapped. For the refinement, the words from tail to head are the queue (`WordsFrom`), and a
get takes its word when it loads it, before it advances tail. Then a put either appends to this
queue, or it overruns it while at least `MAX_BUFFER_SIZE - 2` words wait, where `WordQueue` promises nothing (`PutMaps`); a load takes
the first word (`GetMaps`), and wrapping tail changes nothing. The ring shares its proof module with the controller:
both are what runs at interrupt level, and their names are disjoint.

**ConsoleInput.** The four results rest on one invariant, `TypeOK`, the two properties and `CallShape`: a scan
interrupts a call only where it looks for a word, and then nothing is half delivered. A scan is a
recursive function over the places of the matrix (`Scanned`); what holds of it is shown one place at a time
(`CountUp`, `StepwiseExists`: induction over the places as a set of numbers, because the library's induction theorems take
operators as parameters). Each changed key is a `Press` of the promise or leaves its state alone, and the
scan is their concatenation. `KeyAssumption` has what this needs of the layout: every key has one place in the
matrix and CTRL is a single key, as in `kbd_scan_codes` (`kbd_f256k.c:70`). Were a key in two places, the
modifier of a pair could stick.

**Boot.** Time: a reading of the counter is wrong by less than `LowSize` (`ReadingIs`), also when it is torn, and two
readings make the wait shorter by less than twice that, which is the margin of `TimeToChoose`. Choice: the chain is
built once, from the switch and the sources, and does not change; the default is searched from its front, so what is
launched is the first bootable source, or the one whose key was pressed (`ChainIs`, `DefaultIs`).

**Loaders.** `LoadersInv` says where a loader is: `Ends`, that what it has read and not looked at and what it has not read
are the end of the file, so that `Place` bytes are behind it wherever a chunk ended; and for each loader what those bytes have done.
For PGZ (`PgzAt`, `InPgzSegment`) there is a number `k` of segments behind it. Its counter `seg` is the place in the next one, the address and
the count are as much of the fields as has been read (the number modulo a power of `Base`), the start address is that of the last
segment without data so far, and memory is what the first `k` segments describe (`Images`) with the part of the next one's data that has been
read (`Partly`). Without the fields in pieces it is not inductive, as a chunk may end in any of them; without `Ends` nothing is
known of the next byte. A byte of an address, of a size or of data then leads to the same with one place more, and the last one
of a segment to `k + 1` with `seg = 0`: one lemma for each part and each side of its end. For PGX the digits come from the high end
(`PgxAddress`); the ELF loader counts headers, and the default loader adds chunks (`PartlyChunk`). The loader fits the file since the table's first three
entries are built in and all others belong to the program (`Table`). At the end of the file `Place` is its length, so `k` is the
number of segments (`PgzFileIs`: no shorter prefix is as long), and memory is `Described`. What the digits of a
number and the segments of a file add up to is defined by recursive functions, and shown from each element to the next (`UpTo`,
`PowerIs`, `PgzFilesIs`), by well-founded induction over the set of the numbers for which it fails.

The proofs assume `ProgramAssumption` of what may be in a file: segments that are loaded lie within memory, their addresses and sizes fit
the fields of the format, and a PGZ file is entered where its last segment without data says, as the header of the loader
promises (`fsys.c:1004`). A file that breaks these has no meaning for this machine; bad signatures, dynamic
segments, PGZ files without a start segment or with several, and segments that overlap are included. `LoaderAssumption` has an address
take more than one byte (three or four in the code): a size that is not known yet is -1, and with fields of one byte the loader
would take the segment for finished behind its address.

**Interrupts.** `NoLostInterrupt` needs that, between read and acknowledgement, the lines read
are still pending (`BitsRead`): otherwise a write of them could clear one that was raised
since. `NoNullCall` needs that no handler is ever registered for a line of group 2
(`Group2Null`), which follows from the table of interrupt numbers.

**Storage.** That a transfer moves the right blocks rests on `Placed` (the card and the loop are at
the same block), which an exchanged card keeps because it is at rest (`Resting`: a card
is within a transfer only in the steps that move blocks or end them). That cards are addressed
right needs `AddressedAs`: which cards can be awake at each step of the initialisation, where an
SDHC card never answers to a host that does not announce it knows them. `Counted` ties the blocks
that are left to those moved, which bounds the buffer.

**Directories.** The type invariant is inductive because it says that a handle that is held is allocated, on an object that
was opened: a call that takes a free handle then takes one that nobody holds. That is all the refinement
needs, step by step: an open in the detailed specification is an open of a free number in the abstract one, and a
call that fails is a stutter, whatever it leaves allocated. The proofs stand in `FileHandlesProofs`, as both tables are
those of `fsys.c`; the names of the two modules are disjoint.

**Cartridge.** The calls never ask the chip, so that all rests on time. `Halves` says that a reading that is not
torn is a time that was (`NoCarry`: a tick changes the low byte only), hence not ahead; `Awaited`, that the target lies
at least `delay` beyond the time when the chip began. A wait that is over has then lasted more ticks than the chip takes (`Outlasted`),
and the chip is idle when the next command comes. In the refinement a call is `Ask`, the end of the chip's work `Perform`, a tick that tears
a reading `Excuse`, and a command that the chip ignores `Lose`, which needs the excuse; reading and waiting are stutters.
The other half of the theorem, `CallsAsk`, ties what becomes pending to the call and its arguments, so that it says of `cart_write`
that it asks for its block from within the cartridge, and for nothing from anywhere else.

**ConsoleOutput.** Every movement of the cursor ends in `txt_f256_set_xy`, and `SetXYSound` shows that it puts
the cursor within the region for any coordinates, as long as the region is not empty. The region
is never empty because a region without cells stands for the full screen (`ResolvedExtent`), even when an erase
or an insert sets a part of the window as the region and comes back. These two facts hold whatever the block moves
write, and give `CursorStays`. The cursor itself may be anywhere on the screen after a change of region, so the invariant is
not that it is in the region: it is `Near`, that the next line is within reach of a scroll, which `Settable` gives and every
`set_xy` renews (`SetXYReady`). The types hold with it (`Ready`): a put beside the region is at most the region's
offset and the cursor's together behind the matrix, which is in the bank (`ScreenAssumption`); a move wraps around the end of the
bank (`IoCopyType`), so that no insert or erase of a
careless program writes anything but characters, nor outside the bank.

`TerminalImplemented` needs what the moves leave. A move to lower addresses copies the block even onto itself, with the
one byte more (`IoCopyDown`, by induction over the bytes); the rows are moved from the top, each together with the
byte before it, and none changes what a later one reads (`RowsApart`, `CopyingUp`, by induction over the rows). The byte too
many is outside the window, or in the row above, where it is what that row was given already. Hence `ScrollShows`: whichever of its two ways the driver takes, the
window shows what it showed some lines further down, and blanks below. The rest is one lemma per way the window changes
(`PlaceStep`, `PutStep`, `BackSpaceStep`, `EraseStep`, `RegionStep`): different places of a window are different
cells (`AtInjective`), so that writing a cell or blanking a part changes that place or part of the text and no other, and a put
beside the window changes none of it (`StrayWritten`), even where it runs into the next row of the matrix. `WriteStep`
puts them together with the parser: a byte is printed, held, carried out with the numbers of all that is held, or has the
sequence shown (`SequenceWith`); `CallsAnswered` names the call of `Terminal` for each call. The careful
program is needed in `ClearStep` and `ClearLineStep`, where an empty part would be the whole screen. That the byte
before the first row is in the bank is the assumption `MatrixBase # 0` (`tvky_text_matrix` is 0xf04000, `src/src/include/F256/vicky_ii.h:114`).

**IecBus.** What `todo` can hold is a sequence that the code composes in advance: the proofs name each rest of it
(`Send2(b, k)` is what is left of sending `b` after two steps, with `k` to follow). None of the four results is
inductive, since whether a byte arrives depends on what the device has made of every step before. `Inv` is `Base`, the types,
and `Somewhere`: for each rest that `todo` can hold, where the device called is in its own protocol, which roles the
devices have, what has been heard or stored of the message so far, and what the controller pulls. A byte sent with ATN
pulled occurs in nine places (`Jobs`), each with the roles before and after it, so that its steps are
proved once for all nine; so are those of a byte printed and of a byte read. There is one lemma for each kind of step
of the controller and one for each action of a device; an unplugged device satisfies every condition by `Here`. The byte that `iecll_out`
holds back is the one before the place in the message that `todo` has reached, so that every call that ends a message
finds it there and sends it marked. The bytes of a status fit its buffer because `Inv` counts them; the 0 behind them is bound only
by one more than the size, which is what the code writes. The constants are assumed to be what the bus
allows: addresses up to 30, as 31 ends a role, bytes of 8 bits, and a status that is not empty, as a device always has one (`00, OK` at least).

All safety properties that a passing run checks are proved. Only model-checked: liveness, which is out of the prover's reach.

## 5. Plan

The state machines of the F256K build are modelled, but for `con_readline` and what section 7 lists. Next, in this order:

1. `con_readline`: line editing on top of the promise `TypeAhead`.

## 6. Findings

Shown by a run:

- `int_clear` acknowledges every pending interrupt of the group.
- `sd_errors`: `sdc_read` and `sdc_write` return the size whatever the card did; FatFs takes the
  buffer for the block.

Met while modelling, and modelled as the code does it; the properties are stated so that they hold:

- `kbd_f256k.c:342`: `kbd_break` reads the flag and clears it in the next statement; a BREAK in between is never reported.
- `ring_buffer.c:19`: `rb_word_full` compares `head + 1` with `tail` without wrapping. With head
  on the last slot and tail at 0 a put is accepted and all waiting words are gone.
- `txt_screen.c:541`: parts to erase are set as regions, and a region of height 0 stands for the
  full screen: with the cursor in the last line of its window, erasing what follows erases everything.
- `txt_f256.c:514`: each line that scrolls in a window copies one cell more, the one left of the window.
- `boot.c:482`: four sources are appended behind the RAM and three counted: the last, ROM, is never tried.
- `fsys.c:1446`: `fsys_load` ignores what the loader returns: after a failed read `proc_run` starts what has arrived.
- `fsys.c:234`: `fsys_opendir` keeps the handle when the directory cannot be opened; after as many failures as there are handles no
  directory can be opened. `fsys.c:417`: a search without a free handle runs on handle 0.
- `txt_screen.c:403`: a comment says that CR moves to column 0; the code does nothing, and so does `Terminal`.
- `boot.c:103`, `boot.c:526`: a region is set and printed to without moving the cursor, which may be outside it; the first
  character then goes beside the region, and may go to the next row of the matrix. Afterwards the cursor is inside.
- `txt_f256.c:511`: a scroll by more lines than the region has counts its rows up to an end that is already behind it, and meets it only
  when the `short` has wrapped.
- `txt_screen.c:587`: the comment of `txt_clear_line` exchanges modes 0 and 1; the code does what ANSI means by them.
- `cartridge.c:144`: `cart_write` tests the source where its description (line 135) puts it "in regular memory": nothing
  is ever written from there. From the cartridge it writes, but not a block that ends with the last byte.
- `interrupts_f256.c:49`: the table has a line for the insertion of an SD card; its interrupt is acknowledged, but has no branch in the dispatcher: a
  handler for it is never called, so that `NoLostInterrupt` leaves such lines out (`Dispatched`).
- `cartridge.c:67`: `cart_id` recognises RAM by writing to its first byte, and does not restore it.
- `cartridge.c:101`: a wait whose reading of the counter is torn may end at once; the chip is still busy and ignores the next command.
- `iec.c:73`: the terminating 0 is written behind the bytes read: to the first byte behind the buffer when the last byte of the status
  fills it, to the second when it is full before, and to `buffer[1]` when its size is 0 (`terminator`).
- `iec.c:49`: documents the number of bytes read; after the last byte of the talker one less is returned (`Returned`).
- `iec.c`: a device that is absent or switched off within a call stops the machine, with interrupts off.

## 7. Not modelled

- In `boot.c`, the key F6, which reads behind the array of sources; the order of start-up in `toolbox.c`, which has no choice in it; graphics.
- In the loaders: failure of `malloc`, a chunk that is not freed and a file that is not closed when a signature is wrong (`fsys.c:1061`),
  files that end within a field, ELF segments of 64 KB and more, and extensions longer than `MAX_EXT`.
- In `iecll.s`: the pulse on the reset line, the clocking of bits, and lines that another device holds low during initialisation.
- In `fsys.c`: the working directory, and the calls that are handed to FatFs as they are (delete, rename, mkdir, stat, labels, format).
- In `cartridge.c`: a counter that wraps during a wait, after 77 hours, where the target is never reached.
- `memory.c` (one variable that only programs move down), sound, sprites, tiles, LEDs and the clock, which write registers and
  keep nothing; system calls, which forward.
- FatFs is vendored; its Unicode tables and the bitmaps of the splash screens are data. Together with
  the drivers of other machines, which the build for the F256K leaves out, they are most of the lines of the repository, so that the share of all
  lines that the models stand for is small, and larger in the files that they are about.
