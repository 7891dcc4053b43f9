# Verification of the threaded Uxn

This directory holds the TLA+ models of the threaded Uxn virtual machine and
Varvara emulator of this repository, the TLC configurations that check them and
the TLAPS proofs about them. Paths below are relative to the repository's root;
`threads.c` is `src/devices/threads.c`.

## The system

Uxn is a stack machine with 64 KB of memory and 256 device ports; a program, a
*ROM*, talks to devices by reading (DEI) and writing (DEO) ports. This repository
adds threads: `struct Uxn` with its stacks and ports is thread-local, the memory
and the devices behind the ports are shared.

| Component | State | Operations | Talks to |
|---|---|---|---|
| Uxn core (`uxn.c`) | per thread: two stacks, ports; shared: memory | `uxn_eval` | the devices through `emu_dei`, `emu_deo` |
| Thread records (`threads.c`) | `thread_records[16]`, `mutex_init_done` | SELF, CREATE, JOIN, port USELOCALSTORAGEINDEX, `destroy_mutexes` | pthread_create, pthread_join; runs `uxn_eval` in a new thread |
| Handle tables (`utils/*_array_list.c`) | an array of pointers that doubles, its length, its lock; a flag in `threads.c` | create, destroy, get | the CREATE, DESTROY and all synchronisation commands |
| Synchronisation commands (`threads.c`) | none of their own: the objects in the tables | MUTEX_*, COND_*, BARRIER_* | the tables and the pthread functions |
| Screen (`screen.c`) | two layers, palette, pixels, size, dirty rectangle, one rwlock; the cursor is per thread | draw (pixel, fill, sprite), resize, palette, redraw | drawn on by every thread, redrawn by the event loop |
| Event loop (`uxnemu.c`) | window, texture, SDL's queue | `handle_events`, `emu_run`, the standard input thread, the audio callback | console, controller, mouse, audio, screen |
| Audio (`audio.c`) | four voices: sample, position, envelope | start, render, VU, position | SDL's audio thread; an event at the end of a note |
| File (`file.c`) | two devices: a path, an open file or directory, a state | open, read, write, append, delete, stat | the file system |
| System (`system.c`) | metadata, the expansion port | boot, reboot, copies between banks | memory |
| Console, controller, mouse | vectors and the last event | one handler per event | the event loop |
| Assembler (`uxnasm.c`) | the image, labels, references, macros, scopes, lambdas | parse, resolve, build | files: the ROM that `system_boot` loads |
| Other cores (`etc/cores`) | as the Uxn core | `uxn_eval` | must do what `uxn.c` does |

What is hard in it:

* **The thread records have no lock.** CREATE claims a record with one
  compare-and-swap and everything else is an unsynchronised read or write; the
  protocol that makes a record's fields private to one thread at a time is
  nowhere written down. A record outlives the thread, a `pthread_t` is used
  again, and JOIN touches the record after it gave it back.
* **Tables move.** A table reallocates its array while other threads look handles
  up in it; its first use initialises it without a lock.
* **Pointers leave the lock.** A command uses the pointer it found after the
  table's lock is released.
* **Partial failure.** pthread_create, malloc, realloc and the init functions fail
  in the middle of a command that has already claimed something.
* **Timed waits** race their deadline against a signal, and the deadline is
  computed by hand with a carry.
* **The screen** is drawn by many threads under a *read* lock, with relaxed
  atomics for the dirty rectangle.
* **Three threads meet in the event queue**, which is bounded: standard input waits
  for room, the audio callback does not; the callback and `main` share the voices,
  and each of them pauses or unpauses the device from what it saw.
* **Numbers wrap and share bits.** Two sources of input write one byte of buttons; a
  position in a sample, a label, a lambda's number, a stack pointer and a copy
  between banks all wrap at their width, and a ROM is right only if the assembler
  and the core agree on every one of them.

What each part must guarantee, in short: a record has one owner and none leaks; a
thread gets its own arguments and its joiner its own result; a handle names the
object CREATE made until DESTROY; no command leaves a table locked; a thread's
knowledge of its locks, drawn from the ports, is true; a timed wait ends, with the
mutex, not early; a barrier has one serial thread per release; no drawing is lost;
input comes in order and once, and no button outlasts what pressed it; the end of a note is heard
once; a ROM runs as its source says, and two cores run it alike. `PROJECT.json` lists
the hazards with their lines and the properties that guard each one.

## The modules

| Module | Models | Checked by | Proved in |
|---|---|---|---|
| `ThreadRecords` | the records, SELF, CREATE, JOIN, USELOCALSTORAGEINDEX, initialisation, the end of `main` | `MCThreadRecords` | `ThreadRecords_proofs` |
| `HandleRegistry` | what a table promises: atomic create, destroy and get | through `HandleTable` | |
| `HandleTable` | the three tables, with every access to their memory a step; implements `HandleRegistry` | `MCHandleTable` | `HandleTable_proofs` |
| `SyncCommands` | MUTEX_*, COND_*, BARRIER_* on atomic tables | `MCSyncCommands` | `SyncCommands_proofs` |
| `Screen` | the layers, their lock, the dirty rectangle, and the loop of `uxnemu.c` that shows them | `MCScreen` | `Screen_proofs` |
| `FileDevice` | the two file devices on one disk: naming, READ, WRITE, append, DELETE, STAT | `MCFileDevice` | `FileDevice_proofs` |
| `Audio` | the voices and the callback that plays them, one sample a step | through `EventLoop` | `EventLoop_proofs` |
| `EventLoop` | the queue, `main`'s loop, standard input, console, controller, mouse | `MCEventLoop` | `EventLoop_proofs` |
| `System` | memory, loading and restarting, the expansion port, as operators | through `Toolchain` | `Toolchain_proofs` |
| `Uxn` | an instruction of `uxn.c`, as an operator on a machine | through `Toolchain` | `Toolchain_proofs` |
| `UxnTnl` | the same of `etc/cores/uxn-tnl.c` | through `Toolchain` | `Toolchain_proofs` |
| `Assembler` | `uxnasm.c` from tokens to a ROM | through `Toolchain` | `Assembler_proofs` |
| `Toolchain` | assemble, boot, evaluate, restart | `MCToolchain` | `Toolchain_proofs` |

`SyncCommands` is the composition that the refinement pays for: it takes a table
look-up as one atomic step because `HandleTable` implements `HandleRegistry`.
`EventLoop` composes the loop with `Audio`, whose callback is another thread, and
`Toolchain` the assembler with the two cores and the System device, one of which
writes what the next one reads.

`Sound` in a module is its type invariant together with the facts about its state
that everything else rests on.

### ThreadRecords

State: `in_use`, `thread_handle`, `arg`, `result_value` are the fields of
`thread_records[i]`; `ret`, `err`, `tls` are a thread's ports; `pc`, `cmd`, `idx`,
`jh`, `param` are its place in a handler and the locals there; `rec` and `joiner`
are what the C library knows of a thread. A step is one access to shared state:
the scan of CREATE tests one record per step (`ScanTake`, `ScanSkip`,
`ScanLimit`), the record is filled, the thread is started, the answer is written
(`Fill`, `Spawn`, `CreateReply`), or the start fails and the record is given back
(`SpawnFail`, `Unclaim`). JOIN reads the handle, calls pthread_join, frees the
record, *then* reads the result (`JoinRead`, `JoinCall`, `JoinReturn`, `JoinFree`,
`JoinResult`). SELF reads the flag and then the handle of each record. The two
argument words are always copied together and are one field here. The variables
`given`, `outcome`, `expect`, `open` and `sawFull` are history.

Main's `pthread_t` is in the same set as the workers' and never comes back; a
worker's comes back as soon as it is joined, which the C library does. Joining a
handle that names no thread is undefined and is here an error or the end of the
process (`JoinCrash`).

The constants choose the ROM and the build. `Issued`, `Creators` and `Joiners` say
which commands the ROM issues where; `JoinOnce` that it joins an id once per CREATE
that returned it; `HandleStoredFirst` that pthread_create stores the handle before
the new thread runs, as glibc does; `CallsDestroy` that `main` ends with
`destroy_mutexes`, as `uxncli.c` does and `uxnemu.c` does not: the flag is clear while
workers may still run, and the next command of one takes record 0 for its own.

### HandleTable and HandleRegistry

The three files are one algorithm and so is the model. The lock is modelled, the
slots are modelled as memory (fresh memory holds `Garbage`), and the loop over the
slots is one step because it runs under the lock; every access to a slot outside
that loop is a step of its own, so that what depends on the lock is not assumed. `Starter` is the set of threads whose command may be
the table's first use: the mutex table is initialised by the process's first
command, when only `main` runs; the other two by the first CREATE of any thread.

The refinement maps the array to the registry's `binding`, hides the lock, the
capacity and the heap, and lets a call take effect where it settles its result.

### SyncCommands

A handler is `Lookup` (and `LookupMutex`, `ReadClock`), one call of the C library
(`Lock`, `Unlock`, `TryLock`, `Sleep`, `Signal`, `Broadcast`, `Arrive`), and the
translation of the result to the ports (`Answer`, `WaitReturn`, `BarrierReturn`,
`Refuse`). The pthread functions are external and do what POSIX says of default
objects: a wait releases the mutex and sleeps in one step, may wake for no reason,
and returns after it has got the mutex again. `Read` is the ROM reading the ports:
`holds` is what a thread can conclude about its locks from the answers alone, so
`KnowsItsLocks` compares the ports with the truth. The ROM follows the rules of the
pthread functions (unlock and wait only with a mutex one holds, destroy only what
nobody uses): the device checks none of this, and without them its behaviour is
undefined. A look-up in a table never initialised fails like one of an unbound
handle, so `exists` stands for both. `Programs` are the ROMs, each the set of commands
it issues, and `rom` is the one that runs; `FileDevice` has the same two.

### Screen

A draw (`Deo`, `RdLock`, `Write`, `ScreenChange`, `RdUnlock`) reads the size and the
layer before it has the lock, writes the layer and widens the rectangle `dirty` in
four atomic steps, before writing for a fill and after it for the others. Palette
and resize hold the write lock for a step and release it in the next
(`ScreenPalette`, `PaletteEnd`; `ScreenResize`, `ResizeEnd`, then `EmuResize` with no
lock). The loop of `main` is `Frame` and `Load` (screen_changed, a word per step),
`RedrawCopy`, `RedrawEnd` and `EmuRedraw`; `Expose` is the window's own event.

A layer is flat memory with margins, and `Addresses` and `Rect` follow the code's
arithmetic, the 16-bit wrap included, because that is where clipping could go
wrong; `Meant` is the reference they are compared with. A color is a color and a
sprite is solid. What the window shows at a cell is the pair of the palette and the
layers' colors there.

A fill does not test its cursor (`screen.c:195-211`). Where that lies off the screen by more
than a margin, on the side the fill goes to, it colors cells of other rows, which it does not
report, or memory that is not the layer's (`Leaves`). The history variable `stray` is set
when a command does that, or writes on a layer that a resize has freed, and the properties
hold until then: of every pixel and sprite, and of every fill that stays in the margins.
`screen_draw` has fills of both sorts.

The ROM of `screen_draw` resizes only while no worker draws; `ResizeAlone` drops that
rule. It has a screen vector, so that the loop does not sleep. Main alone resizes:
SDL requires one thread for its renderer.

### FileDevice

`dev[i]` is `uxn_file[i]`: the name, the state, the stream `f` or the directory `dir`
with the entry `de` it stopped at, and the sandbox flag. One action is one command,
since both devices belong to one thread here: naming (`SetName`), READ (`ReadFile`,
`ReadDir`, `ReadNothing`, by what the name turns out to be), WRITE (`WriteFile`,
`WriteNothing`, after `ensure_parent_dirs`), DELETE. `Reset` is the code's `reset`, and
runs where the code calls it: before a name is looked at and before every opening, so
that an opening that fails leaves an idle device.

The disk (`inode`, `data`, `made`) and the C library are external. What they do that
the device depends on is kept: a file without a name lives while a stream holds it; a
directory is the snapshot taken when it was opened, in any order; a stream reads to
the end of the file at once (the files are shorter than a block), keeps what was not
asked for, and once it met the end does not look again; an opening, a `mkdir`, an
`fwrite` or an `fflush` may fail, the last two with part of the bytes on the disk. A line of
a listing is one unit and a READ has room for one or two; the port SUCCESS is what
`hist` records of the answers. STAT changes nothing but memory and is the operator `Shows`.

A name is the walk that its text describes (`Name`): it starts at the root or, when it is
relative, at the working directory `Top`, and each part leads down, up (`..`) or nowhere
(`.`); it may end with a slash. `Parent` is the tree of all files and directories that there
can be, of which some are there. There are no links, a node is a file or a directory for
good, and no name goes on behind a file. The sandbox check is the code's: `retry_realpath`
cuts the name back to the parts that are there (`Seen`), and the path of the last of those
is compared with that of the working directory over the latter's length. `Alike` are the nodes
whose path agrees so far: all in `Top`, and those in and under a directory beside `Top` whose name
begins with the characters of `Top`'s (`PathAssumption`, which also says that the emulator is
not started in the root directory, whose path begins every other one).

What the check promises is therefore less than that nothing outside `Top` is opened, and
`Sandboxed` says no more: a device that passed means a node of `Alike`, and the directories that
`ensure_parent_dirs` may make for it lie there or are there already. It says it of names in which no
`..` follows a part that was not there when the name was given (`firm`, history): such parts are cut
off before they are resolved, and where the name leads once a WRITE has made them the check has not
asked. The names of the `file_device` run have all of these: up again, into a directory beside the
sandbox, out of it from the root, and up from a directory that may not be there.

### Audio and EventLoop

`main` is where the program is (`main.at`): in a vector, at the arguments, or at one of
the places of `emu_run`'s loop, `loop` (System/state and the clock), `events`
(`handle_events`, one event per `TakeEvent`), `clear` and `peep` (the rest of a handler
after its vector), `frame`, `wait`. Handlers change the ports and then evaluate a
vector; a vector is whatever the ROM may do until `Brk`: `Halt` (System/state),
`StartNote` with `Unpause` (the two halves of a DEO to a pitch), `ReadVu`. `Restart` is
F4, F3 sets the state. Beside it run the thread of standard input (`StdinRead`,
`StdinPush`), the callback, the user and the clock (`FrameDue`).

The queue is SDL's, external, bounded and first-in first-out. Who pushes with a retry
and who without is the code's: standard input waits, the callback and the user's own
events do not. SDL's lock of the audio device is held for the whole callback and taken
by `audio_start` and the pausing; reading a VU port takes no lock, so it falls between
two samples. `AudioStart` is one step under that lock. In `Audio` a voice is its
place in the sample and in the envelope: `Sampled` is a turn of `audio_render`'s loop,
`Level` the envelope; a memory of `MEMORY` bytes makes `i` wrap as its 16 bits do. The
age stops counting at the release's end, where the code's 32 bits make no difference.

A ROM (`Programs`) is its vectors and what it may do in them, with its arguments, its
standard input and its user. Vectors do not change while it runs; a restart clears those of the
audio devices, which are ports (`system.c:71`), but runs the boot vector, which sets them
again, before the loop takes another event (`Restart`).

A console input is a byte and its kind. `Told` is `console_input`'s first line, which turns EOF
into an end (`console.c:23`). The bytes of an argument are C's `char`, signed where this is built,
so that a byte 255 of an argument is EOF (`Char`), while standard input gives 0 to 255
(`Byte`): a ROM is told of an end within such an argument, and `ConsoleInOrder` has it
where the code has it. A key goes to the controller's key port if `get_key` has a character for
it (`GetsKey`, which asks for the modifiers that are down when the event is handled), and
to the buttons otherwise. A hat or an axis that goes straight from one direction to the
other presses the new one and leaves the old (`uxnemu.c:394-419`), in the code and here; the
middle releases them all. `ButtonsAreHeld` is what that comes to: a button that is pressed
when the queue is empty is held, or is a direction of a hat or an axis that has not been in its
middle since.

### System, Uxn, UxnTnl, Assembler, Toolchain

These are written for a byte of `B` values (0x100 in the code; a run takes 16), so that
memory, addresses, a stack's pointer and every wrap are the code's with fewer bits.
`Uxn!Step` is one turn of `uxn_eval`'s loop on a machine, a record of memory, ports, two
stacks and a program counter; an instruction is an opcode with its three modes. The
code's macros take operands byte by byte and so does the model (`Item`, `Put`), because
the bytes that stay above the top of a stack are what a later instruction with a full
or empty stack reads. `UxnTnl!TnlStep` is the same turn in `uxn-tnl.c`, which keeps the
stack's top elsewhere and writes every opcode out; `CoresAgree` lists in `Parts` where
the two differ, which is four places, and says they agree in all others. `Defined`
leaves out what is undefined in C: a load or a store by an index of local storage beyond the
banks (port 0xDA, which `uxn.c:76,80` does not test), and one before the memory's start. What is
said of every instruction (`CoresAgree`, `Confined`) is said of those that remain. `Confined` has
two exceptions, as the code has them: the second byte of a short at the end of a bank is the next
bank's, and an STR whose offset runs over the end of the first bank puts its first byte into the second
and a second byte into the first again, because only that one's address is masked.

`System` is the expansion port, loading, booting and restarting. `Assembler` is a state
machine over tokens: one action per kind of token (`WriteHex`, `WritePad`, `MakeLabel`,
`CloseLambda`, `MakeRef`, `MakeMacro`, `WalkMacro`), one per reference (`ResolveRef`),
and `Build`; what a token needs is `Accepts`, and without it the assembler ends
(`ErrorAsm`, `ErrorRef`). A token is what `parse` is given; a name is its scope, its
child and its lambda's number. `Toolchain` runs the assembler on a source, boots the ROM
it wrote, evaluates it and restarts it. `Linked` is the one property that needs them
all: whatever reference the assembler wrote, the core, executing it, arrives at the
label (or has its address), and whatever would not arrive was refused. `Machines` are
machines no short source leads to; the laws of the core are stated for every instruction
such a machine is at, as they are for the ROMs.

## What the runs show

| Run | Bounds | Shows |
|---|---|---|
| `records_manager` | main and 2 workers, 3 records; main alone creates and joins | `SelfIsOwn` and `ManagerIsAnswered` hold when one thread manages the others, though records and handles are reused |
| `records_many` | 3 threads, 3 records; everybody creates and joins, each id once | `SlotExclusive`, `InUseIffOwned`, `WorkerGetsItsArguments` |
| `records_live` | main and a worker, 3 records; ids joined twice, stale or never created; `main` ends with `destroy_mutexes`; fair | main's record is never given away before that (`MainRecord`), a joined record comes back, every command returns |
| `table_safe` | 2 threads, 3 objects, a table of 2 slots that grows to 4 or fails to, two handles the ROM made up; fair | `Sound` (an id names the object CREATE made, no two CREATEs give one id, no object is lost), `RegistrySpec`; whoever gets the lock returns |
| `sync_commands` | four ROMs: locking (2 threads, 2 mutexes that come and go, a made-up one), sharing (3 threads, a mutex and a condition), timed waits (2 threads, 2 ms of 2 ns to the second, timeouts 0, 1 and 3 ms, 8 ns), meeting (3 threads, a barrier with counts 0, 2, 3, two releases); fair | `Sound` (one serial thread per release), `LocksKept`, and that a timed wait is not early, not refused, and ends |
| `screen_draw` | main and a worker, 3 by 2 and 2 by 1 cells, tiles of 2 by 2, words of 32, 15 draws, palettes and sizes, two commands issued; fair | `Sound` (no drawing is lost), `DrawsWhatIsMeant`, `Shown` |
| `file_device` | 2 devices, a tree of 4 directories (the root, the sandbox, one in it and one beside it) and 4 files, 10 names, 3 files' data of up to 2 bytes, writes of 1 and 2, reads of 1 and 2; a ROM that reads and writes one file, or one that makes and lists directories | `Sound` (one handle), `Sandboxed`, `ReadsTheFile`, `ListsEachOnce`, `KeepsWhatItAnswers` |
| `event_loop` | 2 voices, 2 samples per callback, a memory of 8 bytes, 4 notes of which 2 are played, a queue of 2, 3 bytes and 2 arguments, a byte 255 in each, 3 events of the user; eight ROMs; fair | `Sound` (a voice stays in its sample, its envelope rises and then falls), `PlayingIsHeard`, `ConsoleInOrder`, `InputPorts`, `EndOnce`, `EndIsHeard`, `InputIsHeard`, `HaltEnds` |
| `toolchain` | 14,000 sources of up to 6 tokens and machines; bytes of 16 values, 2 banks, 3 labels, 4 references, 2 macros, 3 instructions | `ImageSound`, `LambdasNest`, `Linked`, `StartsFresh`, `CoresAgree`, `Confined`, `ExpansionMoves` |

Why the bounds are enough: the record protocol relates at most a creator, a worker
and a joiner per record, and the races need two records at most, so three records
and three threads contain every pairing (the theorems below remove the bound for
the central ones). A table that doubles once meets every path of the create
function: a free slot, growth, failure to grow, the new slots. The carry of a
deadline depends on a second of two milliseconds exactly as on one of a thousand; 0,
1 and 3 ms are no carry, a possible carry, and a whole second and a carry. Two draws
at a time meet each other and the redraw at every step, and the commands cross each
edge of the screen and wrap. A file of two bytes is read in one piece, in two, and
past its end; two devices on one file, with a third file for a name that was deleted
and made again, meet every way a file is shared; locks and barriers have no object
in common, so no ROM of `sync_commands` mixes them, nor does one of `file_device` mix data
with listings, which show no data. A queue of two is full when the callback, standard
input and the user each have something to say; two voices are the fewest of which one
can end while the other plays on. In `toolchain` every rune, opcode, mode and error
occurs; spans of 0 to 130 bytes cross both ends of a signed byte of 16 values and the
middle of the memory, and three lambdas nest, overlap and miss their braces.
`MaxSteps` stops the core. `MaxSize` is the disk that gets full. `MaxTime`, `MaxRound` and `MaxIssued` only stop the
clock, the barrier and the ROM.

Three runs find a violation, each of something a comment or `README.md` says:

* `records_join_race`: JOIN frees the record (line 317) before it reads the result
  (line 319); a CREATE in between makes it answer 0 instead of the exit code.
* `records_self_race`: SELF may find a record just taken by another thread that
  still holds the handle of the thread that used it before, which the caller has
  inherited; it answers another thread's id.
* `screen_race`: a draw reads the layer's address before it takes the lock; a resize
  in between moves the layer.

Met while modelling and kept out of the runs by their bounds:

* With several creators and joiners ThreadLimitReached may be answered though a record
  was free all along. With `uxncli` a worker that outlives `main`'s cleanup initialises
  again and puts its own handle in main's record.
* Two threads whose COND_CREATE is the first both initialise the table and an id already
  given is lost, as the TODO at `threads.c:150` says; `Starter` has one thread. The
  65537th object of a table is stored in a slot no handle reaches.
* A resize that finds memory for the pixels and not for the layers leaves the two with
  different sizes.
* The automatic advance never brings the cursor back to 16 bits (`screen.c:282`), and the
  clipping does: a row of sprites that is continued past column 65527 without a write to the
  cursor's ports is drawn from the left edge again, and the rectangle it reports is far to the
  right, so that the window does not show it. `CursorAssumption` excludes that.
* STAT of a file whose size needs more digits than the ROM asked for fills with `?` from
  one byte too early (`file.c:288`).
* F4 after F3 takes back the end that F3 asked for: the restart clears System/state
  before the loop looks at it.
* A ROM without a screen vector that halts in an audio or console vector is noticed at the next
  event only, which `HaltEnds`, a property of ROMs with one, does not speak of.
* The envelope of a note with an attack and no decay drops, on the sample after its top,
  to half of its top at once, so that it does not fall continuously (`audio.c:40-46`).
* A VU port read between the envelope's end and the next callback ends the note, and its
  event is never sent (`audio.c:115`). A sample that all but fills the memory can pass
  its end unnoticed, since its place has 16 bits.
* A macro whose body has two nested lambdas ends at the first brace that closes one
  (`uxnasm.c`, `makemacro`). `.label` takes a label of any address and keeps its low byte,
  and label addresses wrap at 16 bits.
* A short at the last byte of the zero page or of a bank has its second byte in the next
  page in `uxn.c` and in the first one in `uxn-tnl.c`.

### Deadlock and fairness

`CHECK_DEADLOCK FALSE` is set where the system may stop: the process ends, or every
thread waits for another one because the ROM made them. Fairness is weak and per
thread: the operating system runs a thread that can take a step of the *device*. In
`EventLoop` main goes on (`Main`, a vector's BRK included), so do standard input's push
and the callback, and a frame becomes due.
Nothing obliges the ROM to do anything, a thread to end, a lock to be given to a
particular waiter, or a wait to wake for no reason. The clock goes on up to its
bound.

## What is proved

`ThreadRecords_proofs` proves seven theorems of `ThreadRecords`, for any number of
threads and records and for every ROM that `Issued`, `Creators` and `Joiners` allow:

* `TypeSafe`: `TypeOK` always holds.
* `OneOwner`: no record has two owners (`SlotExclusive`).
* `NoLeak`: a record is marked in use exactly while it has an owner (`InUseIffOwned`).
* `OwnArguments`: a new thread starts with its own CREATE's arguments
  (`WorkerGetsItsArguments`).
* `MainKeepsItsRecord`: record 0 is `main`'s from its first command to its end
  (`MainRecord`).
* `OneManagerIsAnswered`: a single manager's JOIN answers the outcome of the thread it
  named, and its CREATE reports a full table only when it was (`ManagerIsAnswered`).
* `SelfFindsItsOwn`: SELF answers the caller's own record (`SelfIsOwn`).

The assumptions are those named in `ThreadRecords` about the constants (`Main` is a
handle and the zero handle is none, there is at least one record, words are
naturals); TLC evaluates them in every run. `TypeSafe` and `MainKeepsItsRecord` need no more; the others
assume `JoinOnce`: a ROM that joins an id twice can give a record away while another thread
uses it, and nothing in the device prevents it. The last two assume that `main` alone
creates and joins, since the runs that find a violation show what happens without it, and
`SelfFindsItsOwn` that pthread_create stores the handle before the thread runs
(`HandleStoredFirst`) and that `main` does not end with `destroy_mutexes`.

The argument. `SlotExclusive` is not inductive: that a JOIN may free its record
depends on nobody else being about to, which depends on where an id is. The
inductive invariant `Exclusion` (in `ThreadRecords`) says where: the id of a record
that is handed out is in exactly one place, in `open` (the ROM has it) or in the one
JOIN that took it (`IdsUnique`); it names a record whose thread the creator has
started and nobody has collected (`IdsNamed`); record 0 is `main`'s and `main` has no
other (`MainAlone`). With `TypeOK` and `IndexOK` these and the two properties are
inductive; the proof has a step per action and under it one per conjunct. `OwnArguments` adds
`ArgumentsKept`, that from the moment CREATE has filled its record until the new
thread has read it the record holds the arguments of that CREATE: since nobody else
owns the record, nobody writes it. `Managed` adds for a single manager what its scan has
seen behind it and that the record of a JOIN under way is nobody else's until its result is
read; `RecordsFound` that a worker's handle is in its own record and in no
record before it, in use or not.

`SyncCommands_proofs` proves five theorems of `SyncCommands`. Three are about COND_TIMEDWAIT, for
any clock, timeout, units of time and number of threads:

* `DeadlineExact`: the `struct timespec` that the handler computes is one the library
  takes, and lies exactly the given number of milliseconds after the clock it read.
* `NeverEarly`: no timed wait answers Timeout before that time (`TimeoutNotEarly`).
* `NeverRefused`: no timed wait is refused once its handles are found
  (`ValidHandlesAreTaken`).

They assume only that the units are positive, the numbers naturals and the commands
commands (`ClockAssumption`, `NumberAssumption`, `ProgramsAssumption`). The arithmetic
is division with remainder, once for the clock by the nanoseconds of a second and
once for the timeout by the milliseconds of one; both remainders are below a second,
so one carry is enough. The inductive invariant `TimeInv` carries that to the answer:
the types of what the argument reads; which command a thread can be in at each place,
and that a barrier's threads are at the barrier, since a barrier's release moves them
(`Places`); and that the deadline of a wait is the one computed from its own call,
and passed once the wait has expired (`Timing`). The clock of the model is bounded by
`MaxTime`, the numbers are not 32 bits wide: a clock of 64-bit seconds does not wrap.

The fourth, `KeepsLocks`, is `LocksKept` for any number of threads and of handles, any ROM of the
module and every refusal, failure, timeout and spurious wake-up: between two commands a thread
has locked exactly the mutexes that the answers it read say, and a wait that returns returns with
its mutex. The inductive invariant `LockInv` says of each place what the thread has locked there
(`Has`: a sleeper has given its mutex back; one that is answered has what the answer will tell it)
and that the library's owners are just these (`Owners`); that the handles a thread holds, and those
a handler has found, name objects (`Uses`), since otherwise a CREATE could give the handle of a
locked mutex again; and that nobody else uses what a thread is about to destroy (`Alone`). It
assumes what `ThreadAssumption` and `IdAssumption` say of the constants, and the ROM's discipline,
which is in the guard of `Deo`.

The fifth, `OneSerialAnswer`, is `Sound`: of the threads that a release of a barrier answers
at most one is told that it is the serial one, no more are answered than the barrier counts,
and one is when all of them are. `MeetInv` says who is on the way to the ROM with which
release and answer (`OnTheWay`), that those who wait are fewer than the count (`Arrivals`),
and that each release had a set of threads and one of them for the serial answer, which
everything answered since agrees with (`Rounds`).

`HandleTable_proofs` proves two theorems of `HandleTable`, for any number of threads,
objects and slots and wherever `malloc` and `realloc` fail:

* `TableSound`: `Sound`. An id that CREATE answered names the object it made until a
  DESTROY is called with it, no two CREATEs give one id, and no object is lost.
* `ImplementsRegistry`: the table implements `HandleRegistry` (`RegistrySpec`), which is
  what entitles `SyncCommands` to take a look-up as one step.

Both assume that one thread makes the table's first use (`SingleStarter`), which nothing
in the device sees to, and the first one that the ids the ROM makes up are none that
CREATE gives (`StrayNeverGiven`); a finite number of objects bounds those, since CREATE
takes the lowest slot and the slots below hold different objects. The inductive
invariant has three parts. `Control`: a thread is inside a table function exactly while
it has the lock, and nobody is before the table is initialised. `Memory`: what each
thread that writes the slots may rely on while it has the lock (the new slots of a table
that grows are the ones never written, the slot that a CREATE stores to is still the
lowest free one, the object that a DESTROY has freed is still in its slot). `Given`: a
handle is in the ROM's hands, or one CREATE has it to answer, or one DESTROY to free.
The refinement needs the first two only: each step is the registry's step where the
answer is settled, and a stutter everywhere else.

`EventLoop_proofs` proves five theorems of `EventLoop`, for any number of voices, any
samples, envelopes and ROM, any queue, and the callback and `main` in any order:

* `VoicesSound`: `Sound`. The types, with every voice that sounds inside its sample, and an
  envelope that rises through its attack and never afterwards.
* `Heard`: no voice plays into a device that stays paused (`PlayingIsHeard`).
* `AnnouncedOnce`: the end of a note is announced once (`EndOnce`).
* `EveryInputOnce`: the ROM is told of the characters of the arguments and the bytes of
  standard input, each once and in order, a byte 255 of an argument as an end (`ConsoleInOrder`).
* `PortsAreTrue`: once the events are taken a button that is pressed is held, or a direction of a
  hat or an axis off its middle, unless an event was lost; and a key or a turn of the wheel is
  seen by its own vector only (`InputPorts`).

They assume what `Audio` and `EventLoop` name about the constants (`AudioAssumption`,
`NoteAssumption`, `ProgramsAssumption`, `MaxQueueAssumption`: the sizes are numbers, a note's
addresses and lengths are in memory, a ROM's vectors and events are ones there are). The
envelope is arithmetic: a quotient grows with what it divides, and the parts of the
envelope are in order. The pausing is an argument about two threads, and `Rendering` is
what it needs: while the callback runs the device is not paused, and if it has found no
voice that plays, the voices it has passed are silent still, since a note starts under
the lock that the callback holds and a read of a VU port only ends one. So the callback
never pauses behind a note, and what it sees when `main` starts one is settled by
`main`, which unpauses next. An end is announced of a voice in `open` only, a note that was
started and not announced, and the callback is at the announcement only of such a voice.
For the input `InputsInv` adds where every byte is: what standard input has pushed and
`main` has not taken waits in the queue, in its order, between whatever else is there
(`Waits`); what was given is what was told of the arguments and what was taken of the bytes
(`ConsoleInv`); a button that is pressed, or will be by an event in the queue and not
released by a later one, is held, or may be left by a hat or an axis that is off its middle
(`HeldInv`). The model gives the inputs as one flattened
sequence, and that it is what its lines say is an induction on the lines.

`FileDevice_proofs` proves five theorems of `FileDevice`, for any names, files and lengths, any
ROM and wherever an opening, a `mkdir` or a write fails, wholly or in part:

* `OneHandleAtATime`: `Sound`. A device has the one handle its state says, and no other.
* `NothingOutsideIsOpened`: `Sandboxed`, for any tree and any names.
* `PiecesMakeTheFile`: the pieces of a file that READs answer are its bytes in order
  (`ReadsTheFile`).
* `EveryEntryOnce`: the pieces of a directory are its entries, each once (`ListsEachOnce`).
* `AnsweredIsKept`: what WRITEs answered is in the file (`KeepsWhatItAnswers`).

They assume that `NULL` is no stream, no entry and no directory (`NullAssumption`) and what
the module says of its other constants, of the tree and of the paths
(`NamesAssumption`, `PathAssumption`). The inductive invariant `FileInv` is one record of facts per
device (`Kept`): which handle belongs to which state (`Handles`); what was read is the
file up to the place of the stream, and a stream that met its end was there (`ReadSoFar`);
the entries in the lines shown and those left, the one that did not fit among them, are
the directory's and have none in common (`ListedSoFar`); what
was answered lies where it was put, and nothing shortens a file that is open
(`WrittenSoFar`). It holds for one device whatever the other one does to the disk, because
what a step of the other can change is only a file this one shares and is not safe from.

`Screen_proofs` proves two theorems of `Screen`, for every size of tile, screen and word, any
number of threads and layers and any commands:

* `NothingLost`: `Sound`. Whenever nobody has the lock every cell whose pixel is out of date is
  in the dirty rectangle, until a command strays, and the buffers fit the size.
* `DrawsExactly`: `DrawsWhatIsMeant`, if no thread draws while the screen is resized
  (`ResizeAlone`): a command colors what it should and stays in the layer's memory, until a
  fill goes beyond the margins.

Two arguments meet. The one about addresses is arithmetic (`Draw`): a place in a row and a row give
different addresses (`RowAndColumn`), so what is clipped by wrapped coordinates or runs into a
margin touches no other cell, and what a command draws is in the rectangle that it reports. It
needs `CursorAssumption`: the cursor is in 16 bits, and a row of sprites does not get half a word
away from it. The one about the threads is the inductive invariant `DrawInv`: the read lock is
held by who is inside a command (`Locks`), who keeps the four words that it has widened wide
(`Reported`), since they are reset under the write lock only; a cell that is out of date is in the
rectangle, or somebody who has drawn it is still at one of the four words (`Covered`); and
between a redraw and its reset none is (`Copied`). That the words are four and not one does not
matter to it, nor that fills report before they draw and the others after.

`Assembler_proofs` proves two theorems of `Assembler`. `ImageKept`: `ImageSound` holds for every width of
byte, every source and every limit on labels, references and macros that
`ByteAssumption`, `LimitsAssumption` and `SourcesAssumption` allow. Wherever paddings move the
position, nothing but zeros lies below the program's page or above the end of the image,
the places of the references are inside the image and do not overlap, so that resolving
one does not spoil another, and no two labels or macros bear the same name. Each kind of
token has its step; the work is in the references: the code writes nothing below the end of
the image, and what it puts for a reference ends with a byte that is not zero, so that
the image ends behind each reference before the next one is put.
`LambdasEndInTurn` is `LambdasNest`: the brace that closes ends the lambda that was opened last
and has not ended. The stack of numbers holds exactly the lambdas that have not, in the order
of their references. It holds as long as the numbers, of one byte, have not begun again;
after the 256th lambda two of them can bear one name. The label's address says nothing here:
a pad can put the end of an inner lambda behind that of the outer one.

`Toolchain_proofs` proves five theorems of `Toolchain`, for every source, width of a byte
and number of banks:

* `ReferencesLead`: `Linked`. In a ROM that was written and booted every reference leads the
  core to its label.
* `EveryStartIsFresh`: a boot or a restart leaves the core nothing but the image, and after a
  soft restart the zero page (`StartsFresh`).
* `CopiesMoveAll`: a copy in the direction that suits the overlap moves everything and nothing
  else, at whatever addresses and round the end of a bank (`ExpansionMoves`).
* `StoresStayInTheirBank`: the machine keeps its widths, and a store its bank but for the one
  byte that runs over its end (`Confined`).
* `CoresStayTogether`: the two cores agree on every instruction where they do not part
  (`CoresAgree`), whatever the machine is and whatever lies above the tops of its stacks.

They assume `ByteAssumption`, `BanksAssumption`, the assembler's assumptions, that the
given machines are machines (`MachinesAssumption`), and `NibbleAssumption`: a byte is two
nibbles and its eighths are whole, for the modes of an opcode, and a short has at most 16 bits, which are
what the bitwise instructions work on. The composition is by inclusion: every step of the
chain is the assembler's or leaves its state alone, so `ImageSound` holds of it. `ChainInv`
adds that the machine has its widths, which takes every opcode, and that the file
is the image from the program's page on. `Linked` needs three parts to meet: `ResolveInv`, that the
bytes of every reference that was resolved are in the image, since resolving one does not
spoil another (`RefsApart`); `Loaded`, that until the first step they are in the memory;
and `Linking`, that the core, reading them by the arithmetic of its own instruction, arrives: a
distance is two bytes of a number that may be negative, and the program counter wraps
where the assembler's address does not.

A copy is a fold over its bytes and `BitByBit` one over bits; what is claimed of
them, that no byte is read after it was overwritten and that the result is a short, is proved
by induction on the number of steps, which is first-order: a set of numbers without a
least member is empty (`NaturalsInduction`, `WellFoundedInduction`).

The cores are proved to agree by simulation. `AsTnl` writes a machine as `uxn-tnl.c` keeps it,
each stack one byte up, and a step there of `AsTnl(n)` is `AsTnl` of the step of `n`
(`StepSame`); writing it back loses nothing (`RoundTrip`). `uxn.c` takes an instruction's
operands, does its work and puts the results byte by byte; `uxn-tnl.c` reads the operands where
they lie, moves the pointer by the instruction's balance and writes the results over what is
there. What relates the two: an operand that is read is the one taken (`Tops`, `Regs`); for
every opcode the bytes put are those of the values written, most significant first
(`Matched`, from one lemma per family of opcodes); a stack that was moved and then
overwritten is the one whose operands were taken and whose results were put, dead
bytes included (`Overwritten`); and the work in between, on memory and ports, is the
same on both (`EffectSame`), also where a DEO to 0x04 or 0x05 moves the pointer of the stack it is
at work on. The cases of `Parts` are hypotheses of the lemmas about loads, stores and ports,
and of no other.

Only model-checked: that the window comes to show what is drawn (`Shown`), and all liveness,
which the proof system cannot do.

## What is not modelled

In the device: a command byte that is no command (it answers an error and changes
nothing else) and the messages on standard error. Of the machine: `uxn-abc.c` and
`uxn-abc-disp.c`, whose macros use and change one variable in one expression, so that C
leaves their meaning open; several threads that evaluate at once, whose memory has no
lock: what a store tears is the ROM's. Of the assembler: the text of a source (comments,
includes, strings, digits), the memory for strings, the symbol file. Of the emulator: the
window, zoom, the mouse's position, files dropped on the window, the metadata of a ROM;
of `uxncli` the loop over standard input, which is `console_input` byte by byte.
Of the screen: the cursor's automatic advance, sprite patterns and blending, and
scales other than 1. Of the files: two threads at one device, whose fields no lock
protects; the text of names, listings and sizes; the addresses that LENGTH and NAME
may run past; programs other than this one that change the disk. Datetime is a copy
of the C library's calendar; the tools under `etc`, `projects` and `build.sh` are ROM
sources and scripts.

## Plan

Next, in this order:

1. `ThreadPool`: the abstract pool of a ROM with a single manager (a set of running
   threads with their results), and `ThreadRecords` shown to implement it.
2. `Screen`: the cursor's advance and the ports, blending, scale.
3. `FileDevice`: two threads at one device.
4. `uxncli`'s loop, as a second composition of the console.

Theorems after these: the refinement of `ThreadPool`. Of the properties the passing runs check,
all but the liveness ones and `Shown` have a theorem.
