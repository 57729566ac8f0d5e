# A verification development for ChoacuryOS

TLA+ models of the parts of the ChoacuryOS kernel in which something is decided:
who owns memory, which interrupt is served when, which byte belongs to which
command, which key the shell sees, which sector a read touches, what is on the
screen. TLC checks the models on small instances; TLAPS proves the central results
for every size. Line numbers refer to `src/src/...` at the modelled commit, and
`PROJECT.json` maps every definition to the lines it stands for.

## 1. The system

ChoacuryOS is a 32 bit kernel with one processor and one thread, `k_main`, which
ends in the loop of the shell. Concurrency comes from interrupts alone: handlers
run with interrupts off, on top of whatever the main thread was doing, and do not
nest. There is no preemption, no user mode and no test suite.

```
   keyboard, mouse --bytes--> 8259 chips --irq--> c_irq_handler --+
                                  ^                               |
                     pic_unmask --+             ps2_irq_handler <-+-> pit_irq_handler
                                                  |        |              |
   devices <--command bytes-- command queue <-----+        v              v
                                    ^               event rings      s_system_time
   k_main: vga_text_init, pit, sti,  |                     |               |
           ps2_init, storage, -------+                     |               |
           shell_start <--ps2_get_key_event, ps2_get_mouse_event  <--ends hlt-+
              |        |         |
              |        |         +-- guiload --> desktop: window, pointer --+
              |        +-- recovery --> main_menu, test_menu, pong ---------+-> panic
              |
              +-- terminal, history, commands -> FAT -> partition -> ATA
                              |
                       kmalloc / kfree (all of the above)
```

| component | state | operations | what makes it correct |
|---|---|---|---|
| kernel heap, `memory/kmalloc.c` | one static arena of headers and data | `kmalloc`, `kfree` | blocks disjoint and big enough; the arena walkable whatever clients write; NULL only when nothing fits |
| text mode, `drivers/vga.c` | registers of the adapter, its planes | `vga_text_init` | the registers end as the table says from any start; the whole font is in |
| controller, `drivers/ps2.c` | configuration byte, valid ports, types | `ps2_init`, by polling | nothing interrupts for a byte that is polled for; a line interrupts only with its handler |
| command queue, `drivers/ps2.c` | ring of commands, each with a state | main and mouse callback append; interrupt and main send | each device gets its bytes once, in order; input is never taken for an answer; the setup ends |
| keyboard, `drivers/ps2_keyboard.c` | byte buffer, event ring, modifiers | interrupt: `new_byte`; main: `ps2_get_key_event` | each scan code one event, read once, whole and in order; modifiers follow the keys |
| mouse, `drivers/ps2_mouse.c` | id, enabled, byte buffer, event ring | handshake; interrupt: packets to events; main: `ps2_get_mouse_event` | driver and mouse agree on the packet size; a packet becomes what happened, presses and releases alternate |
| interrupts, `drivers/pic.c`, `idt.c` | masks, service bits, handler table | register, unmask, service check, end of interrupt | an unmasked device is served; nothing stays in service |
| timer, `drivers/pit.c` | millisecond counter | tick; read; sleep | `hlt` ends, timeouts end |
| storage, `drivers/storage/*` | device table, partitions, one buffered sector of the partition table | probe, read, write | sectors stay inside their partition; partitions are those of the table |
| FAT, `drivers/filesystem/fat.c` | one buffered sector of the table, open files | open, close, read, write, list, create directory | chains are disjoint whatever access fails; reads and writes touch the bytes asked for |
| shell input, `shell/shell.c` | line, position in the history | one branch per key | the line fits its buffer; keys are handled though the processor halts |
| history, `shell/terminal.c` | ring of 50 lines | add, previous, next, load, save | the latest commands, in order |
| commands, `shell/shell.c`, `shell/commands/*` | current directory, filesystem, font | split, dispatch; `cd`, `ls`, `cat`, ... | memory and files are given back on every path; the current directory exists |
| terminal, `shell/terminal.c` | cells, cursor, first row | write, scroll, clear, redraw | writes stay inside the cells; the screen shows the buffer; rows below the cursor are blank |
| desktop, `gui/desktop.cpp`, `gui/window/*` | the window, the pointer and what is under it | key, click, move | the pointer leaves no trace; restoring gives the geometry back |
| recovery, `recovery/*.cpp` | selection, redraw flag, key lock; the game | one turn per loop | the page shows the selection that Enter would take, and is drawn at last |
| drawing, `gui/window/gui.cpp`, `drivers/vbe.c` | none | lines, circles, text, blending | figures are those asked for, and end |
| text helpers, `drivers/utils.c` | none | copy, compare, convert, split | copies survive overlap; lines split into their words |
| processes, `kernel/process.c` | table of processes | create, switch, terminate | not linked into the kernel |

Interactions that the models keep: the queue and the two device drivers share
bytes and callbacks (`Ps2Queue`); the keyboard interrupt and the main thread share
the event ring (`Ps2Keyboard`); the shell sleeps on interrupts (`ShellInput`); the
order of `k_main` decides what is registered when interrupts begin (`Interrupts`)
and whether the clock runs when something waits for a timeout (`Boot`); clients'
data and the allocator's headers share one memory (`Kmalloc`); the programs start
each other and share the keyboard (`Programs`); drawing past a buffer overwrites the
variables of the recovery (`Recovery`).

What is hard here, and hardly testable: an interrupt between two instructions of
the main thread; an answer and an input on the same wire; rings at their limit; an
index that wraps in one place and not in another; a request withdrawn in the middle
of its acknowledgement; stale bytes of merged headers; a disk access that fails
between two that belong together; hardware found in any state; a screen that two
routines draw on. `PROJECT.json` lists these hazards at their lines, with the
properties that cover them, or why none does.

## 2. The modules

| module | models | checked by |
|---|---|---|
| `Heap` | what users of an allocator may rely on | refined by `Kmalloc` |
| `Kmalloc` | `memory/kmalloc.c`, one turn of the search loop a step | `MCKmalloc`, `KernelProofs` |
| `DropOldestQueue` | what readers of input events may rely on | refined by `Ps2Keyboard` and `Ps2Mouse` |
| `Ps2Keyboard` | `drivers/ps2_keyboard.c` and the keyboard itself | `MCPs2Keyboard`, `KeyboardProofs` |
| `Ps2Queue` | the queue of `drivers/ps2.c`, the handshake and framing of `ps2_mouse.c`, two devices | `MCPs2Queue`, `Ps2QueueProofs` |
| `Interrupts` | `drivers/pic.c`, `c_irq_handler`, the boot order, the 8259 pair | `MCInterrupts`, `KernelProofs` |
| `ShellInput` | the loop of `shell_start`, the history of `terminal.c` | `MCShellInput`, `ConsoleProofs` |
| `Ps2Mouse` | `ps2_mouse.c` once the mouse is enabled, and the mouse | `MCPs2Mouse`, `MouseProofs` |
| `Terminal` | the cells of `shell/terminal.c` and the screen | `MCTerminal`, `ConsoleProofs` |
| `Fat` | the calls of `fat.c`, one device access a step, and the disk | `MCFat`, `FatProofs` |
| `Vga` | `vga_text_init` and the adapter's registers | `MCBoot` and `BootProofs`, through `Boot` |
| `Ps2Init` | `ps2_init` by polling, and the controller | `MCBoot` and `BootProofs`, through `Boot` |
| `Storage` | `storage/ata.c`, `device.c`, `gpt.c`, `partition.c`, and the drives | `MCBoot`, `BootProofs` |
| `Boot` | `k_main`: composes `Vga`, `Ps2Init` and `Storage` | `MCBoot`, `BootProofs` |
| `Text` | `drivers/utils.c`, splitting of lines and paths, names of directory entries | `MCPrograms`, through `Commands` |
| `Commands` | what `shell_start` sets up, and the commands | `MCPrograms` and `ProgramsProofs`, through `Programs` |
| `Draw` | figures and text of `gui.cpp`, `vbe.c`, `vga.c` | `MCPrograms` |
| `Desktop` | `start_desktop`, the window and its manager | `MCPrograms` and `ProgramsProofs`, through `Programs` |
| `Recovery` | the menus of `recovery.cpp` | `MCPrograms` and `ProgramsProofs`, through `Programs` |
| `Pong` | `pong.cpp` | `MCPrograms`, through `Programs` |
| `Programs` | composes the four programs that run after the boot | `MCPrograms`, `ProgramsProofs` |
| `KernelProofs`, `BootProofs`, `Ps2QueueProofs`, `KeyboardProofs`, `MouseProofs`, `ConsoleProofs`, `FatProofs`, `ProgramsProofs` | theorems | TLAPS |

Definitions marked `mutant` at the end of their line are not part of the models:
each is a plausible mistake in the code, substituted for the definition below it to
see that a property notices.

### Kmalloc

Unit of address and size: 16 bytes, which is the header's size and the alignment;
requests stay in bytes, so rounding is part of the model. `data_size` and `free` are
what a header read at each unit would say. That covers stale headers, which merging
leaves behind, and clients: `ClientWrite` puts arbitrary header values into
the bytes a client asked for. `nodes` (where headers really are) and `owned` (what clients
hold) are auxiliary. The actions are the outcomes of one turn of the loop of
`kmalloc` (`GiveUp`, `Merge`, `Advance`, `Take`), its entry and its rejection, and `kfree`.
Only the main thread allocates, so a search is never interrupted by another;
splitting it into steps is what shows that the loop ends. Clients are correct:
they free what they hold, once, and write only to what they asked for.

### Ps2Keyboard

The keyboard sends scan codes `E0? F0? code`, buffers few bytes and reports an
overrun once. `Irq1` is the handler with everything it does to its ring. `Enter`,
`Empty`, `Copy`, `Drop` are the steps of `ps2_get_key_event`; the handler
can come between any two of them that the interrupt flag lets it. Keys are the ones that
matter: modifiers, an extended key that shares a code with another, a plain one.

### Ps2Queue

Starts where `ps2_init` ends its synchronous part: commands queued, interrupts
on. `Look`, `Mark`, `Send` and `SendTimeout` are the steps of
`ps2_update_command_queue` in the main thread; `IrqHandler(d)` is
`ps2_irq_handler` with the callback and the queue's update. The devices accept
bytes, ask for them again, stay silent, and send input once told to scan; a mouse
changes its id after the magic sample rates and sends larger packets from then on.
`slots[QueueSize]` stands for the memory behind the ring, because the read index is advanced
without a wrap (`ps2.c:214,221`). In the handler sending cannot time out: the clock stands
still.

### Interrupts

Both 8259 chips with their masks, requests and service bits, fully nested, as
`pic_init` sets them up; a request can be withdrawn between the processor's
decision and the acknowledge cycles, which is how spurious interrupts arise. `Kernel`
walks through the boot order. A device that waits does not raise its line again
until its byte was read, so an interrupt lost once is lost for good. The chips and
the processor are external and modelled as documented hardware, as far as the code
depends on them.

### ShellInput

A line of text stands for its length. `Get` is one turn of the loop with the whole
handling of the key; `Halt` is `hlt`, apart from the look at the queue, so that a
key can come in between. `CopyFrom(-1)` reads what lies before the ring: a string of any length, where
`MaxLength` stands for every length that does not fit. Then the stack is overwritten
(`Overrun`) and the model ends, as nothing is known of the shell any more.

### Ps2Mouse

Starts where `Ps2Queue` ends: the mouse is enabled and its id known. `Report` sends a packet
as the hardware encodes it; `due` remembers what happened to the mouse, for comparison with what
the handler makes of it. `Irq12` is the handler for one byte, with a whole packet's
worth of events at its end. Bytes can be lost anywhere, so that packets are cut in the
wrong place. QEMU's packets with bits 6 or 7 set (`ps2_mouse.c:92`) are among them.

### Terminal

Cells are named by column and row; `Line` is the row of the buffer written to. Colours and
the blinking cursor are left out. `screen` is what `set_char` drew last. A tab is four blanks, so four
`Put` in a row. `shell.c:329-332` scrolls when `row >= height`, which `InBounds`
shows never to be so: that branch is dead.

### Fat

A call (`FAT_Open`, `FAT_Read`, ...) begins with its checks and goes on in steps, each with one
access to the device, which can succeed or fail. Calls do not overlap: there is one thread.
A read of two sectors that fails in the second has filled the buffer with the first
(`torn`). A cluster is one sector of a few elements; a directory's elements are entries, a file's are
values that say where they came from. `call` holds the locals of the call in progress and,
when it is over, its result. The data of files are taken not to look like directory entries
of the file itself, so `update_file_size_in_dir_entry`, which looks for the entry in the
file's own first cluster, writes back what it read; for an empty file it
looks two sectors before the data area, which is outside the model. The one driver in the
repository, ATA, refuses every write (`ata.c:103-110`): that is one of the behaviours of
the modelled device, and the model also answers for a driver that can write.

### Vga

`vga_text_init` writes one register a step, over whatever the registers were. The adapter
is external and modelled where it decides what a write does: register 17 of the CRTC
protects 0 to 7, the attribute port takes index and value in turn, and the plane and
addressing registers decide whether a byte of the font gets to where glyphs are looked for.

### Ps2Init

One command to the controller or a device is a step, and every wait may time out, which
needs the timer to interrupt (`interrupts`). The controller has any configuration to begin with,
a second port or none, and a self test that may reset what was set. The bytes that devices
answer to an identify are a constant; what a known device is set up with is in `Ps2Queue`.

### Storage

Slots are probed one after the other, then the partition table of each device, one sector
or one entry a step, then reads and writes through partitions, one sector a step.
Sums are those of the code, with the width of their types (`Wrap64`, `Identified` with its
sign extension). `loaded` is the sector in the one buffer; `InBuffer` is what the code takes for
the entry, whichever sector is loaded. Every write is refused: `ata.c` has none.

### Boot

`k_main`: text mode, the check of the boot loader (`WrongMagic` panics), the timer and
`sti`, the controller, the disks. What a stage leaves in its variables and nobody looks at again is forgotten
at the step to the next one, so that TLC does not multiply it with what comes.

### Text, Draw

Pure operators, folds or recursive functions for the loops of the code: a string is the sequence of its characters,
a figure the set of its pixels. Their properties compare them with what they stand for over
bounded inputs (`MovesIntact`, `SplitsIntoWords`, `ReadsBack`; `LinesReach`, `CirclesRound`,
`DotRunsOn`), and are looked at in the initial state. Coordinates are unsigned, modulo `Wrap`; of a circle of radius 0
the loop runs on for half of all values (`gui.cpp:289`), so `CirclesRound` begins with radius 1 and `DotRunsOn` says what happens at 0.

### Commands

A file or block is counted by its kind in `held`: what is allocated and not given back. Any allocation
and any access may fail, at each step of setting up (`FAT_Init`, `LoadFont`), opening a path,
listing a directory. Names are one character long and so is "root". `cd` and `cat` put a path together in an array of `PathSize` characters that nothing
checks; with a longer one (`cd /` often enough) the stack is overwritten, `running` is "overwritten" and the model ends (`Overruns`). Commands
that only print change nothing.

### Recovery, Pong

Each loop reads at most one key a turn; `running` says whose turn it is. The screen's buffer is allocated a
tenth of its size (`recovery.cpp:540`), so filling the screen runs over the variables that
the linker puts behind the arena: `Filled` sets the statics of the file to bytes of the colour.
Numbers are `uint8_t`: the main menu's selection steps from 0 to 255 and the paddle of the game starts at 540 modulo 256.

### Desktop

The pointer is a set of pixels (`Cursor`) and goes to a few places; the screen is seen at all pixels it has there, each the word of the
frame buffer it is in, so that a pointer beyond the left edge is seen at the end of the row above. `picture` is the screen as it would be without
pointers, `covered` the pixels where the window was drawn over one. That begins at the start: the pointer at (0, 0) is drawn before the window at (10, 10)
(`desktop.cpp:83-89`), so its first move puts the blue it had saved into the window's corner.
The buffer of the window keeps the size of the open window. When it is maximised `render_base` draws past it, behind the heap, where, depending on the build, are
variables the desktop uses or nothing that it does; without a buffer it draws over low memory, where the window itself is kept. What is overwritten is unknown: the
model ends (`running` is "overwritten") or, with a buffer, goes on unharmed (`DrawsBase`). The test text that `print_string` puts on the screen (`desktop.cpp:94`) is left out.

### Programs

One program runs at a time. The step with which one starts another is composed of both modules' actions;
neither the desktop nor the recovery comes back.

## 3. The runs

All bounds are constants of the `.cfg` or definitions of the MC module.

| run | bounds | states | shows |
|---|---|---|---|
| `kmalloc` | 7 units, 6 request sizes | 154 thousand | every order of calls, with clients that write over stale headers |
| `ps2_keyboard` | 4 keys, ring of 2, wire of 5, 4 codes | 80 thousand | ring overflow and keyboard overrun included |
| `ps2_queue` | 3 machines, 3 kinds of mouse, 1 resend, 1 loss, 2 inputs per device | 12 thousand | includes two mice: 20 commands |
| `interrupts` | 3 devices, 2 requests each, noise on a line of the master | 2.8 thousand | spurious interrupt 7 included |
| `shell_input` | history of 3, 4 commands, 10 keys, buffer of 6 | 357 thousand | wrapped history included |
| `terminal` | 3 columns, 4 rows of which 2 are seen, 2 characters | 40 thousand | any number of writes: the state space is finite |
| `ps2_mouse` | 3 kinds of mouse, 2 buttons, 3 moves, 2 turns of the wheel, ring of 8, 2 packets, 1 byte lost | 507 thousand | two packets of four events overflow the ring |
| `fat` | 11 clusters of 3 elements, table of 3 sectors of 6 entries, 3 disks, 4 calls | 827 thousand | every access can fail |
| `boot` | registers all clear or all set, 4 glyphs, 5 answers, 4 kinds of drive in 4 slots, `u64` of 64 values, 28 bit registers of 16 | 565 thousand | every timeout, every answer, every table; then reads |
| `programs` | volume of 4 files, 7 arguments, paths of 7, 10 keys, 5 mouse events, 8 places, pointer of 2 pixels | 52 thousand | all programs, in every order they start each other |
| `fat_seek`, `fat_read_more` | 2 calls | | violations: the two findings |

Why the bounds are enough. *Heap*: 7 units hold three blocks of one unit, or one
that needs all three merged; every outcome of the loop and both sides of the split
threshold occur. *Keyboard*: two events fill the ring, a third overflows it; a code of three
bytes can follow an overrun inside five bytes of wire. *Queue*: the ring has its
real size, 32, since the property is about that number. *Shell*: the fourth command
overwrites the first of three. *Terminal*: two rows below the window let it scroll, reach the
end and stay there. *Mouse*: the ring has the least size `QueueSizeAssumption` allows for two
buttons. *Fat*: opening, a write that allocates, one more write and a read fit into four calls; a file's
first cluster and its second lie in different sectors of the table, two free clusters in the sector of the first, so that what a failed write left in
the buffer gets to the disk with a later write of the same sector, on behalf of another file. *Boot*: the table of a drive
lies over two sectors, with an unused entry in between, partitions that overlap the end of the drive and
one that ends before it begins, and sectors for which the sum wraps; two drives fill the table of devices twice over; the
registers keep their real number and values. *Programs*: ten keys walk through every menu and back, also
below option 0; eight places are the boxes of the title bar, open and maximised, and places in and out of the window and
of the screen; lines of six characters have more words than `MAX_ARGUMENTS`; of the pointer's two pixels one is in the window's corner at the start and the other when the mouse
is just outside; circles up to radius 8 take both turns of each test, and lines go in all directions on a grid of 5 by 5. `Wrap`, 64, stands for 2^32: it is more than
the largest circle and its error terms need, and small enough to let the circle of radius 0 run its course. `PathSize`, 8, is more than any argument needs from the root, and little enough that
going on into directories outgrows it.

What is checked:

- `ArenaIntact`, `FailsOnlyWhenFull`, `KmallocReturns` and `ImplementsHeap` for the heap.
  `FailsOnlyWhenFull` is the one to argue about: merging is lazy,
  forwards only and done while searching, and yet NULL means that no gap is big enough.
- `ModifiersFollowKeys`, `EventsMatchScanCodes`, `ImplementsQueue` and `AllHandled` for
  the keyboard. Two keys of a kind share a flag: with both shift keys down,
  releasing one ends SHIFT (`ps2_keyboard.c:105`). `ModifiersFollowKeys` says what does hold, however often keys are pressed, repeat and are released: no flag without a key of its kind down, and for a key that is down the
  flag, unless the other key was released after it was pressed.
- `OneOutstanding` (with `RingNeverWraps`), `CommandsInOrder`, `InputIntact` and `SetupCompletes`
  for the queue; the last assumes that nothing is lost, since a lost answer stops the queue for good.
- `NothingStaysInService` and `UnmaskedIsServed` for interrupts.
- `HistoryIsLatest`, `NavigationFollowsHistory` (until the ring is full) and `KeysHandled` for
  the shell. The line fits its buffer except after ArrowUp stepped off the start of a full ring (`OffTheStart`, see the deviations below); after an overrun `KeysHandled` claims nothing.
- `EventsMatchMotion` (signs, extra buttons, order), `ButtonsAlternate` and `ImplementsQueue` for the mouse.
  `ButtonsAlternate` holds even when a lost byte makes nonsense of packets.
- `InBounds`, `ScreenShowsBuffer` and `BelowIsBlank` for the terminal.
- `NoSharedClusters`, `OthersKeepContent`, `ReadReturnsFile` and `WriteLands` for FAT. `NoSharedClusters` is about the table
  (no two entries lead to the same cluster, none to one that is free or begins a chain) and includes that a read is less than a cluster too long. The first two hold
  whichever access fails, except for torn reads of the table, after which a sector is written back in the place of another. `OthersKeepContent` has one more
  exception, which is what the code does: a link that could not be written stays in the buffer, and the chain changes when a later call writes that sector.
  `ReadReturnsFile` says that what is copied is right, also of a read cut short by the device; that such a read returns its bytes at all, where `fat.h:78-79` says "on error: return 0", is among the deviations below.
  `WriteLands` speaks of writes that begin in the first cluster (finding 1) and lets a write stop where the chain ends. By the comment of `fat.c:813` it should allocate
  a cluster there, which the code does not (see below); `WriteLands` would hold of code that does.
- `TextModeReady`, `PortsReady`, `PartitionsListed`, `ReadsInside` and `BootEnds` for the boot. `ReadsInside` is about partitions
  whose first sector and size add up below 2^64: for one that ends at the very last sector, or before it begins, the sums wrap and
  only the drive's own check is left. `BootEnds` says that every wait comes after `sti`.
- `NothingLeaks` and `CurrentDirExists` for the commands; `MenusShowSelection` and `SelectionShown` for the recovery;
  `PointerLeavesNoTrace` and `RestoreKeepsGeometry` for the desktop; `FiguresExact` and `TextHandled` for the pure operators.
  `MenusShowSelection` is about the main menu and the list of tests while no redraw is pending, since a key may come before the redraw; and it exempts the pictures of the VBE and RGB tests, which the test menu does not draw over.
  `CurrentDirExists` and `RestoreKeepsGeometry` claim nothing once memory was overwritten by a path too long or by drawing past the window's buffer; `PointerLeavesNoTrace` exempts the pixels the pointer was on when the window was drawn over them.

Type invariants are conjuncts of the first invariant of their module (`NothingStaysInService` and so on), or
of the proved ones.

Fairness. The processor runs: weak fairness of the main thread's steps and of
interrupt handling. `Irq1` has strong fairness because polling turns interrupts off
again and again, and a pending interrupt is taken in the first instant they are on. The timer
ticks (weak fairness of `Tick`): it is periodic hardware and its line has the highest
priority. Devices answer (weak fairness of `Answer`), apart from the losses that are
modelled. In `Boot` every step is the processor's or the end of a wait, so one weak fairness of the whole is enough: a timeout is enabled whenever
time goes on. In `Programs` only the loops of the recovery need it; they poll and never wait. Nothing is assumed of users: keys, inputs, requests and noise happen or not.
Runs with `CHECK_DEADLOCK FALSE` model systems that may come to rest: set up, no input left, a panic.

### Findings

1. *Write beyond the first cluster* (`fat.c:767`). The loop under the comment "Move to the correct cluster"
   follows the chain only if the cluster is not valid. The bytes land in the first cluster.
2. *Read across a border* (`fat.c:511`). The length of each piece is bounded by the whole length
   asked for: the last piece runs past the caller's buffer, and the number returned is too large.

### Other deviations met while modelling

Interrupts and input. A spurious interrupt of the slave chip (15) is returned from without an end of interrupt for line 2, which then
stays in service (`idt.c:88`); the run has noise on the master only, and `NothingStaysInService` would fail with noise on a line of the slave. After exactly 50 commands, or a multiple, `current_index` is 0 and the first ArrowUp copies `commands[-1]` (`shell.c:364`), no command and of any length, where
"Copy the history command to the buffer" stands (`shell.c:378`); `get_previous_command` (`terminal.c:91`) has the same fault. Between `Mark` and `Send` (`ps2.c:144`) only an interrupt for a byte that nobody asked for could come; devices are taken to send none before their first command, so the model does not meet it. A byte that no command asked for is taken for the mouse's id (`ps2_mouse.c:72`). The 64 bit time is read in two halves (`pit.c:47`).
The configuration is used though reading it may have failed (`ps2.c:279`), and the clock bits set by the disable commands are written back at the end (`ps2.c:376`).

Disks. A drive that reports a fault without an error is waited for without end (`ata.c:83`). The sector count is sign extended (`ata.c:170`), the list of
partitions of a new device is not cleared (`ata.c:201`), `partition_write` passes the partition where the disk is expected (`partition.c:30`; no driver
writes), the result of `partition_probe` is not looked at (`device.c:24`), the offset of a table is kept in 32 bits (`gpt.c:49`).
`fat.h:78-79` promises 0 for a read that meets an error; `FAT_Read` leaves its loop and returns what it copied before (`fat.c:506-509`, `521`), which a caller cannot tell from a short file.
"Allocate a new cluster if necessary" (`fat.c:813`) is reached when the next cluster is 0, but the last entry of a chain is an end mark, and 0 is what `get_next_cluster` answers when the table cannot be read: a write past
the last cluster stops there, and files do not grow.
`FAT_CreateDirectory` puts the entry into the buffer of the new directory and never into the parent (`fat.c:720`). The loop over a directory's
clusters does not move on (`fat.c:427`). When the second of two sectors fails the first is kept under the number of the one before (`fat.c:346`).
The buffer is not restored when its sector cannot be written (`fat.c:905`, `953`): the call reports the failure, and the next allocation in that sector writes the mark
or the link after all, by which a file that nobody is writing gets another cluster, or loses those behind the link if the call allocated because the table could not be read.

Screen. `term_scroll` with the buffer at its end overwrites the last row (`terminal.c:188`). `vga_clear_screen` clears half (`vga.c:354`).
The buffer of the recovery has a tenth of its size (`recovery.cpp:540`) and `render_base` draws past a buffer of 500 by 500 (`gui.hpp:271`); `vbe_render_part` ignores where
the rectangle begins (`gui.hpp:308`); `gui.hpp:303` says "Draws text on the window", but the cursor is passed as the size of the character too (`gui.cpp:1097`): on the first row characters have no height and nothing is drawn, which is why the title of
the window is not seen (`draw_text` in `Draw`; no property is about it); the circle of radius 0 runs on (`gui.cpp:289`, no caller draws one); the mouse is not kept on the screen, and a pointer above it is drawn into whatever lies
before the frame buffer (`desktop.cpp:123`; the model's places are at or behind its start); a drag never starts (`manager.cpp:73`); closing the window or leaving the desktop or the game frees what the heap did not
give and panics; releases of keys count as presses in the menus (`recovery.cpp:4`).

Commands. `cat` joins directory and file without a slash and `ls` looks everything up from the root; paths are put together in 256 bytes without a check (`cd.c:36-53`, `cat.c:18-20`); the font's glyphs are
read from offset 0 (`shell.c:242`); `calc` divides before it looks whether it may, `beep 0` and `pause` without an argument fault or read what is there; several
commands end without a return value; the history is never saved or loaded, for lack of callers.

## 4. The proofs

*The heap* (`KernelProofs`). For every size of arena, every set of requests and
everything clients may write are proved: `TypeCorrect`, `BlocksAlwaysSound`, `NoPanic`,
`FailsOnlyWhenItMust`, `KmallocImplementsHeap` and `ArenaStaysIntact`. Assumptions: the arena has at least two
units; requests and data are natural numbers.

The inductive invariant `IInv` is `TypeOK`, `Tiled`, `BlocksMarked`, `BlocksFit`, `NeverPanics` and
`Scanned`. None of the properties is inductive alone. That a header is not overwritten by a
client needs `Tiled` (no header inside another node's data) with `BlocksFit` (what a client
asked for lies inside its node). That NULL means full needs `Scanned`: behind the search, free nodes are
too small, and no two of them are adjacent, so any gap is one node or, at the end, the one looked at. The refinement
maps the nodes a client holds to blocks; `Take` is `Alloc`, `Kfree` is `Free`,
`ClientWrite` is `Write`, everything else stutters. `ArenaStaysIntact` adds that the walk from header to header finds all
nodes and nothing else: it comes to the node at address `k` within `k` steps (`WalkReaches`), by the smallest address it would not come to.

*Terminal* (`ConsoleProofs`). For every width, height and visible height are proved `TerminalInBounds` (with the types), from which
`ScreenFollowsBuffer` and `NothingBelow` follow. `InBounds` is inductive only with `start + Visible <= Height`, which
`Scrolled` keeps; `NothingBelow` needs that the line written to never moves up except by `Clear`, which
blanks everything (lemma `NeverUp`). Assumption: `TerminalAssumption`, at least one column and at most as many rows seen as there are.

*Disks* (`BootProofs`). For drives of any size (below 2^32 sectors), partition tables of any content and callers that
ask for anything, are proved `StorageTypeCorrect` and `CommandsStayInside`, the property `ReadsInside`. The inductive invariant is `Inv`: `TypeOK`, `Sized` (a device's
size is what its drive identified with), `Pointing` (the loops stay within slots and devices), `Addressed` (a command names a
partition that is there, after the probing is over), `Counted` and `ReadsInside`. `ReadsInside` alone is not inductive: it needs that the table of devices does not
change under a command, and that sizes are the drive's or too large by far. The arithmetic is in lemma `InsideDrive`: three checks of sums that may each wrap
leave no sum that did. Assumptions: `WidthAssumption` (the widths relate as 8, 28, 32 and 64 bits do), `TableAssumption`, `InputAssumption`, `DrivesAssumption`.
`TablesFound` and `PartitionsAreThoseOfTheTable`, the property `PartitionsListed`, rest on a second invariant, `TablesInv`: the buffered sector is the one last read (`Buffered`), a device not probed yet has no
partitions (`NoneYet`), and the one that is probed lists the used entries among those the loop is past (`Underway`). That a list holds the used entries in their order is said by the place
each was taken from (`Lists`), an increasing function, so a used entry extends it at the end and an unused one leaves it, and no induction over sequences is needed.

*Boot* (`BootProofs`). For anything that was in the adapter's registers, any number of glyphs and whatever the firmware, the controller and the devices do are proved `BootSafe`, and from it
`TextModeIsReady` and `PortsAreReady`, the properties `TextModeReady` and `PortsReady`. `BootInv` puts the invariants of the three parts together: each part finds its variables as it expects them when
its stage begins, keeps its own invariant while it runs, and is not looked at again; so `DisksAfterBoot` says of the whole boot what was proved of the disks alone.
`VgaInv`: the registers written so far are those of the table (`RightSoFar`), which holds for the CRT controller only because its protection bit was cleared before and the table does not set it (`Unprotected`);
while the glyphs are written, what was saved makes the registers those of the table again (`Restorable`), and the display is on (`Lit`). The index port that serves as data port every other time is part of it.
`Ps2Inv`: what was read as configuration and is written back has no interrupts in it (`Quiet`), through the self test, after which it is written once more, and a line is unmasked only with
its handler registered (`HandlersFirst`). Assumption: `AdapterAssumption` (registers are bytes).

*Interrupts* (`KernelProofs`). For any set of devices and any noise on the master's own lines is proved `ChipsStayOpen`, the property
`NothingStaysInService`. The inductive invariant adds `Cascaded` (between the two acknowledge cycles exactly line 2 is in service and
the slave still has something to say) and `Serving` (what a handler finds in service, by the chip its line belongs to). Both are needed: the end of a handler
clears the bits of its own line, and of line 2 for the slave, so it opens the chips only when nothing else was in service.
Assumptions: `DevicesAssumption` (timer, keyboard and mouse exist, nothing is wired to line 2) and `NoiseAssumption` (no noise on the slave; with it the property is false, see section 3).

*Keyboard* (`KeyboardProofs`). For a ring of any size and any set of keys are proved `KeyboardInvariant` and `KeyboardImplementsQueue`, the property `ImplementsQueue`:
readers of key events see the queue of `DropOldestQueue`. The inductive invariant is `RingOK` (the head is the tail plus the length, modulo the
size), `Critical` (no interrupt comes between the look at the ring and the end of the critical section, and what was copied is the entry about to be dropped) and `BytesOK`.
The refinement maps the ring to the sequence of its entries, without the first one once that was copied; arrivals of the interrupt
handler are `Arrive`, the copy is `Get`, a look at an empty ring is `GetNone`, and the drop stutters. The lemmas on rings (`RingSeq`, `RingAppend`,
`RingTail`) reduce the modulo to a subtraction that happens at most once. Assumptions: `QueueSizeAssumption` (at least one slot) and `KeysAssumption`.
`EventsFollowScanCodes` and `ModifiersFollow`, the properties `EventsMatchScanCodes` and `ModifiersFollowKeys`, rest on a second invariant, `KInv`. `Parsed`: what is in `byte_buffer` and on the wire is cut, by marks, into the
bytes of the scan codes sent and not handled yet, and `byte_buffer` ends inside the first of them. The marks replace a recursive flattening, so no induction is needed: a key adds one at the end (`CutGrows`), a byte read moves none
(`CutGathers`), a scan code handled takes the first away (`CutGoes`). As only the last byte of a scan code is no prefix (`BytesOf`), the handler ends its buffer where the keyboard ended the code (`NextByte`), and what it decodes is what was sent (`Decodes`).
`Flags`: each flag is what the latest scan code of its two keys was, from which both directions of the property follow: the latest press is of a key still down, and a flag that is clear although a key is down was cleared by the other's release.
`HeldAre`: unless a code was lost, the keys held are those whose own latest scan code was a press. `KeysAssumption` says that codes are neither prefixes nor
overrun bytes, nor names of keys.

*Mouse* (`MouseProofs`). For any kind of mouse, any buttons, movements of nine bits and turns of the wheel, and any bytes lost are proved `MouseInvariant` with `MouseTypes`,
`MouseImplementsQueue`, `MotionDecoded` and `MouseButtonsAlternate`, the properties `ImplementsQueue`, `EventsMatchMotion` and `ButtonsAlternate`. They assume `RoomForTwo`, a ring of at least 14 entries, since a packet torn by a lost byte
may report all five buttons, a movement and the wheel, whatever the mouse has; the code has 32 entries. The run has two buttons and 8, the least number `QueueSizeAssumption` allows, so that two packets overflow it.
The inductive invariant `IInv` is that of the keyboard's ring, with an arrival of up to seven events for which as many are dropped at once (`EnqueueStep`), and with less than a packet in `byte_buffer` (`BytesOK`).
`Tracked`: unless a byte was lost, what is gathered and on the wire is one packet, and the driver's buttons are those before it (`OnItsWay`), or there is nothing and they are the mouse's (`Quiet`); that the bytes decode to the movement is arithmetic
on nine bit two's complement, split over the first byte and the second or third. For the buttons the ring is read as the sequence of its entries: `Good` says that in it each button alternates and ends where
the driver has it; the changes of one packet append in the order of the buttons, each from where the last left it (`Stage`), and dropping from the front keeps it.

*Shell input* (`ConsoleProofs`). For a history and a line buffer of any size and any number of keys are proved `HistoryKept` and `ArrowsFollowHistory`, the properties
`HistoryIsLatest` and `NavigationFollowsHistory`. The inductive invariant is `Types`, `Latest` (the entry `i` places behind the next one is the `i`th last
command entered) and `Walking` (while the ring is not full, `history_position` is as many entries behind the end as the user went back). That the line fits has one exception, which is the code's: `Types` ties an overrun to
`OffTheStart`, so that it comes from there and from nothing else. Lemma `OneFurther` says what
storing a command does to all the distances at once, modulo the size. Assumption: `ShellAssumption`.

*Command queue* (`Ps2QueueProofs`). For any machine of a keyboard, a mouse or nothing on either port, any mouse, and any number of resends, losses and inputs are proved
`LockStepInvariant` and `DevicesInLockStep`, the property `OneOutstanding`. The inductive invariant `IInv` has five parts. `Counted`: no more was queued than the
setup takes so far, at most 10 commands for each device, so that more than 20 entries suffice and the unwrapped `read++` does no harm (`QueueSizeAssumption`; the code has 32).
`QueueOK`: what is queued for a device are settings, then at most one question for the id or command that turns reports on, and nothing behind that.
`InLock`: what can be on the way to and from a device in each state of the command at the head; an answer is `FA` with input behind it, or `FA` and the id, or `FE`.
`Reports`: input comes only from a device that acknowledged the last of its commands, so never before an answer. `Starting`: until the main thread has sent the first byte nothing moves.
None can be left out: a byte is taken for the right thing only because the handler knows whose command is at the head, and the head is right only because nothing else was answered.
The handler changes the queue, appends commands and sends in one step; the lemmas follow it: `HeadChanges`, `HeadGoes` and `MoreForMouse` say what a change of the queue keeps, `Sends` what
`ps2_update_command_queue` keeps, `HandlerKeeps` puts them together. 
`SetupInOrder`, the property `CommandsInOrder`, rests on a second invariant, `OrderInv`. `InOrder`: the commands queued for a device are its program up to where the driver knows it (`Total`);
the place of each is said by numbers, `off[i]` bytes of the device before slot `i`, so that no sequences are flattened, a command goes by moving `read` (`PoppedPlaced`) and more go behind the others by
making `off` longer (`Longer`, `MorePlaced`). At the head are as many bytes as were accepted, less those of the head's own command that were (`Taken`: the ones acknowledged, and one more while the acknowledgment is on the wire).
`SoFar` says what the accepted bytes made of a mouse, its last rates and its mode (`RatesFollow` runs through the program), `Knows` what the driver made of the answers, `Tells` that an id on the wire is the mouse's.
They hold each other up: the driver goes on with the right part because the id is what the bytes so far make it (`AskedForId`, `NextPart`), and those were right because the driver went on so.
`InputStaysWhole`, the property `InputIntact`, adds `StreamInv`: what is gathered and, behind the answers, on the wire are the bytes of so many whole packets (`Flow`), which a device that has accepted
its program (`ReportsLast`) sends at the end (`FlowSent`), an answer read leaves alone (`FlowAnswered`), and a byte of input read moves (`FlowGathers`). A packet ends where the driver ends it because the id it knows is by then
the mouse's mode (`Knows`, `SoFar`), and starts with the byte that has bit 3 set because the one before ended there. All three invariants are needed, for a byte taken for an answer would cut a packet.

*FAT* (`FatProofs`). For any volume whose table is sound, clusters and sectors of any size, and any calls and failures are proved `FatInvariant`, `ClustersNotShared`, the
property `NoSharedClusters`, and `OthersKept`, the property `OthersKeepContent`. There are two tables: the one on disk, and the one seen through the buffer (`Buffered`),
which is ahead of it after a write that failed. The inductive invariant says that they agree (`Agree`): each is sound, both lead only to clusters that are marked *on disk*, no cluster is led to from
two places, not even once on disk and once in the buffer, and what is marked on disk is marked in the
buffer. So a cluster that looks free is free on disk and nothing leads to it (`FreeIsLoose`), marking it changes no chain (`AgreeMarked`), and linking it, as nothing leads to it
still when `Link` is reached (`Loose`), shares nothing (`AgreeLinked`). The table alone is not inductive: a write of the sector puts on disk what a failed write left in the buffer.
The other part is where a call is: a cluster that a write goes to or continues from is `Held`, in no other chain than that of the open file, in either table. That a chain does not come to a cluster
(`Avoids`) is said without recursion, by a set of clusters that has the chain's first, is closed under the table and lacks the cluster; following (`AvoidsNext`), marking (`AvoidsMarked`) and linking
(`AvoidsLinked`) keep it. Hence a step changes data and table only in one cluster that other chains avoid, and `ContentSame` says that their content stays.
The content of a chain is a recursive function. The induction it needs (the walk exists, `WalkExists`; tables that agree where a chain goes have the same walk, `ChainSame`) is over numbers:
it takes the smallest counterexample (`Smallest`, from the well-foundedness of `<` on the naturals), so no operator is passed as a parameter.
Loading, changing and writing back a sector are turned into changes of whole tables by `Loaded`, `Changed` and `WrittenBack`. After a torn read only the types are claimed.
Assumptions: `SizesAssumption`, and `DisksAssumption`, that the volume is sound as found. This proof corrected the model's property: an earlier `OthersKeepContent` knew no exception and passed on a
smaller volume, on which no two free clusters shared a sector with a link; the step of `Scan` could not be proved, and on the present volume TLC shows why.
`ReadsAndWritesPlaced`, `ReadsReturnTheFile` and `WritesLand`, the properties `ReadReturnsFile` and `WriteLands`, rest on a further invariant, `ReadWriteInv`. `Fresh`: without a failed write the buffer
shows the table on disk. `ReadInv` and `WriteInv`: the call is at the cluster of the open file's chain that its position is in (`AtPlace`), and what is behind that position is copied, or written (`Wrote`), at its place.
Both are about the chain as a function (`Walk`). It is injective while it goes through clusters (`Distinct`: the smallest place that comes twice has a predecessor that does, or is a head), so writing one cluster of it changes no
other; and hence it ends before the clusters run out (`Short`, by counting), so there is a place for each next cluster (`Further`). Positions are split into cluster and place by `Position` and `AtPosition`; `InPiece`
says which bytes a piece covers. `WriteInv` is only about writes from the first cluster on, without failures: for others it is false (finding 1).

*Programs* (`ProgramsProofs`). For any volume that is a tree, anything typed, pressed and moved, and any allocation or access that fails are proved the five invariants of the programs, each through the steps of all four programs and those with which they start each other.
`CommandsGiveBack`, the property `NothingLeaks`, needs to know what is held in the middle: `ShellInv` says of each place of `FAT_Init` and of the loading of the font what it carries there besides what stays (`Stands`, `Carries`), and of a listing that any number of names
may be held with their list. The ways out then free exactly what was carried. A path that is opened holds one file, or none if the root or a failure is the outcome (`Opened`).
`DirectoryStaysInVolume`, the property `CurrentDirExists`, rests on what splitting does: an opened path is the path of what is opened, cutting at the last slash leaves a part of the same names at the front (`BeforeSlash`), and joining appends (`DirInv`). It speaks of paths that fit their array; a longer one ends the model.
`Components` and `FAT_OpenAbsolute` are recursive functions over the characters and the names of a path. That they exist and what they keep is shown by the smallest number for which it would fail, as for the walks of `Fat`.
`MenusShowTheirSelection`, the property `MenusShowSelection`, needs only that a VBE or RGB test shows its own picture (`OwnPicture`). `WindowGetsItsPlaceBack`, the property `RestoreKeepsGeometry`, needs that what a maximised window will get back is the first
geometry (`WindowInv`). `PointerRestoresScreen`, the property `PointerLeavesNoTrace`, needs that the pointer's buffer holds, pixel by pixel, what the picture has under it, unless the window was drawn over it there (`PointerInv`). Assumptions: `TreeAssumption` (names are not empty and have no slash, what leads to a file are directories), `ArgumentsAssumption` (arguments are strings), `PlacesAssumption` (the corner where the pointer starts is a place; the pointer is at most 16 by 16 and never above the frame buffer).

Model-checked only:

- the liveness properties (`KmallocReturns`, `AllHandled`, `SetupCompletes`, `UnmaskedIsServed`, `KeysHandled`, `BootEnds`, `SelectionShown`): the prover has no rules for fairness;
- `FiguresExact` and `TextHandled`: what the loops of the drawing and of the text helpers compute, compared with what they stand for over bounded inputs. That is
  induction over data, which the installed provers cannot do through the folds of the library;
- the two findings, which are violations.

## 5. What comes next

1. `Pit`: the 64 bit counter read in two halves, sleeps and timeouts.
2. FAT12 entries, which share a byte, and the fixed root directory of FAT16.
3. Proofs about the loops of `Draw` and `Text`, written as recursive functions as those over paths are.

## 6. Not modelled

- *Process table* (`kernel/process.c`), `drivers/storage/fat.c`, `gui/desktop.c`, `mkdir.c`: the Makefile does not build them.
- *Graphics adapters and bitmaps* (`drivers/GPU`, loading and rendering of bitmaps, icons, triangles and curves): register writes and pixel
  copies nothing in the kernel's flow depends on; `vga_graphics_init` has no caller.
- *Machine support*: descriptor tables, the memory map read once at boot, PCI listing, sound, port access. Straight-line input and output without state that lasts.
- *Processor exceptions* (`c_isr_handler`): a panic each.
- *The 64 bit clock* (`pit.c`): time is whether it goes on, not how much of it passed.
- *FAT12*, the fixed root directory of FAT16, reading of the boot sector, listing of names: in `Fat`. What `FAT_Init` and `FAT_ListFiles` allocate and free is in `Commands`.
- *Saving and loading of the history* (`terminal.c:21-70`), `term_resize`, `term_set_cursor`: no callers.
- *Commands that only print* (help, echo, chstat, compdate, whereami, pl) and keymaps, which are tables.
- Bytes that a device sends unasked before scanning is enabled (a mouse plugged in late) are left out of `Ps2Queue`.
