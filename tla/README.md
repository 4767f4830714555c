# AmaterasuOS: a TLA+ model

AmaterasuOS is a small single-core x86-64 kernel in Rust: it boots, finds a
keyboard (PS/2 or USB behind an xHCI controller), and runs a shell with a ram
file system on a framebuffer. There are no processes and no threads. What is
concurrent is the main flow, two interrupt handlers (timer, keyboard) and the
hardware: the 8042 controller, the xHC and its DMA.

This directory holds the modules that model it, the TLC configurations that
check them on small instances, and the proofs TLAPS checks.

    cd tla
    tlc -workers 2 -config MCKeyRing.cfg MCKeyRing
    tlapm KeyRingProofs.tla        (and the other *Proofs modules)

`PROJECT.json` lists every run with its properties, maps every definition to the
source lines it stands for, lists the hazards the properties are aimed at and,
for every property, a mutant of the code that violates it. Definitions whose
comment begins with "Mutant:" are those: each is a plausible bug that takes the
place of the definition after it, and no specification uses it otherwise.

## 1. Inventory

| Component | Source | State | Operations | What is hard | Correct means |
|---|---|---|---|---|---|
| Key ring, main loop | `kernel/src/keyboard.rs`, `main.rs` | ring, head, tail | `rb_push` (handlers), `drain`, `hlt` | handlers interrupt drain between any two steps; full ring; byte between drain and hlt | a bounded FIFO queue; every accepted byte reaches the shell |
| PS/2 input | `keyboard.rs`, `idt.rs` | prefix flag, modifiers | `keyboard_handler`, the poll in `timer_handler`, boot read, `process_scancode` | two readers of one port, edge-triggered IRQ, a byte left by the firmware | no scancode skipped, no modifier stuck, what is typed is what was pressed |
| HID decoder | `keyboard.rs` | previous report, caps lock | `process_hid_report` | reports are snapshots, may be replaced or lost | no phantom keys |
| xHCI keyboard polling | `hal/src/xhci.rs` | transfer ring, event ring, cycle bits | `take_hid_report`, `arm_kbd_ep_raw` | cycle bits over wraps, one DMA buffer, handover from boot | reports once, whole, in order; endpoint armed again |
| xHCI enumeration | `hal/src/xhci.rs` | command ring, EP0 ring, slots | `init_unsafe` and its helpers | a dozen steps that may fail or time out, slow and hung controllers | slots returned, keyboard found, boot goes on |
| Heap | `kernel/src/allocator.rs`, `memory.rs` | free lists inside the free blocks, bump pointer | `init`, `alloc`, `dealloc` | in-band lists, class found by address, fall-through when a class is empty | aligned, disjoint blocks in usable memory |
| Line editor, history | `kernel/src/shell.rs`, `cmd/ui.rs` | line, cursor, history ring, saved line | one per key, `submit`, `history` | ring wrap, duplicates, browse-edit-submit sequences | ring holds the recent lines, the unfinished line comes back |
| Text grid and drawing | `hal/src/framebuffer.rs`, `shell.rs` | cells, cursor, blink | `write_char`, `backspace`, cursor, scroll, the shell's redraws | the blink falls between two lock sections of a redraw | text intact, one cursor, line shown |
| Handlers, locks, panic | `idt.rs`, `main.rs`, `timer.rs`, `serial.rs` | five spin locks | boot, loop, `panic`, both handlers | a handler spinning on a lock of the code it interrupted; a panic that holds a lock | no handler spins, the loop goes round or a panic is reported |
| ACPI tables | `hal/src/acpi.rs` | `APIC_INFO` | `parse`, `find_madt` | tables written by others: short, repeated, unknown structures | the first I/O APIC and the overrides, or none |
| APIC, PIC, routing | `hal/src/apic.rs`, `pic.rs`, `ps2.rs`, `idt.rs` | 8259 mask, redirection entries, local APIC, IDT, IF | `mask_all`, `apic::init`, `idt::init`, `end_of_interrupt` | edges lost while an entry is masked; vectors without a handler; set-up order | every key is heard in the end, no vector is unhandled |
| Timer, TSC calibration | `hal/src/time.rs`, `timer.rs` | PIT channel 2, LAPIC timer | both waits on the PIT, periodic mode, `tick` | a busy wait for a level that may already have passed | the main flow gets to its loop |
| Ram FS, VFS | `ramfs.rs`, `vfs.rs` | node tree | `parse_ustar`, `insert`, `lookup`, `readdir` | entry order, implicit directories, a file used as a directory | lookup is the archive |
| Command language | `shell.rs`, `env.rs` | variables | `split_commands`, `expand`, `parse_args`, `dispatch`, `complete` | quotes, separators and variables in any order | a list is its commands in turn, quotes protect, completions exist |
| File and UI commands | `cmd/fs.rs`, `cmd/ui.rs` | cwd, previous cwd, PWD | `cd`, `ls`, `cat`, `stat`, `pwd`, `grep`, `head`, `tail`, `wc`, `echo`, `export`, `help`, `history` | dots, relative paths, the root as a special case | cwd is a directory, textual and walked paths agree |
| PCI, CPU, power, `sys.rs`, boot image, runner | `hal/src/*`, `cmd/*`, `boot`, `runner` | none | port I/O, printing | hardware | not modelled (section 7) |

How they interact: at boot `IrqRouting` sets up the interrupt hardware from what
`Acpi` finds, and `XhciEnum` finds the USB keyboard and hands its rings over to
`XhciKbd`. The handlers produce bytes (`Ps2Input`, or `XhciKbd` and then
`HidKeys`) into the ring (`KeyRing`), the main loop drains them into the shell
(`ShellEdit` for the line, `ShellScreen` for what is drawn), and a submitted line
is run by `ShellCommands` on the tree of `Ramfs`. `IrqLocks` is about the locks all
of them share, and `Boot` composes it with `IrqRouting`; `Allocator` serves all
of them.

## 2. Modules and code

**KeyQueue, KeyRing.** `KeyQueue` is the promise: a queue of at most `CAP - 1`
bytes, put, drop when full, take. `KeyRing` is the code. `drain` is four
steps (`DrainCheck`, `DrainRead`, `DrainStore`, `DrainPush`: load the tail and
compare, read the slot, store the tail, hand the byte to the shell), `Halt` is
`hlt`. An interrupt may come before any of them (`Interrupt` enters a handler
with up to `MaxKeys` bytes to push, `IsrPush` pushes one); main does not move
while a handler runs, and an interrupt ends `hlt`. `accepted`, `delivered` and
`dropped` are history.

**Ps2Input.** The 8042, the pending bit of IRQ1 and the user are external. The
byte may arrive between the entry of `timer_handler` and its poll; then its
interrupt is still pending when the poll has consumed it, and `keyboard_handler`
reads the same byte once more. That double reading is in the model and
`TypedAsPressed` excludes it by name (`ReadTwice`). `Keys` has one letter, shift,
ctrl, caps lock and one extended key; other table entries behave like these. The
only bound is on the bytes the keyboard sends: each is read at most twice. With
both shift keys held, releasing one clears the modifier: `MCPs2Input.cfg` has one
shift key.

**HidKeys.** The keyboard keeps at most one report waiting; a newer snapshot
replaces it, and a transfer may fail. `process_hid_report` is `ReportBegin`, which
reads caps lock, one `ReportKey` per key of the report and `ReportEnd`, which
replaces `HID_PREV`; the user goes on meanwhile. `TypedAsPressed` speaks of behaviours in which
no report was missed, `NoPhantomKeys` of all. More keys than a report has room for
make every place of it a rollover code, which replaces `HID_PREV`
(`keyboard.rs:338`): keys still held are then typed again when the extra key is
let go. `forgot` counts these reports, and `NoPhantomKeys` says that each explains
one repetition and nothing else does.

**XhciKbd.** The transfer ring is reduced to its cycle bits, the event ring to
cycle bit and kind. The controller is external: `XhcFetch` follows TRBs and the
Link TRB, `XhcComplete` writes the DMA buffer and posts an event, `XhcError` posts
an error and halts the endpoint, `XhcOther` posts an event of no interest to the
driver. `take_hid_report` is five steps so that the controller may act in between.

**XhciEnum.** One step of `init_unsafe` per value of `step`. Commands and
transfers are pushed on rings with cycle bits and Link TRBs and answered by events.
`dev` gives each port no device, a keyboard, another device or a flaky one, which
may fail any command or transfer. `prompt` is the kind of controller: one that
finishes all queued TRBs before the driver sees the first event (QEMU works in the
doorbell write) or one that works TRB by TRB. Address Device loads the EP0 dequeue
pointer of the input context, which `setup_addr_input_ctx` set to the start of the
ring; the second Address Device therefore makes the controller execute the first
descriptor read again. On a prompt controller its event is consumed in time; on a
slow one every later EP0 answer lags behind, so `KeyboardFound` and
`HandoverClean` are stated for prompt controllers.

**Heap, Allocator.** `Heap` is the promise of `GlobalAlloc`. `Allocator` models
the first word of every slab block, which holds the free list when the block is
free and whatever its owner writes (`Write`) when it is not.

**ShellEdit, ShellScreen.** The same key handlers twice: `ShellEdit` has the line,
the cursor position and the history; `ShellScreen` has what is drawn. In the
second a handler is a list of lock sections (`todo`), `Draw` performs the next
one, and `Tick` is the blink, which draws whenever the lock is free. `text` is what
the screen would show had no cursor ever been drawn. Lines may wrap and scroll, a
command may print without a new line (`echo -n`), so that the prompt begins inside a
row, and may clear the screen.
`Idle` is a key that finds nothing to do and only shows the cursor again.

The code does not keep the screen right in all cases, and the model leaves none of
them out. The history variable `harm` records the three events that spoil it
(section 5): a key that prints or erases from where the cursor is, pressed inside the
line (`"inside"`); a blink right before the last section of `redraw_from` (`"blink"`);
a key inside a line that does not fit its row (`"wrap"`). Clearing the screen empties
`harm`. `TextIntact`, `OneCursor` and `LineShown` say that nothing else spoils text,
cursor and line, and that after `^L` or `clear` all is right again, whatever was
on the screen. What a spoiled screen may look like has no end; `MaxSpoiled` bounds the
keys pressed on one before it is cleared.

**IrqLocks.** The main flow is a script of lock, unlock and mode operations; each
handler is atomic except that it spins for ever on a held lock. `Panic` may happen
anywhere in the main flow.

**Acpi, IrqRouting.** `Acpi` is the parser as operators on an RSDP with its root
tables and the structures of the MADT; `parse` yields the first I/O APIC's base and
the ISA overrides. `IrqRouting` has one action per step of `kernel_main` that
touches interrupt hardware (`bpc` says which is next): both calibrations, which
share the four steps of the wait on PIT channel 2, `mask_all`, `ps2::init`, the
parts of `apic::init` in the order of its register writes, `idt::init`, `sti`, the
debug read of port 0x60 and the periodic timer. The hardware is external: the
keyboard's line as the firmware wired it (`wire`), edge or level, the local APIC's
requests, the acceptance of a vector, spurious vectors. `RInit` takes it that the boot
loader jumps to the kernel with interrupts off, so the `cli` at `main.rs:91` changes
nothing. A GSI below the I/O APIC's
base (`kbd_gsi - ioapic_gsi_base` overflows) panics in a build with overflow checks
and writes elsewhere in one without: both are in the model.

**Boot.** The composition. `IrqLocks` and `IrqRouting` share no variable; a step is
one of either, or a joint one: `TimerIrq` and `KbdIrq` are a handler of `IrqLocks`
at the delivery of its vector, `ReadPort`, `Calibrate` and `StartTimer` are places of
the script at which the hardware moves. `hlt` waits for a delivery (`asleep`).
`LatePanic` may come at any point; the flag of interrupts is left as it is by a
Rust panic and cleared by an exception's gate.

**Text, CommandLine.** Texts are sequences of characters; `Text` has what is taken
from `str`. `CommandLine` has the functions of the command language, each a
fold over the characters with the scanner's state, as in the code.

**Ramfs, ShellCommands.** The tree is a sequence of nodes with parent, name, kind
and data. Archive entries arrive in every order; `parsed` remembers them. An entry
below a file panics the kernel; a file whose data the end of the archive cuts off is
empty, and is the last entry read. `ShellCommands` adds the shell: `sh` is cwd,
previous cwd, variables and the output of the last line; a command is a function
from `sh` and an argument to `sh`, `dispatch` a fold of them over the line's
commands, `Submit` the action. `complete` is a function: what it appends to the
line is in `ShellEdit`.

## 3. Runs

| Run | States | What it shows |
|---|---|---|
| MCKeyRing | 11,649 | ring of 4, 6 bytes, bursts of 3: invariants, refinement of `KeyQueue`, every accepted byte delivered |
| MCXhciKbd | 5,610 | transfer ring of 4, event ring of 3, 7 reports, 2 other events, one error: both rings wrap more than twice |
| MCAllocator | 22,128 | two classes of two blocks and a bump region of 24 bytes, three kinds of request, two memory maps; refinement of `Heap` |
| MCShellEdit | 76,816 | lines of 2 characters, history of 2, 3 submitted lines |
| MCBoot | 52,344 | 13 firmwares and none, two I/O APICs of two entries, a key at any time, spurious vectors, a panic at every point, timer counts above and below ten ticks |
| MCPs2Input | 712,842 | five keys, 5 scancode bytes, each read once or twice |
| MCXhciEnum | 748,012 | two ports, one slot, command ring of 4 and EP0 ring of 8 TRBs (both wrap), one port event, hang at any time |
| MCShellScreen | 1,804,724 | grid of 5 by 2, prompt of 1, lines of up to 3 characters, outputs of 1 and 2 with and without a new line, so that lines wrap and scroll; one key on a spoiled screen before it is cleared |
| MCShellCommands | 6,386 | four archives in every order of their entries, 13 lines in any order and number, all texts of up to 4 characters over two alphabets of quotes, separators, digits and dashes |
| MCHidKeys | 4,056,840 | six keys, 4 presses, 2 key places, rollover |
| MCXhciKbdError | | violation, see section 5 |
| MCIrqLocksEarlyKey | | violation, see section 5 |

`MCShellCommands` also evaluates three assumptions that compare pure functions with
their definitions on all small inputs: `edit_distance` with the Levenshtein
recurrence, `longest_common_prefix` with the library's, `head` with `tail`.

Bounds are constants named in the modules (`MaxOffered`, `MaxReports`,
`MaxSubmits`, ...) and appear as guards of the environment's actions, never of the
code's. The rings are small so that every index meets every boundary several times;
their sizes are constants of the modules, and nothing else depends on them.
Deadlock is checked except where the environment may run out of things to do
(`CHECK_DEADLOCK FALSE` in MCAllocator, MCPs2Input, MCXhciEnum and MCHidKeys) or
the kernel halts: MCBoot (a panic before `sti` ends with interrupts off) and
MCShellCommands (a panic while the archive is read).

## 4. Fairness

* KeyRing: main, the running handler and the interrupt line are weakly fair. The
  timer interrupts every millisecond, so `hlt` always ends.
* XhciKbd: boot code, the timer handler and the controller; not errors and not
  other events.
* XhciEnum: the driver, whose waits have deadlines, and a controller that is not
  hung.
* Ps2Input: the 8042 delivers, pending interrupts are taken, handlers finish;
  `TimerEnter` is not needed.
* Boot: the processor executes the main flow between interrupts; PIT channel 2 and
  the LAPIC timer count; a held level-triggered line requests; a requested vector is
  taken once it can be. No fairness of keys, panics or spurious vectors. A handler
  returns at once or never (`isr = "spin"`). `MainNeverStuck` and `KeyHeard` need it.

## 5. Disagreements between the code and what is said about it

Two are runs that expect a violation:

* MCXhciKbdError: a transfer that ends with an error is consumed and the endpoint
  is not armed again (`xhci.rs:1136`); `docs/debugging.md:165` says that
  `take_hid_report()` re-arms it. `RearmedUnlessError` in MCXhciKbd shows that an
  error is the only way to lose the keyboard.
* MCIrqLocksEarlyKey: the timer handler logs reports under `SERIAL1`
  (`xhci.rs:1146`), which the interrupted boot code may hold; ADR-013 says that
  deadlock is currently impossible. `QuietBoot = TRUE` in MCBoot shows that
  only reports before the loop, or after a panic, do this.

The others are configurations beside the runs; each violates the property it names.
They justify the conditions in the properties and the assumptions of the passing runs.

* `tlc -config MCShellScreenGhost.cfg MCShellScreen`, `InsideHarmless`: Enter, ^C, ^U,
  ^W, Tab and the history keys pressed inside the line write a stale `cursor_char`
  over the text (`framebuffer.rs:356`; the comment at 261-263 says that moving the
  cursor never erases text) and erase or print from there instead of from the end
  of the line (`shell.rs:207-252`).
* `tlc -config MCShellScreenRace.cfg MCShellScreen`, `BlinkHarmless`: a blink right before
  `redraw_from`'s last section leaves a second inverted cell (`shell.rs:162`; the
  comment at `framebuffer.rs:256` leaves the visibility to the caller).
* `tlc -config MCShellScreenWrap.cfg MCShellScreen`, `WrapHarmless`: keys inside a line
  that has wrapped move the cursor within the last row only, because `set_col` clamps
  (`shell.rs:161`, `framebuffer.rs:256`); and the blank that `redraw_from` writes after
  a line ending in the last column starts a new row. Its comment (`shell.rs:150-152`)
  says that the cursor is put at `prompt_col+cursor_pos`.
* `tlc -config MCShellCommandsArgs.cfg MCShellCommands`, `PositionalAsDocumented`: the
  comment of `parse_args` (`shell.rs:611-612`) makes the next token a value after a
  lone flag and if it is numeric. The code asks neither that the flag be
  alone nor that more than the first character be a digit (`shell.rs:652`):
  `-ab 12` gives `-b` a value, and in `grep -i 1a f` the pattern becomes the value of
  `-i`. `EveryArgumentOnce` in MCShellCommands shows that whatever is taken for a value
  is taken once.
* `tlc -config MCShellCommandsTab.cfg MCShellCommands`, `TabCompletesToken`: Tab completes
  the whole text after the command as one path (`shell.rs:351-354`), and at the end
  of the line wherever the cursor is; `initrd/sys/help/tab` says "at any point to
  complete the current token".
* `tlc -config MCBootStall.cfg MCBoot`, `MainNeverStuck`: the calibrations wait for the
  PIT's output to be low and then to be high. If the processor is held up between
  opening the gate and the first read for longer than the count, the low phase has
  passed and the first wait never ends. MCBoot assumes `Stalls = FALSE`.
* `tlc -config MCXhciEnumLate.cfg XhciEnum`, `SlotsReturned`: Enable Slot completes
  after its deadline and the slot is never freed (`xhci.rs:814`; the comment at
  341 and `docs/xhci-fs-port-investigation.md:31` promise it is). MCXhciEnum
  assumes `Patient`: answers that come, come in time.
* `tlc -config MCXhciEnumReread.cfg XhciEnum`, `DataIsAnswer`: a descriptor read
  that succeeds with the answer to an older one, as described under XhciEnum
  (`xhci.rs:387`; the comment at 399 says the bytes transferred are returned).
* `tlc -config MCShellCommandsRoot.cfg MCShellCommands`, `RootIsFound`: `vfs::lookup` of "/" is `None`
  (`vfs.rs:50`); its comment at 34 says the root itself is returned.

Observations that no document contradicts, visible in the definitions:

* an I/O APIC that is not the first of the MADT is never programmed, so a keyboard line
  on it is only polled, or not heard at all with a USB keyboard (`FirstHasKeyboard`
  in `KeyHeard` and `RoutedAsWired`);
* `cmd_arg` strips the quotes around an argument before `parse_args` tokenizes it:
  `echo "a  b"` prints one blank.

## 6. Proofs

Each theorem holds for every value of the constants that satisfies the named
`ASSUME`s of its component, where the run of the same property covers one small
instance. `PROJECT.json` lists the theorems and the run property that each one states.
Every inductive invariant was checked with TLC before it was proved.

| Module | Proves | Assumes |
|---|---|---|
| `KeyRingProofs` | `TypeOK`, `NothingLostOrReordered`, `ByteIsNextInOrder`, `DropOnlyWhenFull`; `KeyRing` implements `KeyQueue` | `CAP >= 2` |
| `XhciKbdProofs` | `ReportsExactlyOnce`, `OneTransferInFlight` | ring sizes of at least 2 |
| `XhciEnumProofs` | under `Patient`: `CompletionIsOwn`, `SlotsReturned`, `HandoverClean`, `KeyboardFound` | command ring of at least 3 TRBs, EP0 ring of at least 4; `KeyboardFound` also a slot and an EP0 ring of at least 7 |
| `AllocatorProofs` | `FreeListIntact`, `BlocksConserved`; `Allocator` implements `Heap` | sizes ascend, regions fall on multiples of their object size, requests are legal `Layout`s |
| `ShellEditProofs` | `RingIsRecentLog`, `BrowsingShowsEntry`, `LiveLineRestored`, bounds of line and cursor | capacities are positive |
| `BootProofs` | `IsrNeverSpins` under `QuietBoot`, `MainNeverSpins`, `NoUnhandledVector`, `RoutedAsWired` | `MachineAssumption` (routing only) |
| `Ps2InputProofs` | `ModifiersNeverStick`, `NoByteSkipped`, `TypedAsPressed` | the modelled keys; `TypedAsPressed` at most one shift key |
| `HidKeysProofs` | `NoPhantomKeys`, `TypedAsPressed` | the modelled keys, at least one place in a report |

**Key ring.** `NothingLostOrReordered` speaks of the concatenation of what was taken
and what the ring holds; a step changes the ring at one index, and an interrupt may
fall between drain's read and its store. `RingInv` therefore says it index by index:
the ring holds `accepted[Out + k + 1]` at the k-th slot from the tail
(`RingHoldsAccepted`), and what main has delivered and holds are the accepted bytes
in order (`MainInOrder`). `FifoCorrect` turns this into equality of sequences. For
the refinement, a push is `Put` or `Drop`, the store of the tail is `Take`, and every
other step of drain, of `hlt` and of the handlers is a stutter.

**xHCI keyboard.** `KbdInv` has the cycle bits of both rings as functions of the
producer's position (`TrbCycles`, `EvtCycles`), and `Transfer`: the one
transfer is in exactly one of six places (not armed, queued, completed, being read,
to be armed again, failed), each of which fixes how far driver and controller are
apart on both rings and how `sent` and `taken` compare. Neither property is inductive
without it: what a cycle bit means depends on where both sides are.

**xHCI enumeration.** `EnumInv` says where the controller is in the command ring: level
with the driver, or exactly one command behind, and then that command is the one the
driver waits for and the ring is running (`CommandPlace`, from `CmdCycles` and the Link
TRB). Hence at most one completion is in the queue, the awaited one (`OneCompletion`).
`SlotsByStep` gives the slots in use at each step: none before Enable Slot has been
executed and after Disable Slot has, and the driver's own in between. The two need each
other: that a granted slot is known to the driver rests on the completion being its own.
Both theorems have `Patient` as a hypothesis, the condition of the run MCXhciEnum;
`MCXhciEnumLate.cfg` shows that a late answer breaks them. A hung controller is included.
The proof found that a command ring of two TRBs would not work: its only push hands the
Link TRB over again before the controller has followed it. `SizeAssumption` therefore
asks for three; the code has 16.

The other two theorems are about prompt controllers. `HandInv` says that EP0 works only
while the driver waits for a transfer (`Ep0Quiet`), that no Transfer Event stands behind
a completion or is left between two devices (`CompletionLast`, `NoneLeft`), and in which
state the slot is at each step (`DeviceState`); a clean handover is its last step.
`FoundInv` adds what holds when the device at the current port is a keyboard: the xHC
is level with the driver on the EP0 ring, counting around the Link TRB (`Lag`), except
after the second Address Device, when it is back at the first TRB; every answer is a
success, and the data of the read that was asked for is in the buffer (`Ep0Follows`).
Hence no step fails and the port loop does not pass the keyboard over. `KeyboardIsFound`
has two hypotheses beside `Patient`, both met by the code: `MaxSlots >= 1`, and
`EP0_N >= 7` (the code has 8). The second was found by the proof: after the second
Address Device the three TRBs of the old read and the three of the next one are
outstanding together, and with six TRBs the driver would overwrite the first of them.

**Heap.** First geometry: `Offset` is the running sum it is meant to be, class
regions follow each other, distinct blocks are an object apart, `owns` finds the class
of every block and disowns every bump address. Then `HeapInv`: the lists are threaded
through their own free blocks (`FreeListIntact`); what is held is a slab block
or lies behind the bump pointer, and has one holder (`HeldBlocks`); the count
of free and held blocks is constant (`BlocksConserved`). `FreeListIntact` alone is
not inductive: an owner's write, or a second `dealloc`, would break the list if a held
block were on it. Boot refines `Place`, both ways to allocate refine `Allocate`,
`dealloc` refines `Release`, a panic and an owner's write are stutters.
`RegionAssumption` and `RequestAssumption` hold for the code's constants: sizes
and alignments are powers of two, the heap starts on a page, each class is preceded by
512 objects of every smaller one, and `GlobalAlloc` callers may not ask for 0 bytes.

**Line editor.** `EditInv` says where line i of the log is in the ring by absolute
position (`RingHoldsLog`), and which line is on the screen for each `hist_cursor`
(`LineOfCursor`). Duplicates are skipped on entry, so the log has no equal neighbours.

**Locks and routing.** `LockInv` gives, for each position of the main flow with its
panic path, the locks that may be held there; no handler holds one between its steps.
`IsrNeverSpins` is proved with `QuietBoot` as a hypothesis, the condition
of the passing run: the run `MCIrqLocksEarlyKey` shows that it fails without. `RouteInv` follows
`apic::init`: what `ApicInfo` says is how the line is wired, no entry is unmasked before
the last write, and interrupts are on only when 8259, local APIC and IDT are set up.
`MachineAssumption` says what firmware and board must be like: GSI ranges do not
overlap, IRQ 1 is on one of them, and where `parse` finds an `ApicInfo` it describes the
board. `RoutedAsWired` cannot hold on a machine whose tables lie.

**PS/2.** `Ps2Inv` says where the decoder is relative to the controller: one byte behind
a full register, level with an empty one (`Position`). Hence a reader gets the last byte
again or the next one, never a later one. `DecoderTracks` and `KeyboardTracks` relate
the modifiers to the last make and break codes among the bytes seen, and those to the
keys held; a byte processed twice changes neither. For `TypedAsPressed`,
`TypedInv` computes from the bytes sent the modifiers and the keystroke at each of them;
`want` is exactly those keystrokes (`Means`), and as long as no byte was read twice the
decoder is where the bytes up to the last one read put it (`DecoderExact`). The theorem has the
hypothesis `~(Shifts \subseteq Keys)`, which the run satisfies: with both shift keys it is false,
as section 2 says.

**HID reports.** A report is a snapshot, so what a handler types depends on the report
before it. `NoPhantomKeys` is not inductive: a key may be held and not yet typed. `Balance`
counts, for each key, what is typed, what the report in work will still type (`Due`)
and what the next report will type (`Ahead`); together they are bounded by the presses and
the rollover reports, with one more allowed (`Excuse`) while such a report is in work.
A lost or replaced report only lowers them. For `TypedAsPressed`, `ExactInv` says that
without a miss a report differs from the one before in at most one key, its last
(`Follows`), and that what was pressed is what is typed, then what the report in work will
type, then what the waiting report will type (`TypedThen`, `Out`), with caps lock
following the same path.

**Induction.** The library's induction theorems cannot be instantiated by the installed
provers. `LeastElement`, that a set of naturals has a least element, is proved from
`WFMin`, and from it `SetInduction`, induction over a set, which needs no operator
parameter; `RunningSum` uses it to show that a recursive function such as `Offset` exists.

Only model-checked: liveness and everything else under fairness (`EveryByteDelivered`,
`EveryReportTaken`, `RearmedUnlessError`, `EveryByteProcessed`, `EnumerationEnds`, `KeyHeard`,
`MainNeverStuck`), which is out of the prover's reach; and the invariants of `Ramfs`,
`ShellCommands` and `ShellScreen`. The first two are about what the parsers of `Text`,
`CommandLine` and `Ramfs` compute: folds over texts and archives, of which nothing can be
said for every input without induction over data. In `ShellScreen` a lock section is a fold
over its drawing operations, and what a redraw leaves on the screen is again an induction,
over the characters it writes.

## 7. Not modelled

* `hal/src/pci.rs`, `cpu.rs`, `cmd/power.rs`, most of `cmd/sys.rs`: port and register
  I/O or printing of constants and counters, without state of their own. `clear` is
  the writer's `clear` in ShellScreen.
* `boot`, `runner`: tools that run on the host.
* Code without a caller: `pic::remap`, `pic::enable_keyboard_only`,
  `pic::end_of_interrupt`, `timer::sleep`.
* In modelled components: the time-outs of the 8042 handshake (a command to a
  controller that does not answer is written anyway); colours and glyph bitmaps; drain's
  one-time message for the first USB report; a panic inside a handler; octal, NUL and
  UTF-8 decoding of tar headers and files; physical addresses in the ACPI tables;
  lower case of letters other than the one that stands for all; the serial UART's
  registers; `dump_protocols`, which only prints.

## 8. Plan

Done: every component of section 2 modelled and checked; the proofs of section 6, which
cover every safety property of the input path, of USB enumeration, of the heap, of the
line editor and of boot. Left:

1. ShellScreen: `OneCursor`, which looks at one drawing operation at a time and would be
   in reach if `Draw` took one operation, instead of a section, per step.
2. ShellCommands: `CwdIsDirectory`, as far as it does not rest on the parsers.
