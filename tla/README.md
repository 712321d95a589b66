# painOS in TLA+

painOS (`src/student-distrib`) is a small 32-bit x86 kernel: one CPU, three
virtual terminals, at most seven processes, a read-only file system in memory,
and ten system calls. There is no working scheduler (the code after the boot in
`scheduling.c` is commented out), so the interesting behaviour is not
preemption but bookkeeping: system calls decide who "the current process" is by
looking at the terminal on display, `execute` nests user contexts on kernel
stacks, `halt` unwinds them, and interrupts arrive in between.

This directory holds TLA+ models of that bookkeeping, TLC configurations that
check them on small instances, and TLAPS proofs for all sizes.

## The system

| component | source | state | operations | what makes it correct |
|---|---|---|---|---|
| process management | `syscall.c` | `pid_arr`, `curr_pids`, `terminals[].curr_pid`, PCBs, `tss.esp0`, page at 128 MB | `execute`, `halt` | no pid leaks; the process that runs is the one calls act on; halt resumes the parent |
| boot tick | `pit.c`, `scheduling.c` | `curr_pids[t] = -1` | `switch_task` on a PIT tick | every terminal gets one base shell |
| file descriptors | `syscall.c` | `fd_items` of each PCB | `open`, `close`, `read`, `write`, loops in `halt` and `execute` | an open slot has a driver; a new process has no slot open |
| entry and exceptions | `syscall_helper.S`, `asmWrap.S`, `idt.c` | kernel stacks | `int 0x80`, interrupts, exceptions | an entry destroys no frame that is still needed |
| virtual terminals | `terminal.c` | `current_terminal`, cursors, saved screens | `display_switch` (Alt+Fn, boot tick) | calls, keys and screen follow one terminal |
| keyboard, line discipline | `keyboard.c`, `terminal.c` | line buffers, `true_buffer`, `term_read_flag`, `terminal_buf`, modifier flags | key events, `terminal_read` | a read returns exactly the line the user finished |
| real-time clock | `rtc.c` | `interruptFlags`, register A | interrupt, `rtc_read`, `rtc_write`, `rtc_open` | a read returns after a new interrupt |
| paging | `paging.c`, `enable_paging.S`, `syscall.c` | page directory, page tables, the CPU's TLB | `paging_init`, `map_page_pid`, `map_page_vid`, `vidmap` | the mapped page is the current process's; user code reaches nothing but it and the screen |
| file system | `filesys.c`, `syscall.c` | the image, inode and position of each descriptor | look-ups, `read_data`, `file_read`, `dir_read` | a program gets a file's bytes once each, in order, to the end |
| command lines | `syscall.c` | `argument_buf` of the PCB | `parse_command`, `getargs` | the first word is run, the second is left as its argument |
| screen | `lib.c`, `terminal.c` | video memory, cursor, a copy per terminal | `putc`, `delete`, `clear`, `switch_screen` | a terminal looks after a switch as it did before; output never mixes with earlier output |
| interrupt controller | `i8259.c` | masks, requests, lines in service | `i8259_init`, `enable_irq`, `send_eoi` | no line stays in service, so no device falls silent |
| boot | `boot.S`, `kernel.c`, `idt.c`, `x86_desc.S` | how far `entry()` has come; the gates | the steps of `entry()`, interrupts between them | no interrupt meets a handler that is not prepared |
| `printf` | `lib.c` | arguments still to be used | `printf`, `puts`, `itoa`, `strrev` | numbers read back |
| programs that read files | `syscalls/ece391grep.c`, `ece391cat.c`, `ece391support.c` | a buffer | `do_one_file`, `main` | lines are found and printed whole, wherever reads cut them |
| tests, other programs, tools | `tests.c`, `syscalls/`, `fish/`, `createfs`, `elfconvert` | | | |

How they interact: user code enters the kernel through `syscall_help`; every
call then asks `get_latest_pid()`, hence `current_terminal`, for the PCB to work
on. `keyboard_handler` and `switch_task` change `current_terminal`
asynchronously. `execute` and `halt` write the pid tables, the page directory
and the TSS; the next entry to the kernel, of whatever kind, pushes where
`tss.esp0` points. `terminal_read` and `rtc_read` spin with interrupts on until
a handler sets a flag. Every handler tells the controllers that it is done
(`send_eoi`), the timer's before it starts a shell, since that does not return.

What is hard here: kernel code runs with interrupts off (interrupt gates, `cli`
in `execute`), except in those two spin loops, so handlers are atomic, but
between any two steps of a process the user can press Alt+Fn and a tick can
boot the next shell; a PCB outlives its process; a saved frame lies on a stack
that later entries reuse; `execute` can fail half way. The hazards are listed,
each at its line, in `PROJECT.json`.

## Modules

| module | models | extends |
|---|---|---|
| `Process` | `execute`, `halt`, `switch_task`, Alt+Fn, other kernel entries | |
| `Sessions` | abstract: one stack of processes per terminal | |
| `MCProcess` | the refinement of `Sessions` by `Process`; root of TLC runs | `Process` |
| `FileDescriptors` | the descriptor slots of the PCBs, as operators | |
| `Kernel` | both together: system calls with their effect on descriptors, exceptions; root of TLC runs | `Process`, `FileDescriptors` |
| `Keyboard` | line buffers, `keyboard_print`, the line `terminal_read` takes, as operators | |
| `RealTimeClock` | `interruptFlags`, register A, `set_frequency`, as operators | |
| `Console` | both with the terminal on display, Alt, the boot ticks and the calls that spin | `Keyboard`, `RealTimeClock` |
| `Display` | `putc`, `delete`, `clear`, as functions on what is displayed | |
| `Echo` | the keys of `Console` with their echo, Ctrl+L and programs that print | `Console`, `Display` |
| `Lines` | abstract: a line editor per buffer and the line handed to the reader | |
| `MCConsole` | `Console` and `Echo` side by side, the refinement of `Lines`; root of TLC runs | `Echo` |
| `Command` | `parse_command`, as operators, and words, its reference | |
| `FileSystem` | what a program reads through its descriptors; commands and their argument | `Command` |
| `Screen` | the display and the copies of hidden terminals | `Display` |
| `Pic` | the two 8259 controllers and `i8259.c`, as operators | |
| `Machine` | boot, interrupts, and the handlers as far as devices go | `Pic` |
| `Paging` | the address space and what the CPU remembers of it | |
| `Programs` | grep and cat on one file | |
| `Printf` | `printf` of the kernel | |
| `MCServices` | an image, and the parts that share no state side by side; root of TLC runs | `FileSystem`, `Screen`, `Machine`, `Paging`, `Programs`, `Printf` |
| `ProcessProofs` | theorems about `Process` and its refinement of `Sessions` | `MCProcess`, `TLAPS` |
| `KernelProofs` | theorems about `Kernel` | `Kernel`, `ProcessProofs` |
| `DisplayProofs` | lemmas about the operators of `Display` | `Display`, `TLAPS` |
| `ConsoleProofs` | theorems about `Console`, its refinement of `Lines`, and `Echo` | `MCConsole`, `DisplayProofs` |
| `ScreenProofs` | theorems about `Screen` | `Screen`, `DisplayProofs` |
| `FileSystemProofs` | theorems about `FileSystem` and `Command` | `FileSystem`, `TLAPS` |
| `PrintfProofs` | theorems about `Printf` | `Printf`, `TLAPS` |
| `ServicesProofs` | theorems about `Machine`, `Paging`, `Programs` and the parts of `MCServices` together | `MCServices`, `FileSystemProofs`, `ScreenProofs` |

### Process

State: `pid_arr`, `curr_pids` and `current_terminal` are the variables of the
code. `term_pid[t]` is `terminals[t].curr_pid`. `pcb[p]` is the part of the PCB
of pid `p` that decides control flow: its `pid` and its `parent.pid`. `page` is
the pid whose physical page is mapped at 128 MB, `esp0` is `tss.esp0`, `running`
is the user context the CPU executes (`Boot` is the idle loop of `entry()`).

Kernel stacks are reduced to levels. An entry made while `tss.esp0` is at level
`d` of a stack leaves its frame at level `d + 1` and may overwrite all deeper
ones. `frame[p]` records where the `parent.ksp` of `p` points (`at`) and whose
context a return through the memory there would resume now (`owner`). When an
entry pushes over a saved frame at the same level, the memory afterwards holds
the new entry's frame: after a system call, whose layout is always the same, a
return there leads to the new caller; after an interrupt, or when the frame lay
deeper, it leads nowhere (`Lost`). After a wild return nothing is modelled: the
machine may do anything.

Actions, one per handler:

| action | code |
|---|---|
| `BootShell` | `pit_handler` and `switch_task` while some `curr_pids[t]` is -1: `terminal_switch`, then `execute("shell")`, which fails without a free pid |
| `OtherEntry` | every other system call or interrupt: only its push matters here |
| `SwitchTerminal` | `keyboard_print` on Alt+F1..F3, `display_switch` |
| `Execute`, `ExecuteFails` | `execute` of a good and of a refused command |
| `HaltBase`, `HaltChild` | `halt` of a base shell, which executes `shell` again, and of any other process |

`ParentOf`, `Freed`, `FallBack`, `NewEsp0`, `FirstFree` are the helpers
`allocate_pcb`/`execute`, `unassign_pid`, `setup_TSS` and `assign_pid`.

Two switches describe the environment: `UserSwitches` (does the user press
Alt+Fn) and `EarlyCommands` (does a shell get a command before the last shell is
up, that is within the first three ticks, 75 ms).

### FileDescriptors and Kernel

`fds[p][i]` is a slot of the PCB of `p`: its jump table (`ops`) and whether its
active bit is set. All drivers behave alike as far as slots go, so `Drivers` may
be one value. `"null"` is a slot that was never written since power-on (PCBs lie
in memory nobody clears, taken as zero), `"bad"` is `bad_table`. `Kernel`
conjoins each process action with what its code does to the slots: `halt` first
hands the terminal back to the parent and then calls `close`, which therefore
works on the parent's PCB (`NewestAfter`), and wipes the slots of the process
that ends. `Read` and `Write` are only the calls that jump through an empty
table; the others have no effect on this state and are `KOtherEntry`.
`UserException` is any exception: every handler in `idt.c` ends in `while(1)`.

### Sessions

The abstract specification: each terminal has a stack of processes. A boot tick
pushes the base shell on an empty stack, a command pushes on the stack on
display, an exit pops it but never the base shell. `MCProcess` maps `curr_pids`
and the chain of `parent.pid` to those stacks.

### Keyboard, RealTimeClock, Console

`Keyboard` keeps the arrays as the code does: `kb_buf[b]` and
`buf_location[b]` for `kb_buffer` (buffer 0) and the `kb_buf` of each terminal,
`true_buffer` for the pointer pair `true_buffer`/`term_buf_location`,
`terminal_buf` and `term_read_flag` for the handover to `terminal_read`. Bytes
are `"NUL"`, `"NL"` or a character. `RealTimeClock` has a flag per value of
`current_terminal` (the third lies one word past the array; nothing else writes
there during a poll) and register A, 38 = 0x26 at start, with the chip's rule
for when it interrupts (`Ticking`, external). `asked` and `stopped` are history
variables: the frequency `set_frequency` accepted last, and whether it ever was
1 Hz. For 1 Hz the code computes a rate of 16, one bit more than the rate field
has: it sets a bit of the divider, which no later write clears. `RateIsAsked`
says that the chip generates what was asked for last until then, and nothing ever
after.

`Console` composes them. A system call that spins is two steps, its prologue
(`TerminalRead`, `RtcRead`) and its return, with interrupts in between: `Key`,
`Alt`, `AltF`, `RtcTick`, `BootTick`. A boot tick takes the CPU from a spinning
shell for good, because base shells never return. `since` is a history variable
of the properties: which of line, tick, switch, as far as the call waits for them,
have happened since it was made. Which character a key gives (the scan code
tables, shift, caps lock) is left out.

`Echo` adds the display to the keyboard interrupts (`EchoSpec`): every key changes the line
and the screen in one handler, Ctrl+L clears the screen and prints the buffer,
programs print at any time. `in_step` is a history variable: nothing came in
between since the line was last empty or repainted. A switch of the display
loses it (the wrong buffer is bound, see `wrong_buffer`), and the next Enter or
Ctrl+L brings it back, with one exception the model shows: after a line of full
length the newline stays in the last byte of the buffer (`reset_buffer` stops
short of it), and Ctrl+L prints it. `EchoAssumption` asks that a line of full
length leaves one row of the screen free (127 characters, 24 rows of 80):
otherwise its beginning could scroll away. What hidden terminals show is any text; that
a switch brings back the right one is `Screen`'s.

`Lines` is the abstract line editor; `MCConsole` maps the array up to the
cursor, and `terminal_buf` up to its newline, to it, and puts `Console` and
`Echo` side by side.

### Command, FileSystem

`Command` translates the two loops of `parse_command`: `WordStart` is where a
loop finds its first letter, `LoopEnd` where it stops, `Copied` what it has copied
in between. `exec_buf` is terminated at `com_loc`, so
after leading spaces the name ends in bytes of an old stack frame, as many as
there were spaces (`Stale`): `ExecNames` is the set of names that can result
(" x" may run `xx`, against "ignore leading spaces" at syscall.c:381), `Words` and
`Word` the reference.

`FileSystem` keeps, for each slot of one process, type, inode, position and flag.
A byte is known by its place in the image (block, offset), so reading the wrong
block, skipping or repeating a byte all show. `ReadCount` is the loop of
`read_data` with its test `read <= whenToStop`; `WhenToStop` is `len - offset`.
`delivered` is a history variable: what reads have returned since the slot was
opened. Slots start with any position in `Leftovers`, because a PCB is used
again as its last owner left it. `child` is the command the process executes;
its end, or the failure of `execute`, closes the slots of the process (the
finding of `parent_files`). `current_dentry` is written before it is read within
each call and is no state. An executable is an inode in `Executables`.

The actions are `Open`, `Read` (`file_read` and `dir_read`; reads of the clock
are in `Console`), `Close`, `Execute`, `ExecuteFails` and `Halt`.

### Screen

`screen` is the video memory and the cursor, `saved[t]` the copy behind the
screen and the cursor fields of terminal `t`. A blank is `"SP"`. `Printing` is
the display after each byte of a text, `Printed` after the last. `PutC`, `Deleted`, `Clear`,
`ScrollUp`, `ClearRow` of `Display` translate the functions of `lib.c`; `Output` is
`terminal_write` (or `printf`, or the echo of a key), `Delete` a backspace,
`Redraw` Ctrl+L, `DisplaySwitch` is `switch_screen`. `"?"` is what lay in memory
where nobody has cleared: the copies, before their terminal is first shown.

### Pic, Machine

`pics[c]` has the base of the vectors of a controller, its masks (`imr`),
requests (`irr`) and lines in service (`isr`). What `i8259.c` does to them is
`InitWords`, `EnableIrq` and `SendEoi`; how the chips answer (`Write`, `Raise`,
`Selected`, `Acknowledge`, `Vector`) is external. `pc` counts the steps of
`entry()` in `BootOrder`, one action each, and interrupts come between them as
soon as the interrupt flag is set, which is before the controllers are
programmed: `entry()` executes `sti` (`kernel.c:166`) and calls `i8259_init`
after it. So `i8259_init` is a step per word, the boot loader's vectors (the
timer's is that of `DOUBLE_FAULT`) and masks are part of the initial state, and
between ICW1 and the masks nothing is masked.

| action | code |
|---|---|
| `Checks`, `Prepare`, `Sti`, `Outb`, `Enable`, `InitializeRtc` | the steps of `entry()` |
| `PitTick`, `KeyPress`, `RtcPeriod`, `OtherDevice` | the devices (external) |
| `Deliver` | the CPU takes an interrupt: a gate `initialize_idt` set up, or the exception of an absent one |
| `PitHandler`, `KeyboardHandler`, `RtcHandler` | the handlers up to `iret`, or to the shell `switch_task` starts |

`multiboot` is what the boot loader says of itself: without a module the file
system is at any address, and every tick fails to start a shell or faults.
`early_key` records a key that came before ICW1 made the controller forget its
edge; the scan code is then never fetched, and as the keyboard controller waits
for that, the keyboard is dead. Handlers clear the interrupt flag until they are
done; the `sti` at the end of `pit_handler` comes just before its `iret` and is
merged with it, and so is that of a shell's start with its entry to user code.
`harm` says how the machine hung.

### Paging

`table[p]` is the entry (present, user, frame) for a kind of page, `tlb[p]` what
the CPU remembers of it: an access fills it, a changed entry leaves it, and only
`tlb_flush` (the reload of cr3) empties it. `MapPagePid` and `MapPageVid`
change an entry and flush; `Vidmap` accepts what the code accepts, a word below
the program's page too, where its store is a page fault. `owner` is a history
variable: whose page was mapped last. The page `vidmap` maps is never taken away.

### Programs

`do_one_file` of grep, one read, one carried remainder and one line per step,
with the buffer byte by byte, and the loop of cat. A file is what its reads
deliver, with the byte `read_data` adds behind the end. grep terminates a line
by looking at `data[BUFSIZE]` before that byte is written; `junk` is what was
there. `printed` and `content` are compared by `ProgramOutput`.

### Printf

One directive of the format per step, the arguments a sequence that conversions
use up, `Itoa` with `Places` for the loop and `strrev`. `HighBit` is the value of
the highest bit of a word, the sign of a signed one.

## Runs

Expected to pass:

| run | instance | properties | what it shows | states |
|---|---|---|---|---|
| `single` | 3 terminals, 7 pids (the numbers of the source), stack levels 3, one terminal used | `TypeOK`, `RunningIsNewest`, `FramesIntact`, `OnlyRunningDies`, `HaltResumesParent`, `BootCompletes` | on one terminal, "current process" means the running one; saved frames survive; the boot completes | 3 470 |
| `switch` | 2 terminals, 4 pids, levels 2, Alt+Fn at any time | `PidsAccountedFor`, `MappedIsNewest`, `RefinesSessions` | even when halt hits the wrong process no pid leaks, and the calls implement one stack per terminal | 121 451 |
| `any` | the same, commands during the boot too | `HaltHasFrame`, `BootsOnce` | halt never returns through an unset frame; no terminal is booted twice | 257 452 |
| `files` | 2 terminals, 3 pids, 2 slots | `KTypeOK`, `ActiveHasDriver`, `FreePidsHoldNoFiles` | open slots have drivers; nobody inherits an open slot | 1 196 384 |
| `console` | 2 terminals, buffers of 3 bytes, a display of 2 by 2 | `ConsoleTypeOK`, `NothingBehindCursor`, `LargeReadsSucceed`, `RateIsAsked`, `LineShown`, `RefinesLines`, `ReadsNewLine`, `ReadsNewTick`, `ReadAnswered`, `TickAnswered` | the arrays implement a line editor; what is displayed before the cursor is the line; reads return a new, whole line; rtc_read waits for a new interrupt and gets it; the clock runs at the frequency accepted last until 1 Hz stops it for good | 607 871 |
| `services` | 2 slots, 4 entries; 2 terminals of 2 by 2 cells; devices 0, 1, 8, 14 and 2 shells; 3 pids; files of 5 bytes, buffers of 3; words of 8 bits | `SvTypeOK`, `DeliveredInOrder`, `EndIsTheEnd`, `CommandsObeyed`, `ArgumentIsSecondWord`, `BlankFromCursor`, `HarmOnlyInWindow`, `NothingLeftInService`, `OwnMemoryOnly`, `ProgramOutput`, `NumbersReadBack`, `PicturesKept`, `ShellsStart`, `ClockKeepsTicking`, `KeysAnswered` | files are read in order and to the end; lines run their first word with the second; terminals keep text and cursor; the machine boots under interrupts and goes on answering its devices; user code stays in its memory; grep and cat print what is in a file; numbers read back | 68 582 |

Expected to find a violation; each is a disagreement between a comment or test
and the code, described under `findings` in `PROJECT.json`:

| run | property | the text | what the code does |
|---|---|---|---|
| `drift` | `HaltSetsEsp0ToBase` | syscall.c:100 "set esp0 to point to base of parent's kernel stack" | sets it to where `execute` was called; the shell's stack sinks with every command |
| `wrong_halt` | `OnlyRunningDies` | syscall.c:59 "halts the currently running process" | halts the newest process of the terminal on display |
| `parent_files` | `HaltKeepsParentsFiles` | syscall.c:72 "close all file descriptors" | closes the parent's |
| `unopened` | `UnopenedFails` | ece391syserr.c:164 "tries to read and write from unopened fd's 2-7" and expects -1 | `write` calls through the slot without looking at its flag |
| `past_end` | `NothingBeyondTheEnd` | filesys.c:262 "(or until all data read)" | the read that reaches the end returns one byte more |
| `wrong_buffer` | `HiddenLinesStay` | keyboard.c:86 "1 for each terminal window" | Alt+Fn binds the buffer of the terminal it leaves |

Every property of a passing run has a mutant (`PROJECT.json`, the definitions
named `X_Something` next to `X`): a plausible slip in the code that makes TLC
find the property violated.

### Bounds

- `MaxDepth` caps the stack levels; a command at the cap is not modelled. A real
  stack has room for a few dozen. Levels matter only by comparison with saved
  frames, and three tell "above", "at" and "below" apart. In the code the
  descent is unbounded, and reaching the PCB at the other end of the 8 KB is the
  hazard behind `drift`.
- Two terminals and four pids let one terminal hold three nested processes while
  the other is switched to, and let pids run out. The run with the real numbers,
  3 and 7, keeps the user on one terminal.
- Two file slots: one can be free while the other is open, and both can be full.
- Buffers of three bytes: empty, one character, full, and the byte kept for the
  newline. Reads of the whole buffer; `nbytes` affects only `ReadResults`.
- `Frequencies`: every power of two that is accepted, and 0, 3, 1023 and 2048,
  which are not.
- Lines of up to 5 characters hold two words with spaces before, between and
  behind; `x` and `xx` are both names, so that a wrong end of a word matters.
- Blocks of 2 bytes, a file that ends inside a block and one that fills one;
  reads of 1 and 3 bytes stop before, at and beyond the end and cross blocks.
- A screen of 2 by 2 wraps, scrolls and is erased across rows in a few steps.
- The parts of `services` share no state, so it explores only behaviours in which
  one of them moves; the others stay in one chosen initial state.
- `console` explores behaviours in which either lines are typed and read, or the
  clock is programmed, or the display moves: lines and the rate share no state.
  Interrupts, both calls and Alt+Fn are in the first two. With the display, two
  characters are typed (so that a wrong one shows),
  Alt+Fn is pressed once, which brings a second line buffer (a third would be
  like it), and keys come from the last boot tick on.
- Devices 0, 1 and 8 have handlers; 14 stands for the ones that have none and
  must stay masked. Boot loaders may have masked any set of them. Two shells:
  the first takes the CPU from `entry()`, the last ends the boot.
- grep looks for two bytes in buffers of three: the text, a line and the junk
  byte can each straddle or fill the buffer. Files of up to five bytes take three
  reads.
- Words of 8 bits and 2 hexadecimal digits instead of 32 and 8: `Printf` uses the
  width only for the sign and the padding (`HexDigitsAssumption`: no word has more
  digits than are padded to); 0, 9, 10, 128 and 255 are the edges of
  both radixes and of the sign. Formats of two directives show arguments used up
  by the first.

### Deadlock and fairness

Deadlock is checked except where the system really may stop: after control is
lost (`Lost`) or the kernel hangs (`stuck`). Fairness is only on
hardware and on the CPU, and weak where not said otherwise: the PIT interrupts
40 times a second, so `BootShell` happens if it stays possible; the clock ticks while it is set to; a spinning
process polls. In `Machine` handlers run to their end (weak), and
the steps of `entry()`, the ticks, the periods of the clock and the delivery of
IRQ 0, 1 and 8 are strongly fair: each is switched off while a handler runs and
possible again after it, and handlers leave the CPU free most of the time, so
code that is interrupted goes on and an interrupt that stays requested gets its
turn. The other parts of `services` have properties of safety only. Nothing is
assumed about the user. In the single-terminal run the
stack bound disables `BootShell` only at `MaxDepth`, which no state with an
unbooted terminal reaches.

## Proofs

Every theorem holds for all values of the constants that satisfy the named
assumptions of the modules; "assumes" below is what it needs beyond them. A run
shows the same property on a small instance.

### Processes

| theorem of `ProcessProofs` | says | assumes |
|---|---|---|
| `Typing` | `Spec => []TypeOK` | nothing more |
| `HaltReturnsThroughAFrame` | `[]HaltHasFrame` | nothing more |
| `TerminalsBootOnce` | `BootsOnce` | nothing more |
| `PidsNeverLeak` | `[]PidsAccountedFor` | `EarlyCommands = FALSE` |
| `MappedPage` | `[]MappedIsNewest` | `EarlyCommands = FALSE` |
| `SessionsAreImplemented` | every step is one of `Sessions` or none | `EarlyCommands = FALSE` |
| `CurrentProcess` | `[]RunningIsNewest` | `QuietUser`: also `UserSwitches = FALSE` |
| `SavedFrames` | `[]FramesIntact` | `QuietUser` |
| `OnlyRunningHalts` | `OnlyRunningDies` | `QuietUser` |
| `HaltReturnsToParent` | `HaltResumesParent` | `QuietUser` |

The assumptions are needed. `wrong_halt` is the counterexample with a user who
switches. With commands during the boot a command takes a pid below
`MaxTerminals`, `execute` makes it its own parent, and the base shell that is
below it is in no chain any more.

There are four invariants. `PidsAccountedFor` describes the pids in use as
chains from a terminal's newest process to a base shell. It is not inductive:
`execute` decides who is a base shell by the pid's number, so one must know that
the low pids belong to base shells. `BasesBooted` adds that: terminal `t` is up
exactly when pid `MaxTerminals - 1 - t` is taken (shells boot from the highest
terminal and pids are given out from 0), only those pids are taken before all
are up, and a process is its own parent exactly when its pid is below
`MaxTerminals`. `Inv` is `TypeOK`, `PidsAccountedFor`, `BasesBooted` and
`MappedIsNewest`, and it is inductive for every action.

`OneSession` is about the CPU when the display stays: the running process is the
newest of the terminal on display and runs on its own kernel stack, and the
frame of each waiting parent lies on that parent's stack. Since the newest
process has no child (`NewestHaveNoChild`), an entry to the kernel pushes on a
stack that holds no frame anyone waits for (`EntrySafe`), which is why saved
frames survive although `esp0` drifts.

`CommandsInv` is what remains true whenever commands come. Terminals may share a
base shell then and pids may leak, so nothing can be said of the low pids but
that their PCBs make them base shells (`LowAreBases`; a PCB nobody filled in
makes pid 0 the parent). A pid from `MaxTerminals` on was started, its parent is
live, it has one child at most, and it is the newest process of one terminal at
most, in which case it has none. `halt` of such a process therefore finds the
frame its own `execute` left.

The refinement of `Sessions` maps a terminal to the recursive `Ancestry` of its
newest pid. That the recursion defines anything is itself an invariant
(`Ranked`): there are ranks, rising from parents to children, over all PCBs,
those of ended processes included. The lemmas on `AncestryEntry` show by
induction on the rank that it exists, consists of live pids, and is the same in
two tables that agree on the parents of live pids; a step then changes the
stack of one terminal at its end. The fairness of `Sessions` stays with TLC.

### Descriptors

| theorem of `KernelProofs` | says | assumes |
|---|---|---|
| `KernelImplementsProcess` | `KSpec => Init /\ [][Next]_vars`: the safety theorems above hold of `Kernel` | nothing more |
| `KernelTyping` | `[]KTypeOK` | nothing more |
| `OpenSlotsHaveDrivers` | `[]ActiveHasDriver` | nothing more |
| `NobodyInheritsFiles` | `[]FreePidsHoldNoFiles` | `EarlyCommands = FALSE` |

`NobodyInheritsFiles` rests on `Inv`: `open` works on the PCB of the newest process,
which is live, and a pid becomes free only in a step that wipes its slots. When
the terminal on display has no process yet, `open` uses the PCB of pid 0, which is
that of the first shell and live (`FirstShellLives`). With commands during the boot a refused command can leave a terminal
with a free pid, whose PCB `open` then uses: so the assumption.

### Terminals and clock

| theorem of `ConsoleProofs` | says |
|---|---|
| `ConsoleTyping` | `[]ConsoleTypeOK` |
| `OnlyTheLineIsKept` | `[]NothingBehindCursor` |
| `ReadsOfALineSucceed` | `[]LargeReadsSucceed` |
| `RatesAreRight` | `[]RateIsAsked`, for any set of frequencies |
| `ReadsWaitForLines` | `ReadsNewLine` |
| `ReadsWaitForTicks` | `ReadsNewTick` |
| `ImplementsLines` | `RefinesLines`: `Console` implements `Lines` |
| `LinesAreOnDisplay`, `LinesAreOnDisplayMC` | the line is displayed before the cursor; the second of the specification TLC explores, `[]LineShown` |

The invariant `ConsoleInv` adds to types and `NothingBehindCursor` that before the
cursor there are characters only, that a set `term_read_flag` means that
`terminal_buf` holds a line with its newline, and that what a call waits for has
happened since the call if its flag is set (`WaitsForNews`, for the two action
properties). `RateInv`, the invariant of `RatesAreRight`, says of register A what
writes leave of it: before 1 Hz the divider is 2 and the rate divides 32.768 kHz
to the frequency accepted last (`PowersMultiply`); with 1 Hz the lowest bit of the divider is set
(`OneHertz`), and no later write clears it, since all keep the divider. `LineShown` needs what the operators of `Display` do to any screen and any
text (`DisplayProofs`): printing is recursive, and a character moves the
cursor's cell number by one, or, when the screen scrolls, moves everything above it
by a row. `Text` stands before the cursor as long as it does not scroll away,
which is where `EchoAssumption` is used.

`ScreenProofs` has `TerminalsKeepPictures` (`PicturesKept`), for which it is enough
that every terminal has a copy, and `BlankBehindCursor`
(`[](ScreenTypeOK /\ BlankFromCursor)`), by the lemmas of `DisplayProofs`.

### Files and commands

| theorem of `FileSystemProofs` | says |
|---|---|
| `FsTyping` | `[]FsTypeOK` |
| `ReadsInOrder` | `[]DeliveredInOrder` |
| `EndOfFileIsTheEnd` | `[]EndIsTheEnd` |
| `ArgumentIsTheSecondWord` | `[]ArgumentIsSecondWord` |
| `CommandsAreObeyed` | `[]CommandsObeyed` |

for any image with the properties of `ImageAssumption`. `FilesInv` says that an open
slot has a type and that the position of a file or directory counts what it has
delivered; then what a read appends continues what was delivered before, and it
returns nothing only at the end. The two theorems on commands are about
`parse_command`'s two loops: the first copies the first word and the second the
second word of any line (into `argument_buf`, which `getargs` copies from), where
the words are the maximal runs of letters.

### Devices and memory

`ServicesProofs`, for any devices, boot loader and number of shells:

- `InterruptsEnd`, `MachineSpec => []NothingLeftInService`. The invariant
  `Serving` says which lines are in service while which handler runs. It needs
  the bases of the vectors: a handler's EOI names its own line, which is the one
  delivered only because the boot loader's vectors have no gate and
  `i8259_init`'s map 0, 1 and 8 to the handlers of these lines.
- `HarmIsBounded`, `MachineSpec => []HarmOnlyInWindow`. The invariant `Window`
  ties masks and bases to `pc`: after the last word everything is masked, and
  each line is let through only after what its handler uses is there. A request
  that is older than its mask is covered: it is delivered later, to the handler.

It also proves `ProcessesSeparate`, `PagingSpec => []OwnMemoryOnly`, for any
number of processes: every user entry, in the tables and in the TLB, leads to the
screen or to the last page mapped (`Harmless`). For the tables that is what
`map_page_pid` writes; for the TLB it is preserved by a change of the tables only
because the flush is part of it.

`PartsAreSpecified` says that `SvSpec`, which TLC explores, implies the
specification of each part, so that every theorem about a part holds of it. One
consequence is stated: `ServicesTyping`, `[]SvTypeOK`.

### Programs

`ServicesProofs` proves `ProgramsPrintFiles`, `ProgramsSpec => []ProgramOutput`, for
files and buffers of any size, any content and anything grep may look for.
`Grepped` says what should have been printed after each byte of the file. The
invariant `GrepInv` counts with `Dealt` the bytes that lie before the buffer or in
lines of it that are searched: what is printed is right for those
(`LinesPrinted`), the buffer holds the ones read behind them (`BufferHolds`), and a
buffer that is not full means that the file has ended. Three places are delicate.
What is carried to the front of the buffer is copied as a string, up to a NUL,
which can be cut off only at the end of the file (`GrepCarrySteps`). A line that
fills the buffer exactly is searched without its end; the end comes first in the
next read and is taken for an empty line, which matches nothing
(`LastLineIsWhole`, `EmptyLine`). And a search goes through the suffixes of the
line in the buffer, each up to the NUL that `Terminated` wrote (`LineIsSearched`).
`LinesFit` and `junk # "NL"` are needed for the second: without them grep splits a
line or ends it where there is none.

### Printed numbers

`PrintfProofs` proves `PrintedNumbersReadBack`, `PrintfSpec => []NumbersReadBack`,
for words of any width, any format and any arguments. `PlacesRight` shows by
induction on the word that the loop of `itoa` stores digits that, reversed, read
back as the word, and that the last one stored is not zero; `PlacesGrow` that a
smaller word has no more digits, so that `%#x`'s padding is never negative.
`PrintfInv` counts arguments: those left are the ones the directives left will
take, and the i-th directive was given the one that belongs to it (`Used`). For
`%d` of the smallest number, `HighBit` is its own negation, which `itoa` takes as
unsigned.

### What stays with TLC

- Liveness, which is out of the prover's reach: `BootCompletes`, `ReadAnswered`,
  `TickAnswered`, `ShellsStart`, `ClockKeepsTicking`, `KeysAnswered`, and the
  fairness part of `RefinesSessions`.

Every safety property and action property that a passing run checks is a theorem.

Where a proof needs induction over data, as the texts of `Display`, the chains of
`Ancestry`, the lines of `Command`, the digits of `Printf` and the texts of
`Programs` do, it goes through the least element of a set of numbers (`WFMin` of
`WellFoundedInduction`), since theorems that take a predicate as a parameter are
not available to the provers.


## Not modelled

- Lines, names and arguments too long for the buffers of `parse_command`, names
  of the full 32 characters, images that are not well formed. `shell` is assumed
  to be in the image; were it not, the boot tick would fail forever.
- `getargs`: it copies `argument_buf`, or returns -1 if that is empty or does
  not fit the program's buffer with its end.
- The string and memory functions of `lib.c` as such: where the kernel uses them
  their effect is part of the action. A format of `printf` that ends in `%`,
  which would run past its end: no call has one.
- What programs write to the screen through `vidmap`'s page; `is_active`, which is
  written and never read; `disable_irq`, which nobody calls; the scan code tables;
  the dispatch of call numbers in `syscall_help`; `get_paging_directory` and
  `get_paging_table`, which copy tables for tests.
- What happens after a wild return or a jump through an empty table.
- A user program's own memory.
- The bits of descriptors and page table entries beyond present, user and frame.
- Tests (`tests.c`, `ece391syserr.c`), read for what they expect; ls and the shell,
  loops around system calls modelled elsewhere; fish and the programs that use
  signals, which need calls this kernel refuses; build tools, which run on another
  machine.

## Plan

1. Done: all modules above, the theorems above.
2. Next: names of full length in `Command`, and lemmas that state what the files
   and the address space promise to `Programs`, so that it can be composed with them.
