# Hariboslinux: a verification development

Hariboslinux is a multitasking operating system for the 32-bit PC: a real-mode
boot loader, a kernel in C (`src/src/kernel`), a small library for applications
(`src/src/libs`) and applications (`src/src/apps`). This directory models the
parts whose correctness depends on interleaving, on order, or on long sequences
of calls, and the two parsers, which depend on recursive rules meeting all kinds
of input. TLC checks the models on small instances, and the TLA+ proof system
proves the safety of the heap, of the scheduler, of the timers, of the file system, of
the serial port's transmitter and of the closing of windows, consoles and applications
for every instance. File names without a directory are those of
`src/src/kernel`.

1. [The system](#1-the-system)
2. [The modules and the code](#2-the-modules-and-the-code)
3. [The runs](#3-the-runs)
4. [Bounds](#4-bounds)
5. [Fairness](#5-fairness)
6. [What is proved](#6-what-is-proved)
7. [What the checks found](#7-what-the-checks-found)
8. [What is only model-checked, and what is left out](#8-what-is-only-model-checked-and-what-is-left-out)
9. [Plan](#9-plan)

## 1. The system

One processor runs *tasks* in ring 0. Tasks talk through *event queues*; a queue
belongs to one task, which sleeps when it is empty. Interrupt handlers post events
to the main task, and nearly everything (the timers, the keyboard, the mouse, the
windows) is then done by tasks in their event loops. Two locks exist:
`cli_task()`/`sti_task()` turn interrupts off and on and nest per task;
`prohibit_switch_task()`/`allow_switch_task()` leave them on but postpone task
switches.

| Component | State | Operations | Hard behaviour | What makes it correct |
|---|---|---|---|---|
| Kernel heap (`memory.c`) | a ring of section headers, the root of the search | `init_memory`, `malloc`, `free` | any sequence of calls; merging under the root; 32-bit limits | sections disjoint, ring linked, nothing lost, all free neighbours merged |
| Scheduler (`task.c`, `queue.c`, `pit.c`) | levels, their rings of tasks, status, nesting counts, pending flags, the queues | create, start, continue, switch, sleep, close; prohibit and allow; `enqueue`, `dequeue`; timer interrupt | a switch in the middle of an interrupt handler; the wake-up race of the event loops; a task that closes itself | one task runs, each is linked once, the highest ready priority runs, prohibition holds, nobody starves |
| Timers (`timer.c`) | the sorted list of timers, `tick_count` | `create_timer`, `delete_timer`, `timers_tick` | ticks between computing a time and inserting it; timers freed while linked | exactly the timers that are due fire, in order |
| File system (`disk.c`) | the disk image in memory, flags of changed sectors, the disk | `load_file`, `save_file`, `write_entire_disk` | long sequences of saves over each other; power cuts between sectors; chains of clusters | a file reads as saved, files share no cluster, no cluster is lost, files not saved survive |
| Serial port (`serial.c`) | the transmission queue, `COM_WRITABLE` | `put_char_serial`, the COM1 interrupt | the handler and other printing tasks run between any two steps of a printing task | characters sent once, in order, and none left behind |
| Console and shell (`console.c`, `shell.c`) | a text box, the command line, the running command, redirections | type, issue a command, end of a command, close | closing while a command starts or runs | no command without its console; everything freed once |
| Sheets and windows (`sheet.c`, `window.c`) | a tree of sheets, ownership by tasks | create, move, raise, delete by events through several queues | responses of children to a parent that is being deleted | parents outlive children; each is deleted once |
| System calls (`system_call.c`) | lists of file descriptors, timers and windows per application | open, read, write, close, exit, device commands | an application that exits with all of them open | nothing of a dead application is left or used |
| Segments and FPU (`gdt.c`, `fpu.c`) | descriptor table; owner of the FPU | allocate, free; hand over on exception 7 | owner closes; table full | a descriptor has one owner; FPU state belongs to who computed it |
| ACPI interpreter (`acpi.c`) | a syntax tree over the bytes of a table | `analyse_aml_*`, search for methods, search for the sleep type | package lengths that nest; calls whose arity is declared elsewhere | the tree is the one of the grammar, short tables are noticed |
| Calculator (`apps/calc/calc.c`) | a list of symbols, reduced in passes | lexical, syntactic and semantic analysis, freeing | the order of reductions | prints a meaning of the formula, accepts every formula |
| Keyboard and mouse (`keyboard.c`, `mouse.c`) | decoder states, command queue | decode; send and wait for ACK | lost bytes, resends | resynchronisation |
| Calendar (`rtc.c`) | the time read from the clock | conversions | 12-hour mode, leap years | agrees with the calendar |
| Text box, strings (`text_box.c`, `chain_string.c`) | doubly linked characters and a cursor | insert, delete, move | edits at the ends | the links agree with the text |
| Boot loader, exceptions and gates, graphics, formatting, hardware access, other applications, build tools | | | | not planned, see section 8 |

How they interact:

* an interrupt handler calls `enqueue()` on the main task's queue (or, for the
  transmitter of COM1, `dequeue()`); `enqueue()` wakes the queue's task through
  `continue_task()`, which may switch tasks *inside the handler*;
* the main task turns a timer event into `timers_tick()`, which enqueues to the
  queues of consoles and applications; a device event goes to the sheet that has
  the focus and from there to the task that owns the sheet;
* a console creates a command task for an application; the application enters the
  kernel by `system_call()`, which prohibits switching for the whole call (except
  `SYSTEM_CALL_EXIT`); when a task closes, its parent is told by an event and frees
  what it left;
* files are loaded by shells and saved by redirections and system calls, all on one
  image in memory; a console loads inside `distribute_event()` (sheet.c:212), an
  application inside `system_call()` (system_call.c:439), both with switching prohibited,
  and the serial shell in the main task, above whose priority nothing runs.

`PROJECT.json` lists all of this as components, and under `hazards` each place where
this code can go wrong in a way a test would hardly reach, with the property that
would catch it, or the reason why none does: some of them do go wrong, and a property
that excepts the case shows that there is no other (section 7).

## 2. The modules and the code

| Module | Models | Main correspondences |
|---|---|---|
| `Memory` | `memory.c` | see below |
| `Allocator` | what callers of `malloc()` rely on | abstract specification of `Memory` |
| `MemoryProofs` | | theorems about `Memory` |
| `Scheduler` | `task.c`, `queue.c`, `pit.c`, the event loops that use them | see below |
| `SchedulerProofs` | | theorems about `Scheduler` |
| `Timer` | `timer.c` | see below |
| `AlarmClock` | what callers of `create_timer()` rely on | abstract specification of `Timer` |
| `TimerProofs` | | theorems about `Timer` |
| `FileSystem` | `disk.c`, and how `shell.c` and `system_call.c` call it | see below |
| `FileSystemProofs` | | theorems about `FileSystem` |
| `SerialPort` | the interrupt-driven transmission of `serial.c` with `dequeue()` | see below |
| `SerialProofs` | | theorems about `SerialPort` |
| `Desktop` | `sheet.c`, `window.c`, `console.c`, `shell.c`, the windows and the exit of `system_call.c` | see below |
| `DesktopProofs` | | theorems about `Desktop` |
| `AmlTerminals`, `AmlGrammar` | one definition per function `analyse_aml_*` of `acpi.c`: what it calls, on which byte, and what it flags | see below |
| `AmlParser` | the recursive descent itself, `get_aml_method`, the search of the shutdown command | see below |
| `AmlSentences` | the grammar in the comments of `acpi.c`, as a generator of tables | reference of `AmlParser` |
| `CalculatorRules` | `apps/calc/calc.c`: characters to symbols, and the steps of `syntactic_analysis()` | see below |
| `Calculator` | `apps/calc/calc.c`: the analysis as a whole, `semantic_analysis()` | see below |
| `CalculatorProofs` | | theorems about `CalculatorRules` |
| `CalculatorSentences` | the Backus-Naur form at the head of `calc.c` with the meaning of its sentences | reference of `Calculator` |
| `NaturalLemmas` | | induction on the natural numbers, which four of the proof modules use |
| `MC...` | | instances for TLC: values of constants, symmetry |

The `map` of `PROJECT.json` gives the lines of every definition.

**Memory.** `section` is the function from header addresses to headers, so a dangling
pointer is an address outside its domain. `malloc()` and `free()` run between
`cli_task()` and `sti_task()`: one action each, whoever calls. `InitMemoryRegion` is
one iteration of the loop of `init_memory()`, including the clipping at the heap base
and at 2^32. `Walk` and `Lap` are the search from `root_memory_section`; `Fits` and
`Divisible` its two tests; `TakeWhole` and `Divide` what happens then; `FreeSection`
merges with the next section and then with the previous one, as the code does,
including the moves of the root. Sums of addresses wrap (`Plus`). A second `free()`
of the same block is the `ERROR()` that changes nothing (`DoubleFree`).

**Scheduler.** `sched.ring[p]` lists level p in the order of the search, from the task
after the level's current task to that current task. `Dispatch` is the common part of
`switch_task()`, `sleep_task()` and `close_task()`: give the running task a status,
find the first waiting task of the highest level that has one, jump to it. The
counters of `cli_task()` are not state: they are the reason why an action runs from
one point where interrupts are enabled to the next. The one place where this
protection fails is modelled as an action of its own, `CloseTaskInterrupted`: after
`close_task()` has unlinked the running task, `get_current_task()` returns its
neighbour and the counter of the *neighbour* decides; `fresh` records which tasks have
never run, since only those have a count of 0. From then on (`Broken`) the count of one task is
wrong for good, and only the interrupts, whose gates mask anyway, are followed. An interrupt handler that is switched
out half way is in `in_pit` and finishes when its task runs again. `drained` holds the
tasks between an empty `dequeue()` (or the test of `CPU_COMMAND_HLT`, in a system call,
with switching prohibited) and `sleep_task()`.
`queue` abstracts a queue to "does not exist", "empty" and "has events". `creating`
holds the task between `create_task()` and `start_task()`. Preconditions the callers
establish are guards: `Holds` (tasks are created inside `distribute_event()`, which
prohibits switching, or by the main task), `MayClose` (a task closes in its event
loop). A console may close before a command that it started (`late` in `Desktop`): the
command is then an orphan, with a pointer to a freed task (`Bereave`). It runs on as every
task does; its own `close_task()`, which follows that pointer, is left out.

**Timer.** `timer` is the memory at the addresses `malloc()` may give out; freed
memory keeps its contents, so stale links are followed as the code would follow them.
`create_timer()` is two actions because `estimated_count` is computed before switching
is prohibited; `timers_tick()` is one action per step of its loop, during which nobody
else changes the list. `expired` is history: the one-shot timers that have fired.

**FileSystem.** The image is links (the file allocation table), directory entries and
cluster contents; `sector_flags` marks the sectors of each. `save_file()` prohibits
switching and is one action, with `delete_file()` and `free_cluster()` in it.
`load_file()` changes nothing, and none of its callers can meet a save half way (section 1):
it is the operator `Content`, what following the links from the directory entry gives, and
every property that speaks of reading a file uses it. `write_entire_disk()` runs under the
prohibition of `system_call()` but is split by sector (`CopySector`, `ClearFlag`)
because the power may fail between two of them. `Restart` is the boot loader's copy of
the disk to memory. Where the code writes through `NULL` or calls itself without end
the model stops (`stuck`): the directory full, an endless `free_cluster()`, the disk
full.

**SerialPort.** Each place where an interrupt can come inside `put_char_serial()` and
`dequeue()` separates two actions; `pc` says where a printing task is. The main task, the
consoles and the commands all print, and any of them may be switched out there. Two of them may
so find `COM_WRITABLE` set before either clears it (`Races`); `raced` is the history of
this, as nothing is promised afterwards. The handler is one action. `Transmit` is the UART (external): it sends its byte and interrupts. A
character is the number of its `enqueue()`; `GARBAGE` is what is read through the
`NULL` that `dequeue()` returns for an empty queue, and `wild` records that
`dequeue()` itself ran past its test of the head with nothing left to take.

**Desktop.** Windows, consoles and applications come to an end by events. A window is
four sheets, deleted by requests that go down the tree and responses that come up.
`HandleEvent(t)` dispatches on the first event of the queue of task t: one action per
case of `sheet_event_procedure`, `distribute_event`, `console_event_procedure` and the
shell's handling of ended commands. A handler is one action because
`distribute_event()` prohibits switching. The user clicks close buttons, presses ALT + F4
or types a command, at a console or on the serial line (`ClickCloseButton`, `AltF4`, `Enter`,
`SerialCommand`); applications create windows,
ask the console to exit, and exit (`CreateWindow`, `RequestExit`, `Exit`,
`DeleteWindows`, `CloseTask`). `DeleteWindows` is one round of `delete_windows()`, which
runs with switching allowed and therefore meets other tasks. Memory that is used after
it was freed is recorded in `faults`: a console or shell, the queue of a closed task,
an entry of the list of application windows, a window. After all but the last
the model stops (`Fatal`), as nothing can be said of what the program does then.
`late`, `disturbed`, `headFirst` and `serial.commands` are history. `serial.busy` is the
`SHELL_FLAG_BUSY` of the serial shell. A background command of any shell is run for the main
task with `serial_shell` for its shell (shell.c:507), so its end clears that flag
(`AfterSerialCommand`).

**ACPI machine language.** `acpi.c` has one function per symbol of the language. Nearly
all are instances of four schemes, and `AmlTerminals` and `AmlGrammar` state for each
function which scheme it is, with what it calls and where it departs from the rest: no
test of the length before a byte is read, no bound from the package length, no check at
the end. `AmlParser` is the schemes: what a function does to `aml` (the position and the
length left, which may become negative), which symbol it builds, when it flags an error.
A read outside the table, or a decision that depends on a field that was never assigned, makes
the symbol `undefined`. A symbol has the type and the flags that its function assigns. Four
functions do not assign their own: `analyse_aml_def_l_not` takes another type and no flags
(2935), `def_find_set_left_bit` and `def_find_set_right_bit` no type (2643, 2667),
`def_match` no flags (2976); `malloc()` does not clear, and such a field is `Unassigned`. `get_aml_method()` searches the tree that has been read so far, and its
answer decides how many arguments follow a name. `SleepType` is the way of the shutdown
command from `_S5_` to its two bytes. The code treats the two elements apart, and so do
`BothRegisters` and `SecondRegister`: a first element of a word or more is returned as it
stands, without a look at the second (9459-9466), a second one is cut to its low byte
(9522-9533). `AmlSentences` derives tables from the grammar
of the comments: a state is a derivation, a step an alternative of its leftmost symbol.
It also tracks what a table declares, so that calls are given the right number of
arguments.

**Calculator.** `syntactic_analysis()` goes over the list of symbols from left to right,
reducing where a rule applies, until a pass changes nothing; `CalculatorRules` has one
operator per rule, in the order of the cases, and `Advance` is one step of the loop: it looks at one
symbol, or begins the next pass. `Calculator` repeats it (`Analyse`) and evaluates what is left. Values are symbolic:
a tuple of the operation and its operands, so that two ways to evaluate are told apart
though they may be equal numbers. `CalculatorSentences` computes the set of meanings of a
text from the Backus-Naur form, and types texts.

Definitions whose comment begins with "Mutant:" are deliberately wrong variants of the
definition after them. `PROJECT.json` pairs each with the property that notices the
difference; no specification uses them.

## 3. The runs

Passing runs:

| Run | Question | Distinct states |
|---|---|---|
| `memory` | Can any sequence of `malloc()` and `free()`, after any part of the BIOS map has been read, make sections overlap (`Disjoint`), lose bytes (`NothingLost`), break the ring or leave the root in a merged section (`RingLinked`), hide a section from the search (`LapMeetsAll`), or leave free neighbours unmerged (`Coalesced`)? Does the heap implement `Allocator`? | 9 thousand |
| `scheduler` | Whatever the order of tasks and interrupts: does exactly one task run (`OneRunning`), is each in one place of its ring (`LinkedOnce`), is there always a next task (`SomeoneElseIsReady`), does the highest ready priority run unless a switch is owed (`NoInversion`), are switches neither made while prohibited (`ProhibitedStaysCurrent`) nor remembered too long (`PendingWhileProhibited`)? | 1.0 million |
| `scheduler_live` | Does the main task pick up an event that came between its look at the queue and `sleep_task()` (`MainWakes`), and does a ready command get the processor (`RoundRobin`)? | 270 thousand |
| `timer` | Does the list hold exactly the armed timers (`ListHoldsArmed`), linked in both directions (`LinkedBack`), and does it implement `AlarmClock`? | 1.2 million |
| `filesystem` | Through saves over each other, writes of the disk and power cuts: do files read as they were saved (`FilesIntact`), share no cluster (`ChainsDisjoint`), give back what they no longer use (`NoClusterLost`), and survive on the disk when they were not touched (`UntouchedSurvive`)? | 180 thousand |
| `serial` | Two tasks print. Until both have found the port writable at once: is a port that is marked writable idle (`WritableMeansIdle`), is nothing lost before the queue overflows (`NothingLost`), is order kept even then (`SentInOrder`)? And whatever happens, does every character leave the queue (`NobodyWaitsForever`)? | 240 thousand |
| `desktop` | Whatever is clicked, typed and closed at once: is no console used after it is gone but by a command that was already in its queue (`ConsoleOutlivesUse`), is the shell of the console busy exactly while an application runs in its foreground (`BusyMeansRunning`), and that of the serial port but for one reason (`SerialBusyMeansRunning`), does an application leave no window behind but in the two ways of section 7 (`ExitTakesWindows`), and does every accepted deletion complete (`CloseCompletes`)? | 730 thousand |
| `languages` | Does `acpi.c` read every table of its grammar as the grammar derives it (`SentenceRead`), notice a package whose length is one short (`ShortPackageFlagged`), and find the sleep type (`SleepTypeFound`)? Does `calc.c` print only what the formula means (`PrintsMeaning`), and accept every formula (`AcceptsSentence`), the exceptions of section 7 apart? | 65 thousand |

Runs that end in a counterexample, one property each: `scheduler_close`
(`ClosedTasksAreFreed`), `timer_expired` (`OneShotsFireOnce`), `filesystem_empty`
(`FilesIntact`) and `serial_garbage` (`PrintsCharacters`); see section 7.

`TypeOK` is the type invariant of each module. It carries more than types where
the code's arithmetic can leave its range: no size of a section underflows, no count
of prohibitions falls below 0.

Deadlock is checked in the runs of the heap and of the scheduler: an operating system
never runs out of steps. It is not checked where a bound stops the model (ticks,
saves, characters, windows, words) or where the code itself does (`stuck`, `wild`,
`Fatal`).

## 4. Bounds

* **memory**: a 34-byte address space with 2-byte headers and five descriptors: a
  region cut off by the heap base, one below it, a reserved one, two that touch and
  one cut off by the end of the address space. Requests of 0, 1, 3 and 9 bytes. Every
  case of `malloc()` (whole, divided, one byte too few to divide, none) and `free()`
  (merge with neither, either or both neighbours, with the root on each) occurs. No
  other bound: the reachable heaps are finite.
* **scheduler**: the main task, the idle task and two tasks that are created and
  closed over and over, as consoles and as commands (commands only in `scheduler_live`).
  Tasks do not nest prohibitions; `continue_task()` and `close_task()` prohibit once more
  inside them. With two levels TLC found the same (1.4 million states), but
  in more time than the run should take. `elapsed_time` wraps at 3 in place of 256:
  the wrap is the only thing that depends on the modulus, and 3 is the smallest with
  two ticks in a row that switch. The proofs hold for any number of tasks, any nesting
  and any modulus above 2.
* **timer**: three addresses besides the main task's repeating timer, delays and
  intervals 0 and 2, two ticks, one `create_timer()` interrupted at a time
  (`MaxCreating`). An address is reused as soon as it is free, so stale links meet new
  timers. `DeletesExpired` = FALSE in the passing run: see section 7.
* **filesystem**: two names, files of 1, 3 and 5 units on four clusters of 2 units, two
  directory slots, three links to a sector (so that files share sectors of the table
  and chains cross them), six saves. Chains of one, two and three clusters are freed and
  taken again in turns, scattered over the table, up to the full disk. The passing run saves no
  empty files: see section 7.
* **serial**: two printing tasks, five characters, a queue that is discarded when it
  is longer than 1 in place of 1024. Five characters overflow the queue and leave some to
  print after it was discarded. `serial_garbage` needs one task only.

* **desktop**: one console, two applications, two windows besides that of the console
  (interchangeable, so they are taken in a fixed order), two clicks or keys. Two
  applications are needed for one to disturb the other's exit and for a background beside a
  foreground command (of the console, or of the serial line, where the end of the first clears
  the flag of the second), two windows for an application that owns the head of the list and
  another entry. A second press is what meets a window that is already being deleted, or a
  command behind an accepted request to close.
* **languages**: a derivation has three choices to pay for, of which rare alternatives
  (those that need surroundings of their own) cost two, so that choices nest
  in choices inside packages. The first two elements of a `_S5_` package are derived as
  bytes, as the constants 0, 1 and ones, as words and as double words, in either place; quad words,
  which the code treats as double words, are not. Formulas have up to five words,
  and four with one out of place: five words are two operators of any strength in either
  order, or a parenthesis, with or without a function or a sign, around an operand.

## 5. Fairness

Only three runs check liveness.

`scheduler_live` assumes that the timer keeps ticking (the PIT is programmed once and
never stopped), that a handler which has begun goes on to its end when its task runs,
and that a task does not stay for ever in a region where it prohibits switching, or
between an empty `dequeue()` and `sleep_task()`: in the code these are short and
without loops that wait. All of these are weak fairness, written as "infinitely often
not enabled, or infinitely often taken" with the guard in place of `ENABLED`. One
assumption is strong fairness: a command that is again and again outside its
regions is again and again interrupted there. With weak fairness only, a program whose
system calls cover every tick would never give way; the timer is not synchronised with
programs. Nothing is assumed of programs or devices: a task may compute for ever, and
no event needs to come.

`MainWakes` holds only for the main task: the next tick wakes it. A console that goes to
sleep beside an event it has not seen has no such help (hazard at console.c:230). A
command in `CPU_COMMAND_HLT` does not have the race, because it prohibits switching
between the test and `sleep_task()`, and only tasks post to it. `RoundRobin` has two
premises: tasks of higher priority are again and again all asleep, and new
tasks stop coming, as a new task is searched before those that have waited.

`desktop` assumes weak fairness of the event loops of the main task and of the console:
they get the processor in turns and handle what is in their queues (`MainWakes` and
`RoundRobin` are the reason one layer below, the wake-up of the console apart). It is
written like that of the scheduler; TLC confirmed that the guard `HasEvent` is `ENABLED
HandleEvent` in every reachable state. Nothing
is assumed of applications or of the user. In particular an application need not
process the deletion of its windows; `CloseCompletes` therefore speaks of the console's
window and of windows handed over to the main task.

`serial` assumes that tasks get the processor in turns and that the UART sends and
interrupts (weak fairness of each).

## 6. What is proved

`tlapm` checks all proofs. They assume only the `ASSUME`s of the modules:

* for the heap, that the BIOS map has non-overlapping regions that can hold a header,
  one of which reaches into the heap;
* for the scheduler, that the tasks are finitely many and different, and that
  `elapsed_time` has more than two values;
* for the timers, that addresses are finitely many, one is the main timer's and none is
  `NULL`;
* for the file system, that sizes are positive, that the number of clusters stays below the
  two marks of the table, 0xff0 and 0xfff (a floppy disk has fewer than 2,900), and
  that `NULL` is not a name or a number;
* for closing, that the names of tasks and of windows are different;

and two hypotheses that stand in the theorems, where the code needs them: the theorems
about `Timer` have `~DeletesExpired` and those about `FileSystem` `0 \notin Lengths`,
since without them the properties are false, which is what the runs
`timer_expired` and `filesystem_empty` show.

**Induction.** The library's induction rules have an operator as a parameter, which the provers
cannot instantiate. The theorem that a well-founded relation has minimal elements in
every set (`WFMin`) has none: from it `NaturalLemmas` gets the least element of a set of
numbers (`LeastNatural`), induction over a set in place of a predicate (`InductionBySet`),
and that what a step leads to when it is taken again and again is a function (`Iteration`).
That a recursive function `f == [n \in Nat |-> ... f[n - 1] ...]` satisfies its equation is
shown by exhibiting a function that does. The loops of the code that the models follow
by recursive functions (`Walk`, `Node`, `Content`, `Reached`) are proved in this way.

**`MemoryProofs`** (for every memory map, header size and address space):
`HeapInvariant`, `SectionsDisjoint`, `RingStaysLinked`, `HeadersTyped`. The inductive
invariant `IInv` says that every header is well formed (`Typed`), no two sections
overlap or pass the end of the address space (`Apart`), the links are inverse
functions (`Linked`), the root is live (`RootLive`), and while `init_memory()` runs the
sections are free and each is a whole region that has been read (`Unread`). None of the theorems is inductive alone:
that a merge is safe needs that the neighbour in the ring which begins where this one
ends is the very section whose bytes are taken (`Apart` with `Linked`), and that the
sums of `End` do not wrap needs `Apart`. The proof follows the calls: `Absorb`
preserves the invariant (`AbsorbGood`), so do both merges of `free()` (`FreeGood`) and
the division of a section (`DivideGood`); a region that is read is disjoint from all
sections by `Unread` and the assumption on the map (`InitMemoryRegionGood`).

The second part of `MemoryProofs` (likewise): `HeapTiled`, `NoByteLost`, `FreeNeighboursMerged` and
`HeapImplementsAllocator`. To `IInv` it adds that the live sections and the regions not yet
read cover exactly the bytes of the memory map (`Tiled`) and that a section ends where its
successor in the ring begins, or else at the end of its region (`EndsMeet`). A byte is
then in some section at all times, which is `NothingLost`. `Coalesced` cannot be carried
through `free()` as it stands, because between its two merges the freed section has a
free neighbour: the proof carries "coalesced but for this section and its
successor, or its predecessor" through the first merge and closes the gap with the second.
The refinement maps a heap to the blocks it has granted; each of `malloc()`'s two ways of
taking a section grants exactly one block (`GrantsMore`), `free()` removes exactly one, and
merging and reading regions change none.

`LapIsComplete` (`LapMeetsAll`) is about the search itself. That links agree
(`RingLinked`) would also be true of two rings, of which the search walks one. The
invariant is therefore that no proper part of the live sections is closed under `next`. A lap
that has as many steps as there are sections either meets all of them or meets one twice, and
then what lies between is such a part; merging and dividing keep the invariant, because a closed part of
the new ring gives one of the old.

**`SchedulerProofs`** (for any set of tasks, nesting and modulus): `SchedulerInvariant`,
`OneTaskRuns`, `EachTaskLinkedOnce`, `NextTaskIsFound`, `PendingIsOwed`, `TypesStay`. The
inductive invariant is `Good(sched)`: types, each existing task linked exactly once and
in the ring of its own priority, exactly the current task of the current level has
status RUN, the main and the idle task exist and the idle task is never asleep, every
pending switch is owed by a task that prohibits switching; together with facts about
the rest of the state: counts are within bounds (`Bounded`), the main task has a queue
and a task that does not exist has none (`Queues`), parents exist and have a queue (`Parents`), a task being
created is asleep, in nobody else's hands, and of lower priority than its creator
(`Creations`). These are needed because `enqueue()` switches tasks: that a wake-up
leaves the task that is being created asleep, and that `close_task()` finds its parent,
cannot be seen from `sched` alone. The proof is in three layers: what a rotation, a
dispatch, an insertion and an unlinking do to rings; what `SwitchTask`, `Allow`,
`ContinueTask` and `WakeUp` preserve whoever calls them; one lemma per action.

Its second half has `ReadyTasksComeFirst` (`NoInversion`),
`ProhibitionHolds` (`ProhibitedStaysCurrent`), `ReadyTasksCloseUp` and
`EventsWakeTheirTask`. `NoInversion` is inductive given `IInv` once it is
said of the values of `sched` half way through an action (`Orderly`): either nobody
waits above the level that runs, or the running task owes a switch. The proof follows
the nesting of the calls. A dispatch leaves nobody waiting above, since a waiting task is
found in its ring (`WaitingIsFound`) and the search takes the highest; `SwitchTask` does that or
leaves a debt; `ContinueTask` raises a task and pays by `SwitchTask`, whose debt `Allow`
settles. Creating and starting a task rely on `Creations`: it ranks below its creator, so
it waits above nobody. `ProhibitedStaysCurrent` follows from what the lemmas of the first half
say of rings and level while switches are prohibited.

The other two are what the liveness of the scheduler rests on. `ReadyTasksCloseUp`
(`TurnsComeNearer`): a task that is ready before and after a step never falls back in the
order in which `switch_task()` searches its level, and comes strictly nearer whenever the
processor goes to another task of this level; so it waits for finitely many
dispatches, which with the fairness of the tick is `RoundRobin`. There is one exception: a
task that is the current task of its level and is waiting loses one place to each
task that is newly linked before it (`NewcomerBefore`). The proof takes an action
apart into calls that either leave the ring and its current task alone (`Idle`) or turn to
a task that the search finds (`TurnsTo`), and shows that no action switches twice
(`Moves`): a second switch could pass a task over. That needs, beside `IInv`, that commands and
consoles rank below the kernel's tasks (`PoolIsBelow`): a `close_task()` that is interrupted
then always gives way to a higher level and leaves its own order alone.
`EventsWakeTheirTask` (`NoEventLeftAsleep`): no step
puts the first event in the queue of a task and leaves it asleep, and no interrupt of a device or
of the timer leaves the main task asleep. The window between an empty `dequeue()` and
`sleep_task()` is open (see the hazards); it is the next interrupt that closes it, whatever
the queue holds, and the theorem is the step on which `MainWakes` rests. TLC checked both
action properties on the instance of `MCScheduler` without symmetry and with two levels of prohibition (2.8 million states).

**`TimerProofs`** (for any addresses, delays, intervals and number of ticks):
`TimerInvariant`, `TimerTypes`, `ListIsWhatIsArmed`, `LinksAgree` and
`TimersImplementClock`. The model follows the links as the code does; the proofs speak of
the function `f` that names the timers of a list in order (`Lists`), and the first lemmas
show by induction that `Node` meets exactly those and that `PreviousTimer` stops where the
new timer belongs. An insertion and an unlinking then only extend `f` or close its gap. The
invariant `TimerInv` says that such an `f` exists for the armed timers, that times do not
decrease along it, and what is behind the head's `previous`: nothing, or a one-shot timer
that fired, which is why nobody must free it. The head is always armed, because the
repeating timer of the main task is in the list. The refinement maps a list to the times of its timers.

**`FileSystemProofs`** (for any number of names, clusters, directory entries and saves, any
size of a cluster and of a sector of links): `FilesInvariant`, `FileTypes`,
`FilesStayIntact`, `ChainsStayDisjoint`, `NoClusterIsLost`, `UntouchedOutlivesPowerCut`.
The invariant `FileInv` says that there is a *layout*, the sequence of clusters of each
file, such that the image holds each file's content in its sequence (`Stored`) and no two sequences
meet (`Holds`); `FilesIntact` alone is not inductive, as it does not say where a chain lies.
`load_file()` and `free_cluster()` follow the links, and read or free exactly the layout
(by induction). `save_file()` takes clusters whose link is 0, which are in no layout, so
that all other files keep theirs. The same layout serves the disk for the files that were not touched
since the last complete write, since a cluster that such a file owns cannot have been given to
another; outside the flagged sectors that are not yet copied (`Stale`) disk and image agree. From
the two it follows that a sector which is copied in the middle of `write_entire_disk()` spares the
untouched files, and that the disk holds all files when the write is complete. That no cluster
is lost is a part of it (`Owned`): the marked clusters are those of the layout, which an overwriting
save keeps only if the walk of `free_cluster()` reaches the end of the old chain.

**`SerialProofs`** (for any set of printing tasks, any bound of the queue and any number of
characters): `SerialTypes`, `PortIsIdleWhenWritable`, `CharactersStayLined`, `NoCharacterLost`,
`CharactersInOrder` and `NobodyLeavesTheQueue`. No theorem has a hypothesis on who prints. The properties
themselves say what ends them: `raced`, that two tasks have stood between the test of
`COM_WRITABLE` and its clearing. The invariant (`PortOwned`): a port marked writable has an idle
transmitter; a task that has seen it writable still finds it so; and from clearing the
flag to `outb()` the transmitter stays idle, because only a busy one interrupts; and until
`raced` it is the only task there.
`NoCharacterLost` and `CharactersInOrder` need where each character is: what was
sent, what is in the transmitter or in the hands of a task, and what is in the queue are
in order one behind the other (`Lined`), and until the queue overflows they are
all that was printed (`CharactersStayLined`). The case that needs `PortOwned` is the task that takes the
head of the queue itself: the handler cannot take another in between, because the
transmitter is idle, nor can another task that discards the queue, because its `dequeue()` takes
the one behind. `NobodyLeavesTheQueue` (`QueueIsServed`) holds after a race, too: while characters are
queued, the transmitter is busy and will interrupt, or a task stands in
`put_char_serial()` where it is going to write. It is inductive with `PortReturns`, that a port which
is not writable is sending or about to be written. Characters may be lost or exchanged by
two tasks that print, but the transmission does not stop. TLC checked it with two tasks first.

**`DesktopProofs`** (for any number of applications, windows and clicks):
`DesktopInvariant`, `ConsoleIsNotUsedAfterwards`, `BusyFlagIsRight`,
`ExitLeavesNoWindow` and `QuietDesktopHasSettled`. Closing is done by events, and what a handler relies on was true
when the event was sent. The invariant `DesktopInv` therefore gives each type of event a
meaning (`EventOK`) that must hold as long as the event is in a queue: a *window deletion
response* says that the window is gone, a *task deletion response* that the application
is closed and that its parent is the task of this queue, a *sheet deletion request* for
the console that its deletion was accepted. Each step then owes two things: what it sends
is already true (`Sendable`), and what it changes takes back nothing that the events
under way say (`Lasting`). The end of an application is reported once (`ReportedOnce`),
without which the busy flag could be cleared under a second command. The rest says that
the console keeps its client sheet until it is deleted (`SheetsOK`), that an application which
starts after the console's deletion was accepted is in `late` (`ConsoleOK`), and that the list of
windows has each window once, with its owner (`EntriesOK`). For `ExitTakesWindows` an exiting
application has no entry before the one its loop stands on (`Passed`), until the loop
ends and there are none at all (`ExitOK`); `disturbed` and `headFirst` are exactly the
steps after which this cannot be kept. TLC checked `DesktopInv` as an invariant of an
instance of the run `desktop`. The proof has one lemma per
action, over lemmas about what sending, taking an event and removing an entry change.

`QuietDesktopHasSettled` is the safety half of `CloseCompletes`: when both queues are empty, the
desktop has settled. `Settled` says nothing of how it comes about; the inductive invariant
`Attended` names, for each thing that is half closed, who will go on: a window whose
application has exited is requested from the main task or its root sheet is going; a sheet
that is going has its request before it, or its children are going, or the response of
the last of them is in its queue; a console whose window is gone has the response, or the
request to delete its task, in a queue. Where `DesktopInv` says that an event is never
wrong, `Attended` says that it is never missing. What is left to liveness is that the queues
run empty. TLC checked the property completely for two clicks and keys, and for three in
more than 10 million states without completing the search.

**`CalculatorProofs`** (for any input of any characters): `AnalysisEnds`,
`AcceptsOnlySentences`, `NothingLeftToReduce`. The recursive `Analyse` is out of the
prover's reach, so the theorems are about runs of its step: functions that begin with
`Begin(lexical_analysis(input))` and go on by `Advance` while the analysis has not `Ended`. The
grammar is stated as rules (`Rules`), and its language as the least family of sets of texts, one for
each type, that has the characters and is closed under the words and the rules
(`Sentences`). This needs no recursion: a text is a sentence if it is in every closed
family. `ReductionsAreRules` goes through the cases of the switch: what is reduced are
neighbours whose types are the body of a rule, or a word by its meaning. So each symbol's
string stays a sentence of its type and the list spells the input (`Spelled`); if one
`<formula>` is left, the input is a formula. That every formula is accepted
is false (`Stranded`, section 7), and which ones are is left to TLC. `AnalysisEnds` has a
measure: each type has a rank that is smaller than what the body of each of its rules has
together (`RulesFit`), so a reduction always lowers the sum of the ranks (`Effort`), even where
the list stays as long as it was. Each unit pays for two passes, the one it
interrupts and the one it makes necessary; with n characters that is 16n(n + 2) + n steps of the
loop at most, which also bounds how deep `syntactic_analysis()` calls itself.
`NothingLeftToReduce` rests on the part of the invariant that a pass in which nothing has changed has
met no reduction so far; a symbol's right to be reduced depends on its left neighbour too, so
what a pass has left alone must be looked at again after a change. TLC checked the measure, the bound,
that the list spells the input and that nothing is left to reduce for the 16,105 inputs of up to
four of eleven characters. The library proves next to nothing about
`FlattenSeq`; the lemmas from `JoinsExist` to `Replacement` say what it makes of two
lists, of one element, and of a list in which some elements are replaced.

## 7. What the checks found

Four places where the code does not do what the repository says, each with a run
whose counterexample shows how:

* **task.c:88** (`scheduler_close`). `close_task()` unlinks the task before it frees it.
  The `cli_task()` inside `free()` then counts on the neighbour in the ring. If that
  one has never run, `sti_task()` enables interrupts, the next tick switches away, and
  the rest of `close_task()` never runs: stack, segment and `Task` are lost.
* **timer.c:104** (`timer_expired`). timer.h:10 says that a timer with an interval of 0 is
  not repeated. A one-shot timer that has fired keeps its links; if it is deleted after
  the list has changed around it, a freed timer stays in the list, and when its address
  is used again the list has a cycle whose one-shot timers fire again and again. The
  passing run assumes that nobody deletes a one-shot timer that has fired.
* **disk.c:314** (`filesystem_empty`). An empty file gets the number of a free cluster but
  does not mark it; the next file takes the same one, and saving the first again frees
  it under the second. The passing run has no empty files.
* **serial.c:440** (`serial_garbage`). `put_char_serial()` tests `COM_WRITABLE` after it has
  enqueued its character. The handler may have sent it in between; the task then
  sends a byte read through `NULL`.

While the properties of `desktop` and `languages` were being stated, these
departures showed up, which have no run of their own. The properties name those they
must except, in a definition that says what happened; the models leave the others out or stop
there:

* **console.c:21**. `SHELL_FLAG_BUSY` is tested when the deletion of a console is accepted. A
  command that is already in the queue then starts an application on the dying
  console, although console.c:23 refuses to close one "because an application is running on
  it"; its end is reported to a freed shell and a freed queue (`late`).
* **sheet.c:146**. A sheet without children that gets a request deletes itself at once. When
  a second request reaches the root sheet after its children are gone, the root goes
  without `delete_window()`: the window stays in the list with a dangling `root_sheet`,
  and a console whose window it is never closes (`Orphan`).
* **shell.c:507**. A background command gets `serial_shell` for its shell, whoever started
  it. Its end clears `SHELL_FLAG_BUSY` of the serial shell (77) even if a foreground
  command of the serial line is running; a second one can then start beside it. The
  second part of `SerialBusyMeansRunning` names this case.
* **system_call.c:380** (and 357, and the lists of file descriptors at 301-320). The
  loop over the circular list stops when it is back at the head; when the head itself was
  removed it stops after the first round (`headFirst`). Two applications that exit at the
  same time (454: switching is allowed) disturb each other's loop (`disturbed`).
* **system_call.c:374**. An application that exits with the response to a deletion still in
  its queue hands over a window that is gone; **sheet.c:252** follows the window of an event
  without a test. Both are the fault "window".
* Reads after a free that nobody can come between, and which the model leaves out:
  sheet.c:149 (`sheet->parent` after `delete_sheet(sheet)`), console.c:57 (`console` after
  `free`).
* **calc.c:2872, 2937**. `(1)i` and `-2i` are rejected, although the rules at calc.c:4-5 derive
  both (`Stranded`). **calc.c:606**: `delete_symbol()` forgets the factor `i` of a product
  without an operator, so its three symbols are never freed. Without arguments
  `combine_argv` returns a string without an end. The rule of `<function>` at calc.c:8
  leaves out `acosh`, `asinh` and `atanh`, which the code takes and whose words the
  grammar has; the models follow the code.
* **acpi.c:2643, 2667, 2935, 2976**. The four functions of section 2 that leave the type or the
  flags of their symbol to chance, or take the type of another. `SentenceRead` excepts their symbols
  (`Misassigned`) from having their own type and clear flags, and requires both of all others. A
  method that is invoked in an operand of `def_find_set_left_bit` or `def_find_set_right_bit` is looked up through
  such a symbol, by a type that nobody assigned: the analysis is undefined there
  (`SearchesUntyped`).
* **acpi.c:9459**. If the first element of `_S5_` is a word or longer, its value stands for both
  registers, and the second element is left out.
* **acpi.c** reads less than the grammar in its comments, see section 8. A call of a method
  that is not found inside a block reads `term_list` unassigned; `analyse_aml_term_arg_list`
  reads the byte after the package (7646); `qword_data` leaves a field unassigned (6451); the
  shutdown command follows the package of `_S5_` before it is tested for `NULL` (9420). A
  method of an inner block that is complete is found against the rules of the name space; a
  method that is declared later is read with no arguments; a package cut off by the end of
  the table is not flagged when it is the last one, nor is what remains of a package
  after its last symbol skipped.

## 8. What is only model-checked, and what is left out

Only TLC checks: all liveness, which is out of the prover's reach (`MainWakes`,
`RoundRobin`, `NobodyWaitsForever`, `CloseCompletes`), and the properties of the two languages, whose
parsers are RECURSIVE operators, which the prover does not accept. What the calculator's parser does step
by step is proved (`CalculatorProofs`): that it ends, and that it accepts only formulas. That it accepts
them all but the `Stranded` ones, and their values, are checked on the sentences
`CalculatorSentences` derives. Of three of the liveness properties
the safety core is proved for all values of the constants: what each step does to
the place of a waiting task (`ReadyTasksCloseUp`, for `RoundRobin`), that no event
is left with a sleeping task (`EventsWakeTheirTask`, for `MainWakes`) and that nothing half
closed is without an event that will go on with it (`QuietDesktopHasSettled`, for
`CloseCompletes`). What remains for TLC is the argument from fairness. `FilesIntact` and the properties it
stands beside are proved for saves of at least one byte (`0 \notin Lengths`): without this
hypothesis they are false (section 6). `SerialBusyMeansRunning` is checked only.

Simplifications within the modelled parts:

* Memory: payloads have no contents; `get_free_memory_space_size()` only reads.
* Scheduler: the number of events in a queue; registers, stacks and TSSs; segments of
  tasks; the contents of freed memory, which `close_task()` of the last task of a level
  still reaches through `current_task_level` (task.c:84) until it jumps; what the
  tasks do after an interrupted `close_task()`, and the `close_task()` of an orphan. An event an application dequeues inside a system call is dequeued outside
  it, since nobody else reaches its queue in between.
* Timer: the event of a timer that fires goes to a queue that `Scheduler` models;
  `timers_tick()` reading through a list head of `NULL` is taken as "not due".
* FileSystem: a sector is written whole; a link lies in one sector; names are those
  `create_file_name()` prints; dates, the files of devices and the second copy of
  the file allocation table (never read) are left out. A power cut in the middle of a
  write is checked by what is then on the disk (`UntouchedSurvive`); a system that
  boots from a half-written disk is not followed further. A read-only file, which would
  make `save_file()` return with switching prohibited (disk.c:303), is on no disk of
  the build, and no call makes one.
* SerialPort: polling mode, reception, and what is sent after two tasks have used the port at
  once, of which only `NobodyWaitsForever` and `QueueIsServed` speak.
* Desktop: drawing, the focus (any window may have it), text and prompts, the lists of
  file descriptors and timers of an exiting application; a freed sheet, window or entry is not
  used again for another; the characters of a line on the serial port come in at once, as the
  line changes nothing before its last; what a console does outside `distribute_event()` is one action
  each.
* ACPI: `delete_aml_symbol()` (acpi.c:8312-9297), finding the tables in memory and printing
  trees; name space evaluation does not exist in the code. The grammar of the comments is
  followed but for what the code does not read, which `AmlSentences` leaves out: name strings
  that begin with the prefix of two or more segments where a simple name or an expression
  is expected; arguments of a call
  that begin with `\` or `^`; `Acquire` and `RefOf` as arguments, `Debug` and `RefOf` in
  `ObjectType`; `def_index_field`, whose length is not bounded (2796-2829).
* Calculator: the arithmetic, beyond which operation applies to what; `log` without its
  second operand, where the code exits; a command line as the shell splits it.

Further hazards that nothing here covers: create_file_name() prints a dot after a name
without an extension (disk.c:49); start_task() clears a queue in which an event may be
(task.c:361); a timer event for a deleted timer calls its procedure (console.c:176);
resynchronisation of mouse packets
(mouse.c:54); the 12-hour clock (rtc.c:161); a full descriptor table (gdt.c:84).

Not modelled: the boot loader (real-mode assembly that runs once), interrupt gates and
exceptions (assembly and tables), graphics, formatted output, hardware access, the other
applications, build tools. The remaining components are the subject of the plan.

## 9. Plan

Done: `Memory`, `Scheduler`, `Timer`, `FileSystem`, `SerialPort`, their abstract
specifications, in this order because every other part stands on the heap and the
scheduler; then `Desktop`, which stands on both, and the two parsers, which stand alone;
the proofs of the heap, of the scheduler, of the timers, of the file system, of the
transmitter and of closing: every safety property that a run of these modules checks, but
`SerialBusyMeansRunning`, is a theorem; the safety core of the liveness of the scheduler and of closing; and that the calculator's
parser ends and accepts only what its grammar derives.

Next, modules:

1. `SystemCallResources`: the circular lists of file descriptors and timers that an
   exiting application leaves (system_call.c:301-381), beside the windows of `Desktop`.
2. `Segments` (`gdt.c`, `fpu.c`), `InputDevices` (`keyboard.c`, `mouse.c`), `Calendar`
   (`rtc.c`), `TextBox` (`chain_string.c`, `text_box.c`): a small state machine or a set
   of operators each, checked against a reference over bounded inputs; they share
   one run where they do not interact.
3. `delete_aml_symbol()` beside `AmlParser`: that freeing a tree frees each symbol once.

Next, proofs: the safety of the modules above as they are added; and an abstract
specification of closing, in which a window is open, closing or closed, that `Desktop`
implements.
