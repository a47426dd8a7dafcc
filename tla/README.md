# A verification project for the TP2-SO-2025 kernel

The program is a teaching kernel for x86-64 (`src/TP2-SO-2025`), loaded by Pure64: one CPU,
preemptive priority scheduling with aging, named semaphores, pipes, a keyboard driver, two
interchangeable memory managers, a text console, a shell, commands and test programs. This directory
holds TLA+ models of it, the TLC configurations that check them and TLAPS proofs about all of them but the C
library: nearly every invariant the runs check is also a theorem for all values of the constants (section 5 names the rest).

Paths below are relative to `src/TP2-SO-2025`; "README" with a line number is the repository's.

## 1. Inventory

| Component | State | Operations | Interacts with |
|---|---|---|---|
| Scheduler (`Kernel/scheduler.c`) | a ready queue per priority, `running_process`, `idle_proc`, the scheduling fields of each PCB | `schedule`, `apply_aging`, `block_process`, `unblock_process`, `add_to_scheduler`, `remove_process_from_scheduler`; `set_priority`, `yield_cpu` in `process.c` | timer interrupt and `int 0x20`, semaphores, process table |
| Queue and array (`Kernel/datastructures`) | linked list with a cyclic iterator; growing block | add, remove, search, iterate | scheduler, semaphores |
| Process table (`Kernel/process.c`) | 64 slots, PCBs, lists of children, a semaphore `wait_<pid>` per process | create, wait, exit, kill, Ctrl+C, reap, reparent | scheduler, semaphores, pipes, memory |
| init (`Kernel/kernel.c`) | `shell_proc` | restarts the shell | process table |
| Semaphores (`Kernel/sem.c`, `asm/sem.asm`) | registry with a spin lock; per semaphore a value, a FIFO of PIDs, users, a spin lock | `semOpen`, `semClose`, `semWait`, `semPost`, `removeFromSemaphore` | scheduler, keyboard, pipes, processes |
| First-fit memory manager (the default) | circular free list in address order, roving pointer, statistics | `mm_init`, `mm_alloc`, `mm_free`, `mm_get_stats` | everything that allocates |
| Buddy memory manager | a free list per order, the order in each block's metadata | the same | the same |
| Pipes (`Kernel/pipe.c`, `fd.c`) | ring buffer, waiting flags, counts of readers and writers, expectations | open, attach, detach, read, write, close | semaphores, processes, shell |
| Keyboard (`Kernel/drivers/keyboard.c`) | ring buffer, options | interrupt handler, `getKeyboardCharacter` | semaphores, `kill_foreground_processes` |
| Shell (`Userland/Shell/shell.c`) and commands | parsed commands and their strings, the two processes of a pipeline | read, parse, run, pipe, background, wait, free | pipes, processes, memory |
| MVar, test_sync (`Userland/Shell/commands`) | shared byte, shared counter, semaphores | put and get, increment | semaphores |
| Interrupt entries and system calls (`asm/`, `idt/`, `libsys`) | registers, one stack per process | save, switch, restore, dispatch | everything |
| Text console (`Kernel/fonts.c`) | position, font size, height of the line | put, erase, new line, scroll, resize | keyboard, system calls |
| C library (`Userland/libc`, `Kernel/strings.c`, `lib.c`) | a static buffer | print, convert, compare, copy | commands |
| Module packer and loader | the image | pack, unpack, clear bss | boot |
| Drivers, exceptions, bootloader | screen, ports | I/O and formatting | not modelled |

What makes this system hard to test:

* **Interrupts.** Every gate of the IDT is an interrupt gate (`idt/idtLoader.c`), so a system call
  starts with interrupts off. But `_cli ... _sti` pairs do not nest: an inner `_sti` (for instance the one
  of `unblock_process`, or of the scrolling code) turns interrupts on in the middle of the caller's
  critical section, or of an interrupt handler. And some tests are made before the `_cli` that should
  protect them (`unblock_process`), or through a pointer looked up long before (`closePipe`).
* **Spin locks on one CPU.** A process that spins with interrupts off can never be relieved.
* **Sleep and wake.** A waiter joins a semaphore's queue, unlocks, then blocks: three steps. After a sleep
  kernel code runs on with interrupts on, and often does not look again at what it waited for.
* **Priorities kept in two places**, the PCB and the queue the PCB stands in.
* **Identifiers reused**: PIDs, PCBs' addresses, `wait_<pid>` semaphores, PIDs left in semaphore queues.
* **Ends of a pipeline** that come and go in any order: a left command may be done before the right one
  exists.
* **Allocators and containers**, whose errors show only after long histories.

`PROJECT.json` lists these hazards with their lines and the properties that address them.

## 2. Modules

| Module | Models | Uses |
|---|---|---|
| `Scheduler` | `scheduler.c`, the queue operations, the scheduler's part of `process.c` | |
| `FairSemaphore` | abstract: an atomic FIFO semaphore | |
| `Semaphore` | `semWait`, `semPost`, `sem.asm` on one CPU with a timer | |
| `SemMutex` | `test_sync.c` and the reader's mutex of `keyboard.c` as clients | `Semaphore`, refines `FairSemaphore` |
| `SemTable` | `sem.c`'s registry of named semaphores, operations as functions of the kernel's state | |
| `ProcessTable` | `process.c`, init and `create_shell` of `kernel.c` | `SemTable` |
| `Pipe` | `pipe.c`, operations as functions of the kernel's state | `SemTable` |
| `Keyboard` | the ring, the handler and the reader of `keyboard.c` | `SemTable` |
| `Pipeline` | the shell's `a | b`, `cat`, `echo`, `filter`, `wc`, `fd.c`, the exits of both commands | `Pipe`, `Keyboard` |
| `Mvar` | `mvar.c`, `shared_mvar.c` | `SemTable` |
| `MemoryManager` | abstract: `memory_manager.h` | |
| `FirstFit` | `first_fit_mm.c` | refines `MemoryManager` |
| `Buddy` | `buddy_system_mm.c` | refines `MemoryManager` |
| `Containers` | `queue.c`, `array.c` | |
| `Shell` | reading, parsing, running and freeing a line | |
| `Traps` | `interrupts.asm`, `libasm.asm`, `entry_points.asm`, `libsys`, `syscallDispatcher.c` | |
| `Screen` | `fonts.c` | |
| `CLibrary` | `libc`, `ansiColors.c`, `strings.c`, `lib.c`, the module packer and loader | |
| `SchedulerProofs`, `SemMutexProofs`, `ProcessTableProofs`, `FirstFitProofs`, `BuddyProofs`, `PipelineProofs` | theorems | their modules |
| `UserlandProofs` | theorems | `Mvar`, `Shell`, `Containers`, `Traps`, `Screen` |
| `Arithmetic` | lemmas on numbers: induction, sums over finite sets, powers of two, division, functions defined by recursion | |
| `MC...` | TLC instances | |

Definitions whose names begin with `Bad` are faulty variants of the definition that follows them. No
specification uses them; substituting one shows that a property can fail.

### Scheduler

The PCB fields are functions of the process (`state`, `priority`, `original_priority`,
`quantum_remaining`, `wait_ticks`), `process_priority_table` is `queues`. `schedule()` runs with
interrupts off, so nothing interleaves with it, but its loops are still separate steps: `cpu` says
whether the CPU is in a process, in `apply_aging` or in the dispatching part; `level` and `cyclicIter`
are `apply_aging`'s loop variable and the queue's iterator. A kernel loop that never ends is then a
behaviour in which `cpu` never returns to `"user"`.

Each section between a `_cli` and its `_sti` is one action: `create_process` (from its second `_cli`),
`block_process`, `unblock_process`, `set_priority`, `yield_cpu`, `process_terminator`, `kill_process`,
`reap_terminated_processes`. `pc[c]` is the place between such sections: a process that blocked itself or
yielded still has to issue `int 0x20` (`"force"`), and interrupts come in between. `AgingSkip`, `AgingCount`,
`AgingRaise`, `AgingEmptyLevel` and `AgingDone` are the paths through `apply_aging`, `KeepRunning`, `SwitchTo`
and `SwitchToIdle` those through the rest of `schedule`.

The model starts when `init_scheduler` has put the scheduler on line; interrupts have been on since
`load_idt`, so ticks can come before `main()`, running as the idle process, has created init. After that the
idle process is never chosen again: init cannot be blocked or killed. This matters, because the context
saved for idle is the end of `main()` (`MainNeverResumes`).

`unblock_process` and `block_process` test the state of the PCB before their `_cli` (316, 327). Called with
interrupts off, by a system call that has not slept or by the keyboard's handler, each is one action; called
with interrupts on (`process_terminator`'s `semPost`, a call that has slept) it is two, `..._test` and
`..._act`, and anything may happen in between. An `unblock_process_act` that meets a process which is no longer
BLOCKED sets the history `raced`: that process is now queued twice, or queued and freed. The properties of `Spec`
hold through the window and until such a meeting, and `Spec` follows the program no further: what a doubled
entry does is what `scheduler_hang` shows of any entry that is not READY.

There are two specifications. `SpecNice` lets `set_priority` change any process, which is what the system
call does. `Spec` excludes processes that stand in a queue (state READY): `set_priority` does not move them, and
with that the discipline of the queues is lost (see the findings). What is proved of `Spec` therefore holds
of the code as long as nobody renices a READY process; what survives when somebody does is checked
under `SpecNice`.

### Semaphores

`Semaphore` follows `semWait` and `semPost` label by label: registry lock, semaphore lock, decision, enqueue,
unlock, block, `int 0x20` (twice: `block_process` issues one and `semWait` another), hand-off, unlock.
`intr[p]` is the interrupt flag of p's context. It is off from the start of a system call until
`block_process` or `unblock_process` sets it; the processes in `KernelProc` call with interrupts on, as kernel
code does after it has slept once (`getKeyboardCharacter`, `writePipe`, `wait_child`) and in `create_process`.
The timer (`TimerTick`) can only fire when the flag of the running process is on. The scheduler is
abstracted to "some READY process runs next". `SemMutex` adds the client: wait, read the shared variable,
yield, write it back, post.

`SemTable` is the view of the modules above: named semaphores with users, value and line, each operation
one step, as `services` shows it to be for system calls (`ImplementsFairSemaphore`). That is a refinement of
safety only. A `semPost` can be preempted with its lock held and the next caller then hangs (`sem_finish`), so
no liveness carries over, and the modules above `SemTable` claim none: that a sleeper will be woken is stated
as the invariant that there is somebody left to wake it (`NoStuckWaiter`, `NobodyLeftBehind`, `TokenKept`). Its operators take
and return the kernel's state as a record, so that a caller's action can make several calls in the order
of the code. PIDs stand in the lines, not processes: who has the PID when it is served is woken.

### Processes

`ProcessTable` keeps `process_table` (PID to PCB) apart from `proc` (the PCBs, by address); both PIDs and
addresses are used again. `create_process` is six steps: PID and memory, the entry in the parent's list, the
failures with what they undo, the entry in the table and the `wait_<pid>` semaphore, `add_to_scheduler`, and
the reaping at its end. `wait_child`, `process_terminator` and `kill_process` are split where interrupts are
on. init is an ordinary process that loops over `init_process` and `create_shell`; its creation may fail at once
for want of memory or of a PID (`init_process_fail`). `disowned` and `reused` are histories, for the properties.

The kernel relies on rules of use that it does not enforce: creations do not overlap, nobody kills or blocks a
process that is being created, nobody blocks a process inside the kernel, a process somebody waits for is killed
only by Ctrl+C, and the memory of a process that has ended before the call that created it returned is not given
out again before that call has returned (`sys_create_process` reads the PID from it). No action of the model
forbids what the code allows. A step that breaks a rule is taken and sets the history `reckless` (`Rule`), and the
properties say what holds until then; `Reckless` only says whether TLC follows the behaviour beyond that step. With
`Reckless = TRUE` and the disjunct `reckless` left out of the properties, TLC finds each of them violated within 20
steps: two processes with one PID, an orphan of a reused PCB, a waiter nobody posts for. The loops over the table
and over a list of children run with interrupts on in the code and are one step each here, and so are the
consecutive `semOpen`, `semPost` and `semClose` of `process_terminator`.

### Pipes, keyboard, pipelines

`Pipe` and `Keyboard` are operators on the kernel's state; `Pipeline` composes them with the shell, a
left command (`cat` from the keyboard, or `echo`), a right command (`filter` or `wc`) and a user who types.
A call that never sleeps is a system call with interrupts off and one step. A call that slept runs on with
interrupts on: its parts (`readPipe_take` and `readPipe_post`, `writePipe_put` and `writePipe_post`) are
separate steps then. The exit of a command is `detach`, `wake`, `closePipe` in two parts, and the post of its
`wait_<pid>`; a kill takes the same way. The second part of `closePipe` goes on with the pointer of the first: if
the pipe has been deleted in between, the kernel panics (`closePipe_panics`, `panicked`) and nothing moves any more.
The shell's `closePipe` is a system call, so it can be interrupted between the parts only if its posts wake
somebody. Ctrl+C hits the process that runs when the key is pressed, if it is
in the foreground, which is why it finds the right command awake. A behaviour runs one command line; the next
one would find the same kernel with other identifiers (`pipe.c` 60), unless the line left a keyboard's ring that
is `broken` or a process that never ends.

Four histories mark what the code does not protect against, and the properties say so: `broken` (the ring of
the keyboard was lost: it was full, its indices wrapped, or a backspace came between the reader's check and
its read), `stray` (a post woke the other side into an empty or a full pipe), `late` (the left command ended
before the right one was attached) and `killed` (Ctrl+C). After a stray post the code does lose bytes and does
take an empty pipe for the end; `PipeDelivers` is a statement about everything before it.

### MVar

Writers put a letter, readers get one, through one byte of the kernel and the semaphores "empty" and "full".
The put and the get are separate system calls between the wait and the post, and the reader clears the byte
in one more (`mvarGet_clear`). `unread` is the history of letters put and not yet got. The random delays
are the state "delay". Error paths of `mvarInit` close what was opened and end; they change nothing. One run of the command is modelled; a second one at the same time would reset the
byte under the first.

### Memory managers

`MemoryManager` is the interface: a set of disjoint blocks inside a region. `FirstFit` counts addresses in
headers (`UNIT_SIZE`), so `p + size[p]` is C's pointer arithmetic on `Header *`. `Buddy` counts in
`MIN_BLOCK_SIZE`. Every turn of first fit's two search loops, and of the buddy system's merging loop, is a
step. Both model calls that do not overlap, which is the case for system calls; that kernel code calls
the allocator with interrupts on is a listed hazard. Rounding a request is computed modulo
`SizeMax + 1`, as in a `size_t`.

### The parts without shared state

* `Containers` has the nodes of the queue and the block of the array, and beside them, as histories, the
  sequences they stand for. `ContainersAgree` is what lets `Scheduler` and `SemTable` use sequences.
* `Shell` takes a line for a sequence of words; two blanks make an empty word, as `strtok` does here.
* `Traps` has the registers, the interrupt flag and a stack of words for each process. `due` is the history of
  contexts a process must get back. All call numbers and arities are compared, stub against dispatcher.
  The CPU's part (`Interrupt`, `iretq`) and the command's own computation are external.
* `Screen` has the position; a glyph is drawn where it is put and must fit there. An operation is a list of steps
  (`todo`), because scrolling turns interrupts on before the position is moved back (`video.c` 151, `fonts.c` 114):
  `behind` is that moment, and from it to the end of the write another process may draw (`overlap`). The colours
  are left out.
* `CLibrary` has functions only, over characters and small words: `int` has `INT_BITS` bits and `long` twice
  as many, so overflow is part of it. The functions are recursive and the module is for TLC alone.

## 3. Runs

| Run | Instance | Result |
|---|---|---|
| `scheduler` | idle, init, two processes; levels 0 and 1; threshold 2; quantum 1 | holds, 449 000 states |
| `scheduler_nice` | idle, init, one process; three levels; threshold 2; quantum 2; at most three entries per queue | `ReadyIsReachable` holds, 4 014 000 states |
| `scheduler_hang` | as `scheduler`, with `SpecNice` | **violation** of `ScheduleReturns` |
| `services` | one part per behaviour: three processes on a mutex, one of them with interrupts on, two rounds; first fit with 8 units of 2 bytes, `size_t` up to 7; buddy with orders 0 to 4 and a region of 9 minimal blocks | holds, 296 000 states |
| `sem_wakeup` | all three with interrupts on | **violation** of `WaitersAreWoken` |
| `sem_finish` | system calls only, with fairness | **violation** of `AllFinish` |
| `processes` | five PCBs, five PIDs, two children per process, four creations | holds, 1 134 000 states |
| `watchdog` | the same with five creations | **violation** of `Watchdog` |
| `pipeline` | a pipe and a keyboard ring of three bytes; lines `cat` or `echo`, then `filter` or `wc`; three key presses | holds, 272 000 states |
| `pipeline_late` | the same, the only key is Ctrl+D | **violation** of `ReadersFinish` |
| `pipeline_panic` | the same | **violation** of `ClosePipeSucceeds` |
| `userland` | see below; one part per behaviour | holds, 596 000 states |

What the properties say:

* **scheduler.** `QueueDiscipline`: the ready queues hold exactly the READY processes, each once and at its own
  priority, or a stale test of `unblock_process` has met a process that was woken or killed since (`raced`).
  `CpuOwnership`, `WaitTicksOnlyWhileReady`, `DispatchesHighest`, `NoOvertaking` and `MainNeverResumes` say who may
  run; `NoStarvation` and `ScheduleReturns` are the liveness of aging and of `schedule()`, up to `raced` as well.
* **services.** The mutex has one token (`TokenConserved`) and protects `test_sync`'s counter (`NoLostUpdate`); no
  system-call waiter sleeps through its wake-up (`NoLostWakeup`); calls look atomic and first come, first
  served (`ImplementsFairSemaphore`). Both allocators implement `MemoryManager`, lose nothing (`NoUnitLost`,
  `Partition`) and merge all neighbours (`Coalesced`, `FullyMerged`); first fit gives blocks of sufficient size, counts
  right, fails only when it must, and its searches end.
* **processes**, each until a rule of use is broken. `TableSound`: whom the scheduler knows, his PID finds; no two share a PID; the table never
  leads to freed memory. `OrphansAdopted` (README 148). `NoStuckWaiter`: whoever sleeps in `wait_child` stands in
  the line of a process that has yet to post. `WaitsForExit` (README 166): a wait ends only when the child has,
  for PIDs used the first time; for a reused PID a left-over token of `wait_<pid>` ends it early.
* **pipeline.** `KeyboardDelivers`: what was typed and not erased reaches the reader once and in order.
  `PipeDelivers`: the bytes written are the bytes received and those still in the ring, and a right command that
  ends by itself has received everything written, after the left one stopped, and `filter` has printed it
  without the vowels - so it never mistakes an empty pipe for the end. `NobodyLeftBehind`: whoever sleeps in the
  pipe, or in the shell's `waitPid`, has somebody left to wake it who is not asleep there too.
* **userland.** `EachLetterOnce`; `TokenKept`: the semaphores' token is in a value or with one process that is awake or
  on its way, never lost, so that writers and readers cannot all sleep (`Mvar`); `LinesAreUnderstood`, `ArgumentsAreFreed` (`Shell`);
  `ContainersAgree`; `TextIsExact`: numbers printed by either library are read back by every parser,
  comparisons decide equality and order, no two PIDs share a semaphore's name, coloured text comes out whole and
  in its colours, `memcpy` copies at any alignment, a packed image is unpacked whole although bss is
  cleared over it afterwards; `TrapsAreTransparent`: an interrupted program gets back its registers, place and
  flag whatever nests, each system call reaches its handler with its arguments, a command starts with its
  `argc` and `argv`, and the register snapshot shows the interrupted program; `CursorOnScreen`: every glyph is drawn
  inside the window, until a size is changed where the position does not allow it (`resized`) or another process draws in
  the middle of a write that has scrolled (`overlapped`).

Why the bounds are enough to be interesting:

* Two ordinary processes beside init give a level with several waiting processes, a process that ages past
  another, a blocked one woken while a third runs; a threshold of 2 distinguishes counting from
  raising; quantum 1 is the shipped value, quantum 2 exercises `KeepRunning`. `QueueBound` caps the stale
  entries that `set_priority` can pile up (each renice, block and unblock can add one).
* Three processes on one semaphore give two waiters in line while the third holds the token, and two
  rounds let a process overtake one that missed its turn.
* Five PCBs and four creations give a shell with two children, a third child that is not recorded, a
  shell that ends and comes back with the PID and the memory of another, and a memory that is full. `watchdog`
  needs the fifth creation: a process that gets the memory of the shell, and one more that could be a shell.
* A pipe of three bytes holds two: `echo` prints four, so the writer sleeps and the ring wraps. The
  keyboard's ring wraps within three keys, one of them a tabulator of up to two blanks.
* Three writers and two readers of an MVar give lines of two on either side.
* Lines of up to five words from an alphabet with the empty word, `|`, `&`, a built-in, a command and
  an unknown word, an `argv` of four and an array that grows by two reach every path of the parser, the
  array's growth and its failure included; two lines in a row show what the first leaves behind.
* Three nodes and two elements give queues with duplicates, removals at both ends and in the middle, and
  an exhausted memory.
* Two processes beside idle and four saved contexts give an interrupt inside a handler inside a system call
  with a switch in between. All 47 calls are made by the first process; once the second has started, only
  `sys_create_process`, which uses all six argument registers, goes on (`SomeCalls`).
* A window of 13 by 16 with glyphs of 2, 4 and 6 pixels is no multiple of any of them, so lines wrap with
  a rest; four lines of the middle size make the screen scroll.
* 8-bit `int` and 16-bit `long` let every `int` be tried in every base.
* Eight units hold up to four blocks of two units and all patterns of free and used neighbours, with
  `freep` anywhere; a `size_t` of 0..7 makes the rounding overflow for the largest request.
* Nine minimal blocks are not a power of two, so part of the region is unmanaged and the top order is
  below `MaxOrder`, as on a real machine.

Deadlock is not checked in runs whose counters are bounded (creations, keys, lines, rounds): the model then
stops where the program would go on, or the program itself may stop.

Fairness. `Scheduler`: the timer keeps interrupting and the CPU keeps executing `schedule()`; processes
themselves are under no obligation. `FirstFit`: a call that has begun goes on. `SemMutex!FairSpec`: the CPU
executes and no READY process is passed over for ever; the latter is what `NoStarvation` shows of the
scheduler. `ProcessTable`: init keeps running, and a process inside a kernel routine gets on with it; programs
need not do anything. `Pipeline`: shell, left and right command each keep running (weak fairness, which a
sleeping process does not claim); the user need not type. The last two are used by the runs `watchdog` and
`pipeline_late` only, which find violations although everybody keeps running. `Mvar` assumes none.

`NoStarvation` needs the shipped quantum of one tick. With a larger one, a process that calls
`set_priority` on itself at every tick refreshes its quantum and never gives up the CPU.

## 4. What the violations show

* **`scheduler_hang`.** A READY process is reniced (its queue entry stays where it was) and then
  blocked (`block_process` looks in the queue of the new priority). Its stale entry is alone in a queue, and
  `apply_aging`'s `continue` for entries that are not READY skips the test that ends the loop: the kernel
  loops with interrupts off.
* **`sem_wakeup`.** With interrupts on, a waiter can be preempted between joining the queue and
  blocking. The post in between finds it not BLOCKED and wakes nobody; the waiter then blocks for ever.
  System-call waiters cannot lose a wake-up this way: `NoLostWakeup` in `services`.
* **`sem_finish`.** `unblock_process` turns interrupts on while `semPost` holds the semaphore's lock.
  The timer may then run a process whose system call spins on the lock with interrupts off.
* **`watchdog`.** README 145 says that init brings the shell back whenever it ends. `create_shell` stores the
  shell's PCB after `create_process` has let the shell run. A shell that ends first is not found in `shell_proc` by
  `process_terminator` (`process.c` 596); `shell_proc` then points at freed memory, which the next process is
  given. While that process lives, init reads a living state and makes no shell.
* **`pipeline_panic`.** `closePipe` panics if `deletePipe` does not find the pipe (`pipe.c` 251). The left
  command, preempted in `closePipe` between the posts and the test at 249, goes on with its pointer after the right
  command's `detachReader` has deleted the pipe: `attached` still reads 0, `deletePipe` fails, the kernel stops.
* **`pipeline_late`.** README 157 says that pipes let readers finish when the writer ends. A left command
  that ends before the shell has created the right one finds `attached == 0` in `closePipe` and deletes the
  pipe, although a reader is expected. The right command's attach fails unnoticed, its reads return -1, and
  `getchar` tries again for ever; the shell waits for it.

Other places where code and comment or help disagree, met while modelling: `reset_aging`'s comment says that it
restores the priority, which nothing does (`scheduler.c` 117); the help of `mvar` says
`mvar <writers> <readers>` while `_mvar` takes the readers first (`shell.c` 89, `mvar.c` 142); `wc`'s comment
speaks of a partial last line, which the code counts only if there was no complete one (`wc.c` 22); for that
reason no property says what `wc` should print.

Two places where the code relies on luck, met while proving: `create_process` lets the child run before it
returns, and its callers read the PID from the PCB afterwards (`process.c` 270, `syscallDispatcher.c` 331), which
the child's end may have freed and another creation filled again; and no line of `create_process` sets
`child_count` (`process.c` 183 counts on), so the model's 0 is what fresh memory holds.

## 5. Proofs

### Scheduler

For every set of processes, number of levels, `AgingBoost`, `AgingThreshold` and `DefaultQuantum` (all
positive, `ProcAssumption` and `LimitAssumption`), `SchedulerProofs` proves of `Spec`: `SchedulerTypes`,
`QueuesAreDisciplined`, `OneOwnerOfTheCpu`, `WaitingTimeRestarts`, `SchedulePicksHighest` and `MainIsNeverResumed`.

`QueuesAreDisciplined` has the window of `unblock_process` in it: the discipline is kept by every step that a stale test
allows, except the one that sets `raced`.

The inductive invariant is the conjunction of the type invariant, the queue discipline, the
ownership of the CPU and the rule on waiting time. None of these is inductive alone. That dispatching keeps
the queues right needs to know that the running process is not READY in a queue already (ownership),
ownership needs to know that only READY processes are queued (discipline), and the type of `wait_ticks`
(below the threshold) is what makes the raise happen in time. The lemmas on sequences (`CutAtProperties`,
`EnqueueProperties`, `FirstMatchProperties`) feed three lemmas about a discipline stated over arbitrary
tables: adding a READY process, removing one, and dropping a prefix while dispatching keep it. Each action
has one lemma. `SchedulePicksHighest` uses that every READY process stands in the queue of its priority,
so the search from the top cannot miss it. `MainIsNeverResumed` adds to the invariant that init is created
first and stays READY or RUNNING (`InitFirst`); the search for a READY process then always finds somebody.

`NobodyIsOvertaken` is the action property `NoOvertaking`: for each action, whoever of a queue is still in it
afterwards stands in the same order, and a newcomer behind them. `NobodyIsForgotten` is about `SpecNice`, where
the discipline of the queues does not hold: `ReadyIsReachable` needs only that everybody READY stands in some
queue (`NiceInv`), and each action either leaves the queues of a READY process alone or puts it into one.

### Semaphores

For every finite set of processes, every choice of those that call with interrupts on, every increment and
number of rounds (`ConstantAssumption`, `ClientAssumption`), `SemMutexProofs` proves of `SemMutex!Spec`:
`TheTokenIsConserved`, `MutualExclusion`, `NoWakeupIsLost`, `NoUpdateIsLost`, and `SemaphoreIsFair`, the
refinement of `FairSemaphore`. Finiteness is needed only for the sum in `NoLostUpdate`.

The invariant has to follow a call through its unlocked stretches. From `semLock` to `semUnlock` one process has
the lock (`Locked`), so a decision and what follows from it are not disturbed. The line holds processes that are
on their way to sleep or asleep, each once (`Waiting`); a waiter out of the line has been handed the token, and
that is what makes `Token` (exactly one, in the value or with one process) inductive: between the post that takes
a process out of the line and that process's return there is no other trace of it. `Undisturbed` says that a
system call keeps the CPU until it turns interrupts on, so it is asleep before any post can look at it; it is the
part that processes calling with interrupts on do not have, which is why `Woken` and `NoLostWakeup` leave them
out and `sem_wakeup` finds the violation. For the refinement each action is shown to be one abstract step
(the decision of a wait or a post) or a stutter.

### Process table

For every finite set of PCBs, number of PIDs, length of the list of children and number of creations
(`TableAssumption`), `ProcessTableProofs` proves `TableIsSound`, `OrphansAreAdopted`, `WaitsLastAsLongAsTheChild` and
`NobodyIsStuck`. Nothing is assumed about the steps taken, or about `Reckless`: the statements are those of the run,
which hold until the history `reckless` says that a rule of use was broken, and a step that breaks one is shown to set it. The last one has one more hypothesis,
`CountersFit`: no semaphore's value reaches 65535, since the 65536th post would wrap it (`sem.c` 181).

* `IInv`: a slot leads to the process with its PID (`Slots`), the scheduler knows only live ones that are in the
  table (`Known`), what is being created belongs to its creator alone until it is in the table (`Held`), and who is
  about to be freed is in the table and nobody creates it (`Killed`).
* `Family`: everybody who was linked and not dropped by a parent is answered for by init or by a parent
  that lists it and has not begun to end. The intermediate states of a creation and of an exit are part of it: a
  parent may be killed while it creates.
* `WInv`: `wait_<pid>` is never closed under those who wait (`Opened`, by counting users against waiters); who
  sleeps is in line (`Lined`); a PID used for the first time stands in one line once (`Fresh`), and its own
  semaphore has no token before its post (`First`), so whoever was awakened was awakened by it (`Ended`).
* `Enough`: on each semaphore the tokens and the post still due are enough for those in line and those who may
  still come. Reused PIDs leave tokens and entries behind, and this is what survives of the exact count.

For `WInv` and `Enough` all actions are first sorted by what they do to the semaphores (`Views`: nothing, one
post, an insertion, a wait); each of the four kinds then has one lemma.

### First fit

For every heap size, unit size and width of `size_t` (`HeapAssumption`), `FirstFitProofs` proves of
`Spec`: `FirstFitTypes`, `NothingIsLost`, `StaysCoalesced`, `BlocksAreLargeEnough`, `SearchIsExhaustive`, and
`FirstFitImplements`, the refinement of `MemoryManager`.

The invariant `IInv` says where headers are (`Headers`), that blocks do not overlap (`Apart`), that the list is
a ring in address order (`Ring`), that the loops stay on it (`OnList`), that no two free blocks touch
(`Merged`), that the blocks cover the region (`Covered`, also in the middle of `mm_free`, where the block
freed is on no list), and that the nodes a search has passed are too small (`SeenAreSmall`, with "passed"
expressed by addresses, across the wrap of the ring). `InsertFacts` is the heart: at the insertion point
found by the loop, the freed block lies between p and its successor, so that merging swallows exactly
the neighbours.

`StatisticsAreExact` is that `free_mem_size` is the sum of the free blocks' sizes between calls. In the middle of
`mm_free` the sum already has the block that is on no list yet (`Counted`). Each action changes the summed
function at one or two places, and `SumChanges` of `Arithmetic` says what that does to the sum.

### Buddy

For every size of the region, number of orders, size of a block and of its metadata (`BuddyAssumption`),
`BuddyProofs` proves of `Spec`: `BlocksPartitionTheRegion`, `MergingIsComplete` and `BuddyIsAMemoryManager`, the
refinement of `MemoryManager`.

The invariant says that a block of order k starts at a multiple of its size and lies in the region (`Placed`),
that blocks do not overlap (`Disjoint`) and are on one list or in use, not both (`Exclusive`, `Once`), that they
cover the region (`Cover`; the block that is being merged counts, though it is on no list), and that no two
buddies are both on a list (`Merged`). Alignment is the arithmetic part: the buddy of an aligned block is
the other half of an aligned block of the next order (`BuddyPair`), so that the XOR of the merging loop
(`buddy_system_mm.c` 96) never leads outside it.

### MVar

For every number of writers and readers (positive, `MvarAssumption`), `UserlandProofs` proves `MvarInvariant`
and from it `LettersAreGotOnce`, which is the action property `EachLetterOnce`, and `TokenIsKept`.

`EachLetterOnce` alone says nothing about semaphores, and needs all of this: there is at most one token
among the two values and the processes that have passed their wait and not yet posted (`OneToken`); a process
woken from a line counts as holding it, so the lines must hold sleeping processes only, writers in "empty"
and readers in "full", each once (`Lines`); nobody acts before it is created or before `mvarInit` has opened
the semaphores (`Created`); and the byte holds the one unread letter exactly while the token is on the
readers' side (`Slot`). The lemmas `WaitEffect` and `PostEffect` say once what a wait and a
post do to line, value and holder; each action's lemma follows from them. `TokenIsKept` needs the other
direction of `OneToken`, that there is one, and that a value of 1 leaves nobody in line.

### Pipeline

For every size of the pipe and of the keyboard's ring, every text of `echo`, every set of keys and number of key
presses (`PipeAssumption`, `KeyboardAssumption`, `PipelineAssumption`), `PipelineProofs` proves `PipelineInvariant`,
and from it `KeyboardIsDelivered` and `PipeIsDelivered`. `TAB_SIZE < BUFFER_SIZE` is assumed (4 and 1024 in the
code), since a tabulator that fills the ring would pass the reader without being noticed.

`PipeDelivers` speaks of bytes only; that it is kept depends on who sleeps where. The invariant `Inv` is:

* `Types`, `Ordered` (the shell creates the pipe, the left command, the right command, in this order), and
  `Counted`: the pipe's counts of readers and writers are those of the processes attached, and it exists while there is
  a writer.
* `Opened` and `Lines`: the pipe's semaphores are open exactly while it is, and whoever stands in a line is asleep
  in the call that the line belongs to, and stands there once: the reader in `canRead`, the left command in `canWrite`
  or the keyboard's, the shell in those of its waits.
* `Woken`: as long as the left command writes, the pipe's two semaphores have no token left over; a
  waiting flag that is set means that its owner is in line; and the reader, once awake, finds a byte, the writer, once
  awake, a place. This is what makes the missing second look of `readPipe` and `writePipe` harmless, and it is
  exactly what a stray post breaks, so it is stated for `~stray`.
* `Printing`, `Ended`, `AllRead`: what `filter` has printed is what it makes of the bytes received, and the right
  command ends only when the left command has stopped writing and the ring is empty.
* `Delivered`, `Typed`: the ring's contents are what was put in and not taken out, of the pipe and of the keyboard.

The two rings are the same structure; the lemmas at the head of the module say once, for a ring of any size,
what putting, taking and erasing do to the sequence it holds, across the wrap of the indices. Each of the calls of
`Pipe`, `Keyboard` and `SemTable` has one lemma, each step of a process another. The tabulator's blanks and the posts of
`closePipe` are loops, done by induction on the number of turns.

### Console

`CursorStaysOnScreen` holds for every window, glyph, tabulator and largest size with at least one glyph per line
and two lines (`ScreenAssumption`; the largest size is at least 2, 10 in the code, because the console starts with
size 2). The invariant (`ScreenInv`) says more than the property: x is a multiple of the current cell, so that going
back by a cell never passes 0, and the whole line, with the tallest glyph on it, is in the window; between the
scrolling of the picture and that of the position (`behind`) this holds of the position as it is about to be. It is
kept by each step of an operation, whatever steps are still to come. A size changed in the middle of a line breaks the
first part (`resized`), a drawing by somebody else in the middle of an operation both (`overlapped`), which is why the
property excludes them.

### Containers

`ContainersAreSequences` holds for any set of nodes and elements and any size of the array's block. The invariant of the
queue is that there is a sequence of nodes, `Chain(ns)`: linked by `next` from `head` to `tail`, without repetition, the free
nodes being all the others, holding the elements in order, with the cyclic iterator on one of them or nowhere.
`queueRemove`, whose search runs down the list, takes the first node that holds the element out of this sequence
wherever it stands, at the head, at the tail, in the middle, or under the iterator. `QueueIsSequence` follows
the pointers with a recursive function; that it reads off the sequence is an induction on the position.

### Shell

For any commands and words, any size of `argv` above 2 and any step of the array's growth (`ShellAssumption`;
no command is called `|`):

* `ShellFreesArguments`. `Freed` says that there are as many strings allocated as the commands parsed so far have arguments
  and as were leaked, and that the array has room wherever a command is about to be stored.
* `ShellUnderstandsLines`. `Understood` adds, in the middle of a line, that the words of the commands parsed so far, put
  back together, are the line up to the place the parser has reached (`Reading`), which lies just behind a `|`;
  that there is one `|` fewer than commands (`Tally`); and at the end that the whole line was read
  (`AllRead`) and run as it should be (`Fitting`), or ignored (`Ignored`). A well-formed line has no command with too
  many arguments, so `parse_command` does not fail on it unless memory does.

### Traps

`TrapsDisturbNoProgram` holds for any number of processes and any depth of nesting (`TrapsAssumption`). The property
compares contexts when they are restored; the invariant says where they are in the meantime, word by word. The
stack of a process is the program's own words, then one frame of 21 words for each interrupt or call that it
is inside of: the CPU's five words, the fifteen registers of `pushState`, and one more, the flags pushed before them
by `_irq01Handler` (`KeyFrame`) or the call number pushed after them by `_irq80Handler` (`CallFrame`). `due` lists the contexts in these frames, and for
each of them, at its depth, the words on the stack are that context's registers, place and flag. For the process on the CPU
this is `OnCpu`; every other process is `Parked`: it has one more frame of 20 words on top, the timer's, which has no extra word. `_irq00Handler` then parks one process and
unparks another, both by lemmas about a single stack, and a process that has never run is parked by
`stackInit`. That every stub's number leads to the handler of its name and arity is part of the proof of a call.

### Arithmetic

Induction is stated over sets of numbers (`SetInduction`, from the well-foundedness of `Nat`), since the provers
cannot instantiate a theorem whose parameter is a predicate. From it come what `SumFunction` gives when a function
changes at one place, that powers of two grow, that a function defined by recursion on `Nat` exists
(`NatRecursion`; the loops that the models write as recursive functions are unfolded with it), and
the facts on quotients and remainders that the provers do not find (`DivFacts`).

### Left to TLC

Liveness (`NoStarvation`, `ScheduleReturns`, `CallsReturn`; `AllFinish`, `WaitersAreWoken`, `Watchdog` and
`ReadersFinish`, which are violated): fairness and ENABLED are out of the prover's reach. `TextIsExact` is about
recursive operators on strings, for which the prover has no induction and loses its SMT backend. `NobodyLeftBehind`
is checked by TLC only; what a proof would rest on, `Lines` and `Woken`, is part of `PipelineInvariant`.

## 6. Not modelled

* Video (pixels), sound, the blinking cursor of `cursor.c`, the real-time clock, exception screens and the
  loading of the IDT: output, or tables written once. That scrolling enables interrupts is in `Traps` and `Screen`.
* Pure64 and BMFS: third party. `list.c`, `vscanf`, `toggleCursor`, `wait_all_children`: nothing calls them.
* `rand` and `GetUint`: products of 32-bit words exceed TLC's integers.
* The shell's history of lines and registered keys, the table of scan codes and the modifier keys: data
  without a protocol. `sys_exec`, `set_read_target` and `set_write_target`: no command uses them.
* Two overlapping calls of an allocator, two readers of the keyboard at once, two runs of `mvar` at once, a
  static buffer of the C library shared by processes: the code has no protection to verify; they are
  listed as hazards.
* The check of the saved stack pointer in `schedule()`: the stacks of `Traps` never fail it, and
  `Scheduler` has none.
* Colours of the console: `printToFd` sets them by descriptor and `setANSIProp` sets any of them on any descriptor, so
  there is no rule to state. `printToFd`'s branch for descriptor 0 is never reached: `fd.c` 64-65 passes 1 or 2.
* Queue nodes that cannot be allocated inside `semWait` (it returns -1 without waiting) and in the scheduler
  (the level's queue is lost): listed as a hazard; `Containers` has the failing allocation itself.
* Lengths of words: `strcpy` of a long first word into 256 bytes (`shell.c` 120, 232), listed as a hazard.
* Identifiers of pipes only grow, so that `openPipe` fails for good after `MAX_PIPES - 2` pipelines (`pipe.c` 60), and
  the 65536th post without a wait wraps a semaphore's value (`sem.c` 181): bounds that one command line does not
  reach.
* Size overflow in `buddy_system_mm.c` (45, 52).
