------------------------------- MODULE Traps -------------------------------
(***************************************************************************)
(* The machine-level seam of the system: the interrupt entries             *)
(* (Kernel/asm/interrupts.asm), the first stack of a process               *)
(* (libasm.asm), the entry points of the commands (entry_points.asm) and   *)
(* the way of a system call from libsys.c through libsys.asm to            *)
(* syscallDispatcher.c and back.  Everything runs in one address space, on *)
(* one CPU, and each process has one stack for its program and the kernel. *)
(* A word is a number; a stack is a sequence whose last word is on top,    *)
(* and rsp is its length.                                                  *)
(***************************************************************************)
EXTENDS Naturals, Sequences, SequencesExt, FiniteSetsExt

CONSTANTS NumProc,    \* processes made by stackInit; 0 is idle, which runs main
          MaxNested,  \* bound on the contexts saved, over all processes
          SomeCalls   \* bound: the calls that are interrupted, and that are made
                      \* after a second process has started
ASSUME TrapsAssumption == {NumProc, MaxNested} \subseteq Nat \ {0}

TrapProc == 0..NumProc

\* The words: code addresses, and values that belong to one process.
Own(p, k) == 100 * (p + 1) + k
MAIN == 10
_process_wrapper == 11
WRAPPER_RET == 12
ENTRY_RET == 13
COMMAND == 14
STUB_RET == 15
process_terminator == 16
KERNEL80 == 17
KERNEL01 == 18
entry_point(p) == Own(p, 1)
argc(p) == Own(p, 2)
argv(p) == Own(p, 3)
Junk(p) == Own(p, 4)           \* what C code leaves in its registers
Result(p) == Own(p, 5)         \* what a handler returns
Argument(p, i) == Own(p, 10 + i)
Flags(enabled) == IF enabled THEN 514 ELSE 2

\* The order of pushState, and of the pops of popState.  (Mutant: two are swapped.)
PushOrder == <<"rax", "rbx", "rcx", "rdx", "rbp", "rdi", "rsi", "r8", "r9", "r10",
               "r11", "r12", "r13", "r14", "r15">>
BadPopOrder == <<"r15", "r14", "r13", "r12", "r11", "r10", "r9", "r8", "rdi", "rsi",
                 "rbp", "rdx", "rcx", "rbx", "rax">>
PopOrder == <<"r15", "r14", "r13", "r12", "r11", "r10", "r9", "r8", "rsi", "rdi",
              "rbp", "rdx", "rcx", "rbx", "rax">>
Reg == Range(PushOrder)
CallerSaved == {"rax", "rcx", "rdx", "rdi", "rsi", "r8", "r9", "r10", "r11"}
ArgRegs == <<"rdi", "rsi", "rdx", "rcx", "r8", "r9">>

\* The numbers in libsys.asm and in the stubs of sys_read and sys_write.  Stubs that
\* no program calls are left out.
Stub == {
    <<"sys_read", 3>>, <<"sys_write", 4>>, <<"sys_start_beep", 10>>, <<"sys_stop_beep", 11>>,
    <<"sys_fonts_text_color", 12>>, <<"sys_fonts_background_color", 13>>,
    <<"sys_fonts_decrease_size", 14>>, <<"sys_fonts_increase_size", 15>>,
    <<"sys_fonts_set_size", 16>>, <<"sys_clear_screen", 17>>, <<"sys_hour", 19>>,
    <<"sys_minute", 20>>, <<"sys_second", 21>>, <<"sys_circle", 22>>, <<"sys_rectangle", 23>>,
    <<"sys_fill_video_memory", 24>>, <<"sys_exec", 25>>, <<"sys_register_key", 26>>,
    <<"sys_window_width", 27>>, <<"sys_window_height", 28>>, <<"sys_sleep_milis", 29>>,
    <<"sys_get_register_snapshot", 30>>, <<"sys_get_character_without_display", 31>>,
    <<"sys_malloc", 32>>, <<"sys_free", 33>>, <<"sys_get_memory_stats", 34>>,
    <<"sys_create_process", 35>>, <<"sys_get_pid", 36>>, <<"sys_kill", 37>>,
    <<"sys_modify_priority", 38>>, <<"sys_ps", 39>>, <<"sys_block_process", 40>>,
    <<"sys_yield", 41>>, <<"sys_wait_pid", 42>>, <<"sys_wait_for_children", 43>>,
    <<"sys_pipe_open", 45>>, <<"sys_pipe_close", 47>>, <<"sys_set_read_target", 48>>,
    <<"sys_set_write_target", 49>>, <<"sys_sem_open", 50>>, <<"sys_sem_close", 51>>,
    <<"sys_sem_wait", 52>>, <<"sys_sem_post", 53>>, <<"sys_shutdown", 54>>,
    <<"sys_unblock_process", 55>>, <<"sys_set_mvar_value", 56>>, <<"sys_get_mvar_value", 57>>}

\* How many arguments the wrappers of libsys.c pass.
Arity(call) ==
    CASE call = "sys_create_process" -> 6
      [] call = "sys_rectangle" -> 5
      [] call = "sys_circle" -> 4
      [] call \in {"sys_read", "sys_write", "sys_get_memory_stats"} -> 3
      [] call \in {"sys_register_key", "sys_modify_priority", "sys_sem_open"} -> 2
      [] call \in {"sys_stop_beep", "sys_fonts_decrease_size", "sys_fonts_increase_size",
                   "sys_clear_screen", "sys_window_width", "sys_window_height",
                   "sys_get_character_without_display", "sys_get_pid", "sys_yield",
                   "sys_wait_for_children", "sys_pipe_open", "sys_shutdown",
                   "sys_get_mvar_value"} -> 0
      [] OTHER -> 1

\* The handlers of syscallDispatcher's switch, from case 10 on, and the number of
\* registers each is given.
Handlers == <<
    <<"sys_start_beep", 1>>, <<"sys_stop_beep", 0>>, <<"sys_fonts_text_color", 1>>,
    <<"sys_fonts_background_color", 1>>, <<"sys_fonts_decrease_size", 0>>,
    <<"sys_fonts_increase_size", 0>>, <<"sys_fonts_set_size", 1>>, <<"sys_clear_screen", 0>>,
    <<"sys_clear_input_buffer", 0>>, <<"sys_hour", 1>>, <<"sys_minute", 1>>, <<"sys_second", 1>>,
    <<"sys_circle", 4>>, <<"sys_rectangle", 5>>, <<"sys_fill_video_memory", 1>>, <<"sys_exec", 1>>,
    <<"sys_register_key", 2>>, <<"sys_window_width", 0>>, <<"sys_window_height", 0>>,
    <<"sys_sleep_milis", 1>>, <<"sys_get_register_snapshot", 1>>,
    <<"sys_get_character_without_display", 0>>, <<"sys_malloc", 1>>, <<"sys_free", 1>>,
    <<"sys_get_memory_stats", 3>>, <<"sys_create_process", 6>>, <<"sys_get_pid", 0>>,
    <<"sys_kill", 1>>, <<"sys_modify_priority", 2>>, <<"sys_ps", 1>>, <<"sys_block_process", 1>>,
    <<"sys_yield", 0>>, <<"sys_wait_pid", 1>>, <<"sys_wait_for_children", 0>>, <<"none", 0>>,
    <<"sys_pipe_open", 0>>, <<"none", 0>>, <<"sys_pipe_close", 1>>, <<"sys_set_read_target", 1>>,
    <<"sys_set_write_target", 1>>, <<"sys_sem_open", 2>>, <<"sys_sem_close", 1>>,
    <<"sys_sem_wait", 1>>, <<"sys_sem_post", 1>>, <<"sys_shutdown", 0>>,
    <<"sys_unblock_process", 1>>, <<"sys_set_mvar_value", 1>>, <<"sys_get_mvar_value", 0>> >>
syscallDispatcher(number) ==
    CASE number = 3 -> <<"sys_read", 3>>
      [] number = 4 -> <<"sys_write", 3>>
      [] number \in 10..57 -> Handlers[number - 9]
      [] OTHER -> <<"none", 0>>

VARIABLES
    regs, rip, enabled,  \* the CPU: registers, where it is, the interrupt flag
    running,             \* whose stack it is on
    stacks,              \* each process's stack, as far as its rsp
    ended,               \* processes that have terminated
    register_snapshot_taken, \* the snapshot key was pressed
    call,                \* each process's system call
    \* history:
    due,                 \* the contexts a process must get back, the last on top
    intact,              \* every context given back was the one that was due
    pictured,            \* every snapshot showed the registers interrupted
    started              \* what the command's function was called with

trapVars == <<regs, rip, enabled, running, stacks, ended, register_snapshot_taken, call,
              due, intact, pictured, started>>

Context(r, ip, on) == [regs |-> r, rip |-> ip, enabled |-> on]
Zeros == [r \in Reg |-> 0]
NoCall == [name |-> "none", handler |-> "none", args |-> <<>>, got |-> <<>>]

\* An interrupt pushes SS, RSP, RFLAGS, CS and RIP, and disables interrupts; iretq
\* takes them back.
Interrupt(stk, ip, on) == stk \o <<0, Len(stk), Flags(on), 8, ip>>
pushState(stk, r) == stk \o [i \in 1..15 |-> r[PushOrder[i]]]
popState(stk) == [r \in Reg |-> stk[Len(stk) + 1 - (CHOOSE i \in 1..15 : PopOrder[i] = r)]]
Popped(stk) == SubSeq(stk, 1, Len(stk) - 15)
iretq(stk, r) ==
    /\ regs' = r
    /\ rip' = Last(stk)
    /\ enabled' = (stk[Len(stk) - 2] = Flags(TRUE))
    /\ stacks' = [stacks EXCEPT ![running] = SubSeq(stk, 1, stk[Len(stk) - 3])]

\* The first stack of a process, for a first popState and iretq.
stackInit(entry, terminator, count, args) ==
    <<0, 0, Flags(TRUE), 8, _process_wrapper,
      0, 0, count, entry, terminator, 0, 0, args, 0, 0, 0, 0, 0, 0, 0>>

\* main() runs as the idle process; the others wait for their first turn.
TrapInit ==
    /\ regs = Zeros /\ rip = MAIN /\ enabled = TRUE
    /\ running = 0 /\ ended = {}
    /\ stacks = [p \in TrapProc |-> IF p = 0 THEN <<>>
                   ELSE stackInit(entry_point(p), process_terminator, argc(p), argv(p))]
    /\ register_snapshot_taken = FALSE
    /\ call = [p \in TrapProc |-> NoCall]
    /\ due = [p \in TrapProc |-> IF p = 0 THEN <<>> ELSE
                <<Context([Zeros EXCEPT !["rcx"] = argc(p), !["r8"] = argv(p),
                                        !["rdx"] = entry_point(p), !["rbp"] = process_terminator],
                          _process_wrapper, TRUE)>>]
    /\ intact = TRUE /\ pictured = TRUE
    /\ started = [p \in TrapProc |-> <<>>]

Nested == MapThenSumSet(LAMBDA p : Len(due[p]), TrapProc)
Interruptible == call[running].name \in SomeCalls \cup {"none"}
InKernel == rip \in {KERNEL80, KERNEL01}

\* The timer interrupt, or int 0x20 from the kernel (a yield or a process that blocks
\* or ends) or from main: schedule keeps this process's rsp and gives that of the next,
\* which may be the same.  Which one is Scheduler.tla's subject.
_irq00Handler ==
    LET here == pushState(Interrupt(stacks[running], rip, enabled), regs)
        now == Append(due[running], Context(regs, rip, enabled)) IN
    /\ enabled \/ InKernel \/ rip = process_terminator
    /\ Interruptible
    /\ ended' = IF rip = process_terminator THEN ended \cup {running} ELSE ended
    /\ \E next \in TrapProc \ ended' :
         LET saved == [stacks EXCEPT ![running] = here]
             stk == Popped(saved[next])
             owed == [due EXCEPT ![running] = now] IN
         /\ running' = next
         /\ regs' = popState(saved[next])
         /\ rip' = Last(stk)
         /\ enabled' = (stk[Len(stk) - 2] = Flags(TRUE))
         /\ stacks' = [saved EXCEPT ![next] = SubSeq(stk, 1, stk[Len(stk) - 3])]
         /\ due' = [owed EXCEPT ![next] = Front(@)]
         /\ intact' = (intact /\ Last(owed[next]) = Context(regs', rip', enabled'))
    /\ UNCHANGED <<register_snapshot_taken, call, pictured, started>>

\* The keyboard interrupt: pushfq, pushState, and keyboardHandler.
_irq01Handler ==
    /\ enabled /\ Nested < MaxNested /\ Interruptible
    /\ stacks' = [stacks EXCEPT ![running] =
                    pushState(Append(Interrupt(@, rip, enabled), Flags(FALSE)), regs)]
    /\ due' = [due EXCEPT ![running] = Append(@, Context(regs, rip, enabled))]
    /\ rip' = KERNEL01 /\ enabled' = FALSE
    /\ regs' = [r \in Reg |-> IF r \in CallerSaved THEN Junk(running) ELSE regs[r]]
    /\ UNCHANGED <<running, ended, register_snapshot_taken, call, intact, pictured, started>>

\* Its end; after the snapshot key (F12) the registers are written down first.
Snapshot(stk) == [i \in 1..18 |->
    CASE i <= 15 -> popState(stk)[PushOrder[i]]
      [] i = 16 -> Len(stk)
      [] i = 17 -> stk[Len(stk) - 16]
      [] i = 18 -> stk[Len(stk) - 15]]
\* A snapshot shows a context: its registers, in the order in which the names are
\* printed, and its place; rsp and the flags are those of the handler.
Shows(s, c) == (\A i \in 1..15 : s[i] = c.regs[PushOrder[i]]) /\ s[17] = c.rip
_irq01Handler_end ==
    LET stk == stacks[running] IN
    /\ rip = KERNEL01
    /\ iretq(Front(Popped(stk)), popState(stk))
    /\ \/ register_snapshot_taken' = TRUE /\ pictured' = (pictured /\ Shows(Snapshot(stk), Last(due[running])))
       \/ UNCHANGED <<register_snapshot_taken, pictured>>
    /\ intact' = (intact /\ Last(due[running]) = Context(regs', rip', enabled'))
    /\ due' = [due EXCEPT ![running] = Front(@)]
    /\ UNCHANGED <<running, ended, call, started>>

\* Kernel code turns interrupts on and off (_sti, _cli, _hlt), in the middle of a
\* system call and, through scrollVideoMemoryUp, of the keyboard's handler.
kernel_flag ==
    /\ InKernel /\ enabled' = ~enabled
    /\ UNCHANGED <<regs, rip, running, stacks, ended, register_snapshot_taken, call, due,
                   intact, pictured, started>>

-----------------------------------------------------------------------------
(* A process.                                                               *)

Goto(ip) ==
    /\ rip' = ip
    /\ UNCHANGED <<enabled, running, ended, register_snapshot_taken, due, intact, pictured>>
SetStack(stk) == stacks' = [stacks EXCEPT ![running] = stk]

\* _process_wrapper: call r12, the entry point; the entry point passes argc and argv
\* on in the registers of the C convention, and calls the command.
wrapper_call ==
    /\ rip = _process_wrapper
    /\ regs' = [regs EXCEPT !["r12"] = regs["rdx"], !["r13"] = regs["rbp"]]
    /\ SetStack(Append(stacks[running], WRAPPER_RET))
    /\ Goto(regs'["r12"]) /\ UNCHANGED <<call, started>>
entry_points ==
    /\ rip \in {entry_point(p) : p \in TrapProc}
    /\ regs' = [regs EXCEPT !["rdi"] = regs["rcx"], !["rsi"] = regs["r8"]]
    /\ SetStack(Append(stacks[running], ENTRY_RET))
    /\ started' = [started EXCEPT ![running] = <<regs'["rdi"], regs'["rsi"]>>]
    /\ Goto(COMMAND) /\ UNCHANGED call

\* The command computes, and in the end returns, if it is not init.
compute ==
    /\ rip = COMMAND
    /\ regs' = [r \in Reg |-> IF r \in CallerSaved THEN Junk(running) ELSE regs[r]]
    /\ Goto(COMMAND) /\ UNCHANGED <<stacks, call, started>>
return ==
    /\ rip \in {COMMAND, ENTRY_RET, WRAPPER_RET} /\ running # 1
    /\ IF rip = WRAPPER_RET
       THEN Goto(regs["r13"]) /\ SetStack(Append(stacks[running], 0))
       ELSE Goto(Last(stacks[running])) /\ SetStack(Front(stacks[running]))
    /\ UNCHANGED <<regs, call, started>>

\* A wrapper of libsys.c calls its stub, which loads the number and traps.
sys_int80(c) ==
    LET p == running
        args == [i \in 1..Arity(c[1]) |-> Argument(p, i)]
        stk == stacks[p] \o <<COMMAND, regs["rbp"]>>
        r == [x \in Reg |-> IF x = "rax" THEN c[2]
                            ELSE IF x = "rbp" THEN Len(stk)
                            ELSE IF \E i \in DOMAIN args : ArgRegs[i] = x
                                 THEN args[CHOOSE i \in DOMAIN args : ArgRegs[i] = x]
                            ELSE regs[x]] IN
    /\ rip = COMMAND /\ Nested < MaxNested
    /\ c[1] \in SomeCalls \/ \A q \in TrapProc \ {p} : started[q] = <<>>
    /\ regs' = r
    /\ stacks' = [stacks EXCEPT ![p] =
                    Append(pushState(Interrupt(stk, STUB_RET, enabled), r), c[2])]
    /\ rip' = KERNEL80 /\ enabled' = FALSE
    /\ call' = [call EXCEPT ![p] = [NoCall EXCEPT !.name = c[1], !.args = args]]
    /\ due' = [due EXCEPT ![p] = Append(@, Context([r EXCEPT !["rax"] = Result(p)], STUB_RET, enabled))]
    /\ UNCHANGED <<running, ended, register_snapshot_taken, intact, pictured, started>>

\* The dispatcher finds the registers in the frame, below the extra push of rax.
dispatch_call ==
    LET frame == popState(Front(stacks[running]))
        h == syscallDispatcher(frame["rax"]) IN
    /\ rip = KERNEL80 /\ call[running].handler = "none"
    /\ call' = [call EXCEPT ![running].handler = h[1],
                            ![running].got = [i \in 1..h[2] |-> frame[ArgRegs[i]]]]
    /\ regs' = [r \in Reg |-> IF r \in CallerSaved THEN Junk(running) ELSE regs[r]]
    /\ Goto(KERNEL80) /\ UNCHANGED <<stacks, started>>

\* The result stays in rax across popStateButRAX.
_irq80Handler_end ==
    LET stk == Front(stacks[running]) IN
    /\ rip = KERNEL80 /\ call[running].handler # "none"
    /\ iretq(Popped(stk), [popState(stk) EXCEPT !["rax"] = Result(running)])
    /\ intact' = (intact /\ Last(due[running]) = Context(regs', rip', enabled'))
    /\ due' = [due EXCEPT ![running] = Front(@)]
    /\ UNCHANGED <<running, ended, register_snapshot_taken, call, pictured, started>>
stub_ret ==
    LET stk == SubSeq(stacks[running], 1, regs["rbp"]) IN
    /\ rip = STUB_RET
    /\ regs' = [regs EXCEPT !["rbp"] = Last(stk)]
    /\ SetStack(Front(Front(stk)))
    /\ call' = [call EXCEPT ![running] = NoCall]
    /\ Goto(stk[Len(stk) - 1]) /\ UNCHANGED started

TrapNext ==
    \/ _irq00Handler \/ _irq01Handler \/ _irq01Handler_end \/ kernel_flag
    \/ wrapper_call \/ entry_points \/ compute \/ return
    \/ (\E c \in Stub : sys_int80(c)) \/ dispatch_call \/ _irq80Handler_end \/ stub_ret
TrapSpec == TrapInit /\ [][TrapNext]_trapVars

-----------------------------------------------------------------------------
(* Properties.                                                              *)

\* Whatever interrupts nest, whichever process runs in between: a process gets back
\* the registers, the place and the interrupt flag it had, and from a system call
\* only rax has changed; nothing of it is left on the stack.
ContextPreserved ==
    /\ intact
    /\ rip = COMMAND => stacks[running] = <<WRAPPER_RET, ENTRY_RET>>

\* Each system call reaches the handler of its name with the arguments given.
SyscallsArrive ==
    \A p \in TrapProc : call[p].handler # "none" =>
        call[p].handler = call[p].name /\ call[p].got = call[p].args

\* A command starts with the argc and argv its process was created with, and when it
\* returns its process runs process_terminator.
CommandsStart ==
    /\ \A p \in TrapProc : started[p] \in {<<>>, <<argc(p), argv(p)>>}
    /\ ended # {} => 0 \notin ended /\ 1 \notin ended

\* The seam does not show: interrupts and system calls disturb no program, and the
\* snapshot key writes down what the interrupted program had in its registers.
TrapsAreTransparent ==
    ContextPreserved /\ SyscallsArrive /\ CommandsStart /\ pictured

=============================================================================
