------------------------------ MODULE Pipeline ------------------------------
(***************************************************************************)
(* A command line `left | right' from the shell's prompt to the next one:  *)
(* the shell (Userland/Shell/shell.c), the two commands, the pipe between  *)
(* them (Pipe.tla), the keyboard the left one may read (Keyboard.tla) and  *)
(* the end of both processes (process_terminator, kill_process).           *)
(*                                                                         *)
(* The left command is cat, which copies the keyboard, or echo, which      *)
(* prints Printed; both write one byte at a time.  The right command is    *)
(* filter or wc, which read the pipe to its end.  A process enters the     *)
(* kernel with interrupts off and keeps them off until it sleeps; from     *)
(* then on every stretch of the routine is a step.                         *)
(***************************************************************************)
EXTENDS Pipe, Keyboard, TLC

CONSTANTS Printed,   \* what the left command prints if it is echo
          Key,       \* the keys pressed
          MaxKeys    \* bound on the number of key presses

ASSUME PipelineAssumption ==
    Printed \in Seq(STRING) /\ Printed # <<>> /\ Key \subseteq STRING /\ MaxKeys \in Nat

VARIABLES sems, asleep, pipes, kb, nextId,
    shell, left, right, \* where each process is; "none" before it exists
    line,               \* the command line typed: [left, right, background]
    hand,               \* the character the left command has in hand
    lines,              \* wc's count of newlines
    screen,             \* what the right command has printed
    pressed, typed, read, broken, \* history of the keyboard
    sent, received,     \* history of the pipe
    stray,              \* history: a post came too late for its byte
    late, killed,       \* history: right came too late for the pipe; Ctrl+C
    panicked            \* the kernel has stopped in panic

kernel == <<sems, asleep, pipes, kb>>
keys == <<pressed, typed, read, broken>>
vars == <<kernel, nextId, shell, left, right, line, hand, lines, screen, keys,
          sent, received, stray, late, killed, panicked>>

Kernel == [sems |-> sems, asleep |-> asleep, pipes |-> pipes, kb |-> kb]
Set(k) == sems' = k.sems /\ asleep' = k.asleep /\ pipes' = k.pipes /\ kb' = k.kb

wait(p) == <<"wait", p>>
id == FirstId

Init ==
    /\ LET names == {canRead(i) : i \in PipeId} \cup {canWrite(i) : i \in PipeId}
                    \cup {buffer_sem, wait("L"), wait("R")}
           k == keyboard_sem_init([sems |-> initSemQueue(names), asleep |-> {},
                                   pipes |-> [i \in PipeId |-> NoPipe], kb |-> KeyboardInit])
       IN  sems = k.sems /\ asleep = k.asleep /\ pipes = k.pipes /\ kb = k.kb
    /\ nextId = FirstId
    /\ shell = "prompt" /\ left = "none" /\ right = "none"
    /\ line = [left |-> "cat", right |-> "wc", background |-> FALSE]
    /\ hand = "nul" /\ lines = 0 /\ screen = <<>>
    /\ pressed = 0 /\ typed = <<>> /\ read = <<>> /\ broken = FALSE
    /\ sent = <<>> /\ received = <<>> /\ stray = FALSE /\ late = FALSE /\ killed = FALSE
    /\ panicked = FALSE

-----------------------------------------------------------------------------
(* The keyboard's interrupt.                                                *)

\* What the user has typed and not erased, and whether the ring has lost
\* characters: it was full, it overran its reader, or a key erased the line's
\* end after the reader had seen it.
TypedAfter(key, k) ==
    CASE key = BACKSPACE_KEY /\ k.kb.to_write # kb.to_write -> Front(typed)
      [] key # BACKSPACE_KEY /\ k.kb.to_write # kb.to_write ->
           typed \o (CASE key = CTRL_D -> <<EOF>>
                       [] key = TABULATOR_KEY ->
                            [i \in 1..(Len(Pending(k.kb)) - Len(Pending(kb))) |-> " "]
                       [] OTHER -> <<key>>)
      [] OTHER -> typed
Loses(key, k) ==
    \/ BUFFER_IS_FULL(kb)
    \/ Len(Pending(k.kb)) < Len(Pending(kb)) /\ key # BACKSPACE_KEY
    \/ key = BACKSPACE_KEY /\ left = "take"

Press(key, n) ==
    LET k == keyboardHandler(Kernel, key, n) IN
    /\ pressed < MaxKeys /\ pressed' = pressed + 1
    /\ Set(k)
    /\ broken' = (broken \/ Loses(key, k))
    /\ typed' = TypedAfter(key, k)
    /\ UNCHANGED <<nextId, shell, left, right, line, hand, lines, screen, read,
                   sent, received, stray, late, killed, panicked>>

-----------------------------------------------------------------------------
(* The shell.                                                               *)

\* pipeOpen for a line of two commands.  In the background the left one is not
\* cat: it would read the keyboard together with the shell.  (Bound: one line.)
pipeOpen ==
    /\ shell = "prompt" /\ nextId < MAX_PIPES /\ nextId = FirstId
    /\ \E l \in {"cat", "echo"}, r \in {"filter", "wc"}, bg \in BOOLEAN :
         /\ bg => l = "echo"
         /\ line' = [left |-> l, right |-> r, background |-> bg]
    /\ Set(createPipe(Kernel, nextId))
    /\ nextId' = nextId + 1
    /\ shell' = "left"
    /\ UNCHANGED <<left, right, hand, lines, screen, keys, sent, received, stray, late, killed, panicked>>

\* createProcess of the left command.  It fails when memory is short.
createLeft ==
    /\ shell = "left" /\ shell' = "right"
    /\ \/ /\ Set(attachWriter(semOpen(Kernel, wait("L"), 0), id))
          /\ left' = IF line.left = "cat" THEN "read" ELSE "write"
          /\ hand' = IF line.left = "cat" THEN "nul" ELSE Head(Printed)
       \/ left' = "failed" /\ UNCHANGED <<kernel, hand>>
    /\ UNCHANGED <<nextId, right, line, lines, screen, keys, sent, received, stray, late, killed, panicked>>

createRight ==
    /\ shell = "right"
    /\ \/ /\ Set(attachReader(semOpen(Kernel, wait("R"), 0), id))
          /\ right' = "read" /\ late' = ~getValidPipe(Kernel, id)
       \/ right' = "failed" /\ UNCHANGED <<kernel, late>>
    /\ shell' = IF ~line.background /\ left # "failed" /\ right' # "failed"
                THEN "waitL" ELSE "close"
    /\ UNCHANGED <<nextId, left, line, hand, lines, screen, keys, sent, received, stray, killed, panicked>>

\* waitPid for the left command, then for the right one.
waitPid(p, place, at, in, next) ==
    \/ /\ shell = at
       /\ IF place = "gone" THEN shell' = next /\ UNCHANGED kernel
          ELSE shell' = in /\ Set(semWait(Kernel, wait(p), "S"))
       /\ UNCHANGED <<nextId, left, right, line, hand, lines, screen, keys, sent, received, stray, late, killed, panicked>>
    \/ /\ shell = in /\ "S" \notin asleep
       /\ shell' = next
       /\ UNCHANGED <<kernel, nextId, left, right, line, hand, lines, screen, keys, sent, received, stray,
                      late, killed, panicked>>

\* A system call: others run between its two halves only if it wakes one of them,
\* which turns interrupts on.
pipeClose ==
    /\ LET k == closePipe_wake(Kernel, id) IN
       \/ /\ shell = "close" /\ k.asleep # asleep /\ shell' = "close2"
          /\ Set(k) /\ UNCHANGED panicked
       \/ /\ shell = "close" /\ k.asleep = asleep /\ shell' = "prompt"
          /\ Set(closePipe_delete(k, id)) /\ UNCHANGED panicked
       \/ /\ shell = "close2" /\ shell' = "prompt"
          /\ Set(closePipe_delete(Kernel, id)) /\ panicked' = closePipe_panics(Kernel, id)
    /\ UNCHANGED <<nextId, left, right, line, hand, lines, screen, keys, sent, received, stray, late, killed>>

Shell == \/ pipeOpen \/ createLeft \/ createRight \/ pipeClose
         \/ waitPid("L", left, "waitL", "inL", "waitR")
         \/ waitPid("R", right, "waitR", "inR", "close")

-----------------------------------------------------------------------------
(* The end of a process: process_terminator, or kill_process, from its      *)
(* first line that others see to its last.                                  *)

ExitOf(p, place) ==
    CASE place = "detach" -> [to |-> "wake", k |-> IF p = "L" THEN detachWriter(Kernel, id, p)
                                                     ELSE detachReader(Kernel, id, p)]
      [] place = "wake" -> [to |-> "close", k |-> IF p = "L" THEN detachWriter_wake(Kernel, id)
                                                  ELSE detachReader_wake(Kernel, id)]
      [] place = "close" -> [to |-> IF getValidPipe(Kernel, id) THEN "close2" ELSE "last",
                             k |-> closePipe_wake(Kernel, id)]
      [] place = "close2" -> [to |-> "last", k |-> closePipe_delete(Kernel, id)]
      [] place = "last" -> [to |-> "gone", k |-> semPost(Kernel, wait(p))]
Exiting == {"detach", "wake", "close", "close2", "last"}

-----------------------------------------------------------------------------
(* The left command.                                                        *)

\* getchar on the keyboard: fd_read and getKeyboardCharacter.
cat_read ==
    /\ "L" \notin asleep
    /\ \/ /\ left = "read" /\ left' = "loop"
          /\ Set(getKeyboardCharacter_enter(Kernel))
          /\ UNCHANGED <<hand, read>>
       \/ /\ left = "loop" /\ ~LineReady(kb)
          /\ Set(getKeyboardCharacter_wait(Kernel, "L"))
          /\ UNCHANGED <<left, hand, read>>
       \/ /\ left = "loop" /\ LineReady(kb) /\ left' = "take"
          /\ UNCHANGED <<kernel, hand, read>>
       \/ /\ left = "take"
          /\ hand' = getKeyboardCharacter_char(Kernel)
          /\ read' = Append(read, hand')
          /\ left' = IF hand' = EOF THEN "detach" ELSE "write"
          /\ Set(getKeyboardCharacter_take(Kernel))
    /\ UNCHANGED <<nextId, shell, right, line, lines, screen, pressed, typed, broken,
                   sent, received, stray, late, killed, panicked>>

\* What the left command does after a write: echo prints the next byte.
AfterWrite ==
    IF line.left = "cat" THEN left' = "read" /\ UNCHANGED hand
    ELSE LET n == Len(sent') IN
         IF n < Len(Printed) THEN left' = "write" /\ hand' = Printed[n + 1]
         ELSE left' = "detach" /\ UNCHANGED hand

\* putchar into the pipe: fd_write and writePipe.  After a sleep it writes
\* without looking again.
left_write ==
    /\ "L" \notin asleep
    /\ \/ /\ left = "write" /\ PipeFull(Kernel, id) /\ left' = "put"
          /\ Set(writePipe_wait(Kernel, id, "L"))
          /\ UNCHANGED <<hand, sent, stray>>
       \/ /\ left = "write" /\ ~PipeFull(Kernel, id)
          /\ Set(writePipe_post(writePipe_put(Kernel, id, hand), id))
          /\ sent' = Append(sent, hand) /\ UNCHANGED stray /\ AfterWrite
       \/ /\ left = "put" /\ left' = "post"
          /\ Set(writePipe_put(Kernel, id, hand))
          /\ sent' = Append(sent, hand) /\ UNCHANGED hand
          /\ UNCHANGED stray
       \/ /\ left = "post"
          /\ Set(writePipe_post(Kernel, id))
          /\ stray' = (stray \/ (pipes[id].waitingToRead /\ PipeEmpty(Kernel, id)))
          /\ UNCHANGED sent /\ AfterWrite
    /\ UNCHANGED <<nextId, shell, right, line, lines, screen, keys, received, late, killed, panicked>>

left_exit ==
    /\ left \in Exiting
    /\ Set(ExitOf("L", left).k) /\ left' = ExitOf("L", left).to
    /\ panicked' = (left = "close2" /\ closePipe_panics(Kernel, id))
    /\ UNCHANGED <<nextId, shell, right, line, hand, lines, screen, keys, sent, received, stray, late, killed>>

Left == cat_read \/ left_write \/ left_exit

-----------------------------------------------------------------------------
(* The right command.                                                       *)

IS_VOWEL(c) == c \in {"a", "e", "i", "o", "u"}

\* What the command does with a byte, and at the end of the input.
consume(c) ==
    /\ received' = Append(received, c)
    /\ lines' = IF c = NEW_LINE_CHAR THEN lines + 1 ELSE lines
    /\ screen' = IF line.right = "filter" /\ ~IS_VOWEL(c) THEN Append(screen, c) ELSE screen
finish ==
    /\ right' = "detach"
    /\ screen' = IF line.right = "filter" THEN Append(screen, NEW_LINE_CHAR)
                 ELSE <<ToString(IF received # <<>> /\ lines = 0 THEN 1 ELSE lines)>>
    /\ UNCHANGED <<lines, received>>

\* getchar on the pipe: fd_read and readPipe.  Without a pipe getchar tries
\* again for ever.  After a sleep an empty pipe is the end of the input.
right_read ==
    /\ "R" \notin asleep /\ getValidPipe(Kernel, id)
    /\ \/ /\ right = "read" /\ PipeEmpty(Kernel, id) /\ NoWriter(Kernel, id)
          /\ finish /\ UNCHANGED <<kernel, stray>>
       \/ /\ right = "read" /\ PipeEmpty(Kernel, id) /\ ~NoWriter(Kernel, id) /\ right' = "awake"
          /\ Set(readPipe_wait(Kernel, id, "R")) /\ UNCHANGED <<lines, screen, received, stray>>
       \/ /\ right = "read" /\ ~PipeEmpty(Kernel, id) /\ UNCHANGED <<right, stray>>
          /\ Set(readPipe_post(readPipe_take(Kernel, id), id)) /\ consume(readPipe_byte(Kernel, id))
       \/ /\ right = "awake" /\ PipeEmpty(Kernel, id)
          /\ finish /\ UNCHANGED <<kernel, stray>>
       \/ /\ right = "awake" /\ ~PipeEmpty(Kernel, id) /\ right' = "post" /\ UNCHANGED stray
          /\ Set(readPipe_take(Kernel, id)) /\ consume(readPipe_byte(Kernel, id))
       \/ /\ right = "post" /\ right' = "read"
          /\ stray' = (stray \/ (pipes[id].waitingToWrite /\ PipeFull(Kernel, id)))
          /\ Set(readPipe_post(Kernel, id)) /\ UNCHANGED <<lines, screen, received>>
    /\ UNCHANGED <<nextId, shell, left, line, hand, keys, sent, late, killed, panicked>>

right_exit ==
    /\ right \in Exiting
    /\ Set(ExitOf("R", right).k) /\ right' = ExitOf("R", right).to
    /\ panicked' = (right = "close2" /\ closePipe_panics(Kernel, id))
    /\ UNCHANGED <<nextId, shell, left, line, hand, lines, screen, keys, sent, received, stray, late, killed>>

Right == right_read \/ right_exit

\* Ctrl+C while the right command runs: it is the foreground process of the
\* line, the left one is not.
kill_foreground_processes ==
    /\ right \in {"read", "awake", "post"} /\ "R" \notin asleep /\ ~line.background
    /\ right' = "detach" /\ killed' = TRUE
    /\ UNCHANGED <<kernel, nextId, shell, left, line, hand, lines, screen, keys, sent, received, stray, late, panicked>>

Next ==
    \/ ~panicked /\ Shell
    \/ ~panicked /\ Left
    \/ ~panicked /\ Right
    \/ ~panicked /\ kill_foreground_processes
    \/ \E key \in Key, n \in 1..TAB_SIZE :
         ~panicked /\ (key # TABULATOR_KEY => n = 1) /\ Press(key, n)

\* The scheduler starves nobody (Scheduler.tla); the user need not type.
Fairness == WF_vars(~panicked /\ Shell) /\ WF_vars(~panicked /\ Left) /\ WF_vars(~panicked /\ Right)

Spec == Init /\ [][Next]_vars /\ Fairness
-----------------------------------------------------------------------------
(* Properties.                                                              *)

\* The reader of the keyboard gets what was typed and not erased, in order,
\* each character once, over any interleaving of key presses with
\* getKeyboardCharacter - as long as the ring was not lost (lines 15, 250).
KeyboardDelivers == ~broken => typed = read \o Pending(kb)

\* What filter prints of what it has read.
WithoutVowels(s) ==
    LET Kept[i \in 0..Len(s)] == IF i = 0 THEN <<>>
                                 ELSE IF IS_VOWEL(s[i]) THEN Kept[i - 1]
                                 ELSE Append(Kept[i - 1], s[i])
    IN  Kept[Len(s)]

\* The left command has not ended yet; nor the right one.
LeftWrites == left \in {"read", "loop", "take", "write", "put", "post"}
RightReads == right \in {"read", "awake", "post"}

\* The right command gets every byte the left one wrote, in order, each once,
\* across the sleeps and wake-ups of both; and when it ends by itself it has got all
\* that was written, so that it never takes an empty pipe for the end of the input
\* while a writer is left (README line 157), and filter has printed all of it but the
\* vowels.  This holds until a stray post: a process that slept in the pipe
\* runs on with interrupts on, and if the other side has used up its byte before its
\* post (lines 171 and 205), that post wakes the other side into a full pipe, which
\* it overruns, or an empty one, which it takes for the end.
PipeDelivers ==
    /\ getValidPipe(Kernel, id) /\ right # "failed" /\ ~killed /\ ~stray => sent = received \o Unread(Kernel, id)
    /\ right \in Exiting \cup {"gone"} /\ ~killed /\ ~stray =>
         /\ received = sent /\ ~LeftWrites
         /\ line.right = "filter" => screen = Append(WithoutVowels(sent), NEW_LINE_CHAR)

\* Nobody is left behind: whoever sleeps in the pipe, and the shell in its waitPid,
\* has somebody to wake it who is not asleep there too - the other end, which has yet
\* to detach and wake it, or the shell, which has yet to close the pipe of an end that
\* could not be created (detachReader, detachWriter, closePipe; README line 157).
\* Not after Ctrl+C on the right command, which leaves the left one a pipe nobody
\* reads, nor if the right one could not be created, nor after a stray post, nor once
\* closePipe has stopped the kernel.
NobodyLeftBehind ==
    \/ killed \/ stray \/ panicked \/ right = "failed"
    \/ /\ "R" \in asleep =>
            \/ (LeftWrites /\ ~(left = "put" /\ "L" \in asleep)) \/ left \in {"detach", "wake"}
            \/ left = "failed" /\ shell = "close"
       /\ "L" \in asleep /\ left = "put" =>
            right \in {"none", "detach", "wake"} \/ (RightReads /\ "R" \notin asleep)
       /\ "S" \in asleep => \/ shell = "inL" /\ left # "gone"
                            \/ shell = "inR" /\ right # "gone"

\* README line 157: a pipe "previene bloqueos indefinidos y permite que los
\* readers finalicen correctamente cuando el writer termina".  It does not for a
\* right command that was created after the left one had ended.
ReadersFinish == (left = "gone" /\ right = "read") ~> right = "gone"

\* pipe.c line 251 panics on "Couldn't delete pipe.", which deletePipe answers of a
\* pipe it does not know: an assertion that the pipe closePipe looked up at line 234
\* is there until it is deleted.  It need not be, even when both commands are created
\* and none is killed.
ClosePipeSucceeds == killed \/ "failed" \in {left, right} \/ ~panicked

=============================================================================
