------------------------------ MODULE Keyboard ------------------------------
(***************************************************************************)
(* Kernel/drivers/keyboard.c: the ring of typed characters, filled by the  *)
(* keyboard's interrupt handler and emptied by getKeyboardCharacter, as    *)
(* operators on the record k of SemTable with one more field, kb.          *)
(*                                                                         *)
(* A key is the character it stands for with the modifiers held at the     *)
(* time, or one of BACKSPACE_KEY, TABULATOR_KEY, CTRL_D and OTHER_KEY (a   *)
(* modifier, a release).                                                   *)
(***************************************************************************)
EXTENDS SemTable

CONSTANTS BUFFER_SIZE, TAB_SIZE
ASSUME KeyboardAssumption ==
    BUFFER_SIZE \in Nat /\ TAB_SIZE \in Nat \ {0} /\ TAB_SIZE < BUFFER_SIZE

NEW_LINE_CHAR == "\n"
BACKSPACE_KEY == "bs"
TABULATOR_KEY == "tab"
CTRL_D == "^D"
OTHER_KEY == "other"
EOF == "EOF"

buffer_sem == <<"buffer_sem", 0>>

INC_MOD(x, m) == (x + 1) % m
SUB_MOD(a, b, m) == IF a - b < 0 THEN m - b + a ELSE a - b

\* C's remainder has the sign of the dividend: never equal once wrapped.
BUFFER_IS_FULL(kb) == kb.to_write - kb.to_read = BUFFER_SIZE - 1
BufferEmpty(kb) == kb.to_write = kb.to_read
LastChar(kb) == kb.buffer[SUB_MOD(kb.to_write, 1, BUFFER_SIZE)]

\* keyboard_sem_init, and the driver's variables.  reading is the MODIFY_BUFFER
\* bit of keyboard_options.
KeyboardInit == [buffer |-> [i \in 0..(BUFFER_SIZE - 1) |-> "nul"],
                 to_write |-> 0, to_read |-> 0, reading |-> FALSE]
keyboard_sem_init(k) == semOpen(k, buffer_sem, 0)

\* One character into the ring, and a token for the reader.
addCharToBuffer(k, c) ==
    LET added == [k EXCEPT !.kb.buffer[k.kb.to_write] = c,
                           !.kb.to_write = INC_MOD(@, BUFFER_SIZE)]
    IN  IF k.kb.reading THEN semPost(added, buffer_sem) ELSE added

\* A tabulator becomes n spaces: to the next multiple of TAB_SIZE, the full
\* ring stopping it earlier.
AddSpaces(k, n) ==
    LET Added[i \in 0..n] ==
          IF i = 0 THEN k
          ELSE IF i > 1 /\ BUFFER_IS_FULL(Added[i - 1].kb) THEN Added[i - 1]
          ELSE addCharToBuffer(Added[i - 1], " ")
    IN  Added[n]

\* Mutant: a backspace at the start of the line is not ignored.
BadErase(k) == [k EXCEPT !.kb.to_write = SUB_MOD(@, 1, BUFFER_SIZE)]
\* A backspace takes the last character back.
Erase(k) == IF BufferEmpty(k.kb) THEN k
            ELSE [k EXCEPT !.kb.to_write = SUB_MOD(@, 1, BUFFER_SIZE)]

\* keyboardHandler, the kernel after the interrupt of a key.
keyboardHandler(k, key, n) ==
    IF BUFFER_IS_FULL(k.kb) THEN [k EXCEPT !.kb.to_read = 0, !.kb.to_write = 0]
    ELSE IF key = CTRL_D
    THEN IF BufferEmpty(k.kb) THEN addCharToBuffer(k, EOF) ELSE k
    ELSE IF ~k.kb.reading \/ key = OTHER_KEY THEN k
    ELSE IF key = BACKSPACE_KEY
    THEN Erase(k)
    ELSE IF key = TABULATOR_KEY THEN AddSpaces(k, n)
    ELSE IF key = NEW_LINE_CHAR /\ ~BufferEmpty(k.kb) /\ LastChar(k.kb) = NEW_LINE_CHAR THEN k
    ELSE addCharToBuffer(k, key)

\* getKeyboardCharacter with AWAIT_RETURN_KEY: it stops waiting when a line, or
\* an end of file, is complete.
LineReady(kb) == ~BufferEmpty(kb) /\ LastChar(kb) \in {NEW_LINE_CHAR, EOF}
getKeyboardCharacter_enter(k) == [k EXCEPT !.kb.reading = TRUE]
\* The calls after the first sleep are made with interrupts on, and the wake-up can
\* then be lost inside semWait; SemMutex.tla shows that, here the call is one step.
getKeyboardCharacter_wait(k, pid) == semWait(k, buffer_sem, pid)
getKeyboardCharacter_char(k) == k.kb.buffer[k.kb.to_read]
getKeyboardCharacter_take(k) ==
    [k EXCEPT !.kb.reading = FALSE, !.kb.to_read = INC_MOD(@, BUFFER_SIZE)]

\* The characters typed and not yet read.
Pending(kb) ==
    LET n == (kb.to_write + BUFFER_SIZE - kb.to_read) % BUFFER_SIZE
    IN  [i \in 1..n |-> kb.buffer[(kb.to_read + i - 1) % BUFFER_SIZE]]

=============================================================================
