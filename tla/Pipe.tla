-------------------------------- MODULE Pipe --------------------------------
(***************************************************************************)
(* Kernel/pipe.c as operators on the record k of SemTable with one more    *)
(* field, pipes: the pipe each id is bound to in pipeStorage.  A pipe's    *)
(* two semaphores are named after its id.                                  *)
(***************************************************************************)
EXTENDS SemTable

CONSTANTS PIPE_BUFFER_SIZE, MAX_PIPES

\* main() sets the first id to 2.
FirstId == 2

ASSUME PipeAssumption ==
    /\ PIPE_BUFFER_SIZE \in Nat /\ PIPE_BUFFER_SIZE > 1
    /\ MAX_PIPES \in Nat /\ MAX_PIPES > FirstId

PipeId == FirstId..(MAX_PIPES - 1)
canRead(id) == <<"R", id>>
canWrite(id) == <<"W", id>>

NEXT_IDX(i) == (i + 1) % PIPE_BUFFER_SIZE
PREVIOUS_IDX(i) == IF i = 0 THEN PIPE_BUFFER_SIZE - 1 ELSE i - 1

NoPipe == [open |-> FALSE]
NewPipe == [open |-> TRUE, buffer |-> [i \in 0..(PIPE_BUFFER_SIZE - 1) |-> "nul"],
            idxToRead |-> 0, idxToWrite |-> 0,
            waitingToRead |-> FALSE, waitingToWrite |-> FALSE,
            attached |-> 0, readers |-> 0, writers |-> 0,
            exp_readers |-> 1, exp_writers |-> 1]

getValidPipe(k, id) == id \in DOMAIN k.pipes /\ k.pipes[id].open

createPipe(k, id) ==
    semOpen(semOpen([k EXCEPT !.pipes[id] = NewPipe], canRead(id), 0), canWrite(id), 0)

attachReader(k, id) ==
    IF ~getValidPipe(k, id) THEN k
    ELSE [k EXCEPT !.pipes[id].readers = @ + 1, !.pipes[id].attached = @ + 1,
                   !.pipes[id].exp_readers = IF @ > 0 THEN @ - 1 ELSE @]

attachWriter(k, id) ==
    IF ~getValidPipe(k, id) THEN k
    ELSE [k EXCEPT !.pipes[id].writers = @ + 1, !.pipes[id].attached = @ + 1,
                   !.pipes[id].exp_writers = IF @ > 0 THEN @ - 1 ELSE @]

\* deletePipe and freePipe: the storage's slot becomes NULL, the semaphores go.
deletePipe(k, id) ==
    semClose(semClose([k EXCEPT !.pipes[id] = NoPipe], canRead(id)), canWrite(id))

\* One token per user of the semaphore.
wake_all(k, s) == PostTimes(k, s, k.sems[s].users)

\* The first half of detachReader and detachWriter: the process leaves the
\* semaphores' lines and the counts.
LeaveLines(k, id, pid) ==
    removeFromSemaphore(removeFromSemaphore(k, canRead(id), pid), canWrite(id), pid)
detachReader(k, id, pid) ==
    IF ~getValidPipe(k, id) THEN k
    ELSE IF k.pipes[id].readers = 0 THEN LeaveLines(k, id, pid)
    ELSE [LeaveLines(k, id, pid) EXCEPT !.pipes[id].readers = @ - 1, !.pipes[id].attached = @ - 1]
detachWriter(k, id, pid) ==
    IF ~getValidPipe(k, id) THEN k
    ELSE IF k.pipes[id].writers = 0 THEN LeaveLines(k, id, pid)
    ELSE [LeaveLines(k, id, pid) EXCEPT !.pipes[id].writers = @ - 1, !.pipes[id].attached = @ - 1]

\* The second half: the last reader wakes the writers and the last writer the
\* readers; the last of all deletes the pipe, once both ends have been used.
DeleteIfUnused(k, id) ==
    LET p == k.pipes[id] IN
    IF p.readers = 0 /\ p.writers = 0 /\ p.exp_readers = 0 /\ p.exp_writers = 0
    THEN deletePipe(k, id) ELSE k
detachReader_wake(k, id) ==
    IF ~getValidPipe(k, id) THEN k
    ELSE IF k.pipes[id].readers = 0 /\ k.pipes[id].waitingToWrite
    THEN DeleteIfUnused(wake_all([k EXCEPT !.pipes[id].waitingToWrite = FALSE], canWrite(id)), id)
    ELSE DeleteIfUnused(k, id)
detachWriter_wake(k, id) ==
    IF ~getValidPipe(k, id) THEN k
    ELSE IF k.pipes[id].writers = 0 /\ k.pipes[id].waitingToRead
    THEN DeleteIfUnused(wake_all([k EXCEPT !.pipes[id].waitingToRead = FALSE], canRead(id)), id)
    ELSE DeleteIfUnused(k, id)

\* closePipe, for a pipe that is there: tokens for whoever may wait at either end, and
\* the end of a pipe nobody is attached to - yet, or any more.
closePipe_wake(k, id) ==
    IF getValidPipe(k, id) /\ k.pipes[id].attached <= 1
    THEN wake_all(wake_all(k, canRead(id)), canWrite(id)) ELSE k
closePipe_delete(k, id) ==
    IF getValidPipe(k, id) /\ k.pipes[id].attached = 0 THEN deletePipe(k, id) ELSE k
\* The second half goes on with the pointer of the first.  If the other end has deleted
\* the pipe since, attached still reads 0 in the freed memory, deletePipe finds no such
\* pipe, and the kernel panics.  (The memory is not given out again in between.)
closePipe_panics(k, id) == ~getValidPipe(k, id)

-----------------------------------------------------------------------------
(* readPipe and writePipe of one byte, in the stretches between which other *)
(* processes may run.                                                       *)

PipeEmpty(k, id) == k.pipes[id].idxToRead = k.pipes[id].idxToWrite
\* Mutant: the slot the reader stands at is taken for a free one.
BadPipeFull(k, id) == FALSE
PipeFull(k, id) == k.pipes[id].idxToWrite = PREVIOUS_IDX(k.pipes[id].idxToRead)
NoWriter(k, id) == k.pipes[id].writers = 0 /\ k.pipes[id].exp_writers = 0

\* An empty pipe with a writer: sleep.
readPipe_wait(k, id, pid) ==
    semWait([k EXCEPT !.pipes[id].waitingToRead = TRUE], canRead(id), pid)
readPipe_byte(k, id) == k.pipes[id].buffer[k.pipes[id].idxToRead]
readPipe_take(k, id) == [k EXCEPT !.pipes[id].idxToRead = NEXT_IDX(@)]
readPipe_post(k, id) ==
    IF k.pipes[id].waitingToWrite
    THEN semPost([k EXCEPT !.pipes[id].waitingToWrite = FALSE], canWrite(id)) ELSE k

\* A full pipe: sleep, and do not look again.
writePipe_wait(k, id, pid) ==
    semWait([k EXCEPT !.pipes[id].waitingToWrite = TRUE], canWrite(id), pid)
writePipe_put(k, id, byte) ==
    [k EXCEPT !.pipes[id].buffer[k.pipes[id].idxToWrite] = byte,
              !.pipes[id].idxToWrite = NEXT_IDX(@)]
\* Mutant: the reader is not woken.
BadWritePipePost(k, id) == k
writePipe_post(k, id) ==
    IF k.pipes[id].waitingToRead
    THEN semPost([k EXCEPT !.pipes[id].waitingToRead = FALSE], canRead(id)) ELSE k

\* The bytes written and not yet read.
Unread(k, id) ==
    LET p == k.pipes[id]
        n == (p.idxToWrite + PIPE_BUFFER_SIZE - p.idxToRead) % PIPE_BUFFER_SIZE
    IN  [i \in 1..n |-> p.buffer[(p.idxToRead + i - 1) % PIPE_BUFFER_SIZE]]

=============================================================================
