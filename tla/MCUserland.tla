----------------------------- MODULE MCUserland -----------------------------
(***************************************************************************)
(* The parts that share no state with one another: the mvar program, the   *)
(* shell's lines, the containers, the C library, the trap level and the    *)
(* console.  A behaviour exercises one of them, turn, from its initial     *)
(* state; the others keep a fixed state.                                   *)
(***************************************************************************)
EXTENDS Mvar, Shell, Containers, CLibrary, Traps, Screen

VARIABLE turn

MCVars == <<vars, shellVars, queueVars, arrayVars, input, trapVars, screenVars, turn>>

MCInit ==
    /\ turn \in {"mvar", "shell", "queue", "array", "library", "traps", "screen"}
    /\ Init /\ createQueue /\ TrapInit /\ ScreenInit
    /\ ShellInit /\ (turn = "shell" \/ at = "prompt")
    /\ createArray /\ (turn = "array" \/ iter = 0)
    /\ IF turn = "library" THEN CLibraryInit ELSE input = [kind |-> "none"]

NoMvar == UNCHANGED vars
NoShell == UNCHANGED shellVars
NoQueue == UNCHANGED queueVars
NoArray == UNCHANGED arrayVars
NoTraps == UNCHANGED trapVars
NoScreen == UNCHANGED screenVars
Others == UNCHANGED <<turn, input>>
OnlyMvar == turn = "mvar" /\ NoShell /\ NoQueue /\ NoArray /\ NoTraps /\ NoScreen /\ Others

MCNext ==
    \/ OnlyMvar /\ Next
    \/ turn = "shell" /\ ShellNext /\ NoMvar /\ NoQueue /\ NoArray /\ NoTraps /\ NoScreen /\ Others
    \/ turn = "queue" /\ QueueNext /\ NoMvar /\ NoShell /\ NoArray /\ NoTraps /\ NoScreen /\ Others
    \/ turn = "array" /\ ArrayNext /\ NoMvar /\ NoShell /\ NoQueue /\ NoTraps /\ NoScreen /\ Others
    \/ turn = "traps" /\ TrapNext /\ NoMvar /\ NoShell /\ NoQueue /\ NoArray /\ NoScreen /\ Others
    \/ turn = "screen" /\ ScreenNext /\ NoMvar /\ NoShell /\ NoQueue /\ NoArray /\ NoTraps /\ Others

MCSpec == MCInit /\ [][MCNext]_MCVars

=============================================================================
