----------------------------- MODULE MCServices -----------------------------
(***************************************************************************)
(* The kernel's services that share no state with one another: the         *)
(* semaphore under its clients, and the two memory managers, of which a    *)
(* build has one.  A behaviour exercises one of them, turn, from its       *)
(* initial state; the others keep theirs.                                  *)
(***************************************************************************)
EXTENDS MCSemMutex, FirstFit, Buddy

VARIABLE turn

MCVars == <<allVars, mmVars, buddyVars, turn>>

MCInit ==
    /\ turn \in {"semaphore", "first fit", "buddy"}
    /\ ClientInit /\ mm_init /\ buddy_mm_init

MCNext ==
    \/ turn = "semaphore" /\ Next /\ UNCHANGED <<mmVars, buddyVars, turn>>
    \/ turn = "first fit" /\ MmNext /\ UNCHANGED <<allVars, buddyVars, turn>>
    \/ turn = "buddy" /\ BuddyNext /\ UNCHANGED <<allVars, mmVars, turn>>

\* Only first fit has a liveness property.
MCSpec == MCInit /\ [][MCNext]_MCVars /\ MmFairness

=============================================================================
