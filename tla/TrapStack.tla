----------------------------- MODULE TrapStack ------------------------------
(***************************************************************************)
(* What the privileged architecture promises a program: a mode and an      *)
(* interrupt enable, and one level of saved copies of both.  A trap pushes *)
(* onto that level, a return pops from it, and only the machine mode may   *)
(* change it in any other way.                                             *)
(***************************************************************************)

VARIABLES
    mode,     \* the mode the next instruction runs in
    enabled,  \* interrupts of machine mode are enabled
    saved     \* mode and enable of the interrupted program

vars == <<mode, enabled, saved>>

Modes == {"U", "M"}
Saved == [mode : Modes, enabled : BOOLEAN]

Init == /\ mode = "M"
        /\ enabled = FALSE
        /\ saved \in [mode : Modes, enabled : {FALSE}]

Trap == /\ mode' = "M"
        /\ enabled' = FALSE
        /\ saved' = [mode |-> mode, enabled |-> enabled]

Return == /\ mode = "M"
          /\ mode' = saved.mode
          /\ enabled' = saved.enabled
          /\ saved' = [mode |-> "U", enabled |-> TRUE]

\* The return of the supervisor mode, which is never entered by a trap: it
\* always leads to the user mode.
Drop == mode = "M" /\ mode' = "U" /\ UNCHANGED <<enabled, saved>>

Write == /\ mode = "M"
         /\ enabled' \in BOOLEAN
         /\ saved' \in Saved
         /\ UNCHANGED mode

Next == Trap \/ Return \/ Drop \/ Write

Safety == Init /\ [][Next]_vars
=============================================================================
