--------------------------- MODULE TokenFairness ---------------------------
(***************************************************************************)
(* The token scheduler with a history variable that counts how often one   *)
(* node is granted the air while another one waits in the active queue.    *)
(* The variable is not part of the code.                                   *)
(***************************************************************************)
EXTENDS TokenScheduler

CONSTANTS
    Waiter,    \* the node whose wait is measured
    Overtaker  \* the node whose grants are counted meanwhile

VARIABLE overtaken  \* grants of Overtaker since Waiter took its seat or was
                    \* last granted; 0 while Waiter has no seat

\* A cap on the counter, above what BoundedBypass allows.
MaxOvertaken == 3

FInit == Init /\ overtaken = 0

CountOvertaking ==
    overtaken' =
        IF Waiter \notin Active' \/ Waiter \notin Active THEN 0
        ELSE IF protectedNode = NoNode /\ protectedNode' = Waiter THEN 0
        ELSE IF protectedNode = NoNode /\ protectedNode' = Overtaker
             THEN SatAdd(overtaken, 1, MaxOvertaken)
        ELSE overtaken

FNext == Next /\ CountOvertaking

FSpec == FInit /\ [][FNext]_<<schedVars, overtaken>>

\* Round robin with removals and re-entries is still fair: while a node waits
\* in the active queue no other node is granted the air more than twice.  (Once
\* is not enough: a node removed after its turn and appended again by a new
\* READY stands behind the cursor and may come round before the wrap.)
BoundedBypass == overtaken <= 2

=============================================================================
