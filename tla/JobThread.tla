----------------------------- MODULE JobThread -----------------------------
(***************************************************************************)
(* What a coordinator's thread promises to the daemon that has started it, *)
(* and what ServerDaemon takes from it: it reaches at most one outcome to  *)
(* report; until then it can be told to abort, and only then may it end    *)
(* without an outcome; and an outcome is never replaced.                   *)
(***************************************************************************)

VARIABLE thread

Init == thread = "running"

Abort == thread = "running" /\ thread' = "aborting"

\* An abort that comes too late for the run of the job does not prevent this.
Ends == /\ thread \in {"running", "aborting"}
        /\ thread' \in {"completed", "failed"}

GivesUp == thread = "aborting" /\ thread' = "over"

Next == Abort \/ Ends \/ GivesUp

Spec == Init /\ [][Next]_thread

=============================================================================
