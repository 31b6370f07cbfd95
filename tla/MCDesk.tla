------------------------------- MODULE MCDesk -------------------------------
(***************************************************************************)
(* An instance of the desk for TLC.                                        *)
(***************************************************************************)
EXTENDS DeskSafety

Invocations == {"cron", "manual"}

\* The bound that keeps the run small: the clock runs to its end while nothing
\* fails and nobody else moves; otherwise it stands still, but for one second
\* under others' moves.
OneTrouble ==
    \/ faults' = 0 /\ moves' = 0
    \/ faults' = 0 /\ portfolio'.now = 1
    \/ portfolio'.policyEnd > MaxTime /\ portfolio'.now <= 2 - faults'

MCSpec ==
    /\ Init /\ [][Next /\ OneTrouble]_vars
    /\ \A k \in Ticks : WF_vars(Start(k)) /\ WF_vars(Step(k))
    /\ WF_vars(CloseBlock)

=============================================================================
