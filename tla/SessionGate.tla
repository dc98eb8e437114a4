---------------------------- MODULE SessionGate ----------------------------
(***************************************************************************)
(* What the shared-memory protocol promises, without the mutex, the count  *)
(* or the daemons: a gate that lets runs in while it is open, opens only   *)
(* on a server that is up, and never closes on a run that is inside.       *)
(***************************************************************************)
CONSTANT Runs

VARIABLES
    open,    \* the gate: a waiting run may go in
    inside   \* the runs that went in and have not come out

Init == open = FALSE /\ inside = {}

Open  == open' = TRUE /\ UNCHANGED inside

\* Closing the gate ends the session of everybody: nobody may be inside.
Close == inside = {} /\ open' = FALSE /\ UNCHANGED inside

GoIn(r) == open /\ inside' = inside \cup {r} /\ UNCHANGED open

\* A run comes out by itself or is killed.
ComeOut(r) == inside' = inside \ {r} /\ UNCHANGED open

Next == Open \/ Close \/ \E r \in Runs : GoIn(r) \/ ComeOut(r)

Spec == Init /\ [][Next]_<<open, inside>>
=============================================================================
