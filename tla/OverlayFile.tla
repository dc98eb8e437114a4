---------------------------- MODULE OverlayFile ----------------------------
(***************************************************************************)
(* What the users of one path are promised: one file, which shows what was *)
(* last written to it, whether it comes from the host or from the sandbox. *)
(* A writer may be copying the host's file, and whoever removes the file   *)
(* may not be done yet; nobody sees that, unless something fails.          *)
(***************************************************************************)
CONSTANTS
    Writers,  \* who opens and removes the path
    Absent,   \* there is nothing at the path
    Lower,    \* the content of the host's file
    Faults    \* may a copy or a removal fail in the middle?

VARIABLES
    shown,    \* what is at the path: Absent or a content
    current,  \* writers whose open handle is on what is there now
    underway  \* writers in the middle of a copy or of a removal

\* A directory and a symbolic link count as contents.
Init == shown \in {Absent, Lower} /\ current = {} /\ underway = {}

Open(w)  == shown # Absent /\ current' = current \cup {w} /\ UNCHANGED <<shown, underway>>
Close(w) == current' = current \ {w} /\ UNCHANGED <<shown, underway>>

Write(w) ==
    /\ w \in current /\ shown' \in {w, "empty"}
    /\ UNCHANGED <<current, underway>>

Create(w) ==
    /\ shown = Absent /\ shown' = "empty"
    /\ current' = {w} /\ UNCHANGED underway

Make ==
    /\ shown = Absent /\ shown' \in {"Dir", "Symlink"}
    /\ UNCHANGED <<current, underway>>

\* Gone at once, for good when it is settled.
Remove(w) ==
    /\ shown # Absent /\ shown' = Absent /\ current' = {}
    /\ underway' \in {underway, underway \cup {w}}

\* A writer copies the host's file, and everybody goes on seeing that.
Copy(w) ==
    /\ w \in current /\ shown = Lower
    /\ underway' = underway \cup {w} /\ UNCHANGED <<shown, current>>

Settle(w) == underway' = underway \ {w} /\ UNCHANGED <<shown, current>>

\* A copy that is cut off leaves a part of the host's file; the writer may go on.
Spoil(w) ==
    /\ Faults /\ w \in underway /\ shown = Lower
    /\ shown' \in {"empty", "partial"} /\ current' \in {current, current \ {w}}
    /\ underway' = underway \ {w}

\* A removal that is not completed is undone if there is a host file.
Reappear(w) ==
    /\ Faults /\ w \in underway /\ shown = Absent
    /\ shown' = Lower /\ underway' = underway \ {w} /\ UNCHANGED current

Next ==
    \/ Make
    \/ \E w \in Writers :
         \/ Open(w) \/ Close(w) \/ Write(w) \/ Create(w) \/ Remove(w)
         \/ Copy(w) \/ Settle(w) \/ Spoil(w) \/ Reappear(w)

Spec == Init /\ [][Next]_<<shown, current, underway>>
=============================================================================
