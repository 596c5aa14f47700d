----------------------------- MODULE DurableData -----------------------------
(***************************************************************************)
(* What core/modules/Database promises of the data of the players, however  *)
(* writes overlap, fail, or are cut off: the disk always holds a state that *)
(* the data was in and follows them without ever going back; a panel that   *)
(* starts goes on from exactly what it finds, or, only when that cannot be  *)
(* loaded, from the copy; and with neither it does not start, as data that  *)
(* are taken for new would be written over the old ones.                    *)
(*                                                                         *)
(* The data are told apart by the number of changes that made them.         *)
(***************************************************************************)
EXTENDS Naturals

CONSTANT NoCopy     \* no number

VARIABLES
    up,         \* the panel runs
    live,       \* the data in memory
    disk,       \* the data on the disk
    intact,     \* they can be loaded
    copy        \* the data in the backup, or NoCopy

vars == <<up, live, disk, intact, copy>>

Init ==
    /\ up = FALSE
    /\ live = 0
    /\ disk = 0
    /\ intact = TRUE
    /\ copy = NoCopy

Commit ==
    /\ up
    /\ live' = live + 1
    /\ UNCHANGED <<up, disk, intact, copy>>

\* A write that was begun earlier may be behind the data, and another change
\* may come while it lasts.
Save ==
    /\ up
    /\ disk' \in disk .. live
    /\ UNCHANGED <<up, live, intact, copy>>

\* A copy that fails may have destroyed the one before.
Copy ==
    /\ up
    /\ copy' \in {disk, NoCopy}
    /\ UNCHANGED <<up, live, disk, intact>>

\* The panel ends, or is killed: what is in memory is lost, and so may be what
\* is being written.
Stop ==
    /\ up
    /\ up' = FALSE
    /\ intact' \in BOOLEAN
    /\ copy' \in {copy, NoCopy}
    /\ UNCHANGED <<live, disk>>

Start ==
    /\ ~up
    /\ \/ intact /\ disk' = disk
       \/ ~intact /\ copy # NoCopy /\ disk' = copy
    /\ live' = disk'
    /\ up' = TRUE
    /\ intact' = TRUE
    /\ UNCHANGED copy

Next == Commit \/ Save \/ Copy \/ Stop \/ Start

Spec == Init /\ [][Next]_vars

=============================================================================
