----------------------------- MODULE FreshReads -----------------------------
(***************************************************************************)
(* What the versioned cache promises: a read returns the data as some      *)
(* commit left it, and never as it was before a change whose cache bump    *)
(* had already been made when the read began.                              *)
(***************************************************************************)
EXTENDS Integers

CONSTANTS Readers, MaxWrites

VARIABLES
    db,      \* number of commits: the data is what the last of them left
    bumped,  \* newest commit that readers have been told about
    read     \* per reader: what it may not miss and what it got

vars == <<db, bumped, read>>

\* value is -1 while the read is under way or was abandoned.
Nothing == -1

Init ==
    /\ db = 0 /\ bumped = 0
    /\ read = [r \in Readers |-> [floor |-> 0, value |-> Nothing]]

Commit ==
    /\ db < MaxWrites
    /\ db' = db + 1
    /\ UNCHANGED <<bumped, read>>

Announce ==
    /\ bumped' \in bumped..db
    /\ UNCHANGED <<db, read>>

Start(r) ==
    /\ read' = [read EXCEPT ![r] = [floor |-> bumped, value |-> Nothing]]
    /\ UNCHANGED <<db, bumped>>

Return(r) ==
    /\ read[r].value = Nothing
    /\ \E v \in read[r].floor..db : read' = [read EXCEPT ![r].value = v]
    /\ UNCHANGED <<db, bumped>>

Next == Commit \/ Announce \/ \E r \in Readers : Start(r) \/ Return(r)

Spec == Init /\ [][Next]_vars
=============================================================================
