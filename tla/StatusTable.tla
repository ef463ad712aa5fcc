----------------------------- MODULE StatusTable -----------------------------
(***************************************************************************)
(* What the tables of allowed transitions promise of a row with a status:  *)
(* it moves along its table and nowhere else, and what it says changes     *)
(* with the moves that write it and while its status is open to edits.     *)
(***************************************************************************)
CONSTANTS
    Rows,
    Births,    \* <<row, status>> a row may begin with
    Moves,     \* <<row, status, status>> of the table
    Writing,   \* the moves that may write what the row says
    Editable,  \* <<row, status>> that admits an edit
    Absent

VARIABLE row   \* [status, data] of each row

Init == \A r \in Rows : row[r].status = Absent \/ <<r, row[r].status>> \in Births

Others(r) == \A s \in Rows \ {r} : row'[s] = row[s]

Create(r) ==
    /\ row[r].status = Absent
    /\ <<r, row'[r].status>> \in Births

Move(r) ==
    /\ <<r, row[r].status, row'[r].status>> \in Moves
    /\ \/ row'[r].data = row[r].data
       \/ <<r, row[r].status, row'[r].status>> \in Writing

Edit(r) ==
    /\ row'[r].status = row[r].status
    /\ <<r, row[r].status>> \in Editable

Remove(r) == row[r].status # Absent /\ row'[r].status = Absent

Next ==
    \E r \in Rows : (Create(r) \/ Move(r) \/ Edit(r) \/ Remove(r)) /\ Others(r)

Spec == Init /\ [][Next]_row
=============================================================================
