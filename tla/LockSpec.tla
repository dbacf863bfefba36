------------------------------ MODULE LockSpec ------------------------------
(***************************************************************************)
(* What the repository lock promises, without its requests: a cell that    *)
(* holds the lock of one run or of a foreign client, or nothing.  It       *)
(* changes hands only through the empty cell.  A run enters the repository *)
(* only while the cell is its own, and while it is inside nobody takes the *)
(* cell from it.  A run that has left may leave its lock behind, and the   *)
(* lock of a run that has left can be removed.                             *)
(***************************************************************************)
CONSTANTS Run, Foreign, Empty

VARIABLES
  cell,   \* whose lock it is
  phase   \* outside, inside or gone, for each run

Init ==
  /\ cell \in {Empty} \cup Foreign
  /\ phase = [r \in Run |-> "outside"]

\* A request of run r claims the empty cell; it may arrive after r has gone.
Claim(r) ==
  /\ cell = Empty
  /\ phase[r] # "inside"
  /\ cell' = r
  /\ \/ UNCHANGED phase
     \/ phase[r] = "outside" /\ phase' = [phase EXCEPT ![r] = "inside"]
     \/ phase[r] = "outside" /\ phase' = [phase EXCEPT ![r] = "gone"]

Enter(r) ==
  /\ cell = r /\ phase[r] = "outside"
  /\ phase' = [phase EXCEPT ![r] = "inside"]
  /\ UNCHANGED cell

\* A run leaves with its lock removed, or with its lock left behind.
Leave(r) ==
  /\ phase[r] = "inside" /\ cell = r
  /\ cell' \in {Empty, cell}
  /\ phase' = [phase EXCEPT ![r] = "gone"]

GiveUp(r) ==
  /\ phase[r] = "outside"
  /\ phase' = [phase EXCEPT ![r] = "gone"]
  /\ UNCHANGED cell

\* The lock of a run that is gone, or of a foreign client, is removed.
Remove ==
  /\ cell # Empty
  /\ cell \in Run => phase[cell] = "gone"
  /\ cell' = Empty
  /\ UNCHANGED phase

Next ==
  \/ \E r \in Run : Claim(r) \/ Enter(r) \/ Leave(r) \/ GiveUp(r)
  \/ Remove

vars == <<cell, phase>>

Spec == Init /\ [][Next]_vars

-----------------------------------------------------------------------------
\* While a run is inside the repository the cell is its own.
Inside == \A r \in Run : phase[r] = "inside" => cell = r
=============================================================================
