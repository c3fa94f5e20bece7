-------------------------- MODULE GovernedCapsule --------------------------
(***************************************************************************)
(* What the runtime promises about one piece of work, with nothing said    *)
(* about terminals, ledgers or deaths: it is created in the initial state, *)
(* moves only along the transitions of its brief, is complete exactly when *)
(* it reaches a state with no way on, and once complete or frozen it stays *)
(* as it is.                                                               *)
(***************************************************************************)

CONSTANTS States, Initial, None,
          Moves     \* the pairs of states the brief joins

VARIABLE item       \* None, or the state and the status of the capsule

Open == item # None /\ item.status \in {"PENDING", "IN_PROGRESS"}

Last(state) == ~ \E t \in States : <<state, t>> \in Moves

Init == item = None

Create == /\ item = None
          /\ item' = [state |-> Initial, status |-> "PENDING"]

Move == /\ Open
        /\ \E to \in States :
               /\ <<item.state, to>> \in Moves
               /\ item' = [state |-> to,
                           status |-> IF Last(to) THEN "COMPLETE" ELSE "IN_PROGRESS"]

Freeze == /\ Open
          /\ item' = [item EXCEPT !.status = "NON_CONFORMANCE"]

Next == Create \/ Move \/ Freeze

Spec == Init /\ [][Next]_item
=============================================================================
