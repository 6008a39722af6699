----------------------------- MODULE FillLedger -----------------------------
(***************************************************************************)
(* What the order store promises about executed quantity, and nothing      *)
(* else: an order's filled quantity moves only when a broker execution     *)
(* that was never booked before is booked, by exactly that execution's     *)
(* quantity, and never beyond the order's quantity.  A restart may return  *)
(* an order to an earlier point (what had been read of it and kept), never *)
(* to a state that was not reached this way.  Orders are read one by one,  *)
(* so the points may be of different times; a reading that is of no use    *)
(* counts as none.                                                         *)
(***************************************************************************)
EXTENDS Integers

CONSTANTS Orders, Quantity, Executions

VARIABLES
  account,     \* order -> its filled quantity and the executions booked for it
  reading,     \* what was read of each order so far
  exported     \* what was kept

ledger == <<account, reading, exported>>

Empty == [o \in Orders |-> [filled |-> 0, booked |-> {}]]

\* Booking e for order o raises o's filled quantity by q.
Book(o, e, q) ==
  /\ \A p \in Orders : e \notin account[p].booked
  /\ account[o].filled + q <= Quantity[o]
  /\ account' = [account EXCEPT ![o] = [filled |-> @.filled + q, booked |-> @.booked \cup {e}]]
  /\ UNCHANGED <<reading, exported>>

Read(o) ==
  /\ reading' = [reading EXCEPT ![o] = account[o]]
  /\ UNCHANGED <<account, exported>>

Keep ==
  /\ exported' \in {reading, Empty}
  /\ reading' = Empty
  /\ UNCHANGED account

\* A restart: the empty ledger or the exported one.
Restore ==
  /\ account' \in {Empty, exported}
  /\ reading' = Empty
  /\ UNCHANGED exported

Init == account = Empty /\ reading = Empty /\ exported = Empty

Next ==
  \/ \E o \in Orders, e \in Executions : \E q \in 1..Quantity[o] : Book(o, e, q)
  \/ \E o \in Orders : Read(o)
  \/ Keep
  \/ Restore

Spec == Init /\ [][Next]_ledger

=============================================================================
