---------------------------- MODULE MCIngestion ----------------------------
(* Two purchases whose average price is not an integer and a sale.  All three: the
   sale closes part of the position and rounds.  The second and the sale: it closes
   the position.  The first and the sale: it reverses it. *)
EXTENDS FillIngestion, TLC

CONSTANTS c1, c2, s1, s2

F(id, position, side, quantity, price, at) ==
  [id |-> id, position |-> position, side |-> side, quantity |-> quantity, price |-> price, at |-> at]

MCFill == <<F(1, "p", "BUY", 1, 3, 1), F(2, "p", "BUY", 2, 1, 1), F(3, "p", "SELL", 2, 4, 2)>>
MCCallers == {c1, c2}
MCSources == {s1, s2}
Symmetry == Permutations(MCCallers) \cup Permutations(MCSources)
MCFillIDs == DOMAIN MCFill
=============================================================================
