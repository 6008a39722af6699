---------------------------- MODULE OptionMachine ----------------------------
(***************************************************************************)
(* internal/derivatives/machine.go: the connected option machine.  A       *)
(* directional signal enters or leaves one option position; the option is  *)
(* the one DerivativeSelection resolves from the future's quote, except    *)
(* that an open position keeps its own contract until it is closed.        *)
(*                                                                         *)
(* Every method runs under the machine's lock, so each is one action.  The *)
(* owner may keep any snapshot the machine returned and, after a crash,    *)
(* builds a new machine and restores that snapshot.  The set of signals    *)
(* already seen is not part of a snapshot.                                 *)
(***************************************************************************)
EXTENDS DerivativeSelection, SequencesExt

CONSTANTS Master,       \* the instrument master
          Policy,       \* the derivatives policy
          Modes,        \* the modes the machine may be built for
          Signals,      \* the signals: records [id, at, spot, direction]
          Quotes,       \* the quotes that may accompany a signal
          Controls,     \* the controls: records [session, cas, stop]
          MaxProduct,   \* the largest integer a product may reach
          MaxFills,     \* bound: fills in a behaviour
          MaxRestarts   \* bound: crashes

VARIABLES mode, snapshot, seen, saved, restarts
machineVars == <<mode, snapshot, seen, saved, restarts>>

NoPosition == [instrument |-> Nothing, quantity |-> 0, entry |-> 0, mark |-> 0,
               basis |-> 0, unrealized |-> 0, realized |-> 0, open |-> FALSE]

Empty == [signal |-> Nothing, risk |-> Nothing, option |-> Nothing,
          fills |-> <<>>, position |-> NoPosition]

(* NewMachine. *)
MachineInit ==
    /\ ValidPolicy(Policy)
    /\ mode \in Modes
    /\ snapshot = Empty
    /\ seen = {}
    /\ saved = Empty
    /\ restarts = 0

(***************************************************************************)
(* apply                                                                   *)
(***************************************************************************)
Permitted(controls, exit) ==
    /\ ~controls.cas
    /\ controls.session = "NORMAL_TRADING" \/ (exit /\ controls.session = "EOD_CLOSE")
    /\ ~exit => ~controls.stop

IsNew(signal) == \A s \in seen : s.id # signal.id

FreshFuture(signal, quote) ==
    /\ quote # Nothing
    /\ quote.at <= signal.at
    /\ signal.at - quote.at <= Policy.age

(* The contract to trade: an exit keeps the open position's own. *)
Target(signal, futureQuote, exit) ==
    LET selection == Resolve(Master, signal.at, futureQuote.ltp, "CALL", Policy)
        held      == SelectSeq(Master, LAMBDA i : i.id = snapshot.position.instrument)
    IN IF \/ selection = Nothing
          \/ futureQuote.instrument # selection.future.id
       THEN Nothing
       ELSE IF ~exit THEN selection.option
       ELSE IF selection.option.id = snapshot.position.instrument THEN selection.option
       ELSE IF held = <<>> \/ ~IsMapped(held[1], signal.at) THEN Nothing
       ELSE held[1]

Fill(signal, option, side, quantity, price) ==
    [signal |-> signal.id, instrument |-> option.id, side |-> side,
     quantity |-> quantity, price |-> price, at |-> signal.at]

Entered(fill) ==
    [NoPosition EXCEPT !.instrument = fill.instrument, !.quantity = fill.quantity,
                       !.entry = fill.price, !.mark = fill.price,
                       !.basis = fill.quantity * fill.price, !.open = TRUE]

Exited(position, fill) ==
    [position EXCEPT !.mark = fill.price, !.unrealized = 0, !.open = FALSE,
                     !.realized = fill.quantity * fill.price - position.basis]

(* The decision on a new signal whose contract is resolved; the answer of  *)
(* the risk gate is the environment's.                                     *)
Decide(signal, option, exit) ==
    \E optionQuote \in Quotes, risk \in {"APPROVED", "REJECTED"} :
      LET side     == IF exit THEN "SELL" ELSE "BUY"
          price    == ExecutionPrice(option, optionQuote, side, signal.at, Policy)
          quantity == IF exit THEN snapshot.position.quantity ELSE option.lot
          fill     == Fill(signal, option, side, quantity, price)
          decided  == [snapshot EXCEPT !.signal = signal.id, !.risk = risk,
                                       !.option = option.id]
      IN /\ price > 0
         /\ seen' = seen \union {signal}
         /\ snapshot' =
               IF risk = "APPROVED" /\ mode = "PAPER" /\ quantity * price <= MaxProduct
               THEN [decided EXCEPT
                       !.fills = Append(@, fill),
                       !.position = IF exit THEN Exited(@, fill) ELSE Entered(fill)]
               ELSE decided

Apply(exit) ==
    /\ exit = snapshot.position.open
    /\ Len(snapshot.fills) < MaxFills
    /\ \E controls \in Controls : Permitted(controls, exit)
    /\ \E signal \in {s \in Signals : IsNew(s)}, futureQuote \in Quotes :
         /\ FreshFuture(signal, futureQuote)
         /\ LET option == Target(signal, futureQuote, exit)
            IN option # Nothing /\ Decide(signal, option, exit)
    /\ UNCHANGED <<mode, saved, restarts>>

Enter == Apply(FALSE)
Exit == Apply(TRUE)

(* Mark: the open position is valued at its own contract's last price. *)
Mark ==
    \E quote \in Quotes, now \in {s.at : s \in Signals} :
      LET position == snapshot.position
      IN /\ position.open
         /\ quote # Nothing
         /\ quote.instrument = position.instrument
         /\ quote.at <= now /\ now - quote.at <= Policy.age
         /\ position.quantity * quote.ltp <= MaxProduct
         /\ snapshot' = [snapshot EXCEPT !.position =
               [position EXCEPT !.mark = quote.ltp,
                                !.unrealized = position.quantity * quote.ltp - position.basis]]
         /\ UNCHANGED <<mode, seen, saved, restarts>>

(* The owner keeps the snapshot it was given. *)
Save ==
    /\ saved' = snapshot
    /\ saved # snapshot
    /\ UNCHANGED <<mode, snapshot, seen, restarts>>

(* A crash, NewMachine, and Restore of the kept snapshot. *)
Restart ==
    /\ restarts < MaxRestarts
    /\ restarts' = restarts + 1
    /\ snapshot' = saved
    /\ seen' = {}
    /\ UNCHANGED <<mode, saved>>

MachineNext == Enter \/ Exit \/ Mark \/ Save \/ Restart

MachineSpec == MachineInit /\ [][MachineNext]_machineVars

-----------------------------------------------------------------------------
(* The position is what the fills say: the last fill, and the profit of a *)
(* closed position is what its sale brought over what its purchase cost.  *)
PositionIsFills ==
    LET fills == snapshot.fills
        p     == snapshot.position
    IN /\ p.open <=> Len(fills) % 2 = 1
       /\ p.open => /\ p.instrument = Last(fills).instrument
                    /\ p.basis = Last(fills).quantity * Last(fills).price
       /\ (~p.open /\ fills # <<>>) =>
             p.realized = Last(fills).quantity * Last(fills).price
                          - fills[Len(fills) - 1].quantity * fills[Len(fills) - 1].price

(* A position is sold in the contract and the quantity it was bought in, *)
(* whatever the selection policy would choose by then.                   *)
NeverRolls ==
    \A i \in DOMAIN snapshot.fills :
        LET f == snapshot.fills[i]
        IN IF i % 2 = 1 THEN f.side = "BUY"
           ELSE /\ f.side = "SELL"
                /\ f.instrument = snapshot.fills[i - 1].instrument
                /\ f.quantity = snapshot.fills[i - 1].quantity

(* The option bought is a call, not yet within the minimum distance of its *)
(* expiry, and no option of the index expires between that and it.         *)
BoughtNearest ==
    \A i \in DOMAIN snapshot.fills : i % 2 = 1 =>
        LET f == snapshot.fills[i]
            c == (SelectSeq(Master, LAMBDA m : m.id = f.instrument))[1]
        IN /\ c.option = "CALL"
           /\ c.expiry >= Day(f.at) + Policy.minDays
           /\ \A k \in Matching(Master, "OPTION", Policy.underlying) :
                 Master[k].expiry \notin (Day(f.at) + Policy.minDays) .. (c.expiry - 1)

(* One incarnation acts on a signal once; SHADOW never fills at all. *)
OneFillPerSignal ==
    restarts = 0 => \A i, j \in DOMAIN snapshot.fills :
                        snapshot.fills[i].signal = snapshot.fills[j].signal => i = j

(* The machine's position, contracts and signals stay coherent: the        *)
(* position is the fills (machine.go:238-254), no position is migrated to  *)
(* another contract (machine.go:195-207), the contract bought is the       *)
(* nearest eligible one (selection.go:84-142), a signal is acted on once   *)
(* per incarnation (machine.go:181-186) and SHADOW holds nothing.          *)
OptionMachineInv ==
    /\ PositionIsFills
    /\ NeverRolls
    /\ BoughtNearest
    /\ OneFillPerSignal
    /\ mode = "SHADOW" => snapshot.fills = <<>>

(* What the identities promise: no signal is filled twice, a restart from  *)
(* a saved snapshot included.  The code forgets the signals it has seen    *)
(* (machine.go:291-298), so this does not hold.                            *)
SignalFilledOnce ==
    \A i, j \in DOMAIN snapshot.fills :
        snapshot.fills[i].signal = snapshot.fills[j].signal => i = j
=============================================================================
