------------------------- MODULE DerivativeSelection -------------------------
(***************************************************************************)
(* The contract selection of internal/derivatives/selection.go: which      *)
(* future and which option a signal of an approved index is traded in, and *)
(* whether the option's own quote may price it.                            *)
(*                                                                         *)
(* A master is the sequence of instruments in the order of their           *)
(* identities (Master.Instruments sorts them); an instrument is a record   *)
(* [id, kind, underlying, expiry, strike, option, lot, tick, mapped], where *)
(* expiry is a day and mapped the set of days on which the provider's      *)
(* mapping is valid.  A time is a number of units; a day has DayLength.    *)
(***************************************************************************)
EXTENDS Integers, Sequences, FiniteSets, FiniteSetsExt

CONSTANTS DayLength,    \* units of time in a day
          Underlyings,  \* the approved indices
          Nothing       \* the absent value

Day(at) == at \div DayLength

(* Policy.validate. *)
ValidPolicy(policy) ==
    /\ policy.underlying \in Underlyings
    /\ policy.minDays >= 0 /\ policy.maxDays >= policy.minDays
    /\ policy.eachSide >= 0
    /\ policy.spreadBPS \in 0 .. 10000
    /\ policy.book > 0 /\ policy.age > 0

(* The positions in the master of the instruments matching() returns. *)
Matching(master, kind, underlying) ==
    {i \in DOMAIN master : master[i].kind = kind /\ master[i].underlying = underlying}

(* Master.ResolveInstrument: the provider's mapping is valid at that time. *)
IsMapped(instrument, at) == Day(at) \in instrument.mapped

(***************************************************************************)
(* The future.  The loop keeps the nearest expiry seen so far and gives up *)
(* when an instrument repeats it, so two later contracts of one expiry are *)
(* ambiguous only when both precede the nearest one.                       *)
(***************************************************************************)
EligibleFutures(master, at, policy) ==
    {i \in Matching(master, "FUTURE", policy.underlying) :
        master[i].expiry >= Day(at) + policy.minDays}

AmbiguousFuture(master, eligible) ==
    \E i, j \in eligible :
        /\ i < j
        /\ master[i].expiry = master[j].expiry
        /\ \A k \in eligible : k < j => master[k].expiry >= master[j].expiry

ResolveFuture(master, at, policy) ==
    LET eligible == EligibleFutures(master, at, policy)
        chosen   == CHOOSE i \in eligible :
                       \A j \in eligible : master[i].expiry <= master[j].expiry
    IN IF \/ eligible = {}
          \/ AmbiguousFuture(master, eligible)
          \/ ~IsMapped(master[chosen], at)
       THEN Nothing
       ELSE master[chosen]

(***************************************************************************)
(* The option: the nearest expiry in the window, the strike nearest to the *)
(* future's price with half-up ties, and its neighbourhood.                *)
(***************************************************************************)
OptionExpiries(master, at, policy) ==
    {master[i].expiry : i \in {j \in Matching(master, "OPTION", policy.underlying) :
        master[j].expiry \in (Day(at) + policy.minDays) .. (Day(at) + policy.maxDays)}}

ExpiringOptions(master, at, policy) ==
    LET nearest == Min(OptionExpiries(master, at, policy))
    IN {i \in Matching(master, "OPTION", policy.underlying) : master[i].expiry = nearest}

(* The distances between neighbouring strikes. *)
Intervals(strikes) ==
    {Min({t \in strikes : t > s}) - s : s \in strikes \ {Max(strikes)}}

RoundHalfUp(value, interval) ==
    LET lower == (value \div interval) * interval
    IN IF value - lower >= interval - (value - lower) THEN lower + interval ELSE lower

(* The strikes within eachSide places of the target. *)
Neighbourhood(strikes, target, eachSide) ==
    {s \in strikes : Cardinality({t \in strikes :
        (s <= t /\ t < target) \/ (target < t /\ t <= s)}) <= eachSide}

Selection(future, universe, option) ==
    [future |-> future, universe |-> universe, option |-> option]

Resolve(master, at, reference, optionType, policy) ==
    LET future   == ResolveFuture(master, at, policy)
        options  == ExpiringOptions(master, at, policy)
        strikes  == {master[i].strike : i \in options}
        interval == CHOOSE d \in Intervals(strikes) : TRUE
        target   == RoundHalfUp(reference, interval)
        universe == {i \in options :
                       /\ master[i].option = optionType
                       /\ master[i].strike \in
                             Neighbourhood(strikes, target, policy.eachSide)}
        atTarget == {i \in universe : master[i].strike = target}
    IN IF \/ future = Nothing
          \/ OptionExpiries(master, at, policy) = {}
          \/ Cardinality(strikes) < 2
          \/ Cardinality(Intervals(strikes)) # 1
          \/ target \notin strikes
          \/ \E i \in universe : ~IsMapped(master[i], at)
          \/ Cardinality(atTarget) # 1
       THEN Nothing
       ELSE Selection(future, {master[i] : i \in universe},
                      master[CHOOSE i \in atTarget : TRUE])

(***************************************************************************)
(* EvaluateExecutionQuote: the price at which a side may trade the option, *)
(* or 0.  A quote is [instrument, at, ltp, bid, ask, depth]; a missing     *)
(* book level is 0.                                                        *)
(***************************************************************************)
HasBook(quote) == quote.bid > 0 /\ quote.ask > 0

GoodBook(quote, policy) ==
    /\ quote.depth >= policy.book
    /\ quote.ask >= quote.bid
    /\ (quote.ask - quote.bid) * 20000 <= (quote.ask + quote.bid) * policy.spreadBPS

ExecutionPrice(option, quote, side, now, policy) ==
    LET touch == IF side = "BUY" THEN quote.ask ELSE quote.bid
    IN IF quote = Nothing THEN 0
       ELSE IF \/ quote.instrument # option.id
               \/ now < quote.at
               \/ now - quote.at > policy.age
       THEN 0
       ELSE IF HasBook(quote)
       THEN IF GoodBook(quote, policy) /\ touch % option.tick = 0 THEN touch ELSE 0
       ELSE IF policy.ltp /\ quote.ltp % option.tick = 0 THEN quote.ltp ELSE 0
=============================================================================
