------------------------ MODULE FinancialValuation ------------------------
(***************************************************************************)
(* Portfolio valuation: EvaluatePosition and Aggregate as operators over   *)
(* int64-like integers of MaxInt, and the coordinator's Value call, whose  *)
(* steps interleave with the accounting engine that changes the positions  *)
(* and with the market that changes the marks.  A position or mark         *)
(* manifest is modelled by the value it is the checksum of.                *)
(***************************************************************************)
EXTENDS Integers, Sequences, FiniteSets, Functions

CONSTANTS
  Nothing,
  Valuers,             \* goroutines that call Value
  Portfolios,          \* portfolio -> its set of position identities
  Books,               \* position -> the sequence of states the ledger gives it
  Quotes,              \* position -> the marks that may be shown for it
  MaxInt,              \* the largest representable amount
  MaxConcurrency,      \* Config.MaxConcurrency
  MaxAge, Skew,        \* Policy
  HistoryCapacity,     \* FinancialStore's publications per portfolio
  MaxValueTime,        \* bound on the clock
  MaxValueCalls        \* bound on the calls

VARIABLES
  valueTime, valueCalls,
  position,            \* position -> how far its ledger state has advanced
  mark,                \* position -> current mark or Nothing
  valuing,             \* caller -> the Value call it runs
  running, slots, valueClosed, valueShutdown,
  currentValue, lastComplete, valueHistory   \* the store, by portfolio

valueVars == <<valueTime, valueCalls, position, mark, valuing, running, slots, valueClosed,
               valueShutdown, currentValue, lastComplete, valueHistory>>

AllPositions == UNION {Portfolios[p] : p \in DOMAIN Portfolios}
State(x) == Books[x][position[x]]
PositionsOf(p) == [x \in Portfolios[p] |-> State(x)]
MarksOf(p) == [x \in Portfolios[p] |-> mark[x]]

(* What the ledger and the quotes give, and what the store holds of them.  *)
BookStates == [qty : Int, basis : Int, realized : Int, currency : STRING]
MarkStates ==
  [type : STRING, price : Int, currency : STRING, exchange : Int, ingested : Int, ready : BOOLEAN]
Snapshots ==
  [revision : Int, at : Int, status : {"COMPLETE", "STALE", "PARTIAL", "UNAVAILABLE"}, realized : Int,
   total : Int \cup {Nothing}, gross : Int \cup {Nothing}, net : Int \cup {Nothing}]
Entries(p) ==
  [value : Snapshots, at : Int, positions : [Portfolios[p] -> BookStates],
   marks : [Portfolios[p] -> MarkStates \cup {Nothing}], together : BOOLEAN]

\* A position snapshot holds its revision, and its manifest with it: no state comes back.
ASSUME ValuationAssumption ==
  /\ IsFiniteSet(Valuers) /\ MaxConcurrency \in Nat /\ HistoryCapacity \in Nat
  /\ MaxInt \in Nat /\ MaxAge \in Int /\ Skew \in Int
  /\ \A p \in DOMAIN Portfolios : IsFiniteSet(Portfolios[p]) /\ Nothing \notin Entries(p)
  /\ \A x \in AllPositions :
       /\ Books[x] \in Seq(BookStates) /\ Books[x] # <<>>
       /\ \A i, j \in DOMAIN Books[x] : Books[x][i] = Books[x][j] => i = j
       /\ Quotes[x] \subseteq MarkStates
  /\ Nothing \notin Int /\ Nothing \notin MarkStates

Fits(n) == -MaxInt - 1 <= n /\ n <= MaxInt
Abs(n) == IF n < 0 THEN -n ELSE n

-----------------------------------------------------------------------------
(* EvaluatePosition *)

Skewed(m, at) ==
  \/ m.exchange > at + Skew
  \/ m.ingested > at + Skew
  \/ m.exchange > m.ingested + Skew

IsStale(m, at) == ~m.ready \/ at - m.exchange > MaxAge \/ at - m.ingested > MaxAge

Unvalued(s, reason) ==
  [status |-> "UNAVAILABLE", reason |-> reason, qty |-> s.qty, realized |-> s.realized,
   market |-> Nothing, unrealized |-> Nothing]

(* The error outcomes of the arithmetic. *)
Overflows(s, m) ==
  \/ m.price > MaxInt \div Abs(s.qty)
  \/ ~Fits(IF s.qty > 0 THEN m.price * s.qty - s.basis ELSE s.basis + m.price * s.qty)
  \/ ~Fits(s.realized + IF s.qty > 0 THEN m.price * s.qty - s.basis
                        ELSE s.basis + m.price * s.qty)

EvaluatePosition(s, m, at) ==
  IF s.qty = 0
  THEN [status |-> "COMPLETE", reason |-> "NONE", qty |-> 0, realized |-> s.realized,
        market |-> 0, unrealized |-> 0]
  ELSE IF m = Nothing THEN Unvalued(s, "MISSING_MARK")
  ELSE IF m.type # "LAST_TRADED_PRICE" \/ m.price <= 0 THEN Unvalued(s, "INVALID_PRICE")
  ELSE IF m.currency # s.currency THEN Unvalued(s, "CURRENCY_MISMATCH")
  ELSE IF Skewed(m, at) THEN Unvalued(s, "CLOCK_SKEW")
  ELSE IF Overflows(s, m) THEN Nothing
  ELSE [status |-> IF IsStale(m, at) THEN "STALE" ELSE "COMPLETE",
        reason |-> IF IsStale(m, at) THEN "STALE_MARK" ELSE "NONE",
        qty |-> s.qty, realized |-> s.realized,
        market |-> m.price * Abs(s.qty),
        unrealized |-> IF s.qty > 0 THEN m.price * s.qty - s.basis
                       ELSE s.basis - m.price * Abs(s.qty)]

(* Aggregate: one position that cannot be valued withholds every total.    *)
Total(S, v, field) == SumFunction([x \in S |-> v[x][field]])

PortfolioStatus(v) ==
  LET open == {x \in DOMAIN v : v[x].qty # 0}
      valued == {x \in open : v[x].status # "UNAVAILABLE"}
  IN  IF open # {} /\ valued = {} THEN "UNAVAILABLE"
      ELSE IF \E x \in DOMAIN v : v[x].status = "UNAVAILABLE" THEN "PARTIAL"
      ELSE IF \E x \in DOMAIN v : v[x].status = "STALE" THEN "STALE"
      ELSE "COMPLETE"

Aggregate(revision, v, at) ==
  LET known == {x \in DOMAIN v : v[x].unrealized # Nothing}
      long == Total({x \in known : v[x].qty > 0}, v, "market")
      short == Total({x \in known : v[x].qty < 0}, v, "market")
      realized == Total(DOMAIN v, v, "realized")
      unrealized == Total(known, v, "unrealized")
      status == PortfolioStatus(v)
      totals == status \in {"COMPLETE", "STALE"}
      fits == {realized, unrealized, long, short} \cup
              (IF totals THEN {realized + unrealized, long + short, long - short} ELSE {})
  IN  IF \E n \in fits : ~Fits(n) THEN Nothing
      ELSE [revision |-> revision, at |-> at, status |-> status, realized |-> realized,
            total |-> IF totals THEN realized + unrealized ELSE Nothing,
            gross |-> IF totals THEN long + short ELSE Nothing,
            net |-> IF totals THEN long - short ELSE Nothing]

-----------------------------------------------------------------------------
NotValuing == [pc |-> "idle", portfolio |-> Nothing, at |-> 0, positions |-> Nothing,
         marks |-> Nothing, valuations |-> Nothing, parent |-> Nothing,
         snapshot |-> Nothing, together |-> FALSE, answer |-> "none"]

ValuationInit ==
  /\ valueTime = 0 /\ valueCalls = 0
  /\ position = [x \in AllPositions |-> 1]
  /\ mark = [x \in AllPositions |-> Nothing]
  /\ valuing = [c \in Valuers |-> NotValuing]
  /\ running = {} /\ slots = 0 /\ valueClosed = FALSE /\ valueShutdown = "none"
  /\ currentValue = [p \in DOMAIN Portfolios |-> Nothing]
  /\ lastComplete = [p \in DOMAIN Portfolios |-> Nothing]
  /\ valueHistory = [p \in DOMAIN Portfolios |-> <<>>]

ValueSources == <<valueTime, position, mark>>
ValueStore == <<currentValue, lastComplete, valueHistory>>

(* Leaving Value: the semaphore slot and the reservation are given back.   *)
Leave(c, answer) ==
  /\ valuing' = [valuing EXCEPT ![c] = [NotValuing EXCEPT !.answer = answer]]
  /\ running' = running \ {valuing[c].portfolio}
  /\ slots' = IF valuing[c].pc = "acquire" THEN slots ELSE slots - 1

ValuingAt(c, pc) == valuing[c].pc = pc

(* reserve: one call per portfolio at a time, none after Shutdown. *)
ReservePortfolio(c, p) ==
  /\ ValuingAt(c, "idle") /\ valueCalls < MaxValueCalls
  /\ valueCalls' = valueCalls + 1
  /\ IF valueClosed \/ p \in running
     THEN /\ valuing' = [valuing EXCEPT ![c] = [NotValuing EXCEPT
                               !.answer = IF valueClosed THEN "shutdown" ELSE "duplicate"]]
          /\ UNCHANGED running
     ELSE /\ valuing' = [valuing EXCEPT ![c] = [NotValuing EXCEPT !.pc = "acquire", !.portfolio = p,
                                                      !.at = valueTime]]
          /\ running' = running \cup {p}
  /\ UNCHANGED <<slots, valueClosed, valueShutdown, ValueSources, ValueStore>>

Acquire(c) ==
  /\ ValuingAt(c, "acquire") /\ slots < MaxConcurrency
  /\ slots' = slots + 1
  /\ valuing' = [valuing EXCEPT ![c].pc = "positions"]
  /\ UNCHANGED <<valueCalls, running, valueClosed, valueShutdown, ValueSources, ValueStore>>

(* The caller's context, the timeout or Shutdown's cancel ends the call at *)
(* any blocking step.                                                      *)
AbortValuation(c) ==
  /\ valuing[c].pc # "idle"
  /\ Leave(c, "cancelled")
  /\ UNCHANGED <<valueCalls, valueClosed, valueShutdown, ValueSources, ValueStore>>

ReadPositions(c) ==
  /\ ValuingAt(c, "positions")
  /\ valuing' = [valuing EXCEPT ![c].pc = "marks", ![c].positions = PositionsOf(valuing[c].portfolio)]
  /\ UNCHANGED <<valueCalls, running, slots, valueClosed, valueShutdown, ValueSources, ValueStore>>

(* The marks are read and every position is valued; an overflow fails the  *)
(* whole call.                                                             *)
ReadMarks(c) ==
  LET p == valuing[c].portfolio
      v == [x \in Portfolios[p] |-> EvaluatePosition(valuing[c].positions[x], mark[x], valuing[c].at)]
  IN  /\ ValuingAt(c, "marks")
      /\ IF \E x \in Portfolios[p] : v[x] = Nothing
         THEN Leave(c, "overflow")
         ELSE /\ valuing' = [valuing EXCEPT ![c].pc = "current", ![c].marks = MarksOf(p),
                                      ![c].valuations = v,
                                      ![c].together = valuing[c].positions = PositionsOf(p)]
              /\ UNCHANGED <<running, slots>>
      /\ UNCHANGED <<valueCalls, valueClosed, valueShutdown, ValueSources, ValueStore>>

(* The current snapshot gives the next revision, or is the answer when it  *)
(* was taken at the same time from the same sources.                       *)
SameSources(c) ==
  LET s == currentValue[valuing[c].portfolio]
  IN  s.at = valuing[c].at /\ s.positions = valuing[c].positions /\ s.marks = valuing[c].marks

ReadCurrent(c) ==
  LET s == currentValue[valuing[c].portfolio]
      revision == IF s = Nothing THEN 1 ELSE s.value.revision + 1
      snapshot == Aggregate(revision, valuing[c].valuations, valuing[c].at)
  IN  /\ ValuingAt(c, "current")
      /\ IF (IF s = Nothing THEN FALSE ELSE SameSources(c)) THEN Leave(c, "idempotent")
         ELSE IF snapshot = Nothing THEN Leave(c, "overflow")
         ELSE /\ valuing' = [valuing EXCEPT ![c].pc = "verify", ![c].parent = s,
                                      ![c].snapshot = snapshot]
              /\ UNCHANGED <<running, slots>>
      /\ UNCHANGED <<valueCalls, valueClosed, valueShutdown, ValueSources, ValueStore>>

(* Mutant of SamePositions: the second read of the positions is skipped. *)
PositionsTrusted(c) == TRUE

SamePositions(c) == valuing[c].positions = PositionsOf(valuing[c].portfolio)

VerifyPositions(c) ==
  /\ ValuingAt(c, "verify")
  /\ IF SamePositions(c)
     THEN valuing' = [valuing EXCEPT ![c].pc = "verifyMarks"] /\ UNCHANGED <<running, slots>>
     ELSE Leave(c, "changed")
  /\ UNCHANGED <<valueCalls, valueClosed, valueShutdown, ValueSources, ValueStore>>

VerifyMarks(c) ==
  /\ ValuingAt(c, "verifyMarks")
  /\ IF valuing[c].marks = MarksOf(valuing[c].portfolio)
     THEN valuing' = [valuing EXCEPT ![c].pc = "publish"] /\ UNCHANGED <<running, slots>>
     ELSE Leave(c, "changed")
  /\ UNCHANGED <<valueCalls, valueClosed, valueShutdown, ValueSources, ValueStore>>

(* FinancialStore.Publish: compare-and-swap on the parent's checkpoint.    *)
PublishSnapshot(c) ==
  LET p == valuing[c].portfolio
      entry == [value |-> valuing[c].snapshot, at |-> valuing[c].at,
                positions |-> valuing[c].positions, marks |-> valuing[c].marks,
                together |-> valuing[c].together]
  IN  /\ ValuingAt(c, "publish")
      /\ IF currentValue[p] # valuing[c].parent THEN Leave(c, "stale") /\ UNCHANGED ValueStore
         ELSE IF Len(valueHistory[p]) >= HistoryCapacity
         THEN Leave(c, "capacity") /\ UNCHANGED ValueStore
         ELSE /\ currentValue' = [currentValue EXCEPT ![p] = entry]
              /\ lastComplete' = IF entry.value.status = "COMPLETE"
                                 THEN [lastComplete EXCEPT ![p] = entry] ELSE lastComplete
              /\ valueHistory' = [valueHistory EXCEPT ![p] = Append(@, entry)]
              /\ Leave(c, "published")
      /\ UNCHANGED <<valueCalls, valueClosed, valueShutdown, ValueSources>>

(* Shutdown closes and cancels at once, then waits for the calls. *)
ShutdownValuation ==
  /\ ~valueClosed /\ valueClosed' = TRUE /\ valueShutdown' = "waiting"
  /\ UNCHANGED <<valueCalls, valuing, running, slots, ValueSources, ValueStore>>

ValuationStopped ==
  /\ valueShutdown = "waiting" /\ running = {} /\ valueShutdown' = "returned"
  /\ UNCHANGED <<valueCalls, valuing, running, slots, valueClosed, ValueSources, ValueStore>>

(* The environment: a fill advances a position, a quote replaces a mark.   *)
SourcesMove ==
  /\ \/ /\ \E x \in AllPositions : /\ position[x] < Len(Books[x])
                                   /\ position' = [position EXCEPT ![x] = @ + 1]
        /\ UNCHANGED <<mark, valueTime>>
     \/ /\ \E x \in AllPositions, m \in UNION {Quotes[y] : y \in AllPositions} :
             m \in Quotes[x] /\ mark[x] # m /\ mark' = [mark EXCEPT ![x] = m]
        /\ UNCHANGED <<position, valueTime>>
     \/ valueTime < MaxValueTime /\ valueTime' = valueTime + 1 /\ UNCHANGED <<position, mark>>
  /\ UNCHANGED <<valueCalls, valuing, running, slots, valueClosed, valueShutdown, ValueStore>>

ValuationNext ==
  \/ \E c \in Valuers :
       \/ \E p \in DOMAIN Portfolios : ReservePortfolio(c, p)
       \/ Acquire(c) \/ AbortValuation(c) \/ ReadPositions(c) \/ ReadMarks(c) \/ ReadCurrent(c)
       \/ VerifyPositions(c) \/ VerifyMarks(c) \/ PublishSnapshot(c)
  \/ ShutdownValuation \/ ValuationStopped
  \/ SourcesMove

ValuationSpec == ValuationInit /\ [][ValuationNext]_valueVars

-----------------------------------------------------------------------------
ValuationCounts ==
  /\ slots \in 0..MaxConcurrency
  /\ running = {valuing[c].portfolio : c \in {d \in Valuers : valuing[d].pc # "idle"}}
  /\ \A p \in DOMAIN Portfolios : Len(valueHistory[p]) <= HistoryCapacity

(* Every published snapshot values positions and marks that the sources    *)
(* showed together at one instant of the call, although they are read one  *)
(* after the other while both change.                                      *)
ValuesOneInstant ==
  \A p \in DOMAIN Portfolios : \A k \in DOMAIN valueHistory[p] : valueHistory[p][k].together

(* A total is published only when every open position has an eligible      *)
(* price, and then it is the realised profit plus what closing all         *)
(* positions at the marks would bring; COMPLETE only on fresh marks.       *)
Signed(s) == IF s.qty > 0 THEN s.basis ELSE -s.basis
Exact(p, positions, marks, at, s) ==
  LET open == {x \in Portfolios[p] : positions[x].qty # 0}
  IN  s.total # Nothing =>
        /\ \A x \in open : marks[x] # Nothing
        /\ s.total = Total(Portfolios[p], positions, "realized")
             + SumFunction([x \in open |-> positions[x].qty * marks[x].price
                                           - Signed(positions[x])])
        /\ s.status = "COMPLETE" =>
             \A x \in open : /\ marks[x].type = "LAST_TRADED_PRICE" /\ marks[x].ready
                             /\ at - marks[x].exchange <= MaxAge
                             /\ at - marks[x].ingested <= MaxAge
TotalsAreExact ==
  \A p \in DOMAIN Portfolios : \A k \in DOMAIN valueHistory[p] :
    LET h == valueHistory[p][k]
    IN  Exact(p, h.positions, h.marks, h.at, h.value)

(* Revisions of a portfolio follow one another without a gap, and the last *)
(* complete snapshot is the newest complete one of the history.            *)
HistoryIsAChain ==
  \A p \in DOMAIN Portfolios :
    /\ \A k \in DOMAIN valueHistory[p] : valueHistory[p][k].value.revision = k
    /\ \A k \in DOMAIN valueHistory[p] : valueHistory[p][k].value.status = "COMPLETE" =>
         lastComplete[p] # Nothing /\ k <= lastComplete[p].value.revision
    /\ lastComplete[p] # Nothing =>
         /\ lastComplete[p].value.status = "COMPLETE"
         /\ lastComplete[p].value.revision \in DOMAIN valueHistory[p]
         /\ lastComplete[p] = valueHistory[p][lastComplete[p].value.revision]

(* After Shutdown returned no call is left that could still publish.       *)
ValuedBeforeShutdown == valueShutdown = "returned" => running = {} /\ slots = 0

ValuationInv ==
  ValuationCounts /\ ValuesOneInstant /\ TotalsAreExact /\ HistoryIsAChain /\ ValuedBeforeShutdown
=============================================================================
