--------------------------- MODULE FillIngestion ---------------------------
(***************************************************************************)
(* The path of a fill into the books: the ingestion coordinator            *)
(* (internal/accounting/ingestion), the position coordinator               *)
(* (internal/accounting/coordinator) and the bounded store                 *)
(* (internal/adapters/accounting/memory).                                  *)
(*                                                                         *)
(* A call of Ingest names a fill and the place of the source it was read   *)
(* from.  Lineage, binding and instrument checks compare a request with    *)
(* the order store; requests that fail them change nothing, so calls offer *)
(* authentic fills.  The position coordinator's semaphore has the capacity *)
(* of the ingestion coordinator's and its callers hold both: it never      *)
(* waits and is left out.                                                  *)
(***************************************************************************)
EXTENDS Integers, Sequences, FiniteSets

(***************************************************************************)
(* Weighted-average position accounting: Apply and transition of           *)
(* internal/accounting/engine/engine.go as operators on one position and   *)
(* one fill.  Money is counted in minor units of one currency.  Times are  *)
(* one number, the fill's occurrence and receipt together.                 *)
(***************************************************************************)
CONSTANTS
  MaxInt   \* the largest checked integer (2^63 - 1 in the code)

ASSUME MaxIntAssumption == MaxInt \in Nat

\* Checked arithmetic: what a result must satisfy.
Fits(n) == -MaxInt - 1 <= n /\ n <= MaxInt

\* The position before its first fill.
NoPosition ==
  [revision |-> 0, net |-> 0, basis |-> 0, realized |-> 0, boughtQuantity |-> 0, boughtValue |-> 0,
   soldQuantity |-> 0, soldValue |-> 0, last |-> [at |-> 0, id |-> 0]]

\* FillOrderingKey.Compare.
Precedes(a, b) == a.at < b.at \/ (a.at = b.at /\ a.id < b.id)

OrderingKey(fill) == [at |-> fill.at, id |-> fill.id]

\* Mutant of OutOfOrder: fills of the same instant are taken in any order.
OlderOnly(position, fill) == position.revision > 0 /\ fill.at < position.last.at

\* Apply refuses a fill that is not after the last one applied.
OutOfOrder(position, fill) ==
  position.revision > 0 /\ ~Precedes(position.last, OrderingKey(fill))

magnitude(n) == IF n < 0 THEN -n ELSE n

Delta(fill) == IF fill.side = "BUY" THEN fill.quantity ELSE -fill.quantity

Opens(net, fill) == net = 0 \/ (net > 0 /\ Delta(fill) > 0) \/ (net < 0 /\ Delta(fill) < 0)

\* How much of the open quantity the fill closes.
Closed(net, fill) ==
  IF Opens(net, fill) THEN 0
  ELSE IF fill.quantity < magnitude(net) THEN fill.quantity ELSE magnitude(net)

\* The basis the closed quantity takes with it: all of it in a final close.
Allocated(position, fill) ==
  IF Opens(position.net, fill) THEN 0
  ELSE IF Closed(position.net, fill) = magnitude(position.net) THEN position.basis
  ELSE (position.basis * Closed(position.net, fill)) \div magnitude(position.net)

ClosingValue(position, fill) == fill.price * Closed(position.net, fill)

RealizedDelta(position, fill) ==
  IF position.net > 0 THEN ClosingValue(position, fill) - Allocated(position, fill)
  ELSE Allocated(position, fill) - ClosingValue(position, fill)

\* Mutant of NewBasis: a reversal opens the whole fill on the other side.
ReversalOpensAll(position, fill) ==
  IF Closed(position.net, fill) = fill.quantity THEN position.basis - Allocated(position, fill)
  ELSE position.basis - Allocated(position, fill) + fill.price * fill.quantity

\* What is left of the open basis, with the basis of the quantity the fill opens.
NewBasis(position, fill) ==
  position.basis - Allocated(position, fill) + fill.price * (fill.quantity - Closed(position.net, fill))

NewNet(position, fill) == position.net + Delta(fill)

Bought(fill, amount) == IF fill.side = "BUY" THEN amount ELSE 0
Sold(fill, amount) == IF fill.side = "SELL" THEN amount ELSE 0

\* Apply's next snapshot.
Applied(position, fill) ==
  [revision       |-> position.revision + 1,
   net            |-> NewNet(position, fill),
   basis          |-> NewBasis(position, fill),
   realized       |-> position.realized + RealizedDelta(position, fill),
   boughtQuantity |-> position.boughtQuantity + Bought(fill, fill.quantity),
   boughtValue    |-> position.boughtValue + Bought(fill, fill.price * fill.quantity),
   soldQuantity   |-> position.soldQuantity + Sold(fill, fill.quantity),
   soldValue      |-> position.soldValue + Sold(fill, fill.price * fill.quantity),
   last           |-> OrderingKey(fill)]

\* One of the checked operations overflows.
Overflows(position, fill) ==
  LET next == Applied(position, fill) IN
  ~(/\ Fits(fill.price * fill.quantity) /\ Fits(ClosingValue(position, fill))
    /\ Fits(RealizedDelta(position, fill)) /\ Fits(next.net) /\ Fits(next.basis) /\ Fits(next.realized)
    /\ next.boughtQuantity <= MaxInt /\ next.boughtValue <= MaxInt
    /\ next.soldQuantity <= MaxInt /\ next.soldValue <= MaxInt)

\* NewPositionSnapshot's validation.
ValidPosition(position) ==
  /\ position.basis >= 0
  /\ position.net = 0 <=> position.basis = 0
  /\ position.net # -MaxInt - 1

\* Apply succeeds.
Applies(position, fill) ==
  /\ ~OutOfOrder(position, fill)
  /\ ~Overflows(position, fill)
  /\ ValidPosition(Applied(position, fill))

\* The signed open basis: what the open quantity cost, or brought in.
SignedBasis(position) == IF position.net > 0 THEN position.basis ELSE -position.basis

\* The books balance.  Whatever was realized is exactly what was sold less what was
\* bought, up to the basis that is still open: partial closes round, and the remainder
\* they leave in the open basis is never lost (transition, proportionalBasis).
Balanced(position) ==
  /\ position.net = position.boughtQuantity - position.soldQuantity
  /\ position.realized = position.soldValue - position.boughtValue + SignedBasis(position)
  /\ position.net = 0 <=> position.basis = 0

-----------------------------------------------------------------------------

CONSTANTS
  Positions,
  FillIDs,
  Fill,                \* fill identity -> the fill the order store holds
  Sources,             \* places in the source: sequence and checkpoint
  Callers,
  MaxConcurrency,      \* capacity of the semaphore
  MaxApplications,     \* limit of the store
  MaxRestarts          \* bound on restarts

ASSUME FillAssumption ==
  /\ FillIDs \subseteq Nat \ {0}
  /\ Fill \in [FillIDs -> [id : FillIDs, position : Positions, side : {"BUY", "SELL"},
                           quantity : Nat \ {0}, price : Nat \ {0}, at : Nat]]
  /\ \A f \in FillIDs : Fill[f].id = f
  /\ "none" \notin Sources
  /\ MaxConcurrency \in Nat \ {0} /\ MaxApplications \in Nat /\ MaxRestarts \in Nat

VARIABLES
  current,      \* position -> its current snapshot
  applied,      \* position -> the fills applied to it, in order (applications, checkpoints)
  ingested,     \* fill -> the source it was ingested from, "none" if it is not stored
  exported,     \* the publications a restart restores
  running,      \* ingestion identities in progress
  busy,         \* positions with a fill in progress
  slots,        \* taken places of the semaphore
  closed, stopped,
  quarantines,  \* ingestion identities recorded as canonical predecessors
  call,         \* the calls of Ingest
  restarts

storeVars == <<current, applied, ingested>>
vars == <<current, applied, ingested, exported, running, busy, slots, closed, stopped, quarantines, call, restarts>>

None == "none"
Stored == {f \in FillIDs : ingested[f] # None}

Idle == [pc |-> "idle", fill |-> 0, source |-> None, next |-> NoPosition, answer |-> None]

Store == [current |-> current, applied |-> applied, ingested |-> ingested]

Init ==
  /\ current = [p \in Positions |-> NoPosition]
  /\ applied = [p \in Positions |-> <<>>]
  /\ ingested = [f \in FillIDs |-> None]
  /\ exported = Store
  /\ running = {} /\ busy = {} /\ slots = 0
  /\ closed = FALSE /\ stopped = FALSE
  /\ quarantines = {}
  /\ call = [c \in Callers |-> Idle]
  /\ restarts = 0

At(c, pc) == call[c].pc = pc
Offered(c) == Fill[call[c].fill]
Move(c, pc, next, answer) ==
  call' = [call EXCEPT ![c] = [pc |-> pc, fill |-> call[c].fill, source |-> call[c].source,
                               next |-> next, answer |-> answer]]
Goto(c, pc) == Move(c, pc, call[c].next, call[c].answer)
Answer(c, answer, pc) == Move(c, pc, NoPosition, answer)
Return(c) == call' = [call EXCEPT ![c] = Idle]

\* NewIngestionID: the fill and the source checkpoint (one account binding).
IngestionID(c) == <<call[c].fill, call[c].source>>

-----------------------------------------------------------------------------
(* Ingest.                                                                 *)

\* A caller may offer any fill from any place, again and again.
Ingest(c, f, source) ==
  /\ At(c, "idle")
  /\ call' = [call EXCEPT ![c] = [pc |-> "reserve", fill |-> f, source |-> source, next |-> NoPosition, answer |-> None]]
  /\ UNCHANGED <<storeVars, exported, running, busy, slots, closed, stopped, quarantines, restarts>>

\* Mutant of Accepts: a coordinator that is shutting down still takes fills.
AcceptsClosed(c) == IngestionID(c) \notin running

\* reserve of the ingestion coordinator: not closed, and not in progress already.
Accepts(c) == ~closed /\ IngestionID(c) \notin running

reserve(c) ==
  /\ At(c, "reserve") /\ Accepts(c)
  /\ running' = running \cup {IngestionID(c)}
  /\ Goto(c, "admit")
  /\ UNCHANGED <<storeVars, exported, busy, slots, closed, stopped, quarantines, restarts>>

ReserveRefused(c) ==
  /\ At(c, "reserve") /\ ~Accepts(c)
  /\ Return(c)
  /\ UNCHANGED <<storeVars, exported, running, busy, slots, closed, stopped, quarantines, restarts>>

Admit(c) ==
  /\ At(c, "admit")
  /\ slots < MaxConcurrency
  /\ slots' = slots + 1
  /\ Goto(c, "lookup")
  /\ UNCHANGED <<storeVars, exported, running, busy, closed, stopped, quarantines, restarts>>

\* The caller's context, or a shutdown, ends the wait.
AdmitCancelled(c) ==
  /\ At(c, "admit")
  /\ Answer(c, "ERROR", "release")
  /\ UNCHANGED <<storeVars, exported, running, busy, slots, closed, stopped, quarantines, restarts>>

\* A cancelled context, a deadline or a failing store before the commit.
CallFails(c) ==
  /\ \/ call[c].pc \in {"lookup", "lock"} /\ Answer(c, "ERROR", "leave")
     \/ call[c].pc \in {"read", "publish"} /\ Answer(c, "ERROR", "unlock")
  /\ UNCHANGED <<storeVars, exported, running, busy, slots, closed, stopped, quarantines, restarts>>

\* Mutant of Lookup: whoever applied the fill, the retry is told it succeeded.
LookupAnySource(c) ==
  /\ At(c, "lookup")
  /\ IF call[c].fill \in Stored THEN Answer(c, "IDEMPOTENT_REPLAY", "leave") ELSE Goto(c, "lock")
  /\ UNCHANGED <<storeVars, exported, running, busy, slots, closed, stopped, quarantines, restarts>>

\* applyFill, first part: a fill that is applied is answered from the store if this
\* ingestion applied it.
Lookup(c) ==
  /\ At(c, "lookup")
  /\ CASE call[c].fill \notin Stored -> Goto(c, "lock")
       [] ingested[call[c].fill] = call[c].source -> Answer(c, "IDEMPOTENT_REPLAY", "leave")
       [] OTHER -> Answer(c, "ERROR", "leave")
  /\ UNCHANGED <<storeVars, exported, running, busy, slots, closed, stopped, quarantines, restarts>>

\* reserve of the position coordinator.
Lock(c) ==
  /\ At(c, "lock")
  /\ IF Offered(c).position \in busy
     THEN Answer(c, "ERROR", "leave") /\ UNCHANGED busy
     ELSE Goto(c, "read") /\ busy' = busy \cup {Offered(c).position}
  /\ UNCHANGED <<storeVars, exported, running, slots, closed, stopped, quarantines, restarts>>

\* The checkpoint is read and the engine applied to it.
Read(c) ==
  LET position == current[Offered(c).position] IN
  /\ At(c, "read")
  /\ Applies(position, Offered(c))
  /\ Move(c, "publish", Applied(position, Offered(c)), None)
  /\ UNCHANGED <<storeVars, exported, running, busy, slots, closed, stopped, quarantines, restarts>>

\* The engine refuses the fill; a predecessor goes into quarantine.
ReadRefused(c) ==
  LET position == current[Offered(c).position] IN
  /\ At(c, "read")
  /\ ~Applies(position, Offered(c))
  /\ quarantines' = IF OutOfOrder(position, Offered(c)) THEN quarantines \cup {IngestionID(c)} ELSE quarantines
  /\ Answer(c, "ERROR", "unlock")
  /\ UNCHANGED <<storeVars, exported, running, busy, slots, closed, stopped, restarts>>

-----------------------------------------------------------------------------
(* PublishPosition.                                                        *)

SourceFree(c) == \A f \in Stored : ingested[f] = call[c].source => f = call[c].fill

\* The position is where it was read, and the engine computes the same snapshot again.
Unmoved(c) ==
  LET position == current[Offered(c).position] IN
  /\ position.revision + 1 = call[c].next.revision
  /\ Applies(position, Offered(c))
  /\ Applied(position, Offered(c)) = call[c].next

Commits(c) ==
  /\ SourceFree(c)
  /\ call[c].fill \notin Stored
  /\ Unmoved(c)
  /\ Cardinality(Stored) < MaxApplications

PublishPosition(c) ==
  /\ At(c, "publish") /\ Commits(c)
  /\ current' = [current EXCEPT ![Offered(c).position] = call[c].next]
  /\ applied' = [applied EXCEPT ![Offered(c).position] = Append(@, call[c].fill)]
  /\ ingested' = [ingested EXCEPT ![call[c].fill] = call[c].source]
  /\ Answer(c, "COMMITTED", "unlock")
  /\ UNCHANGED <<exported, running, busy, slots, closed, stopped, quarantines, restarts>>

PublicationRefused(c) ==
  /\ At(c, "publish") /\ ~Commits(c)
  /\ Answer(c, "ERROR", "unlock")
  /\ UNCHANGED <<storeVars, exported, running, busy, slots, closed, stopped, quarantines, restarts>>

-----------------------------------------------------------------------------
(* The deferred functions, innermost first.                                *)

Unlock(c) ==
  /\ At(c, "unlock")
  /\ busy' = busy \ {Offered(c).position}
  /\ Goto(c, "leave")
  /\ UNCHANGED <<storeVars, exported, running, slots, closed, stopped, quarantines, restarts>>

Leave(c) ==
  /\ At(c, "leave")
  /\ slots' = slots - 1
  /\ Goto(c, "release")
  /\ UNCHANGED <<storeVars, exported, running, busy, closed, stopped, quarantines, restarts>>

release(c) ==
  /\ At(c, "release")
  /\ running' = running \ {IngestionID(c)}
  /\ Return(c)
  /\ UNCHANGED <<storeVars, exported, busy, slots, closed, stopped, quarantines, restarts>>

-----------------------------------------------------------------------------
\* Shutdown closes the coordinator; its goroutine waits for the calls in progress.
Shutdown ==
  /\ ~closed
  /\ closed' = TRUE
  /\ UNCHANGED <<storeVars, exported, running, busy, slots, stopped, quarantines, call, restarts>>

ShutdownDone ==
  /\ closed /\ ~stopped /\ running = {}
  /\ stopped' = TRUE
  /\ UNCHANGED <<storeVars, exported, running, busy, slots, closed, quarantines, call, restarts>>

\* Publications: the store's content is read for a later restoration.
Export ==
  /\ exported # Store
  /\ exported' = Store
  /\ UNCHANGED <<storeVars, running, busy, slots, closed, stopped, quarantines, call, restarts>>

\* The process dies and a new one restores what was exported (RestorePosition).
Restart ==
  /\ restarts < MaxRestarts
  /\ restarts' = restarts + 1
  /\ current' = exported.current /\ applied' = exported.applied /\ ingested' = exported.ingested
  /\ running' = {} /\ busy' = {} /\ slots' = 0
  /\ closed' = FALSE /\ stopped' = FALSE
  /\ quarantines' = {}
  /\ call' = [c \in Callers |-> Idle]
  /\ UNCHANGED exported

Step(c) ==
  \/ reserve(c) \/ ReserveRefused(c) \/ Admit(c) \/ AdmitCancelled(c) \/ CallFails(c) \/ Lookup(c)
  \/ Lock(c) \/ Read(c) \/ ReadRefused(c) \/ PublishPosition(c) \/ PublicationRefused(c)
  \/ Unlock(c) \/ Leave(c) \/ release(c)

Next ==
  \/ \E c \in Callers :
       \/ \E f \in FillIDs, source \in Sources : Ingest(c, f, source)
       \/ Step(c)
  \/ Shutdown \/ ShutdownDone \/ Export \/ Restart

Spec == Init /\ [][Next]_vars

-----------------------------------------------------------------------------
(* Properties.                                                             *)

Locked == {"read", "publish", "unlock"}
Inside == Locked \cup {"lookup", "lock", "leave"}
Active == Inside \cup {"admit", "release"}

\* Types, and the reservations against the calls that hold them: no error path leaks
\* an identity, a position or a place, and no two calls hold the same one.
TypeOK ==
  /\ quarantines \subseteq FillIDs \X Sources
  /\ running = {IngestionID(c) : c \in {c \in Callers : call[c].pc \in Active}}
  /\ Cardinality(running) = Cardinality({c \in Callers : call[c].pc \in Active})
  /\ busy = {Offered(c).position : c \in {c \in Callers : call[c].pc \in Locked}}
  /\ Cardinality(busy) = Cardinality({c \in Callers : call[c].pc \in Locked})
  /\ slots = Cardinality({c \in Callers : call[c].pc \in Inside})

\* The books of every position balance after any sequence of fills, retries, races,
\* refusals and restarts.
BooksBalance == \A p \in Positions : Balanced(current[p])

PositionRecords ==
  [revision : Nat, net : Int, basis : Int, realized : Int, boughtQuantity : Int, boughtValue : Int,
   soldQuantity : Int, soldValue : Int, last : [at : Nat, id : Nat]]

CallRecords ==
  [pc : Active \cup {"idle", "reserve"}, fill : FillIDs \cup {0}, source : Sources \cup {None},
   next : PositionRecords, answer : {None, "COMMITTED", "IDEMPOTENT_REPLAY", "ERROR"}]

\* The strengthening that makes BooksBalance inductive: the exported bundle balances
\* too, and a call in progress has a fill.
BooksInv ==
  /\ call \in [Callers -> CallRecords]
  /\ current \in [Positions -> PositionRecords]
  /\ exported.current \in [Positions -> PositionRecords]
  /\ \A p \in Positions : Balanced(current[p]) /\ Balanced(exported.current[p])
  /\ \A c \in Callers : call[c].pc # "idle" => call[c].fill \in FillIDs

\* The snapshot is the replay of the applied fills in canonical order, every fill of
\* the position exactly once: what RestorePosition recomputes.
Replay(fs) ==
  LET replay[n \in 0..Len(fs)] == IF n = 0 THEN NoPosition ELSE Applied(replay[n - 1], Fill[fs[n]])
  IN replay[Len(fs)]

BooksReplay ==
  \A p \in Positions :
    /\ current[p] = Replay(applied[p])
    /\ {applied[p][i] : i \in DOMAIN applied[p]} = {f \in Stored : Fill[f].position = p}
    /\ \A i, j \in DOMAIN applied[p] :
         i < j => Precedes(OrderingKey(Fill[applied[p][i]]), OrderingKey(Fill[applied[p][j]]))

\* Only work that the books lack is quarantined: what an ingestion applied is never
\* reported as a predecessor, however its retries race.
QuarantinedIsAbsent == \A q \in quarantines : ingested[q[1]] # q[2]

\* A success is told only of a fill that is in the books, from this very source.
AnswerIsTrue ==
  \A c \in Callers : call[c].answer \in {"COMMITTED", "IDEMPOTENT_REPLAY"} =>
    ingested[call[c].fill] = call[c].source

\* Reservations, evidence and answers agree with the books (Ingest, quarantine, release).
IngestionInv == TypeOK /\ QuarantinedIsAbsent /\ AnswerIsTrue

\* Once Shutdown has returned the books do not move.
StoppedIsQuiet == [][stopped /\ restarts' = restarts => UNCHANGED storeVars]_vars

\* The strengthening of StoppedIsQuiet: a call between reserve and release holds its
\* identity, alone, and a stopped coordinator is closed and nothing is in progress.
QuietInv ==
  /\ \A c \in Callers : call[c].pc \in Active => IngestionID(c) \in running
  /\ \A c, d \in Callers :
       c # d /\ call[c].pc \in Active /\ call[d].pc \in Active => IngestionID(c) # IngestionID(d)
  /\ stopped => closed /\ running = {}
  /\ restarts \in Nat
=============================================================================
