------------------------------ MODULE OMSStore ------------------------------
(***************************************************************************)
(* The authoritative order store (internal/adapters/execution/memory and   *)
(* internal/execution/storage) under concurrent publishers.                *)
(*                                                                         *)
(* A publisher is any caller of coordinator.publish: it reads the current  *)
(* checkpoint, applies its report to the order it read, and later offers   *)
(* the publication to the store, which accepts it only if nothing moved.   *)
(* The publisher may lose the answer and offer the same publication again. *)
(* The process may crash: the in-memory store is empty afterwards and is   *)
(* rebuilt by RestorePlan from an exported bundle, or by RegisterPlan.     *)
(* The store has no export: its caller reads the checkpoint, the reports   *)
(* and the fills of an order one after the other, each under the lock, and *)
(* publications may fall in between.                                       *)
(*                                                                         *)
(* Abstractions: a checkpoint's checksum is the checkpoint itself (without *)
(* the ancestors the real checksum also hashes); a publication's identity  *)
(* is its report's identity, which is how publish derives it; RestorePlan  *)
(* restores every plan of the exported bundle in one step.                 *)
(***************************************************************************)
EXTENDS OrderLifecycle, FiniteSets, Functions

CONSTANTS
  Orders,        \* order identities
  Quantity,      \* the leg quantity of each order
  ReportIDs,     \* report identities (source and source event)
  FillIDs,       \* fill identities (source and source execution)
  BrokerIDs,     \* broker order identities
  Types,         \* the report types publishers use in this instance
  Publishers,
  MaxReports,    \* Limits.Reports (and Limits.Publications)
  MaxFills       \* Limits.Fills

\* "none" stands for no order.
ASSUME ConstantsAssumption ==
  /\ "none" \notin Orders
  /\ Quantity \in [Orders -> Nat \ {0}]
  /\ Types \subseteq ReportTypes
  /\ "" \notin BrokerIDs
  /\ MaxReports \in Nat
  /\ MaxFills \in Nat

\* The nil *Fill of a publication, and a fill identity the store has no fill for.
NoFill == [id |-> "none", quantity |-> 0]

Unbooked == [report |-> "none", quantity |-> 0]

NoReport == [order |-> "none", type |-> "none", cum |-> 0, broker |-> ""]

Genesis(o) == [order |-> NewOrder(Quantity[o]), report |-> "none", fill |-> NoFill]

\* An order the maps have no entry for (no real order has quantity 0).
Absent == [order |-> NewOrder(0), report |-> "none", fill |-> NoFill]

NoPublication == [expected |-> Absent, report |-> NoReport, id |-> "none", fill |-> NoFill]

VARIABLES
  current,          \* the current checkpoint of each order, or Absent
  reports,          \* report identity -> the recorded report, or NoReport
  fills,            \* fill identity -> [report, quantity] of the recorded fill, or Unbooked
  publications,     \* report identity -> the committed publication, or NoPublication
  failBeforeCommit,
  held,             \* what each publisher has prepared, or NoPublication
  outcome,          \* the answer each publisher got last
  stage,            \* how far a caller has read each order
  reading,          \* the bundle it puts together
  exported,         \* the bundle a restart can restore
  unapplied         \* auxiliary: restored reports that their order had not applied

store == <<current, reports, fills, publications>>
bundles == <<stage, reading, exported, unapplied>>
vars == <<current, reports, fills, publications, failBeforeCommit, held, outcome, bundles>>

Registered == {o \in Orders : current[o] # Absent}

Recorded == {r \in ReportIDs : reports[r] # NoReport}

Booked == {f \in FillIDs : fills[f] # Unbooked}

\* What RestorePlan is given, and two auxiliary sets: the orders that booked a fill, and the
\* reports that were published, after the checkpoint in the bundle was read.
EmptyBundle ==
  [current |-> [o \in Orders |-> Absent],
   reports |-> [r \in ReportIDs |-> NoReport],
   fills   |-> [f \in FillIDs |-> Unbooked],
   torn    |-> {},
   ahead   |-> {}]

Init ==
  /\ current = [o \in Orders |-> Absent]
  /\ reports = [r \in ReportIDs |-> NoReport]
  /\ fills = [f \in FillIDs |-> Unbooked]
  /\ publications = [r \in ReportIDs |-> NoPublication]
  /\ failBeforeCommit = FALSE
  /\ held = [w \in Publishers |-> NoPublication]
  /\ outcome = [w \in Publishers |-> "none"]
  /\ stage = [o \in Orders |-> "none"]
  /\ reading = EmptyBundle
  /\ exported = EmptyBundle
  /\ unapplied = {}

-----------------------------------------------------------------------------
\* RegisterPlan: the plan's order enters at its genesis revision.  A plan that
\* is already known is answered idempotently or refused; neither changes the store.
RegisterPlan(o) ==
  /\ current[o] = Absent
  /\ current' = [current EXCEPT ![o] = Genesis(o)]
  /\ UNCHANGED <<reports, fills, publications, failBeforeCommit, held, outcome, bundles>>

\* coordinator.publish up to NewOrderPublication: read the checkpoint and
\* prepare the successor; a report that does not apply is never offered.
Prepare(w, o, id, report, fill) ==
  /\ held[w] = NoPublication
  /\ current[o] # Absent
  /\ report.order = o
  /\ Applies(current[o].order, report, fill.quantity)
  /\ held' = [held EXCEPT ![w] = [expected |-> current[o], report |-> report, id |-> id, fill |-> fill]]
  /\ outcome' = [outcome EXCEPT ![w] = "none"]
  /\ UNCHANGED <<current, reports, fills, publications, failBeforeCommit, bundles>>

-----------------------------------------------------------------------------
(* PublishOrderEvent.  Its checks in the code's order: the replay checks   *)
(* first, then existence, the compare-and-swap, the fill's identity, the   *)
(* capacity limits and the injected failure.                               *)

\* Mutant of IsReplay: an identity that was seen before counts as the same content.
SameIdentity(pub) == publications[pub.id] # NoPublication \/ reports[pub.id] # NoReport

\* The same publication, or the same report restored without its publication.
IsReplay(pub) ==
  IF publications[pub.id] # NoPublication
  THEN publications[pub.id] = pub
  ELSE reports[pub.id] = pub.report /\ pub.fill = NoFill

\* The publication or report identity is already taken.
Known(pub) == publications[pub.id] # NoPublication \/ reports[pub.id] # NoReport

\* Mutant of Unmoved: the publication is rebased on whatever is current.
Exists(pub) == current[pub.report.order] # Absent

Unmoved(pub) == current[pub.report.order] # Absent /\ current[pub.report.order] = pub.expected

FillIsNew(pub) == pub.fill # NoFill => fills[pub.fill.id] = Unbooked

WithinLimits(pub) ==
  /\ Cardinality(Recorded) < MaxReports
  /\ pub.fill # NoFill => Cardinality(Booked) < MaxFills

Refused(pub) ==
  \/ Known(pub) /\ ~IsReplay(pub)
  \/ /\ ~Known(pub)
     /\ ~(Unmoved(pub) /\ FillIsNew(pub) /\ WithinLimits(pub) /\ ~failBeforeCommit)

\* The checkpoint the publication carries.
NextCheckpoint(pub) ==
  [order  |-> ApplyExecutionReport(pub.expected.order, pub.report),
   report |-> pub.id,
   fill   |-> pub.fill]

\* The bundle a caller is reading, after a publication that falls between its reads.
Overtaken(pub) ==
  LET o == pub.report.order IN
  [reading EXCEPT
     !.torn  = IF stage[o] \in {"checkpoint", "reports"} /\ pub.fill # NoFill THEN @ \cup {o} ELSE @,
     !.ahead = IF stage[o] = "checkpoint" THEN @ \cup {pub.id} ELSE @]

Commit(w) == LET pub == held[w] IN
  /\ pub # NoPublication
  /\ ~Known(pub)
  /\ Unmoved(pub)
  /\ FillIsNew(pub)
  /\ WithinLimits(pub)
  /\ ~failBeforeCommit
  /\ current' = [current EXCEPT ![pub.report.order] = NextCheckpoint(pub)]
  /\ reports' = [reports EXCEPT ![pub.id] = pub.report]
  /\ fills' = IF pub.fill = NoFill THEN fills
              ELSE [fills EXCEPT ![pub.fill.id] = [report |-> pub.id, quantity |-> pub.fill.quantity]]
  /\ publications' = [publications EXCEPT ![pub.id] = pub]
  /\ outcome' = [outcome EXCEPT ![w] = "COMMITTED"]
  /\ reading' = Overtaken(pub)
  /\ UNCHANGED <<failBeforeCommit, held, stage, exported, unapplied>>

Replay(w) == LET pub == held[w] IN
  /\ pub # NoPublication
  /\ Known(pub)
  /\ IsReplay(pub)
  /\ outcome' = [outcome EXCEPT ![w] = "IDEMPOTENT_REPLAY"]
  /\ UNCHANGED <<current, reports, fills, publications, failBeforeCommit, held, bundles>>

Refuse(w) ==
  /\ held[w] # NoPublication
  /\ Refused(held[w])
  /\ outcome' = [outcome EXCEPT ![w] = "REFUSED"]
  /\ UNCHANGED <<current, reports, fills, publications, failBeforeCommit, held, bundles>>

\* The publisher is done with its publication (it got an answer, or gives up).
Forget(w) ==
  /\ held[w] # NoPublication
  /\ held' = [held EXCEPT ![w] = NoPublication]
  /\ outcome' = [outcome EXCEPT ![w] = "none"]
  /\ UNCHANGED <<current, reports, fills, publications, failBeforeCommit, bundles>>

SetFailBeforeCommitForTest(value) ==
  /\ failBeforeCommit' = value
  /\ UNCHANGED <<current, reports, fills, publications, held, outcome, bundles>>

-----------------------------------------------------------------------------
\* The fills of an order.
BookedFor(rs, fs, o) == {f \in FillIDs : fs[f] # Unbooked /\ rs[fs[f].report].order = o}

\* Mutant of Restorable: the fills of an order are not added up.
RestorableUnsummed(bundle) ==
  \A f \in FillIDs : bundle.fills[f] # Unbooked => bundle.reports[bundle.fills[f].report] # NoReport

\* RestorePlan's validation of a bundle: every fill belongs to a report of the
\* bundle, a checkpoint past genesis has its report and its fill in the bundle,
\* and the fills of an order add up to its filled quantity.
Restorable(bundle) ==
  LET booked == {f \in FillIDs : bundle.fills[f] # Unbooked}
      of(o) == BookedFor(bundle.reports, bundle.fills, o)
  IN /\ \A f \in booked : bundle.fills[f].report \in ReportIDs
                           /\ bundle.reports[bundle.fills[f].report] # NoReport
     /\ \A o \in Orders : bundle.current[o] # Absent =>
          /\ bundle.current[o].order.revision > 1 =>
               /\ bundle.reports[bundle.current[o].report] # NoReport
               /\ bundle.current[o].fill # NoFill => bundle.current[o].fill.id \in booked
          /\ SumFunction([f \in of(o) |-> bundle.fills[f].quantity]) = bundle.current[o].order.filled

\* CurrentOrderCheckpoint, Reports and Fills of one order, in the order in which the callers
\* of RestorePlan read them.
ReadCheckpoint(o) ==
  /\ stage[o] = "none" /\ current[o] # Absent
  /\ stage' = [stage EXCEPT ![o] = "checkpoint"]
  /\ reading' = [reading EXCEPT !.current[o] = current[o],
                                !.ahead = @ \cup {r \in unapplied : reports[r].order = o}]
  /\ UNCHANGED <<store, failBeforeCommit, held, outcome, exported, unapplied>>

ReadReports(o) ==
  /\ stage[o] = "checkpoint"
  /\ stage' = [stage EXCEPT ![o] = "reports"]
  /\ reading' = [reading EXCEPT !.reports =
                   [r \in ReportIDs |-> IF reports[r].order = o THEN reports[r] ELSE @[r]]]
  /\ UNCHANGED <<store, failBeforeCommit, held, outcome, exported, unapplied>>

ReadFills(o) ==
  /\ stage[o] = "reports"
  /\ stage' = [stage EXCEPT ![o] = "fills"]
  /\ reading' = [reading EXCEPT !.fills =
                   [f \in FillIDs |-> IF f \in BookedFor(reports, fills, o) THEN fills[f] ELSE @[f]]]
  /\ UNCHANGED <<store, failBeforeCommit, held, outcome, exported, unapplied>>

\* The bundle is complete and outlives the process.
KeepBundle ==
  /\ \A o \in Orders : stage[o] \in {"none", "fills"}
  /\ \E o \in Orders : stage[o] = "fills"
  /\ exported' = reading
  /\ stage' = [o \in Orders |-> "none"]
  /\ reading' = EmptyBundle
  /\ UNCHANGED <<store, failBeforeCommit, held, outcome, unapplied>>

\* The process dies with its publishers and what was read of it; a new store starts empty.
Crash ==
  /\ current' = [o \in Orders |-> Absent]
  /\ reports' = [r \in ReportIDs |-> NoReport]
  /\ fills' = [f \in FillIDs |-> Unbooked]
  /\ publications' = [r \in ReportIDs |-> NoPublication]
  /\ held' = [w \in Publishers |-> NoPublication]
  /\ outcome' = [w \in Publishers |-> "none"]
  /\ failBeforeCommit' = FALSE
  /\ stage' = [o \in Orders |-> "none"]
  /\ reading' = EmptyBundle
  /\ unapplied' = {}
  /\ UNCHANGED exported

\* RestorePlan into the empty store.  Publications and their receipts are not
\* restored: only the checkpoints, the reports and the fills are.
RestorePlan ==
  /\ Registered = {}
  /\ Restorable(exported)
  /\ current' = exported.current
  /\ reports' = exported.reports
  /\ fills' = exported.fills
  /\ unapplied' = exported.ahead
  /\ UNCHANGED <<publications, failBeforeCommit, held, outcome, stage, reading, exported>>

\* What a publisher may offer: a report about o, with a fill of it or none.
Offers(o) ==
  [order : {o}, type : Types, cum : 0..Quantity[o], broker : BrokerIDs \cup {""}]

FillOffers(o) == [id : FillIDs, quantity : 1..Quantity[o]] \cup {NoFill}

PublisherStep(w) ==
  \/ \E o \in Orders, id \in ReportIDs :
       \E report \in Offers(o), fill \in FillOffers(o) : Prepare(w, o, id, report, fill)
  \/ Commit(w) \/ Replay(w) \/ Refuse(w) \/ Forget(w)

StoreStep ==
  \/ \E o \in Orders : RegisterPlan(o)
  \/ \E value \in BOOLEAN : SetFailBeforeCommitForTest(value)
  \/ \E o \in Orders : ReadCheckpoint(o) \/ ReadReports(o) \/ ReadFills(o)
  \/ KeepBundle
  \/ Crash
  \/ RestorePlan

Next == StoreStep \/ \E w \in Publishers : PublisherStep(w)

Spec == Init /\ [][Next]_vars

-----------------------------------------------------------------------------
OrderRecords ==
  [quantity : Nat, state : OrderStates, revision : Nat, filled : Nat, broker : BrokerIDs \cup {""}]

FillRecords == [id : FillIDs \cup {"none"}, quantity : Nat]

Bookings == [report : ReportIDs \cup {"none"}, quantity : Nat]

ReportRecords ==
  [order : Orders \cup {"none"}, type : Types \cup {"none"}, cum : Nat, broker : BrokerIDs \cup {""}]

Checkpoints == [order : OrderRecords, report : ReportIDs \cup {"none"}, fill : FillRecords]

Publications ==
  [expected : Checkpoints, report : ReportRecords, id : ReportIDs \cup {"none"}, fill : FillRecords]

Bundles ==
  [current : [Orders -> Checkpoints],
   reports : [ReportIDs -> ReportRecords],
   fills   : [FillIDs -> Bookings],
   torn    : SUBSET Orders,
   ahead   : SUBSET ReportIDs]

TypeOK ==
  /\ current \in [Orders -> Checkpoints]
  /\ reports \in [ReportIDs -> ReportRecords]
  /\ fills \in [FillIDs -> Bookings]
  /\ publications \in [ReportIDs -> Publications]
  /\ failBeforeCommit \in BOOLEAN
  /\ held \in [Publishers -> Publications]
  /\ outcome \in [Publishers -> {"none", "COMMITTED", "IDEMPOTENT_REPLAY", "REFUSED"}]
  /\ stage \in [Orders -> {"none", "checkpoint", "reports", "fills"}]
  /\ reading \in Bundles
  /\ exported \in Bundles
  /\ unapplied \in SUBSET ReportIDs

\* The executed units fill f books are those after From, up to To.
To(rs, fs, f) == rs[fs[f].report].cum
From(rs, fs, f) == To(rs, fs, f) - fs[f].quantity

Tiles(filled, rs, fs, o) ==
  /\ \A u \in 1..filled :
       \E f \in BookedFor(rs, fs, o) : From(rs, fs, f) < u /\ u <= To(rs, fs, f)
  /\ \A f, g \in BookedFor(rs, fs, o) :
       f # g => To(rs, fs, f) <= From(rs, fs, g) \/ To(rs, fs, g) <= From(rs, fs, f)
  /\ \A f \in BookedFor(rs, fs, o) : To(rs, fs, f) <= filled

\* Conservation: the fills of an order tile its filled quantity.  Every executed
\* unit the order's filled quantity counts is booked by a fill, no unit is booked
\* twice, and no fill books a unit the order does not count - whatever publishers
\* race, replay or crash (PublishOrderEvent's compare-and-swap and fill identity).
FillsTile == \A o \in Registered : Tiles(current[o].order.filled, reports, fills, o)

\* Every booked fill is positive and belongs to a recorded report.
Owned(rs, fs) ==
  \A f \in FillIDs : fs[f] # Unbooked =>
    fs[f].quantity > 0 /\ fs[f].report \in ReportIDs /\ rs[fs[f].report] # NoReport

\* The strengthening that makes FillsTile inductive, stated of the live maps and of
\* an accepted bundle alike: stored orders are valid and have their leg's quantity,
\* a booked fill is positive and belongs to a recorded report, a recorded report
\* belongs to a registered order, and the fills of every such order tile.
Consistent(cs, rs, fs) ==
  /\ \A o \in Orders : cs[o] # Absent =>
       ValidOrder(cs[o].order) /\ cs[o].order.quantity = Quantity[o]
  /\ Owned(rs, fs)
  /\ \A r \in ReportIDs : rs[r] # NoReport =>
       rs[r].order \in Orders /\ cs[rs[r].order] # Absent
  /\ \A o \in Orders : cs[o] # Absent => Tiles(cs[o].order.filled, rs, fs, o)

\* A prepared publication applies to the checkpoint it expects.
Prepared(pub) ==
  /\ pub.report.order \in Orders
  /\ pub.report \in Offers(pub.report.order)
  /\ pub.fill \in FillOffers(pub.report.order)
  /\ pub.id \in ReportIDs
  /\ pub.expected # Absent
  /\ ValidOrder(pub.expected.order)
  /\ pub.expected.order.quantity = Quantity[pub.report.order]
  /\ Applies(pub.expected.order, pub.report, pub.fill.quantity)

\* The live maps are consistent and every publication in flight was prepared from a
\* checkpoint it applies to.
Sound ==
  /\ TypeOK
  /\ Consistent(current, reports, fills)
  /\ \A w \in Publishers : held[w] # NoPublication => Prepared(held[w])

\* The store is sound, and so is whatever bundle RestorePlan would accept.
StoreInv ==
  /\ Sound
  /\ Restorable(exported) => Consistent(exported.current, exported.reports, exported.fills)

\* No lost update: every recorded report of an order advanced its revision by one, except
\* reports that a bundle brought which were published after it had read the checkpoint.
RevisionCountsReports ==
  \A o \in Registered :
    current[o].order.revision = 1 + Cardinality({r \in Recorded : reports[r].order = o} \ unapplied)

\* An answer of COMMITTED or IDEMPOTENT_REPLAY means that the report and the fill
\* the publisher offered are in the store, exactly as it offered them.
AnsweredIsRecorded ==
  \A w \in Publishers : outcome[w] \in {"COMMITTED", "IDEMPOTENT_REPLAY"} =>
    LET pub == held[w] IN
    /\ reports[pub.id] = pub.report
    /\ pub.fill # NoFill =>
         fills[pub.fill.id] = [report |-> pub.id, quantity |-> pub.fill.quantity]

\* Between racing publishers nothing is lost: neither an update of an order nor a report
\* that was answered for (publish, store.go).
NothingLost == RevisionCountsReports /\ AnsweredIsRecorded

\* RestorePlan accepts a bundle exactly if no fill was booked between the reads it was put
\* together from: a whole one is never refused, a torn one never restored.
RestoreTellsTorn == Restorable(exported) <=> exported.torn = {}

\* Every step of the store obeys LifecycleStep on every order it still knows.
OrdersAdvance ==
  [][\A o \in Orders : current[o] # Absent /\ current'[o] # Absent =>
        LifecycleStep(current[o].order, current'[o].order)]_vars

\* The store implements the fill ledger; what cannot be restored counts as nothing.
Account(cs, rs, fs, o) == [filled |-> cs[o].order.filled, booked |-> BookedFor(rs, fs, o)]

NoAccount == [filled |-> 0, booked |-> {}]

Ledger == INSTANCE FillLedger WITH
  Executions <- FillIDs,
  account <- [o \in Orders |-> Account(current, reports, fills, o)],
  reading <- [o \in Orders |->
                IF stage[o] = "fills" /\ o \notin reading.torn
                THEN Account(reading.current, reading.reports, reading.fills, o) ELSE NoAccount],
  exported <- [o \in Orders |->
                IF exported.torn = {}
                THEN Account(exported.current, exported.reports, exported.fills, o) ELSE NoAccount]

\* Refinement: executed quantity moves only by booking a new execution once.
ImplementsLedger == Ledger!Spec

=============================================================================
