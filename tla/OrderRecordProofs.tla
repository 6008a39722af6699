-------------------------- MODULE OrderRecordProofs --------------------------
(***************************************************************************)
(* Machine-checked proofs about what is recorded of orders: by OMSStore,   *)
(* for any sets of orders, reports, fills and publishers, any leg          *)
(* quantities and any capacity limits; and by the guarded broker adapter   *)
(* of ZerodhaExecution, for any clients, terms, calls and quantities, any  *)
(* number of orders at the provider, of updates and of restarts.           *)
(***************************************************************************)
EXTENDS OMSStore, ZerodhaExecution, SumLemmas

\* newOrderValue's validation never refuses what ApplyExecutionReport's own
\* checks accepted: the quantity arithmetic alone keeps an order valid.
LEMMA ApplyKeepsValid ==
  ASSUME NEW order \in OrderRecords, NEW report \in ReportRecords, NEW fill \in Nat,
         report.type \in ReportTypes,
         ValidOrder(order), QuantitiesAgree(order, report, fill)
  PROVE  ValidOrder(ApplyExecutionReport(order, report))
<1> DEFINE target == reportTarget[report.type]
           next == ApplyExecutionReport(order, report)
<1>1. /\ next.filled = report.cum
      /\ next.quantity = order.quantity
      /\ next.state = IF target \in legalTransition[order.state] THEN target ELSE order.state
      /\ {order.filled, order.quantity, report.cum} \subseteq Nat
  BY DEF ApplyExecutionReport, NextState, OrderRecords, ReportRecords
<1>2. CASE target \in FillTargets
  <2>1. order.state # "FILLED"
    BY <1>1, <1>2 DEF QuantitiesAgree, ValidOrder
  <2>2. order.state = "PARTIALLY_FILLED" => target \in legalTransition[order.state]
    BY <1>2 DEF legalTransition, FillTargets
  <2> QED
    BY <1>1, <1>2, <2>1, <2>2 DEF QuantitiesAgree, ValidOrder, FillTargets
<1>3. CASE target \notin FillTargets
  BY <1>1, <1>3 DEF QuantitiesAgree, ValidOrder, FillTargets
<1> QED BY <1>2, <1>3

\* Recording a report under a new identity leaves the bookings of every order alone.
LEMMA RecordKeepsTiles ==
  ASSUME NEW rs \in [ReportIDs -> ReportRecords], NEW fs \in [FillIDs -> Bookings],
         NEW rid \in ReportIDs, NEW rep \in ReportRecords, NEW o \in Orders, NEW filled \in Nat,
         rs[rid] = NoReport, Owned(rs, fs), Tiles(filled, rs, fs, o)
  PROVE  Tiles(filled, [rs EXCEPT ![rid] = rep], fs, o)
<1> DEFINE rs2 == [rs EXCEPT ![rid] = rep]
<1>1. \A f \in FillIDs : fs[f] # Unbooked => fs[f].report # rid /\ rs2[fs[f].report] = rs[fs[f].report]
  BY DEF Owned
<1>2. BookedFor(rs2, fs, o) = BookedFor(rs, fs, o)
  BY <1>1 DEF BookedFor
<1>3. \A f \in BookedFor(rs, fs, o) : To(rs2, fs, f) = To(rs, fs, f) /\ From(rs2, fs, f) = From(rs, fs, f)
  BY <1>1 DEF BookedFor, To, From
<1> HIDE DEF rs2
<1>4. Tiles(filled, rs2, fs, o)
  BY <1>2, <1>3 DEF Tiles
<1> QED BY <1>4 DEF rs2

\* Booking a new fill of another order leaves an order's bookings alone.
LEMMA OtherFillKeepsTiles ==
  ASSUME NEW rs \in [ReportIDs -> ReportRecords], NEW fs \in [FillIDs -> Bookings],
         NEW rid \in ReportIDs, NEW fid \in FillIDs, NEW q \in Nat,
         NEW o \in Orders, NEW filled \in Nat,
         fs[fid] = Unbooked, rs[rid].order # o, Tiles(filled, rs, fs, o)
  PROVE  Tiles(filled, rs, [fs EXCEPT ![fid] = [report |-> rid, quantity |-> q]], o)
<1> DEFINE fs2 == [fs EXCEPT ![fid] = [report |-> rid, quantity |-> q]]
<1>1. \A f \in FillIDs : f # fid => fs2[f] = fs[f]
  OBVIOUS
<1>2. fs2[fid].report = rid
  OBVIOUS
<1> HIDE DEF fs2
<1>3. BookedFor(rs, fs2, o) = BookedFor(rs, fs, o) /\ fid \notin BookedFor(rs, fs, o)
  BY <1>1, <1>2 DEF BookedFor
<1>4. \A f \in BookedFor(rs, fs, o) : To(rs, fs2, f) = To(rs, fs, f) /\ From(rs, fs2, f) = From(rs, fs, f)
  BY <1>1, <1>3 DEF BookedFor, To, From
<1>5. Tiles(filled, rs, fs2, o)
  BY <1>3, <1>4 DEF Tiles
<1> QED BY <1>5 DEF fs2

\* Booking a new fill of the order itself extends the tiling by exactly its quantity.
LEMMA FillExtendsTiles ==
  ASSUME NEW rs \in [ReportIDs -> ReportRecords], NEW fs \in [FillIDs -> Bookings],
         NEW rid \in ReportIDs, NEW fid \in FillIDs, NEW q \in Nat, q > 0,
         NEW o \in Orders, NEW filled \in Nat,
         fs[fid] = Unbooked, rs[rid].order = o, rs[rid].cum = filled + q,
         \A f \in FillIDs : fs[f] # Unbooked => fs[f].report \in ReportIDs,
         Tiles(filled, rs, fs, o)
  PROVE  Tiles(filled + q, rs, [fs EXCEPT ![fid] = [report |-> rid, quantity |-> q]], o)
<1> DEFINE fs2 == [fs EXCEPT ![fid] = [report |-> rid, quantity |-> q]]
<1>1. \A f \in FillIDs : f # fid => fs2[f] = fs[f]
  OBVIOUS
<1>2. fs2[fid] = [report |-> rid, quantity |-> q]
  OBVIOUS
<1> HIDE DEF fs2
<1>3. BookedFor(rs, fs2, o) = BookedFor(rs, fs, o) \cup {fid} /\ fid \notin BookedFor(rs, fs, o)
  BY <1>1, <1>2 DEF BookedFor, Unbooked
<1>4. \A f \in BookedFor(rs, fs, o) : To(rs, fs2, f) = To(rs, fs, f) /\ From(rs, fs2, f) = From(rs, fs, f)
  BY <1>1, <1>3 DEF BookedFor, To, From
<1>5. To(rs, fs2, fid) = filled + q /\ From(rs, fs2, fid) = filled
  BY <1>2 DEF To, From
<1>6. \A f \in BookedFor(rs, fs, o) : To(rs, fs, f) \in Int /\ From(rs, fs, f) \in Int
  <2> SUFFICES ASSUME NEW f \in BookedFor(rs, fs, o)
               PROVE  To(rs, fs, f) \in Int /\ From(rs, fs, f) \in Int
    OBVIOUS
  <2>1. fs[f].report \in ReportIDs /\ fs[f] \in Bookings
    BY DEF BookedFor
  <2>2. rs[fs[f].report] \in ReportRecords
    BY <2>1
  <2>3. rs[fs[f].report].cum \in Nat
    BY <2>2 DEF ReportRecords
  <2>4. fs[f].quantity \in Nat
    BY <2>1 DEF Bookings
  <2> QED BY <2>3, <2>4 DEF To, From
<1>7. \A u \in 1..(filled + q) : \E f \in BookedFor(rs, fs2, o) : From(rs, fs2, f) < u /\ u <= To(rs, fs2, f)
  <2> SUFFICES ASSUME NEW u \in 1..(filled + q)
               PROVE  \E f \in BookedFor(rs, fs2, o) : From(rs, fs2, f) < u /\ u <= To(rs, fs2, f)
    OBVIOUS
  <2>1. CASE u <= filled
    <3>1. PICK f \in BookedFor(rs, fs, o) : From(rs, fs, f) < u /\ u <= To(rs, fs, f)
      BY <2>1 DEF Tiles
    <3> QED BY <3>1, <1>3, <1>4
  <2>2. CASE u > filled
    BY <2>2, <1>3, <1>5
  <2> QED BY <2>1, <2>2
<1>8. \A f, g \in BookedFor(rs, fs2, o) :
        f # g => To(rs, fs2, f) <= From(rs, fs2, g) \/ To(rs, fs2, g) <= From(rs, fs2, f)
  BY <1>3, <1>4, <1>5, <1>6 DEF Tiles
<1>9. \A f \in BookedFor(rs, fs2, o) : To(rs, fs2, f) <= filled + q
  BY <1>3, <1>4, <1>5, <1>6 DEF Tiles
<1>10. Tiles(filled + q, rs, fs2, o)
  BY <1>7, <1>8, <1>9 DEF Tiles
<1> QED BY <1>10 DEF fs2

\* The typing of the constants, in the form the provers use.
LEMMA Constants ==
  /\ NoFill \in FillRecords
  /\ Unbooked \in Bookings
  /\ NoReport \in ReportRecords
  /\ Absent \in Checkpoints
  /\ NoPublication \in Publications
  /\ \A o \in Orders : Genesis(o) \in Checkpoints /\ Genesis(o) # Absent
BY ConstantsAssumption
   DEF NoFill, FillRecords, Unbooked, Bookings, NoReport, ReportRecords, Absent, Checkpoints,
       NoPublication, Publications, Genesis, NewOrder, OrderRecords, OrderStates, ConstantsAssumption

\* The empty store is consistent.
LEMMA EmptyConsistent ==
  Consistent([o \in Orders |-> Absent], [r \in ReportIDs |-> NoReport], [f \in FillIDs |-> Unbooked])
BY DEF Consistent, Owned

\* What a publisher may offer is well typed and is not one of the placeholders.
LEMMA OffersTyped ==
  ASSUME NEW o \in Orders, NEW report \in Offers(o), NEW fill \in FillOffers(o)
  PROVE  /\ report \in ReportRecords /\ report # NoReport /\ report.order = o
         /\ report.type \in ReportTypes
         /\ fill \in FillRecords
         /\ fill = NoFill \/ (fill.id \in FillIDs /\ fill.quantity \in Nat /\ fill.quantity > 0)
<1>1. Quantity[o] \in Nat /\ Types \subseteq ReportTypes
  BY ConstantsAssumption DEF ConstantsAssumption
<1>2. report.order = o /\ report.type \in Types /\ report.cum \in Nat
      /\ report.broker \in BrokerIDs \cup {""}
  <2>1. report.order = o /\ report.type \in Types /\ report.broker \in BrokerIDs \cup {""}
    BY DEF Offers
  <2>2. report.cum \in 0..Quantity[o]
    BY DEF Offers
  <2>3. report.cum \in Nat
    BY <1>1, <2>2
  <2> QED BY <2>1, <2>3
<1>3. report = [order |-> report.order, type |-> report.type, cum |-> report.cum, broker |-> report.broker]
  BY DEF Offers
<1>4. report \in ReportRecords
  BY <1>2, <1>3 DEF ReportRecords
<1>5. report.type # "none" /\ report.type \in ReportTypes
  BY <1>1, <1>2 DEF ReportTypes
<1>6. NoReport.type = "none"
  BY DEF NoReport
<1>7. report # NoReport
  BY <1>5, <1>6
<1>8. CASE fill = NoFill
  BY <1>4, <1>5, <1>7, <1>2, <1>8, Constants
<1>9. CASE fill \in [id : FillIDs, quantity : 1..Quantity[o]]
  <2>1. fill.id \in FillIDs /\ fill.quantity \in Nat /\ fill.quantity > 0
    BY <1>1, <1>9
  <2>2. fill = [id |-> fill.id, quantity |-> fill.quantity]
    BY <1>9
  <2>3. fill \in FillRecords
    BY <2>1, <2>2 DEF FillRecords
  <2> QED BY <1>4, <1>5, <1>7, <1>2, <2>1, <2>3
<1> QED BY <1>8, <1>9 DEF FillOffers

\* The successor checkpoint of a prepared publication.
LEMMA NextCheckpointTyped ==
  ASSUME NEW pub \in Publications, Prepared(pub)
  PROVE  /\ NextCheckpoint(pub) \in Checkpoints
         /\ NextCheckpoint(pub) # Absent
         /\ ValidOrder(NextCheckpoint(pub).order)
         /\ NextCheckpoint(pub).order.quantity = Quantity[pub.report.order]
         /\ NextCheckpoint(pub).order.filled = pub.report.cum
<1> DEFINE next == ApplyExecutionReport(pub.expected.order, pub.report)
<1>1. pub.expected.order \in OrderRecords /\ pub.report \in ReportRecords
  BY DEF Publications, Checkpoints
<1>2. pub.report.type \in ReportTypes
  BY OffersTyped DEF Prepared
<1>3. reportTarget[pub.report.type] \in OrderStates
  BY <1>2 DEF reportTarget, OrderStates, ReportTypes
<1>4. NextState(pub.expected.order, pub.report) \in OrderStates
  BY <1>1, <1>3 DEF NextState, OrderRecords
<1>5. /\ pub.expected.order.quantity \in Nat /\ pub.expected.order.revision \in Nat
      /\ pub.expected.order.broker \in BrokerIDs \cup {""}
      /\ pub.report.cum \in Nat /\ pub.report.broker \in BrokerIDs \cup {""}
  BY <1>1 DEF OrderRecords, ReportRecords
<1>6. next \in OrderRecords
  <2>1. next.broker \in BrokerIDs \cup {""}
    BY <1>5 DEF ApplyExecutionReport
  <2>2. next.state \in OrderStates /\ next.quantity \in Nat /\ next.filled \in Nat
    BY <1>4, <1>5 DEF ApplyExecutionReport
  <2>4. next.revision \in Nat
    <3>1. next.revision = pub.expected.order.revision + 1
      BY DEF ApplyExecutionReport
    <3>2. pub.expected.order.revision \in Nat
      BY <1>5
    <3> QED BY <3>1, <3>2
  <2>3. next = [quantity |-> next.quantity, state |-> next.state, revision |-> next.revision,
                filled |-> next.filled, broker |-> next.broker]
    BY DEF ApplyExecutionReport
  <2> HIDE DEF next
  <2> QED BY <2>1, <2>2, <2>3, <2>4 DEF OrderRecords
<1>7. NextCheckpoint(pub) \in Checkpoints
  BY <1>6 DEF NextCheckpoint, Checkpoints, Publications
<1>8. next.quantity = Quantity[pub.report.order] /\ next.filled = pub.report.cum /\ ValidOrder(next)
  BY DEF Prepared, Applies, ApplyExecutionReport
<1>9. NextCheckpoint(pub).order = next
  BY DEF NextCheckpoint
<1> HIDE DEF next
<1>10. Quantity[pub.report.order] # 0
  BY ConstantsAssumption DEF Prepared, ConstantsAssumption
<1>11. Absent.order.quantity = 0
  BY DEF Absent, NewOrder
<1>12. NextCheckpoint(pub) # Absent
  BY <1>8, <1>9, <1>10, <1>11
<1> QED BY <1>7, <1>8, <1>9, <1>12

\* RegisterPlan: nothing is booked for an order that was not registered.
LEMMA RegisterStep ==
  ASSUME Sound, NEW o \in Orders, RegisterPlan(o)
  PROVE  Sound'
<1> USE DEF Sound
<1>1. TypeOK'
  BY Constants DEF TypeOK, RegisterPlan, bundles
<1>2. Consistent(current', reports', fills')
  <2>1. /\ reports' = reports /\ fills' = fills /\ current \in [Orders -> Checkpoints]
        /\ current' = [current EXCEPT ![o] = Genesis(o)] /\ current[o] = Absent
    BY DEF RegisterPlan, TypeOK
  <2>2. /\ Genesis(o).order.filled = 0 /\ Genesis(o).order.quantity = Quantity[o]
        /\ ValidOrder(Genesis(o).order)
    <3>1. Quantity[o] \in Nat
      BY ConstantsAssumption DEF ConstantsAssumption
    <3>2. /\ Genesis(o).order.filled = 0 /\ Genesis(o).order.quantity = Quantity[o]
          /\ Genesis(o).order.state = "CREATED"
      BY DEF Genesis, NewOrder
    <3> QED BY <3>1, <3>2 DEF ValidOrder
  <2>3. BookedFor(reports, fills, o) = {}
    BY <2>1 DEF BookedFor, Consistent, Owned
  <2>4. Tiles(Genesis(o).order.filled, reports, fills, o)
    BY <2>2, <2>3 DEF Tiles
  <2>5. \A p \in Orders : current'[p] = IF p = o THEN Genesis(o) ELSE current[p]
    BY <2>1
  <2>6. \A p \in Orders : current[p] # Absent => current'[p] # Absent
    BY <2>5, Constants
  <2>7. \A p \in Orders : current'[p] # Absent =>
          ValidOrder(current'[p].order) /\ current'[p].order.quantity = Quantity[p]
    BY <2>5, <2>2 DEF Consistent
  <2>8. \A p \in Orders : current'[p] # Absent => Tiles(current'[p].order.filled, reports, fills, p)
    BY <2>5, <2>4 DEF Consistent
  <2>9. \A r \in ReportIDs : reports[r] # NoReport =>
          reports[r].order \in Orders /\ current'[reports[r].order] # Absent
    BY <2>6 DEF Consistent
  <2> QED BY <2>1, <2>7, <2>8, <2>9 DEF Consistent
<1>3. held' = held
  BY DEF RegisterPlan
<1> QED BY <1>1, <1>2, <1>3 DEF Sound

\* Commit: the compare-and-swap makes the expected checkpoint the current one, so
\* the fill extends the tiling of its order and leaves every other order alone.
LEMMA CommitStep ==
  ASSUME Sound, NEW w \in Publishers, Commit(w)
  PROVE  Sound'
<1> DEFINE pub == held[w]
           p == pub.report.order
<1>1. pub \in Publications /\ Prepared(pub)
  BY DEF Sound, TypeOK, Commit
<1>2. /\ p \in Orders /\ pub.id \in ReportIDs /\ pub.expected # Absent
      /\ pub.report \in ReportRecords /\ pub.report # NoReport
      /\ pub.fill \in FillRecords
      /\ pub.fill = NoFill \/ (pub.fill.id \in FillIDs /\ pub.fill.quantity \in Nat /\ pub.fill.quantity > 0)
  BY <1>1, OffersTyped DEF Prepared
<1>3. /\ reports[pub.id] = NoReport
      /\ current[p] = pub.expected
      /\ pub.fill # NoFill => fills[pub.fill.id] = Unbooked
      /\ current' = [current EXCEPT ![p] = NextCheckpoint(pub)]
      /\ reports' = [reports EXCEPT ![pub.id] = pub.report]
      /\ fills' = IF pub.fill = NoFill THEN fills
                  ELSE [fills EXCEPT ![pub.fill.id] = [report |-> pub.id, quantity |-> pub.fill.quantity]]
      /\ publications' = [publications EXCEPT ![pub.id] = pub]
      /\ outcome' = [outcome EXCEPT ![w] = "COMMITTED"]
      /\ reading' = Overtaken(pub)
      /\ UNCHANGED <<failBeforeCommit, held, stage, exported, unapplied>>
  BY DEF Commit, Known, Unmoved, FillIsNew
<1>4. /\ NextCheckpoint(pub) \in Checkpoints /\ NextCheckpoint(pub) # Absent
      /\ ValidOrder(NextCheckpoint(pub).order)
      /\ NextCheckpoint(pub).order.quantity = Quantity[p]
      /\ NextCheckpoint(pub).order.filled = pub.report.cum
  BY <1>1, NextCheckpointTyped
<1>5. [report |-> pub.id, quantity |-> pub.fill.quantity] \in Bookings
  BY <1>2 DEF Bookings, FillRecords
<1>6. /\ current \in [Orders -> Checkpoints] /\ reports \in [ReportIDs -> ReportRecords]
      /\ fills \in [FillIDs -> Bookings] /\ publications \in [ReportIDs -> Publications]
      /\ Consistent(current, reports, fills)
  BY DEF Sound, TypeOK
<1>17. Overtaken(pub) \in Bundles
  <2>1. reading \in Bundles
    BY DEF Sound, TypeOK
  <2>2. pub.report.order \in Orders /\ pub.id \in ReportIDs
    BY <1>2
  <2> QED BY <2>1, <2>2 DEF Bundles, Overtaken
<1>7. pub.expected.order.filled \in Nat /\ pub.report.cum \in Nat
  BY <1>1 DEF Publications, Checkpoints, OrderRecords, ReportRecords
<1>8. IF pub.fill = NoFill THEN pub.report.cum = pub.expected.order.filled
      ELSE pub.report.cum = pub.expected.order.filled + pub.fill.quantity
  <2>1. NoFill.quantity = 0
    BY DEF NoFill
  <2>2. QuantitiesAgree(pub.expected.order, pub.report, pub.fill.quantity)
    BY <1>1 DEF Prepared, Applies
  <2>3. pub.fill # NoFill => pub.fill.quantity > 0 /\ pub.fill.quantity # 0
    BY <1>2
  <2> QED BY <2>1, <2>2, <2>3 DEF QuantitiesAgree
<1> HIDE DEF pub, p
<1>9. \A o \in Orders : current'[o] = IF o = p THEN NextCheckpoint(pub) ELSE current[o]
  BY <1>2, <1>3, <1>6
<1>10. \A r \in ReportIDs : reports'[r] = IF r = pub.id THEN pub.report ELSE reports[r]
  BY <1>2, <1>3, <1>6
<1>11. Owned(reports', fills')
  <2>1. Owned(reports', fills)
    BY <1>2, <1>10, <1>6 DEF Consistent, Owned
  <2>2. CASE pub.fill = NoFill
    BY <2>1, <2>2, <1>3
  <2>3. CASE pub.fill # NoFill
    <3>1. \A f \in FillIDs : fills'[f] = IF f = pub.fill.id THEN [report |-> pub.id, quantity |-> pub.fill.quantity]
                                          ELSE fills[f]
      BY <2>3, <1>2, <1>3, <1>6
    <3> QED BY <2>1, <2>3, <3>1, <1>2, <1>10 DEF Owned
  <2> QED BY <2>2, <2>3
<1>12. \A r \in ReportIDs : reports'[r] # NoReport =>
         reports'[r].order \in Orders /\ current'[reports'[r].order] # Absent
  <2>1. \A r \in ReportIDs : reports[r] # NoReport =>
          reports[r].order \in Orders /\ current[reports[r].order] # Absent
    BY <1>6 DEF Consistent
  <2>2. pub.report.order = p
    BY DEF p
  <2> QED BY <2>1, <2>2, <1>2, <1>4, <1>9, <1>10
<1>13. \A o \in Orders : current'[o] # Absent =>
         ValidOrder(current'[o].order) /\ current'[o].order.quantity = Quantity[o]
  BY <1>4, <1>6, <1>9 DEF Consistent
<1>14. \A o \in Orders : current'[o] # Absent => Tiles(current'[o].order.filled, reports', fills', o)
  <2> SUFFICES ASSUME NEW o \in Orders, current'[o] # Absent
               PROVE  Tiles(current'[o].order.filled, reports', fills', o)
    OBVIOUS
  <2>1. current[o] # Absent /\ current[o].order.filled \in Nat
    BY <1>2, <1>3, <1>6, <1>9 DEF Checkpoints, OrderRecords
  <2>2. Tiles(current[o].order.filled, reports, fills, o) /\ Owned(reports, fills)
    BY <2>1, <1>6 DEF Consistent
  <2>3. Tiles(current[o].order.filled, reports', fills, o)
    BY <2>1, <2>2, <1>2, <1>3, <1>6, RecordKeepsTiles
  <2>4. reports' \in [ReportIDs -> ReportRecords] /\ reports'[pub.id] = pub.report /\ pub.report.order = p
    BY <1>2, <1>3, <1>6 DEF p
  <2>5. CASE pub.fill = NoFill
    <3>1. current'[o].order.filled = current[o].order.filled
      BY <2>5, <1>3, <1>4, <1>8, <1>9
    <3> QED BY <2>3, <2>5, <3>1, <1>3
  <2>6. CASE pub.fill # NoFill /\ o # p
    <3>1. current'[o].order.filled = current[o].order.filled
      BY <2>6, <1>9
    <3> QED BY <2>1, <2>3, <2>4, <2>6, <3>1, <1>2, <1>3, <1>6, OtherFillKeepsTiles
  <2>7. CASE pub.fill # NoFill /\ o = p
    <3>1. current'[o].order.filled = current[o].order.filled + pub.fill.quantity
      BY <2>7, <1>3, <1>4, <1>8, <1>9
    <3>2. reports'[pub.id].cum = current[o].order.filled + pub.fill.quantity
      BY <2>4, <2>7, <1>3, <1>8
    <3>3. \A f \in FillIDs : fills[f] # Unbooked => fills[f].report \in ReportIDs
      BY <2>2 DEF Owned
    <3>4. reports'[pub.id].order = o
      BY <2>4, <2>7
    <3>5. /\ pub.fill.id \in FillIDs /\ pub.fill.quantity \in Nat /\ pub.fill.quantity > 0
          /\ fills[pub.fill.id] = Unbooked
      BY <2>7, <1>2, <1>3
    <3>6. Tiles(current[o].order.filled + pub.fill.quantity, reports',
                [fills EXCEPT ![pub.fill.id] = [report |-> pub.id, quantity |-> pub.fill.quantity]], o)
      BY <2>1, <2>3, <2>4, <3>2, <3>3, <3>4, <3>5, <1>2, <1>6, FillExtendsTiles
    <3> QED BY <2>7, <3>1, <3>6, <1>3
  <2> QED BY <2>5, <2>6, <2>7
<1>15. Consistent(current', reports', fills')
  BY <1>11, <1>12, <1>13, <1>14 DEF Consistent
<1>16. TypeOK'
  BY <1>2, <1>1, <1>3, <1>4, <1>5, <1>6, <1>17 DEF Sound, TypeOK
<1> QED BY <1>3, <1>15, <1>16 DEF Sound

\* A publisher prepares from the checkpoint it reads.
LEMMA PrepareStep ==
  ASSUME Sound, NEW w \in Publishers, NEW o \in Orders, NEW id \in ReportIDs,
         NEW report \in Offers(o), NEW fill \in FillOffers(o), Prepare(w, o, id, report, fill)
  PROVE  Sound'
<1> DEFINE pub == [expected |-> current[o], report |-> report, id |-> id, fill |-> fill]
<1>1. report \in ReportRecords /\ fill \in FillRecords /\ report.order = o
  BY OffersTyped
<1>2. current[o] \in Checkpoints /\ held \in [Publishers -> Publications]
  BY DEF Sound, TypeOK
<1>3. pub \in Publications
  BY <1>1, <1>2 DEF Publications
<1>4. ValidOrder(current[o].order) /\ current[o].order.quantity = Quantity[o]
  BY DEF Sound, Consistent, Prepare
<1>5. Prepared(pub)
  BY <1>1, <1>4 DEF Prepared, Prepare
<1>6. held' = [held EXCEPT ![w] = pub] /\ outcome' = [outcome EXCEPT ![w] = "none"]
      /\ UNCHANGED <<current, reports, fills, publications, failBeforeCommit, bundles>>
  BY DEF Prepare
<1> HIDE DEF pub
<1>7. \A v \in Publishers : held'[v] = IF v = w THEN pub ELSE held[v]
  BY <1>2, <1>6
<1>8. TypeOK'
  BY <1>3, <1>6 DEF Sound, TypeOK, bundles
<1> QED BY <1>5, <1>6, <1>7, <1>8 DEF Sound

\* Reading the store changes nothing in it, and a store that died is empty.
LEMMA ReadStep ==
  ASSUME Sound,
         \/ \E o \in Orders : ReadCheckpoint(o) \/ ReadReports(o) \/ ReadFills(o)
         \/ KeepBundle
  PROVE  Sound'
<1>1. /\ UNCHANGED <<store, failBeforeCommit, held, outcome>>
      /\ unapplied' = unapplied
  BY DEF ReadCheckpoint, ReadReports, ReadFills, KeepBundle
<1>2. EmptyBundle \in Bundles
  BY Constants DEF EmptyBundle, Bundles
<1>3. /\ reading \in Bundles /\ exported \in Bundles /\ unapplied \in SUBSET ReportIDs
      /\ stage \in [Orders -> {"none", "checkpoint", "reports", "fills"}]
      /\ current \in [Orders -> Checkpoints] /\ reports \in [ReportIDs -> ReportRecords]
      /\ fills \in [FillIDs -> Bookings]
  BY DEF Sound, TypeOK
<1>4. /\ reading' \in Bundles /\ exported' \in Bundles
      /\ stage' \in [Orders -> {"none", "checkpoint", "reports", "fills"}]
  <2>1. ASSUME NEW o \in Orders, ReadCheckpoint(o)
        PROVE  reading' \in Bundles /\ exported' = exported /\ stage' \in [Orders -> {"none", "checkpoint", "reports", "fills"}]
    BY <1>3, <2>1 DEF ReadCheckpoint, Bundles
  <2>2. ASSUME NEW o \in Orders, ReadReports(o)
        PROVE  reading' \in Bundles /\ exported' = exported /\ stage' \in [Orders -> {"none", "checkpoint", "reports", "fills"}]
    BY <1>3, <2>2 DEF ReadReports, Bundles
  <2>3. ASSUME NEW o \in Orders, ReadFills(o)
        PROVE  reading' \in Bundles /\ exported' = exported /\ stage' \in [Orders -> {"none", "checkpoint", "reports", "fills"}]
    BY <1>3, <2>3 DEF ReadFills, Bundles
  <2>4. CASE KeepBundle
    BY <1>2, <1>3, <2>4 DEF KeepBundle
  <2> QED BY <1>3, <2>1, <2>2, <2>3, <2>4
<1> QED BY <1>1, <1>3, <1>4 DEF Sound, TypeOK, store

LEMMA CrashStep ==
  ASSUME Sound, Crash
  PROVE  Sound'
<1>1. EmptyBundle \in Bundles
  BY Constants DEF EmptyBundle, Bundles
<1>2. TypeOK'
  BY <1>1, Constants DEF Sound, TypeOK, Crash
<1>3. Consistent(current', reports', fills')
  BY EmptyConsistent DEF Crash
<1>4. \A w \in Publishers : held'[w] = NoPublication
  BY DEF Crash
<1> QED BY <1>2, <1>3, <1>4 DEF Sound, Crash

\* RestorePlan takes a consistent bundle over.
LEMMA RestoreStep ==
  ASSUME Sound, Consistent(exported.current, exported.reports, exported.fills), RestorePlan
  PROVE  Sound'
<1>1. TypeOK'
  BY DEF Sound, TypeOK, RestorePlan, Bundles
<1> QED BY <1>1 DEF Sound, RestorePlan

\* The steps that change neither the store nor what is exported.
LEMMA QuietStep ==
  ASSUME Sound,
         \/ \E w \in Publishers : Replay(w) \/ Refuse(w) \/ Forget(w)
         \/ \E value \in BOOLEAN : SetFailBeforeCommitForTest(value)
         \/ UNCHANGED vars
  PROVE  Sound'
<1>1. CASE \E w \in Publishers : Replay(w) \/ Refuse(w)
  <2>1. TypeOK'
    BY <1>1 DEF Sound, TypeOK, Replay, Refuse, bundles
  <2> QED BY <1>1, <2>1 DEF Sound, Replay, Refuse
<1>2. CASE \E w \in Publishers : Forget(w)
  <2> PICK w \in Publishers : Forget(w)
    BY <1>2
  <2>1. held' = [held EXCEPT ![w] = NoPublication] /\ held \in [Publishers -> Publications]
    BY DEF Forget, Sound, TypeOK
  <2>2. \A v \in Publishers : held'[v] = IF v = w THEN NoPublication ELSE held[v]
    BY <2>1
  <2>3. TypeOK'
    BY Constants DEF Sound, TypeOK, Forget, bundles
  <2> QED BY <2>2, <2>3 DEF Sound, Forget
<1>3. CASE \E value \in BOOLEAN : SetFailBeforeCommitForTest(value)
  <2>1. TypeOK'
    BY <1>3 DEF Sound, TypeOK, SetFailBeforeCommitForTest, bundles
  <2> QED BY <1>3, <2>1 DEF Sound, SetFailBeforeCommitForTest
<1>4. CASE UNCHANGED vars
  BY <1>4 DEF Sound, vars, bundles, TypeOK
<1> QED BY <1>1, <1>2, <1>3, <1>4

\* What an accepted report does to the order it applies to.
LEMMA ApplyIsLifecycleStep ==
  ASSUME NEW order \in OrderRecords, NEW report \in ReportRecords, NEW fill \in Nat,
         report.type \in ReportTypes, Applies(order, report, fill)
  PROVE  LifecycleStep(order, ApplyExecutionReport(order, report))
<1> DEFINE after == ApplyExecutionReport(order, report)
           target == reportTarget[report.type]
<1>1. /\ after.filled = report.cum
      /\ after.state = IF target \in legalTransition[order.state] THEN target ELSE order.state
      /\ after.broker = IF report.broker = "" THEN order.broker ELSE report.broker
  BY DEF ApplyExecutionReport, NextState
<1>2. order.filled \in Nat /\ report.cum \in Nat
  BY DEF OrderRecords, ReportRecords
<1>3. QuantitiesAgree(order, report, fill)
  BY DEF Applies
<1>4. order.broker # "" => after.broker = order.broker
  BY <1>1 DEF Applies
<1>5. after.filled >= order.filled
  BY <1>1, <1>2, <1>3 DEF QuantitiesAgree
<1>6. ASSUME order.state \in Terminal, after.state # order.state
      PROVE  order.state = "CANCELLED" /\ after.filled > order.filled
  <2>1. target \in legalTransition[order.state]
    BY <1>1, <1>6
  <2>2. order.state = "CANCELLED" /\ target \in FillTargets
    BY <1>6, <2>1 DEF Terminal, legalTransition
  <2>3. fill > 0 /\ order.filled + fill = report.cum
    BY <1>3, <2>2 DEF QuantitiesAgree
  <2>4. after.filled = report.cum
    BY <1>1
  <2>5. report.cum > order.filled
    BY <1>2, <2>3
  <2> QED BY <2>2, <2>4, <2>5
<1> HIDE DEF after
<1>7. LifecycleStep(order, after)
  BY <1>4, <1>5, <1>6 DEF LifecycleStep
<1> QED BY <1>7 DEF after

-----------------------------------------------------------------------------
(* Answers: what a publisher was told is in the store.                     *)

InStore(rs, fs, pub) ==
  /\ pub.id \in ReportIDs /\ rs[pub.id] = pub.report /\ pub.report # NoReport
  /\ pub.fill # NoFill =>
       /\ pub.fill.id \in FillIDs /\ pub.fill.quantity > 0
       /\ fs[pub.fill.id] = [report |-> pub.id, quantity |-> pub.fill.quantity]

Answers ==
  /\ \A r \in ReportIDs : publications[r] # NoPublication =>
       publications[r].id = r /\ InStore(reports, fills, publications[r])
  /\ \A w \in Publishers : outcome[w] \in {"COMMITTED", "IDEMPOTENT_REPLAY"} =>
       held[w] # NoPublication /\ InStore(reports, fills, held[w])

\* What Commit writes, entry by entry.
LEMMA CommitWrites ==
  ASSUME Sound, NEW w \in Publishers, Commit(w)
  PROVE  LET pub == held[w]
             p == pub.report.order
         IN /\ p \in Orders /\ pub.id \in ReportIDs /\ pub.report # NoReport
            /\ pub \in Publications /\ Prepared(pub) /\ pub # NoPublication
            /\ pub.fill = NoFill \/ (pub.fill.id \in FillIDs /\ pub.fill.quantity \in Nat /\ pub.fill.quantity > 0)
            /\ reports[pub.id] = NoReport /\ publications[pub.id] = NoPublication
            /\ current[p] = pub.expected /\ pub.expected # Absent
            /\ pub.fill # NoFill => fills[pub.fill.id] = Unbooked
            /\ \A o \in Orders : current'[o] = IF o = p THEN NextCheckpoint(pub) ELSE current[o]
            /\ \A r \in ReportIDs : reports'[r] = IF r = pub.id THEN pub.report ELSE reports[r]
            /\ \A r \in ReportIDs : publications'[r] = IF r = pub.id THEN pub ELSE publications[r]
            /\ \A f \in FillIDs : fills'[f] = IF pub.fill # NoFill /\ f = pub.fill.id
                                              THEN [report |-> pub.id, quantity |-> pub.fill.quantity] ELSE fills[f]
            /\ \A v \in Publishers : outcome'[v] = IF v = w THEN "COMMITTED" ELSE outcome[v]
            /\ held' = held /\ UNCHANGED <<stage, exported, unapplied>> /\ reading' = Overtaken(pub)
<1> DEFINE pub == held[w]
           p == pub.report.order
<1>1. pub \in Publications /\ Prepared(pub) /\ pub # NoPublication
  BY DEF Sound, TypeOK, Commit
<1>2. /\ p \in Orders /\ pub.id \in ReportIDs /\ pub.expected # Absent /\ pub.report # NoReport
      /\ pub.fill = NoFill \/ (pub.fill.id \in FillIDs /\ pub.fill.quantity \in Nat /\ pub.fill.quantity > 0)
  BY <1>1, OffersTyped DEF Prepared
<1>3. /\ reports[pub.id] = NoReport /\ publications[pub.id] = NoPublication
      /\ current[p] = pub.expected
      /\ pub.fill # NoFill => fills[pub.fill.id] = Unbooked
      /\ current' = [current EXCEPT ![p] = NextCheckpoint(pub)]
      /\ reports' = [reports EXCEPT ![pub.id] = pub.report]
      /\ fills' = IF pub.fill = NoFill THEN fills
                  ELSE [fills EXCEPT ![pub.fill.id] = [report |-> pub.id, quantity |-> pub.fill.quantity]]
      /\ publications' = [publications EXCEPT ![pub.id] = pub]
      /\ outcome' = [outcome EXCEPT ![w] = "COMMITTED"]
      /\ held' = held /\ UNCHANGED <<stage, exported, unapplied>> /\ reading' = Overtaken(pub)
  BY DEF Commit, Known, Unmoved, FillIsNew
<1>4. /\ current \in [Orders -> Checkpoints] /\ reports \in [ReportIDs -> ReportRecords]
      /\ fills \in [FillIDs -> Bookings] /\ publications \in [ReportIDs -> Publications]
      /\ outcome \in [Publishers -> {"none", "COMMITTED", "IDEMPOTENT_REPLAY", "REFUSED"}]
  BY DEF Sound, TypeOK
<1> HIDE DEF pub, p
<1>5. \A o \in Orders : current'[o] = IF o = p THEN NextCheckpoint(pub) ELSE current[o]
  BY <1>3, <1>4
<1>6. \A r \in ReportIDs : reports'[r] = IF r = pub.id THEN pub.report ELSE reports[r]
  BY <1>3, <1>4
<1>7. \A r \in ReportIDs : publications'[r] = IF r = pub.id THEN pub ELSE publications[r]
  BY <1>3, <1>4
<1>8. \A f \in FillIDs : fills'[f] = IF pub.fill # NoFill /\ f = pub.fill.id
                                     THEN [report |-> pub.id, quantity |-> pub.fill.quantity] ELSE fills[f]
  BY <1>3, <1>4
<1>9. \A v \in Publishers : outcome'[v] = IF v = w THEN "COMMITTED" ELSE outcome[v]
  BY <1>3, <1>4
<1> QED BY <1>1, <1>2, <1>3, <1>5, <1>6, <1>7, <1>8, <1>9 DEF pub, p

\* Nothing that is in the store is ever overwritten.
LEMMA CommitAnswers ==
  ASSUME Sound, Answers, NEW w \in Publishers, Commit(w)
  PROVE  Answers'
<1> DEFINE pub == held[w]
<1>1. /\ pub.id \in ReportIDs /\ pub.report # NoReport /\ pub # NoPublication
      /\ pub.fill = NoFill \/ (pub.fill.id \in FillIDs /\ pub.fill.quantity \in Nat /\ pub.fill.quantity > 0)
      /\ reports[pub.id] = NoReport /\ (pub.fill # NoFill => fills[pub.fill.id] = Unbooked)
      /\ \A r \in ReportIDs : reports'[r] = IF r = pub.id THEN pub.report ELSE reports[r]
      /\ \A r \in ReportIDs : publications'[r] = IF r = pub.id THEN pub ELSE publications[r]
      /\ \A f \in FillIDs : fills'[f] = IF pub.fill # NoFill /\ f = pub.fill.id
                                        THEN [report |-> pub.id, quantity |-> pub.fill.quantity] ELSE fills[f]
      /\ \A v \in Publishers : outcome'[v] = IF v = w THEN "COMMITTED" ELSE outcome[v]
      /\ held' = held
  BY CommitWrites
<1> HIDE DEF pub
<1>2. InStore(reports', fills', pub)
  BY <1>1 DEF InStore
<1>3. ASSUME NEW other, InStore(reports, fills, other) PROVE InStore(reports', fills', other)
  <2>1. other.id \in ReportIDs /\ reports[other.id] # NoReport
    BY <1>3 DEF InStore
  <2>2. reports'[other.id] = reports[other.id]
    BY <1>1, <2>1
  <2>3. ASSUME other.fill # NoFill PROVE fills'[other.fill.id] = fills[other.fill.id]
    <3>1. fills[other.fill.id].quantity > 0 /\ other.fill.id \in FillIDs
      BY <1>3, <2>3 DEF InStore
    <3>2. Unbooked.quantity = 0
      BY DEF Unbooked
    <3>3. fills[other.fill.id] # Unbooked
      BY <3>1, <3>2
    <3> QED BY <1>1, <3>1, <3>3
  <2> QED BY <1>3, <2>2, <2>3 DEF InStore
<1>4. \A r \in ReportIDs : publications'[r] # NoPublication =>
        publications'[r].id = r /\ InStore(reports', fills', publications'[r])
  BY <1>1, <1>2, <1>3 DEF Answers
<1>5. \A v \in Publishers : outcome'[v] \in {"COMMITTED", "IDEMPOTENT_REPLAY"} =>
        held'[v] # NoPublication /\ InStore(reports', fills', held'[v])
  BY <1>1, <1>2, <1>3 DEF Answers, pub
<1> QED BY <1>4, <1>5 DEF Answers

\* A replay is answered for what the store has.
LEMMA ReplayAnswers ==
  ASSUME Sound, Answers, NEW w \in Publishers, Replay(w)
  PROVE  Answers'
<1> DEFINE pub == held[w]
<1>1. /\ pub # NoPublication /\ Known(pub) /\ IsReplay(pub)
      /\ outcome' = [outcome EXCEPT ![w] = "IDEMPOTENT_REPLAY"]
      /\ UNCHANGED <<reports, fills, publications, held>>
  BY DEF Replay
<1>2. pub.id \in ReportIDs /\ pub.report # NoReport
  <2>1. Prepared(pub)
    BY <1>1 DEF Sound
  <2> QED BY <2>1, OffersTyped DEF Prepared
<1> HIDE DEF pub
<1>3. InStore(reports, fills, pub)
  <2>1. CASE publications[pub.id] # NoPublication
    <3>1. publications[pub.id] = pub
      BY <1>1, <2>1 DEF IsReplay
    <3> QED BY <1>2, <2>1, <3>1 DEF Answers
  <2>2. CASE publications[pub.id] = NoPublication
    <3>1. reports[pub.id] = pub.report /\ pub.fill = NoFill
      BY <1>1, <2>2 DEF IsReplay
    <3> QED BY <1>2, <3>1 DEF InStore
  <2> QED BY <2>1, <2>2
<1>4. \A v \in Publishers : v # w => outcome'[v] = outcome[v]
  BY <1>1 DEF Sound, TypeOK
<1>5. \A v \in Publishers : outcome'[v] \in {"COMMITTED", "IDEMPOTENT_REPLAY"} =>
        held[v] # NoPublication /\ InStore(reports, fills, held[v])
  BY <1>1, <1>3, <1>4 DEF Answers, pub
<1> QED BY <1>1, <1>5 DEF Answers

\* A restart finds no answer to keep.
LEMMA RestoreAnswers ==
  ASSUME Sound, Answers, RestorePlan
  PROVE  Answers'
<1>1. \A r \in ReportIDs : reports[r] = NoReport
  BY DEF RestorePlan, Registered, Sound, Consistent
<1>2. \A pub : ~InStore(reports, fills, pub)
  BY <1>1 DEF InStore
<1>3. UNCHANGED <<publications, held, outcome>>
  BY DEF RestorePlan
<1> QED BY <1>2, <1>3 DEF Answers

LEMMA AnswersStep ==
  ASSUME Sound, Answers, [Next]_vars
  PROVE  Answers'
<1>1. ASSUME NEW w \in Publishers, held' = [held EXCEPT ![w] = held'[w]], outcome' = [outcome EXCEPT ![w] = outcome'[w]],
             outcome'[w] \in {"none", "REFUSED"}, UNCHANGED <<reports, fills, publications>>
      PROVE  Answers'
  <2>1. \A v \in Publishers : v # w => held'[v] = held[v] /\ outcome'[v] = outcome[v]
    BY <1>1 DEF Sound, TypeOK
  <2>2. \A v \in Publishers : outcome'[v] \in {"COMMITTED", "IDEMPOTENT_REPLAY"} =>
          held'[v] # NoPublication /\ InStore(reports, fills, held'[v])
    BY <1>1, <2>1 DEF Answers
  <2> QED BY <1>1, <2>2 DEF Answers
<1>2. ASSUME NEW w \in Publishers, NEW o \in Orders, NEW id \in ReportIDs, NEW report \in Offers(o), NEW fill \in FillOffers(o),
             Prepare(w, o, id, report, fill)
      PROVE  Answers'
  <2>1. held \in [Publishers -> Publications] /\ outcome \in [Publishers -> {"none", "COMMITTED", "IDEMPOTENT_REPLAY", "REFUSED"}]
    BY DEF Sound, TypeOK
  <2> QED BY <1>1, <1>2, <2>1 DEF Prepare
<1>3. ASSUME NEW w \in Publishers, Refuse(w) \/ Forget(w) PROVE Answers'
  <2>1. held \in [Publishers -> Publications] /\ outcome \in [Publishers -> {"none", "COMMITTED", "IDEMPOTENT_REPLAY", "REFUSED"}]
    BY DEF Sound, TypeOK
  <2> QED BY <1>1, <1>3, <2>1 DEF Refuse, Forget
<1>4. CASE Crash
  BY <1>4 DEF Crash, Answers
<1>5. CASE KeepBundle \/ UNCHANGED vars \/ (\E value \in BOOLEAN : SetFailBeforeCommitForTest(value))
           \/ \E o \in Orders : RegisterPlan(o) \/ ReadCheckpoint(o) \/ ReadReports(o) \/ ReadFills(o)
  <2>1. UNCHANGED <<reports, fills, publications, held, outcome>>
    BY <1>5 DEF KeepBundle, ReadCheckpoint, ReadReports, ReadFills, store, vars, SetFailBeforeCommitForTest, RegisterPlan
  <2> QED BY <2>1 DEF Answers
<1> QED BY <1>2, <1>3, <1>4, <1>5, CommitAnswers, ReplayAnswers, RestoreAnswers DEF Next, PublisherStep, StoreStep

-----------------------------------------------------------------------------
(* Balances: what RestorePlan recounts.                                    *)

OrderReports(rs, o) == {r \in ReportIDs : rs[r] # NoReport /\ rs[r].order = o}

BookedQuantity(rs, fs, o) == SumFunction([f \in BookedFor(rs, fs, o) |-> fs[f].quantity])

\* An order's revision counts its reports but the late ones, its fills tile its filled quantity
\* and add up to it, and what its checkpoint carries is there.
Balanced(checkpoint, rs, fs, late, o) ==
  /\ IsFiniteSet(OrderReports(rs, o) \ late)
  /\ checkpoint.order.revision = 1 + Cardinality(OrderReports(rs, o) \ late)
  /\ IsFiniteSet(BookedFor(rs, fs, o))
  /\ BookedQuantity(rs, fs, o) = checkpoint.order.filled
  /\ Tiles(checkpoint.order.filled, rs, fs, o)
  /\ checkpoint.order.revision > 1 =>
       /\ checkpoint.report \in OrderReports(rs, o)
       /\ checkpoint.fill # NoFill => checkpoint.fill.id \in BookedFor(rs, fs, o)

\* Two stores that agree on what they have booked for an order, and on its counted reports.
SameBooks(rs, fs, late, rs2, fs2, late2, o) ==
  /\ OrderReports(rs, o) \subseteq OrderReports(rs2, o)
  /\ OrderReports(rs2, o) \ late2 = OrderReports(rs, o) \ late
  /\ BookedFor(rs2, fs2, o) = BookedFor(rs, fs, o)
  /\ \A f \in BookedFor(rs, fs, o) : fs2[f] = fs[f] /\ rs2[fs[f].report] = rs[fs[f].report]

LEMMA SameBooksSum ==
  ASSUME NEW rs, NEW fs, NEW rs2, NEW fs2, NEW o,
         BookedFor(rs2, fs2, o) = BookedFor(rs, fs, o), \A f \in BookedFor(rs, fs, o) : fs2[f] = fs[f]
  PROVE  BookedQuantity(rs2, fs2, o) = BookedQuantity(rs, fs, o)
<1>1. [f \in BookedFor(rs2, fs2, o) |-> fs2[f].quantity] = [f \in BookedFor(rs, fs, o) |-> fs[f].quantity]
  OBVIOUS
<1> QED BY <1>1 DEF BookedQuantity

LEMMA SameBooksBalance ==
  ASSUME NEW rs, NEW fs, NEW late, NEW rs2, NEW fs2, NEW late2, NEW o, NEW checkpoint,
         Balanced(checkpoint, rs, fs, late, o), SameBooks(rs, fs, late, rs2, fs2, late2, o)
  PROVE  Balanced(checkpoint, rs2, fs2, late2, o)
<1>1. BookedQuantity(rs2, fs2, o) = BookedQuantity(rs, fs, o)
  BY SameBooksSum DEF SameBooks
<1>2. \A f \in BookedFor(rs, fs, o) : To(rs2, fs2, f) = To(rs, fs, f) /\ From(rs2, fs2, f) = From(rs, fs, f)
  BY DEF SameBooks, To, From
<1>3. Tiles(checkpoint.order.filled, rs2, fs2, o)
  BY <1>2 DEF Balanced, SameBooks, Tiles
<1> QED BY <1>1, <1>3 DEF Balanced, SameBooks

LiveBalanced ==
  /\ \A o \in Orders : current[o] # Absent => Balanced(current[o], reports, fills, unapplied, o)
  /\ \A r \in unapplied : reports[r] # NoReport

\* RegisterPlan: an order that enters has no report and no fill.
LEMMA RegisterBalances ==
  ASSUME Sound, LiveBalanced, NEW o \in Orders, RegisterPlan(o)
  PROVE  LiveBalanced'
<1>1. /\ current[o] = Absent /\ UNCHANGED <<reports, fills, unapplied>>
      /\ \A p \in Orders : current'[p] = IF p = o THEN Genesis(o) ELSE current[p]
  BY DEF RegisterPlan, Sound, TypeOK, bundles
<1>2. OrderReports(reports, o) = {} /\ BookedFor(reports, fills, o) = {}
  BY <1>1 DEF OrderReports, BookedFor, Sound, Consistent, Owned
<1>3. BookedQuantity(reports, fills, o) = 0
  <2> DEFINE g == [f \in BookedFor(reports, fills, o) |-> fills[f].quantity]
  <2>1. g \in [{} -> Int]
    BY <1>2
  <2> HIDE DEF g
  <2>2. SumFunction(g) = 0
    BY <2>1, SumType, FS_EmptySet
  <2> QED BY <2>2 DEF BookedQuantity, g
<1>4. Genesis(o).order.revision = 1 /\ Genesis(o).order.filled = 0
  BY DEF Genesis, NewOrder
<1>5. Tiles(0, reports, fills, o)
  BY <1>2 DEF Tiles
<1>6. OrderReports(reports, o) \ unapplied = {} /\ IsFiniteSet({}) /\ Cardinality({}) = 0
  BY <1>2, FS_EmptySet
<1>7. Balanced(Genesis(o), reports, fills, unapplied, o)
  BY <1>2, <1>3, <1>4, <1>5, <1>6 DEF Balanced
<1>8. \A p \in Orders : current'[p] # Absent => Balanced(current'[p], reports, fills, unapplied, p)
  BY <1>1, <1>7 DEF LiveBalanced
<1> QED BY <1>1, <1>8 DEF LiveBalanced

\* What a commit does to the books of an order: one report more for its own, and the fill it carries.
LEMMA CommitBooks ==
  ASSUME Sound, NEW w \in Publishers, Commit(w), NEW o \in Orders
  PROVE  LET pub == held[w]
             p == pub.report.order
         IN /\ OrderReports(reports', o) = IF o = p THEN OrderReports(reports, o) \cup {pub.id} ELSE OrderReports(reports, o)
            /\ pub.id \notin OrderReports(reports, o)
            /\ \A f \in BookedFor(reports, fills, o) : fills'[f] = fills[f] /\ reports'[fills[f].report] = reports[fills[f].report]
            /\ BookedFor(reports', fills', o) = IF pub.fill # NoFill /\ o = p THEN BookedFor(reports, fills, o) \cup {pub.fill.id}
                                                ELSE BookedFor(reports, fills, o)
            /\ pub.fill # NoFill => pub.fill.id \notin BookedFor(reports, fills, o)
<1> DEFINE pub == held[w]
           p == pub.report.order
<1>1. /\ p \in Orders /\ pub.id \in ReportIDs /\ pub.report # NoReport
      /\ pub \in Publications /\ Prepared(pub)
      /\ pub.fill = NoFill \/ (pub.fill.id \in FillIDs /\ pub.fill.quantity \in Nat /\ pub.fill.quantity > 0)
      /\ reports[pub.id] = NoReport
      /\ current[p] = pub.expected /\ pub.expected # Absent
      /\ pub.fill # NoFill => fills[pub.fill.id] = Unbooked
      /\ \A q \in Orders : current'[q] = IF q = p THEN NextCheckpoint(pub) ELSE current[q]
      /\ \A r \in ReportIDs : reports'[r] = IF r = pub.id THEN pub.report ELSE reports[r]
      /\ \A f \in FillIDs : fills'[f] = IF pub.fill # NoFill /\ f = pub.fill.id
                                        THEN [report |-> pub.id, quantity |-> pub.fill.quantity] ELSE fills[f]
  BY CommitWrites
<1>2. /\ \A f \in FillIDs : fills[f] # Unbooked =>
           fills[f].quantity > 0 /\ fills[f].report \in ReportIDs /\ reports[fills[f].report] # NoReport
      /\ fills \in [FillIDs -> Bookings]
  BY DEF Sound, TypeOK, Consistent, Owned
<1>5. pub.report.order = p
  OBVIOUS
<1> HIDE DEF pub, p
<1>6. /\ OrderReports(reports', o) = IF o = p THEN OrderReports(reports, o) \cup {pub.id} ELSE OrderReports(reports, o)
      /\ pub.id \notin OrderReports(reports, o)
  BY <1>1, <1>5 DEF OrderReports
<1>7. ASSUME NEW f \in FillIDs, ~(pub.fill # NoFill /\ f = pub.fill.id)
      PROVE  fills'[f] = fills[f] /\ (f \in BookedFor(reports', fills', o) <=> f \in BookedFor(reports, fills, o))
  BY <1>1, <1>2, <1>7 DEF BookedFor
<1>8. ASSUME pub.fill # NoFill
      PROVE  /\ pub.fill.id \notin BookedFor(reports, fills, o)
             /\ pub.fill.id \in BookedFor(reports', fills', o) <=> o = p
  <2>1. fills'[pub.fill.id] = [report |-> pub.id, quantity |-> pub.fill.quantity]
    BY <1>1, <1>8
  <2>2. fills'[pub.fill.id].quantity # Unbooked.quantity /\ fills'[pub.fill.id].report = pub.id
    BY <1>1, <1>8, <2>1 DEF Unbooked
  <2>3. fills'[pub.fill.id] # Unbooked /\ reports'[pub.id].order = p
    BY <1>1, <1>5, <2>2
  <2> QED BY <1>1, <1>8, <2>2, <2>3 DEF BookedFor
<1>9. BookedFor(reports', fills', o) \subseteq FillIDs /\ BookedFor(reports, fills, o) \subseteq FillIDs
  BY DEF BookedFor
<1>10. \A f \in BookedFor(reports, fills, o) : fills'[f] = fills[f] /\ reports'[fills[f].report] = reports[fills[f].report]
  <2> SUFFICES ASSUME NEW f \in BookedFor(reports, fills, o)
               PROVE  fills'[f] = fills[f] /\ reports'[fills[f].report] = reports[fills[f].report]
    OBVIOUS
  <2>1. fills'[f] = fills[f]
    BY <1>7, <1>8, <1>9
  <2>2. fills[f].report \in ReportIDs /\ fills[f].report # pub.id
    BY <1>1, <1>2 DEF BookedFor
  <2> QED BY <1>1, <2>1, <2>2
<1>11. BookedFor(reports', fills', o) = IF pub.fill # NoFill /\ o = p THEN BookedFor(reports, fills, o) \cup {pub.fill.id}
                                       ELSE BookedFor(reports, fills, o)
  <2>1. CASE pub.fill = NoFill
    BY <1>7, <1>9, <2>1
  <2>2. CASE pub.fill # NoFill
    <3>1. pub.fill.id \in FillIDs
      BY <1>1, <2>2
    <3> QED BY <1>7, <1>8, <1>9, <2>2, <3>1
  <2> QED BY <2>1, <2>2
<1> QED BY <1>6, <1>8, <1>10, <1>11 DEF pub, p

\* Commit keeps every order balanced: one report more, and the fill it carries.
LEMMA CommitBalances ==
  ASSUME Sound, LiveBalanced, NEW w \in Publishers, Commit(w)
  PROVE  LiveBalanced'
<1> DEFINE pub == held[w]
           p == pub.report.order
           S(o) == BookedFor(reports, fills, o)
           R(o) == OrderReports(reports, o)
<1>1. /\ p \in Orders /\ pub.id \in ReportIDs /\ pub.report # NoReport
      /\ pub \in Publications /\ Prepared(pub)
      /\ pub.fill = NoFill \/ (pub.fill.id \in FillIDs /\ pub.fill.quantity \in Nat /\ pub.fill.quantity > 0)
      /\ reports[pub.id] = NoReport
      /\ current[p] = pub.expected /\ pub.expected # Absent
      /\ \A o \in Orders : current'[o] = IF o = p THEN NextCheckpoint(pub) ELSE current[o]
      /\ \A r \in ReportIDs : reports'[r] = IF r = pub.id THEN pub.report ELSE reports[r]
      /\ \A f \in FillIDs : fills'[f] = IF pub.fill # NoFill /\ f = pub.fill.id
                                        THEN [report |-> pub.id, quantity |-> pub.fill.quantity] ELSE fills[f]
      /\ unapplied' = unapplied
  BY CommitWrites
<1>2. /\ NextCheckpoint(pub).order.revision = pub.expected.order.revision + 1
      /\ NextCheckpoint(pub).order.filled = pub.report.cum
      /\ NextCheckpoint(pub).report = pub.id /\ NextCheckpoint(pub).fill = pub.fill
      /\ pub.expected.order.revision \in Nat /\ pub.expected.order.filled \in Nat /\ pub.report.cum \in Nat
  <2>1. pub.expected.order \in OrderRecords /\ pub.report \in ReportRecords
    BY <1>1 DEF Publications, Checkpoints
  <2>2. pub.expected.order.revision \in Nat /\ pub.expected.order.filled \in Nat /\ pub.report.cum \in Nat
    BY <2>1 DEF OrderRecords, ReportRecords
  <2> QED BY <2>2 DEF NextCheckpoint, ApplyExecutionReport
<1>3. IF pub.fill = NoFill THEN pub.report.cum = pub.expected.order.filled
      ELSE pub.report.cum = pub.expected.order.filled + pub.fill.quantity
  <2>1. NoFill.quantity = 0
    BY DEF NoFill
  <2>2. QuantitiesAgree(pub.expected.order, pub.report, pub.fill.quantity)
    BY <1>1 DEF Prepared, Applies
  <2>3. pub.fill # NoFill => pub.fill.quantity > 0 /\ pub.fill.quantity # 0
    BY <1>1
  <2> QED BY <2>1, <2>2, <2>3 DEF QuantitiesAgree
<1>4. ASSUME NEW o \in Orders
      PROVE  /\ OrderReports(reports', o) = IF o = p THEN R(o) \cup {pub.id} ELSE R(o)
             /\ pub.id \notin R(o)
             /\ \A f \in S(o) : fills'[f] = fills[f] /\ reports'[fills[f].report] = reports[fills[f].report]
             /\ BookedFor(reports', fills', o) = IF pub.fill # NoFill /\ o = p THEN S(o) \cup {pub.fill.id} ELSE S(o)
             /\ pub.fill # NoFill => pub.fill.id \notin S(o)
  BY CommitBooks
<1>5. \A o \in Orders : current'[o] # Absent => Tiles(current'[o].order.filled, reports', fills', o)
  BY CommitStep DEF Sound, Consistent
<1>6. fills \in [FillIDs -> Bookings] /\ \A o : S(o) \subseteq FillIDs
  BY DEF Sound, TypeOK, BookedFor
<1>7. NextCheckpoint(pub) # Absent
  BY <1>1, NextCheckpointTyped
<1>8. ASSUME NEW o \in Orders, o # p, current[o] # Absent PROVE Balanced(current[o], reports', fills', unapplied, o)
  <2>1. Balanced(current[o], reports, fills, unapplied, o)
    BY <1>8 DEF LiveBalanced
  <2> HIDE DEF pub, p
  <2>2. SameBooks(reports, fills, unapplied, reports', fills', unapplied, o)
    BY <1>4, <1>8 DEF SameBooks
  <2> QED BY <2>1, <2>2, SameBooksBalance
<1>9. Balanced(pub.expected, reports, fills, unapplied, p)
  BY <1>1 DEF LiveBalanced
<1>10. pub.id \notin unapplied
  BY <1>1 DEF LiveBalanced
<1>11. Balanced(NextCheckpoint(pub), reports', fills', unapplied, p)
  <2> DEFINE T == BookedFor(reports', fills', p)
             x == pub.fill.id
             D == R(p) \ unapplied
  <2>1. OrderReports(reports', p) \ unapplied = D \cup {pub.id} /\ pub.id \notin D
    BY <1>1, <1>4, <1>10
  <2>2. IsFiniteSet(D) /\ pub.expected.order.revision = 1 + Cardinality(D)
    BY <1>9 DEF Balanced
  <2>3. /\ IsFiniteSet(OrderReports(reports', p) \ unapplied)
        /\ NextCheckpoint(pub).order.revision = 1 + Cardinality(OrderReports(reports', p) \ unapplied)
    <3> HIDE DEF D, pub
    <3>1. IsFiniteSet(D \cup {pub.id}) /\ Cardinality(D \cup {pub.id}) = Cardinality(D) + 1
      BY <2>1, <2>2, FS_AddElement
    <3>2. Cardinality(D) \in Nat
      BY <2>2, FS_CardinalityType
    <3>3. NextCheckpoint(pub).order.revision = 1 + Cardinality(D \cup {pub.id})
      BY <1>2, <2>2, <3>1, <3>2
    <3> QED BY <2>1, <3>1, <3>3
  <2>4. IsFiniteSet(S(p)) /\ BookedQuantity(reports, fills, p) = pub.expected.order.filled
    BY <1>9 DEF Balanced
  <2>5. IsFiniteSet(T) /\ BookedQuantity(reports', fills', p) = pub.report.cum
    <3>1. CASE pub.fill = NoFill
      <4> HIDE DEF pub, p
      <4>1. T = S(p) /\ \A f \in S(p) : fills'[f] = fills[f]
        BY <1>1, <1>4, <3>1
      <4>2. BookedQuantity(reports', fills', p) = BookedQuantity(reports, fills, p)
        BY <4>1, SameBooksSum
      <4> QED BY <1>3, <2>4, <3>1, <4>1, <4>2
    <3>2. CASE pub.fill # NoFill
      <4> DEFINE g == [f \in S(p) |-> fills[f].quantity]
                 h == [f \in T |-> fills'[f].quantity]
      <4>1. T = S(p) \cup {x} /\ x \notin S(p) /\ x \in FillIDs
        BY <1>1, <1>4, <3>2
      <4>2. fills'[x].quantity = pub.fill.quantity /\ pub.fill.quantity \in Int
        BY <1>1, <3>2
      <4>3. \A f \in S(p) : fills'[f] = fills[f] /\ fills[f].quantity \in Int
        BY <1>1, <1>4, <1>6 DEF Bookings
      <4>4. SumFunction(g) = pub.expected.order.filled
        BY <2>4 DEF BookedQuantity
      <4>5. SumFunction(h) = BookedQuantity(reports', fills', p)
        BY DEF BookedQuantity
      <4> HIDE DEF S, T, x, pub, p
      <4>6. Adds(S(p), x, g, h)
        <5>1. \A f \in T : fills'[f].quantity \in Int
          BY <4>1, <4>2, <4>3
        <5>2. g \in [S(p) -> Int] /\ h \in [S(p) \cup {x} -> Int]
          BY <4>1, <4>3, <5>1
        <5>3. \A f \in S(p) : h[f] = g[f]
          BY <4>1, <4>3
        <5> QED BY <5>2, <5>3 DEF Adds
      <4>7. h[x] = pub.fill.quantity
        BY <4>1, <4>2
      <4> HIDE DEF g, h
      <4>8. SumFunction(h) = SumFunction(g) + h[x] /\ IsFiniteSet(T)
        <5>1. IsFiniteSet(S(p))
          BY <2>4
        <5> QED BY <4>1, <4>6, <5>1, SumAdds, FS_AddElement
      <4> QED BY <1>3, <3>2, <4>4, <4>5, <4>7, <4>8
    <3> QED BY <3>1, <3>2
  <2>6. pub.id \in OrderReports(reports', p) /\ (pub.fill # NoFill => pub.fill.id \in T)
    BY <1>1, <1>4
  <2>7. Tiles(NextCheckpoint(pub).order.filled, reports', fills', p)
    BY <1>1, <1>5, <1>7
  <2> HIDE DEF pub, p
  <2> QED BY <1>2, <2>3, <2>5, <2>6, <2>7 DEF Balanced, T
<1>12. \A r \in unapplied' : reports'[r] # NoReport
  BY <1>1 DEF LiveBalanced, Sound, TypeOK
<1> HIDE DEF pub, p
<1>13. \A o \in Orders : current'[o] # Absent => Balanced(current'[o], reports', fills', unapplied', o)
  BY <1>1, <1>8, <1>11
<1> QED BY <1>12, <1>13 DEF LiveBalanced

-----------------------------------------------------------------------------
(* A bundle that is being read, while publications fall between the reads. *)

\* The reports and the fills of an order as its reader knows them.
ReportsSeen(o) == IF stage[o] = "checkpoint" THEN reports ELSE reading.reports

FillsSeen(o) == IF stage[o] = "fills" THEN reading.fills ELSE fills

\* What was read is still so, and every report that is ahead of its checkpoint will be read.
StillThere ==
  /\ \A r \in ReportIDs : reading.reports[r] # NoReport =>
       reading.reports[r] = reports[r] /\ stage[reports[r].order] \in {"reports", "fills"}
  /\ \A f \in FillIDs : reading.fills[f] # Unbooked =>
       reading.fills[f] = fills[f] /\ stage[reports[fills[f].report].order] = "fills"
  /\ \A r \in reading.ahead :
       /\ reports[r] # NoReport /\ stage[reports[r].order] # "none"
       /\ stage[reports[r].order] # "checkpoint" => reading.reports[r] # NoReport

\* An order's reading has begun.
Begun(o) ==
  /\ stage[o] = "none" => reading.current[o] = Absent /\ o \notin reading.torn
  /\ stage[o] # "none" =>
       /\ current[o] # Absent /\ reading.current[o] # Absent
       /\ ValidOrder(reading.current[o].order) /\ reading.current[o].order.quantity = Quantity[o]
  /\ stage[o] \in {"checkpoint", "reports"} =>
       IF o \in reading.torn THEN reading.current[o].order.filled < current[o].order.filled
       ELSE reading.current[o].order.filled = current[o].order.filled

\* While no fill fell between its reads, what was read of it balances.
Whole(o) == stage[o] # "none" /\ o \notin reading.torn =>
  /\ Balanced(reading.current[o], ReportsSeen(o), FillsSeen(o), reading.ahead, o)
  /\ stage[o] # "checkpoint" =>
       \A f \in BookedFor(reports, FillsSeen(o), o) : reading.reports[FillsSeen(o)[f].report] # NoReport

\* A fill that fell between them shows: its report is missing, or the sum is wrong.
Shows(o) == stage[o] = "fills" /\ o \in reading.torn =>
  \/ \E f \in BookedFor(reports, reading.fills, o) : reading.reports[reading.fills[f].report] = NoReport
  \/ BookedQuantity(reading.reports, reading.fills, o) # reading.current[o].order.filled

Underway == \A o \in Orders : Begun(o) /\ Whole(o) /\ Shows(o)

\* What the steps below need of the live store.
LEMMA LiveFacts ==
  ASSUME Sound
  PROVE  /\ \A r \in ReportIDs : reports[r] # NoReport => reports[r].order \in Orders
         /\ \A f \in FillIDs : fills[f] # Unbooked => fills[f].report \in ReportIDs /\ reports[fills[f].report] # NoReport
         /\ \A o \in Orders : NoReport.order # o
         /\ \A o \in Orders : current[o].order.filled \in Nat
         /\ \A o \in Orders : reading.current[o].order.filled \in Nat
<1>1. \A o \in Orders : current[o].order.filled \in Nat /\ reading.current[o].order.filled \in Nat
  BY DEF Sound, TypeOK, Bundles, Checkpoints, OrderRecords
<1>2. \A o \in Orders : NoReport.order # o
  BY ConstantsAssumption DEF ConstantsAssumption, NoReport
<1> QED BY <1>1, <1>2 DEF Sound, Consistent, Owned

\* A publication while orders are being read.
LEMMA CommitReads ==
  ASSUME Sound, StillThere, Underway, NEW w \in Publishers, Commit(w)
  PROVE  StillThere' /\ Underway'
<1> DEFINE pub == held[w]
           p == pub.report.order
<1>1. /\ p \in Orders /\ pub.id \in ReportIDs /\ pub.report # NoReport
      /\ pub \in Publications /\ Prepared(pub)
      /\ pub.fill = NoFill \/ (pub.fill.id \in FillIDs /\ pub.fill.quantity \in Nat /\ pub.fill.quantity > 0)
      /\ reports[pub.id] = NoReport
      /\ current[p] = pub.expected /\ pub.expected # Absent
      /\ pub.fill # NoFill => fills[pub.fill.id] = Unbooked
      /\ \A o \in Orders : current'[o] = IF o = p THEN NextCheckpoint(pub) ELSE current[o]
      /\ \A r \in ReportIDs : reports'[r] = IF r = pub.id THEN pub.report ELSE reports[r]
      /\ \A f \in FillIDs : fills'[f] = IF pub.fill # NoFill /\ f = pub.fill.id
                                        THEN [report |-> pub.id, quantity |-> pub.fill.quantity] ELSE fills[f]
      /\ stage' = stage /\ reading' = Overtaken(pub)
  BY CommitWrites
<1>2. /\ reading'.current = reading.current /\ reading'.reports = reading.reports /\ reading'.fills = reading.fills
      /\ reading'.torn = IF stage[p] \in {"checkpoint", "reports"} /\ pub.fill # NoFill
                         THEN reading.torn \cup {p} ELSE reading.torn
      /\ reading'.ahead = IF stage[p] = "checkpoint" THEN reading.ahead \cup {pub.id} ELSE reading.ahead
  <2>1. reading \in Bundles
    BY DEF Sound, TypeOK
  <2> QED BY <1>1, <2>1 DEF Overtaken, Bundles
<1>3. ASSUME NEW o \in Orders
      PROVE  /\ OrderReports(reports', o) = IF o = p THEN OrderReports(reports, o) \cup {pub.id} ELSE OrderReports(reports, o)
             /\ pub.id \notin OrderReports(reports, o)
             /\ \A f \in BookedFor(reports, fills, o) : fills'[f] = fills[f] /\ reports'[fills[f].report] = reports[fills[f].report]
             /\ BookedFor(reports', fills', o) = IF pub.fill # NoFill /\ o = p THEN BookedFor(reports, fills, o) \cup {pub.fill.id}
                                                 ELSE BookedFor(reports, fills, o)
  BY CommitBooks
<1>4. /\ NextCheckpoint(pub) # Absent
      /\ NextCheckpoint(pub).order.filled = pub.report.cum
      /\ pub.expected.order.filled \in Nat /\ pub.report.cum \in Nat
      /\ IF pub.fill = NoFill THEN pub.report.cum = pub.expected.order.filled
         ELSE pub.report.cum > pub.expected.order.filled
  <2>1. NoFill.quantity = 0
    BY DEF NoFill
  <2>2. QuantitiesAgree(pub.expected.order, pub.report, pub.fill.quantity)
    BY <1>1 DEF Prepared, Applies
  <2>3. pub.fill # NoFill => pub.fill.quantity > 0 /\ pub.fill.quantity # 0 /\ pub.fill.quantity \in Nat
    BY <1>1
  <2>4. pub.expected.order.filled \in Nat /\ pub.report.cum \in Nat
    BY <1>1 DEF Publications, Checkpoints, OrderRecords, ReportRecords
  <2>5. NextCheckpoint(pub) # Absent /\ NextCheckpoint(pub).order.filled = pub.report.cum
    BY <1>1, NextCheckpointTyped
  <2> QED BY <2>1, <2>2, <2>3, <2>4, <2>5 DEF QuantitiesAgree
<1>5. pub.report.order = p
  OBVIOUS
<1> HIDE DEF pub, p
<1>6. \A r \in ReportIDs : reading.reports[r] # NoReport => r # pub.id /\ reports'[r] = reports[r]
  BY <1>1 DEF StillThere
<1>7. \A f \in FillIDs : fills[f] # Unbooked =>
        /\ fills'[f] = fills[f] /\ fills[f].report \in ReportIDs
        /\ reports'[fills[f].report] = reports[fills[f].report]
  BY <1>1, LiveFacts
<1>8. StillThere'
  <2>1. \A f \in FillIDs : reading.fills[f] # Unbooked =>
          reading.fills[f] = fills'[f] /\ stage[reports'[fills'[f].report].order] = "fills"
    BY <1>7 DEF StillThere
  <2>2. \A r \in ReportIDs : reading.reports[r] # NoReport =>
          reading.reports[r] = reports'[r] /\ stage[reports'[r].order] \in {"reports", "fills"}
    BY <1>6 DEF StillThere
  <2>3. reading.ahead \subseteq ReportIDs
    BY DEF Sound, TypeOK, Bundles
  <2>4. \A r \in reading.ahead :
          /\ reports'[r] # NoReport /\ stage[reports'[r].order] # "none"
          /\ stage[reports'[r].order] # "checkpoint" => reading.reports[r] # NoReport
    BY <1>1, <2>3 DEF StillThere
  <2>5. \A r \in reading'.ahead :
          /\ reports'[r] # NoReport /\ stage[reports'[r].order] # "none"
          /\ stage[reports'[r].order] # "checkpoint" => reading.reports[r] # NoReport
    BY <1>1, <1>2, <1>5, <2>4
  <2> QED BY <1>1, <1>2, <2>1, <2>2, <2>5 DEF StillThere
<1>9. ASSUME NEW o \in Orders PROVE Begun(o)'
  <2>1. Begun(o) /\ current[o].order.filled \in Nat /\ reading.current[o].order.filled \in Nat
    BY LiveFacts DEF Underway
  <2>2. stage[o] = "none" => o \notin reading'.torn
    BY <1>2, <2>1 DEF Begun
  <2>3. current[o] # Absent => current'[o] # Absent
    BY <1>1, <1>4
  <2>4. stage[o] \in {"checkpoint", "reports"} =>
          IF o \in reading'.torn THEN reading.current[o].order.filled < current'[o].order.filled
          ELSE reading.current[o].order.filled = current'[o].order.filled
    BY <1>1, <1>2, <1>4, <2>1 DEF Begun
  <2> QED BY <1>1, <1>2, <2>1, <2>2, <2>3, <2>4 DEF Begun
<1>10. ASSUME NEW o \in Orders
       PROVE  /\ BookedFor(reports', reading.fills, o) = BookedFor(reports, reading.fills, o)
              /\ \A f \in FillIDs : reading.fills[f] # Unbooked => reports'[reading.fills[f].report] = reports[reading.fills[f].report]
  <2>1. \A f \in FillIDs : reading.fills[f] # Unbooked => reports'[reading.fills[f].report] = reports[reading.fills[f].report]
    BY <1>7 DEF StillThere
  <2> QED BY <2>1 DEF BookedFor
<1>11. ASSUME NEW o \in Orders PROVE Shows(o)'
  <2>1. Shows(o)
    BY DEF Underway
  <2>2. stage[o] = "fills" /\ o \in reading'.torn => o \in reading.torn
    BY <1>2
  <2> QED BY <1>1, <1>2, <1>10, <2>1, <2>2 DEF Shows
<1>12. ASSUME NEW o \in Orders PROVE Whole(o)'
  <2> SUFFICES ASSUME stage[o] # "none", o \notin reading'.torn
               PROVE  /\ Balanced(reading.current[o], ReportsSeen(o)', FillsSeen(o)', reading'.ahead, o)
                      /\ stage[o] # "checkpoint" =>
                           \A f \in BookedFor(reports', FillsSeen(o)', o) : reading.reports[FillsSeen(o)'[f].report] # NoReport
    BY <1>1, <1>2 DEF Whole
  <2>1. o \notin reading.torn /\ (stage[o] # "fills" => o # p \/ pub.fill = NoFill)
    BY <1>1, <1>2 DEF Sound, TypeOK
  <2>2. /\ Balanced(reading.current[o], ReportsSeen(o), FillsSeen(o), reading.ahead, o)
        /\ stage[o] # "checkpoint" =>
             \A f \in BookedFor(reports, FillsSeen(o), o) : reading.reports[FillsSeen(o)[f].report] # NoReport
    BY <2>1 DEF Underway, Whole
  <2>3. SameBooks(ReportsSeen(o), FillsSeen(o), reading.ahead, ReportsSeen(o)', FillsSeen(o)', reading'.ahead, o)
    <3>1. CASE stage[o] = "checkpoint"
      <4>1. SameBooks(reports, fills, reading.ahead, reports', fills', reading'.ahead, o)
        BY <1>2, <1>3, <2>1, <3>1 DEF SameBooks
      <4> QED BY <1>1, <3>1, <4>1 DEF ReportsSeen, FillsSeen
    <3>2. OrderReports(reading.reports, o) \ reading'.ahead = OrderReports(reading.reports, o) \ reading.ahead
      BY <1>2, <1>6 DEF OrderReports
    <3>3. CASE stage[o] = "reports"
      <4>1. \A f \in BookedFor(reading.reports, fills, o) : fills'[f] = fills[f]
        BY <1>7 DEF BookedFor
      <4>2. \A f \in FillIDs : fills'[f] # fills[f] => reading.reports[fills'[f].report].order # o
        BY <1>1, <1>6, LiveFacts
      <4>3. BookedFor(reading.reports, fills', o) = BookedFor(reading.reports, fills, o)
        BY <1>7, <4>2 DEF BookedFor
      <4>4. SameBooks(reading.reports, fills, reading.ahead, reading.reports, fills', reading'.ahead, o)
        BY <3>2, <4>1, <4>3 DEF SameBooks
      <4> QED BY <1>1, <1>2, <3>3, <4>4 DEF ReportsSeen, FillsSeen
    <3>4. CASE stage[o] = "fills"
      <4>1. SameBooks(reading.reports, reading.fills, reading.ahead, reading.reports, reading.fills, reading'.ahead, o)
        BY <3>2 DEF SameBooks
      <4> QED BY <1>1, <1>2, <3>4, <4>1 DEF ReportsSeen, FillsSeen
    <3> QED BY <3>1, <3>3, <3>4 DEF Sound, TypeOK
  <2>4. Balanced(reading.current[o], ReportsSeen(o)', FillsSeen(o)', reading'.ahead, o)
    BY <2>2, <2>3, SameBooksBalance
  <2>5. CASE stage[o] = "reports"
    <3>1. FillsSeen(o) = fills /\ FillsSeen(o)' = fills'
      BY <1>1, <2>5 DEF FillsSeen
    <3>2. BookedFor(reports', fills', o) = BookedFor(reports, fills, o)
      BY <1>3, <2>1, <2>5
    <3> QED BY <1>3, <2>2, <2>4, <2>5, <3>1, <3>2
  <2>6. CASE stage[o] = "fills"
    <3>1. FillsSeen(o) = reading.fills /\ FillsSeen(o)' = reading.fills
      BY <1>1, <1>2, <2>6 DEF FillsSeen
    <3> QED BY <1>10, <2>2, <2>4, <2>6, <3>1
  <2> QED BY <2>4, <2>5, <2>6 DEF Sound, TypeOK
<1> QED BY <1>8, <1>9, <1>11, <1>12 DEF Underway

\* Reading the checkpoint of an order: it balances like the store it is read from.
LEMMA CheckpointReads ==
  ASSUME Sound, LiveBalanced, StillThere, Underway, NEW p \in Orders, ReadCheckpoint(p)
  PROVE  StillThere' /\ Underway'
<1> DEFINE late == {r \in unapplied : reports[r].order = p}
<1>1. /\ stage[p] = "none" /\ current[p] # Absent
      /\ UNCHANGED <<current, reports, fills>>
      /\ \A o \in Orders : stage'[o] = IF o = p THEN "checkpoint" ELSE stage[o]
      /\ \A o \in Orders : reading'.current[o] = IF o = p THEN current[o] ELSE reading.current[o]
      /\ reading'.reports = reading.reports /\ reading'.fills = reading.fills
      /\ reading'.torn = reading.torn /\ reading'.ahead = reading.ahead \cup late
  <2>1. reading \in Bundles /\ stage \in [Orders -> {"none", "checkpoint", "reports", "fills"}]
    BY DEF Sound, TypeOK
  <2> QED BY <2>1 DEF ReadCheckpoint, Bundles, store
<1>2. reading.ahead \subseteq ReportIDs /\ unapplied \subseteq ReportIDs
  BY DEF Sound, TypeOK, Bundles
<1>3. \A r \in late : r \in ReportIDs /\ reports[r] # NoReport /\ reports[r].order = p
  BY <1>2 DEF LiveBalanced
<1>4. \A r \in reading.ahead : reports[r].order # p /\ reports[r].order \in Orders
  BY <1>1, <1>2, LiveFacts DEF StillThere
<1>5. \A r \in ReportIDs : reading.reports[r] # NoReport => reading.reports[r] = reports[r] /\ reports[r].order # p
  BY <1>1, LiveFacts DEF StillThere
<1>6. \A f \in FillIDs : reading.fills[f] # Unbooked =>
        reading.fills[f] = fills[f] /\ reports[fills[f].report].order # p /\ reports[fills[f].report].order \in Orders
  BY <1>1, LiveFacts DEF StillThere
<1>7. OrderReports(reports, p) \ (reading.ahead \cup late) = OrderReports(reports, p) \ unapplied
  BY <1>4 DEF OrderReports
<1>8. \A o \in Orders \ {p} : OrderReports(reports, o) \ (reading.ahead \cup late) = OrderReports(reports, o) \ reading.ahead
  BY <1>3 DEF OrderReports
<1>9. \A o \in Orders \ {p} :
        OrderReports(reading.reports, o) \ (reading.ahead \cup late) = OrderReports(reading.reports, o) \ reading.ahead
  BY <1>3, <1>5 DEF OrderReports
<1> HIDE DEF late
<1>10. StillThere'
  <2>1. \A r \in ReportIDs : reading.reports[r] # NoReport => stage'[reports[r].order] \in {"reports", "fills"}
    BY <1>1, <1>5, LiveFacts DEF StillThere
  <2>2. \A f \in FillIDs : reading.fills[f] # Unbooked => stage'[reports[fills[f].report].order] = "fills"
    BY <1>1, <1>6 DEF StillThere
  <2>3. \A r \in reading.ahead :
          /\ reports[r] # NoReport /\ stage'[reports[r].order] # "none"
          /\ stage'[reports[r].order] # "checkpoint" => reading.reports[r] # NoReport
    BY <1>1, <1>4 DEF StillThere
  <2>4. \A r \in late : stage'[reports[r].order] = "checkpoint"
    BY <1>1, <1>3
  <2>5. \A r \in reading'.ahead :
          /\ reports[r] # NoReport /\ stage'[reports[r].order] # "none"
          /\ stage'[reports[r].order] # "checkpoint" => reading.reports[r] # NoReport
    BY <1>1, <1>3, <2>3, <2>4
  <2> QED BY <1>1, <1>5, <1>6, <2>1, <2>2, <2>5 DEF StillThere
<1>11. ASSUME NEW o \in Orders, o # p PROVE Begun(o)' /\ Whole(o)' /\ Shows(o)'
  <2>1. Begun(o) /\ Whole(o) /\ Shows(o) /\ stage'[o] = stage[o] /\ reading'.current[o] = reading.current[o]
    BY <1>1, <1>11 DEF Underway
  <2>2. Begun(o)' /\ Shows(o)'
    BY <1>1, <2>1 DEF Begun, Shows
  <2>3. ReportsSeen(o)' = ReportsSeen(o) /\ FillsSeen(o)' = FillsSeen(o)
    BY <1>1, <2>1 DEF ReportsSeen, FillsSeen
  <2>4. OrderReports(ReportsSeen(o), o) \ reading'.ahead = OrderReports(ReportsSeen(o), o) \ reading.ahead
    BY <1>1, <1>8, <1>9, <1>11 DEF ReportsSeen
  <2>5. SameBooks(ReportsSeen(o), FillsSeen(o), reading.ahead, ReportsSeen(o), FillsSeen(o), reading'.ahead, o)
    BY <2>4 DEF SameBooks
  <2>6. Balanced(reading.current[o], ReportsSeen(o), FillsSeen(o), reading.ahead, o)
        => Balanced(reading.current[o], ReportsSeen(o), FillsSeen(o), reading'.ahead, o)
    BY <2>5, SameBooksBalance
  <2> QED BY <1>1, <2>1, <2>2, <2>3, <2>6 DEF Whole
<1>12. Begun(p)' /\ Whole(p)' /\ Shows(p)'
  <2>1. p \notin reading.torn
    BY <1>1 DEF Underway, Begun
  <2>2. ValidOrder(current[p].order) /\ current[p].order.quantity = Quantity[p]
    BY <1>1 DEF Sound, Consistent
  <2>3. Begun(p)' /\ Shows(p)'
    BY <1>1, <2>1, <2>2 DEF Begun, Shows
  <2>4. Balanced(current[p], reports, fills, unapplied, p)
    BY <1>1 DEF LiveBalanced
  <2>5. SameBooks(reports, fills, unapplied, reports, fills, reading'.ahead, p)
    BY <1>1, <1>7 DEF SameBooks
  <2>6. Balanced(current[p], reports, fills, reading'.ahead, p)
    BY <2>4, <2>5, SameBooksBalance
  <2>7. ReportsSeen(p)' = reports /\ FillsSeen(p)' = fills /\ reading'.current[p] = current[p] /\ stage'[p] = "checkpoint"
    BY <1>1 DEF ReportsSeen, FillsSeen
  <2> QED BY <2>3, <2>6, <2>7 DEF Whole
<1> QED BY <1>10, <1>11, <1>12 DEF Underway

\* Reading the reports of an order changes nothing in what is known of the others.
LEMMA ReportsReadBooks ==
  ASSUME Sound, StillThere, NEW p \in Orders, ReadReports(p), NEW o \in Orders, o # p
  PROVE  /\ OrderReports(reading'.reports, o) = OrderReports(reading.reports, o)
         /\ \A r \in OrderReports(reading.reports, o) : reading'.reports[r] = reading.reports[r]
         /\ \A fs \in [FillIDs -> Bookings] :
              (\A f \in FillIDs : fs[f] # Unbooked => fs[f].report \in ReportIDs) =>
              /\ BookedFor(reading'.reports, fs, o) = BookedFor(reading.reports, fs, o)
              /\ \A f \in BookedFor(reading.reports, fs, o) : reading'.reports[fs[f].report] = reading.reports[fs[f].report]
<1>1. /\ stage[p] = "checkpoint"
      /\ UNCHANGED <<current, reports, fills>>
      /\ \A q \in Orders : stage'[q] = IF q = p THEN "reports" ELSE stage[q]
      /\ reading'.current = reading.current /\ reading'.fills = reading.fills
      /\ \A r \in ReportIDs : reading'.reports[r] = IF reports[r].order = p THEN reports[r] ELSE reading.reports[r]
      /\ reading'.torn = reading.torn /\ reading'.ahead = reading.ahead
  <2>1. reading \in Bundles /\ stage \in [Orders -> {"none", "checkpoint", "reports", "fills"}]
    BY DEF Sound, TypeOK
  <2> QED BY <2>1 DEF ReadReports, Bundles, store
<1>2. reading.ahead \subseteq ReportIDs
  BY DEF Sound, TypeOK, Bundles
<1>3. \A r \in ReportIDs : reading.reports[r] # NoReport =>
        reading.reports[r] = reports[r] /\ reports[r].order # p /\ reports[r].order \in Orders
  BY <1>1, LiveFacts DEF StillThere
<1>4. /\ OrderReports(reading'.reports, o) = OrderReports(reading.reports, o)
      /\ \A r \in OrderReports(reading.reports, o) : reading'.reports[r] = reading.reports[r]
      /\ \A r \in ReportIDs : reading'.reports[r].order = o <=> reading.reports[r].order = o
  <2>1. \A r \in ReportIDs : reports[r].order = p => reading.reports[r].order # o /\ reading'.reports[r].order # o
    BY <1>1, <1>3, LiveFacts
  <2>2. \A r \in ReportIDs : reports[r].order # p => reading'.reports[r] = reading.reports[r]
    BY <1>1
  <2> QED BY <2>1, <2>2 DEF OrderReports
<1>5. ASSUME NEW fs \in [FillIDs -> Bookings], \A f \in FillIDs : fs[f] # Unbooked => fs[f].report \in ReportIDs
      PROVE  /\ BookedFor(reading'.reports, fs, o) = BookedFor(reading.reports, fs, o)
             /\ \A f \in BookedFor(reading.reports, fs, o) : reading'.reports[fs[f].report] = reading.reports[fs[f].report]
  <2>1. \A f \in FillIDs : fs[f] # Unbooked =>
          (reading'.reports[fs[f].report].order = o <=> reading.reports[fs[f].report].order = o)
    BY <1>4, <1>5
  <2>2. \A r \in ReportIDs : reading.reports[r].order = o => reading'.reports[r] = reading.reports[r]
    BY <1>1, <1>3, LiveFacts
  <2> QED BY <1>5, <2>1, <2>2 DEF BookedFor
<1> QED BY <1>4, <1>5

\* Reading the reports of an order.
LEMMA ReportsRead ==
  ASSUME Sound, StillThere, Underway, NEW p \in Orders, ReadReports(p)
  PROVE  StillThere' /\ Underway'
<1>1. /\ stage[p] = "checkpoint"
      /\ UNCHANGED <<current, reports, fills>>
      /\ \A o \in Orders : stage'[o] = IF o = p THEN "reports" ELSE stage[o]
      /\ reading'.current = reading.current /\ reading'.fills = reading.fills
      /\ \A r \in ReportIDs : reading'.reports[r] = IF reports[r].order = p THEN reports[r] ELSE reading.reports[r]
      /\ reading'.torn = reading.torn /\ reading'.ahead = reading.ahead
  <2>1. reading \in Bundles /\ stage \in [Orders -> {"none", "checkpoint", "reports", "fills"}]
    BY DEF Sound, TypeOK
  <2> QED BY <2>1 DEF ReadReports, Bundles, store
<1>2. reading.ahead \subseteq ReportIDs
  BY DEF Sound, TypeOK, Bundles
<1>3. \A r \in ReportIDs : reading.reports[r] # NoReport =>
        reading.reports[r] = reports[r] /\ reports[r].order # p /\ reports[r].order \in Orders
  BY <1>1, LiveFacts DEF StillThere
<1>4. \A f \in FillIDs : reading.fills[f] # Unbooked =>
        /\ reading.fills[f] = fills[f] /\ reports[fills[f].report].order # p
        /\ reports[fills[f].report].order \in Orders /\ fills[f].report \in ReportIDs
  BY <1>1, LiveFacts DEF StillThere
<1>5. StillThere'
  <2>1. \A r \in ReportIDs : reading'.reports[r] # NoReport =>
          reading'.reports[r] = reports[r] /\ stage'[reports[r].order] \in {"reports", "fills"}
    BY <1>1, <1>3 DEF StillThere
  <2>2. \A f \in FillIDs : reading.fills[f] # Unbooked => stage'[reports[fills[f].report].order] = "fills"
    BY <1>1, <1>4 DEF StillThere
  <2>3. \A r \in reading.ahead :
          /\ reports[r] # NoReport /\ stage'[reports[r].order] # "none"
          /\ stage'[reports[r].order] # "checkpoint" => reading'.reports[r] # NoReport
    BY <1>1, <1>2, LiveFacts DEF StillThere
  <2> QED BY <1>1, <1>4, <2>1, <2>2, <2>3 DEF StillThere
<1>6. ASSUME NEW o \in Orders, o # p
      PROVE  /\ OrderReports(reading'.reports, o) = OrderReports(reading.reports, o)
             /\ \A r \in OrderReports(reading.reports, o) : reading'.reports[r] = reading.reports[r]
  BY <1>6, ReportsReadBooks
<1>7. ASSUME NEW o \in Orders, o # p, NEW fs \in [FillIDs -> Bookings],
             \A f \in FillIDs : fs[f] # Unbooked => fs[f].report \in ReportIDs
      PROVE  /\ BookedFor(reading'.reports, fs, o) = BookedFor(reading.reports, fs, o)
             /\ \A f \in BookedFor(reading.reports, fs, o) : reading'.reports[fs[f].report] = reading.reports[fs[f].report]
  BY <1>7, ReportsReadBooks
<1>8. fills \in [FillIDs -> Bookings] /\ reading.fills \in [FillIDs -> Bookings]
  BY DEF Sound, TypeOK, Bundles
<1>9. ASSUME NEW o \in Orders, o # p PROVE Begun(o)' /\ Whole(o)' /\ Shows(o)'
  <2>1. Begun(o) /\ Whole(o) /\ Shows(o) /\ stage'[o] = stage[o]
    BY <1>1, <1>9 DEF Underway
  <2>2. Begun(o)'
    BY <1>1, <2>1 DEF Begun
  <2>3. FillsSeen(o)' = FillsSeen(o) /\ FillsSeen(o) \in [FillIDs -> Bookings]
        /\ \A f \in FillIDs : FillsSeen(o)[f] # Unbooked => FillsSeen(o)[f] = fills[f] /\ FillsSeen(o)[f].report \in ReportIDs
    BY <1>1, <1>4, <1>8, <2>1, LiveFacts DEF FillsSeen
  <2>4. SameBooks(ReportsSeen(o), FillsSeen(o), reading.ahead, ReportsSeen(o)', FillsSeen(o), reading.ahead, o)
    <3>1. CASE stage[o] = "checkpoint"
      BY <1>1, <2>1, <3>1 DEF SameBooks, ReportsSeen
    <3>2. CASE stage[o] # "checkpoint"
      <4>1. ReportsSeen(o) = reading.reports /\ ReportsSeen(o)' = reading'.reports
        BY <2>1, <3>2 DEF ReportsSeen
      <4>2. SameBooks(reading.reports, FillsSeen(o), reading.ahead, reading'.reports, FillsSeen(o), reading.ahead, o)
        BY <1>6, <1>7, <1>9, <2>3 DEF SameBooks
      <4> QED BY <4>1, <4>2
    <3> QED BY <3>1, <3>2
  <2>5. Balanced(reading.current[o], ReportsSeen(o), FillsSeen(o), reading.ahead, o)
        => Balanced(reading.current[o], ReportsSeen(o)', FillsSeen(o), reading.ahead, o)
    BY <2>4, SameBooksBalance
  <2>6. \A f \in BookedFor(reports, FillsSeen(o), o) :
          reading'.reports[FillsSeen(o)[f].report] = reading.reports[FillsSeen(o)[f].report]
    BY <1>1, <1>9, <2>3 DEF BookedFor
  <2>7. Whole(o)'
    BY <1>1, <2>1, <2>3, <2>5, <2>6 DEF Whole
  <2>8. Shows(o)'
    <3> SUFFICES ASSUME stage[o] = "fills", o \in reading.torn
                 PROVE  \/ \E f \in BookedFor(reports, reading.fills, o) : reading'.reports[reading.fills[f].report] = NoReport
                        \/ BookedQuantity(reading'.reports, reading.fills, o) # reading.current[o].order.filled
      BY <1>1, <2>1 DEF Shows
    <3>1. FillsSeen(o) = reading.fills
      BY DEF FillsSeen
    <3>2. BookedFor(reading'.reports, reading.fills, o) = BookedFor(reading.reports, reading.fills, o)
      BY <1>7, <1>9, <2>3, <3>1
    <3>3. BookedQuantity(reading'.reports, reading.fills, o) = BookedQuantity(reading.reports, reading.fills, o)
      BY <3>2, SameBooksSum
    <3> QED BY <2>1, <2>6, <3>1, <3>3 DEF Shows
  <2> QED BY <2>2, <2>7, <2>8
<1>10. Begun(p)' /\ Whole(p)' /\ Shows(p)'
  <2>1. Begun(p) /\ Whole(p) /\ stage'[p] = "reports"
    BY <1>1 DEF Underway
  <2>2. Begun(p)' /\ Shows(p)'
    BY <1>1, <2>1 DEF Begun, Shows
  <2>3. /\ OrderReports(reading'.reports, p) = OrderReports(reports, p)
        /\ \A r \in ReportIDs : reading'.reports[r].order = p <=> reports[r].order = p
        /\ \A r \in ReportIDs : reports[r].order = p => reading'.reports[r] = reports[r]
    <3>1. \A r \in ReportIDs : reading.reports[r].order # p
      BY <1>3, LiveFacts
    <3> QED BY <1>1, <3>1 DEF OrderReports
  <2>4. \A f \in FillIDs : fills[f] # Unbooked => fills[f].report \in ReportIDs
    BY LiveFacts
  <2>5. BookedFor(reading'.reports, fills, p) = BookedFor(reports, fills, p)
    BY <2>3, <2>4 DEF BookedFor
  <2>6. \A f \in BookedFor(reports, fills, p) : reading'.reports[fills[f].report] = reports[fills[f].report]
    BY <2>3, <2>4 DEF BookedFor
  <2>7. SameBooks(reports, fills, reading.ahead, reading'.reports, fills, reading.ahead, p)
    BY <2>3, <2>5, <2>6 DEF SameBooks
  <2>8. ReportsSeen(p) = reports /\ ReportsSeen(p)' = reading'.reports /\ FillsSeen(p) = fills /\ FillsSeen(p)' = fills
    BY <1>1, <2>1 DEF ReportsSeen, FillsSeen
  <2>9. Balanced(reading.current[p], reports, fills, reading.ahead, p)
        => Balanced(reading.current[p], reading'.reports, fills, reading.ahead, p)
    BY <2>7, SameBooksBalance
  <2>10. \A f \in BookedFor(reports, fills, p) : reading'.reports[fills[f].report] # NoReport
    BY <2>6, LiveFacts DEF BookedFor
  <2>11. Whole(p)'
    BY <1>1, <2>1, <2>8, <2>9, <2>10 DEF Whole
  <2> QED BY <2>2, <2>11
<1> QED BY <1>5, <1>9, <1>10 DEF Underway

\* Reading the fills of an order: its own are taken over, those of other orders stay.
LEMMA FillsReadBooks ==
  ASSUME Sound, StillThere, NEW p \in Orders, ReadFills(p)
  PROVE  LET B == BookedFor(reports, fills, p) IN
         /\ \A f \in FillIDs : reading'.fills[f] = IF f \in B THEN fills[f] ELSE reading.fills[f]
         /\ \A f \in B : f \in FillIDs /\ reading'.fills[f] = fills[f] /\ reading.fills[f] = Unbooked
         /\ BookedFor(reading.reports, reading'.fills, p) = BookedFor(reading.reports, fills, p)
         /\ BookedFor(reports, reading'.fills, p) = B
         /\ BookedFor(reading.reports, fills, p) \subseteq B
         /\ \A o \in Orders : o # p =>
              /\ BookedFor(reading.reports, reading'.fills, o) = BookedFor(reading.reports, reading.fills, o)
              /\ BookedFor(reports, reading'.fills, o) = BookedFor(reports, reading.fills, o)
<1> DEFINE B == BookedFor(reports, fills, p)
<1>1. /\ stage[p] = "reports"
      /\ UNCHANGED <<current, reports, fills>>
      /\ \A o \in Orders : stage'[o] = IF o = p THEN "fills" ELSE stage[o]
      /\ reading'.current = reading.current /\ reading'.reports = reading.reports
      /\ \A f \in FillIDs : reading'.fills[f] = IF f \in B THEN fills[f] ELSE reading.fills[f]
      /\ reading'.torn = reading.torn /\ reading'.ahead = reading.ahead
  <2>1. reading \in Bundles /\ stage \in [Orders -> {"none", "checkpoint", "reports", "fills"}]
    BY DEF Sound, TypeOK
  <2> QED BY <2>1 DEF ReadFills, Bundles, store
<1>2. reading.ahead \subseteq ReportIDs /\ B \subseteq FillIDs
  BY DEF Sound, TypeOK, Bundles, BookedFor
<1>3. \A r \in ReportIDs : reading.reports[r] # NoReport =>
        reading.reports[r] = reports[r] /\ reports[r].order \in Orders
  BY LiveFacts DEF StillThere
<1>4. \A f \in FillIDs : reading.fills[f] # Unbooked =>
        /\ reading.fills[f] = fills[f] /\ reports[fills[f].report].order # p
        /\ reports[fills[f].report].order \in Orders /\ fills[f].report \in ReportIDs
  BY <1>1, LiveFacts DEF StillThere
<1>5. \A f \in B : /\ fills[f] # Unbooked /\ fills[f].report \in ReportIDs /\ reports[fills[f].report] # NoReport
                   /\ reports[fills[f].report].order = p
  BY LiveFacts DEF BookedFor
<1> HIDE DEF B
<1>6. ASSUME NEW o \in Orders, o # p
      PROVE  /\ BookedFor(reading.reports, reading'.fills, o) = BookedFor(reading.reports, reading.fills, o)
             /\ BookedFor(reports, reading'.fills, o) = BookedFor(reports, reading.fills, o)
  <2>1. \A f \in B : reading'.fills[f] = fills[f] /\ reading.fills[f] = Unbooked
    BY <1>1, <1>2, <1>4, <1>5
  <2>2. \A f \in B : reports[reading'.fills[f].report].order # o /\ reading.reports[reading'.fills[f].report].order # o
    BY <1>3, <1>5, <1>6, <2>1, LiveFacts
  <2>3. \A f \in FillIDs \ B : reading'.fills[f] = reading.fills[f]
    BY <1>1
  <2> QED BY <2>1, <2>2, <2>3 DEF BookedFor
<1>7. /\ BookedFor(reading.reports, reading'.fills, p) = BookedFor(reading.reports, fills, p)
      /\ BookedFor(reports, reading'.fills, p) = B
      /\ BookedFor(reading.reports, fills, p) \subseteq B
  <2>1. \A f \in B : reading'.fills[f] = fills[f] /\ f \in FillIDs
    BY <1>1, <1>2
  <2>2. \A f \in FillIDs \ B : /\ reading'.fills[f] # Unbooked =>
                                    /\ reports[reading'.fills[f].report].order # p
                                    /\ reading.reports[reading'.fills[f].report].order # p
    BY <1>1, <1>3, <1>4, LiveFacts
  <2>3. BookedFor(reading.reports, fills, p) \subseteq B
    BY <1>3, LiveFacts DEF B, BookedFor
  <2>4. BookedFor(reports, reading'.fills, p) = B
    BY <1>5, <2>1, <2>2 DEF BookedFor
  <2>5. \A f \in FillIDs : f \in BookedFor(reading.reports, reading'.fills, p) <=> f \in BookedFor(reading.reports, fills, p)
    <3> SUFFICES ASSUME NEW f \in FillIDs
                 PROVE  f \in BookedFor(reading.reports, reading'.fills, p) <=> f \in BookedFor(reading.reports, fills, p)
      OBVIOUS
    <3>1. CASE f \in B
      BY <2>1, <3>1 DEF BookedFor
    <3>2. CASE f \notin B
      BY <2>2, <2>3, <3>2 DEF BookedFor
    <3> QED BY <3>1, <3>2
  <2>6. BookedFor(reading.reports, reading'.fills, p) = BookedFor(reading.reports, fills, p)
    BY <2>5 DEF BookedFor
  <2> QED BY <2>1, <2>3, <2>4, <2>6
<1>8. \A f \in B : f \in FillIDs /\ reading'.fills[f] = fills[f] /\ reading.fills[f] = Unbooked
  BY <1>1, <1>2, <1>4, <1>5
<1> QED BY <1>1, <1>6, <1>7, <1>8 DEF B

\* Reading the fills of an order: the reports they belong to were read, unless a fill fell
\* between the reads.
LEMMA FillsRead ==
  ASSUME Sound, LiveBalanced, StillThere, Underway, NEW p \in Orders, ReadFills(p)
  PROVE  StillThere' /\ Underway'
<1> DEFINE B == BookedFor(reports, fills, p)
<1>1. /\ stage[p] = "reports"
      /\ UNCHANGED <<current, reports, fills>>
      /\ \A o \in Orders : stage'[o] = IF o = p THEN "fills" ELSE stage[o]
      /\ reading'.current = reading.current /\ reading'.reports = reading.reports
      /\ \A f \in FillIDs : reading'.fills[f] = IF f \in B THEN fills[f] ELSE reading.fills[f]
      /\ reading'.torn = reading.torn /\ reading'.ahead = reading.ahead
  <2>1. reading \in Bundles /\ stage \in [Orders -> {"none", "checkpoint", "reports", "fills"}]
    BY DEF Sound, TypeOK
  <2> QED BY <2>1 DEF ReadFills, Bundles, store
<1>2. reading.ahead \subseteq ReportIDs /\ B \subseteq FillIDs
  BY DEF Sound, TypeOK, Bundles, BookedFor
<1>3. \A r \in ReportIDs : reading.reports[r] # NoReport =>
        reading.reports[r] = reports[r] /\ reports[r].order \in Orders
  BY LiveFacts DEF StillThere
<1>4. \A f \in FillIDs : reading.fills[f] # Unbooked =>
        /\ reading.fills[f] = fills[f] /\ reports[fills[f].report].order # p
        /\ reports[fills[f].report].order \in Orders /\ fills[f].report \in ReportIDs
  BY <1>1, LiveFacts DEF StillThere
<1>5. \A f \in B : /\ fills[f] # Unbooked /\ fills[f].report \in ReportIDs /\ reports[fills[f].report] # NoReport
                   /\ reports[fills[f].report].order = p
  BY LiveFacts DEF BookedFor
<1> HIDE DEF B
<1>6. StillThere'
  <2>1. \A r \in ReportIDs : reading.reports[r] # NoReport => stage'[reports[r].order] \in {"reports", "fills"}
    BY <1>1, <1>3 DEF StillThere
  <2>2. \A f \in FillIDs : reading'.fills[f] # Unbooked =>
          reading'.fills[f] = fills[f] /\ stage'[reports[fills[f].report].order] = "fills"
    BY <1>1, <1>4, <1>5 DEF StillThere
  <2>3. \A r \in reading.ahead :
          /\ reports[r] # NoReport /\ stage'[reports[r].order] # "none"
          /\ stage'[reports[r].order] # "checkpoint" => reading.reports[r] # NoReport
    BY <1>1, <1>2, LiveFacts DEF StillThere
  <2> QED BY <1>1, <1>3, <2>1, <2>2, <2>3 DEF StillThere
<1>7. ASSUME NEW o \in Orders, o # p
      PROVE  /\ BookedFor(reading.reports, reading'.fills, o) = BookedFor(reading.reports, reading.fills, o)
             /\ BookedFor(reports, reading'.fills, o) = BookedFor(reports, reading.fills, o)
             /\ \A f \in FillIDs \ B : reading'.fills[f] = reading.fills[f]
  BY <1>1, <1>7, FillsReadBooks
<1>8. ASSUME NEW o \in Orders, o # p PROVE Begun(o)' /\ Whole(o)' /\ Shows(o)'
  <2>1. Begun(o) /\ Whole(o) /\ Shows(o) /\ stage'[o] = stage[o]
    BY <1>1, <1>8 DEF Underway
  <2>2. Begun(o)'
    BY <1>1, <2>1 DEF Begun
  <2>3. ReportsSeen(o)' = ReportsSeen(o)
    BY <1>1, <2>1 DEF ReportsSeen
  <2>4. CASE stage[o] # "fills"
    <3>1. FillsSeen(o)' = FillsSeen(o)
      BY <1>1, <2>1, <2>4 DEF FillsSeen
    <3> QED BY <1>1, <2>1, <2>2, <2>3, <2>4, <3>1 DEF Whole, Shows
  <2>5. CASE stage[o] = "fills"
    <3>1. FillsSeen(o)' = reading'.fills /\ FillsSeen(o) = reading.fills /\ ReportsSeen(o) = reading.reports
      BY <1>1, <2>1, <2>5 DEF FillsSeen, ReportsSeen
    <3>2. \A f \in BookedFor(reports, reading.fills, o) \cup BookedFor(reading.reports, reading.fills, o) :
            reading'.fills[f] = reading.fills[f]
      <4>1. \A f \in B : reading.fills[f] = Unbooked
        BY <1>2, <1>4, <1>5
      <4> QED BY <1>7, <1>8, <4>1 DEF BookedFor
    <3>3. SameBooks(reading.reports, reading.fills, reading.ahead, reading.reports, reading'.fills, reading.ahead, o)
      BY <1>7, <1>8, <3>2 DEF SameBooks
    <3>4. Balanced(reading.current[o], reading.reports, reading.fills, reading.ahead, o)
          => Balanced(reading.current[o], reading.reports, reading'.fills, reading.ahead, o)
      BY <3>3, SameBooksBalance
    <3>5. BookedQuantity(reading.reports, reading'.fills, o) = BookedQuantity(reading.reports, reading.fills, o)
      BY <1>7, <1>8, <3>2, SameBooksSum
    <3>6. Whole(o)'
      BY <1>1, <1>7, <1>8, <2>1, <2>3, <3>1, <3>2, <3>4 DEF Whole
    <3>7. Shows(o)'
      BY <1>1, <1>7, <1>8, <2>1, <3>2, <3>5 DEF Shows
    <3> QED BY <2>2, <3>6, <3>7
  <2> QED BY <2>4, <2>5
<1>9. /\ BookedFor(reading.reports, reading'.fills, p) = BookedFor(reading.reports, fills, p)
      /\ BookedFor(reports, reading'.fills, p) = B
      /\ BookedFor(reading.reports, fills, p) \subseteq B
      /\ \A f \in B : reading'.fills[f] = fills[f]
  BY FillsReadBooks DEF B
<1>10. Begun(p)' /\ Whole(p)' /\ Shows(p)'
  <2>1. Begun(p) /\ Whole(p) /\ stage'[p] = "fills"
    BY <1>1 DEF Underway
  <2>2. Begun(p)'
    BY <1>1, <2>1 DEF Begun
  <2>3. /\ ReportsSeen(p) = reading.reports /\ ReportsSeen(p)' = reading.reports
        /\ FillsSeen(p) = fills /\ FillsSeen(p)' = reading'.fills
    BY <1>1, <2>1 DEF ReportsSeen, FillsSeen
  <2>4. SameBooks(reading.reports, fills, reading.ahead, reading.reports, reading'.fills, reading.ahead, p)
    BY <1>9 DEF SameBooks
  <2>5. Balanced(reading.current[p], reading.reports, fills, reading.ahead, p)
        => Balanced(reading.current[p], reading.reports, reading'.fills, reading.ahead, p)
    BY <2>4, SameBooksBalance
  <2>6. Whole(p)'
    BY <1>1, <1>9, <2>1, <2>3, <2>5 DEF Whole, B
  <2>7. Shows(p)'
    <3> SUFFICES ASSUME p \in reading.torn, \A f \in B : reading.reports[fills[f].report] # NoReport
                 PROVE  BookedQuantity(reading.reports, reading'.fills, p) # reading.current[p].order.filled
      BY <1>1, <1>9 DEF Shows
    <3>1. \A f \in B : reading.reports[fills[f].report] = reports[fills[f].report]
      BY <1>3, <1>5
    <3>2. BookedFor(reading.reports, fills, p) = B
      BY <1>2, <1>5, <1>9, <3>1 DEF BookedFor
    <3>3. BookedQuantity(reading.reports, reading'.fills, p) = BookedQuantity(reports, fills, p)
      BY <1>9, <3>2, SameBooksSum DEF B
    <3>4. current[p] # Absent /\ reading.current[p].order.filled < current[p].order.filled
      BY <1>1, <2>1 DEF Begun
    <3>5. BookedQuantity(reports, fills, p) = current[p].order.filled
      BY <3>4 DEF LiveBalanced, Balanced
    <3> QED BY <3>3, <3>4, <3>5, LiveFacts
  <2> QED BY <2>2, <2>6, <2>7
<1> QED BY <1>6, <1>8, <1>10 DEF Underway

-----------------------------------------------------------------------------
(* The bundle that was kept.                                               *)

Kept ==
  IF exported.torn = {}
  THEN /\ Consistent(exported.current, exported.reports, exported.fills)
       /\ \A o \in Orders : exported.current[o] # Absent =>
            Balanced(exported.current[o], exported.reports, exported.fills, exported.ahead, o)
       /\ \A r \in exported.ahead : exported.reports[r] # NoReport
  ELSE ~Restorable(exported)

\* What RestorePlan validates holds of a bundle that balances.
LEMMA BalancedRestores ==
  ASSUME NEW bundle \in Bundles, Owned(bundle.reports, bundle.fills),
         \A o \in Orders : bundle.current[o] # Absent =>
           Balanced(bundle.current[o], bundle.reports, bundle.fills, bundle.ahead, o)
  PROVE  Restorable(bundle)
<1> DEFINE booked == {f \in FillIDs : bundle.fills[f] # Unbooked}
           of(o) == BookedFor(bundle.reports, bundle.fills, o)
<1>1. \A f \in booked : bundle.fills[f].report \in ReportIDs /\ bundle.reports[bundle.fills[f].report] # NoReport
  BY DEF Owned
<1>2. ASSUME NEW o \in Orders, bundle.current[o] # Absent
      PROVE  /\ bundle.current[o].order.revision > 1 =>
                  /\ bundle.reports[bundle.current[o].report] # NoReport
                  /\ bundle.current[o].fill # NoFill => bundle.current[o].fill.id \in booked
             /\ SumFunction([f \in of(o) |-> bundle.fills[f].quantity]) = bundle.current[o].order.filled
  <2>1. Balanced(bundle.current[o], bundle.reports, bundle.fills, bundle.ahead, o)
    BY <1>2
  <2>2. SumFunction([f \in of(o) |-> bundle.fills[f].quantity]) = bundle.current[o].order.filled
    BY <2>1 DEF Balanced, BookedQuantity
  <2> HIDE DEF of
  <2> QED BY <2>1, <2>2 DEF Balanced, OrderReports, BookedFor
<1> QED BY <1>1, <1>2 DEF Restorable

LEMMA KeepKeeps ==
  ASSUME Sound, StillThere, Underway, KeepBundle
  PROVE  StillThere' /\ Underway' /\ Kept'
<1>1. /\ \A o \in Orders : stage[o] \in {"none", "fills"}
      /\ exported' = reading /\ reading' = EmptyBundle /\ \A o \in Orders : stage'[o] = "none"
      /\ UNCHANGED <<current, reports, fills>>
  BY DEF KeepBundle, store
<1>2. StillThere' /\ Underway'
  BY <1>1 DEF StillThere, Underway, Begun, Whole, Shows, EmptyBundle
<1>3. reading \in Bundles /\ reading.torn \subseteq Orders
  BY DEF Sound, TypeOK, Bundles
<1>4. CASE reading.torn = {}
  <2>1. ASSUME NEW o \in Orders, reading.current[o] # Absent
        PROVE  /\ stage[o] = "fills" /\ ValidOrder(reading.current[o].order)
               /\ reading.current[o].order.quantity = Quantity[o]
               /\ Balanced(reading.current[o], reading.reports, reading.fills, reading.ahead, o)
    <3>1. stage[o] = "fills"
      BY <1>1, <2>1 DEF Underway, Begun
    <3> QED BY <1>4, <3>1 DEF Underway, Begun, Whole, ReportsSeen, FillsSeen
  <2>2. \A r \in ReportIDs : reading.reports[r] # NoReport =>
          reading.reports[r].order \in Orders /\ reading.current[reading.reports[r].order] # Absent
    BY LiveFacts DEF StillThere, Underway, Begun
  <2>3. Owned(reading.reports, reading.fills)
    <3> SUFFICES ASSUME NEW f \in FillIDs, reading.fills[f] # Unbooked
                 PROVE  /\ reading.fills[f].quantity > 0 /\ reading.fills[f].report \in ReportIDs
                        /\ reading.reports[reading.fills[f].report] # NoReport
      BY DEF Owned
    <3>1. reading.fills[f] = fills[f] /\ stage[reports[fills[f].report].order] = "fills"
      BY DEF StillThere
    <3>2. fills[f].quantity > 0 /\ fills[f].report \in ReportIDs /\ reports[fills[f].report].order \in Orders
      BY <3>1, LiveFacts DEF Sound, Consistent, Owned
    <3>3. PICK o \in Orders : reports[fills[f].report].order = o
      BY <3>2
    <3>4. f \in BookedFor(reports, FillsSeen(o), o) /\ FillsSeen(o) = reading.fills
      BY <3>1, <3>3 DEF BookedFor, FillsSeen
    <3>5. reading.reports[FillsSeen(o)[f].report] # NoReport
      BY <1>4, <3>1, <3>3, <3>4 DEF Underway, Whole
    <3> QED BY <3>1, <3>2, <3>4, <3>5
  <2>4. \A r \in reading.ahead : reading.reports[r] # NoReport
    BY <1>1, <1>3, LiveFacts DEF StillThere, Bundles
  <2>5. Consistent(reading.current, reading.reports, reading.fills)
    BY <2>1, <2>2, <2>3 DEF Consistent, Balanced
  <2> QED BY <1>1, <1>2, <1>4, <2>1, <2>4, <2>5 DEF Kept
<1>5. CASE reading.torn # {}
  <2>1. PICK o \in Orders : o \in reading.torn
    BY <1>3, <1>5
  <2>2. stage[o] = "fills" /\ reading.current[o] # Absent
    BY <1>1, <2>1 DEF Underway, Begun
  <2>3. \/ \E f \in BookedFor(reports, reading.fills, o) : reading.reports[reading.fills[f].report] = NoReport
        \/ BookedQuantity(reading.reports, reading.fills, o) # reading.current[o].order.filled
    BY <2>1, <2>2 DEF Underway, Shows
  <2>4. ~Restorable(reading)
    <3>1. CASE \E f \in BookedFor(reports, reading.fills, o) : reading.reports[reading.fills[f].report] = NoReport
      BY <3>1 DEF Restorable, BookedFor
    <3>2. CASE BookedQuantity(reading.reports, reading.fills, o) # reading.current[o].order.filled
      BY <2>2, <3>2 DEF Restorable, BookedQuantity
    <3> QED BY <2>3, <3>1, <3>2
  <2> QED BY <1>1, <1>2, <1>5, <2>4 DEF Kept
<1> QED BY <1>4, <1>5

\* The inductive invariant: the store is sound and balanced, publishers were told what is in it,
\* and so is what was read of it, unless it shows that it is torn.
StoreInd ==
  /\ Sound
  /\ Answers
  /\ LiveBalanced
  /\ StillThere
  /\ Underway
  /\ Kept

\* Orders are read from a registered store only.
LEMMA NothingRead ==
  ASSUME Sound, StillThere, Underway, Registered = {}
  PROVE  /\ \A o \in Orders : stage[o] = "none" /\ reading.current[o] = Absent /\ o \notin reading.torn
         /\ \A r \in ReportIDs : reading.reports[r] = NoReport
         /\ \A f \in FillIDs : reading.fills[f] = Unbooked
         /\ reading.ahead = {}
<1>1. \A o \in Orders : stage[o] = "none" /\ reading.current[o] = Absent /\ o \notin reading.torn
  BY DEF Underway, Begun, Registered
<1>2. reading.ahead \subseteq ReportIDs
  BY DEF Sound, TypeOK, Bundles
<1>3. \A r \in ReportIDs : reports[r] = NoReport
  BY DEF Sound, Consistent, Registered
<1>4. \A f \in FillIDs : fills[f] = Unbooked
  BY <1>3, LiveFacts
<1> QED BY <1>1, <1>2, <1>3, <1>4 DEF StillThere

LEMMA StoreIndStep ==
  ASSUME StoreInd, [Next]_vars
  PROVE  StoreInd'
<1> USE DEF StoreInd
<1>1. Answers'
  BY AnswersStep
<1>2. ASSUME NEW o \in Orders, RegisterPlan(o) PROVE StoreInd'
  <2>1. /\ UNCHANGED <<reports, fills, stage, reading, exported>>
        /\ current[o] = Absent
        /\ \A p \in Orders : p # o => current'[p] = current[p]
    BY <1>2 DEF RegisterPlan, bundles, Sound, TypeOK
  <2>2. stage[o] = "none"
    BY <2>1 DEF Underway, Begun
  <2>3. StillThere' /\ Kept'
    BY <2>1 DEF StillThere, Kept
  <2>4. \A p \in Orders : Begun(p)'
    BY <2>1, <2>2 DEF Underway, Begun
  <2>5. \A p \in Orders : Whole(p)' /\ Shows(p)'
    BY <2>1 DEF Underway, Whole, Shows, ReportsSeen, FillsSeen
  <2> QED BY <1>1, <1>2, <2>3, <2>4, <2>5, RegisterStep, RegisterBalances DEF Underway
<1>3. ASSUME NEW w \in Publishers, Commit(w) PROVE StoreInd'
  <2>1. Kept'
    BY <1>3 DEF Commit, Kept
  <2> QED BY <1>1, <1>3, <2>1, CommitStep, CommitBalances, CommitReads
<1>4. ASSUME NEW o \in Orders, ReadCheckpoint(o) \/ ReadReports(o) \/ ReadFills(o) PROVE StoreInd'
  <2>1. Sound'
    BY <1>4, ReadStep
  <2>2. UNCHANGED <<current, reports, fills, exported, unapplied>>
    BY <1>4 DEF ReadCheckpoint, ReadReports, ReadFills, store
  <2>3. LiveBalanced' /\ Kept'
    BY <2>2 DEF LiveBalanced, Kept
  <2> QED BY <1>1, <1>4, <2>1, <2>3, CheckpointReads, ReportsRead, FillsRead
<1>5. CASE KeepBundle
  <2>1. UNCHANGED <<current, reports, fills, unapplied>>
    BY <1>5 DEF KeepBundle, store
  <2>2. LiveBalanced'
    BY <2>1 DEF LiveBalanced
  <2> QED BY <1>1, <1>5, <2>2, ReadStep, KeepKeeps
<1>6. CASE Crash
  <2>1. /\ \A o \in Orders : current'[o] = Absent /\ stage'[o] = "none"
        /\ reading' = EmptyBundle /\ unapplied' = {} /\ exported' = exported
    BY <1>6 DEF Crash
  <2>2. LiveBalanced' /\ Kept'
    BY <2>1 DEF LiveBalanced, Kept
  <2>3. StillThere' /\ Underway'
    BY <2>1 DEF StillThere, Underway, Begun, Whole, Shows, EmptyBundle
  <2> QED BY <1>1, <1>6, <2>2, <2>3, CrashStep
<1>7. CASE RestorePlan
  <2>1. /\ Registered = {} /\ Restorable(exported)
        /\ current' = exported.current /\ reports' = exported.reports /\ fills' = exported.fills
        /\ unapplied' = exported.ahead
        /\ UNCHANGED <<stage, reading, exported>>
    BY <1>7 DEF RestorePlan
  <2>2. /\ exported.torn = {}
        /\ Consistent(exported.current, exported.reports, exported.fills)
        /\ \A o \in Orders : exported.current[o] # Absent =>
             Balanced(exported.current[o], exported.reports, exported.fills, exported.ahead, o)
        /\ \A r \in exported.ahead : exported.reports[r] # NoReport
    BY <2>1 DEF Kept
  <2>3. LiveBalanced' /\ Kept'
    BY <2>1, <2>2 DEF LiveBalanced, Kept
  <2>4. StillThere' /\ Underway'
    BY <2>1, NothingRead DEF StillThere, Underway, Begun, Whole, Shows
  <2> QED BY <1>1, <1>7, <2>2, <2>3, <2>4, RestoreStep
<1>8. CASE UNCHANGED <<current, reports, fills, bundles>> /\ Sound'
  <2>1. UNCHANGED <<current, reports, fills, stage, reading, exported, unapplied>>
    BY <1>8 DEF bundles
  <2>2. LiveBalanced' /\ Kept' /\ StillThere'
    BY <2>1 DEF LiveBalanced, Kept, StillThere
  <2>3. Underway'
    BY <2>1 DEF Underway, Begun, Whole, Shows, ReportsSeen, FillsSeen
  <2> QED BY <1>1, <1>8, <2>2, <2>3
<1>9. ASSUME NEW w \in Publishers, NEW o \in Orders, NEW id \in ReportIDs, NEW report \in Offers(o),
             NEW fill \in FillOffers(o), Prepare(w, o, id, report, fill)
      PROVE  StoreInd'
  BY <1>8, <1>9, PrepareStep DEF Prepare
<1>10. ASSUME NEW w \in Publishers, Replay(w) \/ Refuse(w) \/ Forget(w) PROVE StoreInd'
  BY <1>8, <1>10, QuietStep DEF Replay, Refuse, Forget
<1>11. CASE UNCHANGED vars \/ \E value \in BOOLEAN : SetFailBeforeCommitForTest(value)
  BY <1>8, <1>11, QuietStep DEF SetFailBeforeCommitForTest, vars
<1> QED BY <1>2, <1>3, <1>4, <1>5, <1>6, <1>7, <1>9, <1>10, <1>11 DEF Next, PublisherStep, StoreStep

LEMMA StoreIndInvariant == Spec => []StoreInd
<1>1. Init => StoreInd
  <2> SUFFICES ASSUME Init PROVE StoreInd
    OBVIOUS
  <2>1. EmptyBundle \in Bundles
    BY Constants DEF EmptyBundle, Bundles
  <2>2. TypeOK
    BY <2>1, Constants DEF Init, TypeOK
  <2>3. Consistent(current, reports, fills) /\ Consistent(exported.current, exported.reports, exported.fills)
    BY EmptyConsistent DEF Init, EmptyBundle
  <2>4. Sound /\ Answers /\ LiveBalanced /\ Kept
    BY <2>2, <2>3 DEF Sound, Init, Answers, LiveBalanced, Kept, EmptyBundle
  <2>5. StillThere /\ Underway
    BY DEF Init, StillThere, Underway, Begun, Whole, Shows, EmptyBundle
  <2> QED BY <2>4, <2>5 DEF StoreInd
<1> QED BY <1>1, StoreIndStep, PTL DEF Spec

-----------------------------------------------------------------------------
\* The store is sound in every reachable state, and so is every bundle RestorePlan would
\* accept, although publications fall between the reads it was put together from.
THEOREM StoreInvariant == Spec => []StoreInv
<1>1. StoreInd => StoreInv
  BY DEF StoreInd, StoreInv, Kept
<1> QED BY <1>1, StoreIndInvariant, PTL

\* Type correctness of the store, in every reachable state.
THEOREM TypeCorrect == Spec => []TypeOK
<1>1. StoreInd => TypeOK
  BY DEF StoreInd, Sound
<1> QED BY <1>1, StoreIndInvariant, PTL

\* Conservation of executed quantity: in every reachable state the fills booked for
\* an order tile its filled quantity, for any number of racing publishers.
THEOREM FillsAlwaysTile == Spec => []FillsTile
<1>1. StoreInd => FillsTile
  BY DEF StoreInd, Sound, Consistent, FillsTile, Registered
<1> QED BY <1>1, StoreIndInvariant, PTL

\* Between any number of racing publishers, faults and restarts no report that was
\* recorded is missing from its order's revision, except those a bundle brought that were
\* published after it had read the checkpoint; and an answer of COMMITTED or
\* IDEMPOTENT_REPLAY means the report and the fill are in the store (PublishOrderEvent).
THEOREM NothingIsLost == Spec => []NothingLost
<1>1. StoreInd => NothingLost
  <2> SUFFICES ASSUME StoreInd PROVE NothingLost
    OBVIOUS
  <2>1. \A o \in Orders : OrderReports(reports, o) = {r \in Recorded : reports[r].order = o}
    BY DEF OrderReports, Recorded
  <2>2. \A o \in Orders : current[o] # Absent =>
          current[o].order.revision = 1 + Cardinality(OrderReports(reports, o) \ unapplied)
    BY DEF StoreInd, LiveBalanced, Balanced
  <2>3. RevisionCountsReports
    BY <2>1, <2>2 DEF RevisionCountsReports, Registered
  <2>4. AnsweredIsRecorded
    BY DEF StoreInd, Answers, InStore, AnsweredIsRecorded
  <2> QED BY <2>3, <2>4 DEF NothingLost
<1> QED BY <1>1, StoreIndInvariant, PTL

\* RestorePlan's validation refuses a bundle exactly if a fill was booked between the reads
\* it was put together from, for any number of orders, publishers and restarts.
THEOREM TornBundlesAreRefused == Spec => []RestoreTellsTorn
<1>1. StoreInd => RestoreTellsTorn
  <2> SUFFICES ASSUME StoreInd, exported.torn = {} PROVE Restorable(exported)
    BY DEF StoreInd, Kept, RestoreTellsTorn
  <2>1. exported \in Bundles
    BY DEF StoreInd, Sound, TypeOK
  <2> QED BY <2>1, BalancedRestores DEF StoreInd, Kept, Consistent
<1> QED BY <1>1, StoreIndInvariant, PTL

\* No step un-fills an order, changes its broker identity, or leaves a terminal
\* state other than CANCELLED for a late fill.
THEOREM OrdersOnlyAdvance == Spec => OrdersAdvance
<1> DEFINE Step == \A o \in Orders : current[o] # Absent /\ current'[o] # Absent =>
                     LifecycleStep(current[o].order, current'[o].order)
<1>1. StoreInd /\ [Next]_vars => Step
  <2> SUFFICES ASSUME StoreInd, [Next]_vars,
                      NEW o \in Orders, current[o] # Absent, current'[o] # Absent
               PROVE  LifecycleStep(current[o].order, current'[o].order)
    OBVIOUS
  <2>1. current \in [Orders -> Checkpoints] /\ current[o].order \in OrderRecords
        /\ current[o].order.filled \in Nat
    BY DEF StoreInd, Sound, TypeOK, Checkpoints, OrderRecords
  <2>2. CASE current'[o] = current[o]
    BY <2>1, <2>2 DEF LifecycleStep
  <2>3. ASSUME NEW w \in Publishers, Commit(w)
        PROVE  LifecycleStep(current[o].order, current'[o].order)
    <3> DEFINE pub == held[w]
    <3>1. pub \in Publications /\ Prepared(pub)
      BY <2>3 DEF StoreInd, Sound, TypeOK, Commit
    <3>2. pub.report \in ReportRecords /\ pub.report.type \in ReportTypes /\ pub.fill.quantity \in Nat
      BY <3>1, OffersTyped DEF Prepared, Publications, FillRecords
    <3>3. /\ current[pub.report.order] = pub.expected /\ pub.report.order \in Orders
          /\ current' = [current EXCEPT ![pub.report.order] = NextCheckpoint(pub)]
      BY <2>3, <3>1 DEF Commit, Unmoved, Prepared
    <3>4. CASE o = pub.report.order
      <4>1. current'[o].order = ApplyExecutionReport(current[o].order, pub.report)
        BY <2>1, <3>3, <3>4 DEF NextCheckpoint
      <4>2. Applies(current[o].order, pub.report, pub.fill.quantity)
        BY <3>1, <3>3, <3>4 DEF Prepared
      <4> QED BY <2>1, <3>2, <4>1, <4>2, ApplyIsLifecycleStep
    <3>5. CASE o # pub.report.order
      BY <2>1, <2>2, <3>3, <3>5
    <3> QED BY <3>4, <3>5
  <2>4. CASE \E p \in Orders : RegisterPlan(p)
    BY <2>1, <2>2, <2>4 DEF RegisterPlan
  <2>5. CASE Crash
    BY <2>5 DEF Crash
  <2>6. CASE RestorePlan
    BY <2>6 DEF RestorePlan, Registered
  <2>7. CASE UNCHANGED vars
    BY <2>2, <2>7 DEF vars
  <2> QED BY <2>2, <2>3, <2>4, <2>5, <2>6, <2>7
          DEF Next, PublisherStep, StoreStep, Prepare, Replay, Refuse, Forget, SetFailBeforeCommitForTest,
              ReadCheckpoint, ReadReports, ReadFills, KeepBundle, store
<1>2. [][Step]_vars => OrdersAdvance
  BY PTL DEF OrdersAdvance
<1> QED BY <1>1, <1>2, StoreIndInvariant, PTL DEF Spec

-----------------------------------------------------------------------------
(* The fill ledger.                                                        *)

\* The mapped state of the ledger.
Live == [o \in Orders |-> Account(current, reports, fills, o)]

Read == [o \in Orders |-> IF stage[o] = "fills" /\ o \notin reading.torn
                          THEN Account(reading.current, reading.reports, reading.fills, o) ELSE NoAccount]

Saved == [o \in Orders |-> IF exported.torn = {}
                           THEN Account(exported.current, exported.reports, exported.fills, o) ELSE NoAccount]

\* Reading one order leaves what was read of the others.
LEMMA ReadsKeepOthers ==
  ASSUME Sound, StillThere, NEW p \in Orders, ReadCheckpoint(p) \/ ReadReports(p) \/ ReadFills(p),
         NEW o \in Orders, o # p
  PROVE  Read'[o] = Read[o]
<1>1. /\ stage'[o] = stage[o] /\ reading'.current[o] = reading.current[o] /\ reading'.torn = reading.torn
      /\ reading \in Bundles
  <2>1. reading \in Bundles /\ stage \in [Orders -> {"none", "checkpoint", "reports", "fills"}]
    BY DEF Sound, TypeOK
  <2>2. CASE ReadCheckpoint(p)
    BY <2>1, <2>2 DEF Bundles, ReadCheckpoint
  <2>3. CASE ReadReports(p)
    BY <2>1, <2>3 DEF Bundles, ReadReports
  <2>4. CASE ReadFills(p)
    BY <2>1, <2>4 DEF Bundles, ReadFills
  <2> QED BY <2>1, <2>2, <2>3, <2>4
<1>2. \A f \in FillIDs : reading.fills[f] # Unbooked => reading.fills[f].report \in ReportIDs
  BY LiveFacts DEF StillThere
<1>3. BookedFor(reading'.reports, reading'.fills, o) = BookedFor(reading.reports, reading.fills, o)
  <2>1. CASE ReadCheckpoint(p)
    BY <1>1, <2>1 DEF ReadCheckpoint, Bundles
  <2>2. CASE ReadReports(p)
    <3>1. reading'.fills = reading.fills /\ reading.fills \in [FillIDs -> Bookings]
      BY <1>1, <2>2 DEF ReadReports, Bundles
    <3> QED BY <1>2, <2>2, <3>1, ReportsReadBooks
  <2>3. CASE ReadFills(p)
    <3>1. reading'.reports = reading.reports
      BY <1>1, <2>3 DEF ReadFills, Bundles
    <3> QED BY <2>3, <3>1, FillsReadBooks
  <2> QED BY <2>1, <2>2, <2>3
<1> QED BY <1>1, <1>3 DEF Read, Account

\* What is read of an order's fills, when none fell between the reads, is its account.
LEMMA FillsReadAccount ==
  ASSUME Sound, StillThere, Underway, NEW p \in Orders, ReadFills(p)
  PROVE  Read'[p] \in {Live[p], NoAccount}
<1>1. /\ stage[p] = "reports" /\ stage'[p] = "fills"
      /\ reading'.current = reading.current /\ reading'.torn = reading.torn /\ reading'.reports = reading.reports
  BY DEF ReadFills, Sound, TypeOK, Bundles
<1>2. CASE p \in reading.torn
  BY <1>1, <1>2 DEF Read
<1>3. CASE p \notin reading.torn
  <2>1. reading.current[p].order.filled = current[p].order.filled
    BY <1>1, <1>3 DEF Underway, Begun
  <2>2. \A f \in BookedFor(reports, fills, p) : reading.reports[fills[f].report] # NoReport
    BY <1>1, <1>3 DEF Underway, Whole, FillsSeen
  <2>3. \A f \in BookedFor(reports, fills, p) : reading.reports[fills[f].report] = reports[fills[f].report]
    BY <2>2, LiveFacts DEF StillThere, BookedFor
  <2>4. BookedFor(reading.reports, reading'.fills, p) = BookedFor(reading.reports, fills, p)
        /\ BookedFor(reading.reports, fills, p) \subseteq BookedFor(reports, fills, p)
    BY FillsReadBooks
  <2>5. BookedFor(reading.reports, reading'.fills, p) = BookedFor(reports, fills, p)
    BY <2>3, <2>4 DEF BookedFor
  <2> QED BY <1>1, <1>3, <2>1, <2>5 DEF Read, Live, Account
<1> QED BY <1>2, <1>3

\* The store implements the fill ledger: every step of the store is a step of the
\* ledger or leaves it unchanged.
THEOREM StoreImplementsLedger == Spec => ImplementsLedger
<1> DEFINE NoAccounts == [o \in Orders |-> NoAccount]
<1>0. Ledger!Empty = NoAccounts
  BY DEF Ledger!Empty, NoAccount
<1>1. Init => Ledger!Init
  <2> SUFFICES ASSUME Init PROVE Ledger!Init
    OBVIOUS
  <2>1. Absent.order.filled = 0
    BY DEF Absent, NewOrder
  <2>2. Live = NoAccounts /\ Read = NoAccounts /\ Saved = NoAccounts
    BY <2>1 DEF Init, EmptyBundle, Live, Read, Saved, Account, NoAccount, BookedFor
  <2> QED BY <1>0, <2>2 DEF Ledger!Init, Live, Read, Saved
<1>2. StoreInd /\ [Next]_vars => [Ledger!Next]_(Ledger!ledger)
  <2> SUFFICES ASSUME StoreInd, [Next]_vars
               PROVE  Ledger!Next \/ UNCHANGED Ledger!ledger
    OBVIOUS
  <2>1. /\ Sound /\ StillThere /\ Underway /\ Kept
        /\ current \in [Orders -> Checkpoints] /\ fills \in [FillIDs -> Bookings]
    BY DEF StoreInd, Sound, TypeOK
  <2>2. CASE Live' = Live /\ Read' = Read /\ Saved' = Saved
    BY <2>2 DEF Ledger!ledger, Live, Read, Saved
  <2>3. CASE UNCHANGED <<current, reports, fills, bundles>>
    <3>1. UNCHANGED <<current, reports, fills, stage, reading, exported>>
      BY <2>3 DEF bundles
    <3> QED BY <2>2, <3>1 DEF Live, Read, Saved
  <2>4. ASSUME NEW p \in Orders, RegisterPlan(p) PROVE UNCHANGED Ledger!ledger
    <3>1. Absent.order.filled = 0 /\ Genesis(p).order.filled = 0
      BY DEF Absent, Genesis, NewOrder
    <3>2. UNCHANGED <<reports, fills, stage, reading, exported>> /\ current[p] = Absent
          /\ \A o \in Orders : current'[o] = IF o = p THEN Genesis(p) ELSE current[o]
      BY <2>1, <2>4 DEF RegisterPlan, bundles
    <3>3. \A o \in Orders : Account(current', reports', fills', o) = Account(current, reports, fills, o)
      BY <3>1, <3>2 DEF Account
    <3>4. Live' = Live
      BY <3>3 DEF Live
    <3>5. Read' = Read /\ Saved' = Saved
      BY <3>2 DEF Read, Saved
    <3> QED BY <3>4, <3>5 DEF Ledger!ledger, Live, Read, Saved
  <2>5. ASSUME NEW w \in Publishers, Commit(w) PROVE Ledger!Next \/ UNCHANGED Ledger!ledger
    <3> DEFINE pub == held[w]
               p == pub.report.order
               q == pub.fill.quantity
    <3>1. /\ p \in Orders /\ pub \in Publications /\ Prepared(pub)
          /\ pub.fill = NoFill \/ (pub.fill.id \in FillIDs /\ q \in Nat /\ q > 0)
          /\ current[p] = pub.expected
          /\ pub.fill # NoFill => fills[pub.fill.id] = Unbooked
          /\ \A o \in Orders : current'[o] = IF o = p THEN NextCheckpoint(pub) ELSE current[o]
          /\ UNCHANGED <<stage, exported>> /\ reading' = Overtaken(pub)
      BY <2>1, <2>5, CommitWrites
    <3>2. \A o \in Orders :
            BookedFor(reports', fills', o) = IF pub.fill # NoFill /\ o = p THEN BookedFor(reports, fills, o) \cup {pub.fill.id}
                                             ELSE BookedFor(reports, fills, o)
      BY <2>1, <2>5, CommitBooks
    <3>3. /\ NextCheckpoint(pub).order.filled = pub.report.cum
          /\ pub.expected.order.quantity = Quantity[p]
      BY <3>1, NextCheckpointTyped DEF Prepared
    <3>4. QuantitiesAgree(pub.expected.order, pub.report, q)
      BY <3>1 DEF Prepared, Applies
    <3>5. pub.expected.order.filled \in Nat /\ pub.report.cum \in Nat /\ Quantity[p] \in Nat
      BY <3>1, ConstantsAssumption
         DEF Publications, Checkpoints, OrderRecords, ReportRecords, ConstantsAssumption
    <3>6. Saved' = Saved
      BY <3>1 DEF Saved
    <3>7. Read' = Read
      <4>1. /\ reading'.current = reading.current /\ reading'.reports = reading.reports /\ reading'.fills = reading.fills
            /\ \A o \in Orders : stage[o] = "fills" => (o \in reading'.torn <=> o \in reading.torn)
        <5>1. reading \in Bundles
          BY <2>1 DEF Sound, TypeOK
        <5> HIDE DEF pub
        <5> QED BY <3>1, <5>1 DEF Overtaken, Bundles
      <4> QED BY <3>1, <4>1 DEF Read
    <3>8. CASE pub.fill = NoFill
      <4>1. NoFill.quantity = 0
        BY DEF NoFill
      <4>2. pub.report.cum = pub.expected.order.filled
        BY <3>4, <3>8, <4>1 DEF QuantitiesAgree
      <4> HIDE DEF pub, p
      <4>3. \A o \in Orders : Account(current', reports', fills', o) = Account(current, reports, fills, o)
        BY <3>1, <3>2, <3>3, <3>8, <4>2 DEF Account
      <4>4. Live' = Live
        BY <4>3 DEF Live
      <4> QED BY <3>6, <3>7, <4>4 DEF Ledger!ledger, Live, Read, Saved
    <3>9. CASE pub.fill # NoFill
      <4>1. pub.fill.id \in FillIDs /\ q \in Nat /\ q > 0 /\ q # 0 /\ fills[pub.fill.id] = Unbooked
        BY <3>1, <3>9
      <4>2. pub.report.cum = pub.expected.order.filled + q /\ pub.report.cum <= Quantity[p]
        BY <3>3, <3>4, <4>1 DEF QuantitiesAgree
      <4>3. q \in 1..Quantity[p]
        BY <3>5, <4>1, <4>2
      <4> HIDE DEF pub, p, q
      <4>4. Live' = [Live EXCEPT ![p] = [filled |-> @.filled + q, booked |-> @.booked \cup {pub.fill.id}]]
        <5>1. \A o \in Orders : o # p => Account(current', reports', fills', o) = Account(current, reports, fills, o)
          BY <3>1, <3>2 DEF Account
        <5>2. Account(current', reports', fills', p)
              = [filled |-> Account(current, reports, fills, p).filled + q,
                 booked |-> Account(current, reports, fills, p).booked \cup {pub.fill.id}]
          BY <3>1, <3>2, <3>3, <3>9, <4>2 DEF Account
        <5> QED BY <3>1, <5>1, <5>2 DEF Live
      <4>5. Live[p].filled + q <= Quantity[p] /\ \A o \in Orders : pub.fill.id \notin Live[o].booked
        BY <3>1, <4>1, <4>2 DEF Live, Account, BookedFor
      <4>6. Ledger!Book(p, pub.fill.id, q)
        BY <3>6, <3>7, <4>4, <4>5 DEF Ledger!Book, Live, Read, Saved
      <4>7. \E o \in Orders, e \in FillIDs : \E n \in 1..Quantity[o] : Ledger!Book(o, e, n)
        <5>1. PICK o \in Orders, e \in FillIDs, n \in 1..Quantity[p] : o = p /\ e = pub.fill.id /\ n = q
          BY <3>1, <4>1, <4>3
        <5>2. Ledger!Book(o, e, n)
          BY <4>6, <5>1 DEF Ledger!Book
        <5> QED BY <5>1, <5>2
      <4> QED BY <4>7 DEF Ledger!Next
    <3> QED BY <3>8, <3>9
  <2>6. ASSUME NEW p \in Orders, ReadCheckpoint(p) \/ ReadReports(p) \/ ReadFills(p)
        PROVE  Ledger!Next \/ UNCHANGED Ledger!ledger
    <3>1. UNCHANGED <<current, reports, fills, exported>>
      BY <2>6 DEF ReadCheckpoint, ReadReports, ReadFills, store
    <3>2. Live' = Live /\ Saved' = Saved
      BY <3>1 DEF Live, Saved
    <3>3. \A o \in Orders : o # p => Read'[o] = Read[o]
      BY <2>1, <2>6, ReadsKeepOthers
    <3>4. Read[p] = NoAccount /\ Read'[p] \in {Live[p], NoAccount}
      <4>1. CASE ReadFills(p)
        <5>1. Read[p] = NoAccount
          BY <4>1 DEF ReadFills, Read
        <5> QED BY <2>1, <4>1, <5>1, FillsReadAccount
      <4>2. CASE ReadCheckpoint(p) \/ ReadReports(p)
        <5>1. stage[p] # "fills" /\ stage'[p] # "fills"
          BY <2>1, <4>2 DEF ReadCheckpoint, ReadReports, Sound, TypeOK
        <5> QED BY <5>1 DEF Read
      <4> QED BY <2>6, <4>1, <4>2
    <3>5. Read = [o \in Orders |-> Read[o]] /\ Read' = [o \in Orders |-> Read'[o]]
      BY DEF Read
    <3>6. CASE Read'[p] = NoAccount
      <4>1. Read' = Read
        BY <3>3, <3>4, <3>5, <3>6
      <4> QED BY <3>2, <4>1 DEF Ledger!ledger, Live, Read, Saved
    <3>7. CASE Read'[p] = Live[p]
      <4>1. Read' = [Read EXCEPT ![p] = Live[p]]
        BY <3>3, <3>5, <3>7
      <4>2. Ledger!Read(p)
        BY <3>2, <4>1 DEF Ledger!Read, Live, Read, Saved
      <4> QED BY <4>2 DEF Ledger!Next
    <3> QED BY <3>4, <3>6, <3>7
  <2>7. CASE KeepBundle
    <3>1. /\ \A o \in Orders : stage[o] \in {"none", "fills"} /\ stage'[o] = "none"
          /\ UNCHANGED <<current, reports, fills>> /\ exported' = reading
      BY <2>7 DEF KeepBundle, store
    <3>2. Live' = Live /\ Read' = NoAccounts
      BY <3>1 DEF Live, Read
    <3>3. Saved' = Read \/ Saved' = NoAccounts
      <4>1. CASE reading.torn # {}
        BY <3>1, <4>1 DEF Saved
      <4>2. CASE reading.torn = {}
        <5>1. ASSUME NEW o \in Orders, stage[o] = "none"
              PROVE  Account(reading.current, reading.reports, reading.fills, o) = NoAccount
          <6>1. reading.current[o] = Absent /\ Absent.order.filled = 0
            BY <2>1, <5>1 DEF Underway, Begun, Absent, NewOrder
          <6>2. BookedFor(reading.reports, reading.fills, o) = {}
            BY <2>1, <5>1, LiveFacts DEF StillThere, BookedFor
          <6> QED BY <6>1, <6>2 DEF Account, NoAccount
        <5>2. \A o \in Orders : Read[o] = Account(reading.current, reading.reports, reading.fills, o)
          BY <3>1, <4>2, <5>1 DEF Read
        <5>3. Saved' = [o \in Orders |-> Account(reading.current, reading.reports, reading.fills, o)]
          BY <3>1, <4>2 DEF Saved
        <5>4. Read = [o \in Orders |-> Read[o]]
          BY DEF Read
        <5> HIDE DEF Read
        <5> QED BY <5>2, <5>3, <5>4
      <4> QED BY <4>1, <4>2
    <3>4. Ledger!Keep
      BY <1>0, <3>2, <3>3 DEF Ledger!Keep, Live, Read, Saved
    <3> QED BY <3>4 DEF Ledger!Next
  <2>8. CASE Crash
    <3>1. Absent.order.filled = 0
      BY DEF Absent, NewOrder
    <3>2. Live' = NoAccounts /\ Read' = NoAccounts /\ Saved' = Saved
      BY <2>8, <3>1 DEF Crash, Live, Read, Saved, Account, NoAccount, BookedFor
    <3>3. Ledger!Restore
      BY <1>0, <3>2 DEF Ledger!Restore, Live, Read, Saved
    <3> QED BY <3>3 DEF Ledger!Next
  <2>9. CASE RestorePlan
    <3>1. /\ Registered = {} /\ exported.torn = {}
          /\ current' = exported.current /\ reports' = exported.reports /\ fills' = exported.fills
          /\ UNCHANGED <<stage, reading, exported>>
      BY <2>1, <2>9 DEF RestorePlan, Kept
    <3>2. \A o \in Orders : stage[o] = "none"
      BY <2>1, <3>1, NothingRead
    <3>3. Live' = Saved /\ Saved' = Saved /\ Read' = NoAccounts
      BY <3>1, <3>2 DEF Live, Saved, Read
    <3>4. Ledger!Restore
      BY <1>0, <3>3 DEF Ledger!Restore, Live, Read, Saved
    <3> QED BY <3>4 DEF Ledger!Next
  <2>10. CASE UNCHANGED vars
    BY <2>3, <2>10 DEF vars
  <2> QED BY <2>3, <2>4, <2>5, <2>6, <2>7, <2>8, <2>9, <2>10
          DEF Next, PublisherStep, StoreStep, Prepare, Replay, Refuse, Forget, SetFailBeforeCommitForTest
<1> QED BY <1>1, <1>2, StoreIndInvariant, PTL DEF Spec, ImplementsLedger, Ledger!Spec

-----------------------------------------------------------------------------
(* The broker adapter.  The events of a journal are those of its orders' fills and *)
(* statuses; the account of an order counts its fills.                             *)

EventKinds == {"FILL", "PARTIAL_FILL", "ACKNOWLEDGED", "REJECTED", "CANCELLED", "none"}
OrderNames == ClientIDs \X Nat
JournalEvents == [order : OrderNames, trade : Nat, kind : EventKinds, cumulative : Nat]

\* The fills of an order in a journal.
FillTotal(log, name) == Cardinality(Fills(log, name, Len(log)))

\* The journal's account of one order of which the provider reported so much filled.
Counts(log, name, filled) ==
  /\ \A i \in DOMAIN log : log[i].order = name =>
       /\ log[i].cumulative = Cardinality(Fills(log, name, i))
       /\ log[i].cumulative <= OrderQuantity
       /\ log[i].trade \in 0..filled
       /\ log[i].trade > 0 =>
            /\ (log[i].kind = "FILL") = (log[i].cumulative = OrderQuantity)
            /\ \A j \in DOMAIN log : log[j].order = name /\ log[j].trade = log[i].trade => i = j
  /\ FillTotal(log, name) # 0 =>
       \E j \in DOMAIN log : log[j].order = name /\ log[j].cumulative = FillTotal(log, name)

\* A journal with more events of one order at its end.
Continues(log, longer, name) ==
  /\ Len(log) <= Len(longer)
  /\ \A i \in 1..Len(log) : longer[i] = log[i]
  /\ \A i \in 1..Len(longer) : i > Len(log) => longer[i].order = name

\* A journal is a sequence of its events.
LEMMA JournalShape ==
  ASSUME NEW log \in Seq(JournalEvents)
  PROVE  /\ Len(log) \in Nat /\ DOMAIN log = 1..Len(log)
         /\ \A i \in 1..Len(log) : log[i] \in JournalEvents
OBVIOUS

\* The fills up to an event are finitely many, and no more than those up to a later one.
LEMMA FillsFinite ==
  ASSUME NEW log, NEW name, NEW n \in Nat
  PROVE  /\ IsFiniteSet(Fills(log, name, n)) /\ Cardinality(Fills(log, name, n)) \in Nat
         /\ \A i \in 0..n : Cardinality(Fills(log, name, i)) <= Cardinality(Fills(log, name, n))
<1>1. ASSUME NEW m \in Nat PROVE IsFiniteSet(Fills(log, name, m))
  <2>1. IsFiniteSet(1..m)
    BY FS_Interval
  <2>2. Fills(log, name, m) \in SUBSET (1..m)
    BY DEF Fills
  <2> QED BY <2>1, <2>2, FS_Subset
<1>2. ASSUME NEW i \in 0..n
      PROVE  Cardinality(Fills(log, name, i)) <= Cardinality(Fills(log, name, n))
  <2>1. Fills(log, name, i) \in SUBSET Fills(log, name, n)
    BY DEF Fills
  <2> QED BY <1>1, <2>1, FS_Subset
<1>3. IsFiniteSet(Fills(log, name, n))
  BY <1>1
<1>4. Cardinality(Fills(log, name, n)) \in Nat
  BY <1>3, FS_CardinalityType
<1> QED BY <1>2, <1>3, <1>4

\* Events of another order change nothing in an order's account.
LEMMA ContinuesKeepsCounts ==
  ASSUME NEW log \in Seq(JournalEvents), NEW longer \in Seq(JournalEvents), NEW name, NEW other,
         other # name, Continues(log, longer, name), NEW filled, Counts(log, other, filled)
  PROVE  Counts(longer, other, filled)
<1>1. /\ Len(log) \in Nat /\ DOMAIN log = 1..Len(log)
      /\ Len(longer) \in Nat /\ DOMAIN longer = 1..Len(longer)
  BY JournalShape
<1>2. ASSUME NEW i \in 1..Len(log) PROVE Fills(longer, other, i) = Fills(log, other, i)
  BY <1>1 DEF Fills, Continues
<1>3. Fills(longer, other, Len(longer)) = Fills(log, other, Len(log))
  BY <1>1 DEF Fills, Continues
<1>4. \A i \in DOMAIN longer : longer[i].order = other => i \in DOMAIN log /\ longer[i] = log[i]
  BY <1>1 DEF Continues
<1>5. \A i \in DOMAIN log : i \in DOMAIN longer /\ longer[i] = log[i]
  BY <1>1 DEF Continues
<1>6. FillTotal(longer, other) = FillTotal(log, other)
  BY <1>3 DEF FillTotal
<1>7. \A i \in DOMAIN longer : longer[i].order = other =>
        Cardinality(Fills(longer, other, i)) = Cardinality(Fills(log, other, i))
  BY <1>1, <1>2, <1>4
<1> QED BY <1>4, <1>5, <1>6, <1>7 DEF Counts

\* One more event of an order: a new fill that adds one, or a status.
LEMMA AppendKeepsCounts ==
  ASSUME NEW log \in Seq(JournalEvents), NEW name \in OrderNames, NEW filled \in Nat,
         Counts(log, name, filled),
         NEW e \in JournalEvents, e.order = name, e.cumulative <= OrderQuantity,
         \/ /\ e.trade \in 1..filled /\ ~Seen(log, name, e.trade)
            /\ e.cumulative = FillTotal(log, name) + 1
            /\ (e.kind = "FILL") = (e.cumulative = OrderQuantity)
         \/ e.trade = 0 /\ e.cumulative = FillTotal(log, name)
  PROVE  /\ Append(log, e) \in Seq(JournalEvents)
         /\ Counts(Append(log, e), name, filled)
         /\ FillTotal(Append(log, e), name) = e.cumulative
         /\ Continues(log, Append(log, e), name)
<1> DEFINE longer == Append(log, e)
           n == Len(log)
<1>1. /\ longer \in Seq(JournalEvents) /\ n \in Nat /\ Len(longer) = n + 1
      /\ DOMAIN log = 1..n /\ DOMAIN longer = 1..(n + 1)
      /\ longer[n + 1] = e /\ \A i \in 1..n : longer[i] = log[i]
  OBVIOUS
<1> HIDE DEF longer, n
<1>2. Continues(log, longer, name)
  BY <1>1 DEF Continues, n
<1>3. ASSUME NEW i \in 1..n PROVE Fills(longer, name, i) = Fills(log, name, i)
  BY <1>1 DEF Fills
<1>4. FillTotal(log, name) \in Nat /\ IsFiniteSet(Fills(log, name, n))
  BY <1>1, FillsFinite DEF FillTotal, n
<1>5. Cardinality(Fills(longer, name, n + 1)) = e.cumulative
  <2>1. CASE e.trade = 0
    <3>1. Fills(longer, name, n + 1) = Fills(log, name, n)
      BY <1>1, <2>1 DEF Fills
    <3> QED BY <2>1, <3>1 DEF FillTotal, n
  <2>2. CASE e.trade # 0
    <3>1. e.trade > 0
      BY <2>2 DEF JournalEvents
    <3>2. Fills(longer, name, n + 1) = Fills(log, name, n) \cup {n + 1} /\ n + 1 \notin Fills(log, name, n)
      BY <1>1, <3>1 DEF Fills
    <3>3. Cardinality(Fills(log, name, n) \cup {n + 1}) = Cardinality(Fills(log, name, n)) + 1
      BY <1>4, <3>2, FS_AddElement
    <3> QED BY <2>2, <3>2, <3>3 DEF FillTotal, n
  <2> QED BY <2>1, <2>2
<1>6. FillTotal(longer, name) = e.cumulative
  BY <1>1, <1>5 DEF FillTotal
<1>7. ASSUME NEW i \in 1..(n + 1), longer[i].order = name
      PROVE  /\ longer[i].cumulative = Cardinality(Fills(longer, name, i))
             /\ longer[i].cumulative <= OrderQuantity
             /\ longer[i].trade \in 0..filled
             /\ longer[i].trade > 0 => (longer[i].kind = "FILL") = (longer[i].cumulative = OrderQuantity)
  <2>1. CASE i = n + 1
    BY <1>1, <1>5, <2>1
  <2>2. CASE i # n + 1
    <3>1. i \in 1..n /\ longer[i] = log[i]
      BY <1>1, <2>2
    <3>2. Fills(longer, name, i) = Fills(log, name, i)
      BY <1>3, <3>1
    <3> QED BY <1>1, <1>7, <3>1, <3>2 DEF Counts
  <2> QED BY <2>1, <2>2
<1>8. ASSUME NEW i \in 1..(n + 1), NEW j \in 1..(n + 1), longer[i].order = name, longer[j].order = name,
             longer[i].trade > 0, longer[j].trade = longer[i].trade
      PROVE  i = j
  <2>1. CASE i = n + 1 /\ j \in 1..n
    BY <1>1, <1>8, <2>1 DEF Seen
  <2>2. CASE j = n + 1 /\ i \in 1..n
    BY <1>1, <1>8, <2>2 DEF Seen
  <2>3. CASE i \in 1..n /\ j \in 1..n
    BY <1>1, <1>8, <2>3 DEF Counts
  <2> QED BY <1>1, <2>1, <2>2, <2>3
<1>9. \E j \in DOMAIN longer : longer[j].order = name /\ longer[j].cumulative = FillTotal(longer, name)
  BY <1>1, <1>6
<1>10. Counts(longer, name, filled)
  BY <1>1, <1>7, <1>8, <1>9 DEF Counts
<1> QED BY <1>1, <1>2, <1>6, <1>10 DEF longer

\* currentCumulative is the number of the order's fills.
LEMMA CurrentIsTotal ==
  ASSUME NEW log \in Seq(JournalEvents), NEW name, NEW filled, Counts(log, name, filled)
  PROVE  CurrentCumulative(log, name) = FillTotal(log, name)
<1> DEFINE cums == {log[i].cumulative : i \in {j \in DOMAIN log : log[j].order = name}}
           total == FillTotal(log, name)
<1>1. Len(log) \in Nat /\ DOMAIN log = 1..Len(log)
  BY JournalShape
<1>2. total \in Nat
  BY <1>1, FillsFinite DEF FillTotal
<1>3. \A c \in cums : c \in Nat /\ c <= total
  <2> SUFFICES ASSUME NEW i \in DOMAIN log, log[i].order = name
               PROVE  log[i].cumulative \in Nat /\ log[i].cumulative <= total
    OBVIOUS
  <2>1. log[i].cumulative = Cardinality(Fills(log, name, i))
    BY DEF Counts
  <2>2. i \in 0..Len(log) /\ i \in Nat
    BY <1>1
  <2> QED BY <1>1, <2>1, <2>2, FillsFinite DEF FillTotal
<1>4. total # 0 => total \in cums
  BY DEF Counts
<1>5. CurrentCumulative(log, name) =
        IF cums = {} THEN 0 ELSE CHOOSE c \in cums : \A d \in cums : d <= c
  BY DEF CurrentCumulative
<1> HIDE DEF cums, total
<1>6. CASE cums = {}
  BY <1>4, <1>5, <1>6 DEF total
<1>7. CASE cums # {}
  <2> DEFINE most == CHOOSE c \in cums : \A d \in cums : d <= c
  <2>1. total \in cums
    BY <1>2, <1>3, <1>4, <1>7
  <2>2. most \in cums /\ \A d \in cums : d <= most
    BY <1>3, <2>1
  <2>3. CurrentCumulative(log, name) = most
    BY <1>5, <1>7
  <2> HIDE DEF most
  <2>4. most = total
    BY <1>2, <1>3, <2>1, <2>2
  <2> QED BY <2>3, <2>4 DEF total
<1> QED BY <1>6, <1>7

-----------------------------------------------------------------------------
\* What IngestOrderUpdate has made of the journal after some of an update's trades.
Ingested(log, name, filled, acc) ==
  /\ acc = Journaled(acc.log, acc.conflict, acc.cumulative)
  /\ acc.log \in Seq(JournalEvents) /\ acc.conflict \in BOOLEAN /\ acc.cumulative \in Nat
  /\ Counts(acc.log, name, filled)
  /\ acc.cumulative = FillTotal(acc.log, name)
  /\ Continues(log, acc.log, name)

\* A journal that continues one which continues a first continues the first.
LEMMA ContinuesOn ==
  ASSUME NEW log \in Seq(JournalEvents), NEW longer \in Seq(JournalEvents),
         NEW longest \in Seq(JournalEvents), NEW name,
         Continues(log, longer, name), Continues(longer, longest, name)
  PROVE  Continues(log, longest, name)
<1>1. Len(log) \in Nat /\ Len(longer) \in Nat /\ Len(longest) \in Nat
  BY JournalShape
<1>2. \A i \in 1..Len(longest) : i > Len(log) => longest[i].order = name
  <2> SUFFICES ASSUME NEW i \in 1..Len(longest), i > Len(log) PROVE longest[i].order = name
    OBVIOUS
  <2>1. CASE i > Len(longer)
    BY <2>1 DEF Continues
  <2>2. CASE ~(i > Len(longer))
    <3>1. i \in 1..Len(longer)
      BY <1>1, <2>2
    <3> QED BY <3>1 DEF Continues
  <2> QED BY <2>1, <2>2
<1>3. \A i \in 1..Len(log) : i \in 1..Len(longer)
  BY <1>1 DEF Continues
<1> QED BY <1>1, <1>2, <1>3 DEF Continues

\* One trade keeps the journal's account of the order (IngestOrderUpdate's loop).
LEMMA IngestTradeKeeps ==
  ASSUME NEW log \in Seq(JournalEvents), NEW name \in OrderNames, NEW filled \in Nat,
         NEW acc, Ingested(log, name, filled, acc), NEW trade \in 1..filled, NEW sound \in BOOLEAN
  PROVE  Ingested(log, name, filled, IngestTrade(acc, name, trade, sound))
<1> DEFINE done == IngestTrade(acc, name, trade, sound)
<1>1. /\ acc.log \in Seq(JournalEvents) /\ acc.conflict \in BOOLEAN /\ acc.cumulative \in Nat
      /\ Counts(acc.log, name, filled) /\ acc.cumulative = FillTotal(acc.log, name)
      /\ Continues(log, acc.log, name)
  BY DEF Ingested
<1>2. CASE acc.conflict
  <2>1. done = acc
    BY <1>2 DEF IngestTrade
  <2> QED BY <2>1
<1>3. CASE ~acc.conflict /\ \E conflict \in BOOLEAN : done = Journaled(acc.log, conflict, acc.cumulative)
  BY <1>1, <1>3 DEF Ingested, Journaled
<1>4. CASE ~acc.conflict /\ ~Seen(acc.log, name, trade) /\ ~(acc.cumulative + 1 > OrderQuantity)
  <2> DEFINE total == acc.cumulative + 1
             kind == IF total = OrderQuantity THEN "FILL" ELSE "PARTIAL_FILL"
             e == Event(name, trade, kind, total)
             longer == Append(acc.log, e)
  <2>1. done = Journaled(longer, FALSE, total)
    BY <1>4 DEF IngestTrade
  <2>2. /\ total \in Nat /\ total <= OrderQuantity /\ kind \in EventKinds
        /\ (kind = "FILL") = (total = OrderQuantity)
    BY <1>1, <1>4, ExecutionAssumption DEF EventKinds
  <2>3. /\ e \in JournalEvents /\ e.order = name /\ e.trade = trade /\ e.kind = kind
        /\ e.cumulative = total
    BY <2>2 DEF Event, JournalEvents
  <2>4. total = FillTotal(acc.log, name) + 1
    BY <1>1
  <2> HIDE DEF e, kind, total
  <2>5. /\ longer \in Seq(JournalEvents) /\ Counts(longer, name, filled)
        /\ FillTotal(longer, name) = total /\ Continues(acc.log, longer, name)
    BY <1>1, <1>4, <2>2, <2>3, <2>4, AppendKeepsCounts
  <2> HIDE DEF longer, done
  <2>6. Continues(log, longer, name)
    BY <1>1, <2>5, ContinuesOn
  <2>7. Ingested(log, name, filled, Journaled(longer, FALSE, total))
    BY <2>2, <2>5, <2>6 DEF Ingested, Journaled
  <2> QED BY <2>1, <2>7 DEF done
<1>5. \/ acc.conflict
      \/ ~acc.conflict /\ Seen(acc.log, name, trade)
      \/ ~acc.conflict /\ ~Seen(acc.log, name, trade) /\ acc.cumulative + 1 > OrderQuantity
      \/ ~acc.conflict /\ ~Seen(acc.log, name, trade) /\ ~(acc.cumulative + 1 > OrderQuantity)
  BY <1>1
<1>6. ASSUME ~acc.conflict, Seen(acc.log, name, trade)
      PROVE  done = Journaled(acc.log, ~sound, acc.cumulative)
  BY <1>6 DEF IngestTrade
<1>7. ASSUME ~acc.conflict, ~Seen(acc.log, name, trade), acc.cumulative + 1 > OrderQuantity
      PROVE  done = Journaled(acc.log, TRUE, acc.cumulative)
  BY <1>7 DEF IngestTrade
<1> HIDE DEF done
<1> QED BY <1>2, <1>3, <1>4, <1>5, <1>6, <1>7 DEF done

\* All the trades of an update keep the journal's account of the order.
LEMMA IngestTradesKeep ==
  ASSUME NEW log \in Seq(JournalEvents), NEW name \in OrderNames, NEW filled \in 0..OrderQuantity,
         Counts(log, name, filled), NEW trades \in SUBSET (1..filled), NEW sound \in BOOLEAN
  PROVE  Ingested(log, name, filled, IngestTrades(log, name, trades, sound))
<1> DEFINE N == OrderQuantity
           Records == [log : Seq(JournalEvents), conflict : BOOLEAN, cumulative : Nat]
           T == {acc \in Records : Ingested(log, name, filled, acc)}
           start == Journaled(log, FALSE, CurrentCumulative(log, name))
           Round2(acc, k) == IF k \in trades THEN IngestTrade(acc, name, k, sound) ELSE acc
           step == [x \in T \X (1..N) |-> Round2(x[1], x[2])]
           Runs(f) == f = [trade \in 0..N |-> IF trade = 0 THEN start
                             ELSE IF trade \in trades THEN IngestTrade(f[trade - 1], name, trade, sound)
                             ELSE f[trade - 1]]
           after == CHOOSE f : Runs(f)
<1>0. N \in Nat /\ filled \in Nat
  BY ExecutionAssumption
<1>a. ASSUME NEW acc, Ingested(log, name, filled, acc) PROVE acc \in T
  BY <1>a DEF Ingested, Journaled
<1>1. start \in T
  <2>1. CurrentCumulative(log, name) = FillTotal(log, name)
    BY CurrentIsTotal
  <2>2. Len(log) \in Nat
    BY JournalShape
  <2>3. FillTotal(log, name) \in Nat
    BY <2>2, FillsFinite DEF FillTotal
  <2>4. Continues(log, log, name)
    BY <2>2 DEF Continues
  <2>5. Ingested(log, name, filled, start)
    BY <2>1, <2>3, <2>4 DEF Ingested, Journaled
  <2> QED BY <1>a, <2>5
<1>2. ASSUME NEW acc \in T, NEW k \in 1..N PROVE Round2(acc, k) \in T
  <2>1. CASE k \in trades
    <3>1. Ingested(log, name, filled, IngestTrade(acc, name, k, sound))
      BY <1>0, <2>1, IngestTradeKeeps
    <3> QED BY <1>a, <2>1, <3>1
  <2>2. CASE k \notin trades
    BY <2>2
  <2> QED BY <2>1, <2>2
<1>3. step \in [T \X (1..N) -> T]
  BY <1>2
<1>4. ASSUME NEW acc \in T, NEW k \in 1..N PROVE step[<<acc, k>>] = Round2(acc, k)
  OBVIOUS
<1> HIDE DEF N, T, start, step, Round2
<1>5. PICK f : Loops(f, N, T, start, step)
  BY <1>0, <1>1, <1>3, LoopExists DEF Rounds
<1>6. ASSUME NEW k \in 0..N PROVE f[k] = IF k = 0 THEN start ELSE Round2(f[k - 1], k)
  <2>1. CASE k = 0
    BY <1>5, <2>1 DEF Loops
  <2>2. CASE k # 0
    <3>1. k \in 1..N /\ k - 1 \in 0..N
      BY <1>0, <2>2
    <3> QED BY <1>4, <1>5, <2>2, <3>1 DEF Loops
  <2> QED BY <2>1, <2>2
<1>7. Runs(f)
  BY <1>5, <1>6 DEF Loops, Round2
<1>8. Runs(after)
  BY <1>7
<1> HIDE DEF after
<1>9. /\ after[0] = start
      /\ \A k \in 1..N : k \in 0..N /\ k - 1 \in 0..N /\ after[k] = Round2(after[k - 1], k)
  BY <1>0, <1>8 DEF Round2
<1>10. IngestTrades(log, name, trades, sound) = after[N]
  BY DEF IngestTrades, after, N, start
<1> HIDE DEF Runs
<1> DEFINE G == {k \in 0..N : after[k] \in T}
<1>11. 0 \in G
  BY <1>0, <1>1, <1>9
<1>12. ASSUME NEW k \in 0..(N - 1), k \in G PROVE k + 1 \in G
  <2>1. k + 1 \in 1..N /\ k + 1 \in 0..N /\ (k + 1) - 1 = k
    BY <1>0
  <2>2. after[k + 1] = Round2(after[k], k + 1) /\ after[k] \in T
    BY <1>9, <1>12, <2>1
  <2> QED BY <1>2, <2>1, <2>2
<1> HIDE DEF G
<1>13. \A k \in 0..(N - 1) : k \in G => k + 1 \in G
  BY <1>12
<1>14. \A k \in 0..N : k \in G
  BY <1>0, <1>11, <1>13, Induction
<1>15. after[N] \in T
  BY <1>0, <1>14 DEF G
<1> QED BY <1>10, <1>15 DEF T

-----------------------------------------------------------------------------
(* The provider's orders rm, the correlation records rs, the journal log, the calls in *)
(* progress wk and how often restarts set each client order back, fg.                   *)

OrdersOf(rm, id) == {o \in rm : o.id = id}
HoldsOrder(rm, id, name, terms) == \E o \in rm : Name(o) = name /\ o.id = id /\ o.terms = terms
SettledStates == {"ACCEPTED", "REJECTED", "SEND_UNCERTAIN"}
NamingStates == {"ACCEPTED", "REJECTED"}

\* The provider numbers a client's orders; nothing is filled beyond the quantity.
ProviderKeeps(rm) ==
  /\ IsFiniteSet(rm)
  /\ \A o \in rm :
       /\ o.id \in ClientIDs /\ o.n \in 1..Cardinality(OrdersOf(rm, o.id))
       /\ o.filled \in 0..OrderQuantity /\ (o.status = "OPEN" => o.filled < OrderQuantity)
       /\ \A p \in rm : Name(p) = Name(o) => p = o

\* A record that names an order is settled, and the provider has that order on its terms.
RecordsHeld(rm, rs) ==
  /\ DOMAIN rs \subseteq ClientIDs
  /\ \A id \in DOMAIN rs : rs[id].order # NoOrder =>
       rs[id].state \in NamingStates /\ HoldsOrder(rm, id, rs[id].order, rs[id].terms)

\* The journal's events are of orders that records name, each with its account.
JournalHeld(rm, rs, log) ==
  /\ log \in Seq(JournalEvents)
  /\ \A i \in DOMAIN log : \E id \in DOMAIN rs : rs[id].order = log[i].order
  /\ \A o \in rm : Counts(log, Name(o), o.filled)

Correlated(rm, rs, log) == RecordsHeld(rm, rs) /\ JournalHeld(rm, rs, log)

\* A settled record stands for one order at the provider, and each restart that set its
\* client order back for one more.
Stands(rs, id) == IF id \in DOMAIN rs /\ rs[id].state \in SettledStates THEN 1 ELSE 0
PlacedOnce(rm, rs, fg) ==
  /\ fg \in [ClientIDs -> Nat]
  /\ \A id \in ClientIDs : Cardinality(OrdersOf(rm, id)) <= fg[id] + Stands(rs, id)

CallsKnown(rm, rs, wk) ==
  \A w \in DOMAIN wk :
    /\ wk[w].pc \in {"authorize", "place"} => wk[w].id \in ClientIDs
    /\ wk[w].pc \in {"trades", "build"} =>
         /\ wk[w].id \in DOMAIN rs /\ wk[w].terms = rs[wk[w].id].terms
         /\ \A o \in wk[w].orders : HoldsOrder(rm, o.id, Name(o), o.terms)
    /\ wk[w].pc = "correlate" =>
         wk[w].id \in DOMAIN rs /\ HoldsOrder(rm, wk[w].id, wk[w].order, rs[wk[w].id].terms)

\* The provider's orders after it placed or worked on one.
Evolves(rm, rm2) ==
  /\ \A o \in rm : \E p \in rm2 : Name(p) = Name(o) /\ p.id = o.id /\ p.terms = o.terms
  /\ \A p \in rm2 : \/ \E o \in rm : Name(o) = Name(p) /\ o.filled <= p.filled
                    \/ \A o \in rm : Name(o) # Name(p)

\* A client has finitely many orders at the provider.
LEMMA OrdersFinite ==
  ASSUME NEW rm, IsFiniteSet(rm), NEW id
  PROVE  /\ IsFiniteSet(OrdersOf(rm, id)) /\ Cardinality(OrdersOf(rm, id)) \in Nat
         /\ (Cardinality(OrdersOf(rm, id)) = 0) = (OrdersOf(rm, id) = {})
<1>1. OrdersOf(rm, id) \in SUBSET rm
  BY DEF OrdersOf
<1>2. IsFiniteSet(OrdersOf(rm, id))
  BY <1>1, FS_Subset
<1> QED BY <1>2, FS_CardinalityType, FS_EmptySet

\* The name of a new order is of no order before it.
LEMMA PlaceKeepsProvider ==
  ASSUME NEW rm, ProviderKeeps(rm), NEW id \in ClientIDs, NEW order, order.id = id,
         order.n = Cardinality(OrdersOf(rm, id)) + 1, order.filled = 0
  PROVE  /\ ProviderKeeps(rm \cup {order}) /\ Evolves(rm, rm \cup {order})
         /\ Cardinality(OrdersOf(rm \cup {order}, id)) = Cardinality(OrdersOf(rm, id)) + 1
         /\ \A other : other # id => OrdersOf(rm \cup {order}, other) = OrdersOf(rm, other)
<1> DEFINE rm2 == rm \cup {order}
<1>1. \A k : IsFiniteSet(OrdersOf(rm, k)) /\ Cardinality(OrdersOf(rm, k)) \in Nat
  BY OrdersFinite DEF ProviderKeeps
<1>2. \A o \in rm : Name(o) # Name(order)
  <2> SUFFICES ASSUME NEW o \in rm, Name(o) = Name(order) PROVE FALSE
    OBVIOUS
  <2>1. o.id = id /\ o.n = Cardinality(OrdersOf(rm, id)) + 1
    BY DEF Name
  <2>2. o.n \in 1..Cardinality(OrdersOf(rm, id))
    BY <2>1 DEF ProviderKeeps
  <2> QED BY <1>1, <2>1, <2>2
<1>3. order \notin rm
  BY <1>2
<1>4. \A other : other # id => OrdersOf(rm2, other) = OrdersOf(rm, other)
  BY DEF OrdersOf
<1>5. Cardinality(OrdersOf(rm2, id)) = Cardinality(OrdersOf(rm, id)) + 1
  <2>1. OrdersOf(rm2, id) = OrdersOf(rm, id) \cup {order} /\ order \notin OrdersOf(rm, id)
    BY <1>3 DEF OrdersOf
  <2>2. Cardinality(OrdersOf(rm, id) \cup {order}) = Cardinality(OrdersOf(rm, id)) + 1
    BY <1>1, <2>1, FS_AddElement
  <2> QED BY <2>1, <2>2
<1>6. IsFiniteSet(rm2)
  BY FS_AddElement DEF ProviderKeeps
<1>m. \A o \in rm2 : o \in rm \/ o = order
  OBVIOUS
<1> HIDE DEF rm2
<1>7. ASSUME NEW o \in rm PROVE o.n \in 1..Cardinality(OrdersOf(rm2, o.id))
  <2>1. o.n \in 1..Cardinality(OrdersOf(rm, o.id))
    BY DEF ProviderKeeps
  <2>2. CASE o.id = id
    BY <1>1, <1>5, <2>1, <2>2
  <2>3. CASE o.id # id
    BY <1>4, <2>1, <2>3
  <2> QED BY <2>2, <2>3
<1>8. order.n \in 1..Cardinality(OrdersOf(rm2, order.id))
  BY <1>1, <1>5
<1> HIDE DEF Name
<1>9. ProviderKeeps(rm2)
  BY <1>2, <1>6, <1>7, <1>8, <1>m, ExecutionAssumption DEF ProviderKeeps
<1>10. Evolves(rm, rm2)
  <2>1. \A o \in rm : o.filled \in Nat
    BY ExecutionAssumption DEF ProviderKeeps
  <2>2. \A o \in rm : o \in rm2
    BY DEF rm2
  <2> QED BY <1>2, <1>m, <2>1, <2>2 DEF Evolves
<1> QED BY <1>4, <1>5, <1>9, <1>10 DEF rm2

\* An order that is filled further or ends keeps its name.
LEMMA BecomesKeepsProvider ==
  ASSUME NEW rm, ProviderKeeps(rm), NEW o \in rm, NEW filled \in Nat, NEW status,
         o.filled <= filled, filled <= OrderQuantity, status = "OPEN" => filled < OrderQuantity,
         NEW rm2, rm2 = (rm \ {o}) \cup {Becomes(o, filled, status)}
  PROVE  /\ ProviderKeeps(rm2) /\ Evolves(rm, rm2)
         /\ \A id : Cardinality(OrdersOf(rm2, id)) = Cardinality(OrdersOf(rm, id))
<1> DEFINE next == Becomes(o, filled, status)
<1>0. rm2 = (rm \ {o}) \cup {next}
  OBVIOUS
<1>1. /\ next.id = o.id /\ next.n = o.n /\ next.terms = o.terms
      /\ next.filled = filled /\ next.status = status /\ Name(next) = Name(o)
  BY DEF Becomes, Name
<1> HIDE DEF next
<1>2. \A k : IsFiniteSet(OrdersOf(rm, k)) /\ Cardinality(OrdersOf(rm, k)) \in Nat
  BY OrdersFinite DEF ProviderKeeps
<1>3. \A p \in rm \ {o} : Name(p) # Name(next)
  BY <1>1 DEF ProviderKeeps
<1>4. \A id : Cardinality(OrdersOf(rm2, id)) = Cardinality(OrdersOf(rm, id))
  <2> SUFFICES ASSUME NEW id PROVE Cardinality(OrdersOf(rm2, id)) = Cardinality(OrdersOf(rm, id))
    OBVIOUS
  <2>1. CASE id # o.id
    <3>1. OrdersOf(rm2, id) = OrdersOf(rm, id)
      BY <1>0, <1>1, <2>1 DEF OrdersOf
    <3> QED BY <3>1
  <2>2. CASE id = o.id
    <3> DEFINE rest == OrdersOf(rm, id) \ {o}
    <3>1. o \in OrdersOf(rm, id)
      BY <2>2 DEF OrdersOf
    <3>2. IsFiniteSet(rest) /\ Cardinality(rest) = Cardinality(OrdersOf(rm, id)) - 1
      BY <1>2, <3>1, FS_RemoveElement
    <3>3. next \notin rest /\ OrdersOf(rm2, id) = rest \cup {next}
      BY <1>0, <1>1, <1>3, <2>2 DEF OrdersOf
    <3> HIDE DEF rest
    <3>4. Cardinality(rest \cup {next}) = Cardinality(rest) + 1
      BY <3>2, <3>3, FS_AddElement
    <3>5. Cardinality(OrdersOf(rm, id)) \in Nat
      BY <1>2
    <3>6. Cardinality(rest \cup {next}) = Cardinality(OrdersOf(rm, id))
      BY <3>2, <3>4, <3>5
    <3> QED BY <3>3, <3>6
  <2> QED BY <2>1, <2>2
<1>5. IsFiniteSet(rm2)
  <2>1. IsFiniteSet(rm \ {o})
    BY FS_RemoveElement DEF ProviderKeeps
  <2> QED BY <1>0, <2>1, FS_AddElement
<1>m. next \in rm2 /\ \A p \in rm2 : p = next \/ p \in rm \ {o}
  BY <1>0
<1>n. \A p \in rm : p = o \/ p \in rm2
  BY <1>0
<1>6. \A p \in rm2 : p.id \in ClientIDs /\ p.n \in 1..Cardinality(OrdersOf(rm2, p.id))
  BY <1>1, <1>4, <1>m DEF ProviderKeeps
<1>7. ASSUME NEW p \in rm2
      PROVE  /\ p.filled \in 0..OrderQuantity /\ (p.status = "OPEN" => p.filled < OrderQuantity)
             /\ \A q \in rm2 : Name(q) = Name(p) => q = p
  <2>1. CASE p = next
    BY <1>1, <1>3, <1>m, <2>1, ExecutionAssumption
  <2>2. CASE p \in rm \ {o}
    <3>1. \A q \in rm : Name(q) = Name(p) => q = p
      BY <2>2 DEF ProviderKeeps
    <3>2. Name(p) # Name(next)
      BY <1>3, <2>2
    <3>3. \A q \in rm2 : Name(q) = Name(p) => q = p
      BY <1>m, <3>1, <3>2
    <3>4. p.filled \in 0..OrderQuantity /\ (p.status = "OPEN" => p.filled < OrderQuantity)
      BY <2>2 DEF ProviderKeeps
    <3> QED BY <3>3, <3>4
  <2> QED BY <1>m, <2>1, <2>2
<1>10. ProviderKeeps(rm2)
  BY <1>5, <1>6, <1>7 DEF ProviderKeeps
<1>8. \A p \in rm : p.filled \in Nat
  BY ExecutionAssumption DEF ProviderKeeps
<1>9. Evolves(rm, rm2)
  BY <1>1, <1>8, <1>m, <1>n DEF Evolves
<1> QED BY <1>4, <1>10, <1>9

\* The provider loses no order.
LEMMA EvolvesHolds ==
  ASSUME NEW rm, NEW rm2, Evolves(rm, rm2), NEW id, NEW name, NEW terms,
         HoldsOrder(rm, id, name, terms)
  PROVE  HoldsOrder(rm2, id, name, terms)
BY DEF Evolves, HoldsOrder

\* An account stands when the provider reports more filled.
LEMMA CountsMore ==
  ASSUME NEW log \in Seq(JournalEvents), NEW name, NEW filled, NEW more,
         Counts(log, name, filled), filled \in Nat, more \in Nat, filled <= more
  PROVE  Counts(log, name, more)
BY DEF Counts

\* What is known of the orders stands when the provider places or works on one.
LEMMA EvolvesKeepsCorrelated ==
  ASSUME NEW rm, NEW rm2, ProviderKeeps(rm), ProviderKeeps(rm2), Evolves(rm, rm2),
         NEW rs, NEW log, Correlated(rm, rs, log)
  PROVE  Correlated(rm2, rs, log)
<1>1. RecordsHeld(rm2, rs)
  BY EvolvesHolds DEF Correlated, RecordsHeld
<1>2. log \in Seq(JournalEvents) /\ Len(log) \in Nat /\ DOMAIN log = 1..Len(log)
  BY JournalShape DEF Correlated, JournalHeld
<1>3. ASSUME NEW p \in rm2 PROVE Counts(log, Name(p), p.filled)
  <2>1. p.filled \in Nat /\ \A o \in rm : o.filled \in Nat
    BY ExecutionAssumption DEF ProviderKeeps
  <2>2. CASE \E o \in rm : Name(o) = Name(p) /\ o.filled <= p.filled
    <3>1. PICK o \in rm : Name(o) = Name(p) /\ o.filled <= p.filled
      BY <2>2
    <3>2. Counts(log, Name(p), o.filled)
      BY <3>1 DEF Correlated, JournalHeld
    <3> QED BY <1>2, <2>1, <3>1, <3>2, CountsMore
  <2>3. CASE \A o \in rm : Name(o) # Name(p)
    <3>1. \A i \in DOMAIN log : log[i].order # Name(p)
      <4> SUFFICES ASSUME NEW i \in DOMAIN log, log[i].order = Name(p) PROVE FALSE
        OBVIOUS
      <4>1. PICK id \in DOMAIN rs : rs[id].order = Name(p)
        BY DEF Correlated, JournalHeld
      <4>2. Name(p) # NoOrder
        BY DEF Name, NoOrder
      <4> QED BY <2>3, <4>1, <4>2 DEF Correlated, RecordsHeld, HoldsOrder
    <3>2. Fills(log, Name(p), Len(log)) = {}
      BY <1>2, <3>1 DEF Fills
    <3>3. FillTotal(log, Name(p)) = 0
      BY <3>2, FS_EmptySet DEF FillTotal
    <3> QED BY <3>1, <3>3 DEF Counts
  <2> QED BY <2>2, <2>3, <1>2 DEF Evolves
<1> QED BY <1>1, <1>2, <1>3 DEF Correlated, JournalHeld

\* A record that names no order yet may come to name one, and others are left alone.
RecordSet(rs, rs2, id) ==
  /\ DOMAIN rs2 = DOMAIN rs \cup {id}
  /\ id \in DOMAIN rs => rs2[id].terms = rs[id].terms
  /\ \A k \in DOMAIN rs : k # id => rs2[k] = rs[k]

\* Naming an order in a record that named none keeps records and journal correlated.
LEMMA SetKeepsCorrelated ==
  ASSUME NEW rm, NEW rs, NEW log, Correlated(rm, rs, log),
         NEW id \in ClientIDs, NEW rs2, RecordSet(rs, rs2, id),
         id \in DOMAIN rs => rs[id].order \in {NoOrder, rs2[id].order},
         rs2[id].order # NoOrder =>
           rs2[id].state \in NamingStates /\ HoldsOrder(rm, id, rs2[id].order, rs2[id].terms)
  PROVE  Correlated(rm, rs2, log)
<1>1. RecordsHeld(rm, rs2)
  BY DEF Correlated, RecordsHeld, RecordSet
<1>2. log \in Seq(JournalEvents) /\ Len(log) \in Nat /\ DOMAIN log = 1..Len(log)
      /\ \A i \in 1..Len(log) : log[i] \in JournalEvents
  BY JournalShape DEF Correlated, JournalHeld
<1>3. \A i \in DOMAIN log : log[i].order # NoOrder
  <2>1. ASSUME NEW name \in OrderNames PROVE name # NoOrder
    <3>1. PICK id2 \in ClientIDs, n \in Nat : name = <<id2, n>>
      BY DEF OrderNames
    <3> QED BY <3>1 DEF NoOrder
  <2> QED BY <1>2, <2>1 DEF JournalEvents
<1>4. ASSUME NEW i \in DOMAIN log PROVE \E k \in DOMAIN rs2 : rs2[k].order = log[i].order
  <2>1. PICK k \in DOMAIN rs : rs[k].order = log[i].order
    BY DEF Correlated, JournalHeld
  <2>2. k \in DOMAIN rs2 /\ rs2[k].order = rs[k].order
    BY <1>3, <2>1 DEF RecordSet
  <2> QED BY <2>1, <2>2
<1> QED BY <1>1, <1>2, <1>4 DEF Correlated, JournalHeld

\* A longer journal of a correlated order.
LEMMA JournalKeepsCorrelated ==
  ASSUME NEW rm, ProviderKeeps(rm), NEW rs, NEW log, Correlated(rm, rs, log),
         NEW o \in rm, NEW longer \in Seq(JournalEvents), Continues(log, longer, Name(o)),
         Counts(longer, Name(o), o.filled), NEW id \in DOMAIN rs, rs[id].order = Name(o)
  PROVE  Correlated(rm, rs, longer)
<1>1. log \in Seq(JournalEvents) /\ Len(log) \in Nat /\ DOMAIN log = 1..Len(log)
  BY JournalShape DEF Correlated, JournalHeld
<1>2. Len(longer) \in Nat /\ DOMAIN longer = 1..Len(longer)
  BY JournalShape
<1>3. ASSUME NEW i \in DOMAIN longer PROVE \E k \in DOMAIN rs : rs[k].order = longer[i].order
  <2>1. CASE i \in 1..Len(log)
    <3>1. longer[i] = log[i]
      BY <2>1 DEF Continues
    <3> QED BY <1>1, <2>1, <3>1 DEF Correlated, JournalHeld
  <2>2. CASE i \notin 1..Len(log)
    <3>1. longer[i].order = Name(o)
      BY <1>1, <1>2, <2>2 DEF Continues
    <3> QED BY <3>1
  <2> QED BY <2>1, <2>2
<1>4. ASSUME NEW p \in rm PROVE Counts(longer, Name(p), p.filled)
  <2>1. CASE Name(p) = Name(o)
    <3>1. p = o
      BY <2>1 DEF ProviderKeeps
    <3> QED BY <3>1
  <2>2. CASE Name(p) # Name(o)
    <3>1. Counts(log, Name(p), p.filled)
      BY DEF Correlated, JournalHeld
    <3> QED BY <1>1, <2>2, <3>1, ContinuesKeepsCounts
  <2> QED BY <2>1, <2>2
<1> QED BY <1>3, <1>4 DEF Correlated, JournalHeld

\* Settling a record keeps what is at the provider settled.
LEMMA SettledKeepsPlaced ==
  ASSUME NEW rm, ProviderKeeps(rm), NEW rs, NEW fg, PlacedOnce(rm, rs, fg), NEW id \in ClientIDs,
         NEW rs2, RecordSet(rs, rs2, id), rs2[id].state \in SettledStates
  PROVE  PlacedOnce(rm, rs2, fg)
<1> SUFFICES ASSUME NEW k \in ClientIDs PROVE Cardinality(OrdersOf(rm, k)) <= fg[k] + Stands(rs2, k)
  BY DEF PlacedOnce
<1>1. Cardinality(OrdersOf(rm, k)) \in Nat
  BY OrdersFinite DEF ProviderKeeps
<1>2. Stands(rs, k) \in {0, 1} /\ Stands(rs2, k) \in {0, 1} /\ Stands(rs, k) <= Stands(rs2, k)
  BY DEF RecordSet, Stands
<1>3. fg[k] \in Nat /\ Cardinality(OrdersOf(rm, k)) <= fg[k] + Stands(rs, k)
  BY DEF PlacedOnce
<1> QED BY <1>1, <1>2, <1>3

SameCounts(rm, rm2) == \A id : Cardinality(OrdersOf(rm2, id)) = Cardinality(OrdersOf(rm, id))

\* As many orders of each client are still placed once.
LEMMA CountKeepsPlaced ==
  ASSUME NEW rm, NEW rm2, SameCounts(rm, rm2),
         NEW rs, NEW fg, PlacedOnce(rm, rs, fg)
  PROVE  PlacedOnce(rm2, rs, fg)
BY DEF PlacedOnce, SameCounts

\* A call's next step keeps what the other calls know.
LEMMA CallKeepsCalls ==
  ASSUME NEW rm, NEW rs, NEW wk, CallsKnown(rm, rs, wk), NEW w, NEW value,
         value.pc \in {"authorize", "place"} => value.id \in ClientIDs,
         value.pc \in {"trades", "build"} =>
           /\ value.id \in DOMAIN rs /\ value.terms = rs[value.id].terms
           /\ \A o \in value.orders : HoldsOrder(rm, o.id, Name(o), o.terms),
         value.pc = "correlate" =>
           value.id \in DOMAIN rs /\ HoldsOrder(rm, value.id, value.order, rs[value.id].terms)
  PROVE  CallsKnown(rm, rs, [wk EXCEPT ![w] = value])
BY DEF CallsKnown

\* Calls keep what they know when orders and records are added.
LEMMA GrowthKeepsCalls ==
  ASSUME NEW rm, NEW rm2, Evolves(rm, rm2) \/ rm2 = rm, NEW rs, NEW rs2,
         \A id \in DOMAIN rs : id \in DOMAIN rs2 /\ rs2[id].terms = rs[id].terms,
         NEW wk, CallsKnown(rm, rs, wk)
  PROVE  CallsKnown(rm2, rs2, wk)
<1>1. \A id, name, terms : HoldsOrder(rm, id, name, terms) => HoldsOrder(rm2, id, name, terms)
  BY EvolvesHolds
<1> QED BY <1>1 DEF CallsKnown

-----------------------------------------------------------------------------
\* The inductive invariant: besides what ExecutionAdapterInv says, that the checkpoint is
\* correlated too, and that the record of what is at the provider is settled.
AdapterInductive ==
  /\ ProviderKeeps(remote)
  /\ Correlated(remote, records, journal)
  /\ saved # Nothing => Correlated(remote, saved.records, saved.journal)
  /\ PlacedOnce(remote, records, forgotten)
  /\ CallsKnown(remote, records, worker)

\* A new adapter holds nothing.
LEMMA AdapterInit == ExecutionInit => AdapterInductive
<1> SUFFICES ASSUME ExecutionInit PROVE AdapterInductive
  OBVIOUS
<1>1. records = << >> /\ journal = << >> /\ remote = {} /\ saved = Nothing
  BY DEF ExecutionInit
<1>2. ProviderKeeps(remote)
  BY <1>1, FS_EmptySet DEF ProviderKeeps
<1>3. Correlated(remote, records, journal)
  BY <1>1 DEF Correlated, RecordsHeld, JournalHeld
<1>4. PlacedOnce(remote, records, forgotten)
  <2>1. \A id : OrdersOf(remote, id) = {}
    BY <1>1 DEF OrdersOf
  <2>2. forgotten = [id \in ClientIDs |-> 0] /\ \A id : Stands(records, id) \in Nat
    BY DEF ExecutionInit, Stands
  <2> QED BY <2>1, <2>2, FS_EmptySet DEF PlacedOnce
<1>5. CallsKnown(remote, records, worker)
  <2>1. \A w \in DOMAIN worker : worker[w].pc = "idle"
    BY DEF ExecutionInit
  <2> QED BY <2>1 DEF CallsKnown
<1> QED BY <1>1, <1>2, <1>3, <1>4, <1>5 DEF AdapterInductive

\* Calls that only look, and the adapter's switches.
LEMMA QuietKeeps ==
  ASSUME AdapterInductive, UNCHANGED <<records, journal, remote, saved, forgotten>>,
         \/ UNCHANGED worker
         \/ \E w \in DOMAIN worker : \E id \in ClientIDs : \E terms : Submit(w, id, terms)
         \/ \E w \in DOMAIN worker : SubmitAuthorize(w) \/ SnapshotTrades(w) \/ BuildSnapshot(w)
         \/ \E w \in DOMAIN worker : \E id : Lookup(w, id)
  PROVE  AdapterInductive'
<1>1. CallsKnown(remote, records, worker)
  BY DEF AdapterInductive
<1>2. CallsKnown(remote, records, worker')
  <2>1. CASE UNCHANGED worker
    BY <1>1, <2>1
  <2>2. CASE \E w \in DOMAIN worker : \E id \in ClientIDs : \E terms : Submit(w, id, terms)
    <3>1. PICK w \in DOMAIN worker : \E id \in ClientIDs : \E terms : Submit(w, id, terms)
      BY <2>2
    <3>2. PICK id \in ClientIDs : \E terms : Submit(w, id, terms)
      BY <3>1
    <3>3. PICK terms : Submit(w, id, terms)
      BY <3>2
    <3>4. worker' = [worker EXCEPT ![w] = [pc |-> "authorize", id |-> id, terms |-> terms]]
      BY <3>3 DEF Submit, Become
    <3> QED BY <1>1, <3>4, CallKeepsCalls
  <2>3. CASE \E w \in DOMAIN worker : SubmitAuthorize(w)
    <3>1. PICK w \in DOMAIN worker : SubmitAuthorize(w)
      BY <2>3
    <3>2. worker[w].id \in ClientIDs
      BY <1>1, <3>1 DEF CallsKnown, SubmitAuthorize
    <3>3. \/ worker' = [worker EXCEPT ![w] = [pc |-> "place", id |-> worker[w].id, terms |-> worker[w].terms]]
          \/ worker' = [worker EXCEPT ![w] = [pc |-> "idle"]]
      BY <3>1 DEF SubmitAuthorize, Become, Answer
    <3> QED BY <1>1, <3>2, <3>3, CallKeepsCalls
  <2>4. CASE \E w \in DOMAIN worker : SnapshotTrades(w)
    <3>1. PICK w \in DOMAIN worker : SnapshotTrades(w)
      BY <2>4
    <3>2. /\ worker[w].id \in DOMAIN records /\ worker[w].terms = records[worker[w].id].terms
          /\ \A o \in worker[w].orders : HoldsOrder(remote, o.id, Name(o), o.terms)
      BY <1>1, <3>1 DEF CallsKnown, SnapshotTrades
    <3>3. \/ worker' = [worker EXCEPT ![w] =
                          [pc |-> "build", id |-> worker[w].id, terms |-> worker[w].terms,
                           orders |-> worker[w].orders, agree |-> TradesAgree(worker[w].orders)]]
          \/ worker' = [worker EXCEPT ![w] = [pc |-> "idle"]]
      BY <3>1 DEF SnapshotTrades, Become, Answer
    <3> HIDE DEF TradesAgree
    <3> QED BY <1>1, <3>2, <3>3, CallKeepsCalls
  <2>5. CASE \E w \in DOMAIN worker : \E id : Lookup(w, id)
    <3>0. PICK w \in DOMAIN worker : \E id : Lookup(w, id)
      BY <2>5
    <3>1. PICK id : Lookup(w, id)
      BY <3>0
    <3>2. /\ \/ worker' = [worker EXCEPT ![w] =
                             [pc |-> "trades", id |-> id, terms |-> records[id].terms, orders |-> remote]]
             \/ worker' = worker
          /\ id \in DOMAIN records
      BY <3>1 DEF Lookup, Become
    <3>3. \A o \in remote : HoldsOrder(remote, o.id, Name(o), o.terms)
      BY DEF HoldsOrder
    <3> QED BY <1>1, <3>2, <3>3, CallKeepsCalls
  <2>6. CASE \E w \in DOMAIN worker : BuildSnapshot(w)
    <3>1. PICK w \in DOMAIN worker : BuildSnapshot(w)
      BY <2>6
    <3>2. /\ worker[w].id \in DOMAIN records /\ worker[w].terms = records[worker[w].id].terms
          /\ \A o \in worker[w].orders : HoldsOrder(remote, o.id, Name(o), o.terms)
      BY <1>1, <3>1 DEF CallsKnown, BuildSnapshot
    <3>3. \/ \E o \in worker[w].orders :
               /\ o.id = worker[w].id /\ o.terms = worker[w].terms
               /\ worker' = [worker EXCEPT ![w] = [pc |-> "correlate", id |-> o.id, order |-> Name(o)]]
          \/ worker' = [worker EXCEPT ![w] = [pc |-> "idle"]]
      BY <3>1 DEF BuildSnapshot, Become, Answer
    <3>4. ASSUME NEW o \in worker[w].orders, o.id = worker[w].id, o.terms = worker[w].terms,
                 worker' = [worker EXCEPT ![w] = [pc |-> "correlate", id |-> o.id, order |-> Name(o)]]
          PROVE  CallsKnown(remote, records, worker')
      <4> DEFINE value == [pc |-> "correlate", id |-> o.id, order |-> Name(o)]
      <4>1. /\ value.pc = "correlate" /\ value.id \in DOMAIN records
            /\ HoldsOrder(remote, value.id, value.order, records[value.id].terms)
        BY <3>2, <3>4
      <4> HIDE DEF value
      <4> QED BY <1>1, <3>4, <4>1, CallKeepsCalls DEF value
    <3>5. CASE worker' = [worker EXCEPT ![w] = [pc |-> "idle"]]
      BY <1>1, <3>5, CallKeepsCalls
    <3> QED BY <3>3, <3>4, <3>5
  <2> QED BY <2>1, <2>2, <2>3, <2>4, <2>5, <2>6
<1>3. /\ records' = records /\ journal' = journal /\ remote' = remote /\ saved' = saved
      /\ forgotten' = forgotten
  OBVIOUS
<1> QED BY <1>2, <1>3 DEF AdapterInductive

\* The provider works on an order.
LEMMA ProviderKeepsInductive ==
  ASSUME AdapterInductive, NEW o \in remote, NEW filled \in Nat, NEW status,
         o.filled <= filled, filled <= OrderQuantity, status = "OPEN" => filled < OrderQuantity,
         remote' = (remote \ {o}) \cup {Becomes(o, filled, status)},
         UNCHANGED <<records, journal, saved, forgotten, worker>>
  PROVE  AdapterInductive'
<1>0. ProviderKeeps(remote)
  BY DEF AdapterInductive
<1>1. /\ ProviderKeeps(remote') /\ Evolves(remote, remote')
      /\ \A id : Cardinality(OrdersOf(remote', id)) = Cardinality(OrdersOf(remote, id))
  BY <1>0, BecomesKeepsProvider
<1>2. Correlated(remote', records, journal)
  BY <1>1, EvolvesKeepsCorrelated DEF AdapterInductive
<1>3. saved # Nothing => Correlated(remote', saved.records, saved.journal)
  BY <1>1, EvolvesKeepsCorrelated DEF AdapterInductive
<1>4. CallsKnown(remote', records, worker)
  BY <1>1, GrowthKeepsCalls DEF AdapterInductive
<1>5. PlacedOnce(remote', records, forgotten)
  <2>1. SameCounts(remote, remote')
    BY <1>1 DEF SameCounts
  <2> QED BY <1>0, <1>1, <2>1, CountKeepsPlaced DEF AdapterInductive
<1>6. records' = records /\ journal' = journal /\ saved' = saved /\ forgotten' = forgotten /\ worker' = worker
  OBVIOUS
<1> QED BY <1>1, <1>2, <1>3, <1>4, <1>5, <1>6 DEF AdapterInductive

\* Whatever the transport reports, an order that was placed leaves its record settled, and
\* a record that names an order was told which.
LEMMA OutcomesKnown ==
  ASSUME NEW reported \in Outcomes
  PROVE  /\ reported.status # "none" => reported.state \in SettledStates
         /\ reported.named => reported.status # "none" /\ reported.state \in NamingStates
BY DEF Outcomes, Reported, SettledStates, NamingStates

\* SubmitPlace puts an order at the provider only if its record is not settled.
LEMMA SubmitPlaceKeeps ==
  ASSUME AdapterInductive, NEW w \in DOMAIN worker, SubmitPlace(w)
  PROVE  AdapterInductive'
<1> DEFINE id == worker[w].id
           terms == worker[w].terms
<1>0. /\ ProviderKeeps(remote) /\ Correlated(remote, records, journal)
      /\ PlacedOnce(remote, records, forgotten) /\ CallsKnown(remote, records, worker)
  BY DEF AdapterInductive
<1>1. id \in ClientIDs
  BY <1>0 DEF CallsKnown, SubmitPlace
<1>2. /\ worker' = [worker EXCEPT ![w] = [pc |-> "idle"]]
      /\ journal' = journal /\ saved' = saved /\ forgotten' = forgotten
  BY DEF SubmitPlace, Answer, Become
<1>3. CASE UNCHANGED <<records, remote>>
  <2>1. CallsKnown(remote, records, worker')
    BY <1>0, <1>2, CallKeepsCalls
  <2> QED BY <1>2, <1>3, <2>1 DEF AdapterInductive
<1>4. ASSUME NEW reported \in Outcomes, MayPlace(id, terms),
             NEW order, order = Place(id, terms, reported.status),
             remote' = IF reported.status # "none" THEN remote \cup {order} ELSE remote,
             PutRecord(id, terms, reported.state, IF reported.named THEN Name(order) ELSE NoOrder)
      PROVE  AdapterInductive'
  <2> DEFINE name == IF reported.named THEN Name(order) ELSE NoOrder
             placed == reported.status # "none"
  <2>1. order.id = id /\ order.terms = terms /\ order.n = Cardinality(OrdersOf(remote, id)) + 1 /\ order.filled = 0
    BY <1>4 DEF Place, OrderOf, OrdersOf
  <2>2. /\ placed \in BOOLEAN /\ (placed => reported.state \in SettledStates)
        /\ (reported.named => placed /\ reported.state \in NamingStates)
    BY OutcomesKnown
  <2>3. /\ RecordSet(records, records', id)
        /\ records'[id].state = reported.state /\ records'[id].order = name /\ records'[id].terms = terms
    BY <1>4 DEF PutRecord, RecordSet, MayPlace, SameTerms
  <2>4. id \in DOMAIN records => records[id].state \notin SettledStates
    BY <1>4 DEF MayPlace, Settled, SettledStates
  <2>5. id \in DOMAIN records => records[id].order = NoOrder
    BY <1>0, <2>4 DEF Correlated, RecordsHeld, SettledStates, NamingStates
  <2>6. /\ forgotten \in [ClientIDs -> Nat] /\ Cardinality(OrdersOf(remote, id)) \in Nat
        /\ Cardinality(OrdersOf(remote, id)) <= forgotten[id]
    <3>1. IsFiniteSet(remote)
      BY <1>0 DEF ProviderKeeps
    <3>2. Cardinality(OrdersOf(remote, id)) \in Nat
      BY <3>1, OrdersFinite
    <3>3. Stands(records, id) = 0
      BY <2>4 DEF Stands
    <3> QED BY <1>0, <1>1, <3>2, <3>3 DEF PlacedOnce
  <2>a. remote' = IF placed THEN remote \cup {order} ELSE remote
    BY <1>4
  <2> HIDE DEF id, terms, placed
  <2>7. placed =>
          /\ ProviderKeeps(remote') /\ Evolves(remote, remote')
          /\ Cardinality(OrdersOf(remote', id)) = Cardinality(OrdersOf(remote, id)) + 1
          /\ \A other : other # id => OrdersOf(remote', other) = OrdersOf(remote, other)
    BY <1>0, <1>1, <2>a, <2>1, PlaceKeepsProvider
  <2>8. ~placed => remote' = remote
    BY <2>a
  <2>9. ProviderKeeps(remote')
    BY <1>0, <2>2, <2>7, <2>8
  <2>10. Correlated(remote', records, journal)
    <3>1. CASE placed
      BY <1>0, <2>7, <3>1, EvolvesKeepsCorrelated
    <3>2. CASE ~placed
      BY <1>0, <2>8, <3>2
    <3> QED BY <2>2, <3>1, <3>2
  <2>11. saved # Nothing => Correlated(remote', saved.records, saved.journal)
    <3>1. CASE placed
      BY <1>0, <2>7, <3>1, EvolvesKeepsCorrelated DEF AdapterInductive
    <3>2. CASE ~placed
      BY <2>8, <3>2 DEF AdapterInductive
    <3> QED BY <2>2, <3>1, <3>2
  <2>12. name # NoOrder =>
           records'[id].state \in NamingStates /\ HoldsOrder(remote', id, name, records'[id].terms)
    <3> SUFFICES ASSUME name # NoOrder
                 PROVE  records'[id].state \in NamingStates /\ HoldsOrder(remote', id, name, records'[id].terms)
      OBVIOUS
    <3>1. reported.named /\ name = Name(order)
      OBVIOUS
    <3>2. order \in remote'
      BY <2>a, <2>2, <3>1
    <3> QED BY <2>1, <2>2, <2>3, <3>1, <3>2 DEF HoldsOrder
  <2> HIDE DEF name
  <2>13. Correlated(remote', records', journal)
    BY <1>1, <2>3, <2>5, <2>10, <2>12, SetKeepsCorrelated
  <2>14. CallsKnown(remote', records', worker')
    <3>1. CallsKnown(remote, records, worker')
      BY <1>0, <1>2, CallKeepsCalls
    <3>2. Evolves(remote, remote') \/ remote' = remote
      BY <2>2, <2>7, <2>8
    <3>3. \A k \in DOMAIN records : k \in DOMAIN records' /\ records'[k].terms = records[k].terms
      BY <2>3 DEF RecordSet
    <3> QED BY <3>1, <3>2, <3>3, GrowthKeepsCalls
  <2>15. PlacedOnce(remote', records', forgotten)
    <3> SUFFICES ASSUME NEW k \in ClientIDs
                 PROVE  Cardinality(OrdersOf(remote', k)) <= forgotten[k] + Stands(records', k)
      BY <2>6 DEF PlacedOnce
    <3>1. CASE k # id
      <4>1. OrdersOf(remote', k) = OrdersOf(remote, k)
        BY <2>2, <2>7, <2>8, <3>1
      <4>2. Stands(records', k) = Stands(records, k)
        BY <2>3, <3>1 DEF RecordSet, Stands
      <4> QED BY <1>0, <4>1, <4>2 DEF PlacedOnce
    <3>2. CASE k = id
      <4>1. CASE placed
        <5>1. Cardinality(OrdersOf(remote', id)) = Cardinality(OrdersOf(remote, id)) + 1
          BY <2>7, <4>1
        <5>2. Stands(records', id) = 1
          BY <2>2, <2>3, <4>1 DEF RecordSet, Stands
        <5> QED BY <1>1, <2>6, <3>2, <5>1, <5>2
      <4>2. CASE ~placed
        <5>1. Stands(records', id) \in {0, 1}
          BY DEF Stands
        <5> QED BY <1>1, <2>6, <2>8, <3>2, <4>2, <5>1
      <4> QED BY <4>1, <4>2
    <3> QED BY <3>1, <3>2
  <2> QED BY <1>2, <2>9, <2>11, <2>13, <2>14, <2>15 DEF AdapterInductive
<1>5. \/ UNCHANGED <<records, remote>>
      \/ \E reported \in Outcomes : \E order \in {Place(id, terms, reported.status)} :
           /\ MayPlace(id, terms)
           /\ remote' = IF reported.status # "none" THEN remote \cup {order} ELSE remote
           /\ PutRecord(id, terms, reported.state, IF reported.named THEN Name(order) ELSE NoOrder)
  BY DEF SubmitPlace
<1> QED BY <1>3, <1>4, <1>5

\* An order that a snapshot showed may be named in a record that names no other.
LEMMA LookupDoneKeeps ==
  ASSUME AdapterInductive, NEW w \in DOMAIN worker, LookupDone(w)
  PROVE  AdapterInductive'
<1> DEFINE id == worker[w].id
           match == worker[w].order
<1>0. /\ ProviderKeeps(remote) /\ Correlated(remote, records, journal)
      /\ PlacedOnce(remote, records, forgotten) /\ CallsKnown(remote, records, worker)
  BY DEF AdapterInductive
<1>1. /\ worker' = [worker EXCEPT ![w] = [pc |-> "idle"]]
      /\ journal' = journal /\ saved' = saved /\ forgotten' = forgotten /\ remote' = remote
  BY DEF LookupDone, Answer, Become
<1>2. CallsKnown(remote, records, worker')
  BY <1>0, <1>1, CallKeepsCalls
<1>3. CASE UNCHANGED records
  BY <1>1, <1>2, <1>3 DEF AdapterInductive
<1>4. CASE records[id].order \in {NoOrder, match} /\ PutRecord(id, records[id].terms, "ACCEPTED", match)
  <2>1. id \in DOMAIN records /\ HoldsOrder(remote, id, match, records[id].terms)
    BY <1>0 DEF CallsKnown, LookupDone
  <2>2. id \in ClientIDs
    BY <1>0, <2>1 DEF Correlated, RecordsHeld
  <2>3. records[id].order \in {NoOrder, match}
    BY <1>4
  <2> HIDE DEF id, match
  <2>4. /\ RecordSet(records, records', id) /\ records'[id].terms = records[id].terms
        /\ records'[id].state = "ACCEPTED" /\ records'[id].order = match
    BY <1>4 DEF PutRecord, RecordSet
  <2>5. Correlated(remote, records', journal)
    <3>1. records'[id].state \in NamingStates
      BY <2>4 DEF NamingStates
    <3> QED BY <1>0, <2>1, <2>2, <2>3, <2>4, <3>1, SetKeepsCorrelated
  <2>6. PlacedOnce(remote, records', forgotten)
    <3>1. records'[id].state \in SettledStates
      BY <2>4 DEF SettledStates
    <3> QED BY <1>0, <2>2, <2>4, <3>1, SettledKeepsPlaced
  <2>7. CallsKnown(remote, records', worker')
    <3>1. \A k \in DOMAIN records : k \in DOMAIN records' /\ records'[k].terms = records[k].terms
      BY <2>4 DEF RecordSet
    <3> QED BY <1>2, <3>1, GrowthKeepsCalls
  <2> QED BY <1>1, <2>5, <2>6, <2>7 DEF AdapterInductive
<1> QED BY <1>3, <1>4 DEF LookupDone

\* A view is of an order the provider has, with no more filled.
LEMMA ViewKnown ==
  ASSUME ProviderKeeps(remote), NEW view \in Views
  PROVE  \E o \in remote : /\ Name(view) = Name(o) /\ view.id = o.id /\ view.terms = o.terms
                          /\ view.filled \in 0..o.filled
<1>1. \E o \in remote : \/ view = o
                        \/ \E f \in 0..o.filled : view = Becomes(o, f, "OPEN")
  BY DEF Views
<1>2. \A o \in remote : o.filled \in 0..o.filled
  BY ExecutionAssumption DEF ProviderKeeps
<1>3. \A o \in remote : \A f : LET v == Becomes(o, f, "OPEN") IN
        Name(v) = Name(o) /\ v.id = o.id /\ v.terms = o.terms /\ v.filled = f
  BY DEF Becomes, Name
<1> QED BY <1>1, <1>2, <1>3

\* The journal an update leaves: its trades, and then the report of its status.
LEMMA UpdateJournal ==
  ASSUME NEW log \in Seq(JournalEvents), NEW name \in OrderNames, NEW filled \in 0..OrderQuantity,
         Counts(log, name, filled), NEW trades \in SUBSET (1..filled), NEW sound \in BOOLEAN,
         NEW status, NEW longer, NEW done, done = IngestTrades(log, name, trades, sound),
         longer \in {done.log, AppendEvent(done.log, Event(name, 0, StatusEvent(status), done.cumulative))}
  PROVE  /\ longer \in Seq(JournalEvents) /\ Counts(longer, name, filled) /\ Continues(log, longer, name)
<1> DEFINE kind == StatusEvent(status)
           e == Event(name, 0, kind, done.cumulative)
<1>1. Ingested(log, name, filled, done)
  BY IngestTradesKeep
<1>2. /\ done.log \in Seq(JournalEvents) /\ done.cumulative \in Nat /\ Counts(done.log, name, filled)
      /\ done.cumulative = FillTotal(done.log, name) /\ Continues(log, done.log, name)
  BY <1>1 DEF Ingested
<1>3. kind \in EventKinds
  BY DEF StatusEvent, EventKinds
<1> HIDE DEF kind
<1>4. /\ e \in JournalEvents /\ e.order = name /\ e.trade = 0 /\ e.cumulative = done.cumulative
  BY <1>2, <1>3 DEF Event, JournalEvents
<1>5. done.cumulative <= OrderQuantity
  <2>1. CASE done.cumulative = 0
    BY <2>1, ExecutionAssumption
  <2>2. CASE done.cumulative # 0
    BY <1>2, <2>2 DEF Counts
  <2> QED BY <2>1, <2>2
<1> HIDE DEF e
<1>6. /\ Append(done.log, e) \in Seq(JournalEvents) /\ Counts(Append(done.log, e), name, filled)
      /\ Continues(done.log, Append(done.log, e), name)
  <2>1. filled \in Nat
    BY ExecutionAssumption
  <2> QED BY <1>2, <1>4, <1>5, <2>1, AppendKeepsCounts
<1>7. Continues(log, Append(done.log, e), name)
  BY <1>2, <1>6, ContinuesOn
<1>8. longer \in {done.log, Append(done.log, e)}
  BY DEF AppendEvent, e, kind
<1> QED BY <1>2, <1>6, <1>7, <1>8

\* An update that is accepted names its order and continues its account.
LEMMA ObserveOrderKeeps ==
  ASSUME AdapterInductive, NEW view \in Views, NEW trades \in SUBSET (1..view.filled),
         NEW sound \in BOOLEAN, ObserveOrder(view, trades, sound)
  PROVE  AdapterInductive'
<1> DEFINE record == records[view.id]
           done == IngestTrades(journal, Name(view), trades, sound)
           status == Event(Name(view), 0, StatusEvent(view.status), done.cumulative)
<1>0. /\ ProviderKeeps(remote) /\ Correlated(remote, records, journal)
      /\ PlacedOnce(remote, records, forgotten) /\ CallsKnown(remote, records, worker)
  BY DEF AdapterInductive
<1>1. UNCHANGED <<worker, remote, saved, forgotten>> /\ view.id \in DOMAIN records
  BY DEF ObserveOrder, Correlates
<1>2. CASE UNCHANGED <<records, journal>>
  BY <1>1, <1>2 DEF AdapterInductive
<1>3. CASE /\ record.order \in {NoOrder, Name(view)} /\ view.terms = record.terms
           /\ \/ record.order = NoOrder /\ PutRecord(view.id, record.terms, "ACCEPTED", Name(view))
              \/ record.order = Name(view) /\ UNCHANGED records
           /\ journal' \in {journal, done.log, AppendEvent(done.log, status)}
  <2>1. PICK o \in remote : /\ Name(view) = Name(o) /\ view.id = o.id /\ view.terms = o.terms
                           /\ view.filled \in 0..o.filled
    BY <1>0, ViewKnown
  <2>2. /\ o.id \in ClientIDs /\ o.filled \in 0..OrderQuantity /\ o.filled \in Nat
        /\ Name(o) \in OrderNames /\ HoldsOrder(remote, view.id, Name(o), record.terms)
    <3>1. IsFiniteSet(remote) /\ o.id \in ClientIDs /\ o.filled \in 0..OrderQuantity
          /\ o.n \in 1..Cardinality(OrdersOf(remote, o.id))
      BY <1>0 DEF ProviderKeeps
    <3>2. o.n \in Nat
      BY <3>1, OrdersFinite
    <3> QED BY <1>3, <2>1, <3>1, <3>2, ExecutionAssumption DEF Name, OrderNames, HoldsOrder
  <2>3. trades \in SUBSET (1..o.filled)
    BY <2>1, <2>2
  <2>4. journal \in Seq(JournalEvents) /\ Counts(journal, Name(o), o.filled)
    BY <1>0 DEF Correlated, JournalHeld
  <2>5. /\ journal' \in Seq(JournalEvents) /\ Counts(journal', Name(o), o.filled)
        /\ Continues(journal, journal', Name(o))
    <3>1. CASE journal' = journal
      BY <2>4, <3>1, JournalShape DEF Continues
    <3>2. CASE journal' \in {done.log, AppendEvent(done.log, status)}
      <4>1. Name(view) \in OrderNames /\ Counts(journal, Name(view), o.filled)
        BY <2>1, <2>2, <2>4
      <4>2. done = IngestTrades(journal, Name(view), trades, sound)
        OBVIOUS
      <4>3. journal' \in {done.log, AppendEvent(done.log,
                           Event(Name(view), 0, StatusEvent(view.status), done.cumulative))}
        BY <3>2
      <4> HIDE DEF done, status
      <4>4. /\ journal' \in Seq(JournalEvents) /\ Counts(journal', Name(view), o.filled)
            /\ Continues(journal, journal', Name(view))
        BY <2>2, <2>3, <2>4, <4>1, <4>2, <4>3, UpdateJournal
      <4> QED BY <2>1, <4>4
    <3> QED BY <1>3, <3>1, <3>2
  <2>6. /\ Correlated(remote, records', journal) /\ PlacedOnce(remote, records', forgotten)
        /\ \A k \in DOMAIN records : k \in DOMAIN records' /\ records'[k].terms = records[k].terms
        /\ view.id \in DOMAIN records' /\ records'[view.id].order = Name(o)
    <3>1. CASE record.order = Name(view) /\ UNCHANGED records
      BY <1>0, <1>1, <2>1, <3>1
    <3>2. CASE record.order = NoOrder /\ PutRecord(view.id, record.terms, "ACCEPTED", Name(view))
      <4>1. /\ RecordSet(records, records', view.id)
            /\ records'[view.id].state = "ACCEPTED" /\ records'[view.id].order = Name(o)
            /\ records'[view.id].terms = record.terms
        BY <2>1, <3>2 DEF PutRecord, RecordSet
      <4>2. view.id \in ClientIDs
        BY <2>1, <2>2
      <4>3. records[view.id].order = NoOrder
        BY <3>2
      <4>4. Correlated(remote, records', journal)
        <5>1. records'[view.id].state \in NamingStates
          BY <4>1 DEF NamingStates
        <5> QED BY <1>0, <2>2, <4>1, <4>2, <4>3, <5>1, SetKeepsCorrelated
      <4>5. PlacedOnce(remote, records', forgotten)
        <5>1. records'[view.id].state \in SettledStates
          BY <4>1 DEF SettledStates
        <5> QED BY <1>0, <4>1, <4>2, <5>1, SettledKeepsPlaced
      <4> QED BY <4>1, <4>4, <4>5 DEF RecordSet
    <3> QED BY <1>3, <3>1, <3>2
  <2>7. Correlated(remote, records', journal')
    BY <1>0, <2>5, <2>6, JournalKeepsCorrelated
  <2>8. CallsKnown(remote, records', worker)
    BY <1>0, <2>6, GrowthKeepsCalls
  <2> QED BY <1>1, <2>6, <2>7, <2>8 DEF AdapterInductive
<1>4. \/ UNCHANGED <<records, journal>>
      \/ /\ record.order \in {NoOrder, Name(view)} /\ view.terms = record.terms
         /\ \/ record.order = NoOrder /\ PutRecord(view.id, record.terms, "ACCEPTED", Name(view))
            \/ record.order = Name(view) /\ UNCHANGED records
         /\ journal' \in {journal, done.log, AppendEvent(done.log, status)}
  <2>1. IngestOrderUpdate(view, trades, sound)
    BY DEF ObserveOrder
  <2> QED BY <2>1, Zenon DEF IngestOrderUpdate, VerifyBrokerOrder
<1> QED BY <1>2, <1>3, <1>4

\* The checkpoint is as correlated as the adapter.
LEMMA CheckpointKeeps ==
  ASSUME AdapterInductive, Checkpoint
  PROVE  AdapterInductive'
<1>1. /\ saved'.records = records /\ saved'.journal = journal
      /\ UNCHANGED <<records, journal, remote, forgotten, worker>>
  BY DEF Checkpoint, correlationVars
<1> QED BY <1>1 DEF AdapterInductive

\* What a restart brings back is correlated; client orders it sets back are forgotten.
LEMMA RestartKeeps ==
  ASSUME AdapterInductive, Restart
  PROVE  AdapterInductive'
<1>1. /\ saved # Nothing /\ records' = saved.records /\ journal' = saved.journal
      /\ remote' = remote /\ saved' = saved
      /\ worker' = [w \in DOMAIN worker |-> [pc |-> "idle"]]
      /\ forgotten' = [id \in ClientIDs |-> forgotten[id] + IF SetBack(id) THEN 1 ELSE 0]
  BY DEF Restart
<1>2. CallsKnown(remote, records', worker')
  BY <1>1 DEF CallsKnown
<1>3. PlacedOnce(remote', records', forgotten')
  <2>1. /\ forgotten \in [ClientIDs -> Nat] /\ IsFiniteSet(remote)
        /\ \A id \in ClientIDs : Cardinality(OrdersOf(remote, id)) <= forgotten[id] + Stands(records, id)
    BY DEF AdapterInductive, PlacedOnce, ProviderKeeps
  <2>2. ASSUME NEW id \in ClientIDs
        PROVE  Cardinality(OrdersOf(remote, id)) <= forgotten'[id] + Stands(records', id)
    <3>1. Cardinality(OrdersOf(remote, id)) \in Nat
      BY <2>1, OrdersFinite
    <3>2. Stands(records', id) \in {0, 1} /\ Stands(records, id) \in {0, 1}
      BY DEF Stands
    <3>3. CASE SetBack(id)
      <4>1. forgotten'[id] = forgotten[id] + 1
        BY <1>1, <3>3
      <4> QED BY <2>1, <3>1, <3>2, <4>1
    <3>4. CASE ~SetBack(id)
      <4>1. forgotten'[id] = forgotten[id]
        BY <1>1, <2>1, <3>4
      <4>2. Stands(records, id) <= Stands(records', id)
        BY <1>1, <3>2, <3>4 DEF SetBack, Stands
      <4> QED BY <2>1, <3>1, <3>2, <4>1, <4>2
    <3> QED BY <3>3, <3>4
  <2>3. forgotten' \in [ClientIDs -> Nat]
    BY <1>1, <2>1
  <2> QED BY <1>1, <2>2, <2>3 DEF PlacedOnce
<1> QED BY <1>1, <1>2, <1>3 DEF AdapterInductive

\* Every step keeps the inductive invariant.
LEMMA AdapterStep == AdapterInductive /\ [ExecutionNext]_executionVars => AdapterInductive'
<1> SUFFICES ASSUME AdapterInductive, [ExecutionNext]_executionVars PROVE AdapterInductive'
  OBVIOUS
<1>1. CASE UNCHANGED executionVars
  BY <1>1, QuietKeeps DEF executionVars
<1>2. ASSUME NEW w \in DOMAIN worker, NEW id \in ClientIDs, Lookup(w, id) \/ \E terms \in Terms : Submit(w, id, terms)
      PROVE  AdapterInductive'
  <2>1. UNCHANGED <<records, journal, remote, saved, forgotten>>
    BY <1>2 DEF Lookup, Submit, correlationVars
  <2> QED BY <1>2, <2>1, QuietKeeps
<1>3. ASSUME NEW w \in DOMAIN worker, SubmitAuthorize(w) \/ SnapshotTrades(w) \/ BuildSnapshot(w)
      PROVE  AdapterInductive'
  <2>1. UNCHANGED <<records, journal, remote, saved, forgotten>>
    BY <1>3 DEF SubmitAuthorize, SnapshotTrades, BuildSnapshot, correlationVars
  <2> QED BY <1>3, <2>1, QuietKeeps
<1>4. ASSUME NEW w \in DOMAIN worker, SubmitPlace(w) \/ LookupDone(w) PROVE AdapterInductive'
  BY <1>4, SubmitPlaceKeeps, LookupDoneKeeps
<1>5. ASSUME NEW o \in remote, NEW next, NEW filled \in Nat, NEW status,
             next = Becomes(o, filled, status), remote' = (remote \ {o}) \cup {next},
             o.filled <= filled, filled <= OrderQuantity, status = "OPEN" => filled < OrderQuantity,
             UNCHANGED <<records, journal, saved, forgotten, worker>>
      PROVE  AdapterInductive'
  BY <1>5, ProviderKeepsInductive
<1>6. ASSUME NEW o \in remote
      PROVE  o.filled \in 0..OrderQuantity /\ (o.status = "OPEN" => o.filled < OrderQuantity)
  BY DEF AdapterInductive, ProviderKeeps
<1>7. ASSUME NEW id \in ClientIDs, Cancel(id) PROVE AdapterInductive'
  <2>0. CASE remote' = remote
    <3>1. UNCHANGED <<records, journal, remote, saved, forgotten, worker>>
      BY <1>7, <2>0 DEF Cancel, correlationVars
    <3> QED BY <3>1, QuietKeeps
  <2> SUFFICES ASSUME remote' # remote PROVE AdapterInductive'
    BY <2>0
  <2>1. /\ \E o \in remote : o.status = "OPEN" /\ remote' = (remote \ {o}) \cup {Becomes(o, o.filled, "CANCELLED")}
        /\ UNCHANGED <<records, journal, saved, forgotten, worker>>
    BY <1>7 DEF Cancel, correlationVars
  <2>2. PICK o \in remote : remote' = (remote \ {o}) \cup {Becomes(o, o.filled, "CANCELLED")}
    BY <2>1
  <2>3. o.filled \in Nat /\ o.filled <= OrderQuantity
    BY <1>6, ExecutionAssumption
  <2> QED BY <1>5, <2>1, <2>2, <2>3
<1>8. CASE RemoteStep
  <2>1. UNCHANGED <<records, journal, saved, forgotten, worker>>
    BY <1>8 DEF RemoteStep, correlationVars
  <2>2. PICK o \in remote : \E next \in
          {Becomes(o, o.filled + 1, IF o.filled + 1 = OrderQuantity THEN "COMPLETE" ELSE "OPEN"),
           Becomes(o, o.filled, "CANCELLED"), Becomes(o, o.filled, "REJECTED")} :
            o.status = "OPEN" /\ remote' = (remote \ {o}) \cup {next}
    BY <1>8 DEF RemoteStep
  <2>3. o.filled \in Nat /\ o.filled < OrderQuantity
    BY <1>6, <2>2, ExecutionAssumption
  <2>4. ASSUME NEW status \in {"CANCELLED", "REJECTED"},
               remote' = (remote \ {o}) \cup {Becomes(o, o.filled, status)}
        PROVE  AdapterInductive'
    BY <1>5, <2>1, <2>3, <2>4, ExecutionAssumption
  <2>5. ASSUME remote' = (remote \ {o}) \cup
                 {Becomes(o, o.filled + 1, IF o.filled + 1 = OrderQuantity THEN "COMPLETE" ELSE "OPEN")}
        PROVE  AdapterInductive'
    <3> DEFINE status == IF o.filled + 1 = OrderQuantity THEN "COMPLETE" ELSE "OPEN"
    <3>1. status = "OPEN" => o.filled + 1 < OrderQuantity
      BY <2>3, ExecutionAssumption
    <3>2. o.filled + 1 \in Nat /\ o.filled <= o.filled + 1 /\ o.filled + 1 <= OrderQuantity
      BY <2>3, ExecutionAssumption
    <3>3. remote' = (remote \ {o}) \cup {Becomes(o, o.filled + 1, status)}
      BY <2>5
    <3> HIDE DEF status
    <3> QED BY <1>5, <2>1, <3>1, <3>2, <3>3
  <2> QED BY <2>2, <2>4, <2>5
<1>9. ASSUME NEW view \in Views, NEW trades \in SUBSET (1..view.filled), NEW sound \in BOOLEAN,
             ObserveOrder(view, trades, sound)
      PROVE  AdapterInductive'
  BY <1>9, ObserveOrderKeeps
<1>10. CASE (\E value \in BOOLEAN : SetGap(value)) \/ AdapterShutdown \/ Reauthenticate
  <2>1. UNCHANGED <<records, journal, remote, saved, forgotten, worker>>
    BY <1>10 DEF SetGap, AdapterShutdown, Reauthenticate, correlationVars
  <2> QED BY <2>1, QuietKeeps
<1>11. CASE Checkpoint \/ Restart
  BY <1>11, CheckpointKeeps, RestartKeeps
<1> QED BY <1>1, <1>2, <1>3, <1>4, <1>7, <1>8, <1>9, <1>10, <1>11 DEF ExecutionNext

\* The inductive invariant says all that ExecutionAdapterInv says.
LEMMA AdapterSafe == AdapterInductive => ExecutionAdapterInv
<1> SUFFICES ASSUME AdapterInductive PROVE ExecutionAdapterInv
  OBVIOUS
<1>0. /\ ProviderKeeps(remote) /\ Correlated(remote, records, journal)
      /\ PlacedOnce(remote, records, forgotten)
  BY DEF AdapterInductive
<1>1. DOMAIN records \subseteq ClientIDs
  BY <1>0 DEF Correlated, RecordsHeld
<1>2. NoDuplicateOrder
  <2> SUFFICES ASSUME NEW id \in ClientIDs PROVE Cardinality(OrderOf(id)) <= 1 + forgotten[id]
    BY DEF NoDuplicateOrder
  <2>1. OrderOf(id) = OrdersOf(remote, id) /\ IsFiniteSet(remote)
    BY <1>0 DEF OrderOf, OrdersOf, ProviderKeeps
  <2>2. Cardinality(OrdersOf(remote, id)) \in Nat
    BY <2>1, OrdersFinite
  <2>3. Stands(records, id) \in {0, 1}
    BY DEF Stands
  <2> QED BY <1>0, <2>1, <2>2, <2>3 DEF PlacedOnce
<1>3. AcceptedIsRemote
  BY <1>0 DEF AcceptedIsRemote, Correlated, RecordsHeld, HoldsOrder
<1>4. journal \in Seq(JournalEvents) /\ Len(journal) \in Nat /\ DOMAIN journal = 1..Len(journal)
  BY <1>0, JournalShape DEF Correlated, JournalHeld
<1>5. JournalCounts
  <2> SUFFICES ASSUME NEW o \in remote, NEW i \in Fills(journal, Name(o), Len(journal))
               PROVE  /\ journal[i].cumulative = Cardinality(Fills(journal, Name(o), i))
                      /\ journal[i].cumulative <= OrderQuantity
                      /\ (journal[i].kind = "FILL") = (journal[i].cumulative = OrderQuantity)
                      /\ journal[i].trade \in 1..o.filled
                      /\ \A j \in Fills(journal, Name(o), Len(journal)) :
                           journal[j].trade = journal[i].trade => i = j
    BY DEF JournalCounts
  <2>1. Counts(journal, Name(o), o.filled)
    BY <1>0 DEF Correlated, JournalHeld
  <2>2. \A j \in Fills(journal, Name(o), Len(journal)) :
          j \in DOMAIN journal /\ journal[j].order = Name(o) /\ journal[j].trade > 0
    BY <1>4 DEF Fills
  <2>3. o.filled \in Nat
    BY <1>0, ExecutionAssumption DEF ProviderKeeps
  <2>4. journal[i].trade \in 1..o.filled
    BY <2>1, <2>2, <2>3 DEF Counts
  <2>5. \A j \in Fills(journal, Name(o), Len(journal)) : journal[j].trade = journal[i].trade => i = j
    BY <2>1, <2>2 DEF Counts
  <2> QED BY <2>1, <2>2, <2>4, <2>5 DEF Counts
<1>6. ServedIsCorrelated
  <2> DEFINE served == EventsAfter(0, Len(journal)).events
  <2>1. served = << >> \/ served = SubSeq(journal, 1, Len(journal))
    BY <1>4 DEF EventsAfter
  <2>2. \A i \in DOMAIN served : i \in DOMAIN journal /\ served[i] = journal[i]
    BY <1>4, <2>1
  <2>3. \A i \in DOMAIN journal : \E id \in DOMAIN records : records[id].order = journal[i].order
    BY <1>0 DEF Correlated, JournalHeld
  <2> HIDE DEF served
  <2> QED BY <2>2, <2>3 DEF ServedIsCorrelated, served
<1> QED BY <1>1, <1>2, <1>3, <1>5, <1>6 DEF ExecutionAdapterInv

\* A client order is placed once, and once more for every restart that lost or set back
\* how its submission ended; a record names only what the provider has, of that client and
\* on those terms; and the journal counts every fill once, whatever answers are lost and
\* however Submit, lookups, updates and restarts interleave (ExecutionAdapter.Submit,
\* LookupByClientOrderID, IngestOrderUpdate).
THEOREM OrdersPlacedOnce == ExecutionSpec => []ExecutionAdapterInv
BY AdapterInit, AdapterStep, AdapterSafe, PTL DEF ExecutionSpec

=============================================================================
