------------------------ MODULE FillIngestionProofs ------------------------
(***************************************************************************)
(* Proofs about FillIngestion, for any fills, callers, sources and         *)
(* restarts: the books balance and are the replay of the applied fills, a  *)
(* coordinator that has stopped leaves them alone, and reservations,       *)
(* quarantine and answers agree with them.                                 *)
(***************************************************************************)
EXTENDS FillIngestion, SumLemmas, FiniteSetTheorems, FunctionTheorems, SequenceTheorems, TLAPS

Fills ==
  [id : FillIDs, position : Positions, side : {"BUY", "SELL"}, quantity : Nat \ {0}, price : Nat \ {0}, at : Nat]

PCs == Active
Answers == {None, "COMMITTED", "IDEMPOTENT_REPLAY", "ERROR"}

\* What is allocated to a close is an integer.
LEMMA AllocatedInt ==
  ASSUME NEW position \in PositionRecords, NEW fill \in Fills
  PROVE  Allocated(position, fill) \in Int /\ Closed(position.net, fill) \in Nat
<1> DEFINE net == position.net
           q == fill.quantity
<1>1. net \in Int /\ position.basis \in Int /\ q \in Nat \ {0}
  BY DEF PositionRecords, Fills
<1>2. magnitude(net) \in Nat /\ (net # 0 => magnitude(net) > 0)
  BY <1>1 DEF magnitude
<1>3. Closed(net, fill) \in Nat
  BY <1>1, <1>2 DEF Closed
<1>4. CASE Opens(net, fill)
  BY <1>3, <1>4 DEF Allocated
<1>5. CASE ~Opens(net, fill)
  <2>1. net # 0
    BY <1>5 DEF Opens
  <2>2. position.basis * Closed(net, fill) \in Int
    BY <1>1, <1>3
  <2>3. (position.basis * Closed(net, fill)) \div magnitude(net) \in Int
    BY <2>1, <2>2, <1>2
  <2> QED
    BY <1>1, <1>3, <2>3, <1>5 DEF Allocated
<1> QED
  BY <1>4, <1>5

\* An applied fill leaves an integer position.
LEMMA AppliedType ==
  ASSUME NEW position \in PositionRecords, NEW fill \in Fills
  PROVE  Applied(position, fill) \in PositionRecords
<1>1. /\ position.net \in Int /\ position.basis \in Int /\ position.realized \in Int /\ position.revision \in Nat
      /\ position.boughtQuantity \in Int /\ position.boughtValue \in Int
      /\ position.soldQuantity \in Int /\ position.soldValue \in Int
  BY DEF PositionRecords
<1>2. fill.quantity \in Nat /\ fill.price \in Nat /\ fill.at \in Nat /\ fill.id \in Nat
  BY FillAssumption DEF Fills
<1>3. Allocated(position, fill) \in Int /\ Closed(position.net, fill) \in Nat
  BY AllocatedInt
<1>4. fill.price * fill.quantity \in Int /\ fill.price * Closed(position.net, fill) \in Int
      /\ fill.price * (fill.quantity - Closed(position.net, fill)) \in Int
  BY <1>2, <1>3
<1>5. NewNet(position, fill) \in Int
  BY <1>1, <1>2 DEF NewNet, Delta
<1>6. NewBasis(position, fill) \in Int
  BY <1>1, <1>3, <1>4 DEF NewBasis
<1>7. RealizedDelta(position, fill) \in Int
  BY <1>3, <1>4 DEF RealizedDelta, ClosingValue
<1>8. \A amount \in Int : Bought(fill, amount) \in Int /\ Sold(fill, amount) \in Int
  BY DEF Bought, Sold
<1>9. OrderingKey(fill) \in [at : Nat, id : Nat]
  BY <1>2 DEF OrderingKey
<1> HIDE DEF PositionRecords
<1> QED
  BY <1>1, <1>2, <1>4, <1>5, <1>6, <1>7, <1>8, <1>9 DEF Applied, PositionRecords

\* Applying a fill keeps the books of the position balanced: the basis that a close
\* takes out of the position is exactly what enters the realized result, whatever the
\* rounding, and a reversal opens exactly what it does not close.
LEMMA AppliedBalances ==
  ASSUME NEW position \in PositionRecords, NEW fill \in Fills,
         Balanced(position), ValidPosition(Applied(position, fill))
  PROVE  Balanced(Applied(position, fill))
<1> DEFINE net == position.net
           basis == position.basis
           p == fill.price
           q == fill.quantity
           c == Closed(position.net, fill)
           a == Allocated(position, fill)
           next == Applied(position, fill)
<1>1. /\ net \in Int /\ basis \in Int /\ position.realized \in Int
      /\ position.boughtQuantity \in Int /\ position.boughtValue \in Int
      /\ position.soldQuantity \in Int /\ position.soldValue \in Int
  BY DEF PositionRecords
<1>2. q \in Nat \ {0} /\ p \in Nat \ {0} /\ fill.side \in {"BUY", "SELL"}
  BY DEF Fills
<1>3. a \in Int /\ c \in Nat
  BY AllocatedInt
<1>4. p * q \in Int /\ p * c \in Int /\ p * (q - c) = p * q - p * c
  BY <1>2, <1>3
<1>5. /\ net = position.boughtQuantity - position.soldQuantity
      /\ position.realized = position.soldValue - position.boughtValue + (IF net > 0 THEN basis ELSE -basis)
      /\ net = 0 <=> basis = 0
  BY DEF Balanced, SignedBasis
<1>6. /\ next.net = net + Delta(fill)
      /\ next.basis = basis - a + (p * q - p * c)
      /\ next.realized = position.realized + (IF net > 0 THEN p * c - a ELSE a - p * c)
      /\ next.boughtQuantity = position.boughtQuantity + Bought(fill, q)
      /\ next.boughtValue = position.boughtValue + Bought(fill, p * q)
      /\ next.soldQuantity = position.soldQuantity + Sold(fill, q)
      /\ next.soldValue = position.soldValue + Sold(fill, p * q)
  BY <1>4 DEF Applied, NewNet, NewBasis, RealizedDelta, ClosingValue
<1>7. next.net = 0 <=> next.basis = 0
  BY DEF ValidPosition
<1>8. /\ fill.side = "BUY" => Delta(fill) = q /\ (\A n \in Int : Bought(fill, n) = n /\ Sold(fill, n) = 0)
      /\ fill.side = "SELL" => Delta(fill) = -q /\ (\A n \in Int : Bought(fill, n) = 0 /\ Sold(fill, n) = n)
  BY DEF Delta, Bought, Sold
<1>9. Opens(net, fill) <=> \/ net = 0
                           \/ net > 0 /\ fill.side = "BUY"
                           \/ net < 0 /\ fill.side = "SELL"
  BY <1>1, <1>2, <1>8 DEF Opens
<1>10. Opens(net, fill) => c = 0 /\ a = 0 /\ p * c = 0
  BY <1>2 DEF Closed, Allocated
<1>11. ~Opens(net, fill) =>
         \/ net > 0 /\ c = q /\ q < net
         \/ net < 0 /\ c = q /\ q < -net
         \/ net > 0 /\ c = net /\ q >= net /\ a = basis
         \/ net < 0 /\ c = -net /\ q >= -net /\ a = basis
  BY <1>1, <1>2, <1>9 DEF Closed, Allocated, magnitude
<1>12. next.net = next.boughtQuantity - next.soldQuantity
  BY <1>1, <1>2, <1>5, <1>6, <1>8
<1>13. c = q => p * c = p * q
  OBVIOUS
<1> HIDE DEF net, basis, p, q, c, a, next
<1>14. next.realized = next.soldValue - next.boughtValue + (IF next.net > 0 THEN next.basis ELSE -next.basis)
  <2>1. CASE Opens(net, fill)
    BY <2>1, <1>1, <1>2, <1>3, <1>4, <1>5, <1>6, <1>8, <1>9, <1>10
  <2>2. CASE ~Opens(net, fill) /\ c = q
    BY <2>2, <1>1, <1>2, <1>3, <1>4, <1>5, <1>6, <1>7, <1>8, <1>9, <1>11, <1>13
  <2>3. CASE ~Opens(net, fill) /\ c # q
    <3>1. a = basis
      BY <2>3, <1>11
    <3>2. CASE net > 0
      <4>1. fill.side = "SELL" /\ c = net /\ q > net
        BY <2>3, <3>2, <1>1, <1>2, <1>9, <1>11
      <4>2. next.net = net - q
        BY <4>1, <1>1, <1>2, <1>6, <1>8
      <4>3. ~(next.net > 0)
        BY <4>1, <4>2, <1>1, <1>2
      <4>4. next.soldValue = position.soldValue + p * q /\ next.boughtValue = position.boughtValue
        BY <4>1, <1>1, <1>4, <1>6, <1>8
      <4> QED
        BY <3>1, <3>2, <4>3, <4>4, <1>1, <1>4, <1>5, <1>6
    <3>3. CASE net < 0
      <4>1. fill.side = "BUY" /\ c = -net /\ q > -net
        BY <2>3, <3>3, <1>1, <1>2, <1>9, <1>11
      <4>2. next.net = net + q
        BY <4>1, <1>1, <1>2, <1>6, <1>8
      <4>3. next.net > 0
        BY <4>1, <4>2, <1>1, <1>2
      <4>4. next.boughtValue = position.boughtValue + p * q /\ next.soldValue = position.soldValue
        BY <4>1, <1>1, <1>4, <1>6, <1>8
      <4> QED
        BY <3>1, <3>3, <4>3, <4>4, <1>1, <1>4, <1>5, <1>6
    <3> QED
      BY <2>3, <3>2, <3>3, <1>1, <1>9
  <2> QED
    BY <2>1, <2>2, <2>3
<1> QED
  BY <1>7, <1>12, <1>14 DEF Balanced, SignedBasis, next

\* The inductive invariant of the books: positions, the exported bundle and the calls
\* in progress.
THEOREM BooksInvariant == Spec => []BooksInv
<1>0. NoPosition \in PositionRecords /\ Balanced(NoPosition)
  BY DEF NoPosition, PositionRecords, Balanced, SignedBasis
<1>i. Idle \in CallRecords /\ Idle.pc = "idle"
  BY <1>0 DEF Idle, CallRecords, None
<1>1. Init => BooksInv
  <2> SUFFICES ASSUME Init PROVE BooksInv
    OBVIOUS
  <2>2. current = [x \in Positions |-> NoPosition] /\ exported.current = current
    BY DEF Init, Store
  <2>3. call \in [Callers -> CallRecords] /\ \A c \in Callers : call[c].pc = "idle"
    BY <1>i DEF Init
  <2> QED
    BY <1>0, <2>2, <2>3 DEF BooksInv
<1>2. BooksInv /\ [Next]_vars => BooksInv'
  <2> SUFFICES ASSUME BooksInv, [Next]_vars PROVE BooksInv'
    OBVIOUS
  <2> DEFINE CallsOK(calls) ==
        /\ calls \in [Callers -> CallRecords]
        /\ \A c \in Callers : calls[c].pc # "idle" => calls[c].fill \in FillIDs
  <2>0. CallsOK(call)
    BY DEF BooksInv
  <2>1. ASSUME UNCHANGED <<current, exported>>, CallsOK(call')
        PROVE  BooksInv'
    BY <2>1 DEF BooksInv
  <2>r. ASSUME NEW c \in Callers, NEW r \in CallRecords, r.pc # "idle" => r.fill \in FillIDs,
               call' = [call EXCEPT ![c] = r]
        PROVE  CallsOK(call')
    BY <2>r, <2>0
  <2>2. CASE UNCHANGED vars
    BY <2>0, <2>1, <2>2 DEF vars
  <2>3. ASSUME NEW c \in Callers, NEW f \in FillIDs, NEW source \in Sources, Ingest(c, f, source)
        PROVE  BooksInv'
    <3>2. [pc |-> "reserve", fill |-> f, source |-> source, next |-> NoPosition, answer |-> None] \in CallRecords
      BY <1>0 DEF CallRecords, Active, Inside, Locked, None
    <3>3. CallsOK(call')
      BY <2>3, <2>r, <3>2 DEF Ingest
    <3> QED
      BY <2>1, <2>3, <3>3 DEF Ingest, storeVars
  <2>4. ASSUME NEW c \in Callers, Step(c)
        PROVE  BooksInv'
    <3> DEFINE r == call[c]
    <3>1. r \in CallRecords /\ (r.pc # "idle" => r.fill \in FillIDs)
      BY <2>0
    <3>2. ASSUME NEW pc \in PCs, NEW next \in PositionRecords, NEW answer \in Answers,
                 Move(c, pc, next, answer), r.pc # "idle"
          PROVE  CallsOK(call')
      <4> DEFINE n == [pc |-> pc, fill |-> r.fill, source |-> r.source, next |-> next, answer |-> answer]
      <4>1. n \in CallRecords /\ n.fill = r.fill
        BY <3>1, <3>2 DEF CallRecords, PCs, Answers
      <4>2. call' = [call EXCEPT ![c] = n]
        BY <3>2 DEF Move
      <4> HIDE DEF n
      <4> QED
        BY <2>r, <3>1, <3>2, <4>1, <4>2
    <3>g. ASSUME NEW pc \in PCs, Goto(c, pc), r.pc # "idle" PROVE CallsOK(call')
      BY <3>1, <3>2, <3>g DEF Goto, CallRecords, Answers
    <3>3. ASSUME NEW pc \in PCs, NEW answer \in Answers, Answer(c, answer, pc), r.pc # "idle"
          PROVE  CallsOK(call')
      BY <1>0, <3>2, <3>3 DEF Answer
    <3>m. {"admit", "lookup", "lock", "read", "publish", "unlock", "leave", "release"} \subseteq PCs
          /\ {None, "COMMITTED", "IDEMPOTENT_REPLAY", "ERROR"} \subseteq Answers
      BY DEF PCs, Answers, Active, Inside, Locked
    <3> HIDE DEF r, CallsOK
    <3>n. r.pc = call[c].pc
      BY DEF r
    <3>4. Return(c) => CallsOK(call')
      BY <1>i, <2>r DEF Return, CallsOK
    <3>p. r.pc # "idle" => Offered(c) \in Fills
      BY <3>1, FillAssumption DEF Offered, Fills, r
    <3>5. CASE PublishPosition(c)
      <4> DEFINE p == Offered(c).position
      <4>1. r.pc = "publish" /\ Unmoved(c)
        BY <3>n, <3>5 DEF PublishPosition, At, Commits
      <4>2. p \in Positions /\ Offered(c) \in Fills
        BY <3>p, <4>1 DEF Fills
      <4>3. current[p] \in PositionRecords /\ Balanced(current[p])
        BY <4>2 DEF BooksInv
      <4>4. r.next = Applied(current[p], Offered(c)) /\ ValidPosition(r.next)
        BY <4>1 DEF Unmoved, Applies, r
      <4>5. r.next \in PositionRecords /\ Balanced(r.next)
        BY <4>2, <4>3, <4>4, AppliedType, AppliedBalances
      <4>6. current' = [current EXCEPT ![p] = r.next] /\ exported' = exported
        BY <3>5 DEF PublishPosition, r
      <4>7. CallsOK(call')
        BY <3>3, <3>m, <3>5, <4>1 DEF PublishPosition
      <4> HIDE DEF p
      <4>8. current' \in [Positions -> PositionRecords] /\ \A x \in Positions : Balanced(current'[x])
        BY <4>2, <4>5, <4>6 DEF BooksInv
      <4> QED
        BY <4>6, <4>7, <4>8 DEF BooksInv, CallsOK
    <3>6. CASE ~PublishPosition(c)
      <4>1. UNCHANGED <<current, exported>>
        BY <2>4, <3>6 DEF Step, storeVars, reserve, ReserveRefused, Admit, AdmitCancelled, CallFails, Lookup,
          Lock, Read, ReadRefused, PublicationRefused, Unlock, Leave, release
      <4>2. CASE Read(c)
        <5>1. r.pc = "read"
          BY <3>n, <4>2 DEF Read, At
        <5>2. Offered(c) \in Fills /\ Offered(c).position \in Positions
          BY <3>p, <5>1 DEF Fills
        <5>3. Applied(current[Offered(c).position], Offered(c)) \in PositionRecords
          BY <5>2, AppliedType DEF BooksInv
        <5>4. CallsOK(call')
          BY <3>2, <3>m, <4>2, <5>1, <5>3 DEF Read
        <5> QED
          BY <2>1, <4>1, <5>4 DEF CallsOK
      <4>3. CASE ReserveRefused(c) \/ release(c)
        BY <2>1, <3>4, <4>1, <4>3 DEF CallsOK, ReserveRefused, release
      <4>4. CASE reserve(c) \/ Admit(c) \/ Unlock(c) \/ Leave(c)
        BY <2>1, <3>g, <3>m, <3>n, <4>1, <4>4 DEF CallsOK, reserve, Admit, Unlock, Leave, At
      <4>5. CASE AdmitCancelled(c) \/ CallFails(c) \/ ReadRefused(c) \/ PublicationRefused(c)
        BY <2>1, <3>3, <3>m, <3>n, <4>1, <4>5 DEF CallsOK, AdmitCancelled, CallFails, ReadRefused, PublicationRefused, At
      <4>6. CASE Lookup(c)
        BY <2>1, <3>g, <3>3, <3>m, <3>n, <4>1, <4>6 DEF CallsOK, Lookup, At
      <4>7. CASE Lock(c)
        BY <2>1, <3>g, <3>3, <3>m, <3>n, <4>1, <4>7 DEF CallsOK, Lock, At
      <4> QED
        BY <2>4, <3>6, <4>2, <4>3, <4>4, <4>5, <4>6, <4>7 DEF Step
    <3> QED
      BY <3>5, <3>6
  <2>5. CASE Shutdown
    BY <2>0, <2>1, <2>5 DEF Shutdown, storeVars
  <2>6. CASE ShutdownDone
    BY <2>0, <2>1, <2>6 DEF ShutdownDone, storeVars
  <2>7. CASE Export
    <3>1. exported'.current = current /\ UNCHANGED <<current, call>>
      BY <2>7 DEF Export, Store, storeVars
    <3> QED
      BY <3>1 DEF BooksInv
  <2>8. CASE Restart
    <3>1. current' = exported.current /\ UNCHANGED exported /\ call' = [c \in Callers |-> Idle]
      BY <2>8 DEF Restart
    <3>2. CallsOK(call')
      BY <1>i, <3>1
    <3> QED
      BY <3>1, <3>2 DEF BooksInv
  <2> QED
    BY <2>2, <2>3, <2>4, <2>5, <2>6, <2>7, <2>8 DEF Next
<1> QED
  BY <1>1, <1>2, PTL DEF Spec

\* The books of every position balance after any sequence of fills, retries, races,
\* refusals and restarts (Ingest, ApplyFill, PublishPosition, RestorePosition).
THEOREM BooksAlwaysBalance == Spec => []BooksBalance
<1>1. BooksInv => BooksBalance
  BY DEF BooksInv, BooksBalance
<1> QED
  BY <1>1, BooksInvariant, PTL

\* A call in progress holds its identity, alone, and a stopped coordinator has none.
THEOREM QuietInvariant == Spec => []QuietInv
<1>1. Init => QuietInv
  <2> SUFFICES ASSUME Init PROVE QuietInv
    OBVIOUS
  <2>1. (\A c \in Callers : call[c].pc = "idle") /\ stopped = FALSE /\ restarts = 0
    BY DEF Init, Idle
  <2>2. "idle" \notin Active
    BY DEF Active, Inside, Locked
  <2> QED
    BY <2>1, <2>2 DEF QuietInv
<1>2. QuietInv /\ BooksInv /\ [Next]_vars => QuietInv'
  <2> SUFFICES ASSUME QuietInv, BooksInv, [Next]_vars PROVE QuietInv'
    OBVIOUS
  <2> DEFINE ID(calls, c) == <<calls[c].fill, calls[c].source>>
             Act(calls) == {c \in Callers : calls[c].pc \in Active}
             Holds(calls, held) ==
               /\ \A c \in Act(calls) : ID(calls, c) \in held
               /\ \A c, d \in Act(calls) : c # d => ID(calls, c) # ID(calls, d)
  <2>1. call \in [Callers -> CallRecords]
    BY DEF BooksInv
  <2>2. Holds(call, running) /\ (stopped => closed /\ running = {}) /\ restarts \in Nat
    BY DEF QuietInv, IngestionID
  <2>3. ASSUME Holds(call', running'), stopped' => closed' /\ running' = {}, restarts' \in Nat
        PROVE  QuietInv'
    BY <2>3 DEF QuietInv, IngestionID
  <2>4. ASSUME NEW c \in Callers, NEW r, call' = [call EXCEPT ![c] = r],
               r.pc \in Active => /\ call[c].pc \in Active
                                  /\ r.fill = call[c].fill /\ r.source = call[c].source
        PROVE  Holds(call', running)
    <3>1. \A d \in Act(call') : d \in Act(call) /\ ID(call', d) = ID(call, d)
      BY <2>1, <2>4
    <3> HIDE DEF ID, Act
    <3> QED
      BY <2>2, <3>1
  <2> HIDE DEF Holds
  <2>5. CASE UNCHANGED vars
    BY <2>2, <2>3, <2>5 DEF vars
  <2>6. ASSUME NEW c \in Callers, NEW f \in FillIDs, NEW source \in Sources, Ingest(c, f, source)
        PROVE  QuietInv'
    <3> DEFINE r == [pc |-> "reserve", fill |-> f, source |-> source, next |-> NoPosition, answer |-> None]
    <3>1. r.pc \notin Active /\ call' = [call EXCEPT ![c] = r]
      BY <2>6 DEF Ingest, Active, Inside, Locked
    <3> HIDE DEF r
    <3>2. Holds(call', running)
      BY <2>4, <3>1
    <3> QED
      BY <2>2, <2>3, <2>6, <3>2 DEF Ingest
  <2>7. ASSUME NEW c \in Callers, Step(c)
        PROVE  QuietInv'
    <3>1. UNCHANGED <<closed, stopped, restarts>>
      BY <2>7 DEF Step, reserve, ReserveRefused, Admit, AdmitCancelled, CallFails, Lookup, Lock, Read, ReadRefused,
        PublishPosition, PublicationRefused, Unlock, Leave, release
    <3>2. ASSUME NEW pc, NEW next, NEW answer, Move(c, pc, next, answer), call[c].pc \in Active
          PROVE  Holds(call', running)
      <4> DEFINE r == [pc |-> pc, fill |-> call[c].fill, source |-> call[c].source, next |-> next, answer |-> answer]
      <4>1. r.fill = call[c].fill /\ r.source = call[c].source /\ call' = [call EXCEPT ![c] = r]
        BY <3>2 DEF Move
      <4> HIDE DEF r
      <4> QED
        BY <2>4, <3>2, <4>1
    <3>3. Return(c) => Holds(call', running)
      <4>1. Idle.pc \notin Active
        BY DEF Idle, Active, Inside, Locked
      <4> QED
        BY <2>4, <4>1 DEF Return
    <3>4. CASE reserve(c)
      <4> DEFINE r == [pc |-> "admit", fill |-> call[c].fill, source |-> call[c].source,
                       next |-> call[c].next, answer |-> call[c].answer]
      <4>1. /\ ~closed /\ IngestionID(c) \notin running /\ running' = running \cup {IngestionID(c)}
            /\ call' = [call EXCEPT ![c] = r]
        BY <3>4 DEF reserve, Accepts, Goto, Move
      <4>2. r.fill = call[c].fill /\ r.source = call[c].source
        OBVIOUS
      <4> HIDE DEF r
      <4>3. \A d \in Callers : ID(call', d) = ID(call, d)
        BY <2>1, <4>1, <4>2
      <4>4. \A d \in Act(call') : d = c \/ d \in Act(call)
        BY <2>1, <4>1
      <4>5. IngestionID(c) = ID(call, c)
        BY DEF IngestionID
      <4> HIDE DEF ID
      <4>6. Holds(call', running')
        <5>1. \A d \in Act(call') : d \in Callers
          OBVIOUS
        <5>2. \A d \in Act(call) : ID(call, d) \in running /\ ID(call, d) # ID(call, c)
          BY <2>2, <4>1, <4>5 DEF Holds
        <5>3. \A d, e \in Act(call) : d # e => ID(call, d) # ID(call, e)
          BY <2>2 DEF Holds
        <5> HIDE DEF Act
        <5>4. \A d \in Act(call') : ID(call', d) \in running'
          BY <4>1, <4>3, <4>4, <4>5, <5>1, <5>2
        <5>5. \A d, e \in Act(call') : d # e => ID(call', d) # ID(call', e)
          BY <4>3, <4>4, <5>1, <5>2, <5>3
        <5> QED
          BY <5>4, <5>5 DEF Holds
      <4> QED
        BY <2>2, <2>3, <3>1, <4>1, <4>6
    <3>5. CASE release(c)
      <4>1. running' = running \ {IngestionID(c)} /\ call' = [call EXCEPT ![c] = Idle] /\ call[c].pc \in Active
        BY <3>5 DEF release, Return, At, Active
      <4>2. Idle.pc \notin Active
        BY DEF Idle, Active, Inside, Locked
      <4>3. \A d \in Act(call') : d # c /\ d \in Act(call) /\ ID(call', d) = ID(call, d)
        BY <2>1, <4>1, <4>2
      <4>4. c \in Act(call) /\ IngestionID(c) = ID(call, c)
        BY <4>1 DEF IngestionID
      <4>5. \A d \in Act(call) : ID(call, d) \in running
        BY <2>2 DEF Holds
      <4>6. \A d, e \in Act(call) : d # e => ID(call, d) # ID(call, e)
        BY <2>2 DEF Holds
      <4> HIDE DEF ID, Act
      <4>7. \A d \in Act(call') : ID(call', d) \in running'
        BY <4>1, <4>3, <4>4, <4>5, <4>6
      <4>8. \A d, e \in Act(call') : d # e => ID(call', d) # ID(call', e)
        BY <4>3, <4>6
      <4>9. Holds(call', running')
        BY <4>7, <4>8 DEF Holds
      <4> QED
        BY <2>2, <2>3, <3>1, <4>1, <4>9
    <3>6. CASE ~reserve(c) /\ ~release(c)
      <4>1. running' = running
        BY <2>7, <3>6 DEF Step, ReserveRefused, Admit, AdmitCancelled, CallFails, Lookup, Lock, Read, ReadRefused,
          PublishPosition, PublicationRefused, Unlock, Leave
      <4>2. Return(c) \/ (call[c].pc \in Active /\ \E pc, next, answer : Move(c, pc, next, answer))
        BY <2>7, <3>6 DEF Step, ReserveRefused, Admit, AdmitCancelled, CallFails, Lookup, Lock, Read, ReadRefused,
          PublishPosition, PublicationRefused, Unlock, Leave, At, Goto, Answer, Active, Inside, Locked
      <4>3. Holds(call', running)
        BY <3>2, <3>3, <4>2
      <4> QED
        BY <2>2, <2>3, <3>1, <4>1, <4>3
    <3> QED
      BY <3>4, <3>5, <3>6
  <2>8. CASE Shutdown
    BY <2>2, <2>3, <2>8 DEF Shutdown
  <2>9. CASE ShutdownDone
    BY <2>2, <2>3, <2>9 DEF ShutdownDone
  <2>10. CASE Export
    BY <2>2, <2>3, <2>10 DEF Export
  <2>11. CASE Restart
    <3>1. call' = [c \in Callers |-> Idle] /\ stopped' = FALSE /\ restarts' \in Nat
      BY <2>2, <2>11 DEF Restart
    <3>2. Idle.pc \notin Active
      BY DEF Idle, Active, Inside, Locked
    <3>3. Holds(call', running')
      BY <3>1, <3>2 DEF Holds
    <3> QED
      BY <2>3, <3>1, <3>3
  <2> QED
    BY <2>5, <2>6, <2>7, <2>8, <2>9, <2>10, <2>11 DEF Next
<1> QED
  BY <1>1, <1>2, BooksInvariant, PTL DEF Spec

\* Once Shutdown has returned no call moves the books: whatever could publish is
\* counted, and Shutdown waited for it.
THEOREM StoppedStaysQuiet == Spec => StoppedIsQuiet
<1>1. QuietInv /\ [Next]_vars => [stopped /\ restarts' = restarts => UNCHANGED storeVars]_vars
  <2> SUFFICES ASSUME QuietInv, Next, stopped, restarts' = restarts PROVE UNCHANGED storeVars
    BY DEF storeVars, vars
  <2>1. \A c \in Callers : call[c].pc \notin Active
    BY DEF QuietInv
  <2>2. ASSUME NEW c \in Callers, Step(c) PROVE UNCHANGED storeVars
    <3>1. ~PublishPosition(c)
      BY <2>1 DEF PublishPosition, At, Active, Inside, Locked
    <3> QED
      BY <2>2, <3>1 DEF Step, reserve, ReserveRefused, Admit, AdmitCancelled, CallFails, Lookup, Lock, Read,
        ReadRefused, PublicationRefused, Unlock, Leave, release
  <2>3. ~Restart
    BY DEF Restart, QuietInv
  <2> QED
    BY <2>2, <2>3 DEF Next, Ingest, Shutdown, ShutdownDone, Export
<1> QED
  BY <1>1, QuietInvariant, PTL DEF Spec, StoppedIsQuiet

-----------------------------------------------------------------------------
(* Reservations: the identities, positions and places that are taken are   *)
(* those of the calls in progress.                                         *)

In(calls, pcs) == {d \in Callers : calls[d].pc \in pcs}

Img(g, A) == {g[d] : d \in A}

Distinct(g, A) == \A d, e \in A : d # e => g[d] # g[e]

\* What is held is what the calls within pcs hold, each something of its own.
Tracks(calls, pcs, g, held) == held = Img(g, In(calls, pcs)) /\ Distinct(g, In(calls, pcs))

LEMMA TrackedCount ==
  ASSUME NEW g, NEW A, IsFiniteSet(A), Distinct(g, A)
  PROVE  Cardinality(Img(g, A)) = Cardinality(A)
<1> DEFINE h == [d \in A |-> g[d]]
<1>1. h \in Bijection(A, Img(g, A))
  <2>1. h \in [A -> Img(g, A)]
    BY DEF Img
  <2>2. \A d, e \in A : h[d] = h[e] => d = e
    BY DEF Distinct
  <2>3. \A y \in Img(g, A) : \E d \in A : h[d] = y
    BY DEF Img
  <2> HIDE DEF h
  <2> QED BY <2>1, <2>2, <2>3 DEF Bijection, Injection, Surjection, IsInjective
<1> HIDE DEF h
<1>2. ExistsBijection(A, Img(g, A))
  BY <1>1 DEF ExistsBijection
<1> QED BY <1>2, FS_Bijection

\* One call moves: it keeps, takes or gives back what it holds.
LEMMA TracksMove ==
  ASSUME NEW calls \in [Callers -> CallRecords], NEW c \in Callers, NEW r, NEW pcs, NEW g, NEW h, NEW held,
         Tracks(calls, pcs, g, held), \A d \in Callers \ {c} : h[d] = g[d]
  PROVE  LET moved == [calls EXCEPT ![c] = r] IN
         /\ calls[c].pc \in pcs /\ r.pc \in pcs /\ h[c] = g[c] => Tracks(moved, pcs, h, held)
         /\ calls[c].pc \notin pcs /\ r.pc \notin pcs => Tracks(moved, pcs, h, held)
         /\ calls[c].pc \notin pcs /\ r.pc \in pcs /\ h[c] \notin held => Tracks(moved, pcs, h, held \cup {h[c]})
         /\ calls[c].pc \in pcs /\ r.pc \notin pcs => Tracks(moved, pcs, h, held \ {g[c]})
<1> DEFINE moved == [calls EXCEPT ![c] = r]
           A == In(calls, pcs)
           B == In(moved, pcs)
<1>1. B = IF r.pc \in pcs THEN A \cup {c} ELSE A \ {c}
  BY DEF In
<1>2. (c \in A <=> calls[c].pc \in pcs) /\ A \subseteq Callers
  BY DEF In
<1>3. held = Img(g, A) /\ Distinct(g, A)
  BY DEF Tracks
<1> HIDE DEF A, B
<1>4. ASSUME c \in A, r.pc \in pcs, h[c] = g[c] PROVE held = Img(h, B) /\ Distinct(h, B)
  <2>1. B = A /\ \A d \in A : h[d] = g[d]
    BY <1>1, <1>2, <1>4
  <2> QED BY <1>3, <2>1 DEF Img, Distinct
<1>5. ASSUME c \notin A, r.pc \notin pcs PROVE held = Img(h, B) /\ Distinct(h, B)
  <2>1. B = A /\ \A d \in A : h[d] = g[d]
    BY <1>1, <1>2, <1>5
  <2> QED BY <1>3, <2>1 DEF Img, Distinct
<1>6. ASSUME c \notin A, r.pc \in pcs, h[c] \notin held PROVE held \cup {h[c]} = Img(h, B) /\ Distinct(h, B)
  <2>1. B = A \cup {c} /\ \A d \in A : h[d] = g[d]
    BY <1>1, <1>2, <1>6
  <2> QED BY <1>3, <1>6, <2>1 DEF Img, Distinct
<1>7. ASSUME c \in A, r.pc \notin pcs PROVE held \ {g[c]} = Img(h, B) /\ Distinct(h, B)
  <2>1. B = A \ {c} /\ \A d \in B : h[d] = g[d]
    BY <1>1, <1>2, <1>7
  <2> QED BY <1>3, <1>7, <2>1 DEF Img, Distinct
<1> QED BY <1>2, <1>4, <1>5, <1>6, <1>7 DEF Tracks, A, B

\* The number of calls within pcs was n and is m.
Shifts(before, after, pcs, n, m) ==
  /\ before \in pcs /\ after \notin pcs => m = n - 1
  /\ before \notin pcs /\ after \in pcs => m = n + 1
  /\ (before \in pcs <=> after \in pcs) => m = n

LEMMA CountMoves ==
  ASSUME NEW calls \in [Callers -> CallRecords], NEW c \in Callers, NEW r, NEW pcs, IsFiniteSet(In(calls, pcs))
  PROVE  /\ IsFiniteSet(In([calls EXCEPT ![c] = r], pcs))
         /\ Shifts(calls[c].pc, r.pc, pcs, Cardinality(In(calls, pcs)), Cardinality(In([calls EXCEPT ![c] = r], pcs)))
<1> DEFINE A == In(calls, pcs)
           B == In([calls EXCEPT ![c] = r], pcs)
<1>1. B = IF r.pc \in pcs THEN A \cup {c} ELSE A \ {c}
  BY DEF In
<1>2. c \in A <=> calls[c].pc \in pcs
  BY DEF In
<1> HIDE DEF A, B
<1>3. IsFiniteSet(A)
  BY DEF A
<1>4. Cardinality(A) \in Nat
  BY <1>3, FS_CardinalityType
<1>5. /\ IsFiniteSet(A \cup {c})
      /\ Cardinality(A \cup {c}) = IF c \in A THEN Cardinality(A) ELSE Cardinality(A) + 1
  BY <1>3, FS_AddElement
<1>6. /\ IsFiniteSet(A \ {c})
      /\ Cardinality(A \ {c}) = IF c \in A THEN Cardinality(A) - 1 ELSE Cardinality(A)
  BY <1>3, FS_RemoveElement
<1>7. /\ IsFiniteSet(B)
      /\ c \in A /\ r.pc \notin pcs => Cardinality(B) = Cardinality(A) - 1
      /\ c \notin A /\ r.pc \in pcs => Cardinality(B) = Cardinality(A) + 1
      /\ (c \in A <=> r.pc \in pcs) => Cardinality(B) = Cardinality(A)
  BY <1>1, <1>5, <1>6
<1> QED BY <1>2, <1>4, <1>7 DEF A, B, Shifts
Ids == [d \in Callers |-> IngestionID(d)]
Places == [d \in Callers |-> Offered(d).position]

\* The reservations are those of the calls in progress, and two calls share none.
Reserves ==
  /\ IsFiniteSet(In(call, Active)) /\ IsFiniteSet(In(call, Inside))
  /\ Tracks(call, Active, Ids, running)
  /\ Tracks(call, Locked, Places, busy)
  /\ slots = Cardinality(In(call, Inside))

\* The call of c goes to the given place; inside, it keeps its fill and its source.
Moves(c, to) ==
  \E r : /\ call' = [call EXCEPT ![c] = r]
         /\ r.pc = to
         /\ to \in Active => r.fill = call[c].fill /\ r.source = call[c].source

\* What a move between two places does to the reservations of c.
Settles(c, to) ==
  /\ \/ (call[c].pc \in Active <=> to \in Active) /\ running' = running
     \/ /\ call[c].pc \notin Active /\ to \in Active
        /\ IngestionID(c) \notin running /\ running' = running \cup {IngestionID(c)}
     \/ call[c].pc \in Active /\ to \notin Active /\ running' = running \ {IngestionID(c)}
  /\ \/ (call[c].pc \in Locked <=> to \in Locked) /\ busy' = busy
     \/ /\ call[c].pc \notin Locked /\ to \in Locked
        /\ Offered(c).position \notin busy /\ busy' = busy \cup {Offered(c).position}
     \/ call[c].pc \in Locked /\ to \notin Locked /\ busy' = busy \ {Offered(c).position}
  /\ \/ (call[c].pc \in Inside <=> to \in Inside) /\ slots' = slots
     \/ call[c].pc \notin Inside /\ to \in Inside /\ slots' = slots + 1
     \/ call[c].pc \in Inside /\ to \notin Inside /\ slots' = slots - 1

LEMMA ReservesMove ==
  ASSUME BooksInv, Reserves, NEW c \in Callers, NEW to, Moves(c, to), Settles(c, to)
  PROVE  Reserves'
<1>1. call \in [Callers -> CallRecords]
  BY DEF BooksInv
<1>2. PICK r : /\ call' = [call EXCEPT ![c] = r]
               /\ r.pc = to
               /\ to \in Active => r.fill = call[c].fill /\ r.source = call[c].source
  BY DEF Moves
<1>3. PICK ids : ids = Ids'
  OBVIOUS
<1>4. PICK places : places = Places'
  OBVIOUS
<1>5. /\ \A d \in Callers \ {c} : ids[d] = Ids[d] /\ places[d] = Places[d]
      /\ to \in Active => ids[c] = Ids[c] /\ places[c] = Places[c]
  BY <1>1, <1>2, <1>3, <1>4 DEF Ids, Places, IngestionID, Offered
<1>6. Ids[c] = IngestionID(c) /\ Places[c] = Offered(c).position /\ Locked \subseteq Active
  BY DEF Ids, Places, Active, Inside
<1>7. Tracks(call', Active, ids, running')
  <2>1. Tracks(call, Active, Ids, running)
    BY DEF Reserves
  <2>2. /\ call[c].pc \in Active /\ to \in Active => Tracks(call', Active, ids, running)
        /\ call[c].pc \notin Active /\ to \notin Active => Tracks(call', Active, ids, running)
        /\ call[c].pc \notin Active /\ to \in Active /\ Ids[c] \notin running =>
             Tracks(call', Active, ids, running \cup {Ids[c]})
        /\ call[c].pc \in Active /\ to \notin Active => Tracks(call', Active, ids, running \ {Ids[c]})
    <3>1. /\ call[c].pc \in Active /\ r.pc \in Active /\ ids[c] = Ids[c] => Tracks([call EXCEPT ![c] = r], Active, ids, running)
          /\ call[c].pc \notin Active /\ r.pc \notin Active => Tracks([call EXCEPT ![c] = r], Active, ids, running)
          /\ call[c].pc \notin Active /\ r.pc \in Active /\ ids[c] \notin running =>
               Tracks([call EXCEPT ![c] = r], Active, ids, running \cup {ids[c]})
          /\ call[c].pc \in Active /\ r.pc \notin Active => Tracks([call EXCEPT ![c] = r], Active, ids, running \ {Ids[c]})
      BY <1>1, <1>5, <2>1, TracksMove, Zenon
    <3> QED BY <1>2, <1>5, <1>6, <3>1, Zenon
  <2> QED BY <1>6, <2>2 DEF Settles
<1>8. Tracks(call', Locked, places, busy')
  <2>1. Tracks(call, Locked, Places, busy)
    BY DEF Reserves
  <2>2. /\ call[c].pc \in Locked /\ to \in Locked => Tracks(call', Locked, places, busy)
        /\ call[c].pc \notin Locked /\ to \notin Locked => Tracks(call', Locked, places, busy)
        /\ call[c].pc \notin Locked /\ to \in Locked /\ Places[c] \notin busy =>
             Tracks(call', Locked, places, busy \cup {Places[c]})
        /\ call[c].pc \in Locked /\ to \notin Locked => Tracks(call', Locked, places, busy \ {Places[c]})
    <3>1. /\ call[c].pc \in Locked /\ r.pc \in Locked /\ places[c] = Places[c] => Tracks([call EXCEPT ![c] = r], Locked, places, busy)
          /\ call[c].pc \notin Locked /\ r.pc \notin Locked => Tracks([call EXCEPT ![c] = r], Locked, places, busy)
          /\ call[c].pc \notin Locked /\ r.pc \in Locked /\ places[c] \notin busy =>
               Tracks([call EXCEPT ![c] = r], Locked, places, busy \cup {places[c]})
          /\ call[c].pc \in Locked /\ r.pc \notin Locked => Tracks([call EXCEPT ![c] = r], Locked, places, busy \ {Places[c]})
      BY <1>1, <1>5, <2>1, TracksMove, Zenon
    <3> QED BY <1>2, <1>5, <1>6, <3>1, Zenon
  <2> QED BY <1>6, <2>2 DEF Settles
<1>9. IsFiniteSet(In(call', Active)) /\ IsFiniteSet(In(call', Inside)) /\ slots' = Cardinality(In(call', Inside))
  <2>1. IsFiniteSet(In(call, Active)) /\ IsFiniteSet(In(call, Inside)) /\ slots = Cardinality(In(call, Inside))
    BY DEF Reserves
  <2>2. IsFiniteSet(In(call', Active))
    BY <1>1, <1>2, <2>1, CountMoves
  <2>3. /\ IsFiniteSet(In(call', Inside))
        /\ call[c].pc \in Inside /\ to \notin Inside => Cardinality(In(call', Inside)) = slots - 1
        /\ call[c].pc \notin Inside /\ to \in Inside => Cardinality(In(call', Inside)) = slots + 1
        /\ (call[c].pc \in Inside <=> to \in Inside) => Cardinality(In(call', Inside)) = slots
    <3>1. /\ IsFiniteSet(In([call EXCEPT ![c] = r], Inside))
          /\ Shifts(call[c].pc, r.pc, Inside, Cardinality(In(call, Inside)),
                    Cardinality(In([call EXCEPT ![c] = r], Inside)))
      BY <1>1, <2>1, CountMoves, Zenon
    <3>2. IsFiniteSet(In(call', Inside)) /\ Shifts(call[c].pc, to, Inside, slots, Cardinality(In(call', Inside)))
      BY <1>2, <2>1, <3>1, Zenon
    <3> QED BY <3>2, Zenon DEF Shifts
  <2> QED BY <2>2, <2>3 DEF Settles
<1> QED BY <1>3, <1>4, <1>7, <1>8, <1>9 DEF Reserves

LEMMA Leads ==
  ASSUME NEW c \in Callers
  PROVE  /\ \A pc, next, answer : Move(c, pc, next, answer) => Moves(c, pc)
         /\ \A pc : Goto(c, pc) => Moves(c, pc)
         /\ \A pc, answer : Answer(c, answer, pc) => Moves(c, pc)
         /\ Return(c) => Moves(c, "idle")
<1>1. ASSUME NEW pc, NEW next, NEW answer, Move(c, pc, next, answer) PROVE Moves(c, pc)
  <2> DEFINE r == [pc |-> pc, fill |-> call[c].fill, source |-> call[c].source, next |-> next, answer |-> answer]
  <2>1. call' = [call EXCEPT ![c] = r] /\ r.pc = pc /\ r.fill = call[c].fill /\ r.source = call[c].source
    BY <1>1 DEF Move
  <2> HIDE DEF r
  <2> QED BY <2>1 DEF Moves
<1>2. ASSUME Return(c) PROVE Moves(c, "idle")
  <2>1. call' = [call EXCEPT ![c] = Idle] /\ Idle.pc = "idle" /\ "idle" \notin Active
    BY <1>2 DEF Return, Idle, Active, Inside, Locked
  <2> QED BY <2>1 DEF Moves
<1> QED BY <1>1, <1>2 DEF Goto, Answer

LEMMA StepReserves ==
  ASSUME BooksInv, Reserves, NEW c \in Callers, Step(c)
  PROVE  Reserves'
<1> USE DEF Active, Inside, Locked
<1>1. CASE reserve(c)
  <2>1. Moves(c, "admit")
    BY <1>1, Leads DEF reserve
  <2>2. Settles(c, "admit")
    BY <1>1 DEF reserve, Accepts, At, Settles
  <2> QED BY <2>1, <2>2, ReservesMove
<1>2. CASE ReserveRefused(c)
  <2>1. Moves(c, "idle")
    BY <1>2, Leads DEF ReserveRefused
  <2>2. Settles(c, "idle")
    BY <1>2 DEF ReserveRefused, At, Settles
  <2> QED BY <2>1, <2>2, ReservesMove
<1>3. CASE Admit(c)
  <2>1. Moves(c, "lookup")
    BY <1>3, Leads DEF Admit
  <2>2. Settles(c, "lookup")
    BY <1>3 DEF Admit, At, Settles
  <2> QED BY <2>1, <2>2, ReservesMove
<1>4. CASE AdmitCancelled(c) \/ Leave(c)
  <2>1. Moves(c, "release")
    BY <1>4, Leads DEF AdmitCancelled, Leave
  <2>2. Settles(c, "release")
    BY <1>4 DEF AdmitCancelled, Leave, At, Settles
  <2> QED BY <2>1, <2>2, ReservesMove
<1>5. CASE CallFails(c)
  <2>1. PICK to \in {"leave", "unlock"} :
          /\ Moves(c, to)
          /\ call[c].pc \in IF to = "leave" THEN {"lookup", "lock"} ELSE {"read", "publish"}
    BY <1>5, Leads DEF CallFails
  <2>2. Settles(c, to)
    BY <1>5, <2>1 DEF CallFails, Settles
  <2> QED BY <2>1, <2>2, ReservesMove
<1>6. CASE Lookup(c)
  <2>1. PICK to \in {"leave", "lock"} : Moves(c, to)
    BY <1>6, Leads DEF Lookup
  <2>2. Settles(c, to)
    BY <1>6 DEF Lookup, At, Settles
  <2> QED BY <2>1, <2>2, ReservesMove
<1>7. CASE Lock(c)
  <2>1. PICK to \in {"leave", "read"} :
          /\ Moves(c, to)
          /\ IF to = "leave" THEN busy' = busy
             ELSE Offered(c).position \notin busy /\ busy' = busy \cup {Offered(c).position}
    BY <1>7, Leads DEF Lock
  <2>2. Settles(c, to)
    BY <1>7, <2>1 DEF Lock, At, Settles
  <2> QED BY <2>1, <2>2, ReservesMove
<1>8. CASE Read(c)
  <2>1. Moves(c, "publish")
    BY <1>8, Leads DEF Read
  <2>2. Settles(c, "publish")
    BY <1>8 DEF Read, At, Settles
  <2> QED BY <2>1, <2>2, ReservesMove
<1>9. CASE ReadRefused(c) \/ PublishPosition(c) \/ PublicationRefused(c)
  <2>1. Moves(c, "unlock")
    BY <1>9, Leads DEF ReadRefused, PublishPosition, PublicationRefused
  <2>2. Settles(c, "unlock")
    BY <1>9 DEF ReadRefused, PublishPosition, PublicationRefused, At, Settles
  <2> QED BY <2>1, <2>2, ReservesMove
<1>10. CASE Unlock(c)
  <2>1. Moves(c, "leave")
    BY <1>10, Leads DEF Unlock
  <2>2. Settles(c, "leave")
    BY <1>10 DEF Unlock, At, Settles
  <2> QED BY <2>1, <2>2, ReservesMove
<1>11. CASE release(c)
  <2>1. Moves(c, "idle")
    BY <1>11, Leads DEF release
  <2>2. Settles(c, "idle")
    BY <1>11 DEF release, At, Settles
  <2> QED BY <2>1, <2>2, ReservesMove
<1> QED
  BY <1>1, <1>2, <1>3, <1>4, <1>5, <1>6, <1>7, <1>8, <1>9, <1>10, <1>11 DEF Step

LEMMA NobodyReserves ==
  ASSUME NEW calls, \A c \in Callers : calls[c].pc = "idle"
  PROVE  /\ In(calls, Active) = {} /\ In(calls, Inside) = {} /\ In(calls, Locked) = {}
         /\ IsFiniteSet({}) /\ Cardinality({}) = 0
         /\ \A g : Tracks(calls, Active, g, {}) /\ Tracks(calls, Locked, g, {})
<1>1. In(calls, Active) = {} /\ In(calls, Inside) = {} /\ In(calls, Locked) = {}
  BY DEF In, Active, Inside, Locked
<1>2. \A g : Tracks(calls, Active, g, {}) /\ Tracks(calls, Locked, g, {})
  BY <1>1 DEF Tracks, Img, Distinct
<1> QED BY <1>1, <1>2, FS_EmptySet

LEMMA ReservesStep ==
  ASSUME BooksInv, Reserves, [Next]_vars
  PROVE  Reserves'
<1>1. ASSUME NEW c \in Callers, NEW f \in FillIDs, NEW source \in Sources, Ingest(c, f, source) PROVE Reserves'
  <2> DEFINE r == [pc |-> "reserve", fill |-> f, source |-> source, next |-> NoPosition, answer |-> None]
  <2>1. call' = [call EXCEPT ![c] = r] /\ r.pc = "reserve" /\ "reserve" \notin Active
    BY <1>1 DEF Ingest, Active, Inside, Locked
  <2> HIDE DEF r
  <2>2. Moves(c, "reserve")
    BY <2>1 DEF Moves
  <2>3. Settles(c, "reserve")
    BY <1>1 DEF Ingest, Settles, At, Active, Inside, Locked
  <2> QED BY <2>2, <2>3, ReservesMove
<1>2. CASE Shutdown \/ ShutdownDone \/ Export \/ UNCHANGED vars
  <2>1. UNCHANGED <<call, running, busy, slots>>
    BY <1>2 DEF Shutdown, ShutdownDone, Export, vars
  <2>2. UNCHANGED <<Ids, Places>>
    BY <2>1 DEF Ids, Places, IngestionID, Offered
  <2> QED BY <2>1, <2>2 DEF Reserves
<1>3. CASE Restart
  <2>1. call' = [c \in Callers |-> Idle] /\ running' = {} /\ busy' = {} /\ slots' = 0
    BY <1>3 DEF Restart
  <2>2. \A c \in Callers : call'[c].pc = "idle"
    BY <2>1 DEF Idle
  <2> QED BY <2>1, <2>2, NobodyReserves DEF Reserves
<1> QED
  BY <1>1, <1>2, <1>3, StepReserves DEF Next

LEMMA InitReserves == Init => Reserves
<1> SUFFICES ASSUME Init PROVE Reserves
  OBVIOUS
<1>1. running = {} /\ busy = {} /\ slots = 0 /\ \A c \in Callers : call[c].pc = "idle"
  BY DEF Init, Idle
<1> QED BY <1>1, NobodyReserves DEF Reserves
-----------------------------------------------------------------------------
(* Evidence: what is quarantined is behind its position for good, and what *)
(* is answered is in the store.                                            *)

Entries == [FillIDs -> Sources \cup {None}]

Undecided == {"lock", "read", "publish"}

Successes == {"COMMITTED", "IDEMPOTENT_REPLAY"}

Behind(f, positions) == OutOfOrder(positions[Fill[f].position], Fill[f])

\* A quarantined identity is behind the position, so that no ingestion can apply it.
Quarantine ==
  \A q \in quarantines : Behind(q[1], current) /\ ingested[q[1]] # q[2]

Evidence ==
  /\ ingested \in Entries /\ exported.ingested \in Entries
  /\ quarantines \subseteq FillIDs \X Sources
  /\ \A c \in Callers :
       /\ call[c].pc # "idle" => call[c].source \in Sources
       /\ call[c].pc \in Undecided => ingested[call[c].fill] # call[c].source
       /\ call[c].answer \in Successes => call[c].pc # "idle" /\ ingested[call[c].fill] = call[c].source
  /\ Quarantine

\* A step that leaves the store alone and moves one call.
LEMMA EvidenceMoves ==
  ASSUME BooksInv, Evidence, UNCHANGED <<storeVars, exported>>,
         NEW c \in Callers, NEW r, call' = [call EXCEPT ![c] = r],
         r.pc # "idle" => r.source \in Sources,
         r.pc \in Undecided => ingested[r.fill] # r.source,
         r.answer \in Successes => r.pc # "idle" /\ ingested[r.fill] = r.source,
         quarantines' \subseteq FillIDs \X Sources,
         \A q \in quarantines' \ quarantines : Behind(q[1], current) /\ ingested[q[1]] # q[2]
  PROVE  Evidence'
<1>1. call \in [Callers -> CallRecords]
  BY DEF BooksInv
<1>2. UNCHANGED <<ingested, current, exported>>
  BY DEF storeVars
<1>3. \A d \in Callers : call'[d] = IF d = c THEN r ELSE call[d]
  BY <1>1
<1>4. ASSUME NEW d \in Callers
      PROVE  /\ call'[d].pc # "idle" => call'[d].source \in Sources
             /\ call'[d].pc \in Undecided => ingested[call'[d].fill] # call'[d].source
             /\ call'[d].answer \in Successes => call'[d].pc # "idle" /\ ingested[call'[d].fill] = call'[d].source
  <2>1. CASE d = c
    BY <1>3, <2>1
  <2>2. CASE d # c
    <3>1. call'[d] = call[d]
      BY <1>3, <2>2
    <3> QED BY <3>1 DEF Evidence
  <2> QED BY <2>1, <2>2
<1>5. \A q \in quarantines' : Behind(q[1], current) /\ ingested[q[1]] # q[2]
  BY DEF Evidence, Quarantine
<1> QED BY <1>2, <1>4, <1>5 DEF Evidence, Quarantine, Behind

\* One call moves and keeps its fill and source, or returns.
LEMMA EvidenceKept ==
  ASSUME BooksInv, Evidence, UNCHANGED <<storeVars, exported, quarantines>>,
         NEW c \in Callers, call[c].pc # "idle", NEW pc, NEW next, NEW answer, Move(c, pc, next, answer),
         pc \in Undecided => ingested[call[c].fill] # call[c].source,
         answer \in Successes => pc # "idle" /\ ingested[call[c].fill] = call[c].source
  PROVE  Evidence'
<1> DEFINE r == [pc |-> pc, fill |-> call[c].fill, source |-> call[c].source, next |-> next, answer |-> answer]
<1>1. /\ call' = [call EXCEPT ![c] = r]
      /\ r.pc = pc /\ r.fill = call[c].fill /\ r.source = call[c].source /\ r.answer = answer
  BY DEF Move
<1> HIDE DEF r
<1>2. r.source \in Sources
  BY <1>1 DEF Evidence
<1>3. quarantines' \subseteq FillIDs \X Sources /\ quarantines' \ quarantines = {}
  BY DEF Evidence
<1> QED BY <1>1, <1>2, <1>3, EvidenceMoves

LEMMA EvidenceReturn ==
  ASSUME BooksInv, Evidence, UNCHANGED <<storeVars, exported, quarantines>>, NEW c \in Callers, Return(c)
  PROVE  Evidence'
<1>1. call' = [call EXCEPT ![c] = Idle] /\ Idle.pc = "idle" /\ Idle.answer \notin Successes /\ "idle" \notin Undecided
  BY DEF Return, Idle, Successes, Undecided, None
<1>2. quarantines' \subseteq FillIDs \X Sources /\ quarantines' \ quarantines = {}
  BY DEF Evidence
<1> QED BY <1>1, <1>2, EvidenceMoves

\* A fill that is applied is after the last one: what was behind stays behind.
LEMMA BehindStays ==
  ASSUME BooksInv, NEW f \in FillIDs, NEW g \in FillIDs,
         Applies(current[Fill[f].position], Fill[f]), Behind(g, current),
         NEW next, next = Applied(current[Fill[f].position], Fill[f])
  PROVE  g # f /\ Behind(g, [current EXCEPT ![Fill[f].position] = next])
<1>1. Fill[f] \in Fills /\ Fill[g] \in Fills
  BY FillAssumption DEF Fills
<1>2. Fill[f].position \in Positions /\ Fill[g].position \in Positions /\ current \in [Positions -> PositionRecords]
  BY <1>1 DEF Fills, BooksInv
<1>3. g # f
  BY DEF Applies, Behind
<1>4. CASE Fill[g].position # Fill[f].position
  BY <1>2, <1>3, <1>4 DEF Behind
<1>5. CASE Fill[g].position = Fill[f].position
  <2> DEFINE p == current[Fill[f].position]
  <2>1. p \in PositionRecords
    BY <1>2
  <2>2. p.revision \in Nat /\ p.last \in [at : Nat, id : Nat]
    BY <2>1 DEF PositionRecords
  <2>3. p.revision > 0 /\ ~Precedes(p.last, OrderingKey(Fill[g])) /\ ~OutOfOrder(p, Fill[f])
    BY <1>5 DEF Behind, OutOfOrder, Applies
  <2>4. Precedes(p.last, OrderingKey(Fill[f]))
    BY <2>3 DEF OutOfOrder
  <2>5. OrderingKey(Fill[f]) \in [at : Nat, id : Nat] /\ OrderingKey(Fill[g]) \in [at : Nat, id : Nat]
    <3>1. FillIDs \subseteq Nat
      BY FillAssumption
    <3> QED BY <1>1, <3>1 DEF OrderingKey, Fills
  <2>6. ~Precedes(OrderingKey(Fill[f]), OrderingKey(Fill[g]))
    <3>1. \A a, b, d \in [at : Nat, id : Nat] : Precedes(a, b) /\ Precedes(b, d) => Precedes(a, d)
      BY DEF Precedes
    <3> QED BY <2>2, <2>3, <2>4, <2>5, <3>1
  <2>7. next.last = OrderingKey(Fill[f]) /\ next.revision = p.revision + 1
    BY DEF Applied
  <2>8. OutOfOrder(next, Fill[g])
    BY <2>2, <2>6, <2>7 DEF OutOfOrder
  <2>9. [current EXCEPT ![Fill[f].position] = next][Fill[g].position] = next
    BY <1>2, <1>5
  <2> QED BY <1>3, <2>8, <2>9 DEF Behind
<1> QED BY <1>4, <1>5

\* A publication is of a fill that nobody applied, from a place nobody else reads it from.
LEMMA PublicationEvidence ==
  ASSUME BooksInv, Reserves, Evidence, NEW c \in Callers, PublishPosition(c)
  PROVE  Evidence'
<1> DEFINE f == call[c].fill
           s == call[c].source
           r == [pc |-> "unlock", fill |-> f, source |-> s, next |-> NoPosition, answer |-> "COMMITTED"]
<1>1. call \in [Callers -> CallRecords] /\ call[c].pc = "publish"
  BY DEF BooksInv, PublishPosition, At
<1>2. f \in FillIDs /\ s \in Sources /\ ingested \in Entries
  BY <1>1 DEF BooksInv, Evidence
<1>3. ingested[f] = None /\ None \notin Sources
  BY <1>2, FillAssumption DEF PublishPosition, Commits, Stored, None
<1>4. /\ ingested' = [ingested EXCEPT ![f] = s]
      /\ current' = [current EXCEPT ![Fill[f].position] = call[c].next]
      /\ exported' = exported /\ quarantines' = quarantines
      /\ call' = [call EXCEPT ![c] = r]
  BY DEF PublishPosition, Answer, Move, Offered
<1>5. r.pc = "unlock" /\ r.fill = f /\ r.source = s
  OBVIOUS
<1>6. Applies(current[Fill[f].position], Fill[f]) /\ call[c].next = Applied(current[Fill[f].position], Fill[f])
  BY DEF PublishPosition, Commits, Unmoved, Offered
<1> HIDE DEF f, s, r
<1>7. ingested' \in Entries
  BY <1>2, <1>4 DEF Entries
<1>8. \A d \in Callers : call'[d] = IF d = c THEN r ELSE call[d]
  BY <1>1, <1>4
<1>9. \A g \in FillIDs : ingested'[g] = IF g = f THEN s ELSE ingested[g]
  BY <1>2, <1>4 DEF Entries
<1>10. ASSUME NEW d \in Callers
       PROVE  /\ call'[d].pc # "idle" => call'[d].source \in Sources
              /\ call'[d].pc \in Undecided => ingested'[call'[d].fill] # call'[d].source
              /\ call'[d].answer \in Successes => call'[d].pc # "idle" /\ ingested'[call'[d].fill] = call'[d].source
  <2>1. CASE d = c
    BY <1>2, <1>5, <1>8, <1>9, <2>1 DEF Undecided
  <2>2. CASE d # c
    <3>1. call'[d] = call[d]
      BY <1>8, <2>2
    <3>2. call[d].pc # "idle" => call[d].source \in Sources /\ call[d].fill \in FillIDs
      BY DEF Evidence, BooksInv
    <3>3. ASSUME call[d].pc \in Undecided PROVE ingested'[call[d].fill] # call[d].source
      <4>1. call[d].pc # "idle" /\ call[d].pc \in Active /\ call[c].pc \in Active
        BY <1>1, <3>3 DEF Undecided, Active, Inside, Locked
      <4>2. Ids[d] # Ids[c]
        BY <2>2, <4>1 DEF Reserves, Tracks, Distinct, In
      <4>3. ~(call[d].fill = f /\ call[d].source = s)
        BY <4>2 DEF Ids, IngestionID, f, s
      <4>4. ingested[call[d].fill] # call[d].source
        BY <3>3 DEF Evidence
      <4> QED BY <1>9, <3>2, <4>1, <4>3, <4>4
    <3>4. ASSUME call[d].answer \in Successes PROVE call[d].pc # "idle" /\ ingested'[call[d].fill] = call[d].source
      <4>1. call[d].pc # "idle" /\ ingested[call[d].fill] = call[d].source
        BY <3>4 DEF Evidence
      <4>2. call[d].fill # f
        BY <1>3, <3>2, <4>1
      <4> QED BY <1>9, <3>2, <4>1, <4>2
    <3> QED BY <3>1, <3>2, <3>3, <3>4
  <2> QED BY <2>1, <2>2
<1>11. ASSUME NEW q \in quarantines PROVE Behind(q[1], current') /\ ingested'[q[1]] # q[2]
  <2>1. q[1] \in FillIDs /\ Behind(q[1], current) /\ ingested[q[1]] # q[2]
    BY DEF Evidence, Quarantine
  <2>2. q[1] # f /\ Behind(q[1], current')
    BY <1>2, <1>4, <1>6, <2>1, BehindStays
  <2> QED BY <1>9, <2>1, <2>2
<1> QED BY <1>4, <1>7, <1>10, <1>11 DEF Evidence, Quarantine, Behind
LEMMA StepEvidence ==
  ASSUME BooksInv, Reserves, Evidence, NEW c \in Callers, Step(c)
  PROVE  Evidence'
<1>1. CASE PublishPosition(c)
  BY <1>1, PublicationEvidence
<1>2. CASE ReserveRefused(c) \/ release(c)
  BY <1>2, EvidenceReturn DEF ReserveRefused, release
<1>3. CASE reserve(c) \/ Admit(c) \/ Unlock(c) \/ Leave(c) \/ Read(c)
  <2>1. PICK pc, next, answer :
          /\ Move(c, pc, next, answer)
          /\ pc \in Undecided => call[c].pc \in Undecided
          /\ answer \in Successes => answer = call[c].answer /\ pc # "idle"
          /\ call[c].pc # "idle"
    BY <1>3 DEF reserve, Admit, Unlock, Leave, Read, Goto, At, Undecided, Successes, None
  <2>2. UNCHANGED <<storeVars, exported, quarantines>>
    BY <1>3 DEF reserve, Admit, Unlock, Leave, Read
  <2> QED BY <2>1, <2>2, EvidenceKept DEF Evidence
<1>4. CASE AdmitCancelled(c) \/ CallFails(c) \/ PublicationRefused(c)
  <2>1. PICK pc \in {"release", "leave", "unlock"} : Answer(c, "ERROR", pc) /\ call[c].pc # "idle"
    BY <1>4 DEF AdmitCancelled, CallFails, PublicationRefused, At
  <2>2. UNCHANGED <<storeVars, exported, quarantines>>
    BY <1>4 DEF AdmitCancelled, CallFails, PublicationRefused
  <2>3. "ERROR" \notin Successes /\ pc \notin Undecided /\ Move(c, pc, NoPosition, "ERROR")
    BY <2>1 DEF Successes, Undecided, Answer
  <2> QED BY <2>1, <2>2, <2>3, EvidenceKept
<1>5. CASE Lookup(c)
  <2>1. UNCHANGED <<storeVars, exported, quarantines>> /\ call[c].pc = "lookup"
    BY <1>5 DEF Lookup, At
  <2>2. call[c].fill \in FillIDs /\ call[c].source \in Sources /\ None \notin Sources
    BY <2>1, FillAssumption DEF BooksInv, Evidence, None
  <2>3. call[c].answer \in Successes => ingested[call[c].fill] = call[c].source
    BY DEF Evidence
  <2>4. CASE call[c].fill \notin Stored
    <3>1. ingested[call[c].fill] # call[c].source
      BY <2>2, <2>4 DEF Stored
    <3>2. Move(c, "lock", call[c].next, call[c].answer)
      BY <1>5, <2>4, <3>1 DEF Lookup, Goto
    <3> QED BY <2>1, <2>3, <3>1, <3>2, EvidenceKept
  <2>5. CASE call[c].fill \in Stored /\ ingested[call[c].fill] = call[c].source
    <3>1. Move(c, "leave", NoPosition, "IDEMPOTENT_REPLAY")
      BY <1>5, <2>5 DEF Lookup, Answer
    <3>2. "leave" \notin Undecided /\ "leave" # "idle" /\ call[c].pc # "idle"
      BY <2>1 DEF Undecided
    <3>3. "leave" \in Undecided => ingested[call[c].fill] # call[c].source
      BY <3>2
    <3>4. "IDEMPOTENT_REPLAY" \in Successes => "leave" # "idle" /\ ingested[call[c].fill] = call[c].source
      BY <2>5, <3>2
    <3> QED BY <2>1, <3>1, <3>2, <3>3, <3>4, EvidenceKept
  <2>6. CASE call[c].fill \in Stored /\ ingested[call[c].fill] # call[c].source
    <3>1. Move(c, "leave", NoPosition, "ERROR")
      BY <1>5, <2>6 DEF Lookup, Answer
    <3>2. "leave" \notin Undecided /\ "ERROR" \notin Successes
      BY DEF Undecided, Successes
    <3> QED BY <2>1, <3>1, <3>2, EvidenceKept
  <2> QED BY <2>4, <2>5, <2>6
<1>6. CASE Lock(c)
  <2>1. UNCHANGED <<storeVars, exported, quarantines>> /\ call[c].pc = "lock"
    BY <1>6 DEF Lock, At
  <2>2. \/ Move(c, "leave", NoPosition, "ERROR")
        \/ Move(c, "read", call[c].next, call[c].answer)
    BY <1>6 DEF Lock, Goto, Answer
  <2>3. "leave" \notin Undecided /\ "ERROR" \notin Successes /\ "lock" \in Undecided
    BY DEF Undecided, Successes
  <2>4. /\ call[c].answer \in Successes => ingested[call[c].fill] = call[c].source
        /\ ingested[call[c].fill] # call[c].source
    BY <2>1, <2>3 DEF Evidence
  <2>5. ASSUME Move(c, "leave", NoPosition, "ERROR") PROVE Evidence'
    BY <2>1, <2>3, <2>5, EvidenceKept
  <2>6. ASSUME Move(c, "read", call[c].next, call[c].answer) PROVE Evidence'
    BY <2>1, <2>4, <2>6, EvidenceKept
  <2> QED BY <2>2, <2>5, <2>6
<1>7. CASE ReadRefused(c)
  <2> DEFINE r == [pc |-> "unlock", fill |-> call[c].fill, source |-> call[c].source, next |-> NoPosition,
                   answer |-> "ERROR"]
  <2>1. UNCHANGED <<storeVars, exported>> /\ call[c].pc = "read"
    BY <1>7 DEF ReadRefused, At
  <2>2. call' = [call EXCEPT ![c] = r]
    BY <1>7 DEF ReadRefused, Answer, Move
  <2>3. r.pc \notin Undecided /\ r.answer \notin Successes /\ r.source = call[c].source
    BY DEF Undecided, Successes
  <2>4. /\ call[c].fill \in FillIDs /\ call[c].source \in Sources
        /\ ingested[call[c].fill] # call[c].source
    BY <2>1 DEF BooksInv, Evidence, Undecided
  <2>5. ASSUME NEW q \in quarantines' \ quarantines
        PROVE  q \in FillIDs \X Sources /\ Behind(q[1], current) /\ ingested[q[1]] # q[2]
    <3>1. q = <<call[c].fill, call[c].source>> /\ OutOfOrder(current[Offered(c).position], Offered(c))
      BY <1>7 DEF ReadRefused, IngestionID
    <3> QED BY <2>4, <3>1 DEF Behind, Offered
  <2>6. quarantines' \subseteq FillIDs \X Sources
    BY <2>5 DEF Evidence
  <2> HIDE DEF r
  <2> QED BY <2>1, <2>2, <2>3, <2>4, <2>5, <2>6, EvidenceMoves
<1> QED
  BY <1>1, <1>2, <1>3, <1>4, <1>5, <1>6, <1>7 DEF Step

LEMMA EvidenceStep ==
  ASSUME BooksInv, Reserves, Evidence, [Next]_vars
  PROVE  Evidence'
<1>1. ASSUME NEW c \in Callers, NEW f \in FillIDs, NEW source \in Sources, Ingest(c, f, source) PROVE Evidence'
  <2> DEFINE r == [pc |-> "reserve", fill |-> f, source |-> source, next |-> NoPosition, answer |-> None]
  <2>1. call' = [call EXCEPT ![c] = r] /\ UNCHANGED <<storeVars, exported, quarantines>>
    BY <1>1 DEF Ingest
  <2>2. r.pc \notin Undecided /\ r.answer \notin Successes /\ r.source \in Sources
    BY DEF Undecided, Successes, None
  <2>3. quarantines' \subseteq FillIDs \X Sources /\ quarantines' \ quarantines = {}
    BY <2>1 DEF Evidence
  <2> HIDE DEF r
  <2> QED BY <2>1, <2>2, <2>3, EvidenceMoves
<1>2. CASE Shutdown \/ ShutdownDone \/ UNCHANGED vars
  <2>1. UNCHANGED <<call, current, ingested, exported, quarantines>>
    BY <1>2 DEF Shutdown, ShutdownDone, vars, storeVars
  <2> QED BY <2>1 DEF Evidence, Quarantine, Behind
<1>3. CASE Export
  <2>1. UNCHANGED <<call, current, ingested, quarantines>> /\ exported'.ingested = ingested
    BY <1>3 DEF Export, storeVars, Store
  <2> QED BY <2>1 DEF Evidence, Quarantine, Behind
<1>4. CASE Restart
  <2>1. /\ call' = [c \in Callers |-> Idle] /\ ingested' = exported.ingested /\ exported' = exported
        /\ quarantines' = {}
    BY <1>4 DEF Restart
  <2>2. \A c \in Callers : call'[c].pc = "idle" /\ call'[c].answer \notin Successes /\ "idle" \notin Undecided
    BY <2>1 DEF Idle, Successes, Undecided, None
  <2> QED BY <2>1, <2>2 DEF Evidence, Quarantine
<1> QED
  BY <1>1, <1>2, <1>3, <1>4, StepEvidence DEF Next

LEMMA InitEvidence == Init => Evidence
<1> SUFFICES ASSUME Init PROVE Evidence
  OBVIOUS
<1>1. /\ ingested = [f \in FillIDs |-> None] /\ exported.ingested = ingested /\ quarantines = {}
      /\ \A c \in Callers : call[c].pc = "idle" /\ call[c].answer = None
  BY DEF Init, Store, Idle
<1>2. None \notin Successes /\ "idle" \notin Undecided
  BY DEF None, Successes, Undecided
<1> QED BY <1>1, <1>2 DEF Evidence, Quarantine, Entries

LEMMA EvidenceInvariant == Spec => [](Reserves /\ Evidence)
<1>1. Init => Reserves /\ Evidence
  BY InitReserves, InitEvidence
<1>2. BooksInv /\ Reserves /\ Evidence /\ [Next]_vars => Reserves' /\ Evidence'
  BY ReservesStep, EvidenceStep
<1> QED
  BY <1>1, <1>2, BooksInvariant, PTL DEF Spec

\* Reservations, evidence and answers agree with the books for any callers, fills and
\* restarts (Ingest, quarantine, release): no error path leaks an identity, a position or a
\* place, what an ingestion applied is never reported as a predecessor, and a success is told
\* only of a fill that is in the books from this very source.
THEOREM EvidenceAgrees == Spec => []IngestionInv
<1>1. BooksInv /\ Reserves /\ Evidence => IngestionInv
  <2> SUFFICES ASSUME BooksInv, Reserves, Evidence PROVE IngestionInv
    OBVIOUS
  <2>1. {IngestionID(c) : c \in {c \in Callers : call[c].pc \in Active}} = Img(Ids, In(call, Active))
    BY DEF Img, Ids, In
  <2>2. {Offered(c).position : c \in {c \in Callers : call[c].pc \in Locked}} = Img(Places, In(call, Locked))
    BY DEF Img, Places, In
  <2>3. IsFiniteSet(In(call, Locked))
    <3>1. In(call, Locked) \in SUBSET In(call, Active)
      BY DEF In, Active, Inside
    <3> QED BY <3>1, FS_Subset DEF Reserves
  <2>4. Cardinality(running) = Cardinality(In(call, Active)) /\ Cardinality(busy) = Cardinality(In(call, Locked))
    BY <2>3, TrackedCount DEF Reserves, Tracks
  <2>5. TypeOK
    BY <2>1, <2>2, <2>4 DEF TypeOK, Reserves, Tracks, Evidence, In
  <2>6. QuarantinedIsAbsent
    BY DEF QuarantinedIsAbsent, Evidence, Quarantine
  <2>7. AnswerIsTrue
    BY DEF AnswerIsTrue, Evidence, Successes
  <2> QED BY <2>5, <2>6, <2>7 DEF IngestionInv
<1> QED
  BY <1>1, EvidenceInvariant, BooksInvariant, PTL

-----------------------------------------------------------------------------
(* Replay: every position is what its applied fills give, in their order.  *)

\* g is the history of the position along the fills fs.
IsReplay(g, fs) ==
  g = [n \in 0..Len(fs) |-> IF n = 0 THEN NoPosition ELSE Applied(g[n - 1], Fill[fs[n]])]

\* There is only one history, the one Replay computes.
LEMMA ReplayIs ==
  ASSUME NEW fs \in Seq(FillIDs), NEW g, IsReplay(g, fs)
  PROVE  Replay(fs) = g[Len(fs)]
<1> DEFINE h == CHOOSE h : IsReplay(h, fs)
           N == Len(fs)
           G == {n \in 0..N : h[n] = g[n]}
<1>1. Replay(fs) = h[Len(fs)]
  BY DEF Replay, IsReplay
<1>2. IsReplay(h, fs)
  OBVIOUS
<1>3. N \in Nat
  BY LenProperties
<1> HIDE DEF h
<1>4. \A n \in 0..N : /\ h[n] = IF n = 0 THEN NoPosition ELSE Applied(h[n - 1], Fill[fs[n]])
                      /\ g[n] = IF n = 0 THEN NoPosition ELSE Applied(g[n - 1], Fill[fs[n]])
  BY <1>2, Zenon DEF IsReplay
<1> HIDE DEF N
<1>5. 0 \in G
  BY <1>3, <1>4
<1>6. ASSUME NEW n \in 0..(N - 1), n \in G PROVE n + 1 \in G
  <2>1. n + 1 \in 0..N /\ n + 1 # 0 /\ (n + 1) - 1 = n
    BY <1>3
  <2>2. h[n + 1] = Applied(h[n], Fill[fs[n + 1]]) /\ g[n + 1] = Applied(g[n], Fill[fs[n + 1]])
    BY <1>4, <2>1
  <2> QED BY <1>6, <2>1, <2>2
<1> HIDE DEF G
<1>7. \A n \in 0..N : n \in G
  BY <1>3, <1>5, <1>6, Induction
<1>8. N \in 0..N
  BY <1>3
<1> QED BY <1>1, <1>7, <1>8 DEF G, N

\* One more fill continues the history.
LEMMA ReplayContinues ==
  ASSUME NEW fs \in Seq(FillIDs), NEW f \in FillIDs, NEW g, IsReplay(g, fs)
  PROVE  \E h : IsReplay(h, Append(fs, f)) /\ h[Len(fs) + 1] = Applied(g[Len(fs)], Fill[f])
<1> DEFINE N == Len(fs)
           gs == Append(fs, f)
           next == Applied(g[N], Fill[f])
           h == [n \in 0..(N + 1) |-> IF n = N + 1 THEN next ELSE g[n]]
<1>1. /\ N \in Nat /\ Len(gs) = N + 1 /\ gs[N + 1] = f
      /\ \A i \in 1..N : gs[i] = fs[i]
  BY AppendProperties, LenProperties
<1> HIDE DEF N, gs
<1>2. \A n \in 0..N : g[n] = IF n = 0 THEN NoPosition ELSE Applied(g[n - 1], Fill[fs[n]])
  BY Zenon DEF IsReplay, N
<1>3. ASSUME NEW n \in 0..(N + 1)
      PROVE  h[n] = IF n = 0 THEN NoPosition ELSE Applied(h[n - 1], Fill[gs[n]])
  <2>1. CASE n = N + 1
    <3>1. n # 0 /\ n - 1 = N /\ N \in 0..(N + 1) /\ N # N + 1
      BY <1>1, <2>1
    <3>2. h[n] = next /\ h[n - 1] = g[N]
      BY <2>1, <3>1
    <3> QED BY <1>1, <2>1, <3>1, <3>2
  <2>2. CASE n = 0
    <3>1. n \in 0..N /\ n # N + 1
      BY <1>1, <2>2
    <3> QED BY <1>2, <2>2, <3>1
  <2>3. CASE n \in 1..N
    <3>1. n \in 0..N /\ n - 1 \in 0..(N + 1) /\ n # N + 1 /\ n - 1 # N + 1 /\ n # 0
      BY <1>1, <2>3
    <3>2. h[n] = g[n] /\ h[n - 1] = g[n - 1] /\ gs[n] = fs[n]
      BY <1>1, <2>3, <3>1
    <3> QED BY <1>2, <3>1, <3>2
  <2> QED BY <1>1, <2>1, <2>2, <2>3
<1>4. h[N + 1] = next
  BY <1>1
<1> DEFINE k == [n \in 0..(N + 1) |-> IF n = 0 THEN NoPosition ELSE Applied(h[n - 1], Fill[gs[n]])]
<1>5. h = k
  <2>1. \A n \in 0..(N + 1) : h[n] = k[n]
    BY <1>3, Zenon
  <2>2. h = [n \in 0..(N + 1) |-> h[n]] /\ k = [n \in 0..(N + 1) |-> k[n]]
    OBVIOUS
  <2> HIDE DEF h, k
  <2> QED BY <2>1, <2>2, Zenon
<1>6. IsReplay(h, gs)
  BY <1>1, <1>5, Zenon DEF IsReplay
<1> HIDE DEF h
<1> QED BY <1>4, <1>6 DEF N, gs
\* The applied fills are in canonical order.
Canonical(fs) ==
  \A i, j \in DOMAIN fs : i < j => Precedes(OrderingKey(Fill[fs[i]]), OrderingKey(Fill[fs[j]]))

\* Position p is the replay of fs, which are the stored fills of p.
Replays(p, position, fs, stored) ==
  /\ fs \in Seq(FillIDs)
  /\ position.revision = Len(fs)
  /\ Len(fs) > 0 => position.last = OrderingKey(Fill[fs[Len(fs)]])
  /\ \E g : IsReplay(g, fs) /\ position = g[Len(fs)]
  /\ {fs[i] : i \in DOMAIN fs} = {f \in stored : Fill[f].position = p}
  /\ Canonical(fs)

\* A fill that the engine accepts continues the replay.
LEMMA AppliedReplays ==
  ASSUME NEW p, NEW position, NEW fs, NEW stored, Replays(p, position, fs, stored),
         NEW f \in FillIDs, Fill[f].position = p, ~OutOfOrder(position, Fill[f])
  PROVE  Replays(p, Applied(position, Fill[f]), Append(fs, f), stored \cup {f})
<1> DEFINE N == Len(fs)
           gs == Append(fs, f)
           next == Applied(position, Fill[f])
           key(i) == OrderingKey(Fill[gs[i]])
<1>1. /\ fs \in Seq(FillIDs) /\ position.revision = N
      /\ N > 0 => position.last = OrderingKey(Fill[fs[N]])
      /\ {fs[i] : i \in DOMAIN fs} = {x \in stored : Fill[x].position = p}
      /\ Canonical(fs)
  BY DEF Replays
<1>2. N \in Nat /\ DOMAIN fs = 1..N
  BY <1>1, LenProperties
<1>3. gs \in Seq(FillIDs) /\ Len(gs) = N + 1 /\ gs[N + 1] = f /\ \A i \in 1..N : gs[i] = fs[i]
  BY <1>1, AppendProperties
<1>4. DOMAIN gs = 1..(N + 1)
  BY <1>3, LenProperties
<1>5. next.revision = N + 1 /\ next.last = OrderingKey(Fill[f])
  BY <1>1 DEF Applied
<1>6. \E h : IsReplay(h, gs) /\ next = h[Len(gs)]
  <2>1. PICK g : IsReplay(g, fs) /\ position = g[N]
    BY DEF Replays
  <2>2. \E h : IsReplay(h, gs) /\ h[N + 1] = next
    BY <1>1, <2>1, ReplayContinues
  <2> QED BY <1>3, <2>2
<1> HIDE DEF N, gs, next
<1>7. {gs[i] : i \in DOMAIN gs} = {x \in stored \cup {f} : Fill[x].position = p}
  <2>1. \A i \in 1..(N + 1) : i = N + 1 \/ i \in 1..N
    BY <1>2
  <2>2. \A i \in 1..N : i \in 1..(N + 1)
    BY <1>2
  <2>3. N + 1 \in 1..(N + 1)
    BY <1>2
  <2>4. {gs[i] : i \in DOMAIN gs} = {fs[i] : i \in DOMAIN fs} \cup {f}
    BY <1>2, <1>3, <1>4, <2>1, <2>2, <2>3, Zenon
  <2> QED BY <1>1, <2>4
<1>8. Canonical(gs)
  <2>1. \A i \in 1..(N + 1) : gs[i] \in FillIDs
    BY <1>3, ElementOfSeq
  <2>2. \A i \in 1..(N + 1) : key(i) \in [at : Nat, id : Nat]
    <3>1. ASSUME NEW x \in FillIDs PROVE OrderingKey(Fill[x]) \in [at : Nat, id : Nat]
      <4>1. Fill[x] \in Fills /\ FillIDs \subseteq Nat
        BY FillAssumption DEF Fills
      <4> QED BY <4>1 DEF Fills, OrderingKey
    <3> QED BY <2>1, <3>1
  <2>3. \A i, j \in 1..N : i < j => Precedes(key(i), key(j))
    BY <1>1, <1>2, <1>3 DEF Canonical
  <2>4. N > 0 => Precedes(key(N), key(N + 1))
    <3>1. CASE N > 0
      <4>1. Precedes(position.last, OrderingKey(Fill[f]))
        BY <1>1, <3>1 DEF OutOfOrder
      <4>2. N \in 1..N
        BY <1>2, <3>1
      <4> QED BY <1>1, <1>3, <3>1, <4>1, <4>2
    <3> QED BY <3>1
  <2> HIDE DEF key
  <2>5. \A a, b, d \in [at : Nat, id : Nat] : Precedes(a, b) /\ Precedes(b, d) => Precedes(a, d)
    BY DEF Precedes
  <2>6. ASSUME NEW i \in 1..(N + 1), NEW j \in 1..(N + 1), i < j PROVE Precedes(key(i), key(j))
    <3>1. CASE j \in 1..N
      <4>1. i \in 1..N
        BY <1>2, <2>6, <3>1
      <4> QED BY <2>3, <2>6, <3>1, <4>1
    <3>2. CASE j = N + 1 /\ i = N
      <4>1. N > 0
        BY <1>2, <3>2
      <4> QED BY <2>4, <3>2, <4>1
    <3>3. CASE j = N + 1 /\ i < N
      <4>1. N > 0 /\ i \in 1..N /\ N \in 1..N /\ N \in 1..(N + 1) /\ N + 1 \in 1..(N + 1)
        BY <1>2, <3>3
      <4>2. Precedes(key(i), key(N)) /\ Precedes(key(N), key(N + 1))
        BY <2>3, <2>4, <3>3, <4>1
      <4> QED BY <2>2, <2>5, <3>3, <4>1, <4>2
    <3> QED BY <1>2, <2>6, <3>1, <3>2, <3>3
  <2> QED BY <1>4, <2>6 DEF Canonical, key
<1>9. Len(gs) > 0 => next.last = OrderingKey(Fill[gs[Len(gs)]])
  BY <1>3, <1>5
<1>10. next.revision = Len(gs)
  BY <1>3, <1>5
<1>11. Replays(p, next, gs, stored \cup {f})
  BY <1>3, <1>6, <1>7, <1>8, <1>9, <1>10 DEF Replays
<1> QED BY <1>11 DEF gs, next
BooksReplayed(positions, lists, entries) ==
  /\ DOMAIN lists = Positions
  /\ \A p \in Positions : Replays(p, positions[p], lists[p], {f \in FillIDs : entries[f] # None})

\* The live books and the exported ones, which a restart brings back.
ReplayInv ==
  /\ BooksReplayed(current, applied, ingested)
  /\ BooksReplayed(exported.current, exported.applied, exported.ingested)

LEMMA NothingReplays ==
  ASSUME NEW p
  PROVE  Replays(p, NoPosition, <<>>, {})
<1>1. <<>> \in Seq(FillIDs) /\ Len(<<>>) = 0
  BY EmptySeq
<1>2. DOMAIN <<>> = {}
  OBVIOUS
<1>3. \E g : IsReplay(g, <<>>) /\ NoPosition = g[0]
  <2> DEFINE g == [n \in 0..0 |-> NoPosition]
             k == [n \in 0..0 |-> IF n = 0 THEN NoPosition ELSE Applied(g[n - 1], Fill[<<>>[n]])]
  <2>1. \A n \in 0..0 : n = 0
    OBVIOUS
  <2>2. \A n \in 0..0 : g[n] = k[n]
    BY <2>1, Zenon
  <2>3. g = [n \in 0..0 |-> g[n]] /\ k = [n \in 0..0 |-> k[n]]
    OBVIOUS
  <2>4. g = k
    <3> HIDE DEF g, k
    <3> QED BY <2>2, <2>3, Zenon
  <2>5. IsReplay(g, <<>>)
    BY <1>1, <2>4, Zenon DEF IsReplay
  <2>6. g[0] = NoPosition
    OBVIOUS
  <2> HIDE DEF g
  <2> QED BY <2>5, <2>6
<1>4. Canonical(<<>>)
  BY <1>2 DEF Canonical
<1>5. {<<>>[i] : i \in DOMAIN <<>>} = {f \in {} : Fill[f].position = p}
  BY <1>2
<1> QED BY <1>1, <1>3, <1>4, <1>5 DEF Replays, NoPosition

LEMMA InitReplays == Init => ReplayInv
<1> SUFFICES ASSUME Init PROVE ReplayInv
  OBVIOUS
<1>1. /\ current = [p \in Positions |-> NoPosition]
      /\ applied = [p \in Positions |-> <<>>]
      /\ ingested = [f \in FillIDs |-> None]
      /\ exported.current = current /\ exported.applied = applied /\ exported.ingested = ingested
  BY DEF Init, Store
<1>2. {f \in FillIDs : ingested[f] # None} = {}
  BY <1>1
<1>3. \A p \in Positions : Replays(p, current[p], applied[p], {})
  BY <1>1, NothingReplays
<1>4. BooksReplayed(current, applied, ingested)
  BY <1>1, <1>2, <1>3 DEF BooksReplayed
<1> QED BY <1>1, <1>4 DEF ReplayInv

LEMMA PublicationReplays ==
  ASSUME BooksInv, Evidence, ReplayInv, NEW c \in Callers, PublishPosition(c)
  PROVE  ReplayInv'
<1> DEFINE f == call[c].fill
           s == call[c].source
           p == Fill[f].position
           next == call[c].next
<1>1. call[c].pc = "publish"
  BY DEF PublishPosition, At
<1>2. /\ f \in FillIDs /\ s \in Sources /\ ingested \in Entries /\ current \in [Positions -> PositionRecords]
      /\ None \notin Sources
  BY <1>1, FillAssumption DEF BooksInv, Evidence, None
<1>3. p \in Positions
  BY <1>2, FillAssumption
<1>4. /\ ingested' = [ingested EXCEPT ![f] = s]
      /\ current' = [current EXCEPT ![p] = next]
      /\ applied' = [applied EXCEPT ![p] = Append(applied[p], f)]
      /\ exported' = exported
  BY DEF PublishPosition, Offered
<1>5. ~OutOfOrder(current[p], Fill[f]) /\ next = Applied(current[p], Fill[f])
  BY DEF PublishPosition, Commits, Unmoved, Applies, Offered
<1> HIDE DEF f, s, p, next
<1>6. {x \in FillIDs : ingested'[x] # None} = {x \in FillIDs : ingested[x] # None} \cup {f}
  <2>1. \A x \in FillIDs : ingested'[x] = IF x = f THEN s ELSE ingested[x]
    BY <1>2, <1>4 DEF Entries
  <2> QED BY <1>2, <2>1
<1>7. DOMAIN applied = Positions /\ \A q \in Positions : Replays(q, current[q], applied[q], {x \in FillIDs : ingested[x] # None})
  BY DEF ReplayInv, BooksReplayed
<1>8. PICK stored : stored = {x \in FillIDs : ingested[x] # None}
  OBVIOUS
<1>9. ASSUME NEW q \in Positions PROVE Replays(q, current'[q], applied'[q], stored \cup {f})
  <2>1. Replays(q, current[q], applied[q], stored)
    BY <1>7, <1>8
  <2>2. CASE q = p
    <3>1. Replays(p, Applied(current[p], Fill[f]), Append(applied[p], f), stored \cup {f})
      BY <1>2, <1>5, <2>1, <2>2, AppliedReplays DEF p
    <3>2. current'[p] = Applied(current[p], Fill[f]) /\ applied'[p] = Append(applied[p], f)
      BY <1>2, <1>3, <1>4, <1>5, <1>7
    <3> QED BY <2>2, <3>1, <3>2
  <2>3. CASE q # p
    <3>1. current'[q] = current[q] /\ applied'[q] = applied[q]
      BY <1>2, <1>4, <1>7, <2>3
    <3>2. {x \in stored \cup {f} : Fill[x].position = q} = {x \in stored : Fill[x].position = q}
      BY <2>3 DEF p
    <3> QED BY <2>1, <3>1, <3>2 DEF Replays
  <2> QED BY <2>2, <2>3
<1>10. DOMAIN applied' = Positions
  BY <1>4, <1>7
<1>11. PICK cur, app, ing : cur = current' /\ app = applied' /\ ing = ingested'
  OBVIOUS
<1>12. BooksReplayed(cur, app, ing)
  BY <1>6, <1>8, <1>9, <1>10, <1>11 DEF BooksReplayed
<1> QED BY <1>4, <1>11, <1>12 DEF ReplayInv

LEMMA ReplayStep ==
  ASSUME BooksInv, Evidence, ReplayInv, [Next]_vars
  PROVE  ReplayInv'
<1>1. ASSUME NEW c \in Callers, PublishPosition(c) PROVE ReplayInv'
  BY <1>1, PublicationReplays
<1>2. ASSUME UNCHANGED <<storeVars, exported>> PROVE ReplayInv'
  BY <1>2 DEF ReplayInv, storeVars
<1>3. CASE Export
  <2>1. /\ UNCHANGED storeVars
        /\ exported'.current = current /\ exported'.applied = applied /\ exported'.ingested = ingested
    BY <1>3 DEF Export, Store
  <2> QED BY <2>1 DEF ReplayInv, storeVars
<1>4. CASE Restart
  <2>1. /\ current' = exported.current /\ applied' = exported.applied /\ ingested' = exported.ingested
        /\ exported' = exported
    BY <1>4 DEF Restart
  <2> QED BY <2>1 DEF ReplayInv
<1>5. ASSUME NEW c \in Callers, Step(c), ~PublishPosition(c) PROVE UNCHANGED <<storeVars, exported>>
  BY <1>5 DEF Step, reserve, ReserveRefused, Admit, AdmitCancelled, CallFails, Lookup, Lock, Read, ReadRefused,
    PublicationRefused, Unlock, Leave, release
<1>6. ASSUME Shutdown \/ ShutdownDone \/ UNCHANGED vars PROVE UNCHANGED <<storeVars, exported>>
  BY <1>6 DEF Shutdown, ShutdownDone, vars, storeVars
<1>7. ASSUME NEW c \in Callers, NEW f \in FillIDs, NEW source \in Sources, Ingest(c, f, source)
      PROVE  UNCHANGED <<storeVars, exported>>
  BY <1>7 DEF Ingest
<1> QED
  BY <1>1, <1>2, <1>3, <1>4, <1>5, <1>6, <1>7 DEF Next

\* Every position is the replay of its applied fills in canonical order, each stored fill of the
\* position once: RestorePosition recomputes what Apply computed, after any races,
\* refusals and restarts.
THEOREM RestoringReplays == Spec => []BooksReplay
<1>1. ReplayInv => BooksReplay
  <2> SUFFICES ASSUME ReplayInv, NEW p \in Positions
               PROVE  /\ current[p] = Replay(applied[p])
                      /\ {applied[p][i] : i \in DOMAIN applied[p]} = {f \in Stored : Fill[f].position = p}
                      /\ \A i, j \in DOMAIN applied[p] :
                           i < j => Precedes(OrderingKey(Fill[applied[p][i]]), OrderingKey(Fill[applied[p][j]]))
    BY DEF BooksReplay
  <2>1. Replays(p, current[p], applied[p], Stored)
    BY DEF ReplayInv, BooksReplayed, Stored
  <2>2. current[p] = Replay(applied[p])
    <3>1. PICK g : IsReplay(g, applied[p]) /\ current[p] = g[Len(applied[p])]
      BY <2>1 DEF Replays
    <3>2. applied[p] \in Seq(FillIDs)
      BY <2>1 DEF Replays
    <3> QED BY <3>1, <3>2, ReplayIs
  <2> QED BY <2>1, <2>2 DEF Replays, Canonical
<1> QED
  BY <1>1, InitReplays, ReplayStep, EvidenceInvariant, BooksInvariant, PTL DEF Spec
=============================================================================
