-------------------------- MODULE PublicationProofs --------------------------
(* Proofs about what is published by comparing and swapping: the generations of *)
(* the dataset repository form one chain, whatever processes race and crash; a  *)
(* portfolio valuation is of one instant and its total is exact, although       *)
(* positions and marks move while they are read; and a reconciliation clears an *)
(* instrument only on the broker's own agreement.                               *)
EXTENDS DatasetStore, FinancialValuation, PositionReconciliation, SumLemmas, SequenceTheorems

-----------------------------------------------------------------------------
(* Types. *)

Named == datasets \cup {NoDataset}

IDs == { q[1] : q \in Requests }
Actions == { q[2] : q \in Requests }

Asked == [id : IDs, dataset : datasets, expected : Named, action : Actions]

Generations ==
    [dataset : datasets, previous : Named, action : Actions, request : IDs, expected : Named]

-----------------------------------------------------------------------------
(* The inductive invariant. *)

(* A publisher between its read and its rename has decided on a history that    *)
(* was the whole one when it was read, and is the beginning of the present one. *)
Decided(p) ==
    LET c == publisher[p]
    IN  /\ c.request \in Asked
        /\ c.history \in Seq(Generations)
        /\ Len(c.history) <= Len(generations)
        /\ \A i \in 1 .. Len(c.history) : c.history[i] = generations[i]
        /\ MayPublish(c.history, c.request)

Found(r) ==
    \E i \in DOMAIN generations :
        generations[i].request = r.id /\ generations[i].dataset = r.dataset

PublisherFine(p) ==
    /\ publisher[p].pc = "rename" => Decided(p)
    /\ publisher[p].answer = "published" => Found(publisher[p].request)

PublishersFine ==
    /\ publisher = [p \in Publishers |-> publisher[p]]
    /\ \A p \in Publishers : PublisherFine(p)

PublishingInv ==
    /\ generations \in Seq(Generations)
    /\ GenerationsChain
    /\ PublishersFine

-----------------------------------------------------------------------------
(* The chain. *)

(* The current dataset of a history is one a generation names, or none. *)
LEMMA CurrentNamed ==
    ASSUME NEW h \in Seq(Generations)
    PROVE  CurrentOf(h) \in Named
<1>1. CASE h = <<>>
  BY <1>1 DEF CurrentOf, Named
<1>2. CASE h # <<>>
  <2>1. Len(h) \in DOMAIN h
    BY <1>2
  <2>2. h[Len(h)] \in Generations
    BY <2>1
  <2> QED BY <1>2, <2>2 DEF CurrentOf, Last, Named, Generations
<1> QED BY <1>1, <1>2

(* The beginning of a history before one of its positions, or the whole of it,  *)
(* is not changed by what is appended.                                          *)
LEMMA BeginningKept ==
    ASSUME NEW S, NEW h \in Seq(S), NEW x \in S, NEW n \in 0 .. Len(h)
    PROVE  SubSeq(Append(h, x), 1, n) = SubSeq(h, 1, n)
<1> DEFINE a == SubSeq(Append(h, x), 1, n)
           b == SubSeq(h, 1, n)
<1>1. Append(h, x) \in Seq(S) /\ Len(Append(h, x)) = Len(h) + 1
  OBVIOUS
<1>2. Len(a) = n /\ Len(b) = n
  BY <1>1
<1>3. \A i \in 1 .. n : a[i] = b[i]
  BY <1>1
<1>4. a \in Seq(S) /\ b \in Seq(S)
  BY <1>1
<1> QED BY <1>2, <1>3, <1>4, SeqEqual

(* A publication decided on the whole history extends the chain: it replaces    *)
(* the dataset expected, which is the current one, under an id not used before. *)
LEMMA PublicationExtends ==
    ASSUME generations \in Seq(Generations), GenerationsChain, NEW r \in Asked,
           MayPublish(generations, r),
           generations' = Append(generations, Publication(generations, r)),
           datasets' = datasets
    PROVE  /\ generations' \in Seq(Generations)'
           /\ GenerationsChain'
           /\ DOMAIN generations \subseteq DOMAIN generations'
           /\ \A i \in DOMAIN generations : generations'[i] = generations[i]
           /\ Found(r)'
<1> DEFINE x == Publication(generations, r)
           n == Len(generations)
<1>1. x \in Generations
  <2>1. CurrentOf(generations) \in Named
    BY CurrentNamed
  <2> QED BY <2>1 DEF Publication, Asked, Generations
<1>2. Generations' = Generations /\ n \in Nat
  BY DEF Generations, Named
<1>3. generations' \in Seq(Generations)'
  BY <1>1, <1>2
<1>4. /\ Len(generations') = n + 1
      /\ generations'[n + 1] = x
      /\ \A i \in 1 .. n : generations'[i] = generations[i]
      /\ DOMAIN generations = 1 .. n /\ DOMAIN generations' = 1 .. n + 1
  BY <1>1, <1>3
<1>5. \A i \in 1 .. n + 1 : SubSeq(generations', 1, i - 1) = SubSeq(generations, 1, i - 1)
  BY <1>1, <1>2, BeginningKept
<1>6. SubSeq(generations, 1, n) = generations
  BY <1>2
<1>7. x.request = r.id /\ x.dataset = r.dataset /\ x.expected = r.expected
      /\ x.previous = CurrentOf(generations)
  BY DEF Publication
<1>8. \A i \in 1 .. n : generations[i].request # r.id /\ r.expected = CurrentOf(generations)
  BY <1>4 DEF MayPublish, Known
<1>9. CurrentOf(generations) = r.expected
  BY DEF MayPublish
<1>10. GenerationsChain'
  <2> SUFFICES ASSUME NEW i \in 1 .. n + 1
               PROVE  /\ generations'[i].dataset \in datasets'
                      /\ generations'[i].previous = CurrentOf(SubSeq(generations', 1, i - 1))
                      /\ generations'[i].expected = generations'[i].previous
                      /\ \A j \in 1 .. n + 1 :
                            generations'[j].request = generations'[i].request => i = j
    BY <1>4 DEF GenerationsChain, CurrentOf
  <2>1. CASE i = n + 1
    <3>1. generations'[i] = x /\ i - 1 = n
      BY <2>1, <1>2, <1>4
    <3>2. x.previous = CurrentOf(SubSeq(generations', 1, i - 1))
      BY <3>1, <1>5, <1>6, <1>7
    <3>3. \A j \in 1 .. n : generations'[j].request # x.request
      BY <1>4, <1>7, <1>8
    <3> QED BY <2>1, <3>1, <3>2, <3>3, <1>2, <1>7, <1>9 DEF Asked
  <2>2. CASE i # n + 1
    <3>1. i \in 1 .. n /\ i \in DOMAIN generations /\ generations'[i] = generations[i]
      BY <2>2, <1>2, <1>4
    <3>2. /\ generations[i].dataset \in datasets
          /\ generations[i].previous = CurrentOf(SubSeq(generations, 1, i - 1))
          /\ generations[i].expected = generations[i].previous
          /\ \A j \in 1 .. n : generations[j].request = generations[i].request => i = j
      BY <3>1, <1>4 DEF GenerationsChain
    <3>3. generations[i].request # x.request
      BY <3>1, <1>7, <1>8
    <3>4. \A j \in 1 .. n + 1 : generations'[j].request = generations'[i].request => i = j
      BY <3>1, <3>2, <3>3, <1>2, <1>4
    <3> QED BY <3>1, <3>2, <3>4, <1>5
  <2> QED BY <2>1, <2>2
<1>11. Found(r)'
  BY <1>2, <1>4, <1>7 DEF Found
<1> QED BY <1>2, <1>3, <1>4, <1>10, <1>11

(* What was committed stays committed, so a sound chain and what the publishers *)
(* hold stay sound when datasets are added.                                     *)
LEMMA ChainKept ==
    ASSUME generations \in Seq(Generations), GenerationsChain,
           generations' = generations, datasets \subseteq datasets'
    PROVE  generations' \in Seq(Generations)' /\ GenerationsChain'
<1>1. Generations \subseteq Generations'
  BY DEF Generations, Named
<1>2. \A i \in DOMAIN generations : generations[i] \in Generations'
  BY <1>1
<1>3. generations' \in Seq(Generations)'
  BY <1>2
<1>4. GenerationsChain'
  BY DEF GenerationsChain, CurrentOf
<1> QED BY <1>3, <1>4

(* So does what a publisher knows, while the generations only grow. *)
LEMMA PublisherKept ==
    ASSUME generations \in Seq(Generations), NEW p, PublisherFine(p),
           publisher'[p] = publisher[p], datasets \subseteq datasets',
           generations' \in Seq(Generations)',
           DOMAIN generations \subseteq DOMAIN generations',
           \A i \in DOMAIN generations : generations'[i] = generations[i]
    PROVE  PublisherFine(p)'
<1> DEFINE c == publisher[p]
<1>1. Asked \subseteq Asked' /\ Generations \subseteq Generations'
  BY DEF Asked, Generations, Named
<1>2. /\ DOMAIN generations = 1 .. Len(generations) /\ Len(generations) \in Nat
      /\ DOMAIN generations' = 1 .. Len(generations') /\ Len(generations') \in Nat
  OBVIOUS
<1>3. Len(generations) <= Len(generations')
  BY <1>2
<1>4. ASSUME c.pc = "rename" PROVE Decided(p)'
  <2>1. Decided(p)
    BY <1>4 DEF PublisherFine
  <2>2. c.history \in Seq(Generations) /\ Len(c.history) \in Nat
    BY <2>1 DEF Decided
  <2>3. \A i \in DOMAIN c.history : c.history[i] \in Generations'
    BY <2>2, <1>1
  <2>4. c.history \in Seq(Generations)'
    BY <2>2, <2>3
  <2>5. \A i \in 1 .. Len(c.history) : c.history[i] = generations'[i]
    BY <2>1, <2>2, <1>2 DEF Decided
  <2>6. Len(c.history) <= Len(generations')
    BY <2>1, <2>2, <1>2, <1>3 DEF Decided
  <2>7. c.request \in Asked' /\ MayPublish(c.history, c.request)
    BY <2>1, <1>1 DEF Decided
  <2>8. MayPublish(c.history, c.request)'
    BY <2>7 DEF MayPublish, Known, CurrentOf
  <2> QED BY <2>4, <2>5, <2>6, <2>7, <2>8 DEF Decided
<1>5. ASSUME c.answer = "published" PROVE Found(c.request)'
  BY <1>5 DEF PublisherFine, Found
<1> QED BY <1>4, <1>5 DEF PublisherFine

-----------------------------------------------------------------------------
(* The steps. *)

(* The steps of the builders and the faults of the directories. *)
LEMMA QuietStep ==
    ASSUME PublishingInv, UNCHANGED <<scenario, generations, publisher>>,
           datasets \subseteq datasets'
    PROVE  PublishingInv'
<1>1. generations' \in Seq(Generations)' /\ GenerationsChain'
  BY ChainKept DEF PublishingInv
<1>2. Publishers' = Publishers
  BY DEF Publishers
<1>3. ASSUME NEW p \in Publishers PROVE PublisherFine(p)'
  BY <1>1, PublisherKept DEF PublishingInv, PublishersFine
<1> QED BY <1>1, <1>2, <1>3 DEF PublishingInv, PublishersFine

(* One publisher moves to a state that is fine, the others see the generations  *)
(* as they were, or grown.                                                      *)
LEMMA PublisherMoves ==
    ASSUME PublishingInv, NEW p \in Publishers, NEW c,
           publisher' = [publisher EXCEPT ![p] = c], PublisherFine(p)',
           UNCHANGED <<scenario, datasets>>,
           generations' \in Seq(Generations)', GenerationsChain',
           DOMAIN generations \subseteq DOMAIN generations',
           \A i \in DOMAIN generations : generations'[i] = generations[i]
    PROVE  PublishingInv'
<1>1. Publishers' = Publishers
  BY DEF Publishers
<1>2. publisher' = [q \in Publishers |-> publisher'[q]]
  BY DEF PublishingInv, PublishersFine
<1>3. ASSUME NEW q \in Publishers PROVE PublisherFine(q)'
  <2>1. CASE q = p
    BY <2>1
  <2>2. CASE q # p
    <3>1. publisher'[q] = publisher[q]
      BY <2>2 DEF PublishingInv, PublishersFine
    <3>2. PublisherFine(q)
      BY DEF PublishingInv, PublishersFine
    <3> QED BY <3>1, <3>2, PublisherKept DEF PublishingInv
  <2> QED BY <2>1, <2>2
<1> QED BY <1>1, <1>2, <1>3 DEF PublishingInv, PublishersFine

(* A publisher that was answered on the history as it is, without publishing. *)
LEMMA AnswerOnly ==
    ASSUME PublishingInv, NEW p \in Publishers, NEW r, NEW answer, Told(p, r, answer),
           answer = "published" => Found(r),
           UNCHANGED <<scenario, datasets, generations>>
    PROVE  PublishingInv'
<1>1. generations' \in Seq(Generations)' /\ GenerationsChain'
  BY ChainKept DEF PublishingInv
<1>2. publisher'[p] = [pc |-> "idle", request |-> r, history |-> <<>>, answer |-> answer]
  BY DEF Told, PublishingInv, PublishersFine
<1>3. PublisherFine(p)'
  BY <1>2 DEF PublisherFine, Found
<1> QED BY <1>1, <1>3, PublisherMoves DEF Told

(* A publisher that published on the whole history. *)
LEMMA Published ==
    ASSUME PublishingInv, NEW p \in Publishers, NEW r \in Asked, MayPublish(generations, r),
           generations' = Append(generations, Publication(generations, r)),
           Told(p, r, "published"), UNCHANGED <<scenario, datasets>>
    PROVE  PublishingInv'
<1>1. /\ generations' \in Seq(Generations)' /\ GenerationsChain'
      /\ DOMAIN generations \subseteq DOMAIN generations'
      /\ \A i \in DOMAIN generations : generations'[i] = generations[i]
      /\ Found(r)'
  BY PublicationExtends DEF PublishingInv
<1>2. publisher'[p] = [pc |-> "idle", request |-> r, history |-> <<>>, answer |-> "published"]
  BY DEF Told, PublishingInv, PublishersFine
<1>3. PublisherFine(p)'
  BY <1>1, <1>2 DEF PublisherFine, Found
<1> QED BY <1>1, <1>3, PublisherMoves DEF Told

(* A verdict of "published" is true. *)
LEMMA VerdictTrue ==
    ASSUME NEW r, Verdict(generations, r) = "published"
    PROVE  Found(r)
BY DEF Verdict, Replayed, Known, Found

(* Repository.Publish, file: the read, with whatever dataset is damaged. *)
LEMMA ReadKept ==
    ASSUME PublishingInv, NEW p \in Publishers, NEW r \in Asked, PublishRead(p, r)
    PROVE  PublishingInv'
<1>1. CASE Told(p, r, "corrupt")
  BY <1>1, AnswerOnly DEF PublishRead
<1>2. CASE Told(p, r, Verdict(generations, r))
  BY <1>2, AnswerOnly, VerdictTrue DEF PublishRead
<1>3. CASE /\ MayPublish(generations, r)
           /\ publisher' = [publisher EXCEPT ![p] =
                  [pc |-> "rename", request |-> r, history |-> generations, answer |-> ""]]
  <2>1. generations' \in Seq(Generations)' /\ GenerationsChain'
    BY ChainKept DEF PublishingInv, PublishRead
  <2>3. Asked' = Asked /\ generations' = generations
    BY DEF PublishRead, Asked, Named
  <2>5. /\ publisher'[p].request = r
        /\ publisher'[p].history = generations
        /\ publisher'[p].answer = ""
    BY <1>3 DEF PublishingInv, PublishersFine
  <2>6. generations \in Seq(Generations)' /\ Len(generations) \in Nat
    BY <2>1, <2>3 DEF PublishingInv
  <2>7. Decided(p)'
    <3>1. publisher'[p].request \in Asked'
      BY <2>3, <2>5
    <3>2. publisher'[p].history = generations'
      BY <2>3, <2>5
    <3>3. publisher'[p].history \in Seq(Generations)'
      BY <3>2, <2>1
    <3>4. Len(publisher'[p].history) <= Len(generations')
      BY <3>2, <2>3, <2>6
    <3>5. MayPublish(publisher'[p].history, publisher'[p].request)
      BY <1>3, <2>5
    <3> QED BY <3>1, <3>2, <3>3, <3>4, <3>5 DEF Decided
  <2>8. PublisherFine(p)'
    BY <2>5, <2>7 DEF PublisherFine
  <2> QED BY <1>3, <2>1, <2>8, PublisherMoves DEF PublishRead
<1> QED BY <1>1, <1>2, <1>3 DEF PublishRead

(* The rename: when the number is still free, the history read is the whole one. *)
LEMMA RenameKept ==
    ASSUME PublishingInv, NEW p \in Publishers, PublishRename(p)
    PROVE  PublishingInv'
<1> DEFINE r == publisher[p].request
           h == publisher[p].history
<1>1. Decided(p)
  BY DEF PublishRename, PublishingInv, PublishersFine, PublisherFine
<1>2. CASE Len(generations) = Len(h)
  <2>1. h \in Seq(Generations) /\ generations \in Seq(Generations)
    BY <1>1 DEF Decided, PublishingInv
  <2>2. h = generations
    BY <2>1, <1>1, <1>2, SeqEqual DEF Decided
  <2>3. r \in Asked /\ MayPublish(generations, r)
    BY <1>1, <2>2 DEF Decided
  <2>4. /\ generations' = Append(generations, Publication(generations, r))
        /\ Told(p, r, "published") /\ UNCHANGED <<scenario, datasets>>
    BY <1>2, <2>2 DEF PublishRename
  <2> QED BY <2>3, <2>4, Published
<1>3. CASE Len(generations) # Len(h)
  BY <1>3, AnswerOnly DEF PublishRename
<1> QED BY <1>2, <1>3

(* MemoryRepository.Publish: the decision and the append in one critical section. *)
LEMMA MemoryKept ==
    ASSUME PublishingInv, NEW p \in Publishers, NEW r \in Asked, PublishMemory(p, r)
    PROVE  PublishingInv'
<1>1. CASE MayPublish(generations, r)
  BY <1>1, Published DEF PublishMemory
<1>2. CASE ~MayPublish(generations, r)
  BY <1>2, AnswerOnly, VerdictTrue DEF PublishMemory
<1> QED BY <1>1, <1>2

(* A process dies: it forgets its request and its answer. *)
LEMMA CrashKept ==
    ASSUME PublishingInv, NEW p \in Publishers, CrashPublisher(p)
    PROVE  PublishingInv'
<1>1. generations' \in Seq(Generations)' /\ GenerationsChain'
  BY ChainKept DEF PublishingInv, CrashPublisher
<1>2. publisher'[p].pc = "idle" /\ publisher'[p].answer = ""
  BY DEF CrashPublisher, PublishingInv, PublishersFine, NewPublisher
<1>3. PublisherFine(p)'
  BY <1>2 DEF PublisherFine
<1> QED BY <1>1, <1>3, PublisherMoves DEF CrashPublisher

LEMMA PublishingInitial == StoreInit => PublishingInv
<1> SUFFICES ASSUME StoreInit PROVE PublishingInv
  OBVIOUS
<1>1. generations = <<>> /\ publisher = [p \in Publishers |-> NewPublisher]
  BY DEF StoreInit
<1>2. generations \in Seq(Generations) /\ GenerationsChain
  BY <1>1 DEF GenerationsChain
<1>3. \A p \in Publishers : PublisherFine(p)
  BY <1>1 DEF PublisherFine, NewPublisher
<1> QED BY <1>1, <1>2, <1>3 DEF PublishingInv, PublishersFine

(* No step of a builder, a publisher or a fault breaks it. *)
LEMMA PublishingKept == PublishingInv /\ [StoreNext]_vars => PublishingInv'
<1> SUFFICES ASSUME PublishingInv, [StoreNext]_vars PROVE PublishingInv'
  OBVIOUS
<1>1. ASSUME NEW b \in Builders,
             \/ \E parent \in datasets \union {NoDataset}, s \in Sources, l \in Latenesses,
                   request \in {"", "fix"} : Build(b, parent, s, l, request)
             \/ \E s \in Sources, l \in Latenesses : BuildAborted(b, s, l)
             \/ CommitScan(b) \/ CommitRename(b) \/ CommitMemory(b) \/ AbortBuild(b)
             \/ CrashBuilder(b)
      PROVE  PublishingInv'
  <2>1. UNCHANGED <<scenario, generations, publisher>> /\ datasets \subseteq datasets'
    BY <1>1 DEF Build, BuildAborted, CommitScan, CommitRename, CommitMemory, AbortBuild,
                CrashBuilder, vars
  <2> QED BY <2>1, QuietStep
<1>2. ASSUME NEW p \in Publishers, NEW q \in Requests, NEW d \in datasets,
             NEW e \in datasets \union {NoDataset},
             LET r == Request(q[1], d, e, q[2]) IN PublishRead(p, r) \/ PublishMemory(p, r)
      PROVE  PublishingInv'
  <2>1. Request(q[1], d, e, q[2]) \in Asked
    BY DEF Request, Asked, IDs, Actions, Named
  <2> QED BY <1>2, <2>1, ReadKept, MemoryKept
<1>3. ASSUME NEW p \in Publishers, PublishRename(p) \/ CrashPublisher(p)
      PROVE  PublishingInv'
  BY <1>3, RenameKept, CrashKept
<1>4. ASSUME NEW m \in datasets, Damage(m)
      PROVE  PublishingInv'
  BY <1>4, QuietStep DEF Damage
<1>5. CASE UNCHANGED vars
  BY <1>5, QuietStep DEF vars
<1> QED BY <1>1, <1>2, <1>3, <1>4, <1>5 DEF StoreNext

(* The generations form one chain, without an update lost, whatever is read     *)
(* before it is renamed, damaged or retried, and whoever was told that a        *)
(* request is published finds its generation (publication.go:45, Publish).      *)
THEOREM PublicationsChain == StoreSpec => []PublicationInv
<1>1. PublishingInv => PublicationInv
  BY DEF PublishingInv, PublicationInv, PublishersFine, PublisherFine, AnsweredIsPublished, Found
<1> QED BY <1>1, PublishingInitial, PublishingKept, PTL DEF StoreSpec

-----------------------------------------------------------------------------
(* Reconciliation: what the evidence says. *)

Positions == Int \cup {NoEvidence}

(* Two quantities that do not differ in sign, are not equal up to their sign    *)
(* and are both zero or both not zero, are equal.                               *)
LEMMA ProductSign ==
    ASSUME NEW a \in Int, NEW b \in Int
    PROVE  /\ a > 0 /\ b > 0 => a * b > 0
           /\ a < 0 /\ b < 0 => a * b > 0
<1>1. ASSUME a > 0, b > 0 PROVE a * b > 0
  BY <1>1
<1>2. ASSUME a < 0, b < 0 PROVE a * b > 0
  <2>1. (-a) * (-b) > 0
    BY <1>2
  <2> QED BY <2>1
<1> QED BY <1>1, <1>2

LEMMA MatchMeansEqual ==
    ASSUME NEW local \in Int, NEW o \in Observations, NEW mode, NEW at \in Int
    PROVE  /\ Classify(local, o, mode, at) = "MATCH" <=>
                /\ o.available /\ o.complete /\ ~NotComparable(mode, o)
                /\ at \in o.at .. (o.at + MaximumAge)
                /\ local = o.qty
           /\ local = 0 /\ o.qty # 0 =>
                Classify(local, o, mode, at) \in
                    {"UNKNOWN", "STALE_BROKER_OBSERVATION", "BROKER_ONLY"}
<1> USE ReconciliationAssumption
<1>1. o.qty \in Int /\ o.at \in Int /\ MaximumAge \in Nat
  OBVIOUS
<1>2. IsFresh(o, at) <=> at \in o.at .. (o.at + MaximumAge)
  BY <1>1 DEF IsFresh
<1>3. CASE NotComparable(mode, o) \/ ~(o.available /\ o.complete)
  BY <1>3 DEF Classify
<1>4. CASE ~NotComparable(mode, o) /\ (o.available /\ o.complete) /\ ~IsFresh(o, at)
  BY <1>2, <1>4 DEF Classify
<1>5. CASE ~NotComparable(mode, o) /\ (o.available /\ o.complete) /\ IsFresh(o, at)
  <2> DEFINE class == Classify(local, o, mode, at)
  <2>1. class = CASE local # 0 /\ o.qty = 0 -> "LOCAL_ONLY"
                  [] local = 0 /\ o.qty # 0 -> "BROKER_ONLY"
                  [] SignsDiffer(local, o.qty) -> "DIRECTION_MISMATCH"
                  [] local * o.qty > 0 /\ local # o.qty -> "QUANTITY_MISMATCH"
                  [] OTHER -> "MATCH"
    BY <1>5 DEF Classify
  <2>2. CASE local = o.qty
    <3>1. ~SignsDiffer(local, o.qty)
      BY <2>2, <1>1 DEF SignsDiffer
    <3>2. class = "MATCH"
      BY <2>1, <2>2, <3>1
    <3> QED BY <1>2, <1>5, <2>2, <3>2
  <2>3. CASE local # o.qty
    <3>1. CASE local # 0 /\ o.qty = 0
      <4>1. class = "LOCAL_ONLY"
        BY <2>1, <3>1 DEF SignsDiffer
      <4> QED BY <2>3, <3>1, <4>1
    <3>2. CASE local = 0 /\ o.qty # 0
      <4>1. class = "BROKER_ONLY"
        BY <2>1, <3>2 DEF SignsDiffer
      <4> QED BY <2>3, <3>2, <4>1
    <3>3. CASE local # 0 /\ o.qty # 0 /\ SignsDiffer(local, o.qty)
      <4>1. class = "DIRECTION_MISMATCH" \/ class = "QUANTITY_MISMATCH"
        BY <2>1, <3>3
      <4> QED BY <2>3, <3>3, <4>1
    <3>4. CASE local # 0 /\ o.qty # 0 /\ ~SignsDiffer(local, o.qty)
      <4>1. (local > 0 /\ o.qty > 0) \/ (local < 0 /\ o.qty < 0)
        BY <1>1, <3>4 DEF SignsDiffer
      <4>2. local * o.qty > 0
        BY <1>1, <4>1, ProductSign
      <4>3. class = "QUANTITY_MISMATCH"
        BY <2>1, <2>3, <3>4, <4>2
      <4> QED BY <2>3, <3>4, <4>3
    <3> QED BY <2>3, <3>1, <3>2, <3>3, <3>4
  <2> QED BY <2>2, <2>3
<1> QED BY <1>3, <1>4, <1>5

(* Evidence about an observation says what ClearMeansEqual asks of it. *)
Clears(e, o) ==
    /\ ~e.blocked <=> /\ o.available /\ o.complete
                      /\ ~NotComparable(e.mode, o)
                      /\ e.at \in o.at..(o.at + MaximumAge)
                      /\ Quantity(e.position) = o.qty
    /\ Quantity(e.position) = 0 /\ o.qty # 0 => e.severity = "CRITICAL"

LEMMA EvidenceSound ==
    ASSUME NEW q \in Positions, NEW o \in Observations, NEW mode, NEW at \in Int
    PROVE  Clears(BuildEvidence(q, o, mode, at), o)
<1> DEFINE e == BuildEvidence(q, o, mode, at)
           local == Quantity(q)
           class == Classify(local, o, mode, at)
<1>1. local \in Int
  BY DEF Quantity, Positions
<1>2. e = [id |-> o.id, position |-> q, class |-> class, severity |-> Severity(class),
           blocked |-> class # "MATCH", mode |-> mode, at |-> at]
  BY DEF BuildEvidence, Quantity
<1>3. e.position = q /\ e.mode = mode /\ e.at = at /\ e.severity = Severity(class)
  BY <1>2
<1>4. e.blocked = (class # "MATCH")
  BY <1>2
<1>5. class \in {"UNKNOWN", "STALE_BROKER_OBSERVATION", "BROKER_ONLY"} =>
        Severity(class) = "CRITICAL"
  BY DEF Severity
<1>6. /\ class = "MATCH" <=> /\ o.available /\ o.complete /\ ~NotComparable(mode, o)
                             /\ at \in o.at .. (o.at + MaximumAge)
                             /\ local = o.qty
      /\ local = 0 /\ o.qty # 0 =>
           class \in {"UNKNOWN", "STALE_BROKER_OBSERVATION", "BROKER_ONLY"}
  BY <1>1, MatchMeansEqual
<1>7. Quantity(e.position) = local
  BY <1>3
<1>8. NotComparable(e.mode, o) <=> NotComparable(mode, o)
  BY <1>3
<1> HIDE DEF e, class, local
<1>9. ~e.blocked <=> /\ o.available /\ o.complete /\ ~NotComparable(e.mode, o)
                     /\ e.at \in o.at .. (o.at + MaximumAge)
                     /\ Quantity(e.position) = o.qty
  BY <1>3, <1>4, <1>6, <1>7, <1>8
<1>10. Quantity(e.position) = 0 /\ o.qty # 0 => e.severity = "CRITICAL"
  BY <1>3, <1>5, <1>6, <1>7
<1>11. Clears(e, o)
  BY <1>9, <1>10 DEF Clears
<1> QED BY <1>11 DEF e

-----------------------------------------------------------------------------
(* Reconciliation: the inductive invariant. *)

CheckFields == {"pc", "obs", "mode", "at", "position", "read", "answer"}

IsCheck(r) == DOMAIN r = CheckFields /\ r = [f \in CheckFields |-> r[f]]

CheckFine(c) ==
    LET k == check[c]
    IN  /\ IsCheck(k)
        /\ k.pc \in {"idle", "reserve"} \cup Holding
        /\ k.pc # "idle" => k.obs \in Observations /\ k.at \in Nat
        /\ k.pc \in {"verify", "publish"} => k.position \in Positions
        /\ k.answer # NoEvidence => store[k.answer.id] = k.answer

Held(c) == check[c].obs.id

Holders == {c \in Checkers : check[c].pc \in Holding}

(* A reservation belongs to one call; the next one waits for it to leave. *)
Reservations ==
    /\ reconciling = {Held(c) : c \in Holders}
    /\ \A c, d \in Holders : Held(c) = Held(d) => c = d

(* What is stored was judged for the observation it is stored under. *)
StoredFine(i) ==
    store[i] # NoEvidence => store[i].id = i /\ Clears(store[i], Observation(i))

CheckingInv ==
    /\ ledger \in DOMAIN LedgerStates /\ checkTime \in Nat
    /\ check = [c \in Checkers |-> check[c]]
    /\ \A c \in Checkers : CheckFine(c)
    /\ Reservations
    /\ store = [i \in ObservationIDs |-> store[i]]
    /\ \A i \in ObservationIDs : StoredFine(i)
    /\ checkShutdown \in {"waiting", "returned"} => checkClosed
    /\ checkShutdown = "returned" => reconciling = {}

LEMMA ObservationNamed ==
    ASSUME NEW o \in Observations
    PROVE  o.id \in ObservationIDs /\ Observation(o.id) = o
<1>1. \A p \in Observations : p.id = o.id => p = o
  BY ReconciliationAssumption
<1>2. Observation(o.id) \in Observations /\ Observation(o.id).id = o.id
  BY DEF Observation
<1> QED BY <1>1, <1>2 DEF ObservationIDs

LEMMA CheckingInitial == CheckInit => CheckingInv
<1> SUFFICES ASSUME CheckInit PROVE CheckingInv
  OBVIOUS
<1>1. ledger \in DOMAIN LedgerStates /\ checkTime \in Nat
  BY ReconciliationAssumption DEF CheckInit
<1>2. \A c \in Checkers : CheckFine(c) /\ check[c].pc = "idle"
  BY DEF CheckInit, CheckFine, IsCheck, CheckFields, NoCheck, Holding
<1>3. Reservations
  BY <1>2 DEF CheckInit, Reservations, Holders, Holding
<1>4. \A i \in ObservationIDs : StoredFine(i)
  BY DEF CheckInit, StoredFine
<1> QED BY <1>1, <1>2, <1>3, <1>4 DEF CheckInit, CheckingInv

(* What every step of one call leaves as it is. *)
Unmoved ==
    /\ ledger' = ledger /\ checkTime' = checkTime
    /\ checkClosed' = checkClosed /\ checkShutdown' = checkShutdown

(* A call that leaves gives its own reservation back. *)
LEMMA AnswerReleases ==
    ASSUME CheckingInv, NEW c \in Checkers, NEW a, Answer(c, a)
    PROVE  /\ check'[c] = [NoCheck EXCEPT !.answer = a]
           /\ \A d \in Checkers : d # c => check'[d] = check[d]
           /\ check' = [d \in Checkers |-> check'[d]]
           /\ Reservations'
           /\ reconciling' \subseteq reconciling
<1>1. /\ check'[c] = [NoCheck EXCEPT !.answer = a]
      /\ \A d \in Checkers : d # c => check'[d] = check[d]
      /\ check' = [d \in Checkers |-> check'[d]]
  BY DEF Answer, CheckingInv
<1>2. check'[c].pc = "idle"
  BY <1>1 DEF NoCheck
<1>3. Holders' = Holders \ {c}
  BY <1>1, <1>2 DEF Holders, Holding
<1>4. \A d \in Holders' : Held(d)' = Held(d)
  BY <1>1, <1>3 DEF Held, Holders
<1>5. reconciling' = {Held(d) : d \in Holders \ {c}}
  <2>1. CASE c \in Holders
    <3>1. reconciling' = reconciling \ {Held(c)}
      BY <2>1 DEF Answer, Holders, Held
    <3> QED BY <3>1, <2>1 DEF CheckingInv, Reservations
  <2>2. CASE c \notin Holders
    <3>1. reconciling' = reconciling /\ Holders \ {c} = Holders
      BY <2>2 DEF Answer, Holders
    <3> QED BY <3>1 DEF CheckingInv, Reservations
  <2> QED BY <2>1, <2>2
<1>6. Reservations'
  <2>1. reconciling' = {Held(d)' : d \in Holders'}
    BY <1>3, <1>4, <1>5
  <2>2. \A d, e \in Holders' : Held(d)' = Held(e)' => d = e
    BY <1>3, <1>4 DEF CheckingInv, Reservations
  <2> QED BY <2>1, <2>2 DEF Reservations
<1>7. reconciling' \subseteq reconciling
  BY DEF Answer
<1> QED BY <1>1, <1>6, <1>7

(* A call answered with nothing or with what is stored keeps the invariant. *)
LEMMA AnswerKept ==
    ASSUME CheckingInv, NEW c \in Checkers, NEW a, Answer(c, a), Unmoved,
           a # NoEvidence => store'[a.id] = a,
           store' = [i \in ObservationIDs |-> store'[i]],
           \A i \in ObservationIDs : StoredFine(i)',
           \A d \in Checkers : LET b == check[d].answer
                               IN  b # NoEvidence => store'[b.id] = b
    PROVE  CheckingInv'
<1>1. check'[c] = [NoCheck EXCEPT !.answer = a]
  BY AnswerReleases
<1>2. \A d \in Checkers : d # c => check'[d] = check[d]
  BY AnswerReleases
<1>3. check' = [d \in Checkers |-> check'[d]] /\ Reservations' /\ reconciling' \subseteq reconciling
  BY AnswerReleases
<1>4. ASSUME NEW d \in Checkers PROVE CheckFine(d)'
  <2>1. CASE d = c
    <3>1. check'[d] = [pc |-> "idle", obs |-> NoEvidence, mode |-> NoEvidence, at |-> 0,
                       position |-> NoEvidence, read |-> 0, answer |-> a]
      BY <1>1, <2>1 DEF NoCheck
    <3> QED BY <3>1 DEF CheckFine, IsCheck, CheckFields, Holding
  <2>2. CASE d # c
    <3>1. check'[d] = check[d] /\ CheckFine(d)
      BY <1>2, <2>2 DEF CheckingInv
    <3> QED BY <3>1 DEF CheckFine
  <2> QED BY <2>1, <2>2
<1> QED BY <1>3, <1>4 DEF CheckingInv, Unmoved

(* A call that goes on, its reservation taken or kept, nothing stored. *)
LEMMA CheckMoves ==
    ASSUME CheckingInv, NEW c \in Checkers, NEW r, check' = [check EXCEPT ![c] = r],
           CheckFine(c)', Reservations', Unmoved, store' = store,
           checkShutdown = "returned" => reconciling' = {}
    PROVE  CheckingInv'
<1>1. ASSUME NEW d \in Checkers PROVE CheckFine(d)'
  <2>1. CASE d = c
    BY <2>1
  <2>2. CASE d # c
    <3>1. check'[d] = check[d] /\ CheckFine(d)
      BY <2>2 DEF CheckingInv
    <3> QED BY <3>1 DEF CheckFine
  <2> QED BY <2>1, <2>2
<1>2. check' = [d \in Checkers |-> check'[d]]
  BY DEF CheckingInv
<1>3. \A i \in ObservationIDs : StoredFine(i)'
  BY DEF CheckingInv, StoredFine
<1> QED BY <1>1, <1>2, <1>3 DEF CheckingInv, Unmoved

-----------------------------------------------------------------------------
(* Reconciliation: the steps. *)

(* A call answered with what the store has already, or with nothing. *)
LEMMA AnswerStored ==
    ASSUME CheckingInv, NEW c \in Checkers, NEW a, Answer(c, a), Unmoved, store' = store,
           a # NoEvidence => store[a.id] = a
    PROVE  CheckingInv'
<1>1. store' = [i \in ObservationIDs |-> store'[i]]
  BY DEF CheckingInv
<1>2. \A i \in ObservationIDs : StoredFine(i)'
  BY DEF CheckingInv, StoredFine
<1>3. \A d \in Checkers : LET b == check[d].answer
                          IN  b # NoEvidence => store'[b.id] = b
  BY DEF CheckingInv, CheckFine
<1> QED BY <1>1, <1>2, <1>3, AnswerKept

(* A call whose place does not change whether it holds a reservation. *)
LEMMA SameHolders ==
    ASSUME CheckingInv, NEW c \in Checkers, NEW r, check' = [check EXCEPT ![c] = r],
           r.pc \in Holding <=> check[c].pc \in Holding,
           c \in Holders => r.obs = check[c].obs, reconciling' = reconciling
    PROVE  Reservations'
<1>1. check'[c] = r /\ \A d \in Checkers : d # c => check'[d] = check[d]
  BY DEF CheckingInv
<1>2. Holders' = Holders
  BY <1>1 DEF Holders
<1>3. \A d \in Holders : Held(d)' = Held(d)
  BY <1>1 DEF Held, Holders
<1>4. reconciling' = {Held(d)' : d \in Holders'}
  BY <1>2, <1>3 DEF CheckingInv, Reservations
<1>5. \A d, e \in Holders' : Held(d)' = Held(e)' => d = e
  BY <1>2, <1>3 DEF CheckingInv, Reservations
<1> QED BY <1>4, <1>5 DEF Reservations

LEMMA LookupKept ==
    ASSUME CheckingInv, NEW c \in Checkers, NEW o \in Observations, NEW mode,
           Lookup(c, o, mode)
    PROVE  CheckingInv'
<1>1. check[c].pc = "idle" /\ c \notin Holders /\ Unmoved /\ store' = store
      /\ reconciling' = reconciling
  BY DEF Lookup, Unmoved, Holders, Holding
<1>2. CASE ~ValidObservation(o)
  <2>1. check' = [check EXCEPT ![c] = [NoCheck EXCEPT !.answer = NoEvidence]]
    BY <1>2 DEF Lookup, NoCheck
  <2>2. Answer(c, NoEvidence)
    BY <1>1, <2>1 DEF Answer, Holding
  <2> QED BY <1>1, <2>2, AnswerStored
<1>3. CASE ValidObservation(o) /\ store[o.id] # NoEvidence
  <2>1. Answer(c, store[o.id])
    BY <1>1, <1>3 DEF Lookup, Answer, Holding
  <2>2. store[o.id].id = o.id
    BY <1>3, ObservationNamed DEF CheckingInv, StoredFine
  <2> QED BY <1>1, <2>1, <2>2, AnswerStored
<1>4. CASE ValidObservation(o) /\ store[o.id] = NoEvidence
  <2> DEFINE r == [NoCheck EXCEPT !.pc = "reserve", !.obs = o, !.mode = mode, !.at = checkTime]
  <2>1. check' = [check EXCEPT ![c] = r]
    BY <1>4 DEF Lookup
  <2>2. check'[c] = r
    BY <2>1 DEF CheckingInv
  <2>3. CheckFine(c)'
    <3>1. IsCheck(NoCheck) /\ NoCheck.answer = NoEvidence
      BY DEF IsCheck, CheckFields, NoCheck
    <3> HIDE DEF NoCheck
    <3>2. IsCheck(r) /\ r.pc = "reserve" /\ r.obs = o /\ r.at = checkTime
          /\ r.answer = NoEvidence
      BY <3>1 DEF IsCheck, CheckFields
    <3> HIDE DEF r
    <3> QED BY <2>2, <3>2 DEF CheckFine, Holding, CheckingInv
  <2>4. r.pc = "reserve"
    BY DEF NoCheck
  <2> HIDE DEF r
  <2>5. Reservations'
    BY <1>1, <2>1, <2>4, SameHolders DEF Holding
  <2>6. checkShutdown = "returned" => reconciling' = {}
    BY <1>1 DEF CheckingInv
  <2> QED BY <1>1, <2>1, <2>3, <2>5, <2>6, CheckMoves
<1> QED BY <1>2, <1>3, <1>4

LEMMA ReserveKept ==
    ASSUME CheckingInv, NEW c \in Checkers, ReserveCheck(c)
    PROVE  CheckingInv'
<1>1. check[c].pc = "reserve" /\ c \notin Holders /\ Unmoved /\ store' = store
  BY DEF ReserveCheck, Unmoved, Holders, Holding
<1>2. CASE checkClosed \/ Held(c) \in reconciling
  BY <1>1, <1>2, AnswerStored DEF ReserveCheck, Held
<1>3. CASE ~checkClosed /\ Held(c) \notin reconciling
  <2> DEFINE r == [check[c] EXCEPT !.pc = "read"]
  <2>1. check' = [check EXCEPT ![c] = r] /\ reconciling' = reconciling \cup {Held(c)}
    BY <1>3 DEF ReserveCheck, Held
  <2>2. check'[c] = r /\ \A d \in Checkers : d # c => check'[d] = check[d]
    BY <2>1 DEF CheckingInv
  <2>3. IsCheck(check[c]) /\ CheckFine(c)
    BY DEF CheckingInv, CheckFine
  <2>4. /\ check'[c].pc = "read" /\ check'[c].obs = check[c].obs /\ check'[c].at = check[c].at
        /\ check'[c].answer = check[c].answer /\ IsCheck(check'[c])
    BY <2>2, <2>3 DEF IsCheck, CheckFields
  <2>5. CheckFine(c)'
    BY <1>1, <2>3, <2>4 DEF CheckFine, Holding
  <2>6. Holders' = Holders \cup {c} /\ \A d \in Holders' : Held(d)' = Held(d)
    BY <2>2, <2>4 DEF Holders, Holding, Held
  <2>7. reconciling' = {Held(d)' : d \in Holders'}
    BY <2>1, <2>6 DEF CheckingInv, Reservations
  <2>8. \A d, e \in Holders' : Held(d)' = Held(e)' => d = e
    <3>1. \A d \in Holders : Held(d) # Held(c)
      BY <1>3 DEF CheckingInv, Reservations
    <3> QED BY <2>6, <3>1 DEF CheckingInv, Reservations
  <2>9. Reservations'
    BY <2>7, <2>8 DEF Reservations
  <2>10. checkShutdown # "returned"
    BY <1>3 DEF CheckingInv
  <2> QED BY <1>1, <2>1, <2>5, <2>9, <2>10, CheckMoves
<1> QED BY <1>2, <1>3

(* A position read is one the ledger has. *)
LEMMA ReadKeptHere ==
    ASSUME CheckingInv, NEW c \in Checkers, ReadPosition(c)
    PROVE  CheckingInv'
<1> DEFINE r == [check[c] EXCEPT !.pc = "verify", !.position = Local, !.read = ledger]
<1>1. check[c].pc = "read" /\ Unmoved /\ store' = store /\ reconciling' = reconciling
  BY DEF ReadPosition, Unmoved
<1>2. check' = [check EXCEPT ![c] = r]
  BY DEF ReadPosition
<1>3. Local \in Positions
  BY ReconciliationAssumption DEF Local, Positions, CheckingInv
<1>4. IsCheck(check[c]) /\ CheckFine(c)
  BY DEF CheckingInv, CheckFine
<1>5. check'[c] = r
  BY <1>2 DEF CheckingInv
<1>6. /\ r.pc = "verify" /\ r.position = Local /\ r.obs = check[c].obs /\ r.at = check[c].at
      /\ r.answer = check[c].answer /\ IsCheck(r)
  BY <1>4 DEF IsCheck, CheckFields
<1>7. CheckFine(c)'
  BY <1>1, <1>3, <1>4, <1>5, <1>6 DEF CheckFine, Holding
<1> HIDE DEF r
<1>8. Reservations'
  BY <1>1, <1>2, <1>6, SameHolders DEF Holding
<1>9. checkShutdown = "returned" => reconciling' = {}
  BY <1>1 DEF CheckingInv
<1> QED BY <1>1, <1>2, <1>7, <1>8, <1>9, CheckMoves

LEMMA VerifyKept ==
    ASSUME CheckingInv, NEW c \in Checkers, Verify(c)
    PROVE  CheckingInv'
<1>1. check[c].pc = "verify" /\ Unmoved /\ store' = store
  BY DEF Verify, Unmoved
<1>2. CASE check[c].position # NoEvidence /\ check[c].read # ledger
  BY <1>1, <1>2, AnswerStored DEF Verify
<1>3. CASE ~(check[c].position # NoEvidence /\ check[c].read # ledger)
  <2> DEFINE r == [check[c] EXCEPT !.pc = "publish"]
  <2>1. check' = [check EXCEPT ![c] = r] /\ reconciling' = reconciling
    BY <1>3 DEF Verify
  <2>2. IsCheck(check[c]) /\ CheckFine(c)
    BY DEF CheckingInv, CheckFine
  <2>3. check'[c] = r
    BY <2>1 DEF CheckingInv
  <2>4. /\ r.pc = "publish" /\ r.position = check[c].position /\ r.obs = check[c].obs
        /\ r.at = check[c].at /\ r.answer = check[c].answer /\ IsCheck(r)
    BY <2>2 DEF IsCheck, CheckFields
  <2>5. CheckFine(c)'
    BY <1>1, <2>2, <2>3, <2>4 DEF CheckFine, Holding
  <2>6. Reservations'
    BY <1>1, <2>1, <2>4, SameHolders DEF Holding
  <2> QED BY <1>1, <2>1, <2>5, <2>6, CheckMoves DEF CheckingInv
<1> QED BY <1>2, <1>3

(* Publishing: evidence is stored where there was none, or found as it is. *)
LEMMA EvidenceKept ==
    ASSUME CheckingInv, NEW c \in Checkers, PublishEvidence(c)
    PROVE  CheckingInv'
<1> DEFINE k == check[c]
           e == BuildEvidence(k.position, k.obs, k.mode, k.at)
<1>1. k.pc = "publish" /\ Unmoved
  BY DEF PublishEvidence, Unmoved
<1>2. k.obs \in Observations /\ k.at \in Int /\ k.position \in Positions
  BY <1>1 DEF CheckingInv, CheckFine, Holding
<1>3. e.id = k.obs.id
  BY DEF BuildEvidence
<1>4. e.id \in ObservationIDs /\ Observation(e.id) = k.obs
  BY <1>2, <1>3, ObservationNamed
<1>5. CASE MayStore(e)
  <2>1. Answer(c, e) /\ store' = [store EXCEPT ![e.id] = e]
    BY <1>5 DEF PublishEvidence
  <2>2. store[e.id] = NoEvidence
    BY <1>5 DEF MayStore
  <2> HIDE DEF e
  <2>3. store' = [i \in ObservationIDs |-> store'[i]] /\ store'[e.id] = e
        /\ \A i \in ObservationIDs : i # e.id => store'[i] = store[i]
    BY <2>1, <1>4 DEF CheckingInv
  <2>4. Clears(e, k.obs)
    BY <1>2, EvidenceSound DEF e
  <2>5. \A i \in ObservationIDs : StoredFine(i)'
    BY <2>3, <2>4, <1>4 DEF CheckingInv, StoredFine
  <2>6. ASSUME NEW d \in Checkers, check[d].answer # NoEvidence
        PROVE  store'[check[d].answer.id] = check[d].answer
    <3>1. store[check[d].answer.id] = check[d].answer
      BY <2>6 DEF CheckingInv, CheckFine
    <3>2. check[d].answer.id # e.id
      BY <2>2, <2>6, <3>1
    <3> QED BY <2>1, <3>1, <3>2 DEF CheckingInv
  <2> QED BY <1>1, <2>1, <2>3, <2>5, <2>6, AnswerKept
<1>6. CASE ~MayStore(e)
  <2>1. Answer(c, IF store[e.id] = e THEN e ELSE NoEvidence) /\ store' = store
    BY <1>6 DEF PublishEvidence
  <2> HIDE DEF e
  <2> QED BY <1>1, <2>1, AnswerStored
<1> QED BY <1>5, <1>6

LEMMA CheckingKept == CheckingInv /\ [CheckNext]_checkVars => CheckingInv'
<1> SUFFICES ASSUME CheckingInv, [CheckNext]_checkVars PROVE CheckingInv'
  OBVIOUS
<1>1. ASSUME NEW c \in Checkers, NEW o \in Observations, NEW mode \in Modes, Lookup(c, o, mode)
      PROVE  CheckingInv'
  BY <1>1, LookupKept
<1>2. ASSUME NEW c \in Checkers,
             \/ ReserveCheck(c) \/ ReadPosition(c) \/ Verify(c) \/ PublishEvidence(c)
      PROVE  CheckingInv'
  BY <1>2, ReserveKept, ReadKeptHere, VerifyKept, EvidenceKept
<1>3. ASSUME NEW c \in Checkers, AbortCheck(c)
      PROVE  CheckingInv'
  BY <1>3, AnswerStored DEF AbortCheck, Unmoved
<1>4. ASSUME UNCHANGED <<check, reconciling, store>>,
             ledger' \in DOMAIN LedgerStates, checkTime' \in Nat,
             checkShutdown' \in {"waiting", "returned"} => checkClosed',
             checkShutdown' = "returned" => reconciling = {}
      PROVE  CheckingInv'
  <2>1. \A c \in Checkers : CheckFine(c)'
    BY <1>4 DEF CheckingInv, CheckFine
  <2>2. Reservations' /\ \A i \in ObservationIDs : StoredFine(i)'
    BY <1>4 DEF CheckingInv, Reservations, Holders, Held, StoredFine
  <2> QED BY <1>4, <2>1, <2>2 DEF CheckingInv
<1>5. CASE ShutdownChecks
  BY <1>4, <1>5 DEF ShutdownChecks, CheckingInv
<1>6. CASE ChecksStopped
  BY <1>4, <1>6 DEF ChecksStopped, CheckingInv
<1>7. CASE LedgerMoves
  <2>1. ledger' \in DOMAIN LedgerStates /\ checkTime' \in Nat
    BY <1>7, ReconciliationAssumption DEF LedgerMoves, CheckingInv
  <2> QED BY <1>4, <1>7, <2>1 DEF LedgerMoves, CheckingInv
<1>8. CASE UNCHANGED checkVars
  BY <1>4, <1>8 DEF checkVars, CheckingInv
<1> QED BY <1>1, <1>2, <1>3, <1>5, <1>6, <1>7, <1>8 DEF CheckNext

(* Only the broker's complete, comparable and recent answer that agrees with    *)
(* the ledger clears an instrument; evidence is recorded once, whoever asks,    *)
(* and nobody reconciles after a shutdown that returned (Coordinator.Reconcile, *)
(* ReconciliationStore.Publish).                                                *)
THEOREM ReconciliationIsSound == ReconciliationSpec => []ReconciliationInv
<1>1. ASSUME CheckingInv PROVE ReconciliationInv
  <2>1. ClearMeansEqual
    BY <1>1 DEF CheckingInv, StoredFine, Clears, ClearMeansEqual
  <2>2. AnswersAgree
    BY <1>1 DEF CheckingInv, CheckFine, AnswersAgree
  <2>3. reconciling = {check[c].obs.id : c \in {d \in Checkers : check[d].pc \in Holding}}
    BY <1>1 DEF CheckingInv, Reservations, Holders, Held
  <2>4. CheckedBeforeShutdown
    BY <1>1 DEF CheckingInv, CheckedBeforeShutdown
  <2> QED BY <2>1, <2>2, <2>3, <2>4 DEF ReconciliationInv
<1> QED BY <1>1, CheckingInitial, CheckingKept, PTL DEF ReconciliationSpec

-----------------------------------------------------------------------------
(* Valuation: what a snapshot says. *)

Marked == MarkStates \cup {Nothing}

LEMMA SideOfPrice ==
    ASSUME NEW q \in Int, NEW price \in Int, NEW basis \in Int, q # 0
    PROVE  /\ q > 0 => price * q - basis = q * price - basis
           /\ q < 0 => basis - price * Abs(q) = q * price - (-basis)
           /\ price * Abs(q) \in Int
<1>1. q < 0 => Abs(q) = -q
  BY DEF Abs
<1>2. q > 0 => Abs(q) = q
  BY DEF Abs
<1>3. price * q \in Int /\ price * (-q) \in Int /\ q * price \in Int
  OBVIOUS
<1>4. price * q = q * price
  OBVIOUS
<1>5. price * (-q) = -(price * q)
  OBVIOUS
<1>6. q < 0 => price * Abs(q) = -(price * q)
  BY <1>1, <1>5
<1>7. q > 0 => price * Abs(q) = price * q
  BY <1>2
<1> DEFINE product == price * q
<1> HIDE DEF product
<1>8. q * price = product /\ product \in Int
  BY <1>3, <1>4 DEF product
<1>9. q < 0 => price * Abs(q) = -product
  BY <1>6 DEF product
<1>10. q > 0 => price * Abs(q) = product
  BY <1>7 DEF product
<1>11. q > 0 => price * q - basis = q * price - basis
  BY <1>4
<1>12. q < 0 => basis - price * Abs(q) = q * price - (-basis)
  BY <1>8, <1>9
<1>13. price * Abs(q) \in Int
  BY <1>8, <1>9, <1>10
<1> QED BY <1>11, <1>12, <1>13

(* What a valuation says of the position and of the mark it was made from. *)
Values(e, s, m, at) ==
    /\ e.qty = s.qty /\ e.realized = s.realized
    /\ e.status \in {"COMPLETE", "STALE", "UNAVAILABLE"}
    /\ e.status # "UNAVAILABLE" =>
         /\ e.unrealized \in Int /\ e.market \in Int
         /\ s.qty = 0 => e.unrealized = 0
         /\ s.qty # 0 => m # Nothing /\ e.unrealized = s.qty * m.price - Signed(s)
         /\ s.qty # 0 /\ e.status = "COMPLETE" =>
              /\ m.type = "LAST_TRADED_PRICE" /\ m.ready
              /\ at - m.exchange <= MaxAge /\ at - m.ingested <= MaxAge
    /\ e.status = "UNAVAILABLE" => e.unrealized = Nothing /\ s.qty # 0

LEMMA EvaluationSays ==
    ASSUME NEW s \in BookStates, NEW m \in Marked, NEW at \in Int,
           EvaluatePosition(s, m, at) # Nothing
    PROVE  Values(EvaluatePosition(s, m, at), s, m, at)
<1> DEFINE e == EvaluatePosition(s, m, at)
<1>0. s.qty \in Int /\ s.basis \in Int /\ s.realized \in Int
  BY DEF BookStates
<1>1. CASE s.qty = 0
  <2>1. e = [status |-> "COMPLETE", reason |-> "NONE", qty |-> 0, realized |-> s.realized,
             market |-> 0, unrealized |-> 0]
    BY <1>1 DEF EvaluatePosition
  <2> HIDE DEF e
  <2>2. Values(e, s, m, at)
    BY <1>1, <2>1 DEF Values
  <2> QED BY <2>2 DEF e
<1>2. ASSUME NEW reason, s.qty # 0, e = Unvalued(s, reason)
      PROVE  Values(e, s, m, at)
  <2> HIDE DEF e
  <2> QED BY <1>2 DEF Values, Unvalued
<1>3. CASE s.qty # 0 /\ m = Nothing
  <2>1. e = Unvalued(s, "MISSING_MARK")
    BY <1>3 DEF EvaluatePosition
  <2> QED BY <1>2, <1>3, <2>1
<1>4. CASE s.qty # 0 /\ m # Nothing
  <2>1. e = IF m.type # "LAST_TRADED_PRICE" \/ m.price <= 0 THEN Unvalued(s, "INVALID_PRICE")
            ELSE IF m.currency # s.currency THEN Unvalued(s, "CURRENCY_MISMATCH")
            ELSE IF Skewed(m, at) THEN Unvalued(s, "CLOCK_SKEW")
            ELSE IF Overflows(s, m) THEN Nothing
            ELSE [status |-> IF IsStale(m, at) THEN "STALE" ELSE "COMPLETE",
                  reason |-> IF IsStale(m, at) THEN "STALE_MARK" ELSE "NONE",
                  qty |-> s.qty, realized |-> s.realized,
                  market |-> m.price * Abs(s.qty),
                  unrealized |-> IF s.qty > 0 THEN m.price * s.qty - s.basis
                                 ELSE s.basis - m.price * Abs(s.qty)]
    BY <1>4 DEF EvaluatePosition
  <2>2. m.price \in Int /\ m.exchange \in Int /\ m.ingested \in Int
    BY <1>4 DEF Marked, MarkStates
  <2>3. CASE \/ m.type # "LAST_TRADED_PRICE" \/ m.price <= 0
             \/ m.currency # s.currency \/ Skewed(m, at)
    <3>1. CASE m.type # "LAST_TRADED_PRICE" \/ m.price <= 0
      <4>1. e = Unvalued(s, "INVALID_PRICE")
        BY <2>1, <3>1
      <4> QED BY <1>2, <1>4, <4>1
    <3>3. CASE m.type = "LAST_TRADED_PRICE" /\ ~(m.price <= 0) /\ m.currency # s.currency
      <4>1. e = Unvalued(s, "CURRENCY_MISMATCH")
        BY <2>1, <3>3
      <4> QED BY <1>2, <1>4, <4>1
    <3>4. CASE /\ m.type = "LAST_TRADED_PRICE" /\ ~(m.price <= 0)
               /\ m.currency = s.currency /\ Skewed(m, at)
      <4>1. e = Unvalued(s, "CLOCK_SKEW")
        BY <2>1, <3>4
      <4> QED BY <1>2, <1>4, <4>1
    <3> QED BY <2>3, <3>1, <3>3, <3>4
  <2>4. CASE /\ ~(m.type # "LAST_TRADED_PRICE") /\ ~(m.price <= 0)
             /\ ~(m.currency # s.currency) /\ ~Skewed(m, at)
    <3>1. ~Overflows(s, m)
      BY <2>1, <2>4
    <3>2. e = [status |-> IF IsStale(m, at) THEN "STALE" ELSE "COMPLETE",
               reason |-> IF IsStale(m, at) THEN "STALE_MARK" ELSE "NONE",
               qty |-> s.qty, realized |-> s.realized,
               market |-> m.price * Abs(s.qty),
               unrealized |-> IF s.qty > 0 THEN m.price * s.qty - s.basis
                              ELSE s.basis - m.price * Abs(s.qty)]
      <4> HIDE DEF e
      <4> QED BY <2>1, <2>4, <3>1
    <3> HIDE DEF e
    <3>3. /\ e.qty = s.qty /\ e.realized = s.realized /\ e.market = m.price * Abs(s.qty)
          /\ e.status = IF IsStale(m, at) THEN "STALE" ELSE "COMPLETE"
          /\ e.unrealized = IF s.qty > 0 THEN m.price * s.qty - s.basis
                            ELSE s.basis - m.price * Abs(s.qty)
      BY <3>2
    <3>4. /\ s.qty > 0 => m.price * s.qty - s.basis = s.qty * m.price - s.basis
          /\ s.qty < 0 => s.basis - m.price * Abs(s.qty) = s.qty * m.price - (-s.basis)
          /\ m.price * Abs(s.qty) \in Int
      <4> DEFINE q == s.qty
                 price == m.price
                 basis == s.basis
      <4>1. q \in Int /\ price \in Int /\ basis \in Int /\ q # 0
        BY <1>0, <1>4, <2>2
      <4> HIDE DEF q, price, basis
      <4>2. /\ q > 0 => price * q - basis = q * price - basis
            /\ q < 0 => basis - price * Abs(q) = q * price - (-basis)
            /\ price * Abs(q) \in Int
        BY <4>1, SideOfPrice
      <4> QED BY <4>2 DEF q, price, basis
    <3>5. e.unrealized = s.qty * m.price - Signed(s)
      <4>1. CASE s.qty > 0
        <5>1. e.unrealized = m.price * s.qty - s.basis /\ Signed(s) = s.basis
          BY <4>1, <3>3 DEF Signed
        <5>2. e.unrealized = s.qty * m.price - s.basis
          BY <4>1, <3>4, <5>1
        <5> QED BY <5>1, <5>2
      <4>2. CASE s.qty < 0
        <5>1. e.unrealized = s.basis - m.price * Abs(s.qty) /\ Signed(s) = -s.basis
          BY <1>0, <4>2, <3>3 DEF Signed
        <5>2. e.unrealized = s.qty * m.price - (-s.basis)
          BY <4>2, <3>4, <5>1
        <5> QED BY <5>1, <5>2
      <4> QED BY <1>0, <1>4, <4>1, <4>2
    <3>6. e.unrealized \in Int /\ e.market \in Int
      <4>1. Signed(s) \in Int /\ s.qty * m.price \in Int
        BY <1>0, <2>2 DEF Signed
      <4> QED BY <3>3, <3>4, <3>5, <4>1
    <3>7. e.status = "COMPLETE" =>
            m.ready /\ at - m.exchange <= MaxAge /\ at - m.ingested <= MaxAge
      <4>1. e.status = "COMPLETE" => ~IsStale(m, at)
        BY <3>3
      <4>2. MaxAge \in Int
        BY ValuationAssumption
      <4> QED BY <2>2, <4>1, <4>2 DEF IsStale
    <3>8. Values(e, s, m, at)
      BY <1>4, <2>4, <3>3, <3>5, <3>6, <3>7 DEF Values
    <3> QED BY <3>8 DEF e
  <2> QED BY <2>3, <2>4
<1> QED BY <1>1, <1>3, <1>4

(* The valuations of a portfolio's positions at its marks. *)
Valued(p, positions, marks, at, v) ==
    /\ v = [x \in Portfolios[p] |-> EvaluatePosition(positions[x], marks[x], at)]
    /\ \A x \in Portfolios[p] : v[x] # Nothing

LEMMA EachValued ==
    ASSUME NEW p \in DOMAIN Portfolios, NEW positions \in [Portfolios[p] -> BookStates],
           NEW marks \in [Portfolios[p] -> Marked], NEW at \in Int, NEW v,
           Valued(p, positions, marks, at, v)
    PROVE  /\ DOMAIN v = Portfolios[p]
           /\ \A x \in Portfolios[p] : Values(v[x], positions[x], marks[x], at)
<1>1. DOMAIN v = Portfolios[p]
  BY DEF Valued
<1>2. ASSUME NEW x \in Portfolios[p] PROVE Values(v[x], positions[x], marks[x], at)
  <2>1. v[x] = EvaluatePosition(positions[x], marks[x], at) /\ v[x] # Nothing
    BY DEF Valued
  <2>2. positions[x] \in BookStates /\ marks[x] \in Marked
    OBVIOUS
  <2> QED BY <2>1, <2>2, EvaluationSays
<1> QED BY <1>1, <1>2

(* The statuses that carry totals are those of portfolios valued throughout. *)
LEMMA StatusSays ==
    ASSUME NEW v
    PROVE  /\ PortfolioStatus(v) \in {"COMPLETE", "STALE", "PARTIAL", "UNAVAILABLE"}
           /\ PortfolioStatus(v) \in {"COMPLETE", "STALE"} =>
                \A x \in DOMAIN v : v[x].status # "UNAVAILABLE"
           /\ PortfolioStatus(v) = "COMPLETE" => \A x \in DOMAIN v : v[x].status # "STALE"
BY DEF PortfolioStatus

(* A sum over some of the positions is a number. *)
LEMMA TotalType ==
    ASSUME NEW S, IsFiniteSet(S), NEW v, NEW field, \A x \in S : v[x][field] \in Int
    PROVE  Total(S, v, field) \in Int
<1> DEFINE g == [x \in S |-> v[x][field]]
<1>1. g \in [S -> Int]
  OBVIOUS
<1> HIDE DEF g
<1>2. SumFunction(g) \in Int
  BY <1>1, SumType
<1> QED BY <1>2 DEF Total, g

LEMMA SnapshotExact ==
    ASSUME NEW p \in DOMAIN Portfolios, NEW positions \in [Portfolios[p] -> BookStates],
           NEW marks \in [Portfolios[p] -> Marked], NEW at \in Int, NEW v,
           Valued(p, positions, marks, at, v), NEW revision \in Int,
           Aggregate(revision, v, at) # Nothing
    PROVE  /\ Aggregate(revision, v, at) \in Snapshots
           /\ Aggregate(revision, v, at).revision = revision
           /\ Exact(p, positions, marks, at, Aggregate(revision, v, at))
<1> DEFINE known == {x \in DOMAIN v : v[x].unrealized # Nothing}
           long == Total({x \in known : v[x].qty > 0}, v, "market")
           short == Total({x \in known : v[x].qty < 0}, v, "market")
           realized == Total(DOMAIN v, v, "realized")
           unrealized == Total(known, v, "unrealized")
           status == PortfolioStatus(v)
           totals == status \in {"COMPLETE", "STALE"}
           open == {x \in Portfolios[p] : positions[x].qty # 0}
           s == [revision |-> revision, at |-> at, status |-> status, realized |-> realized,
                 total |-> IF totals THEN realized + unrealized ELSE Nothing,
                 gross |-> IF totals THEN long + short ELSE Nothing,
                 net |-> IF totals THEN long - short ELSE Nothing]
<1>1. Aggregate(revision, v, at) = s
  BY DEF Aggregate
<1>2. DOMAIN v = Portfolios[p] /\ IsFiniteSet(Portfolios[p])
  BY EachValued, ValuationAssumption
<1>3. \A x \in Portfolios[p] : Values(v[x], positions[x], marks[x], at)
  BY EachValued
<1>4. \A x \in Portfolios[p] : positions[x] \in BookStates
  OBVIOUS
<1>5. realized \in Int
  <2>1. \A x \in DOMAIN v : v[x]["realized"] \in Int
    BY <1>2, <1>3, <1>4 DEF Values, BookStates
  <2> QED BY <1>2, <2>1, TotalType
<1>6. /\ known \subseteq Portfolios[p] /\ IsFiniteSet(known)
      /\ \A x \in known : v[x]["market"] \in Int /\ v[x]["unrealized"] \in Int
  <2>1. known \subseteq Portfolios[p]
    BY <1>2
  <2>2. \A x \in known : v[x].status # "UNAVAILABLE"
    BY <1>2, <1>3 DEF Values
  <2>3. \A x \in known : v[x].market \in Int /\ v[x].unrealized \in Int
    BY <1>3, <2>1, <2>2 DEF Values
  <2> QED BY <1>2, <2>1, <2>3, FS_Subset
<1>7. long \in Int /\ short \in Int /\ unrealized \in Int
  <2>1. ASSUME NEW S, S \subseteq known PROVE Total(S, v, "market") \in Int
    <3>1. IsFiniteSet(S)
      BY <1>6, <2>1, FS_Subset
    <3>2. \A x \in S : v[x]["market"] \in Int
      BY <1>6, <2>1
    <3> QED BY <3>1, <3>2, TotalType
  <2>2. long \in Int
    <3>1. {x \in known : v[x].qty > 0} \subseteq known
      OBVIOUS
    <3> QED BY <2>1, <3>1
  <2>3. short \in Int
    <3>1. {x \in known : v[x].qty < 0} \subseteq known
      OBVIOUS
    <3> QED BY <2>1, <3>1
  <2>4. unrealized \in Int
    BY <1>6, TotalType
  <2> QED BY <2>2, <2>3, <2>4
<1>8. status \in {"COMPLETE", "STALE", "PARTIAL", "UNAVAILABLE"}
  BY StatusSays
<1>9. s \in Snapshots
  <2> HIDE DEF long, short, realized, unrealized, status
  <2> QED BY <1>5, <1>7, <1>8 DEF Snapshots
<1>10. s.revision = revision /\ s.status = status
  OBVIOUS
<1>11. ASSUME s.total # Nothing
       PROVE  /\ \A x \in open : marks[x] # Nothing
              /\ s.total = Total(Portfolios[p], positions, "realized")
                   + SumFunction([x \in open |-> positions[x].qty * marks[x].price
                                                 - Signed(positions[x])])
              /\ status = "COMPLETE" =>
                   \A x \in open : /\ marks[x].type = "LAST_TRADED_PRICE" /\ marks[x].ready
                                   /\ at - marks[x].exchange <= MaxAge
                                   /\ at - marks[x].ingested <= MaxAge
  <2>1. totals /\ s.total = realized + unrealized
    <3> HIDE DEF realized, unrealized, long, short, status
    <3> QED BY <1>11
  <2>2. \A x \in Portfolios[p] : v[x].status # "UNAVAILABLE"
    BY <1>2, <2>1, StatusSays
  <2>3. \A x \in open : marks[x] # Nothing
    BY <1>3, <2>2 DEF Values
  <2>4. known = Portfolios[p]
    BY <1>2, <1>3, <2>2, ValuationAssumption DEF Values
  <2>5. realized = Total(Portfolios[p], positions, "realized")
    <3>1. \A x \in Portfolios[p] : v[x]["realized"] = positions[x]["realized"]
      BY <1>3 DEF Values
    <3>2. [x \in Portfolios[p] |-> v[x]["realized"]] = [x \in Portfolios[p] |-> positions[x]["realized"]]
      BY <3>1
    <3> QED BY <1>2, <3>2 DEF Total
  <2> DEFINE g == [x \in Portfolios[p] |-> v[x]["unrealized"]]
             h == [x \in open |-> positions[x].qty * marks[x].price - Signed(positions[x])]
  <2>6. unrealized = SumFunction(g)
    BY <2>4 DEF Total
  <2>7. \A x \in Portfolios[p] : g[x] \in Int
    BY <1>6, <2>4
  <2>8. \A x \in Portfolios[p] \ open : g[x] = 0
    BY <1>3, <2>2 DEF Values
  <2>9. \A x \in open : h[x] = g[x] /\ h[x] \in Int
    <3> SUFFICES ASSUME NEW x \in open PROVE h[x] = g[x] /\ h[x] \in Int
      OBVIOUS
    <3>1. Values(v[x], positions[x], marks[x], at) /\ v[x].status # "UNAVAILABLE"
          /\ positions[x].qty # 0
      BY <1>3, <2>2
    <3>2. v[x].unrealized = positions[x].qty * marks[x].price - Signed(positions[x])
      BY <3>1 DEF Values
    <3>3. h[x] = v[x].unrealized /\ g[x] = v[x].unrealized
      BY <3>2
    <3> QED BY <2>7, <3>3
  <2>10. SumFunction(g) = SumFunction(h)
    <3>1. g \in [Portfolios[p] -> Int] /\ h \in [open -> Int] /\ open \in SUBSET Portfolios[p]
      BY <2>7, <2>9
    <3> HIDE DEF g, h, open
    <3> QED BY <1>2, <2>8, <2>9, <3>1, SumOfSome
  <2>11. s.total = Total(Portfolios[p], positions, "realized") + SumFunction(h)
    <3> HIDE DEF g, h, realized, unrealized, s
    <3> QED BY <2>1, <2>5, <2>6, <2>10
  <2>12. ASSUME status = "COMPLETE", NEW x \in open
         PROVE  /\ marks[x].type = "LAST_TRADED_PRICE" /\ marks[x].ready
                /\ at - marks[x].exchange <= MaxAge /\ at - marks[x].ingested <= MaxAge
    <3>1. v[x].status # "STALE" /\ v[x].status # "UNAVAILABLE"
      BY <1>2, <2>2, <2>12, StatusSays
    <3>2. v[x].status = "COMPLETE" /\ Values(v[x], positions[x], marks[x], at)
      BY <1>3, <3>1 DEF Values
    <3> QED BY <3>2 DEF Values
  <2> QED BY <2>3, <2>11, <2>12
<1>12. Exact(p, positions, marks, at, s)
  <2> HIDE DEF s, status
  <2> QED BY <1>10, <1>11 DEF Exact
<1> HIDE DEF s
<1> QED BY <1>1, <1>9, <1>10, <1>12

-----------------------------------------------------------------------------
(* Valuation: the inductive invariant. *)

CallFields ==
    {"pc", "portfolio", "at", "positions", "marks", "valuations", "parent", "snapshot",
     "together", "answer"}

IsCall(r) == DOMAIN r = CallFields /\ r = [f \in CallFields |-> r[f]]

(* Where a call has a snapshot, the valuations for one, and positions. *)
Snapping == {"verify", "verifyMarks", "publish"}
Judging == {"current"} \cup Snapping
Reading == {"marks"} \cup Judging

(* The positions a call has read are states the books have had; overtaken, one  *)
(* of them is no longer the present one.                                        *)
FromBooks(k, places) ==
    \A x \in Portfolios[k.portfolio] :
        \E i \in 1 .. places[x] : k.positions[x] = Books[x][i]

Overtaken(k, places) ==
    \E x \in Portfolios[k.portfolio] :
        \E i \in 1 .. (places[x] - 1) : k.positions[x] = Books[x][i]

NextRevision(s) == IF s = Nothing THEN 1 ELSE s.value.revision + 1

SnapshotFine(k) ==
    /\ k.parent \in Entries(k.portfolio) \cup {Nothing}
    /\ k.snapshot \in Snapshots
    /\ k.snapshot.revision = NextRevision(k.parent)
    /\ Exact(k.portfolio, k.positions, k.marks, k.at, k.snapshot)

(* Positions that were read before the marks were there when the marks were read, *)
(* or have been overtaken since: reading them again tells the two apart.          *)
Sound(k, places) ==
    /\ IsCall(k)
    /\ k.pc \in {"idle", "acquire", "positions"} \cup Reading
    /\ k.pc # "idle" => k.portfolio \in DOMAIN Portfolios /\ k.at \in Int
    /\ k.pc \in Reading =>
         k.positions \in [Portfolios[k.portfolio] -> BookStates] /\ FromBooks(k, places)
    /\ k.pc \in Judging =>
         /\ k.marks \in [Portfolios[k.portfolio] -> Marked]
         /\ Valued(k.portfolio, k.positions, k.marks, k.at, k.valuations)
         /\ k.together \in BOOLEAN
    /\ k.pc \in {"current", "verify"} => k.together \/ Overtaken(k, places)
    /\ k.pc \in {"verifyMarks", "publish"} => k.together
    /\ k.pc \in Snapping => SnapshotFine(k)

Busy == {c \in Valuers : valuing[c].pc # "idle"}
Slotted == {c \in Valuers : valuing[c].pc \notin {"idle", "acquire"}}
For(c) == valuing[c].portfolio

Runs ==
    /\ running = {For(c) : c \in Busy}
    /\ \A c, d \in Busy : For(c) = For(d) => c = d
    /\ slots = Cardinality(Slotted) /\ slots <= MaxConcurrency

(* The store of one portfolio: the current snapshot ends the history. *)
Recorded(p, h, current, last) ==
    /\ h \in Seq(Entries(p)) /\ Len(h) <= HistoryCapacity
    /\ \A k \in DOMAIN h :
         /\ h[k].value.revision = k /\ h[k].together
         /\ Exact(p, h[k].positions, h[k].marks, h[k].at, h[k].value)
         /\ h[k].value.status = "COMPLETE" => last # Nothing /\ k <= last.value.revision
    /\ current = IF Len(h) = 0 THEN Nothing ELSE h[Len(h)]
    /\ last # Nothing =>
         /\ last.value.status = "COMPLETE" /\ last.value.revision \in DOMAIN h
         /\ last = h[last.value.revision]

Stored(p) == Recorded(p, valueHistory[p], currentValue[p], lastComplete[p])

Places(places) ==
    /\ places = [x \in AllPositions |-> places[x]]
    /\ \A x \in AllPositions : places[x] \in 1 .. Len(Books[x])

ValuingInv ==
    /\ valueTime \in Nat /\ Places(position) /\ mark \in [AllPositions -> Marked]
    /\ valuing = [c \in Valuers |-> valuing[c]]
    /\ \A c \in Valuers : Sound(valuing[c], position)
    /\ Runs
    /\ currentValue = [p \in DOMAIN Portfolios |-> currentValue[p]]
    /\ lastComplete = [p \in DOMAIN Portfolios |-> lastComplete[p]]
    /\ valueHistory = [p \in DOMAIN Portfolios |-> valueHistory[p]]
    /\ \A p \in DOMAIN Portfolios : Stored(p)
    /\ valueShutdown \in {"waiting", "returned"} => valueClosed
    /\ valueShutdown = "returned" => running = {}

LEMMA SomePosition ==
    ASSUME NEW p \in DOMAIN Portfolios, NEW x \in Portfolios[p]
    PROVE  x \in AllPositions
BY DEF AllPositions

LEMMA IdleSound ==
    ASSUME NEW answer, NEW places
    PROVE  /\ Sound([NotValuing EXCEPT !.answer = answer], places)
           /\ [NotValuing EXCEPT !.answer = answer].pc = "idle"
<1> DEFINE k == [NotValuing EXCEPT !.answer = answer]
<1>1. IsCall(k) /\ k.pc = "idle"
  BY DEF NotValuing, IsCall, CallFields
<1> HIDE DEF k
<1>2. Sound(k, places)
  BY <1>1 DEF Sound, Reading, Judging, Snapping
<1> QED BY <1>1, <1>2 DEF k

LEMMA ValuingInitial == ValuationInit => ValuingInv
<1> SUFFICES ASSUME ValuationInit PROVE ValuingInv
  OBVIOUS
<1> USE DEF ValuationInit
<1>1. Places(position)
  <2>1. \A x \in AllPositions : Len(Books[x]) \in Nat /\ Len(Books[x]) # 0
    BY ValuationAssumption
  <2> QED BY <2>1 DEF Places
<1>2. mark \in [AllPositions -> Marked]
  BY DEF Marked
<1>3. \A c \in Valuers : Sound(valuing[c], position) /\ valuing[c].pc = "idle"
  <2>1. IsCall(NotValuing) /\ NotValuing.pc = "idle"
    BY DEF IsCall, CallFields, NotValuing
  <2> HIDE DEF NotValuing
  <2>2. Sound(NotValuing, position)
    BY <2>1 DEF Sound, Reading, Judging, Snapping
  <2> QED BY <2>1, <2>2
<1>4. Busy = {} /\ Slotted = {}
  BY <1>3 DEF Busy, Slotted
<1>5. Runs
  BY <1>4, FS_EmptySet, ValuationAssumption DEF Runs
<1>6. ASSUME NEW p \in DOMAIN Portfolios PROVE Stored(p)
  <2>1. valueHistory[p] = <<>> /\ currentValue[p] = Nothing /\ lastComplete[p] = Nothing
    OBVIOUS
  <2>2. HistoryCapacity \in Nat
    BY ValuationAssumption
  <2> QED BY <2>1, <2>2 DEF Stored, Recorded
<1> QED BY <1>1, <1>2, <1>3, <1>5, <1>6 DEF ValuingInv

(* What a call has read stays as sound as the books move on. *)
LEMMA SoundLater ==
    ASSUME NEW k, NEW before, NEW after, Sound(k, before), Places(before), Places(after),
           \A x \in AllPositions : before[x] <= after[x]
    PROVE  Sound(k, after)
<1>1. CASE k.pc \notin Reading
  BY <1>1 DEF Sound, Reading, Judging, Snapping
<1>2. CASE k.pc \in Reading
  <2>1. k.portfolio \in DOMAIN Portfolios
    BY <1>2 DEF Sound, Reading, Judging, Snapping
  <2>2. \A x \in Portfolios[k.portfolio] :
           before[x] \in Int /\ after[x] \in Int /\ before[x] <= after[x]
    BY <2>1, SomePosition, ValuationAssumption DEF Places
  <2>3. FromBooks(k, after)
    <3>1. FromBooks(k, before)
      BY <1>2 DEF Sound
    <3> QED BY <2>2, <3>1 DEF FromBooks
  <2>4. Overtaken(k, before) => Overtaken(k, after)
    BY <2>2 DEF Overtaken
  <2> QED BY <2>3, <2>4 DEF Sound
<1> QED BY <1>1, <1>2

-----------------------------------------------------------------------------
(* Valuation: reservations and slots. *)

(* The rest of the state stays; only one call and its reservation move. *)
Quiet ==
    UNCHANGED <<valueTime, position, mark, currentValue, lastComplete, valueHistory>>
    /\ valueClosed' = valueClosed /\ valueShutdown' = valueShutdown

LEMMA SlotsCounted ==
    ASSUME ValuingInv
    PROVE  /\ IsFiniteSet(Slotted) /\ slots \in Nat
           /\ slots = Cardinality(Slotted)
<1>1. Slotted \subseteq Valuers
  BY DEF Slotted
<1>2. IsFiniteSet(Slotted)
  BY <1>1, FS_Subset, ValuationAssumption
<1> QED BY <1>2, FS_CardinalityType DEF ValuingInv, Runs

LEMMA LeaveReleases ==
    ASSUME ValuingInv, NEW c \in Busy, NEW a, Leave(c, a)
    PROVE  /\ Runs' /\ running' \subseteq running
           /\ valuing' = [d \in Valuers |-> valuing'[d]]
           /\ valuing'[c] = [NotValuing EXCEPT !.answer = a]
           /\ \A d \in Valuers : d # c => valuing'[d] = valuing[d]
<1>1. c \in Valuers /\ valuing[c].pc # "idle"
  BY DEF Busy
<1>2. /\ valuing' = [d \in Valuers |-> valuing'[d]]
      /\ valuing'[c] = [NotValuing EXCEPT !.answer = a]
      /\ \A d \in Valuers : d # c => valuing'[d] = valuing[d]
  BY <1>1 DEF Leave, ValuingInv
<1>3. valuing'[c].pc = "idle"
  BY <1>2, IdleSound
<1>4. Busy' = Busy \ {c} /\ Slotted' = Slotted \ {c}
  BY <1>1, <1>2, <1>3 DEF Busy, Slotted
<1>5. \A d \in Busy' : For(d)' = For(d)
  BY <1>2, <1>4 DEF For, Busy
<1>6. running' = running \ {For(c)}
  BY DEF Leave, For
<1>7. running' = {For(d)' : d \in Busy'}
  BY <1>4, <1>5, <1>6 DEF ValuingInv, Runs
<1>8. \A d, e \in Busy' : For(d)' = For(e)' => d = e
  BY <1>4, <1>5 DEF ValuingInv, Runs
<1>9. slots' = Cardinality(Slotted') /\ slots' <= MaxConcurrency
  <2>1. CASE valuing[c].pc = "acquire"
    <3>1. c \notin Slotted
      BY <2>1 DEF Slotted
    <3>2. slots' = slots /\ Slotted' = Slotted
      BY <2>1, <3>1, <1>4 DEF Leave
    <3> QED BY <3>2 DEF ValuingInv, Runs
  <2>2. CASE valuing[c].pc # "acquire"
    <3>1. c \in Slotted
      BY <1>1, <2>2 DEF Slotted
    <3>2. Cardinality(Slotted \ {c}) = Cardinality(Slotted) - 1
      BY <3>1, SlotsCounted, FS_RemoveElement
    <3>3. slots' = slots - 1
      BY <2>2 DEF Leave
    <3>4. slots <= MaxConcurrency /\ slots \in Nat /\ MaxConcurrency \in Nat
          /\ slots = Cardinality(Slotted)
      BY SlotsCounted, ValuationAssumption DEF ValuingInv, Runs
    <3> QED BY <1>4, <3>2, <3>3, <3>4
  <2> QED BY <2>1, <2>2
<1>10. Runs'
  BY <1>7, <1>8, <1>9 DEF Runs
<1>11. running' \subseteq running
  BY <1>6
<1> QED BY <1>2, <1>10, <1>11

(* A call that keeps its place among the callers, whatever else it learns. *)
LEMMA SameRuns ==
    ASSUME ValuingInv, NEW c \in Valuers, NEW r, valuing' = [valuing EXCEPT ![c] = r],
           c \in Slotted, r.pc \notin {"idle", "acquire"}, r.portfolio = For(c),
           running' = running, slots' = slots
    PROVE  Runs'
<1>1. valuing'[c] = r /\ \A d \in Valuers : d # c => valuing'[d] = valuing[d]
  BY DEF ValuingInv
<1>2. Busy' = Busy /\ Slotted' = Slotted
  BY <1>1 DEF Busy, Slotted
<1>3. \A d \in Busy : For(d)' = For(d)
  BY <1>1 DEF For, Busy
<1>4. running' = {For(d)' : d \in Busy'}
  BY <1>2, <1>3 DEF ValuingInv, Runs
<1>5. \A d, e \in Busy' : For(d)' = For(e)' => d = e
  BY <1>2, <1>3 DEF ValuingInv, Runs
<1>6. slots' = Cardinality(Slotted') /\ slots' <= MaxConcurrency
  BY <1>2 DEF ValuingInv, Runs
<1> QED BY <1>4, <1>5, <1>6 DEF Runs

(* The invariant after a step of one call that leaves the store alone. *)
LEMMA OthersStay ==
    ASSUME ValuingInv, NEW c \in Valuers, Quiet, Runs',
           valuing' = [d \in Valuers |-> valuing'[d]],
           \A d \in Valuers : d # c => valuing'[d] = valuing[d],
           Sound(valuing'[c], position'),
           valueShutdown = "returned" => running' = {}
    PROVE  ValuingInv'
<1>1. ASSUME NEW d \in Valuers PROVE Sound(valuing[d], position)'
  <2>1. Sound(valuing'[d], position')
    <3>1. CASE d = c
      BY <3>1
    <3>2. CASE d # c
      <4>1. valuing'[d] = valuing[d] /\ position' = position /\ Sound(valuing[d], position)
        BY <3>2 DEF ValuingInv, Quiet
      <4> QED BY <4>1
    <3> QED BY <3>1, <3>2
  <2> QED BY <2>1
<1>2. ASSUME NEW p \in DOMAIN Portfolios PROVE Stored(p)'
  BY DEF ValuingInv, Quiet, Stored
<1>3. Places(position)' /\ mark' \in [AllPositions -> Marked] /\ valueTime' \in Nat
  BY DEF ValuingInv, Quiet
<1> QED BY <1>1, <1>2, <1>3 DEF ValuingInv, Quiet

LEMMA LeaveKept ==
    ASSUME ValuingInv, NEW c \in Busy, NEW a, Leave(c, a), Quiet
    PROVE  ValuingInv'
<1>1. c \in Valuers
  BY DEF Busy
<1>2. /\ Runs' /\ running' \subseteq running
      /\ valuing' = [d \in Valuers |-> valuing'[d]]
      /\ valuing'[c] = [NotValuing EXCEPT !.answer = a]
      /\ \A d \in Valuers : d # c => valuing'[d] = valuing[d]
  BY LeaveReleases
<1>3. Sound(valuing'[c], position')
  BY <1>2, IdleSound
<1>4. valueShutdown = "returned" => running' = {}
  BY <1>2 DEF ValuingInv
<1> QED BY <1>1, <1>2, <1>3, <1>4, OthersStay

LEMMA MoveKept ==
    ASSUME ValuingInv, NEW c \in Valuers, NEW r, valuing' = [valuing EXCEPT ![c] = r],
           c \in Slotted, r.pc \notin {"idle", "acquire"}, r.portfolio = For(c),
           running' = running, slots' = slots, Quiet, Sound(r, position)
    PROVE  ValuingInv'
<1>1. Runs'
  BY SameRuns
<1>2. /\ valuing' = [d \in Valuers |-> valuing'[d]] /\ valuing'[c] = r
      /\ \A d \in Valuers : d # c => valuing'[d] = valuing[d]
  BY DEF ValuingInv
<1>3. Sound(valuing'[c], position')
  BY <1>2 DEF Quiet
<1>4. valueShutdown = "returned" => running' = {}
  BY DEF ValuingInv
<1> QED BY <1>1, <1>2, <1>3, <1>4, OthersStay

-----------------------------------------------------------------------------
(* Valuation: the steps of a call. *)

LEMMA ReservePortfolioKept ==
    ASSUME ValuingInv, NEW c \in Valuers, NEW p \in DOMAIN Portfolios, ReservePortfolio(c, p)
    PROVE  ValuingInv'
<1>1. valuing[c].pc = "idle" /\ Quiet /\ slots' = slots
  BY DEF ReservePortfolio, ValuingAt, Quiet, ValueSources, ValueStore
<1>2. c \notin Busy /\ c \notin Slotted
  BY <1>1 DEF Busy, Slotted
<1>3. CASE valueClosed \/ p \in running
  <2> DEFINE answer == IF valueClosed THEN "shutdown" ELSE "duplicate"
             r == [NotValuing EXCEPT !.answer = answer]
  <2>1. valuing' = [valuing EXCEPT ![c] = r] /\ running' = running
    BY <1>3 DEF ReservePortfolio
  <2>2. Sound(r, position) /\ r.pc = "idle"
    BY IdleSound
  <2> HIDE DEF r
  <2>3. /\ valuing' = [d \in Valuers |-> valuing'[d]] /\ valuing'[c] = r
        /\ \A d \in Valuers : d # c => valuing'[d] = valuing[d]
    BY <2>1 DEF ValuingInv
  <2>4. Busy' = Busy /\ Slotted' = Slotted
    BY <1>2, <2>2, <2>3 DEF Busy, Slotted
  <2>5. \A d \in Busy : For(d)' = For(d)
    BY <1>2, <2>3 DEF For, Busy
  <2>6. running' = {For(d)' : d \in Busy'} /\ \A d, e \in Busy' : For(d)' = For(e)' => d = e
    BY <2>1, <2>4, <2>5 DEF ValuingInv, Runs
  <2>7. Runs'
    BY <1>1, <2>4, <2>6 DEF ValuingInv, Runs
  <2>8. Sound(valuing'[c], position')
    BY <1>1, <2>2, <2>3 DEF Quiet
  <2>9. valueShutdown = "returned" => running' = {}
    BY <2>1 DEF ValuingInv
  <2> QED BY <1>1, <2>3, <2>7, <2>8, <2>9, OthersStay
<1>4. CASE ~valueClosed /\ p \notin running
  <2> DEFINE r == [NotValuing EXCEPT !.pc = "acquire", !.portfolio = p, !.at = valueTime]
  <2>1. valuing' = [valuing EXCEPT ![c] = r] /\ running' = running \cup {p}
    BY <1>4 DEF ReservePortfolio
  <2>2. IsCall(r) /\ r.pc = "acquire" /\ r.portfolio = p /\ r.at = valueTime
    BY DEF NotValuing, IsCall, CallFields
  <2> HIDE DEF r
  <2>3. Sound(r, position)
    BY <2>2 DEF Sound, Reading, Judging, Snapping, ValuingInv
  <2>4. /\ valuing' = [d \in Valuers |-> valuing'[d]] /\ valuing'[c] = r
        /\ \A d \in Valuers : d # c => valuing'[d] = valuing[d]
    BY <2>1 DEF ValuingInv
  <2>5. Busy' = Busy \cup {c} /\ Slotted' = Slotted
    BY <1>2, <2>2, <2>4 DEF Busy, Slotted
  <2>6. For(c)' = p /\ \A d \in Busy : For(d)' = For(d)
    BY <1>2, <2>2, <2>4 DEF For, Busy
  <2>7. running' = {For(d)' : d \in Busy'}
    BY <2>1, <2>5, <2>6 DEF ValuingInv, Runs
  <2>8. \A d, e \in Busy' : For(d)' = For(e)' => d = e
    <3>1. \A d \in Busy : For(d) # p
      BY <1>4 DEF ValuingInv, Runs
    <3> QED BY <2>5, <2>6, <3>1 DEF ValuingInv, Runs
  <2>9. Runs'
    BY <1>1, <2>5, <2>7, <2>8 DEF ValuingInv, Runs
  <2>10. Sound(valuing'[c], position')
    BY <1>1, <2>3, <2>4 DEF Quiet
  <2>11. valueShutdown # "returned"
    BY <1>4 DEF ValuingInv
  <2> QED BY <1>1, <2>4, <2>9, <2>10, <2>11, OthersStay
<1> QED BY <1>3, <1>4

LEMMA AcquireKept ==
    ASSUME ValuingInv, NEW c \in Valuers, Acquire(c)
    PROVE  ValuingInv'
<1> DEFINE r == [valuing[c] EXCEPT !.pc = "positions"]
<1>1. valuing[c].pc = "acquire" /\ Quiet /\ slots' = slots + 1 /\ slots < MaxConcurrency
      /\ running' = running /\ valuing' = [valuing EXCEPT ![c] = r]
  BY DEF Acquire, ValuingAt, Quiet, ValueSources, ValueStore
<1>2. c \in Busy /\ c \notin Slotted /\ Sound(valuing[c], position)
  BY <1>1 DEF Busy, Slotted, ValuingInv
<1>3. /\ IsCall(r) /\ r.pc = "positions" /\ r.portfolio = valuing[c].portfolio
      /\ r.at = valuing[c].at
  BY <1>2 DEF Sound, IsCall, CallFields
<1> HIDE DEF r
<1>4. Sound(r, position)
  BY <1>1, <1>2, <1>3 DEF Sound, Reading, Judging, Snapping
<1>5. /\ valuing' = [d \in Valuers |-> valuing'[d]] /\ valuing'[c] = r
      /\ \A d \in Valuers : d # c => valuing'[d] = valuing[d]
  BY <1>1 DEF ValuingInv
<1>6. Busy' = Busy /\ Slotted' = Slotted \cup {c}
  BY <1>2, <1>3, <1>5 DEF Busy, Slotted
<1>7. \A d \in Busy : For(d)' = For(d)
  BY <1>3, <1>5 DEF For, Busy
<1>8. running' = {For(d)' : d \in Busy'} /\ \A d, e \in Busy' : For(d)' = For(e)' => d = e
  BY <1>1, <1>6, <1>7 DEF ValuingInv, Runs
<1>9. slots' = Cardinality(Slotted') /\ slots' <= MaxConcurrency
  <2>1. Cardinality(Slotted \cup {c}) = Cardinality(Slotted) + 1
    BY <1>2, SlotsCounted, FS_AddElement
  <2>2. slots \in Nat /\ slots = Cardinality(Slotted) /\ MaxConcurrency \in Nat
    BY SlotsCounted, ValuationAssumption
  <2> QED BY <1>1, <1>6, <2>1, <2>2
<1>10. Runs'
  BY <1>8, <1>9 DEF Runs
<1>11. Sound(valuing'[c], position')
  BY <1>1, <1>4, <1>5 DEF Quiet
<1>12. valueShutdown = "returned" => running' = {}
  BY <1>1 DEF ValuingInv
<1> QED BY <1>1, <1>5, <1>10, <1>11, <1>12, OthersStay

(* The state a book shows now is the only place where it has it. *)
LEMMA BookShows ==
    ASSUME ValuingInv, NEW p \in DOMAIN Portfolios, NEW x \in Portfolios[p]
    PROVE  /\ position[x] \in 1 .. Len(Books[x])
           /\ PositionsOf(p)[x] = Books[x][position[x]]
           /\ Books[x][position[x]] \in BookStates
           /\ \A i \in 1 .. (position[x] - 1) : Books[x][i] # PositionsOf(p)[x]
<1>1. x \in AllPositions
  BY SomePosition
<1>2. position[x] \in 1 .. Len(Books[x])
  BY <1>1 DEF ValuingInv, Places
<1>3. PositionsOf(p)[x] = Books[x][position[x]]
  BY DEF PositionsOf, State
<1>4. Books[x] \in Seq(BookStates)
  BY <1>1, ValuationAssumption
<1>5. DOMAIN Books[x] = 1 .. Len(Books[x]) /\ Len(Books[x]) \in Nat
  BY <1>4
<1>6. Books[x][position[x]] \in BookStates
  BY <1>2, <1>4
<1>7. \A i, j \in DOMAIN Books[x] : Books[x][i] = Books[x][j] => i = j
  BY <1>1, ValuationAssumption
<1>8. ASSUME NEW i \in 1 .. (position[x] - 1) PROVE Books[x][i] # PositionsOf(p)[x]
  <2>1. i \in DOMAIN Books[x] /\ position[x] \in DOMAIN Books[x] /\ i # position[x]
    BY <1>2, <1>5
  <2> QED BY <1>3, <1>7, <2>1
<1> QED BY <1>2, <1>3, <1>6, <1>8

LEMMA ReadPositionsKept ==
    ASSUME ValuingInv, NEW c \in Valuers, ReadPositions(c)
    PROVE  ValuingInv'
<1> DEFINE p == valuing[c].portfolio
           r == [valuing[c] EXCEPT !.pc = "marks", !.positions = PositionsOf(p)]
<1>1. valuing[c].pc = "positions" /\ Quiet /\ running' = running /\ slots' = slots
      /\ valuing' = [valuing EXCEPT ![c] = r]
  BY DEF ReadPositions, ValuingAt, Quiet, ValueSources, ValueStore
<1>2. c \in Slotted /\ Sound(valuing[c], position)
  BY <1>1 DEF Slotted, ValuingInv
<1>3. /\ IsCall(r) /\ r.pc = "marks" /\ r.portfolio = p /\ r.at = valuing[c].at
      /\ r.positions = PositionsOf(p)
  BY <1>2 DEF Sound, IsCall, CallFields
<1>4. p \in DOMAIN Portfolios /\ valuing[c].at \in Int
  BY <1>1, <1>2 DEF Sound
<1> HIDE DEF r, p
<1>5. PositionsOf(p) \in [Portfolios[p] -> BookStates]
  <2>1. \A x \in Portfolios[p] : PositionsOf(p)[x] \in BookStates
    BY <1>4, BookShows
  <2>2. PositionsOf(p) = [x \in Portfolios[p] |-> PositionsOf(p)[x]]
    BY DEF PositionsOf
  <2> QED BY <2>1, <2>2
<1>6. FromBooks(r, position)
  <2>1. ASSUME NEW x \in Portfolios[p]
        PROVE  \E i \in 1 .. position[x] : PositionsOf(p)[x] = Books[x][i]
    <3>1. position[x] \in 1 .. position[x] /\ PositionsOf(p)[x] = Books[x][position[x]]
      BY <1>4, BookShows
    <3> QED BY <3>1
  <2> QED BY <1>3, <2>1 DEF FromBooks
<1>7. Sound(r, position)
  BY <1>3, <1>4, <1>5, <1>6 DEF Sound, Reading, Judging, Snapping
<1> QED BY <1>1, <1>2, <1>3, <1>7, MoveKept DEF For, p

(* When the marks are read, the positions read before are the present ones or   *)
(* have been overtaken.                                                         *)
LEMMA PresentOrOvertaken ==
    ASSUME ValuingInv, NEW k, k.portfolio \in DOMAIN Portfolios,
           k.positions \in [Portfolios[k.portfolio] -> BookStates], FromBooks(k, position)
    PROVE  \/ k.positions = PositionsOf(k.portfolio)
           \/ Overtaken(k, position)
<1> DEFINE p == k.portfolio
<1> SUFFICES ASSUME k.positions # PositionsOf(p) PROVE Overtaken(k, position)
  OBVIOUS
<1>1. PositionsOf(p) = [x \in Portfolios[p] |-> PositionsOf(p)[x]]
  BY DEF PositionsOf
<1>2. PICK x \in Portfolios[p] : k.positions[x] # PositionsOf(p)[x]
  BY <1>1
<1>3. PICK i \in 1 .. position[x] : k.positions[x] = Books[x][i]
  BY DEF FromBooks
<1>4. position[x] \in Int /\ PositionsOf(p)[x] = Books[x][position[x]]
  BY BookShows
<1>5. i # position[x]
  BY <1>2, <1>3, <1>4
<1>6. i \in 1 .. (position[x] - 1)
  BY <1>3, <1>4, <1>5
<1> QED BY <1>3, <1>6 DEF Overtaken

LEMMA NotOvertaken ==
    ASSUME ValuingInv, NEW k, k.portfolio \in DOMAIN Portfolios,
           k.positions = PositionsOf(k.portfolio)
    PROVE  ~Overtaken(k, position)
BY BookShows DEF Overtaken

LEMMA ReadMarksKept ==
    ASSUME ValuingInv, NEW c \in Valuers, ReadMarks(c)
    PROVE  ValuingInv'
<1> DEFINE p == valuing[c].portfolio
           k == valuing[c]
           v == [x \in Portfolios[p] |-> EvaluatePosition(k.positions[x], mark[x], k.at)]
           present == k.positions = PositionsOf(p)
           r == [k EXCEPT !.pc = "current", !.marks = MarksOf(p), !.valuations = v,
                          !.together = present]
<1>1. k.pc = "marks" /\ Quiet
  BY DEF ReadMarks, ValuingAt, Quiet, ValueSources, ValueStore
<1>2. c \in Slotted /\ c \in Busy /\ Sound(k, position)
  BY <1>1 DEF Slotted, Busy, ValuingInv
<1>3. CASE \E x \in Portfolios[p] : v[x] = Nothing
  <2>1. Leave(c, "overflow")
    BY <1>3 DEF ReadMarks
  <2> QED BY <1>1, <1>2, <2>1, LeaveKept
<1>4. CASE ~\E x \in Portfolios[p] : v[x] = Nothing
  <2>1. valuing' = [valuing EXCEPT ![c] = r] /\ running' = running /\ slots' = slots
    BY <1>4 DEF ReadMarks
  <2>2. /\ p \in DOMAIN Portfolios /\ k.at \in Int /\ FromBooks(k, position)
        /\ k.positions \in [Portfolios[p] -> BookStates] /\ IsCall(k)
    BY <1>1, <1>2 DEF Sound, Reading
  <2>3. /\ IsCall(r) /\ r.pc = "current" /\ r.portfolio = p /\ r.at = k.at
        /\ r.positions = k.positions /\ r.marks = MarksOf(p) /\ r.valuations = v
        /\ r.together = present
    BY <2>2 DEF IsCall, CallFields
  <2>4. MarksOf(p) \in [Portfolios[p] -> Marked]
    <3>1. \A x \in Portfolios[p] : mark[x] \in Marked
      BY <2>2, SomePosition DEF ValuingInv
    <3> QED BY <3>1 DEF MarksOf
  <2>5. Valued(p, k.positions, MarksOf(p), k.at, v)
    <3>1. \A x \in Portfolios[p] : MarksOf(p)[x] = mark[x]
      BY DEF MarksOf
    <3>2. v = [x \in Portfolios[p] |-> EvaluatePosition(k.positions[x], MarksOf(p)[x], k.at)]
      BY <3>1
    <3>3. \A x \in Portfolios[p] : v[x] # Nothing
      BY <1>4
    <3> HIDE DEF v
    <3> QED BY <3>2, <3>3 DEF Valued
  <2>6. present \/ Overtaken(k, position)
    BY <2>2, PresentOrOvertaken
  <2> HIDE DEF r, v, k
  <2>7. FromBooks(r, position) /\ (Overtaken(k, position) => Overtaken(r, position))
    BY <2>2, <2>3 DEF FromBooks, Overtaken, k
  <2>8. r.together \in BOOLEAN /\ (r.together \/ Overtaken(r, position))
    BY <2>3, <2>6, <2>7
  <2>9. Sound(r, position)
    BY <2>2, <2>3, <2>4, <2>5, <2>7, <2>8 DEF Sound, Reading, Judging, Snapping
  <2> QED BY <1>1, <1>2, <2>1, <2>3, <2>9, MoveKept DEF For, k
<1> QED BY <1>3, <1>4

LEMMA RevisionType ==
    ASSUME NEW p, NEW s \in Entries(p) \cup {Nothing}
    PROVE  NextRevision(s) \in Int
BY DEF NextRevision, Entries, Snapshots

LEMMA CurrentType ==
    ASSUME ValuingInv, NEW p \in DOMAIN Portfolios
    PROVE  /\ currentValue[p] \in Entries(p) \cup {Nothing}
           /\ NextRevision(currentValue[p]) = Len(valueHistory[p]) + 1
<1> DEFINE h == valueHistory[p]
<1>1. /\ h \in Seq(Entries(p)) /\ \A k \in DOMAIN h : h[k].value.revision = k
      /\ currentValue[p] = IF Len(h) = 0 THEN Nothing ELSE h[Len(h)]
  BY DEF ValuingInv, Stored, Recorded
<1>2. Nothing \notin Entries(p)
  BY ValuationAssumption
<1> HIDE DEF h
<1>3. CASE Len(h) = 0
  BY <1>1, <1>3 DEF NextRevision, h
<1>4. CASE Len(h) # 0
  <2>1. Len(h) \in DOMAIN h /\ h[Len(h)] \in Entries(p)
    BY <1>1, <1>4
  <2>2. h[Len(h)] # Nothing /\ h[Len(h)].value.revision = Len(h)
    BY <1>1, <1>2, <2>1
  <2> QED BY <1>1, <1>4, <2>1, <2>2 DEF NextRevision, h
<1> QED BY <1>3, <1>4

LEMMA ReadCurrentKept ==
    ASSUME ValuingInv, NEW c \in Valuers, ReadCurrent(c)
    PROVE  ValuingInv'
<1> DEFINE k == valuing[c]
           p == k.portfolio
           s == currentValue[p]
           snapshot == Aggregate(NextRevision(s), k.valuations, k.at)
           r == [k EXCEPT !.pc = "verify", !.parent = s, !.snapshot = snapshot]
<1>1. k.pc = "current" /\ Quiet
  BY DEF ReadCurrent, ValuingAt, Quiet, ValueSources, ValueStore
<1>2. c \in Slotted /\ c \in Busy /\ Sound(k, position)
  BY <1>1 DEF Slotted, Busy, ValuingInv
<1>3. \/ \E a : Leave(c, a)
      \/ /\ snapshot # Nothing /\ valuing' = [valuing EXCEPT ![c] = r]
         /\ running' = running /\ slots' = slots
  BY DEF ReadCurrent, NextRevision
<1>4. CASE \E a : Leave(c, a)
  BY <1>1, <1>2, <1>4, LeaveKept
<1>5. CASE /\ snapshot # Nothing /\ valuing' = [valuing EXCEPT ![c] = r]
           /\ running' = running /\ slots' = slots
  <2>1. /\ p \in DOMAIN Portfolios /\ k.at \in Int /\ FromBooks(k, position)
        /\ k.positions \in [Portfolios[p] -> BookStates] /\ IsCall(k)
        /\ k.marks \in [Portfolios[p] -> Marked] /\ k.together \in BOOLEAN
        /\ Valued(p, k.positions, k.marks, k.at, k.valuations)
        /\ k.together \/ Overtaken(k, position)
    BY <1>1, <1>2 DEF Sound, Reading, Judging
  <2>2. /\ IsCall(r) /\ r.pc = "verify" /\ r.portfolio = p /\ r.at = k.at
        /\ r.positions = k.positions /\ r.marks = k.marks /\ r.valuations = k.valuations
        /\ r.together = k.together /\ r.parent = s /\ r.snapshot = snapshot
    BY <2>1 DEF IsCall, CallFields
  <2>3. s \in Entries(p) \cup {Nothing} /\ NextRevision(s) \in Int
    BY <2>1, CurrentType, RevisionType
  <2>4. /\ snapshot \in Snapshots /\ snapshot.revision = NextRevision(s)
        /\ Exact(p, k.positions, k.marks, k.at, snapshot)
    BY <1>5, <2>1, <2>3, SnapshotExact
  <2> HIDE DEF r, snapshot, s, k
  <2>5. SnapshotFine(r)
    BY <2>2, <2>3, <2>4 DEF SnapshotFine
  <2>6. FromBooks(r, position) /\ (Overtaken(k, position) => Overtaken(r, position))
    BY <2>1, <2>2 DEF FromBooks, Overtaken
  <2>7. Sound(r, position)
    BY <2>1, <2>2, <2>5, <2>6 DEF Sound, Reading, Judging, Snapping
  <2> QED BY <1>1, <1>2, <1>5, <2>2, <2>7, MoveKept DEF For, k
<1> QED BY <1>3, <1>4, <1>5

(* A call that goes on to the next check with all it has. *)
LEMMA NextCheck ==
    ASSUME NEW k, Sound(k, position), k.pc \in {"verify", "verifyMarks"}, k.together,
           NEW pc \in {"verifyMarks", "publish"}
    PROVE  /\ Sound([k EXCEPT !.pc = pc], position)
           /\ [k EXCEPT !.pc = pc].pc = pc
           /\ [k EXCEPT !.pc = pc].portfolio = k.portfolio
<1> DEFINE r == [k EXCEPT !.pc = pc]
<1>1. k.pc \in Snapping /\ IsCall(k)
  BY DEF Snapping, Sound
<1>2. /\ IsCall(r) /\ r.pc = pc /\ r.portfolio = k.portfolio /\ r.at = k.at
      /\ r.positions = k.positions /\ r.marks = k.marks /\ r.valuations = k.valuations
      /\ r.together = k.together /\ r.parent = k.parent /\ r.snapshot = k.snapshot
  BY <1>1 DEF IsCall, CallFields
<1> HIDE DEF r
<1>3. SnapshotFine(r) /\ FromBooks(r, position)
  <2>1. SnapshotFine(k) /\ FromBooks(k, position)
    BY <1>1 DEF Sound, Reading, Judging
  <2> QED BY <1>2, <2>1 DEF SnapshotFine, FromBooks
<1>4. Sound(r, position)
  BY <1>1, <1>2, <1>3 DEF Sound, Reading, Judging, Snapping
<1> QED BY <1>2, <1>4 DEF r

LEMMA VerifyPositionsKept ==
    ASSUME ValuingInv, NEW c \in Valuers, VerifyPositions(c)
    PROVE  ValuingInv'
<1> DEFINE k == valuing[c]
           r == [k EXCEPT !.pc = "verifyMarks"]
<1>1. k.pc = "verify" /\ Quiet
  BY DEF VerifyPositions, ValuingAt, Quiet, ValueSources, ValueStore
<1>2. c \in Slotted /\ c \in Busy /\ Sound(k, position)
  BY <1>1 DEF Slotted, Busy, ValuingInv
<1>3. CASE ~SamePositions(c)
  <2>1. Leave(c, "changed")
    BY <1>3 DEF VerifyPositions
  <2> QED BY <1>1, <1>2, <2>1, LeaveKept
<1>4. CASE SamePositions(c)
  <2>1. valuing' = [valuing EXCEPT ![c] = r] /\ running' = running /\ slots' = slots
    BY <1>4 DEF VerifyPositions
  <2>2. k.portfolio \in DOMAIN Portfolios /\ (k.together \/ Overtaken(k, position))
    BY <1>1, <1>2 DEF Sound
  <2>3. ~Overtaken(k, position)
    BY <1>4, <2>2, NotOvertaken DEF SamePositions
  <2>4. Sound(r, position) /\ r.pc = "verifyMarks" /\ r.portfolio = For(c)
    BY <1>1, <1>2, <2>2, <2>3, NextCheck DEF For
  <2> HIDE DEF r
  <2> QED BY <1>1, <1>2, <2>1, <2>4, MoveKept
<1> QED BY <1>3, <1>4

LEMMA VerifyMarksKept ==
    ASSUME ValuingInv, NEW c \in Valuers, VerifyMarks(c)
    PROVE  ValuingInv'
<1> DEFINE k == valuing[c]
           r == [k EXCEPT !.pc = "publish"]
           same == k.marks = MarksOf(k.portfolio)
<1>1. k.pc = "verifyMarks" /\ Quiet
  BY DEF VerifyMarks, ValuingAt, Quiet, ValueSources, ValueStore
<1>2. c \in Slotted /\ c \in Busy /\ Sound(k, position)
  BY <1>1 DEF Slotted, Busy, ValuingInv
<1>3. CASE ~same
  <2>1. Leave(c, "changed")
    BY <1>3 DEF VerifyMarks
  <2> QED BY <1>1, <1>2, <2>1, LeaveKept
<1>4. CASE same
  <2>1. valuing' = [valuing EXCEPT ![c] = r] /\ running' = running /\ slots' = slots
    BY <1>4 DEF VerifyMarks
  <2>2. k.together
    BY <1>1, <1>2 DEF Sound
  <2>3. Sound(r, position) /\ r.pc = "publish" /\ r.portfolio = For(c)
    BY <1>1, <1>2, <2>2, NextCheck DEF For
  <2> HIDE DEF r
  <2> QED BY <1>1, <1>2, <2>1, <2>3, MoveKept
<1> QED BY <1>3, <1>4

(* A snapshot that is published is the next entry of the history. *)
LEMMA Appended ==
    ASSUME NEW p \in DOMAIN Portfolios, NEW h, NEW current, NEW last, Recorded(p, h, current, last),
           NEW e \in Entries(p), e.value.revision = Len(h) + 1, e.together,
           Exact(p, e.positions, e.marks, e.at, e.value), Len(h) < HistoryCapacity
    PROVE  Recorded(p, Append(h, e), e, IF e.value.status = "COMPLETE" THEN e ELSE last)
<1> DEFINE g == Append(h, e)
           newest == IF e.value.status = "COMPLETE" THEN e ELSE last
<1>1. h \in Seq(Entries(p)) /\ Len(h) \in Nat /\ HistoryCapacity \in Nat /\ Nothing \notin Entries(p)
  BY ValuationAssumption DEF Recorded
<1>2. /\ g \in Seq(Entries(p)) /\ Len(g) = Len(h) + 1 /\ g[Len(g)] = e
      /\ \A k \in DOMAIN h : k \in DOMAIN g /\ g[k] = h[k]
      /\ DOMAIN g = DOMAIN h \cup {Len(g)} /\ DOMAIN h = 1 .. Len(h)
  BY <1>1
<1> HIDE DEF g
<1>3. e # Nothing
  BY <1>1
<1>4. /\ \A k \in DOMAIN h :
           /\ h[k].value.revision = k /\ h[k].together
           /\ Exact(p, h[k].positions, h[k].marks, h[k].at, h[k].value)
           /\ h[k].value.status = "COMPLETE" => last # Nothing /\ k <= last.value.revision
      /\ last # Nothing =>
           /\ last.value.status = "COMPLETE" /\ last.value.revision \in DOMAIN h
           /\ last = h[last.value.revision]
  BY DEF Recorded
<1>5. newest # Nothing =>
        /\ newest.value.status = "COMPLETE" /\ newest.value.revision \in DOMAIN g
        /\ newest = g[newest.value.revision]
  BY <1>2, <1>4
<1>6. ASSUME NEW k \in DOMAIN g
      PROVE  /\ g[k].value.revision = k /\ g[k].together
             /\ Exact(p, g[k].positions, g[k].marks, g[k].at, g[k].value)
             /\ g[k].value.status = "COMPLETE" => newest # Nothing /\ k <= newest.value.revision
  <2>1. CASE k \in DOMAIN h
    <3>1. g[k] = h[k] /\ k <= Len(h)
      BY <1>2, <2>1
    <3>2. g[k].value.status = "COMPLETE" => newest # Nothing /\ k <= newest.value.revision
      BY <1>1, <1>2, <1>3, <1>4, <2>1, <3>1
    <3> QED BY <1>4, <2>1, <3>1, <3>2
  <2>2. CASE k = Len(g)
    <3>1. g[k] = e /\ k = Len(h) + 1
      BY <1>2, <2>2
    <3> QED BY <1>1, <1>3, <3>1
  <2> QED BY <1>2, <2>1, <2>2
<1>7. Len(g) <= HistoryCapacity /\ Len(g) # 0
  BY <1>1, <1>2
<1> HIDE DEF newest
<1>8. Recorded(p, g, e, newest)
  BY <1>2, <1>5, <1>6, <1>7 DEF Recorded
<1> QED BY <1>8 DEF g, newest

LEMMA PublishSnapshotKept ==
    ASSUME ValuingInv, NEW c \in Valuers, PublishSnapshot(c)
    PROVE  ValuingInv'
<1> DEFINE k == valuing[c]
           p == k.portfolio
           e == [value |-> k.snapshot, at |-> k.at, positions |-> k.positions, marks |-> k.marks,
                 together |-> k.together]
<1>1. k.pc = "publish"
  BY DEF PublishSnapshot, ValuingAt
<1>2. c \in Busy /\ Sound(k, position)
  BY <1>1 DEF Busy, ValuingInv
<1>3. CASE currentValue[p] # k.parent \/ Len(valueHistory[p]) >= HistoryCapacity
  <2>1. \E a : Leave(c, a)
    BY <1>3 DEF PublishSnapshot
  <2>2. Quiet
    BY <1>3 DEF PublishSnapshot, Quiet, ValueSources, ValueStore
  <2> QED BY <1>2, <2>1, <2>2, LeaveKept
<1>4. CASE ~(currentValue[p] # k.parent \/ Len(valueHistory[p]) >= HistoryCapacity)
  <2>1. /\ currentValue' = [currentValue EXCEPT ![p] = e]
        /\ lastComplete' = IF e.value.status = "COMPLETE"
                           THEN [lastComplete EXCEPT ![p] = e] ELSE lastComplete
        /\ valueHistory' = [valueHistory EXCEPT ![p] = Append(@, e)]
        /\ Leave(c, "published")
        /\ UNCHANGED <<valueTime, position, mark, valueClosed, valueShutdown>>
    BY <1>4 DEF PublishSnapshot, ValueSources
  <2>2. /\ p \in DOMAIN Portfolios /\ k.at \in Int /\ k.together /\ k.together \in BOOLEAN
        /\ k.positions \in [Portfolios[p] -> BookStates] /\ k.marks \in [Portfolios[p] -> Marked]
        /\ SnapshotFine(k)
    BY <1>1, <1>2 DEF Sound, Reading, Judging, Snapping
  <2>3. /\ k.snapshot \in Snapshots /\ k.snapshot.revision = NextRevision(currentValue[p])
        /\ Exact(p, k.positions, k.marks, k.at, k.snapshot)
    BY <1>4, <2>2 DEF SnapshotFine
  <2>4. e \in Entries(p)
    BY <2>2, <2>3 DEF Entries, Marked
  <2>5. /\ e.value = k.snapshot /\ e.together = k.together /\ e.positions = k.positions
        /\ e.marks = k.marks /\ e.at = k.at
    OBVIOUS
  <2> HIDE DEF e, k
  <2>6. e.value.revision = Len(valueHistory[p]) + 1
    BY <2>2, <2>3, <2>5, CurrentType
  <2>7. Exact(p, e.positions, e.marks, e.at, e.value) /\ e.together
    BY <2>2, <2>3, <2>5
  <2>8. Len(valueHistory[p]) < HistoryCapacity
    <3>1. Len(valueHistory[p]) \in Nat /\ HistoryCapacity \in Nat
      BY <2>2, ValuationAssumption DEF ValuingInv, Stored, Recorded
    <3> QED BY <1>4, <3>1
  <2> DEFINE newest == IF e.value.status = "COMPLETE" THEN e ELSE lastComplete[p]
  <2>9. Recorded(p, Append(valueHistory[p], e), e, newest)
    <3>1. Recorded(p, valueHistory[p], currentValue[p], lastComplete[p])
      BY <2>2 DEF ValuingInv, Stored
    <3> QED BY <2>2, <2>4, <2>6, <2>7, <2>8, <3>1, Appended
  <2>10. /\ currentValue' = [q \in DOMAIN Portfolios |-> currentValue'[q]]
         /\ lastComplete' = [q \in DOMAIN Portfolios |-> lastComplete'[q]]
         /\ valueHistory' = [q \in DOMAIN Portfolios |-> valueHistory'[q]]
         /\ currentValue'[p] = e /\ lastComplete'[p] = newest
         /\ valueHistory'[p] = Append(valueHistory[p], e)
         /\ \A q \in DOMAIN Portfolios : q # p =>
              /\ currentValue'[q] = currentValue[q] /\ lastComplete'[q] = lastComplete[q]
              /\ valueHistory'[q] = valueHistory[q]
    BY <2>1, <2>2 DEF ValuingInv
  <2>11. ASSUME NEW q \in DOMAIN Portfolios PROVE Stored(q)'
    <3>1. CASE q = p
      <4>1. Recorded(p, valueHistory'[p], currentValue'[p], lastComplete'[p])
        BY <2>9, <2>10
      <4> QED BY <3>1, <4>1 DEF Stored
    <3>2. CASE q # p
      <4>1. Stored(q)
        BY DEF ValuingInv
      <4> QED BY <2>10, <3>2, <4>1 DEF Stored
    <3> QED BY <3>1, <3>2
  <2>12. /\ Runs' /\ running' \subseteq running
         /\ valuing' = [d \in Valuers |-> valuing'[d]]
         /\ valuing'[c] = [NotValuing EXCEPT !.answer = "published"]
         /\ \A d \in Valuers : d # c => valuing'[d] = valuing[d]
    BY <1>2, <2>1, LeaveReleases
  <2>13. ASSUME NEW d \in Valuers PROVE Sound(valuing[d], position)'
    <3>1. Sound(valuing'[d], position')
      <4>1. CASE d = c
        BY <2>12, <4>1, IdleSound
      <4>2. CASE d # c
        <5>1. valuing'[d] = valuing[d] /\ position' = position /\ Sound(valuing[d], position)
          BY <2>1, <2>12, <4>2 DEF ValuingInv
        <5> QED BY <5>1
      <4> QED BY <4>1, <4>2
    <3> QED BY <3>1
  <2>14. valueShutdown' = "returned" => running' = {}
    BY <2>1, <2>12 DEF ValuingInv
  <2> QED BY <2>1, <2>10, <2>11, <2>12, <2>13, <2>14 DEF ValuingInv
<1> QED BY <1>3, <1>4

-----------------------------------------------------------------------------
(* Valuation: the sources, and the theorem. *)

LEMMA SourcesMoveKept ==
    ASSUME ValuingInv, SourcesMove
    PROVE  ValuingInv'
<1>1. UNCHANGED <<valuing, running, slots, valueClosed, valueShutdown, currentValue,
                  lastComplete, valueHistory>>
  BY DEF SourcesMove, ValueStore
<1>2. /\ Places(position)' /\ \A x \in AllPositions : position[x] <= position'[x]
      /\ mark' \in [AllPositions -> Marked] /\ valueTime' \in Nat
  <2>1. \A x \in AllPositions : position[x] \in 1 .. Len(Books[x]) /\ Len(Books[x]) \in Nat
    BY ValuationAssumption DEF ValuingInv, Places
  <2>2. CASE \E x \in AllPositions : /\ position[x] < Len(Books[x])
                                     /\ position' = [position EXCEPT ![x] = @ + 1]
                                     /\ UNCHANGED <<mark, valueTime>>
    <3>1. PICK x \in AllPositions : /\ position[x] < Len(Books[x])
                                    /\ position' = [position EXCEPT ![x] = @ + 1]
                                    /\ UNCHANGED <<mark, valueTime>>
      BY <2>2
    <3>2. /\ position' = [y \in AllPositions |-> position'[y]]
          /\ position'[x] = position[x] + 1
          /\ \A y \in AllPositions : y # x => position'[y] = position[y]
      BY <3>1 DEF ValuingInv, Places
    <3>3. \A y \in AllPositions : position'[y] \in 1 .. Len(Books[y]) /\ position[y] <= position'[y]
      BY <2>1, <3>1, <3>2
    <3>4. Places(position)'
      BY <3>2, <3>3 DEF Places
    <3> QED BY <3>1, <3>3, <3>4 DEF ValuingInv
  <2>3. CASE \E x \in AllPositions : \E m \in Quotes[x] :
               mark' = [mark EXCEPT ![x] = m] /\ UNCHANGED <<position, valueTime>>
    <3>1. \A x \in AllPositions : Quotes[x] \subseteq Marked
      BY ValuationAssumption DEF Marked
    <3>2. mark' \in [AllPositions -> Marked]
      BY <2>3, <3>1 DEF ValuingInv
    <3> QED BY <2>1, <2>3, <3>2 DEF ValuingInv, Places
  <2>4. CASE valueTime' = valueTime + 1 /\ UNCHANGED <<position, mark>>
    BY <2>1, <2>4 DEF ValuingInv, Places
  <2> QED BY <2>2, <2>3, <2>4 DEF SourcesMove
<1>3. ASSUME NEW c \in Valuers PROVE Sound(valuing[c], position)'
  <2>1. Sound(valuing[c], position) /\ Places(position) /\ Places(position')
    BY <1>2 DEF ValuingInv
  <2>2. Sound(valuing[c], position')
    BY <1>2, <2>1, SoundLater
  <2> QED BY <1>1, <2>2
<1>4. Runs' /\ \A p \in DOMAIN Portfolios : Stored(p)'
  BY <1>1 DEF ValuingInv, Runs, Busy, Slotted, For, Stored
<1> QED BY <1>1, <1>2, <1>3, <1>4 DEF ValuingInv

(* Only the shutdown moves. *)
LEMMA ShutdownKept ==
    ASSUME ValuingInv,
           UNCHANGED <<valuing, running, slots, valueTime, position, mark, currentValue,
                       lastComplete, valueHistory>>,
           valueShutdown' \in {"waiting", "returned"} => valueClosed',
           valueShutdown' = "returned" => running = {}
    PROVE  ValuingInv'
<1>1. \A c \in Valuers : Sound(valuing[c], position)'
  BY DEF ValuingInv
<1>2. Runs' /\ \A p \in DOMAIN Portfolios : Stored(p)'
  BY DEF ValuingInv, Runs, Busy, Slotted, For, Stored
<1>3. Places(position)' /\ mark' \in [AllPositions -> Marked] /\ valueTime' \in Nat
  BY DEF ValuingInv
<1> QED BY <1>1, <1>2, <1>3 DEF ValuingInv

LEMMA ValuingKept == ValuingInv /\ [ValuationNext]_valueVars => ValuingInv'
<1> SUFFICES ASSUME ValuingInv, [ValuationNext]_valueVars PROVE ValuingInv'
  OBVIOUS
<1>1. ASSUME NEW c \in Valuers, NEW p \in DOMAIN Portfolios, ReservePortfolio(c, p)
      PROVE  ValuingInv'
  BY <1>1, ReservePortfolioKept
<1>2. ASSUME NEW c \in Valuers,
             \/ Acquire(c) \/ ReadPositions(c) \/ ReadMarks(c) \/ ReadCurrent(c)
             \/ VerifyPositions(c) \/ VerifyMarks(c) \/ PublishSnapshot(c)
      PROVE  ValuingInv'
  BY <1>2, AcquireKept, ReadPositionsKept, ReadMarksKept, ReadCurrentKept, VerifyPositionsKept,
     VerifyMarksKept, PublishSnapshotKept
<1>3. ASSUME NEW c \in Valuers, AbortValuation(c) PROVE ValuingInv'
  <2>1. c \in Busy /\ Leave(c, "cancelled") /\ Quiet
    BY <1>3 DEF AbortValuation, Busy, Quiet, ValueSources, ValueStore
  <2> QED BY <2>1, LeaveKept
<1>4. CASE ShutdownValuation
  BY <1>4, ShutdownKept DEF ShutdownValuation, ValueSources, ValueStore
<1>5. CASE ValuationStopped
  BY <1>5, ShutdownKept DEF ValuationStopped, ValueSources, ValueStore, ValuingInv
<1>6. CASE SourcesMove
  BY <1>6, SourcesMoveKept
<1>7. CASE UNCHANGED valueVars
  BY <1>7, ShutdownKept DEF valueVars, ValuingInv
<1> QED BY <1>1, <1>2, <1>3, <1>4, <1>5, <1>6, <1>7 DEF ValuationNext

(* A published valuation is of one instant, its total is what the positions and *)
(* marks it was made from give, the revisions follow one another, calls and     *)
(* slots are counted, and nothing is left to publish after a shutdown that      *)
(* returned (Coordinator.Value, Aggregate, FinancialStore.Publish).             *)
THEOREM ValuationIsSound == ValuationSpec => []ValuationInv
<1>1. ASSUME ValuingInv PROVE ValuationInv
  <2>1. \A p \in DOMAIN Portfolios : Recorded(p, valueHistory[p], currentValue[p], lastComplete[p])
    BY <1>1 DEF ValuingInv, Stored
  <2>2. ValuationCounts
    <3>1. slots \in 0 .. MaxConcurrency
      BY <1>1, SlotsCounted, ValuationAssumption DEF ValuingInv, Runs
    <3>2. running = {valuing[c].portfolio : c \in {d \in Valuers : valuing[d].pc # "idle"}}
      BY <1>1 DEF ValuingInv, Runs, Busy, For
    <3>3. \A p \in DOMAIN Portfolios : Len(valueHistory[p]) <= HistoryCapacity
      BY <2>1 DEF Recorded
    <3> QED BY <3>1, <3>2, <3>3 DEF ValuationCounts
  <2>3. ValuesOneInstant
    BY <2>1 DEF Recorded, ValuesOneInstant
  <2>4. TotalsAreExact
    BY <2>1 DEF Recorded, TotalsAreExact
  <2>5. HistoryIsAChain
    BY <2>1 DEF Recorded, HistoryIsAChain
  <2>6. ValuedBeforeShutdown
    <3>1. ASSUME running = {} PROVE slots = 0
      <4>1. Busy = {}
        BY <1>1, <3>1 DEF ValuingInv, Runs
      <4>2. Slotted = {}
        BY <4>1 DEF Busy, Slotted
      <4> QED BY <1>1, <4>2, SlotsCounted, FS_EmptySet
    <3> QED BY <1>1, <3>1 DEF ValuingInv, ValuedBeforeShutdown
  <2> QED BY <2>2, <2>3, <2>4, <2>5, <2>6 DEF ValuationInv
<1> QED BY <1>1, ValuingInitial, ValuingKept, PTL DEF ValuationSpec

=============================================================================
