----------------------------- MODULE DatasetStore -----------------------------
(* The immutable dataset repository: a builder ingests a finite source through  *)
(* the reorder buffer into a temporary directory and commits it by a rename;    *)
(* a publisher appends a generation under expected-current conflict detection.  *)
(* Builders and publishers are processes of their own, may crash, and share     *)
(* only the directories.  The in-memory repository takes the same decisions in  *)
(* one critical section.                                                        *)
EXTENDS EventOrdering

CONSTANTS
    Scenarios,       \* [backend, builders, publishers, committed]: who runs, over
                     \* which datasets committed before
    Sources,         \* input files: sequences of observations
    Latenesses,      \* the -allowed-lateness of an ingest: no part of the build key
    Windows,         \* exchange times the completeness detector expects
    Requests,        \* publication requests: pairs of an id and an action
    MaxRevision,     \* bound: length of a lineage
    MaxDatasets,     \* bound: committed datasets
    MaxGenerations,  \* bound: publications
    MaxFaults        \* bound: crashes and damaged directories

VARIABLES
    scenario,
    datasets,      \* the committed manifests; a manifest is its own identity
    damaged,       \* those whose files no longer match their checksums
    generations,   \* the publications of one series, in order
    builder,       \* per builder: [pc, manifest]
    publisher,     \* per publisher: [pc, request, history, answer]
    faults

vars == <<scenario, datasets, damaged, generations, builder, publisher, faults>>

NoDataset == [revision |-> 0]

backend    == scenario.backend
Builders   == scenario.builders
Publishers == scenario.publishers

-----------------------------------------------------------------------------
(* Ingestion (ingest.Service) into the builder's private directory. *)

InOrder(events, e) == events # <<>> => ~EventLess(e, Last(events))

(* DatasetWriter.Append refuses an event out of order. *)
Emit(acc, ready) ==
    FoldLeft(LAMBDA a, e :
                IF a.ok /\ InOrder(a.events, e)
                THEN [a EXCEPT !.events = Append(@, e)]
                ELSE [a EXCEPT !.ok = FALSE],
             acc, ready)

Noted(acc, code, o) == [acc EXCEPT !.quality = Append(@, <<code, o>>)]

IngestOne(acc, o) ==
    LET e == [obs |-> o, at |-> o.at, ingested |-> 0]
        p == Push(acc.orderer, e)
    IN  IF ~acc.ok THEN acc
        ELSE IF ~o.ok THEN Noted(acc, "MALFORMED", o)
        ELSE IF ~o.included THEN acc
        ELSE IF p.disposition = "CAPACITY" THEN [acc EXCEPT !.ok = FALSE]
        ELSE IF p.disposition \in {"DUPLICATE", "LATE"} THEN Noted(acc, p.disposition, o)
        ELSE Emit([acc EXCEPT !.orderer = p.orderer], p.ready)

(* GapDetector.Missing: the expected windows no event closed. *)
Gaps(events) == Windows \ { events[i].at : i \in DOMAIN events }

MissingWindows(events) ==
    LET ordered == SetToSortSeq(Gaps(events), <)
    IN  [i \in DOMAIN ordered |-> <<"MISSING", ordered[i]>>]

(* The end of the source: the buffer is flushed and the gaps are noted. *)
Flushed(read) == IF read.ok THEN Emit(read, FlushAll(read.orderer)) ELSE read
WithGaps(all) == [all EXCEPT !.quality = @ \o MissingWindows(all.events)]

Ingested(source, lateness) ==
    WithGaps(Flushed(FoldLeft(IngestOne, [orderer |-> NewOrderer(lateness), events |-> <<>>,
                                          quality |-> <<>>, ok |-> TRUE], source)))

(* ComputeBuildKey: the parent, the inputs' digests and the request; neither    *)
(* the lateness nor what came of the ingest.                                    *)
BuildKey(m) == <<m.parent, m.revision, m.source, m.request>>

(* Repository.Open: the digests match and so do those of the lineage. *)
Opens(m) ==
    /\ m \in datasets \ damaged
    /\ m.parent # NoDataset =>
        /\ m.parent \in datasets \ damaged
        /\ m.revision = m.parent.revision + 1

(* NormalizeDraft numbers the revision after the parent's; a correction names   *)
(* its request.                                                                 *)
Manifest(parent, source, request, result) ==
    [parent |-> parent, revision |-> parent.revision + 1, source |-> source,
     request |-> request, events |-> result.events, quality |-> result.quality]

(* Create and Ingest.  A failed ingest is aborted and leaves nothing. *)
Build(b, parent, source, lateness, request) ==
    /\ builder[b].pc = "idle"
    /\ parent # NoDataset => Opens(parent) /\ parent.revision < MaxRevision
    /\ (parent = NoDataset) <=> (request = "")
    /\ \E result \in {Ingested(source, lateness)} :
        /\ result.ok
        /\ builder' = [builder EXCEPT ![b] =
                [pc |-> "scan", manifest |-> Manifest(parent, source, request, result)]]
    /\ UNCHANGED <<scenario, datasets, damaged, generations, publisher, faults>>

BuildAborted(b, source, lateness) ==
    /\ builder[b].pc = "idle" /\ ~Ingested(source, lateness).ok
    /\ UNCHANGED vars

-----------------------------------------------------------------------------
(* Commit. *)

Idle(b) == builder' = [builder EXCEPT ![b] = [pc |-> "idle", manifest |-> NoDataset]]

SameKey(m) == { d \in datasets : BuildKey(d) = BuildKey(m) }

(* writer.Commit, file: the directories are scanned for the build key; one that *)
(* does not open fails the commit.  A dataset with the key ends it, as success  *)
(* when the contents agree and as corruption when they do not.                  *)
CommitScan(b) ==
    /\ backend = "file" /\ builder[b].pc = "scan"
    /\ IF SameKey(builder[b].manifest) # {} \/ \E d \in datasets : ~Opens(d)
       THEN Idle(b)
       ELSE builder' = [builder EXCEPT ![b].pc = "rename"]
    /\ UNCHANGED <<scenario, datasets, damaged, generations, publisher, faults>>

(* The directory of the identity is taken by a rename, which fails when another *)
(* builder of the same content was there first.                                 *)
CommitRename(b) ==
    /\ builder[b].pc = "rename"
    /\ Cardinality(datasets) < MaxDatasets
    /\ datasets' = datasets \union {builder[b].manifest}
    /\ Idle(b)
    /\ UNCHANGED <<scenario, damaged, generations, publisher, faults>>

(* memoryWriter.Commit: the scan and the insertion in one critical section. *)
CommitMemory(b) ==
    /\ backend = "memory" /\ builder[b].pc = "scan"
    /\ IF SameKey(builder[b].manifest) # {}
       THEN datasets' = datasets
       ELSE /\ Cardinality(datasets) < MaxDatasets
            /\ datasets' = datasets \union {builder[b].manifest}
    /\ Idle(b)
    /\ UNCHANGED <<scenario, damaged, generations, publisher, faults>>

AbortBuild(b) ==
    /\ builder[b].pc = "scan"
    /\ Idle(b)
    /\ UNCHANGED <<scenario, datasets, damaged, generations, publisher, faults>>

-----------------------------------------------------------------------------
(* Publication. *)

CurrentOf(history) == IF history = <<>> THEN NoDataset ELSE Last(history).dataset

Told(p, r, answer) ==
    publisher' = [publisher EXCEPT ![p] =
        [pc |-> "idle", request |-> r, history |-> <<>>, answer |-> answer]]

NewPublisher == [pc |-> "idle", request |-> [id |-> ""], history |-> <<>>, answer |-> ""]

(* The decision over a history: a replay of a published request is answered by  *)
(* its publication, another use of its id and a stale expectation are refused.  *)
Known(history, r) == { i \in DOMAIN history : history[i].request = r.id }

Replayed(history, r) ==
    \E i \in Known(history, r) : history[i].dataset = r.dataset /\ history[i].action = r.action

(* Mutant of MayPublish: the expectation is not compared. *)
MayPublishBlind(history, r) == Known(history, r) = {}

MayPublish(history, r) == Known(history, r) = {} /\ CurrentOf(history) = r.expected

Verdict(history, r) ==
    IF Replayed(history, r) THEN "published" ELSE "conflict"

Publication(history, r) ==
    [dataset |-> r.dataset, previous |-> CurrentOf(history), action |-> r.action,
     request |-> r.id, expected |-> r.expected]

(* A rollback names the current dataset; a request names a committed one. *)
Request(id, dataset, expected, action) ==
    [id |-> id, dataset |-> dataset, expected |-> expected, action |-> action]

(* Repository.Publish, file: the dataset is opened and the history read, each   *)
(* generation's dataset opened in turn.                                         *)
PublishRead(p, r) ==
    /\ backend = "file" /\ publisher[p].pc = "idle"
    /\ r.dataset \in datasets
    /\ r.action = "ROLLBACK" => r.expected # NoDataset
    /\ IF ~Opens(r.dataset) \/ \E i \in DOMAIN generations : ~Opens(generations[i].dataset)
       THEN Told(p, r, "corrupt")
       ELSE IF MayPublish(generations, r)
       THEN publisher' = [publisher EXCEPT ![p] =
                [pc |-> "rename", request |-> r, history |-> generations, answer |-> ""]]
       ELSE Told(p, r, Verdict(generations, r))
    /\ UNCHANGED <<scenario, datasets, damaged, generations, builder, faults>>

(* The generation's directory is taken by a rename: it fails when another       *)
(* publisher took the number since the history was read.                        *)
PublishRename(p) ==
    LET r == publisher[p].request
        h == publisher[p].history
    IN  /\ publisher[p].pc = "rename"
        /\ Len(generations) < MaxGenerations
        /\ IF Len(generations) = Len(h)
           THEN /\ generations' = Append(generations, Publication(h, r))
                /\ Told(p, r, "published")
           ELSE Told(p, r, "conflict") /\ UNCHANGED generations
        /\ UNCHANGED <<scenario, datasets, damaged, builder, faults>>

(* MemoryRepository.Publish. *)
PublishMemory(p, r) ==
    /\ backend = "memory" /\ publisher[p].pc = "idle" /\ r.dataset \in datasets
    /\ Len(generations) < MaxGenerations
    /\ IF MayPublish(generations, r)
       THEN /\ generations' = Append(generations, Publication(generations, r))
            /\ Told(p, r, "published")
       ELSE Told(p, r, Verdict(generations, r)) /\ UNCHANGED generations
    /\ UNCHANGED <<scenario, datasets, damaged, builder, faults>>

-----------------------------------------------------------------------------
(* Faults: a process dies and starts afresh (its temporary directory is never   *)
(* read); a committed directory is damaged.                                     *)
CrashBuilder(b) ==
    /\ faults < MaxFaults /\ builder[b].pc # "idle"
    /\ faults' = faults + 1
    /\ Idle(b)
    /\ UNCHANGED <<scenario, datasets, damaged, generations, publisher>>

CrashPublisher(p) ==
    /\ faults < MaxFaults /\ publisher[p].pc # "idle"
    /\ faults' = faults + 1
    /\ publisher' = [publisher EXCEPT ![p] = NewPublisher]
    /\ UNCHANGED <<scenario, datasets, damaged, generations, builder>>

Damage(m) ==
    /\ backend = "file" /\ faults < MaxFaults /\ m \notin damaged
    /\ faults' = faults + 1
    /\ damaged' = damaged \union {m}
    /\ UNCHANGED <<scenario, datasets, generations, builder, publisher>>

-----------------------------------------------------------------------------
StoreInit ==
    /\ scenario \in Scenarios
    /\ datasets = scenario.committed /\ damaged = {} /\ generations = <<>> /\ faults = 0
    /\ builder = [b \in Builders |-> [pc |-> "idle", manifest |-> NoDataset]]
    /\ publisher = [p \in Publishers |-> NewPublisher]

StoreNext ==
    \/ \E b \in Builders :
        \/ \E parent \in datasets \union {NoDataset}, s \in Sources, l \in Latenesses,
              request \in {"", "fix"} : Build(b, parent, s, l, request)
        \/ \E s \in Sources, l \in Latenesses : BuildAborted(b, s, l)
        \/ CommitScan(b) \/ CommitRename(b) \/ CommitMemory(b) \/ AbortBuild(b) \/ CrashBuilder(b)
    \/ \E p \in Publishers :
        \/ \E q \in Requests, d \in datasets, e \in datasets \union {NoDataset} :
                LET r == Request(q[1], d, e, q[2]) IN PublishRead(p, r) \/ PublishMemory(p, r)
        \/ PublishRename(p) \/ CrashPublisher(p)
    \/ \E m \in datasets : Damage(m)

StoreSpec == StoreInit /\ [][StoreNext]_vars

-----------------------------------------------------------------------------
(* A committed dataset is sorted and accounts for its whole source: what was    *)
(* well formed and wanted is an event or was noted as a duplicate or as late,   *)
(* and a window without an event was noted as missing (ingest/service.go:33).   *)
DatasetsComplete ==
    \A m \in datasets :
        /\ \A i \in 1 .. Len(m.events) - 1 : EventLess(m.events[i], m.events[i + 1])
        /\ \A i \in DOMAIN m.source :
            LET o == m.source[i]
            IN  (o.ok /\ o.included) =>
                    \/ \E j \in DOMAIN m.events : m.events[j].obs = o
                    \/ <<"LATE", o>> \in Range(m.quality)
        /\ \A w \in Windows : (\E j \in DOMAIN m.events : m.events[j].at = w)
                                \/ <<"MISSING", w>> \in Range(m.quality)

(* The generations form one chain: each replaces the dataset its publisher      *)
(* expected, which is the one before it, so that no update is lost between the  *)
(* read of the history and the rename; a request is published once however      *)
(* often and by however many processes it is retried (publication.go:45).       *)
GenerationsChain ==
    \A i \in DOMAIN generations :
        /\ generations[i].dataset \in datasets
        /\ generations[i].previous = CurrentOf(SubSeq(generations, 1, i - 1))
        /\ generations[i].expected = generations[i].previous
        /\ \A j \in DOMAIN generations : generations[j].request = generations[i].request => i = j

(* Who was told that a request is published finds its generation, whatever      *)
(* crashed since.                                                               *)
AnsweredIsPublished ==
    \A p \in Publishers : publisher[p].answer = "published" =>
        \E i \in DOMAIN generations :
            /\ generations[i].request = publisher[p].request.id
            /\ generations[i].dataset = publisher[p].request.dataset

(* Publishing loses no update and forgets no answer. *)
PublicationInv == GenerationsChain /\ AnsweredIsPublished

(* One build key names one content: "the same build key with different content  *)
(* is corruption" (docs/decisions/0003-immutable-dataset-publication-           *)
(* generations.md:25).  The file repository scans for the key and renames in    *)
(* two steps, so that two builders can both pass the scan (repository.go:262).  *)
BuildKeyNamesContent ==
    \A m, n \in datasets : BuildKey(m) = BuildKey(n) => m = n

(* A rollback from a damaged current dataset to a sound one is not refused for  *)
(* the damage: "if the corrupt dataset is current, use a compare-and-swap       *)
(* rollback to the last verified dataset" (docs/runbooks/CORRUPT_DATASET.md:13). *)
(* Publish reads the history by opening every dataset in it (publication.go:231). *)
RollbackLeavesDamage ==
    \A p \in Publishers :
        publisher[p].answer = "corrupt" =>
            ~(publisher[p].request.action = "ROLLBACK" /\ Opens(publisher[p].request.dataset))
=============================================================================
