----------------------- MODULE NotificationDispatcher -----------------------
(***************************************************************************)
(* The bounded notification dispatcher: concurrent Publish calls admit     *)
(* events into three severity queues, a fixed pool of workers delivers     *)
(* them to Telegram with bounded retries, and Shutdown drains the queues.  *)
(* The code holds its mutex only for the duplicate and coalescing tables;  *)
(* queueing, eviction and the delivery records happen after it is          *)
(* released, so they are separate steps here.  A notification is named by  *)
(* the identity of its event; `deliveries` keeps the newest delivery       *)
(* record of each, which is what the operator's views show.                *)
(***************************************************************************)
EXTENDS Naturals, Sequences, FiniteSets, SequencesExt

CONSTANTS
  Nothing,
  Publishers,     \* goroutines that publish (the runtime, the observer)
  Workers,        \* the worker pool
  Events,         \* [id, checksum, severity, key, kind]; key Nothing: never coalesced
  Capacity,       \* Config.Capacity
  SeenLimit,      \* the duplicate table's size, Capacity*4 in the code
  MaxAttempts,    \* Config.MaxAttempts
  RetryHorizon,   \* Config.RetryHorizon, in units of RetryBase
  RetryMaximum,   \* Config.RetryMaximum, in the same units
  DuplicateWindow, CoalesceWindow,
  ReplayPolicy,   \* "VERIFY_ONLY" or "DELIVER"
  ProviderEnabled,\* FALSE: the Disabled sender
  Answers,        \* identity -> what Telegram may answer
  Plans,          \* publisher -> sequence of [event, replay]: what it publishes
  MaxTime         \* bound on the clock

VARIABLES
  now, todo,
  accepting, cancelled, drain,   \* drain: the goroutine Shutdown starts
  seen, seenOrder, coalesced,
  queue,                         \* severity -> sequence of events
  publisher, worker, inFlight,
  deliveries,                    \* identity -> newest delivery record
  degraded,                      \* some failure was counted: Health is DEGRADED
  caller,                        \* the first Shutdown call
  works,                         \* history: number of a work -> [id, severity, at, end, by]
  early                          \* history: works published before Shutdown

vars == <<now, todo, accepting, cancelled, drain, seen, seenOrder, coalesced,
          queue, publisher, worker, inFlight, deliveries, degraded,
          caller, works, early>>

Severities == {"CRITICAL", "WARNING", "INFO"}
Ids == {e.id : e \in Events}

CriticalCap == Capacity \div 4
WarningCap == (Capacity - CriticalCap) \div 2
Cap == [CRITICAL |-> CriticalCap, WARNING |-> WarningCap,
        INFO |-> Capacity - CriticalCap - WarningCap]

Depth == Len(queue["CRITICAL"]) + Len(queue["WARNING"]) + Len(queue["INFO"])

Idle == [pc |-> "idle", event |-> Nothing, n |-> 0, rest |-> <<>>]
Resting == [pc |-> "critical", event |-> Nothing, n |-> 0, attempt |-> 0, delay |-> 0, elapsed |-> 0]

Record(id, state) ==
  deliveries' = [deliveries EXCEPT ![id] = state]

TypeOK ==
  /\ now \in 0..MaxTime
  /\ accepting \in BOOLEAN /\ cancelled \in BOOLEAN
  /\ drain \in {"none", "draining", "waiting", "done"}
  /\ \A q \in Severities : Len(queue[q]) <= Cap[q]
  /\ inFlight \in 0..Cardinality(Workers)
  /\ caller \in {"none", "waiting", "nil", "error"}
  /\ Len(seenOrder) <= SeenLimit

Init ==
  /\ now = 0 /\ todo \in Plans
  /\ accepting = TRUE /\ cancelled = FALSE /\ drain = "none"
  /\ seen = [i \in Ids |-> Nothing] /\ seenOrder = <<>>
  /\ coalesced = [k \in {e.key : e \in Events} |-> Nothing]
  /\ queue = [q \in Severities |-> <<>>]
  /\ publisher = [p \in Publishers |-> Idle]
  /\ worker = [w \in Workers |-> Resting]
  /\ inFlight = 0
  /\ deliveries = [i \in Ids |-> "none"]
  /\ degraded = FALSE
  /\ caller = "none"
  /\ works = <<>> /\ early = {}

-----------------------------------------------------------------------------
(* Publish.  Steps up to the unlock: the suppression tests, then, under the *)
(* mutex, the accepting flag, the duplicate table and the coalescing table. *)

Suppression(e, replay) ==
  CASE e.kind = "FINANCIAL_SNAPSHOT" -> "PRESENTATION_POLICY"
    [] ~ProviderEnabled -> "PROVIDER_DISABLED"
    [] replay /\ ReplayPolicy = "VERIFY_ONLY" -> "REPLAY_POLICY"
    [] OTHER -> "none"

IsDuplicate(e) == seen[e.id] # Nothing /\ now - seen[e.id].at < DuplicateWindow

IsCoalesced(e) ==
  /\ e.key # Nothing
  /\ coalesced[e.key] # Nothing
  /\ now - coalesced[e.key] < CoalesceWindow

Remember(e) ==
  LET known == seen[e.id] # Nothing
      order == IF known THEN seenOrder ELSE Append(seenOrder, e.id)
      full  == Len(order) > SeenLimit
      entry == [seen EXCEPT ![e.id] = [checksum |-> e.checksum, at |-> now]]
  IN  /\ seen' = IF full THEN [entry EXCEPT ![order[1]] = Nothing] ELSE entry
      /\ seenOrder' = IF full THEN Tail(order) ELSE order
      /\ coalesced' = IF e.key # Nothing THEN [coalesced EXCEPT ![e.key] = now]
                                         ELSE coalesced

(* The lower queues a severity may evict from, in the order it tries them. *)
Lower(severity) ==
  CASE severity = "CRITICAL" -> <<"INFO", "WARNING">>
    [] severity = "WARNING" -> <<"INFO">>
    [] OTHER -> <<>>

Publish(p) ==
  LET e == Head(todo[p]).event
      reason == Suppression(e, Head(todo[p]).replay)
      Settle(state) ==
        /\ Record(e.id, state)
        /\ UNCHANGED <<seen, seenOrder, coalesced, publisher, works>>
  IN  /\ publisher[p].pc = "idle" /\ todo[p] # <<>>
      /\ todo' = [todo EXCEPT ![p] = Tail(@)]
      /\ \/ /\ reason # "none"
            /\ Settle("SUPPRESSED")
            /\ UNCHANGED degraded
         \/ /\ reason = "none" /\ ~accepting
            /\ Settle("FAILED")
            /\ degraded' = TRUE
         \/ /\ reason = "none" /\ accepting /\ IsDuplicate(e)
            /\ IF seen[e.id].checksum # e.checksum
               THEN Settle("FAILED") /\ degraded' = TRUE
               ELSE Settle("SUPPRESSED") /\ UNCHANGED degraded
         \/ /\ reason = "none" /\ accepting /\ ~IsDuplicate(e) /\ IsCoalesced(e)
            /\ Settle("COALESCED")
            /\ UNCHANGED degraded
         \/ /\ reason = "none" /\ accepting /\ ~IsDuplicate(e) /\ ~IsCoalesced(e)
            /\ Remember(e)
            /\ publisher' = [publisher EXCEPT ![p] =
                 [pc |-> "offer", event |-> e, n |-> Len(works) + 1, rest |-> Lower(e.severity)]]
            /\ works' = Append(works, [id |-> e.id, severity |-> e.severity, at |-> now,
                                      end |-> "open", by |-> "none"])
            /\ UNCHANGED <<deliveries, degraded>>
      /\ UNCHANGED <<now, accepting, cancelled, drain, queue, worker, inFlight,
                     caller, early>>

(* What is left of a Publish that found no room: the next lower queue, or  *)
(* the admission failure.                                                  *)
NextQueue(p) ==
  IF publisher[p].rest # <<>>
  THEN /\ publisher' = [publisher EXCEPT ![p].pc = "evict"]
       /\ UNCHANGED <<deliveries, degraded, works>>
  ELSE /\ Record(publisher[p].event.id, "FAILED")
       /\ works' = [works EXCEPT ![publisher[p].n].end = "FAILED"]
       /\ degraded' = TRUE
       /\ publisher' = [publisher EXCEPT ![p] = Idle]

Enqueue(p, q) ==
  /\ queue' = [queue EXCEPT ![q] = Append(@, [event |-> publisher[p].event, n |-> publisher[p].n])]
  /\ publisher' = [publisher EXCEPT ![p].pc = "record"]

Unpublished == <<now, todo, accepting, cancelled, drain, seen, seenOrder, coalesced,
                 worker, inFlight, caller, early>>

Offer(p) ==
  LET q == publisher[p].event.severity
  IN  /\ publisher[p].pc = "offer"
      /\ \/ /\ Len(queue[q]) < Cap[q] /\ Enqueue(p, q)
            /\ UNCHANGED <<deliveries, degraded, works>>
         \/ Len(queue[q]) >= Cap[q] /\ NextQueue(p) /\ UNCHANGED queue
      /\ UNCHANGED Unpublished

(* replaceLower: the oldest work of the lower queue is taken out and       *)
(* recorded DROPPED; only then is the replacement offered to that queue.   *)
Evict(p) ==
  LET q == Head(publisher[p].rest)
  IN  /\ publisher[p].pc = "evict"
      /\ \/ /\ queue[q] = <<>>
            /\ publisher' = [publisher EXCEPT ![p].pc = "next"]
            /\ UNCHANGED <<queue, deliveries, degraded, works>>
         \/ /\ queue[q] # <<>>
            /\ queue' = [queue EXCEPT ![q] = Tail(@)]
            /\ Record(Head(queue[q]).event.id, "DROPPED")
            /\ works' = [works EXCEPT ![Head(queue[q]).n].end = "DROPPED",
                                   ![Head(queue[q]).n].by = publisher[p].event.severity]
            /\ publisher' = [publisher EXCEPT ![p].pc = "replace"]
            /\ UNCHANGED degraded
      /\ UNCHANGED Unpublished

Replace(p) ==
  LET q == Head(publisher[p].rest)
  IN  /\ publisher[p].pc = "replace"
      /\ IF Len(queue[q]) < Cap[q]
         THEN Enqueue(p, q)
         ELSE /\ publisher' = [publisher EXCEPT ![p].pc = "next"]
              /\ UNCHANGED queue
      /\ UNCHANGED <<deliveries, degraded, works>>
      /\ UNCHANGED Unpublished

TryNext(p) ==
  LET rest == Tail(publisher[p].rest)
  IN  /\ publisher[p].pc = "next"
      /\ IF rest # <<>>
         THEN /\ publisher' = [publisher EXCEPT ![p].pc = "evict", ![p].rest = rest]
              /\ UNCHANGED <<deliveries, degraded, works>>
         ELSE /\ Record(publisher[p].event.id, "FAILED")
              /\ works' = [works EXCEPT ![publisher[p].n].end = "FAILED"]
              /\ degraded' = TRUE
              /\ publisher' = [publisher EXCEPT ![p] = Idle]
      /\ UNCHANGED queue
      /\ UNCHANGED Unpublished

(* The PENDING record is written after the work is already in its queue.   *)
RecordPending(p) ==
  /\ publisher[p].pc = "record"
  /\ Record(publisher[p].event.id, "PENDING")
  /\ publisher' = [publisher EXCEPT ![p] = Idle]
  /\ early' = IF accepting THEN early \cup {publisher[p].n} ELSE early
  /\ UNCHANGED <<now, todo, accepting, cancelled, drain, seen, seenOrder, coalesced,
                 queue, worker, inFlight, degraded, caller, works>>

-----------------------------------------------------------------------------
(* The worker: next() polls CRITICAL, then WARNING, then blocks on all.    *)

Unworked == <<now, todo, accepting, drain, seen, seenOrder, coalesced, publisher,
              caller, early>>

Take(w, q) ==
  /\ queue[q] # <<>>
  /\ queue' = [queue EXCEPT ![q] = Tail(@)]
  /\ worker' = [worker EXCEPT ![w].pc = "taken", ![w].event = Head(queue[q]).event,
                              ![w].n = Head(queue[q]).n]

Poll(w) ==
  /\ \/ /\ worker[w].pc = "critical"
        /\ \/ Take(w, "CRITICAL")
           \/ /\ queue["CRITICAL"] = <<>>
              /\ worker' = [worker EXCEPT ![w].pc = "warning"]
              /\ UNCHANGED queue
     \/ /\ worker[w].pc = "warning"
        /\ \/ Take(w, "WARNING")
           \/ /\ queue["WARNING"] = <<>>
              /\ worker' = [worker EXCEPT ![w].pc = "any"]
              /\ UNCHANGED queue
     \/ /\ worker[w].pc = "any"
        /\ \/ \E q \in Severities : Take(w, q)
           \/ /\ cancelled
              /\ worker' = [worker EXCEPT ![w].pc = "gone"]
              /\ UNCHANGED queue
  /\ UNCHANGED <<cancelled, inFlight, deliveries, degraded, works>>
  /\ UNCHANGED Unworked

(* deliver: the work leaves the queue before inFlight counts it. *)
Deliver(w) ==
  /\ worker[w].pc = "taken"
  /\ inFlight' = inFlight + 1
  /\ worker' = [worker EXCEPT ![w].pc = "sending", ![w].attempt = 1, ![w].delay = 1]
  /\ Record(worker[w].event.id, "DELIVERING")
  /\ UNCHANGED <<cancelled, queue, degraded, works>>
  /\ UNCHANGED Unworked

(* Send: the request the context cut short, or one of Telegram's answers.  *)
AnswersNow(w) == IF cancelled THEN {"TRANSPORT"} ELSE Answers[worker[w].event.id]

IsRetryable(a) == a \in {"TRANSPORT", "RATE_LIMITED", "SERVER_ERROR"}

GivesUp(w, a) ==
  \/ ~IsRetryable(a)
  \/ worker[w].attempt = MaxAttempts
  \/ worker[w].elapsed + worker[w].delay > RetryHorizon

AtMostMaximum(d) == IF d > RetryMaximum THEN RetryMaximum ELSE d

Finish(w, state) ==
  /\ Record(worker[w].event.id, state)
  /\ works' = [works EXCEPT ![worker[w].n].end = state]
  /\ inFlight' = inFlight - 1
  /\ worker' = [worker EXCEPT ![w] = Resting]

Send(w, a) ==
  /\ worker[w].pc = "sending"
  /\ \/ /\ a = "OK"
        /\ Finish(w, "DELIVERED")
        /\ UNCHANGED degraded
     \/ /\ a = "PANIC"
        /\ degraded' = TRUE
        /\ Finish(w, "FAILED")
     \/ /\ a \notin {"OK", "PANIC"} /\ GivesUp(w, a)
        /\ degraded' = TRUE
        /\ Finish(w, "FAILED")
     \/ /\ a \notin {"OK", "PANIC"} /\ ~GivesUp(w, a)
        /\ Record(worker[w].event.id, "RETRY_WAIT")
        /\ LET after == IF a = "RATE_LIMITED" THEN 2 ELSE 0
               delay == IF after > worker[w].delay THEN after ELSE worker[w].delay
           IN worker' = [worker EXCEPT ![w].pc = "waiting", ![w].delay = AtMostMaximum(delay)]
        /\ UNCHANGED <<degraded, inFlight, works>>
  /\ UNCHANGED <<cancelled, queue>>
  /\ UNCHANGED Unworked

(* The retry timer fires, or the dispatcher's context ends first. *)
RetryTimer(w) ==
  /\ worker[w].pc = "waiting"
  /\ worker' = [worker EXCEPT ![w].pc = "sending", ![w].attempt = @ + 1,
                              ![w].elapsed = @ + worker[w].delay,
                              ![w].delay = AtMostMaximum(2 * worker[w].delay)]
  /\ Record(worker[w].event.id, "DELIVERING")
  /\ UNCHANGED <<cancelled, queue, inFlight, degraded, works>>
  /\ UNCHANGED Unworked

RetryCancelled(w) ==
  /\ worker[w].pc = "waiting" /\ cancelled
  /\ Finish(w, "FAILED")
  /\ UNCHANGED <<cancelled, queue, degraded>>
  /\ UNCHANGED Unworked

-----------------------------------------------------------------------------
(* Shutdown.  A second call returns nil at once and changes nothing.       *)

Undrained == <<now, todo, seen, seenOrder, coalesced, queue, publisher, worker, inFlight,
               deliveries, degraded, works, early>>

Shutdown ==
  /\ accepting
  /\ accepting' = FALSE /\ drain' = "draining" /\ caller' = "waiting"
  /\ UNCHANGED cancelled
  /\ UNCHANGED Undrained

DrainEmpty ==
  /\ drain = "draining" /\ Depth = 0 /\ inFlight = 0
  /\ cancelled' = TRUE /\ drain' = "waiting"
  /\ UNCHANGED <<accepting, caller>>
  /\ UNCHANGED Undrained

DrainDone ==
  /\ drain = "waiting" /\ \A w \in Workers : worker[w].pc = "gone"
  /\ drain' = "done"
  /\ UNCHANGED <<accepting, cancelled, caller>>
  /\ UNCHANGED Undrained

ShutdownReturns ==
  /\ caller = "waiting" /\ drain = "done"
  /\ caller' = "nil"
  /\ UNCHANGED <<accepting, cancelled, drain>>
  /\ UNCHANGED Undrained

ShutdownTimeout ==
  /\ caller = "waiting"
  /\ caller' = "error" /\ cancelled' = TRUE
  /\ UNCHANGED <<accepting, drain>>
  /\ UNCHANGED Undrained

Tick ==
  /\ now < MaxTime /\ now' = now + 1
  /\ UNCHANGED <<todo, accepting, cancelled, drain, seen, seenOrder, coalesced, queue,
                 publisher, worker, inFlight, deliveries, degraded, caller,
                 works, early>>

PublisherStep(p) == Offer(p) \/ Evict(p) \/ Replace(p) \/ TryNext(p) \/ RecordPending(p)
WorkerStep(w) ==
  \/ Poll(w) \/ Deliver(w) \/ RetryTimer(w) \/ RetryCancelled(w)
  \/ worker[w].pc = "sending" /\ \E a \in AnswersNow(w) : Send(w, a)
DrainStep == DrainEmpty \/ DrainDone \/ ShutdownReturns

Next ==
  \/ \E p \in Publishers : Publish(p) \/ PublisherStep(p)
  \/ \E w \in Workers : WorkerStep(w)
  \/ Shutdown \/ DrainStep \/ ShutdownTimeout
  \/ Tick

(* Every goroutine runs on; Send returns because of the request timeout,   *)
(* the timer fires, and the caller's context has a deadline.               *)
Fairness ==
  /\ \A p \in Publishers : WF_vars(PublisherStep(p))
  /\ \A w \in Workers : WF_vars(WorkerStep(w))
  /\ WF_vars(DrainStep) /\ WF_vars(ShutdownTimeout)

Spec == Init /\ [][Next]_vars /\ Fairness

-----------------------------------------------------------------------------
Held == {worker[w].n : w \in {v \in Workers : worker[v].event # Nothing}}
Offered == {publisher[p].n : p \in {o \in Publishers : publisher[o].pc \notin {"idle", "record"}}}
Queued == {x.n : x \in UNION {ToSet(queue[q]) : q \in Severities}}

(* No admitted work disappears, and none is handed out twice: until its    *)
(* end is recorded it is with its publisher, in a queue or in the hands of *)
(* a worker, at one of these places only; after its end at none.           *)
NothingVanishes ==
  /\ {n \in DOMAIN works : works[n].end = "open"} = Held \cup Queued \cup Offered
  /\ Cardinality(Held \cup Queued \cup Offered) =
       Depth + Cardinality(Offered) + Cardinality({w \in Workers : worker[w].event # Nothing})

(* While no more identities were admitted than the duplicate table holds,  *)
(* an identity is admitted again only after its duplicate window.          *)
DuplicatesSuppressed ==
  \A n \in DOMAIN works : \A m \in 1..(n - 1) :
    works[m].id = works[n].id =>
      \/ works[n].at - works[m].at >= DuplicateWindow
      \/ Cardinality({works[k].id : k \in 1..n} \ {works[n].id}) >= SeenLimit

(* A delivery makes at most MaxAttempts attempts inside the retry horizon. *)
RetryIsBounded ==
  \A w \in Workers : /\ worker[w].attempt <= MaxAttempts
                     /\ worker[w].elapsed <= RetryHorizon

(* A Shutdown that returned nil left no work behind that had been          *)
(* published before it was called, and no worker.                          *)
DrainedBeforeNil ==
  caller = "nil" =>
    /\ \A w \in Workers : worker[w].pc = "gone"
    /\ \A n \in early : works[n].end # "open"

NotificationInv ==
  TypeOK /\ NothingVanishes /\ DuplicatesSuppressed /\ RetryIsBounded /\ DrainedBeforeNil

(* ADR 0031: "Admission and delivery failures are evidenced".  When the    *)
(* dispatcher has stopped and no Publish is running, the newest record of  *)
(* every admitted notification says how it ended.                          *)
EndsAreEvidenced ==
  caller = "nil" /\ (\A p \in Publishers : publisher[p].pc = "idle") =>
    \A n \in DOMAIN works :
      deliveries[works[n].id] \in {"DELIVERED", "FAILED", "DROPPED", "SUPPRESSED", "COALESCED"}

(* ADR 0031: "reserved, bounded severity queues".  A work is evicted only  *)
(* for a more severe one.                                                  *)
EvictedByMoreSevere ==
  \A n \in DOMAIN works : works[n].end = "DROPPED" =>
    works[n].severity \in ToSet(Lower(works[n].by))
=============================================================================
