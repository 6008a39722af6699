---------------------- MODULE PositionReconciliation ----------------------
(***************************************************************************)
(* The reconciliation of the accounting ledger's positions with broker     *)
(* position observations: buildEvidence as an operator, and the            *)
(* coordinator's Reconcile call, interleaved with fills that change the    *)
(* local position and with other calls about the same observation.  The    *)
(* semaphore only delays a call between its reservation and its first      *)
(* read, which the interleaving already allows.                            *)
(***************************************************************************)
EXTENDS Integers, FiniteSets, Sequences

CONSTANTS
  NoEvidence,
  Checkers,
  Observations,   \* [id, qty, at, ingested, complete, available, scope]
  Modes,          \* the runtime modes a request may carry
  LedgerStates,         \* the states of the local position: NoEvidence or a quantity
  MaximumAge,     \* Config.MaximumAge
  EvidenceLimit,          \* ReconciliationStore's limit
  MaxCheckTime, MaxChecks

VARIABLES checkTime, checks, ledger, check, reconciling, checkClosed, checkShutdown,
          store      \* observation identity -> evidence, or NoEvidence

checkVars == <<checkTime, checks, ledger, check, reconciling, checkClosed, checkShutdown, store>>

\* An observation is named by the checksum of its content; before the first fill there is no
\* position.
ASSUME ReconciliationAssumption ==
  /\ \A o \in Observations : o.qty \in Int /\ o.at \in Int
  /\ \A o, p \in Observations : o.id = p.id => o = p
  /\ LedgerStates \in Seq(Int \cup {NoEvidence}) /\ LedgerStates # <<>>
  /\ MaximumAge \in Nat

ObservationIDs == {o.id : o \in Observations}
Local == LedgerStates[ledger]

\* Where a call holds its reservation.
Holding == {"read", "verify", "publish"}

-----------------------------------------------------------------------------
SignsDiffer(a, b) == a # 0 /\ b # 0 /\ (a < 0) # (b < 0)

NotComparable(mode, o) ==
  \/ mode \in {"OFFLINE", "LIVE_DISABLED"}
  \/ mode = "SHADOW" /\ o.scope = "REAL"
  \/ mode = "PAPER" /\ o.scope # "PAPER"

IsFresh(o, at) == at >= o.at /\ at - o.at <= MaximumAge

(* buildEvidence: the first difference decides the classification; an      *)
(* unknown local position counts as quantity zero.                         *)
Classify(local, o, mode, at) ==
  CASE NotComparable(mode, o) -> "UNKNOWN"
    [] ~NotComparable(mode, o) /\ ~(o.available /\ o.complete) -> "UNKNOWN"
    [] OTHER ->
         CASE ~IsFresh(o, at) -> "STALE_BROKER_OBSERVATION"
           [] IsFresh(o, at) /\ local # 0 /\ o.qty = 0 -> "LOCAL_ONLY"
           [] IsFresh(o, at) /\ local = 0 /\ o.qty # 0 -> "BROKER_ONLY"
           [] IsFresh(o, at) /\ SignsDiffer(local, o.qty) -> "DIRECTION_MISMATCH"
           [] IsFresh(o, at) /\ local * o.qty > 0 /\ local # o.qty -> "QUANTITY_MISMATCH"
           [] OTHER -> "MATCH"

Severity(c) ==
  CASE c = "MATCH" -> "HEALTHY"
    [] c \in {"UNKNOWN", "STALE_BROKER_OBSERVATION", "BROKER_ONLY"} -> "CRITICAL"
    [] OTHER -> "HIGH"

BuildEvidence(position, o, mode, at) ==
  LET local == IF position = NoEvidence THEN 0 ELSE position
      c == Classify(local, o, mode, at)
  IN  [id |-> o.id, position |-> position, class |-> c, severity |-> Severity(c),
       blocked |-> c # "MATCH", mode |-> mode, at |-> at]

-----------------------------------------------------------------------------
NoCheck == [pc |-> "idle", obs |-> NoEvidence, mode |-> NoEvidence, at |-> 0,
         position |-> NoEvidence, read |-> 0, answer |-> NoEvidence]

CheckInit ==
  /\ checkTime = 0 /\ checks = 0 /\ ledger = 1
  /\ check = [c \in Checkers |-> NoCheck]
  /\ reconciling = {} /\ checkClosed = FALSE /\ checkShutdown = "none"
  /\ store = [i \in ObservationIDs |-> NoEvidence]

Answer(c, a) ==
  /\ check' = [check EXCEPT ![c] = [NoCheck EXCEPT !.answer = a]]
  /\ reconciling' = IF check[c].pc \in Holding THEN reconciling \ {check[c].obs.id}
                ELSE reconciling

(* NewBrokerPositionObservation, run again on every request: what is not   *)
(* available carries no quantity, nothing is ingested before it was seen.  *)
ValidObservation(o) == (o.available \/ o.qty = 0) /\ o.ingested >= o.at

(* Reconcile: the request is validated and its evidence looked up before   *)
(* anything is reserved.                                                   *)
Lookup(c, o, mode) ==
  /\ check[c].pc = "idle" /\ checks < MaxChecks
  /\ checks' = checks + 1
  /\ check' = IF ~ValidObservation(o) THEN [check EXCEPT ![c] = NoCheck]
             ELSE IF store[o.id] # NoEvidence
             THEN [check EXCEPT ![c] = [NoCheck EXCEPT !.answer = store[o.id]]]
             ELSE [check EXCEPT ![c] = [NoCheck EXCEPT !.pc = "reserve", !.obs = o, !.mode = mode,
                                                   !.at = checkTime]]
  /\ UNCHANGED <<checkTime, ledger, reconciling, checkClosed, checkShutdown, store>>

ReserveCheck(c) ==
  /\ check[c].pc = "reserve"
  /\ IF checkClosed \/ check[c].obs.id \in reconciling
     THEN Answer(c, NoEvidence)
     ELSE /\ check' = [check EXCEPT ![c].pc = "read"]
          /\ reconciling' = reconciling \cup {check[c].obs.id}
  /\ UNCHANGED <<checkTime, checks, ledger, checkClosed, checkShutdown, store>>

ReadPosition(c) ==
  /\ check[c].pc = "read"
  /\ check' = [check EXCEPT ![c].pc = "verify", ![c].position = Local, ![c].read = ledger]
  /\ UNCHANGED <<checkTime, checks, ledger, reconciling, checkClosed, checkShutdown, store>>

(* A position that was found is read again; one that was not, is not.      *)
Verify(c) ==
  /\ check[c].pc = "verify"
  /\ IF check[c].position # NoEvidence /\ check[c].read # ledger
     THEN Answer(c, NoEvidence)
     ELSE check' = [check EXCEPT ![c].pc = "publish"] /\ UNCHANGED reconciling
  /\ UNCHANGED <<checkTime, checks, ledger, checkClosed, checkShutdown, store>>

(* Mutant of MayStore: evidence replaces what is stored already. *)
MayStoreAgain(e) ==
  \/ store[e.id] # NoEvidence
  \/ Cardinality({i \in ObservationIDs : store[i] # NoEvidence}) < EvidenceLimit

(* ReconciliationStore.Publish: equal evidence is the stored one, other    *)
(* evidence about the same observation is refused.                         *)
MayStore(e) ==
  /\ store[e.id] = NoEvidence
  /\ Cardinality({i \in ObservationIDs : store[i] # NoEvidence}) < EvidenceLimit

PublishEvidence(c) ==
  LET e == BuildEvidence(check[c].position, check[c].obs, check[c].mode, check[c].at)
  IN  /\ check[c].pc = "publish"
      /\ IF MayStore(e)
         THEN store' = [store EXCEPT ![e.id] = e] /\ Answer(c, e)
         ELSE /\ Answer(c, IF store[e.id] = e THEN e ELSE NoEvidence)
              /\ UNCHANGED store
      /\ UNCHANGED <<checkTime, checks, ledger, checkClosed, checkShutdown>>

(* The context, the timeout or Shutdown ends the call before it publishes. *)
AbortCheck(c) ==
  /\ check[c].pc \in Holding
  /\ Answer(c, NoEvidence)
  /\ UNCHANGED <<checkTime, checks, ledger, checkClosed, checkShutdown, store>>

ShutdownChecks ==
  /\ ~checkClosed /\ checkClosed' = TRUE /\ checkShutdown' = "waiting"
  /\ UNCHANGED <<checkTime, checks, ledger, check, reconciling, store>>

ChecksStopped ==
  /\ checkShutdown = "waiting" /\ reconciling = {} /\ checkShutdown' = "returned"
  /\ UNCHANGED <<checkTime, checks, ledger, check, reconciling, checkClosed, store>>

LedgerMoves ==
  /\ \/ ledger < Len(LedgerStates) /\ ledger' = ledger + 1 /\ UNCHANGED checkTime
     \/ checkTime < MaxCheckTime /\ checkTime' = checkTime + 1 /\ UNCHANGED ledger
  /\ UNCHANGED <<checks, check, reconciling, checkClosed, checkShutdown, store>>

CheckNext ==
  \/ \E c \in Checkers :
       \/ \E o \in Observations, mode \in Modes : Lookup(c, o, mode)
       \/ ReserveCheck(c) \/ ReadPosition(c) \/ Verify(c) \/ PublishEvidence(c) \/ AbortCheck(c)
  \/ ShutdownChecks \/ ChecksStopped \/ LedgerMoves

ReconciliationSpec == CheckInit /\ [][CheckNext]_checkVars

-----------------------------------------------------------------------------
Observation(i) == CHOOSE o \in Observations : o.id = i
Quantity(p) == IF p = NoEvidence THEN 0 ELSE p

(* Evidence clears an instrument only when the broker's complete answer of *)
(* a comparable scope was observed before the evaluation, recently enough, *)
(* and gives the ledger's own quantity; everything else blocks, and an     *)
(* exposure the ledger does not know of is critical.                       *)
ClearMeansEqual ==
  \A i \in ObservationIDs : store[i] # NoEvidence =>
    LET e == store[i]
        o == Observation(i)
    IN  /\ ~e.blocked <=> /\ o.available /\ o.complete
                          /\ ~NotComparable(e.mode, o)
                          /\ e.at \in o.at..(o.at + MaximumAge)
                          /\ Quantity(e.position) = o.qty
        /\ Quantity(e.position) = 0 /\ o.qty # 0 => e.severity = "CRITICAL"

(* Whoever was answered about an observation was given the evidence that   *)
(* is stored, and it is never replaced.                                    *)
AnswersAgree ==
  \A c \in Checkers : check[c].answer # NoEvidence => store[check[c].answer.id] = check[c].answer

CheckedBeforeShutdown == checkShutdown = "returned" => reconciling = {}

ReconciliationInv ==
  /\ reconciling = {check[c].obs.id : c \in {d \in Checkers : check[d].pc \in Holding}}
  /\ ClearMeansEqual /\ AnswersAgree /\ CheckedBeforeShutdown
=============================================================================
