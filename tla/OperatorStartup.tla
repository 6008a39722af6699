--------------------------- MODULE OperatorStartup ---------------------------
(***************************************************************************)
(* The control plane: the broker session (internal/session over            *)
(* internal/adapters/sessionfile), the SHADOW startup state machine        *)
(* (internal/operator/startup), the preparation it runs                    *)
(* (internal/operator/preparation) and their HTTP handlers                 *)
(* (internal/controlplane).                                                *)
(*                                                                         *)
(* Every request is a goroutine.  The locks of the two services are held   *)
(* for one action here; the provider, the session file, the preparation    *)
(* commands and the runtime are called between two actions.  The runtime   *)
(* and the host launcher that starts it are external: the control plane    *)
(* only observes their readiness.                                          *)
(***************************************************************************)
EXTENDS Integers, Sequences, FiniteSets

CONSTANTS Callers,       \* the HTTP requests that may be in flight
          Cli,           \* the tradeedge-prepare process
          Tokens,        \* the request tokens a login yields
          TradingDays,   \* the days the calendar policy trades on
          MaxDay, MaxRequests, MaxRestarts,  \* bounds
          Nothing

Days == 0..MaxDay
Missing == -1
Corrupt == -2

VARIABLES clock,      \* the day and whether 16:00 has passed
          file,       \* the session file: the expiry it holds, Missing or Corrupt
          session,    \* the session service: state, expiry, whether it is blocked
          inflight,   \* the token being exchanged
          caller,     \* where every request is
          startup,    \* the startup service: status, running and trading date
          prepared,   \* the clock the preparation configuration was built with
          artifacts,  \* the files of the preparation, by kind and date
          selectors,  \* the date of the manifest and bundle the launcher uses
          runtime,    \* the SHADOW process and the date it is authorised for
          requests, restarts

vars == <<clock, file, session, inflight, caller, startup, prepared, artifacts, selectors,
          runtime, requests, restarts>>

Idle == [step |-> "idle", token |-> Nothing, date |-> Missing, late |-> FALSE, at |-> 0,
         acceptance |-> FALSE]

(***************************************************************************)
(* The session service.                                                    *)
(***************************************************************************)
Session(state, expiry, blocked) == [state |-> state, expiry |-> expiry, blocked |-> blocked]

(* NewService over Load: what the file holds decides the first state. *)
Loaded(content, day) ==
    IF content = Corrupt THEN Session("ERROR", Missing, TRUE)
    ELSE IF content = Missing THEN Session("LOGIN_REQUIRED", Missing, FALSE)
    ELSE Session(IF content >= day THEN "AUTHENTICATED" ELSE "EXPIRED", content, FALSE)

(* refreshExpiryLocked *)
Refreshed(s) ==
    IF s.state = "AUTHENTICATED" /\ s.expiry < clock.day THEN [s EXCEPT !.state = "EXPIRED"] ELSE s

NewRequest == requests < MaxRequests /\ requests' = requests + 1

(***************************************************************************)
(* Exchange, up to the provider: an authenticated, blocked or busy service *)
(* answers at once, the same token waits for the attempt that carries it.  *)
(***************************************************************************)
StartsAttempt(s, token) ==
    /\ ~s.blocked /\ s.state # "AUTHENTICATED"
    /\ inflight = Nothing

JoinsAttempt(s, token) ==
    ~s.blocked /\ s.state # "AUTHENTICATED" /\ inflight = token

Exchange(c, token) ==
    LET s == Refreshed(session) IN
    /\ caller[c].step = "idle"
    /\ NewRequest
    /\ session' = s
    /\ \/ /\ StartsAttempt(s, token)
          /\ inflight' = token
          /\ caller' = [caller EXCEPT ![c].step = "exchange", ![c].token = token]
       \/ /\ JoinsAttempt(s, token)
          /\ ~StartsAttempt(s, token)
          /\ caller' = [caller EXCEPT ![c].step = "join", ![c].token = token]
          /\ UNCHANGED inflight
       \/ /\ ~StartsAttempt(s, token) /\ ~JoinsAttempt(s, token)
          /\ UNCHANGED <<caller, inflight>>
    /\ UNCHANGED <<clock, file, startup, prepared, artifacts, selectors, runtime, restarts>>

(***************************************************************************)
(* applyExchangeLocked.  Save replaces the file by a rename; a failure     *)
(* before it leaves the old record, one after it (the mode, the directory  *)
(* sync) leaves the new one, and the service reports ERROR for both.       *)
(***************************************************************************)
Applied(answer, expiry) ==
    CASE answer = "refused" -> Session("LOGIN_REQUIRED", Missing, FALSE)
      [] answer = "saved" /\ expiry >= clock.day -> Session("AUTHENTICATED", expiry, FALSE)
      [] OTHER -> Session("ERROR", Missing, FALSE)

Saved(answer, expiry) ==
    IF answer \in {"saved", "replaced"} /\ expiry >= clock.day THEN expiry ELSE file

ExchangeReturns(c) ==
    \E answer \in {"refused", "unavailable", "unsaved", "replaced", "saved"},
       expiry \in {e \in (clock.day - 1)..(clock.day + 1) : e >= 0} :
        /\ caller[c].step = "exchange"
        /\ session' = Applied(answer, expiry)
        /\ file' = Saved(answer, expiry)
        /\ inflight' = Nothing
        /\ caller' = [d \in DOMAIN caller |->
             IF d = c \/ (caller[d].step = "join" /\ caller[d].token = caller[c].token)
             THEN Idle ELSE caller[d]]
        /\ UNCHANGED <<clock, startup, prepared, artifacts, selectors, runtime, requests, restarts>>

(* The context of a request that waits for another one's attempt ends. *)
JoinCancelled(c) ==
    /\ caller[c].step = "join"
    /\ caller' = [caller EXCEPT ![c] = Idle]
    /\ UNCHANGED <<clock, file, session, inflight, startup, prepared, artifacts, selectors,
                   runtime, requests, restarts>>

(***************************************************************************)
(* The startup service.                                                    *)
(***************************************************************************)
Transient == {"PREPARING", "STARTING_SHADOW", "WAITING_FOR_READINESS"}

(* Status: a new trading date drops the old status unless a run is under way. *)
Observed(s) ==
    IF s.date # Missing /\ s.date # clock.day /\ ~s.running
    THEN [s EXCEPT !.date = clock.day, !.state = "AUTHENTICATED", !.for = clock.day]
    ELSE s

(* The view of GET /api/v1/operator/state. *)
OperatorView ==
    CASE Refreshed(session).state # "AUTHENTICATED" -> "LOGIN"
      [] OTHER -> CASE Observed(startup).state = "MARKET_CLOSED" -> "MARKET_CLOSED"
                    [] Observed(startup).state = "FAILED" -> "FAILED"
                    [] Observed(startup).state = "READY" -> "RUNTIME"
                    [] OTHER -> "PREPARING"

Get ==
    /\ session' = Refreshed(session)
    /\ startup' = Observed(startup)
    /\ UNCHANGED <<clock, file, inflight, caller, prepared, artifacts, selectors, runtime,
                   requests, restarts>>

(* POST /api/v1/operator/startup: the status is read, then Start runs in a goroutine. *)
Post(c) ==
    /\ caller[c].step = "idle"
    /\ NewRequest
    /\ startup' = Observed(startup)
    /\ caller' = IF startup'.state \in Transient \cup {"READY"}
                 THEN caller ELSE [caller EXCEPT ![c].step = "posted"]
    /\ UNCHANGED <<clock, file, session, inflight, prepared, artifacts, selectors, runtime, restarts>>

(***************************************************************************)
(* Start: a new date resets the status whether or not a run is under way;  *)
(* READY for the date is the answer, a running start is waited for.        *)
(***************************************************************************)
MayRun(s) == ~(s.state = "READY" /\ s.for = clock.day) /\ ~s.running

Start(c) ==
    LET s == IF startup.date # clock.day
             THEN [startup EXCEPT !.date = clock.day, !.state = "AUTHENTICATED", !.for = clock.day]
             ELSE startup
    IN  /\ caller[c].step = "posted"
        /\ \/ /\ MayRun(s)
              /\ startup' = [s EXCEPT !.running = TRUE]
              /\ caller' = [caller EXCEPT ![c].step = "session", ![c].date = clock.day]
           \/ /\ ~MayRun(s) /\ s.state = "READY" /\ s.for = clock.day
              /\ startup' = s
              /\ caller' = [caller EXCEPT ![c] = Idle]
           \/ /\ ~MayRun(s) /\ ~(s.state = "READY" /\ s.for = clock.day)
              /\ startup' = s
              /\ caller' = [caller EXCEPT ![c].step = "wait"]
        /\ UNCHANGED <<clock, file, session, inflight, prepared, artifacts, selectors, runtime,
                       requests, restarts>>

Waited(c) ==
    /\ caller[c].step = "wait" /\ ~startup.running
    /\ startup' = Observed(startup)
    /\ caller' = [caller EXCEPT ![c] = Idle]
    /\ UNCHANGED <<clock, file, session, inflight, prepared, artifacts, selectors, runtime,
                   requests, restarts>>

(* set: the status of the run's date; fail takes the service's date instead. *)
Set(c, state) == startup' = [startup EXCEPT !.state = state, !.for = caller[c].date]
Goto(c, step) == caller' = [caller EXCEPT ![c].step = step]

(* A run ends by setting its last status; running is cleared by the deferred function. *)
Fail(c) ==
    /\ startup' = [startup EXCEPT !.state = "FAILED", !.for = startup.date]
    /\ Goto(c, "end")

RunSession(c) ==
    LET s == Refreshed(session) IN
    /\ caller[c].step = "session"
    /\ session' = s
    /\ \/ /\ s.state = "AUTHENTICATED" /\ Goto(c, "market") /\ UNCHANGED startup
       \/ /\ s.state # "AUTHENTICATED" /\ Set(c, "LOGIN_REQUIRED") /\ Goto(c, "end")
    /\ UNCHANGED <<clock, file, inflight, prepared, artifacts, selectors, runtime, requests, restarts>>

(* Closed reads the clock again: the day is the current one, not the run's. *)
Closed == clock.day \notin TradingDays \/ clock.late

RunMarket(c) ==
    /\ caller[c].step = "market"
    /\ \/ Fail(c)
       \/ Closed /\ Set(c, "MARKET_CLOSED") /\ Goto(c, "end")
       \/ ~Closed /\ Goto(c, "runtime") /\ UNCHANGED startup
    /\ UNCHANGED <<clock, file, session, inflight, prepared, artifacts, selectors, runtime,
                   requests, restarts>>

(* delegatedRuntime.Status: it never fails, an unreachable runtime is not running. *)
Healthy == runtime.state = "ready"

RunRuntime(c) ==
    /\ caller[c].step = "runtime"
    /\ \/ Healthy /\ Goto(c, "readiness") /\ UNCHANGED startup
       \/ /\ ~Healthy /\ Set(c, "PREPARING")
          /\ caller' = [caller EXCEPT ![c].step = "prepare", ![c].at = 1]
    /\ UNCHANGED <<clock, file, session, inflight, prepared, artifacts, selectors, runtime,
                   requests, restarts>>

(***************************************************************************)
(* Prepare: its steps in order, for the date of its configuration.  The    *)
(* control plane builds that once, the command line at every call, and the *)
(* mapping files hold its time: create-once files accept the same          *)
(* configuration again and no other.  Evidence that exists is not renewed, *)
(* not even a Telegram check that was not delivered; any step may fail.    *)
(***************************************************************************)
PrepareSteps == <<"clean", "snapshot", "calendar", "window", "mapping", "bundle", "telegram",
                  "preflight", "clean_again", "authorization", "inspect", "selectors">>

Evidence == {"telegram", "preflight", "authorization"}
Kept == Evidence \cup {"mapping", "bundle"}

AsOf(c) == IF c = Cli THEN [day |-> caller[c].date, late |-> caller[c].late] ELSE prepared
Author(c) == IF c = Cli THEN Missing ELSE restarts

Artifact(kind, day) == <<kind, day>> \in {<<f[1], f[2]>> : f \in artifacts}

(* The evidence is there and the step is not run: an acceptance run has a directory of its own. *)
Exists(c, step) ==
    /\ step \in Evidence /\ ~caller[c].acceptance
    /\ \/ Artifact(step, AsOf(c).day)
       \/ step = "telegram" /\ Artifact("undelivered", AsOf(c).day)

(* The stored session the read-only broker operations load. *)
SessionUsable == file >= clock.day /\ file >= 0

(* The instrument snapshot and the preflight ask the broker with it; the preflight's    *)
(* evidence must bear the date it was asked for.                                        *)
SnapshotPasses == SessionUsable
PreflightPasses(asof) == SessionUsable /\ asof.day = clock.day

(* The calendar of a day without trading is written and refused. *)
CalendarPasses(asof) == asof.day \in TradingDays

(* The inspection compares the manifest with today and with its window. *)
Inspected(asof) == asof.day = clock.day /\ ~clock.late

StepPasses(c, step) ==
    LET asof == AsOf(c) IN
    CASE step = "window" -> ~asof.late
      [] step = "snapshot" -> SnapshotPasses
      [] step = "calendar" -> CalendarPasses(asof)
      [] step = "mapping" ->
           \/ caller[c].acceptance \/ ~Artifact("mapping", asof.day)
           \/ c # Cli /\ <<"mapping", asof.day, Author(c)>> \in artifacts
      [] step = "preflight" -> PreflightPasses(asof)
      [] step = "authorization" -> Artifact("telegram", asof.day)
      [] step = "inspect" -> Inspected(asof)
      [] OTHER -> TRUE

StepMayFail(c, step) == IF step = "window" THEN AsOf(c).late ELSE TRUE

(* An acceptance run keeps nothing and ends after the preflight. *)
Skipped(c, step) ==
    \/ Exists(c, step)
    \/ caller[c].acceptance
         /\ step \in {"clean", "telegram", "clean_again", "authorization", "inspect", "selectors"}

Publish(c, kind) ==
    IF caller[c].acceptance \/ Artifact(kind, AsOf(c).day) THEN artifacts
    ELSE artifacts \cup {<<kind, AsOf(c).day, Author(c)>>}

(* PersistPreparationPaths: both selectors in one rename, which a later failure keeps. *)
PersistedSelectors(c, step) ==
    IF step = "selectors" /\ ~caller[c].acceptance THEN AsOf(c).day ELSE selectors

PrepareStep(c) ==
    LET step == PrepareSteps[caller[c].at] IN
    /\ caller[c].step = "prepare"
    /\ Skipped(c, step) \/ StepPasses(c, step)
    /\ artifacts' = IF step \in Kept /\ ~Skipped(c, step) THEN Publish(c, step) ELSE artifacts
    /\ selectors' = PersistedSelectors(c, step)
    /\ caller' = [caller EXCEPT ![c] =
         IF caller[c].at < Len(PrepareSteps) THEN [@ EXCEPT !.at = @ + 1]
         ELSE IF c = Cli THEN Idle ELSE [@ EXCEPT !.step = "prepared", !.at = 0]]
    /\ UNCHANGED <<clock, file, session, inflight, startup, prepared, runtime, requests, restarts>>

(* The Telegram check writes its evidence before it reports the failure, the mapping its *)
(* first files.                                                                          *)
LeftBehind(c, step) ==
    CASE step = "telegram" -> {Publish(c, "undelivered")}
      [] step = "mapping" -> {Publish(c, "mapping")}
      [] OTHER -> {}

PrepareFails(c) ==
    LET step == PrepareSteps[caller[c].at] IN
    /\ caller[c].step = "prepare"
    /\ StepMayFail(c, step) /\ ~Skipped(c, step)
    /\ IF c = Cli THEN caller' = [caller EXCEPT ![c] = Idle] /\ UNCHANGED startup
                  ELSE Fail(c)
    /\ artifacts' \in {artifacts} \cup LeftBehind(c, step)
    /\ selectors' \in {selectors, PersistedSelectors(c, step)}
    /\ UNCHANGED <<clock, file, session, inflight, prepared, runtime, requests, restarts>>

(* ExecuteCLI: the preparation of the day it is called on. *)
PrepareCommand ==
    \E acceptance \in BOOLEAN :
        /\ caller[Cli].step = "idle"
        /\ NewRequest
        /\ caller' = [caller EXCEPT ![Cli] = [Idle EXCEPT !.step = "prepare", !.at = 1,
                                                !.date = clock.day, !.late = clock.late,
                                                !.acceptance = acceptance]]
        /\ UNCHANGED <<clock, file, session, inflight, startup, prepared, artifacts, selectors,
                       runtime, restarts>>

(* After the preparation: the delegated StartShadow leaves the start to the launcher. *)
RunStart(c) ==
    /\ caller[c].step = "prepared"
    /\ Set(c, IF Healthy THEN "WAITING_FOR_READINESS" ELSE "STARTING_SHADOW")
    /\ Goto(c, IF Healthy THEN "readiness" ELSE "starting")
    /\ UNCHANGED <<clock, file, session, inflight, prepared, artifacts, selectors, runtime,
                   requests, restarts>>

RunWait(c) ==
    /\ caller[c].step = "starting"
    /\ Set(c, "WAITING_FOR_READINESS") /\ Goto(c, "readiness")
    /\ UNCHANGED <<clock, file, session, inflight, prepared, artifacts, selectors, runtime,
                   requests, restarts>>

(* Ready polls until the runtime answers ready or the startup timeout passes. *)
(* Mutant of Ready: the poll has no deadline. *)
ReadyNoDeadline(c) ==
    /\ caller[c].step = "readiness"
    /\ Healthy /\ Set(c, "READY") /\ Goto(c, "end")
    /\ UNCHANGED <<clock, file, session, inflight, prepared, artifacts, selectors, runtime,
                   requests, restarts>>

Ready(c) ==
    /\ caller[c].step = "readiness"
    /\ \/ Healthy /\ Set(c, "READY") /\ Goto(c, "end")
       \/ Fail(c)
    /\ UNCHANGED <<clock, file, session, inflight, prepared, artifacts, selectors, runtime,
                   requests, restarts>>

RunEnds(c) ==
    /\ caller[c].step = "end"
    /\ startup' = [startup EXCEPT !.running = FALSE]
    /\ caller' = [caller EXCEPT ![c] = Idle]
    /\ UNCHANGED <<clock, file, session, inflight, prepared, artifacts, selectors, runtime,
                   requests, restarts>>

(***************************************************************************)
(* The environment: the clock, the launcher with the runtime (which is     *)
(* ready only on the day its manifest authorises), and a restart of the    *)
(* control plane, which rebuilds the preparation configuration.            *)
(***************************************************************************)
Tick ==
    /\ clock.day < MaxDay \/ ~clock.late
    /\ clock' = [day |-> IF clock.late THEN clock.day + 1 ELSE clock.day, late |-> ~clock.late]
    /\ UNCHANGED <<file, session, inflight, caller, startup, prepared, artifacts, selectors,
                   runtime, requests, restarts>>

RuntimeChanges ==
    /\ \/ /\ runtime.state = "down" /\ selectors # Missing
          /\ runtime' = [state |-> "starting", date |-> selectors]
       \/ /\ runtime.state = "starting" /\ runtime.date = clock.day
          /\ runtime' = [runtime EXCEPT !.state = "ready"]
       \/ /\ runtime.state # "down"
          /\ runtime' = [state |-> "down", date |-> Missing]
    /\ UNCHANGED <<clock, file, session, inflight, caller, startup, prepared, artifacts, selectors,
                   requests, restarts>>

Stopped == [state |-> "LOGIN_REQUIRED", for |-> Missing, date |-> Missing, running |-> FALSE]

Restart ==
    /\ restarts < MaxRestarts
    /\ restarts' = restarts + 1
    /\ session' = Loaded(file, clock.day)
    /\ inflight' = Nothing
    /\ caller' = [c \in DOMAIN caller |-> IF c = Cli THEN caller[c] ELSE Idle]
    /\ startup' = Stopped
    /\ prepared' = clock
    /\ UNCHANGED <<clock, file, artifacts, selectors, runtime, requests>>

Init ==
    /\ clock \in [day : {0}, late : BOOLEAN]
    /\ file \in {Missing, Corrupt, 0}
    /\ session = Loaded(file, 0)
    /\ inflight = Nothing
    /\ caller = [c \in Callers \cup {Cli} |-> Idle]
    /\ startup = Stopped
    /\ prepared = clock
    /\ artifacts = {}
    /\ selectors = Missing
    /\ runtime = [state |-> "down", date |-> Missing]
    /\ requests = 0 /\ restarts = 0

RunStep(c) ==
    \/ Start(c) \/ Waited(c)
    \/ RunSession(c) \/ RunMarket(c) \/ RunRuntime(c)
    \/ PrepareStep(c) \/ PrepareFails(c)
    \/ RunStart(c) \/ RunWait(c) \/ Ready(c) \/ RunEnds(c)

Next ==
    \/ \E c \in Callers :
         \/ \E token \in Tokens : Exchange(c, token)
         \/ ExchangeReturns(c) \/ JoinCancelled(c)
         \/ Post(c) \/ RunStep(c)
    \/ PrepareCommand \/ PrepareStep(Cli) \/ PrepareFails(Cli)
    \/ Get \/ Tick \/ RuntimeChanges \/ Restart

Spec == Init /\ [][Next]_vars

(***************************************************************************)
(* Properties.                                                             *)
(***************************************************************************)
Running == {c \in Callers : caller[c].step \in {"session", "market", "runtime", "prepare",
                                                "prepared", "starting", "readiness", "end"}}

TypeOK ==
    /\ file \in Days \cup {MaxDay + 1, Missing, Corrupt}
    /\ session.state \in {"LOGIN_REQUIRED", "AUTHENTICATED", "EXPIRED", "ERROR"}
    /\ inflight \in Tokens \cup {Nothing}
    /\ startup.state \in Transient \cup {"LOGIN_REQUIRED", "AUTHENTICATED", "READY",
                                         "MARKET_CLOSED", "FAILED"}
    /\ OperatorView \in {"LOGIN", "MARKET_CLOSED", "FAILED", "RUNTIME", "PREPARING"}
    /\ selectors \in Days \cup {Missing}

(* Exchange and Start are single flight: a token is at the provider at most once at a  *)
(* time, whoever waits waits for a request that is still at work, and running is true  *)
(* for exactly as long as one request runs the startup.                                *)
OneFlight ==
    LET exchanging == {c \in Callers : caller[c].step = "exchange"} IN
    /\ Cardinality(exchanging) <= 1
    /\ (inflight = Nothing) <=> (exchanging = {})
    /\ \A c \in Callers : caller[c].step \in {"exchange", "join"} => caller[c].token = inflight
    /\ Cardinality(Running) = IF startup.running THEN 1 ELSE 0

(* A login that was reported survives a restart: whenever the service says            *)
(* AUTHENTICATED the file holds that session, and a corrupt file is never exchanged    *)
(* over.                                                                               *)
AuthenticatedIsDurable ==
    /\ session.state = "AUTHENTICATED" => file = session.expiry
    /\ session.blocked => file = Corrupt /\ inflight = Nothing

(* The status never keeps a transient state nobody works on, whatever step failed. *)
TransientHasARun ==
    startup.state \in Transient => Running # {}

(* The launcher's selectors name only a complete preparation: the bundle, the Telegram *)
(* check, the preflight and the authorization of the same date exist.                  *)
SelectorsAreComplete ==
    selectors # Missing =>
        \A kind \in Kept : Artifact(kind, selectors)

(* The preparation a start reports is of the trading date it starts: Start recomputes  *)
(* the date, newPreparationConfig keeps the clock of the construction, and a stale one *)
(* is refused before the launcher could use it.                                        *)
PreparedForTradingDate ==
    startup.state = "STARTING_SHADOW" => Artifact("authorization", startup.for)

(* The control plane as a whole (session, startup and preparation). *)
StartupInv ==
    /\ TypeOK /\ OneFlight /\ AuthenticatedIsDurable /\ TransientHasARun
    /\ SelectorsAreComplete /\ PreparedForTradingDate

(* READY is shown for the service's trading date only (Start resets the status of a    *)
(* run that is still under way, which then sets READY for its own date).               *)
ReadyIsForTheDate ==
    startup.state = "READY" /\ ~startup.running => startup.for = startup.date

(* A startup that runs ends: every external call is bounded, Ready by its timeout. *)
StartupEnds == startup.running ~> ~startup.running
=============================================================================
