-------------------------- MODULE StreamSupervisor --------------------------
(***************************************************************************)
(* The order stream's supervisor (adapters/broker/zerodha StreamSupervisor)*)
(* and the non-mutating integration runtime above it (integration/zerodha  *)
(* Runtime): Run with its reconnects, the runtime's Health, which asks its *)
(* parts one after the other, and Shutdown, which stops them one after the *)
(* other.                                                                  *)
(***************************************************************************)
EXTENDS Naturals

CONSTANTS Credentials, Callers, ReadRetries, MaxTime, MaxExchanges,  \* of ZerodhaSession
          MaxReconnects,     \* StreamConfig.MaxReconnects
          Modes,             \* integration modes, among OFFLINE, PAPER, SHADOW, LIVE_DISABLED
          MaxMessages,       \* bound: envelopes received
          MaxRuns            \* bound: calls of Run

VARIABLES session, now, caller, client, connectivity, exchanges, shutdowns,
          supervisor,   \* running, closed, cancelled, snapshot state, attempts, messages
          run,          \* where Run is: [pc, attempt]
          runtime,      \* integration runtime: mode, stopped, how far Shutdown got
          health,       \* the Health call in progress and its last answer; late: it began
                        \* after Shutdown had
          parts         \* the paper broker, the reconciliation and the unknown orders

S == INSTANCE ZerodhaSession
sessionOnly == <<session, now, caller, client, connectivity, exchanges, shutdowns>>
supervisorVars == <<session, now, caller, client, connectivity, exchanges, shutdowns,
                    supervisor, run, runtime, health, parts>>

SupervisorInit ==
    /\ S!SessionInit
    /\ supervisor = [runs |-> 0, running |-> FALSE, closed |-> FALSE, cancelled |-> FALSE,
                     state |-> "STOPPED", messages |-> 0]
    /\ run = [pc |-> "stopped", attempt |-> 0]
    /\ runtime \in {[mode |-> m, stopped |-> FALSE, pc |-> "running"] : m \in Modes}
    /\ health = [pc |-> "idle", state |-> "DISABLED", blocked |-> FALSE, late |-> FALSE]
    /\ parts = [paper |-> TRUE, reconciled |-> TRUE, unknown |-> FALSE]

SetState(state) == supervisor' = [supervisor EXCEPT !.state = state]
Goto(pc) == run' = [run EXCEPT !.pc = pc]
above == <<runtime, health, parts>>

Run ==
    /\ supervisor.runs < MaxRuns
    /\ ~supervisor.closed /\ ~supervisor.running
    /\ supervisor' = [supervisor EXCEPT !.runs = @ + 1, !.running = TRUE, !.cancelled = FALSE]
    /\ run' = [pc |-> "authorize", attempt |-> 0]
    /\ UNCHANGED <<sessionOnly, above>>
RunAuthorize ==
    /\ run.pc = "authorize"
    /\ session' = S!Authorized(session, now)
    /\ IF S!Authorization(session, now) = "granted"
       THEN SetState(IF run.attempt > 0 THEN "RECONNECTING" ELSE "CONNECTING") /\ Goto("connect")
       ELSE SetState("EXPIRED") /\ Goto("return")
    /\ UNCHANGED <<now, caller, client, connectivity, exchanges, shutdowns, above>>
RunConnect ==
    /\ run.pc = "connect"
    /\ \/ ~supervisor.cancelled /\ SetState("CONNECTED") /\ Goto("consume")
       \/ Goto("failed") /\ UNCHANGED supervisor
    /\ UNCHANGED <<sessionOnly, above>>
(* consume: an envelope with a quote or an order goes to the sink; an empty one, a
   failing sink and a failing connection end the connection. *)
Receive ==
    /\ run.pc = "consume" /\ supervisor.messages < MaxMessages
    /\ \/ supervisor' = [supervisor EXCEPT !.messages = @ + 1] /\ UNCHANGED run
       \/ Goto("failed") /\ UNCHANGED supervisor
    /\ UNCHANGED <<sessionOnly, above>>
ConnectionLost ==
    /\ run.pc = "consume"
    /\ \E pc \in {"failed", "expired"} : Goto(pc)
    /\ UNCHANGED <<sessionOnly, supervisor, above>>
AfterFailure ==
    /\ run.pc = "failed"
    /\ CASE supervisor.cancelled -> SetState("STOPPED") /\ Goto("return")
         [] ~supervisor.cancelled /\ run.attempt = MaxReconnects ->
              SetState("RECONNECT_EXHAUSTED") /\ Goto("return")
         [] OTHER -> Goto("sleep") /\ UNCHANGED supervisor
    /\ UNCHANGED <<sessionOnly, above>>
(* The context is looked at before the session is expired, not while it is. *)
AfterExpiry ==
    /\ run.pc = "expired"
    /\ IF supervisor.cancelled THEN SetState("STOPPED") /\ Goto("return")
       ELSE Goto("expire") /\ UNCHANGED supervisor
    /\ UNCHANGED <<sessionOnly, above>>
ExpireSession ==
    /\ run.pc = "expire"
    /\ session' = S!Expire(session) /\ SetState("EXPIRED") /\ Goto("return")
    /\ UNCHANGED <<now, caller, client, connectivity, exchanges, shutdowns, above>>
RunSleep ==
    /\ run.pc = "sleep"
    /\ IF supervisor.cancelled THEN SetState("STOPPED") /\ Goto("return")
       ELSE run' = [pc |-> "authorize", attempt |-> run.attempt + 1] /\ UNCHANGED supervisor
    /\ UNCHANGED <<sessionOnly, above>>
(* The deferred clean-up keeps the state, unlike the market stream's. *)
RunReturn ==
    /\ run.pc = "return"
    /\ supervisor' = [supervisor EXCEPT !.running = FALSE]
    /\ Goto("stopped")
    /\ UNCHANGED <<sessionOnly, above>>
SupervisorShutdown(s) ==
    [s EXCEPT !.closed = TRUE, !.state = "STOPPED", !.cancelled = @ \/ s.running]

RunStep == RunAuthorize \/ RunConnect \/ Receive \/ ConnectionLost \/ AfterFailure \/ AfterExpiry
           \/ ExpireSession \/ RunSleep \/ RunReturn
-----------------------------------------------------------------------------
(* Health reads the stopped flag, then checks connectivity, then asks the stream and
   the other parts. *)
HealthStart ==
    /\ health.pc = "idle"
    /\ LET call == [health EXCEPT !.late = runtime.stopped]
           answer == CASE runtime.stopped -> "STOPPED"
                       [] ~runtime.stopped /\ runtime.mode = "OFFLINE" -> "DISABLED"
                       [] ~runtime.stopped /\ runtime.mode = "LIVE_DISABLED" -> "BLOCKED"
                       [] OTHER -> "checked"
       IN health' = IF answer = "checked" THEN [call EXCEPT !.pc = "check", !.blocked = FALSE]
                    ELSE [call EXCEPT !.state = answer]
    /\ UNCHANGED <<sessionOnly, supervisor, run, runtime, parts>>
HealthCheck ==
    /\ health.pc = "check"
    /\ LET ready == /\ client = "running"
                    /\ S!ReadinessOf(S!SnapshotState(session, now)) = "TRY"
                    /\ S!Authorization(session, now) = "granted" IN
         \E blocked \in {TRUE} \cup {~ready} :
           health' = [health EXCEPT !.pc = "stream", !.blocked = blocked]
    /\ session' = S!Authorized(session, now)
    /\ UNCHANGED <<now, caller, client, connectivity, exchanges, shutdowns,
                   supervisor, run, runtime, parts>>
PartsReady == parts.paper /\ parts.reconciled /\ ~parts.unknown
HealthAnswer ==
    /\ health.pc = "stream"
    /\ health' = [health EXCEPT !.pc = "idle",
                    !.state = IF health.blocked \/ supervisor.state # "CONNECTED" \/ ~PartsReady
                              THEN "BLOCKED" ELSE "READY"]
    /\ UNCHANGED <<sessionOnly, supervisor, run, runtime, parts>>

(* Runtime.Shutdown: the flag, the stream, then connectivity with its client. *)
RuntimeStop ==
    /\ ~runtime.stopped
    /\ runtime' = [runtime EXCEPT !.stopped = TRUE, !.pc = "stream"]
    /\ UNCHANGED <<sessionOnly, supervisor, run, health, parts>>
RuntimeStopStream ==
    /\ runtime.pc = "stream"
    /\ runtime' = [runtime EXCEPT !.pc = "connectivity"]
    /\ supervisor' = SupervisorShutdown(supervisor)
    /\ UNCHANGED <<sessionOnly, run, health, parts>>
RuntimeStopConnectivity ==
    /\ runtime.pc = "connectivity"
    /\ \/ S!ClientShutdown /\ UNCHANGED runtime
       \/ S!SessionShutdown /\ UNCHANGED runtime
       \/ S!ConnectivityShutdown /\ runtime' = [runtime EXCEPT !.pc = "stopped"]
    /\ UNCHANGED <<supervisor, run, health, parts>>

Environment ==
    /\ \/ \E p \in DOMAIN parts : parts' = [parts EXCEPT ![p] = ~@] /\ UNCHANGED sessionOnly
       \/ S!Tick /\ UNCHANGED parts
    /\ runtime.pc = "running"
    /\ UNCHANGED <<supervisor, run, runtime, health>>

SupervisorNext ==
    \/ Run \/ RunStep
    \/ HealthStart \/ HealthCheck \/ HealthAnswer
    \/ RuntimeStop \/ RuntimeStopStream \/ RuntimeStopConnectivity
    \/ Environment

(* Goroutines run; Connect, Receive and the timer honour the cancelled context. *)
SupervisorFairness ==
    /\ WF_supervisorVars(RunStep) /\ WF_supervisorVars(ConnectionLost)
    /\ WF_supervisorVars(RuntimeStopStream) /\ WF_supervisorVars(RuntimeStopConnectivity)
SupervisorSpec == SupervisorInit /\ [][SupervisorNext]_supervisorVars /\ SupervisorFairness
-----------------------------------------------------------------------------
(* A Health call that begins after Shutdown did answers STOPPED, whatever the stream, the
   connectivity and the other parts are still doing, and none that began before it does;
   READY is never the answer of a mode without a stream.  A supervisor that is not running
   is not left CONNECTED or on its way there; attempts stay within the budget (runtime.go,
   stream.go). *)
SupervisorInv ==
    /\ health.pc = "idle" => (health.late <=> health.state = "STOPPED")
    /\ health.state = "READY" => runtime.mode \in {"PAPER", "SHADOW"}
    /\ run.attempt <= MaxReconnects
    /\ supervisor.running = (run.pc # "stopped")
    /\ ~supervisor.running => supervisor.state \notin {"CONNECTING", "CONNECTED", "RECONNECTING"}
=============================================================================
