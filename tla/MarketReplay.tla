----------------------------- MODULE MarketReplay -----------------------------
(* Replay of a dataset at a rate of wall time, with pause, resume and           *)
(* cancellation: replay.Engine in one goroutine, replay.Controller called from  *)
(* others, the clock moving between any two of their steps.                     *)
EXTENDS Integers, Sequences

CONSTANTS
    Offsets,      \* wall-time offsets of the events after the first, in order
    Rates,        \* subset of {"max", "timed"}
    MaxTime,      \* bound: the clock
    MaxPauses,    \* bound: calls of Pause
    MaxReplays    \* bound: calls of Replay on one engine

VARIABLES
    clock,
    rate,         \* of the request
    controller,   \* [state, pauseStart, totalPaused]
    engine,       \* [pc, next, start, target, running, terminal]
    cancelled,    \* the context
    pauses, replays,
    stood,        \* history: instants that passed while paused
    delivered     \* [event, at, stood, start]: what reached the sink

vars == <<clock, rate, controller, engine, cancelled, pauses, replays, stood, delivered>>

(* Controller.TotalPaused counts a pause that still lasts. *)
TotalPaused ==
    controller.totalPaused
        + IF controller.state = "PAUSED" THEN clock - controller.pauseStart ELSE 0

Pause ==
    /\ controller.state = "RUNNING" /\ pauses < MaxPauses
    /\ pauses' = pauses + 1
    /\ controller' = [controller EXCEPT !.state = "PAUSED", !.pauseStart = clock]
    /\ UNCHANGED <<clock, rate, engine, cancelled, replays, stood, delivered>>

Resume ==
    /\ controller.state = "PAUSED"
    /\ controller' = [state |-> "RUNNING", pauseStart |-> 0,
                      totalPaused |-> controller.totalPaused + clock - controller.pauseStart]
    /\ UNCHANGED <<clock, rate, engine, cancelled, pauses, replays, stood, delivered>>

Cancel ==
    /\ ~cancelled /\ engine.running
    /\ cancelled' = TRUE
    /\ UNCHANGED <<clock, rate, controller, engine, pauses, replays, stood, delivered>>

Tick ==
    /\ clock < MaxTime
    /\ clock' = clock + 1
    /\ stood' = IF controller.state = "PAUSED" THEN stood + 1 ELSE stood
    /\ UNCHANGED <<rate, controller, engine, cancelled, pauses, replays, delivered>>

(* Engine.Replay: the controller is used once, so that a second replay on the   *)
(* engine fails and leaves FAILED in its metrics.                               *)
Replay ==
    /\ engine.pc = "idle" /\ replays < MaxReplays
    /\ replays' = replays + 1
    /\ IF controller.state = "READY"
       THEN /\ controller' = [controller EXCEPT !.state = "RUNNING"]
            /\ engine' = [engine EXCEPT !.pc = "next", !.running = TRUE, !.start = clock]
       ELSE /\ engine' = [engine EXCEPT !.terminal = "FAILED"]
            /\ UNCHANGED controller
    /\ UNCHANGED <<clock, rate, cancelled, pauses, stood, delivered>>

(* The deferred finish overwrites whatever state the controller is in. *)
Finish(state) ==
    /\ controller' = [controller EXCEPT !.state = state]
    /\ engine' = [engine EXCEPT !.pc = "idle", !.running = FALSE, !.terminal = state]
    /\ UNCHANGED <<clock, rate, cancelled, pauses, replays, stood, delivered>>

(* reader.Scan: the next event, or the end. *)
NextEvent ==
    /\ engine.pc = "next"
    /\ \/ cancelled /\ Finish("CANCELLED")
       \/ ~cancelled /\ engine.next > Len(Offsets) /\ Finish("COMPLETED")
       \/ /\ ~cancelled /\ engine.next <= Len(Offsets)
          /\ engine' = [engine EXCEPT
                !.pc    = IF rate = "timed" THEN "running" ELSE "ready",
                !.start = IF engine.next = 1 THEN clock ELSE @]
          /\ UNCHANGED <<clock, rate, controller, cancelled, pauses, replays, stood, delivered>>

Moved(pc) ==
    /\ engine' = [engine EXCEPT !.pc = pc]
    /\ UNCHANGED <<clock, rate, controller, cancelled, pauses, replays, stood, delivered>>

(* Controller.waitRunning before the target is computed, and before the sink.   *)
WaitRunning(at, after) ==
    /\ engine.pc = at
    /\ \/ controller.state # "PAUSED" /\ Moved(after)
       \/ controller.state = "PAUSED" /\ cancelled /\ Finish("CANCELLED")

WaitBeforeTarget == WaitRunning("running", "target")
WaitBeforeSink   == WaitRunning("ready", "sink")

(* scaleDuration and TotalPaused give the target; the loop is left when it is   *)
(* past, and otherwise waits for it and starts over, since a pause may have     *)
(* moved it.                                                                    *)
ComputeTarget ==
    LET target == engine.start + Offsets[engine.next] + TotalPaused
    IN  /\ engine.pc = "target"
        /\ engine' = [engine EXCEPT !.target = target,
                                    !.pc = IF clock >= target THEN "ready" ELSE "wait"]
        /\ UNCHANGED <<clock, rate, controller, cancelled, pauses, replays, stood, delivered>>

WaitUntil ==
    /\ engine.pc = "wait"
    /\ \/ clock >= engine.target /\ Moved("running")
       \/ cancelled /\ Finish("CANCELLED")

(* The sink takes the event or fails the replay. *)
Deliver ==
    /\ engine.pc = "sink"
    /\ \/ /\ delivered' = Append(delivered,
                [event |-> engine.next, at |-> clock, stood |-> stood,
                 start |-> engine.start])
          /\ engine' = [engine EXCEPT !.pc = "next", !.next = @ + 1]
          /\ UNCHANGED <<clock, rate, controller, cancelled, pauses, replays, stood>>
       \/ Finish("FAILED")

-----------------------------------------------------------------------------
ReplayInit ==
    /\ clock = 0 /\ rate \in Rates /\ cancelled = FALSE /\ pauses = 0 /\ replays = 0
    /\ controller = [state |-> "READY", pauseStart |-> 0, totalPaused |-> 0]
    /\ engine = [pc |-> "idle", next |-> 1, start |-> 0, target |-> 0, running |-> FALSE,
                 terminal |-> ""]
    /\ delivered = <<>> /\ stood = 0

EngineStep ==
    NextEvent \/ WaitBeforeTarget \/ ComputeTarget \/ WaitUntil \/ WaitBeforeSink \/ Deliver

ReplayNext == Pause \/ Resume \/ Cancel \/ Tick \/ Replay \/ EngineStep

(* The engine's goroutine is scheduled; nobody need pause, resume or cancel.    *)
ReplayFairness == WF_vars(EngineStep) /\ WF_vars(Tick)

ReplaySpec == ReplayInit /\ [][ReplayNext]_vars /\ ReplayFairness

-----------------------------------------------------------------------------
(* The events reach the sink once each and in order, and at a timed rate none   *)
(* before its offset plus the time spent paused, wherever the pauses fall       *)
(* between the engine's reads of the controller (engine.go:117).                *)
ReplayInv ==
    /\ \A i \in DOMAIN delivered :
        /\ delivered[i].event = i
        /\ rate = "timed" =>
            delivered[i].at >= delivered[i].start + Offsets[i] + delivered[i].stood
    /\ engine.running <=> controller.state \in {"RUNNING", "PAUSED"}
    /\ controller.state = "COMPLETED" => Len(delivered) = Len(Offsets)

=============================================================================
