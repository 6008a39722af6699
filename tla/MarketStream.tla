---------------------------- MODULE MarketStream ----------------------------
(***************************************************************************)
(* The market-data websocket of adapters/broker/zerodha (MarketStream):    *)
(* the Stream loop with its bounded reconnects, the reader goroutine and   *)
(* its bounded frame buffer, subscription updates queued for the live      *)
(* connection, and Shutdown.  The consumer's select takes any ready case.  *)
(* The session is the one of ZerodhaSession; here it may expire or be lost *)
(* to another user at any moment.                                          *)
(***************************************************************************)
EXTENDS Naturals, Sequences, FiniteSets

CONSTANTS Credentials, Callers, ReadRetries, MaxTime, MaxExchanges,  \* of ZerodhaSession
          Tokens,           \* instrument tokens
          Universes,        \* sets of tokens asked for
          Frames,           \* kinds of frames the provider sends, among FrameKinds
          OrderTextPolicy,  \* "FAIL_CLOSED" or "OBSERVE_ONLY"
          MaxSubscriptions, \* Config.MaxSubscriptions
          MaxReconnects,    \* Config.MaxReconnects
          BufferCapacity,   \* Config.BufferCapacity
          MaxStreams,       \* bound: calls of Stream
          MaxFrames         \* bound: frames sent

VARIABLES session, now, caller, client, connectivity, exchanges, shutdowns,
          stream,        \* running, closed, cancelled, snapshot state and counters
          loop,          \* the Stream call: [pc, attempt, tokens]
          desired,       \* desiredTokens
          expected,      \* what the live connection is subscribed to
          updates,       \* the queue of one subscription update
          lastResubscribe,
          frames,        \* the buffer between reader and consumer
          reader,        \* "off", "reading", or the error it sent
          sent,          \* frames the provider has sent
          inherited      \* the queued update was accepted by an earlier Stream call

S == INSTANCE ZerodhaSession
streamVars == <<session, now, caller, client, connectivity, exchanges, shutdowns,
                stream, loop, desired, expected, updates, lastResubscribe, frames, reader, sent,
                inherited>>
sessionOnly == <<session, now, caller, client, connectivity, exchanges, shutdowns>>
readerVars == <<frames, reader, sent>>
subscriptionVars == <<desired, expected, updates, lastResubscribe, inherited>>
-----------------------------------------------------------------------------
(* normalizeTokens: no empty universe, none larger than the limit. *)
NormalizesTokens(u) == u # {} /\ u \subseteq Tokens /\ Cardinality(u) <= MaxSubscriptions

(* What a frame does to the consumer.  A binary frame decodes completely or not
   at all; a one-byte binary frame, a ping and the harmless text messages are
   skipped, as is an observation without exchange time. *)
FrameKinds == {"quote", "mixed", "untimed", "heartbeat", "ping", "message", "metadata", "appcode",
               "order", "error", "malformedText", "unknownText", "malformedFrame", "close"}
HandleText(kind) ==
    CASE kind \in {"message", "metadata", "appcode"} -> "skip"
      [] kind = "order" -> IF OrderTextPolicy = "OBSERVE_ONLY" THEN "skip" ELSE "fail"
      [] OTHER -> "fail"
FrameEffect(kind) ==
    CASE kind \in {"quote", "mixed", "untimed"} -> "deliver"
      [] kind \in {"heartbeat", "ping"} -> "skip"
      [] kind \in {"malformedFrame", "close"} -> "fail"
      [] OTHER -> HandleText(kind)
(* The packets of a frame that carry an exchange time. *)
DecodeMarketFrame(kind) == CASE kind = "quote" -> 1 [] kind = "mixed" -> 2 [] OTHER -> 0

StreamInit ==
    /\ S!SessionInit
    /\ stream = [calls |-> 0, running |-> FALSE, closed |-> FALSE, cancelled |-> FALSE,
                 state |-> "STOPPED", position |-> 0, observations |-> 0]
    /\ loop = [pc |-> "stopped", attempt |-> 0, tokens |-> {}]
    /\ desired = {} /\ expected = {} /\ updates = <<>> /\ lastResubscribe = 0
    /\ frames = <<>> /\ reader = "off" /\ sent = 0
    /\ inherited = FALSE

SetState(state) == stream' = [stream EXCEPT !.state = state]
Goto(pc) == loop' = [loop EXCEPT !.pc = pc]
-----------------------------------------------------------------------------
(* Another goroutine replaces the universe: rate limited, and refused when an
   update still waits. *)
UpdateSubscriptions(universe) ==
    /\ NormalizesTokens(universe)
    /\ stream.running /\ ~stream.closed
    /\ lastResubscribe = 0 \/ now >= lastResubscribe
    /\ updates = <<>>
    /\ updates' = <<universe>> /\ desired' = universe
    /\ lastResubscribe' = now + 1
    /\ inherited' = FALSE
    /\ UNCHANGED <<sessionOnly, stream, loop, expected, readerVars>>

Stream(universe) ==
    /\ stream.calls < MaxStreams
    /\ NormalizesTokens(universe)
    /\ ~stream.running /\ ~stream.closed
    /\ stream' = [stream EXCEPT !.calls = @ + 1, !.running = TRUE, !.cancelled = FALSE]
    /\ desired' = universe
    /\ inherited' = (updates # <<>>)
    /\ loop' = [pc |-> "attempt", attempt |-> 0, tokens |-> {}]
    /\ UNCHANGED <<sessionOnly, expected, updates, lastResubscribe, readerVars>>

(* One attempt reads the universe first, then asks the session for its address. *)
(* Mutant of ReadDesired: the universe is read before the first attempt only. *)
ReadDesiredOnce ==
    /\ loop.pc = "attempt"
    /\ loop' = [loop EXCEPT !.pc = "endpoint", !.tokens = IF loop.attempt = 0 THEN desired ELSE @]
    /\ UNCHANGED <<sessionOnly, stream, subscriptionVars, readerVars>>
ReadDesired ==
    /\ loop.pc = "attempt"
    /\ loop' = [loop EXCEPT !.pc = "endpoint", !.tokens = desired]
    /\ UNCHANGED <<sessionOnly, stream, subscriptionVars, readerVars>>

HasEndpoint == session.state = "AUTHENTICATED" /\ session.expires > now
               /\ session.apiKey /\ session.token
Endpoint ==
    /\ loop.pc = "endpoint"
    /\ IF HasEndpoint
       THEN /\ SetState(IF loop.attempt > 0 THEN "RECONNECTING" ELSE "CONNECTING")
            /\ Goto("dial")
       ELSE SetState("EXPIRED") /\ Goto("return")
    /\ UNCHANGED <<sessionOnly, subscriptionVars, readerVars>>

(* Dial and the two subscription writes; a cancelled context dials nothing. *)
Connected ==
    /\ loop.pc = "dial" /\ ~stream.cancelled
    /\ SetState("CONNECTED") /\ Goto("consume")
    /\ expected' = loop.tokens
    /\ frames' = <<>> /\ reader' = "reading"
    /\ UNCHANGED <<sessionOnly, desired, updates, lastResubscribe, inherited, sent>>
DialFails ==
    /\ loop.pc = "dial"
    /\ Goto("failed")
    /\ UNCHANGED <<sessionOnly, stream, subscriptionVars, readerVars>>
DialExpired ==
    /\ loop.pc = "dial"
    /\ session' = S!Expire(session)
    /\ SetState("EXPIRED") /\ Goto("return")
    /\ UNCHANGED <<now, caller, client, connectivity, exchanges, shutdowns,
                   subscriptionVars, readerVars>>

(* The reader goroutine: a frame enters the buffer unless it is full; a read
   error, a silent connection and the end of its context stop it. *)
ReadFrame(kind) ==
    /\ reader = "reading" /\ sent < MaxFrames
    /\ sent' = sent + 1
    /\ IF Len(frames) < BufferCapacity
       THEN frames' = Append(frames, kind) /\ UNCHANGED reader
       ELSE reader' = "overflow" /\ UNCHANGED frames
    /\ UNCHANGED <<sessionOnly, stream, loop, subscriptionVars>>
ReadFails ==
    /\ reader = "reading"
    /\ reader' = "broken"
    /\ UNCHANGED <<sessionOnly, stream, loop, subscriptionVars, frames, sent>>

Disconnect == expected' = {} /\ frames' = <<>> /\ reader' = "off" /\ Goto("failed")

(* consume's select. *)
TakeError ==
    /\ loop.pc = "consume" /\ reader \in {"overflow", "broken"}
    /\ Disconnect
    /\ UNCHANGED <<sessionOnly, stream, desired, updates, lastResubscribe, inherited, sent>>
TakeCancel ==
    /\ loop.pc = "consume" /\ stream.cancelled
    /\ Disconnect
    /\ UNCHANGED <<sessionOnly, stream, desired, updates, lastResubscribe, inherited, sent>>
TakeUpdate ==
    /\ loop.pc = "consume" /\ updates # <<>>
    /\ updates' = <<>>
    /\ \/ expected' = updates[1] /\ UNCHANGED <<loop, frames, reader>>
       \/ Disconnect
    /\ UNCHANGED <<sessionOnly, stream, desired, lastResubscribe, inherited, sent>>
TakeFrame ==
    /\ loop.pc = "consume" /\ frames # <<>>
    /\ LET effect == FrameEffect(Head(frames))
           timed == DecodeMarketFrame(Head(frames)) IN
         \E taken \in 0..timed :
           /\ stream' = [stream EXCEPT !.position = @ + (IF taken < timed THEN taken + 1 ELSE taken),
                                       !.observations = @ + taken]
           /\ IF effect = "fail" \/ taken < timed THEN Disconnect
              ELSE frames' = Tail(frames) /\ UNCHANGED <<loop, reader, expected>>
    /\ UNCHANGED <<sessionOnly, desired, updates, lastResubscribe, inherited, sent>>

(* After an attempt: the context, the reconnect budget, the back-off. *)
AfterAttempt ==
    /\ loop.pc = "failed"
    /\ CASE stream.cancelled -> Goto("return") /\ UNCHANGED stream
         [] ~stream.cancelled /\ loop.attempt = MaxReconnects ->
              SetState("RECONNECT_EXHAUSTED") /\ Goto("return")
         [] OTHER -> Goto("sleep") /\ UNCHANGED stream
    /\ UNCHANGED <<sessionOnly, subscriptionVars, readerVars>>
Sleep ==
    /\ loop.pc = "sleep"
    /\ loop' = IF stream.cancelled THEN [loop EXCEPT !.pc = "return"]
               ELSE [loop EXCEPT !.pc = "attempt", !.attempt = @ + 1]
    /\ UNCHANGED <<sessionOnly, stream, subscriptionVars, readerVars>>
(* Mutant of Return: the deferred clean-up leaves running set. *)
ReturnStillRunning ==
    /\ loop.pc = "return"
    /\ stream' = [stream EXCEPT !.state = "STOPPED", !.cancelled = TRUE]
    /\ Goto("stopped")
    /\ UNCHANGED <<sessionOnly, subscriptionVars, readerVars>>
(* The deferred clean-up; it also forgets EXPIRED and RECONNECT_EXHAUSTED. *)
Return ==
    /\ loop.pc = "return"
    /\ stream' = [stream EXCEPT !.running = FALSE, !.state = "STOPPED", !.cancelled = TRUE]
    /\ Goto("stopped")
    /\ UNCHANGED <<sessionOnly, subscriptionVars, readerVars>>

Shutdown ==
    /\ ~stream.closed
    /\ stream' = [stream EXCEPT !.closed = TRUE, !.state = "STOPPED",
                                !.cancelled = @ \/ stream.running]
    /\ UNCHANGED <<sessionOnly, loop, subscriptionVars, readerVars>>
CallerCancels ==
    /\ stream.running /\ ~stream.cancelled
    /\ stream' = [stream EXCEPT !.cancelled = TRUE]
    /\ UNCHANGED <<sessionOnly, loop, subscriptionVars, readerVars>>

SessionMoves ==
    /\ \/ S!Tick
       \/ /\ session.state = "AUTHENTICATED" /\ session' = S!Expire(session)
          /\ UNCHANGED <<now, caller, client, connectivity, exchanges, shutdowns>>
    /\ UNCHANGED <<stream, loop, subscriptionVars, readerVars>>

LoopStep ==
    \/ ReadDesired \/ Endpoint \/ Connected \/ DialFails \/ DialExpired
    \/ TakeError \/ TakeCancel \/ TakeUpdate \/ TakeFrame
    \/ AfterAttempt \/ Sleep \/ Return
StreamNext ==
    \/ \E u \in Universes : UpdateSubscriptions(u) \/ Stream(u)
    \/ LoopStep
    \/ \E kind \in Frames : ReadFrame(kind)
    \/ ReadFails
    \/ Shutdown
    \/ CallerCancels
    \/ SessionMoves

(* Goroutines run; a select whose cancelled context stays ready takes it in the end
   (Go chooses among the ready cases at random); a read ends within LivenessTimeout. *)
StreamFairness == WF_streamVars(LoopStep) /\ WF_streamVars(TakeCancel) /\ WF_streamVars(ReadFails)
StreamSpec == StreamInit /\ [][StreamNext]_streamVars /\ StreamFairness
-----------------------------------------------------------------------------
(* Of one Stream call and its connection: when no update waits, the live
   subscription is the universe last asked for, reconnections included, unless the
   update taken was left over from an earlier Stream call; at most
   MaxReconnects + 1 attempts are made; the buffer holds at most BufferCapacity
   frames; positions come from frames the provider sent, and count as observations only
   when the sink took them; a closed stream that has returned reads
   STOPPED (market_stream.go:274-545). *)
MarketStreamInv ==
    /\ stream.state \in {"STOPPED", "CONNECTING", "CONNECTED", "RECONNECTING", "EXPIRED",
                         "RECONNECT_EXHAUSTED"}
    /\ loop.pc = "consume" /\ updates = <<>> /\ ~inherited => expected = desired
    /\ loop.attempt <= MaxReconnects
    /\ Len(frames) <= BufferCapacity
    /\ stream.observations <= stream.position /\ stream.position <= 2 * sent
    /\ stream.closed /\ ~stream.running => stream.state = "STOPPED"

(* UpdateSubscriptions says the update goes to the connection that was active. *)
SubscriptionsFollowDesired == loop.pc = "consume" /\ updates = <<>> => expected = desired
=============================================================================
