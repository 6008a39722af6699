--------------------------- MODULE ZerodhaSession ---------------------------
(***************************************************************************)
(* The retail session of adapters/broker/zerodha (SessionManager), and the *)
(* read-only Client and Connectivity built on it.  Callers authenticate    *)
(* and check readiness concurrently; the session's lock is not held while  *)
(* the provider answers, so an expiry, a second login or a shutdown fits   *)
(* between the question and the answer.                                    *)
(***************************************************************************)
EXTENDS Naturals

CONSTANTS Credentials,   \* credential material a session may be built from
          Callers,       \* goroutines that authenticate or check readiness
          ReadRetries,   \* Config.ReadRetries
          MaxTime,       \* bound: the clock
          MaxExchanges   \* bound: exchanges

VARIABLES session,       \* the SessionManager's fields
          now,           \* the clock
          caller,        \* what each caller is doing
          client,        \* Client.stopped and HTTPTransport.stopped
          connectivity,  \* Connectivity.snapshot: [state, reason]
          exchanges,     \* exchanges sent with the one request token
          shutdowns      \* Shutdown calls of the session that have returned

sessionVars == <<session, now, caller, client, connectivity, exchanges, shutdowns>>
-----------------------------------------------------------------------------
SessionStates == {"UNCONFIGURED", "LOGIN_REQUIRED", "TOKEN_EXCHANGE_PENDING",
                  "AUTHENTICATED", "EXPIRED", "AUTH_FAILED", "STOPPED"}
ReadinessStates == {"DISABLED", "LOGIN_REQUIRED", "READY", "DEGRADED", "EXPIRED", "STOPPED"}

(* A restored access token needs an explicit expiry; material without key or
   secret is refused by the source. *)
Loads(c) == c.apiKey /\ c.apiSecret
NewSessionManager(c, time) ==
    [apiKey |-> c.apiKey, requestToken |-> c.requestToken, token |-> c.accessToken,
     expires |-> IF c.accessToken THEN c.expires ELSE 0,
     state |-> CASE ~c.apiKey \/ (~c.apiSecret /\ ~c.accessToken) -> "UNCONFIGURED"
                 [] c.accessToken /\ c.expires > time -> "AUTHENTICATED"
                 [] c.accessToken -> "EXPIRED"
                 [] OTHER -> "LOGIN_REQUIRED"]

(* Authorization: what it answers, and what it leaves of the session. *)
Authorization(s, time) ==
    CASE s.state = "STOPPED" -> "stopped"
      [] s.state = "EXPIRED" -> "expired"
      [] s.state # "AUTHENTICATED" -> "authentication"
      [] s.expires <= time -> "expired"
      [] OTHER -> "granted"
Authorized(s, time) ==
    IF s.state = "AUTHENTICATED" /\ s.expires <= time
    THEN [s EXCEPT !.state = "EXPIRED", !.token = FALSE] ELSE s

(* Snapshot reports an expiry that nothing has recorded yet. *)
SnapshotState(s, time) ==
    IF s.state = "AUTHENTICATED" /\ s.expires <= time THEN "EXPIRED" ELSE s.state

Expire(s) == [s EXCEPT !.token = FALSE, !.state = "EXPIRED"]
Stopped(s) == [s EXCEPT !.token = FALSE, !.apiKey = FALSE, !.requestToken = FALSE,
                        !.state = "STOPPED"]
-----------------------------------------------------------------------------
Idle == [pc |-> "idle", seen |-> "none", answer |-> "none", attempts |-> 0]

SessionInit ==
    /\ now = 0
    /\ \E c \in {m \in Credentials : Loads(m)} : session = NewSessionManager(c, 0)
    /\ caller = [k \in Callers |-> Idle]
    /\ client = "running"
    /\ connectivity = "DISABLED"
    /\ exchanges = 0
    /\ shutdowns = 0

Go(k, pc, seen, answer, attempts) ==
    caller' = [caller EXCEPT ![k] = [pc |-> pc, seen |-> seen, answer |-> answer,
                                     attempts |-> attempts]]

(* Authenticate, up to the unlock before the exchange. *)
Authenticate(k) ==
    /\ caller[k].pc = "idle"
    /\ session.state # "STOPPED"
    /\ ~(session.state = "AUTHENTICATED" /\ session.expires > now)
    /\ \/ /\ ~session.requestToken
          /\ session' = [session EXCEPT !.state = "LOGIN_REQUIRED"]
          /\ UNCHANGED <<caller, exchanges>>
       \/ /\ session.requestToken
          /\ exchanges < MaxExchanges
          /\ session' = [session EXCEPT !.state = "TOKEN_EXCHANGE_PENDING"]
          /\ exchanges' = exchanges + 1
          /\ Go(k, "exchanging", "none", "none", 0)
    /\ UNCHANGED <<now, client, connectivity, shutdowns>>

(* HTTPTokenExchanger.Exchange: the provider honours a request token once, and
   the new session runs to the next expiry. *)
Exchange(k) ==
    /\ caller[k].pc = "exchanging"
    /\ \E ok \in {FALSE} \cup {exchanges = 1} :
         Go(k, "exchanged", "none", IF ok THEN "token" ELSE "failed", 0)
    /\ UNCHANGED <<session, now, client, connectivity, exchanges, shutdowns>>
NextSessionExpiry(time) == time + 1

(* Authenticate, after the exchange, under the lock again. *)
AuthenticateDone(k) ==
    /\ caller[k].pc = "exchanged"
    /\ session' = IF caller[k].answer = "token"
                  THEN [session EXCEPT !.requestToken = FALSE, !.token = TRUE,
                                       !.expires = NextSessionExpiry(now),
                                       !.state = "AUTHENTICATED"]
                  ELSE [session EXCEPT !.requestToken = FALSE, !.state = "AUTH_FAILED"]
    /\ caller' = [caller EXCEPT ![k] = Idle]
    /\ UNCHANGED <<now, client, connectivity, exchanges, shutdowns>>

(* Connectivity.Check: the session's state is read first; only a session that
   seems usable is tried with a profile read. *)
ReadinessOf(state) ==
    CASE state \in {"LOGIN_REQUIRED", "UNCONFIGURED", "AUTH_FAILED"} -> "LOGIN_REQUIRED"
      [] state = "EXPIRED" -> "EXPIRED"
      [] state = "STOPPED" -> "STOPPED"
      [] OTHER -> "TRY"
Check(k) ==
    /\ caller[k].pc = "idle"
    /\ LET state == ReadinessOf(SnapshotState(session, now)) IN
         Go(k, IF state = "TRY" THEN "read" ELSE "publish", state, state, 0)
    /\ UNCHANGED <<session, now, client, connectivity, exchanges, shutdowns>>

(* Client.read: stopped, then the session's authorization, then the transport. *)
ClientRead(k) ==
    /\ caller[k].pc = "read"
    /\ IF client = "running" THEN Go(k, "authorize", "none", "none", 0)
       ELSE Go(k, "publish", "refused", "DEGRADED", 0)
    /\ UNCHANGED <<session, now, client, connectivity, exchanges, shutdowns>>
Authorize(k) ==
    /\ caller[k].pc = "authorize"
    /\ session' = Authorized(session, now)
    /\ IF Authorization(session, now) = "granted" THEN Go(k, "get", "granted", "none", 0)
       ELSE Go(k, "publish", "refused", "DEGRADED", 0)
    /\ UNCHANGED <<now, client, connectivity, exchanges, shutdowns>>

(* HTTPTransport.read: a refusal or a limit ends it, an outage is tried again. *)
TransportRead(k) ==
    /\ caller[k].pc = "get"
    /\ \/ Go(k, "publish", "answered", "READY", 0)
       \/ Go(k, "publish", "answered", "DEGRADED", 0)
       \/ Go(k, "forbidden", "answered", "DEGRADED", 0)
       \/ caller[k].attempts < ReadRetries /\ Go(k, "get", "granted", "none", caller[k].attempts + 1)
    /\ UNCHANGED <<session, now, client, connectivity, exchanges, shutdowns>>

(* A 403 answer expires whatever session there is by now. *)
Forbidden(k) ==
    /\ caller[k].pc = "forbidden"
    /\ session' = Expire(session)
    /\ Go(k, "publish", "answered", "DEGRADED", 0)
    /\ UNCHANGED <<now, client, connectivity, exchanges, shutdowns>>

PublishReadiness(k) ==
    /\ caller[k].pc = "publish"
    /\ connectivity' = caller[k].answer
    /\ caller' = [caller EXCEPT ![k] = Idle]
    /\ UNCHANGED <<session, now, client, exchanges, shutdowns>>

(* Connectivity.Shutdown: the client's flag, its transport and its session, then
   the snapshot. *)
ClientShutdown ==
    /\ client = "running"
    /\ client' = "stopping"
    /\ UNCHANGED <<session, now, caller, connectivity, exchanges, shutdowns>>
SessionShutdown ==
    /\ client = "stopping"
    /\ client' = "stopped"
    /\ session' = Stopped(session)
    /\ shutdowns' = shutdowns + 1
    /\ UNCHANGED <<now, caller, connectivity, exchanges>>
ConnectivityShutdown ==
    /\ client = "stopped"
    /\ connectivity # "STOPPED"
    /\ connectivity' = "STOPPED"
    /\ UNCHANGED <<session, now, caller, client, exchanges, shutdowns>>

Tick ==
    /\ now < MaxTime
    /\ now' = now + 1
    /\ UNCHANGED <<session, caller, client, connectivity, exchanges, shutdowns>>

SessionNext ==
    \/ \E k \in Callers : \/ Authenticate(k) \/ Exchange(k) \/ AuthenticateDone(k) \/ Check(k)
                          \/ ClientRead(k) \/ Authorize(k) \/ TransportRead(k) \/ Forbidden(k)
                          \/ PublishReadiness(k)
    \/ ClientShutdown
    \/ SessionShutdown
    \/ ConnectivityShutdown
    \/ Tick

SessionSpec == SessionInit /\ [][SessionNext]_sessionVars
-----------------------------------------------------------------------------
(* A session that may be used has a token, whichever of a login, an expiry seen
   by a reader, a 403 answer or a shutdown wrote the session last; a pending
   exchange is some caller's; and once the request token is used or wiped the
   session is never LOGIN pending again without a caller (session.go). *)
SessionInv ==
    /\ session.state \in SessionStates /\ connectivity \in ReadinessStates
    /\ session.state = "AUTHENTICATED" => session.token
    /\ session.state = "TOKEN_EXCHANGE_PENDING" =>
         \E k \in Callers : caller[k].pc \in {"exchanging", "exchanged"}
    /\ exchanges > 0 /\ session.requestToken =>
         \E k \in Callers : caller[k].pc \in {"exchanging", "exchanged"}
    /\ \A k \in Callers : caller[k].pc = "get" => caller[k].attempts <= ReadRetries

(* After the session's Shutdown it holds no credentials. *)
ShutdownClearsCredentials == shutdowns > 0 => ~session.token /\ ~session.apiKey
=============================================================================
