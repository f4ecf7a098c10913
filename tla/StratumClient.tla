---------------------------- MODULE StratumClient ----------------------------
(* One pool connection: Client (src/base/net/stratum/Client.cpp), an object   *)
(* that outlives its sockets and is called back by the event loop: by the     *)
(* resolver, by connect, read and close of a socket, by the timer, and by its *)
(* strategy, which connects it, disconnects it, submits shares and deletes    *)
(* it.  `c` holds its members and the sockets; every method that changes them *)
(* is an operator from c to c.                                                *)
(*                                                                            *)
(* Of time only its order is kept: a deadline that is set may pass at any     *)
(* tick.  Connect assumes of the strategy what PoolClient says: it connects   *)
(* the client only while that has no socket.  Pools checks it of the          *)
(* strategies, and names the one case in which FailoverStrategy does not.     *)

EXTENDS Integers, FiniteSets

CONSTANTS Sockets,       \* uv_tcp_t objects
          NoSocket,      \* nullptr
          KeepAlive,     \* the pool's keepalive option or its extension
          MaxRedirects   \* bound: client.reconnect notifications

(* With a second one a socket that still connects may be forgotten, which no  *)
(* longer can be told apart from the current one.                             *)
ASSUME SocketAssumption ==
    /\ NoSocket \notin Sockets
    /\ MaxRedirects \in {0, 1}
    /\ IsFiniteSet(Sockets) /\ Cardinality(Sockets) > MaxRedirects
    /\ KeepAlive \in BOOLEAN

VARIABLES
    c,           \* the client: see TypeOK
    redirects    \* client.reconnect notifications so far

vars == <<c, redirects>>

(* A socket connects, is read, closes, or is open and nobody reads it.        *)
TypeOK ==
    /\ DOMAIN c = {"state", "failures", "expire", "keepAlive", "listener", "gone",
                   "rpcId", "dns", "socket", "sock", "asked", "told"}
    /\ c.state \in {"Unconnected", "HostLookup", "Connecting", "Connected",
                    "Closing", "Reconnecting"}
    /\ c.failures \in {-1, 0, 1}      \* 1: more than none
    /\ c.expire \in BOOLEAN           \* m_expire is set
    /\ c.keepAlive \in BOOLEAN        \* m_keepAlive is set
    /\ c.listener \in BOOLEAN         \* m_listener is not null
    /\ c.gone \in BOOLEAN             \* the client is deleted
    /\ c.rpcId \in BOOLEAN            \* m_rpcId is not null
    /\ c.dns \in BOOLEAN              \* m_dns: a request is under way
    /\ c.socket \in Sockets \cup {NoSocket}
    /\ c.sock \in [Sockets -> {"none", "connecting", "open", "closing", "deaf"}]
    /\ c.socket # NoSocket => c.sock[c.socket] # "none"
    /\ c.asked \in Sockets \cup {NoSocket}   \* where a login is unanswered
    /\ c.told \in BOOLEAN             \* the listener takes it for logged in
    /\ redirects \in 0 .. MaxRedirects

Init ==
    /\ c = [state |-> "Unconnected", failures |-> 0, expire |-> FALSE,
            keepAlive |-> FALSE, listener |-> TRUE, gone |-> FALSE,
            rpcId |-> FALSE, dns |-> FALSE, socket |-> NoSocket,
            sock |-> [s \in Sockets |-> "none"], asked |-> NoSocket,
            told |-> FALSE]
    /\ redirects = 0

-----------------------------------------------------------------------------
(* Methods                                                                    *)

(* Slip in setState: only a connection gets a deadline.                       *)
setStateIdle(m, state) ==
    [m EXCEPT !.state = state,
              !.expire = IF m.state = state THEN @
                         ELSE CASE state = "HostLookup" -> FALSE
                                [] state = "Connecting" -> TRUE
                                [] OTHER                -> @]

(* setState: HostLookup clears the deadline, Connecting and Reconnecting set  *)
(* it; a state that stays leaves it alone                                     *)
setState(m, state) ==
    [m EXCEPT !.state = state,
              !.expire = IF m.state = state THEN @
                         ELSE CASE state = "HostLookup" -> FALSE
                                [] state \in {"Connecting", "Reconnecting"} -> TRUE
                                [] OTHER                -> @]

(* Slip in close: the socket is forgotten, not closed                         *)
closeOnly(m) ==
    IF m.state \in {"Closing", "Unconnected"} \/ m.socket = NoSocket THEN m
    ELSE [m EXCEPT !.state = "Reconnecting", !.expire = TRUE]

(* close, its result being Pending afterwards                                 *)
close(m) ==
    IF m.state \in {"Closing", "Unconnected"} \/ m.socket = NoSocket THEN m
    ELSE [m EXCEPT !.state = "Closing", !.sock[m.socket] = "closing"]

Pending(m) == m.state = "Closing" /\ m.socket # NoSocket

(* disconnect                                                                 *)
disconnect(m) ==
    close([m EXCEPT !.keepAlive = FALSE, !.expire = FALSE, !.failures = -1,
                    !.told = FALSE])

(* Slip in reconnect: the listener hears of the first failure only.           *)
reconnectOnce(m) ==
    IF ~m.listener \/ m.failures = -1 THEN [m EXCEPT !.keepAlive = FALSE]
    ELSE [setState(m, "Reconnecting") EXCEPT
             !.keepAlive = FALSE, !.failures = 1, !.told = (@ /\ m.rpcId)]

(* reconnect: nobody listens, so the client goes; or it was disconnected; or  *)
(* it waits for its next try                                                  *)
reconnect(m) ==
    IF ~m.listener THEN [m EXCEPT !.gone = TRUE, !.dns = FALSE]
    ELSE IF m.failures = -1 THEN [m EXCEPT !.keepAlive = FALSE, !.told = FALSE]
    ELSE [setState(m, "Reconnecting") EXCEPT
             !.keepAlive = FALSE, !.failures = 1, !.told = FALSE]

(* Slip in resolve: the client stays disconnected while it connects.          *)
resolveOff(m) == [setState(m, "HostLookup") EXCEPT !.dns = TRUE]

(* connect, resolve                                                           *)
resolve(m) ==
    [setState(m, "HostLookup") EXCEPT
        !.failures = IF @ = -1 THEN 0 ELSE @, !.dns = TRUE]

(* send: it sets the deadline of the response, or the write fails             *)
send(m, written) ==
    IF m.sock[m.socket] # "open" THEN m
    ELSE IF written THEN [m EXCEPT !.expire = TRUE] ELSE close(m)

(* connect(addr): a new socket, whatever m_socket was                         *)
connectTo(m, s) ==
    [setState(m, "Connecting") EXCEPT !.socket = s, !.sock[s] = "connecting"]

(* Slip in onClose: m_socket is deleted, and not reset.                       *)
onCloseDangling(m, s) ==
    reconnect([setState(m, "Unconnected") EXCEPT
        !.sock[s] = "none", !.asked = IF @ = s THEN NoSocket ELSE @])

(* onClose: m_socket is deleted; should it be another one than was closed,    *)
(* nobody knows that one any more                                             *)
onClose(m, s) ==
    reconnect([setState(m, "Unconnected") EXCEPT
        !.socket = NoSocket,
        !.sock = [t \in Sockets |->
            IF t = s THEN "none" ELSE IF t = m.socket THEN "deaf" ELSE @[t]],
        !.asked = IF @ = s THEN NoSocket ELSE @])

(* Slip in startTimeout: the deadline is left, keepalive is not started.      *)
startTimeoutOnly(m) == [m EXCEPT !.expire = FALSE]

(* startTimeout, for every line that is read                                  *)
startTimeout(m) == [m EXCEPT !.expire = FALSE, !.keepAlive = KeepAlive]

-----------------------------------------------------------------------------
(* What the strategy does                                                     *)

Alive(m) == m.listener /\ ~m.gone

(* At first, and when the client it disconnected has no socket: should that   *)
(* one still look up its host, m_dns drops the older lookup                   *)
Connect ==
    /\ Alive(c) /\ c.socket = NoSocket
    /\ c.state = "Unconnected" \/ c.failures = -1
    /\ c' = resolve(c)
    /\ UNCHANGED redirects

Disconnect ==
    /\ Alive(c)
    /\ c.failures # -1
    /\ c' = disconnect(c)
    /\ UNCHANGED redirects

DeleteLater ==
    /\ Alive(c)
    /\ LET m == disconnect([c EXCEPT !.listener = FALSE])
       IN  c' = IF Pending(m) THEN m ELSE [m EXCEPT !.gone = TRUE, !.dns = FALSE]
    /\ UNCHANGED redirects

(* submit, for a share of the last session that logged in                     *)
Submit(written) ==
    /\ Alive(c) /\ c.rpcId /\ c.state = "Connected" /\ c.socket # NoSocket
    /\ c' = send(c, written)
    /\ UNCHANGED redirects

-----------------------------------------------------------------------------
(* What the event loop does: timers run when the closed sockets are through   *)

NoneClosing == \A s \in Sockets : c.sock[s] # "closing"

(* tick: the response or the connection is overdue                            *)
TimesOut ==
    /\ NoneClosing /\ Alive(c)
    /\ c.state \in {"Connected", "Connecting"} /\ c.expire
    /\ c' = close(c)
    /\ UNCHANGED redirects

(* tick: ping                                                                 *)
Ping(written) ==
    /\ NoneClosing /\ Alive(c)
    /\ c.state = "Connected" /\ c.keepAlive /\ c.socket # NoSocket
    /\ c' = [send(c, written) EXCEPT !.keepAlive = FALSE]
    /\ UNCHANGED redirects

(* tick: the retry pause is over                                              *)
Retry ==
    /\ NoneClosing /\ Alive(c)
    /\ c.state = "Reconnecting" /\ c.expire
    /\ c' = resolve(c)
    /\ UNCHANGED redirects

(* onResolved                                                                 *)
Resolved ==
    /\ c.dns
    /\ LET m == [c EXCEPT !.dns = FALSE]
       IN  IF ~m.listener THEN c' = reconnect(m)
           ELSE \/ c' = reconnect(m)
                \/ \E s \in Sockets :
                       c.sock[s] = "none" /\ c' = connectTo(m, s)
    /\ UNCHANGED redirects

(* onConnect: refused                                                         *)
Refused(s) ==
    /\ ~c.gone /\ c.sock[s] = "connecting"
    /\ LET m == [c EXCEPT !.sock[s] = "deaf"]
       IN  c' = IF c.state = "Connecting" THEN close(m) ELSE m
    /\ UNCHANGED redirects

(* onConnect: the login is sent, unless the client is connected already       *)
Accepted(s, written) ==
    /\ ~c.gone /\ c.sock[s] = "connecting"
    /\ c' = IF c.state = "Connected" THEN [c EXCEPT !.sock[s] = "deaf"]
            ELSE send([setState(c, "Connected") EXCEPT
                          !.sock[s] = "open", !.asked = s], written)
    /\ UNCHANGED redirects

(* onRead, read, parse: a line from any socket that is still read             *)
Line(s) ==
    /\ ~c.gone /\ c.sock[s] = "open"
    /\ LET m == startTimeout(c)
       IN  IF ~c.listener THEN c' = reconnect(c)
           ELSE \/ c' = m              \* a job, an answer, or nothing of use
                \/ c' = close(m)       \* a bad job or login, a critical error
    /\ UNCHANGED redirects

(* parseResponse: the login is accepted; a pool answers it once               *)
LoginAnswered(s) ==
    /\ Alive(c) /\ c.sock[s] = "open" /\ c.asked = s
    /\ c' = [startTimeout(c) EXCEPT !.asked = NoSocket, !.rpcId = TRUE,
                                    !.failures = 0, !.told = TRUE]
    /\ UNCHANGED redirects

(* parse: client.reconnect leaves the socket open; no login is answered there *)
(* any more                                                                   *)
Redirected(s) ==
    /\ Alive(c) /\ c.sock[s] = "open" /\ redirects < MaxRedirects
    /\ c' = [reconnect(startTimeout(c)) EXCEPT !.asked = NoSocket]
    /\ redirects' = redirects + 1

(* read: the pool closed the connection, or it broke                          *)
ReadError(s) ==
    /\ ~c.gone /\ c.sock[s] = "open"
    /\ c' = close([c EXCEPT !.sock[s] = "deaf"])
    /\ UNCHANGED redirects

(* The close callback                                                         *)
Closed(s) ==
    /\ ~c.gone /\ c.sock[s] = "closing"
    /\ c' = onClose(c, s)
    /\ UNCHANGED redirects

Connecting(s) == Refused(s) \/ \E written \in BOOLEAN : Accepted(s, written)
Reading(s)    == Line(s) \/ LoginAnswered(s) \/ Redirected(s) \/ ReadError(s)

Next ==
    \/ Connect \/ Disconnect \/ DeleteLater
    \/ \E written \in BOOLEAN : Submit(written) \/ Ping(written)
    \/ TimesOut \/ Retry \/ Resolved
    \/ \E s \in Sockets : Connecting(s) \/ Reading(s) \/ Closed(s)

(* The resolver and the kernel answer, closed sockets are called back, and    *)
(* the tick comes twice a second, between the other events.                   *)
Fairness ==
    /\ WF_vars(Resolved)
    /\ \A s \in Sockets : WF_vars(Connecting(s)) /\ WF_vars(Closed(s))
    /\ SF_vars(TimesOut) /\ SF_vars(Retry)
    /\ SF_vars(\E written \in BOOLEAN : Ping(written))

Spec     == Init /\ [][Next]_vars
FairSpec == Spec /\ Fairness

-----------------------------------------------------------------------------
(* Properties                                                                 *)

(* Safety: while the listener takes the client for logged in (it heard        *)
(* onLoginSuccess and no onClose since), the session stands or its close is   *)
(* under way: a strategy never keeps a pool active that is gone.              *)
LossIsAnnounced ==
    c.told /\ Alive(c) => c.state \in {"Connected", "Closing"} /\ c.socket # NoSocket

(* How far the client is, as its strategy sees it: the client this one        *)
(* implements.                                                                *)
Phase(m) ==
    CASE ~Alive(m)                         -> "deleted"
      [] Alive(m) /\ m.dns                 -> "lookup"
      [] Alive(m) /\ ~m.dns                ->
         CASE m.state = "Connecting"       -> "login"
           [] m.state = "Connected"        -> IF m.told THEN "in" ELSE "login"
           [] m.state = "Closing"          -> "closing"
           [] m.state = "Reconnecting"     -> IF m.failures = -1 THEN "off" ELSE "waiting"
           [] m.state \in {"Unconnected", "HostLookup"} -> "off"

Seen == INSTANCE PoolClient WITH
            phase  <- Phase(c),
            wanted <- Alive(c) /\ c.failures # -1

(* Refinement: as long as no pool redirects, the client does what Pools takes *)
(* it to do, in whatever order the resolver, sockets and timers call back.    *)
ActsAsClient ==
    Seen!Init /\ [][redirects' = 0 => Seen!Next \/ UNCHANGED Seen!vars]_vars

(* Safety: as long as no pool redirects, m_socket is the only socket there    *)
(* is: none is overwritten while it lives, and the close callback, which      *)
(* deletes m_socket, deletes the one that was closed.                         *)
OneSocket ==
    redirects = 0 => \A s \in Sockets : c.sock[s] # "none" => s = c.socket

(* Safety: as long as no pool redirects, a client that is wanted never waits  *)
(* for nothing: the resolver answers, or its socket is called back, or the    *)
(* deadline is set that makes the timer close it or try again (setState,      *)
(* reconnect, close).  The others are disconnected, or were never connected.  *)
AnEventIsDue ==
    redirects = 0 /\ Alive(c) /\ c.failures # -1 =>
        \/ c.state = "Unconnected" /\ c.failures = 0
        \/ c.state = "HostLookup" /\ c.dns
        \/ c.state = "Reconnecting" /\ c.expire
        \/ /\ c.socket # NoSocket
           /\ \/ c.state = "Connecting" /\ c.sock[c.socket] = "connecting" /\ c.expire
              \/ c.state = "Connected" /\ c.sock[c.socket] = "open"
              \/ c.state = "Closing" /\ c.sock[c.socket] = "closing"

(* A pool that redirected its client closes the old connection, before the    *)
(* client opens the next.                                                     *)
OldOneCloses ==
    /\ \A s \in Sockets : WF_vars(c.state # "Connected" /\ ReadError(s))
    /\ [](\A s \in Sockets : c.sock[s] = "open" => s = c.socket)

(* Liveness: a client that is wanted keeps trying, whatever lines, errors and *)
(* timeouts came in which order, provided that OldOneCloses: a line read from *)
(* an old connection clears the deadline of the next try.                     *)
KeepsTrying ==
    /\ <>[](Alive(c) /\ c.failures # -1 /\ c.state # "Unconnected")
    /\ OldOneCloses
    => []<>(c.state \in {"HostLookup", "Connecting", "Connected"})

(* Liveness: with keepalive a wanted client leaves a pool that falls silent,  *)
(* once the miner has no more shares for it (each sets the deadline anew).    *)
SilentPoolIsLeft ==
    /\ KeepAlive
    /\ <>[](Alive(c) /\ c.failures # -1)
    /\ <>[][\A s \in Sockets : ~(Line(s) \/ LoginAnswered(s))]_vars
    /\ <>[][\A written \in BOOLEAN : ~Submit(written)]_vars
    => []<>(c.state # "Connected")
=============================================================================
