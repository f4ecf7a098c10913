-------------------------------- MODULE Pools --------------------------------
(* Who feeds the miner: Network (src/net/Network.cpp) between the user's pool *)
(* strategy (FailoverStrategy, SinglePoolStrategy), the donation              *)
(* (DonateStrategy) and the shares the workers found (JobResults).            *)
(*                                                                            *)
(* Everything runs on the main thread, one event after the other, but a call  *)
(* goes through many objects before it returns.  `net` holds the state of all *)
(* of them and every method that changes it is an operator from net to net,   *)
(* so that an action is the whole chain of calls of one event.                *)
(*                                                                            *)
(* A pool client is seen as its strategy sees it; StratumClient has its       *)
(* sockets and timeouts.  Pools do not send client.reconnect here.            *)

EXTENDS Integers, FiniteSets

CONSTANTS UserPools,    \* 0 .. n: the enabled pools of the configuration
          DonatePools,  \* 0 .. n: the donation pools (one without TLS)
          Retries,      \* "retries" of the configuration
          ProxyDonate,  \* Pools::proxyDonate(): "none", "auto" or "always"
          Nobody        \* no share, no job, no client

(* With a third pool, or with one retry only, FailoverStrategy connects       *)
(* clients whose close is still pending as a matter of course; with two it    *)
(* does so only when the lookup of a backup outlasts its disconnect           *)
(* (Overtaken).                                                               *)
ASSUME PoolsAssumption ==
    /\ UserPools \in {{0}, {0, 1}} /\ DonatePools \in {{0}, {0, 1}}
    /\ Retries \in Nat /\ Retries >= 2
    /\ ProxyDonate \in {"none", "auto", "always"}
    /\ Nobody \notin {"user", "donate", "proxy"} \X {0, 1}

ClientsOf(s) == {s} \X (CASE s = "user"   -> UserPools
                          [] s = "donate" -> DonatePools
                          [] OTHER        -> {0})
Proxy   == <<"proxy", 0>>
Clients == UNION {ClientsOf(s) : s \in {"user", "donate", "proxy"}}

(* SinglePoolStrategy is used for one pool, FailoverStrategy for more.        *)
Single(s) == Cardinality(ClientsOf(s)) = 1

(* A client is off, looks up its host, connects and logs in, is logged in,    *)
(* closes its socket, or waits before it tries again.  failures is -1 once    *)
(* the strategy disconnected it, and counts here no further than anyone looks *)
ClientStates == [phase : {"off", "lookup", "login", "in", "closing", "waiting"},
                 failures : -1 .. Retries]

Enough(c) == IF c # Proxy /\ Single(c[1]) THEN 0 ELSE Retries

VARIABLES
    net,     \* cl, strat, donate, miner: see TypeOK
    share    \* a share on its way from JobResults::submit to onJobResult

vars == <<net, share>>

TypeOK ==
    /\ DOMAIN net = {"cl", "strat", "donate", "miner"}
    /\ net.cl \in [Clients -> ClientStates]
    /\ net.strat \in [{"user", "donate"} -> [index : {0, 1}, active : {-1, 0, 1}]]
    /\ net.donate \in [state : {"IDLE", "CONNECT", "ACTIVE", "WAIT"},
                       timer : BOOLEAN,   \* m_timer is running
                       proxy : BOOLEAN]   \* m_proxy != nullptr
    /\ net.miner \in [active : BOOLEAN, index : {0, 1},
                      from : Clients \cup {Nobody}]
    /\ share \in [index : {0, 1}, from : Clients \cup {Nobody}] \cup {Nobody}

NewClient   == [phase |-> "off", failures |-> 0]
NewStrategy == [index |-> 0, active |-> -1]

-----------------------------------------------------------------------------
(* Clients and miner                                                          *)

(* Client::connect, Client::resolve.  A socket that the client still has is   *)
(* forgotten: see Overtaken.                                                  *)
Connect(n, c) ==
    [n EXCEPT !.cl[c] =
        [phase    |-> "lookup",
         failures |-> IF @.failures = -1 THEN 0 ELSE @.failures]]

(* Client::disconnect: a running lookup is not cancelled                      *)
Disconnect(n, some) ==
    [n EXCEPT !.cl = [c \in Clients |->
        IF c \notin some THEN @[c]
        ELSE [phase    |-> CASE @[c].phase \in {"login", "in"} -> "closing"
                             [] @[c].phase = "waiting"         -> "off"
                             [] OTHER                          -> @[c].phase,
              failures |-> -1]]]

(* Miner::setJob and Miner::pause                                             *)
MinerJob(n, i, c) ==
    [n EXCEPT !.miner = [active |-> TRUE, index |-> i, from |-> c]]
MinerPause(n) == [n EXCEPT !.miner.active = FALSE]

-----------------------------------------------------------------------------
(* Network                                                                    *)

IsActive(n, s) == n.strat[s].active # -1

(* Network::onJob: the user's jobs wait while a donation is active            *)
NetworkJob(n, s, c) ==
    IF s = "user" /\ n.donate.state = "ACTIVE" THEN n
    ELSE MinerJob(n, IF s = "user" THEN 0 ELSE 1, c)

(* resume() of the user's strategy: its client's job goes to the network      *)
Resume(n) ==
    IF IsActive(n, "user")
    THEN NetworkJob(n, "user", <<"user", n.strat["user"].active>>)
    ELSE n

(* Network::onPause                                                           *)
NetworkPause(n, s) ==
    LET r == IF s = "donate" THEN Resume(n) ELSE n
    IN  IF IsActive(r, "user") THEN r ELSE MinerPause(r)

(* Slip: the share goes to the strategy that is mined for now.                *)
TargetNow(n, i) ==
    IF n.donate.state = "ACTIVE"
    THEN IF n.donate.proxy THEN Proxy ELSE <<"donate", n.strat["donate"].active>>
    ELSE <<"user", n.strat["user"].active>>

(* Network::onJobResult and the submit() of the strategies: the client a      *)
(* share of job index i is handed to, <<s, -1>> if there is none              *)
Target(n, i) ==
    IF i = 1 /\ n.donate.proxy THEN Proxy
    ELSE LET s == IF i = 1 THEN "donate" ELSE "user"
         IN  <<s, IF Single(s) THEN 0 ELSE n.strat[s].active>>

-----------------------------------------------------------------------------
(* Strategies                                                                 *)

(* The listener of the user's strategy is Network, that of the donation's     *)
(* strategy is DonateStrategy, whose onPause is empty.                        *)
ListenerPause(n, s) == IF s = "user" THEN NetworkPause(n, s) ELSE n

(* Slip in FailoverStrategy::stop: nobody is told.                            *)
StopQuietly(n, s) ==
    [Disconnect(n, ClientsOf(s)) EXCEPT !.strat[s] = NewStrategy]

(* stop(): SinglePoolStrategy only disconnects                                *)
StopStrategy(n, s) ==
    LET d == Disconnect(n, ClientsOf(s))
    IN  IF Single(s) THEN d
        ELSE ListenerPause([d EXCEPT !.strat[s] = NewStrategy], s)

(* connect()                                                                  *)
ConnectStrategy(n, s) == Connect(n, <<s, n.strat[s].index>>)

(* Slip in FailoverStrategy::onClose: the next pool is chosen, not connected. *)
StrategyCloseIdle(n, s, i, failures) ==
    LET next == IF failures = Retries /\ i = 0 THEN 1 ELSE n.strat[s].index
        told == IF n.strat[s].active = i
                THEN ListenerPause([n EXCEPT !.strat[s].active = -1], s) ELSE n
    IN  [told EXCEPT !.strat[s].index = next]

(* onClose(): a pool that was active pauses; when the first pool used up its  *)
(* retries, or a later one failed, the next one is tried                      *)
StrategyClose(n, s, i, failures) ==
    LET index  == n.strat[s].index
        lost   == n.strat[s].active = i
        paused == IF lost THEN ListenerPause([n EXCEPT !.strat[s].active = -1], s)
                  ELSE n
    IN  CASE Single(s)                            -> paused
          [] ~Single(s) /\ failures = -1          -> n
          [] OTHER ->
               IF (index # 0 \/ failures >= Retries) /\ index = i
                  /\ <<s, index + 1>> \in ClientsOf(s)
               THEN Connect([paused EXCEPT !.strat[s].index = index + 1],
                            <<s, index + 1>>)
               ELSE paused

-----------------------------------------------------------------------------
(* DonateStrategy                                                             *)

(* createProxy() needs a pool of the user's that is active and offers it      *)
MayProxy(n) == ProxyDonate # "none" /\ IsActive(n, "user")

(* Slip in setState: the timer that supervises a connection is started        *)
SetStateTimed(n, state, offered) ==
    [n EXCEPT !.donate.state = state, !.donate.timer = TRUE]

(* setState(): IDLE ends a donation, CONNECT begins one; the new state is     *)
(* visible to everything that is called from here                             *)
SetState(n, state, offered) ==
    LET m == [n EXCEPT !.donate.state = state]
    IN  CASE state = "IDLE" ->
               [StopStrategy(m, "donate") EXCEPT
                   !.donate.timer = TRUE, !.donate.proxy = FALSE,
                   !.cl[Proxy] = NewClient]
          [] state = "CONNECT" ->
               IF MayProxy(m) /\ offered
               THEN Connect([m EXCEPT !.donate.proxy = TRUE], Proxy)
               ELSE ConnectStrategy([m EXCEPT !.donate.proxy = FALSE], "donate")
          [] state = "ACTIVE" -> [m EXCEPT !.donate.timer = TRUE]
          [] state = "WAIT"   -> NetworkPause(m, "donate")

(* onActive(), onLoginSuccess()                                               *)
DonateLogin(n) ==
    IF n.donate.state = "ACTIVE" THEN n ELSE SetState(n, "ACTIVE", FALSE)

(* setJob()                                                                   *)
DonateJob(n, c) ==
    IF n.donate.state = "ACTIVE" THEN NetworkJob(n, "donate", c) ELSE n

(* onClose() of the proxy: its second failure in a row gives it up            *)
ProxyClose(n, failures) ==
    IF failures = 2 /\ ProxyDonate = "auto"
    THEN ConnectStrategy([n EXCEPT !.cl[Proxy] = NewClient,
                                   !.donate.proxy = FALSE], "donate")
    ELSE n

-----------------------------------------------------------------------------
(* What a client tells its listener                                           *)

(* Client::reconnect: the strategy is told, the client waits or stays off     *)
ClientClose(n, c) ==
    LET s == c[1]
        f == IF n.cl[c].failures \in {-1, Enough(c)} THEN n.cl[c].failures
             ELSE n.cl[c].failures + 1
        m == [n EXCEPT !.cl[c] =
                 [phase |-> IF f = -1 THEN "off" ELSE "waiting", failures |-> f]]
    IN  IF s = "proxy" THEN ProxyClose(m, f) ELSE StrategyClose(m, s, c[2], f)

(* Slip in FailoverStrategy::onLoginSuccess: backups are left connected       *)
StrategyLoginKeep(n, s, i) ==
    LET was == n.strat[s].active
        now == IF i = 0 \/ was = -1 THEN i ELSE was
    IN  [n EXCEPT !.strat[s] = [index |-> now, active |-> now]]

(* onLoginSuccess(): the first pool, or any if none was active, becomes the   *)
(* active one; the other backup pools are disconnected                        *)
StrategyLogin(n, s, i) ==
    LET was    == n.strat[s].active
        now    == IF i = 0 \/ was = -1 THEN i ELSE was
        others == {c \in ClientsOf(s) : c[2] \notin {0, now}}
        d      == Disconnect(n, others)
        active == IF now = was THEN d
                  ELSE [d EXCEPT !.strat[s] = [index |-> now, active |-> now]]
    IN  CASE Single(s) -> [n EXCEPT !.strat[s].active = 0]
          [] OTHER     -> active

(* onJobReceived()                                                            *)
ClientJob(n, c) ==
    IF c # Proxy /\ ~Single(c[1]) /\ n.strat[c[1]].active # c[2] THEN n
    ELSE IF c[1] = "user" THEN NetworkJob(n, "user", c)
    ELSE DonateJob(n, c)

(* The login response: onLoginSuccess, then the job that came with it         *)
ClientLogin(n, c) ==
    LET m      == [n EXCEPT !.cl[c] = [phase |-> "in", failures |-> 0]]
        told   == IF c = Proxy THEN m ELSE StrategyLogin(m, c[1], c[2])
        active == c = Proxy \/ Single(c[1])
                      \/ told.strat[c[1]].active # n.strat[c[1]].active
    IN  ClientJob(IF c[1] # "user" /\ active THEN DonateLogin(told) ELSE told, c)

-----------------------------------------------------------------------------
(* Events                                                                     *)

(* The shares of a session that is over no longer match the client's id.      *)
Forget(gone) ==
    share' = IF share # Nobody /\ share.from \in gone
             THEN [share EXCEPT !.from = Nobody] ELSE share

Init ==
    /\ net = ConnectStrategy(
                [cl     |-> [c \in Clients |-> NewClient],
                 strat  |-> [s \in {"user", "donate"} |-> NewStrategy],
                 donate |-> [state |-> "IDLE", timer |-> TRUE, proxy |-> FALSE],
                 miner  |-> [active |-> FALSE, index |-> 0, from |-> Nobody]],
                "user")
    /\ share = Nobody

(* The host is known: a connection is made and the login sent                 *)
Resolved(c) ==
    /\ net.cl[c].phase = "lookup"
    /\ net' = [net EXCEPT !.cl[c].phase = "login"]
    /\ UNCHANGED share

(* A connection fails, times out or is lost: Client::close                    *)
Dropped(c) ==
    /\ net.cl[c].phase \in {"login", "in"}
    /\ net' = [net EXCEPT !.cl[c].phase = "closing"]
    /\ UNCHANGED share

(* The host cannot be found, or the socket is closed: Client::reconnect       *)
Closed(c) ==
    /\ net.cl[c].phase \in {"lookup", "closing"}
    /\ net' = ClientClose(net, c)
    /\ Forget({d \in {c} : d = Proxy /\ ~net'.donate.proxy})

LoggedIn(c) ==
    /\ net.cl[c].phase = "login"
    /\ net' = ClientLogin(net, c)
    /\ Forget({c})

JobReceived(c) ==
    /\ net.cl[c].phase = "in"
    /\ net' = ClientJob(net, c)
    /\ UNCHANGED share

(* Timers run when the callbacks of closed sockets are through.               *)
NoneClosing == \A c \in Clients : net.cl[c].phase # "closing"

(* Client::tick after the retry pause                                         *)
Retry(c) ==
    /\ NoneClosing
    /\ net.cl[c].phase = "waiting"
    /\ net' = Connect(net, c)
    /\ UNCHANGED share

(* The idle time (an hour and more) outlasts a lookup or a login that was     *)
(* under way when the donation ended.                                         *)
IdleIsLong ==
    net.donate.state = "IDLE" =>
        \A c \in ClientsOf("donate") : net.cl[c].phase = "off"

(* DonateStrategy::onTimer                                                    *)
DonateTimer(offered) ==
    /\ NoneClosing /\ IdleIsLong
    /\ net.donate.timer
    /\ net' = SetState([net EXCEPT !.donate.timer = FALSE],
                       IF net.donate.state = "ACTIVE" THEN "WAIT" ELSE "CONNECT",
                       offered)
    /\ UNCHANGED share

(* DonateStrategy::tick, three seconds later                                  *)
DonateTick ==
    /\ NoneClosing
    /\ net.donate.state = "WAIT"
    /\ net' = SetState(net, "IDLE", FALSE)
    /\ Forget({Proxy})

(* Network::onConfigChanged: the old strategy is stopped and deleted with its *)
(* clients                                                                    *)
ConfigChanged ==
    /\ LET n == StopStrategy(net, "user")
       IN  net' = ConnectStrategy(
                    [n EXCEPT !.strat["user"] = NewStrategy,
                              !.cl = [c \in Clients |->
                                  IF c[1] = "user" THEN NewClient ELSE @[c]]],
                    "user")
    /\ Forget(ClientsOf("user"))

(* JobResults::submit, by a worker                                            *)
ShareFound ==
    /\ share = Nobody /\ net.miner.from # Nobody
    /\ share' = [index |-> net.miner.index, from |-> net.miner.from]
    /\ UNCHANGED net

(* onAsync, Network::onJobResult: Client::submit sends it or not              *)
ShareDelivered ==
    /\ share # Nobody
    /\ share' = Nobody
    /\ UNCHANGED net

Next ==
    \/ \E c \in Clients :
           Resolved(c) \/ Dropped(c) \/ Closed(c) \/ LoggedIn(c)
             \/ JobReceived(c) \/ Retry(c)
    \/ \E offered \in BOOLEAN : DonateTimer(offered)
    \/ DonateTick
    \/ ConfigChanged
    \/ ShareFound \/ ShareDelivered

(* The event loop handles what is due: close callbacks, answers of the        *)
(* resolver and, twice a second, ticks.                                       *)
Fairness == \A c \in Clients :
    /\ WF_vars(Resolved(c) \/ Closed(c))
    /\ SF_vars(Retry(c))

Spec     == Init /\ [][Next]_vars
FairSpec == Spec /\ Fairness

-----------------------------------------------------------------------------
(* Properties                                                                 *)

(* Safety: of the user's pools none is logged in but the active one, in       *)
(* whatever order they fail, recover and log in: no second session is kept    *)
(* (FailoverStrategy::onLoginSuccess).                                        *)
OnlyActiveLoggedIn ==
    \A c \in ClientsOf("user") :
        net.cl[c].phase = "in" => net.strat["user"].active = c[2]

(* Safety: the miner works on a job of the user only while a pool of the user *)
(* is active, and on a donation job only while the donation is on: through    *)
(* losses, reloads and donations that end, the user's job is back in time or  *)
(* mining pauses (Network::onPause).                                          *)
WorkIsLive ==
    net.miner.active =>
        IF net.miner.index = 0 THEN IsActive(net, "user")
        ELSE net.donate.state = "ACTIVE"

(* Safety: setState asserts that the state changes: the timer may run only    *)
(* where onTimer leads on, whatever logins come late (DonateStrategy).        *)
TimerLeadsOn ==
    net.donate.timer => net.donate.state \in {"IDLE", "ACTIVE"}

(* Safety: a share whose session still stands is handed to that session,      *)
(* though the donation began or ended or the pool changed since it was found. *)
SharesGoHome ==
    share # Nobody /\ share.from # Nobody /\ net.cl[share.from].phase = "in"
        => Target(net, share.index) = share.from

(* What a client is to its strategy.                                          *)
Seen(c) == INSTANCE PoolClient WITH
               phase  <- net.cl[c].phase,
               wanted <- net.cl[c].failures # -1

(* A reload, and a proxy that ends, delete a client; the next one is new.     *)
Renewed(c) ==
    \/ c[1] = "user" /\ ConfigChanged
    \/ c = Proxy /\ net'.cl[c] = NewClient

(* FailoverStrategy::onClose goes over to a backup that it disconnected       *)
(* during a lookup, which went on to a socket all the same, and which is not  *)
(* closed yet: Client::connect overwrites m_socket, and the older one stays   *)
(* open.  From then on neither this module nor StratumClient describes that   *)
(* client.                                                                    *)
Overtaken(c) ==
    /\ c # Proxy /\ c[2] = 1 /\ Closed(<<c[1], 0>>)
    /\ net.cl[c].failures = -1 /\ net.cl[c].phase \in {"login", "closing"}
    /\ net'.cl[c].phase = "lookup"

(* Refinement: but for a backup that is overtaken, every client is used as    *)
(* PoolClient allows, which StratumClient implements: though the strategies,  *)
(* the donation and the proxy act in whatever order, none is connected that   *)
(* has a connection or tries to get one, and none that was disconnected tries *)
(* again by itself.                                                           *)
UsesPoolClients ==
    [][\A c \in Clients :
           \/ Seen(c)!Next \/ UNCHANGED Seen(c)!vars
           \/ Renewed(c) \/ Overtaken(c)]_vars

(* A login is answered or times out.  A pool that refuses it and keeps the    *)
(* connection open would hold the client there: Client::parseResponse closes  *)
(* on a critical error only.                                                  *)
LoginEnds(c) == LoggedIn(c) \/ (net.cl[c].phase = "login" /\ Dropped(c))

(* Liveness: if one of the user's pools can be reached and lets the client in *)
(* whenever it keeps trying, and every login ends, then some pool is active   *)
(* again and again, whichever pools failed before: no switch to a backup      *)
(* leads into a dead end.                                                     *)
AnyPoolServes ==
    \A c \in ClientsOf("user") :
        /\ <>[][~ConfigChanged]_vars
        /\ \A d \in ClientsOf("user") : WF_vars(LoginEnds(d))
        /\ SF_vars(Resolved(c)) /\ SF_vars(LoggedIn(c))
        => []<>IsActive(net, "user")
=============================================================================
