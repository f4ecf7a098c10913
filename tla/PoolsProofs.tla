----------------------------- MODULE PoolsProofs -----------------------------
(* Proofs about Pools, for one or two pools per strategy, any number of       *)
(* retries and every donation mode: its type invariant and every safety       *)
(* property.  An action is a chain of calls; what each call keeps is a lemma  *)
(* about its operator.                                                        *)

EXTENDS Pools, FiniteSetTheorems, TLAPS

Strategies == {"user", "donate"}

Net == [cl     : [Clients -> ClientStates],
        strat  : [Strategies -> [index : {0, 1}, active : {-1, 0, 1}]],
        donate : [state : {"IDLE", "CONNECT", "ACTIVE", "WAIT"},
                  timer : BOOLEAN, proxy : BOOLEAN],
        miner  : [active : BOOLEAN, index : {0, 1}, from : Clients \cup {Nobody}]]

(* Failures are counted no further than anyone looks.                         *)
Counted(n) == \A c \in Clients : n.cl[c].failures \in -1 .. Enough(c)

(* The pools a strategy tries and mines for are pools of its own.             *)
Chosen(n) ==
    \A s \in Strategies :
        /\ <<s, n.strat[s].index>> \in ClientsOf(s)
        /\ n.strat[s].active # -1 => <<s, n.strat[s].active>> \in ClientsOf(s)

(* No second session is kept, by either strategy.                             *)
OnlyActiveOf(n, s) ==
    \A c \in ClientsOf(s) : n.cl[c].phase = "in" => n.strat[s].active = c[2]

OnlyActive(n) == \A s \in Strategies : OnlyActiveOf(n, s)

(* A donation is made through the proxy or through its own pools.             *)
ProxyOrPools(n) ==
    IF n.donate.proxy THEN \A c \in ClientsOf("donate") : n.cl[c].phase = "off"
    ELSE n.cl[Proxy].phase = "off"

(* The index of a job says whose it is.                                       *)
Indexed(job) ==
    job.from # Nobody => job.index = IF job.from[1] = "user" THEN 0 ELSE 1

Timed(n) == n.donate.timer => n.donate.state \in {"IDLE", "ACTIVE"}

(* What holds between any two calls                                           *)
Base(n) ==
    /\ n \in Net
    /\ Counted(n) /\ Chosen(n) /\ ProxyOrPools(n) /\ Indexed(n.miner) /\ Timed(n)

Sane(n) == Base(n) /\ OnlyActive(n)

(* What holds between any two events                                          *)
Live(n) ==
    n.miner.active =>
        IF n.miner.index = 0 THEN IsActive(n, "user")
        ELSE n.donate.state = "ACTIVE"

NoIdleProxy(n) == n.donate.state = "IDLE" => ~n.donate.proxy

NetInv(n) ==
    Sane(n) /\ NoIdleProxy(n) /\ (~Single("user") => Live(n))

ShareInv ==
    /\ share \in [index : {0, 1}, from : Clients \cup {Nobody}] \cup {Nobody}
    /\ share # Nobody => Indexed(share)

IInv == NetInv(net) /\ ShareInv

-----------------------------------------------------------------------------
(* Who the clients are                                                        *)

LEMMA OfStrategy ==
    ASSUME NEW s \in Strategies, NEW c \in ClientsOf(s)
    PROVE  /\ c \in Clients /\ c # Proxy /\ c = <<s, c[2]>> /\ c[1] = s
           /\ c[2] \in {0, 1}
<1>1. CASE s = "user"
  BY <1>1, PoolsAssumption DEF Strategies, ClientsOf, Clients, Proxy
<1>2. CASE s = "donate"
  BY <1>2, PoolsAssumption DEF Strategies, ClientsOf, Clients, Proxy
<1> QED
  BY <1>1, <1>2 DEF Strategies

LEMMA ProxyIs ==
    /\ Proxy \in Clients /\ Proxy[1] = "proxy"
    /\ \A s \in Strategies : Proxy \notin ClientsOf(s)
<1>1. Proxy \in Clients /\ Proxy[1] = "proxy"
  BY DEF Clients, ClientsOf, Proxy
<1> QED
  BY <1>1, OfStrategy

LEMMA AnyClient ==
    ASSUME NEW c \in Clients
    PROVE  \/ c = Proxy
           \/ c[1] \in Strategies /\ c \in ClientsOf(c[1])
<1>1. PICK s \in {"user", "donate", "proxy"} : c \in ClientsOf(s)
  BY DEF Clients
<1>2. CASE s = "proxy"
  BY <1>1, <1>2 DEF ClientsOf, Proxy
<1>3. CASE s \in Strategies
  BY <1>1, <1>3, OfStrategy
<1> QED
  BY <1>2, <1>3 DEF Strategies

LEMMA OneOfTwo == ClientsOf("user") \cap ClientsOf("donate") = {}
BY OfStrategy DEF Strategies

LEMMA FirstPool == \A s \in Strategies : <<s, 0>> \in ClientsOf(s)
BY PoolsAssumption DEF Strategies, ClientsOf

LEMMA NobodyIs == Nobody \notin Clients
BY PoolsAssumption DEF Clients, ClientsOf

LEMMA SingleIs ==
    ASSUME NEW s \in Strategies, Single(s), NEW c \in ClientsOf(s)
    PROVE  c = <<s, 0>>
<1>1. ClientsOf(s) \in {{<<s, 0>>}, {<<s, 0>>, <<s, 1>>}}
  BY PoolsAssumption DEF Strategies, ClientsOf
<1>2. Cardinality({<<s, 0>>, <<s, 1>>}) = 2
  <2>1. IsFiniteSet({<<s, 0>>}) /\ Cardinality({<<s, 0>>}) = 1
    BY FS_Singleton
  <2>2. <<s, 1>> \notin {<<s, 0>>}
    OBVIOUS
  <2>3. Cardinality({<<s, 0>>} \cup {<<s, 1>>}) = Cardinality({<<s, 0>>}) + 1
    BY <2>1, <2>2, FS_AddElement
  <2>4. {<<s, 0>>} \cup {<<s, 1>>} = {<<s, 0>>, <<s, 1>>}
    OBVIOUS
  <2> QED
    BY <2>1, <2>3, <2>4
<1> QED
  BY <1>1, <1>2 DEF Single

-----------------------------------------------------------------------------
(* Clients and miner                                                          *)

(* What a call leaves alone that only changes clients                         *)
SameBut(n, m) == m.strat = n.strat /\ m.donate = n.donate /\ m.miner = n.miner

LEMMA EnoughIs == \A c \in Clients : Enough(c) \in Nat
BY PoolsAssumption DEF Enough

LEMMA ConnectKeeps ==
    ASSUME NEW n, Sane(n), NEW c \in Clients,
           c \in ClientsOf("donate") => ~n.donate.proxy,
           c = Proxy => n.donate.proxy
    PROVE  Sane(Connect(n, c)) /\ SameBut(n, Connect(n, c))
<1> DEFINE k == [phase    |-> "lookup",
                 failures |-> IF n.cl[c].failures = -1 THEN 0
                              ELSE n.cl[c].failures]
           m == [n EXCEPT !.cl[c] = k]
<1>1. Connect(n, c) = m
  BY DEF Connect
<1>2. k \in ClientStates /\ k.failures \in -1 .. Enough(c) /\ k.phase = "lookup"
  BY EnoughIs, PoolsAssumption DEF Sane, Base, Net, Counted, ClientStates
<1> HIDE DEF k
<1>3. m \in Net /\ SameBut(n, m) /\ m.cl = [n.cl EXCEPT ![c] = k]
  BY <1>2 DEF Sane, Base, Net, SameBut
<1>4. \A d \in Clients : m.cl[d] = IF d = c THEN k ELSE n.cl[d]
  BY <1>3 DEF Sane, Base, Net
<1> HIDE DEF m
<1>5. Counted(m) /\ Chosen(m) /\ Indexed(m.miner) /\ Timed(m)
  BY <1>2, <1>3, <1>4 DEF Sane, Base, SameBut, Counted, Chosen, Indexed, Timed
<1>6. OnlyActive(m)
  BY <1>2, <1>3, <1>4, OfStrategy
  DEF Sane, SameBut, OnlyActive, OnlyActiveOf
<1>7. ProxyOrPools(m)
  BY <1>2, <1>3, <1>4, OfStrategy, ProxyIs
  DEF Sane, Base, SameBut, ProxyOrPools, Strategies
<1> QED
  BY <1>1, <1>3, <1>5, <1>6, <1>7 DEF Sane, Base

LEMMA DisconnectKeeps ==
    ASSUME NEW n, Base(n), NEW some \in SUBSET Clients, Proxy \notin some
    PROVE  /\ Base(Disconnect(n, some)) /\ SameBut(n, Disconnect(n, some))
           /\ OnlyActive(n) => OnlyActive(Disconnect(n, some))
           /\ \A c \in some : Disconnect(n, some).cl[c].phase # "in"
           /\ \A c \in Clients :
                 Disconnect(n, some).cl[c].phase = "in" => n.cl[c].phase = "in"
<1> DEFINE k(c) == IF c \notin some THEN n.cl[c]
                   ELSE [phase |-> CASE n.cl[c].phase \in {"login", "in"} -> "closing"
                                     [] n.cl[c].phase = "waiting"         -> "off"
                                     [] OTHER               -> n.cl[c].phase,
                         failures |-> -1]
           m == Disconnect(n, some)
<1>1. ASSUME NEW c \in Clients
      PROVE  /\ k(c) \in ClientStates /\ k(c).failures \in -1 .. Enough(c)
             /\ c \in some => k(c).phase # "in"
             /\ c \notin some => k(c) = n.cl[c]
             /\ n.cl[c].phase = "off" => k(c).phase = "off"
  <2>1. n.cl[c] \in ClientStates /\ n.cl[c].failures \in -1 .. Enough(c)
    BY DEF Sane, Base, Net, Counted
  <2>2. CASE c \notin some
    BY <2>1, <2>2
  <2>3. CASE c \in some
    <3>1. -1 \in -1 .. Enough(c) /\ -1 \in -1 .. Retries
      BY EnoughIs, PoolsAssumption
    <3>2. n.cl[c].phase \in {"off", "lookup", "login", "in", "closing", "waiting"}
      BY <2>1 DEF ClientStates
    <3> QED
      BY <2>3, <3>1, <3>2 DEF ClientStates
  <2> QED
    BY <2>2, <2>3
<1>2. m = [n EXCEPT !.cl = [c \in Clients |-> k(c)]]
  BY DEF Disconnect
<1> HIDE DEF k
<1>3. m \in Net /\ SameBut(n, m) /\ m.cl = [c \in Clients |-> k(c)]
  BY <1>1, <1>2 DEF Sane, Base, Net, SameBut
<1> HIDE DEF m
<1>4. \A c \in Clients : m.cl[c] = k(c)
  BY <1>3
<1>5. Counted(m) /\ Chosen(m) /\ Indexed(m.miner) /\ Timed(m)
  BY <1>1, <1>3, <1>4 DEF Sane, Base, SameBut, Counted, Chosen, Indexed, Timed
<1>6. OnlyActive(n) => OnlyActive(m)
  BY <1>1, <1>3, <1>4, OfStrategy DEF SameBut, OnlyActive, OnlyActiveOf
<1>7. ProxyOrPools(m)
  BY <1>1, <1>3, <1>4, OfStrategy, ProxyIs
  DEF Sane, Base, SameBut, ProxyOrPools, Strategies
<1> QED
  BY <1>1, <1>3, <1>4, <1>5, <1>6, <1>7 DEF Sane, Base, m

(* What a call leaves alone that only changes the miner                       *)
SameClients(n, m) == m.cl = n.cl /\ m.strat = n.strat /\ m.donate = n.donate

LEMMA MinerKeeps ==
    ASSUME NEW n, Sane(n), NEW m \in Net, SameClients(n, m), Indexed(m.miner)
    PROVE  Sane(m)
BY DEF Sane, Base, SameClients, Counted, Chosen, OnlyActive, OnlyActiveOf,
       ProxyOrPools, Timed

LEMMA MinerPauseKeeps ==
    ASSUME NEW n, Sane(n)
    PROVE  /\ Sane(MinerPause(n)) /\ SameClients(n, MinerPause(n))
           /\ ~MinerPause(n).miner.active
<1> DEFINE m == MinerPause(n)
<1>1. /\ m \in Net /\ SameClients(n, m) /\ m.miner.active = FALSE
      /\ m.miner.index = n.miner.index /\ m.miner.from = n.miner.from
  BY DEF MinerPause, Sane, Base, Net, SameClients
<1>2. Indexed(m.miner)
  BY <1>1 DEF Sane, Base, Indexed
<1> QED
  BY <1>1, <1>2, MinerKeeps

LEMMA MinerJobKeeps ==
    ASSUME NEW n, Sane(n), NEW i \in {0, 1}, NEW c \in Clients,
           i = IF c[1] = "user" THEN 0 ELSE 1
    PROVE  /\ Sane(MinerJob(n, i, c)) /\ SameClients(n, MinerJob(n, i, c))
           /\ MinerJob(n, i, c).miner = [active |-> TRUE, index |-> i, from |-> c]
<1> DEFINE m == MinerJob(n, i, c)
<1>1. /\ m \in Net /\ SameClients(n, m)
      /\ m.miner = [active |-> TRUE, index |-> i, from |-> c]
  BY DEF MinerJob, Sane, Base, Net, SameClients
<1>2. Indexed(m.miner)
  BY <1>1 DEF Indexed
<1> QED
  BY <1>1, <1>2, MinerKeeps

-----------------------------------------------------------------------------
(* Network                                                                    *)

(* A user's job is put aside while a donation is on; one that is not belongs  *)
(* to a strategy that is active.                                              *)
LEMMA NetworkJobKeeps ==
    ASSUME NEW n, Sane(n), NEW s, NEW c \in Clients,
           s = "user" <=> c[1] = "user",
           IF s = "user" THEN IsActive(n, "user") ELSE n.donate.state = "ACTIVE"
    PROVE  /\ Sane(NetworkJob(n, s, c)) /\ SameClients(n, NetworkJob(n, s, c))
           /\ Live(n) => Live(NetworkJob(n, s, c))
           /\ n.donate.state # "ACTIVE" => Live(NetworkJob(n, s, c))
<1> DEFINE i == IF s = "user" THEN 0 ELSE 1
<1>1. CASE s = "user" /\ n.donate.state = "ACTIVE"
  BY <1>1 DEF NetworkJob, SameClients
<1>2. CASE ~(s = "user" /\ n.donate.state = "ACTIVE")
  <2>1. NetworkJob(n, s, c) = MinerJob(n, i, c)
    BY <1>2 DEF NetworkJob
  <2>2. /\ Sane(MinerJob(n, i, c)) /\ SameClients(n, MinerJob(n, i, c))
        /\ MinerJob(n, i, c).miner = [active |-> TRUE, index |-> i, from |-> c]
    BY MinerJobKeeps
  <2>3. Live(MinerJob(n, i, c))
    BY <2>2 DEF Live, SameClients, IsActive
  <2> QED
    BY <2>1, <2>2, <2>3
<1> QED
  BY <1>1, <1>2

LEMMA ActiveUser ==
    ASSUME NEW n, Sane(n), IsActive(n, "user")
    PROVE  /\ <<"user", n.strat["user"].active>> \in Clients
           /\ <<"user", n.strat["user"].active>>[1] = "user"
BY OfStrategy DEF Sane, Base, Chosen, IsActive, Strategies

LEMMA ResumeKeeps ==
    ASSUME NEW n, Sane(n)
    PROVE  /\ Sane(Resume(n)) /\ SameClients(n, Resume(n))
           /\ IsActive(n, "user") /\ n.donate.state # "ACTIVE" => Live(Resume(n))
<1>1. CASE IsActive(n, "user")
  BY <1>1, ActiveUser, NetworkJobKeeps DEF Resume
<1>2. CASE ~IsActive(n, "user")
  BY <1>2 DEF Resume, SameClients
<1> QED
  BY <1>1, <1>2

(* A pause leaves the miner with a job that lives, or paused.                 *)
LEMMA NetworkPauseKeeps ==
    ASSUME NEW n, Sane(n), NEW s \in Strategies
    PROVE  /\ Sane(NetworkPause(n, s)) /\ SameClients(n, NetworkPause(n, s))
           /\ \/ Live(n) \/ ~IsActive(n, "user")
              \/ s = "donate" /\ n.donate.state # "ACTIVE"
              => Live(NetworkPause(n, s))
<1> DEFINE r == IF s = "donate" THEN Resume(n) ELSE n
<1>1. Sane(r) /\ SameClients(n, r)
  BY ResumeKeeps DEF SameClients
<1>2. IsActive(r, "user") <=> IsActive(n, "user")
  BY <1>1 DEF SameClients, IsActive
<1>3. CASE IsActive(n, "user")
  <2>1. NetworkPause(n, s) = r
    BY <1>2, <1>3 DEF NetworkPause
  <2>2. Live(n) => Live(r)
    <3>1. CASE s = "donate"
      BY <1>3, <3>1, ActiveUser, NetworkJobKeeps DEF Resume
    <3>2. CASE s # "donate"
      BY <3>2
    <3> QED
      BY <3>1, <3>2
  <2>3. s = "donate" /\ n.donate.state # "ACTIVE" => Live(r)
    BY <1>3, ResumeKeeps
  <2> QED
    BY <1>1, <1>3, <2>1, <2>2, <2>3
<1>4. CASE ~IsActive(n, "user")
  <2>1. NetworkPause(n, s) = MinerPause(r)
    BY <1>2, <1>4 DEF NetworkPause
  <2>2. Sane(MinerPause(r)) /\ SameClients(r, MinerPause(r)) /\ Live(MinerPause(r))
    BY <1>1, MinerPauseKeeps DEF Live
  <2>3. SameClients(n, MinerPause(r))
    BY <1>1, <2>2 DEF SameClients
  <2> QED
    BY <2>1, <2>2, <2>3
<1> QED
  BY <1>3, <1>4

LEMMA ListenerPauseKeeps ==
    ASSUME NEW n, Sane(n), NEW s \in Strategies
    PROVE  /\ Sane(ListenerPause(n, s)) /\ SameClients(n, ListenerPause(n, s))
           /\ Live(n) \/ (s = "user" /\ ~IsActive(n, "user"))
                => Live(ListenerPause(n, s))
BY NetworkPauseKeeps DEF ListenerPause, SameClients, Strategies

-----------------------------------------------------------------------------
(* Strategies                                                                 *)

Choice == [index : {0, 1}, active : {-1, 0, 1}]

Choose(n, s, k) == [n EXCEPT !.strat[s] = k]

LEMMA ChoiceKeeps ==
    ASSUME NEW n, Base(n), NEW s \in Strategies, NEW k \in Choice,
           \A t \in Strategies : t # s => OnlyActiveOf(n, t),
           <<s, k.index>> \in ClientsOf(s),
           k.active # -1 => <<s, k.active>> \in ClientsOf(s),
           \A c \in ClientsOf(s) : n.cl[c].phase = "in" => k.active = c[2]
    PROVE  LET m == Choose(n, s, k)
           IN  /\ Sane(m)
               /\ m.cl = n.cl /\ m.donate = n.donate /\ m.miner = n.miner
               /\ m.strat[s] = k
               /\ \A t \in Strategies : t # s => m.strat[t] = n.strat[t]
<1> DEFINE m == Choose(n, s, k)
<1>1. /\ m \in Net /\ m.cl = n.cl /\ m.donate = n.donate /\ m.miner = n.miner
      /\ m.strat = [n.strat EXCEPT ![s] = k]
  BY DEF Sane, Base, Net, Choice, Choose
<1>2. \A t \in Strategies : m.strat[t] = IF t = s THEN k ELSE n.strat[t]
  BY <1>1 DEF Sane, Base, Net
<1> HIDE DEF m
<1>3. Sane(m)
  BY <1>1, <1>2 DEF Sane, Base, Counted, Chosen, OnlyActive, OnlyActiveOf,
                    ProxyOrPools, Timed, Indexed
<1> QED
  BY <1>1, <1>2, <1>3 DEF m

(* stop() ends every session of the strategy; when it is the user's failover  *)
(* strategy the miner pauses.                                                 *)
LEMMA StopKeeps ==
    ASSUME NEW n, Sane(n), NEW s \in Strategies
    PROVE  LET m == StopStrategy(n, s)
           IN  /\ Sane(m) /\ m.donate = n.donate
               /\ \A c \in ClientsOf(s) : m.cl[c].phase # "in"
               /\ Live(n) => Live(m)
               /\ s = "user" /\ ~Single(s) => Live(m) /\ ~IsActive(m, s)
<1> DEFINE d == Disconnect(n, ClientsOf(s))
           m == StopStrategy(n, s)
<1>1. /\ Sane(d) /\ SameBut(n, d)
      /\ \A c \in ClientsOf(s) : d.cl[c].phase # "in"
  BY DisconnectKeeps, OfStrategy, ProxyIs DEF Sane
<1>2. Live(n) => Live(d)
  BY <1>1 DEF SameBut, Live, IsActive
<1> HIDE DEF d
<1>3. CASE Single(s)
  <2>1. m = d
    BY <1>3 DEF StopStrategy, d
  <2> QED
    BY <1>1, <1>2, <1>3, <2>1 DEF SameBut
<1>4. CASE ~Single(s)
  <2> DEFINE r == Choose(d, s, NewStrategy)
  <2>1. m = ListenerPause(r, s)
    BY <1>4 DEF StopStrategy, d, Choose
  <2>2. NewStrategy.active = -1
    BY DEF NewStrategy
  <2>9. /\ NewStrategy \in Choice /\ <<s, NewStrategy.index>> \in ClientsOf(s)
        /\ NewStrategy.active # -1 => <<s, NewStrategy.active>> \in ClientsOf(s)
        /\ \A c \in ClientsOf(s) : d.cl[c].phase = "in" => NewStrategy.active = c[2]
    BY <1>1, <2>2, FirstPool DEF NewStrategy, Choice
  <2>3. /\ Sane(r) /\ r.cl = d.cl /\ r.donate = d.donate /\ r.miner = d.miner
        /\ r.strat[s] = NewStrategy
        /\ \A t \in Strategies : t # s => r.strat[t] = d.strat[t]
    BY <1>1, <2>9, ChoiceKeeps DEF Sane, OnlyActive
  <2> HIDE DEF r
  <2>4. s = "user" => ~IsActive(r, s)
    BY <2>2, <2>3 DEF IsActive
  <2>5. s = "donate" => IsActive(r, "user") = IsActive(d, "user")
    BY <2>3 DEF IsActive, Strategies
  <2>6. s = "donate" /\ Live(n) => Live(r)
    BY <1>2, <2>3, <2>5 DEF Live
  <2>7. Sane(m) /\ SameClients(r, m)
    BY <2>1, <2>3, ListenerPauseKeeps
  <2>8. (s = "user" \/ Live(n)) => Live(m)
    BY <2>1, <2>3, <2>4, <2>6, ListenerPauseKeeps DEF Strategies
  <2> HIDE DEF m
  <2> QED
    BY <1>1, <2>3, <2>4, <2>7, <2>8 DEF SameClients, SameBut, IsActive, m
<1> QED
  BY <1>3, <1>4

(* onClose(): the session that was active is over.                            *)
LEMMA StrategyCloseKeeps ==
    ASSUME NEW n, Sane(n), NEW s \in Strategies, NEW i, NEW f,
           <<s, i>> \in ClientsOf(s), n.cl[<<s, i>>].phase # "in",
           s = "donate" => ~n.donate.proxy
    PROVE  LET m == StrategyClose(n, s, i, f)
           IN  Sane(m) /\ m.donate = n.donate /\ (Live(n) => Live(m))
<1> DEFINE k      == [n.strat[s] EXCEPT !.active = -1]
           gone   == [n EXCEPT !.strat[s].active = -1]
           paused == IF n.strat[s].active = i THEN ListenerPause(gone, s) ELSE n
<1>1. Sane(paused) /\ paused.donate = n.donate /\ (Live(n) => Live(paused))
  <2>1. CASE n.strat[s].active # i
    BY <2>1
  <2>2. CASE n.strat[s].active = i
    <3>1. k \in Choice /\ k.active = -1 /\ k.index = n.strat[s].index
      BY DEF Sane, Base, Net, Choice
    <3>2. gone = Choose(n, s, k)
      BY DEF Choose
    <3> HIDE DEF k, gone
    <3>3. \A c \in ClientsOf(s) : n.cl[c].phase # "in"
      BY <2>2, OfStrategy DEF Sane, Base, OnlyActive, OnlyActiveOf
    <3>8. /\ k \in Choice /\ <<s, k.index>> \in ClientsOf(s)
          /\ k.active # -1 => <<s, k.active>> \in ClientsOf(s)
          /\ \A c \in ClientsOf(s) : n.cl[c].phase = "in" => k.active = c[2]
      BY <3>1, <3>3 DEF Sane, Base, Chosen
    <3>4. /\ Sane(gone) /\ gone.donate = n.donate /\ gone.miner = n.miner
          /\ gone.strat[s] = k
          /\ \A t \in Strategies : t # s => gone.strat[t] = n.strat[t]
      BY <3>2, <3>8, ChoiceKeeps DEF Sane, OnlyActive
    <3>5. s = "user" => ~IsActive(gone, "user")
      BY <3>1, <3>4 DEF IsActive
    <3>6. s = "donate" /\ Live(n) => Live(gone)
      BY <3>4 DEF Live, IsActive, Strategies
    <3>7. /\ Sane(ListenerPause(gone, s))
          /\ SameClients(gone, ListenerPause(gone, s))
          /\ Live(n) => Live(ListenerPause(gone, s))
      BY <3>4, <3>5, <3>6, ListenerPauseKeeps DEF Strategies
    <3> QED
      BY <2>2, <3>4, <3>7 DEF SameClients
  <2> QED
    BY <2>1, <2>2
<1> DEFINE j    == n.strat[s].index + 1
           next == [paused EXCEPT !.strat[s].index = j]
<1>2. \/ StrategyClose(n, s, i, f) \in {paused, n}
      \/ /\ <<s, j>> \in ClientsOf(s)
         /\ StrategyClose(n, s, i, f) = Connect(next, <<s, j>>)
  BY DEF StrategyClose
<1> HIDE DEF paused, gone, k
<1>3. ASSUME <<s, j>> \in ClientsOf(s),
             StrategyClose(n, s, i, f) = Connect(next, <<s, j>>)
      PROVE  LET m == StrategyClose(n, s, i, f)
             IN  Sane(m) /\ m.donate = n.donate /\ (Live(n) => Live(m))
  <2> DEFINE p == [paused.strat[s] EXCEPT !.index = j]
  <2>1. j \in {0, 1} /\ <<s, j>> \in Clients /\ <<s, j>> # Proxy
    BY <1>3, OfStrategy
  <2>2. p \in Choice /\ p.active = paused.strat[s].active /\ p.index = j
    BY <1>1, <2>1 DEF Sane, Base, Net, Choice
  <2>3. next = Choose(paused, s, p)
    BY DEF Choose
  <2>4. \A c \in ClientsOf(s) : paused.cl[c].phase = "in" => p.active = c[2]
    BY <1>1, <2>2 DEF Sane, Base, OnlyActive, OnlyActiveOf
  <2>5. p.active # -1 => <<s, p.active>> \in ClientsOf(s)
    BY <1>1, <2>2 DEF Sane, Base, Chosen
  <2> HIDE DEF p, next, j
  <2>6. /\ Sane(next) /\ next.donate = paused.donate /\ next.miner = paused.miner
        /\ next.strat[s] = p
        /\ \A t \in Strategies : t # s => next.strat[t] = paused.strat[t]
    BY <1>1, <1>3, <2>2, <2>3, <2>4, <2>5, ChoiceKeeps DEF Sane, OnlyActive
  <2>7. Live(paused) => Live(next)
    BY <2>2, <2>6 DEF Live, IsActive, Strategies
  <2>8. <<s, j>> \in ClientsOf("donate") => ~next.donate.proxy
    BY <1>1, <1>3, <2>6, OneOfTwo DEF Strategies
  <2>9. Sane(Connect(next, <<s, j>>)) /\ SameBut(next, Connect(next, <<s, j>>))
    BY <2>1, <2>6, <2>8, ConnectKeeps
  <2> QED
    BY <1>1, <1>3, <2>6, <2>7, <2>9 DEF SameBut, Live, IsActive
<1> QED
  BY <1>1, <1>2, <1>3

-----------------------------------------------------------------------------
(* The donation                                                               *)

Donation == [state : {"IDLE", "CONNECT", "ACTIVE", "WAIT"},
             timer : BOOLEAN, proxy : BOOLEAN]

Donate(n, k) == [n EXCEPT !.donate = k]

(* The proxy's client is deleted.                                             *)
Delete(n, k) == [n EXCEPT !.donate = k, !.cl[Proxy] = NewClient]

LEMMA DonateKeeps ==
    ASSUME NEW n, Sane(n), NEW k \in Donation,
           k.timer => k.state \in {"IDLE", "ACTIVE"},
           IF k.proxy THEN \A c \in ClientsOf("donate") : n.cl[c].phase = "off"
           ELSE n.cl[Proxy].phase = "off"
    PROVE  LET m == Donate(n, k)
           IN  /\ Sane(m) /\ m.donate = k
               /\ m.cl = n.cl /\ m.strat = n.strat /\ m.miner = n.miner
<1> DEFINE m == Donate(n, k)
<1>1. /\ m \in Net /\ m.donate = k
      /\ m.cl = n.cl /\ m.strat = n.strat /\ m.miner = n.miner
  BY DEF Sane, Base, Net, Donation, Donate
<1> HIDE DEF m
<1>2. Sane(m)
  BY <1>1 DEF Sane, Base, Counted, Chosen, OnlyActive, OnlyActiveOf,
              ProxyOrPools, Timed, Indexed
<1> QED
  BY <1>1, <1>2 DEF m

LEMMA DeleteKeeps ==
    ASSUME NEW n, Sane(n), NEW k \in Donation, ~k.proxy,
           k.timer => k.state \in {"IDLE", "ACTIVE"}
    PROVE  LET m == Delete(n, k)
           IN  /\ Sane(m) /\ m.donate = k
               /\ m.strat = n.strat /\ m.miner = n.miner
               /\ \A c \in Clients : c # Proxy => m.cl[c] = n.cl[c]
<1> DEFINE m == Delete(n, k)
<1>1. NewClient \in ClientStates /\ NewClient.failures = 0
        /\ NewClient.phase = "off"
  BY PoolsAssumption DEF NewClient, ClientStates
<1>2. /\ m \in Net /\ m.donate = k /\ m.strat = n.strat /\ m.miner = n.miner
      /\ m.cl = [n.cl EXCEPT ![Proxy] = NewClient]
  BY <1>1, ProxyIs DEF Sane, Base, Net, Donation, Delete
<1>3. \A c \in Clients : m.cl[c] = IF c = Proxy THEN NewClient ELSE n.cl[c]
  BY <1>2 DEF Sane, Base, Net
<1> HIDE DEF m
<1>4. Counted(m) /\ Chosen(m) /\ Timed(m) /\ Indexed(m.miner)
  BY <1>1, <1>2, <1>3, EnoughIs DEF Sane, Base, Counted, Chosen, Timed, Indexed
<1>5. OnlyActive(m) /\ ProxyOrPools(m)
  BY <1>1, <1>2, <1>3, OfStrategy, ProxyIs
  DEF Sane, OnlyActive, OnlyActiveOf, ProxyOrPools
<1> QED
  BY <1>2, <1>3, <1>4, <1>5 DEF Sane, Base, m

LEMMA ConnectStrategyKeeps ==
    ASSUME NEW n, Sane(n), NEW s \in Strategies, s = "donate" => ~n.donate.proxy
    PROVE  Sane(ConnectStrategy(n, s)) /\ SameBut(n, ConnectStrategy(n, s))
<1> DEFINE c == <<s, n.strat[s].index>>
<1>1. c \in ClientsOf(s)
  BY DEF Sane, Base, Chosen
<1>2. c \in Clients /\ c # Proxy /\ (c \in ClientsOf("donate") => s = "donate")
  BY <1>1, OfStrategy, OneOfTwo DEF Strategies
<1> HIDE DEF c
<1>3. Sane(Connect(n, c)) /\ SameBut(n, Connect(n, c))
  BY <1>2, ConnectKeeps
<1> QED
  BY <1>3 DEF ConnectStrategy, c

(* setState(IDLE) ends the donation that waits.                               *)
LEMMA SetIdleKeeps ==
    ASSUME NEW n, Sane(n), n.donate.state = "WAIT", NEW offered
    PROVE  LET m == SetState(n, "IDLE", offered)
           IN  Sane(m) /\ NoIdleProxy(m) /\ (Live(n) => Live(m))
<1> DEFINE k == [n.donate EXCEPT !.state = "IDLE"]
           m == Donate(n, k)
           d == StopStrategy(m, "donate")
           l == [d.donate EXCEPT !.timer = TRUE, !.proxy = FALSE]
<1>1. k \in Donation /\ k.state = "IDLE" /\ k.proxy = n.donate.proxy
  BY DEF Sane, Base, Net, Donation
<1>2. IF k.proxy THEN \A c \in ClientsOf("donate") : n.cl[c].phase = "off"
      ELSE n.cl[Proxy].phase = "off"
  BY <1>1 DEF Sane, Base, ProxyOrPools
<1>3. /\ Sane(m) /\ m.donate = k
      /\ m.cl = n.cl /\ m.strat = n.strat /\ m.miner = n.miner
  BY <1>1, <1>2, DonateKeeps
<1>4. SetState(n, "IDLE", offered)
        = [d EXCEPT !.donate.timer = TRUE, !.donate.proxy = FALSE,
                    !.cl[Proxy] = NewClient]
  BY DEF SetState, Donate
<1>5. Live(n) => Live(m)
  BY <1>3 DEF Live, IsActive
<1> HIDE DEF m, k
<1>6. Sane(d) /\ d.donate = m.donate /\ (Live(m) => Live(d))
  BY <1>3, StopKeeps DEF Strategies
<1> HIDE DEF d
<1>7. /\ l \in Donation /\ ~l.proxy /\ l.state = "IDLE"
  BY <1>1, <1>3, <1>6 DEF Donation
<1>8. SetState(n, "IDLE", offered) = Delete(d, l)
  BY <1>4, <1>6 DEF Delete, Sane, Base, Net
<1> HIDE DEF l
<1>9. /\ Sane(Delete(d, l)) /\ Delete(d, l).donate = l
      /\ Delete(d, l).strat = d.strat /\ Delete(d, l).miner = d.miner
  BY <1>6, <1>7, DeleteKeeps
<1>10. Live(d) => Live(Delete(d, l))
  BY <1>1, <1>3, <1>6, <1>9 DEF Live, IsActive
<1> QED
  BY <1>5, <1>6, <1>7, <1>8, <1>9, <1>10 DEF NoIdleProxy

(* setState(CONNECT): the donation's own pools are at rest.                   *)
LEMMA SetConnectKeeps ==
    ASSUME NEW n, Sane(n), ~n.donate.timer, n.donate.state = "IDLE",
           ~n.donate.proxy, NEW offered,
           \A c \in ClientsOf("donate") : n.cl[c].phase = "off"
    PROVE  LET m == SetState(n, "CONNECT", offered)
           IN  Sane(m) /\ NoIdleProxy(m) /\ (Live(n) => Live(m))
<1> DEFINE k(b) == [n.donate EXCEPT !.state = "CONNECT", !.proxy = b]
           m(b) == Donate(n, k(b))
<1>1. \A b \in BOOLEAN : /\ k(b) \in Donation /\ k(b).state = "CONNECT"
                         /\ k(b).proxy = b /\ k(b).timer = FALSE
  BY DEF Sane, Base, Net, Donation
<1>2. \/ SetState(n, "CONNECT", offered) = Connect(m(TRUE), Proxy)
      \/ SetState(n, "CONNECT", offered) = ConnectStrategy(m(FALSE), "donate")
  BY DEF SetState, Donate
<1> HIDE DEF k
<1>3. n.cl[Proxy].phase = "off"
  BY DEF Sane, Base, ProxyOrPools
<1>4. \A b \in BOOLEAN : /\ Sane(m(b)) /\ m(b).donate = k(b)
                         /\ m(b).strat = n.strat /\ m(b).miner = n.miner
  BY <1>1, <1>3, DonateKeeps
<1> HIDE DEF m
<1>5. \A b \in BOOLEAN : m(b).donate.proxy = b /\ m(b).donate.state = "CONNECT"
                           /\ (Live(n) => Live(m(b)))
  BY <1>1, <1>4 DEF Live, IsActive
<1>6. /\ Sane(Connect(m(TRUE), Proxy)) /\ SameBut(m(TRUE), Connect(m(TRUE), Proxy))
  BY <1>4, <1>5, ProxyIs, ConnectKeeps DEF Strategies
<1>7. /\ Sane(ConnectStrategy(m(FALSE), "donate"))
      /\ SameBut(m(FALSE), ConnectStrategy(m(FALSE), "donate"))
  BY <1>4, <1>5, ConnectStrategyKeeps DEF Strategies
<1> QED
  BY <1>2, <1>5, <1>6, <1>7 DEF SameBut, Live, IsActive, NoIdleProxy

(* setState(ACTIVE)                                                           *)
LEMMA SetActiveKeeps ==
    ASSUME NEW n, Sane(n), NEW offered
    PROVE  LET m == SetState(n, "ACTIVE", offered)
           IN  /\ Sane(m) /\ NoIdleProxy(m) /\ (Live(n) => Live(m))
               /\ m.cl = n.cl /\ m.strat = n.strat
<1> DEFINE k == [n.donate EXCEPT !.state = "ACTIVE", !.timer = TRUE]
<1>1. k \in Donation /\ k.state = "ACTIVE" /\ k.proxy = n.donate.proxy
  BY DEF Sane, Base, Net, Donation
<1>2. IF k.proxy THEN \A c \in ClientsOf("donate") : n.cl[c].phase = "off"
      ELSE n.cl[Proxy].phase = "off"
  BY <1>1 DEF Sane, Base, ProxyOrPools
<1>3. SetState(n, "ACTIVE", offered) = Donate(n, k)
  BY DEF SetState, Donate
<1> HIDE DEF k
<1>4. /\ Sane(Donate(n, k)) /\ Donate(n, k).donate = k
      /\ Donate(n, k).cl = n.cl /\ Donate(n, k).strat = n.strat
      /\ Donate(n, k).miner = n.miner
  BY <1>1, <1>2, DonateKeeps
<1> QED
  BY <1>1, <1>3, <1>4 DEF Live, IsActive, NoIdleProxy

(* setState(WAIT): the user's job is back, or mining pauses.                  *)
LEMMA SetWaitKeeps ==
    ASSUME NEW n, Sane(n), ~n.donate.timer, NEW offered
    PROVE  LET m == SetState(n, "WAIT", offered)
           IN  Sane(m) /\ NoIdleProxy(m) /\ Live(m)
<1> DEFINE k == [n.donate EXCEPT !.state = "WAIT"]
           m == Donate(n, k)
<1>1. /\ k \in Donation /\ k.state = "WAIT" /\ k.proxy = n.donate.proxy
      /\ k.timer = FALSE
  BY DEF Sane, Base, Net, Donation
<1>2. IF k.proxy THEN \A c \in ClientsOf("donate") : n.cl[c].phase = "off"
      ELSE n.cl[Proxy].phase = "off"
  BY <1>1 DEF Sane, Base, ProxyOrPools
<1>3. SetState(n, "WAIT", offered) = NetworkPause(m, "donate")
  BY DEF SetState, Donate
<1> HIDE DEF k
<1>4. Sane(m) /\ m.donate = k
  BY <1>1, <1>2, DonateKeeps
<1> HIDE DEF m
<1>5. /\ Sane(NetworkPause(m, "donate")) /\ SameClients(m, NetworkPause(m, "donate"))
      /\ Live(NetworkPause(m, "donate"))
  BY <1>1, <1>4, NetworkPauseKeeps DEF Strategies
<1> QED
  BY <1>1, <1>3, <1>4, <1>5 DEF SameClients, NoIdleProxy

LEMMA DonateLoginKeeps ==
    ASSUME NEW n, Sane(n), NoIdleProxy(n)
    PROVE  LET m == DonateLogin(n)
           IN  /\ Sane(m) /\ NoIdleProxy(m) /\ (Live(n) => Live(m))
               /\ m.cl = n.cl /\ m.strat = n.strat
BY SetActiveKeeps DEF DonateLogin

(* The proxy that failed gives way to a pool.                                 *)
LEMMA ProxyCloseKeeps ==
    ASSUME NEW n, Sane(n), NoIdleProxy(n), NEW failures
    PROVE  LET m == ProxyClose(n, failures)
           IN  Sane(m) /\ NoIdleProxy(m) /\ (Live(n) => Live(m))
<1> DEFINE k == [n.donate EXCEPT !.proxy = FALSE]
           d == Delete(n, k)
<1>1. /\ k \in Donation /\ ~k.proxy /\ k.state = n.donate.state
      /\ k.timer = n.donate.timer
  BY DEF Sane, Base, Net, Donation
<1>2. ProxyClose(n, failures) \in {n, ConnectStrategy(d, "donate")}
  BY DEF ProxyClose, Delete, Sane, Base, Net
<1> HIDE DEF k
<1>3. /\ Sane(d) /\ d.donate = k /\ d.strat = n.strat /\ d.miner = n.miner
  BY <1>1, DeleteKeeps DEF Sane, Base, Timed
<1> HIDE DEF d
<1>4. /\ Sane(ConnectStrategy(d, "donate"))
      /\ SameBut(d, ConnectStrategy(d, "donate"))
  BY <1>1, <1>3, ConnectStrategyKeeps DEF Strategies
<1>5. /\ NoIdleProxy(ConnectStrategy(d, "donate"))
      /\ Live(n) => Live(ConnectStrategy(d, "donate"))
  BY <1>1, <1>3, <1>4 DEF SameBut, NoIdleProxy, Live, IsActive
<1> QED
  BY <1>2, <1>4, <1>5

-----------------------------------------------------------------------------
(* What a client tells its listener                                           *)

Phase(n, c, k) == [n EXCEPT !.cl[c] = k]

(* A client goes into another phase; whether it is a session that its         *)
(* strategy knows of is left open.                                            *)
LEMMA PhaseKeeps ==
    ASSUME NEW n, Sane(n), NEW c \in Clients, NEW k \in ClientStates,
           k.failures \in -1 .. Enough(c), n.cl[c].phase # "off"
    PROVE  LET m == Phase(n, c, k)
           IN  /\ Base(m) /\ SameBut(n, m)
               /\ \A d \in Clients : m.cl[d] = IF d = c THEN k ELSE n.cl[d]
               /\ k.phase # "in" => Sane(m)
<1> DEFINE m == Phase(n, c, k)
<1>1. m \in Net /\ SameBut(n, m) /\ m.cl = [n.cl EXCEPT ![c] = k]
  BY DEF Sane, Base, Net, SameBut, Phase
<1>2. \A d \in Clients : m.cl[d] = IF d = c THEN k ELSE n.cl[d]
  BY <1>1 DEF Sane, Base, Net
<1> HIDE DEF m
<1>3. Counted(m) /\ Chosen(m) /\ Timed(m) /\ Indexed(m.miner)
  BY <1>1, <1>2 DEF SameBut, Sane, Base, Counted, Chosen, Timed, Indexed
<1>4. ProxyOrPools(m)
  <2>1. CASE n.donate.proxy
    <3>1. c \notin ClientsOf("donate")
      BY <2>1 DEF Sane, Base, ProxyOrPools
    <3> QED
      BY <1>1, <1>2, <2>1, <3>1, OfStrategy
      DEF SameBut, Sane, Base, ProxyOrPools, Strategies
  <2>2. CASE ~n.donate.proxy
    <3>1. c # Proxy
      BY <2>2 DEF Sane, Base, ProxyOrPools
    <3> QED
      BY <1>1, <1>2, <2>2, <3>1, ProxyIs DEF SameBut, Sane, Base, ProxyOrPools
  <2> QED
    BY <2>1, <2>2
<1>5. k.phase # "in" => OnlyActive(m)
  BY <1>1, <1>2, OfStrategy DEF SameBut, Sane, OnlyActive, OnlyActiveOf
<1> QED
  BY <1>1, <1>2, <1>3, <1>4, <1>5 DEF Base, Sane, m

LEMMA ClientCloseKeeps ==
    ASSUME NEW n, Sane(n), NoIdleProxy(n), NEW c \in Clients,
           n.cl[c].phase # "off"
    PROVE  LET m == ClientClose(n, c)
           IN  Sane(m) /\ NoIdleProxy(m) /\ (Live(n) => Live(m))
<1> DEFINE f == IF n.cl[c].failures \in {-1, Enough(c)} THEN n.cl[c].failures
                ELSE n.cl[c].failures + 1
           k == [phase |-> IF f = -1 THEN "off" ELSE "waiting", failures |-> f]
           m == Phase(n, c, k)
<1>1. f \in -1 .. Enough(c)
  BY EnoughIs DEF Sane, Base, Counted
<1>2. Enough(c) <= Retries
  BY PoolsAssumption DEF Enough
<1>3. ClientClose(n, c) = IF c[1] = "proxy" THEN ProxyClose(m, f)
                          ELSE StrategyClose(m, c[1], c[2], f)
  BY DEF ClientClose, Phase
<1> HIDE DEF f
<1>4. k \in ClientStates /\ k.failures = f /\ k.phase # "in"
  BY <1>1, <1>2, EnoughIs, PoolsAssumption DEF ClientStates
<1> HIDE DEF k
<1>5. Sane(m) /\ SameBut(n, m) /\ m.cl[c] = k
  BY <1>1, <1>4, PhaseKeeps
<1>6. NoIdleProxy(m) /\ (Live(n) => Live(m))
  BY <1>5 DEF SameBut, NoIdleProxy, Live, IsActive
<1> HIDE DEF m
<1>7. CASE c = Proxy
  BY <1>3, <1>5, <1>6, <1>7, ProxyIs, ProxyCloseKeeps
<1>8. CASE c[1] \in Strategies /\ c \in ClientsOf(c[1])
  <2>1. c = <<c[1], c[2]>> /\ c[1] # "proxy"
    BY <1>8, OfStrategy DEF Strategies
  <2>2. c[1] = "donate" => ~m.donate.proxy
    BY <1>5, <1>8 DEF SameBut, Sane, Base, ProxyOrPools
  <2>3. <<c[1], c[2]>> \in ClientsOf(c[1]) /\ m.cl[<<c[1], c[2]>>].phase # "in"
    BY <1>4, <1>5, <1>8, <2>1
  <2>4. LET r == StrategyClose(m, c[1], c[2], f)
        IN  Sane(r) /\ r.donate = m.donate /\ (Live(m) => Live(r))
    BY <1>5, <1>8, <2>2, <2>3, StrategyCloseKeeps
  <2> QED
    BY <1>3, <1>6, <2>1, <2>4 DEF NoIdleProxy
<1> QED
  BY <1>7, <1>8, AnyClient

LEMMA ClientJobKeeps ==
    ASSUME NEW n, Sane(n), NEW c \in Clients,
           c \in ClientsOf("user") /\ Single("user") => IsActive(n, "user")
    PROVE  /\ Sane(ClientJob(n, c)) /\ SameClients(n, ClientJob(n, c))
           /\ Live(n) => Live(ClientJob(n, c))
<1>1. c = Proxy => c[1] # "user"
  BY ProxyIs
<1>2. c[1] = "user" => c \in ClientsOf("user")
  BY AnyClient, ProxyIs
<1>3. CASE c[1] = "user"
  <2>1. IsActive(n, "user") \/ ClientJob(n, c) = n
    <3>1. CASE Single("user")
      BY <1>2, <1>3, <3>1
    <3>2. CASE ~Single("user") /\ n.strat["user"].active # c[2]
      BY <1>1, <1>3, <3>2 DEF ClientJob
    <3>3. CASE n.strat["user"].active = c[2]
      BY <1>2, <1>3, <3>3, OfStrategy DEF IsActive, Strategies
    <3> QED
      BY <3>1, <3>2, <3>3
  <2>2. ClientJob(n, c) \in {n, NetworkJob(n, "user", c)}
    BY <1>1, <1>3 DEF ClientJob
  <2> QED
    BY <1>3, <2>1, <2>2, NetworkJobKeeps DEF SameClients
<1>4. CASE c[1] # "user"
  <2>1. ClientJob(n, c) \in {n, DonateJob(n, c)}
    BY <1>4 DEF ClientJob
  <2>2. CASE n.donate.state = "ACTIVE"
    <3>1. DonateJob(n, c) = NetworkJob(n, "donate", c)
      BY <2>2 DEF DonateJob
    <3> QED
      BY <1>4, <2>1, <2>2, <3>1, NetworkJobKeeps DEF SameClients
  <2>3. CASE n.donate.state # "ACTIVE"
    BY <2>1, <2>3 DEF DonateJob, SameClients
  <2> QED
    BY <2>2, <2>3
<1> QED
  BY <1>3, <1>4

(* onLoginSuccess(): whichever pool logs in, one session is left.             *)
LEMMA StrategyLoginKeeps ==
    ASSUME NEW n, Base(n), NEW s \in Strategies, NEW i,
           <<s, i>> \in ClientsOf(s), n.cl[<<s, i>>].phase = "in",
           \A t \in Strategies : t # s => OnlyActiveOf(n, t),
           \A c \in ClientsOf(s) :
               c # <<s, i>> /\ n.cl[c].phase = "in" => n.strat[s].active = c[2]
    PROVE  LET m == StrategyLogin(n, s, i)
           IN  /\ Sane(m) /\ m.donate = n.donate /\ (Live(n) => Live(m))
               /\ Single(s) => IsActive(m, s)
<1> DEFINE m == StrategyLogin(n, s, i)
<1>1. CASE Single(s)
  <2> DEFINE k == [n.strat[s] EXCEPT !.active = 0]
  <2>1. k \in Choice /\ k.active = 0 /\ k.index = n.strat[s].index
    BY DEF Base, Net, Choice
  <2>2. m = Choose(n, s, k)
    BY <1>1 DEF StrategyLogin, Choose
  <2> HIDE DEF k, m
  <2>3. <<s, k.index>> \in ClientsOf(s)
    BY <2>1 DEF Base, Chosen
  <2>4. /\ k.active # -1 => <<s, k.active>> \in ClientsOf(s)
        /\ \A c \in ClientsOf(s) : n.cl[c].phase = "in" => k.active = c[2]
    BY <1>1, <2>1, FirstPool, SingleIs
  <2>5. /\ Sane(m) /\ m.donate = n.donate /\ m.miner = n.miner /\ m.strat[s] = k
        /\ \A t \in Strategies : t # s => m.strat[t] = n.strat[t]
    BY <2>1, <2>2, <2>3, <2>4, ChoiceKeeps
  <2>6. IsActive(m, s) /\ (IsActive(n, "user") => IsActive(m, "user"))
    BY <2>1, <2>5 DEF IsActive, Strategies
  <2> QED
    BY <2>5, <2>6 DEF Live, m
<1>2. CASE ~Single(s)
  <2> DEFINE was    == n.strat[s].active
             now    == IF i = 0 \/ was = -1 THEN i ELSE was
             others == {c \in ClientsOf(s) : c[2] \notin {0, now}}
             d      == Disconnect(n, others)
             k      == [index |-> now, active |-> now]
  <2>1. m = IF now = was THEN d ELSE Choose(d, s, k)
    BY <1>2 DEF StrategyLogin, Choose
  <2>2. others \in SUBSET Clients /\ Proxy \notin others
    BY OfStrategy
  <2>3. /\ Base(d) /\ SameBut(n, d)
        /\ \A c \in others : d.cl[c].phase # "in"
        /\ \A c \in Clients : d.cl[c].phase = "in" => n.cl[c].phase = "in"
    BY <2>2, DisconnectKeeps
  <2> HIDE DEF d, others
  <2>4. ASSUME NEW t \in Strategies, t # s
        PROVE  OnlyActiveOf(d, t)
    <3>1. OnlyActiveOf(n, t) /\ d.strat = n.strat
      BY <2>3, <2>4 DEF SameBut
    <3> QED
      BY <2>3, <3>1, OfStrategy DEF OnlyActiveOf
  <2>5. i \in {0, 1} /\ was \in {-1, 0, 1}
    BY OfStrategy DEF Base, Net
  <2>6. now # -1 /\ <<s, now>> \in ClientsOf(s) /\ now \in {0, 1}
    <3>1. was # -1 => <<s, was>> \in ClientsOf(s)
      BY DEF Base, Chosen
    <3> QED
      BY <2>5, <3>1
  <2>7. ASSUME NEW c \in ClientsOf(s), d.cl[c].phase = "in"
        PROVE  now = c[2]
    <3>1. c \notin others /\ n.cl[c].phase = "in"
      BY <2>3, <2>7, OfStrategy
    <3>2. c[2] \in {0, now}
      BY <3>1 DEF others
    <3>3. c = <<s, i>> \/ was = c[2]
      BY <3>1
    <3>4. c = <<s, i>> => c[2] = i
      OBVIOUS
    <3>5. c[2] \in {0, 1}
      BY OfStrategy
    <3> QED
      BY <2>5, <3>2, <3>3, <3>4, <3>5
  <2>8. CASE now = was
    <3>1. m = d
      BY <2>1, <2>8
    <3>2. OnlyActiveOf(d, s)
      BY <2>3, <2>7, <2>8 DEF OnlyActiveOf, SameBut
    <3>3. Sane(d)
      BY <2>3, <2>4, <3>2 DEF Sane, OnlyActive
    <3> QED
      BY <1>2, <2>3, <3>1, <3>3 DEF SameBut, Live, IsActive
  <2>9. CASE now # was
    <3>1. k \in Choice /\ k.index = now /\ k.active = now
      BY <2>6 DEF Choice
    <3> HIDE DEF k, now, m
    <3>2. m = Choose(d, s, k)
      BY <2>1, <2>9
    <3>3. /\ <<s, k.index>> \in ClientsOf(s)
          /\ k.active # -1 => <<s, k.active>> \in ClientsOf(s)
          /\ \A c \in ClientsOf(s) : d.cl[c].phase = "in" => k.active = c[2]
      BY <2>6, <2>7, <3>1
    <3>4. /\ Sane(m) /\ m.donate = d.donate /\ m.miner = d.miner
          /\ m.strat[s] = k
          /\ \A t \in Strategies : t # s => m.strat[t] = d.strat[t]
      BY <2>3, <2>4, <3>1, <3>2, <3>3, ChoiceKeeps
    <3>5. IsActive(n, "user") => IsActive(m, "user")
      BY <2>3, <2>6, <3>1, <3>4 DEF SameBut, IsActive, Strategies
    <3> QED
      BY <1>2, <2>3, <3>4, <3>5 DEF SameBut, Live, m
  <2> QED
    BY <2>8, <2>9
<1> QED
  BY <1>1, <1>2

(* The strategy is told of a login before its job is looked at.               *)
Told(n, c) ==
    LET m == Phase(n, c, [phase |-> "in", failures |-> 0])
    IN  IF c = Proxy THEN m ELSE StrategyLogin(m, c[1], c[2])

LEMMA ClientLoginKeeps ==
    ASSUME NEW n, Sane(n), NoIdleProxy(n), NEW c \in Clients,
           n.cl[c].phase = "login"
    PROVE  LET m == ClientLogin(n, c)
           IN  /\ Sane(m) /\ NoIdleProxy(m) /\ (Live(n) => Live(m))
               /\ m.cl = Told(n, c).cl /\ m.strat = Told(n, c).strat
<1> DEFINE k    == [phase |-> "in", failures |-> 0]
           m    == Phase(n, c, k)
           told == IF c = Proxy THEN m ELSE StrategyLogin(m, c[1], c[2])
           r    == IF /\ c[1] # "user"
                      /\ \/ c = Proxy \/ Single(c[1])
                         \/ told.strat[c[1]].active # n.strat[c[1]].active
                   THEN DonateLogin(told) ELSE told
<1>1. ClientLogin(n, c) = ClientJob(r, c)
  BY DEF ClientLogin, Phase
<1>10. told = Told(n, c)
  BY DEF Told
<1>2. /\ k \in ClientStates /\ k.failures \in -1 .. Enough(c)
      /\ k.phase = "in"
  BY EnoughIs, PoolsAssumption DEF ClientStates
<1> HIDE DEF k
<1>3. /\ Base(m) /\ SameBut(n, m)
      /\ \A d \in Clients : m.cl[d] = IF d = c THEN k ELSE n.cl[d]
  BY <1>2, PhaseKeeps
<1>4. Live(n) => Live(m)
  BY <1>3 DEF SameBut, Live, IsActive
<1> HIDE DEF m
<1>5. /\ Sane(told) /\ told.donate = n.donate /\ (Live(n) => Live(told))
      /\ c \in ClientsOf("user") /\ Single("user") => IsActive(told, "user")
  <2>1. CASE c = Proxy
    <3>1. OnlyActive(m)
      BY <1>3, <2>1, OfStrategy DEF SameBut, Sane, OnlyActive, OnlyActiveOf
    <3> QED
      BY <1>3, <1>4, <2>1, <3>1, ProxyIs DEF Sane, SameBut, Strategies
  <2>2. CASE c[1] \in Strategies /\ c \in ClientsOf(c[1])
    <3>1. c = <<c[1], c[2]>> /\ c # Proxy
      BY <2>2, OfStrategy
    <3>2. c \in ClientsOf("user") => c[1] = "user"
      BY OfStrategy DEF Strategies
    <3>3. ASSUME NEW t \in Strategies, t # c[1]
          PROVE  OnlyActiveOf(m, t)
      <4>1. c \notin ClientsOf(t)
        BY <3>3, OfStrategy
      <4> QED
        BY <1>3, <4>1, OfStrategy
        DEF SameBut, Sane, OnlyActive, OnlyActiveOf
    <3>4. ASSUME NEW d \in ClientsOf(c[1]), d # c, m.cl[d].phase = "in"
          PROVE  m.strat[c[1]].active = d[2]
      BY <1>3, <2>2, <3>4, OfStrategy
      DEF SameBut, Sane, OnlyActive, OnlyActiveOf
    <3>5. m.cl[c].phase = "in"
      BY <1>2, <1>3
    <3>6. /\ Sane(told) /\ told.donate = m.donate /\ (Live(m) => Live(told))
          /\ Single(c[1]) => IsActive(told, c[1])
      BY <1>3, <2>2, <3>1, <3>3, <3>4, <3>5, StrategyLoginKeeps
    <3> QED
      BY <1>3, <1>4, <3>2, <3>6 DEF SameBut
  <2> QED
    BY <2>1, <2>2, AnyClient
<1> HIDE DEF told
<1>6. NoIdleProxy(told)
  BY <1>5 DEF NoIdleProxy
<1>7. /\ Sane(r) /\ NoIdleProxy(r) /\ (Live(told) => Live(r))
      /\ r.strat = told.strat /\ r.cl = told.cl
  BY <1>5, <1>6, DonateLoginKeeps
<1> HIDE DEF r
<1>8. c \in ClientsOf("user") /\ Single("user") => IsActive(r, "user")
  BY <1>5, <1>7 DEF IsActive
<1>9. /\ Sane(ClientJob(r, c)) /\ SameClients(r, ClientJob(r, c))
      /\ Live(r) => Live(ClientJob(r, c))
  BY <1>7, <1>8, ClientJobKeeps
<1> QED
  BY <1>1, <1>5, <1>7, <1>9, <1>10 DEF SameClients, NoIdleProxy

-----------------------------------------------------------------------------
(* Events                                                                     *)

LEMMA ForgetKeeps ==
    ASSUME ShareInv, NEW gone, Forget(gone)
    PROVE  ShareInv'
<1>1. CASE share' = share
  BY <1>1 DEF ShareInv
<1>2. CASE share # Nobody /\ share' = [share EXCEPT !.from = Nobody]
  <2>1. share \in [index : {0, 1}, from : Clients \cup {Nobody}]
    BY <1>2 DEF ShareInv
  <2>2. /\ share' \in [index : {0, 1}, from : Clients \cup {Nobody}]
        /\ share'.from = Nobody
    BY <1>2, <2>1
  <2> QED
    BY <2>2 DEF ShareInv, Indexed
<1> QED
  BY <1>1, <1>2 DEF Forget

LEMMA MoveKeeps ==
    ASSUME NEW n, NetInv(n), NEW c \in Clients, n.cl[c].phase # "off",
           NEW phase \in {"off", "lookup", "login", "closing", "waiting"}
    PROVE  NetInv([n EXCEPT !.cl[c].phase = phase])
<1> DEFINE k == [n.cl[c] EXCEPT !.phase = phase]
<1>1. /\ k \in ClientStates /\ k.failures \in -1 .. Enough(c)
      /\ k.phase = phase
  BY DEF NetInv, Sane, Base, Net, Counted, ClientStates
<1>2. [n EXCEPT !.cl[c].phase = phase] = Phase(n, c, k)
  BY DEF Phase
<1> HIDE DEF k
<1>3. Sane(Phase(n, c, k)) /\ SameBut(n, Phase(n, c, k))
  BY <1>1, PhaseKeeps DEF NetInv
<1> QED
  BY <1>2, <1>3 DEF NetInv, SameBut, NoIdleProxy, Live, IsActive

LEMMA ResolvedKeeps ==
    ASSUME IInv, NEW c \in Clients, Resolved(c)
    PROVE  IInv'
BY MoveKeeps DEF IInv, ShareInv, Resolved

LEMMA DroppedKeeps ==
    ASSUME IInv, NEW c \in Clients, Dropped(c)
    PROVE  IInv'
BY MoveKeeps DEF IInv, ShareInv, Dropped

LEMMA ClosedKeeps ==
    ASSUME IInv, NEW c \in Clients, Closed(c)
    PROVE  IInv'
<1>1. NetInv(net)'
  BY ClientCloseKeeps DEF IInv, NetInv, Closed
<1>2. ShareInv'
  BY ForgetKeeps DEF IInv, Closed
<1> QED
  BY <1>1, <1>2 DEF IInv

LEMMA LoggedInKeeps ==
    ASSUME IInv, NEW c \in Clients, LoggedIn(c)
    PROVE  IInv'
<1>1. NetInv(net)'
  BY ClientLoginKeeps DEF IInv, NetInv, LoggedIn
<1>2. ShareInv'
  BY ForgetKeeps DEF IInv, LoggedIn
<1> QED
  BY <1>1, <1>2 DEF IInv

LEMMA JobReceivedKeeps ==
    ASSUME IInv, NEW c \in Clients, JobReceived(c)
    PROVE  IInv'
<1>1. c \in ClientsOf("user") => IsActive(net, "user")
  BY OfStrategy
  DEF IInv, NetInv, Sane, OnlyActive, OnlyActiveOf, JobReceived, IsActive,
      Strategies
<1>2. /\ Sane(ClientJob(net, c)) /\ SameClients(net, ClientJob(net, c))
      /\ Live(net) => Live(ClientJob(net, c))
  BY <1>1, ClientJobKeeps DEF IInv, NetInv
<1> QED
  BY <1>2 DEF IInv, NetInv, ShareInv, JobReceived, SameClients, NoIdleProxy

LEMMA RetryKeeps ==
    ASSUME IInv, NEW c \in Clients, Retry(c)
    PROVE  IInv'
<1>1. /\ c \in ClientsOf("donate") => ~net.donate.proxy
      /\ c = Proxy => net.donate.proxy
  BY DEF IInv, NetInv, Sane, Base, ProxyOrPools, Retry
<1>2. Sane(Connect(net, c)) /\ SameBut(net, Connect(net, c))
  BY <1>1, ConnectKeeps DEF IInv, NetInv
<1> QED
  BY <1>2 DEF IInv, NetInv, ShareInv, Retry, SameBut, NoIdleProxy, Live, IsActive

LEMMA DonateTimerKeeps ==
    ASSUME IInv, NEW offered \in BOOLEAN, DonateTimer(offered)
    PROVE  IInv'
<1> DEFINE k == [net.donate EXCEPT !.timer = FALSE]
           m == Donate(net, k)
<1>1. k \in Donation /\ k.timer = FALSE /\ k.state = net.donate.state
        /\ k.proxy = net.donate.proxy
  BY DEF IInv, NetInv, Sane, Base, Net, Donation
<1>2. net' = SetState(m, IF net.donate.state = "ACTIVE" THEN "WAIT" ELSE "CONNECT",
                      offered)
  BY DEF DonateTimer, Donate
<1> HIDE DEF k
<1>3. IF k.proxy THEN \A c \in ClientsOf("donate") : net.cl[c].phase = "off"
      ELSE net.cl[Proxy].phase = "off"
  BY <1>1 DEF IInv, NetInv, Sane, Base, ProxyOrPools
<1>4. /\ Sane(m) /\ m.donate = k
      /\ m.cl = net.cl /\ m.strat = net.strat /\ m.miner = net.miner
  BY <1>1, <1>3, DonateKeeps DEF IInv, NetInv
<1>5. Live(net) => Live(m)
  BY <1>1, <1>4 DEF Live, IsActive
<1> HIDE DEF m
<1>6. CASE net.donate.state = "ACTIVE"
  BY <1>1, <1>2, <1>4, <1>6, SetWaitKeeps
  DEF IInv, NetInv, ShareInv, DonateTimer
<1>7. CASE net.donate.state # "ACTIVE"
  <2>1. net.donate.state = "IDLE"
    BY <1>7 DEF IInv, NetInv, Sane, Base, Timed, DonateTimer
  <2>2. /\ ~m.donate.timer /\ m.donate.state = "IDLE" /\ ~m.donate.proxy
        /\ \A c \in ClientsOf("donate") : m.cl[c].phase = "off"
    BY <1>1, <1>4, <2>1
    DEF IInv, NetInv, NoIdleProxy, DonateTimer, IdleIsLong
  <2>3. Sane(net') /\ NoIdleProxy(net') /\ (Live(m) => Live(net'))
    BY <1>2, <1>4, <1>7, <2>2, SetConnectKeeps
  <2> QED
    BY <1>5, <2>3 DEF IInv, NetInv, ShareInv, DonateTimer
<1> QED
  BY <1>6, <1>7

LEMMA DonateTickKeeps ==
    ASSUME IInv, DonateTick
    PROVE  IInv'
<1>1. NetInv(net)'
  BY SetIdleKeeps DEF IInv, NetInv, DonateTick
<1>2. ShareInv'
  BY ForgetKeeps DEF IInv, DonateTick
<1> QED
  BY <1>1, <1>2 DEF IInv

(* The strategy of the new configuration, whose clients are new               *)
Reload(n) ==
    [n EXCEPT !.strat["user"] = NewStrategy,
              !.cl = [c \in Clients |->
                         IF c[1] = "user" THEN NewClient ELSE @[c]]]

LEMMA ReloadKeeps ==
    ASSUME NEW n, Sane(n)
    PROVE  LET m == Reload(n)
           IN  Sane(m) /\ m.donate = n.donate /\ m.miner = n.miner
<1> DEFINE k(c) == IF c[1] = "user" THEN NewClient ELSE n.cl[c]
           m == Reload(n)
<1>1. /\ NewClient \in ClientStates /\ NewClient.failures = 0
      /\ NewClient.phase = "off"
      /\ NewStrategy \in Choice /\ NewStrategy.index = 0
      /\ NewStrategy.active = -1
  BY PoolsAssumption DEF NewClient, NewStrategy, ClientStates, Choice
<1>2. \A c \in Clients : k(c) \in ClientStates
  BY <1>1 DEF Sane, Base, Net
<1>3. m = [n EXCEPT !.strat["user"] = NewStrategy,
                    !.cl = [c \in Clients |-> k(c)]]
  BY DEF Reload
<1>4. \A c \in Clients :
          (c[1] = "user" => k(c) = NewClient)
            /\ (c[1] # "user" => k(c) = n.cl[c])
  OBVIOUS
<1> HIDE DEF k, m
<1>5. /\ m.cl = [c \in Clients |-> k(c)]
      /\ m.strat = [n.strat EXCEPT !["user"] = NewStrategy]
      /\ m.donate = n.donate /\ m.miner = n.miner
  BY <1>3 DEF Sane, Base, Net
<1>6. \A c \in Clients : m.cl[c] = k(c)
  BY <1>5
<1>7. \A s \in Strategies :
          m.strat[s] = IF s = "user" THEN NewStrategy ELSE n.strat[s]
  BY <1>5 DEF Sane, Base, Net, Strategies
<1>8. m \in Net
  BY <1>1, <1>2, <1>3 DEF Sane, Base, Net, Choice
<1>9. Counted(m) /\ Timed(m) /\ Indexed(m.miner)
  BY <1>1, <1>4, <1>5, <1>6, EnoughIs
  DEF Sane, Base, Counted, Timed, Indexed
<1>10. Chosen(m)
  BY <1>1, <1>7, FirstPool DEF Sane, Base, Chosen
<1>11. ProxyOrPools(m)
  BY <1>4, <1>5, <1>6, OfStrategy, ProxyIs
  DEF Sane, Base, ProxyOrPools, Strategies
<1>12. OnlyActive(m)
  <2>1. OnlyActiveOf(m, "user")
    BY <1>1, <1>4, <1>6, OfStrategy DEF OnlyActiveOf, Strategies
  <2>2. OnlyActiveOf(m, "donate")
    BY <1>4, <1>6, <1>7, OfStrategy
    DEF Sane, OnlyActive, OnlyActiveOf, Strategies
  <2> QED
    BY <2>1, <2>2 DEF OnlyActive, Strategies
<1> QED
  BY <1>5, <1>8, <1>9, <1>10, <1>11, <1>12 DEF Sane, Base, m

LEMMA ConfigChangedKeeps ==
    ASSUME IInv, ConfigChanged
    PROVE  IInv'
<1> DEFINE n == StopStrategy(net, "user")
           m == Reload(n)
<1>1. net' = ConnectStrategy(m, "user")
  BY DEF ConfigChanged, Reload
<1>2. /\ Sane(n) /\ n.donate = net.donate
      /\ ~Single("user") => Live(n) /\ ~IsActive(n, "user")
  BY StopKeeps DEF IInv, NetInv, Strategies
<1> HIDE DEF n
<1>3. Sane(m) /\ m.donate = n.donate /\ m.miner = n.miner
  BY <1>2, ReloadKeeps
<1>4. ~Single("user") => Live(m)
  BY <1>2, <1>3 DEF Live
<1> HIDE DEF m
<1>5. Sane(net') /\ SameBut(m, net')
  BY <1>1, <1>3, ConnectStrategyKeeps DEF Strategies
<1>6. NetInv(net)'
  BY <1>2, <1>3, <1>4, <1>5
  DEF IInv, NetInv, SameBut, NoIdleProxy, Live, IsActive
<1>7. ShareInv'
  BY ForgetKeeps DEF IInv, ConfigChanged
<1> QED
  BY <1>6, <1>7 DEF IInv

LEMMA ShareFoundKeeps ==
    ASSUME IInv, ShareFound
    PROVE  IInv'
<1>1. /\ Indexed(net.miner) /\ net.miner.index \in {0, 1}
      /\ net.miner.from \in Clients
  BY DEF IInv, NetInv, Sane, Base, Net, ShareFound
<1>2. /\ share' \in [index : {0, 1}, from : Clients \cup {Nobody}]
      /\ share'.from = net.miner.from /\ share'.index = net.miner.index
  BY <1>1 DEF ShareFound
<1>3. Indexed(share')
  BY <1>1, <1>2 DEF Indexed
<1> QED
  BY <1>2, <1>3 DEF IInv, ShareInv, ShareFound

-----------------------------------------------------------------------------

LEMMA KeptInit == Init => IInv
<1> SUFFICES ASSUME Init
             PROVE  IInv
  OBVIOUS
<1> DEFINE n == [cl     |-> [c \in Clients |-> NewClient],
                 strat  |-> [s \in {"user", "donate"} |-> NewStrategy],
                 donate |-> [state |-> "IDLE", timer |-> TRUE, proxy |-> FALSE],
                 miner  |-> [active |-> FALSE, index |-> 0, from |-> Nobody]]
<1>1. /\ NewClient \in ClientStates /\ NewClient.failures = 0
      /\ NewClient.phase = "off"
      /\ NewStrategy \in Choice /\ NewStrategy.index = 0
      /\ NewStrategy.active = -1
  BY PoolsAssumption DEF NewClient, NewStrategy, ClientStates, Choice
<1>2. /\ n \in Net
      /\ \A c \in Clients : n.cl[c] = NewClient
      /\ \A s \in Strategies : n.strat[s] = NewStrategy
      /\ n.donate.state = "IDLE" /\ ~n.donate.proxy
      /\ ~n.miner.active /\ n.miner.from = Nobody
  BY <1>1 DEF Net, Choice, Strategies
<1>3. net = ConnectStrategy(n, "user") /\ share = Nobody
  BY DEF Init
<1> HIDE DEF n
<1>4. Counted(n) /\ Timed(n) /\ Indexed(n.miner)
  BY <1>1, <1>2, EnoughIs DEF Counted, Timed, Indexed
<1>5. Chosen(n)
  BY <1>1, <1>2, FirstPool DEF Chosen
<1>6. ProxyOrPools(n) /\ OnlyActive(n)
  BY <1>1, <1>2, OfStrategy, ProxyIs DEF ProxyOrPools, OnlyActive, OnlyActiveOf
<1>7. Sane(net) /\ SameBut(n, net)
  BY <1>2, <1>3, <1>4, <1>5, <1>6, ConnectStrategyKeeps
  DEF Sane, Base, Strategies
<1> QED
  BY <1>2, <1>3, <1>7
  DEF IInv, NetInv, ShareInv, SameBut, NoIdleProxy, Live

LEMMA KeptStep == IInv /\ [Next]_vars => IInv'
<1> SUFFICES ASSUME IInv, [Next]_vars
             PROVE  IInv'
  OBVIOUS
<1>1. CASE \E c \in Clients : Resolved(c)
  BY <1>1, ResolvedKeeps
<1>2. CASE \E c \in Clients : Dropped(c)
  BY <1>2, DroppedKeeps
<1>3. CASE \E c \in Clients : Closed(c)
  BY <1>3, ClosedKeeps
<1>4. CASE \E c \in Clients : LoggedIn(c)
  BY <1>4, LoggedInKeeps
<1>5. CASE \E c \in Clients : JobReceived(c)
  BY <1>5, JobReceivedKeeps
<1>6. CASE \E c \in Clients : Retry(c)
  BY <1>6, RetryKeeps
<1>7. CASE \E offered \in BOOLEAN : DonateTimer(offered)
  BY <1>7, DonateTimerKeeps
<1>8. CASE DonateTick
  BY <1>8, DonateTickKeeps
<1>9. CASE ConfigChanged
  BY <1>9, ConfigChangedKeeps
<1>10. CASE ShareFound
  BY <1>10, ShareFoundKeeps
<1>11. CASE ShareDelivered
  BY <1>11 DEF IInv, ShareInv, ShareDelivered
<1>12. CASE UNCHANGED vars
  BY <1>12 DEF IInv, ShareInv, vars
<1> QED
  BY <1>1, <1>2, <1>3, <1>4, <1>5, <1>6, <1>7, <1>8, <1>9, <1>10, <1>11,
     <1>12 DEF Next

LEMMA Invariance == Spec => []IInv
BY KeptInit, KeptStep, PTL DEF Spec

(* Every client, strategy, timer and share is of its type.                    *)
THEOREM TypeCorrect == Spec => []TypeOK
<1>1. IInv => TypeOK
  BY DEF IInv, NetInv, ShareInv, Sane, Base, Net, Strategies, TypeOK
<1> QED
  BY <1>1, Invariance, PTL

(* However the user's pools fail, recover and log in, only the active one is  *)
(* kept logged in (FailoverStrategy::onLoginSuccess).                         *)
THEOREM OneSession == Spec => []OnlyActiveLoggedIn
<1>1. IInv => OnlyActiveLoggedIn
  BY DEF IInv, NetInv, Sane, OnlyActive, OnlyActiveOf, Strategies,
         OnlyActiveLoggedIn
<1> QED
  BY <1>1, Invariance, PTL

(* With a backup pool the miner never works for a strategy that is not active *)
(* (Network::onPause, FailoverStrategy::stop).                                *)
THEOREM LiveWork == Spec => [](~Single("user") => WorkIsLive)
<1>1. IInv => (~Single("user") => WorkIsLive)
  BY DEF IInv, NetInv, Live, WorkIsLive
<1> QED
  BY <1>1, Invariance, PTL

(* The donation timer runs in the states only that onTimer leads on from      *)
(* (the assertion in DonateStrategy::setState).                               *)
THEOREM TimerRight == Spec => []TimerLeadsOn
<1>1. IInv => TimerLeadsOn
  BY DEF IInv, NetInv, Sane, Base, Timed, TimerLeadsOn
<1> QED
  BY <1>1, Invariance, PTL

(* A share of a session that still stands is handed to that session           *)
(* (Network::onJobResult, the submit() of the strategies).                    *)
THEOREM SharesHome == Spec => []SharesGoHome
<1>1. ASSUME IInv
      PROVE  SharesGoHome
  <2> SUFFICES ASSUME share # Nobody, share.from # Nobody,
                      net.cl[share.from].phase = "in"
               PROVE  Target(net, share.index) = share.from
    BY DEF SharesGoHome
  <2> DEFINE c == share.from
  <2>1. c \in Clients /\ share.index = IF c[1] = "user" THEN 0 ELSE 1
    BY <1>1 DEF IInv, ShareInv, Indexed
  <2>2. ProxyOrPools(net) /\ OnlyActive(net)
    BY <1>1 DEF IInv, NetInv, Sane, Base
  <2> HIDE DEF c
  <2>3. CASE c = Proxy
    BY <2>1, <2>2, <2>3, ProxyIs DEF ProxyOrPools, Target, c
  <2>4. CASE c[1] \in Strategies /\ c \in ClientsOf(c[1])
    <3>1. c = <<c[1], c[2]>> /\ net.strat[c[1]].active = c[2]
      BY <2>2, <2>4, OfStrategy DEF OnlyActive, OnlyActiveOf, c
    <3>2. c[1] = "donate" => ~net.donate.proxy
      BY <2>2, <2>4 DEF ProxyOrPools, c
    <3>3. Single(c[1]) => c = <<c[1], 0>>
      BY <2>4, SingleIs
    <3>4. Target(net, share.index)
            = <<c[1], IF Single(c[1]) THEN 0 ELSE net.strat[c[1]].active>>
      BY <2>1, <2>4, <3>2 DEF Target, Strategies
    <3> QED
      BY <3>1, <3>3, <3>4 DEF c
  <2> QED
    BY <2>1, <2>3, <2>4, AnyClient
<1> QED
  BY <1>1, Invariance, PTL

-----------------------------------------------------------------------------
(* The refinement: how clients are used.  A strategy connects its backup when *)
(* it gives up its first pool, and only then is the backup not at rest:       *)
(* ReadyAt.  A client that was disconnected neither waits for a retry nor is  *)
(* logged in: Settled.                                                        *)
Resting(p) == p.phase = "off" \/ p.failures = -1

Settled(n) ==
    \A c \in Clients :
        n.cl[c].phase \in {"waiting", "in"} => n.cl[c].failures # -1

ReadyAt(n, s) ==
    /\ n.strat[s].active # -1 => n.strat[s].index = n.strat[s].active
    /\ n.strat[s].index = 0 /\ <<s, 1>> \in ClientsOf(s)
         => Resting(n.cl[<<s, 1>>])

Ready(n) == Settled(n) /\ \A s \in Strategies : ReadyAt(n, s)

(* What Disconnect makes of a client                                          *)
Ended(p) ==
    [phase    |-> CASE p.phase \in {"login", "in"} -> "closing"
                    [] p.phase = "waiting"         -> "off"
                    [] OTHER                       -> p.phase,
     failures |-> -1]

Connected(n, m, c) ==
    /\ m.cl[c].phase = "lookup" /\ m.cl[c].failures # -1
    /\ \A d \in Clients : d # c => m.cl[d] = n.cl[d]

Stopped(n, m, some) ==
    \A d \in Clients : m.cl[d] = IF d \in some THEN Ended(n.cl[d]) ELSE n.cl[d]

(* A strategy that is left alone stays ready when its backup does.            *)
LEMMA ReadyKept ==
    ASSUME NEW n, NEW m, NEW s \in Strategies, ReadyAt(n, s),
           m.strat[s] = n.strat[s],
           <<s, 1>> \in ClientsOf(s) /\ Resting(n.cl[<<s, 1>>])
               => Resting(m.cl[<<s, 1>>])
    PROVE  ReadyAt(m, s)
BY DEF ReadyAt

LEMMA SaneNet ==
    ASSUME NEW n, Sane(n)
    PROVE  /\ n \in Net /\ Base(n)
           /\ \A c \in Clients : n.cl[c] \in ClientStates
                                   /\ n.cl[c].failures \in -1 .. Enough(c)
BY DEF Sane, Base, Net, Counted

LEMMA ConnectMoves ==
    ASSUME NEW n \in Net, NEW c \in Clients
    PROVE  Connected(n, Connect(n, c), c) /\ SameBut(n, Connect(n, c))
<1> DEFINE k == [phase    |-> "lookup",
                 failures |-> IF n.cl[c].failures = -1 THEN 0
                              ELSE n.cl[c].failures]
           m == [n EXCEPT !.cl[c] = k]
<1>1. Connect(n, c) = m
  BY DEF Connect
<1>2. k.phase = "lookup" /\ k.failures # -1
  OBVIOUS
<1> HIDE DEF k
<1>3. m.cl = [n.cl EXCEPT ![c] = k] /\ SameBut(n, m)
  BY DEF Net, SameBut
<1>4. \A d \in Clients : m.cl[d] = IF d = c THEN k ELSE n.cl[d]
  BY <1>3 DEF Net
<1> QED
  BY <1>1, <1>2, <1>3, <1>4 DEF Connected

LEMMA DisconnectMoves ==
    ASSUME NEW n \in Net, NEW some \in SUBSET Clients
    PROVE  Stopped(n, Disconnect(n, some), some) /\ SameBut(n, Disconnect(n, some))
<1> DEFINE k(d) == IF d \notin some THEN n.cl[d] ELSE Ended(n.cl[d])
           m == [n EXCEPT !.cl = [d \in Clients |-> k(d)]]
<1>1. Disconnect(n, some) = m
  BY DEF Disconnect, Ended
<1>2. m.cl = [d \in Clients |-> k(d)] /\ SameBut(n, m)
  BY DEF Net, SameBut
<1> QED
  BY <1>1, <1>2 DEF Stopped

LEMMA EndedRests ==
    ASSUME NEW p
    PROVE  Resting(Ended(p)) /\ Ended(p).failures = -1
             /\ Ended(p).phase \notin {"waiting", "in"}
BY DEF Resting, Ended

(* stop() leaves a strategy ready.                                            *)
LEMMA StopMoves ==
    ASSUME NEW n, Sane(n), NEW s \in Strategies, ReadyAt(n, s)
    PROVE  LET m == StopStrategy(n, s)
           IN  /\ Stopped(n, m, ClientsOf(s)) /\ ReadyAt(m, s)
               /\ \A t \in Strategies : t # s => m.strat[t] = n.strat[t]
<1> DEFINE d == Disconnect(n, ClientsOf(s))
           r == Choose(d, s, NewStrategy)
           m == StopStrategy(n, s)
<1>1. ClientsOf(s) \in SUBSET Clients /\ Proxy \notin ClientsOf(s)
  BY OfStrategy, ProxyIs
<1>2. Sane(d) /\ SameBut(n, d) /\ Stopped(n, d, ClientsOf(s))
        /\ \A c \in ClientsOf(s) : d.cl[c].phase # "in"
  BY <1>1, SaneNet, DisconnectKeeps, DisconnectMoves DEF Sane
<1>3. <<s, 1>> \in ClientsOf(s) => Resting(d.cl[<<s, 1>>])
  BY <1>1, <1>2, EndedRests DEF Stopped
<1>4. m = IF Single(s) THEN d ELSE ListenerPause(r, s)
  BY DEF StopStrategy, Choose
<1> HIDE DEF d, m
<1>5. CASE Single(s)
  BY <1>2, <1>3, <1>4, <1>5 DEF SameBut, ReadyAt, m
<1>6. CASE ~Single(s)
  <2>1. NewStrategy \in Choice /\ NewStrategy.index = 0 /\ NewStrategy.active = -1
    BY DEF NewStrategy, Choice
  <2>9. /\ NewStrategy \in Choice /\ <<s, NewStrategy.index>> \in ClientsOf(s)
        /\ NewStrategy.active # -1 => <<s, NewStrategy.active>> \in ClientsOf(s)
        /\ \A c \in ClientsOf(s) : d.cl[c].phase = "in" => NewStrategy.active = c[2]
    BY <1>2, <2>1, FirstPool
  <2>2. /\ Sane(r) /\ r.cl = d.cl /\ r.strat[s] = NewStrategy
        /\ \A t \in Strategies : t # s => r.strat[t] = d.strat[t]
    BY <1>2, <2>9, ChoiceKeeps DEF Sane, OnlyActive
  <2> HIDE DEF r
  <2>3. SameClients(r, m)
    BY <1>4, <1>6, <2>2, ListenerPauseKeeps
  <2> QED
    BY <1>2, <1>3, <2>1, <2>2, <2>3
    DEF SameClients, SameBut, ReadyAt, Stopped, m
<1> QED
  BY <1>5, <1>6

(* onClose() connects the backup, if it connects any pool.                    *)
LEMMA CloseMoves ==
    ASSUME NEW n, Sane(n), NEW s \in Strategies, NEW i, NEW f, ReadyAt(n, s),
           <<s, i>> \in ClientsOf(s), n.cl[<<s, i>>].phase # "in"
    PROVE  LET m == StrategyClose(n, s, i, f)
           IN  /\ \/ m.cl = n.cl
                  \/ /\ i = 0 /\ <<s, 1>> \in ClientsOf(s)
                     /\ n.strat[s].index = 0 /\ Connected(n, m, <<s, 1>>)
               /\ \A t \in Strategies : t # s => m.strat[t] = n.strat[t]
               /\ ReadyAt(m, s)
<1> DEFINE k      == [n.strat[s] EXCEPT !.active = -1]
           gone   == Choose(n, s, k)
           lost   == n.strat[s].active = i
           paused == IF lost THEN ListenerPause(gone, s) ELSE n
           j      == n.strat[s].index + 1
           next   == [paused EXCEPT !.strat[s].index = j]
           m      == StrategyClose(n, s, i, f)
<1>1. /\ n.strat[s] \in Choice /\ k \in Choice /\ k.active = -1
      /\ k.index = n.strat[s].index /\ n.strat[s].index \in {0, 1}
      /\ <<s, k.index>> \in ClientsOf(s)
  BY DEF Sane, Base, Net, Choice, Chosen
<1>2. \/ m = paused \/ m = n
      \/ n.strat[s].index = i /\ <<s, j>> \in ClientsOf(s)
           /\ m = Connect(next, <<s, j>>)
  BY DEF StrategyClose, Choose
<1> HIDE DEF k, gone
<1>3. lost => /\ Sane(gone) /\ gone.cl = n.cl /\ gone.strat[s] = k
              /\ \A t \in Strategies : t # s => gone.strat[t] = n.strat[t]
  <2> SUFFICES ASSUME lost
               PROVE  /\ Sane(gone) /\ gone.cl = n.cl /\ gone.strat[s] = k
                      /\ \A t \in Strategies : t # s => gone.strat[t] = n.strat[t]
    OBVIOUS
  <2>1. \A c \in ClientsOf(s) : n.cl[c].phase # "in"
    BY OfStrategy DEF Sane, Base, OnlyActive, OnlyActiveOf
  <2>2. /\ k \in Choice /\ <<s, k.index>> \in ClientsOf(s)
        /\ k.active # -1 => <<s, k.active>> \in ClientsOf(s)
        /\ \A c \in ClientsOf(s) : n.cl[c].phase = "in" => k.active = c[2]
    BY <1>1, <2>1
  <2> QED
    BY <2>2, ChoiceKeeps DEF Sane, OnlyActive, gone
<1>4. /\ Sane(paused) /\ paused.cl = n.cl
      /\ paused.strat[s] = IF lost THEN k ELSE n.strat[s]
      /\ \A t \in Strategies : t # s => paused.strat[t] = n.strat[t]
  BY <1>3, ListenerPauseKeeps DEF SameClients
<1>5. paused.strat[s].index = n.strat[s].index
        /\ paused.strat[s].active \in {-1, n.strat[s].active}
  BY <1>1, <1>4
<1>6. ReadyAt(paused, s)
  BY <1>4, <1>5 DEF ReadyAt
<1> HIDE DEF m
<1>7. CASE m = paused \/ m = n
  BY <1>4, <1>6, <1>7 DEF m
<1>8. CASE n.strat[s].index = i /\ <<s, j>> \in ClientsOf(s)
             /\ m = Connect(next, <<s, j>>)
  <2> DEFINE p == [paused.strat[s] EXCEPT !.index = j]
  <2>1. j \in {0, 1}
    BY <1>8, OfStrategy
  <2>2. j = 1 /\ n.strat[s].index = 0 /\ i = 0
    BY <1>1, <1>8, <2>1
  <2>3. paused.strat[s].active = -1
    BY <1>1, <1>4, <1>8 DEF ReadyAt
  <2>4. p \in Choice /\ p.index = 1 /\ p.active = -1
    BY <1>4, <2>2, <2>3 DEF Sane, Base, Net, Choice
  <2>5. next = Choose(paused, s, p)
    BY DEF Choose
  <2>6. \A c \in ClientsOf(s) : paused.cl[c].phase = "in" => p.active = c[2]
    BY <1>4, <2>3, <2>4 DEF Sane, Base, OnlyActive, OnlyActiveOf
  <2>10. /\ <<s, p.index>> \in ClientsOf(s)
         /\ p.active # -1 => <<s, p.active>> \in ClientsOf(s)
    BY <1>8, <2>2, <2>4
  <2>11. Base(paused) /\ \A t \in Strategies : t # s => OnlyActiveOf(paused, t)
    BY <1>4 DEF Sane, OnlyActive
  <2> HIDE DEF p, next, paused, j
  <2>12. LET r == Choose(paused, s, p)
         IN  /\ Sane(r) /\ r.cl = paused.cl /\ r.strat[s] = p
             /\ \A t \in Strategies : t # s => r.strat[t] = paused.strat[t]
    <3>1. Base(paused)
      BY <2>11
    <3>2. p \in Choice
      BY <2>4
    <3>3. \A t \in Strategies : t # s => OnlyActiveOf(paused, t)
      BY <2>11
    <3>4. <<s, p.index>> \in ClientsOf(s)
      BY <2>10
    <3>5. p.active # -1 => <<s, p.active>> \in ClientsOf(s)
      BY <2>10
    <3>6. \A c \in ClientsOf(s) : paused.cl[c].phase = "in" => p.active = c[2]
      BY <2>6
    <3> QED
      BY <3>1, <3>2, <3>3, <3>4, <3>5, <3>6, ChoiceKeeps
  <2>7. /\ Sane(next) /\ next.cl = paused.cl /\ next.strat[s] = p
        /\ \A t \in Strategies : t # s => next.strat[t] = paused.strat[t]
    BY <2>5, <2>12
  <2>8. <<s, j>> \in Clients
    BY <1>8, OfStrategy
  <2>9. Connected(next, m, <<s, j>>) /\ SameBut(next, m)
    BY <1>8, <2>7, <2>8, SaneNet, ConnectMoves
  <2> QED
    BY <1>4, <1>8, <2>2, <2>4, <2>7, <2>9
    DEF Connected, SameBut, ReadyAt, m
<1> QED
  BY <1>2, <1>7, <1>8

(* connect() of a strategy: its backup is connected in its turn only.         *)
LEMMA ConnectStrategyMoves ==
    ASSUME NEW n, Sane(n), NEW s \in Strategies, ReadyAt(n, s)
    PROVE  LET m == ConnectStrategy(n, s)
               c == <<s, n.strat[s].index>>
           IN  /\ c \in ClientsOf(s) /\ Connected(n, m, c) /\ SameBut(n, m)
               /\ ReadyAt(m, s)
<1> DEFINE c == <<s, n.strat[s].index>>
           m == ConnectStrategy(n, s)
<1>1. c \in ClientsOf(s) /\ c \in Clients /\ n \in Net
  BY OfStrategy DEF Sane, Base, Chosen
<1>2. Connected(n, m, c) /\ SameBut(n, m)
  BY <1>1, ConnectMoves DEF ConnectStrategy
<1> HIDE DEF m
<1>3. <<s, 1>> \in ClientsOf(s) /\ n.strat[s].index = 0
        => m.cl[<<s, 1>>] = n.cl[<<s, 1>>]
  BY <1>2, OfStrategy DEF Connected
<1>4. ReadyAt(m, s)
  BY <1>2, <1>3 DEF ReadyAt, SameBut
<1> QED
  BY <1>1, <1>2, <1>4 DEF m

(* The steps of a PoolClient, as they show in the client's record             *)
Used(p, q) ==
    \/ q = p \/ q = Ended(p)
    \/ /\ q.phase = "lookup" /\ q.failures # -1
       /\ p.phase = "off" \/ (p.phase = "lookup" /\ p.failures = -1)
    \/ q.phase = "in" /\ q.failures # -1 /\ p.phase = "login"
    \/ /\ q.failures = -1 <=> p.failures = -1
       /\ \/ p.phase = "lookup" /\ q.phase = "login"
          \/ p.phase \in {"login", "in"} /\ q.phase = "closing"
          \/ p.phase = "waiting" /\ q.phase = "lookup"
          \/ /\ p.phase \in {"lookup", "closing"}
             /\ q.phase = IF p.failures = -1 THEN "off" ELSE "waiting"

LEMMA UsedIs ==
    ASSUME NEW c \in Clients, net.cl[c].phase # "deleted",
           Used(net.cl[c], net'.cl[c])
    PROVE  Seen(c)!Next \/ UNCHANGED Seen(c)!vars
<1> DEFINE p == net.cl[c]
           q == net'.cl[c]
<1>1. CASE q = p
  BY <1>1 DEF Seen!vars
<1>2. CASE q = Ended(p)
  <2>1. Seen(c)!Disconnect
    BY <1>2 DEF Ended, Seen!Disconnect
  <2> QED
    BY <2>1 DEF Seen!Next
<1>3. CASE /\ q.phase = "lookup" /\ q.failures # -1
           /\ p.phase = "off" \/ (p.phase = "lookup" /\ p.failures = -1)
  BY <1>3 DEF Seen!Connect, Seen!Next
<1>4. CASE q.phase = "in" /\ q.failures # -1 /\ p.phase = "login"
  BY <1>4 DEF Seen!LoggedIn, Seen!Next
<1>5. ASSUME q.failures = -1 <=> p.failures = -1
      PROVE  /\ p.phase = "lookup" /\ q.phase = "login" => Seen(c)!Resolved
             /\ p.phase \in {"login", "in"} /\ q.phase = "closing" => Seen(c)!Dropped
             /\ p.phase = "waiting" /\ q.phase = "lookup" => Seen(c)!Retry
             /\ /\ p.phase \in {"lookup", "closing"}
                /\ q.phase = IF p.failures = -1 THEN "off" ELSE "waiting"
                => Seen(c)!Closed
  BY <1>5 DEF Seen!Resolved, Seen!Dropped, Seen!Retry, Seen!Closed
<1> QED
  BY <1>1, <1>2, <1>3, <1>4, <1>5 DEF Used, Seen!Next

LEMMA UsedWaits ==
    ASSUME NEW p, NEW q, Used(p, q),
           p.phase \in {"waiting", "in"} => p.failures # -1
    PROVE  q.phase \in {"waiting", "in"} => q.failures # -1
BY DEF Used, Ended

(* What an action does to clients                                             *)
Stepped(d) == Used(net.cl[d], net'.cl[d]) \/ Renewed(d) \/ Overtaken(d)

Uses(n, m) == \A d \in Clients : Used(n.cl[d], m.cl[d])

LEMMA UsesReady ==
    ASSUME NEW n, NEW m, Ready(n), Uses(n, m),
           \A s \in Strategies : ReadyAt(m, s)
    PROVE  Ready(m)
BY UsedWaits DEF Uses, Ready, Settled

LEMMA SameUses ==
    ASSUME NEW n, NEW m, Ready(n), m.cl = n.cl, m.strat = n.strat
    PROVE  Uses(n, m) /\ Ready(m)
BY DEF Uses, Used, Ready, Settled, ReadyAt

(* A client alone goes on.                                                    *)
LEMMA OneUses ==
    ASSUME NEW n, Ready(n), NEW c \in Clients, NEW m, m.strat = n.strat,
           Used(n.cl[c], m.cl[c]), Resting(n.cl[c]) => Resting(m.cl[c]),
           \A d \in Clients : d # c => m.cl[d] = n.cl[d]
    PROVE  Uses(n, m) /\ Ready(m)
<1>1. Uses(n, m)
  BY DEF Uses, Used
<1>2. ASSUME NEW s \in Strategies
      PROVE  ReadyAt(m, s)
  <2>1. <<s, 1>> \in ClientsOf(s) /\ Resting(n.cl[<<s, 1>>])
            => Resting(m.cl[<<s, 1>>])
    BY OfStrategy
  <2> QED
    BY <2>1, ReadyKept DEF Ready
<1> QED
  BY <1>1, <1>2, UsesReady

LEMMA ResolvedUses ==
    ASSUME IInv, Ready(net), NEW c \in Clients, Resolved(c)
    PROVE  Uses(net, net') /\ Ready(net')
<1>1. /\ net'.strat = net.strat
      /\ net'.cl = [net.cl EXCEPT ![c].phase = "login"]
  BY DEF IInv, NetInv, Sane, Base, Net, Resolved
<1>2. /\ net'.cl[c].phase = "login" /\ net'.cl[c].failures = net.cl[c].failures
      /\ \A d \in Clients : d # c => net'.cl[d] = net.cl[d]
  BY <1>1 DEF IInv, NetInv, Sane, Base, Net, ClientStates
<1>3. Used(net.cl[c], net'.cl[c])
  BY <1>2 DEF Resolved, Used
<1>4. Resting(net.cl[c]) => Resting(net'.cl[c])
  BY <1>2 DEF Resolved, Resting
<1> QED
  BY <1>1, <1>2, <1>3, <1>4, OneUses

LEMMA DroppedUses ==
    ASSUME IInv, Ready(net), NEW c \in Clients, Dropped(c)
    PROVE  Uses(net, net') /\ Ready(net')
<1>1. /\ net'.strat = net.strat
      /\ net'.cl = [net.cl EXCEPT ![c].phase = "closing"]
  BY DEF IInv, NetInv, Sane, Base, Net, Dropped
<1>2. /\ net'.cl[c].phase = "closing" /\ net'.cl[c].failures = net.cl[c].failures
      /\ \A d \in Clients : d # c => net'.cl[d] = net.cl[d]
  BY <1>1 DEF IInv, NetInv, Sane, Base, Net, ClientStates
<1>3. Used(net.cl[c], net'.cl[c])
  BY <1>2 DEF Dropped, Used
<1>4. Resting(net.cl[c]) => Resting(net'.cl[c])
  BY <1>2 DEF Dropped, Resting
<1> QED
  BY <1>1, <1>2, <1>3, <1>4, OneUses

LEMMA RetryUses ==
    ASSUME IInv, Ready(net), NEW c \in Clients, Retry(c)
    PROVE  Uses(net, net') /\ Ready(net')
<1>1. Connected(net, net', c) /\ net'.strat = net.strat
  BY ConnectMoves DEF IInv, NetInv, Sane, Base, Retry, SameBut
<1>2. net.cl[c].phase = "waiting" /\ net.cl[c].failures # -1
  BY DEF Retry, Ready, Settled
<1> QED
  BY <1>1, <1>2, OneUses DEF Connected, Used, Resting

LEMMA JobReceivedUses ==
    ASSUME IInv, Ready(net), NEW c \in Clients, JobReceived(c)
    PROVE  Uses(net, net') /\ Ready(net')
<1>1. c \in ClientsOf("user") => IsActive(net, "user")
  BY OfStrategy
  DEF IInv, NetInv, Sane, OnlyActive, OnlyActiveOf, JobReceived, IsActive,
      Strategies
<1>2. SameClients(net, net')
  BY <1>1, ClientJobKeeps DEF IInv, NetInv, JobReceived
<1> QED
  BY <1>2, SameUses DEF SameClients

(* The client that failed waits, and the backup may be connected: one at rest *)
(* or still looking up its host is used as PoolClient allows, any other one   *)
(* that was disconnected is overtaken.                                        *)
LEMMA ClosedUses ==
    ASSUME IInv, Ready(net), NEW c \in Clients, Closed(c)
    PROVE  /\ \A d \in Clients : Stepped(d)
           /\ Ready(net')
<1> DEFINE f == IF net.cl[c].failures \in {-1, Enough(c)} THEN net.cl[c].failures
                ELSE net.cl[c].failures + 1
           k == [phase |-> IF f = -1 THEN "off" ELSE "waiting", failures |-> f]
           m == Phase(net, c, k)
<1>1. f \in -1 .. Enough(c) /\ (f = -1 <=> net.cl[c].failures = -1)
  BY EnoughIs DEF IInv, NetInv, Sane, Base, Counted
<1>2. Enough(c) <= Retries
  BY PoolsAssumption DEF Enough
<1>3. net' = IF c[1] = "proxy" THEN ProxyClose(m, f)
             ELSE StrategyClose(m, c[1], c[2], f)
  BY DEF ClientClose, Phase, Closed
<1> HIDE DEF f
<1>4. /\ k \in ClientStates /\ k.failures = f
      /\ k.phase = IF f = -1 THEN "off" ELSE "waiting"
  BY <1>1, <1>2, EnoughIs, PoolsAssumption DEF ClientStates
<1> HIDE DEF k
<1>5. /\ Sane(m) /\ SameBut(net, m)
      /\ \A d \in Clients : m.cl[d] = IF d = c THEN k ELSE net.cl[d]
  BY <1>1, <1>4, PhaseKeeps DEF IInv, NetInv, Closed
<1> HIDE DEF m
<1>6. Uses(net, m) /\ Ready(m)
  BY <1>1, <1>4, <1>5, OneUses DEF SameBut, Closed, Used, Resting
<1>7. CASE c = Proxy
  <2> DEFINE l == [m.donate EXCEPT !.proxy = FALSE]
             d == Delete(m, l)
  <2>1. l \in Donation /\ ~l.proxy /\ l.state = m.donate.state
          /\ l.timer = m.donate.timer
    BY <1>5 DEF Sane, Base, Net, Donation
  <2>2. net' = m \/ net' = ConnectStrategy(d, "donate")
    BY <1>3, <1>5, <1>7, ProxyIs DEF ProxyClose, Delete, Sane, Base, Net
  <2> HIDE DEF l
  <2>3. /\ Sane(d) /\ d.strat = m.strat
        /\ \A b \in Clients : b # Proxy => d.cl[b] = m.cl[b]
    BY <1>5, <2>1, DeleteKeeps DEF Sane, Base, Timed
  <2>4. \A b \in ClientsOf("donate") : net.cl[b].phase = "off"
    BY <1>7 DEF IInv, NetInv, Sane, Base, ProxyOrPools, Closed
  <2>5. d.cl[Proxy] = NewClient
    BY <1>5, ProxyIs DEF Delete, Sane, Base, Net
  <2> HIDE DEF d
  <2>6. \A s \in Strategies : ReadyAt(d, s)
    BY <1>6, <2>3, ReadyKept, OfStrategy DEF Ready
  <2>7. CASE net' = m
    BY <1>6, <2>7 DEF Uses, Stepped
  <2>8. CASE net' = ConnectStrategy(d, "donate")
    <3> DEFINE b == <<"donate", d.strat["donate"].index>>
    <3>1. /\ b \in ClientsOf("donate") /\ Connected(d, net', b)
          /\ SameBut(d, net') /\ ReadyAt(net', "donate")
      BY <2>3, <2>6, <2>8, ConnectStrategyMoves DEF Strategies
    <3> HIDE DEF b
    <3>2. b \in Clients /\ b # Proxy
      BY <3>1, OfStrategy DEF Strategies
    <3>3. net'.cl[Proxy] = NewClient
      BY <2>5, <3>1, <3>2, ProxyIs DEF Connected
    <3>4. Used(net.cl[b], net'.cl[b])
      BY <2>4, <3>1 DEF Connected, Used, Resting
    <3>5. \A e \in Clients : e # Proxy /\ e # b => net'.cl[e] = net.cl[e]
      BY <1>5, <1>7, <2>3, <3>1 DEF Connected
    <3>6. ReadyAt(net', "user")
      BY <2>6, <3>1, ReadyKept, OfStrategy, OneOfTwo
      DEF Connected, SameBut, Strategies
    <3>7. Settled(net')
      BY <3>1, <3>3, <3>5 DEF Ready, Settled, Connected, NewClient
    <3> QED
      BY <3>1, <3>3, <3>4, <3>5, <3>6, <3>7
      DEF Stepped, Renewed, Used, Ready, Strategies
  <2> QED
    BY <2>2, <2>7, <2>8
<1>8. CASE c[1] \in Strategies /\ c \in ClientsOf(c[1])
  <2> DEFINE s == c[1]
             b == <<s, 1>>
  <2>1. c = <<s, c[2]>> /\ s # "proxy" /\ s \in Strategies
    BY <1>8, OfStrategy DEF Strategies
  <2>2. net' = StrategyClose(m, s, c[2], f)
    BY <1>3, <2>1
  <2>3. ReadyAt(m, s) /\ <<s, c[2]>> \in ClientsOf(s)
          /\ m.cl[<<s, c[2]>>].phase # "in"
    BY <1>4, <1>5, <1>6, <1>8, <2>1 DEF Ready
  <2> HIDE DEF s
  <2>4. /\ \/ net'.cl = m.cl
           \/ /\ c[2] = 0 /\ b \in ClientsOf(s)
              /\ m.strat[s].index = 0 /\ Connected(m, net', b)
        /\ \A t \in Strategies : t # s => net'.strat[t] = m.strat[t]
        /\ ReadyAt(net', s)
    BY <1>5, <2>1, <2>2, <2>3, CloseMoves
  <2>5. CASE net'.cl = m.cl
    <3>1. \A t \in Strategies : ReadyAt(net', t)
      BY <1>6, <2>4, <2>5, ReadyKept DEF Ready
    <3>2. Uses(net, net')
      BY <1>6, <2>5 DEF Uses
    <3> QED
      BY <3>1, <3>2, UsesReady DEF Uses, Stepped
  <2>6. CASE c[2] = 0 /\ b \in ClientsOf(s) /\ m.strat[s].index = 0
               /\ Connected(m, net', b)
    <3>1. b # c /\ Resting(m.cl[b]) /\ b \in Clients
      BY <2>1, <2>3, <2>6, OfStrategy DEF ReadyAt
    <3>2. m.cl[b] = net.cl[b]
      BY <1>5, <3>1
    <3>3. Stepped(b)
      <4> DEFINE p == net.cl[b]
      <4>1. p.phase \in {"off", "lookup", "login", "in", "closing", "waiting"}
        BY <3>1 DEF IInv, NetInv, Sane, Base, Net, ClientStates
      <4>2. p.phase \in {"waiting", "in"} => p.failures # -1
        BY <3>1 DEF Ready, Settled
      <4>3. net'.cl[b].phase = "lookup" /\ net'.cl[b].failures # -1
        BY <2>6 DEF Connected
      <4>4. CASE p.phase = "off" \/ (p.phase = "lookup" /\ p.failures = -1)
        BY <4>3, <4>4 DEF Used, Stepped
      <4>5. CASE p.failures = -1 /\ p.phase \in {"login", "closing"}
        <5>1. b # Proxy /\ b[2] = 1 /\ <<b[1], 0>> = c
          BY <2>1, <2>6, OfStrategy
        <5> QED
          BY <4>3, <4>5, <5>1 DEF Overtaken, Stepped
      <4> QED
        BY <3>1, <3>2, <4>1, <4>2, <4>4, <4>5 DEF Resting
    <3>4. \A d \in Clients : d # b => Used(net.cl[d], net'.cl[d])
      BY <1>6, <2>6 DEF Connected, Uses
    <3>5. ASSUME NEW t \in Strategies
          PROVE  ReadyAt(net', t)
      <4>1. t # s /\ <<t, 1>> \in ClientsOf(t) => net'.cl[<<t, 1>>] = m.cl[<<t, 1>>]
        BY <2>6, OfStrategy DEF Connected
      <4> QED
        BY <1>6, <2>4, <4>1, ReadyKept DEF Ready
    <3>6. Settled(net')
      BY <2>6, <3>4, UsedWaits DEF Ready, Settled, Connected
    <3> QED
      BY <3>3, <3>4, <3>5, <3>6 DEF Ready, Stepped
  <2> QED
    BY <2>4, <2>5, <2>6
<1> QED
  BY <1>7, <1>8, AnyClient

(* onLoginSuccess(): when a pool of the strategy's is active no backup is     *)
(* tried besides.                                                             *)
LEMMA LoginMoves ==
    ASSUME NEW n, Base(n), NEW s \in Strategies, NEW i, <<s, i>> \in ClientsOf(s),
           n.strat[s].active # -1 => n.strat[s].index = n.strat[s].active
    PROVE  LET m == StrategyLogin(n, s, i)
           IN  /\ \A d \in Clients :
                     \/ m.cl[d] = n.cl[d]
                     \/ d \in ClientsOf(s) /\ m.cl[d] = Ended(n.cl[d])
               /\ \A t \in Strategies : t # s => m.strat[t] = n.strat[t]
               /\ ReadyAt(m, s)
<1> DEFINE m   == StrategyLogin(n, s, i)
           was == n.strat[s].active
           now == IF i = 0 \/ was = -1 THEN i ELSE was
           others == {c \in ClientsOf(s) : c[2] \notin {0, now}}
           d   == Disconnect(n, others)
           k   == [index |-> now, active |-> now]
<1>1. n \in Net
  BY DEF Base
<1>2. CASE Single(s)
  <2>1. m.cl = n.cl /\ m.strat = [n.strat EXCEPT ![s].active = 0]
    BY <1>1, <1>2 DEF StrategyLogin, Net
  <2>2. /\ \A t \in Strategies : t # s => m.strat[t] = n.strat[t]
        /\ m.strat[s].active = 0 /\ m.strat[s].index = n.strat[s].index
    BY <1>1, <2>1 DEF Net, Strategies
  <2>3. n.strat[s].index = 0 /\ <<s, 1>> \notin ClientsOf(s)
    <3>1. <<s, n.strat[s].index>> \in ClientsOf(s)
      BY DEF Base, Chosen
    <3>2. \A c \in ClientsOf(s) : c = <<s, 0>>
      BY <1>2, SingleIs
    <3>3. <<s, n.strat[s].index>> = <<s, 0>> /\ <<s, 1>> # <<s, 0>>
      BY <3>1, <3>2
    <3> QED
      BY <3>2, <3>3
  <2> HIDE DEF m
  <2> QED
    BY <2>1, <2>2, <2>3 DEF ReadyAt, m
<1>3. CASE ~Single(s)
  <2>1. m = IF now = was THEN d ELSE Choose(d, s, k)
    BY <1>3 DEF StrategyLogin, Choose
  <2>2. others \in SUBSET Clients /\ others \subseteq ClientsOf(s)
    BY OfStrategy
  <2>3. Stopped(n, d, others) /\ SameBut(n, d)
    BY <1>1, <2>2, DisconnectMoves
  <2>4. i \in {0, 1} /\ was \in {-1, 0, 1} /\ now # -1
    BY <1>1, OfStrategy DEF Net
  <2>5. now = 0 /\ <<s, 1>> \in ClientsOf(s) => <<s, 1>> \in others
    OBVIOUS
  <2> HIDE DEF others
  <2>6. d.cl = [c \in Clients |-> d.cl[c]] /\ d.strat = n.strat
    BY <2>3 DEF Disconnect, SameBut
  <2> HIDE DEF d, k
  <2>7. /\ m.cl = d.cl
        /\ \A t \in Strategies : t # s => m.strat[t] = n.strat[t]
        /\ m.strat[s] = IF now = was THEN n.strat[s] ELSE k
    <3>1. CASE now = was
      BY <2>1, <2>6, <3>1
    <3>2. CASE now # was
      <4>1. m = [d EXCEPT !.strat[s] = k]
        BY <2>1, <3>2 DEF Choose
      <4>2. m.cl = d.cl /\ m.strat = [n.strat EXCEPT ![s] = k]
        BY <4>1, <2>6 DEF d, Disconnect
      <4> QED
        BY <1>1, <3>2, <4>2 DEF Net, Strategies
    <3> QED
      BY <3>1, <3>2
  <2>8. m.strat[s].index = now /\ m.strat[s].active = now
    BY <2>4, <2>7 DEF k
  <2> HIDE DEF m, now
  <2>9. ReadyAt(m, s)
    <3>1. ASSUME now = 0, <<s, 1>> \in ClientsOf(s)
          PROVE  Resting(m.cl[<<s, 1>>])
      BY <2>2, <2>3, <2>5, <2>7, <3>1, EndedRests DEF Stopped
    <3> QED
      BY <2>8, <3>1 DEF ReadyAt
  <2> QED
    BY <2>2, <2>3, <2>7, <2>9 DEF Stopped, m
<1> QED
  BY <1>2, <1>3

LEMMA LoggedInUses ==
    ASSUME IInv, Ready(net), NEW c \in Clients, LoggedIn(c)
    PROVE  Uses(net, net') /\ Ready(net')
<1> DEFINE k == [phase |-> "in", failures |-> 0]
           m == Phase(net, c, k)
           s == c[1]
<1>1. net'.cl = Told(net, c).cl /\ net'.strat = Told(net, c).strat
  BY ClientLoginKeeps DEF IInv, NetInv, LoggedIn
<1>2. Told(net, c) = IF c = Proxy THEN m ELSE StrategyLogin(m, s, c[2])
  BY DEF Told
<1>3. /\ k \in ClientStates /\ k.failures \in -1 .. Enough(c)
      /\ k.phase = "in" /\ k.failures = 0
  BY EnoughIs, PoolsAssumption DEF ClientStates
<1> HIDE DEF k
<1>4. /\ Base(m) /\ SameBut(net, m)
      /\ \A d \in Clients : m.cl[d] = IF d = c THEN k ELSE net.cl[d]
  BY <1>3, PhaseKeeps DEF IInv, NetInv, LoggedIn
<1> HIDE DEF m
<1>5. Used(net.cl[c], k) /\ Ended(k) = Ended(net.cl[c])
        /\ Used(net.cl[c], Ended(k))
  BY <1>3 DEF LoggedIn, Used, Ended
<1>6. CASE c = Proxy
  <2>1. net'.cl = m.cl /\ net'.strat = net.strat
    BY <1>1, <1>2, <1>4, <1>6 DEF SameBut
  <2>2. ASSUME NEW t \in Strategies
        PROVE  ReadyAt(net', t)
    BY <1>4, <1>6, <2>1, ReadyKept, OfStrategy DEF Ready
  <2>3. Uses(net, net')
    BY <1>4, <1>5, <2>1 DEF Uses, Used
  <2> QED
    BY <2>2, <2>3, UsesReady
<1>7. CASE s \in Strategies /\ c \in ClientsOf(s)
  <2>1. c = <<s, c[2]>> /\ c # Proxy
    BY <1>7, OfStrategy
  <2>2. m.strat[s].active # -1 => m.strat[s].index = m.strat[s].active
    BY <1>4, <1>7 DEF Ready, ReadyAt, SameBut
  <2> HIDE DEF s
  <2> DEFINE r == StrategyLogin(m, s, c[2])
  <2>3. <<s, c[2]>> \in ClientsOf(s)
    BY <1>7, <2>1
  <2>4. /\ \A d \in Clients :
              \/ r.cl[d] = m.cl[d]
              \/ d \in ClientsOf(s) /\ r.cl[d] = Ended(m.cl[d])
        /\ \A t \in Strategies : t # s => r.strat[t] = m.strat[t]
        /\ ReadyAt(r, s)
    BY <1>4, <1>7, <2>2, <2>3, LoginMoves
  <2>5. net'.cl = r.cl /\ net'.strat = r.strat
    BY <1>1, <1>2, <2>1
  <2> HIDE DEF r
  <2>6. ASSUME NEW d \in Clients
        PROVE  Used(net.cl[d], net'.cl[d])
    BY <1>4, <1>5, <2>4, <2>5 DEF Used
  <2>7. ASSUME NEW t \in Strategies
        PROVE  ReadyAt(net', t)
    <3>1. CASE t = s
      BY <2>4, <2>5, <3>1 DEF ReadyAt
    <3>2. CASE t # s
      <4>1. <<t, 1>> \in ClientsOf(t) => net'.cl[<<t, 1>>] = net.cl[<<t, 1>>]
        BY <1>4, <2>1, <2>4, <2>5, <3>2, OfStrategy, <1>7
      <4> QED
        BY <1>4, <2>4, <2>5, <3>2, <4>1, ReadyKept DEF Ready, SameBut
    <3> QED
      BY <3>1, <3>2
  <2> QED
    BY <2>6, <2>7, UsesReady DEF Uses
<1> QED
  BY <1>6, <1>7, AnyClient

LEMMA DonateTimerUses ==
    ASSUME IInv, Ready(net), NEW offered \in BOOLEAN, DonateTimer(offered)
    PROVE  Uses(net, net') /\ Ready(net')
<1> DEFINE k == [net.donate EXCEPT !.timer = FALSE]
           m == Donate(net, k)
<1>1. k \in Donation /\ k.timer = FALSE /\ k.state = net.donate.state
        /\ k.proxy = net.donate.proxy
  BY DEF IInv, NetInv, Sane, Base, Net, Donation
<1>2. net' = SetState(m, IF net.donate.state = "ACTIVE" THEN "WAIT" ELSE "CONNECT",
                      offered)
  BY DEF DonateTimer, Donate
<1> HIDE DEF k
<1>3. IF k.proxy THEN \A c \in ClientsOf("donate") : net.cl[c].phase = "off"
      ELSE net.cl[Proxy].phase = "off"
  BY <1>1 DEF IInv, NetInv, Sane, Base, ProxyOrPools
<1>4. /\ Sane(m) /\ m.donate = k /\ m.cl = net.cl /\ m.strat = net.strat
  BY <1>1, <1>3, DonateKeeps DEF IInv, NetInv
<1> HIDE DEF m
<1>5. CASE net.donate.state = "ACTIVE"
  <2> DEFINE l == [m.donate EXCEPT !.state = "WAIT"]
             w == Donate(m, l)
  <2>1. l \in Donation /\ l.timer = FALSE /\ l.proxy = m.donate.proxy
    BY <1>1, <1>4 DEF Donation
  <2>2. net' = NetworkPause(w, "donate")
    BY <1>2, <1>5 DEF SetState, Donate
  <2> HIDE DEF l
  <2>3. Sane(w) /\ w.cl = m.cl /\ w.strat = m.strat
    BY <1>1, <1>3, <1>4, <2>1, DonateKeeps
  <2> HIDE DEF w
  <2>4. SameClients(w, net')
    BY <2>2, <2>3, NetworkPauseKeeps DEF Strategies
  <2> QED
    BY <1>4, <2>3, <2>4, SameUses DEF SameClients
<1>6. CASE net.donate.state # "ACTIVE"
  <2> DEFINE l(b) == [m.donate EXCEPT !.state = "CONNECT", !.proxy = b]
             w(b) == Donate(m, l(b))
  <2>1. net.donate.state = "IDLE" /\ ~net.donate.proxy
    BY <1>6 DEF IInv, NetInv, NoIdleProxy, Sane, Base, Timed, DonateTimer
  <2>2. /\ \A c \in ClientsOf("donate") : net.cl[c].phase = "off"
        /\ net.cl[Proxy].phase = "off"
    BY <2>1 DEF IInv, NetInv, Sane, Base, ProxyOrPools, DonateTimer, IdleIsLong
  <2>3. \A b \in BOOLEAN : l(b) \in Donation /\ ~l(b).timer /\ l(b).proxy = b
    BY <1>1, <1>4 DEF Donation
  <2>4. net' \in {Connect(w(TRUE), Proxy), ConnectStrategy(w(FALSE), "donate")}
    BY <1>2, <1>6 DEF SetState, Donate
  <2> HIDE DEF l
  <2>5. \A b \in BOOLEAN : Sane(w(b)) /\ w(b).cl = net.cl /\ w(b).strat = net.strat
    BY <1>4, <2>2, <2>3, DonateKeeps
  <2> HIDE DEF w
  <2>6. \A b \in BOOLEAN, s \in Strategies : ReadyAt(w(b), s)
    BY <2>5 DEF Ready, ReadyAt
  <2>7. CASE net' = Connect(w(TRUE), Proxy)
    <3>1. Connected(w(TRUE), net', Proxy) /\ SameBut(w(TRUE), net')
      BY <2>5, <2>7, ProxyIs, ConnectMoves DEF Sane, Base
    <3>2. Used(net.cl[Proxy], net'.cl[Proxy])
      BY <2>2, <3>1 DEF Connected, Used, Resting
    <3>3. Uses(net, net')
      BY <2>5, <3>1, <3>2 DEF Connected, Uses, Used
    <3>4. ASSUME NEW s \in Strategies
          PROVE  ReadyAt(net', s)
      <4>1. <<s, 1>> \in ClientsOf(s) => net'.cl[<<s, 1>>] = w(TRUE).cl[<<s, 1>>]
        BY <3>1, OfStrategy DEF Connected
      <4>2. ReadyAt(w(TRUE), s) /\ net'.strat[s] = w(TRUE).strat[s]
        BY <2>6, <3>1 DEF SameBut
      <4> QED
        BY <4>1, <4>2, ReadyKept
    <3> QED
      BY <3>3, <3>4, UsesReady
  <2>8. CASE net' = ConnectStrategy(w(FALSE), "donate")
    <3> DEFINE n == w(FALSE)
               b == <<"donate", n.strat["donate"].index>>
    <3>1. Sane(n) /\ n.cl = net.cl /\ \A s \in Strategies : ReadyAt(n, s)
      BY <2>5, <2>6
    <3>2. net' = ConnectStrategy(n, "donate")
      BY <2>8
    <3> HIDE DEF n
    <3>3. /\ b \in ClientsOf("donate") /\ Connected(n, net', b)
          /\ SameBut(n, net') /\ ReadyAt(net', "donate")
      BY <3>1, <3>2, ConnectStrategyMoves DEF Strategies
    <3> HIDE DEF b
    <3>4. b \in Clients /\ Used(net.cl[b], net'.cl[b])
      BY <2>2, <3>3, OfStrategy DEF Strategies, Connected, Used, Resting
    <3>5. Uses(net, net')
      BY <3>1, <3>3, <3>4 DEF Connected, Uses, Used
    <3>6. ReadyAt(net', "user")
      BY <3>1, <3>3, ReadyKept, OfStrategy, OneOfTwo
      DEF Connected, SameBut, Strategies
    <3> QED
      BY <3>3, <3>5, <3>6, UsesReady DEF Strategies
  <2> QED
    BY <2>4, <2>7, <2>8
<1> QED
  BY <1>5, <1>6

(* The donation's pools are disconnected, its proxy is new.                   *)
LEMMA DonateTickUses ==
    ASSUME IInv, Ready(net), DonateTick
    PROVE  /\ \A d \in Clients : Stepped(d)
           /\ Ready(net')
<1> DEFINE k == [net.donate EXCEPT !.state = "IDLE"]
           m == Donate(net, k)
           d == StopStrategy(m, "donate")
<1>1. k \in Donation /\ k.state = "IDLE" /\ k.proxy = net.donate.proxy
  BY DEF IInv, NetInv, Sane, Base, Net, Donation
<1>2. IF k.proxy THEN \A c \in ClientsOf("donate") : net.cl[c].phase = "off"
      ELSE net.cl[Proxy].phase = "off"
  BY <1>1 DEF IInv, NetInv, Sane, Base, ProxyOrPools
<1>3. net' = [d EXCEPT !.donate.timer = TRUE, !.donate.proxy = FALSE,
                       !.cl[Proxy] = NewClient]
  BY DEF DonateTick, SetState, Donate
<1> HIDE DEF k
<1>4. Sane(m) /\ m.cl = net.cl /\ m.strat = net.strat
  BY <1>1, <1>2, DonateKeeps DEF IInv, NetInv
<1> HIDE DEF m
<1>5. Ready(m)
  BY <1>4, SameUses
<1>6. /\ Sane(d) /\ Stopped(m, d, ClientsOf("donate")) /\ ReadyAt(d, "donate")
      /\ d.strat["user"] = m.strat["user"]
  BY <1>4, <1>5, StopKeeps, StopMoves DEF Ready, Strategies
<1> HIDE DEF d
<1>7. net'.strat = d.strat /\ net'.cl = [d.cl EXCEPT ![Proxy] = NewClient]
  BY <1>3, <1>6 DEF Sane, Base, Net
<1>8. \A c \in Clients : net'.cl[c] = IF c = Proxy THEN NewClient ELSE d.cl[c]
  BY <1>6, <1>7 DEF Sane, Base, Net
<1>9. \A c \in Clients : Stepped(c)
  BY <1>4, <1>6, <1>8 DEF Stopped, Used, Renewed, Stepped
<1>10. Settled(net')
  BY <1>4, <1>6, <1>8, EndedRests DEF Ready, Settled, Stopped, NewClient
<1>11. ReadyAt(net', "donate")
  BY <1>6, <1>7, <1>8, ReadyKept, ProxyIs, OfStrategy DEF Strategies
<1>12. ReadyAt(net', "user")
  <2>1. <<"user", 1>> \in ClientsOf("user")
          => net'.cl[<<"user", 1>>] = m.cl[<<"user", 1>>]
    BY <1>6, <1>8, OfStrategy, OneOfTwo DEF Stopped, Strategies
  <2> QED
    BY <1>5, <1>6, <1>7, <2>1, ReadyKept DEF Ready, Strategies
<1> QED
  BY <1>9, <1>10, <1>11, <1>12 DEF Ready, Strategies

(* A reload renews the user's clients.                                        *)
LEMMA ConfigChangedUses ==
    ASSUME IInv, Ready(net), ConfigChanged
    PROVE  /\ \A d \in Clients : Stepped(d)
           /\ Ready(net')
<1> DEFINE n == StopStrategy(net, "user")
           m == Reload(n)
           c == <<"user", m.strat["user"].index>>
<1>1. net' = ConnectStrategy(m, "user")
  BY DEF ConfigChanged, Reload
<1>2. /\ Sane(n) /\ Stopped(net, n, ClientsOf("user"))
      /\ n.strat["donate"] = net.strat["donate"]
  BY StopKeeps, StopMoves DEF IInv, NetInv, Ready, Strategies
<1> HIDE DEF n
<1>3. Sane(m)
  BY <1>2, ReloadKeeps
<1>4. /\ \A d \in Clients :
            m.cl[d] = IF d[1] = "user" THEN NewClient ELSE n.cl[d]
      /\ m.strat["user"] = NewStrategy /\ m.strat["donate"] = n.strat["donate"]
  <2> DEFINE k(d) == IF d[1] = "user" THEN NewClient ELSE n.cl[d]
  <2>1. m = [n EXCEPT !.strat["user"] = NewStrategy,
                      !.cl = [d \in Clients |-> k(d)]]
    BY DEF Reload
  <2> HIDE DEF k, m
  <2>2. /\ m.cl = [d \in Clients |-> k(d)]
        /\ m.strat = [n.strat EXCEPT !["user"] = NewStrategy]
    BY <1>2, <2>1 DEF Sane, Base, Net
  <2>3. /\ \A d \in Clients : m.cl[d] = k(d)
        /\ m.strat["user"] = NewStrategy /\ m.strat["donate"] = n.strat["donate"]
    BY <1>2, <2>2 DEF Sane, Base, Net, Strategies
  <2> QED
    BY <2>3 DEF k
<1> HIDE DEF m
<1>5. ReadyAt(m, "user")
  BY <1>4, OfStrategy
  DEF ReadyAt, NewStrategy, NewClient, Resting, Strategies
<1>6. /\ c \in ClientsOf("user") /\ Connected(m, net', c) /\ SameBut(m, net')
      /\ ReadyAt(net', "user")
  BY <1>1, <1>3, <1>5, ConnectStrategyMoves DEF Strategies
<1> HIDE DEF c
<1>7. \A d \in Clients : d[1] # "user" => net'.cl[d] = net.cl[d]
  BY <1>2, <1>4, <1>6, OfStrategy DEF Stopped, Connected, Strategies
<1>8. \A d \in Clients : Stepped(d)
  BY <1>7 DEF Used, Renewed, Stepped
<1>9. Settled(net')
  BY <1>4, <1>6, <1>7 DEF Ready, Settled, Connected, NewClient
<1>10. ReadyAt(net', "donate")
  <2>1. <<"donate", 1>> \in ClientsOf("donate")
          => net'.cl[<<"donate", 1>>] = net.cl[<<"donate", 1>>]
    BY <1>7, OfStrategy DEF Strategies
  <2> QED
    BY <1>2, <1>4, <1>6, <2>1, ReadyKept DEF Ready, SameBut, Strategies
<1> QED
  BY <1>6, <1>8, <1>9, <1>10 DEF Ready, Strategies

LEMMA ReadyInit == Init => Ready(net)
<1> SUFFICES ASSUME Init
             PROVE  Ready(net)
  OBVIOUS
<1> DEFINE n == [cl     |-> [c \in Clients |-> NewClient],
                 strat  |-> [s \in {"user", "donate"} |-> NewStrategy],
                 donate |-> [state |-> "IDLE", timer |-> TRUE, proxy |-> FALSE],
                 miner  |-> [active |-> FALSE, index |-> 0, from |-> Nobody]]
           c == <<"user", 0>>
<1>1. NewClient \in ClientStates /\ NewStrategy \in Choice
        /\ NewStrategy.index = 0 /\ NewStrategy.active = -1
        /\ NewClient.phase = "off"
  BY PoolsAssumption DEF NewClient, NewStrategy, ClientStates, Choice
<1>2. /\ n \in Net
      /\ \A d \in Clients : n.cl[d] = NewClient
      /\ \A s \in Strategies : n.strat[s] = NewStrategy
  BY <1>1 DEF Net, Choice, Strategies
<1>3. net = Connect(n, c)
  BY <1>1, <1>2 DEF Init, ConnectStrategy, Strategies
<1> HIDE DEF n
<1>4. c \in Clients
  BY FirstPool, OfStrategy DEF Strategies
<1>5. Connected(n, net, c) /\ SameBut(n, net)
  BY <1>2, <1>3, <1>4, ConnectMoves
<1>6. \A d \in Clients : net.cl[d] # NewClient => d = c
  BY <1>2, <1>5 DEF Connected
<1>7. Settled(net)
  BY <1>1, <1>5, <1>6 DEF Connected, Settled
<1>8. ASSUME NEW s \in Strategies
      PROVE  ReadyAt(net, s)
  BY <1>1, <1>2, <1>5, <1>6, OfStrategy DEF ReadyAt, Resting, SameBut
<1> QED
  BY <1>7, <1>8 DEF Ready

LEMMA UsesStep ==
    ASSUME IInv, Ready(net), [Next]_vars
    PROVE  /\ \A d \in Clients : Stepped(d)
           /\ Ready(net')
<1>1. CASE \E c \in Clients : Resolved(c)
  BY <1>1, ResolvedUses DEF Uses, Stepped
<1>2. CASE \E c \in Clients : Dropped(c)
  BY <1>2, DroppedUses DEF Uses, Stepped
<1>3. CASE \E c \in Clients : Closed(c)
  BY <1>3, ClosedUses
<1>4. CASE \E c \in Clients : LoggedIn(c)
  BY <1>4, LoggedInUses DEF Uses, Stepped
<1>5. CASE \E c \in Clients : JobReceived(c)
  BY <1>5, JobReceivedUses DEF Uses, Stepped
<1>6. CASE \E c \in Clients : Retry(c)
  BY <1>6, RetryUses DEF Uses, Stepped
<1>7. CASE \E offered \in BOOLEAN : DonateTimer(offered)
  BY <1>7, DonateTimerUses DEF Uses, Stepped
<1>8. CASE DonateTick
  BY <1>8, DonateTickUses
<1>9. CASE ConfigChanged
  BY <1>9, ConfigChangedUses
<1>10. CASE ShareFound \/ ShareDelivered
  BY <1>10, SameUses DEF Uses, Stepped, ShareFound, ShareDelivered
<1>11. CASE UNCHANGED vars
  BY <1>11, SameUses DEF Uses, Stepped, vars
<1> QED
  BY <1>1, <1>2, <1>3, <1>4, <1>5, <1>6, <1>7, <1>8, <1>9, <1>10, <1>11
  DEF Next

(* In whatever order pools fail and log in, donations begin and end and the   *)
(* configuration changes, every client is connected, disconnected and left to *)
(* try again as PoolClient allows, but for a backup that its strategy         *)
(* connects over a socket it still has (FailoverStrategy::onClose).           *)
THEOREM ClientsUsed == Spec => UsesPoolClients
<1>1. IInv /\ Ready(net) /\ [Next]_vars
        => [\A c \in Clients :
               \/ Seen(c)!Next \/ UNCHANGED Seen(c)!vars
               \/ Renewed(c) \/ Overtaken(c)]_vars
  <2> SUFFICES ASSUME IInv, Ready(net), [Next]_vars, NEW c \in Clients
               PROVE  \/ Seen(c)!Next \/ UNCHANGED Seen(c)!vars
                      \/ Renewed(c) \/ Overtaken(c)
    OBVIOUS
  <2>1. net.cl[c].phase # "deleted"
    BY DEF IInv, NetInv, Sane, Base, Net, ClientStates
  <2>2. Stepped(c)
    BY UsesStep
  <2> QED
    BY <2>1, <2>2, UsedIs DEF Stepped
<1>2. IInv /\ Ready(net) /\ [Next]_vars => Ready(net)'
  BY UsesStep
<1> QED
  BY <1>1, <1>2, ReadyInit, Invariance, PTL DEF Spec, UsesPoolClients
=============================================================================
