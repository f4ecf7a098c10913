------------------------ MODULE StratumClientProofs --------------------------
(* Proofs about the connections to a pool.  StratumClient, for any number of  *)
(* sockets: its type invariant, that every loss of a session is announced,    *)
(* and, without a redirection, that there is one socket only, that the client *)
(* implements PoolClient and never waits for nothing.  SelfSelect, for any    *)
(* jobs, templates and retries: its type invariant, that a template fits its  *)
(* job, that a job is given only to who takes the client for open, and that   *)
(* no job is forgotten.                                                       *)

EXTENDS StratumClient, SelfSelect, SequenceTheorems, TLAPS

States == {"Unconnected", "HostLookup", "Connecting", "Connected", "Closing",
           "Reconnecting"}

Client == [state     : States,
           failures  : {-1, 0, 1},
           expire    : BOOLEAN,
           keepAlive : BOOLEAN,
           listener  : BOOLEAN,
           gone      : BOOLEAN,
           rpcId     : BOOLEAN,
           dns       : BOOLEAN,
           socket    : Sockets \cup {NoSocket},
           sock      : [Sockets -> {"none", "connecting", "open", "closing", "deaf"}],
           asked     : Sockets \cup {NoSocket},
           told      : BOOLEAN]

(* m_socket is a socket that exists, and who connects or is connected has one *)
SocketLives(m) ==
    /\ m.socket # NoSocket => m.sock[m.socket] # "none"
    /\ m.state \in {"Connecting", "Connected"} => m.socket # NoSocket

(* A socket that connects is m_socket, and the client waits for it.           *)
Connects(m) ==
    \A s \in Sockets :
        m.sock[s] = "connecting" => s = m.socket /\ m.state = "Connecting"

(* While the host is looked up, the client neither connects nor is connected, *)
(* and nobody takes it for logged in.                                         *)
LooksUp(m) == m.dns => m.state \notin {"Connecting", "Connected"} /\ ~m.told

(* A login is answered on m_socket of a connected client.                     *)
Asks(m) ==
    \A s \in Sockets :
        m.asked = s /\ m.sock[s] = "open" => s = m.socket /\ m.state = "Connected"

Announced(m) ==
    m.told /\ Alive(m) =>
        m.state \in {"Connected", "Closing"} /\ m.socket # NoSocket

(* Before a redirection: one socket, and none when the client is not          *)
(* connected or looks up its host.                                            *)
One(m) == \A s \in Sockets : m.sock[s] # "none" => s = m.socket
Unsocketed(m) ==
    m.dns \/ m.state \in {"Unconnected", "HostLookup", "Reconnecting"}
        => m.socket = NoSocket

Sound(m) == SocketLives(m) /\ Connects(m) /\ LooksUp(m) /\ Asks(m) /\ Announced(m)

IInv ==
    /\ c \in Client /\ redirects \in 0 .. MaxRedirects
    /\ Sound(c)
    /\ redirects = 0 => One(c) /\ Unsocketed(c)

-----------------------------------------------------------------------------
(* What the methods keep                                                      *)

OneIfNone(m, n) == One(m) /\ Unsocketed(m) => One(n) /\ Unsocketed(n)

LEMMA CloseKeeps ==
    ASSUME NEW m \in Client, Sound(m)
    PROVE  close(m) \in Client /\ Sound(close(m)) /\ OneIfNone(m, close(m))
<1>1. CASE m.state \in {"Closing", "Unconnected"} \/ m.socket = NoSocket
  BY <1>1 DEF close, OneIfNone
<1>2. CASE ~(m.state \in {"Closing", "Unconnected"} \/ m.socket = NoSocket)
  <2> DEFINE n == [m EXCEPT !.state = "Closing", !.sock[m.socket] = "closing"]
  <2>1. close(m) = n
    BY <1>2 DEF close
  <2>2. m.socket \in Sockets /\ m.sock \in [Sockets -> {"none", "connecting", "open", "closing", "deaf"}]
    BY <1>2 DEF Client
  <2>3. /\ n \in Client
        /\ n.state = "Closing" /\ n.sock = [m.sock EXCEPT ![m.socket] = "closing"]
        /\ n.socket = m.socket /\ n.dns = m.dns /\ n.told = m.told
        /\ n.asked = m.asked /\ n.listener = m.listener /\ n.gone = m.gone
    BY <2>2 DEF Client, States
  <2>4. \A s \in Sockets : n.sock[s] = IF s = m.socket THEN "closing" ELSE m.sock[s]
    BY <2>2, <2>3
  <2> HIDE DEF n
  <2>5. Sound(n)
    BY <1>2, <2>2, <2>3, <2>4
    DEF Sound, SocketLives, Connects, LooksUp, Asks, Announced, Alive
  <2>6. OneIfNone(m, n)
    BY <1>2, <2>3, <2>4 DEF OneIfNone, One, Unsocketed
  <2> QED
    BY <2>1, <2>3, <2>5, <2>6
<1> QED
  BY <1>1, <1>2

LEMMA DisconnectKeeps ==
    ASSUME NEW m \in Client, Sound(m)
    PROVE  /\ disconnect(m) \in Client /\ Sound(disconnect(m))
           /\ OneIfNone(m, disconnect(m))
<1> DEFINE n == [m EXCEPT !.keepAlive = FALSE, !.expire = FALSE, !.failures = -1,
                          !.told = FALSE]
<1>1. n \in Client
  BY DEF Client
<1>2. /\ n.state = m.state /\ n.sock = m.sock /\ n.socket = m.socket
      /\ n.dns = m.dns /\ n.told = FALSE /\ n.asked = m.asked
  BY DEF Client
<1> HIDE DEF n
<1>3. Sound(n)
  BY <1>2 DEF Sound, SocketLives, Connects, LooksUp, Asks, Announced
<1>4. One(m) /\ Unsocketed(m) => One(n) /\ Unsocketed(n)
  BY <1>2 DEF One, Unsocketed
<1>5. disconnect(m) = close(n)
  BY DEF disconnect, n
<1> QED
  BY <1>1, <1>3, <1>4, <1>5, CloseKeeps DEF OneIfNone

(* A client that waits for its next try has nothing that connects and no      *)
(* login that could still be answered.                                        *)
LEMMA ReconnectKeeps ==
    ASSUME NEW m \in Client, SocketLives(m), Connects(m), Asks(m),
           m.dns => m.state \notin {"Connecting", "Connected"},
           m.listener => \A s \in Sockets :
               m.sock[s] # "connecting" /\ (m.asked = s => m.sock[s] # "open")
    PROVE  /\ reconnect(m) \in Client /\ Sound(reconnect(m))
           /\ One(m) /\ Unsocketed(m) /\ (m.listener => m.socket = NoSocket)
                  => One(reconnect(m)) /\ Unsocketed(reconnect(m))
<1>1. CASE ~m.listener
  <2> DEFINE n == [m EXCEPT !.gone = TRUE, !.dns = FALSE]
  <2>1. /\ n \in Client /\ n.state = m.state /\ n.sock = m.sock /\ n.gone = TRUE
        /\ n.socket = m.socket /\ n.dns = FALSE /\ n.asked = m.asked
    BY DEF Client
  <2>2. reconnect(m) = n
    BY <1>1 DEF reconnect
  <2> HIDE DEF n
  <2> QED
    BY <2>1, <2>2 DEF Sound, SocketLives, Connects, LooksUp, Asks, Announced,
                      Alive, One, Unsocketed
<1>2. CASE m.listener /\ m.failures = -1
  <2> DEFINE n == [m EXCEPT !.keepAlive = FALSE, !.told = FALSE]
  <2>1. /\ n \in Client /\ n.state = m.state /\ n.sock = m.sock
        /\ n.socket = m.socket /\ n.dns = m.dns /\ n.asked = m.asked
        /\ n.told = FALSE
    BY DEF Client
  <2>2. reconnect(m) = n
    BY <1>2 DEF reconnect
  <2> HIDE DEF n
  <2> QED
    BY <2>1, <2>2 DEF Sound, SocketLives, Connects, LooksUp, Asks, Announced,
                      One, Unsocketed
<1>3. CASE m.listener /\ m.failures # -1
  <2> DEFINE n == [setState(m, "Reconnecting") EXCEPT
                       !.keepAlive = FALSE, !.failures = 1, !.told = FALSE]
  <2>1. /\ n \in Client /\ n.state = "Reconnecting" /\ n.sock = m.sock
        /\ n.socket = m.socket /\ n.dns = m.dns /\ n.asked = m.asked
        /\ n.told = FALSE
    BY DEF Client, States, setState
  <2>2. reconnect(m) = n
    BY <1>3 DEF reconnect
  <2> HIDE DEF n
  <2>3. \A s \in Sockets :
            n.sock[s] # "connecting" /\ (n.asked = s => n.sock[s] # "open")
    BY <1>3, <2>1
  <2>4. Sound(n)
    BY <2>1, <2>3 DEF Sound, SocketLives, Connects, LooksUp, Asks, Announced
  <2> QED
    BY <1>3, <2>1, <2>2, <2>4 DEF One, Unsocketed
<1> QED
  BY <1>1, <1>2, <1>3

(* A host is looked up by a client that neither connects nor is connected.    *)
LEMMA ResolveKeeps ==
    ASSUME NEW m \in Client, Sound(m), ~m.told,
           m.state \notin {"Connecting", "Connected"}
    PROVE  /\ resolve(m) \in Client /\ Sound(resolve(m))
           /\ One(m) /\ m.socket = NoSocket => One(resolve(m)) /\ Unsocketed(resolve(m))
<1> DEFINE n == resolve(m)
<1>1. /\ n \in Client /\ n.state = "HostLookup" /\ n.sock = m.sock
      /\ n.socket = m.socket /\ n.dns = TRUE /\ n.asked = m.asked
      /\ n.told = m.told
  BY DEF Client, States, setState, resolve
<1> HIDE DEF n
<1>2. Sound(n)
  BY <1>1 DEF Sound, SocketLives, Connects, LooksUp, Asks, Announced
<1> QED
  BY <1>1, <1>2 DEF One, Unsocketed, n

LEMMA SendKeeps ==
    ASSUME NEW m \in Client, Sound(m), NEW written \in BOOLEAN
    PROVE  /\ send(m, written) \in Client /\ Sound(send(m, written))
           /\ OneIfNone(m, send(m, written))
<1> DEFINE n == [m EXCEPT !.expire = TRUE]
<1>1. /\ n \in Client /\ n.state = m.state /\ n.sock = m.sock
      /\ n.socket = m.socket /\ n.dns = m.dns /\ n.asked = m.asked
      /\ n.told = m.told /\ n.listener = m.listener /\ n.gone = m.gone
  BY DEF Client
<1>2. send(m, written) \in {m, n, close(m)}
  BY DEF send
<1> HIDE DEF n
<1>3. Sound(n) /\ OneIfNone(m, n)
  BY <1>1 DEF Sound, SocketLives, Connects, LooksUp, Asks, Announced, Alive,
              OneIfNone, One, Unsocketed
<1> QED
  BY <1>1, <1>2, <1>3, CloseKeeps DEF OneIfNone

-----------------------------------------------------------------------------
(* The steps                                                                  *)

LEMMA KeptInit == Init => IInv
BY SocketAssumption DEF Init, IInv, Client, States, Sound, SocketLives, Connects,
   LooksUp, Asks, Announced, One, Unsocketed

LEMMA Primed ==
    ASSUME IInv, redirects' = redirects, c' \in Client, Sound(c'),
           OneIfNone(c, c') \/ (redirects = 0 => One(c') /\ Unsocketed(c'))
    PROVE  IInv'
BY DEF IInv, Sound, SocketLives, Connects, LooksUp, Asks, Announced, Alive,
       OneIfNone, One, Unsocketed

(* A new socket, for a client that neither connects nor is connected          *)
LEMMA ResolvedKeeps == ASSUME IInv, Resolved PROVE IInv'
<1> DEFINE m == [c EXCEPT !.dns = FALSE]
<1>1. /\ m \in Client /\ m.state = c.state /\ m.sock = c.sock
      /\ m.socket = c.socket /\ m.dns = FALSE /\ m.asked = c.asked
      /\ m.told = c.told /\ m.listener = c.listener /\ m.gone = c.gone
  BY DEF IInv, Client
<1>2. c.dns /\ redirects' = redirects
  BY DEF Resolved
<1>3. m.state \notin {"Connecting", "Connected"} /\ ~m.told
  BY <1>1, <1>2 DEF IInv, Sound, LooksUp
<1>4. c' = reconnect(m)
        \/ \E s \in Sockets : c.sock[s] = "none" /\ c' = connectTo(m, s)
  BY DEF Resolved
<1> HIDE DEF m
<1>5. SocketLives(m) /\ Connects(m) /\ Asks(m)
  BY <1>1 DEF IInv, Sound, SocketLives, Connects, Asks
<1>6. redirects = 0 => One(m) /\ Unsocketed(m) /\ m.socket = NoSocket
  BY <1>1, <1>2 DEF IInv, One, Unsocketed
<1>7. \A s \in Sockets : m.sock[s] # "connecting" /\ (m.asked = s => m.sock[s] # "open")
  BY <1>3, <1>5 DEF Connects, Asks
<1>8. CASE c' = reconnect(m)
  BY <1>1, <1>2, <1>3, <1>5, <1>6, <1>7, <1>8, ReconnectKeeps, Primed
<1>9. ASSUME NEW s \in Sockets, c' = connectTo(m, s) PROVE IInv'
  <2>1. /\ c' \in Client /\ c'.state = "Connecting"
        /\ c'.sock = [m.sock EXCEPT ![s] = "connecting"]
        /\ c'.socket = s /\ c'.dns = FALSE /\ c'.asked = m.asked
        /\ c'.told = m.told
    BY <1>1, <1>9 DEF Client, States, connectTo, setState
  <2>2. \A t \in Sockets : c'.sock[t] = IF t = s THEN "connecting" ELSE m.sock[t]
    BY <1>1, <2>1 DEF Client
  <2>3. Sound(c')
    BY <1>3, <1>7, <2>1, <2>2, SocketAssumption
    DEF Sound, SocketLives, Connects, LooksUp, Asks, Announced
  <2>4. redirects = 0 => One(c') /\ Unsocketed(c')
    BY <1>6, <2>1, <2>2, SocketAssumption DEF One, Unsocketed
  <2> QED
    BY <1>2, <2>1, <2>3, <2>4, Primed
<1> QED
  BY <1>4, <1>8, <1>9

(* The next three are about a step that changes one socket: it becomes deaf,  *)
(* is open, or is gone.                                                       *)
LEMMA DeafKeeps ==
    ASSUME NEW m \in Client, Sound(m), NEW s \in Sockets, m.sock[s] # "none"
    PROVE  LET n == [m EXCEPT !.sock[s] = "deaf"]
           IN  n \in Client /\ Sound(n) /\ OneIfNone(m, n)
<1> DEFINE n == [m EXCEPT !.sock[s] = "deaf"]
<1>1. /\ n \in Client /\ n.state = m.state
      /\ n.sock = [m.sock EXCEPT ![s] = "deaf"]
      /\ n.socket = m.socket /\ n.dns = m.dns /\ n.asked = m.asked
      /\ n.told = m.told /\ n.listener = m.listener /\ n.gone = m.gone
  BY DEF Client
<1>2. \A t \in Sockets : n.sock[t] = IF t = s THEN "deaf" ELSE m.sock[t]
  BY <1>1 DEF Client
<1> HIDE DEF n
<1>3. m.socket # NoSocket => m.socket \in Sockets
  BY DEF Client
<1>4. Sound(n)
  BY <1>1, <1>2, <1>3 DEF Sound, SocketLives, Connects, LooksUp, Asks, Announced,
                          Alive
<1>5. OneIfNone(m, n)
  BY <1>1, <1>2 DEF OneIfNone, One, Unsocketed
<1> QED
  BY <1>1, <1>4, <1>5 DEF n

LEMMA RefusedKeeps ==
    ASSUME IInv, NEW s \in Sockets, Refused(s)
    PROVE  IInv'
<1> DEFINE m == [c EXCEPT !.sock[s] = "deaf"]
<1>1. m \in Client /\ Sound(m) /\ OneIfNone(c, m)
  BY DeafKeeps DEF Refused, IInv
<1>2. c' \in {m, close(m)} /\ redirects' = redirects
  BY DEF Refused
<1> HIDE DEF m
<1>3. c' \in Client /\ Sound(c') /\ OneIfNone(c, c')
  BY <1>1, <1>2, CloseKeeps DEF OneIfNone
<1> QED
  BY <1>2, <1>3, Primed

LEMMA AcceptedKeeps ==
    ASSUME IInv, NEW s \in Sockets, NEW written \in BOOLEAN, Accepted(s, written)
    PROVE  IInv'
<1>1. s = c.socket /\ c.state = "Connecting"
  BY DEF Accepted, IInv, Sound, Connects
<1> DEFINE m == [setState(c, "Connected") EXCEPT !.sock[s] = "open", !.asked = s]
<1>2. /\ m \in Client /\ m.state = "Connected"
      /\ m.sock = [c.sock EXCEPT ![s] = "open"]
      /\ m.socket = s /\ m.dns = c.dns /\ m.asked = s /\ m.told = c.told
  BY <1>1 DEF IInv, Client, States, setState
<1>3. c' = send(m, written) /\ redirects' = redirects
  BY <1>1 DEF Accepted
<1> HIDE DEF m
<1>4. \A t \in Sockets : m.sock[t] = IF t = s THEN "open" ELSE c.sock[t]
  BY <1>2 DEF IInv, Client
<1>5. s # NoSocket
  BY SocketAssumption
<1>6. Sound(m)
  BY <1>1, <1>2, <1>4, <1>5 DEF IInv, Sound, SocketLives, Connects, LooksUp, Asks,
                                Announced
<1>7. redirects = 0 => One(m) /\ Unsocketed(m)
  BY <1>1, <1>2, <1>4, <1>5 DEF IInv, One, Unsocketed, Sound, LooksUp
<1>8. /\ c' \in Client /\ Sound(c')
      /\ redirects' = 0 => One(c') /\ Unsocketed(c')
  BY <1>2, <1>3, <1>6, <1>7, SendKeeps DEF OneIfNone
<1> QED
  BY <1>3, <1>8, Primed

(* The close callback                                                         *)
LEMMA ClosedKeeps ==
    ASSUME IInv, NEW s \in Sockets, Closed(s)
    PROVE  IInv'
<1> DEFINE m == [setState(c, "Unconnected") EXCEPT
        !.socket = NoSocket,
        !.sock = [t \in Sockets |->
            IF t = s THEN "none" ELSE IF t = c.socket THEN "deaf" ELSE c.sock[t]],
        !.asked = IF c.asked = s THEN NoSocket ELSE c.asked]
<1>1. /\ m \in Client /\ m.state = "Unconnected" /\ m.socket = NoSocket
      /\ m.sock = [t \in Sockets |->
            IF t = s THEN "none" ELSE IF t = c.socket THEN "deaf" ELSE c.sock[t]]
      /\ m.asked \in {NoSocket, c.asked} /\ m.dns = c.dns
      /\ m.listener = c.listener
  BY DEF IInv, Client, States, setState
<1>2. c' = reconnect(m) /\ redirects' = redirects
  BY DEF Closed, onClose, setState, IInv, Client
<1> HIDE DEF m
<1>3. \A t \in Sockets : m.sock[t] # "connecting"
                           /\ (m.asked = t => m.sock[t] # "open")
  BY <1>1, SocketAssumption DEF IInv, Sound, Connects, Asks
<1>4. SocketLives(m) /\ Connects(m) /\ Asks(m)
  BY <1>1, <1>3 DEF SocketLives, Connects, Asks
<1>5. redirects = 0 => One(m) /\ Unsocketed(m)
  BY <1>1 DEF Closed, IInv, One, Unsocketed
<1>6. /\ c' \in Client /\ Sound(c')
      /\ redirects' = 0 => One(c') /\ Unsocketed(c')
  BY <1>1, <1>2, <1>3, <1>4, <1>5, ReconnectKeeps
<1> QED
  BY <1>2, <1>6, Primed

(* A line that is read                                                        *)
LEMMA StartTimeoutKeeps ==
    ASSUME NEW m \in Client, Sound(m)
    PROVE  /\ startTimeout(m) \in Client /\ Sound(startTimeout(m))
           /\ OneIfNone(m, startTimeout(m))
<1> DEFINE n == startTimeout(m)
<1>1. /\ n \in Client /\ n.state = m.state /\ n.sock = m.sock
      /\ n.socket = m.socket /\ n.dns = m.dns /\ n.asked = m.asked
      /\ n.told = m.told /\ n.listener = m.listener /\ n.gone = m.gone
  BY SocketAssumption DEF Client, startTimeout
<1> HIDE DEF n
<1>2. Sound(n) /\ OneIfNone(m, n)
  BY <1>1 DEF Sound, SocketLives, Connects, LooksUp, Asks, Announced, Alive,
              OneIfNone, One, Unsocketed
<1> QED
  BY <1>1, <1>2 DEF n

LEMMA LineKeeps ==
    ASSUME IInv, NEW s \in Sockets, Line(s)
    PROVE  IInv'
<1>1. c \in Client /\ Sound(c) /\ redirects' = redirects
  BY DEF IInv, Line
<1>2. CASE ~c.listener
  <2>1. c' = reconnect(c)
    BY <1>2 DEF Line
  <2>2. /\ c' \in Client /\ Sound(c')
        /\ redirects' = 0 => One(c') /\ Unsocketed(c')
    BY <1>1, <1>2, <2>1, ReconnectKeeps DEF IInv, Sound, LooksUp
  <2> QED
    BY <1>1, <2>2, Primed
<1>3. CASE c.listener
  <2> DEFINE m == startTimeout(c)
  <2>1. m \in Client /\ Sound(m) /\ OneIfNone(c, m)
    BY <1>1, StartTimeoutKeeps
  <2>2. c' \in {m, close(m)}
    BY <1>3 DEF Line
  <2> HIDE DEF m
  <2>3. c' \in Client /\ Sound(c') /\ OneIfNone(c, c')
    BY <2>1, <2>2, CloseKeeps DEF OneIfNone
  <2> QED
    BY <1>1, <2>3, Primed
<1> QED
  BY <1>2, <1>3

LEMMA LoginAnsweredKeeps ==
    ASSUME IInv, NEW s \in Sockets, LoginAnswered(s)
    PROVE  IInv'
<1>1. s = c.socket /\ c.state = "Connected" /\ s # NoSocket
  BY SocketAssumption DEF LoginAnswered, IInv, Sound, Asks
<1> DEFINE m == startTimeout(c)
<1>2. m \in Client /\ m.state = c.state /\ m.sock = c.sock /\ m.socket = c.socket
        /\ m.dns = c.dns
  BY SocketAssumption DEF IInv, Client, startTimeout
<1>3. c' = [m EXCEPT !.asked = NoSocket, !.rpcId = TRUE, !.failures = 0, !.told = TRUE]
        /\ redirects' = redirects
  BY DEF LoginAnswered
<1> HIDE DEF m
<1>4. /\ c' \in Client /\ c'.state = c.state /\ c'.sock = c.sock
      /\ c'.socket = c.socket /\ c'.dns = c.dns /\ c'.asked = NoSocket
  BY <1>2, <1>3 DEF Client
<1>5. ~c.dns
  BY <1>1 DEF IInv, Sound, LooksUp
<1> QED
  BY <1>1, <1>3, <1>4, <1>5, SocketAssumption
  DEF IInv, Sound, SocketLives, Connects, LooksUp, Asks, Announced, One, Unsocketed

(* The redirection leaves the socket open.                                    *)
LEMMA RedirectedKeeps ==
    ASSUME IInv, NEW s \in Sockets, Redirected(s)
    PROVE  IInv'
<1>1. redirects = 0 /\ redirects' = 1 /\ MaxRedirects = 1
  BY SocketAssumption DEF Redirected, IInv
<1>2. s = c.socket /\ c.sock[s] = "open"
  BY <1>1 DEF Redirected, IInv, One
<1> DEFINE m == startTimeout(c)
<1>3. m \in Client /\ Sound(m) /\ m.sock = c.sock /\ m.socket = c.socket
  <2>1. m.sock = c.sock /\ m.socket = c.socket
    BY DEF IInv, Client, startTimeout
  <2> QED
    BY <2>1, StartTimeoutKeeps DEF IInv
<1>4. c' = [reconnect(m) EXCEPT !.asked = NoSocket]
  BY DEF Redirected
<1>5. m.listener
  BY DEF Redirected, Alive, IInv, Client, startTimeout
<1> HIDE DEF m
<1> DEFINE n == [m EXCEPT !.asked = NoSocket]
<1>6. /\ n \in Client /\ n.sock = m.sock /\ n.socket = m.socket
      /\ n.state = m.state /\ n.dns = m.dns /\ n.asked = NoSocket
      /\ n.listener = m.listener /\ n.failures = m.failures
  BY <1>3 DEF Client
<1>7. c' = reconnect(n)
  BY <1>3, <1>4, <1>5 DEF reconnect, setState, Client
<1> HIDE DEF n
<1>8. \A t \in Sockets : n.sock[t] # "connecting" /\ n.asked # t
  BY <1>1, <1>2, <1>3, <1>6, SocketAssumption DEF IInv, One
<1>9. /\ SocketLives(n) /\ Connects(n) /\ Asks(n)
      /\ n.dns => n.state \notin {"Connecting", "Connected"}
  BY <1>3, <1>6, <1>8 DEF Sound, SocketLives, Connects, Asks, LooksUp
<1>10. c' \in Client /\ Sound(c')
  BY <1>6, <1>7, <1>8, <1>9, ReconnectKeeps
<1> QED
  BY <1>1, <1>10 DEF IInv, Sound, SocketLives, Connects, LooksUp, Asks, Announced,
                     Alive

LEMMA ReadErrorKeeps ==
    ASSUME IInv, NEW s \in Sockets, ReadError(s)
    PROVE  IInv'
<1> DEFINE m == [c EXCEPT !.sock[s] = "deaf"]
<1>1. m \in Client /\ Sound(m) /\ OneIfNone(c, m)
  BY DeafKeeps DEF ReadError, IInv
<1>2. c' = close(m) /\ redirects' = redirects
  BY DEF ReadError
<1> HIDE DEF m
<1>3. c' \in Client /\ Sound(c') /\ OneIfNone(c, c')
  BY <1>1, <1>2, CloseKeeps DEF OneIfNone
<1> QED
  BY <1>2, <1>3 DEF IInv, Sound, SocketLives, Connects, LooksUp, Asks, Announced,
                    Alive, OneIfNone, One, Unsocketed

(* What the strategy and the timer do                                         *)
LEMMA ConnectKeeps == ASSUME IInv, Connect PROVE IInv'
<1>1. c' = resolve(c) /\ redirects' = redirects /\ c.socket = NoSocket
  BY DEF Connect
<1>2. ~c.told
  BY <1>1 DEF Connect, IInv, Sound, Announced
<1>3. c.state \notin {"Connecting", "Connected"}
  BY <1>1 DEF IInv, Sound, SocketLives
<1> QED
  BY <1>1, <1>2, <1>3, ResolveKeeps, Primed DEF IInv

LEMMA RetryKeeps == ASSUME IInv, Retry PROVE IInv'
<1>1. c' = resolve(c) /\ redirects' = redirects /\ c.state = "Reconnecting"
  BY DEF Retry
<1>2. ~c.told
  BY <1>1 DEF Retry, IInv, Sound, Announced
<1>3. redirects = 0 => c.socket = NoSocket
  BY <1>1 DEF IInv, Unsocketed
<1> QED
  BY <1>1, <1>2, <1>3, ResolveKeeps, Primed DEF IInv

LEMMA DeleteLaterKeeps == ASSUME IInv, DeleteLater PROVE IInv'
<1> DEFINE l == [c EXCEPT !.listener = FALSE]
           m == disconnect(l)
           n == [m EXCEPT !.gone = TRUE, !.dns = FALSE]
<1>1. /\ l \in Client /\ l.state = c.state /\ l.sock = c.sock
      /\ l.socket = c.socket /\ l.dns = c.dns /\ l.asked = c.asked
      /\ l.told = c.told /\ l.listener = FALSE
  BY DEF IInv, Client
<1>2. c' \in {m, n} /\ redirects' = redirects
  BY DEF DeleteLater
<1> HIDE DEF l
<1>3. Sound(l) /\ OneIfNone(c, l)
  BY <1>1 DEF IInv, Sound, SocketLives, Connects, LooksUp, Asks, Announced, Alive,
              OneIfNone, One, Unsocketed
<1>4. m \in Client /\ Sound(m) /\ OneIfNone(c, m)
  BY <1>1, <1>3, DisconnectKeeps DEF OneIfNone
<1> HIDE DEF m
<1>5. /\ n \in Client /\ n.state = m.state /\ n.sock = m.sock
      /\ n.socket = m.socket /\ n.dns = FALSE /\ n.asked = m.asked
      /\ n.gone = TRUE
  BY <1>4 DEF Client
<1> HIDE DEF n
<1>6. Sound(n) /\ OneIfNone(c, n)
  BY <1>4, <1>5 DEF Sound, SocketLives, Connects, LooksUp, Asks, Announced, Alive,
                    OneIfNone, One, Unsocketed
<1> QED
  BY <1>2, <1>4, <1>5, <1>6, Primed

LEMMA PingKeeps ==
    ASSUME IInv, NEW written \in BOOLEAN, Ping(written)
    PROVE  IInv'
<1> DEFINE m == send(c, written)
<1>1. m \in Client /\ Sound(m) /\ OneIfNone(c, m)
  BY SendKeeps DEF IInv
<1>2. c' = [m EXCEPT !.keepAlive = FALSE] /\ redirects' = redirects
  BY DEF Ping
<1> HIDE DEF m
<1>3. /\ c' \in Client /\ c'.state = m.state /\ c'.sock = m.sock
      /\ c'.socket = m.socket /\ c'.dns = m.dns /\ c'.asked = m.asked
      /\ c'.told = m.told /\ c'.listener = m.listener /\ c'.gone = m.gone
  BY <1>1, <1>2 DEF Client
<1>4. Sound(c') /\ OneIfNone(c, c')
  BY <1>1, <1>3 DEF Sound, SocketLives, Connects, LooksUp, Asks, Announced, Alive,
                    OneIfNone, One, Unsocketed
<1> QED
  BY <1>2, <1>3, <1>4, Primed

LEMMA KeptStep == IInv /\ [Next]_vars => IInv'
<1> SUFFICES ASSUME IInv, [Next]_vars PROVE IInv'
  OBVIOUS
<1>1. CASE UNCHANGED vars
  BY <1>1, Primed DEF vars, IInv
<1>2. CASE Disconnect
  BY <1>2, DisconnectKeeps, Primed DEF Disconnect, IInv
<1>3. ASSUME NEW written \in BOOLEAN, Submit(written) PROVE IInv'
  BY <1>3, SendKeeps, Primed DEF Submit, IInv
<1>4. CASE TimesOut
  BY <1>4, CloseKeeps, Primed DEF TimesOut, IInv
<1>5. ASSUME NEW s \in Sockets, Connecting(s) \/ Reading(s) \/ Closed(s)
      PROVE  IInv'
  BY <1>5, RefusedKeeps, AcceptedKeeps, LineKeeps, LoginAnsweredKeeps,
     RedirectedKeeps, ReadErrorKeeps, ClosedKeeps
  DEF Connecting, Reading
<1> QED
  BY <1>1, <1>2, <1>3, <1>4, <1>5, ConnectKeeps, DeleteLaterKeeps, PingKeeps,
     RetryKeeps, ResolvedKeeps
  DEF Next

LEMMA Invariance == Spec => []IInv
BY KeptInit, KeptStep, PTL DEF Spec

-----------------------------------------------------------------------------
(* Type correctness: what the members and the sockets can be, whatever the    *)
(* order of callbacks; m_socket is never a socket that was deleted.           *)
THEOREM TypeCorrect == Spec => []TypeOK
<1>1. IInv => TypeOK
  BY DEF IInv, Client, States, Sound, SocketLives, TypeOK
<1> QED
  BY <1>1, Invariance, PTL

(* A strategy that takes its client for logged in is right, or the close that *)
(* tells it otherwise is under way.                                           *)
THEOREM LossAnnounced == Spec => []LossIsAnnounced
<1>1. IInv => LossIsAnnounced
  BY DEF IInv, Sound, Announced, LossIsAnnounced
<1> QED
  BY <1>1, Invariance, PTL

(* Until a pool redirects the client it has one socket, m_socket.             *)
THEOREM SocketAlone == Spec => []OneSocket
<1>1. IInv => OneSocket
  BY DEF IInv, One, OneSocket
<1> QED
  BY <1>1, Invariance, PTL

-----------------------------------------------------------------------------
(* The refinement: what a client does while nobody redirects it.  One socket  *)
(* is left, and its state is the client's; a lookup, a retry pause and an     *)
(* unanswered login are what the state says.                                  *)
Tidy(m) ==
    /\ m.dns => m.state = "HostLookup"
    /\ \A s \in Sockets : /\ m.sock[s] = "open" => m.state = "Connected"
                          /\ m.sock[s] = "closing" => m.state = "Closing"
                          /\ m.asked = s /\ m.sock[s] = "open" => ~m.told
    /\ m.state = "Closing" => m.socket # NoSocket
    /\ m.state = "Reconnecting" /\ m.failures = -1 => ~m.expire

TidyInv == redirects = 0 /\ Alive(c) => Tidy(c)

(* What every step below starts from                                          *)
Undirected == IInv /\ Tidy(c) /\ Alive(c) /\ redirects = 0

Acts == Seen!Next \/ UNCHANGED Seen!vars

(* A step that Pools does not see                                             *)
LEMMA Unseen ==
    ASSUME Alive(c), Alive(c'), c'.state = c.state, c'.dns = c.dns,
           c'.told = c.told, c'.failures = c.failures
    PROVE  Acts
BY DEF Acts, Seen!vars, Phase, Alive

(* The client leaves the pool.                                                *)
LEMMA Leaves ==
    ASSUME Alive(c), Alive(c'), ~c.dns, ~c'.dns, c'.state = "Closing",
           c.state \in {"Connecting", "Connected"}, c'.failures = c.failures
    PROVE  Acts
<1>1. Phase(c) \in {"login", "in"} /\ Phase(c)' = "closing"
  BY DEF Phase, Alive
<1>2. UNCHANGED (Alive(c) /\ c.failures # -1)
  BY DEF Alive
<1> QED
  BY <1>1, <1>2 DEF Acts, Seen!Next, Seen!Dropped

(* close(), of a client that connects or is connected                         *)
LEMMA CloseTidies ==
    ASSUME NEW m \in Client, SocketLives(m), One(m), ~m.dns,
           m.state \in {"Connecting", "Connected"}
    PROVE  /\ close(m) \in Client /\ Tidy(close(m))
           /\ close(m).state = "Closing" /\ ~close(m).dns
           /\ close(m).failures = m.failures
           /\ close(m).listener = m.listener /\ close(m).gone = m.gone
<1> DEFINE n == [m EXCEPT !.state = "Closing", !.sock[m.socket] = "closing"]
<1>1. m.socket # NoSocket /\ m.socket \in Sockets
  BY DEF SocketLives, Client
<1>2. close(m) = n
  BY <1>1 DEF close
<1>3. /\ n \in Client /\ n.state = "Closing"
      /\ n.sock = [m.sock EXCEPT ![m.socket] = "closing"]
      /\ n.socket = m.socket /\ n.dns = m.dns /\ n.told = m.told
      /\ n.asked = m.asked /\ n.listener = m.listener /\ n.gone = m.gone
      /\ n.failures = m.failures
  BY <1>1 DEF Client, States
<1>4. \A s \in Sockets : n.sock[s] = IF s = m.socket THEN "closing" ELSE m.sock[s]
  BY <1>1, <1>3 DEF Client
<1>5. \A s \in Sockets : n.sock[s] \in {"closing", "none"}
  BY <1>4 DEF One
<1> HIDE DEF n
<1>6. Tidy(n)
  BY <1>1, <1>3, <1>5 DEF Tidy
<1> QED
  BY <1>2, <1>3, <1>6

LEMMA CloseActs ==
    ASSUME Undirected, NEW m \in Client, SocketLives(m), One(m),
           m.state = c.state, m.dns = c.dns, m.failures = c.failures,
           m.listener = c.listener, m.gone = c.gone,
           c.state \in {"Connecting", "Connected"}, c' = close(m)
    PROVE  Tidy(c') /\ Acts
<1>1. ~c.dns
  BY DEF Undirected, Tidy
<1>2. /\ Tidy(close(m)) /\ close(m).state = "Closing" /\ ~close(m).dns
      /\ close(m).failures = m.failures
      /\ close(m).listener = m.listener /\ close(m).gone = m.gone
  BY <1>1, CloseTidies
<1>3. Alive(c) /\ Alive(c')
  BY <1>2 DEF Undirected, Alive
<1> QED
  BY <1>1, <1>2, <1>3, Leaves

(* A step that changes deadlines only, or nothing                             *)
LEMMA DeadlineActs ==
    ASSUME Undirected, c'.state = c.state, c'.dns = c.dns, c'.told = c.told,
           c'.failures = c.failures, c'.listener = c.listener,
           c'.gone = c.gone, c'.sock = c.sock, c'.socket = c.socket,
           c'.asked = c.asked, c.state # "Reconnecting"
    PROVE  Tidy(c') /\ Acts
<1>1. Alive(c) /\ Alive(c')
  BY DEF Undirected, Alive
<1> QED
  BY <1>1, Unseen DEF Undirected, Tidy

LEMMA UndirectedFacts ==
    ASSUME Undirected
    PROVE  /\ c \in Client /\ SocketLives(c) /\ One(c) /\ Unsocketed(c)
           /\ Connects(c) /\ Asks(c) /\ Announced(c) /\ LooksUp(c) /\ Tidy(c)
           /\ Alive(c)
BY DEF Undirected, IInv, Sound

(* send(), by a client that is connected                                      *)
LEMMA SendActs ==
    ASSUME Undirected, NEW written \in BOOLEAN, NEW k \in BOOLEAN,
           c.state = "Connected",
           c' = [send(c, written) EXCEPT !.keepAlive = k]
    PROVE  Tidy(c') /\ Acts
<1> USE UndirectedFacts
<1> DEFINE m == [c EXCEPT !.keepAlive = k]
           n == [c EXCEPT !.keepAlive = k, !.expire = TRUE]
<1>1. c' = m \/ c' = n \/ c' = close(m)
  BY DEF send, close, Client
<1>2. /\ m \in Client /\ m.state = c.state /\ m.dns = c.dns /\ m.told = c.told
      /\ m.failures = c.failures /\ m.listener = c.listener
      /\ m.gone = c.gone /\ m.sock = c.sock /\ m.socket = c.socket
      /\ m.asked = c.asked
  BY DEF Client
<1>3. /\ n.state = c.state /\ n.dns = c.dns /\ n.told = c.told
      /\ n.failures = c.failures /\ n.listener = c.listener
      /\ n.gone = c.gone /\ n.sock = c.sock /\ n.socket = c.socket
      /\ n.asked = c.asked
  BY DEF Client
<1> HIDE DEF m, n
<1>4. CASE c' = m
  BY <1>2, <1>4, DeadlineActs
<1>5. CASE c' = n
  BY <1>3, <1>5, DeadlineActs
<1>6. CASE c' = close(m)
  <2>1. SocketLives(m) /\ One(m)
    BY <1>2 DEF SocketLives, One
  <2> QED
    BY <1>2, <1>6, <2>1, CloseActs
<1> QED
  BY <1>1, <1>4, <1>5, <1>6

LEMMA SubmitActs ==
    ASSUME Undirected, NEW written \in BOOLEAN, Submit(written)
    PROVE  Tidy(c') /\ Acts
<1> USE UndirectedFacts
<1>1. c.state = "Connected" /\ c' = send(c, written)
  BY DEF Submit
<1>2. c.keepAlive \in BOOLEAN
  BY DEF Client
<1>3. send(c, written) \in {c, [c EXCEPT !.expire = TRUE], close(c)}
  BY DEF send
<1>4. send(c, written) = [send(c, written) EXCEPT !.keepAlive = c.keepAlive]
  BY <1>3 DEF close, Client
<1> QED
  BY <1>1, <1>2, <1>4, SendActs

LEMMA ConnectActs == ASSUME Undirected, Connect PROVE Tidy(c') /\ Acts
<1> USE UndirectedFacts
<1>1. c' = resolve(c) /\ c.socket = NoSocket
      /\ (c.state = "Unconnected" \/ c.failures = -1)
  BY DEF Connect
<1>2. /\ c'.state = "HostLookup" /\ c'.dns = TRUE /\ c'.sock = c.sock
      /\ c'.failures = (IF c.failures = -1 THEN 0 ELSE c.failures)
      /\ c'.listener = c.listener /\ c'.gone = c.gone /\ c'.told = c.told
      /\ c'.asked = c.asked
  BY <1>1 DEF resolve, setState, Client
<1>3. \A s \in Sockets : c.sock[s] = "none"
  BY <1>1, SocketAssumption DEF One
<1>4. Tidy(c')
  BY <1>2, <1>3 DEF Tidy
<1>5. Phase(c) = "off" \/ (Phase(c) = "lookup" /\ c.failures = -1)
  <2>1. c.state \notin {"Connecting", "Connected", "Closing"}
    BY <1>1, <1>3, SocketAssumption DEF SocketLives, Sound, Tidy
  <2>2. CASE c.dns
    BY <1>1, <2>2 DEF Phase, Tidy
  <2>3. CASE ~c.dns
    BY <1>1, <2>1, <2>3 DEF Phase, Client, States
  <2> QED
    BY <2>2, <2>3 DEF Client
<1>6. Phase(c) # "deleted" /\ Phase(c)' = "lookup"
  BY <1>2 DEF Phase, Alive, Client, States
<1>7. (Alive(c) /\ c.failures # -1)'
  BY <1>2 DEF Alive
<1> QED
  BY <1>4, <1>5, <1>6, <1>7 DEF Acts, Seen!Next, Seen!Connect

LEMMA DisconnectActs == ASSUME Undirected, Disconnect PROVE Tidy(c') /\ Acts
<1> USE UndirectedFacts
<1> DEFINE m == [c EXCEPT !.keepAlive = FALSE, !.expire = FALSE, !.failures = -1,
                          !.told = FALSE]
<1>1. c' = close(m)
  BY DEF Disconnect, disconnect
<1>2. /\ m \in Client /\ m.state = c.state /\ m.sock = c.sock
      /\ m.socket = c.socket /\ m.dns = c.dns /\ m.told = FALSE
      /\ m.asked = c.asked /\ m.failures = -1 /\ m.expire = FALSE
      /\ m.listener = c.listener /\ m.gone = c.gone
  BY DEF Client
<1> HIDE DEF m
<1>3. Phase(c) # "deleted"
  BY DEF Phase, Client, States
<1>4. CASE c.state \in {"Connecting", "Connected"}
  <2>1. SocketLives(m) /\ One(m) /\ ~m.dns
    BY <1>2, <1>4 DEF SocketLives, One, Tidy
  <2>2. /\ Tidy(c') /\ c'.state = "Closing" /\ ~c'.dns /\ c'.failures = -1
        /\ c'.listener = c.listener /\ c'.gone = c.gone
    BY <1>1, <1>2, <1>4, <2>1, CloseTidies
  <2>3. Phase(c) \in {"login", "in"} /\ Phase(c)' = "closing"
    BY <1>4, <2>1, <2>2, <1>2 DEF Phase, Alive
  <2> QED
    BY <2>2, <2>3 DEF Acts, Seen!Next, Seen!Disconnect
<1>5. CASE c.state \notin {"Connecting", "Connected"}
  <2>1. c' = m
    BY <1>1, <1>2, <1>5 DEF close, Unsocketed, Client, States
  <2>2. Tidy(c')
    BY <1>2, <2>1 DEF Tidy
  <2>3. /\ Phase(c) \notin {"login", "in"}
        /\ Phase(c)' = IF Phase(c) = "waiting" THEN "off" ELSE Phase(c)
    BY <1>2, <1>5, <2>1 DEF Phase, Alive, Client, States
  <2> QED
    BY <1>2, <1>3, <2>1, <2>2, <2>3 DEF Acts, Seen!Next, Seen!Disconnect
<1> QED
  BY <1>4, <1>5

LEMMA RetryActs == ASSUME Undirected, Retry PROVE Tidy(c') /\ Acts
<1> USE UndirectedFacts
<1>1. c' = resolve(c) /\ c.state = "Reconnecting" /\ c.expire
  BY DEF Retry
<1>2. c.failures # -1 /\ ~c.dns
  BY <1>1 DEF Tidy
<1>3. /\ c'.state = "HostLookup" /\ c'.dns = TRUE /\ c'.sock = c.sock
      /\ c'.failures = c.failures
      /\ c'.listener = c.listener /\ c'.gone = c.gone /\ c'.told = c.told
      /\ c'.asked = c.asked
  BY <1>1, <1>2 DEF resolve, setState, Client
<1>4. \A s \in Sockets : c.sock[s] = "none"
  BY <1>1, SocketAssumption DEF One, Unsocketed
<1>5. Tidy(c')
  BY <1>3, <1>4 DEF Tidy
<1>6. Phase(c) = "waiting" /\ Phase(c)' = "lookup"
  BY <1>1, <1>2, <1>3 DEF Phase, Alive
<1>7. UNCHANGED (Alive(c) /\ c.failures # -1)
  BY <1>3 DEF Alive
<1> QED
  BY <1>5, <1>6, <1>7 DEF Acts, Seen!Next, Seen!Retry

(* reconnect(), of a client without a socket                                  *)
LEMMA ReconnectActs ==
    ASSUME Undirected, NEW m \in Client, ~m.dns,
           \A s \in Sockets : m.sock[s] = "none",
           m.failures = c.failures, m.listener = c.listener, m.gone = c.gone,
           m.state \in {"HostLookup", "Unconnected"},
           Phase(c) \in {"lookup", "closing"}, c' = reconnect(m)
    PROVE  Tidy(c') /\ Acts
<1> USE UndirectedFacts
<1>1. m.listener
  BY DEF Alive
<1>2. /\ ~c'.dns /\ c'.sock = m.sock /\ c'.listener = m.listener
      /\ c'.gone = m.gone
      /\ IF m.failures = -1
         THEN c'.state = m.state /\ c'.failures = -1
         ELSE c'.state = "Reconnecting" /\ c'.failures = 1
  BY <1>1 DEF reconnect, setState, Client
<1>3. Tidy(c')
  BY <1>2 DEF Tidy
<1>4. Phase(c)' = IF c.failures = -1 THEN "off" ELSE "waiting"
  BY <1>2 DEF Phase, Alive
<1>5. UNCHANGED (Alive(c) /\ c.failures # -1)
  BY <1>2 DEF Alive
<1> QED
  BY <1>3, <1>4, <1>5 DEF Acts, Seen!Next, Seen!Closed

LEMMA ResolvedActs == ASSUME Undirected, Resolved PROVE Tidy(c') /\ Acts
<1> USE UndirectedFacts
<1> DEFINE m == [c EXCEPT !.dns = FALSE]
<1>1. /\ m \in Client /\ m.state = c.state /\ m.sock = c.sock
      /\ m.socket = c.socket /\ m.dns = FALSE /\ m.asked = c.asked
      /\ m.told = c.told /\ m.listener = c.listener /\ m.gone = c.gone
      /\ m.failures = c.failures
  BY DEF Client
<1>2. c.dns /\ m.listener
        /\ (c' = reconnect(m) \/ \E s \in Sockets : c' = connectTo(m, s))
  BY <1>1 DEF Resolved, Alive
<1> HIDE DEF m
<1>3. c.state = "HostLookup" /\ c.socket = NoSocket /\ ~c.told
  BY <1>2 DEF Tidy, Unsocketed, LooksUp
<1>4. Phase(c) = "lookup"
  BY <1>2 DEF Phase
<1>5. \A s \in Sockets : c.sock[s] = "none"
  BY <1>3, SocketAssumption DEF One
<1>6. CASE c' = reconnect(m)
  BY <1>1, <1>3, <1>4, <1>5, <1>6, ReconnectActs
<1>7. ASSUME NEW s \in Sockets, c' = connectTo(m, s) PROVE Tidy(c') /\ Acts
  <2>1. /\ c'.state = "Connecting" /\ c'.dns = FALSE /\ c'.told = c.told
        /\ c'.sock = [m.sock EXCEPT ![s] = "connecting"]
        /\ c'.listener = c.listener /\ c'.gone = c.gone
        /\ c'.failures = c.failures
    BY <1>1, <1>7 DEF connectTo, setState, Client
  <2>2. \A t \in Sockets : c'.sock[t] \in {"none", "connecting"}
    BY <1>1, <1>5, <2>1 DEF Client
  <2>3. Tidy(c')
    BY <2>1, <2>2 DEF Tidy
  <2>4. Phase(c)' = "login"
    BY <2>1 DEF Phase, Alive
  <2>5. UNCHANGED (Alive(c) /\ c.failures # -1)
    BY <2>1 DEF Alive
  <2> QED
    BY <1>4, <2>3, <2>4, <2>5 DEF Acts, Seen!Next, Seen!Resolved
<1> QED
  BY <1>2, <1>6, <1>7

LEMMA RefusedActs ==
    ASSUME Undirected, NEW s \in Sockets, Refused(s)
    PROVE  Tidy(c') /\ Acts
<1> USE UndirectedFacts
<1> DEFINE m == [c EXCEPT !.sock[s] = "deaf"]
<1>1. c.sock[s] = "connecting" /\ s = c.socket /\ c.state = "Connecting"
  BY DEF Refused, Connects
<1>2. c' = close(m)
  BY <1>1 DEF Refused
<1>3. /\ m \in Client /\ m.state = c.state
      /\ m.sock = [c.sock EXCEPT ![s] = "deaf"]
      /\ m.socket = c.socket /\ m.dns = c.dns /\ m.failures = c.failures
      /\ m.listener = c.listener /\ m.gone = c.gone
  BY DEF Client
<1>4. \A t \in Sockets : m.sock[t] = IF t = s THEN "deaf" ELSE c.sock[t]
  BY <1>3 DEF Client
<1> HIDE DEF m
<1>5. SocketLives(m) /\ One(m)
  BY <1>1, <1>3, <1>4, SocketAssumption DEF SocketLives, One
<1> QED
  BY <1>1, <1>2, <1>3, <1>5, CloseActs

LEMMA ReadErrorActs ==
    ASSUME Undirected, NEW s \in Sockets, ReadError(s)
    PROVE  Tidy(c') /\ Acts
<1> USE UndirectedFacts
<1> DEFINE m == [c EXCEPT !.sock[s] = "deaf"]
<1>1. c.sock[s] = "open" /\ s = c.socket /\ c.state = "Connected"
  BY DEF ReadError, One, Tidy
<1>2. c' = close(m)
  BY DEF ReadError
<1>3. /\ m \in Client /\ m.state = c.state
      /\ m.sock = [c.sock EXCEPT ![s] = "deaf"]
      /\ m.socket = c.socket /\ m.dns = c.dns /\ m.failures = c.failures
      /\ m.listener = c.listener /\ m.gone = c.gone
  BY DEF Client
<1>4. \A t \in Sockets : m.sock[t] = IF t = s THEN "deaf" ELSE c.sock[t]
  BY <1>3 DEF Client
<1> HIDE DEF m
<1>5. SocketLives(m) /\ One(m)
  BY <1>1, <1>3, <1>4, SocketAssumption DEF SocketLives, One
<1> QED
  BY <1>1, <1>2, <1>3, <1>5, CloseActs

LEMMA AcceptedActs ==
    ASSUME Undirected, NEW s \in Sockets, NEW written \in BOOLEAN,
           Accepted(s, written)
    PROVE  Tidy(c') /\ Acts
<1> USE UndirectedFacts
<1> DEFINE m == [setState(c, "Connected") EXCEPT !.sock[s] = "open", !.asked = s]
           n == [m EXCEPT !.expire = TRUE]
<1>1. s = c.socket /\ c.state = "Connecting" /\ ~c.dns /\ ~c.told
  BY DEF Accepted, Connects, Tidy, Announced
<1>2. c' = send(m, written)
  BY <1>1 DEF Accepted
<1>3. c' \in {m, n, close(m)}
  BY <1>2 DEF send
<1>4. /\ m \in Client /\ m.state = "Connected"
      /\ m.sock = [c.sock EXCEPT ![s] = "open"]
      /\ m.socket = s /\ m.dns = c.dns /\ m.told = c.told
      /\ m.failures = c.failures /\ m.listener = c.listener /\ m.gone = c.gone
  BY <1>1 DEF Client, States, setState
<1>5. /\ n.state = m.state /\ n.sock = m.sock /\ n.dns = m.dns /\ n.told = m.told
      /\ n.failures = m.failures /\ n.listener = m.listener /\ n.gone = m.gone
  BY <1>4 DEF Client
<1> HIDE DEF m, n
<1>6. \A t \in Sockets : m.sock[t] = IF t = s THEN "open" ELSE c.sock[t]
  BY <1>4 DEF Client
<1>7. \A t \in Sockets : m.sock[t] = IF t = s THEN "open" ELSE "none"
  BY <1>1, <1>6 DEF One
<1>8. CASE c' \in {m, n}
  <2>1. /\ c'.state = "Connected" /\ c'.sock = m.sock /\ ~c'.dns /\ ~c'.told
        /\ c'.failures = c.failures /\ c'.listener = c.listener
        /\ c'.gone = c.gone
    BY <1>1, <1>4, <1>5, <1>8
  <2>2. Tidy(c')
    BY <1>7, <2>1 DEF Tidy
  <2>3. Phase(c) = "login" /\ Phase(c)' = "login"
    BY <1>1, <2>1 DEF Phase, Alive
  <2>4. UNCHANGED (Alive(c) /\ c.failures # -1)
    BY <2>1 DEF Alive
  <2> QED
    BY <2>2, <2>3, <2>4 DEF Acts, Seen!vars
<1>9. CASE c' = close(m)
  <2>1. SocketLives(m) /\ One(m) /\ ~m.dns
    BY <1>1, <1>4, <1>7 DEF SocketLives, One
  <2>2. /\ Tidy(c') /\ c'.state = "Closing" /\ ~c'.dns
        /\ c'.failures = c.failures
        /\ c'.listener = c.listener /\ c'.gone = c.gone
    BY <1>4, <1>9, <2>1, CloseTidies
  <2> QED
    BY <1>1, <2>2, Leaves DEF Alive
<1> QED
  BY <1>3, <1>8, <1>9

LEMMA LineActs ==
    ASSUME Undirected, NEW s \in Sockets, Line(s)
    PROVE  Tidy(c') /\ Acts
<1> USE UndirectedFacts
<1> DEFINE m == startTimeout(c)
<1>1. c.state = "Connected" /\ (c' = m \/ c' = close(m))
  BY DEF Line, Tidy, Alive
<1>2. /\ m \in Client /\ m.state = c.state /\ m.dns = c.dns /\ m.told = c.told
      /\ m.failures = c.failures /\ m.listener = c.listener
      /\ m.gone = c.gone /\ m.sock = c.sock /\ m.socket = c.socket
      /\ m.asked = c.asked
  BY SocketAssumption DEF Client, startTimeout
<1> HIDE DEF m
<1>3. SocketLives(m) /\ One(m)
  BY <1>2 DEF SocketLives, One
<1>4. CASE c' = m
  BY <1>1, <1>2, <1>4, DeadlineActs
<1>5. CASE c' = close(m)
  BY <1>1, <1>2, <1>3, <1>5, CloseActs
<1> QED
  BY <1>1, <1>4, <1>5

LEMMA LoginAnsweredActs ==
    ASSUME Undirected, NEW s \in Sockets, LoginAnswered(s)
    PROVE  Tidy(c') /\ Acts
<1> USE UndirectedFacts
<1>1. c.state = "Connected" /\ ~c.told /\ ~c.dns
  BY DEF LoginAnswered, Tidy
<1>2. /\ c'.state = c.state /\ c'.sock = c.sock /\ c'.dns = c.dns
      /\ c'.told = TRUE /\ c'.asked = NoSocket /\ c'.failures = 0
      /\ c'.listener = c.listener /\ c'.gone = c.gone
  BY DEF LoginAnswered, startTimeout, Client
<1>3. Tidy(c')
  BY <1>1, <1>2, SocketAssumption DEF Tidy
<1>4. Phase(c) = "login" /\ Phase(c)' = "in"
  BY <1>1, <1>2 DEF Phase, Alive
<1>5. (Alive(c) /\ c.failures # -1)'
  BY <1>2 DEF Alive
<1> QED
  BY <1>3, <1>4, <1>5 DEF Acts, Seen!Next, Seen!LoggedIn

LEMMA ClosedActs ==
    ASSUME Undirected, NEW s \in Sockets, Closed(s)
    PROVE  Tidy(c') /\ Acts
<1> USE UndirectedFacts
<1> DEFINE m == [setState(c, "Unconnected") EXCEPT
        !.socket = NoSocket,
        !.sock = [t \in Sockets |->
            IF t = s THEN "none" ELSE IF t = c.socket THEN "deaf" ELSE c.sock[t]],
        !.asked = IF c.asked = s THEN NoSocket ELSE c.asked]
<1>1. s = c.socket /\ c.state = "Closing" /\ ~c.dns
  BY DEF Closed, One, Tidy
<1>2. /\ m \in Client /\ m.state = "Unconnected"
      /\ m.sock = [t \in Sockets |->
            IF t = s THEN "none" ELSE IF t = c.socket THEN "deaf" ELSE c.sock[t]]
      /\ m.dns = c.dns /\ m.failures = c.failures
      /\ m.listener = c.listener /\ m.gone = c.gone
  BY DEF Client, States, setState
<1>3. c' = reconnect(m)
  BY DEF Closed, onClose, setState, Client
<1> HIDE DEF m
<1>4. \A t \in Sockets : m.sock[t] = "none"
  BY <1>1, <1>2 DEF One
<1>5. Phase(c) = "closing"
  BY <1>1 DEF Phase
<1> QED
  BY <1>1, <1>2, <1>3, <1>4, <1>5, ReconnectActs

LEMMA DeleteLaterActs == ASSUME Undirected, DeleteLater PROVE ~Alive(c') /\ Acts
<1> USE UndirectedFacts
<1> DEFINE l == [c EXCEPT !.listener = FALSE]
           m == disconnect(l)
<1>1. c' = m \/ c' = [m EXCEPT !.gone = TRUE, !.dns = FALSE]
  BY DEF DeleteLater
<1>2. l \in Client /\ l.listener = FALSE
  BY DEF Client
<1>3. m \in Client /\ m.listener = FALSE
  BY <1>2 DEF disconnect, close, Client, States
<1> HIDE DEF l, m
<1>4. c'.listener = FALSE
  BY <1>1, <1>3 DEF Client
<1>5. ~Alive(c') /\ Phase(c)' = "deleted"
  BY <1>4 DEF Alive, Phase
<1> QED
  BY <1>5 DEF Acts, Seen!Next, Seen!Delete

LEMMA UndirectedStep ==
    ASSUME Undirected, [Next]_vars, redirects' = 0
    PROVE  (Alive(c') => Tidy(c')) /\ Acts
<1>1. CASE UNCHANGED vars
  BY <1>1 DEF vars, Undirected, Acts, Seen!vars, Phase, Alive, Tidy
<1>2. ASSUME NEW written \in BOOLEAN, Submit(written) \/ Ping(written)
      PROVE  Tidy(c') /\ Acts
  BY <1>2, SubmitActs, SendActs DEF Ping
<1>3. CASE TimesOut
  <2>1. c' = close(c) /\ c.state \in {"Connecting", "Connected"}
    BY <1>3 DEF TimesOut
  <2> QED
    BY <2>1, UndirectedFacts, CloseActs
<1>4. ASSUME NEW s \in Sockets, Connecting(s) \/ Reading(s) \/ Closed(s)
      PROVE  Tidy(c') /\ Acts
  <2>1. ~Redirected(s)
    BY DEF Redirected, Undirected
  <2> QED
    BY <1>4, <2>1, RefusedActs, AcceptedActs, LineActs, LoginAnsweredActs,
       ReadErrorActs, ClosedActs DEF Connecting, Reading
<1> QED
  BY <1>1, <1>2, <1>3, <1>4, ConnectActs, DisconnectActs, DeleteLaterActs,
     RetryActs, ResolvedActs DEF Next

(* Nothing brings back a client that is deleted.                              *)
Gone(m) == m \in Client /\ ~Alive(m)

LEMMA GoneKept ==
    ASSUME NEW m, Gone(m)
    PROVE  /\ Gone(close(m)) /\ Gone(startTimeout(m)) /\ Gone(reconnect(m))
           /\ \A s \in Sockets : Gone([m EXCEPT !.sock[s] = "deaf"])
<1>1. Gone(close(m))
  <2>1. CASE m.socket = NoSocket
    BY <2>1 DEF close
  <2>2. CASE m.socket # NoSocket
    <3>1. m.socket \in Sockets
      BY <2>2 DEF Gone, Client
    <3> DEFINE n == [m EXCEPT !.state = "Closing", !.sock[m.socket] = "closing"]
    <3>2. Gone(n)
      BY <3>1 DEF Gone, Client, States, Alive
    <3>3. close(m) \in {m, n}
      BY DEF close
    <3> QED
      BY <3>2, <3>3
  <2> QED
    BY <2>1, <2>2
<1>2. Gone(startTimeout(m))
  BY SocketAssumption DEF Gone, Client, Alive, startTimeout
<1>3. Gone(reconnect(m))
  BY DEF Gone, Client, States, Alive, reconnect, setState
<1>4. \A s \in Sockets : Gone([m EXCEPT !.sock[s] = "deaf"])
  BY DEF Gone, Client, Alive
<1> QED
  BY <1>1, <1>2, <1>3, <1>4

LEMMA DeletedStays ==
    ASSUME IInv, ~Alive(c), [Next]_vars
    PROVE  ~Alive(c') /\ Acts
<1> SUFFICES Gone(c')
  BY DEF Gone, Acts, Seen!vars, Phase
<1>1. Gone(c)
  BY DEF Gone, IInv
<1>2. CASE UNCHANGED vars
  BY <1>1, <1>2 DEF vars
<1>3. CASE Resolved
  <2> DEFINE m == [c EXCEPT !.dns = FALSE]
  <2>1. Gone(m)
    BY <1>1 DEF Gone, Client, Alive
  <2>2. c' = reconnect(m) \/ \E s \in Sockets : c' = connectTo(m, s)
    BY <1>3 DEF Resolved
  <2> HIDE DEF m
  <2>3. ASSUME NEW s \in Sockets, c' = connectTo(m, s) PROVE Gone(c')
    BY <2>1, <2>3 DEF Gone, Client, States, Alive, connectTo, setState
  <2>4. Gone(reconnect(m))
    BY <2>1, GoneKept
  <2> QED
    BY <2>2, <2>3, <2>4
<1>4. ASSUME NEW s \in Sockets, Connecting(s) PROVE Gone(c')
  <2>1. CASE Refused(s)
    <3>1. Gone([c EXCEPT !.sock[s] = "deaf"])
      BY <1>1, GoneKept
    <3> QED
      BY <2>1, <3>1, GoneKept DEF Refused
  <2>2. ASSUME NEW written \in BOOLEAN, Accepted(s, written) PROVE Gone(c')
    <3> DEFINE m == [setState(c, "Connected") EXCEPT !.sock[s] = "open", !.asked = s]
    <3>1. Gone(m)
      BY <1>1 DEF Gone, Client, States, Alive, setState
    <3>2. c' = [c EXCEPT !.sock[s] = "deaf"] \/ c' = send(m, written)
      BY <2>2 DEF Accepted
    <3> HIDE DEF m
    <3>3. Gone([m EXCEPT !.expire = TRUE])
      BY <3>1 DEF Gone, Client, Alive
    <3>4. Gone(send(m, written))
      BY <3>1, <3>3, GoneKept DEF send
    <3> QED
      BY <1>1, <3>2, <3>4, GoneKept
  <2> QED
    BY <1>4, <2>1, <2>2 DEF Connecting
<1>5. ASSUME NEW s \in Sockets, Reading(s) PROVE Gone(c')
  <2>1. CASE Line(s)
    <3>1. c' \in {reconnect(c), startTimeout(c), close(startTimeout(c))}
      BY <2>1 DEF Line
    <3>2. Gone(startTimeout(c)) /\ Gone(reconnect(c))
      BY <1>1, GoneKept
    <3>3. Gone(close(startTimeout(c)))
      BY <3>2, GoneKept
    <3> QED
      BY <3>1, <3>2, <3>3
  <2>2. CASE ReadError(s)
    <3>1. Gone([c EXCEPT !.sock[s] = "deaf"])
      BY <1>1, GoneKept
    <3> QED
      BY <2>2, <3>1, GoneKept DEF ReadError
  <2> QED
    BY <1>5, <2>1, <2>2 DEF Reading, LoginAnswered, Redirected
<1>6. ASSUME NEW s \in Sockets, Closed(s) PROVE Gone(c')
  <2> DEFINE m == [setState(c, "Unconnected") EXCEPT
          !.socket = NoSocket,
          !.sock = [t \in Sockets |->
              IF t = s THEN "none" ELSE IF t = c.socket THEN "deaf" ELSE c.sock[t]],
          !.asked = IF c.asked = s THEN NoSocket ELSE c.asked]
  <2>1. Gone(m)
    BY <1>1 DEF Gone, Client, States, Alive, setState
  <2>2. c' = reconnect(m)
    BY <1>1, <1>6 DEF Closed, onClose, setState, Gone, Client
  <2> QED
    BY <2>1, <2>2, GoneKept
<1> QED
  BY <1>2, <1>3, <1>4, <1>5, <1>6 DEF Next, Connect, Disconnect, DeleteLater,
     Submit, Ping, TimesOut, Retry

LEMMA TidyInit == Init => TidyInv /\ Seen!Init
BY SocketAssumption DEF Init, TidyInv, Tidy, Seen!Init, Phase, Alive

(* Redirections are counted, never forgotten.                                 *)
LEMMA RedirectsCounted ==
    ASSUME IInv, [Next]_vars
    PROVE  redirects' = 0 => redirects = 0
<1>1. redirects \in {0, 1} /\ redirects + 1 # 0
  BY SocketAssumption DEF IInv
<1>2. ASSUME NEW s \in Sockets, Connecting(s) \/ Reading(s) \/ Closed(s)
      PROVE  redirects' \in {redirects, redirects + 1}
  BY <1>2 DEF Connecting, Refused, Accepted, Reading, Line, LoginAnswered,
     Redirected, ReadError, Closed
<1>3. redirects' \in {redirects, redirects + 1}
  BY <1>2 DEF Next, vars, Connect, Disconnect, DeleteLater, Submit, Ping, TimesOut,
     Retry, Resolved
<1> QED
  BY <1>1, <1>3

LEMMA TidyStep ==
    ASSUME IInv, TidyInv, [Next]_vars
    PROVE  TidyInv' /\ (redirects' = 0 => Acts)
<1>1. redirects' = 0 => redirects = 0
  BY RedirectsCounted
<1>2. CASE redirects' = 0 /\ Alive(c)
  BY <1>1, <1>2, UndirectedStep DEF TidyInv, Undirected
<1>3. CASE redirects' = 0 /\ ~Alive(c)
  BY <1>3, DeletedStays DEF TidyInv
<1> QED
  BY <1>2, <1>3 DEF TidyInv

LEMMA TidyInvariance == Spec => []TidyInv
<1>1. Init => TidyInv
  BY TidyInit
<1>2. IInv /\ TidyInv /\ [Next]_vars => TidyInv'
  BY TidyStep
<1> QED
  BY <1>1, <1>2, Invariance, PTL DEF Spec

(* The client is the one Pools takes it for, until a pool redirects it: every *)
(* callback, in whatever order, is a step of PoolClient or none of its steps. *)
THEOREM ActsAsPoolClient == Spec => ActsAsClient
<1>1. IInv /\ TidyInv /\ [Next]_vars => [redirects' = 0 => Acts]_vars
  BY TidyStep
<1>2. Init => Seen!Init
  BY TidyInit
<1>4. Spec => Seen!Init /\ [][redirects' = 0 => Acts]_vars
  BY <1>1, <1>2, TidyInvariance, Invariance, PTL DEF Spec
<1> QED
  BY <1>4 DEF ActsAsClient, Acts

(* While no pool redirects it, the client implements PoolClient.              *)
THEOREM ImplementsPoolClient == Spec /\ [](redirects = 0) => Seen!Spec
<1>1. [redirects' = 0 => Seen!Next \/ UNCHANGED Seen!vars]_vars /\ (redirects = 0)'
        => [Seen!Next]_(Seen!vars)
  BY DEF vars, Seen!vars, Phase, Alive
<1>2. Spec => Seen!Init /\ [][redirects' = 0 => Seen!Next \/ UNCHANGED Seen!vars]_vars
  BY ActsAsPoolClient DEF ActsAsClient
<1> QED
  BY <1>1, <1>2, PTL DEF Seen!Spec

-----------------------------------------------------------------------------
(* A wanted client never waits for nothing.                                   *)
Due(m) ==
    \/ m.failures = -1
    \/ m.state = "Unconnected" /\ m.failures = 0
    \/ m.state = "HostLookup" /\ m.dns
    \/ m.state = "Reconnecting" /\ m.expire
    \/ /\ m.socket # NoSocket
       /\ \/ m.state = "Connecting" /\ m.sock[m.socket] = "connecting" /\ m.expire
          \/ m.state = "Connected" /\ m.sock[m.socket] = "open"
          \/ m.state = "Closing" /\ m.sock[m.socket] = "closing"

(* The close callback of a socket that is closed comes.                       *)
LEMMA CloseIsDue ==
    ASSUME NEW m \in Client, SocketLives(m), m.state \in {"Connecting", "Connected"}
    PROVE  Due(close(m))
<1> DEFINE n == [m EXCEPT !.state = "Closing", !.sock[m.socket] = "closing"]
<1>1. m.socket # NoSocket /\ m.socket \in Sockets
  BY DEF SocketLives, Client
<1>2. close(m) = n
  BY <1>1 DEF close
<1>3. n.state = "Closing" /\ n.socket = m.socket /\ n.sock[m.socket] = "closing"
  BY <1>1 DEF Client
<1> HIDE DEF n
<1> QED
  BY <1>1, <1>2, <1>3 DEF Due

(* While it is connected, deadlines do not matter.                            *)
LEMMA ConnectedIsDue ==
    ASSUME Due(c), c.state = "Connected", c'.state = c.state,
           c'.failures = c.failures, c'.socket = c.socket, c'.sock = c.sock
    PROVE  Due(c')
BY DEF Due

(* reconnect sets the deadline, unless the client was disconnected.           *)
LEMMA ReconnectIsDue ==
    ASSUME NEW m \in Client, m.listener, m.state \in {"HostLookup", "Unconnected"}
    PROVE  Due(reconnect(m))
<1>1. CASE m.failures = -1
  <2>1. reconnect(m) = [m EXCEPT !.keepAlive = FALSE, !.told = FALSE]
    BY <1>1 DEF reconnect
  <2> QED
    BY <1>1, <2>1 DEF Due, Client
<1>2. CASE m.failures # -1
  <2> DEFINE n == setState(m, "Reconnecting")
  <2>1. n \in Client /\ n.state = "Reconnecting" /\ n.expire = TRUE
    BY DEF setState, Client, States
  <2>2. reconnect(m) = [n EXCEPT !.keepAlive = FALSE, !.failures = 1, !.told = FALSE]
    BY <1>2 DEF reconnect
  <2> HIDE DEF n
  <2>3. reconnect(m).state = "Reconnecting" /\ reconnect(m).expire
    BY <2>1, <2>2 DEF Client
  <2> QED
    BY <2>3 DEF Due
<1> QED
  BY <1>1, <1>2

(* The strategy and the timer                                                 *)
LEMMA CallsAreDue ==
    ASSUME Undirected, Due(c), Connect \/ Disconnect \/ TimesOut \/ Retry
    PROVE  Due(c')
<1> USE UndirectedFacts
<1>1. CASE Connect \/ Retry
  <2>1. c' = resolve(c)
    BY <1>1 DEF Connect, Retry
  <2>2. c'.state = "HostLookup" /\ c'.dns
    BY <2>1 DEF resolve, setState, Client
  <2> QED
    BY <2>2 DEF Due
<1>2. CASE Disconnect
  <2> DEFINE m == [c EXCEPT !.keepAlive = FALSE, !.expire = FALSE, !.failures = -1,
                            !.told = FALSE]
  <2>1. c' = close(m) /\ m \in Client /\ m.failures = -1
    BY <1>2 DEF Disconnect, disconnect, Client
  <2> HIDE DEF m
  <2>2. c'.failures = -1
    BY <2>1 DEF close, Client
  <2> QED
    BY <2>2 DEF Due
<1>3. CASE TimesOut
  <2>1. c' = close(c) /\ c.state \in {"Connecting", "Connected"}
    BY <1>3 DEF TimesOut
  <2> QED
    BY <2>1, CloseIsDue
<1> QED
  BY <1>1, <1>2, <1>3

LEMMA SendIsDue ==
    ASSUME Undirected, Due(c), NEW written \in BOOLEAN, Submit(written) \/ Ping(written)
    PROVE  Due(c')
<1> USE UndirectedFacts
<1>1. c.state = "Connected"
  BY DEF Submit, Ping
<1>2. PICK k \in BOOLEAN :
          c' \in {[c EXCEPT !.keepAlive = k], [c EXCEPT !.keepAlive = k, !.expire = TRUE],
                  close([c EXCEPT !.keepAlive = k])}
  <2>1. CASE Submit(written)
    <3>1. c' \in {c, [c EXCEPT !.expire = TRUE], close(c)}
      BY <2>1 DEF Submit, send
    <3>2. c.keepAlive \in BOOLEAN /\ c = [c EXCEPT !.keepAlive = c.keepAlive]
      BY DEF Client
    <3>3. [c EXCEPT !.expire = TRUE] = [c EXCEPT !.keepAlive = c.keepAlive, !.expire = TRUE]
      BY DEF Client
    <3> QED
      BY <3>1, <3>2, <3>3
  <2>2. CASE Ping(written)
    <3>1. c' = [send(c, written) EXCEPT !.keepAlive = FALSE]
      BY <2>2 DEF Ping
    <3>2. c' \in {[c EXCEPT !.keepAlive = FALSE],
                  [c EXCEPT !.keepAlive = FALSE, !.expire = TRUE],
                  close([c EXCEPT !.keepAlive = FALSE])}
      BY <3>1 DEF send, close, Client
    <3> QED
      BY <3>2
  <2> QED
    BY <2>1, <2>2
<1> DEFINE m == [c EXCEPT !.keepAlive = k]
           n == [c EXCEPT !.keepAlive = k, !.expire = TRUE]
<1>3. /\ m \in Client /\ m.state = c.state /\ m.failures = c.failures
      /\ m.socket = c.socket /\ m.sock = c.sock
  BY DEF Client
<1>4. /\ n.state = c.state /\ n.failures = c.failures /\ n.socket = c.socket
      /\ n.sock = c.sock
  BY DEF Client
<1>5. SocketLives(m)
  BY <1>3 DEF SocketLives
<1> HIDE DEF m, n
<1>6. c' \in {m, n, close(m)}
  BY <1>2 DEF m, n
<1> QED
  BY <1>1, <1>3, <1>4, <1>5, <1>6, CloseIsDue, ConnectedIsDue

LEMMA ResolvedIsDue == ASSUME Undirected, Resolved PROVE Due(c')
<1> USE UndirectedFacts
<1> DEFINE m == [c EXCEPT !.dns = FALSE]
<1>1. m \in Client /\ m.state = "HostLookup" /\ m.listener
  BY DEF Client, Resolved, Tidy, Alive
<1>2. c' = reconnect(m) \/ \E s \in Sockets : c' = connectTo(m, s)
  BY DEF Resolved
<1> HIDE DEF m
<1>3. ASSUME NEW s \in Sockets, c' = connectTo(m, s) PROVE Due(c')
  <2>1. /\ c'.state = "Connecting" /\ c'.expire /\ c'.socket = s
        /\ c'.sock[s] = "connecting"
    BY <1>1, <1>3 DEF connectTo, setState, Client
  <2> QED
    BY <2>1, SocketAssumption DEF Due
<1> QED
  BY <1>1, <1>2, <1>3, ReconnectIsDue

(* The sockets                                                                *)
LEMMA ConnectingIsDue ==
    ASSUME Undirected, NEW s \in Sockets, Connecting(s)
    PROVE  Due(c')
<1> USE UndirectedFacts
<1>1. c.sock[s] = "connecting" /\ s = c.socket /\ c.state = "Connecting"
  BY DEF Connecting, Refused, Accepted, Connects
<1>2. CASE Refused(s)
  <2> DEFINE m == [c EXCEPT !.sock[s] = "deaf"]
  <2>1. c' = close(m)
    BY <1>1, <1>2 DEF Refused
  <2>2. m \in Client /\ m.state = c.state /\ m.socket = s /\ m.sock[s] = "deaf"
    BY <1>1 DEF Client
  <2> HIDE DEF m
  <2>3. SocketLives(m)
    BY <1>1, <2>2, SocketAssumption DEF SocketLives
  <2> QED
    BY <1>1, <2>1, <2>2, <2>3, CloseIsDue
<1>3. ASSUME NEW written \in BOOLEAN, Accepted(s, written) PROVE Due(c')
  <2> DEFINE m == [setState(c, "Connected") EXCEPT !.sock[s] = "open", !.asked = s]
             n == [m EXCEPT !.expire = TRUE]
  <2>1. c' = send(m, written)
    BY <1>1, <1>3 DEF Accepted
  <2>2. c' \in {m, n, close(m)}
    BY <2>1 DEF send
  <2>3. /\ m \in Client /\ m.state = "Connected" /\ m.socket = s /\ m.sock[s] = "open"
    BY <1>1 DEF Client, States, setState
  <2>4. n.state = m.state /\ n.socket = m.socket /\ n.sock = m.sock
    BY <2>3 DEF Client
  <2> HIDE DEF m, n
  <2>5. SocketLives(m)
    BY <2>3, SocketAssumption DEF SocketLives
  <2> QED
    BY <2>2, <2>3, <2>4, <2>5, CloseIsDue, SocketAssumption DEF Due
<1> QED
  BY <1>2, <1>3 DEF Connecting

LEMMA ReadingIsDue ==
    ASSUME Undirected, Due(c), NEW s \in Sockets, Reading(s), ~Redirected(s)
    PROVE  Due(c')
<1> USE UndirectedFacts
<1>1. c.sock[s] = "open" /\ s = c.socket /\ c.state = "Connected" /\ s # NoSocket
  BY SocketAssumption DEF Reading, Line, LoginAnswered, ReadError, One, Tidy
<1> DEFINE m == startTimeout(c)
<1>2. /\ m \in Client /\ m.state = c.state /\ m.failures = c.failures
      /\ m.socket = c.socket /\ m.sock = c.sock
  BY SocketAssumption DEF Client, startTimeout
<1>3. SocketLives(m)
  BY <1>2 DEF SocketLives
<1>4. CASE Line(s)
  <2>1. c' = m \/ c' = close(m)
    BY <1>4 DEF Line, Alive
  <2> HIDE DEF m
  <2> QED
    BY <1>1, <1>2, <1>3, <2>1, CloseIsDue, ConnectedIsDue
<1>5. CASE LoginAnswered(s)
  <2>1. c'.state = c.state /\ c'.socket = c.socket /\ c'.sock = c.sock
    BY <1>5 DEF LoginAnswered, startTimeout, Client
  <2> QED
    BY <1>1, <2>1 DEF Due
<1>6. CASE ReadError(s)
  <2> DEFINE d == [c EXCEPT !.sock[s] = "deaf"]
  <2>1. c' = close(d)
    BY <1>6 DEF ReadError
  <2>2. d \in Client /\ d.state = c.state /\ d.socket = s /\ d.sock[s] = "deaf"
    BY <1>1 DEF Client
  <2> HIDE DEF d
  <2>3. SocketLives(d)
    BY <1>1, <2>2, SocketAssumption DEF SocketLives
  <2> QED
    BY <1>1, <2>1, <2>2, <2>3, CloseIsDue
<1> QED
  BY <1>4, <1>5, <1>6 DEF Reading

LEMMA ClosedIsDue ==
    ASSUME Undirected, NEW s \in Sockets, Closed(s)
    PROVE  Due(c')
<1> USE UndirectedFacts
<1> DEFINE m == [setState(c, "Unconnected") EXCEPT
        !.socket = NoSocket,
        !.sock = [t \in Sockets |->
            IF t = s THEN "none" ELSE IF t = c.socket THEN "deaf" ELSE c.sock[t]],
        !.asked = IF c.asked = s THEN NoSocket ELSE c.asked]
<1>1. m \in Client /\ m.state = "Unconnected" /\ m.listener
  BY DEF Client, States, setState, Alive
<1>2. c' = reconnect(m)
  BY DEF Closed, onClose, setState, Client
<1> HIDE DEF m
<1> QED
  BY <1>1, <1>2, ReconnectIsDue

LEMMA DueStep ==
    ASSUME IInv, TidyInv, AnEventIsDue, [Next]_vars
    PROVE  AnEventIsDue'
<1> SUFFICES ASSUME redirects' = 0, Alive(c') PROVE Due(c')
  BY DEF AnEventIsDue, Due, Alive
<1>1. redirects = 0
  BY RedirectsCounted
<1>2. Alive(c)
  BY DeletedStays
<1>3. Undirected /\ Due(c)
  BY <1>1, <1>2 DEF Undirected, TidyInv, AnEventIsDue, Due
<1>4. CASE UNCHANGED vars
  BY <1>3, <1>4 DEF vars
<1>5. CASE DeleteLater
  BY <1>3, <1>5, DeleteLaterActs
<1>6. ASSUME NEW s \in Sockets, Connecting(s) \/ Reading(s) \/ Closed(s)
      PROVE  Due(c')
  <2>1. ~Redirected(s)
    BY <1>1 DEF Redirected
  <2> QED
    BY <1>3, <1>6, <2>1, ConnectingIsDue, ReadingIsDue, ClosedIsDue
<1> QED
  BY <1>3, <1>4, <1>5, <1>6, CallsAreDue, SendIsDue, ResolvedIsDue DEF Next

(* Until a pool redirects it, a client that its strategy wants is waiting for *)
(* something that comes: an answer of the resolver, a callback of its socket, *)
(* or a deadline.  KeepsTrying and SilentPoolIsLeft add fairness to it.       *)
THEOREM EventsAreDue == Spec => []AnEventIsDue
<1>1. Init => AnEventIsDue
  BY DEF Init, AnEventIsDue
<1>2. IInv /\ TidyInv /\ AnEventIsDue /\ [Next]_vars => AnEventIsDue'
  BY DueStep
<1> QED
  BY <1>1, <1>2, Invariance, TidyInvariance, PTL DEF Spec
-----------------------------------------------------------------------------
(* The client in self-select mode, which has a stratum client inside: module  *)
(* SelfSelect, with a state of its own.                                       *)

(* A pair of a job and the blob it was joined with, fetched for that job.     *)
Fitting == {s \in Jobs \X Blobs : s[2] # None => s[2][2] = s[1]}

SelfClient == [active   : BOOLEAN,
               state    : {"Idle", "Wait", "Retry"},
               failures : 0 .. Retries + 1,
               job      : Jobs \cup {None},
               blob     : Blobs,
               blocktemplate : Blobs,
               told     : BOOLEAN,
               given    : Fitting \cup {None},
               accepted : BOOLEAN]

Requests == [kind : {"template", "block"}, age : 1 .. MaxAge,
             job : Jobs \cup {None}]

(* Without a job the client is as it was created.                             *)
JobKnown(m) ==
    m.job = None =>
        ~pool /\ ~m.told /\ m.state = "Idle" /\ http = {} /\ sent = <<>>

(* The blob that m_job holds was fetched for it ...                           *)
BlobFits(m) == m.blob # None => m.blob[2] = m.job

(* ... because the newest request for a template, the one onHttpData takes an *)
(* answer to, asks for m_job.                                                 *)
NewestAsks(m) ==
    \A r \in http : r.kind = "template" =>
        r.job \in Jobs /\ (r.age = 1 => r.job = m.job)

(* A connected client is closed to its listener by a retry too many only.     *)
Failed(m)       == m.failures > Retries
OpenOrFailed(m) == m.active /\ ~m.told => Failed(m)

GivenOpen(m) == m.given # None => m.told

SelfInv ==
    /\ self \in SelfClient /\ pool \in BOOLEAN /\ orderly \in BOOLEAN
    /\ http \subseteq Requests /\ sent \in Seq(Fitting)
    /\ JobKnown(self) /\ BlobFits(self) /\ NewestAsks(self)
    /\ OpenOrFailed(self) /\ GivenOpen(self)

-----------------------------------------------------------------------------
(* A sequence without one of its elements holds elements it held.             *)
LEMMA RemoveAtSeq ==
    ASSUME NEW S, NEW s \in Seq(S), NEW i \in DOMAIN s
    PROVE  RemoveAt(s, i) \in Seq(S)
<1>1. i \in 1 .. Len(s) /\ Len(s) \in Nat /\ \A k \in 1 .. Len(s) : s[k] \in S
  OBVIOUS
<1>2. SubSeq(s, 1, i-1) \in Seq(S)
  BY <1>1, SubSeqProperties
<1>3. SubSeq(s, i+1, Len(s)) \in Seq(S)
  BY <1>1, SubSeqProperties
<1>4. QED
  BY <1>2, <1>3, ConcatProperties DEF RemoveAt

LEMMA TypeFromInv == ASSUME SelfInv PROVE SelfTypeOK
<1>1. \A r \in http : /\ r.kind \in {"template", "block"}
                       /\ r.age \in 1 .. MaxAge
                       /\ r.job \in Jobs \cup {None}
  BY DEF SelfInv, Requests
<1>2. sent \in Seq(Jobs \X Blobs)
  BY DEF SelfInv, Fitting
<1>3. self.given \in (Jobs \X Blobs) \cup {None}
  BY DEF SelfInv, SelfClient, Fitting
<1> QED
  BY <1>1, <1>2, <1>3 DEF SelfInv, SelfClient, SelfTypeOK

(* What a client alone keeps                                                  *)
ClientFits(m) == BlobFits(m) /\ OpenOrFailed(m) /\ GivenOpen(m)

LEMMA ClosedFields ==
    ASSUME NEW m \in SelfClient
    PROVE  /\ toldClosed(m) \in SelfClient
           /\ ~toldClosed(m).told /\ toldClosed(m).given = None
           /\ toldClosed(m).active = m.active /\ toldClosed(m).state = m.state
           /\ toldClosed(m).failures = m.failures
           /\ toldClosed(m).job = m.job /\ toldClosed(m).blob = m.blob
           /\ toldClosed(m).blocktemplate = m.blocktemplate
  BY DEF toldClosed, SelfClient

(* setState counts a failure, or forgets them all.                            *)
LEMMA SetStateFields ==
    ASSUME NEW m \in SelfClient, NEW state \in {"Idle", "Wait", "Retry"}
    PROVE  /\ selfSetState(m, state) \in SelfClient
           /\ selfSetState(m, state).state = state
           /\ selfSetState(m, state).active = m.active
           /\ selfSetState(m, state).job = m.job
           /\ selfSetState(m, state).blob = m.blob
           /\ selfSetState(m, state).blocktemplate = m.blocktemplate
           /\ \/ /\ selfSetState(m, state).told = m.told
                 /\ selfSetState(m, state).given = m.given
                 /\ \/ state = "Idle"
                    \/ Failed(m) => Failed(selfSetState(m, state))
              \/ /\ ~selfSetState(m, state).told
                 /\ selfSetState(m, state).given = None
                 /\ Failed(selfSetState(m, state))
<1> DEFINE n == selfSetState(m, state)
<1>1. CASE m.state = state
  BY <1>1 DEF selfSetState
<1>2. CASE m.state # state /\ state = "Idle"
  <2>1. n = [m EXCEPT !.state = state, !.failures = 0]
    BY <1>2 DEF selfSetState
  <2>2. 0 \in 0 .. Retries + 1
    BY SelfSelectAssumption
  <2> QED
    BY <1>2, <2>1, <2>2 DEF SelfClient
<1>3. CASE m.state # state /\ state = "Wait"
  <2>1. n = [m EXCEPT !.state = state]
    BY <1>3 DEF selfSetState
  <2> QED
    BY <1>3, <2>1 DEF SelfClient, Failed
<1>4. CASE m.state # state /\ state = "Retry"
  <2> DEFINE f == IF m.failures > Retries THEN m.failures ELSE m.failures + 1
  <2>1. f \in 0 .. Retries + 1
    BY SelfSelectAssumption DEF SelfClient
  <2>2. CASE m.failures > Retries
    <3>1. n = [toldClosed(m) EXCEPT !.state = state,
                 !.failures = IF @ > Retries THEN @ ELSE @ + 1]
      BY <1>4, <2>2 DEF selfSetState
    <3>2. n = [toldClosed(m) EXCEPT !.state = state, !.failures = f]
      BY <3>1, ClosedFields DEF SelfClient
    <3>3. n \in SelfClient /\ n.state = state /\ Failed(n)
      BY <1>4, <2>1, <2>2, <3>2, ClosedFields DEF SelfClient, Failed
    <3> HIDE DEF f
    <3>4. /\ n.active = toldClosed(m).active /\ n.job = toldClosed(m).job
          /\ n.blob = toldClosed(m).blob /\ n.told = toldClosed(m).told
          /\ n.blocktemplate = toldClosed(m).blocktemplate
          /\ n.given = toldClosed(m).given
      BY <3>2, ClosedFields DEF SelfClient
    <3> QED
      BY <3>3, <3>4, ClosedFields
  <2>3. CASE ~(m.failures > Retries)
    <3>1. n = [m EXCEPT !.state = state,
                 !.failures = IF @ > Retries THEN @ ELSE @ + 1]
      BY <1>4, <2>3 DEF selfSetState
    <3>2. n = [m EXCEPT !.state = state, !.failures = f]
      BY <3>1 DEF SelfClient
    <3> HIDE DEF f
    <3>3. n \in SelfClient /\ n.state = state /\ n.failures = f
      BY <1>4, <2>1, <3>2 DEF SelfClient
    <3> QED
      BY <2>3, <3>2, <3>3 DEF SelfClient, Failed
  <2> QED
    BY <2>2, <2>3
<1> QED
  BY <1>1, <1>2, <1>3, <1>4

(* Waiting and retrying keep what the client holds.                           *)
LEMMA SetStateKeeps ==
    ASSUME NEW m \in SelfClient, NEW state \in {"Wait", "Retry"},
           ClientFits(m)
    PROVE  ClientFits(selfSetState(m, state))
<1> DEFINE n == selfSetState(m, state)
<1>1. /\ n.active = m.active /\ n.job = m.job /\ n.blob = m.blob
      /\ \/ /\ n.told = m.told /\ n.given = m.given
            /\ Failed(m) => Failed(n)
         \/ ~n.told /\ n.given = None /\ Failed(n)
  <2>1. state \in {"Idle", "Wait", "Retry"} /\ state # "Idle"
    OBVIOUS
  <2> QED
    BY <2>1, SetStateFields
<1> HIDE DEF n
<1>2. ClientFits(n)
  BY <1>1 DEF ClientFits, BlobFits, OpenOrFailed, GivenOpen
<1> QED
  BY <1>2 DEF n

(* getBlockTemplate: what was asked before is older than the new request.     *)
LEMMA GetBlockTemplateKeeps ==
    ASSUME SelfInv,
           NEW m \in SelfClient, ClientFits(m), m.job \in Jobs,
           NEW new \in SUBSET {Request("block", None)},
           getBlockTemplate(m, new)
    PROVE  /\ self' \in SelfClient /\ self'.job \in Jobs
           /\ ClientFits(self)' /\ NewestAsks(self)' /\ http' \subseteq Requests
<1>1. self' = selfSetState(m, "Wait")
  BY DEF getBlockTemplate
<1>2. self' \in SelfClient /\ self'.job = m.job
  BY <1>1, SetStateFields
<1>3. ClientFits(self')
  BY <1>1, SetStateKeeps
<1>4. ASSUME NEW r \in http'
      PROVE  /\ r \in Requests
             /\ r.kind = "template" => r.job \in Jobs /\ (r.age = 1 => r.job = m.job)
  <2>1. r \in Older(http) \/ r \in new \/ r = Request("template", m.job)
    BY DEF getBlockTemplate
  <2>2. CASE r \in Older(http)
    <3>1. PICK q \in http : r = [q EXCEPT !.age = @ + 1]
      BY <2>2 DEF Older
    <3>2. q \in Requests /\ q.age < MaxAge
      BY DEF SelfInv, getBlockTemplate, Room
    <3>3. /\ r \in Requests /\ r.kind = q.kind /\ r.job = q.job /\ r.age # 1
      BY <3>1, <3>2, SelfSelectAssumption DEF Requests
    <3>4. q.kind = "template" => q.job \in Jobs
      BY DEF SelfInv, NewestAsks
    <3> QED
      BY <3>3, <3>4
  <2>3. CASE r \in new
    BY <2>3, SelfSelectAssumption DEF Request, Requests
  <2>4. CASE r = Request("template", m.job)
    BY <2>4, SelfSelectAssumption DEF Request, Requests
  <2> QED
    BY <2>1, <2>2, <2>3, <2>4
<1>5. NewestAsks(self)'
  BY <1>2, <1>4 DEF NewestAsks
<1> QED
  BY <1>2, <1>3, <1>4, <1>5 DEF ClientFits, BlobFits, OpenOrFailed, GivenOpen

(* Once there is a job the parts make the invariant.                          *)
LEMMA Parts ==
    ASSUME self' \in SelfClient, self'.job \in Jobs, ClientFits(self)',
           NewestAsks(self)', http' \subseteq Requests, sent' \in Seq(Fitting),
           pool' \in BOOLEAN, orderly' \in BOOLEAN
    PROVE  SelfInv'
<1>1. JobKnown(self)'
  BY SelfSelectAssumption DEF JobKnown
<1> QED
  BY <1>1 DEF SelfInv, ClientFits

-----------------------------------------------------------------------------
(* The inductive step                                                         *)

LEMMA SelfInitInv == ASSUME SelfInit PROVE SelfInv
<1>1. self \in SelfClient
  BY SelfSelectAssumption DEF SelfInit, SelfClient, Blobs
<1>2. sent \in Seq(Fitting) /\ http \subseteq Requests
  BY DEF SelfInit
<1> QED
  BY <1>1, <1>2 DEF SelfInit, SelfInv, JobKnown, BlobFits, NewestAsks,
                    OpenOrFailed, GivenOpen

(* A login brings a job, and the listener is told.                            *)
LEMMA LoginInv ==
    ASSUME SelfInv, NEW j \in Jobs, Login(j)
    PROVE  SelfInv'
<1> DEFINE t == [self EXCEPT !.told = TRUE]
           n == [selfSetState(t, "Idle") EXCEPT !.active = TRUE, !.job = j, !.blob = None]
<1>1. t \in SelfClient /\ t.told
  BY DEF SelfInv, SelfClient
<1>2. /\ selfSetState(t, "Idle") \in SelfClient
      /\ selfSetState(t, "Idle").told \/ selfSetState(t, "Idle").given = None
  BY <1>1, SetStateFields
<1>3. selfSetState(t, "Idle").told
  <2>1. CASE t.state = "Idle"
    BY <1>1, <2>1 DEF selfSetState
  <2>2. CASE t.state # "Idle"
    <3>1. selfSetState(t, "Idle") = [t EXCEPT !.state = "Idle", !.failures = 0]
      BY <2>2 DEF selfSetState
    <3> QED
      BY <1>1, <3>1 DEF SelfClient
  <2> QED
    BY <2>1, <2>2
<1>4. n \in SelfClient /\ n.job = j /\ n.blob = None /\ n.told
  BY <1>2, <1>3 DEF SelfClient, Blobs
<1>5. ClientFits(n)
  BY <1>4 DEF ClientFits, BlobFits, OpenOrFailed, GivenOpen
<1>6. getBlockTemplate(n, {}) /\ pool' = TRUE /\ orderly' = TRUE /\ sent' = sent
  BY DEF Login
<1> HIDE DEF n
<1>7. /\ self' \in SelfClient /\ self'.job \in Jobs
      /\ ClientFits(self)' /\ NewestAsks(self)' /\ http' \subseteq Requests
  BY <1>4, <1>5, <1>6, GetBlockTemplateKeeps
<1> QED
  BY <1>6, <1>7, Parts DEF SelfInv

(* Another job: no blob yet, and a request of its own.                        *)
LEMMA NewJobInv ==
    ASSUME SelfInv, NEW j \in Jobs, NewJob(j)
    PROVE  SelfInv'
<1> DEFINE n == [self EXCEPT !.job = j, !.blob = None]
<1>1. /\ n \in SelfClient /\ n.job = j /\ n.blob = None /\ n.told = self.told
      /\ n.active = self.active /\ n.failures = self.failures /\ n.given = self.given
  BY DEF SelfInv, SelfClient, Blobs
<1>2. getBlockTemplate(n, {}) /\ UNCHANGED <<pool, sent>> /\ orderly' \in BOOLEAN
  <2>1. orderly' = (orderly /\ sent = <<>>) /\ getBlockTemplate(n, {})
    BY DEF NewJob
  <2>2. orderly' \in BOOLEAN
    BY <2>1, Zenon
  <2> QED
    BY <2>1, <2>2 DEF NewJob
<1> HIDE DEF n
<1>3. ClientFits(n)
  BY <1>1 DEF SelfInv, ClientFits, BlobFits, OpenOrFailed, GivenOpen, Failed
<1>4. /\ self' \in SelfClient /\ self'.job \in Jobs
      /\ ClientFits(self)' /\ NewestAsks(self)' /\ http' \subseteq Requests
  BY <1>1, <1>2, <1>3, GetBlockTemplateKeeps
<1> QED
  BY <1>2, <1>4, Parts DEF SelfInv

(* A client that retries or is taken for logged in has a job to ask for.      *)
LEMMA AskAgainInv ==
    ASSUME SelfInv,
           Tick \/ \E block \in BOOLEAN : SubmitShare(block)
    PROVE  SelfInv'
<1>1. self.job \in Jobs
  <2>1. self.state = "Retry" \/ self.told
    BY DEF Tick, SubmitShare
  <2> QED
    BY <2>1 DEF SelfInv, JobKnown, SelfClient
<1>2. UNCHANGED <<pool, sent, orderly>>
  BY DEF Tick, SubmitShare
<1>3. PICK new \in SUBSET {Request("block", None)} :
          getBlockTemplate(self, new)
  BY DEF Tick, SubmitShare
<1>4. self \in SelfClient /\ ClientFits(self)
  BY DEF SelfInv, ClientFits
<1>5. /\ self' \in SelfClient /\ self'.job \in Jobs
      /\ ClientFits(self)' /\ NewestAsks(self)' /\ http' \subseteq Requests
  BY <1>1, <1>3, <1>4, GetBlockTemplateKeeps
<1> QED
  BY <1>2, <1>5, Parts DEF SelfInv

(* A close forgets the job given and what was sent.                           *)
LEMMA SelfCloseInv ==
    ASSUME SelfInv, Close
    PROVE  SelfInv'
<1> DEFINE n == selfSetState(toldClosed(self), "Idle")
<1>1. /\ pool' = FALSE /\ sent' = <<>> /\ UNCHANGED <<http, orderly>>
      /\ self' = [n EXCEPT !.active = FALSE]
  BY DEF Close
<1>2. self \in SelfClient /\ toldClosed(self) \in SelfClient
  BY ClosedFields DEF SelfInv
<1>3. /\ n \in SelfClient /\ n.state = "Idle" /\ ~n.told /\ n.given = None
      /\ n.job = self.job /\ n.blob = self.blob
  BY <1>2, ClosedFields, SetStateFields
<1> HIDE DEF n
<1>4. /\ self' \in SelfClient /\ self'.state = "Idle" /\ ~self'.told
      /\ self'.given = None /\ ~self'.active
      /\ self'.job = self.job /\ self'.blob = self.blob
  BY <1>1, <1>3 DEF SelfClient
<1>5. sent' \in Seq(Fitting)
  BY <1>1
<1> QED
  BY <1>1, <1>4, <1>5
     DEF SelfInv, JobKnown, BlobFits, NewestAsks, OpenOrFailed, GivenOpen

(* A failure: the client retries, or gives up towards its listener.           *)
LEMMA RetryInv ==
    ASSUME SelfInv, self.job \in Jobs,
           self' = retry(self), http' \subseteq http, sent' \in Seq(Fitting),
           pool' = pool, orderly' \in BOOLEAN
    PROVE  SelfInv'
<1>1. self' = selfSetState(self, "Retry")
  BY DEF retry
<1>2. self' \in SelfClient /\ self'.job = self.job
  BY <1>1, SetStateFields DEF SelfInv
<1>3. ClientFits(self')
  BY <1>1, SetStateKeeps DEF SelfInv, ClientFits
<1>4. ClientFits(self)'
  BY <1>3 DEF ClientFits, BlobFits, OpenOrFailed, GivenOpen
<1>5. NewestAsks(self)' /\ http' \subseteq Requests
  BY <1>2 DEF SelfInv, NewestAsks
<1> QED
  BY <1>2, <1>4, <1>5, Parts DEF SelfInv

(* An answer of the pool is to something that was sent, so there is a job.    *)
LEMMA PoolAnswersFields ==
    ASSUME SelfInv, NEW s, PoolAnswers(s)
    PROVE  sent' \in Seq(Fitting) /\ orderly' \in BOOLEAN /\ self.job \in Jobs
<1>1. PICK i \in DOMAIN sent : /\ sent' = RemoveAt(sent, i)
                               /\ orderly' = (orderly /\ i = 1)
  BY DEF PoolAnswers
<1>2. sent' \in Seq(Fitting)
  BY <1>1, RemoveAtSeq DEF SelfInv
<1>3. orderly' \in BOOLEAN
  BY <1>1, Zenon
<1>4. self.job \in Jobs
  BY DEF PoolAnswers, SelfInv, JobKnown, SelfClient
<1> QED
  BY <1>2, <1>3, <1>4

(* The listener gets m_job with the blob fetched for it, and takes the client *)
(* for logged in, also when a retry too many had closed it.                   *)
LEMMA AcceptInv ==
    ASSUME SelfInv, NEW s, Accept(s)
    PROVE  SelfInv'
<1>1. /\ sent' \in Seq(Fitting) /\ orderly' \in BOOLEAN /\ self.job \in Jobs
      /\ UNCHANGED <<pool, http>> /\ self \in SelfClient
  BY PoolAnswersFields DEF Accept, SelfInv
<1>2. CASE ~self.active
  <2>1. self' = self
    BY <1>2 DEF Accept
  <2> QED
    BY <1>1, <2>1, Parts DEF SelfInv, ClientFits, BlobFits, NewestAsks, OpenOrFailed,
                             GivenOpen, Failed
<1>3. CASE self.active
  <2> DEFINE n == selfSetState(self, "Idle")
             j == <<self.job, self.blob>>
             told == n.told \/ self.failures > Retries
  <2>1. n \in SelfClient /\ n.job = self.job /\ n.blob = self.blob /\ n.active = self.active
    BY <1>1, SetStateFields
  <2>2. n.told = self.told
    <3>1. n = self \/ n = [self EXCEPT !.state = "Idle", !.failures = 0]
      BY DEF selfSetState
    <3> QED
      BY <1>1, <3>1 DEF SelfClient
  <2>3. told = TRUE
    BY <1>1, <1>3, <2>2, Zenon DEF SelfInv, OpenOrFailed, Failed
  <2>4. j \in Fitting
    BY <1>1 DEF SelfInv, BlobFits, Fitting, SelfClient
  <2>5. (s = j) \in BOOLEAN
    OBVIOUS
  <2>6. self' = [n EXCEPT !.told = told, !.given = j, !.accepted = (s = j)]
    BY <1>3 DEF Accept
  <2> HIDE DEF n, j, told
  <2>7. /\ self' \in SelfClient /\ self'.job = self.job /\ self'.blob = self.blob
        /\ self'.told
    BY <2>1, <2>3, <2>4, <2>5, <2>6 DEF SelfClient
  <2>8. ClientFits(self)' /\ NewestAsks(self)' /\ http' \subseteq Requests
    BY <1>1, <2>7 DEF SelfInv, ClientFits, BlobFits, NewestAsks, OpenOrFailed, GivenOpen
  <2> QED
    BY <1>1, <2>7, <2>8, Parts DEF SelfInv
<1> QED
  BY <1>2, <1>3

(* A template is taken for the newest request only: for m_job.                *)
LEMMA TemplateInv ==
    ASSUME SelfInv, NEW r, NEW t \in Templates, Template(r, t)
    PROVE  SelfInv'
<1> DEFINE b == <<t, r.job>>
<1>1. /\ r \in http /\ http' \subseteq http /\ UNCHANGED <<pool, orderly>>
      /\ r.kind = "template" /\ r.age = 1 /\ self \in SelfClient
  BY DEF Template, Answered, SelfInv
<1>2. r.job \in Jobs /\ r.job = self.job
  BY <1>1 DEF SelfInv, NewestAsks
<1>3. b \in Blobs /\ b[2] = self.job
  BY <1>2 DEF Blobs
<1>4. /\ self' = [self EXCEPT !.blob = b, !.blocktemplate = b]
      /\ sent' \in {sent, Append(sent, <<self.job, b>>)}
  BY DEF Template, Takes
<1> HIDE DEF b
<1>5. <<self.job, b>> \in Fitting
  BY <1>2, <1>3 DEF Fitting
<1>6. sent' \in Seq(Fitting)
  BY <1>4, <1>5 DEF SelfInv
<1>7. /\ self' \in SelfClient /\ self'.job = self.job /\ self'.blob = b
      /\ self'.told = self.told /\ self'.given = self.given
      /\ self'.active = self.active /\ self'.failures = self.failures
  BY <1>1, <1>3, <1>4 DEF SelfClient
<1>8. ClientFits(self)' /\ NewestAsks(self)' /\ http' \subseteq Requests
  BY <1>1, <1>3, <1>7
     DEF SelfInv, ClientFits, BlobFits, NewestAsks, OpenOrFailed, GivenOpen, Failed
<1> QED
  BY <1>1, <1>2, <1>6, <1>7, <1>8, Parts DEF SelfInv

(* Whatever request is answered, there is a job.                              *)
LEMMA DaemonInv ==
    ASSUME SelfInv, NEW r,
           BlockAnswer(r) \/ Stale(r) \/ Fail(r) \/ Lost(r)
    PROVE  SelfInv'
<1>1. r \in http /\ http' \subseteq http /\ UNCHANGED <<pool, sent>> /\ orderly' \in BOOLEAN
  BY DEF BlockAnswer, Stale, Fail, Lost, Answered, SelfInv
<1>2. self.job \in Jobs /\ sent' \in Seq(Fitting)
  BY <1>1 DEF SelfInv, JobKnown, SelfClient
<1>3. CASE BlockAnswer(r) \/ Fail(r)
  <2>1. self' = retry(self)
    BY <1>3 DEF BlockAnswer, Fail
  <2> QED
    BY <1>1, <1>2, <2>1, RetryInv
<1>4. CASE Stale(r) \/ Lost(r)
  <2>1. self' = self
    BY <1>4 DEF Stale, Lost
  <2> QED
    BY <1>1, <1>2, <2>1, Parts DEF SelfInv, ClientFits, BlobFits, NewestAsks,
                                   OpenOrFailed, GivenOpen, Failed
<1> QED
  BY <1>3, <1>4

LEMMA SelfStep == ASSUME SelfInv, [SelfNext]_selfVars PROVE SelfInv'
<1>1. CASE UNCHANGED selfVars
  BY <1>1 DEF selfVars, SelfInv, JobKnown, BlobFits, NewestAsks, OpenOrFailed,
              GivenOpen, Failed
<1>2. CASE PoolChanges
  BY <1>2, SelfCloseInv, LoginInv, NewJobInv DEF PoolChanges
<1>3. CASE Refuses
  <2>1. PICK s : Refuse(s)
    BY <1>3 DEF Refuses
  <2>2. /\ sent' \in Seq(Fitting) /\ orderly' \in BOOLEAN /\ self.job \in Jobs
    BY <2>1, PoolAnswersFields DEF Refuse
  <2> QED
    BY <2>1, <2>2, RetryInv DEF Refuse
<1>4. CASE Accepts
  BY <1>4, AcceptInv DEF Accepts
<1>5. CASE DaemonFails \/ Loses
  BY <1>5, DaemonInv DEF DaemonFails, Loses
<1>6. CASE DaemonAnswers
  BY <1>6, DaemonInv, TemplateInv DEF DaemonAnswers
<1>7. CASE Tick \/ Submits
  BY <1>7, AskAgainInv DEF Submits
<1> QED
  BY <1>1, <1>2, <1>3, <1>4, <1>5, <1>6, <1>7 DEF SelfNext

LEMMA SelfInvariance == SelfSpec => []SelfInv
<1>1. SelfInit => SelfInv
  BY SelfInitInv
<1>2. SelfInv /\ [SelfNext]_selfVars => SelfInv'
  BY SelfStep
<1> QED
  BY <1>1, <1>2, PTL DEF SelfSpec

(* The members of SelfSelectClient keep their types, in any number of jobs,   *)
(* templates, retries and requests under way.                                 *)
THEOREM SelfTypeCorrect == SelfSpec => []SelfTypeOK
<1>1. SelfInv => SelfTypeOK
  BY TypeFromInv
<1> QED
  BY <1>1, SelfInvariance, PTL

(* What the pool is told of and what the listener gets is a job with a        *)
(* template that was fetched for it, however late daemon and pool answer and  *)
(* whatever jobs, shares and retries come in between.                         *)
THEOREM TemplatesFit == SelfSpec => []TemplateFitsJob
<1>1. SelfInv => TemplateFitsJob
  <2>1. ASSUME SelfInv, NEW s \in ToSet(sent) \cup ({self.given} \ {None})
        PROVE  s \in Fitting
    <3>1. ASSUME s \in ToSet(sent) PROVE s \in Fitting
      BY <2>1, <3>1 DEF SelfInv, ToSet
    <3> QED
      BY <2>1, <3>1 DEF SelfInv, SelfClient
  <2> QED
    BY <2>1 DEF Fitting, TemplateFitsJob
<1> QED
  BY <1>1, SelfInvariance, PTL

(* A listener that was told of a close is given no job before it is told of   *)
(* the login again, although the answer that brings the job may come late.    *)
THEOREM GivenToOpen == SelfSpec => []GivenWhenOpen
<1>1. SelfInv => GivenWhenOpen
  BY DEF SelfInv, GivenOpen, GivenWhenOpen
<1> QED
  BY <1>1, SelfInvariance, PTL

-----------------------------------------------------------------------------
(* No job is forgotten.  In an orderly world all that the pool has to answer  *)
(* is about m_job, with a template; a client that is not connected waits for  *)
(* no answer; and the members know of a connection as the pool does.          *)
OwnSent == {s \in Fitting : s[1] = self.job}

OwedInv ==
    /\ pool => self.active
    /\ ~pool => sent = <<>>
    /\ orderly => sent \in Seq(OwnSent) /\ (sent # <<>> => self.blob # None)
    /\ JobIsOwed

(* A request just sent is the newest.                                         *)
LEMMA AskedIsOwed ==
    ASSUME NEW m \in SelfClient, NEW new, getBlockTemplate(m, new)
    PROVE  /\ self'.job = m.job /\ self'.blob = m.blob /\ self'.active = m.active
           /\ JobIsOwed'
<1>1. self' = selfSetState(m, "Wait")
  BY DEF getBlockTemplate
<1>2. self'.job = m.job /\ self'.blob = m.blob /\ self'.active = m.active
  BY <1>1, SetStateFields
<1>3. Request("template", m.job) \in http'
  BY DEF getBlockTemplate
<1>4. \E r \in http' : r.kind = "template" /\ r.age = 1
  BY <1>3 DEF Request
<1> QED
  BY <1>2, <1>4 DEF JobIsOwed

(* The pool answers the first of what it owes.                                *)
LEMMA AnsweredSent ==
    ASSUME SelfInv, OwedInv, NEW s, PoolAnswers(s)
    PROVE  /\ pool /\ sent # <<>>
           /\ orderly' => orderly /\ sent' \in Seq(OwnSent)
<1>1. PICK i \in DOMAIN sent : /\ sent' = RemoveAt(sent, i)
                               /\ orderly' = (orderly /\ i = 1)
  BY DEF PoolAnswers
<1>2. orderly \in BOOLEAN /\ orderly' => orderly
  BY <1>1, Zenon DEF SelfInv
<1>3. sent # <<>>
  BY <1>1
<1>4. orderly => sent' \in Seq(OwnSent)
  BY <1>1, RemoveAtSeq DEF OwedInv
<1> QED
  BY <1>2, <1>3, <1>4 DEF PoolAnswers

(* Whatever failed, the timer tries again.                                    *)
LEMMA RetryOwes ==
    ASSUME SelfInv, OwedInv, self' = retry(self), pool' = pool,
           ~pool' => sent' = <<>>, sent' # <<>> => sent # <<>>,
           orderly' => orderly /\ sent' \in Seq(OwnSent)
    PROVE  OwedInv'
<1>1. self' = selfSetState(self, "Retry")
  BY DEF retry
<1>2. /\ self'.state = "Retry" /\ self'.job = self.job /\ self'.blob = self.blob
      /\ self'.active = self.active
  BY <1>1, SetStateFields DEF SelfInv
<1>3. OwnSent' = OwnSent
  BY <1>2 DEF OwnSent, Fitting, Blobs
<1>4. JobIsOwed'
  BY <1>2 DEF JobIsOwed
<1> QED
  BY <1>2, <1>3, <1>4 DEF OwedInv

(* A job asks for its template, and so does a retry and a share.              *)
LEMMA AskingOwes ==
    ASSUME SelfInv, OwedInv,
           \/ \E j \in Jobs : Login(j) \/ NewJob(j)
           \/ Tick \/ \E block \in BOOLEAN : SubmitShare(block)
    PROVE  OwedInv'
<1>1. self \in SelfClient
  BY DEF SelfInv
<1>2. ASSUME NEW j \in Jobs, Login(j) PROVE OwedInv'
  <2> DEFINE t == [self EXCEPT !.told = TRUE]
             n == [selfSetState(t, "Idle") EXCEPT !.active = TRUE, !.job = j, !.blob = None]
  <2>1. t \in SelfClient
    BY <1>1 DEF SelfClient
  <2>2. selfSetState(t, "Idle") \in SelfClient
    BY <2>1, SetStateFields
  <2>3. n \in SelfClient /\ n.active
    BY <2>2 DEF SelfClient, Blobs
  <2>4. getBlockTemplate(n, {}) /\ pool' = TRUE /\ sent' = sent /\ ~pool
    BY <1>2 DEF Login
  <2> HIDE DEF n
  <2>5. self'.active /\ JobIsOwed'
    BY <2>3, <2>4, AskedIsOwed
  <2>6. sent' = <<>>
    BY <2>4 DEF OwedInv
  <2> QED
    BY <2>4, <2>5, <2>6 DEF OwedInv
<1>3. ASSUME NEW j \in Jobs, NewJob(j) PROVE OwedInv'
  <2> DEFINE n == [self EXCEPT !.job = j, !.blob = None]
  <2>1. n \in SelfClient /\ n.active = self.active
    BY <1>1 DEF SelfClient, Blobs
  <2>2. /\ getBlockTemplate(n, {}) /\ UNCHANGED <<pool, sent>> /\ pool
        /\ orderly' = (orderly /\ sent = <<>>)
    BY <1>3 DEF NewJob
  <2> HIDE DEF n
  <2>3. self'.active = self.active /\ JobIsOwed'
    BY <2>1, <2>2, AskedIsOwed
  <2>4. sent' = <<>> => sent' \in Seq(OwnSent')
    OBVIOUS
  <2>5. orderly' => sent' = <<>>
    BY <2>2, Zenon
  <2>6. pool' /\ self'.active
    BY <2>2, <2>3 DEF OwedInv
  <2> QED
    BY <2>3, <2>4, <2>5, <2>6, Zenon DEF OwedInv
<1>4. ASSUME Tick \/ \E block \in BOOLEAN : SubmitShare(block) PROVE OwedInv'
  <2>1. PICK new : getBlockTemplate(self, new)
    BY <1>4 DEF Tick, SubmitShare
  <2>2. UNCHANGED <<pool, sent, orderly>>
    BY <1>4 DEF Tick, SubmitShare
  <2>3. /\ self'.job = self.job /\ self'.blob = self.blob
        /\ self'.active = self.active /\ JobIsOwed'
    BY <1>1, <2>1, AskedIsOwed
  <2>4. OwnSent' = OwnSent
    BY <2>3 DEF OwnSent, Fitting, Blobs
  <2> QED
    BY <2>2, <2>3, <2>4 DEF OwedInv
<1> QED
  BY <1>2, <1>3, <1>4

(* What the pool accepts in an orderly world is m_job with its template, and  *)
(* the listener of a connected client gets it.                                *)
LEMMA AcceptOwes ==
    ASSUME SelfInv, OwedInv, NEW s, Accept(s)
    PROVE  OwedInv'
<1> DEFINE n == selfSetState(self, "Idle")
           told == n.told \/ self.failures > Retries
           j == <<self.job, self.blob>>
<1>1. /\ pool /\ sent # <<>> /\ UNCHANGED <<pool, http>>
      /\ orderly' => orderly /\ sent' \in Seq(OwnSent)
  BY AnsweredSent DEF Accept
<1>2. self.active /\ self \in SelfClient
  BY <1>1 DEF OwedInv, SelfInv
<1>3. self' = [n EXCEPT !.told = told, !.given = j, !.accepted = (s = j)]
  BY <1>2 DEF Accept
<1>4. n \in SelfClient /\ n.job = self.job /\ n.blob = self.blob /\ n.active = self.active
  BY <1>2, SetStateFields
<1> HIDE DEF n, told
<1>5. /\ self'.job = self.job /\ self'.blob = self.blob /\ self'.active
      /\ self'.given = j
  BY <1>2, <1>3, <1>4 DEF SelfClient
<1>6. orderly' => JobIsOwed'
  <2>1. SUFFICES ASSUME orderly' PROVE j # None /\ self.blob # None
    BY <1>5 DEF JobIsOwed
  <2>2. self.blob # None
    BY <1>1, <2>1 DEF OwedInv
  <2>3. self.job \in Jobs /\ self.blob \in Templates \X Jobs
    BY <1>2, <2>2, PoolAnswersFields DEF Accept, SelfClient, Blobs
  <2> QED
    BY <2>2, <2>3, SelfSelectAssumption
<1>7. JobIsOwed'
  BY <1>6 DEF JobIsOwed
<1>8. OwnSent' = OwnSent
  BY <1>5 DEF OwnSent, Fitting, Blobs
<1> QED
  BY <1>1, <1>5, <1>7, <1>8 DEF OwedInv

(* The template is sent on with its job: now the pool owes an answer.         *)
LEMMA TemplateOwes ==
    ASSUME SelfInv, OwedInv, NEW r, NEW t \in Templates, Template(r, t)
    PROVE  OwedInv'
<1> DEFINE b == <<t, r.job>>
           e == <<self.job, b>>
<1>1. /\ r \in http /\ UNCHANGED <<pool, orderly>>
      /\ r.kind = "template" /\ r.age = 1 /\ self \in SelfClient
  BY DEF Template, Answered, SelfInv
<1>2. r.job \in Jobs /\ r.job = self.job
  BY <1>1 DEF SelfInv, NewestAsks
<1>3. b \in Blobs /\ b # None
  BY <1>2, SelfSelectAssumption DEF Blobs
<1>4. /\ self' = [self EXCEPT !.blob = b, !.blocktemplate = b]
      /\ sent' = IF pool THEN Append(sent, e) ELSE sent
  BY DEF Template, Takes
<1>5. /\ self'.job = self.job /\ self'.blob = b /\ self'.active = self.active
  BY <1>1, <1>4 DEF SelfClient
<1>6. OwnSent' = OwnSent
  BY <1>5 DEF OwnSent, Fitting, Blobs
<1>7. e \in OwnSent /\ e[1] = self.job
  BY <1>2, <1>3 DEF OwnSent, Fitting
<1> HIDE DEF b, e
<1>8. orderly => sent' \in Seq(OwnSent)
  BY <1>4, <1>7 DEF OwedInv
<1>9. JobIsOwed'
  <2>1. SUFFICES ASSUME pool PROVE e \in ToSet(sent')
    BY <1>1, <1>5, <1>7 DEF JobIsOwed
  <2>2. sent \in Seq(Fitting) /\ sent' = Append(sent, e)
    BY <1>4, <2>1 DEF SelfInv
  <2>3. sent'[Len(sent')] = e /\ Len(sent') \in DOMAIN sent'
    BY <2>2
  <2> QED
    BY <2>3 DEF ToSet
<1> QED
  BY <1>1, <1>3, <1>4, <1>5, <1>6, <1>8, <1>9 DEF OwedInv

(* An answer to an older request, or none, leaves the newest one open.        *)
LEMMA StaleOwes ==
    ASSUME SelfInv, OwedInv, NEW r, Stale(r) \/ Lost(r)
    PROVE  OwedInv'
<1>1. UNCHANGED <<self, pool, sent>> /\ (orderly' => orderly) /\ http' = http \ {r}
  BY DEF Stale, Lost, Answered
<1>2. JobIsOwed'
  <2>1. SUFFICES ASSUME pool, orderly' PROVE JobIsOwed'
    BY <1>1 DEF JobIsOwed
  <2>2. r.age > 1 /\ orderly
    BY <1>1, <2>1 DEF Stale, Lost
  <2>3. \A q \in http : q.age = 1 => q \in http'
    BY <1>1, <2>2
  <2> QED
    BY <1>1, <2>1, <2>2, <2>3 DEF OwedInv, JobIsOwed
<1>3. OwnSent' = OwnSent
  BY <1>1 DEF OwnSent, Fitting, Blobs
<1> QED
  BY <1>1, <1>2, <1>3 DEF OwedInv

LEMMA OwedStep ==
    ASSUME SelfInv, OwedInv, [SelfNext]_selfVars
    PROVE  OwedInv'
<1>1. CASE UNCHANGED selfVars
  BY <1>1 DEF selfVars, OwedInv, OwnSent, Fitting, Blobs, JobIsOwed, ToSet
<1>2. CASE Close
  <2>1. /\ pool' = FALSE /\ sent' = <<>>
    BY <1>2 DEF Close
  <2> QED
    BY <2>1 DEF OwedInv, JobIsOwed
<1>3. ASSUME NEW s, Refuse(s) PROVE OwedInv'
  BY <1>3, AnsweredSent, RetryOwes DEF Refuse
<1>4. ASSUME NEW r, BlockAnswer(r) \/ Fail(r) PROVE OwedInv'
  <2>1. self' = retry(self) /\ UNCHANGED <<pool, sent, orderly>>
    BY <1>4 DEF BlockAnswer, Fail
  <2> QED
    BY <2>1, RetryOwes DEF OwedInv
<1> QED
  BY <1>1, <1>2, <1>3, <1>4, AskingOwes, AcceptOwes, TemplateOwes, StaleOwes
  DEF SelfNext, PoolChanges, Refuses, Accepts, DaemonFails, Loses, DaemonAnswers,
      Submits

(* A connected client whose world is orderly never waits for nothing: its job *)
(* is with the listener, or somebody owes an answer about it, or the timer    *)
(* tries again.  It is what JobIsCompleted rests on besides fairness.         *)
THEOREM JobStaysOwed == SelfSpec => []JobIsOwed
<1>1. SelfInit => OwedInv
  BY DEF SelfInit, OwedInv, JobIsOwed
<1>2. SelfInv /\ OwedInv /\ [SelfNext]_selfVars => OwedInv'
  BY OwedStep
<1>3. OwedInv => JobIsOwed
  BY DEF OwedInv
<1> QED
  BY <1>1, <1>2, <1>3, SelfInvariance, PTL DEF SelfSpec
=============================================================================
