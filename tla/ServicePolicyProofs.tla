------------------------- MODULE ServicePolicyProofs -------------------------
(* Proofs about ServicePolicy, for any number of shells and any of the        *)
(* commands: its type invariant, and that the service runs as the file says   *)
(* when no command runs.                                                      *)

EXTENDS ServicePolicy, SequenceTheorems, TLAPS

(* No step of s from the i-th on does one of ops.                             *)
FreeFrom(s, i, ops) == \A j \in 1 .. Len(s) : j >= i => s[j][1] \notin ops
Free(s, ops)        == FreeFrom(s, 1, ops)

Writing == {"lines", "truncate", "write", "default", "wallet", "off", "restart"}
Giving  == {"wallet", "loads", "apply"}   \* a command may end here

(* A command that will restart the service, whatever it finds                 *)
Committed(s) ==
    /\ s \in Seq(Steps) /\ s # <<>>
    /\ s[Len(s)] = <<"restart", "", "">>
    /\ Free(s, Giving)

(* One that may end at its first step, for want of a wallet                   *)
Starting(s) ==
    /\ s \in Seq(Steps) /\ s # <<>>
    /\ s[Len(s)] = <<"restart", "", "">>
    /\ Free(s, {"loads", "apply"}) /\ FreeFrom(s, 2, {"wallet"})

(* One that does not touch the file nor the service until it applies          *)
Quiet(s) == s \in Seq(Steps) /\ Free(s, Writing)

(* One that first sets POLICY_ENABLED, with no restart of its own             *)
Enabling(s) ==
    /\ s \in Seq(Steps) /\ Len(s) >= 3
    /\ s[1] = <<"lines", "POLICY_ENABLED", "1">>
    /\ s[2] = <<"truncate", "POLICY_ENABLED", "1">>
    /\ s[3] = <<"write", "POLICY_ENABLED", "1">>
    /\ FreeFrom(s, 4, Writing)

-----------------------------------------------------------------------------
(* Sequences of steps                                                         *)

LEMMA NotEmpty ==
    ASSUME NEW s, s \in Seq(Steps)
    PROVE  /\ Len(s) \in Nat
           /\ s # <<>> => Len(s) >= 1
           /\ s # <<>> /\ Len(s) # 1 => Len(s) > 1
           /\ Len(s) >= 1 => s # <<>>
<1> DEFINE n == Len(s)
<1>1. n \in Nat /\ (s # <<>> => n >= 1) /\ (n >= 1 => s # <<>>)
  OBVIOUS
<1> HIDE DEF n
<1>2. n >= 1 /\ n # 1 => n > 1
  BY <1>1
<1> QED
  BY <1>1, <1>2 DEF n

(* Fewer steps, fewer operations                                              *)
LEMMA FreeLess ==
    ASSUME NEW s, s \in Seq(Steps), NEW i \in Nat, NEW k \in Nat, k <= i,
           NEW ops, NEW more, ops \subseteq more, FreeFrom(s, k, more)
    PROVE  FreeFrom(s, i, ops)
<1> SUFFICES ASSUME NEW j \in 1 .. Len(s), j >= i
             PROVE  s[j][1] \notin ops
  BY DEF FreeFrom
<1>1. j >= k
  BY NotEmpty
<1> QED
  BY <1>1 DEF FreeFrom

LEMMA TailIs ==
    ASSUME NEW s, s \in Seq(Steps), s # <<>>, Len(s) # 1
    PROVE  /\ Tail(s) \in Seq(Steps) /\ Tail(s) # <<>>
           /\ Len(Tail(s)) = Len(s) - 1 /\ Len(s) \in Nat /\ Len(s) > 1
           /\ \A i \in 1 .. Len(s) - 1 : Tail(s)[i] = s[i + 1]
<1>1. /\ Tail(s) \in Seq(Steps) /\ Len(Tail(s)) = Len(s) - 1
      /\ \A i \in 1 .. Len(Tail(s)) : Tail(s)[i] = s[i + 1]
  BY HeadTailProperties
<1>2. Len(s) \in Nat /\ Len(s) > 1
  BY NotEmpty
<1>3. Tail(s) # <<>>
  BY <1>1, <1>2, NotEmpty
<1> QED
  BY <1>1, <1>2, <1>3

LEMMA HeadIs ==
    ASSUME NEW s, s \in Seq(Steps), s # <<>>
    PROVE  Head(s) = s[1] /\ Head(s) \in Steps /\ 1 \in 1 .. Len(s)
             /\ Len(s) \in 1 .. Len(s)
OBVIOUS

LEMMA FreeTail ==
    ASSUME NEW s, s \in Seq(Steps), s # <<>>, Len(s) # 1,
           NEW i \in Nat, NEW ops, FreeFrom(s, i + 1, ops)
    PROVE  FreeFrom(Tail(s), i, ops)
<1> SUFFICES ASSUME NEW j \in 1 .. Len(Tail(s)), j >= i
             PROVE  Tail(s)[j][1] \notin ops
  BY DEF FreeFrom
<1>1. j + 1 \in 1 .. Len(s) /\ j + 1 >= i + 1 /\ Tail(s)[j] = s[j + 1]
  BY TailIs
<1> QED
  BY <1>1 DEF FreeFrom

LEMMA TailFree ==
    ASSUME NEW s, s \in Seq(Steps), s # <<>>, Len(s) # 1,
           NEW ops, FreeFrom(s, 1, ops) \/ FreeFrom(s, 2, ops)
    PROVE  Free(Tail(s), ops)
<1> SUFFICES ASSUME NEW j \in 1 .. Len(Tail(s))
             PROVE  Tail(s)[j][1] \notin ops
  BY DEF Free, FreeFrom
<1>1. j + 1 \in 1 .. Len(s) /\ j + 1 >= 2 /\ Tail(s)[j] = s[j + 1]
  BY TailIs
<1> QED
  BY <1>1 DEF FreeFrom

(* The first step is free of what all are.                                    *)
LEMMA FreeHead ==
    ASSUME NEW s, s \in Seq(Steps), s # <<>>, NEW ops, Free(s, ops)
    PROVE  Head(s)[1] \notin ops
BY HeadIs DEF Free, FreeFrom

LEMMA FreeConcat ==
    ASSUME NEW s, s \in Seq(Steps), NEW t, t \in Seq(Steps), NEW i \in Nat, NEW ops,
           FreeFrom(s, i, ops), Free(t, ops)
    PROVE  s \o t \in Seq(Steps) /\ FreeFrom(s \o t, i, ops)
<1>1. /\ s \o t \in Seq(Steps) /\ Len(s \o t) = Len(s) + Len(t)
      /\ \A j \in 1 .. Len(s) + Len(t) :
            (s \o t)[j] = IF j <= Len(s) THEN s[j] ELSE t[j - Len(s)]
  BY ConcatProperties
<1>2. Len(s) \in Nat /\ Len(t) \in Nat
  BY LenProperties
<1>3. ASSUME NEW j \in 1 .. Len(s \o t), j >= i
      PROVE  (s \o t)[j][1] \notin ops
  <2>1. CASE j <= Len(s)
    BY <1>1, <1>2, <1>3, <2>1 DEF FreeFrom
  <2>2. CASE j > Len(s)
    <3>1. j - Len(s) \in 1 .. Len(t)
      BY <1>1, <1>2, <2>2
    <3>2. (s \o t)[j] = t[j - Len(s)]
      BY <1>1, <1>2, <2>2
    <3> QED
      BY <3>1, <3>2 DEF Free, FreeFrom
  <2> QED
    BY <1>2, <2>1, <2>2
<1> QED
  BY <1>1, <1>3 DEF FreeFrom

LEMMA CommitTail ==
    ASSUME NEW s, Committed(s), Len(s) # 1
    PROVE  Committed(Tail(s))
<1>1. /\ Tail(s) \in Seq(Steps) /\ Tail(s) # <<>>
      /\ Len(Tail(s)) = Len(s) - 1 /\ Len(s) \in Nat /\ Len(s) > 1
      /\ \A i \in 1 .. Len(s) - 1 : Tail(s)[i] = s[i + 1]
  BY TailIs DEF Committed
<1>2. Tail(s)[Len(Tail(s))] = s[Len(s)]
  BY <1>1
<1>3. Free(Tail(s), Giving)
  BY TailFree DEF Committed, Free
<1> QED
  BY <1>1, <1>2, <1>3 DEF Committed

LEMMA CommitConcat ==
    ASSUME NEW s, s \in Seq(Steps), Free(s, Giving), NEW t, Committed(t)
    PROVE  Committed(s \o t)
<1>1. /\ s \o t \in Seq(Steps) /\ Len(s \o t) = Len(s) + Len(t)
      /\ \A j \in 1 .. Len(s) + Len(t) :
            (s \o t)[j] = IF j <= Len(s) THEN s[j] ELSE t[j - Len(s)]
  BY ConcatProperties DEF Committed
<1>0. t \in Seq(Steps) /\ t # <<>>
  BY DEF Committed
<1>2. Len(s) \in Nat /\ Len(t) \in Nat /\ Len(t) >= 1
  BY <1>0, NotEmpty
<1>3. (s \o t)[Len(s \o t)] = t[Len(t)]
  BY <1>1, <1>2
<1>4. s \o t # <<>>
  BY <1>1, <1>2, NotEmpty
<1>5. Free(s \o t, Giving)
  BY FreeConcat DEF Committed, Free
<1> QED
  BY <1>1, <1>3, <1>4, <1>5 DEF Committed

LEMMA StartConcat ==
    ASSUME NEW s, s \in Seq(Steps), Free(s, {"loads", "apply"}),
           FreeFrom(s, 2, {"wallet"}), NEW t, Committed(t)
    PROVE  Starting(s \o t)
<1>1. /\ s \o t \in Seq(Steps) /\ Len(s \o t) = Len(s) + Len(t)
      /\ \A j \in 1 .. Len(s) + Len(t) :
            (s \o t)[j] = IF j <= Len(s) THEN s[j] ELSE t[j - Len(s)]
  BY ConcatProperties DEF Committed
<1>0. t \in Seq(Steps) /\ t # <<>>
  BY DEF Committed
<1>2. Len(s) \in Nat /\ Len(t) \in Nat /\ Len(t) >= 1
  BY <1>0, NotEmpty
<1>3. (s \o t)[Len(s \o t)] = t[Len(t)]
  BY <1>1, <1>2
<1>4. s \o t # <<>>
  BY <1>1, <1>2, NotEmpty
<1>5. Free(t, {"loads", "apply"}) /\ Free(t, {"wallet"})
  BY DEF Committed, Free, FreeFrom, Giving
<1>6. Free(s \o t, {"loads", "apply"}) /\ FreeFrom(s \o t, 2, {"wallet"})
  BY <1>5, FreeConcat DEF Committed, Free
<1> QED
  BY <1>1, <1>3, <1>4, <1>6 DEF Committed, Starting

(* Whoever starts and has a wallet is committed.                              *)
LEMMA StartsOrCommits ==
    ASSUME NEW s, Starting(s)
    PROVE  /\ Committed(s) \/ Head(s)[1] = "wallet"
           /\ Len(s) # 1 => Committed(Tail(s))
           /\ Len(s) = 1 => Committed(s)
<1>0. /\ s \in Seq(Steps) /\ s # <<>>
      /\ Free(s, {"loads", "apply"}) /\ FreeFrom(s, 2, {"wallet"})
  BY DEF Starting
<1>1. ASSUME Head(s)[1] # "wallet"
      PROVE  Committed(s)
  <2> SUFFICES ASSUME NEW j \in 1 .. Len(s)
               PROVE  s[j][1] \notin Giving
    BY DEF Starting, Committed, Free, FreeFrom
  <2>1. s[j][1] \notin {"loads", "apply"}
    BY <1>0 DEF Free, FreeFrom
  <2>2. s[j][1] # "wallet"
    <3>1. CASE j = 1
      BY <1>0, <1>1, <3>1, HeadIs
    <3>2. CASE j >= 2
      BY <1>0, <3>2 DEF FreeFrom
    <3> QED
      BY <3>1, <3>2
  <2> QED
    BY <2>1, <2>2 DEF Giving
<1>2. ASSUME Len(s) = 1
      PROVE  Head(s)[1] # "wallet"
  <2> DEFINE st == <<"restart", "", "">>
  <2>1. Head(s) = s[1] /\ s[Len(s)] = st
    BY HeadIs DEF Starting
  <2>2. st[1] # "wallet"
    OBVIOUS
  <2> HIDE DEF st
  <2>3. Head(s) = st
    BY <1>2, <2>1
  <2> QED
    BY <2>2, <2>3
<1>3. ASSUME Len(s) # 1
      PROVE  Committed(Tail(s))
  <2>1. /\ Tail(s) \in Seq(Steps) /\ Tail(s) # <<>>
        /\ Len(Tail(s)) = Len(s) - 1 /\ Len(s) \in Nat /\ Len(s) > 1
        /\ \A i \in 1 .. Len(s) - 1 : Tail(s)[i] = s[i + 1]
    BY <1>3, TailIs DEF Starting
  <2>2. Tail(s)[Len(Tail(s))] = s[Len(s)]
    BY <2>1
  <2>3. Free(Tail(s), {"wallet"}) /\ Free(Tail(s), {"loads", "apply"})
    BY <1>0, <1>3, TailFree DEF Free
  <2>4. Free(Tail(s), Giving)
    BY <2>3 DEF Free, FreeFrom, Giving
  <2> QED
    BY <2>1, <2>2, <2>4 DEF Starting, Committed
<1> QED
  BY <1>1, <1>2, <1>3

-----------------------------------------------------------------------------
(* Scripts                                                                    *)

LEMMA OneStep ==
    ASSUME NEW st, st \in Steps, NEW s, s = <<st>>
    PROVE  s \in Seq(Steps) /\ Len(s) = 1 /\ s[1] = st /\ s # <<>>
OBVIOUS

LEMMA OneFree ==
    ASSUME NEW st, NEW s, s = <<st>>, NEW ops
    PROVE  /\ st[1] \notin ops => FreeFrom(s, 1, ops)
           /\ FreeFrom(s, 2, ops)
BY DEF FreeFrom

Bare == {"wallet", "loads", "dumps", "enabled", "decide", "apply", "off",
         "timer on", "timer off", "restart"}

LEMMA DoIs ==
    ASSUME NEW op, op \in Bare
    PROVE  /\ do(op) \in Seq(Steps) /\ Len(do(op)) = 1
           /\ do(op)[1] = <<op, "", "">> /\ do(op) # <<>>
<1> DEFINE st == <<op, "", "">>
<1>1. st \in Steps
  BY DEF Steps, Bare
<1>2. do(op) = <<st>>
  BY DEF do
<1> HIDE DEF st
<1>3. do(op) \in Seq(Steps) /\ Len(do(op)) = 1 /\ do(op)[1] = st /\ do(op) # <<>>
  BY <1>1, <1>2, OneStep
<1> QED
  BY <1>3 DEF st

LEMMA DoFree ==
    ASSUME NEW op, NEW ops
    PROVE  /\ op \notin ops => Free(do(op), ops)
           /\ FreeFrom(do(op), 2, ops)
<1> DEFINE st == <<op, "", "">>
<1>1. do(op) = <<st>> /\ st[1] = op
  BY DEF do
<1> HIDE DEF st
<1> QED
  BY <1>1, OneFree DEF Free

LEMMA Wallet1 ==
    LET w == do("wallet")
    IN  /\ w \in Seq(Steps) /\ Free(w, {"loads", "apply"})
        /\ FreeFrom(w, 2, {"wallet"})
<1>1. do("wallet") \in Seq(Steps)
  BY DoIs DEF Bare
<1> QED
  BY <1>1, DoFree

LEMMA ThreeSteps ==
    ASSUME NEW a, NEW b, NEW c, a \in Steps, b \in Steps, c \in Steps,
           NEW s, s = <<a, b, c>>
    PROVE  s \in Seq(Steps) /\ Len(s) = 3 /\ s[1] = a /\ s[2] = b /\ s[3] = c
OBVIOUS

LEMMA ThreeFree ==
    ASSUME NEW a, NEW b, NEW c, NEW s, s = <<a, b, c>>, NEW ops,
           a[1] \notin ops, b[1] \notin ops, c[1] \notin ops
    PROVE  Free(s, ops)
BY DEF Free, FreeFrom

LEMMA SetIs ==
    ASSUME NEW key, key \in DOMAIN Values, NEW value, value \in Values[key]
    PROVE  /\ set_env_value(key, value) \in Seq(Steps)
           /\ Len(set_env_value(key, value)) = 3
           /\ set_env_value(key, value)[1] = <<"lines", key, value>>
           /\ set_env_value(key, value)[2] = <<"truncate", key, value>>
           /\ set_env_value(key, value)[3] = <<"write", key, value>>
           /\ Free(set_env_value(key, value), Giving)
           /\ Free(set_env_value(key, value), {"loads", "apply"})
           /\ Free(set_env_value(key, value), {"wallet"})
<1> DEFINE a == <<"lines", key, value>>
           b == <<"truncate", key, value>>
           c == <<"write", key, value>>
<1>1. value \in {"", "0", "1", "address", "token"}
  <2>1. key \in {"POLICY_ENABLED", "MINING_ENABLED", "WALLET_ADDRESS", "API_TOKEN"}
    BY DEF Values
  <2>2. /\ Values["POLICY_ENABLED"] = {"", "0", "1"}
        /\ Values["MINING_ENABLED"] = {"", "0", "1"}
        /\ Values["WALLET_ADDRESS"] = {"", "address"}
        /\ Values["API_TOKEN"] = {"", "token"}
    BY DEF Values
  <2> QED
    BY <2>1, <2>2
<1>2. ASSUME NEW op \in {"lines", "truncate", "write"}
      PROVE  <<op, key, value>> \in Steps
  <2> DEFINE st == <<op, key, value>>
  <2>1. st[2] = key /\ st[3] = value
    OBVIOUS
  <2>2. st \in {"lines", "truncate", "write"} \X (DOMAIN Values)
                 \X {"", "0", "1", "address", "token"}
    BY <1>1
  <2> HIDE DEF st
  <2> QED
    BY <2>1, <2>2 DEF Steps, st
<1>3. /\ set_env_value(key, value) = <<a, b, c>>
      /\ a[1] = "lines" /\ b[1] = "truncate" /\ c[1] = "write"
  BY DEF set_env_value
<1> HIDE DEF a, b, c
<1>6. a \in Steps /\ b \in Steps /\ c \in Steps
  BY <1>2 DEF a, b, c
<1>4. LET s == set_env_value(key, value)
      IN  s \in Seq(Steps) /\ Len(s) = 3 /\ s[1] = a /\ s[2] = b /\ s[3] = c
  BY <1>3, <1>6, ThreeSteps
<1>5. /\ Free(set_env_value(key, value), Giving)
      /\ Free(set_env_value(key, value), {"loads", "apply"})
      /\ Free(set_env_value(key, value), {"wallet"})
  BY <1>3, ThreeFree DEF Giving
<1> QED
  BY <1>4, <1>5 DEF a, b, c

LEMMA Keys ==
    /\ "POLICY_ENABLED" \in DOMAIN Values /\ "MINING_ENABLED" \in DOMAIN Values
    /\ "WALLET_ADDRESS" \in DOMAIN Values /\ "API_TOKEN" \in DOMAIN Values
    /\ Values["POLICY_ENABLED"] = {"", "0", "1"}
    /\ Values["MINING_ENABLED"] = {"", "0", "1"}
    /\ Values["WALLET_ADDRESS"] = {"", "address"}
    /\ Values["API_TOKEN"] = {"", "token"}
BY DEF Values

(* A key that is not kept                                                     *)
LEMMA OtherIs ==
    ASSUME NEW key \in Others
    PROVE  /\ set_env_value(key, "set") \in Seq(Steps)
           /\ Free(set_env_value(key, "set"), Giving)
           /\ set_default(key) \in Seq(Steps) /\ Free(set_default(key), Giving)
<1> DEFINE a == <<"lines", key, "set">>
           b == <<"truncate", key, "set">>
           c == <<"write", key, "set">>
           d == <<"default", key, "set">>
<1>1. a \in Steps /\ b \in Steps /\ c \in Steps /\ d \in Steps
  <2> DEFINE S == {"lines", "truncate", "write", "default"} \X Others \X {"set"}
  <2>1. a \in S /\ b \in S /\ c \in S /\ d \in S
    OBVIOUS
  <2>2. S \subseteq Steps
    BY DEF Steps
  <2> HIDE DEF S, a, b, c, d
  <2> QED
    BY <2>1, <2>2
<1>2. /\ set_env_value(key, "set") = <<a, b, c>> /\ set_default(key) = <<d>>
      /\ a[1] \notin Giving /\ b[1] \notin Giving
      /\ c[1] \notin Giving /\ d[1] \notin Giving
  BY DEF set_env_value, set_default, Giving
<1> HIDE DEF a, b, c, d
<1>3. /\ set_env_value(key, "set") \in Seq(Steps)
      /\ Free(set_env_value(key, "set"), Giving)
  BY <1>1, <1>2, ThreeSteps, ThreeFree
<1>4. set_default(key) \in Seq(Steps) /\ Free(set_default(key), Giving)
  BY <1>1, <1>2, OneStep, OneFree DEF Free
<1> QED
  BY <1>3, <1>4

LEMMA RestartIs == Committed(do("restart"))
<1>1. LET s == do("restart")
      IN  /\ s \in Seq(Steps) /\ Len(s) = 1 /\ s # <<>>
          /\ s[1] = <<"restart", "", "">> /\ Free(s, Giving)
  <2>1. "restart" \in Bare /\ "restart" \notin Giving
    BY DEF Bare, Giving
  <2> QED
    BY <2>1, DoIs, DoFree
<1> QED
  BY <1>1 DEF Committed

LEMMA SetRestarts ==
    ASSUME NEW key, key \in DOMAIN Values, NEW value, value \in Values[key]
    PROVE  Committed(set_env_value(key, value) \o do("restart"))
BY SetIs, RestartIs, CommitConcat

LEMMA CommitStarts ==
    ASSUME NEW s, Committed(s)
    PROVE  Starting(s)
<1>1. s \in Seq(Steps) /\ Free(s, Giving)
  BY DEF Committed
<1>2. Free(s, {"loads", "apply"}) /\ FreeFrom(s, 2, {"wallet"})
  BY <1>1, FreeLess DEF Free, Giving
<1> QED
  BY <1>2 DEF Committed, Starting

LEMMA FreeAppend ==
    ASSUME NEW s, s \in Seq(Steps), NEW t, t \in Seq(Steps), NEW ops,
           Free(s, ops), Free(t, ops)
    PROVE  s \o t \in Seq(Steps) /\ Free(s \o t, ops)
BY FreeConcat DEF Free

LEMMA EnableIs == Starting(enable)
<1> DEFINE w == do("wallet")
           m == set_env_value("MINING_ENABLED", "1")
<1>1. /\ w \in Seq(Steps) /\ Free(w, {"loads", "apply"})
      /\ FreeFrom(w, 2, {"wallet"})
  BY Wallet1
<1>2. /\ m \in Seq(Steps) /\ Free(m, {"loads", "apply"}) /\ Free(m, {"wallet"})
  BY SetIs, Keys
<1> HIDE DEF w, m
<1>3. /\ w \o m \in Seq(Steps) /\ Free(w \o m, {"loads", "apply"})
      /\ FreeFrom(w \o m, 2, {"wallet"})
  BY <1>1, <1>2, FreeConcat DEF Free
<1> QED
  BY <1>3, RestartIs, StartConcat DEF enable, w, m

LEMMA ModeNowIs == Starting(mode_now)
<1> DEFINE w == do("wallet")
           a == set_env_value("POLICY_ENABLED", "0")
           m == set_env_value("MINING_ENABLED", "1")
           o == do("timer off")
<1>1. /\ w \in Seq(Steps) /\ Free(w, {"loads", "apply"})
      /\ FreeFrom(w, 2, {"wallet"})
  BY Wallet1
<1>6. o \in Seq(Steps) /\ Free(o, {"loads", "apply"}) /\ Free(o, {"wallet"})
  <2>1. /\ "timer off" \in Bare /\ "timer off" \notin {"loads", "apply"}
        /\ "timer off" \notin {"wallet"}
    BY DEF Bare
  <2> QED
    BY <2>1, DoIs, DoFree
<1>2. /\ a \in Seq(Steps) /\ Free(a, {"loads", "apply"}) /\ Free(a, {"wallet"})
      /\ m \in Seq(Steps) /\ Free(m, {"loads", "apply"}) /\ Free(m, {"wallet"})
  BY SetIs, Keys
<1> HIDE DEF w, a, m, o
<1>3. /\ w \o a \in Seq(Steps) /\ Free(w \o a, {"loads", "apply"})
      /\ FreeFrom(w \o a, 2, {"wallet"})
  BY <1>1, <1>2, FreeConcat DEF Free
<1>4. /\ w \o a \o m \in Seq(Steps) /\ Free(w \o a \o m, {"loads", "apply"})
      /\ FreeFrom(w \o a \o m, 2, {"wallet"})
  BY <1>2, <1>3, FreeConcat DEF Free
<1>5. /\ w \o a \o m \o o \in Seq(Steps)
      /\ Free(w \o a \o m \o o, {"loads", "apply"})
      /\ FreeFrom(w \o a \o m \o o, 2, {"wallet"})
  BY <1>4, <1>6, FreeConcat DEF Free
<1> QED
  BY <1>5, RestartIs, StartConcat DEF mode_now, w, a, m, o

LEMMA CommittedScripts ==
    /\ Committed(disable) /\ Committed(wallet_set) /\ Committed(wallet_clear)
    /\ Committed(token_rotate) /\ Committed(disable_policy)
<1>1. Committed(disable) /\ Committed(token_rotate)
  BY SetRestarts, Keys DEF disable, token_rotate
<1>2. Committed(wallet_clear)
  <2> DEFINE a == set_env_value("WALLET_ADDRESS", "")
             m == set_env_value("MINING_ENABLED", "0")
  <2>1. /\ a \in Seq(Steps) /\ Free(a, Giving)
        /\ m \in Seq(Steps) /\ Free(m, Giving)
    BY SetIs, Keys
  <2> HIDE DEF a, m
  <2>2. a \o m \in Seq(Steps) /\ Free(a \o m, Giving)
    BY <2>1, FreeAppend
  <2> QED
    BY <2>2, RestartIs, CommitConcat DEF wallet_clear, a, m
<1>3. Committed(disable_policy)
  <2> DEFINE a == set_env_value("POLICY_ENABLED", "0")
             o == do("off")
             t == do("timer off")
  <2>1. /\ o \in Seq(Steps) /\ Free(o, Giving)
        /\ t \in Seq(Steps) /\ Free(t, Giving)
    <3>1. \A op \in {"off", "timer off"} : op \in Bare /\ op \notin Giving
      BY DEF Bare, Giving
    <3> QED
      BY <3>1, DoIs, DoFree
  <2>4. a \in Seq(Steps) /\ Free(a, Giving)
    BY SetIs, Keys
  <2> HIDE DEF a, o, t
  <2>2. a \o o \in Seq(Steps) /\ Free(a \o o, Giving)
    BY <2>1, <2>4, FreeAppend
  <2>3. a \o o \o t \in Seq(Steps) /\ Free(a \o o \o t, Giving)
    BY <2>1, <2>2, FreeAppend
  <2> QED
    BY <2>3, RestartIs, CommitConcat DEF disable_policy, a, o, t
<1>4. Committed(wallet_set)
  <2> DEFINE a == set_env_value("WALLET_ADDRESS", "address")
             u == set_default("POOL_URL")
             w == set_default("POOL_PASSWORD")
             c == set_default("COIN")
  <2>1. a \in Seq(Steps) /\ Free(a, Giving)
    BY SetIs, Keys
  <2>2. /\ u \in Seq(Steps) /\ Free(u, Giving)
        /\ w \in Seq(Steps) /\ Free(w, Giving)
        /\ c \in Seq(Steps) /\ Free(c, Giving)
    <3>1. {"POOL_URL", "POOL_PASSWORD", "COIN"} \subseteq Others
      BY DEF Others
    <3> QED
      BY <3>1, OtherIs
  <2> HIDE DEF a, u, w, c
  <2>3. a \o u \in Seq(Steps) /\ Free(a \o u, Giving)
    BY <2>1, <2>2, FreeAppend
  <2>4. a \o u \o w \in Seq(Steps) /\ Free(a \o u \o w, Giving)
    BY <2>2, <2>3, FreeAppend
  <2>5. a \o u \o w \o c \in Seq(Steps) /\ Free(a \o u \o w \o c, Giving)
    BY <2>2, <2>4, FreeAppend
  <2> QED
    BY <2>5, RestartIs, CommitConcat DEF wallet_set, a, u, w, c
<1> QED
  BY <1>1, <1>2, <1>3, <1>4

LEMMA QuietConcat ==
    ASSUME NEW s, Quiet(s), NEW t, Quiet(t)
    PROVE  Quiet(s \o t) /\ (s # <<>> => s \o t # <<>>)
<1>1. s \in Seq(Steps) /\ t \in Seq(Steps)
  BY DEF Quiet
<1>2. Quiet(s \o t)
  BY <1>1, FreeAppend DEF Quiet
<1>3. Len(s \o t) = Len(s) + Len(t) /\ s \o t \in Seq(Steps)
  BY <1>1, ConcatProperties
<1>4. Len(s) \in Nat /\ Len(t) \in Nat /\ (s # <<>> => Len(s) >= 1)
  BY <1>1, NotEmpty
<1> DEFINE r == s \o t
<1> HIDE DEF r
<1>5. r \in Seq(Steps) /\ (s # <<>> => Len(r) >= 1)
  BY <1>3, <1>4 DEF r
<1>6. s # <<>> => r # <<>>
  BY <1>5, NotEmpty
<1> QED
  BY <1>2, <1>6 DEF r

LEMMA QuietScripts ==
    /\ Quiet(ensure_cpu_hint) /\ ensure_cpu_hint # <<>>
    /\ Quiet(run_policy) /\ run_policy # <<>>
    /\ Quiet(do("timer on"))
<1>1. /\ Quiet(do("loads")) /\ Quiet(do("dumps")) /\ Quiet(do("enabled"))
      /\ Quiet(do("decide")) /\ Quiet(do("apply")) /\ Quiet(do("timer on"))
      /\ do("loads") # <<>>
  <2>1. ASSUME NEW op \in {"loads", "dumps", "enabled", "decide", "apply", "timer on"}
        PROVE  Quiet(do(op)) /\ do(op) # <<>>
    <3>1. op \in Bare /\ op \notin Writing
      BY DEF Bare, Writing
    <3> QED
      BY <3>1, DoIs, DoFree DEF Quiet
  <2> QED
    BY <2>1
<1>2. Quiet(ensure_cpu_hint) /\ ensure_cpu_hint # <<>>
  BY <1>1, QuietConcat DEF ensure_cpu_hint
<1>3. /\ Quiet(ensure_cpu_hint \o do("enabled"))
      /\ ensure_cpu_hint \o do("enabled") # <<>>
  BY <1>1, <1>2, QuietConcat
<1>4. /\ Quiet(ensure_cpu_hint \o do("enabled") \o do("decide"))
      /\ ensure_cpu_hint \o do("enabled") \o do("decide") # <<>>
  BY <1>1, <1>3, QuietConcat
<1> QED
  BY <1>1, <1>2, <1>4, QuietConcat DEF run_policy

LEMMA EnablingConcat ==
    ASSUME NEW s, Enabling(s), NEW t, Quiet(t)
    PROVE  Enabling(s \o t)
<1>1. /\ s \in Seq(Steps) /\ t \in Seq(Steps) /\ Len(s) >= 3
      /\ FreeFrom(s, 4, Writing) /\ Free(t, Writing)
  BY DEF Enabling, Quiet
<1>2. /\ s \o t \in Seq(Steps) /\ Len(s \o t) = Len(s) + Len(t)
      /\ \A j \in 1 .. Len(s) + Len(t) :
            (s \o t)[j] = IF j <= Len(s) THEN s[j] ELSE t[j - Len(s)]
  BY <1>1, ConcatProperties
<1>3. Len(s) \in Nat /\ Len(t) \in Nat
  BY <1>1, NotEmpty
<1>4. \A j \in {1, 2, 3} : (s \o t)[j] = s[j]
  BY <1>1, <1>2, <1>3
<1>5. Len(s \o t) >= 3
  BY <1>1, <1>2, <1>3
<1>6. FreeFrom(s \o t, 4, Writing)
  BY <1>1, FreeConcat
<1> DEFINE r == s \o t
<1> HIDE DEF r
<1> QED
  BY <1>2, <1>4, <1>5, <1>6 DEF Enabling, r

LEMMA EnablingScripts == Enabling(enable_policy) /\ Enabling(mode_auto)
<1> DEFINE a == set_env_value("POLICY_ENABLED", "1")
<1>1. Enabling(a)
  <2>1. /\ a \in Seq(Steps) /\ Len(a) = 3
        /\ a[1] = <<"lines", "POLICY_ENABLED", "1">>
        /\ a[2] = <<"truncate", "POLICY_ENABLED", "1">>
        /\ a[3] = <<"write", "POLICY_ENABLED", "1">>
    BY SetIs, Keys
  <2> HIDE DEF a
  <2>2. FreeFrom(a, 4, Writing)
    BY <2>1 DEF FreeFrom
  <2> QED
    BY <2>1, <2>2 DEF Enabling
<1> HIDE DEF a
<1>2. Enabling(enable_policy)
  BY <1>1, QuietScripts, EnablingConcat DEF enable_policy, a
<1>3. Enabling(mode_auto)
  BY <1>1, QuietScripts, EnablingConcat DEF mode_auto, a
<1> QED
  BY <1>2, <1>3

LEMMA ScriptIs ==
    ASSUME NEW cmd \in Commands \cup {"policy run"}
    PROVE  /\ cmd \in NoRestart => Enabling(Script(cmd))
           /\ cmd \notin NoRestart =>
                 \/ Starting(Script(cmd))
                 \/ Quiet(Script(cmd)) /\ Script(cmd) # <<>>
<1>1. cmd \in {"enable", "disable", "wallet set", "wallet clear", "token rotate",
               "mode now", "mode auto", "policy run", "policy enable",
               "policy disable"}
  BY CommandAssumption
<1> QED
  BY <1>1, EnableIs, ModeNowIs, CommittedScripts, CommitStarts, QuietScripts,
     EnablingScripts
  DEF Script, NoRestart

-----------------------------------------------------------------------------
(* The invariant                                                              *)

Process == [todo : Seq(Steps), lines : Envs, enabled : BOOLEAN,
            desired : {"0", "1"}, orElse : {<<>>, do("restart")},
            restarts : BOOLEAN]

Types ==
    /\ env \in Envs
    /\ config \in BOOLEAN /\ timer \in BOOLEAN
    /\ service \in {"mining", "api", "down"}
    /\ mayMine \in BOOLEAN /\ calm \in BOOLEAN
    /\ p \in [Processes -> Process]

(* A command that restarts the service after what it writes                   *)
Shape(q) ==
    q.restarts => /\ q.orElse = <<>>
                  /\ q.todo = <<>> \/ Starting(q.todo) \/ Quiet(q.todo)

(* What veloxhash-run makes of a file e                                       *)
RunOf(e) ==
    CASE e.API_TOKEN = "" -> "down"
      [] e.API_TOKEN # "" /\ e.MINING_ENABLED = "1"
            /\ e.WALLET_ADDRESS # "" -> "mining"
      [] OTHER -> "api"

(* The service runs as e says, or is about to be started.                     *)
As(e) == service \in {RunOf(e), "down"}

Truncating(s) ==
    /\ s \in Seq(Steps) /\ Len(s) >= 2
    /\ s[1] = <<"truncate", "POLICY_ENABLED", "1">>
    /\ s[2] = <<"write", "POLICY_ENABLED", "1">>
    /\ FreeFrom(s, 3, Writing)

Restoring(s) ==
    /\ s \in Seq(Steps) /\ Len(s) >= 1
    /\ s[1] = <<"write", "POLICY_ENABLED", "1">>
    /\ FreeFrom(s, 2, Writing)

(* A command that writes back the lines it read, but for the policy's switch  *)
Solo(q) ==
    \/ Enabling(q.todo) /\ As(env)
    \/ Truncating(q.todo) /\ q.lines = env /\ As(env)
    \/ Restoring(q.todo) /\ env = NoLines /\ As(q.lines)
    \/ Quiet(q.todo) /\ q.todo # <<>> /\ As(env)

(* Commands that restart overlap: one that wrote has its restart to come.     *)
Together ==
    /\ \A x \in Processes : p[x].restarts
    /\ As(env) \/ \E x \in Processes : Committed(p[x].todo)

(* A command that does not restart is alone.                                  *)
Alone(x) ==
    /\ ~p[x].restarts /\ Solo(p[x])
    /\ \A y \in Processes : y # x => p[y].todo = <<>> /\ p[y].restarts

IInv ==
    /\ Types
    /\ \A x \in Processes : Shape(p[x])
    /\ calm => Together \/ \E x \in Processes : Alone(x)

LEMMA RunIs ==
    /\ veloxhash_run = RunOf(env)
    /\ RunOf(NoLines) = "down"
    /\ \A e : RunOf(e) \in {"mining", "api", "down"}
    /\ \A e \in Envs : RunOf([e EXCEPT !["POLICY_ENABLED"] = "1"]) = RunOf(e)
BY DEF veloxhash_run, RunOf, NoLines, Envs

LEMMA NoLinesIs == NoLines \in Envs
BY DEF NoLines, Envs

LEMMA SetLine ==
    ASSUME NEW e \in Envs, NEW key, key \in DOMAIN Values,
           NEW value, value \in Values[key]
    PROVE  [e EXCEPT ![key] = value] \in Envs
<1>1. key \in {"POLICY_ENABLED", "MINING_ENABLED", "WALLET_ADDRESS", "API_TOKEN"}
  BY DEF Values
<1>2. CASE key = "POLICY_ENABLED"
  BY <1>2, Keys DEF Envs
<1>3. CASE key = "MINING_ENABLED"
  BY <1>3, Keys DEF Envs
<1>4. CASE key = "WALLET_ADDRESS"
  BY <1>4, Keys DEF Envs
<1>5. CASE key = "API_TOKEN"
  BY <1>5, Keys DEF Envs
<1> QED
  BY <1>1, <1>2, <1>3, <1>4, <1>5

LEMMA IdleIs ==
    /\ Idle \in Process /\ Idle.todo = <<>> /\ Idle.orElse = <<>>
    /\ Idle.restarts /\ Idle.lines = NoLines
BY NoLinesIs DEF Idle, Process

-----------------------------------------------------------------------------
(* What a step does to its process                                            *)

Onward(q, r) ==
    IF Len(q.todo) = 1
    THEN r.todo = <<>> /\ r.orElse = <<>> /\ r.restarts
    ELSE r.todo = Tail(q.todo) /\ r.orElse = q.orElse /\ r.restarts = q.restarts

Ends(r, s) == r.todo = s /\ r.orElse = <<>> /\ r.restarts

LEMMA GoesIs ==
    ASSUME NEW q \in Process, q.todo # <<>>
    PROVE  /\ Goes(q) \in Process /\ Onward(q, Goes(q))
           /\ Len(q.todo) # 1 => Goes(q).lines = q.lines
<1>1. CASE Len(q.todo) = 1
  BY <1>1, IdleIs DEF Goes, Onward
<1>2. CASE Len(q.todo) # 1
  <2>1. q.todo \in Seq(Steps)
    BY DEF Process
  <2>2. Tail(q.todo) \in Seq(Steps)
    BY <1>2, <2>1, TailIs
  <2>3. Goes(q) = [q EXCEPT !.todo = Tail(q.todo)]
    BY <1>2 DEF Goes
  <2> QED
    BY <1>2, <2>2, <2>3 DEF Onward, Process
<1> QED
  BY <1>1, <1>2

LEMMA EndsIs ==
    ASSUME NEW s, s \in Seq(Steps)
    PROVE  [Idle EXCEPT !.todo = s] \in Process /\ Ends([Idle EXCEPT !.todo = s], s)
BY IdleIs DEF Process, Ends

(* One process has moved from q to r.                                         *)
Moves(x, r) == r \in Process /\ p' = [p EXCEPT ![x] = r]

LEMMA GoesOnMoves ==
    ASSUME Types, NEW x \in Processes, p[x].todo # <<>>, GoesOn(x)
    PROVE  \E r : /\ Moves(x, r) /\ Onward(p[x], r)
                  /\ Len(p[x].todo) # 1 => r.lines = p[x].lines
BY GoesIs DEF GoesOn, Moves, Types

LEMMA EndsMoves ==
    ASSUME NEW x \in Processes, NEW s, s \in Seq(Steps), EndsWith(x, s)
    PROVE  \E r : Moves(x, r) /\ Ends(r, s)
BY EndsIs DEF EndsWith, Moves

LEMMA HeadOp ==
    ASSUME NEW s, s \in Seq(Steps), s # <<>>, NEW ops,
           NEW op, NEW key, NEW value, s[1] = <<op, key, value>>
    PROVE  Head(s)[1] = op
<1> DEFINE st == <<op, key, value>>
<1>1. st[1] = op
  OBVIOUS
<1> HIDE DEF st
<1>2. Head(s) = st
  BY HeadIs DEF st
<1> QED
  BY <1>1, <1>2

LEMMA QuietTail ==
    ASSUME NEW s, Quiet(s), s # <<>>, Len(s) # 1
    PROVE  Quiet(Tail(s)) /\ Tail(s) # <<>>
BY TailIs, TailFree DEF Quiet, Free

LEMMA EnablingTail ==
    ASSUME NEW s, Enabling(s)
    PROVE  /\ s \in Seq(Steps) /\ s # <<>> /\ Len(s) # 1 /\ Head(s)[1] = "lines"
           /\ Truncating(Tail(s))
<1>1. s \in Seq(Steps) /\ Len(s) \in Nat /\ Len(s) >= 3 /\ s # <<>>
  <2>1. s \in Seq(Steps) /\ Len(s) >= 3
    BY DEF Enabling
  <2> QED
    BY <2>1, NotEmpty
<1>2. Len(s) # 1 /\ 1 \in 1 .. Len(s) - 1 /\ 2 \in 1 .. Len(s) - 1
  <2>1. \A n \in Nat : n >= 3 => n # 1 /\ 1 \in 1 .. n - 1 /\ 2 \in 1 .. n - 1
    OBVIOUS
  <2> QED
    BY <1>1, <2>1
<1>3. /\ Tail(s) \in Seq(Steps) /\ Len(Tail(s)) = Len(s) - 1
      /\ Tail(s)[1] = s[2] /\ Tail(s)[2] = s[3]
  BY <1>1, <1>2, TailIs
<1>4. Len(Tail(s)) >= 2
  BY <1>1, <1>3
<1>5. FreeFrom(Tail(s), 3, Writing)
  BY <1>1, <1>2, FreeTail DEF Enabling
<1>6. Truncating(Tail(s))
  BY <1>3, <1>4, <1>5 DEF Enabling, Truncating
<1>7. Head(s)[1] = "lines"
  BY <1>1, HeadOp DEF Enabling
<1> QED
  BY <1>1, <1>2, <1>6, <1>7

LEMMA TruncatingTail ==
    ASSUME NEW s, Truncating(s)
    PROVE  /\ s \in Seq(Steps) /\ s # <<>> /\ Len(s) # 1
           /\ Head(s)[1] = "truncate" /\ Restoring(Tail(s))
<1>1. s \in Seq(Steps) /\ Len(s) \in Nat /\ Len(s) >= 2 /\ s # <<>>
  <2>1. s \in Seq(Steps) /\ Len(s) >= 2
    BY DEF Truncating
  <2> QED
    BY <2>1, NotEmpty
<1>2. Len(s) # 1 /\ 1 \in 1 .. Len(s) - 1
  <2>1. \A n \in Nat : n >= 2 => n # 1 /\ 1 \in 1 .. n - 1
    OBVIOUS
  <2> QED
    BY <1>1, <2>1
<1>3. Tail(s) \in Seq(Steps) /\ Len(Tail(s)) = Len(s) - 1 /\ Tail(s)[1] = s[2]
  BY <1>1, <1>2, TailIs
<1>4. Len(Tail(s)) >= 1
  BY <1>1, <1>3
<1>5. FreeFrom(Tail(s), 2, Writing)
  BY <1>1, <1>2, FreeTail DEF Truncating
<1>6. Restoring(Tail(s))
  BY <1>3, <1>4, <1>5 DEF Truncating, Restoring
<1>7. Head(s)[1] = "truncate"
  BY <1>1, HeadOp DEF Truncating
<1> QED
  BY <1>1, <1>2, <1>6, <1>7

LEMMA RestoringTail ==
    ASSUME NEW s, Restoring(s)
    PROVE  /\ s \in Seq(Steps) /\ s # <<>>
           /\ Head(s) = <<"write", "POLICY_ENABLED", "1">> /\ Head(s)[1] = "write"
           /\ Len(s) # 1 => Quiet(Tail(s)) /\ Tail(s) # <<>>
<1>1. s \in Seq(Steps) /\ s # <<>>
  BY NotEmpty DEF Restoring
<1>2. Len(s) # 1 => Quiet(Tail(s)) /\ Tail(s) # <<>>
  BY <1>1, TailIs, TailFree DEF Restoring, Quiet
<1>3. Head(s)[1] = "write"
  BY <1>1, HeadOp DEF Restoring
<1>4. Head(s) = s[1]
  BY <1>1, HeadIs
<1> QED
  BY <1>1, <1>2, <1>3, <1>4 DEF Restoring

LEMMA SoloHead ==
    ASSUME NEW q, Solo(q)
    PROVE  LET op == Head(q.todo)[1]
           IN  \/ op = "lines" /\ Enabling(q.todo) /\ As(env)
               \/ op = "truncate" /\ Truncating(q.todo) /\ q.lines = env /\ As(env)
               \/ op = "write" /\ Restoring(q.todo) /\ env = NoLines /\ As(q.lines)
               \/ /\ op \notin Writing
                  /\ Quiet(q.todo) /\ q.todo # <<>> /\ As(env)
<1>1. Quiet(q.todo) /\ q.todo # <<>> => Head(q.todo)[1] \notin Writing
  BY FreeHead DEF Quiet
<1> QED
  BY <1>1, EnablingTail, TruncatingTail, RestoringTail DEF Solo

LEMMA CommittedHead ==
    ASSUME NEW s, Committed(s)
    PROVE  /\ s \in Seq(Steps) /\ s # <<>> /\ Head(s)[1] \notin Giving
           /\ Len(s) = 1 => Head(s)[1] = "restart"
<1>1. s \in Seq(Steps) /\ s # <<>> /\ Free(s, Giving)
  BY DEF Committed
<1>2. Len(s) = 1 => Head(s)[1] = "restart"
  BY <1>1, HeadOp DEF Committed
<1> QED
  BY <1>1, <1>2, FreeHead

LEMMA OnwardShape ==
    ASSUME NEW q, q.todo \in Seq(Steps), q.todo # <<>>, Shape(q),
           NEW r, Onward(q, r)
    PROVE  /\ Shape(r) /\ (q.restarts => r.restarts)
           /\ Committed(q.todo) /\ Head(q.todo)[1] # "restart"
                 => Committed(r.todo)
<1>1. CASE Len(q.todo) = 1
  BY <1>1, CommittedHead DEF Onward, Shape
<1>2. CASE Len(q.todo) # 1
  <2>1. r.todo = Tail(q.todo) /\ r.orElse = q.orElse /\ r.restarts = q.restarts
    BY <1>2 DEF Onward
  <2>2. Starting(q.todo) => Starting(r.todo)
    BY <1>2, <2>1, StartsOrCommits, CommitStarts
  <2>3. Quiet(q.todo) => Quiet(r.todo)
    BY <1>2, <2>1, QuietTail
  <2>4. Committed(q.todo) => Committed(r.todo)
    BY <1>2, <2>1, CommitTail
  <2> QED
    BY <2>1, <2>2, <2>3, <2>4 DEF Shape
<1> QED
  BY <1>1, <1>2

-----------------------------------------------------------------------------
(* Steps                                                                      *)

(* What a step of x has to show: among commands that restart, that the one    *)
(* that owed a restart still does, or that the service runs as the file says; *)
(* of one that is alone, that it goes on writing back what it read, or ends.  *)
LEMMA MoveKeeps ==
    ASSUME IInv, NEW x \in Processes, p[x].todo # <<>>,
           NEW r, Moves(x, r), Types', Shape(r), calm' = calm,
           Together => /\ r.restarts
                       /\ \/ As(env)' \/ Committed(r.todo)
                          \/ /\ env' = env /\ service' = service
                             /\ ~Committed(p[x].todo),
           Alone(x) => \/ r.restarts /\ (As(env)' \/ Committed(r.todo))
                       \/ ~r.restarts /\ Solo(r)'
    PROVE  IInv'
<1>1. p'[x] = r /\ \A y \in Processes : y # x => p'[y] = p[y]
  BY DEF Moves, IInv, Types
<1>2. \A y \in Processes : Shape(p'[y])
  BY <1>1 DEF IInv
<1>3. ASSUME Together
      PROVE  Together'
  <2>1. \A y \in Processes : p'[y].restarts
    BY <1>1, <1>3 DEF Together
  <2>2. As(env)' \/ \E y \in Processes : Committed(p'[y].todo)
    <3>1. CASE As(env)' \/ Committed(r.todo)
      BY <1>1, <3>1
    <3>2. CASE env' = env /\ service' = service /\ ~Committed(p[x].todo)
      <4>1. As(env) => As(env)'
        BY <3>2 DEF As
      <4>2. ASSUME NEW y \in Processes, Committed(p[y].todo)
            PROVE  Committed(p'[y].todo)
        BY <1>1, <3>2, <4>2
      <4> QED
        BY <1>3, <4>1, <4>2 DEF Together
    <3> QED
      BY <1>3, <3>1, <3>2
  <2> QED
    BY <2>1, <2>2 DEF Together
<1>4. ASSUME NEW z \in Processes, Alone(z)
      PROVE  Together' \/ Alone(x)'
  <2>1. z = x
    BY <1>4 DEF Alone
  <2>2. Alone(x)
    BY <1>4, <2>1
  <2>3. \A y \in Processes : y # x => p'[y].todo = <<>> /\ p'[y].restarts
    BY <1>1, <2>2 DEF Alone
  <2>4. CASE r.restarts /\ (As(env)' \/ Committed(r.todo))
    BY <1>1, <2>3, <2>4 DEF Together
  <2>5. CASE ~r.restarts /\ Solo(r)'
    <3>1. Solo(p[x])'
      BY <1>1, <2>5 DEF Solo, As
    <3> QED
      BY <1>1, <2>3, <2>5, <3>1 DEF Alone
  <2> QED
    BY <2>2, <2>4, <2>5
<1>5. calm' => Together' \/ \E y \in Processes : Alone(y)'
  BY <1>3, <1>4 DEF IInv
<1> QED
  BY <1>2, <1>5 DEF IInv

LEMMA AtWork ==
    ASSUME IInv, NEW x \in Processes, NEW op, Doing(x, op)
    PROVE  /\ p[x] \in Process /\ p[x].todo \in Seq(Steps) /\ p[x].todo # <<>>
           /\ Head(p[x].todo) \in Steps /\ Head(p[x].todo)[1] = op
           /\ Shape(p[x])
<1>1. p[x] \in Process /\ Shape(p[x])
  BY DEF IInv, Types
<1>2. p[x].todo \in Seq(Steps)
  BY <1>1 DEF Process
<1> QED
  BY <1>1, <1>2, HeadIs DEF Doing

(* A step that leaves the file and the service alone                          *)
LEMMA OnwardKeeps ==
    ASSUME IInv, NEW x \in Processes,
           NEW op, op \notin Writing, Doing(x, op),
           NEW r, Moves(x, r), Onward(p[x], r), Types',
           UNCHANGED <<env, service, calm>>
    PROVE  IInv'
<1>1. /\ p[x].todo \in Seq(Steps) /\ p[x].todo # <<>> /\ Shape(p[x])
      /\ Head(p[x].todo)[1] = op
  BY AtWork
<1>2. op # "restart" /\ {"lines", "truncate", "write"} \subseteq Writing
  BY DEF Writing
<1>3. /\ Shape(r) /\ (p[x].restarts => r.restarts)
      /\ Committed(p[x].todo) => Committed(r.todo)
  BY <1>1, <1>2, OnwardShape
<1>4. Together => p[x].restarts
  BY DEF Together
<1>5. ASSUME Alone(x)
      PROVE  \/ r.restarts /\ (As(env)' \/ Committed(r.todo))
             \/ ~r.restarts /\ Solo(r)'
  <2>1. Quiet(p[x].todo) /\ As(env) /\ ~p[x].restarts
    BY <1>1, <1>2, <1>5, SoloHead DEF Alone
  <2>2. As(env)'
    BY <2>1 DEF As
  <2>3. CASE Len(p[x].todo) = 1
    BY <2>2, <2>3 DEF Onward
  <2>4. CASE Len(p[x].todo) # 1
    <3>1. Quiet(r.todo) /\ r.todo # <<>> /\ ~r.restarts
      BY <1>1, <2>1, <2>4, QuietTail DEF Onward
    <3> QED
      BY <2>2, <3>1 DEF Solo
  <2> QED
    BY <2>3, <2>4
<1> QED
  BY <1>1, <1>3, <1>4, <1>5, MoveKeeps

LEMMA MovedType ==
    ASSUME Types, NEW x \in Processes, NEW r, Moves(x, r)
    PROVE  p' \in [Processes -> Process]
BY DEF Types, Moves

(* Among commands that restart, one that touches the file owes a restart.     *)
LEMMA WriterOwes ==
    ASSUME IInv, NEW x \in Processes, p[x].restarts,
           NEW op \in {"lines", "truncate", "write", "default", "off"},
           Doing(x, op)
    PROVE  Committed(p[x].todo)
<1>1. /\ p[x].todo \in Seq(Steps) /\ p[x].todo # <<>> /\ Shape(p[x])
      /\ Head(p[x].todo)[1] = op
  BY AtWork
<1>2. ~Quiet(p[x].todo)
  BY <1>1, FreeHead DEF Quiet, Writing
<1>3. Starting(p[x].todo)
  BY <1>1, <1>2 DEF Shape
<1> QED
  BY <1>1, <1>3, StartsOrCommits

LEMMA LinesKeeps ==
    ASSUME IInv, NEW x \in Processes, Lines(x)
    PROVE  IInv'
<1>0. PICK r : r = [Goes(p[x]) EXCEPT !.lines = env]
  OBVIOUS
<1>1. /\ p[x] \in Process /\ p[x].todo \in Seq(Steps) /\ p[x].todo # <<>>
      /\ Head(p[x].todo)[1] = "lines" /\ Shape(p[x])
  BY AtWork DEF Lines
<1>2. Goes(p[x]) \in Process /\ Onward(p[x], Goes(p[x]))
  BY <1>1, GoesIs
<1>3. r \in Process /\ Onward(p[x], r) /\ r.lines = env
  BY <1>0, <1>2 DEF Process, Onward, IInv, Types
<1>4. Moves(x, r)
  BY <1>0, <1>3 DEF Lines, Moves
<1>5. Types'
  BY <1>4, MovedType DEF IInv, Types, Lines
<1>6. /\ Shape(r) /\ (p[x].restarts => r.restarts)
      /\ Committed(p[x].todo) => Committed(r.todo)
  BY <1>1, <1>3, OnwardShape
<1>7. Together => r.restarts /\ Committed(r.todo)
  BY <1>6, WriterOwes DEF Together, Lines
<1>8. ASSUME Alone(x)
      PROVE  ~r.restarts /\ Solo(r)'
  <2>1. Enabling(p[x].todo) /\ As(env) /\ ~p[x].restarts
    BY <1>1, <1>8, SoloHead DEF Alone, Writing
  <2>2. Truncating(r.todo) /\ ~r.restarts
    BY <1>3, <2>1, EnablingTail DEF Onward
  <2>3. As(env)' /\ env' = env
    BY <2>1 DEF As, Lines
  <2> QED
    BY <1>3, <2>2, <2>3 DEF Solo, As
<1>9. calm' = calm
  BY DEF Lines
<1> QED
  BY <1>1, <1>4, <1>5, <1>6, <1>7, <1>8, <1>9, MoveKeeps

LEMMA TruncateKeeps ==
    ASSUME IInv, NEW x \in Processes, Truncate(x)
    PROVE  IInv'
<1>1. /\ p[x] \in Process /\ p[x].todo \in Seq(Steps) /\ p[x].todo # <<>>
      /\ Head(p[x].todo)[1] = "truncate" /\ Shape(p[x])
  BY AtWork DEF Truncate
<1>2. PICK r : /\ Moves(x, r) /\ Onward(p[x], r)
               /\ Len(p[x].todo) # 1 => r.lines = p[x].lines
  BY <1>1, GoesOnMoves DEF IInv, Truncate
<1>3. Types'
  BY <1>2, MovedType, NoLinesIs DEF IInv, Types, Truncate
<1>4. /\ Shape(r) /\ (p[x].restarts => r.restarts)
      /\ Committed(p[x].todo) => Committed(r.todo)
  BY <1>1, <1>2, OnwardShape
<1>5. Together => r.restarts /\ Committed(r.todo)
  BY <1>4, WriterOwes DEF Together, Truncate
<1>6. ASSUME Alone(x)
      PROVE  ~r.restarts /\ Solo(r)'
  <2>1. /\ Truncating(p[x].todo) /\ p[x].lines = env /\ As(env)
        /\ ~p[x].restarts
    BY <1>1, <1>6, SoloHead DEF Alone, Writing
  <2>2. Restoring(r.todo) /\ ~r.restarts /\ r.lines = env
    BY <1>2, <2>1, TruncatingTail DEF Onward
  <2>3. As(r.lines)' /\ env' = NoLines
    BY <2>1, <2>2 DEF As, Truncate
  <2> QED
    BY <2>2, <2>3 DEF Solo
<1> QED
  BY <1>1, <1>2, <1>3, <1>4, <1>5, <1>6, MoveKeeps DEF Truncate

LEMMA WriteStep ==
    ASSUME NEW st, st \in Steps, st[1] = "write"
    PROVE  \/ st[2] \in Others
           \/ st[2] \in DOMAIN Values /\ st[3] \in Values[st[2]]
BY DEF Steps

LEMMA WithLineIs ==
    ASSUME NEW e \in Envs, NEW st, st \in Steps, st[1] = "write"
    PROVE  WithLine(e, st[2], st[3]) \in Envs
<1>1. CASE st[2] \in Others
  BY <1>1 DEF WithLine
<1>2. CASE st[2] \notin Others
  <2>1. st[2] \in DOMAIN Values /\ st[3] \in Values[st[2]]
    BY <1>2, WriteStep
  <2>2. [e EXCEPT ![st[2]] = st[3]] \in Envs
    BY <2>1, SetLine
  <2> QED
    BY <1>2, <2>2 DEF WithLine
<1> QED
  BY <1>1, <1>2

LEMMA WriteKeeps ==
    ASSUME IInv, NEW x \in Processes, Write(x)
    PROVE  IInv'
<1>0. PICK r : r = [Goes(p[x]) EXCEPT !.lines = NoLines]
  OBVIOUS
<1> DEFINE st == Head(p[x].todo)
<1>1. /\ p[x] \in Process /\ p[x].todo \in Seq(Steps) /\ p[x].todo # <<>>
      /\ st \in Steps /\ st[1] = "write" /\ Shape(p[x])
  BY AtWork DEF Write
<1>2. Goes(p[x]) \in Process /\ Onward(p[x], Goes(p[x]))
  BY <1>1, GoesIs
<1>3. r \in Process /\ Onward(p[x], r)
  BY <1>0, <1>2, NoLinesIs DEF Process, Onward
<1>4. Moves(x, r)
  BY <1>0, <1>3 DEF Write, Moves
<1>5. env' = WithLine(p[x].lines, st[2], st[3]) /\ p[x].lines \in Envs
  BY <1>1 DEF Write, Process
<1> HIDE DEF st
<1>7. env' \in Envs
  BY <1>1, <1>5, WithLineIs
<1>8. Types'
  BY <1>4, <1>7, MovedType DEF IInv, Types, Write
<1>9. /\ Shape(r) /\ (p[x].restarts => r.restarts)
      /\ Committed(p[x].todo) => Committed(r.todo)
  BY <1>1, <1>3, OnwardShape DEF st
<1>10. Together => r.restarts /\ Committed(r.todo)
  BY <1>9, WriterOwes DEF Together, Write
<1>11. ASSUME Alone(x)
       PROVE  As(env)' /\ (r.restarts \/ (~r.restarts /\ Solo(r)'))
  <2>1. Restoring(p[x].todo) /\ As(p[x].lines) /\ ~p[x].restarts
    BY <1>1, <1>11, SoloHead DEF Alone, Writing, st
  <2>2. env' = [p[x].lines EXCEPT !["POLICY_ENABLED"] = "1"]
    <3>1. st = <<"write", "POLICY_ENABLED", "1">>
      BY <2>1, RestoringTail DEF st
    <3>2. st[2] = "POLICY_ENABLED" /\ st[3] = "1"
      BY <3>1
    <3> QED
      BY <1>5, <3>2 DEF WithLine, Others
  <2>3. RunOf(env') = RunOf(p[x].lines)
    BY <1>5, <2>2, RunIs
  <2>4. As(env)'
    BY <2>1, <2>3 DEF As, Write
  <2>5. CASE Len(p[x].todo) = 1
    BY <1>3, <2>4, <2>5 DEF Onward
  <2>6. CASE Len(p[x].todo) # 1
    <3>1. Quiet(r.todo) /\ r.todo # <<>> /\ ~r.restarts
      BY <1>3, <2>1, <2>6, RestoringTail DEF Onward
    <3> QED
      BY <2>4, <3>1 DEF Solo
  <2> QED
    BY <2>5, <2>6
<1>12. calm' = calm
  BY DEF Write
<1> QED
  BY <1>1, <1>4, <1>8, <1>9, <1>10, <1>11, <1>12, MoveKeeps

LEMMA RestartKeeps ==
    ASSUME IInv, NEW x \in Processes, RestartService(x)
    PROVE  IInv'
<1>1. /\ p[x] \in Process /\ p[x].todo \in Seq(Steps) /\ p[x].todo # <<>>
      /\ Head(p[x].todo)[1] = "restart" /\ Shape(p[x])
  BY AtWork DEF RestartService
<1>2. PICK r : Moves(x, r) /\ Onward(p[x], r)
  BY <1>1, GoesOnMoves DEF IInv, RestartService
<1>3. service' = RunOf(env) /\ env' = env /\ calm' = calm
  BY RunIs DEF RestartService
<1>4. Types'
  BY <1>2, <1>3, MovedType, RunIs DEF IInv, Types, RestartService
<1>5. Shape(r) /\ (p[x].restarts => r.restarts)
  BY <1>1, <1>2, OnwardShape
<1>6. As(env)'
  BY <1>3 DEF As
<1>7. ~Alone(x)
  BY <1>1, SoloHead DEF Alone, Writing
<1> QED
  BY <1>1, <1>2, <1>3, <1>4, <1>5, <1>6, <1>7, MoveKeeps DEF Together

(* A command ends, or goes over to the steps s.                               *)
LEMMA EndsKeeps ==
    ASSUME IInv, NEW x \in Processes, NEW op \in Giving, Doing(x, op),
           NEW s, s = <<>> \/ Committed(s),
           EndsWith(x, s), UNCHANGED <<env, service, timer, mayMine, calm>>,
           config' \in BOOLEAN
    PROVE  IInv'
<1>1. /\ p[x] \in Process /\ p[x].todo \in Seq(Steps) /\ p[x].todo # <<>>
      /\ Head(p[x].todo)[1] = op /\ Shape(p[x])
  BY AtWork
<1>2. s \in Seq(Steps)
  <2>1. <<>> \in Seq(Steps)
    OBVIOUS
  <2> QED
    BY <2>1 DEF Committed
<1>3. PICK r : Moves(x, r) /\ Ends(r, s)
  BY <1>2, EndsMoves
<1>4. Types'
  BY <1>3, MovedType DEF IInv, Types
<1>5. Shape(r) /\ r.restarts
  BY <1>3, CommitStarts DEF Ends, Shape
<1>6. ~Committed(p[x].todo)
  BY <1>1, CommittedHead
<1>7. Alone(x) => As(env)'
  <2>1. op \notin {"lines", "truncate", "write"}
    BY DEF Giving
  <2>2. Alone(x) => As(env)
    BY <1>1, <2>1, SoloHead DEF Alone
  <2> QED
    BY <2>2 DEF As
<1> QED
  BY <1>1, <1>3, <1>4, <1>5, <1>6, <1>7, MoveKeeps

LEMMA WalletKeeps ==
    ASSUME IInv, NEW x \in Processes, Wallet(x)
    PROVE  IInv'
<1>1. CASE EndsWith(x, <<>>)
  BY <1>1, EndsKeeps DEF Wallet, Giving, IInv, Types
<1>2. CASE GoesOn(x)
  <2>1. /\ p[x] \in Process /\ p[x].todo \in Seq(Steps) /\ p[x].todo # <<>>
        /\ Head(p[x].todo)[1] = "wallet" /\ Shape(p[x])
    BY AtWork DEF Wallet
  <2>2. PICK r : Moves(x, r) /\ Onward(p[x], r)
    BY <1>2, <2>1, GoesOnMoves DEF IInv
  <2>3. env' = env /\ service' = service /\ calm' = calm
    BY DEF Wallet
  <2>4. Types'
    BY <2>2, MovedType DEF IInv, Types, Wallet
  <2>5. Shape(r) /\ (p[x].restarts => r.restarts)
    BY <2>1, <2>2, OnwardShape
  <2>6. ~Alone(x) /\ ~Committed(p[x].todo)
    BY <2>1, SoloHead, CommittedHead DEF Alone, Writing, Giving
  <2> QED
    BY <2>1, <2>2, <2>3, <2>4, <2>5, <2>6, MoveKeeps DEF Together
<1> QED
  BY <1>1, <1>2 DEF Wallet

LEMMA LoadsKeeps ==
    ASSUME IInv, NEW x \in Processes, Loads(x)
    PROVE  IInv'
<1>1. p[x] \in Process /\ p[x].todo # <<>>
  BY AtWork DEF Loads
<1>2. CASE EndsWith(x, p[x].orElse)
  <2>1. p[x].orElse = <<>> \/ Committed(p[x].orElse)
    BY <1>1, RestartIs DEF Process
  <2>2. "loads" \in Giving /\ config' \in BOOLEAN
    BY DEF Giving, Loads
  <2> QED
    BY <1>2, <2>1, <2>2, EndsKeeps DEF Loads
<1>3. CASE GoesOn(x)
  <2>1. PICK r : Moves(x, r) /\ Onward(p[x], r)
    BY <1>1, <1>3, GoesOnMoves DEF IInv
  <2>2. Types'
    BY <2>1, MovedType DEF IInv, Types, Loads
  <2>3. "loads" \notin Writing
    BY DEF Writing
  <2> QED
    BY <2>1, <2>2, <2>3, OnwardKeeps DEF Loads
<1> QED
  BY <1>2, <1>3 DEF Loads

LEMMA DumpsKeeps ==
    ASSUME IInv, NEW x \in Processes, Dumps(x)
    PROVE  IInv'
<1>1. p[x] \in Process /\ p[x].todo # <<>>
  BY AtWork DEF Dumps
<1>2. PICK r : Moves(x, r) /\ Onward(p[x], r)
  BY <1>1, GoesOnMoves DEF IInv, Dumps
<1>3. Types'
  BY <1>2, MovedType DEF IInv, Types, Dumps
<1>4. "dumps" \notin Writing
  BY DEF Writing
<1> QED
  BY <1>2, <1>3, <1>4, OnwardKeeps DEF Dumps

LEMMA EnabledKeeps ==
    ASSUME IInv, NEW x \in Processes, Enabled(x)
    PROVE  IInv'
<1>0. PICK r : r = [Goes(p[x]) EXCEPT !.enabled = env.POLICY_ENABLED # "0"]
  OBVIOUS
<1>1. p[x] \in Process /\ p[x].todo # <<>>
  BY AtWork DEF Enabled
<1>2. Goes(p[x]) \in Process /\ Onward(p[x], Goes(p[x]))
  BY <1>1, GoesIs
<1>3. r \in Process /\ Onward(p[x], r)
  BY <1>0, <1>2 DEF Process, Onward
<1>4. Moves(x, r)
  BY <1>0, <1>3 DEF Enabled, Moves
<1>5. Types'
  BY <1>4, MovedType DEF IInv, Types, Enabled
<1>6. "enabled" \notin Writing
  BY DEF Writing
<1> QED
  BY <1>3, <1>4, <1>5, <1>6, OnwardKeeps DEF Enabled

LEMMA DecideKeeps ==
    ASSUME IInv, NEW x \in Processes, Decide(x)
    PROVE  IInv'
<1>0. PICK r : r = [Goes(p[x]) EXCEPT
                       !.desired = IF Allowed(x) THEN "1" ELSE "0",
                       !.enabled = FALSE]
  OBVIOUS
<1>1. p[x] \in Process /\ p[x].todo # <<>>
  BY AtWork DEF Decide, Desired
<1>2. Goes(p[x]) \in Process /\ Onward(p[x], Goes(p[x]))
  BY <1>1, GoesIs
<1>3. r \in Process /\ Onward(p[x], r)
  BY <1>0, <1>2 DEF Process, Onward
<1>4. Moves(x, r)
  BY <1>0, <1>3 DEF Decide, Desired, Moves
<1>5. Types'
  BY <1>4, MovedType DEF IInv, Types, Decide, Desired
<1>6. "decide" \notin Writing
  BY DEF Writing
<1> QED
  BY <1>3, <1>4, <1>5, <1>6, OnwardKeeps DEF Decide, Desired

LEMMA SetTimerKeeps ==
    ASSUME IInv, NEW x \in Processes, SetTimer(x)
    PROVE  IInv'
<1>1. PICK op \in {"timer on", "timer off"} : Doing(x, op)
  BY DEF SetTimer
<1>2. p[x] \in Process /\ p[x].todo # <<>>
  BY <1>1, AtWork
<1>3. PICK r : Moves(x, r) /\ Onward(p[x], r)
  BY <1>2, GoesOnMoves DEF IInv, SetTimer
<1>4. Types'
  BY <1>3, MovedType DEF IInv, Types, SetTimer
<1>5. op \notin Writing
  BY DEF Writing
<1> QED
  BY <1>1, <1>3, <1>4, <1>5, OnwardKeeps DEF SetTimer

LEMMA ApplyKeeps ==
    ASSUME IInv, NEW x \in Processes, Apply(x)
    PROVE  IInv'
<1> DEFINE s == set_env_value("MINING_ENABLED", p[x].desired) \o do("restart")
<1>1. p[x] \in Process
  BY AtWork DEF Apply
<1>2. Committed(s)
  BY <1>1, Keys, SetRestarts DEF Process
<1>3. /\ Doing(x, "apply") /\ (EndsWith(x, <<>>) \/ EndsWith(x, s))
      /\ UNCHANGED <<env, service, timer, mayMine, calm>>
  BY DEF Apply
<1>4. "apply" \in Giving /\ config' \in BOOLEAN
  BY DEF Giving, Apply, IInv, Types
<1> HIDE DEF s
<1> QED
  BY <1>2, <1>3, <1>4, EndsKeeps

LEMMA OffKeeps ==
    ASSUME IInv, NEW x \in Processes, Off(x)
    PROVE  IInv'
<1> DEFINE m == set_env_value("MINING_ENABLED", "0")
<1>1. /\ p[x] \in Process /\ p[x].todo \in Seq(Steps) /\ p[x].todo # <<>>
      /\ Head(p[x].todo)[1] = "off" /\ Shape(p[x])
  BY AtWork DEF Off
<1>2. PICK s \in {<<>>, m} : p' = [p EXCEPT ![x].todo = s \o Tail(p[x].todo)]
  BY DEF Off, IInv, Types
<1>3. m \in Seq(Steps) /\ Free(m, Giving)
  BY SetIs, Keys
<1> HIDE DEF m
<1>4. s \in Seq(Steps) /\ Free(s, Giving)
  <2>1. <<>> \in Seq(Steps) /\ Free(<<>>, Giving)
    BY DEF Free, FreeFrom
  <2> QED
    BY <1>2, <1>3, <2>1
<1>5. Tail(p[x].todo) \in Seq(Steps)
  BY <1>1, HeadTailProperties
<1>6. s \o Tail(p[x].todo) \in Seq(Steps)
  BY <1>4, <1>5, ConcatProperties
<1>7. PICK r : r = [p[x] EXCEPT !.todo = s \o Tail(p[x].todo)]
  OBVIOUS
<1>8. /\ r \in Process /\ r.todo = s \o Tail(p[x].todo)
      /\ r.restarts = p[x].restarts /\ r.orElse = p[x].orElse
  BY <1>1, <1>6, <1>7 DEF Process
<1>9. Moves(x, r)
  BY <1>2, <1>7, <1>8 DEF Moves
<1>10. Types'
  BY <1>9, MovedType DEF IInv, Types, Off
<1>11. p[x].restarts => Committed(r.todo)
  <2>1. ASSUME p[x].restarts
        PROVE  Committed(r.todo)
    <3>1. Committed(p[x].todo)
      BY <2>1, WriterOwes DEF Off
    <3>2. Len(p[x].todo) # 1
      BY <1>1, <3>1, CommittedHead
    <3>3. Committed(Tail(p[x].todo))
      BY <3>1, <3>2, CommitTail
    <3> QED
      BY <1>4, <1>8, <3>3, CommitConcat
  <2> QED
    BY <2>1
<1>12. Shape(r)
  BY <1>1, <1>8, <1>11, CommitStarts DEF Shape
<1>13. ~Alone(x)
  BY <1>1, SoloHead DEF Alone, Writing
<1>14. Together => r.restarts /\ Committed(r.todo)
  BY <1>8, <1>11 DEF Together
<1>15. calm' = calm
  BY DEF Off
<1> QED
  BY <1>1, <1>9, <1>10, <1>12, <1>13, <1>14, <1>15, MoveKeeps

LEMMA DefaultStep ==
    ASSUME NEW st, st \in Steps, st[1] = "default"
    PROVE  st[2] \in Others
BY DEF Steps

(* The further lines of wallet set go before the restart it owes.             *)
LEMMA DefaultKeeps ==
    ASSUME IInv, NEW x \in Processes, Default(x)
    PROVE  IInv'
<1> DEFINE st == Head(p[x].todo)
           m == set_env_value(st[2], "set")
<1>1. /\ p[x] \in Process /\ p[x].todo \in Seq(Steps) /\ p[x].todo # <<>>
      /\ st \in Steps /\ st[1] = "default" /\ Shape(p[x])
  BY AtWork DEF Default
<1>2. m \in Seq(Steps) /\ Free(m, Giving)
  BY <1>1, DefaultStep, OtherIs
<1>3. ~Alone(x)
  BY <1>1, SoloHead DEF Alone, Writing
<1>4. p[x].restarts => Committed(p[x].todo)
  BY WriterOwes DEF Default
<1>5. UNCHANGED <<env, config, timer, service, mayMine, calm>>
  BY DEF Default
<1>6. CASE GoesOn(x)
  <2>1. PICK r : Moves(x, r) /\ Onward(p[x], r)
    BY <1>1, <1>6, GoesOnMoves DEF IInv
  <2>2. Types'
    BY <1>5, <2>1, MovedType DEF IInv, Types
  <2>3. /\ Shape(r) /\ (p[x].restarts => r.restarts)
        /\ Committed(p[x].todo) => Committed(r.todo)
    BY <1>1, <2>1, OnwardShape
  <2>4. Together => r.restarts /\ Committed(r.todo)
    BY <1>4, <2>3 DEF Together
  <2> QED
    BY <1>1, <1>3, <1>5, <2>1, <2>2, <2>3, <2>4, MoveKeeps
<1>7. CASE p' = [p EXCEPT ![x].todo = m \o Tail(p[x].todo)]
  <2> HIDE DEF m
  <2>1. m \o Tail(p[x].todo) \in Seq(Steps)
    BY <1>1, <1>2, HeadTailProperties, ConcatProperties
  <2>2. PICK r : r = [p[x] EXCEPT !.todo = m \o Tail(p[x].todo)]
    OBVIOUS
  <2>3. /\ r \in Process /\ r.todo = m \o Tail(p[x].todo)
        /\ r.restarts = p[x].restarts /\ r.orElse = p[x].orElse
    BY <1>1, <2>1, <2>2 DEF Process
  <2>4. Moves(x, r)
    BY <1>7, <2>2, <2>3 DEF Moves
  <2>5. Types'
    BY <1>5, <2>4, MovedType DEF IInv, Types
  <2>6. ASSUME p[x].restarts
        PROVE  Committed(r.todo)
    <3>1. Committed(p[x].todo) /\ Len(p[x].todo) # 1
      BY <1>1, <1>4, <2>6, CommittedHead
    <3>2. Committed(Tail(p[x].todo))
      BY <3>1, CommitTail
    <3> QED
      BY <1>2, <2>3, <3>2, CommitConcat
  <2>7. Shape(r)
    BY <1>1, <2>3, <2>6, CommitStarts DEF Shape
  <2>8. Together => r.restarts /\ Committed(r.todo)
    BY <2>3, <2>6 DEF Together
  <2> QED
    BY <1>1, <1>3, <1>5, <2>4, <2>5, <2>7, <2>8, MoveKeeps
<1> QED
  BY <1>6, <1>7 DEF Default

LEMMA StepKeeps ==
    ASSUME IInv, NEW x \in Processes, Step(x)
    PROVE  IInv'
BY LinesKeeps, TruncateKeeps, WriteKeeps, WalletKeeps, LoadsKeeps, DumpsKeeps,
   EnabledKeeps, DecideKeeps, ApplyKeeps, OffKeeps, SetTimerKeeps, RestartKeeps,
   DefaultKeeps
DEF Step

-----------------------------------------------------------------------------
(* Starts, deaths and the world                                               *)

LEMMA CommittedRuns ==
    ASSUME NEW s, Committed(s)
    PROVE  s # <<>>
BY DEF Committed

(* When nothing runs nothing is owed.                                         *)
LEMMA QuietFile ==
    ASSUME IInv, calm, Running = {}
    PROVE  Together /\ As(env)
<1>1. \A x \in Processes : p[x].todo = <<>>
  BY DEF Running
<1>2. \A x \in Processes : ~Committed(p[x].todo)
  BY <1>1, CommittedRuns
<1>3. \A x \in Processes : ~Alone(x)
  <2>1. ASSUME NEW x \in Processes, Alone(x)
        PROVE  FALSE
    BY <1>1, <2>1, EnablingTail, TruncatingTail, RestoringTail DEF Alone, Solo
  <2> QED
    BY <2>1
<1> QED
  BY <1>2, <1>3 DEF IInv, Together

LEMMA StartKeeps ==
    ASSUME IInv, NEW x \in Processes, NEW cmd \in Commands \cup {"policy run"},
           Start(x, cmd)
    PROVE  IInv'
<1>0. PICK r : r = [Idle EXCEPT
                       !.todo = Script(cmd),
                       !.orElse = IF cmd = "mode auto" THEN do("restart") ELSE <<>>,
                       !.restarts = cmd \notin NoRestart]
  OBVIOUS
<1>1. /\ cmd \in NoRestart => Enabling(Script(cmd))
      /\ cmd \notin NoRestart =>
            \/ Starting(Script(cmd))
            \/ Quiet(Script(cmd)) /\ Script(cmd) # <<>>
  BY ScriptIs
<1>2. Script(cmd) \in Seq(Steps)
  BY <1>1 DEF Enabling, Starting, Quiet
<1>3. /\ r \in Process /\ r.todo = Script(cmd)
      /\ r.restarts = (cmd \notin NoRestart)
      /\ r.restarts => r.orElse = <<>>
  BY <1>0, <1>2, IdleIs DEF Process, NoRestart
<1>4. Moves(x, r)
  BY <1>0, <1>3 DEF Start, Moves
<1>5. Types'
  BY <1>4, MovedType DEF IInv, Types, Start
<1>6. Shape(r)
  BY <1>1, <1>3 DEF Shape
<1>7. p'[x] = r /\ \A y \in Processes : y # x => p'[y] = p[y]
  BY <1>4 DEF Moves, IInv, Types
<1>8. \A y \in Processes : Shape(p'[y])
  BY <1>6, <1>7 DEF IInv
<1>9. As(env) => As(env)'
  BY DEF As, Start
<1>10. CASE Running = {}
  <2>1. Together /\ As(env)
    BY <1>10, QuietFile DEF Start
  <2>2. CASE r.restarts
    <3>1. Together'
      BY <1>7, <1>9, <2>1, <2>2 DEF Together
    <3> QED
      BY <1>5, <1>8, <3>1 DEF IInv
  <2>3. CASE ~r.restarts
    <3>1. Enabling(r.todo)
      BY <1>1, <1>3, <2>3
    <3>2. Solo(r)'
      BY <1>9, <2>1, <3>1 DEF Solo
    <3>3. Solo(p[x])'
      BY <1>7, <3>2 DEF Solo, As
    <3>4. Alone(x)'
      BY <1>7, <1>10, <2>1, <2>3, <3>3 DEF Alone, Together, Running
    <3> QED
      BY <1>5, <1>8, <3>4 DEF IInv
  <2> QED
    BY <2>2, <2>3
<1>11. CASE Running # {}
  <2>1. SUFFICES ASSUME calm'
                 PROVE  Together'
    BY <1>5, <1>8 DEF IInv
  <2>2. r.restarts /\ \A y \in Running : p[y].restarts
    BY <1>3, <1>11, <2>1 DEF Start
  <2>3. calm /\ p[x].todo = <<>>
    BY DEF Start
  <2>4. ASSUME NEW z \in Processes, Alone(z)
        PROVE  FALSE
    <3>1. p[z].todo # <<>>
      BY <2>4, EnablingTail, TruncatingTail, RestoringTail DEF Alone, Solo
    <3> QED
      BY <2>2, <2>4, <3>1 DEF Alone, Running
  <2>5. Together
    BY <2>3, <2>4 DEF IInv
  <2>6. ASSUME NEW y \in Processes, Committed(p[y].todo)
        PROVE  Committed(p'[y].todo)
    BY <1>7, <2>3, <2>6, CommittedRuns
  <2> QED
    BY <1>7, <1>9, <2>2, <2>5, <2>6 DEF Together
<1> QED
  BY <1>10, <1>11

LEMMA KilledKeeps ==
    ASSUME IInv, NEW x \in Processes, Killed(x)
    PROVE  IInv'
<1>1. <<>> \in Seq(Steps)
  OBVIOUS
<1>2. PICK r : Moves(x, r) /\ Ends(r, <<>>)
  BY <1>1, EndsMoves DEF Killed
<1>3. Types'
  BY <1>2, MovedType DEF IInv, Types, Killed
<1>4. p'[x] = r /\ \A y \in Processes : y # x => p'[y] = p[y]
  BY <1>2 DEF Moves, IInv, Types
<1>5. \A y \in Processes : Shape(p'[y])
  BY <1>2, <1>4 DEF IInv, Shape, Ends
<1> QED
  BY <1>3, <1>5 DEF IInv, Killed

LEMMA RespawnKeeps ==
    ASSUME IInv, Respawn
    PROVE  IInv'
<1>1. service' = RunOf(env) /\ UNCHANGED <<env, config, timer, mayMine, p, calm>>
  BY RunIs DEF Respawn
<1>2. Types'
  BY <1>1, RunIs DEF IInv, Types
<1>3. As(env)'
  BY <1>1 DEF As
<1>4. \A x \in Processes : Shape(p[x])'
  BY <1>1 DEF IInv, Shape
<1>5. Together => Together'
  BY <1>1, <1>3 DEF Together
<1>6. ASSUME NEW x \in Processes, Alone(x)
      PROVE  Alone(x)'
  <2>1. Solo(p[x])'
    <3>1. CASE Restoring(p[x].todo) /\ env = NoLines /\ As(p[x].lines)
      BY <1>1, <3>1, RunIs DEF Solo, As
    <3>2. CASE \/ Enabling(p[x].todo) /\ As(env)
               \/ Truncating(p[x].todo) /\ p[x].lines = env /\ As(env)
               \/ Quiet(p[x].todo) /\ p[x].todo # <<>> /\ As(env)
      BY <1>1, <1>3, <3>2 DEF Solo
    <3> QED
      BY <1>6, <3>1, <3>2 DEF Alone, Solo
  <2> QED
    BY <1>1, <1>6, <2>1 DEF Alone
<1> QED
  BY <1>1, <1>2, <1>4, <1>5, <1>6 DEF IInv

LEMMA BootKeeps ==
    ASSUME IInv, Boot
    PROVE  IInv'
<1>1. /\ service' = RunOf(env) /\ p' = [x \in Processes |-> Idle] /\ calm'
      /\ UNCHANGED <<env, config, timer, mayMine>>
  BY RunIs DEF Boot
<1>2. Types'
  BY <1>1, RunIs, IdleIs DEF IInv, Types
<1>3. As(env)'
  BY <1>1 DEF As
<1>4. \A x \in Processes : Shape(p[x])'
  BY <1>1, IdleIs DEF Shape
<1>5. Together'
  BY <1>1, <1>3, IdleIs DEF Together
<1> QED
  BY <1>2, <1>4, <1>5 DEF IInv

LEMMA WorldKeeps ==
    ASSUME IInv, WorldChanges \/ UNCHANGED vars
    PROVE  IInv'
<1>1. /\ UNCHANGED <<env, config, timer, service, p, calm>>
      /\ mayMine' \in BOOLEAN
  BY DEF WorldChanges, vars, IInv, Types
<1>2. Types'
  BY <1>1 DEF IInv, Types
<1>3. \A x \in Processes : Shape(p[x])'
  BY <1>1 DEF IInv, Shape
<1>4. Together => Together'
  BY <1>1 DEF Together, As
<1>5. ASSUME NEW x \in Processes
      PROVE  Alone(x) => Alone(x)'
  BY <1>1 DEF Alone, Solo, As
<1> QED
  BY <1>1, <1>2, <1>3, <1>4, <1>5 DEF IInv

LEMMA InvInit == Init => IInv
<1> SUFFICES ASSUME Init
             PROVE  IInv
  OBVIOUS
<1>1. \A x \in Processes : p[x] = Idle
  BY DEF Init
<1>2. Types
  BY IdleIs DEF Init, Types, Envs
<1>3. \A x \in Processes : Shape(p[x])
  BY <1>1, IdleIs DEF Shape
<1>4. As(env)
  BY DEF Init, As, RunOf
<1>5. Together
  BY <1>1, <1>4, IdleIs DEF Together
<1> QED
  BY <1>2, <1>3, <1>5 DEF IInv

LEMMA InvStep == IInv /\ [Next]_vars => IInv'
<1> SUFFICES ASSUME IInv, [Next]_vars
             PROVE  IInv'
  OBVIOUS
<1>1. Timer \in Processes /\ Admins \subseteq Processes
  BY DEF Processes
<1>2. ASSUME NEW x \in Admins, NEW cmd \in Commands, Admin(x, cmd)
      PROVE  IInv'
  BY <1>1, <1>2, StartKeeps DEF Admin
<1>3. CASE TimerFires
  BY <1>1, <1>3, StartKeeps DEF TimerFires
<1>4. ASSUME NEW x \in Processes, Step(x) \/ Killed(x)
      PROVE  IInv'
  BY <1>4, StepKeeps, KilledKeeps
<1>5. CASE Respawn
  BY <1>5, RespawnKeeps
<1>6. CASE Boot
  BY <1>6, BootKeeps
<1>7. CASE WorldChanges \/ UNCHANGED vars
  BY <1>7, WorldKeeps
<1> QED
  BY <1>2, <1>3, <1>4, <1>5, <1>6, <1>7 DEF Next

(* The inductive invariant holds throughout every behaviour of the commands.  *)
THEOREM Invariance == Spec => []IInv
<1> QED
  BY InvInit, InvStep, PTL DEF Spec

-----------------------------------------------------------------------------
(* The file, the service and the steps every command still has to do          *)
(* (veloxhash-mining, veloxhash-policy) have their types.                     *)
THEOREM TypeCorrect == Spec => []TypeOK
<1>1. IInv => TypeOK
  <2>1. <<>> \in Seq(Steps) /\ do("restart") \in Seq(Steps)
    <3>1. <<>> \in Seq(Steps)
      OBVIOUS
    <3> QED
      BY <3>1, RestartIs DEF Committed
  <2> QED
    BY <2>1 DEF IInv, Types, TypeOK, Process
<1> QED
  BY <1>1, Invariance, PTL

(* When no command runs the service runs as veloxhash.env says, or is about   *)
(* to be started, whatever commands ran before, in whatever order their reads,*)
(* writes and restarts fell (set_mining_switch, set_env_value, veloxhash-run).*)
THEOREM FileObeyed == Spec => []RunsTheFile
<1>1. IInv => RunsTheFile
  BY QuietFile, RunIs DEF RunsTheFile, As
<1> QED
  BY <1>1, Invariance, PTL
=============================================================================
