---------------------------- MODULE NonceProofs ----------------------------
(* Proofs about Nonce for every number of threads, every mix of masks and     *)
(* chunk sizes, every word size, and any number of calls and resets up to     *)
(* the bounds.                                                                *)
EXTENDS Nonce, Integers, SequenceTheorems, TLAPS

(* The inductive invariant: what is in flight in next() is kept apart from    *)
(* what was granted and from what other threads have in flight, and           *)
(* everything taken since the last reset lies below the counter.              *)

Pending == {t \in Threads : pc[t] = "decide"}

PendingTyped ==
    \A t \in Pending :
        /\ call[t] \in Chunk
        /\ call[t].mask \in Masks
        /\ call[t].count \in Reserves \ {0}

Below(c) ==
    /\ c.epoch <= epoch[c.index]
    /\ c.epoch = epoch[c.index] => c.first + c.count <= mNonces[c.index]

AllBelow ==
    /\ \A t \in Pending : Below(call[t])
    /\ \A a \in DOMAIN granted : Below(granted[a])

PendingApart ==
    /\ \A t, u \in Pending : t # u => Apart(call[t], call[u])
    /\ \A t \in Pending, a \in DOMAIN granted : Apart(call[t], granted[a])

(* A counter that moved was moved by calls whose masks are in `used'.         *)
UsedIfMoved ==
    /\ \A i \in Indices : used[i] = {} => mNonces[i] = 0
    /\ \A t \in Pending : call[t].epoch = epoch[call[t].index]
                             => call[t].mask \in used[call[t].index]

IInv ==
    /\ TypeOK
    /\ PendingTyped
    /\ AllBelow
    /\ PendingApart
    /\ NoNonceTwice
    /\ ChunkFits
    /\ UsedIfMoved
    /\ EndIsAnnounced

-----------------------------------------------------------------------------
(* (uint32_t)counter is below a word.                                         *)
LEMMA ModRange == \A n \in Nat : n % Word \in Nat /\ n % Word < Word
  BY WordAssumption

(* A chunk that ends where its nonce space ends does not leave the word it    *)
(* starts in: the space is one part of a word, or whole words.                *)
LEMMA LastChunkInWord ==
  ASSUME NEW m \in Masks, NEW first \in Nat, NEW count \in Nat \ {0},
         count <= Word, first + count = m + 1
  PROVE  (first % Word) + count <= Word
  <1>1. CASE m < Word
    <2>1. first < Word /\ first % Word = first
      BY <1>1, WordAssumption, MaskAssumption
    <2> QED
      BY <1>1, <2>1, WordAssumption, MaskAssumption
  <1>2. CASE (m + 1) % Word = 0
    <2> DEFINE q == (m + 1) \div Word
               p == first \div Word
               r == first % Word
    <2>1. m + 1 = Word * q /\ q \in Int
      BY <1>2, WordAssumption, MaskAssumption
    <2>2. first = Word * p + r /\ p \in Int /\ r \in Nat /\ r < Word
      BY WordAssumption
    <2> HIDE DEF q, p, r
    <2>3. Word * (q - p) = r + count
      BY <2>1, <2>2, WordAssumption, MaskAssumption
    <2>4. q - p < 2
      <3>1. q - p >= 2 => Word * (q - p) >= Word * 2
        BY <2>1, <2>2, WordAssumption
      <3> QED
        BY <2>1, <2>2, <2>3, <3>1, WordAssumption
    <2>5. q - p <= 1 => Word * (q - p) <= Word
      BY <2>1, <2>2, WordAssumption
    <2> QED
      BY <2>1, <2>2, <2>3, <2>4, <2>5, WordAssumption DEF r
  <1> QED
    BY <1>1, <1>2, MaskAssumption

-----------------------------------------------------------------------------
(* No thread is inside next() at first, and nothing was granted.              *)
LEMMA InitIInv == Init => IInv
  <1> SUFFICES ASSUME Init PROVE IInv
    OBVIOUS
  <1> USE DEF Init, Pending
  <1>1. TypeOK
    BY DEF TypeOK
  <1>2. Pending = {} /\ DOMAIN granted = {}
    OBVIOUS
  <1>3. UsedIfMoved /\ EndIsAnnounced
    BY <1>2 DEF UsedIfMoved, EndIsAnnounced
  <1> QED
    BY <1>1, <1>2, <1>3 DEF IInv, PendingTyped, AllBelow, PendingApart,
       NoNonceTwice, ChunkFits

(* A fetch_add keeps everything apart: the fetched chunk starts where all     *)
(* chunks taken since the last reset end.  The thread either enters next()    *)
(* or retries with a chunk that did not reach the end of the space.           *)
LEMMA FetchAddIInv ==
  ASSUME IInv, NEW t \in Threads, NEW i \in Indices,
         NEW r \in Reserves \ {0}, NEW m \in Masks,
         FetchAdd(t, i, r, m),
         pc' = [pc EXCEPT ![t] = "decide"],
         UNCHANGED <<paused, epoch, granted, ended>>,
         pc[t] = "decide" =>
             /\ call[t].index = i /\ call[t].mask = m
             /\ call[t].first + call[t].count <= m
  PROVE  IInv'
  <1>0. PICK new : new = [index |-> i, epoch |-> epoch[i], first |-> mNonces[i],
                         count |-> r, mask |-> m]
    OBVIOUS
  <1> USE MaskAssumption, ReserveAssumption
  <1>1. new \in Chunk /\ call'[t] = new /\ \A u \in Threads \ {t} : call'[u] = call[u]
    BY <1>0 DEF FetchAdd, IInv, TypeOK, Chunk
  <1>2. /\ mNonces' \in [Indices -> Nat]
        /\ mNonces'[i] = mNonces[i] + r
        /\ \A j \in Indices \ {i} : mNonces'[j] = mNonces[j]
    BY DEF FetchAdd, IInv, TypeOK
  <1>3. Pending' = Pending \cup {t}
    BY DEF Pending, IInv, TypeOK
  <1>4. TypeOK'
    BY <1>1, <1>2 DEF FetchAdd, IInv, TypeOK
  <1>5. PendingTyped'
    BY <1>0, <1>1, <1>3 DEF IInv, PendingTyped, Pending
  <1>6. \A c \in Chunk : Below(c) => Below(c)'
    <2> SUFFICES ASSUME NEW c \in Chunk, Below(c) PROVE Below(c)'
      OBVIOUS
    <2>1. /\ c.index \in Indices /\ c.first \in Nat /\ c.count \in Nat
          /\ epoch' = epoch
      BY DEF Chunk
    <2>2. /\ mNonces[c.index] \in Nat /\ mNonces'[c.index] \in Nat
          /\ mNonces'[c.index] >= mNonces[c.index]
      <3>1. mNonces[c.index] \in Nat /\ mNonces[i] \in Nat /\ r \in Nat
        BY <2>1 DEF IInv, TypeOK
      <3>2. CASE c.index = i
        BY <3>1, <3>2, <1>2
      <3>3. CASE c.index # i
        BY <2>1, <3>1, <3>3, <1>2
      <3> QED
        BY <3>2, <3>3
    <2> QED
      BY <2>1, <2>2 DEF Below
  <1>7. Below(new)'
    BY <1>0, <1>2 DEF Below, IInv, TypeOK
  <1>8. AllBelow'
    <2>1. ASSUME NEW u \in Pending' PROVE Below(call[u])'
      <3>1. CASE u = t
        BY <3>1, <1>1, <1>7 DEF Below
      <3>2. CASE u # t
        <4>1. u \in Pending /\ call'[u] = call[u] /\ call[u] \in Chunk
          BY <2>1, <3>2, <1>1, <1>3 DEF Pending, IInv, PendingTyped
        <4>2. Below(call[u]) /\ epoch' = epoch
          BY <4>1 DEF IInv, AllBelow
        <4> QED
          BY <4>1, <4>2, <1>6 DEF Below
      <3> QED
        BY <3>1, <3>2
    <2>2. ASSUME NEW a \in DOMAIN granted PROVE Below(granted[a])'
      <3>1. granted[a] \in Chunk /\ Below(granted[a]) /\ granted' = granted
        BY DEF IInv, TypeOK, AllBelow
      <3> QED
        BY <3>1, <1>6 DEF Below
    <2> QED
      BY <2>1, <2>2 DEF AllBelow
  <1>9. ASSUME NEW c \in Chunk, Below(c) PROVE Apart(c, new) /\ Apart(new, c)
    BY <1>9, <1>0 DEF Below, Apart, Chunk, IInv, TypeOK
  <1>10. PendingApart'
    <2>1. ASSUME NEW u \in Pending', NEW v \in Pending', u # v
          PROVE  Apart(call'[u], call'[v])
      <3>1. \A w \in Pending' \ {t} : w \in Pending /\ call'[w] = call[w]
                                       /\ call[w] \in Chunk /\ Below(call[w])
        BY <1>1, <1>3 DEF Pending, IInv, PendingTyped, AllBelow
      <3>2. CASE u = t
        BY <2>1, <3>1, <3>2, <1>1, <1>9
      <3>3. CASE v = t
        BY <2>1, <3>1, <3>3, <1>1, <1>9
      <3>4. CASE u # t /\ v # t
        BY <2>1, <3>1, <3>4 DEF IInv, PendingApart
      <3> QED
        BY <3>2, <3>3, <3>4
    <2>2. ASSUME NEW u \in Pending', NEW a \in DOMAIN granted
          PROVE  Apart(call'[u], granted[a])
      <3>1. granted[a] \in Chunk /\ Below(granted[a])
        BY DEF IInv, TypeOK, AllBelow
      <3>2. CASE u = t
        BY <3>1, <3>2, <1>1, <1>9
      <3>3. CASE u # t
        <4>1. u \in Pending /\ call'[u] = call[u]
          BY <3>3, <1>1, <1>3 DEF Pending
        <4> QED
          BY <4>1 DEF IInv, PendingApart
      <3> QED
        BY <3>2, <3>3
    <2>3. granted' = granted
      OBVIOUS
    <2> QED
      BY <2>1, <2>2, <2>3 DEF PendingApart
  <1>11. NoNonceTwice' /\ ChunkFits'
    BY DEF IInv, NoNonceTwice, ChunkFits
  <1>12. /\ used' \in [Indices -> SUBSET Masks]
         /\ used'[i] = used[i] \cup {m}
         /\ \A j \in Indices \ {i} : used'[j] = used[j]
    BY DEF FetchAdd, IInv, TypeOK
  <1>13. UsedIfMoved'
    <2>1. \A j \in Indices : used'[j] = {} => mNonces'[j] = 0
      BY <1>2, <1>12 DEF IInv, UsedIfMoved
    <2>2. ASSUME NEW u \in Pending', call'[u].epoch = epoch'[call'[u].index]
          PROVE  call'[u].mask \in used'[call'[u].index]
      <3>1. CASE u = t
        BY <3>1, <1>0, <1>1, <1>12
      <3>2. CASE u # t
        <4>1. u \in Pending /\ call'[u] = call[u] /\ call[u].index \in Indices
          BY <3>2, <1>1, <1>3 DEF Pending, IInv, PendingTyped, Chunk
        <4>2. call[u].mask \in used[call[u].index]
          BY <2>2, <4>1 DEF IInv, UsedIfMoved
        <4> QED
          BY <4>1, <4>2, <1>12
      <3> QED
        BY <3>1, <3>2
    <2> QED
      BY <2>1, <2>2 DEF UsedIfMoved
  <1>14. EndIsAnnounced'
    <2> SUFFICES ASSUME NEW j \in Indices, NEW k \in Masks,
                        used'[j] = {k}, mNonces'[j] > k, k \notin ended[j]
                 PROVE  \E u \in Threads :
                          /\ pc'[u] = "decide"
                          /\ call'[u].index = j /\ call'[u].epoch = epoch[j]
                          /\ call'[u].first <= k
                          /\ k < call'[u].first + call'[u].count
      BY DEF EndIsAnnounced
    <2>0. pc'[t] = "decide" /\ \A u \in Threads \ {t} : pc'[u] = pc[u]
      BY DEF IInv, TypeOK
    <2>1. CASE j = i /\ mNonces[i] <= k
      <3>1. /\ call'[t].index = j /\ call'[t].epoch = epoch[j]
            /\ call'[t].first <= k /\ k < call'[t].first + call'[t].count
        BY <2>1, <1>0, <1>1, <1>2 DEF IInv, TypeOK
      <3> QED
        BY <2>0, <3>1
    <2>2. CASE ~(j = i /\ mNonces[i] <= k)
      <3>1. mNonces[j] > k /\ used[j] = {k}
        <4>1. mNonces[j] > k
          BY <2>2, <1>2 DEF IInv, TypeOK
        <4>2. used[j] # {}
          BY <4>1 DEF IInv, UsedIfMoved
        <4> QED
          BY <4>1, <4>2, <1>12
      <3>2. PICK u \in Threads :
                /\ pc[u] = "decide"
                /\ call[u].index = j /\ call[u].epoch = epoch[j]
                /\ call[u].first <= k
                /\ k < call[u].first + call[u].count
        BY <3>1 DEF IInv, EndIsAnnounced
      <3>3. u # t
        <4> SUFFICES ASSUME u = t PROVE FALSE
          OBVIOUS
        <4>1. call[t].index = i /\ call[t].mask = m
              /\ call[t].first + call[t].count <= m /\ j = i
          BY <3>2
        <4>2. m \in used'[i]
          BY <1>12
        <4>3. m = k
          BY <4>1, <4>2
        <4>4. t \in Pending /\ call[t] \in Chunk
          BY <3>2 DEF Pending, IInv, PendingTyped
        <4> QED
          BY <4>1, <4>3, <4>4, <3>2 DEF Chunk
      <3> QED
        BY <3>2, <3>3, <2>0, <1>1
    <2> QED
      BY <2>1, <2>2
  <1> QED
    BY <1>4, <1>5, <1>8, <1>10, <1>11, <1>13, <1>14 DEF IInv

(* A return from next() keeps everything apart, with the fetched chunk        *)
(* granted or dropped: it was apart from all others while it was pending.     *)
(* If it covered the end of the space, the end has been announced.            *)
LEMMA LeaveIInv ==
  ASSUME IInv, NEW t \in Pending, Leave(t),
         UNCHANGED <<mNonces, epoch, used>>,
         paused' \in BOOLEAN,
         \/ granted' = granted
         \/ /\ granted' = Append(granted, call[t])
            /\ call[t].first + call[t].count - 1 <= call[t].mask
            /\ (call[t].first % Word) + call[t].count <= Word,
         ended' \in [Indices -> SUBSET Masks],
         \A i \in Indices : ended[i] \subseteq ended'[i],
         (/\ call[t].epoch = epoch[call[t].index]
          /\ call[t].first <= call[t].mask
          /\ call[t].mask < call[t].first + call[t].count)
             => call[t].mask \in ended'[call[t].index]
  PROVE  IInv'
  <1>0. t \in Threads /\ pc[t] = "decide"
    BY DEF Pending
  <1>1. call[t] \in Chunk /\ Below(call[t])
    BY DEF IInv, PendingTyped, AllBelow
  <1>2. /\ Pending' = Pending \ {t}
        /\ \A u \in Threads \ {t} : pc'[u] = pc[u] /\ call'[u] = call[u]
    BY <1>0 DEF Leave, Pending, IInv, TypeOK
  <1>3. \A u \in Pending' : u \in Pending /\ u # t /\ call'[u] = call[u]
    BY <1>2 DEF Pending
  <1>4. /\ granted' \in Seq(Chunk)
        /\ \A a \in DOMAIN granted' :
             \/ a \in DOMAIN granted /\ granted'[a] = granted[a]
             \/ /\ a = Len(granted) + 1 /\ granted'[a] = call[t]
                /\ call[t].first + call[t].count - 1 <= call[t].mask
                /\ (call[t].first % Word) + call[t].count <= Word
    <2>1. granted \in Seq(Chunk) /\ Len(granted) \in Nat
          /\ DOMAIN granted = 1 .. Len(granted)
      BY DEF IInv, TypeOK
    <2>2. CASE granted' = granted
      BY <2>1, <2>2
    <2>3. CASE /\ granted' = Append(granted, call[t])
               /\ call[t].first + call[t].count - 1 <= call[t].mask
               /\ (call[t].first % Word) + call[t].count <= Word
      <3>0. ASSUME NEW q \in Seq(Chunk), NEW c \in Chunk
            PROVE  /\ Append(q, c) \in Seq(Chunk)
                   /\ Len(Append(q, c)) = Len(q) + 1
                   /\ Append(q, c)[Len(q) + 1] = c
                   /\ \A a \in 1 .. Len(q) : Append(q, c)[a] = q[a]
        BY AppendProperties
      <3>1. /\ granted' \in Seq(Chunk) /\ Len(granted') = Len(granted) + 1
            /\ granted'[Len(granted) + 1] = call[t]
            /\ \A a \in 1 .. Len(granted) : granted'[a] = granted[a]
        BY <2>1, <2>3, <1>1, <3>0, Zenon
      <3>2. DOMAIN granted' = 1 .. Len(granted) + 1
        BY <3>1
      <3>3. ASSUME NEW a \in DOMAIN granted'
            PROVE  a \in DOMAIN granted \/ a = Len(granted) + 1
        BY <2>1, <3>2, SMT
      <3> QED
        BY <2>1, <2>3, <3>1, <3>3, Zenon
    <2> QED
      BY <2>2, <2>3
  <1>5. TypeOK'
    <2>1. pc' \in [Threads -> {"out", "decide"}]
      BY DEF Leave, IInv, TypeOK
    <2>2. call' \in [Threads -> Chunk \cup {Nowhere}]
      BY DEF Leave, IInv, TypeOK
    <2> QED
      BY <2>1, <2>2, <1>4 DEF IInv, TypeOK
  <1>6. PendingTyped'
    BY <1>3 DEF IInv, PendingTyped
  <1>7. AllBelow'
    <2>1. \A u \in Pending' : Below(call[u])'
      BY <1>3 DEF IInv, AllBelow, Below
    <2>2. \A a \in DOMAIN granted' : Below(granted[a])'
      BY <1>1, <1>4 DEF IInv, AllBelow, Below
    <2> QED
      BY <2>1, <2>2 DEF AllBelow
  <1>8. PendingApart'
    <2>1. \A u, v \in Pending' : u # v => Apart(call'[u], call'[v])
      BY <1>3 DEF IInv, PendingApart
    <2>2. ASSUME NEW u \in Pending', NEW a \in DOMAIN granted'
          PROVE  Apart(call'[u], granted'[a])
      BY <1>3, <1>4 DEF IInv, PendingApart
    <2> QED
      BY <2>1, <2>2 DEF PendingApart
  <1>9. NoNonceTwice'
    <2> SUFFICES ASSUME NEW a \in DOMAIN granted', NEW b \in DOMAIN granted',
                        a # b
                 PROVE  Apart(granted'[a], granted'[b])
      BY DEF NoNonceTwice
    <2>1. CASE a \in DOMAIN granted /\ granted'[a] = granted[a]
      <3>1. CASE b \in DOMAIN granted /\ granted'[b] = granted[b]
        BY <2>1, <3>1 DEF IInv, NoNonceTwice
      <3>2. CASE granted'[b] = call[t]
        <4>1. Apart(call[t], granted[a])
          BY <2>1 DEF IInv, PendingApart
        <4> QED
          BY <2>1, <3>2, <4>1 DEF Apart
      <3> QED
        BY <3>1, <3>2, <1>4
    <2>2. CASE a = Len(granted) + 1 /\ granted'[a] = call[t]
      <3>1. b \in DOMAIN granted /\ granted'[b] = granted[b]
        BY <2>2, <1>4
      <3> QED
        BY <2>2, <3>1 DEF IInv, PendingApart
    <2> QED
      BY <2>1, <2>2, <1>4
  <1>10. ChunkFits'
    BY <1>4 DEF IInv, ChunkFits
  <1>11. UsedIfMoved'
    BY <1>3 DEF IInv, UsedIfMoved
  <1>12. EndIsAnnounced'
    <2> SUFFICES ASSUME NEW j \in Indices, NEW k \in Masks,
                        used[j] = {k}, mNonces[j] > k, k \notin ended'[j]
                 PROVE  \E u \in Threads :
                          /\ pc'[u] = "decide"
                          /\ call'[u].index = j /\ call'[u].epoch = epoch[j]
                          /\ call'[u].first <= k
                          /\ k < call'[u].first + call'[u].count
      BY DEF EndIsAnnounced
    <2>1. k \notin ended[j]
      OBVIOUS
    <2>2. PICK u \in Threads :
              /\ pc[u] = "decide"
              /\ call[u].index = j /\ call[u].epoch = epoch[j]
              /\ call[u].first <= k
              /\ k < call[u].first + call[u].count
      BY <2>1 DEF IInv, EndIsAnnounced
    <2>3. u # t
      <3> SUFFICES ASSUME u = t PROVE FALSE
        OBVIOUS
      <3>1. call[t].mask \in used[call[t].index]
        BY <2>2 DEF IInv, UsedIfMoved
      <3>2. call[t].mask = k
        BY <3>1, <2>2
      <3> QED
        BY <3>2, <2>2
    <2> QED
      BY <2>2, <2>3, <1>2
  <1> QED
    BY <1>5, <1>6, <1>7, <1>8, <1>9, <1>10, <1>11, <1>12 DEF IInv

(* Nonce::reset starts a new epoch: what was taken before belongs to an older *)
(* one, and nothing of the new one is taken yet.                              *)
LEMMA ResetIInv ==
  ASSUME IInv, NEW i \in Indices, Reset(i)
  PROVE  IInv'
  <1>1. /\ epoch' \in [Indices -> Nat] /\ mNonces' \in [Indices -> Nat]
        /\ epoch'[i] = epoch[i] + 1 /\ mNonces'[i] = 0
        /\ used'[i] = {} /\ ended'[i] = {}
        /\ \A j \in Indices \ {i} : /\ epoch'[j] = epoch[j]
                                    /\ mNonces'[j] = mNonces[j]
                                    /\ used'[j] = used[j]
                                    /\ ended'[j] = ended[j]
    BY DEF Reset, IInv, TypeOK
  <1>2. Pending' = Pending /\ call' = call /\ granted' = granted /\ pc' = pc
    BY DEF Reset, Pending
  <1>3. TypeOK'
    BY <1>1 DEF Reset, IInv, TypeOK
  <1>4. PendingTyped'
    BY <1>2 DEF IInv, PendingTyped
  <1>5. ASSUME NEW c \in Chunk, Below(c)
        PROVE  Below(c)' /\ (c.epoch = epoch'[c.index] => c.index # i)
    <2>1. c.index \in Indices /\ c.epoch \in Nat /\ c.epoch <= epoch[c.index]
      BY <1>5 DEF Chunk, Below
    <2>2. epoch[c.index] \in Nat
      BY <2>1 DEF IInv, TypeOK
    <2>3. CASE c.index = i
      BY <2>1, <2>2, <2>3, <1>1 DEF Below
    <2>4. CASE c.index # i
      BY <2>1, <2>4, <1>1, <1>5 DEF Below
    <2> QED
      BY <2>3, <2>4
  <1>6. AllBelow'
    <2>1. \A t \in Pending : call[t] \in Chunk /\ Below(call[t])
      BY DEF IInv, PendingTyped, AllBelow
    <2>2. \A a \in DOMAIN granted : granted[a] \in Chunk /\ Below(granted[a])
      BY DEF IInv, TypeOK, AllBelow
    <2> QED
      BY <2>1, <2>2, <1>2, <1>5 DEF AllBelow, Below
  <1>7. PendingApart' /\ NoNonceTwice' /\ ChunkFits'
    BY <1>2 DEF IInv, PendingApart, NoNonceTwice, ChunkFits
  <1>8. UsedIfMoved'
    <2>1. \A j \in Indices : used'[j] = {} => mNonces'[j] = 0
      BY <1>1 DEF IInv, UsedIfMoved
    <2>2. ASSUME NEW t \in Pending, call[t].epoch = epoch'[call[t].index]
          PROVE  call[t].mask \in used'[call[t].index]
      <3>1. call[t] \in Chunk /\ Below(call[t]) /\ call[t].index \in Indices
        BY DEF IInv, PendingTyped, AllBelow, Chunk
      <3>2. call[t].index # i
        BY <2>2, <3>1, <1>5
      <3> QED
        BY <2>2, <3>1, <3>2, <1>1 DEF IInv, UsedIfMoved
    <2> QED
      BY <2>1, <2>2, <1>2 DEF UsedIfMoved
  <1>9. EndIsAnnounced'
    <2> SUFFICES ASSUME NEW j \in Indices, NEW k \in Masks,
                        used'[j] = {k}, mNonces'[j] > k
                 PROVE  \/ k \in ended'[j]
                        \/ \E t \in Threads :
                             /\ pc[t] = "decide"
                             /\ call[t].index = j /\ call[t].epoch = epoch'[j]
                             /\ call[t].first <= k
                             /\ k < call[t].first + call[t].count
      BY <1>2 DEF EndIsAnnounced
    <2>1. j # i
      BY <1>1
    <2> QED
      BY <2>1, <1>1 DEF IInv, EndIsAnnounced
  <1> QED
    BY <1>3, <1>4, <1>6, <1>7, <1>8, <1>9 DEF IInv

(* Every step of a mining thread and of the main thread preserves the         *)
(* inductive invariant.                                                       *)
LEMMA NextIInv == IInv /\ [Next]_vars => IInv'
  <1> SUFFICES ASSUME IInv, [Next]_vars PROVE IInv'
    OBVIOUS
  <1> USE DEF histVars
  <1>0. ASSUME NEW t \in Threads, pc[t] = "decide"
        PROVE  /\ t \in Pending /\ call[t] \in Chunk
               /\ call[t].index \in Indices /\ call[t].first \in Nat
               /\ call[t].mask \in Masks /\ call[t].mask \in Nat
               /\ call[t].count \in Reserves \ {0}
               /\ call[t].count \in Nat \ {0} /\ call[t].count <= Word
    BY <1>0, MaskAssumption, ReserveAssumption
       DEF Pending, IInv, PendingTyped, Chunk
  <1>1. ASSUME NEW t \in Threads, NEW i \in Indices, NEW r \in Reserves,
               NEW m \in Masks, Begin(t, i, r, m)
        PROVE  IInv'
    <2>1. r \in Reserves \ {0} /\ FetchAdd(t, i, r, m) /\ pc[t] # "decide"
          /\ pc' = [pc EXCEPT ![t] = "decide"]
          /\ UNCHANGED <<paused, epoch, granted, ended>>
      BY <1>1 DEF Begin
    <2> QED
      BY <2>1, FetchAddIInv
  <1>2. ASSUME NEW t \in Threads, Refuse(t) PROVE IInv'
    <2>1. /\ t \in Pending /\ Leave(t)
          /\ UNCHANGED <<mNonces, epoch, used, paused, granted, ended>>
          /\ ~(call[t].first <= call[t].mask)
      BY <1>2, <1>0 DEF Refuse, beyondMask
    <2>2. paused' \in BOOLEAN /\ ended' \in [Indices -> SUBSET Masks]
          /\ \A i \in Indices : ended[i] \subseteq ended'[i]
      BY <2>1 DEF IInv, TypeOK
    <2>3. UNCHANGED <<mNonces, epoch, used>> /\ granted' = granted
      BY <2>1
    <2> QED
      BY <2>1, <2>2, <2>3, LeaveIInv
  <1>3. ASSUME NEW t \in Threads, End(t) PROVE IInv'
    <2> DEFINE c == call[t]
    <2>1. /\ t \in Pending /\ Leave(t) /\ pc[t] = "decide"
          /\ UNCHANGED <<mNonces, epoch, used>>
          /\ paused' \in BOOLEAN
      BY <1>3, <1>0 DEF End
    <2>2. /\ c.index \in Indices /\ c.first \in Nat /\ c.mask \in Nat
          /\ c.mask \in Masks /\ c.count \in Nat \ {0} /\ c.count <= Word
      BY <2>1, <1>0
    <2>3. \/ granted' = granted
          \/ granted' = Append(granted, c) /\ ~overMask(c)
      BY <1>3 DEF End
    <2>4. ~beyondMask(c) /\ reachesMask(c)
      BY <1>3 DEF End
    <2>5. ~overMask(c) => c.first + c.count = c.mask + 1
      BY <2>2, <2>4 DEF beyondMask, reachesMask, overMask
    <2>6. ~overMask(c) => /\ c.first + c.count - 1 <= c.mask
                          /\ (c.first % Word) + c.count <= Word
      BY <2>2, <2>5, LastChunkInWord
    <2>7. /\ ended' \in [Indices -> SUBSET Masks]
          /\ \A i \in Indices : ended[i] \subseteq ended'[i]
          /\ c.epoch = epoch[c.index] => c.mask \in ended'[c.index]
      BY <1>3, <2>2 DEF End, IInv, TypeOK
    <2> QED
      BY <2>1, <2>3, <2>6, <2>7, LeaveIInv
  <1>4. ASSUME NEW t \in Threads, Retry(t) PROVE IInv'
    <2> DEFINE c == call[t]
    <2>1. /\ pc[t] = "decide" /\ FetchAdd(t, c.index, c.count, c.mask)
          /\ UNCHANGED <<pc, paused, epoch, granted, ended>>
          /\ ~beyondMask(c) /\ ~reachesMask(c)
      BY <1>4 DEF Retry
    <2>2. /\ c.index \in Indices /\ c.first \in Nat /\ c.mask \in Nat
          /\ c.mask \in Masks /\ c.count \in Reserves \ {0} /\ c.count \in Nat
      BY <2>1, <1>0
    <2>3. c.first + c.count <= c.mask
      BY <2>1, <2>2 DEF beyondMask, reachesMask
    <2>4. pc' = [pc EXCEPT ![t] = "decide"]
      BY <2>1 DEF IInv, TypeOK
    <2> QED
      BY <2>1, <2>2, <2>3, <2>4, FetchAddIInv
  <1>5. ASSUME NEW t \in Threads, Grant(t) PROVE IInv'
    <2> DEFINE c == call[t]
    <2>1. /\ t \in Pending /\ Leave(t) /\ pc[t] = "decide"
          /\ UNCHANGED <<mNonces, epoch, used, paused, ended>>
          /\ granted' = Append(granted, c)
          /\ ~beyondMask(c) /\ ~reachesMask(c) /\ ~wrapsWord(c)
      BY <1>5, <1>0 DEF Grant
    <2>2. /\ c.index \in Indices /\ c.first \in Nat /\ c.mask \in Nat
          /\ c.count \in Nat \ {0}
      BY <2>1, <1>0
    <2>3. c.first + c.count <= c.mask
      BY <2>1, <2>2 DEF beyondMask, reachesMask
    <2>4. (c.first % Word) + c.count <= Word
      <3>1. c.first % Word \in Nat
        BY <2>2, ModRange
      <3> QED
        BY <2>1, <2>2, <3>1, WordAssumption DEF wrapsWord
    <2>5. /\ paused' \in BOOLEAN /\ ended' \in [Indices -> SUBSET Masks]
          /\ \A i \in Indices : ended[i] \subseteq ended'[i]
      BY <2>1 DEF IInv, TypeOK
    <2>6. c.first + c.count - 1 <= c.mask /\ ~(c.mask < c.first + c.count)
      BY <2>2, <2>3
    <2>7. UNCHANGED <<mNonces, epoch, used>>
      BY <2>1
    <2> QED
      BY <2>1, <2>4, <2>5, <2>6, <2>7, LeaveIInv
  <1>6. ASSUME paused' \in BOOLEAN, UNCHANGED <<mNonces, pc, call, histVars>>
        PROVE  IInv'
    <2>1. Pending' = Pending
      BY <1>6 DEF Pending
    <2>2. TypeOK'
      BY <1>6 DEF IInv, TypeOK
    <2>3. PendingTyped' /\ UsedIfMoved'
      BY <1>6, <2>1 DEF IInv, PendingTyped, UsedIfMoved
    <2>4. AllBelow'
      BY <1>6, <2>1 DEF IInv, AllBelow, Below
    <2>5. PendingApart' /\ NoNonceTwice' /\ ChunkFits'
      BY <1>6, <2>1 DEF IInv, PendingApart, NoNonceTwice, ChunkFits
    <2>6. EndIsAnnounced'
      BY <1>6 DEF IInv, EndIsAnnounced
    <2> QED
      BY <2>2, <2>3, <2>4, <2>5, <2>6 DEF IInv
  <1>7. ASSUME NEW b \in BOOLEAN, Pause(b) PROVE IInv'
    BY <1>6, <1>7 DEF Pause
  <1>8. CASE UNCHANGED vars
    BY <1>6, <1>8 DEF vars, allocVars, IInv, TypeOK
  <1> QED
    BY <1>1, <1>2, <1>3, <1>4, <1>5, <1>7, <1>8, ResetIInv DEF Next, Thread

-----------------------------------------------------------------------------
(* IInv is an invariant of the allocator.                                     *)
THEOREM IInvHolds == Spec => []IInv
  BY InitIInv, NextIInv, PTL DEF Spec

(* The allocator's variables always have their types.                         *)
THEOREM TypeCorrect == Spec => []TypeOK
  <1>1. IInv => TypeOK
    BY DEF IInv
  <1> QED
    BY <1>1, IInvHolds, PTL

(* Nonce::next hands no nonce out twice between two resets of its counter,    *)
(* for any number of threads and any mix of chunk sizes and masks.            *)
THEOREM NoncesDisjoint == Spec => []NoNonceTwice
  <1>1. IInv => NoNonceTwice
    BY DEF IInv
  <1> QED
    BY <1>1, IInvHolds, PTL

(* Every chunk Nonce::next hands out lies within the mask and one 32-bit word *)
THEOREM ChunksFit == Spec => []ChunkFits
  <1>1. IInv => ChunkFits
    BY DEF IInv
  <1> QED
    BY <1>1, IInvHolds, PTL

(* A counter does not pass the end of the nonce space without a pause(true)   *)
(* made, or about to be made, by the call whose chunk covered the end.        *)
THEOREM EndAnnounced == Spec => []EndIsAnnounced
  <1>1. IInv => EndIsAnnounced
    BY DEF IInv
  <1> QED
    BY <1>1, IInvHolds, PTL
=============================================================================
