-------------------------------- MODULE Nonce --------------------------------
(* The nonce allocator, Nonce::next and Nonce::reset                          *)
(* (src/crypto/common/Nonce.{h,cpp}): threads of every backend take chunks of *)
(* consecutive nonces from one atomic counter per job index (0 the user's     *)
(* job, 1 the donation's) while the main thread resets a counter for a new    *)
(* job.  A call of next() reads or writes shared memory several times; each   *)
(* access is a step.  The per-backend sequence numbers of the same class are  *)
(* in module Mining, where they matter.                                       *)

EXTENDS Naturals, Sequences

CONSTANTS Threads,     \* mining threads
          Indices,     \* job indices: {0, 1}
          Masks,       \* nonce masks jobs carry (Job::nonceMask), 63 bits
          Reserves,    \* reserveCount of the callers: 32768, GPU intensities
          Word,        \* 2^32: what (uint32_t)counter wraps at
          MaxCounter,  \* bound: no call starts once the counter is above this
          MaxEpoch     \* bound: resets per index

(* A mask is all ones, so with more than one word it fills whole words; a     *)
(* chunk never exceeds a word because reserveCount is a uint32_t.             *)
ASSUME WordAssumption == Word \in Nat \ {0}
ASSUME MaskAssumption ==
    /\ Masks \subseteq Nat
    /\ \A m \in Masks : m < Word \/ (m + 1) % Word = 0
ASSUME ReserveAssumption ==
    /\ Reserves \subseteq Nat
    /\ \A r \in Reserves : r <= Word
ASSUME BoundAssumption == MaxCounter \in Nat /\ MaxEpoch \in Nat

VARIABLES
    mNonces,    \* m_nonces[index]
    paused,     \* m_paused
    pc,         \* per thread: outside next(), or holding a fetched counter
    call,       \* per thread: the arguments of its next() and its `counter'
    \* history
    epoch,      \* resets so far, per index
    granted,    \* the chunks next() returned true for, in order
    used,       \* masks the calls of the current epoch came with, per index
    ended       \* those of them whose end made a call pause mining

allocVars == <<mNonces, paused, pc, call>>
histVars  == <<epoch, granted, used, ended>>
vars      == <<allocVars, histVars>>

Chunk == [index : Indices, epoch : Nat, first : Nat, count : Nat, mask : Nat]

Nowhere == [index |-> 0, epoch |-> 0, first |-> 0, count |-> 0, mask |-> 0]

TypeOK ==
    /\ mNonces \in [Indices -> Nat]
    /\ paused \in BOOLEAN
    /\ pc \in [Threads -> {"out", "decide"}]
    /\ call \in [Threads -> Chunk \cup {Nowhere}]
    /\ epoch \in [Indices -> Nat]
    /\ granted \in Seq(Chunk)
    /\ used \in [Indices -> SUBSET Masks]
    /\ ended \in [Indices -> SUBSET Masks]

Init ==
    /\ mNonces = [i \in Indices |-> 0]
    /\ paused = TRUE
    /\ pc = [t \in Threads |-> "out"]
    /\ call = [t \in Threads |-> Nowhere]
    /\ epoch = [i \in Indices |-> 0]
    /\ granted = <<>>
    /\ used = [i \in Indices |-> {}]
    /\ ended = [i \in Indices |-> {}]

-----------------------------------------------------------------------------
(* Slip in FetchAdd: one nonce too few is taken.                              *)
FetchAddShort(t, i, r, m) ==
    /\ call' = [call EXCEPT ![t] = [index |-> i, epoch |-> epoch[i],
                                    first |-> mNonces[i], count |-> r,
                                    mask  |-> m]]
    /\ mNonces' = [mNonces EXCEPT ![i] = @ + r - 1]
    /\ used' = [used EXCEPT ![i] = @ \cup {m}]

(* m_nonces[index].fetch_add(reserveCount), the result kept in `counter'      *)
FetchAdd(t, i, r, m) ==
    /\ call' = [call EXCEPT ![t] = [index |-> i, epoch |-> epoch[i],
                                    first |-> mNonces[i], count |-> r,
                                    mask  |-> m]]
    /\ mNonces' = [mNonces EXCEPT ![i] = @ + r]
    /\ used' = [used EXCEPT ![i] = @ \cup {m}]

(* next() up to the first fetch_add: a chunk of nothing, or one larger than   *)
(* the whole space, is refused before anything is taken.                      *)
Begin(t, i, r, m) ==
    /\ pc[t] = "out"
    /\ r # 0 /\ r - 1 <= m
    /\ mNonces[i] <= MaxCounter
    /\ FetchAdd(t, i, r, m)
    /\ pc' = [pc EXCEPT ![t] = "decide"]
    /\ UNCHANGED <<paused, epoch, granted, ended>>

(* next() returns: its locals are gone                                        *)
Leave(t) ==
    /\ pc' = [pc EXCEPT ![t] = "out"]
    /\ call' = [call EXCEPT ![t] = Nowhere]

(* Slips in the tests: only a chunk that ends exactly at the mask pauses; the *)
(* wrap test is one off.                                                      *)
endsAtMask(c)  == c.mask - c.first = c.count - 1
wrapsLate(c)   == Word - (c.first % Word) < c.count - 1

(* The tests in the loop of next() on `counter'                               *)
beyondMask(c)  == c.mask < c.first
reachesMask(c) == c.mask - c.first <= c.count - 1
overMask(c)    == c.mask - c.first < c.count - 1
wrapsWord(c)   == (Word - 1) - (c.first % Word) < c.count - 1

(* return false: the counter is beyond the mask                               *)
Refuse(t) ==
    /\ pc[t] = "decide"
    /\ beyondMask(call[t])
    /\ Leave(t)
    /\ UNCHANGED <<mNonces, paused, histVars>>

(* The chunk reaches the end of the space: mining is paused for everybody;    *)
(* the chunk is granted if it ends exactly there.                             *)
End(t) ==
    LET c == call[t] IN
    /\ pc[t] = "decide"
    /\ ~beyondMask(c) /\ reachesMask(c)
    /\ paused' = TRUE
    /\ Leave(t)
    /\ granted' = IF overMask(c) THEN granted ELSE Append(granted, c)
    /\ ended' = IF c.epoch = epoch[c.index]
                THEN [ended EXCEPT ![c.index] = @ \cup {c.mask}] ELSE ended
    /\ UNCHANGED <<mNonces, epoch, used>>

(* The chunk would carry out of the low 32 bits, which is all the worker      *)
(* increments: it is dropped and another one fetched.                         *)
Retry(t) ==
    LET c == call[t] IN
    /\ pc[t] = "decide"
    /\ ~beyondMask(c) /\ ~reachesMask(c) /\ wrapsWord(c)
    /\ FetchAdd(t, c.index, c.count, c.mask)
    /\ UNCHANGED <<pc, paused, epoch, granted, ended>>

(* return true with the chunk                                                 *)
Grant(t) ==
    LET c == call[t] IN
    /\ pc[t] = "decide"
    /\ ~beyondMask(c) /\ ~reachesMask(c) /\ ~wrapsWord(c)
    /\ granted' = Append(granted, c)
    /\ Leave(t)
    /\ UNCHANGED <<mNonces, paused, epoch, used, ended>>

(* Nonce::reset(index), by handleJobChange() on the main thread               *)
Reset(i) ==
    /\ epoch[i] < MaxEpoch
    /\ mNonces' = [mNonces EXCEPT ![i] = 0]
    /\ epoch' = [epoch EXCEPT ![i] = @ + 1]
    /\ used' = [used EXCEPT ![i] = {}]
    /\ ended' = [ended EXCEPT ![i] = {}]
    /\ UNCHANGED <<paused, pc, call, granted>>

(* Nonce::pause(paused), by the main thread                                   *)
Pause(b) ==
    /\ paused' = b
    /\ UNCHANGED <<mNonces, pc, call, histVars>>

Thread(t) ==
    \/ \E i \in Indices, r \in Reserves, m \in Masks : Begin(t, i, r, m)
    \/ Refuse(t)
    \/ End(t)
    \/ Retry(t)
    \/ Grant(t)

Next ==
    \/ \E t \in Threads : Thread(t)
    \/ \E i \in Indices : Reset(i)
    \/ \E b \in BOOLEAN : Pause(b)

Spec == Init /\ [][Next]_vars

-----------------------------------------------------------------------------
(* Properties                                                                 *)

(* Two chunks of the same counter, taken since the same reset, share no nonce *)
Apart(c, d) ==
    c.index = d.index /\ c.epoch = d.epoch =>
        c.first + c.count <= d.first \/ d.first + d.count <= c.first

(* Safety: no nonce is handed out twice between two resets, whatever chunk    *)
(* sizes and masks the callers of Nonce::next mix and however their calls     *)
(* interleave with each other and with Nonce::reset.                          *)
NoNonceTwice ==
    \A a, b \in DOMAIN granted : a # b => Apart(granted[a], granted[b])

(* Safety: a chunk for which Nonce::next returns true lies within the job's   *)
(* nonce space and within one 32-bit word, so WorkerJob::nextRound may count  *)
(* through it with a 32-bit add.                                              *)
ChunkFits ==
    \A a \in DOMAIN granted :
        LET c == granted[a] IN
        /\ c.first + c.count - 1 <= c.mask
        /\ (c.first % Word) + c.count <= Word

(* Safety: the nonce space never runs out in silence.  When the counter is    *)
(* past the mask that all calls since the reset came with, one of them has    *)
(* paused mining, or is about to: a large chunk, or one dropped at a word     *)
(* boundary, cannot step over the end unnoticed.                              *)
EndIsAnnounced ==
    \A i \in Indices, m \in Masks :
        used[i] = {m} /\ mNonces[i] > m =>
            \/ m \in ended[i]
            \/ \E t \in Threads :
                 /\ pc[t] = "decide"
                 /\ call[t].index = i /\ call[t].epoch = epoch[i]
                 /\ call[t].first <= m /\ m < call[t].first + call[t].count
=============================================================================
