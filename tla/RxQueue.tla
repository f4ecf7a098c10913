------------------------------- MODULE RxQueue -------------------------------
(* The RandomX dataset queue: RxQueue and RxBasicStorage                      *)
(* (src/crypto/rx/), driven by Miner::setJob and Miner::onDatasetReady        *)
(* (src/core/Miner.cpp) on the main thread.                                   *)
(*                                                                            *)
(* Two threads: the main thread (the libuv loop) and the background thread of *)
(* the queue.  Everything done under m_mutex without blocking is one step;    *)
(* what happens between an unlock and the next lock is a step of its own, so  *)
(* a build, a request, a wake-up and the notice to the loop interleave as in  *)
(* the program.                                                               *)

EXTENDS Naturals, Sequences

CONSTANTS Seeds,      \* (algorithm, seed hash) pairs of RandomX jobs
          NoSeed,     \* the default-constructed RxSeed, equal to no job's
          MaxQueue    \* bound: requests waiting while one build runs

ASSUME SeedAssumption  == NoSeed \notin Seeds
ASSUME QueueAssumption == MaxQueue \in Nat \ {0}

VARIABLES
    \* members of RxQueue
    mState,           \* m_state
    mSeed,            \* m_seed
    mQueue,           \* m_queue
    hasStorage,       \* m_storage # nullptr
    asyncSent,        \* m_async was sent and the loop has not run it yet
    \* members of RxBasicStorage
    dsMem,            \* m_dataset: none, without a cache, freed, allocated
    stSeed,           \* its m_seed
    stReady,          \* its m_ready
    \* the background thread
    bg,               \* where backgroundInit() is
    item,             \* its local `item'
    \* the main thread
    main,             \* where the main thread is
    jobSeed,          \* the seed of Miner's current job
    mining            \* the seed handleJobChange() last ran for, NoSeed if
                      \* the current job still waits for its dataset

queueVars   == <<mState, mSeed, mQueue, hasStorage, asyncSent>>
storageVars == <<dsMem, stSeed, stReady>>
bgVars      == <<bg, item>>
mainVars    == <<main, jobSeed, mining>>
vars        == <<queueVars, storageVars, bgVars, mainVars>>

SeedOrNone == Seeds \cup {NoSeed}

TypeOK ==
    /\ mState \in {"IDLE", "PENDING", "SHUTDOWN"}
    /\ mSeed \in SeedOrNone
    /\ mQueue \in Seq(Seeds)
    /\ hasStorage \in BOOLEAN
    /\ asyncSent \in BOOLEAN
    /\ dsMem \in {"none", "nocache", "freed", "allocated"}
    /\ stSeed \in SeedOrNone
    /\ stReady \in BOOLEAN
    /\ bg \in {"loop", "lock", "wait", "setSeed", "create", "free", "clear",
               "build", "finish", "exit"}
    /\ item \in SeedOrNone
    /\ main \in {"loop", "enqueue", "notify", "listener", "shutdown", "join",
                 "dead"}
    /\ jobSeed \in SeedOrNone
    /\ mining \in SeedOrNone

Init ==
    /\ mState = "IDLE" /\ mSeed = NoSeed /\ mQueue = <<>>
    /\ hasStorage = FALSE /\ asyncSent = FALSE
    /\ dsMem = "none" /\ stSeed = NoSeed /\ stReady = FALSE
    /\ bg = "loop" /\ item = NoSeed
    /\ main = "loop" /\ jobSeed = NoSeed /\ mining = NoSeed

-----------------------------------------------------------------------------
(* What a caller sees, under m_mutex.                                         *)

(* RxBasicStorage::isAllocated().  The call reads m_dataset while the         *)
(* background thread may be deleting it; whatever it returns then is          *)
(* discarded because m_state is not IDLE (see FreedWhilePending).             *)
isAllocated == dsMem = "allocated"

(* RxQueue::isReadyUnsafe(seed)                                               *)
isReadyUnsafe(s) ==
    /\ hasStorage
    /\ isAllocated
    /\ mState = "IDLE"
    /\ mSeed = s

(* RxQueue::dataset(job): a pointer, or nullptr                               *)
hasDataset(s) == isReadyUnsafe(s) /\ stReady /\ stSeed = s

-----------------------------------------------------------------------------
(* The main thread                                                            *)

(* Miner::setJob for a job of another family: Rx::init returns true at once   *)
(* and the queue is not told.                                                 *)
SetJobOther ==
    /\ main = "loop"
    /\ jobSeed' = NoSeed
    /\ mining' = NoSeed
    /\ UNCHANGED <<main, queueVars, storageVars, bgVars>>

(* Miner::setJob up to Rx::init's own isReady(): if the dataset is there,     *)
(* handleJobChange() runs, otherwise Rx::init goes on to enqueue.             *)
SetJob(s) ==
    /\ main = "loop"
    /\ jobSeed' = s
    /\ IF isReadyUnsafe(s) THEN mining' = s /\ main' = main
                           ELSE mining' = NoSeed /\ main' = "enqueue"
    /\ UNCHANGED <<queueVars, storageVars, bgVars>>

(* Slip in enqueue(): no notify_one().                                        *)
EnqueueNoNotify ==
    /\ main = "enqueue"
    /\ main' = "loop"
    /\ hasStorage' = TRUE
    /\ IF mState = "PENDING" /\ mSeed = jobSeed
       THEN UNCHANGED <<mQueue, mSeed, mState>>
       ELSE /\ Len(mQueue) < MaxQueue
            /\ mQueue' = Append(mQueue, jobSeed)
            /\ mSeed' = jobSeed
            /\ mState' = "PENDING"
    /\ UNCHANGED <<asyncSent, storageVars, bgVars, jobSeed, mining>>

(* RxQueue::enqueue, a second acquisition of the mutex: the background thread *)
(* may have finished in between.  A request for what is already being built   *)
(* returns without a notify.                                                  *)
Enqueue ==
    /\ main = "enqueue"
    /\ hasStorage' = TRUE
    /\ IF mState = "PENDING" /\ mSeed = jobSeed
       THEN /\ main' = "loop"
            /\ UNCHANGED <<mQueue, mSeed, mState>>
       ELSE /\ Len(mQueue) < MaxQueue
            /\ mQueue' = Append(mQueue, jobSeed)
            /\ mSeed' = jobSeed
            /\ mState' = "PENDING"
            /\ main' = "notify"
    /\ UNCHANGED <<asyncSent, storageVars, bgVars, jobSeed, mining>>

(* m_cv.notify_one(): wakes the background thread if it waits, else is lost.  *)
Notify(from, to) ==
    /\ main = from
    /\ main' = to
    /\ bg' = IF bg = "wait" THEN "lock" ELSE bg
    /\ UNCHANGED <<queueVars, storageVars, item, jobSeed, mining>>

(* Slip in ~RxQueue: no notify_one() before join().                           *)
ShutdownNoNotify ==
    /\ main = "shutdown"
    /\ main' = "join"
    /\ UNCHANGED <<queueVars, storageVars, bgVars, jobSeed, mining>>

NotifyEnqueue  == Notify("notify", "loop")
NotifyShutdown == Notify("shutdown", "join")

(* RxQueue::onReady, run by the loop for the async: it looks at m_state under *)
(* the mutex and then calls the listener without it.                          *)
OnReady ==
    /\ main = "loop"
    /\ asyncSent
    /\ asyncSent' = FALSE
    /\ main' = IF mState = "IDLE" THEN "listener" ELSE "loop"
    /\ UNCHANGED <<mState, mSeed, mQueue, hasStorage, storageVars, bgVars,
                   jobSeed, mining>>

(* Miner::onDatasetReady                                                      *)
OnDatasetReady ==
    /\ main = "listener"
    /\ main' = "loop"
    /\ mining' = IF isReadyUnsafe(jobSeed) THEN jobSeed ELSE mining
    /\ UNCHANGED <<queueVars, storageVars, bgVars, jobSeed>>

(* ~RxQueue: SHUTDOWN under the mutex, notify, join, delete m_storage         *)
Shutdown ==
    /\ main = "loop"
    /\ mState' = "SHUTDOWN"
    /\ main' = "shutdown"
    /\ UNCHANGED <<mSeed, mQueue, hasStorage, asyncSent, storageVars, bgVars,
                   jobSeed, mining>>

Join ==
    /\ main = "join"
    /\ bg = "exit"
    /\ main' = "dead"
    /\ hasStorage' = FALSE
    /\ dsMem' = "none"
    /\ stReady' = FALSE
    /\ UNCHANGED <<mState, mSeed, mQueue, asyncSent, stSeed, bgVars, jobSeed,
                   mining>>

-----------------------------------------------------------------------------
(* The background thread: RxQueue::backgroundInit                             *)

(* while (m_state != STATE_SHUTDOWN), read without the mutex                  *)
BgLoop ==
    /\ bg = "loop"
    /\ bg' = IF mState = "SHUTDOWN" THEN "exit" ELSE "lock"
    /\ UNCHANGED <<queueVars, storageVars, item, mainVars>>

(* The newest item of the queue, or nothing while it is empty                 *)
newestItem == mQueue[Len(mQueue)]

(* Slips in backgroundInit(): the oldest item is taken; the queue is marked   *)
(* IDLE as soon as it is empty.                                               *)
BgTakeOldest ==
    /\ bg = "lock"
    /\ mState = "PENDING"
    /\ item' = Head(mQueue)
    /\ mQueue' = <<>>
    /\ bg' = "setSeed"
    /\ UNCHANGED <<mState, mSeed, hasStorage, asyncSent, storageVars, mainVars>>

BgTakeIdle ==
    /\ bg = "lock"
    /\ mState = "PENDING"
    /\ item' = newestItem
    /\ mQueue' = <<>>
    /\ mState' = "IDLE"
    /\ bg' = "setSeed"
    /\ UNCHANGED <<mSeed, hasStorage, asyncSent, storageVars, mainVars>>

(* Under the mutex: wait while IDLE, retry on SHUTDOWN, else take the newest  *)
(* item and drop the rest.                                                    *)
BgTake ==
    /\ bg = "lock"
    /\ \/ /\ mState = "IDLE"
          /\ bg' = "wait"
          /\ UNCHANGED <<mQueue, item>>
       \/ /\ mState = "SHUTDOWN"
          /\ bg' = "loop"
          /\ UNCHANGED <<mQueue, item>>
       \/ /\ mState = "PENDING"
          /\ item' = newestItem
          /\ mQueue' = <<>>
          /\ bg' = "setSeed"
    /\ UNCHANGED <<mState, mSeed, hasStorage, asyncSent, storageVars, mainVars>>

(* A condition variable may wake with no notify; the predicate is read again. *)
SpuriousWake ==
    /\ bg = "wait"
    /\ bg' = "lock"
    /\ UNCHANGED <<queueVars, storageVars, item, mainVars>>

(* RxBasicStorage::init, first setSeed()                                      *)
BgSetSeed ==
    /\ bg = "setSeed"
    /\ stReady' = FALSE
    /\ stSeed' = item
    /\ bg' = IF dsMem = "none" THEN "create" ELSE "build"
    /\ UNCHANGED <<dsMem, queueVars, item, mainVars>>

(* createDataset(): with a cache, or the allocation fails ...                 *)
BgCreate ==
    /\ bg = "create"
    /\ \/ dsMem' = "allocated" /\ bg' = "build"
       \/ dsMem' = "nocache" /\ bg' = "free"
    /\ UNCHANGED <<stSeed, stReady, queueVars, item, mainVars>>

(* ... and deleteDataset() frees the object, then clears the pointer          *)
BgFree ==
    /\ bg = "free"
    /\ dsMem' = "freed"
    /\ bg' = "clear"
    /\ UNCHANGED <<stSeed, stReady, queueVars, item, mainVars>>

BgClear ==
    /\ bg = "clear"
    /\ dsMem' = "none"
    /\ bg' = "finish"
    /\ UNCHANGED <<stSeed, stReady, queueVars, item, mainVars>>

(* initDataset(): RxDataset::init fails only without a cache                  *)
BgBuild ==
    /\ bg = "build"
    /\ stReady' = (dsMem = "allocated")
    /\ bg' = "finish"
    /\ UNCHANGED <<dsMem, stSeed, queueVars, item, mainVars>>

(* Slips after init(): m_queue is not looked at again; nor is m_seed set; no  *)
(* async is sent.                                                             *)
BgFinishForgetsQueue ==
    /\ bg = "finish"
    /\ bg' = "loop"
    /\ IF mState = "SHUTDOWN"
       THEN UNCHANGED <<mSeed, mState, asyncSent>>
       ELSE mSeed' = item /\ mState' = "IDLE" /\ asyncSent' = TRUE
    /\ UNCHANGED <<mQueue, hasStorage, item, storageVars, mainVars>>

BgFinishForgetsSeed ==
    /\ bg = "finish"
    /\ bg' = "loop"
    /\ IF mState = "SHUTDOWN"
       THEN UNCHANGED <<mState, asyncSent>>
       ELSE mState' = "IDLE" /\ asyncSent' = TRUE
    /\ UNCHANGED <<mSeed, mQueue, hasStorage, item, storageVars, mainVars>>

BgFinishSilent ==
    /\ bg = "finish"
    /\ bg' = "loop"
    /\ IF mState = "SHUTDOWN" \/ mQueue # <<>>
       THEN UNCHANGED <<mSeed, mState>>
       ELSE mSeed' = item /\ mState' = "IDLE"
    /\ UNCHANGED <<mQueue, hasStorage, asyncSent, item, storageVars, mainVars>>

(* Under the mutex again: shut down or start over if something was queued     *)
(* meanwhile, else publish the result and tell the loop.                      *)
BgFinish ==
    /\ bg = "finish"
    /\ bg' = "loop"
    /\ IF mState = "SHUTDOWN" \/ mQueue # <<>>
       THEN UNCHANGED <<mSeed, mState, asyncSent>>
       ELSE /\ mSeed' = item
            /\ mState' = "IDLE"
            /\ asyncSent' = TRUE
    /\ UNCHANGED <<mQueue, hasStorage, item, storageVars, mainVars>>

-----------------------------------------------------------------------------
Main ==
    \/ SetJobOther
    \/ \E s \in Seeds : SetJob(s)
    \/ Enqueue
    \/ NotifyEnqueue
    \/ OnReady
    \/ OnDatasetReady
    \/ Shutdown
    \/ NotifyShutdown
    \/ Join

Background ==
    \/ BgLoop
    \/ BgTake
    \/ BgSetSeed
    \/ BgCreate
    \/ BgFree
    \/ BgClear
    \/ BgBuild
    \/ BgFinish

Next == Main \/ Background \/ SpuriousWake

(* The operating system runs the background thread; the main thread finishes  *)
(* the handler it is in and the loop dispatches a sent async.  No job and no  *)
(* shutdown ever has to come.                                                 *)
Fairness ==
    /\ WF_vars(Background)
    /\ WF_vars(Enqueue) /\ WF_vars(NotifyEnqueue)
    /\ SF_vars(OnReady) /\ WF_vars(OnDatasetReady)
    /\ WF_vars(NotifyShutdown) /\ WF_vars(Join)

Spec     == Init /\ [][Next]_vars
FairSpec == Spec /\ Fairness
-----------------------------------------------------------------------------
(* Properties                                                                 *)

(* While the background thread writes the storage it is inside init().        *)
Building == bg \in {"setSeed", "create", "free", "clear", "build"}

(* Safety: a seed RxQueue::isReady() confirms (the test Miner starts mining   *)
(* on) is one RxQueue::dataset() really hands out, so no worker spins in      *)
(* allocateRandomX_VM for a dataset that will not come; and nobody is writing *)
(* the storage at that moment.                                                *)
ReadyIsBuilt ==
    \A s \in Seeds : isReadyUnsafe(s) => hasDataset(s) /\ ~Building

(* Safety: the newest request is never lost.  While the queue is PENDING, the *)
(* seed asked for last is the last one queued, or else the one the background *)
(* thread is building, whatever was coalesced, restarted or asked twice.      *)
PendingIsOwed ==
    mState = "PENDING" =>
        \/ mQueue # <<>> /\ newestItem = mSeed
        \/ mQueue = <<>> /\ (Building \/ bg = "finish") /\ item = mSeed

(* Safety: no lost wake-up.  The background thread sleeps on a queue that is  *)
(* not IDLE only until the notify that the main thread is about to send; with *)
(* the predicate of m_cv.wait read under the mutex no notify can fall in      *)
(* between.                                                                   *)
NoLostWakeup ==
    bg = "wait" /\ mState # "IDLE" => main \in {"notify", "shutdown"}

(* Safety: isAllocated() is evaluated before m_state in isReadyUnsafe, so it  *)
(* can read the dataset object while a failed createDataset() deletes it.     *)
(* That window exists only while m_state is not IDLE, so the answer is false  *)
(* whatever was read.                                                         *)
FreedWhilePending ==
    dsMem \in {"nocache", "freed"} => mState # "IDLE"

(* Safety: no lost notice.  When the main thread is back in its loop and the  *)
(* current job's dataset is ready but mining was not started for it, the      *)
(* async that will start it is still pending.                                 *)
NoLostNotice ==
    main = "loop" /\ isReadyUnsafe(jobSeed) /\ mining # jobSeed => asyncSent

(* The abstract service, with the newest request in m_seed.                   *)
Service == INSTANCE DatasetService WITH
               latest <- mSeed,
               busy   <- mState = "PENDING",
               served <- IF hasDataset(mSeed) THEN mSeed ELSE NoSeed,
               notice <- asyncSent

(* Refinement: the threads, the queue and the storage together behave as the  *)
(* dataset service: only the newest seed is served, it stays served until the *)
(* next enqueue(), and each build that ends the work leaves a notice.         *)
ImplementsService == Service!ServiceSpec

(* Liveness: a job's dataset is not waited for forever: unless another job or *)
(* the shutdown comes, handleJobChange() runs for it, or memory for it could  *)
(* not be allocated.  Excepted is the run in which every build ends exactly   *)
(* between isReady() and enqueue() of yet another job with the same seed:     *)
(* Rx::init takes the mutex twice, so that job starts the build over, without *)
(* end if jobs keep falling into that window.                                 *)
JobIsServed ==
    \/ []<>(main = "enqueue")
    \/ \A s \in Seeds :
          jobSeed = s ~> \/ mining = s
                         \/ jobSeed # s
                         \/ mState = "IDLE" /\ dsMem = "none"
                         \/ mState = "SHUTDOWN"

(* Liveness: ~RxQueue does not hang in join(), wherever the background thread *)
(* was when SHUTDOWN was set.                                                 *)
ShutdownEnds == main = "shutdown" ~> main = "dead"
=============================================================================
