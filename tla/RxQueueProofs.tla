--------------------------- MODULE RxQueueProofs ---------------------------
(* Proofs about RxQueue for every set of seeds and every queue bound: type    *)
(* correctness, the safety invariants, and the refinement of DatasetService.  *)
EXTENDS RxQueue, TLAPS

(* The inductive invariant.  The parts the properties do not name say where   *)
(* the background thread can be in each m_state, and what each of its program *)
(* points knows about the storage.                                            *)

(* IDLE: no work is queued and the background thread is between two rounds.   *)
IdleIsQuiet ==
    mState = "IDLE" => mQueue = <<>> /\ bg \in {"loop", "lock", "wait"}

(* The storage as each program point of the background thread finds it.       *)
StorageAtPoint ==
    /\ bg \in {"loop", "lock", "wait", "setSeed", "finish", "exit"}
           => dsMem \in {"none", "allocated"}
    /\ bg = "create" => dsMem = "none"
    /\ bg = "free"   => dsMem = "nocache"
    /\ bg = "clear"  => dsMem = "freed"
    /\ bg = "build"  => dsMem = "allocated"
    /\ bg \in {"create", "free", "clear", "build", "finish"} => stSeed = item
    /\ bg \in {"create", "free", "clear", "build"} => ~stReady
    /\ bg = "finish" => (stReady <=> dsMem = "allocated")
    /\ Building \/ bg = "finish" => item \in Seeds

(* A finished build is the one m_seed names.                                  *)
IdleIsBuilt ==
    mState = "IDLE" /\ dsMem = "allocated" => stReady /\ stSeed = mSeed

(* Only the destructor sets SHUTDOWN, and only then does the thread end.      *)
ShutdownIsMain ==
    /\ mState = "SHUTDOWN" <=> main \in {"shutdown", "join", "dead"}
    /\ bg = "exit" => mState = "SHUTDOWN"
    /\ main = "enqueue" => jobSeed \in Seeds

(* NoLostNotice also while enqueue() still has its notify to send.            *)
NoticeAhead ==
    main \in {"loop", "notify"} /\ isReadyUnsafe(jobSeed) /\ mining # jobSeed
        => asyncSent

IInv ==
    /\ TypeOK
    /\ PendingIsOwed
    /\ IdleIsQuiet
    /\ StorageAtPoint
    /\ IdleIsBuilt
    /\ ShutdownIsMain
    /\ NoLostWakeup
    /\ NoticeAhead

(* The queue after clear(), and the item back() takes from a queue that is    *)
(* not empty.                                                                 *)
LEMMA QueueFacts ==
  /\ <<>> \in Seq(Seeds)
  /\ \A q \in Seq(Seeds) : q # <<>> => q[Len(q)] \in Seeds
  OBVIOUS

(* The initial state of RxQueue satisfies the inductive invariant.            *)
LEMMA InitIInv == Init => IInv
  <1> SUFFICES ASSUME Init PROVE IInv
    OBVIOUS
  <1> USE SeedAssumption DEF Init, Building, isReadyUnsafe, isAllocated, SeedOrNone
  <1>1. TypeOK
    BY QueueFacts DEF TypeOK
  <1>2. PendingIsOwed
    BY DEF PendingIsOwed
  <1>3. IdleIsQuiet
    BY DEF IdleIsQuiet
  <1>4. StorageAtPoint
    BY DEF StorageAtPoint
  <1>5. IdleIsBuilt
    BY DEF IdleIsBuilt
  <1>6. ShutdownIsMain
    BY DEF ShutdownIsMain
  <1>7. NoLostWakeup
    BY DEF NoLostWakeup
  <1>8. NoticeAhead
    BY DEF NoticeAhead
  <1> QED
    BY <1>1, <1>2, <1>3, <1>4, <1>5, <1>6, <1>7, <1>8 DEF IInv

(* Every step of the main thread, of the background thread and of the         *)
(* condition variable preserves the inductive invariant.                      *)
LEMMA NextIInv == IInv /\ [Next]_vars => IInv'
  <1> SUFFICES ASSUME IInv, [Next]_vars PROVE IInv'
    OBVIOUS
  <1> USE SeedAssumption, QueueAssumption
      DEF queueVars, storageVars, bgVars, mainVars
  <1>1. CASE SetJobOther
    <2>1. TypeOK'
      BY <1>1 DEF SetJobOther, IInv, TypeOK, SeedOrNone
    <2>2. PendingIsOwed'
      BY <1>1 DEF SetJobOther, IInv, PendingIsOwed, newestItem, Building
    <2>3. IdleIsQuiet'
      BY <1>1 DEF SetJobOther, IInv, IdleIsQuiet
    <2>4. StorageAtPoint'
      BY <1>1 DEF SetJobOther, IInv, StorageAtPoint, Building
    <2>5. IdleIsBuilt'
      BY <1>1 DEF SetJobOther, IInv, IdleIsBuilt
    <2>6. ShutdownIsMain'
      BY <1>1 DEF SetJobOther, IInv, ShutdownIsMain
    <2>7. NoLostWakeup'
      BY <1>1 DEF SetJobOther, IInv, NoLostWakeup
    <2>8. NoticeAhead'
      BY <1>1 DEF SetJobOther, IInv, NoticeAhead, isReadyUnsafe, isAllocated
    <2> QED
      BY <2>1, <2>2, <2>3, <2>4, <2>5, <2>6, <2>7, <2>8 DEF IInv
  <1>2. ASSUME NEW s \in Seeds, SetJob(s) PROVE IInv'
    <2>1. TypeOK'
      BY <1>2 DEF SetJob, IInv, TypeOK, isReadyUnsafe, isAllocated,
         SeedOrNone
    <2>2. PendingIsOwed'
      BY <1>2 DEF SetJob, IInv, PendingIsOwed, isReadyUnsafe, isAllocated,
         newestItem, Building
    <2>3. IdleIsQuiet'
      BY <1>2 DEF SetJob, IInv, IdleIsQuiet, isReadyUnsafe, isAllocated
    <2>4. StorageAtPoint'
      BY <1>2 DEF SetJob, IInv, StorageAtPoint, isReadyUnsafe, isAllocated,
         Building
    <2>5. IdleIsBuilt'
      BY <1>2 DEF SetJob, IInv, IdleIsBuilt, isReadyUnsafe, isAllocated
    <2>6. ShutdownIsMain'
      BY <1>2 DEF SetJob, IInv, ShutdownIsMain, isReadyUnsafe, isAllocated
    <2>7. NoLostWakeup'
      BY <1>2 DEF SetJob, IInv, NoLostWakeup, isReadyUnsafe, isAllocated
    <2>8. NoticeAhead'
      BY <1>2 DEF SetJob, IInv, NoticeAhead, isReadyUnsafe, isAllocated
    <2> QED
      BY <2>1, <2>2, <2>3, <2>4, <2>5, <2>6, <2>7, <2>8 DEF IInv
  <1>3. CASE Enqueue
    <2>1. TypeOK'
      <3>1. hasStorage' = TRUE /\ main' \in {"loop", "notify"}
            /\ mState' = "PENDING" /\ mSeed' \in {mSeed, jobSeed}
        BY <1>3 DEF Enqueue
      <3>2. mQueue' \in Seq(Seeds)
        BY <1>3 DEF Enqueue, IInv, TypeOK, ShutdownIsMain
      <3>3. UNCHANGED <<asyncSent, storageVars, bgVars, jobSeed, mining>>
        BY <1>3 DEF Enqueue
      <3> QED
        BY <3>1, <3>2, <3>3 DEF IInv, TypeOK
    <2>2. PendingIsOwed'
      BY <1>3 DEF Enqueue, IInv, PendingIsOwed, newestItem, Building
    <2>3. IdleIsQuiet'
      BY <1>3 DEF Enqueue, IInv, IdleIsQuiet
    <2>4. StorageAtPoint'
      BY <1>3 DEF Enqueue, IInv, StorageAtPoint, Building
    <2>5. IdleIsBuilt'
      BY <1>3 DEF Enqueue, IInv, IdleIsBuilt
    <2>6. ShutdownIsMain'
      BY <1>3 DEF Enqueue, IInv, ShutdownIsMain
    <2>7. NoLostWakeup'
      BY <1>3 DEF Enqueue, IInv, NoLostWakeup
    <2>8. NoticeAhead'
      BY <1>3 DEF Enqueue, IInv, NoticeAhead, isReadyUnsafe, isAllocated
    <2> QED
      BY <2>1, <2>2, <2>3, <2>4, <2>5, <2>6, <2>7, <2>8 DEF IInv
  <1>4. CASE NotifyEnqueue
    <2>1. TypeOK'
      BY <1>4 DEF NotifyEnqueue, Notify, IInv, TypeOK, SeedOrNone
    <2>2. PendingIsOwed'
      BY <1>4 DEF NotifyEnqueue, Notify, IInv, PendingIsOwed, newestItem,
         Building
    <2>3. IdleIsQuiet'
      BY <1>4 DEF NotifyEnqueue, Notify, IInv, IdleIsQuiet
    <2>4. StorageAtPoint'
      BY <1>4 DEF NotifyEnqueue, Notify, IInv, StorageAtPoint, Building
    <2>5. IdleIsBuilt'
      BY <1>4 DEF NotifyEnqueue, Notify, IInv, IdleIsBuilt
    <2>6. ShutdownIsMain'
      BY <1>4 DEF NotifyEnqueue, Notify, IInv, ShutdownIsMain
    <2>7. NoLostWakeup'
      BY <1>4 DEF NotifyEnqueue, Notify, IInv, NoLostWakeup
    <2>8. NoticeAhead'
      BY <1>4 DEF NotifyEnqueue, Notify, IInv, NoticeAhead, isReadyUnsafe,
         isAllocated
    <2> QED
      BY <2>1, <2>2, <2>3, <2>4, <2>5, <2>6, <2>7, <2>8 DEF IInv
  <1>5. CASE OnReady
    <2>1. TypeOK'
      <3>1. asyncSent' = FALSE /\ main' \in {"listener", "loop"}
        BY <1>5 DEF OnReady
      <3>2. UNCHANGED <<mState, mSeed, mQueue, hasStorage, storageVars, bgVars,
                        jobSeed, mining>>
        BY <1>5 DEF OnReady
      <3> QED
        BY <3>1, <3>2 DEF IInv, TypeOK
    <2>2. PendingIsOwed'
      BY <1>5 DEF OnReady, IInv, PendingIsOwed, newestItem, Building
    <2>3. IdleIsQuiet'
      BY <1>5 DEF OnReady, IInv, IdleIsQuiet
    <2>4. StorageAtPoint'
      BY <1>5 DEF OnReady, IInv, StorageAtPoint, Building
    <2>5. IdleIsBuilt'
      BY <1>5 DEF OnReady, IInv, IdleIsBuilt
    <2>6. ShutdownIsMain'
      BY <1>5 DEF OnReady, IInv, ShutdownIsMain
    <2>7. NoLostWakeup'
      BY <1>5 DEF OnReady, IInv, NoLostWakeup
    <2>8. NoticeAhead'
      BY <1>5 DEF OnReady, IInv, NoticeAhead, isReadyUnsafe, isAllocated
    <2> QED
      BY <2>1, <2>2, <2>3, <2>4, <2>5, <2>6, <2>7, <2>8 DEF IInv
  <1>6. CASE OnDatasetReady
    <2>1. TypeOK'
      BY <1>6 DEF OnDatasetReady, IInv, TypeOK, isReadyUnsafe, isAllocated,
         SeedOrNone
    <2>2. PendingIsOwed'
      BY <1>6 DEF OnDatasetReady, IInv, PendingIsOwed, isReadyUnsafe,
         isAllocated, newestItem, Building
    <2>3. IdleIsQuiet'
      BY <1>6 DEF OnDatasetReady, IInv, IdleIsQuiet, isReadyUnsafe,
         isAllocated
    <2>4. StorageAtPoint'
      BY <1>6 DEF OnDatasetReady, IInv, StorageAtPoint, isReadyUnsafe,
         isAllocated, Building
    <2>5. IdleIsBuilt'
      BY <1>6 DEF OnDatasetReady, IInv, IdleIsBuilt, isReadyUnsafe,
         isAllocated
    <2>6. ShutdownIsMain'
      BY <1>6 DEF OnDatasetReady, IInv, ShutdownIsMain, isReadyUnsafe,
         isAllocated
    <2>7. NoLostWakeup'
      BY <1>6 DEF OnDatasetReady, IInv, NoLostWakeup, isReadyUnsafe,
         isAllocated
    <2>8. NoticeAhead'
      BY <1>6 DEF OnDatasetReady, IInv, NoticeAhead, isReadyUnsafe,
         isAllocated
    <2> QED
      BY <2>1, <2>2, <2>3, <2>4, <2>5, <2>6, <2>7, <2>8 DEF IInv
  <1>7. CASE Shutdown
    <2>1. TypeOK'
      BY <1>7 DEF Shutdown, IInv, TypeOK, SeedOrNone
    <2>2. PendingIsOwed'
      BY <1>7 DEF Shutdown, IInv, PendingIsOwed, newestItem, Building
    <2>3. IdleIsQuiet'
      BY <1>7 DEF Shutdown, IInv, IdleIsQuiet
    <2>4. StorageAtPoint'
      BY <1>7 DEF Shutdown, IInv, StorageAtPoint, Building
    <2>5. IdleIsBuilt'
      BY <1>7 DEF Shutdown, IInv, IdleIsBuilt
    <2>6. ShutdownIsMain'
      BY <1>7 DEF Shutdown, IInv, ShutdownIsMain
    <2>7. NoLostWakeup'
      BY <1>7 DEF Shutdown, IInv, NoLostWakeup
    <2>8. NoticeAhead'
      BY <1>7 DEF Shutdown, IInv, NoticeAhead, isReadyUnsafe, isAllocated
    <2> QED
      BY <2>1, <2>2, <2>3, <2>4, <2>5, <2>6, <2>7, <2>8 DEF IInv
  <1>8. CASE NotifyShutdown
    <2>1. TypeOK'
      BY <1>8 DEF NotifyShutdown, Notify, IInv, TypeOK, SeedOrNone
    <2>2. PendingIsOwed'
      BY <1>8 DEF NotifyShutdown, Notify, IInv, PendingIsOwed, newestItem,
         Building
    <2>3. IdleIsQuiet'
      BY <1>8 DEF NotifyShutdown, Notify, IInv, IdleIsQuiet
    <2>4. StorageAtPoint'
      BY <1>8 DEF NotifyShutdown, Notify, IInv, StorageAtPoint, Building
    <2>5. IdleIsBuilt'
      BY <1>8 DEF NotifyShutdown, Notify, IInv, IdleIsBuilt
    <2>6. ShutdownIsMain'
      BY <1>8 DEF NotifyShutdown, Notify, IInv, ShutdownIsMain
    <2>7. NoLostWakeup'
      BY <1>8 DEF NotifyShutdown, Notify, IInv, NoLostWakeup
    <2>8. NoticeAhead'
      BY <1>8 DEF NotifyShutdown, Notify, IInv, NoticeAhead, isReadyUnsafe,
         isAllocated
    <2> QED
      BY <2>1, <2>2, <2>3, <2>4, <2>5, <2>6, <2>7, <2>8 DEF IInv
  <1>9. CASE Join
    <2>1. TypeOK'
      BY <1>9 DEF Join, IInv, TypeOK, SeedOrNone
    <2>2. PendingIsOwed'
      BY <1>9 DEF Join, IInv, PendingIsOwed, newestItem, Building
    <2>3. IdleIsQuiet'
      BY <1>9 DEF Join, IInv, IdleIsQuiet
    <2>4. StorageAtPoint'
      BY <1>9 DEF Join, IInv, StorageAtPoint, Building
    <2>5. IdleIsBuilt'
      BY <1>9 DEF Join, IInv, IdleIsBuilt
    <2>6. ShutdownIsMain'
      BY <1>9 DEF Join, IInv, ShutdownIsMain
    <2>7. NoLostWakeup'
      BY <1>9 DEF Join, IInv, NoLostWakeup
    <2>8. NoticeAhead'
      BY <1>9 DEF Join, IInv, NoticeAhead, isReadyUnsafe, isAllocated
    <2> QED
      BY <2>1, <2>2, <2>3, <2>4, <2>5, <2>6, <2>7, <2>8 DEF IInv
  <1>10. CASE BgLoop
    <2>1. TypeOK'
      BY <1>10 DEF BgLoop, IInv, TypeOK, SeedOrNone
    <2>2. PendingIsOwed'
      BY <1>10 DEF BgLoop, IInv, PendingIsOwed, newestItem, Building
    <2>3. IdleIsQuiet'
      BY <1>10 DEF BgLoop, IInv, IdleIsQuiet
    <2>4. StorageAtPoint'
      BY <1>10 DEF BgLoop, IInv, StorageAtPoint, Building
    <2>5. IdleIsBuilt'
      BY <1>10 DEF BgLoop, IInv, IdleIsBuilt
    <2>6. ShutdownIsMain'
      BY <1>10 DEF BgLoop, IInv, ShutdownIsMain
    <2>7. NoLostWakeup'
      BY <1>10 DEF BgLoop, IInv, NoLostWakeup
    <2>8. NoticeAhead'
      BY <1>10 DEF BgLoop, IInv, NoticeAhead, isReadyUnsafe, isAllocated
    <2> QED
      BY <2>1, <2>2, <2>3, <2>4, <2>5, <2>6, <2>7, <2>8 DEF IInv
  <1>11. CASE BgTake
    <2>1. TypeOK'
      <3>1. mState = "PENDING" => newestItem \in Seeds
        BY <1>11, QueueFacts DEF IInv, TypeOK, PendingIsOwed, Building, BgTake,
           newestItem
      <3>2. item' \in SeedOrNone
        BY <1>11, <3>1 DEF BgTake, IInv, TypeOK, SeedOrNone
      <3>3. mQueue' \in Seq(Seeds)
        BY <1>11, QueueFacts DEF BgTake, IInv, TypeOK
      <3>4. bg' \in {"wait", "loop", "setSeed"}
        BY <1>11 DEF BgTake
      <3> QED
        BY <1>11, <3>2, <3>3, <3>4 DEF BgTake, IInv, TypeOK
    <2>2. PendingIsOwed'
      BY <1>11 DEF BgTake, IInv, PendingIsOwed, newestItem, Building
    <2>3. IdleIsQuiet'
      BY <1>11 DEF BgTake, IInv, IdleIsQuiet, newestItem
    <2>4. StorageAtPoint'
      BY <1>11 DEF BgTake, IInv, StorageAtPoint, TypeOK, PendingIsOwed,
         IdleIsQuiet, ShutdownIsMain, newestItem, Building, SeedOrNone
    <2>5. IdleIsBuilt'
      BY <1>11 DEF BgTake, IInv, IdleIsBuilt, newestItem
    <2>6. ShutdownIsMain'
      BY <1>11 DEF BgTake, IInv, ShutdownIsMain, newestItem
    <2>7. NoLostWakeup'
      BY <1>11 DEF BgTake, IInv, NoLostWakeup, newestItem
    <2>8. NoticeAhead'
      BY <1>11 DEF BgTake, IInv, NoticeAhead, newestItem, isReadyUnsafe,
         isAllocated
    <2> QED
      BY <2>1, <2>2, <2>3, <2>4, <2>5, <2>6, <2>7, <2>8 DEF IInv
  <1>12. CASE BgSetSeed
    <2>1. TypeOK'
      <3>1. stReady' = FALSE /\ stSeed' = item /\ bg' \in {"create", "build"}
        BY <1>12 DEF BgSetSeed
      <3>2. UNCHANGED <<dsMem, queueVars, item, mainVars>>
        BY <1>12 DEF BgSetSeed
      <3> QED
        BY <3>1, <3>2 DEF IInv, TypeOK
    <2>2. PendingIsOwed'
      BY <1>12 DEF BgSetSeed, IInv, PendingIsOwed, newestItem, Building
    <2>3. IdleIsQuiet'
      BY <1>12 DEF BgSetSeed, IInv, IdleIsQuiet
    <2>4. StorageAtPoint'
      BY <1>12 DEF BgSetSeed, IInv, StorageAtPoint, Building
    <2>5. IdleIsBuilt'
      BY <1>12 DEF BgSetSeed, IInv, IdleIsBuilt, TypeOK, PendingIsOwed,
         IdleIsQuiet, ShutdownIsMain, SeedOrNone, newestItem, Building
    <2>6. ShutdownIsMain'
      BY <1>12 DEF BgSetSeed, IInv, ShutdownIsMain
    <2>7. NoLostWakeup'
      BY <1>12 DEF BgSetSeed, IInv, NoLostWakeup
    <2>8. NoticeAhead'
      BY <1>12 DEF BgSetSeed, IInv, NoticeAhead, isReadyUnsafe, isAllocated
    <2> QED
      BY <2>1, <2>2, <2>3, <2>4, <2>5, <2>6, <2>7, <2>8 DEF IInv
  <1>13. CASE BgCreate
    <2>1. TypeOK'
      BY <1>13 DEF BgCreate, IInv, TypeOK, SeedOrNone
    <2>2. PendingIsOwed'
      BY <1>13 DEF BgCreate, IInv, PendingIsOwed, newestItem, Building
    <2>3. IdleIsQuiet'
      BY <1>13 DEF BgCreate, IInv, IdleIsQuiet
    <2>4. StorageAtPoint'
      BY <1>13 DEF BgCreate, IInv, StorageAtPoint, Building
    <2>5. IdleIsBuilt'
      BY <1>13 DEF BgCreate, IInv, IdleIsBuilt, TypeOK, PendingIsOwed,
         IdleIsQuiet, ShutdownIsMain, SeedOrNone, newestItem, Building
    <2>6. ShutdownIsMain'
      BY <1>13 DEF BgCreate, IInv, ShutdownIsMain
    <2>7. NoLostWakeup'
      BY <1>13 DEF BgCreate, IInv, NoLostWakeup
    <2>8. NoticeAhead'
      BY <1>13 DEF BgCreate, IInv, NoticeAhead, TypeOK, PendingIsOwed,
         IdleIsQuiet, ShutdownIsMain, isReadyUnsafe, isAllocated, SeedOrNone,
         newestItem, Building
    <2> QED
      BY <2>1, <2>2, <2>3, <2>4, <2>5, <2>6, <2>7, <2>8 DEF IInv
  <1>14. CASE BgFree
    <2>1. TypeOK'
      BY <1>14 DEF BgFree, IInv, TypeOK, SeedOrNone
    <2>2. PendingIsOwed'
      BY <1>14 DEF BgFree, IInv, PendingIsOwed, newestItem, Building
    <2>3. IdleIsQuiet'
      BY <1>14 DEF BgFree, IInv, IdleIsQuiet
    <2>4. StorageAtPoint'
      BY <1>14 DEF BgFree, IInv, StorageAtPoint, Building
    <2>5. IdleIsBuilt'
      BY <1>14 DEF BgFree, IInv, IdleIsBuilt
    <2>6. ShutdownIsMain'
      BY <1>14 DEF BgFree, IInv, ShutdownIsMain
    <2>7. NoLostWakeup'
      BY <1>14 DEF BgFree, IInv, NoLostWakeup
    <2>8. NoticeAhead'
      BY <1>14 DEF BgFree, IInv, NoticeAhead, isReadyUnsafe, isAllocated
    <2> QED
      BY <2>1, <2>2, <2>3, <2>4, <2>5, <2>6, <2>7, <2>8 DEF IInv
  <1>15. CASE BgClear
    <2>1. TypeOK'
      BY <1>15 DEF BgClear, IInv, TypeOK, SeedOrNone
    <2>2. PendingIsOwed'
      BY <1>15 DEF BgClear, IInv, PendingIsOwed, newestItem, Building
    <2>3. IdleIsQuiet'
      BY <1>15 DEF BgClear, IInv, IdleIsQuiet
    <2>4. StorageAtPoint'
      BY <1>15 DEF BgClear, IInv, StorageAtPoint, Building
    <2>5. IdleIsBuilt'
      BY <1>15 DEF BgClear, IInv, IdleIsBuilt
    <2>6. ShutdownIsMain'
      BY <1>15 DEF BgClear, IInv, ShutdownIsMain
    <2>7. NoLostWakeup'
      BY <1>15 DEF BgClear, IInv, NoLostWakeup
    <2>8. NoticeAhead'
      BY <1>15 DEF BgClear, IInv, NoticeAhead, isReadyUnsafe, isAllocated
    <2> QED
      BY <2>1, <2>2, <2>3, <2>4, <2>5, <2>6, <2>7, <2>8 DEF IInv
  <1>16. CASE BgBuild
    <2>1. TypeOK'
      BY <1>16 DEF BgBuild, IInv, TypeOK, SeedOrNone
    <2>2. PendingIsOwed'
      BY <1>16 DEF BgBuild, IInv, PendingIsOwed, newestItem, Building
    <2>3. IdleIsQuiet'
      BY <1>16 DEF BgBuild, IInv, IdleIsQuiet
    <2>4. StorageAtPoint'
      BY <1>16 DEF BgBuild, IInv, StorageAtPoint, Building
    <2>5. IdleIsBuilt'
      BY <1>16 DEF BgBuild, IInv, IdleIsBuilt
    <2>6. ShutdownIsMain'
      BY <1>16 DEF BgBuild, IInv, ShutdownIsMain
    <2>7. NoLostWakeup'
      BY <1>16 DEF BgBuild, IInv, NoLostWakeup
    <2>8. NoticeAhead'
      BY <1>16 DEF BgBuild, IInv, NoticeAhead, isReadyUnsafe, isAllocated
    <2> QED
      BY <2>1, <2>2, <2>3, <2>4, <2>5, <2>6, <2>7, <2>8 DEF IInv
  <1>17. CASE BgFinish
    <2>1. TypeOK'
      <3>1. asyncSent' \in {TRUE, asyncSent} /\ mState' \in {mState, "IDLE"}
            /\ mSeed' \in {mSeed, item} /\ bg' = "loop"
        BY <1>17 DEF BgFinish
      <3>2. UNCHANGED <<mQueue, hasStorage, item, storageVars, mainVars>>
        BY <1>17 DEF BgFinish
      <3>3. asyncSent' \in BOOLEAN
        BY <3>1, Zenon DEF IInv, TypeOK
      <3> QED
        BY <3>1, <3>2, <3>3 DEF IInv, TypeOK
    <2>2. PendingIsOwed'
      BY <1>17 DEF BgFinish, IInv, PendingIsOwed, newestItem, Building
    <2>3. IdleIsQuiet'
      BY <1>17 DEF BgFinish, IInv, IdleIsQuiet
    <2>4. StorageAtPoint'
      BY <1>17 DEF BgFinish, IInv, StorageAtPoint, Building
    <2>5. IdleIsBuilt'
      <3>1. stSeed = item /\ (dsMem = "allocated" => stReady)
        BY <1>17 DEF BgFinish, IInv, StorageAtPoint
      <3>2. mState # "IDLE"
        BY <1>17 DEF BgFinish, IInv, IdleIsQuiet
      <3> QED
        BY <1>17, <3>1, <3>2 DEF BgFinish, IInv, IdleIsBuilt
    <2>6. ShutdownIsMain'
      BY <1>17 DEF BgFinish, IInv, ShutdownIsMain
    <2>7. NoLostWakeup'
      BY <1>17 DEF BgFinish, IInv, NoLostWakeup
    <2>8. NoticeAhead'
      BY <1>17 DEF BgFinish, IInv, NoticeAhead, isReadyUnsafe, isAllocated
    <2> QED
      BY <2>1, <2>2, <2>3, <2>4, <2>5, <2>6, <2>7, <2>8 DEF IInv
  <1>18. CASE SpuriousWake
    <2>1. TypeOK'
      BY <1>18 DEF SpuriousWake, IInv, TypeOK, SeedOrNone
    <2>2. PendingIsOwed'
      BY <1>18 DEF SpuriousWake, IInv, PendingIsOwed, newestItem, Building
    <2>3. IdleIsQuiet'
      BY <1>18 DEF SpuriousWake, IInv, IdleIsQuiet
    <2>4. StorageAtPoint'
      BY <1>18 DEF SpuriousWake, IInv, StorageAtPoint, Building
    <2>5. IdleIsBuilt'
      BY <1>18 DEF SpuriousWake, IInv, IdleIsBuilt
    <2>6. ShutdownIsMain'
      BY <1>18 DEF SpuriousWake, IInv, ShutdownIsMain
    <2>7. NoLostWakeup'
      BY <1>18 DEF SpuriousWake, IInv, NoLostWakeup
    <2>8. NoticeAhead'
      BY <1>18 DEF SpuriousWake, IInv, NoticeAhead, isReadyUnsafe,
         isAllocated
    <2> QED
      BY <2>1, <2>2, <2>3, <2>4, <2>5, <2>6, <2>7, <2>8 DEF IInv
  <1>19. CASE UNCHANGED vars
    <2>1. TypeOK'
      BY <1>19 DEF vars, IInv, TypeOK, SeedOrNone
    <2>2. PendingIsOwed'
      BY <1>19 DEF vars, IInv, PendingIsOwed, newestItem, Building
    <2>3. IdleIsQuiet'
      BY <1>19 DEF vars, IInv, IdleIsQuiet
    <2>4. StorageAtPoint'
      BY <1>19 DEF vars, IInv, StorageAtPoint, Building
    <2>5. IdleIsBuilt'
      BY <1>19 DEF vars, IInv, IdleIsBuilt
    <2>6. ShutdownIsMain'
      BY <1>19 DEF vars, IInv, ShutdownIsMain
    <2>7. NoLostWakeup'
      BY <1>19 DEF vars, IInv, NoLostWakeup
    <2>8. NoticeAhead'
      BY <1>19 DEF vars, IInv, NoticeAhead, isReadyUnsafe, isAllocated
    <2> QED
      BY <2>1, <2>2, <2>3, <2>4, <2>5, <2>6, <2>7, <2>8 DEF IInv
  <1> QED
    BY <1>1, <1>2, <1>3, <1>4, <1>5, <1>6, <1>7, <1>8, <1>9, <1>10, <1>11,
       <1>12, <1>13, <1>14, <1>15, <1>16, <1>17, <1>18, <1>19 DEF Next, Main,
       Background

(* IInv is an invariant of the queue, whatever order the two threads run in.  *)
THEOREM IInvHolds == Spec => []IInv
  BY InitIInv, NextIInv, PTL DEF Spec

(* RxQueue's and RxBasicStorage's members always have their types.            *)
THEOREM TypeCorrect == Spec => []TypeOK
  <1>1. IInv => TypeOK
    BY DEF IInv
  <1> QED
    BY <1>1, IInvHolds, PTL

(* isReady() never confirms a seed that dataset() would then refuse, nor one  *)
(* whose storage is being written.                                            *)
THEOREM ReadySound == Spec => []ReadyIsBuilt
  <1>1. IInv => ReadyIsBuilt
    <2> SUFFICES ASSUME IInv, NEW s \in Seeds, isReadyUnsafe(s)
                 PROVE  hasDataset(s) /\ ~Building
      BY DEF ReadyIsBuilt
    <2>1. mState = "IDLE" /\ dsMem = "allocated" /\ mSeed = s
      BY DEF isReadyUnsafe, isAllocated
    <2> QED
      BY <2>1 DEF IInv, IdleIsBuilt, IdleIsQuiet, hasDataset, Building
  <1> QED
    BY <1>1, IInvHolds, PTL

(* The newest seed enqueue() was given is queued or being built until the     *)
(* queue is IDLE again.                                                       *)
THEOREM NewestOwed == Spec => []PendingIsOwed
  <1>1. IInv => PendingIsOwed
    BY DEF IInv
  <1> QED
    BY <1>1, IInvHolds, PTL

(* The background thread never sleeps through a request or a shutdown.        *)
THEOREM WakeupNotLost == Spec => []NoLostWakeup
  <1>1. IInv => NoLostWakeup
    BY DEF IInv
  <1> QED
    BY <1>1, IInvHolds, PTL

(* A dataset object without memory, or already freed, is there only while     *)
(* m_state makes isReadyUnsafe() false.                                       *)
THEOREM FreedIsHidden == Spec => []FreedWhilePending
  <1>1. IInv => FreedWhilePending
    BY DEF IInv, TypeOK, IdleIsQuiet, StorageAtPoint, FreedWhilePending
  <1> QED
    BY <1>1, IInvHolds, PTL

(* A finished dataset of the current job is being mined on, or its async is   *)
(* still to be run by the loop.                                               *)
THEOREM NoticeNotLost == Spec => []NoLostNotice
  <1>1. IInv => NoLostNotice
    BY DEF IInv, NoticeAhead, NoLostNotice
  <1> QED
    BY <1>1, IInvHolds, PTL

(* The initial state of the queue is one of the service.                      *)
LEMMA ServiceInitMapped == Init => Service!ServiceInit
  BY DEF Init, Service!ServiceInit, hasDataset, isReadyUnsafe

(* A step of the queue is a step of the service or changes nothing of it.     *)
LEMMA ServiceStep ==
  IInv /\ [Next]_vars => [Service!ServiceNext]_(Service!serviceVars)
  <1> SUFFICES ASSUME IInv, [Next]_vars
               PROVE  [Service!ServiceNext]_(Service!serviceVars)
    OBVIOUS
  <1> DEFINE served == IF hasDataset(mSeed) THEN mSeed ELSE NoSeed
             same   == /\ mSeed' = mSeed /\ asyncSent' = asyncSent
                       /\ (mState = "PENDING")' = (mState = "PENDING")
                       /\ served' = served
  <1> USE DEF hasDataset, isReadyUnsafe, isAllocated
  <1>0. same => UNCHANGED Service!serviceVars
    BY DEF Service!serviceVars
  <1> USE DEF queueVars, storageVars, bgVars, mainVars
  <1>1. CASE SetJobOther
    BY <1>0, <1>1 DEF SetJobOther
  <1>2. ASSUME NEW s \in Seeds, SetJob(s)
        PROVE  [Service!ServiceNext]_(Service!serviceVars)
    BY <1>0, <1>2 DEF SetJob
  <1>3. CASE Enqueue
    <2>1. CASE mState = "PENDING" /\ mSeed = jobSeed
      BY <1>0, <1>3, <2>1 DEF Enqueue
    <2>2. CASE ~(mState = "PENDING" /\ mSeed = jobSeed)
      <3>1. jobSeed \in Seeds
        BY <1>3 DEF Enqueue, IInv, ShutdownIsMain
      <3>2. Service!Request(jobSeed)
        BY <1>3, <2>2 DEF Enqueue, Service!Request
      <3> QED
        BY <3>1, <3>2 DEF Service!ServiceNext
    <2> QED
      BY <2>1, <2>2
  <1>4. CASE NotifyEnqueue
    BY <1>0, <1>4 DEF NotifyEnqueue, Notify
  <1>5. CASE OnReady
    <2>1. Service!TakeNotice
      BY <1>5 DEF OnReady, Service!TakeNotice
    <2> QED
      BY <2>1 DEF Service!ServiceNext
  <1>6. CASE OnDatasetReady
    BY <1>0, <1>6 DEF OnDatasetReady
  <1>7. CASE Shutdown
    <2>1. Service!Close
      BY <1>7 DEF Shutdown, Service!Close
    <2> QED
      BY <2>1 DEF Service!ServiceNext
  <1>8. CASE NotifyShutdown
    BY <1>0, <1>8 DEF NotifyShutdown, Notify
  <1>9. CASE Join
    <2>1. mState = "SHUTDOWN"
      BY <1>9 DEF Join, IInv, ShutdownIsMain
    <2> QED
      BY <1>0, <1>9, <2>1 DEF Join
  <1>10. CASE BgLoop
    BY <1>0, <1>10 DEF BgLoop
  <1>11. CASE BgTake
    BY <1>0, <1>11 DEF BgTake
  <1>12. CASE BgSetSeed
    <2>1. mState # "IDLE"
      BY <1>12 DEF BgSetSeed, IInv, IdleIsQuiet
    <2> QED
      BY <1>0, <1>12, <2>1 DEF BgSetSeed
  <1>13. CASE BgCreate
    <2>1. mState # "IDLE"
      BY <1>13 DEF BgCreate, IInv, IdleIsQuiet
    <2> QED
      BY <1>0, <1>13, <2>1 DEF BgCreate
  <1>14. CASE BgFree
    <2>1. mState # "IDLE"
      BY <1>14 DEF BgFree, IInv, IdleIsQuiet
    <2> QED
      BY <1>0, <1>14, <2>1 DEF BgFree
  <1>15. CASE BgClear
    <2>1. mState # "IDLE"
      BY <1>15 DEF BgClear, IInv, IdleIsQuiet
    <2> QED
      BY <1>0, <1>15, <2>1 DEF BgClear
  <1>16. CASE BgBuild
    <2>1. mState # "IDLE"
      BY <1>16 DEF BgBuild, IInv, IdleIsQuiet
    <2> QED
      BY <1>0, <1>16, <2>1 DEF BgBuild
  <1>17. CASE BgFinish
    <2>1. CASE mState = "SHUTDOWN" \/ mQueue # <<>>
      BY <1>0, <1>17, <2>1 DEF BgFinish
    <2>2. CASE ~(mState = "SHUTDOWN" \/ mQueue # <<>>)
      <3>1. mState = "PENDING" /\ item = mSeed
        BY <1>17, <2>2 DEF BgFinish, IInv, TypeOK, PendingIsOwed, IdleIsQuiet
      <3>2. Service!Complete
        BY <1>17, <2>2, <3>1 DEF BgFinish, Service!Complete
      <3> QED
        BY <3>2 DEF Service!ServiceNext
    <2> QED
      BY <2>1, <2>2
  <1>18. CASE SpuriousWake
    BY <1>0, <1>18 DEF SpuriousWake
  <1>19. CASE UNCHANGED vars
    BY <1>0, <1>19 DEF vars
  <1> QED
    BY <1>1, <1>2, <1>3, <1>4, <1>5, <1>6, <1>7, <1>8, <1>9, <1>10, <1>11,
       <1>12, <1>13, <1>14, <1>15, <1>16, <1>17, <1>18, <1>19
       DEF Next, Main, Background

(* The dataset queue with its two threads implements the dataset service.     *)
THEOREM QueueImplementsService == Spec => ImplementsService
  <1>1. Spec => Service!ServiceInit /\ [][Service!ServiceNext]_(Service!serviceVars)
    BY ServiceInitMapped, ServiceStep, IInvHolds, PTL DEF Spec
  <1> QED
    BY <1>1 DEF ImplementsService, Service!ServiceSpec
=============================================================================
