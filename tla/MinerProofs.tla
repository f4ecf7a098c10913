----------------------------- MODULE MinerProofs -----------------------------
(* Proofs about module Miner, for any set of jobs, algorithms and thread      *)
(* profiles, with stops and configuration reloads at any time.                *)

EXTENDS Miner, TLAPS

(* CountsReasons as a property of the flags alone                             *)
Counts(f) == f.auto_pause = (IF f.battery_power THEN 1 ELSE 0)
                          + (IF f.user_active THEN 1 ELSE 0)

(* A dataset is handed out only while none is being built.                    *)
ServedIsIdle == served # NoSeed => ~busy

(* The threads were launched for the size class of MinerPrivate::job, also    *)
(* while a setJob is under way and job is still the old one.                  *)
ThreadsFit ==
    threads # NoThreads => job # NoJob /\ threads.l3 = l3[job.algo]

(* MinerPrivate::algorithm follows the job that was set last; a setJob that   *)
(* will have to wait for a dataset has left threads alive only if they serve  *)
(* the new job's algorithm.                                                   *)
AlgorithmFits ==
    /\ inLoop /\ job # NoJob => algorithm = job.algo
    /\ ~inLoop => algorithm = main.algo
    /\ ~inLoop /\ threads # NoThreads /\ isRandomX(main) /\ ~isReady(main)
           => job.algo = main.algo

IInv == TypeOK /\ CountsReasons /\ ServedIsIdle /\ ThreadsFit /\ AlgorithmFits

-----------------------------------------------------------------------------
(* The flags                                                                  *)

(* Miner::setEnabled keeps the flags well typed and leaves what the timer     *)
(* counts alone.                                                              *)
LEMMA SetEnabledFlags ==
    ASSUME NEW f \in Flags, NEW e \in BOOLEAN
    PROVE  /\ setEnabled(f, e) \in Flags
           /\ setEnabled(f, e).battery_power = f.battery_power
           /\ setEnabled(f, e).user_active = f.user_active
           /\ setEnabled(f, e).auto_pause = f.auto_pause
<1>1. (~e) \in BOOLEAN
    OBVIOUS
<1>2. QED
    BY <1>1 DEF setEnabled, Flags

(* handleJobChange keeps the flags well typed and the counted reasons.        *)
LEMMA JobChangedFlags ==
    ASSUME NEW f \in Flags
    PROVE  /\ jobChanged(f) \in Flags
           /\ jobChanged(f).battery_power = f.battery_power
           /\ jobChanged(f).user_active = f.user_active
           /\ jobChanged(f).auto_pause = f.auto_pause
<1>1. (IF f.enabled /\ f.active THEN FALSE ELSE f.paused \/ ~f.enabled) \in BOOLEAN
    BY Zenon
<1>2. QED
    BY <1>1 DEF jobChanged, Flags

(* autoPause: a reason that changes is counted once, so the count stays       *)
(* between 0 and 2.                                                           *)
LEMMA AutoPauseFlags ==
    ASSUME NEW f \in Flags, Counts(f), NEW now \in BOOLEAN,
           NEW reason \in {"battery_power", "user_active"}
    PROVE  autoPause(f, reason, now) \in Flags /\ Counts(autoPause(f, reason, now))
<1>1. CASE now = f[reason]
    BY <1>1 DEF autoPause
<1>2. CASE now # f[reason]
  <2> DEFINE g == [f EXCEPT ![reason] = now,
                            !.auto_pause = @ + (IF now THEN 1 ELSE -1)]
             h == setEnabled(g, g.auto_pause = 0)
  <2>1. ASSUME reason = "battery_power" PROVE g \in Flags /\ Counts(g)
    <3>1. g.battery_power = now /\ g.user_active = f.user_active
      BY <2>1 DEF Flags
    <3>2. g.auto_pause = f.auto_pause + (IF now THEN 1 ELSE -1)
      BY <2>1 DEF Flags
    <3>3. f.battery_power = ~now
      BY <1>2, <2>1 DEF Flags
    <3>4. Counts(g) /\ g.auto_pause \in 0 .. 2
      BY <3>1, <3>2, <3>3 DEF Counts, Flags
    <3>5. g \in Flags
      BY <2>1, <3>2, <3>4 DEF Flags
    <3>6. QED
      BY <3>4, <3>5
  <2>2. ASSUME reason = "user_active" PROVE g \in Flags /\ Counts(g)
    <3>1. g.user_active = now /\ g.battery_power = f.battery_power
      BY <2>2 DEF Flags
    <3>2. g.auto_pause = f.auto_pause + (IF now THEN 1 ELSE -1)
      BY <2>2 DEF Flags
    <3>3. f.user_active = ~now
      BY <1>2, <2>2 DEF Flags
    <3>4. Counts(g) /\ g.auto_pause \in 0 .. 2
      BY <3>1, <3>2, <3>3 DEF Counts, Flags
    <3>5. g \in Flags
      BY <2>2, <3>2, <3>4 DEF Flags
    <3>6. QED
      BY <3>4, <3>5
  <2>3. g \in Flags /\ Counts(g)
    BY <2>1, <2>2
  <2>4. (g.auto_pause = 0) \in BOOLEAN
    OBVIOUS
  <2>5. h \in Flags /\ Counts(h)
    BY <2>3, <2>4, SetEnabledFlags DEF Counts
  <2>6. autoPause(f, reason, now) = h
    BY <1>2 DEF autoPause
  <2>7. QED
    BY <2>5, <2>6
<1>3. QED
    BY <1>1, <1>2

-----------------------------------------------------------------------------
(* What the handlers compute                                                  *)

(* CpuBackend::setJob leaves no threads, or threads for the job's size class. *)
LEMMA BackendFits ==
    ASSUME NEW j \in Jobs \cup {NoJob}, NEW k \in Configs
    PROVE  /\ backendSetJob(j, k) \in Launches \cup {NoThreads}
           /\ backendSetJob(j, k) # NoThreads =>
                  j # NoJob /\ backendSetJob(j, k).l3 = l3[j.algo]
<1>1. CASE k.cpu = NoThreads \/ j = NoJob
    BY <1>1 DEF backendSetJob
<1>2. CASE ~(k.cpu = NoThreads \/ j = NoJob)
  <2>1. j \in Jobs /\ k.cpu \in Profiles
    BY <1>2 DEF Configs
  <2>2. l3[j.algo] \in {l3[a] : a \in DOMAIN l3}
    BY <2>1, JobAssumption
  <2>3. backendSetJob(j, k) = [l3 |-> l3[j.algo], profile |-> k.cpu]
    BY <1>2 DEF backendSetJob
  <2>4. QED
    BY <1>2, <2>1, <2>2, <2>3 DEF Launches
<1>3. QED
    BY <1>1, <1>2

-----------------------------------------------------------------------------
(* The inductive step, one lemma per handler or group of handlers             *)

(* Handlers that change flags only: pool loss, commands, timer, nonces' end   *)
LEMMA FlagsOnly ==
    ASSUME IInv, m' \in Flags, Counts(m'),
           UNCHANGED <<job, algorithm, threads, main, envVars, serviceVars>>
    PROVE  IInv'
<1> USE DEF envVars, serviceVars
<1>1. TypeOK'
    BY DEF IInv, TypeOK, ServiceTypeOK
<1>2. CountsReasons'
    BY DEF Counts, CountsReasons
<1>3. QED
    BY <1>1, <1>2 DEF IInv, ServedIsIdle, ThreadsFit, AlgorithmFits, inLoop,
                      isRandomX, isReady

(* The handlers of that kind                                                  *)
LEMMA FlagsIInv ==
    ASSUME IInv, \/ PoolLost \/ OnTimer \/ NoncesEnd
                 \/ \E e \in BOOLEAN : SetEnabled(e)
    PROVE  IInv'
<1>1. m \in Flags /\ Counts(m)
    BY DEF IInv, TypeOK, CountsReasons, Counts
<1>2. UNCHANGED <<job, algorithm, threads, main, envVars, serviceVars>>
    BY DEF PoolLost, OnTimer, NoncesEnd, SetEnabled
<1>3. m' \in Flags /\ Counts(m')
  <2>1. CASE PoolLost
    BY <1>1, <2>1 DEF PoolLost, Flags, Counts
  <2>2. CASE NoncesEnd
    BY <1>1, <2>2 DEF NoncesEnd, Flags, Counts
  <2>3. CASE \E e \in BOOLEAN : SetEnabled(e)
    BY <1>1, <2>3, SetEnabledFlags DEF SetEnabled, Counts
  <2>4. CASE OnTimer
    <3> DEFINE f == IF conf.battery
                    THEN autoPause(m, "battery_power", world.onBattery) ELSE m
    <3>1. world.onBattery \in BOOLEAN /\ world.userActive \in BOOLEAN
      BY DEF IInv, TypeOK
    <3>2. f \in Flags /\ Counts(f)
      BY <1>1, <3>1, AutoPauseFlags
    <3>3. m' = IF conf.idle THEN autoPause(f, "user_active", world.userActive) ELSE f
      BY <2>4 DEF OnTimer
    <3>4. QED
      BY <3>1, <3>2, <3>3, AutoPauseFlags
  <2>5. QED
    BY <2>1, <2>2, <2>3, <2>4
<1>4. QED
    BY <1>1, <1>2, <1>3, FlagsOnly

(* Miner::setJob, first part: threads survive it only when the job's dataset  *)
(* is there or the algorithm stays the same.                                  *)
LEMMA SetJobBeginIInv ==
    ASSUME IInv, NEW j \in Jobs, SetJobBegin(j)
    PROVE  IInv'
<1> USE DEF envVars, serviceVars
<1>1. /\ main' = j /\ algorithm' = j.algo /\ inLoop
      /\ UNCHANGED <<job, envVars, serviceVars>>
    BY DEF SetJobBegin
<1>2. ~inLoop'
    BY <1>1, JobAssumption DEF inLoop
<1>3. m' \in Flags /\ Counts(m')
  <2>1. m \in Flags /\ Counts(m)
    BY DEF IInv, TypeOK, CountsReasons, Counts
  <2>2. m' \in {m, Stopped(m), [m EXCEPT !.paused = TRUE]}
    BY DEF SetJobBegin
  <2>3. QED
    BY <2>1, <2>2 DEF Stopped, Flags, Counts
<1>4. threads' \in {threads, NoThreads}
    BY DEF SetJobBegin
<1>5. TypeOK'
    BY <1>1, <1>3, <1>4, JobAssumption DEF IInv, TypeOK, ServiceTypeOK
<1>6. ThreadsFit' /\ ServedIsIdle' /\ CountsReasons'
    BY <1>1, <1>3, <1>4 DEF IInv, ThreadsFit, ServedIsIdle, CountsReasons, Counts
<1>7. AlgorithmFits'
  <2>1. ASSUME threads' # NoThreads, isRandomX(j), ~isReady(j)
        PROVE  job.algo = j.algo
    <3>1. algorithm = j.algo /\ threads # NoThreads
      BY <2>1 DEF SetJobBegin
    <3>2. QED
      BY <1>1, <3>1 DEF IInv, ThreadsFit, AlgorithmFits
  <2>2. QED
    BY <1>1, <1>2, <2>1 DEF AlgorithmFits, inLoop, isRandomX, isReady
<1>8. QED
    BY <1>5, <1>6, <1>7 DEF IInv

(* Miner::setJob, second part: with a dataset the backend is given the job,   *)
(* without one the threads that are left fit it.                              *)
LEMMA SetJobEndIInv ==
    ASSUME IInv, SetJobEnd
    PROVE  IInv'
<1> USE DEF envVars, serviceVars
<1>1. /\ main' = NoJob /\ job' = main /\ main # NoJob /\ ~inLoop
      /\ UNCHANGED <<algorithm, envVars>>
    BY DEF SetJobEnd, inLoop
<1>2. main \in Jobs /\ algorithm = main.algo
    BY <1>1 DEF IInv, TypeOK, AlgorithmFits
<1>3. m \in Flags /\ Counts(m)
    BY DEF IInv, TypeOK, CountsReasons, Counts
<1>4. inLoop' /\ AlgorithmFits'
    BY <1>1, <1>2 DEF AlgorithmFits, inLoop
<1>5. [m EXCEPT !.active = TRUE] \in Flags /\ Counts([m EXCEPT !.active = TRUE])
    BY <1>3 DEF Flags, Counts
<1>6. CASE isRandomX(main) /\ ~isReady(main)
  <2>1. m' = [m EXCEPT !.active = TRUE] /\ threads' = threads
    BY <1>6 DEF SetJobEnd
  <2>2. ThreadsFit'
    BY <1>1, <1>6, <2>1 DEF IInv, ThreadsFit, AlgorithmFits
  <2>3. main.seed \in Seeds
    BY <1>2, <1>6, JobAssumption DEF isRandomX
  <2>4. UNCHANGED serviceVars \/ Request(main.seed)
    BY <1>6 DEF SetJobEnd
  <2>5. ServiceTypeOK' /\ ServedIsIdle'
    <3>1. CASE UNCHANGED serviceVars
      BY <3>1 DEF IInv, TypeOK, ServiceTypeOK, ServedIsIdle
    <3>2. CASE Request(main.seed)
      <4>1. /\ latest' = main.seed /\ busy' = TRUE
            /\ served' = NoSeed /\ notice' = notice
        BY <3>2 DEF Request
      <4>2. QED
        BY <2>3, <4>1 DEF IInv, TypeOK, ServiceTypeOK, ServedIsIdle
    <3>3. QED
      BY <2>4, <3>1, <3>2
  <2>6. TypeOK' /\ CountsReasons'
    BY <1>1, <1>2, <1>5, <2>1, <2>5 DEF IInv, TypeOK, CountsReasons, Counts
  <2>7. QED
    BY <1>4, <2>2, <2>5, <2>6 DEF IInv
<1>7. CASE ~(isRandomX(main) /\ ~isReady(main))
  <2>1. /\ m' = jobChanged([m EXCEPT !.active = TRUE])
        /\ threads' = backendSetJob(main, conf)
        /\ UNCHANGED serviceVars
    BY <1>7 DEF SetJobEnd
  <2>2. m' \in Flags /\ Counts(m')
    BY <1>5, <2>1, JobChangedFlags DEF Counts
  <2>3. conf \in Configs
    BY DEF IInv, TypeOK
  <2>4. ThreadsFit' /\ threads' \in Launches \cup {NoThreads}
    BY <1>1, <1>2, <2>1, <2>3, BackendFits DEF ThreadsFit
  <2>5. TypeOK' /\ CountsReasons' /\ ServedIsIdle'
    BY <1>1, <1>2, <2>1, <2>2, <2>4
       DEF IInv, TypeOK, ServiceTypeOK, ServedIsIdle, CountsReasons, Counts
  <2>6. QED
    BY <1>4, <2>4, <2>5 DEF IInv
<1>8. QED
    BY <1>6, <1>7

(* The notice of a finished dataset: the backend is given the current job.    *)
LEMMA DatasetReadyIInv ==
    ASSUME IInv, OnDatasetReady
    PROVE  IInv'
<1> USE DEF envVars
<1>1. /\ inLoop /\ UNCHANGED <<job, algorithm, main, conf, world, given>>
      /\ UNCHANGED <<latest, busy, served>> /\ notice' = FALSE
    BY DEF OnDatasetReady, TakeNotice
<1>2. m \in Flags /\ Counts(m) /\ job \in Jobs \cup {NoJob} /\ conf \in Configs
    BY DEF IInv, TypeOK, CountsReasons, Counts
<1>3. \/ m' = m /\ threads' = threads
      \/ m' = jobChanged(m) /\ threads' = backendSetJob(job, conf)
    BY DEF OnDatasetReady
<1>4. m' \in Flags /\ Counts(m')
    BY <1>2, <1>3, JobChangedFlags DEF Counts
<1>5. ThreadsFit' /\ threads' \in Launches \cup {NoThreads}
    BY <1>1, <1>2, <1>3, BackendFits DEF IInv, TypeOK, ThreadsFit
<1>6. inLoop' /\ AlgorithmFits'
    BY <1>1 DEF IInv, AlgorithmFits, inLoop
<1>7. TypeOK' /\ CountsReasons' /\ ServedIsIdle'
    BY <1>1, <1>4, <1>5
       DEF IInv, TypeOK, ServiceTypeOK, ServedIsIdle, CountsReasons, Counts
<1>8. QED
    BY <1>5, <1>6, <1>7 DEF IInv

(* JSON-RPC "stop" and a configuration reload                                 *)
LEMMA StopReloadIInv ==
    ASSUME IInv, Stop \/ \E k \in Configs, p \in BOOLEAN : Reload(k, p)
    PROVE  IInv'
<1> USE DEF envVars, serviceVars
<1>1. inLoop /\ UNCHANGED <<job, algorithm, main, world, serviceVars>>
    BY DEF Stop, Reload
<1>2. m \in Flags /\ Counts(m) /\ job \in Jobs \cup {NoJob} /\ conf \in Configs
    BY DEF IInv, TypeOK, CountsReasons, Counts
<1>3. m' \in {m, Stopped(m)} /\ conf' \in Configs /\ given' = TRUE
    BY <1>2 DEF Stop, Reload
<1>4. m' \in Flags /\ Counts(m')
    BY <1>2, <1>3 DEF Stopped, Flags, Counts
<1>5. ThreadsFit' /\ threads' \in Launches \cup {NoThreads}
  <2>1. CASE Stop
    BY <2>1 DEF Stop, ThreadsFit
  <2>2. ASSUME NEW k \in Configs, NEW p \in BOOLEAN, Reload(k, p)
        PROVE  ThreadsFit' /\ threads' \in Launches \cup {NoThreads}
    BY <1>1, <1>2, <2>2, BackendFits DEF IInv, TypeOK, Reload, ThreadsFit
  <2>3. QED
    BY <2>1, <2>2
<1>6. AlgorithmFits'
    BY <1>1 DEF IInv, AlgorithmFits, inLoop
<1>7. TypeOK' /\ CountsReasons' /\ ServedIsIdle'
    BY <1>1, <1>3, <1>4, <1>5
       DEF IInv, TypeOK, ServiceTypeOK, ServedIsIdle, CountsReasons, Counts
<1>8. QED
    BY <1>5, <1>6, <1>7 DEF IInv

(* A dataset that is finished while a setJob is between its two looks can     *)
(* only make that job ready, never take a ready one away.                     *)
LEMMA BackgroundIInv ==
    ASSUME IInv, \/ DatasetDone
                 \/ \E x \in [onBattery : BOOLEAN, userActive : BOOLEAN] :
                         WorldChanges(x)
    PROVE  IInv'
<1>1. UNCHANGED <<m, job, algorithm, threads, main, conf, given>>
    BY DEF DatasetDone, WorldChanges, minerVars, envVars
<1>2. CASE DatasetDone
  <2>1. /\ busy /\ busy' = FALSE /\ served' \in {latest, NoSeed}
        /\ notice' = TRUE /\ latest' = latest /\ world' = world
    BY <1>2 DEF DatasetDone, Complete, envVars
  <2>2. served = NoSeed
    BY <2>1 DEF IInv, ServedIsIdle
  <2>3. TypeOK' /\ CountsReasons' /\ ServedIsIdle' /\ ThreadsFit'
    BY <1>1, <2>1 DEF IInv, TypeOK, ServiceTypeOK, CountsReasons, ServedIsIdle,
                      ThreadsFit
  <2>4. AlgorithmFits'
    BY <1>1, <2>2 DEF IInv, AlgorithmFits, inLoop, isRandomX, isReady
  <2>5. QED
    BY <2>3, <2>4 DEF IInv
<1>3. CASE \E x \in [onBattery : BOOLEAN, userActive : BOOLEAN] : WorldChanges(x)
  <2>1. /\ world' \in [onBattery : BOOLEAN, userActive : BOOLEAN]
        /\ UNCHANGED <<latest, busy, served, notice>>
    BY <1>3 DEF WorldChanges, serviceVars
  <2>2. QED
    BY <1>1, <2>1 DEF IInv, TypeOK, ServiceTypeOK, CountsReasons, ServedIsIdle,
                      ThreadsFit, AlgorithmFits, inLoop, isRandomX, isReady
<1>4. QED
    BY <1>2, <1>3

(* The invariant holds initially and every step keeps it.                     *)
THEOREM IInvHolds == Spec => []IInv
<1>1. ASSUME Init PROVE IInv
  <2>1. m \in Flags /\ Counts(m)
    BY <1>1 DEF Init, Flags, Counts
  <2>2. TypeOK
    BY <1>1, <2>1 DEF Init, TypeOK, ServiceInit, ServiceTypeOK
  <2>3. QED
    BY <1>1, <2>1, <2>2 DEF Init, IInv, CountsReasons, Counts, ServedIsIdle,
       ThreadsFit, AlgorithmFits, inLoop, ServiceInit
<1>2. ASSUME IInv, [Next]_vars PROVE IInv'
  <2>1. CASE UNCHANGED vars
    BY <1>2, <2>1 DEF IInv, TypeOK, ServiceTypeOK, CountsReasons, ServedIsIdle,
       ThreadsFit, AlgorithmFits, inLoop, isRandomX, isReady, vars, minerVars,
       envVars, serviceVars
  <2>2. QED
    BY <1>2, <2>1, FlagsIInv, SetJobBeginIInv, SetJobEndIInv, DatasetReadyIInv,
       StopReloadIInv, BackgroundIInv DEF Next
<1>3. QED
    BY <1>1, <1>2, PTL DEF Spec

(* All flags of MinerPrivate keep their types; auto_pause stays in 0 .. 2.    *)
THEOREM TypeCorrect == Spec => []TypeOK
<1>1. IInv => TypeOK
    BY DEF IInv
<1>2. QED
    BY <1>1, IInvHolds, PTL

(* auto_pause counts the pause reasons Miner::onTimer has seen, in every      *)
(* order of timer ticks, reloads, commands and changes of the platform.       *)
THEOREM ReasonsCounted == Spec => []CountsReasons
<1>1. IInv => CountsReasons
    BY DEF IInv
<1>2. QED
    BY <1>1, IInvHolds, PTL

(* Between two handlers the CPU threads fit the current job, for any jobs,    *)
(* algorithms and profiles, however datasets, stops and reloads fall.         *)
THEOREM ThreadsAlwaysFit == Spec => []ThreadsFitJob
<1>1. IInv => ThreadsFitJob
    BY DEF IInv, ThreadsFit, ThreadsFitJob
<1>2. QED
    BY <1>1, IInvHolds, PTL

-----------------------------------------------------------------------------
(* A paused miner is quiet until somebody stops or reloads it, which lets     *)
(* threads run that a disabled or poolless miner should not have.             *)

(* Threads that run are wanted, by the user and by a pool ...                 *)
OnlyWantedRun == threads # NoThreads /\ ~m.paused => m.enabled /\ m.active

(* ... and a miner without a pool is paused, so that handleJobChange, which   *)
(* pauses only a disabled miner, finds it paused when a dataset is late.      *)
PoollessPaused == inLoop /\ ~m.active => m.paused

QuietInv == OnlyWantedRun /\ PoollessPaused

(* The same for the flags alone                                               *)
Quiet(f)  == ~f.active => f.paused
Wanted(f) == ~f.paused => f.enabled /\ f.active

(* setEnabled and autoPause keep either.                                      *)
LEMMA SetEnabledQuiet ==
    ASSUME NEW f \in Flags, NEW e \in BOOLEAN, Quiet(f)
    PROVE  /\ Quiet(setEnabled(f, e))
           /\ Wanted(f) => Wanted(setEnabled(f, e))
<1>1. CASE setEnabled(f, e) = f
    BY <1>1
<1>2. CASE setEnabled(f, e) = [f EXCEPT !.enabled = e] /\ ~f.active
    BY <1>2 DEF Flags, Quiet, Wanted
<1>3. CASE setEnabled(f, e) = [f EXCEPT !.enabled = e, !.paused = ~e] /\ f.active
  <2>1. /\ setEnabled(f, e).active = f.active
        /\ setEnabled(f, e).enabled = e
        /\ setEnabled(f, e).paused = ~e
    BY <1>3 DEF Flags
  <2>2. QED
    BY <1>3, <2>1 DEF Quiet, Wanted
<1>4. QED
    BY <1>1, <1>2, <1>3 DEF setEnabled

LEMMA AutoPauseQuiet ==
    ASSUME NEW f \in Flags, Counts(f), Quiet(f), NEW now \in BOOLEAN,
           NEW reason \in {"battery_power", "user_active"}
    PROVE  /\ Quiet(autoPause(f, reason, now))
           /\ Wanted(f) => Wanted(autoPause(f, reason, now))
<1>1. CASE now = f[reason]
    BY <1>1 DEF autoPause
<1>2. CASE now # f[reason]
  <2> DEFINE g == [f EXCEPT ![reason] = now,
                            !.auto_pause = @ + (IF now THEN 1 ELSE -1)]
  <2>1. g \in Flags /\ g.active = f.active /\ g.paused = f.paused
                    /\ g.enabled = f.enabled
    <3>1. CASE reason = "battery_power"
      <4>1. f.battery_power = ~now
        BY <1>2, <3>1 DEF Flags
      <4>2. f.auto_pause + (IF now THEN 1 ELSE -1) \in 0 .. 2
        BY <4>1 DEF Counts, Flags
      <4>3. QED
        BY <3>1, <4>2 DEF Flags
    <3>2. CASE reason = "user_active"
      <4>1. f.user_active = ~now
        BY <1>2, <3>2 DEF Flags
      <4>2. f.auto_pause + (IF now THEN 1 ELSE -1) \in 0 .. 2
        BY <4>1 DEF Counts, Flags
      <4>3. QED
        BY <3>2, <4>2 DEF Flags
    <3>3. QED
      BY <3>1, <3>2
  <2>2. Quiet(g) /\ (Wanted(f) => Wanted(g))
    BY <2>1 DEF Quiet, Wanted
  <2>3. (g.auto_pause = 0) \in BOOLEAN
    OBVIOUS
  <2>4. autoPause(f, reason, now) = setEnabled(g, g.auto_pause = 0)
    BY <1>2 DEF autoPause
  <2>5. QED
    BY <2>1, <2>2, <2>3, <2>4, SetEnabledQuiet
<1>3. QED
    BY <1>1, <1>2

(* handleJobChange leaves a miner that was quiet quiet, and runs it only if   *)
(* it is wanted.                                                              *)
LEMMA JobChangedQuiet ==
    ASSUME NEW f \in Flags, Quiet(f)
    PROVE  Quiet(jobChanged(f)) /\ Wanted(jobChanged(f))
<1>1. /\ jobChanged(f).active = f.active
      /\ jobChanged(f).enabled = f.enabled
      /\ jobChanged(f).paused = IF f.enabled /\ f.active THEN FALSE
                                ELSE f.paused \/ ~f.enabled
    BY DEF jobChanged, Flags
<1>2. QED
    BY <1>1 DEF Quiet, Wanted

(* The timer and the commands                                                 *)
LEMMA FlagHandlersQuiet ==
    ASSUME IInv, QuietInv, OnTimer \/ \E e \in BOOLEAN : SetEnabled(e)
    PROVE  QuietInv'
<1>1. m \in Flags /\ Counts(m) /\ Quiet(m) /\ inLoop
    BY DEF IInv, TypeOK, CountsReasons, Counts, QuietInv, PoollessPaused,
           OnTimer, SetEnabled, Quiet
<1>2. inLoop' /\ threads' = threads
    BY DEF OnTimer, SetEnabled, inLoop
<1>3. Quiet(m') /\ (Wanted(m) => Wanted(m'))
  <2>1. CASE \E e \in BOOLEAN : SetEnabled(e)
    BY <1>1, <2>1, SetEnabledQuiet DEF SetEnabled
  <2>2. CASE OnTimer
    <3> DEFINE f == IF conf.battery
                    THEN autoPause(m, "battery_power", world.onBattery) ELSE m
    <3>1. world.onBattery \in BOOLEAN /\ world.userActive \in BOOLEAN
      BY DEF IInv, TypeOK
    <3>2. f \in Flags /\ Counts(f)
      BY <1>1, <3>1, AutoPauseFlags
    <3>3. Quiet(f) /\ (Wanted(m) => Wanted(f))
      BY <1>1, <3>1, AutoPauseQuiet
    <3>4. m' = IF conf.idle THEN autoPause(f, "user_active", world.userActive) ELSE f
      BY <2>2 DEF OnTimer
    <3>5. QED
      BY <3>1, <3>2, <3>3, <3>4, AutoPauseQuiet
  <2>3. QED
    BY <2>1, <2>2
<1>4. QED
    BY <1>2, <1>3 DEF QuietInv, OnlyWantedRun, PoollessPaused, Quiet, Wanted

(* What gives the threads a job                                               *)
LEMMA JobHandlersQuiet ==
    ASSUME IInv, QuietInv,
           SetJobEnd \/ OnDatasetReady \/ \E j \in Jobs : SetJobBegin(j)
    PROVE  QuietInv'
<1>1. m \in Flags
    BY DEF IInv, TypeOK
<1>2. ASSUME NEW j \in Jobs, SetJobBegin(j) PROVE QuietInv'
  <2>1. ~inLoop'
    BY <1>2, JobAssumption DEF SetJobBegin, inLoop
  <2>2. \/ m' = m /\ threads' = threads
        \/ threads' = NoThreads
        \/ m' = [m EXCEPT !.paused = TRUE]
    BY <1>2 DEF SetJobBegin
  <2>3. QED
    BY <1>1, <2>1, <2>2 DEF QuietInv, OnlyWantedRun, PoollessPaused, Flags
<1>3. CASE SetJobEnd
  <2> DEFINE a == [m EXCEPT !.active = TRUE]
  <2>1. /\ a \in Flags /\ a.active
        /\ a.enabled = m.enabled /\ a.paused = m.paused
    BY <1>1 DEF Flags
  <2>2. Quiet(a)
    BY <2>1 DEF Quiet
  <2>3. \/ m' = a /\ threads' = threads
        \/ m' = jobChanged(a)
    BY <1>3 DEF SetJobEnd
  <2>4. CASE m' = a /\ threads' = threads
    BY <2>1, <2>4 DEF QuietInv, OnlyWantedRun, PoollessPaused
  <2>5. CASE m' = jobChanged(a)
    BY <2>1, <2>2, <2>5, JobChangedQuiet
       DEF QuietInv, OnlyWantedRun, PoollessPaused, Quiet, Wanted
  <2>6. QED
    BY <2>3, <2>4, <2>5
<1>4. CASE OnDatasetReady
  <2>1. inLoop /\ inLoop'
    BY <1>4 DEF OnDatasetReady, inLoop
  <2>2. Quiet(m)
    BY <2>1 DEF QuietInv, PoollessPaused, Quiet
  <2>3. \/ m' = m /\ threads' = threads
        \/ m' = jobChanged(m)
    BY <1>4 DEF OnDatasetReady
  <2>4. CASE m' = m /\ threads' = threads
    BY <2>1, <2>4 DEF QuietInv, OnlyWantedRun, PoollessPaused
  <2>5. CASE m' = jobChanged(m)
    BY <1>1, <2>2, <2>5, JobChangedQuiet
       DEF QuietInv, OnlyWantedRun, PoollessPaused, Quiet, Wanted
  <2>6. QED
    BY <2>3, <2>4, <2>5
<1>5. QED
    BY <1>2, <1>3, <1>4

(* What pauses, and what is not the miner's                                   *)
LEMMA OthersQuiet ==
    ASSUME IInv, QuietInv,
           \/ PoolLost \/ NoncesEnd \/ DatasetDone
           \/ \E x \in [onBattery : BOOLEAN, userActive : BOOLEAN] : WorldChanges(x)
    PROVE  QuietInv'
<1>1. m \in Flags
    BY DEF IInv, TypeOK
<1>2. CASE PoolLost \/ NoncesEnd
  <2>1. m'.paused
    BY <1>1, <1>2 DEF PoolLost, NoncesEnd, Flags
  <2>2. QED
    BY <2>1 DEF QuietInv, OnlyWantedRun, PoollessPaused
<1>3. CASE UNCHANGED minerVars
    BY <1>3 DEF QuietInv, OnlyWantedRun, PoollessPaused, inLoop, minerVars
<1>4. QED
    BY <1>2, <1>3 DEF DatasetDone, WorldChanges

(* A miner that is paused or has no pool does not hash, for any jobs, sizes   *)
(* and thread profiles: however job changes, pool losses, late datasets, the  *)
(* timer, the console and the end of the nonce space follow each other, until *)
(* a stop or a reload is given.                                               *)
THEOREM PausedStaysQuiet == Spec => []PausedMeansQuiet
<1> DEFINE J == ~given => QuietInv
<1>1. Init => J
    BY DEF Init, QuietInv, OnlyWantedRun, PoollessPaused
<1>2. IInv /\ J /\ [Next]_vars => J'
  <2> SUFFICES ASSUME IInv, J, [Next]_vars, ~given' PROVE QuietInv'
    OBVIOUS
  <2>1. ~Stop /\ ~\E k \in Configs, p \in BOOLEAN : Reload(k, p)
    BY DEF Stop, Reload
  <2>2. given' = given
    BY <2>1 DEF Next, vars, envVars, SetJobBegin, SetJobEnd, OnDatasetReady,
                PoolLost, SetEnabled, OnTimer, NoncesEnd, DatasetDone, WorldChanges
  <2>3. QuietInv
    BY <2>2
  <2>4. CASE UNCHANGED vars
    BY <2>3, <2>4 DEF QuietInv, OnlyWantedRun, PoollessPaused, inLoop, vars, minerVars
  <2>5. QED
    BY <2>1, <2>3, <2>4, FlagHandlersQuiet, JobHandlersQuiet, OthersQuiet DEF Next
<1>3. J => PausedMeansQuiet
    BY DEF QuietInv, OnlyWantedRun, PausedMeansQuiet, Hashing
<1>4. QED
    BY <1>1, <1>2, <1>3, IInvHolds, PTL DEF Spec
-----------------------------------------------------------------------------
(* The job's threads are not forgotten                                        *)

(* JobIsLaunched is inductive by itself: what a handler does not launch is    *)
(* left to a notice that is still to come.                                    *)
LEMMA SetJobLaunches ==
    ASSUME IInv, SetJobEnd \/ \E j \in Jobs : SetJobBegin(j)
    PROVE  JobIsLaunched'
<1>1. CASE \E j \in Jobs : SetJobBegin(j)
    BY <1>1, JobAssumption DEF SetJobBegin, JobIsLaunched, inLoop
<1>2. CASE SetJobEnd
  <2>1. job' = main /\ conf' = conf
    BY <1>2 DEF SetJobEnd, envVars
  <2>2. CASE isRandomX(main) /\ ~isReady(main)
    <3>1. UNCHANGED serviceVars \/ Request(main.seed)
      BY <1>2, <2>2 DEF SetJobEnd
    <3>2. served' \in {served, NoSeed}
      BY <3>1 DEF serviceVars, Request
    <3>3. served' # job'.seed
      BY <2>1, <2>2, <3>2 DEF isRandomX, isReady
    <3>4. QED
      BY <2>1, <2>2, <3>3 DEF JobIsLaunched, isRandomX, isReady
  <2>3. CASE ~(isRandomX(main) /\ ~isReady(main))
    <3>1. threads' = backendSetJob(main, conf)
      BY <1>2, <2>3 DEF SetJobEnd
    <3>2. QED
      BY <2>1, <3>1 DEF JobIsLaunched, backendSetJob
  <2>4. QED
    BY <2>2, <2>3
<1>3. QED
    BY <1>1, <1>2

(* Miner::onDatasetReady returns early for a job that waits only when another *)
(* dataset is being built, and then this one is not handed out.               *)
LEMMA DatasetReadyLaunches ==
    ASSUME IInv, JobIsLaunched, OnDatasetReady
    PROVE  JobIsLaunched'
<1>1. /\ inLoop /\ UNCHANGED <<job, main, conf, given>>
      /\ UNCHANGED <<busy, served>>
    BY DEF OnDatasetReady, TakeNotice, envVars
<1>2. CASE job # NoJob /\ ~busy /\ isRandomX(job) /\ isReady(job)
    BY <1>1, <1>2 DEF OnDatasetReady, JobIsLaunched, backendSetJob
<1>3. CASE ~(job # NoJob /\ ~busy /\ isRandomX(job) /\ isReady(job))
  <2>1. threads' = threads
    BY <1>3 DEF OnDatasetReady
  <2>2. job = NoJob \/ ~isRandomX(job) \/ ~isReady(job)
    BY <1>3 DEF IInv, ServedIsIdle, isRandomX, isReady
  <2>3. QED
    BY <1>1, <2>1, <2>2
       DEF JobIsLaunched, backendSetJob, inLoop, isRandomX, isReady
<1>4. QED
    BY <1>2, <1>3

(* Everything else but the two commands that the property excludes            *)
LEMMA OthersLaunched ==
    ASSUME JobIsLaunched,
           \/ PoolLost \/ OnTimer \/ NoncesEnd \/ DatasetDone
           \/ \E e \in BOOLEAN : SetEnabled(e)
           \/ \E x \in [onBattery : BOOLEAN, userActive : BOOLEAN] : WorldChanges(x)
           \/ UNCHANGED vars
    PROVE  JobIsLaunched'
<1>1. UNCHANGED <<job, threads, main, conf, given>>
    BY DEF PoolLost, OnTimer, NoncesEnd, DatasetDone, SetEnabled, WorldChanges,
           vars, minerVars, envVars
<1>2. UNCHANGED <<served, notice>> \/ notice' = TRUE
    BY DEF PoolLost, OnTimer, NoncesEnd, DatasetDone, SetEnabled, WorldChanges,
           Complete, vars, envVars, serviceVars
<1>3. CASE UNCHANGED <<served, notice>>
    BY <1>1, <1>3 DEF JobIsLaunched, backendSetJob, inLoop, isRandomX, isReady
<1>4. CASE notice' = TRUE
    BY <1>1, <1>4 DEF JobIsLaunched, backendSetJob, inLoop, isRandomX
<1>5. QED
    BY <1>2, <1>3, <1>4

(* Until a stop or a reload, a job whose dataset is there, and whose notice   *)
(* was taken, has its threads: the notice of a dataset is never spent on a    *)
(* handler that leaves the waiting job without them.                          *)
THEOREM JobLaunched == Spec => []JobIsLaunched
<1>1. Init => JobIsLaunched
    BY DEF Init, JobIsLaunched
<1>2. ASSUME IInv, JobIsLaunched, [Next]_vars PROVE JobIsLaunched'
  <2>1. CASE given'
    BY <2>1 DEF JobIsLaunched
  <2>2. CASE ~given'
    <3>1. ~Stop /\ ~\E k \in Configs, p \in BOOLEAN : Reload(k, p)
      BY <2>2 DEF Stop, Reload
    <3>2. QED
      BY <1>2, <3>1, SetJobLaunches, DatasetReadyLaunches, OthersLaunched DEF Next
  <2>3. QED
    BY <2>1, <2>2
<1>3. QED
    BY <1>1, <1>2, IInvHolds, PTL DEF Spec

-----------------------------------------------------------------------------
(* The miner keeps to the service                                             *)

(* Every handler of the miner moves the dataset queue as DatasetService       *)
(* allows, which is what RxQueue is proved to implement: Rx::init requests a  *)
(* seed a job carries, the notice is taken once, and nothing else touches it. *)
THEOREM MinerUsesService == Spec => ServiceSpec
<1>1. Init => ServiceInit
    BY DEF Init
<1>2. ASSUME IInv, [Next]_vars PROVE [ServiceNext]_serviceVars
  <2>1. CASE UNCHANGED serviceVars
    BY <2>1
  <2>2. CASE OnDatasetReady \/ DatasetDone
    BY <2>2 DEF OnDatasetReady, DatasetDone, ServiceNext
  <2>3. CASE SetJobEnd
    <3>1. main \in Jobs
      BY <1>2, <2>3 DEF SetJobEnd, inLoop, IInv, TypeOK
    <3>2. UNCHANGED serviceVars \/ (isRandomX(main) /\ Request(main.seed))
      BY <2>3 DEF SetJobEnd
    <3>3. isRandomX(main) => main.seed \in Seeds
      BY <3>1, JobAssumption DEF isRandomX
    <3>4. QED
      BY <3>2, <3>3 DEF ServiceNext
  <2>4. QED
    BY <1>2, <2>1, <2>2, <2>3
       DEF Next, SetJobBegin, PoolLost, SetEnabled, Stop, Reload, OnTimer,
           NoncesEnd, WorldChanges, vars
<1>3. QED
    BY <1>1, <1>2, IInvHolds, PTL DEF Spec, ServiceSpec
=============================================================================
