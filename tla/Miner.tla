-------------------------------- MODULE Miner --------------------------------
(* The miner's controller, src/core/Miner.cpp, with what it drives: the pause *)
(* flag of Nonce, the threads of the CPU backend (CpuBackend::setJob/stop),   *)
(* and the dataset queue through the service it provides (DatasetService).    *)
(*                                                                            *)
(* Everything here runs on the main thread, one handler at a time: jobs and   *)
(* pool losses from Network, the half-second timer, the console and the       *)
(* JSON-RPC commands, configuration reloads, and the notice of a finished     *)
(* dataset.  Only the dataset itself is built concurrently, so Miner::setJob, *)
(* which looks at it twice, is two steps.                                     *)

EXTENDS DatasetService, Naturals, Integers

CONSTANTS Jobs,          \* [algo, seed] records; seed NoSeed: not RandomX
          NoJob,         \* the default-constructed Job
          l3,            \* algorithm -> size class of its scratchpad
          Profiles,      \* CPU thread profiles a configuration can hold
          NoThreads,     \* the CPU backend is disabled, or has no profile
          Commands       \* bound: which of "stop" and "reload" can be given

ASSUME JobAssumption ==
    /\ \A j \in Jobs : j.seed \in Seeds \cup {NoSeed} /\ j.algo \in DOMAIN l3
    /\ NoSeed \notin Seeds /\ NoThreads \notin Profiles /\ NoJob \notin Jobs

VARIABLES
    m,           \* the flags of MinerPrivate, and Nonce's m_paused
    job,         \* MinerPrivate::job
    algorithm,   \* MinerPrivate::algorithm, the algorithm of the last setJob
    threads,     \* what the CPU backend's threads were launched for
    conf,        \* the configuration in force
    world,       \* what Platform reports: on battery, user active
    main,        \* the loop, or the job a setJob is in the middle of
    given        \* history: a stop or a reload has been given

minerVars == <<m, job, algorithm, threads, main>>
envVars   == <<conf, world, given>>
vars      == <<minerVars, envVars, serviceVars>>

Flags == [enabled : BOOLEAN, active : BOOLEAN, paused : BOOLEAN,
          ticking : BOOLEAN, battery_power : BOOLEAN, user_active : BOOLEAN, auto_pause : 0 .. 2]

Configs == [battery : BOOLEAN, idle : BOOLEAN,
            cpu : Profiles \cup {NoThreads}]

Launches == [l3 : {l3[a] : a \in DOMAIN l3}, profile : Profiles]

TypeOK ==
    /\ m \in Flags
    /\ job \in Jobs \cup {NoJob}
    /\ algorithm \in DOMAIN l3 \cup {NoJob}
    /\ threads \in Launches \cup {NoThreads}
    /\ conf \in Configs
    /\ world \in [onBattery : BOOLEAN, userActive : BOOLEAN]
    /\ main \in Jobs \cup {NoJob}
    /\ given \in BOOLEAN
    /\ ServiceTypeOK

Init ==
    /\ m = [enabled |-> TRUE, active |-> FALSE, paused |-> TRUE,
            ticking |-> FALSE, battery_power |-> FALSE, user_active |-> FALSE, auto_pause |-> 0]
    /\ job = NoJob
    /\ algorithm = NoJob
    /\ threads = NoThreads
    /\ conf \in Configs
    /\ world \in [onBattery : BOOLEAN, userActive : BOOLEAN]
    /\ main = NoJob
    /\ given = FALSE
    /\ ServiceInit

inLoop == main = NoJob

-----------------------------------------------------------------------------
(* Pieces of the handlers                                                     *)

isRandomX(j) == j.seed # NoSeed

(* Rx::isReady(job)                                                           *)
isReady(j) == served = j.seed

(* Slips: threads are kept when only the profile is the same; a job change    *)
(* resumes without looking at active, or not at all.                          *)
keepsProfile(j, c) ==
    IF c.cpu = NoThreads \/ j = NoJob THEN NoThreads
    ELSE IF threads # NoThreads /\ threads.profile = c.cpu THEN threads
    ELSE [l3 |-> l3[j.algo], profile |-> c.cpu]

resumesInactive(f) == [f EXCEPT !.paused = ~f.enabled, !.ticking = TRUE]

staysPaused(f) == [f EXCEPT !.ticking = TRUE]

(* CpuBackend::setJob with configuration c: threads that fit are left         *)
(* running, others are stopped and new ones launched if the configuration has *)
(* any for the algorithm (it has none for the default job's).                 *)
backendSetJob(j, c) ==
    IF c.cpu = NoThreads \/ j = NoJob THEN NoThreads
    ELSE [l3 |-> l3[j.algo], profile |-> c.cpu]

(* MinerPrivate::handleJobChange on the flags: the timer is started the first *)
(* time.                                                                      *)
jobChanged(f) ==
    [f EXCEPT !.paused = IF f.enabled /\ f.active THEN FALSE
                         ELSE f.paused \/ ~f.enabled,
              !.ticking = TRUE]

(* Slips: a pause reason is counted whenever it is reported, not when it      *)
(* changes; the end of a reason does not resume.                              *)
countsReports(f, reason, now) ==
    [f EXCEPT ![reason] = now,
              !.auto_pause = @ + (IF now THEN 1 ELSE -1),
              !.enabled = @ /\ ~now]

neverResumes(f, reason, now) ==
    IF now = f[reason] THEN f
    ELSE [f EXCEPT ![reason] = now,
                   !.auto_pause = @ + (IF now THEN 1 ELSE -1),
                   !.enabled = @ /\ ~now]

(* Miner::setEnabled on the flags                                             *)
setEnabled(f, e) ==
    IF f.enabled = e \/ (conf.battery /\ f.battery_power /\ e) THEN f
    ELSE IF ~f.active THEN [f EXCEPT !.enabled = e]
    ELSE [f EXCEPT !.enabled = e, !.paused = ~e]

(* The autoPause lambda of Miner::onTimer: only a change of what the platform *)
(* reports for the reason does anything.                                      *)
autoPause(f, reason, now) ==
    IF now = f[reason] THEN f
    ELSE LET g == [f EXCEPT ![reason] = now,
                            !.auto_pause = @ + (IF now THEN 1 ELSE -1)]
         IN  setEnabled(g, g.auto_pause = 0)

(* Miner::stop: Nonce::stop() clears the pause flag, the threads are joined   *)
Stopped(f) == [f EXCEPT !.paused = FALSE]

-----------------------------------------------------------------------------
(* Handlers                                                                   *)

(* Miner::setJob up to the lock: if the dataset is not ready, the old threads *)
(* are stopped or, for another seed of the same algorithm, paused.            *)
SetJobBegin(j) ==
    /\ inLoop
    /\ main' = j
    /\ algorithm' = j.algo
    /\ IF isRandomX(j) /\ ~isReady(j)
       THEN IF algorithm # j.algo
            THEN m' = Stopped(m) /\ threads' = NoThreads
            ELSE m' = [m EXCEPT !.paused = TRUE] /\ UNCHANGED threads
       ELSE UNCHANGED <<m, threads>>
    /\ UNCHANGED <<job, envVars, serviceVars>>

(* The rest of Miner::setJob.  Rx::init looks again: ready, or a request to   *)
(* the queue (none if this very seed is being built).                         *)
SetJobEnd ==
    /\ ~inLoop
    /\ main' = NoJob
    /\ job' = main
    /\ IF isRandomX(main) /\ ~isReady(main)
       THEN /\ IF busy /\ latest = main.seed THEN UNCHANGED serviceVars
               ELSE Request(main.seed)
            /\ m' = [m EXCEPT !.active = TRUE]
            /\ UNCHANGED threads
       ELSE /\ m' = jobChanged([m EXCEPT !.active = TRUE])
            /\ threads' = backendSetJob(main, conf)
            /\ UNCHANGED serviceVars
    /\ UNCHANGED <<algorithm, envVars>>

(* Slip: the notice lets the threads go that the job before left.             *)
OnReadyResumes ==
    /\ inLoop
    /\ TakeNotice
    /\ m' = IF job # NoJob /\ ~busy /\ isRandomX(job) /\ isReady(job)
            THEN jobChanged(m) ELSE m
    /\ UNCHANGED <<job, algorithm, threads, main, envVars>>

(* RxQueue::onReady and Miner::onDatasetReady                                 *)
OnDatasetReady ==
    /\ inLoop
    /\ TakeNotice
    /\ IF job # NoJob /\ ~busy /\ isRandomX(job) /\ isReady(job)
       THEN m' = jobChanged(m) /\ threads' = backendSetJob(job, conf)
       ELSE UNCHANGED <<m, threads>>
    /\ UNCHANGED <<job, algorithm, main, envVars>>

(* Miner::pause, called by Network when no pool is active                     *)
PoolLost ==
    /\ inLoop
    /\ m' = [m EXCEPT !.active = FALSE, !.paused = TRUE]
    /\ UNCHANGED <<job, algorithm, threads, main, envVars, serviceVars>>

(* Console `p' and `r', JSON-RPC "pause" and "resume"                         *)
SetEnabled(e) ==
    /\ inLoop
    /\ m' = setEnabled(m, e)
    /\ UNCHANGED <<job, algorithm, threads, main, envVars, serviceVars>>

(* JSON-RPC "stop"                                                            *)
Stop ==
    /\ inLoop
    /\ "stop" \in Commands
    /\ m' = Stopped(m)
    /\ threads' = NoThreads
    /\ given' = TRUE
    /\ UNCHANGED <<job, algorithm, main, conf, world, serviceVars>>

(* Miner::onConfigChanged.  With other pools the miner waits for their job;   *)
(* otherwise the backend gets the current job at once.                        *)
Reload(c, poolsChanged) ==
    /\ inLoop
    /\ "reload" \in Commands
    /\ conf' = c
    /\ threads' = IF poolsChanged THEN threads ELSE backendSetJob(job, c)
    /\ given' = TRUE
    /\ UNCHANGED <<m, job, algorithm, main, world, serviceVars>>

(* Miner::onTimer.  The timer runs from the first handleJobChange on.         *)
OnTimer ==
    /\ inLoop
    /\ m.ticking
    /\ LET f == IF conf.battery
                THEN autoPause(m, "battery_power", world.onBattery) ELSE m
       IN  m' = IF conf.idle
                THEN autoPause(f, "user_active", world.userActive) ELSE f
    /\ UNCHANGED <<job, algorithm, threads, main, envVars, serviceVars>>

(* The last chunk of the nonce space was taken: Nonce::next pauses.           *)
NoncesEnd ==
    /\ threads # NoThreads
    /\ ~m.paused
    /\ m' = [m EXCEPT !.paused = TRUE]
    /\ UNCHANGED <<job, algorithm, threads, main, envVars, serviceVars>>

(* The background thread finishes a dataset, or fails to allocate it.         *)
DatasetDone ==
    /\ Complete
    /\ UNCHANGED <<minerVars, envVars>>

(* The laptop is plugged or unplugged, the user comes or goes.                *)
WorldChanges(w) ==
    /\ world' = w
    /\ UNCHANGED <<minerVars, conf, given, serviceVars>>

Next ==
    \/ \E j \in Jobs : SetJobBegin(j)
    \/ SetJobEnd
    \/ OnDatasetReady
    \/ PoolLost
    \/ \E e \in BOOLEAN : SetEnabled(e)
    \/ Stop
    \/ \E c \in Configs, p \in BOOLEAN : Reload(c, p)
    \/ OnTimer
    \/ NoncesEnd
    \/ DatasetDone
    \/ \E w \in [onBattery : BOOLEAN, userActive : BOOLEAN] : WorldChanges(w)

(* The main thread finishes its handlers, the background thread its builds.   *)
Fairness ==
    /\ WF_vars(SetJobEnd)
    /\ SF_vars(OnDatasetReady)
    /\ WF_vars(DatasetDone)
    /\ SF_vars(OnTimer)

Spec     == Init /\ [][Next]_vars
FairSpec == Spec /\ Fairness

-----------------------------------------------------------------------------
(* Properties                                                                 *)

(* The workers really hash: they run, they are not paused, and they have the  *)
(* dataset of the job they fetch (allocateRandomX_VM waits for it).           *)
Hashing ==
    /\ threads # NoThreads
    /\ ~m.paused
    /\ job # NoJob
    /\ isRandomX(job) => isReady(job)

(* Safety: threads are never let loose on a job whose scratchpad is not the   *)
(* size they allocated: between two handlers, whatever mix of job changes,    *)
(* stops, reloads and late datasets happened, running threads were launched   *)
(* for the current job's size class.  (CpuWorker would leave its inner loop   *)
(* at once, over and over.)                                                   *)
ThreadsFitJob ==
    inLoop /\ threads # NoThreads => threads.l3 = l3[job.algo]

(* Safety: auto_pause counts exactly the reasons Miner::onTimer has seen and  *)
(* not yet seen go away, so it can neither drift nor go negative.             *)
CountsReasons ==
    m.auto_pause = (IF m.battery_power THEN 1 ELSE 0)
                 + (IF m.user_active THEN 1 ELSE 0)

(* Safety: as long as no stop and no reload was given, a miner whose API      *)
(* reports "paused" (enabled is false), and one that has lost its pools       *)
(* (Miner::pause, "no active pools, stop mining"), does not hash, whatever    *)
(* jobs and timers came since, and though a dataset built for the lost pool's *)
(* job becomes ready afterwards.  (Nonce::stop clears the pause flag, also    *)
(* for a job of another algorithm, and a reload then starts the threads.)     *)
PausedMeansQuiet == Hashing /\ ~given => m.enabled /\ m.active

(* Safety: without stop and reload, the notice of a dataset is not lost on    *)
(* the job that waits for it: between two handlers, once that dataset is      *)
(* there and its notice was taken, the threads are launched for the job, and  *)
(* a job that needs no dataset has them at once (setJob, onDatasetReady).     *)
JobIsLaunched ==
    ~given /\ inLoop /\ job # NoJob
        /\ (isRandomX(job) => isReady(job) /\ ~notice)
    => threads = backendSetJob(job, conf)

(* Liveness: with --pause-on-battery, a miner that stays on battery power     *)
(* ends up disabled for good: neither the console nor the API nor the end of  *)
(* the other reason enables it again.                                         *)
PausesOnBattery ==
    <>[](conf.battery /\ world.onBattery /\ m.ticking) => <>[]~m.enabled

(* Liveness: an enabled miner that gets a job starts hashing, unless it is    *)
(* paused, stopped or reloaded, loses its pools or has no threads, or the     *)
(* dataset's memory cannot be allocated, or jobs never stop replacing each    *)
(* other.                                                                     *)
JobGetsHashed ==
    \/ []<>(~inLoop)
    \/ (~inLoop /\ m.enabled) ~>
           \/ Hashing
           \/ ~m.enabled \/ ~m.active \/ conf.cpu = NoThreads \/ given
           \/ (inLoop /\ isRandomX(job) /\ ~busy /\ served = NoSeed)

(* Liveness: when both reasons for an automatic pause are gone for good, the  *)
(* timer enables a miner that was paused for one of them, in whatever order   *)
(* battery, user, console commands, stops and reloads came, provided that a   *)
(* reason that was counted has its option on in the end.                      *)
AutoPauseEnds ==
    <>[](/\ ~world.onBattery /\ (m.battery_power => conf.battery)
         /\ ~world.userActive /\ (m.user_active => conf.idle)) =>
        (m.auto_pause > 0 ~> m.enabled)
=============================================================================
