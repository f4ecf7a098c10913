------------------------------- MODULE Mining -------------------------------
(* The controller and the CPU worker threads: how Miner (src/core/Miner.cpp)  *)
(* and Workers (src/backend/common/Workers.cpp) steer the loops of            *)
(* CpuWorker::start through three pieces of shared memory, Nonce::m_sequence, *)
(* Nonce::m_paused and MinerPrivate::job.                                     *)
(*                                                                            *)
(* Nothing here waits for anything except join(): a handler writes the flags  *)
(* one after the other while every worker reads them one after the other, so  *)
(* each access is a step.  Jobs are of one algorithm that needs no dataset;   *)
(* Miner models algorithm changes and datasets, Nonce the nonce counters.     *)

EXTENDS Naturals

CONSTANTS Workers,      \* threads of the CPU backend
          UserJobs,     \* [id, blob] records from the user's pool
          DonateJobs,   \* [id, blob] records from the donation pool
          NoJob,        \* the default-constructed Job
          Commands,     \* bound: what happens: "pause", "pool", "stop"
          MaxInputs     \* bound: jobs and commands the main thread gets

AllJobs == UserJobs \cup DonateJobs

Blobs   == {j.blob : j \in AllJobs}

(* A job with the index its pool has: 0 the user's, 1 the donation's          *)
Indexed == [id : {j.id : j \in AllJobs}, blob : Blobs, index : {0, 1}]

(* What a worker's copy of a job is told apart by                             *)
blobOf(j) == IF j = NoJob THEN NoJob ELSE j.blob

(* Two jobs with the same id are the same job; the donation pool has jobs of  *)
(* its own; the default job has another blob and another id than all of them  *)
(* (Client::parseJob refuses a job without an id).                            *)
ASSUME JobAssumption ==
    /\ \A a, b \in AllJobs : a.id = b.id => a = b
    /\ \A a \in UserJobs, b \in DonateJobs : a.blob # b.blob
    /\ NoJob \notin AllJobs \cup Indexed
    /\ \A a \in AllJobs : a.blob # NoJob /\ a.id # NoJob
ASSUME BoundAssumption == MaxInputs \in Nat

VARIABLES
    sequence,    \* Nonce::m_sequence[CPU]: 0 tells the threads to exit
    paused,      \* Nonce::m_paused
    job,         \* MinerPrivate::job
    c,           \* the rest of MinerPrivate the handlers use
    main,        \* where the main thread is
    running,     \* CpuBackend has threads (they are not yet joined)
    w,           \* the workers
    \* history
    inputs,      \* jobs and commands so far
    lastUser     \* the last job of the user's pool that was set

mainVars == <<job, c, main, running, inputs, lastUser>>
vars     == <<sequence, paused, mainVars, w>>

(* handleJobChange() goes through pausing, launching, touching and resuming;  *)
(* stop() through stopping and joining; pause() and setEnabled() touch last.  *)
MainPcs == {"loop", "pausing", "launching", "touching", "resuming",
            "touch", "stopping", "joining"}

(* CpuWorker::start: the head of the outer loop, its pause test, the polling, *)
(* the inner loop and the pause test behind it; consumeJob: its test, job(),  *)
(* and the two halves of WorkerJob::add.                                      *)
WorkerPcs == {"outer", "test", "sleep", "woken", "inner", "hash", "behind",
              "consume", "fetch", "add", "save", "exit"}

Controls == [enabled : BOOLEAN, active : BOOLEAN, reset : BOOLEAN,
             userJobId : {j.id : j \in UserJobs} \cup {NoJob}]

WorkerStates == [pc : WorkerPcs, back : {"outer", "inner"}, sequence : Nat,
                 current : Blobs \cup {NoJob}, got : Blobs \cup {NoJob}]

TypeOK ==
    /\ sequence \in Nat
    /\ paused \in BOOLEAN
    /\ job \in Indexed \cup {NoJob}
    /\ c \in Controls
    /\ main \in MainPcs
    /\ running \in BOOLEAN
    /\ w \in [Workers -> WorkerStates]
    /\ inputs \in Nat
    /\ lastUser \in UserJobs \cup {NoJob}

(* A new CpuWorker: its WorkerJob has sequence 0 and the default job.         *)
NewWorker == [pc |-> "outer", back |-> "outer", sequence |-> 0,
              current |-> NoJob, got |-> NoJob]

Init ==
    /\ sequence = 1 /\ paused = TRUE /\ job = NoJob
    /\ c = [enabled |-> TRUE, active |-> FALSE, reset |-> FALSE,
            userJobId |-> NoJob]
    /\ main = "loop" /\ running = FALSE
    /\ w = [t \in Workers |-> [NewWorker EXCEPT !.pc = "exit"]]
    /\ inputs = 0 /\ lastUser = NoJob

-----------------------------------------------------------------------------
(* The main thread                                                            *)

(* Miner::setJob: whether the nonce counter starts over.  It does not when    *)
(* the user's job comes back after a donation, nor for the same blob again.   *)
needsReset(j, i) ==
    /\ ~(job # NoJob /\ job.index = 1 /\ i = 0 /\ c.userJobId = j.id)
    /\ ~(job # NoJob /\ job.blob = j.blob)

(* Slip: the donation job's id is remembered as the user's.                   *)
userIdAlways(j, i) == j.id

(* d_ptr->userJobId                                                           *)
userJobId(j, i) == IF i = 0 THEN j.id ELSE c.userJobId

(* Miner::setJob, under the mutex                                             *)
SetJob(j, i) ==
    /\ main = "loop" /\ inputs < MaxInputs
    /\ main' = "pausing"
    /\ job' = [id |-> j.id, blob |-> j.blob, index |-> i]
    /\ c' = [c EXCEPT !.reset = needsReset(j, i), !.active = TRUE,
                      !.userJobId = userJobId(j, i)]
    /\ inputs' = inputs + 1
    /\ lastUser' = IF i = 0 THEN j ELSE lastUser
    /\ UNCHANGED <<sequence, paused, running, w>>

(* handleJobChange: pause if disabled; the counter is reset here (Nonce)      *)
HandlePause ==
    /\ main = "pausing"
    /\ main' = "launching"
    /\ paused' = (paused \/ ~c.enabled)
    /\ UNCHANGED <<sequence, job, c, running, w, inputs, lastUser>>

(* CpuBackend::setJob and Workers::start: touch, then start the threads; they *)
(* are left alone if they run already.                                        *)
Launch ==
    /\ main = "launching"
    /\ main' = "touching"
    /\ IF running THEN UNCHANGED <<sequence, running, w>>
       ELSE /\ sequence' = sequence + 1
            /\ running' = TRUE
            /\ w' = [t \in Workers |-> NewWorker]
    /\ UNCHANGED <<paused, job, c, inputs, lastUser>>

HandleTouch ==
    /\ main = "touching"
    /\ main' = "resuming"
    /\ sequence' = sequence + 1
    /\ UNCHANGED <<paused, job, c, running, w, inputs, lastUser>>

HandleResume ==
    /\ main = "resuming"
    /\ main' = "loop"
    /\ paused' = (paused /\ ~(c.active /\ c.enabled))
    /\ UNCHANGED <<sequence, job, c, running, w, inputs, lastUser>>

(* Miner::pause, when no pool is left                                         *)
PoolLost ==
    /\ main = "loop" /\ "pool" \in Commands /\ inputs < MaxInputs
    /\ main' = "touch"
    /\ c' = [c EXCEPT !.active = FALSE]
    /\ paused' = TRUE
    /\ inputs' = inputs + 1
    /\ UNCHANGED <<sequence, job, running, w, lastUser>>

(* Miner::setEnabled                                                          *)
SetEnabled(e) ==
    /\ main = "loop" /\ "pause" \in Commands /\ inputs < MaxInputs
    /\ c.enabled # e
    /\ c' = [c EXCEPT !.enabled = e]
    /\ IF c.active THEN main' = "touch" /\ paused' = ~e
                   ELSE UNCHANGED <<main, paused>>
    /\ inputs' = inputs + 1
    /\ UNCHANGED <<sequence, job, running, w, lastUser>>

Touch ==
    /\ main = "touch"
    /\ main' = "loop"
    /\ sequence' = sequence + 1
    /\ UNCHANGED <<paused, job, c, running, w, inputs, lastUser>>

(* Miner::stop: Nonce::stop lets the sleepers go ...                          *)
Stop ==
    /\ main = "loop" /\ "stop" \in Commands /\ inputs < MaxInputs
    /\ main' = "stopping"
    /\ paused' = FALSE
    /\ inputs' = inputs + 1
    /\ UNCHANGED <<sequence, job, c, running, w, lastUser>>

(* ... and zeroes the sequence numbers; CpuBackend::stop has nothing to do    *)
(* without threads.                                                           *)
StopSequence ==
    /\ main = "stopping"
    /\ main' = IF running THEN "joining" ELSE "loop"
    /\ sequence' = 0
    /\ UNCHANGED <<paused, job, c, running, w, inputs, lastUser>>

(* Slip in Workers::stop: the sequence is touched before the threads are gone *)
JoinOne ==
    /\ main = "joining"
    /\ \E t \in Workers : w[t].pc = "exit"
    /\ main' = "loop"
    /\ running' = FALSE
    /\ sequence' = sequence + 1
    /\ UNCHANGED <<paused, job, c, w, inputs, lastUser>>

(* Workers::stop: join every thread, then touch                               *)
Join ==
    /\ main = "joining"
    /\ \A t \in Workers : w[t].pc = "exit"
    /\ main' = "loop"
    /\ running' = FALSE
    /\ sequence' = sequence + 1
    /\ UNCHANGED <<paused, job, c, w, inputs, lastUser>>

-----------------------------------------------------------------------------
(* A worker: CpuWorker::start                                                 *)

Put(t, r) == w' = [w EXCEPT ![t] = r]
Go(t, to) == Put(t, [w[t] EXCEPT !.pc = to])

(* while (Nonce::sequence(Nonce::CPU) > 0)                                    *)
Outer(t) ==
    /\ w[t].pc = "outer"
    /\ Go(t, IF sequence > 0 THEN "test" ELSE "exit")
    /\ UNCHANGED <<sequence, paused, mainVars>>

(* if (Nonce::isPaused())                                                     *)
TestPaused(t) ==
    /\ w[t].pc = "test"
    /\ Go(t, IF paused THEN "sleep" ELSE "inner")
    /\ UNCHANGED <<sequence, paused, mainVars>>

(* The polling ends when mining is resumed or stopped.                        *)
Wake(t) ==
    /\ w[t].pc = "sleep"
    /\ ~paused \/ sequence = 0
    /\ Go(t, "woken")
    /\ UNCHANGED <<sequence, paused, mainVars>>

Woken(t) ==
    /\ w[t].pc = "woken"
    /\ Put(t, [w[t] EXCEPT !.pc = IF sequence = 0 THEN "exit" ELSE "consume",
                           !.back = "inner"])
    /\ UNCHANGED <<sequence, paused, mainVars>>

(* while (!Nonce::isOutdated(...))                                            *)
Inner(t) ==
    /\ w[t].pc = "inner"
    /\ Go(t, IF w[t].sequence = sequence THEN "hash" ELSE "behind")
    /\ UNCHANGED <<sequence, paused, mainVars>>

(* The body: it is left at once for the default job, whose scratchpad size    *)
(* does not match; otherwise a hash is computed and the next nonce taken,     *)
(* which at the end of the nonce space pauses mining, leaves the loop, or     *)
(* both (Nonce::next).                                                        *)
HashOne(t) ==
    /\ w[t].pc = "hash"
    /\ IF w[t].current = NoJob THEN Go(t, "behind") /\ UNCHANGED paused
       ELSE \E to \in {"inner", "behind"} :
                Go(t, to) /\ (UNCHANGED paused \/ paused' = TRUE)
    /\ UNCHANGED <<sequence, mainVars>>

(* if (!Nonce::isPaused()) consumeJob()                                       *)
Behind(t) ==
    /\ w[t].pc = "behind"
    /\ Put(t, [w[t] EXCEPT !.pc = IF paused THEN "outer" ELSE "consume",
                           !.back = "outer"])
    /\ UNCHANGED <<sequence, paused, mainVars>>

(* consumeJob returns to where it was called.                                 *)
Return(r) == [r EXCEPT !.pc = r.back, !.back = "outer"]

(* consumeJob: nothing once stopped                                           *)
Consume(t) ==
    /\ w[t].pc = "consume"
    /\ IF sequence = 0 THEN Put(t, Return(w[t])) ELSE Go(t, "fetch")
    /\ UNCHANGED <<sequence, paused, mainVars>>

(* m_miner->job(), a copy made under the mutex                                *)
Fetch(t) ==
    /\ w[t].pc = "fetch"
    /\ Put(t, [w[t] EXCEPT !.pc = "add", !.got = blobOf(job)])
    /\ UNCHANGED <<sequence, paused, mainVars>>

(* Slip in WorkerJob::add: a worker that has the job keeps its sequence       *)
AddLazy(t) ==
    /\ w[t].pc = "add"
    /\ Put(t, [w[t] EXCEPT !.pc = "save",
                           !.sequence = IF w[t].current = w[t].got
                                        THEN @ ELSE sequence])
    /\ UNCHANGED <<sequence, paused, mainVars>>

(* WorkerJob::add: m_sequence = Nonce::sequence(backend) ...                  *)
Add(t) ==
    /\ w[t].pc = "add"
    /\ Put(t, [w[t] EXCEPT !.pc = "save", !.sequence = sequence])
    /\ UNCHANGED <<sequence, paused, mainVars>>

(* ... and the job becomes the current one of its slot                        *)
Save(t) ==
    /\ w[t].pc = "save"
    /\ Put(t, [Return(w[t]) EXCEPT !.current = w[t].got, !.got = NoJob])
    /\ UNCHANGED <<sequence, paused, mainVars>>

Worker(t) ==
    \/ Outer(t) \/ TestPaused(t) \/ Wake(t) \/ Woken(t) \/ Inner(t)
    \/ HashOne(t) \/ Behind(t) \/ Consume(t) \/ Fetch(t) \/ Add(t) \/ Save(t)

-----------------------------------------------------------------------------
Handler ==
    \/ HandlePause \/ Launch \/ HandleTouch \/ HandleResume
    \/ Touch \/ StopSequence \/ Join

Command ==
    \/ \E j \in UserJobs : SetJob(j, 0)
    \/ \E j \in DonateJobs : SetJob(j, 1)
    \/ PoolLost
    \/ \E e \in BOOLEAN : SetEnabled(e)
    \/ Stop

Next == Handler \/ Command \/ \E t \in Workers : Worker(t)

(* Handlers run to their end, and the operating system runs every thread.     *)
Fairness == WF_vars(Handler) /\ \A t \in Workers : WF_vars(Worker(t))

Spec     == Init /\ [][Next]_vars
FairSpec == Spec /\ Fairness

-----------------------------------------------------------------------------
(* Properties                                                                 *)

(* Safety: sequence numbers start over after a stop, and a worker compares    *)
(* its own with the shared one for equality only; still no worker ever holds  *)
(* a number that the shared one has not reached yet, so a stale number never  *)
(* comes to look current.  Workers::stop must join before it touches.         *)
SequenceNotAhead ==
    \A t \in Workers :
        w[t].pc # "exit" /\ sequence # 0 => w[t].sequence <= sequence

(* A step that sets a job of the user's pool                                  *)
SetsUserJob == main = "loop" /\ main' = "pausing" /\ job'.index = 0

(* Safety: the nonce counter of the user's pool goes on exactly when the pool *)
(* has its last job again, whatever donation jobs were mined in between, or   *)
(* sends the blob of that job anew with none in between.  Otherwise it starts *)
(* over: going on with a new blob wastes its nonces, starting over with an    *)
(* old job hashes them twice (Miner::setJob).                                 *)
CounterFollowsUser ==
    [][SetsUserJob =>
        (~c'.reset <=> /\ lastUser # NoJob
                       /\ \/ job'.id = lastUser.id
                          \/ job'.blob = lastUser.blob /\ job.index = 0)]_vars

(* Safety: what the comment in Miner::setJob asks for, "Don't reset nonce if  *)
(* pool sends the same hashing blob again, but with different difficulty (for *)
(* example)": the counter goes on for a job of the user's pool whose blob is  *)
(* that of its last one.                                                      *)
SameBlobContinues ==
    [][SetsUserJob /\ lastUser # NoJob /\ job'.blob = lastUser.blob
           => ~c'.reset]_vars

(* Liveness: once mining goes on undisturbed, every worker ends up with the   *)
(* current sequence number: none keeps sleeping or keeps going round its      *)
(* outer loop.  (It may have adopted the number after it copied the job that  *)
(* was there before the last touch, WorkerJob::add.)                          *)
WorkersCatchUp ==
    <>[](~paused /\ running /\ main = "loop") =>
        <>[](\A t \in Workers : w[t].sequence = sequence)

(* Liveness: a stop ends: the threads leave their loops and are joined.       *)
StopEnds == main = "joining" ~> main = "loop"
=============================================================================
