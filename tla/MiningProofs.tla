---------------------------- MODULE MiningProofs ----------------------------
(* Proofs about module Mining, for any number of workers and any jobs.        *)

EXTENDS Mining, TLAPS

(* Threads that were not launched, or were joined, have left their loop; and  *)
(* the sequence number is 0 while threads exist only between Nonce::stop and  *)
(* the join of the last one.                                                  *)
Joined   == ~running => \A t \in Workers : w[t].pc = "exit"
Stopping == /\ main = "joining" => sequence = 0
            /\ sequence = 0 /\ running => main = "joining"

IInv == TypeOK /\ Joined /\ Stopping /\ SequenceNotAhead

-----------------------------------------------------------------------------
(* Type correctness, one lemma per group of actions                           *)

(* A command or a step of a handler keeps the types of its variables.         *)
LEMMA MainType ==
    ASSUME TypeOK, Command \/ Handler
    PROVE  TypeOK'
<1>1. NewWorker \in WorkerStates
    BY DEF NewWorker, WorkerPcs, WorkerStates
<1>2. ASSUME NEW j \in AllJobs, NEW i \in {0, 1}, SetJob(j, i),
             i = 0 => j \in UserJobs
      PROVE  TypeOK'
  <2>1. job' \in Indexed
    BY <1>2 DEF SetJob, Indexed, Blobs
  <2>2. userJobId(j, i) \in {k.id : k \in UserJobs} \cup {NoJob}
    BY <1>2 DEF TypeOK, Controls, userJobId
  <2>3. needsReset(j, i) \in BOOLEAN
    BY Zenon DEF needsReset
  <2>4. c' \in Controls
    BY <1>2, <2>2, <2>3 DEF TypeOK, Controls, SetJob
  <2>5. lastUser' \in UserJobs \cup {NoJob}
    BY <1>2 DEF TypeOK, SetJob
  <2>6. QED
    BY <1>2, <2>1, <2>4, <2>5 DEF TypeOK, SetJob, MainPcs
<1>4. CASE PoolLost
  <2>1. c' \in Controls
    BY <1>4 DEF TypeOK, Controls, PoolLost
  <2>2. main' \in MainPcs /\ paused' = TRUE /\ inputs' \in Nat
    BY <1>4 DEF TypeOK, PoolLost, MainPcs
  <2>3. UNCHANGED <<sequence, job, running, w, lastUser>>
    BY <1>4 DEF PoolLost
  <2>4. QED
    BY <2>1, <2>2, <2>3 DEF TypeOK
<1>5. ASSUME NEW e \in BOOLEAN, SetEnabled(e) PROVE TypeOK'
  <2>1. c' \in Controls
    BY <1>5 DEF TypeOK, Controls, SetEnabled
  <2>2. paused' \in BOOLEAN
    BY <1>5, Zenon DEF TypeOK, SetEnabled
  <2>3. QED
    BY <1>5, <2>1, <2>2 DEF TypeOK, SetEnabled, MainPcs
<1>6. CASE Stop
  <2>1. main' \in MainPcs /\ paused' = FALSE /\ inputs' \in Nat
    BY <1>6 DEF TypeOK, Stop, MainPcs
  <2>2. UNCHANGED <<sequence, job, c, running, w, lastUser>>
    BY <1>6 DEF Stop
  <2>3. QED
    BY <2>1, <2>2 DEF TypeOK
<1>7. CASE HandlePause
  <2>1. paused' \in BOOLEAN
    BY <1>7, Zenon DEF HandlePause
  <2>2. QED
    BY <1>7, <2>1 DEF TypeOK, HandlePause, MainPcs
<1>8. CASE Launch
  <2>1. sequence' \in Nat /\ main' \in MainPcs
    BY <1>8 DEF TypeOK, Launch, MainPcs
  <2>2. running' \in BOOLEAN
    BY <1>8, Zenon DEF TypeOK, Launch
  <2>3. w' \in [Workers -> WorkerStates]
    BY <1>1, <1>8 DEF TypeOK, Launch
  <2>4. QED
    BY <1>8, <2>1, <2>2, <2>3 DEF TypeOK, Launch
<1>9. CASE HandleTouch
    BY <1>9 DEF TypeOK, HandleTouch, MainPcs
<1>10. CASE HandleResume
  <2>1. paused' \in BOOLEAN
    BY <1>10, Zenon DEF HandleResume
  <2>2. QED
    BY <1>10, <2>1 DEF TypeOK, HandleResume, MainPcs
<1>11. CASE Touch
    BY <1>11 DEF TypeOK, Touch, MainPcs
<1>12. CASE StopSequence
    BY <1>12 DEF TypeOK, StopSequence, MainPcs
<1>13. CASE Join
  <2>1. sequence' \in Nat /\ running' = FALSE /\ main' \in MainPcs
    BY <1>13 DEF TypeOK, Join, MainPcs
  <2>2. UNCHANGED <<paused, job, c, w, inputs, lastUser>>
    BY <1>13 DEF Join
  <2>3. QED
    BY <2>1, <2>2 DEF TypeOK
<1>14. ASSUME Command PROVE TypeOK'
    BY <1>2, <1>4, <1>5, <1>6, <1>14 DEF Command, AllJobs
<1>15. ASSUME Handler PROVE TypeOK'
    BY <1>7, <1>8, <1>9, <1>10, <1>11, <1>12, <1>13, <1>15 DEF Handler
<1>16. QED
    BY <1>14, <1>15

(* A worker that replaces its record by a well-typed one changes no other's.  *)
LEMMA PutOne ==
    ASSUME w \in [Workers -> WorkerStates], NEW t \in Workers,
           NEW r \in WorkerStates, Put(t, r)
    PROVE  /\ w' \in [Workers -> WorkerStates]
           /\ w'[t] = r
           /\ \A u \in Workers : u # t => w'[u] = w[u]
    BY DEF Put

(* What a worker's step can do to the shared state: it writes only its own    *)
(* record and the pause flag, and it takes its sequence number from the       *)
(* shared one.                                                                *)
LEMMA WorkerStep ==
    ASSUME TypeOK, NEW t \in Workers, Worker(t)
    PROVE  /\ TypeOK'
           /\ UNCHANGED <<sequence, mainVars>>
           /\ w[t].pc # "exit"
           /\ \A u \in Workers : u # t => w'[u] = w[u]
           /\ w'[t].sequence \in {w[t].sequence, sequence}
<1>1. /\ UNCHANGED <<sequence, mainVars>>
      /\ w[t].pc # "exit"
      /\ paused' \in {paused, TRUE}
    BY DEF Worker, Outer, TestPaused, Wake, Woken, Inner, HashOne, Behind,
           Consume, Fetch, Add, Save
<1>2. w[t] \in WorkerStates /\ sequence \in Nat /\ job \in Indexed \cup {NoJob}
    BY DEF TypeOK
<1>3. \E r \in WorkerStates : /\ Put(t, r)
                              /\ r.sequence \in {w[t].sequence, sequence}
  <2>1. ASSUME NEW to \in WorkerPcs, Go(t, to)
        PROVE  \E r \in WorkerStates : /\ Put(t, r)
                                       /\ r.sequence \in {w[t].sequence, sequence}
    <3>1. [w[t] EXCEPT !.pc = to] \in WorkerStates
      BY <1>2 DEF WorkerStates
    <3>2. [w[t] EXCEPT !.pc = to].sequence = w[t].sequence
      BY <1>2 DEF WorkerStates
    <3>3. QED
      BY <2>1, <3>1, <3>2 DEF Go
  <2>2. CASE Outer(t) \/ TestPaused(t) \/ Wake(t) \/ Inner(t) \/ HashOne(t)
    <3>1. \E to \in WorkerPcs : Go(t, to)
      BY <2>2 DEF Outer, TestPaused, Wake, Inner, HashOne, WorkerPcs
    <3>2. QED
      BY <2>1, <3>1
  <2>3. CASE Consume(t)
    <3>1. CASE sequence = 0
      <4>1. /\ Return(w[t]) \in WorkerStates
            /\ Return(w[t]).sequence = w[t].sequence
        BY <1>2 DEF Return, WorkerStates, WorkerPcs
      <4>2. QED
        BY <2>3, <3>1, <4>1 DEF Consume
    <3>2. CASE sequence # 0
      BY <2>1, <2>3, <3>2 DEF Consume, WorkerPcs
    <3>3. QED
      BY <3>1, <3>2
  <2>4. CASE Woken(t)
    <3> DEFINE r == [w[t] EXCEPT !.pc = IF sequence = 0 THEN "exit" ELSE "consume",
                                 !.back = "inner"]
    <3>1. r \in WorkerStates /\ r.sequence = w[t].sequence
      BY <1>2 DEF WorkerStates, WorkerPcs
    <3>2. QED
      BY <2>4, <3>1 DEF Woken
  <2>5. CASE Behind(t)
    <3> DEFINE r == [w[t] EXCEPT !.pc = IF paused THEN "outer" ELSE "consume",
                                 !.back = "outer"]
    <3>1. r \in WorkerStates /\ r.sequence = w[t].sequence
      BY <1>2 DEF WorkerStates, WorkerPcs
    <3>2. QED
      BY <2>5, <3>1 DEF Behind
  <2>6. CASE Fetch(t)
    <3> DEFINE r == [w[t] EXCEPT !.pc = "add", !.got = blobOf(job)]
    <3>1. blobOf(job) \in Blobs \cup {NoJob}
      BY <1>2 DEF blobOf, Indexed
    <3>2. r \in WorkerStates /\ r.sequence = w[t].sequence
      BY <1>2, <3>1 DEF WorkerStates, WorkerPcs
    <3>3. QED
      BY <2>6, <3>2 DEF Fetch
  <2>7. CASE Add(t)
    <3> DEFINE r == [w[t] EXCEPT !.pc = "save", !.sequence = sequence]
    <3>1. r \in WorkerStates /\ r.sequence = sequence
      BY <1>2 DEF WorkerStates, WorkerPcs
    <3>2. QED
      BY <2>7, <3>1 DEF Add
  <2>8. CASE Save(t)
    <3> DEFINE r == [Return(w[t]) EXCEPT !.current = w[t].got, !.got = NoJob]
    <3>1. r \in WorkerStates /\ r.sequence = w[t].sequence
      BY <1>2 DEF Return, WorkerStates, WorkerPcs
    <3>2. QED
      BY <2>8, <3>1 DEF Save
  <2>9. QED
    BY <2>2, <2>3, <2>4, <2>5, <2>6, <2>7, <2>8 DEF Worker
<1>4. PICK r \in WorkerStates : /\ Put(t, r)
                               /\ r.sequence \in {w[t].sequence, sequence}
    BY <1>3
<1>5. /\ w' \in [Workers -> WorkerStates]
      /\ w'[t] = r
      /\ \A u \in Workers : u # t => w'[u] = w[u]
    BY <1>4, PutOne DEF TypeOK
<1>6. TypeOK'
    BY <1>1, <1>5 DEF TypeOK, mainVars
<1>7. QED
    BY <1>1, <1>4, <1>5, <1>6

-----------------------------------------------------------------------------
(* The inductive step                                                         *)

(* A command never touches the sequence number or the workers.                *)
LEMMA CommandIInv ==
    ASSUME IInv, Command
    PROVE  IInv'
<1>1. TypeOK'
    BY MainType DEF IInv
<1>2. UNCHANGED <<sequence, running, w>>
    BY DEF Command, SetJob, PoolLost, SetEnabled, Stop
<1>3. main = "loop" /\ main' # "joining"
    BY DEF Command, SetJob, PoolLost, SetEnabled, Stop
<1>4. QED
    BY <1>1, <1>2, <1>3 DEF IInv, Joined, Stopping, SequenceNotAhead

(* The handlers: a number only grows while threads exist, except when it is   *)
(* zeroed, and then it stays 0 until they are gone.                           *)
LEMMA HandlerIInv ==
    ASSUME IInv, Handler
    PROVE  IInv'
<1>1. TypeOK'
    BY MainType DEF IInv
<1>2. CASE HandlePause \/ HandleResume
  <2>1. UNCHANGED <<sequence, running, w>> /\ main # "joining" /\ main' # "joining"
    BY <1>2 DEF HandlePause, HandleResume
  <2>2. QED
    BY <1>1, <2>1 DEF IInv, Joined, Stopping, SequenceNotAhead
<1>3. CASE Launch
  <2>1. CASE running
    BY <1>1, <1>3, <2>1 DEF IInv, Joined, Stopping, SequenceNotAhead, Launch
  <2>2. CASE ~running
    <3>1. \A t \in Workers : w'[t].sequence = 0
      BY <1>3, <2>2 DEF Launch, NewWorker
    <3>2. sequence' = sequence + 1 /\ running' /\ main' = "touching"
      BY <1>3, <2>2 DEF Launch
    <3>3. sequence \in Nat
      BY DEF IInv, TypeOK
    <3>4. QED
      BY <1>1, <3>1, <3>2, <3>3 DEF IInv, Joined, Stopping, SequenceNotAhead
  <2>3. QED
    BY <2>1, <2>2
<1>4. CASE HandleTouch \/ Touch
  <2>1. /\ sequence' = sequence + 1 /\ UNCHANGED <<running, w>>
        /\ main # "joining" /\ main' # "joining"
    BY <1>4 DEF HandleTouch, Touch
  <2>2. sequence \in Nat /\ \A t \in Workers : w[t].sequence \in Nat
    BY DEF IInv, TypeOK, WorkerStates
  <2>3. Joined' /\ Stopping'
    BY <2>1, <2>2 DEF IInv, Joined, Stopping
  <2>4. ASSUME NEW t \in Workers, w[t].pc # "exit"
        PROVE  w[t].sequence <= sequence + 1
    <3>1. sequence # 0
      BY <2>1, <2>4 DEF IInv, Joined, Stopping
    <3>2. w[t].sequence <= sequence
      BY <2>4, <3>1 DEF IInv, SequenceNotAhead
    <3>3. QED
      BY <2>2, <3>2
  <2>5. QED
    BY <1>1, <2>1, <2>3, <2>4 DEF IInv, SequenceNotAhead
<1>5. CASE StopSequence
    BY <1>1, <1>5 DEF IInv, Joined, Stopping, SequenceNotAhead, StopSequence
<1>6. CASE Join
  <2>1. sequence \in Nat
    BY DEF IInv, TypeOK
  <2>2. QED
    BY <1>1, <1>6, <2>1 DEF IInv, Joined, Stopping, SequenceNotAhead, Join
<1>7. QED
    BY <1>2, <1>3, <1>4, <1>5, <1>6 DEF Handler

(* A worker copies the shared number or keeps its own.                        *)
LEMMA WorkerIInv ==
    ASSUME IInv, NEW t \in Workers, Worker(t)
    PROVE  IInv'
<1>1. /\ TypeOK'
      /\ UNCHANGED <<sequence, running, main>>
      /\ w[t].pc # "exit"
      /\ \A u \in Workers : u # t => w'[u] = w[u]
      /\ w'[t].sequence \in {w[t].sequence, sequence}
    BY WorkerStep DEF IInv, mainVars
<1>2. running
    BY <1>1 DEF IInv, Joined
<1>3. sequence \in Nat
    BY DEF IInv, TypeOK
<1>4. SequenceNotAhead'
    BY <1>1, <1>3 DEF IInv, SequenceNotAhead
<1>5. QED
    BY <1>1, <1>2, <1>4 DEF IInv, Joined, Stopping

(* The invariant holds initially and every step keeps it.                     *)
THEOREM IInvHolds == Spec => []IInv
<1>1. Init => IInv
  <2>1. [NewWorker EXCEPT !.pc = "exit"] \in WorkerStates
    BY DEF NewWorker, WorkerStates, WorkerPcs
  <2>2. ASSUME Init PROVE TypeOK
    <3>1. w \in [Workers -> WorkerStates]
      BY <2>1, <2>2 DEF Init
    <3>2. c \in Controls
      BY <2>2 DEF Init, Controls
    <3>3. QED
      BY <2>2, <3>1, <3>2 DEF Init, TypeOK, MainPcs
  <2>3. Init => \A t \in Workers : w[t].pc = "exit"
    BY DEF Init, NewWorker
  <2>4. QED
    BY <2>2, <2>3 DEF Init, IInv, Joined, Stopping, SequenceNotAhead
<1>2. IInv /\ [Next]_vars => IInv'
  <2>1. ASSUME IInv, UNCHANGED vars PROVE IInv'
    BY <2>1 DEF IInv, TypeOK, Joined, Stopping, SequenceNotAhead, vars, mainVars
  <2>2. QED
    BY <2>1, CommandIInv, HandlerIInv, WorkerIInv DEF Next
<1>3. QED
    BY <1>1, <1>2, PTL DEF Spec

(* The variables of the controller and of every worker keep their types;      *)
(* userJobId in particular is always the id of a user's job, never of a       *)
(* donation's.                                                                *)
THEOREM TypeCorrect == Spec => []TypeOK
<1>1. IInv => TypeOK
    BY DEF IInv
<1>2. QED
    BY <1>1, IInvHolds, PTL

(* For any number of workers: no worker's sequence number is ever ahead of    *)
(* Nonce::m_sequence, although Nonce::stop starts the numbers over.           *)
THEOREM NeverAhead == Spec => []SequenceNotAhead
<1>1. IInv => SequenceNotAhead
    BY DEF IInv
<1>2. QED
    BY <1>1, IInvHolds, PTL

-----------------------------------------------------------------------------
(* The nonce counter of the user's pool                                       *)

(* userJobId names the last job of the user's pool, also while a donation job *)
(* is mined; the blob that is mined is that job's, or one of the donation's.  *)
RemembersUser ==
    /\ lastUser # NoJob => job # NoJob /\ c.userJobId = lastUser.id
    /\ lastUser = NoJob => c.userJobId = NoJob
    /\ job # NoJob /\ job.index = 0 =>
           lastUser # NoJob /\ job.blob = lastUser.blob
    /\ job # NoJob /\ job.index = 1 => \E k \in DonateJobs : job.blob = k.blob

(* What Miner::setJob leaves behind, for a job of either pool                 *)
LEMMA SetJobLeaves ==
    ASSUME TypeOK, NEW i \in {0, 1}, NEW j \in AllJobs, SetJob(j, i)
    PROVE  /\ job' \in Indexed /\ job' # NoJob
           /\ job'.id = j.id /\ job'.blob = j.blob /\ job'.index = i
           /\ c'.reset = needsReset(j, i) /\ c'.userJobId = userJobId(j, i)
           /\ lastUser' = IF i = 0 THEN j ELSE lastUser
<1>1. /\ job' = [id |-> j.id, blob |-> j.blob, index |-> i]
      /\ lastUser' = IF i = 0 THEN j ELSE lastUser
    BY DEF SetJob
<1>2. c \in Controls /\ c' = [c EXCEPT !.reset = needsReset(j, i), !.active = TRUE,
                                       !.userJobId = userJobId(j, i)]
    BY DEF SetJob, TypeOK
<1>3. c'.reset = needsReset(j, i) /\ c'.userJobId = userJobId(j, i)
    BY <1>2 DEF Controls
<1>4. job' \in Indexed
    BY <1>1 DEF Indexed, Blobs
<1>5. job' # NoJob
    BY <1>4, JobAssumption
<1>6. QED
    BY <1>1, <1>3, <1>4, <1>5

LEMMA SetJobRemembers ==
    ASSUME TypeOK, RemembersUser, NEW i \in {0, 1}, NEW j \in AllJobs,
           i = 0 => j \in UserJobs, i = 1 => j \in DonateJobs, SetJob(j, i)
    PROVE  RemembersUser'
<1>1. CASE i = 0
  <2>1. j # NoJob /\ j.id # NoJob
    BY JobAssumption
  <2>2. c'.userJobId = j.id /\ lastUser' = j
    BY <1>1, SetJobLeaves DEF userJobId
  <2>3. QED
    BY <1>1, <2>1, <2>2, SetJobLeaves DEF RemembersUser
<1>2. CASE i = 1
  <2>1. c'.userJobId = c.userJobId /\ lastUser' = lastUser
    BY <1>2, SetJobLeaves DEF userJobId
  <2>2. QED
    BY <1>2, <2>1, SetJobLeaves DEF RemembersUser
<1>3. QED
    BY <1>1, <1>2

(* needsReset finds out from the last job and userJobId what the property     *)
(* says of the last job of the user's pool.                                   *)
LEMMA ResetFollowsUser ==
    ASSUME TypeOK, RemembersUser, NEW j \in UserJobs
    PROVE  ~needsReset(j, 0) <=> /\ lastUser # NoJob
                                 /\ \/ j.id = lastUser.id
                                    \/ j.blob = lastUser.blob /\ job.index = 0
<1>1. lastUser \in UserJobs \cup {NoJob} /\ j \in AllJobs
    BY DEF TypeOK, AllJobs
<1>2. job # NoJob => job.index \in {0, 1}
    BY DEF TypeOK, Indexed
<1>3. ASSUME ~needsReset(j, 0)
      PROVE  /\ lastUser # NoJob
             /\ \/ j.id = lastUser.id
                \/ j.blob = lastUser.blob /\ job.index = 0
  <2>1. CASE job # NoJob /\ job.index = 1 /\ c.userJobId = j.id
    <3>1. j.id # NoJob
      BY <1>1, JobAssumption
    <3>2. QED
      BY <2>1, <3>1 DEF RemembersUser
  <2>2. CASE job # NoJob /\ job.blob = j.blob
    <3>1. job.index # 1
      BY <2>2, JobAssumption DEF RemembersUser
    <3>2. QED
      BY <1>2, <2>2, <3>1 DEF RemembersUser
  <2>3. QED
    BY <1>3, <2>1, <2>2 DEF needsReset
<1>4. ASSUME lastUser # NoJob, j.id = lastUser.id PROVE ~needsReset(j, 0)
  <2>1. lastUser \in AllJobs /\ j = lastUser
    BY <1>1, <1>4, JobAssumption DEF AllJobs
  <2>2. QED
    BY <1>2, <1>4, <2>1 DEF RemembersUser, needsReset
<1>5. ASSUME lastUser # NoJob, j.blob = lastUser.blob, job.index = 0
      PROVE  ~needsReset(j, 0)
    BY <1>5 DEF RemembersUser, needsReset
<1>6. QED
    BY <1>3, <1>4, <1>5

(* Every other step leaves the job, the last one of the user's and userJobId  *)
(* alone, and sets no job.                                                    *)
LEMMA OthersRemember ==
    ASSUME TypeOK, RemembersUser,
           \/ Handler \/ PoolLost \/ Stop \/ \E e \in BOOLEAN : SetEnabled(e)
           \/ \E t \in Workers : Worker(t)
           \/ UNCHANGED vars
    PROVE  RemembersUser' /\ ~SetsUserJob
<1>1. CASE Handler \/ PoolLost \/ Stop \/ \E e \in BOOLEAN : SetEnabled(e)
  <2>1. UNCHANGED <<job, lastUser>> /\ main' # "pausing"
    BY <1>1 DEF Handler, HandlePause, Launch, HandleTouch, HandleResume, Touch,
                StopSequence, Join, PoolLost, Stop, SetEnabled
  <2>2. \/ c' = c
        \/ c' = [c EXCEPT !.active = FALSE]
        \/ \E e \in BOOLEAN : c' = [c EXCEPT !.enabled = e]
    BY <1>1 DEF Handler, HandlePause, Launch, HandleTouch, HandleResume, Touch,
                StopSequence, Join, PoolLost, Stop, SetEnabled
  <2>3. c \in Controls
    BY DEF TypeOK
  <2>4. c'.userJobId = c.userJobId
    BY <2>2, <2>3 DEF Controls
  <2>5. QED
    BY <2>1, <2>4 DEF RemembersUser, SetsUserJob
<1>2. CASE UNCHANGED mainVars
    BY <1>2 DEF RemembersUser, SetsUserJob, mainVars
<1>3. ASSUME NEW t \in Workers, Worker(t) PROVE UNCHANGED mainVars
    BY <1>3, WorkerStep
<1>4. QED
    BY <1>1, <1>2, <1>3 DEF vars

(* For any jobs, retargets and number of donation jobs in between: the nonce  *)
(* counter of the user's pool goes on for its last job and for that job's     *)
(* blob sent anew, and starts over for every other one.  For a blob that is   *)
(* sent anew after a donation job it starts over too, which is what the run   *)
(* mining_retarget shows.                                                     *)
THEOREM UserCounter == Spec => CounterFollowsUser
<1> DEFINE Follows ==
        SetsUserJob =>
            (~c'.reset <=> /\ lastUser # NoJob
                           /\ \/ job'.id = lastUser.id
                              \/ job'.blob = lastUser.blob /\ job.index = 0)
<1>1. Init => RemembersUser
    BY DEF Init, RemembersUser
<1>2. IInv /\ RemembersUser /\ [Next]_vars => RemembersUser' /\ Follows
  <2>1. SUFFICES ASSUME TypeOK, RemembersUser, [Next]_vars
                 PROVE  RemembersUser' /\ Follows
    BY DEF IInv
  <2>2. ASSUME NEW j \in UserJobs, SetJob(j, 0) PROVE RemembersUser' /\ Follows
    <3>1. j \in AllJobs
      BY DEF AllJobs
    <3>2. RemembersUser'
      BY <2>1, <2>2, <3>1, SetJobRemembers
    <3>3. c'.reset = needsReset(j, 0) /\ job'.id = j.id /\ job'.blob = j.blob
      BY <2>1, <2>2, <3>1, SetJobLeaves
    <3>4. Follows
      BY <2>1, <3>3, ResetFollowsUser
    <3>5. QED
      BY <3>2, <3>4
  <2>3. ASSUME NEW j \in DonateJobs, SetJob(j, 1) PROVE RemembersUser' /\ Follows
    <3>1. j \in AllJobs
      BY DEF AllJobs
    <3>2. RemembersUser' /\ job'.index = 1
      BY <2>1, <2>3, <3>1, SetJobRemembers, SetJobLeaves
    <3>3. QED
      BY <3>2 DEF SetsUserJob
  <2>4. QED
    BY <2>1, <2>2, <2>3, OthersRemember DEF Next, Command
<1>3. QED
    BY <1>1, <1>2, IInvHolds, PTL DEF Spec, CounterFollowsUser
=============================================================================
