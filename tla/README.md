# VeloxHash in TLA+

VeloxHash is a CPU/GPU miner (a C++ program derived from XMRig) with a set of
service scripts around it. This directory models the part of it that several
threads and many handlers steer together, checks it with TLC on small
instances, and proves its main safety properties with TLAPS for every value of
the constants. Paths below are relative to the repository root.

## 1. The system

The program has one *main thread* that runs a libuv loop, and many others. All
pool, timer, console, HTTP and configuration handlers run on the main thread,
one at a time and to their end. Concurrent with it are the *worker threads*
(they hash), the *background thread* of the RandomX dataset queue (it builds a
2 GB dataset), and thread-pool work.

| Part | State | Operations | Talks to |
|---|---|---|---|
| Dataset queue, `src/crypto/rx/RxQueue.cpp`, `RxBasicStorage.cpp` | `m_state`, `m_seed`, `m_queue`, storage and its seed, a pending async | `enqueue`, `isReady`, `dataset`, `backgroundInit`, `onReady`, destructor | asked by `Rx::init`; tells `Miner::onDatasetReady` through a libuv async |
| Nonce allocator, `src/crypto/common/Nonce.{h,cpp}` | a counter per job index, `m_paused`, a sequence number per backend | `next`, `reset`, `pause`, `touch`, `stop` | workers take chunks; the controller resets, pauses, touches |
| Controller, `src/core/Miner.cpp` | current job, `enabled`, `active`, `battery_power`, `user_active`, `auto_pause`, `reset`, `userJobId` | `setJob`, `pause`, `setEnabled`, `stop`, `onTimer`, `onConfigChanged`, `onDatasetReady`, JSON-RPC and console commands | everything in this table |
| CPU backend and workers, `src/backend/cpu/`, `src/backend/common/` | launched threads and their launch data; per worker its job slots and sequence number | `CpuBackend::setJob/stop`, `Workers::start/stop`, `CpuWorker::start`, `consumeJob`, `WorkerJob::add/nextRound` | read the shared job, pause flag and sequence numbers |
| Results, `src/net/JobResults.cpp` | a list under a mutex, an async | `submit`, `stop` | from workers to Network |
| Network and strategies, `src/net/`, `src/base/net/stratum/strategies/` | active pool, donation state, retries | connect, tick, job, close, submit | give the controller jobs and pauses |
| Stratum client, `src/base/net/stratum/Client.cpp` | connection state, failures, expected replies | connect, login, parse, submit, ping, reconnect | the strategies |
| Self-select client, `src/base/net/stratum/SelfSelectClient.cpp` | wait/retry state, failures, the job, the last template | job, tick, submit, daemon and pool answers | a stratum client inside, a daemon by HTTP, the strategies |
| Configuration, API, console, life cycle, `src/base/`, `src/App.cpp` | configuration, watchers | reload, commands, start and stop order | the controller |
| Service scripts, `scripts/`, `deploy/` | environment file, systemd unit, cluster registry | policy, switch, heartbeat, backup | files and systemd |
| GPU backends, hash kernels, transport, third-party code | - | - | not core logic |

PROJECT.json lists every part with its files and its status.

What is hard here:

* the dataset queue hands work over with a mutex, a condition variable and an
  async, and `Rx::init` takes the mutex twice;
* the workers are steered with *no* blocking at all: two atomic words and a
  copied job, written in one order by the handlers and read in another by the
  workers; sequence numbers start over after a stop;
* the pause flag has five writers (pool loss, commands, timer, end of the nonce
  space, stop) and means something different to each;
* the nonce counter is shared by callers with different chunk sizes and is
  reset under them; words wrap at 2^32, masks are up to 63 bits;
* two automatic pause reasons and a manual switch share one flag and a counter,
  and the options that turn the reasons on can change at any time;
* a pool client outlives its sockets and is called back by resolver, socket and
  timer in any order, with one deadline for connecting, answering and retrying;
* two strategies feed one miner, and each decides from what the other says of
  itself in the middle of its own change of state;
* the service scripts change files that other scripts and the service read, in
  separate steps, without locks, and any of them may be killed.

What makes the parts correct: a dataset reported ready is the right one, and no
request, wake-up or notice is lost; no nonce is handed out twice and the end of
the space is announced; threads fit the job they get; a paused or pool-less
miner is quiet; every change reaches every worker; stop ends; the miner works
for a pool that is there, shares go back to the session they belong to, and a
pool that can be reached is found again; a lost connection is reported, and
tried again; the service runs what its file says; what the registry acknowledged
stays in it. Section 3 says which of these hold.

## 2. Modules

| Module | Models | Extends |
|---|---|---|
| `DatasetService` | abstract: what the dataset queue promises the miner | - |
| `PoolClient` | abstract: what a pool strategy and a client may do to each other | - |
| `RxQueue` | the queue, the basic storage, the background thread and the main thread's calls; refines `DatasetService` | - |
| `Nonce` | `Nonce::next` one shared access at a time, `reset`, `pause` | - |
| `Miner` | every state-changing handler of the controller, on top of `DatasetService` | `DatasetService` |
| `Mining` | handlers and worker loops interleaved on `m_sequence`, `m_paused` and the job | - |
| `Pools` | `Network`, the pool strategies, the donation and the way of a share: who feeds the miner; every client is used as a `PoolClient` | - |
| `StratumClient` | `Client`: one pool connection and its sockets; refines `PoolClient` | - |
| `SelfSelect` | `SelfSelectClient`: a pool whose block templates come from a daemon | - |
| `ServicePolicy` | the scripts that switch mining on and off, step by step, against the service's file | - |
| `ClusterRegistry` | the primary's registry file under concurrent heartbeats and crashes | - |
| `MC...` | instances for TLC | the above |
| `...Proofs` | theorems and proofs | the above, `TLAPS` |

`Pools` sees a client as its strategy does and `StratumClient` opens one up:
`PoolClient` is what lies between, implemented by the one and used by the other;
`SelfSelect` takes a client's logins, jobs and closes as inputs;
`Miner` takes jobs, pauses and pool losses as inputs, which `Pools` produces;
`RxQueue` implements the `DatasetService` that `Miner` runs on; `Nonce` and
`Mining` share the sequence numbers. The scripts meet the program only where the
service is started.

Definitions whose comment starts with "Slip" are deliberately wrong variants of
the definition after them. No specification uses them; they show that each
property notices a plausible mistake in the code.

### RxQueue

The variables are the members of `RxQueue` and `RxBasicStoragePrivate`, the
program counters of both threads, and what the main thread remembers (the
current job's seed, and the seed mining was started for). A region under
`m_mutex` that does not block is one step; what lies between an unlock and the
next lock is another. So `SetJob` (the `isReady` of `Rx::init`) and `Enqueue`
are two steps of the main thread, and the notify after the unlock a third;
`BgTake` is the wait loop and the take, `BgSetSeed` ... `BgBuild` run without
the mutex, `BgFinish` takes it again. `SpuriousWake` is the condition
variable's right to wake for nothing. A failed allocation frees the object and
clears the pointer in two steps, because `isAllocated()` may look in between.
Hashing of the dataset itself is one step, `BgBuild`.

The refinement mapping to `DatasetService` is: newest request = `m_seed`, busy =
`m_state` is PENDING, served = `m_seed` if `dataset()` would hand it out, notice
= the async is pending.

### Nonce

One action per shared access of `Nonce::next`: `Begin` (with the first
`fetch_add`), then `Refuse`, `End`, `Retry` (another `fetch_add`) or `Grant`. A
call may be overtaken by `Reset` between the two. `epoch`, `granted`, `used` and
`ended` are history. `Word` is 2^32 in the program and a constant here; a mask
is below a word or fills whole words, as `Job::nonceMask` makes them.

### Miner

The state is `MinerPrivate`'s flags with `m_paused`, the current job and
algorithm, what the CPU threads were launched for, the configuration, and what
the platform reports. One action per handler; `setJob` is two, because the
background thread may finish between its two looks at the dataset. The dataset
queue appears as `DatasetService`, which `RxQueue` implements. `Hashing` is
derived: threads run, the flag is clear, the job has its dataset. `given` is
history: a stop or a reload was given.

### Mining

`CpuWorker::start` and `consumeJob` as a program counter per worker with one
shared read or write per step, against the handlers' writes one at a time
(`SetJob`, `HandlePause`, `Launch`, `HandleTouch`, `HandleResume`; `PoolLost` or
`SetEnabled`, then `Touch`; `Stop`, `StopSequence`, `Join`). Jobs are of one
algorithm that needs no dataset. The end of the nonce space is a
nondeterministic outcome of `HashOne`, which may pause, leave the loop or both; the
counters are in `Nonce`. Of its copy of a job a worker's state has the blob.
`lastUser` is history: the last job of the user's pool.

### Pools

Everything here runs on the main thread, but one event goes through many
objects: the loss of a pool is `Client::reconnect`, then the strategy's
`onClose`, then `Network::onPause`, then perhaps `resume` of the other strategy
and `Miner::setJob`. So the state of all of them is one record, `net`, and every
method is an operator from `net` to `net`; an action is the whole chain of
calls, in the order of the code (`SetState` changes the state before it stops a
strategy, as `DonateStrategy::setState` does, because `Network` asks in between).
`net.cl` has a phase and a failure count per client, `net.strat` `m_index` and
`m_active` of both strategies, `net.donate` the donation's state, timer and
proxy, `net.miner` whether the miner is active, the index of its job and the
client it came from. `share` is a result between `JobResults::submit` (a worker)
and `Network::onJobResult` (the loop); the index of its job is all that tells
where it belongs. `Overtaken` names the one step in which a client is not used as
`PoolClient` says (section 3). `ConfigChanged` deletes the user's strategy with its clients.

### StratumClient

The members of `Client` that steer it are the record `c`, with the sockets it
ever opened: the code has one pointer, `m_socket`, and more than one `uv_tcp_t`
may be alive. `setState`, `close`, `reconnect`, `startTimeout` are operators, the
callbacks of resolver, connect, read and close, the tick and the calls of the
strategy are actions. `expire` and `keepAlive` are `m_expire` and `m_keepAlive`
being set: of time only the order is kept, a deadline may pass at any tick.
`told` is history: the listener heard `onLoginSuccess` and no `onClose` since.
A socket is `deaf` when it is open and nobody reads or closes it any more.

### SelfSelect

`self` holds the members of the client, and `selfSetState` (`setState` in the
code), `retry`, `getBlockTemplate` are operators on it. The names carry a `Self`
where `StratumClient` has the same, so that one module can prove things of both. The inner stratum client is what it tells: a login with its
first job, jobs, closes. A template carries the job it was fetched for, since the
daemon makes it for that job's wallet and extra nonce; a request carries its age,
which is what `onHttpData` compares (`m_sequence - id`). `submitblock` takes the
id of the template request that follows it, as in the code. `Fail` is every
answer that ends in `retry()` without an id being compared. `told`, `given` and
`accepted` are history: what the listener heard last, and whether the job it has
is the one the pool accepted. `orderly` is history too: since the login no job and
no answer of the pool overtook an answer, and the daemon's name was resolved.

### ServicePolicy

A command of `veloxhash-mining` or `veloxhash-policy` is a sequence of steps,
built as the shell functions are (`Script`), and a process takes one step at a
time: a read of the environment file, its truncation, its write, a restart. So
two commands, the timer's policy run, a respawn by systemd and a boot interleave
at every point, and a command may be killed at any of them. Of the file the four
keys are kept that decide what the service does; writes of the others (`Others`,
which `wallet set` fills in where they read empty, `Default`) put the file back as it
was read; `veloxhash_run` is the service's
start-up script as a function of the file. The time of day, load and user
activity are one bit, `mayMine`.

### ClusterRegistry

A thread per heartbeat, with a program counter from `registry_load` to the
answer; `Open`, `Write` and `Replace` are the file system's steps of
`registry_save`. All threads use one temporary name, so a thread may truncate the
file another is writing, or rename it away while it is open (`fd` follows the
file), and what is renamed may be empty or one text over a longer one. A write of
one text is one step. The process may die at any step; the machine does not, so
nothing that was written is lost again. `acked` and `alone` are history.

## 3. Runs

Passing runs:

| Run | Properties | What it shows |
|---|---|---|
| `rxqueue` | `ReadyIsBuilt`, `PendingIsOwed`, `NoLostWakeup`, `FreedWhilePending`, `NoLostNotice`, `ImplementsService`, `JobIsServed`, `ShutdownEnds` | The queue never reports a seed whose dataset is not there or is being written, loses no request, wake-up or notice, never lets a deleted object matter, refines the service, serves every job that waits and always shuts down. |
| `nonce` | `NoNonceTwice`, `ChunkFits`, `EndIsAnnounced` | Chunks are disjoint between resets, fit mask and word, and the counter cannot pass the end without pausing mining. |
| `miner` | `ThreadsFitJob`, `CountsReasons`, `AutoPauseEnds`, `PausedMeansQuiet`, `JobIsLaunched`, `JobGetsHashed` | With stops and reloads at any time, threads were launched for the current job's scratchpad size, `auto_pause` neither drifts nor goes negative, and automatic pauses end with their reasons. Until the first stop or reload, "paused" and "no pools" mean no hashing, no notice of a dataset is spent without launching the threads of the job that waits for it, and jobs get hashed. |
| `mining` | `SequenceNotAhead`, `CounterFollowsUser`, `WorkersCatchUp` | No worker holds a sequence number from the future although numbers start over; the user's nonce counter goes on exactly when the pool has its last job again, also after a donation, or retargets that job's blob with no donation in between; and once mining goes on undisturbed every worker ends up with the current sequence number: none sleeps or circles for ever. |
| `pools` | `OnlyActiveLoggedIn`, `WorkIsLive`, `TimerLeadsOn`, `SharesGoHome`, `UsesPoolClients`, `AnyPoolServes` | Pools, donation and proxy fail, recover and log in in any order: no second session is kept, the miner works for a pool that is active or pauses, `setState`'s assertion holds, a share goes back to its session if that stands, a client is connected only while it has no socket, as `StratumClient` implements it, but for one backup (below), and none that was disconnected comes back by itself, and a switch to a backup is never a dead end. |
| `stratum` | `LossIsAnnounced`, `OneSocket`, `AnEventIsDue`, `ActsAsClient`, `KeepsTrying`, `SilentPoolIsLeft` | Until a pool redirects it the client does what `Pools` takes it to do; the strategy hears of every loss; without redirections no socket is overwritten or confused with another, and a client that is wanted always has a lookup, a callback or a deadline to come; the client keeps trying and leaves a pool that fell silent. |
| `selfselect` | `JobIsOwed`, `TemplateFitsJob`, `GivenWhenOpen`, `JobIsCompleted` | However late daemon and pool answer, and whatever is lost, no job is joined with another job's template, and a job goes only to a listener that takes the client for logged in; in an orderly world the client never waits without somebody owing it the next step, and the job the pool stays with is completed, however many tries failed before. |
| `cluster` | `AckedNodesKept`, `RegistryHeals` | Crashes and failed writes lose nothing that was acknowledged since heartbeats last met; what meeting heartbeats lose or garble comes back. |
| `policy` | `RunsTheFile`, `PolicyObeyed` | However the steps of two commands interleave, the service ends up running what the file says, and the policy's decision takes effect. |

Runs that find what the code does to disagree with what the repository says of
it (the findings in PROJECT.json quote the lines):

| Run | Property | What happens |
|---|---|---|
| `miner_battery` | `PausesOnBattery` | the battery option is turned off during one battery phase and on in the next: the remembered state is stale, no change is seen, mining goes on. |
| `mining_retarget` | `SameBlobContinues` | the pool retargets while a donation is mined: the user's blob comes back with a new id, is compared with the donation's blob, and its nonces start over. |
| `mining_stop` | `StopEnds` | a worker past `consumeJob`'s test adopts the 0 that `Nonce::stop` wrote, finds itself up to date and goes on; the main thread waits in `join()` until the nonce space ends. |

`StopEnds` is violated under weak fairness of every worker and handler, so the
hang is not a thread that is never run.

### What else the models show

These are consequences of the code that no statement of the repository
contradicts, or that a premise of a property or a bound leaves out. They are kept
here because a reader of the properties should know them.

* Pause, stop, reload: `Nonce::stop` clears the pause flag and `onConfigChanged`
  launches threads without `handleJobChange`; they hash while the API says
  paused (`Nonce.cpp:70`, `Miner.cpp:618`). `PausedMeansQuiet` therefore says
  nothing after a stop or a reload, and no property covers this side effect (the
  hazard at `Miner.cpp:620`).
* A worker copies the job before it reads the sequence number
  (`CpuWorker.cpp:508`): it may hash an old job under the current number until
  the next touch. `WorkersCatchUp` is about the numbers alone.
* A worker between its polling loop and `consumeJob` adopts the sequence number
  of the *next* pause and hashes through it, until something touches again
  (`CpuWorker.cpp:254`).
* `FailoverStrategy`'s `m_index` never goes back but at a login or a stop. With
  three pools, a middle one that recovers is not tried again while the last is
  active, and the next pool's client may be connected while its close is pending:
  the close callback then deletes the new socket. `PoolsAssumption` keeps `Pools`
  at two.
* `disconnect()` does not cancel a lookup: `m_failures` stays -1, yet the client
  goes on to connect and to log in. When the lookup of a backup outlasts the
  first pool's retries, `onClose` (`FailoverStrategy.cpp:147`) calls `connect()` on a
  backup that is still looking up, or that has a socket by now. In a lookup the
  second replaces the first (`m_dns`), which `PoolClient`, `StratumClient` and
  `Pools` all allow. Over a socket `Client::connect` overwrites `m_socket` and the
  older one stays open (`Client.cpp:561-568`): no module says what two sockets do
  to each other but for redirections, so `PoolClient.Connect` excludes this call,
  `StratumClient` does not take it, and `UsesPoolClients` has it as its only
  exception, `Overtaken`: a backup that was disconnected, has a socket, and is
  gone over to while the first pool's client is closed.
* `Client.cpp:821` compares the client's id where the response's seems meant: a
  pool that refuses a login and leaves the connection open holds the client
  there. `AnyPoolServes` has the premise that logins end (`LoginEnds`).
* `client.reconnect` (`Client.cpp:726`) opens a new connection and leaves the old
  one open: a line read there clears the deadline of the next try, and its close
  callback deletes the new socket. Hence `OldOneCloses`, the restriction of
  `OneSocket` to no redirection, and the bound of one redirection.
* Every submit sets the response's deadline anew (`Client.cpp:556`): a silent
  pool is not noticed while shares keep coming, so `SilentPoolIsLeft` asks for
  their end.
* `SinglePoolStrategy::stop` does not pause: after a reload the miner hashes the
  old pool's job until the new one logs in.
* The answer to `submitblock` has the id of the template request sent after it
  (`SelfSelectClient.cpp:285`): it passes the id test and, having none of the
  required fields, counts as a failure. Every block that is submitted to the origin
  so causes a retry, or at worst a switch to the backup.
* A self-select client that lost its pool goes on asking the daemon; a name that
  does not resolve is told to nobody (`HttpClient.cpp:79`) and a silent daemon has
  no deadline, so the client waits until the next job. The pool's acceptance of an
  earlier template sets `IdleState` (`SelfSelectClient.cpp:256`): it cancels the
  retry for the job that came since, and the listener gets that job without a
  block. `orderly` is the history variable that excludes these.
* A share is submitted to the origin in the template fetched last
  (`SelfSelectClient.cpp:276`), although after a job, a retry or another share that
  is not the one it was found with.
* With `m_failures` at `m_retries` + 1 the listener hears `onLoginSuccess` although
  no `onClose` came before it; the close comes with the next failure.
* `policy enable` or `mode auto`, overlapping with a policy run, may write the
  file last and not restart the service, and so leave it mining for good while
  the file says 0; a command that is killed between its write and its restart
  leaves the same, because the policy compares with the file and not with the
  service. `calm` is the history variable that excludes these.
* `config.json` is rewritten in place by every policy run; one killed in between
  leaves a file that every later run dies of. `PolicyObeyed` asks for a whole one
  again and again.
* A policy run that decided before `mode now` or `policy disable` sets the switch
  after it; no later run corrects it, because the timer is off. File and service
  agree then, and `PolicyObeyed` asks nothing of a disabled policy, so no property
  covers it.
* Heartbeats handled at once lose each other's nodes, and may publish an empty or
  garbled registry, which `registry_load` takes for an empty one.

Deadlock checking is off, except in `cluster`: a program that was shut down, that
has used up the bounded inputs of `Mining`, or whose bounded counters are spent,
may stop. In `pools`, `stratum`, `selfselect` and `policy` some event is always
possible or the client is gone. The type invariants are left to the proofs, which
have one for every module.

### Bounds

| Constant | Value | Why it is enough |
|---|---|---|
| `Seeds`, `MaxQueue` (RxQueue) | 3, 3 | one seed being built, one superseded in the queue, one newest; the queue is emptied at every take, so longer queues repeat length 2 |
| `Threads`, `Word`, `Masks`, `Reserves` (Nonce) | 2, 4, {3, 7}, {0, 2, 3} | one- and two-word spaces, a chunk that divides the word and one that does not, the refused chunk 0; a third thread only adds chunks above the counter |
| `MaxCounter`, `MaxEpoch`, `Indices` (Nonce) | 6, 1, {0} | calls start up to the last nonce but one, so chunks end before, at and behind the mask; one reset separates old and new chunks; indices are independent |
| `Jobs`, `l3`, `Profiles` (Miner) | 4 jobs, 2 sizes, 1-2 profiles | two seeds of one algorithm, a second algorithm of another size, and one without dataset of the first size |
| `Commands` (Miner, Mining) | subsets | which commands come at all; each run says which |
| `UserJobs`, `DonateJobs` (Mining) | a job and its retarget; one | the same job, the same blob under a new id, and another blob: first jobs and what follows a donation; a second blob of the user's pool right after the first is left to `UserCounter`, which is proved for any jobs |
| `MaxInputs` (Mining) | 3 or 4 | jobs and commands: user - donation - user, or job - pause - resume - pause; sequence numbers need no bound of their own |
| `Workers` (Mining) | 2 (1 in the violations) | workers interact only through the shared words; two show one that is late while another pauses mining |
| `UserPools`, `DonatePools`, `ProxyDonate` (Pools) | 2 pools, 1, `auto` | a first pool and a backup, the failover and the single-pool strategy, a proxy that is offered or not and that is given up; two is also what `PoolsAssumption` allows |
| `Retries` (Pools) | 2 | one failure that is not yet enough and one that is; failures count no further, nothing asks for more |
| `share` (Pools) | one at a time | the queue keeps the order and shares do not interact |
| `Sockets`, `MaxRedirects` (StratumClient) | 2, 1 | the current socket and the one a redirection left |
| `Jobs`, `Templates`, `MaxAge` (SelfSelect) | 3, 3, 2 | the job the listener has, the one a template is about, and a new one; a name nothing speaks of comes again, and once the pool has answered there is always one left; an answer to the newest request and one to an older one, which are all that the code tells apart |
| `Retries` (SelfSelect) | 1 | a failure that is retried quietly and one that is announced as a close |
| `Nodes`, `Handlers` (ClusterRegistry) | 2, 3 | a node whose record is lost by another's; a thread that truncates, one that writes, one that renames |
| `Admins`, `Timer`, `Commands` (ServicePolicy) | 1 shell, the timer, all ten | any command against a policy run; two shells with the timer no longer fit a run |
| `calm` in `Start` (ServicePolicy) | - | after a kill or a bad overlap no command starts before the next boot; the properties say nothing then |

`Threads` of `Nonce` are symmetric; symmetry is not used where liveness is
checked.

### Fairness

* `RxQueue!FairSpec`: the operating system runs the background thread (WF); the
  main thread finishes the handler it is in (WF); libuv dispatches a sent async
  although other events keep coming (SF on `OnReady`, disabled while a handler
  runs). No job and no shutdown is ever forced. `JobIsServed` excepts the run in
  which, again and again, a build ends exactly between `isReady()` and
  `enqueue()` of another job of the same seed: the second lock then starts the
  build over.
* `Miner!FairSpec`: WF on the end of `setJob` and on the build; SF on the notice
  and on the half-second timer, since both are disabled while a handler runs.
* `Mining!FairSpec`: WF on the handlers' remaining steps and on each worker. The
  inputs are not fair.
* `Pools!FairSpec`: resolver answers and close callbacks come (WF), and a client
  that waits is ticked (SF, because ticks come between other events). That a
  login ends, and that a pool lets the client in, are premises of
  `AnyPoolServes`.
* `StratumClient!FairSpec`: resolver, kernel and close callbacks answer (WF),
  ticks come (SF). The pool is not fair: it may be silent, refuse or redirect.
* `SelfSelect!SelfFairSpec`: the daemon answers one request or another, the pool accepts
  what it was sent, and the timer ticks (WF). That new jobs, shares, refusals and
  failures end is a premise of `JobIsCompleted`.
* `ClusterRegistry!FairSpec`: systemd starts the service again and threads go on
  (WF). That heartbeats keep coming, at last one at a time, and that crashes and
  full disks end, are premises of `RegistryHeals`.
* `ServicePolicy!FairSpec`: scripts go on, the timer fires, systemd tries again
  what exited (WF). `PolicyObeyed` says what holds when at last only the timer
  runs and the world stays as it is.

## 4. Proofs

All theorems hold for any constants that satisfy the named assumptions, which
TLC evaluates in the runs.

**RxQueueProofs** (`SeedAssumption`: the default seed equals no job's;
`QueueAssumption`: `MaxQueue` is positive). `IInv` strengthens the checked
invariants with what each program point of the background thread knows of the
storage (`StorageAtPoint`), that an IDLE queue is empty and its thread outside
`init()` (`IdleIsQuiet`), that its dataset is the one `m_seed` names
(`IdleIsBuilt`), that only the destructor ends things (`ShutdownIsMain`), and
the notice property up to the end of `enqueue()` (`NoticeAhead`). From it:
`TypeCorrect`, `ReadySound`, `NewestOwed`, `WakeupNotLost`, `FreedIsHidden`,
`NoticeNotLost`. `QueueImplementsService` proves the refinement step by step:
`Enqueue` is `Request`, `BgFinish` is `Complete`, `OnReady` is `TakeNotice`,
`Shutdown` is `Close`, everything else a stutter.

**NonceProofs** (`WordAssumption`, `MaskAssumption`, `ReserveAssumption`). The
core is `AllBelow`: every chunk, granted or still inside `next()`, taken since
the last reset ends at or below the counter, so a `fetch_add` starts above all
of them (`PendingApart`). `UsedIfMoved` ties the counter to the masks seen, and
`EndIsAnnounced` is inductive with it: the chunk that steps over the mask is
pending or has paused. `ChunksFit` needs that the last chunk of a mask that
fills whole words stays in its word (`LastChunkInWord`). Theorems:
`TypeCorrect`, `NoncesDisjoint`, `ChunksFit`, `EndAnnounced`.

**MinerProofs** (`JobAssumption`). `IInv` adds that a served dataset means the
service is idle (`ServedIsIdle`) and that threads and `algorithm` fit also
inside `setJob` (`ThreadsFit`, `AlgorithmFits`). Theorems: `TypeCorrect` (with
`auto_pause` in 0 .. 2, which needs the next), `ReasonsCounted`,
`ThreadsAlwaysFit`, `JobLaunched`, `MinerUsesService` and `PausedStaysQuiet`.
`QuietInv` is inductive as long as no stop and no reload was `given`: only a run
the user did not forbid is going on (`OnlyWantedRun`), and a miner without pools
has its workers paused (`PoollessPaused`). A stop or a reload can break both, see
section 3. `JobIsLaunched`, with the same premise, is inductive together with
`ServedIsIdle`: `onDatasetReady` returns early for a job that waits only while
another dataset is being built, and then none is served, so its notice is still to
come. `MinerUsesService` closes the gap between two modules: every step of the
miner, and of the build, is a step of `DatasetService` or leaves it alone, and
`QueueImplementsService` says that `RxQueue` is one.

**MiningProofs** (`JobAssumption`, any set of workers). `NeverAhead` needs that
threads are gone whenever the backend holds none (`Joined`) and that the
sequence number is 0 while a join is waited for (`Stopping`): only then may the
numbers start over. `UserCounter` rests on
what the miner remembers of the user's last job: while a job of the user's pool is
set it is that job, and `m_userJobId` is its id also while a donation is mined
(`RemembersUser`); ids tell jobs apart and the donation's blobs are its own
(`JobAssumption`), and nothing is assumed of how the user's pool pairs ids and
blobs, so retargets are included. Theorems: `TypeCorrect`, `NeverAhead`,
`UserCounter`.

**ClusterRegistryProofs** (any nodes, any number of threads). `AckedNodesKept` is
not inductive by itself: that a crash keeps what was acknowledged rests on what a
thread that is alone is about to publish (`OwnFile`): its copy has all of it, and
from its rename to its answer the registry has its own node. `AloneIsOnly` and
`MetIsNew` say why other threads do not disturb this: one that met another began
with nothing acknowledged. `KeptStepOf` reduces every step of a thread to the
case that it is alone. Theorems: `TypeCorrect`, `AckedKept`.

**PoolsProofs** (`PoolsAssumption`: one or two pools per strategy, two retries or
more, any donation mode). An action is a chain of calls, so each operator has a
lemma of its own that says what it keeps of the state `n` it is given. `Sane(n)`
holds between any two calls: a strategy's pools are its own (`Chosen`), none is
logged in but the active one (`OnlyActive`, for the donation's strategy too), the
donation's pools are at rest while there is a proxy and the proxy is while there
is none (`ProxyOrPools`), a job's index says whose it is (`Indexed`), and the
timer is right (`Timed`). `Live(n)` and `NoIdleProxy(n)` hold between events.
`ProxyOrPools` and `OnlyActive` of both strategies are what bring a share home: its
session still stands, so it is the one `Target` finds. Theorems: `TypeCorrect`,
`OneSession`, `TimerRight`, `SharesHome`, and `LiveWork`, which is about the
failover strategy (see `SinglePoolStrategy::stop` above).

`ClientsUsed` proves `UsesPoolClients`: but for a backup that is overtaken
(section 3), no step of the strategies, the donation or the proxy does to a client
what `PoolClient` does not allow. It rests on `Ready`:
while the first pool is the one that is tried, the backup is off or was
disconnected, while a pool is active it is the one that is tried (`ReadyAt`), and
a disconnected client neither waits for a retry nor is logged in (`Settled`), so
that one that is connected again looks up its host or has a socket, which is the
exception. Each call has a
lemma that says which clients it moves (`Connected`, `Stopped`), each action one
that says how (`Used`, and `Stepped` where a backup may be overtaken).

**StratumClientProofs** (`SocketAssumption`, any number of sockets). `IInv` says
what each state of the client knows of `m_socket` and of the others: a socket that
is named exists (`SocketLives`), one that connects is named and waited for
(`Connects`), a login is answered on the named one (`Asks`), and during a lookup
nobody takes the client for logged in (`LooksUp`), which is what makes
`LossIsAnnounced` inductive. Before a redirection there is at most one socket, and
none during a lookup or while the client waits (`One`, `Unsocketed`): therefore
the socket a `connect()` overwrites is gone. Theorems: `TypeCorrect`,
`LossAnnounced`, `SocketAlone`.

`ActsAsPoolClient` proves the refinement of `PoolClient` until a pool redirects
the client, `ImplementsPoolClient` the whole of `PoolClient!Spec` if none ever
does. The mapping takes a lookup from `m_dns`, not from the state, the phases
"login" and "in" from `told`, and "wanted" from `m_failures`. It needs that the
state of the client is the state of its socket (`Tidy`): a socket that is open
belongs to a connected client, one that closes to a closing client, and the login
is asked for on a session the listener does not know yet. `Connect`,
`Disconnect`, `DeleteLater`, `Resolved` and the answer to the login are the steps
of the same name, every way to lose a socket is `Dropped`, `reconnect()` is
`Closed`; reads, writes and pings do not show. With the same `Tidy`, and before a
redirection, a wanted client always has something to come (`EventsAreDue`): what
it waits for follows from its state, and each callback leaves the client in a
state whose event it has just asked for.

Its second part is about `SelfSelect` (`SelfSelectAssumption`, any jobs, templates
and retries). A
template fits the job it is put into because a request names the job it is made
for and only the newest request is listened to (`NewestAsks`), the job in hand is
a known one (`JobKnown`) and what is ready is the two together (`BlobFits`,
`Fitting`); a job reaches the listener only while the client is open because a
client that is not has failed or forgotten its job (`OpenOrFailed`, `GivenOpen`).
`JobIsOwed` needs to know what was sent: in an orderly world every message the
pool has not answered is about the job in hand and has its template, so an
acceptance, which cancels a retry, gives the listener that job (`OwedInv`). Theorems: `SelfTypeCorrect`, `TemplatesFit`,
`GivenToOpen`, `JobStaysOwed`.

**ServicePolicyProofs** (`CommandAssumption`: any of the ten commands; any number
of shells). What a command still has to do has one of five shapes: it will restart
the service whatever it finds (`Committed`), it may first end for want of a wallet
(`Starting`), it does not touch the file (`Quiet`), or it sets `POLICY_ENABLED`
with no restart of its own (`Enabling`, then `Truncating`, then `Restoring`). The
lemmas up to `ScriptIs` show that the scripts have them. Then either only commands
that restart run, and the service is as the file says or one of them is
`Committed` (`Together`), or one that does not restart runs alone and writes back
the lines it read (`Alone`). Theorems: `TypeCorrect`, `FileObeyed`.

Only model-checked are the three disagreements and the liveness properties:
`JobIsServed`, `ShutdownEnds`, `JobGetsHashed`, `AutoPauseEnds`, `WorkersCatchUp`,
`AnyPoolServes`, `KeepsTrying`, `SilentPoolIsLeft`, `JobIsCompleted`,
`RegistryHeals`, `PolicyObeyed`. They rest on fairness and `ENABLED`, which the
prover does not handle. Of four of them a safety core is proved, that nobody waits
for an event that cannot come: `WakeupNotLost` and `NoticeNotLost` for `JobIsServed`,
`JobLaunched` for `JobGetsHashed`, `EventsAreDue` for `KeepsTrying`, `JobStaysOwed`
for `JobIsCompleted`. Every invariant of a passing
run is a theorem, and so are both refinements, `UsesPoolClients` and
`CounterFollowsUser`.

## 5. What is not modelled, and the plan

To be modelled, as far as a run allows:

1. *Mining with counters*: compose `Nonce` and `Mining`, so that a chunk taken
   between the new job's publication and the reset of its counter, and a chunk
   `WorkerJob::save` failed to take, become visible (`Miner.cpp:124`,
   `WorkerJob.h:162`). With two workers `Mining` has a million states already,
   and the counters multiply them.
2. Three pools in `Pools`, with the sockets of `StratumClient`.
3. RxQueue with Mining: a worker's hash overlapping the next build of the
   dataset; NUMA storage, which keeps the queue's protocol and replicates what
   it builds; the slices of `RxDataset::init`.
4. Backup, restore and upgrade scripts under crashes; `Hashrate` as operators.

The map covers a small share of the repository's lines, and that will not change
much: most of them are hash kernels with their constant tables (`src/crypto/`,
GhostRider alone has over 70 000 lines), OpenCL and CUDA kernels, an
intrinsics emulation and generated assembly. These are pure functions on blocks
of bytes without control state, compared with test vectors by the program itself,
and no model short of a transliteration would say anything of them. What steers
the program is a few thousand lines, and those are the modules' subject.

Left out for good: hash kernels, GPU drivers, MSR and page allocation, sockets
and TLS, parsing, formatting and logging, the dashboard page, third-party code.
Within the modelled parts, left out are reports and hashrate printing, launch
status and benchmark, GhostRider's helper threads, self-tests and virtual
machines of the workers; in `RxQueue`, NUMA storage and MSR set-up; in `Pools`,
`setAlgo`, `setProxy` and the statistics; in `StratumClient`, message contents,
TLS and SOCKS5 handshakes; in `ServicePolicy`, `pool set` and `cpu set` (like
`token rotate`, on keys the service only passes on) and all output; in
`ClusterRegistry`, staleness and the commands of a node. The other clients
(daemon, ethstratum, auto) vary the stratum client's messages; in `SelfSelect`,
TLS, the fields of templates and what is sent between connect and login. Three
things are beyond the prover and stay with TLC: liveness under fairness,
`ENABLED`, and induction over data.
