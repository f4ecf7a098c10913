------------------------------ MODULE SelfSelect ------------------------------
(* A pool connection in self-select mode: SelfSelectClient                    *)
(* (src/base/net/stratum/SelfSelectClient.cpp).  The pool's jobs come without *)
(* a block; for each the client fetches a template from a daemon by HTTP,     *)
(* tells the pool of it, and gives the job to its listener when the pool has  *)
(* accepted.  Both answer when they like, and new jobs, retries and (with     *)
(* submit-to-origin) shares start over in between.                            *)
(*                                                                            *)
(* m_client, the stratum client inside, is its events: a login, which brings  *)
(* the first job, further jobs, answers, closes.  `self' holds the members; a *)
(* method that changes them is an operator on them.  A template is a pair of  *)
(* a name and the job it was fetched for, and a request is known by its age,  *)
(* m_sequence minus its id, as onHttpData compares it.                        *)
(*                                                                            *)
(* The names of the specification carry a Self: one module of proofs is about *)
(* both this client and StratumClient.                                        *)

EXTENDS Integers, Sequences, SequencesExt

CONSTANTS Jobs,        \* job ids of the pool
          Templates,   \* names of templates
          None,        \* no job, no template
          Retries,     \* m_retries
          Origin,      \* m_submitToOrigin
          MaxAge       \* bound: requests that are under way at once

ASSUME SelfSelectAssumption ==
    /\ None \notin Jobs \cup Templates \cup (Templates \X Jobs)
    /\ None \notin Jobs \X (Templates \X Jobs)
    /\ Retries \in Nat /\ MaxAge \in Nat \ {0}
    /\ Origin \in BOOLEAN

VARIABLES
    self,     \* the client, and what it told: see SelfTypeOK
    pool,     \* logged in to the pool
    sent,     \* block_template messages the pool has not answered
    http,     \* requests the daemon has not answered
    orderly   \* history: since the login the pool answered in order, and before
              \* it sent a job, and the daemon's name was resolved

selfVars == <<self, pool, sent, http, orderly>>

Blobs == (Templates \X Jobs) \cup {None}

SelfTypeOK ==
    /\ DOMAIN self = {"active", "state", "failures", "job", "blob", "blocktemplate",
                      "told", "given", "accepted"}
    /\ self.active \in BOOLEAN
    /\ self.state \in {"Idle", "Wait", "Retry"}
    /\ self.failures \in 0 .. Retries + 1       \* more count as one more
    /\ self.job \in Jobs \cup {None}            \* m_job, its id ...
    /\ self.blob \in Blobs                      \* ... and its blob
    /\ self.blocktemplate \in Blobs
    /\ self.told \in BOOLEAN      \* the listener takes the client for logged in
    /\ self.given \in (Jobs \X Blobs) \cup {None}  \* the job the listener has
    /\ self.accepted \in BOOLEAN  \* history: that job is the one accepted
    /\ pool \in BOOLEAN
    /\ sent \in Seq(Jobs \X Blobs)
    /\ \A r \in http : /\ r.kind \in {"template", "block"}
                       /\ r.age \in 1 .. MaxAge
                       /\ r.job \in Jobs \cup {None}
    /\ orderly \in BOOLEAN

SelfInit ==
    /\ self = [active |-> FALSE, state |-> "Idle", failures |-> 0, job |-> None,
               blob |-> None, blocktemplate |-> None, told |-> FALSE,
               given |-> None, accepted |-> FALSE]
    /\ pool = FALSE /\ sent = <<>> /\ http = {} /\ orderly = TRUE

(* A job, or a template, that nothing speaks of any more may come (again).    *)
Spoken    == ToSet(sent) \cup ({self.given} \ {None})
UsedBlobs == {self.blob, self.blocktemplate} \cup {s[2] : s \in Spoken}
FreshJobs == Jobs \ ({self.job} \cup {r.job : r \in http} \cup {s[1] : s \in Spoken}
                         \cup {b[2] : b \in UsedBlobs \ {None}})
FreshTemplates == Templates \ {b[1] : b \in UsedBlobs \ {None}}

-----------------------------------------------------------------------------
(* Methods                                                                    *)

(* onClose, to the listener                                                   *)
toldClosed(m) == [m EXCEPT !.told = FALSE, !.given = None, !.accepted = FALSE]

(* setState: a retry too many is a close to the listener                      *)
selfSetState(m, state) ==
    IF m.state = state THEN m
    ELSE CASE state = "Idle"  -> [m EXCEPT !.state = state, !.failures = 0]
           [] state = "Wait"  -> [m EXCEPT !.state = state]
           [] state = "Retry" ->
                [(IF m.failures > Retries THEN toldClosed(m) ELSE m) EXCEPT
                    !.state = state,
                    !.failures = IF @ > Retries THEN @ ELSE @ + 1]

(* Slip in retry: the next try is left to the next job.                       *)
retryIdle(m) == selfSetState(m, "Idle")
retry(m)     == selfSetState(m, "Retry")

Request(kind, job) == [kind |-> kind, age |-> 1, job |-> job]

(* m_sequence++: all that was asked before is older now                       *)
Older(rs) == {[r EXCEPT !.age = @ + 1] : r \in rs}
Room      == \A r \in http : r.age < MaxAge

(* getBlockTemplate, for the client m and together with the requests new      *)
getBlockTemplate(m, new) ==
    /\ Room
    /\ self' = selfSetState(m, "Wait")
    /\ http' = Older(http) \cup new \cup {Request("template", m.job)}

-----------------------------------------------------------------------------
(* The pool                                                                   *)

(* onLoginSuccess, and the job that came with it                              *)
Login(j) ==
    /\ ~pool /\ j \in FreshJobs
    /\ pool' = TRUE /\ orderly' = TRUE
    /\ getBlockTemplate([selfSetState([self EXCEPT !.told = TRUE], "Idle") EXCEPT
                            !.active = TRUE, !.job = j, !.blob = None], {})
    /\ UNCHANGED sent

(* onJobReceived                                                              *)
NewJob(j) ==
    /\ pool /\ j \in FreshJobs
    /\ orderly' = (orderly /\ sent = <<>>)
    /\ getBlockTemplate([self EXCEPT !.job = j, !.blob = None], {})
    /\ UNCHANGED <<pool, sent>>

(* onClose, of a connection or of a try to connect                            *)
Close ==
    /\ pool' = FALSE /\ sent' = <<>>
    /\ self' = [selfSetState(toldClosed(self), "Idle") EXCEPT !.active = FALSE]
    /\ UNCHANGED <<http, orderly>>

PoolAnswers(s) ==
    /\ pool
    /\ \E i \in DOMAIN sent : /\ sent[i] = s /\ sent' = RemoveAt(sent, i)
                              /\ orderly' = (orderly /\ i = 1)

(* Slip in Accept: the listener is not told that a client it took for closed  *)
(* is back.                                                                   *)
AcceptSilently(s) ==
    /\ PoolAnswers(s)
    /\ self' = IF ~self.active THEN self
               ELSE [selfSetState(self, "Idle") EXCEPT
                        !.given = <<self.job, self.blob>>,
                        !.accepted = (s = <<self.job, self.blob>>)]
    /\ UNCHANGED <<pool, http>>

(* The answer to block_template, whichever it is, gives m_job as it is now.   *)
Accept(s) ==
    /\ PoolAnswers(s)
    /\ self' = IF ~self.active THEN self
               ELSE [selfSetState(self, "Idle") EXCEPT
                        !.told = (@ \/ self.failures > Retries),
                        !.given = <<self.job, self.blob>>,
                        !.accepted = (s = <<self.job, self.blob>>)]
    /\ UNCHANGED <<pool, http>>

Refuse(s) ==
    /\ PoolAnswers(s)
    /\ self' = retry(self)
    /\ UNCHANGED <<pool, http>>

-----------------------------------------------------------------------------
(* The daemon                                                                 *)

Answered(r) == r \in http /\ http' = http \ {r}

(* parseResponse and submitBlockTemplate; a client that is not connected      *)
(* sends nothing (one whose login is not answered does, which is left out).   *)
Takes(blob) ==
    /\ self' = [self EXCEPT !.blob = blob, !.blocktemplate = blob]
    /\ sent' = IF pool THEN Append(sent, <<self.job, blob>>) ELSE sent

(* Slip in Template: an answer is taken whatever its id.                      *)
TemplateAny(r, t) ==
    /\ Answered(r) /\ r.kind = "template" /\ t \in FreshTemplates
    /\ Takes(<<t, r.job>>)
    /\ UNCHANGED <<pool, orderly>>

(* onHttpData: the answer to the newest request is a template                 *)
Template(r, t) ==
    /\ Answered(r) /\ r.kind = "template" /\ r.age = 1 /\ t \in FreshTemplates
    /\ Takes(<<t, r.job>>)
    /\ UNCHANGED <<pool, orderly>>

(* The answer to submitblock has the id of the template request after it, and *)
(* not the fields of a template.                                              *)
BlockAnswer(r) ==
    /\ Answered(r) /\ r.kind = "block" /\ r.age = 1
    /\ self' = retry(self)
    /\ UNCHANGED <<pool, sent, orderly>>

(* The answer to an older request                                             *)
Stale(r) ==
    /\ Answered(r) /\ r.age > 1
    /\ UNCHANGED <<self, pool, sent, orderly>>

(* An error has no id: it counts whatever was asked.                          *)
Fail(r) ==
    /\ Answered(r)
    /\ self' = retry(self)
    /\ UNCHANGED <<pool, sent, orderly>>

(* HttpClient::onResolved tells nobody that a name was not resolved.          *)
Lost(r) ==
    /\ Answered(r) /\ orderly' = FALSE
    /\ UNCHANGED <<self, pool, sent>>

Tick ==
    /\ self.state = "Retry"
    /\ getBlockTemplate(self, {})
    /\ UNCHANGED <<pool, sent, orderly>>

-----------------------------------------------------------------------------
(* The miner: a share, of this or of an earlier pool's job, comes to submit.  *)
(* With submit-to-origin one that makes a block goes to the daemon first.     *)

SubmitShare(block) ==
    /\ Origin /\ self.told
    /\ block => self.blocktemplate # None
    /\ getBlockTemplate(self, IF block THEN {Request("block", None)} ELSE {})
    /\ UNCHANGED <<pool, sent, orderly>>

PoolChanges  == Close \/ \E j \in Jobs : Login(j) \/ NewJob(j)
Refuses      == \E s \in ToSet(sent) : Refuse(s)
Accepts      == \E s \in ToSet(sent) : Accept(s)
DaemonFails  == \E r \in http : Fail(r)
Loses        == \E r \in http : Lost(r)
DaemonAnswers == \E r \in http : BlockAnswer(r) \/ Stale(r)
                                 \/ \E t \in Templates : Template(r, t)
Submits      == \E block \in BOOLEAN : SubmitShare(block)

SelfNext == PoolChanges \/ Refuses \/ Accepts \/ DaemonFails \/ Loses
            \/ DaemonAnswers \/ Tick \/ Submits

(* The daemon and the pool answer, and the timer ticks.                       *)
SelfFairness ==
    WF_selfVars(DaemonAnswers) /\ WF_selfVars(Accepts) /\ WF_selfVars(Tick)

SelfSpec     == SelfInit /\ [][SelfNext]_selfVars
SelfFairSpec == SelfSpec /\ SelfFairness

-----------------------------------------------------------------------------
(* Properties                                                                 *)

(* Safety: a job is never joined with a template that was fetched for another *)
(* one's wallet and extra nonce, neither in what the pool is told nor in what *)
(* the listener gets, however late the daemon answers (onHttpData).           *)
TemplateFitsJob ==
    \A s \in ToSet(sent) \cup ({self.given} \ {None}) : s[2] # None => s[2][2] = s[1]

(* Safety: a job is given to a listener only that takes the client for logged *)
(* in; FailoverStrategy drops the others and would stay paused                *)
(* (submitBlockTemplate's callback, setState).                                *)
GivenWhenOpen == self.given # None => self.told

(* Safety: while the client is connected its job is not forgotten.  The       *)
(* listener has it with a template, or the daemon owes the template asked for *)
(* last, or the pool owes an answer about this very job, or the timer tries   *)
(* again: nothing else ends WaitState, which has no deadline (setState,       *)
(* onHttpData, tick).  Like JobIsCompleted it needs an orderly world.         *)
JobIsOwed ==
    pool /\ orderly =>
        \/ self.given # None /\ self.given[1] = self.job /\ self.given[2] # None
        \/ \E r \in http : r.kind = "template" /\ r.age = 1
        \/ \E s \in ToSet(sent) : s[1] = self.job
        \/ self.state = "Retry"

(* Liveness: while the pool stays with its job and neither it nor the daemon  *)
(* refuses or fails, the listener gets that job with the template the pool    *)
(* accepted for it, whatever failed before (retry, tick).  Shares must end:   *)
(* each asks for another template.  It needs an orderly world: an acceptance  *)
(* that comes late sets IdleState, which cancels the retry or the wait for    *)
(* the job that came since, and nothing times out in WaitState.               *)
JobIsCompleted ==
    /\ <>[](pool /\ orderly)
    /\ <>[][~(PoolChanges \/ Refuses \/ DaemonFails \/ Submits)]_selfVars
    => []<>(self.given # None /\ self.given[1] = self.job /\ self.accepted)
=============================================================================
