--------------------------- MODULE DatasetService ---------------------------
(* What the RandomX dataset queue promises to the miner, without threads,    *)
(* queue or storage: the newest requested seed is the only one that is ever  *)
(* served, a served seed stays served until the next request, and every      *)
(* build that ends the work in hand leaves a notice for the main loop.       *)
(*                                                                           *)
(* RxQueue implements this specification (RxQueue!Service).                  *)

CONSTANTS Seeds,     \* the seeds jobs can carry
          NoSeed     \* no seed at all

VARIABLES latest,    \* the seed asked for last, NoSeed before the first request
          busy,      \* a build of `latest' is still owed
          served,    \* the seed whose dataset is handed out, or NoSeed
          notice     \* the main loop has a completion to look at

serviceVars == <<latest, busy, served, notice>>

ServiceTypeOK ==
    /\ latest \in Seeds \cup {NoSeed}
    /\ busy \in BOOLEAN
    /\ served \in Seeds \cup {NoSeed}
    /\ notice \in BOOLEAN

ServiceInit ==
    /\ latest = NoSeed
    /\ busy = FALSE
    /\ served = NoSeed
    /\ notice = FALSE

(* A request supersedes the one before it and withdraws what was served.    *)
Request(s) ==
    /\ latest' = s
    /\ busy' = TRUE
    /\ served' = NoSeed
    /\ UNCHANGED notice

(* The owed build ends: with a dataset for the newest seed, or with none     *)
(* when its memory could not be allocated.                                   *)
Complete ==
    /\ busy
    /\ busy' = FALSE
    /\ served' \in {latest, NoSeed}
    /\ notice' = TRUE
    /\ UNCHANGED latest

(* The main loop takes the notice.                                           *)
TakeNotice ==
    /\ notice
    /\ notice' = FALSE
    /\ UNCHANGED <<latest, busy, served>>

(* The service is destroyed: nothing is served any more.                     *)
Close ==
    /\ served' = NoSeed
    /\ busy' = FALSE
    /\ UNCHANGED <<latest, notice>>

ServiceNext ==
    \/ \E s \in Seeds : Request(s)
    \/ Complete
    \/ TakeNotice
    \/ Close

ServiceSpec == ServiceInit /\ [][ServiceNext]_serviceVars
=============================================================================
