---------------------------- MODULE ServicePolicy ----------------------------
(* The mining switch of the installed service.  It is a line of               *)
(* /etc/veloxhash/veloxhash.env that scripts/veloxhash-mining and, every      *)
(* minute, scripts/veloxhash-policy rewrite; the service reads the file when  *)
(* it starts (deploy/systemd/veloxhash-run).  A command is a shell script: it *)
(* reads the file, truncates it, writes it and restarts the service in        *)
(* separate steps, nothing keeps two commands apart, and any may be killed.   *)
(*                                                                            *)
(* Of the file the keys are kept that decide whether the service starts and   *)
(* mines; "" stands for a missing one too.  What the time, the load and the   *)
(* users' activity allow is one bit.  config.json matters to the policy only, *)
(* which does not run without it.                                             *)

EXTENDS Integers, Sequences, FiniteSets

CONSTANTS Admins,    \* root shells
          Timer,     \* veloxhash-policy.service, started by its timer
          Commands   \* the commands root gives

ASSUME CommandAssumption ==
    Commands \subseteq {"enable", "disable", "wallet set", "wallet clear",
                        "token rotate", "mode now", "mode auto", "policy run",
                        "policy enable", "policy disable"}

VARIABLES
    env,      \* veloxhash.env
    config,   \* config.json is whole
    timer,    \* veloxhash-policy.timer is on
    service,  \* what veloxhash.service runs
    mayMine,  \* off-hours, cpu idle, no active user
    p,        \* the commands that run
    calm      \* history: see RunsTheFile

vars == <<env, config, timer, service, mayMine, p, calm>>

Processes == Admins \cup {Timer}

Envs == [POLICY_ENABLED : {"", "0", "1"}, MINING_ENABLED : {"", "0", "1"},
         WALLET_ADDRESS : {"", "address"}, API_TOKEN : {"", "token"}]

NoLines == [POLICY_ENABLED |-> "", MINING_ENABLED |-> "",
            WALLET_ADDRESS |-> "", API_TOKEN |-> ""]

Values == [POLICY_ENABLED |-> {"", "0", "1"}, MINING_ENABLED |-> {"", "0", "1"},
           WALLET_ADDRESS |-> {"", "address"}, API_TOKEN |-> {"", "token"}]

(* Keys that are written, but not kept: no property speaks of them            *)
Others == {"POOL_URL", "POOL_PASSWORD", "COIN"}

(* A step is an operation on a key with its value, or on nothing.             *)
Steps == {s \in {"lines", "truncate", "write"} \X (DOMAIN Values)
                  \X {"", "0", "1", "address", "token"} : s[3] \in Values[s[2]]}
         \cup ({"lines", "truncate", "write", "default"} \X Others \X {"set"})
         \cup ({"wallet", "loads", "dumps", "enabled", "decide", "apply", "off",
                "timer on", "timer off", "restart"} \X {""} \X {""})

TypeOK ==
    /\ env \in Envs
    /\ config \in BOOLEAN /\ timer \in BOOLEAN
    /\ service \in {"mining", "api", "down"}
    /\ mayMine \in BOOLEAN
    /\ DOMAIN p = Processes
    /\ \A x \in Processes :
          /\ p[x].todo \in Seq(Steps)
          /\ p[x].lines \in Envs               \* lines, read and not yet written
          /\ p[x].enabled \in BOOLEAN          \* policy_enabled
          /\ p[x].desired \in {"0", "1"}       \* desired
          /\ p[x].orElse \in Seq(Steps)        \* after ||
          /\ p[x].restarts \in BOOLEAN         \* every write is followed by a restart
    /\ calm \in BOOLEAN

Idle == [todo |-> <<>>, lines |-> NoLines, enabled |-> FALSE, desired |-> "0",
         orElse |-> <<>>, restarts |-> TRUE]

(* A new installation                                                         *)
Init ==
    /\ env = [POLICY_ENABLED |-> "1", MINING_ENABLED |-> "0",
              WALLET_ADDRESS |-> "", API_TOKEN |-> "token"]
    /\ config = TRUE /\ timer = TRUE
    /\ service = "api"
    /\ mayMine \in BOOLEAN
    /\ p = [x \in Processes |-> Idle]
    /\ calm = TRUE

Running == {x \in Processes : p[x].todo # <<>>}

-----------------------------------------------------------------------------
(* The commands                                                               *)

do(op) == <<<<op, "", "">>>>

(* set_env_value: read_text, then write_text, which truncates and writes      *)
set_env_value(key, value) ==
    <<<<"lines", key, value>>, <<"truncate", key, value>>, <<"write", key, value>>>>

(* ensure_cpu_hint, on config.json                                            *)
ensure_cpu_hint == do("loads") \o do("dumps")

enable  == do("wallet") \o set_env_value("MINING_ENABLED", "1") \o do("restart")
disable == set_env_value("MINING_ENABLED", "0") \o do("restart")

(* if [[ -z "$(get_env_value key)" ]]; then set_env_value key ...             *)
set_default(key) == <<<<"default", key, "set">>>>

wallet_set == set_env_value("WALLET_ADDRESS", "address")
                \o set_default("POOL_URL") \o set_default("POOL_PASSWORD")
                \o set_default("COIN") \o do("restart")

(* Slip in wallet_clear: the service is not restarted.                        *)
wallet_clear_only == set_env_value("WALLET_ADDRESS", "")
                       \o set_env_value("MINING_ENABLED", "0")
wallet_clear == set_env_value("WALLET_ADDRESS", "")
                  \o set_env_value("MINING_ENABLED", "0") \o do("restart")
token_rotate == set_env_value("API_TOKEN", "token") \o do("restart")

mode_now == do("wallet") \o set_env_value("POLICY_ENABLED", "0")
              \o set_env_value("MINING_ENABLED", "1")
              \o do("timer off") \o do("restart")

run_policy == ensure_cpu_hint \o do("enabled") \o do("decide") \o do("apply")
mode_auto  == set_env_value("POLICY_ENABLED", "1") \o do("timer on") \o run_policy

enable_policy  == set_env_value("POLICY_ENABLED", "1") \o ensure_cpu_hint
                    \o do("timer on")
disable_policy == set_env_value("POLICY_ENABLED", "0") \o do("off")
                    \o do("timer off") \o do("restart")

Script(cmd) ==
    CASE cmd = "enable"         -> enable
      [] cmd = "disable"        -> disable
      [] cmd = "wallet set"     -> wallet_set
      [] cmd = "wallet clear"   -> wallet_clear
      [] cmd = "token rotate"   -> token_rotate
      [] cmd = "mode now"       -> mode_now
      [] cmd = "mode auto"      -> mode_auto
      [] cmd = "policy run"     -> run_policy
      [] cmd = "policy enable"  -> enable_policy
      [] cmd = "policy disable" -> disable_policy

(* These may write the file last and not restart the service after it.        *)
NoRestart == {"policy enable", "mode auto"}

(* Bound: once calm is lost no command starts before the next boot.           *)
Start(x, cmd) ==
    /\ p[x].todo = <<>>
    /\ calm
    /\ p' = [p EXCEPT ![x] =
                [Idle EXCEPT !.todo = Script(cmd),
                             !.orElse = IF cmd = "mode auto" THEN do("restart") ELSE <<>>,
                             !.restarts = cmd \notin NoRestart]]
    /\ calm' = (calm /\ (Running = {} \/ (cmd \notin NoRestart
                                /\ \A y \in Running : p[y].restarts)))
    /\ UNCHANGED <<env, config, timer, service, mayMine>>

Admin(x, cmd) == x # Timer /\ Start(x, cmd)
TimerFires    == timer /\ Start(Timer, "policy run")

-----------------------------------------------------------------------------
(* The steps                                                                  *)

Doing(x, op) == p[x].todo # <<>> /\ Head(p[x].todo)[1] = op

Goes(q)        == IF Len(q.todo) = 1 THEN Idle ELSE [q EXCEPT !.todo = Tail(@)]
GoesOn(x)      == p' = [p EXCEPT ![x] = Goes(@)]
EndsWith(x, s) == p' = [p EXCEPT ![x] = [Idle EXCEPT !.todo = s]]

Lines(x) ==
    /\ Doing(x, "lines")
    /\ p' = [p EXCEPT ![x] = [Goes(@) EXCEPT !.lines = env]]
    /\ UNCHANGED <<env, config, timer, service, mayMine, calm>>

Truncate(x) ==
    /\ Doing(x, "truncate")
    /\ env' = NoLines
    /\ GoesOn(x)
    /\ UNCHANGED <<config, timer, service, mayMine, calm>>

WithLine(e, key, value) ==
    IF key \in Others THEN e ELSE [e EXCEPT ![key] = value]

Write(x) ==
    /\ Doing(x, "write")
    /\ env' = WithLine(p[x].lines, Head(p[x].todo)[2], Head(p[x].todo)[3])
    /\ p' = [p EXCEPT ![x] = [Goes(@) EXCEPT !.lines = NoLines]]
    /\ UNCHANGED <<config, timer, service, mayMine, calm>>

(* Any of these keys may be empty, the more so in a file that is being        *)
(* written.                                                                   *)
Default(x) ==
    /\ Doing(x, "default")
    /\ \/ GoesOn(x)
       \/ p' = [p EXCEPT ![x].todo = set_env_value(Head(@)[2], "set") \o Tail(@)]
    /\ UNCHANGED <<env, config, timer, service, mayMine, calm>>

(* wallet_is_configured                                                       *)
Wallet(x) ==
    /\ Doing(x, "wallet")
    /\ IF env.WALLET_ADDRESS = "" THEN EndsWith(x, <<>>) ELSE GoesOn(x)
    /\ UNCHANGED <<env, config, timer, service, mayMine, calm>>

(* ensure_cpu_hint: json.loads fails on a file that is being written          *)
Loads(x) ==
    /\ Doing(x, "loads")
    /\ IF config THEN GoesOn(x) ELSE EndsWith(x, p[x].orElse)
    /\ config' = FALSE
    /\ UNCHANGED <<env, timer, service, mayMine, calm>>

Dumps(x) ==
    /\ Doing(x, "dumps")
    /\ config' = TRUE
    /\ GoesOn(x)
    /\ UNCHANGED <<env, timer, service, mayMine, calm>>

(* decision: first the policy's switch is read ...                            *)
Enabled(x) ==
    /\ Doing(x, "enabled")
    /\ p' = [p EXCEPT ![x] = [Goes(@) EXCEPT !.enabled = env.POLICY_ENABLED # "0"]]
    /\ UNCHANGED <<env, config, timer, service, mayMine, calm>>

Desired(x, value) ==
    /\ Doing(x, "decide")
    /\ p' = [p EXCEPT ![x] = [Goes(@) EXCEPT !.desired = value,
                                           !.enabled = FALSE]]
    /\ UNCHANGED <<env, config, timer, service, mayMine, calm>>

Allowed(x) == p[x].enabled /\ env.WALLET_ADDRESS # "" /\ mayMine

(* ... then the world and the wallet                                          *)
Decide(x) == Desired(x, IF Allowed(x) THEN "1" ELSE "0")

Current == IF env.MINING_ENABLED = "" THEN "0" ELSE env.MINING_ENABLED

(* Slip in Apply: the switch is set, the service not restarted.               *)
ApplyOnly(x) ==
    /\ Doing(x, "apply")
    /\ IF Current = p[x].desired THEN EndsWith(x, <<>>)
       ELSE EndsWith(x, set_env_value("MINING_ENABLED", p[x].desired))
    /\ UNCHANGED <<env, config, timer, service, mayMine, calm>>

(* run_policy with set_mining_switch: a change is written and the service     *)
(* restarted, and nothing is done when the file says so already               *)
Apply(x) ==
    /\ Doing(x, "apply")
    /\ IF Current = p[x].desired THEN EndsWith(x, <<>>)
       ELSE EndsWith(x, set_env_value("MINING_ENABLED", p[x].desired)
                            \o do("restart"))
    /\ UNCHANGED <<env, config, timer, service, mayMine, calm>>

(* set_mining_switch 0 || true                                                *)
Off(x) ==
    /\ Doing(x, "off")
    /\ p' = [p EXCEPT ![x].todo =
                (IF Current = "0" THEN <<>> ELSE set_env_value("MINING_ENABLED", "0"))
                    \o Tail(@)]
    /\ UNCHANGED <<env, config, timer, service, mayMine, calm>>

(* systemctl enable --now, disable --now: a policy run that is under way goes *)
(* on                                                                         *)
SetTimer(x) ==
    /\ \/ Doing(x, "timer on") /\ timer' = TRUE
       \/ Doing(x, "timer off") /\ timer' = FALSE
    /\ GoesOn(x)
    /\ UNCHANGED <<env, config, service, mayMine, calm>>

(* veloxhash-run, with the file as it is                                      *)
veloxhash_run ==
    CASE env.API_TOKEN = "" -> "down"
      [] env.API_TOKEN # "" /\ env.MINING_ENABLED = "1"
            /\ env.WALLET_ADDRESS # "" -> "mining"
      [] OTHER -> "api"

(* systemctl restart                                                          *)
RestartService(x) ==
    /\ Doing(x, "restart")
    /\ service' = veloxhash_run
    /\ GoesOn(x)
    /\ UNCHANGED <<env, config, timer, mayMine, calm>>

Step(x) ==
    \/ Lines(x) \/ Truncate(x) \/ Write(x) \/ Default(x)
    \/ Wallet(x) \/ Loads(x) \/ Dumps(x)
    \/ Enabled(x) \/ Decide(x) \/ Apply(x) \/ Off(x)
    \/ SetTimer(x) \/ RestartService(x)

-----------------------------------------------------------------------------
(* The command is killed, or a tool it calls fails                            *)
Killed(x) ==
    /\ p[x].todo # <<>>
    /\ EndsWith(x, <<>>)
    /\ calm' = FALSE
    /\ UNCHANGED <<env, config, timer, service, mayMine>>

(* Restart=always: the service died, or found no token and exited             *)
Respawn ==
    /\ service' = veloxhash_run
    /\ UNCHANGED <<env, config, timer, mayMine, p, calm>>

(* The machine boots: no command runs then                                    *)
Boot ==
    /\ service' = veloxhash_run
    /\ p' = [x \in Processes |-> Idle]
    /\ calm' = TRUE
    /\ UNCHANGED <<env, config, timer, mayMine>>

WorldChanges ==
    /\ mayMine' = ~mayMine
    /\ UNCHANGED <<env, config, timer, service, p, calm>>

Next ==
    \/ \E x \in Admins, cmd \in Commands : Admin(x, cmd)
    \/ TimerFires
    \/ \E x \in Processes : Step(x) \/ Killed(x)
    \/ Respawn \/ Boot \/ WorldChanges

(* Scripts run on, the timer fires again and again, and systemd tries again   *)
(* to start what exited (up to StartLimitBurst times; the file is truncated   *)
(* for an instant).                                                           *)
Fairness ==
    /\ WF_vars(TimerFires) /\ WF_vars(service = "down" /\ Respawn)
    /\ \A x \in Processes : WF_vars(Step(x))

Spec     == Init /\ [][Next]_vars
FairSpec == Spec /\ Fairness

-----------------------------------------------------------------------------
(* Properties                                                                 *)

(* Safety: when no command runs, the service runs as the file says, so the    *)
(* policy may leave it alone when the switch has the value it wants           *)
(* (set_mining_switch): as long as no command was killed since the last boot, *)
(* and no command that does not restart the service overlapped with another,  *)
(* however the reads, writes and restarts of the others interleaved.  A       *)
(* service that read a truncated file is down and about to be tried again.    *)
RunsTheFile == calm /\ Running = {} => service \in {veloxhash_run, "down"}

(* Liveness: with the policy on and nothing else going on, the service ends   *)
(* up mining if mining is allowed, the wallet is known and the file was not   *)
(* lost, and ends up not mining if not: unless a command was killed, or left  *)
(* config.json torn.                                                          *)
PolicyObeyed ==
    \A b \in BOOLEAN :
        /\ <>[](mayMine = b /\ timer /\ calm /\ Running \subseteq {Timer})
        /\ <>[][~Boot]_vars
        /\ []<>config
        => \/ []<>(env.POLICY_ENABLED = "0")
           \/ <>[]((service = "mining") =
                     (b /\ env.WALLET_ADDRESS # "" /\ env.API_TOKEN # ""))
=============================================================================
