------------------------------ MODULE Startup -------------------------------
(***************************************************************************)
(* One process of uptime-server from its command line to its end: main,    *)
(* Run, runAPI, runMigrate and runPlaceholder, the configuration they load *)
(* (Load in internal/config/config.go) and what they open and close with   *)
(* it.  What the API does while it serves is in Server.tla, what a         *)
(* migration does in Migrations.tla.                                       *)
(*                                                                         *)
(* A value of the environment is what the code can tell of it: "unset"     *)
(* (also the empty string), "dev" (the default of development, given or    *)
(* fallen back to), "own" (the operator's), or one of the wrong ones.      *)
(***************************************************************************)

EXTENDS Integers

Durations == {"ACCESS_TOKEN_TTL", "REFRESH_TOKEN_TTL"}
Secrets == {"JWT_ACCESS_SECRET", "JWT_REFRESH_SECRET", "SECRETS_MASTER_KEY"}

AppEnvs == {"unset", "development", "production"}
DurationValues == {"unset", "own", "malformed", "zero"}
SecretValues == {"unset", "dev", "own", "blank"}
PanelValues == {"unset", "dev", "own", "relative"}
DSNValues == {"unset", "own", "malformed"}

Environment == [app : AppEnvs, duration : [Durations -> DurationValues],
                secret : [Secrets -> SecretValues], panel : PanelValues, dsn : DSNValues]

Commands == {"api", "migrate", "scheduler", "worker", "version", "help", "none", "unknown"}

VARIABLES
    cmd,     \* os.Args[1]
    env,     \* the environment of the process
    stage,   \* how far it is
    cfg,     \* what Load returned
    pool,    \* the connections to the database
    routes,  \* what the listener serves
    stop,    \* the signal has come: ctx is cancelled
    status   \* the exit status, -1 before there is one

processVars == <<cmd, env, stage, cfg, pool, routes, stop, status>>

Stage == {"start", "loading", "loaded", "opened", "ready", "serving", "waiting", "exited"}
NoConfig == [secret |-> [s \in Secrets |-> "unset"], panel |-> "unset", dsn |-> "unset"]
Config == [secret : [Secrets -> SecretValues \ {"unset"}], panel : PanelValues \ {"unset"},
           dsn : DSNValues]

ProcessInit ==
    /\ cmd \in Commands
    /\ env \in Environment
    /\ stage = "start"
    /\ cfg = NoConfig
    /\ pool = "none"
    /\ routes = "none"
    /\ stop = FALSE
    /\ status = -1

\* Run returns: the deferred Close, os.Exit(1) on an error.
Return(s) ==
    /\ stage' = "exited"
    /\ status' = s
    /\ pool' = IF pool = "open" THEN "closed" ELSE pool
    /\ routes' = "none"

\* The switch of Run.
Run ==
    /\ stage = "start"
    /\ \/ cmd \in {"api", "migrate"} /\ stage' = "loading" /\ UNCHANGED <<pool, routes, status>>
       \/ cmd \in {"scheduler", "worker"} /\ stage' = "waiting" /\ UNCHANGED <<pool, routes, status>>
       \/ cmd \in {"version", "help", "none"} /\ Return(0)
       \/ cmd = "unknown" /\ Return(1)
    /\ UNCHANGED <<cmd, env, cfg, stop>>

-----------------------------------------------------------------------------
(* Load                                                                    *)

getenv(value, fallback) == IF value = "unset" THEN fallback ELSE value

\* The default of a duration is a good one; time.ParseDuration, then value <= 0.
DurationsGood == \A d \in Durations : getenv(env.duration[d], "own") = "own"

Development == getenv(env.app, "development") = "development"

Loaded == [secret |-> [s \in Secrets |-> getenv(env.secret[s], "dev")],
           panel |-> getenv(env.panel, "dev"),
           dsn |-> env.dsn]

\* Mutant: only a missing variable is noticed, not the default given as its value.
DefaultsMissing ==
    Development \/ ((\A s \in Secrets : env.secret[s] # "unset") /\ env.panel # "unset")

\* Outside development the defaults of development are refused.
DefaultsAllowed ==
    Development \/ ((\A s \in Secrets : Loaded.secret[s] # "dev") /\ Loaded.panel # "dev")

Load ==
    /\ stage = "loading"
    /\ DurationsGood /\ DefaultsAllowed
    /\ cfg' = Loaded
    /\ stage' = "loaded"
    /\ UNCHANGED <<cmd, env, pool, routes, stop, status>>

LoadFails ==
    /\ stage = "loading"
    /\ ~(DurationsGood /\ DefaultsAllowed)
    /\ Return(1)
    /\ UNCHANGED <<cmd, env, cfg, stop>>

-----------------------------------------------------------------------------
(* The store                                                               *)

\* Without a DSN the API serves its health endpoints, and migrate refuses.
NoStore ==
    /\ stage = "loaded" /\ cfg.dsn = "unset"
    /\ \/ cmd = "api" /\ stage' = "ready" /\ UNCHANGED <<pool, routes, status>>
       \/ cmd = "migrate" /\ Return(1)
    /\ UNCHANGED <<cmd, env, cfg, stop>>

\* pgxpool.New refuses the DSN, or the database does not answer the ping or the signal
\* cancels it, and what was opened is closed.
OpenFails ==
    /\ stage = "loaded" /\ cfg.dsn # "unset"
    /\ stage' = "exited" /\ status' = 1
    /\ pool' = IF cfg.dsn = "malformed" THEN "none" ELSE "closed"
    /\ UNCHANGED <<cmd, env, cfg, routes, stop>>

\* OpenStore; for migrate sql.Open and PingContext.  The ping of a cancelled ctx fails.
OpenStore ==
    /\ stage = "loaded" /\ cfg.dsn = "own" /\ ~stop
    /\ pool' = "open"
    /\ stage' = "opened"
    /\ UNCHANGED <<cmd, env, cfg, routes, stop, status>>

\* NewTokenManager, NewSecretsManager (which trims the key) and newWebAuthnManager.
ServiceBuilds ==
    /\ cfg.secret["SECRETS_MASTER_KEY"] # "blank"
    /\ cfg.panel # "relative"

NewService ==
    /\ stage = "opened" /\ cmd = "api" /\ ServiceBuilds
    /\ stage' = "ready"
    /\ routes' = "auth"
    /\ UNCHANGED <<cmd, env, cfg, pool, stop, status>>

\* Mutant: the store is closed only if the service was built.
ServiceLeaks ==
    /\ stage = "opened" /\ cmd = "api" /\ ~ServiceBuilds
    /\ stage' = "exited" /\ status' = 1
    /\ UNCHANGED <<cmd, env, cfg, pool, routes, stop>>

NewServiceFails ==
    /\ stage = "opened" /\ cmd = "api" /\ ~ServiceBuilds
    /\ Return(1)
    /\ UNCHANGED <<cmd, env, cfg, stop>>

-----------------------------------------------------------------------------
(* The commands at work                                                    *)

\* The goroutine of Serve has called ListenAndServe.
Listen ==
    /\ stage = "ready"
    /\ stage' = "serving"
    /\ routes' = IF routes = "auth" THEN "auth" ELSE "health"
    /\ UNCHANGED <<cmd, env, cfg, pool, stop, status>>

\* ctx.Done(), if need be before the listener is up: Shutdown, which may run out of time.
ServeStops ==
    /\ stage \in {"ready", "serving"} /\ stop
    /\ Return(0) \/ Return(1)
    /\ UNCHANGED <<cmd, env, cfg, stop>>

\* The address is taken, or the listener breaks later.
ListenerFails ==
    /\ stage = "serving"
    /\ Return(1)
    /\ UNCHANGED <<cmd, env, cfg, stop>>

\* goose.UpContext, which a cancelled ctx interrupts.
runMigrate ==
    /\ stage = "opened" /\ cmd = "migrate"
    /\ Return(0) \/ Return(1)
    /\ UNCHANGED <<cmd, env, cfg, stop>>

\* Mutant: the placeholder does not listen to its context.
WaitForever ==
    /\ stage = "waiting" /\ ~stop
    /\ UNCHANGED processVars

runPlaceholder ==
    /\ stage = "waiting" /\ stop
    /\ Return(0)
    /\ UNCHANGED <<cmd, env, cfg, stop>>

Signal ==
    /\ stage # "exited" /\ ~stop
    /\ stop' = TRUE
    /\ UNCHANGED <<cmd, env, stage, cfg, pool, routes, status>>

Step == Run \/ Load \/ LoadFails \/ NoStore \/ OpenStore \/ OpenFails \/ NewService
        \/ NewServiceFails \/ Listen \/ ServeStops \/ runMigrate \/ runPlaceholder

ProcessNext == Step \/ ListenerFails \/ Signal

ProcessSpec == ProcessInit /\ [][ProcessNext]_processVars

\* Code that waits for nobody runs on; pings and migrations end when ctx is cancelled.
ProcessFairness == WF_processVars(stop /\ Step)
FairProcessSpec == ProcessSpec /\ ProcessFairness

-----------------------------------------------------------------------------
(* Properties                                                              *)

ProcessTypeOK ==
    /\ cmd \in Commands /\ env \in Environment
    /\ stage \in Stage
    /\ cfg \in Config \cup {NoConfig}
    /\ pool \in {"none", "open", "closed"}
    /\ routes \in {"none", "health", "auth"}
    /\ stop \in BOOLEAN
    /\ status \in {-1, 0, 1} /\ (status = -1 <=> stage # "exited")

\* Whatever step of the start fails, nothing the process opened is left open, and a command
\* that runs until it is told to stop reports success only if it was told (OpenStore, the
\* deferred Close of runAPI and runMigrate, the error paths of Run and Serve).
EndsInOrder ==
    stage = "exited" =>
        /\ pool # "open" /\ routes = "none"
        /\ status = 0 /\ cmd \in {"api", "scheduler", "worker"} => stop

\* What serves accounts outside development runs on the operator's own secrets and URL,
\* whatever falls back, and with a key and URL that work (Load, then NewService).
ServesOnOwnSecrets ==
    routes = "auth" =>
        /\ pool = "open"
        /\ cfg.secret["SECRETS_MASTER_KEY"] # "blank" /\ cfg.panel # "relative"
        /\ env.app = "production" =>
             (\A s \in Secrets : env.secret[s] \in {"own", "blank"}) /\ env.panel = "own"

\* A signal ends the process, whatever it is at.
SignalStops == stop ~> stage = "exited"
=============================================================================
