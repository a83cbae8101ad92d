----------------------------- MODULE Supervisor ------------------------------
(***************************************************************************)
(* main() of the collectors (cmd/gostats/main.go, cmd/goppstats/main.go)   *)
(* with the goroutines it owns: the SIGTERM and SIGHUP forwarders, the     *)
(* configuration watcher (ConfigWatcher), one collection loop per enabled  *)
(* cluster and, with the Prometheus backend, one HTTP endpoint per loop.   *)
(*                                                                         *)
(* main() starts a run (one collection loop per enabled cluster under one  *)
(* context), waits for a reload, for the end of all loops or for the       *)
(* shutdown, cancels the run, waits for its loops, and starts over with    *)
(* the configuration it has read, or ends.                                 *)
(***************************************************************************)
EXTENDS ConfigWatcher

CONSTANTS
  Cluster,      \* the clusters configuration files speak of
  Enabled,      \* Enabled[t]: the clusters that configuration t enables
  Flaw,         \* Flaw[t]: what is wrong with t although readConfig accepts it
  Backend,      \* Backend[t]: where configuration t has the stats written
  Broken,       \* the contents readConfig refuses
  NoConf,       \* the collection loop has not looked at a configuration
  MaxHups       \* bound: SIGHUPs in one behaviour

Flaws == {"none", "no_groups", "duplicate_stat", "zero_interval", "logging"}

Backends == {"prometheus", "influxdb", "influxdbv2"}

Good == Texts \ Broken      \* what readConfig accepts

Conf == [ver : 0 .. MaxEdits, text : Good]

ASSUME SupervisorAssumption ==
  /\ Broken \subseteq Texts
  /\ Enabled \in [Good -> SUBSET Cluster]
  /\ Flaw \in [Good -> Flaws]
  /\ Backend \in [Good -> Backends]
  /\ MaxHups \in Nat
  /\ NoConf \notin Conf

VARIABLES
  main,         \* where main() is
  conf,         \* its configuration, with the version it was read from
  readVer,      \* version of the file that readConfig last saw
  run,          \* number of runs started
  cancelled,    \* cancelRun() has been called for the current run
  coll,         \* coll[c]: the collection loop of cluster c in this run
  seen,         \* seen[c]: the configuration that loop was set up from
  endpoints,    \* open Prometheus endpoints: <<cluster, run>>
  sighup,       \* the sighup channel holds its signal
  hups          \* SIGHUPs so far

mainVars == <<main, conf, readVer, run, cancelled>>
collVars == <<coll, seen, endpoints>>
sigVars == <<sighup, hups>>
vars == <<watcherVars, ctxDone, mainVars, collVars, sigVars>>

Places == {"start", "top", "select", "drain_reload", "reread", "drain_exit",
           "ended", "died"}

MainTypeOK ==
  /\ main \in Places
  /\ conf \in Conf
  /\ readVer \in 0 .. MaxEdits
  /\ run \in Nat
  /\ cancelled \in BOOLEAN

LoopTypeOK ==
  /\ coll \in [Cluster -> {"none", "init", "connect", "collect", "write", "done"}]
  /\ seen \in [Cluster -> Conf \cup {NoConf}]
  /\ endpoints \in SUBSET (Cluster \X Nat)

SignalTypeOK ==
  /\ ctxDone \in BOOLEAN
  /\ sighup \in BOOLEAN
  /\ hups \in 0 .. MaxHups

TypeOK == WatcherTypeOK /\ MainTypeOK /\ LoopTypeOK /\ SignalTypeOK

Alive == main \notin {"ended", "died"}

RunDone == cancelled \/ ctxDone            \* runCtx is a child of ctx

SetUp(c) == coll[c] \in {"connect", "collect", "write"}

Active(c) == coll[c] = "init" \/ SetUp(c)

\* Mutant: a loop is counted as done while it waits for its backend.
AllDoneButWriters == \A c \in Cluster : coll[c] \notin {"init", "connect", "collect"}

\* wg.Wait() has returned: every loop that was spawned has ended.
AllDone == \A c \in Cluster : ~Active(c)

\* mustReadConfig and logging.Setup have accepted the file at startup.
Init ==
  /\ WatcherInit
  /\ file.text \in {t \in Good : Flaw[t] # "logging"}
  /\ ctxDone = FALSE
  /\ main = "start"
  /\ conf = file
  /\ readVer = file.ver
  /\ run = 0
  /\ cancelled = FALSE
  /\ coll = [c \in Cluster |-> "none"]
  /\ seen = [c \in Cluster |-> NoConf]
  /\ endpoints = {}
  /\ sighup = FALSE
  /\ hups = 0

------------------------------------------------------------------------------
(* Signals.                                                                *)

Sigterm ==
  /\ Alive /\ ~ctxDone
  /\ ctxDone' = TRUE
  /\ UNCHANGED <<watcherVars, mainVars, collVars, sigVars>>

Sighup ==
  /\ Alive /\ hups < MaxHups
  /\ hups' = hups + 1
  /\ sighup' = TRUE
  /\ UNCHANGED <<watcherVars, ctxDone, mainVars, collVars>>

\* Mutant: the channel has no room, so a send succeeds only while main() waits.
ForwardUnbuffered ==
  /\ Alive /\ sighup
  /\ sighup' = FALSE
  /\ reload' = (reload \/ main = "select")
  /\ UNCHANGED <<file, watch, baseVer, events, timer, ctxDone, mainVars, collVars, hups>>

\* The forwarder's send is non-blocking; it may have returned once ctx is done.
ForwardSighup ==
  /\ Alive /\ sighup
  /\ sighup' = FALSE
  /\ reload' = TRUE
  /\ UNCHANGED <<file, watch, baseVer, events, timer, ctxDone, mainVars, collVars, hups>>

EditFile ==
  /\ Alive
  /\ Edit
  /\ UNCHANGED <<ctxDone, mainVars, collVars, sigVars>>

Watch ==
  /\ Alive
  /\ WatcherStep
  /\ UNCHANGED <<ctxDone, mainVars, collVars, sigVars>>

------------------------------------------------------------------------------
(* main().                                                                 *)

Start ==
  /\ main = "start"
  /\ StartConfigWatcher
  /\ main' = "top"
  /\ UNCHANGED <<ctxDone, conf, readVer, run, cancelled, collVars, sigVars>>

\* No stat groups: main() returns.  A stat in two active groups: die().
RefuseConf ==
  /\ main = "top"
  /\ \/ Flaw[conf.text] = "no_groups" /\ main' = "ended"
     \/ Flaw[conf.text] = "duplicate_stat" /\ main' = "died"
  /\ UNCHANGED <<watcherVars, ctxDone, conf, readVer, run, cancelled, collVars, sigVars>>

\* Mutant: a run starts with an empty reload channel.
SpawnDrainsReload ==
  /\ main = "top"
  /\ Flaw[conf.text] \notin {"no_groups", "duplicate_stat"}
  /\ main' = "select"
  /\ run' = run + 1
  /\ cancelled' = FALSE
  /\ coll' = [c \in Cluster |-> IF c \in Enabled[conf.text] THEN "init" ELSE "none"]
  /\ seen' = [c \in Cluster |-> NoConf]
  /\ reload' = FALSE
  /\ UNCHANGED <<file, watch, baseVer, events, timer, ctxDone, conf, readVer,
                 endpoints, sigVars>>

\* A new context, and one goroutine per enabled cluster.
Spawn ==
  /\ main = "top"
  /\ Flaw[conf.text] \notin {"no_groups", "duplicate_stat"}
  /\ main' = "select"
  /\ run' = run + 1
  /\ cancelled' = FALSE
  /\ coll' = [c \in Cluster |-> IF c \in Enabled[conf.text] THEN "init" ELSE "none"]
  /\ seen' = [c \in Cluster |-> NoConf]
  /\ UNCHANGED <<watcherVars, ctxDone, conf, readVer, endpoints, sigVars>>

\* The three cases of the select statement; when several are ready, any one.
SelectReload ==
  /\ main = "select" /\ reload
  /\ reload' = FALSE
  /\ cancelled' = TRUE
  /\ main' = "drain_reload"
  /\ UNCHANGED <<file, watch, baseVer, events, timer, ctxDone, conf, readVer, run,
                 collVars, sigVars>>

SelectDone ==
  /\ main = "select" /\ AllDone
  /\ cancelled' = TRUE
  /\ main' = "ended"
  /\ UNCHANGED <<watcherVars, ctxDone, conf, readVer, run, collVars, sigVars>>

SelectShutdown ==
  /\ main = "select" /\ ctxDone
  /\ cancelled' = TRUE
  /\ main' = "drain_exit"
  /\ UNCHANGED <<watcherVars, ctxDone, conf, readVer, run, collVars, sigVars>>

\* Mutant: the reload case goes on without <-done.
DrainedAtOnce ==
  /\ main = "drain_reload" \/ AllDone
  /\ \/ main = "drain_reload" /\ main' = (IF ctxDone THEN "ended" ELSE "reread")
     \/ main = "drain_exit" /\ main' = "ended"
  /\ UNCHANGED <<watcherVars, ctxDone, conf, readVer, run, cancelled, collVars, sigVars>>

\* <-done, then the shutdown that raced with the reload is honoured.
Drained ==
  /\ AllDone
  /\ \/ main = "drain_reload" /\ main' = (IF ctxDone THEN "ended" ELSE "reread")
     \/ main = "drain_exit" /\ main' = "ended"
  /\ UNCHANGED <<watcherVars, ctxDone, conf, readVer, run, cancelled, collVars, sigVars>>

\* Mutant: the error of readConfig is not looked at.
RereadUnchecked ==
  /\ main = "reread"
  /\ readVer' = file.ver
  /\ main' = "top"
  /\ conf' = file
  /\ UNCHANGED <<watcherVars, ctxDone, run, cancelled, collVars, sigVars>>

\* readConfig fails: conf stays.  logging.Setup fails: os.Exit.
Reread ==
  /\ main = "reread"
  /\ readVer' = file.ver
  /\ \/ /\ file.text \notin Good
        /\ main' = "top"
        /\ UNCHANGED conf
     \/ /\ file.text \in Good
        /\ main' = IF Flaw[file.text] = "logging" THEN "died" ELSE "top"
        /\ conf' = file
  /\ UNCHANGED <<watcherVars, ctxDone, run, cancelled, collVars, sigVars>>

------------------------------------------------------------------------------
(* The collection loop of one cluster, as main() sees it.                  *)

\* statsloop's first statements read the configuration main() shares with it.
LoopReadsConf(c) ==
  /\ Alive /\ coll[c] = "init"
  /\ coll' = [coll EXCEPT ![c] = "connect"]
  /\ seen' = [seen EXCEPT ![c] = conf]
  /\ UNCHANGED <<watcherVars, ctxDone, mainVars, endpoints, sigVars>>

\* Connected, buckets computed, backend initialised.
LoopConnects(c) ==
  /\ Alive /\ coll[c] = "connect"
  /\ Flaw[seen[c].text] # "zero_interval"
  /\ coll' = [coll EXCEPT ![c] = "collect"]
  /\ endpoints' = IF Backend[seen[c].text] = "prometheus"
                  THEN endpoints \cup {<<c, run>>} ELSE endpoints
  /\ UNCHANGED <<watcherVars, ctxDone, mainVars, seen, sigVars>>

\* calcBuckets meets a zero multiplier or interval: die(), in the goroutine.
LoopDies(c) ==
  /\ Alive /\ coll[c] = "connect"
  /\ Flaw[seen[c].text] = "zero_interval"
  /\ main' = "died"
  /\ UNCHANGED <<watcherVars, ctxDone, conf, readVer, run, cancelled, collVars, sigVars>>

\* A fetch, which needs a live context, has returned and its result is written
\* to InfluxDB v1: that client takes no context and has no timeout, so nothing
\* but the answer of the server ends the call.
LoopWrites(c) ==
  /\ Alive /\ coll[c] = "collect" /\ ~RunDone
  /\ Backend[seen[c].text] = "influxdb"
  /\ coll' = [coll EXCEPT ![c] = "write"]
  /\ UNCHANGED <<watcherVars, ctxDone, mainVars, seen, endpoints, sigVars>>

ServerAnswers(c) ==
  /\ Alive /\ coll[c] = "write"
  /\ coll' = [coll EXCEPT ![c] = "collect"]
  /\ UNCHANGED <<watcherVars, ctxDone, mainVars, seen, endpoints, sigVars>>

\* Mutant: the waits of the connection phase ignore the context.
LoopEndsLate(c) ==
  /\ Alive /\ coll[c] = "collect"
  /\ coll' = [coll EXCEPT ![c] = "done"]
  /\ UNCHANGED <<watcherVars, ctxDone, mainVars, seen, endpoints, sigVars>>

\* The loop returns: on an error it does not retry, or on cancellation.
LoopEnds(c) ==
  /\ Alive /\ Active(c) /\ coll[c] # "write"
  /\ coll' = [coll EXCEPT ![c] = "done"]
  /\ UNCHANGED <<watcherVars, ctxDone, mainVars, seen, endpoints, sigVars>>

\* Mutant: the endpoint belongs to the process and not to the run.
CloseEndpointAtExit(c, r) ==
  /\ Alive
  /\ <<c, r>> \in endpoints
  /\ ctxDone
  /\ endpoints' = endpoints \ {<<c, r>>}
  /\ UNCHANGED <<watcherVars, ctxDone, mainVars, coll, seen, sigVars>>

\* The goroutine of Connect that waits for the run's context: Shutdown.
CloseEndpoint(c, r) ==
  /\ Alive
  /\ <<c, r>> \in endpoints
  /\ r < run \/ RunDone
  /\ endpoints' = endpoints \ {<<c, r>>}
  /\ UNCHANGED <<watcherVars, ctxDone, mainVars, coll, seen, sigVars>>

\* The process is gone; its endpoints with it.
Terminated == ~Alive /\ UNCHANGED vars

MainStep ==
  \/ Start \/ RefuseConf \/ Spawn
  \/ SelectReload \/ SelectDone \/ SelectShutdown
  \/ Drained \/ Reread

LoopStep(c) ==
  \/ LoopReadsConf(c) \/ LoopConnects(c) \/ LoopDies(c)
  \/ LoopWrites(c) \/ ServerAnswers(c) \/ LoopEnds(c)

Next ==
  \/ Sigterm \/ Sighup \/ ForwardSighup \/ EditFile \/ Watch
  \/ MainStep
  \/ \E c \in Cluster : LoopStep(c)
  \/ \E e \in endpoints : CloseEndpoint(e[1], e[2])
  \/ Terminated

\* The Go scheduler runs every goroutine that can run.  A loop whose context
\* is cancelled returns: all its waits but the InfluxDB v1 write also wait for
\* the context.  Whether that server answers is not the program's to decide.
\* Signals, edits and failures of a loop are nobody's duty.
Fairness ==
  /\ WF_vars(MainStep)
  /\ WF_vars(~ctxDone /\ ForwardSighup)
  /\ WF_vars(Watch)
  /\ \A c \in Cluster : WF_vars(RunDone /\ LoopEnds(c))
  /\ \A c \in Cluster, r \in 1 .. MaxEdits + MaxHups + 1 : WF_vars(CloseEndpoint(c, r))

Spec == Init /\ [][Next]_vars

FairSpec == Spec /\ Fairness

------------------------------------------------------------------------------
(* Safety.                                                                 *)

\* Every loop at work is one that the configuration main() holds now enables,
\* and once set up it works from that one: main() never changes it under a
\* loop, and no loop of an earlier run is left.
OneConfiguration ==
  Alive => \A c \in Cluster :
             /\ Active(c) => c \in Enabled[conf.text]
             /\ SetUp(c) => seen[c] = conf

\* A change of the file made while the watch is in place is not lost: until
\* main() reads the file again, something is under way that makes it do so.
NoLostEdit ==
  /\ Alive /\ main # "drain_exit" /\ ~ctxDone
  /\ watch = "on"
  /\ file.ver > baseVer /\ file.ver > readVer
  => ReloadUnderWay \/ main \in {"drain_reload", "reread"}

\* Whenever main() reads the file, is about to start a run or has returned, no
\* collection loop is at work, and wherever it is but in its select statement
\* the run it has started last is cancelled.
NobodyLeftBehind ==
  /\ main \in {"start", "top", "reread", "ended"} => \A c \in Cluster : ~Active(c)
  /\ main \notin {"select", "died"} /\ run > 0 => cancelled

\* A watch that is in place is on a file that is there: were it believed to be
\* in place without one, a file that appears later would raise no event.
WatchOnFile == watch = "on" => Exists

\* Seen from outside, the supervisor is the reconfigurable service.
Serving ==
  [c \in Cluster |-> IF Alive /\ SetUp(c) THEN seen[c] ELSE NoConf]

EnabledIn(c, cfg) == c \in Enabled[cfg.text]

Service == INSTANCE ReconfService
             WITH Confs <- Conf, Off <- NoConf, current <- conf,
                  serving <- Serving, up <- Alive

RefinesService == Service!SvcSpec

------------------------------------------------------------------------------
(* Liveness.                                                               *)

\* After SIGTERM the process ends.
ShutdownCompletes == ctxDone ~> ~Alive

\* A SIGHUP, or a token on the reload channel, makes main() read the file
\* afterwards, unless the process is on its way out.
ReloadServed == sighup \/ reload ~> main = "reread" \/ ctxDone \/ ~Alive

\* The endpoint of a run that is over does not answer scrapes for ever beside
\* the endpoint of the next run, which listens on the same port (SO_REUSEPORT).
StaleEndpointCloses ==
  \A c \in Cluster, r \in 1 .. MaxEdits + MaxHups + 1 :
    <<c, r>> \in endpoints /\ r < run ~> <<c, r>> \notin endpoints \/ ~Alive

------------------------------------------------------------------------------
(* What the documentation says and the code does not do (see README).      *)

\* "Config reload failures are logged and recovered from": no content of the
\* file that comes in through a reload makes the process die.
ReloadNeverKills == conf.ver > 0 => main # "died"

==============================================================================
