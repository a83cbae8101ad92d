---------------------------- MODULE ReconfService ----------------------------
(***************************************************************************)
(* What the supervisor promises, without channels, contexts or goroutines: *)
(* a service made of one worker per cluster that can be reconfigured while *)
(* it is up.  Workers only ever work from the current configuration, and   *)
(* the configuration changes only while none of them is at work.           *)
(***************************************************************************)
CONSTANTS
  Cluster,    \* the clusters that may be collected from
  Confs,      \* the configurations
  Off,        \* not working
  EnabledIn(_, _)   \* EnabledIn(c, cfg): the configuration enables cluster c

VARIABLES
  current,    \* the configuration in force
  serving,    \* serving[c]: the configuration the worker of c works from, or Off
  up          \* the service has not ended

svcVars == <<current, serving, up>>

SvcInit ==
  /\ current \in Confs
  /\ serving = [c \in Cluster |-> Off]
  /\ up = TRUE

Activate(c) ==
  /\ up /\ serving[c] = Off /\ EnabledIn(c, current)
  /\ serving' = [serving EXCEPT ![c] = current]
  /\ UNCHANGED <<current, up>>

Deactivate(c) ==
  /\ serving[c] # Off
  /\ serving' = [serving EXCEPT ![c] = Off]
  /\ UNCHANGED <<current, up>>

Reconfigure(cfg) ==
  /\ up /\ \A c \in Cluster : serving[c] = Off
  /\ current' = cfg
  /\ UNCHANGED <<serving, up>>

\* The end of the service stops every worker.  With up, the configuration may
\* change in the step that ends it: a reload may be the last thing it does.
End ==
  /\ up
  /\ up' = FALSE
  /\ serving' = [c \in Cluster |-> Off]
  /\ \/ UNCHANGED current
     \/ /\ \A c \in Cluster : serving[c] = Off
        /\ current' \in Confs

SvcNext ==
  \/ \E c \in Cluster : Activate(c) \/ Deactivate(c)
  \/ \E cfg \in Confs : Reconfigure(cfg)
  \/ End

SvcSpec == SvcInit /\ [][SvcNext]_svcVars

==============================================================================
