-------------------------- MODULE SupervisorProofs ---------------------------
(***************************************************************************)
(* Proofs about Supervisor, for every set of clusters, every content of    *)
(* the configuration file, and any number of edits, signals and runs.      *)
(***************************************************************************)
EXTENDS Supervisor, TLAPS

------------------------------------------------------------------------------
(* Types.                                                                  *)

\* The variables of main(), of the loops and of the watcher keep their types.
THEOREM TypeCorrect == Spec => []TypeOK
<1> USE WatcherAssumption, SupervisorAssumption DEF WatcherAssumption, SupervisorAssumption
<1>1. Init => TypeOK
  <2> SUFFICES ASSUME Init PROVE TypeOK
    OBVIOUS
  <2>1. file = [ver |-> 0, text |-> file.text] /\ file.text \in Good
    BY DEF Init, WatcherInit, Good
  <2>2. 0 \in 0 .. MaxEdits /\ 0 \in 0 .. MaxHups
    OBVIOUS
  <2>3. file \in Conf /\ file \in FileType
    BY <2>1, <2>2 DEF Conf, FileType, Good
  <2>4. WatcherTypeOK
    BY <2>2, <2>3 DEF Init, WatcherInit, WatcherTypeOK
  <2>5. MainTypeOK
    <3>1. file.ver = 0
      BY <2>1
    <3>2. conf \in Conf /\ readVer \in 0 .. MaxEdits
      BY <2>2, <2>3, <3>1 DEF Init
    <3>3. QED
      BY <3>2 DEF Init, MainTypeOK, Places
  <2>6. LoopTypeOK /\ SignalTypeOK
    BY <2>2 DEF Init, LoopTypeOK, SignalTypeOK
  <2>7. QED
    BY <2>4, <2>5, <2>6 DEF TypeOK
<1>2. TypeOK /\ [Next]_vars => TypeOK'
  <2> SUFFICES ASSUME TypeOK, [Next]_vars PROVE TypeOK'
    OBVIOUS
  <2> USE DEF TypeOK
  <2>1. ASSUME UNCHANGED watcherVars PROVE WatcherTypeOK'
    BY <2>1 DEF watcherVars, WatcherTypeOK
  <2>2. ASSUME UNCHANGED mainVars PROVE MainTypeOK'
    BY <2>2 DEF mainVars, MainTypeOK
  <2>3. ASSUME UNCHANGED collVars PROVE LoopTypeOK'
    BY <2>3 DEF collVars, LoopTypeOK
  <2>4. ASSUME UNCHANGED <<ctxDone, sigVars>> PROVE SignalTypeOK'
    BY <2>4 DEF sigVars, SignalTypeOK
  <2>. file.ver \in 0 .. MaxEdits
    BY DEF WatcherTypeOK, FileType
  <2>5. CASE Sigterm
    BY <2>1, <2>2, <2>3, <2>5 DEF Sigterm, SignalTypeOK, sigVars
  <2>6. CASE Sighup
    BY <2>1, <2>2, <2>3, <2>6 DEF Sighup, SignalTypeOK
  <2>7. CASE ForwardSighup
    <3>1. WatcherTypeOK' /\ SignalTypeOK'
      BY <2>7 DEF ForwardSighup, WatcherTypeOK, SignalTypeOK
    <3>2. QED
      BY <2>2, <2>3, <2>7, <3>1 DEF ForwardSighup
  <2>8. CASE EditFile
    <3>1. ASSUME NEW t \in Texts \cup {Absent}, Change(t)
          PROVE  file' \in FileType
      BY <3>1 DEF Change, FileType, WatcherTypeOK
    <3>2. file' \in FileType
      BY <2>8, <3>1 DEF EditFile, Edit, WriteInPlace, RenameOver, Recreate, MoveAway
    <3>3. WatcherTypeOK'
      BY <2>8, <3>2 DEF EditFile, Edit, WriteInPlace, RenameOver, Recreate, MoveAway,
                        InodeLeaves, WatcherTypeOK
    <3>4. QED
      BY <2>2, <2>3, <2>4, <2>8, <3>3 DEF EditFile
  <2>9. CASE Watch
    <3>1. WatcherTypeOK'
      BY <2>9 DEF Watch, WatcherStep, HandleWrite, HandleGone, TimerFires, WatcherStops,
                  WatcherTypeOK
    <3>2. QED
      BY <2>2, <2>3, <2>4, <2>9, <3>1 DEF Watch
  <2>10. CASE MainStep
    <3>1. CASE Start
      <4>1. WatcherTypeOK'
        BY <3>1 DEF Start, StartConfigWatcher, WatcherTypeOK
      <4>2. MainTypeOK'
        BY <3>1 DEF Start, MainTypeOK, Places
      <4>3. QED
        BY <2>3, <2>4, <3>1, <4>1, <4>2 DEF Start
    <3>2. CASE Spawn
      <4>1. MainTypeOK'
        <5>1. main' = "select" /\ run' = run + 1 /\ cancelled' = FALSE
          BY <3>2 DEF Spawn
        <5>2. conf' = conf /\ readVer' = readVer
          BY <3>2 DEF Spawn
        <5>3. run' \in Nat
          BY <5>1 DEF MainTypeOK
        <5>4. QED
          BY <5>1, <5>2, <5>3 DEF MainTypeOK, Places
      <4>2. LoopTypeOK'
        BY <3>2 DEF Spawn, LoopTypeOK
      <4>3. QED
        BY <2>1, <2>4, <3>2, <4>1, <4>2 DEF Spawn
    <3>3. CASE SelectReload
      <4>1. WatcherTypeOK' /\ MainTypeOK'
        BY <3>3 DEF SelectReload, WatcherTypeOK, MainTypeOK, Places
      <4>2. QED
        BY <2>3, <2>4, <3>3, <4>1 DEF SelectReload
    <3>4. CASE Reread
      <4>1. file.text \in Good => file \in Conf
        BY DEF Conf, FileType, WatcherTypeOK
      <4>2. MainTypeOK'
        BY <3>4, <4>1 DEF Reread, MainTypeOK, Places
      <4>3. QED
        BY <2>1, <2>3, <2>4, <3>4, <4>2 DEF Reread
    <3>5. CASE RefuseConf \/ SelectDone \/ SelectShutdown \/ Drained
      <4>1. MainTypeOK'
        BY <3>5 DEF RefuseConf, SelectDone, SelectShutdown, Drained, MainTypeOK, Places
      <4>2. QED
        BY <2>1, <2>3, <2>4, <3>5, <4>1
           DEF RefuseConf, SelectDone, SelectShutdown, Drained
    <3>6. QED
      BY <2>10, <3>1, <3>2, <3>3, <3>4, <3>5 DEF MainStep
  <2>11. ASSUME NEW c \in Cluster, LoopStep(c)
         PROVE  TypeOK'
    <3>1. CASE LoopReadsConf(c)
      <4>1. LoopTypeOK'
        BY <3>1 DEF LoopReadsConf, LoopTypeOK, MainTypeOK
      <4>2. QED
        BY <2>1, <2>2, <2>4, <3>1, <4>1 DEF LoopReadsConf
    <3>2. CASE LoopConnects(c)
      <4>1. LoopTypeOK'
        BY <3>2 DEF LoopConnects, LoopTypeOK, MainTypeOK
      <4>2. QED
        BY <2>1, <2>2, <2>4, <3>2, <4>1 DEF LoopConnects
    <3>3. CASE LoopDies(c)
      <4>1. MainTypeOK'
        BY <3>3 DEF LoopDies, MainTypeOK, Places
      <4>2. QED
        BY <2>1, <2>3, <2>4, <3>3, <4>1 DEF LoopDies
    <3>4. CASE LoopWrites(c) \/ ServerAnswers(c) \/ LoopEnds(c)
      <4>1. LoopTypeOK'
        BY <3>4 DEF LoopWrites, ServerAnswers, LoopEnds, LoopTypeOK
      <4>2. QED
        BY <2>1, <2>2, <2>4, <3>4, <4>1 DEF LoopWrites, ServerAnswers, LoopEnds
    <3>5. QED
      BY <2>11, <3>1, <3>2, <3>3, <3>4 DEF LoopStep
  <2>12. ASSUME NEW e \in endpoints, CloseEndpoint(e[1], e[2])
         PROVE  TypeOK'
    <3>1. LoopTypeOK'
      BY <2>12 DEF CloseEndpoint, LoopTypeOK
    <3>2. QED
      BY <2>1, <2>2, <2>4, <2>12, <3>1 DEF CloseEndpoint
  <2>13. CASE UNCHANGED vars
    BY <2>1, <2>2, <2>3, <2>4, <2>13 DEF vars
  <2>14. QED
    BY <2>5, <2>6, <2>7, <2>8, <2>9, <2>10, <2>11, <2>12, <2>13 DEF Next, Terminated
<1>3. QED
  BY <1>1, <1>2, PTL DEF Spec

------------------------------------------------------------------------------
(* One configuration at a time, and nobody left behind.                    *)

\* The two depend on each other: main() may change its configuration because
\* no loop is at work then, and it learns that from the loops of one run only.
OneRun == OneConfiguration /\ NobodyLeftBehind

\* No step of the supervisor leaves a loop behind or changes the configuration
\* under one.
LEMMA OneRunStep ==
  ASSUME TypeOK, OneRun, [Next]_vars
  PROVE  OneRun'
<1> USE DEF OneRun, OneConfiguration, NobodyLeftBehind, Active, SetUp, Alive
<1>1. CASE Sigterm \/ Sighup \/ ForwardSighup \/ EditFile \/ Watch \/ UNCHANGED vars
  BY <1>1 DEF Sigterm, Sighup, ForwardSighup, EditFile, Watch, vars, mainVars, collVars
<1>2. CASE Start
  BY <1>2 DEF Start, StartConfigWatcher, collVars
<1>3. CASE RefuseConf
  BY <1>3 DEF RefuseConf, collVars
<1>4. CASE Spawn
  <2>1. conf' = conf /\ main' = "select"
    BY <1>4 DEF Spawn
  <2>2. ASSUME NEW c \in Cluster
        PROVE  ~SetUp(c)' /\ (Active(c)' => c \in Enabled[conf.text])
    BY <1>4 DEF Spawn
  <2>3. QED
    BY <2>1, <2>2
<1>5. CASE SelectReload \/ SelectDone \/ SelectShutdown
  BY <1>5 DEF SelectReload, SelectDone, SelectShutdown, AllDone, collVars
<1>6. CASE Drained
  BY <1>6 DEF Drained, AllDone, collVars
<1>7. CASE Reread
  BY <1>7 DEF Reread, collVars
<1>8. ASSUME NEW c \in Cluster, LoopStep(c)
      PROVE  OneRun'
  <2>. coll \in [Cluster -> {"none", "init", "connect", "collect", "write", "done"}]
       /\ seen \in [Cluster -> Conf \cup {NoConf}]
    BY DEF TypeOK, LoopTypeOK
  <2>1. CASE LoopReadsConf(c)
    BY <2>1 DEF LoopReadsConf, mainVars
  <2>2. CASE LoopConnects(c)
    BY <2>2 DEF LoopConnects, mainVars
  <2>3. CASE LoopDies(c)
    BY <2>3 DEF LoopDies, collVars
  <2>4. CASE LoopWrites(c)
    BY <2>4 DEF LoopWrites, mainVars
  <2>5. CASE ServerAnswers(c)
    BY <2>5 DEF ServerAnswers, mainVars
  <2>6. CASE LoopEnds(c)
    BY <2>6 DEF LoopEnds, mainVars
  <2>7. QED
    BY <1>8, <2>1, <2>2, <2>3, <2>4, <2>5, <2>6 DEF LoopStep
<1>9. ASSUME NEW e \in endpoints, CloseEndpoint(e[1], e[2])
      PROVE  OneRun'
  BY <1>9 DEF CloseEndpoint, mainVars
<1>10. QED
  BY <1>1, <1>2, <1>3, <1>4, <1>5, <1>6, <1>7, <1>8, <1>9 DEF Next, MainStep, Terminated

\* No loop is at work when the configuration is read again.
THEOREM OneRunAlways == Spec => []OneRun
<1>1. Init => OneRun
  BY DEF Init, OneRun, OneConfiguration, NobodyLeftBehind, Active, SetUp
<1>2. QED
  BY <1>1, OneRunStep, TypeCorrect, PTL DEF Spec

\* Loops work from the configuration of main(): whatever is read, in any order.
THEOREM ConfigurationIsOne == Spec => []OneConfiguration
BY OneRunAlways, PTL DEF OneRun

\* main() reads the file and returns only after the last loop has ended.
THEOREM NobodyIsLeftBehind == Spec => []NobodyLeftBehind
BY OneRunAlways, PTL DEF OneRun

------------------------------------------------------------------------------
(* No edit is lost.                                                        *)

\* An edit announces itself only through the watch, and the watch is good only
\* for a file that is there: without WatchOnFile a file could appear unnoticed.
EditInv == WatchOnFile /\ NoLostEdit

\* No step of the supervisor, its watcher or the editor loses an edit.
LEMMA EditStep ==
  ASSUME TypeOK, EditInv, [Next]_vars
  PROVE  EditInv'
<1> USE DEF EditInv, WatchOnFile, NoLostEdit, ReloadUnderWay, Exists, Alive, watcherVars
<1>1. CASE Sigterm \/ Sighup \/ UNCHANGED vars
  BY <1>1 DEF Sigterm, Sighup, vars, mainVars
<1>2. CASE ForwardSighup
  BY <1>2 DEF ForwardSighup, mainVars
<1>3. CASE EditFile
  <2>1. WatchOnFile'
    BY <1>3, WatcherAssumption
       DEF EditFile, Edit, WriteInPlace, RenameOver, MoveAway, Recreate, InodeLeaves,
           Change, WatcherAssumption
  <2>2. NoLostEdit'
    BY <1>3 DEF EditFile, Edit, WriteInPlace, RenameOver, MoveAway, Recreate,
                InodeLeaves, mainVars
  <2>3. QED
    BY <2>1, <2>2
<1>4. CASE Watch
  <2>1. CASE HandleWrite
    BY <1>4, <2>1 DEF Watch, HandleWrite, mainVars
  <2>2. CASE HandleGone
    BY <1>4, <2>2 DEF Watch, HandleGone, mainVars
  <2>3. CASE TimerFires
    BY <1>4, <2>3 DEF Watch, TimerFires, mainVars
  <2>4. CASE WatcherStops
    BY <1>4, <2>4 DEF Watch, WatcherStops, mainVars
  <2>5. QED
    BY <1>4, <2>1, <2>2, <2>3, <2>4 DEF Watch, WatcherStep
<1>5. CASE Start
  <2>1. baseVer' = file'.ver /\ file.ver \in Nat
    BY <1>5 DEF Start, StartConfigWatcher, TypeOK, WatcherTypeOK, FileType
  <2>2. ~(file'.ver > baseVer')
    BY <1>5, <2>1 DEF Start, StartConfigWatcher
  <2>3. QED
    BY <1>5, <2>2 DEF Start, StartConfigWatcher
<1>6. CASE RefuseConf \/ Spawn \/ SelectDone \/ SelectShutdown
  BY <1>6 DEF RefuseConf, Spawn, SelectDone, SelectShutdown
<1>7. CASE SelectReload
  BY <1>7 DEF SelectReload
<1>8. CASE Drained
  BY <1>8 DEF Drained
<1>9. CASE Reread
  <2>1. readVer' = file'.ver /\ file.ver \in Nat
    BY <1>9 DEF Reread, TypeOK, WatcherTypeOK, FileType
  <2>2. ~(file'.ver > readVer')
    BY <1>9, <2>1 DEF Reread
  <2>3. QED
    BY <1>9, <2>2 DEF Reread
<1>10. ASSUME NEW c \in Cluster, LoopStep(c)
       PROVE  EditInv'
  BY <1>10 DEF LoopStep, LoopReadsConf, LoopConnects, LoopDies, LoopWrites,
               ServerAnswers, LoopEnds, mainVars
<1>11. ASSUME NEW e \in endpoints, CloseEndpoint(e[1], e[2])
       PROVE  EditInv'
  BY <1>11 DEF CloseEndpoint, mainVars
<1>12. QED
  BY <1>1, <1>2, <1>3, <1>4, <1>5, <1>6, <1>7, <1>8, <1>9, <1>10, <1>11
     DEF Next, MainStep, Terminated

\* The inductive pair of the watch: it is on a file, and edits under it are
\* either read or about to be.
THEOREM EditsAlways == Spec => []EditInv
<1>1. Init => EditInv
  <2>1. ASSUME Init PROVE file.ver = 0 /\ baseVer = 0
    BY <2>1 DEF Init, WatcherInit
  <2>2. QED
    BY <2>1 DEF Init, WatcherInit, EditInv, WatchOnFile, NoLostEdit
<1>2. QED
  BY <1>1, EditStep, TypeCorrect, PTL DEF Spec

\* Edits of the file and signals come in any order and at any time: while the
\* watch is in place each change is read, or something under way will read it.
THEOREM NoEditIsLost == Spec => []NoLostEdit
BY EditsAlways, PTL DEF EditInv

\* The watcher never takes a watch for being in place that is on no file, in
\* whatever order the file goes, comes back and the events are handled.
THEOREM WatchIsOnFile == Spec => []WatchOnFile
BY EditsAlways, PTL DEF EditInv

------------------------------------------------------------------------------
(* The supervisor implements the reconfigurable service.                   *)

\* A step that leaves main() alive or dead, its configuration and its loops as
\* they are is invisible from outside.
LEMMA Invisible ==
  ASSUME UNCHANGED <<conf, coll, seen>>, Alive' = Alive
  PROVE  UNCHANGED Service!svcVars
BY DEF Service!svcVars, Serving, SetUp

\* A step that ends the process and leaves its configuration ends the service.
LEMMA Ending ==
  ASSUME Alive, ~Alive', conf' = conf
  PROVE  Service!SvcNext
<1>1. Serving' = [c \in Cluster |-> NoConf]
  BY DEF Serving
<1>2. QED
  BY <1>1 DEF Service!SvcNext, Service!End

\* A step of the supervisor is a step of the service or is invisible.
LEMMA ServiceStep ==
  ASSUME TypeOK, OneRun, [Next]_vars
  PROVE  [Service!SvcNext]_(Service!svcVars)
<1> USE DEF OneRun, OneConfiguration, NobodyLeftBehind, Active
<1>. /\ coll \in [Cluster -> {"none", "init", "connect", "collect", "write", "done"}]
     /\ seen \in [Cluster -> Conf \cup {NoConf}]
     /\ conf \in Conf
  BY DEF TypeOK, LoopTypeOK, MainTypeOK
<1>. NoConf \notin Conf
  BY SupervisorAssumption DEF SupervisorAssumption
<1>. DEFINE Idle == [c \in Cluster |-> NoConf]
<1>1. CASE Sigterm \/ Sighup \/ ForwardSighup \/ EditFile \/ Watch \/ UNCHANGED vars
  BY <1>1, Invisible
     DEF Sigterm, Sighup, ForwardSighup, EditFile, Watch, vars, mainVars, collVars, Alive
<1>2. CASE Start
  BY <1>2, Invisible DEF Start, collVars, Alive
<1>3. CASE RefuseConf \/ SelectDone
  BY <1>3, Ending DEF RefuseConf, SelectDone, Alive
<1>4. CASE Spawn
  <2>1. Serving = Idle /\ Serving' = Idle
    BY <1>4 DEF Spawn, Serving, SetUp
  <2>2. UNCHANGED Service!svcVars
    BY <1>4, <2>1 DEF Spawn, Service!svcVars, Alive
  <2>3. QED
    BY <2>2
<1>5. CASE SelectReload \/ SelectShutdown
  BY <1>5, Invisible DEF SelectReload, SelectShutdown, collVars, Alive
<1>6. CASE Drained
  <2>1. CASE main' = "ended"
    BY <1>6, <2>1, Ending DEF Drained, Alive
  <2>2. CASE main' # "ended"
    BY <1>6, <2>2, Invisible DEF Drained, collVars, Alive
  <2>3. QED
    BY <2>1, <2>2
<1>7. CASE Reread
  <2>1. Serving = Idle /\ Serving' = Idle
    BY <1>7 DEF Reread, Serving, SetUp, collVars
  <2>2. CASE file.text \notin Good
    BY <1>7, <2>2, Invisible DEF Reread, collVars, Alive
  <2>3. CASE file.text \in Good
    <3>1. conf' = file /\ file \in Conf
      BY <1>7, <2>3 DEF Reread, TypeOK, WatcherTypeOK, FileType, Conf
    <3>2. CASE main' = "top"
      <4>1. Service!Reconfigure(file)
        BY <1>7, <2>1, <3>1, <3>2 DEF Reread, Service!Reconfigure, Alive
      <4>2. QED
        BY <3>1, <4>1 DEF Service!SvcNext
    <3>3. CASE main' = "died"
      <4>1. Service!End
        BY <1>7, <2>1, <3>1, <3>3 DEF Reread, Service!End, Alive
      <4>2. QED
        BY <4>1 DEF Service!SvcNext
    <3>4. QED
      BY <1>7, <2>3, <3>2, <3>3 DEF Reread
  <2>4. QED
    BY <2>2, <2>3
<1>8. ASSUME NEW c \in Cluster, LoopStep(c)
      PROVE  [Service!SvcNext]_(Service!svcVars)
  <2>1. CASE LoopReadsConf(c)
    <3>1. Alive /\ Alive' /\ conf' = conf /\ c \in Enabled[conf.text]
      BY <2>1 DEF LoopReadsConf, mainVars, Alive
    <3>2. Serving[c] = NoConf
      BY <2>1 DEF LoopReadsConf, Serving, SetUp
    <3>3. Serving' = [Serving EXCEPT ![c] = conf]
      BY <2>1, <3>1 DEF LoopReadsConf, Serving, SetUp
    <3>4. Service!Activate(c)
      BY <3>1, <3>2, <3>3 DEF Service!Activate, EnabledIn
    <3>5. QED
      BY <3>4 DEF Service!SvcNext
  <2>2. CASE LoopConnects(c) \/ LoopWrites(c) \/ ServerAnswers(c)
    <3>1. Alive' = Alive /\ conf' = conf
      BY <2>2 DEF LoopConnects, LoopWrites, ServerAnswers, mainVars, Alive
    <3>2. Serving' = Serving
      BY <2>2, <3>1 DEF LoopConnects, LoopWrites, ServerAnswers, Serving, SetUp
    <3>3. QED
      BY <3>1, <3>2 DEF Service!svcVars
  <2>3. CASE LoopDies(c)
    BY <2>3, Ending DEF LoopDies, Alive
  <2>4. CASE LoopEnds(c)
    <3>1. Alive /\ Alive' /\ conf' = conf
      BY <2>4 DEF LoopEnds, mainVars, Alive
    <3>2. CASE SetUp(c)
      <4>1. Serving[c] # NoConf
        BY <3>1, <3>2 DEF Serving
      <4>2. Serving' = [Serving EXCEPT ![c] = NoConf]
        BY <2>4, <3>1 DEF LoopEnds, Serving, SetUp
      <4>3. Service!Deactivate(c)
        BY <3>1, <4>1, <4>2 DEF Service!Deactivate
      <4>4. QED
        BY <4>3 DEF Service!SvcNext
    <3>3. CASE ~SetUp(c)
      <4>1. Serving' = Serving
        BY <2>4, <3>1, <3>3 DEF LoopEnds, Serving, SetUp
      <4>2. QED
        BY <3>1, <4>1 DEF Service!svcVars
    <3>4. QED
      BY <3>2, <3>3
  <2>5. QED
    BY <1>8, <2>1, <2>2, <2>3, <2>4 DEF LoopStep
<1>9. ASSUME NEW e \in endpoints, CloseEndpoint(e[1], e[2])
      PROVE  UNCHANGED Service!svcVars
  BY <1>9, Invisible DEF CloseEndpoint, mainVars, Alive
<1>10. QED
  BY <1>1, <1>2, <1>3, <1>4, <1>5, <1>6, <1>7, <1>8, <1>9 DEF Next, MainStep, Terminated

\* main(), its channels, contexts and goroutines together behave as the
\* reconfigurable service does: every step is one of its steps or a stutter.
THEOREM SupervisorRefinesService == Spec => RefinesService
<1>1. Init => Service!SvcInit
  <2> SUFFICES ASSUME Init PROVE Service!SvcInit
    OBVIOUS
  <2>1. file = [ver |-> 0, text |-> file.text] /\ file.text \in Good
    BY DEF Init, WatcherInit, Good
  <2>2. conf \in Conf
    BY <2>1, WatcherAssumption DEF Init, Conf, WatcherAssumption
  <2>3. Serving = [c \in Cluster |-> NoConf] /\ Alive = TRUE
    BY DEF Init, Serving, SetUp, Alive
  <2>4. QED
    BY <2>2, <2>3 DEF Service!SvcInit
<1>2. QED
  BY <1>1, ServiceStep, TypeCorrect, OneRunAlways, PTL
     DEF Spec, RefinesService, Service!SvcSpec

==============================================================================
