---------------------------- MODULE ConfigWatcher ----------------------------
(***************************************************************************)
(* The configuration file and the goroutine that watches it                *)
(* (internal/platform/platform.go, StartConfigWatcher).                    *)
(*                                                                         *)
(* The goroutine owns one fsnotify watch, on the path of the file.         *)
(* fsnotify follows the inode: when the file is removed, renamed or        *)
(* replaced the watch goes away with it and an event reports it; the       *)
(* goroutine then adds the path again, which succeeds only when a file is  *)
(* there at that moment.  Every event arms a debounce timer, and the timer *)
(* puts a token on the reload channel of main(), which holds one token.    *)
(*                                                                         *)
(* The file carries a version that counts its changes, so that what was    *)
(* read can be compared with what was written.                             *)
(***************************************************************************)
EXTENDS Naturals

CONSTANTS
  Texts,      \* what the file may hold
  Absent,     \* the path names no file
  MaxEdits    \* bound: changes of the file in one behaviour

ASSUME WatcherAssumption ==
  /\ Absent \notin Texts
  /\ MaxEdits \in Nat

VARIABLES
  file,       \* [ver, text]: version and content of the configuration file
  watch,      \* "off" before StartConfigWatcher, "on", "lost" or "closed"
  baseVer,    \* version of the file when the watch was first added
  events,     \* fsnotify events not handled yet (repeats collapse)
  timer,      \* the debounce timer is armed
  reload,     \* the reload channel holds its token
  ctxDone     \* the top-level context is cancelled

watcherVars == <<file, watch, baseVer, events, timer, reload>>

Exists == file.text # Absent

FileType == [ver : 0 .. MaxEdits, text : Texts \cup {Absent}]

WatcherTypeOK ==
  /\ file \in FileType
  /\ watch \in {"off", "on", "lost", "closed"}
  /\ baseVer \in 0 .. MaxEdits
  /\ events \in SUBSET {"write", "gone"}
  /\ timer \in BOOLEAN
  /\ reload \in BOOLEAN

WatcherInit ==
  /\ file \in [ver : {0}, text : Texts]
  /\ watch = "off"
  /\ baseVer = 0
  /\ events = {}
  /\ timer = FALSE
  /\ reload = FALSE

\* watcher.Add at startup; without a file there is no goroutine at all.
StartConfigWatcher ==
  /\ watch = "off"
  /\ watch' = IF Exists THEN "on" ELSE "closed"
  /\ baseVer' = file.ver
  /\ UNCHANGED <<file, events, timer, reload>>

------------------------------------------------------------------------------
(* What the user and the editor do to the file.                            *)

Change(text) ==
  /\ file.ver < MaxEdits
  /\ file' = [ver |-> file.ver + 1, text |-> text]

\* The file is opened and written: the inode stays.
WriteInPlace(text) ==
  /\ Exists
  /\ Change(text)
  /\ events' = IF watch = "on" THEN events \cup {"write"} ELSE events
  /\ UNCHANGED <<watch, baseVer, timer, reload>>

\* The watched inode leaves the path: fsnotify reports it and drops the watch.
InodeLeaves ==
  /\ watch' = IF watch = "on" THEN "lost" ELSE watch
  /\ events' = IF watch = "on" THEN events \cup {"gone"} ELSE events
  /\ UNCHANGED <<baseVer, timer, reload>>

\* A temporary file is renamed over the path: there is a file at all times.
RenameOver(text) ==
  /\ Exists
  /\ Change(text)
  /\ InodeLeaves

\* The file is removed, or moved to a backup name.
MoveAway ==
  /\ Exists
  /\ Change(Absent)
  /\ InodeLeaves

\* A new file appears where there was none: nothing watches the path.
Recreate(text) ==
  /\ ~Exists
  /\ Change(text)
  /\ UNCHANGED <<watch, baseVer, events, timer, reload>>

Edit ==
  \/ \E t \in Texts : WriteInPlace(t) \/ RenameOver(t) \/ Recreate(t)
  \/ MoveAway

------------------------------------------------------------------------------
(* The select loop of the watcher goroutine.                               *)

Watching == watch \in {"on", "lost"}

HandleWrite ==
  /\ Watching /\ "write" \in events
  /\ events' = events \ {"write"}
  /\ timer' = TRUE
  /\ UNCHANGED <<file, watch, baseVer, reload>>

\* Mutant: the watch is believed to be in place whatever Add returned.
HandleGoneBlindly ==
  /\ Watching /\ "gone" \in events
  /\ events' = events \ {"gone"}
  /\ watch' = "on"
  /\ timer' = TRUE
  /\ UNCHANGED <<file, baseVer, reload>>

\* The error of watcher.Add is dropped: without a file the watch stays lost.
HandleGone ==
  /\ Watching /\ "gone" \in events
  /\ events' = events \ {"gone"}
  /\ watch' = IF Exists THEN "on" ELSE watch
  /\ timer' = TRUE
  /\ UNCHANGED <<file, baseVer, reload>>

\* The send is non-blocking: a token already there stands for this one too.
TimerFires ==
  /\ Watching /\ timer
  /\ timer' = FALSE
  /\ reload' = TRUE
  /\ UNCHANGED <<file, watch, baseVer, events>>

WatcherStops ==
  /\ Watching /\ ctxDone
  /\ watch' = "closed"
  /\ UNCHANGED <<file, baseVer, events, timer, reload>>

WatcherStep == HandleWrite \/ HandleGone \/ TimerFires \/ WatcherStops

\* Something is under way that ends in a token on the reload channel.
ReloadUnderWay == events # {} \/ timer \/ reload

==============================================================================
