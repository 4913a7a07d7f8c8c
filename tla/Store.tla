-------------------------------- MODULE Store --------------------------------
(***************************************************************************)
(* internal/registry/persist.go: the debounced registry file, together     *)
(* with the shutdown sequence of cmd/haigosmartd/main.go that flushes it.  *)
(*                                                                         *)
(* The content of the registry is a version number that every persisted    *)
(* change increments.  A timer is one time.AfterFunc together with the     *)
(* goroutine its callback runs in.  Everything under s.mu is one step, and *)
(* so is each system call of save; the registry's lock is held around      *)
(* dirty(), so a change and its schedule() are one step too.               *)
(*                                                                         *)
(* Of a file the module keeps the version it holds and how much of it can  *)
(* be relied on: written in part, written, or synced.  The file system is  *)
(* external: a power cut may tear a file that was not synced, and may undo *)
(* a rename, for the directory is not synced.                              *)
(***************************************************************************)
EXTENDS Naturals

CONSTANTS
  Timer,       \* AfterFunc timers in flight at once
  Main,        \* the main goroutine
  Nil,         \* s.timer = nil
  MaxVersion,  \* bound on the changes
  Headless,    \* headless mode flushes as soon as the signal arrives
  Faults,      \* whether saves may be slow and fail: a subset of BOOLEAN
  Endings      \* what may make run() return: "signal", "server"

Saver == Timer \cup {Main}

ASSUME StoreAssumption ==
  /\ Main \notin Timer
  /\ Nil \notin Timer
  /\ MaxVersion \in Nat
  /\ Headless \in BOOLEAN
  /\ Faults \subseteq BOOLEAN
  /\ Endings \subseteq {"signal", "server"}

VARIABLES
  mem,      \* version in memory
  disk,     \* the file at the registry's path
  stored,   \* the file the path leads to on stable storage
  temp,     \* the temporary file of a save
  pending,  \* s.pending
  handle,   \* s.timer
  pc,       \* where a timer's callback, or main's call of Flush, is
  snap,     \* the snapshot a save has taken
  main,     \* where run() is
  faulty    \* saves may outlast the debounce delay, or fail; never changes

files == <<disk, stored, temp>>
vars == <<mem, files, pending, handle, pc, snap, main, faulty>>

Alive == {"running", "flushing", "waiting", "served", "closing"}

Data == {"partial", "written", "synced"}
File == [version : 0..MaxVersion, data : Data]

PC == {"idle", "armed", "fired", "flush",
       "snapshot", "create", "write", "sync", "rename"}

TypeOK ==
  /\ mem \in 0..MaxVersion
  /\ {disk, stored} \subseteq File
  /\ temp \in [Saver -> Data \cup {Nil}]
  /\ pending \in BOOLEAN
  /\ handle \in Timer \cup {Nil}
  /\ pc \in [Saver -> PC]
  /\ snap \in [Saver -> 0..MaxVersion]
  /\ main \in Alive \cup {"exited", "crashed"}
  /\ faulty \in BOOLEAN

Init ==
  /\ mem = 0
  /\ disk = [version |-> 0, data |-> "synced"]
  /\ stored = disk
  /\ temp = [p \in Saver |-> Nil]
  /\ pending = FALSE
  /\ handle = Nil
  /\ pc = [p \in Saver |-> "idle"]
  /\ snap = [p \in Saver |-> 0]
  /\ main = "running"
  /\ faulty \in Faults

Goto(p, label) == pc' = [pc EXCEPT ![p] = label]

-----------------------------------------------------------------------------
(* Store.schedule.                                                         *)
Schedule ==
  /\ pending' = TRUE
  /\ IF handle # Nil
     THEN UNCHANGED <<handle, pc>>
     ELSE \E t \in Timer : pc[t] = "idle" /\ handle' = t /\ Goto(t, "armed")

(* A registry method changes something that is persisted and calls dirty.  *)
(* Sessions go on ending, and changing the registry, until Serve returns.  *)
Change ==
  /\ main \in {"running", "flushing", "waiting"}
  /\ mem < MaxVersion
  /\ mem' = mem + 1
  /\ Schedule
  /\ UNCHANGED <<files, snap, main, faulty>>

(* The debounce delay is over.  On a disk that is not slow the save of the *)
(* previous timer is done by then.                                         *)
Fire(t) ==
  /\ pc[t] = "armed"
  /\ main \in Alive
  /\ faulty \/ \A u \in Timer : pc[u] \in {"idle", "armed"}
  /\ Goto(t, "fired")
  /\ UNCHANGED <<mem, files, pending, handle, snap, main, faulty>>

(* The callback that does not reset s.timer.  A mutant.                    *)
ClearHandleForgotten(t) ==
  /\ pc[t] = "fired"
  /\ Goto(t, "flush")
  /\ UNCHANGED <<mem, files, pending, handle, snap, main, faulty>>

(* The callback resets s.timer before it calls Flush.                      *)
ClearHandle(t) ==
  /\ pc[t] = "fired"
  /\ main \in Alive
  /\ handle' = Nil
  /\ Goto(t, "flush")
  /\ UNCHANGED <<mem, files, pending, snap, main, faulty>>

-----------------------------------------------------------------------------
(* Store.Flush claims the pending change; Store.save takes its snapshot,   *)
(* writes and syncs a temporary file, and renames it over the target.      *)
Flush(p) ==
  /\ pc[p] = "flush"
  /\ main \in Alive
  /\ pending' = FALSE
  /\ Goto(p, IF pending THEN "snapshot" ELSE "idle")
  /\ UNCHANGED <<mem, files, handle, snap, main, faulty>>

Snapshot(p) ==
  /\ pc[p] = "snapshot"
  /\ main \in Alive
  /\ snap' = [snap EXCEPT ![p] = mem]
  /\ Goto(p, "create")
  /\ UNCHANGED <<mem, files, pending, handle, main, faulty>>

(* os.CreateTemp, in the directory of the target and under a new name.     *)
CreateTemp(p) ==
  /\ pc[p] = "create"
  /\ main \in Alive
  /\ temp' = [temp EXCEPT ![p] = "partial"]
  /\ Goto(p, "write")
  /\ UNCHANGED <<mem, disk, stored, pending, handle, snap, main, faulty>>

WriteTemp(p) ==
  /\ pc[p] = "write"
  /\ main \in Alive
  /\ temp' = [temp EXCEPT ![p] = "written"]
  /\ Goto(p, "sync")
  /\ UNCHANGED <<mem, disk, stored, pending, handle, snap, main, faulty>>

(* save without tmp.Sync.  A mutant.                                       *)
SyncForgotten(p) ==
  /\ pc[p] = "sync"
  /\ main \in Alive
  /\ Goto(p, "rename")
  /\ UNCHANGED <<mem, files, pending, handle, snap, main, faulty>>

(* tmp.Sync and tmp.Close.                                                 *)
SyncTemp(p) ==
  /\ pc[p] = "sync"
  /\ main \in Alive
  /\ temp' = [temp EXCEPT ![p] = "synced"]
  /\ Goto(p, "rename")
  /\ UNCHANGED <<mem, disk, stored, pending, handle, snap, main, faulty>>

(* save returns; the deferred os.Remove finds the temporary file unless it *)
(* has been renamed.                                                       *)
SaveReturns(p) ==
  /\ snap' = [snap EXCEPT ![p] = 0]
  /\ temp' = [temp EXCEPT ![p] = Nil]
  /\ Goto(p, "idle")

(* save that clears s.pending when it is done.  A mutant.                  *)
RenameTempAndClear(p) ==
  /\ pc[p] = "rename"
  /\ main \in Alive
  /\ disk' = [version |-> snap[p], data |-> temp[p]]
  /\ SaveReturns(p)
  /\ pending' = FALSE
  /\ UNCHANGED <<mem, stored, handle, main, faulty>>

RenameTemp(p) ==
  /\ pc[p] = "rename"
  /\ main \in Alive
  /\ disk' = [version |-> snap[p], data |-> temp[p]]
  /\ SaveReturns(p)
  /\ UNCHANGED <<mem, stored, pending, handle, main, faulty>>

(* A system call of save fails, a write perhaps after some of its bytes:   *)
(* the error is reported, the change is neither on disk nor pending.       *)
SaveFails(p) ==
  /\ faulty
  /\ pc[p] \in {"create", "write", "sync", "rename"}
  /\ main \in Alive
  /\ SaveReturns(p)
  /\ UNCHANGED <<mem, disk, stored, pending, handle, main, faulty>>

-----------------------------------------------------------------------------
(* run() learns that ctx is cancelled.  Headless, it calls Flush at once.  *)
Cancel ==
  /\ "signal" \in Endings
  /\ main = "running"
  /\ IF Headless
     THEN main' = "flushing" /\ Goto(Main, "flush")
     ELSE main' = "waiting" /\ UNCHANGED pc
  /\ UNCHANGED <<mem, files, pending, handle, snap, faulty>>

(* Headless, the server ends before any signal: it could not bind, or      *)
(* Accept failed and every session has ended.  run() returns.              *)
ServerFails ==
  /\ "server" \in Endings
  /\ Headless
  /\ main = "running"
  /\ main' = "served"
  /\ UNCHANGED <<mem, files, pending, handle, pc, snap, faulty>>

(* Flush has returned; run() waits for Serve.                              *)
AwaitServer ==
  /\ main = "flushing"
  /\ pc[Main] = "idle"
  /\ main' = "waiting"
  /\ UNCHANGED <<mem, files, pending, handle, pc, snap, faulty>>

(* Serve has returned and the deferred Store.Close runs: it stops the      *)
(* timer, unless its callback has already started, and calls Flush.        *)
Close ==
  /\ main \in {"waiting", "served"}
  /\ main' = "closing"
  /\ handle' = Nil
  /\ pc' = [p \in Saver |-> IF p = Main THEN "flush"
                            ELSE IF p = handle /\ pc[p] = "armed" THEN "idle"
                            ELSE pc[p]]
  /\ UNCHANGED <<mem, files, pending, snap, faulty>>

(* run() returns and the process ends, its other goroutines with it.       *)
Exit ==
  /\ main = "closing"
  /\ pc[Main] = "idle"
  /\ main' = "exited"
  /\ UNCHANGED <<mem, files, pending, handle, pc, snap, faulty>>

(* The process is killed; its files stay as they are.                      *)
Crash ==
  /\ main \in Alive
  /\ main' = "crashed"
  /\ UNCHANGED <<mem, files, pending, handle, pc, snap, faulty>>

(* The file system gets round to writing the directory.  External.         *)
DirectoryWritten ==
  /\ stored' = disk
  /\ UNCHANGED <<mem, disk, temp, pending, handle, pc, snap, main, faulty>>

(* What a power cut makes of the data of a file.                           *)
AfterPowerCut(data) == IF data = "synced" THEN {"synced"} ELSE {data, "partial"}

(* The machine loses power, whether the process still runs or not.         *)
PowerFails ==
  /\ \E f \in {disk, stored} : \E data \in AfterPowerCut(f.data) :
       disk' = [f EXCEPT !.data = data]
  /\ stored' = disk'
  /\ main' = "crashed"
  /\ UNCHANGED <<mem, temp, pending, handle, pc, snap, faulty>>

(* The next process loads the file; a temporary file that was left behind  *)
(* is read by nobody.                                                      *)
Load ==
  /\ main \in {"exited", "crashed"}
  /\ disk.data # "partial"
  /\ mem' = disk.version
  /\ pending' = FALSE
  /\ handle' = Nil
  /\ pc' = [p \in Saver |-> "idle"]
  /\ snap' = [p \in Saver |-> 0]
  /\ temp' = [p \in Saver |-> Nil]
  /\ main' = "running"
  /\ UNCHANGED <<disk, stored, faulty>>

-----------------------------------------------------------------------------
Save(p) ==
  \/ Flush(p) \/ Snapshot(p)
  \/ CreateTemp(p) \/ WriteTemp(p) \/ SyncTemp(p) \/ RenameTemp(p)
  \/ SaveFails(p)

Next ==
  \/ Change \/ Cancel \/ ServerFails \/ AwaitServer \/ Close \/ Exit
  \/ Crash \/ DirectoryWritten \/ PowerFails \/ Load
  \/ \E t \in Timer : Fire(t) \/ ClearHandle(t)
  \/ \E p \in Saver : Save(p)

(* Timers fire and runnable goroutines run.  Nothing makes the process be  *)
(* stopped, crash, or change its registry.                                 *)
Fairness ==
  /\ \A t \in Timer : WF_vars(Fire(t)) /\ WF_vars(ClearHandle(t))
  /\ \A p \in Saver : WF_vars(Save(p))

Spec == Init /\ [][Next]_vars

FairSpec == Spec /\ Fairness

-----------------------------------------------------------------------------
(* A change that has been recorded as pending has a timer that will claim  *)
(* it: the order in which the callback resets s.timer and s.pending        *)
(* (schedule, Flush) loses no change that arrives in between.              *)
PendingIsScheduled ==
  main \in {"running", "flushing", "waiting", "served"} /\ pending =>
    \E t \in Timer : pc[t] \in {"armed", "fired", "flush"}

(* The registry file is whole, wherever a save was when the process was    *)
(* killed, an operation failed or the power went: what is renamed over the *)
(* target has been written and synced (save).                              *)
FileIsWhole == disk.data # "partial"

(* With nothing pending and no save under way, the file holds what the     *)
(* registry holds, changes that arrived during a save included, as long as *)
(* saves succeed within the debounce delay (Flush, save).                  *)
QuietMeansSaved ==
  (/\ ~faulty
   /\ main = "running"
   /\ ~pending
   /\ \A p \in Saver : pc[p] \in {"idle", "armed", "fired", "flush"})
    => disk.version = mem

(* What the registry held when run() returned is in the file.              *)
SavedAtExit == main = "exited" => disk.version = mem

(* Every change reaches the file, unless the process is stopped first, as  *)
(* long as saves succeed within the debounce delay (schedule, Flush).      *)
EventuallySaved ==
  \A v \in 1..MaxVersion :
    ~faulty /\ main = "running" /\ mem = v ~> disk.version >= v \/ main # "running"

=============================================================================
