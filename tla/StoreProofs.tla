----------------------------- MODULE StoreProofs -----------------------------
(***************************************************************************)
(* Proofs about Store, for any number of timers, any number of changes,    *)
(* and crashes and failing saves anywhere.                                 *)
(***************************************************************************)
EXTENDS Store, TLAPS

(* PendingIsScheduled rests on what s.timer means: a timer that is still   *)
(* to fire, or whose callback has yet to reset it.                         *)
HandleIsArmed == handle # Nil => pc[handle] \in {"armed", "fired"}

(* FileIsWhole rests on the order of Sync and Rename: nothing that was not *)
(* synced gets the name of the registry file.                              *)
SyncedIsRenamed ==
  /\ disk.data = "synced" /\ stored.data = "synced"
  /\ \A p \in Saver : pc[p] = "rename" => temp[p] = "synced"

StoreInv ==
  /\ TypeOK
  /\ SyncedIsRenamed
  /\ HandleIsArmed
  /\ PendingIsScheduled

LEMMA InitStore == Init => StoreInv
  <1> SUFFICES ASSUME Init PROVE StoreInv
    OBVIOUS
  <1> USE StoreAssumption DEF Init
  <1>0. 0 \in 0..MaxVersion
    OBVIOUS
  <1>1. TypeOK
    <2>1. snap \in [Saver -> 0..MaxVersion]
      BY <1>0
    <2>2. pc \in [Saver -> PC]
      BY DEF PC
    <2>3. {disk, stored} \subseteq File /\ temp \in [Saver -> Data \cup {Nil}]
      BY <1>0 DEF File, Data
    <2> QED BY <1>0, <2>1, <2>2, <2>3 DEF TypeOK, Alive
  <1>2. SyncedIsRenamed /\ HandleIsArmed /\ PendingIsScheduled
    BY DEF SyncedIsRenamed, HandleIsArmed, PendingIsScheduled
  <1> QED BY <1>1, <1>2 DEF StoreInv

(* A pending change keeps its timer as long as no claimant of it but Flush *)
(* moves on.                                                               *)
LEMMA StepStore == StoreInv /\ [Next]_vars => StoreInv'
  <1> SUFFICES ASSUME StoreInv, [Next]_vars PROVE StoreInv'
    OBVIOUS
  <1> USE StoreAssumption DEF StoreInv, TypeOK, SyncedIsRenamed, HandleIsArmed,
          PendingIsScheduled, Saver, Alive, PC, File, Data, Goto, files
  <1>1. CASE UNCHANGED vars
    BY <1>1 DEF vars
  <1>2. CASE Change
    <2>1. CASE handle # Nil
      BY <1>2, <2>1 DEF Change, Schedule
    <2>2. CASE handle = Nil
      <3>1. PICK t \in Timer : /\ pc[t] = "idle" /\ handle' = t
                               /\ pc' = [pc EXCEPT ![t] = "armed"]
        BY <1>2, <2>2 DEF Change, Schedule
      <3>2. /\ mem' \in 0..MaxVersion
            /\ pending' = TRUE
            /\ UNCHANGED <<files, snap, main, faulty>>
        BY <1>2 DEF Change, Schedule
      <3> QED BY <3>1, <3>2
    <2> QED BY <2>1, <2>2
  <1>3. CASE Cancel
    BY <1>3 DEF Cancel
  <1>4. CASE ServerFails \/ AwaitServer \/ Exit \/ Crash
    BY <1>4 DEF ServerFails, AwaitServer, Exit, Crash
  <1>5. CASE Close
    <2>1. pc' \in [Saver -> PC]
      BY <1>5 DEF Close
    <2>2. \A p \in Saver : pc'[p] = "rename" => pc[p] = "rename"
      BY <1>5 DEF Close
    <2>3. UNCHANGED <<mem, disk, stored, temp, pending, snap, faulty>>
      BY <1>5 DEF Close
    <2>4. SyncedIsRenamed'
      BY <2>2, <2>3
    <2> QED BY <1>5, <2>1, <2>3, <2>4 DEF Close
  <1>6. CASE Load
    <2>1. mem' \in 0..MaxVersion /\ snap' \in [Saver -> 0..MaxVersion]
      BY <1>6 DEF Load
    <2>2. pc' \in [Saver -> PC] /\ temp' \in [Saver -> Data \cup {Nil}]
      BY <1>6 DEF Load
    <2>3. SyncedIsRenamed'
      BY <1>6 DEF Load
    <2> QED BY <1>6, <2>1, <2>2, <2>3 DEF Load
  <1>7. CASE DirectoryWritten
    BY <1>7 DEF DirectoryWritten
  <1>8. CASE PowerFails
    <2>1. PICK f \in {disk, stored} : disk' = [f EXCEPT !.data = "synced"]
      BY <1>8 DEF PowerFails, AfterPowerCut
    <2>2. disk' \in File /\ disk'.data = "synced" /\ stored' = disk'
      BY <1>8, <2>1 DEF PowerFails
    <2> QED BY <1>8, <2>2 DEF PowerFails
  <1>9. ASSUME NEW t \in Timer, Fire(t) PROVE StoreInv'
    BY <1>9 DEF Fire
  <1>10. ASSUME NEW t \in Timer, ClearHandle(t) PROVE StoreInv'
    BY <1>10 DEF ClearHandle
  <1>11. ASSUME NEW p \in Saver, Flush(p) PROVE StoreInv'
    BY <1>11 DEF Flush
  <1>12. ASSUME NEW p \in Saver, Snapshot(p) PROVE StoreInv'
    BY <1>12 DEF Snapshot
  <1>13. ASSUME NEW p \in Saver, CreateTemp(p) \/ WriteTemp(p) \/ SyncTemp(p)
         PROVE  StoreInv'
    BY <1>13 DEF CreateTemp, WriteTemp, SyncTemp
  <1>14. ASSUME NEW p \in Saver, RenameTemp(p) PROVE StoreInv'
    BY <1>14 DEF RenameTemp, SaveReturns
  <1>15. ASSUME NEW p \in Saver, SaveFails(p) PROVE StoreInv'
    BY <1>15 DEF SaveFails, SaveReturns
  <1> QED BY <1>1, <1>2, <1>3, <1>4, <1>5, <1>6, <1>7, <1>8, <1>9, <1>10, <1>11,
          <1>12, <1>13, <1>14, <1>15 DEF Next, Save

LEMMA AlwaysStoreInv == Spec => []StoreInv
  BY InitStore, StepStore, PTL DEF Spec

(* A pending change has a timer that will claim it, whatever happens       *)
(* between schedule, the callback and Flush.                               *)
THEOREM PendingAlwaysScheduled == Spec => []PendingIsScheduled
  <1>1. StoreInv => PendingIsScheduled
    BY DEF StoreInv
  <1> QED BY AlwaysStoreInv, <1>1, PTL

(* No crash, no failing save and no power cut leaves half a registry file  *)
(* (save).                                                                 *)
THEOREM FileAlwaysWhole == Spec => []FileIsWhole
  <1>1. StoreInv => FileIsWhole
    BY DEF StoreInv, SyncedIsRenamed, FileIsWhole
  <1> QED BY AlwaysStoreInv, <1>1, PTL

-----------------------------------------------------------------------------
(* QuietMeansSaved rests on the debounce delay: while saves are quick, one *)
(* timer at a time is past its firing, so a save that no later change has  *)
(* made pending again has taken its snapshot of what is in memory.         *)
Busy(p) == pc[p] \notin {"idle", "armed"}
Saving(p) == pc[p] \in {"snapshot", "create", "write", "sync", "rename"}

OneBusy ==
  /\ ~Busy(Main)
  /\ \A t, u \in Timer : Busy(t) /\ Busy(u) => t = u

SnapshotIsCurrent ==
  \A p \in Saver : pc[p] \in {"create", "write", "sync", "rename"} => snap[p] = mem

QuietInv ==
  ~faulty /\ main = "running" =>
    /\ OneBusy
    /\ ~pending => SnapshotIsCurrent
    /\ ~pending => disk.version = mem \/ \E p \in Saver : Saving(p)

LEMMA InitQuiet == Init => QuietInv
  BY StoreAssumption DEF Init, QuietInv, OneBusy, SnapshotIsCurrent, Busy, Saver

LEMMA StepQuiet == StoreInv /\ QuietInv /\ [Next]_vars => QuietInv'
  <1> SUFFICES ASSUME StoreInv, QuietInv, [Next]_vars, ~faulty', main' = "running"
               PROVE  /\ OneBusy'
                      /\ ~pending' => SnapshotIsCurrent'
                      /\ ~pending' => disk'.version = mem' \/ \E p \in Saver : Saving(p)'
    BY DEF QuietInv
  <1> DEFINE Goal == /\ OneBusy'
                     /\ ~pending' => SnapshotIsCurrent'
                     /\ ~pending' => disk'.version = mem' \/ \E p \in Saver : Saving(p)'
  <1> USE StoreAssumption DEF StoreInv, TypeOK, QuietInv, Busy, Saving, OneBusy,
          SnapshotIsCurrent, Saver, Alive, PC, File, Data, Goto, files
  <1>1. CASE UNCHANGED vars
    BY <1>1 DEF vars
  <1>2. CASE Change
    <2>1. pending' = TRUE /\ main = "running" /\ ~faulty
      BY <1>2 DEF Change, Schedule
    <2>2. CASE handle # Nil
      BY <1>2, <2>1, <2>2 DEF Change, Schedule
    <2>3. CASE handle = Nil
      <3>1. PICK t \in Timer : pc[t] = "idle" /\ pc' = [pc EXCEPT ![t] = "armed"]
        BY <1>2, <2>3 DEF Change, Schedule
      <3> QED BY <2>1, <3>1
    <2> QED BY <2>2, <2>3
  <1>3. CASE Cancel \/ ServerFails \/ AwaitServer \/ Close \/ Exit \/ Crash \/ PowerFails
    BY <1>3 DEF Cancel, ServerFails, AwaitServer, Close, Exit, Crash, PowerFails
  <1>4. CASE Load
    BY <1>4 DEF Load
  <1>5. ASSUME NEW t \in Timer, Fire(t) PROVE Goal
    BY <1>5 DEF Fire
  <1>6. ASSUME NEW t \in Timer, ClearHandle(t) PROVE Goal
    BY <1>6 DEF ClearHandle
  <1>7. ASSUME NEW p \in Saver, Flush(p) PROVE Goal
    <2>1. CASE pending
      BY <1>7, <2>1 DEF Flush
    <2>2. CASE ~pending
      BY <1>7, <2>2 DEF Flush
    <2> QED BY <2>1, <2>2
  <1>8. ASSUME NEW p \in Saver, Snapshot(p) PROVE Goal
    BY <1>8 DEF Snapshot
  <1>9. ASSUME NEW p \in Saver, CreateTemp(p) \/ WriteTemp(p) \/ SyncTemp(p) PROVE Goal
    BY <1>9 DEF CreateTemp, WriteTemp, SyncTemp
  <1>10. ASSUME NEW p \in Saver, RenameTemp(p) PROVE Goal
    BY <1>10 DEF RenameTemp, SaveReturns
  <1>11. ASSUME NEW p \in Saver, SaveFails(p) PROVE Goal
    BY <1>11 DEF SaveFails, SaveReturns
  <1>12. CASE DirectoryWritten
    BY <1>12 DEF DirectoryWritten
  <1> QED BY <1>1, <1>2, <1>3, <1>4, <1>5, <1>6, <1>7, <1>8, <1>9, <1>10, <1>11,
          <1>12 DEF Next, Save

(* With nothing pending and no save under way the file holds the registry, *)
(* changes that arrived during a save included (schedule, Flush, save).    *)
THEOREM QuietAlwaysSaved == Spec => []QuietMeansSaved
  <1>1. StoreInv /\ QuietInv => QuietMeansSaved
    BY DEF StoreInv, TypeOK, QuietInv, QuietMeansSaved, Saving
  <1> QED BY InitStore, StepStore, InitQuiet, StepQuiet, <1>1, PTL DEF Spec

=============================================================================
