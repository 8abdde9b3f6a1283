------------------------ MODULE LockFileManagerProofs ------------------------
(***************************************************************************)
(* Safety of the lock files for every number of instances, processes and   *)
(* hosts, with crashes at any moment.                                      *)
(***************************************************************************)
EXTENDS LockFileManager, TLAPS

(* An instance that has written its file. *)
Wrote(i) == pc[i] = "link" => i \in written

(* The lock is the file of an instance that owns it or is about to look.   *)
LockHeld == lock # None => lock \in Instances /\ lock \in written /\ pc[lock] \in {"stat", "owned"}

(* The places at which an instance has a unique file. *)
FilePlaces == \A i \in uniques : pc[i] \in {"write", "link", "stat", "owned", "release"}

(* Whoever may still sleep has not slept too often. *)
Patience == \A i \in Instances : pc[i] # "done" => waits[i] < MaxWaits

IInv ==
  /\ TypeOK
  /\ \A i \in Instances : Wrote(i)
  /\ LockHeld
  /\ FilePlaces
  /\ Patience

(* The invariant holds at the beginning: there is no file at all. *)
LEMMA InitIInv == Init => IInv
BY LockFileAssumption DEF Init, IInv, TypeOK, Wrote, LockHeld, FilePlaces, Patience, Ended

(* No step of an instance and no crash breaks it. *)
LEMMA NextIInv == IInv /\ [Next]_vars => IInv'
<1> SUFFICES ASSUME IInv, [Next]_vars PROVE IInv'
  OBVIOUS
<1> USE LockFileAssumption DEF IInv, TypeOK, Wrote, LockHeld, FilePlaces, Patience, Ended, Goto
<1>1. ASSUME NEW i \in Instances, StartConstructor(i) PROVE IInv'
  BY <1>1 DEF StartConstructor
<1>2. ASSUME NEW i \in Instances, LockFileExists(i) PROVE IInv'
  BY <1>2 DEF LockFileExists, AfterNoOwner
<1>3. ASSUME NEW i \in Instances, ReadOwner(i) PROVE IInv'
  BY <1>3 DEF ReadOwner
<1>4. ASSUME NEW i \in Instances, CheckOwner(i) PROVE IInv'
  BY <1>4 DEF CheckOwner
<1>5. ASSUME NEW i \in Instances, RemoveInvalid(i) PROVE IInv'
  BY <1>5 DEF RemoveInvalid, AfterNoOwner
<1>6. ASSUME NEW i \in Instances, CreateUnique(i) PROVE IInv'
  BY <1>6 DEF CreateUnique
<1>7. ASSUME NEW i \in Instances, WriteOwner(i) PROVE IInv'
  BY <1>7 DEF WriteOwner
<1>8. ASSUME NEW i \in Instances, CreateHardLink(i) PROVE IInv'
  BY <1>8 DEF CreateHardLink
<1>9. ASSUME NEW i \in Instances, CountLinks(i) PROVE IInv'
  <2>1. CASE lock = i /\ Goto(i, "stat", "owned") /\ UNCHANGED <<uniques, again>>
    BY <2>1, <1>9 DEF CountLinks
  <2>2. CASE lock # i /\ Goto(i, "stat", "exists") /\ uniques' = uniques \ {i}
             /\ again' = [again EXCEPT ![i] = TRUE]
    <3> USE <2>2, <1>9 DEF CountLinks
    <3>1. TypeOK'
      OBVIOUS
    <3>2. (\A j \in Instances : Wrote(j))'
      OBVIOUS
    <3>3. LockHeld' /\ FilePlaces' /\ Patience'
      OBVIOUS
    <3> QED
      BY <3>1, <3>2, <3>3
  <2> QED
    BY <2>1, <2>2, <1>9 DEF CountLinks
<1>10. ASSUME NEW i \in Instances, CleanUp(i) PROVE IInv'
  BY <1>10 DEF CleanUp
<1>11. ASSUME NEW i \in Instances, RemoveLock(i) PROVE IInv'
  BY <1>11 DEF RemoveLock
<1>12. ASSUME NEW i \in Instances, RemoveUnique(i) PROVE IInv'
  BY <1>12 DEF RemoveUnique
<1>13. ASSUME NEW i \in Instances, UseShared(i) PROVE IInv'
  BY <1>13 DEF UseShared
<1>14. ASSUME NEW i \in Instances, WakeUp(i) PROVE IInv'
  BY <1>14 DEF WakeUp
<1>15. ASSUME NEW i \in Instances, SleepAgain(i) PROVE IInv'
  BY <1>15 DEF SleepAgain
<1>16. ASSUME NEW p \in Processes, Crash(p) PROVE IInv'
  BY <1>16 DEF Crash
<1>17. CASE UNCHANGED vars
  BY <1>17 DEF vars
<1> QED
  BY <1>1, <1>2, <1>3, <1>4, <1>5, <1>6, <1>7, <1>8, <1>9, <1>10, <1>11, <1>12,
     <1>13, <1>14, <1>15, <1>16, <1>17 DEF Next, Work, Construct, WaitForUnlock

(* The inductive invariant holds in every behaviour of lock files. *)
THEOREM LockFileInvariant == Spec => []IInv
BY InitIInv, NextIInv, PTL DEF Spec

(* Type correctness. *)
THEOREM LockFileTypeCorrect == Spec => []TypeOK
BY LockFileInvariant, PTL DEF IInv

(* However many instances look, remove and link at once, nobody ever sees  *)
(* a lock file that does not name its owner.                               *)
THEOREM LockNeverPartial == Spec => []NeverPartial
<1>1. IInv => NeverPartial
  BY DEF IInv, LockHeld, NeverPartial
<1> QED
  BY <1>1, LockFileInvariant, PTL

(* While processes run, the lock file belongs to an instance that owns the *)
(* lock or is about to find out.                                           *)
THEOREM LockHasOwner == Spec => []OwnersLockOnly
<1>1. IInv => OwnersLockOnly
  BY DEF IInv, LockHeld, OwnersLockOnly
<1> QED
  BY <1>1, LockFileInvariant, PTL

(* Every path through constructor and destructor removes its files.        *)
THEOREM LockLeavesNothing == Spec => []OnlyCrashesLeaveFiles
<1>1. IInv => OnlyCrashesLeaveFiles
  BY DEF IInv, TypeOK, LockHeld, FilePlaces, OnlyCrashesLeaveFiles, Ended
<1> QED
  BY <1>1, LockFileInvariant, PTL
=============================================================================
