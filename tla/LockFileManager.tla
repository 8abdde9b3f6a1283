-------------------------- MODULE LockFileManager --------------------------
(***************************************************************************)
(* Processes exclude each other by a lock file (LockFileManager.cpp).  One *)
(* action is one system call, or calls between which no other process can  *)
(* tell the difference.                                                    *)
(*                                                                         *)
(* An instance creates one file and links it to the name of the lock, so   *)
(* the inode is named after the instance.  The file system, the process    *)
(* table and the clients are external.                                     *)
(***************************************************************************)
EXTENDS Naturals, FiniteSets

CONSTANTS
  Instances,    \* LockFileManager objects
  Processes,
  Hosts,
  ProcessOf,    \* the process that creates an instance
  HostOf,       \* the host a process runs on
  MaxWaits,     \* how often waitForUnlock sleeps before it gives up
  None

ASSUME LockFileAssumption ==
  /\ ProcessOf \in [Instances -> Processes]
  /\ HostOf \in [Processes -> Hosts]
  /\ MaxWaits \in Nat \ {0}
  /\ None \notin Instances

VARIABLES
  lock,       \* the inode the name of the lock file refers to, or None
  uniques,    \* the instances whose unique file has a name
  written,    \* the instances whose file names its process
  alive,      \* the processes that run
  pc,         \* where an instance is
  again,      \* the instance reads the lock file for the second time
  owner,      \* LockFileManager::Owner
  waits       \* how often waitForUnlock has slept

vars == <<lock, uniques, written, alive, pc, again, owner, waits>>

(* getState(): owned until the destructor runs. *)
LFS_Owned(i) == pc[i] = "owned"

Ended == {"error", "done"}

TypeOK ==
  /\ lock \in Instances \cup {None}
  /\ uniques \subseteq Instances
  /\ written \subseteq Instances
  /\ alive \subseteq Processes
  /\ pc \in [Instances -> Ended \cup
       {"new", "exists", "read", "check", "remove", "create", "write", "link",
        "stat", "cleanup", "owned", "release", "shared", "asleep", "awake"}]
  /\ again \in [Instances -> BOOLEAN]
  /\ owner \in [Instances -> Instances \cup {None}]
  /\ waits \in [Instances -> 0..MaxWaits]

Init ==
  /\ lock = None
  /\ uniques = {}
  /\ written = {}
  /\ alive = Processes
  /\ pc = [i \in Instances |-> "new"]
  /\ again = [i \in Instances |-> FALSE]
  /\ owner = [i \in Instances |-> None]
  /\ waits = [i \in Instances |-> 0]

Goto(i, from, to) ==
  /\ pc[i] = from
  /\ ProcessOf[i] \in alive
  /\ pc' = [pc EXCEPT ![i] = to]

(* Seeded fault: a dead owner is not noticed. *)
ProcessStillExecuting_Always(i, j) == TRUE

(* What instance i can tell of the process that wrote j's file. *)
ProcessStillExecuting(i, j) ==
  \/ HostOf[ProcessOf[i]] # HostOf[ProcessOf[j]]
  \/ ProcessOf[j] \in alive

(* Where readLockFile goes on when nobody owns the lock. *)
AfterNoOwner(i) == IF again[i] THEN "cleanup" ELSE "create"

-----------------------------------------------------------------------------
(* readLockFile *)

StartConstructor(i) ==
  /\ Goto(i, "new", "exists")
  /\ UNCHANGED <<lock, uniques, written, alive, again, owner, waits>>

LockFileExists(i) ==
  /\ Goto(i, "exists", IF lock = None THEN AfterNoOwner(i) ELSE "read")
  /\ UNCHANGED <<lock, uniques, written, alive, again, owner, waits>>

(* The file may be gone by now, or its content unreadable. *)
ReadOwner(i) ==
  /\ Goto(i, "read", IF lock \in written THEN "check" ELSE "remove")
  /\ owner' = [owner EXCEPT ![i] = IF lock \in written THEN lock ELSE None]
  /\ UNCHANGED <<lock, uniques, written, alive, again, waits>>

CheckOwner(i) ==
  LET executing == ProcessStillExecuting(i, owner[i])
  IN /\ Goto(i, "check", IF executing THEN "shared" ELSE "remove")
     /\ owner' = [owner EXCEPT ![i] = IF executing THEN @ ELSE None]
     /\ UNCHANGED <<lock, uniques, written, alive, again, waits>>

(* The name is removed, whatever file it refers to by now. *)
RemoveInvalid(i) ==
  /\ Goto(i, "remove", AfterNoOwner(i))
  /\ lock' = None
  /\ UNCHANGED <<uniques, written, alive, again, owner, waits>>

-----------------------------------------------------------------------------
(* The rest of the constructor *)

(* Seeded fault: the file is created under the name of the lock at once. *)
CreateUnique_AsLock(i) ==
  /\ Goto(i, "create", "write")
  /\ lock = None /\ lock' = i
  /\ uniques' = uniques \cup {i}
  /\ UNCHANGED <<written, alive, again, owner, waits>>

CreateUnique(i) ==
  /\ \/ Goto(i, "create", "write") /\ uniques' = uniques \cup {i}
     \/ Goto(i, "create", "error") /\ UNCHANGED uniques
  /\ UNCHANGED <<lock, written, alive, again, owner, waits>>

WriteOwner(i) ==
  /\ \/ Goto(i, "write", "link") /\ written' = written \cup {i} /\ UNCHANGED uniques
     \/ Goto(i, "write", "error") /\ uniques' = uniques \ {i} /\ UNCHANGED written
  /\ UNCHANGED <<lock, alive, again, owner, waits>>

(* The creation of the link may appear to fail although it succeeded. *)
CreateHardLink(i) ==
  /\ \/ lock = None /\ lock' = i /\ (Goto(i, "link", "owned") \/ Goto(i, "link", "stat"))
     \/ lock # None /\ UNCHANGED lock /\ Goto(i, "link", "stat")
  /\ UNCHANGED <<uniques, written, alive, again, owner, waits>>

(* Seeded fault: the unique file is kept when the lock is another's. *)
CountLinks_KeepsFile(i) ==
  /\ \/ lock = i /\ Goto(i, "stat", "owned") /\ UNCHANGED again
     \/ lock # i /\ Goto(i, "stat", "exists") /\ again' = [again EXCEPT ![i] = TRUE]
  /\ UNCHANGED <<lock, uniques, written, alive, owner, waits>>

(* Seeded fault: the result of link is believed. *)
CountLinks_Believes(i) ==
  /\ Goto(i, "stat", "exists")
  /\ uniques' = uniques \ {i}
  /\ again' = [again EXCEPT ![i] = TRUE]
  /\ UNCHANGED <<lock, written, alive, owner, waits>>

(* stat: two links to the unique file say that it is the lock after all. *)
CountLinks(i) ==
  /\ \/ lock = i /\ Goto(i, "stat", "owned") /\ UNCHANGED <<uniques, again>>
     \/ /\ lock # i
        /\ Goto(i, "stat", "exists")
        /\ uniques' = uniques \ {i}
        /\ again' = [again EXCEPT ![i] = TRUE]
  /\ UNCHANGED <<lock, written, alive, owner, waits>>

CleanUp(i) ==
  /\ Goto(i, "cleanup", "error")
  /\ lock' = None
  /\ UNCHANGED <<uniques, written, alive, again, owner, waits>>

-----------------------------------------------------------------------------
(* The destructor of an owner *)

RemoveLock(i) ==
  /\ Goto(i, "owned", "release")
  /\ lock' = None
  /\ UNCHANGED <<uniques, written, alive, again, owner, waits>>

RemoveUnique(i) ==
  /\ Goto(i, "release", "done")
  /\ uniques' = uniques \ {i}
  /\ UNCHANGED <<lock, written, alive, again, owner, waits>>

-----------------------------------------------------------------------------
(* waitForUnlock, or the client goes on without the lock *)

UseShared(i) ==
  /\ Goto(i, "shared", "asleep") \/ Goto(i, "shared", "done")
  /\ UNCHANGED <<lock, uniques, written, alive, again, owner, waits>>

WakeUp(i) ==
  /\ Goto(i, "asleep", IF lock = None THEN "done" ELSE "awake")
  /\ UNCHANGED <<lock, uniques, written, alive, again, owner, waits>>

(* Seeded fault: no limit on the time one waits. *)
SleepAgain_ForEver(i) ==
  /\ Goto(i, "awake", IF ProcessStillExecuting(i, owner[i]) THEN "asleep" ELSE "done")
  /\ UNCHANGED <<lock, uniques, written, alive, again, owner, waits>>

(* Seeded fault: one sleep too many. *)
SleepAgain_OneMore(i) ==
  LET goOn == ProcessStillExecuting(i, owner[i]) /\ waits[i] < MaxWaits
  IN /\ Goto(i, "awake", IF goOn THEN "asleep" ELSE "done")
     /\ waits' = [waits EXCEPT ![i] = @ + 1]
     /\ UNCHANGED <<lock, uniques, written, alive, again, owner>>

SleepAgain(i) ==
  LET goOn == ProcessStillExecuting(i, owner[i]) /\ waits[i] + 1 < MaxWaits
  IN /\ Goto(i, "awake", IF goOn THEN "asleep" ELSE "done")
     /\ waits' = [waits EXCEPT ![i] = @ + 1]
     /\ UNCHANGED <<lock, uniques, written, alive, again, owner>>

-----------------------------------------------------------------------------
Crash(p) ==
  /\ p \in alive
  /\ alive' = alive \ {p}
  /\ UNCHANGED <<lock, uniques, written, pc, again, owner, waits>>

Construct(i) ==
  \/ LockFileExists(i) \/ ReadOwner(i) \/ CheckOwner(i) \/ RemoveInvalid(i)
  \/ CreateUnique(i) \/ WriteOwner(i) \/ CreateHardLink(i) \/ CountLinks(i)
  \/ CleanUp(i)

WaitForUnlock(i) == WakeUp(i) \/ SleepAgain(i)

Work ==
  \E i \in Instances :
    \/ StartConstructor(i) \/ Construct(i) \/ RemoveLock(i) \/ RemoveUnique(i)
    \/ UseShared(i) \/ WaitForUnlock(i)

Next == Work \/ \E p \in Processes : Crash(p)

(* A call that has begun goes on while its process runs; when a client     *)
(* starts, waits or releases is its own affair, and so are crashes.        *)
Fairness == \A i \in Instances : WF_vars(Construct(i) \/ RemoveUnique(i) \/ WaitForUnlock(i))

Spec == Init /\ [][Next]_vars /\ Fairness

(* Without crashes. *)
SpecReliable == Init /\ [][Work]_vars

-----------------------------------------------------------------------------
(* The properties *)

(* Nobody ever sees a lock file that does not name its owner yet: it is    *)
(* written under another name and appears by one hard link.  A process     *)
(* that saw an empty file would take it for stale and remove it.           *)
NeverPartial == lock # None => lock \in written

(* A file outlives its instance only if its process has crashed: every     *)
(* path through constructor and destructor, and every removal by another   *)
(* process in between, leaves nothing behind.                              *)
OnlyCrashesLeaveFiles ==
  /\ \A i \in uniques : pc[i] \in Ended => ProcessOf[i] \notin alive
  /\ lock # None /\ pc[lock] \in Ended => ProcessOf[lock] \notin alive

(* While processes run, the lock file belongs to an instance that owns the *)
(* lock or is about to find out: none that took the lock for another's, or *)
(* failed, has its file linked as the lock, which would lock all others    *)
(* out until its process ends.                                             *)
OwnersLockOnly == lock # None => pc[lock] \in {"stat", "owned"} \/ ProcessOf[lock] \notin alive

(* The lock of a crashed process is removed by the next instance on its    *)
(* host that looks at it, however many look at once.                       *)
StaleLockRemoved ==
  \A i, j \in Instances :
    (/\ lock = j /\ ProcessOf[j] \notin alive
     /\ pc[i] = "exists" /\ HostOf[ProcessOf[i]] = HostOf[ProcessOf[j]])
      ~> (lock # j \/ ProcessOf[i] \notin alive)

(* A wait ends although the owner may keep the lock for ever, crash on     *)
(* another host, or be replaced by a new owner each time one looks.        *)
WaitEnds ==
  \A i \in Instances : pc[i] = "asleep" ~> (pc[i] = "done" \/ ProcessOf[i] \notin alive)

(* What LFS_Owned says: the lock file has been created and is owned by     *)
(* this instance.  Two instances cannot both be right.                     *)
OneOwner ==
  \A i, j \in {k \in Instances : LFS_Owned(k) /\ ProcessOf[k] \in alive} : i = j
=============================================================================
