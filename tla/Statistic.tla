----------------------------- MODULE Statistic -----------------------------
(***************************************************************************)
(* Statistics are counted by any thread, register themselves when they are *)
(* first counted, and are printed by the destructor of StatInfo            *)
(* (Statistic.h, Statistic.cpp).  The list of registered statistics and    *)
(* the mutex that guards it are managed statics: composition with          *)
(* ManagedStatic, whose global lock is taken inside the mutex.             *)
(***************************************************************************)
EXTENDS ManagedStatic

CONSTANTS
  Statistics,
  StatLock, StatInfo,    \* the two managed statics
  MaxValue               \* bound: how often a statistic is counted

ASSUME StatisticAssumption ==
  /\ {StatLock, StatInfo} \subseteq Statics
  /\ MaxValue \in Nat

VARIABLES
  value,         \* Statistic::Value
  initialized,   \* Statistic::Initialized
  stats,         \* StatisticInfo::Stats
  mutex,         \* the owner of *StatLock, or None
  job,           \* what each thread does to a statistic
  printed,       \* the values that ~StatisticInfo has printed
  enabled        \* Enabled: -stats is given or not

statVars == <<value, initialized, stats, mutex, job, printed, enabled>>
allVars == <<vars, statVars>>

NoJob == [stat |-> None, at |-> "none"]

Busy(t) == job[t] # NoJob

StatTypeOK ==
  /\ value \in [Statistics -> 0..MaxValue]
  /\ initialized \in [Statistics -> BOOLEAN]
  /\ stats \in Seq(Statistics)
  /\ mutex \in Threads \cup {None}
  /\ \A t \in Threads : Busy(t) => job[t] \in
       [stat : Statistics, at : {"init", "lock", "test", "add", "set", "unlock"}]
  /\ DOMAIN printed \subseteq Statistics
  /\ enabled \in BOOLEAN

StatInit ==
  /\ Init
  /\ value = [s \in Statistics |-> 0]
  /\ initialized = [s \in Statistics |-> FALSE]
  /\ stats = <<>>
  /\ mutex = None
  /\ job = [t \in Threads |-> NoJob]
  /\ printed = <<>>
  /\ enabled \in BOOLEAN

-----------------------------------------------------------------------------
(* A thread is at a step of its job and not inside an accessor. *)
Doing(t, place) == job[t].at = place /\ Idle(t)

Then(t, place) == job' = [job EXCEPT ![t].at = place]

(* Seeded fault: an operator that does not call init(). *)
Count_NoInit(t, s) ==
  /\ ~Busy(t) /\ Idle(t) /\ ~shutdown
  /\ t = Main \/ multithreaded_mode
  /\ DOMAIN printed = {} /\ value[s] < MaxValue
  /\ value' = [value EXCEPT ![s] = @ + 1]
  /\ UNCHANGED <<vars, initialized, stats, mutex, job, printed, enabled>>

(* operator++: AtomicIncrement, then init(). *)
Count(t, s) ==
  /\ ~Busy(t) /\ Idle(t) /\ ~shutdown
  /\ t = Main \/ multithreaded_mode
  /\ DOMAIN printed = {} /\ value[s] < MaxValue
  /\ value' = [value EXCEPT ![s] = @ + 1]
  /\ job' = [job EXCEPT ![t] = [stat |-> s, at |-> "init"]]
  /\ UNCHANGED <<vars, initialized, stats, mutex, printed, enabled>>

(* init(): Initialized is read without a lock. *)
Initialize(t) ==
  /\ Doing(t, "init")
  /\ IF initialized[job[t].stat]
     THEN job' = [job EXCEPT ![t] = NoJob] /\ UNCHANGED vars
     ELSE Then(t, "lock") /\ Access(t, StatLock)
  /\ UNCHANGED <<value, initialized, stats, mutex, printed, enabled>>

(* SmartMutex<true>: no mutex unless there are threads. *)
LockStatistics(t) ==
  /\ Doing(t, "lock")
  /\ mutex \in {None, t}
  /\ mutex' = IF multithreaded_mode THEN t ELSE None
  /\ Then(t, "test")
  /\ UNCHANGED <<vars, value, initialized, stats, printed, enabled>>

(* Seeded fault: Initialized is not read again under the mutex. *)
TestAgain_Not(t) ==
  /\ Doing(t, "test")
  /\ IF enabled THEN Then(t, "add") /\ Access(t, StatInfo) ELSE Then(t, "set") /\ UNCHANGED vars
  /\ UNCHANGED <<value, initialized, stats, mutex, printed, enabled>>

(* RegisterStatistic under the mutex. *)
TestAgain(t) ==
  /\ Doing(t, "test")
  /\ CASE initialized[job[t].stat] -> Then(t, "unlock") /\ UNCHANGED vars
       [] ~initialized[job[t].stat] /\ enabled -> Then(t, "add") /\ Access(t, StatInfo)
       [] OTHER -> Then(t, "set") /\ UNCHANGED vars
  /\ UNCHANGED <<value, initialized, stats, mutex, printed, enabled>>

(* Seeded fault: the mutex is released before Initialized is set. *)
AddStatistic_Unlocks(t) ==
  /\ Doing(t, "add")
  /\ stats' = Append(stats, job[t].stat)
  /\ mutex' = None
  /\ Then(t, "set")
  /\ UNCHANGED <<vars, value, initialized, printed, enabled>>

AddStatistic(t) ==
  /\ Doing(t, "add")
  /\ stats' = Append(stats, job[t].stat)
  /\ Then(t, "set")
  /\ UNCHANGED <<vars, value, initialized, mutex, printed, enabled>>

SetInitialized(t) ==
  /\ Doing(t, "set")
  /\ initialized' = [initialized EXCEPT ![job[t].stat] = TRUE]
  /\ Then(t, "unlock")
  /\ UNCHANGED <<vars, value, stats, mutex, printed, enabled>>

UnlockStatistics(t) ==
  /\ Doing(t, "unlock")
  /\ mutex' = None
  /\ job' = [job EXCEPT ![t] = NoJob]
  /\ UNCHANGED <<vars, value, initialized, stats, printed, enabled>>

(* The deleter of StatInfo runs ~StatisticInfo, which prints. *)
PrintStatistics(t) ==
  /\ Delete(t)
  /\ IF Head(stack[t]).of = StatInfo /\ Head(stack[t]).todo = <<>>
     THEN /\ printed' = [s \in ToSet(stats) \cup DOMAIN printed |->
                            IF s \in ToSet(stats) THEN value[s] ELSE printed[s]]
          /\ stats' = <<>>
     ELSE UNCHANGED <<printed, stats>>
  /\ UNCHANGED <<value, initialized, mutex, job, enabled>>

(* A thread uses a static that has nothing to do with statistics. *)
UseStatic(t, s) ==
  /\ ~Busy(t) /\ DOMAIN printed = {}
  /\ s \notin {StatLock, StatInfo}
  /\ Access(t, s)
  /\ UNCHANGED statVars

(* The steps of an accessor. *)
StaticStep(t) ==
  \/ /\ \/ ReadPtr(t) \/ Register(t) \/ CheckAgain(t) \/ Create(t) \/ Construct(t)
        \/ Publish(t) \/ Link(t) \/ Unlock(t) \/ Use(t)
     /\ UNCHANGED statVars
  \/ PrintStatistics(t)

StatStep(t) ==
  \/ Initialize(t) \/ LockStatistics(t) \/ TestAgain(t) \/ AddStatistic(t)
  \/ SetInitialized(t) \/ UnlockStatistics(t) \/ StaticStep(t)

Control ==
  /\ \/ StartMultithreaded /\ ~Busy(Main)
     \/ Shutdown /\ \A t \in Threads : ~Busy(t)
     \/ Destroy \/ ShutdownEnds
  /\ UNCHANGED statVars

StatNext ==
  \/ \E t \in Threads : StatStep(t) \/ (\E s \in Statistics : Count(t, s)) \/ \E s \in Statics : UseStatic(t, s)
  \/ Control

StatSpec ==
  StatInit /\ [][StatNext]_allVars /\ \A t \in Threads : WF_allVars(StatStep(t))

-----------------------------------------------------------------------------
(* The properties *)

(* A statistic is registered once, however many threads count it for the   *)
(* first time at once, and nobody takes it for registered before it is.    *)
RegisteredOnce ==
  /\ IsInjective(stats)
  /\ \A s \in Statistics : enabled /\ initialized[s] =>
       s \in ToSet(stats) \cup DOMAIN printed

(* Stats, the vector of an object that is shared, is only touched by the   *)
(* thread that holds the mutex, and only one is between test and unlock.   *)
OneRegistrar ==
  \A t, u \in Threads :
    job[t].at \in {"test", "add", "set", "unlock"} /\ job[u].at \in {"test", "add", "set", "unlock"}
      => t = u

(* After llvm_shutdown, every statistic that was counted has been printed, *)
(* with its value, if statistics are enabled.                              *)
AllPrinted ==
  [][shutdown /\ ~shutdown' /\ enabled =>
       printed = [s \in {r \in Statistics : value[r] > 0} |-> value[s]]]_allVars

(* Counting never blocks for good: the mutex is held while the global lock *)
(* is taken, and never the other way round.                                *)
CountEnds ==
  \A t \in Threads : (Busy(t) \/ ~Idle(t)) ~> ((~Busy(t) /\ Idle(t)) \/ Len(objects) = MaxObjects)
=============================================================================
