--------------------------- MODULE ManagedStatic ---------------------------
(***************************************************************************)
(* Static objects that are created when they are first used and destroyed  *)
(* by llvm_shutdown (ManagedStatic.h, ManagedStatic.cpp, Threading.cpp).   *)
(*                                                                         *)
(* A thread is a stack of calls.  A call of an accessor is                 *)
(* [of |-> a static, at |-> a place in the code, obj |-> the object it     *)
(* creates, todo |-> the statics that its creator or deleter still uses].  *)
(* Objects are numbered; 0 is the null pointer.  The mutex is recursive;   *)
(* it, the fence, the creators and the deleters are external.              *)
(***************************************************************************)
EXTENDS Naturals, Sequences, FiniteSets, SequencesExt

CONSTANTS
  Threads, Main,
  Statics,
  CreatorUses,   \* the statics that the creator of a static uses, in order
  DeleterUses,   \* the same for its deleter
  MaxObjects,    \* bound: objects created
  None

ASSUME ManagedStaticAssumption ==
  /\ Main \in Threads
  /\ None \notin Threads
  /\ CreatorUses \in [Statics -> Seq(Statics)]
  /\ DeleterUses \in [Statics -> Seq(Statics)]
  /\ MaxObjects \in Nat
  /\ IsFiniteSet(Statics)

(* A static whose creator used itself would never be created: no code      *)
(* could run that has such a cycle.                                        *)
ASSUME CreatorsAcyclic ==
  \E rank \in [Statics -> 0..Cardinality(Statics)] :
    \A s \in Statics : \A k \in DOMAIN CreatorUses[s] : rank[CreatorUses[s][k]] < rank[s]

VARIABLES
  multithreaded_mode,
  ptr,          \* ManagedStaticBase::Ptr of each static
  staticList,   \* StaticList and the Next fields: the statics, newest first
  objects,      \* all objects ever: what each belongs to, its maker, its life
  published,    \* the objects whose content every thread is sure to see
  lock,         \* global_lock: its owner and how often it holds it
  stack,        \* the calls of each thread, innermost first
  shutdown      \* llvm_shutdown is running

vars == <<multithreaded_mode, ptr, staticList, objects, published, lock, stack, shutdown>>

Objects == 1..Len(objects)

Places == {"read", "register", "check", "create", "construct", "publish", "link",
           "unlock", "use", "delete"}

TypeOK ==
  /\ multithreaded_mode \in BOOLEAN
  /\ ptr \in [Statics -> {0} \cup Objects]
  /\ staticList \in Seq(Statics) /\ IsInjective(staticList)
  /\ \A o \in Objects : objects[o] \in
       [of : Statics, maker : Threads, life : {"raw", "built", "dead"}, uses : SUBSET Objects]
  /\ published \subseteq Objects
  /\ lock \in [owner : Threads \cup {None}, depth : Nat]
  /\ \A t \in Threads : \A k \in DOMAIN stack[t] : stack[t][k] \in
       [of : Statics, at : Places, obj : {0} \cup Objects, todo : Seq(Statics)]
  /\ shutdown \in BOOLEAN

Init ==
  /\ multithreaded_mode = FALSE
  /\ ptr = [s \in Statics |-> 0]
  /\ staticList = <<>>
  /\ objects = <<>>
  /\ published = {}
  /\ lock = [owner |-> None, depth |-> 0]
  /\ stack = [t \in Threads |-> <<>>]
  /\ shutdown = FALSE

-----------------------------------------------------------------------------
Idle(t) == stack[t] = <<>>

At(t, place) == ~Idle(t) /\ Head(stack[t]).at = place

Call(s) == [of |-> s, at |-> "read", obj |-> 0, todo |-> <<>>]

(* The innermost call of t goes on at another place. *)
Goto(t, place) == stack' = [stack EXCEPT ![t][1].at = place]

Return(t) == stack' = [stack EXCEPT ![t] = Tail(@)]

(* The innermost call uses the next static on its list. *)
CallNext(t) ==
  LET frame == Head(stack[t])
  IN stack' = [stack EXCEPT
       ![t] = <<Call(Head(frame.todo)), [frame EXCEPT !.todo = Tail(@)]>> \o Tail(@)]

(* A client uses a static: the main thread only, before there are others. *)
Access(t, s) ==
  /\ Idle(t) /\ ~shutdown
  /\ t = Main \/ multithreaded_mode
  /\ stack' = [stack EXCEPT ![t] = <<Call(s)>>]
  /\ UNCHANGED <<multithreaded_mode, ptr, staticList, objects, published, lock, shutdown>>

(* operator*, operator->: the first read of Ptr, which takes no lock. *)
ReadPtr(t) ==
  /\ At(t, "read")
  /\ Goto(t, IF ptr[Head(stack[t]).of] = 0 THEN "register" ELSE "use")
  /\ UNCHANGED <<multithreaded_mode, ptr, staticList, objects, published, lock, shutdown>>

(* Seeded fault: the lock is not recursive. *)
Acquire_Once(t) == lock.owner = None /\ lock' = [owner |-> t, depth |-> 1]

Acquire(t) ==
  /\ lock.owner \in {None, t}
  /\ lock' = [owner |-> t, depth |-> lock.depth + 1]

Release(t) ==
  lock' = IF lock.depth = 1 THEN [owner |-> None, depth |-> 0] ELSE [lock EXCEPT !.depth = @ - 1]

Register(t) ==
  /\ At(t, "register")
  /\ \/ multithreaded_mode /\ Acquire(t) /\ Goto(t, "check")
     \/ ~multithreaded_mode /\ UNCHANGED lock /\ Goto(t, "create")
  /\ UNCHANGED <<multithreaded_mode, ptr, staticList, objects, published, shutdown>>

(* Seeded fault: under the lock, the pointer is not read again. *)
CheckAgain_Not(t) ==
  /\ At(t, "check")
  /\ Goto(t, "create")
  /\ UNCHANGED <<multithreaded_mode, ptr, staticList, objects, published, lock, shutdown>>

CheckAgain(t) ==
  /\ At(t, "check")
  /\ Goto(t, IF ptr[Head(stack[t]).of] = 0 THEN "create" ELSE "unlock")
  /\ UNCHANGED <<multithreaded_mode, ptr, staticList, objects, published, lock, shutdown>>

(* Creator(): memory is allocated, then the constructor runs. *)
Create(t) ==
  LET frame == Head(stack[t])
      s == frame.of
  IN /\ At(t, "create")
     /\ Len(objects) < MaxObjects
     /\ objects' = Append(objects, [of |-> s, maker |-> t, life |-> "raw", uses |-> {}])
     /\ stack' = [stack EXCEPT ![t][1] =
          [frame EXCEPT !.at = "construct", !.obj = Len(objects) + 1, !.todo = CreatorUses[s]]]
     /\ UNCHANGED <<multithreaded_mode, ptr, staticList, published, lock, shutdown>>

Construct(t) ==
  LET frame == Head(stack[t])
  IN /\ At(t, "construct")
     /\ IF frame.todo # <<>>
        THEN CallNext(t) /\ UNCHANGED objects
        ELSE Goto(t, "publish") /\ objects' = [objects EXCEPT ![frame.obj].life = "built"]
     /\ UNCHANGED <<multithreaded_mode, ptr, staticList, published, lock, shutdown>>

(* Seeded fault: no fence between the object and the pointer to it. *)
Publish_NoFence(t) ==
  LET frame == Head(stack[t])
  IN /\ At(t, "publish")
     /\ ptr' = [ptr EXCEPT ![frame.of] = frame.obj]
     /\ Goto(t, "link")
     /\ UNCHANGED <<multithreaded_mode, staticList, objects, published, lock, shutdown>>

(* MemoryFence, and Ptr is written. *)
Publish(t) ==
  LET frame == Head(stack[t])
  IN /\ At(t, "publish")
     /\ ptr' = [ptr EXCEPT ![frame.of] = frame.obj]
     /\ published' = published \cup {frame.obj}
     /\ Goto(t, "link")
     /\ UNCHANGED <<multithreaded_mode, staticList, objects, lock, shutdown>>

(* Seeded fault: the newest static goes to the end of the list. *)
Link_Last(t) ==
  /\ At(t, "link")
  /\ staticList' = Append(staticList, Head(stack[t]).of)
  /\ Goto(t, IF multithreaded_mode THEN "unlock" ELSE "use")
  /\ UNCHANGED <<multithreaded_mode, ptr, objects, published, lock, shutdown>>

(* DeleterFn, Next and StaticList are written. *)
Link(t) ==
  /\ At(t, "link")
  /\ staticList' = <<Head(stack[t]).of>> \o staticList
  /\ Goto(t, IF multithreaded_mode THEN "unlock" ELSE "use")
  /\ UNCHANGED <<multithreaded_mode, ptr, objects, published, lock, shutdown>>

Unlock(t) ==
  /\ At(t, "unlock")
  /\ Release(t)
  /\ published' = published \cup {o \in Objects : objects[o].maker = t /\ objects[o].life = "built"}
  /\ Goto(t, "use")
  /\ UNCHANGED <<multithreaded_mode, ptr, staticList, objects, shutdown>>

(* The object is used: by a creator or a deleter, if that called, which    *)
(* then holds on to it.                                                    *)
Use(t) ==
  LET frame == Head(stack[t])
      used == ptr[frame.of]
      caller == IF Len(stack[t]) > 1 THEN stack[t][2] ELSE frame
  IN /\ At(t, "use")
     /\ Return(t)
     /\ objects' = IF caller.at = "construct"
                   THEN [objects EXCEPT ![caller.obj].uses = @ \cup ({used} \ {0})]
                   ELSE objects
     /\ UNCHANGED <<multithreaded_mode, ptr, staticList, published, lock, shutdown>>

-----------------------------------------------------------------------------
(* llvm_start_multithreaded, while there is one thread. *)
StartMultithreaded ==
  /\ ~multithreaded_mode /\ ~shutdown /\ Idle(Main)
  /\ multithreaded_mode' = TRUE
  /\ UNCHANGED <<ptr, staticList, objects, published, lock, stack, shutdown>>

(* llvm_shutdown, when the other threads are gone. *)
Shutdown ==
  /\ \A t \in Threads : Idle(t)
  /\ ~shutdown
  /\ shutdown' = TRUE
  /\ UNCHANGED <<multithreaded_mode, ptr, staticList, objects, published, lock, stack>>

(* destroy(): the first static is unlinked and its deleter begins. *)
Destroy ==
  /\ shutdown /\ Idle(Main) /\ staticList # <<>>
  /\ LET s == Head(staticList)
     IN stack' = [stack EXCEPT ![Main] =
          <<[of |-> s, at |-> "delete", obj |-> ptr[s], todo |-> DeleterUses[s]]>>]
  /\ staticList' = Tail(staticList)
  /\ UNCHANGED <<multithreaded_mode, ptr, objects, published, lock, shutdown>>

(* The deleter runs; then Ptr and DeleterFn are cleared. *)
Delete(t) ==
  LET frame == Head(stack[t])
  IN /\ At(t, "delete")
     /\ IF frame.todo # <<>>
        THEN CallNext(t) /\ UNCHANGED <<objects, ptr>>
        ELSE /\ Return(t)
             /\ objects' = [objects EXCEPT ![frame.obj].life = "dead"]
             /\ ptr' = [ptr EXCEPT ![frame.of] = 0]
     /\ UNCHANGED <<multithreaded_mode, staticList, published, lock, shutdown>>

(* Seeded fault: the last static of the list is forgotten. *)
ShutdownEnds_OneLeft ==
  /\ shutdown /\ Idle(Main) /\ Len(staticList) <= 1
  /\ shutdown' = FALSE
  /\ multithreaded_mode' = FALSE
  /\ UNCHANGED <<ptr, staticList, objects, published, lock, stack>>

(* The list is empty; llvm_stop_multithreaded deletes the lock. *)
ShutdownEnds ==
  /\ shutdown /\ Idle(Main) /\ staticList = <<>>
  /\ shutdown' = FALSE
  /\ multithreaded_mode' = FALSE
  /\ UNCHANGED <<ptr, staticList, objects, published, lock, stack>>

-----------------------------------------------------------------------------
Step(t) ==
  \/ ReadPtr(t) \/ Register(t) \/ CheckAgain(t) \/ Create(t) \/ Construct(t)
  \/ Publish(t) \/ Link(t) \/ Unlock(t) \/ Use(t) \/ Delete(t)

Next ==
  \/ \E t \in Threads : Step(t) \/ \E s \in Statics : Access(t, s)
  \/ StartMultithreaded \/ Shutdown \/ Destroy \/ ShutdownEnds

(* A thread that is inside a call goes on. *)
Fairness == \A t \in Threads : WF_vars(Step(t))

Spec == Init /\ [][Next]_vars /\ Fairness

-----------------------------------------------------------------------------
(* The properties *)

Alive(o) == objects[o].life # "dead"

(* However many threads use a static for the first time at once, and       *)
(* whatever its creator and the deleters of others use, there is one       *)
(* object of it.                                                           *)
OneObject ==
  \A o, q \in Objects : Alive(o) /\ Alive(q) /\ objects[o].of = objects[q].of => o = q

(* An accessor returns a complete object: it has been constructed, the     *)
(* thread is sure to see what the constructor wrote even if it took no     *)
(* lock, and it has not been destroyed.                                    *)
CompleteWhenUsed ==
  \A t \in Threads : At(t, "use") =>
    LET o == ptr[Head(stack[t]).of]
    IN /\ o # 0
       /\ objects[o].life = "built"
       /\ o \in published \/ objects[o].maker = t

(* Destruction in the reverse order: what the creator of an object used    *)
(* lives longer than the object.                                           *)
UsedOutlivesUser ==
  \A o \in Objects : Alive(o) => \A q \in objects[o].uses : Alive(q)

(* Between two calls the list holds exactly the statics that have an       *)
(* object, so that llvm_shutdown forgets none and destroys none twice.     *)
ListFaithful ==
  (\A t \in Threads : Idle(t)) =>
    /\ \A s \in Statics : ptr[s] # 0 <=> s \in ToSet(staticList)
    /\ \A o \in Objects : Alive(o) => ptr[objects[o].of] = o

(* After llvm_shutdown no object is left, even if deleters created some.   *)
NothingLeft == [][shutdown /\ ~shutdown' => \A o \in Objects : ~Alive(o)]_vars

(* Every access ends, though creators use statics while the lock is held   *)
(* (unless the bound on objects stops it).                                 *)
AccessEnds ==
  \A t \in Threads : ~Idle(t) ~> (Idle(t) \/ Len(objects) = MaxObjects)
=============================================================================
