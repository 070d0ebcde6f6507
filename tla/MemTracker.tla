----------------------------- MODULE MemTracker ------------------------------
(***************************************************************************)
(* The tree of memory trackers, util/mem_tracker.{h,cc}, with the counters *)
(* of util/high_water_mark.h and the allocator of util/memory/memory.cc    *)
(* that charges them: how trackers are found, created and destroyed while  *)
(* other threads list them, and how charges climb and descend the tree.    *)
(*                                                                         *)
(* Each counter is changed atomically, but an operation walks from counter *)
(* to counter without a lock, so one step is one counter.  A critical      *)
(* section under a child_trackers_lock_ is one step: none runs a           *)
(* destructor or blocks (LogUsage, which does, has no caller and is not    *)
(* modelled).  The consumption function of the root exists only in a build *)
(* with tcmalloc, which no build file asks for.                            *)
(***************************************************************************)
EXTENDS Integers, Sequences, FiniteSets, FiniteSetsExt

CONSTANTS
  Thread,
  Tracker,    \* the tracker objects other than the root
  Root,       \* the root tracker, which is never destroyed
  Name,       \* the ids of trackers
  GlobalName, \* those that FindOrCreateGlobalTracker is asked for
  LimitOf,    \* the byte limit that goes with an id, -1 for none
  RootLimit,
  MaxHeld,    \* bound: the bytes a thread charges up to, with its tracker's cache
  MaxBusy,    \* bound: the threads that take part while bytes are charged
  None

ASSUME LimitAssumption ==
  /\ LimitOf \in [Name -> {-1} \cup Nat]
  /\ RootLimit \in Nat
  /\ MaxHeld \in Nat /\ MaxBusy \in Nat
  /\ GlobalName \subseteq Name

ASSUME NodeAssumption ==
  /\ IsFiniteSet(Thread) /\ IsFiniteSet(Tracker)
  /\ Root \notin Tracker
  /\ None \notin Thread \cup Tracker \cup {Root}

VARIABLES
  tree,          \* what each tracker object is: state, id, limit_, parent_ and,
                 \* as history, whether FindOrCreateGlobalTracker made it
  listed,        \* the trackers in the child_trackers_ of their parents
  consumption,   \* consumption_
  cached,        \* bytes the GC function of each tracker would release
  findLock,      \* the holder of find_or_create_lock
  gcLock,        \* the holder of each gc_lock_
  handle,        \* the tracker each thread charges, a shared_ptr
  held,          \* the bytes it has charged there and not released
  walk,          \* where it is in a lookup, a listing or a destructor
  op,            \* where it is in a charge
  forced,        \* history: whether bytes were ever charged without asking
  missed         \* history: whether bytes were ever charged to nobody, on a
                 \* tracker that was not initialized

registry == <<tree, listed, findLock, handle, walk, missed>>
accounts == <<cached, gcLock, held, op, forced>>
vars == <<registry, consumption, accounts>>

Node == Tracker \cup {Root}
Bytes == 1 .. MaxHeld

Unused == [state |-> "none", id |-> None, limit |-> -1, parent |-> Root,
           global |-> FALSE]

Limit(k) == IF k = Root THEN RootLimit ELSE tree[k].limit

\* all_trackers_: a tracker and its ancestors, from itself to the root.
AllTrackers[k \in Node] ==
  IF k = Root THEN <<Root>> ELSE <<k>> \o AllTrackers[tree[k].parent]

NoWalk == [at |-> "idle", id |-> None, todo |-> {}, found |-> {},
           temp |-> None, back |-> "idle"]

NoOp == [at |-> "none", mode |-> "none", bytes |-> 0, minimal |-> 0,
         pos |-> 0, j |-> 0, goal |-> 0, freed |-> 0]

Init ==
  /\ tree = [t \in Tracker |-> Unused]
  /\ listed = {}
  /\ consumption = [k \in Node |-> 0]
  /\ cached = [k \in Node |-> 0]
  /\ findLock = None
  /\ gcLock = [k \in Node |-> None]
  /\ handle = [th \in Thread |-> None]
  /\ held = [th \in Thread |-> 0]
  /\ walk = [th \in Thread |-> NoWalk]
  /\ op = [th \in Thread |-> NoOp]
  /\ forced = FALSE
  /\ missed = FALSE

Ready(th) == walk[th].at = "idle" /\ op[th].at = "none"

Busy == {th \in Thread : handle[th] # None \/ walk[th].at # "idle"}

SomeCharge ==
  \/ \E th \in Thread : held[th] > 0 \/ op[th].at # "none"
  \/ \E k \in Node : cached[k] > 0

\* A thread that has no tracker, and within the bound.
MayStart(th) ==
  Ready(th) /\ handle[th] = None /\ (SomeCharge => Cardinality(Busy) < MaxBusy)

-----------------------------------------------------------------------------
(* Reference counts and destruction.                                       *)

\* The shared_ptrs of a lookup or a listing; a lookup's copy of the children
\* holds weak_ptrs.
WalkRefs(th) ==
  walk[th].found
    \cup (IF walk[th].at = "list" THEN walk[th].todo ELSE {})
    \cup (IF walk[th].at \in {"compare", "insert", "init"}
          THEN {walk[th].temp} ELSE {})

\* An object holds its parent_ until its destructor has run.
References(t) ==
  {<<th, "handle">> : th \in {u \in Thread : handle[u] = t}}
    \cup {<<th, "walk">> : th \in {u \in Thread : t \in WalkRefs(u)}}
    \cup {<<c, "parent">> : c \in {u \in Tracker : /\ tree[u].state # "none"
                                                  /\ tree[u].parent = t}}

Alive(t) == t = Root \/ References(t) # {}

\* Thread th drops one reference to t and goes on as w; it runs the destructor
\* if that was the last.
LetGo(th, t, w) ==
  walk' = [walk EXCEPT ![th] =
             IF t # Root /\ Cardinality(References(t)) = 1
             THEN [w EXCEPT !.at = "destroy", !.temp = t, !.back = w.at]
             ELSE w]

\* ~MemTracker: what the object still accounts for is released on its parent.
Destroy(th) ==
  LET t == walk[th].temp
      up == AllTrackers[tree[t].parent]
  IN  /\ walk[th].at = "destroy"
      /\ consumption' = [k \in Node |->
            IF \E i \in DOMAIN up : up[i] = k
            THEN consumption[k] - consumption[t] ELSE consumption[k]]
      /\ walk' = [walk EXCEPT ![th].at = "erase"]
      /\ UNCHANGED <<tree, listed, findLock, handle, missed, accounts>>

\* It leaves its parent's list, and drops its reference to the parent.
Erase(th) ==
  LET t == walk[th].temp
  IN  /\ walk[th].at = "erase"
      /\ listed' = listed \ {t}
      /\ tree' = [tree EXCEPT ![t] = Unused]
      /\ LetGo(th, tree[t].parent,
               [walk[th] EXCEPT !.at = walk[th].back, !.temp = None,
                                !.back = "idle"])
      /\ UNCHANGED <<findLock, handle, missed, consumption, accounts>>

-----------------------------------------------------------------------------
(* FindOrCreateGlobalTracker and CreateTracker.                            *)

Children(k) == {t \in listed : tree[t].parent = k}

FindOrCreateGlobalTracker_NoLock(th, n) ==
  /\ MayStart(th)
  /\ walk' = [walk EXCEPT ![th] = [NoWalk EXCEPT !.at = "copy", !.id = n]]
  /\ UNCHANGED <<tree, listed, findLock, handle, missed, consumption, accounts>>

FindOrCreateGlobalTracker(th, n) ==
  /\ MayStart(th)
  /\ findLock = None
  /\ findLock' = th
  /\ walk' = [walk EXCEPT ![th] = [NoWalk EXCEPT !.at = "copy", !.id = n]]
  /\ UNCHANGED <<tree, listed, handle, missed, consumption, accounts>>

\* FindTrackerInternal searches a copy of the list, without the list's lock:
\* a child it drops may be the last reference.
CopyChildren(th) ==
  /\ walk[th].at = "copy"
  /\ walk' = [walk EXCEPT ![th].at = "search", ![th].todo = Children(Root)]
  /\ UNCHANGED <<tree, listed, findLock, handle, missed, consumption, accounts>>

SearchLocks(th, c) ==
  /\ walk[th].at = "search"
  /\ c \in walk[th].todo
  /\ walk' = [walk EXCEPT
        ![th].todo = @ \ {c},
        ![th].at = IF Alive(c) THEN "compare" ELSE "search",
        ![th].temp = IF Alive(c) THEN c ELSE None]
  /\ UNCHANGED <<tree, listed, findLock, handle, missed, consumption, accounts>>

SearchCompares(th) ==
  LET c    == walk[th].temp
      next == [walk[th] EXCEPT !.at = "search", !.temp = None]
  IN  /\ walk[th].at = "compare"
      /\ \/ /\ tree[c].id = walk[th].id
            /\ walk' = [walk EXCEPT ![th].at = "search", ![th].temp = None,
                                    ![th].found = @ \cup {c}]
         \/ /\ tree[c].id # walk[th].id
            /\ LetGo(th, c, next)
      /\ UNCHANGED <<tree, listed, findLock, handle, missed, consumption, accounts>>

\* Of several with the id (LOG(DFATAL) ends a debug build only) the first in the
\* list is kept, any of them here, and the references to the others go.
DropsDuplicate(th, k) ==
  /\ walk[th].at = "search" /\ walk[th].todo = {}
  /\ k \in walk[th].found /\ walk[th].found # {k}
  /\ LetGo(th, k, [walk[th] EXCEPT !.found = @ \ {k}])
  /\ UNCHANGED <<tree, listed, findLock, handle, missed, consumption, accounts>>

Finds(th) ==
  /\ walk[th].at = "search" /\ walk[th].todo = {}
  /\ \E t \in walk[th].found :
        walk[th].found = {t} /\ handle' = [handle EXCEPT ![th] = t]
  /\ findLock' = None
  /\ walk' = [walk EXCEPT ![th] = NoWalk]
  /\ UNCHANGED <<tree, listed, missed, consumption, accounts>>

\* The constructor of CreateTracker, for a global tracker that was not found,
\* for a child of the thread's own tracker or, where no parent is given, for a
\* child of the root.  (An object of the model is used again when no copy of a
\* list holds an expired weak_ptr to the last one.)
Construct(th, t, n, parent, global) ==
  /\ tree[t] = Unused
  /\ \A u \in Thread : t \notin walk[u].todo
  /\ tree' = [tree EXCEPT ![t] = [state |-> "raw", id |-> n, limit |-> LimitOf[n],
                                  parent |-> parent, global |-> global]]
  /\ consumption' = [consumption EXCEPT ![t] = 0]
  /\ walk' = [walk EXCEPT ![th] = [NoWalk EXCEPT !.at = "insert", !.temp = t]]
  /\ UNCHANGED <<listed, findLock, handle, missed, accounts>>

CreatesGlobal(th, t) ==
  /\ walk[th].at = "search" /\ walk[th].todo = {} /\ walk[th].found = {}
  /\ Construct(th, t, walk[th].id, Root, TRUE)

\* An owner leaves its tracker when it has released what it charged, the last
\* one also what is cached (~MemTracker's DCHECK asks it of the owners).
MayLeave(th) ==
  /\ Ready(th) /\ handle[th] # None /\ held[th] = 0
  /\ \/ cached[handle[th]] = 0
     \/ \E u \in Thread \ {th} : handle[u] = handle[th] /\ walk[u].at = "idle"

\* A null parent stands for the root: find_or_create_lock is not taken, and
\* nobody looks for another child of the root with the id.
CreateTracker(th, t, n) ==
  \/ MayLeave(th) /\ Construct(th, t, n, handle[th], FALSE)
  \/ MayStart(th) /\ Construct(th, t, n, Root, FALSE)

AddChildTracker(th) ==
  /\ walk[th].at = "insert"
  /\ listed' = listed \cup {walk[th].temp}
  /\ walk' = [walk EXCEPT ![th].at = "init"]
  /\ UNCHANGED <<tree, findLock, handle, missed, consumption, accounts>>

\* The child keeps alive the parent that its creator no longer charges.
Initialize(th) ==
  /\ walk[th].at = "init"
  /\ tree' = [tree EXCEPT ![walk[th].temp].state = "ready"]
  /\ handle' = [handle EXCEPT ![th] = walk[th].temp]
  /\ findLock' = IF findLock = th THEN None ELSE findLock
  /\ walk' = [walk EXCEPT ![th] = NoWalk]
  /\ UNCHANGED <<listed, missed, consumption, accounts>>

ResetTracker(th) ==
  /\ MayLeave(th)
  /\ handle' = [handle EXCEPT ![th] = None]
  /\ LetGo(th, handle[th], NoWalk)
  /\ UNCHANGED <<tree, listed, findLock, missed, consumption, accounts>>

-----------------------------------------------------------------------------
(* ListTrackers, for the page of memory trackers.                          *)

ListTrackers(th) ==
  /\ MayStart(th)
  /\ walk' = [walk EXCEPT ![th] = [NoWalk EXCEPT !.at = "list", !.todo = {Root}]]
  /\ UNCHANGED <<tree, listed, findLock, handle, missed, consumption, accounts>>

ListVisits(th, k) ==
  /\ walk[th].at = "list" /\ k \in walk[th].todo
  /\ walk' = [walk EXCEPT
        ![th].found = @ \cup {k},
        ![th].todo = (@ \ {k}) \cup {c \in Children(k) : Alive(c)}]
  /\ UNCHANGED <<tree, listed, findLock, handle, missed, consumption, accounts>>

\* The page is written, and the references to the trackers go one by one.
ListLetsGo(th, k) ==
  /\ walk[th].at \in {"list", "listed"}
  /\ walk[th].at = "list" => walk[th].todo = {}
  /\ k \in walk[th].found
  /\ LetGo(th, k, IF walk[th].found = {k} THEN NoWalk
                  ELSE [walk[th] EXCEPT !.at = "listed", !.found = @ \ {k}])
  /\ UNCHANGED <<tree, listed, findLock, handle, missed, consumption, accounts>>

-----------------------------------------------------------------------------
(* Charging.                                                               *)

Chain(th) == AllTrackers[handle[th]]
At(th) == Chain(th)[op[th].pos]

Charge(k, n) == consumption' = [consumption EXCEPT ![k] = @ + n]

Start(th, o) == op' = [op EXCEPT ![th] = o]
Finish(th) == op' = [op EXCEPT ![th] = NoOp]
Goes(th, at) == op' = [op EXCEPT ![th].at = at]

Holds(th, n) == held' = [held EXCEPT ![th] = @ + n]

\* Whether Init has filled the all_trackers_ of the thread's tracker.
IsWhole(th) == tree[handle[th]].state = "ready"

HasRoom(th, n) ==
  /\ Ready(th) /\ handle[th] # None /\ Cardinality(Busy) <= MaxBusy
  /\ held[th] + cached[handle[th]] + n <= MaxHeld

MayCharge(th, n) == HasRoom(th, n) /\ IsWhole(th)

\* Consume, TryConsume and Release walk all_trackers_, which is empty on a child
\* of the root that was found before its creator has initialized it.
ChargesNothing(th, n) ==
  /\ HasRoom(th, n) /\ ~IsWhole(th)
  /\ Holds(th, n)
  /\ missed' = TRUE
  /\ UNCHANGED <<tree, listed, findLock, handle, walk, consumption, cached,
                 gcLock, op, forced>>

ReleasesNothing(th, n) ==
  /\ Ready(th) /\ n <= held[th] /\ ~IsWhole(th)
  /\ Holds(th, -n)
  /\ UNCHANGED <<registry, consumption, cached, gcLock, op, forced>>

\* Consume: bytes that are accounted for whatever the limits.
Consume(th, n) ==
  /\ MayCharge(th, n)
  /\ forced' = TRUE
  /\ Start(th, [NoOp EXCEPT !.at = "consume", !.bytes = n, !.pos = 1])
  /\ UNCHANGED <<registry, consumption, cached, gcLock, held>>

ConsumeClimbs(th) ==
  /\ op[th].at = "consume"
  /\ Charge(At(th), op[th].bytes)
  /\ IF op[th].pos < Len(Chain(th))
     THEN op' = [op EXCEPT ![th].pos = @ + 1] /\ UNCHANGED held
     ELSE IF op[th].mode = "unenforced"
     THEN Goes(th, "delegate") /\ UNCHANGED held
     ELSE Finish(th) /\ Holds(th, op[th].bytes)
  /\ UNCHANGED <<registry, cached, gcLock, forced>>

Release(th, n) ==
  /\ Ready(th) /\ n <= held[th] /\ IsWhole(th)
  /\ Holds(th, -n)
  /\ Start(th, [NoOp EXCEPT !.at = "release", !.bytes = n, !.pos = 1])
  /\ UNCHANGED <<registry, consumption, cached, gcLock, forced>>

\* The walk of TryConsume begins at the root.
Trying(th, mode, n, minimal) ==
  [NoOp EXCEPT !.at = "try", !.mode = mode, !.bytes = n, !.minimal = minimal,
               !.pos = Len(Chain(th))]

\* A failed attempt to allocate what was requested is followed by one to
\* allocate the minimal size.
NextAttempt(th) ==
  IF op[th].minimal > 0
  THEN Start(th, Trying(th, op[th].mode, op[th].minimal, 0))
  ELSE Finish(th)

ReleaseClimbs(th) ==
  /\ op[th].at = "release"
  /\ Charge(At(th), -op[th].bytes)
  /\ IF op[th].pos < Len(Chain(th))
     THEN op' = [op EXCEPT ![th].pos = @ + 1]
     ELSE NextAttempt(th)
  /\ UNCHANGED <<registry, cached, gcLock, held, forced>>

TryConsume(th, n) ==
  /\ MayCharge(th, n)
  /\ Start(th, Trying(th, "direct", n, 0))
  /\ UNCHANGED <<registry, consumption, cached, gcLock, held, forced>>

\* MemoryTrackingBufferAllocator::AllocateInternal, with enforce_limit_ or not.
Allocate(th, mode, n, minimal) ==
  /\ MayCharge(th, n)
  /\ minimal <= n
  /\ Start(th, Trying(th, mode, n, minimal))
  /\ UNCHANGED <<registry, consumption, cached, gcLock, held, forced>>

\* HighWaterMark::TryIncrementBy, or IncrementBy where there is no limit.
Fits(k, n) == Limit(k) < 0 \/ consumption[k] + n <= Limit(k)

\* One tracker has accepted the charge: on to the one below.
Descends(th) ==
  /\ Charge(At(th), op[th].bytes)
  /\ IF op[th].pos > 1
     THEN op' = [op EXCEPT ![th].pos = @ - 1, ![th].at = "try", ![th].goal = 0]
          /\ UNCHANGED held
     ELSE IF op[th].mode = "direct"
     THEN Finish(th) /\ Holds(th, op[th].bytes)
     ELSE op' = [op EXCEPT ![th].at = "delegate", ![th].goal = 0]
          /\ UNCHANGED held
  /\ UNCHANGED <<registry, cached, gcLock, forced>>

GivesUp(th) ==
  op' = [op EXCEPT ![th].at = "undo", ![th].j = Len(Chain(th)), ![th].goal = 0,
                   ![th].freed = 0]

Undoes(th) ==
  /\ GivesUp(th)
  /\ UNCHANGED <<registry, consumption, cached, gcLock, held, forced>>

TryAccepts(th) ==
  /\ op[th].at = "try"
  /\ Fits(At(th), op[th].bytes)
  /\ Descends(th)

TryRefuses(th) ==
  LET goal == Limit(At(th)) - op[th].bytes
  IN  /\ op[th].at = "try"
      /\ ~Fits(At(th), op[th].bytes)
      /\ \/ goal < 0 /\ Undoes(th)
         \/ /\ goal >= 0
            /\ op' = [op EXCEPT ![th].at = "gc", ![th].goal = goal]
            /\ UNCHANGED <<registry, consumption, cached, gcLock, held, forced>>

\* The retry may charge only what still fits: others charged meanwhile.
Retry_Unchecked(th) ==
  op[th].at = "retry" /\ Descends(th)

Retry(th) ==
  /\ op[th].at = "retry"
  /\ IF Fits(At(th), op[th].bytes) THEN Descends(th) ELSE Undoes(th)

\* The trackers that have accepted are those above the one that refused.
StillToUndo_AlsoTheRefuser(th) == op[th].j >= op[th].pos

StillToUndo(th) == op[th].j > op[th].pos

UndoDescends(th) ==
  /\ op[th].at = "undo"
  /\ StillToUndo(th)
  /\ Charge(Chain(th)[op[th].j], -op[th].bytes)
  /\ op' = [op EXCEPT ![th].j = @ - 1]
  /\ UNCHANGED <<registry, cached, gcLock, held, forced>>

\* TryConsume returns false; the allocator goes on as enforce_limit_ says.
Refused(th) ==
  /\ op[th].at = "undo"
  /\ ~StillToUndo(th)
  /\ \/ /\ op[th].mode = "unenforced"
        /\ op' = [op EXCEPT ![th].at = "consume", ![th].pos = 1, ![th].j = 0]
        /\ forced' = TRUE
     \/ /\ op[th].mode # "unenforced"
        /\ NextAttempt(th)
        /\ UNCHANGED forced
  /\ UNCHANGED <<registry, consumption, cached, gcLock, held>>

\* The delegate allocator has the memory, or the charge is released.
DelegateAllocates(th) ==
  /\ op[th].at = "delegate"
  /\ Finish(th)
  /\ Holds(th, op[th].bytes)
  /\ UNCHANGED <<registry, consumption, cached, gcLock, forced>>

DelegateFails(th) ==
  /\ op[th].at = "delegate"
  /\ op' = [op EXCEPT ![th].at = "release", ![th].pos = 1]
  /\ UNCHANGED <<registry, consumption, cached, gcLock, held, forced>>

-----------------------------------------------------------------------------
(* Garbage collection.                                                     *)

\* A component caches bytes that the GC function of its tracker can free, and
\* frees them itself before it goes.
FillCache(th, n) ==
  /\ Ready(th) /\ n <= held[th] /\ IsWhole(th)
  /\ cached[handle[th]] + n < MaxHeld
  /\ Holds(th, -n)
  /\ cached' = [cached EXCEPT ![handle[th]] = @ + n]
  /\ UNCHANGED <<registry, consumption, gcLock, op, forced>>

EmptyCache(th) ==
  /\ Ready(th) /\ handle[th] # None /\ IsWhole(th) /\ cached[handle[th]] > 0
  /\ Start(th, [NoOp EXCEPT !.at = "release", !.bytes = cached[handle[th]],
                            !.pos = 1])
  /\ cached' = [cached EXCEPT ![handle[th]] = 0]
  /\ UNCHANGED <<registry, consumption, gcLock, held, forced>>

\* AnyLimitExceeded has found a tracker over its limit.
LimitExceeded(th, i) ==
  /\ Ready(th) /\ handle[th] # None /\ IsWhole(th)
  /\ i \in DOMAIN Chain(th)
  /\ Limit(Chain(th)[i]) >= 0 /\ consumption[Chain(th)[i]] > Limit(Chain(th)[i])
  /\ Start(th, [NoOp EXCEPT !.at = "gc", !.mode = "check", !.pos = i,
                            !.goal = Limit(Chain(th)[i])])
  /\ UNCHANGED <<registry, consumption, cached, gcLock, held, forced>>

\* GcMemory says whether the tracker is still full: LimitExceeded is done with it,
\* TryConsume tries again or gives up.
GcReturns(th, full) ==
  \/ op[th].mode = "check" /\ Finish(th)
  \/ op[th].mode # "check" /\ full /\ GivesUp(th)
  \/ /\ op[th].mode # "check" /\ ~full
     /\ op' = [op EXCEPT ![th].at = "retry", ![th].j = 0, ![th].goal = 0,
                        ![th].freed = 0]

\* GcMemory: somebody else may have made room before the lock was free.
GcLocks(th) ==
  LET k == At(th)
  IN  /\ op[th].at = "gc"
      /\ gcLock[k] = None
      /\ IF consumption[k] < op[th].goal
         THEN GcReturns(th, FALSE) /\ UNCHANGED <<cached, gcLock>>
         ELSE /\ gcLock' = [gcLock EXCEPT ![k] = th]
              /\ cached' = [cached EXCEPT ![k] = 0]
              /\ op' = [op EXCEPT ![th].freed = cached[k], ![th].j = 1,
                          ![th].at = IF cached[k] > 0 THEN "free" ELSE "check"]
      /\ UNCHANGED <<registry, consumption, held, forced>>

\* The GC function releases what it freed, on the tracker and its ancestors.
GcFrees(th) ==
  LET up == AllTrackers[At(th)]
  IN  /\ op[th].at = "free"
      /\ Charge(up[op[th].j], -op[th].freed)
      /\ op' = [op EXCEPT ![th].j = @ + 1,
                  ![th].at = IF op[th].j < Len(up) THEN "free" ELSE "check"]
      /\ UNCHANGED <<registry, cached, gcLock, held, forced>>

GcChecks(th) ==
  /\ op[th].at = "check"
  /\ gcLock' = [gcLock EXCEPT ![At(th)] = None]
  /\ GcReturns(th, consumption[At(th)] > op[th].goal)
  /\ UNCHANGED <<registry, consumption, cached, held, forced>>

-----------------------------------------------------------------------------

LookupStep(th) ==
  \/ \E n \in GlobalName : FindOrCreateGlobalTracker(th, n)
  \/ CopyChildren(th)
  \/ \E c \in Tracker : SearchLocks(th, c)
  \/ SearchCompares(th)
  \/ \E k \in Tracker : DropsDuplicate(th, k)
  \/ Finds(th)
  \/ \E t \in Tracker : CreatesGlobal(th, t)
  \/ \E t \in Tracker, n \in Name : CreateTracker(th, t, n)
  \/ AddChildTracker(th)
  \/ Initialize(th)

LifetimeStep(th) ==
  \/ ResetTracker(th)
  \/ ListTrackers(th)
  \/ \E k \in Node : ListVisits(th, k)
  \/ \E k \in Node : ListLetsGo(th, k)
  \/ Destroy(th)
  \/ Erase(th)

ChargeStep(th) ==
  \/ \E n \in Bytes : ChargesNothing(th, n)
  \/ \E n \in Bytes : ReleasesNothing(th, n)
  \/ \E n \in Bytes : Consume(th, n)
  \/ \E n \in Bytes : Release(th, n)
  \/ \E n \in Bytes : TryConsume(th, n)
  \/ \E n, m \in Bytes, mode \in {"enforced", "unenforced"} : Allocate(th, mode, n, m)
  \/ ConsumeClimbs(th)
  \/ ReleaseClimbs(th)
  \/ TryAccepts(th)
  \/ TryRefuses(th)
  \/ Retry(th)
  \/ UndoDescends(th)
  \/ Refused(th)
  \/ DelegateAllocates(th)
  \/ DelegateFails(th)

CollectStep(th) ==
  \/ \E n \in Bytes : FillCache(th, n)
  \/ EmptyCache(th)
  \/ \E i \in 1 .. Cardinality(Node) : LimitExceeded(th, i)
  \/ GcLocks(th)
  \/ GcFrees(th)
  \/ GcChecks(th)

Next ==
  \E th \in Thread :
    LookupStep(th) \/ LifetimeStep(th) \/ ChargeStep(th) \/ CollectStep(th)

Spec == Init /\ [][Next]_vars

-----------------------------------------------------------------------------
(* Properties.                                                             *)

WalkSteps == {"idle", "copy", "search", "compare", "insert", "init", "list",
              "listed", "destroy", "erase"}

OpSteps == {"none", "consume", "release", "try", "gc", "free", "check",
            "retry", "undo", "delegate"}

Modes == {"none", "direct", "enforced", "unenforced", "check"}

TypeOK ==
  /\ tree \in [Tracker -> [state : {"none", "raw", "ready"},
                          id : Name \cup {None}, limit : Int, parent : Node,
                          global : BOOLEAN]]
  /\ listed \subseteq Tracker
  /\ consumption \in [Node -> Int]
  /\ cached \in [Node -> 0 .. MaxHeld]
  /\ findLock \in Thread \cup {None}
  /\ gcLock \in [Node -> Thread \cup {None}]
  /\ handle \in [Thread -> Tracker \cup {None}]
  /\ held \in [Thread -> 0 .. MaxHeld]
  /\ walk \in [Thread -> [at : WalkSteps, id : Name \cup {None},
                         todo : SUBSET Node, found : SUBSET Node,
                         temp : Tracker \cup {None}, back : {"idle", "search", "listed"}]]
  /\ op \in [Thread -> [at : OpSteps, mode : Modes, bytes : 0 .. MaxHeld,
                       minimal : 0 .. MaxHeld, pos : Nat, j : Nat, goal : Nat,
                       freed : 0 .. MaxHeld]]
  /\ forced \in BOOLEAN /\ missed \in BOOLEAN

\* FindOrCreateGlobalTracker never makes a second live tracker with the id of one
\* it has made, although it searches without the list's lock and beside
\* destructors that have not left the list yet.  (CreateTracker without a parent
\* may add others with the id: nothing is promised of those.)
GlobalNamesAreUnique ==
  \A t, u \in listed :
    /\ tree[t].global /\ tree[t].parent = Root
    /\ tree[u].global /\ tree[u].parent = Root
    /\ tree[t].id = tree[u].id /\ Alive(t) /\ Alive(u)
    => t = u

\* Whom a thread charges was never destroyed, and is initialized unless a search
\* found it while the thread that creates it beside find_or_create_lock has
\* listed it and not initialized it: never a tracker of FindOrCreateGlobalTracker,
\* nor a child of another tracker than the root.
HandlesAreWhole ==
  /\ \A th \in Thread : handle[th] # None =>
       LET t == tree[handle[th]]
       IN  \/ t.state = "ready"
           \/ t.state = "raw" /\ t.parent = Root /\ ~t.global /\ t.id \in GlobalName
  /\ \A t \in Tracker : tree[t].state = "none" => References(t) = {}

\* Whoever drops the last reference, wherever in a search, a listing or another
\* destructor, runs the destructor: no tracker is left over.
NoneIsLost ==
  \A t \in Tracker : tree[t].state # "none" =>
    \/ References(t) # {}
    \/ \E th \in Thread : walk[th].at \in {"destroy", "erase"} /\ walk[th].temp = t

\* The types, the registry's promises and the life of what it hands out.
MemInv ==
  TypeOK /\ GlobalNamesAreUnique /\ HandlesAreWhole /\ NoneIsLost

OnChain(k, c) == \E i \in 1 .. Len(c) : c[i] = k

When(b, n) == IF n > 0 /\ b THEN n ELSE 0

\* Whether k is among the lo-th to the hi-th tracker of the way c to the root.
OnTheWay(k, c, lo, hi) == \E i \in lo .. hi : c[i] = k

\* Whether charge o is on tracker k of its way, wherever it stands.
IsCharged(k, c, o) ==
  \/ o.at = "consume" /\ OnTheWay(k, c, 1, o.pos - 1)
  \/ o.at = "release" /\ OnTheWay(k, c, o.pos, Len(c))
  \/ o.at \in {"try", "gc", "free", "check", "retry"}
       /\ OnTheWay(k, c, o.pos + 1, Len(c))
  \/ o.at = "undo" /\ OnTheWay(k, c, o.pos + 1, o.j)
  \/ o.at = "delegate" /\ OnTheWay(k, c, 1, Len(c))

\* What a thread has charged on tracker k, and what its collection still has to
\* release there.
Share(k, c, n, o) ==
  When(OnTheWay(k, c, 1, Len(c)), n)
    + When(IsCharged(k, c, o), o.bytes)
    + When(o.at = "free" /\ OnTheWay(k, c, o.pos + o.j - 1, Len(c)), o.freed)

ThreadShare(th, k) ==
  IF handle[th] = None THEN 0 ELSE Share(k, Chain(th), held[th], op[th])

CacheShare(t, k) == When(OnChain(k, AllTrackers[t]), cached[t])

Shares(k) == [th \in Thread |-> ThreadShare(th, k)]
Caches(k) == [t \in Node |-> CacheShare(t, k)]

Total(f, S) == MapThenSumSet(LAMBDA x : f[x], S)

\* Every byte of a tracker's consumption, also in the middle of operations.
Load(k) == Total(Shares(k), Thread) + Total(Caches(k), Node)

\* A component with a cache has a tracker, and somebody stays with it.
CachesAreWatched ==
  \A k \in Node :
    cached[k] > 0 => \E th \in Thread : handle[th] = k /\ walk[th].at = "idle"

\* No path of a charge (refusal half-way down the tree, rollback, retry after a
\* collection, failed allocation, smaller second attempt) leaks or releases
\* twice, on any tracker: between operations every consumption is exact, it is
\* never negative, and a destructor finds 0 (its DCHECK).  Only a charge on a
\* tracker that is not initialized is lost, and its release is not.
AccountsAreExact ==
  ~missed =>
    /\ CachesAreWatched
    /\ \A k \in Node : consumption[k] = Load(k)
    /\ \A k \in Node : consumption[k] >= 0
    /\ \A th \in Thread :
         walk[th].at = "destroy" => consumption[walk[th].temp] = 0

\* As long as everybody asks (TryConsume, or an allocator that enforces), no
\* tracker ever exceeds its limit, also while charges of several threads, their
\* rollbacks and collections overlap.
LimitHolds ==
  ~forced /\ ~missed => \A k \in Node : Limit(k) < 0 \/ consumption[k] <= Limit(k)
=============================================================================
