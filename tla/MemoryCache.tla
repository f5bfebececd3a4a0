---------------------------- MODULE MemoryCache ----------------------------
(***************************************************************************)
(* The in-memory cache every tile, elevation, file-store and GPU cache of  *)
(* World Wind is built on: gov.nasa.worldwind.cache.BasicMemoryCache.      *)
(*                                                                         *)
(* entries is guarded by the cache's lock, but add() reads the capacity    *)
(* before it takes the lock, and setCapacity()/setLowWater() never take    *)
(* it.  So add() is a sequence of steps here, one per access to state that *)
(* another thread can change in between; remove(), getObject() and clear() *)
(* run wholly inside the lock and are one step each.                       *)
(***************************************************************************)
EXTENDS Integers, FiniteSets

CONSTANTS
  Threads,          \* threads that add objects
  Keys,             \* cache keys
  Objects,          \* client objects (a texture, a tile, a DBEntry, ...)
  Sizes,            \* sizes of objects, 0 included
  Additions,        \* the <<key, object, size>> clients pass to add()
  Capacities,       \* values applications pass to setCapacity()
  LowWaters,        \* values applications pass to setLowWater()
  InitialCapacity,
  InitialLowWater,
  MaxTime,          \* bound on System.nanoTime(); time may stand still at it
  Null,             \* no entry under a key, no add() under way
  NoThread          \* the lock is free

ASSUME ConstantsAssumption ==
  /\ Sizes \subseteq Nat
  /\ Additions \subseteq Keys \X Objects \X Sizes
  /\ Capacities \subseteq Nat
  /\ LowWaters \subseteq Int
  /\ InitialCapacity \in Nat
  /\ InitialLowWater \in Nat
  /\ MaxTime \in Nat
  /\ NoThread \notin Threads

\* Kept apart because TLC cannot enumerate the set of all entries.
ASSUME NullAssumption ==
  \A o \in Objects, s \in Sizes, u \in 0..MaxTime :
    Null # [object |-> o, size |-> s, lastUsed |-> u]

VARIABLES
  entries,       \* key -> cache entry, or Null
  usedCapacity,  \* the AtomicLong currentUsedCapacity
  capacity,      \* the AtomicLong capacity
  lowWater,
  lock,          \* the thread inside synchronized (this.lock), or NoThread
  pc,            \* where each thread stands in add()
  call,          \* the arguments and locals of each thread's add()
  time,          \* System.nanoTime()
  unreported,    \* history: how many more add()s of an object under a key have
                 \* returned true than removals of it were reported to the
                 \* listeners
  lowered        \* history: setCapacity() has lowered the capacity

vars == <<entries, usedCapacity, capacity, lowWater, lock, pc, call, time,
          unreported, lowered>>
-----------------------------------------------------------------------------

CacheEntry == [object: Objects, size: Sizes, lastUsed: 0..MaxTime]

Call == [key: Keys, object: Objects, size: Sizes, cap: Nat,
         lastUsed: 0..MaxTime]

\* The steps of add(): Inside are the ones taken while holding the lock.
Inside == {"makeSpace", "evict", "charge", "store"}
Pending == {"entry", "enter"} \cup Inside

CachedKeys == {k \in Keys : entries[k] # Null}
CachedAs(o, k) == entries[k] # Null /\ entries[k].object = o

\* The cache units the entries occupy, each a distinct <<key, index>> cell:
\* their number is the total of the entries' sizes.
Cells(k, n) == {<<k, i>> : i \in 1..n}
UnitsOf(es) == UNION {Cells(k, es[k].size) : k \in {x \in Keys : es[x] # Null}}

Init ==
  /\ entries = [k \in Keys |-> Null]
  /\ usedCapacity = 0
  /\ capacity = InitialCapacity
  /\ lowWater = InitialLowWater
  /\ lock = NoThread
  /\ pc = [t \in Threads |-> "idle"]
  /\ call = [t \in Threads |-> Null]
  /\ time = 0
  /\ unreported = [k \in Keys |-> [o \in Objects |-> 0]]
  /\ lowered = FALSE

\* System.nanoTime() never goes backwards; two calls may return the same value.
NanoTime == time' \in {time, time + 1} \cap 0..MaxTime

\* entryRemoved() is called with the key and the object of an entry.
Report(k) == unreported' = [unreported EXCEPT ![k][entries[k].object] = @ - 1]

\* Mutant of RemoveEntry: the size is not given back.
RemoveEntryUncharged(k) ==
  IF entries[k] = Null
  THEN UNCHANGED <<entries, usedCapacity, unreported>>
  ELSE /\ entries' = [entries EXCEPT ![k] = Null]
       /\ Report(k)
       /\ UNCHANGED usedCapacity

\* removeEntry(): every removal unmaps the key, gives its size back and reports
\* the object to the listeners.  A key that is already gone changes nothing.
RemoveEntry(k) ==
  IF entries[k] = Null
  THEN UNCHANGED <<entries, usedCapacity, unreported>>
  ELSE /\ entries' = [entries EXCEPT ![k] = Null]
       /\ usedCapacity' = usedCapacity - entries[k].size
       /\ Report(k)

-----------------------------------------------------------------------------
(* add() *)

\* add() reads the capacity and refuses an object of no size or one too large.
\* The object may be in the cache already, under this key or another, or in the
\* add() of another thread: TextureTile.updateMemoryCache() adds it once more.
AddReadCapacity(t, k, o, s) ==
  /\ pc[t] = "idle"
  /\ s > 0
  /\ s <= capacity
  /\ call' = [call EXCEPT ![t] = [key |-> k, object |-> o, size |-> s,
                                  cap |-> capacity, lastUsed |-> 0]]
  /\ pc' = [pc EXCEPT ![t] = "entry"]
  /\ UNCHANGED <<entries, usedCapacity, capacity, lowWater, lock, time,
                 unreported, lowered>>

\* new CacheEntry(...) stamps the entry before the lock is taken.
AddNewEntry(t) ==
  /\ pc[t] = "entry"
  /\ NanoTime
  /\ call' = [call EXCEPT ![t].lastUsed = time']
  /\ pc' = [pc EXCEPT ![t] = "enter"]
  /\ UNCHANGED <<entries, usedCapacity, capacity, lowWater, lock, unreported,
                 lowered>>

\* Mutant of AddEnter: the entry being replaced makes room for the new one, but
\* the listeners are not told of it.
AddEnterUnreported(t) ==
  /\ pc[t] = "enter"
  /\ lock = NoThread
  /\ lock' = t
  /\ entries' = [entries EXCEPT ![call[t].key] = Null]
  /\ usedCapacity' = usedCapacity
        - (IF entries[call[t].key] = Null THEN 0 ELSE entries[call[t].key].size)
  /\ pc' = [pc EXCEPT ![t] =
              IF usedCapacity' + call[t].size > call[t].cap
              THEN "makeSpace" ELSE "charge"]
  /\ UNCHANGED <<unreported, capacity, lowWater, call, time, lowered>>

\* Enter the lock, remove the entry being replaced, and compare the space left
\* with the capacity read before the lock was taken.
AddEnter(t) ==
  /\ pc[t] = "enter"
  /\ lock = NoThread
  /\ lock' = t
  /\ RemoveEntry(call[t].key)
  /\ pc' = [pc EXCEPT ![t] =
              IF usedCapacity' + call[t].size > call[t].cap
              THEN "makeSpace" ELSE "charge"]
  /\ UNCHANGED <<capacity, lowWater, call, time, lowered>>

\* makeSpace() gives up at once if the object no longer fits the capacity.
MakeSpace(t) ==
  /\ pc[t] = "makeSpace"
  /\ pc' = [pc EXCEPT ![t] = IF call[t].size > capacity THEN "charge" ELSE "evict"]
  /\ UNCHANGED <<entries, usedCapacity, capacity, lowWater, lock, call, time,
                 unreported, lowered>>

FreeCapacity == IF capacity >= usedCapacity THEN capacity - usedCapacity ELSE 0

\* Mutants of NeedsSpace: space is made for the low water level only, or the
\* loop runs on at that level.
NeedsSpaceLowWaterOnly(t) == usedCapacity > lowWater
NeedsSpaceAtLowWater(t) == FreeCapacity < call[t].size \/ usedCapacity >= lowWater

\* The condition of makeSpace()'s loop, evaluated anew on every iteration.
NeedsSpace(t) == FreeCapacity < call[t].size \/ usedCapacity > lowWater

LeastRecentlyUsed ==
  {k \in CachedKeys :
     \A j \in CachedKeys : entries[k].lastUsed <= entries[j].lastUsed}

\* One iteration of makeSpace()'s loop.  With no entry left and the condition
\* still true the loop spins: no step of this thread changes anything.
Evict(t) ==
  /\ pc[t] = "evict"
  /\ NeedsSpace(t)
  /\ \E k \in LeastRecentlyUsed : RemoveEntry(k)
  /\ UNCHANGED <<capacity, lowWater, lock, pc, call, time, lowered>>

EvictDone(t) ==
  /\ pc[t] = "evict"
  /\ ~NeedsSpace(t)
  /\ pc' = [pc EXCEPT ![t] = "charge"]
  /\ UNCHANGED <<entries, usedCapacity, capacity, lowWater, lock, call, time,
                 unreported, lowered>>

\* currentUsedCapacity.addAndGet() comes before the entry is in the map.
AddCharge(t) ==
  /\ pc[t] = "charge"
  /\ usedCapacity' = usedCapacity + call[t].size
  /\ pc' = [pc EXCEPT ![t] = "store"]
  /\ UNCHANGED <<entries, capacity, lowWater, lock, call, time, unreported,
                 lowered>>

\* entries.putIfAbsent(), then the lock is released and add() returns true.
AddStore(t) ==
  /\ pc[t] = "store"
  /\ entries' = IF entries[call[t].key] = Null
                THEN [entries EXCEPT ![call[t].key] =
                        [object |-> call[t].object, size |-> call[t].size,
                         lastUsed |-> call[t].lastUsed]]
                ELSE entries
  /\ lock' = NoThread
  /\ pc' = [pc EXCEPT ![t] = "idle"]
  /\ call' = [call EXCEPT ![t] = Null]
  /\ unreported' = [unreported EXCEPT ![call[t].key][call[t].object] = @ + 1]
  /\ UNCHANGED <<usedCapacity, capacity, lowWater, time, lowered>>

-----------------------------------------------------------------------------
(* The operations that run wholly inside the lock, and the setters that run *)
(* wholly outside it.                                                       *)

Remove(k) ==
  /\ lock = NoThread
  /\ RemoveEntry(k)
  /\ UNCHANGED <<capacity, lowWater, lock, pc, call, time, lowered>>

GetObject(k) ==
  /\ lock = NoThread
  /\ entries[k] # Null
  /\ NanoTime
  /\ entries' = [entries EXCEPT ![k].lastUsed = time']
  /\ UNCHANGED <<usedCapacity, capacity, lowWater, lock, pc, call, unreported,
                 lowered>>

\* clear() passes every entry to removeEntry().
Clear ==
  /\ lock = NoThread
  /\ entries' = [k \in Keys |-> Null]
  /\ usedCapacity' = usedCapacity - Cardinality(UnitsOf(entries))
  /\ unreported' = [k \in Keys |-> [o \in Objects |->
                       unreported[k][o] - (IF CachedAs(o, k) THEN 1 ELSE 0)]]
  /\ UNCHANGED <<capacity, lowWater, lock, pc, call, time, lowered>>

\* setCapacity() stores the value and removes nothing.
SetCapacity(c) ==
  /\ capacity' = c
  /\ lowered' = (lowered \/ c < capacity)
  /\ UNCHANGED <<entries, usedCapacity, lowWater, lock, pc, call, time,
                 unreported>>

\* Mutant of SetLowWater: the value is not checked.
SetLowWaterUnchecked(w) ==
  /\ lowWater' = w
  /\ UNCHANGED <<entries, usedCapacity, capacity, lock, pc, call, time,
                 unreported, lowered>>

SetLowWater(w) ==
  /\ w < capacity
  /\ w >= 0
  /\ lowWater' = w
  /\ UNCHANGED <<entries, usedCapacity, capacity, lock, pc, call, time,
                 unreported, lowered>>

\* The steps of the thread that holds the lock.
InsideStep(t) ==
  MakeSpace(t) \/ Evict(t) \/ EvictDone(t) \/ AddCharge(t) \/ AddStore(t)

Add(t) ==
  \/ \E a \in Additions : AddReadCapacity(t, a[1], a[2], a[3])
  \/ AddNewEntry(t)
  \/ AddEnter(t)
  \/ InsideStep(t)

Next ==
  \/ \E t \in Threads : Add(t)
  \/ \E k \in Keys : Remove(k) \/ GetObject(k)
  \/ Clear
  \/ \E c \in Capacities : SetCapacity(c)
  \/ \E w \in LowWaters : SetLowWater(w)

Spec == Init /\ [][Next]_vars

\* A thread that is inside the lock keeps running: the JVM schedules it.
FairSpec == Spec /\ \A t \in Threads : WF_vars(InsideStep(t))
-----------------------------------------------------------------------------
(* Properties *)

\* The types of the variables; the low water level in particular is never
\* negative, or makeSpace() could not reach it.
TypeOK ==
  /\ entries \in [Keys -> CacheEntry \cup {Null}]
  /\ usedCapacity \in Int
  /\ capacity \in Nat
  /\ lowWater \in Nat
  /\ lock \in Threads \cup {NoThread}
  /\ pc \in [Threads -> {"idle"} \cup Pending]
  /\ call \in [Threads -> Call \cup {Null}]
  /\ \A t \in Threads : pc[t] \in Pending => call[t] \in Call
  /\ time \in 0..MaxTime
  /\ unreported \in [Keys -> [Objects -> Int]]
  /\ lowered \in BOOLEAN

\* The object being charged for but not yet in the map, if there is one.
InTransit ==
  IF lock # NoThread /\ pc[lock] = "store" THEN call[lock].size ELSE 0

\* getUsedCapacity() is the total size of the cached entries, whatever the
\* threads do: replacing, evicting, removing and clearing give back exactly
\* what add() charged.  Only the one add() between its charge and its
\* putIfAbsent() is ahead of the map.
UsedIsTotalSize ==
  usedCapacity = Cardinality(UnitsOf(entries)) + InTransit

\* The removal listeners hear of an object exactly once for every add() of it that
\* returned true, except for the add() whose entry is in the cache now: whatever
\* replacements, evictions, removals and clears interleave, no texture, buffer or
\* open file is leaked and none is reported twice for one add().  (An object added
\* again under its key, or under a second key, is reported although it is cached:
\* the report is about the earlier add().)
OneReportPerAdd ==
  \A k \in Keys, o \in Objects :
    unreported[k][o] = IF CachedAs(o, k) THEN 1 ELSE 0

\* As long as the capacity has never been lowered, add() keeps the used
\* capacity within it, although it decides with a capacity read before it
\* took the lock.
WithinCapacity == ~lowered => usedCapacity <= capacity

\* makeSpace()'s loop has no exit of its own once it has emptied the cache.  It can
\* get there only with an object that has become larger than the capacity since
\* the check before the loop: neither the accounts nor the low water level, which
\* applications set at any moment, ever keep it going.
StuckOnlyIfTooLarge ==
  \A t \in Threads :
    pc[t] = "evict" /\ NeedsSpace(t) /\ CachedKeys = {} => call[t].size > capacity

\* The thread inside the lock comes out of it, as long as the capacity has never
\* been lowered: makeSpace()'s loop ends, whatever the low water level, and the
\* other users of the cache are not blocked for ever.
LockIsReleased == \A t \in Threads : lock = t ~> lock # t \/ lowered

\* makeSpace() "does nothing if capacity is less than spaceRequired".  It does so
\* only if the capacity is that low when it begins; if it is lowered later, the
\* loop never ends, and this does not hold.
AddEnds == \A t \in Threads : pc[t] \in Inside ~> pc[t] = "idle"
-----------------------------------------------------------------------------
(* The inductive strengthening of the safety properties *)

\* The lock belongs to the one thread that is inside it.
LockInv == \A t \in Threads : lock = t <=> pc[t] \in Inside

\* The key a thread inside the lock is adding has no entry, so putIfAbsent()
\* will store the new one.
KeyIsFree == \A t \in Threads : pc[t] \in Inside => entries[call[t].key] = Null

UnitsAreFinite == IsFiniteSet(UnitsOf(entries))

\* What add() knows of the capacity as it goes along.
CallFits(t) ==
  /\ pc[t] \in Pending => call[t].size <= call[t].cap /\ call[t].cap <= capacity
  /\ pc[t] = "charge" => usedCapacity + call[t].size <= capacity

CapacityInv == ~lowered => usedCapacity <= capacity /\ \A t \in Threads : CallFits(t)

\* OneReportPerAdd is inductive relative to it.
IInv ==
  /\ TypeOK
  /\ LockInv
  /\ KeyIsFree
  /\ UnitsAreFinite
  /\ UsedIsTotalSize
  /\ CapacityInv
=============================================================================
