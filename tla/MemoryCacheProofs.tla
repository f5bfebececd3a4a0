------------------------- MODULE MemoryCacheProofs -------------------------
(***************************************************************************)
(* What MemoryCache promises for every set of threads, keys and objects    *)
(* and every size and capacity: the used capacity is the total size of the *)
(* entries, and it stays within a capacity that is never lowered.          *)
(***************************************************************************)
EXTENDS MemoryCache, FiniteSetTheorems, FunctionTheorems, TLAPS

Entries == [Keys -> CacheEntry \cup {Null}]

-----------------------------------------------------------------------------
(* Cache units *)

\* An object of size n occupies n units.
LEMMA CellsCardinality ==
  ASSUME NEW k, NEW n \in Nat
  PROVE  IsFiniteSet(Cells(k, n)) /\ Cardinality(Cells(k, n)) = n
<1> DEFINE f == [i \in 1..n |-> <<k, i>>]
<1>1. IsFiniteSet(1..n) /\ Cardinality(1..n) = n
  BY FS_Interval
<1>2. f \in Bijection(1..n, Cells(k, n))
  BY DEF Bijection, Injection, Surjection, IsInjective, Cells
<1>3. ExistsBijection(1..n, Cells(k, n))
  BY <1>2 DEF ExistsBijection
<1> QED BY <1>1, <1>3, FS_Bijection

\* A unit is occupied if the entry under its key is large enough.
LEMMA UnitsOfMember ==
  ASSUME NEW es, NEW x
  PROVE  x \in UnitsOf(es) <=>
           \E k \in Keys : es[k] # Null /\ x \in Cells(k, es[k].size)
BY DEF UnitsOf

\* Removing an entry frees exactly its size.
LEMMA UnitsAfterRemoval ==
  ASSUME NEW es \in Entries, NEW k \in Keys, es[k] # Null,
         IsFiniteSet(UnitsOf(es))
  PROVE  LET rest == UnitsOf([es EXCEPT ![k] = Null])
         IN /\ IsFiniteSet(rest)
            /\ Cardinality(rest) = Cardinality(UnitsOf(es)) - es[k].size
<1> DEFINE new == [es EXCEPT ![k] = Null]
           cells == Cells(k, es[k].size)
<1>1. es[k].size \in Nat
  BY ConstantsAssumption DEF Entries, CacheEntry
<1>2. cells \subseteq UnitsOf(es)
  BY UnitsOfMember
<1>3. UnitsOf(new) = UnitsOf(es) \ cells
  <2>1. ASSUME NEW x PROVE x \in UnitsOf(new) <=> x \in UnitsOf(es) /\ x \notin cells
    <3>1. \A j \in Keys : j # k => new[j] = es[j]
      BY DEF Entries
    <3>2. new[k] = Null
      BY DEF Entries
    <3>3. \A j \in Keys : x \in cells /\ x \in Cells(j, es[j].size) => j = k
      BY DEF Cells
    <3> HIDE DEF new, cells
    <3>4. ASSUME x \in UnitsOf(new) PROVE x \in UnitsOf(es) /\ x \notin cells
      <4>1. PICK j \in Keys : new[j] # Null /\ x \in Cells(j, new[j].size)
        BY <3>4, UnitsOfMember
      <4> QED BY <4>1, <3>1, <3>2, <3>3, UnitsOfMember
    <3>5. ASSUME x \in UnitsOf(es), x \notin cells PROVE x \in UnitsOf(new)
      <4>1. PICK j \in Keys : es[j] # Null /\ x \in Cells(j, es[j].size)
        BY <3>5, UnitsOfMember
      <4>2. j # k
        BY <4>1, <3>5 DEF cells
      <4> QED BY <4>1, <4>2, <3>1, UnitsOfMember
    <3> QED BY <3>4, <3>5
  <2> QED BY <2>1
<1>4. UnitsOf(es) \cap cells = cells
  BY <1>2
<1>5. Cardinality(cells) = es[k].size
  BY <1>1, CellsCardinality
<1> HIDE DEF cells, new
<1>6. /\ IsFiniteSet(UnitsOf(es) \ cells)
      /\ Cardinality(UnitsOf(es) \ cells) = Cardinality(UnitsOf(es)) - es[k].size
  BY <1>4, <1>5, FS_Difference
<1> QED BY <1>3, <1>6 DEF new

\* Storing an entry under a free key occupies exactly its size.
LEMMA UnitsAfterStore ==
  ASSUME NEW es \in Entries, NEW k \in Keys, es[k] = Null,
         NEW e \in CacheEntry, e # Null, IsFiniteSet(UnitsOf(es))
  PROVE  LET all == UnitsOf([es EXCEPT ![k] = e])
         IN /\ IsFiniteSet(all)
            /\ Cardinality(all) = Cardinality(UnitsOf(es)) + e.size
<1> DEFINE new == [es EXCEPT ![k] = e]
           cells == Cells(k, e.size)
<1>1. e.size \in Nat
  BY ConstantsAssumption DEF CacheEntry
<1>2. /\ new[k] = e
      /\ \A j \in Keys : j # k => new[j] = es[j]
  BY DEF Entries
<1>3. UnitsOf(new) = UnitsOf(es) \cup cells
  <2>1. ASSUME NEW x PROVE x \in UnitsOf(new) <=> x \in UnitsOf(es) \/ x \in cells
    <3> HIDE DEF new
    <3>1. ASSUME x \in UnitsOf(new) PROVE x \in UnitsOf(es) \/ x \in cells
      <4>1. PICK j \in Keys : new[j] # Null /\ x \in Cells(j, new[j].size)
        BY <3>1, UnitsOfMember
      <4> QED BY <4>1, <1>2, UnitsOfMember
    <3>2. ASSUME x \in UnitsOf(es) PROVE x \in UnitsOf(new)
      <4>1. PICK j \in Keys : es[j] # Null /\ x \in Cells(j, es[j].size)
        BY <3>2, UnitsOfMember
      <4> QED BY <4>1, <1>2, UnitsOfMember
    <3>3. ASSUME x \in cells PROVE x \in UnitsOf(new)
      BY <3>3, <1>2, UnitsOfMember
    <3> QED BY <3>1, <3>2, <3>3
  <2> QED BY <2>1
<1>4. UnitsOf(es) \cap cells = {}
  <2>1. ASSUME NEW x, x \in UnitsOf(es), x \in cells PROVE FALSE
    <3>1. PICK j \in Keys : es[j] # Null /\ x \in Cells(j, es[j].size)
      BY <2>1, UnitsOfMember
    <3> QED BY <3>1, <2>1 DEF Cells
  <2> QED BY <2>1
<1>5. IsFiniteSet(cells) /\ Cardinality(cells) = e.size
  BY <1>1, CellsCardinality
<1> HIDE DEF new, cells
<1>6. /\ IsFiniteSet(UnitsOf(es) \cup cells)
      /\ Cardinality(UnitsOf(es) \cup cells) = Cardinality(UnitsOf(es)) + e.size
  <2>1. Cardinality(UnitsOf(es)) \in Nat
    BY FS_CardinalityType
  <2>2. Cardinality(UnitsOf(es) \cap cells) = 0
    BY <1>4, FS_EmptySet
  <2> QED BY <1>1, <1>5, <2>1, <2>2, FS_Union
<1> QED BY <1>3, <1>6 DEF new

\* Using an entry changes its time and no size.
LEMMA UnitsAfterUse ==
  ASSUME NEW es \in Entries, NEW k \in Keys, es[k] # Null, NEW u \in 0..MaxTime
  PROVE  LET new == [es EXCEPT ![k].lastUsed = u]
         IN new \in Entries /\ UnitsOf(new) = UnitsOf(es)
<1> DEFINE e == [es[k] EXCEPT !.lastUsed = u]
           new == [es EXCEPT ![k].lastUsed = u]
<1>1. e \in CacheEntry /\ e.size = es[k].size
  BY DEF Entries, CacheEntry
<1>2. e # Null
  BY <1>1, NullAssumption DEF CacheEntry
<1>3. new \in Entries /\ new[k] = e /\ \A j \in Keys : j # k => new[j] = es[j]
  BY <1>1 DEF Entries
<1> HIDE DEF new, e
<1>4. \A j \in Keys : /\ new[j] # Null <=> es[j] # Null
                      /\ new[j].size = es[j].size \/ es[j] = Null
  BY <1>1, <1>2, <1>3
<1>5. UnitsOf(new) = UnitsOf(es)
  BY <1>4 DEF UnitsOf
<1> QED BY <1>3, <1>5 DEF new

\* Counting one more or one less add() of an object under a key.
LEMMA CountChange ==
  ASSUME NEW f \in [Keys -> [Objects -> Int]], NEW k \in Keys, NEW x \in Objects,
         NEW n \in Int
  PROVE  LET g == [f EXCEPT ![k][x] = n]
         IN /\ g \in [Keys -> [Objects -> Int]]
            /\ \A j \in Keys, o \in Objects :
                 g[j][o] = IF j = k /\ o = x THEN n ELSE f[j][o]
OBVIOUS

-----------------------------------------------------------------------------
(* The invariant *)

\* removeEntry() unmaps one key and gives back what its entry occupied.
LEMMA RemoveEntryEffect ==
  ASSUME TypeOK, UnitsAreFinite, NEW k \in Keys, RemoveEntry(k)
  PROVE  /\ entries' \in Entries
         /\ entries'[k] = Null
         /\ \A j \in Keys : entries[j] = Null => entries'[j] = Null
         /\ UnitsAreFinite'
         /\ usedCapacity' \in Int
         /\ usedCapacity' <= usedCapacity
         /\ usedCapacity' - Cardinality(UnitsOf(entries'))
              = usedCapacity - Cardinality(UnitsOf(entries))
         /\ unreported' \in [Keys -> [Objects -> Int]]
<1> USE DEF Entries, UnitsAreFinite
<1>1. CASE entries[k] = Null
  BY <1>1 DEF TypeOK, RemoveEntry
<1>2. CASE entries[k] # Null
  <2>1. /\ entries' = [entries EXCEPT ![k] = Null]
        /\ usedCapacity' = usedCapacity - entries[k].size
        /\ unreported' = [unreported EXCEPT ![k][entries[k].object] = @ - 1]
    BY <1>2 DEF RemoveEntry, Report
  <2>2. entries[k].size \in Nat /\ usedCapacity \in Int
    BY <1>2, ConstantsAssumption DEF TypeOK, CacheEntry
  <2>3. /\ IsFiniteSet(UnitsOf(entries'))
        /\ Cardinality(UnitsOf(entries')) = Cardinality(UnitsOf(entries)) - entries[k].size
    BY <1>2, <2>1, UnitsAfterRemoval DEF TypeOK
  <2>4. Cardinality(UnitsOf(entries)) \in Nat
    BY FS_CardinalityType
  <2>5. entries' \in Entries /\ entries'[k] = Null
        /\ \A j \in Keys : entries[j] = Null => entries'[j] = Null
    BY <2>1 DEF TypeOK
  <2>6. unreported' \in [Keys -> [Objects -> Int]]
    <3>1. entries[k].object \in Objects /\ unreported \in [Keys -> [Objects -> Int]]
      BY <1>2 DEF TypeOK, CacheEntry
    <3> QED BY <2>1, <3>1, CountChange
  <2> QED BY <2>1, <2>2, <2>3, <2>4, <2>5, <2>6 DEF TypeOK
<1> QED BY <1>1, <1>2

\* A new cache, as the constructor leaves it, satisfies the invariant.
LEMMA InitIInv == Init => IInv
<1> SUFFICES ASSUME Init PROVE IInv
  OBVIOUS
<1>1. TypeOK
  <2>1. 0 \in 0..MaxTime /\ FALSE \in BOOLEAN
    BY ConstantsAssumption
  <2>2. \A t \in Threads : pc[t] = "idle" /\ "idle" \notin Pending
    BY DEF Init, Pending, Inside
  <2>3. lowered \in BOOLEAN
    BY Zenon DEF Init
  <2> QED BY <2>1, <2>2, <2>3, ConstantsAssumption DEF Init, TypeOK
<1>2. LockInv /\ KeyIsFree
  BY ConstantsAssumption DEF Init, LockInv, KeyIsFree, Inside
<1>3. UnitsOf(entries) = {}
  BY DEF Init, UnitsOf
<1>4. UnitsAreFinite /\ UsedIsTotalSize
  BY <1>3, FS_EmptySet DEF Init, UnitsAreFinite, UsedIsTotalSize, InTransit
<1>5. CapacityInv
  BY ConstantsAssumption DEF Init, CapacityInv, CallFits, Pending, Inside
<1> QED BY <1>1, <1>2, <1>4, <1>5 DEF IInv

\* Every step of add(), every other operation and every setter preserves the
\* invariant.
LEMMA NextIInv == IInv /\ [Next]_vars => IInv'
<1> SUFFICES ASSUME IInv, [Next]_vars PROVE IInv'
  OBVIOUS
<1>0. TypeOK /\ LockInv /\ KeyIsFree /\ UnitsAreFinite /\ UsedIsTotalSize /\ CapacityInv
  BY DEF IInv
<1>u. Cardinality(UnitsOf(entries)) \in Nat
  BY <1>0, FS_CardinalityType DEF UnitsAreFinite
<1>n. \A u \in Threads : pc[u] \in Pending => call[u].size \in Nat /\ call[u].cap \in Nat
  BY <1>0, ConstantsAssumption DEF TypeOK, Call
<1>1. ASSUME NEW t \in Threads, NEW k \in Keys, NEW o \in Objects, NEW s \in Sizes,
             AddReadCapacity(t, k, o, s)
      PROVE  IInv'
  <2>1. TypeOK'
    BY <1>0, <1>1, ConstantsAssumption DEF AddReadCapacity, TypeOK, Call, Pending, Inside
  <2>2. LockInv' /\ KeyIsFree'
    BY <1>0, <1>1 DEF AddReadCapacity, TypeOK, LockInv, KeyIsFree, Inside
  <2>3. UnitsAreFinite' /\ UsedIsTotalSize'
    BY <1>0, <1>1, ConstantsAssumption
    DEF AddReadCapacity, TypeOK, UnitsAreFinite, UsedIsTotalSize, InTransit, UnitsOf, LockInv, Inside
  <2>4. CapacityInv'
    BY <1>0, <1>1, ConstantsAssumption
    DEF AddReadCapacity, TypeOK, CapacityInv, CallFits, Pending, Inside
  <2> QED BY <2>1, <2>2, <2>3, <2>4 DEF IInv
<1>2. ASSUME NEW t \in Threads, AddNewEntry(t) PROVE IInv'
  <2>1. TypeOK'
    BY <1>0, <1>2 DEF AddNewEntry, NanoTime, TypeOK, Call, Pending, Inside
  <2>2. LockInv' /\ KeyIsFree'
    BY <1>0, <1>2 DEF AddNewEntry, TypeOK, LockInv, KeyIsFree, Inside
  <2>3. UnitsAreFinite' /\ UsedIsTotalSize'
    BY <1>0, <1>2, ConstantsAssumption
    DEF AddNewEntry, TypeOK, UnitsAreFinite, UsedIsTotalSize, InTransit, UnitsOf, LockInv, Inside
  <2>4. CapacityInv'
    BY <1>0, <1>2, ConstantsAssumption
    DEF AddNewEntry, TypeOK, Call, CapacityInv, CallFits, Pending, Inside
  <2> QED BY <2>1, <2>2, <2>3, <2>4 DEF IInv
<1>3. ASSUME NEW t \in Threads, AddEnter(t) PROVE IInv'
  <2>0. call[t] \in Call /\ lock' = t /\ pc'[t] \in {"makeSpace", "charge"}
    BY <1>0, <1>3 DEF AddEnter, TypeOK, Pending
  <2>1. /\ entries' \in Entries
        /\ entries'[call[t].key] = Null
        /\ UnitsAreFinite'
        /\ usedCapacity' \in Int
        /\ usedCapacity' <= usedCapacity
        /\ usedCapacity' - Cardinality(UnitsOf(entries'))
             = usedCapacity - Cardinality(UnitsOf(entries))
        /\ unreported' \in [Keys -> [Objects -> Int]]
    BY <1>0, <1>3, <2>0, RemoveEntryEffect DEF AddEnter, Call
  <2>2. \A u \in Threads : pc[u] \notin Inside
    BY <1>0, <1>3, ConstantsAssumption DEF AddEnter, LockInv
  <2>3. TypeOK'
    BY <1>0, <1>3, <2>1 DEF AddEnter, TypeOK, Entries, Pending, Inside
  <2>4. LockInv' /\ KeyIsFree'
    BY <1>0, <1>3, <2>1, <2>2 DEF AddEnter, TypeOK, LockInv, KeyIsFree, Inside
  <2>5. UsedIsTotalSize'
    <3>1. InTransit = 0 /\ InTransit' = 0
      BY <1>0, <1>3, <2>0, ConstantsAssumption DEF AddEnter, TypeOK, InTransit
    <3>2. Cardinality(UnitsOf(entries')) \in Nat
      BY <2>1, FS_CardinalityType DEF UnitsAreFinite
    <3> QED BY <1>0, <1>u, <2>1, <3>1, <3>2 DEF UsedIsTotalSize, TypeOK
  <2>6. CapacityInv'
    <3> SUFFICES ASSUME ~lowered', NEW u \in Threads
                 PROVE  usedCapacity' <= capacity' /\ CallFits(u)'
      BY DEF CapacityInv
    <3>1. usedCapacity <= capacity /\ CallFits(u) /\ CallFits(t)
      BY <1>0, <1>3 DEF AddEnter, CapacityInv
    <3>2. usedCapacity \in Int /\ capacity \in Nat
      BY <1>0 DEF TypeOK
    <3> QED
      BY <1>0, <1>3, <1>n, <2>0, <2>1, <2>2, <3>1, <3>2
      DEF AddEnter, TypeOK, CallFits, Pending, Inside
  <2> QED BY <2>1, <2>3, <2>4, <2>5, <2>6 DEF IInv
<1>4. ASSUME NEW t \in Threads, MakeSpace(t) PROVE IInv'
  <2>1. TypeOK'
    BY <1>0, <1>4 DEF MakeSpace, TypeOK, Pending, Inside
  <2>2. LockInv' /\ KeyIsFree'
    BY <1>0, <1>4 DEF MakeSpace, TypeOK, LockInv, KeyIsFree, Inside
  <2>3. UnitsAreFinite' /\ UsedIsTotalSize'
    BY <1>0, <1>4, ConstantsAssumption
    DEF MakeSpace, TypeOK, UnitsAreFinite, UsedIsTotalSize, InTransit, UnitsOf, LockInv, Inside
  <2>4. CapacityInv'
    <3> SUFFICES ASSUME ~lowered', NEW u \in Threads
                 PROVE  usedCapacity' <= capacity' /\ CallFits(u)'
      BY DEF CapacityInv
    <3>1. usedCapacity <= capacity /\ CallFits(u) /\ CallFits(t)
      BY <1>0, <1>4 DEF MakeSpace, CapacityInv
    <3>2. usedCapacity \in Int /\ capacity \in Nat
      BY <1>0 DEF TypeOK
    <3> QED
      BY <1>0, <1>4, <1>n, <3>1, <3>2
      DEF MakeSpace, TypeOK, CallFits, Pending, Inside
  <2> QED BY <2>1, <2>2, <2>3, <2>4 DEF IInv
<1>5. ASSUME NEW t \in Threads, Evict(t) PROVE IInv'
  <2>0. PICK k \in Keys : RemoveEntry(k)
    BY <1>5 DEF Evict, LeastRecentlyUsed, CachedKeys
  <2>1. /\ entries' \in Entries
        /\ \A j \in Keys : entries[j] = Null => entries'[j] = Null
        /\ UnitsAreFinite'
        /\ usedCapacity' \in Int
        /\ usedCapacity' <= usedCapacity
        /\ usedCapacity' - Cardinality(UnitsOf(entries'))
             = usedCapacity - Cardinality(UnitsOf(entries))
        /\ unreported' \in [Keys -> [Objects -> Int]]
    BY <1>0, <2>0, RemoveEntryEffect
  <2>2. TypeOK'
    BY <1>0, <1>5, <2>1 DEF Evict, TypeOK, Entries
  <2>3. LockInv' /\ KeyIsFree'
    BY <1>0, <1>5, <2>1 DEF Evict, TypeOK, Call, LockInv, KeyIsFree, Pending
  <2>4. UsedIsTotalSize'
    <3>1. InTransit = 0 /\ InTransit' = 0
      BY <1>0, <1>5, ConstantsAssumption DEF Evict, TypeOK, InTransit, LockInv, Inside
    <3>2. Cardinality(UnitsOf(entries')) \in Nat
      BY <2>1, FS_CardinalityType DEF UnitsAreFinite
    <3> QED BY <1>0, <1>u, <2>1, <3>1, <3>2 DEF UsedIsTotalSize, TypeOK
  <2>5. CapacityInv'
    <3> SUFFICES ASSUME ~lowered', NEW u \in Threads
                 PROVE  usedCapacity' <= capacity' /\ CallFits(u)'
      BY DEF CapacityInv
    <3>1. usedCapacity <= capacity /\ CallFits(u) /\ CallFits(t)
      BY <1>0, <1>5 DEF Evict, CapacityInv
    <3>2. usedCapacity \in Int /\ capacity \in Nat
      BY <1>0 DEF TypeOK
    <3> QED
      BY <1>0, <1>5, <1>n, <2>1, <3>1, <3>2
      DEF Evict, TypeOK, CallFits, Pending, Inside
  <2> QED BY <2>1, <2>2, <2>3, <2>4, <2>5 DEF IInv
<1>6. ASSUME NEW t \in Threads, EvictDone(t) PROVE IInv'
  <2>1. TypeOK'
    BY <1>0, <1>6 DEF EvictDone, TypeOK, Pending, Inside
  <2>2. LockInv' /\ KeyIsFree'
    BY <1>0, <1>6 DEF EvictDone, TypeOK, LockInv, KeyIsFree, Inside
  <2>3. UnitsAreFinite' /\ UsedIsTotalSize'
    BY <1>0, <1>6, ConstantsAssumption
    DEF EvictDone, TypeOK, UnitsAreFinite, UsedIsTotalSize, InTransit, UnitsOf, LockInv, Inside
  <2>4. CapacityInv'
    <3> SUFFICES ASSUME ~lowered', NEW u \in Threads
                 PROVE  usedCapacity' <= capacity' /\ CallFits(u)'
      BY DEF CapacityInv
    <3>1. usedCapacity <= capacity /\ CallFits(u) /\ CallFits(t)
      BY <1>0, <1>6 DEF EvictDone, CapacityInv
    <3>2. usedCapacity \in Int /\ capacity \in Nat
      BY <1>0 DEF TypeOK
    <3> QED
      BY <1>0, <1>6, <1>n, <3>1, <3>2
      DEF EvictDone, NeedsSpace, FreeCapacity, TypeOK, CallFits, Pending, Inside
  <2> QED BY <2>1, <2>2, <2>3, <2>4 DEF IInv
<1>7. ASSUME NEW t \in Threads, AddCharge(t) PROVE IInv'
  <2>0. call[t] \in Call /\ call[t].size \in Nat /\ lock = t
    BY <1>0, <1>7, ConstantsAssumption DEF AddCharge, TypeOK, Call, Pending, Inside, LockInv
  <2>1. TypeOK'
    BY <1>0, <1>7, <2>0 DEF AddCharge, TypeOK, Pending, Inside
  <2>2. LockInv' /\ KeyIsFree'
    BY <1>0, <1>7 DEF AddCharge, TypeOK, LockInv, KeyIsFree, Inside
  <2>3. UnitsAreFinite' /\ UsedIsTotalSize'
    <3>1. InTransit = 0 /\ InTransit' = call[t].size
      BY <1>0, <1>7, <2>0, ConstantsAssumption DEF AddCharge, TypeOK, InTransit
    <3> QED BY <1>0, <1>7, <1>u, <2>0, <3>1
            DEF AddCharge, TypeOK, UnitsAreFinite, UsedIsTotalSize, UnitsOf
  <2>4. CapacityInv'
    <3>1. \A u \in Threads : u # t => pc[u] \notin Inside
      BY <1>0, <2>0 DEF LockInv
    <3> QED BY <1>0, <1>7, <2>0, <3>1
            DEF AddCharge, TypeOK, Call, CapacityInv, CallFits, Pending, Inside
  <2> QED BY <2>1, <2>2, <2>3, <2>4 DEF IInv
<1>8. ASSUME NEW t \in Threads, AddStore(t) PROVE IInv'
  <2> DEFINE k == call[t].key
             e == [object |-> call[t].object, size |-> call[t].size,
                   lastUsed |-> call[t].lastUsed]
  <2>0. /\ call[t] \in Call /\ lock = t /\ k \in Keys
        /\ entries[k] = Null
        /\ e \in CacheEntry /\ e.size = call[t].size /\ e.size \in Nat
    BY <1>0, <1>8, ConstantsAssumption
    DEF AddStore, TypeOK, Call, CacheEntry, Pending, Inside, LockInv, KeyIsFree
  <2>1. e # Null
    BY <2>0, NullAssumption DEF Call
  <2>2. entries' = [entries EXCEPT ![k] = e] /\ lock' = NoThread
    BY <1>8, <2>0 DEF AddStore
  <2>3. TypeOK'
    <3>1. unreported' \in [Keys -> [Objects -> Int]]
      <4>1. /\ call[t].object \in Objects /\ call[t].key \in Keys
            /\ unreported \in [Keys -> [Objects -> Int]]
        BY <1>0, <2>0 DEF TypeOK, Call
      <4> QED BY <1>8, <4>1, CountChange DEF AddStore
    <3> QED BY <1>0, <1>8, <2>0, <2>2, <3>1 DEF AddStore, TypeOK, Pending, Inside
  <2>4. \A u \in Threads : u # t => pc[u] \notin Inside
    BY <1>0, <2>0 DEF LockInv
  <2>5. LockInv' /\ KeyIsFree'
    BY <1>0, <1>8, <2>4, ConstantsAssumption DEF AddStore, TypeOK, LockInv, KeyIsFree, Inside
  <2>6. /\ IsFiniteSet(UnitsOf(entries'))
        /\ Cardinality(UnitsOf(entries')) = Cardinality(UnitsOf(entries)) + call[t].size
    <3> HIDE DEF e, k
    <3> QED BY <1>0, <2>0, <2>1, <2>2, UnitsAfterStore DEF TypeOK, Entries, UnitsAreFinite
  <2>7. UnitsAreFinite' /\ UsedIsTotalSize'
    <3>1. InTransit = call[t].size /\ InTransit' = 0
      BY <1>0, <1>8, <2>0, ConstantsAssumption DEF AddStore, InTransit
    <3> QED BY <1>0, <1>8, <1>u, <2>0, <2>6, <3>1
            DEF AddStore, TypeOK, UnitsAreFinite, UsedIsTotalSize
  <2>8. CapacityInv'
    BY <1>0, <1>8, <2>4 DEF AddStore, TypeOK, CapacityInv, CallFits, Pending, Inside
  <2> QED BY <2>3, <2>5, <2>7, <2>8 DEF IInv
<1>9. ASSUME NEW k \in Keys, Remove(k) PROVE IInv'
  <2>1. /\ entries' \in Entries
        /\ UnitsAreFinite'
        /\ usedCapacity' \in Int
        /\ usedCapacity' <= usedCapacity
        /\ usedCapacity' - Cardinality(UnitsOf(entries'))
             = usedCapacity - Cardinality(UnitsOf(entries))
        /\ unreported' \in [Keys -> [Objects -> Int]]
    BY <1>0, <1>9, RemoveEntryEffect DEF Remove
  <2>2. \A u \in Threads : pc[u] \notin Inside
    BY <1>0, <1>9, ConstantsAssumption DEF Remove, LockInv
  <2>3. TypeOK'
    BY <1>0, <1>9, <2>1 DEF Remove, TypeOK, Entries
  <2>4. LockInv' /\ KeyIsFree'
    BY <1>0, <1>9, <2>2 DEF Remove, LockInv, KeyIsFree
  <2>5. UsedIsTotalSize'
    <3>1. InTransit = 0 /\ InTransit' = 0
      BY <1>9 DEF Remove, InTransit
    <3>2. Cardinality(UnitsOf(entries')) \in Nat
      BY <2>1, FS_CardinalityType DEF UnitsAreFinite
    <3> QED BY <1>0, <1>u, <2>1, <3>1, <3>2 DEF UsedIsTotalSize, TypeOK
  <2>6. CapacityInv'
    BY <1>0, <1>9, <2>1, <2>2 DEF Remove, TypeOK, CapacityInv, CallFits, Inside
  <2> QED BY <2>1, <2>3, <2>4, <2>5, <2>6 DEF IInv
<1>10. ASSUME NEW k \in Keys, GetObject(k) PROVE IInv'
  <2>1. time' \in 0..MaxTime
    BY <1>10 DEF GetObject, NanoTime
  <2>2. entries' \in Entries /\ UnitsOf(entries') = UnitsOf(entries)
    BY <1>0, <1>10, <2>1, UnitsAfterUse DEF GetObject, TypeOK, Entries
  <2>3. \A u \in Threads : pc[u] \notin Inside
    BY <1>0, <1>10, ConstantsAssumption DEF GetObject, LockInv
  <2>4. TypeOK'
    BY <1>0, <1>10, <2>1, <2>2 DEF GetObject, TypeOK, Entries
  <2>5. LockInv' /\ KeyIsFree'
    BY <1>0, <1>10, <2>3 DEF GetObject, LockInv, KeyIsFree
  <2>6. UnitsAreFinite' /\ UsedIsTotalSize'
    BY <1>0, <1>10, <2>2 DEF GetObject, UnitsAreFinite, UsedIsTotalSize, InTransit
  <2>7. CapacityInv'
    BY <1>0, <1>10 DEF GetObject, TypeOK, CapacityInv, CallFits
  <2> QED BY <2>4, <2>5, <2>6, <2>7 DEF IInv
<1>11. ASSUME Clear PROVE IInv'
  <2>1. /\ entries' \in Entries
        /\ UnitsOf(entries') = {}
        /\ InTransit = 0 /\ InTransit' = 0
    BY <1>11 DEF Clear, Entries, UnitsOf, InTransit
  <2>2. usedCapacity' = 0 /\ usedCapacity' <= usedCapacity
    BY <1>0, <1>11, <1>u, <2>1 DEF Clear, UsedIsTotalSize
  <2>3. \A u \in Threads : pc[u] \notin Inside
    BY <1>0, <1>11, ConstantsAssumption DEF Clear, LockInv
  <2>4. TypeOK'
    BY <1>0, <1>11, <2>1, <2>2 DEF Clear, TypeOK, Entries
  <2>5. LockInv' /\ KeyIsFree'
    BY <1>0, <1>11, <2>3 DEF Clear, LockInv, KeyIsFree
  <2>6. UnitsAreFinite' /\ UsedIsTotalSize'
    BY <2>1, <2>2, FS_EmptySet DEF UnitsAreFinite, UsedIsTotalSize
  <2>7. CapacityInv'
    BY <1>0, <1>11, <2>2, <2>3 DEF Clear, TypeOK, CapacityInv, CallFits, Inside
  <2> QED BY <2>4, <2>5, <2>6, <2>7 DEF IInv
<1>12. ASSUME NEW c \in Capacities, SetCapacity(c) PROVE IInv'
  <2>1. TypeOK'
    BY <1>0, <1>12, ConstantsAssumption DEF SetCapacity, TypeOK
  <2>2. LockInv' /\ KeyIsFree'
    BY <1>0, <1>12 DEF SetCapacity, LockInv, KeyIsFree
  <2>3. UnitsAreFinite' /\ UsedIsTotalSize'
    BY <1>0, <1>12 DEF SetCapacity, UnitsAreFinite, UsedIsTotalSize, InTransit, UnitsOf
  <2>4. CapacityInv'
    <3> SUFFICES ASSUME ~lowered'
                 PROVE  usedCapacity' <= capacity' /\ \A u \in Threads : CallFits(u)'
      BY DEF CapacityInv
    <3>1. ~lowered /\ ~(c < capacity)
      BY <1>12, Zenon DEF SetCapacity
    <3>2. /\ capacity \in Nat /\ capacity' \in Nat /\ usedCapacity \in Int
          /\ capacity <= capacity'
      BY <1>0, <1>12, <3>1, ConstantsAssumption DEF SetCapacity, TypeOK
    <3>3. usedCapacity <= capacity /\ \A u \in Threads : CallFits(u)
      BY <1>0, <3>1 DEF CapacityInv
    <3> QED BY <1>12, <1>n, <3>2, <3>3 DEF SetCapacity, CallFits, Pending, Inside
  <2> QED BY <2>1, <2>2, <2>3, <2>4 DEF IInv
<1>13. ASSUME NEW w \in LowWaters, SetLowWater(w) PROVE IInv'
  <2>1. TypeOK'
    BY <1>0, <1>13, ConstantsAssumption DEF SetLowWater, TypeOK
  <2>2. LockInv' /\ KeyIsFree' /\ UnitsAreFinite' /\ UsedIsTotalSize' /\ CapacityInv'
    BY <1>0, <1>13
    DEF SetLowWater, LockInv, KeyIsFree, UnitsAreFinite, UsedIsTotalSize, InTransit,
        UnitsOf, CapacityInv, CallFits
  <2> QED BY <2>1, <2>2 DEF IInv
<1>14. CASE UNCHANGED vars
  BY <1>0, <1>14
  DEF vars, IInv, TypeOK, LockInv, KeyIsFree, UnitsAreFinite, UsedIsTotalSize,
      InTransit, UnitsOf, CapacityInv, CallFits
<1>15. ASSUME NEW a \in Additions
       PROVE  a[1] \in Keys /\ a[2] \in Objects /\ a[3] \in Sizes
  BY ConstantsAssumption
<1> QED
  BY <1>1, <1>2, <1>3, <1>4, <1>5, <1>6, <1>7, <1>8, <1>9, <1>10, <1>11, <1>12,
     <1>13, <1>14, <1>15 DEF Next, Add, InsideStep

-----------------------------------------------------------------------------
(* What the listeners hear of *)

\* removeEntry() takes one entry out and reports its object once; whatever else
\* is cached or counted stays.
LEMMA RemovalIsReported ==
  ASSUME TypeOK, OneReportPerAdd, NEW k \in Keys, RemoveEntry(k)
  PROVE  OneReportPerAdd'
<1>1. CASE entries[k] = Null
  BY <1>1 DEF RemoveEntry, OneReportPerAdd, CachedAs
<1>2. CASE entries[k] # Null
  <2>1. /\ entries' = [entries EXCEPT ![k] = Null]
        /\ unreported' = [unreported EXCEPT ![k][entries[k].object] = @ - 1]
    BY <1>2 DEF RemoveEntry, Report
  <2>2. entries[k].object \in Objects
    BY <1>2 DEF TypeOK, CacheEntry
  <2>3. ASSUME NEW j \in Keys, NEW o \in Objects, j # k
        PROVE  unreported'[j][o] = IF CachedAs(o, j)' THEN 1 ELSE 0
    BY <2>1, <2>3 DEF TypeOK, OneReportPerAdd, CachedAs
  <2>4. ASSUME NEW o \in Objects
        PROVE  unreported'[k][o] = 0 /\ ~CachedAs(o, k)'
    BY <1>2, <2>1, <2>2 DEF TypeOK, OneReportPerAdd, CachedAs
  <2> QED BY <2>3, <2>4 DEF OneReportPerAdd
<1> QED BY <1>1, <1>2

\* A step that leaves the objects under their keys and reports nothing.
LEMMA NothingToReport ==
  ASSUME OneReportPerAdd, UNCHANGED unreported,
         \A o \in Objects, k \in Keys : CachedAs(o, k)' <=> CachedAs(o, k)
  PROVE  OneReportPerAdd'
BY DEF OneReportPerAdd

\* Every operation that takes an object out of the cache reports it, and add()
\* stores what it has promised to: the key it adds is free, so the one report due
\* for it is the one its entry will cause.
LEMMA NextReports == IInv /\ OneReportPerAdd /\ [Next]_vars => OneReportPerAdd'
<1> SUFFICES ASSUME IInv, OneReportPerAdd, [Next]_vars PROVE OneReportPerAdd'
  OBVIOUS
<1>0. TypeOK /\ KeyIsFree
  BY DEF IInv
<1>1. ASSUME UNCHANGED <<entries, unreported>> PROVE OneReportPerAdd'
  BY <1>1, NothingToReport DEF CachedAs
<1>2. ASSUME NEW t \in Threads, AddEnter(t) PROVE OneReportPerAdd'
  <2>1. call[t].key \in Keys /\ RemoveEntry(call[t].key)
    BY <1>0, <1>2 DEF AddEnter, TypeOK, Call, Pending
  <2> QED BY <1>0, <2>1, RemovalIsReported
<1>3. ASSUME NEW t \in Threads, Evict(t) PROVE OneReportPerAdd'
  <2>1. PICK k \in Keys : RemoveEntry(k)
    BY <1>3 DEF Evict, LeastRecentlyUsed, CachedKeys
  <2> QED BY <1>0, <2>1, RemovalIsReported
<1>4. ASSUME NEW t \in Threads, AddStore(t) PROVE OneReportPerAdd'
  <2> DEFINE k == call[t].key
             x == call[t].object
             e == [object |-> x, size |-> call[t].size, lastUsed |-> call[t].lastUsed]
  <2>0. call[t] \in Call /\ k \in Keys /\ x \in Objects /\ entries[k] = Null
    BY <1>0, <1>4 DEF AddStore, TypeOK, Call, Pending, Inside, KeyIsFree
  <2>1. e # Null
    BY <2>0, NullAssumption DEF Call
  <2>2. entries'[k] = e /\ \A j \in Keys : j # k => entries'[j] = entries[j]
    BY <1>0, <1>4, <2>0 DEF AddStore, TypeOK
  <2>3. unreported' = [unreported EXCEPT ![k][x] = @ + 1]
    BY <1>4 DEF AddStore
  <2>4. e.object = x
    OBVIOUS
  <2> HIDE DEF k, x, e
  <2>5. \A j \in Keys, o \in Objects :
          unreported'[j][o] = IF j = k /\ o = x THEN unreported[j][o] + 1
                              ELSE unreported[j][o]
    BY <1>0, <2>0, <2>3, CountChange DEF TypeOK
  <2> SUFFICES ASSUME NEW j \in Keys, NEW o \in Objects
               PROVE  unreported'[j][o] = IF CachedAs(o, j)' THEN 1 ELSE 0
    BY DEF OneReportPerAdd
  <2>6. unreported[j][o] = IF CachedAs(o, j) THEN 1 ELSE 0
    BY DEF OneReportPerAdd
  <2>7. CachedAs(o, j)' <=> IF j = k THEN o = x ELSE CachedAs(o, j)
    BY <2>1, <2>2, <2>4 DEF CachedAs
  <2>8. j = k => ~CachedAs(o, j)
    BY <2>0 DEF CachedAs
  <2> QED BY <2>5, <2>6, <2>7, <2>8
<1>5. ASSUME NEW k \in Keys, Remove(k) PROVE OneReportPerAdd'
  BY <1>0, <1>5, RemovalIsReported DEF Remove
<1>6. ASSUME NEW k \in Keys, GetObject(k) PROVE OneReportPerAdd'
  <2>1. /\ entries[k] \in CacheEntry /\ entries[k] # Null /\ time' \in 0..MaxTime
        /\ entries'[k] = [entries[k] EXCEPT !.lastUsed = time']
        /\ \A j \in Keys : j # k => entries'[j] = entries[j]
    BY <1>0, <1>6 DEF GetObject, NanoTime, TypeOK
  <2>2. entries'[k] \in CacheEntry /\ entries'[k].object = entries[k].object
    BY <2>1 DEF CacheEntry
  <2>3. entries'[k] # Null
    BY <2>2, NullAssumption DEF CacheEntry
  <2>4. \A o \in Objects, j \in Keys : CachedAs(o, j)' <=> CachedAs(o, j)
    BY <2>1, <2>2, <2>3 DEF CachedAs
  <2> QED BY <1>6, <2>4, NothingToReport DEF GetObject
<1>7. ASSUME Clear PROVE OneReportPerAdd'
  <2>1. \A k \in Keys, o \in Objects : ~CachedAs(o, k)'
    BY <1>7 DEF Clear, CachedAs
  <2>2. \A k \in Keys, o \in Objects :
          unreported'[k][o] = unreported[k][o] - (IF CachedAs(o, k) THEN 1 ELSE 0)
    BY <1>7 DEF Clear
  <2> QED BY <2>1, <2>2 DEF OneReportPerAdd
<1>8. ASSUME NEW t \in Threads, MakeSpace(t) \/ EvictDone(t) \/ AddCharge(t)
      PROVE  OneReportPerAdd'
  BY <1>1, <1>8 DEF MakeSpace, EvictDone, AddCharge
<1>9. ASSUME NEW t \in Threads, NEW a \in Additions,
             AddReadCapacity(t, a[1], a[2], a[3])
      PROVE  OneReportPerAdd'
  BY <1>1, <1>9 DEF AddReadCapacity
<1>10. ASSUME NEW t \in Threads, AddNewEntry(t) PROVE OneReportPerAdd'
  BY <1>1, <1>10 DEF AddNewEntry
<1>11. ASSUME NEW c \in Capacities, SetCapacity(c) PROVE OneReportPerAdd'
  BY <1>1, <1>11 DEF SetCapacity
<1>12. ASSUME NEW w \in LowWaters, SetLowWater(w) PROVE OneReportPerAdd'
  BY <1>1, <1>12 DEF SetLowWater
<1>13. CASE UNCHANGED vars
  BY <1>1, <1>13 DEF vars
<1> QED
  BY <1>2, <1>3, <1>4, <1>5, <1>6, <1>7, <1>8, <1>9, <1>10, <1>11, <1>12, <1>13
  DEF Next, Add, InsideStep

-----------------------------------------------------------------------------
(* The theorems *)

\* The inductive invariant of the cache holds in every reachable state: the lock
\* has one owner, the key being added is free, and the accounts are right.
THEOREM Invariance == Spec => []IInv
BY InitIInv, NextIInv, PTL DEF Spec

\* Every reachable state of the cache is well typed; in particular the low water
\* level is never negative, whatever applications pass to setLowWater().
THEOREM TypeCorrect == Spec => []TypeOK
<1>1. IInv => TypeOK
  BY DEF IInv
<1> QED BY <1>1, Invariance, PTL

\* currentUsedCapacity is the total size of the entries, for any number of
\* threads adding, replacing, evicting, removing and clearing.
THEOREM Accounting == Spec => []UsedIsTotalSize
<1>1. IInv => UsedIsTotalSize
  BY DEF IInv
<1> QED BY <1>1, Invariance, PTL

\* A cache whose capacity is never lowered never exceeds it, although add()
\* decides with a capacity it read before it took the lock.
THEOREM CapacityRespected == Spec => []WithinCapacity
<1>1. IInv => WithinCapacity
  BY DEF IInv, CapacityInv, WithinCapacity
<1> QED BY <1>1, Invariance, PTL

\* The listeners hear of an object exactly once for every add() of it that returned
\* true and whose entry is no longer cached, for any number of threads adding the
\* same or other objects, replacing, evicting, removing and clearing.
THEOREM EveryAddIsReportedOnce == Spec => []OneReportPerAdd
<1>1. Init => OneReportPerAdd
  BY DEF Init, OneReportPerAdd, CachedAs
<1> QED BY <1>1, NextReports, Invariance, PTL DEF Spec

\* makeSpace()'s loop, whose condition reads the capacity and the low water level
\* anew on every turn, can stay without an entry to evict only when its object is
\* larger than the present capacity, for any threads, sizes and settings.
THEOREM LoopIsStuckOnlyIfTooLarge == Spec => []StuckOnlyIfTooLarge
<1>1. IInv => StuckOnlyIfTooLarge
  <2> SUFFICES ASSUME IInv, NEW t \in Threads,
                      pc[t] = "evict", NeedsSpace(t), CachedKeys = {}
               PROVE  call[t].size > capacity
    BY DEF StuckOnlyIfTooLarge
  <2>0. TypeOK /\ LockInv /\ UsedIsTotalSize
    BY DEF IInv
  <2>1. UnitsOf(entries) = {}
    BY DEF CachedKeys, UnitsOf
  <2>2. lock = t
    BY <2>0 DEF LockInv, Inside
  <2>3. InTransit = 0
    BY <2>2 DEF InTransit
  <2>4. usedCapacity = 0
    BY <2>0, <2>1, <2>3, FS_EmptySet DEF UsedIsTotalSize
  <2>5. call[t].size \in Nat
    BY <2>0, ConstantsAssumption DEF TypeOK, Pending, Inside, Call
  <2>6. capacity \in Nat /\ lowWater \in Nat
    BY <2>0 DEF TypeOK
  <2> QED BY <2>4, <2>5, <2>6 DEF NeedsSpace, FreeCapacity
<1> QED BY <1>1, Invariance, PTL
=============================================================================
