----------------------- MODULE AbsentResourcesProofs -----------------------
(***************************************************************************)
(* What AbsentResourceList promises for any number of resources and        *)
(* clients, any capacity and any settings: it never outgrows its capacity, *)
(* nobody tries again too early a resource it remembers, and the tries of  *)
(* a resource are bounded by the limit and the number of threads.          *)
(***************************************************************************)
EXTENDS AbsentResources, FiniteSetTheorems, FunctionTheorems, SequenceTheorems, TLAPS

-----------------------------------------------------------------------------
(* Sequences without duplicates *)

Elements(s) == {s[i] : i \in DOMAIN s}
Once(s) == \A i, j \in DOMAIN s : s[i] = s[j] => i = j

\* The positions and the elements of a list of resources.
LEMMA Positions ==
  ASSUME NEW s \in Seq(Resources)
  PROVE  /\ Len(s) \in Nat
         /\ DOMAIN s = 1..Len(s)
         /\ \A i \in 1..Len(s) : s[i] \in Resources
         /\ Elements(s) \subseteq Resources
<1>1. Len(s) \in Nat /\ DOMAIN s = 1..Len(s) /\ \A i \in 1..Len(s) : s[i] \in Resources
  BY LenProperties
<1> QED BY <1>1 DEF Elements

\* A list without duplicates has as many elements as positions.
LEMMA OnceCardinality ==
  ASSUME NEW s \in Seq(Resources), Once(s)
  PROVE  Cardinality(Elements(s)) = Len(s)
<1>1. Len(s) \in Nat /\ DOMAIN s = 1..Len(s)
  BY Positions
<1>2. IsFiniteSet(1..Len(s)) /\ Cardinality(1..Len(s)) = Len(s)
  BY <1>1, FS_Interval
<1> DEFINE f == [i \in 1..Len(s) |-> s[i]]
<1>3. f \in Bijection(1..Len(s), Elements(s))
  BY <1>1 DEF Once, Elements, Bijection, Injection, Surjection, IsInjective
<1>4. ExistsBijection(1..Len(s), Elements(s))
  BY <1>3 DEF ExistsBijection
<1> QED BY <1>2, <1>4, FS_Bijection

\* A new entry goes to the end.
LEMMA OnceAppend ==
  ASSUME NEW s \in Seq(Resources), Once(s), NEW r \in Resources, r \notin Elements(s)
  PROVE  /\ Append(s, r) \in Seq(Resources)
         /\ Len(Append(s, r)) = Len(s) + 1
         /\ Elements(Append(s, r)) = Elements(s) \cup {r}
         /\ Once(Append(s, r))
<1> DEFINE a == Append(s, r)
<1>1. /\ a \in Seq(Resources)
      /\ Len(a) = Len(s) + 1
      /\ \A i \in 1..Len(s) : a[i] = s[i]
      /\ a[Len(s) + 1] = r
  BY AppendProperties
<1>2. Len(s) \in Nat /\ DOMAIN s = 1..Len(s) /\ DOMAIN a = 1..(Len(s) + 1)
  BY <1>1, Positions
<1> HIDE DEF a
<1>3. Elements(a) = Elements(s) \cup {r}
  <2>1. Elements(a) \subseteq Elements(s) \cup {r}
    BY <1>1, <1>2 DEF Elements
  <2>2. ASSUME NEW i \in DOMAIN s PROVE s[i] \in Elements(a)
    BY <1>1, <1>2 DEF Elements
  <2>3. r \in Elements(a)
    BY <1>1, <1>2 DEF Elements
  <2> QED BY <2>1, <2>2, <2>3 DEF Elements
<1>4. Once(a)
  <2>1. \A i \in 1..Len(s) : s[i] # r
    BY <1>2 DEF Elements
  <2>2. \A i \in 1..(Len(s) + 1) : i \in 1..Len(s) \/ i = Len(s) + 1
    BY <1>2
  <2>3. \A i, j \in 1..Len(s) : s[i] = s[j] => i = j
    BY <1>2 DEF Once
  <2> QED BY <1>1, <1>2, <2>1, <2>2, <2>3 DEF Once
<1> QED BY <1>1, <1>3, <1>4 DEF a

\* Taking the element at position p out of a list without duplicates.
LEMMA OnceRemove ==
  ASSUME NEW s \in Seq(Resources), Once(s), NEW p \in DOMAIN s,
         NEW q \in Seq(Resources), Len(q) = Len(s) - 1,
         \A i \in 1..(Len(s) - 1) : q[i] = s[IF i < p THEN i ELSE i + 1]
  PROVE  Elements(q) = Elements(s) \ {s[p]} /\ Once(q)
<1>1. Len(s) \in Nat /\ DOMAIN s = 1..Len(s) /\ DOMAIN q = 1..(Len(s) - 1) /\ p \in 1..Len(s)
  BY Positions
<1> DEFINE from(i) == IF i < p THEN i ELSE i + 1
<1>2. \A i \in DOMAIN q : from(i) \in DOMAIN s /\ from(i) # p /\ q[i] = s[from(i)]
  BY <1>1
<1>3. \A i, j \in DOMAIN q : from(i) = from(j) => i = j
  BY <1>1
<1>4. \A k \in DOMAIN s : k # p => \E i \in DOMAIN q : from(i) = k
  <2> SUFFICES ASSUME NEW k \in DOMAIN s, k # p PROVE \E i \in DOMAIN q : from(i) = k
    OBVIOUS
  <2>1. CASE k < p
    <3>1. k \in DOMAIN q /\ from(k) = k
      BY <1>1, <2>1
    <3> QED BY <3>1
  <2>2. CASE k > p
    <3>1. k - 1 \in DOMAIN q /\ from(k - 1) = k
      BY <1>1, <2>2
    <3> QED BY <3>1
  <2> QED BY <1>1, <2>1, <2>2
<1> HIDE DEF from
<1>5. Once(q)
  BY <1>2, <1>3 DEF Once
<1>6. Elements(q) \subseteq Elements(s) \ {s[p]}
  BY <1>2 DEF Elements, Once
<1>7. Elements(s) \ {s[p]} \subseteq Elements(q)
  <2> SUFFICES ASSUME NEW k \in DOMAIN s, s[k] # s[p] PROVE s[k] \in Elements(q)
    BY DEF Elements
  <2>1. PICK i \in DOMAIN q : from(i) = k
    BY <1>4
  <2> QED BY <1>2, <2>1 DEF Elements
<1> QED BY <1>5, <1>6, <1>7

\* unmarkResourceAbsent() and an expired entry: one resource leaves the list.
LEMMA WithoutEffect ==
  ASSUME order \in Seq(Resources), ListedOnce, NEW r
  PROVE  /\ Without(r) \in Seq(Resources)
         /\ Len(Without(r)) <= Len(order)
         /\ Elements(Without(r)) = Listed \ {r}
         /\ Once(Without(r))
<1>0. Listed = Elements(order) /\ Once(order)
  BY DEF Listed, Elements, ListedOnce, Once
<1>1. Len(order) \in Nat /\ DOMAIN order = 1..Len(order)
  BY Positions
<1>2. CASE r \notin Listed
  BY <1>0, <1>1, <1>2 DEF Without
<1>3. CASE r \in Listed
  <2> DEFINE p == CHOOSE i \in DOMAIN order : order[i] = r
             q == [i \in 1..(Len(order) - 1) |-> order[IF i < p THEN i ELSE i + 1]]
  <2>1. p \in DOMAIN order /\ order[p] = r
    BY <1>3 DEF Listed
  <2>2. Without(r) = q
    BY <1>3 DEF Without
  <2> HIDE DEF p
  <2>3. Len(order) - 1 \in Nat
    BY <1>1, <2>1
  <2>4. \A i \in 1..(Len(order) - 1) : order[IF i < p THEN i ELSE i + 1] \in Resources
    BY <1>1, <2>1, Positions
  <2>5. q \in [1..(Len(order) - 1) -> Resources]
    BY <2>4
  <2>6. q \in Seq(Resources) /\ Len(q) = Len(order) - 1
    BY <2>3, <2>5
  <2>7. \A i \in 1..(Len(order) - 1) : q[i] = order[IF i < p THEN i ELSE i + 1]
    OBVIOUS
  <2> HIDE DEF q
  <2>8. Elements(q) = Elements(order) \ {order[p]} /\ Once(q)
    BY <1>0, <2>1, <2>6, <2>7, OnceRemove
  <2> QED BY <1>0, <1>1, <2>1, <2>2, <2>6, <2>8
<1> QED BY <1>2, <1>3

\* BoundedHashMap ejects its eldest entry.
LEMMA TailEffect ==
  ASSUME NEW s \in Seq(Resources), Once(s), s # << >>
  PROVE  /\ Tail(s) \in Seq(Resources)
         /\ Len(Tail(s)) = Len(s) - 1
         /\ Head(s) \in Elements(s)
         /\ Elements(Tail(s)) = Elements(s) \ {Head(s)}
         /\ Once(Tail(s))
<1>1. /\ Tail(s) \in Seq(Resources)
      /\ Len(Tail(s)) = Len(s) - 1
      /\ \A i \in 1..Len(Tail(s)) : Tail(s)[i] = s[i + 1]
  BY HeadTailProperties
<1>2. Len(s) \in Nat \ {0} /\ DOMAIN s = 1..Len(s)
  BY Positions, EmptySeq
<1>3. 1 \in DOMAIN s /\ s[1] = Head(s)
  BY <1>2
<1> DEFINE q == Tail(s)
<1>4. \A i \in 1..(Len(s) - 1) : q[i] = s[IF i < 1 THEN i ELSE i + 1]
  BY <1>1, <1>2
<1>5. q \in Seq(Resources) /\ Len(q) = Len(s) - 1
  BY <1>1
<1> HIDE DEF q
<1>6. Elements(q) = Elements(s) \ {s[1]} /\ Once(q)
  BY <1>3, <1>4, <1>5, OnceRemove
<1> QED BY <1>1, <1>3, <1>6 DEF q, Elements

-----------------------------------------------------------------------------
(* The parts of the invariant *)

\* The list and its entries.
ListOK ==
  /\ order \in Seq(Resources)
  /\ Len(order) <= Capacity
  /\ Cardinality(Listed) = Len(order)
  /\ tries \in [Resources -> Nat]
  /\ \A r \in Resources : r \in Listed <=> tries[r] > 0
  /\ age \in [Resources -> 0..MaxAge]
  /\ failures \in [Resources -> Nat]
  /\ quiet \in [Resources -> 0..MaxAge]
  /\ ListedOnce
  /\ EntriesAreTrue

SettingsOK ==
  /\ maxTries \in Nat \ {0}
  /\ {minCheckInterval, tryAgainInterval} \subseteq Intervals
  /\ MaxTriesWasSet

AttemptOK == attempt \in [Clients -> Resources \cup {NoResource}]

\* One resource's part of TriesBounded.
Bounded(r) ==
  \E m \in MaxTriesValues \cup {InitialMaxTries} :
    tries[r] + Cardinality(Attempting(r)) <= m + Cardinality(Clients)

\* The invariant is the conjunction of these parts.
LEMMA InvariantParts ==
  IInv <=> ListOK /\ SettingsOK /\ AttemptOK /\ \A r \in Resources : Bounded(r)
BY DEF IInv, TypeOK, ListOK, SettingsOK, AttemptOK, TriesBounded, Bounded

\* So it is in the next state.
LEMMA InvariantPartsNext ==
  IInv' <=> ListOK' /\ SettingsOK' /\ AttemptOK' /\ \A r \in Resources : Bounded(r)'
BY DEF IInv, TypeOK, ListOK, SettingsOK, AttemptOK, TriesBounded, Bounded

\* The attempts under way are no more than the clients.
LEMMA AttemptCount ==
  ASSUME NEW r
  PROVE  /\ IsFiniteSet(Attempting(r))
         /\ Cardinality(Attempting(r)) \in Nat
         /\ Cardinality(Clients) \in Nat
         /\ Cardinality(Attempting(r)) <= Cardinality(Clients)
<1>1. Attempting(r) \in SUBSET Clients
  BY DEF Attempting
<1> QED BY <1>1, ListAssumption, FS_Subset, FS_CardinalityType

\* So are those of the next state.
LEMMA AttemptCountNext ==
  ASSUME NEW r
  PROVE  /\ IsFiniteSet(Attempting(r)')
         /\ Cardinality(Attempting(r)') \in Nat
         /\ Cardinality(Attempting(r)') <= Cardinality(Clients)
<1>1. Attempting(r)' \in SUBSET Clients
  BY DEF Attempting
<1> QED BY <1>1, ListAssumption, FS_Subset, FS_CardinalityType

\* A resource that is not over the limit keeps within the bound, whoever else is
\* attempting it.
LEMMA BelowLimitBounded ==
  ASSUME NEW r \in Resources, NEW m \in MaxTriesValues \cup {InitialMaxTries},
         tries'[r] \in Nat, tries'[r] <= m
  PROVE  Bounded(r)'
<1>1. m \in Nat
  BY ListAssumption
<1>a. /\ Cardinality(Attempting(r)') \in Nat /\ Cardinality(Clients) \in Nat
      /\ Cardinality(Attempting(r)') <= Cardinality(Clients)
  BY AttemptCount, AttemptCountNext
<1>2. tries'[r] + Cardinality(Attempting(r)') <= m + Cardinality(Clients)
  BY <1>1, <1>a
<1> QED BY <1>2 DEF Bounded

\* A step that adds neither a try nor an attempt keeps the bound.
LEMMA BoundKept ==
  ASSUME NEW r \in Resources, Bounded(r), tries[r] \in Nat,
         tries'[r] \in Nat, tries'[r] <= tries[r], Attempting(r)' \subseteq Attempting(r)
  PROVE  Bounded(r)'
<1>1. PICK m \in MaxTriesValues \cup {InitialMaxTries} :
        tries[r] + Cardinality(Attempting(r)) <= m + Cardinality(Clients)
  BY DEF Bounded
<1>2. m \in Nat
  BY ListAssumption
<1>3. Cardinality(Attempting(r)') <= Cardinality(Attempting(r))
  BY AttemptCount, FS_Subset
<1>4. tries'[r] + Cardinality(Attempting(r)') <= m + Cardinality(Clients)
  BY <1>1, <1>2, <1>3, AttemptCount, AttemptCountNext
<1> QED BY <1>4 DEF Bounded

\* A failed attempt adds a try and ends an attempt.
LEMMA BoundAtFailure ==
  ASSUME NEW r \in Resources, Bounded(r), tries[r] \in Nat, tries'[r] = tries[r] + 1,
         NEW c \in Attempting(r), Attempting(r)' = Attempting(r) \ {c}
  PROVE  Bounded(r)'
<1>1. PICK m \in MaxTriesValues \cup {InitialMaxTries} :
        tries[r] + Cardinality(Attempting(r)) <= m + Cardinality(Clients)
  BY DEF Bounded
<1>2. m \in Nat
  BY ListAssumption
<1>3. Cardinality(Attempting(r)') = Cardinality(Attempting(r)) - 1
  BY AttemptCount, FS_RemoveElement
<1>4. tries'[r] + Cardinality(Attempting(r)') <= m + Cardinality(Clients)
  BY <1>1, <1>2, <1>3, AttemptCount, AttemptCountNext
<1> QED BY <1>4 DEF Bounded

-----------------------------------------------------------------------------
(* The invariant *)

\* A new list is empty.
LEMMA InitIInv == Init => IInv
<1> SUFFICES ASSUME Init PROVE IInv
  OBVIOUS
<1> USE DEF Init
<1>1. order \in Seq(Resources) /\ Len(order) = 0 /\ Listed = {} /\ ListedOnce
  BY EmptySeq DEF Listed, ListedOnce
<1>2. Cardinality(Listed) = Len(order)
  BY <1>1, FS_EmptySet
<1>3. ListOK
  BY <1>1, <1>2, ListAssumption DEF ListOK, EntriesAreTrue
<1>4. SettingsOK /\ AttemptOK
  BY ListAssumption DEF SettingsOK, MaxTriesWasSet, Intervals, AttemptOK
<1>5. ASSUME NEW r \in Resources PROVE Bounded(r)
  <2>1. tries[r] = 0 /\ InitialMaxTries \in Nat
    BY ListAssumption
  <2>2. tries[r] + Cardinality(Attempting(r)) <= InitialMaxTries + Cardinality(Clients)
    BY <2>1, AttemptCount
  <2> QED BY <2>2 DEF Bounded
<1> QED BY <1>3, <1>4, <1>5, InvariantParts

\* Entries leave the list, with all that is remembered of them.
LEMMA EntriesLeave ==
  ASSUME ListOK, NEW gone \in SUBSET Resources,
         order' \in Seq(Resources), Once(order'), Len(order') <= Len(order),
         Elements(order') = Listed \ gone,
         tries' = Forget(tries, gone, 0),
         age' = Forget(age, gone, MaxAge),
         failures' = Forget(failures, gone, 0),
         quiet' = quiet \/ quiet' = Forget(quiet, gone, MaxAge)
  PROVE  /\ ListOK'
         /\ \A r \in Resources : tries'[r] = IF r \in gone THEN 0 ELSE tries[r]
<1>1. Listed' = Listed \ gone /\ ListedOnce'
  BY DEF Listed, ListedOnce, Elements, Once
<1>2. Cardinality(Listed') = Len(order')
  BY OnceCardinality DEF Listed, Elements
<1>3. Len(order') <= Capacity
  BY Positions, ListAssumption DEF ListOK
<1>4. \A r \in Resources : tries'[r] = IF r \in gone THEN 0 ELSE tries[r]
  BY DEF Forget
<1>5. \A r \in Resources : failures'[r] = IF r \in gone THEN 0 ELSE failures[r]
  BY DEF Forget
<1>6. \A r \in Resources : r \notin gone => age'[r] = age[r] /\ quiet'[r] = quiet[r]
  BY DEF Forget
<1>7. /\ tries' \in [Resources -> Nat] /\ failures' \in [Resources -> Nat]
      /\ age' \in [Resources -> 0..MaxAge] /\ quiet' \in [Resources -> 0..MaxAge]
  <2>1. /\ tries \in [Resources -> Nat] /\ failures \in [Resources -> Nat]
        /\ age \in [Resources -> 0..MaxAge] /\ quiet \in [Resources -> 0..MaxAge]
        /\ MaxAge \in 0..MaxAge
    BY ListAssumption DEF ListOK
  <2>2. tries' \in [Resources -> Nat] /\ failures' \in [Resources -> Nat]
    BY <2>1 DEF Forget
  <2>3. age' \in [Resources -> 0..MaxAge]
    BY <2>1 DEF Forget
  <2>4. quiet' \in [Resources -> 0..MaxAge]
    BY <2>1 DEF Forget
  <2> QED BY <2>2, <2>3, <2>4
<1>8. \A r \in Resources : r \in Listed' <=> tries'[r] > 0
  BY <1>1, <1>4 DEF ListOK
<1>9. EntriesAreTrue'
  BY <1>1, <1>4, <1>5, <1>6 DEF ListOK, EntriesAreTrue
<1> QED BY <1>1, <1>2, <1>3, <1>4, <1>7, <1>8, <1>9 DEF ListOK

\* isResourceAbsent() preserves the invariant, and drops the entry of r, or none.
LEMMA IsResourceAbsentIInv ==
  ASSUME IInv, NEW c \in Clients, NEW r \in Resources, IsResourceAbsent(c, r)
  PROVE  IInv'
<1>0. ListOK /\ SettingsOK /\ AttemptOK /\ \A x \in Resources : Bounded(x)
  BY InvariantParts
<1>l. Listed = Elements(order) /\ Once(order) /\ order \in Seq(Resources)
  BY <1>0 DEF ListOK, Listed, Elements, ListedOnce, Once
<1> DEFINE gone == IF r \in Listed /\ Expired(r) THEN {r} ELSE {}
<1>1. /\ order' = IF gone = {} THEN order ELSE Without(r)
      /\ tries' = Forget(tries, gone, 0)
      /\ age' = Forget(age, gone, MaxAge)
      /\ failures' = Forget(failures, gone, 0)
      /\ quiet' = quiet
      /\ UNCHANGED settings
      /\ attempt' = [attempt EXCEPT ![c] = r]
      /\ ~Absent(r)
  BY DEF IsResourceAbsent, DropExpired
<1>2. /\ order' \in Seq(Resources) /\ Once(order') /\ Len(order') <= Len(order)
      /\ Elements(order') = Listed \ gone
  <2>1. CASE gone = {}
    BY <1>1, <1>l, <2>1, Positions
  <2>2. CASE gone # {}
    BY <1>0, <1>1, <2>2, WithoutEffect DEF ListOK
  <2> QED BY <2>1, <2>2
<1>3. ListOK' /\ \A x \in Resources : tries'[x] = IF x \in gone THEN 0 ELSE tries[x]
  <2>1. gone \in SUBSET Resources
    OBVIOUS
  <2> HIDE DEF gone
  <2> QED BY <1>0, <1>1, <1>2, <2>1, EntriesLeave
<1>4. SettingsOK' /\ AttemptOK'
  BY <1>0, <1>1 DEF SettingsOK, MaxTriesWasSet, AttemptOK, settings
<1>5. ASSUME NEW x \in Resources, x # r PROVE Bounded(x)'
  <2>1. Attempting(x)' \subseteq Attempting(x)
    BY <1>0, <1>1, <1>5 DEF Attempting, AttemptOK
  <2>2. tries[x] \in Nat /\ tries'[x] = tries[x]
    BY <1>0, <1>3, <1>5 DEF ListOK
  <2> QED BY <1>0, <2>1, <2>2, BoundKept
<1>6. Bounded(r)'
  <2>1. tries[r] \in Nat /\ maxTries \in Nat
    BY <1>0 DEF ListOK, SettingsOK
  <2>2. tries'[r] \in Nat /\ tries'[r] <= maxTries
    <3>1. CASE r \in gone
      BY <1>3, <2>1, <3>1
    <3>2. CASE r \notin gone /\ r \in Listed
      <4>1. ~(tries[r] > maxTries) /\ tries'[r] = tries[r]
        BY <1>1, <1>3, <3>2 DEF Absent
      <4> QED BY <2>1, <4>1
    <3>3. CASE r \notin Listed
      <4>1. ~(tries[r] > 0) /\ tries'[r] \in {0, tries[r]}
        BY <1>0, <1>3, <3>3 DEF ListOK
      <4> QED BY <2>1, <4>1
    <3> QED BY <3>1, <3>2, <3>3
  <2>3. maxTries \in MaxTriesValues \cup {InitialMaxTries}
    BY <1>0 DEF SettingsOK, MaxTriesWasSet
  <2> QED BY <2>2, <2>3, BelowLimitBounded
<1> QED BY <1>3, <1>4, <1>5, <1>6, InvariantPartsNext

\* markResourceAbsent() preserves the invariant: the eldest entry makes room for
\* a new one, and the try that is counted was an attempt until now.
LEMMA MarkResourceAbsentIInv ==
  ASSUME IInv, NEW c \in Clients, MarkResourceAbsent(c)
  PROVE  IInv'
<1>0. ListOK /\ SettingsOK /\ AttemptOK /\ \A x \in Resources : Bounded(x)
  BY InvariantParts
<1>l. Listed = Elements(order) /\ Once(order) /\ order \in Seq(Resources)
      /\ Len(order) \in Nat /\ Len(order) <= Capacity
  BY <1>0, Positions DEF ListOK, Listed, Elements, ListedOnce, Once
<1>r. PICK r \in Resources : r = attempt[c]
  BY <1>0 DEF MarkResourceAbsent, AttemptOK
<1>o. PICK out : out = Ejected(r)
  OBVIOUS
<1>1. /\ order' = IF r \in Listed THEN order
                  ELSE Append(IF out = {} THEN order ELSE Tail(order), r)
      /\ tries' = [Forget(tries, out, 0) EXCEPT ![r] = @ + 1]
      /\ age' = [Forget(age, out, MaxAge) EXCEPT ![r] = 0]
      /\ failures' = [Forget(failures, out, 0) EXCEPT ![r] = @ + 1]
      /\ quiet' = [Forget(quiet, out, MaxAge) EXCEPT ![r] = 0]
      /\ UNCHANGED settings
      /\ attempt' = [attempt EXCEPT ![c] = NoResource]
  BY <1>r, <1>o DEF MarkResourceAbsent
<1>2. /\ order' \in Seq(Resources) /\ Once(order') /\ Len(order') <= Capacity
      /\ Elements(order') = (Listed \ out) \cup {r}
      /\ out \subseteq Resources /\ r \notin out
  <2>1. CASE r \in Listed
    BY <1>1, <1>l, <1>o, <2>1 DEF Ejected
  <2>2. CASE r \notin Listed /\ Len(order) < Capacity
    <3>1. out = {} /\ order' = Append(order, r)
      BY <1>1, <1>o, <2>2 DEF Ejected
    <3>2. /\ order' \in Seq(Resources) /\ Once(order') /\ Len(order') = Len(order) + 1
          /\ Elements(order') = Listed \cup {r}
      BY <1>l, <2>2, <3>1, OnceAppend
    <3> QED BY <1>l, <2>2, <3>1, <3>2, ListAssumption
  <2>3. CASE r \notin Listed /\ ~(Len(order) < Capacity)
    <3>1. out = {Head(order)} /\ order' = Append(Tail(order), r)
      BY <1>1, <1>o, <2>3 DEF Ejected
    <3>2. Len(order) = Capacity /\ order # << >>
      BY <1>l, <2>3, ListAssumption, EmptySeq
    <3>3. /\ Tail(order) \in Seq(Resources) /\ Len(Tail(order)) = Len(order) - 1
          /\ Head(order) \in Listed
          /\ Elements(Tail(order)) = Listed \ {Head(order)}
          /\ Once(Tail(order))
      BY <1>l, <3>2, TailEffect
    <3>4. /\ order' \in Seq(Resources) /\ Once(order') /\ Len(order') = Len(Tail(order)) + 1
          /\ Elements(order') = Elements(Tail(order)) \cup {r}
      BY <2>3, <3>1, <3>3, OnceAppend
    <3>5. Listed \subseteq Resources
      BY <1>l, Positions
    <3>6. Len(order') <= Capacity
      BY <3>2, <3>3, <3>4, ListAssumption
    <3> QED BY <2>3, <3>1, <3>3, <3>4, <3>5, <3>6
  <2> QED BY <2>1, <2>2, <2>3
<1>3. Listed' = (Listed \ out) \cup {r} /\ ListedOnce' /\ Cardinality(Listed') = Len(order')
  BY <1>2, OnceCardinality DEF Listed, ListedOnce, Elements, Once
<1>4. /\ \A x \in Resources : x # r => /\ tries'[x] = IF x \in out THEN 0 ELSE tries[x]
                                       /\ failures'[x] = IF x \in out THEN 0 ELSE failures[x]
                                       /\ x \notin out => age'[x] = age[x] /\ quiet'[x] = quiet[x]
      /\ tries'[r] = tries[r] + 1
      /\ failures'[r] = failures[r] + 1
      /\ age'[r] = 0 /\ quiet'[r] = 0
  BY <1>1, <1>2 DEF Forget
<1>5. /\ tries' \in [Resources -> Nat] /\ failures' \in [Resources -> Nat]
      /\ age' \in [Resources -> 0..MaxAge] /\ quiet' \in [Resources -> 0..MaxAge]
  <2>1. /\ tries \in [Resources -> Nat] /\ failures \in [Resources -> Nat]
        /\ age \in [Resources -> 0..MaxAge] /\ quiet \in [Resources -> 0..MaxAge]
        /\ MaxAge \in 0..MaxAge /\ 0 \in 0..MaxAge
    BY <1>0, ListAssumption DEF ListOK
  <2>2. tries' \in [Resources -> Nat]
    <3>1. Forget(tries, out, 0) \in [Resources -> Nat]
      BY <2>1 DEF Forget
    <3> QED BY <1>1, <3>1
  <2>3. failures' \in [Resources -> Nat]
    <3>1. Forget(failures, out, 0) \in [Resources -> Nat]
      BY <2>1 DEF Forget
    <3> QED BY <1>1, <3>1
  <2>4. age' \in [Resources -> 0..MaxAge]
    <3>1. Forget(age, out, MaxAge) \in [Resources -> 0..MaxAge]
      BY <2>1 DEF Forget
    <3> QED BY <1>1, <2>1, <3>1
  <2>5. quiet' \in [Resources -> 0..MaxAge]
    <3>1. Forget(quiet, out, MaxAge) \in [Resources -> 0..MaxAge]
      BY <2>1 DEF Forget
    <3> QED BY <1>1, <2>1, <3>1
  <2> QED BY <2>2, <2>3, <2>4, <2>5
<1>6. \A x \in Resources : x \in Listed' <=> tries'[x] > 0
  BY <1>0, <1>3, <1>4 DEF ListOK
<1>7. EntriesAreTrue'
  BY <1>0, <1>3, <1>4 DEF ListOK, EntriesAreTrue
<1>8. ListOK'
  BY <1>2, <1>3, <1>5, <1>6, <1>7 DEF ListOK
<1>9. SettingsOK' /\ AttemptOK'
  BY <1>0, <1>1 DEF SettingsOK, MaxTriesWasSet, AttemptOK, settings
<1>10. ASSUME NEW x \in Resources, x # r PROVE Bounded(x)'
  <2>1. Attempting(x)' \subseteq Attempting(x)
    BY <1>0, <1>1, ListAssumption DEF Attempting, AttemptOK
  <2>t. tries[x] \in Nat /\ tries'[x] \in {0, tries[x]}
    BY <1>0, <1>4, <1>10 DEF ListOK
  <2>2. tries'[x] \in Nat /\ tries'[x] <= tries[x]
    BY <2>t
  <2> QED BY <1>0, <2>1, <2>t, <2>2, BoundKept
<1>11. Bounded(r)'
  <2>1. c \in Attempting(r) /\ Attempting(r)' = Attempting(r) \ {c}
    BY <1>0, <1>1, <1>r, ListAssumption DEF Attempting, AttemptOK
  <2>2. tries[r] \in Nat
    BY <1>0 DEF ListOK
  <2> QED BY <1>0, <1>4, <2>1, <2>2, BoundAtFailure
<1> QED BY <1>8, <1>9, <1>10, <1>11, InvariantPartsNext

\* Every step preserves the invariant.
LEMMA NextIInv == IInv /\ [Next]_vars => IInv'
<1> SUFFICES ASSUME IInv, [Next]_vars PROVE IInv'
  OBVIOUS
<1>0. ListOK /\ SettingsOK /\ AttemptOK /\ \A x \in Resources : Bounded(x)
  BY InvariantParts
<1>1. ASSUME NEW c \in Clients, UnmarkResourceAbsent(c) PROVE IInv'
  <2>r. PICK r \in Resources : r = attempt[c]
    BY <1>0, <1>1 DEF UnmarkResourceAbsent, AttemptOK
  <2>1. /\ order' = Without(r)
        /\ tries' = Forget(tries, {r}, 0)
        /\ age' = Forget(age, {r}, MaxAge)
        /\ failures' = Forget(failures, {r}, 0)
        /\ quiet' = Forget(quiet, {r}, MaxAge)
        /\ UNCHANGED settings
        /\ attempt' = [attempt EXCEPT ![c] = NoResource]
    BY <1>1, <2>r DEF UnmarkResourceAbsent
  <2>2. /\ order' \in Seq(Resources) /\ Once(order') /\ Len(order') <= Len(order)
        /\ Elements(order') = Listed \ {r}
    BY <1>0, <2>1, WithoutEffect DEF ListOK
  <2>3. ListOK' /\ \A x \in Resources : tries'[x] = IF x \in {r} THEN 0 ELSE tries[x]
    BY <1>0, <2>1, <2>2, EntriesLeave
  <2>4. SettingsOK' /\ AttemptOK'
    BY <1>0, <2>1 DEF SettingsOK, MaxTriesWasSet, AttemptOK, settings
  <2>5. ASSUME NEW x \in Resources PROVE Bounded(x)'
    <3>1. Attempting(x)' \subseteq Attempting(x)
      BY <1>0, <2>1, ListAssumption DEF Attempting, AttemptOK
    <3>t. tries[x] \in Nat /\ tries'[x] \in {0, tries[x]}
      BY <1>0, <2>3 DEF ListOK
    <3>2. tries'[x] \in Nat /\ tries'[x] <= tries[x]
      BY <3>t
    <3> QED BY <1>0, <3>1, <3>t, <3>2, BoundKept
  <2> QED BY <2>3, <2>4, <2>5, InvariantPartsNext
<1>2. ASSUME NEW c \in Clients, GiveUp(c) PROVE IInv'
  <2>1. ListOK' /\ SettingsOK' /\ AttemptOK'
    BY <1>0, <1>2
    DEF GiveUp, ListOK, Listed, ListedOnce, EntriesAreTrue, SettingsOK, MaxTriesWasSet,
        AttemptOK, settings
  <2>2. ASSUME NEW x \in Resources PROVE Bounded(x)'
    <3>1. Attempting(x)' \subseteq Attempting(x)
      BY <1>0, <1>2, ListAssumption DEF GiveUp, Attempting, AttemptOK
    <3>2. tries[x] \in Nat /\ tries' = tries
      BY <1>0, <1>2 DEF GiveUp, ListOK
    <3> QED BY <1>0, <3>1, <3>2, BoundKept
  <2> QED BY <2>1, <2>2, InvariantPartsNext
<1>3. CASE Tick
  <2>1. /\ age' = Older(age) /\ quiet' = Older(quiet)
        /\ UNCHANGED <<order, tries, settings, attempt, failures>>
    BY <1>3 DEF Tick
  <2>2. age' \in [Resources -> 0..MaxAge] /\ quiet' \in [Resources -> 0..MaxAge]
    BY <1>0, <2>1, ListAssumption DEF ListOK, Older
  <2>3. \A x \in Resources : quiet[x] = age[x] => quiet'[x] = age'[x]
    BY <2>1 DEF Older
  <2>4. ListOK'
    BY <1>0, <2>1, <2>2, <2>3 DEF ListOK, Listed, ListedOnce, EntriesAreTrue
  <2>5. SettingsOK' /\ AttemptOK' /\ \A x \in Resources : Bounded(x)'
    BY <1>0, <2>1
    DEF SettingsOK, MaxTriesWasSet, AttemptOK, Bounded, Attempting, settings
  <2> QED BY <2>4, <2>5, InvariantPartsNext
<1>4. ASSUME UNCHANGED <<order, tries, age, attempt, failures, quiet>>, SettingsOK'
      PROVE  IInv'
  <2>1. ListOK' /\ AttemptOK' /\ \A x \in Resources : Bounded(x)'
    BY <1>0, <1>4
    DEF ListOK, Listed, ListedOnce, EntriesAreTrue, AttemptOK, Bounded, Attempting
  <2> QED BY <1>4, <2>1, InvariantPartsNext
<1>5. ASSUME NEW n \in MaxTriesValues, SetMaxTries(n) PROVE IInv'
  <2>1. SettingsOK'
    BY <1>0, <1>5, ListAssumption DEF SetMaxTries, SettingsOK, MaxTriesWasSet
  <2> QED BY <1>4, <1>5, <2>1 DEF SetMaxTries
<1>6. ASSUME NEW i \in MinCheckIntervals, SetMinCheckInterval(i) PROVE IInv'
  <2>1. SettingsOK'
    BY <1>0, <1>6 DEF SetMinCheckInterval, SettingsOK, MaxTriesWasSet, Intervals
  <2> QED BY <1>4, <1>6, <2>1 DEF SetMinCheckInterval
<1>7. ASSUME NEW i \in TryAgainIntervals, SetTryAgainInterval(i) PROVE IInv'
  <2>1. SettingsOK'
    BY <1>0, <1>7 DEF SetTryAgainInterval, SettingsOK, MaxTriesWasSet, Intervals
  <2> QED BY <1>4, <1>7, <2>1 DEF SetTryAgainInterval
<1>8. CASE UNCHANGED vars
  <2>1. SettingsOK'
    BY <1>0, <1>8 DEF vars, settings, SettingsOK, MaxTriesWasSet
  <2> QED BY <1>4, <1>8, <2>1 DEF vars
<1> QED
  BY <1>1, <1>2, <1>3, <1>5, <1>6, <1>7, <1>8, IsResourceAbsentIInv,
     MarkResourceAbsentIInv DEF Next, ClientStep

-----------------------------------------------------------------------------
(* The theorems *)

\* The inductive invariant of the list holds in every reachable state.
THEOREM Invariance == Spec => []IInv
BY InitIInv, NextIInv, PTL DEF Spec

\* Every reachable state is well typed: the list holds a resource at most once,
\* exactly if it has been tried, and never more of them than its capacity.
THEOREM TypeCorrect == Spec => []TypeOK
<1>1. IInv => TypeOK
  BY DEF IInv
<1> QED BY <1>1, Invariance, PTL

\* The tries of a resource outgrow the largest limit that was ever set by no more
\* than the number of threads attempting it, whatever the settings do meanwhile.
THEOREM TriesAreBounded == Spec => []TriesBounded
<1>1. IInv => TriesBounded
  BY DEF IInv
<1> QED BY <1>1, Invariance, PTL

\* As long as the list remembers a failure of a resource, no thread attempts to
\* get it before the interval in force has elapsed.
THEOREM RetriesWait == Spec => NoEarlyRetry
<1>1. ASSUME IInv, [Next]_vars, NEW c \in Clients, NEW r \in Resources,
             attempt[c] = NoResource, attempt'[c] = r, failures[r] > 0
      PROVE  \/ quiet[r] > tryAgainInterval
             \/ quiet[r] >= minCheckInterval /\ failures[r] <= maxTries
  <2>0. ListOK /\ SettingsOK /\ AttemptOK
    BY <1>1, InvariantParts
  <2>1. IsResourceAbsent(c, r)
    <3>1. ASSUME NEW d \in Clients, NEW x \in Resources, IsResourceAbsent(d, x)
          PROVE  d = c /\ x = r
      BY <1>1, <2>0, <3>1, ListAssumption DEF IsResourceAbsent, AttemptOK
    <3>2. ASSUME NEW d \in Clients,
                 MarkResourceAbsent(d) \/ UnmarkResourceAbsent(d) \/ GiveUp(d)
          PROVE  FALSE
      BY <1>1, <2>0, <3>2, ListAssumption
      DEF MarkResourceAbsent, UnmarkResourceAbsent, GiveUp, AttemptOK
    <3>3. attempt' # attempt
      BY <1>1, ListAssumption
    <3> QED
      BY <1>1, <3>1, <3>2, <3>3
      DEF Next, ClientStep, Tick, SetMaxTries, SetMinCheckInterval, SetTryAgainInterval, vars
  <2>2. r \in Listed /\ quiet[r] = age[r] /\ failures[r] = tries[r]
    BY <1>1, <2>0 DEF ListOK, EntriesAreTrue
  <2>3. /\ age[r] \in Nat /\ tries[r] \in Nat /\ maxTries \in Nat
        /\ minCheckInterval \in Nat /\ tryAgainInterval \in Nat
    <3>1. age[r] \in 0..MaxAge /\ tries[r] \in Nat
      BY <2>0 DEF ListOK
    <3>2. maxTries \in Nat /\ minCheckInterval \in Intervals /\ tryAgainInterval \in Intervals
      BY <2>0 DEF SettingsOK
    <3> QED BY <3>1, <3>2, ListAssumption
  <2> QED BY <2>1, <2>2, <2>3 DEF IsResourceAbsent, Absent, Expired
<1>2. IInv /\ [Next]_vars =>
        [\A c \in Clients, r \in Resources :
           attempt[c] = NoResource /\ attempt'[c] = r /\ failures[r] > 0 =>
             \/ quiet[r] > tryAgainInterval
             \/ quiet[r] >= minCheckInterval /\ failures[r] <= maxTries]_vars
  BY <1>1
<1> QED BY <1>2, Invariance, PTL DEF Spec, NoEarlyRetry
=============================================================================
