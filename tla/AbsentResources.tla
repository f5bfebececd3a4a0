-------------------------- MODULE AbsentResources --------------------------
(***************************************************************************)
(* gov.nasa.worldwind.util.AbsentResourceList, on top of BasicSessionCache *)
(* and BoundedHashMap, with the threads that use it: a thread asks whether *)
(* a resource is absent, attempts to get it if not, and then marks it      *)
(* absent or not absent.  Every method is synchronized, but an attempt is  *)
(* long, and other threads ask about the same resource meanwhile.          *)
(***************************************************************************)
EXTENDS Integers, Sequences, FiniteSets

CONSTANTS
  Resources,
  Clients,            \* threads that look for resources
  NoResource,         \* a client that is not attempting to get one
  Capacity,           \* most entries the list may hold
  MaxTriesValues,     \* values applications pass to setMaxTries()
  MinCheckIntervals,  \* ... to setMinCheckInterval()
  TryAgainIntervals,  \* ... to setTryAgainInterval()
  InitialMaxTries,
  InitialMinCheckInterval,
  InitialTryAgainInterval,
  MaxAge              \* times since a mark are told apart up to this one

Intervals == MinCheckIntervals \cup TryAgainIntervals
             \cup {InitialMinCheckInterval, InitialTryAgainInterval}

ASSUME ListAssumption ==
  /\ IsFiniteSet(Clients)
  /\ NoResource \notin Resources
  /\ Capacity \in Nat \ {0}
  /\ MaxTriesValues \subseteq Nat
  /\ InitialMaxTries \in Nat \ {0}
  /\ Intervals \subseteq Nat
  /\ MaxAge \in Nat
  /\ \A i \in Intervals : i < MaxAge

VARIABLES
  order,             \* the keys of possiblyAbsent in insertion order
  tries,             \* numTries of each resource's entry, 0 if there is none
  age,               \* time since timeOfLastMark, MaxAge if there is no entry
  maxTries,
  minCheckInterval,
  tryAgainInterval,
  attempt,           \* the resource each client is attempting to get
  failures,          \* history: failed attempts since the resource was last
                     \* found, expired or ejected
  quiet              \* history: time since the last of those failures

settings == <<maxTries, minCheckInterval, tryAgainInterval>>
vars == <<order, tries, age, settings, attempt, failures, quiet>>
-----------------------------------------------------------------------------

Listed == {order[i] : i \in DOMAIN order}

Init ==
  /\ order = << >>
  /\ tries = [r \in Resources |-> 0]
  /\ age = [r \in Resources |-> MaxAge]
  /\ maxTries = InitialMaxTries
  /\ minCheckInterval = InitialMinCheckInterval
  /\ tryAgainInterval = InitialTryAgainInterval
  /\ attempt = [c \in Clients |-> NoResource]
  /\ failures = [r \in Resources |-> 0]
  /\ quiet = [r \in Resources |-> MaxAge]

\* The list without the resource r: those after it move up.
Without(r) ==
  IF r \notin Listed THEN order
  ELSE LET p == CHOOSE i \in DOMAIN order : order[i] = r
       IN [i \in 1..(Len(order) - 1) |-> order[IF i < p THEN i ELSE i + 1]]

\* The entries of the resources of S are gone.
Forget(f, S, value) == [r \in Resources |-> IF r \in S THEN value ELSE f[r]]

Expired(r) == age[r] > tryAgainInterval

\* The answer of isResourceAbsent().
Absent(r) ==
  /\ r \in Listed
  /\ ~Expired(r)
  /\ age[r] < minCheckInterval \/ tries[r] > maxTries

-----------------------------------------------------------------------------
(* Clients *)

\* Mutant of DropExpired: the entry stays, with its number of tries.
DropExpiredNot(r) ==
  /\ failures' = [failures EXCEPT ![r] = IF Expired(r) THEN 0 ELSE @]
  /\ UNCHANGED <<order, tries, age>>

\* isResourceAbsent() removes an entry whose try-again interval has elapsed.
DropExpired(r) ==
  LET gone == IF r \in Listed /\ Expired(r) THEN {r} ELSE {}
  IN /\ order' = IF gone = {} THEN order ELSE Without(r)
     /\ tries' = Forget(tries, gone, 0)
     /\ age' = Forget(age, gone, MaxAge)
     /\ failures' = Forget(failures, gone, 0)

\* Mutant of IsResourceAbsent: asking about an absent resource counts as a mark.
IsResourceAbsentTouching(c, r) ==
  /\ attempt[c] = NoResource
  /\ IF Absent(r)
     THEN /\ age' = [age EXCEPT ![r] = 0]
          /\ UNCHANGED <<order, tries, attempt, failures>>
     ELSE /\ DropExpired(r)
          /\ attempt' = [attempt EXCEPT ![c] = r]
  /\ UNCHANGED <<settings, quiet>>

\* isResourceAbsent() returns false, and the client goes on to attempt to get the
\* resource.  When it returns true, it changes nothing.
IsResourceAbsent(c, r) ==
  /\ attempt[c] = NoResource
  /\ ~Absent(r)
  /\ DropExpired(r)
  /\ attempt' = [attempt EXCEPT ![c] = r]
  /\ UNCHANGED <<settings, quiet>>

\* Mutant of Ejected: nothing is ejected.
EjectedNothing(r) == {}

\* The eldest entries that must go if r is put: BoundedHashMap keeps insertion
\* order, which marking a resource again does not change.
Ejected(r) ==
  IF r \in Listed \/ Len(order) < Capacity THEN {} ELSE {Head(order)}

\* Mutant of MarkResourceAbsent: the time of an existing entry is kept.
MarkResourceAbsentKeepingTime(c) ==
  LET r == attempt[c]
      out == Ejected(r)
  IN /\ r # NoResource
     /\ order' = IF r \in Listed THEN order ELSE Append(IF out = {} THEN order ELSE Tail(order), r)
     /\ tries' = [Forget(tries, out, 0) EXCEPT ![r] = @ + 1]
     /\ age' = [Forget(age, out, MaxAge) EXCEPT ![r] = IF r \in Listed THEN @ ELSE 0]
     /\ failures' = [Forget(failures, out, 0) EXCEPT ![r] = @ + 1]
     /\ quiet' = [Forget(quiet, out, MaxAge) EXCEPT ![r] = 0]
     /\ attempt' = [attempt EXCEPT ![c] = NoResource]
     /\ UNCHANGED settings

\* The attempt has failed: markResourceAbsent().
MarkResourceAbsent(c) ==
  LET r == attempt[c]
      out == Ejected(r)
  IN /\ r # NoResource
     /\ order' = IF r \in Listed THEN order ELSE Append(IF out = {} THEN order ELSE Tail(order), r)
     /\ tries' = [Forget(tries, out, 0) EXCEPT ![r] = @ + 1]
     /\ age' = [Forget(age, out, MaxAge) EXCEPT ![r] = 0]
     /\ failures' = [Forget(failures, out, 0) EXCEPT ![r] = @ + 1]
     /\ quiet' = [Forget(quiet, out, MaxAge) EXCEPT ![r] = 0]
     /\ attempt' = [attempt EXCEPT ![c] = NoResource]
     /\ UNCHANGED settings

\* The attempt has succeeded: unmarkResourceAbsent().
UnmarkResourceAbsent(c) ==
  LET r == attempt[c]
  IN /\ r # NoResource
     /\ order' = Without(r)
     /\ tries' = Forget(tries, {r}, 0)
     /\ age' = Forget(age, {r}, MaxAge)
     /\ failures' = Forget(failures, {r}, 0)
     /\ quiet' = Forget(quiet, {r}, MaxAge)
     /\ attempt' = [attempt EXCEPT ![c] = NoResource]
     /\ UNCHANGED settings

\* The attempt ends without a word to the list, as an interrupted one does.
GiveUp(c) ==
  /\ attempt[c] # NoResource
  /\ attempt' = [attempt EXCEPT ![c] = NoResource]
  /\ UNCHANGED <<order, tries, age, settings, failures, quiet>>

-----------------------------------------------------------------------------
(* Time and settings *)

Older(f) == [r \in Resources |-> IF f[r] < MaxAge THEN f[r] + 1 ELSE MaxAge]

Tick ==
  /\ age' = Older(age)
  /\ quiet' = Older(quiet)
  /\ UNCHANGED <<order, tries, settings, attempt, failures>>

SetMaxTries(n) ==
  /\ n >= 1
  /\ maxTries' = n
  /\ UNCHANGED <<order, tries, age, minCheckInterval, tryAgainInterval, attempt,
                 failures, quiet>>

SetMinCheckInterval(i) ==
  /\ minCheckInterval' = i
  /\ UNCHANGED <<order, tries, age, maxTries, tryAgainInterval, attempt, failures,
                 quiet>>

SetTryAgainInterval(i) ==
  /\ tryAgainInterval' = i
  /\ UNCHANGED <<order, tries, age, maxTries, minCheckInterval, attempt, failures,
                 quiet>>

ClientStep(c) ==
  \/ \E r \in Resources : IsResourceAbsent(c, r)
  \/ MarkResourceAbsent(c)
  \/ UnmarkResourceAbsent(c)
  \/ GiveUp(c)

Next ==
  \/ \E c \in Clients : ClientStep(c)
  \/ Tick
  \/ \E n \in MaxTriesValues : SetMaxTries(n)
  \/ \E i \in MinCheckIntervals : SetMinCheckInterval(i)
  \/ \E i \in TryAgainIntervals : SetTryAgainInterval(i)

Spec == Init /\ [][Next]_vars

\* Time passes.
FairSpec == Spec /\ WF_vars(Tick)
-----------------------------------------------------------------------------
(* Properties *)

\* The types of the variables; a resource is listed at most once, it is listed
\* exactly if it has been tried, and the list never outgrows its capacity.
TypeOK ==
  /\ order \in Seq(Resources)
  /\ Len(order) <= Capacity
  /\ Cardinality(Listed) = Len(order)
  /\ tries \in [Resources -> Nat]
  /\ \A r \in Resources : r \in Listed <=> tries[r] > 0
  /\ age \in [Resources -> 0..MaxAge]
  /\ maxTries \in Nat \ {0}
  /\ {minCheckInterval, tryAgainInterval} \subseteq Intervals
  /\ attempt \in [Clients -> Resources \cup {NoResource}]
  /\ failures \in [Resources -> Nat]
  /\ quiet \in [Resources -> 0..MaxAge]

\* "Retrieval attempts are governed by a minimum time interval between successive
\* attempts": as long as the list remembers a failure, nobody starts another
\* attempt within the check interval, or within the try-again interval once there
\* were more than the maximum number of failures.
NoEarlyRetry ==
  [][\A c \in Clients, r \in Resources :
       attempt[c] = NoResource /\ attempt'[c] = r /\ failures[r] > 0 =>
         \/ quiet[r] > tryAgainInterval
         \/ quiet[r] >= minCheckInterval /\ failures[r] <= maxTries]_vars

Attempting(r) == {c \in Clients : attempt[c] = r}

\* Threads that started an attempt before the limit was reached may exceed it,
\* each by one: a resource's tries never outgrow the limit by more than the number
\* of threads, however often it fails.
TriesBounded ==
  \A r \in Resources :
    \E m \in MaxTriesValues \cup {InitialMaxTries} :
      tries[r] + Cardinality(Attempting(r)) <= m + Cardinality(Clients)

\* "... at which time the resource is considered not absent": no resource is given
\* up for ever, whatever the threads that are still attempting it report.
AbsenceEnds == \A r \in Resources : Absent(r) ~> ~Absent(r)

-----------------------------------------------------------------------------
(* The inductive strengthening of the safety properties *)

\* BoundedHashMap has one entry for a key.
ListedOnce == \A i, j \in DOMAIN order : order[i] = order[j] => i = j

\* The entry of a listed resource tells how often it has failed, and when.
EntriesAreTrue ==
  \A r \in Resources : failures[r] = tries[r] /\ (r \in Listed => quiet[r] = age[r])

MaxTriesWasSet == maxTries \in MaxTriesValues \cup {InitialMaxTries}

IInv ==
  /\ TypeOK
  /\ ListedOnce
  /\ EntriesAreTrue
  /\ MaxTriesWasSet
  /\ TriesBounded
=============================================================================
