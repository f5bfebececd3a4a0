------------------------- MODULE NetworkStatusProofs -------------------------
(***************************************************************************)
(* What BasicNetworkStatus promises for any number of hosts and clients,   *)
(* any limits and any intervals: the listeners know of every host that is  *)
(* refused, and no host is tried before its interval has passed.           *)
(***************************************************************************)
EXTENDS NetworkStatus, TLAPS

USE StatusAssumption

-----------------------------------------------------------------------------
(* Lemmas *)

\* The age of a time stays in its range.
LEMMA AgeOfType ==
  ASSUME NEW a \in -1..MaxAge
  PROVE  AgeOf(a) \in 0..MaxAge /\ (a >= 0 => AgeOf(a) >= a)
BY DEF AgeOf

\* What logUnavailableHost() makes of a host's info: it counts up to the limit, and
\* sets the time.
LEMMA RecountedInfo ==
  ASSUME NEW info \in HostInfo, info # NoInfo
  PROVE  /\ Logged(info) \in HostInfo
         /\ Logged(info).age = 0
         /\ Logged(info).logCount = IF IsUnavailable(info) THEN info.logCount
                                    ELSE info.logCount + 1
         /\ Logged(info).attemptLimit = info.attemptLimit
         /\ Logged(info).tryAgainInterval = info.tryAgainInterval
<1> DEFINE n == IF IsUnavailable(info) THEN info.logCount ELSE info.logCount + 1
<1>1. n \in Nat
  BY DEF HostInfo
<1>2. Logged(info) = [info EXCEPT !.logCount = n, !.age = 0]
  BY DEF Logged
<1>3. 0 \in 0..MaxAge
  OBVIOUS
<1> HIDE DEF n
<1>4. Logged(info) = [logCount |-> n, attemptLimit |-> info.attemptLimit,
                      tryAgainInterval |-> info.tryAgainInterval, age |-> 0]
  BY <1>2 DEF HostInfo
<1>5. /\ Logged(info) \in HostInfo
      /\ Logged(info).age = 0
      /\ Logged(info).logCount = n
      /\ Logged(info).attemptLimit = info.attemptLimit
      /\ Logged(info).tryAgainInterval = info.tryAgainInterval
  BY <1>1, <1>3, <1>4 DEF HostInfo
<1> QED BY <1>5 DEF n

\* A further failure makes a well-formed info, counts, and sets its time.
LEMMA LoggedInfo ==
  ASSUME TypeOK, NEW h \in Hosts
  PROVE  /\ Logged(hostMap[h]) \in HostInfo
         /\ Logged(hostMap[h]).age = 0
         /\ hostMap[h] = NoInfo => Logged(hostMap[h]).logCount = 1
         /\ hostMap[h] # NoInfo =>
              /\ hostMap[h] \in HostInfo
              /\ Logged(hostMap[h]).attemptLimit = hostMap[h].attemptLimit
              /\ Logged(hostMap[h]).tryAgainInterval = hostMap[h].tryAgainInterval
              /\ Logged(hostMap[h]).logCount =
                   IF IsUnavailable(hostMap[h]) THEN hostMap[h].logCount
                   ELSE hostMap[h].logCount + 1
<1>1. CASE hostMap[h] = NoInfo
  BY <1>1 DEF Logged, TypeOK, HostInfo
<1>2. CASE hostMap[h] # NoInfo
  <2>1. hostMap[h] \in HostInfo
    BY <1>2 DEF TypeOK
  <2> QED BY <1>2, <2>1, RecountedInfo
<1> QED BY <1>1, <1>2

\* A step that leaves the hosts and what is known of them alone keeps the
\* invariants about them.
LEMMA HostsUndisturbed ==
  ASSUME AnnouncedInv, CountInv, UNCHANGED <<hostMap, history>>
  PROVE  AnnouncedInv' /\ CountInv'
BY DEF AnnouncedInv, CountInv, history, IsUnavailable, IsTimeToTryAgain

\* The initial values satisfy the invariant.
LEMMA InitIInv == Init => IInv
<1> SUFFICES ASSUME Init PROVE IInv
  OBVIOUS
<1>1. TypeOK
  <2>1. {offlineMode, hasSites, successLast, unavailableResult, serverUp, sitesUp}
          \subseteq BOOLEAN
    BY Zenon DEF Init
  <2>2. /\ hostMap \in [Hosts -> HostInfo \cup {NoInfo}]
        /\ attempt \in [Clients -> Hosts \cup {NoHost}]
        /\ failures \in [Hosts -> Nat]
        /\ quiet \in [Hosts -> 0..MaxAge]
    BY DEF Init
  <2> QED BY <2>1, <2>2 DEF Init, TypeOK
<1>2. AnnouncedInv /\ CountInv
  BY DEF Init, AnnouncedInv, CountInv
<1> QED BY <1>1, <1>2 DEF IInv

-----------------------------------------------------------------------------
(* Every step preserves the invariant *)

\* What a client does: ask about a host, and report how its attempt has ended.
LEMMA ClientIInv ==
  ASSUME IInv, NEW c \in Clients, ClientStep(c)
  PROVE  IInv'
<1>0. TypeOK /\ AnnouncedInv /\ CountInv
  BY DEF IInv
<1>1. ASSUME NEW h \in Hosts, IsHostUnavailable(c, h) PROVE IInv'
  <2>1. hostMap[h] # NoInfo => hostMap[h] \in HostInfo /\ quiet[h] = hostMap[h].age
    BY <1>0 DEF TypeOK, CountInv
  <2>t. /\ failures' \in [Hosts -> Nat]
        /\ failures'[h] = IF hostMap[h] # NoInfo /\ IsTimeToTryAgain(hostMap[h])
                          THEN 0 ELSE failures[h]
        /\ \A k \in Hosts : k # h => failures'[k] = failures[k]
        /\ UNCHANGED <<announced, quiet>>
    BY <1>0, <1>1, <2>1 DEF IsHostUnavailable, Tried, TypeOK, IsTimeToTryAgain
  <2>2. CASE hostMap[h] # NoInfo /\ IsTimeToTryAgain(hostMap[h])
    <3>1. hostMap' = [hostMap EXCEPT ![h].logCount = 0]
      BY <1>1, <2>2 DEF IsHostUnavailable
    <3>2. /\ hostMap'[h] = [hostMap[h] EXCEPT !.logCount = 0]
          /\ hostMap'[h] \in HostInfo
          /\ \A k \in Hosts : k # h => hostMap'[k] = hostMap[k]
          /\ hostMap' \in [Hosts -> HostInfo \cup {NoInfo}]
      BY <1>0, <2>1, <2>2, <3>1 DEF TypeOK, HostInfo
    <3>3. TypeOK'
      BY <1>0, <1>1, <2>t, <3>2
      DEF TypeOK, IsHostUnavailable, settings, logTimes, check, environment
    <3>4. AnnouncedInv'
      BY <1>0, <2>1, <2>2, <2>t, <3>2 DEF AnnouncedInv, IsUnavailable, HostInfo
    <3>5. CountInv'
      <4>1. /\ hostMap'[h].age = hostMap[h].age /\ hostMap'[h].logCount = 0
            /\ failures'[h] = 0 /\ hostMap'[h] # NoInfo
        BY <2>1, <2>2, <2>t, <3>2, NoInfoAssumption DEF HostInfo
      <4>2. \A k \in Hosts : k # h => /\ hostMap'[k] = hostMap[k]
                                      /\ failures'[k] = failures[k]
                                      /\ quiet'[k] = quiet[k]
        BY <2>t, <3>2
      <4>3. quiet'[h] = hostMap'[h].age /\ failures'[h] <= hostMap'[h].logCount
        BY <2>1, <2>2, <2>t, <4>1
      <4> HIDE <2>1, <2>t
      <4> QED BY <1>0, <4>1, <4>2, <4>3, Zenon DEF CountInv, IsUnavailable
    <3> QED BY <3>3, <3>4, <3>5 DEF IInv
  <2>3. CASE ~(hostMap[h] # NoInfo /\ IsTimeToTryAgain(hostMap[h]))
    <3>1. UNCHANGED <<hostMap, settings, logTimes, check, environment>>
      BY <1>1, <2>3 DEF IsHostUnavailable
    <3>2. TypeOK'
      BY <1>0, <1>1, <2>t, <3>1
      DEF TypeOK, IsHostUnavailable, settings, logTimes, check, environment
    <3>3. \A k \in Hosts : failures'[k] = failures[k]
      BY <2>3, <2>t
    <3>4. AnnouncedInv' /\ CountInv'
      BY <1>0, <2>t, <3>1, <3>3 DEF AnnouncedInv, CountInv, IsUnavailable
    <3> QED BY <3>2, <3>4 DEF IInv
  <2> QED BY <2>2, <2>3
<1>2. CASE LogUnavailableHost(c)
  <2> DEFINE h == attempt[c]
             info == Logged(hostMap[h])
  <2>1. h \in Hosts
    BY <1>0, <1>2 DEF LogUnavailableHost, TypeOK
  <2>2. /\ hostMap' = [hostMap EXCEPT ![h] = info]
        /\ announced' = announced \cup IF BecameUnavailable(hostMap[h], info)
                                       THEN {h} ELSE {}
        /\ failures' = [failures EXCEPT ![h] = failures[h] + 1]
        /\ quiet' = [quiet EXCEPT ![h] = 0]
        /\ unavailableAge' = 0
        /\ successLast' = (availableAge < 0)
        /\ attempt' = [attempt EXCEPT ![c] = NoHost]
        /\ UNCHANGED <<settings, availableAge, check, environment>>
    BY <1>2 DEF LogUnavailableHost
  <2>3. /\ info \in HostInfo
        /\ info.age = 0
        /\ hostMap[h] = NoInfo => info.logCount = 1
        /\ hostMap[h] # NoInfo =>
             /\ hostMap[h] \in HostInfo
             /\ info.attemptLimit = hostMap[h].attemptLimit
             /\ info.tryAgainInterval = hostMap[h].tryAgainInterval
             /\ info.logCount = IF IsUnavailable(hostMap[h]) THEN hostMap[h].logCount
                                ELSE hostMap[h].logCount + 1
    BY <1>0, <2>1, LoggedInfo
  <2> HIDE DEF h, info
  <2>4. /\ hostMap'[h] = info
        /\ failures'[h] = failures[h] + 1
        /\ quiet'[h] = 0
        /\ \A k \in Hosts : k # h => /\ hostMap'[k] = hostMap[k]
                                     /\ failures'[k] = failures[k]
                                     /\ quiet'[k] = quiet[k]
    BY <1>0, <2>1, <2>2 DEF TypeOK
  <2>5. TypeOK'
    <3>1. /\ hostMap' \in [Hosts -> HostInfo \cup {NoInfo}]
          /\ announced' \subseteq Hosts
          /\ failures' \in [Hosts -> Nat]
          /\ quiet' \in [Hosts -> 0..MaxAge]
          /\ attempt' \in [Clients -> Hosts \cup {NoHost}]
      BY <1>0, <2>1, <2>2, <2>3 DEF TypeOK
    <3> QED BY <1>0, <2>2, <3>1 DEF TypeOK, settings, check, environment
  <2>6. AnnouncedInv'
    <3>1. announced \subseteq announced'
      BY <2>2
    <3>2. IsUnavailable(info) => h \in announced'
      BY <1>0, <2>1, <2>2 DEF AnnouncedInv, BecameUnavailable
    <3> QED BY <1>0, <2>1, <2>4, <3>1, <3>2 DEF AnnouncedInv, IsUnavailable
  <2>7. CountInv'
    <3>1. \/ IsUnavailable(info)
          \/ failures'[h] <= info.logCount
      <4>1. failures[h] \in Nat
        BY <1>0, <2>1 DEF TypeOK
      <4>2. CASE hostMap[h] = NoInfo
        <5>1. failures[h] = 0
          BY <1>0, <2>1, <4>2 DEF CountInv
        <5> QED BY <2>3, <2>4, <4>2, <5>1
      <4>3. CASE hostMap[h] # NoInfo /\ IsUnavailable(hostMap[h])
        BY <2>3, <4>3 DEF IsUnavailable
      <4>4. CASE hostMap[h] # NoInfo /\ ~IsUnavailable(hostMap[h])
        <5>1. failures[h] <= hostMap[h].logCount
          BY <1>0, <2>1, <4>4 DEF CountInv
        <5>2. hostMap[h].logCount \in Nat /\ info.logCount = hostMap[h].logCount + 1
          BY <2>3, <4>4 DEF HostInfo
        <5> QED BY <2>4, <4>1, <5>1, <5>2
      <4> QED BY <4>2, <4>3, <4>4
    <3>2. info # NoInfo
      BY <2>3, NoInfoAssumption
    <3> QED BY <1>0, <2>1, <2>3, <2>4, <3>1, <3>2 DEF CountInv, IsUnavailable
  <2> QED BY <2>5, <2>6, <2>7 DEF IInv
<1>3. CASE LogAvailableHost(c)
  <2> DEFINE h == attempt[c]
  <2>1. h \in Hosts
    BY <1>0, <1>3 DEF LogAvailableHost, TypeOK
  <2>2. /\ hostMap'[h] = NoInfo
        /\ failures'[h] = 0
        /\ announced' = announced \ {h}
        /\ \A k \in Hosts : k # h => /\ hostMap'[k] = hostMap[k]
                                     /\ failures'[k] = failures[k]
                                     /\ quiet'[k] = quiet[k]
    BY <1>0, <1>3, <2>1 DEF LogAvailableHost, TypeOK
  <2>3. TypeOK'
    BY <1>0, <1>3, <2>1 DEF LogAvailableHost, TypeOK, settings, check, environment
  <2> HIDE DEF h
  <2>4. AnnouncedInv' /\ CountInv'
    BY <1>0, <2>1, <2>2 DEF AnnouncedInv, CountInv, IsUnavailable, IsTimeToTryAgain
  <2> QED BY <2>3, <2>4 DEF IInv
<1>4. CASE EndUnlogged(c)
  <2>1. TypeOK'
    BY <1>0, <1>4
    DEF EndUnlogged, TypeOK, settings, logTimes, check, environment, history
  <2> QED BY <1>0, <1>4, <2>1, HostsUndisturbed DEF EndUnlogged, IInv
<1> QED BY <1>1, <1>2, <1>3, <1>4 DEF ClientStep

\* Every step of the network status preserves the invariant.
LEMMA NextIInv == IInv /\ [Next]_vars => IInv'
<1> SUFFICES ASSUME IInv, [Next]_vars PROVE IInv'
  OBVIOUS
<1>0. TypeOK /\ AnnouncedInv /\ CountInv
  BY DEF IInv
<1>1. ASSUME NEW c \in Clients, ClientStep(c) PROVE IInv'
  BY <1>1, ClientIInv
<1>2. CASE CheckStep
  <2>1. UNCHANGED <<hostMap, settings, logTimes, attempt, environment, history>>
    BY <1>2 DEF CheckStep, AssumeReachable, BeginTest, TestServer, TestSites
  <2>2. /\ unavailableResult' \in BOOLEAN
        /\ checkAge' \in 0..MaxAge
        /\ test' \in {"none", "server", "sites"}
    <3>1. CASE AssumeReachable
      BY <1>0, <3>1 DEF TypeOK, AssumeReachable
    <3>2. CASE \E i \in CheckIntervals : BeginTest(i)
      BY <1>0, <3>2 DEF TypeOK, BeginTest
    <3>3. CASE TestServer
      BY <1>0, <3>3 DEF TypeOK, TestServer
    <3>4. CASE TestSites
      BY <1>0, <3>4 DEF TypeOK, TestSites
    <3> QED BY <1>2, <3>1, <3>2, <3>3, <3>4 DEF CheckStep
  <2>3. TypeOK'
    BY <1>0, <2>1, <2>2
    DEF TypeOK, settings, logTimes, environment, history
  <2> QED BY <1>0, <2>1, <2>3, HostsUndisturbed DEF IInv
<1>3. CASE Tick
  <2>1. ASSUME NEW h \in Hosts, hostMap[h] # NoInfo
        PROVE  /\ hostMap[h] \in HostInfo
               /\ hostMap'[h] = [hostMap[h] EXCEPT !.age = AgeOf(hostMap[h].age)]
               /\ hostMap'[h] \in HostInfo
               /\ hostMap'[h].age >= hostMap[h].age
    <3>1. hostMap[h] \in HostInfo
      BY <1>0, <2>1 DEF TypeOK
    <3>2. hostMap'[h] = [hostMap[h] EXCEPT !.age = AgeOf(hostMap[h].age)]
      BY <1>3, <2>1 DEF Tick
    <3>3. AgeOf(hostMap[h].age) \in 0..MaxAge /\ AgeOf(hostMap[h].age) >= hostMap[h].age
      BY <3>1, AgeOfType DEF HostInfo
    <3> QED BY <3>1, <3>2, <3>3 DEF HostInfo
  <2>2. \A h \in Hosts : hostMap[h] = NoInfo => hostMap'[h] = NoInfo
    BY <1>3 DEF Tick
  <2>3. hostMap' \in [Hosts -> HostInfo \cup {NoInfo}]
    BY <1>3, <2>1, <2>2 DEF Tick
  <2>4. /\ quiet' = [h \in Hosts |-> AgeOf(quiet[h])]
        /\ quiet' \in [Hosts -> 0..MaxAge]
    BY <1>0, <1>3, AgeOfType DEF Tick, TypeOK
  <2>5. /\ availableAge' \in -1..MaxAge
        /\ {unavailableAge', checkAge'} \subseteq 0..MaxAge
    BY <1>0, <1>3, AgeOfType DEF Tick, TypeOK
  <2>6. TypeOK'
    BY <1>0, <1>3, <2>3, <2>4, <2>5 DEF Tick, TypeOK, settings, environment
  <2>7. AnnouncedInv'
    BY <1>0, <1>3, <2>1, <2>2 DEF Tick, AnnouncedInv, IsUnavailable, HostInfo
  <2>8. CountInv'
    <3>0. \A h \in Hosts : failures'[h] = 0 \/ hostMap[h] # NoInfo
      BY <1>0, <1>3 DEF Tick, CountInv
    <3> SUFFICES ASSUME NEW h \in Hosts, hostMap[h] # NoInfo
                 PROVE  /\ hostMap'[h] # NoInfo
                        /\ quiet'[h] = hostMap'[h].age
                        /\ \/ IsUnavailable(hostMap'[h])
                           \/ failures'[h] <= hostMap'[h].logCount
      BY <2>2, <3>0 DEF CountInv, IsUnavailable
    <3>1. hostMap'[h] # NoInfo
      BY <2>1, NoInfoAssumption
    <3>2. /\ hostMap'[h].logCount = hostMap[h].logCount
          /\ hostMap'[h].attemptLimit = hostMap[h].attemptLimit
          /\ hostMap'[h].age = AgeOf(hostMap[h].age)
      BY <2>1 DEF HostInfo
    <3>3. /\ quiet[h] = hostMap[h].age
          /\ \/ IsUnavailable(hostMap[h])
             \/ failures[h] <= hostMap[h].logCount
      BY <1>0 DEF CountInv
    <3>4. quiet'[h] = AgeOf(quiet[h]) /\ failures' = failures
      BY <1>3, <2>4 DEF Tick
    <3>5. IsUnavailable(hostMap[h]) => IsUnavailable(hostMap'[h])
      BY <3>2 DEF IsUnavailable
    <3> QED BY <3>1, <3>2, <3>3, <3>4, <3>5
  <2> QED BY <2>6, <2>7, <2>8 DEF IInv
<1>4. ASSUME NEW n \in AttemptLimits, SetAttemptLimit(n) PROVE IInv'
  <2>1. TypeOK'
    BY <1>0, <1>4
    DEF SetAttemptLimit, TypeOK, logTimes, check, environment, history
  <2> QED BY <1>0, <1>4, <2>1, HostsUndisturbed DEF SetAttemptLimit, IInv
<1>5. ASSUME NEW i \in TryAgainIntervals, SetTryAgainInterval(i) PROVE IInv'
  <2>1. TypeOK'
    BY <1>0, <1>5
    DEF SetTryAgainInterval, TypeOK, logTimes, check, environment, history
  <2> QED BY <1>0, <1>5, <2>1, HostsUndisturbed DEF SetTryAgainInterval, IInv
<1>6. ASSUME NEW b \in BOOLEAN, SetOfflineMode(b) \/ SetNetworkTestSites(b) PROVE IInv'
  <2>1. TypeOK'
    BY <1>0, <1>6
    DEF SetOfflineMode, SetNetworkTestSites, TypeOK, logTimes, check, environment, history
  <2> QED BY <1>0, <1>6, <2>1, HostsUndisturbed
          DEF SetOfflineMode, SetNetworkTestSites, IInv
<1>7. CASE NetworkChanges
  <2>1. TypeOK'
    BY <1>0, <1>7 DEF NetworkChanges, TypeOK, settings, logTimes, check, history
  <2> QED BY <1>0, <1>7, <2>1, HostsUndisturbed DEF NetworkChanges, IInv
<1>8. CASE UNCHANGED vars
  <2>1. TypeOK'
    BY <1>0, <1>8
    DEF vars, TypeOK, settings, logTimes, check, environment, history
  <2> QED BY <1>0, <1>8, <2>1, HostsUndisturbed DEF vars, IInv
<1> QED BY <1>1, <1>2, <1>3, <1>4, <1>5, <1>6, <1>7, <1>8 DEF Next

-----------------------------------------------------------------------------
(* The theorems *)

\* The inductive invariant of the network status holds in every reachable state.
THEOREM Invariance == Spec => []IInv
BY InitIInv, NextIInv, PTL DEF Spec

\* Every reachable state is well typed; in particular no limit below one and no
\* negative interval is ever in use.
THEOREM TypeCorrect == Spec => []TypeOK
<1>1. IInv => TypeOK
  BY DEF IInv
<1> QED BY <1>1, Invariance, PTL

\* The listeners have been told of every host that isHostUnavailable() refuses,
\* for any number of threads that report failures and successes of it.
THEOREM RefusedAreAnnounced == Spec => []UnavailableIsAnnounced
<1>1. IInv => UnavailableIsAnnounced
  BY DEF IInv, AnnouncedInv, UnavailableIsAnnounced, Unavailable
<1> QED BY <1>1, Invariance, PTL

\* No attempt starts before the try-again interval has passed since the last failure
\* of a host that has failed as often as its limit allows since it last succeeded
\* or was let through after its interval, for any number of attempts under way.
THEOREM AttemptsKeepTheirDistance == Spec => NoEarlyAttempt
<1> DEFINE Distant ==
      \A c \in Clients, h \in Hosts :
        attempt[c] = NoHost /\ attempt'[c] = h /\ hostMap[h] # NoInfo =>
          \/ failures[h] < hostMap[h].attemptLimit
          \/ quiet[h] >= hostMap[h].tryAgainInterval
<1>1. ASSUME IInv, Next PROVE Distant
  <2> SUFFICES ASSUME NEW c \in Clients, NEW h \in Hosts,
                      attempt[c] = NoHost, attempt'[c] = h, hostMap[h] # NoInfo
               PROVE  \/ failures[h] < hostMap[h].attemptLimit
                      \/ quiet[h] >= hostMap[h].tryAgainInterval
    OBVIOUS
  <2>0. TypeOK /\ CountInv
    BY <1>1 DEF IInv
  <2>1. attempt' # attempt /\ h # NoHost
    OBVIOUS
  <2>2. PICK d \in Clients : ClientStep(d)
    BY <1>1, <2>1
    DEF Next, CheckStep, AssumeReachable, BeginTest, TestServer, TestSites, Tick,
        SetAttemptLimit, SetTryAgainInterval, SetOfflineMode, SetNetworkTestSites,
        NetworkChanges
  <2>3. IsHostUnavailable(c, h)
    <3>1. ~LogUnavailableHost(d)
      BY <2>0, <2>1 DEF LogUnavailableHost, TypeOK
    <3>2. ~LogAvailableHost(d)
      BY <2>0, <2>1 DEF LogAvailableHost, TypeOK
    <3>3. ~EndUnlogged(d)
      BY <2>0, <2>1 DEF EndUnlogged, TypeOK
    <3>4. PICK k \in Hosts : IsHostUnavailable(d, k)
      BY <2>2, <3>1, <3>2, <3>3 DEF ClientStep
    <3>5. d = c /\ k = h
      BY <2>0, <2>1, <3>4 DEF IsHostUnavailable, TypeOK
    <3> QED BY <3>4, <3>5
  <2>4. IsTimeToTryAgain(hostMap[h]) \/ ~IsUnavailable(hostMap[h])
    BY <2>3 DEF IsHostUnavailable, Unavailable
  <2>5. /\ hostMap[h] \in HostInfo
        /\ failures[h] \in Nat
    BY <2>0 DEF TypeOK
  <2>6. /\ quiet[h] = hostMap[h].age
        /\ IsUnavailable(hostMap[h]) \/ failures[h] <= hostMap[h].logCount
    BY <2>0 DEF CountInv
  <2> QED BY <2>4, <2>5, <2>6 DEF IsTimeToTryAgain, IsUnavailable, HostInfo
<1>2. IInv /\ [Next]_vars => [Distant]_vars
  BY <1>1
<1>3. Spec => [][Distant]_vars
  BY <1>2, Invariance, PTL DEF Spec
<1> QED BY <1>3 DEF NoEarlyAttempt
=============================================================================
