---------------------------- MODULE NetworkStatus ----------------------------
(***************************************************************************)
(* gov.nasa.worldwind.util.BasicNetworkStatus: which hosts have failed too *)
(* often to be tried now, and whether there is a network at all.           *)
(*                                                                         *)
(* A client asks isHostUnavailable(), attempts to reach the host and then  *)
(* reports what happened; the attempt is long and others run beside it.    *)
(* isNetworkUnavailable() opens connections to test sites and keeps the    *)
(* object's monitor while it waits for them: nobody asks or reports then,  *)
(* but the unsynchronized setters and the clock go on.  Times are kept as  *)
(* ages, and not told apart from MaxAge on.                                *)
(***************************************************************************)
EXTENDS Integers, FiniteSets

CONSTANTS
  Hosts,
  Clients,           \* threads that contact hosts
  NoHost,            \* a client that is not attempting to reach one
  NoInfo,            \* a host with no entry in hostMap
  AttemptLimits,     \* values applications pass to setAttemptLimit()
  TryAgainIntervals, \* ... to setTryAgainInterval()
  CheckIntervals,    \* ... to isNetworkUnavailable()
  MaxAge

ASSUME StatusAssumption ==
  /\ IsFiniteSet(Clients)
  /\ NoHost \notin Hosts
  /\ AttemptLimits \subseteq Int
  /\ AttemptLimits \cap (Nat \ {0}) # {}
  /\ TryAgainIntervals \subseteq Int
  /\ TryAgainIntervals \cap Nat # {}
  /\ CheckIntervals \subseteq Nat
  /\ MaxAge \in Nat
  /\ \A i \in TryAgainIntervals \cup CheckIntervals : i <= MaxAge

VARIABLES
  hostMap,           \* host -> its HostInfo, or NoInfo
  attemptLimit,
  tryAgainInterval,
  offlineMode,
  hasSites,          \* networkTestSites is not empty
  availableAge,      \* time since lastAvailableLogTime
  unavailableAge,    \* time since lastUnavailableLogTime
  successLast,       \* lastAvailableLogTime > lastUnavailableLogTime
  checkAge,          \* time since lastNetworkCheckTime
  unavailableResult, \* lastNetworkUnavailableResult
  test,              \* the host the test of the network is waiting for
  attempt,           \* the host each client is attempting to reach
  serverUp,          \* the environment: the World Wind server answers
  sitesUp,           \* the environment: the test sites answer
  announced,         \* history: hosts the listeners were told are unavailable
  failures,          \* history: reported failures of each host since it last
                     \* succeeded or was let through after its interval
  quiet              \* history: time since its last reported failure

settings == <<attemptLimit, tryAgainInterval, offlineMode, hasSites>>
logTimes == <<availableAge, unavailableAge, successLast>>
check == <<checkAge, unavailableResult, test>>
environment == <<serverUp, sitesUp>>
history == <<announced, failures, quiet>>
vars == <<hostMap, settings, logTimes, check, attempt, environment, history>>
-----------------------------------------------------------------------------

HostInfo == [logCount : Nat, attemptLimit : Nat \ {0}, tryAgainInterval : Nat,
             age : 0..MaxAge]

ASSUME NoInfoAssumption == NoInfo \notin HostInfo

IsUnavailable(info) == info.logCount >= info.attemptLimit
IsTimeToTryAgain(info) == info.age >= info.tryAgainInterval

\* The answer isHostUnavailable() gives when not in offline mode.
Unavailable(h) ==
  /\ hostMap[h] # NoInfo
  /\ ~IsTimeToTryAgain(hostMap[h])
  /\ IsUnavailable(hostMap[h])

\* The fields' initial values: the last success is one unit in the future.
Init ==
  /\ hostMap = [h \in Hosts |-> NoInfo]
  /\ attemptLimit \in AttemptLimits \cap (Nat \ {0})
  /\ tryAgainInterval \in TryAgainIntervals \cap Nat
  /\ offlineMode \in BOOLEAN
  /\ hasSites \in BOOLEAN
  /\ availableAge = -1
  /\ unavailableAge = 0
  /\ successLast = TRUE
  /\ checkAge = 0
  /\ unavailableResult = FALSE
  /\ test = "none"
  /\ attempt = [c \in Clients |-> NoHost]
  /\ serverUp \in BOOLEAN
  /\ sitesUp \in BOOLEAN
  /\ announced = {}
  /\ failures = [h \in Hosts |-> 0]
  /\ quiet = [h \in Hosts |-> MaxAge]

\* A thread may enter a synchronized method.
MonitorIsFree == test = "none"

-----------------------------------------------------------------------------
(* Hosts *)

\* History: a client is let through to the host.  If the try-again interval has
\* passed since its last failure, this is a new trial and its failures are counted
\* from here.
Tried(h) ==
  /\ failures' = [failures EXCEPT ![h] =
                    IF hostMap[h] # NoInfo /\ quiet[h] >= hostMap[h].tryAgainInterval
                    THEN 0 ELSE @]
  /\ UNCHANGED <<announced, quiet>>

\* Mutant of IsHostUnavailable: asking counts as news of the host.
IsHostUnavailableTouching(c, h) ==
  /\ MonitorIsFree
  /\ ~offlineMode
  /\ attempt[c] = NoHost
  /\ hostMap' = IF hostMap[h] = NoInfo THEN hostMap
                ELSE [hostMap EXCEPT ![h].age = 0]
  /\ attempt' = [attempt EXCEPT ![c] = IF Unavailable(h) THEN NoHost ELSE h]
  /\ Tried(h)
  /\ UNCHANGED <<settings, logTimes, check, environment>>

\* isHostUnavailable() returns false, and the client attempts to reach the host.
\* The count starts anew when it is time to try again, so the host needs as many
\* failures as at first to be refused again; by the documentation of NetworkStatus
\* a single one returns it to the unavailable state.  When the method returns true
\* it changes nothing.
IsHostUnavailable(c, h) ==
  /\ MonitorIsFree
  /\ ~offlineMode
  /\ attempt[c] = NoHost
  /\ ~Unavailable(h)
  /\ hostMap' = IF hostMap[h] # NoInfo /\ IsTimeToTryAgain(hostMap[h])
                THEN [hostMap EXCEPT ![h].logCount = 0]
                ELSE hostMap
  /\ attempt' = [attempt EXCEPT ![c] = h]
  /\ Tried(h)
  /\ UNCHANGED <<settings, logTimes, check, environment>>

\* Mutant of Logged: the time of a host's first failure is kept.
LoggedKeepingTime(info) ==
  IF info = NoInfo
  THEN [logCount |-> 1, attemptLimit |-> attemptLimit,
        tryAgainInterval |-> tryAgainInterval, age |-> 0]
  ELSE [info EXCEPT !.logCount = IF IsUnavailable(info) THEN @ ELSE @ + 1]

\* The host's info after another failure.  A new one keeps the limit and the
\* interval that are set at this moment.
Logged(info) ==
  IF info = NoInfo
  THEN [logCount |-> 1, attemptLimit |-> attemptLimit,
        tryAgainInterval |-> tryAgainInterval, age |-> 0]
  ELSE [info EXCEPT !.logCount = IF IsUnavailable(info) THEN @ ELSE @ + 1,
                    !.age = 0]

\* Mutant of BecameUnavailable: a limit of one attempt is forgotten.
BecameUnavailableLater(old, new) ==
  old # NoInfo /\ ~IsUnavailable(old) /\ IsUnavailable(new)

\* The listeners are told when a host has just become unavailable.
BecameUnavailable(old, new) ==
  (old = NoInfo \/ ~IsUnavailable(old)) /\ IsUnavailable(new)

\* The attempt has failed to reach the host.
LogUnavailableHost(c) ==
  LET h == attempt[c]
      info == Logged(hostMap[h])
  IN /\ MonitorIsFree
     /\ ~offlineMode
     /\ h # NoHost
     /\ hostMap' = [hostMap EXCEPT ![h] = info]
     /\ announced' = announced \cup IF BecameUnavailable(hostMap[h], info)
                                    THEN {h} ELSE {}
     /\ unavailableAge' = 0
     /\ successLast' = (availableAge < 0)
     /\ failures' = [failures EXCEPT ![h] = @ + 1]
     /\ quiet' = [quiet EXCEPT ![h] = 0]
     /\ attempt' = [attempt EXCEPT ![c] = NoHost]
     /\ UNCHANGED <<settings, availableAge, check, environment>>

\* The attempt has succeeded; or the retriever was interrupted, which it reports
\* in the same way.
LogAvailableHost(c) ==
  LET h == attempt[c]
  IN /\ MonitorIsFree
     /\ ~offlineMode
     /\ h # NoHost
     /\ hostMap' = [hostMap EXCEPT ![h] = NoInfo]
     /\ announced' = announced \ {h}
     /\ availableAge' = 0
     /\ successLast' = (unavailableAge > 0)
     /\ failures' = [failures EXCEPT ![h] = 0]
     /\ quiet' = [quiet EXCEPT ![h] = MaxAge]
     /\ attempt' = [attempt EXCEPT ![c] = NoHost]
     /\ UNCHANGED <<settings, unavailableAge, check, environment>>

\* The attempt ends and nothing is logged: a read timed out, or the network
\* status is in offline mode when the retriever reports.
EndUnlogged(c) ==
  /\ attempt[c] # NoHost
  /\ attempt' = [attempt EXCEPT ![c] = NoHost]
  /\ UNCHANGED <<hostMap, settings, logTimes, check, environment, history>>

-----------------------------------------------------------------------------
(* The network *)

RecentlyReached(i) == ~unavailableResult /\ availableAge < i
RecentlyChecked(i) == checkAge < i

\* isNetworkUnavailable() finds more recent successes than failures.
AssumeReachable ==
  /\ MonitorIsFree
  /\ ~offlineMode
  /\ successLast
  /\ unavailableResult' = FALSE
  /\ UNCHANGED <<hostMap, settings, logTimes, checkAge, test, attempt,
                 environment, history>>

\* Mutant of BeginTest: every question counts as a check of the network.
BeginTestTouching(i) ==
  /\ MonitorIsFree
  /\ ~offlineMode
  /\ ~successLast
  /\ ~RecentlyReached(i)
  /\ checkAge' = 0
  /\ test' = IF RecentlyChecked(i) THEN "none" ELSE "server"
  /\ UNCHANGED <<hostMap, settings, logTimes, unavailableResult, attempt,
                 environment, history>>

\* isNetworkUnavailable() has neither a recent success nor a recent result to go
\* by and tests the network; in the other cases it returns the earlier result
\* and changes nothing.
BeginTest(i) ==
  /\ MonitorIsFree
  /\ ~offlineMode
  /\ ~successLast
  /\ ~RecentlyReached(i)
  /\ ~RecentlyChecked(i)
  /\ checkAge' = 0
  /\ test' = "server"
  /\ UNCHANGED <<hostMap, settings, logTimes, unavailableResult, attempt,
                 environment, history>>

\* isWorldWindServerUnavailable() looks at the offline mode once more.
TestServer ==
  /\ test = "server"
  /\ IF serverUp /\ ~offlineMode
     THEN /\ unavailableResult' = FALSE
          /\ test' = "none"
     ELSE /\ test' = "sites"
          /\ UNCHANGED unavailableResult
  /\ UNCHANGED <<hostMap, settings, logTimes, checkAge, attempt, environment,
                 history>>

\* Mutant of TestSites: the result is not set when no site answers.
TestSitesUnset ==
  /\ test = "sites"
  /\ unavailableResult' = IF hasSites /\ sitesUp THEN FALSE ELSE unavailableResult
  /\ test' = "none"
  /\ UNCHANGED <<hostMap, settings, logTimes, checkAge, attempt, environment,
                 history>>

\* The sites are tested one after the other, and one that answers is enough.
TestSites ==
  /\ test = "sites"
  /\ unavailableResult' = ~(hasSites /\ sitesUp)
  /\ test' = "none"
  /\ UNCHANGED <<hostMap, settings, logTimes, checkAge, attempt, environment,
                 history>>

-----------------------------------------------------------------------------
(* Time, settings and the environment *)

AgeOf(a) == IF a < MaxAge THEN a + 1 ELSE MaxAge

Tick ==
  /\ hostMap' = [h \in Hosts |->
                   IF hostMap[h] = NoInfo THEN NoInfo
                   ELSE [hostMap[h] EXCEPT !.age = AgeOf(@)]]
  /\ availableAge' = AgeOf(availableAge)
  /\ unavailableAge' = AgeOf(unavailableAge)
  /\ checkAge' = AgeOf(checkAge)
  /\ quiet' = [h \in Hosts |-> AgeOf(quiet[h])]
  /\ UNCHANGED <<settings, successLast, unavailableResult, test, attempt,
                 environment, announced, failures>>

\* Mutant of SetAttemptLimit: the value is not checked.
SetAttemptLimitUnchecked(n) ==
  /\ attemptLimit' = n
  /\ UNCHANGED <<hostMap, tryAgainInterval, offlineMode, hasSites, logTimes,
                 check, attempt, environment, history>>

SetAttemptLimit(n) ==
  /\ n >= 1
  /\ attemptLimit' = n
  /\ UNCHANGED <<hostMap, tryAgainInterval, offlineMode, hasSites, logTimes,
                 check, attempt, environment, history>>

SetTryAgainInterval(i) ==
  /\ i >= 0
  /\ tryAgainInterval' = i
  /\ UNCHANGED <<hostMap, attemptLimit, offlineMode, hasSites, logTimes, check,
                 attempt, environment, history>>

SetOfflineMode(b) ==
  /\ offlineMode' = b
  /\ UNCHANGED <<hostMap, attemptLimit, tryAgainInterval, hasSites, logTimes,
                 check, attempt, environment, history>>

\* setNetworkTestSites() first clears the list and then fills it.
SetNetworkTestSites(b) ==
  /\ hasSites' = b
  /\ UNCHANGED <<hostMap, attemptLimit, tryAgainInterval, offlineMode, logTimes,
                 check, attempt, environment, history>>

\* The network comes and goes.
NetworkChanges ==
  /\ serverUp' \in BOOLEAN
  /\ sitesUp' \in BOOLEAN
  /\ UNCHANGED <<hostMap, settings, logTimes, check, attempt, history>>

ClientStep(c) ==
  \/ \E h \in Hosts : IsHostUnavailable(c, h)
  \/ LogUnavailableHost(c)
  \/ LogAvailableHost(c)
  \/ EndUnlogged(c)

\* isNetworkUnavailable(), as NetworkCheckThread and the applications call it.
CheckStep ==
  \/ AssumeReachable
  \/ \E i \in CheckIntervals : BeginTest(i)
  \/ TestServer
  \/ TestSites

Next ==
  \/ \E c \in Clients : ClientStep(c)
  \/ CheckStep
  \/ Tick
  \/ \E n \in AttemptLimits : SetAttemptLimit(n)
  \/ \E i \in TryAgainIntervals : SetTryAgainInterval(i)
  \/ \E b \in BOOLEAN : SetOfflineMode(b) \/ SetNetworkTestSites(b)
  \/ NetworkChanges

Spec == Init /\ [][Next]_vars

\* Time passes, NetworkCheckThread asks once in a second, and the tests end
\* because they have timeouts.
FairSpec == Spec /\ WF_vars(Tick) /\ WF_vars(CheckStep)
-----------------------------------------------------------------------------
(* Properties *)

\* The types of the variables; the limits and intervals that were accepted are
\* those the setters are documented to accept.
TypeOK ==
  /\ hostMap \in [Hosts -> HostInfo \cup {NoInfo}]
  /\ attemptLimit \in Nat \ {0}
  /\ tryAgainInterval \in Nat
  /\ {offlineMode, hasSites, successLast, unavailableResult, serverUp, sitesUp}
       \subseteq BOOLEAN
  /\ availableAge \in -1..MaxAge
  /\ {unavailableAge, checkAge} \subseteq 0..MaxAge
  /\ test \in {"none", "server", "sites"}
  /\ attempt \in [Clients -> Hosts \cup {NoHost}]
  /\ announced \subseteq Hosts
  /\ failures \in [Hosts -> Nat]
  /\ quiet \in [Hosts -> 0..MaxAge]

\* A host that isHostUnavailable() would refuse has been announced as unavailable
\* to the listeners, and no announcement of its return has followed.
UnavailableIsAnnounced ==
  \A h \in Hosts : Unavailable(h) => h \in announced

\* Once a host has failed as often as its limit allows, counted from its last
\* success or from the last time it was let through after its interval, nobody
\* starts an attempt to reach it before its try-again interval has passed since the
\* last of all its failures: late failures of attempts under way count and prolong
\* the wait.  (With a limit above one the code lets clients through again after the
\* first failure of a new trial, which its documentation denies.)
NoEarlyAttempt ==
  [][\A c \in Clients, h \in Hosts :
       attempt[c] = NoHost /\ attempt'[c] = h /\ hostMap[h] # NoInfo =>
         \/ failures[h] < hostMap[h].attemptLimit
         \/ quiet[h] >= hostMap[h].tryAgainInterval]_vars

\* "The implementation marks a host as not unreachable after a specifiable
\* interval of time": no host is unavailable for ever, whatever the attempts that
\* were under way report.
HostIsTriedAgain == \A h \in Hosts : Unavailable(h) ~> ~Unavailable(h)

\* When the network has gone, a failure was reported last and no success comes
\* in, isNetworkUnavailable() finds out.
OutageIsNoticed ==
  ~serverUp /\ ~sitesUp /\ ~successLast
    ~> unavailableResult \/ serverUp \/ sitesUp \/ offlineMode \/ availableAge <= 0

\* When the World Wind server can be reached again, isNetworkUnavailable() finds
\* out, although it is asked more often than it may test.
RecoveryIsNoticed ==
  unavailableResult /\ serverUp ~> ~unavailableResult \/ ~serverUp \/ offlineMode
-----------------------------------------------------------------------------
(* The inductive strengthening of the safety properties *)

\* A host with as many failures as its limit allows has been announced, even if it
\* may be tried again.
AnnouncedInv ==
  \A h \in Hosts :
    hostMap[h] # NoInfo /\ IsUnavailable(hostMap[h]) => h \in announced

\* A host's info tells the time of its last failure, and has missed none since its
\* last trial began, except that it stops counting at its limit.
CountInv ==
  \A h \in Hosts :
    IF hostMap[h] = NoInfo
    THEN failures[h] = 0
    ELSE /\ quiet[h] = hostMap[h].age
         /\ IsUnavailable(hostMap[h]) \/ failures[h] <= hostMap[h].logCount

IInv == TypeOK /\ AnnouncedInv /\ CountInv
=============================================================================
