------------------------------ MODULE FileStore ------------------------------
(***************************************************************************)
(* gov.nasa.worldwind.cache.BasicDataFileStore: requestFile() returns the  *)
(* URL of a local copy of a remote file, or has it retrieved.              *)
(*                                                                         *)
(* Its methods are synchronized, but the files are written by downloads    *)
(* that are not, and the entries that say what is pending and what is      *)
(* local are in a memory cache that evicts them.  The absent resource list *)
(* is the set of addresses it would refuse now.                            *)
(*                                                                         *)
(* Addresses are remote URLs, each always requested with the same          *)
(* cacheRemoteFile; for other addresses requestFile() only looks for a     *)
(* file.  file[r] is the file last written for address r.                  *)
(***************************************************************************)
EXTENDS Download

CONSTANTS
  Hidden,      \* addresses whose file is saved where getLocalFileUrl() does not
               \* look: a temporary file, because cacheRemoteFile is false or the
               \* path too long, or a name with the suffix of the content type
               \* after the address's own short one
  NoEntry,     \* the entry of an address that has none
  MaxEntries,  \* most entries the db can hold
  MaxFaults,   \* failures, removals and restarts in one execution
  MayRestart   \* whether there are restarts

\* hasUrl: localUrl is not null; old: TIMEOUT has passed since lastUpdateTime.
DBEntry == [state : {"pending", "local"}, hasUrl : BOOLEAN, old : BOOLEAN]

ASSUME StoreAssumption ==
  /\ Hidden \subseteq Resources
  /\ NoEntry \notin DBEntry
  /\ MaxEntries \in Nat \ {0}
  /\ MaxFaults \in Nat
  /\ MayRestart \in BOOLEAN

VARIABLES
  db,          \* address -> its DBEntry
  absent,      \* addresses for which isResourceAbsent() is true
  faults,      \* those that may still happen
  issued       \* history: addresses requested from the service less than TIMEOUT
               \* ago, whose entry has not been evicted, replaced or removed

storeVars == <<db, absent, issued>>
vars == <<downloadVars, storeVars, faults>>

Pending == [state |-> "pending", hasUrl |-> FALSE, old |-> FALSE]
Local(url) == [state |-> "local", hasUrl |-> url, old |-> FALSE]

HasEntry(r) == db[r] # NoEntry
IsLocal(r) == HasEntry(r) /\ db[r].state = "local"
IsPending(r) == HasEntry(r) /\ db[r].state = "pending"
Entries == {r \in Resources : HasEntry(r)}

Init ==
  /\ NoRequests
  /\ file \in [Resources -> {"none", "full"}]
  /\ db = [r \in Resources |-> NoEntry]
  /\ absent = {}
  /\ faults = MaxFaults
  /\ issued = {}

Fault == faults > 0 /\ faults' = faults - 1

-----------------------------------------------------------------------------
(* requestFile() and removeFile() *)

\* db.add(r, entry) evicts other entries when there is no room, which depends on
\* the lengths of their addresses.
AddEntry(r, entry) ==
  \E out \in SUBSET (Entries \ {r}) :
    /\ Cardinality(Entries \ (out \cup {r})) < MaxEntries
    /\ db' = [s \in Resources |-> IF s = r THEN entry
                                  ELSE IF s \in out THEN NoEntry ELSE db[s]]
    /\ issued' = IF entry.state = "pending" THEN (issued \ out) \cup {r}
               ELSE issued \ (out \cup {r})

\* Mutant of MustLook: a request that was lost is waited for without end.
MustLookUnlessPending(r) ==
  /\ r \notin absent
  /\ ~IsLocal(r)
  /\ ~IsPending(r)

\* requestFile() neither returns the URL of an entry nor waits for a retrieval.
MustLook(r) ==
  /\ r \notin absent
  /\ ~IsLocal(r)
  /\ ~(IsPending(r) /\ ~db[r].old)

\* getLocalFileUrl() looks for the name the file would have in the cache, guesses
\* the content type only of an address without a suffix, and does not look into
\* the cache at all when cacheRemoteFile is false.
Found(r) == r \notin Hidden /\ file[r] # "none"

\* It finds the file, and makes an entry for it.
FindLocalFile(r) ==
  /\ MustLook(r)
  /\ Found(r)
  /\ AddEntry(r, Local(TRUE))
  /\ absent' = absent \ {r}
  /\ UNCHANGED <<downloadVars, faults>>

\* Mutant of MakeLocal: the new entry is not marked as pending.
MakeLocalUnmarked(r) ==
  /\ MustLook(r)
  /\ ~Found(r)
  /\ AddEntry(r, [Pending EXCEPT !.old = TRUE])
  /\ \E x \in Requests : RunRetriever(x, r)
  /\ UNCHANGED <<file, absent, faults>>

\* It finds none: makeLocal(), while the service is available and the host not
\* known to be unavailable.  A request for the same URL in the service may make it
\* refuse this one; it need not, see RetrievalService.
MakeLocal(r) ==
  /\ MustLook(r)
  /\ ~Found(r)
  /\ AddEntry(r, Pending)
  /\ \/ \E x \in Requests : RunRetriever(x, r)
     \/ RequestsFor(r) # {} /\ UNCHANGED requestVars
  /\ UNCHANGED <<file, absent, faults>>

\* removeFile() deletes the file and the entry; it throws when there is no URL.
\* Applications do so now and then, which counts as a fault.
RemoveFile(r) ==
  /\ Fault
  /\ IsLocal(r)
  /\ db[r].hasUrl
  /\ DeleteFile(r)
  /\ db' = [db EXCEPT ![r] = NoEntry]
  /\ issued' = issued \ {r}
  /\ UNCHANGED absent

-----------------------------------------------------------------------------
(* The post-processor *)

MarkResourceAbsent(r) == absent' = absent \cup {r}

\* updateEntry(), unless the entry has been evicted or removed.
UpdateEntry(r, url) ==
  /\ db' = IF HasEntry(r) THEN [db EXCEPT ![r] = Local(url)] ELSE db
  /\ issued' = issued \ {r}

\* handleUnsuccessfulRetrieval() marks the resource after an error, but not after
\* an interrupt.
HandleUnsuccessfulRetrieval(x) ==
  /\ phase[x] = "post"
  /\ outcome[x] # "successful"
  /\ IF outcome[x] = "error" THEN MarkResourceAbsent(target[x]) ELSE UNCHANGED absent
  /\ CallEnds(x)
  /\ UNCHANGED <<file, db, issued, faults>>

\* The server has answered, with another response code than OK.
HandleInvalidResponseCode(x) ==
  /\ phase[x] = "post"
  /\ outcome[x] = "successful"
  /\ Fault
  /\ MarkResourceAbsent(target[x])
  /\ CallEnds(x)
  /\ UNCHANGED <<file, db, issued>>

\* The content has no type, an unknown type, or is an exception of a map server;
\* or it is an image and no output file can be created for it.  Nobody is told.
IgnoreContent(x) ==
  /\ phase[x] = "post"
  /\ outcome[x] = "successful"
  /\ Fault
  /\ CallEnds(x)
  /\ UNCHANGED <<file, storeVars>>

\* No output file can be created for text or application content: updateEntry() is
\* given no URL, fails half-way, and its exception is dropped.
SaveNowhere(x) ==
  /\ phase[x] = "post"
  /\ outcome[x] = "successful"
  /\ Fault
  /\ UpdateEntry(target[x], FALSE)
  /\ CallEnds(x)
  /\ UNCHANGED <<file, absent>>

SaveContent(x) ==
  /\ phase[x] = "post"
  /\ outcome[x] = "successful"
  /\ GoOn(x, "save")
  /\ UNCHANGED <<status, target, outcome, file, storeVars, faults>>

SaveFails(x) ==
  /\ Fault
  /\ WriteFails(x)
  /\ \/ MarkResourceAbsent(target[x])
     \/ UNCHANGED absent
  /\ UNCHANGED <<db, issued>>

\* saveBuffer() returns.  The DDS images are saved without updateEntry().
SaveEnds(x) ==
  /\ phase[x] = "saved"
  /\ UpdateEntry(target[x], TRUE) \/ UNCHANGED <<db, issued>>
  /\ CallEnds(x)
  /\ UNCHANGED <<file, absent, faults>>

-----------------------------------------------------------------------------
(* Time, the service and the program *)

\* TIMEOUT has passed since the entry was made.
PendingTimesOut(r) ==
  /\ IsPending(r)
  /\ ~db[r].old
  /\ db' = [db EXCEPT ![r].old = TRUE]
  /\ issued' = issued \ {r}
  /\ UNCHANGED <<downloadVars, absent, faults>>

\* The list's interval has elapsed, or the resource's entry is ejected from it.
AbsenceEnds(r) ==
  /\ r \in absent
  /\ absent' = absent \ {r}
  /\ UNCHANGED <<downloadVars, db, issued, faults>>

\* World Wind is shut down or dies and is started again: the files are all that
\* is left.
Restart ==
  /\ MayRestart
  /\ Fault
  /\ status' = [x \in Requests |-> "none"]
  /\ target' = [x \in Requests |-> NoResource]
  /\ phase' = [x \in Requests |-> "none"]
  /\ outcome' = [x \in Requests |-> "none"]
  /\ db' = [r \in Resources |-> NoEntry]
  /\ absent' = {}
  /\ issued' = {}
  /\ UNCHANGED file

RequestFile(r) == FindLocalFile(r) \/ MakeLocal(r)

\* What a download does of itself; the rest may happen to it.
RequestStep(x) ==
  \/ StartCall(x) /\ UNCHANGED <<storeVars, faults>>
  \/ ReadEnds(x, "successful") /\ UNCHANGED <<storeVars, faults>>
  \/ HandleUnsuccessfulRetrieval(x)
  \/ SaveContent(x)
  \/ OpenFile(x) /\ UNCHANGED <<storeVars, faults>>
  \/ OpenFileTwice(x) /\ UNCHANGED <<storeVars, faults>>
  \/ WriteFile(x) /\ UNCHANGED <<storeVars, faults>>
  \/ SaveEnds(x)
  \/ Discard(x) /\ UNCHANGED <<storeVars, faults>>

RequestFails(x) ==
  \/ DropRequest(x) /\ Fault /\ UNCHANGED storeVars
  \/ \E s \in {"error", "interrupted"} :
       ReadEnds(x, s) /\ Fault /\ UNCHANGED storeVars
  \/ HandleInvalidResponseCode(x)
  \/ IgnoreContent(x)
  \/ SaveNowhere(x)
  \/ SaveFails(x)

TimeStep(r) == PendingTimesOut(r) \/ AbsenceEnds(r)

Next ==
  \/ \E r \in Resources : RequestFile(r) \/ RemoveFile(r) \/ TimeStep(r)
  \/ \E x \in Requests : RequestStep(x) \/ RequestFails(x)
  \/ Restart

Spec == Init /\ [][Next]_vars

\* The application asks for its files again and again, as KML documents and icons
\* do in every frame, and one file that is requested over and over does not keep the
\* service, whose queue is far longer than Requests, from another for ever; the
\* service and its downloads make progress (for the former, see RetrievalService);
\* time passes.
FairSpec ==
  /\ Spec
  /\ \A r \in Resources : SF_vars(RequestFile(r)) /\ WF_vars(TimeStep(r))
  /\ \A x \in Requests : WF_vars(RequestStep(x))
-----------------------------------------------------------------------------
(* Properties *)

\* The types of the variables; the db keeps to its size, and an address whose
\* retrieval was issued within TIMEOUT has a pending entry.
TypeOK ==
  /\ DownloadTypeOK
  /\ db \in [Resources -> DBEntry \cup {NoEntry}]
  /\ Cardinality(Entries) <= MaxEntries
  /\ absent \subseteq Resources
  /\ faults \in 0..MaxFaults
  /\ issued \subseteq {r \in Resources : IsPending(r) /\ ~db[r].old}

\* TIMEOUT is the time "to wait before a retrieval request for the same file can
\* be reissued": as long as the db keeps the entry, no second retrieval is
\* requested within it.
NoEarlyReissue ==
  [][\A r \in Resources :
       Cardinality(RequestsFor(r)') > Cardinality(RequestsFor(r)) => r \notin issued]_vars

StuckWithoutUrl(r) == IsLocal(r) /\ ~db[r].hasUrl

\* A file is saved where the store does not look for it, and no entry points to it:
\* it is a DDS image, or the entry was evicted while it was downloaded.
SavedUnseen(r) ==
  /\ r \in Hidden
  /\ \E x \in Requests : target[x] = r /\ SaveEnds(x)
  /\ ~IsLocal(r)'

\* However the retrieval ends, the store is not left waiting for it, nor the
\* resource absent: when the failures cease, each file that is asked for gets a
\* local URL, and again after it was removed or its entry evicted.  The exceptions
\* are an entry that SaveNowhere has left local without a URL, for as long as the
\* db keeps it, and an address of Hidden whose file is downloaded and saved over
\* and over with no entry to point to it.
BecomesLocal ==
  \A r \in Resources :
    \/ <>[]StuckWithoutUrl(r)
    \/ []<><<SavedUnseen(r)>>_vars
    \/ []<>(IsLocal(r) /\ db[r].hasUrl)

-----------------------------------------------------------------------------
(* The inductive strengthening of TypeOK *)

IInv == TypeOK /\ IsFiniteSet(Entries)

-----------------------------------------------------------------------------
(* A statement of the source that the code does not live up to *)

\* requestFile() returns "the file's URL if it exists locally or is a remote file
\* that has been retrieved", and saveBuffer() does not mean to "leave behind
\* incomplete files".  It does when writing fails at its first byte, and every
\* later request is answered with the URL of that file.
LocalFileIsComplete ==
  \A r \in Resources :
    IsLocal(r) /\ db[r].hasUrl /\ Writers(r) = {} => file[r] = "full"
=============================================================================
