--------------------------- MODULE FileStoreProofs ---------------------------
(***************************************************************************)
(* For any number of addresses, downloads and entries: the db of a         *)
(* BasicDataFileStore keeps to its size and remembers what it has issued,  *)
(* and no retrieval is reissued within TIMEOUT while its entry is kept.    *)
(***************************************************************************)
EXTENDS FileStore, DownloadProofs, FiniteSetTheorems

USE DownloadAssumption, StoreAssumption

-----------------------------------------------------------------------------
(* Lemmas *)

\* The part of the type invariant that is about the store.
StoreTypeOK ==
  /\ db \in [Resources -> DBEntry \cup {NoEntry}]
  /\ IsFiniteSet(Entries)
  /\ Cardinality(Entries) <= MaxEntries
  /\ absent \subseteq Resources
  /\ faults \in 0..MaxFaults
  /\ issued \subseteq {r \in Resources : IsPending(r) /\ ~db[r].old}

\* No request gets a resource it did not have.
NoNewRequest == \A x \in Requests : target'[x] \in {target[x], NoResource}

\* The inductive invariant has these two parts.
LEMMA Parts == IInv <=> DownloadTypeOK /\ StoreTypeOK
BY DEF IInv, TypeOK, StoreTypeOK

\* A new pending entry is one.
LEMMA PendingType ==
  Pending \in DBEntry /\ Pending # NoEntry /\ Pending.state = "pending" /\ Pending.old = FALSE
<1>1. Pending \in DBEntry
  BY DEF Pending, DBEntry
<1> QED BY <1>1 DEF Pending

\* A new local entry is one.
LEMMA LocalType ==
  ASSUME NEW url \in BOOLEAN
  PROVE  Local(url) \in DBEntry /\ Local(url) # NoEntry /\ Local(url).state = "local"
<1>1. Local(url) \in DBEntry
  BY DEF Local, DBEntry
<1> QED BY <1>1 DEF Local

\* db.add() makes room: the db does not outgrow its size.
LEMMA AddEntryKeeps ==
  ASSUME StoreTypeOK, NEW r \in Resources, NEW entry \in {Pending, Local(TRUE)},
         AddEntry(r, entry), absent' \subseteq Resources, UNCHANGED faults
  PROVE  StoreTypeOK'
<1>1. PICK out \in SUBSET (Entries \ {r}) :
        /\ Cardinality(Entries \ (out \cup {r})) < MaxEntries
        /\ db' = [s \in Resources |-> IF s = r THEN entry
                                      ELSE IF s \in out THEN NoEntry ELSE db[s]]
        /\ issued' = IF entry.state = "pending" THEN (issued \ out) \cup {r}
                     ELSE issued \ (out \cup {r})
  BY DEF AddEntry
<1>2. entry \in DBEntry /\ entry # NoEntry
  BY PendingType, LocalType
<1>3. db' \in [Resources -> DBEntry \cup {NoEntry}]
  BY <1>1, <1>2 DEF StoreTypeOK
<1> DEFINE Kept == Entries \ (out \cup {r})
<1>4. Entries' = Kept \cup {r}
  BY <1>1, <1>2 DEF Entries, HasEntry
<1>5. IsFiniteSet(Kept) /\ Cardinality(Kept) \in Nat /\ r \notin Kept
  <2>1. IsFiniteSet(Entries) /\ Kept \in SUBSET Entries
    BY DEF StoreTypeOK
  <2>2. IsFiniteSet(Kept)
    BY <2>1, FS_Subset
  <2> QED BY <2>2, FS_CardinalityType
<1>6. IsFiniteSet(Entries') /\ Cardinality(Entries') = Cardinality(Kept) + 1
  BY <1>4, <1>5, FS_AddElement
<1>7. Cardinality(Entries') <= MaxEntries
  BY <1>1, <1>5, <1>6
<1>8. ASSUME NEW s \in issued' PROVE s \in Resources /\ IsPending(s)' /\ ~db'[s].old
  <2>1. CASE s = r
    <3>1. entry = Pending
      <4>1. entry.state = "pending"
        BY <1>1, <1>8, <2>1
      <4> QED BY <4>1, LocalType
    <3>2. db'[r] = Pending
      BY <1>1, <3>1
    <3> QED BY <2>1, <3>2, PendingType DEF IsPending, HasEntry
  <2>2. CASE s # r
    <3>1. s \in issued /\ s \notin out
      BY <1>1, <1>8, <2>2
    <3>2. s \in Resources /\ IsPending(s) /\ ~db[s].old
      BY <3>1 DEF StoreTypeOK
    <3>3. db'[s] = db[s]
      BY <1>1, <2>2, <3>1, <3>2
    <3> QED BY <3>2, <3>3 DEF IsPending, HasEntry
  <2> QED BY <2>1, <2>2
<1> QED BY <1>3, <1>6, <1>7, <1>8 DEF StoreTypeOK

\* A step that adds no entry keeps the size, and an issued address that it leaves
\* in issued keeps its entry.
LEMMA ShrinkKeeps ==
  ASSUME StoreTypeOK, db' \in [Resources -> DBEntry \cup {NoEntry}],
         \A r \in Resources : db'[r] # NoEntry => db[r] # NoEntry,
         \A r \in issued' : r \in issued /\ db'[r] = db[r],
         absent' \subseteq Resources, faults' \in 0..MaxFaults
  PROVE  StoreTypeOK'
<1>1. Entries' \in SUBSET Entries /\ IsFiniteSet(Entries)
  BY DEF Entries, HasEntry, StoreTypeOK
<1>2. IsFiniteSet(Entries') /\ Cardinality(Entries') <= Cardinality(Entries)
  BY <1>1, FS_Subset
<1>3. Cardinality(Entries') \in Nat /\ Cardinality(Entries) \in Nat
  BY <1>1, <1>2, FS_CardinalityType
<1>4. Cardinality(Entries') <= MaxEntries
  BY <1>2, <1>3 DEF StoreTypeOK
<1>5. ASSUME NEW s \in issued' PROVE s \in Resources /\ IsPending(s)' /\ ~db'[s].old
  <2>1. s \in Resources /\ IsPending(s) /\ ~db[s].old
    BY <1>5 DEF StoreTypeOK
  <2> QED BY <1>5, <2>1 DEF IsPending, HasEntry
<1> QED BY <1>2, <1>4, <1>5 DEF StoreTypeOK

\* A step that touches neither the db nor the history.
LEMMA StoreStays ==
  ASSUME StoreTypeOK, UNCHANGED <<db, issued>>,
         absent' \subseteq Resources, faults' \in 0..MaxFaults
  PROVE  StoreTypeOK'
<1>1. db' \in [Resources -> DBEntry \cup {NoEntry}]
  BY DEF StoreTypeOK
<1> QED BY <1>1, ShrinkKeeps

\* updateEntry() changes an entry that is there.
LEMMA UpdateEntryKeeps ==
  ASSUME StoreTypeOK, NEW r \in Resources, NEW url \in BOOLEAN, UpdateEntry(r, url),
         absent' \subseteq Resources, faults' \in 0..MaxFaults
  PROVE  StoreTypeOK'
<1>1. db' \in [Resources -> DBEntry \cup {NoEntry}]
  BY LocalType DEF UpdateEntry, StoreTypeOK
<1>2. \A s \in Resources : db'[s] # NoEntry => db[s] # NoEntry
  BY DEF UpdateEntry, StoreTypeOK, HasEntry
<1>3. ASSUME NEW s \in issued' PROVE s \in issued /\ db'[s] = db[s]
  BY <1>3 DEF UpdateEntry, StoreTypeOK
<1> QED BY <1>1, <1>2, <1>3, ShrinkKeeps

\* A fault is used up.
LEMMA FaultType ==
  ASSUME StoreTypeOK, Fault PROVE faults' \in 0..MaxFaults
BY DEF StoreTypeOK, Fault

-----------------------------------------------------------------------------
(* What the steps of a download do to the requests *)

\* The end of a call.
LEMMA EndKeeps ==
  ASSUME DownloadTypeOK, NEW x \in Requests, CallEnds(x),
         file' \in [Resources -> {"none", "empty", "torn", "full"}]
  PROVE  DownloadTypeOK' /\ NoNewRequest
<1>1. DownloadTypeOK'
  BY CallEndsType
<1>2. target' = [target EXCEPT ![x] = NoResource]
  BY DEF CallEnds, CallEndsWith
<1> QED BY <1>1, <1>2 DEF DownloadTypeOK, NoNewRequest

\* The end of a call that has not touched the file.
LEMMA QuietEndKeeps ==
  ASSUME DownloadTypeOK, NEW x \in Requests, CallEnds(x), UNCHANGED file
  PROVE  DownloadTypeOK' /\ NoNewRequest
<1>1. file' \in [Resources -> {"none", "empty", "torn", "full"}]
  BY DEF DownloadTypeOK
<1> QED BY <1>1, EndKeeps

\* The steps that belong to the download alone.
LEMMA DownloadKeeps ==
  ASSUME DownloadTypeOK, NEW x \in Requests,
         \/ StartCall(x) \/ DropRequest(x) \/ Discard(x)
         \/ \E s \in Outcomes : ReadEnds(x, s)
         \/ OpenFile(x) \/ OpenFileTwice(x) \/ WriteFile(x) \/ WriteFails(x)
  PROVE  DownloadTypeOK' /\ NoNewRequest
<1>f. ASSUME NEW r, NEW f \in {"none", "empty", "torn", "full"}, SetFile(r, f)
      PROVE  file' \in [Resources -> {"none", "empty", "torn", "full"}]
  BY <1>f DEF SetFile, DownloadTypeOK
<1>1. CASE StartCall(x)
  BY <1>1, StartCallType DEF StartCall, NoNewRequest
<1>2. CASE DropRequest(x)
  <2>1. DownloadTypeOK'
    BY <1>2, DropRequestType
  <2> QED BY <1>2, <2>1 DEF DropRequest, NoNewRequest, DownloadTypeOK
<1>3. CASE Discard(x)
  BY <1>3, DiscardType DEF Discard, NoNewRequest
<1>4. ASSUME NEW s \in Outcomes, ReadEnds(x, s) PROVE DownloadTypeOK' /\ NoNewRequest
  BY <1>4, ReadEndsType DEF ReadEnds, NoNewRequest
<1>5. CASE OpenFile(x)
  <2>1. /\ phase[x] # "none" /\ GoOn(x, "write") /\ "write" \in Phases \ {"none"}
        /\ UNCHANGED <<status, target, outcome>>
    BY <1>5 DEF OpenFile, Phases
  <2>2. file' \in [Resources -> {"none", "empty", "torn", "full"}]
    BY <1>5, <1>f DEF OpenFile
  <2>3. DownloadTypeOK'
    BY <2>1, <2>2, GoOnType DEF DownloadTypeOK
  <2> QED BY <2>1, <2>3 DEF NoNewRequest
<1>6. CASE OpenFileTwice(x)
  BY <1>6, <1>f, EndKeeps DEF OpenFileTwice
<1>7. CASE WriteFile(x)
  <2>1. /\ phase[x] # "none" /\ GoOn(x, "saved") /\ "saved" \in Phases \ {"none"}
        /\ UNCHANGED <<status, target, outcome>>
    BY <1>7 DEF WriteFile, Phases
  <2>2. target[x] \in Resources
    BY <2>1, TargetType
  <2>3. file' \in [Resources -> {"none", "empty", "torn", "full"}]
    BY <1>7, <2>2 DEF WriteFile, SetFile, DownloadTypeOK
  <2>4. DownloadTypeOK'
    BY <2>1, <2>3, GoOnType DEF DownloadTypeOK
  <2> QED BY <2>1, <2>4 DEF NoNewRequest
<1>8. CASE WriteFails(x)
  <2>1. CASE CallEnds(x) /\ UNCHANGED file
    BY <2>1, QuietEndKeeps
  <2>2. CASE CallEndsWith(x, Orphaned(target[x])) /\ SetFile(target[x], "none")
    <3>1. file' \in [Resources -> {"none", "empty", "torn", "full"}]
      BY <2>2, <1>f
    <3>2. /\ Orphaned(target[x]) \in [Requests -> Phases]
          /\ \A y \in Requests : Orphaned(target[x])[y] # "none" <=> phase[y] # "none"
      BY OrphanedType
    <3>3. DownloadTypeOK'
      BY <2>2, <3>1, <3>2, CallEndsWithType
    <3> QED BY <2>2, <3>3 DEF CallEndsWith, NoNewRequest, DownloadTypeOK
  <2> QED BY <1>8, <2>1, <2>2 DEF WriteFails
<1> QED BY <1>1, <1>2, <1>3, <1>4, <1>5, <1>6, <1>7, <1>8

-----------------------------------------------------------------------------
(* The actions *)

\* requestFile(): either there is a file, or it is requested for the first time
\* within TIMEOUT.
LEMMA RequestFileKeeps ==
  ASSUME IInv, NEW r \in Resources, RequestFile(r)
  PROVE  /\ IInv'
         /\ \/ NoNewRequest
            \/ /\ r \notin issued
               /\ \A x \in Requests : target'[x] \in {target[x], r}
<1>0. DownloadTypeOK /\ StoreTypeOK
  BY Parts
<1>t. ASSUME DownloadTypeOK', StoreTypeOK' PROVE IInv'
  BY <1>t DEF IInv, TypeOK, StoreTypeOK
<1>1. CASE FindLocalFile(r)
  <2>1. UNCHANGED <<status, target, phase, outcome, file, faults>>
    BY <1>1 DEF FindLocalFile, downloadVars, requestVars
  <2>2. DownloadTypeOK' /\ NoNewRequest
    BY <1>0, <2>1 DEF DownloadTypeOK, NoNewRequest
  <2>3. absent' \subseteq Resources
    BY <1>0, <1>1 DEF FindLocalFile, StoreTypeOK
  <2>4. StoreTypeOK'
    BY <1>0, <1>1, <2>1, <2>3, AddEntryKeeps DEF FindLocalFile
  <2> QED BY <1>t, <2>2, <2>4
<1>2. CASE MakeLocal(r)
  <2>1. r \notin issued
    BY <1>0, <1>2 DEF MakeLocal, MustLook, StoreTypeOK
  <2>2. UNCHANGED <<file, absent, faults>>
    BY <1>2 DEF MakeLocal
  <2>3. StoreTypeOK'
    <3>1. absent' \subseteq Resources
      BY <1>0, <2>2 DEF StoreTypeOK
    <3> QED BY <1>0, <1>2, <2>2, <3>1, AddEntryKeeps DEF MakeLocal
  <2>4. ASSUME NEW x \in Requests, RunRetriever(x, r)
        PROVE  DownloadTypeOK' /\ \A y \in Requests : target'[y] \in {target[y], r}
    <3>1. DownloadTypeOK'
      BY <1>0, <2>2, <2>4, RunRetrieverType
    <3> QED BY <1>0, <2>4, <3>1 DEF RunRetriever, DownloadTypeOK
  <2>5. ASSUME UNCHANGED requestVars
        PROVE  DownloadTypeOK' /\ \A y \in Requests : target'[y] \in {target[y], r}
    BY <1>0, <2>2, <2>5 DEF DownloadTypeOK, requestVars
  <2>6. DownloadTypeOK' /\ \A y \in Requests : target'[y] \in {target[y], r}
    BY <1>2, <2>4, <2>5 DEF MakeLocal
  <2> QED BY <1>t, <2>1, <2>3, <2>6
<1> QED BY <1>1, <1>2 DEF RequestFile

\* removeFile() and the passing of time.
LEMMA ResourceKeeps ==
  ASSUME IInv, NEW r \in Resources, RemoveFile(r) \/ TimeStep(r)
  PROVE  IInv' /\ NoNewRequest
<1>0. DownloadTypeOK /\ StoreTypeOK
  BY Parts
<1>t. ASSUME DownloadTypeOK', StoreTypeOK' PROVE IInv'
  BY <1>t DEF IInv, TypeOK, StoreTypeOK
<1>1. CASE RemoveFile(r)
  <2>1. DownloadTypeOK' /\ NoNewRequest
    BY <1>0, <1>1, DeleteFileType DEF RemoveFile, DeleteFile, NoNewRequest
  <2>2. faults' \in 0..MaxFaults /\ absent' \subseteq Resources
    BY <1>0, <1>1, FaultType DEF RemoveFile, StoreTypeOK
  <2>3. /\ db' = [db EXCEPT ![r] = NoEntry]
        /\ issued' = issued \ {r}
    BY <1>1 DEF RemoveFile
  <2>4. db' \in [Resources -> DBEntry \cup {NoEntry}]
    BY <1>0, <2>3 DEF StoreTypeOK
  <2>5. /\ \A s \in Resources : db'[s] # NoEntry => db[s] # NoEntry
        /\ \A s \in issued' : s \in issued /\ db'[s] = db[s]
    BY <1>0, <2>3 DEF StoreTypeOK
  <2>6. StoreTypeOK'
    BY <1>0, <2>2, <2>4, <2>5, ShrinkKeeps
  <2> QED BY <1>t, <2>1, <2>6
<1>2. CASE PendingTimesOut(r)
  <2>1. UNCHANGED <<status, target, phase, outcome, file, absent, faults>>
    BY <1>2 DEF PendingTimesOut, downloadVars, requestVars
  <2>2. DownloadTypeOK' /\ NoNewRequest
    BY <1>0, <2>1 DEF DownloadTypeOK, NoNewRequest
  <2>3. /\ db[r] \in DBEntry /\ db' = [db EXCEPT ![r].old = TRUE]
        /\ issued' = issued \ {r}
    BY <1>0, <1>2 DEF PendingTimesOut, IsPending, HasEntry, StoreTypeOK
  <2>4. [db[r] EXCEPT !.old = TRUE] \in DBEntry
    BY <2>3 DEF DBEntry
  <2>5. db' \in [Resources -> DBEntry \cup {NoEntry}]
    BY <1>0, <2>3, <2>4 DEF StoreTypeOK
  <2>6. /\ \A s \in Resources : db'[s] # NoEntry => db[s] # NoEntry
        /\ \A s \in issued' : s \in issued /\ db'[s] = db[s]
    BY <1>0, <2>3 DEF StoreTypeOK
  <2>7. StoreTypeOK'
    <3>1. absent' \subseteq Resources /\ faults' \in 0..MaxFaults
      BY <1>0, <2>1 DEF StoreTypeOK
    <3> QED BY <1>0, <3>1, <2>5, <2>6, ShrinkKeeps
  <2> QED BY <1>t, <2>2, <2>7
<1>3. CASE AbsenceEnds(r)
  <2>1. UNCHANGED <<status, target, phase, outcome, file, db, issued, faults>>
    BY <1>3 DEF AbsenceEnds, downloadVars, requestVars
  <2>2. DownloadTypeOK' /\ NoNewRequest
    BY <1>0, <2>1 DEF DownloadTypeOK, NoNewRequest
  <2>3. StoreTypeOK'
    <3>1. absent' \subseteq Resources /\ faults' \in 0..MaxFaults
      BY <1>0, <1>3, <2>1 DEF AbsenceEnds, StoreTypeOK
    <3> QED BY <1>0, <2>1, <3>1, StoreStays
  <2> QED BY <1>t, <2>2, <2>3
<1> QED BY <1>1, <1>2, <1>3 DEF TimeStep

\* What a download does, and what happens to it.
LEMMA RequestKeeps ==
  ASSUME IInv, NEW x \in Requests, RequestStep(x) \/ RequestFails(x)
  PROVE  IInv' /\ NoNewRequest
<1>0. DownloadTypeOK /\ StoreTypeOK
  BY Parts
<1>t. ASSUME DownloadTypeOK', StoreTypeOK' PROVE IInv'
  BY <1>t DEF IInv, TypeOK, StoreTypeOK
<1>a. absent \subseteq Resources /\ faults \in 0..MaxFaults
  BY <1>0 DEF StoreTypeOK
<1>s. ASSUME UNCHANGED storeVars, UNCHANGED faults \/ Fault PROVE StoreTypeOK'
  BY <1>0, <1>a, <1>s, FaultType, StoreStays DEF storeVars
<1>1. CASE /\ \/ StartCall(x) \/ ReadEnds(x, "successful") \/ OpenFile(x)
              \/ OpenFileTwice(x) \/ WriteFile(x) \/ Discard(x)
           /\ UNCHANGED <<storeVars, faults>>
  <2>1. DownloadTypeOK' /\ NoNewRequest
    BY <1>0, <1>1, DownloadKeeps DEF Outcomes
  <2> QED BY <1>1, <1>s, <1>t, <2>1
<1>2. CASE HandleUnsuccessfulRetrieval(x)
  <2>1. /\ phase[x] = "post" /\ CallEnds(x) /\ UNCHANGED <<file, db, issued, faults>>
        /\ absent' \in {absent, absent \cup {target[x]}}
    BY <1>2 DEF HandleUnsuccessfulRetrieval, MarkResourceAbsent
  <2>2. DownloadTypeOK' /\ NoNewRequest
    BY <1>0, <2>1, QuietEndKeeps
  <2>3. absent' \subseteq Resources
    BY <1>0, <1>a, <2>1, TargetType
  <2>4. StoreTypeOK'
    BY <1>0, <1>a, <2>1, <2>3, StoreStays
  <2> QED BY <1>t, <2>2, <2>4
<1>3. CASE SaveContent(x)
  <2>1. /\ phase[x] # "none" /\ GoOn(x, "save") /\ "save" \in Phases \ {"none"}
        /\ UNCHANGED <<status, target, outcome, file, storeVars, faults>>
    BY <1>3 DEF SaveContent, Phases
  <2>2. DownloadTypeOK' /\ NoNewRequest
    <3>1. DownloadTypeOK'
      BY <1>0, <2>1, GoOnType DEF DownloadTypeOK
    <3> QED BY <2>1, <3>1 DEF NoNewRequest
  <2> QED BY <1>s, <1>t, <2>1, <2>2
<1>4. CASE SaveEnds(x)
  <2>1. /\ phase[x] = "saved" /\ CallEnds(x) /\ UNCHANGED <<file, absent, faults>>
        /\ UpdateEntry(target[x], TRUE) \/ UNCHANGED <<db, issued>>
    BY <1>4 DEF SaveEnds
  <2>2. DownloadTypeOK' /\ NoNewRequest
    BY <1>0, <2>1, QuietEndKeeps
  <2>3. target[x] \in Resources
    BY <1>0, <2>1, TargetType
  <2>4. StoreTypeOK'
    BY <1>0, <1>a, <2>1, <2>3, UpdateEntryKeeps, StoreStays
  <2> QED BY <1>t, <2>2, <2>4
<1>5. CASE DropRequest(x) /\ Fault /\ UNCHANGED storeVars
  BY <1>0, <1>5, <1>s, <1>t, DownloadKeeps
<1>6. ASSUME NEW s \in {"error", "interrupted"}, ReadEnds(x, s), Fault, UNCHANGED storeVars
      PROVE  IInv' /\ NoNewRequest
  <2>1. DownloadTypeOK' /\ NoNewRequest
    BY <1>0, <1>6, DownloadKeeps DEF Outcomes
  <2> QED BY <1>6, <1>s, <1>t, <2>1
<1>7. CASE HandleInvalidResponseCode(x)
  <2>1. /\ phase[x] = "post" /\ CallEnds(x) /\ Fault /\ UNCHANGED <<file, db, issued>>
        /\ absent' = absent \cup {target[x]}
    BY <1>7 DEF HandleInvalidResponseCode, MarkResourceAbsent
  <2>2. DownloadTypeOK' /\ NoNewRequest
    BY <1>0, <2>1, QuietEndKeeps
  <2>3. absent' \subseteq Resources
    BY <1>0, <1>a, <2>1, TargetType
  <2>4. StoreTypeOK'
    BY <1>0, <2>1, <2>3, FaultType, StoreStays
  <2> QED BY <1>t, <2>2, <2>4
<1>8. CASE IgnoreContent(x)
  <2>1. CallEnds(x) /\ Fault /\ UNCHANGED file /\ UNCHANGED storeVars
    BY <1>8 DEF IgnoreContent
  <2> QED BY <1>0, <1>s, <1>t, <2>1, QuietEndKeeps
<1>9. CASE SaveNowhere(x)
  <2>1. /\ phase[x] = "post" /\ CallEnds(x) /\ Fault /\ UNCHANGED <<file, absent>>
        /\ UpdateEntry(target[x], FALSE)
    BY <1>9 DEF SaveNowhere
  <2>2. DownloadTypeOK' /\ NoNewRequest
    BY <1>0, <2>1, QuietEndKeeps
  <2>3. target[x] \in Resources
    BY <1>0, <2>1, TargetType
  <2>4. StoreTypeOK'
    BY <1>0, <1>a, <2>1, <2>3, FaultType, UpdateEntryKeeps
  <2> QED BY <1>t, <2>2, <2>4
<1>10. CASE SaveFails(x)
  <2>1. /\ Fault /\ WriteFails(x) /\ UNCHANGED <<db, issued>>
        /\ absent' \in {absent, absent \cup {target[x]}}
    BY <1>10 DEF SaveFails, MarkResourceAbsent
  <2>2. DownloadTypeOK' /\ NoNewRequest
    BY <1>0, <2>1, DownloadKeeps
  <2>3. target[x] \in Resources
    BY <1>0, <2>1, TargetType DEF WriteFails
  <2>4. StoreTypeOK'
    BY <1>0, <1>a, <2>1, <2>3, FaultType, StoreStays
  <2> QED BY <1>t, <2>2, <2>4
<1>11. CASE RequestStep(x)
  BY <1>1, <1>2, <1>3, <1>4, <1>11 DEF RequestStep
<1>12. CASE RequestFails(x)
  BY <1>5, <1>6, <1>7, <1>8, <1>9, <1>10, <1>12 DEF RequestFails
<1> QED BY <1>11, <1>12

\* A new session has the files of the old one, and nothing else.
LEMMA RestartKeeps ==
  ASSUME IInv, Restart
  PROVE  IInv' /\ NoNewRequest
<1>0. DownloadTypeOK /\ StoreTypeOK
  BY Parts
<1>1. DownloadTypeOK' /\ NoNewRequest
  BY <1>0 DEF Restart, DownloadTypeOK, NoNewRequest, Phases, Outcomes
<1>2. StoreTypeOK'
  <2>1. faults' \in 0..MaxFaults /\ absent' \subseteq Resources
    BY <1>0, FaultType DEF Restart
  <2>2. /\ db' \in [Resources -> DBEntry \cup {NoEntry}]
        /\ \A s \in Resources : db'[s] = NoEntry
        /\ issued' = {}
    BY DEF Restart
  <2> QED BY <1>0, <2>1, <2>2, ShrinkKeeps
<1> QED BY <1>1, <1>2 DEF IInv, TypeOK, StoreTypeOK

-----------------------------------------------------------------------------
(* Theorems *)

\* The store starts without entries.
LEMMA InitIInv == Init => IInv
<1> SUFFICES ASSUME Init PROVE IInv
  OBVIOUS
<1>1. DownloadTypeOK
  <2>1. file \in [Resources -> {"none", "empty", "torn", "full"}]
    BY DEF Init
  <2> QED BY <2>1, NoRequestsType DEF Init
<1>2. Entries = {}
  BY DEF Init, Entries, HasEntry
<1>3. StoreTypeOK
  BY <1>2, FS_EmptySet DEF Init, StoreTypeOK
<1> QED BY <1>1, <1>3, Parts

\* Every step preserves the invariant, and only requestFile() makes a request, for
\* an address whose retrieval has not been issued within TIMEOUT.
LEMMA NextIInv ==
  ASSUME IInv, [Next]_vars
  PROVE  /\ IInv'
         /\ \/ NoNewRequest
            \/ \E r \in Resources : /\ r \notin issued
                                    /\ \A x \in Requests : target'[x] \in {target[x], r}
<1>1. CASE UNCHANGED vars
  <2>1. UNCHANGED <<status, target, phase, outcome, file, db, absent, issued, faults>>
    BY <1>1 DEF vars, downloadVars, requestVars, storeVars
  <2>2. DownloadTypeOK' /\ NoNewRequest
    BY <2>1, Parts DEF DownloadTypeOK, NoNewRequest
  <2>3. absent' \subseteq Resources /\ faults' \in 0..MaxFaults
    BY <2>1, Parts DEF StoreTypeOK
  <2>4. StoreTypeOK'
    BY <2>1, <2>3, Parts, StoreStays
  <2> QED BY <2>2, <2>4 DEF IInv, TypeOK, StoreTypeOK
<1>2. ASSUME NEW r \in Resources, RequestFile(r) \/ RemoveFile(r) \/ TimeStep(r)
      PROVE  /\ IInv'
             /\ \/ NoNewRequest
                \/ /\ r \notin issued
                   /\ \A x \in Requests : target'[x] \in {target[x], r}
  BY <1>2, RequestFileKeeps, ResourceKeeps
<1>3. ASSUME NEW x \in Requests, RequestStep(x) \/ RequestFails(x)
      PROVE  IInv' /\ NoNewRequest
  BY <1>3, RequestKeeps
<1>4. CASE Restart
  BY <1>4, RestartKeeps
<1> QED BY <1>1, <1>2, <1>3, <1>4 DEF Next

\* The inductive invariant holds.
THEOREM Invariance == Spec => []IInv
<1>1. IInv /\ [Next]_vars => IInv'
  BY NextIInv
<1> QED BY InitIInv, <1>1, PTL DEF Spec

\* The db of the store keeps to its capacity, and every address whose retrieval was
\* issued within TIMEOUT is recorded as pending.
THEOREM TypeCorrect == Spec => []TypeOK
<1>1. IInv => TypeOK
  BY DEF IInv
<1> QED BY <1>1, Invariance, PTL

\* requestFile() issues no second retrieval for a file within TIMEOUT, however the
\* first one fares, as long as the db keeps the entry.
THEOREM NoRetrievalIsReissuedEarly == Spec => NoEarlyReissue
<1> DEFINE More(r) == Cardinality(RequestsFor(r)') > Cardinality(RequestsFor(r))
<1>1. ASSUME IInv, [Next]_vars, NEW r \in Resources, More(r) PROVE r \notin issued
  <2>1. CASE RequestsFor(r)' \subseteq RequestsFor(r)
    <3>1. IsFiniteSet(RequestsFor(r)) /\ IsFiniteSet(RequestsFor(r)')
      BY FS_Subset DEF RequestsFor
    <3>2. Cardinality(RequestsFor(r)') <= Cardinality(RequestsFor(r))
      BY <2>1, <3>1, FS_Subset
    <3>3. /\ Cardinality(RequestsFor(r)') \in Nat
          /\ Cardinality(RequestsFor(r)) \in Nat
      BY <3>1, FS_CardinalityType
    <3> QED BY <1>1, <3>2, <3>3
  <2>2. CASE NoNewRequest
    BY <2>1, <2>2 DEF NoNewRequest, RequestsFor
  <2>3. ASSUME NEW s \in Resources, s \notin issued,
               \A x \in Requests : target'[x] \in {target[x], s}
        PROVE  r \notin issued
    <3>1. CASE s = r
      BY <2>3, <3>1
    <3>2. CASE s # r
      BY <2>1, <2>3, <3>2 DEF RequestsFor
    <3> QED BY <3>1, <3>2
  <2> QED BY <1>1, <2>2, <2>3, NextIInv
<1>2. IInv /\ [Next]_vars =>
        [\A r \in Resources : More(r) => r \notin issued]_vars
  BY <1>1
<1> QED BY <1>2, Invariance, PTL DEF Spec, NoEarlyReissue
=============================================================================
