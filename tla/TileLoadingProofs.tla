-------------------------- MODULE TileLoadingProofs --------------------------
(***************************************************************************)
(* For any number of tiles, loaders and downloads: whoever holds the       *)
(* fileLock of a BasicTiledImageLayer finds an incomplete file only where  *)
(* a write has failed or the program died in it, although files are looked *)
(* for and deleted without the lock.                                       *)
(***************************************************************************)
EXTENDS TileLoading, DownloadProofs

USE DownloadAssumption, LayerAssumption

-----------------------------------------------------------------------------
(* Lemmas *)

\* The types of what the layer adds to its downloads.
LayerTypeOK ==
  /\ {memory, absent, expired, damaged} \subseteq SUBSET Resources
  /\ tile \in [Loaders -> Resources \cup {NoResource}]
  /\ pc \in [Loaders -> {"idle", "find", "check", "load", "unmark", "delete", "retrieve"}]
  /\ \A l \in Loaders : tile[l] = NoResource <=> pc[l] = "idle"
  /\ faults \in 0..MaxFaults

\* The type invariant has these two parts.
LEMMA TypeParts == TypeOK <=> DownloadTypeOK /\ LayerTypeOK
BY DEF TypeOK, LayerTypeOK

\* A step that lets no request enter or leave the lock keeps the invariant of the
\* files.
LEMMA Undisturbed ==
  ASSUME LockInv, FileInv, UNCHANGED <<file, damaged>>,
         \A x \in Requests :
           \/ phase'[x] = phase[x] /\ target'[x] = target[x]
           \/ phase[x] \notin {"write", "lost"} /\ phase'[x] \notin {"write", "lost"}
  PROVE  LockInv' /\ FileInv'
<1>1. LockInv'
  BY DEF LockInv
<1>2. \A r : Writers(r)' = Writers(r)
  BY DEF Writers, RequestsFor
<1> QED BY <1>1, <1>2 DEF FileInv

\* The files are on the disk, or not; nothing is requested.
LEMMA InitIInv == Init => IInv
<1> SUFFICES ASSUME Init PROVE IInv
  OBVIOUS
<1>1. DownloadTypeOK
  <2>1. file \in [Resources -> {"none", "empty", "torn", "full"}]
    BY DEF Init
  <2> QED BY <2>1, NoRequestsType DEF Init
<1>2. LayerTypeOK
  BY DEF Init, LayerTypeOK
<1>3. \A x \in Requests : phase[x] = "none"
  BY DEF Init, NoRequests
<1>4. LockInv
  BY <1>3 DEF LockInv
<1>5. FileInv
  BY <1>3 DEF Init, FileInv, Writers, RequestsFor
<1> QED BY <1>1, <1>2, <1>4, <1>5, TypeParts DEF IInv

-----------------------------------------------------------------------------
(* The tasks *)

\* A task goes on or ends; a loader without a tile is idle.
LEMMA LoaderType ==
  ASSUME LayerTypeOK, NEW l \in Loaders, pc[l] # "idle",
         \/ TaskEnds(l)
         \/ \E p \in {"find", "check", "load", "unmark", "delete", "retrieve"} :
              LoaderGoesTo(l, p)
  PROVE  /\ tile[l] \in Resources
         /\ tile' \in [Loaders -> Resources \cup {NoResource}]
         /\ pc' \in [Loaders -> {"idle", "find", "check", "load", "unmark", "delete", "retrieve"}]
         /\ \A k \in Loaders : tile'[k] = NoResource <=> pc'[k] = "idle"
<1>1. tile[l] \in Resources
  BY DEF LayerTypeOK
<1>2. CASE TaskEnds(l)
  BY <1>1, <1>2 DEF TaskEnds, LayerTypeOK
<1>3. ASSUME NEW p \in {"find", "check", "load", "unmark", "delete", "retrieve"},
             LoaderGoesTo(l, p)
      PROVE  /\ tile' \in [Loaders -> Resources \cup {NoResource}]
             /\ pc' \in [Loaders -> {"idle", "find", "check", "load", "unmark",
                                     "delete", "retrieve"}]
             /\ \A k \in Loaders : tile'[k] = NoResource <=> pc'[k] = "idle"
  BY <1>1, <1>3 DEF LoaderGoesTo, LayerTypeOK
<1> QED BY <1>1, <1>2, <1>3

\* A step that is only the layer's keeps the invariant if it keeps the types.
LEMMA LayerStep ==
  ASSUME IInv, UNCHANGED <<downloadVars, damaged>>, LayerTypeOK'
  PROVE  IInv'
<1>1. UNCHANGED <<status, target, phase, outcome, file>>
  BY DEF downloadVars, requestVars
<1>2. DownloadTypeOK'
  BY <1>1, TypeParts DEF IInv, DownloadTypeOK
<1>3. LockInv' /\ FileInv'
  BY <1>1, Undisturbed DEF IInv
<1>4. TypeOK'
  BY <1>2, TypeParts DEF TypeOK, LayerTypeOK
<1> QED BY <1>3, <1>4 DEF IInv

\* The deletion of a file: a request that was writing it keeps the lock, unless it
\* ends.
LEMMA DeletionKeeps ==
  ASSUME DownloadTypeOK, LockInv, FileInv, NEW r \in Resources,
         SetFile(r, "none"), damaged' = damaged \ {r},
         \A y \in Requests :
           \/ /\ phase'[y] = IF target[y] = r /\ phase[y] = "write" THEN "lost"
                             ELSE phase[y]
              /\ target'[y] = target[y]
           \/ phase'[y] = "none" /\ target[y] = r
  PROVE  LockInv' /\ FileInv'
<1>1. LockInv'
  BY DEF LockInv
<1>2. /\ file'[r] = "none"
      /\ \A s \in Resources : s # r => file'[s] = file[s]
  BY DEF SetFile, DownloadTypeOK
<1>3. ASSUME NEW s \in Resources, s # r PROVE Writers(s)' = Writers(s)
  BY <1>3 DEF Writers, RequestsFor
<1>4. Writers(r)' = {}
  BY DEF Writers, RequestsFor
<1> QED BY <1>1, <1>2, <1>3, <1>4 DEF FileInv

\* What a task does preserves the invariant.
LEMMA LoaderIInv ==
  ASSUME IInv, NEW l \in Loaders, LoaderStep(l) \/ HostUnavailable(l)
  PROVE  IInv'
<1>0. DownloadTypeOK /\ LayerTypeOK /\ LockInv /\ FileInv
  BY TypeParts DEF IInv
<1>1. CASE FindFile(l)
  <2>1. LayerTypeOK'
    BY <1>0, <1>1, LoaderType DEF FindFile, LayerTypeOK, layerVars
  <2> QED BY <1>1, <2>1, LayerStep DEF FindFile, layerVars
<1>2. CASE CheckExpired(l)
  <2>1. LayerTypeOK'
    BY <1>0, <1>2, LoaderType DEF CheckExpired, LayerTypeOK, layerVars
  <2> QED BY <1>2, <2>1, LayerStep DEF CheckExpired, layerVars
<1>3. CASE LoadTexture(l)
  <2>1. LayerTypeOK'
    BY <1>0, <1>3, LoaderType DEF LoadTexture, LayerTypeOK
  <2> QED BY <1>3, <2>1, LayerStep DEF LoadTexture
<1>4. CASE UnmarkResourceAbsent(l)
  <2>1. LayerTypeOK'
    BY <1>0, <1>4, LoaderType DEF UnmarkResourceAbsent, LayerTypeOK
  <2> QED BY <1>4, <2>1, LayerStep DEF UnmarkResourceAbsent
<1>5. CASE DeleteTileFile(l)
  <2>1. tile[l] \in Resources
    BY <1>0, <1>5 DEF DeleteTileFile, LayerTypeOK
  <2>2. DownloadTypeOK'
    BY <1>0, <1>5, <2>1, DeleteFileType DEF DeleteTileFile
  <2>3. LayerTypeOK'
    BY <1>0, <1>5, LoaderType DEF DeleteTileFile, LayerTypeOK
  <2>4. LockInv' /\ FileInv'
    BY <1>0, <1>5, <2>1, OrphanedType, DeletionKeeps DEF DeleteTileFile, DeleteFile
  <2>5. TypeOK'
    BY <2>2, <2>3, TypeParts DEF TypeOK, LayerTypeOK
  <2> QED BY <2>4, <2>5 DEF IInv
<1>6. CASE RetrieveTexture(l)
  <2>1. tile[l] \in Resources
    BY <1>0, <1>6 DEF RetrieveTexture, LayerTypeOK
  <2>2. LayerTypeOK'
    BY <1>0, <1>6, LoaderType DEF RetrieveTexture, LayerTypeOK, layerVars
  <2>3. CASE UNCHANGED requestVars
    BY <1>6, <2>2, <2>3, LayerStep DEF RetrieveTexture, layerVars, downloadVars
  <2>4. ASSUME NEW x \in Requests, RunRetriever(x, tile[l]) PROVE IInv'
    <3>1. UNCHANGED <<file, damaged, phase>>
      BY <1>6, <2>4 DEF RetrieveTexture, RunRetriever, layerVars
    <3>2. DownloadTypeOK'
      BY <1>0, <2>1, <2>4, <3>1, RunRetrieverType
    <3>3. /\ phase[x] = "none"
          /\ \A y \in Requests : y # x => target'[y] = target[y]
      BY <1>0, <2>4 DEF RunRetriever, Service!Submit, DownloadTypeOK
    <3>4. LockInv' /\ FileInv'
      BY <1>0, <3>1, <3>3, Undisturbed
    <3>5. TypeOK'
      BY <2>2, <3>2 DEF TypeOK, LayerTypeOK
    <3> QED BY <3>4, <3>5 DEF IInv
  <2> QED BY <1>6, <2>3, <2>4 DEF RetrieveTexture
<1>7. CASE ServiceBusy(l)
  <2>1. LayerTypeOK'
    BY <1>0, <1>7, LoaderType DEF ServiceBusy, LayerTypeOK, layerVars
  <2> QED BY <1>7, <2>1, LayerStep DEF ServiceBusy, layerVars
<1>8. CASE HostUnavailable(l)
  <2>1. LayerTypeOK'
    BY <1>0, <1>8, LoaderType
    DEF HostUnavailable, LayerTypeOK, MarkResourceAbsent, Fault
  <2> QED BY <1>8, <2>1, LayerStep DEF HostUnavailable
<1> QED BY <1>1, <1>2, <1>3, <1>4, <1>5, <1>6, <1>7, <1>8 DEF LoaderStep

-----------------------------------------------------------------------------
(* The downloads *)

\* The end of a call that did not hold the lock.
LEMMA EndKeeps ==
  ASSUME DownloadTypeOK, LockInv, FileInv, NEW x \in Requests, CallEnds(x),
         phase[x] \notin {"write", "lost"}, UNCHANGED <<file, damaged>>
  PROVE  DownloadTypeOK' /\ LockInv' /\ FileInv'
<1>1. DownloadTypeOK' /\ phase' = [phase EXCEPT ![x] = "none"]
  BY CallEndsType DEF DownloadTypeOK
<1>2. \A y \in Requests : y # x => phase'[y] = phase[y] /\ target'[y] = target[y]
  BY <1>1 DEF DownloadTypeOK, CallEnds, CallEndsWith
<1>3. phase'[x] = "none"
  BY <1>1 DEF DownloadTypeOK
<1>4. LockInv' /\ FileInv'
  BY <1>2, <1>3, Undisturbed
<1> QED BY <1>1, <1>4

\* A step of a request that neither takes nor releases the lock.
LEMMA PhaseKeeps ==
  ASSUME DownloadTypeOK, LockInv, FileInv, NEW x \in Requests, NEW p,
         GoOn(x, p), UNCHANGED <<target, file, damaged>>,
         phase[x] \notin {"write", "lost"}, p \notin {"write", "lost"}
  PROVE  LockInv' /\ FileInv'
<1>1. /\ phase'[x] = p
      /\ \A y \in Requests : y # x => phase'[y] = phase[y]
  BY DEF GoOn, DownloadTypeOK
<1> QED BY <1>1, Undisturbed

\* What a download does of itself preserves the invariant.
LEMMA RequestIInv ==
  ASSUME IInv, NEW x \in Requests, RequestStep(x)
  PROVE  IInv'
<1>0. DownloadTypeOK /\ LayerTypeOK /\ LockInv /\ FileInv
  BY TypeParts DEF IInv
<1>s. ASSUME Stays PROVE LayerTypeOK' /\ damaged' = damaged
  BY <1>0, <1>s DEF Stays, LayerTypeOK, loaderVars, layerVars
<1>t. ASSUME DownloadTypeOK', LayerTypeOK', LockInv', FileInv' PROVE IInv'
  BY <1>t DEF IInv, TypeOK, LayerTypeOK
<1>1. CASE StartCall(x) /\ Stays
  <2>1. DownloadTypeOK' /\ phase[x] = "none"
    BY <1>0, <1>1, StartCallType
  <2>2. LockInv' /\ FileInv'
    BY <1>0, <1>1, <1>s, <2>1, PhaseKeeps DEF StartCall
  <2> QED BY <1>1, <1>s, <1>t, <2>1, <2>2
<1>2. CASE ReadEnds(x, "successful") /\ Stays
  <2>1. DownloadTypeOK'
    BY <1>0, <1>2, ReadEndsType DEF Outcomes
  <2>2. LockInv' /\ FileInv'
    BY <1>0, <1>2, <1>s, PhaseKeeps DEF ReadEnds
  <2> QED BY <1>2, <1>s, <1>t, <2>1, <2>2
<1>3. CASE HandleUnsuccessfulRetrieval(x)
  <2>1. phase[x] = "post" /\ CallEnds(x) /\ UNCHANGED <<file, damaged>>
    BY <1>3 DEF HandleUnsuccessfulRetrieval
  <2>2. DownloadTypeOK' /\ LockInv' /\ FileInv'
    BY <1>0, <2>1, EndKeeps
  <2>3. target[x] \in Resources
    BY <1>0, <2>1, TargetType
  <2>4. LayerTypeOK'
    BY <1>0, <1>3, <2>3
    DEF HandleUnsuccessfulRetrieval, LayerTypeOK, MarkResourceAbsent, loaderVars
  <2> QED BY <1>t, <2>2, <2>4
<1>4. CASE SaveContent(x)
  <2>1. UNCHANGED <<file, loaderVars, layerVars, faults>> /\ phase[x] = "post"
    BY <1>4 DEF SaveContent
  <2>2. LayerTypeOK' /\ UNCHANGED <<file, damaged>>
    BY <1>0, <2>1 DEF LayerTypeOK, loaderVars, layerVars
  <2>3. CASE CallEnds(x)
    BY <1>0, <1>t, <2>1, <2>2, <2>3, EndKeeps
  <2>4. CASE GoOn(x, "save") /\ UNCHANGED <<status, target, outcome>>
    <3>1. DownloadTypeOK'
      <4>1. "save" \in Phases \ {"none"}
        BY DEF Phases
      <4> QED BY <1>0, <2>1, <2>2, <2>4, <4>1, GoOnType DEF DownloadTypeOK
    <3>2. LockInv' /\ FileInv'
      BY <1>0, <2>1, <2>2, <2>4, PhaseKeeps
    <3> QED BY <1>t, <2>2, <3>1, <3>2
  <2> QED BY <1>4, <2>3, <2>4 DEF SaveContent
<1>5. CASE BeginWrite(x)
  <2> DEFINE r == target[x]
  <2>1. /\ FileLockIsFree /\ phase[x] = "save"
        /\ SetFile(r, "empty") /\ GoOn(x, "write")
        /\ UNCHANGED <<status, target, outcome>>
        /\ damaged' = damaged \ {r}
    BY <1>5 DEF BeginWrite, OpenFile
  <2>2. r \in Resources
    BY <1>0, <2>1, TargetType
  <2>3. DownloadTypeOK'
    <3>1. "write" \in Phases \ {"none"}
      BY DEF Phases
    <3>2. file' \in [Resources -> {"none", "empty", "torn", "full"}]
      BY <1>0, <2>1 DEF SetFile, DownloadTypeOK
    <3> QED BY <1>0, <2>1, <3>1, <3>2, GoOnType DEF DownloadTypeOK
  <2>4. LayerTypeOK'
    BY <1>0, <1>5 DEF BeginWrite, LayerTypeOK, loaderVars
  <2>5. /\ phase'[x] = "write"
        /\ \A y \in Requests : y # x => phase'[y] \notin {"write", "lost"}
    BY <1>0, <2>1 DEF FileLockIsFree, GoOn, DownloadTypeOK
  <2>6. LockInv'
    BY <2>5 DEF LockInv
  <2>7. /\ Writers(r)' = {x}
        /\ \A s \in Resources : s # r => Writers(s)' = {} /\ Writers(s) = {}
    BY <2>1, <2>5 DEF Writers, RequestsFor, FileLockIsFree
  <2>8. /\ file'[r] = "empty"
        /\ \A s \in Resources : s # r => file'[s] = file[s]
    BY <1>0, <2>1, <2>2 DEF SetFile, DownloadTypeOK
  <2>9. FileInv'
    BY <1>0, <2>1, <2>7, <2>8 DEF FileInv
  <2> QED BY <1>t, <2>3, <2>4, <2>6, <2>9
<1>6. CASE WriteFile(x) /\ Stays
  <2> DEFINE r == target[x]
  <2>1. /\ phase[x] \in {"write", "lost"}
        /\ SetFile(r, IF phase[x] = "write" /\ file[r] = "empty" THEN "full" ELSE file[r])
        /\ GoOn(x, "saved")
        /\ UNCHANGED <<status, target, outcome>>
    BY <1>6 DEF WriteFile
  <2>2. r \in Resources
    BY <1>0, <2>1, TargetType
  <2>3. DownloadTypeOK'
    <3>1. "saved" \in Phases \ {"none"}
      BY DEF Phases
    <3>2. file' \in [Resources -> {"none", "empty", "torn", "full"}]
      BY <1>0, <2>1, <2>2 DEF SetFile, DownloadTypeOK
    <3> QED BY <1>0, <2>1, <3>1, <3>2, GoOnType DEF DownloadTypeOK
  <2>4. \A y \in Requests : y # x => phase[y] \notin {"write", "lost"} /\ phase'[y] = phase[y]
    BY <1>0, <2>1 DEF LockInv, GoOn, DownloadTypeOK
  <2>5. phase'[x] = "saved"
    BY <1>0, <2>1 DEF GoOn, DownloadTypeOK
  <2>6. LockInv'
    BY <2>4, <2>5 DEF LockInv
  <2>7. /\ \A s \in Resources : Writers(s)' = {}
        /\ \A s \in Resources : s # r => Writers(s) = {}
        /\ phase[x] = "write" => x \in Writers(r)
        /\ phase[x] = "lost" => Writers(r) = {}
    BY <2>1, <2>4, <2>5 DEF Writers, RequestsFor
  <2>8. /\ file'[r] = IF phase[x] = "write" /\ file[r] = "empty" THEN "full" ELSE file[r]
        /\ \A s \in Resources : s # r => file'[s] = file[s]
    BY <1>0, <2>1, <2>2 DEF SetFile, DownloadTypeOK
  <2>9. FileInv'
    <3>1. damaged' = damaged
      BY <1>6, <1>s
    <3>2. ASSUME NEW s \in Resources, s # r
          PROVE  file'[s] # "torn" /\ (file'[s] = "empty" => s \in damaged')
      BY <1>0, <2>7, <2>8, <3>1, <3>2 DEF FileInv
    <3>3. file'[r] # "torn" /\ (file'[r] = "empty" => r \in damaged')
      BY <1>0, <2>1, <2>2, <2>7, <2>8, <3>1 DEF FileInv
    <3> QED BY <2>7, <3>2, <3>3 DEF FileInv
  <2> QED BY <1>6, <1>s, <1>t, <2>3, <2>6, <2>9
<1>7. CASE SaveEnds(x)
  <2>1. /\ phase[x] = "saved" /\ CallEnds(x)
        /\ UNCHANGED <<file, loaderVars, layerVars, faults>>
    BY <1>7 DEF SaveEnds
  <2>2. LayerTypeOK' /\ UNCHANGED <<file, damaged>>
    BY <1>0, <2>1 DEF LayerTypeOK, loaderVars, layerVars
  <2> QED BY <1>0, <1>t, <2>1, <2>2, EndKeeps
<1>8. CASE Discard(x) /\ Stays
  <2>1. DownloadTypeOK'
    BY <1>0, <1>8, DiscardType
  <2>2. UNCHANGED <<target, phase, file>>
    BY <1>8 DEF Discard
  <2>3. LockInv' /\ FileInv'
    BY <1>0, <1>8, <1>s, <2>2, Undisturbed
  <2> QED BY <1>8, <1>s, <1>t, <2>1, <2>3
<1> QED BY <1>1, <1>2, <1>3, <1>4, <1>5, <1>6, <1>7, <1>8 DEF RequestStep

\* What may happen to a download preserves the invariant.
LEMMA FailureIInv ==
  ASSUME IInv, NEW x \in Requests, RequestFails(x)
  PROVE  IInv'
<1>0. DownloadTypeOK /\ LayerTypeOK /\ LockInv /\ FileInv
  BY TypeParts DEF IInv
<1>s. ASSUME Fault, UNCHANGED <<loaderVars, layerVars>>
      PROVE  LayerTypeOK' /\ damaged' = damaged
  BY <1>0, <1>s DEF Fault, LayerTypeOK, loaderVars, layerVars
<1>t. ASSUME DownloadTypeOK', LayerTypeOK', LockInv', FileInv' PROVE IInv'
  BY <1>t DEF IInv, TypeOK, LayerTypeOK
<1>1. CASE DropRequest(x) /\ Fault /\ UNCHANGED <<loaderVars, layerVars>>
  <2>1. DownloadTypeOK' /\ status'[x] = "over"
    BY <1>0, <1>1, DropRequestType
  <2>2. /\ UNCHANGED <<phase, file>> /\ phase[x] = "none"
        /\ \A y \in Requests : y # x => target'[y] = target[y]
    BY <1>0, <1>1, <2>1 DEF DropRequest, DownloadTypeOK
  <2>3. LockInv' /\ FileInv'
    BY <1>0, <1>1, <1>s, <2>2, Undisturbed
  <2> QED BY <1>1, <1>s, <1>t, <2>1, <2>3
<1>2. ASSUME NEW s \in {"error", "interrupted"},
             ReadEnds(x, s), Fault, UNCHANGED <<loaderVars, layerVars>>
      PROVE  IInv'
  <2>1. DownloadTypeOK'
    BY <1>0, <1>2, ReadEndsType DEF Outcomes
  <2>2. LockInv' /\ FileInv'
    BY <1>0, <1>2, <1>s, PhaseKeeps DEF ReadEnds
  <2> QED BY <1>2, <1>s, <1>t, <2>1, <2>2
<1>3. CASE HandleRefusal(x)
  <2>1. phase[x] = "post" /\ CallEnds(x) /\ UNCHANGED <<file, damaged>>
    BY <1>3 DEF HandleRefusal
  <2>2. DownloadTypeOK' /\ LockInv' /\ FileInv'
    BY <1>0, <2>1, EndKeeps
  <2>3. target[x] \in Resources
    BY <1>0, <2>1, TargetType
  <2>4. LayerTypeOK'
    BY <1>0, <1>3, <2>3
    DEF HandleRefusal, LayerTypeOK, MarkResourceAbsent, loaderVars, Fault
  <2> QED BY <1>t, <2>2, <2>4
<1>4. CASE IgnoreContent(x)
  BY <1>0, <1>4, <1>s, <1>t, EndKeeps DEF IgnoreContent
<1>5. CASE SaveFails(x)
  <2> DEFINE r == target[x]
  <2>1. phase[x] \in {"write", "lost"} /\ WriteFails(x)
    BY <1>5 DEF SaveFails, WriteFails
  <2>2. r \in Resources
    BY <1>0, <2>1, TargetType
  <2>3. LayerTypeOK'
    BY <1>0, <1>5, <2>2
    DEF SaveFails, LayerTypeOK, MarkResourceAbsent, loaderVars, Fault
  <2>4. CASE CallEnds(x) /\ UNCHANGED file
    <3>1. DownloadTypeOK' /\ phase' = [phase EXCEPT ![x] = "none"]
      BY <1>0, <2>4, CallEndsType DEF DownloadTypeOK
    <3>2. \A y \in Requests : phase[y] \in {"write", "lost"} => y = x
      BY <1>0, <2>1 DEF LockInv
    <3>3. \A y \in Requests : phase'[y] \notin {"write", "lost"}
      BY <1>0, <3>1, <3>2 DEF DownloadTypeOK
    <3>4. LockInv'
      BY <3>3 DEF LockInv
    <3>5. \A s \in Resources : Writers(s)' = {} /\ (s # r => Writers(s) = {})
      BY <3>2, <3>3 DEF Writers, RequestsFor
    <3>6. damaged' = IF file[r] = "empty" THEN damaged \cup {r} ELSE damaged \ {r}
      BY <1>5, <2>4 DEF SaveFails
    <3>7. FileInv'
      BY <1>0, <2>4, <3>5, <3>6 DEF FileInv
    <3> QED BY <1>t, <2>3, <3>1, <3>4, <3>7
  <2>5. CASE CallEndsWith(x, Orphaned(r)) /\ SetFile(r, "none")
    <3>1. file' \in [Resources -> {"none", "empty", "torn", "full"}] /\ file'[r] = "none"
      BY <1>0, <2>2, <2>5 DEF SetFile, DownloadTypeOK
    <3>2. /\ Orphaned(r) \in [Requests -> Phases]
          /\ \A y \in Requests :
               Orphaned(r)[y] = IF target[y] = r /\ phase[y] = "write" THEN "lost"
                                ELSE phase[y]
      BY <1>0, OrphanedType
    <3>3. DownloadTypeOK' /\ phase' = [Orphaned(r) EXCEPT ![x] = "none"]
      BY <1>0, <2>5, <3>1, <3>2, CallEndsWithType
    <3>4. damaged' = damaged \ {r}
      BY <1>5, <3>1 DEF SaveFails
    <3>5. \A y \in Requests :
            \/ /\ phase'[y] = IF target[y] = r /\ phase[y] = "write" THEN "lost"
                              ELSE phase[y]
               /\ target'[y] = target[y]
            \/ phase'[y] = "none" /\ target[y] = r
      BY <1>0, <2>5, <3>2, <3>3 DEF CallEndsWith, DownloadTypeOK
    <3>6. LockInv' /\ FileInv'
      BY <1>0, <2>2, <2>5, <3>4, <3>5, DeletionKeeps
    <3> QED BY <1>t, <2>3, <3>3, <3>6
  <2> QED BY <2>1, <2>4, <2>5 DEF WriteFails
<1> QED BY <1>1, <1>2, <1>3, <1>4, <1>5 DEF RequestFails

-----------------------------------------------------------------------------
(* All steps *)

\* Every step of the layer preserves the invariant.
LEMMA NextIInv == IInv /\ [Next]_vars => IInv'
<1> SUFFICES ASSUME IInv, [Next]_vars PROVE IInv'
  OBVIOUS
<1>0. DownloadTypeOK /\ LayerTypeOK /\ LockInv /\ FileInv
  BY TypeParts DEF IInv
<1>1. ASSUME NEW l \in Loaders, NEW r \in Resources,
             RequestTexture(l, r) \/ RequestTextureTwice(l, r)
      PROVE  IInv'
  <2>1. BeginTask(l, r) /\ UNCHANGED <<downloadVars, layerVars>> /\ faults' \in 0..MaxFaults
    BY <1>0, <1>1 DEF RequestTexture, RequestTextureTwice, Fault, LayerTypeOK
  <2>2. LayerTypeOK'
    BY <1>0, <2>1 DEF BeginTask, LayerTypeOK, layerVars
  <2> QED BY <2>1, <2>2, LayerStep DEF layerVars
<1>2. ASSUME NEW l \in Loaders, LoaderStep(l) \/ HostUnavailable(l) PROVE IInv'
  BY <1>2, LoaderIInv
<1>3. ASSUME NEW x \in Requests, RequestStep(x) \/ RequestFails(x) PROVE IInv'
  BY <1>3, RequestIInv, FailureIInv
<1>4. ASSUME NEW r \in Resources, Expire(r) \/ EvictTile(r) \/ AbsenceEnds(r)
      PROVE  IInv'
  <2>1. LayerTypeOK'
    BY <1>0, <1>4 DEF Expire, EvictTile, AbsenceEnds, Fault, LayerTypeOK, loaderVars
  <2> QED BY <1>4, <2>1, LayerStep DEF Expire, EvictTile, AbsenceEnds
<1>5. CASE Restart
  <2>1. DownloadTypeOK'
    BY <1>0, <1>5 DEF Restart, DownloadTypeOK, Phases, Outcomes
  <2>2. LayerTypeOK'
    BY <1>0, <1>5 DEF Restart, LayerTypeOK, Fault
  <2>3. \A x \in Requests : phase'[x] = "none"
    BY <1>5 DEF Restart
  <2>4. LockInv'
    BY <2>3 DEF LockInv
  <2>5. \A r \in Resources : Writers(r)' = {}
    BY <2>3 DEF Writers, RequestsFor
  <2>6. FileInv'
    BY <1>0, <1>5, <2>5 DEF Restart, FileInv
  <2> QED BY <2>1, <2>2, <2>4, <2>6 DEF IInv, TypeOK, LayerTypeOK
<1>6. CASE UNCHANGED vars
  <2>1. LayerTypeOK'
    BY <1>0, <1>6 DEF vars, LayerTypeOK, loaderVars, layerVars
  <2> QED BY <1>6, <2>1, LayerStep DEF vars, layerVars
<1> QED BY <1>1, <1>2, <1>3, <1>4, <1>5, <1>6 DEF Next

-----------------------------------------------------------------------------
(* The theorems *)

\* The inductive invariant of the layer holds in every reachable state.
THEOREM Invariance == Spec => []IInv
BY InitIInv, NextIInv, PTL DEF Spec

\* Every reachable state is well typed; in particular a request has a resource and
\* a phase exactly while the service has it, and a loader a tile exactly while it
\* runs a task.
THEOREM TypeCorrect == Spec => []TypeOK
<1>1. IInv => TypeOK
  BY DEF IInv
<1> QED BY <1>1, Invariance, PTL

\* Under the fileLock a file is whole, missing, or damaged by a write that failed,
\* for any number of tiles, tasks, downloads and faults.
THEOREM LockShowsWholeFiles == Spec => []IncompleteOnlyIfDamaged
<1>1. IInv => IncompleteOnlyIfDamaged
  <2> SUFFICES ASSUME IInv, FileLockIsFree, NEW r \in Resources,
                      file[r] # "full", file[r] # "none"
               PROVE  r \in damaged
    BY DEF IncompleteOnlyIfDamaged
  <2>1. file[r] = "empty"
    BY DEF IInv, TypeOK, DownloadTypeOK, FileInv
  <2>2. Writers(r) = {}
    BY DEF FileLockIsFree, Writers, RequestsFor
  <2> QED BY <2>1, <2>2 DEF IInv, FileInv
<1> QED BY <1>1, Invariance, PTL
=============================================================================
