----------------------------- MODULE TileLoading -----------------------------
(***************************************************************************)
(* gov.nasa.worldwind.layers.BasicTiledImageLayer: how an image tile comes *)
(* from the server into a file and from the file into memory.              *)
(*                                                                         *)
(* The rendering thread requests the tiles it does not find in memory.  A  *)
(* RequestTask (a loader here: a thread of the task service) looks for the *)
(* tile's file, loads it or deletes it, and else has it retrieved; the     *)
(* download's post-processor saves the file.  Writing and reading a file   *)
(* exclude each other by the layer's fileLock; looking for a file, asking  *)
(* whether it has expired and deleting it do not take that lock, and the   *)
(* task service may run two tasks for the same tile.                       *)
(***************************************************************************)
EXTENDS Download

CONSTANTS
  Loaders,     \* threads of the task service
  MaxFaults    \* failures, expirations, double tasks and restarts in one execution

ASSUME LayerAssumption ==
  /\ IsFiniteSet(Loaders)
  /\ MaxFaults \in Nat

VARIABLES
  memory,      \* tiles whose texture is in the memory cache
  absent,      \* tiles for which isResourceAbsent() is true
  expired,     \* tiles whose file is older than the expiry time of their level
  tile,        \* the tile of each loader's RequestTask
  pc,          \* where each loader stands in run()
  faults,      \* the faults that may still happen
  damaged      \* history: tiles whose file a write has left behind half-done

loaderVars == <<tile, pc>>
layerVars == <<memory, absent, expired, damaged>>
vars == <<downloadVars, loaderVars, layerVars, faults>>

Init ==
  /\ NoRequests
  /\ file \in [Resources -> {"none", "full"}]
  /\ memory = {}
  /\ absent = {}
  /\ expired = {}
  /\ tile = [l \in Loaders |-> NoResource]
  /\ pc = [l \in Loaders |-> "idle"]
  /\ faults = MaxFaults
  /\ damaged = {}

Fault == faults > 0 /\ faults' = faults - 1

FileLockIsFree == \A x \in Requests : phase[x] \notin {"write", "lost"}

MarkResourceAbsent(r) == absent' = absent \cup {r}

-----------------------------------------------------------------------------
(* The rendering thread and RequestTask.run() *)

LoaderGoesTo(l, p) == pc' = [pc EXCEPT ![l] = p] /\ UNCHANGED tile

TaskEnds(l) ==
  /\ pc' = [pc EXCEPT ![l] = "idle"]
  /\ tile' = [tile EXCEPT ![l] = NoResource]

\* addTile() and sendRequests(): the tile is neither in memory nor absent, and the
\* task service takes the task.
BeginTask(l, r) ==
  /\ pc[l] = "idle"
  /\ r \notin memory
  /\ r \notin absent
  /\ pc' = [pc EXCEPT ![l] = "find"]
  /\ tile' = [tile EXCEPT ![l] = r]

RequestTexture(l, r) ==
  /\ \A k \in Loaders : tile[k] # r
  /\ BeginTask(l, r)
  /\ UNCHANGED <<downloadVars, layerVars, faults>>

\* The task service is not to take a task for a tile that has one, but its check
\* misses a task that is just passing from the queue to a thread: TaskService.
RequestTextureTwice(l, r) ==
  /\ \E k \in Loaders : tile[k] = r
  /\ BeginTask(l, r)
  /\ Fault
  /\ UNCHANGED <<downloadVars, layerVars>>

\* findFile()
FindFile(l) ==
  /\ pc[l] = "find"
  /\ LoaderGoesTo(l, IF file[tile[l]] = "none" THEN "retrieve" ELSE "check")
  /\ UNCHANGED <<downloadVars, layerVars, faults>>

\* isTextureFileExpired(): a file that does not exist any more is not out of date.
CheckExpired(l) ==
  /\ pc[l] = "check"
  /\ LoaderGoesTo(l, IF tile[l] \in expired THEN "delete" ELSE "load")
  /\ UNCHANGED <<downloadVars, layerVars, faults>>

\* Mutant of LoadTexture: a file that cannot be read is kept.
LoadTextureKeeping(l) ==
  /\ pc[l] = "load"
  /\ FileLockIsFree
  /\ IF file[tile[l]] = "full"
     THEN /\ memory' = memory \cup {tile[l]}
          /\ LoaderGoesTo(l, "unmark")
     ELSE /\ LoaderGoesTo(l, "retrieve")
          /\ UNCHANGED memory
  /\ UNCHANGED <<downloadVars, absent, expired, damaged, faults>>

\* loadTexture() reads the file under the fileLock.
LoadTexture(l) ==
  /\ pc[l] = "load"
  /\ FileLockIsFree
  /\ IF file[tile[l]] = "full"
     THEN /\ memory' = memory \cup {tile[l]}
          /\ LoaderGoesTo(l, "unmark")
     ELSE /\ LoaderGoesTo(l, "delete")
          /\ UNCHANGED memory
  /\ UNCHANGED <<downloadVars, absent, expired, damaged, faults>>

UnmarkResourceAbsent(l) ==
  /\ pc[l] = "unmark"
  /\ absent' = absent \ {tile[l]}
  /\ TaskEnds(l)
  /\ UNCHANGED <<downloadVars, memory, expired, damaged, faults>>

\* The file has expired, or "something's wrong with the file": delete it, whatever
\* it has become since.
DeleteTileFile(l) ==
  /\ pc[l] = "delete"
  /\ DeleteFile(tile[l])
  /\ expired' = expired \ {tile[l]}
  /\ damaged' = damaged \ {tile[l]}
  /\ LoaderGoesTo(l, "retrieve")
  /\ UNCHANGED <<memory, absent, faults>>

\* retrieveRemoteTexture() submits a request, which the service may refuse if it
\* has one for the same URL ...
RetrieveTexture(l) ==
  /\ pc[l] = "retrieve"
  /\ \/ \E x \in Requests : RunRetriever(x, tile[l])
     \/ RequestsFor(tile[l]) # {} /\ UNCHANGED requestVars
  /\ TaskEnds(l)
  /\ UNCHANGED <<file, layerVars, faults>>

\* ... or the service is busy, and the task ends without a request ...
ServiceBusy(l) ==
  /\ pc[l] = "retrieve"
  /\ \A x \in Requests : status[x] # "none"
  /\ TaskEnds(l)
  /\ UNCHANGED <<downloadVars, layerVars, faults>>

\* ... or the host is unavailable, or network retrieval is disabled for a time.
HostUnavailable(l) ==
  /\ pc[l] = "retrieve"
  /\ Fault
  /\ MarkResourceAbsent(tile[l])
  /\ TaskEnds(l)
  /\ UNCHANGED <<downloadVars, memory, expired, damaged>>

-----------------------------------------------------------------------------
(* DownloadPostProcessor *)

HandleUnsuccessfulRetrieval(x) ==
  /\ phase[x] = "post"
  /\ outcome[x] # "successful"
  /\ IF outcome[x] = "error" THEN MarkResourceAbsent(target[x]) ELSE UNCHANGED absent
  /\ CallEnds(x)
  /\ UNCHANGED <<file, loaderVars, memory, expired, damaged, faults>>

\* The server has answered with another code than OK, or with a text.
HandleRefusal(x) ==
  /\ phase[x] = "post"
  /\ outcome[x] = "successful"
  /\ Fault
  /\ MarkResourceAbsent(target[x])
  /\ CallEnds(x)
  /\ UNCHANGED <<file, loaderVars, memory, expired, damaged>>

\* The content is of no use, or there is no output file: nobody is told.
IgnoreContent(x) ==
  /\ phase[x] = "post"
  /\ outcome[x] = "successful"
  /\ Fault
  /\ CallEnds(x)
  /\ UNCHANGED <<file, loaderVars, layerVars>>

\* A file that exists is not overwritten; the lock is taken after that is decided.
SaveContent(x) ==
  /\ phase[x] = "post"
  /\ outcome[x] = "successful"
  /\ IF file[target[x]] = "none"
     THEN GoOn(x, "save") /\ UNCHANGED <<status, target, outcome>>
     ELSE CallEnds(x)
  /\ UNCHANGED <<file, loaderVars, layerVars, faults>>

\* Mutant of BeginWrite: the file is written without the lock.
BeginWriteUnlocked(x) ==
  /\ OpenFile(x) \/ OpenFileTwice(x)
  /\ expired' = expired \ {target[x]}
  /\ damaged' = damaged \ {target[x]}
  /\ UNCHANGED <<loaderVars, memory, absent, faults>>

BeginWrite(x) ==
  /\ FileLockIsFree
  /\ OpenFile(x)
  /\ expired' = expired \ {target[x]}
  /\ damaged' = damaged \ {target[x]}
  /\ UNCHANGED <<loaderVars, memory, absent, faults>>

SaveFails(x) ==
  /\ Fault
  /\ WriteFails(x)
  /\ \/ MarkResourceAbsent(target[x])
     \/ UNCHANGED absent
  /\ damaged' = IF file'[target[x]] = "empty" THEN damaged \cup {target[x]}
                ELSE damaged \ {target[x]}
  /\ UNCHANGED <<loaderVars, memory, expired>>

SaveEnds(x) ==
  /\ phase[x] = "saved"
  /\ CallEnds(x)
  /\ UNCHANGED <<file, loaderVars, layerVars, faults>>

-----------------------------------------------------------------------------
(* The program and its surroundings *)

\* The expiry time of the tile's level, or of the layer, is moved past the file.
Expire(r) ==
  /\ Fault
  /\ file[r] # "none"
  /\ expired' = expired \cup {r}
  /\ UNCHANGED <<downloadVars, loaderVars, memory, absent, damaged>>

\* The memory cache needs the tile's room for another.
EvictTile(r) ==
  /\ r \in memory
  /\ memory' = memory \ {r}
  /\ UNCHANGED <<downloadVars, loaderVars, absent, expired, damaged, faults>>

\* The absent resource list's interval has elapsed.
AbsenceEnds(r) ==
  /\ r \in absent
  /\ absent' = absent \ {r}
  /\ UNCHANGED <<downloadVars, loaderVars, memory, expired, damaged, faults>>

\* World Wind is shut down or dies and is started again: the files are all that
\* is left.
Restart ==
  /\ Fault
  /\ status' = [x \in Requests |-> "none"]
  /\ target' = [x \in Requests |-> NoResource]
  /\ phase' = [x \in Requests |-> "none"]
  /\ outcome' = [x \in Requests |-> "none"]
  /\ tile' = [l \in Loaders |-> NoResource]
  /\ pc' = [l \in Loaders |-> "idle"]
  /\ memory' = {}
  /\ absent' = {}
  /\ damaged' = damaged \cup {r \in Resources : Writers(r) # {}}
  /\ UNCHANGED <<file, expired>>

LoaderStep(l) ==
  \/ FindFile(l)
  \/ CheckExpired(l)
  \/ LoadTexture(l)
  \/ UnmarkResourceAbsent(l)
  \/ DeleteTileFile(l)
  \/ RetrieveTexture(l)
  \/ ServiceBusy(l)

Stays == UNCHANGED <<loaderVars, layerVars, faults>>

RequestStep(x) ==
  \/ StartCall(x) /\ Stays
  \/ ReadEnds(x, "successful") /\ Stays
  \/ HandleUnsuccessfulRetrieval(x)
  \/ SaveContent(x)
  \/ BeginWrite(x)
  \/ WriteFile(x) /\ Stays
  \/ SaveEnds(x)
  \/ Discard(x) /\ Stays

RequestFails(x) ==
  \/ DropRequest(x) /\ Fault /\ UNCHANGED <<loaderVars, layerVars>>
  \/ \E s \in {"error", "interrupted"} :
       ReadEnds(x, s) /\ Fault /\ UNCHANGED <<loaderVars, layerVars>>
  \/ HandleRefusal(x)
  \/ IgnoreContent(x)
  \/ SaveFails(x)

Next ==
  \/ \E l \in Loaders :
       \/ \E r \in Resources : RequestTexture(l, r) \/ RequestTextureTwice(l, r)
       \/ LoaderStep(l)
       \/ HostUnavailable(l)
  \/ \E x \in Requests : RequestStep(x) \/ RequestFails(x)
  \/ \E r \in Resources : Expire(r) \/ EvictTile(r) \/ AbsenceEnds(r)
  \/ Restart

Spec == Init /\ [][Next]_vars

\* The tiles stay in view, so that the rendering thread requests them in every
\* frame; the task service and the retrieval service make progress; time passes.
FairSpec ==
  /\ Spec
  /\ \A r \in Resources :
       /\ WF_vars(\E l \in Loaders : RequestTexture(l, r))
       /\ WF_vars(AbsenceEnds(r))
  /\ \A l \in Loaders : WF_vars(LoaderStep(l))
  /\ \A x \in Requests : WF_vars(RequestStep(x))
-----------------------------------------------------------------------------
(* Properties *)

\* The types of the variables; a loader has a tile exactly while it runs a task.
TypeOK ==
  /\ DownloadTypeOK
  /\ {memory, absent, expired, damaged} \subseteq SUBSET Resources
  /\ tile \in [Loaders -> Resources \cup {NoResource}]
  /\ pc \in [Loaders -> {"idle", "find", "check", "load", "unmark", "delete", "retrieve"}]
  /\ \A l \in Loaders : tile[l] = NoResource <=> pc[l] = "idle"
  /\ faults \in 0..MaxFaults

\* Whoever holds the fileLock finds no file that a download is still writing, and
\* an incomplete one only where a write has failed or the program died in it.
IncompleteOnlyIfDamaged ==
  FileLockIsFree => \A r \in Resources : file[r] # "full" => file[r] = "none" \/ r \in damaged

\* A tile in view is loaded once the failures cease, and again whenever it was
\* evicted: no file left over from a failed write, no file deleted under another
\* task's hands, no lost request and no late failure keeps it away for good.
TileIsLoaded == \A r \in Resources : []<>(r \in memory)

-----------------------------------------------------------------------------
(* The inductive strengthening of IncompleteOnlyIfDamaged *)

\* The fileLock has one owner.
LockInv ==
  \A x, y \in Requests :
    phase[x] \in {"write", "lost"} /\ phase[y] \in {"write", "lost"} => x = y

\* A file that is being written is empty as yet; an empty one is being written, or
\* damaged.
FileInv ==
  \A r \in Resources :
    /\ file[r] # "torn"
    /\ Writers(r) # {} => file[r] = "empty"
    /\ file[r] = "empty" => r \in damaged \/ Writers(r) # {}

IInv == TypeOK /\ LockInv /\ FileInv
=============================================================================
