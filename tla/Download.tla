------------------------------ MODULE Download ------------------------------
(***************************************************************************)
(* A download on its way from the retrieval service to a file: the call()  *)
(* of gov.nasa.worldwind.retrieve.URLRetriever, and the part of            *)
(* AbstractRetrievalPostProcessor and WWIO.saveBuffer() that writes.  The  *)
(* modules that extend this one decide what is requested and what becomes  *)
(* of what was read.  The service itself is the abstract RequestService.   *)
(*                                                                         *)
(* A request x is for target[x] and stands at phase[x]:                    *)
(*   "none"     it does not exist, waits, or is over                       *)
(*   "read"     call() connects and reads                                  *)
(*   "post"     call() has ended with the state outcome[x], and end() runs *)
(*              the post-processor                                         *)
(*   "save"     the content is to be saved                                 *)
(*   "write"    saveBuffer() has opened the file, and thereby emptied it   *)
(*   "lost"     ... and the file has been deleted by somebody since        *)
(*   "saved"    the file has been written and closed                       *)
(***************************************************************************)
EXTENDS Naturals, FiniteSets

CONSTANTS
  Requests,
  Resources,
  NoResource,  \* the target of a request that does not exist
  MaxRunning   \* the retrieval service's threads

ASSUME DownloadAssumption ==
  /\ IsFiniteSet(Requests)
  /\ NoResource \notin Resources
  /\ MaxRunning \in Nat \ {0}

VARIABLES
  status,      \* the requests in the retrieval service
  target,
  phase,
  outcome,     \* the state of a retriever whose call() has ended
  file         \* the file of each resource: "none", "empty" for one that is not
               \* complete, "torn" for one two requests write, or "full"

requestVars == <<status, target, phase, outcome>>
downloadVars == <<requestVars, file>>

Service == INSTANCE RequestService

Outcomes == {"successful", "error", "interrupted"}
Phases == {"none", "read", "post", "save", "write", "lost", "saved"}

DownloadTypeOK ==
  /\ status \in [Requests -> {"none", "waiting", "running", "over"}]
  /\ target \in [Requests -> Resources \cup {NoResource}]
  /\ phase \in [Requests -> Phases]
  /\ outcome \in [Requests -> Outcomes \cup {"none"}]
  /\ file \in [Resources -> {"none", "empty", "torn", "full"}]
  /\ \A x \in Requests :
       /\ target[x] # NoResource <=> status[x] \in {"waiting", "running"}
       /\ phase[x] # "none" <=> status[x] = "running"

NoRequests ==
  /\ Service!Init
  /\ target = [x \in Requests |-> NoResource]
  /\ phase = [x \in Requests |-> "none"]
  /\ outcome = [x \in Requests |-> "none"]

RequestsFor(r) == {x \in Requests : target[x] = r}
Writers(r) == {x \in RequestsFor(r) : phase[x] = "write"}

GoOn(x, p) == phase' = [phase EXCEPT ![x] = p]

-----------------------------------------------------------------------------

\* runRetriever() accepts a new request.
RunRetriever(x, r) ==
  /\ Service!Submit(x)
  /\ target' = [target EXCEPT ![x] = r]
  /\ UNCHANGED <<phase, outcome>>

\* Mutant of DropRequest: a dropped request is still taken for one of its resource.
DropRequestKeepingTarget(x) ==
  /\ Service!DropAll({x})
  /\ UNCHANGED <<target, phase, outcome, file>>

\* The service drops the request, or call() finds its thread interrupted and
\* returns before it does anything: the post-processor is not run.
DropRequest(x) ==
  /\ Service!DropAll({x})
  /\ target' = [target EXCEPT ![x] = NoResource]
  /\ UNCHANGED <<phase, outcome, file>>

StartCall(x) ==
  /\ Service!Start(x)
  /\ GoOn(x, "read")
  /\ UNCHANGED <<target, outcome, file>>

\* call() has read the content, was interrupted, or has met an exception; in each
\* case it goes on to end().
ReadEnds(x, s) ==
  /\ phase[x] = "read"
  /\ outcome' = [outcome EXCEPT ![x] = s]
  /\ GoOn(x, "post")
  /\ UNCHANGED <<status, target, file>>

\* end() has returned, and with it call(); the other requests are at the phases p.
CallEndsWith(x, p) ==
  /\ Service!End(x)
  /\ target' = [target EXCEPT ![x] = NoResource]
  /\ outcome' = [outcome EXCEPT ![x] = "none"]
  /\ phase' = [p EXCEPT ![x] = "none"]

CallEnds(x) == CallEndsWith(x, phase)

\* The request object is garbage; the next one takes its name.
Discard(x) ==
  /\ status[x] = "over"
  /\ status' = [status EXCEPT ![x] = "none"]
  /\ UNCHANGED <<target, phase, outcome, file>>

-----------------------------------------------------------------------------
(* Files: WWIO.saveBuffer() and AbstractFileStore.removeFile() *)

SetFile(r, f) == file' = [file EXCEPT ![r] = f]

\* The phases when the file of r has been deleted: a request that is writing it
\* goes on writing to a file that nobody can find.
Orphaned(r) ==
  [x \in Requests |-> IF x \in Writers(r) THEN "lost" ELSE phase[x]]

DeleteFile(r) ==
  /\ SetFile(r, "none")
  /\ phase' = Orphaned(r)
  /\ UNCHANGED <<status, target, outcome>>

OpenFile(x) ==
  /\ phase[x] = "save"
  /\ Writers(target[x]) = {}
  /\ SetFile(target[x], "empty")
  /\ GoOn(x, "write")
  /\ UNCHANGED <<status, target, outcome>>

\* Another thread of this program is writing the file: opening it has emptied it
\* under the other's hands, and then tryLock() throws.
OpenFileTwice(x) ==
  /\ phase[x] = "save"
  /\ Writers(target[x]) # {}
  /\ SetFile(target[x], "torn")
  /\ CallEnds(x)

\* The content has been written.
WriteFile(x) ==
  /\ phase[x] \in {"write", "lost"}
  /\ SetFile(target[x], IF phase[x] = "write" /\ file[target[x]] = "empty"
                        THEN "full" ELSE file[target[x]])
  /\ GoOn(x, "saved")
  /\ UNCHANGED <<status, target, outcome>>

\* Writing fails, with an error or an interrupt.  The file of this name is deleted
\* if something has been written, "don't leave behind incomplete files"; else it
\* is left as it is, empty.
WriteFails(x) ==
  /\ phase[x] \in {"write", "lost"}
  /\ \/ CallEnds(x) /\ UNCHANGED file
     \/ CallEndsWith(x, Orphaned(target[x])) /\ SetFile(target[x], "none")
=============================================================================
