--------------------------- MODULE DownloadProofs ---------------------------
(***************************************************************************)
(* Lemmas on the steps of a download, for the modules that compose them:   *)
(* each keeps the types, and keeps a request's target and phase in step    *)
(* with its status.                                                        *)
(***************************************************************************)
EXTENDS Download, TLAPS

\* Nothing is requested at first.
LEMMA NoRequestsType ==
  ASSUME NoRequests, file \in [Resources -> {"none", "empty", "torn", "full"}]
  PROVE  DownloadTypeOK
BY DownloadAssumption DEF NoRequests, DownloadTypeOK, Service!Init, Phases, Outcomes

\* runRetriever() accepts a request, which waits from then on.
LEMMA RunRetrieverType ==
  ASSUME DownloadTypeOK, NEW x \in Requests, NEW r \in Resources,
         RunRetriever(x, r), UNCHANGED file
  PROVE  DownloadTypeOK'
BY DownloadAssumption DEF RunRetriever, Service!Submit, DownloadTypeOK

\* The service drops a request, which has not been called.
LEMMA DropRequestType ==
  ASSUME DownloadTypeOK, NEW x \in Requests, DropRequest(x)
  PROVE  DownloadTypeOK' /\ status'[x] = "over"
BY DownloadAssumption
DEF DropRequest, Service!DropAll, DownloadTypeOK

\* A worker calls the retriever.
LEMMA StartCallType ==
  ASSUME DownloadTypeOK, NEW x \in Requests, StartCall(x)
  PROVE  DownloadTypeOK' /\ phase[x] = "none"
BY DEF StartCall, Service!Start, GoOn, DownloadTypeOK, Phases

\* A step of call() inside the running request.
LEMMA GoOnType ==
  ASSUME DownloadTypeOK, NEW x \in Requests, NEW p \in Phases \ {"none"},
         phase[x] # "none", GoOn(x, p),
         outcome' \in [Requests -> Outcomes \cup {"none"}],
         file' \in [Resources -> {"none", "empty", "torn", "full"}],
         UNCHANGED <<status, target>>
  PROVE  DownloadTypeOK'
BY DEF GoOn, DownloadTypeOK

\* call() has met its end, with or without success.
LEMMA ReadEndsType ==
  ASSUME DownloadTypeOK, NEW x \in Requests, NEW s \in Outcomes, ReadEnds(x, s)
  PROVE  DownloadTypeOK'
<1>1. outcome' \in [Requests -> Outcomes \cup {"none"}]
  BY DEF ReadEnds, DownloadTypeOK
<1>2. /\ phase[x] # "none" /\ GoOn(x, "post") /\ UNCHANGED <<status, target, file>>
      /\ "post" \in Phases \ {"none"}
  BY DEF ReadEnds, Phases
<1>3. file' \in [Resources -> {"none", "empty", "torn", "full"}]
  BY <1>2 DEF DownloadTypeOK
<1> QED BY <1>1, <1>2, <1>3, GoOnType

\* call() returns, while others may have lost the file they write.
LEMMA CallEndsWithType ==
  ASSUME DownloadTypeOK, NEW x \in Requests, NEW p \in [Requests -> Phases],
         \A y \in Requests : p[y] # "none" <=> phase[y] # "none",
         CallEndsWith(x, p),
         file' \in [Resources -> {"none", "empty", "torn", "full"}]
  PROVE  DownloadTypeOK' /\ phase' = [p EXCEPT ![x] = "none"]
BY DownloadAssumption
DEF CallEndsWith, Service!End, DownloadTypeOK, Phases

\* call() returns, and no other request is touched.
LEMMA CallEndsType ==
  ASSUME DownloadTypeOK, NEW x \in Requests, CallEnds(x),
         file' \in [Resources -> {"none", "empty", "torn", "full"}]
  PROVE  DownloadTypeOK' /\ phase' = [phase EXCEPT ![x] = "none"]
<1>1. phase \in [Requests -> Phases]
  BY DEF DownloadTypeOK
<1> QED BY <1>1, CallEndsWithType DEF CallEnds

\* A request that is over is forgotten.
LEMMA DiscardType ==
  ASSUME DownloadTypeOK, NEW x \in Requests, Discard(x)
  PROVE  DownloadTypeOK'
BY DEF Discard, DownloadTypeOK

\* A request that is writing has a resource.
LEMMA TargetType ==
  ASSUME DownloadTypeOK, NEW x \in Requests, phase[x] # "none"
  PROVE  target[x] \in Resources
BY DEF DownloadTypeOK

\* Deleting a file takes it away from those who write it, and from nobody else.
LEMMA OrphanedType ==
  ASSUME DownloadTypeOK, NEW r
  PROVE  /\ Orphaned(r) \in [Requests -> Phases]
         /\ \A y \in Requests :
              Orphaned(r)[y] = IF target[y] = r /\ phase[y] = "write" THEN "lost"
                               ELSE phase[y]
BY DEF Orphaned, Writers, RequestsFor, DownloadTypeOK, Phases

\* The file of a resource is deleted.
LEMMA DeleteFileType ==
  ASSUME DownloadTypeOK, NEW r \in Resources, DeleteFile(r)
  PROVE  DownloadTypeOK'
<1>1. file' \in [Resources -> {"none", "empty", "torn", "full"}]
  BY DEF DeleteFile, SetFile, DownloadTypeOK
<1>2. /\ phase' = Orphaned(r) /\ UNCHANGED <<status, target, outcome>>
  BY DEF DeleteFile
<1> QED BY <1>1, <1>2, OrphanedType DEF DownloadTypeOK
=============================================================================
