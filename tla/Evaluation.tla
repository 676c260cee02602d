----------------------------- MODULE Evaluation -----------------------------
(***************************************************************************)
(* The evaluation of an uploaded bot: the upload handler of                *)
(* telemetry/api.py, which fills the contestant's staging directory and    *)
(* starts one orchestrator process per upload, and infra/orchestrator.py,  *)
(* which builds an image from that directory, starts a scoring engine,     *)
(* runs the image in a pod and reaps both.                                 *)
(*                                                                         *)
(* The handler never awaits, so it is two uninterrupted steps on the API's *)
(* event loop; every orchestrator is a process of its own.  The directory, *)
(* the image tag (both named for the contestant) and the pod (one name for *)
(* everybody) are shared, and an orchestrator lets go of all three between *)
(* any two of its calls.  An image is the pair of the files and the recipe *)
(* (Dockerfile.generated) it was built from.                               *)
(***************************************************************************)
EXTENDS Naturals, FiniteSets

CONSTANTS Count,      \* bound on uploads; they are numbered in the order of their arrival
          Owner,      \* Owner[u]: the contestant_id sent with upload u
          Lang,       \* Lang[u]: the language of the files of u
          MaxFaults,  \* bound on failing calls of Kubernetes and docker
          MaxActive,  \* bound on evaluations under way at the same time
          Repo,       \* the files of the repository itself
          Nothing,    \* the files of an empty staging directory
          None

Uploads == 1 .. Count
Languages == {"rust", "go", "python", "cpp"}
Contestants == {Owner[u] : u \in Uploads}

ASSUME BoundsAssumption == Count \in Nat /\ MaxFaults \in Nat /\ MaxActive \in Nat
ASSUME LangAssumption == Lang \in [Uploads -> Languages]
ASSUME FilesAssumption == Repo # Nothing /\ {Repo, Nothing} \cap Uploads = {}
ASSUME WorkspaceAssumption == Repo \notin Contestants  \* theirs are below /tmp/sandbox_uploads
ASSUME NoneAssumption == /\ None \notin Uploads /\ None \notin Languages
                        /\ None \notin {"error", "done", "leaked"}
                        /\ \A f \in Uploads \cup {Repo, Nothing}, r \in Languages \cup {None} :
                              None # [files |-> f, recipe |-> r]

VARIABLES handling,  \* the upload whose handler occupies the event loop, or None
          dir,       \* dir[c]: staging directory of contestant c, or None
          image,     \* image[c]: what the tag contestant-agent:c names, or None
          pod,       \* the pod active-contestant-sandbox, or None
          pc,        \* pc[u]: where upload u and its orchestrator are
          local,     \* local[u]: variables of the orchestrator of u
          scoring,   \* scoring[u]: the scoring engine process of u
          result,    \* result[u]: how the evaluation of u ended
          faults,    \* calls that failed so far
          met,       \* history: pairs of uploads that were under way together
          ran        \* history: uploads whose pod ran to its end

vars == <<handling, dir, image, pod, pc, local, scoring, result, faults, met, ran>>

Over == {"new", "refused", "exited"}
Active == {u \in Uploads : pc[u] \notin Over}

\* What a workspace holds: nothing if the directory is gone; the repository root is always
\* there, and its recipe is always the one for Python.
Contents(w) == IF w = Repo THEN [files |-> Repo, recipe |-> "python"] ELSE dir[w]

\* The language that auto_detect_and_build settles for; C++ when no file tells otherwise.
Detected(contents) == CASE contents = None -> "cpp"
                        [] contents.files = Repo -> "python"
                        [] contents.files = Nothing -> "cpp"
                        [] OTHER -> Lang[contents.files]

\* Whether docker build succeeds: the Python recipe copies any files, the others compile.
Builds(img) == \/ img.recipe = "python"
               \/ img.files \in Uploads /\ img.recipe = Lang[img.files]

Init == /\ handling = None
        /\ dir = [c \in Contestants |-> None]
        /\ image = [c \in Contestants |-> None]
        /\ pod = None
        /\ pc = [u \in Uploads |-> "new"]
        /\ local = [u \in Uploads |-> None]
        /\ scoring = [u \in Uploads |-> "none"]
        /\ result = [u \in Uploads |-> None]
        /\ faults = 0
        /\ met = {}
        /\ ran = {}

-----------------------------------------------------------------------------
(* The API process. *)

\* receive_submission: the old directory goes, an empty one takes its place.
ClearDirectory(u) ==
  /\ handling = None /\ pc[u] = "new" /\ Cardinality(Active) < MaxActive
  /\ \A v \in Uploads : v < u => pc[v] # "new"
  /\ handling' = u
  /\ dir' = [dir EXCEPT ![Owner[u]] = [files |-> Nothing, recipe |-> None]]
  /\ pc' = [pc EXCEPT ![u] = "extracting"]
  /\ met' = met \cup {{u, v} : v \in Active}
  /\ UNCHANGED <<image, pod, local, scoring, result, faults, ran>>

\* The archive is unpacked and a task that will start the orchestrator is created.  A file
\* that an orchestrator wrote into the directory in between stays.
Extract(u) ==
  /\ handling = u
  /\ handling' = None
  /\ dir' = [dir EXCEPT ![Owner[u]].files = u]
  /\ pc' = [pc EXCEPT ![u] = "queued"]
  /\ UNCHANGED <<image, pod, local, scoring, result, faults, met, ran>>

\* The archive is bad: the directory is removed and the answer is 500.
RefuseArchive(u) ==
  /\ handling = u
  /\ handling' = None
  /\ dir' = [dir EXCEPT ![Owner[u]] = None]
  /\ pc' = [pc EXCEPT ![u] = "refused"]
  /\ UNCHANGED <<image, pod, local, scoring, result, faults, met, ran>>

\* run_detached_orchestrator runs when the event loop is free.
SpawnOrchestrator(u) ==
  /\ handling = None /\ pc[u] = "queued"
  /\ pc' = [pc EXCEPT ![u] = "connect"]
  /\ UNCHANGED <<handling, dir, image, pod, local, scoring, result, faults, met, ran>>

-----------------------------------------------------------------------------
(* The orchestrator of u.  Step(u, from, to) moves its control, Raise(u, from) is an         *)
(* exception inside the try block: control goes to the finally block.  Fault counts a       *)
(* failing call.                                                                             *)

Step(u, from, to) == pc[u] = from /\ pc' = [pc EXCEPT ![u] = to]
Fault == faults < MaxFaults /\ faults' = faults + 1
Raise(u, from) == /\ Step(u, from, "terminate")
                  /\ local' = [local EXCEPT ![u] = None]
                  /\ result' = [result EXCEPT ![u] = "error"]
                  /\ UNCHANGED <<handling, dir, image, pod, scoring, met, ran>>

\* run: connect() is outside the try block, an exception there ends the process at once.
Connect(u) ==
  \/ /\ Step(u, "connect", "locate")
     /\ UNCHANGED <<handling, dir, image, pod, local, scoring, result, faults, met, ran>>
  \/ /\ Step(u, "connect", "exited") /\ Fault
     /\ result' = [result EXCEPT ![u] = "error"]
     /\ UNCHANGED <<handling, dir, image, pod, local, scoring, met, ran>>

\* run: the repository root stands in for a directory that does not exist.
LocateWorkspace(u) ==
  /\ Step(u, "locate", "cluster")
  /\ local' = [local EXCEPT ![u] =
                 [workspace |-> IF dir[Owner[u]] = None THEN Repo ELSE Owner[u],
                  lang |-> None, context |-> None]]
  /\ UNCHANGED <<handling, dir, image, pod, scoring, result, faults, met, ran>>

\* ensure_namespace and ensure_network_policy: an object that exists (409) is as good as a
\* new one, any other error is raised.
EnsureCluster(u) ==
  \/ /\ Step(u, "cluster", "scan")
     /\ UNCHANGED <<handling, dir, image, pod, local, scoring, result, faults, met, ran>>
  \/ Raise(u, "cluster") /\ Fault

\* auto_detect_and_build: the language is decided from the files found now ...
DetectLanguage(u) ==
  /\ Step(u, "scan", "write")
  /\ local' = [local EXCEPT ![u].lang = Detected(Contents(local[u].workspace))]
  /\ UNCHANGED <<handling, dir, image, pod, scoring, result, faults, met, ran>>

\* ... the recipe is written into the directory as it is then, if it still exists ...
WriteRecipe(u) ==
  LET w == local[u].workspace IN
  \/ /\ Step(u, "write", "build")
     /\ Contents(w) # None
     /\ dir' = IF w = Repo THEN dir ELSE [dir EXCEPT ![w].recipe = local[u].lang]
     /\ UNCHANGED <<handling, image, pod, local, scoring, result, faults, met, ran>>
  \/ Raise(u, "write") /\ UNCHANGED faults /\ Contents(w) = None

\* ... docker reads files and recipe, if they are (still) there ...
SendContext(u) ==
  LET context == Contents(local[u].workspace)
      readable == IF context = None THEN FALSE ELSE context.recipe # None IN
  \/ /\ Step(u, "build", "tag")
     /\ readable
     /\ local' = [local EXCEPT ![u].context = context]
     /\ UNCHANGED <<handling, dir, image, pod, scoring, result, faults, met, ran>>
  \/ Raise(u, "build") /\ UNCHANGED faults /\ ~readable

\* ... and the tag moves to the new image when the build is through.  The build runs commands
\* of the contestant's files and has no timeout: it may stay at "tag" for ever.
TagImage(u) ==
  /\ Step(u, "tag", "score")
  /\ Builds(local[u].context)
  /\ image' = [image EXCEPT ![Owner[u]] = local[u].context]
  /\ local' = [local EXCEPT ![u] = None]
  /\ UNCHANGED <<handling, dir, pod, scoring, result, faults, met, ran>>

\* Wrong on purpose: a failed build goes unnoticed (no check=True).
BuildIgnored(u) ==
  /\ Step(u, "tag", "score")
  /\ Fault
  /\ UNCHANGED <<handling, dir, image, pod, local, scoring, result, met, ran>>

\* check=True: a failed build raises.
BuildFails(u) ==
  /\ Raise(u, "tag")
  /\ \/ ~Builds(local[u].context) /\ UNCHANGED faults
     \/ Builds(local[u].context) /\ Fault

\* start_scoring_engine: Popen returns before the process has joined the topic, or raises.
StartScoring(u) ==
  \/ /\ Step(u, "score", "delete")
     /\ scoring' = [scoring EXCEPT ![u] = "starting"]
     /\ UNCHANGED <<handling, dir, image, pod, local, result, faults, met, ran>>
  \/ Raise(u, "score") /\ Fault

\* delete_old_sandbox_pod: 404 is as good as a deletion; the pod need not be gone yet.
Deleted(p) == IF p = None THEN None ELSE [p EXCEPT !.deleting = TRUE]
DeleteOldPod(u) ==
  \/ /\ Step(u, "delete", "gone")
     /\ pod' = Deleted(pod)
     /\ UNCHANGED <<handling, dir, image, local, scoring, result, faults, met, ran>>
  \/ Raise(u, "delete") /\ Fault

\* The loop of wait=True ends when a read says 404.  Other answers of the API are swallowed
\* and the read is tried again; errors that are not answers, like a lost connection, raise.
AwaitGone(u) ==
  \/ /\ pod = None
     /\ Step(u, "gone", "create")
     /\ UNCHANGED <<handling, dir, image, pod, local, scoring, result, faults, met, ran>>
  \/ Raise(u, "gone") /\ Fault

\* spawn_contestant_sandbox_pod: here 409 (another pod has the name) is an error.
CreatePod(u) ==
  \/ /\ pod = None
     /\ Step(u, "create", "wait")
     /\ pod' = [by |-> u, phase |-> "Pending", runs |-> None, deleting |-> FALSE]
     /\ UNCHANGED <<handling, dir, image, local, scoring, result, faults, met, ran>>
  \/ pod # None /\ Raise(u, "create") /\ UNCHANGED faults
  \/ pod = None /\ Raise(u, "create") /\ Fault

\* wait_for_agent_completion: whatever pod has the name is taken for the own one.
PodEnded(u) ==
  /\ pod # None /\ pod.phase = "Ended"
  /\ Step(u, "wait", "terminate")
  /\ result' = [result EXCEPT ![u] = "done"]
  /\ UNCHANGED <<handling, dir, image, pod, local, scoring, faults, met, ran>>
PodLost(u) == pod = None /\ Raise(u, "wait") /\ UNCHANGED faults
StatusFails(u) == pod # None /\ Raise(u, "wait") /\ Fault
\* Wrong on purpose: the deadline ends the wait like the end of the pod.
TimeoutReturns(u) ==
  /\ Step(u, "wait", "terminate")
  /\ result' = [result EXCEPT ![u] = "done"]
  /\ UNCHANGED <<handling, dir, image, pod, local, scoring, faults, met, ran>>
Timeout(u) == Raise(u, "wait") /\ UNCHANGED faults

\* The finally block of run: terminate(), wait at most 10 s, else kill().
TerminateScoring(u) ==
  \/ /\ scoring[u] = "none"
     /\ Step(u, "terminate", "cleanup")
     /\ UNCHANGED scoring
     /\ UNCHANGED <<handling, dir, image, pod, local, result, faults, met, ran>>
  \/ /\ scoring[u] # "none"
     /\ Step(u, "terminate", "reap")
     /\ scoring' = [scoring EXCEPT ![u] = IF @ = "dead" THEN @ ELSE "stopping"]
     /\ UNCHANGED <<handling, dir, image, pod, local, result, faults, met, ran>>
ReapScoring(u) ==
  /\ scoring[u] = "dead"
  /\ Step(u, "reap", "cleanup")
  /\ UNCHANGED <<handling, dir, image, pod, local, scoring, result, faults, met, ran>>
\* Wrong on purpose: TimeoutExpired is ignored.
KillForgotten(u) ==
  /\ Step(u, "reap", "cleanup")
  /\ UNCHANGED <<handling, dir, image, pod, local, scoring, result, faults, met, ran>>
KillScoring(u) ==
  /\ scoring[u] # "dead"
  /\ Step(u, "reap", "cleanup")
  /\ scoring' = [scoring EXCEPT ![u] = "dead"]
  /\ UNCHANGED <<handling, dir, image, pod, local, result, faults, met, ran>>

\* Wrong on purpose: the pod is kept (as --keep-resources does).
CleanupKeeps(u) ==
  /\ Step(u, "cleanup", "exited")
  /\ UNCHANGED <<handling, dir, image, pod, local, scoring, result, faults, met, ran>>
\* cleanup: whatever pod has the name is deleted, without waiting.
Cleanup(u) ==
  \/ /\ Step(u, "cleanup", "exited")
     /\ pod' = Deleted(pod)
     /\ UNCHANGED <<handling, dir, image, local, scoring, result, faults, met, ran>>
  \/ /\ Step(u, "cleanup", "exited") /\ Fault
     /\ result' = [result EXCEPT ![u] = "leaked"]
     /\ UNCHANGED <<handling, dir, image, pod, local, scoring, met, ran>>

Orchestrate(u) ==
  \/ Connect(u) \/ LocateWorkspace(u) \/ EnsureCluster(u)
  \/ DetectLanguage(u) \/ WriteRecipe(u) \/ SendContext(u) \/ TagImage(u) \/ BuildFails(u)
  \/ StartScoring(u) \/ DeleteOldPod(u) \/ AwaitGone(u) \/ CreatePod(u)
  \/ PodEnded(u) \/ PodLost(u) \/ StatusFails(u) \/ Timeout(u)
  \/ TerminateScoring(u) \/ ReapScoring(u) \/ KillScoring(u) \/ Cleanup(u)

-----------------------------------------------------------------------------
(* The scoring engine of u, and Kubernetes. *)

\* The consumer gets its partitions and starts at the end of the topic.
ScoringJoins(u) ==
  /\ scoring[u] = "starting"
  /\ scoring' = [scoring EXCEPT ![u] = "joined"]
  /\ UNCHANGED <<handling, dir, image, pod, pc, local, result, faults, met, ran>>

\* It ends when told to, and of its own accord: no broker, or the contestant is disqualified.
ScoringEnds(u) ==
  /\ scoring[u] \in {"starting", "joined", "stopping"}
  /\ scoring' = [scoring EXCEPT ![u] = "dead"]
  /\ UNCHANGED <<handling, dir, image, pod, pc, local, result, faults, met, ran>>

\* The image is looked up by its tag when the container starts.
PodStarts ==
  /\ pod # None /\ pod.phase = "Pending" /\ ~pod.deleting
  /\ pod' = [pod EXCEPT !.phase = "Running", !.runs = image[Owner[pod.by]]]
  /\ UNCHANGED <<handling, dir, image, pc, local, scoring, result, faults, met, ran>>

\* The bot exits (Succeeded or Failed: the orchestrator treats both alike).
PodEnds ==
  /\ pod # None /\ pod.phase = "Running" /\ ~pod.deleting
  /\ pod' = [pod EXCEPT !.phase = "Ended"]
  /\ ran' = ran \cup {pod.by}
  /\ UNCHANGED <<handling, dir, image, pc, local, scoring, result, faults, met>>

PodRemoved ==
  /\ pod # None /\ pod.deleting
  /\ pod' = None
  /\ UNCHANGED <<handling, dir, image, pc, local, scoring, result, faults, met, ran>>

Serve(u) == ClearDirectory(u) \/ Extract(u) \/ RefuseArchive(u) \/ SpawnOrchestrator(u)

Next == \/ \E u \in Uploads : \/ Serve(u) \/ Orchestrate(u)
                              \/ ScoringJoins(u) \/ ScoringEnds(u)
        \/ PodStarts \/ PodEnds \/ PodRemoved

\* The event loop finishes a handler and runs its tasks, every orchestrator process runs on
\* (Kubernetes answers its calls or fails them), and Kubernetes removes what was deleted.
\* Nothing says that a docker build or a bot ever ends.
Fairness ==
  /\ \A u \in Uploads : /\ WF_vars(Extract(u) \/ RefuseArchive(u) \/ SpawnOrchestrator(u))
                        /\ WF_vars(pc[u] # "tag" /\ Orchestrate(u))
  /\ WF_vars(PodRemoved)
Spec == Init /\ [][Next]_vars /\ Fairness

-----------------------------------------------------------------------------
(* Properties. *)

Met(u, v) == {u, v} \in met
Alone(u) == \A v \in Uploads : ~Met(u, v)
OwnerAlone(u) == \A v \in Uploads : Met(u, v) => Owner[v] # Owner[u]

\* An evaluation leaves nothing behind, whichever of its steps failed: when its orchestrator
\* has ended, its scoring engine is dead, and a pod that is not being deleted belongs to an
\* evaluation still under way, unless the deletion of that very evaluation failed.  The finally
\* block of run; the pod may have been deleted by, or belong to, somebody else by then.
NothingOutlives ==
  /\ \A u \in Uploads : pc[u] = "exited" => scoring[u] \in {"none", "dead"}
  /\ pod # None => \/ pod.deleting
                   \/ pc[pod.by] \notin Over
                   \/ result[pod.by] = "leaked"

\* The pod of an upload runs the files of that upload, built by the recipe for their language,
\* unless the same contestant had another upload under way at some time of the evaluation:
\* other contestants' evaluations, earlier uploads of the contestant, a leftover image or
\* directory and failed builds do not matter.
OwnCodeRuns ==
  \A u \in Uploads :
    /\ pod # None /\ pod.by = u /\ pod.runs # None
    /\ OwnerAlone(u) /\ result[u] # "leaked"
    => pod.runs = [files |-> u, recipe |-> Lang[u]]

\* An evaluation that met no other one and reports a finished run did run its own pod to the
\* end, whatever an earlier evaluation left in the cluster.  (wait_for_agent_completion
\* looks for the pod's name only; deletion, creation and the errors raised must make up
\* for it.)
AloneIsSound == \A u \in Uploads : result[u] = "done" /\ Alone(u) => u \in ran

\* In the end every evaluation has ended or is in a docker build that runs for ever, whatever
\* bots do and whichever evaluations fight over the pod, unless a failed deletion left a pod
\* that nobody deletes any more: the loop in delete_old_sandbox_pod has no limit and ends
\* only when a read finds no pod.  A build that hangs holds up no other evaluation.
Leaked == pod # None /\ ~pod.deleting /\ result[pod.by] = "leaked"
EvaluationsEnd == <>[](Leaked \/ \A u \in Active : pc[u] = "tag")

=============================================================================
