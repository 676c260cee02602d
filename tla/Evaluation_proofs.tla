-------------------------- MODULE Evaluation_proofs --------------------------
(***************************************************************************)
(* Proofs that an evaluation leaves nothing behind, that a pod runs the    *)
(* code of its own upload and that a finished run is one, for any number   *)
(* of uploads and contestants, evaluations under way at the same time, and *)
(* failing calls.                                                          *)
(*                                                                         *)
(* The scoring process: up to its start there is none (ScoringInv), and    *)
(* the only ways to "cleanup" lead through its end.  The pod: whoever      *)
(* created it has not come to its own "exited" yet, or has deleted         *)
(* whatever pod had the name then, or has failed to (PodInv).              *)
(*                                                                         *)
(* Whose code: nothing but a step of u itself touches what u's contestant  *)
(* owns unless the contestant has another upload under way (Acts), so the  *)
(* steps of u can be followed one by one (DirInv, ImageInv); and a pod     *)
(* that starts late still belongs to an upload under way (PodInv).         *)
(***************************************************************************)
EXTENDS Evaluation, TLAPS

Early == {"new", "extracting", "queued", "refused", "connect", "locate", "cluster",
          "scan", "write", "build", "tag", "score"}
Late == {"wait", "terminate", "reap", "cleanup"}
Ends == {"cleanup", "exited"}
Places == Early \cup Late \cup Ends \cup {"delete", "gone", "create"}
Lives == {"none", "starting", "joined", "stopping", "dead"}
Results == {"error", "done", "leaked", None}

ShapeInv ==
    /\ pc \in [Uploads -> Places]
    /\ scoring \in [Uploads -> Lives]
    /\ result \in [Uploads -> Results]

ScoringInv ==
    \A u \in Uploads :
        /\ pc[u] \in Early => scoring[u] = "none"
        /\ pc[u] \in Ends => scoring[u] \in {"none", "dead"}

Kept(p, place, end) == p.deleting \/ place[p.by] \in Late \/ end[p.by] = "leaked"
Shaped(p) ==
    /\ p.by \in Uploads
    /\ p = [by |-> p.by, phase |-> p.phase, runs |-> p.runs, deleting |-> p.deleting]
PodInv ==
    /\ pod # None => Shaped(pod) /\ Kept(pod, pc, result)
    /\ \A u \in Uploads : result[u] = "leaked" => pc[u] = "exited"

HandlingInv == \A u \in Uploads : handling = u => pc[u] = "extracting"

ReapInv == ShapeInv /\ ScoringInv /\ PodInv /\ HandlingInv

(* A step of u from one place to another changes nothing of the others but *)
(* the pod; what has to hold for u and for the pod.                        *)
LEMMA Moves ==
    ASSUME ReapInv, NEW u \in Uploads, NEW to \in Places,
           pc[u] # "exited", pc' = [pc EXCEPT ![u] = to],
           NEW s \in Lives, scoring' = [scoring EXCEPT ![u] = s],
           NEW r \in Results, result' = [result EXCEPT ![u] = r],
           to \in Early => s = "none",
           to \in Ends => s \in {"none", "dead"},
           r = "leaked" => to = "exited",
           \A v \in Uploads : handling' = v =>
              (handling = v /\ v # u) \/ (v = u /\ to = "extracting"),
           pod' # None =>
              /\ Shaped(pod')
              /\ \/ pod'.deleting
                 \/ pod'.by = u /\ (to \in Late \/ r = "leaked")
                 \/ pod # None /\ pod'.by = pod.by /\ pod.by # u /\ ~pod.deleting
    PROVE  ReapInv'
<1>1. /\ pc'[u] = to /\ scoring'[u] = s /\ result'[u] = r
      /\ \A v \in Uploads \ {u} : pc'[v] = pc[v] /\ scoring'[v] = scoring[v] /\ result'[v] = result[v]
  BY DEF ReapInv, ShapeInv
<1>2. ShapeInv'
  BY DEF ReapInv, ShapeInv
<1>3. ScoringInv'
  BY <1>1 DEF ReapInv, ScoringInv
<1>4. \A v \in Uploads : result'[v] = "leaked" => pc'[v] = "exited"
  BY <1>1 DEF ReapInv, PodInv
<1>5. ASSUME pod' # None PROVE Shaped(pod') /\ Kept(pod', pc', result')
  <2>1. Shaped(pod') /\ pod'.by \in Uploads
    BY <1>5 DEF Shaped
  <2>2. CASE pod'.deleting
    BY <2>1, <2>2 DEF Kept
  <2>3. CASE pod'.by = u /\ (to \in Late \/ r = "leaked")
    BY <1>1, <2>1, <2>3 DEF Kept
  <2>4. CASE pod # None /\ pod'.by = pod.by /\ pod.by # u /\ ~pod.deleting
    BY <1>1, <2>1, <2>4 DEF Kept, ReapInv, PodInv, Shaped
  <2> QED
    BY <1>5, <2>2, <2>3, <2>4
<1>6. HandlingInv'
  BY <1>1 DEF ReapInv, HandlingInv
<1> QED
  BY <1>2, <1>3, <1>4, <1>5, <1>6 DEF ReapInv, PodInv

(* The same when pod, scoring process and result stay: u stays where it    *)
(* keeps its pod, and has no process to forget.                            *)
LEMMA MovesQuietly ==
    ASSUME ReapInv, NEW u \in Uploads, NEW to \in Places,
           pc[u] # "exited", pc' = [pc EXCEPT ![u] = to],
           UNCHANGED <<pod, scoring, result>>,
           \A v \in Uploads : handling' = v =>
              (handling = v /\ v # u) \/ (v = u /\ to = "extracting"),
           pc[u] \in Late => to \in Late,
           to \in Early => pc[u] \in Early,
           to \in Ends => scoring[u] \in {"none", "dead"}
    PROVE  ReapInv'
<1> DEFINE s == scoring[u]
           r == result[u]
<1>1. /\ scoring' = [scoring EXCEPT ![u] = s] /\ s \in Lives
      /\ result' = [result EXCEPT ![u] = r] /\ r \in Results
  BY DEF ReapInv, ShapeInv
<1>2. /\ to \in Early => s = "none"
      /\ to \in Ends => s \in {"none", "dead"}
  BY DEF ReapInv, ScoringInv
<1>3. r # "leaked"
  BY DEF ReapInv, PodInv
<1>4. pod' # None =>
        /\ Shaped(pod')
        /\ \/ pod'.deleting
           \/ pod'.by = u /\ (to \in Late \/ r = "leaked")
           \/ pod # None /\ pod'.by = pod.by /\ pod.by # u /\ ~pod.deleting
  BY <1>3 DEF ReapInv, PodInv, Kept
<1> HIDE DEF s, r
<1> QED
  BY <1>1, <1>2, <1>3, <1>4, Moves, ZenonT(60)

-----------------------------------------------------------------------------
(* The orchestrator.  A plain step forward, and an exception.              *)
LEMMA StepsQuietly ==
    ASSUME ReapInv, NEW u \in Uploads, NEW from, NEW to \in Places,
           Step(u, from, to), from \notin {"exited", "extracting"}, to # "extracting",
           UNCHANGED <<handling, pod, scoring, result>>,
           from \in Late => to \in Late,
           to \in Early => from \in Early,
           to \in Ends => scoring[u] \in {"none", "dead"}
    PROVE  ReapInv'
<1>1. \A v \in Uploads : handling' = v => handling = v /\ v # u
  BY DEF ReapInv, HandlingInv, Step
<1>2. pc[u] = from /\ pc' = [pc EXCEPT ![u] = to]
  BY DEF Step
<1> QED
  BY <1>1, <1>2, MovesQuietly

(* A step of main() that raises goes to the finally block.                 *)
LEMMA Raises ==
    ASSUME ReapInv, NEW u \in Uploads, NEW from, Raise(u, from),
           from \notin {"exited", "extracting"}
    PROVE  ReapInv'
<1> DEFINE s == scoring[u]
<1>1. /\ scoring' = [scoring EXCEPT ![u] = s] /\ s \in Lives
      /\ result' = [result EXCEPT ![u] = "error"] /\ "error" \in Results
      /\ "terminate" \notin Early /\ "terminate" \notin Ends /\ "terminate" \in Places
  BY DEF ReapInv, ShapeInv, Raise, Results, Early, Late, Places, Ends
<1>2. \A v \in Uploads : handling' = v => handling = v /\ v # u
  BY DEF ReapInv, HandlingInv, Step, Raise
<1>3. pc[u] # "exited" /\ pc' = [pc EXCEPT ![u] = "terminate"]
  BY DEF Step, Raise
<1>4. pod' # None =>
        /\ Shaped(pod')
        /\ \/ pod'.deleting
           \/ pod'.by = u /\ ("terminate" \in Late \/ "error" = "leaked")
           \/ pod # None /\ pod'.by = pod.by /\ pod.by # u /\ ~pod.deleting
  BY DEF ReapInv, PodInv, Kept, Late, Raise
<1> HIDE DEF s
<1> QED
  BY <1>1, <1>2, <1>3, <1>4, Moves

(* Without a connection to Docker there is nothing to clean up.            *)
LEMMA ExitsEarly ==
    ASSUME ReapInv, NEW u \in Uploads, Step(u, "connect", "exited"),
           result' = [result EXCEPT ![u] = "error"], UNCHANGED <<handling, pod, scoring>>
    PROVE  ReapInv'
<1> DEFINE s == scoring[u]
<1>1. /\ scoring' = [scoring EXCEPT ![u] = s] /\ s \in Lives /\ s = "none"
      /\ "error" \in Results /\ "exited" \notin Early /\ "exited" \in Places
  BY DEF ReapInv, ShapeInv, ScoringInv, Step, Results, Early, Ends, Places
<1>2. \A v \in Uploads : handling' = v => handling = v /\ v # u
  BY DEF ReapInv, HandlingInv, Step
<1>3. pc[u] # "exited" /\ pc' = [pc EXCEPT ![u] = "exited"]
  BY DEF Step
<1>4. pod' # None =>
        /\ Shaped(pod')
        /\ \/ pod'.deleting
           \/ pod'.by = u /\ ("exited" \in Late \/ "error" = "leaked")
           \/ pod # None /\ pod'.by = pod.by /\ pod.by # u /\ ~pod.deleting
  BY DEF ReapInv, PodInv, Kept, Late, Step
<1> HIDE DEF s
<1> QED
  BY <1>1, <1>2, <1>3, <1>4, Moves

(* The steps before there is anything to clean up.                         *)
LEMMA Prepares ==
    ASSUME ReapInv, NEW u \in Uploads,
           \/ Connect(u) \/ LocateWorkspace(u) \/ EnsureCluster(u) \/ DetectLanguage(u)
           \/ WriteRecipe(u) \/ SendContext(u) \/ TagImage(u) \/ BuildFails(u)
    PROVE  ReapInv'
<1>1. CASE Connect(u)
  <2>1. CASE Step(u, "connect", "locate") /\ UNCHANGED <<handling, pod, scoring, result>>
    BY <2>1, StepsQuietly DEF Early, Late, Ends, Places
  <2>2. CASE /\ Step(u, "connect", "exited") /\ result' = [result EXCEPT ![u] = "error"]
             /\ UNCHANGED <<handling, pod, scoring>>
    BY <2>2, ExitsEarly
  <2> QED
    BY <1>1, <2>1, <2>2 DEF Connect
<1>2. CASE LocateWorkspace(u)
  BY <1>2, StepsQuietly DEF LocateWorkspace, Early, Late, Ends, Places
<1>3. CASE EnsureCluster(u)
  <2>1. CASE Raise(u, "cluster")
    BY <2>1, Raises
  <2>2. CASE Step(u, "cluster", "scan") /\ UNCHANGED <<handling, pod, scoring, result>>
    BY <2>2, StepsQuietly DEF Early, Late, Ends, Places
  <2> QED
    BY <1>3, <2>1, <2>2 DEF EnsureCluster
<1>4. CASE DetectLanguage(u)
  BY <1>4, StepsQuietly DEF DetectLanguage, Early, Late, Ends, Places
<1>5. CASE WriteRecipe(u)
  <2>1. CASE Raise(u, "write")
    BY <2>1, Raises
  <2>2. CASE Step(u, "write", "build") /\ UNCHANGED <<handling, pod, scoring, result>>
    BY <2>2, StepsQuietly DEF Early, Late, Ends, Places
  <2> QED
    BY <1>5, <2>1, <2>2 DEF WriteRecipe
<1>6. CASE SendContext(u)
  <2>1. CASE Raise(u, "build")
    BY <2>1, Raises
  <2>2. CASE Step(u, "build", "tag") /\ UNCHANGED <<handling, pod, scoring, result>>
    BY <2>2, StepsQuietly DEF Early, Late, Ends, Places
  <2> QED
    BY <1>6, <2>1, <2>2 DEF SendContext
<1>7. CASE TagImage(u)
  BY <1>7, StepsQuietly DEF TagImage, Early, Late, Ends, Places
<1>8. CASE BuildFails(u)
  BY <1>8, Raises DEF BuildFails
<1> QED
  BY <1>1, <1>2, <1>3, <1>4, <1>5, <1>6, <1>7, <1>8

(* A step that changes the pod, the scoring process or the result too; it  *)
(* does not start from the handler.                                        *)
LEMMA Steps ==
    ASSUME ReapInv, NEW u \in Uploads, NEW from, NEW to \in Places, Step(u, from, to),
           from \notin {"exited", "extracting"}, handling' = handling,
           NEW s \in Lives, scoring' = [scoring EXCEPT ![u] = s],
           NEW r \in Results, result' = [result EXCEPT ![u] = r],
           to \in Early => s = "none",
           to \in Ends => s \in {"none", "dead"},
           r = "leaked" => to = "exited",
           pod' # None =>
              /\ Shaped(pod')
              /\ \/ pod'.deleting
                 \/ pod'.by = u /\ (to \in Late \/ r = "leaked")
                 \/ pod # None /\ pod'.by = pod.by /\ pod.by # u /\ ~pod.deleting
    PROVE  ReapInv'
<1>1. \A v \in Uploads : handling' = v => handling = v /\ v # u
  BY DEF ReapInv, HandlingInv, Step
<1>2. pc[u] # "exited" /\ pc' = [pc EXCEPT ![u] = to]
  BY DEF Step
<1> QED
  BY <1>1, <1>2, Moves, ZenonT(60)

(* The scoring process and the pod are started.                            *)
LEMMA Runs ==
    ASSUME ReapInv, NEW u \in Uploads,
           StartScoring(u) \/ DeleteOldPod(u) \/ AwaitGone(u) \/ CreatePod(u)
    PROVE  ReapInv'
<1>0. /\ result' = [result EXCEPT ![u] = result[u]] \/ result' # result
      /\ scoring' = [scoring EXCEPT ![u] = scoring[u]] \/ scoring' # scoring
      /\ result[u] \in Results /\ scoring[u] \in Lives
  BY DEF ReapInv, ShapeInv
<1>1. CASE StartScoring(u)
  <2>1. CASE Raise(u, "score")
    BY <2>1, Raises
  <2>2. CASE Step(u, "score", "delete") /\ scoring' = [scoring EXCEPT ![u] = "starting"]
             /\ UNCHANGED <<handling, pod, result>>
    <3>1. pod' # None => /\ Shaped(pod')
                         /\ \/ pod'.deleting
                            \/ pod # None /\ pod'.by = pod.by /\ pod.by # u /\ ~pod.deleting
      BY <2>2 DEF Step, ReapInv, PodInv, Kept, Late
    <3>2. result[u] # "leaked"
      BY <2>2 DEF Step, ReapInv, PodInv
    <3> DEFINE r == result[u]
    <3>3. result' = [result EXCEPT ![u] = r] /\ r \in Results /\ r # "leaked"
      BY <1>0, <2>2, <3>2
    <3>4. /\ "delete" \in Places /\ "delete" \notin Early /\ "delete" \notin Ends
          /\ "starting" \in Lives
      BY DEF Early, Ends, Places, Lives
    <3> HIDE DEF r
    <3> QED
      BY <2>2, <3>1, <3>3, <3>4, Steps, ZenonT(60)
  <2> QED
    BY <1>1, <2>1, <2>2 DEF StartScoring
<1>2. CASE DeleteOldPod(u)
  <2>1. CASE Raise(u, "delete")
    BY <2>1, Raises
  <2>2. CASE Step(u, "delete", "gone") /\ pod' = Deleted(pod)
             /\ UNCHANGED <<handling, scoring, result>>
    <3>1. pod' # None => Shaped(pod') /\ pod'.deleting
      BY <2>2 DEF Deleted, ReapInv, PodInv, Shaped
    <3>2. result[u] # "leaked"
      BY <2>2 DEF Step, ReapInv, PodInv
    <3> DEFINE r == result[u]
               s == scoring[u]
    <3>3. /\ result' = [result EXCEPT ![u] = r] /\ r \in Results /\ r # "leaked"
          /\ scoring' = [scoring EXCEPT ![u] = s] /\ s \in Lives
      BY <1>0, <2>2, <3>2
    <3>4. "gone" \in Places /\ "gone" \notin Early /\ "gone" \notin Ends
      BY DEF Early, Ends, Places
    <3> HIDE DEF r, s
    <3> QED
      BY <2>2, <3>1, <3>3, <3>4, Steps, ZenonT(60)
  <2> QED
    BY <1>2, <2>1, <2>2 DEF DeleteOldPod
<1>3. CASE AwaitGone(u)
  <2>1. CASE Raise(u, "gone")
    BY <2>1, Raises
  <2>2. CASE Step(u, "gone", "create") /\ UNCHANGED <<handling, pod, scoring, result>>
    BY <2>2, StepsQuietly DEF Early, Late, Ends, Places
  <2> QED
    BY <1>3, <2>1, <2>2 DEF AwaitGone
<1>4. CASE CreatePod(u)
  <2>1. CASE Raise(u, "create")
    BY <2>1, Raises
  <2>2. CASE /\ Step(u, "create", "wait")
             /\ pod' = [by |-> u, phase |-> "Pending", runs |-> None, deleting |-> FALSE]
             /\ UNCHANGED <<handling, scoring, result>>
    <3>1. Shaped(pod') /\ pod'.by = u /\ "wait" \in Late
      BY <2>2 DEF Shaped, Late
    <3>2. result[u] # "leaked"
      BY <2>2 DEF Step, ReapInv, PodInv
    <3> DEFINE r == result[u]
               s == scoring[u]
    <3>3. /\ result' = [result EXCEPT ![u] = r] /\ r \in Results /\ r # "leaked"
          /\ scoring' = [scoring EXCEPT ![u] = s] /\ s \in Lives
      BY <1>0, <2>2, <3>2
    <3> HIDE DEF r, s
    <3> QED
      BY <2>2, <3>1, <3>3, Steps DEF Early, Ends, Places
  <2> QED
    BY <1>4, <2>1, <2>2 DEF CreatePod
<1> QED
  BY <1>1, <1>2, <1>3, <1>4

(* The wait for the pod, and the finally block.                            *)
LEMMA Finishes ==
    ASSUME ReapInv, NEW u \in Uploads,
           \/ PodEnded(u) \/ PodLost(u) \/ StatusFails(u) \/ Timeout(u)
           \/ TerminateScoring(u) \/ ReapScoring(u) \/ KillScoring(u)
    PROVE  ReapInv'
<1> DEFINE r == result[u]
           s == scoring[u]
<1>0. /\ result' = result => result' = [result EXCEPT ![u] = r]
      /\ scoring' = scoring => scoring' = [scoring EXCEPT ![u] = s]
      /\ r \in Results /\ s \in Lives /\ "done" \in Results
  BY DEF ReapInv, ShapeInv, Results
<1>1. /\ "terminate" \in Places /\ "terminate" \notin Early /\ "terminate" \notin Ends
      /\ "reap" \in Places /\ "reap" \notin Early /\ "reap" \notin Ends
      /\ "cleanup" \in Places /\ "cleanup" \notin Early
      /\ "terminate" \in Late /\ "reap" \in Late /\ "cleanup" \in Late
      /\ "dead" \in Lives /\ "stopping" \in Lives
  BY DEF Early, Late, Ends, Places, Lives
<1>2. ASSUME pc[u] # "exited", pod' = pod
      PROVE  /\ r # "leaked"
             /\ pod' # None => /\ Shaped(pod')
                               /\ \/ pod'.deleting
                                  \/ pod'.by = u
                                  \/ pod # None /\ pod'.by = pod.by /\ pod.by # u /\ ~pod.deleting
  BY <1>2 DEF ReapInv, PodInv
<1>3. CASE PodEnded(u)
  <2>1. /\ Step(u, "wait", "terminate") /\ handling' = handling /\ scoring' = scoring
        /\ result' = [result EXCEPT ![u] = "done"] /\ pod' = pod /\ pc[u] # "exited"
    BY <1>3 DEF PodEnded, Step
  <2> HIDE DEF r, s
  <2> QED
    BY <1>0, <1>1, <1>2, <2>1, Steps, ZenonT(60)
<1>4. CASE PodLost(u) \/ StatusFails(u) \/ Timeout(u)
  BY <1>4, Raises DEF PodLost, StatusFails, Timeout
<1>5. CASE TerminateScoring(u)
  <2>1. /\ handling' = handling /\ result' = result /\ pod' = pod /\ pc[u] # "exited"
    BY <1>5 DEF TerminateScoring, Step
  <2>2. CASE scoring[u] = "none" /\ Step(u, "terminate", "cleanup") /\ UNCHANGED scoring
    <3>1. s \in {"none", "dead"}
      BY <2>2
    <3> HIDE DEF r, s
    <3> QED
      BY <1>0, <1>1, <1>2, <2>1, <2>2, <3>1, Steps, ZenonT(60)
  <2>3. CASE /\ Step(u, "terminate", "reap")
             /\ \E t \in Lives : scoring' = [scoring EXCEPT ![u] = t]
    <3> PICK t \in Lives : scoring' = [scoring EXCEPT ![u] = t]
      BY <2>3
    <3> HIDE DEF r, s
    <3> QED
      BY <1>0, <1>1, <1>2, <2>1, <2>3, Steps, ZenonT(60)
  <2>4. scoring' = [scoring EXCEPT ![u] = IF @ = "dead" THEN @ ELSE "stopping"]
        => \E t \in Lives : scoring' = [scoring EXCEPT ![u] = t]
    <3> DEFINE t == IF s = "dead" THEN s ELSE "stopping"
    <3>1. t \in Lives
      BY <1>0, <1>1
    <3> QED
      BY <3>1
  <2> QED
    BY <1>5, <2>2, <2>3, <2>4 DEF TerminateScoring
<1>6. CASE ReapScoring(u)
  <2>1. /\ Step(u, "reap", "cleanup") /\ handling' = handling /\ scoring' = scoring
        /\ result' = result /\ pod' = pod /\ pc[u] # "exited" /\ s \in {"none", "dead"}
    BY <1>6 DEF ReapScoring, Step
  <2> HIDE DEF r, s
  <2> QED
    BY <1>0, <1>1, <1>2, <2>1, Steps, ZenonT(60)
<1>7. CASE KillScoring(u)
  <2>1. /\ Step(u, "reap", "cleanup") /\ handling' = handling
        /\ scoring' = [scoring EXCEPT ![u] = "dead"]
        /\ result' = result /\ pod' = pod /\ pc[u] # "exited"
        /\ "dead" \in {"none", "dead"}
    BY <1>7 DEF KillScoring, Step
  <2> HIDE DEF r, s
  <2> QED
    BY <1>0, <1>1, <1>2, <2>1, Steps, ZenonT(60)
<1> QED
  BY <1>3, <1>4, <1>5, <1>6, <1>7

(* cleanup deletes whatever pod has the name, or fails to.                 *)
LEMMA CleansUp ==
    ASSUME ReapInv, NEW u \in Uploads, Cleanup(u)
    PROVE  ReapInv'
<1> DEFINE s == scoring[u]
           r == result'[u]
<1>1. /\ Step(u, "cleanup", "exited") /\ handling' = handling
      /\ scoring' = [scoring EXCEPT ![u] = s] /\ s \in Lives /\ s \in {"none", "dead"}
      /\ "exited" \in Places /\ "exited" \notin Early
  BY DEF Cleanup, ReapInv, ShapeInv, ScoringInv, Step, Early, Ends, Places
<1>2. result' = [result EXCEPT ![u] = r] /\ r \in Results
  BY DEF Cleanup, ReapInv, ShapeInv, Results
<1>3. pod' # None =>
        /\ Shaped(pod')
        /\ \/ pod'.deleting
           \/ pod'.by = u /\ ("exited" \in Late \/ r = "leaked")
           \/ pod # None /\ pod'.by = pod.by /\ pod.by # u /\ ~pod.deleting
  <2>1. CASE pod' = Deleted(pod)
    BY <2>1 DEF Deleted, ReapInv, PodInv, Shaped
  <2>2. CASE pod' = pod /\ result' = [result EXCEPT ![u] = "leaked"]
    BY <2>2 DEF ReapInv, PodInv, ShapeInv
  <2> QED
    BY <2>1, <2>2 DEF Cleanup
<1> HIDE DEF s, r
<1> QED
  BY <1>1, <1>2, <1>3, Steps, ZenonT(60)

(* All steps of an orchestrator.                                           *)
LEMMA Orchestrates ==
    ASSUME ReapInv, NEW u \in Uploads, Orchestrate(u)
    PROVE  ReapInv'
BY Prepares, Runs, Finishes, CleansUp DEF Orchestrate

-----------------------------------------------------------------------------
(* The API process, and what the orchestrators do not control.             *)
LEMMA Serves ==
    ASSUME ReapInv, NEW u \in Uploads, Serve(u)
    PROVE  ReapInv'
<1>0. pc[u] = "extracting" \/ handling # u
  BY DEF ReapInv, HandlingInv
<1>1. CASE ClearDirectory(u)
  <2>1. /\ pc[u] = "new" /\ pc' = [pc EXCEPT ![u] = "extracting"]
        /\ UNCHANGED <<pod, scoring, result>> /\ handling' = u
    BY <1>1 DEF ClearDirectory
  <2> QED
    BY <2>1, MovesQuietly DEF Early, Late, Ends, Places
<1>2. CASE Extract(u)
  <2>1. /\ pc[u] = "extracting" /\ pc' = [pc EXCEPT ![u] = "queued"]
        /\ UNCHANGED <<pod, scoring, result>> /\ handling' \notin Uploads
    BY <1>0, <1>2, NoneAssumption DEF Extract
  <2> QED
    BY <2>1, MovesQuietly DEF Early, Late, Ends, Places
<1>3. CASE RefuseArchive(u)
  <2>1. /\ pc[u] = "extracting" /\ pc' = [pc EXCEPT ![u] = "refused"]
        /\ UNCHANGED <<pod, scoring, result>> /\ handling' \notin Uploads
    BY <1>0, <1>3, NoneAssumption DEF RefuseArchive
  <2> QED
    BY <2>1, MovesQuietly DEF Early, Late, Ends, Places
<1>4. CASE SpawnOrchestrator(u)
  <2>1. /\ pc[u] = "queued" /\ pc' = [pc EXCEPT ![u] = "connect"]
        /\ UNCHANGED <<pod, scoring, result>> /\ handling' \notin Uploads
    BY <1>4, NoneAssumption DEF SpawnOrchestrator
  <2> QED
    BY <2>1, MovesQuietly DEF Early, Late, Ends, Places
<1> QED
  BY <1>1, <1>2, <1>3, <1>4 DEF Serve

(* The scoring process joins the topic, or ends by itself.                 *)
LEMMA ScoringMoves ==
    ASSUME ReapInv, NEW u \in Uploads, ScoringJoins(u) \/ ScoringEnds(u)
    PROVE  ReapInv'
<1>1. PICK t \in {"joined", "dead"} : scoring' = [scoring EXCEPT ![u] = t]
  BY DEF ScoringJoins, ScoringEnds
<1>2. /\ UNCHANGED <<handling, pod, pc, result>>
      /\ scoring[u] # "none" /\ (t = "dead" \/ scoring[u] = "starting")
  <2>1. CASE ScoringJoins(u)
    BY <2>1 DEF ScoringJoins
  <2>2. CASE ScoringEnds(u)
    <3>1. t = "dead"
      BY <1>1, <2>2 DEF ScoringEnds, ReapInv, ShapeInv
    <3> QED
      BY <2>2, <3>1 DEF ScoringEnds
  <2> QED
    BY <2>1, <2>2
<1>3. ShapeInv'
  BY <1>1, <1>2 DEF ReapInv, ShapeInv, Lives
<1>4. ScoringInv'
  BY <1>1, <1>2 DEF ReapInv, ShapeInv, ScoringInv
<1>5. PodInv' /\ HandlingInv'
  BY <1>2 DEF ReapInv, PodInv, HandlingInv, Kept, Shaped
<1> QED
  BY <1>3, <1>4, <1>5 DEF ReapInv

(* What the cluster does with the pod.                                     *)
LEMMA PodMoves ==
    ASSUME ReapInv, PodStarts \/ PodEnds \/ PodRemoved
    PROVE  ReapInv'
<1>1. UNCHANGED <<handling, pc, scoring, result>>
  BY DEF PodStarts, PodEnds, PodRemoved
<1>2. ShapeInv' /\ ScoringInv' /\ HandlingInv'
  BY <1>1 DEF ReapInv, ShapeInv, ScoringInv, HandlingInv
<1>3. pod' # None =>
        /\ pod # None /\ Shaped(pod') /\ pod'.by = pod.by /\ pod'.deleting = pod.deleting
  <2>1. CASE PodStarts
    BY <2>1 DEF PodStarts, ReapInv, PodInv, Shaped
  <2>2. CASE PodEnds
    BY <2>2 DEF PodEnds, ReapInv, PodInv, Shaped
  <2>3. CASE PodRemoved
    BY <2>3 DEF PodRemoved
  <2> QED
    BY <2>1, <2>2, <2>3
<1>4. PodInv'
  BY <1>1, <1>3 DEF ReapInv, PodInv, Kept
<1> QED
  BY <1>2, <1>4 DEF ReapInv

(* The invariant holds after every step, ...                               *)
LEMMA ReapInvStep == ReapInv /\ [Next]_vars => ReapInv'
<1> SUFFICES ASSUME ReapInv, [Next]_vars PROVE ReapInv'
  OBVIOUS
<1>1. CASE Next
  BY <1>1, Serves, Orchestrates, ScoringMoves, PodMoves DEF Next
<1>2. CASE UNCHANGED vars
  BY <1>2 DEF vars, ReapInv, ShapeInv, ScoringInv, PodInv, HandlingInv, Kept, Shaped
<1> QED
  BY <1>1, <1>2

(* ... at the start, ...                                                   *)
LEMMA ReapInvInit == Init => ReapInv
<1> SUFFICES ASSUME Init PROVE ReapInv
  OBVIOUS
<1>1. ShapeInv
  BY DEF Init, ShapeInv, Places, Early, Lives, Results
<1>2. ScoringInv
  BY DEF Init, ScoringInv, Ends
<1>3. PodInv /\ HandlingInv
  BY NoneAssumption DEF Init, PodInv, HandlingInv
<1> QED
  BY <1>1, <1>2, <1>3 DEF ReapInv

(* ... and says that nothing outlives its evaluation.                      *)
LEMMA ReapInvIsEnough == ReapInv => NothingOutlives
<1> SUFFICES ASSUME ReapInv PROVE NothingOutlives
  OBVIOUS
<1>1. \A u \in Uploads : pc[u] = "exited" => scoring[u] \in {"none", "dead"}
  BY DEF ReapInv, ScoringInv, Ends
<1>2. pod # None => \/ pod.deleting \/ pc[pod.by] \notin Over \/ result[pod.by] = "leaked"
  BY DEF ReapInv, PodInv, Kept, Late, Over
<1> QED
  BY <1>1, <1>2 DEF NothingOutlives

(* When an orchestrator has ended, by whatever exception and with whatever *)
(* others doing at the same time, its scoring engine is dead and the pod   *)
(* is on its way out or somebody else's: the finally block of run, with    *)
(* terminate, the limited wait, kill, and cleanup's deletion by name.      *)
THEOREM EvaluationsCleanUp == Spec => []NothingOutlives
<1>1. Spec => []ReapInv
  BY ReapInvInit, ReapInvStep, PTL DEF Spec
<1> QED
  BY <1>1, ReapInvIsEnough, PTL

-----------------------------------------------------------------------------
(* Whose code a pod runs, and whose end a finished evaluation reports.     *)

Done == Late \cup {"exited"}
Located == {"cluster", "scan", "write", "build"}
Unbuilt == {"queued", "connect", "locate", "cluster", "scan", "write"}
Built == {"score", "delete", "gone", "create", "wait"}
Bare(u) == [files |-> u, recipe |-> None]
Own(u) == [files |-> u, recipe |-> Lang[u]]

WorkInv ==
    /\ DOMAIN dir = Contestants /\ DOMAIN image = Contestants /\ DOMAIN local = Uploads
    /\ \A u \in Uploads : pc[u] \in Located =>
          /\ local[u] = [workspace |-> local[u].workspace, lang |-> local[u].lang,
                         context |-> local[u].context]
          /\ local[u].workspace \in {Repo, Owner[u]}

(* Who is under way together has met; a pod's creator is past its creation. *)
MetInv == \A u, v \in Uploads : u \in Active /\ v \in Active /\ u # v => Met(u, v)
CreatorInv == pod # None => pc[pod.by] \in Done

BaseInv == ReapInv /\ WorkInv /\ MetInv /\ CreatorInv

(* An ended pod is on record; an evaluation that met no other waits for    *)
(* its own pod or for none.                                                *)
SoundInv ==
    /\ pod # None /\ pod.phase = "Ended" => pod.by \in ran
    /\ \A u \in Uploads : Alone(u) =>
          /\ pc[u] = "wait" => pod = None \/ pod.by = u
          /\ result[u] = "done" => u \in ran

(* The directory holds the upload as far as it has come, nobody else's     *)
(* files, and the recipe for their language; after the build so does what  *)
(* the tag names, and what the pod runs.                                   *)
DirInv(u) ==
    /\ pc[u] = "extracting" => dir[Owner[u]] = [files |-> Nothing, recipe |-> None]
    /\ pc[u] \in Unbuilt => dir[Owner[u]] = Bare(u)
    /\ pc[u] \in Located => local[u].workspace = Owner[u]
    /\ pc[u] = "write" => local[u].lang = Lang[u]
    /\ pc[u] = "build" => dir[Owner[u]] = Own(u)
    /\ pc[u] = "tag" => local[u].context = Own(u)
ImageInv(u) ==
    /\ pc[u] \in Built => image[Owner[u]] = Own(u)
    /\ pod # None /\ pod.by = u =>
          /\ u \in Active => image[Owner[u]] = Own(u)
          /\ pod.runs # None /\ result[u] # "leaked" => pod.runs = Own(u)

OwnInv == \A u \in Uploads : OwnerAlone(u) => DirInv(u) /\ ImageInv(u)

CodeInv == BaseInv /\ SoundInv /\ OwnInv

(* A step of u touches the directory and the tag of its contestant only,   *)
(* replaces no pod, and whoever starts meets all that are under way.       *)
Acts(u) ==
    /\ DOMAIN pc = Uploads /\ DOMAIN pc' = Uploads
    /\ \A v \in Uploads \ {u} : pc'[v] = pc[v] /\ local'[v] = local[v] /\ result'[v] = result[v]
    /\ \A c \in Contestants \ {Owner[u]} : dir'[c] = dir[c] /\ image'[c] = image[c]
    /\ \/ u \in Active /\ met' = met
       \/ pc[u] = "new" /\ met' = met \cup {{u, v} : v \in Active}
    /\ \/ pod' = pod
       \/ pod' = Deleted(pod)
       \/ /\ pod = None /\ pc[u] = "create" /\ pc'[u] = "wait"
          /\ pod' = [by |-> u, phase |-> "Pending", runs |-> None, deleting |-> FALSE]
    /\ pc'[u] = "wait" => pod' = None \/ pod'.by = u
    /\ result'[u] = "done" =>
          result[u] = "done" \/ (pc[u] = "wait" /\ pod # None /\ pod.phase = "Ended")
    /\ pc[u] \in Done => pc'[u] \in Done
    /\ ran' = ran

LEMMA OthersAreLeftAlone ==
    ASSUME BaseInv, NEW u \in Uploads, Serve(u) \/ Orchestrate(u)
    PROVE  Acts(u) /\ WorkInv'
<1> USE DEF BaseInv
<1>0. /\ Owner[u] \in Contestants /\ u \notin {None}
      /\ DOMAIN pc = Uploads /\ DOMAIN dir = Contestants /\ DOMAIN image = Contestants
      /\ DOMAIN local = Uploads /\ DOMAIN result = Uploads
  BY NoneAssumption DEF Contestants, ReapInv, ShapeInv, WorkInv
<1>1. CASE Serve(u)
  <2>1. /\ UNCHANGED <<image, pod, local, scoring, result, faults, ran>>
        /\ \A c \in Contestants \ {Owner[u]} : dir'[c] = dir[c]
        /\ DOMAIN dir' = Contestants
    BY <1>0, <1>1 DEF Serve, ClearDirectory, Extract, RefuseArchive, SpawnOrchestrator
  <2>2. \E to \in {"extracting", "queued", "refused", "connect"} : pc' = [pc EXCEPT ![u] = to]
    BY <1>1 DEF Serve, ClearDirectory, Extract, RefuseArchive, SpawnOrchestrator
  <2>3. pc[u] \in {"new", "extracting", "queued"}
    BY <1>1 DEF Serve, ClearDirectory, Extract, RefuseArchive, SpawnOrchestrator, ReapInv, HandlingInv
  <2>4. \/ u \in Active /\ met' = met
        \/ pc[u] = "new" /\ met' = met \cup {{u, v} : v \in Active}
    BY <1>1 DEF Serve, ClearDirectory, Extract, RefuseArchive, SpawnOrchestrator, ReapInv,
                HandlingInv, Active, Over
  <2>5. Acts(u)
    BY <1>0, <2>1, <2>2, <2>3, <2>4 DEF Acts, Done, Late
  <2>6. WorkInv'
    BY <1>0, <2>1, <2>2 DEF WorkInv, Located
  <2> QED
    BY <2>5, <2>6
<1>2. CASE Orchestrate(u)
  <2>1. CASE \/ Connect(u) \/ LocateWorkspace(u) \/ EnsureCluster(u)
             \/ DetectLanguage(u) \/ WriteRecipe(u) \/ SendContext(u) \/ TagImage(u) \/ BuildFails(u)
    <3> USE DEF Connect, LocateWorkspace, EnsureCluster, DetectLanguage, WriteRecipe, SendContext,
                TagImage, BuildFails, Step, Raise
    <3>1. UNCHANGED <<pod, met, ran>>
      BY <2>1
    <3>2. /\ u \in Active /\ pc[u] \in {"connect", "locate", "cluster", "scan", "write", "build", "tag"}
          /\ \E to \in {"locate", "cluster", "scan", "write", "build", "tag", "score", "terminate", "exited"} : pc' = [pc EXCEPT ![u] = to]
      BY <2>1 DEF Active, Over
    <3>3. /\ \A v \in Uploads \ {u} : local'[v] = local[v] /\ result'[v] = result[v]
          /\ \A c \in Contestants \ {Owner[u]} : image'[c] = image[c]
          /\ DOMAIN local' = Uploads /\ DOMAIN image' = Contestants
      BY <1>0, <2>1
    <3>4. /\ \A c \in Contestants \ {Owner[u]} : dir'[c] = dir[c]
          /\ DOMAIN dir' = Contestants
      <4>1. CASE WriteRecipe(u)
        <5>1. pc[u] \in Located
          BY <4>1 DEF Located
        <5> QED
          BY <1>0, <4>1, <5>1 DEF WorkInv
      <4>2. CASE UNCHANGED dir
        BY <1>0, <4>2
      <4> QED
        BY <2>1, <4>1, <4>2
    <3>5. Acts(u)
      <4>1. result'[u] = "done" => result[u] = "done"
        BY <1>0, <2>1
      <4> QED
        BY <1>0, <3>1, <3>2, <3>3, <3>4, <4>1 DEF Acts, Done, Late
    <3>6. /\ pc'[u] \in Located => local'[u] =
               [workspace |-> local'[u].workspace, lang |-> local'[u].lang, context |-> local'[u].context]
          /\ pc'[u] \in Located => local'[u].workspace \in {Repo, Owner[u]}
      <4>1. CASE LocateWorkspace(u)
        BY <1>0, <4>1
      <4>2. CASE DetectLanguage(u)
        BY <1>0, <4>2 DEF WorkInv, Located
      <4>3. CASE pc'[u] \notin Located
        BY <4>3
      <4>4. CASE UNCHANGED local /\ pc[u] \in Located
        BY <4>4 DEF WorkInv
      <4>5. pc'[u] \notin Located \/ LocateWorkspace(u) \/ DetectLanguage(u) \/ (UNCHANGED local /\ pc[u] \in Located)
        BY <1>0, <2>1 DEF Located
      <4> QED
        BY <4>1, <4>2, <4>3, <4>4, <4>5
    <3>7. WorkInv'
      <4>1. \A v \in Uploads \ {u} : pc'[v] = pc[v]
        BY <3>2
      <4> QED
        BY <3>3, <3>4, <3>6, <4>1 DEF WorkInv
    <3> QED
      BY <3>5, <3>7
  <2>2. CASE \/ StartScoring(u) \/ DeleteOldPod(u) \/ AwaitGone(u) \/ CreatePod(u)
             \/ PodEnded(u) \/ PodLost(u) \/ StatusFails(u) \/ Timeout(u)
             \/ TerminateScoring(u) \/ ReapScoring(u) \/ KillScoring(u) \/ Cleanup(u)
    <3> USE DEF StartScoring, DeleteOldPod, AwaitGone, CreatePod, PodEnded, PodLost, StatusFails,
                Timeout, TerminateScoring, ReapScoring, KillScoring, Cleanup, Step, Raise
    <3>1. UNCHANGED <<dir, image, met, ran>>
      BY <2>2
    <3>2. /\ u \in Active
          /\ \E to \in Places : pc' = [pc EXCEPT ![u] = to] /\ to \notin Located
                                /\ (pc[u] \in Done => to \in Done)
      BY <2>2 DEF Active, Over, Located, Done, Late, Places, Early, Ends
    <3>3. \A v \in Uploads \ {u} : local'[v] = local[v] /\ result'[v] = result[v]
      BY <1>0, <2>2
    <3>4. DOMAIN local' = Uploads
      BY <1>0, <2>2
    <3>5. \/ pod' = pod
          \/ pod' = Deleted(pod)
          \/ /\ pod = None /\ pc[u] = "create" /\ pc'[u] = "wait"
             /\ pod' = [by |-> u, phase |-> "Pending", runs |-> None, deleting |-> FALSE]
      BY <1>0, <2>2
    <3>6. Acts(u)
      <4>1. pc'[u] = "wait" => pod' = None \/ pod'.by = u
        BY <1>0, <2>2
      <4>2. result'[u] = "done" =>
               result[u] = "done" \/ (pc[u] = "wait" /\ pod # None /\ pod.phase = "Ended")
        BY <1>0, <2>2
      <4> QED
        BY <1>0, <3>1, <3>2, <3>3, <3>5, <4>1, <4>2 DEF Acts
    <3>7. WorkInv'
      BY <1>0, <3>1, <3>2, <3>3, <3>4 DEF WorkInv
    <3> QED
      BY <3>6, <3>7
  <2> QED
    BY <1>2, <2>1, <2>2 DEF Orchestrate
<1> QED
  BY <1>1, <1>2

(* The history only grows: whoever is alone now has always been.           *)
LEMMA LonelyBefore ==
    ASSUME met \subseteq met', NEW u \in Uploads
    PROVE  (Alone(u)' => Alone(u)) /\ (OwnerAlone(u)' => OwnerAlone(u))
BY DEF Alone, OwnerAlone, Met

(* Whoever is under way still has met all others that are.                 *)
LEMMA ActsKeepBase ==
    ASSUME BaseInv, NEW u \in Uploads, Acts(u)
    PROVE  MetInv' /\ CreatorInv'
<1>1. MetInv'
  <2> SUFFICES ASSUME NEW v \in Uploads, NEW w \in Uploads, pc'[v] \notin Over, pc'[w] \notin Over,
                      v # w
               PROVE  {v, w} \in met'
    BY DEF MetInv, Active, Met
  <2>1. /\ v = u \/ v \in Active
        /\ w = u \/ w \in Active
    BY DEF Acts, Active
  <2>2. CASE u \in Active /\ met' = met
    BY <2>1, <2>2 DEF BaseInv, MetInv, Met
  <2>3. CASE met' = met \cup {{u, x} : x \in Active}
    <3>1. {v, w} = {w, v}
      OBVIOUS
    <3>2. CASE v \in Active /\ w \in Active
      BY <2>3, <3>2 DEF BaseInv, MetInv, Met
    <3> QED
      BY <2>1, <2>3, <3>1, <3>2
  <2> QED
    BY <2>2, <2>3 DEF Acts
<1>2. CreatorInv'
  <2> SUFFICES ASSUME pod' # None PROVE pc'[pod'.by] \in Done
    BY DEF CreatorInv
  <2>1. CASE pod # None /\ pod'.by = pod.by
    BY <2>1 DEF BaseInv, CreatorInv, ReapInv, PodInv, Shaped, Acts
  <2>2. CASE pc'[u] = "wait" /\ pod'.by = u
    BY <2>2 DEF Done, Late
  <2>3. pod' = Deleted(pod) => pod # None /\ pod'.by = pod.by
    BY DEF Deleted, BaseInv, ReapInv, PodInv, Shaped
  <2> QED
    BY <2>1, <2>2, <2>3 DEF Acts
<1> QED
  BY <1>1, <1>2

(* What a finished evaluation says of its own pod, after a step of u.      *)
LEMMA ActsKeepSound ==
    ASSUME BaseInv, SoundInv, NEW u \in Uploads, Acts(u)
    PROVE  SoundInv'
<1>1. met \subseteq met' /\ ran' = ran
  BY DEF Acts
<1>2. pod' # None /\ pod'.phase = "Ended" => pod'.by \in ran
  <2>1. pod' = Deleted(pod) /\ pod' # None => pod # None /\ pod'.by = pod.by /\ pod'.phase = pod.phase
    BY DEF Deleted, BaseInv, ReapInv, PodInv, Shaped
  <2> QED
    BY <2>1 DEF Acts, SoundInv
<1>3. ASSUME NEW v \in Uploads, Alone(v)', pc'[v] = "wait"
      PROVE  pod' = None \/ pod'.by = v
  <2>1. CASE v = u
    BY <1>3, <2>1 DEF Acts
  <2>2. CASE v # u
    <3>1. Alone(v) /\ pc[v] = "wait" /\ v \in Active
      BY <1>1, <1>3, <2>2, LonelyBefore DEF Acts, Active, Over
    <3>2. pod = None \/ pod.by = v
      BY <3>1 DEF SoundInv
    <3>3. pod' = Deleted(pod) /\ pod' # None => pod # None /\ pod'.by = pod.by
      BY DEF Deleted, BaseInv, ReapInv, PodInv, Shaped
    <3>4. pc[u] # "create"
      BY <2>2, <3>1 DEF BaseInv, MetInv, Active, Over, Alone
    <3> QED
      BY <3>2, <3>3, <3>4 DEF Acts
  <2> QED
    BY <2>1, <2>2
<1>4. ASSUME NEW v \in Uploads, Alone(v)', result'[v] = "done"
      PROVE  v \in ran
  <2>1. Alone(v)
    BY <1>1, <1>4, LonelyBefore
  <2>2. result[v] = "done" \/ (v = u /\ pc[v] = "wait" /\ pod # None /\ pod.phase = "Ended")
    BY <1>4 DEF Acts
  <2> QED
    BY <2>1, <2>2 DEF SoundInv
<1> QED
  BY <1>1, <1>2, <1>3, <1>4 DEF SoundInv

(* Another contestant's files, recipe and tag stay as they are.            *)
LEMMA OthersKeep ==
    ASSUME BaseInv, NEW u \in Uploads, Acts(u), NEW v \in Uploads \ {u}, OwnerAlone(v)',
           OwnerAlone(v) => DirInv(v) /\ ImageInv(v)
    PROVE  DirInv(v)' /\ ImageInv(v)'
<1>1. /\ DirInv(v) /\ ImageInv(v)
      /\ pc'[v] = pc[v] /\ local'[v] = local[v] /\ result'[v] = result[v]
      /\ Owner[v] \in Contestants
  BY LonelyBefore DEF Acts, Contestants
<1>2. v \in Active => dir'[Owner[v]] = dir[Owner[v]] /\ image'[Owner[v]] = image[Owner[v]]
  <2> SUFFICES ASSUME v \in Active PROVE {v, u} \in met'
    BY <1>1 DEF Acts, OwnerAlone, Met
  <2>1. {v, u} = {u, v}
    OBVIOUS
  <2> QED
    BY <2>1 DEF Acts, BaseInv, MetInv, Met
<1>3. pc[v] \in Unbuilt \cup Located \cup Built \cup {"extracting", "tag"} => v \in Active
  BY DEF Unbuilt, Located, Built, Active, Over
<1>4. DirInv(v)'
  BY <1>1, <1>2, <1>3 DEF DirInv, Unbuilt, Located
<1>5. pod' # None /\ pod'.by = v => /\ pod # None /\ pod.by = v
                                    /\ pod'.runs = pod.runs
  BY DEF Acts, Deleted, BaseInv, ReapInv, PodInv, Shaped
<1>6. v \in Active' => v \in Active
  BY <1>1 DEF Active
<1>7. ImageInv(v)'
  BY <1>1, <1>2, <1>3, <1>5, <1>6 DEF ImageInv
<1> QED
  BY <1>4, <1>7

-----------------------------------------------------------------------------
(* The steps of u itself.                                                  *)
(* The handler and the build: from an empty directory to the own image.    *)
LEMMA OwnPrepares ==
    ASSUME BaseInv, NEW u \in Uploads, DirInv(u), pod # None => pod.by # u,
           \/ Serve(u) \/ Connect(u) \/ LocateWorkspace(u) \/ EnsureCluster(u)
           \/ DetectLanguage(u) \/ WriteRecipe(u) \/ SendContext(u) \/ TagImage(u) \/ BuildFails(u)
    PROVE  DirInv(u)' /\ ImageInv(u)'
<1> USE DEF BaseInv
<1>0. /\ Owner[u] \in Contestants /\ Owner[u] # Repo /\ u # Repo /\ u # Nothing
      /\ Bare(u) # None /\ Own(u) # None
      /\ DOMAIN pc = Uploads /\ DOMAIN dir = Contestants /\ DOMAIN image = Contestants
      /\ DOMAIN local = Uploads
      /\ Lang[u] # None /\ Lang[u] \in Languages
  BY NoneAssumption, FilesAssumption, WorkspaceAssumption, LangAssumption
     DEF Contestants, ReapInv, ShapeInv, WorkInv, Bare, Own
<1>1. pod' = pod
  BY DEF Serve, ClearDirectory, Extract, RefuseArchive, SpawnOrchestrator, Connect,
         LocateWorkspace, EnsureCluster, DetectLanguage, WriteRecipe, SendContext, TagImage,
         BuildFails, Raise
<1>2. ASSUME NEW to, pc' = [pc EXCEPT ![u] = to],
             to \notin {"extracting", "build", "tag"} \cup Unbuilt \cup Built
      PROVE  DirInv(u)' /\ ImageInv(u)'
  BY <1>0, <1>1, <1>2 DEF DirInv, ImageInv, Unbuilt, Located
<1>3. ASSUME NEW to, pc' = [pc EXCEPT ![u] = to], to \notin Built, DirInv(u)'
      PROVE  DirInv(u)' /\ ImageInv(u)'
  BY <1>0, <1>1, <1>3 DEF ImageInv
<1>4. ASSUME NEW from, Raise(u, from) PROVE DirInv(u)' /\ ImageInv(u)'
  BY <1>2, <1>4 DEF Raise, Step, Unbuilt, Built
<1>5. CASE Serve(u)
  <2>1. CASE ClearDirectory(u)
    BY <1>0, <1>3, <2>1 DEF ClearDirectory, DirInv, Unbuilt, Located, Built
  <2>2. CASE Extract(u)
    <3>1. pc[u] = "extracting"
      BY <2>2 DEF Extract, ReapInv, HandlingInv
    <3>2. dir'[Owner[u]] = Bare(u)
      BY <1>0, <2>2, <3>1 DEF Extract, DirInv, Bare
    <3> QED
      BY <1>0, <1>3, <2>2, <3>2 DEF Extract, DirInv, Unbuilt, Located, Built
  <2>3. CASE RefuseArchive(u)
    BY <1>2, <2>3 DEF RefuseArchive, Unbuilt, Built
  <2>4. CASE SpawnOrchestrator(u)
    BY <1>0, <1>3, <2>4 DEF SpawnOrchestrator, DirInv, Unbuilt, Located, Built
  <2> QED
    BY <1>5, <2>1, <2>2, <2>3, <2>4 DEF Serve
<1>6. CASE Connect(u)
  <2>1. CASE Step(u, "connect", "locate") /\ UNCHANGED <<dir, local>>
    BY <1>0, <1>3, <2>1 DEF Step, DirInv, Unbuilt, Located, Built
  <2>2. CASE Step(u, "connect", "exited")
    BY <1>2, <2>2 DEF Step, Unbuilt, Built
  <2> QED
    BY <1>6, <2>1, <2>2 DEF Connect
<1>7. CASE LocateWorkspace(u)
  <2>1. dir[Owner[u]] = Bare(u) /\ dir' = dir
    BY <1>7 DEF LocateWorkspace, Step, DirInv, Unbuilt
  <2>2. local'[u].workspace = Owner[u]
    BY <1>0, <1>7, <2>1 DEF LocateWorkspace
  <2> QED
    BY <1>0, <1>3, <1>7, <2>1, <2>2 DEF LocateWorkspace, Step, DirInv, Unbuilt, Located, Built
<1>8. CASE EnsureCluster(u)
  <2>1. CASE Step(u, "cluster", "scan") /\ UNCHANGED <<dir, local>>
    BY <1>0, <1>3, <2>1 DEF Step, DirInv, Unbuilt, Located, Built
  <2> QED
    BY <1>4, <1>8, <2>1 DEF EnsureCluster
<1>9. CASE DetectLanguage(u)
  <2>1. /\ dir[Owner[u]] = Bare(u) /\ dir' = dir /\ local[u].workspace = Owner[u]
        /\ pc[u] \in Located
    BY <1>9 DEF DetectLanguage, Step, DirInv, Unbuilt, Located
  <2>2. Detected(Contents(local[u].workspace)) = Lang[u]
    <3>1. Contents(local[u].workspace) = Bare(u)
      BY <1>0, <2>1 DEF Contents
    <3>2. Bare(u).files = u
      BY DEF Bare
    <3> QED
      BY <1>0, <3>1, <3>2 DEF Detected
  <2>3. local'[u].lang = Lang[u] /\ local'[u].workspace = Owner[u]
    BY <1>0, <1>9, <2>1, <2>2 DEF DetectLanguage, ReapInv, WorkInv
  <2> QED
    BY <1>0, <1>3, <1>9, <2>1, <2>3 DEF DetectLanguage, Step, DirInv, Unbuilt, Located, Built
<1>10. CASE WriteRecipe(u)
  <2>1. CASE Step(u, "write", "build") /\ local' = local /\ ~Raise(u, "write")
    <3>1. /\ dir[Owner[u]] = Bare(u) /\ local[u].workspace = Owner[u] /\ local[u].lang = Lang[u]
      BY <2>1 DEF Step, DirInv, Unbuilt, Located
    <3>2. dir' = [dir EXCEPT ![Owner[u]].recipe = Lang[u]]
      BY <1>0, <1>10, <2>1, <3>1 DEF WriteRecipe
    <3>3. dir'[Owner[u]] = Own(u)
      BY <1>0, <3>1, <3>2 DEF Bare, Own
    <3> QED
      BY <1>0, <1>3, <2>1, <3>1, <3>3 DEF Step, DirInv, Unbuilt, Located, Built
  <2> QED
    BY <1>4, <1>10, <2>1 DEF WriteRecipe
<1>11. CASE SendContext(u)
  <2>1. CASE Step(u, "build", "tag") /\ local' = [local EXCEPT ![u].context = Contents(local[u].workspace)]
    <3>1. /\ dir[Owner[u]] = Own(u) /\ local[u].workspace = Owner[u] /\ pc[u] \in Located
      BY <2>1 DEF Step, DirInv, Located
    <3>2. local'[u].context = Own(u)
      BY <1>0, <2>1, <3>1 DEF Contents, WorkInv
    <3> QED
      BY <1>0, <1>3, <2>1, <3>2 DEF Step, DirInv, Unbuilt, Located, Built
  <2> QED
    BY <1>4, <1>11, <2>1 DEF SendContext
<1>12. CASE TagImage(u)
  <2>1. image'[Owner[u]] = Own(u)
    BY <1>0, <1>12 DEF TagImage, Step, DirInv
  <2>2. pc' = [pc EXCEPT ![u] = "score"]
    BY <1>12 DEF TagImage, Step
  <2> QED
    BY <1>0, <1>1, <2>1, <2>2 DEF DirInv, ImageInv, Unbuilt, Located
<1>13. CASE BuildFails(u)
  BY <1>4, <1>13 DEF BuildFails
<1> QED
  BY <1>5, <1>6, <1>7, <1>8, <1>9, <1>10, <1>11, <1>12, <1>13

(* From there on the tag stays the own one.                                *)
LEMMA OwnRuns ==
    ASSUME BaseInv, NEW u \in Uploads, DirInv(u), ImageInv(u),
           \/ StartScoring(u) \/ DeleteOldPod(u) \/ AwaitGone(u) \/ CreatePod(u)
           \/ PodEnded(u) \/ PodLost(u) \/ StatusFails(u) \/ Timeout(u)
           \/ TerminateScoring(u) \/ ReapScoring(u) \/ KillScoring(u) \/ Cleanup(u)
    PROVE  DirInv(u)' /\ ImageInv(u)'
<1> USE DEF BaseInv, StartScoring, DeleteOldPod, AwaitGone, CreatePod, PodEnded, PodLost,
            StatusFails, Timeout, TerminateScoring, ReapScoring, KillScoring, Cleanup, Step, Raise
<1>1. /\ image' = image /\ u \in Active
      /\ result[u] = "leaked" => FALSE
  BY DEF Active, Over, ReapInv, PodInv
<1>2. \E to \in Places :
         /\ pc' = [pc EXCEPT ![u] = to]
         /\ to \notin {"extracting", "build", "tag"} \cup Unbuilt \cup Located
         /\ to \in Built => pc[u] \in Built
  BY DEF Unbuilt, Located, Built, Places, Early, Late, Ends
<1>3. DOMAIN pc = Uploads
  BY DEF ReapInv, ShapeInv
<1>4. DirInv(u)'
  BY <1>2, <1>3 DEF DirInv, Located
<1>5. \/ pod' = pod
      \/ pod' = Deleted(pod)
      \/ /\ pc[u] = "create"
         /\ pod' = [by |-> u, phase |-> "Pending", runs |-> None, deleting |-> FALSE]
  OBVIOUS
<1>6. pod' # None /\ pod'.by = u =>
         \/ pod # None /\ pod.by = u /\ pod'.runs = pod.runs
         \/ pc[u] = "create" /\ pod'.runs = None
  BY <1>5 DEF Deleted, ReapInv, PodInv, Shaped
<1>7. pc[u] = "create" => pc[u] \in Built
  BY DEF Built
<1>8. ImageInv(u)'
  BY <1>1, <1>2, <1>3, <1>6, <1>7 DEF ImageInv
<1> QED
  BY <1>4, <1>8

-----------------------------------------------------------------------------
(* The steps of an upload, for itself and for the others.                  *)
LEMMA UploadsKeepCode ==
    ASSUME CodeInv, NEW u \in Uploads, Serve(u) \/ Orchestrate(u)
    PROVE  CodeInv'
<1> USE DEF CodeInv
<1>1. Acts(u) /\ WorkInv'
  BY OthersAreLeftAlone
<1>2. BaseInv'
  <2>1. ReapInv'
    BY Serves, Orchestrates DEF BaseInv
  <2> QED
    BY <1>1, <2>1, ActsKeepBase DEF BaseInv
<1>3. SoundInv'
  BY <1>1, ActsKeepSound
<1>4. ASSUME NEW v \in Uploads, OwnerAlone(v)' PROVE DirInv(v)' /\ ImageInv(v)'
  <2>1. OwnerAlone(v)
    BY <1>1, <1>4, LonelyBefore DEF Acts
  <2>2. DirInv(v) /\ ImageInv(v)
    BY <2>1 DEF OwnInv
  <2>3. CASE v # u
    BY <1>1, <1>4, <2>2, <2>3, OthersKeep
  <2>4. CASE v = u
    <3>1. CASE \/ Serve(u) \/ Connect(u) \/ LocateWorkspace(u) \/ EnsureCluster(u) \/ DetectLanguage(u)
               \/ WriteRecipe(u) \/ SendContext(u) \/ TagImage(u) \/ BuildFails(u)
      <4>1. pc[u] \notin Done
        BY <3>1 DEF Serve, ClearDirectory, Extract, RefuseArchive, SpawnOrchestrator, Connect,
             LocateWorkspace, EnsureCluster, DetectLanguage, WriteRecipe, SendContext, TagImage,
             BuildFails, Raise, Step, Done, Late, BaseInv, ReapInv, HandlingInv
      <4>2. pod # None => pod.by # u
        BY <4>1 DEF BaseInv, CreatorInv
      <4> QED
        BY <2>2, <2>4, <3>1, <4>2, OwnPrepares
    <3>2. CASE \/ StartScoring(u) \/ DeleteOldPod(u) \/ AwaitGone(u) \/ CreatePod(u)
               \/ PodEnded(u) \/ PodLost(u) \/ StatusFails(u) \/ Timeout(u)
               \/ TerminateScoring(u) \/ ReapScoring(u) \/ KillScoring(u) \/ Cleanup(u)
      BY <2>2, <2>4, <3>2, OwnRuns
    <3> QED
      BY <3>1, <3>2 DEF Orchestrate
  <2> QED
    BY <2>3, <2>4
<1> QED
  BY <1>2, <1>3, <1>4 DEF OwnInv

(* Scoring processes touch none of this.                                   *)
LEMMA ScoringKeepsCode ==
    ASSUME CodeInv, ReapInv', UNCHANGED <<dir, image, pod, pc, local, result, met, ran>>
    PROVE  CodeInv'
<1>1. BaseInv'
  BY DEF CodeInv, BaseInv, WorkInv, MetInv, CreatorInv, Active, Met
<1>2. SoundInv'
  BY DEF CodeInv, SoundInv, Alone, Met
<1>3. OwnInv'
  BY DEF CodeInv, OwnInv, OwnerAlone, Met, DirInv, ImageInv, Active
<1> QED
  BY <1>1, <1>2, <1>3 DEF CodeInv

(* A starting container takes what the tag names then, an ending one goes  *)
(* on record.                                                              *)
LEMMA PodKeepsCode ==
    ASSUME CodeInv, PodStarts \/ PodEnds \/ PodRemoved
    PROVE  CodeInv'
<1> USE DEF CodeInv, BaseInv
<1>1. ReapInv'
  BY PodMoves
<1>2. UNCHANGED <<dir, image, pc, local, result, met>>
  BY DEF PodStarts, PodEnds, PodRemoved
<1>3. ran \subseteq ran'
  BY DEF PodStarts, PodEnds, PodRemoved
<1>4. pod' # None =>
        /\ pod # None /\ pod'.by = pod.by
        /\ \/ pod'.runs = pod.runs
           \/ ~pod.deleting /\ pod'.runs = image[Owner[pod.by]]
        /\ pod'.phase = "Ended" => pod.by \in ran'
  BY DEF PodStarts, PodEnds, PodRemoved, ReapInv, PodInv, Shaped
<1>5. BaseInv'
  BY <1>1, <1>2, <1>4 DEF WorkInv, MetInv, CreatorInv, Active, Met
<1>6. SoundInv'
  <2>1. \A u \in Uploads : Alone(u)' => Alone(u)
    BY <1>2 DEF Alone, Met
  <2> QED
    BY <1>2, <1>3, <1>4, <2>1 DEF SoundInv
<1>7. ASSUME NEW u \in Uploads, OwnerAlone(u)' PROVE DirInv(u)' /\ ImageInv(u)'
  <2>1. DirInv(u) /\ ImageInv(u)
    BY <1>2, <1>7 DEF OwnInv, OwnerAlone, Met
  <2>2. DirInv(u)'
    BY <1>2, <2>1 DEF DirInv
  <2>3. ASSUME pod' # None, pod'.by = u, result[u] # "leaked", pod'.runs # pod.runs
        PROVE  pod'.runs = Own(u)
    <3>1. pod # None /\ pod.by = u /\ ~pod.deleting /\ pod'.runs = image[Owner[u]]
      BY <1>4, <2>3
    <3>2. pc[u] \in Late
      BY <2>3, <3>1 DEF ReapInv, PodInv, Kept
    <3>3. u \in Active
      BY <3>2 DEF Late, Active, Over
    <3> QED
      BY <2>1, <3>1, <3>3 DEF ImageInv
  <2>4. ImageInv(u)'
    BY <1>2, <1>4, <2>1, <2>3 DEF ImageInv, Active
  <2> QED
    BY <2>2, <2>4
<1> QED
  BY <1>5, <1>6, <1>7 DEF OwnInv

(* All steps.                                                              *)
LEMMA CodeInvStep == CodeInv /\ [Next]_vars => CodeInv'
<1> SUFFICES ASSUME CodeInv, [Next]_vars PROVE CodeInv'
  OBVIOUS
<1>1. ASSUME NEW u \in Uploads, Serve(u) \/ Orchestrate(u) PROVE CodeInv'
  BY <1>1, UploadsKeepCode
<1>2. ASSUME NEW u \in Uploads, ScoringJoins(u) \/ ScoringEnds(u) PROVE CodeInv'
  BY <1>2, ScoringMoves, ScoringKeepsCode DEF ScoringJoins, ScoringEnds, CodeInv, BaseInv
<1>3. CASE UNCHANGED vars
  BY <1>3, ReapInvStep, ScoringKeepsCode DEF vars, CodeInv, BaseInv
<1> QED
  BY <1>1, <1>2, <1>3, PodKeepsCode DEF Next

LEMMA CodeInvInit == Init => CodeInv
<1> SUFFICES ASSUME Init PROVE CodeInv
  OBVIOUS
<1>1. WorkInv /\ MetInv /\ CreatorInv
  BY DEF Init, WorkInv, MetInv, CreatorInv, Located, Active, Over
<1>2. SoundInv
  BY NoneAssumption DEF Init, SoundInv
<1>3. OwnInv
  BY DEF Init, OwnInv, DirInv, ImageInv, Unbuilt, Located, Built
<1> QED
  BY <1>1, <1>2, <1>3, ReapInvInit DEF CodeInv, BaseInv

LEMMA CodeInvAlways == Spec => []CodeInv
BY CodeInvInit, CodeInvStep, PTL DEF Spec

(* A pod runs the code of the upload that created it and no other, as long *)
(* as the contestant had no second upload under way: the workspace, the    *)
(* recipe and the tag are shared by name between processes that never lock *)
(* them (auto_detect_and_build, spawn_contestant_sandbox_pod).             *)
THEOREM PodsRunTheirOwnCode == Spec => []OwnCodeRuns
<1>1. CodeInv => OwnCodeRuns
  BY DEF CodeInv, OwnInv, ImageInv, OwnCodeRuns, Own
<1> QED
  BY <1>1, CodeInvAlways, PTL

(* wait_for_agent_completion asks for a pod by name only; an evaluation    *)
(* that met no other reports a finished run only of the pod it created.    *)
THEOREM FinishedMeansRan == Spec => []AloneIsSound
<1>1. CodeInv => AloneIsSound
  BY DEF CodeInv, SoundInv, AloneIsSound
<1> QED
  BY <1>1, CodeInvAlways, PTL
=============================================================================
