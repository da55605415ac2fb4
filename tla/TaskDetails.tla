------------------------------ MODULE TaskDetails ------------------------------
(***************************************************************************)
(* Jobs of the tasker and what the binding tells of a task.  The framework *)
(* runs tasks on a thread of its own and may be told to forget what it     *)
(* knows of them; a query is a sequence of calls, between which both go    *)
(* on: for the number of nodes, for their ids and the task's status, and   *)
(* then, node by node, for the node, its recognition and its action.  The  *)
(* details are documents that the binding parses.                          *)
(***************************************************************************)
EXTENDS Naturals, Sequences

CONSTANTS
  RecoDocs, ActDocs,     \* what recognitions and actions say of themselves
  Documents,             \* RecoDocs and what they consist of
  MaxTasks, MaxNodes     \* bounds of an instance

VARIABLES
  tasks,   \* the framework's tasks
  taskJob,     \* the caller's TaskJob
  query    \* the caller's query in progress

detailVars == <<tasks, taskJob, query>>

\* A document: the algorithm or type it names; its text, which is missing, malformed
\* or present; the results it lists; and the documents a combined one consists of.
Document(algorithm, text, items, parts) ==
  [algorithm |-> algorithm, text |-> text, items |-> items, parts |-> parts]
NoDoc == Document("none", "missing", <<>>, <<>>)

\* isCombinedRecognition
IsCombined(algorithm) == algorithm \in {"And", "Or"}

\* A document is a text, so it nests finitely: of some documents there is one that has
\* no other as a part.  One without a text that can be read has no parts, and a combined
\* one lists its parts and no results.
ASSUME DocumentsAssumption ==
  /\ RecoDocs \subseteq Documents /\ MaxTasks \in Nat /\ MaxNodes \in Nat \ {0}
  /\ \A d \in Documents \cup ActDocs : d.text \in {"missing", "malformed", "present"}
  /\ \A d \in Documents :
       /\ d.parts \in Seq(Documents) /\ d.items \in Seq({"good", "bad"})
       /\ d.text # "present" => d.parts = <<>>
       /\ IsCombined(d.algorithm) => d.items = <<>>
  /\ \A some \in (SUBSET Documents) \ {{}} :
       \E d \in some : \A i \in DOMAIN d.parts : d.parts[i] \notin some

Node(reco, action, complete) == [reco |-> reco, action |-> action, complete |-> complete]
Unposted == [status |-> "invalid", nodes |-> <<>>, known |-> FALSE]

\* A query: what it asks for, of which task, from which node on and how many; what the
\* job said when it began; the status and the nodes told; whether the framework forgot
\* or refused anything meanwhile; and whether it ended in an error.
Queries == {"task", "node", "recognition", "action"}
NoQuery == [pc |-> "idle", kind |-> "task", id |-> 0, from |-> 0, size |-> 0, said |-> "invalid",
            status |-> "invalid", node |-> Node(NoDoc, NoDoc, FALSE), out |-> <<>>,
            cleared |-> FALSE, refused |-> FALSE, error |-> FALSE]
NoTaskJob == [id |-> 0, final |-> "invalid", err |-> TRUE]

Ended == {"succeeded", "failed"}
Ids == 1..MaxTasks
Free == {id \in Ids : tasks[id].status = "invalid"}

DetailInit == tasks = [id \in Ids |-> Unposted] /\ taskJob = NoTaskJob /\ query = NoQuery

KnownRecognitions == {"TemplateMatch", "FeatureMatch", "ColorMatch", "OCR",
                      "NeuralNetworkClassify", "NeuralNetworkDetect", "Custom"}
KnownActions == {"Click", "LongPress", "Swipe", "MultiSwipe", "ClickKey", "KeyDown", "KeyUp",
  "LongPressKey", "InputText", "StartApp", "StopApp", "Scroll", "TouchDown", "TouchMove",
  "TouchUp", "Shell", "Screencap"}

\* Every result of all, best and filtered must be of a known type and well formed.
ParsesResult(algorithm, item) == algorithm \in KnownRecognitions /\ item = "good"

\* parseRecognitionResults
ParsesResults(d) ==
  \/ d.algorithm = "DirectHit" \/ d.text = "missing"
  \/ d.text = "present" /\ \A i \in DOMAIN d.items : ParsesResult(d.algorithm, d.items[i])

\* parseCombinedResult; a part without detail is not parsed.
ParsesCombined[d \in Documents] ==
  \/ d.text = "missing"
  \/ /\ d.text = "present"
     /\ \A i \in DOMAIN d.parts :
          LET p == d.parts[i] IN
          p.text # "missing" => IF IsCombined(p.algorithm) THEN ParsesCombined[p]
                                ELSE ParsesResults(p)

\* A bug: the parts of a combined recognition are not looked into.
BugParsesRecognition(d) == ParsesResults(d) \/ IsCombined(d.algorithm)
ParsesRecognition(d) == IF IsCombined(d.algorithm) THEN ParsesCombined[d] ELSE ParsesResults(d)

\* parseActionResult: "" and "{}" are no result; a malformed point, swipe end or
\* other field, and a type that is not known, are errors.
ParsesAction(d) == d.text = "missing" \/ (d.algorithm \in KnownActions /\ d.text = "present")
-----------------------------------------------------------------------------
(* The framework *)

\* The framework takes a task, or refuses it with the id 0.
Take(id) ==
  IF id = 0 THEN UNCHANGED tasks
  ELSE tasks' = [tasks EXCEPT ![id] = [status |-> "pending", nodes |-> <<>>, known |-> TRUE]]

TaskBegins(id) ==
  /\ tasks[id].status = "pending"
  /\ tasks' = [tasks EXCEPT ![id].status = "running"]
  /\ UNCHANGED <<taskJob, query>>

LastNode(id) == Len(tasks[id].nodes)
InNode(id) == LastNode(id) > 0 /\ ~tasks[id].nodes[LastNode(id)].complete

NodeBegins(id, reco) ==
  /\ tasks[id].status = "running" /\ ~InNode(id) /\ LastNode(id) < MaxNodes
  /\ tasks' = [tasks EXCEPT ![id].nodes = Append(@, Node(reco, NoDoc, FALSE))]
  /\ UNCHANGED <<taskJob, query>>

NodeEnds(id, action) ==
  /\ tasks[id].status = "running" /\ InNode(id)
  /\ tasks' = [tasks EXCEPT ![id].nodes[LastNode(id)].action = action,
                            ![id].nodes[LastNode(id)].complete = TRUE]
  /\ UNCHANGED <<taskJob, query>>

\* At a node's end, or by PostStop at any time
TaskEnds(id, status) ==
  /\ tasks[id].status \in {"pending", "running"}
  /\ status = "succeeded" => tasks[id].status = "running" /\ ~InNode(id)
  /\ tasks' = [tasks EXCEPT ![id].status = status]
  /\ UNCHANGED <<taskJob, query>>

\* ClearCache: what is known of tasks is forgotten, their statuses are not.
ClearCache ==
  /\ tasks' = [id \in Ids |-> [tasks[id] EXCEPT !.known = FALSE]]
  /\ query' = [query EXCEPT !.cleared = TRUE]
  /\ UNCHANGED taskJob
-----------------------------------------------------------------------------
(* Jobs; a caller may drop a job and post another. *)

NewJob(id) == [id |-> id, final |-> "invalid", err |-> FALSE]

\* PostTask; an override that cannot be marshalled counts as none.
PostTask(id) ==
  /\ id \in Free \cup {0}
  /\ Take(id)
  /\ taskJob' = NewJob(id)
  /\ UNCHANGED query

\* A parameter that cannot be marshalled gives a job with an error.
PostRecognition(id, marshals) ==
  /\ id \in Free \cup {0}
  /\ IF marshals THEN Take(id) /\ taskJob' = NewJob(id)
     ELSE taskJob' = [NewJob(0) EXCEPT !.err = TRUE] /\ UNCHANGED tasks
  /\ UNCHANGED query

\* PostAction: the parameter, then the recognition's detail
PostAction(id, marshals) == PostRecognition(id, marshals)

FrameworkStatus(id) == IF id = 0 THEN "invalid" ELSE tasks[id].status

\* TaskJob.Status: the status kept from Wait, else the framework's
JobStatus ==
  IF taskJob.err THEN "failed" ELSE IF taskJob.final = "invalid" THEN FrameworkStatus(taskJob.id) ELSE taskJob.final

\* Wait returns at once for an id the framework does not know.
JobWait ==
  /\ ~taskJob.err /\ taskJob.final = "invalid"
  /\ FrameworkStatus(taskJob.id) \notin {"pending", "running"}
  /\ taskJob' = [taskJob EXCEPT !.final = FrameworkStatus(taskJob.id)]
  /\ UNCHANGED <<tasks, query>>
-----------------------------------------------------------------------------
(* Queries *)

Query(q) == query' = q /\ UNCHANGED <<tasks, taskJob>>
Fail(q) == [q EXCEPT !.pc = "done", !.error = TRUE]
Refuse(q) == [Fail(q) EXCEPT !.refused = TRUE]

\* TaskJob.GetDetail
GetDetail ==
  /\ query.pc = "idle"
  /\ Query(IF taskJob.err THEN Refuse(NoQuery)
           ELSE [NoQuery EXCEPT !.pc = "size", !.id = taskJob.id, !.said = JobStatus])

\* Context.runTask runs a task to its end, then asks for its detail.
RunTask(id) ==
  /\ query.pc = "idle" /\ id \in Free \cup {0}
  /\ Take(id)
  /\ query' = IF id = 0 THEN Refuse(NoQuery) ELSE [NoQuery EXCEPT !.pc = "run", !.id = id]
  /\ UNCHANGED taskJob

RunTaskEnds ==
  /\ query.pc = "run" /\ FrameworkStatus(query.id) \in Ended
  /\ Query([query EXCEPT !.pc = "size", !.said = FrameworkStatus(query.id)])

\* Context.runRecognition: one recognition, done before its detail is asked for
RunRecognition(reco, runs) ==
  /\ query.pc = "idle"
  /\ Query(IF ~runs THEN Refuse(NoQuery)
           ELSE [NoQuery EXCEPT !.pc = "reco", !.kind = "recognition", !.node.reco = reco, !.size = 1])

\* Context.runAction
RunAction(action, runs) ==
  /\ query.pc = "idle"
  /\ Query(IF ~runs THEN Refuse(NoQuery)
           ELSE [NoQuery EXCEPT !.pc = "action", !.kind = "action", !.node.action = action, !.size = 1])

\* RunRecognitionDirect and RunActionDirect also fail, before they run anything, when a
\* parameter cannot be marshalled.
RunRecognitionDirect(reco, marshalsAndRuns) == RunRecognition(reco, marshalsAndRuns)
RunActionDirect(action, marshalsAndRuns) == RunAction(action, marshalsAndRuns)

\* GetLatestNode
GetLatestNode(id) ==
  /\ query.pc = "idle" /\ tasks[id].known
  /\ Query(IF LastNode(id) = 0 THEN Refuse(NoQuery)
           ELSE [NoQuery EXCEPT !.pc = "node", !.kind = "node", !.id = id,
                                !.from = LastNode(id) - 1, !.size = 1])

Known == ~query.cleared /\ (query.kind \in {"task", "node"} => query.id # 0 /\ tasks[query.id].known)

\* GetTaskDetail asks for the number of nodes; a task without nodes is told at once,
\* and without its status.
AskSize ==
  /\ query.pc = "size"
  /\ Query(IF ~Known THEN Refuse(query)
           ELSE [query EXCEPT !.size = LastNode(query.id),
                              !.pc = IF LastNode(query.id) = 0 THEN "done" ELSE "data"])

\* ... then for their ids and the status, which a task that has grown refuses.
AskData ==
  /\ query.pc = "data"
  /\ Query(IF ~Known \/ LastNode(query.id) > query.size THEN Refuse(query)
           ELSE [query EXCEPT !.pc = "node", !.status = tasks[query.id].status])

\* getNodeDetail: a node that is not known is an error.
AskNode ==
  /\ query.pc = "node"
  /\ Query(IF ~Known THEN Refuse(query)
           ELSE [query EXCEPT !.pc = "reco",
                              !.node = tasks[query.id].nodes[query.from + Len(query.out) + 1]])

\* On with the next node, if there is one
NodeDone(node) ==
  LET out == Append(query.out, node) IN
  [query EXCEPT !.out = out, !.node = NoQuery.node,
                !.pc = IF Len(out) = query.size THEN "done" ELSE "node"]

\* GetRecognitionDetail: one that is not known is none, one that does not parse an error.
AskRecognition ==
  LET node == IF Known THEN query.node ELSE [query.node EXCEPT !.reco = NoDoc] IN
  /\ query.pc = "reco"
  /\ Query(IF ~ParsesRecognition(node.reco) THEN Fail(query)
           ELSE IF query.kind = "recognition" THEN NodeDone(node)
           ELSE [query EXCEPT !.pc = "action", !.node = node])

\* GetActionDetail: likewise
AskAction ==
  LET node == IF Known THEN query.node ELSE [query.node EXCEPT !.action = NoDoc] IN
  /\ query.pc = "action"
  /\ Query(IF ~ParsesAction(node.action) THEN Fail(query) ELSE NodeDone(node))

QueryRead ==
  /\ query.pc = "done"
  /\ Query(NoQuery)

DetailNext ==
  \/ \E id \in Ids :
       \/ TaskBegins(id) \/ GetLatestNode(id)
       \/ \E reco \in RecoDocs : NodeBegins(id, reco)
       \/ \E action \in ActDocs : NodeEnds(id, action)
       \/ \E status \in Ended : TaskEnds(id, status)
  \/ ClearCache
  \/ \E id \in Ids \cup {0} :
       \/ PostTask(id) \/ RunTask(id)
       \/ \E marshals \in BOOLEAN : PostRecognition(id, marshals) \/ PostAction(id, marshals)
  \/ \E ok \in BOOLEAN :
       \/ \E reco \in RecoDocs : RunRecognition(reco, ok) \/ RunRecognitionDirect(reco, ok)
       \/ \E action \in ActDocs : RunAction(action, ok) \/ RunActionDirect(action, ok)
  \/ JobWait \/ GetDetail \/ RunTaskEnds
  \/ AskSize \/ AskData \/ AskNode \/ AskRecognition \/ AskAction \/ QueryRead
-----------------------------------------------------------------------------
Statuses == {"invalid", "pending", "running"} \cup Ended
NodesOf == [reco : RecoDocs \cup {NoDoc}, action : ActDocs \cup {NoDoc}, complete : BOOLEAN]

DetailTypeOK ==
  /\ \A id \in Ids : /\ tasks[id].status \in Statuses /\ tasks[id].known \in BOOLEAN
                     /\ Len(tasks[id].nodes) <= MaxNodes
                     /\ \A i \in DOMAIN tasks[id].nodes : tasks[id].nodes[i] \in NodesOf
  /\ taskJob \in [id : Ids \cup {0}, final : Statuses, err : BOOLEAN]
  /\ query.pc \in {"idle", "run", "size", "data", "node", "reco", "action", "done"}
  /\ query.kind \in Queries /\ query.node \in NodesOf
  /\ query.from + Len(query.out) <= MaxNodes

\* The documents a recognition consists of, itself included; a part without text is none.
Within[d \in Documents \cup {NoDoc}] ==
  {d} \cup IF IsCombined(d.algorithm)
           THEN UNION {Within[d.parts[i]] : i \in {j \in DOMAIN d.parts : d.parts[j].text # "missing"}}
           ELSE {}

Malformed(d) ==
  /\ d.algorithm # "DirectHit" /\ d.text # "missing"
  /\ \/ d.text = "malformed" \/ "bad" \in {d.items[i] : i \in DOMAIN d.items}
     \/ d.items # <<>> /\ d.algorithm \notin KnownRecognitions
UnreadableReco(d) == \E p \in Within[d] : Malformed(p)
UnreadableAct(d) == d.text = "malformed" \/ (d.text = "present" /\ d.algorithm \notin KnownActions)
UnreadableNode(n) == UnreadableReco(n.reco) \/ UnreadableAct(n.action)

\* A query that goes through has told nothing that cannot be read, at whatever depth of
\* a combined recognition, and one fails only for something that cannot be read or that
\* the framework refused.  Unless the cache was cleared meanwhile, what is told of each
\* node is the task's, and of a complete node all of it; a status that is final comes
\* with every node of the task, and is what its job said if that was waited for.  Only
\* a task without nodes is told without a status.
DetailMatchesTask ==
  query.pc = "done" =>
    LET out == query.out
        nodes == IF query.id = 0 THEN <<>> ELSE tasks[query.id].nodes IN
    /\ \A i \in DOMAIN out : ~UnreadableNode(out[i])
    /\ query.error => query.refused \/ UnreadableNode(query.node)
    /\ (~query.error /\ ~query.cleared /\ query.kind \in {"task", "node"}) =>
         /\ \A i \in DOMAIN out :
              /\ out[i].reco = nodes[query.from + i].reco
              /\ out[i].complete => out[i] = nodes[query.from + i]
         /\ query.status \in Ended => out = nodes /\ query.status = tasks[query.id].status
         /\ query.said \in Ended => out = nodes /\ (nodes # <<>> => query.status = query.said)
         /\ query.kind = "task" /\ query.status = "invalid" => out = <<>>
=============================================================================
