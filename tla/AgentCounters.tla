----------------------------- MODULE AgentCounters -----------------------------
(***************************************************************************)
(* The agent's counters: recognitions and actions that answer by what they *)
(* have been asked before.  Each is one object for the life of the agent,  *)
(* shared by every node and task that names it; the agent answers one call *)
(* at a time.  The calls made are kept in a log, so that an answer can be  *)
(* held against the whole history instead of the counter's own state.      *)
(***************************************************************************)
EXTENDS Naturals, Sequences, FiniteSets

CONSTANTS
  Nodes, NoNode,   \* names of OCR nodes
  Texts,           \* what OCR can read
  Frames,          \* sequences of at most three texts: the best results of an image
  TaskIds,
  Targets,         \* the counts that parameters ask for, all at least 1
  Enemies,         \* names of co-battle targets, as sequences of letters
  MaxCalls         \* bound of an instance: length of the log

\* A node without a name is refused, as is a count that is not positive; of the texts
\* of an image the best three are taken, and no texts are a miss.
ASSUME CountersAssumption ==
  /\ NoNode \notin Nodes /\ Targets \subseteq Nat \ {0}
  /\ Frames \subseteq UNION {[1..n -> Texts] : n \in 1..3}

VARIABLES
  ocr,         \* OCRResultCounterRecognition: lastNode and counts
  taskCounts,  \* the map of that name of TaskCounterRecognition and of TaskCounter
  targets,     \* CoBattleTargetRecognition
  counting,    \* the run of CountAction in progress
  restarts,    \* ReStartGame
  calls        \* the log

counterVars == <<ocr, taskCounts, targets, counting, restarts, calls>>

MaxRestarts == 5
Counters == {"recognition", "action"}
NoCounts == [t \in Texts |-> 0]
NotCounting == [n |-> 0, target |-> 0]

CountersInit ==
  /\ ocr = [lastNode |-> NoNode, counts |-> NoCounts]
  /\ taskCounts = [c \in Counters |-> [id \in TaskIds |-> 0]]
  /\ targets = {} /\ counting = NotCounting /\ restarts = 0 /\ calls = <<>>

Logged(c) == Len(calls) < MaxCalls /\ calls' = Append(calls, c)

\* How often a text occurs in a sequence of texts
Occurrences(t, s) == Cardinality({i \in DOMAIN s : s[i] = t})
Prefix(s, n) == SubSeq(s, 1, n)
-----------------------------------------------------------------------------
(* OCRResultCounterRecognition *)

\* No image, a failed recognition, no hit or no text: resetCounts
OcrMiss ==
  /\ ocr' = [lastNode |-> NoNode, counts |-> NoCounts]
  /\ Logged([node |-> NoNode])
  /\ UNCHANGED <<taskCounts, targets, counting, restarts>>

\* A bug: the counts of another node are kept.
BugCountsFor(node) == ocr.counts

\* The counts of another node are dropped.
CountsFor(node) == IF ocr.lastNode = node THEN ocr.counts ELSE NoCounts

\* updateCounts: a text whose count goes over the target matches, the first that
\* does is reported, and the counting starts anew.
OcrHit(node, texts, target) ==
  LET before == CountsFor(node)
      after == [t \in Texts |-> before[t] + Occurrences(t, texts)]
      over == {i \in DOMAIN texts :
                 before[texts[i]] + Occurrences(texts[i], Prefix(texts, i)) > target}
      matched == over # {}
  IN
  /\ ocr' = IF matched THEN [lastNode |-> NoNode, counts |-> NoCounts]
            ELSE [lastNode |-> node, counts |-> after]
  /\ Logged([node |-> node, texts |-> texts, target |-> target, matched |-> matched])
  /\ UNCHANGED <<taskCounts, targets, counting, restarts>>

OcrNext ==
  \/ OcrMiss
  \/ \E node \in Nodes, texts \in Frames, target \in Targets : OcrHit(node, texts, target)
-----------------------------------------------------------------------------
(* TaskCounterRecognition, TaskCounter *)

Answered(counter, id, target, n, answer) ==
  /\ taskCounts' = [taskCounts EXCEPT ![counter][id] = n]
  /\ Logged([counter |-> counter, id |-> id, target |-> target, answer |-> answer])
  /\ UNCHANGED <<ocr, targets, counting, restarts>>

\* Answers yes while the count is below the target, then no once, and starts anew.
TaskCounterRecognition(id, target) ==
  LET n == taskCounts["recognition"][id] IN
  IF n >= target THEN Answered("recognition", id, target, 0, FALSE)
  ELSE Answered("recognition", id, target, n + 1, TRUE)

\* Counts first: the target-th call is the one answered no.
TaskCounter(id, target) ==
  LET n == taskCounts["action"][id] + 1 IN
  IF n >= target THEN Answered("action", id, target, 0, FALSE)
  ELSE Answered("action", id, target, n, TRUE)

TaskRecognitionNext == \E id \in TaskIds, target \in Targets : TaskCounterRecognition(id, target)
TaskActionNext == \E id \in TaskIds, target \in Targets : TaskCounter(id, target)
-----------------------------------------------------------------------------
(* CoBattleTargetRecognition *)

Contains(name, part) ==
  \E i \in 0..(Len(name) - Len(part)) : SubSeq(name, i + 1, i + Len(part)) = part

\* A target that could not be read is not added, and the call changes nothing.
AddTarget(name) ==
  /\ targets' = targets \cup {name}
  /\ Logged([add |-> TRUE, name |-> name, answer |-> TRUE])
  /\ UNCHANGED <<ocr, taskCounts, counting, restarts>>

CheckTarget(name) ==
  /\ Logged([add |-> FALSE, name |-> name, answer |-> \E t \in targets : Contains(name, t)])
  /\ UNCHANGED <<ocr, taskCounts, targets, counting, restarts>>

CoBattleNext == \E name \in Enemies : AddTarget(name) \/ CheckTarget(name)
-----------------------------------------------------------------------------
(* CountAction, ReStartGame *)

CountBegin(target) ==
  /\ counting = NotCounting
  /\ counting' = [n |-> 0, target |-> target]
  /\ Logged([look |-> "begin", target |-> target])
  /\ UNCHANGED <<ocr, taskCounts, targets, restarts>>

\* One turn of the loop: a recognition that fails counts as a miss.
CountLook(hit) ==
  /\ counting.n < counting.target
  /\ counting' = IF hit THEN [counting EXCEPT !.n = @ + 1] ELSE counting
  /\ Logged([look |-> IF hit THEN "hit" ELSE "miss", target |-> counting.target])
  /\ UNCHANGED <<ocr, taskCounts, targets, restarts>>

\* No controller or no image ends the action in failure.
CountAbort ==
  /\ counting.n < counting.target
  /\ counting' = NotCounting
  /\ Logged([look |-> "abort", target |-> counting.target])
  /\ UNCHANGED <<ocr, taskCounts, targets, restarts>>

CountReached ==
  /\ counting # NotCounting /\ counting.n = counting.target
  /\ counting' = NotCounting
  /\ Logged([look |-> "next", target |-> counting.target])
  /\ UNCHANGED <<ocr, taskCounts, targets, restarts>>

\* Five restarts of the game, then StopTask for the rest of the agent's life; a
\* game that could not be closed is not counted.
RestartGame ==
  /\ restarts < MaxRestarts
  /\ restarts' = restarts + 1
  /\ UNCHANGED <<ocr, taskCounts, targets, counting, calls>>

CountNext ==
  \/ \E target \in Targets : CountBegin(target)
  \/ \E hit \in BOOLEAN : CountLook(hit)
  \/ CountAbort \/ CountReached \/ RestartGame
-----------------------------------------------------------------------------
CountersTypeOK ==
  /\ ocr \in [lastNode : Nodes \cup {NoNode}, counts : [Texts -> Nat]]
  /\ taskCounts \in [Counters -> [TaskIds -> Nat]]
  /\ targets \subseteq Enemies
  /\ counting \in [n : Nat, target : Targets \cup {0}]
  /\ restarts \in 0..MaxRestarts

\* The last of some positions of the log, 0 if there is none
LastOf(positions) ==
  IF positions = {} THEN 0 ELSE CHOOSE j \in positions : \A k \in positions : k <= j
Earlier(i) == 1..(i - 1)

\* An OCR call matches when, since the last miss, match or other node, a text it
\* shows has been read more often than its target.
OcrEarned(i) ==
  LET c == calls[i]
      since == LastOf({j \in Earlier(i) : calls[j].node # c.node \/ calls[j].matched})
      seen(t) == {p \in ((since + 1)..i) \X (1..3) :
                    p[2] \in DOMAIN calls[p[1]].texts /\ calls[p[1]].texts[p[2]] = t}
  IN c.node # NoNode =>
       (c.matched <=> \E k \in DOMAIN c.texts : Cardinality(seen(c.texts[k])) > c.target)

\* A counter says no when it has said yes often enough to this task since its last no.
CountEarned(i) ==
  LET c == calls[i]
      mine(j) == calls[j].counter = c.counter /\ calls[j].id = c.id
      since == LastOf({j \in Earlier(i) : mine(j) /\ ~calls[j].answer})
      yes == Cardinality({j \in (since + 1)..(i - 1) : mine(j)})
  IN c.answer <=> (IF c.counter = "recognition" THEN yes ELSE yes + 1) < c.target

TargetEarned(i) ==
  ~calls[i].add => (calls[i].answer <=>
     \E j \in Earlier(i) : calls[j].add /\ Contains(calls[i].name, calls[j].name))

NextEarned(i) ==
  LET since == LastOf({j \in Earlier(i) : calls[j].look = "begin"}) IN
  calls[i].look = "next" =>
    calls[i].target = Cardinality({j \in since..i : calls[j].look = "hit"})

\* Every answer of a counter is earned by the calls made before it and by nothing
\* else: not by the counts of another node or task, by those of before the last
\* reset, or by a call that failed.  Of OCR it says what updateCounts does, which
\* the schema describes otherwise.
MatchesAreEarned ==
  \A i \in DOMAIN calls :
    LET fields == DOMAIN calls[i] IN
    /\ "node" \in fields => OcrEarned(i)
    /\ "counter" \in fields => CountEarned(i)
    /\ "add" \in fields => TargetEarned(i)
    /\ "look" \in fields => NextEarned(i)
=============================================================================
