------------------------------ MODULE DailyTasks ------------------------------
(***************************************************************************)
(* The agent's task list and its record of what ran today.  Each run of    *)
(* the list makes a tracker with a lock of its own, and all agents work on *)
(* one file under one device name: nothing in the program ever sets        *)
(* another.  A record is read, changed and written back by truncating the  *)
(* file; an agent may be killed, or the write fail, in between.            *)
(***************************************************************************)
EXTENDS Naturals, AgentFiles

CONSTANTS Tasks, NoTask,
  MaxDay     \* bound of an instance: days that pass

ASSUME DailyAssumption == MaxDay \in Nat \ {0}

VARIABLES
  today,       \* the date
  recordFile,  \* daily_tasks_record.json
  list,        \* per agent: the run of the task list
  dated,       \* per task: the last day on which RecordExecution took the date of an ended run
  recorded,    \* per task: the last day whose record was written, while not spoilt
  spoilt       \* a write of the records was cut short or overlapped another

dailyVars == <<today, recordFile, list, dated, recorded, spoilt>>

Days == 1..MaxDay
Never == 0
NoRecords == [t \in Tasks |-> Never]

\* What each task of params.Tasks asks for
Configs == {"disabled", "always", "once"}

\* The steps of RecordExecution
Recording == {"read", "truncate", "write"}
NoTasks == [t \in Tasks |-> "disabled"]
IdleList == [pc |-> "idle", todo |-> NoTasks, task |-> NoTask, day |-> Never,
             data |-> NoRecords]

DailyInit ==
  /\ today = 1
  /\ recordFile = [is |-> "empty", data |-> NoRecords]
  /\ list = [a \in Agents |-> IdleList]
  /\ dated = NoRecords /\ recorded = NoRecords /\ spoilt = FALSE

\* readRecords: a file that cannot be read as records counts as one with none.
Records == IF recordFile.is = "whole" THEN recordFile.data ELSE NoRecords

\* A bug: any earlier day will do.
BugHasExecutedToday(t) == Records[t] # Never
HasExecutedToday(t) == Records[t] = today

\* Run, with at least one task configured
ListBegin(a, params) ==
  /\ list[a].pc = "idle"
  /\ list' = [list EXCEPT ![a].pc = "next", ![a].todo = params]
  /\ UNCHANGED <<today, recordFile, dated, recorded, spoilt>>

\* The map of tasks is visited in no particular order.
ListSkip(a, t) ==
  /\ list[a].pc = "next" /\ list[a].todo[t] = "once"
  /\ HasExecutedToday(t)
  /\ list' = [list EXCEPT ![a].todo[t] = "disabled"]
  /\ UNCHANGED <<today, recordFile, dated, recorded, spoilt>>

StartTask(a, t) ==
  /\ list[a].pc = "next" /\ list[a].todo[t] # "disabled"
  /\ list[a].todo[t] = "once" => ~HasExecutedToday(t)
  /\ list' = [list EXCEPT ![a].pc = "run", ![a].task = t]
  /\ UNCHANGED <<today, recordFile, dated, recorded, spoilt>>

\* On to the next task of the list
Continue(a) ==
  [list EXCEPT ![a] = [IdleList EXCEPT !.pc = "next",
     !.todo = [list[a].todo EXCEPT ![list[a].task] = "disabled"]]]

Overlap(a) == \E b \in Agents \ {a} : list[b].pc \in Recording

SpoiltIf(now) ==
  /\ spoilt' = (spoilt \/ now)
  /\ recorded' = IF now THEN NoRecords ELSE recorded

\* The task ended, in success or failure.
RunEnds(a) ==
  LET t == list[a].task IN
  /\ list[a].pc = "run"
  /\ list' = IF list[a].todo[t] = "once" THEN [list EXCEPT ![a].pc = "date"] ELSE Continue(a)
  /\ UNCHANGED <<today, recordFile, dated, recorded, spoilt>>

\* RecordExecution takes the date, which may be another by now.
TakeDate(a) ==
  /\ list[a].pc = "date"
  /\ list' = [list EXCEPT ![a].pc = "read", ![a].day = today]
  /\ dated' = [dated EXCEPT ![list[a].task] = today]
  /\ SpoiltIf(Overlap(a))
  /\ UNCHANGED <<today, recordFile>>

ReadRecords(a) ==
  /\ list[a].pc = "read"
  /\ list' = [list EXCEPT ![a].pc = "truncate",
                          ![a].data = [Records EXCEPT ![list[a].task] = list[a].day]]
  /\ UNCHANGED <<today, recordFile, dated, recorded, spoilt>>

\* os.WriteFile opens the file and truncates it ...
TruncateRecords(a) ==
  /\ list[a].pc = "truncate"
  /\ recordFile' = [is |-> "empty", data |-> NoRecords]
  /\ list' = [list EXCEPT ![a].pc = "write"]
  /\ UNCHANGED <<today, dated, recorded, spoilt>>

\* ... then writes the new text.
WriteRecords(a) ==
  /\ list[a].pc = "write"
  /\ recordFile' = [is |-> "whole", data |-> list[a].data]
  /\ recorded' = IF spoilt THEN recorded ELSE [recorded EXCEPT ![list[a].task] = list[a].day]
  /\ list' = Continue(a)
  /\ UNCHANGED <<today, dated, spoilt>>

\* A failure is logged, and the list goes on.
WriteRecordsFails(a) ==
  /\ list[a].pc \in {"truncate", "write"}
  /\ recordFile' \in Remains(recordFile, list[a].pc = "write")
  /\ SpoiltIf(list[a].pc = "write")
  /\ list' = Continue(a)
  /\ UNCHANGED <<today, dated>>

ListEnds(a) ==
  /\ list[a].pc = "next" /\ list[a].todo = NoTasks
  /\ list' = [list EXCEPT ![a] = IdleList]
  /\ UNCHANGED <<today, recordFile, dated, recorded, spoilt>>

\* The agent process is killed; the next one starts with an idle list.
KillAgent(a) ==
  /\ list[a].pc # "idle"
  /\ list' = [list EXCEPT ![a] = IdleList]
  /\ recordFile' \in Remains(recordFile, list[a].pc = "write")
  /\ SpoiltIf(list[a].pc = "write")
  /\ UNCHANGED <<today, dated>>

NextDay ==
  /\ today < MaxDay
  /\ today' = today + 1
  /\ UNCHANGED <<recordFile, list, dated, recorded, spoilt>>

DailyNext ==
  \/ \E a \in Agents :
       \/ \E params \in [Tasks -> Configs] : ListBegin(a, params)
       \/ \E t \in Tasks : ListSkip(a, t) \/ StartTask(a, t)
       \/ RunEnds(a) \/ TakeDate(a) \/ ReadRecords(a) \/ TruncateRecords(a) \/ WriteRecords(a)
       \/ WriteRecordsFails(a) \/ ListEnds(a) \/ KillAgent(a)
  \/ NextDay
-----------------------------------------------------------------------------
DailyTypeOK ==
  /\ today \in Days
  /\ recordFile \in [is : Conditions, data : [Tasks -> 0..MaxDay]]
  /\ list \in [Agents -> [pc : {"idle", "next", "run", "date"} \cup Recording,
                          todo : [Tasks -> Configs], task : Tasks \cup {NoTask},
                          day : 0..MaxDay, data : [Tasks -> 0..MaxDay]]]
  /\ {dated, recorded} \subseteq [Tasks -> 0..MaxDay]
  /\ spoilt \in BOOLEAN

Writing == \E a \in Agents : list[a].pc = "write"

\* A task is left out of a day's list only if a run of it ended and RecordExecution gave
\* it that day's date, whatever was killed, torn or written at the same time.  And every
\* record that was written can be read back until a later day replaces it, unless a write
\* was cut short or two agents were in RecordExecution at once.
DailyRecordsHonest ==
  /\ \A t \in Tasks : HasExecutedToday(t) => dated[t] = today
  /\ ~spoilt /\ ~Writing => \A t \in Tasks : Records[t] >= recorded[t]
=============================================================================
