-------------------------- MODULE AgentProcessProofs --------------------------
(***************************************************************************)
(* Proofs about the features of the agent, for any agents, tasks, keys,    *)
(* builders and lists.  A behaviour of the process takes the steps of each *)
(* feature or leaves it alone, so an invariant of a feature is one of the  *)
(* process.                                                                *)
(***************************************************************************)
EXTENDS AgentProcess, FiniteSetTheorems, WellFoundedInduction, TLAPS

\* A step of the process is one of the daily tasks', or leaves them alone.
LEMMA DailySteps == [Next]_vars => [DailyNext]_dailyVars
BY DEF Next, vars, scriptVars, ProcessNext, Uses

\* One of the configuration's, or leaves it alone.
LEMMA ConfigSteps == [Next]_vars => [ConfigNext]_configVars
BY DEF Next, vars, scriptVars, ProcessNext, Uses

\* One of the search for a group and a team, or leaves it alone.
LEMMA ScreensSteps == [Next]_vars => [ScreensNext]_screenVars
BY DEF Next, vars, scriptVars, ProcessNext, Uses

\* One of the builders', or leaves them alone.
LEMMA PairingSteps == [Next]_vars => [PairingNext]_pairingVars
BY DEF Next, vars, scriptVars, ProcessNext, Uses

\* One of the search for the best reward, or leaves it alone.
LEMMA FosterSteps == [Next]_vars => [FosterNext]_fosterVars
BY DEF Next, vars, scriptVars, ProcessNext, Uses

\* One of the counters' with the feature they are used for, or leaves them alone.
LEMMA CounterSteps == [Next]_vars =>
  \/ UNCHANGED counterVars /\ (feature' = feature \/ feature = Unused)
  \/ feature' = feature /\
       \/ feature = "ocr" /\ OcrNext
       \/ feature = "taskRecognition" /\ TaskRecognitionNext
       \/ feature = "taskAction" /\ TaskActionNext
       \/ feature = "coBattle" /\ CoBattleNext
       \/ feature = "count" /\ CountNext
BY DEF Next, vars, scriptVars, ProcessNext, Uses, processVars, Choose, Fatal, Goes, Identified,
   NotIdentified, InitFramework, InitFrameworkFails, LoadContext, InitOption, RegisterNext,
   RegisterFails, AllRegistered, StartServer, StartServerFails, Join, ShutDownServer, Release

-----------------------------------------------------------------------------
(* The task list and its records                                            *)

\* A run of the task list, at a task of its own where it is at one.
Run ==
  [pc : {"idle", "next", "run", "date", "read", "truncate", "write"}, todo : [Tasks -> Configs],
   task : Tasks \cup {NoTask}, day : 0..MaxDay, data : [Tasks -> 0..MaxDay]]
AtTask(r) == r.pc \in {"run", "date", "read", "truncate", "write"} => r.task \in Tasks

\* The types of the days and of the lists.
DailyTypes ==
  /\ today \in Days
  /\ recordFile \in [is : Conditions, data : [Tasks -> 0..MaxDay]]
  /\ list \in [Agents -> Run] /\ \A a \in Agents : AtTask(list[a])
  /\ dated \in [Tasks -> 0..MaxDay]
  /\ recorded \in [Tasks -> 0..MaxDay]

\* What a file or an agent takes for the last days of the tasks is no later than
\* the days their runs were given.
DaysHappened ==
  /\ \A t \in Tasks : dated[t] <= today /\ recorded[t] <= dated[t]
  /\ recordFile.is = "whole" => \A t \in Tasks : recordFile.data[t] <= dated[t]
  /\ \A a \in Agents :
       /\ list[a].pc \in {"truncate", "write"} => \A t \in Tasks : list[a].data[t] <= dated[t]
       /\ list[a].pc \in Recording => list[a].day <= dated[list[a].task]

\* An undisturbed agent in RecordExecution is alone there, and what it is going to
\* write forgets no record.
NothingForgotten ==
  ~spoilt =>
    /\ \A a, b \in Agents : list[a].pc \in Recording /\ list[b].pc \in Recording => a = b
    /\ ~Writing => \A t \in Tasks : Records[t] >= recorded[t]
    /\ \A a \in Agents :
         /\ list[a].pc \in Recording => recorded[list[a].task] <= list[a].day
         /\ list[a].pc \in {"truncate", "write"} =>
              /\ \A t \in Tasks : list[a].data[t] >= recorded[t]
              /\ list[a].data[list[a].task] = list[a].day

DailyInv == DailyTypes /\ DaysHappened /\ NothingForgotten

\* The list goes on from where it is at.
Continued(r) == [IdleList EXCEPT !.pc = "next", !.todo = [r.todo EXCEPT ![r.task] = "disabled"]]

\* A run that goes on with its list is a run.
LEMMA ContinuedRun == ASSUME DailyTypes, NEW r \in Run, AtTask(r)
  PROVE Continued(r) \in Run /\ AtTask(Continued(r))
<1>1. [r.todo EXCEPT ![r.task] = "disabled"] \in [Tasks -> Configs]
  BY DEF Run, Configs
<1>2. NoRecords \in [Tasks -> 0..MaxDay] /\ Never \in 0..MaxDay
  BY DailyAssumption DEF NoRecords, Never
<1> QED
  BY <1>1, <1>2 DEF Run, AtTask, Continued, IdleList

\* What an agent reads are days of the instance.
LEMMA RecordsType == DailyTypes => Records \in [Tasks -> 0..MaxDay]
BY DailyAssumption DEF DailyTypes, Records, NoRecords, Never

\* One list changes, to a run of the list.
LEMMA ListChanged ==
  ASSUME DailyTypes, NEW a \in Agents, NEW r \in Run, AtTask(r), list' = [list EXCEPT ![a] = r],
         today' \in Days, recordFile' \in [is : Conditions, data : [Tasks -> 0..MaxDay]],
         dated' \in [Tasks -> 0..MaxDay],
         recorded' \in [Tasks -> 0..MaxDay]
  PROVE  DailyTypes'
<1>1. list' \in [Agents -> Run] /\ \A b \in Agents : AtTask(list'[b])
  BY DEF DailyTypes
<1> QED
  BY <1>1 DEF DailyTypes

\* The first state has no lists, no records and no day before the first.
LEMMA DailyStart == DailyInit => DailyInv
<1> SUFFICES ASSUME DailyInit PROVE DailyInv
  OBVIOUS
<1>1. IdleList \in Run /\ AtTask(IdleList)
  BY DailyAssumption DEF IdleList, Run, AtTask, NoTasks, NoRecords, Never, Configs
<1>2. DailyTypes
  BY <1>1, DailyAssumption DEF DailyInit, DailyTypes, Days, NoRecords, Never, Conditions
<1>3. DaysHappened
  BY DailyAssumption DEF DailyInit, DaysHappened, NoRecords, Never, IdleList, Recording
<1>4. NothingForgotten
  BY DailyAssumption DEF DailyInit, NothingForgotten, NoRecords, Never, IdleList, Recording,
     Records, Writing
<1> QED
  BY <1>2, <1>3, <1>4 DEF DailyInv

\* Every step keeps the types.
LEMMA DailyTypesKept == DailyTypes /\ [DailyNext]_dailyVars => DailyTypes'
<1> SUFFICES ASSUME DailyTypes, [DailyNext]_dailyVars PROVE DailyTypes'
  OBVIOUS
<1>1. ASSUME NEW a \in Agents, NEW params \in [Tasks -> Configs], ListBegin(a, params)
        PROVE DailyTypes'
  <2> DEFINE r == [list[a] EXCEPT !.pc = "next", !.todo = params]
  <2>1. r \in Run /\ AtTask(r)
    BY <1>1, RecordsType DEF DailyTypes, Run, AtTask, ListBegin
  <2>2. list' = [list EXCEPT ![a] = r]
    BY <1>1 DEF DailyTypes, Run, ListBegin
  <2>3. /\ today' \in Days /\ recordFile' \in [is : Conditions, data : [Tasks -> 0..MaxDay]]
        /\ dated' \in [Tasks -> 0..MaxDay]
        /\ recorded' \in [Tasks -> 0..MaxDay]
    BY <1>1, DailyAssumption DEF DailyTypes, Days, Run, AtTask, Conditions, NoRecords, Never,
       ListBegin
  <2> QED
    BY <2>1, <2>2, <2>3, ListChanged
<1>2. ASSUME NEW a \in Agents, NEW t \in Tasks, ListSkip(a, t) PROVE DailyTypes'
  <2> DEFINE r == [list[a] EXCEPT !.todo[t] = "disabled"]
  <2>1. r \in Run /\ AtTask(r)
    BY <1>2, RecordsType DEF DailyTypes, Run, AtTask, Configs, ListSkip
  <2>2. list' = [list EXCEPT ![a] = r]
    BY <1>2 DEF DailyTypes, Run, ListSkip
  <2>3. /\ today' \in Days /\ recordFile' \in [is : Conditions, data : [Tasks -> 0..MaxDay]]
        /\ dated' \in [Tasks -> 0..MaxDay]
        /\ recorded' \in [Tasks -> 0..MaxDay]
    BY <1>2, DailyAssumption DEF DailyTypes, Days, Run, AtTask, Conditions, NoRecords, Never,
       ListSkip
  <2> QED
    BY <2>1, <2>2, <2>3, ListChanged
<1>3. ASSUME NEW a \in Agents, NEW t \in Tasks, StartTask(a, t) PROVE DailyTypes'
  <2> DEFINE r == [list[a] EXCEPT !.pc = "run", !.task = t]
  <2>1. r \in Run /\ AtTask(r)
    BY <1>3, RecordsType DEF DailyTypes, Run, AtTask, StartTask
  <2>2. list' = [list EXCEPT ![a] = r]
    BY <1>3 DEF DailyTypes, Run, StartTask
  <2>3. /\ today' \in Days /\ recordFile' \in [is : Conditions, data : [Tasks -> 0..MaxDay]]
        /\ dated' \in [Tasks -> 0..MaxDay]
        /\ recorded' \in [Tasks -> 0..MaxDay]
    BY <1>3, DailyAssumption DEF DailyTypes, Days, Run, AtTask, Conditions, NoRecords, Never,
       StartTask
  <2> QED
    BY <2>1, <2>2, <2>3, ListChanged
<1>4. ASSUME NEW a \in Agents, RunEnds(a) PROVE DailyTypes'
  <2> DEFINE r == IF list[a].todo[list[a].task] = "once"
                  THEN [list[a] EXCEPT !.pc = "date"]
                  ELSE Continued(list[a])
  <2>1. r \in Run /\ AtTask(r)
    <3>1. list[a] \in Run /\ AtTask(list[a]) /\ list[a].task \in Tasks
      BY <1>4 DEF DailyTypes, Days, AtTask, RunEnds
    <3>2. Continued(list[a]) \in Run /\ AtTask(Continued(list[a]))
      BY <3>1, ContinuedRun
    <3>3. [list[a] EXCEPT !.pc = "date"] \in Run /\ AtTask([list[a] EXCEPT !.pc = "date"])
      BY <3>1 DEF Run, AtTask
    <3> QED
      BY <3>2, <3>3
  <2>2. list' = [list EXCEPT ![a] = r]
    BY <1>4 DEF DailyTypes, Run, RunEnds, Continue, Continued
  <2>3. /\ today' \in Days /\ recordFile' \in [is : Conditions, data : [Tasks -> 0..MaxDay]]
        /\ dated' \in [Tasks -> 0..MaxDay]
        /\ recorded' \in [Tasks -> 0..MaxDay]
    BY <1>4, DailyAssumption DEF DailyTypes, Days, Run, AtTask, Conditions, NoRecords, Never,
       RunEnds
  <2> QED
    BY <2>1, <2>2, <2>3, ListChanged
<1>13. ASSUME NEW a \in Agents, TakeDate(a) PROVE DailyTypes'
  <2> DEFINE r == [list[a] EXCEPT !.pc = "read", !.day = today]
  <2>1. r \in Run /\ AtTask(r)
    <3>1. list[a] \in Run /\ list[a].task \in Tasks /\ today \in 0..MaxDay
      BY <1>13, DailyAssumption DEF DailyTypes, Days, AtTask, TakeDate
    <3>2. /\ r \in Run
          /\ r.task \in Tasks
      BY <3>1 DEF Run
    <3> QED
      BY <3>2 DEF AtTask
  <2>2. list' = [list EXCEPT ![a] = r]
    BY <1>13 DEF DailyTypes, Run, TakeDate
  <2>3. /\ today' \in Days /\ recordFile' \in [is : Conditions, data : [Tasks -> 0..MaxDay]]
        /\ dated' \in [Tasks -> 0..MaxDay]
        /\ recorded' \in [Tasks -> 0..MaxDay]
    BY <1>13, DailyAssumption DEF DailyTypes, Days, Run, AtTask, NoRecords, Never, TakeDate, SpoiltIf
  <2> QED
    BY <2>1, <2>2, <2>3, ListChanged
<1>5. ASSUME NEW a \in Agents, ReadRecords(a) PROVE DailyTypes'
  <2> DEFINE r == [list[a] EXCEPT !.pc = "truncate",
               !.data = [Records EXCEPT ![list[a].task] = list[a].day]]
  <2>1. r \in Run /\ AtTask(r)
    BY <1>5, RecordsType DEF DailyTypes, Run, AtTask, ReadRecords
  <2>2. list' = [list EXCEPT ![a] = r]
    BY <1>5 DEF DailyTypes, Run, ReadRecords
  <2>3. /\ today' \in Days /\ recordFile' \in [is : Conditions, data : [Tasks -> 0..MaxDay]]
        /\ dated' \in [Tasks -> 0..MaxDay]
        /\ recorded' \in [Tasks -> 0..MaxDay]
    BY <1>5, DailyAssumption DEF DailyTypes, Days, Run, AtTask, Conditions, NoRecords, Never,
       ReadRecords
  <2> QED
    BY <2>1, <2>2, <2>3, ListChanged
<1>6. ASSUME NEW a \in Agents, TruncateRecords(a) PROVE DailyTypes'
  <2> DEFINE r == [list[a] EXCEPT !.pc = "write"]
  <2>1. r \in Run /\ AtTask(r)
    BY <1>6, RecordsType DEF DailyTypes, Run, AtTask, TruncateRecords
  <2>2. list' = [list EXCEPT ![a] = r]
    BY <1>6 DEF DailyTypes, Run, TruncateRecords
  <2>3. /\ today' \in Days /\ recordFile' \in [is : Conditions, data : [Tasks -> 0..MaxDay]]
        /\ dated' \in [Tasks -> 0..MaxDay]
        /\ recorded' \in [Tasks -> 0..MaxDay]
    BY <1>6, DailyAssumption DEF DailyTypes, Days, Run, AtTask, Conditions, NoRecords, Never,
       TruncateRecords
  <2> QED
    BY <2>1, <2>2, <2>3, ListChanged
<1>7. ASSUME NEW a \in Agents, WriteRecords(a) PROVE DailyTypes'
  <2> DEFINE r == Continued(list[a])
  <2>1. r \in Run /\ AtTask(r)
    BY <1>7, ContinuedRun DEF DailyTypes, AtTask, WriteRecords
  <2>2. list' = [list EXCEPT ![a] = r]
    BY <1>7 DEF DailyTypes, Run, WriteRecords, Continue, Continued
  <2>3. /\ today' \in Days /\ recordFile' \in [is : Conditions, data : [Tasks -> 0..MaxDay]]
        /\ dated' \in [Tasks -> 0..MaxDay]
        /\ recorded' \in [Tasks -> 0..MaxDay]
    BY <1>7, DailyAssumption DEF DailyTypes, Days, Run, AtTask, Conditions, NoRecords, Never,
       WriteRecords
  <2> QED
    BY <2>1, <2>2, <2>3, ListChanged
<1>8. ASSUME NEW a \in Agents, WriteRecordsFails(a) PROVE DailyTypes'
  <2> DEFINE r == Continued(list[a])
  <2>1. r \in Run /\ AtTask(r)
    BY <1>8, ContinuedRun DEF DailyTypes, AtTask, WriteRecordsFails
  <2>2. list' = [list EXCEPT ![a] = r]
    BY <1>8 DEF DailyTypes, Run, WriteRecordsFails, Continue, Continued
  <2>3. /\ today' \in Days /\ recordFile' \in [is : Conditions, data : [Tasks -> 0..MaxDay]]
        /\ dated' \in [Tasks -> 0..MaxDay]
        /\ recorded' \in [Tasks -> 0..MaxDay]
    BY <1>8, DailyAssumption DEF DailyTypes, Days, Run, AtTask, Conditions, NoRecords, Never,
       WriteRecordsFails, SpoiltIf, Remains
  <2> QED
    BY <2>1, <2>2, <2>3, ListChanged
<1>9. ASSUME NEW a \in Agents, ListEnds(a) PROVE DailyTypes'
  <2> DEFINE r == IdleList
  <2>1. r \in Run /\ AtTask(r)
    BY DailyAssumption DEF IdleList, Run, AtTask, NoTasks, NoRecords, Never, Configs
  <2>2. list' = [list EXCEPT ![a] = r]
    BY <1>9 DEF DailyTypes, Run, ListEnds
  <2>3. /\ today' \in Days /\ recordFile' \in [is : Conditions, data : [Tasks -> 0..MaxDay]]
        /\ dated' \in [Tasks -> 0..MaxDay]
        /\ recorded' \in [Tasks -> 0..MaxDay]
    BY <1>9, DailyAssumption DEF DailyTypes, Days, Run, AtTask, Conditions, NoRecords, Never,
       ListEnds
  <2> QED
    BY <2>1, <2>2, <2>3, ListChanged
<1>10. ASSUME NEW a \in Agents, KillAgent(a) PROVE DailyTypes'
  <2> DEFINE r == IdleList
  <2>1. r \in Run /\ AtTask(r)
    BY DailyAssumption DEF IdleList, Run, AtTask, NoTasks, NoRecords, Never, Configs
  <2>2. list' = [list EXCEPT ![a] = r]
    BY <1>10 DEF DailyTypes, Run, KillAgent
  <2>3. /\ today' \in Days /\ recordFile' \in [is : Conditions, data : [Tasks -> 0..MaxDay]]
        /\ dated' \in [Tasks -> 0..MaxDay]
        /\ recorded' \in [Tasks -> 0..MaxDay]
    BY <1>10, DailyAssumption DEF DailyTypes, Days, Run, AtTask, Conditions, NoRecords, Never,
       KillAgent, SpoiltIf, Remains
  <2> QED
    BY <2>1, <2>2, <2>3, ListChanged
<1>11. ASSUME NextDay PROVE DailyTypes'
  BY <1>11, DailyAssumption DEF NextDay, DailyTypes, Days
<1>12. CASE UNCHANGED dailyVars
  BY <1>12 DEF dailyVars, DailyTypes
<1> QED
  BY <1>1, <1>2, <1>3, <1>4, <1>5, <1>6, <1>7, <1>8, <1>9, <1>10, <1>11, <1>12, <1>13 DEF DailyNext

\* No step brings a day of the future into the file or an agent's data.
LEMMA DaysKept == DailyTypes /\ DailyTypes' /\ DaysHappened /\ [DailyNext]_dailyVars
  => DaysHappened'
<1> SUFFICES ASSUME DailyTypes, DailyTypes', DaysHappened, [DailyNext]_dailyVars
      PROVE DaysHappened'
  OBVIOUS
<1> USE DailyAssumption DEF Days, Never, NoRecords, Recording, Conditions, DaysHappened
<1>1. ASSUME NEW a \in Agents, NEW params \in [Tasks -> Configs], ListBegin(a, params)
        PROVE DaysHappened'
  BY <1>1 DEF DailyTypes, Run, AtTask, ListBegin
<1>2. ASSUME NEW a \in Agents, NEW t \in Tasks, ListSkip(a, t) PROVE DaysHappened'
  BY <1>2 DEF DailyTypes, Run, AtTask, ListSkip, HasExecutedToday, Records
<1>3. ASSUME NEW a \in Agents, NEW t \in Tasks, StartTask(a, t) PROVE DaysHappened'
  <2>1. UNCHANGED <<recordFile, dated, recorded, today>>
    BY <1>3 DEF StartTask
  <2>2. \A b \in Agents \ {a} : list'[b] = list[b]
    BY <1>3 DEF StartTask, DailyTypes
  <2>3. list'[a].pc = "run"
    BY <1>3 DEF StartTask, DailyTypes, Run
  <2> QED
    BY <2>1, <2>2, <2>3 DEF DailyTypes
<1>4. ASSUME NEW a \in Agents, RunEnds(a) PROVE DaysHappened'
  <2>1. UNCHANGED <<recordFile, dated, recorded, today>>
    BY <1>4 DEF RunEnds
  <2>2. \A b \in Agents \ {a} : list'[b] = list[b]
    BY <1>4 DEF RunEnds, Continue, DailyTypes
  <2>3. list'[a].pc \in {"date", "next"}
    BY <1>4 DEF RunEnds, Continue, DailyTypes, Run
  <2> QED
    BY <2>1, <2>2, <2>3 DEF DailyTypes
<1>13. ASSUME NEW a \in Agents, TakeDate(a) PROVE DaysHappened'
  <2> DEFINE t == list[a].task
  <2>1. t \in Tasks /\ dated' = [dated EXCEPT ![t] = today] /\ UNCHANGED <<recordFile, today>>
    BY <1>13 DEF TakeDate, DailyTypes, AtTask
  <2>2. \A u \in Tasks : dated[u] <= dated'[u] /\ dated'[u] <= today
    BY <2>1 DEF DailyTypes
  <2>3. \A u \in Tasks : recorded'[u] <= dated[u]
    BY <1>13 DEF TakeDate, SpoiltIf, DailyTypes
  <2>4. /\ \A b \in Agents \ {a} : list'[b] = list[b]
        /\ list'[a].pc = "read" /\ list'[a].day = today /\ list'[a].task = t
    BY <1>13 DEF TakeDate, DailyTypes, Run
  <2>5. recordFile.is = "whole" => \A u \in Tasks : recordFile.data[u] <= dated'[u]
    BY <2>1, <2>2 DEF DailyTypes
  <2>6. \A b \in Agents : list[b].pc \in {"truncate", "write"}
          => \A u \in Tasks : list[b].data[u] <= dated'[u]
    BY <2>1, <2>2 DEF DailyTypes, Run
  <2>7. \A b \in Agents : list[b].pc \in Recording => list[b].day <= dated'[list[b].task]
    BY <2>1, <2>2 DEF DailyTypes, Run, AtTask
  <2>8. \A u \in Tasks : dated'[u] <= today' /\ recorded'[u] <= dated'[u]
    BY <2>1, <2>2, <2>3 DEF DailyTypes
  <2>9. list'[a].day <= dated'[list'[a].task]
    BY <2>1, <2>4 DEF DailyTypes
  <2> QED
    BY <2>1, <2>4, <2>5, <2>6, <2>7, <2>8, <2>9
<1>5. ASSUME NEW a \in Agents, ReadRecords(a) PROVE DaysHappened'
  BY <1>5 DEF DailyTypes, Run, AtTask, ReadRecords, Records
<1>6. ASSUME NEW a \in Agents, TruncateRecords(a) PROVE DaysHappened'
  BY <1>6 DEF DailyTypes, Run, AtTask, TruncateRecords
<1>7. ASSUME NEW a \in Agents, WriteRecords(a) PROVE DaysHappened'
  BY <1>7 DEF DailyTypes, Run, AtTask, WriteRecords, Continue
<1>8. ASSUME NEW a \in Agents, WriteRecordsFails(a) PROVE DaysHappened'
  BY <1>8 DEF DailyTypes, Run, AtTask, WriteRecordsFails, Continue, SpoiltIf, Remains
<1>9. ASSUME NEW a \in Agents, ListEnds(a) PROVE DaysHappened'
  BY <1>9 DEF DailyTypes, Run, AtTask, ListEnds, IdleList
<1>10. ASSUME NEW a \in Agents, KillAgent(a) PROVE DaysHappened'
  BY <1>10 DEF DailyTypes, Run, AtTask, KillAgent, SpoiltIf, Remains, IdleList
<1>11. ASSUME NextDay PROVE DaysHappened'
  BY <1>11 DEF DailyTypes, Run, AtTask, NextDay
<1>12. CASE UNCHANGED dailyVars
  BY <1>12 DEF dailyVars
<1> QED
  BY <1>1, <1>2, <1>3, <1>4, <1>5, <1>6, <1>7, <1>8, <1>9, <1>10, <1>11, <1>12, <1>13 DEF DailyNext

\* No step loses a record unless it spoils the file.
LEMMA RecordsKept ==
  DailyTypes /\ DailyTypes' /\ DaysHappened /\ NothingForgotten /\ [DailyNext]_dailyVars
    => NothingForgotten'
<1> SUFFICES ASSUME DailyTypes, DailyTypes', DaysHappened, NothingForgotten, [DailyNext]_dailyVars
             PROVE  NothingForgotten'
  OBVIOUS
<1> USE DEF NothingForgotten, Recording, Writing, Records
<1>1. ASSUME NEW a \in Agents, NEW params \in [Tasks -> Configs], ListBegin(a, params)
        PROVE NothingForgotten'
  <2>1. list[a].pc = "idle" /\ list'[a].pc = "next" /\ \A b \in Agents \ {a} : list'[b] = list[b]
    BY <1>1 DEF DailyTypes, Run, ListBegin
  <2>2. UNCHANGED <<recordFile, recorded, spoilt>>
    BY <1>1 DEF ListBegin
  <2> QED
    BY <2>1, <2>2
<1>2. ASSUME NEW a \in Agents, NEW t \in Tasks, ListSkip(a, t) PROVE NothingForgotten'
  <2>1. list[a].pc = "next" /\ list'[a].pc = "next" /\ \A b \in Agents \ {a} : list'[b] = list[b]
    BY <1>2 DEF DailyTypes, Run, ListSkip, HasExecutedToday
  <2>2. UNCHANGED <<recordFile, recorded, spoilt>>
    BY <1>2 DEF ListSkip
  <2> QED
    BY <2>1, <2>2
<1>3. ASSUME NEW a \in Agents, NEW t \in Tasks, StartTask(a, t) PROVE NothingForgotten'
  <2>1. list[a].pc = "next" /\ list'[a].pc = "run" /\ \A b \in Agents \ {a} : list'[b] = list[b]
    BY <1>3 DEF DailyTypes, Run, StartTask, HasExecutedToday
  <2>2. UNCHANGED <<recordFile, recorded, spoilt>>
    BY <1>3 DEF StartTask
  <2> QED
    BY <2>1, <2>2
<1>4. ASSUME NEW a \in Agents, RunEnds(a) PROVE NothingForgotten'
  <2>1. /\ list[a].pc = "run" /\ list'[a].pc \in {"date", "next"}
        /\ \A b \in Agents \ {a} : list'[b] = list[b]
    BY <1>4 DEF RunEnds, Continue, DailyTypes, Run
  <2>2. UNCHANGED <<recordFile, recorded, spoilt>>
    BY <1>4 DEF RunEnds
  <2> QED
    BY <2>1, <2>2
<1>13. ASSUME NEW a \in Agents, TakeDate(a) PROVE NothingForgotten'
  <2> DEFINE t == list[a].task
  <2>1. /\ list[a].pc = "date" /\ recordFile' = recordFile
        /\ \A b \in Agents \ {a} : list'[b] = list[b]
        /\ list'[a].pc = "read" /\ list'[a].day = today /\ list'[a].task = t
        /\ spoilt' = (spoilt \/ Overlap(a))
        /\ recorded' = IF Overlap(a) THEN NoRecords ELSE recorded
    BY <1>13 DEF TakeDate, SpoiltIf, DailyTypes, Run
  <2>2. CASE spoilt \/ Overlap(a)
    BY <2>1, <2>2
  <2>3. CASE ~spoilt /\ ~Overlap(a)
    <3>1. recorded' = recorded /\ \A b \in Agents \ {a} : list[b].pc \notin Recording
      BY <2>1, <2>3 DEF Overlap
    <3>2. recorded[t] <= today
      BY <1>13 DEF TakeDate, DailyTypes, AtTask, Days, DaysHappened
    <3> QED
      BY <2>1, <2>3, <3>1, <3>2
  <2> QED
    BY <2>2, <2>3
<1>5. ASSUME NEW a \in Agents, ReadRecords(a) PROVE NothingForgotten'
  <2> DEFINE t == list[a].task
  <2>1. /\ list[a].pc = "read" /\ list'[a].pc = "truncate" /\ list'[a].task = t
             /\ list'[a].day = list[a].day
        /\ list'[a].data = [Records EXCEPT ![t] = list[a].day]
             /\ \A b \in Agents \ {a} : list'[b] = list[b]
    BY <1>5 DEF ReadRecords, DailyTypes, Run
  <2>2. UNCHANGED <<recordFile, recorded, spoilt>>
    BY <1>5 DEF ReadRecords
  <2>3. t \in Tasks /\ Records \in [Tasks -> 0..MaxDay]
    BY <2>1, RecordsType DEF DailyTypes, AtTask
  <2>4. ~spoilt => \A u \in Tasks : list'[a].data[u] >= recorded[u]
    BY <2>1, <2>3 DEF DailyTypes, Run
  <2>5. list'[a].data[t] = list[a].day
    BY <2>1, <2>3
  <2>6. ~spoilt => \A b \in Agents \ {a} : list'[b].pc \notin Recording
    BY <2>1
  <2>7. Writing' => \E b \in Agents : list[b].pc = "write"
    BY <2>1
  <2>8. ~spoilt /\ ~Writing' => \A u \in Tasks : Records[u] >= recorded[u]
    BY <2>1
  <2> QED
    BY <2>1, <2>2, <2>4, <2>5, <2>6, <2>8
<1>6. ASSUME NEW a \in Agents, TruncateRecords(a) PROVE NothingForgotten'
  <2>1. list[a].pc = "truncate" /\ list' = [list EXCEPT ![a].pc = "write"]
    BY <1>6 DEF TruncateRecords
  <2>2. /\ list'[a].pc = "write" /\ \A b \in Agents \ {a} : list'[b] = list[b]
        /\ list'[a].task = list[a].task /\ list'[a].day = list[a].day
             /\ list'[a].data = list[a].data
    BY <2>1 DEF DailyTypes, Run
  <2>3. UNCHANGED <<recorded, spoilt>>
    BY <1>6 DEF TruncateRecords
  <2> QED
    BY <2>1, <2>2, <2>3
<1>7. ASSUME NEW a \in Agents, WriteRecords(a) PROVE NothingForgotten'
  <2> DEFINE t == list[a].task
  <2>1. list[a].pc = "write" /\ list'[a].pc = "next" /\ \A b \in Agents \ {a} : list'[b] = list[b]
    BY <1>7 DEF WriteRecords, Continue, DailyTypes
  <2>2. /\ recordFile' = [is |-> "whole", data |-> list[a].data] /\ spoilt' = spoilt
        /\ recorded' = IF spoilt THEN recorded ELSE [recorded EXCEPT ![t] = list[a].day]
    BY <1>7 DEF WriteRecords
  <2>3. ASSUME ~spoilt PROVE \A u \in Tasks : Records'[u] >= recorded'[u]
    <3>1. Records' = list[a].data /\ recorded' = [recorded EXCEPT ![t] = list[a].day]
      BY <2>2, <2>3
    <3>2. list[a].data[t] = list[a].day /\ \A u \in Tasks : list[a].data[u] >= recorded[u]
      BY <2>1, <2>3
    <3> QED
      BY <3>1, <3>2 DEF DailyTypes, Run
  <2>4. ~spoilt => \A b \in Agents \ {a} : list[b].pc \notin Recording
    BY <2>1
  <2> QED
    BY <2>1, <2>2, <2>3, <2>4
<1>8. ASSUME NEW a \in Agents, WriteRecordsFails(a) PROVE NothingForgotten'
  <2>1. list'[a].pc \notin Recording /\ \A b \in Agents \ {a} : list'[b] = list[b]
    BY <1>8 DEF WriteRecordsFails, Continue, DailyTypes
  <2>2. CASE list[a].pc = "write"
    BY <1>8, <2>2 DEF WriteRecordsFails, SpoiltIf
  <2>3. CASE list[a].pc # "write"
    <3>1. recordFile' = recordFile /\ recorded' = recorded /\ (spoilt' <=> spoilt)
      BY <1>8, <2>3 DEF WriteRecordsFails, SpoiltIf, Remains
    <3> QED
      BY <2>1, <2>3, <3>1
  <2> QED
    BY <2>2, <2>3
<1>9. ASSUME NEW a \in Agents, ListEnds(a) PROVE NothingForgotten'
  <2>1. list[a].pc = "next" /\ list'[a].pc = "idle" /\ \A b \in Agents \ {a} : list'[b] = list[b]
    BY <1>9 DEF DailyTypes, Run, ListEnds, IdleList
  <2>2. UNCHANGED <<recordFile, recorded, spoilt>>
    BY <1>9 DEF ListEnds
  <2> QED
    BY <2>1, <2>2
<1>10. ASSUME NEW a \in Agents, KillAgent(a) PROVE NothingForgotten'
  <2>1. list'[a].pc \notin Recording /\ \A b \in Agents \ {a} : list'[b] = list[b]
    BY <1>10 DEF KillAgent, IdleList, DailyTypes
  <2>2. CASE list[a].pc = "write"
    BY <1>10, <2>2 DEF KillAgent, SpoiltIf
  <2>3. CASE list[a].pc # "write"
    <3>1. recordFile' = recordFile /\ recorded' = recorded /\ (spoilt' <=> spoilt)
      BY <1>10, <2>3 DEF KillAgent, SpoiltIf, Remains
    <3> QED
      BY <2>1, <2>3, <3>1
  <2> QED
    BY <2>2, <2>3
<1>11. ASSUME NextDay PROVE NothingForgotten'
  BY <1>11 DEF NextDay
<1>12. CASE UNCHANGED dailyVars
  BY <1>12 DEF dailyVars
<1> QED
  BY <1>1, <1>2, <1>3, <1>4, <1>5, <1>6, <1>7, <1>8, <1>9, <1>10, <1>11, <1>12, <1>13 DEF DailyNext

\* A daily task is left out only on a day that RecordExecution gave to a run of it that
\* had ended, and a record that was written undisturbed stays until a later day replaces
\* it, for any number of agents, tasks and days (task_list, daily_task_tracker).
THEOREM RecordsHonest == Spec => []DailyRecordsHonest
<1>1. Init => DailyInv
  BY DailyStart DEF Init
<1>2. DailyInv /\ [Next]_vars => DailyInv'
  BY DailySteps, DailyTypesKept, DaysKept, RecordsKept DEF DailyInv
<1>3. DailyInv => DailyRecordsHonest
  <2> SUFFICES ASSUME DailyInv PROVE DailyRecordsHonest
    OBVIOUS
  <2>1. ASSUME NEW t \in Tasks, HasExecutedToday(t) PROVE dated[t] = today
    <3>1. recordFile.is = "whole" /\ recordFile.data[t] = today /\ today # Never
      BY <2>1 DEF HasExecutedToday, Records, NoRecords, Never, DailyInv, DailyTypes, Days
    <3> QED
      BY <3>1 DEF DailyInv, DailyTypes, DaysHappened, Days
  <2> QED
    BY <2>1 DEF DailyInv, NothingForgotten, DailyRecordsHonest
<1> QED
  BY <1>1, <1>2, <1>3, PTL DEF Spec

-----------------------------------------------------------------------------
(* The store of values                                                      *)

\* An agent's write of a key.
Writers ==
  [pc : {"idle", "truncate", "write"}, data : [Keys -> Values], key : Keys \cup {Blank},
    value : Params]

ConfigTypes ==
  /\ storeFile \in [is : Conditions, data : [Keys -> Values]]
  /\ writer \in [Agents -> Writers]
  /\ \A a \in Agents : writer[a].pc # "idle" => writer[a].key \in Keys
  /\ promised \in [Keys -> Values]

\* What an agent is about to write: what was promised, and its own value.
Adds(w) == w.data = [promised EXCEPT ![w.key] = ResolveWriteValue(promised[w.key], w.value)]

\* As long as no write was cut short or met another, one agent writes at a time, the
\* file says what was promised, except between its truncation and its writing, and
\* a write in progress adds its own value to that.
WritersKeep ==
  ~damaged =>
    /\ Loads
    /\ \A a, b \in Agents : writer[a].pc # "idle" /\ writer[b].pc # "idle" => a = b
    /\ (\A a \in Agents : writer[a].pc # "write") => Store = promised
    /\ \A a \in Agents : writer[a].pc # "idle" => Adds(writer[a])

ConfigInv == ConfigTypes /\ WritersKeep

\* Constants stand for values of their sorts.
LEMMA ValueFacts ==
  /\ Blank \in Values /\ Blank \in Params /\ NoValues \in [Keys -> Values] /\ 0 \in Numbers
  /\ ~IsNumber(Text) /\ ~IsNumber(Blank) /\ Text # Blank
  /\ \A n \in Numbers : IsNumber(n)
BY ConfigAssumption DEF Values, Params, NoValues, Numbers, IsNumber

\* The first state has no values and no writers.
LEMMA ConfigStart == ConfigInit => ConfigInv
<1> SUFFICES ASSUME ConfigInit PROVE ConfigInv
  OBVIOUS
<1>1. IdleWriter \in Writers /\ IdleWriter.pc = "idle"
  BY ValueFacts DEF IdleWriter, Writers
<1>2. ConfigTypes
  BY <1>1, ValueFacts DEF ConfigInit, ConfigTypes, Conditions
<1>3. WritersKeep
  BY <1>1 DEF ConfigInit, WritersKeep, Loads, Store
<1> QED
  BY <1>2, <1>3 DEF ConfigInv

\* What an agent reads is a value of every key.
LEMMA StoreType == ConfigTypes => Store \in [Keys -> Values]
BY ValueFacts DEF ConfigTypes, Store

\* A write of an agent begins.
LEMMA BeginKeeps ==
  ASSUME ConfigInv, NEW a \in Agents, NEW k \in Keys, NEW v \in Params, WriteBegin(a, k, v)
  PROVE  ConfigInv'
<1> DEFINE r == ResolveWriteValue(Store[k], v)
           w == [pc |-> "truncate", key |-> k, value |-> v, data |-> [Store EXCEPT ![k] = r]]
<1>1. /\ writer' = [writer EXCEPT ![a] = w] /\ UNCHANGED <<storeFile, promised>>
      /\ damaged' = (damaged \/ Overlapping(a)) /\ Loads /\ r \in Values /\ writer[a].pc = "idle"
  BY DEF WriteBegin
<1>2. w \in Writers
  BY <1>1, StoreType DEF ConfigInv, Writers
<1>3. ConfigTypes'
  <2>1. writer' \in [Agents -> Writers]
    BY <1>1, <1>2 DEF ConfigInv, ConfigTypes
  <2>2. \A b \in Agents : writer'[b].pc # "idle" => writer'[b].key \in Keys
    BY <1>1, <2>1 DEF ConfigInv, ConfigTypes
  <2> QED
    BY <1>1, <2>1, <2>2 DEF ConfigInv, ConfigTypes
<1>4. ASSUME ~damaged' PROVE WritersKeep'
  <2>1. ~damaged /\ \A b \in Agents \ {a} : writer[b].pc = "idle"
    BY <1>1, <1>4 DEF Overlapping
  <2>2. writer'[a] = w /\ \A b \in Agents \ {a} : writer'[b] = writer[b]
    BY <1>1 DEF ConfigInv, ConfigTypes
  <2>3. Store = promised
    BY <1>1, <2>1 DEF ConfigInv, WritersKeep
  <2>4. w.data = [promised EXCEPT ![k] = ResolveWriteValue(promised[k], v)] /\ w.key = k /\
     w.value = v
    BY <2>3
  <2>5. w.data = [promised EXCEPT ![w.key] = ResolveWriteValue(promised[w.key], w.value)]
    BY <2>4
  <2> HIDE DEF w
  <2>6. Adds(writer[a])'
    BY <1>1, <2>2, <2>5 DEF Adds
  <2> QED
    BY <1>1, <2>1, <2>2, <2>3, <2>6 DEF WritersKeep, Loads, Store
<1>5. WritersKeep'
  BY <1>4 DEF WritersKeep
<1> QED
  BY <1>3, <1>5 DEF ConfigInv

\* The store is truncated.
LEMMA TruncateKeeps == ASSUME ConfigInv, NEW a \in Agents, TruncateStore(a) PROVE ConfigInv'
<1>1. /\ writer[a].pc = "truncate" /\ storeFile' = [is |-> "empty", data |-> NoValues]
      /\ writer' = [writer EXCEPT ![a].pc = "write"] /\ UNCHANGED <<promised, damaged>>
  BY DEF TruncateStore
<1>2. [writer[a] EXCEPT !.pc = "write"] \in Writers
  BY DEF ConfigInv, ConfigTypes, Writers
<1>3. writer' \in [Agents -> Writers]
  BY <1>1, <1>2 DEF ConfigInv, ConfigTypes
<1>4. /\ writer'[a].pc = "write" /\ writer'[a].key = writer[a].key
      /\ writer'[a].value = writer[a].value /\ writer'[a].data = writer[a].data
      /\ \A b \in Agents \ {a} : writer'[b] = writer[b]
  BY <1>1 DEF ConfigInv, ConfigTypes, Writers
<1>5. ConfigTypes'
  BY <1>1, <1>3, <1>4, ValueFacts DEF ConfigInv, ConfigTypes, Conditions
<1>6. WritersKeep'
  BY <1>1, <1>4 DEF ConfigInv, WritersKeep, Loads, Adds
<1> QED
  BY <1>5, <1>6 DEF ConfigInv

\* A write is answered.
LEMMA DoneKeeps == ASSUME ConfigInv, NEW a \in Agents, WriteDone(a) PROVE ConfigInv'
<1> DEFINE k == writer[a].key
           r == ResolveWriteValue(promised[k], writer[a].value)
<1>1. /\ writer[a].pc = "write" /\ storeFile' = [is |-> "whole", data |-> writer[a].data]
      /\ writer' = [writer EXCEPT ![a] = IdleWriter] /\ damaged' = damaged
      /\ promised' = IF damaged THEN promised ELSE [promised EXCEPT ![k] = r]
  BY DEF WriteDone
<1>2. IdleWriter \in Writers /\ IdleWriter.pc = "idle"
  BY ValueFacts DEF IdleWriter, Writers
<1>3. writer' \in [Agents -> Writers] /\ writer'[a] = IdleWriter /\ \A b \in Agents \ {a} :
   writer'[b] = writer[b]
  BY <1>1, <1>2 DEF ConfigInv, ConfigTypes
<1>4. writer[a].data \in [Keys -> Values]
  BY DEF ConfigInv, ConfigTypes, Writers
<1>5. ASSUME ~damaged
        PROVE promised' = writer[a].data /\ \A b \in Agents \ {a} : writer[b].pc = "idle"
  BY <1>1, <1>5 DEF ConfigInv, WritersKeep, Adds
<1>6. promised' \in [Keys -> Values]
  BY <1>1, <1>4, <1>5 DEF ConfigInv, ConfigTypes
<1>7. ConfigTypes'
  BY <1>1, <1>2, <1>3, <1>4, <1>6 DEF ConfigInv, ConfigTypes, Conditions
<1>8. WritersKeep'
  BY <1>1, <1>2, <1>3, <1>5 DEF WritersKeep, Loads, Store
<1> QED
  BY <1>7, <1>8 DEF ConfigInv

\* A write fails, or its agent is killed.
LEMMA CutKeeps == ASSUME ConfigInv, NEW a \in Agents, WriteCut(a) PROVE ConfigInv'
<1>1. /\ writer[a].pc # "idle" /\ storeFile' \in Remains(storeFile, writer[a].pc = "write")
      /\ damaged' = (damaged \/ writer[a].pc = "write")
      /\ writer' = [writer EXCEPT ![a] = IdleWriter] /\ promised' = promised
  BY DEF WriteCut
<1>2. IdleWriter \in Writers /\ IdleWriter.pc = "idle"
  BY ValueFacts DEF IdleWriter, Writers
<1>3. writer' \in [Agents -> Writers] /\ writer'[a] = IdleWriter /\ \A b \in Agents \ {a} :
   writer'[b] = writer[b]
  BY <1>1, <1>2 DEF ConfigInv, ConfigTypes
<1>4. storeFile' \in [is : Conditions, data : [Keys -> Values]]
  BY <1>1 DEF ConfigInv, ConfigTypes, Remains, Conditions
<1>5. ConfigTypes'
  BY <1>1, <1>2, <1>3, <1>4 DEF ConfigInv, ConfigTypes
<1>6. ASSUME ~damaged' PROVE storeFile' = storeFile /\ ~damaged /\ writer[a].pc # "write"
  BY <1>1, <1>6 DEF Remains
<1>7. ASSUME ~damaged' PROVE \A b \in Agents \ {a} : writer[b].pc = "idle"
  BY <1>1, <1>6, <1>7 DEF ConfigInv, WritersKeep
<1>8. WritersKeep'
  BY <1>1, <1>2, <1>3, <1>6, <1>7 DEF ConfigInv, WritersKeep, Loads, Store
<1> QED
  BY <1>5, <1>8 DEF ConfigInv

\* A check of a promised value answers by it.
LEMMA CheckAnswers ==
  ASSUME ConfigTypes, Loads, Store = promised, NEW k \in Keys, NEW target \in Numbers
  PROVE  LET current == IF promised[k] = Blank THEN 0 ELSE promised[k] IN
         {c \in {"<", "==", ">"} : ConfigValueCheck(k, target, c)} =
           IF current = Text THEN {}
           ELSE {IF target > current THEN "<" ELSE IF target = current THEN "==" ELSE ">"}
<1> DEFINE current == IF promised[k] = Blank THEN 0 ELSE promised[k]
<1>1. current \in Numbers \cup {Text} /\ target \in Int /\ Numbers \subseteq Int
  BY ValueFacts DEF ConfigTypes, Values, Numbers
<1>2. \A c \in {"<", "==", ">"} :
        ConfigValueCheck(k, target, c) <=> IsNumber(current) /\ CompareNumbers(current, target, c)
  BY <1>1 DEF ConfigValueCheck, IsNumber
<1> HIDE DEF current
<1>3. CASE current = Text
  BY <1>2, <1>3, ValueFacts DEF current
<1>4. CASE current # Text
  <2>1. current \in Int /\ IsNumber(current)
    BY <1>1, <1>4 DEF IsNumber
  <2>2. \A c \in {"<", "==", ">"} : ConfigValueCheck(k, target, c) <=>
          c = IF target > current THEN "<" ELSE IF target = current THEN "==" ELSE ">"
    BY <1>1, <1>2, <2>1 DEF CompareNumbers
  <2> QED
    BY <1>4, <2>2 DEF current
<1> QED
  BY <1>3, <1>4

\* Between writes the store says what the answered writes add up to, and a check answers
\* by it, for any number of agents, keys and numbers (config_value_recognition).
THEOREM AcknowledgedKept == Spec => []ConfigKeepsAcknowledged
<1>1. Init => ConfigInv
  BY ConfigStart DEF Init
<1>2. ConfigInv /\ [Next]_vars => ConfigInv'
  <2> SUFFICES ASSUME ConfigInv, [ConfigNext]_configVars PROVE ConfigInv'
    BY ConfigSteps
  <2>1. CASE UNCHANGED configVars
    BY <2>1 DEF configVars, ConfigInv, ConfigTypes, WritersKeep, Loads, Store, Adds
  <2>2. CASE ConfigNext
    BY <2>2, BeginKeeps, TruncateKeeps, DoneKeeps, CutKeeps DEF ConfigNext, SaveStoreFails,
       KillWriter
  <2> QED
    BY <2>1, <2>2
<1>3. ASSUME ConfigInv PROVE ConfigKeepsAcknowledged
  <2> SUFFICES ASSUME ~damaged, \A a \in Agents : writer[a].pc # "write", NEW k \in Keys
               PROVE  LET current == IF promised[k] = Blank THEN 0 ELSE promised[k] IN
                      /\ Store[k] = promised[k]
                      /\ \A target \in Numbers :
                           {c \in {"<", "==", ">"} : ConfigValueCheck(k, target, c)} =
                             IF current = Text THEN {}
                             ELSE {IF target > current THEN "<"
                               ELSE IF target = current THEN "==" ELSE ">"}
    BY DEF ConfigKeepsAcknowledged
  <2>1. Loads /\ Store = promised
    BY <1>3 DEF ConfigInv, WritersKeep
  <2> QED
    BY <1>3, <2>1, CheckAnswers DEF ConfigInv
<1> QED
  BY <1>1, <1>2, <1>3, PTL DEF Spec

-----------------------------------------------------------------------------
(* Two agents that find each other                                          *)

Greetings == {"ID", "hello", "you too"}
Messages == [from : Builders, text : Greetings]

\* A run of the action.
PairRuns ==
  [pc : {"idle", "dial", "listen", "self", "greet", "wait"}, runs : 0..MaxRuns, server : BOOLEAN,
   inbox : Seq(Messages), heard : Builders \cup {Nobody}]

PairTypes ==
  /\ listener \in Builders \cup {Nobody}
  /\ conn \in [Builders -> [1..MaxRuns -> Connections]]
  /\ builder \in [Builders -> PairRuns]

\* A connection that was not made carries nothing, and none is made before anyone listens.
Unmade(c) == c.to = Nobody => ~c.served /\ c.sent = <<>>
ConnectionFits(p, r) == Unmade(conn[p][r]) /\ (listener = Nobody => conn[p][r].to = Nobody)

\* q connected to p in one of its runs, or closed a connection since.
Reached(q, p) == \E r \in 1..MaxRuns : conn[q][r].to = p \/ conn[q][r].closed

\* Messages come from who is or was connected.
MessagesFit(p) ==
  LET b == builder[p] IN
  /\ \A i \in 1..Len(b.inbox) : Reached(b.inbox[i].from, p)
  /\ b.heard # Nobody => Reached(b.heard, p)
  /\ listener = Nobody => b.inbox = <<>>

\* What a server sends itself is no message.
Greeted(c) == \/ ~c.served /\ c.sent = <<"ID">>
              \/ c.served /\ c.sent = <<>>
Silent(p) ==
  LET b == builder[p] IN
  /\ \A i \in 1..Len(b.inbox) : b.inbox[i].from # p
  /\ \A r \in 1..MaxRuns : conn[p][r].to # Nobody
       => r = b.runs /\ b.pc = "wait" /\ Greeted(conn[p][r])

\* A run's connection exists from its dialling on, and a run that listens hears
\* nothing from itself.
RunFits(p) ==
  LET b == builder[p] IN
  /\ b.pc # "idle" => b.runs \in 1..MaxRuns /\ b.heard = Nobody
  /\ b.pc \in {"dial", "listen", "self"} => conn[p][b.runs] = NoConnection
  /\ b.pc \in {"greet", "wait"} => conn[p][b.runs].to # Nobody /\ ~conn[p][b.runs].closed
  /\ \A r \in 1..MaxRuns : r > b.runs => conn[p][r] = NoConnection
  /\ b.pc \in {"dial", "listen", "greet"} => ~b.server
  /\ b.server /\ b.pc \in {"self", "wait"} => Silent(p)
  /\ b.server => b.heard # p

PairInv ==
  /\ PairTypes
  /\ \A p \in Builders : RunFits(p) /\ MessagesFit(p)
  /\ \A p \in Builders, r \in 1..MaxRuns : ConnectionFits(p, r)

\* What is put on a sequence or taken off it.
LEMMA PartsOfSequences ==
  ASSUME NEW S, NEW s \in Seq(S)
  PROVE  /\ \A e \in S : Append(s, e) \in Seq(S)
         /\ s # <<>> => Head(s) \in S /\ Tail(s) \in Seq(S)
         /\ \A n \in 1..Len(s) : SubSeq(s, n + 1, Len(s)) \in Seq(S)
<1>1. s # <<>> => Head(s) \in S /\ Tail(s) \in Seq(S)
  OBVIOUS
<1>2. ASSUME NEW n \in 1..Len(s) PROVE SubSeq(s, n + 1, Len(s)) \in Seq(S)
  <2>1. Len(s) \in Nat /\ \A i \in 1..Len(s) : s[i] \in S
    OBVIOUS
  <2> QED
    BY <2>1
<1>3. \A e \in S : Append(s, e) \in Seq(S)
  OBVIOUS
<1> QED
  BY <1>1, <1>2, <1>3

\* A connection is a record of its four parts.
LEMMA ConnectionParts ==
  ASSUME NEW c \in Connections
  PROVE  /\ c.to \in Builders \cup {Nobody} /\ c.sent \in Seq(Greetings)
         /\ c.closed \in BOOLEAN /\ c.served \in BOOLEAN
         /\ \A s \in Seq(Greetings) :
              LET d == [c EXCEPT !.sent = s] IN
              d \in Connections /\ d.to = c.to /\ d.sent = s /\ d.closed = c.closed
                /\ d.served = c.served
         /\ LET d == [c EXCEPT !.closed = TRUE] IN
            d \in Connections /\ d.to = c.to /\ d.sent = c.sent /\ d.closed /\ d.served = c.served
BY DEF Connections, Greetings

\* And a run of its five.
LEMMA RunParts ==
  ASSUME NEW b \in PairRuns
  PROVE  /\ b.pc \in {"idle", "dial", "listen", "self", "greet", "wait"} /\ b.runs \in 0..MaxRuns
         /\ b.server \in BOOLEAN /\ b.inbox \in Seq(Messages)
              /\ b.heard \in Builders \cup {Nobody}
BY DEF PairRuns

\* No connection, and the connection of a run that has dialled.
LEMMA NewConnections ==
  /\ NoConnection \in Connections /\ NoConnection.to = Nobody /\ NoConnection.sent = <<>>
  /\ ~NoConnection.closed /\ ~NoConnection.served
  /\ \A q \in Builders :
       LET d == [NoConnection EXCEPT !.to = q, !.sent = <<"ID">>] IN
       d \in Connections /\ d.to = q /\ d.sent = <<"ID">> /\ ~d.closed /\ ~d.served
<1>1. <<>> \in Seq({"ID", "hello", "you too"}) /\ <<"ID">> \in Seq({"ID", "hello", "you too"})
  OBVIOUS
<1> QED
  BY <1>1 DEF NoConnection, Connections

\* The first state has no connections.
LEMMA PairStart == PairingInit => PairInv
<1> SUFFICES ASSUME PairingInit PROVE PairInv
  OBVIOUS
<1>1. /\ IdleBuilder(0) \in PairRuns /\ IdleBuilder(0).pc = "idle" /\ ~IdleBuilder(0).server
      /\ IdleBuilder(0).inbox = <<>> /\ IdleBuilder(0).heard = Nobody
  BY PairingAssumption DEF IdleBuilder, PairRuns
<1>2. \A p \in Builders : builder[p] = IdleBuilder(0) /\ \A r \in 1..MaxRuns : conn[p][r] =
   NoConnection
  BY DEF PairingInit
<1>3. PairTypes
  BY <1>1, NewConnections DEF PairingInit, PairTypes
<1>4. ASSUME NEW p \in Builders PROVE RunFits(p) /\ MessagesFit(p)
  BY <1>1, <1>2 DEF RunFits, MessagesFit
<1>5. ASSUME NEW p \in Builders, NEW r \in 1..MaxRuns PROVE ConnectionFits(p, r)
  BY <1>2, NewConnections DEF ConnectionFits, Unmade
<1> QED
  BY <1>3, <1>4, <1>5 DEF PairInv

\* What was reached stays so.
Keeps(c, d) ==
  /\ c.to # Nobody => d.to = c.to \/ d.closed
  /\ c.closed => d.closed

\* What a step changes: one connection at most, and one run.
OnlyConnection(p, r, c) ==
  /\ conn' \in [Builders -> [1..MaxRuns -> Connections]] /\ conn'[p][r] = c
  /\ \A s \in Builders, u \in 1..MaxRuns : s # p \/ u # r => conn'[s][u] = conn[s][u]
OnlyRun(q, b) ==
  /\ builder' \in [Builders -> PairRuns] /\ builder'[q] = b
  /\ \A s \in Builders : s # q => builder'[s] = builder[s]
Listens ==
  listener' \in Builders \cup {Nobody} /\ (listener # Nobody => listener' # Nobody)

\* The messages of q's run b come from who is connected, p by its connection c among them.
HearsFrom(p, q, c, b) ==
  /\ \A i \in 1..Len(b.inbox) : (b.inbox[i].from = p /\ c.to = q) \/ Reached(b.inbox[i].from, q)
  /\ b.heard # Nobody => Reached(b.heard, q)

\* A step that changes one connection and one run has to be looked at there only.
LEMMA PairStep ==
  ASSUME PairInv, NEW p \in Builders, NEW r \in 1..MaxRuns, NEW c \in Connections,
         NEW q \in Builders, NEW b \in PairRuns,
         OnlyConnection(p, r, c), OnlyRun(q, b), Listens, Keeps(conn[p][r], c), Unmade(c),
         listener' = Nobody => c.to = Nobody /\ b.inbox = <<>>,
         RunFits(p)', RunFits(q)', HearsFrom(p, q, c, b)
  PROVE  PairInv'
<1>1. /\ conn' \in [Builders -> [1..MaxRuns -> Connections]] /\ conn'[p][r] = c
      /\ \A s \in Builders, u \in 1..MaxRuns : s # p \/ u # r => conn'[s][u] = conn[s][u]
  BY DEF OnlyConnection
<1>2. /\ builder' \in [Builders -> PairRuns] /\ builder'[q] = b
      /\ \A s \in Builders : s # q => builder'[s] = builder[s]
  BY DEF OnlyRun
<1>3. PairTypes'
  BY <1>1, <1>2 DEF PairTypes, Listens
<1>4. ASSUME NEW s \in Builders, NEW u \in 1..MaxRuns PROVE ConnectionFits(s, u)'
  BY <1>1 DEF PairInv, ConnectionFits, Listens
<1>5. ASSUME NEW s \in Builders, NEW u \in Builders, Reached(s, u) PROVE Reached(s, u)'
  <2>1. PICK v \in 1..MaxRuns : conn[s][v].to = u \/ conn[s][v].closed
    BY <1>5 DEF Reached
  <2>2. conn'[s][v].to = u \/ conn'[s][v].closed
    BY <1>1, <1>5, <2>1, PairingAssumption DEF Keeps
  <2> QED
    BY <2>2 DEF Reached
<1>6. ASSUME NEW s \in Builders PROVE RunFits(s)'
  <2>1. CASE s = p \/ s = q
    BY <2>1
  <2>2. CASE s # p /\ s # q
    <3>1. builder'[s] = builder[s] /\ \A u \in 1..MaxRuns : conn'[s][u] = conn[s][u]
      BY <1>1, <1>2, <2>2
    <3>2. builder[s] \in PairRuns
      BY DEF PairInv, PairTypes
    <3>3. RunFits(s)
      BY DEF PairInv
    <3>4. conn'[s][builder'[s].runs] = conn[s][builder[s].runs] \/ builder[s].pc = "idle"
      BY <3>1, <3>3 DEF RunFits
    <3>5. Silent(s) => Silent(s)'
      BY <3>1 DEF Silent
    <3> QED
      BY <3>1, <3>3, <3>4, <3>5 DEF RunFits
  <2> QED
    BY <2>1, <2>2
<1>7. ASSUME NEW s \in Builders PROVE MessagesFit(s)'
  <2>1. CASE s = q
    <3>1. ASSUME NEW i \in 1..Len(b.inbox) PROVE Reached(b.inbox[i].from, q)'
      <4>0. b.inbox \in Seq(Messages)
        BY RunParts
      <4>1. b.inbox[i] \in Messages
        BY <4>0
      <4>3. b.inbox[i].from \in Builders
        BY <4>1 DEF Messages
      <4>2. CASE b.inbox[i].from = p /\ c.to = q
        BY <1>1, <4>2 DEF Reached
      <4> QED
        BY <1>5, <4>3, <4>2 DEF HearsFrom
    <3>2. b.heard # Nobody => Reached(b.heard, q)'
      BY <1>5, RunParts DEF HearsFrom
    <3> QED
      BY <1>2, <2>1, <3>1, <3>2 DEF MessagesFit, Reached, Listens
  <2>2. CASE s # q
    <3>1. builder'[s] = builder[s] /\ builder[s] \in PairRuns
      BY <1>2, <2>2 DEF PairInv, PairTypes
    <3>2. MessagesFit(s)
      BY DEF PairInv
    <3>3. ASSUME NEW i \in 1..Len(builder[s].inbox) PROVE Reached(builder[s].inbox[i].from, s)'
      <4>0. builder[s].inbox \in Seq(Messages)
        BY <3>1, RunParts
      <4>1. builder[s].inbox[i] \in Messages
        BY <4>0
      <4>3. builder[s].inbox[i].from \in Builders
        BY <4>1 DEF Messages
      <4>2. Reached(builder[s].inbox[i].from, s)
        BY <3>2 DEF MessagesFit
      <4> QED
        BY <1>5, <3>1, <4>2, <4>3
    <3>4. builder[s].heard # Nobody => Reached(builder[s].heard, s)'
      BY <1>5, <3>1, <3>2, RunParts DEF MessagesFit
    <3> QED
      BY <3>1, <3>2, <3>3, <3>4 DEF MessagesFit, Reached, Listens
  <2> QED
    BY <2>1, <2>2
<1> QED
  BY <1>3, <1>4, <1>6, <1>7 DEF PairInv

\* A run begins: the connection of the run before is closed.
LEMMA RunBeginFits ==
  ASSUME PairInv, NEW p \in Builders, RunBegin(p)
  PROVE  PairInv'
<1> DEFINE at == IF builder[p].runs > 0 THEN builder[p].runs ELSE 1
           made == IF builder[p].runs > 0 THEN [conn[p][at] EXCEPT !.closed = TRUE]
             ELSE conn[p][at]
           turn == [IdleBuilder(builder[p].runs + 1) EXCEPT !.pc = "dial"]
<1>1. /\ PairTypes /\ builder[p] \in PairRuns /\ RunFits(p) /\ MessagesFit(p)
      /\ \A r \in 1..MaxRuns : conn[p][r] \in Connections /\ ConnectionFits(p, r)
  BY DEF PairInv, PairTypes
<1>2. /\ at \in 1..MaxRuns
      /\ builder[p].pc = "idle" /\ builder[p].runs < MaxRuns /\ builder[p].runs \in Nat
           /\ at \in {builder[p].runs, builder[p].runs + 1}
  BY <1>1, RunParts, PairingAssumption DEF RunFits, ConnectionFits, Unmade, At, RunBegin,
     IdleBuilder
<1>3. /\ made \in Connections
      /\ made.to = conn[p][at].to /\ made.sent = conn[p][at].sent
           /\ made.served = conn[p][at].served
      /\ (conn[p][at].closed => made.closed) /\ (at = builder[p].runs + 1 => made = conn[p][at])
  <2>1. conn[p][at] \in Connections
    BY <1>1, <1>2
  <2>2. CASE builder[p].runs > 0
    <3>1. at # builder[p].runs + 1 /\ made = [conn[p][at] EXCEPT !.closed = TRUE]
      BY <1>2, <2>2
    <3> HIDE DEF at, made
    <3> QED
      BY <2>1, <3>1, ConnectionParts
  <2>3. CASE ~(builder[p].runs > 0)
    BY <1>2, <2>1, <2>3
  <2> QED
    BY <2>2, <2>3
<1>4. /\ turn \in PairRuns
      /\ turn.pc = "dial" /\ turn.runs = builder[p].runs + 1 /\ turn.server = FALSE
           /\ turn.inbox = <<>> /\ turn.heard = Nobody
  <2>1. builder[p].runs + 1 \in 0..MaxRuns /\ <<>> \in Seq(Messages)
    BY <1>2, PairingAssumption
  <2> QED
    BY <2>1 DEF PairRuns, IdleBuilder
<1>5. OnlyConnection(p, at, made)
  <2>1. CASE builder[p].runs > 0
    <3>1. (builder[p].runs + 1) - 1 = builder[p].runs /\ builder[p].runs + 1 > 1
      BY <1>2, <2>1
    <3>2. conn' = [conn EXCEPT ![p][builder[p].runs].closed = TRUE]
      BY <3>1 DEF RunBegin
    <3> QED
      BY <1>1, <1>2, <1>3, <2>1, <3>2 DEF PairTypes, OnlyConnection
  <2>2. CASE ~(builder[p].runs > 0)
    BY <1>1, <1>2, <1>3, <2>2 DEF PairTypes, OnlyConnection, RunBegin
  <2> QED
    BY <2>1, <2>2
<1>6. OnlyRun(p, turn)
  BY <1>1, <1>4 DEF PairTypes, PairRuns, OnlyRun, RunBegin, IdleBuilder
<1>7. Listens
  BY <1>1, PairingAssumption DEF PairTypes, Listens, RunBegin, IdleBuilder
<1>8. Keeps(conn[p][at], made) /\ Unmade(made)
  <2> HIDE DEF at, made
  <2>1. Unmade(conn[p][at])
    BY <1>1, <1>2 DEF ConnectionFits
  <2>2. Keeps(conn[p][at], made)
    BY <1>3 DEF Keeps
  <2> QED
    BY <1>3, <2>1, <2>2 DEF Unmade
<1>9. listener' = Nobody => made.to = Nobody /\ turn.inbox = <<>>
  BY <1>1, <1>2, <1>3, <1>4, <1>7 DEF ConnectionFits, MessagesFit, Listens
<1> HIDE DEF at, made, turn
<1>10. RunFits(p)'
  <2>1. /\ builder'[p] = turn /\ conn'[p][at] = made
        /\ \A u \in 1..MaxRuns : u # at => conn'[p][u] = conn[p][u]
    BY <1>2, <1>5, <1>6 DEF OnlyConnection, OnlyRun
  <2>2. ASSUME NEW u \in 1..MaxRuns, u > turn.runs PROVE conn'[p][u] = NoConnection
    <3>1. u > builder[p].runs + 1 /\ u # at /\ u > builder[p].runs
      BY <1>2, <1>4, <2>2
    <3>2. conn[p][u] = NoConnection
      BY <1>1, <3>1 DEF RunFits
    <3> QED
      BY <2>1, <3>1, <3>2
  <2>3. turn.pc \in {"dial", "listen", "self"} => conn'[p][turn.runs] = NoConnection
    <3>2. builder[p].runs + 1 \in 1..MaxRuns /\ builder[p].runs + 1 > builder[p].runs
      BY <1>2, PairingAssumption
    <3>1. conn[p][builder[p].runs + 1] = NoConnection
      BY <1>1, <3>2 DEF RunFits
    <3>3. CASE at = builder[p].runs + 1
      BY <1>3, <1>4, <2>1, <3>1, <3>3
    <3>4. CASE at # builder[p].runs + 1
      BY <1>4, <2>1, <3>1, <3>2, <3>4
    <3> QED
      BY <3>3, <3>4
  <2>4. turn.pc \in {"greet", "wait"}
          => conn'[p][turn.runs].to # Nobody /\ ~conn'[p][turn.runs].closed
    BY <1>1, <1>2, <1>3, <1>4, <2>1, RunParts, NewConnections DEF RunFits
  <2>5. turn.server /\ turn.pc \in {"self", "wait"} => Silent(p)'
    BY <1>1, <1>2, <1>3, <1>4, <2>1, RunParts, NewConnections DEF RunFits, Silent, Greeted
  <2>6. /\ turn.pc # "idle" => turn.runs \in 1..MaxRuns /\ turn.heard = Nobody
        /\ turn.pc \in {"dial", "listen", "greet"} => ~turn.server
        /\ turn.server => turn.heard # p
    BY <1>1, <1>2, <1>4, RunParts, PairingAssumption DEF RunFits, MessagesFit
  <2> QED
    BY <2>1, <2>2, <2>3, <2>4, <2>5, <2>6 DEF RunFits
<1>11. HearsFrom(p, p, made, turn)
  BY <1>1, <1>4, PairingAssumption DEF MessagesFit, HearsFrom
<1> QED
  BY <1>1, <1>2, <1>3, <1>4, <1>5, <1>6, <1>7, <1>8, <1>9, <1>10, <1>11, PairStep

\* A client connects.
LEMMA DialServerFits ==
  ASSUME PairInv, NEW p \in Builders, DialServer(p)
  PROVE  PairInv'
<1> DEFINE at == builder[p].runs
           made == [NoConnection EXCEPT !.to = listener, !.sent = <<"ID">>]
           turn == [builder[p] EXCEPT !.pc = "greet"]
<1>1. /\ PairTypes /\ builder[p] \in PairRuns /\ RunFits(p) /\ MessagesFit(p)
      /\ \A r \in 1..MaxRuns : conn[p][r] \in Connections /\ ConnectionFits(p, r)
  BY DEF PairInv, PairTypes
<1>2. /\ at \in 1..MaxRuns /\ at = builder[p].runs
      /\ builder[p].pc = "dial" /\ listener # Nobody
  BY <1>1, RunParts, PairingAssumption DEF RunFits, ConnectionFits, Unmade, At, DialServer,
     Connect
<1>3. /\ made \in Connections
      /\ made.to = listener /\ made.to # Nobody /\ made.sent = <<"ID">> /\ ~made.closed
           /\ ~made.served
  BY <1>1, <1>2, NewConnections DEF PairTypes
<1>4. /\ turn \in PairRuns
      /\ turn.pc = "greet" /\ turn.runs = builder[p].runs /\ turn.server = builder[p].server
           /\ turn.inbox = builder[p].inbox
      /\ turn.heard = builder[p].heard
  BY <1>1, <1>2 DEF PairRuns
<1>5. OnlyConnection(p, at, made)
  BY <1>1, <1>2, <1>3 DEF PairTypes, OnlyConnection, DialServer, Connect
<1>6. OnlyRun(p, turn)
  BY <1>1, <1>4 DEF PairTypes, PairRuns, OnlyRun, DialServer, Connect
<1>7. Listens
  BY <1>1, PairingAssumption DEF PairTypes, Listens, DialServer, Connect
<1>8. Keeps(conn[p][at], made) /\ Unmade(made)
  BY <1>1, <1>2, <1>3, NewConnections DEF RunFits, Unmade, Keeps
<1>9. listener' = Nobody => made.to = Nobody /\ turn.inbox = <<>>
  BY <1>1, <1>2, <1>3, <1>4, <1>7 DEF ConnectionFits, MessagesFit, Listens
<1> HIDE DEF at, made, turn
<1>10. RunFits(p)'
  <2>1. /\ builder'[p] = turn /\ conn'[p][at] = made
        /\ \A u \in 1..MaxRuns : u # at => conn'[p][u] = conn[p][u]
    BY <1>2, <1>5, <1>6 DEF OnlyConnection, OnlyRun
  <2>2. ASSUME NEW u \in 1..MaxRuns, u > turn.runs PROVE conn'[p][u] = NoConnection
    <3>1. u \in 1..MaxRuns /\ u # at /\ u > builder[p].runs
      BY <1>1, <1>2, <1>4, <2>2, RunParts
    <3>2. conn[p][u] = NoConnection
      BY <1>1, <3>1 DEF RunFits
    <3> QED
      BY <2>1, <3>1, <3>2
  <2>3. turn.pc \in {"dial", "listen", "self"} => conn'[p][turn.runs] = NoConnection
    BY <1>1, <1>2, <1>3, <1>4, <2>1, RunParts, NewConnections DEF RunFits
  <2>4. turn.pc \in {"greet", "wait"}
          => conn'[p][turn.runs].to # Nobody /\ ~conn'[p][turn.runs].closed
    BY <1>1, <1>2, <1>3, <1>4, <2>1, RunParts, NewConnections DEF RunFits
  <2>5. turn.server /\ turn.pc \in {"self", "wait"} => Silent(p)'
    BY <1>1, <1>2, <1>3, <1>4, <2>1, RunParts, NewConnections DEF RunFits, Silent, Greeted
  <2>6. /\ turn.pc # "idle" => turn.runs \in 1..MaxRuns /\ turn.heard = Nobody
        /\ turn.pc \in {"dial", "listen", "greet"} => ~turn.server
        /\ turn.server => turn.heard # p
    BY <1>1, <1>2, <1>4, RunParts, PairingAssumption DEF RunFits, MessagesFit
  <2> QED
    BY <2>1, <2>2, <2>3, <2>4, <2>5, <2>6 DEF RunFits
<1>11. HearsFrom(p, p, made, turn)
  BY <1>1, <1>4, PairingAssumption DEF MessagesFit, HearsFrom
<1> QED
  BY <1>1, <1>2, <1>3, <1>4, <1>5, <1>6, <1>7, <1>8, <1>9, <1>10, <1>11, PairStep

\* Nobody listens yet.
LEMMA DialFailsFits ==
  ASSUME PairInv, NEW p \in Builders, DialFails(p)
  PROVE  PairInv'
<1> DEFINE at == builder[p].runs
           made == conn[p][at]
           turn == [builder[p] EXCEPT !.pc = "listen"]
<1>1. /\ PairTypes /\ builder[p] \in PairRuns /\ RunFits(p) /\ MessagesFit(p)
      /\ \A r \in 1..MaxRuns : conn[p][r] \in Connections /\ ConnectionFits(p, r)
  BY DEF PairInv, PairTypes
<1>2. /\ at \in 1..MaxRuns /\ at = builder[p].runs
      /\ builder[p].pc = "dial"
  BY <1>1, RunParts, PairingAssumption DEF RunFits, ConnectionFits, Unmade, At, DialFails
<1>3. /\ made \in Connections
      /\ made = conn[p][at]
  BY <1>1, <1>2
<1>4. /\ turn \in PairRuns
      /\ turn.pc = "listen" /\ turn.runs = builder[p].runs /\ turn.server = builder[p].server
           /\ turn.inbox = builder[p].inbox
      /\ turn.heard = builder[p].heard
  BY <1>1, <1>2 DEF PairRuns
<1>5. OnlyConnection(p, at, made)
  BY <1>1, <1>2, <1>3 DEF PairTypes, OnlyConnection, DialFails
<1>6. OnlyRun(p, turn)
  BY <1>1, <1>4 DEF PairTypes, PairRuns, OnlyRun, DialFails
<1>7. Listens
  BY <1>1, PairingAssumption DEF PairTypes, Listens, DialFails
<1>8. Keeps(conn[p][at], made) /\ Unmade(made)
  BY <1>1, <1>2, <1>3, ConnectionParts, PairingAssumption DEF RunFits, ConnectionFits, Unmade,
     Keeps
<1>9. listener' = Nobody => made.to = Nobody /\ turn.inbox = <<>>
  BY <1>1, <1>2, <1>3, <1>4, <1>7 DEF ConnectionFits, MessagesFit, Listens
<1> HIDE DEF at, made, turn
<1>10. RunFits(p)'
  <2>1. /\ builder'[p] = turn /\ conn'[p][at] = made
        /\ \A u \in 1..MaxRuns : u # at => conn'[p][u] = conn[p][u]
    BY <1>2, <1>5, <1>6 DEF OnlyConnection, OnlyRun
  <2>2. ASSUME NEW u \in 1..MaxRuns, u > turn.runs PROVE conn'[p][u] = NoConnection
    BY <1>1, <1>2, <1>3, <1>4, <2>1, <2>2, RunParts, NewConnections DEF RunFits
  <2>3. turn.pc \in {"dial", "listen", "self"} => conn'[p][turn.runs] = NoConnection
    BY <1>1, <1>2, <1>3, <1>4, <2>1, RunParts, NewConnections DEF RunFits
  <2>4. turn.pc \in {"greet", "wait"}
          => conn'[p][turn.runs].to # Nobody /\ ~conn'[p][turn.runs].closed
    BY <1>1, <1>2, <1>3, <1>4, <2>1, RunParts, NewConnections DEF RunFits
  <2>5. turn.server /\ turn.pc \in {"self", "wait"} => Silent(p)'
    BY <1>1, <1>2, <1>3, <1>4, <2>1, RunParts, NewConnections DEF RunFits, Silent, Greeted
  <2>6. /\ turn.pc # "idle" => turn.runs \in 1..MaxRuns /\ turn.heard = Nobody
        /\ turn.pc \in {"dial", "listen", "greet"} => ~turn.server
        /\ turn.server => turn.heard # p
    BY <1>1, <1>2, <1>4, RunParts, PairingAssumption DEF RunFits, MessagesFit
  <2> QED
    BY <2>1, <2>2, <2>3, <2>4, <2>5, <2>6 DEF RunFits
<1>11. HearsFrom(p, p, made, turn)
  BY <1>1, <1>4, PairingAssumption DEF MessagesFit, HearsFrom
<1> QED
  BY <1>1, <1>2, <1>3, <1>4, <1>5, <1>6, <1>7, <1>8, <1>9, <1>10, <1>11, PairStep

\* The first to listen: nothing is connected.
LEMMA CreateServerFits ==
  ASSUME PairInv, NEW p \in Builders, CreateServer(p)
  PROVE  PairInv'
<1> DEFINE at == builder[p].runs
           made == conn[p][at]
           turn == [builder[p] EXCEPT !.pc = "self", !.server = TRUE]
<1>1. /\ PairTypes /\ builder[p] \in PairRuns /\ RunFits(p) /\ MessagesFit(p)
      /\ \A r \in 1..MaxRuns : conn[p][r] \in Connections /\ ConnectionFits(p, r)
  BY DEF PairInv, PairTypes
<1>2. /\ at \in 1..MaxRuns /\ at = builder[p].runs
      /\ builder[p].pc = "listen" /\ listener = Nobody
  BY <1>1, RunParts, PairingAssumption DEF RunFits, ConnectionFits, Unmade, At, CreateServer
<1>3. /\ made \in Connections
      /\ made = conn[p][at]
  BY <1>1, <1>2
<1>4. /\ turn \in PairRuns
      /\ turn.pc = "self" /\ turn.runs = builder[p].runs /\ turn.server = TRUE
           /\ turn.inbox = builder[p].inbox
      /\ turn.heard = builder[p].heard
  BY <1>1, <1>2 DEF PairRuns
<1>5. OnlyConnection(p, at, made)
  BY <1>1, <1>2, <1>3 DEF PairTypes, OnlyConnection, CreateServer
<1>6. OnlyRun(p, turn)
  BY <1>1, <1>4 DEF PairTypes, PairRuns, OnlyRun, CreateServer
<1>7. Listens
  BY <1>1, PairingAssumption DEF PairTypes, Listens, CreateServer
<1>8. Keeps(conn[p][at], made) /\ Unmade(made)
  BY <1>1, <1>2, <1>3, ConnectionParts, PairingAssumption DEF RunFits, ConnectionFits, Unmade,
     Keeps
<1>9. listener' = Nobody => made.to = Nobody /\ turn.inbox = <<>>
  BY <1>1, <1>2, <1>3, <1>4, <1>7 DEF ConnectionFits, MessagesFit, Listens
<1> HIDE DEF at, made, turn
<1>10. RunFits(p)'
  <2>1. /\ builder'[p] = turn /\ conn'[p][at] = made
        /\ \A u \in 1..MaxRuns : u # at => conn'[p][u] = conn[p][u]
    BY <1>2, <1>5, <1>6 DEF OnlyConnection, OnlyRun
  <2>2. ASSUME NEW u \in 1..MaxRuns, u > turn.runs PROVE conn'[p][u] = NoConnection
    <3>1. conn[p][u] = NoConnection
      BY <1>1, <1>4, <2>2 DEF RunFits
    <3>2. u # at
      BY <1>2, <1>4, <2>2
    <3> QED
      BY <2>1, <3>1, <3>2
  <2>3. turn.pc \in {"dial", "listen", "self"} => conn'[p][turn.runs] = NoConnection
    <3>1. conn[p][at] = NoConnection
      BY <1>1, <1>2 DEF RunFits
    <3> QED
      BY <1>2, <1>3, <1>4, <2>1, <3>1
  <2>4. turn.pc \in {"greet", "wait"}
          => conn'[p][turn.runs].to # Nobody /\ ~conn'[p][turn.runs].closed
    BY <1>1, <1>2, <1>3, <1>4, <2>1, RunParts, NewConnections DEF RunFits
  <2>5. turn.server /\ turn.pc \in {"self", "wait"} => Silent(p)'
    <3>1. builder[p].inbox = <<>> /\ \A u \in 1..MaxRuns : conn[p][u].to = Nobody
      BY <1>1, <1>2 DEF MessagesFit, ConnectionFits
    <3>2. turn.inbox = <<>> /\ \A u \in 1..MaxRuns : conn'[p][u].to = Nobody
      BY <1>2, <1>3, <1>4, <2>1, <3>1
    <3> QED
      BY <2>1, <3>2 DEF Silent
  <2>6. /\ turn.pc # "idle" => turn.runs \in 1..MaxRuns /\ turn.heard = Nobody
        /\ turn.pc \in {"dial", "listen", "greet"} => ~turn.server
        /\ turn.server => turn.heard # p
    BY <1>1, <1>2, <1>4, RunParts, PairingAssumption DEF RunFits, MessagesFit
  <2> QED
    BY <2>1, <2>2, <2>3, <2>4, <2>5, <2>6 DEF RunFits
<1>11. HearsFrom(p, p, made, turn)
  BY <1>1, <1>4, PairingAssumption DEF MessagesFit, HearsFrom
<1> QED
  BY <1>1, <1>2, <1>3, <1>4, <1>5, <1>6, <1>7, <1>8, <1>9, <1>10, <1>11, PairStep

\* The other one listens already.
LEMMA CreateServerFailsFits ==
  ASSUME PairInv, NEW p \in Builders, CreateServerFails(p)
  PROVE  PairInv'
<1> DEFINE at == builder[p].runs
           made == conn[p][at]
           turn == [builder[p] EXCEPT !.pc = "idle"]
<1>1. /\ PairTypes /\ builder[p] \in PairRuns /\ RunFits(p) /\ MessagesFit(p)
      /\ \A r \in 1..MaxRuns : conn[p][r] \in Connections /\ ConnectionFits(p, r)
  BY DEF PairInv, PairTypes
<1>2. /\ at \in 1..MaxRuns /\ at = builder[p].runs
      /\ builder[p].pc = "listen"
  BY <1>1, RunParts, PairingAssumption DEF RunFits, ConnectionFits, Unmade, At, CreateServerFails
<1>3. /\ made \in Connections
      /\ made = conn[p][at]
  BY <1>1, <1>2
<1>4. /\ turn \in PairRuns
      /\ turn.pc = "idle" /\ turn.runs = builder[p].runs /\ turn.server = builder[p].server
           /\ turn.inbox = builder[p].inbox
      /\ turn.heard = builder[p].heard
  BY <1>1, <1>2 DEF PairRuns
<1>5. OnlyConnection(p, at, made)
  BY <1>1, <1>2, <1>3 DEF PairTypes, OnlyConnection, CreateServerFails
<1>6. OnlyRun(p, turn)
  BY <1>1, <1>4 DEF PairTypes, PairRuns, OnlyRun, CreateServerFails
<1>7. Listens
  BY <1>1, PairingAssumption DEF PairTypes, Listens, CreateServerFails
<1>8. Keeps(conn[p][at], made) /\ Unmade(made)
  BY <1>1, <1>2, <1>3, ConnectionParts, PairingAssumption DEF RunFits, ConnectionFits, Unmade,
     Keeps
<1>9. listener' = Nobody => made.to = Nobody /\ turn.inbox = <<>>
  BY <1>1, <1>2, <1>3, <1>4, <1>7 DEF ConnectionFits, MessagesFit, Listens
<1> HIDE DEF at, made, turn
<1>10. RunFits(p)'
  <2>1. /\ builder'[p] = turn /\ conn'[p][at] = made
        /\ \A u \in 1..MaxRuns : u # at => conn'[p][u] = conn[p][u]
    BY <1>2, <1>5, <1>6 DEF OnlyConnection, OnlyRun
  <2>2. ASSUME NEW u \in 1..MaxRuns, u > turn.runs PROVE conn'[p][u] = NoConnection
    BY <1>1, <1>2, <1>3, <1>4, <2>1, <2>2, RunParts, NewConnections DEF RunFits
  <2>3. turn.pc \in {"dial", "listen", "self"} => conn'[p][turn.runs] = NoConnection
    BY <1>1, <1>2, <1>3, <1>4, <2>1, RunParts, NewConnections DEF RunFits
  <2>4. turn.pc \in {"greet", "wait"}
          => conn'[p][turn.runs].to # Nobody /\ ~conn'[p][turn.runs].closed
    BY <1>1, <1>2, <1>3, <1>4, <2>1, RunParts, NewConnections DEF RunFits
  <2>5. turn.server /\ turn.pc \in {"self", "wait"} => Silent(p)'
    BY <1>1, <1>2, <1>3, <1>4, <2>1, RunParts, NewConnections DEF RunFits, Silent, Greeted
  <2>6. /\ turn.pc # "idle" => turn.runs \in 1..MaxRuns /\ turn.heard = Nobody
        /\ turn.pc \in {"dial", "listen", "greet"} => ~turn.server
        /\ turn.server => turn.heard # p
    BY <1>1, <1>2, <1>4, RunParts, PairingAssumption DEF RunFits, MessagesFit
  <2> QED
    BY <2>1, <2>2, <2>3, <2>4, <2>5, <2>6 DEF RunFits
<1>11. HearsFrom(p, p, made, turn)
  BY <1>1, <1>4, PairingAssumption DEF MessagesFit, HearsFrom
<1> QED
  BY <1>1, <1>2, <1>3, <1>4, <1>5, <1>6, <1>7, <1>8, <1>9, <1>10, <1>11, PairStep

\* The server connects to its own port.
LEMMA DialSelfFits ==
  ASSUME PairInv, NEW p \in Builders, DialSelf(p)
  PROVE  PairInv'
<1> DEFINE at == builder[p].runs
           made == [NoConnection EXCEPT !.to = listener, !.sent = <<"ID">>]
           turn == [builder[p] EXCEPT !.pc = "wait"]
<1>1. /\ PairTypes /\ builder[p] \in PairRuns /\ RunFits(p) /\ MessagesFit(p)
      /\ \A r \in 1..MaxRuns : conn[p][r] \in Connections /\ ConnectionFits(p, r)
  BY DEF PairInv, PairTypes
<1>2. /\ at \in 1..MaxRuns /\ at = builder[p].runs
      /\ builder[p].pc = "self" /\ listener # Nobody
  BY <1>1, RunParts, PairingAssumption DEF RunFits, ConnectionFits, Unmade, At, DialSelf, Connect
<1>3. /\ made \in Connections
      /\ made.to = listener /\ made.to # Nobody /\ made.sent = <<"ID">> /\ ~made.closed
           /\ ~made.served
  BY <1>1, <1>2, NewConnections DEF PairTypes
<1>4. /\ turn \in PairRuns
      /\ turn.pc = "wait" /\ turn.runs = builder[p].runs /\ turn.server = builder[p].server
           /\ turn.inbox = builder[p].inbox
      /\ turn.heard = builder[p].heard
  BY <1>1, <1>2 DEF PairRuns
<1>5. OnlyConnection(p, at, made)
  BY <1>1, <1>2, <1>3 DEF PairTypes, OnlyConnection, DialSelf, Connect
<1>6. OnlyRun(p, turn)
  BY <1>1, <1>4 DEF PairTypes, PairRuns, OnlyRun, DialSelf, Connect
<1>7. Listens
  BY <1>1, PairingAssumption DEF PairTypes, Listens, DialSelf, Connect
<1>8. Keeps(conn[p][at], made) /\ Unmade(made)
  BY <1>1, <1>2, <1>3, NewConnections DEF RunFits, Unmade, Keeps
<1>9. listener' = Nobody => made.to = Nobody /\ turn.inbox = <<>>
  BY <1>1, <1>2, <1>3, <1>4, <1>7 DEF ConnectionFits, MessagesFit, Listens
<1> HIDE DEF at, made, turn
<1>10. RunFits(p)'
  <2>1. /\ builder'[p] = turn /\ conn'[p][at] = made
        /\ \A u \in 1..MaxRuns : u # at => conn'[p][u] = conn[p][u]
    BY <1>2, <1>5, <1>6 DEF OnlyConnection, OnlyRun
  <2>2. ASSUME NEW u \in 1..MaxRuns, u > turn.runs PROVE conn'[p][u] = NoConnection
    <3>1. u \in 1..MaxRuns /\ u # at /\ u > builder[p].runs
      BY <1>1, <1>2, <1>4, <2>2, RunParts
    <3>2. conn[p][u] = NoConnection
      BY <1>1, <3>1 DEF RunFits
    <3> QED
      BY <2>1, <3>1, <3>2
  <2>3. turn.pc \in {"dial", "listen", "self"} => conn'[p][turn.runs] = NoConnection
    BY <1>1, <1>2, <1>3, <1>4, <2>1, RunParts, NewConnections DEF RunFits
  <2>4. turn.pc \in {"greet", "wait"}
          => conn'[p][turn.runs].to # Nobody /\ ~conn'[p][turn.runs].closed
    BY <1>1, <1>2, <1>3, <1>4, <2>1, RunParts, NewConnections DEF RunFits
  <2>5. turn.server /\ turn.pc \in {"self", "wait"} => Silent(p)'
    <3> SUFFICES ASSUME turn.server PROVE Silent(p)'
      OBVIOUS
    <3>1. Silent(p)
      BY <1>1, <1>2, <1>4 DEF RunFits
    <3>2. \A u \in 1..MaxRuns : u # at => conn'[p][u].to = Nobody
      BY <1>2, <2>1, <3>1 DEF Silent
    <3>3. builder'[p].pc = "wait" /\ builder'[p].runs = at
            /\ builder'[p].inbox = builder[p].inbox /\ Greeted(conn'[p][at])
      BY <1>2, <1>3, <1>4, <2>1 DEF Greeted
    <3> QED
      BY <1>2, <3>1, <3>2, <3>3 DEF Silent, Greeted
  <2>6. /\ turn.pc # "idle" => turn.runs \in 1..MaxRuns /\ turn.heard = Nobody
        /\ turn.pc \in {"dial", "listen", "greet"} => ~turn.server
        /\ turn.server => turn.heard # p
    BY <1>1, <1>2, <1>4, RunParts, PairingAssumption DEF RunFits, MessagesFit
  <2> QED
    BY <2>1, <2>2, <2>3, <2>4, <2>5, <2>6 DEF RunFits
<1>11. HearsFrom(p, p, made, turn)
  BY <1>1, <1>4, PairingAssumption DEF MessagesFit, HearsFrom
<1> QED
  BY <1>1, <1>2, <1>3, <1>4, <1>5, <1>6, <1>7, <1>8, <1>9, <1>10, <1>11, PairStep

\* A client greets.
LEMMA SendHelloFits ==
  ASSUME PairInv, NEW p \in Builders, SendHello(p)
  PROVE  PairInv'
<1> DEFINE at == builder[p].runs
           made == [conn[p][at] EXCEPT !.sent = Append(@, "hello")]
           turn == [builder[p] EXCEPT !.pc = "wait"]
<1>1. /\ PairTypes /\ builder[p] \in PairRuns /\ RunFits(p) /\ MessagesFit(p)
      /\ \A r \in 1..MaxRuns : conn[p][r] \in Connections /\ ConnectionFits(p, r)
  BY DEF PairInv, PairTypes
<1>2. /\ at \in 1..MaxRuns /\ at = builder[p].runs
      /\ builder[p].pc = "greet"
  BY <1>1, RunParts, PairingAssumption DEF RunFits, ConnectionFits, Unmade, At, SendHello, Send
<1>3. /\ made \in Connections
      /\ made.to = conn[p][at].to /\ made.closed = conn[p][at].closed
  <2>1. conn[p][at].sent \in Seq(Greetings)
    BY <1>1, <1>2 DEF Connections, Greetings
  <2>2. Append(conn[p][at].sent, "hello") \in Seq(Greetings)
    BY <1>2, <2>1, PartsOfSequences DEF Greetings
  <2> QED
    BY <1>1, <1>2, <2>2 DEF Connections, Greetings
<1>4. /\ turn \in PairRuns
      /\ turn.pc = "wait" /\ turn.runs = builder[p].runs /\ turn.server = builder[p].server
           /\ turn.inbox = builder[p].inbox
      /\ turn.heard = builder[p].heard
  BY <1>1, <1>2 DEF PairRuns
<1>5. OnlyConnection(p, at, made)
  BY <1>1, <1>2, <1>3 DEF PairTypes, OnlyConnection, SendHello, Send
<1>6. OnlyRun(p, turn)
  BY <1>1, <1>4 DEF PairTypes, PairRuns, OnlyRun, SendHello, Send
<1>7. Listens
  BY <1>1, PairingAssumption DEF PairTypes, Listens, SendHello, Send
<1>8. Keeps(conn[p][at], made) /\ Unmade(made)
  BY <1>1, <1>2, <1>3, ConnectionParts, PairingAssumption DEF RunFits, ConnectionFits, Unmade,
     Keeps
<1>9. listener' = Nobody => made.to = Nobody /\ turn.inbox = <<>>
  BY <1>1, <1>2, <1>3, <1>4, <1>7 DEF ConnectionFits, MessagesFit, Listens
<1> HIDE DEF at, made, turn
<1>10. RunFits(p)'
  <2>1. /\ builder'[p] = turn /\ conn'[p][at] = made
        /\ \A u \in 1..MaxRuns : u # at => conn'[p][u] = conn[p][u]
    BY <1>2, <1>5, <1>6 DEF OnlyConnection, OnlyRun
  <2>2. ASSUME NEW u \in 1..MaxRuns, u > turn.runs PROVE conn'[p][u] = NoConnection
    BY <1>1, <1>2, <1>3, <1>4, <2>1, <2>2, RunParts, NewConnections DEF RunFits
  <2>3. turn.pc \in {"dial", "listen", "self"} => conn'[p][turn.runs] = NoConnection
    BY <1>1, <1>2, <1>3, <1>4, <2>1, RunParts, NewConnections DEF RunFits
  <2>4. turn.pc \in {"greet", "wait"}
          => conn'[p][turn.runs].to # Nobody /\ ~conn'[p][turn.runs].closed
    BY <1>1, <1>2, <1>3, <1>4, <2>1, RunParts, NewConnections DEF RunFits
  <2>5. turn.server /\ turn.pc \in {"self", "wait"} => Silent(p)'
    BY <1>1, <1>2, <1>3, <1>4, <2>1, RunParts, NewConnections DEF RunFits, Silent, Greeted
  <2>6. /\ turn.pc # "idle" => turn.runs \in 1..MaxRuns /\ turn.heard = Nobody
        /\ turn.pc \in {"dial", "listen", "greet"} => ~turn.server
        /\ turn.server => turn.heard # p
    BY <1>1, <1>2, <1>4, RunParts, PairingAssumption DEF RunFits, MessagesFit
  <2> QED
    BY <2>1, <2>2, <2>3, <2>4, <2>5, <2>6 DEF RunFits
<1>11. HearsFrom(p, p, made, turn)
  BY <1>1, <1>4, PairingAssumption DEF MessagesFit, HearsFrom
<1> QED
  BY <1>1, <1>2, <1>3, <1>4, <1>5, <1>6, <1>7, <1>8, <1>9, <1>10, <1>11, PairStep

\* The listener reads an identifier.
LEMMA AcceptFits ==
  ASSUME PairInv, NEW p \in Builders, NEW r \in 1..MaxRuns, NEW n \in 1..2, Accept(p, r, n)
  PROVE  PairInv'
<1> DEFINE at == r
           made == [conn[p][r] EXCEPT
                      !.served = TRUE,
                      !.sent = SubSeq(conn[p][r].sent, n + 1, Len(conn[p][r].sent))]
           turn == builder[p]
<1>1. /\ PairTypes /\ builder[p] \in PairRuns /\ RunFits(p) /\ MessagesFit(p)
      /\ \A u \in 1..MaxRuns : conn[p][u] \in Connections /\ ConnectionFits(p, u)
  BY DEF PairInv, PairTypes
<1>2. /\ at \in 1..MaxRuns /\ at = r
      /\ conn[p][at].to # Nobody /\ ~conn[p][at].served /\ n \in 1..Len(conn[p][at].sent)
  BY <1>1, RunParts, PairingAssumption DEF RunFits, ConnectionFits, Unmade, At, Accept
<1>3. /\ made \in Connections
      /\ made.to = conn[p][at].to /\ made.closed = conn[p][at].closed /\ made.served
           /\ made.sent = SubSeq(conn[p][at].sent, n + 1, Len(conn[p][at].sent))
  <2>1. conn[p][at].sent \in Seq(Greetings)
    BY <1>1, <1>2 DEF Connections, Greetings
  <2>2. SubSeq(conn[p][at].sent, n + 1, Len(conn[p][at].sent)) \in Seq(Greetings)
    BY <1>2, <2>1, PartsOfSequences DEF Greetings
  <2> QED
    BY <1>1, <1>2, <2>2 DEF Connections, Greetings
<1>4. /\ turn \in PairRuns
      /\ turn = builder[p]
  BY <1>1, <1>2 DEF PairRuns
<1>5. OnlyConnection(p, at, made)
  BY <1>1, <1>2, <1>3 DEF PairTypes, OnlyConnection, Accept
<1>6. OnlyRun(p, turn)
  BY <1>1, <1>4 DEF PairTypes, PairRuns, OnlyRun, Accept
<1>7. Listens
  BY <1>1, PairingAssumption DEF PairTypes, Listens, Accept
<1>8. Keeps(conn[p][at], made) /\ Unmade(made)
  BY <1>1, <1>2, <1>3, ConnectionParts, PairingAssumption DEF RunFits, ConnectionFits, Unmade,
     Keeps
<1>9. listener' = Nobody => made.to = Nobody /\ turn.inbox = <<>>
  BY <1>1, <1>2, <1>3, <1>4, <1>7 DEF ConnectionFits, MessagesFit, Listens
<1> HIDE DEF at, made, turn
<1>10. RunFits(p)'
  <2>1. /\ builder'[p] = turn /\ conn'[p][at] = made
        /\ \A u \in 1..MaxRuns : u # at => conn'[p][u] = conn[p][u]
    BY <1>2, <1>5, <1>6 DEF OnlyConnection, OnlyRun
  <2>2. ASSUME NEW u \in 1..MaxRuns, u > turn.runs PROVE conn'[p][u] = NoConnection
    BY <1>1, <1>2, <1>3, <1>4, <2>1, <2>2, RunParts, NewConnections DEF RunFits
  <2>3. turn.pc \in {"dial", "listen", "self"} => conn'[p][turn.runs] = NoConnection
    <3> SUFFICES ASSUME turn.pc \in {"dial", "listen", "self"}
          PROVE conn'[p][turn.runs] = NoConnection
      OBVIOUS
    <3>1. conn[p][turn.runs] = NoConnection /\ turn.runs \in 1..MaxRuns
      BY <1>1, <1>4 DEF RunFits
    <3>2. turn.runs # at
      BY <1>2, <3>1, NewConnections
    <3> QED
      BY <2>1, <3>1, <3>2
  <2>4. turn.pc \in {"greet", "wait"}
          => conn'[p][turn.runs].to # Nobody /\ ~conn'[p][turn.runs].closed
    <3>1. \A u \in 1..MaxRuns : conn'[p][u].to = conn[p][u].to
            /\ conn'[p][u].closed = conn[p][u].closed
      BY <1>2, <1>3, <2>1
    <3> QED
      BY <1>1, <1>4, <3>1 DEF RunFits
  <2>5. turn.server /\ turn.pc \in {"self", "wait"} => Silent(p)'
    <3> SUFFICES ASSUME turn.server, turn.pc \in {"self", "wait"} PROVE Silent(p)'
      OBVIOUS
    <3>1. Silent(p)
      BY <1>1, <1>4 DEF RunFits
    <3>2. conn[p][at].sent = <<"ID">>
      BY <1>2, <3>1 DEF Silent, Greeted
    <3>3. made.sent = <<>>
      BY <1>2, <1>3, <3>2
    <3> QED
      BY <1>2, <1>3, <1>4, <2>1, <3>1, <3>3 DEF Silent, Greeted
  <2>6. /\ turn.pc # "idle" => turn.runs \in 1..MaxRuns /\ turn.heard = Nobody
        /\ turn.pc \in {"dial", "listen", "greet"} => ~turn.server
        /\ turn.server => turn.heard # p
    BY <1>1, <1>2, <1>4, RunParts, PairingAssumption DEF RunFits, MessagesFit
  <2> QED
    BY <2>1, <2>2, <2>3, <2>4, <2>5, <2>6 DEF RunFits
<1>11. HearsFrom(p, p, made, turn)
  BY <1>1, <1>4, PairingAssumption DEF MessagesFit, HearsFrom
<1> QED
  BY <1>1, <1>2, <1>3, <1>4, <1>5, <1>6, <1>7, <1>8, <1>9, <1>10, <1>11, PairStep

\* The listener passes a message on.
LEMMA HandleClientFits ==
  ASSUME PairInv, NEW p \in Builders, NEW r \in 1..MaxRuns, HandleClient(p, r)
  PROVE  PairInv'
<1>0. PICK who \in Builders : who = conn[p][r].to
  BY DEF PairInv, PairTypes, Connections, ConnectionFits, Unmade, HandleClient
<1> DEFINE at == r
           made == [conn[p][r] EXCEPT !.sent = Tail(@)]
           turn == [builder[who] EXCEPT
                      !.inbox = Append(@, [from |-> p, text |-> Head(conn[p][r].sent)])]
<1>1. /\ PairTypes /\ builder[p] \in PairRuns /\ RunFits(p) /\ MessagesFit(p)
      /\ \A u \in 1..MaxRuns : conn[p][u] \in Connections /\ ConnectionFits(p, u)
  BY DEF PairInv, PairTypes
<1>2. /\ at \in 1..MaxRuns /\ at = r
      /\ conn[p][at].to # Nobody /\ conn[p][at].served /\ conn[p][at].sent # <<>>
  BY <1>1, RunParts, PairingAssumption DEF RunFits, ConnectionFits, Unmade, At, HandleClient
<1>3. /\ made \in Connections
      /\ made.to = conn[p][at].to /\ made.closed = conn[p][at].closed
           /\ made.served = conn[p][at].served
  <2>1. conn[p][at].sent \in Seq(Greetings)
    BY <1>1, <1>2 DEF Connections, Greetings
  <2>2. Tail(conn[p][at].sent) \in Seq(Greetings)
    BY <1>2, <2>1, PartsOfSequences DEF Greetings
  <2> QED
    BY <1>1, <1>2, <2>2 DEF Connections, Greetings
<1>4. /\ turn \in PairRuns
      /\ turn.pc = builder[who].pc /\ turn.runs = builder[who].runs
           /\ turn.server = builder[who].server
      /\ turn.heard = builder[who].heard
      /\ turn.inbox = Append(builder[who].inbox, [from |-> p, text |-> Head(conn[p][r].sent)])
      /\ builder[who].inbox \in Seq(Messages)
  <2>1. Head(conn[p][at].sent) \in Greetings
    <3>1. conn[p][at].sent \in Seq(Greetings)
      BY <1>1, <1>2 DEF Connections, Greetings
    <3> QED
      BY <1>2, <3>1, PartsOfSequences
  <2>2. builder[who] \in PairRuns /\ builder[who].inbox \in Seq(Messages)
    BY <1>1, <2>1 DEF PairTypes, PairRuns
  <2>3. [from |-> p, text |-> Head(conn[p][at].sent)] \in Messages
    BY <2>1 DEF Messages
  <2>4. Append(builder[who].inbox, [from |-> p, text |-> Head(conn[p][at].sent)]) \in
     Seq(Messages)
    BY <2>2, <2>3, PartsOfSequences
  <2> QED
    BY <1>2, <2>1, <2>2, <2>4 DEF PairRuns
<1>5. OnlyConnection(p, at, made)
  BY <1>1, <1>2, <1>3 DEF PairTypes, OnlyConnection, HandleClient
<1>6. OnlyRun(who, turn)
  BY <1>0, <1>1, <1>4 DEF PairTypes, PairRuns, OnlyRun, HandleClient
<1>7. Listens
  BY <1>1, PairingAssumption DEF PairTypes, Listens, HandleClient
<1>8. Keeps(conn[p][at], made) /\ Unmade(made)
  BY <1>1, <1>2, <1>3, ConnectionParts, PairingAssumption DEF RunFits, ConnectionFits, Unmade,
     Keeps
<1>9. listener' = Nobody => made.to = Nobody /\ turn.inbox = <<>>
  BY <1>1, <1>2, <1>7 DEF ConnectionFits, Listens
<1> HIDE DEF at, made, turn
<1>10. RunFits(p)'
  <2>1. /\ conn'[p][at] = made /\ \A u \in 1..MaxRuns : u # at => conn'[p][u] = conn[p][u]
        /\ builder'[p].pc = builder[p].pc /\ builder'[p].runs = builder[p].runs
        /\ builder'[p].server = builder[p].server /\ builder'[p].heard = builder[p].heard
    BY <1>1, <1>2, <1>4, <1>5, <1>6 DEF OnlyConnection, OnlyRun
  <2>2. \A u \in 1..MaxRuns : /\ conn[p][u] = NoConnection => conn'[p][u] = NoConnection
                             /\ conn'[p][u].to = conn[p][u].to
                                  /\ conn'[p][u].closed = conn[p][u].closed
    BY <1>2, <1>3, <2>1, NewConnections
  <2>3. ~(builder[p].server /\ builder[p].pc \in {"self", "wait"})
    <3>1. ~Silent(p)
      BY <1>2 DEF Silent, Greeted
    <3> QED
      BY <1>1, <3>1 DEF RunFits
  <2>4. /\ builder[p].pc # "idle" => builder[p].runs \in 1..MaxRuns /\ builder[p].heard = Nobody
        /\ builder[p].pc \in {"dial", "listen", "self"} => conn[p][builder[p].runs] = NoConnection
        /\ builder[p].pc \in {"greet", "wait"}
             => conn[p][builder[p].runs].to # Nobody /\ ~conn[p][builder[p].runs].closed
        /\ \A u \in 1..MaxRuns : u > builder[p].runs => conn[p][u] = NoConnection
        /\ builder[p].pc \in {"dial", "listen", "greet"} => ~builder[p].server
        /\ builder[p].server => builder[p].heard # p
    BY <1>1 DEF RunFits
  <2>5. /\ builder[p].pc \in {"dial", "listen", "self"}
             => conn'[p][builder[p].runs] = NoConnection
        /\ builder[p].pc \in {"greet", "wait"}
             => conn'[p][builder[p].runs].to # Nobody /\ ~conn'[p][builder[p].runs].closed
        /\ \A u \in 1..MaxRuns : u > builder[p].runs => conn'[p][u] = NoConnection
    BY <2>2, <2>4
  <2> QED
    BY <2>1, <2>3, <2>4, <2>5 DEF RunFits
<1>11. HearsFrom(p, who, made, turn)
  <2>1. MessagesFit(who)
    BY <1>4 DEF PairInv
  <2>2. ASSUME NEW i \in 1..Len(turn.inbox) PROVE (turn.inbox[i].from = p /\ made.to = who) \/
     Reached(turn.inbox[i].from, who)
    <3>1. CASE i \in 1..Len(builder[who].inbox)
      <4>1. turn.inbox[i] = builder[who].inbox[i]
        BY <1>4, <3>1
      <4> QED
        BY <2>1, <3>1, <4>1 DEF MessagesFit
    <3>2. CASE i = Len(builder[who].inbox) + 1
      <4>1. turn.inbox[i].from = p
        BY <1>4, <3>2
      <4> QED
        BY <1>0, <1>2, <1>3, <4>1
    <3> QED
      BY <1>4, <2>2, <3>1, <3>2
  <2> QED
    BY <1>4, <2>1, <2>2 DEF HearsFrom, MessagesFit
<1>12. RunFits(who)'
  <2>1. CASE who = p
    BY <1>10, <2>1
  <2>2. CASE who # p
    <3>1. builder'[who] = turn /\ \A u \in 1..MaxRuns : conn'[who][u] = conn[who][u]
      BY <1>4, <1>5, <1>6, <2>2 DEF OnlyConnection, OnlyRun
    <3>2. RunFits(who)
      BY <1>4 DEF PairInv
    <3>3. Silent(who) => Silent(who)'
      <4>1. SUFFICES ASSUME Silent(who) PROVE Silent(who)'
        OBVIOUS
      <4>2. ASSUME NEW i \in 1..Len(turn.inbox) PROVE turn.inbox[i].from # who
        <5>1. CASE i \in 1..Len(builder[who].inbox)
          <6>1. turn.inbox[i] = builder[who].inbox[i]
            BY <1>4, <5>1
          <6> QED
            BY <4>1, <5>1, <6>1 DEF Silent
        <5>2. CASE i = Len(builder[who].inbox) + 1
          <6>1. turn.inbox[i].from = p
            BY <1>4, <5>2
          <6> QED
            BY <2>2, <6>1
        <5> QED
          BY <1>4, <4>2, <5>1, <5>2
      <4> QED
        BY <1>4, <3>1, <4>1, <4>2 DEF Silent, Greeted
    <3>4. /\ turn.pc \in {"dial", "listen", "self"} => conn'[who][turn.runs] = NoConnection
          /\ turn.pc \in {"greet", "wait"}
               => conn'[who][turn.runs].to # Nobody /\ ~conn'[who][turn.runs].closed
          /\ \A u \in 1..MaxRuns : u > turn.runs => conn'[who][u] = NoConnection
      BY <1>4, <3>1, <3>2 DEF RunFits
    <3> QED
      BY <1>4, <3>1, <3>2, <3>3, <3>4 DEF RunFits
  <2> QED
    BY <2>1, <2>2
<1> QED
  BY <1>1, <1>2, <1>3, <1>4, <1>5, <1>6, <1>7, <1>8, <1>9, <1>10, <1>11, <1>12, PairStep

\* The listener lets a closed connection go.
LEMMA ClientGoneFits ==
  ASSUME PairInv, NEW p \in Builders, NEW r \in 1..MaxRuns, ClientGone(p, r)
  PROVE  PairInv'
<1> DEFINE at == r
           made == [NoConnection EXCEPT !.closed = TRUE]
           turn == builder[p]
<1>1. /\ PairTypes /\ builder[p] \in PairRuns /\ RunFits(p) /\ MessagesFit(p)
      /\ \A u \in 1..MaxRuns : conn[p][u] \in Connections /\ ConnectionFits(p, u)
  BY DEF PairInv, PairTypes
<1>2. /\ at \in 1..MaxRuns /\ at = r
      /\ conn[p][at].served /\ conn[p][at].closed
  BY <1>1, RunParts, PairingAssumption DEF RunFits, ConnectionFits, Unmade, At, ClientGone
<1>3. /\ made \in Connections
      /\ made.to = Nobody /\ made.sent = <<>> /\ made.closed /\ ~made.served
  BY NewConnections DEF Connections
<1>4. /\ turn \in PairRuns
      /\ turn = builder[p]
  BY <1>1, <1>2 DEF PairRuns
<1>5. OnlyConnection(p, at, made)
  BY <1>1, <1>2, <1>3 DEF PairTypes, OnlyConnection, ClientGone
<1>6. OnlyRun(p, turn)
  BY <1>1, <1>4 DEF PairTypes, PairRuns, OnlyRun, ClientGone
<1>7. Listens
  BY <1>1, PairingAssumption DEF PairTypes, Listens, ClientGone
<1>8. Keeps(conn[p][at], made) /\ Unmade(made)
  BY <1>1, <1>2, <1>3, ConnectionParts, PairingAssumption DEF RunFits, ConnectionFits, Unmade,
     Keeps
<1>9. listener' = Nobody => made.to = Nobody /\ turn.inbox = <<>>
  BY <1>1, <1>2, <1>3, <1>4, <1>7 DEF ConnectionFits, MessagesFit, Listens
<1> HIDE DEF at, made, turn
<1>10. RunFits(p)'
  <2>1. /\ builder'[p] = turn /\ conn'[p][at] = made
        /\ \A u \in 1..MaxRuns : u # at => conn'[p][u] = conn[p][u]
    BY <1>2, <1>5, <1>6 DEF OnlyConnection, OnlyRun
  <2>2. ASSUME NEW u \in 1..MaxRuns, u > turn.runs PROVE conn'[p][u] = NoConnection
    BY <1>1, <1>2, <1>3, <1>4, <2>1, <2>2, RunParts, NewConnections DEF RunFits
  <2>3. turn.pc \in {"dial", "listen", "self"} => conn'[p][turn.runs] = NoConnection
    <3>1. ~NoConnection.closed
      BY NewConnections
    <3>2. turn.pc \in {"dial", "listen", "self"}
            => turn.runs \in 1..MaxRuns /\ turn.runs # at /\ conn[p][turn.runs] = NoConnection
      BY <1>1, <1>2, <1>4, <3>1 DEF RunFits
    <3> QED
      BY <2>1, <3>2
  <2>4. turn.pc \in {"greet", "wait"}
          => conn'[p][turn.runs].to # Nobody /\ ~conn'[p][turn.runs].closed
    <3>1. turn.pc \in {"greet", "wait"} =>
            /\ turn.runs \in 1..MaxRuns /\ turn.runs # at
            /\ conn[p][turn.runs].to # Nobody /\ ~conn[p][turn.runs].closed
      BY <1>1, <1>2, <1>4 DEF RunFits
    <3> QED
      BY <2>1, <3>1
  <2>5. turn.server /\ turn.pc \in {"self", "wait"} => Silent(p)'
    <3> SUFFICES ASSUME turn.server, turn.pc \in {"self", "wait"} PROVE Silent(p)'
      OBVIOUS
    <3>1. Silent(p)
      BY <1>1, <1>4 DEF RunFits
    <3>2. ASSUME NEW u \in 1..MaxRuns, conn'[p][u].to # Nobody PROVE conn'[p][u] = conn[p][u]
      BY <1>3, <2>1, <3>2
    <3> QED
      BY <1>4, <2>1, <3>1, <3>2 DEF Silent
  <2>6. /\ turn.pc # "idle" => turn.runs \in 1..MaxRuns /\ turn.heard = Nobody
        /\ turn.pc \in {"dial", "listen", "greet"} => ~turn.server
        /\ turn.server => turn.heard # p
    BY <1>1, <1>2, <1>4, RunParts, PairingAssumption DEF RunFits, MessagesFit
  <2> QED
    BY <2>1, <2>2, <2>3, <2>4, <2>5, <2>6 DEF RunFits
<1>11. HearsFrom(p, p, made, turn)
  BY <1>1, <1>4, PairingAssumption DEF MessagesFit, HearsFrom
<1> QED
  BY <1>1, <1>2, <1>3, <1>4, <1>5, <1>6, <1>7, <1>8, <1>9, <1>10, <1>11, PairStep

\* A run ends on a message.
LEMMA HearFits ==
  ASSUME PairInv, NEW p \in Builders, Hear(p)
  PROVE  PairInv'
<1> DEFINE at == builder[p].runs
           made == IF builder[p].server THEN [conn[p][at] EXCEPT !.sent = Append(@, "you too")]
             ELSE conn[p][at]
           turn == [builder[p] EXCEPT !.pc = "idle", !.inbox = Tail(@),
             !.heard = Head(builder[p].inbox).from]
<1>1. /\ PairTypes /\ builder[p] \in PairRuns /\ RunFits(p) /\ MessagesFit(p)
      /\ \A r \in 1..MaxRuns : conn[p][r] \in Connections /\ ConnectionFits(p, r)
  BY DEF PairInv, PairTypes
<1>2. /\ at \in 1..MaxRuns /\ at = builder[p].runs
      /\ builder[p].pc = "wait" /\ builder[p].inbox # <<>>
  BY <1>1, RunParts, PairingAssumption DEF RunFits, ConnectionFits, Unmade, At, Hear, Send
<1>3. /\ made \in Connections
      /\ made.to = conn[p][at].to /\ made.closed = conn[p][at].closed
  <2>1. conn[p][at].sent \in Seq(Greetings)
    BY <1>1, <1>2 DEF Connections, Greetings
  <2>2. Append(conn[p][at].sent, "you too") \in Seq(Greetings)
    BY <1>2, <2>1, PartsOfSequences DEF Greetings
  <2>3. [conn[p][at] EXCEPT !.sent = Append(@, "you too")] \in Connections
          /\ conn[p][at] \in Connections
    BY <1>1, <1>2, <2>2 DEF Connections, Greetings
  <2>4. CASE builder[p].server
    BY <2>3, <2>4 DEF Connections
  <2>5. CASE ~builder[p].server
    BY <2>3, <2>5
  <2> QED
    BY <2>4, <2>5
<1>4. /\ turn \in PairRuns
      /\ turn.pc = "idle" /\ turn.runs = builder[p].runs /\ turn.server = builder[p].server
           /\ turn.inbox = Tail(builder[p].inbox)
      /\ turn.heard = Head(builder[p].inbox).from /\ builder[p].inbox \in Seq(Messages)
           /\ turn.heard \in Builders
  <2>1. builder[p].inbox \in Seq(Messages)
    BY <1>1 DEF PairRuns
  <2>2. Tail(builder[p].inbox) \in Seq(Messages) /\ Head(builder[p].inbox) \in Messages
    BY <1>2, <2>1, PartsOfSequences
  <2>3. Head(builder[p].inbox).from \in Builders
    BY <2>2 DEF Messages
  <2> QED
    BY <1>1, <2>1, <2>2, <2>3 DEF PairRuns
<1>5. OnlyConnection(p, at, made)
  <2>1. CASE builder[p].server
    <3>1. conn' = [conn EXCEPT ![p][builder[p].runs].sent = Append(@, "you too")]
      BY <2>1 DEF Hear, Send
    <3> QED
      BY <1>1, <1>2, <1>3, <2>1, <3>1 DEF PairTypes, OnlyConnection
  <2>2. CASE ~builder[p].server
    BY <1>1, <1>2, <1>3, <2>2 DEF PairTypes, OnlyConnection, Hear
  <2> QED
    BY <2>1, <2>2
<1>6. OnlyRun(p, turn)
  BY <1>1, <1>4 DEF PairTypes, PairRuns, OnlyRun, Hear, Send
<1>7. Listens
  BY <1>1, PairingAssumption DEF PairTypes, Listens, Hear, Send
<1>8. Keeps(conn[p][at], made) /\ Unmade(made)
  BY <1>1, <1>2, <1>3, ConnectionParts, PairingAssumption DEF RunFits, ConnectionFits, Unmade,
     Keeps
<1>9. listener' = Nobody => made.to = Nobody /\ turn.inbox = <<>>
  BY <1>1, <1>2, <1>3, <1>4, <1>7 DEF ConnectionFits, MessagesFit, Listens
<1> HIDE DEF at, made, turn
<1>10. RunFits(p)'
  <2>1. /\ builder'[p] = turn /\ conn'[p][at] = made
        /\ \A u \in 1..MaxRuns : u # at => conn'[p][u] = conn[p][u]
    BY <1>2, <1>5, <1>6 DEF OnlyConnection, OnlyRun
  <2>2. ASSUME NEW u \in 1..MaxRuns, u > turn.runs PROVE conn'[p][u] = NoConnection
    BY <1>1, <1>2, <1>3, <1>4, <2>1, <2>2, RunParts, NewConnections DEF RunFits
  <2>3. turn.pc \in {"dial", "listen", "self"} => conn'[p][turn.runs] = NoConnection
    BY <1>1, <1>2, <1>3, <1>4, <2>1, RunParts, NewConnections DEF RunFits
  <2>4. turn.pc \in {"greet", "wait"}
          => conn'[p][turn.runs].to # Nobody /\ ~conn'[p][turn.runs].closed
    BY <1>1, <1>2, <1>3, <1>4, <2>1, RunParts, NewConnections DEF RunFits
  <2>5. turn.server /\ turn.pc \in {"self", "wait"} => Silent(p)'
    BY <1>1, <1>2, <1>3, <1>4, <2>1, RunParts, NewConnections DEF RunFits, Silent, Greeted
  <2>6. /\ turn.pc # "idle" => turn.runs \in 1..MaxRuns /\ turn.heard = Nobody
        /\ turn.pc \in {"dial", "listen", "greet"} => ~turn.server
        /\ turn.server => turn.heard # p
    <3>1. builder[p].server => Silent(p)
      BY <1>1, <1>2 DEF RunFits
    <3>2. 1 \in 1..Len(builder[p].inbox) /\ Head(builder[p].inbox) = builder[p].inbox[1]
      BY <1>2, <1>4
    <3>3. turn.server => turn.heard # p
      BY <1>4, <3>1, <3>2 DEF Silent
    <3> QED
      BY <1>4, <3>3
  <2> QED
    BY <2>1, <2>2, <2>3, <2>4, <2>5, <2>6 DEF RunFits
<1>11. HearsFrom(p, p, made, turn)
  <2>1. Len(builder[p].inbox) \in Nat \ {0} /\ Len(turn.inbox) = Len(builder[p].inbox) - 1
    BY <1>2, <1>4
  <2>2. Head(builder[p].inbox) = builder[p].inbox[1] /\ \A i \in 1..Len(turn.inbox) :
     turn.inbox[i] = builder[p].inbox[i + 1]
    BY <1>2, <1>4
  <2>3. \A i \in 1..Len(turn.inbox) : i + 1 \in 1..Len(builder[p].inbox)
    BY <2>1
  <2> QED
    BY <1>1, <1>4, <2>1, <2>2, <2>3 DEF MessagesFit, HearsFrom
<1> QED
  BY <1>1, <1>2, <1>3, <1>4, <1>5, <1>6, <1>7, <1>8, <1>9, <1>10, <1>11, PairStep

\* A run ends on its timeout.
LEMMA WaitTimesOutFits ==
  ASSUME PairInv, NEW p \in Builders, WaitTimesOut(p)
  PROVE  PairInv'
<1> DEFINE at == builder[p].runs
           made == conn[p][at]
           turn == [builder[p] EXCEPT !.pc = "idle"]
<1>1. /\ PairTypes /\ builder[p] \in PairRuns /\ RunFits(p) /\ MessagesFit(p)
      /\ \A r \in 1..MaxRuns : conn[p][r] \in Connections /\ ConnectionFits(p, r)
  BY DEF PairInv, PairTypes
<1>2. /\ at \in 1..MaxRuns /\ at = builder[p].runs
      /\ builder[p].pc = "wait"
  BY <1>1, RunParts, PairingAssumption DEF RunFits, ConnectionFits, Unmade, At, WaitTimesOut
<1>3. /\ made \in Connections
      /\ made = conn[p][at]
  BY <1>1, <1>2
<1>4. /\ turn \in PairRuns
      /\ turn.pc = "idle" /\ turn.runs = builder[p].runs /\ turn.server = builder[p].server
           /\ turn.inbox = builder[p].inbox
      /\ turn.heard = builder[p].heard
  BY <1>1, <1>2 DEF PairRuns
<1>5. OnlyConnection(p, at, made)
  BY <1>1, <1>2, <1>3 DEF PairTypes, OnlyConnection, WaitTimesOut
<1>6. OnlyRun(p, turn)
  BY <1>1, <1>4 DEF PairTypes, PairRuns, OnlyRun, WaitTimesOut
<1>7. Listens
  BY <1>1, PairingAssumption DEF PairTypes, Listens, WaitTimesOut
<1>8. Keeps(conn[p][at], made) /\ Unmade(made)
  BY <1>1, <1>2, <1>3, ConnectionParts, PairingAssumption DEF RunFits, ConnectionFits, Unmade,
     Keeps
<1>9. listener' = Nobody => made.to = Nobody /\ turn.inbox = <<>>
  BY <1>1, <1>2, <1>3, <1>4, <1>7 DEF ConnectionFits, MessagesFit, Listens
<1> HIDE DEF at, made, turn
<1>10. RunFits(p)'
  <2>1. /\ builder'[p] = turn /\ conn'[p][at] = made
        /\ \A u \in 1..MaxRuns : u # at => conn'[p][u] = conn[p][u]
    BY <1>2, <1>5, <1>6 DEF OnlyConnection, OnlyRun
  <2>2. ASSUME NEW u \in 1..MaxRuns, u > turn.runs PROVE conn'[p][u] = NoConnection
    BY <1>1, <1>2, <1>3, <1>4, <2>1, <2>2, RunParts, NewConnections DEF RunFits
  <2>3. turn.pc \in {"dial", "listen", "self"} => conn'[p][turn.runs] = NoConnection
    BY <1>1, <1>2, <1>3, <1>4, <2>1, RunParts, NewConnections DEF RunFits
  <2>4. turn.pc \in {"greet", "wait"}
          => conn'[p][turn.runs].to # Nobody /\ ~conn'[p][turn.runs].closed
    BY <1>1, <1>2, <1>3, <1>4, <2>1, RunParts, NewConnections DEF RunFits
  <2>5. turn.server /\ turn.pc \in {"self", "wait"} => Silent(p)'
    BY <1>1, <1>2, <1>3, <1>4, <2>1, RunParts, NewConnections DEF RunFits, Silent, Greeted
  <2>6. /\ turn.pc # "idle" => turn.runs \in 1..MaxRuns /\ turn.heard = Nobody
        /\ turn.pc \in {"dial", "listen", "greet"} => ~turn.server
        /\ turn.server => turn.heard # p
    BY <1>1, <1>2, <1>4, RunParts, PairingAssumption DEF RunFits, MessagesFit
  <2> QED
    BY <2>1, <2>2, <2>3, <2>4, <2>5, <2>6 DEF RunFits
<1>11. HearsFrom(p, p, made, turn)
  BY <1>1, <1>4, PairingAssumption DEF MessagesFit, HearsFrom
<1> QED
  BY <1>1, <1>2, <1>3, <1>4, <1>5, <1>6, <1>7, <1>8, <1>9, <1>10, <1>11, PairStep

\* Every step keeps the invariant.
LEMMA PairingKept == PairInv /\ [PairingNext]_pairingVars => PairInv'
<1> SUFFICES ASSUME PairInv, [PairingNext]_pairingVars PROVE PairInv'
  OBVIOUS
<1>1. CASE PairingNext
  <2>1. ASSUME NEW p \in Builders, RunBegin(p) PROVE PairInv'
    BY <2>1, RunBeginFits
  <2>2. ASSUME NEW p \in Builders, DialServer(p) PROVE PairInv'
    BY <2>2, DialServerFits
  <2>3. ASSUME NEW p \in Builders, DialFails(p) PROVE PairInv'
    BY <2>3, DialFailsFits
  <2>4. ASSUME NEW p \in Builders, CreateServer(p) PROVE PairInv'
    BY <2>4, CreateServerFits
  <2>5. ASSUME NEW p \in Builders, CreateServerFails(p) PROVE PairInv'
    BY <2>5, CreateServerFailsFits
  <2>6. ASSUME NEW p \in Builders, DialSelf(p) PROVE PairInv'
    BY <2>6, DialSelfFits
  <2>7. ASSUME NEW p \in Builders, SendHello(p) PROVE PairInv'
    BY <2>7, SendHelloFits
  <2>8. ASSUME NEW p \in Builders, Hear(p) PROVE PairInv'
    BY <2>8, HearFits
  <2>9. ASSUME NEW p \in Builders, WaitTimesOut(p) PROVE PairInv'
    BY <2>9, WaitTimesOutFits
  <2>10. ASSUME NEW p \in Builders, NEW r \in 1..MaxRuns, HandleClient(p, r) PROVE PairInv'
    BY <2>10, HandleClientFits
  <2>11. ASSUME NEW p \in Builders, NEW r \in 1..MaxRuns, ClientGone(p, r) PROVE PairInv'
    BY <2>11, ClientGoneFits
  <2>12. ASSUME NEW p \in Builders, NEW r \in 1..MaxRuns, NEW n \in 1..2, Accept(p, r, n)
     PROVE PairInv'
    BY <2>12, AcceptFits
  <2> QED
    BY <1>1, <2>1, <2>2, <2>3, <2>4, <2>5, <2>6, <2>7, <2>8, <2>9, <2>10, <2>11, <2>12 DEF
       PairingNext
<1>2. CASE UNCHANGED pairingVars
  <2>1. listener' = listener /\ conn' = conn /\ builder' = builder
    BY <1>2 DEF pairingVars
  <2>2. PairTypes'
    BY <2>1 DEF PairInv, PairTypes
  <2>3. ASSUME NEW p \in Builders PROVE RunFits(p)'
    <3>1. Silent(p)' = Silent(p)
      BY <2>1 DEF Silent
    <3> QED
      BY <2>1, <3>1 DEF PairInv, RunFits
  <2>4. ASSUME NEW p \in Builders PROVE MessagesFit(p)'
    BY <2>1 DEF PairInv, MessagesFit, Reached
  <2>5. ASSUME NEW p \in Builders, NEW r \in 1..MaxRuns PROVE ConnectionFits(p, r)'
    BY <2>1 DEF PairInv, ConnectionFits
  <2> QED
    BY <2>2, <2>3, <2>4, <2>5 DEF PairInv
<1> QED
  BY <1>1, <1>2

\* A run that listened has been found by its partner, which connected to it, and has
\* not heard itself: whatever the agents, the runs, and the order of what arrives.
THEOREM PartnersPaired == Spec => []PairedWithPartner
<1>1. Init => PairInv
  BY PairStart DEF Init
<1>2. PairInv /\ [Next]_vars => PairInv'
  BY PairingSteps, PairingKept
<1>3. PairInv => PairedWithPartner
  <2> SUFFICES ASSUME PairInv, NEW p \in Builders, builder[p].server, builder[p].heard # Nobody
               PROVE  LET q == builder[p].heard IN
                      q # p /\ \E r \in 1..MaxRuns : conn[q][r].to = p \/ conn[q][r].closed
    BY DEF PairedWithPartner
  <2>1. RunFits(p) /\ MessagesFit(p)
    BY DEF PairInv
  <2> QED
    BY <2>1 DEF RunFits, MessagesFit, Reached
<1> QED
  BY <1>1, <1>2, <1>3, PTL DEF Spec

-----------------------------------------------------------------------------
(* The search for the best reward                                           *)

\* The pages of a tab that the scan can come to, and the rewards of its first pages.
InReach(t) ==
  {j \in 1..Len(world[t]) : j <= MaxPagesScan + 1 /\ \A k \in 2..j : Rewards(world[t][k]) # {}}
Scanned(t, n) == UNION {Rewards(world[t][i]) : i \in 1..n}
All == Reachable(1) \cup Reachable(2)
OfTabsBefore(t) == IF t = 1 THEN {} ELSE Reachable(1)

\* The types of the lists and of the script.
WorldFits(w) ==
  \A t \in 1..2 :
    /\ Len(w[t]) \in Nat \ {0}
    /\ \A i \in 1..Len(w[t]) : \A r \in Rewards(w[t][i]) : r[2] \in Nat
JobFits ==
  /\ job = [pc |-> job.pc, searching |-> job.searching, tab |-> job.tab, count |-> job.count,
            found |-> job.found, goal |-> job.goal, answer |-> job.answer, missed |-> job.missed]
  /\ job.pc \in PCs /\ job.tab \in 1..2 /\ job.count \in 0..(MaxPagesSearch + 1)
  /\ job.searching \in BOOLEAN /\ job.answer \in BOOLEAN /\ job.missed \in BOOLEAN
FosterTypes ==
  /\ WorldFits(world) /\ JobFits
  /\ tab \in 1..2 /\ page \in 1..Len(world[tab])
  /\ job.pc = "idle" => page = 1 /\ ~job.searching

\* Where the script is on the tab it takes itself to be on.
PageFits ==
  ~job.missed /\ job.pc \in {"page", "next"} =>
    /\ tab = job.tab /\ 1 <= job.count /\ page <= job.count
    /\ page < Len(world[tab]) => page = job.count
    /\ ~job.searching => job.count <= MaxPagesScan + 1

\* What the scan has found: the rewards of the pages it went through, and at the end of
\* a tab all that are in reach.
ScanFits ==
  ~job.missed /\ ~job.searching =>
    /\ job.pc = "idle" => job.found = {} /\ job.tab = 1
    /\ job.pc = "tab" => job.found = OfTabsBefore(job.tab)
    /\ job.pc = "page" =>
         /\ OfTabsBefore(tab) \cup Scanned(tab, page - 1) \subseteq job.found
         /\ job.found \subseteq OfTabsBefore(tab) \cup Scanned(tab, page)
         /\ \A k \in 2..(page - 1) : Rewards(world[tab][k]) # {}
    /\ job.pc = "next" =>
         /\ job.found = OfTabsBefore(tab) \cup Scanned(tab, page)
         /\ \A k \in 2..page : Rewards(world[tab][k]) # {}
    /\ job.pc = "end" => job.found = OfTabsBefore(job.tab) \cup Reachable(job.tab)
    /\ job.pc = "goal" => job.found = All /\ job.tab = 1
    /\ job.pc = "done" => ~job.answer /\ All = {}

\* The search looks for the best of all, which is on a page it has still to come to.
StillAhead(t, j) ==
  /\ t \in 1..2 /\ j \in InReach(t) /\ job.goal \in Rewards(world[t][j])
  /\ job.tab <= t
  /\ job.pc = "page" /\ job.tab = t => page <= j
  /\ job.pc = "next" /\ job.tab = t => page < j
  /\ job.pc = "end" => job.tab < t
SearchFits ==
  ~job.missed /\ job.searching =>
    /\ job.goal \in All /\ \A r \in All : ~Before(r, job.goal)
    /\ IF job.pc = "done" THEN job.answer /\ clicked = job.goal
       ELSE job.pc # "goal" /\ \E t, j \in Nat : StillAhead(t, j)

FosterInv == FosterTypes /\ PageFits /\ ScanFits /\ SearchFits

\* What is in reach, and what is found of it, depends on the lists only.
LEMMA SameLists ==
  ASSUME world' = world
  PROVE  /\ All' = All
         /\ \A t \in 1..2 : /\ InReach(t)' = InReach(t) /\ Reachable(t)' = Reachable(t)
                            /\ OfTabsBefore(t)' = OfTabsBefore(t)
         /\ \A t \in 1..2, n \in Nat : Scanned(t, n)' = Scanned(t, n)
BY DEF All, InReach, Reachable, OfTabsBefore, Scanned, Rewards

\* What is reachable is on a page in reach.
LEMMA ReachableRewards ==
  ASSUME NEW t \in 1..2, NEW r
  PROVE  r \in Reachable(t) <=> \E j \in InReach(t) : r \in Rewards(world[t][j])
BY DEF Reachable, InReach

\* What the first pages show, page by page.
LEMMA ScannedPages ==
  ASSUME NEW t \in 1..2
  PROVE  /\ Scanned(t, 0) = {}
         /\ \A n \in Nat : Scanned(t, n + 1) = Scanned(t, n) \cup Rewards(world[t][n + 1])
BY DEF Scanned

\* At the end of a tab the scan has found all that is in reach.
LEMMA TabScanned ==
  ASSUME NEW t \in 1..2, NEW n \in 1..Len(world[t]), Len(world[t]) \in Nat, n <= MaxPagesScan + 1,
         \A k \in 2..n : Rewards(world[t][k]) # {},
         n = Len(world[t]) \/ n = MaxPagesScan + 1 \/ Rewards(world[t][n + 1]) = {}
  PROVE  Scanned(t, n) = Reachable(t)
<1>1. 1..n \subseteq InReach(t)
  BY FosterAssumption DEF InReach
<1>2. ASSUME NEW j \in InReach(t) PROVE j \in 1..n
  <2>1. j \in 1..Len(world[t]) /\ j <= MaxPagesScan + 1
          /\ \A k \in 2..j : Rewards(world[t][k]) # {}
    BY DEF InReach
  <2>2. CASE Rewards(world[t][n + 1]) = {}
    <3>1. n + 1 \notin 2..j
      BY <2>1, <2>2
    <3> QED
      BY <2>1, <3>1
  <2> QED
    BY <2>1, <2>2, FosterAssumption
<1> QED
  BY <1>1, <1>2, ReachableRewards DEF Scanned

\* The goal stays the best as long as there is a page ahead that shows it.
LEMMA SearchGoesOn ==
  ASSUME SearchFits, ~job.missed, job.searching, world' = world, preferred' = preferred,
         job'.goal = job.goal, job'.pc \notin {"done", "goal"},
         NEW t \in Nat, NEW j \in Nat, StillAhead(t, j)'
  PROVE  SearchFits'
<1>1. All' = All /\ \A r : Before(r, job.goal)' = Before(r, job.goal)
  BY SameLists DEF Before
<1>2. job.goal \in All /\ \A r \in All : ~Before(r, job.goal)
  BY DEF SearchFits
<1> QED
  BY <1>1, <1>2 DEF SearchFits, Before

\* A tab is opened at its first page.
LEMMA ClickTabFits ==
  ASSUME FosterInv, NEW ok \in BOOLEAN, ClickTab(ok)
  PROVE  FosterInv'
<1>1. FosterTypes /\ JobFits /\ PageFits /\ ScanFits /\ SearchFits
  BY DEF FosterInv, FosterTypes
<1>2. /\ job'.pc = "page" /\ job'.searching = job.searching /\ job'.tab = job.tab
      /\ job'.count = 1 /\ job'.found = job.found /\ job'.goal = job.goal
      /\ job'.answer = job.answer /\ job'.missed = (job.missed \/ ~ok)
  BY <1>1 DEF JobFits, ClickTab
<1>3. JobFits'
  <2>1. job' = [pc |-> job'.pc, searching |-> job'.searching, tab |-> job'.tab,
                count |-> job'.count, found |-> job'.found, goal |-> job'.goal,
                answer |-> job'.answer, missed |-> job'.missed]
    BY <1>1 DEF JobFits, ClickTab
  <2>2. job'.pc \in PCs /\ job'.tab \in 1..2 /\ job'.count \in 0..(MaxPagesSearch + 1)
    BY <1>1, <1>2, FosterAssumption DEF JobFits, PCs, ClickTab
  <2>3. job'.searching \in BOOLEAN /\ job'.answer \in BOOLEAN /\ job'.missed \in BOOLEAN
    BY <1>1, <1>2 DEF JobFits, ClickTab
  <2> QED
    BY <2>1, <2>2, <2>3 DEF JobFits
<1>4. world' = world /\ preferred' = preferred /\ IF ok THEN tab' = job.tab /\ page' = 1 ELSE
   tab' = tab /\ page' = page
  BY DEF ClickTab
<1>5. FosterTypes'
  <2>1. tab' \in 1..2 /\ page' \in 1..Len(world[tab'])
    <3>1. CASE ok
      <4>1. tab' \in 1..2 /\ page' = 1 /\ Len(world[tab']) \in Nat \ {0}
        BY <1>1, <1>4, <3>1 DEF FosterTypes, JobFits, WorldFits
      <4> QED
        BY <4>1
    <3>2. CASE ~ok
      BY <1>1, <1>4, <3>2 DEF FosterTypes
    <3> QED
      BY <3>1, <3>2
  <2>2. WorldFits(world')
    BY <1>1, <1>4 DEF FosterTypes
  <2> QED
    BY <1>2, <1>3, <1>4, <2>1, <2>2 DEF FosterTypes, WorldFits
<1>6. PageFits'
  <2> SUFFICES ASSUME ~job'.missed PROVE PageFits'
    BY DEF PageFits
  <2>1. ok
    BY <1>2
  <2> QED
    BY <1>2, <1>4, <2>1, FosterAssumption DEF PageFits
<1>7. ScanFits'
  <2> SUFFICES ASSUME ~job'.missed, ~job'.searching PROVE ScanFits'
    BY DEF ScanFits
  <2>1. ok /\ ~job.missed /\ ~job.searching /\ job.tab \in 1..2
    BY <1>1, <1>2 DEF JobFits
  <2>2. job.found = OfTabsBefore(job.tab)
    BY <1>1, <2>1 DEF ScanFits, ClickTab
  <2>3. tab' = job.tab /\ page' = 1
    BY <1>4, <2>1
  <2>4. \A t \in 1..2 : OfTabsBefore(t)' = OfTabsBefore(t) /\ Scanned(t, 0)' = {}
    BY <1>4, SameLists, ScannedPages
  <2> QED
    BY <1>2, <2>1, <2>2, <2>3, <2>4 DEF ScanFits
<1>8. SearchFits'
  <2> SUFFICES ASSUME ~job'.missed, job'.searching PROVE SearchFits'
    BY DEF SearchFits
  <2>1. ~job.missed /\ job.searching /\ ok
    BY <1>1, <1>2 DEF JobFits
  <2>2. PICK t, j \in Nat : StillAhead(t, j)
    BY <1>1, <2>1 DEF SearchFits, ClickTab
  <2>3. j \in InReach(t) /\ t \in 1..2 /\ j \in 1..Len(world[t]) /\ j <= MaxPagesScan + 1
    BY <2>2 DEF StillAhead, InReach
  <2>4. StillAhead(t, j)'
    BY <1>2, <1>4, <2>1, <2>2, <2>3, SameLists DEF StillAhead
  <2> QED
    BY <1>1, <1>2, <1>4, <2>1, <2>4, SearchGoesOn
<1> QED
  BY <1>5, <1>6, <1>7, <1>8 DEF FosterInv

\* A page is scanned.
LEMMA ScanPageFits ==
  ASSUME FosterInv, NEW got \in SUBSET Rewards(Shown), ScanPage(got)
  PROVE  FosterInv'
<1>1. FosterTypes /\ JobFits /\ PageFits /\ ScanFits /\ SearchFits
  BY DEF FosterInv, FosterTypes
<1>2. /\ job'.pc = AfterPage(got = {}) /\ job'.searching = job.searching /\ job'.tab = job.tab
      /\ job'.count = job.count /\ job'.found = job.found \cup got /\ job'.goal = job.goal
      /\ job'.answer = job.answer /\ job'.missed = (job.missed \/ got # Rewards(Shown))
  BY <1>1 DEF JobFits, ScanPage, AfterPage
<1>3. JobFits'
  <2>1. job' = [pc |-> job'.pc, searching |-> job'.searching, tab |-> job'.tab,
                count |-> job'.count, found |-> job'.found, goal |-> job'.goal,
                answer |-> job'.answer, missed |-> job'.missed]
    BY <1>1 DEF JobFits, ScanPage, AfterPage
  <2>2. job'.pc \in PCs /\ job'.tab \in 1..2 /\ job'.count \in 0..(MaxPagesSearch + 1)
    BY <1>1, <1>2, FosterAssumption DEF JobFits, PCs, ScanPage, AfterPage
  <2>3. job'.searching \in BOOLEAN /\ job'.answer \in BOOLEAN /\ job'.missed \in BOOLEAN
    BY <1>1, <1>2 DEF JobFits, ScanPage, AfterPage
  <2> QED
    BY <2>1, <2>2, <2>3 DEF JobFits
<1>4. world' = world /\ preferred' = preferred /\ tab' = tab /\ page' = page
  BY DEF ScanPage, AfterPage
<1>5. FosterTypes'
  BY <1>1, <1>2, <1>3, <1>4 DEF FosterTypes, WorldFits, ScanPage, AfterPage
<1>6. PageFits'
  BY <1>1, <1>2, <1>4, FosterAssumption DEF FosterTypes, JobFits, PageFits, ScanPage, AfterPage
<1>7. ScanFits'
  <2> SUFFICES ASSUME ~job'.missed, ~job'.searching PROVE ScanFits'
    BY DEF ScanFits
  <2>1. ~job.missed /\ ~job.searching /\ got = Rewards(world[tab][page]) /\ job.pc = "page"
    BY <1>1, <1>2 DEF JobFits, ScanPage, Shown
  <2>2. PICK t \in 1..2, n \in Nat : t = tab /\ n = page /\ n \in 1..Len(world[t])
    BY <1>1 DEF FosterTypes
  <2>3. Len(world[t]) \in Nat /\ n \in Nat /\ n - 1 \in Nat /\ (n - 1) + 1 = n
    BY <1>1, <2>2 DEF FosterTypes, WorldFits
  <2>4. /\ t = job.tab /\ job.count \in Nat /\ n <= job.count /\ job.count <= MaxPagesScan + 1
        /\ n < Len(world[t]) => n = job.count
    BY <1>1, <2>1, <2>2, FosterAssumption DEF PageFits, JobFits
  <2>5. /\ OfTabsBefore(t) \cup Scanned(t, n - 1) \subseteq job.found
        /\ job.found \subseteq OfTabsBefore(t) \cup Scanned(t, n)
        /\ \A k \in 2..(n - 1) : Rewards(world[t][k]) # {}
    BY <1>1, <2>1, <2>2 DEF ScanFits
  <2>6. Scanned(t, n) = Scanned(t, n - 1) \cup got
    BY <2>1, <2>2, <2>3, ScannedPages
  <2>7. job'.found = OfTabsBefore(t) \cup Scanned(t, n)
    BY <1>2, <2>5, <2>6
  <2>8. /\ OfTabsBefore(t)' = OfTabsBefore(t) /\ Scanned(t, n)' = Scanned(t, n)
        /\ Reachable(t)' = Reachable(t) /\ tab' = t /\ page' = n /\ world' = world
    BY <1>4, <2>2, <2>3, SameLists
  <2>9. CASE got = {} /\ job.count > 1
    <3>1. job'.pc = "end"
      BY <1>2, <2>9 DEF AfterPage
    <3>2. Scanned(t, n) = Reachable(t)
      <4>1. CASE n = 1
        <5>0. ~(n < Len(world[t]))
          BY <2>4, <2>9, <4>1
        <5>1. n = Len(world[t])
          BY <2>2, <2>3, <5>0
        <5>3. n <= MaxPagesScan + 1
          BY <4>1, FosterAssumption
        <5>2. \A k \in 2..n : Rewards(world[t][k]) # {}
          BY <4>1
        <5> QED
          BY <2>2, <2>3, <5>1, <5>2, <5>3, TabScanned
      <4>2. CASE n # 1
        <5>1. n - 1 \in 1..Len(world[t]) /\ n - 1 <= MaxPagesScan + 1
                /\ Rewards(world[t][(n - 1) + 1]) = {}
          BY <2>1, <2>2, <2>3, <2>4, <2>9, <4>2, FosterAssumption
        <5>2. Scanned(t, n - 1) = Reachable(t)
          BY <2>3, <2>5, <5>1, TabScanned
        <5> QED
          BY <2>6, <2>9, <5>2
      <4> QED
        BY <4>1, <4>2
    <3> QED
      BY <1>2, <2>4, <2>7, <2>8, <3>1, <3>2 DEF ScanFits
  <2>10. CASE ~(got = {} /\ job.count > 1)
    <3>1. job'.pc = "next"
      BY <1>2, <2>10 DEF AfterPage
    <3>2. \A k \in 2..n : Rewards(world[t][k]) # {}
      <4>1. n >= 2 => Rewards(world[t][n]) # {}
        BY <2>1, <2>2, <2>3, <2>4, <2>10
      <4> QED
        BY <2>3, <2>5, <4>1
    <3> QED
      BY <2>7, <2>8, <3>1, <3>2 DEF ScanFits
  <2> QED
    BY <2>9, <2>10
<1>8. SearchFits'
  BY <1>1, <1>2, <1>4, SameLists DEF FosterTypes, JobFits, PageFits, SearchFits, StillAhead,
     ScanPage, AfterPage
<1> QED
  BY <1>5, <1>6, <1>7, <1>8 DEF FosterInv

\* A page is searched for the goal.
LEMMA SearchPageFits ==
  ASSUME FosterInv, NEW hit \in BOOLEAN, SearchPage(hit)
  PROVE  FosterInv'
<1>1. FosterTypes /\ JobFits /\ PageFits /\ ScanFits /\ SearchFits
  BY DEF FosterInv, FosterTypes
<1>2. /\ job'.searching = job.searching /\ job'.tab = job.tab /\ job'.count = job.count
      /\ job'.found = job.found /\ job'.goal = job.goal
  BY <1>1 DEF JobFits, SearchPage, AfterPage
<1>3. JobFits'
  <2>1. job' = [pc |-> job'.pc, searching |-> job'.searching, tab |-> job'.tab,
                count |-> job'.count, found |-> job'.found, goal |-> job'.goal,
                answer |-> job'.answer, missed |-> job'.missed]
    BY <1>1 DEF JobFits, SearchPage, AfterPage
  <2>2. job'.pc \in PCs /\ job'.tab \in 1..2 /\ job'.count \in 0..(MaxPagesSearch + 1)
    BY <1>1, <1>2, FosterAssumption DEF JobFits, PCs, SearchPage, AfterPage
  <2>3. job'.searching \in BOOLEAN /\ job'.answer \in BOOLEAN /\ job'.missed \in BOOLEAN
    BY <1>1, <1>2 DEF JobFits, SearchPage, AfterPage
  <2> QED
    BY <2>1, <2>2, <2>3 DEF JobFits
<1>4. world' = world /\ preferred' = preferred /\ tab' = tab /\ page' = page
  BY DEF SearchPage, AfterPage
<1>5. FosterTypes'
  <2>1. job'.pc # "idle"
    BY <1>1 DEF JobFits, SearchPage, AfterPage
  <2> QED
    BY <1>1, <1>3, <1>4, <2>1 DEF FosterTypes, WorldFits
<1>6. PageFits'
  BY <1>1, <1>2, <1>4, FosterAssumption DEF FosterTypes, JobFits, PageFits, SearchPage, AfterPage
<1>7. ScanFits'
  BY <1>1, <1>2, <1>4, SameLists DEF FosterTypes, JobFits, PageFits, ScanFits, SearchPage,
     AfterPage
<1>8. SearchFits'
  <2> SUFFICES ASSUME ~job'.missed, job'.searching PROVE SearchFits'
    BY DEF SearchFits
  <2>1. ~job.missed /\ job.searching /\ job.pc = "page"
    BY <1>1, <1>2 DEF JobFits, SearchPage
  <2>2. PICK t, j \in Nat : StillAhead(t, j)
    BY <1>1, <2>1 DEF SearchFits
  <2>3. t \in 1..2 /\ j \in 1..Len(world[t]) /\ j <= MaxPagesScan + 1 /\ \A k \in 2..j :
     Rewards(world[t][k]) # {}
    BY <2>2 DEF StillAhead, InReach
  <2>4. CASE hit
    <3>1. job'.pc = "done" /\ job'.answer /\ clicked' = job.goal
      BY <1>1, <2>4 DEF SearchPage, JobFits
    <3>2. All' = All /\ \A r : Before(r, job.goal)' = Before(r, job.goal)
      BY <1>2, <1>4, SameLists DEF Before
    <3>3. job.goal \in All /\ \A r \in All : ~Before(r, job.goal)
      BY <1>1, <2>1 DEF SearchFits
    <3> QED
      BY <1>2, <1>4, <3>1, <3>2, <3>3 DEF SearchFits, Before
  <2>5. CASE ~hit
    <3>1. PICK seen \in BOOLEAN : job' = [job EXCEPT !.pc = AfterPage(~seen),
                                     !.missed = @ \/ job.goal \in Shown \/ seen # (Shown # {})]
      BY <2>5 DEF SearchPage
    <3>2. job'.pc = AfterPage(~seen) /\ job'.missed = (job.missed \/ job.goal \in Shown \/
       seen # (Shown # {}))
      BY <1>1, <3>1 DEF JobFits
    <3>3. job.goal \notin Shown /\ (Shown = {} => ~seen) /\ (~seen => Shown = {})
      BY <3>2
    <3>4. tab = job.tab /\ job.count \in Nat /\ (page < Len(world[tab]) => page = job.count)
       /\ page \in Nat /\ Len(world[tab]) \in Nat /\ page >= 1
      BY <1>1, <2>1, FosterAssumption DEF FosterTypes, PageFits, JobFits, WorldFits
    <3>5. job.tab = t => page < j
      <4>1. job.tab = t => page <= j
        BY <2>1, <2>2 DEF StillAhead
      <4>2. ~(job.tab = t /\ page = j)
        BY <2>2, <3>3, <3>4 DEF StillAhead, Shown, Rewards
      <4> QED
        BY <2>2, <3>4, <4>1, <4>2
    <3>6. CASE ~seen /\ job.count > 1
      <4>1. job.tab # t
        <5> SUFFICES ASSUME job.tab = t PROVE FALSE
          OBVIOUS
        <5>1. page < Len(world[tab]) /\ page = job.count /\ page \in 2..j
          BY <2>3, <3>4, <3>5, <3>6
        <5>2. Rewards(world[tab][page]) # {}
          BY <2>3, <3>4, <5>1
        <5> QED
          BY <3>3, <3>6, <5>2 DEF Shown, Rewards
      <4>2. job'.pc = "end"
        BY <3>2, <3>6 DEF AfterPage
      <4>3. job.tab < t
        BY <1>1, <2>2, <2>3, <4>1 DEF StillAhead, JobFits
      <4>4. StillAhead(t, j)'
        BY <1>2, <1>4, <2>2, <2>3, <4>2, <4>3, SameLists DEF StillAhead
      <4> QED
        BY <1>1, <1>2, <1>4, <2>1, <4>2, <4>4, SearchGoesOn
    <3>7. CASE ~(~seen /\ job.count > 1)
      <4>1. job'.pc = "next"
        BY <3>2, <3>7 DEF AfterPage
      <4>2. StillAhead(t, j)'
        BY <1>2, <1>4, <2>2, <2>3, <3>5, <4>1, SameLists DEF StillAhead
      <4> QED
        BY <1>1, <1>2, <1>4, <2>1, <4>1, <4>2, SearchGoesOn
    <3> QED
      BY <3>6, <3>7
  <2> QED
    BY <2>4, <2>5
<1> QED
  BY <1>5, <1>6, <1>7, <1>8 DEF FosterInv

\* A screenshot fails.
LEMMA SearchBlindFits ==
  ASSUME FosterInv, SearchBlind
  PROVE  FosterInv'
<1>1. FosterTypes /\ JobFits /\ PageFits /\ ScanFits /\ SearchFits
  BY DEF FosterInv, FosterTypes
<1>2. /\ job'.pc = job.pc /\ job'.searching = job.searching /\ job'.tab = job.tab
      /\ job'.found = job.found /\ job'.goal = job.goal /\ job'.answer = job.answer
      /\ job'.missed = TRUE
  BY <1>1 DEF JobFits, SearchBlind, Screen
<1>3. JobFits'
  <2>1. job' = [pc |-> job'.pc, searching |-> job'.searching, tab |-> job'.tab,
                count |-> job'.count, found |-> job'.found, goal |-> job'.goal,
                answer |-> job'.answer, missed |-> job'.missed]
    BY <1>1 DEF JobFits, SearchBlind, Screen
  <2>2. job'.pc \in PCs /\ job'.tab \in 1..2 /\ job'.count \in 0..(MaxPagesSearch + 1)
    BY <1>1, <1>2, FosterAssumption DEF JobFits, PCs, SearchBlind, Screen
  <2>3. job'.searching \in BOOLEAN /\ job'.answer \in BOOLEAN /\ job'.missed \in BOOLEAN
    BY <1>1, <1>2 DEF JobFits, SearchBlind, Screen
  <2> QED
    BY <2>1, <2>2, <2>3 DEF JobFits
<1>4. world' = world /\ preferred' = preferred /\ tab' = tab /\ page' = page
  BY DEF SearchBlind, Screen
<1>5. FosterTypes'
  BY <1>1, <1>2, <1>3, <1>4 DEF FosterTypes, WorldFits, SearchBlind, Screen
<1>6. PageFits'
  BY <1>1, <1>2, <1>4, FosterAssumption DEF FosterTypes, JobFits, PageFits, SearchBlind, Screen
<1>7. ScanFits'
  BY <1>1, <1>2, <1>4, SameLists DEF FosterTypes, JobFits, PageFits, ScanFits, SearchBlind, Screen
<1>8. SearchFits'
  BY <1>1, <1>2, <1>4, SameLists DEF FosterTypes, JobFits, PageFits, SearchFits, StillAhead,
     SearchBlind, Screen
<1> QED
  BY <1>5, <1>6, <1>7, <1>8 DEF FosterInv

\* The list goes no further.
LEMMA NextPageFailsFits ==
  ASSUME FosterInv, NextPageFails
  PROVE  FosterInv'
<1>1. FosterTypes /\ JobFits /\ PageFits /\ ScanFits /\ SearchFits
  BY DEF FosterInv, FosterTypes
<1>2. /\ job'.pc = "end" /\ job'.searching = job.searching /\ job'.tab = job.tab
      /\ job'.count = job.count /\ job'.found = job.found /\ job'.goal = job.goal
      /\ job'.answer = job.answer /\ job'.missed = (job.missed \/ page < Len(world[tab]))
  BY <1>1 DEF JobFits, NextPageFails, Screen
<1>3. JobFits'
  <2>1. job' = [pc |-> job'.pc, searching |-> job'.searching, tab |-> job'.tab,
                count |-> job'.count, found |-> job'.found, goal |-> job'.goal,
                answer |-> job'.answer, missed |-> job'.missed]
    BY <1>1 DEF JobFits, NextPageFails, Screen
  <2>2. job'.pc \in PCs /\ job'.tab \in 1..2 /\ job'.count \in 0..(MaxPagesSearch + 1)
    BY <1>1, <1>2, FosterAssumption DEF JobFits, PCs, NextPageFails, Screen
  <2>3. job'.searching \in BOOLEAN /\ job'.answer \in BOOLEAN /\ job'.missed \in BOOLEAN
    BY <1>1, <1>2 DEF JobFits, NextPageFails, Screen
  <2> QED
    BY <2>1, <2>2, <2>3 DEF JobFits
<1>4. world' = world /\ preferred' = preferred /\ tab' = tab /\ page' = page
  BY DEF NextPageFails, Screen
<1>5. FosterTypes'
  BY <1>1, <1>2, <1>3, <1>4 DEF FosterTypes, WorldFits, NextPageFails, Screen
<1>6. PageFits'
  BY <1>1, <1>2, <1>4, FosterAssumption DEF FosterTypes, JobFits, PageFits, NextPageFails, Screen
<1>7. ScanFits'
  <2> SUFFICES ASSUME ~job'.missed, ~job'.searching PROVE ScanFits'
    BY DEF ScanFits
  <2>1. ~job.missed /\ ~job.searching /\ ~(page < Len(world[tab])) /\ job.pc = "next"
    BY <1>1, <1>2 DEF JobFits, NextPageFails
  <2>2. PICK t \in 1..2, n \in Nat : t = tab /\ n = page /\ n \in 1..Len(world[t])
    BY <1>1 DEF FosterTypes
  <2>3. Len(world[t]) \in Nat /\ n = Len(world[t]) /\ t = job.tab /\ n <= MaxPagesScan + 1
    BY <1>1, <2>1, <2>2, FosterAssumption DEF FosterTypes, WorldFits, PageFits, JobFits
  <2>4. job.found = OfTabsBefore(t) \cup Scanned(t, n) /\ \A k \in 2..n : Rewards(world[t][k])
     # {}
    BY <1>1, <2>1, <2>2 DEF ScanFits
  <2>5. Scanned(t, n) = Reachable(t)
    BY <2>2, <2>3, <2>4, TabScanned
  <2>6. OfTabsBefore(t)' = OfTabsBefore(t) /\ Reachable(t)' = Reachable(t)
    BY <1>4, SameLists
  <2> QED
    BY <1>2, <2>3, <2>4, <2>5, <2>6 DEF ScanFits
<1>8. SearchFits'
  <2> SUFFICES ASSUME ~job'.missed, job'.searching PROVE SearchFits'
    BY DEF SearchFits
  <2>1. ~job.missed /\ job.searching /\ ~(page < Len(world[tab])) /\ job.pc = "next"
          /\ tab = job.tab
    BY <1>1, <1>2 DEF JobFits, PageFits, NextPageFails
  <2>2. PICK t, j \in Nat : StillAhead(t, j)
    BY <1>1, <2>1 DEF SearchFits
  <2>3. t \in 1..2 /\ j \in 1..Len(world[t])
    BY <2>2 DEF StillAhead, InReach
  <2>4. job.tab < t
    BY <1>1, <2>1, <2>2, <2>3 DEF StillAhead, JobFits, FosterTypes, WorldFits
  <2>5. StillAhead(t, j)'
    BY <1>2, <1>4, <2>2, <2>3, <2>4, SameLists DEF StillAhead
  <2> QED
    BY <1>1, <1>2, <1>4, <2>1, <2>5, SearchGoesOn
<1> QED
  BY <1>5, <1>6, <1>7, <1>8 DEF FosterInv

\* The next page is shown.
LEMMA NextPageFits ==
  ASSUME FosterInv, NextPage
  PROVE  FosterInv'
<1>1. FosterTypes /\ JobFits /\ PageFits /\ ScanFits /\ SearchFits
  BY DEF FosterInv, FosterTypes
<1>2. /\ job'.searching = job.searching /\ job'.tab = job.tab /\ job'.found = job.found
      /\ job'.goal = job.goal /\ job'.answer = job.answer /\ job'.missed = job.missed
  BY <1>1 DEF JobFits, NextPage, Limit
<1>3. JobFits'
  <2>1. job' = [pc |-> job'.pc, searching |-> job'.searching, tab |-> job'.tab,
                count |-> job'.count, found |-> job'.found, goal |-> job'.goal,
                answer |-> job'.answer, missed |-> job'.missed]
    BY <1>1 DEF JobFits, NextPage, Limit
  <2>2. job'.pc \in PCs /\ job'.tab \in 1..2 /\ job'.count \in 0..(MaxPagesSearch + 1)
    BY <1>1, <1>2, FosterAssumption DEF JobFits, PCs, NextPage, Limit
  <2>3. job'.searching \in BOOLEAN /\ job'.answer \in BOOLEAN /\ job'.missed \in BOOLEAN
    BY <1>1, <1>2 DEF JobFits, NextPage, Limit
  <2> QED
    BY <2>1, <2>2, <2>3 DEF JobFits
<1>4. world' = world /\ preferred' = preferred /\ tab' = tab /\ page' = IF page <
   Len(world[tab]) THEN page + 1 ELSE page
  BY DEF NextPage, Limit
<1>5. FosterTypes'
  BY <1>1, <1>2, <1>3, <1>4 DEF FosterTypes, WorldFits, NextPage, Limit
<1>6. PageFits'
  BY <1>1, <1>2, <1>4, FosterAssumption DEF FosterTypes, JobFits, PageFits, NextPage, Limit
<1>7. ScanFits'
  <2> SUFFICES ASSUME ~job'.missed, ~job'.searching PROVE ScanFits'
    BY DEF ScanFits
  <2>1. ~job.missed /\ ~job.searching /\ job.pc = "next"
    BY <1>1, <1>2 DEF JobFits, NextPage
  <2>2. PICK t \in 1..2, n \in Nat : t = tab /\ n = page /\ n \in 1..Len(world[t])
    BY <1>1 DEF FosterTypes
  <2>3. Len(world[t]) \in Nat /\ n \in Nat /\ n - 1 \in Nat /\ (n - 1) + 1 = n
    BY <1>1, <2>2 DEF FosterTypes, WorldFits
  <2>4. /\ t = job.tab /\ job.count \in Nat /\ n <= job.count /\ job.count <= MaxPagesScan + 1
        /\ n < Len(world[t]) => n = job.count
    BY <1>1, <2>1, <2>2, FosterAssumption DEF PageFits, JobFits
  <2>5. job.found = OfTabsBefore(t) \cup Scanned(t, n) /\ \A k \in 2..n : Rewards(world[t][k])
     # {}
    BY <1>1, <2>1, <2>2 DEF ScanFits
  <2>6. /\ \A k \in Nat : Scanned(t, k)' = Scanned(t, k)
        /\ OfTabsBefore(t)' = OfTabsBefore(t) /\ Reachable(t)' = Reachable(t) /\ tab' = t
             /\ world' = world
    BY <1>4, <2>2, SameLists
  <2>7. CASE job.count > MaxPagesScan
    <3>1. job'.pc = "end"
      BY <1>1, <2>1, <2>7 DEF NextPage, Limit, JobFits
    <3>2. Scanned(t, n) = Reachable(t)
      <4>1. n <= MaxPagesScan + 1 /\ (n = Len(world[t]) \/ n = MaxPagesScan + 1)
        BY <2>2, <2>3, <2>4, <2>7, FosterAssumption
      <4> QED
        BY <2>2, <2>3, <2>5, <4>1, TabScanned
    <3> QED
      BY <1>2, <2>4, <2>5, <2>6, <3>1, <3>2 DEF ScanFits
  <2>8. CASE ~(job.count > MaxPagesScan)
    <3>1. job'.pc = "page"
      BY <1>1, <2>1, <2>8 DEF NextPage, Limit, JobFits
    <3>2. Scanned(t, n - 1) \subseteq Scanned(t, n) /\ Scanned(t, n) \subseteq Scanned(t, n + 1)
      BY <2>3, ScannedPages
    <3>3. CASE n < Len(world[t])
      <4>1. page' = n + 1 /\ page' - 1 = n /\ page' \in Nat
        BY <1>4, <2>2, <2>3, <3>3
      <4>2. Scanned(tab, page - 1)' = Scanned(t, n) /\ Scanned(tab, page)' = Scanned(t, n + 1)
        BY <2>3, <2>6, <4>1
      <4> QED
        BY <1>2, <2>5, <2>6, <3>1, <3>2, <4>1, <4>2 DEF ScanFits
    <3>4. CASE ~(n < Len(world[t]))
      <4>1. page' = n
        BY <1>4, <2>2, <3>4
      <4>2. Scanned(tab, page - 1)' = Scanned(t, n - 1) /\ Scanned(tab, page)' = Scanned(t, n)
        BY <2>3, <2>6, <4>1
      <4> QED
        BY <1>2, <2>3, <2>5, <2>6, <3>1, <3>2, <4>1, <4>2 DEF ScanFits
    <3> QED
      BY <3>3, <3>4
  <2> QED
    BY <2>7, <2>8
<1>8. SearchFits'
  <2> SUFFICES ASSUME ~job'.missed, job'.searching PROVE SearchFits'
    BY DEF SearchFits
  <2>1. ~job.missed /\ job.searching /\ job.pc = "next" /\ tab = job.tab
    BY <1>1, <1>2 DEF JobFits, PageFits, NextPage
  <2>2. PICK t, j \in Nat : StillAhead(t, j)
    BY <1>1, <2>1 DEF SearchFits
  <2>3. t \in 1..2 /\ j \in 1..Len(world[t]) /\ j <= MaxPagesScan + 1
    BY <2>2 DEF StillAhead, InReach
  <2>4. /\ page \in Nat /\ job.count \in Nat /\ Len(world[tab]) \in Nat
        /\ page < Len(world[tab]) => page = job.count
    BY <1>1, <2>1, FosterAssumption DEF FosterTypes, PageFits, JobFits, WorldFits
  <2>5. job.tab = t => page < j
    BY <2>1, <2>2 DEF StillAhead
  <2>6. CASE job.count > MaxPagesSearch
    <3>1. job'.pc = "end"
      BY <1>1, <2>1, <2>6 DEF NextPage, Limit, JobFits
    <3>2. job.tab # t
      BY <2>1, <2>2, <2>3, <2>4, <2>5, <2>6, FosterAssumption
    <3>3. job.tab < t
      BY <1>1, <2>2, <2>3, <3>2 DEF StillAhead, JobFits
    <3>4. StillAhead(t, j)'
      BY <1>2, <1>4, <2>2, <2>3, <3>1, <3>3, SameLists DEF StillAhead
    <3> QED
      BY <1>1, <1>2, <1>4, <2>1, <3>1, <3>4, SearchGoesOn
  <2>7. CASE ~(job.count > MaxPagesSearch)
    <3>1. job'.pc = "page"
      BY <1>1, <2>1, <2>7 DEF NextPage, Limit, JobFits
    <3>2. job.tab = t => page' <= j
      BY <1>4, <2>2, <2>4, <2>5
    <3>3. StillAhead(t, j)'
      BY <1>2, <1>4, <2>2, <2>3, <3>1, <3>2, SameLists DEF StillAhead
    <3> QED
      BY <1>1, <1>2, <1>4, <2>1, <3>1, <3>3, SearchGoesOn
  <2> QED
    BY <2>6, <2>7
<1> QED
  BY <1>5, <1>6, <1>7, <1>8 DEF FosterInv

\* On to the other tab.
LEMMA TabDoneFits ==
  ASSUME FosterInv, TabDone
  PROVE  FosterInv'
<1>1. FosterTypes /\ JobFits /\ PageFits /\ ScanFits /\ SearchFits
  BY DEF FosterInv, FosterTypes
<1>2. /\ job'.pc = (IF job.tab = 1 THEN "tab" ELSE "goal")
      /\ job'.searching = job.searching /\ job'.tab = (IF job.tab = 1 THEN 2 ELSE 1)
      /\ job'.count = job.count /\ job'.found = job.found /\ job'.goal = job.goal
      /\ job'.answer = job.answer /\ job'.missed = job.missed
  BY <1>1 DEF JobFits, TabDone, Screen
<1>3. JobFits'
  <2>1. job' = [pc |-> job'.pc, searching |-> job'.searching, tab |-> job'.tab,
                count |-> job'.count, found |-> job'.found, goal |-> job'.goal,
                answer |-> job'.answer, missed |-> job'.missed]
    BY <1>1 DEF JobFits, TabDone, Screen
  <2>2. job'.pc \in PCs /\ job'.tab \in 1..2 /\ job'.count \in 0..(MaxPagesSearch + 1)
    BY <1>1, <1>2, FosterAssumption DEF JobFits, PCs, TabDone, Screen
  <2>3. job'.searching \in BOOLEAN /\ job'.answer \in BOOLEAN /\ job'.missed \in BOOLEAN
    BY <1>1, <1>2 DEF JobFits, TabDone, Screen
  <2> QED
    BY <2>1, <2>2, <2>3 DEF JobFits
<1>4. world' = world /\ preferred' = preferred /\ tab' = tab /\ page' = page
  BY DEF TabDone, Screen
<1>5. FosterTypes'
  BY <1>1, <1>2, <1>3, <1>4 DEF FosterTypes, WorldFits, TabDone, Screen
<1>6. PageFits'
  BY <1>1, <1>2, <1>4, FosterAssumption DEF FosterTypes, JobFits, PageFits, TabDone, Screen
<1>7. ScanFits'
  <2> SUFFICES ASSUME ~job'.missed, ~job'.searching PROVE ScanFits'
    BY DEF ScanFits
  <2>1. ~job.missed /\ ~job.searching /\ job.tab \in 1..2 /\ job.found = OfTabsBefore(job.tab)
     \cup Reachable(job.tab)
    BY <1>1, <1>2 DEF JobFits, ScanFits, TabDone
  <2>2. All' = All /\ OfTabsBefore(2)' = OfTabsBefore(2)
    BY <1>4, SameLists
  <2>3. CASE job.tab = 1
    BY <1>2, <2>1, <2>2, <2>3 DEF ScanFits, OfTabsBefore
  <2>4. CASE job.tab = 2
    BY <1>2, <2>1, <2>2, <2>4 DEF ScanFits, OfTabsBefore, All
  <2> QED
    BY <2>1, <2>3, <2>4
<1>8. SearchFits'
  <2> SUFFICES ASSUME ~job'.missed, job'.searching PROVE SearchFits'
    BY DEF SearchFits
  <2>1. ~job.missed /\ job.searching /\ job.pc = "end"
    BY <1>1, <1>2 DEF JobFits, TabDone
  <2>2. PICK t, j \in Nat : StillAhead(t, j)
    BY <1>1, <2>1 DEF SearchFits
  <2>3. t = 2 /\ job.tab = 1
    BY <1>1, <2>1, <2>2 DEF StillAhead, JobFits
  <2>4. job'.pc = "tab" /\ job'.tab = 2
    BY <1>2, <2>3
  <2>5. StillAhead(t, j)'
    BY <1>2, <1>4, <2>2, <2>3, <2>4, SameLists DEF StillAhead
  <2> QED
    BY <1>1, <1>2, <1>4, <2>1, <2>4, <2>5, SearchGoesOn
<1> QED
  BY <1>5, <1>6, <1>7, <1>8 DEF FosterInv

\* The best reward left is looked for.
LEMMA NextGoalFits ==
  ASSUME FosterInv, NEW goal \in job.found, NextGoal(goal)
  PROVE  FosterInv'
<1>1. FosterTypes /\ JobFits /\ PageFits /\ ScanFits /\ SearchFits
  BY DEF FosterInv, FosterTypes
<1>2. /\ job'.pc = "tab" /\ job'.searching = TRUE /\ job'.tab = job.tab
      /\ job'.count = job.count /\ job'.found = job.found \ {goal} /\ job'.goal = goal
      /\ job'.answer = job.answer /\ job'.missed = job.missed
  BY <1>1 DEF JobFits, NextGoal, Screen
<1>3. JobFits'
  <2>1. job' = [pc |-> job'.pc, searching |-> job'.searching, tab |-> job'.tab,
                count |-> job'.count, found |-> job'.found, goal |-> job'.goal,
                answer |-> job'.answer, missed |-> job'.missed]
    BY <1>1 DEF JobFits, NextGoal, Screen
  <2>2. job'.pc \in PCs /\ job'.tab \in 1..2 /\ job'.count \in 0..(MaxPagesSearch + 1)
    BY <1>1, <1>2, FosterAssumption DEF JobFits, PCs, NextGoal, Screen
  <2>3. job'.searching \in BOOLEAN /\ job'.answer \in BOOLEAN /\ job'.missed \in BOOLEAN
    BY <1>1, <1>2 DEF JobFits, NextGoal, Screen
  <2> QED
    BY <2>1, <2>2, <2>3 DEF JobFits
<1>4. world' = world /\ preferred' = preferred /\ tab' = tab /\ page' = page
  BY DEF NextGoal, Screen
<1>5. FosterTypes'
  BY <1>1, <1>2, <1>3, <1>4 DEF FosterTypes, WorldFits, NextGoal, Screen
<1>6. PageFits'
  BY <1>1, <1>2, <1>4, FosterAssumption DEF FosterTypes, JobFits, PageFits, NextGoal, Screen
<1>7. ScanFits'
  BY <1>1, <1>2, <1>4, SameLists DEF FosterTypes, JobFits, PageFits, ScanFits, NextGoal, Screen
<1>8. SearchFits'
  <2> SUFFICES ASSUME ~job'.missed, job'.searching PROVE SearchFits'
    BY DEF SearchFits
  <2>1. ~job.missed /\ ~job.searching /\ job.pc = "goal"
    BY <1>1, <1>2 DEF JobFits, SearchFits, NextGoal
  <2>2. job.found = All /\ job.tab = 1
    BY <1>1, <2>1 DEF ScanFits
  <2>3. goal \in All /\ \A r \in All : ~Before(r, goal)
    BY <2>2 DEF NextGoal, Goals
  <2>4. PICK t \in 1..2, j \in Nat : j \in InReach(t) /\ goal \in Rewards(world[t][j])
    <3>1. PICK t \in 1..2 : goal \in Reachable(t)
      BY <2>3 DEF All
    <3>2. PICK j \in InReach(t) : goal \in Rewards(world[t][j])
      BY <3>1, ReachableRewards
    <3>3. j \in Nat
      BY DEF InReach
    <3> QED
      BY <3>2, <3>3
  <2>6. StillAhead(t, j)'
    BY <1>2, <1>4, <2>2, <2>4, SameLists DEF StillAhead
  <2>7. All' = All /\ \A r : Before(r, goal)' = Before(r, goal)
    BY <1>4, SameLists DEF Before
  <2>8. job'.goal = goal /\ job'.pc = "tab"
    BY <1>2
  <2> QED
    BY <1>4, <2>3, <2>6, <2>7, <2>8 DEF SearchFits, Before
<1> QED
  BY <1>5, <1>6, <1>7, <1>8 DEF FosterInv

\* Nothing is left to look for.
LEMMA GiveUpFits ==
  ASSUME FosterInv, GiveUp
  PROVE  FosterInv'
<1>1. FosterTypes /\ JobFits /\ PageFits /\ ScanFits /\ SearchFits
  BY DEF FosterInv, FosterTypes
<1>2. /\ job'.pc = "done" /\ job'.searching = job.searching /\ job'.tab = job.tab
      /\ job'.count = job.count /\ job'.found = job.found /\ job'.goal = job.goal
      /\ job'.answer = FALSE /\ job'.missed = job.missed
  BY <1>1 DEF JobFits, GiveUp, Screen
<1>3. JobFits'
  <2>1. job' = [pc |-> job'.pc, searching |-> job'.searching, tab |-> job'.tab,
                count |-> job'.count, found |-> job'.found, goal |-> job'.goal,
                answer |-> job'.answer, missed |-> job'.missed]
    BY <1>1 DEF JobFits, GiveUp, Screen
  <2>2. job'.pc \in PCs /\ job'.tab \in 1..2 /\ job'.count \in 0..(MaxPagesSearch + 1)
    BY <1>1, <1>2, FosterAssumption DEF JobFits, PCs, GiveUp, Screen
  <2>3. job'.searching \in BOOLEAN /\ job'.answer \in BOOLEAN /\ job'.missed \in BOOLEAN
    BY <1>1, <1>2 DEF JobFits, GiveUp, Screen
  <2> QED
    BY <2>1, <2>2, <2>3 DEF JobFits
<1>4. world' = world /\ preferred' = preferred /\ tab' = tab /\ page' = page
  BY DEF GiveUp, Screen
<1>5. FosterTypes'
  BY <1>1, <1>2, <1>3, <1>4 DEF FosterTypes, WorldFits, GiveUp, Screen
<1>6. PageFits'
  BY <1>1, <1>2, <1>4, FosterAssumption DEF FosterTypes, JobFits, PageFits, GiveUp, Screen
<1>7. ScanFits'
  BY <1>1, <1>2, <1>4, SameLists DEF FosterTypes, JobFits, PageFits, ScanFits, GiveUp, Screen
<1>8. SearchFits'
  BY <1>1, <1>2, <1>4, SameLists DEF FosterTypes, JobFits, PageFits, SearchFits, StillAhead,
     GiveUp, Screen
<1> QED
  BY <1>5, <1>6, <1>7, <1>8 DEF FosterInv

\* A run begins, with lists of its own.
LEMMA FosterBeginFits ==
  ASSUME FosterInv, NEW w \in Worlds, NEW kind \in Kinds, FosterBegin(w, kind)
  PROVE  FosterInv'
<1>1. FosterTypes /\ JobFits /\ ScanFits /\ SearchFits
  BY DEF FosterInv, FosterTypes
<1>2. /\ world' = w /\ tab' = tab /\ page' = page /\ page = 1 /\ job'.pc = "tab"
           /\ job.pc = "idle"
      /\ job'.searching = job.searching /\ job'.tab = job.tab /\ job'.found = job.found
      /\ job'.missed = job.missed /\ job'.goal = job.goal /\ ~job.searching
  BY <1>1 DEF FosterBegin, FosterTypes, JobFits
<1>3. JobFits'
  BY <1>1 DEF FosterBegin, JobFits, PCs
<1>4. WorldFits(w) /\ tab' \in 1..2
  BY <1>1, <1>2, WorldsAssumption DEF WorldFits, Rewards, FosterTypes
<1>5. FosterTypes'
  <2>1. page' \in 1..Len(world'[tab'])
    BY <1>2, <1>4 DEF WorldFits
  <2>2. WorldFits(world')
    BY <1>2, <1>4
  <2> QED
    BY <1>2, <1>3, <1>4, <2>1, <2>2 DEF FosterTypes, WorldFits
<1>6. PageFits'
  BY <1>2 DEF PageFits
<1>7. ScanFits'
  BY <1>1, <1>2 DEF ScanFits, OfTabsBefore
<1>8. SearchFits'
  BY <1>2 DEF SearchFits
<1> QED
  BY <1>5, <1>6, <1>7, <1>8 DEF FosterInv

\* The first state.
LEMMA FosterStart == FosterInit => FosterInv
<1> SUFFICES ASSUME FosterInit PROVE FosterInv
  OBVIOUS
<1>1. JobFits /\ job.pc = "idle" /\ ~job.searching /\ job.found = {} /\ job.tab = 1
  BY FosterAssumption DEF FosterInit, NoJob, JobFits, PCs
<1>2. \A t \in 1..2 : NoWorld[t] = <<{}>>
  BY DEF NoWorld
<1>3. WorldFits(NoWorld)
  BY <1>2 DEF WorldFits, Rewards
<1>4. page \in 1..Len(world[tab])
  BY <1>2 DEF FosterInit
<1> QED
  BY <1>1, <1>3, <1>4 DEF FosterInit, FosterInv, FosterTypes, PageFits, ScanFits, SearchFits

\* Every step keeps the invariant.
LEMMA FosterKept == FosterInv /\ [FosterNext]_fosterVars => FosterInv'
<1> SUFFICES ASSUME FosterInv, [FosterNext]_fosterVars PROVE FosterInv'
  OBVIOUS
<1>1. CASE FosterNext
  <2>1. ASSUME NEW w \in Worlds, NEW kind \in Kinds, FosterBegin(w, kind) PROVE FosterInv'
    BY <2>1, FosterBeginFits
  <2>2. ASSUME NEW ok \in BOOLEAN, ClickTab(ok) PROVE FosterInv'
    BY <2>2, ClickTabFits
  <2>3. ASSUME NEW got \in SUBSET Rewards(Shown), ScanPage(got) PROVE FosterInv'
    BY <2>3, ScanPageFits
  <2>4. ASSUME NEW hit \in BOOLEAN, SearchPage(hit) PROVE FosterInv'
    BY <2>4, SearchPageFits
  <2>5. ASSUME NEW goal \in job.found, NextGoal(goal) PROVE FosterInv'
    BY <2>5, NextGoalFits
  <2>6. CASE SearchBlind \/ NextPageFails \/ NextPage \/ TabDone \/ GiveUp
    BY <2>6, SearchBlindFits, NextPageFailsFits, NextPageFits, TabDoneFits, GiveUpFits
  <2> QED
    BY <1>1, <2>1, <2>2, <2>3, <2>4, <2>5, <2>6 DEF FosterNext
<1>2. CASE UNCHANGED fosterVars
  <2>1. /\ world' = world /\ preferred' = preferred /\ tab' = tab /\ page' = page
        /\ clicked' = clicked /\ job' = job
    BY <1>2 DEF fosterVars
  <2>2. FosterTypes' /\ PageFits'
    BY <2>1 DEF FosterInv, FosterTypes, JobFits, WorldFits, PageFits
  <2>3. ScanFits'
    <3>1. All' = All /\ \A t : Reachable(t)' = Reachable(t) /\ OfTabsBefore(t)' = OfTabsBefore(t)
      BY <2>1 DEF All, Reachable, OfTabsBefore
    <3>2. \A t, n : Scanned(t, n)' = Scanned(t, n)
      BY <2>1 DEF Scanned
    <3> QED
      BY <2>1, <3>1, <3>2 DEF FosterInv, ScanFits
  <2>4. SearchFits'
    <3>1. \A t, j : StillAhead(t, j)' = StillAhead(t, j)
      BY <2>1 DEF StillAhead, InReach
    <3>2. All' = All /\ \A r, s : Before(r, s)' = Before(r, s)
      BY <2>1 DEF All, Reachable, Before
    <3> QED
      BY <2>1, <3>1, <3>2 DEF FosterInv, SearchFits
  <2> QED
    BY <2>2, <2>3, <2>4 DEF FosterInv
<1> QED
  BY <1>1, <1>2

\* The target left selected shows a reward than which none in reach is better, the
\* preferred type before any other, and a run fails only if nothing is in reach:
\* whatever the lists, their order and the limits of the pages.
THEOREM BestChosen == Spec => []BestRewardChosen
<1>1. Init => FosterInv
  BY FosterStart DEF Init
<1>2. FosterInv /\ [Next]_vars => FosterInv'
  BY FosterSteps, FosterKept
<1>3. FosterInv => BestRewardChosen
  <2> SUFFICES ASSUME FosterInv, job.pc = "done", ~job.missed
               PROVE  IF job.answer
                      THEN /\ clicked \in All
                           /\ clicked[1] # preferred => \A r \in All : r[1] # preferred
                           /\ \A r \in All : r[1] = clicked[1] => r[2] <= clicked[2]
                      ELSE All = {}
    BY DEF BestRewardChosen, All
  <2>1. FosterTypes /\ JobFits /\ ScanFits /\ SearchFits
    BY DEF FosterInv, FosterTypes
  <2>2. CASE job.searching
    <3>1. /\ job.answer /\ clicked = job.goal /\ job.goal \in All
          /\ \A r \in All : ~Before(r, clicked)
      BY <2>1, <2>2 DEF SearchFits
    <3>2. \A r \in All : r[2] \in Nat
      BY <2>1 DEF FosterTypes, WorldFits, All, Reachable
    <3> QED
      BY <3>1, <3>2 DEF Before
  <2>3. CASE ~job.searching
    BY <2>1, <2>3 DEF ScanFits, JobFits
  <2> QED
    BY <2>2, <2>3
<1> QED
  BY <1>1, <1>2, <1>3, PTL DEF Spec

-----------------------------------------------------------------------------
(* The search for a group and for a team of it                              *)

\* The types of the lists and of the script.
AttemptFits ==
  /\ run = [pc |-> run.pc, attempt |-> run.attempt, retry |-> run.retry, misses |-> run.misses,
            answer |-> run.answer]
  /\ run.pc \in {"idle", "start", "top", "sortie", "done"} \cup Level /\ run.attempt \in 1..20
  /\ run.retry \in 1..3 /\ run.misses \in 0..MaxMisses /\ run.answer \in BOOLEAN
Longest == IF GroupPages > TeamPages THEN GroupPages ELSE TeamPages
ListsFit ==
  /\ script \in Scripts /\ entry \in Lists /\ opened \in 1..GroupPages
  /\ shown \in 1..Longest

\* What is selected, and by which script.
ChoicesFit ==
  /\ chosen = [group |-> chosen.group, team |-> chosen.team, fights |-> chosen.fights]
  /\ chosen.group \in Selections /\ chosen.team \in Selections /\ chosen.fights \in BOOLEAN
  /\ run.pc = "idle" =>
       run.attempt = 1 /\ run.retry = 1 /\ run.misses = 0 /\ chosen.group = "none"
         /\ chosen.team = "none"
  /\ run.pc \in {"team", "sortie"} => chosen.group # "none"
  /\ run.pc = "sortie" => chosen.team # "none"
  /\ run.answer => run.pc = "done" /\ chosen.group # "none" /\ chosen.team # "none"
  /\ script = "SwitchSoul" => run.retry = 1 /\ chosen.group # "other" /\ chosen.team # "other"

\* As long as nothing was missed, the group in reach is still to come.  Looked for from
\* the top of the list it is on the page of a later attempt.
FromTop == entry.up = "top" \/ script = "SwitchSoul"
AheadFromTop ==
  run.misses = 0 /\ GroupInReach /\ FromTop =>
    /\ run.pc \in {"start", "top"} => entry.up = "top" \/ shown <= 2
    /\ run.pc = "group" => shown = run.attempt /\ run.attempt <= entry.group

\* Else AutoBattle goes up page by page from its fifth attempt on, and each retry begins
\* 14 pages further up.
AheadByPages ==
  run.misses = 0 /\ GroupInReach /\ ~FromTop =>
    /\ run.pc \in {"start", "top"} => shown <= (IF run.retry = 1 THEN 44 ELSE 56 - 14 * run.retry)
    /\ run.pc = "group" /\ run.attempt <= 5 =>
         /\ shown >= run.attempt \/ shown >= GroupPages
         /\ shown <= 44 /\ (run.retry > 1 => shown <= 53 - 14 * run.retry + run.attempt)
    /\ run.pc = "group" /\ run.attempt >= 5 =>
         entry.group <= shown /\ shown <= 63 - 14 * run.retry - run.attempt
    /\ run.pc = "team" => shown <= run.attempt /\ run.attempt <= 10

\* And so is the team in reach of the group wanted.
TeamAhead ==
  run.misses = 0 /\ TeamInReach /\ run.pc = "team" /\ chosen.group = "wanted" =>
    shown = run.attempt /\ run.attempt <= entry.team

\* A run that ends has found both, unless a click strayed.
BothFound ==
  /\ run.misses = 0 /\ GroupInReach /\ TeamInReach /\ run.pc = "done"
  /\ chosen.group # "other" /\ chosen.team # "other"
  => run.answer /\ chosen.fights

ScreensInv ==
  AttemptFits /\ ListsFit /\ ChoicesFit /\ AheadFromTop /\ AheadByPages /\ TeamAhead /\ BothFound

\* A step that missed something needs to keep the types only.
LEMMA MissedFits ==
  ASSUME AttemptFits', ListsFit', ChoicesFit', run'.misses # 0
  PROVE  ScreensInv'
BY DEF ScreensInv, AheadFromTop, AheadByPages, TeamAhead, BothFound

\* What an attempt in vain leads to.
LEMMA FailedParts ==
  ASSUME AttemptFits, ListsFit, ChoicesFit, NEW level \in Level, run.pc = level
  PROVE  LET f == Failed(level) IN
         /\ f = [pc |-> f.pc, attempt |-> f.attempt, retry |-> f.retry, misses |-> f.misses,
                 answer |-> f.answer]
         /\ f.misses = run.misses /\ f.answer = FALSE
         /\ \/ /\ run.attempt < MaxAttempts(level)
               /\ f.pc = level /\ f.attempt = run.attempt + 1 /\ f.retry = run.retry
            \/ /\ run.attempt >= MaxAttempts(level) /\ script = "AutoBattle" /\ run.retry < 3
               /\ f.pc = "top" /\ f.attempt = 1 /\ f.retry = run.retry + 1
            \/ /\ run.attempt >= MaxAttempts(level) /\ (script = "AutoBattle" => run.retry >= 3)
               /\ f.pc = "done" /\ f.attempt = run.attempt /\ f.retry = run.retry
<1> DEFINE f == Failed(level)
<1>1. /\ run.attempt \in Nat /\ run.retry \in Nat /\ MaxAttempts(level) \in Nat
      /\ MaxRetries \in Nat /\ run.answer = FALSE
  BY DEF AttemptFits, ChoicesFit, MaxAttempts, MaxRetries, Level
<1>2. script \in {"AutoBattle", "SwitchSoul"} /\ (script = "SwitchSoul" => run.retry = 1)
  BY DEF ListsFit, Scripts, ChoicesFit
<1>3. run = [pc |-> level, attempt |-> run.attempt, retry |-> run.retry, misses |-> run.misses,
             answer |-> FALSE]
  BY <1>1 DEF AttemptFits
<1>4. CASE run.attempt < MaxAttempts(level)
  <2>1. f = [run EXCEPT !.attempt = @ + 1]
    BY <1>1, <1>4 DEF Failed
  <2>2. f = [pc |-> level, attempt |-> run.attempt + 1, retry |-> run.retry, misses |->
     run.misses,
             answer |-> FALSE]
    BY <1>1, <1>3, <2>1
  <2> QED
    BY <1>4, <2>2
<1>5. CASE ~(run.attempt < MaxAttempts(level)) /\ run.retry < MaxRetries
  <2>1. f = [run EXCEPT !.pc = "top", !.retry = @ + 1, !.attempt = 1]
    BY <1>1, <1>5 DEF Failed
  <2>2. f = [pc |-> "top", attempt |-> 1, retry |-> run.retry + 1, misses |-> run.misses,
             answer |-> FALSE]
    BY <1>1, <1>3, <2>1
  <2>3. script = "AutoBattle" /\ run.retry < 3
    BY <1>1, <1>2, <1>5 DEF MaxRetries
  <2> QED
    BY <1>1, <1>5, <2>2, <2>3
<1>6. CASE ~(run.attempt < MaxAttempts(level)) /\ ~(run.retry < MaxRetries)
  <2>1. f = [run EXCEPT !.pc = "done", !.answer = FALSE]
    BY <1>1, <1>6 DEF Failed
  <2>2. f = [pc |-> "done", attempt |-> run.attempt, retry |-> run.retry, misses |-> run.misses,
             answer |-> FALSE]
    BY <1>1, <1>3, <2>1
  <2>3. script = "AutoBattle" => run.retry >= 3
    BY <1>1, <1>6 DEF MaxRetries
  <2> QED
    BY <1>1, <1>6, <2>2, <2>3
<1> QED
  BY <1>4, <1>5, <1>6

\* Where a swipe leaves a list.
LEMMA SwipeParts ==
  ASSUME NEW level \in Level, NEW p \in Nat \ {0}
  PROVE  /\ Pages(level) \in Nat \ {0} /\ Pages(level) <= Longest /\ Longest \in Nat
         /\ p < Pages(level) => Down(p, level) = p + 1
         /\ p >= Pages(level) => Down(p, level) = p
         /\ Up(p, level) \in Nat \ {0} /\ Up(p, level) <= p
         /\ entry.up = "top" => Up(p, level) = 1
         /\ entry.up # "top" => Up(p, level) = IF p = 1 THEN 1 ELSE p - 1
<1>0. GroupPages \in Nat \ {0} /\ TeamPages \in Nat \ {0}
  BY ScreensAssumption
<1>1. Pages(level) \in Nat \ {0} /\ Pages(level) \in {GroupPages, TeamPages}
  BY <1>0 DEF Pages
<1>2. Pages(level) <= Longest /\ Longest \in Nat
  BY <1>0, <1>1 DEF Longest
<1>3. (p < Pages(level) => Down(p, level) = p + 1) /\ (p >= Pages(level) => Down(p, level) = p)
  BY <1>1 DEF Down
<1>4. Up(p, level) = IF entry.up = "top" \/ p = 1 THEN 1 ELSE p - 1
  BY DEF Up
<1> QED
  BY <1>1, <1>2, <1>3, <1>4

\* An attempt in vain keeps the types, wherever the list is afterwards.
LEMMA AttemptKept ==
  ASSUME AttemptFits, ListsFit, ChoicesFit, NEW level \in Level, run.pc = level,
         NEW m \in 0..MaxMisses, run' = [Failed(level) EXCEPT !.misses = m],
         Swipe(level) \/ shown' = shown, UNCHANGED <<script, entry, opened, chosen>>
  PROVE  AttemptFits' /\ ListsFit' /\ ChoicesFit' /\ run'.misses = m
<1> DEFINE f == Failed(level)
<1>0. /\ f = [pc |-> f.pc, attempt |-> f.attempt, retry |-> f.retry, misses |-> f.misses,
              answer |-> f.answer]
      /\ f.answer = FALSE /\ run' = [f EXCEPT !.misses = m]
      /\ \/ run.attempt < MaxAttempts(level) /\ f.pc = level /\ f.attempt = run.attempt + 1
              /\ f.retry = run.retry
         \/ script = "AutoBattle" /\ run.retry < 3 /\ f.pc = "top" /\ f.attempt = 1
              /\ f.retry = run.retry + 1
         \/ f.pc = "done" /\ f.attempt = run.attempt /\ f.retry = run.retry
  BY FailedParts
<1>1. /\ run'.pc = f.pc /\ run'.attempt = f.attempt
      /\ run'.retry = f.retry /\ run'.misses = m /\ run'.answer = FALSE
      /\ run' = [pc |-> run'.pc, attempt |-> run'.attempt, retry |-> run'.retry,
                 misses |-> run'.misses, answer |-> run'.answer]
  <2> HIDE DEF f
  <2> QED
    BY <1>0
<1>2. MaxAttempts(level) \in 5..20 /\ run.attempt \in 1..20 /\ run.retry \in 1..3
  BY DEF MaxAttempts, AttemptFits
<1>3. run'.attempt \in 1..20 /\ run'.retry \in 1..3 /\ run'.pc \in {"top", "done", level}
  <2> HIDE DEF f
  <2> QED
    BY <1>0, <1>1, <1>2
<1>4. AttemptFits'
  BY <1>1, <1>3 DEF AttemptFits
<1>5. shown \in 1..Longest
  BY DEF ListsFit
<1>6. shown' \in 1..Longest
  <2>1. CASE shown' = shown
    BY <1>5, <2>1
  <2>2. CASE Swipe(level)
    <3>1. /\ shown \in Nat \ {0} /\ shown' \in {Up(shown, level), Down(shown, level)}
      BY <1>5, <2>2, ScreensAssumption DEF Swipe
    <3>2. /\ Up(shown, level) \in Nat \ {0} /\ Up(shown, level) <= shown
          /\ Pages(level) \in Nat \ {0} /\ Pages(level) <= Longest /\ Longest \in Nat
          /\ shown < Pages(level) => Down(shown, level) = shown + 1
          /\ shown >= Pages(level) => Down(shown, level) = shown
      BY <3>1, SwipeParts
    <3> QED
      BY <1>5, <3>1, <3>2
  <2> QED
    BY <2>1, <2>2
<1>7. ListsFit'
  BY <1>6 DEF ListsFit
<1>8. script = "SwitchSoul" => run'.retry = 1
  <2>1. script = "SwitchSoul" => run.retry = 1
    BY DEF ChoicesFit
  <2> QED
    BY <1>0, <1>1, <2>1
<1>9. ChoicesFit'
  BY <1>1, <1>3, <1>8 DEF ChoicesFit, Level
<1> QED
  BY <1>1, <1>4, <1>7, <1>9

\* What a look in vain does, but for where it leads.
LEMMA Looked ==
  ASSUME AttemptFits, ListsFit, ChoicesFit, NEW level \in Level, LookInVain(level)
  PROVE  /\ run.pc = level /\ UNCHANGED <<script, entry, opened, chosen>> /\ Swipe(level)
         /\ \E k \in 0..MaxMisses : /\ run' = [Failed(level) EXCEPT !.misses = k]
                                    /\ k = run.misses \/ k = run.misses + 1
                                    /\ OnPage(level) => k = run.misses + 1
<1>1. run.misses \in 0..MaxMisses /\ MaxMisses \in Nat
  BY ScreensAssumption DEF AttemptFits
<1>2. run.pc = level /\ Failed(level).misses = run.misses
  BY FailedParts DEF LookInVain
<1>3. CASE OnPage(level)
  <2>1. run' = [Failed(level) EXCEPT !.misses = run.misses + 1] /\ run.misses < MaxMisses
    BY <1>2, <1>3 DEF LookInVain, Missing
  <2> QED
    BY <1>1, <1>2, <2>1 DEF LookInVain
<1>4. CASE ~OnPage(level)
  <2>1. run' = [Failed(level) EXCEPT !.misses = run.misses]
    BY <1>2, <1>4 DEF LookInVain
  <2> QED
    BY <1>1, <1>2, <1>4, <2>1 DEF LookInVain
<1> QED
  BY <1>3, <1>4

\* A look at a page of groups that finds nothing.
LEMMA NoGroup ==
  ASSUME GroupPages <= 44, ScreensInv, LookInVain("group")
  PROVE  ScreensInv'
<1>1. AttemptFits /\ ListsFit /\ ChoicesFit /\ run.pc = "group" /\ "group" \in Level
  BY DEF ScreensInv, LookInVain, Level
<1>2. /\ UNCHANGED <<script, entry, opened, chosen>> /\ Swipe("group")
      /\ \E k \in 0..MaxMisses : /\ run' = [Failed("group") EXCEPT !.misses = k]
                                 /\ k = run.misses \/ k = run.misses + 1
                                 /\ OnPage("group") => k = run.misses + 1
  BY <1>1, Looked
<1>3. PICK k \in 0..MaxMisses : /\ run' = [Failed("group") EXCEPT !.misses = k]
                                /\ k = run.misses \/ k = run.misses + 1
                                /\ OnPage("group") => k = run.misses + 1
  BY <1>2
<1>4. AttemptFits' /\ ListsFit' /\ ChoicesFit' /\ run'.misses = k
  BY <1>1, <1>2, <1>3, AttemptKept
<1>5. CASE k # 0
  BY <1>4, <1>5, MissedFits
<1>6. CASE k = 0
  <2>1. run.misses = 0 /\ run'.misses = 0 /\ entry.group # shown
    BY <1>1, <1>3, <1>4, <1>6 DEF AttemptFits, OnPage
  <2>2. /\ run'.pc = Failed("group").pc /\ run'.attempt = Failed("group").attempt
        /\ run'.retry = Failed("group").retry
    BY <1>1, <1>3, FailedParts
  <2>3. \/ /\ run.attempt < MaxAttempts("group")
           /\ run'.pc = "group" /\ run'.attempt = run.attempt + 1 /\ run'.retry = run.retry
        \/ /\ run.attempt >= MaxAttempts("group") /\ script = "AutoBattle" /\ run.retry < 3
           /\ run'.pc = "top" /\ run'.attempt = 1 /\ run'.retry = run.retry + 1
        \/ /\ run.attempt >= MaxAttempts("group") /\ (script = "AutoBattle" => run.retry >= 3)
           /\ run'.pc = "done" /\ run'.attempt = run.attempt /\ run'.retry = run.retry
    BY <1>1, <2>2, FailedParts
  <2>4. /\ run.attempt \in 1..20 /\ run.retry \in 1..3 /\ shown \in Nat \ {0}
        /\ script \in {"AutoBattle", "SwitchSoul"} /\ entry.group \in 0..GroupPages
        /\ entry.up \in {"page", "top"} /\ GroupPages \in Nat \ {0}
        /\ MaxAttempts("group") = IF script = "AutoBattle" THEN 20 ELSE 5
    BY <1>1, ScreensAssumption DEF AttemptFits, ListsFit, Lists, Longest, Scripts, MaxAttempts
  <2>5. /\ shown < GroupPages => Down(shown, "group") = shown + 1
        /\ shown >= GroupPages => Down(shown, "group") = shown
        /\ entry.up # "top" => Up(shown, "group") = IF shown = 1 THEN 1 ELSE shown - 1
    BY <1>1, <2>4, SwipeParts DEF Pages
  <2>6. CASE GroupInReach /\ FromTop
    <3>1. shown = run.attempt /\ run.attempt < entry.group
      BY <1>1, <2>1, <2>4, <2>6 DEF ScreensInv, AheadFromTop
    <3>2. /\ entry.group <= 5 /\ (script = "SwitchSoul" => entry.group <= 3)
      BY <2>4, <2>6 DEF GroupInReach
    <3>3. shown' = shown + 1
      <4>1. run.attempt < 5 /\ (script = "SwitchSoul" => run.attempt % 3 # 0)
        BY <2>4, <3>1, <3>2
      <4>2. shown' = Down(shown, "group")
        BY <1>2, <2>4, <4>1 DEF Swipe
      <4> QED
        BY <2>4, <2>5, <3>1, <4>2
    <3>4. run'.pc = "group" /\ run'.attempt = run.attempt + 1
      BY <2>3, <2>4, <3>1, <3>2
    <3>5. AheadFromTop'
      BY <1>2, <2>4, <3>1, <3>3, <3>4 DEF AheadFromTop
    <3>6. AheadByPages' /\ TeamAhead' /\ BothFound'
      BY <1>2, <2>6, <3>4 DEF AheadByPages, TeamAhead, BothFound, FromTop
    <3> QED
      BY <1>4, <3>5, <3>6 DEF ScreensInv
  <2>7. CASE GroupInReach /\ ~FromTop
    <3>1. script = "AutoBattle" /\ entry.up = "page" /\ entry.group \in 1..5
      BY <2>4, <2>7 DEF FromTop, GroupInReach
    <3>2. /\ run.attempt <= 5 =>
               /\ shown >= run.attempt \/ shown >= GroupPages
               /\ shown <= 44 /\ (run.retry > 1 => shown <= 53 - 14 * run.retry + run.attempt)
          /\ run.attempt >= 5
               => entry.group <= shown /\ shown <= 63 - 14 * run.retry - run.attempt
      BY <1>1, <2>1, <2>7 DEF ScreensInv, AheadByPages
    <3>3. CASE run.attempt < 5
      <4>1. shown' = IF shown < GroupPages THEN shown + 1 ELSE shown
        BY <1>2, <2>4, <2>5, <3>1, <3>3 DEF Swipe
      <4>2. run'.pc = "group" /\ run'.attempt = run.attempt + 1 /\ run'.retry = run.retry
        BY <2>3, <2>4, <3>1, <3>3
      <4>3. /\ shown' >= run'.attempt \/ shown' >= GroupPages
            /\ shown' <= 44 /\ (run.retry > 1 => shown' <= 53 - 14 * run.retry + run'.attempt)
        BY <2>4, <3>2, <3>3, <4>1, <4>2
      <4>4. run'.attempt >= 5 => entry.group <= shown' /\ shown' <= 63 - 14 * run.retry -
         run'.attempt
        <5> SUFFICES ASSUME run'.attempt >= 5
                     PROVE  entry.group <= shown' /\ shown' <= 63 - 14 * run.retry - run'.attempt
          OBVIOUS
        <5>1. run'.attempt = 5 /\ shown' \in Nat
          BY <2>4, <3>3, <4>1, <4>2
        <5>2. entry.group <= 5 /\ entry.group <= GroupPages /\ entry.group \in Nat
          BY <2>4, <3>1
        <5>3. entry.group <= shown'
          BY <2>4, <4>3, <5>1, <5>2
        <5>4. shown' <= 58 - 14 * run.retry
          <6>1. CASE run.retry = 1
            BY <4>3, <5>1, <6>1
          <6>2. CASE run.retry = 2
            BY <4>3, <5>1, <6>2
          <6>3. CASE run.retry = 3
            BY <4>3, <5>1, <6>3
          <6> QED
            BY <2>4, <6>1, <6>2, <6>3
        <5> QED
          BY <2>4, <5>1, <5>3, <5>4
      <4>5. AheadByPages'
        BY <1>2, <4>2, <4>3, <4>4 DEF AheadByPages
      <4>6. AheadFromTop' /\ TeamAhead' /\ BothFound'
        BY <1>2, <2>7, <4>2 DEF AheadFromTop, TeamAhead, BothFound, FromTop
      <4> QED
        BY <1>4, <4>5, <4>6 DEF ScreensInv
    <3>4. CASE run.attempt >= 5
      <4>1. shown > entry.group /\ shown' = shown - 1
        <5>1. shown > 1 /\ shown > entry.group
          BY <2>1, <2>4, <3>1, <3>2, <3>4
        <5>2. shown' = Up(shown, "group")
          BY <1>2, <3>1, <3>4 DEF Swipe
        <5> QED
          BY <2>5, <3>1, <5>1, <5>2
      <4>2. CASE run.attempt < 20
        <5>1. run'.pc = "group" /\ run'.attempt = run.attempt + 1 /\ run'.retry = run.retry
          BY <2>3, <2>4, <3>1, <4>2
        <5>2. entry.group <= shown' /\ shown' <= 63 - 14 * run.retry - run'.attempt /\
           run'.attempt > 5
          BY <2>4, <3>1, <3>2, <3>4, <4>1, <5>1
        <5>3. AheadByPages'
          BY <1>2, <2>4, <5>1, <5>2 DEF AheadByPages
        <5>4. AheadFromTop' /\ TeamAhead' /\ BothFound'
          BY <1>2, <2>7, <5>1 DEF AheadFromTop, TeamAhead, BothFound, FromTop
        <5> QED
          BY <1>4, <5>3, <5>4 DEF ScreensInv
      <4>3. CASE run.attempt = 20
        <5>1. run.retry < 3
          BY <2>4, <3>1, <3>2, <4>1, <4>3
        <5>2. run'.pc = "top" /\ run'.retry = run.retry + 1
          BY <2>3, <2>4, <3>1, <4>3, <5>1
        <5>3. shown' <= 56 - 14 * run'.retry /\ run'.retry # 1
          BY <2>4, <3>2, <4>1, <4>3, <5>2
        <5>4. AheadByPages'
          BY <1>2, <5>2, <5>3 DEF AheadByPages
        <5>5. AheadFromTop' /\ TeamAhead' /\ BothFound'
          BY <1>2, <2>7, <5>2 DEF AheadFromTop, TeamAhead, BothFound, FromTop
        <5> QED
          BY <1>4, <5>4, <5>5 DEF ScreensInv
      <4> QED
        BY <2>4, <3>4, <4>2, <4>3
    <3> QED
      BY <2>4, <3>3, <3>4
  <2>8. CASE ~GroupInReach
    <3>1. ~GroupInReach'
      BY <1>2, <2>8 DEF GroupInReach
    <3>2. run'.pc # "team"
      BY <2>3
    <3> QED
      BY <1>4, <3>1, <3>2 DEF ScreensInv, AheadFromTop, AheadByPages, TeamAhead, BothFound
  <2> QED
    BY <2>6, <2>7, <2>8
<1> QED
  BY <1>5, <1>6

\* A look at a page of teams that finds nothing.
LEMMA NoTeam ==
  ASSUME ScreensInv, LookInVain("team")
  PROVE  ScreensInv'
<1>1. AttemptFits /\ ListsFit /\ ChoicesFit /\ run.pc = "team" /\ "team" \in Level
  BY DEF ScreensInv, LookInVain, Level
<1>2. /\ UNCHANGED <<script, entry, opened, chosen>> /\ Swipe("team")
      /\ \E k \in 0..MaxMisses : /\ run' = [Failed("team") EXCEPT !.misses = k]
                                 /\ k = run.misses \/ k = run.misses + 1
                                 /\ OnPage("team") => k = run.misses + 1
  BY <1>1, Looked
<1>3. PICK k \in 0..MaxMisses : /\ run' = [Failed("team") EXCEPT !.misses = k]
                                /\ k = run.misses \/ k = run.misses + 1
                                /\ OnPage("team") => k = run.misses + 1
  BY <1>2
<1>4. AttemptFits' /\ ListsFit' /\ ChoicesFit' /\ run'.misses = k
  BY <1>1, <1>2, <1>3, AttemptKept
<1>5. CASE k # 0
  BY <1>4, <1>5, MissedFits
<1>6. CASE k = 0
  <2>1. run.misses = 0 /\ run'.misses = 0 /\ ~OnPage("team")
    BY <1>1, <1>3, <1>4, <1>6 DEF AttemptFits
  <2>2. /\ run'.pc = Failed("team").pc /\ run'.attempt = Failed("team").attempt
        /\ run'.retry = Failed("team").retry
    BY <1>1, <1>3, FailedParts
  <2>3. \/ /\ run.attempt < MaxAttempts("team")
           /\ run'.pc = "team" /\ run'.attempt = run.attempt + 1 /\ run'.retry = run.retry
        \/ /\ run.attempt >= MaxAttempts("team") /\ script = "AutoBattle" /\ run.retry < 3
           /\ run'.pc = "top" /\ run'.attempt = 1 /\ run'.retry = run.retry + 1
        \/ /\ run.attempt >= MaxAttempts("team") /\ (script = "AutoBattle" => run.retry >= 3)
           /\ run'.pc = "done" /\ run'.attempt = run.attempt /\ run'.retry = run.retry
    BY <1>1, <2>2, FailedParts
  <2>4. /\ run.attempt \in 1..20 /\ run.retry \in 1..3 /\ shown \in Nat \ {0}
        /\ script \in {"AutoBattle", "SwitchSoul"} /\ entry.team \in 0..TeamPages
        /\ entry.up \in {"page", "top"} /\ TeamPages \in Nat \ {0}
        /\ MaxAttempts("team") = IF script = "AutoBattle" THEN 10 ELSE 8
    BY <1>1, ScreensAssumption DEF AttemptFits, ListsFit, Lists, Longest, Scripts, MaxAttempts
  <2>5. /\ shown < TeamPages => Down(shown, "team") = shown + 1
        /\ shown >= TeamPages => Down(shown, "team") = shown
        /\ Up(shown, "team") <= shown /\ Up(shown, "team") \in Nat
    BY <1>1, <2>4, SwipeParts DEF Pages
  <2>6. AheadFromTop'
    <3>1. run'.pc # "group" /\ run'.pc # "start" /\ (run'.pc = "top" => script = "AutoBattle")
      BY <2>3
    <3> QED
      BY <1>2, <3>1 DEF AheadFromTop, FromTop
  <2>7. AheadByPages'
    <3> SUFFICES ASSUME GroupInReach, ~FromTop PROVE AheadByPages'
      BY <1>2 DEF AheadByPages, GroupInReach, FromTop
    <3>1. script = "AutoBattle" /\ shown <= run.attempt /\ run.attempt <= 10
      BY <1>1, <2>1, <2>4 DEF ScreensInv, AheadByPages, FromTop
    <3>2. shown' \in Nat /\ shown' <= shown + 1 /\ (run.attempt >= 5 => shown' <= shown)
      BY <1>2, <2>4, <2>5, <3>1 DEF Swipe
    <3>3. CASE run'.pc = "team"
      BY <2>3, <2>4, <3>1, <3>2, <3>3 DEF AheadByPages
    <3>4. CASE run'.pc = "top"
      <4>1. shown' <= 10 /\ run'.retry \in 2..3
        BY <2>3, <2>4, <3>1, <3>2, <3>4
      <4>2. shown' <= 56 - 14 * run'.retry /\ run'.retry # 1
        <5>1. CASE run'.retry = 2
          BY <3>2, <4>1, <5>1
        <5>2. CASE run'.retry = 3
          BY <3>2, <4>1, <5>2
        <5> QED
          BY <4>1, <5>1, <5>2
      <4> QED
        BY <3>4, <4>2 DEF AheadByPages
    <3>5. CASE run'.pc = "done"
      BY <3>5 DEF AheadByPages
    <3> QED
      BY <2>3, <3>3, <3>4, <3>5
  <2>8. CASE TeamInReach /\ chosen.group = "wanted"
    <3>1. entry.team <= 5 /\ (script = "SwitchSoul" => entry.team <= 3)
      BY <2>4, <2>8 DEF TeamInReach
    <3>2. shown = run.attempt /\ run.attempt < entry.team
      <4>1. shown = run.attempt /\ run.attempt <= entry.team /\ entry.team # shown
        BY <1>1, <2>1, <2>8 DEF ScreensInv, TeamAhead, OnPage
      <4> QED
        BY <2>4, <4>1
    <3>3. shown' = shown + 1
      <4>1. run.attempt < 5 /\ (script = "SwitchSoul" => run.attempt % 3 # 0)
        BY <2>4, <3>1, <3>2
      <4>2. shown' = Down(shown, "team")
        BY <1>2, <2>4, <4>1 DEF Swipe
      <4> QED
        BY <2>4, <2>5, <3>2, <4>2
    <3>4. run'.pc = "team" /\ run'.attempt = run.attempt + 1
      BY <2>3, <2>4, <3>1, <3>2
    <3>5. TeamAhead'
      BY <1>2, <2>4, <3>2, <3>3, <3>4 DEF TeamAhead
    <3>6. BothFound'
      BY <3>4 DEF BothFound
    <3> QED
      BY <1>4, <2>6, <2>7, <3>5, <3>6 DEF ScreensInv
  <2>9. CASE ~TeamInReach
    <3>1. ~TeamInReach'
      BY <1>2, <2>9 DEF TeamInReach
    <3> QED
      BY <1>4, <2>6, <2>7, <3>1 DEF ScreensInv, TeamAhead, BothFound
  <2>10. CASE chosen.group # "wanted"
    <3>1. chosen'.group = "other"
      <4>1. chosen.group \in Selections /\ chosen.group # "none" /\ chosen' = chosen
        BY <1>1, <1>2 DEF ChoicesFit
      <4>2. chosen.group = "other"
        BY <2>10, <4>1 DEF Selections
      <4> QED
        BY <4>1, <4>2
    <3> QED
      BY <1>4, <2>6, <2>7, <3>1 DEF ScreensInv, TeamAhead, BothFound
  <2> QED
    BY <2>8, <2>9, <2>10
<1> QED
  BY <1>5, <1>6

\* A run begins, with a group and a team to look for.
LEMMA ScreensBeginFits ==
  ASSUME GroupPages <= 44, ScreensInv, NEW s \in Scripts, NEW l \in Lists,
    NEW q \in 1..GroupPages,
         ScreensBegin(s, l, q)
  PROVE  ScreensInv'
<1>1. AttemptFits /\ ListsFit /\ ChoicesFit
  BY DEF ScreensInv
<1>2. /\ run.pc = "idle" /\ run.retry = 1 /\ run.misses = 0 /\ ~run.answer
      /\ chosen.group = "none" /\ chosen.team = "none"
  BY <1>1 DEF ScreensBegin, ChoicesFit
<1>3. /\ script' = s /\ entry' = l /\ opened' = q /\ shown' = q /\ chosen' = chosen
      /\ run' = [run EXCEPT !.pc = "start"]
  BY DEF ScreensBegin
<1>4. run' = [pc |-> "start", attempt |-> run.attempt, retry |-> run.retry, misses |-> run.misses,
              answer |-> run.answer]
  BY <1>1, <1>3 DEF AttemptFits
<1>5. AttemptFits'
  BY <1>1, <1>4 DEF AttemptFits
<1>6. ListsFit'
  BY <1>3, ScreensAssumption DEF ListsFit, Longest
<1>7. ChoicesFit'
  BY <1>1, <1>2, <1>3, <1>4 DEF ChoicesFit
<1>8. AheadFromTop'
  <2> SUFFICES ASSUME GroupInReach', FromTop' PROVE AheadFromTop'
    BY DEF AheadFromTop
  <2>1. entry'.up = "top" \/ shown' <= 2
    BY <1>3, ScreensAssumption DEF GroupInReach, FromTop, Lists, Scripts
  <2> QED
    BY <1>4, <2>1 DEF AheadFromTop
<1>9. AheadByPages'
  <2>1. shown' <= 44 /\ run'.retry = 1
    BY <1>2, <1>3, <1>4, ScreensAssumption
  <2> QED
    BY <1>4, <2>1 DEF AheadByPages
<1>10. TeamAhead' /\ BothFound'
  BY <1>4 DEF TeamAhead, BothFound
<1> QED
  BY <1>5, <1>6, <1>7, <1>8, <1>9, <1>10 DEF ScreensInv

\* The panel of presets.
LEMMA ClickPresetFits == ScreensInv /\ (ClickPreset \/ ClickPresetFails) => ScreensInv'
<1> SUFFICES ASSUME ScreensInv, ClickPreset \/ ClickPresetFails PROVE ScreensInv'
  OBVIOUS
<1>1. AttemptFits /\ ListsFit /\ ChoicesFit
  BY DEF ScreensInv
<1>2. run.pc = "start" /\ UNCHANGED <<script, entry, opened, shown, chosen>>
  BY DEF ClickPreset, ClickPresetFails
<1>3. CASE ClickPreset
  <2>1. run' = [run EXCEPT !.pc = "top"]
    BY <1>3 DEF ClickPreset
  <2>2. run' = [pc |-> "top", attempt |-> run.attempt, retry |-> run.retry, misses |-> run.misses,
                answer |-> run.answer]
    BY <1>1, <2>1 DEF AttemptFits
  <2>3. AttemptFits' /\ ListsFit'
    BY <1>1, <1>2, <2>2 DEF AttemptFits, ListsFit
  <2>4. ChoicesFit'
    BY <1>1, <1>2, <2>2 DEF ChoicesFit
  <2>5. AheadFromTop'
    BY <1>2, <2>2 DEF ScreensInv, AheadFromTop, GroupInReach, FromTop
  <2>6. AheadByPages'
    BY <1>2, <2>2 DEF ScreensInv, AheadByPages, GroupInReach, FromTop
  <2>7. TeamAhead' /\ BothFound'
    BY <2>2 DEF TeamAhead, BothFound
  <2> QED
    BY <2>3, <2>4, <2>5, <2>6, <2>7 DEF ScreensInv
<1>4. CASE ClickPresetFails
  <2>1. run' = [run EXCEPT !.pc = "done", !.misses = @ + 1] /\ run.misses < MaxMisses
    BY <1>4 DEF ClickPresetFails, Missing
  <2>2. run' = [pc |-> "done", attempt |-> run.attempt, retry |-> run.retry,
                misses |-> run.misses + 1, answer |-> run.answer]
    BY <1>1, <2>1 DEF AttemptFits
  <2>3. run'.misses \in 0..MaxMisses /\ run'.misses # 0
    BY <1>1, <2>1, <2>2, ScreensAssumption DEF AttemptFits
  <2>4. AttemptFits' /\ ListsFit'
    BY <1>1, <1>2, <2>2, <2>3 DEF AttemptFits, ListsFit
  <2>5. ChoicesFit'
    BY <1>1, <1>2, <2>2 DEF ChoicesFit
  <2> QED
    BY <2>3, <2>4, <2>5, MissedFits
<1> QED
  BY <1>3, <1>4

\* The swipes to the top of the list, which may be too few.
LEMMA SwipeToTopFits == ScreensInv /\ SwipeToTop => ScreensInv'
<1> SUFFICES ASSUME ScreensInv, SwipeToTop PROVE ScreensInv'
  OBVIOUS
<1>1. AttemptFits /\ ListsFit /\ ChoicesFit /\ "group" \in Level
  BY DEF ScreensInv, Level
<1>2. run.pc = "top" /\ UNCHANGED <<script, entry, opened, chosen>>
  BY DEF SwipeToTop
<1>3. run' = [pc |-> "group", attempt |-> 1, retry |-> run.retry, misses |-> run.misses,
              answer |-> run.answer]
  <2>1. run' = [run EXCEPT !.pc = "group", !.attempt = 1]
    BY DEF SwipeToTop
  <2> QED
    BY <1>1, <2>1 DEF AttemptFits
<1>4. /\ run.retry \in 1..3 /\ shown \in Nat \ {0} /\ shown \in 1..Longest /\ Longest \in Nat
      /\ script \in {"AutoBattle", "SwitchSoul"} /\ entry.up \in {"page", "top"}
      /\ entry.group \in 0..GroupPages /\ GroupPages \in Nat \ {0}
  BY <1>1, ScreensAssumption DEF AttemptFits, ListsFit, Lists, Longest, Scripts
<1> DEFINE once == Up(shown, "group")
           twice == Up(once, "group")
<1>5. /\ once \in Nat \ {0} /\ once <= shown /\ (entry.up = "top" => once = 1)
      /\ entry.up # "top" => once = IF shown = 1 THEN 1 ELSE shown - 1
  BY <1>1, <1>4, SwipeParts
<1>6. /\ twice \in Nat \ {0} /\ twice <= once /\ (entry.up = "top" => twice = 1)
      /\ entry.up # "top" => twice = IF once = 1 THEN 1 ELSE once - 1
  BY <1>1, <1>5, SwipeParts
<1>7. shown' = IF script = "AutoBattle" THEN twice ELSE once
  BY DEF SwipeToTop
<1> HIDE DEF once, twice
<1>8. AttemptFits'
  BY <1>1, <1>3 DEF AttemptFits, Level
<1>9. ListsFit'
  BY <1>1, <1>2, <1>4, <1>5, <1>6, <1>7 DEF ListsFit
<1>10. ChoicesFit'
  BY <1>1, <1>2, <1>3 DEF ChoicesFit
<1>11. AheadFromTop'
  <2> SUFFICES ASSUME run.misses = 0, GroupInReach, FromTop
               PROVE  shown' = 1 /\ 1 <= entry.group
    BY <1>2, <1>3 DEF AheadFromTop, GroupInReach, FromTop
  <2>1. entry.up = "top" \/ (shown <= 2 /\ script = "SwitchSoul")
    BY <1>2, <1>4 DEF ScreensInv, AheadFromTop, FromTop
  <2> QED
    BY <1>4, <1>5, <1>6, <1>7, <2>1 DEF GroupInReach
<1>12. AheadByPages'
  <2> SUFFICES ASSUME run.misses = 0, GroupInReach, ~FromTop
               PROVE  /\ shown' >= 1 /\ shown' <= 44
                      /\ run.retry > 1 => shown' <= 53 - 14 * run.retry + 1
    BY <1>2, <1>3 DEF AheadByPages, GroupInReach, FromTop
  <2>1. shown <= (IF run.retry = 1 THEN 44 ELSE 56 - 14 * run.retry)
    BY <1>2 DEF ScreensInv, AheadByPages
  <2>2. script = "AutoBattle" /\ entry.up # "top" /\ shown' = twice
    BY <1>4, <1>7 DEF FromTop
  <2>3. CASE run.retry = 1
    BY <1>4, <1>5, <1>6, <2>1, <2>2, <2>3
  <2>4. CASE run.retry = 2
    BY <1>4, <1>5, <1>6, <2>1, <2>2, <2>4
  <2>5. CASE run.retry = 3
    BY <1>4, <1>5, <1>6, <2>1, <2>2, <2>5
  <2> QED
    BY <1>4, <2>3, <2>4, <2>5
<1>13. TeamAhead' /\ BothFound'
  BY <1>3 DEF TeamAhead, BothFound
<1> QED
  BY <1>8, <1>9, <1>10, <1>11, <1>12, <1>13 DEF ScreensInv

\* The group is found, or another one is clicked.
LEMMA FindGroupFits == ScreensInv /\ FindGroup => ScreensInv'
<1> SUFFICES ASSUME ScreensInv, FindGroup PROVE ScreensInv'
  OBVIOUS
<1>1. AttemptFits /\ ListsFit /\ ChoicesFit
  BY DEF ScreensInv
<1>2. run.pc = "group" /\ UNCHANGED <<script, entry, opened>>
  BY DEF FindGroup
<1>3. PICK what \in {"wanted", "other"} :
        GroupClicked(what) /\ (script = "SwitchSoul" => what = "wanted")
  BY <1>1 DEF FindGroup, MayStray
<1>4. run' = [pc |-> "team", attempt |-> 1, retry |-> run.retry, misses |-> run.misses,
              answer |-> run.answer]
  <2>1. run' = [run EXCEPT !.pc = "team", !.attempt = 1]
    BY <1>3 DEF GroupClicked
  <2> QED
    BY <1>1, <2>1 DEF AttemptFits
<1>5. chosen' = [group |-> what, team |-> chosen.team, fights |-> chosen.fights]
  <2>1. chosen' = [chosen EXCEPT !.group = what]
    BY <1>3 DEF GroupClicked
  <2> QED
    BY <1>1, <2>1 DEF ChoicesFit
<1>6. shown' = 1 /\ run.retry \in 1..3
  BY <1>1, <1>3 DEF GroupClicked, AttemptFits
<1>7. AttemptFits'
  BY <1>1, <1>4 DEF AttemptFits, Level
<1>8. ListsFit'
  BY <1>1, <1>2, <1>6, ScreensAssumption DEF ListsFit, Longest
<1>9. ChoicesFit'
  BY <1>1, <1>2, <1>3, <1>4, <1>5 DEF ChoicesFit, Selections
<1>10. AheadFromTop' /\ AheadByPages' /\ BothFound'
  BY <1>4, <1>6 DEF AheadFromTop, AheadByPages, BothFound
<1>11. TeamAhead'
  <2> SUFFICES ASSUME TeamInReach PROVE 1 <= entry.team
    BY <1>2, <1>4, <1>6 DEF TeamAhead, TeamInReach
  <2>1. entry.team \in 1..5 \/ entry.team \in 1..3
    BY DEF TeamInReach
  <2> QED
    BY <2>1
<1> QED
  BY <1>7, <1>8, <1>9, <1>10, <1>11 DEF ScreensInv

\* The team is found, or another one is clicked.
LEMMA FindTeamFits == ScreensInv /\ FindTeam => ScreensInv'
<1> SUFFICES ASSUME ScreensInv, FindTeam PROVE ScreensInv'
  OBVIOUS
<1>1. AttemptFits /\ ListsFit /\ ChoicesFit
  BY DEF ScreensInv
<1>2. run.pc = "team" /\ script = "AutoBattle" /\ UNCHANGED <<script, entry, opened, shown>>
  BY DEF FindTeam
<1>3. PICK what \in {"wanted", "other"} : chosen' = [chosen EXCEPT !.team = what]
  BY DEF FindTeam
<1>4. run' = [pc |-> "sortie", attempt |-> run.attempt, retry |-> run.retry,
              misses |-> run.misses, answer |-> run.answer]
  <2>1. run' = [run EXCEPT !.pc = "sortie"]
    BY DEF FindTeam
  <2> QED
    BY <1>1, <2>1 DEF AttemptFits
<1>5. chosen' = [group |-> chosen.group, team |-> what, fights |-> chosen.fights]
  BY <1>1, <1>3 DEF ChoicesFit
<1>6. AttemptFits' /\ ListsFit'
  BY <1>1, <1>2, <1>4 DEF AttemptFits, ListsFit
<1>7. ChoicesFit'
  BY <1>1, <1>2, <1>4, <1>5 DEF ChoicesFit, Selections
<1>8. AheadFromTop' /\ AheadByPages' /\ TeamAhead' /\ BothFound'
  BY <1>4 DEF AheadFromTop, AheadByPages, TeamAhead, BothFound
<1> QED
  BY <1>6, <1>7, <1>8 DEF ScreensInv

\* A screenshot fails, or equipping gives no detail: the attempt is used up.
LEMMA UsedUp ==
  ASSUME ScreensInv, NEW level \in Level, run.pc = level, Missing,
         run' = [Failed(level) EXCEPT !.misses = @ + 1],
         Swipe(level) \/ shown' = shown, UNCHANGED <<script, entry, opened, chosen>>
  PROVE  ScreensInv'
<1>1. AttemptFits /\ ListsFit /\ ChoicesFit
  BY DEF ScreensInv
<1>2. run.misses + 1 \in 0..MaxMisses /\ run.misses + 1 # 0
  BY <1>1, ScreensAssumption DEF AttemptFits, Missing
<1>3. run' = [Failed(level) EXCEPT !.misses = run.misses + 1]
  <2>1. Failed(level).misses = run.misses
    BY <1>1, FailedParts
  <2> QED
    BY <2>1
<1>4. AttemptFits' /\ ListsFit' /\ ChoicesFit' /\ run'.misses = run.misses + 1
  BY <1>1, <1>2, <1>3, AttemptKept
<1> QED
  BY <1>2, <1>4, MissedFits

\* A run that ends, having found both.
LEMMA EndsFound ==
  ASSUME ScreensInv, run.pc \in {"sortie", "team"}, NEW fights \in BOOLEAN,
         NEW team \in Selections, team # "none", team # "other" \/ script = "AutoBattle",
         NEW m \in 0..MaxMisses, m = 0 => fights, UNCHANGED <<script, entry, opened, shown>>,
         chosen' = [group |-> chosen.group, team |-> team, fights |-> fights],
         run' = [pc |-> "done", attempt |-> run.attempt, retry |-> run.retry, misses |-> m,
                 answer |-> TRUE]
  PROVE  ScreensInv'
<1>1. AttemptFits /\ ListsFit /\ ChoicesFit
  BY DEF ScreensInv
<1>2. AttemptFits' /\ ListsFit'
  BY <1>1 DEF AttemptFits, ListsFit
<1>3. ChoicesFit'
  BY <1>1 DEF ChoicesFit, ListsFit, Scripts
<1>4. AheadFromTop' /\ AheadByPages' /\ TeamAhead' /\ BothFound'
  BY DEF AheadFromTop, AheadByPages, TeamAhead, BothFound
<1> QED
  BY <1>2, <1>3, <1>4 DEF ScreensInv

\* The sortie, which may fail.
LEMMA SortieFits ==
  ASSUME ScreensInv, NEW ok \in BOOLEAN, Sortie(ok)
  PROVE  ScreensInv'
<1>1. AttemptFits /\ ListsFit /\ ChoicesFit
  BY DEF ScreensInv
<1>2. run.pc = "sortie" /\ UNCHANGED <<script, entry, opened, shown>>
  BY DEF Sortie
<1>3. chosen.team \in Selections /\ chosen.team # "none"
      /\ (chosen.team # "other" \/ script = "AutoBattle")
  BY <1>1, <1>2 DEF ChoicesFit, ListsFit, Scripts
<1>4. chosen' = [group |-> chosen.group, team |-> chosen.team, fights |-> ok]
  <2>1. chosen' = [chosen EXCEPT !.fights = ok]
    BY DEF Sortie
  <2> QED
    BY <1>1, <2>1 DEF ChoicesFit
<1> DEFINE m == IF ok THEN run.misses ELSE run.misses + 1
<1>5. m \in 0..MaxMisses /\ (m = 0 => ok)
  BY <1>1, ScreensAssumption DEF AttemptFits, Sortie, Missing
<1>6. run' = [pc |-> "done", attempt |-> run.attempt, retry |-> run.retry, misses |-> m,
              answer |-> TRUE]
  <2>1. run' = [run EXCEPT !.pc = "done", !.answer = TRUE, !.misses = m]
    BY DEF Sortie
  <2> QED
    BY <1>1, <2>1 DEF AttemptFits
<1> HIDE DEF m
<1> QED
  BY <1>2, <1>3, <1>4, <1>5, <1>6, EndsFound

\* The team's souls are put on.
LEMMA EquipTeamFits == ScreensInv /\ EquipTeam => ScreensInv'
<1> SUFFICES ASSUME ScreensInv, EquipTeam PROVE ScreensInv'
  OBVIOUS
<1>1. AttemptFits /\ ListsFit /\ ChoicesFit
  BY DEF ScreensInv
<1>2. run.pc = "team" /\ UNCHANGED <<script, entry, opened, shown>>
  BY DEF EquipTeam
<1>3. chosen' = [group |-> chosen.group, team |-> "wanted", fights |-> TRUE]
  <2>1. chosen' = [chosen EXCEPT !.team = "wanted", !.fights = TRUE]
    BY DEF EquipTeam
  <2> QED
    BY <1>1, <2>1 DEF ChoicesFit
<1>4. run.misses \in 0..MaxMisses /\ "wanted" \in Selections
  BY <1>1 DEF AttemptFits, Selections
<1>5. run' = [pc |-> "done", attempt |-> run.attempt, retry |-> run.retry, misses |-> run.misses,
              answer |-> TRUE]
  <2>1. run' = [run EXCEPT !.pc = "done", !.answer = TRUE]
    BY DEF EquipTeam, End
  <2> QED
    BY <1>1, <2>1 DEF AttemptFits
<1> QED
  BY <1>2, <1>3, <1>4, <1>5, EndsFound

\* Equipping gives no detail: the script ends, or looks on.
LEMMA EquipFailsFits ==
  ASSUME ScreensInv, NEW firstFind \in BOOLEAN, EquipFails(firstFind)
  PROVE  ScreensInv'
<1>1. AttemptFits /\ ListsFit /\ ChoicesFit
  BY DEF ScreensInv
<1>2. /\ run.pc = "team" /\ "team" \in Level /\ Missing
      /\ UNCHANGED <<script, entry, opened, chosen>>
  BY DEF EquipFails, Level
<1>3. CASE firstFind
  <2>1. run' = [run EXCEPT !.pc = "done", !.misses = @ + 1] /\ shown' = shown
    BY <1>3 DEF EquipFails
  <2>2. run' = [pc |-> "done", attempt |-> run.attempt, retry |-> run.retry,
                misses |-> run.misses + 1, answer |-> run.answer]
    BY <1>1, <2>1 DEF AttemptFits
  <2>3. run'.misses \in 0..MaxMisses /\ run'.misses # 0
    BY <1>1, <1>2, <2>2, ScreensAssumption DEF AttemptFits, Missing
  <2>4. AttemptFits' /\ ListsFit'
    BY <1>1, <1>2, <2>1, <2>2, <2>3 DEF AttemptFits, ListsFit
  <2>5. ChoicesFit'
    BY <1>1, <1>2, <2>2 DEF ChoicesFit
  <2> QED
    BY <2>3, <2>4, <2>5, MissedFits
<1>4. CASE ~firstFind
  <2>1. run' = [Failed("team") EXCEPT !.misses = @ + 1] /\ Swipe("team")
    BY <1>4 DEF EquipFails
  <2> QED
    BY <1>2, <2>1, UsedUp
<1> QED
  BY <1>3, <1>4

\* The first state.
LEMMA ScreensStart == ScreensInit => ScreensInv
<1> SUFFICES ASSUME ScreensInit PROVE ScreensInv
  OBVIOUS
<1>1. AttemptFits
  BY ScreensAssumption DEF ScreensInit, AttemptFits
<1>2. ListsFit
  BY ScreensAssumption DEF ScreensInit, ListsFit, Longest, Lists, Scripts
<1>3. ChoicesFit
  BY DEF ScreensInit, ChoicesFit, Selections
<1>4. AheadFromTop /\ AheadByPages /\ TeamAhead /\ BothFound
  BY DEF ScreensInit, AheadFromTop, AheadByPages, TeamAhead, BothFound
<1> QED
  BY <1>1, <1>2, <1>3, <1>4 DEF ScreensInv

\* Every step keeps the invariant, as long as the groups have at most 44 pages.
LEMMA ScreensKept == GroupPages <= 44 /\ ScreensInv /\ [ScreensNext]_screenVars => ScreensInv'
<1> SUFFICES ASSUME GroupPages <= 44, ScreensInv, [ScreensNext]_screenVars PROVE ScreensInv'
  OBVIOUS
<1>1. CASE ScreensNext
  <2>1. ASSUME NEW s \in Scripts, NEW l \in Lists, NEW q \in 1..GroupPages, ScreensBegin(s, l, q)
        PROVE  ScreensInv'
    BY <2>1, ScreensBeginFits
  <2>2. CASE ClickPreset \/ ClickPresetFails \/ SwipeToTop \/ FindGroup \/ FindTeam \/ EquipTeam
    BY <2>2, ClickPresetFits, SwipeToTopFits, FindGroupFits, FindTeamFits, EquipTeamFits
  <2>3. ASSUME NEW level \in Level, LookInVain(level) PROVE ScreensInv'
    BY <2>3, NoGroup, NoTeam DEF Level
  <2>4. ASSUME NEW level \in Level, NoScreenshot(level) PROVE ScreensInv'
    <3>1. /\ run.pc = level /\ Missing /\ run' = [Failed(level) EXCEPT !.misses = @ + 1]
          /\ UNCHANGED <<script, entry, opened, shown, chosen>>
      BY <2>4 DEF NoScreenshot
    <3> QED
      BY <3>1, UsedUp
  <2>5. ASSUME NEW ok \in BOOLEAN, Sortie(ok) PROVE ScreensInv'
    BY <2>5, SortieFits
  <2>6. ASSUME NEW ok \in BOOLEAN, EquipFails(ok) PROVE ScreensInv'
    BY <2>6, EquipFailsFits
  <2> QED
    BY <1>1, <2>1, <2>2, <2>3, <2>4, <2>5, <2>6 DEF ScreensNext
<1>2. CASE UNCHANGED screenVars
  <2>1. /\ script' = script /\ entry' = entry /\ opened' = opened /\ shown' = shown
        /\ chosen' = chosen /\ run' = run
    BY <1>2 DEF screenVars
  <2>2. AttemptFits' /\ ListsFit'
    BY <2>1 DEF ScreensInv, AttemptFits, ListsFit
  <2>3. ChoicesFit'
    BY <2>1 DEF ScreensInv, ChoicesFit
  <2>4. AheadFromTop'
    BY <2>1 DEF ScreensInv, AheadFromTop, FromTop, GroupInReach
  <2>5. AheadByPages'
    BY <2>1 DEF ScreensInv, AheadByPages, FromTop, GroupInReach
  <2>6. TeamAhead' /\ BothFound'
    BY <2>1 DEF ScreensInv, TeamAhead, BothFound, GroupInReach, TeamInReach
  <2> QED
    BY <2>2, <2>3, <2>4, <2>5, <2>6 DEF ScreensInv
<1> QED
  BY <1>1, <1>2

\* A success reported with no stray click has the wanted team of the wanted group
\* selected, and a team in reach is found whatever page the lists were left at: as long
\* as the groups have at most 44 pages, which three times 15 swipes up go through.
THEOREM TeamChosen == GroupPages <= 44 => (Spec => []ChosenTeamFights)
<1> SUFFICES ASSUME GroupPages <= 44 PROVE Spec => []ChosenTeamFights
  OBVIOUS
<1>1. Init => ScreensInv
  BY ScreensStart DEF Init
<1>2. ScreensInv /\ [Next]_vars => ScreensInv'
  BY ScreensSteps, ScreensKept
<1>3. ScreensInv => ChosenTeamFights
  <2> SUFFICES ASSUME ScreensInv, run.pc = "done", "other" \notin {chosen.group, chosen.team}
               PROVE  /\ run.answer => chosen.group = "wanted" /\ chosen.team = "wanted"
                      /\ run.misses = 0 /\ GroupInReach /\ TeamInReach
                           => run.answer /\ chosen.fights
    BY DEF ChosenTeamFights
  <2>1. chosen.group # "other" /\ chosen.team # "other"
    OBVIOUS
  <2>2. run.answer => chosen.group = "wanted" /\ chosen.team = "wanted"
    BY <2>1 DEF ScreensInv, ChoicesFit, Selections
  <2>3. run.misses = 0 /\ GroupInReach /\ TeamInReach => run.answer /\ chosen.fights
    BY <2>1 DEF ScreensInv, BothFound
  <2> QED
    BY <2>2, <2>3
<1> QED
  BY <1>1, <1>2, <1>3, PTL DEF Spec

-----------------------------------------------------------------------------
(* Logs of calls                                                            *)

\* A set of numbers has a least one.
LEMMA LeastOf == ASSUME NEW T \in SUBSET Nat, T # {} PROVE \E x \in T : \A y \in T : x <= y
<1> DEFINE R == {ss \in Nat \X Nat : ss[1] < ss[2]}
<1>1. IsWellFoundedOn(R, Nat)
  BY NatLessThanWellFounded, Zenon DEF OpToRel
<1>2. \A a, b \in Nat : a < b => <<a, b>> \in R
  OBVIOUS
<1> HIDE DEF R
<1>3. PICK x \in T : \A y \in T : ~ (<<y, x>> \in R)
  BY <1>1, WFMin
<1>4. SUFFICES ASSUME NEW y \in T PROVE x <= y
  BY <1>3
<1>5. x \in Nat /\ y \in Nat /\ ~ (<<y, x>> \in R)
  BY <1>3
<1> QED
  BY <1>5, <1>2

\* The last of some positions is one of them, and none is later.
LEMMA LastIsLast ==
  ASSUME NEW n \in Nat, NEW S \in SUBSET (1..n)
  PROVE  /\ LastOf(S) \in 0..n
         /\ S # {} => LastOf(S) \in S /\ \A k \in S : k <= LastOf(S)
<1>1. CASE S = {}
  BY <1>1 DEF LastOf
<1>2. CASE S # {}
  <2> DEFINE T == {m \in Nat : \E k \in S : m = n - k}
  <2>1. T # {} /\ T \in SUBSET Nat
    <3>1. PICK k \in S : TRUE
      BY <1>2
    <3>2. k \in 1..n /\ n - k \in Nat
      OBVIOUS
    <3> QED
      BY <3>2
  <2>2. PICK x \in T : \A y \in T : x <= y
    <3> HIDE DEF T
    <3> QED
      BY <2>1, LeastOf
  <2>3. PICK j \in S : x = n - j
    OBVIOUS
  <2>4. ASSUME NEW k \in S PROVE k <= j
    <3>1. k \in 1..n /\ j \in 1..n /\ n - k \in Nat
      OBVIOUS
    <3>2. n - k \in T
      BY <3>1
    <3>3. n - j <= n - k
      BY <2>2, <2>3, <3>2
    <3> QED
      BY <3>1, <3>3
  <2>5. LastOf(S) = CHOOSE i \in S : \A k \in S : k <= i
    BY <1>2 DEF LastOf
  <2>6. LastOf(S) \in S /\ \A k \in S : k <= LastOf(S)
    BY <2>4, <2>5
  <2> HIDE DEF T
  <2>7. LastOf(S) \in 1..n
    BY <2>6
  <2> QED
    BY <2>6, <2>7, <1>2
<1> QED
  BY <1>1, <1>2

\* What is logged last is the last of the positions it belongs to.
LEMMA LastAdded ==
  ASSUME NEW n \in Nat, NEW S \in SUBSET (1..n)
  PROVE  LastOf(S \cup {n + 1}) = n + 1
<1>1. S \cup {n + 1} \in SUBSET (1..(n + 1)) /\ S \cup {n + 1} # {} /\ n + 1 \in Nat
  OBVIOUS
<1>2. LastOf(S \cup {n + 1}) \in 0..(n + 1) /\ n + 1 <= LastOf(S \cup {n + 1})
  BY <1>1, LastIsLast
<1> QED
  BY <1>2

\* A log with one call more.
LEMMA Appended ==
  ASSUME NEW S, NEW l \in Seq(S), NEW c \in S
  PROVE  /\ Append(l, c) \in Seq(S) /\ Len(Append(l, c)) = Len(l) + 1 /\ Len(l) \in Nat
         /\ Append(l, c)[Len(l) + 1] = c
         /\ \A i \in 1..Len(l) : Append(l, c)[i] = l[i]
         /\ DOMAIN l = 1..Len(l) /\ DOMAIN Append(l, c) = 1..(Len(l) + 1)
OBVIOUS

-----------------------------------------------------------------------------
(* CoBattleTargetRecognition: the targets are the names that were added     *)

TargetCalls == [add : BOOLEAN, name : Enemies, answer : BOOLEAN]
TargetInv ==
  /\ calls \in Seq(TargetCalls) /\ targets \subseteq Enemies
  /\ \A name \in Enemies :
       name \in targets <=> \E j \in 1..Len(calls) : calls[j].add /\ calls[j].name = name
  /\ \A i \in 1..Len(calls) : TargetEarned(i)

\* What a call does to the targets.
TargetCall(c) ==
  /\ calls' = Append(calls, c)
  /\ targets' = IF c.add THEN targets \cup {c.name} ELSE targets
  /\ ~c.add => (c.answer <=> \E t \in targets : Contains(c.name, t))

\* Such a call keeps the targets the names that were added.
LEMMA TargetKept == TargetInv /\ CoBattleNext => TargetInv'
<1> SUFFICES ASSUME TargetInv, CoBattleNext PROVE TargetInv'
  OBVIOUS
<1> DEFINE n == Len(calls)
<1>1. PICK c \in TargetCalls : TargetCall(c)
  <2>1. ASSUME NEW name \in Enemies, AddTarget(name) PROVE \E c \in TargetCalls : TargetCall(c)
    <3> DEFINE c == [add |-> TRUE, name |-> name, answer |-> TRUE]
    <3>1. c \in TargetCalls
      BY DEF TargetCalls
    <3> QED
      BY <2>1, <3>1 DEF AddTarget, Logged, TargetCall
  <2>2. ASSUME NEW name \in Enemies, CheckTarget(name) PROVE \E c \in TargetCalls : TargetCall(c)
    <3> DEFINE c == [add |-> FALSE, name |-> name,
                     answer |-> \E t \in targets : Contains(name, t)]
    <3>1. c \in TargetCalls
      BY DEF TargetCalls
    <3> QED
      BY <2>2, <3>1 DEF CheckTarget, Logged, TargetCall
  <2> QED
    BY <2>1, <2>2 DEF CoBattleNext
<1>2. /\ calls' \in Seq(TargetCalls) /\ Len(calls') = n + 1 /\ n \in Nat /\ calls'[n + 1] = c
      /\ \A i \in 1..n : calls'[i] = calls[i]
  BY <1>1, Appended DEF TargetInv, TargetCall
<1>3. targets' \subseteq Enemies
  BY <1>1 DEF TargetInv, TargetCalls, TargetCall
<1>4. ASSUME NEW name \in Enemies
      PROVE  name \in targets' <=> \E j \in 1..(n + 1) : calls'[j].add /\ calls'[j].name = name
  <2>1. (\E j \in 1..(n + 1) : calls'[j].add /\ calls'[j].name = name)
          <=> \/ c.add /\ c.name = name
              \/ \E j \in 1..n : calls[j].add /\ calls[j].name = name
    BY <1>2
  <2> QED
    BY <1>1, <2>1 DEF TargetInv, TargetCall
<1>5. ASSUME NEW i \in 1..(n + 1) PROVE TargetEarned(i)'
  <2>1. CASE i \in 1..n
    <3>1. calls'[i] = calls[i] /\ \A j \in Earlier(i) : calls'[j] = calls[j]
      BY <1>2, <2>1 DEF Earlier
    <3>2. TargetEarned(i)
      BY <2>1 DEF TargetInv
    <3> QED
      BY <3>1, <3>2 DEF TargetEarned
  <2>2. CASE i = n + 1
    <3>1. calls'[i] = c /\ Earlier(i) = 1..n
      BY <1>2, <2>2 DEF Earlier
    <3>2. (\E t \in targets : Contains(c.name, t))
            <=> \E j \in 1..n : calls[j].add /\ Contains(c.name, calls[j].name)
      <4>1. ASSUME NEW j \in 1..n PROVE calls[j].name \in Enemies
        <5>1. calls[j] \in TargetCalls
          BY DEF TargetInv
        <5> QED
          BY <5>1 DEF TargetCalls
      <4> QED
        BY <4>1 DEF TargetInv
    <3>3. (\E t \in targets : Contains(c.name, t))
            <=> \E j \in 1..n : calls'[j].add /\ Contains(c.name, calls'[j].name)
      BY <1>2, <3>2
    <3> QED
      BY <1>1, <3>1, <3>3 DEF TargetEarned, TargetCall
  <2> QED
    BY <2>1, <2>2, <1>2
<1> QED
  BY <1>2, <1>3, <1>4, <1>5 DEF TargetInv
-----------------------------------------------------------------------------
(* TaskCounterRecognition, TaskCounter                                      *)

\* A count is how often the task was asked of since its last no.
TaskCalls(c) == [counter : {c}, id : TaskIds, target : Targets, answer : BOOLEAN]
Asks(l, c, id, j) == l[j].counter = c /\ l[j].id = id
Refusals(l, c, id, n) == {j \in 1..n : Asks(l, c, id, j) /\ ~l[j].answer}
AskedSince(l, c, id, n) ==
  {j \in (LastOf(Refusals(l, c, id, n)) + 1)..n : Asks(l, c, id, j)}
Due(c, n, target) == (IF c = "recognition" THEN n ELSE n + 1) < target

TaskInv(c) ==
  /\ calls \in Seq(TaskCalls(c))
  /\ taskCounts \in [Counters -> [TaskIds -> Nat]]
  /\ \A id \in TaskIds :
       taskCounts[c][id] = Cardinality(AskedSince(calls, c, id, Len(calls)))
  /\ \A i \in 1..Len(calls) : CountEarned(i)

\* An answer is held against what was asked before it.
LEMMA CountHeld ==
  ASSUME NEW i \in Nat
  PROVE  CountEarned(i) <=>
           (calls[i].answer <=>
              Due(calls[i].counter,
                  Cardinality(AskedSince(calls, calls[i].counter, calls[i].id, i - 1)),
                  calls[i].target))
BY DEF CountEarned, Due, AskedSince, Refusals, Asks, Earlier

\* What was asked before does not depend on what is asked later.
LEMMA AskedBefore ==
  ASSUME NEW n \in Nat, NEW m \in 0..n, NEW l, NEW k, \A j \in 1..n : k[j] = l[j],
         NEW c, NEW id
  PROVE  AskedSince(k, c, id, m) = AskedSince(l, c, id, m)
<1>1. Refusals(k, c, id, m) = Refusals(l, c, id, m)
  BY DEF Refusals, Asks
<1>2. Refusals(l, c, id, m) \in SUBSET (1..m) /\ m \in Nat
  BY DEF Refusals
<1>3. LastOf(Refusals(l, c, id, m)) \in 0..m
  BY <1>2, LastIsLast
<1> QED
  BY <1>1, <1>3 DEF AskedSince, Asks

\* One call more: a no starts the count anew, a yes adds one, and the calls of other tasks
\* change nothing.
LEMMA AskedOnce ==
  ASSUME NEW n \in Nat, NEW l, NEW k, \A j \in 1..n : k[j] = l[j], NEW c, NEW id
  PROVE  /\ IsFiniteSet(AskedSince(l, c, id, n))
         /\ Cardinality(AskedSince(k, c, id, n + 1)) =
              IF ~Asks(k, c, id, n + 1) THEN Cardinality(AskedSince(l, c, id, n))
              ELSE IF k[n + 1].answer THEN Cardinality(AskedSince(l, c, id, n)) + 1
              ELSE 0
<1> DEFINE no == Refusals(l, c, id, n)
           last == LastOf(no)
           asked == AskedSince(l, c, id, n)
<1>1. no \in SUBSET (1..n)
  BY DEF Refusals
<1>2. last \in 0..n
  BY <1>1, LastIsLast
<1>3. asked \in SUBSET ((last + 1)..n) /\ IsFiniteSet((last + 1)..n)
  <2>1. asked \in SUBSET ((last + 1)..n)
    BY DEF AskedSince
  <2>2. last + 1 \in Int /\ n \in Int
    BY <1>2
  <2> QED
    BY <2>1, <2>2, FS_Interval
<1>4. IsFiniteSet(asked)
  BY <1>3, FS_Subset
<1>5. n + 1 \notin asked
  BY <1>2 DEF AskedSince
<1>6. Refusals(k, c, id, n + 1) =
        IF Asks(k, c, id, n + 1) /\ ~k[n + 1].answer THEN no \cup {n + 1} ELSE no
  <2>1. 1..(n + 1) = (1..n) \cup {n + 1}
    OBVIOUS
  <2>2. \A j \in 1..n : (Asks(k, c, id, j) /\ ~k[j].answer)
                         <=> (Asks(l, c, id, j) /\ ~l[j].answer)
    BY DEF Asks
  <2> QED
    BY <2>1, <2>2 DEF Refusals
<1>7. CASE ~Asks(k, c, id, n + 1)
  <2>1. AskedSince(k, c, id, n + 1) = asked
    BY <1>2, <1>6, <1>7 DEF AskedSince, Asks
  <2> QED
    BY <1>4, <1>7, <2>1
<1>8. CASE Asks(k, c, id, n + 1) /\ k[n + 1].answer
  <2>1. AskedSince(k, c, id, n + 1) = asked \cup {n + 1}
    BY <1>2, <1>6, <1>8 DEF AskedSince, Asks
  <2> QED
    BY <1>4, <1>5, <1>8, <2>1, FS_AddElement
<1>9. CASE Asks(k, c, id, n + 1) /\ ~k[n + 1].answer
  <2>1. LastOf(no \cup {n + 1}) = n + 1
    BY <1>1, LastAdded
  <2>2. AskedSince(k, c, id, n + 1) = {}
    BY <1>6, <1>9, <2>1 DEF AskedSince
  <2> QED
    BY <1>4, <1>9, <2>2, FS_EmptySet
<1> QED
  BY <1>7, <1>8, <1>9

\* A call of a task counter answers by the count, and changes it.
TaskCall(counter, c) ==
  LET n == taskCounts[counter][c.id] IN
  /\ calls' = Append(calls, c)
  /\ taskCounts' = [taskCounts EXCEPT ![counter][c.id] = IF c.answer THEN n + 1 ELSE 0]
  /\ c.answer <=> Due(counter, n, c.target)

\* Both counters are asked in this way.
LEMMA TaskAsked ==
  ASSUME taskCounts \in [Counters -> [TaskIds -> Nat]], NEW counter \in Counters,
         counter = "recognition" => TaskRecognitionNext, counter = "action" => TaskActionNext
  PROVE  \E c \in TaskCalls(counter) : TaskCall(counter, c)
<1>1. PICK id \in TaskIds, target \in Targets :
        \/ counter = "recognition" /\ TaskCounterRecognition(id, target)
        \/ counter = "action" /\ TaskCounter(id, target)
  BY DEF TaskRecognitionNext, TaskActionNext, Counters
<1> DEFINE n == taskCounts[counter][id]
           c == [counter |-> counter, id |-> id, target |-> target,
                 answer |-> Due(counter, n, target)]
<1>2. n \in Nat /\ target \in Nat
  BY CountersAssumption DEF Counters
<1>3. c \in TaskCalls(counter)
  BY DEF TaskCalls, Due
<1>4. c.id = id /\ c.target = target /\ (c.answer <=> Due(counter, n, target))
  OBVIOUS
<1>5. /\ Due(counter, n, target)
           => c = [counter |-> counter, id |-> id, target |-> target, answer |-> TRUE]
      /\ ~Due(counter, n, target)
           => c = [counter |-> counter, id |-> id, target |-> target, answer |-> FALSE]
  <2>1. Due(counter, n, target) \in BOOLEAN
    BY <1>2 DEF Due
  <2>2. /\ Due(counter, n, target) => Due(counter, n, target) = TRUE
        /\ ~Due(counter, n, target) => Due(counter, n, target) = FALSE
    BY <2>1, Zenon
  <2> QED
    BY <2>2
<1>6. calls' = Append(calls, c)
      /\ taskCounts' = [taskCounts EXCEPT ![counter][id] = IF c.answer THEN n + 1 ELSE 0]
  <2> HIDE DEF c
  <2>1. CASE counter = "recognition" /\ TaskCounterRecognition(id, target)
    <3>1. Due(counter, n, target) <=> ~(n >= target)
      BY <1>2, <2>1 DEF Due
    <3> QED
      BY <1>4, <1>5, <2>1, <3>1 DEF TaskCounterRecognition, Answered, Logged
  <2>2. CASE counter = "action" /\ TaskCounter(id, target)
    <3>1. Due(counter, n, target) <=> ~(n + 1 >= target)
      BY <1>2, <2>2 DEF Due
    <3> QED
      BY <1>4, <1>5, <2>2, <3>1 DEF TaskCounter, Answered, Logged
  <2> QED
    BY <1>1, <2>1, <2>2
<1>7. TaskCall(counter, c)
  <2> HIDE DEF c
  <2> QED
    BY <1>4, <1>6 DEF TaskCall
<1> QED
  BY <1>3, <1>7

\* An asked counter keeps its count what was asked since its last no.
LEMMA TaskKept ==
  ASSUME NEW counter \in Counters, TaskInv(counter), NEW c \in TaskCalls(counter),
         TaskCall(counter, c)
  PROVE  TaskInv(counter)'
<1> DEFINE n == Len(calls)
<1>1. /\ calls' \in Seq(TaskCalls(counter)) /\ Len(calls') = n + 1 /\ n \in Nat
      /\ calls'[n + 1] = c
      /\ \A i \in 1..n : calls'[i] = calls[i]
  BY Appended DEF TaskInv, TaskCall
<1>2. c.id \in TaskIds /\ c.counter = counter /\ c.answer \in BOOLEAN
  BY DEF TaskCalls
<1>3. taskCounts' \in [Counters -> [TaskIds -> Nat]]
  <2>1. (IF c.answer THEN taskCounts[counter][c.id] + 1 ELSE 0) \in Nat
    BY <1>2 DEF TaskInv
  <2> QED
    BY <1>2, <2>1 DEF TaskInv, TaskCall
<1>4. ASSUME NEW id \in TaskIds
      PROVE  taskCounts'[counter][id] = Cardinality(AskedSince(calls', counter, id, n + 1))
  <2>1. Asks(calls', counter, id, n + 1) <=> id = c.id
    BY <1>1, <1>2 DEF Asks
  <2>2. Cardinality(AskedSince(calls', counter, id, n + 1)) =
          IF id # c.id THEN taskCounts[counter][id]
          ELSE IF c.answer THEN taskCounts[counter][id] + 1 ELSE 0
    <3>1. taskCounts[counter][id] = Cardinality(AskedSince(calls, counter, id, n))
      BY DEF TaskInv
    <3>2. Cardinality(AskedSince(calls', counter, id, n + 1)) =
            IF ~Asks(calls', counter, id, n + 1)
              THEN Cardinality(AskedSince(calls, counter, id, n))
            ELSE IF calls'[n + 1].answer THEN Cardinality(AskedSince(calls, counter, id, n)) + 1
            ELSE 0
      <4> HIDE DEF n
      <4> QED
        BY <1>1, AskedOnce
    <3> QED
      BY <1>1, <2>1, <3>1, <3>2
  <2>3. taskCounts'[counter][id] =
          IF id # c.id THEN taskCounts[counter][id]
          ELSE IF c.answer THEN taskCounts[counter][id] + 1 ELSE 0
    BY <1>2 DEF TaskInv, TaskCall
  <2> QED
    BY <2>2, <2>3
<1>5. ASSUME NEW i \in 1..(n + 1) PROVE CountEarned(i)'
  <2>1. calls'[i].counter = counter /\ i - 1 \in 0..n /\ i \in Nat
    <3>1. calls'[i] \in TaskCalls(counter)
      BY <1>1
    <3> QED
      BY <1>1, <3>1 DEF TaskCalls
  <2> DEFINE id == calls'[i].id
  <2>2. AskedSince(calls', counter, id, i - 1) = AskedSince(calls, counter, id, i - 1)
    <3> HIDE DEF n, id
    <3> QED
      BY <1>1, <2>1, AskedBefore
  <2>3. CountEarned(i)' <=>
          (calls'[i].answer <=>
            Due(counter, Cardinality(AskedSince(calls, counter, id, i - 1)), calls'[i].target))
    <3>1. CountEarned(i)' <=>
           (calls'[i].answer <=>
              Due(calls'[i].counter,
                  Cardinality(AskedSince(calls', calls'[i].counter, calls'[i].id, i - 1)),
                  calls'[i].target))
      BY DEF CountEarned, Due, AskedSince, Refusals, Asks, Earlier
    <3> QED
      BY <2>1, <2>2, <3>1
  <2>4. CASE i \in 1..n
    <3>1. calls'[i] = calls[i] /\ CountEarned(i)
      BY <1>1, <2>4 DEF TaskInv
    <3> QED
      BY <2>1, <2>3, <3>1, CountHeld
  <2>5. CASE i = n + 1
    <3>1. calls'[i] = c /\ i - 1 = n
      BY <1>1, <2>5
    <3>2. taskCounts[counter][c.id] = Cardinality(AskedSince(calls, counter, c.id, n))
      BY <1>2 DEF TaskInv
    <3> QED
      BY <2>3, <3>1, <3>2 DEF TaskCall
  <2> QED
    BY <1>1, <2>4, <2>5
<1> QED
  BY <1>1, <1>3, <1>4, <1>5 DEF TaskInv
-----------------------------------------------------------------------------
(* CountAction: a run counts the hits since it began                        *)

Looks == {"begin", "hit", "miss", "abort", "next"}
CountCalls == [look : Looks, target : Targets]
BeginsUpTo(l, n) == {j \in 1..n : l[j].look = "begin"}
HitsSince(l, m, n) == {j \in LastOf(BeginsUpTo(l, m))..n : l[j].look = "hit"}

CountingInv ==
  /\ calls \in Seq(CountCalls) /\ counting \in [n : Nat, target : Targets \cup {0}]
  /\ counting # NotCounting =>
       /\ counting.target \in Targets /\ BeginsUpTo(calls, Len(calls)) # {}
       /\ counting.n = Cardinality(HitsSince(calls, Len(calls), Len(calls)))
  /\ \A i \in 1..Len(calls) :
       NextEarned(i) /\ (calls[i].look = "next" => BeginsUpTo(calls, i - 1) # {})

\* A run that ends is held against the looks since its begin.
LEMMA NextHeld ==
  ASSUME NEW i \in Nat
  PROVE  NextEarned(i) <=>
           (calls[i].look = "next" =>
              calls[i].target = Cardinality(HitsSince(calls, i - 1, i)))
BY DEF NextEarned, HitsSince, BeginsUpTo, Earlier

\* The begins and hits of a log do not depend on what is logged later.
LEMMA HitsBefore ==
  ASSUME NEW n \in Nat, NEW m \in 0..n, NEW i \in 0..n, NEW l, NEW k,
         \A j \in 1..n : k[j] = l[j], BeginsUpTo(l, m) # {}
  PROVE  HitsSince(k, m, i) = HitsSince(l, m, i)
<1>1. BeginsUpTo(k, m) = BeginsUpTo(l, m)
  BY DEF BeginsUpTo
<1>2. BeginsUpTo(l, m) \in SUBSET (1..m) /\ m \in Nat
  BY DEF BeginsUpTo
<1>3. LastOf(BeginsUpTo(l, m)) \in 1..m
  BY <1>2, LastIsLast
<1> QED
  BY <1>1, <1>3 DEF HitsSince

\* One look more: a hit is one more, and a miss or an end of the run none.
LEMMA HitsOnce ==
  ASSUME NEW n \in Nat, NEW l, NEW k, \A j \in 1..n : k[j] = l[j], BeginsUpTo(l, n) # {},
         k[n + 1].look # "begin"
  PROVE  /\ IsFiniteSet(HitsSince(l, n, n)) /\ BeginsUpTo(k, n + 1) # {}
         /\ Cardinality(HitsSince(k, n + 1, n + 1)) =
              IF k[n + 1].look = "hit" THEN Cardinality(HitsSince(l, n, n)) + 1
              ELSE Cardinality(HitsSince(l, n, n))
         /\ Cardinality(HitsSince(k, n, n + 1)) = Cardinality(HitsSince(k, n + 1, n + 1))
<1> DEFINE begins == BeginsUpTo(l, n)
           last == LastOf(begins)
           hits == HitsSince(l, n, n)
<1>1. begins \in SUBSET (1..n)
  BY DEF BeginsUpTo
<1>2. last \in 1..n
  BY <1>1, LastIsLast
<1>3. hits \in SUBSET (last..n)
  BY DEF HitsSince
<1>4. IsFiniteSet(hits)
  <2>1. last \in Int /\ n \in Int
    BY <1>2
  <2> QED
    BY <1>3, <2>1, FS_Interval, FS_Subset
<1>5. n + 1 \notin hits
  BY <1>3, <1>2
<1>6. BeginsUpTo(k, n + 1) = begins /\ BeginsUpTo(k, n) = begins
  BY DEF BeginsUpTo
<1>7. HitsSince(k, n + 1, n + 1) = IF k[n + 1].look = "hit" THEN hits \cup {n + 1} ELSE hits
  <2>1. last..(n + 1) = (last..n) \cup {n + 1}
    BY <1>2
  <2>2. \A j \in last..n : k[j] = l[j]
    BY <1>2
  <2> QED
    BY <1>6, <2>1, <2>2 DEF HitsSince
<1>8. HitsSince(k, n, n + 1) = HitsSince(k, n + 1, n + 1)
  BY <1>6 DEF HitsSince
<1>9. Cardinality(hits \cup {n + 1}) = Cardinality(hits) + 1
  BY <1>4, <1>5, FS_AddElement
<1> HIDE DEF hits, begins
<1> QED
  BY <1>4, <1>6, <1>7, <1>8, <1>9 DEF hits, begins

\* A log that is longer by one call, for the properties of its calls.
LongerBy(l, k, c) ==
  /\ Len(k) = Len(l) + 1 /\ Len(l) \in Nat /\ k[Len(l) + 1] = c
  /\ \A i \in 1..Len(l) : k[i] = l[i]

\* What a call of the counting action does to a run.
CountCall(c) ==
  /\ calls' = Append(calls, c)
  /\ CASE c.look = "begin" -> counting' = [n |-> 0, target |-> c.target]
       [] c.look = "hit" -> counting # NotCounting /\ counting' = [counting EXCEPT !.n = @ + 1]
       [] c.look = "miss" -> counting' = counting
       [] c.look = "abort" -> counting' = NotCounting
       [] OTHER -> counting # NotCounting /\ counting.n = c.target /\ counting' = NotCounting

\* Nothing is logged, and nothing counted.
LEMMA CountingStill == CountingInv /\ calls' = calls /\ counting' = counting => CountingInv'
<1> SUFFICES ASSUME CountingInv, calls' = calls, counting' = counting PROVE CountingInv'
  OBVIOUS
<1>1. \A i : NextEarned(i)' <=> NextEarned(i)
  BY DEF NextEarned
<1> QED
  BY <1>1 DEF CountingInv, NotCounting

\* A step of the counting action is one of these calls, or a restart of the game, which is
\* not logged.
LEMMA CountCalled ==
  ASSUME CountingInv, CountNext
  PROVE  (calls' = calls /\ counting' = counting) \/ \E c \in CountCalls : CountCall(c)
<1>1. counting \in [n : Nat, target : Targets \cup {0}] /\ Targets \subseteq Nat \ {0}
  BY CountersAssumption DEF CountingInv
<1>2. ASSUME NEW target \in Targets, CountBegin(target) PROVE \E c \in CountCalls : CountCall(c)
  <2> DEFINE c == [look |-> "begin", target |-> target]
  <2>1. c \in CountCalls
    BY DEF CountCalls, Looks
  <2>2. CountCall(c)
    BY <1>2 DEF CountBegin, Logged, CountCall
  <2> QED
    BY <2>1, <2>2
<1>3. counting.n < counting.target => counting.target \in Targets /\ counting # NotCounting
  BY <1>1 DEF NotCounting
<1>4. ASSUME NEW hit \in BOOLEAN, CountLook(hit) PROVE \E c \in CountCalls : CountCall(c)
  <2> DEFINE c == [look |-> IF hit THEN "hit" ELSE "miss", target |-> counting.target]
  <2>1. c \in CountCalls
    BY <1>3, <1>4 DEF CountCalls, Looks, CountLook
  <2>2. CountCall(c)
    BY <1>3, <1>4 DEF CountLook, Logged, CountCall
  <2> QED
    BY <2>1, <2>2
<1>5. ASSUME CountAbort PROVE \E c \in CountCalls : CountCall(c)
  <2> DEFINE c == [look |-> "abort", target |-> counting.target]
  <2>1. c \in CountCalls
    BY <1>3, <1>5 DEF CountCalls, Looks, CountAbort
  <2>2. CountCall(c)
    BY <1>3, <1>5 DEF CountAbort, Logged, CountCall
  <2> QED
    BY <2>1, <2>2
<1>6. ASSUME CountReached PROVE \E c \in CountCalls : CountCall(c)
  <2> DEFINE c == [look |-> "next", target |-> counting.target]
  <2>1. c \in CountCalls
    BY <1>6 DEF CountCalls, Looks, CountReached, CountingInv
  <2>2. CountCall(c)
    BY <1>6 DEF CountReached, Logged, CountCall
  <2> QED
    BY <2>1, <2>2
<1> QED
  BY <1>2, <1>4, <1>5, <1>6 DEF CountNext, RestartGame

\* A look keeps the count of a run its hits.
LEMMA CountingKept ==
  ASSUME CountingInv, NEW c \in CountCalls, CountCall(c)
  PROVE  CountingInv'
<1> DEFINE n == Len(calls)
<1>1. /\ calls' \in Seq(CountCalls) /\ Len(calls') = n + 1 /\ n \in Nat /\ calls'[n + 1] = c
      /\ \A i \in 1..n : calls'[i] = calls[i]
  BY Appended DEF CountingInv, CountCall
<1>2. c.look \in Looks /\ c.target \in Targets /\ 0 \notin Targets /\ c.target \in Nat
  BY CountersAssumption DEF CountCalls
<1>3. counting \in [n : Nat, target : Targets \cup {0}]
  BY DEF CountingInv
<1>4. counting' \in [n : Nat, target : Targets \cup {0}]
  BY <1>2, <1>3 DEF CountCall, NotCounting, Looks
<1>5. counting # NotCounting =>
        /\ counting.target \in Targets /\ BeginsUpTo(calls, n) # {}
        /\ counting.n = Cardinality(HitsSince(calls, n, n))
  BY DEF CountingInv
<1> HIDE DEF n
<1>6. counting # NotCounting /\ c.look # "begin" =>
        /\ BeginsUpTo(calls', n + 1) # {}
        /\ Cardinality(HitsSince(calls', n + 1, n + 1)) =
             IF c.look = "hit" THEN counting.n + 1 ELSE counting.n
        /\ Cardinality(HitsSince(calls', n, n + 1)) =
             Cardinality(HitsSince(calls', n + 1, n + 1))
  <2> SUFFICES ASSUME counting # NotCounting, c.look # "begin" PROVE <1>6!2
    OBVIOUS
  <2>1. n \in Nat /\ (\A j \in 1..n : calls'[j] = calls[j]) /\ BeginsUpTo(calls, n) # {}
        /\ calls'[n + 1].look # "begin"
    BY <1>1, <1>5
  <2>2. /\ BeginsUpTo(calls', n + 1) # {}
        /\ Cardinality(HitsSince(calls', n + 1, n + 1)) =
             IF calls'[n + 1].look = "hit" THEN Cardinality(HitsSince(calls, n, n)) + 1
             ELSE Cardinality(HitsSince(calls, n, n))
        /\ Cardinality(HitsSince(calls', n, n + 1)) =
             Cardinality(HitsSince(calls', n + 1, n + 1))
    BY <2>1, HitsOnce
  <2> QED
    BY <1>1, <1>5, <2>2
<1>7. counting' # NotCounting =>
        /\ counting'.target \in Targets /\ BeginsUpTo(calls', n + 1) # {}
        /\ counting'.n = Cardinality(HitsSince(calls', n + 1, n + 1))
  <2>1. CASE c.look = "begin"
    <3>1. BeginsUpTo(calls', n + 1) = BeginsUpTo(calls, n) \cup {n + 1}
      BY <1>1, <2>1 DEF BeginsUpTo
    <3>2. BeginsUpTo(calls, n) \in SUBSET (1..n)
      BY DEF BeginsUpTo
    <3>3. LastOf(BeginsUpTo(calls', n + 1)) = n + 1
      BY <1>1, <3>1, <3>2, LastAdded
    <3>4. HitsSince(calls', n + 1, n + 1) = {}
      BY <1>1, <2>1, <3>3 DEF HitsSince
    <3>5. counting'.n = 0 /\ counting'.target = c.target
      BY <2>1 DEF CountCall
    <3> QED
      BY <1>2, <3>1, <3>4, <3>5, FS_EmptySet
  <2>2. CASE c.look \in {"hit", "miss"}
    <3>1. counting' # NotCounting => counting # NotCounting
      BY <2>2 DEF CountCall
    <3>2. counting'.target = counting.target
          /\ counting'.n = IF c.look = "hit" THEN counting.n + 1 ELSE counting.n
      BY <1>3, <2>2 DEF CountCall
    <3> QED
      BY <1>5, <1>6, <2>2, <3>1, <3>2
  <2>3. CASE c.look \in {"abort", "next"}
    BY <2>3 DEF CountCall
  <2> QED
    BY <1>2, <2>1, <2>2, <2>3 DEF Looks
<1>8. ASSUME NEW i \in 1..(n + 1)
      PROVE  NextEarned(i)' /\ (calls'[i].look = "next" => BeginsUpTo(calls', i - 1) # {})
  <2>1. NextEarned(i)' <=>
           (calls'[i].look = "next" =>
              calls'[i].target = Cardinality(HitsSince(calls', i - 1, i)))
    BY DEF NextEarned, HitsSince, BeginsUpTo, Earlier
  <2>2. SUFFICES ASSUME calls'[i].look = "next"
                 PROVE  /\ calls'[i].target = Cardinality(HitsSince(calls', i - 1, i))
                        /\ BeginsUpTo(calls', i - 1) # {}
    BY <2>1
  <2>3. CASE i \in 1..n
    <3>1. /\ calls'[i] = calls[i] /\ calls[i].look = "next" /\ i \in Nat
          /\ i - 1 \in 0..n /\ i \in 0..n
      BY <1>1, <2>2, <2>3
    <3>2. NextEarned(i) /\ BeginsUpTo(calls, i - 1) # {}
      BY <2>3, <3>1 DEF CountingInv, n
    <3>3. HitsSince(calls', i - 1, i) = HitsSince(calls, i - 1, i)
      <4> DEFINE m == i - 1
      <4>1. m \in 0..n /\ i \in 0..n /\ BeginsUpTo(calls, m) # {}
        BY <3>1, <3>2
      <4>2. n \in Nat /\ \A j \in 1..n : calls'[j] = calls[j]
        BY <1>1
      <4> HIDE DEF m
      <4>3. HitsSince(calls', m, i) = HitsSince(calls, m, i)
        BY <4>1, <4>2, HitsBefore
      <4> QED
        BY <4>3 DEF m
    <3>4. BeginsUpTo(calls', i - 1) = BeginsUpTo(calls, i - 1)
      BY <1>1, <3>1 DEF BeginsUpTo
    <3> QED
      BY <3>1, <3>2, <3>3, <3>4, NextHeld
  <2>4. CASE i = n + 1
    <3>1. c.look = "next" /\ i - 1 = n /\ calls'[i] = c
      BY <1>1, <2>2, <2>4
    <3>2. counting # NotCounting /\ counting.n = c.target
      BY <3>1 DEF CountCall
    <3>3. BeginsUpTo(calls', n) = BeginsUpTo(calls, n)
      BY <1>1 DEF BeginsUpTo
    <3> QED
      BY <1>5, <1>6, <2>4, <3>1, <3>2, <3>3
  <2> QED
    BY <1>1, <2>3, <2>4
<1> QED
  BY <1>1, <1>4, <1>7, <1>8 DEF CountingInv, n
-----------------------------------------------------------------------------
(* OCRResultCounterRecognition                                              *)

\* What it has counted is what it read in the calls for one node since the last that
\* broke off: a miss, a match, or a call for another node.
OcrMisses == [node : {NoNode}]
OcrHits == [node : Nodes, texts : Frames, target : Targets, matched : BOOLEAN]
OcrCalls == OcrMisses \cup OcrHits
Breaks(l, node, n) == {j \in 1..n : l[j].node # node \/ l[j].matched}
Read(l, node, m, n, t) ==
  {p \in ((LastOf(Breaks(l, node, m)) + 1)..n) \X (1..3) :
     p[2] \in DOMAIN l[p[1]].texts /\ l[p[1]].texts[p[2]] = t}

OcrInv ==
  /\ calls \in Seq(OcrCalls)
  /\ ocr \in [lastNode : Nodes \cup {NoNode}, counts : [Texts -> Nat]]
  /\ \A node \in Nodes, t \in Texts :
       CountsFor(node)[t] = Cardinality(Read(calls, node, Len(calls), Len(calls), t))
  /\ \A i \in 1..Len(calls) : OcrEarned(i)

\* A match is held against what was read since the last break.
LEMMA OcrHeld ==
  ASSUME NEW i \in Nat
  PROVE  OcrEarned(i) <=>
           (calls[i].node # NoNode =>
              (calls[i].matched <=>
                 \E k \in DOMAIN calls[i].texts :
                   Cardinality(Read(calls, calls[i].node, i - 1, i, calls[i].texts[k]))
                     > calls[i].target))
BY DEF OcrEarned, Read, Breaks, Earlier

\* What was read before does not depend on later calls.
LEMMA ReadBefore ==
  ASSUME NEW n \in Nat, NEW m \in 0..n, NEW i \in 0..n, NEW l, NEW k,
         \A j \in 1..n : k[j] = l[j], NEW node, NEW t
  PROVE  Read(k, node, m, i, t) = Read(l, node, m, i, t)
<1>1. Breaks(k, node, m) = Breaks(l, node, m)
  BY DEF Breaks
<1>2. Breaks(l, node, m) \in SUBSET (1..m) /\ m \in Nat
  BY DEF Breaks
<1>3. LastOf(Breaks(l, node, m)) \in 0..m
  BY <1>2, LastIsLast
<1>4. ASSUME NEW p \in ((LastOf(Breaks(l, node, m)) + 1)..i) \X (1..3) PROVE k[p[1]] = l[p[1]]
  <2>1. p[1] \in (LastOf(Breaks(l, node, m)) + 1)..i
    OBVIOUS
  <2>2. p[1] \in 1..n
    BY <1>3, <2>1
  <2> QED
    BY <2>2
<1> QED
  BY <1>1, <1>4 DEF Read

\* The texts of an image, of which there are at most three.
LEMMA TextsOf ==
  ASSUME NEW texts \in Frames
  PROVE  /\ texts \in Seq(Texts) /\ DOMAIN texts = 1..Len(texts) /\ Len(texts) \in 1..3
         /\ \A i \in 1..Len(texts) : texts[i] \in Texts
<1>1. PICK n \in 1..3 : texts \in [1..n -> Texts]
  BY CountersAssumption
<1>2. texts \in Seq(Texts) /\ Len(texts) = n
  BY <1>1
<1> QED
  BY <1>1, <1>2

\* What one more call means for what was read.
ReadsOn(l, k, n, node, t) ==
  LET c == k[n + 1]
      breaks == c.node # node \/ c.matched
  IN
  /\ breaks => Cardinality(Read(k, node, n + 1, n + 1, t)) = 0
  /\ c.texts \in Frames =>
       Cardinality(Read(k, node, n, n + 1, t)) =
         Cardinality(Read(l, node, n, n, t)) + Occurrences(t, c.texts)
  /\ ~breaks => Read(k, node, n + 1, n + 1, t) = Read(k, node, n, n + 1, t)

\* What is read in one more call of the node is its texts; another node, a miss and a match
\* break off.
LEMMA ReadOnce ==
  ASSUME NEW n \in Nat, NEW l, NEW k, \A j \in 1..n : k[j] = l[j], NEW node, NEW t
  PROVE  ReadsOn(l, k, n, node, t)
<1> DEFINE last == LastOf(Breaks(l, node, n))
           old == Read(l, node, n, n, t)
           texts == k[n + 1].texts
           new == {p \in {n + 1} \X (1..3) : p[2] \in DOMAIN texts /\ texts[p[2]] = t}
           at == {i \in DOMAIN texts : texts[i] = t}
<1>1. Breaks(l, node, n) \in SUBSET (1..n) /\ Breaks(k, node, n) = Breaks(l, node, n)
  BY DEF Breaks
<1>2. last \in 0..n
  BY <1>1, LastIsLast
<1>3. old \in SUBSET (((last + 1)..n) \X (1..3))
  BY DEF Read
<1>4. IsFiniteSet(old)
  <2>1. IsFiniteSet((last + 1)..n) /\ IsFiniteSet(1..3)
    <3>1. last + 1 \in Int /\ n \in Int /\ 1 \in Int /\ 3 \in Int
      BY <1>2
    <3> HIDE DEF last
    <3>2. IsFiniteSet((last + 1)..n)
      BY <3>1, FS_Interval
    <3>3. IsFiniteSet(1..3)
      BY <3>1, FS_Interval
    <3> QED
      BY <3>2, <3>3
  <2>2. IsFiniteSet(((last + 1)..n) \X (1..3))
    BY <2>1, FS_Product
  <2> QED
    BY <1>3, <2>2, FS_Subset
<1>5. (k[n + 1].node # node \/ k[n + 1].matched) =>
        Cardinality(Read(k, node, n + 1, n + 1, t)) = 0
  <2> SUFFICES ASSUME k[n + 1].node # node \/ k[n + 1].matched
               PROVE  Cardinality(Read(k, node, n + 1, n + 1, t)) = 0
    OBVIOUS
  <2>1. Breaks(k, node, n + 1) = Breaks(l, node, n) \cup {n + 1}
    BY DEF Breaks
  <2>2. LastOf(Breaks(k, node, n + 1)) = n + 1
    BY <1>1, <2>1, LastAdded
  <2>3. Read(k, node, n + 1, n + 1, t) = {}
    BY <2>2 DEF Read
  <2> QED
    BY <2>3, FS_EmptySet
<1>6. ~(k[n + 1].node # node \/ k[n + 1].matched) =>
        Read(k, node, n + 1, n + 1, t) = Read(k, node, n, n + 1, t)
  <2> SUFFICES ASSUME ~(k[n + 1].node # node \/ k[n + 1].matched)
               PROVE  Read(k, node, n + 1, n + 1, t) = Read(k, node, n, n + 1, t)
    OBVIOUS
  <2>1. Breaks(k, node, n + 1) = Breaks(k, node, n)
    BY DEF Breaks
  <2> QED
    BY <2>1 DEF Read
<1>7. Read(k, node, n, n + 1, t) = old \cup new
  <2>1. (last + 1)..(n + 1) = ((last + 1)..n) \cup {n + 1}
    BY <1>2
  <2>2. \A j \in (last + 1)..n : k[j] = l[j]
    BY <1>2
  <2>3. ASSUME NEW p \in ((last + 1)..n) \X (1..3) PROVE p[1] \in (last + 1)..n
    OBVIOUS
  <2>4. ((last + 1)..(n + 1)) \X (1..3)
          = (((last + 1)..n) \X (1..3)) \cup ({n + 1} \X (1..3))
    BY <2>1
  <2>5. ASSUME NEW p \in {n + 1} \X (1..3) PROVE p[1] = n + 1
    OBVIOUS
  <2>6. Read(k, node, n, n + 1, t) =
          {p \in ((last + 1)..(n + 1)) \X (1..3) :
             p[2] \in DOMAIN k[p[1]].texts /\ k[p[1]].texts[p[2]] = t}
    BY <1>1 DEF Read
  <2>7. old = {p \in ((last + 1)..n) \X (1..3) :
             p[2] \in DOMAIN k[p[1]].texts /\ k[p[1]].texts[p[2]] = t}
    BY <2>2, <2>3 DEF Read
  <2>8. new = {p \in {n + 1} \X (1..3) :
             p[2] \in DOMAIN k[p[1]].texts /\ k[p[1]].texts[p[2]] = t}
    BY <2>5
  <2> HIDE DEF old, new, last
  <2> QED
    BY <2>4, <2>6, <2>7, <2>8
<1>8. ASSUME texts \in Frames
      PROVE  Cardinality(Read(k, node, n, n + 1, t)) = Cardinality(old) + Occurrences(t, texts)
  <2>1. DOMAIN texts \in SUBSET (1..3)
    BY <1>8, TextsOf
  <2>2. IsFiniteSet(at)
    <3>1. at \in SUBSET (1..3)
      BY <2>1
    <3>2. IsFiniteSet(1..3)
      <4>1. 1 \in Int /\ 3 \in Int
        OBVIOUS
      <4> QED
        BY <4>1, FS_Interval
    <3> QED
      BY <3>1, <3>2, FS_Subset
  <2>3. ExistsBijection(at, new)
    <3> DEFINE f == [i \in at |-> <<n + 1, i>>]
    <3>1. f \in [at -> new]
      BY <2>1
    <3>2. \A i, j \in at : i # j => f[i] # f[j]
      OBVIOUS
    <3>3. \A p \in new : \E i \in at : f[i] = p
      OBVIOUS
    <3>4. f \in Bijection(at, new)
      BY <3>1, <3>2, <3>3 DEF Bijection, Injection, Surjection, IsInjective
    <3> QED
      BY <3>4 DEF ExistsBijection
  <2>4. IsFiniteSet(new) /\ Cardinality(new) = Cardinality(at)
    BY <2>2, <2>3, FS_Bijection
  <2>5. old \cap new = {}
    <3> SUFFICES ASSUME NEW p \in old, p \in new PROVE FALSE
      OBVIOUS
    <3>1. p[1] \in (last + 1)..n /\ p[1] = n + 1
      BY <1>3
    <3> QED
      BY <1>2, <3>1
  <2>6. Cardinality(old \cup new) = Cardinality(old) + Cardinality(new)
    <3> HIDE DEF old, new
    <3>1. Cardinality(old \cup new) =
            Cardinality(old) + Cardinality(new) - Cardinality(old \cap new)
      BY <1>4, <2>4, FS_Union
    <3>2. Cardinality(old) \in Nat /\ Cardinality(new) \in Nat /\ Cardinality({}) = 0
      BY <1>4, <2>4, FS_CardinalityType, FS_EmptySet
    <3> QED
      BY <2>5, <3>1, <3>2
  <2>7. Occurrences(t, texts) = Cardinality(at)
    BY DEF Occurrences
  <2> HIDE DEF old, new, at, texts
  <2> QED
    BY <1>7, <2>4, <2>6, <2>7
<1> QED
  BY <1>5, <1>6, <1>8 DEF ReadsOn

\* A text is over the target at one of its places if it is at its last.
LEMMA OverAtLast ==
  ASSUME NEW texts \in Frames, NEW before \in [Texts -> Nat], NEW target \in Nat
  PROVE  (\E i \in DOMAIN texts :
            before[texts[i]] + Occurrences(texts[i], Prefix(texts, i)) > target)
         <=> \E k \in DOMAIN texts : before[texts[k]] + Occurrences(texts[k], texts) > target
<1> DEFINE at(t, i) == {j \in 1..i : texts[j] = t}
           m == Len(texts)
<1>1. texts \in Seq(Texts) /\ DOMAIN texts = 1..m /\ m \in 1..3
      /\ \A i \in 1..m : texts[i] \in Texts /\ before[texts[i]] \in Nat
  BY TextsOf
<1>2. ASSUME NEW i \in 1..m, NEW t PROVE Occurrences(t, Prefix(texts, i)) = Cardinality(at(t, i))
  <2>1. DOMAIN SubSeq(texts, 1, i) = 1..i /\ \A j \in 1..i : SubSeq(texts, 1, i)[j] = texts[j]
    BY <1>1
  <2>2. {j \in DOMAIN SubSeq(texts, 1, i) : SubSeq(texts, 1, i)[j] = t} = at(t, i)
    BY <2>1
  <2> QED
    BY <2>2 DEF Occurrences, Prefix
<1>3. ASSUME NEW t PROVE Occurrences(t, texts) = Cardinality(at(t, m))
  BY <1>1 DEF Occurrences
<1>4. ASSUME NEW i \in 1..m, NEW t
      PROVE  /\ IsFiniteSet(at(t, i)) /\ Cardinality(at(t, i)) \in Nat
             /\ Cardinality(at(t, i)) <= Cardinality(at(t, m)) /\ Cardinality(at(t, m)) \in Nat
  <2>1. m \in Int
    BY <1>1
  <2>2. IsFiniteSet(1..m)
    BY <2>1, FS_Interval
  <2>3. at(t, m) \in SUBSET (1..m)
    OBVIOUS
  <2>4. IsFiniteSet(at(t, m))
    BY <2>2, <2>3, FS_Subset
  <2>5. at(t, i) \in SUBSET at(t, m)
    BY <1>1
  <2>6. IsFiniteSet(at(t, i)) /\ Cardinality(at(t, i)) <= Cardinality(at(t, m))
    BY <2>4, <2>5, FS_Subset
  <2> QED
    BY <2>4, <2>6, FS_CardinalityType
<1>5. ASSUME NEW i \in 1..m, before[texts[i]] + Occurrences(texts[i], Prefix(texts, i)) > target
      PROVE  before[texts[i]] + Occurrences(texts[i], texts) > target
  <2> DEFINE a == Cardinality(at(texts[i], i))
             b == Cardinality(at(texts[i], m))
             c == before[texts[i]]
  <2>1. a \in Nat /\ b \in Nat /\ a <= b /\ c \in Nat
    BY <1>1, <1>4
  <2>2. c + a > target
    BY <1>2, <1>5
  <2>3. Occurrences(texts[i], texts) = b
    BY <1>3
  <2> HIDE DEF a, b
  <2> QED
    BY <2>1, <2>2, <2>3
<1>6. ASSUME NEW k \in 1..m, before[texts[k]] + Occurrences(texts[k], texts) > target
      PROVE  \E i \in 1..m : before[texts[i]] + Occurrences(texts[i], Prefix(texts, i)) > target
  <2> DEFINE t == texts[k]
  <2>1. PICK i \in 1..m : texts[i] = t /\ \A j \in 1..m : j > i => texts[j] # t
    <3>1. m \in {1, 2, 3}
      BY <1>1
    <3> HIDE DEF m
    <3> QED
      BY <3>1
  <2>2. at(t, i) = at(t, m)
    BY <1>1, <2>1
  <2>3. Occurrences(t, Prefix(texts, i)) = Occurrences(t, texts)
    BY <1>2, <1>3, <2>2
  <2> QED
    BY <1>6, <2>1, <2>3
<1> HIDE DEF m
<1> QED
  BY <1>1, <1>5, <1>6

\* What a call of the recognition does to its counts: a miss or a match drops them.
OcrCall(c) ==
  /\ calls' = Append(calls, c)
  /\ \/ /\ c \in OcrMisses
        /\ ocr' = [lastNode |-> NoNode, counts |-> NoCounts]
     \/ LET before == CountsFor(c.node) IN
        /\ c \in OcrHits
        /\ c.matched <=> \E k \in DOMAIN c.texts :
             before[c.texts[k]] + Occurrences(c.texts[k], c.texts) > c.target
        /\ ocr' = IF c.matched THEN [lastNode |-> NoNode, counts |-> NoCounts]
                  ELSE [lastNode |-> c.node,
                        counts |-> [t \in Texts |-> before[t] + Occurrences(t, c.texts)]]

\* Counts are numbers.
LEMMA CountsTyped ==
  ASSUME OcrInv, NEW node
  PROVE  CountsFor(node) \in [Texts -> Nat] /\ NoCounts \in [Texts -> Nat]
BY DEF OcrInv, CountsFor, NoCounts

\* A call of the recognition is one of these.
LEMMA OcrCalled == ASSUME OcrInv, OcrNext PROVE \E c \in OcrCalls : OcrCall(c)
<1>1. CASE OcrMiss
  <2> DEFINE c == [node |-> NoNode]
  <2>1. c \in OcrCalls /\ c \in OcrMisses
    BY DEF OcrCalls, OcrMisses
  <2>2. OcrCall(c)
    BY <1>1, <2>1 DEF OcrMiss, Logged, OcrCall
  <2> QED
    BY <2>1, <2>2
<1>2. ASSUME NEW node \in Nodes, NEW texts \in Frames, NEW target \in Targets,
             OcrHit(node, texts, target)
      PROVE  \E c \in OcrCalls : OcrCall(c)
  <2> DEFINE before == CountsFor(node)
             over == {i \in DOMAIN texts :
                        before[texts[i]] + Occurrences(texts[i], Prefix(texts, i)) > target}
             matched == over # {}
             c == [node |-> node, texts |-> texts, target |-> target, matched |-> matched]
  <2>1. c \in OcrCalls /\ c \in OcrHits
    BY DEF OcrCalls, OcrHits
  <2>2. before \in [Texts -> Nat] /\ target \in Nat
    BY CountsTyped, CountersAssumption
  <2>3. matched <=> \E k \in DOMAIN texts :
                      before[texts[k]] + Occurrences(texts[k], texts) > target
    <3>1. matched <=> \E i \in DOMAIN texts :
            before[texts[i]] + Occurrences(texts[i], Prefix(texts, i)) > target
      OBVIOUS
    <3> HIDE DEF before, matched
    <3> QED
      BY <2>2, <3>1, OverAtLast
  <2>4. calls' = Append(calls, c)
    BY <1>2 DEF OcrHit, Logged
  <2>5. ocr' = IF matched THEN [lastNode |-> NoNode, counts |-> NoCounts]
               ELSE [lastNode |-> node,
                     counts |-> [t \in Texts |-> before[t] + Occurrences(t, texts)]]
    BY <1>2 DEF OcrHit
  <2>6. c.node = node /\ c.texts = texts /\ c.target = target /\ (c.matched <=> matched)
    OBVIOUS
  <2> HIDE DEF before, over, matched, c
  <2>7. OcrCall(c)
    BY <2>1, <2>3, <2>4, <2>5, <2>6 DEF OcrCall, before
  <2> QED
    BY <2>1, <2>7
<1> QED
  BY <1>1, <1>2 DEF OcrNext

\* A call keeps the counts what was read since the last break.
LEMMA OcrKept == ASSUME OcrInv, NEW c \in OcrCalls, OcrCall(c) PROVE OcrInv'
<1> DEFINE n == Len(calls)
<1>1. /\ calls' \in Seq(OcrCalls) /\ Len(calls') = n + 1 /\ n \in Nat /\ calls'[n + 1] = c
      /\ \A i \in 1..n : calls'[i] = calls[i]
  BY Appended DEF OcrInv, OcrCall
<1>2. \A node : CountsFor(node) \in [Texts -> Nat] /\ NoCounts \in [Texts -> Nat]
  BY CountsTyped
<1>3. \A t \in Texts : NoCounts[t] = 0
  BY DEF NoCounts
<1>4. NoNode \notin Nodes
  BY CountersAssumption
<1>5. ASSUME NEW node \in Nodes, NEW t \in Texts
      PROVE  CountsFor(node)[t] = Cardinality(Read(calls, node, n, n, t))
  BY DEF OcrInv
<1>6. ASSUME c \in OcrHits, NEW t PROVE Occurrences(t, c.texts) \in Nat
  <2>1. c.texts \in Frames
    BY <1>6 DEF OcrHits
  <2>2. DOMAIN c.texts = 1..Len(c.texts) /\ Len(c.texts) \in 1..3
    BY <2>1, TextsOf
  <2>3. 1 \in Int /\ Len(c.texts) \in Int
    BY <2>2
  <2>4. IsFiniteSet(DOMAIN c.texts)
    BY <2>2, <2>3, FS_Interval
  <2>5. {i \in DOMAIN c.texts : c.texts[i] = t} \in SUBSET DOMAIN c.texts
    OBVIOUS
  <2>6. IsFiniteSet({i \in DOMAIN c.texts : c.texts[i] = t})
    BY <2>4, <2>5, FS_Subset
  <2> QED
    BY <2>6, FS_CardinalityType DEF Occurrences
<1> HIDE DEF n
<1>7. ASSUME NEW node, NEW t
      PROVE  /\ (c.node # node \/ c.matched)
                  => Cardinality(Read(calls', node, n + 1, n + 1, t)) = 0
             /\ c.texts \in Frames =>
                  Cardinality(Read(calls', node, n, n + 1, t)) =
                    Cardinality(Read(calls, node, n, n, t)) + Occurrences(t, c.texts)
             /\ ~(c.node # node \/ c.matched) =>
                  Read(calls', node, n + 1, n + 1, t) = Read(calls', node, n, n + 1, t)
  <2>1. n \in Nat /\ \A j \in 1..n : calls'[j] = calls[j]
    BY <1>1
  <2>2. ReadsOn(calls, calls', n, node, t)
    BY <2>1, ReadOnce
  <2> QED
    BY <1>1, <2>2 DEF ReadsOn
<1>8. ocr' \in [lastNode : Nodes \cup {NoNode}, counts : [Texts -> Nat]]
  <2>1. CASE c \in OcrMisses
    BY <1>2, <1>4, <2>1 DEF OcrCall, OcrMisses, OcrHits
  <2>2. CASE c \in OcrHits
    <3>1. c.node \in Nodes
      BY <2>2 DEF OcrHits
    <3>2. [t \in Texts |-> CountsFor(c.node)[t] + Occurrences(t, c.texts)] \in [Texts -> Nat]
      BY <1>2, <1>6, <2>2
    <3> QED
      BY <1>2, <3>1, <3>2 DEF OcrCall
  <2> QED
    BY <2>1, <2>2 DEF OcrCalls
<1>9. ASSUME NEW node \in Nodes, NEW t \in Texts
      PROVE  CountsFor(node)'[t] = Cardinality(Read(calls', node, n + 1, n + 1, t))
  <2>1. CountsFor(node)' = IF ocr'.lastNode = node THEN ocr'.counts ELSE NoCounts
    BY DEF CountsFor, NoCounts
  <2>2. CASE c \in OcrMisses
    <3>1. c.node # node /\ ocr' = [lastNode |-> NoNode, counts |-> NoCounts]
      BY <1>4, <2>2 DEF OcrCall, OcrMisses, OcrHits
    <3> QED
      BY <1>3, <1>7, <2>1, <3>1
  <2>3. CASE c \in OcrHits /\ (c.node # node \/ c.matched)
    <3>1. \/ ocr'.counts = NoCounts
          \/ ocr'.lastNode = c.node /\ c.node # node
      BY <1>4, <2>3 DEF OcrCall
    <3> QED
      BY <1>3, <1>7, <2>1, <2>3, <3>1
  <2>4. CASE c \in OcrHits /\ c.node = node /\ ~c.matched
    <3>1. ocr' = [lastNode |-> node,
                  counts |-> [u \in Texts |-> CountsFor(node)[u] + Occurrences(u, c.texts)]]
      BY <1>4, <2>4 DEF OcrCall, OcrMisses
    <3>2. CountsFor(node)'[t] = CountsFor(node)[t] + Occurrences(t, c.texts)
      BY <2>1, <3>1
    <3>3. c.texts \in Frames
      BY <2>4 DEF OcrHits
    <3> QED
      BY <1>5, <1>7, <2>4, <3>2, <3>3
  <2> QED
    BY <2>2, <2>3, <2>4 DEF OcrCalls
<1>10. ASSUME NEW i \in 1..(n + 1) PROVE OcrEarned(i)'
  <2>1. OcrEarned(i)' <=>
           (calls'[i].node # NoNode =>
              (calls'[i].matched <=>
                 \E k \in DOMAIN calls'[i].texts :
                   Cardinality(Read(calls', calls'[i].node, i - 1, i, calls'[i].texts[k]))
                     > calls'[i].target))
    BY DEF OcrEarned, Read, Breaks, Earlier
  <2>2. CASE i \in 1..n
    <3>1. calls'[i] = calls[i] /\ OcrEarned(i) /\ i \in Nat
      BY <1>1, <2>2 DEF OcrInv, n
    <3>2. ASSUME NEW node, NEW t
          PROVE  Read(calls', node, i - 1, i, t) = Read(calls, node, i - 1, i, t)
      <4> DEFINE m == i - 1
      <4>1. m \in 0..n /\ i \in 0..n
        BY <1>1, <2>2
      <4>2. n \in Nat /\ \A j \in 1..n : calls'[j] = calls[j]
        BY <1>1
      <4> HIDE DEF m
      <4>3. Read(calls', node, m, i, t) = Read(calls, node, m, i, t)
        BY <4>1, <4>2, ReadBefore
      <4> QED
        BY <4>3 DEF m
    <3> QED
      BY <2>1, <3>1, <3>2, OcrHeld
  <2>3. CASE i = n + 1
    <3>1. calls'[i] = c /\ i - 1 = n
      BY <1>1, <2>3
    <3>2. CASE c \in OcrMisses
      BY <2>1, <3>1, <3>2 DEF OcrMisses
    <3>3. CASE c \in OcrHits
      <4>1. c.node \in Nodes /\ c.texts \in Frames /\ c.node # NoNode
        BY <1>4, <3>3 DEF OcrHits
      <4>2. c.matched <=> \E k \in DOMAIN c.texts :
              CountsFor(c.node)[c.texts[k]] + Occurrences(c.texts[k], c.texts) > c.target
        BY <1>4, <3>3 DEF OcrCall, OcrMisses, OcrHits
      <4>3. \A k \in DOMAIN c.texts : c.texts[k] \in Texts
        BY <4>1, TextsOf
      <4>4. ASSUME NEW t \in Texts
            PROVE  Cardinality(Read(calls', c.node, n, n + 1, t))
                     = CountsFor(c.node)[t] + Occurrences(t, c.texts)
        BY <1>5, <1>7, <4>1
      <4>5. c.matched <=> \E k \in DOMAIN c.texts :
              Cardinality(Read(calls', c.node, n, n + 1, c.texts[k])) > c.target
        BY <4>2, <4>3, <4>4
      <4> QED
        BY <2>1, <2>3, <3>1, <4>5
    <3> QED
      BY <3>2, <3>3 DEF OcrCalls
  <2> QED
    BY <1>1, <2>2, <2>3
<1> QED
  BY <1>1, <1>8, <1>9, <1>10 DEF OcrInv, n
-----------------------------------------------------------------------------
(* The counters of the process                                              *)

\* The log has the calls of one feature.
CounterFeatures == {"ocr", "taskRecognition", "taskAction", "coBattle", "count"}

LogInv ==
  /\ feature \notin CounterFeatures => CountersInit
  /\ feature = "ocr" => OcrInv
  /\ feature = "taskRecognition" => TaskInv("recognition")
  /\ feature = "taskAction" => TaskInv("action")
  /\ feature = "coBattle" => TargetInv
  /\ feature = "count" => CountingInv

\* Before the first call, every counter is in order.
LEMMA CountersStart ==
  CountersInit => OcrInv /\ (\A c \in Counters : TaskInv(c)) /\ TargetInv /\ CountingInv
<1> SUFFICES ASSUME CountersInit
             PROVE  OcrInv /\ (\A c \in Counters : TaskInv(c)) /\ TargetInv /\ CountingInv
  OBVIOUS
<1>1. calls = <<>> /\ Len(calls) = 0 /\ 1..0 = {} /\ \A S : <<>> \in Seq(S)
  BY DEF CountersInit
<1>2. OcrInv
  <2>1. ASSUME NEW node \in Nodes, NEW t \in Texts
        PROVE  CountsFor(node)[t] = Cardinality(Read(calls, node, 0, 0, t))
    <3>1. CountsFor(node)[t] = 0
      BY DEF CountersInit, CountsFor, NoCounts
    <3>2. Breaks(calls, node, 0) = {}
      BY DEF Breaks
    <3>3. Read(calls, node, 0, 0, t) = {}
      BY <3>2 DEF Read, LastOf
    <3> QED
      BY <3>1, <3>3, FS_EmptySet
  <2>2. ocr \in [lastNode : Nodes \cup {NoNode}, counts : [Texts -> Nat]]
    BY DEF CountersInit, NoCounts
  <2> QED
    BY <1>1, <2>1, <2>2 DEF OcrInv
<1>3. ASSUME NEW c \in Counters PROVE TaskInv(c)
  <2>1. ASSUME NEW id \in TaskIds
        PROVE  taskCounts[c][id] = Cardinality(AskedSince(calls, c, id, 0))
    <3>1. taskCounts[c][id] = 0
      BY DEF CountersInit
    <3>2. Refusals(calls, c, id, 0) = {}
      BY DEF Refusals
    <3>3. AskedSince(calls, c, id, 0) = {}
      BY <3>2 DEF AskedSince, LastOf
    <3> QED
      BY <3>1, <3>3, FS_EmptySet
  <2>2. taskCounts \in [Counters -> [TaskIds -> Nat]]
    BY DEF CountersInit
  <2> QED
    BY <1>1, <2>1, <2>2 DEF TaskInv
<1>4. TargetInv
  BY <1>1 DEF CountersInit, TargetInv
<1>5. CountingInv
  <2>1. counting = NotCounting /\ counting \in [n : Nat, target : Targets \cup {0}]
    BY DEF CountersInit, NotCounting
  <2> QED
    BY <1>1, <2>1 DEF CountingInv
<1> QED
  BY <1>2, <1>3, <1>4, <1>5

\* The log of one feature's calls says that all of them are earned.
LEMMA AllEarned == LogInv => MatchesAreEarned
<1> SUFFICES ASSUME LogInv, NEW i \in DOMAIN calls
             PROVE  LET fields == DOMAIN calls[i] IN
                    /\ "node" \in fields => OcrEarned(i)
                    /\ "counter" \in fields => CountEarned(i)
                    /\ "add" \in fields => TargetEarned(i)
                    /\ "look" \in fields => NextEarned(i)
  BY DEF MatchesAreEarned
<1>1. CASE feature = "ocr"
  <2>1. OcrInv
    BY <1>1 DEF LogInv
  <2>2. calls[i] \in OcrCalls /\ OcrEarned(i)
    BY <2>1 DEF OcrInv
  <2>3. DOMAIN calls[i] \in {{"node"}, {"node", "texts", "target", "matched"}}
    BY <2>2 DEF OcrCalls, OcrMisses, OcrHits
  <2> QED
    BY <2>2, <2>3
<1>2. CASE feature \in {"taskRecognition", "taskAction"}
  <2>1. PICK c \in Counters : TaskInv(c)
    BY <1>2 DEF LogInv, Counters
  <2>2. calls[i] \in TaskCalls(c) /\ CountEarned(i)
    BY <2>1 DEF TaskInv
  <2>3. DOMAIN calls[i] = {"counter", "id", "target", "answer"}
    BY <2>2 DEF TaskCalls
  <2> QED
    BY <2>2, <2>3
<1>3. CASE feature = "coBattle"
  <2>1. TargetInv
    BY <1>3 DEF LogInv
  <2>2. calls[i] \in TargetCalls /\ TargetEarned(i)
    BY <2>1 DEF TargetInv
  <2>3. DOMAIN calls[i] = {"add", "name", "answer"}
    BY <2>2 DEF TargetCalls
  <2> QED
    BY <2>2, <2>3
<1>4. CASE feature = "count"
  <2>1. CountingInv
    BY <1>4 DEF LogInv
  <2>2. calls[i] \in CountCalls /\ NextEarned(i)
    BY <2>1 DEF CountingInv
  <2>3. DOMAIN calls[i] = {"look", "target"}
    BY <2>2 DEF CountCalls
  <2> QED
    BY <2>2, <2>3
<1>5. CASE feature \notin CounterFeatures
  BY <1>5 DEF LogInv, CountersInit
<1> QED
  BY <1>1, <1>2, <1>3, <1>4, <1>5 DEF CounterFeatures

\* A step of a counter keeps its invariant.
LEMMA CountersKept == LogInv /\ [Next]_vars => LogInv'
<1> SUFFICES ASSUME LogInv, [Next]_vars PROVE LogInv'
  OBVIOUS
<1>1. CASE UNCHANGED counterVars /\ (feature' = feature \/ feature = Unused)
  <2>1. feature' = feature \/ CountersInit
    BY <1>1 DEF LogInv, CounterFeatures, Unused
  <2>2. CountersInit => CountersInit'
    BY <1>1 DEF counterVars, CountersInit, NoCounts
  <2>3. OcrInv => OcrInv'
    <3>1. ocr' = ocr /\ calls' = calls
      BY <1>1 DEF counterVars
    <3>2. \A node : CountsFor(node)' = CountsFor(node)
      BY <3>1 DEF CountsFor, NoCounts
    <3>3. \A i : OcrEarned(i)' <=> OcrEarned(i)
      BY <3>1 DEF OcrEarned
    <3> QED
      BY <3>1, <3>2, <3>3 DEF OcrInv
  <2>4. ASSUME NEW c PROVE TaskInv(c) => TaskInv(c)'
    BY <1>1 DEF counterVars, TaskInv, CountEarned
  <2>5. TargetInv => TargetInv'
    BY <1>1 DEF counterVars, TargetInv, TargetEarned
  <2>6. CountingInv => CountingInv'
    BY <1>1, CountingStill DEF counterVars
  <2>7. CASE feature' = feature
    BY <2>2, <2>3, <2>4, <2>5, <2>6, <2>7 DEF LogInv
  <2>8. CASE CountersInit
    BY <2>2, <2>3, <2>4, <2>5, <2>6, <2>8, CountersStart DEF LogInv, Counters
  <2> QED
    BY <2>1, <2>7, <2>8
<1>2. CASE feature' = feature /\ feature = "ocr" /\ OcrNext
  <2>1. OcrInv'
    BY <1>2, OcrCalled, OcrKept DEF LogInv
  <2> QED
    BY <1>2, <2>1 DEF LogInv, CounterFeatures
<1>3. CASE feature' = feature /\ feature = "taskRecognition" /\ TaskRecognitionNext
  <2>1. TaskInv("recognition") /\ "recognition" \in Counters
    BY <1>3 DEF LogInv, Counters
  <2>2. PICK c \in TaskCalls("recognition") : TaskCall("recognition", c)
    <3>1. taskCounts \in [Counters -> [TaskIds -> Nat]]
      BY <2>1 DEF TaskInv
    <3>2. /\ "recognition" = "recognition" => TaskRecognitionNext
          /\ "recognition" = "action" => TaskActionNext
      BY <1>3
    <3> QED
      BY <2>1, <3>1, <3>2, TaskAsked
  <2>3. TaskInv("recognition")'
    BY <2>1, <2>2, TaskKept
  <2> QED
    BY <1>3, <2>3 DEF LogInv, CounterFeatures
<1>4. CASE feature' = feature /\ feature = "taskAction" /\ TaskActionNext
  <2>1. TaskInv("action") /\ "action" \in Counters
    BY <1>4 DEF LogInv, Counters
  <2>2. PICK c \in TaskCalls("action") : TaskCall("action", c)
    <3>1. taskCounts \in [Counters -> [TaskIds -> Nat]]
      BY <2>1 DEF TaskInv
    <3>2. /\ "action" = "recognition" => TaskRecognitionNext
          /\ "action" = "action" => TaskActionNext
      BY <1>4
    <3> QED
      BY <2>1, <3>1, <3>2, TaskAsked
  <2>3. TaskInv("action")'
    BY <2>1, <2>2, TaskKept
  <2> QED
    BY <1>4, <2>3 DEF LogInv, CounterFeatures
<1>5. CASE feature' = feature /\ feature = "coBattle" /\ CoBattleNext
  <2>1. TargetInv'
    BY <1>5, TargetKept DEF LogInv
  <2> QED
    BY <1>5, <2>1 DEF LogInv, CounterFeatures
<1>6. CASE feature' = feature /\ feature = "count" /\ CountNext
  <2>1. CountingInv
    BY <1>6 DEF LogInv
  <2>2. ASSUME calls' = calls, counting' = counting PROVE CountingInv'
    BY <2>1, <2>2, CountingStill
  <2>3. ASSUME NEW c \in CountCalls, CountCall(c) PROVE CountingInv'
    BY <2>1, <2>3, CountingKept
  <2>4. CountingInv'
    BY <1>6, <2>1, <2>2, <2>3, CountCalled
  <2> QED
    BY <1>6, <2>4 DEF LogInv, CounterFeatures
<1> QED
  BY <1>1, <1>2, <1>3, <1>4, <1>5, <1>6, CounterSteps

\* Every answer of a counter is earned by the calls made before it, for any nodes, texts,
\* tasks, targets and numbers of calls.
THEOREM AnswersEarned == Spec => []MatchesAreEarned
<1>1. Init => LogInv
  BY DEF Init, LogInv, CounterFeatures, Unused
<1> QED
  BY <1>1, CountersKept, AllEarned, PTL DEF Spec
===============================================================================
