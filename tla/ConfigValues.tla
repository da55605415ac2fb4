----------------------------- MODULE ConfigValues -----------------------------
(***************************************************************************)
(* The recognitions that write and check named values in the agent's store *)
(* file.  A lock keeps the recognitions of one agent apart; agents share   *)
(* the file.  A value is a text; what matters is the number it is, if any. *)
(***************************************************************************)
EXTENDS Integers, AgentFiles

CONSTANTS Keys,
  Text,        \* a text that is no number
  Blank,       \* the empty text, and the value of a key that is not there
  Unsupported, \* a parameter that is no text, number or boolean
  Add, Sub,    \* the words for adding and subtracting one
  MaxNumber    \* bound of an instance: the numbers in use

ASSUME ConfigAssumption == MaxNumber \in Nat /\ {Text, Blank} \cap Int = {} /\ Text # Blank

VARIABLES
  storeFile,   \* recognition_state.json
  writer,      \* per agent: the write in progress, under the agent's lock
  promised,    \* what the writes that answered "hit" add up to
  damaged      \* a write was cut short or overlapped another agent's

configVars == <<storeFile, writer, promised, damaged>>

Numbers == (-MaxNumber)..MaxNumber
Values == Numbers \cup {Text, Blank}
Params == Values \cup {Add, Sub, Unsupported}
NoValues == [k \in Keys |-> Blank]
IdleWriter == [pc |-> "idle", data |-> NoValues, key |-> Blank, value |-> Blank]

IsNumber(v) == v \in Int

ConfigInit ==
  /\ storeFile = [is |-> "empty", data |-> NoValues]
  /\ writer = [a \in Agents |-> IdleWriter]
  /\ promised = NoValues /\ damaged = FALSE

\* loadStore fails on half a text, and takes a missing or empty file for no values.
Loads == storeFile.is # "partial"
Store == IF storeFile.is = "whole" THEN storeFile.data ELSE NoValues

\* parseSpecialWriteValue: the number -1 reads like the word for subtracting.
IsSpecial(v) == v \in {Add, Sub, -1}
Step(v) == IF v = Add THEN 1 ELSE -1

\* resolveWriteValue
ResolveWriteValue(current, v) ==
  IF IsSpecial(v) THEN (IF IsNumber(current) THEN current ELSE 0) + Step(v) ELSE v

\* compareNumbers
CompareNumbers(current, target, comparison) ==
  CASE comparison = "<" -> current < target
    [] comparison = ">" -> current > target
    [] comparison = "==" -> current = target
    [] comparison = "<=" -> current <= target
    [] comparison = ">=" -> current >= target
    [] comparison = "!=" -> current # target
    [] OTHER -> FALSE

\* ConfigValueCheckRecognition.Run, which changes nothing
ConfigValueCheck(k, target, comparison) ==
  LET current == IF Store[k] = Blank THEN 0 ELSE Store[k] IN
  /\ Loads /\ IsNumber(current) /\ IsNumber(target)
  /\ CompareNumbers(current, target, comparison)

Overlapping(a) == \E b \in Agents \ {a} : writer[b].pc # "idle"

\* A bug: a file that cannot be read is taken for one with no values.
BugWriteBegin(a, k, v) ==
  /\ writer[a].pc = "idle" /\ v # Unsupported
  /\ ResolveWriteValue(Store[k], v) \in Values
  /\ writer' = [writer EXCEPT ![a] =
       [pc |-> "truncate", key |-> k, value |-> v,
        data |-> [NoValues EXCEPT ![k] = ResolveWriteValue(Store[k], v)]]]
  /\ damaged' = (damaged \/ Overlapping(a))
  /\ UNCHANGED <<storeFile, promised>>

\* ConfigValueWriteRecognition.Run up to saveStore; a store that cannot be loaded
\* or a value of an unsupported type changes nothing.
WriteBegin(a, k, v) ==
  /\ writer[a].pc = "idle" /\ Loads /\ v # Unsupported
  /\ ResolveWriteValue(Store[k], v) \in Values
  /\ writer' = [writer EXCEPT ![a] =
       [pc |-> "truncate", key |-> k, value |-> v,
        data |-> [Store EXCEPT ![k] = ResolveWriteValue(Store[k], v)]]]
  /\ damaged' = (damaged \/ Overlapping(a))
  /\ UNCHANGED <<storeFile, promised>>

\* saveStore opens and truncates the file ...
TruncateStore(a) ==
  /\ writer[a].pc = "truncate"
  /\ storeFile' = [is |-> "empty", data |-> NoValues]
  /\ writer' = [writer EXCEPT ![a].pc = "write"]
  /\ UNCHANGED <<promised, damaged>>

\* ... and writes it; the recognition answers "hit".
WriteDone(a) ==
  LET k == writer[a].key r == ResolveWriteValue(promised[k], writer[a].value) IN
  /\ writer[a].pc = "write"
  /\ storeFile' = [is |-> "whole", data |-> writer[a].data]
  /\ promised' = IF damaged THEN promised ELSE [promised EXCEPT ![k] = r]
  /\ writer' = [writer EXCEPT ![a] = IdleWriter]
  /\ UNCHANGED damaged

\* The write fails, or the agent is killed: after the truncation the values are gone.
WriteCut(a) ==
  /\ writer[a].pc # "idle"
  /\ storeFile' \in Remains(storeFile, writer[a].pc = "write")
  /\ damaged' = (damaged \/ writer[a].pc = "write")
  /\ writer' = [writer EXCEPT ![a] = IdleWriter]
  /\ UNCHANGED promised

SaveStoreFails(a) == WriteCut(a)
KillWriter(a) == WriteCut(a)

ConfigNext ==
  \E a \in Agents :
    \/ \E k \in Keys, v \in Params : WriteBegin(a, k, v)
    \/ TruncateStore(a) \/ WriteDone(a) \/ SaveStoreFails(a) \/ KillWriter(a)
-----------------------------------------------------------------------------
ConfigTypeOK ==
  /\ storeFile \in [is : Conditions, data : [Keys -> Values]]
  /\ writer \in [Agents -> [pc : {"idle", "truncate", "write"}, data : [Keys -> Values],
                            key : Keys \cup {Blank}, value : Params]]
  /\ promised \in [Keys -> Values] /\ damaged \in BOOLEAN

\* Between writes the store says what the answered writes of all agents add up to,
\* key by key, and a check answers by it: of smaller, equal and greater exactly one
\* holds for a number (a key never written counting as zero), none for a text.
\* Excused are a write that was cut short and two agents writing at once: the lock
\* is each agent's own.
ConfigKeepsAcknowledged ==
  (~damaged /\ \A a \in Agents : writer[a].pc # "write") =>
    \A k \in Keys :
      LET current == IF promised[k] = Blank THEN 0 ELSE promised[k] IN
      /\ Store[k] = promised[k]
      /\ \A target \in Numbers :
           {c \in {"<", "==", ">"} : ConfigValueCheck(k, target, c)} =
             IF current = Text THEN {}
             ELSE {IF target > current THEN "<" ELSE IF target = current THEN "==" ELSE ">"}
=============================================================================
