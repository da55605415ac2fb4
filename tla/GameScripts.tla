------------------------------ MODULE GameScripts ------------------------------
(***************************************************************************)
(* The agent's scripts that run tasks of the framework one after another,  *)
(* choose among them, or touch the screen.  RunTask returns an error when  *)
(* there is no such task or nothing is known of it; a task that ran and    *)
(* failed is no error, so a script hears of errors at most.                *)
(***************************************************************************)
EXTENDS Integers, Sequences, FiniteSets

Ext == INSTANCE SequencesExt

CONSTANTS
  Default,       \* a parameter that is not given
  Tickets,       \* counts of breakthrough tickets, 0 and both sides of EnoughTickets
  BountyPages,   \* bound of an instance: pages of the bounty list
  Jobs,          \* names of tasks and nodes that parameters list
  Bonuses,       \* the keys of BonusType
  Challenges,    \* numbers of challenges, as sequences of digits
  MaxRounds,     \* bound of an instance: rounds of a loop, bosses
  Moments,       \* bound of an instance: moments of a day
  Weights        \* weights of random tasks, in even numbers

ASSUME GameAssumption ==
  /\ Tickets \subseteq Nat /\ 0 \in Tickets
  /\ BountyPages \in Nat \ {0}
  /\ Moments \in Nat \ {0}
  /\ Weights \subseteq Nat
  /\ MaxRounds \in Nat /\ Default \notin Int
  /\ Challenges \subseteq Seq(0..9)

VARIABLES
  kun,      \* Kun28, the tickets and the souls equipped
  bounty,   \* BountyMonsterRecognition and the list it goes through
  check,    \* the last TimeCheck
  pick,     \* the last RandomTask
  touch,    \* the last touch
  batch,    \* the script that runs a list of tasks
  game      \* what such a script changes

gameVars == <<kun, bounty, check, pick, touch, batch, game>>

EnoughTickets == 20
TenTimes == <<1, 0>>

NoCheck == [mode |-> "none", start |-> 0, end |-> 0, now |-> 0, dateOK |-> TRUE, answer |-> FALSE]
NoPick == [weights |-> <<>>, r |-> 0, chosen |-> 0]
NoTouch == [script |-> "none", from |-> 0, size |-> 0, at |-> 0, panic |-> FALSE]
NoBatch == [script |-> "none", asked |-> <<>>, plan |-> <<>>, done |-> <<>>, answer |-> "none"]

GameInit ==
  /\ kun = [pc |-> "idle", numTupo |-> 0, lastTask |-> "none", tickets |-> 0, souls |-> "other",
            read |-> FALSE, disturbed |-> FALSE, explored |-> "none", barrierAt |-> EnoughTickets]
  /\ bounty = [pc |-> "begin", attempts |-> 0, page |-> 1, monsters |-> [p \in 1..BountyPages |-> 0],
               explored |-> {}, misread |-> FALSE]
  /\ check = NoCheck /\ pick = NoPick /\ touch = NoTouch /\ batch = NoBatch
  /\ game = [bonus |-> [b \in Bonuses |-> FALSE], number |-> <<>>, typed |-> <<>>, fought |-> {},
             cleared |-> {}, team |-> Default]
-----------------------------------------------------------------------------
(* Kun28: one call does one task, by the tickets read and by what it did last. *)

\* Entering the exploration and reading the tickets; what cannot be read stays as it was.
RecognitionStatus(ok) ==
  /\ kun.pc = "idle"
  /\ kun' = [kun EXCEPT !.pc = "decide", !.read = ok, !.numTupo = IF ok THEN kun.tickets ELSE @]

\* A bug: the barrier is not remembered.
BugAfterBarrier == kun.lastTask
\* lastTask after the barrier
AfterBarrier == "barrier"

\* The barrier, which equips the souls of its own preset and spends tickets
RunAutoJieJie(ok, left) ==
  /\ kun.pc = "decide" /\ kun.numTupo >= EnoughTickets
  /\ left <= kun.tickets /\ (~ok => left = kun.tickets)
  /\ kun' = [kun EXCEPT !.pc = "idle", !.souls = IF ok THEN "barrier" ELSE @, !.tickets = left,
                        !.lastTask = AfterBarrier,
                        !.barrierAt = IF kun.read THEN kun.tickets ELSE @]

\* The exploration, whose souls are equipped unless the last call explored too; whether
\* they could be is not looked at.
Explore(ok, found) ==
  LET equips == kun.lastTask # "explore"
      souls == IF equips /\ ok THEN "explore" ELSE kun.souls IN
  /\ kun.pc = "decide" /\ kun.numTupo < EnoughTickets
  /\ found >= kun.tickets
  /\ kun' = [kun EXCEPT !.pc = "idle", !.souls = souls, !.explored = souls, !.tickets = found,
                        !.disturbed = IF equips THEN ~ok ELSE @, !.lastTask = "explore"]

\* Between two calls another script may equip other souls (SwitchSoul).
OtherSouls ==
  /\ kun.pc = "idle"
  /\ kun' = [kun EXCEPT !.souls = "other", !.disturbed = TRUE]

KunNext ==
  /\ \/ \E ok \in BOOLEAN : RecognitionStatus(ok)
     \/ \E ok \in BOOLEAN, n \in Tickets : RunAutoJieJie(ok, n) \/ Explore(ok, n)
     \/ OtherSouls
  /\ UNCHANGED <<bounty, check, pick, touch, batch, game>>
-----------------------------------------------------------------------------
(* BountyMonsterRecognition: looks and swipes until three swipes brought nothing. *)

BountyBegin(monsters) ==
  /\ bounty.pc = "begin"
  /\ bounty' = [bounty EXCEPT !.pc = "look", !.monsters = monsters]

Looking == bounty.pc = "look" /\ bounty.attempts < 3
Swiped(b) == [b EXCEPT !.attempts = @ + 1, !.page = IF @ < BountyPages THEN @ + 1 ELSE @]

\* No image, a click that led elsewhere, or a monster that is not discovered: the
\* same look again, without a swipe and without an end to it
LookAgain == Looking /\ UNCHANGED bounty

\* A bug: the swipes before it still count.
BugExploreMonster ==
  /\ Looking /\ bounty.monsters[bounty.page] > 0
  /\ bounty' = Swiped([bounty EXCEPT !.monsters[bounty.page] = @ - 1,
                                     !.explored = @ \cup {bounty.page}])

\* A monster is explored, and the list goes on without another look at the page.
ExploreMonster ==
  /\ Looking /\ bounty.monsters[bounty.page] > 0
  /\ bounty' = Swiped([bounty EXCEPT !.attempts = 0, !.monsters[bounty.page] = @ - 1,
                                     !.explored = @ \cup {bounty.page}])

\* Nothing, or only what cannot be clicked, is seen.
SeeNothing ==
  /\ Looking
  /\ bounty' = Swiped([bounty EXCEPT !.misread = @ \/ bounty.monsters[bounty.page] > 0])

BountyEnds ==
  /\ bounty.pc = "look" /\ bounty.attempts = 3
  /\ bounty' = [bounty EXCEPT !.pc = "done"]

BountyNext ==
  /\ \/ \E monsters \in [1..BountyPages -> 0..2] : BountyBegin(monsters)
     \/ LookAgain \/ ExploreMonster \/ SeeNothing \/ BountyEnds
  /\ UNCHANGED <<kun, check, pick, touch, batch, game>>
-----------------------------------------------------------------------------
(* TimeCheck, RandomTask *)

\* A bug: the ends belong to every window.
BugInRange(start, end, now) ==
  IF start < end THEN start <= now /\ now <= end ELSE now >= start \/ now <= end

\* Both ends belong to a window of one day, neither to one over midnight.
InRange(start, end, now) ==
  IF start < end THEN start <= now /\ now <= end ELSE now > start \/ now < end

\* checkDateRule decides first; then any mode but "in" passes on another day.
TimeCheck(start, end, mode, dateOK, now) ==
  IF ~dateOK THEN mode # "in"
  ELSE CASE mode = "in" -> InRange(start, end, now)
         [] mode = "out" -> ~InRange(start, end, now)
         [] OTHER -> FALSE

\* checkDateRule: a rule of a kind that is not known, or whose value is not of the
\* kind's type, forbids nothing.
DateRule(kind, fits, today) == kind \in {"date", "dates", "month_day", "week"} /\ fits => today

CheckTime(start, end, mode, kind, fits, today, now) ==
  LET dateOK == DateRule(kind, fits, today) IN
  check' = [mode |-> mode, start |-> start, end |-> end, now |-> now, dateOK |-> dateOK,
            answer |-> TimeCheck(start, end, mode, dateOK, now)]

TimeNext ==
  /\ check = NoCheck
  /\ \E start, end, now \in 1..Moments, mode \in {"in", "out", "other"},
        kind \in {"none", "week"}, fits, today \in BOOLEAN :
       CheckTime(start, end, mode, kind, fits, today, now)
  /\ UNCHANGED <<kun, bounty, pick, touch, batch, game>>

Total(weights, n) ==
  LET sum[i \in 0..Len(weights)] == IF i = 0 THEN 0 ELSE sum[i - 1] + weights[i] IN sum[n]

\* weightedRandomChoice, of the names in the order the map gives them; r is below the
\* total and may be 0.
WeightedRandomChoice(weights, r) ==
  CHOOSE i \in DOMAIN weights :
    /\ r <= Total(weights, i)
    /\ \A j \in 1..(i - 1) : r > Total(weights, j)

RandomTask(weights, r) ==
  /\ pick = NoPick
  /\ r < Total(weights, Len(weights))
  /\ pick' = [weights |-> weights, r |-> r, chosen |-> WeightedRandomChoice(weights, r)]

RandomNext ==
  /\ \E n \in 1..3 : \E weights \in [1..n -> Weights], r \in 0..11 :
       RandomTask(weights, r)
  /\ UNCHANGED <<kun, bounty, check, touch, batch, game>>
-----------------------------------------------------------------------------
(* HumanTouch, RandomTouch, RandomSwipe; along one axis *)

\* A bug: an area of negative size is not turned round, only its size.
BugTouched(script, from, size) ==
  CASE script = "RandomTouch" -> from..(from + size)
    [] script = "HumanTouch" /\ size < 0 -> from..(from - size - 1)
    [] OTHER -> from..(from + size - 1)

\* Where a touch may go: nowhere, if the random number has no range; then the
\* script panics.  HumanTouch turns an area of negative size round.
Touched(script, from, size) ==
  CASE script = "RandomTouch" -> from..(from + size)
    [] script = "HumanTouch" /\ size < 0 -> (from + size)..(from - 1)
    [] OTHER -> from..(from + size - 1)

Touch(script, from, size) ==
  /\ touch = NoTouch
  /\ \/ \E at \in Touched(script, from, size) :
          touch' = [script |-> script, from |-> from, size |-> size, at |-> at, panic |-> FALSE]
     \/ /\ Touched(script, from, size) = {}
        /\ touch' = [script |-> script, from |-> from, size |-> size, at |-> 0, panic |-> TRUE]

HumanTouch == \E from \in 0..1, size \in -2..2 : Touch("HumanTouch", from, size)
RandomTouch == \E from \in 0..1, size \in 0..2 : Touch("RandomTouch", from, size)
RandomSwipe == \E from \in 0..1, size \in -1..2 : Touch("RandomSwipe", from, size)

TouchNext ==
  /\ HumanTouch \/ RandomTouch \/ RandomSwipe
  /\ UNCHANGED <<kun, bounty, check, pick, batch, game>>
-----------------------------------------------------------------------------
(* Scripts that run a list of tasks *)

Task(name, arg) == [task |-> name, arg |-> arg]

\* The answer to parameters that make no sense
Refused(script, asked) == [NoBatch EXCEPT !.script = script, !.asked = asked, !.answer = "no"]
Planned(script, asked, plan) == [NoBatch EXCEPT !.script = script, !.asked = asked, !.plan = plan]
Start(b) == batch = NoBatch /\ batch' = b

LoopAction(list, n) ==
  LET len == Len(list) IN
  Start(IF list = <<>> \/ n < 1 THEN Refused("LoopAction", <<list, n>>)
        ELSE Planned("LoopAction", <<list, n>>,
                     [k \in 1..(n * len) |-> Task("run", list[((k - 1) % len) + 1])]))

\* A boss is found by its place in the filtered list and then fought; the first
\* reward boss is found without a place.
ChallengeDungeonBoss(count, isReward) ==
  LET place(i) == IF ~isReward THEN i - 1 ELSE IF i = 1 THEN Default ELSE i - 2 IN
  Start(Planned("ChallengeDungeonBoss", <<count>>,
    [k \in 1..(2 * count) |-> Task(IF k % 2 = 1 THEN "find" ELSE "fight", place((k + 1) \div 2))]))

\* Whatever the screen shows
RecognizeNumber == TenTimes

RepeatChallengeNTimes(shown, startRepeat, expected) ==
  /\ game' = [game EXCEPT !.number = shown]
  /\ Start(IF expected = <<0>> THEN Refused("RepeatChallengeNTimes", <<startRepeat, expected>>)
    ELSE IF ~startRepeat THEN Planned("RepeatChallengeNTimes", <<startRepeat, expected>>, <<Task("cancel", 0)>>)
    ELSE Planned("RepeatChallengeNTimes", <<startRepeat, expected>>,
         <<Task("start", 0)>> \o
         IF expected = RecognizeNumber THEN <<>>
         ELSE <<Task("edit", 0)>> \o [i \in DOMAIN expected |-> Task("digit", expected[i])]
                \o <<Task("confirm", 0)>>))

\* The bonuses in the order the map gives them; one that is not known refuses all.
BonusToggle(order, enable) ==
  Start(IF \E i \in DOMAIN order : order[i] \notin Bonuses THEN Refused("BonusToggle", <<>>)
        ELSE Planned("BonusToggle", [i \in DOMAIN order |-> <<order[i], enable[i]>>],
                     [i \in DOMAIN order |-> Task("toggle", <<order[i], enable[i]>>)]))

\* node_name, if given, then node_names
ClearHitCount(name, names) ==
  LET all == (IF name = Default THEN <<>> ELSE <<name>>) \o names IN
  Start(IF all = <<>> THEN Refused("ClearHitCount", all)
        ELSE Planned("ClearHitCount", all, [i \in DOMAIN all |-> Task("clear", all[i])]))

\* normalize: a parameter is taken from its alias if it is not given.
BattleTeam(team, alias) ==
  LET t == IF team = Default THEN alias ELSE team IN
  Start(IF t = Default THEN Refused("BattleTeam", <<>>)
        ELSE Planned("BattleTeam", <<team, alias>>, <<Task("preset", t)>>))

\* What a task does to the game
Effect(t) ==
  game' = CASE t.task = "fight" -> [game EXCEPT !.fought = @ \cup {t.arg}]
            [] t.task = "edit" -> [game EXCEPT !.typed = <<>>]
            [] t.task = "digit" -> [game EXCEPT !.typed = Append(@, t.arg)]
            [] t.task = "confirm" -> [game EXCEPT !.number = game.typed]
            [] t.task = "toggle" -> [game EXCEPT !.bonus[t.arg[1]] = t.arg[2]]
            [] t.task = "clear" -> [game EXCEPT !.cleared = @ \cup {t.arg}]
            [] t.task = "preset" -> [game EXCEPT !.team = t.arg]
            [] OTHER -> game

\* An error of RunTask ends some scripts, is told at the end by one, and is passed
\* over by the others.
StopsOnError == {"ChallengeDungeonBoss", "BattleTeam"}
TellsErrors == StopsOnError \cup {"ClearHitCount"}

RunTaskOf(outcome) ==
  LET t == Head(batch.plan) IN
  /\ batch.plan # <<>>
  /\ outcome = "failed" => t.task # "clear"
  /\ IF outcome = "done" THEN Effect(t) ELSE UNCHANGED game
  /\ batch' = [batch EXCEPT
       !.done = Append(@, <<t, outcome>>),
       !.plan = IF outcome = "error" /\ batch.script \in StopsOnError THEN <<>> ELSE Tail(@)]

Erred == \E i \in DOMAIN batch.done : batch.done[i][2] = "error"

\* A bug: an error is passed over by all.
BugScriptEnds ==
  /\ batch.script # "none" /\ batch.plan = <<>> /\ batch.answer = "none"
  /\ batch' = [batch EXCEPT !.answer = "yes"]
  /\ UNCHANGED game

ScriptEnds ==
  /\ batch.script # "none" /\ batch.plan = <<>> /\ batch.answer = "none"
  /\ batch' = [batch EXCEPT !.answer = IF Erred /\ batch.script \in TellsErrors THEN "no" ELSE "yes"]
  /\ UNCHANGED game

ListsOf(S) == {<<>>} \cup {<<a>> : a \in S} \cup {<<a, b>> : a, b \in S}

BatchNext ==
  /\ \/ /\ \/ \E list \in ListsOf(Jobs), n \in 0..MaxRounds : LoopAction(list, n)
           \/ \E n \in 0..MaxRounds, isReward \in BOOLEAN : ChallengeDungeonBoss(n, isReward)
           \/ \E order \in ListsOf(Bonuses \cup {Default}), enable \in [1..2 -> BOOLEAN] :
                Ext!IsInjective(order) /\ BonusToggle(order, enable)
           \/ \E name \in Jobs \cup {Default}, names \in ListsOf(Jobs) : ClearHitCount(name, names)
           \/ \E team, alias \in Jobs \cup {Default} : BattleTeam(team, alias)
        /\ UNCHANGED game
     \/ \E shown, expected \in Challenges, startRepeat \in BOOLEAN :
          RepeatChallengeNTimes(shown, startRepeat, expected)
     \/ \E outcome \in {"done", "failed", "error"} : RunTaskOf(outcome)
     \/ ScriptEnds
  /\ UNCHANGED <<kun, bounty, check, pick, touch>>
-----------------------------------------------------------------------------
GameTypeOK ==
  /\ kun.numTupo \in Tickets \cup {0} /\ kun.tickets \in Tickets
  /\ kun.lastTask \in {"none", "barrier", "explore"}
  /\ bounty.attempts \in 0..3 /\ bounty.monsters \in [1..BountyPages -> 0..2]
  /\ check.answer \in BOOLEAN
  /\ batch.answer \in {"none", "yes", "no"}
  /\ game.bonus \in [Bonuses -> BOOLEAN]

\* The exploration goes with its own souls, though they are equipped only when the
\* last call did something else; and the barrier is tried with tickets enough.
KunIsEquipped ==
  /\ kun.explored \in {"none", "explore"} \/ kun.disturbed
  /\ kun.barrierAt >= EnoughTickets

\* When the search for monsters ends, one that is left shares its page with one that
\* was explored, or was beyond the two pages after the last that was.
BountyLooksOn ==
  LET seen == IF bounty.explored = {} THEN 3 ELSE 2 + Ext!Max(bounty.explored) IN
  bounty.pc = "done" /\ ~bounty.misread =>
    \A p \in 1..BountyPages : bounty.monsters[p] > 0 => p \in bounty.explored \/ p > seen

\* A window and the one from its end to its start share no moment and leave none out,
\* "out" is the opposite of "in", and a window of one day is what lies between its
\* ends, as the clock goes round.
WindowsWrap ==
  LET answer(start, end, mode) == TimeCheck(start, end, mode, check.dateOK, check.now)
      between == {(check.start + k) % Moments : k \in 0..((check.end - check.start) % Moments)}
  IN check # NoCheck =>
       /\ check.mode = "in" => check.answer # answer(check.start, check.end, "out")
       /\ check.dateOK /\ check.start # check.end /\ check.mode = "in" =>
            check.answer # answer(check.end, check.start, "in")
       /\ check.mode = "in" /\ check.answer /\ check.start # check.end =>
            check.now % Moments \in between

\* A task of weight 0 is chosen only by a random number that is exactly 0.
WeightCounts ==
  pick # NoPick => pick.weights[pick.chosen] > 0 \/ pick.r = 0

\* A touch lies in its area, and only an area without extent makes a script panic.
TouchIsInside ==
  touch # NoTouch =>
    IF touch.panic THEN touch.size <= 0
    ELSE \/ touch.from <= touch.at /\ touch.at <= touch.from + touch.size
         \/ touch.from + touch.size <= touch.at /\ touch.at <= touch.from

Ran(t) == Cardinality({i \in DOMAIN batch.done : batch.done[i][1].arg = t})

\* What was asked for, once every task did its part
Achieved ==
  CASE batch.script = "LoopAction" ->
         LET list == batch.asked[1] IN
         /\ \A t \in Ext!Range(list) :
              Ran(t) = batch.asked[2] * Cardinality({i \in DOMAIN list : list[i] = t})
         /\ Len(list) = 2 => \A i \in DOMAIN batch.done : batch.done[i][1].arg = list[2 - (i % 2)]
    [] batch.script = "ChallengeDungeonBoss" -> Cardinality(game.fought) = batch.asked[1]
    [] batch.script = "RepeatChallengeNTimes" ->
         batch.asked[1] => game.number = batch.asked[2] \/ batch.asked[2] = TenTimes
    [] batch.script = "BonusToggle" ->
         \A i \in DOMAIN batch.asked : game.bonus[batch.asked[i][1]] = batch.asked[i][2]
    [] batch.script = "ClearHitCount" -> game.cleared = Ext!Range(batch.asked)
    [] OTHER -> game.team = (IF batch.asked[1] = Default THEN batch.asked[2] ELSE batch.asked[1])

\* A script that tells errors answers no exactly if there was one, and one that stops
\* runs nothing after it; if every task did its part, the game is as asked.
AnswersAreHonest ==
  batch.answer # "none" /\ batch.done # <<>> =>
    /\ batch.script \in TellsErrors => (batch.answer = "no" <=> Erred)
    /\ batch.script \in StopsOnError =>
         \A i \in DOMAIN batch.done : batch.done[i][2] = "error" => i = Len(batch.done)
    /\ (\A i \in DOMAIN batch.done : batch.done[i][2] = "done") => Achieved

\* The scripts do to the game what their parameters ask for, as far as the framework
\* and the screen let them know.
ScriptsDoAsAsked ==
  KunIsEquipped /\ BountyLooksOn /\ WindowsWrap /\ WeightCounts /\ TouchIsInside /\ AnswersAreHonest
=============================================================================
