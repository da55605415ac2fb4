------------------------------ MODULE TeamScreens ------------------------------
(***************************************************************************)
(* AutoBattle and SwitchSoul: two scripts that look for a group and then   *)
(* for a team of it in lists longer than the screen.  Each attempt looks   *)
(* at one page and then swipes, down or back up; how far a swipe up goes   *)
(* is the game's affair: a page or the whole way.                          *)
(***************************************************************************)
EXTENDS Naturals

CONSTANTS
  GroupPages, TeamPages,   \* bound of an instance: length of the lists
  MaxMisses                \* bound of an instance: looks that miss what is there

ASSUME ScreensAssumption == {GroupPages, TeamPages} \subseteq Nat \ {0} /\ MaxMisses \in Nat

VARIABLES
  script,   \* which of the two is running
  entry,     \* the page of the wanted entry in each list, 0 if it has none, and the way up
  opened,   \* the page of the groups shown at the start
  shown,    \* the page shown of the list in use
  chosen,   \* what is selected in the game
  run       \* the script's state

screenVars == <<script, entry, opened, shown, chosen, run>>

Scripts == {"AutoBattle", "SwitchSoul"}
Level == {"group", "team"}
Pages(level) == IF level = "group" THEN GroupPages ELSE TeamPages

\* What was selected: the wanted entry, another one under a click that strayed, or nothing
Selections == {"wanted", "other", "none"}

\* Where the wanted entries may be
Lists == [group : 0..GroupPages, team : 0..TeamPages, up : {"page", "top"}]

ScreensInit ==
  /\ script = "AutoBattle" /\ entry = [group |-> 0, team |-> 0, up |-> "top"]
  /\ opened = 1 /\ shown = 1
  /\ chosen = [group |-> "none", team |-> "none", fights |-> FALSE]
  /\ run = [pc |-> "idle", attempt |-> 1, retry |-> 1, misses |-> 0, answer |-> FALSE]

\* Run, with the name of a group and of a team
ScreensBegin(s, l, p) ==
  /\ run.pc = "idle"
  /\ script' = s /\ entry' = l /\ opened' = p /\ shown' = p
  /\ run' = [run EXCEPT !.pc = "start"]
  /\ UNCHANGED chosen

MaxAttempts(level) ==
  IF script = "AutoBattle" THEN (IF level = "group" THEN 20 ELSE 10)
  ELSE (IF level = "group" THEN 5 ELSE 8)
MaxRetries == IF script = "AutoBattle" THEN 3 ELSE 1

Up(p, level) == IF entry.up = "top" \/ p = 1 THEN 1 ELSE p - 1
Down(p, level) == IF p < Pages(level) THEN p + 1 ELSE p

\* A bug: SwitchSoul goes back up after every second attempt.
BugSwipe(level) ==
  LET up == IF script = "AutoBattle" THEN run.attempt >= 5 ELSE run.attempt % 2 = 0 IN
  shown' = IF up THEN Up(shown, level) ELSE Down(shown, level)

\* After an attempt in vain: AutoBattle goes back up from the fifth attempt on,
\* SwitchSoul after every third.
Swipe(level) ==
  LET up == IF script = "AutoBattle" THEN run.attempt >= 5 ELSE run.attempt % 3 = 0 IN
  shown' = IF up THEN Up(shown, level) ELSE Down(shown, level)

End(answer) == run' = [run EXCEPT !.pc = "done", !.answer = answer]
Missing == run.misses < MaxMisses

\* The panel of presets opens; AutoBattle ignores a failure, SwitchSoul does not.
ClickPreset ==
  /\ run.pc = "start"
  /\ run' = [run EXCEPT !.pc = "top"]
  /\ UNCHANGED <<script, entry, opened, shown, chosen>>

ClickPresetFails ==
  /\ run.pc = "start" /\ Missing /\ script = "SwitchSoul"
  /\ run' = [run EXCEPT !.pc = "done", !.misses = @ + 1]
  /\ UNCHANGED <<script, entry, opened, shown, chosen>>

\* selectGroup and findAndClickGroup begin with two swipes up and with one.
SwipeToTop ==
  /\ run.pc = "top"
  /\ shown' = IF script = "AutoBattle" THEN Up(Up(shown, "group"), "group")
              ELSE Up(shown, "group")
  /\ run' = [run EXCEPT !.pc = "group", !.attempt = 1]
  /\ UNCHANGED <<script, entry, opened, chosen>>

\* The list of teams starts at its top when a group is selected.
GroupClicked(what) ==
  /\ chosen' = [chosen EXCEPT !.group = what]
  /\ shown' = 1
  /\ run' = [run EXCEPT !.pc = "team", !.attempt = 1]

\* AutoBattle draws the x of its click from the height of the label and the y from
\* its width, so that the click may land on what is below the label.
MayStray == script = "AutoBattle"

FindGroup ==
  /\ run.pc = "group" /\ entry.group = shown
  /\ \E what \in {"wanted"} \cup (IF MayStray THEN {"other"} ELSE {}) : GroupClicked(what)
  /\ UNCHANGED <<script, entry, opened>>

\* What an attempt that found nothing leads to
Failed(level) ==
  IF run.attempt < MaxAttempts(level) THEN [run EXCEPT !.attempt = @ + 1]
  ELSE IF run.retry < MaxRetries THEN [run EXCEPT !.pc = "top", !.retry = @ + 1, !.attempt = 1]
  ELSE [run EXCEPT !.pc = "done", !.answer = FALSE]

\* The wanted entry is on the page: after a stray click the teams are another
\* group's, which may or may not have one of that name.
OnPage(level) == entry[level] = shown /\ (level = "team" => chosen.group = "wanted")

\* Neither the first look nor, in SwitchSoul, the look at strips of the page found it.
LookInVain(level) ==
  /\ run.pc = level /\ (OnPage(level) => Missing)
  /\ run' = [Failed(level) EXCEPT !.misses = IF OnPage(level) THEN @ + 1 ELSE @]
  /\ Swipe(level)
  /\ UNCHANGED <<script, entry, opened, chosen>>

\* A screenshot that fails uses up an attempt and swipes nothing.
NoScreenshot(level) ==
  /\ run.pc = level /\ Missing
  /\ run' = [Failed(level) EXCEPT !.misses = @ + 1]
  /\ UNCHANGED <<script, entry, opened, shown, chosen>>

\* selectTeam clicks the team and a button next to the list, then the sortie
\* follows, whose failure is ignored.
FindTeam ==
  /\ run.pc = "team" /\ script = "AutoBattle"
  /\ OnPage("team") \/ chosen.group = "other"
  /\ \E what \in {"wanted", "other"} : chosen' = [chosen EXCEPT !.team = what]
  /\ run' = [run EXCEPT !.pc = "sortie"]
  /\ UNCHANGED <<script, entry, opened, shown>>

Sortie(ok) ==
  /\ run.pc = "sortie"
  /\ ~ok => Missing
  /\ chosen' = [chosen EXCEPT !.fights = ok]
  /\ run' = [run EXCEPT !.pc = "done", !.answer = TRUE, !.misses = IF ok THEN @ ELSE @ + 1]
  /\ UNCHANGED <<script, entry, opened, shown>>

\* tryEquipSoul puts the team's souls on; what it needs is the place of the label.
EquipTeam ==
  /\ run.pc = "team" /\ script = "SwitchSoul" /\ OnPage("team")
  /\ chosen' = [chosen EXCEPT !.team = "wanted", !.fights = TRUE]
  /\ End(TRUE)
  /\ UNCHANGED <<script, entry, opened, shown>>

\* When equipping gives no detail, a team found at first sight ends the script, one
\* found on a strip does not.
EquipFails(firstFind) ==
  /\ run.pc = "team" /\ script = "SwitchSoul" /\ OnPage("team") /\ Missing
  /\ IF firstFind THEN /\ run' = [run EXCEPT !.pc = "done", !.misses = @ + 1]
                       /\ UNCHANGED shown
     ELSE /\ run' = [Failed("team") EXCEPT !.misses = @ + 1]
          /\ Swipe("team")
  /\ UNCHANGED <<script, entry, opened, chosen>>

ScreensNext ==
  \/ \E s \in Scripts, l \in Lists, p \in 1..GroupPages : ScreensBegin(s, l, p)
  \/ ClickPreset \/ ClickPresetFails \/ SwipeToTop \/ FindGroup \/ FindTeam
  \/ \E level \in Level : LookInVain(level) \/ NoScreenshot(level)
  \/ \E ok \in BOOLEAN : Sortie(ok) \/ EquipFails(ok)
  \/ EquipTeam
-----------------------------------------------------------------------------
ScreensTypeOK ==
  /\ script \in Scripts /\ entry \in Lists /\ opened \in 1..GroupPages
  /\ shown \in 1..(IF GroupPages > TeamPages THEN GroupPages ELSE TeamPages)
  /\ chosen \in [group : Selections, team : Selections, fights : BOOLEAN]
  /\ run \in [pc : {"idle", "start", "top", "sortie", "done"} \cup Level, attempt : 1..20,
              retry : 1..3, misses : 0..MaxMisses, answer : BOOLEAN]

\* The groups a run looks at whichever way a swipe up goes: the first five pages for
\* AutoBattle, three for SwitchSoul, and those only if one swipe reaches the top.
GroupInReach ==
  IF script = "AutoBattle" THEN entry.group \in 1..5
  ELSE entry.group \in 1..3 /\ (entry.up = "page" => opened <= 2)
TeamInReach == entry.team \in 1..(IF script = "AutoBattle" THEN 5 ELSE 3)

\* When a script reports success and no click strayed, the wanted team of the wanted
\* group is the one selected; and a team within reach is found, at whatever page the
\* lists were left, unless a look, a screenshot or a task missed.
ChosenTeamFights ==
  LET strayed == "other" \in {chosen.group, chosen.team} IN
  (run.pc = "done" /\ ~strayed) =>
    /\ run.answer => chosen.group = "wanted" /\ chosen.team = "wanted"
    /\ (run.misses = 0 /\ GroupInReach /\ TeamInReach) => (run.answer /\ chosen.fights)
=============================================================================
