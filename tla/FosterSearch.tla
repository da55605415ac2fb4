----------------------------- MODULE FosterSearch -----------------------------
(***************************************************************************)
(* AutoFoster: looks through the two tabs of friends page by page and      *)
(* notes the reward of every target, then looks for the best reward again, *)
(* then for the next best, and stops at the first it finds.  A page stands *)
(* for the set of rewards its targets show when they are clicked.          *)
(***************************************************************************)
EXTENDS Naturals, Sequences, FiniteSets

CONSTANTS
  Kinds,                         \* types of reward
  Unreadable,                    \* what a target shows that no reward can be parsed from
  Worlds,                        \* the lists there may be: per tab a sequence of pages
  MaxPagesScan, MaxPagesSearch   \* the constants of the source

\* The search sees every page that the scan saw.
ASSUME FosterAssumption ==
  MaxPagesScan \in Nat /\ MaxPagesSearch \in Nat /\ MaxPagesScan <= MaxPagesSearch

\* A tab has a page at least, and a reward has a number.
ASSUME WorldsAssumption ==
  \A w \in Worlds : \A t \in 1..2 :
    /\ Len(w[t]) \in Nat \ {0}
    /\ \A i \in 1..Len(w[t]) : \A r \in w[t][i] \ {Unreadable} : r[2] \in Nat

VARIABLES
  world, preferred,  \* the lists of this run, and the type its parameter prefers
  tab, page,         \* what the game shows
  clicked,           \* the reward of the target clicked last
  job                \* the script

fosterVars == <<world, preferred, tab, page, clicked, job>>

Tabs == <<"friends", "cross">>
Shown == world[tab][page]
Rewards(p) == p \ {Unreadable}

NoWorld == << <<{}>>, <<{}>> >>
PCs == {"idle", "tab", "page", "next", "end", "sort", "goal", "done"}
NoJob == [pc |-> "idle", searching |-> FALSE, tab |-> 1, count |-> 0, found |-> {},
          goal |-> Unreadable, answer |-> FALSE, missed |-> FALSE]

FosterInit ==
  /\ world = NoWorld /\ preferred = Unreadable
  /\ tab = 1 /\ page = 1 /\ clicked = Unreadable /\ job = NoJob

\* Run, on some lists and with some parameter
FosterBegin(w, kind) ==
  /\ job.pc = "idle"
  /\ world' = w /\ preferred' = kind
  /\ job' = [job EXCEPT !.pc = "tab"]
  /\ UNCHANGED <<tab, page, clicked>>

Screen == <<world, preferred, tab, page, clicked>>

\* Whether a reward goes before another in the order of getSortedRewards
Before(r, s) ==
  IF (r[1] = preferred) # (s[1] = preferred) THEN r[1] = preferred ELSE r[2] > s[2]

\* RunTask of the tab's node; its failure is ignored and leaves the other tab.
ClickTab(ok) ==
  /\ job.pc = "tab"
  /\ job' = [job EXCEPT !.pc = "page", !.count = 1, !.missed = @ \/ ~ok]
  /\ IF ok THEN tab' = job.tab /\ page' = 1 ELSE UNCHANGED <<tab, page>>
  /\ UNCHANGED <<world, preferred, clicked>>

\* A page without a reward ends the tab, except the first.
AfterPage(nothing) == IF nothing /\ job.count > 1 THEN "end" ELSE "next"

\* collectRewardsFromCurrentPage clicks every target; a screenshot or a recognition
\* that fails loses rewards.
ScanPage(got) ==
  /\ job.pc = "page" /\ ~job.searching /\ got \subseteq Rewards(Shown)
  /\ job' = [job EXCEPT !.pc = AfterPage(got = {}), !.found = @ \cup got,
                        !.missed = @ \/ got # Rewards(Shown)]
  /\ clicked' \in IF Shown = {} THEN {clicked} ELSE Shown
  /\ UNCHANGED <<world, preferred, tab, page>>

\* findAndSelectBestOnTab clicks the targets until one shows the goal.
SearchPage(hit) ==
  /\ job.pc = "page" /\ job.searching
  /\ hit => job.goal \in Shown
  /\ IF hit
     THEN /\ clicked' = job.goal
          /\ job' = [job EXCEPT !.pc = "done", !.answer = TRUE]
     ELSE /\ clicked' \in IF Shown = {} THEN {clicked} ELSE Shown
          /\ \E seen \in BOOLEAN :
               /\ seen => Shown # {}
               /\ job' = [job EXCEPT !.pc = AfterPage(~seen),
                            !.missed = @ \/ job.goal \in Shown \/ seen # (Shown # {})]
  /\ UNCHANGED <<world, preferred, tab, page>>

\* A screenshot that fails while searching: the next turn begins at once, on the
\* same page, without end.  The page count past its limit counts as the limit.
SearchBlind ==
  /\ job.pc = "page" /\ job.searching
  /\ job' = [job EXCEPT !.count = IF @ > MaxPagesSearch THEN @ ELSE @ + 1, !.missed = TRUE]
  /\ UNCHANGED Screen

Limit == IF job.searching THEN MaxPagesSearch ELSE MaxPagesScan

\* RunTask of the next page gives no detail: the tab is done.  At the end of the
\* list it may also give one and show the same page again.
NextPageFails ==
  /\ job.pc = "next"
  /\ job' = [job EXCEPT !.pc = "end", !.missed = @ \/ page < Len(world[tab])]
  /\ UNCHANGED Screen

NextPage ==
  /\ job.pc = "next"
  /\ page' = IF page < Len(world[tab]) THEN page + 1 ELSE page
  /\ job' = IF job.count > Limit THEN [job EXCEPT !.pc = "end"]
            ELSE [job EXCEPT !.pc = "page", !.count = @ + 1]
  /\ UNCHANGED <<world, preferred, tab, clicked>>

\* On to the other tab, and after it to sorting or to the next reward
TabDone ==
  /\ job.pc = "end"
  /\ job' = IF job.tab = 1 THEN [job EXCEPT !.pc = "tab", !.tab = 2]
            ELSE [job EXCEPT !.pc = "goal", !.tab = 1]
  /\ UNCHANGED Screen

\* A bug: the order does not look at the type.
BugGoals(left) == {r \in left : \A s \in left : r[2] >= s[2]}

\* The rewards that may come first; those of equal rank stay in no certain order.
Goals(left) == {r \in left : \A s \in left : ~Before(s, r)}

NextGoal(goal) ==
  /\ job.pc = "goal" /\ goal \in Goals(job.found)
  /\ job' = [job EXCEPT !.pc = "tab", !.searching = TRUE, !.goal = goal, !.found = @ \ {goal}]
  /\ UNCHANGED Screen

\* No reward was found, or none was found again.
GiveUp ==
  /\ job.pc = "goal" /\ job.found = {}
  /\ job' = [job EXCEPT !.pc = "done", !.answer = FALSE]
  /\ UNCHANGED Screen

FosterNext ==
  \/ \E w \in Worlds, kind \in Kinds : FosterBegin(w, kind)
  \/ \E ok \in BOOLEAN : ClickTab(ok)
  \/ \E got \in SUBSET Rewards(Shown) : ScanPage(got)
  \/ \E hit \in BOOLEAN : SearchPage(hit)
  \/ SearchBlind \/ NextPageFails \/ NextPage \/ TabDone
  \/ \E goal \in job.found : NextGoal(goal)
  \/ GiveUp
-----------------------------------------------------------------------------
FosterTypeOK ==
  /\ world \in Worlds \cup {NoWorld} /\ preferred \in Kinds \cup {Unreadable}
  /\ tab \in 1..2 /\ page \in 1..Len(world[tab])
  /\ job.pc \in PCs /\ job.tab \in 1..2 /\ job.count \in 0..(MaxPagesSearch + 1)
  /\ {job.searching, job.answer, job.missed} \subseteq BOOLEAN

\* The rewards a run can come across: those of the pages up to the scan's limit,
\* and before the first one (but the first of all) that shows none
Reachable(t) ==
  UNION {Rewards(world[t][i]) : i \in
    {j \in 1..Len(world[t]) : j <= MaxPagesScan + 1 /\
                              \A k \in 2..j : Rewards(world[t][k]) # {}}}

\* The target left selected shows a reward than which none on the pages within
\* reach of the scan is better, a preferred one before any other; a run fails only
\* if they show none.  Excused are runs in which a click, a screenshot, a
\* recognition or a swipe failed.
BestRewardChosen ==
  LET all == Reachable(1) \cup Reachable(2) IN
  (job.pc = "done" /\ ~job.missed) =>
    IF job.answer
    THEN /\ clicked \in all
         /\ clicked[1] # preferred => \A r \in all : r[1] # preferred
         /\ \A r \in all : r[1] = clicked[1] => r[2] <= clicked[2]
    ELSE all = {}
=============================================================================
