--------------------------- MODULE GameScriptsProofs ---------------------------
(***************************************************************************)
(* Proofs about the rest of the agent: its scripts do as they are asked,   *)
(* for any lists, counts, weights and moments; what the binding tells of a *)
(* task matches the task; and the variables of the whole process have      *)
(* their types.                                                            *)
(*                                                                         *)
(* The scripts that run a list of tasks have one argument in common.  What *)
(* a script is asked determines the whole list of its tasks before it      *)
(* begins (Expected); at any time the tasks done are a beginning of that   *)
(* list (Follows), and as long as none failed, the game is what this       *)
(* beginning makes of it (GameIs).                                         *)
(*                                                                         *)
(* Two facts carry the proof about details.  Documents nest finitely, so   *)
(* a combined recognition that differs from what is said of it would have  *)
(* a part that does (ParsedIsReadable); and tasks only grow, so what a     *)
(* query was told before a step is still so after it (GrowthFits).         *)
(***************************************************************************)
EXTENDS AgentProcessProofs

-----------------------------------------------------------------------------
(* Kun28, the bounty list and the touches                                   *)

\* A step of the process is one of one script's, or leaves the scripts alone.
LEMMA GameSteps == [Next]_vars =>
  \/ UNCHANGED gameVars
  \/ KunNext \/ BountyNext \/ TimeNext \/ RandomNext \/ TouchNext \/ BatchNext
BY DEF Next, vars, scriptVars, ProcessNext, Uses

\* What Kun28 keeps
KunTypes ==
  [pc : {"idle", "decide"}, numTupo : Tickets, lastTask : {"none", "barrier", "explore"},
   tickets : Tickets, souls : {"other", "barrier", "explore"}, read : BOOLEAN,
   disturbed : BOOLEAN, explored : {"none", "other", "barrier", "explore"}, barrierAt : Nat]

\* The tickets it decides by are those it read, and after an exploration without
\* failure the souls for exploring are equipped: so KunIsEquipped.
KunInv ==
  /\ kun \in KunTypes
  /\ kun.lastTask = "explore" => kun.souls = "explore" \/ kun.disturbed
  /\ kun.pc = "decide" /\ kun.read => kun.numTupo = kun.tickets
  /\ KunIsEquipped

\* One step of Kun28
LEMMA KunKept == KunInv /\ KunNext => KunInv'
<1> SUFFICES ASSUME KunInv, KunNext PROVE KunInv'
  OBVIOUS
<1> USE GameAssumption
<1>1. ASSUME NEW ok \in BOOLEAN, RecognitionStatus(ok) PROVE KunInv'
  <2>1. kun' \in KunTypes
    BY <1>1 DEF KunInv, RecognitionStatus, KunTypes
  <2> QED
    BY <1>1, <2>1 DEF KunInv, RecognitionStatus, KunIsEquipped, EnoughTickets, KunTypes
<1>2. ASSUME NEW ok \in BOOLEAN, NEW n \in Tickets, RunAutoJieJie(ok, n) PROVE KunInv'
  <2>1. kun' \in KunTypes
    BY <1>2 DEF KunInv, RunAutoJieJie, KunTypes, AfterBarrier
  <2> QED
    BY <1>2, <2>1 DEF KunInv, RunAutoJieJie, KunIsEquipped, EnoughTickets, AfterBarrier, KunTypes
<1>3. ASSUME NEW ok \in BOOLEAN, NEW n \in Tickets, Explore(ok, n) PROVE KunInv'
  <2>1. kun' \in KunTypes
    BY <1>3 DEF KunInv, Explore, KunTypes
  <2>2. kun'.barrierAt = kun.barrierAt /\ kun'.explored = kun'.souls /\ kun'.pc = "idle"
    BY <1>3 DEF KunInv, Explore, KunTypes
  <2>3. kun'.souls = "explore" \/ kun'.disturbed
    <3>1. CASE kun.lastTask = "explore"
      BY <1>3, <3>1 DEF KunInv, Explore, KunTypes
    <3>2. CASE kun.lastTask # "explore"
      BY <1>3, <3>2 DEF KunInv, Explore, KunTypes
    <3> QED
      BY <3>1, <3>2
  <2> QED
    BY <2>1, <2>2, <2>3 DEF KunInv, KunIsEquipped
<1>4. CASE OtherSouls
  BY <1>4 DEF KunInv, OtherSouls, KunIsEquipped, EnoughTickets, KunTypes
<1> QED
  BY <1>1, <1>2, <1>3, <1>4 DEF KunNext

\* The page of the last monster explored: the attempts are counted from there.
Base == IF bounty.explored = {} THEN 1 ELSE Ext!Max(bounty.explored)

\* What the library's maximum of a set of numbers is
LEMMA MaxOf ==
  ASSUME NEW n \in Nat, NEW S \in SUBSET (1..n), S # {}
  PROVE  Ext!Max(S) \in S /\ \A k \in S : k <= Ext!Max(S)
<1>1. LastOf(S) \in S /\ \A k \in S : k <= LastOf(S)
  BY LastIsLast
<1>2. \A x, y \in S : x >= y <=> y <= x
  OBVIOUS
<1>3. \E x \in S : \A y \in S : x >= y
  BY <1>1, <1>2
<1> QED
  BY <1>2, <1>3 DEF Ext!Max

\* What the bounty script keeps
BountyTypes == [pc : {"begin", "look", "done"}, attempts : 0..3, page : 1..BountyPages,
             monsters : [1..BountyPages -> 0..2], explored : SUBSET (1..BountyPages),
             misread : BOOLEAN]

\* Unless a monster was overlooked, one that was not explored is on no earlier page than
\* the list shows, and at least as many pages after the last success as there were swipes.
BountyInv ==
  /\ bounty \in BountyTypes
  /\ bounty.pc = "begin" => bounty.attempts = 0 /\ bounty.page = 1 /\ bounty.explored = {}
  /\ bounty.pc = "done" => bounty.attempts = 3
  /\ bounty.explored \subseteq 1..bounty.page
  /\ bounty.page < BountyPages => bounty.page = Base + bounty.attempts
  /\ \/ bounty.misread
     \/ \A p \in 1..BountyPages : bounty.monsters[p] > 0 /\ p \notin bounty.explored =>
          p >= bounty.page /\ p >= Base + bounty.attempts

\* At the end of the script this is the property.
LEMMA BountyEnd == BountyInv => BountyLooksOn
<1> SUFFICES ASSUME BountyInv, bounty.pc = "done", ~bounty.misread,
                    NEW p \in 1..BountyPages, bounty.monsters[p] > 0, p \notin bounty.explored
             PROVE  p > IF bounty.explored = {} THEN 3 ELSE 2 + Ext!Max(bounty.explored)
  BY DEF BountyLooksOn
<1>1. p >= Base + 3
  BY DEF BountyTypes, BountyInv
<1>2. CASE bounty.explored = {}
  BY <1>1, <1>2 DEF Base
<1>3. CASE bounty.explored # {}
  <2>1. Ext!Max(bounty.explored) \in 1..BountyPages
    BY <1>3, MaxOf, GameAssumption DEF BountyTypes, BountyInv
  <2> QED
    BY <1>1, <1>3, <2>1 DEF Base
<1> QED
  BY <1>2, <1>3

\* A swipe stays in the list.
LEMMA SwipedTyped ==
  ASSUME NEW b \in BountyTypes, b.attempts < 3
  PROVE  Swiped(b) \in BountyTypes
<1>1. b.attempts + 1 \in 0..3 /\ b.page \in 1..BountyPages
  BY DEF BountyTypes
<1>2. (IF b.page < BountyPages THEN b.page + 1 ELSE b.page) \in 1..BountyPages
  BY <1>1, GameAssumption
<1> QED
  BY <1>1, <1>2 DEF Swiped, BountyTypes

\* One step of the bounty script
LEMMA BountyKept == BountyInv /\ BountyNext => BountyInv'
<1> SUFFICES ASSUME BountyInv, BountyNext PROVE BountyInv'
  OBVIOUS
<1> USE GameAssumption
<1>0. Base \in 1..bounty.page
  <2>1. CASE bounty.explored = {}
    BY <2>1 DEF Base, BountyInv, BountyTypes
  <2>2. CASE bounty.explored # {}
    <3>1. Ext!Max(bounty.explored) \in bounty.explored
      BY <2>2, MaxOf DEF BountyTypes, BountyInv
    <3> QED
      BY <2>2, <3>1 DEF Base, BountyInv, BountyTypes
  <2> QED
    BY <2>1, <2>2
<1>1. ASSUME NEW monsters \in [1..BountyPages -> 0..2], BountyBegin(monsters) PROVE BountyInv'
  <2>1. Base' = 1 /\ Base = 1
    BY <1>1 DEF BountyBegin, BountyInv, BountyTypes, Base
  <2>2. bounty' \in BountyTypes
    BY <1>1 DEF BountyTypes, BountyInv, BountyBegin
  <2>3. bounty'.page = 1 /\ bounty'.attempts = 0 /\ bounty'.explored = {} /\ bounty'.pc = "look"
    BY <1>1 DEF BountyTypes, BountyInv, BountyBegin
  <2> QED
    BY <2>1, <2>2, <2>3 DEF BountyInv
<1>2. CASE LookAgain
  BY <1>2 DEF BountyTypes, BountyInv, LookAgain, Base
<1>3. CASE ExploreMonster
  <2>1. bounty.explored' = bounty.explored \cup {bounty.page}
    BY <1>3 DEF ExploreMonster, Swiped, BountyInv, BountyTypes
  <2>2. Base' = bounty.page
    <3>1. Ext!Max(bounty.explored \cup {bounty.page}) \in bounty.explored \cup {bounty.page}
          /\ bounty.page <= Ext!Max(bounty.explored \cup {bounty.page})
      <4> BountyPages \in Nat /\ bounty.explored \cup {bounty.page} \in SUBSET (1..BountyPages)
        BY DEF BountyTypes, BountyInv
      <4> QED
        BY MaxOf DEF BountyTypes, BountyInv
    <3>2. Ext!Max(bounty.explored \cup {bounty.page}) = bounty.page
      BY <3>1 DEF BountyTypes, BountyInv
    <3> QED
      BY <2>1, <3>2 DEF Base
  <2>3. /\ bounty'.pc = "look" /\ bounty'.attempts = 1 /\ bounty'.misread = bounty.misread
        /\ bounty'.page = IF bounty.page < BountyPages THEN bounty.page + 1 ELSE bounty.page
        /\ bounty'.monsters = [bounty.monsters EXCEPT ![bounty.page] = @ - 1]
        /\ bounty'.explored = bounty.explored \cup {bounty.page}
    BY <1>3 DEF ExploreMonster, Swiped, Looking, BountyInv, BountyTypes
  <2>7. bounty' \in BountyTypes
    <3>1. [bounty.monsters EXCEPT ![bounty.page] = @ - 1] \in [1..BountyPages -> 0..2]
      BY <1>3 DEF ExploreMonster, BountyInv, BountyTypes
    <3>2. bounty'.explored \in SUBSET (1..BountyPages)
      BY <2>1 DEF BountyInv, BountyTypes
    <3>3. bounty' = [pc |-> bounty'.pc, attempts |-> bounty'.attempts, page |-> bounty'.page,
                     monsters |-> bounty'.monsters, explored |-> bounty'.explored,
                     misread |-> bounty'.misread]
      BY <1>3 DEF ExploreMonster, Swiped, BountyInv, BountyTypes
    <3>4. bounty'.page \in 1..BountyPages /\ bounty'.misread \in BOOLEAN
      BY <2>3 DEF BountyInv, BountyTypes
    <3> QED
      BY <2>3, <3>1, <3>2, <3>3, <3>4 DEF BountyTypes
  <2>4. ASSUME ~bounty.misread, NEW p \in 1..BountyPages, bounty'.monsters[p] > 0,
               p \notin bounty'.explored
        PROVE  p >= bounty'.page /\ p >= bounty.page + 1
    <3>1. p # bounty.page /\ p \notin bounty.explored
      BY <2>1, <2>4
    <3>2. bounty.monsters[p] > 0
      BY <2>3, <2>4, <3>1 DEF BountyTypes, BountyInv
    <3>3. p >= bounty.page
      BY <2>4, <3>1, <3>2 DEF BountyTypes, BountyInv
    <3> QED
      BY <2>3, <3>1, <3>3 DEF BountyTypes, BountyInv
  <2>5. bounty'.explored \subseteq 1..bounty'.page
    BY <2>1, <2>3 DEF BountyTypes, BountyInv
  <2>6. \/ bounty'.misread
        \/ \A p \in 1..BountyPages : bounty'.monsters[p] > 0 /\ p \notin bounty'.explored =>
             p >= bounty'.page /\ p >= bounty.page + 1
    BY <2>3, <2>4
  <2> QED
    BY <2>2, <2>3, <2>5, <2>6, <2>7 DEF BountyTypes, BountyInv
<1>4. CASE SeeNothing
  <2>1. Base' = Base
    BY <1>4 DEF SeeNothing, Swiped, Base, BountyInv, BountyTypes
  <2>2. /\ bounty'.pc = "look" /\ bounty'.attempts = bounty.attempts + 1
        /\ bounty'.misread = (bounty.misread \/ bounty.monsters[bounty.page] > 0)
        /\ bounty'.page = IF bounty.page < BountyPages THEN bounty.page + 1 ELSE bounty.page
        /\ bounty'.monsters = bounty.monsters /\ bounty'.explored = bounty.explored
    BY <1>4 DEF SeeNothing, Swiped, Looking, BountyInv, BountyTypes
  <2>5. bounty' \in BountyTypes
    <3> DEFINE b == [bounty EXCEPT !.misread = @ \/ bounty.monsters[bounty.page] > 0]
    <3>1. b \in BountyTypes /\ b.attempts < 3
      BY <1>4 DEF SeeNothing, Looking, BountyInv, BountyTypes
    <3>2. bounty' = Swiped(b)
      BY <1>4 DEF SeeNothing
    <3> QED
      BY <3>1, <3>2, SwipedTyped
  <2>3. ASSUME ~bounty'.misread, NEW p \in 1..BountyPages, bounty'.monsters[p] > 0,
               p \notin bounty'.explored
        PROVE  p >= bounty'.page /\ p >= Base + bounty'.attempts
    <3>1. p >= bounty.page /\ p >= Base + bounty.attempts /\ p # bounty.page
      BY <2>2, <2>3 DEF BountyTypes, BountyInv
    <3>2. bounty.page < BountyPages
      BY <3>1 DEF BountyTypes, BountyInv
    <3> QED
      BY <1>0, <2>2, <3>1, <3>2 DEF BountyTypes, BountyInv
  <2>4. bounty'.page < BountyPages => bounty'.page = Base + bounty'.attempts
    BY <1>0, <2>2 DEF BountyTypes, BountyInv
  <2> QED
    BY <2>1, <2>2, <2>3, <2>4, <2>5 DEF BountyTypes, BountyInv
<1>5. CASE BountyEnds
  BY <1>5 DEF BountyTypes, BountyInv, BountyEnds, Base
<1> QED
  BY <1>1, <1>2, <1>3, <1>4, <1>5 DEF BountyNext

\* A touch falls into the area it was asked for.
LEMMA TouchKept == TouchNext => TouchIsInside'
<1>1. ASSUME NEW what \in {"HumanTouch", "RandomTouch", "RandomSwipe"}, NEW from \in Int,
             NEW size \in Int, Touch(what, from, size)
      PROVE  TouchIsInside'
  BY <1>1 DEF Touch, Touched, TouchIsInside, NoTouch
<1> QED
  BY <1>1 DEF TouchNext, HumanTouch, RandomTouch, RandomSwipe

-----------------------------------------------------------------------------
(* Windows of time and weights                                              *)

\* Remainders of what is at most one turn away
LEMMA Remainder ==
  ASSUME NEW m \in Nat \ {0}, NEW x \in Int
  PROVE  /\ 0 <= x /\ x < m => x % m = x
         /\ m <= x /\ x < 2 * m => x % m = x - m
         /\ -m <= x /\ x < 0 => x % m = x + m
OBVIOUS

\* The checks of the time, and what the last one has answered
Checks == [mode : {"in", "out", "other"}, start : 1..Moments, end : 1..Moments, now : 1..Moments,
           dateOK : BOOLEAN, answer : BOOLEAN]

\* The last check has answered by TimeCheck.
CheckFits ==
  \/ check = NoCheck
  \/ /\ check \in Checks
     /\ check.answer = TimeCheck(check.start, check.end, check.mode, check.dateOK, check.now)

\* One step of TimeCheck
LEMMA ChecksTyped == TimeNext => CheckFits'
<1>1. ASSUME NEW s \in 1..Moments, NEW e \in 1..Moments, NEW n \in 1..Moments,
             NEW mode \in {"in", "out", "other"}, NEW kind, NEW fits, NEW day,
             CheckTime(s, e, mode, kind, fits, day, n)
      PROVE  CheckFits'
  <2> DEFINE ok == DateRule(kind, fits, day)
  <2>1. ok \in BOOLEAN
    BY DEF DateRule
  <2>2. check' = [mode |-> mode, start |-> s, end |-> e, now |-> n, dateOK |-> ok,
                  answer |-> TimeCheck(s, e, mode, ok, n)]
    BY <1>1 DEF CheckTime
  <2> HIDE DEF ok
  <2>3. TimeCheck(s, e, mode, ok, n) \in BOOLEAN
    BY <2>1 DEF TimeCheck, InRange
  <2> QED
    BY <2>1, <2>2, <2>3 DEF CheckFits, Checks
<1> QED
  BY <1>1 DEF TimeNext

\* What is inside a window is met on the way from its start to its end.
LEMMA BetweenEnds ==
  ASSUME NEW s \in 1..Moments, NEW e \in 1..Moments, NEW n \in 1..Moments, s # e, InRange(s, e, n)
  PROVE  n % Moments \in {(s + k) % Moments : k \in 0..((e - s) % Moments)}
<1> USE GameAssumption
<1>1. CASE s < e
  <2>1. (e - s) % Moments = e - s
    <3>1. e - s \in Int /\ 0 <= e - s /\ e - s < Moments
      BY <1>1
    <3> QED
      BY <3>1, Remainder
  <2>2. n - s \in 0..(e - s) /\ s + (n - s) = n
    BY <1>1 DEF InRange
  <2> QED
    BY <2>1, <2>2
<1>2. CASE e < s
  <2>1. (e - s) % Moments = e - s + Moments
    <3>1. e - s \in Int /\ -Moments <= e - s /\ e - s < 0
      BY <1>2
    <3> QED
      BY <3>1, Remainder
  <2>2. CASE n > s
    <3>1. n - s \in 0..(e - s + Moments) /\ s + (n - s) = n
      BY <2>2
    <3> QED
      BY <2>1, <3>1
  <2>3. CASE n < e
    <3>1. n - s + Moments \in 0..(e - s + Moments) /\ s + (n - s + Moments) = n + Moments
      BY <2>3, <1>2
    <3>2. (n + Moments) % Moments = n /\ n % Moments = n
      <4>1. /\ n + Moments \in Int /\ Moments <= n + Moments /\ n + Moments < 2 * Moments
            /\ n \in Int /\ 0 <= n /\ n < Moments
        BY <2>3
      <4>2. (n + Moments) % Moments = n + Moments - Moments
        <5> DEFINE x == n + Moments
        <5>1. x \in Int /\ Moments <= x /\ x < 2 * Moments
          BY <4>1
        <5> HIDE DEF x
        <5>2. x % Moments = x - Moments
          BY <5>1, Remainder
        <5> QED
          BY <5>2 DEF x
      <4>3. n % Moments = n
        BY <4>1, Remainder
      <4> QED
        BY <4>1, <4>2, <4>3
    <3> QED
      BY <2>1, <3>1, <3>2
  <2> QED
    BY <1>2, <2>2, <2>3 DEF InRange
<1> QED
  BY <1>1, <1>2

\* So the answers fit together.
LEMMA WindowsFit == CheckFits => WindowsWrap
<1> SUFFICES ASSUME CheckFits, check # NoCheck PROVE WindowsWrap
  BY DEF WindowsWrap
<1> DEFINE s == check.start
           e == check.end
           n == check.now
<1>1. s \in 1..Moments /\ e \in 1..Moments /\ n \in 1..Moments /\ check.dateOK \in BOOLEAN
  BY DEF CheckFits, Checks
<1>2. check.answer = TimeCheck(s, e, check.mode, check.dateOK, n)
  BY DEF CheckFits
<1>3. check.mode = "in" => check.answer # TimeCheck(s, e, "out", check.dateOK, n)
  BY <1>1, <1>2 DEF TimeCheck, InRange
<1>4. check.dateOK /\ s # e /\ check.mode = "in" =>
        check.answer # TimeCheck(e, s, "in", check.dateOK, n)
  BY <1>1, <1>2, GameAssumption DEF TimeCheck, InRange
<1>5. check.mode = "in" /\ check.answer /\ s # e =>
        n % Moments \in {(s + k) % Moments : k \in 0..((e - s) % Moments)}
  <2>1. check.mode = "in" /\ check.answer => InRange(s, e, n)
    BY <1>2 DEF TimeCheck
  <2> QED
    BY <1>1, <2>1, BetweenEnds
<1> QED
  BY <1>3, <1>4, <1>5 DEF WindowsWrap

\* What Total adds up to
Sums(w, f) == f = [i \in 0..Len(w) |-> IF i = 0 THEN 0 ELSE f[i - 1] + w[i]]

\* There are sums up to any m: without a first m that has none there is none.
LEMMA SumsTo ==
  ASSUME NEW w \in Seq(Nat), NEW m \in 0..Len(w)
  PROVE  \E f \in [0..Len(w) -> Nat] : f[0] = 0 /\ \A i \in 1..m : f[i] = f[i - 1] + w[i]
<1> DEFINE Upto(k) == \E f \in [0..Len(w) -> Nat] : f[0] = 0 /\ \A i \in 1..k : f[i] = f[i - 1] + w[i]
           T == {k \in Nat : k <= Len(w) /\ ~Upto(k)}
<1>1. ASSUME T # {} PROVE FALSE
  <2>1. PICK k \in T : \A j \in T : k <= j
    <3>1. T \in SUBSET Nat
      OBVIOUS
    <3> HIDE DEF T
    <3> QED
      BY <1>1, <3>1, LeastOf
  <2>2. k \in Nat /\ k <= Len(w) /\ ~Upto(k)
    BY <2>1
  <2>3. CASE k = 0
    <3> DEFINE g == [i \in 0..Len(w) |-> 0]
    <3>1. g \in [0..Len(w) -> Nat] /\ g[0] = 0
      BY <2>2
    <3>2. \A i \in 1..k : g[i] = g[i - 1] + w[i]
      BY <2>3
    <3> QED
      BY <2>2, <3>1, <3>2
  <2>4. CASE k # 0
    <3>1. k - 1 \in Nat /\ k - 1 <= Len(w) /\ ~(k <= k - 1)
      BY <2>2, <2>4
    <3>2. Upto(k - 1)
      BY <2>1, <3>1
    <3>3. PICK f \in [0..Len(w) -> Nat] : f[0] = 0 /\ \A i \in 1..(k - 1) : f[i] = f[i - 1] + w[i]
      BY <3>2
    <3> DEFINE g == [f EXCEPT ![k] = f[k - 1] + w[k]]
    <3>4. k \in 1..Len(w) /\ w[k] \in Nat /\ f[k - 1] \in Nat
      BY <2>2, <2>4
    <3>5. g \in [0..Len(w) -> Nat] /\ g[0] = 0 /\ \A i \in 1..k : g[i] = g[i - 1] + w[i]
      <4>1. f[k - 1] + w[k] \in Nat
        BY <3>4
      <4>2. g \in [0..Len(w) -> Nat]
        BY <4>1, <3>3
      <4>3. g[0] = 0
        BY <3>3, <3>4
      <4>4. g[k] = g[k - 1] + w[k]
        BY <3>3, <3>4, <3>1
      <4>5. ASSUME NEW i \in 1..k, i # k PROVE g[i] = g[i - 1] + w[i]
        <5>1. i \in 1..(k - 1) /\ i \in 0..Len(w) /\ i - 1 \in 0..Len(w) /\ i - 1 # k
          BY <4>5, <3>4
        <5>2. g[i] = f[i] /\ g[i - 1] = f[i - 1]
          BY <4>5, <5>1, <3>3
        <5> QED
          BY <5>1, <5>2, <3>3
      <4> QED
        BY <4>2, <4>3, <4>4, <4>5
    <3> QED
      BY <2>2, <3>5
  <2> QED
    BY <2>3, <2>4
<1>2. Upto(m)
  BY <1>1
<1> QED
  BY <1>2

\* So Total is what its definition says, and a number.
LEMMA TotalAdds ==
  ASSUME NEW w \in Seq(Nat)
  PROVE  /\ \A i \in 0..Len(w) : Total(w, i) \in Nat
         /\ Total(w, 0) = 0
         /\ \A i \in 1..Len(w) : Total(w, i) = Total(w, i - 1) + w[i]
<1>1. PICK f \in [0..Len(w) -> Nat] : f[0] = 0 /\ \A i \in 1..Len(w) : f[i] = f[i - 1] + w[i]
  BY SumsTo
<1>2. Sums(w, f)
  BY <1>1 DEF Sums
<1> DEFINE sum == CHOOSE g : Sums(w, g)
<1>3. Sums(w, sum)
  BY <1>2
<1>4. \A i : Total(w, i) = sum[i]
  BY DEF Total, Sums
<1> HIDE DEF sum
<1>5. sum[0] = 0 /\ \A i \in 1..Len(w) : sum[i] = sum[i - 1] + w[i]
  <2>1. Len(w) \in Nat
    OBVIOUS
  <2>2. \A i \in 0..Len(w) : sum[i] = IF i = 0 THEN 0 ELSE sum[i - 1] + w[i]
    BY <1>3 DEF Sums
  <2> QED
    BY <2>1, <2>2
<1> DEFINE T == {k \in Nat : k <= Len(w) /\ sum[k] # f[k]}
<1>6. ASSUME T # {} PROVE FALSE
  <2>1. PICK k \in T : \A j \in T : k <= j
    <3>1. T \in SUBSET Nat
      OBVIOUS
    <3> HIDE DEF T
    <3> QED
      BY <1>6, <3>1, LeastOf
  <2>2. k \in 1..Len(w) /\ sum[k] # f[k]
    BY <2>1, <1>5, <1>1
  <2>3. k - 1 \in Nat /\ k - 1 <= Len(w) /\ ~(k <= k - 1)
    BY <2>2
  <2>4. sum[k - 1] = f[k - 1]
    BY <2>1, <2>3
  <2> QED
    BY <2>2, <2>4, <1>5, <1>1
<1>7. \A k \in 0..Len(w) : sum[k] = f[k]
  BY <1>6
<1> HIDE DEF T
<1>8. \A k \in 0..Len(w) : sum[k] \in Nat
  BY <1>7
<1> QED
  BY <1>4, <1>5, <1>8

\* One step of RandomTask: the chosen index is the first whose sum reaches the draw, so its
\* own weight is what carried the sum over the draw.
LEMMA PickKept == RandomNext => WeightCounts'
<1>1. ASSUME NEW n \in 1..3, NEW w \in [1..n -> Weights], NEW r \in 0..11, RandomTask(w, r)
      PROVE  WeightCounts'
  <2>1. w \in Seq(Nat) /\ Len(w) = n /\ DOMAIN w = 1..n
    <3>1. w \in [1..n -> Nat] /\ n \in Nat
      <4>1. \A i \in 1..n : w[i] \in Nat
        BY GameAssumption
      <4> QED
        BY <4>1
    <3>2. w \in Seq(Nat)
      BY <3>1
    <3>3. Len(w) = n
      BY <3>1, <3>2
    <3> QED
      BY <3>1, <3>2, <3>3
  <2> DEFINE T == {i \in 1..n : r <= Total(w, i)}
  <2>2. /\ \A i \in 0..n : Total(w, i) \in Nat
        /\ Total(w, 0) = 0 /\ \A i \in 1..n : Total(w, i) = Total(w, i - 1) + w[i]
    BY <2>1, TotalAdds
  <2>3. n \in T
    BY <1>1, <2>1, <2>2 DEF RandomTask
  <2>4. PICK m \in T : \A j \in T : m <= j
    <3>1. T \in SUBSET Nat /\ T # {}
      BY <2>3
    <3> HIDE DEF T
    <3> QED
      BY <3>1, LeastOf
  <2>5. \A j \in 1..(m - 1) : r > Total(w, j)
    BY <2>2, <2>4
  <2> DEFINE c == WeightedRandomChoice(w, r)
  <2>6. c \in 1..n /\ r <= Total(w, c) /\ \A j \in 1..(c - 1) : r > Total(w, j)
    BY <2>1, <2>4, <2>5 DEF WeightedRandomChoice
  <2>7. pick' = [weights |-> w, r |-> r, chosen |-> c]
    BY <1>1 DEF RandomTask
  <2> HIDE DEF c, T
  <2>8. w[c] > 0 \/ r = 0
    <3>1. CASE c = 1
      <4>1. Total(w, 1) = w[1]
        BY <2>2, <2>1
      <4> QED
        BY <2>6, <3>1, <4>1, <2>2
    <3>2. CASE c # 1
      <4>1. c - 1 \in 1..(c - 1) /\ c - 1 \in 0..n
        BY <2>6, <3>2
      <4>2. r > Total(w, c - 1) /\ Total(w, c) = Total(w, c - 1) + w[c] /\ Total(w, c - 1) \in Nat
        BY <2>6, <2>2, <4>1
      <4>3. w[c] \in Nat
        BY <2>6, <2>1
      <4> QED
        BY <2>6, <4>2, <4>3
    <3> QED
      BY <3>1, <3>2
  <2> QED
    BY <2>7, <2>8 DEF WeightCounts
<1> QED
  BY <1>1 DEF RandomNext

-----------------------------------------------------------------------------
(* What a script that runs a list of tasks plans, and what a plan makes of the game *)

\* Names of tasks, and what tasks come to
Names == Jobs \cup {Default}
Outcomes == {"done", "failed", "error"}
\* The tasks that the scripts run, and what they change in the game
Steps ==
  [task : {"run", "clear", "preset"}, arg : Names]
    \cup [task : {"find", "fight"}, arg : Int \cup {Default}]
    \cup [task : {"cancel", "start", "edit", "digit", "confirm"}, arg : 0..9]
    \cup [task : {"toggle"}, arg : Bonuses \X BOOLEAN]
Games == [bonus : [Bonuses -> BOOLEAN], number : Seq(0..9), typed : Seq(0..9),
          fought : SUBSET (Int \cup {Default}), cleared : SUBSET Names, team : Names]

\* What each script plans for what it is asked: m tasks, one after the other.
\* LoopAction: the list, n times
LoopPlan(asked, full, m) ==
  \E jobs \in ListsOf(Jobs), n \in Nat :
    /\ asked = <<jobs, n>> /\ jobs # <<>> /\ m = n * Len(jobs)
    /\ \A k \in 1..m : full[k] = Task("run", jobs[((k - 1) % Len(jobs)) + 1])

\* Which boss is the i-th
Place(isReward, i) == IF ~isReward THEN i - 1 ELSE IF i = 1 THEN Default ELSE i - 2
\* ChallengeDungeonBoss: finds and fights each one.
BossPlan(asked, full, m) ==
  \E count \in Nat, isReward \in BOOLEAN :
    /\ asked = <<count>> /\ m = 2 * count
    /\ \A k \in 1..m : full[k] = Task(IF k % 2 = 1 THEN "find" ELSE "fight",
                                      Place(isReward, (k + 1) \div 2))

\* Typing a number: after the first task comes the field, then digit by digit, then the button.
Typing(e, full, m) ==
  /\ m = Len(e) + 3
  /\ full[2] = Task("edit", 0) /\ full[m] = Task("confirm", 0)
  /\ \A i \in 1..Len(e) : full[i + 2] = Task("digit", e[i])

\* RepeatChallengeNTimes: switches off, or switches on with ten as it is or with a number typed in.
RepeatPlan(asked, full, m) ==
  \E startRepeat \in BOOLEAN, e \in Seq(0..9) :
    /\ asked = <<startRepeat, e>>
    /\ \A k \in 1..m : full[k].task \in {"cancel", "start", "edit", "digit", "confirm"}
    /\ startRepeat /\ e # TenTimes => Typing(e, full, m)

\* BonusToggle: one task for each bonus, no bonus twice
BonusPlan(asked, full, m) ==
  /\ asked \in [1..m -> Bonuses \X BOOLEAN]
  /\ \A k \in 1..m : full[k] = Task("toggle", asked[k])
  /\ \A j, k \in 1..m : asked[j][1] = asked[k][1] => j = k

\* ClearHitCount: one task for each name
ClearPlan(asked, full, m) ==
  asked \in [1..m -> Names] /\ \A k \in 1..m : full[k] = Task("clear", asked[k])

\* BattleTeam: one task, by the name of the team or by its alias
TeamPlan(asked, full, m) ==
  \E team, alias \in Names :
    /\ asked = <<team, alias>> /\ m = 1
    /\ full[1] = Task("preset", IF team = Default THEN alias ELSE team)

\* The plan of a script
Expected(name, asked, full, m) ==
  \/ name = "LoopAction" /\ LoopPlan(asked, full, m)
  \/ name = "ChallengeDungeonBoss" /\ BossPlan(asked, full, m)
  \/ name = "RepeatChallengeNTimes" /\ RepeatPlan(asked, full, m)
  \/ name = "BonusToggle" /\ BonusPlan(asked, full, m)
  \/ name = "ClearHitCount" /\ ClearPlan(asked, full, m)
  \/ name = "BattleTeam" /\ TeamPlan(asked, full, m)

\* The arguments of the tasks of a kind, among the first d
Of(full, d, kind) == {full[i].arg : i \in {j \in 1..d : full[j].task = kind}}
\* How much of the number e has been typed in after d tasks, and when it is confirmed
Typed(g, e, d) ==
  /\ 2 <= d /\ d <= Len(e) + 2 => Len(g.typed) = d - 2 /\ \A i \in 1..(d - 2) : g.typed[i] = e[i]
  /\ d = Len(e) + 3 => g.number = e

\* What the game has become by the first d tasks of a plan
GameIs(g, name, asked, full, d) ==
  /\ g.fought = Of(full, d, "fight") /\ g.cleared = Of(full, d, "clear")
  /\ \A i \in 1..d :
       /\ full[i].task = "toggle" => g.bonus[full[i].arg[1]] = full[i].arg[2]
       /\ full[i].task = "preset" => g.team = full[i].arg
  /\ name = "RepeatChallengeNTimes" /\ asked[1] /\ asked[2] # TenTimes => Typed(g, asked[2], d)

\* One task more
LEMMA OfNext ==
  ASSUME NEW full, NEW d \in Nat, NEW kind
  PROVE  Of(full, d + 1, kind) = Of(full, d, kind) \cup
           (IF full[d + 1].task = kind THEN {full[d + 1].arg} ELSE {})
<1>1. 1..(d + 1) = (1..d) \cup {d + 1}
  OBVIOUS
<1>2. {j \in 1..(d + 1) : full[j].task = kind} = {j \in 1..d : full[j].task = kind} \cup
        (IF full[d + 1].task = kind THEN {d + 1} ELSE {})
  BY <1>1
<1> QED
  BY <1>2 DEF Of

\* The effect of a task keeps the types of the game.
LEMMA EffectTyped ==
  ASSUME game \in Games, NEW t \in Steps, Effect(t)
  PROVE  game' \in Games
<1>1. CASE t.task = "fight"
  BY <1>1 DEF Effect, Games, Steps
<1>2. CASE t.task = "edit"
  <2>1. game' = [game EXCEPT !.typed = <<>>] /\ <<>> \in Seq(0..9)
    BY <1>2 DEF Effect
  <2> QED
    BY <2>1 DEF Games
<1>3. CASE t.task = "digit"
  <2>1. t.arg \in 0..9
    BY <1>3 DEF Steps
  <2>2. Append(game.typed, t.arg) \in Seq(0..9)
    BY <2>1 DEF Games
  <2> QED
    BY <1>3, <2>2 DEF Effect, Games
<1>4. CASE t.task = "confirm"
  BY <1>4 DEF Effect, Games, Steps
<1>5. CASE t.task = "toggle"
  <2>1. t.arg[1] \in Bonuses /\ t.arg[2] \in BOOLEAN
    BY <1>5 DEF Steps
  <2>2. [game.bonus EXCEPT ![t.arg[1]] = t.arg[2]] \in [Bonuses -> BOOLEAN]
    BY <2>1 DEF Games
  <2> QED
    BY <1>5, <2>2 DEF Effect, Games
<1>6. CASE t.task = "clear"
  BY <1>6 DEF Effect, Games, Steps
<1>7. CASE t.task = "preset"
  BY <1>7 DEF Effect, Games, Steps
<1>8. CASE t.task \notin {"fight", "edit", "digit", "confirm", "toggle", "clear", "preset"}
  BY <1>8 DEF Effect
<1> QED
  BY <1>1, <1>2, <1>3, <1>4, <1>5, <1>6, <1>7, <1>8

\* What each part of the game is after the effect of a task
LEMMA EffectSays ==
  ASSUME game \in Games, NEW t \in Steps, Effect(t)
  PROVE  /\ game'.fought = game.fought \cup (IF t.task = "fight" THEN {t.arg} ELSE {})
         /\ game'.cleared = game.cleared \cup (IF t.task = "clear" THEN {t.arg} ELSE {})
         /\ game'.typed = IF t.task = "edit" THEN <<>>
                          ELSE IF t.task = "digit" THEN Append(game.typed, t.arg) ELSE game.typed
         /\ game'.number = IF t.task = "confirm" THEN game.typed ELSE game.number
         /\ game'.team = IF t.task = "preset" THEN t.arg ELSE game.team
         /\ \A b \in Bonuses :
              game'.bonus[b] = IF t.task = "toggle" /\ t.arg[1] = b THEN t.arg[2] ELSE game.bonus[b]
<1>1. CASE t.task = "fight"
  BY <1>1 DEF Effect, Games
<1>2. CASE t.task = "edit"
  BY <1>2 DEF Effect, Games
<1>3. CASE t.task = "digit"
  BY <1>3 DEF Effect, Games
<1>4. CASE t.task = "confirm"
  BY <1>4 DEF Effect, Games
<1>5. CASE t.task = "toggle"
  BY <1>5 DEF Effect, Games
<1>6. CASE t.task = "clear"
  BY <1>6 DEF Effect, Games
<1>7. CASE t.task = "preset"
  BY <1>7 DEF Effect, Games
<1>8. CASE t.task \notin {"fight", "edit", "digit", "confirm", "toggle", "clear", "preset"}
  BY <1>8 DEF Effect
<1> QED
  BY <1>1, <1>2, <1>3, <1>4, <1>5, <1>6, <1>7, <1>8

\* Only BonusToggle's plan switches bonuses, and only BattleTeam's equips a team.
LEMMA KindOf ==
  ASSUME NEW m \in Nat, NEW full, NEW name, NEW asked, Expected(name, asked, full, m),
         NEW k \in 1..m
  PROVE  /\ full[k].task = "toggle" => BonusPlan(asked, full, m)
         /\ full[k].task = "preset" => TeamPlan(asked, full, m)
<1>1. CASE LoopPlan(asked, full, m)
  <2>1. PICK jobs \in ListsOf(Jobs) : full[k] = Task("run", jobs[((k - 1) % Len(jobs)) + 1])
    BY <1>1 DEF LoopPlan
  <2>2. full[k].task = "run"
    BY <2>1 DEF Task
  <2> QED
    BY <2>2
<1>2. CASE BossPlan(asked, full, m)
  <2>1. PICK r \in BOOLEAN : full[k] = Task(IF k % 2 = 1 THEN "find" ELSE "fight",
                                           Place(r, (k + 1) \div 2))
    BY <1>2 DEF BossPlan
  <2>2. full[k].task = IF k % 2 = 1 THEN "find" ELSE "fight"
    BY <2>1 DEF Task
  <2> QED
    BY <2>2
<1>3. CASE RepeatPlan(asked, full, m)
  <2>1. full[k].task \in {"cancel", "start", "edit", "digit", "confirm"}
    BY <1>3 DEF RepeatPlan
  <2> QED
    BY <2>1
<1>4. CASE ClearPlan(asked, full, m)
  <2>1. full[k] = Task("clear", asked[k])
    BY <1>4 DEF ClearPlan
  <2>2. full[k].task = "clear"
    BY <2>1 DEF Task
  <2> QED
    BY <2>2
<1>5. CASE BonusPlan(asked, full, m)
  <2>1. full[k] = Task("toggle", asked[k])
    BY <1>5 DEF BonusPlan
  <2>2. full[k].task = "toggle"
    BY <2>1 DEF Task
  <2> QED
    BY <1>5, <2>2
<1>6. CASE TeamPlan(asked, full, m)
  <2>1. full[k].task = "preset"
    BY <1>6 DEF TeamPlan, Task
  <2> QED
    BY <1>6, <2>1
<1> QED
  BY <1>1, <1>2, <1>3, <1>4, <1>5, <1>6 DEF Expected

\* The next task of a plan, when it has its effect, makes of the game what the plan says.
LEMMA EffectFits ==
  ASSUME game \in Games, NEW m \in Nat, NEW full \in [1..m -> Steps], NEW d \in Nat, d < m,
         NEW name, NEW asked, Expected(name, asked, full, m),
         GameIs(game, name, asked, full, d), Effect(full[d + 1])
  PROVE  GameIs(game', name, asked, full, d + 1)
<1> DEFINE t == full[d + 1]
<1>1. t \in Steps /\ d + 1 \in 1..m
  OBVIOUS
<1>2. /\ game'.fought = game.fought \cup (IF t.task = "fight" THEN {t.arg} ELSE {})
      /\ game'.cleared = game.cleared \cup (IF t.task = "clear" THEN {t.arg} ELSE {})
      /\ game'.typed = IF t.task = "edit" THEN <<>>
                       ELSE IF t.task = "digit" THEN Append(game.typed, t.arg) ELSE game.typed
      /\ game'.number = IF t.task = "confirm" THEN game.typed ELSE game.number
      /\ game'.team = IF t.task = "preset" THEN t.arg ELSE game.team
      /\ \A b \in Bonuses :
           game'.bonus[b] = IF t.task = "toggle" /\ t.arg[1] = b THEN t.arg[2] ELSE game.bonus[b]
  BY <1>1, EffectSays
<1>3. game'.fought = Of(full, d + 1, "fight") /\ game'.cleared = Of(full, d + 1, "clear")
  BY <1>2, OfNext DEF GameIs
<1>4. ASSUME NEW i \in 1..(d + 1), full[i].task = "toggle"
      PROVE  game'.bonus[full[i].arg[1]] = full[i].arg[2]
  <2>1. full[i].arg[1] \in Bonuses /\ i \in 1..m
    BY <1>4 DEF Steps
  <2>2. CASE i = d + 1
    BY <1>2, <1>4, <2>1, <2>2
  <2>3. CASE i \in 1..d
    <3>1. ~(t.task = "toggle" /\ t.arg[1] = full[i].arg[1])
      <4>1. ASSUME t.task = "toggle" PROVE BonusPlan(asked, full, m)
        BY <1>1, <4>1, KindOf
      <4> QED
        BY <2>1, <2>3, <1>1, <4>1 DEF BonusPlan, Task
    <3>2. game.bonus[full[i].arg[1]] = full[i].arg[2]
      BY <1>4, <2>3 DEF GameIs
    <3> QED
      BY <1>2, <2>1, <3>1, <3>2
  <2> QED
    BY <2>2, <2>3
<1>5. ASSUME NEW i \in 1..(d + 1), full[i].task = "preset" PROVE game'.team = full[i].arg
  <2>1. TeamPlan(asked, full, m)
    <3>1. i \in 1..m
      OBVIOUS
    <3> QED
      BY <1>5, <3>1, KindOf
  <2>2. m = 1
    BY <2>1 DEF TeamPlan
  <2>3. i = d + 1
    BY <2>2
  <2> QED
    BY <1>2, <1>5, <2>3
<1>6. ASSUME name = "RepeatChallengeNTimes", asked[1], asked[2] # TenTimes
      PROVE  Typed(game', asked[2], d + 1)
  <2> DEFINE e == asked[2]
  <2>1. e \in Seq(0..9) /\ Typing(e, full, m)
    BY <1>6 DEF Expected, RepeatPlan
  <2>2. Typed(game, e, d)
    BY <1>6 DEF GameIs
  <2> SUFFICES Typed(game', e, d + 1)
    OBVIOUS
  <2> HIDE DEF e
  <2>7. Len(e) \in Nat
    BY <2>1
  <2>3. CASE d + 1 = 2
    <3>1. t.task = "edit"
      BY <2>1, <2>3 DEF Typing, Task
    <3> QED
      BY <1>2, <2>1, <2>3, <3>1 DEF Typed
  <2>4. CASE 2 <= d /\ d <= Len(e) + 1
    <3>1. t = Task("digit", e[d - 1])
      <4>1. d - 1 \in 1..Len(e) /\ (d - 1) + 2 = d + 1
        BY <2>1, <2>4
      <4> QED
        BY <2>1, <4>1 DEF Typing
    <3>2. Len(game.typed) = d - 2 /\ \A i \in 1..(d - 2) : game.typed[i] = e[i]
      BY <2>1, <2>2, <2>4 DEF Typed
    <3>3. game'.typed = Append(game.typed, e[d - 1]) /\ game.typed \in Seq(0..9)
      BY <1>2, <3>1 DEF Task, Games
    <3>4. e[d - 1] \in 0..9
      BY <2>1, <2>4
    <3>5. Len(game'.typed) = d - 1 /\ \A i \in 1..(d - 1) : game'.typed[i] = e[i]
      BY <3>2, <3>3, <3>4
    <3> QED
      <4>1. d + 1 # Len(e) + 3 /\ d + 1 - 2 = d - 1
        BY <2>4, <2>7
      <4> QED
        BY <2>7, <3>5, <4>1 DEF Typed
  <2>5. CASE d + 1 = Len(e) + 3
    <3>1. t.task = "confirm"
      BY <2>1, <2>5 DEF Typing, Task
    <3>2. Len(game.typed) = Len(e) /\ \A i \in 1..Len(e) : game.typed[i] = e[i]
      BY <2>1, <2>2, <2>5 DEF Typed
    <3>3. game.typed = e
      <4>1. game.typed \in Seq(0..9)
        BY DEF Games
      <4> QED
        BY <2>1, <3>2, <4>1
    <3> QED
      <4>1. game'.number = e
        BY <1>2, <3>1, <3>3
      <4>2. ~(d + 1 <= Len(e) + 2)
        BY <2>5, <2>7
      <4> QED
        BY <2>7, <4>1, <4>2 DEF Typed
  <2>6. CASE d = 0
    <3>1. ~(2 <= d + 1) /\ d + 1 # Len(e) + 3
      BY <2>6, <2>7
    <3> QED
      BY <3>1 DEF Typed
  <2> QED
    <3>1. m = Len(e) + 3 /\ Len(e) \in Nat
      BY <2>1 DEF Typing
    <3>2. d = 0 \/ d + 1 = 2 \/ (2 <= d /\ d <= Len(e) + 1) \/ d + 1 = Len(e) + 3
      BY <3>1
    <3> QED
      BY <3>2, <2>3, <2>4, <2>5, <2>6
<1> QED
  BY <1>3, <1>4, <1>5, <1>6 DEF GameIs

-----------------------------------------------------------------------------
(* A script at work on its plan                                             *)

\* A script at work, or the last one
Batches(b) == b = [script |-> b.script, asked |-> b.asked, plan |-> b.plan, done |-> b.done,
                   answer |-> b.answer]
AllDone(b) == \A i \in 1..Len(b.done) : b.done[i][2] = "done"
ErredIn(b) == \E i \in 1..Len(b.done) : b.done[i][2] = "error"
\* What is done is a beginning of the plan, and what is left to do is the rest of it, unless
\* an error has ended the script.
Follows(b, full, m) ==
  /\ b.plan \in Seq(Steps) /\ b.done \in Seq(Steps \X Outcomes) /\ Len(b.done) <= m
  /\ \A i \in 1..Len(b.done) : b.done[i][1] = full[i]
  /\ IF ErredIn(b) /\ b.script \in StopsOnError THEN b.plan = <<>>
     ELSE /\ Len(b.done) + Len(b.plan) = m
          /\ \A i \in 1..Len(b.plan) : b.plan[i] = full[Len(b.done) + i]
  /\ b.script \in StopsOnError =>
       \A i \in 1..Len(b.done) : b.done[i][2] = "error" => i = Len(b.done)

\* A script has answered when nothing is left to do, and tells of errors if it does that.
HasAnswered(b) ==
  b.answer # "none" =>
    b.plan = <<>> /\ (b.script \in TellsErrors => (b.answer = "no" <=> ErredIn(b)))

\* A script that refused what it was asked
RefusedBatch == batch.plan = <<>> /\ batch.done = <<>> /\ batch.answer = "no"
\* A script works on a plan for what it was asked, and unless a task failed, the game is what
\* the tasks done make of it.
AtWork(full, m) ==
  /\ Expected(batch.script, batch.asked, full, m)
  /\ Follows(batch, full, m) /\ HasAnswered(batch)
  /\ AllDone(batch) => GameIs(game, batch.script, batch.asked, full, Len(batch.done))

\* The invariant of the scripts that run lists of tasks
BatchInv ==
  /\ Batches(batch) /\ batch.answer \in {"none", "yes", "no"} /\ game \in Games
  /\ \/ batch = NoBatch /\ game.fought = {} /\ game.cleared = {}
     \/ batch.script # "none" /\ RefusedBatch
     \/ batch.script # "none" /\ \E m \in Nat : \E full \in [1..m -> Steps] : AtWork(full, m)

\* A function on 1..m is a sequence.
LEMMA AsSequence ==
  ASSUME NEW S, NEW m \in Nat, NEW f \in [1..m -> S]
  PROVE  f \in Seq(S) /\ Len(f) = m /\ DOMAIN f = 1..m
OBVIOUS

\* A script that refuses
LEMMA RefusedFits ==
  ASSUME BatchInv, NEW name, name # "none", NEW asked, Start(Refused(name, asked)), game' \in Games
  PROVE  BatchInv'
BY DEF BatchInv, Start, Refused, NoBatch, RefusedBatch, Batches

\* A script that begins with the plan it should have
LEMMA PlannedFits ==
  ASSUME BatchInv, NEW name, name # "none", NEW asked, NEW m \in Nat, NEW full \in [1..m -> Steps],
         Start(Planned(name, asked, full)), Expected(name, asked, full, m),
         game' \in Games, game'.fought = game.fought, game'.cleared = game.cleared
  PROVE  BatchInv'
<1>1. batch = NoBatch /\ game.fought = {} /\ game.cleared = {}
  <2>1. batch = NoBatch
    BY DEF Start
  <2>2. batch.script = "none"
    BY <2>1 DEF NoBatch
  <2> QED
    BY <2>1, <2>2 DEF BatchInv
<1>2. /\ batch' = [script |-> name, asked |-> asked, plan |-> full, done |-> <<>>, answer |-> "none"]
  BY DEF Start, Planned, NoBatch
<1>3. full \in Seq(Steps) /\ Len(full) = m
  BY AsSequence
<1>4. <<>> \in Seq(Steps \X Outcomes) /\ Len(<<>>) = 0
  OBVIOUS
<1>5. Follows(batch', full, m)
  <2>1. ~ErredIn(batch')
    BY <1>2 DEF ErredIn
  <2> QED
    BY <1>2, <1>3, <1>4, <2>1 DEF Follows
<1>6. GameIs(game', name, asked, full, 0)
  BY <1>1 DEF GameIs, Of, Typed
<1>7. AtWork(full, m)'
  <2>1. HasAnswered(batch')
    BY <1>2 DEF HasAnswered
  <2>2. batch.script' = name /\ batch.asked' = asked /\ Len(batch.done') = 0
    BY <1>2
  <2> QED
    BY <1>5, <1>6, <2>1, <2>2 DEF AtWork
<1> QED
  BY <1>2, <1>7 DEF BatchInv, Batches

\* A task of the plan is run, whatever it comes to.
LEMMA TaskRunFits ==
  ASSUME NEW outcome \in Outcomes
  PROVE  BatchInv /\ RunTaskOf(outcome) => BatchInv'
<1> SUFFICES ASSUME BatchInv, RunTaskOf(outcome) PROVE BatchInv'
  OBVIOUS
<1>1. PICK m \in Nat : \E full \in [1..m -> Steps] : AtWork(full, m)
  <2>1. batch.plan # <<>>
    BY DEF RunTaskOf
  <2>2. batch # NoBatch /\ ~RefusedBatch
    BY <2>1 DEF NoBatch, RefusedBatch
  <2> QED
    BY <2>2 DEF BatchInv
<1>2. PICK full \in [1..m -> Steps] : AtWork(full, m)
  BY <1>1
<1> DEFINE t == Head(batch.plan)
           d == Len(batch.done)
           stops == outcome = "error" /\ batch.script \in StopsOnError
<1>3. /\ batch.plan # <<>> /\ batch.plan \in Seq(Steps) /\ batch.done \in Seq(Steps \X Outcomes)
      /\ \A i \in 1..d : batch.done[i][1] = full[i]
      /\ ~(ErredIn(batch) /\ batch.script \in StopsOnError)
      /\ d + Len(batch.plan) = m /\ d \in Nat
      /\ \A i \in 1..Len(batch.plan) : batch.plan[i] = full[d + i]
      /\ batch.answer = "none"
  <2>1. batch.plan # <<>>
    BY DEF RunTaskOf
  <2>2. Follows(batch, full, m) /\ HasAnswered(batch)
    BY <1>2 DEF AtWork
  <2>3. batch.plan \in Seq(Steps) /\ batch.done \in Seq(Steps \X Outcomes) /\ d \in Nat
    BY <2>2 DEF Follows
  <2>4. ~(ErredIn(batch) /\ batch.script \in StopsOnError) /\ batch.answer \in {"none", "yes", "no"}
    BY <2>1, <2>2 DEF Follows, BatchInv
  <2> QED
    BY <2>1, <2>2, <2>3, <2>4 DEF Follows, HasAnswered
<1>4. /\ t = full[d + 1] /\ d < m /\ t \in Steps
      /\ Tail(batch.plan) \in Seq(Steps) /\ Len(Tail(batch.plan)) = Len(batch.plan) - 1
      /\ \A i \in 1..(Len(batch.plan) - 1) : Tail(batch.plan)[i] = batch.plan[i + 1]
  <2>1. batch.plan \in Seq(Steps) /\ Len(batch.plan) \in Nat \ {0}
    BY <1>3
  <2>4. d + Len(batch.plan) = m /\ d \in Nat
    BY <1>3
  <2>2. t = batch.plan[1] /\ d < m /\ 1 \in 1..Len(batch.plan)
    <3>3. 1 \in 1..Len(batch.plan)
      BY <2>1
    <3>4. \A a \in Nat, b \in Nat \ {0} : a + b = m => a < m
      OBVIOUS
    <3>5. d < m
      BY <2>1, <2>4, <3>4
    <3>1. d < m /\ 1 \in 1..Len(batch.plan)
      BY <3>3, <3>5
    <3>2. t = batch.plan[1]
      BY <2>1
    <3> QED
      BY <3>1, <3>2
  <2>3. t = full[d + 1] /\ t \in Steps
    BY <1>3, <2>1, <2>2
  <2> QED
    BY <2>1, <2>2, <2>3
<1>5. batch' = [script |-> batch.script, asked |-> batch.asked,
                plan |-> IF stops THEN <<>> ELSE Tail(batch.plan),
                done |-> Append(batch.done, <<t, outcome>>), answer |-> batch.answer]
  BY DEF RunTaskOf, BatchInv, Batches
<1>6. game' \in Games
  BY <1>4, EffectTyped DEF RunTaskOf, BatchInv
<1>7. /\ batch.done' \in Seq(Steps \X Outcomes) /\ Len(batch.done') = d + 1
      /\ batch.done'[d + 1] = <<t, outcome>>
      /\ \A i \in 1..d : batch.done'[i] = batch.done[i]
  BY <1>3, <1>4, <1>5
<1> HIDE DEF t, d
<1>8. Follows(batch', full, m)
  <2>1. \A i \in 1..(d + 1) : batch.done'[i][1] = full[i]
    <3>1. \A i \in 1..d : batch.done'[i][1] = full[i]
      BY <1>3, <1>7 DEF d
    <3>2. batch.done'[d + 1][1] = full[d + 1]
      BY <1>4, <1>7
    <3> QED
      BY <1>3, <3>1, <3>2
  <2>2. ErredIn(batch') <=> ErredIn(batch) \/ outcome = "error"
    <3>1. ErredIn(batch') <=> \E i \in 1..(d + 1) : batch.done'[i][2] = "error"
      BY <1>7 DEF ErredIn
    <3>2. ErredIn(batch) <=> \E i \in 1..d : batch.done[i][2] = "error"
      BY DEF ErredIn, d
    <3>3. batch.done'[d + 1][2] = outcome
      BY <1>7
    <3>4. \A i : i \in 1..(d + 1) <=> i \in 1..d \/ i = d + 1
      BY <1>3
    <3> QED
      BY <1>7, <3>1, <3>2, <3>3, <3>4
  <2>3. CASE stops
    <3>1. batch.plan' = <<>> /\ batch.script' = batch.script
      BY <1>5, <2>3
    <3>2. \A i \in 1..(d + 1) : batch.done'[i][2] = "error" => i = d + 1
      BY <1>3, <1>7, <2>3 DEF ErredIn, d
    <3>3. ErredIn(batch') /\ batch.script' \in StopsOnError
      BY <2>2, <2>3, <3>1
    <3>4. <<>> \in Seq(Steps)
      OBVIOUS
    <3> QED
      BY <1>3, <1>4, <1>7, <2>1, <3>1, <3>2, <3>3, <3>4 DEF Follows
  <2>4. CASE ~stops
    <3>1. batch.plan' = Tail(batch.plan) /\ batch.script' = batch.script
      BY <1>5, <2>4
    <3>2. ~(ErredIn(batch') /\ batch.script' \in StopsOnError)
      BY <1>3, <2>2, <2>4, <3>1
    <3>3. batch.script' \in StopsOnError =>
            \A i \in 1..(d + 1) : batch.done'[i][2] = "error" => i = d + 1
      BY <1>7, <3>2 DEF ErredIn
    <3>4. /\ Len(batch.done') + Len(batch.plan') = m
          /\ \A i \in 1..Len(batch.plan') : batch.plan'[i] = full[Len(batch.done') + i]
      <4>1. Len(batch.plan) \in Nat /\ Len(batch.plan') = Len(batch.plan) - 1
        BY <1>3, <1>4, <3>1
      <4>2. ASSUME NEW i \in 1..(Len(batch.plan) - 1)
            PROVE  batch.plan'[i] = full[d + 1 + i]
        <5>1. i + 1 \in 1..Len(batch.plan) /\ d + (i + 1) = d + 1 + i
          BY <4>1, <1>3
        <5> QED
          BY <1>3, <1>4, <3>1, <5>1
      <4> QED
        <5>1. Len(batch.done') + Len(batch.plan') = m
          <6>1. Len(batch.done') = d + 1 /\ d + Len(batch.plan) = m /\ d \in Nat
            BY <1>3, <1>7
          <6>2. \A a, b \in Nat : a + b = m => (a + 1) + (b - 1) = m
            OBVIOUS
          <6>3. (d + 1) + (Len(batch.plan) - 1) = m
            BY <4>1, <6>1, <6>2
          <6> QED
            BY <4>1, <6>1, <6>3
        <5> QED
          BY <1>7, <4>1, <4>2, <5>1
    <3>5. batch.plan' \in Seq(Steps) /\ d + 1 <= m
      BY <1>3, <1>4, <3>1
    <3> QED
      BY <1>7, <2>1, <3>2, <3>3, <3>4, <3>5 DEF Follows
  <2> QED
    BY <2>3, <2>4
<1>9. ASSUME AllDone(batch') PROVE GameIs(game', batch.script, batch.asked, full, d + 1)
  <2>1. outcome = "done" /\ AllDone(batch)
    BY <1>3, <1>7, <1>9 DEF AllDone, d
  <2>2. GameIs(game, batch.script, batch.asked, full, d) /\ Expected(batch.script, batch.asked, full, m)
    BY <1>2, <2>1 DEF AtWork, d
  <2>3. Effect(full[d + 1]) /\ game \in Games
    BY <1>4, <2>1 DEF RunTaskOf, BatchInv, t
  <2> QED
    BY <1>3, <1>4, <2>2, <2>3, EffectFits
<1>10. AtWork(full, m)'
  <2>1. batch.script' = batch.script /\ batch.asked' = batch.asked /\ batch.answer' = "none"
    BY <1>3, <1>5
  <2> QED
    BY <1>2, <1>7, <1>8, <1>9, <2>1 DEF AtWork, HasAnswered
<1> QED
  <2>1. Batches(batch') /\ batch.answer' = "none" /\ batch.script' # "none"
    <3>1. batch.script # "none"
      BY <1>2 DEF AtWork, Expected
    <3> QED
      BY <1>3, <1>5, <3>1 DEF Batches
  <2> QED
    BY <1>6, <1>10, <2>1 DEF BatchInv

\* The script ends.
LEMMA EndFits == ASSUME BatchInv, ScriptEnds PROVE BatchInv'
<1>1. PICK m \in Nat : \E full \in [1..m -> Steps] : AtWork(full, m)
  BY DEF BatchInv, ScriptEnds, RefusedBatch, NoBatch
<1>2. PICK full \in [1..m -> Steps] : AtWork(full, m)
  BY <1>1
<1>3. DOMAIN batch.done = 1..Len(batch.done)
  BY <1>2 DEF AtWork, Follows
<1>4. Erred <=> ErredIn(batch)
  BY <1>3 DEF Erred, ErredIn
<1>5. batch' = [script |-> batch.script, asked |-> batch.asked, plan |-> batch.plan,
                done |-> batch.done,
                answer |-> IF ErredIn(batch) /\ batch.script \in TellsErrors THEN "no" ELSE "yes"]
  BY <1>4 DEF ScriptEnds, BatchInv, Batches
<1>6. Follows(batch', full, m) /\ (AllDone(batch') => AllDone(batch))
  BY <1>2, <1>5 DEF AtWork, Follows, ErredIn, AllDone
<1>7. HasAnswered(batch')
  BY <1>5 DEF HasAnswered, ErredIn, ScriptEnds
<1>8. AtWork(full, m)'
  BY <1>2, <1>5, <1>6, <1>7 DEF AtWork, ScriptEnds
<1>9. game' = game /\ batch.script' # "none" /\ Batches(batch') /\ batch.answer' \in {"yes", "no"}
  BY <1>5 DEF ScriptEnds, Batches
<1> QED
  BY <1>8, <1>9 DEF BatchInv

-----------------------------------------------------------------------------
(* The scripts begin                                                        *)

\* The lists of the parameters
LEMMA ListParts ==
  ASSUME NEW S, NEW jobs \in ListsOf(S)
  PROVE  /\ jobs \in Seq(S) /\ Len(jobs) \in 0..2 /\ DOMAIN jobs = 1..Len(jobs)
         /\ jobs # <<>> => Len(jobs) \in 1..2
         /\ \A i \in 1..Len(jobs) : jobs[i] \in S
<1>1. CASE jobs = <<>>
  BY <1>1
<1>2. ASSUME NEW a \in S, jobs = <<a>> PROVE jobs \in Seq(S) /\ Len(jobs) = 1 /\ jobs[1] = a
  BY <1>2
<1>3. ASSUME NEW a \in S, NEW b \in S, jobs = <<a, b>>
      PROVE  jobs \in Seq(S) /\ Len(jobs) = 2 /\ jobs[1] = a /\ jobs[2] = b
  BY <1>3
<1>4. CASE jobs # <<>>
  <2>1. jobs \in Seq(S) /\ Len(jobs) \in 1..2
    BY <1>2, <1>3, <1>4 DEF ListsOf
  <2> QED
    BY <2>1
<1> QED
  BY <1>1, <1>4

\* A script that refuses and leaves the game alone
LEMMA Refuses ==
  ASSUME BatchInv, NEW name, name # "none", NEW asked, Start(Refused(name, asked)), UNCHANGED game
  PROVE  BatchInv'
<1>1. game' \in Games
  BY DEF BatchInv
<1> QED
  BY <1>1, RefusedFits

\* LoopAction begins.
LEMMA LoopFits ==
  ASSUME BatchInv, NEW jobs \in ListsOf(Jobs), NEW n \in Nat, LoopAction(jobs, n), UNCHANGED game
  PROVE  BatchInv'
<1> DEFINE m == n * Len(jobs)
           full == [k \in 1..m |-> Task("run", jobs[((k - 1) % Len(jobs)) + 1])]
<1>1. CASE jobs = <<>> \/ n < 1
  BY <1>1, Refuses DEF LoopAction
<1>2. CASE ~(jobs = <<>> \/ n < 1)
  <2>1. Len(jobs) \in 1..2 /\ m \in Nat /\ \A i \in 1..Len(jobs) : jobs[i] \in Jobs
    BY <1>2, ListParts
  <2>2. full \in [1..m -> Steps]
    <3>1. ASSUME NEW k \in 1..m PROVE Task("run", jobs[((k - 1) % Len(jobs)) + 1]) \in Steps
      <4>1. ((k - 1) % Len(jobs)) + 1 \in 1..Len(jobs)
        BY <2>1
      <4> QED
        BY <2>1, <4>1 DEF Task, Steps, Names
    <3> QED
      BY <3>1
  <2>3. Start(Planned("LoopAction", <<jobs, n>>, full))
    BY <1>2 DEF LoopAction
  <2>4. LoopPlan(<<jobs, n>>, full, m)
    BY <1>2 DEF LoopPlan
  <2>5. Expected("LoopAction", <<jobs, n>>, full, m)
    BY <2>4 DEF Expected
  <2> HIDE DEF m, full
  <2> QED
    BY <2>1, <2>2, <2>3, <2>5, PlannedFits DEF BatchInv
<1> QED
  BY <1>1, <1>2

\* ChallengeDungeonBoss begins.
LEMMA BossFits ==
  ASSUME BatchInv, NEW count \in Nat, NEW isReward \in BOOLEAN,
         ChallengeDungeonBoss(count, isReward), UNCHANGED game
  PROVE  BatchInv'
<1> DEFINE m == 2 * count
           full == [k \in 1..m |-> Task(IF k % 2 = 1 THEN "find" ELSE "fight",
                                        Place(isReward, (k + 1) \div 2))]
<1>1. full \in [1..m -> Steps] /\ m \in Nat
  <2>1. ASSUME NEW k \in 1..m
        PROVE  Task(IF k % 2 = 1 THEN "find" ELSE "fight", Place(isReward, (k + 1) \div 2)) \in Steps
    <3>1. (k + 1) \div 2 \in Int
      OBVIOUS
    <3>2. Place(isReward, (k + 1) \div 2) \in Int \cup {Default}
      BY <3>1 DEF Place
    <3> QED
      BY <3>2 DEF Task, Steps
  <2> QED
    BY <2>1
<1>2. Start(Planned("ChallengeDungeonBoss", <<count>>, full))
  BY DEF ChallengeDungeonBoss, Place
<1>3. BossPlan(<<count>>, full, m)
  BY DEF BossPlan
<1>4. Expected("ChallengeDungeonBoss", <<count>>, full, m)
  BY <1>3 DEF Expected
<1> HIDE DEF m, full
<1> QED
  BY <1>1, <1>2, <1>4, PlannedFits DEF BatchInv

\* BonusToggle begins.
LEMMA BonusFits ==
  ASSUME BatchInv, NEW order \in ListsOf(Bonuses \cup {Default}), NEW enable \in [1..2 -> BOOLEAN],
         Ext!IsInjective(order), BonusToggle(order, enable), UNCHANGED game
  PROVE  BatchInv'
<1> DEFINE m == Len(order)
           asked == [i \in DOMAIN order |-> <<order[i], enable[i]>>]
           full == [i \in DOMAIN order |-> Task("toggle", <<order[i], enable[i]>>)]
<1>1. CASE \E i \in DOMAIN order : order[i] \notin Bonuses
  BY <1>1, Refuses DEF BonusToggle
<1>2. CASE ~ \E i \in DOMAIN order : order[i] \notin Bonuses
  <2>1. m \in 0..2 /\ DOMAIN order = 1..m
    BY ListParts
  <2>2. \A i \in 1..m : <<order[i], enable[i]>> \in Bonuses \X BOOLEAN
    BY <1>2, <2>1
  <2>3. asked \in [1..m -> Bonuses \X BOOLEAN] /\ full \in [1..m -> Steps]
    BY <2>1, <2>2 DEF Task, Steps
  <2>4. BonusPlan(asked, full, m)
    <3>1. \A j, k \in 1..m : asked[j][1] = asked[k][1] => j = k
      BY <2>1 DEF Ext!IsInjective
    <3> QED
      BY <2>1, <2>3, <3>1 DEF BonusPlan
  <2>5. Start(Planned("BonusToggle", asked, full))
    BY <1>2 DEF BonusToggle
  <2>6. Expected("BonusToggle", asked, full, m)
    BY <2>4 DEF Expected
  <2>7. m \in Nat /\ game' \in Games /\ game'.fought = game.fought /\ game'.cleared = game.cleared
    BY <2>1 DEF BatchInv
  <2> HIDE DEF m, full, asked
  <2> QED
    BY <2>3, <2>5, <2>6, <2>7, PlannedFits
<1> QED
  BY <1>1, <1>2

\* ClearHitCount begins.
LEMMA ClearFits ==
  ASSUME BatchInv, NEW name \in Names, NEW names \in ListsOf(Jobs), ClearHitCount(name, names),
         UNCHANGED game
  PROVE  BatchInv'
<1> DEFINE all == (IF name = Default THEN <<>> ELSE <<name>>) \o names
           m == Len(all)
           full == [i \in DOMAIN all |-> Task("clear", all[i])]
<1>1. all \in Seq(Names)
  <2>1. names \in Seq(Names) /\ (IF name = Default THEN <<>> ELSE <<name>>) \in Seq(Names)
    <3>1. names \in Seq(Jobs)
      BY ListParts
    <3>2. names \in Seq(Names)
      BY <3>1 DEF Names
    <3>3. CASE name = Default
      BY <3>2, <3>3
    <3>4. CASE name # Default
      BY <3>2, <3>4
    <3> QED
      BY <3>3, <3>4
  <2> QED
    BY <2>1
<1>2. CASE all = <<>>
  BY <1>2, Refuses DEF ClearHitCount
<1>3. CASE all # <<>>
  <2>1. m \in Nat /\ all \in [1..m -> Names] /\ DOMAIN all = 1..m
    <3> HIDE DEF all
    <3> QED
      BY <1>1
  <2>2. Start(Planned("ClearHitCount", all, full))
    BY <1>3 DEF ClearHitCount
  <2> HIDE DEF all
  <2>3. full \in [1..m -> Steps]
    BY <2>1 DEF Task, Steps
  <2>4. ClearPlan(all, full, m)
    BY <2>1, <2>3 DEF ClearPlan
  <2>5. Expected("ClearHitCount", all, full, m)
    BY <2>4 DEF Expected
  <2> HIDE DEF m, full
  <2> QED
    BY <2>1, <2>2, <2>3, <2>5, PlannedFits DEF BatchInv
<1> QED
  BY <1>2, <1>3

\* BattleTeam begins.
LEMMA TeamFits ==
  ASSUME BatchInv, NEW team \in Names, NEW alias \in Names, BattleTeam(team, alias), UNCHANGED game
  PROVE  BatchInv'
<1> DEFINE t == IF team = Default THEN alias ELSE team
           full == <<Task("preset", t)>>
<1>1. CASE t = Default
  BY <1>1, Refuses DEF BattleTeam
<1>2. CASE t # Default
  <2>1. full \in [1..1 -> Steps]
    BY DEF Task, Steps
  <2>2. Start(Planned("BattleTeam", <<team, alias>>, full))
    BY <1>2 DEF BattleTeam
  <2>3. TeamPlan(<<team, alias>>, full, 1)
    BY DEF TeamPlan
  <2>4. Expected("BattleTeam", <<team, alias>>, full, 1)
    BY <2>3 DEF Expected
  <2> HIDE DEF full
  <2> QED
    BY <2>1, <2>2, <2>4, PlannedFits DEF BatchInv
<1> QED
  BY <1>1, <1>2

\* RepeatChallengeNTimes begins.
LEMMA RepeatFits ==
  ASSUME BatchInv, NEW seen \in Challenges, NEW e \in Challenges, NEW startRepeat \in BOOLEAN,
         RepeatChallengeNTimes(seen, startRepeat, e)
  PROVE  BatchInv'
<1> DEFINE asked == <<startRepeat, e>>
<1>1. e \in Seq(0..9) /\ seen \in Seq(0..9)
  BY GameAssumption
<1>2. game' \in Games /\ game'.fought = game.fought /\ game'.cleared = game.cleared
  BY <1>1 DEF RepeatChallengeNTimes, BatchInv, Games
<1>3. CASE e = <<0>>
  BY <1>2, <1>3, RefusedFits DEF RepeatChallengeNTimes
<1>4. ASSUME NEW m \in Nat, NEW full \in [1..m -> Steps],
             Start(Planned("RepeatChallengeNTimes", asked, full)),
             \A k \in 1..m : full[k].task \in {"cancel", "start", "edit", "digit", "confirm"},
             startRepeat /\ e # TenTimes => Typing(e, full, m)
      PROVE  BatchInv'
  <2>1. RepeatPlan(asked, full, m)
    BY <1>1, <1>4 DEF RepeatPlan
  <2>2. Expected("RepeatChallengeNTimes", asked, full, m)
    BY <2>1 DEF Expected
  <2> HIDE DEF asked
  <2> QED
    BY <1>2, <1>4, <2>2, PlannedFits
<1>5. CASE e # <<0>> /\ ~startRepeat
  <2> DEFINE full == <<Task("cancel", 0)>>
  <2>1. full \in [1..1 -> Steps] /\ \A k \in 1..1 : full[k].task = "cancel"
    BY DEF Task, Steps
  <2>2. Start(Planned("RepeatChallengeNTimes", asked, full))
    BY <1>5 DEF RepeatChallengeNTimes
  <2> HIDE DEF full, asked
  <2> QED
    BY <1>4, <1>5, <2>1, <2>2
<1>6. CASE e # <<0>> /\ startRepeat /\ e = TenTimes
  <2> DEFINE full == <<Task("start", 0)>>
  <2>1. full \in [1..1 -> Steps] /\ \A k \in 1..1 : full[k].task = "start"
    BY DEF Task, Steps
  <2>2. Start(Planned("RepeatChallengeNTimes", asked, full))
    <3>1. <<Task("start", 0)>> \o <<>> = <<Task("start", 0)>>
      OBVIOUS
    <3> QED
      BY <1>6, <3>1 DEF RepeatChallengeNTimes, RecognizeNumber
  <2> HIDE DEF full, asked
  <2> QED
    BY <1>4, <1>6, <2>1, <2>2
<1>7. CASE e # <<0>> /\ startRepeat /\ e # TenTimes
  <2> DEFINE digits == [i \in DOMAIN e |-> Task("digit", e[i])]
             full == <<Task("start", 0)>> \o (<<Task("edit", 0)>> \o digits \o <<Task("confirm", 0)>>)
             m == Len(e) + 3
  <2>1. Start(Planned("RepeatChallengeNTimes", asked, full))
    BY <1>7 DEF RepeatChallengeNTimes, RecognizeNumber
  <2>2. Len(e) \in Nat /\ DOMAIN e = 1..Len(e) /\ \A i \in 1..Len(e) : e[i] \in 0..9
    BY <1>1
  <2>3. digits \in [1..Len(e) -> Steps]
    BY <2>2 DEF Task, Steps
  <2>4. digits \in Seq(Steps) /\ Len(digits) = Len(e)
    <3> HIDE DEF digits
    <3> QED
      BY <2>2, <2>3, AsSequence
  <2>5. Task("start", 0) \in Steps /\ Task("edit", 0) \in Steps /\ Task("confirm", 0) \in Steps
    BY DEF Task, Steps
  <2>6. \A i \in 1..Len(e) : digits[i] = Task("digit", e[i])
    BY <2>2
  <2> DEFINE a == Task("start", 0)
             b == Task("edit", 0)
             c == Task("confirm", 0)
  <2> HIDE DEF digits, asked, a, b, c
  <2>7. /\ full \in Seq(Steps) /\ Len(full) = m /\ full[1] = a /\ full[2] = b /\ full[m] = c
        /\ \A i \in 1..Len(e) : full[i + 2] = digits[i]
    BY <2>2, <2>4, <2>5 DEF a, b, c
  <2> HIDE DEF full
  <2>8. full \in [1..m -> Steps] /\ m \in Nat
    BY <2>2, <2>7
  <2>9. Typing(e, full, m)
    BY <2>6, <2>7 DEF Typing, b, c
  <2>10. ASSUME NEW k \in 1..m
         PROVE  full[k].task \in {"cancel", "start", "edit", "digit", "confirm"}
    <3>1. CASE k \in 3..(Len(e) + 2)
      <4>1. k - 2 \in 1..Len(e) /\ (k - 2) + 2 = k
        BY <2>2, <3>1
      <4>2. full[k] = Task("digit", e[k - 2])
        BY <2>6, <2>7, <4>1
      <4> QED
        BY <4>2 DEF Task
    <3>2. CASE k \in {1, 2, m}
      BY <2>7, <3>2 DEF Task, a, b, c
    <3> QED
      BY <2>2, <3>1, <3>2
  <2> HIDE DEF m
  <2> QED
    BY <1>4, <2>1, <2>8, <2>9, <2>10
<1> QED
  BY <1>3, <1>5, <1>6, <1>7

\* One step of these scripts
LEMMA BatchKept == BatchInv /\ BatchNext => BatchInv'
<1> SUFFICES ASSUME BatchInv, BatchNext PROVE BatchInv'
  OBVIOUS
<1>1. ASSUME NEW jobs \in ListsOf(Jobs), NEW n \in 0..MaxRounds, LoopAction(jobs, n), UNCHANGED game
      PROVE  BatchInv'
  BY <1>1, LoopFits, GameAssumption
<1>2. ASSUME NEW n \in 0..MaxRounds, NEW isReward \in BOOLEAN, ChallengeDungeonBoss(n, isReward),
             UNCHANGED game
      PROVE  BatchInv'
  BY <1>2, BossFits, GameAssumption
<1>3. ASSUME NEW order \in ListsOf(Bonuses \cup {Default}), NEW enable \in [1..2 -> BOOLEAN],
             Ext!IsInjective(order) /\ BonusToggle(order, enable), UNCHANGED game
      PROVE  BatchInv'
  BY <1>3, BonusFits
<1>4. ASSUME NEW name \in Jobs \cup {Default}, NEW names \in ListsOf(Jobs),
             ClearHitCount(name, names), UNCHANGED game
      PROVE  BatchInv'
  BY <1>4, ClearFits DEF Names
<1>5. ASSUME NEW team \in Jobs \cup {Default}, NEW alias \in Jobs \cup {Default},
             BattleTeam(team, alias), UNCHANGED game
      PROVE  BatchInv'
  BY <1>5, TeamFits DEF Names
<1>6. ASSUME NEW seen \in Challenges, NEW expected \in Challenges, NEW startRepeat \in BOOLEAN,
             RepeatChallengeNTimes(seen, startRepeat, expected)
      PROVE  BatchInv'
  BY <1>6, RepeatFits
<1>7. ASSUME NEW outcome \in {"done", "failed", "error"}, RunTaskOf(outcome) PROVE BatchInv'
  BY <1>7, TaskRunFits DEF Outcomes
<1>8. CASE ScriptEnds
  BY <1>8, EndFits
<1> QED
  BY <1>1, <1>2, <1>3, <1>4, <1>5, <1>6, <1>7, <1>8 DEF BatchNext

-----------------------------------------------------------------------------
(* What a plan achieves that is gone through                                *)

\* Half of an even number of places have the same parity.
LEMMA OneOfTwo ==
  ASSUME NEW n \in Nat, NEW r \in {0, 1}
  PROVE  Cardinality({i \in 1..(n * 2) : (i - 1) % 2 = r}) = n
<1> DEFINE T == {i \in 1..(n * 2) : (i - 1) % 2 = r}
           f == [k \in 1..n |-> 2 * k - 1 + r]
<1>1. f \in Bijection(1..n, T)
  <2>1. \A k \in 1..n : f[k] \in T
    OBVIOUS
  <2>2. \A j, k \in 1..n : f[j] = f[k] => j = k
    OBVIOUS
  <2>3. ASSUME NEW i \in T PROVE \E k \in 1..n : f[k] = i
    <3>1. i \in 1..(n * 2) /\ (i - 1) % 2 = r
      OBVIOUS
    <3>2. ((i + 1) \div 2) \in 1..n /\ 2 * ((i + 1) \div 2) - 1 + r = i
      BY <3>1
    <3> QED
      BY <3>2
  <2> QED
    <3>1. f \in [1..n -> T]
      BY <2>1
    <3> HIDE DEF f, T
    <3>2. f \in Injection(1..n, T)
      BY <2>2, <3>1 DEF Injection, IsInjective
    <3>3. f \in Surjection(1..n, T)
      BY <2>3, <3>1 DEF Surjection
    <3> QED
      BY <3>2, <3>3 DEF Bijection
<1> HIDE DEF T, f
<1> QED
  BY <1>1, FS_CountingElements DEF T, ExistsBijection

\* What Achieved says of a loop
LoopDone(jobs, n) ==
  /\ \A t \in Ext!Range(jobs) : Ran(t) = n * Cardinality({i \in DOMAIN jobs : jobs[i] = t})
  /\ Len(jobs) = 2 => \A i \in DOMAIN batch.done : batch.done[i][1].arg = jobs[2 - (i % 2)]

\* A loop that has gone through its plan has run each task n times for every mention of it.
LEMMA LoopAchieved ==
  ASSUME NEW jobs \in ListsOf(Jobs), jobs # <<>>, NEW n \in Nat,
         DOMAIN batch.done = 1..(n * Len(jobs)),
         \A i \in 1..(n * Len(jobs)) : batch.done[i][1].arg = jobs[((i - 1) % Len(jobs)) + 1]
  PROVE  LoopDone(jobs, n)
<1>1. Len(jobs) \in 1..2 /\ DOMAIN jobs = 1..Len(jobs)
  BY ListParts
<1>2. CASE Len(jobs) = 1
  <2>1. ASSUME NEW t \in Ext!Range(jobs)
        PROVE  Ran(t) = n * Cardinality({i \in DOMAIN jobs : jobs[i] = t})
    <3>1. t = jobs[1]
      BY <1>1, <1>2 DEF Ext!Range
    <3>2. {i \in DOMAIN jobs : jobs[i] = t} = {1}
      BY <1>1, <1>2, <3>1
    <3>3. {i \in DOMAIN batch.done : batch.done[i][1].arg = t} = 1..n
      BY <1>2, <3>1
    <3>4. Cardinality({1}) = 1 /\ Cardinality(1..n) = n
      <4>1. Cardinality({1}) = 1
        BY FS_Singleton
      <4>2. Cardinality(1..n) = n
        BY FS_Interval
      <4> QED
        BY <4>1, <4>2
    <3>5. n * 1 = n
      OBVIOUS
    <3> QED
      BY <3>2, <3>3, <3>4, <3>5 DEF Ran
  <2> QED
    BY <1>2, <2>1 DEF LoopDone
<1>3. CASE Len(jobs) = 2
  <2>1. \A i \in 1..(n * 2) : batch.done[i][1].arg = IF (i - 1) % 2 = 0 THEN jobs[1] ELSE jobs[2]
    BY <1>3
  <2>2. \A i \in DOMAIN batch.done : batch.done[i][1].arg = jobs[2 - (i % 2)]
    <3>1. ASSUME NEW i \in 1..(n * 2) PROVE batch.done[i][1].arg = jobs[2 - (i % 2)]
      <4>1. ((i - 1) % 2) + 1 = 2 - (i % 2)
        OBVIOUS
      <4> QED
        BY <1>3, <4>1
    <3> QED
      BY <1>3, <3>1
  <2>3. ASSUME NEW t \in Ext!Range(jobs)
        PROVE  Ran(t) = n * Cardinality({i \in DOMAIN jobs : jobs[i] = t})
    <3>1. CASE jobs[1] = jobs[2]
      <4>1. t = jobs[1]
        BY <1>1, <1>3, <2>3, <3>1 DEF Ext!Range
      <4>2. {i \in DOMAIN jobs : jobs[i] = t} = 1..2
        BY <1>1, <1>3, <3>1, <4>1
      <4>3. {i \in DOMAIN batch.done : batch.done[i][1].arg = t} = 1..(n * 2)
        BY <1>3, <2>1, <3>1, <4>1
      <4>4. Cardinality(1..2) = 2 /\ Cardinality(1..(n * 2)) = n * 2
        <5>1. \A c \in Nat : Cardinality(1..c) = c
          BY FS_Interval
        <5>2. n * 2 \in Nat
          OBVIOUS
        <5> QED
          BY <5>1, <5>2
      <4> QED
        BY <4>2, <4>3, <4>4 DEF Ran
    <3>2. CASE jobs[1] # jobs[2]
      <4>1. PICK r \in {0, 1} : t = jobs[r + 1]
        BY <1>1, <1>3, <2>3 DEF Ext!Range
      <4>2. {i \in DOMAIN jobs : jobs[i] = t} = {r + 1}
        BY <1>1, <1>3, <3>2, <4>1
      <4>3. {i \in DOMAIN batch.done : batch.done[i][1].arg = t} = {i \in 1..(n * 2) : (i - 1) % 2 = r}
        BY <1>3, <2>1, <3>2, <4>1
      <4>4. Cardinality({r + 1}) = 1
        BY FS_Singleton
      <4>5. Ran(t) = n
        BY <4>3, OneOfTwo DEF Ran
      <4>6. n * 1 = n
        OBVIOUS
      <4> QED
        BY <4>2, <4>4, <4>5, <4>6
    <3> QED
      BY <3>1, <3>2
  <2> QED
    BY <2>2, <2>3 DEF LoopDone
<1> QED
  BY <1>1, <1>2, <1>3

\* A list of fights that is gone through has as many different bosses as asked for.
LEMMA BossAchieved ==
  ASSUME NEW count \in Nat, NEW isReward \in BOOLEAN, NEW full,
         \A k \in 1..(2 * count) : full[k] = Task(IF k % 2 = 1 THEN "find" ELSE "fight",
                                                  Place(isReward, (k + 1) \div 2))
  PROVE  Cardinality(Of(full, 2 * count, "fight")) = count
<1> DEFINE f == [i \in 1..count |-> Place(isReward, i)]
           T == Of(full, 2 * count, "fight")
<1>1. \A i \in 1..count : 2 * i \in 1..(2 * count) /\ full[2 * i] = Task("fight", Place(isReward, i))
  <2>1. ASSUME NEW i \in 1..count PROVE full[2 * i] = Task("fight", Place(isReward, i))
    <3>1. 2 * i \in 1..(2 * count) /\ (2 * i) % 2 = 0 /\ (2 * i + 1) \div 2 = i
      OBVIOUS
    <3> QED
      BY <3>1
  <2> QED
    BY <2>1
<1>2. f \in Bijection(1..count, T)
  <2>1. ASSUME NEW i \in 1..count PROVE f[i] \in T
    <3>1. full[2 * i].task = "fight" /\ full[2 * i].arg = f[i] /\ 2 * i \in 1..(2 * count)
      <4>1. full[2 * i] = Task("fight", f[i]) /\ 2 * i \in 1..(2 * count)
        BY <1>1
      <4> QED
        BY <4>1 DEF Task
    <3> QED
      BY <3>1 DEF Of
  <2>2. \A j, k \in 1..count : f[j] = f[k] => j = k
    BY GameAssumption DEF Place
  <2>3. ASSUME NEW a \in T PROVE \E i \in 1..count : f[i] = a
    <3>1. PICK k \in 1..(2 * count) : full[k].task = "fight" /\ a = full[k].arg
      BY DEF Of
    <3>2. full[k] = Task(IF k % 2 = 1 THEN "find" ELSE "fight", Place(isReward, (k + 1) \div 2))
      BY <3>1
    <3>3. a = Place(isReward, (k + 1) \div 2)
      BY <3>1, <3>2 DEF Task
    <3>4. (k + 1) \div 2 \in 1..count
      BY <3>1
    <3> QED
      BY <3>3, <3>4
  <2> HIDE DEF f, T
  <2> QED
    <3>1. DOMAIN f = 1..count /\ f \in [1..count -> T]
      BY <2>1 DEF f
    <3> QED
      <4>1. f \in Injection(1..count, T)
        BY <2>2, <3>1 DEF Injection, IsInjective
      <4>2. f \in Surjection(1..count, T)
        BY <2>3, <3>1 DEF Surjection
      <4> QED
        BY <4>1, <4>2 DEF Bijection
<1> HIDE DEF f, T
<1>3. Cardinality(T) = count
  BY <1>2, FS_CountingElements DEF ExistsBijection
<1> QED
  BY <1>3 DEF T

\* A script whose tasks were all done has achieved what it was asked.
LEMMA AllAchieved ==
  ASSUME NEW m \in Nat, NEW full \in [1..m -> Steps], AtWork(full, m), batch.answer # "none",
         AllDone(batch)
  PROVE  Achieved
<1>1. ~ErredIn(batch) /\ batch.plan = <<>>
  BY DEF AtWork, HasAnswered, AllDone, ErredIn
<1>2. Len(batch.done) = m /\ DOMAIN batch.done = 1..m /\ \A i \in 1..m : batch.done[i][1] = full[i]
  <2>1. Follows(batch, full, m)
    BY DEF AtWork
  <2>2. Len(batch.done) + Len(batch.plan) = m /\ batch.done \in Seq(Steps \X Outcomes)
    BY <1>1, <2>1 DEF Follows
  <2>3. Len(batch.done) = m
    BY <1>1, <2>2
  <2> QED
    BY <2>1, <2>2, <2>3 DEF Follows
<1>3. GameIs(game, batch.script, batch.asked, full, m) /\ Expected(batch.script, batch.asked, full, m)
  BY <1>2 DEF AtWork
<1>4. CASE batch.script = "LoopAction"
  <2>1. PICK jobs \in ListsOf(Jobs), n \in Nat :
          /\ batch.asked = <<jobs, n>> /\ jobs # <<>> /\ m = n * Len(jobs)
          /\ \A k \in 1..m : full[k] = Task("run", jobs[((k - 1) % Len(jobs)) + 1])
    BY <1>3, <1>4 DEF Expected, LoopPlan
  <2>2. \A i \in 1..m : batch.done[i][1].arg = jobs[((i - 1) % Len(jobs)) + 1]
    BY <1>2, <2>1 DEF Task
  <2>3. LoopDone(jobs, n)
    BY <1>2, <2>1, <2>2, LoopAchieved
  <2> QED
    BY <1>4, <2>1, <2>3 DEF Achieved, LoopDone
<1>5. CASE batch.script = "ChallengeDungeonBoss"
  <2>1. PICK count \in Nat, isReward \in BOOLEAN :
          /\ batch.asked = <<count>> /\ m = 2 * count
          /\ \A k \in 1..m : full[k] = Task(IF k % 2 = 1 THEN "find" ELSE "fight",
                                            Place(isReward, (k + 1) \div 2))
    BY <1>3, <1>5 DEF Expected, BossPlan
  <2>2. Cardinality(Of(full, 2 * count, "fight")) = count
    BY <2>1, BossAchieved
  <2> QED
    BY <1>3, <1>5, <2>1, <2>2 DEF Achieved, GameIs
<1>6. CASE batch.script = "RepeatChallengeNTimes"
  <2>1. PICK startRepeat \in BOOLEAN, e \in Seq(0..9) :
          /\ batch.asked = <<startRepeat, e>>
          /\ startRepeat /\ e # TenTimes => Typing(e, full, m)
    BY <1>3, <1>6 DEF Expected, RepeatPlan
  <2>2. ASSUME startRepeat, e # TenTimes PROVE game.number = e
    <3>1. Typed(game, e, m) /\ m = Len(e) + 3
      BY <1>3, <1>6, <2>1, <2>2 DEF GameIs, Typing
    <3> QED
      BY <3>1 DEF Typed
  <2> QED
    BY <1>6, <2>1, <2>2 DEF Achieved
<1>7. CASE batch.script = "BonusToggle"
  <2>1. BonusPlan(batch.asked, full, m)
    BY <1>3, <1>7 DEF Expected
  <2>2. ASSUME NEW i \in 1..m PROVE game.bonus[batch.asked[i][1]] = batch.asked[i][2]
    <3>1. full[i].task = "toggle" /\ full[i].arg = batch.asked[i]
      BY <2>1 DEF BonusPlan, Task
    <3> QED
      BY <1>3, <3>1 DEF GameIs
  <2>3. DOMAIN batch.asked = 1..m
    BY <2>1 DEF BonusPlan
  <2> QED
    BY <1>7, <2>2, <2>3 DEF Achieved
<1>8. CASE batch.script = "ClearHitCount"
  <2>1. ClearPlan(batch.asked, full, m)
    BY <1>3, <1>8 DEF Expected
  <2>2. DOMAIN batch.asked = 1..m /\ \A i \in 1..m : full[i] = Task("clear", batch.asked[i])
    BY <2>1 DEF ClearPlan
  <2>3. {j \in 1..m : full[j].task = "clear"} = 1..m /\ \A i \in 1..m : full[i].arg = batch.asked[i]
    BY <2>2 DEF Task
  <2>4. Of(full, m, "clear") = Ext!Range(batch.asked)
    BY <2>2, <2>3 DEF Of, Ext!Range
  <2> QED
    BY <1>3, <1>8, <2>4 DEF Achieved, GameIs
<1>9. CASE batch.script = "BattleTeam"
  <2>1. PICK team \in Names, alias \in Names :
          /\ batch.asked = <<team, alias>> /\ m = 1
          /\ full[1] = Task("preset", IF team = Default THEN alias ELSE team)
    BY <1>3, <1>9 DEF Expected, TeamPlan
  <2>2. game.team = full[1].arg
    BY <1>3, <2>1 DEF GameIs, Task
  <2> QED
    BY <1>9, <2>1, <2>2 DEF Achieved, Task
<1> QED
  BY <1>3, <1>4, <1>5, <1>6, <1>7, <1>8, <1>9 DEF Expected

\* So its answer is honest.
LEMMA AnswersHonest == BatchInv => AnswersAreHonest
<1> SUFFICES ASSUME BatchInv, batch.answer # "none", batch.done # <<>> PROVE AnswersAreHonest
  BY DEF AnswersAreHonest
<1>1. PICK m \in Nat : \E full \in [1..m -> Steps] : AtWork(full, m)
  BY DEF BatchInv, RefusedBatch, NoBatch
<1>2. PICK full \in [1..m -> Steps] : AtWork(full, m)
  BY <1>1
<1>3. Follows(batch, full, m) /\ HasAnswered(batch)
  BY <1>2 DEF AtWork
<1>4. DOMAIN batch.done = 1..Len(batch.done)
  BY <1>3 DEF Follows
<1>5. /\ Erred <=> ErredIn(batch)
      /\ (\A i \in DOMAIN batch.done : batch.done[i][2] = "done") => AllDone(batch)
  BY <1>4 DEF Erred, ErredIn, AllDone
<1>6. AllDone(batch) => Achieved
  BY <1>1, <1>2, AllAchieved
<1> QED
  BY <1>3, <1>4, <1>5, <1>6 DEF AnswersAreHonest, HasAnswered, Follows

-----------------------------------------------------------------------------
(* All scripts                                                              *)

\* The scripts share no variables: the invariant has one part for each.
GameInv ==
  KunInv /\ BountyInv /\ CheckFits /\ WeightCounts /\ TouchIsInside /\ BatchInv

\* It holds at the start.
LEMMA GameStart == GameInit => GameInv
<1> SUFFICES ASSUME GameInit PROVE GameInv
  OBVIOUS
<1> USE DEF GameInit
<1>1. KunInv
  BY GameAssumption DEF KunInv, KunTypes, KunIsEquipped, EnoughTickets
<1>2. BountyInv
  <2>1. [p \in 1..BountyPages |-> 0] \in [1..BountyPages -> 0..2] /\ 1 \in 1..BountyPages
    BY GameAssumption
  <2>2. {} \in SUBSET (1..BountyPages) /\ Base = 1
    BY DEF Base
  <2>3. bounty \in BountyTypes
    BY <2>1, <2>2 DEF BountyTypes
  <2> QED
    BY <2>2, <2>3 DEF BountyInv
<1>3. CheckFits /\ WeightCounts /\ TouchIsInside
  BY DEF CheckFits, WeightCounts, TouchIsInside
<1>4. BatchInv
  <2>1. game \in Games
    <3>1. [b \in Bonuses |-> FALSE] \in [Bonuses -> BOOLEAN] /\ <<>> \in Seq(0..9)
      OBVIOUS
    <3> QED
      BY <3>1 DEF Games, Names
  <2>2. Batches(batch) /\ batch.answer = "none"
    BY DEF NoBatch, Batches
  <2> QED
    BY <2>1, <2>2 DEF BatchInv
<1> QED
  BY <1>1, <1>2, <1>3, <1>4 DEF GameInv

\* Every step keeps it.
LEMMA GameKept == GameInv /\ [Next]_vars => GameInv'
<1> SUFFICES ASSUME GameInv, [Next]_vars PROVE GameInv'
  OBVIOUS
<1>1. ASSUME UNCHANGED kun PROVE KunInv'
  BY <1>1 DEF GameInv, KunInv, KunIsEquipped
<1>2. ASSUME UNCHANGED bounty PROVE BountyInv'
  BY <1>2 DEF GameInv, BountyInv, Base
<1>3. ASSUME UNCHANGED check PROVE CheckFits'
  BY <1>3 DEF GameInv, CheckFits
<1>4. ASSUME UNCHANGED pick PROVE WeightCounts'
  BY <1>4 DEF GameInv, WeightCounts
<1>5. ASSUME UNCHANGED touch PROVE TouchIsInside'
  BY <1>5 DEF GameInv, TouchIsInside
<1>6. ASSUME UNCHANGED <<batch, game>> PROVE BatchInv'
  BY <1>6 DEF GameInv, BatchInv, RefusedBatch, AtWork
<1>7. CASE UNCHANGED gameVars
  BY <1>1, <1>2, <1>3, <1>4, <1>5, <1>6, <1>7 DEF gameVars, GameInv
<1>8. CASE KunNext
  <2>1. KunInv'
    BY <1>8, KunKept DEF GameInv
  <2>2. UNCHANGED <<bounty, check, pick, touch, batch, game>>
    BY <1>8 DEF KunNext
  <2> QED
    BY <1>2, <1>3, <1>4, <1>5, <1>6, <2>1, <2>2 DEF GameInv
<1>9. CASE BountyNext
  <2>1. BountyInv'
    BY <1>9, BountyKept DEF GameInv
  <2>2. UNCHANGED <<kun, check, pick, touch, batch, game>>
    BY <1>9 DEF BountyNext
  <2> QED
    BY <1>1, <1>3, <1>4, <1>5, <1>6, <2>1, <2>2 DEF GameInv
<1>10. CASE TimeNext
  <2>1. CheckFits'
    BY <1>10, ChecksTyped
  <2>2. UNCHANGED <<kun, bounty, pick, touch, batch, game>>
    BY <1>10 DEF TimeNext
  <2> QED
    BY <1>1, <1>2, <1>4, <1>5, <1>6, <2>1, <2>2 DEF GameInv
<1>11. CASE RandomNext
  <2>1. WeightCounts'
    BY <1>11, PickKept
  <2>2. UNCHANGED <<kun, bounty, check, touch, batch, game>>
    BY <1>11 DEF RandomNext
  <2> QED
    BY <1>1, <1>2, <1>3, <1>5, <1>6, <2>1, <2>2 DEF GameInv
<1>12. CASE TouchNext
  <2>1. TouchIsInside'
    BY <1>12, TouchKept
  <2>2. UNCHANGED <<kun, bounty, check, pick, batch, game>>
    BY <1>12 DEF TouchNext
  <2> QED
    BY <1>1, <1>2, <1>3, <1>4, <1>6, <2>1, <2>2 DEF GameInv
<1>13. CASE BatchNext
  <2>1. BatchInv'
    BY <1>13, BatchKept DEF GameInv
  <2>2. UNCHANGED <<kun, bounty, check, pick, touch>>
    BY <1>13 DEF BatchNext
  <2> QED
    BY <1>1, <1>2, <1>3, <1>4, <1>5, <2>1, <2>2 DEF GameInv
<1> QED
  BY <1>7, <1>8, <1>9, <1>10, <1>11, <1>12, <1>13, GameSteps

\* Every script does what it was asked: Kun28 explores with the souls for it, the bounty list
\* is looked through, windows of time wrap around midnight, weights are chances, touches are
\* inside, and the answer of a script that runs a list of tasks says what became of them.
THEOREM AllAsAsked == Spec => []ScriptsDoAsAsked
<1>1. Init => GameInv
  BY GameStart DEF Init
<1>2. GameInv => ScriptsDoAsAsked
  BY BountyEnd, WindowsFit, AnswersHonest DEF GameInv, ScriptsDoAsAsked, KunInv
<1> QED
  BY <1>1, <1>2, GameKept, PTL DEF Spec

-----------------------------------------------------------------------------
(* The details of tasks                                                     *)

\* The parts of a document that count
PartsOf(d) ==
  IF IsCombined(d.algorithm)
  THEN {d.parts[i] : i \in {j \in DOMAIN d.parts : d.parts[j].text # "missing"}}
  ELSE {}

\* What ParsesCombined says of a document when the combined ones in S parse
ParsesWith(S) ==
  {d \in Documents :
     \/ d.text = "missing"
     \/ /\ d.text = "present"
        /\ \A i \in DOMAIN d.parts :
             LET p == d.parts[i] IN
             p.text # "missing" => IF IsCombined(p.algorithm) THEN p \in S ELSE ParsesResults(p)}

\* What a recursive function is said to be, it is only if such a function exists: here the greatest
\* set of combined documents that parse, as long as their parts do.
LEMMA ParsesDefined == ASSUME NEW d \in Documents
 PROVE ParsesCombined[d] <=>
  \/ d.text = "missing"
  \/ /\ d.text = "present"
     /\ \A i \in DOMAIN d.parts :
          LET p == d.parts[i] IN
          p.text # "missing" => IF IsCombined(p.algorithm) THEN ParsesCombined[p]
                                ELSE ParsesResults(p)
<1> DEFINE Body(f) == [x \in Documents |->
              \/ x.text = "missing"
              \/ /\ x.text = "present"
                 /\ \A i \in DOMAIN x.parts :
                      LET p == x.parts[i] IN
                      p.text # "missing" => IF IsCombined(p.algorithm) THEN f[p] ELSE ParsesResults(p)]
           T == UNION {S \in SUBSET Documents : S \subseteq ParsesWith(S)}
           g == [x \in Documents |-> x \in T]
<1>1. \A x \in Documents : \A i \in DOMAIN x.parts : x.parts[i] \in Documents
  BY DocumentsAssumption
<1>2. \A R, S : R \subseteq S => ParsesWith(R) \subseteq ParsesWith(S)
  BY DEF ParsesWith
<1>3. T \subseteq ParsesWith(T)
  <2>1. \A S : S \in SUBSET Documents /\ S \subseteq ParsesWith(S) => S \subseteq T
    OBVIOUS
  <2>2. ASSUME NEW x \in T PROVE x \in ParsesWith(T)
    <3>1. PICK S \in SUBSET Documents : S \subseteq ParsesWith(S) /\ x \in S
      BY <2>2
    <3>2. S \subseteq T
      BY <2>1, <3>1
    <3> HIDE DEF T
    <3> QED
      BY <1>2, <3>1, <3>2
  <2> HIDE DEF T
  <2> QED
    BY <2>2
<1>4. ParsesWith(T) \subseteq T
  <2> DEFINE U == ParsesWith(T)
  <2>1. U \in SUBSET Documents
    BY DEF ParsesWith
  <2>2. U \subseteq ParsesWith(U)
    <3> HIDE DEF T
    <3> QED
      BY <1>2, <1>3
  <2> HIDE DEF U
  <2>3. U \subseteq T
    BY <2>1, <2>2
  <2> QED
    BY <2>3 DEF U
<1> HIDE DEF T
<1>5. \A x \in Documents : x \in T <=> x \in ParsesWith(T)
  BY <1>3, <1>4 DEF ParsesWith
<1>6. g = Body(g)
  <2>1. \A x \in Documents : g[x] = (x \in T)
    OBVIOUS
  <2>2. \A x \in Documents : g[x] = Body(g)[x]
    <3> SUFFICES ASSUME NEW x \in Documents PROVE g[x] = Body(g)[x]
      OBVIOUS
    <3>1. \A i \in DOMAIN x.parts : g[x.parts[i]] <=> x.parts[i] \in T
      BY <1>1
    <3>2. g[x] <=> x \in ParsesWith(T)
      BY <1>5
    <3>3. Body(g)[x] <=> x \in ParsesWith(T)
      <4> HIDE DEF g
      <4> QED
        BY <3>1 DEF ParsesWith
    <3>4. g[x] \in BOOLEAN /\ Body(g)[x] \in BOOLEAN
      OBVIOUS
    <3> QED
      BY <3>2, <3>3, <3>4
  <2> QED
    BY <2>2
<1>7. ParsesCombined = Body(ParsesCombined)
  <2> HIDE DEF g
  <2>1. \E f : f = Body(f)
    BY <1>6
  <2> QED
    BY <2>1 DEF ParsesCombined
<1> QED
  BY <1>7

\* Likewise, the documents within one are those in every set that has with each its parts.
LEMMA WithinDefined ==
  ASSUME NEW d \in Documents \cup {NoDoc}
  PROVE  Within[d] = {d} \cup UNION {Within[p] : p \in PartsOf(d)}
<1> DEFINE D == Documents \cup {NoDoc}
           Body(f) == [x \in D |->
             {x} \cup IF IsCombined(x.algorithm)
                      THEN UNION {f[x.parts[i]] : i \in {j \in DOMAIN x.parts : x.parts[j].text # "missing"}}
                      ELSE {}]
           Closed == {S \in SUBSET D : \A x \in S : PartsOf(x) \subseteq S}
           g == [x \in D |-> {y \in D : \A S \in Closed : x \in S => y \in S}]
<1>1. \A x \in D : PartsOf(x) \subseteq D
  BY DocumentsAssumption DEF PartsOf, NoDoc, Document, IsCombined
<1>2. ASSUME NEW x \in D PROVE g[x] = {x} \cup UNION {g[y] : y \in PartsOf(x)}
  <2> DEFINE A == {x} \cup UNION {g[y] : y \in PartsOf(x)}
  <2>1. A \subseteq g[x]
    <3>1. ASSUME NEW y \in PartsOf(x), NEW z \in g[y] PROVE z \in g[x]
      <4>1. z \in D /\ \A S \in Closed : y \in S => z \in S
        BY <1>1, <3>1
      <4>2. \A S \in Closed : x \in S => y \in S
        BY <3>1
      <4> QED
        BY <4>1, <4>2
    <3>2. x \in g[x]
      OBVIOUS
    <3> HIDE DEF g
    <3> QED
      BY <3>1, <3>2
  <2>2. A \in Closed
    <3>1. \A y \in PartsOf(x) : y \in g[y] /\ g[y] \in SUBSET D
      BY <1>1
    <3>2. A \in SUBSET D
      <4> HIDE DEF g, D
      <4> QED
        BY <3>1
    <3>3. ASSUME NEW y \in A PROVE PartsOf(y) \subseteq A
      <4>1. CASE y = x
        <5> HIDE DEF g
        <5> QED
          BY <3>1, <4>1
      <4>2. ASSUME NEW z \in PartsOf(x), y \in g[z] PROVE PartsOf(y) \subseteq g[z]
        <5>1. \A S \in Closed : z \in S => PartsOf(y) \subseteq S
          BY <1>1, <4>2
        <5>2. z \in D /\ PartsOf(y) \subseteq D
          BY <1>1, <4>2
        <5> HIDE DEF Closed, D
        <5> QED
          BY <5>1, <5>2
      <4> HIDE DEF g
      <4> QED
        BY <3>3, <4>1, <4>2
    <3> HIDE DEF A
    <3> QED
      BY <3>2, <3>3
  <2>3. g[x] \subseteq A
    <3>1. x \in A
      OBVIOUS
    <3> HIDE DEF A
    <3> QED
      BY <2>2, <3>1
  <2> HIDE DEF A
  <2>4. g[x] = A
    BY <2>1, <2>3
  <2> QED
    BY <2>4 DEF A
<1>3. \A f : \A x \in D : Body(f)[x] = {x} \cup UNION {f[y] : y \in PartsOf(x)}
  BY DEF PartsOf
<1>4. g = Body(g)
  <2>1. \A x \in D : g[x] = Body(g)[x]
    <3> HIDE DEF g, Body, D
    <3> QED
      BY <1>2, <1>3
  <2>2. g = [x \in D |-> g[x]] /\ Body(g) = [x \in D |-> Body(g)[x]]
    OBVIOUS
  <2> HIDE DEF g, Body
  <2> QED
    BY <2>1, <2>2
<1>5. Within = Body(Within)
  <2> HIDE DEF g
  <2>1. \E f : f = Body(f)
    BY <1>4
  <2> QED
    BY <2>1 DEF Within
<1> HIDE DEF Body
<1> QED
  BY <1>3, <1>5

\* What parses is what has nothing unreadable in it.
LEMMA ParsedIsReadable == \A d \in Documents \cup {NoDoc} : ParsesRecognition(d) <=> ~UnreadableReco(d)
<1>1. ASSUME NEW d \in Documents \cup {NoDoc}
      PROVE  UnreadableReco(d) <=> Malformed(d) \/ \E p \in PartsOf(d) : UnreadableReco(p)
  <2>1. Within[d] = {d} \cup UNION {Within[p] : p \in PartsOf(d)}
    BY WithinDefined
  <2> QED
    BY <2>1 DEF UnreadableReco
<1>2. ASSUME NEW d \in Documents \cup {NoDoc}
      PROVE  ParsesResults(d) <=> ~Malformed(d)
  <2>1. d.text \in {"missing", "malformed", "present"} /\ d.items \in Seq({"good", "bad"})
    <3>1. CASE d \in Documents
      BY <3>1, DocumentsAssumption
    <3>2. CASE d = NoDoc
      <4>1. d.text = "missing" /\ d.items = <<>>
        BY <3>2 DEF NoDoc, Document
      <4> QED
        BY <4>1
    <3> QED
      BY <1>2, <3>1, <3>2
  <2>2. /\ d.items = <<>> <=> DOMAIN d.items = {}
        /\ \A i \in DOMAIN d.items : d.items[i] \in {"good", "bad"}
    <3>1. DOMAIN d.items = 1..Len(d.items) /\ Len(d.items) \in Nat
      BY <2>1
    <3>2. d.items = <<>> <=> Len(d.items) = 0
      BY <2>1
    <3>3. d.items = <<>> <=> DOMAIN d.items = {}
      BY <3>1, <3>2
    <3>4. \A i \in 1..Len(d.items) : d.items[i] \in {"good", "bad"}
      BY <2>1
    <3> QED
      BY <3>1, <3>3, <3>4
  <2>3. "bad" \in {d.items[i] : i \in DOMAIN d.items} <=> \E i \in DOMAIN d.items : d.items[i] = "bad"
    OBVIOUS
  <2> QED
    BY <2>1, <2>2, <2>3 DEF ParsesResults, Malformed, ParsesResult
<1>3. ASSUME NEW d \in Documents \cup {NoDoc}, ~IsCombined(d.algorithm)
      PROVE  ParsesRecognition(d) <=> ~UnreadableReco(d)
  BY <1>1, <1>2, <1>3 DEF ParsesRecognition, PartsOf
<1>4. ASSUME NEW d \in Documents, IsCombined(d.algorithm),
             \A i \in DOMAIN d.parts : ParsesRecognition(d.parts[i]) <=> ~UnreadableReco(d.parts[i])
      PROVE  ParsesRecognition(d) <=> ~UnreadableReco(d)
  <2>1. ParsesRecognition(d) <=> d.text = "missing" \/ (d.text = "present" /\
          \A i \in DOMAIN d.parts : d.parts[i].text # "missing" => ParsesRecognition(d.parts[i]))
    BY <1>4, ParsesDefined DEF ParsesRecognition
  <2>2. (\E p \in PartsOf(d) : UnreadableReco(p)) <=>
          \E i \in DOMAIN d.parts : d.parts[i].text # "missing" /\ UnreadableReco(d.parts[i])
    BY <1>4 DEF PartsOf
  <2>3. /\ d.text \in {"missing", "malformed", "present"} /\ d.items = <<>>
        /\ d.text # "present" => d.parts = <<>>
    BY <1>4, DocumentsAssumption
  <2>4. Malformed(d) <=> d.text = "malformed"
    BY <1>4, <2>3 DEF Malformed, IsCombined
  <2>5. DOMAIN <<>> = {}
    OBVIOUS
  <2> QED
    BY <1>1, <1>4, <2>1, <2>2, <2>3, <2>4, <2>5
<1> DEFINE Wrong == {d \in Documents : ~(ParsesRecognition(d) <=> ~UnreadableReco(d))}
<1>5. ASSUME Wrong # {} PROVE FALSE
  <2>1. PICK d \in Wrong : \A i \in DOMAIN d.parts : d.parts[i] \notin Wrong
    <3>2. Wrong \in SUBSET Documents
      OBVIOUS
    <3>3. Wrong # {}
      BY <1>5
    <3> HIDE DEF Wrong
    <3>1. Wrong \in (SUBSET Documents) \ {{}}
      <4>1. \A x : x \in {{}} <=> x = {}
        OBVIOUS
      <4>2. Wrong \notin {{}}
        BY <3>3, <4>1
      <4> QED
        BY <3>2, <4>2
    <3> QED
      BY <3>1, DocumentsAssumption
  <2>2. \A i \in DOMAIN d.parts : d.parts[i] \in Documents
    BY DocumentsAssumption
  <2> QED
    BY <1>3, <1>4, <2>1, <2>2
<1>6. ParsesRecognition(NoDoc) <=> ~UnreadableReco(NoDoc)
  BY <1>3 DEF NoDoc, Document, IsCombined
<1> QED
  BY <1>5, <1>6

\* An action's detail is read as far as it can be.
LEMMA ReadableAction ==
  ASSUME NEW d \in ActDocs \cup {NoDoc}
  PROVE  ParsesAction(d) <=> ~UnreadableAct(d)
BY DocumentsAssumption DEF ParsesAction, UnreadableAct, NoDoc, Document

\* Nothing is told of a recognition or an action that is not known.
LEMMA NothingReadable == ~UnreadableReco(NoDoc) /\ ~UnreadableAct(NoDoc)
<1>1. ParsesRecognition(NoDoc) /\ ParsesAction(NoDoc)
  BY DEF ParsesRecognition, ParsesResults, ParsesAction, NoDoc, Document, IsCombined
<1> QED
  BY <1>1, ParsedIsReadable, ReadableAction

\* A step of the process is one of the details, or leaves them alone.
LEMMA DetailSteps == [Next]_vars => [DetailNext]_detailVars
BY DEF Next, vars, scriptVars, ProcessNext, Uses

\* The framework's tasks
TaskTypes == [status : Statuses, nodes : Seq(NodesOf), known : BOOLEAN]
\* The queries
QueryTypes ==
  [pc : {"idle", "run", "size", "data", "node", "reco", "action", "done"}, kind : Queries,
   id : Ids \cup {0}, from : Nat, size : Nat, said : Statuses, status : Statuses, node : NodesOf,
   out : Seq(NodesOf), cleared : BOOLEAN, refused : BOOLEAN, error : BOOLEAN]
\* A task has as many nodes as it may have, and one that is known was posted.
TaskFits(t) == Len(t.nodes) <= MaxNodes /\ (t.known => t.status # "invalid")
\* The types
DetailTypes ==
  /\ tasks \in [Ids -> TaskTypes] /\ \A id \in Ids : TaskFits(tasks[id])
  /\ taskJob \in [id : Ids \cup {0}, final : Statuses, err : BOOLEAN]
  /\ query \in QueryTypes

\* The caller's job is that of a posted task, and a status kept from Wait is the task's and final.
TaskJobFits ==
  /\ taskJob.id # 0 => tasks[taskJob.id].status # "invalid"
  /\ taskJob.final # "invalid" =>
       taskJob.id # 0 /\ taskJob.final \in Ended /\ tasks[taskJob.id].status = taskJob.final

\* At a node of the task
AtNode == {"node", "reco", "action"}
\* What a query asks for is there: with each step, the nodes from the first one asked for up to the
\* last one are nodes of the task.
SizeFits(q) ==
  /\ q.kind \in {"recognition", "action"} => q.id = 0
  /\ q.kind = "task" => q.from = 0
  /\ q.kind # "task" => q.said = "invalid" /\ q.status = "invalid"
  /\ q.pc \in {"idle", "run", "size", "data"} =>
       q.kind = "task" /\ q.out = <<>> /\ q.status = "invalid"
  /\ q.pc \in {"run", "size"} => q.size = 0
  /\ q.pc = "data" => q.size > 0
  /\ q.pc = "node" => q.kind \in {"task", "node"}
  /\ q.pc \in AtNode => Len(q.out) < q.size
  /\ q.pc = "done" /\ ~q.error => Len(q.out) = q.size
  /\ Len(q.out) <= q.size
  /\ q.error => q.pc = "done"
  /\ q.id = 0 => q.from + q.size <= 1
  /\ q.id # 0 => /\ tasks[q.id].status # "invalid"
                 /\ q.from + q.size <= Len(tasks[q.id].nodes)
\* Nothing unreadable is told, and an error has its reason.
ReadsFits(q) ==
  /\ \A i \in 1..Len(q.out) : ~UnreadableNode(q.out[i])
  /\ q.error => q.refused \/ UnreadableNode(q.node)
  /\ q.pc = "action" => ~UnreadableReco(q.node.reco)
  /\ q.pc = "reco" /\ q.kind = "recognition" => q.node.action = NoDoc
\* What is told of a node is its recognition, and all of it if it was complete.
Tells(n, m) == n.reco = m.reco /\ (n.complete => n = m)
\* Until the cache is cleared, what was told is the task's: tasks only grow (GrowsTo), and those that
\* ended do not change, so the nodes told remain true and a final status comes with all of them.
ToldFits(q) ==
  LET t == tasks[q.id] IN
  ~q.cleared /\ ~q.error /\ q.kind \in {"task", "node"} =>
    /\ q.pc \in AtNode \cup {"data", "done"} => q.id # 0
    /\ q.pc \in AtNode \cup {"data"} => t.known
    /\ \A i \in 1..Len(q.out) : Tells(q.out[i], t.nodes[q.from + i])
    /\ q.pc \in {"reco", "action"} => Tells(q.node, t.nodes[q.from + Len(q.out) + 1])
    /\ q.kind = "task" /\ q.pc \in AtNode \cup {"done"} /\ q.size # 0 => q.status # "invalid"
    /\ q.status \in Ended =>
         /\ q.id # 0 /\ t.status = q.status /\ q.size = Len(t.nodes)
         /\ \A i \in 1..Len(q.out) : q.out[i] = t.nodes[i]
         /\ q.pc \in {"reco", "action"} => q.node = t.nodes[Len(q.out) + 1]
    /\ q.said \in Ended =>
         /\ q.id # 0 /\ t.status = q.said
         /\ q.pc \in AtNode \cup {"data", "done"} => q.size = Len(t.nodes)
         /\ q.pc \in AtNode \cup {"done"} /\ q.size # 0 => q.status = q.said
\* The query of the caller
QueryFits(q) == SizeFits(q) /\ ReadsFits(q) /\ ToldFits(q)
\* The invariant of the details
DetailInv == DetailTypes /\ TaskJobFits /\ QueryFits(query)

\* Nothing is a document and a node without one a node.
LEMMA NodeParts ==
  /\ NoDoc \in RecoDocs \cup {NoDoc} /\ NoDoc \in ActDocs \cup {NoDoc}
  /\ NoQuery.node \in NodesOf /\ <<>> \in Seq(NodesOf) /\ Len(<<>>) = 0
BY DEF NoQuery, Node, NodesOf

\* The fields of no query
LEMMA NoQueryTyped ==
  /\ NoQuery \in QueryTypes
  /\ NoQuery.pc = "idle" /\ NoQuery.kind = "task" /\ NoQuery.id = 0 /\ NoQuery.from = 0
  /\ NoQuery.size = 0 /\ NoQuery.said = "invalid" /\ NoQuery.status = "invalid"
  /\ NoQuery.out = <<>> /\ NoQuery.node.reco = NoDoc /\ NoQuery.node.action = NoDoc
  /\ ~NoQuery.cleared /\ ~NoQuery.refused /\ ~NoQuery.error
<1>1. "invalid" \in Statuses /\ "task" \in Queries
  BY DEF Statuses, Queries
<1> QED
  BY <1>1, NodeParts DEF QueryTypes, NoQuery, Node

\* No query tells anything.
LEMMA NoQueryFits == QueryFits(NoQuery)
BY NodeParts DEF QueryFits, SizeFits, ReadsFits, ToldFits, NoQuery, AtNode, Ended, Queries

\* A query that is refused
LEMMA RefusedQuery ==
  ASSUME NEW q \in QueryTypes, QueryFits(q)
  PROVE  Refuse(q) \in QueryTypes /\ QueryFits(Refuse(q))
<1> DEFINE r == Refuse(q)
<1>1. /\ r \in QueryTypes /\ r.pc = "done" /\ r.error /\ r.refused
      /\ r.kind = q.kind /\ r.id = q.id /\ r.from = q.from /\ r.size = q.size /\ r.said = q.said
      /\ r.status = q.status /\ r.node = q.node /\ r.out = q.out
  BY DEF Refuse, Fail, QueryTypes
<1> HIDE DEF r
<1>2. SizeFits(r)
  BY <1>1 DEF QueryFits, SizeFits, AtNode
<1>3. ReadsFits(r)
  BY <1>1 DEF QueryFits, ReadsFits
<1>4. ToldFits(r)
  BY <1>1 DEF ToldFits
<1>5. r \in QueryTypes /\ QueryFits(r)
  BY <1>1, <1>2, <1>3, <1>4 DEF QueryFits
<1> QED
  BY <1>5 DEF r

\* A query that meets what cannot be read
LEMMA FailedQuery ==
  ASSUME NEW q \in QueryTypes, QueryFits(q), UnreadableNode(q.node)
  PROVE  Fail(q) \in QueryTypes /\ QueryFits(Fail(q))
<1> DEFINE r == Fail(q)
<1>1. /\ r \in QueryTypes /\ r.pc = "done" /\ r.error
      /\ r.kind = q.kind /\ r.id = q.id /\ r.from = q.from /\ r.size = q.size /\ r.said = q.said
      /\ r.status = q.status /\ r.node = q.node /\ r.out = q.out
  BY DEF Fail, QueryTypes
<1> HIDE DEF r
<1>2. SizeFits(r)
  BY <1>1 DEF QueryFits, SizeFits, AtNode
<1>3. ReadsFits(r)
  BY <1>1 DEF QueryFits, ReadsFits
<1>4. ToldFits(r)
  BY <1>1 DEF ToldFits
<1>5. r \in QueryTypes /\ QueryFits(r)
  BY <1>1, <1>2, <1>3, <1>4 DEF QueryFits
<1> QED
  BY <1>5 DEF r

\* A step that changes the query alone
LEMMA QueryChanges ==
  ASSUME DetailInv, UNCHANGED <<tasks, taskJob>>, query' \in QueryTypes, QueryFits(query')
  PROVE  DetailInv'
<1>1. DetailTypes'
  BY DEF DetailInv, DetailTypes
<1>2. TaskJobFits'
  BY DEF DetailInv, TaskJobFits
<1>3. QueryFits(query)'
  BY DEF QueryFits, SizeFits, ReadsFits, ToldFits
<1> QED
  BY <1>1, <1>2, <1>3 DEF DetailInv

\* What may become of a task that was posted: nodes are added, and what a complete one says stays.
GrowsTo(t, u) ==
  /\ u.status # "invalid" /\ u.known = t.known
  /\ t.status \in Ended => u.status = t.status /\ u.nodes = t.nodes
  /\ Len(t.nodes) <= Len(u.nodes)
  /\ \A i \in 1..Len(t.nodes) :
       u.nodes[i].reco = t.nodes[i].reco /\ (t.nodes[i].complete => u.nodes[i] = t.nodes[i])
\* All tasks grow.
Grow == \A id \in Ids : tasks[id].status # "invalid" => GrowsTo(tasks[id], tasks'[id])

\* What has been told remains true while tasks grow.
LEMMA GrowthFits ==
  ASSUME DetailInv, Grow, UNCHANGED query, DetailTypes'
  PROVE  QueryFits(query)'
<1> DEFINE q == query
           t == tasks[q.id]
           u == tasks'[q.id]
<1>0. q \in QueryTypes /\ query' = q /\ QueryFits(q)
  BY DEF DetailInv, DetailTypes
<1>1. q.id # 0 => q.id \in Ids /\ GrowsTo(t, u) /\ t \in TaskTypes /\ u \in TaskTypes
  BY <1>0 DEF Grow, QueryFits, SizeFits, QueryTypes, DetailInv, DetailTypes
<1>2. SizeFits(query)'
  <2>1. q.id # 0 => /\ u.status # "invalid"
                    /\ q.from + q.size <= Len(u.nodes)
    <3>1. q.from + q.size \in Nat
      BY <1>0 DEF QueryTypes
    <3>2. q.id # 0 => Len(t.nodes) \in Nat /\ Len(u.nodes) \in Nat
      BY <1>1 DEF TaskTypes
    <3> QED
      BY <1>0, <1>1, <3>1, <3>2 DEF QueryFits, SizeFits, GrowsTo
  <2> QED
    BY <1>0, <2>1 DEF QueryFits, SizeFits
<1>3. ReadsFits(query)'
  BY <1>0 DEF QueryFits, ReadsFits
<1>4. ToldFits(query)'
  <2> SUFFICES ASSUME ~q.cleared, ~q.error, q.kind \in {"task", "node"}
               PROVE  ToldFits(query)'
    BY <1>0 DEF ToldFits
  <2>1. CASE q.id = 0
    <3>1. q.pc \notin AtNode \cup {"data", "done"} /\ q.status \notin Ended /\ q.said \notin Ended
      BY <1>0, <2>1 DEF QueryFits, ToldFits
    <3>2. Len(q.out) = 0
      BY <1>0, <3>1, NodeParts DEF QueryFits, SizeFits, QueryTypes, AtNode
    <3> QED
      BY <1>0, <2>1, <3>1, <3>2 DEF ToldFits, AtNode
  <2>2. CASE q.id # 0
    <3>1. /\ q.id \in Ids /\ GrowsTo(t, u) /\ Len(t.nodes) \in Nat /\ Len(q.out) \in Nat
          /\ q.from \in Nat /\ q.size \in Nat
      BY <1>0, <1>1, <2>2 DEF TaskTypes, QueryTypes
    <3>2. /\ q.from + q.size <= Len(t.nodes) /\ Len(q.out) <= q.size
          /\ q.pc \in {"reco", "action"} => Len(q.out) < q.size
          /\ q.kind = "task" => q.from = 0
          /\ q.kind # "task" => q.status = "invalid" /\ q.said = "invalid"
      BY <1>0, <2>2 DEF QueryFits, SizeFits, AtNode
    <3>3. ToldFits(q)
      BY <1>0 DEF QueryFits
    <3>4. ASSUME NEW i \in 1..Len(t.nodes), NEW n, Tells(n, t.nodes[i]) PROVE Tells(n, u.nodes[i])
      BY <3>1, <3>4 DEF GrowsTo, Tells
    <3>12. \A a, b, c, l \in Nat : a + b <= l /\ c <= b =>
             (\A i \in 1..c : a + i \in 1..l) /\ (c < b => a + c + 1 \in 1..l)
      OBVIOUS
    <3>5. \A i \in 1..Len(q.out) : q.from + i \in 1..Len(t.nodes)
      BY <3>1, <3>2, <3>12
    <3>6. q.pc \in {"reco", "action"} => q.from + Len(q.out) + 1 \in 1..Len(t.nodes)
      BY <3>1, <3>2, <3>12
    <3>7. \A i \in 1..Len(q.out) : Tells(q.out[i], u.nodes[q.from + i])
      BY <3>3, <3>4, <3>5 DEF ToldFits
    <3>8. q.pc \in {"reco", "action"} => Tells(q.node, u.nodes[q.from + Len(q.out) + 1])
      BY <3>3, <3>4, <3>6 DEF ToldFits
    <3>9. q.status \in Ended \/ q.said \in Ended => u.status = t.status /\ u.nodes = t.nodes
      BY <3>1, <3>3 DEF ToldFits, GrowsTo
    <3>10. u.known = t.known
      BY <3>1 DEF GrowsTo
    <3> HIDE DEF t, u
    <3>11. ToldFits(query)' <=>
      /\ q.pc \in AtNode \cup {"data", "done"} => q.id # 0
      /\ q.pc \in AtNode \cup {"data"} => u.known
      /\ \A i \in 1..Len(q.out) : Tells(q.out[i], u.nodes[q.from + i])
      /\ q.pc \in {"reco", "action"} => Tells(q.node, u.nodes[q.from + Len(q.out) + 1])
      /\ q.kind = "task" /\ q.pc \in AtNode \cup {"done"} /\ q.size # 0 => q.status # "invalid"
      /\ q.status \in Ended =>
           /\ q.id # 0 /\ u.status = q.status /\ q.size = Len(u.nodes)
           /\ \A i \in 1..Len(q.out) : q.out[i] = u.nodes[i]
           /\ q.pc \in {"reco", "action"} => q.node = u.nodes[Len(q.out) + 1]
      /\ q.said \in Ended =>
           /\ q.id # 0 /\ u.status = q.said
           /\ q.pc \in AtNode \cup {"data", "done"} => q.size = Len(u.nodes)
           /\ q.pc \in AtNode \cup {"done"} /\ q.size # 0 => q.status = q.said
      BY <1>0 DEF ToldFits, u, Tells
    <3> QED
      BY <2>2, <3>3, <3>7, <3>8, <3>9, <3>10, <3>11 DEF ToldFits, t
  <2> QED
    BY <2>1, <2>2
<1> QED
  BY <1>2, <1>3, <1>4 DEF QueryFits

\* A change of one task that lets it grow
LEMMA OneGrows ==
  ASSUME DetailTypes, NEW id \in Ids, NEW u \in TaskTypes, TaskFits(u),
         tasks' = [tasks EXCEPT ![id] = u],
         tasks[id].status # "invalid" => GrowsTo(tasks[id], u)
  PROVE  /\ tasks' \in [Ids -> TaskTypes] /\ \A i \in Ids : TaskFits(tasks'[i])
         /\ Grow /\ tasks'[id] = u
<1>1. tasks' \in [Ids -> TaskTypes] /\ tasks'[id] = u /\ \A i \in Ids \ {id} : tasks'[i] = tasks[i]
  BY DEF DetailTypes
<1>2. \A i \in Ids : tasks[i].status # "invalid" => GrowsTo(tasks[i], tasks[i])
  <2>1. \A i \in Ids : Len(tasks[i].nodes) \in Nat
    BY DEF DetailTypes, TaskTypes
  <2> QED
    BY <2>1 DEF GrowsTo
<1> QED
  BY <1>1, <1>2 DEF Grow, DetailTypes

\* A step that lets one task grow
LEMMA GrownInv ==
  ASSUME DetailInv, NEW id \in Ids, NEW u \in TaskTypes, Len(u.nodes) <= MaxNodes,
         tasks' = [tasks EXCEPT ![id] = u], GrowsTo(tasks[id], u), UNCHANGED <<taskJob, query>>
  PROVE  DetailInv'
<1>1. /\ tasks' \in [Ids -> TaskTypes] /\ \A i \in Ids : TaskFits(tasks'[i])
      /\ Grow
  BY OneGrows DEF DetailInv, TaskFits, GrowsTo
<1>2. DetailTypes'
  BY <1>1 DEF DetailInv, DetailTypes
<1>3. QueryFits(query)'
  BY <1>1, <1>2, GrowthFits
<1>4. TaskJobFits'
  <2>1. taskJob.id # 0 => taskJob.id \in Ids
    BY DEF DetailInv, DetailTypes
  <2> QED
    BY <1>1, <2>1 DEF DetailInv, TaskJobFits, Grow, GrowsTo, Ended
<1> QED
  BY <1>2, <1>3, <1>4 DEF DetailInv

\* The framework begins a task.
LEMMA TaskBeginsFits == ASSUME DetailInv, NEW id \in Ids, TaskBegins(id) PROVE DetailInv'
<1> DEFINE t == tasks[id]
           u == [t EXCEPT !.status = "running"]
<1>1. t \in TaskTypes /\ Len(t.nodes) <= MaxNodes /\ Len(t.nodes) \in Nat
  BY DEF DetailInv, DetailTypes, TaskTypes, TaskFits
<1>2. u \in TaskTypes /\ u.nodes = t.nodes /\ u.known = t.known /\ u.status = "running"
  BY <1>1 DEF TaskTypes, Statuses
<1>3. t.status = "pending" /\ tasks' = [tasks EXCEPT ![id] = u] /\ UNCHANGED <<taskJob, query>>
  BY DEF TaskBegins, DetailInv, DetailTypes
<1>4. GrowsTo(t, u)
  BY <1>1, <1>2, <1>3 DEF GrowsTo, Ended
<1> HIDE DEF u
<1> QED
  BY <1>1, <1>2, <1>3, <1>4, GrownInv

\* A node begins.
LEMMA NodeBeginsFits ==
  ASSUME DetailInv, NEW id \in Ids, NEW reco \in RecoDocs, NodeBegins(id, reco)
  PROVE  DetailInv'
<1> DEFINE t == tasks[id]
           n == Node(reco, NoDoc, FALSE)
           u == [t EXCEPT !.nodes = Append(@, n)]
<1>1. t \in TaskTypes /\ Len(t.nodes) \in Nat /\ t.nodes \in Seq(NodesOf)
  BY DEF DetailInv, DetailTypes, TaskTypes
<1>2. n \in NodesOf
  BY NodeParts DEF NodesOf, Node
<1> HIDE DEF n
<1>3. /\ Append(t.nodes, n) \in Seq(NodesOf) /\ Len(Append(t.nodes, n)) = Len(t.nodes) + 1
      /\ \A i \in 1..Len(t.nodes) : Append(t.nodes, n)[i] = t.nodes[i]
  BY <1>1, <1>2
<1>4. u \in TaskTypes /\ u.nodes = Append(t.nodes, n) /\ u.known = t.known /\ u.status = t.status
  BY <1>1, <1>3 DEF TaskTypes
<1>5. /\ t.status = "running" /\ tasks' = [tasks EXCEPT ![id] = u] /\ UNCHANGED <<taskJob, query>>
      /\ Len(t.nodes) < MaxNodes
  BY DEF NodeBegins, DetailInv, DetailTypes, LastNode, n
<1>6. GrowsTo(t, u)
  BY <1>1, <1>3, <1>4, <1>5 DEF GrowsTo, Ended
<1> HIDE DEF u
<1>7. Len(u.nodes) <= MaxNodes
  BY <1>1, <1>3, <1>4, <1>5, DocumentsAssumption
<1> QED
  BY <1>4, <1>5, <1>6, <1>7, GrownInv

\* A node ends.
LEMMA NodeEndsFits ==
  ASSUME DetailInv, NEW id \in Ids, NEW action \in ActDocs, NodeEnds(id, action)
  PROVE  DetailInv'
<1> DEFINE t == tasks[id]
           l == Len(t.nodes)
           n == [t.nodes[l] EXCEPT !.action = action, !.complete = TRUE]
           u == [t EXCEPT !.nodes = [t.nodes EXCEPT ![l] = n]]
<1>1. t \in TaskTypes /\ l \in Nat /\ t.nodes \in Seq(NodesOf) /\ l <= MaxNodes
  BY DEF DetailInv, DetailTypes, TaskTypes, TaskFits
<1>2. t.status = "running" /\ l \in 1..l /\ ~t.nodes[l].complete /\ t.nodes[l] \in NodesOf
  BY <1>1 DEF NodeEnds, InNode, LastNode
<1>3. n \in NodesOf /\ n.reco = t.nodes[l].reco
  BY <1>2 DEF NodesOf
<1>4. tasks' = [tasks EXCEPT ![id] = u] /\ UNCHANGED <<taskJob, query>>
  <2> DEFINE m == [t.nodes[l] EXCEPT !.action = action]
             t1 == [t EXCEPT !.nodes = [t.nodes EXCEPT ![l] = m]]
             T1 == [tasks EXCEPT ![id] = t1]
  <2>1. tasks' = [T1 EXCEPT ![id] = [T1[id] EXCEPT !.nodes =
                    [T1[id].nodes EXCEPT ![l] = [T1[id].nodes[l] EXCEPT !.complete = TRUE]]]]
    BY DEF NodeEnds, LastNode
  <2>2. tasks \in [Ids -> TaskTypes]
    BY DEF DetailInv, DetailTypes
  <2>3. T1[id] = t1
    BY <2>2
  <2>4. t1.nodes = [t.nodes EXCEPT ![l] = m]
    BY <1>1 DEF TaskTypes
  <2>5. t1.nodes[l] = m
    BY <1>1, <1>2, <2>4
  <2>6. [m EXCEPT !.complete = TRUE] = n
    BY <1>2 DEF NodesOf
  <2> HIDE DEF m, n
  <2>7. [t1.nodes EXCEPT ![l] = n] = [t.nodes EXCEPT ![l] = n]
    <3> HIDE DEF t1
    <3> QED
      BY <1>1, <1>2, <2>4
  <2>8. [t1 EXCEPT !.nodes = [t.nodes EXCEPT ![l] = n]] = u
    BY <1>1 DEF TaskTypes
  <2>9. tasks' = [T1 EXCEPT ![id] = u]
    <3> HIDE DEF t1, T1, u
    <3> QED
      BY <2>1, <2>3, <2>5, <2>6, <2>7, <2>8
  <2>10. [T1 EXCEPT ![id] = u] = [tasks EXCEPT ![id] = u]
    <3> HIDE DEF t1, u
    <3> QED
      BY <2>2
  <2> QED
    BY <2>9, <2>10 DEF NodeEnds
<1> HIDE DEF n
<1>5. /\ [t.nodes EXCEPT ![l] = n] \in Seq(NodesOf) /\ Len([t.nodes EXCEPT ![l] = n]) = l
      /\ \A i \in 1..l : [t.nodes EXCEPT ![l] = n][i] = IF i = l THEN n ELSE t.nodes[i]
  BY <1>1, <1>2, <1>3
<1>6. /\ u \in TaskTypes /\ u.nodes = [t.nodes EXCEPT ![l] = n] /\ u.known = t.known
      /\ u.status = t.status
  BY <1>1, <1>5 DEF TaskTypes
<1> HIDE DEF u
<1>7. GrowsTo(t, u)
  BY <1>1, <1>2, <1>3, <1>5, <1>6 DEF GrowsTo, Ended
<1> QED
  BY <1>1, <1>4, <1>5, <1>6, <1>7, GrownInv

\* A task ends.
LEMMA TaskEndsFits ==
  ASSUME DetailInv, NEW id \in Ids, NEW status \in Ended, TaskEnds(id, status)
  PROVE  DetailInv'
<1> DEFINE t == tasks[id]
           u == [t EXCEPT !.status = status]
<1>1. t \in TaskTypes /\ Len(t.nodes) <= MaxNodes /\ Len(t.nodes) \in Nat
  BY DEF DetailInv, DetailTypes, TaskTypes, TaskFits
<1>2. u \in TaskTypes /\ u.nodes = t.nodes /\ u.known = t.known /\ u.status = status
  BY <1>1 DEF TaskTypes, Statuses
<1>3. /\ t.status \in {"pending", "running"} /\ tasks' = [tasks EXCEPT ![id] = u]
      /\ UNCHANGED <<taskJob, query>>
  BY DEF TaskEnds, DetailInv, DetailTypes
<1>4. GrowsTo(t, u)
  BY <1>1, <1>2, <1>3 DEF GrowsTo, Ended
<1> HIDE DEF u
<1> QED
  BY <1>1, <1>2, <1>3, <1>4, GrownInv

\* The framework takes a task
Taken == [status |-> "pending", nodes |-> <<>>, known |-> TRUE]

\* Posting a task
LEMMA TakeGrows ==
  ASSUME DetailTypes, NEW id \in Free \cup {0}, Take(id)
  PROVE  /\ tasks' \in [Ids -> TaskTypes] /\ \A i \in Ids : TaskFits(tasks'[i])
         /\ Grow /\ id \in Ids \cup {0} /\ (id # 0 => tasks'[id] = Taken)
<1>1. CASE id = 0
  <2>1. \A i \in Ids : Len(tasks[i].nodes) \in Nat
    BY DEF DetailTypes, TaskTypes
  <2> QED
    BY <1>1, <2>1 DEF Take, Grow, GrowsTo, DetailTypes
<1>2. CASE id # 0
  <2>1. id \in Ids /\ tasks[id].status = "invalid" /\ tasks' = [tasks EXCEPT ![id] = Taken]
    BY <1>2 DEF Free, Take, Taken
  <2>2. Taken \in TaskTypes /\ TaskFits(Taken)
    BY NodeParts, DocumentsAssumption DEF Taken, TaskTypes, Statuses, TaskFits
  <2> QED
    BY <2>1, <2>2, OneGrows
<1> QED
  BY <1>1, <1>2

\* A job for a posted task, or for none
LEMMA JobPosted ==
  ASSUME DetailInv, NEW id \in Free \cup {0}, Take(id), taskJob' = NewJob(id), UNCHANGED query
  PROVE  DetailInv'
<1>1. /\ tasks' \in [Ids -> TaskTypes] /\ \A i \in Ids : TaskFits(tasks'[i])
      /\ Grow /\ id \in Ids \cup {0} /\ (id # 0 => tasks'[id] = Taken)
  BY TakeGrows DEF DetailInv
<1>2. taskJob' \in [id : Ids \cup {0}, final : Statuses, err : BOOLEAN]
  BY <1>1 DEF NewJob, Statuses
<1>3. DetailTypes'
  BY <1>1, <1>2 DEF DetailInv, DetailTypes
<1>4. TaskJobFits'
  BY <1>1 DEF TaskJobFits, NewJob, Taken
<1> QED
  BY <1>1, <1>3, <1>4, GrowthFits DEF DetailInv

\* PostTask
LEMMA PostTaskFits == ASSUME DetailInv, NEW id, PostTask(id) PROVE DetailInv'
BY JobPosted DEF PostTask

\* PostRecognition and PostAction
LEMMA PostRecognitionFits ==
  ASSUME DetailInv, NEW id, NEW marshals \in BOOLEAN, PostRecognition(id, marshals)
  PROVE  DetailInv'
<1>1. CASE marshals
  BY <1>1, JobPosted DEF PostRecognition
<1>2. CASE ~marshals
  <2>1. /\ taskJob' = [id |-> 0, final |-> "invalid", err |-> TRUE] /\ UNCHANGED <<tasks, query>>
    BY <1>2 DEF PostRecognition, NewJob
  <2>2. DetailTypes' /\ TaskJobFits'
    BY <2>1 DEF DetailInv, DetailTypes, TaskJobFits, Statuses
  <2>3. QueryFits(query)'
    BY <2>1 DEF DetailInv, QueryFits, SizeFits, ReadsFits, ToldFits
  <2> QED
    BY <2>2, <2>3 DEF DetailInv
<1> QED
  BY <1>1, <1>2

\* ClearCache: what was told stays, and is no longer compared with what is known.
LEMMA ClearCacheFits == ASSUME DetailInv, ClearCache PROVE DetailInv'
<1> DEFINE q == query
<1>1. /\ tasks' \in [Ids -> TaskTypes] /\ taskJob' = taskJob
      /\ \A id \in Ids : /\ tasks'[id].status = tasks[id].status
                         /\ tasks'[id].nodes = tasks[id].nodes /\ ~tasks'[id].known
  BY DEF ClearCache, DetailInv, DetailTypes, TaskTypes
<1>2. /\ query' = [q EXCEPT !.cleared = TRUE] /\ q \in QueryTypes /\ QueryFits(q)
  BY DEF ClearCache, DetailInv, DetailTypes
<1>3. /\ query' \in QueryTypes /\ query'.cleared /\ query'.pc = q.pc /\ query'.kind = q.kind
      /\ query'.id = q.id /\ query'.from = q.from /\ query'.size = q.size /\ query'.said = q.said
      /\ query'.status = q.status /\ query'.node = q.node /\ query'.out = q.out
      /\ query'.refused = q.refused /\ query'.error = q.error
  BY <1>2 DEF QueryTypes
<1>4. DetailTypes'
  BY <1>1, <1>3 DEF DetailInv, DetailTypes, TaskFits
<1>5. TaskJobFits'
  BY <1>1 DEF DetailInv, DetailTypes, TaskJobFits
<1>6. q.id # 0 => q.id \in Ids
  BY <1>2 DEF QueryTypes
<1>7. SizeFits(query)'
  BY <1>1, <1>2, <1>3, <1>6 DEF QueryFits, SizeFits
<1>8. ReadsFits(query)'
  BY <1>2, <1>3 DEF QueryFits, ReadsFits
<1>9. ToldFits(query)'
  BY <1>3 DEF ToldFits
<1> QED
  BY <1>4, <1>5, <1>7, <1>8, <1>9 DEF DetailInv, QueryFits

\* Wait keeps a status that does not change any more.
LEMMA JobWaitFits == ASSUME DetailInv, JobWait PROVE DetailInv'
<1>1. /\ taskJob \in [id : Ids \cup {0}, final : Statuses, err : BOOLEAN]
      /\ tasks \in [Ids -> TaskTypes] /\ UNCHANGED <<tasks, query>>
  BY DEF DetailInv, DetailTypes, JobWait
<1> DEFINE s == FrameworkStatus(taskJob.id)
<1>2. s \in Statuses /\ s \notin {"pending", "running"}
  BY <1>1 DEF FrameworkStatus, JobWait, TaskTypes, Statuses
<1>3. taskJob' = [id |-> taskJob.id, final |-> s, err |-> taskJob.err]
  BY <1>1 DEF JobWait
<1>4. TaskJobFits'
  BY <1>1, <1>2, <1>3 DEF DetailInv, TaskJobFits, FrameworkStatus, Statuses, Ended
<1> HIDE DEF s
<1>5. DetailTypes'
  BY <1>1, <1>2, <1>3 DEF DetailInv, DetailTypes
<1>6. QueryFits(query)'
  BY <1>1 DEF DetailInv, QueryFits, SizeFits, ReadsFits, ToldFits
<1> QED
  BY <1>4, <1>5, <1>6 DEF DetailInv

\* The status that the framework tells
LEMMA StatusTyped ==
  ASSUME DetailInv, NEW id \in Ids \cup {0}
  PROVE  /\ FrameworkStatus(id) \in Statuses
         /\ id # 0 => FrameworkStatus(id) = tasks[id].status
         /\ id = 0 => FrameworkStatus(id) = "invalid"
BY DEF DetailInv, DetailTypes, TaskTypes, FrameworkStatus, Statuses

\* A query that begins to ask for a task's detail
LEMMA SizeAsked ==
  ASSUME DetailInv, NEW id \in Ids \cup {0}, NEW said \in Statuses,
         id # 0 => tasks[id].status # "invalid",
         said \in Ended => id # 0 /\ tasks[id].status = said,
         NEW pc \in {"run", "size"}
  PROVE  LET q == [NoQuery EXCEPT !.pc = pc, !.id = id, !.said = said] IN
         q \in QueryTypes /\ QueryFits(q)
<1> DEFINE q == [NoQuery EXCEPT !.pc = pc, !.id = id, !.said = said]
<1>1. /\ q \in QueryTypes /\ q.pc = pc /\ q.kind = "task" /\ q.id = id /\ q.from = 0
      /\ q.size = 0 /\ q.said = said /\ q.status = "invalid" /\ q.out = <<>>
      /\ ~q.cleared /\ ~q.refused /\ ~q.error
  BY NoQueryTyped DEF QueryTypes
<1> HIDE DEF q
<1>3. SizeFits(q)
  <2>1. id # 0 => Len(tasks[id].nodes) \in Nat
    BY DEF DetailInv, DetailTypes, TaskTypes
  <2> QED
    BY <1>1, <2>1, NodeParts DEF SizeFits, AtNode
<1>4. ReadsFits(q) /\ ToldFits(q)
  BY <1>1, NodeParts DEF ReadsFits, ToldFits, AtNode, Ended
<1> QED
  BY <1>1, <1>3, <1>4 DEF q, QueryFits

\* TaskJob.GetDetail
LEMMA GetDetailFits == ASSUME DetailInv, GetDetail PROVE DetailInv'
<1>1. UNCHANGED <<tasks, taskJob>>
  BY DEF GetDetail, Query
<1>2. CASE taskJob.err
  BY <1>1, <1>2, NoQueryTyped, NoQueryFits, RefusedQuery, QueryChanges DEF GetDetail, Query
<1>3. CASE ~taskJob.err
  <2> DEFINE q == [NoQuery EXCEPT !.pc = "size", !.id = taskJob.id, !.said = JobStatus]
  <2>1. taskJob.id \in Ids \cup {0} /\ taskJob.final \in Statuses
    BY DEF DetailInv, DetailTypes
  <2>2. /\ JobStatus \in Statuses /\ (taskJob.id # 0 => tasks[taskJob.id].status # "invalid")
        /\ JobStatus \in Ended => taskJob.id # 0 /\ tasks[taskJob.id].status = JobStatus
    BY <1>3, <2>1, StatusTyped DEF JobStatus, DetailInv, TaskJobFits, Ended
  <2> HIDE DEF q
  <2>3. q \in QueryTypes /\ QueryFits(q)
    BY <2>1, <2>2, SizeAsked DEF q
  <2>4. query' = q
    BY <1>3 DEF GetDetail, Query, q
  <2> QED
    BY <1>1, <2>3, <2>4, QueryChanges
<1> QED
  BY <1>2, <1>3

\* Context.runTask begins.
LEMMA RunTaskFits == ASSUME DetailInv, NEW id \in Free \cup {0}, RunTask(id) PROVE DetailInv'
<1>1. /\ tasks' \in [Ids -> TaskTypes] /\ \A i \in Ids : TaskFits(tasks'[i])
      /\ Grow /\ id \in Ids \cup {0} /\ (id # 0 => tasks'[id] = Taken) /\ taskJob' = taskJob
  BY TakeGrows DEF DetailInv, RunTask
<1>2. TaskJobFits'
  <2>1. taskJob.id # 0 => taskJob.id \in Ids
    BY DEF DetailInv, DetailTypes
  <2> QED
    BY <1>1, <2>1 DEF DetailInv, TaskJobFits, Grow, GrowsTo, Ended
<1> DEFINE q == IF id = 0 THEN Refuse(NoQuery) ELSE [NoQuery EXCEPT !.pc = "run", !.id = id]
<1>3. q \in QueryTypes /\ q.error = (id = 0)
  <2>1. CASE id = 0
    BY <2>1, NoQueryTyped, NoQueryFits, RefusedQuery DEF Refuse, Fail, NoQuery
  <2>2. CASE id # 0
    BY <1>1, <2>2, NodeParts DEF QueryTypes, NoQuery, Statuses, Queries
  <2> QED
    BY <2>1, <2>2
<1>4. query' = q
  BY DEF RunTask
<1>5. QueryFits(query)'
  <2>1. CASE id = 0
    <3>1. SizeFits(query)'
      BY <1>4, <2>1, NodeParts DEF SizeFits, Refuse, Fail, NoQuery, AtNode
    <3>2. ReadsFits(query)' /\ ToldFits(query)'
      BY <1>4, <2>1, NodeParts DEF ReadsFits, ToldFits, Refuse, Fail, NoQuery
    <3> QED
      BY <3>1, <3>2 DEF QueryFits
  <2>2. CASE id # 0
    <3>1. query' = [pc |-> "run", kind |-> "task", id |-> id, from |-> 0, size |-> 0,
                    said |-> "invalid", status |-> "invalid", node |-> NoQuery.node, out |-> <<>>,
                    cleared |-> FALSE, refused |-> FALSE, error |-> FALSE]
      BY <1>4, <2>2 DEF NoQuery
    <3>2. tasks'[id].status = "pending" /\ Len(tasks'[id].nodes) = 0
      BY <1>1, <2>2, NodeParts DEF Taken
    <3>3. SizeFits(query)'
      BY <3>1, <3>2, NodeParts DEF SizeFits, AtNode
    <3>4. ReadsFits(query)' /\ ToldFits(query)'
      BY <3>1, NodeParts DEF ReadsFits, ToldFits, AtNode, Ended
    <3> QED
      BY <3>3, <3>4 DEF QueryFits
  <2> QED
    BY <2>1, <2>2
<1>6. DetailTypes'
  <2> HIDE DEF q
  <2> QED
    BY <1>1, <1>3, <1>4 DEF DetailInv, DetailTypes
<1> QED
  BY <1>2, <1>5, <1>6 DEF DetailInv

\* Its task has ended.
LEMMA RunTaskEndsFits == ASSUME DetailInv, RunTaskEnds PROVE DetailInv'
<1>1. /\ query \in QueryTypes /\ query.pc = "run" /\ UNCHANGED <<tasks, taskJob>>
      /\ query.id \in Ids \cup {0} /\ QueryFits(query)
  BY DEF DetailInv, DetailTypes, RunTaskEnds, Query, QueryTypes
<1> DEFINE s == FrameworkStatus(query.id)
           q == [query EXCEPT !.pc = "size", !.said = s]
<1>2. s \in Ended /\ s \in Statuses /\ query.id # 0 /\ tasks[query.id].status = s
  BY <1>1, StatusTyped DEF RunTaskEnds, Ended
<1>3. query' = q
  BY DEF RunTaskEnds, Query
<1> HIDE DEF s
<1>4. /\ q \in QueryTypes /\ q.pc = "size" /\ q.said = s
      /\ q.kind = query.kind /\ q.id = query.id /\ q.from = query.from /\ q.size = query.size
      /\ q.status = query.status /\ q.node = query.node /\ q.out = query.out
      /\ q.cleared = query.cleared /\ q.refused = query.refused /\ q.error = query.error
  BY <1>1, <1>2 DEF QueryTypes
<1> HIDE DEF q
<1>5. SizeFits(q)
  BY <1>1, <1>4 DEF QueryFits, SizeFits, AtNode
<1>6. ReadsFits(q)
  BY <1>1, <1>4 DEF QueryFits, ReadsFits
<1>7. ToldFits(q)
  BY <1>1, <1>2, <1>4, NodeParts DEF QueryFits, SizeFits, ToldFits, AtNode, Ended
<1> QED
  BY <1>1, <1>3, <1>4, <1>5, <1>6, <1>7, QueryChanges DEF QueryFits

\* Context.runRecognition
LEMMA RunRecognitionFits ==
  ASSUME DetailInv, NEW reco \in RecoDocs, NEW runs \in BOOLEAN, RunRecognition(reco, runs)
  PROVE  DetailInv'
<1>1. UNCHANGED <<tasks, taskJob>>
  BY DEF RunRecognition, Query
<1>2. CASE ~runs
  BY <1>1, <1>2, NoQueryTyped, NoQueryFits, RefusedQuery, QueryChanges DEF RunRecognition, Query
<1>3. CASE runs
  <2> DEFINE q == [NoQuery EXCEPT !.pc = "reco", !.kind = "recognition", !.node.reco = reco,
                                  !.size = 1]
  <2>1. query' = q
    BY <1>3 DEF RunRecognition, Query
  <2>2. /\ [NoQuery.node EXCEPT !.reco = reco] \in NodesOf
        /\ [NoQuery.node EXCEPT !.reco = reco].action = NoDoc /\ "recognition" \in Queries
    BY NoQueryTyped, NodeParts DEF NodesOf, Queries
  <2>3. /\ q \in QueryTypes /\ q.pc = "reco" /\ q.kind = "recognition" /\ q.id = 0 /\ q.from = 0
        /\ q.size = 1 /\ q.said = "invalid" /\ q.status = "invalid" /\ q.out = <<>>
        /\ q.node.action = NoDoc /\ ~q.cleared /\ ~q.refused /\ ~q.error
    BY <2>2, NoQueryTyped DEF QueryTypes
  <2> HIDE DEF q
  <2>4. QueryFits(q)
    BY <2>3, NodeParts DEF QueryFits, SizeFits, ReadsFits, ToldFits, AtNode
  <2> QED
    BY <1>1, <2>1, <2>3, <2>4, QueryChanges
<1> QED
  BY <1>2, <1>3

\* Context.runAction
LEMMA RunActionFits ==
  ASSUME DetailInv, NEW action \in ActDocs, NEW runs \in BOOLEAN, RunAction(action, runs)
  PROVE  DetailInv'
<1>1. UNCHANGED <<tasks, taskJob>>
  BY DEF RunAction, Query
<1>2. CASE ~runs
  BY <1>1, <1>2, NoQueryTyped, NoQueryFits, RefusedQuery, QueryChanges DEF RunAction, Query
<1>3. CASE runs
  <2> DEFINE q == [NoQuery EXCEPT !.pc = "action", !.kind = "action", !.node.action = action,
                                  !.size = 1]
  <2>1. query' = q
    BY <1>3 DEF RunAction, Query
  <2>2. /\ [NoQuery.node EXCEPT !.action = action] \in NodesOf
        /\ [NoQuery.node EXCEPT !.action = action].reco = NoDoc /\ "action" \in Queries
    BY NoQueryTyped, NodeParts DEF NodesOf, Queries
  <2>3. /\ q \in QueryTypes /\ q.pc = "action" /\ q.kind = "action" /\ q.id = 0 /\ q.from = 0
        /\ q.size = 1 /\ q.said = "invalid" /\ q.status = "invalid" /\ q.out = <<>>
        /\ q.node.reco = NoDoc /\ ~q.cleared /\ ~q.refused /\ ~q.error
    BY <2>2, NoQueryTyped DEF QueryTypes
  <2> HIDE DEF q
  <2>4. QueryFits(q)
    BY <2>3, NodeParts, NothingReadable DEF QueryFits, SizeFits, ReadsFits, ToldFits, AtNode
  <2> QED
    BY <1>1, <2>1, <2>3, <2>4, QueryChanges
<1> QED
  BY <1>2, <1>3

\* GetLatestNode
LEMMA LatestNodeFits == ASSUME DetailInv, NEW id \in Ids, GetLatestNode(id) PROVE DetailInv'
<1>1. /\ UNCHANGED <<tasks, taskJob>> /\ tasks[id].known /\ tasks[id] \in TaskTypes
      /\ LastNode(id) \in Nat /\ LastNode(id) = Len(tasks[id].nodes) /\ id # 0
  BY DEF GetLatestNode, Query, DetailInv, DetailTypes, TaskTypes, LastNode, Ids
<1>2. CASE LastNode(id) = 0
  BY <1>1, <1>2, NoQueryTyped, NoQueryFits, RefusedQuery, QueryChanges DEF GetLatestNode, Query
<1>3. CASE LastNode(id) # 0
  <2> DEFINE l == LastNode(id)
             q == [NoQuery EXCEPT !.pc = "node", !.kind = "node", !.id = id, !.from = l - 1,
                                  !.size = 1]
  <2>1. query' = q
    BY <1>3 DEF GetLatestNode, Query
  <2>2. l - 1 \in Nat /\ (l - 1) + 1 <= Len(tasks[id].nodes) /\ "node" \in Queries
    BY <1>1, <1>3 DEF Queries
  <2>3. /\ q \in QueryTypes /\ q.pc = "node" /\ q.kind = "node" /\ q.id = id /\ q.from = l - 1
        /\ q.size = 1 /\ q.said = "invalid" /\ q.status = "invalid" /\ q.out = <<>>
        /\ ~q.cleared /\ ~q.refused /\ ~q.error
    <3> HIDE DEF l
    <3> QED
      BY <2>2, NoQueryTyped DEF QueryTypes
  <2>5. tasks[id].status # "invalid"
    BY <1>1 DEF DetailInv, DetailTypes, TaskFits
  <2> HIDE DEF q, l
  <2>6. QueryFits(q)
    BY <1>1, <2>2, <2>3, <2>5, NodeParts
    DEF QueryFits, SizeFits, ReadsFits, ToldFits, AtNode, Ended
  <2> QED
    BY <1>1, <2>1, <2>3, <2>6, QueryChanges
<1> QED
  BY <1>2, <1>3

\* What a query has found of its task when it goes on
LEMMA AskedFits ==
  ASSUME DetailInv, query.pc \in {"size", "data", "node"}, Known
  PROVE  /\ query.kind \in {"task", "node"} /\ ~query.cleared /\ ~query.error
         /\ query.id # 0 /\ query.id \in Ids /\ tasks[query.id].known
         /\ tasks[query.id] \in TaskTypes /\ Len(tasks[query.id].nodes) \in Nat
         /\ LastNode(query.id) = Len(tasks[query.id].nodes)
<1>1. query.kind \in {"task", "node"} /\ ~query.error
  BY DEF DetailInv, QueryFits, SizeFits
<1> QED
  BY <1>1 DEF DetailInv, DetailTypes, QueryTypes, TaskTypes, Known, LastNode

\* The number of nodes
LEMMA AskSizeFits == ASSUME DetailInv, AskSize PROVE DetailInv'
<1>1. query \in QueryTypes /\ QueryFits(query) /\ UNCHANGED <<tasks, taskJob>> /\ query.pc = "size"
  BY DEF AskSize, Query, DetailInv, DetailTypes
<1>2. CASE ~Known
  BY <1>1, <1>2, RefusedQuery, QueryChanges DEF AskSize, Query
<1>3. CASE Known
  <2> DEFINE l == LastNode(query.id)
             p == IF l = 0 THEN "done" ELSE "data"
             q == [query EXCEPT !.size = l, !.pc = p]
  <2>1. query' = q
    BY <1>3 DEF AskSize, Query
  <2>2. l \in Nat
    BY <1>1, <1>3, AskedFits
  <2> HIDE DEF l
  <2>3. /\ q \in QueryTypes /\ q.pc = p /\ q.size = l
        /\ q.kind = query.kind /\ q.id = query.id /\ q.from = query.from /\ q.said = query.said
        /\ q.status = query.status /\ q.node = query.node /\ q.out = query.out
        /\ q.cleared = query.cleared /\ q.refused = query.refused /\ q.error = query.error
    BY <1>1, <2>2 DEF QueryTypes
  <2>4. /\ query.kind = "task" /\ query.from = 0 /\ query.out = <<>> /\ query.status = "invalid"
        /\ tasks[query.id].status # "invalid" /\ ~query.error
    BY <1>1, <1>3, AskedFits DEF QueryFits, SizeFits
  <2> HIDE DEF q
  <2>5. SizeFits(q)
    BY <1>1, <1>3, <2>2, <2>3, <2>4, AskedFits, NodeParts DEF SizeFits, AtNode, l
  <2>6. ReadsFits(q)
    BY <1>1, <2>3, <2>4, NodeParts DEF ReadsFits
  <2>7. ToldFits(q)
    BY <1>1, <1>3, <2>3, <2>4, AskedFits, NodeParts DEF QueryFits, ToldFits, AtNode, Ended, l
  <2> QED
    BY <1>1, <2>1, <2>3, <2>5, <2>6, <2>7, QueryChanges DEF QueryFits
<1> QED
  BY <1>2, <1>3

\* Their ids and the status: as many nodes as before, so the status is that of a task with just these.
LEMMA AskDataFits == ASSUME DetailInv, AskData PROVE DetailInv'
<1>1. query \in QueryTypes /\ QueryFits(query) /\ UNCHANGED <<tasks, taskJob>> /\ query.pc = "data"
  BY DEF AskData, Query, DetailInv, DetailTypes
<1>2. CASE ~Known \/ LastNode(query.id) > query.size
  BY <1>1, <1>2, RefusedQuery, QueryChanges DEF AskData, Query
<1>3. CASE Known /\ ~(LastNode(query.id) > query.size)
  <2> DEFINE s == tasks[query.id].status
             q == [query EXCEPT !.pc = "node", !.status = s]
  <2>1. query' = q
    BY <1>3 DEF AskData, Query
  <2>2. s \in Statuses /\ s # "invalid"
    BY <1>1, <1>3, AskedFits DEF TaskTypes, QueryFits, SizeFits
  <2> HIDE DEF s
  <2>3. /\ q \in QueryTypes /\ q.pc = "node" /\ q.status = s
        /\ q.kind = query.kind /\ q.id = query.id /\ q.from = query.from /\ q.said = query.said
        /\ q.size = query.size /\ q.node = query.node /\ q.out = query.out
        /\ q.cleared = query.cleared /\ q.refused = query.refused /\ q.error = query.error
    BY <1>1, <2>2 DEF QueryTypes
  <2>4. /\ query.kind = "task" /\ query.from = 0 /\ query.out = <<>> /\ query.size > 0
        /\ query.size <= Len(tasks[query.id].nodes) /\ ~query.error /\ query.size \in Nat
    BY <1>1, <1>3, AskedFits DEF QueryFits, SizeFits, QueryTypes
  <2>5. query.size = Len(tasks[query.id].nodes)
    BY <1>1, <1>3, <2>4, AskedFits
  <2> HIDE DEF q
  <2>6. SizeFits(q)
    BY <1>1, <2>3, <2>4, NodeParts DEF QueryFits, SizeFits, AtNode
  <2>7. ReadsFits(q)
    BY <1>1, <2>3, <2>4, NodeParts DEF ReadsFits
  <2>8. ToldFits(q)
    <3>1. q.said \in Ended => s = q.said
      BY <1>1, <1>3, <2>3, AskedFits DEF QueryFits, ToldFits, s
    <3> QED
      BY <1>1, <1>3, <2>2, <2>3, <2>4, <2>5, <3>1, AskedFits, NodeParts DEF ToldFits, AtNode, s
  <2> QED
    BY <1>1, <2>1, <2>3, <2>6, <2>7, <2>8, QueryChanges DEF QueryFits
<1> QED
  BY <1>2, <1>3

\* A node
LEMMA AskNodeFits == ASSUME DetailInv, AskNode PROVE DetailInv'
<1>1. query \in QueryTypes /\ QueryFits(query) /\ UNCHANGED <<tasks, taskJob>> /\ query.pc = "node"
  BY DEF AskNode, Query, DetailInv, DetailTypes
<1>2. CASE ~Known
  BY <1>1, <1>2, RefusedQuery, QueryChanges DEF AskNode, Query
<1>3. CASE Known
  <2> DEFINE k == query.from + Len(query.out) + 1
             n == tasks[query.id].nodes[k]
             q == [query EXCEPT !.pc = "reco", !.node = n]
  <2>1. query' = q
    BY <1>3 DEF AskNode, Query
  <2>2. /\ query.from + query.size <= Len(tasks[query.id].nodes) /\ Len(query.out) < query.size
        /\ query.from \in Nat /\ query.size \in Nat /\ Len(query.out) \in Nat
        /\ query.kind \in {"task", "node"} /\ ~query.error
        /\ query.kind = "task" => query.from = 0
    BY <1>1, <1>3, AskedFits DEF QueryFits, SizeFits, QueryTypes, AtNode
  <2>3. k \in 1..Len(tasks[query.id].nodes)
    BY <1>1, <1>3, <2>2, AskedFits
  <2>4. n \in NodesOf
    BY <1>1, <1>3, <2>3, AskedFits DEF TaskTypes
  <2> HIDE DEF n
  <2>5. /\ q \in QueryTypes /\ q.pc = "reco" /\ q.node = n
        /\ q.kind = query.kind /\ q.id = query.id /\ q.from = query.from /\ q.said = query.said
        /\ q.size = query.size /\ q.status = query.status /\ q.out = query.out
        /\ q.cleared = query.cleared /\ q.refused = query.refused /\ q.error = query.error
    BY <1>1, <2>4 DEF QueryTypes
  <2> HIDE DEF q
  <2>6. SizeFits(q)
    BY <1>1, <2>2, <2>5 DEF QueryFits, SizeFits, AtNode
  <2>7. ReadsFits(q)
    BY <1>1, <2>2, <2>5 DEF QueryFits, ReadsFits
  <2>8. ToldFits(q)
    <3>1. q.status \in Ended => q.from = 0
      BY <1>1, <2>2, <2>5 DEF QueryFits, SizeFits, Ended
    <3> HIDE DEF k
    <3>2. q.from + Len(q.out) + 1 = k
      BY <2>5 DEF k
    <3>3. q.from = 0 => Len(q.out) + 1 = k
      BY <2>2, <2>5 DEF k
    <3> QED
      BY <1>1, <1>3, <2>5, <3>1, <3>2, <3>3, AskedFits DEF QueryFits, ToldFits, AtNode, Tells, n
  <2> QED
    BY <1>1, <2>1, <2>5, <2>6, <2>7, <2>8, QueryChanges DEF QueryFits
<1> QED
  BY <1>2, <1>3

\* The node that a query has asked for is known to it, or the cache has been cleared.
LEMMA ForgottenIsCleared ==
  ASSUME DetailInv, query.pc \in {"reco", "action"}
  PROVE  ~Known => query.cleared
BY DEF DetailInv, QueryFits, SizeFits, ToldFits, Known, AtNode

\* A node is told, and the query goes on or is done.
LEMMA NodeDoneFits ==
  ASSUME DetailInv, query.pc \in {"reco", "action"}, UNCHANGED <<tasks, taskJob>>,
         NEW n \in NodesOf, ~UnreadableNode(n), query.cleared \/ n = query.node \/ query.id = 0,
         query.kind \in {"task", "node"} /\ ~query.cleared => n = query.node,
         query' = NodeDone(n)
  PROVE  DetailInv'
<1> DEFINE out == Append(query.out, n)
           p == IF Len(out) = query.size THEN "done" ELSE "node"
           q == [query EXCEPT !.out = out, !.node = NoQuery.node, !.pc = p]
<1>1. /\ query \in QueryTypes /\ QueryFits(query) /\ query.out \in Seq(NodesOf)
      /\ Len(query.out) \in Nat /\ query.size \in Nat /\ query.from \in Nat
  BY DEF DetailInv, DetailTypes, QueryTypes
<1>2. query' = q
  BY DEF NodeDone
<1>3. /\ out \in Seq(NodesOf) /\ Len(out) = Len(query.out) + 1 /\ out[Len(query.out) + 1] = n
      /\ \A i \in 1..Len(query.out) : out[i] = query.out[i]
  BY <1>1
<1> HIDE DEF out
<1>4. /\ q \in QueryTypes /\ q.pc = p /\ q.out = out /\ q.node = NoQuery.node
      /\ q.kind = query.kind /\ q.id = query.id /\ q.from = query.from /\ q.said = query.said
      /\ q.size = query.size /\ q.status = query.status
      /\ q.cleared = query.cleared /\ q.refused = query.refused /\ q.error = query.error
  BY <1>1, <1>3, NoQueryTyped DEF QueryTypes
<1>5. /\ Len(query.out) < query.size /\ ~query.error
      /\ query.id = 0 => query.from + query.size <= 1
      /\ query.kind \in {"recognition", "action"} => query.id = 0
      /\ query.kind \in Queries
  BY <1>1 DEF QueryFits, SizeFits, AtNode, QueryTypes
<1>6. Len(out) <= query.size /\ (p = "node" => Len(out) < query.size /\ query.kind \in {"task", "node"})
  <2>1. p = "node" => Len(out) # query.size
    OBVIOUS
  <2> HIDE DEF p
  <2> QED
    BY <1>1, <1>3, <1>5, <2>1 DEF Queries
<1>7. p \in {"node", "done"} /\ (p = "done" => Len(out) = query.size)
  OBVIOUS
<1> HIDE DEF p, q
<1>8. SizeFits(q)
  BY <1>1, <1>4, <1>5, <1>6, <1>7 DEF QueryFits, SizeFits, AtNode
<1>9. \A i \in 1..Len(out) : out[i] = IF i = Len(query.out) + 1 THEN n ELSE query.out[i]
  BY <1>1, <1>3
<1>10. \A i \in 1..Len(out) : i # Len(query.out) + 1 => i \in 1..Len(query.out)
  BY <1>1, <1>3
<1>11. ReadsFits(q)
  BY <1>1, <1>4, <1>5, <1>7, <1>9, <1>10 DEF QueryFits, ReadsFits
<1>12. ToldFits(q)
  <2> DEFINE t == tasks[query.id]
  <2> SUFFICES ASSUME ~query.cleared, query.kind \in {"task", "node"}
               PROVE  ToldFits(q)
    BY <1>4 DEF ToldFits
  <2>1. /\ n = query.node /\ ToldFits(query) /\ query.id # 0 /\ t.known
        /\ \A i \in 1..Len(query.out) : Tells(query.out[i], t.nodes[query.from + i])
        /\ Tells(n, t.nodes[query.from + (Len(query.out) + 1)])
    <3>1. query.from + (Len(query.out) + 1) = query.from + Len(query.out) + 1
      BY <1>1
    <3> QED
      BY <1>1, <1>5, <3>1 DEF QueryFits, ToldFits, AtNode
  <2>2. \A i \in 1..Len(out) : Tells(out[i], t.nodes[query.from + i])
    BY <1>9, <1>10, <2>1
  <2>3. /\ query.kind = "task" => query.status # "invalid"
        /\ query.status \in Ended =>
             /\ t.status = query.status /\ query.size = Len(t.nodes)
             /\ \A i \in 1..Len(query.out) : query.out[i] = t.nodes[i]
             /\ n = t.nodes[Len(query.out) + 1]
        /\ query.said \in Ended =>
             t.status = query.said /\ query.size = Len(t.nodes) /\ query.status = query.said
    <3>1. query.size # 0
      BY <1>1, <1>5
    <3> QED
      BY <1>1, <1>5, <2>1, <3>1 DEF ToldFits, AtNode
  <2>4. query.status \in Ended => \A i \in 1..Len(out) : out[i] = t.nodes[i]
    BY <1>9, <1>10, <2>3
  <2> HIDE DEF t
  <2> QED
    BY <1>4, <1>5, <1>7, <2>1, <2>2, <2>3, <2>4 DEF ToldFits, AtNode, t
<1> QED
  BY <1>2, <1>4, <1>8, <1>11, <1>12, QueryChanges DEF QueryFits

\* A node's recognition
LEMMA AskRecognitionFits == ASSUME DetailInv, AskRecognition PROVE DetailInv'
<1> DEFINE n == IF Known THEN query.node ELSE [query.node EXCEPT !.reco = NoDoc]
<1>1. /\ query \in QueryTypes /\ QueryFits(query) /\ UNCHANGED <<tasks, taskJob>>
      /\ query.pc = "reco" /\ query.node \in NodesOf
  BY DEF AskRecognition, Query, DetailInv, DetailTypes, QueryTypes
<1>2. n \in NodesOf /\ n.action = query.node.action
  BY <1>1, NodeParts DEF NodesOf
<1>3. Known \/ query.cleared
  BY <1>1, ForgottenIsCleared
<1>4. ParsesRecognition(n.reco) <=> ~UnreadableReco(n.reco)
  <2>1. n.reco \in Documents \cup {NoDoc}
    BY <1>2, DocumentsAssumption DEF NodesOf
  <2> QED
    BY <2>1, ParsedIsReadable
<1>5. query' = IF ~ParsesRecognition(n.reco) THEN Fail(query)
               ELSE IF query.kind = "recognition" THEN NodeDone(n)
               ELSE [query EXCEPT !.pc = "action", !.node = n]
  BY DEF AskRecognition, Query
<1>6. ~Known => ~UnreadableReco(n.reco)
  BY <1>1, NothingReadable DEF NodesOf
<1>7. Known => n = query.node
  OBVIOUS
<1> HIDE DEF n
<1>8. CASE ~ParsesRecognition(n.reco)
  <2>1. UnreadableNode(query.node)
    BY <1>4, <1>6, <1>7, <1>8 DEF UnreadableNode
  <2> QED
    BY <1>1, <1>5, <1>8, <2>1, FailedQuery, QueryChanges
<1>9. CASE ParsesRecognition(n.reco) /\ query.kind = "recognition"
  <2>1. ~UnreadableNode(n)
    BY <1>1, <1>2, <1>4, <1>9, NothingReadable DEF UnreadableNode, QueryFits, ReadsFits
  <2>2. query.id = 0
    BY <1>1, <1>9 DEF QueryFits, SizeFits
  <2> QED
    BY <1>1, <1>2, <1>3, <1>5, <1>7, <1>9, <2>1, <2>2, NodeDoneFits
<1>10. CASE ParsesRecognition(n.reco) /\ query.kind # "recognition"
  <2> DEFINE q == [query EXCEPT !.pc = "action", !.node = n]
  <2>1. query' = q
    BY <1>5, <1>10
  <2>2. /\ q \in QueryTypes /\ q.pc = "action" /\ q.node = n
        /\ q.kind = query.kind /\ q.id = query.id /\ q.from = query.from /\ q.said = query.said
        /\ q.size = query.size /\ q.status = query.status /\ q.out = query.out
        /\ q.cleared = query.cleared /\ q.refused = query.refused /\ q.error = query.error
    BY <1>1, <1>2 DEF QueryTypes
  <2> HIDE DEF q
  <2>3. SizeFits(q)
    BY <1>1, <2>2 DEF QueryFits, SizeFits, AtNode
  <2>4. ReadsFits(q)
    BY <1>1, <1>4, <1>10, <2>2 DEF QueryFits, SizeFits, ReadsFits
  <2>5. ToldFits(q)
    BY <1>1, <1>3, <1>7, <2>2 DEF QueryFits, ToldFits, AtNode
  <2> QED
    BY <1>1, <2>1, <2>2, <2>3, <2>4, <2>5, QueryChanges DEF QueryFits
<1> QED
  BY <1>8, <1>9, <1>10

\* A node's action
LEMMA AskActionFits == ASSUME DetailInv, AskAction PROVE DetailInv'
<1> DEFINE n == IF Known THEN query.node ELSE [query.node EXCEPT !.action = NoDoc]
<1>1. /\ query \in QueryTypes /\ QueryFits(query) /\ UNCHANGED <<tasks, taskJob>>
      /\ query.pc = "action" /\ query.node \in NodesOf
  BY DEF AskAction, Query, DetailInv, DetailTypes, QueryTypes
<1>2. n \in NodesOf /\ n.reco = query.node.reco
  BY <1>1, NodeParts DEF NodesOf
<1>3. Known \/ query.cleared
  BY <1>1, ForgottenIsCleared
<1>4. ParsesAction(n.action) <=> ~UnreadableAct(n.action)
  BY <1>2, ReadableAction DEF NodesOf
<1>5. query' = IF ~ParsesAction(n.action) THEN Fail(query) ELSE NodeDone(n)
  BY DEF AskAction, Query
<1>6. ~Known => ~UnreadableAct(n.action)
  BY <1>1, NothingReadable DEF NodesOf
<1>7. Known => n = query.node
  OBVIOUS
<1> HIDE DEF n
<1>8. CASE ~ParsesAction(n.action)
  <2>1. UnreadableNode(query.node)
    BY <1>4, <1>6, <1>7, <1>8 DEF UnreadableNode
  <2> QED
    BY <1>1, <1>5, <1>8, <2>1, FailedQuery, QueryChanges
<1>9. CASE ParsesAction(n.action)
  <2>1. ~UnreadableNode(n)
    BY <1>1, <1>2, <1>4, <1>9 DEF UnreadableNode, QueryFits, ReadsFits
  <2> QED
    BY <1>1, <1>2, <1>3, <1>5, <1>7, <1>9, <2>1, NodeDoneFits
<1> QED
  BY <1>8, <1>9

\* The caller has read the answer.
LEMMA QueryReadFits == ASSUME DetailInv, QueryRead PROVE DetailInv'
BY NoQueryTyped, NoQueryFits, QueryChanges DEF QueryRead, Query

\* The invariant holds at first ...
LEMMA DetailStart == DetailInit => DetailInv
<1> SUFFICES ASSUME DetailInit PROVE DetailInv
  OBVIOUS
<1>1. Unposted \in TaskTypes /\ Unposted.status = "invalid" /\ TaskFits(Unposted)
  BY DocumentsAssumption, NodeParts DEF Unposted, TaskTypes, Statuses, TaskFits
<1>2. tasks \in [Ids -> TaskTypes] /\ \A id \in Ids : TaskFits(tasks[id])
  BY <1>1 DEF DetailInit
<1>3. taskJob \in [id : Ids \cup {0}, final : Statuses, err : BOOLEAN]
  BY DEF DetailInit, NoTaskJob, Statuses
<1>4. TaskJobFits
  BY DEF DetailInit, NoTaskJob, TaskJobFits
<1> QED
  BY <1>2, <1>3, <1>4, NoQueryTyped, NoQueryFits DEF DetailInit, DetailInv, DetailTypes

\* ... and after every step.
LEMMA DetailKept == DetailInv /\ [DetailNext]_detailVars => DetailInv'
<1> SUFFICES ASSUME DetailInv, [DetailNext]_detailVars PROVE DetailInv'
  OBVIOUS
<1>1. CASE UNCHANGED detailVars
  BY <1>1, QueryChanges DEF detailVars, DetailInv, DetailTypes
<1>2. ASSUME NEW id \in Ids,
             \/ TaskBegins(id) \/ GetLatestNode(id)
             \/ \E reco \in RecoDocs : NodeBegins(id, reco)
             \/ \E action \in ActDocs : NodeEnds(id, action)
             \/ \E status \in Ended : TaskEnds(id, status)
      PROVE  DetailInv'
  BY <1>2, TaskBeginsFits, LatestNodeFits, NodeBeginsFits, NodeEndsFits, TaskEndsFits
<1>3. ASSUME NEW id \in Ids \cup {0},
             \/ PostTask(id) \/ RunTask(id)
             \/ \E marshals \in BOOLEAN : PostRecognition(id, marshals) \/ PostAction(id, marshals)
      PROVE  DetailInv'
  <2>1. PostTask(id) => DetailInv'
    BY PostTaskFits
  <2>2. RunTask(id) => DetailInv'
    BY RunTaskFits DEF RunTask
  <2>3. ASSUME NEW marshals \in BOOLEAN, PostRecognition(id, marshals) \/ PostAction(id, marshals)
        PROVE  DetailInv'
    BY <2>3, PostRecognitionFits DEF PostAction
  <2> QED
    BY <1>3, <2>1, <2>2, <2>3
<1>4. ASSUME NEW ok \in BOOLEAN,
             \/ \E reco \in RecoDocs : RunRecognition(reco, ok) \/ RunRecognitionDirect(reco, ok)
             \/ \E action \in ActDocs : RunAction(action, ok) \/ RunActionDirect(action, ok)
      PROVE  DetailInv'
  BY <1>4, RunRecognitionFits, RunActionFits DEF RunRecognitionDirect, RunActionDirect
<1>5. CASE ClearCache \/ JobWait \/ GetDetail \/ RunTaskEnds
  BY <1>5, ClearCacheFits, JobWaitFits, GetDetailFits, RunTaskEndsFits
<1>6. CASE AskSize \/ AskData \/ AskNode \/ AskRecognition \/ AskAction \/ QueryRead
  BY <1>6, AskSizeFits, AskDataFits, AskNodeFits, AskRecognitionFits, AskActionFits, QueryReadFits
<1> QED
  BY <1>1, <1>2, <1>3, <1>4, <1>5, <1>6 DEF DetailNext

\* What is told at the end of a query matches the task.
LEMMA DetailMeans == DetailInv => DetailMatchesTask
<1> SUFFICES ASSUME DetailInv, query.pc = "done" PROVE DetailMatchesTask
  BY DEF DetailMatchesTask
<1> DEFINE q == query
           nodes == IF q.id = 0 THEN <<>> ELSE tasks[q.id].nodes
<1>1. /\ q \in QueryTypes /\ QueryFits(q) /\ q.out \in Seq(NodesOf) /\ DOMAIN q.out = 1..Len(q.out)
      /\ Len(q.out) \in Nat /\ q.size \in Nat /\ q.from \in Nat
  BY DEF DetailInv, DetailTypes, QueryTypes
<1>2. /\ \A i \in DOMAIN q.out : ~UnreadableNode(q.out[i])
      /\ q.error => q.refused \/ UnreadableNode(q.node)
  BY <1>1 DEF QueryFits, ReadsFits
<1>3. ASSUME ~q.error, ~q.cleared, q.kind \in {"task", "node"}
      PROVE  /\ \A i \in DOMAIN q.out :
                  /\ q.out[i].reco = nodes[q.from + i].reco
                  /\ q.out[i].complete => q.out[i] = nodes[q.from + i]
             /\ q.status \in Ended => q.out = nodes /\ q.status = tasks[q.id].status
             /\ q.said \in Ended => q.out = nodes /\ (nodes # <<>> => q.status = q.said)
             /\ q.kind = "task" /\ q.status = "invalid" => q.out = <<>>
  <2>1. /\ q.id # 0 /\ q.id \in Ids /\ nodes = tasks[q.id].nodes /\ Len(q.out) = q.size
        /\ ToldFits(q) /\ nodes \in Seq(NodesOf)
    BY <1>1, <1>3 DEF QueryFits, SizeFits, ToldFits, QueryTypes, DetailInv, DetailTypes, TaskTypes
  <2> HIDE DEF nodes
  <2>2. \A i \in DOMAIN q.out : Tells(q.out[i], nodes[q.from + i])
    BY <1>1, <1>3, <2>1 DEF ToldFits
  <2>3. q.status \in Ended => q.out = nodes /\ q.status = tasks[q.id].status
    <3> SUFFICES ASSUME q.status \in Ended PROVE q.out = nodes /\ q.status = tasks[q.id].status
      OBVIOUS
    <3>1. Len(q.out) = Len(nodes) /\ \A i \in 1..Len(q.out) : q.out[i] = nodes[i]
      BY <1>1, <1>3, <2>1 DEF ToldFits
    <3>2. q.out = nodes
      BY <1>1, <2>1, <3>1
    <3> QED
      BY <1>3, <2>1, <3>2 DEF ToldFits
  <2>4. q.said \in Ended => q.out = nodes /\ (nodes # <<>> => q.status = q.said)
    <3> SUFFICES ASSUME q.said \in Ended PROVE q.out = nodes /\ (nodes # <<>> => q.status = q.said)
      OBVIOUS
    <3>1. q.size = Len(nodes) /\ (q.size # 0 => q.status = q.said)
      BY <1>3, <2>1 DEF ToldFits, AtNode
    <3>2. CASE q.size = 0
      <4>1. q.out = <<>>
        BY <1>1, <2>1, <3>2
      <4>2. nodes = <<>>
        <5>1. \A s \in Seq(NodesOf) : Len(s) = 0 => s = <<>>
          OBVIOUS
        <5> QED
          BY <2>1, <3>1, <3>2, <5>1
      <4> QED
        BY <4>1, <4>2
    <3>3. CASE q.size # 0
      BY <2>3, <3>1, <3>3
    <3> QED
      BY <3>2, <3>3
  <2>5. q.kind = "task" /\ q.status = "invalid" => q.out = <<>>
    <3> SUFFICES ASSUME q.kind = "task", q.status = "invalid" PROVE q.out = <<>>
      OBVIOUS
    <3>1. q.size = 0
      BY <1>3, <2>1 DEF ToldFits, AtNode
    <3> QED
      BY <1>1, <2>1, <3>1
  <2> QED
    BY <2>2, <2>3, <2>4, <2>5 DEF Tells
<1> QED
  BY <1>2, <1>3 DEF DetailMatchesTask

\* What a query tells matches the task: nothing that cannot be read, at whatever depth of a combined
\* recognition, an error only for what cannot be read or was refused, and, unless the cache was cleared,
\* the task's own nodes and no final status without all of them (tasker.go, context.go, job.go):
\* for any documents, tasks and nodes, whatever goes on between the calls of the query.
THEOREM DetailsTold == Spec => []DetailMatchesTask
<1>1. Init => DetailInv
  BY DetailStart DEF Init
<1>2. DetailInv /\ [Next]_vars => DetailInv'
  BY DetailKept, DetailSteps
<1> QED
  BY <1>1, <1>2, DetailMeans, PTL DEF Spec

-----------------------------------------------------------------------------
(* The types of the whole process                                           *)

\* A text occurs a number of times.
LEMMA OccurrencesNat == ASSUME NEW texts \in Frames, NEW t PROVE Occurrences(t, texts) \in Nat
<1>1. PICK n \in 1..3 : texts \in [1..n -> Texts]
  BY CountersAssumption
<1>2. IsFiniteSet(1..n)
  BY <1>1, FS_Interval
<1>3. {i \in DOMAIN texts : texts[i] = t} \subseteq 1..n
  BY <1>1
<1> QED
  BY <1>2, <1>3, FS_Subset, FS_CardinalityType DEF Occurrences

\* The OCR counter
LEMMA OcrTypesKept == CountersTypeOK /\ OcrNext => CountersTypeOK'
<1> SUFFICES ASSUME CountersTypeOK, OcrNext PROVE CountersTypeOK'
  OBVIOUS
<1>1. UNCHANGED <<taskCounts, targets, counting, restarts>>
  BY DEF OcrNext, OcrMiss, OcrHit
<1>2. [lastNode |-> NoNode, counts |-> NoCounts]
        \in [lastNode : Nodes \cup {NoNode}, counts : [Texts -> Nat]]
  BY DEF NoCounts
<1>3. ASSUME NEW node \in Nodes, NEW texts \in Frames
      PROVE  [lastNode |-> node, counts |-> [t \in Texts |-> CountsFor(node)[t] + Occurrences(t, texts)]]
               \in [lastNode : Nodes \cup {NoNode}, counts : [Texts -> Nat]]
  <2>1. CountsFor(node) \in [Texts -> Nat]
    BY DEF CountsFor, NoCounts, CountersTypeOK
  <2>2. \A t \in Texts : CountsFor(node)[t] + Occurrences(t, texts) \in Nat
    BY <2>1, OccurrencesNat
  <2> QED
    BY <2>2
<1>4. ocr' \in [lastNode : Nodes \cup {NoNode}, counts : [Texts -> Nat]]
  <2>1. CASE OcrMiss
    BY <1>2, <2>1 DEF OcrMiss
  <2>2. ASSUME NEW node \in Nodes, NEW texts \in Frames, NEW target \in Targets,
               OcrHit(node, texts, target)
        PROVE  ocr' \in [lastNode : Nodes \cup {NoNode}, counts : [Texts -> Nat]]
    BY <1>2, <1>3, <2>2 DEF OcrHit
  <2> QED
    BY <2>1, <2>2 DEF OcrNext
<1> QED
  BY <1>1, <1>4 DEF CountersTypeOK

\* The task counters
LEMMA TaskTypesKept ==
  CountersTypeOK /\ (TaskRecognitionNext \/ TaskActionNext) => CountersTypeOK'
<1> SUFFICES ASSUME CountersTypeOK, TaskRecognitionNext \/ TaskActionNext PROVE CountersTypeOK'
  OBVIOUS
<1>1. ASSUME NEW c \in Counters, NEW id \in TaskIds, NEW target, NEW n \in Nat, NEW answer,
             Answered(c, id, target, n, answer)
      PROVE  CountersTypeOK'
  <2>1. taskCounts' \in [Counters -> [TaskIds -> Nat]]
    BY <1>1 DEF Answered, CountersTypeOK
  <2> QED
    BY <1>1, <2>1 DEF Answered, CountersTypeOK
<1>2. \A c \in Counters, id \in TaskIds : taskCounts[c][id] \in Nat
  BY DEF CountersTypeOK
<1>3. "recognition" \in Counters /\ "action" \in Counters /\ Targets \subseteq Nat
  BY CountersAssumption DEF Counters
<1>4. ASSUME NEW id \in TaskIds, NEW target \in Targets, TaskCounterRecognition(id, target)
      PROVE  CountersTypeOK'
  <2>1. 0 \in Nat /\ taskCounts["recognition"][id] + 1 \in Nat
    BY <1>2, <1>3
  <2>2. \/ Answered("recognition", id, target, 0, FALSE)
        \/ Answered("recognition", id, target, taskCounts["recognition"][id] + 1, TRUE)
    BY <1>4 DEF TaskCounterRecognition
  <2> QED
    BY <1>1, <1>3, <2>1, <2>2
<1>5. ASSUME NEW id \in TaskIds, NEW target \in Targets, TaskCounter(id, target)
      PROVE  CountersTypeOK'
  <2>1. taskCounts["action"][id] + 1 \in Nat
    BY <1>2, <1>3
  <2> QED
    BY <1>1, <1>3, <1>5, <2>1 DEF TaskCounter
<1> QED
  BY <1>4, <1>5 DEF TaskRecognitionNext, TaskActionNext

\* The targets of co-battles, CountAction and ReStartGame
LEMMA CountTypesKept == CountersTypeOK /\ (CoBattleNext \/ CountNext) => CountersTypeOK'
<1> SUFFICES ASSUME CountersTypeOK, CoBattleNext \/ CountNext PROVE CountersTypeOK'
  OBVIOUS
<1>1. ASSUME NEW name \in Enemies, AddTarget(name) \/ CheckTarget(name) PROVE CountersTypeOK'
  BY <1>1 DEF AddTarget, CheckTarget, CountersTypeOK
<1>2. ASSUME NEW target \in Targets, CountBegin(target) PROVE CountersTypeOK'
  BY <1>2 DEF CountBegin, CountersTypeOK
<1>3. ASSUME NEW hit \in BOOLEAN, CountLook(hit) PROVE CountersTypeOK'
  BY <1>3 DEF CountLook, CountersTypeOK
<1>4. CASE CountAbort \/ CountReached
  BY <1>4 DEF CountAbort, CountReached, NotCounting, CountersTypeOK
<1>5. CASE RestartGame
  BY <1>5 DEF RestartGame, CountersTypeOK, MaxRestarts
<1> QED
  BY <1>1, <1>2, <1>3, <1>4, <1>5 DEF CoBattleNext, CountNext

\* All counters: their types need no history.
LEMMA CounterTypesKept == CountersTypeOK /\ [Next]_vars => CountersTypeOK'
<1> SUFFICES ASSUME CountersTypeOK, [Next]_vars PROVE CountersTypeOK'
  OBVIOUS
<1>1. \/ UNCHANGED counterVars
      \/ OcrNext \/ TaskRecognitionNext \/ TaskActionNext \/ CoBattleNext \/ CountNext
  BY DEF Next, vars, scriptVars, ProcessNext, Uses
<1>2. CASE UNCHANGED counterVars
  BY <1>2 DEF counterVars, CountersTypeOK
<1> QED
  BY <1>1, <1>2, OcrTypesKept, TaskTypesKept, CountTypesKept

\* The types of the search for a team hold for lists of any length.
LEMMA SwipeTyped ==
  ASSUME NEW level \in Level, NEW p \in 1..Longest
  PROVE  Up(p, level) \in 1..Longest /\ Down(p, level) \in 1..Longest /\ 1 \in 1..Longest
<1>1. GroupPages \in Nat \ {0} /\ TeamPages \in Nat \ {0} /\ Pages(level) \in {GroupPages, TeamPages}
  BY ScreensAssumption DEF Pages
<1> QED
  BY <1>1 DEF Up, Down, Longest

\* The runs of either script
Runs == [pc : {"idle", "start", "top", "sortie", "done"} \cup Level, attempt : 1..20, retry : 1..3,
         misses : 0..MaxMisses, answer : BOOLEAN]

\* One step of the search
LEMMA ScreensTypesKept == ScreensTypeOK /\ [ScreensNext]_screenVars => ScreensTypeOK'
<1> SUFFICES ASSUME ScreensTypeOK, [ScreensNext]_screenVars PROVE ScreensTypeOK'
  OBVIOUS
<1> DEFINE Choices == [group : Selections, team : Selections, fights : BOOLEAN]
<1>0. /\ script \in Scripts /\ entry \in Lists /\ opened \in 1..GroupPages /\ shown \in 1..Longest
      /\ chosen \in Choices /\ run \in Runs
  BY DEF ScreensTypeOK, Longest, Runs
<1>1. ASSUME script' \in Scripts, entry' \in Lists, opened' \in 1..GroupPages, shown' \in 1..Longest,
             chosen' \in Choices, run' \in Runs
      PROVE  ScreensTypeOK'
  BY <1>1 DEF ScreensTypeOK, Longest, Runs
<1>2. \A m \in Runs : m.misses < MaxMisses => [m EXCEPT !.misses = @ + 1] \in Runs
  BY ScreensAssumption DEF Runs
<1>3. ASSUME NEW level \in Level PROVE Failed(level) \in Runs /\ Failed(level).misses = run.misses
  <2>1. /\ MaxAttempts(level) \in 1..20 /\ MaxRetries \in 1..3
        /\ run.attempt \in 1..20 /\ run.retry \in 1..3
    BY <1>0 DEF MaxAttempts, MaxRetries, Runs
  <2>2. /\ run.attempt < MaxAttempts(level) => run.attempt + 1 \in 1..20
        /\ run.retry < MaxRetries => run.retry + 1 \in 1..3
    BY <2>1
  <2>3. CASE run.attempt < MaxAttempts(level)
    <3>1. Failed(level) = [run EXCEPT !.attempt = @ + 1]
      BY <2>3 DEF Failed
    <3> QED
      BY <1>0, <2>2, <2>3, <3>1 DEF Runs
  <2>4. CASE ~(run.attempt < MaxAttempts(level)) /\ run.retry < MaxRetries
    <3>1. Failed(level) = [run EXCEPT !.pc = "top", !.retry = @ + 1, !.attempt = 1]
      BY <2>4 DEF Failed
    <3>2. run.retry + 1 \in 1..3 /\ 1 \in 1..20
      BY <2>2, <2>4
    <3> QED
      BY <1>0, <3>1, <3>2 DEF Runs
  <2>5. CASE ~(run.attempt < MaxAttempts(level)) /\ ~(run.retry < MaxRetries)
    <3>1. Failed(level) = [run EXCEPT !.pc = "done", !.answer = FALSE]
      BY <2>5 DEF Failed
    <3> QED
      BY <1>0, <3>1 DEF Runs
  <2> QED
    BY <2>3, <2>4, <2>5
<1>4. \A level \in Level : Swipe(level) => shown' \in 1..Longest
  BY <1>0, SwipeTyped DEF Swipe
<1>5. ASSUME NEW s \in Scripts, NEW l \in Lists, NEW p \in 1..GroupPages, ScreensBegin(s, l, p)
      PROVE  ScreensTypeOK'
  <2>1. p \in 1..Longest
    BY ScreensAssumption DEF Longest
  <2>2. run' \in Runs
    BY <1>0, <1>5 DEF ScreensBegin, Runs
  <2> QED
    BY <1>0, <1>1, <1>5, <2>1, <2>2 DEF ScreensBegin
<1>6. CASE ClickPreset \/ ClickPresetFails
  <2>1. run' \in Runs
    <3>1. CASE run' = [run EXCEPT !.pc = "top"]
      BY <1>0, <3>1 DEF Runs
    <3>2. CASE run' = [run EXCEPT !.pc = "done", !.misses = @ + 1] /\ run.misses < MaxMisses
      <4>1. run.misses + 1 \in 0..MaxMisses
        BY <1>0, <3>2, ScreensAssumption DEF Runs
      <4> QED
        BY <1>0, <3>2, <4>1 DEF Runs
    <3> QED
      BY <1>6, <3>1, <3>2 DEF ClickPreset, ClickPresetFails, Missing
  <2> QED
    BY <1>0, <1>1, <1>6, <2>1 DEF ClickPreset, ClickPresetFails
<1>7. CASE SwipeToTop
  <2>1. run' \in Runs
    <3>1. run' = [run EXCEPT !.pc = "group", !.attempt = 1] /\ 1 \in 1..20
      BY <1>7 DEF SwipeToTop
    <3> QED
      BY <1>0, <3>1 DEF Runs, Level
  <2>2. shown' \in 1..Longest
    BY <1>0, <1>7, SwipeTyped DEF SwipeToTop, Level
  <2> QED
    BY <1>0, <1>1, <1>7, <2>1, <2>2 DEF SwipeToTop
<1>8. CASE FindGroup
  <2>1. PICK what \in {"wanted", "other"} : GroupClicked(what)
    BY <1>8 DEF FindGroup
  <2>2. run' \in Runs
    <3>1. run' = [run EXCEPT !.pc = "team", !.attempt = 1] /\ 1 \in 1..20
      BY <2>1 DEF GroupClicked
    <3> QED
      BY <1>0, <3>1 DEF Runs, Level
  <2>3. chosen' \in Choices
    BY <1>0, <2>1 DEF GroupClicked, Selections
  <2> QED
    BY <1>0, <1>1, <1>8, <2>1, <2>2, <2>3, SwipeTyped DEF FindGroup, GroupClicked, Level
<1>9. CASE FindTeam
  <2>1. run' \in Runs
    BY <1>0, <1>9 DEF FindTeam, Runs
  <2>2. chosen' \in Choices
    BY <1>0, <1>9 DEF FindTeam, Selections
  <2> QED
    BY <1>0, <1>1, <1>9, <2>1, <2>2 DEF FindTeam
<1>10. ASSUME NEW level \in Level, LookInVain(level) PROVE ScreensTypeOK'
  <2>1. run' \in Runs
    <3>1. CASE OnPage(level)
      <4>1. run' = [Failed(level) EXCEPT !.misses = @ + 1] /\ run.misses < MaxMisses
        BY <1>10, <3>1 DEF LookInVain, Missing
      <4> QED
        BY <1>2, <1>3, <4>1
    <3>2. CASE ~OnPage(level)
      <4>1. run' = [Failed(level) EXCEPT !.misses = @]
        BY <1>10, <3>2 DEF LookInVain
      <4> QED
        BY <1>3, <4>1 DEF Runs
    <3> QED
      BY <3>1, <3>2
  <2> QED
    BY <1>0, <1>1, <1>4, <1>10, <2>1 DEF LookInVain
<1>11. ASSUME NEW level \in Level, NoScreenshot(level) PROVE ScreensTypeOK'
  <2>1. run' \in Runs
    BY <1>2, <1>3, <1>11 DEF NoScreenshot, Missing
  <2> QED
    BY <1>0, <1>1, <1>11, <2>1 DEF NoScreenshot
<1>12. ASSUME NEW ok \in BOOLEAN, Sortie(ok) PROVE ScreensTypeOK'
  <2>1. run' \in Runs
    <3>1. (IF ok THEN run.misses ELSE run.misses + 1) \in 0..MaxMisses
      BY <1>0, <1>12, ScreensAssumption DEF Sortie, Missing, Runs
    <3>2. run' = [run EXCEPT !.pc = "done", !.answer = TRUE, !.misses = IF ok THEN @ ELSE @ + 1]
      BY <1>12 DEF Sortie
    <3> QED
      BY <1>0, <3>1, <3>2 DEF Runs
  <2>2. chosen' \in Choices
    BY <1>0, <1>12 DEF Sortie
  <2> QED
    BY <1>0, <1>1, <1>12, <2>1, <2>2 DEF Sortie
<1>13. CASE EquipTeam
  <2>1. run' \in Runs
    BY <1>0, <1>13 DEF EquipTeam, End, Runs
  <2>2. chosen' \in Choices
    BY <1>0, <1>13 DEF EquipTeam, Selections
  <2> QED
    BY <1>0, <1>1, <1>13, <2>1, <2>2 DEF EquipTeam
<1>14. ASSUME NEW ok \in BOOLEAN, EquipFails(ok) PROVE ScreensTypeOK'
  <2>1. "team" \in Level /\ run.misses < MaxMisses
    BY <1>14 DEF EquipFails, Missing, Level
  <2>2. run' \in Runs
    <3>1. CASE ok
      <4>1. run' = [[run EXCEPT !.pc = "done"] EXCEPT !.misses = @ + 1]
        BY <1>0, <1>14, <3>1 DEF EquipFails, Runs
      <4>2. [run EXCEPT !.pc = "done"] \in Runs /\ [run EXCEPT !.pc = "done"].misses = run.misses
        BY <1>0 DEF Runs
      <4> QED
        BY <1>2, <2>1, <4>1, <4>2
    <3>2. CASE ~ok
      BY <1>2, <1>3, <1>14, <2>1, <3>2 DEF EquipFails
    <3> QED
      BY <3>1, <3>2
  <2>3. shown' \in 1..Longest
    BY <1>0, <1>4, <1>14, <2>1 DEF EquipFails
  <2> QED
    BY <1>0, <1>1, <1>14, <2>2, <2>3 DEF EquipFails
<1>15. CASE UNCHANGED screenVars
  BY <1>15 DEF screenVars, ScreensTypeOK
<1> QED
  BY <1>5, <1>6, <1>7, <1>8, <1>9, <1>10, <1>11, <1>12, <1>13, <1>14, <1>15 DEF ScreensNext

\* main goes through its phases in order: past the loading the framework is there, past the
\* registering so are all runners, and a feature is in use only while calls are served.
PhasesFit ==
  /\ phase \in Phases /\ registered \in 0..(CustomActions + CustomRecognitions)
  /\ inited \in BOOLEAN /\ feature \in Features \cup {Unused}
  /\ phase \in {"load", "option", "register", "start", "serving"} => inited
  /\ phase \in {"start", "serving"} => registered = CustomActions + CustomRecognitions
  /\ feature # Unused => phase = "serving"

\* One step of the process
LEMMA PhasesKept == PhasesFit /\ [Next]_vars => PhasesFit'
<1> SUFFICES ASSUME PhasesFit, [Next]_vars PROVE PhasesFit'
  OBVIOUS
<1> USE DEF PhasesFit, Goes, Fatal
<1>1. UNCHANGED processVars \/ ProcessNext
  BY DEF Next, vars, Uses
<1>2. CASE UNCHANGED processVars
  BY <1>2 DEF processVars
<1>3. CASE Identified \/ NotIdentified \/ InitFramework \/ InitFrameworkFails
  BY <1>3 DEF Identified, NotIdentified, InitFramework, InitFrameworkFails, Phases
<1>4. CASE LoadContext \/ InitOption \/ RegisterFails
  BY <1>4 DEF LoadContext, InitOption, RegisterFails, Phases
<1>5. CASE RegisterNext
  BY <1>5 DEF RegisterNext, CustomActions, CustomRecognitions
<1>6. CASE AllRegistered \/ StartServer \/ StartServerFails
  BY <1>6 DEF AllRegistered, StartServer, StartServerFails, Phases
<1>7. CASE Join \/ ShutDownServer
  BY <1>7 DEF Join, ShutDownServer, Phases
<1>8. ASSUME NEW f \in Features, Choose(f) PROVE PhasesFit'
  BY <1>8 DEF Choose
<1>9. ASSUME NEW ok \in BOOLEAN, Release(ok) PROVE PhasesFit'
  BY <1>9 DEF Release, Phases
<1> QED
  BY <1>1, <1>2, <1>3, <1>4, <1>5, <1>6, <1>7, <1>8, <1>9 DEF ProcessNext

\* The list of a run of AutoFoster is one of those there may be.
WorldTyped == world \in Worlds \cup {NoWorld} /\ preferred \in Kinds \cup {Unreadable}

\* What the modules' invariants say nothing of
RestTyped == spoilt \in BOOLEAN /\ damaged \in BOOLEAN /\ WorldTyped

\* One step of the process keeps them.
LEMMA RestKept == RestTyped /\ [Next]_vars => RestTyped'
<1> SUFFICES ASSUME RestTyped, [Next]_vars PROVE RestTyped'
  OBVIOUS
<1>1. spoilt' \in BOOLEAN
  <2>1. [DailyNext]_dailyVars
    BY DailySteps
  <2>2. spoilt' = spoilt \/ \E now \in BOOLEAN : SpoiltIf(now)
    BY <2>1 DEF dailyVars, DailyNext, ListBegin, ListSkip, StartTask, RunEnds, TakeDate,
       ReadRecords, TruncateRecords, WriteRecords, WriteRecordsFails, ListEnds, KillAgent, NextDay, Overlap
  <2> QED
    BY <2>2 DEF RestTyped, SpoiltIf
<1>2. damaged' \in BOOLEAN
  <2>1. [ConfigNext]_configVars
    BY ConfigSteps
  <2>2. damaged' = damaged \/ \E now \in BOOLEAN : damaged' = (damaged \/ now)
    BY <2>1 DEF configVars, ConfigNext, WriteBegin, TruncateStore, WriteDone, SaveStoreFails,
       KillWriter, WriteCut, Overlapping
  <2> QED
    BY <2>2 DEF RestTyped
<1>3. WorldTyped'
  <2>1. [FosterNext]_fosterVars
    BY FosterSteps
  <2>2. \/ UNCHANGED <<world, preferred>>
        \/ \E w \in Worlds, kind \in Kinds : world' = w /\ preferred' = kind
    BY <2>1 DEF fosterVars, FosterNext, FosterBegin, ClickTab, ScanPage, SearchPage, SearchBlind,
       NextPageFails, NextPage, TabDone, NextGoal, GiveUp, Screen
  <2> QED
    BY <2>2 DEF RestTyped, WorldTyped
<1> QED
  BY <1>1, <1>2, <1>3 DEF RestTyped

\* The task list within the process
LEMMA DailyKept == DailyInv /\ [Next]_vars => DailyInv'
BY DailySteps, DailyTypesKept, DaysKept, RecordsKept DEF DailyInv

\* The store of values within the process
LEMMA ConfigKept == ConfigInv /\ [Next]_vars => ConfigInv'
<1> SUFFICES ASSUME ConfigInv, [ConfigNext]_configVars PROVE ConfigInv'
  BY ConfigSteps
<1>1. CASE UNCHANGED configVars
  BY <1>1 DEF configVars, ConfigInv, ConfigTypes, WritersKeep, Loads, Store, Adds
<1>2. CASE ConfigNext
  BY <1>2, BeginKeeps, TruncateKeeps, DoneKeeps, CutKeeps DEF ConfigNext, SaveStoreFails, KillWriter
<1> QED
  BY <1>1, <1>2

\* The invariant of the whole process
AgentInv ==
  /\ PhasesFit /\ RestTyped /\ DailyInv /\ ConfigInv /\ CountersTypeOK /\ FosterInv /\ ScreensTypeOK
  /\ PairInv /\ DetailInv /\ GameInv

\* It holds at the start ...
LEMMA AgentStart == Init => AgentInv
<1> SUFFICES ASSUME Init PROVE AgentInv
  OBVIOUS
<1>1. PhasesFit
  <2>1. 0 \in 0..(CustomActions + CustomRecognitions)
    BY DEF CustomActions, CustomRecognitions
  <2> QED
    BY <2>1 DEF Init, PhasesFit, Phases
<1>2. RestTyped
  BY DEF Init, RestTyped, WorldTyped, DailyInit, ConfigInit, FosterInit
<1>3. CountersTypeOK
  <2>1. /\ [t \in Texts |-> 0] \in [Texts -> Nat]
        /\ [c \in Counters |-> [id \in TaskIds |-> 0]] \in [Counters -> [TaskIds -> Nat]]
    OBVIOUS
  <2> QED
    BY <2>1 DEF Init, CountersInit, CountersTypeOK, NoCounts, NotCounting, MaxRestarts
<1>4. ScreensTypeOK
  <2>1. /\ GroupPages \in Nat \ {0} /\ TeamPages \in Nat \ {0} /\ MaxMisses \in Nat
        /\ 1 \in 1..GroupPages /\ 1 \in 1..Longest /\ 0 \in 0..GroupPages /\ 0 \in 0..TeamPages
        /\ 0 \in 0..MaxMisses
    BY ScreensAssumption DEF Longest
  <2> QED
    BY <2>1 DEF Init, ScreensInit, ScreensTypeOK, Longest, Scripts, Lists, Selections
<1> QED
  BY <1>1, <1>2, <1>3, <1>4, DailyStart, ConfigStart, FosterStart, PairStart, DetailStart, GameStart
  DEF Init, AgentInv

\* ... and after every step: the modules share no variables.
LEMMA AgentKept == AgentInv /\ [Next]_vars => AgentInv'
<1> SUFFICES ASSUME AgentInv, [Next]_vars PROVE AgentInv'
  OBVIOUS
<1>1. PhasesFit' /\ RestTyped' /\ CountersTypeOK'
  BY PhasesKept, RestKept, CounterTypesKept DEF AgentInv
<1>2. DailyInv' /\ ConfigInv' /\ GameInv'
  BY DailyKept, ConfigKept, GameKept DEF AgentInv
<1>3. FosterInv' /\ PairInv'
  BY FosterSteps, FosterKept, PairingSteps, PairingKept DEF AgentInv
<1>4. ScreensTypeOK' /\ DetailInv'
  BY ScreensSteps, ScreensTypesKept, DetailSteps, DetailKept DEF AgentInv
<1> QED
  BY <1>1, <1>2, <1>3, <1>4 DEF AgentInv

\* What the invariant of the details says of types
LEMMA DetailTyped == DetailInv => DetailTypeOK
<1> SUFFICES ASSUME DetailInv PROVE DetailTypeOK
  OBVIOUS
<1>1. ASSUME NEW id \in Ids
      PROVE  /\ tasks[id].status \in Statuses /\ tasks[id].known \in BOOLEAN
             /\ Len(tasks[id].nodes) <= MaxNodes
             /\ \A i \in DOMAIN tasks[id].nodes : tasks[id].nodes[i] \in NodesOf
  BY DEF DetailInv, DetailTypes, TaskTypes, TaskFits
<1>2. query.from + Len(query.out) <= MaxNodes
  <2>1. /\ query \in QueryTypes /\ SizeFits(query) /\ MaxNodes \in Nat \ {0}
        /\ query.from \in Nat /\ query.size \in Nat /\ Len(query.out) \in Nat
    BY DocumentsAssumption DEF DetailInv, DetailTypes, QueryFits, QueryTypes
  <2>2. CASE query.id = 0
    BY <2>1, <2>2 DEF SizeFits
  <2>3. CASE query.id # 0
    <3>1. query.id \in Ids /\ Len(tasks[query.id].nodes) \in Nat
      BY <2>1, <2>3 DEF QueryTypes, DetailInv, DetailTypes, TaskTypes
    <3> QED
      BY <1>1, <2>1, <2>3, <3>1 DEF SizeFits
  <2> QED
    BY <2>2, <2>3
<1> QED
  BY <1>1, <1>2 DEF DetailTypeOK, DetailInv, DetailTypes, QueryTypes

\* What that of the scripts says
LEMMA GameTyped == GameInv => GameTypeOK
<1> SUFFICES ASSUME GameInv PROVE GameTypeOK
  OBVIOUS
<1>1. check.answer \in BOOLEAN
  <2>1. CASE check = NoCheck
    BY <2>1 DEF NoCheck
  <2>2. CASE check \in Checks
    BY <2>2 DEF Checks
  <2> QED
    BY <2>1, <2>2 DEF GameInv, CheckFits
<1>2. kun \in KunTypes /\ bounty \in BountyTypes
  BY DEF GameInv, KunInv, BountyInv
<1>3. batch.answer \in {"none", "yes", "no"} /\ game.bonus \in [Bonuses -> BOOLEAN]
  BY DEF GameInv, BatchInv, Games
<1> QED
  BY <1>1, <1>2, <1>3 DEF GameTypeOK, KunTypes, BountyTypes

\* Every variable of the process has its type, and a call is answered only by an agent that has
\* loaded the framework and registered every runner (main, registerAll): whatever the agents,
\* files, lists, documents and games.
THEOREM AgentTyped == Spec => []TypeOK
<1>1. AgentInv => TypeOK
  <2> SUFFICES ASSUME AgentInv PROVE TypeOK
    OBVIOUS
  <2>1. DailyTypeOK
    BY DEF AgentInv, RestTyped, DailyInv, DailyTypes, DaysHappened, DailyTypeOK, Run, Recording
  <2>2. ConfigTypeOK
    BY DEF AgentInv, RestTyped, ConfigInv, ConfigTypes, ConfigTypeOK, Writers
  <2>3. FosterTypeOK
    BY DEF AgentInv, RestTyped, WorldTyped, FosterInv, FosterTypes, JobFits, FosterTypeOK
  <2>4. PairingTypeOK
    BY DEF AgentInv, PairInv, PairTypes, PairRuns, PairingTypeOK
  <2>5. DetailTypeOK /\ GameTypeOK
    BY DetailTyped, GameTyped DEF AgentInv
  <2>6. feature # Unused => inited /\ registered = CustomActions + CustomRecognitions
    BY DEF AgentInv, PhasesFit
  <2> QED
    BY <2>1, <2>2, <2>3, <2>4, <2>5, <2>6 DEF AgentInv, PhasesFit, TypeOK
<1> QED
  BY <1>1, AgentStart, AgentKept, PTL DEF Spec
================================================================================
