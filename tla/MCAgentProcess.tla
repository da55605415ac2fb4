---------------------------- MODULE MCAgentProcess ----------------------------
(* The agent with two processes on a machine, two tasks, lists of up to five pages. *)
EXTENDS AgentProcess, TLC

\* What OCR reads, most of it once, some of it twice
MCFrames == {<<"a">>, <<"a", "b">>, <<"b", "a", "a">>}

\* Names of enemies of which some contain others
MCEnemies == {<<1>>, <<1, 2>>, <<2>>, <<1, 2, 3>>}

\* A best reward behind an unreadable page, one beyond the scan's limit, equal ones,
\* none at all
Jade(n) == <<"jade", n>>
Power(n) == <<"power", n>>
MCWorlds == {
  << <<{Jade(1)}, {Power(2), Jade(2)}, {Unreadable}, {Jade(3)}>>, <<{Power(3), Unreadable}>> >>,
  << <<{}, {Power(1)}, {Jade(1), Power(3)}, {Power(1)}>>, <<{Power(2)}, {Jade(2)}, {}, {Jade(3)}>> >>,
  << <<{}>>, <<{Unreadable}>> >>,
  << <<{Power(1)}>>, <<{Jade(1)}, {Jade(1)}, {Jade(1)}, {Jade(1)}, {Jade(3)}>> >> }

\* Recognitions: one without results, combined ones with a part that has no detail and
\* with a malformed one two levels down
Ocr(item) == Document("OCR", "present", <<item>>, <<>>)
Both(part) == Document("And", "present", <<>>, <<Ocr("good"), part>>)
MCRecoDocs == {
  Document("DirectHit", "malformed", <<>>, <<>>),
  Both(Document("Or", "missing", <<>>, <<>>)),
  Both(Both(Ocr("bad"))) }
MCDocuments == MCRecoDocs \cup
  {Ocr("good"), Ocr("bad"), Both(Ocr("bad")), Document("Or", "missing", <<>>, <<>>)}
MCActDocs == {Document("Click", "present", <<>>, <<>>), Document("Custom", "present", <<>>, <<>>)}

MCChallenges == {<<1, 0>>, <<5>>, <<0>>}

Symmetry == Permutations(Agents) \cup Permutations(Tasks)

\* The store file says nothing any more after a write that was cut short.
NotDamaged == ~damaged
===============================================================================
