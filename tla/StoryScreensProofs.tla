-------------------------- MODULE StoryScreensProofs -------------------------
(***************************************************************************)
(* The likes of a story for every set of people and every number of calls: *)
(* what keeps its counter true, what the code relies on without having     *)
(* (theorems about the database alone, LikeSpec), and that the hearts of   *)
(* StoryScreens come to rest on the truth.                                 *)
(***************************************************************************)
EXTENDS StoryScreens, FiniteSetTheorems, TLAPS

\* What a call counted is what it sees, as long as nobody commits before it.
CountedIsVisible ==
    \A t \in Toggles : at[t] = "counted" /\ ~behind[t] => seen[t] = Cardinality(Visible(t))

LikeIInv == LikeTypeOK /\ CountedIsVisible /\ DriftOnlyFromOverlap

LEMMA VisibleType ==
    ASSUME LikeTypeOK, NEW t \in Toggles, row[t] # "kept" => who[t] \in People
    PROVE  Visible(t) \subseteq People /\ Cardinality(Visible(t)) \in Nat
<1>1. Visible(t) \subseteq People
  BY DEF Visible, LikeTypeOK
<1>2. IsFiniteSet(Visible(t))
  BY <1>1, PeopleAssumption, FS_Subset
<1> QED
  BY <1>1, <1>2, FS_CardinalityType

\* A call that was begun is somebody's.
Owned == \A t \in Toggles : at[t] # "idle" \/ row[t] # "kept" => who[t] \in People

LEMMA InitInv == LikeInit => LikeTypeOK /\ Owned /\ LikeIInv
<1> SUFFICES ASSUME LikeInit PROVE LikeTypeOK /\ Owned /\ LikeIInv
  OBVIOUS
<1>1. LikeTypeOK /\ Owned
  BY DEF LikeInit, LikeTypeOK, Owned
<1>2. CountedIsVisible
  BY DEF LikeInit, CountedIsVisible
<1>3. DriftOnlyFromOverlap
  BY FS_EmptySet DEF LikeInit, DriftOnlyFromOverlap
<1> QED
  BY <1>1, <1>2, <1>3 DEF LikeIInv

LEMMA StepType == LikeTypeOK /\ Owned /\ [LikeNext]_likeVars => LikeTypeOK' /\ Owned'
<1> SUFFICES ASSUME LikeTypeOK, Owned, [LikeNext]_likeVars PROVE LikeTypeOK' /\ Owned'
  OBVIOUS
<1>1. ASSUME NEW t \in Toggles, NEW p \in People, NEW b \in BOOLEAN, Begin(t, p, b)
      PROVE  LikeTypeOK' /\ Owned'
  BY <1>1 DEF Begin, LikeTypeOK, Owned
<1>2. ASSUME NEW t \in Toggles, WriteRow(t) PROVE LikeTypeOK' /\ Owned'
  BY <1>2 DEF WriteRow, LikeTypeOK, Owned
<1>3. ASSUME NEW t \in Toggles, Recount(t) PROVE LikeTypeOK' /\ Owned'
  <2>1. Rows(t) \in Nat
    BY VisibleType DEF Rows, Owned
  <2> QED
    BY <1>3, <2>1 DEF Recount, LikeTypeOK, Owned
<1>4. ASSUME NEW t \in Toggles, Commit(t) PROVE LikeTypeOK' /\ Owned'
  <2>1. Visible(t) \subseteq People
    BY VisibleType DEF Owned
  <2> QED
    BY <1>4, <2>1 DEF Commit, LikeTypeOK, Owned
<1>5. ASSUME NEW t \in Toggles, Abort(t) PROVE LikeTypeOK' /\ Owned'
  BY <1>5 DEF Abort, Open, LikeTypeOK, Owned
<1>6. CASE UNCHANGED likeVars
  BY <1>6 DEF likeVars, LikeTypeOK, Owned
<1> QED
  BY <1>1, <1>2, <1>3, <1>4, <1>5, <1>6 DEF LikeNext, Work

LEMMA StepInv == LikeIInv /\ Owned /\ [LikeNext]_likeVars => LikeIInv'
<1> SUFFICES ASSUME LikeIInv, Owned, [LikeNext]_likeVars PROVE LikeIInv'
  OBVIOUS
<1>a. LikeTypeOK /\ LikeTypeOK'
  BY StepType DEF LikeIInv
<1>1. ASSUME NEW t \in Toggles, NEW p \in People, NEW b \in BOOLEAN, Begin(t, p, b)
      PROVE  CountedIsVisible' /\ DriftOnlyFromOverlap'
  BY <1>1, <1>a DEF Begin, LikeIInv, LikeTypeOK, CountedIsVisible, DriftOnlyFromOverlap, Visible
<1>2. ASSUME NEW t \in Toggles, WriteRow(t)
      PROVE  CountedIsVisible' /\ DriftOnlyFromOverlap'
  BY <1>2, <1>a DEF WriteRow, LikeIInv, LikeTypeOK, CountedIsVisible, DriftOnlyFromOverlap, Visible
<1>3. ASSUME NEW t \in Toggles, Recount(t)
      PROVE  CountedIsVisible' /\ DriftOnlyFromOverlap'
  <2>1. \A u \in Toggles : Visible(u)' = Visible(u)
    BY <1>3 DEF Recount, Visible
  <2>2. CountedIsVisible'
    BY <1>3, <1>a, <2>1 DEF Recount, Rows, LikeIInv, LikeTypeOK, CountedIsVisible
  <2> QED
    BY <1>3, <2>2 DEF Recount, LikeIInv, DriftOnlyFromOverlap
<1>4. ASSUME NEW t \in Toggles, Commit(t)
      PROVE  CountedIsVisible' /\ DriftOnlyFromOverlap'
  <2>1. CountedIsVisible'
    BY <1>4, <1>a DEF Commit, LikeTypeOK, CountedIsVisible
  <2>2. ~behind[t] => seen[t] = Cardinality(Visible(t))
    BY <1>4 DEF Commit, LikeIInv, CountedIsVisible
  <2> QED
    BY <1>4, <2>1, <2>2 DEF Commit, DriftOnlyFromOverlap
<1>5. ASSUME NEW t \in Toggles, Abort(t)
      PROVE  CountedIsVisible' /\ DriftOnlyFromOverlap'
  BY <1>5, <1>a DEF Abort, LikeIInv, LikeTypeOK, CountedIsVisible, DriftOnlyFromOverlap, Visible
<1>6. ASSUME UNCHANGED likeVars PROVE CountedIsVisible' /\ DriftOnlyFromOverlap'
  BY <1>6 DEF likeVars, LikeIInv, CountedIsVisible, DriftOnlyFromOverlap, Visible
<1> QED
  BY <1>a, <1>1, <1>2, <1>3, <1>4, <1>5, <1>6 DEF LikeNext, Work, LikeIInv

\* The tables of the likes keep their types whatever calls overlap
\* (success_story_repository.go).
THEOREM LikeTypeCorrect == LikeSpec => []LikeTypeOK
<1>1. LikeTypeOK /\ Owned /\ [LikeNext]_likeVars => (LikeTypeOK /\ Owned)'
  BY StepType
<1>2. LikeInit => LikeTypeOK /\ Owned
  BY InitInv
<1> QED
  BY <1>1, <1>2, PTL DEF LikeSpec

\* like_count is off only after a commit that another commit overtook
\* (recomputeAndReadLikeCount): a call nobody overtakes writes the true count.
THEOREM DriftNeedsOverlap == LikeSpec => []DriftOnlyFromOverlap
<1>1. LikeInit => LikeIInv /\ Owned
  BY InitInv
<1>2. LikeIInv /\ Owned /\ [LikeNext]_likeVars => (LikeIInv /\ Owned)'
  BY StepInv, StepType DEF LikeIInv
<1>3. LikeIInv => DriftOnlyFromOverlap
  BY DEF LikeIInv
<1> QED
  BY <1>1, <1>2, <1>3, PTL DEF LikeSpec

-----------------------------------------------------------------------------
\* What the comment of AddLike needs: no two transactions open together.
OneAtATime == \A t, u \in Toggles : Open(t) /\ Open(u) => t = u
SerialSpec == LikeInit /\ [][LikeNext /\ OneAtATime]_likeVars

NobodyBehind == ~raced /\ \A t \in Toggles : ~behind[t]

\* Calls that do not overlap keep the counter equal to the rows of
\* story_likes at every moment (AddLike, RemoveLike).
THEOREM SerialCountIsExact == SerialSpec => [](count = Cardinality(likes))
<1> DEFINE Inv == LikeIInv /\ Owned /\ NobodyBehind
<1>1. LikeInit => Inv
  BY InitInv DEF LikeInit, NobodyBehind
<1>2. Inv /\ [LikeNext /\ OneAtATime]_likeVars => Inv'
  <2> SUFFICES ASSUME Inv, [LikeNext /\ OneAtATime]_likeVars PROVE Inv'
    OBVIOUS
  <2>1. LikeIInv' /\ Owned'
    BY StepInv, StepType DEF LikeIInv
  <2>2. ASSUME NEW t \in Toggles, Commit(t), OneAtATime PROVE NobodyBehind'
    <3>1. \A u \in Toggles : u # t => at[u] # "counted"
      BY <2>2 DEF Commit, OneAtATime, Open
    <3> QED
      BY <2>2, <3>1 DEF Commit, NobodyBehind, LikeIInv, LikeTypeOK
  <2>3. ASSUME NEW t \in Toggles, Recount(t) PROVE NobodyBehind'
    BY <2>3 DEF Recount, NobodyBehind, LikeIInv, LikeTypeOK
  <2>4. ASSUME NEW t \in Toggles, WriteRow(t) \/ Abort(t) PROVE NobodyBehind'
    BY <2>4 DEF WriteRow, Abort, NobodyBehind
  <2>5. ASSUME NEW t \in Toggles, NEW p \in People, NEW b \in BOOLEAN, Begin(t, p, b)
        PROVE  NobodyBehind'
    BY <2>5 DEF Begin, NobodyBehind
  <2>6. ASSUME UNCHANGED likeVars PROVE NobodyBehind'
    BY <2>6 DEF likeVars, NobodyBehind
  <2> QED
    BY <2>1, <2>2, <2>3, <2>4, <2>5, <2>6 DEF LikeNext, Work
<1>3. Inv => count = Cardinality(likes)
  BY DEF LikeIInv, DriftOnlyFromOverlap, NobodyBehind
<1> QED
  BY <1>1, <1>2, <1>3, PTL DEF SerialSpec

-----------------------------------------------------------------------------
(* The screens.  Every step of theirs is a step of the database or leaves  *)
(* it alone, so what was proved of it holds behind them.                   *)

LEMMA ScreenSteps ==
  ASSUME Next
  PROVE  \/ Fetch
         \/ \E q \in Pages : LikedStoryIDs(q) \/ Land(q) \/ GetFails(q) \/ Navigate(q)
         \/ \E p \in Members : SwitchUser(p)
         \/ \E t \in Toggles :
              Toggle(t) \/ ToggleAnswered(t) \/ ToggleFails(t) \/ Elsewhere(t) \/ ServerWorks(t)
  BY DEF Next

LEMMA ScreensWorkOnLikes ==
  ASSUME session \in Members, TypeOK, [Next]_vars
  PROVE  [LikeNext]_likeVars
<1>1. CASE UNCHANGED likeVars
  BY <1>1
<1>2. ASSUME NEW t \in Toggles, ServerWorks(t) PROVE LikeNext
  BY <1>2 DEF ServerWorks, LikeNext
<1>3. ASSUME NEW t \in Toggles, Toggle(t) PROVE LikeNext
  <2>1. PICK b \in BOOLEAN : b = ~entry[page].mine
    BY Zenon
  <2>2. session \in People /\ Begin(t, session, b)
    BY <1>3, <2>1, MembersAssumption DEF Toggle
  <2> QED  BY <2>2 DEF LikeNext
<1>4. ASSUME NEW t \in Toggles, Elsewhere(t) PROVE LikeNext
  BY <1>4 DEF Elsewhere, LikeNext
<1> QED  BY <1>1, <1>2, <1>3, <1>4, ScreenSteps DEF vars, Fetch, LikedStoryIDs, Land, GetFails,
         Navigate, SwitchUser, ToggleAnswered, ToggleFails

\* Whose a call is: the calls of this browser are of its members, the others
\* of people who do not use it.
Attributed ==
  \A t \in Toggles :
      /\ t \in asked => at[t] # "idle"
      /\ at[t] # "idle" => (t \in asked <=> who[t] \in Members)

\* While no call is pending, what was read and not doubted since is the truth:
\* an entry that nothing will ask for again, and an answer on its way.
Heart(q) == entry[q].mine = (session \in likes)
Believed(q) == get[q] # None /\ get[q].at = "answered" /\ ~get[q].got.unsure
Brought(q) == get[q].got.mine = (session \in likes)

EntryIsTrue == Pending = {} => \A q \in Pages : Settled(q) => Heart(q)
AnswerIsTrue == Pending = {} => \A q \in Pages : Believed(q) => Brought(q)

HeartInv == TypeOK /\ Owned /\ Attributed /\ EntryIsTrue /\ AnswerIsTrue

\* What a doubt leaves: nothing, or something that says it is in doubt.
LEMMA DoubtType ==
  /\ \A e \in Stories \cup {None} : Doubt(e) = None \/ (Doubt(e) \in Stories /\ Doubt(e).unsure)
  /\ \A g \in Fetches \cup {None} : DoubtGet(g) = None \/ (DoubtGet(g) \in Fetches /\ DoubtGet(g).got.unsure)
  /\ Ask \in Fetches /\ Ask.at = "asked"
  BY DEF Doubt, DoubtGet, Stories, Fetches, Ask

\* What an invalidation leaves of the cache: every entry that is there is to
\* be fetched again, and no answer on its way is believed.
LEMMA InvalidateLeaves ==
  ASSUME TypeOK, NEW new \in [Pages -> Stories \cup {None}], Invalidate(new)
  PROVE  /\ entry' = new /\ invalid' \subseteq Pages
         /\ \A q \in Pages : entry'[q] # None => q \in invalid'
         /\ get' \in [Pages -> Fetches \cup {None}]
         /\ \A q \in Pages : get'[q] = None \/ get'[q].at = "asked" \/ get'[q].got.unsure
  BY DoubtType DEF Invalidate, TypeOK

LEMMA NextScreenType ==
  ASSUME TypeOK, Owned, Attributed, [Next]_vars
  PROVE  TypeOK' /\ Owned'
<1> DEFINE Goal == /\ session' \in Members /\ page' \in Pages
                   /\ entry' \in [Pages -> Stories \cup {None}]
                   /\ invalid' \subseteq Pages
                   /\ get' \in [Pages -> Fetches \cup {None}]
                   /\ settled' \subseteq asked' /\ asked' \subseteq Toggles /\ here' \subseteq asked' \ settled'
                   /\ prev' \in [Toggles -> [Pages -> Stories \cup {None}]]
<1>1. /\ LikeTypeOK' /\ Owned'
  BY ScreensWorkOnLikes, StepType DEF TypeOK
<1>2. /\ session \in Members /\ page \in Pages
      /\ entry \in [Pages -> Stories \cup {None}]
      /\ invalid \subseteq Pages
      /\ get \in [Pages -> Fetches \cup {None}]
      /\ settled \subseteq asked /\ asked \subseteq Toggles /\ here \subseteq asked \ settled
      /\ prev \in [Toggles -> [Pages -> Stories \cup {None}]]
      /\ Nothing \in [Pages -> Stories \cup {None}] /\ Nothing \in [Pages -> Fetches \cup {None}]
      /\ likes \subseteq People
  BY DEF TypeOK, LikeTypeOK, Pending, Nothing
<1>3. ASSUME Fetch PROVE Goal
  BY <1>2, <1>3, DoubtType DEF Fetch
<1>4. ASSUME NEW q \in Pages, LikedStoryIDs(q) PROVE Goal
  <2>1. get'[q] \in Fetches \cup {None}
    <3>1. (session \in likes) \in BOOLEAN
      OBVIOUS
    <3>2. PICK b \in BOOLEAN : b = (session \in likes)
      BY <3>1, Zenon
    <3>3. get[q] \in Fetches /\ get'[q] = [get[q] EXCEPT !.at = "answered", !.got = [@ EXCEPT !.mine = b]]
      BY <1>2, <1>4, <3>2 DEF LikedStoryIDs
    <3>4. [get[q].got EXCEPT !.mine = b] \in Stories
      BY <3>3 DEF Fetches, Stories
    <3> QED  BY <3>3, <3>4 DEF Fetches
  <2>2. get' \in [Pages -> Fetches \cup {None}]
    BY <1>2, <1>4, <2>1 DEF LikedStoryIDs
  <2> QED  BY <1>2, <1>4, <2>2 DEF LikedStoryIDs
<1>5. ASSUME NEW q \in Pages, Land(q) PROVE Goal
  <2>1. get[q].got \in Stories
    BY <1>2, <1>5 DEF Land, Fetches
  <2> QED  BY <1>2, <1>5, <2>1 DEF Land
<1>6. ASSUME NEW q \in Pages, GetFails(q) PROVE Goal
  BY <1>2, <1>6 DEF GetFails
<1>7. ASSUME NEW q \in Pages, Navigate(q) PROVE Goal
  BY <1>2, <1>7, DoubtType DEF Navigate
<1>8. ASSUME NEW p \in Members, SwitchUser(p) PROVE Goal
  BY <1>2, <1>8 DEF SwitchUser
<1>9. ASSUME NEW t \in Toggles, Toggle(t) PROVE Goal
  <2>1. t \notin asked
    BY <1>9 DEF Toggle, Begin, Attributed
  <2>2. PICK b \in BOOLEAN : b = ~entry[page].mine
    BY Zenon
  <2>3. /\ entry' = [q \in Pages |-> Optimistic(entry[q], b)]
        /\ asked' = asked \cup {t} /\ here' = here \cup {t} /\ settled' = settled
        /\ prev' = [prev EXCEPT ![t] = entry] /\ get' = Nothing
        /\ invalid' = {q \in invalid : entry[q] = None}
        /\ session' = session /\ page' = page
    BY <1>9, <2>2 DEF Toggle
  <2>4. \A e \in Stories \cup {None} : Optimistic(e, b) \in Stories \cup {None}
    BY DEF Optimistic, Stories
  <2>5. entry' \in [Pages -> Stories \cup {None}]
    BY <1>2, <2>3, <2>4
  <2> QED  BY <1>2, <2>1, <2>3, <2>5
<1>10. ASSUME NEW t \in Toggles, NEW new \in [Pages -> Stories \cup {None}], Invalidate(new),
              settled' = settled \cup {t}, here' = here \ {t}, t \in Pending,
              prev' = [prev EXCEPT ![t] = Nothing], UNCHANGED <<session, page, asked>>
       PROVE  Goal
  BY <1>2, <1>10, InvalidateLeaves DEF Pending
<1>11. ASSUME NEW t \in Toggles, ToggleAnswered(t) PROVE Goal
  <2>1. Reconcile(t) \in [Pages -> Stories \cup {None}]
    BY <1>2 DEF Reconcile, Stories, TypeOK, LikeTypeOK
  <2> HIDE DEF Goal
  <2> QED  BY <1>10, <1>11, <2>1 DEF ToggleAnswered
<1>12. ASSUME NEW t \in Toggles, ToggleFails(t) PROVE Goal
  <2>1. RollBack(t) \in [Pages -> Stories \cup {None}]
    BY <1>2 DEF RollBack
  <2> HIDE DEF Goal
  <2> QED  BY <1>10, <1>12, <2>1 DEF ToggleFails
<1>13. ASSUME NEW t \in Toggles, Elsewhere(t) PROVE Goal
  BY <1>2, <1>13 DEF Elsewhere, screenVars
<1>14. ASSUME NEW t \in Toggles, ServerWorks(t) PROVE Goal
  <2>1. /\ [q \in Pages |-> Doubt(entry[q])] \in [Pages -> Stories \cup {None}]
        /\ [q \in Pages |-> DoubtGet(get[q])] \in [Pages -> Fetches \cup {None}]
    BY <1>2, DoubtType
  <2> QED  BY <1>2, <1>14, <2>1 DEF ServerWorks
<1>15. ASSUME UNCHANGED vars PROVE Goal
  BY <1>2, <1>15 DEF vars, screenVars
<1>16. Goal
  <2> HIDE DEF Goal
  <2> QED  BY <1>3, <1>4, <1>5, <1>6, <1>7, <1>8, <1>9, <1>11, <1>12, <1>13, <1>14, <1>15, ScreenSteps
<1> QED  BY <1>1, <1>16 DEF TypeOK, Pending

\* A call keeps the person it was made for, and whether this browser made it.
LEMMA NextAttributed ==
  ASSUME TypeOK, Attributed, [Next]_vars
  PROVE  Attributed'
<1>1. /\ at \in [Toggles -> {"idle", "begun", "written", "counted", "committed", "aborted"}]
      /\ who \in [Toggles -> People \cup {None}]
      /\ session \in Members
  BY DEF TypeOK, LikeTypeOK
<1>2. ASSUME who' = who, asked' = asked, \A t \in Toggles : at'[t] # "idle" <=> at[t] # "idle"
      PROVE  Attributed'
  BY <1>2 DEF Attributed
<1>3. ASSUME NEW t \in Toggles, Work(t)
      PROVE  who' = who /\ \A u \in Toggles : at'[u] # "idle" <=> at[u] # "idle"
  BY <1>1, <1>3 DEF Work, WriteRow, Recount, Commit, Abort, Open
<1>4. ASSUME NEW t \in Toggles, NEW p, NEW b, Begin(t, p, b)
      PROVE  /\ at[t] = "idle" /\ at'[t] # "idle" /\ who'[t] = p
             /\ \A u \in Toggles \ {t} : at'[u] = at[u] /\ who'[u] = who[u]
  BY <1>1, <1>4 DEF Begin
<1>5. ASSUME NEW t \in Toggles, Toggle(t) PROVE Attributed'
  <2>1. Begin(t, session, ~entry[page].mine) /\ asked' = asked \cup {t}
    BY <1>5 DEF Toggle
  <2> QED  BY <1>1, <1>4, <2>1 DEF Attributed
<1>6. ASSUME NEW t \in Toggles, Elsewhere(t) PROVE Attributed'
  <2>1. asked' = asked
    BY <1>6 DEF Elsewhere, screenVars
  <2>2. PICK p \in People \ Members, b \in BOOLEAN : Begin(t, p, b)
    BY <1>6 DEF Elsewhere
  <2> QED  BY <1>4, <2>1, <2>2 DEF Attributed
<1>7. ASSUME NEW t \in Toggles, ServerWorks(t) PROVE Attributed'
  <2>1. Work(t) /\ asked' = asked
    BY <1>7 DEF ServerWorks
  <2> QED  BY <1>2, <1>3, <2>1
<1>8. CASE who' = who /\ asked' = asked /\ at' = at
  BY <1>2, <1>8
<1> QED  BY <1>5, <1>6, <1>7, <1>8, ScreenSteps DEF vars, likeVars, screenVars, Fetch, LikedStoryIDs,
         Land, GetFails, Navigate, SwitchUser, ToggleAnswered, ToggleFails

\* A call that this browser did not make moves nothing for its members.
LEMMA OthersMoveNothing ==
  ASSUME Attributed, NEW t \in Toggles, t \notin asked, Work(t), NEW p \in Members
  PROVE  p \in likes' <=> p \in likes
<1>1. CASE likes' = likes
  BY <1>1
<1>2. CASE Commit(t)
  <2>1. likes' = Visible(t) /\ who[t] \notin Members
    BY <1>2 DEF Commit, Attributed
  <2> QED  BY <2>1 DEF Visible
<1> QED  BY <1>1, <1>2 DEF Work, WriteRow, Recount, Abort

LEMMA NextHeart ==
  ASSUME HeartInv, [Next]_vars
  PROVE  EntryIsTrue' /\ AnswerIsTrue'
<1> DEFINE Goal == EntryIsTrue' /\ AnswerIsTrue'
<1>1. /\ session \in Members /\ page \in Pages
      /\ entry \in [Pages -> Stories \cup {None}]
      /\ get \in [Pages -> Fetches \cup {None}]
      /\ settled \subseteq asked
  BY DEF HeartInv, TypeOK
\* Where nothing new is settled or believed and the truth stays.
<1>2. ASSUME Pending' = {} => Pending = {},
             \A q \in Pages : Settled(q)' => Heart(q)' \/ (Settled(q) /\ (Heart(q) => Heart(q)')),
             \A q \in Pages : Believed(q)' => Brought(q)' \/ (Believed(q) /\ (Brought(q) => Brought(q)'))
      PROVE  Goal
  BY <1>2 DEF HeartInv, EntryIsTrue, AnswerIsTrue
<1>3. ASSUME NEW q \in Pages, entry'[q] = entry[q], session' = session, session \in likes' <=> session \in likes,
             invalid' = invalid
      PROVE  Settled(q)' => Settled(q) /\ (Heart(q) => Heart(q)')
  BY <1>3 DEF Settled, Heart
<1>4. ASSUME NEW q \in Pages, get'[q] = get[q], session' = session, session \in likes' <=> session \in likes
      PROVE  Believed(q)' => Believed(q) /\ (Brought(q) => Brought(q)')
  BY <1>4 DEF Believed, Brought
\* Where nothing is believed but what was, or is just asked for.
<1>5. ASSUME UNCHANGED <<entry, invalid, session, likes, asked, settled>>,
             \A q \in Pages : get'[q] = get[q] \/ get'[q] = None \/ get'[q] = Ask
      PROVE  Goal
  <2>1. \A q \in Pages : Settled(q)' => Settled(q) /\ (Heart(q) => Heart(q)')
    BY <1>3, <1>5
  <2>2. \A q \in Pages : Believed(q)' => Believed(q) /\ (Brought(q) => Brought(q)')
    BY <1>4, <1>5, DoubtType DEF Believed
  <2>3. Pending' = Pending
    BY <1>5 DEF Pending
  <2> HIDE DEF Goal
  <2> QED  BY <1>2, <2>1, <2>2, <2>3
\* Where the cache is emptied, doubted or invalidated.
<1>6. ASSUME \A q \in Pages : entry'[q] = None \/ q \in invalid' \/ entry'[q].unsure,
             \A q \in Pages : get'[q] = None \/ get'[q].at = "asked" \/ get'[q].got.unsure
      PROVE  Goal
  BY <1>6 DEF EntryIsTrue, AnswerIsTrue, Settled, Believed
<1>7. ASSUME Fetch PROVE Goal
  <2> HIDE DEF Goal
  <2> QED  BY <1>1, <1>5, <1>7 DEF Fetch, likeVars
<1>8. ASSUME NEW q \in Pages, LikedStoryIDs(q) PROVE Goal
  <2>1. /\ UNCHANGED <<entry, invalid, session, likes, asked, settled>>
        /\ \A r \in Pages \ {q} : get'[r] = get[r]
        /\ get'[q].got.mine = (session \in likes)
    BY <1>1, <1>8 DEF LikedStoryIDs, likeVars, Fetches, Stories
  <2>2. \A r \in Pages : Settled(r)' => Settled(r) /\ (Heart(r) => Heart(r)')
    BY <1>3, <2>1
  <2>3. Brought(q)'
    BY <2>1, Zenon DEF Brought
  <2>4. \A r \in Pages : Believed(r)' => Brought(r)' \/ (Believed(r) /\ (Brought(r) => Brought(r)'))
    BY <1>4, <2>1, <2>3
  <2>5. Pending' = Pending
    BY <2>1 DEF Pending
  <2> HIDE DEF Goal
  <2> QED  BY <1>2, <2>2, <2>4, <2>5
<1>9. ASSUME NEW q \in Pages, Land(q) PROVE Goal
  <2>1. /\ UNCHANGED <<session, likes, asked, settled>>
        /\ get[q] # None /\ get[q].at = "answered"
        /\ entry'[q] = get[q].got /\ get'[q] = None
        /\ \A r \in Pages \ {q} : get'[r] = get[r] /\ entry'[r] = entry[r] /\ (r \in invalid' <=> r \in invalid)
    BY <1>1, <1>9 DEF Land, likeVars
  <2>2. Pending' = Pending
    BY <2>1 DEF Pending
  <2>3. ASSUME Pending = {}, NEW r \in Pages, Settled(r)' PROVE Heart(r)'
    <3>1. CASE r = q
      <4>1. Believed(q)
        BY <2>1, <2>3, <3>1 DEF Believed, Settled
      <4>2. Brought(q)
        BY <2>3, <4>1 DEF HeartInv, AnswerIsTrue
      <4> QED  BY <2>1, <3>1, <4>2 DEF Brought, Heart
    <3>2. CASE r # q
      <4>1. Settled(r)
        BY <2>1, <2>3, <3>2 DEF Settled
      <4>2. Heart(r)
        BY <2>3, <4>1 DEF HeartInv, EntryIsTrue
      <4> QED  BY <2>1, <3>2, <4>2 DEF Heart
    <3> QED  BY <3>1, <3>2
  <2>4. ASSUME Pending = {}, NEW r \in Pages, Believed(r)' PROVE Brought(r)'
    <3>1. r # q /\ Believed(r)
      BY <2>1, <2>4 DEF Believed
    <3>2. Brought(r)
      BY <2>4, <3>1 DEF HeartInv, AnswerIsTrue
    <3> QED  BY <2>1, <3>1, <3>2 DEF Brought
  <2> QED  BY <2>2, <2>3, <2>4 DEF EntryIsTrue, AnswerIsTrue
<1>10. ASSUME NEW q \in Pages, GetFails(q) PROVE Goal
  <2> HIDE DEF Goal
  <2> QED  BY <1>1, <1>5, <1>10 DEF GetFails, likeVars
<1>11. ASSUME NEW q \in Pages, Navigate(q) PROVE Goal
  <2> HIDE DEF Goal
  <2> QED  BY <1>1, <1>5, <1>11 DEF Navigate, likeVars
<1>12. ASSUME NEW p \in Members, SwitchUser(p) PROVE Goal
  <2> HIDE DEF Goal
  <2> QED  BY <1>6, <1>12 DEF SwitchUser, Nothing
<1>13. ASSUME NEW t \in Toggles, Toggle(t) PROVE Goal
  <2>1. t \in asked' /\ t \notin settled'
    BY <1>1, <1>13 DEF Toggle, Begin, HeartInv, Attributed
  <2> QED  BY <2>1 DEF Pending, EntryIsTrue, AnswerIsTrue
<1>14. ASSUME NEW new \in [Pages -> Stories \cup {None}], Invalidate(new) PROVE Goal
  <2>1. /\ \A q \in Pages : entry'[q] # None => q \in invalid'
        /\ \A q \in Pages : get'[q] = None \/ get'[q].at = "asked" \/ get'[q].got.unsure
    BY <1>14, InvalidateLeaves DEF HeartInv
  <2> HIDE DEF Goal
  <2> QED  BY <1>6, <2>1
<1>15. ASSUME NEW t \in Toggles, ToggleAnswered(t) PROVE Goal
  <2>1. Reconcile(t) \in [Pages -> Stories \cup {None}]
    BY <1>1 DEF Reconcile, Stories, HeartInv, TypeOK, LikeTypeOK
  <2> HIDE DEF Goal
  <2> QED  BY <1>14, <1>15, <2>1 DEF ToggleAnswered
<1>16. ASSUME NEW t \in Toggles, ToggleFails(t) PROVE Goal
  <2>1. RollBack(t) \in [Pages -> Stories \cup {None}]
    BY <1>1 DEF RollBack, HeartInv, TypeOK
  <2> HIDE DEF Goal
  <2> QED  BY <1>14, <1>16, <2>1 DEF ToggleFails
<1>17. ASSUME NEW t \in Toggles, Elsewhere(t) PROVE Goal
  <2>1. UNCHANGED <<entry, invalid, session, likes, asked, settled, get>>
    BY <1>17 DEF Elsewhere, screenVars, Begin
  <2> HIDE DEF Goal
  <2> QED  BY <1>5, <2>1
<1>18. ASSUME NEW t \in Toggles, ServerWorks(t) PROVE Goal
  <2>1. Work(t) /\ UNCHANGED <<session, invalid, asked, settled>> /\ Pending' = Pending
    BY <1>18 DEF ServerWorks, Pending
  <2>2. CASE t \in settled /\ likes' # likes
    <3>1. /\ entry' = [q \in Pages |-> Doubt(entry[q])]
          /\ get' = [q \in Pages |-> DoubtGet(get[q])]
      BY <1>18, <2>2 DEF ServerWorks
    <3>2. /\ \A q \in Pages : entry'[q] = None \/ entry'[q].unsure
          /\ \A q \in Pages : get'[q] = None \/ get'[q].got.unsure
      BY <1>1, <3>1, DoubtType
    <3> HIDE DEF Goal
    <3> QED  BY <1>6, <3>2
  <2>3. CASE ~(t \in settled /\ likes' # likes)
    <3>1. UNCHANGED <<entry, get>>
      BY <1>18, <2>3 DEF ServerWorks
    <3>2. CASE t \in Pending
      BY <2>1, <3>2 DEF EntryIsTrue, AnswerIsTrue
    <3>3. CASE t \notin Pending
      <4>1. session \in likes' <=> session \in likes
        BY <1>1, <2>1, <2>3, <3>3, OthersMoveNothing DEF Pending, HeartInv
      <4>2. /\ \A q \in Pages : Settled(q)' => Settled(q) /\ (Heart(q) => Heart(q)')
            /\ \A q \in Pages : Believed(q)' => Believed(q) /\ (Brought(q) => Brought(q)')
        BY <1>3, <1>4, <2>1, <3>1, <4>1
      <4> HIDE DEF Goal
      <4> QED  BY <1>2, <2>1, <4>2
    <3> QED  BY <3>2, <3>3
  <2> QED  BY <2>2, <2>3
<1>19. ASSUME UNCHANGED vars PROVE Goal
  <2> HIDE DEF Goal
  <2> QED  BY <1>5, <1>19 DEF vars, likeVars, screenVars
<1>20. Goal
  <2> HIDE DEF Goal
  <2> QED  BY <1>7, <1>8, <1>9, <1>10, <1>11, <1>12, <1>13, <1>15, <1>16, <1>17, <1>18, <1>19, ScreenSteps
<1> QED  BY <1>20

LEMMA HeartInit == Init => HeartInv /\ LikeIInv
<1> SUFFICES ASSUME Init PROVE HeartInv /\ LikeIInv
  OBVIOUS
<1>1. LikeTypeOK /\ Owned /\ LikeIInv
  BY InitInv DEF Init
<1>2. TypeOK
  BY <1>1 DEF Init, TypeOK, Nothing, Pages, Pending
<1>3. Attributed
  BY DEF Init, LikeInit, Attributed
<1>4. EntryIsTrue /\ AnswerIsTrue
  BY DEF Init, Nothing, EntryIsTrue, AnswerIsTrue, Settled, Believed
<1> QED  BY <1>1, <1>2, <1>3, <1>4 DEF HeartInv

LEMMA HeartNext == HeartInv /\ [Next]_vars => HeartInv'
  BY NextScreenType, NextAttributed, NextHeart DEF HeartInv

\* The hearts and their fetches keep their types, the calls of this browser
\* are its members' (useLikeStory, useUnlikeStory).
THEOREM ScreenTypeCorrect == Spec => []TypeOK
<1>1. HeartInv => TypeOK
  BY DEF HeartInv
<1> QED  BY <1>1, HeartInit, HeartNext, PTL DEF Spec

\* Behind the screens too the counter drifts only where calls overlapped
\* (recomputeAndReadLikeCount).
THEOREM ScreensDriftOnlyFromOverlap == Spec => []DriftOnlyFromOverlap
<1>1. HeartInv /\ LikeIInv /\ [Next]_vars => LikeIInv'
  <2> SUFFICES ASSUME HeartInv, LikeIInv, [Next]_vars PROVE LikeIInv'
    OBVIOUS
  <2>1. [LikeNext]_likeVars
    BY ScreensWorkOnLikes DEF HeartInv, TypeOK
  <2> QED  BY <2>1, StepInv DEF HeartInv
<1>2. LikeIInv => DriftOnlyFromOverlap
  BY DEF LikeIInv
<1> QED  BY <1>1, <1>2, HeartInit, HeartNext, PTL DEF Spec

\* When no like of this browser is pending, every heart that nothing will ask
\* for again is the signed-in person's own (onMutate, onError, onSuccess and
\* onSettled of the like hooks, and the switch of accounts of AuthProvider).
THEOREM HeartsTellTheTruth == Spec => []HeartTellsTruth
<1>1. HeartInv => HeartTellsTruth
  BY DEF HeartInv, EntryIsTrue, HeartTellsTruth, Heart
<1> QED  BY <1>1, HeartInit, HeartNext, PTL DEF Spec
=============================================================================
