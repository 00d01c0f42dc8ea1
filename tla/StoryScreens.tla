----------------------------- MODULE StoryScreens ----------------------------
(***************************************************************************)
(* The hearts on screen: one browser where Members sign in in turn, the    *)
(* list of stories and the page of one story, their two cached entries of  *)
(* that story, and the optimistic likes of useLikeStory and useUnlikeStory *)
(* (shared/hooks/index.ts) over the database of StoryLikes.  Everybody     *)
(* else calls the same transactions from elsewhere.                        *)
(***************************************************************************)
EXTENDS StoryLikes

CONSTANT Members   \* people who use this browser

ASSUME MembersAssumption == Members # {} /\ Members \subseteq People

Pages == {"list", "detail"}

VARIABLES
    session,   \* who is signed in
    page,      \* the mounted one
    entry,     \* ['stories', params] and ['stories', id]: None or this story
    invalid,   \* isInvalidated of each
    get,       \* the fetch in progress of each
    asked,     \* calls this browser made
    settled,   \* ... whose mutation ended here
    here,      \* ... pending in the component that is mounted now
    prev       \* ... their context: the entries before them

screenVars == <<session, page, entry, invalid, get, asked, settled, here, prev>>
vars == <<likeVars, screenVars>>

\* liked_by_me of the story.  unsure, for the property: since it was read the
\* server moved and nobody told this browser.
Stories == [mine : BOOLEAN, unsure : BOOLEAN]
Fetches == [at : {"asked", "answered"}, got : Stories]
Ask == [at |-> "asked", got |-> [mine |-> FALSE, unsure |-> FALSE]]
Nothing == [q \in Pages |-> None]
Pending == asked \ settled
Fresh(t) == \A u \in Toggles : at[u] = "idle" => t <= u

TypeOK ==
    /\ LikeTypeOK
    /\ session \in Members /\ page \in Pages
    /\ entry \in [Pages -> Stories \cup {None}]
    /\ invalid \subseteq Pages
    /\ get \in [Pages -> Fetches \cup {None}]
    /\ settled \subseteq asked /\ asked \subseteq Toggles /\ here \subseteq Pending
    /\ prev \in [Toggles -> [Pages -> Stories \cup {None}]]

Init ==
    /\ LikeInit
    /\ session \in Members
    /\ page = "list"
    /\ entry = Nothing /\ get = Nothing /\ invalid = {}
    /\ asked = {} /\ settled = {} /\ here = {}
    /\ prev = [t \in Toggles |-> Nothing]

-----------------------------------------------------------------------------
(* The cache *)

Doubt(e) == IF e = None THEN None ELSE [e EXCEPT !.unsure = TRUE]
DoubtGet(g) == IF g = None THEN None ELSE [g EXCEPT !.got.unsure = TRUE]

\* The query of the page is stale or new: it is fetched.
Fetch ==
    /\ get[page] = None
    /\ get' = [get EXCEPT ![page] = Ask]
    /\ UNCHANGED <<likeVars, session, page, entry, invalid, asked, settled, here, prev>>

\* List and GetByID ask who likes the stories.
LikedStoryIDs(q) ==
    /\ get[q] # None /\ get[q].at = "asked"
    /\ get' = [get EXCEPT ![q].at = "answered", ![q].got.mine = session \in likes]
    /\ UNCHANGED <<likeVars, session, page, entry, invalid, asked, settled, here, prev>>

Land(q) ==
    /\ get[q] # None /\ get[q].at = "answered"
    /\ entry' = [entry EXCEPT ![q] = get[q].got]
    /\ get' = [get EXCEPT ![q] = None]
    /\ invalid' = invalid \ {q}
    /\ UNCHANGED <<likeVars, session, page, asked, settled, here, prev>>

GetFails(q) ==
    /\ get[q] # None
    /\ get' = [get EXCEPT ![q] = None]
    /\ UNCHANGED <<likeVars, session, page, entry, invalid, asked, settled, here, prev>>

\* The other page mounts: what it has is fetched again if it was invalidated.
Navigate(q) ==
    /\ q # page
    /\ page' = q /\ here' = {}
    /\ get' = IF get[q] = None /\ (entry[q] = None \/ q \in invalid)
              THEN [get EXCEPT ![q] = Ask] ELSE get
    /\ UNCHANGED <<likeVars, session, entry, invalid, asked, settled, prev>>

\* Another person signs in: AuthContext empties the cache; mutations go on.
SwitchUser(p) ==
    /\ p # session
    /\ session' = p /\ here' = {}
    /\ entry' = Nothing /\ get' = Nothing /\ invalid' = {}
    /\ UNCHANGED <<likeVars, page, asked, settled, prev>>

-----------------------------------------------------------------------------
(* useLikeStory and useUnlikeStory *)

Optimistic(e, b) == IF e = None THEN None ELSE [e EXCEPT !.mine = b]

\* Every ['stories'] query is invalidated; the mounted one is fetched again,
\* a first load or one that nobody shows goes on.
Invalidate(new) ==
    /\ invalid' = {q \in Pages : new[q] # None}
    /\ entry' = new
    /\ get' = [q \in Pages |->
                  IF q = page /\ (new[q] # None \/ get[q] = None) THEN Ask
                  ELSE DoubtGet(get[q])]

\* The button is disabled while a mutation of the mounted page is pending.
Toggle(t) ==
    /\ Fresh(t)
    /\ entry[page] # None /\ here = {}
    /\ Begin(t, session, ~entry[page].mine)
    /\ asked' = asked \cup {t} /\ here' = here \cup {t}
    /\ prev' = [prev EXCEPT ![t] = entry]
    /\ entry' = [q \in Pages |-> Optimistic(entry[q], ~entry[page].mine)]
    /\ get' = Nothing
    /\ invalid' = {q \in invalid : entry[q] = None}
    /\ UNCHANGED <<session, page, settled>>

\* The answer of a committed call overwrites what is cached.
Reconcile(t) ==
    [q \in Pages |-> IF entry[q] = None THEN None ELSE [entry[q] EXCEPT !.mine = liked[t]]]

ToggleAnswered(t) ==
    /\ t \in Pending /\ at[t] = "committed"
    /\ settled' = settled \cup {t} /\ here' = here \ {t}
    /\ Invalidate(Reconcile(t))
    /\ prev' = [prev EXCEPT ![t] = Nothing]
    /\ UNCHANGED <<likeVars, session, page, asked>>

\* The call failed, or its answer did not come: every entry it found is put
\* back as it was.
RollBack(t) == [q \in Pages |-> IF prev[t][q] = None THEN entry[q] ELSE prev[t][q]]

ToggleFailsQuietly(t) ==
    /\ t \in Pending
    /\ settled' = settled \cup {t} /\ here' = here \ {t}
    /\ entry' = RollBack(t)
    /\ prev' = [prev EXCEPT ![t] = Nothing]
    /\ UNCHANGED <<likeVars, session, page, get, invalid, asked>>

ToggleFails(t) ==
    /\ t \in Pending
    /\ settled' = settled \cup {t} /\ here' = here \ {t}
    /\ Invalidate(RollBack(t))
    /\ prev' = [prev EXCEPT ![t] = Nothing]
    /\ UNCHANGED <<likeVars, session, page, asked>>

-----------------------------------------------------------------------------
\* A call from elsewhere.
Elsewhere(t) ==
    /\ Fresh(t)
    /\ \E p \in People \ Members, b \in BOOLEAN : Begin(t, p, b)
    /\ UNCHANGED screenVars

\* A call this browser gave up on may still commit.
ServerWorks(t) ==
    /\ Work(t)
    /\ IF t \in settled /\ likes' # likes
       THEN /\ entry' = [q \in Pages |-> Doubt(entry[q])]
            /\ get' = [q \in Pages |-> DoubtGet(get[q])]
       ELSE UNCHANGED <<entry, get>>
    /\ UNCHANGED <<session, page, invalid, asked, settled, here, prev>>

Next ==
    \/ Fetch
    \/ \E q \in Pages : LikedStoryIDs(q) \/ Land(q) \/ GetFails(q) \/ Navigate(q)
    \/ \E p \in Members : SwitchUser(p)
    \/ \E t \in Toggles :
          Toggle(t) \/ ToggleAnswered(t) \/ ToggleFails(t) \/ Elsewhere(t) \/ ServerWorks(t)

Spec == Init /\ [][Next]_vars

-----------------------------------------------------------------------------
\* When no like of this browser is pending, a heart that nothing will ask for
\* again is the person's own, on both pages and whatever the database still
\* does: likes overlapping from two pages, answered out of order, lost after
\* they were stored, rolled back over each other or left behind by whoever was
\* signed in before do not stay on it.  Excused: a change the server made after
\* this browser had given up, and a read overtaken where nothing asks for it
\* again.
Settled(q) == entry[q] # None /\ q \notin invalid /\ ~entry[q].unsure
HeartTellsTruth ==
    Pending = {} => \A q \in Pages : Settled(q) => entry[q].mine = (session \in likes)
=============================================================================
