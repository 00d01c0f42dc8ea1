------------------------------ MODULE StoryLikes -----------------------------
(***************************************************************************)
(* Likes of one success story in the database (success_story_repository.go)*)
(* AddLike and RemoveLike are transactions of READ COMMITTED: the row of   *)
(* the person is written, then one UPDATE sets like_count to the number of *)
(* rows its snapshot sees, then the transaction commits.  Two of them hold *)
(* no lock against each other until the UPDATE, whose subquery keeps the   *)
(* snapshot the statement started with when it waits for the story's row.  *)
(***************************************************************************)
EXTENDS Naturals, FiniteSets

CONSTANTS
    People,
    Toggles,   \* calls of AddLike or RemoveLike (bound)
    None

ASSUME PeopleAssumption == IsFiniteSet(People)

VARIABLES
    likes,    \* committed rows of story_likes: who likes the story
    count,    \* committed success_stories.like_count
    at,       \* each call: idle, begun, written, counted,
              \* committed or aborted
    who,      \* its person
    liked,    \* TRUE for AddLike
    row,      \* what it did to the person's row, while it is open
    seen,     \* what its UPDATE counted
    behind,   \* history: another call committed since it counted
    raced     \* history: the last commit was of a call that was behind

likeVars == <<likes, count, at, who, liked, row, seen, behind, raced>>

Open(t) == at[t] \in {"begun", "written", "counted"}

\* The rows call t sees: the committed ones and its own write.
Visible(t) ==
    CASE row[t] = "added" -> likes \cup {who[t]}
      [] row[t] = "removed" -> likes \ {who[t]}
      [] OTHER -> likes

LikeTypeOK ==
    /\ likes \subseteq People
    /\ count \in Nat
    /\ at \in [Toggles -> {"idle", "begun", "written", "counted", "committed", "aborted"}]
    /\ who \in [Toggles -> People \cup {None}]
    /\ liked \in [Toggles -> BOOLEAN]
    /\ row \in [Toggles -> {"kept", "added", "removed"}]
    /\ seen \in [Toggles -> Nat]
    /\ behind \in [Toggles -> BOOLEAN]
    /\ raced \in BOOLEAN

LikeInit ==
    /\ likes = {} /\ count = 0
    /\ at = [t \in Toggles |-> "idle"]
    /\ who = [t \in Toggles |-> None]
    /\ liked = [t \in Toggles |-> TRUE]
    /\ row = [t \in Toggles |-> "kept"]
    /\ seen = [t \in Toggles |-> 0]
    /\ behind = [t \in Toggles |-> FALSE]
    /\ raced = FALSE

\* The request of person p reaches the transaction; the story exists.
Begin(t, p, b) ==
    /\ at[t] = "idle"
    /\ at' = [at EXCEPT ![t] = "begun"]
    /\ who' = [who EXCEPT ![t] = p]
    /\ liked' = [liked EXCEPT ![t] = b]
    /\ UNCHANGED <<likes, count, row, seen, behind, raced>>

\* An INSERT waits for any open write of the same row, a DELETE for an open
\* DELETE; a row inserted by an open transaction is not there for a DELETE.
Blocked(t) ==
    \E u \in Toggles \ {t} :
        /\ Open(u) /\ who[u] = who[t]
        /\ row[u] = "removed" \/ (row[u] = "added" /\ liked[t])

\* ON CONFLICT DO NOTHING, or a DELETE that may find no row.
WriteRow(t) ==
    /\ at[t] = "begun" /\ ~Blocked(t)
    /\ at' = [at EXCEPT ![t] = "written"]
    /\ row' = [row EXCEPT ![t] =
                  IF liked[t] = (who[t] \in likes) THEN "kept"
                  ELSE IF liked[t] THEN "added" ELSE "removed"]
    /\ UNCHANGED <<likes, count, who, liked, seen, behind, raced>>

\* recomputeAndReadLikeCount: the UPDATE takes its snapshot.
RowsWithoutOwn(t) == Cardinality(likes)
Rows(t) == Cardinality(Visible(t))

Recount(t) ==
    /\ at[t] = "written"
    /\ at' = [at EXCEPT ![t] = "counted"]
    /\ seen' = [seen EXCEPT ![t] = Rows(t)]
    /\ behind' = [behind EXCEPT ![t] = FALSE]
    /\ UNCHANGED <<likes, count, who, liked, row, raced>>

\* It gets the story's row, writes what it counted and commits.
Commit(t) ==
    /\ at[t] = "counted"
    /\ at' = [at EXCEPT ![t] = "committed"]
    /\ likes' = Visible(t)
    /\ count' = seen[t]
    /\ raced' = behind[t]
    /\ row' = [row EXCEPT ![t] = "kept"]
    /\ behind' = [u \in Toggles |-> u # t /\ at[u] = "counted"]
    /\ UNCHANGED <<who, liked, seen>>

\* A statement fails or the server stops: the transaction rolls back.
Abort(t) ==
    /\ Open(t)
    /\ at' = [at EXCEPT ![t] = "aborted"]
    /\ row' = [row EXCEPT ![t] = "kept"]
    /\ UNCHANGED <<likes, count, who, liked, seen, behind, raced>>

\* The database on its own goes on with what was begun.
Work(t) == WriteRow(t) \/ Recount(t) \/ Commit(t) \/ Abort(t)

LikeNext ==
    \E t \in Toggles : Work(t) \/ \E p \in People, b \in BOOLEAN : Begin(t, p, b)

LikeSpec == LikeInit /\ [][LikeNext]_likeVars

-----------------------------------------------------------------------------
\* The counter is off only by calls that overlapped: whatever the history of
\* likes, repeated likes and rollbacks before it, a call that commits before
\* anybody else does writes the true count, and so repairs an earlier drift.
DriftOnlyFromOverlap == ~raced => count = Cardinality(likes)

\* "recomputes like_count from the row count, inside a single transaction":
\* once no call is open the counter is the number of rows.
CounterIsRowCount == (\A t \in Toggles : ~Open(t)) => count = Cardinality(likes)
=============================================================================
