--------------------------- MODULE PetLifecycle ---------------------------
(***************************************************************************)
(* The life of a pet: its status machine, its search episodes, the reports *)
(* filed about it, the helpers its manager credits and the rows of the     *)
(* impact ledger.  Each HTTP request of the pet and report services is an  *)
(* actor that first READS the pet outside any transaction, then commits a  *)
(* transaction, then runs best-effort steps (closure report, clock, event  *)
(* bus, ledger) one database statement at a time.  PostgreSQL runs READ    *)
(* COMMITTED and every transaction that changes a pet starts by updating   *)
(* the pet's row, so a transaction is one step taken when that row lock is *)
(* granted; what a request read earlier may be stale by then.              *)
(*                                                                         *)
(* With one request the module is the sequential behaviour of the          *)
(* services; with two or more it is what the deployed server does.         *)
(***************************************************************************)
EXTENDS Integers, FiniteSets, PetStatus

CONSTANTS
  Users,        \* ids of the users that own, report or help
  Pets,         \* ids of the pets
  Requests,     \* the HTTP requests that can be in flight at the same time
  ReportIds,    \* ids of the reports; a bound on the reports ever filed
  Times,        \* instants a sighting can have; 0 stands for NULL
  MaxEpisodes,  \* bound on the search episodes of one pet
  MaxVersion,   \* bound on pets.version
  MaxDeletions, \* bound on the deletions of one pet
  MaxReunions,  \* bound on the pet_found rows of a pet after which no request arrives
  Failures,     \* whether statements may fail and the server may stop
  Nil           \* SQL NULL, a missing row, a field that was not sent

ASSUME TimesAssumption    == IsFiniteSet(Times) /\ Times \subseteq Nat \ {0}
ASSUME RequestsAssumption == IsFiniteSet(Requests)
ASSUME BoundsAssumption   == /\ MaxEpisodes \in Nat \ {0}
                             /\ MaxVersion \in Nat \ {0}
                             /\ MaxDeletions \in Nat
                             /\ MaxReunions \in Nat
ASSUME FailuresAssumption == Failures \in BOOLEAN
ASSUME NilAssumption      == Nil \notin Users

VARIABLES
  pets,       \* pets[p]: the row of p, Nil when there is none
  eps,        \* eps[p][k]: state of the k-th search episode opened for p
  reports,    \* reports[i]: the report row, Nil when there is none
  credits,    \* the rows of pet_helper_credits, as <<pet, helper>>
  ledger,     \* ledger[p]: how many platform_events rows of each type p has
  paid,       \* paid[p][u]: times u was announced as a credited helper of p
  deletions,  \* deletions[p]: times the row of p was deleted
  req         \* req[r]: what request r is doing

vars == <<pets, eps, reports, credits, ledger, paid, deletions, req>>

-----------------------------------------------------------------------------
ReportKinds == {"lost", "found", "sighting"}

-----------------------------------------------------------------------------
(* Rows.                                                                   *)

EpIds   == 1 .. MaxEpisodes
EpState == {"none", "open", "gone"} \cup ValidPetStatuses

PetRow == [status   : ValidPetStatuses,
           version  : 1 .. MaxVersion,
           owner    : Users \cup {Nil},
           reporter : Users \cup {Nil},
           cur      : EpIds \cup {0},
           clock    : Times \cup {0}]

ReportRow == [pet : Pets, reporter : Users, kind : ReportKinds,
              ep : EpIds \cup {0}, at : Times]

ASSUME RowsAssumption == Nil \notin PetRow /\ Nil \notin ReportRow /\ Nil \notin ValidPetStatuses

canManagePet(row, u) ==
  IF row.owner # Nil THEN row.owner = u ELSE row.reporter = u

\* The episodes that exist: opened, and not cascaded away with their pet.
Live(e) == {k \in EpIds : e[k] \notin {"none", "gone"}}

\* FindCurrent: the episode that started last, open or closed; 0 for none.
FindCurrent(e) ==
  IF Live(e) = {} THEN 0 ELSE CHOOSE k \in Live(e) : \A j \in Live(e) : j <= k

\* The episode opened next, if the bound leaves one: they start in order.
IsFresh(e, k) == e[k] = "none" /\ \A j \in 1 .. k - 1 : e[j] # "none"
HasFresh(e)   == \E k \in EpIds : IsFresh(e, k)
Fresh(e)      == CHOOSE k \in EpIds : IsFresh(e, k)

\* TouchLastReported: the comparison is inside the UPDATE, so it only advances.
\* Mutant: the WHERE that keeps the clock monotone is dropped.
TouchOverwrites(row, seen) == [row EXCEPT !.clock = seen]

TouchLastReported(row, seen) == [row EXCEPT !.clock = IF @ < seen THEN seen ELSE @]

ReportsOf(p) == {i \in ReportIds : reports[i] # Nil /\ reports[i].pet = p}

\* The subquery of RecomputeLastReported; 0 when no report is left.
NewestSighting(p) ==
  IF ReportsOf(p) = {} THEN 0
  ELSE CHOOSE t \in Times : /\ \E i \in ReportsOf(p) : reports[i].at = t
                            /\ \A i \in ReportsOf(p) : reports[i].at <= t

-----------------------------------------------------------------------------
(* Episodes.  An episode step takes and returns the episodes e of a pet    *)
(* together with its current_episode_id.                                   *)

Open(e, cur) == [eps |-> [e EXCEPT ![Fresh(e)] = "open"], cur |-> Fresh(e)]

\* Mutant: closing also clears pets.current_episode_id.
CloseAndUnlink(e, cur, resolution) ==
  [eps |-> IF cur # 0 /\ e[cur] = "open" THEN [e EXCEPT ![cur] = resolution] ELSE e,
   cur |-> 0]

CloseCurrent(e, cur, resolution) ==
  [eps |-> IF cur # 0 /\ e[cur] = "open" THEN [e EXCEPT ![cur] = resolution] ELSE e,
   cur |-> cur]

Opens(old, new)  == ~IsActiveSearchStatus(old) /\ IsActiveSearchStatus(new)
\* Mutant: only a reunion closes the search.
ClosesOnFoundOnly(old, new) == IsActiveSearchStatus(old) /\ new = "found"

Closes(old, new) == IsActiveSearchStatus(old) /\ ~IsActiveSearchStatus(new)

HandleTransition(e, cur, old, new) ==
  CASE Opens(old, new)  -> Open(e, cur)
    [] Closes(old, new) -> CloseCurrent(e, cur, new)
    [] OTHER            -> [eps |-> e, cur |-> cur]

-----------------------------------------------------------------------------
(* Helpers.                                                                *)

\* Mutant: the reporter of a stray is offered as a helper of it.
CandidatesWithReporter(p, k) ==
  {u \in Users : /\ \E i \in ReportsOf(p) : reports[i].ep = k /\ reports[i].reporter = u
                 /\ pets[p] # Nil
                 /\ u # pets[p].owner}

\* Everyone with a report in episode k of p, but the pet's owner and reporter.
FindCandidates(p, k) ==
  {u \in Users : /\ \E i \in ReportsOf(p) : reports[i].ep = k /\ reports[i].reporter = u
                 /\ pets[p] # Nil
                 /\ u \notin {pets[p].owner, pets[p].reporter}}

\* e: the episodes as the transaction sees them after the transition.
Candidates(p, e) == IF FindCurrent(e) = 0 THEN {} ELSE FindCandidates(p, FindCurrent(e))

\* helpers = Nil is a field that was not sent, {} is "nobody helped".
HelpersAccepted(p, e, helpers) ==
  IF helpers = Nil THEN Candidates(p, e) = {} ELSE helpers \subseteq Candidates(p, e)

Chosen(helpers) == IF helpers = Nil THEN {} ELSE helpers

\* Mutant: everyone chosen is returned, the already credited too.
InsertReturnsAll(p, helpers) == Chosen(helpers)

\* InsertCredits returns only the helpers ON CONFLICT DO NOTHING let in.
InsertCredits(p, helpers) == {u \in Chosen(helpers) : <<p, u>> \notin credits}

-----------------------------------------------------------------------------
(* Requests.                                                               *)

Ops == {"none", "create", "update", "found", "publish", "report", "delete", "moderate"}
PCs == {"idle", "commit", "txread", "load", "closure", "touch", "publish", "ledger",
        "snapshot", "recompute"}

\* old: the status the request read; seen: the whole row, kept by an update only.
Idle == [pc |-> "idle", op |-> "none", actor |-> Nil, pet |-> Nil, old |-> Nil, seen |-> Nil,
         want |-> Nil, at |-> 0, helpers |-> Nil, rid |-> Nil, credited |-> {}]

Request == [pc       : PCs,
            op       : Ops,
            actor    : Users \cup {Nil},
            pet      : Pets \cup {Nil},
            old      : ValidPetStatuses \cup {Nil},
            seen     : PetRow \cup {Nil},
            want     : ValidPetStatuses \cup ReportKinds \cup {Nil},
            at       : Times \cup {0},
            helpers  : (SUBSET Users) \cup {Nil},
            rid      : ReportIds \cup {Nil},
            credited : SUBSET Users]

Init ==
  /\ pets      = [p \in Pets |-> Nil]
  /\ eps       = [p \in Pets |-> [k \in EpIds |-> "none"]]
  /\ reports   = [i \in ReportIds |-> Nil]
  /\ credits   = {}
  /\ ledger    = [p \in Pets |-> [found |-> 0, started |-> 0]]
  /\ paid      = [p \in Pets |-> [u \in Users |-> 0]]
  /\ deletions = [p \in Pets |-> 0]
  /\ req       = [r \in Requests |-> Idle]

Become(r, q) == req' = [req EXCEPT ![r] = q]

\* What a request still carries once its transaction has committed.
Done(q) == [Idle EXCEPT !.pc = "publish", !.op = q.op, !.pet = q.pet, !.want = q.want]

-----------------------------------------------------------------------------
(* CreatePet.  The stray branch is one transaction: pet, episode, initial  *)
(* report, clock.  The id is a fresh UUID.                                 *)

NewPet(u, status) ==
  [status |-> status, version |-> 1,
   owner    |-> IF status = "stray" THEN Nil ELSE u,
   reporter |-> IF status = "stray" THEN u ELSE Nil,
   cur |-> 0, clock |-> 0]

CreatePet(r, u, p, status) ==
  /\ req[r].pc = "idle"
  /\ pets[p] = Nil /\ deletions[p] = 0
  /\ pets' = [pets EXCEPT ![p] = NewPet(u, status)]
  /\ UNCHANGED <<eps, reports, credits, ledger, paid, deletions, req>>

CreateStray(r, u, p, i, at) ==
  LET opened == Open(eps[p], 0) IN
  /\ req[r].pc = "idle"
  /\ pets[p] = Nil /\ deletions[p] = 0
  /\ HasFresh(eps[p])
  /\ reports[i] = Nil
  /\ pets' = [pets EXCEPT ![p] = [NewPet(u, "stray") EXCEPT !.cur = opened.cur, !.clock = at]]
  /\ eps' = [eps EXCEPT ![p] = opened.eps]
  /\ reports' = [reports EXCEPT ![i] =
       [pet |-> p, reporter |-> u, kind |-> "sighting", ep |-> opened.cur, at |-> at]]
  /\ Become(r, [Idle EXCEPT !.pc = "ledger", !.op = "create", !.pet = p, !.want = "stray"])
  /\ UNCHANGED <<credits, ledger, paid, deletions>>

-----------------------------------------------------------------------------
(* UpdatePet.  BeginUpdate is the FindByID with the checks made on what it *)
(* returned; want = Nil is an edit that does not send a status.  A request *)
(* whose If-version does not match is refused here and leaves no trace.    *)

BeginUpdate(r, u, p, want, helpers) ==
  /\ req[r].pc = "idle"
  /\ pets[p] # Nil
  /\ canManagePet(pets[p], u)
  /\ want # Nil => /\ ValidateTransition(pets[p].status, want)
                   /\ pets[p].version < MaxVersion
  /\ Become(r, [Idle EXCEPT !.pc = "commit", !.op = "update", !.actor = u, !.pet = p,
                            !.old = pets[p].status, !.seen = pets[p], !.want = want, !.helpers = helpers])
  /\ UNCHANGED <<pets, eps, reports, credits, ledger, paid, deletions>>

\* Mutant: an edit that sends no status bumps the version too.
EditedAlwaysBumps(q) ==
  [q.seen EXCEPT !.status = IF q.want = Nil THEN @ ELSE q.want, !.version = @ + 1]

\* The struct UpdatePet hands to Save: the row as it was READ, edited.
Edited(q) ==
  IF q.want = Nil THEN q.seen
  ELSE [q.seen EXCEPT !.status = q.want, !.version = @ + 1]

\* Mutant: the clock is not omitted from the columns Save writes.
SaveEveryColumn(p, row) == row

\* Save writes every column but last_reported_at; a missing row is inserted.
Save(p, row) == [row EXCEPT !.clock = IF pets[p] = Nil THEN 0 ELSE pets[p].clock]

\* Mutant: no foreign key on pets.current_episode_id.
EpisodeNotChecked(p, k) == TRUE

\* fk_pets_current_episode.
EpisodeExists(p, k) == k = 0 \/ k \in Live(eps[p])

CommitUpdate(r) ==
  LET q       == req[r]
      p       == q.pet
      row     == Save(p, Edited(q))
      old     == q.old
      changed == row.status # old
      ep      == IF changed THEN HandleTransition(eps[p], row.cur, old, row.status)
                 ELSE [eps |-> eps[p], cur |-> row.cur]
      toFound == changed /\ row.status = "found"
  IN
  /\ q.pc = "commit" /\ q.op = "update"
  /\ EpisodeExists(p, row.cur)
  /\ changed /\ Opens(old, row.status) => HasFresh(eps[p])
  /\ toFound => HelpersAccepted(p, ep.eps, q.helpers)
  /\ pets' = [pets EXCEPT ![p] = [row EXCEPT !.cur = ep.cur]]
  /\ eps' = [eps EXCEPT ![p] = ep.eps]
  /\ credits' = IF toFound THEN credits \cup ({p} \X Chosen(q.helpers)) ELSE credits
  /\ Become(r, IF changed /\ row.status \in {"lost", "found"}
               THEN [Done(q) EXCEPT !.credited = IF toFound THEN InsertCredits(p, q.helpers) ELSE {}]
               ELSE Idle)
  /\ UNCHANGED <<reports, ledger, paid, deletions>>

-----------------------------------------------------------------------------
(* MarkAsFound.  A pet that is already found returns early.                *)

\* Mutant: no early return for a pet that is already found.
BeginFoundAgain(r, u, p, helpers) ==
  /\ req[r].pc = "idle"
  /\ pets[p] # Nil
  /\ canManagePet(pets[p], u)
  /\ ValidateTransition(pets[p].status, "found")
  /\ Become(r, [Idle EXCEPT !.pc = "commit", !.op = "found", !.actor = u, !.pet = p,
                            !.old = pets[p].status, !.want = "found", !.helpers = helpers])
  /\ UNCHANGED <<pets, eps, reports, credits, ledger, paid, deletions>>

BeginFound(r, u, p, helpers) ==
  /\ req[r].pc = "idle"
  /\ pets[p] # Nil
  /\ canManagePet(pets[p], u)
  /\ pets[p].status # "found"
  /\ ValidateTransition(pets[p].status, "found")
  /\ Become(r, [Idle EXCEPT !.pc = "commit", !.op = "found", !.actor = u, !.pet = p,
                            !.old = pets[p].status, !.want = "found", !.helpers = helpers])
  /\ UNCHANGED <<pets, eps, reports, credits, ledger, paid, deletions>>

\* UpdateStatus of a row that is gone updates nothing and is not an error.
UpdateStatus(p, status) == IF pets[p] = Nil THEN Nil ELSE [pets[p] EXCEPT !.status = status]

\* current_episode_id as CloseCurrent's subquery reads it.
CurrentEpisode(p) == IF pets[p] = Nil THEN 0 ELSE pets[p].cur

CommitFound(r) ==
  LET q  == req[r]
      p  == q.pet
      ep == HandleTransition(eps[p], CurrentEpisode(p), q.old, "found")
  IN
  /\ q.pc = "commit" /\ q.op = "found"
  /\ HelpersAccepted(p, ep.eps, q.helpers)
  /\ pets' = [pets EXCEPT ![p] = UpdateStatus(p, "found")]
  /\ eps' = [eps EXCEPT ![p] = ep.eps]
  /\ credits' = credits \cup ({p} \X Chosen(q.helpers))
  /\ Become(r, [Done(q) EXCEPT !.pc = "closure", !.actor = q.actor,
                               !.credited = InsertCredits(p, q.helpers)])
  /\ UNCHANGED <<reports, ledger, paid, deletions>>

\* The closure report, in a transaction of its own: its FK needs the pet.
CreateClosure(r, i, at) ==
  LET q == req[r] IN
  /\ q.pc = "closure"
  /\ pets[q.pet] # Nil
  /\ reports[i] = Nil
  /\ reports' = [reports EXCEPT ![i] =
       [pet |-> q.pet, reporter |-> q.actor, kind |-> "found",
        ep |-> FindCurrent(eps[q.pet]), at |-> at]]
  /\ Become(r, [q EXCEPT !.pc = "touch", !.at = at])
  /\ UNCHANGED <<pets, eps, credits, ledger, paid, deletions>>

TouchClosure(r) ==
  LET q == req[r]
      p == q.pet
  IN
  /\ q.pc = "touch"
  /\ pets' = [pets EXCEPT ![p] =
       IF pets[p] = Nil THEN Nil ELSE TouchLastReported(pets[p], q.at)]
  /\ Become(r, [q EXCEPT !.pc = "publish", !.actor = Nil, !.at = 0])
  /\ UNCHANGED <<eps, reports, credits, ledger, paid, deletions>>

-----------------------------------------------------------------------------
(* PublishLost.  Only an owner; a pet that is already lost passes the      *)
(* transition check, and the transaction opens an episode all the same.    *)

BeginPublish(r, u, p, at) ==
  /\ req[r].pc = "idle"
  /\ pets[p] # Nil
  /\ pets[p].owner = u
  /\ ValidateTransition(pets[p].status, "lost")
  /\ Become(r, [Idle EXCEPT !.pc = "commit", !.op = "publish", !.actor = u, !.pet = p,
                            !.want = "lost", !.at = at])
  /\ UNCHANGED <<pets, eps, reports, credits, ledger, paid, deletions>>

CommitPublish(r, i) ==
  LET q      == req[r]
      p      == q.pet
      opened == Open(eps[p], CurrentEpisode(p))
  IN
  /\ q.pc = "commit" /\ q.op = "publish"
  /\ pets[p] # Nil
  /\ HasFresh(eps[p])
  /\ reports[i] = Nil
  /\ pets' = [pets EXCEPT ![p] =
       TouchLastReported([pets[p] EXCEPT !.status = "lost", !.cur = opened.cur], q.at)]
  /\ eps' = [eps EXCEPT ![p] = opened.eps]
  /\ reports' = [reports EXCEPT ![i] =
       [pet |-> p, reporter |-> q.actor, kind |-> "lost", ep |-> opened.cur, at |-> q.at]]
  /\ Become(r, Done(q))
  /\ UNCHANGED <<credits, ledger, paid, deletions>>

-----------------------------------------------------------------------------
(* CreateReport.  A report that would move the status needs the manager;   *)
(* a sighting is open to everyone and reads nothing before its transaction. *)
(* The transaction reads the pet WITHOUT locking it (TxRead) and decides   *)
(* the transition on what it read.                                         *)

BeginReport(r, u, p, kind, at, helpers) ==
  /\ req[r].pc = "idle"
  /\ kind \in {"lost", "found"} => pets[p] # Nil /\ canManagePet(pets[p], u)
  /\ Become(r, [Idle EXCEPT !.pc = "txread", !.op = "report", !.actor = u, !.pet = p,
                            !.want = kind, !.at = at, !.helpers = helpers])
  /\ UNCHANGED <<pets, eps, reports, credits, ledger, paid, deletions>>

TxRead(r) ==
  LET q == req[r] IN
  /\ q.pc = "txread"
  /\ pets[q.pet] # Nil
  /\ Become(r, [q EXCEPT !.pc = "commit", !.old = pets[q.pet].status])
  /\ UNCHANGED <<pets, eps, reports, credits, ledger, paid, deletions>>

\* Mutant: a report of the status the pet already has counts as a move.
TransitionsToSame(q) == q.want \in {"lost", "found"} /\ ValidateTransition(q.old, q.want)

\* A forced transition the machine refuses still files the report.
ShouldTransition(q) ==
  /\ q.want \in {"lost", "found"}
  /\ q.want # q.old
  /\ ValidateTransition(q.old, q.want)

CommitReport(r, i) ==
  LET q     == req[r]
      p     == q.pet
      moves == ShouldTransition(q)
      ep    == IF moves THEN HandleTransition(eps[p], pets[p].cur, q.old, q.want)
               ELSE [eps |-> eps[p], cur |-> pets[p].cur]
      toFound == moves /\ q.want = "found"
  IN
  /\ q.pc = "commit" /\ q.op = "report"
  /\ pets[p] # Nil
  /\ reports[i] = Nil
  /\ moves /\ Opens(q.old, q.want) => HasFresh(eps[p])
  /\ toFound => HelpersAccepted(p, ep.eps, q.helpers)
  /\ pets' = [pets EXCEPT ![p] =
       TouchLastReported([pets[p] EXCEPT !.status = IF moves THEN q.want ELSE @,
                                         !.cur = ep.cur], q.at)]
  /\ eps' = [eps EXCEPT ![p] = ep.eps]
  /\ reports' = [reports EXCEPT ![i] =
       [pet |-> p, reporter |-> q.actor, kind |-> q.want,
        ep |-> FindCurrent(ep.eps), at |-> q.at]]
  /\ credits' = IF toFound THEN credits \cup ({p} \X Chosen(q.helpers)) ELSE credits
  /\ Become(r, IF moves
               THEN [Done(q) EXCEPT !.pc = "load", !.rid = i,
                                    !.credited = IF toFound THEN InsertCredits(p, q.helpers) ELSE {}]
               ELSE Idle)
  /\ UNCHANGED <<ledger, paid, deletions>>

\* The report is read back before anything is recorded or announced; when it is
\* gone by then (moderated, or cascaded with its pet) the request ends: Abort.
LoadReport(r) ==
  LET q == req[r] IN
  /\ q.pc = "load"
  /\ reports[q.rid] # Nil
  /\ Become(r, [q EXCEPT !.pc = "ledger", !.rid = Nil])
  /\ UNCHANGED <<pets, eps, reports, credits, ledger, paid, deletions>>

-----------------------------------------------------------------------------
(* After the commit.  Publish hands pet.helpers_credited to the event bus; *)
(* RecordStat appends to platform_events.  CreatePet and CreateReport      *)
(* record first and publish second, the other two the other way round.     *)

RecordsFirst(op) == op \in {"create", "report"}

Publish(r) ==
  LET q == req[r] IN
  /\ q.pc = "publish"
  /\ paid' = [paid EXCEPT ![q.pet] =
       [u \in Users |-> IF u \in q.credited THEN @[u] + 1 ELSE @[u]]]
  /\ Become(r, IF RecordsFirst(q.op) THEN Idle ELSE [q EXCEPT !.pc = "ledger", !.credited = {}])
  /\ UNCHANGED <<pets, eps, reports, credits, ledger, deletions>>

RecordStat(r) ==
  LET q == req[r] IN
  /\ q.pc = "ledger"
  /\ ledger' = IF q.want = "found" THEN [ledger EXCEPT ![q.pet].found = @ + 1]
                                   ELSE [ledger EXCEPT ![q.pet].started = @ + 1]
  /\ Become(r, IF RecordsFirst(q.op) THEN [q EXCEPT !.pc = "publish"] ELSE Idle)
  /\ UNCHANGED <<pets, eps, reports, credits, paid, deletions>>

-----------------------------------------------------------------------------
(* DeletePet.  One transaction; search_episodes and pet_helper_credits     *)
(* cascade, platform_events has no foreign key and stays.                  *)

BeginDelete(r, u, p) ==
  /\ req[r].pc = "idle"
  /\ pets[p] # Nil
  /\ canManagePet(pets[p], u)
  /\ deletions[p] < MaxDeletions
  /\ Become(r, [Idle EXCEPT !.pc = "commit", !.op = "delete", !.actor = u, !.pet = p])
  /\ UNCHANGED <<pets, eps, reports, credits, ledger, paid, deletions>>

CommitDelete(r) ==
  LET p == req[r].pet IN
  /\ req[r].pc = "commit" /\ req[r].op = "delete"
  /\ pets[p] # Nil
  /\ pets' = [pets EXCEPT ![p] = Nil]
  /\ eps' = [eps EXCEPT ![p] = [k \in EpIds |-> IF @[k] = "none" THEN "none" ELSE "gone"]]
  /\ reports' = [i \in ReportIds |-> IF i \in ReportsOf(p) THEN Nil ELSE reports[i]]
  /\ credits' = {c \in credits : c[1] # p}
  /\ deletions' = [deletions EXCEPT ![p] = @ + 1]
  /\ Become(r, Idle)
  /\ UNCHANGED <<ledger, paid>>

-----------------------------------------------------------------------------
(* Delete of a report by an admin: read the pet id, delete, recompute the  *)
(* clock.  The UPDATE that recomputes evaluates its subquery on the        *)
(* statement's snapshot and then waits for the pet's row.                  *)

BeginModerate(r, i) ==
  /\ req[r].pc = "idle"
  /\ reports[i] # Nil
  /\ Become(r, [Idle EXCEPT !.pc = "commit", !.op = "moderate", !.rid = i,
                            !.pet = reports[i].pet])
  /\ UNCHANGED <<pets, eps, reports, credits, ledger, paid, deletions>>

CommitModerate(r) ==
  LET q == req[r] IN
  /\ q.pc = "commit" /\ q.op = "moderate"
  /\ reports[q.rid] # Nil
  /\ reports' = [reports EXCEPT ![q.rid] = Nil]
  /\ Become(r, [q EXCEPT !.pc = "snapshot"])
  /\ UNCHANGED <<pets, eps, credits, ledger, paid, deletions>>

RecomputeSnapshot(r) ==
  LET q == req[r] IN
  /\ q.pc = "snapshot"
  /\ Become(r, [q EXCEPT !.pc = "recompute", !.at = NewestSighting(q.pet)])
  /\ UNCHANGED <<pets, eps, reports, credits, ledger, paid, deletions>>

RecomputeLastReported(r) ==
  LET q == req[r] IN
  /\ q.pc = "recompute"
  /\ pets' = [pets EXCEPT ![q.pet] =
       IF pets[q.pet] = Nil THEN Nil ELSE [pets[q.pet] EXCEPT !.clock = q.at]]
  /\ Become(r, Idle)
  /\ UNCHANGED <<eps, reports, credits, ledger, paid, deletions>>

-----------------------------------------------------------------------------
(* Failures.  A statement fails: the transaction rolls back and the        *)
(* request ends.  The server stops: every request in flight ends, the      *)
(* database keeps what was committed.                                      *)

\* Also how a request ends whose commit the database or a guard refuses.
Abort(r) ==
  /\ \/ req[r].pc \in {"txread", "commit"}
     \/ req[r].pc = "load" /\ (Failures \/ reports[req[r].rid] = Nil)
  /\ Become(r, Idle)
  /\ UNCHANGED <<pets, eps, reports, credits, ledger, paid, deletions>>

\* The closure report, its clock, the ledger row and the recomputed clock are
\* best effort: the failure is logged and the request goes on.  The insert of a
\* closure report fails on its own when the pet is gone (or at the bound).
NoReportIdLeft == \A i \in ReportIds : reports[i] # Nil

BestEffortFails(r) ==
  LET q == req[r] IN
  /\ \/ /\ q.pc \in {"closure", "touch"}
        /\ \/ Failures
           \/ q.pc = "closure" /\ (pets[q.pet] = Nil \/ NoReportIdLeft)
        /\ Become(r, [q EXCEPT !.pc = "publish", !.actor = Nil, !.at = 0])
     \/ /\ q.pc = "ledger"
        /\ Failures
        /\ Become(r, IF RecordsFirst(q.op) THEN [q EXCEPT !.pc = "publish"] ELSE Idle)
     \/ /\ q.pc \in {"snapshot", "recompute"}
        /\ Failures
        /\ Become(r, Idle)
  /\ UNCHANGED <<pets, eps, reports, credits, ledger, paid, deletions>>

Crash ==
  /\ Failures
  /\ \E r \in Requests : req[r].pc # "idle"
  /\ req' = [r \in Requests |-> Idle]
  /\ UNCHANGED <<pets, eps, reports, credits, ledger, paid, deletions>>

\* helper_ids is looked at only when the pet may become found.
HelperAnswers(want) == IF want = "found" THEN (SUBSET Users) \cup {Nil} ELSE {Nil}

Arrive(r) ==
  \E u \in Users, p \in Pets :
    /\ ledger[p].found < MaxReunions
    /\ \/ \E status \in {"registered", "adoption"} : CreatePet(r, u, p, status)
       \/ \E i \in ReportIds, at \in Times : CreateStray(r, u, p, i, at)
       \/ \E want \in ValidPetStatuses \cup {Nil} :
            \E h \in HelperAnswers(want) : BeginUpdate(r, u, p, want, h)
       \/ \E h \in HelperAnswers("found") : BeginFound(r, u, p, h)
       \/ \E at \in Times : BeginPublish(r, u, p, at)
       \/ \E kind \in ReportKinds, at \in Times : \E h \in HelperAnswers(kind) :
            BeginReport(r, u, p, kind, at, h)
       \/ BeginDelete(r, u, p)

Proceed(r) ==
  \/ CommitUpdate(r)
  \/ CommitFound(r)
  \/ \E i \in ReportIds : CommitPublish(r, i)
  \/ TxRead(r)
  \/ \E i \in ReportIds : CommitReport(r, i)
  \/ LoadReport(r)
  \/ CommitDelete(r)
  \/ CommitModerate(r)
  \/ \E i \in ReportIds, at \in Times : CreateClosure(r, i, at)
  \/ TouchClosure(r)
  \/ Publish(r)
  \/ RecordStat(r)
  \/ RecomputeSnapshot(r)
  \/ RecomputeLastReported(r)

Next ==
  \/ \E r \in Requests : Arrive(r)
  \/ \E r \in Requests, i \in ReportIds : BeginModerate(r, i)
  \/ \E r \in Requests : Proceed(r)
  \/ \E r \in Requests : Abort(r) \/ BestEffortFails(r)
  \/ Crash

Spec == Init /\ [][Next]_vars

-----------------------------------------------------------------------------
(* Properties.                                                             *)

\* The fields a request carries when a step needs them.
Formed(q) ==
  /\ q.pc # "idle" => q.pet \in Pets
  /\ q.pc = "txread" => q.op = "report"
  /\ q.pc \in {"txread", "closure"} => q.actor \in Users
  /\ q.pc \in {"txread", "touch"} => q.at \in Times
  /\ q.pc = "commit" /\ q.op \in {"found", "publish", "report"} => q.actor \in Users
  /\ q.pc = "commit" /\ q.op \in {"publish", "report"} => q.at \in Times
  /\ q.pc \in {"txread", "commit"} /\ q.op = "report" => q.want \in ReportKinds
  /\ q.pc = "commit" /\ q.op = "update" =>
       /\ q.seen \in PetRow
       /\ q.old = q.seen.status
       /\ q.want # Nil => q.want \in ValidPetStatuses /\ q.seen.version < MaxVersion
  /\ q.pc = "commit" /\ q.op = "moderate" => q.rid \in ReportIds
  /\ q.pc = "load" => q.rid \in ReportIds

\* The types the migrations give the tables and the handlers give a request.
TypeOK ==
  /\ pets      \in [Pets -> PetRow \cup {Nil}]
  /\ eps       \in [Pets -> [EpIds -> EpState]]
  /\ reports   \in [ReportIds -> ReportRow \cup {Nil}]
  /\ credits   \in SUBSET (Pets \X Users)
  /\ ledger    \in [Pets -> [found : Nat, started : Nat]]
  /\ paid      \in [Pets -> [Users -> Nat]]
  /\ deletions \in [Pets -> Nat]
  /\ req       \in [Requests -> Request]
  /\ \A r \in Requests : Formed(req[r])

Pending(p, u) == {r \in Requests : req[r].pet = p /\ u \in req[r].credited}

\* A helper is announced to gamification at most once per pet, whatever the
\* requests that close the search do at the same time: the unique index of
\* pet_helper_credits decides, not what a request read.  Deleting the pet takes
\* its credits with it, so a stale save that revives it starts over.
PaidOnce ==
  \A p \in Pets, u \in Users :
    paid[p][u] + Cardinality(Pending(p, u))
      <= deletions[p] + (IF <<p, u>> \in credits THEN 1 ELSE 0)

\* The owner of a pet and the reporter of a stray never get credit for it,
\* although their own reports carry its episode.
NoManagerCredited ==
  \A c \in credits : pets[c[1]] # Nil /\ c[2] \notin {pets[c[1]].owner, pets[c[1]].reporter}

\* A pet points at an episode of its own that exists and a report at one that
\* exists, of a pet that exists, also when a pet is deleted under a request.
ReferencesLive ==
  /\ \A p \in Pets : pets[p] # Nil => pets[p].cur = 0 \/ pets[p].cur \in Live(eps[p])
  /\ \A i \in ReportIds : reports[i] # Nil =>
       /\ pets[reports[i].pet] # Nil
       /\ reports[i].ep = 0 \/ reports[i].ep \in Live(eps[reports[i].pet])

\* Searches counted by the ledger were opened: a request records at most one
\* search_started for the one episode its transaction opened.
Opened(p) == {k \in EpIds : eps[p][k] # "none"}

StartedWithinOpened ==
  \A p \in Pets : ledger[p].started <= Cardinality(Opened(p))

\* The clock of a pet goes back only in the recomputation that follows the
\* deletion of a report: no stale save, late closure report or old sighting
\* that is processed last can move it.
ClockFallsOnlyOnRecompute ==
  [][\A p \in Pets :
       pets[p] # Nil /\ pets'[p] # Nil /\ pets'[p].clock < pets[p].clock =>
         \E r \in Requests : req[r].pc = "recompute" /\ req'[r].pc = "idle" /\ req[r].pet = p]_vars

\* The episode pets.current_episode_id names is the one FindCurrent finds, so
\* the map, the helper candidates and the reports agree on the current search.
CurrentIsNewest ==
  \A p \in Pets : pets[p] # Nil => pets[p].cur = FindCurrent(eps[p])

\* platform_events counts a reunion only for a search that ended as found.
FoundWithinReunions ==
  \A p \in Pets :
    ledger[p].found <= Cardinality({k \in EpIds : eps[p][k] \in {"found", "gone"}})

\* Between requests last_reported_at is the newest sighting of the pet.
ClockIsNewestSighting ==
  (\A r \in Requests : req[r].pc \in {"idle", "load", "publish", "ledger"}) =>
    \A p \in Pets : pets[p] # Nil => pets[p].clock = NewestSighting(p)

\* The status machine and the search of a pet move together.
Contract == INSTANCE PetContract WITH
  status    <- [p \in Pets |-> IF pets[p] = Nil THEN Nil ELSE pets[p].status],
  searching <- [p \in Pets |-> /\ pets[p] # Nil
                               /\ pets[p].cur # 0
                               /\ eps[p][pets[p].cur] = "open"]

ImplementsContract == Contract!Spec

-----------------------------------------------------------------------------
(* What comments of the code say and the code does not keep.               *)

\* domain/status_machine.go:4: any transition that is not listed is rejected.
OnlyListedTransitions ==
  [][\A p \in Pets : pets[p] # Nil /\ pets'[p] # Nil =>
       ValidateTransition(pets[p].status, pets'[p].status)]_vars

\* domain/models.go:196: an episode is one continuous search that closes when
\* the pet leaves lost or stray, so a pet has at most one open episode.
AtMostOneOpenEpisode ==
  \A p \in Pets : Cardinality({k \in EpIds : eps[p][k] = "open"}) <= 1
=============================================================================
