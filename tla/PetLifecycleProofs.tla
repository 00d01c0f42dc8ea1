------------------------ MODULE PetLifecycleProofs ------------------------
(***************************************************************************)
(* Theorems about PetLifecycle, for every value of its constants and any   *)
(* number of requests at a time: the type invariant; that a helper is      *)
(* never announced twice for a pet; which rows refer to which; who is      *)
(* credited; what the ledger counts; when the clock may fall.              *)
(***************************************************************************)
EXTENDS PetLifecycle, FiniteSetTheorems, WellFoundedInduction, TLAPS

-----------------------------------------------------------------------------
(* The newest element of a set: FindCurrent and NewestSighting choose one. *)

\* A nonempty finite set of numbers has a greatest element.  The sets of the
\* elements above each of its elements are finite, so one of them is minimal
\* for strict inclusion, and that one is empty.
LEMMA GreatestExists ==
  ASSUME NEW S \in SUBSET Nat, IsFiniteSet(S), S # {}
  PROVE  \E m \in S : \A x \in S : x <= m
<1> DEFINE above(t) == {s \in S : s > t}
           Above    == {above(t) : t \in S}
<1>1. Above \subseteq FiniteSubsetsOf(S)
  BY FS_Subset DEF FiniteSubsetsOf
<1>2. Above # {}
  OBVIOUS
<1>3. PICK U \in Above : \A V \in Above : ~(<<V, U>> \in StrictSubsetOrdering(S))
  <2>1. IsWellFoundedOn(StrictSubsetOrdering(S), FiniteSubsetsOf(S))
    BY FS_StrictSubsetOrderingWellFounded
  <2> HIDE DEF Above
  <2> QED  BY <1>1, <1>2, <2>1, WFMin
<1>4. PICK m \in S : U = above(m)
  BY <1>3
<1>5. \A x \in S : x <= m
  <2> SUFFICES ASSUME NEW x \in S, x > m PROVE FALSE
    OBVIOUS
  <2>1. above(x) \subseteq above(m) /\ x \in above(m) /\ x \notin above(x)
    <3>1. x \in Nat /\ m \in Nat
      OBVIOUS
    <3>2. \A s \in S : s > x => s > m
      BY <3>1
    <3>3. above(x) \subseteq above(m)
      BY <3>2
    <3>4. x \in above(m)
      OBVIOUS
    <3>5. x \notin above(x)
      BY <3>1
    <3> QED  BY <3>3, <3>4, <3>5
  <2>2. <<above(x), above(m)>> \in StrictSubsetOrdering(S)
    BY <2>1 DEF StrictSubsetOrdering
  <2> QED  BY <1>3, <1>4, <2>2
<1> QED  BY <1>5

\* FindCurrent returns the last episode that exists, or 0 when none does.
LEMMA FindCurrentType ==
  ASSUME NEW e
  PROVE  FindCurrent(e) \in Live(e) \cup {0}
<1>1. CASE Live(e) = {}
  BY <1>1 DEF FindCurrent
<1>2. CASE Live(e) # {}
  <2>1. Live(e) \in SUBSET Nat /\ IsFiniteSet(Live(e))
    <3>1. IsFiniteSet(EpIds)
      BY FS_Interval, BoundsAssumption DEF EpIds
    <3>2. Live(e) \in SUBSET EpIds
      BY DEF Live
    <3>3. IsFiniteSet(Live(e))
      BY <3>1, <3>2, FS_Subset
    <3>4. EpIds \subseteq Nat
      BY BoundsAssumption DEF EpIds
    <3> QED  BY <3>2, <3>3, <3>4
  <2>2. \E k \in Live(e) : \A j \in Live(e) : j <= k
    BY <1>2, <2>1, GreatestExists
  <2> QED  BY <1>2, <2>2 DEF FindCurrent
<1> QED  BY <1>1, <1>2

\* The newest sighting is one of the instants a sighting can have, or 0.
LEMMA NewestSightingType ==
  ASSUME TypeOK, NEW p \in Pets
  PROVE  NewestSighting(p) \in Times \cup {0}
<1>1. CASE ReportsOf(p) = {}
  BY <1>1 DEF NewestSighting
<1>2. CASE ReportsOf(p) # {}
  <2> DEFINE seen == {t \in Times : \E i \in ReportsOf(p) : reports[i].at = t}
  <2>1. \A i \in ReportsOf(p) : reports[i].at \in seen
    BY DEF TypeOK, ReportsOf, ReportRow
  <2>2. seen \in SUBSET Nat /\ IsFiniteSet(seen) /\ seen # {}
    BY <1>2, <2>1, FS_Subset, TimesAssumption
  <2>3. \E t \in seen : \A s \in seen : s <= t
    BY <2>2, GreatestExists
  <2>4. \E t \in Times : /\ \E i \in ReportsOf(p) : reports[i].at = t
                         /\ \A i \in ReportsOf(p) : reports[i].at <= t
    BY <2>1, <2>3
  <2> QED  BY <1>2, <2>4 DEF NewestSighting
<1> QED  BY <1>1, <1>2

-----------------------------------------------------------------------------
(* Types.                                                                  *)

EpRow == [EpIds -> EpState]

\* The episode Open is about to insert exists and was not opened before.
LEMMA FreshType ==
  ASSUME NEW e, HasFresh(e)
  PROVE  Fresh(e) \in EpIds /\ IsFresh(e, Fresh(e))
BY DEF HasFresh, Fresh

\* Opening returns episodes and a current_episode_id of the right types.
LEMMA OpenType ==
  ASSUME NEW e \in EpRow, HasFresh(e), NEW cur
  PROVE  Open(e, cur).eps \in EpRow /\ Open(e, cur).cur \in EpIds
<1>1. Fresh(e) \in EpIds
  BY FreshType
<1> QED  BY <1>1 DEF Open, EpRow, EpState

\* A transition, whichever of the three cases it is, keeps episodes typed.
LEMMA HandleTransitionType ==
  ASSUME NEW e \in EpRow, NEW cur \in EpIds \cup {0},
         NEW old, NEW new \in ValidPetStatuses, Opens(old, new) => HasFresh(e)
  PROVE  /\ HandleTransition(e, cur, old, new).eps \in EpRow
         /\ HandleTransition(e, cur, old, new).cur \in EpIds \cup {0}
<1>1. CASE Opens(old, new)
  <2>1. HandleTransition(e, cur, old, new) = Open(e, cur)
    <3>1. ~Closes(old, new)
      BY <1>1 DEF Opens, Closes
    <3> QED  BY <1>1, <3>1 DEF HandleTransition
  <2>2. HasFresh(e)
    BY <1>1
  <2> QED  BY <2>1, <2>2, OpenType
<1>2. CASE Closes(old, new)
  <2>1. ~Opens(old, new)
    BY <1>2 DEF Opens, Closes
  <2>2. HandleTransition(e, cur, old, new) = CloseCurrent(e, cur, new)
    BY <1>2, <2>1 DEF HandleTransition
  <2> QED  BY <2>2 DEF CloseCurrent, EpRow, EpState
<1>3. CASE ~Opens(old, new) /\ ~Closes(old, new)
  BY <1>3 DEF HandleTransition
<1> QED  BY <1>1, <1>2, <1>3

\* A request that is not in flight is a well formed one.
LEMMA IdleType == Idle \in Request /\ Formed(Idle)
BY DEF Idle, Request, PCs, Ops, Formed

\* What a request carries after its commit is well formed.
LEMMA DoneType ==
  ASSUME NEW q \in Request, q.pet \in Pets
  PROVE  Done(q) \in Request /\ Formed(Done(q))
<1>1. Done(q) \in Request
  BY DEF Done, Idle, Request, PCs, Ops
<1>2. Done(q).pc = "publish" /\ Done(q).pet = q.pet
  BY DEF Done, Idle
<1> QED  BY <1>1, <1>2 DEF Formed

\* The row CreatePet inserts is a row of pets.
LEMMA NewPetType ==
  ASSUME NEW u \in Users, NEW st \in InitialStatuses
  PROVE  NewPet(u, st) \in PetRow
BY BoundsAssumption DEF NewPet, PetRow, ValidPetStatuses, InitialStatuses

\* The row UpdatePet saves, the one it read with its edits, is a row of pets.
LEMMA SavedType ==
  ASSUME TypeOK, NEW q \in Request, Formed(q), q.pc = "commit", q.op = "update"
  PROVE  Save(q.pet, Edited(q)) \in PetRow
<1>1. q.pet \in Pets /\ q.seen \in PetRow
  BY DEF Formed
<1>2. Edited(q) \in PetRow
  <2>1. CASE q.want = Nil
    BY <1>1, <2>1 DEF Edited
  <2>2. CASE q.want # Nil
    <3>1. q.want \in ValidPetStatuses /\ q.seen.version < MaxVersion
      BY <2>2 DEF Formed
    <3>2. q.seen.version + 1 \in 1 .. MaxVersion
      BY <1>1, <3>1, BoundsAssumption DEF PetRow
    <3> QED  BY <1>1, <2>2, <3>1, <3>2 DEF Edited, PetRow
  <2> QED  BY <2>1, <2>2
<1> QED  BY <1>1, <1>2 DEF Save, TypeOK, PetRow

\* A request that becomes a well formed one leaves all requests well formed.
LEMMA BecomeType ==
  ASSUME TypeOK, NEW r \in Requests, NEW q \in Request, Formed(q), Become(r, q)
  PROVE  req' \in [Requests -> Request] /\ \A s \in Requests : Formed(req[s])'
<1>1. \A s \in Requests : req'[s] = IF s = r THEN q ELSE req[s]
  BY DEF Become, TypeOK
<1>2. \A s \in Requests : Formed(req'[s])
  BY <1>1 DEF TypeOK
<1> QED  BY <1>2 DEF Become, TypeOK, Formed

\* Every step keeps TypeOK, one action at a time.
LEMMA TypeStep ==
  ASSUME TypeOK, [Next]_vars
  PROVE  TypeOK'
<1>1. ASSUME NEW r \in Requests, NEW u \in Users, NEW p \in Pets,
             NEW st \in {"registered", "adoption"}, CreatePet(r, u, p, st)
      PROVE  TypeOK'
  <2>1. NewPet(u, st) \in PetRow
    BY NewPetType DEF InitialStatuses
  <2> QED  BY <1>1, <2>1 DEF CreatePet, TypeOK
<1>2. ASSUME NEW r \in Requests, NEW u \in Users, NEW p \in Pets, NEW i \in ReportIds,
             NEW at \in Times, CreateStray(r, u, p, i, at)
      PROVE  TypeOK'
  <2> DEFINE opened == Open(eps[p], 0)
             row    == [NewPet(u, "stray") EXCEPT !.cur = opened.cur, !.clock = at]
             rep    == [pet |-> p, reporter |-> u, kind |-> "sighting",
                        ep |-> opened.cur, at |-> at]
             q      == [Idle EXCEPT !.pc = "ledger", !.op = "create", !.pet = p, !.want = "stray"]
  <2>1. opened.eps \in EpRow /\ opened.cur \in EpIds
    BY <1>2, OpenType DEF CreateStray, TypeOK, EpRow
  <2> HIDE DEF opened
  <2>2. row \in PetRow
    <3>1. NewPet(u, "stray") \in PetRow
      BY NewPetType DEF InitialStatuses
    <3> QED  BY <2>1, <3>1 DEF PetRow
  <2>3. rep \in ReportRow
    BY <2>1 DEF ReportRow, ReportKinds
  <2>4. q \in Request /\ Formed(q)
    BY DEF Idle, Request, PCs, Ops, ValidPetStatuses, Formed
  <2>5. /\ pets' = [pets EXCEPT ![p] = row]
        /\ eps' = [eps EXCEPT ![p] = opened.eps]
        /\ reports' = [reports EXCEPT ![i] = rep]
        /\ Become(r, q)
        /\ UNCHANGED <<credits, ledger, paid, deletions>>
    BY <1>2 DEF CreateStray, opened
  <2> HIDE DEF row, rep, q
  <2>6. req' \in [Requests -> Request] /\ \A s \in Requests : Formed(req[s])'
    BY <2>4, <2>5, BecomeType
  <2> QED  BY <2>1, <2>2, <2>3, <2>5, <2>6 DEF TypeOK, EpRow
<1>3. ASSUME NEW r \in Requests, NEW u \in Users, NEW p \in Pets,
             NEW want \in ValidPetStatuses \cup {Nil}, NEW h \in (SUBSET Users) \cup {Nil},
             BeginUpdate(r, u, p, want, h)
      PROVE  TypeOK'
  <2> DEFINE q == [Idle EXCEPT !.pc = "commit", !.op = "update", !.actor = u, !.pet = p,
                     !.old = pets[p].status, !.seen = pets[p], !.want = want, !.helpers = h]
  <2>1. pets[p] \in PetRow /\ pets[p].status \in ValidPetStatuses
    BY <1>3 DEF BeginUpdate, TypeOK, PetRow
  <2>2. q \in Request
    BY <2>1 DEF Request, PCs, Ops, Idle
  <2>3. Formed(q)
    <3>1. want # Nil => pets[p].version < MaxVersion
      BY <1>3 DEF BeginUpdate
    <3>2. /\ q.pc = "commit" /\ q.op = "update" /\ q.pet = p
          /\ q.seen = pets[p] /\ q.old = pets[p].status /\ q.want = want
      BY DEF Idle
    <3> HIDE DEF q
    <3> QED  BY <2>1, <3>1, <3>2 DEF Formed
  <2>4. req' \in [Requests -> Request] /\ \A s \in Requests : Formed(req[s])'
    BY <1>3, <2>2, <2>3, BecomeType DEF BeginUpdate
  <2> QED  BY <1>3, <2>4 DEF BeginUpdate, TypeOK
<1>4. ASSUME NEW r \in Requests, CommitUpdate(r)
      PROVE  TypeOK'
  <2> DEFINE q       == req[r]
             p       == q.pet
             row     == Save(p, Edited(q))
             changed == row.status # q.old
             ep      == IF changed THEN HandleTransition(eps[p], row.cur, q.old, row.status)
                        ELSE [eps |-> eps[p], cur |-> row.cur]
             toFound == changed /\ row.status = "found"
             done    == [Done(q) EXCEPT !.credited =
                           IF toFound THEN InsertCredits(p, q.helpers) ELSE {}]
             next    == IF changed /\ row.status \in {"lost", "found"} THEN done ELSE Idle
  <2>1. q \in Request /\ Formed(q) /\ q.pc = "commit" /\ q.op = "update"
    BY <1>4 DEF TypeOK, CommitUpdate
  <2>2. p \in Pets /\ q.seen \in PetRow
    BY <2>1 DEF Formed
  <2>4. row \in PetRow
    BY <2>1, SavedType
  <2>5. ep.eps \in EpRow /\ ep.cur \in EpIds \cup {0}
    <3>1. eps[p] \in EpRow /\ row.cur \in EpIds \cup {0} /\ row.status \in ValidPetStatuses
      BY <2>2, <2>4 DEF TypeOK, EpRow, PetRow
    <3>2. changed /\ Opens(q.old, row.status) => HasFresh(eps[p])
      BY <1>4 DEF CommitUpdate
    <3> HIDE DEF row
    <3> QED  BY <3>1, <3>2, HandleTransitionType
  <2>6. [row EXCEPT !.cur = ep.cur] \in PetRow
    <3> HIDE DEF ep, row
    <3> QED  BY <2>4, <2>5 DEF PetRow
  <2>7. Chosen(q.helpers) \in SUBSET Users /\ InsertCredits(p, q.helpers) \in SUBSET Users
    BY <2>1 DEF Chosen, InsertCredits, Request
  <2>8. next \in Request /\ Formed(next)
    <3>1. Done(q) \in Request /\ Formed(Done(q))
      BY <2>1, <2>2, DoneType
    <3>2. Done(q).pc = "publish"
      BY DEF Done, Idle
    <3>3. done \in Request
      <4> HIDE DEF toFound
      <4> QED  BY <2>7, <3>1 DEF Request
    <3>4. Formed(done)
      <4> HIDE DEF toFound
      <4> QED  BY <3>1, <3>2 DEF Formed, Request
    <3> HIDE DEF done, row
    <3> QED  BY <3>3, <3>4, IdleType
  <2>9. /\ pets' = [pets EXCEPT ![p] = [row EXCEPT !.cur = ep.cur]]
        /\ eps' = [eps EXCEPT ![p] = ep.eps]
        /\ credits' = IF toFound THEN credits \cup ({p} \X Chosen(q.helpers)) ELSE credits
        /\ Become(r, next)
        /\ UNCHANGED <<reports, ledger, paid, deletions>>
    BY <1>4 DEF CommitUpdate
  <2> HIDE DEF q, p, row, ep, toFound, done, next
  <2>10. req' \in [Requests -> Request] /\ \A s \in Requests : Formed(req[s])'
    BY <2>8, <2>9, BecomeType
  <2>11. credits' \in SUBSET (Pets \X Users)
    BY <2>2, <2>7, <2>9 DEF TypeOK
  <2> QED  BY <2>2, <2>5, <2>6, <2>9, <2>10, <2>11 DEF TypeOK, EpRow
<1>5. ASSUME NEW r \in Requests, NEW u \in Users, NEW p \in Pets,
             NEW h \in (SUBSET Users) \cup {Nil}, BeginFound(r, u, p, h)
      PROVE  TypeOK'
  <2> DEFINE q == [Idle EXCEPT !.pc = "commit", !.op = "found", !.actor = u, !.pet = p,
                     !.old = pets[p].status, !.want = "found", !.helpers = h]
  <2>1. pets[p].status \in ValidPetStatuses
    BY <1>5 DEF BeginFound, TypeOK, PetRow
  <2>2. q \in Request /\ q.pc = "commit" /\ q.op = "found" /\ q.pet = p /\ q.actor = u
    BY <2>1 DEF Request, PCs, Ops, Idle, ValidPetStatuses
  <2>3. Become(r, q) /\ UNCHANGED <<pets, eps, reports, credits, ledger, paid, deletions>>
    BY <1>5 DEF BeginFound
  <2> HIDE DEF q
  <2>4. Formed(q)
    BY <2>2 DEF Formed
  <2>5. req' \in [Requests -> Request] /\ \A s \in Requests : Formed(req[s])'
    BY <2>2, <2>3, <2>4, BecomeType
  <2> QED  BY <2>3, <2>5 DEF TypeOK
<1>6. ASSUME NEW r \in Requests, CommitFound(r)
      PROVE  TypeOK'
  <2> DEFINE q    == req[r]
             p    == q.pet
             ep   == HandleTransition(eps[p], CurrentEpisode(p), q.old, "found")
             next == [Done(q) EXCEPT !.pc = "closure", !.actor = q.actor,
                                     !.credited = InsertCredits(p, q.helpers)]
  <2>1. q \in Request /\ Formed(q) /\ q.pc = "commit" /\ p \in Pets
    BY <1>6 DEF TypeOK, CommitFound, Formed
  <2>2. ep.eps \in EpRow
    <3>1. eps[p] \in EpRow /\ CurrentEpisode(p) \in EpIds \cup {0}
      BY <2>1 DEF TypeOK, EpRow, PetRow, CurrentEpisode
    <3>2. "found" \in ValidPetStatuses /\ ~Opens(q.old, "found")
      BY DEF ValidPetStatuses, Opens, IsActiveSearchStatus
    <3> QED  BY <3>1, <3>2, HandleTransitionType
  <2>3. UpdateStatus(p, "found") \in PetRow \cup {Nil}
    <3>1. pets[p] \in PetRow \cup {Nil} /\ "found" \in ValidPetStatuses
      BY <2>1 DEF TypeOK, ValidPetStatuses
    <3>2. pets[p] \in PetRow => [pets[p] EXCEPT !.status = "found"] \in PetRow
      BY <3>1 DEF PetRow
    <3> QED  BY <3>1, <3>2 DEF UpdateStatus
  <2>4. Chosen(q.helpers) \in SUBSET Users /\ InsertCredits(p, q.helpers) \in SUBSET Users
    BY <2>1 DEF Chosen, InsertCredits, Request
  <2>5. next \in Request /\ next.pc = "closure" /\ next.pet = p /\ next.actor = q.actor
    <3>1. Done(q) \in Request /\ Done(q).pet = p /\ q.actor \in Users \cup {Nil}
      BY <2>1, DoneType DEF Done, Idle, Request
    <3>2. "closure" \in PCs
      BY DEF PCs
    <3> HIDE DEF q, p
    <3> QED  BY <2>4, <3>1, <3>2 DEF Request
  <2>6. q.op = "found"
    BY <1>6 DEF CommitFound
  <2>7. Formed(next)
    <3> HIDE DEF next
    <3> QED  BY <2>1, <2>5, <2>6 DEF Formed
  <2>8. /\ pets' = [pets EXCEPT ![p] = UpdateStatus(p, "found")]
        /\ eps' = [eps EXCEPT ![p] = ep.eps]
        /\ credits' = credits \cup ({p} \X Chosen(q.helpers))
        /\ Become(r, next)
        /\ UNCHANGED <<reports, ledger, paid, deletions>>
    BY <1>6 DEF CommitFound
  <2> HIDE DEF q, p, ep, next
  <2>9. req' \in [Requests -> Request] /\ \A s \in Requests : Formed(req[s])'
    BY <2>5, <2>7, <2>8, BecomeType
  <2> QED  BY <2>1, <2>2, <2>3, <2>4, <2>8, <2>9 DEF TypeOK, EpRow
<1>7. ASSUME NEW r \in Requests, NEW i \in ReportIds, NEW at \in Times, CreateClosure(r, i, at)
      PROVE  TypeOK'
  <2> DEFINE q    == req[r]
             rep  == [pet |-> q.pet, reporter |-> q.actor, kind |-> "found",
                      ep |-> FindCurrent(eps[q.pet]), at |-> at]
             next == [q EXCEPT !.pc = "touch", !.at = at]
  <2>1. q \in Request /\ Formed(q) /\ q.pc = "closure" /\ q.pet \in Pets /\ q.actor \in Users
    BY <1>7 DEF TypeOK, CreateClosure, Formed
  <2>2. FindCurrent(eps[q.pet]) \in EpIds \cup {0}
    BY FindCurrentType DEF Live
  <2>3. rep \in ReportRow
    BY <2>1, <2>2 DEF ReportRow, ReportKinds
  <2>4. next \in Request /\ next.pc = "touch" /\ next.pet = q.pet /\ next.at = at
    BY <2>1 DEF Request, PCs
  <2>5. /\ reports' = [reports EXCEPT ![i] = rep]
        /\ Become(r, next)
        /\ UNCHANGED <<pets, eps, credits, ledger, paid, deletions>>
    BY <1>7 DEF CreateClosure
  <2> HIDE DEF q, rep, next
  <2>6. Formed(next)
    BY <2>1, <2>4 DEF Formed
  <2>7. req' \in [Requests -> Request] /\ \A s \in Requests : Formed(req[s])'
    BY <2>4, <2>5, <2>6, BecomeType
  <2> QED  BY <2>3, <2>5, <2>7 DEF TypeOK
<1>8. ASSUME NEW r \in Requests, TouchClosure(r)
      PROVE  TypeOK'
  <2> DEFINE q    == req[r]
             p    == q.pet
             row  == IF pets[p] = Nil THEN Nil
                     ELSE TouchLastReported(pets[p], q.at)
             next == [q EXCEPT !.pc = "publish", !.actor = Nil, !.at = 0]
  <2>1. q \in Request /\ Formed(q) /\ q.pc = "touch" /\ p \in Pets /\ q.at \in Times
    BY <1>8 DEF TypeOK, TouchClosure, Formed
  <2>2. row \in PetRow \cup {Nil}
    BY <2>1 DEF TypeOK, PetRow, TouchLastReported
  <2>3. next \in Request /\ next.pc = "publish" /\ next.pet = p
    BY <2>1 DEF Request, PCs
  <2>4. /\ pets' = [pets EXCEPT ![p] = row]
        /\ Become(r, next)
        /\ UNCHANGED <<eps, reports, credits, ledger, paid, deletions>>
    BY <1>8 DEF TouchClosure
  <2> HIDE DEF q, p, row, next
  <2>5. Formed(next)
    BY <2>1, <2>3 DEF Formed
  <2>6. req' \in [Requests -> Request] /\ \A s \in Requests : Formed(req[s])'
    BY <2>3, <2>4, <2>5, BecomeType
  <2> QED  BY <2>1, <2>2, <2>4, <2>6 DEF TypeOK
<1>9. ASSUME NEW r \in Requests, NEW u \in Users, NEW p \in Pets, NEW at \in Times,
             BeginPublish(r, u, p, at)
      PROVE  TypeOK'
  <2> DEFINE q == [Idle EXCEPT !.pc = "commit", !.op = "publish", !.actor = u, !.pet = p,
                     !.want = "lost", !.at = at]
  <2>1. /\ q \in Request /\ q.pc = "commit" /\ q.op = "publish" /\ q.pet = p
        /\ q.actor = u /\ q.at = at
    BY DEF Request, PCs, Ops, Idle, ValidPetStatuses
  <2>2. Become(r, q) /\ UNCHANGED <<pets, eps, reports, credits, ledger, paid, deletions>>
    BY <1>9 DEF BeginPublish
  <2> HIDE DEF q
  <2>3. Formed(q)
    BY <2>1 DEF Formed
  <2>4. req' \in [Requests -> Request] /\ \A s \in Requests : Formed(req[s])'
    BY <2>1, <2>2, <2>3, BecomeType
  <2> QED  BY <2>2, <2>4 DEF TypeOK
<1>10. ASSUME NEW r \in Requests, NEW i \in ReportIds, CommitPublish(r, i)
       PROVE  TypeOK'
  <2> DEFINE q      == req[r]
             p      == q.pet
             opened == Open(eps[p], CurrentEpisode(p))
             row    == TouchLastReported([pets[p] EXCEPT !.status = "lost",
                                                          !.cur = opened.cur], q.at)
             rep    == [pet |-> p, reporter |-> q.actor, kind |-> "lost",
                        ep |-> opened.cur, at |-> q.at]
             next   == Done(q)
  <2>1. /\ q \in Request /\ Formed(q) /\ p \in Pets /\ q.at \in Times /\ q.actor \in Users
        /\ pets[p] \in PetRow
    BY <1>10 DEF TypeOK, CommitPublish, Formed
  <2>2. opened.eps \in EpRow /\ opened.cur \in EpIds
    BY <1>10, <2>1, OpenType DEF CommitPublish, TypeOK, EpRow
  <2>3. /\ pets' = [pets EXCEPT ![p] = row]
        /\ eps' = [eps EXCEPT ![p] = opened.eps]
        /\ reports' = [reports EXCEPT ![i] = rep]
        /\ Become(r, next)
        /\ UNCHANGED <<credits, ledger, paid, deletions>>
    BY <1>10 DEF CommitPublish
  <2> HIDE DEF opened
  <2>4. row \in PetRow
    BY <2>1, <2>2 DEF PetRow, TouchLastReported, ValidPetStatuses
  <2>5. rep \in ReportRow
    BY <2>1, <2>2 DEF ReportRow, ReportKinds
  <2>6. req' \in [Requests -> Request] /\ \A s \in Requests : Formed(req[s])'
    <3>1. next \in Request /\ Formed(next)
      BY <2>1, DoneType
    <3> HIDE DEF next
    <3> QED  BY <2>3, <3>1, BecomeType
  <2> HIDE DEF q, p, row, rep, next
  <2> QED  BY <2>1, <2>2, <2>3, <2>4, <2>5, <2>6 DEF TypeOK, EpRow
<1>11. ASSUME NEW r \in Requests, NEW u \in Users, NEW p \in Pets, NEW kind \in ReportKinds,
              NEW at \in Times, NEW h \in (SUBSET Users) \cup {Nil},
              BeginReport(r, u, p, kind, at, h)
       PROVE  TypeOK'
  <2> DEFINE q == [Idle EXCEPT !.pc = "txread", !.op = "report", !.actor = u, !.pet = p,
                     !.want = kind, !.at = at, !.helpers = h]
  <2>1. /\ q \in Request /\ q.pc = "txread" /\ q.op = "report" /\ q.pet = p
        /\ q.actor = u /\ q.at = at /\ q.want = kind
    BY DEF Request, PCs, Ops, Idle
  <2>2. Become(r, q) /\ UNCHANGED <<pets, eps, reports, credits, ledger, paid, deletions>>
    BY <1>11 DEF BeginReport
  <2> HIDE DEF q
  <2>3. Formed(q)
    BY <2>1 DEF Formed
  <2>4. req' \in [Requests -> Request] /\ \A s \in Requests : Formed(req[s])'
    BY <2>1, <2>2, <2>3, BecomeType
  <2> QED  BY <2>2, <2>4 DEF TypeOK
<1>12. ASSUME NEW r \in Requests, TxRead(r)
       PROVE  TypeOK'
  <2> DEFINE q    == req[r]
             next == [q EXCEPT !.pc = "commit", !.old = pets[q.pet].status]
  <2>1. /\ q \in Request /\ Formed(q) /\ q.pc = "txread" /\ q.pet \in Pets
        /\ q.actor \in Users /\ q.at \in Times
    BY <1>12 DEF TypeOK, TxRead, Formed
  <2>2. pets[q.pet].status \in ValidPetStatuses
    BY <1>12, <2>1 DEF TypeOK, TxRead, PetRow
  <2>3. /\ next \in Request /\ next.pc = "commit" /\ next.op = q.op /\ next.pet = q.pet
        /\ next.actor = q.actor /\ next.at = q.at /\ next.want = q.want
    <3>1. "commit" \in PCs
      BY DEF PCs
    <3>2. next \in Request
      <4> HIDE DEF q
      <4> QED  BY <2>1, <2>2, <3>1 DEF Request
    <3> HIDE DEF q
    <3> QED  BY <2>1, <3>2 DEF Request
  <2>4. Become(r, next) /\ UNCHANGED <<pets, eps, reports, credits, ledger, paid, deletions>>
    BY <1>12 DEF TxRead
  <2>5. q.op = "report"
    BY <2>1 DEF Formed
  <2> HIDE DEF q, next
  <2>6. Formed(next)
    BY <2>1, <2>3, <2>5 DEF Formed
  <2>7. req' \in [Requests -> Request] /\ \A s \in Requests : Formed(req[s])'
    BY <2>3, <2>4, <2>6, BecomeType
  <2> QED  BY <2>4, <2>7 DEF TypeOK
<1>13. ASSUME NEW r \in Requests, NEW i \in ReportIds, CommitReport(r, i)
       PROVE  TypeOK'
  <2> DEFINE q       == req[r]
             p       == q.pet
             moves   == ShouldTransition(q)
             ep      == IF moves THEN HandleTransition(eps[p], pets[p].cur, q.old, q.want)
                        ELSE [eps |-> eps[p], cur |-> pets[p].cur]
             toFound == moves /\ q.want = "found"
             row     == TouchLastReported([pets[p] EXCEPT !.status = IF moves THEN q.want ELSE @,
                                                          !.cur = ep.cur], q.at)
             rep     == [pet |-> p, reporter |-> q.actor, kind |-> q.want,
                         ep |-> FindCurrent(ep.eps), at |-> q.at]
             done    == [Done(q) EXCEPT !.pc = "load", !.rid = i, !.credited =
                           IF toFound THEN InsertCredits(p, q.helpers) ELSE {}]
             next    == IF moves THEN done ELSE Idle
  <2>1. /\ q \in Request /\ Formed(q) /\ p \in Pets /\ q.actor \in Users /\ q.at \in Times
        /\ q.want \in ReportKinds /\ pets[p] \in PetRow
    BY <1>13 DEF TypeOK, CommitReport, Formed
  <2>2. moves => q.want \in ValidPetStatuses
    BY DEF ShouldTransition, ValidPetStatuses
  <2>3. ep.eps \in EpRow /\ ep.cur \in EpIds \cup {0}
    <3>1. eps[p] \in EpRow /\ pets[p].cur \in EpIds \cup {0}
      BY <2>1 DEF TypeOK, EpRow, PetRow
    <3>2. moves /\ Opens(q.old, q.want) => HasFresh(eps[p])
      BY <1>13 DEF CommitReport
    <3> HIDE DEF moves
    <3> QED  BY <2>2, <3>1, <3>2, HandleTransitionType
  <2>4. /\ pets' = [pets EXCEPT ![p] = row]
        /\ eps' = [eps EXCEPT ![p] = ep.eps]
        /\ reports' = [reports EXCEPT ![i] = rep]
        /\ credits' = IF toFound THEN credits \cup ({p} \X Chosen(q.helpers)) ELSE credits
        /\ Become(r, next)
        /\ UNCHANGED <<ledger, paid, deletions>>
    BY <1>13 DEF CommitReport
  <2> HIDE DEF moves, ep
  <2>5. row \in PetRow
    BY <2>1, <2>2, <2>3 DEF PetRow, TouchLastReported
  <2>6. rep \in ReportRow
    <3>1. FindCurrent(ep.eps) \in EpIds \cup {0}
      BY FindCurrentType DEF Live
    <3> QED  BY <2>1, <3>1 DEF ReportRow
  <2>7. Chosen(q.helpers) \in SUBSET Users /\ InsertCredits(p, q.helpers) \in SUBSET Users
    BY <2>1 DEF Chosen, InsertCredits, Request
  <2> HIDE DEF toFound
  <2>8. next \in Request /\ Formed(next)
    <3>1. Done(q) \in Request /\ Done(q).pet = p
      BY <2>1, DoneType DEF Done, Idle
    <3>2. done \in Request /\ done.pc = "load" /\ done.rid = i /\ done.pet = p
      <4> DEFINE some == IF toFound THEN InsertCredits(p, q.helpers) ELSE {}
      <4>1. some \in SUBSET Users
        BY <2>7
      <4>2. "load" \in PCs
        BY DEF PCs
      <4> HIDE DEF q, p, some
      <4>3. [Done(q) EXCEPT !.pc = "load", !.rid = i, !.credited = some] \in Request
        BY <3>1, <4>1, <4>2 DEF Request
      <4>4. /\ [Done(q) EXCEPT !.pc = "load", !.rid = i, !.credited = some].pc = "load"
            /\ [Done(q) EXCEPT !.pc = "load", !.rid = i, !.credited = some].rid = i
            /\ [Done(q) EXCEPT !.pc = "load", !.rid = i, !.credited = some].pet = p
        BY <3>1 DEF Request
      <4> QED  BY <4>3, <4>4 DEF some
    <3> HIDE DEF done, p
    <3>3. Formed(done)
      BY <2>1, <3>2 DEF Formed
    <3> QED  BY <3>2, <3>3, IdleType
  <2> HIDE DEF q, p, row, rep, done, next
  <2>9. req' \in [Requests -> Request] /\ \A s \in Requests : Formed(req[s])'
    BY <2>4, <2>8, BecomeType
  <2>10. credits' \in SUBSET (Pets \X Users)
    BY <2>1, <2>4, <2>7 DEF TypeOK
  <2> QED  BY <2>1, <2>3, <2>4, <2>5, <2>6, <2>9, <2>10 DEF TypeOK, EpRow
<1>28. ASSUME NEW r \in Requests, LoadReport(r)
       PROVE  TypeOK'
  <2> DEFINE q    == req[r]
             next == [q EXCEPT !.pc = "ledger", !.rid = Nil]
  <2>1. q \in Request /\ Formed(q) /\ q.pet \in Pets
    BY <1>28 DEF TypeOK, LoadReport, Formed
  <2>2. next \in Request /\ next.pc = "ledger" /\ next.pet = q.pet
    BY <2>1 DEF Request, PCs
  <2>3. Become(r, next) /\ UNCHANGED <<pets, eps, reports, credits, ledger, paid, deletions>>
    BY <1>28 DEF LoadReport
  <2> HIDE DEF q, next
  <2>4. Formed(next)
    BY <2>1, <2>2 DEF Formed
  <2>5. req' \in [Requests -> Request] /\ \A s \in Requests : Formed(req[s])'
    BY <2>2, <2>3, <2>4, BecomeType
  <2> QED  BY <2>3, <2>5 DEF TypeOK
<1>14. ASSUME NEW r \in Requests, Publish(r)
       PROVE  TypeOK'
  <2> DEFINE q    == req[r]
             p    == q.pet
             next == IF RecordsFirst(q.op) THEN Idle
                     ELSE [q EXCEPT !.pc = "ledger", !.credited = {}]
  <2>1. q \in Request /\ Formed(q) /\ p \in Pets /\ q.pc = "publish"
    BY <1>14 DEF TypeOK, Publish, Formed
  <2>2. next \in Request /\ Formed(next)
    <3> DEFINE later == [q EXCEPT !.pc = "ledger", !.credited = {}]
    <3>1. later \in Request /\ later.pc = "ledger" /\ later.pet = p
      BY <2>1 DEF Request, PCs
    <3> HIDE DEF later
    <3>2. Formed(later)
      BY <2>1, <3>1 DEF Formed
    <3> QED  BY <3>1, <3>2, IdleType DEF later
  <2>3. req' \in [Requests -> Request] /\ \A s \in Requests : Formed(req[s])'
    <3>1. Become(r, next)
      BY <1>14 DEF Publish
    <3> HIDE DEF next
    <3> QED  BY <2>2, <3>1, BecomeType
  <2>4. paid' \in [Pets -> [Users -> Nat]]
    <3>1. paid' = [paid EXCEPT ![p] = [u \in Users |-> IF u \in q.credited THEN paid[p][u] + 1
                                                        ELSE paid[p][u]]]
      BY <1>14 DEF Publish
    <3>2. paid[p] \in [Users -> Nat]
      BY <2>1 DEF TypeOK
    <3> HIDE DEF q, p
    <3> QED  BY <2>1, <3>1, <3>2 DEF TypeOK
  <2> QED  BY <1>14, <2>3, <2>4 DEF Publish, TypeOK
<1>15. ASSUME NEW r \in Requests, RecordStat(r)
       PROVE  TypeOK'
  <2> DEFINE q    == req[r]
             p    == q.pet
             next == IF RecordsFirst(q.op) THEN [q EXCEPT !.pc = "publish"] ELSE Idle
  <2>1. q \in Request /\ Formed(q) /\ p \in Pets /\ q.pc = "ledger"
    BY <1>15 DEF TypeOK, RecordStat, Formed
  <2>2. next \in Request /\ Formed(next)
    <3> DEFINE later == [q EXCEPT !.pc = "publish"]
    <3>1. later \in Request /\ later.pc = "publish" /\ later.pet = p
      BY <2>1 DEF Request, PCs
    <3> HIDE DEF later
    <3>2. Formed(later)
      BY <2>1, <3>1 DEF Formed
    <3> QED  BY <3>1, <3>2, IdleType DEF later
  <2>3. req' \in [Requests -> Request] /\ \A s \in Requests : Formed(req[s])'
    <3>1. Become(r, next)
      BY <1>15 DEF RecordStat
    <3> HIDE DEF next
    <3> QED  BY <2>2, <3>1, BecomeType
  <2>4. ledger' \in [Pets -> [found : Nat, started : Nat]]
    BY <1>15, <2>1 DEF RecordStat, TypeOK
  <2> QED  BY <1>15, <2>3, <2>4 DEF RecordStat, TypeOK
<1>16. ASSUME NEW r \in Requests, NEW u \in Users, NEW p \in Pets, BeginDelete(r, u, p)
       PROVE  TypeOK'
  <2> DEFINE q == [Idle EXCEPT !.pc = "commit", !.op = "delete", !.actor = u, !.pet = p]
  <2>1. q \in Request /\ q.pc = "commit" /\ q.op = "delete" /\ q.pet = p
    BY DEF Request, PCs, Ops, Idle
  <2>2. Become(r, q) /\ UNCHANGED <<pets, eps, reports, credits, ledger, paid, deletions>>
    BY <1>16 DEF BeginDelete
  <2> HIDE DEF q
  <2>3. Formed(q)
    BY <2>1 DEF Formed
  <2>4. req' \in [Requests -> Request] /\ \A s \in Requests : Formed(req[s])'
    BY <2>1, <2>2, <2>3, BecomeType
  <2> QED  BY <2>2, <2>4 DEF TypeOK
<1>17. ASSUME NEW r \in Requests, CommitDelete(r)
       PROVE  TypeOK'
  <2> DEFINE p == req[r].pet
             e == [k \in EpIds |-> IF eps[p][k] = "none" THEN "none" ELSE "gone"]
  <2>1. p \in Pets
    BY <1>17 DEF TypeOK, CommitDelete, Formed
  <2>2. /\ pets' = [pets EXCEPT ![p] = Nil]
        /\ eps' = [eps EXCEPT ![p] = e]
        /\ reports' = [i \in ReportIds |-> IF i \in ReportsOf(p) THEN Nil ELSE reports[i]]
        /\ credits' = {c \in credits : c[1] # p}
        /\ deletions' = [deletions EXCEPT ![p] = @ + 1]
        /\ Become(r, Idle)
        /\ UNCHANGED <<ledger, paid>>
    BY <1>17 DEF CommitDelete
  <2>3. e \in [EpIds -> EpState]
    BY DEF EpState
  <2>4. req' \in [Requests -> Request] /\ \A s \in Requests : Formed(req[s])'
    BY <2>2, IdleType, BecomeType
  <2> HIDE DEF p, e
  <2> QED  BY <2>1, <2>2, <2>3, <2>4 DEF TypeOK
<1>18. ASSUME NEW r \in Requests, NEW i \in ReportIds, BeginModerate(r, i)
       PROVE  TypeOK'
  <2> DEFINE q == [Idle EXCEPT !.pc = "commit", !.op = "moderate", !.rid = i,
                     !.pet = reports[i].pet]
  <2>1. reports[i].pet \in Pets
    BY <1>18 DEF BeginModerate, TypeOK, ReportRow
  <2>2. q \in Request /\ q.pc = "commit" /\ q.op = "moderate" /\ q.pet \in Pets /\ q.rid = i
    BY <2>1 DEF Request, PCs, Ops, Idle
  <2>3. Become(r, q) /\ UNCHANGED <<pets, eps, reports, credits, ledger, paid, deletions>>
    BY <1>18 DEF BeginModerate
  <2> HIDE DEF q
  <2>4. Formed(q)
    BY <2>2 DEF Formed
  <2>5. req' \in [Requests -> Request] /\ \A s \in Requests : Formed(req[s])'
    BY <2>2, <2>3, <2>4, BecomeType
  <2> QED  BY <2>3, <2>5 DEF TypeOK
<1>19. ASSUME NEW r \in Requests, CommitModerate(r)
       PROVE  TypeOK'
  <2> DEFINE q    == req[r]
             next == [q EXCEPT !.pc = "snapshot"]
  <2>1. q \in Request /\ q.pet \in Pets
    BY <1>19 DEF TypeOK, CommitModerate, Formed
  <2>2. next \in Request /\ next.pc = "snapshot" /\ next.pet = q.pet
    BY <2>1 DEF Request, PCs
  <2>3. /\ reports' = [reports EXCEPT ![q.rid] = Nil]
        /\ Become(r, next)
        /\ UNCHANGED <<pets, eps, credits, ledger, paid, deletions>>
    BY <1>19 DEF CommitModerate
  <2> HIDE DEF q, next
  <2>4. Formed(next)
    BY <2>1, <2>2 DEF Formed
  <2>5. req' \in [Requests -> Request] /\ \A s \in Requests : Formed(req[s])'
    BY <2>2, <2>3, <2>4, BecomeType
  <2> QED  BY <2>3, <2>5 DEF TypeOK
<1>20. ASSUME NEW r \in Requests, RecomputeSnapshot(r)
       PROVE  TypeOK'
  <2> DEFINE q    == req[r]
             next == [q EXCEPT !.pc = "recompute", !.at = NewestSighting(q.pet)]
  <2>1. q \in Request /\ q.pet \in Pets
    BY <1>20 DEF TypeOK, RecomputeSnapshot, Formed
  <2>2. NewestSighting(q.pet) \in Times \cup {0}
    BY <2>1, NewestSightingType
  <2>3. next \in Request /\ next.pc = "recompute" /\ next.pet = q.pet
    BY <2>1, <2>2 DEF Request, PCs
  <2>4. Become(r, next) /\ UNCHANGED <<pets, eps, reports, credits, ledger, paid, deletions>>
    BY <1>20 DEF RecomputeSnapshot
  <2> HIDE DEF q, next
  <2>5. Formed(next)
    BY <2>1, <2>3 DEF Formed
  <2>6. req' \in [Requests -> Request] /\ \A s \in Requests : Formed(req[s])'
    BY <2>3, <2>4, <2>5, BecomeType
  <2> QED  BY <2>4, <2>6 DEF TypeOK
<1>21. ASSUME NEW r \in Requests, RecomputeLastReported(r)
       PROVE  TypeOK'
  <2> DEFINE q   == req[r]
             p   == q.pet
             row == IF pets[p] = Nil THEN Nil ELSE [pets[p] EXCEPT !.clock = q.at]
  <2>1. q \in Request /\ p \in Pets /\ q.at \in Times \cup {0}
    BY <1>21 DEF TypeOK, RecomputeLastReported, Formed, Request
  <2>2. row \in PetRow \cup {Nil}
    BY <2>1 DEF TypeOK, PetRow
  <2>3. /\ pets' = [pets EXCEPT ![p] = row]
        /\ Become(r, Idle)
        /\ UNCHANGED <<eps, reports, credits, ledger, paid, deletions>>
    BY <1>21 DEF RecomputeLastReported
  <2>4. req' \in [Requests -> Request] /\ \A s \in Requests : Formed(req[s])'
    BY <2>3, IdleType, BecomeType
  <2> HIDE DEF q, p, row
  <2> QED  BY <2>1, <2>2, <2>3, <2>4 DEF TypeOK
<1>22. ASSUME NEW r \in Requests, Abort(r)
       PROVE  TypeOK'
  <2>1. Become(r, Idle) /\ UNCHANGED <<pets, eps, reports, credits, ledger, paid, deletions>>
    BY <1>22 DEF Abort
  <2>2. req' \in [Requests -> Request] /\ \A s \in Requests : Formed(req[s])'
    BY <2>1, IdleType, BecomeType
  <2> QED  BY <2>1, <2>2 DEF TypeOK
<1>23. ASSUME NEW r \in Requests, BestEffortFails(r)
       PROVE  TypeOK'
  <2> DEFINE q     == req[r]
             later == [q EXCEPT !.pc = "publish", !.actor = Nil, !.at = 0]
             after == [q EXCEPT !.pc = "publish"]
  <2>1. q \in Request /\ q.pet \in Pets
    BY <1>23 DEF TypeOK, BestEffortFails, Formed
  <2>2. /\ later \in Request /\ later.pc = "publish" /\ later.pet = q.pet
        /\ after \in Request /\ after.pc = "publish" /\ after.pet = q.pet
    BY <2>1 DEF Request, PCs
  <2>3. /\ Become(r, later) \/ Become(r, after) \/ Become(r, Idle)
        /\ UNCHANGED <<pets, eps, reports, credits, ledger, paid, deletions>>
    BY <1>23 DEF BestEffortFails
  <2> HIDE DEF q, later, after
  <2>4. Formed(later) /\ Formed(after)
    BY <2>1, <2>2 DEF Formed
  <2>5. req' \in [Requests -> Request] /\ \A s \in Requests : Formed(req[s])'
    BY <2>2, <2>3, <2>4, IdleType, BecomeType
  <2> QED  BY <2>3, <2>5 DEF TypeOK
<1>24. CASE Crash
  BY <1>24, IdleType DEF Crash, TypeOK
<1>25. CASE UNCHANGED vars
  BY <1>25 DEF vars, TypeOK, Formed, ReportsOf
<1>26. ASSUME NEW r \in Requests, Arrive(r)
       PROVE  TypeOK'
  BY <1>1, <1>2, <1>3, <1>5, <1>9, <1>11, <1>16, <1>26 DEF Arrive, HelperAnswers
<1>27. ASSUME NEW r \in Requests, Proceed(r)
       PROVE  TypeOK'
  BY <1>4, <1>6, <1>7, <1>8, <1>10, <1>12, <1>13, <1>14, <1>15, <1>17, <1>19, <1>20, <1>21,
     <1>27, <1>28 DEF Proceed
<1> QED  BY <1>18, <1>22, <1>23, <1>24, <1>25, <1>26, <1>27 DEF Next

\* Pets, episodes, reports, credits and requests have the types the migrations
\* and the request handling give them, whatever is in flight.
THEOREM TypeCorrect == Spec => []TypeOK
<1>1. Init => TypeOK
  BY IdleType DEF Init, TypeOK, EpState
<1> QED  BY <1>1, TypeStep, PTL DEF Spec

-----------------------------------------------------------------------------
(* Credit is paid once.  PaidOnce counts, next to the announcements made,  *)
(* the requests that still carry the helper: a commit adds one of them and *)
(* a row, Publish turns one of them into an announcement, a deletion takes *)
(* the row away and counts, and every other step can only drop requests.   *)

\* The requests that still have a helper to announce are finitely many.
LEMMA PendingFinite ==
  ASSUME NEW p, NEW u
  PROVE  IsFiniteSet(Pending(p, u)) /\ Cardinality(Pending(p, u)) \in Nat
<1>1. Pending(p, u) \in SUBSET Requests
  BY DEF Pending
<1> QED  BY <1>1, RequestsAssumption, FS_Subset, FS_CardinalityType

\* A request that ends, or keeps at most the helpers it carried.
Keeps(r, q) ==
  \/ q.credited = {}
  \/ q.pet = req[r].pet /\ q.credited \subseteq req[r].credited

\* A request that ends or keeps what it credited adds no pending announcement.
LEMMA PendingShrinks ==
  ASSUME TypeOK, NEW r \in Requests, NEW q, Become(r, q), Keeps(r, q)
  PROVE  \A p, u : Pending(p, u)' \subseteq Pending(p, u)
BY DEF Pending, Become, Keeps, TypeOK

\* A step that neither announces nor credits nor deletes keeps PaidOnce, if the
\* pending announcements do not grow.
LEMMA PaidOnceKept ==
  ASSUME TypeOK, PaidOnce, UNCHANGED <<paid, deletions>>, credits \subseteq credits',
         \A p, u : Pending(p, u)' \subseteq Pending(p, u)
  PROVE  PaidOnce'
<1> SUFFICES ASSUME NEW p \in Pets, NEW u \in Users
             PROVE  paid[p][u] + Cardinality(Pending(p, u)')
                      <= deletions[p] + (IF <<p, u>> \in credits' THEN 1 ELSE 0)
  BY DEF PaidOnce
<1>1. Cardinality(Pending(p, u)') <= Cardinality(Pending(p, u))
  <2>1. Pending(p, u)' \in SUBSET Pending(p, u)
    OBVIOUS
  <2> QED  BY <2>1, PendingFinite, FS_Subset
<1>2. Cardinality(Pending(p, u)') \in Nat
  <2>1. IsFiniteSet(Pending(p, u)')
    BY PendingFinite, FS_Subset
  <2> QED  BY <2>1, FS_CardinalityType
<1>3. paid[p][u] \in Nat /\ deletions[p] \in Nat /\ Cardinality(Pending(p, u)) \in Nat
  BY PendingFinite DEF TypeOK
<1>4. paid[p][u] + Cardinality(Pending(p, u))
        <= deletions[p] + (IF <<p, u>> \in credits THEN 1 ELSE 0)
  BY DEF PaidOnce
<1> QED  BY <1>1, <1>2, <1>3, <1>4

\* A commit that credits: the helpers it carries away had no row and have one.
LEMMA PaidOnceCredited ==
  ASSUME TypeOK, PaidOnce, UNCHANGED <<paid, deletions>>, credits \subseteq credits',
         NEW r \in Requests, NEW q, Become(r, q),
         \A u \in q.credited : <<q.pet, u>> \notin credits /\ <<q.pet, u>> \in credits'
  PROVE  PaidOnce'
<1> SUFFICES ASSUME NEW p \in Pets, NEW u \in Users
             PROVE  paid[p][u] + Cardinality(Pending(p, u)')
                      <= deletions[p] + (IF <<p, u>> \in credits' THEN 1 ELSE 0)
  BY DEF PaidOnce
<1>1. paid[p][u] \in Nat /\ deletions[p] \in Nat /\ Cardinality(Pending(p, u)) \in Nat
  BY PendingFinite DEF TypeOK
<1>2. paid[p][u] + Cardinality(Pending(p, u))
        <= deletions[p] + (IF <<p, u>> \in credits THEN 1 ELSE 0)
  BY DEF PaidOnce
<1>3. CASE q.pet = p /\ u \in q.credited
  <2>1. Pending(p, u)' \in SUBSET (Pending(p, u) \cup {r})
    BY DEF Pending, Become, TypeOK
  <2>2. /\ IsFiniteSet(Pending(p, u) \cup {r})
        /\ Cardinality(Pending(p, u) \cup {r}) \in Nat
        /\ Cardinality(Pending(p, u) \cup {r}) <= Cardinality(Pending(p, u)) + 1
    <3>1. IsFiniteSet(Pending(p, u))
      BY PendingFinite
    <3>2. /\ IsFiniteSet(Pending(p, u) \cup {r})
          /\ Cardinality(Pending(p, u) \cup {r}) =
               IF r \in Pending(p, u) THEN Cardinality(Pending(p, u))
               ELSE Cardinality(Pending(p, u)) + 1
      BY <3>1, FS_AddElement
    <3> QED  BY <1>1, <3>2
  <2>3. /\ Cardinality(Pending(p, u)') \in Nat
        /\ Cardinality(Pending(p, u)') <= Cardinality(Pending(p, u) \cup {r})
    BY <2>1, <2>2, FS_Subset, FS_CardinalityType
  <2>4. <<p, u>> \notin credits /\ <<p, u>> \in credits'
    BY <1>3
  <2> QED  BY <1>1, <1>2, <2>2, <2>3, <2>4
<1>4. CASE ~(q.pet = p /\ u \in q.credited)
  <2>1. Pending(p, u)' \in SUBSET Pending(p, u)
    BY <1>4 DEF Pending, Become, TypeOK
  <2>2. /\ Cardinality(Pending(p, u)') \in Nat
        /\ Cardinality(Pending(p, u)') <= Cardinality(Pending(p, u))
    BY <2>1, PendingFinite, FS_Subset, FS_CardinalityType
  <2> QED  BY <1>1, <1>2, <2>2
<1> QED  BY <1>3, <1>4

\* Every step keeps PaidOnce, one action at a time.
LEMMA PaidOnceStep ==
  ASSUME TypeOK, PaidOnce, [Next]_vars
  PROVE  PaidOnce'
<1> DEFINE Quiet == UNCHANGED <<credits, paid, deletions>>
<1>0. ASSUME NEW r \in Requests, NEW q, Become(r, q), Keeps(r, q), Quiet
      PROVE  PaidOnce'
  BY <1>0, PendingShrinks, PaidOnceKept
<1>1. ASSUME NEW r \in Requests, CommitUpdate(r)
      PROVE  PaidOnce'
  <2> DEFINE q    == req[r]
             got  == InsertCredits(q.pet, q.helpers)
             done == [Done(q) EXCEPT !.credited = got]
  <2>1. UNCHANGED <<paid, deletions>>
    BY <1>1 DEF CommitUpdate
  <2>2. CASE /\ credits' = credits \cup ({q.pet} \X Chosen(q.helpers))
             /\ Become(r, done)
    <3>1. done.pet = q.pet /\ done.credited = got
      BY DEF Done, Idle
    <3>2. \A u \in got : <<q.pet, u>> \notin credits /\ <<q.pet, u>> \in credits'
      BY <2>2 DEF InsertCredits
    <3> HIDE DEF done, got, q
    <3> QED  BY <2>1, <2>2, <3>1, <3>2, PaidOnceCredited
  <2>3. CASE credits' = credits /\ Become(r, [Done(q) EXCEPT !.credited = {}])
    BY <1>0, <2>1, <2>3 DEF Keeps, Done, Idle
  <2>4. CASE credits' = credits /\ Become(r, Idle)
    BY <1>0, <2>1, <2>4 DEF Keeps, Idle
  <2> QED  BY <1>1, <2>2, <2>3, <2>4 DEF CommitUpdate
<1>2. ASSUME NEW r \in Requests, CommitFound(r)
      PROVE  PaidOnce'
  <2> DEFINE q    == req[r]
             got  == InsertCredits(q.pet, q.helpers)
             done == [Done(q) EXCEPT !.pc = "closure", !.actor = q.actor, !.credited = got]
  <2>1. /\ UNCHANGED <<paid, deletions>>
        /\ credits' = credits \cup ({q.pet} \X Chosen(q.helpers))
        /\ Become(r, done)
    BY <1>2 DEF CommitFound
  <2>2. done.pet = q.pet /\ done.credited = got
    BY DEF Done, Idle
  <2>3. \A u \in got : <<q.pet, u>> \notin credits /\ <<q.pet, u>> \in credits'
    BY <2>1 DEF InsertCredits
  <2> HIDE DEF done, got, q
  <2> QED  BY <2>1, <2>2, <2>3, PaidOnceCredited
<1>3. ASSUME NEW r \in Requests, NEW i \in ReportIds, CommitReport(r, i)
      PROVE  PaidOnce'
  <2> DEFINE q    == req[r]
             got  == InsertCredits(q.pet, q.helpers)
             done == [Done(q) EXCEPT !.pc = "load", !.rid = i, !.credited = got]
  <2>1. UNCHANGED <<paid, deletions>>
    BY <1>3 DEF CommitReport
  <2>2. CASE /\ credits' = credits \cup ({q.pet} \X Chosen(q.helpers))
             /\ Become(r, done)
    <3>1. done.pet = q.pet /\ done.credited = got
      BY DEF Done, Idle
    <3>2. \A u \in got : <<q.pet, u>> \notin credits /\ <<q.pet, u>> \in credits'
      BY <2>2 DEF InsertCredits
    <3> HIDE DEF done, got, q
    <3> QED  BY <2>1, <2>2, <3>1, <3>2, PaidOnceCredited
  <2>3. CASE credits' = credits /\ Become(r, [Done(q) EXCEPT !.pc = "load", !.rid = i, !.credited = {}])
    BY <1>0, <2>1, <2>3 DEF Keeps, Done, Idle
  <2>4. CASE credits' = credits /\ Become(r, Idle)
    BY <1>0, <2>1, <2>4 DEF Keeps, Idle
  <2> QED  BY <1>3, <2>2, <2>3, <2>4 DEF CommitReport
<1>4. ASSUME NEW r \in Requests, Publish(r)
      PROVE  PaidOnce'
  <2> DEFINE q    == req[r]
             next == IF RecordsFirst(q.op) THEN Idle
                     ELSE [q EXCEPT !.pc = "ledger", !.credited = {}]
  <2>1. Become(r, next) /\ next.credited = {}
    BY <1>4 DEF Publish, Idle, TypeOK, Request
  <2>2. q.pet \in Pets /\ q \in Request
    BY <1>4 DEF Publish, TypeOK, Formed
  <2> SUFFICES ASSUME NEW p \in Pets, NEW u \in Users
               PROVE  paid'[p][u] + Cardinality(Pending(p, u)')
                        <= deletions'[p] + (IF <<p, u>> \in credits' THEN 1 ELSE 0)
    BY DEF PaidOnce
  <2>3. paid'[p][u] = IF p = q.pet /\ u \in q.credited THEN paid[p][u] + 1 ELSE paid[p][u]
    BY <1>4, <2>2 DEF Publish, TypeOK
  <2>4. paid[p][u] \in Nat /\ deletions[p] \in Nat /\ Cardinality(Pending(p, u)) \in Nat
    BY PendingFinite DEF TypeOK
  <2>5. paid[p][u] + Cardinality(Pending(p, u))
          <= deletions[p] + (IF <<p, u>> \in credits THEN 1 ELSE 0)
    BY DEF PaidOnce
  <2>6. UNCHANGED <<credits, deletions>>
    BY <1>4 DEF Publish
  <2> HIDE DEF next
  <2>7. Pending(p, u)' = Pending(p, u) \ {r}
    BY <2>1 DEF Pending, Become, TypeOK
  <2>8. Cardinality(Pending(p, u)') =
          IF r \in Pending(p, u) THEN Cardinality(Pending(p, u)) - 1
          ELSE Cardinality(Pending(p, u))
    BY <2>7, PendingFinite, FS_RemoveElement
  <2>9. p = q.pet /\ u \in q.credited => r \in Pending(p, u)
    BY DEF Pending
  <2> HIDE DEF q
  <2> QED  BY <2>3, <2>4, <2>5, <2>6, <2>8, <2>9
<1>5. ASSUME NEW r \in Requests, CommitDelete(r)
      PROVE  PaidOnce'
  <2> DEFINE d == req[r].pet
  <2>1. d \in Pets
    BY <1>5 DEF CommitDelete, TypeOK, Formed
  <2>2. /\ Become(r, Idle) /\ UNCHANGED paid
        /\ credits' = {c \in credits : c[1] # d}
        /\ deletions' = [deletions EXCEPT ![d] = @ + 1]
    BY <1>5 DEF CommitDelete
  <2>3. \A p, u : Pending(p, u)' \subseteq Pending(p, u)
    BY <2>2, PendingShrinks DEF Keeps, Idle
  <2> SUFFICES ASSUME NEW p \in Pets, NEW u \in Users
               PROVE  paid[p][u] + Cardinality(Pending(p, u)')
                        <= deletions'[p] + (IF <<p, u>> \in credits' THEN 1 ELSE 0)
    BY <2>2 DEF PaidOnce
  <2>4. paid[p][u] \in Nat /\ deletions[p] \in Nat /\ Cardinality(Pending(p, u)) \in Nat
    BY PendingFinite DEF TypeOK
  <2>5. paid[p][u] + Cardinality(Pending(p, u))
          <= deletions[p] + (IF <<p, u>> \in credits THEN 1 ELSE 0)
    BY DEF PaidOnce
  <2>6. /\ Cardinality(Pending(p, u)') \in Nat
        /\ Cardinality(Pending(p, u)') <= Cardinality(Pending(p, u))
    <3>1. Pending(p, u)' \in SUBSET Pending(p, u)
      BY <2>3
    <3> QED  BY <3>1, PendingFinite, FS_Subset, FS_CardinalityType
  <2>7. CASE p = d
    <3>1. deletions'[p] = deletions[p] + 1
      BY <2>1, <2>2, <2>7 DEF TypeOK
    <3> QED  BY <2>4, <2>5, <2>6, <3>1
  <2>8. CASE p # d
    <3>1. deletions'[p] = deletions[p] /\ (<<p, u>> \in credits' <=> <<p, u>> \in credits)
      BY <2>1, <2>2, <2>8 DEF TypeOK
    <3> QED  BY <2>4, <2>5, <2>6, <3>1
  <2> QED  BY <2>7, <2>8
<1>6. ASSUME NEW r \in Requests, NEW u \in Users, NEW p \in Pets, NEW st, CreatePet(r, u, p, st)
      PROVE  PaidOnce'
  BY <1>6 DEF CreatePet, PaidOnce, Pending
<1>7. ASSUME NEW r \in Requests, Arrive(r)
      PROVE  PaidOnce'
  <2>1. ASSUME NEW u \in Users, NEW p \in Pets,
               \/ \E i \in ReportIds, at \in Times : CreateStray(r, u, p, i, at)
               \/ \E want \in ValidPetStatuses \cup {Nil} :
                    \E h \in HelperAnswers(want) : BeginUpdate(r, u, p, want, h)
               \/ \E h \in HelperAnswers("found") : BeginFound(r, u, p, h)
               \/ \E at \in Times : BeginPublish(r, u, p, at)
               \/ \E kind \in ReportKinds, at \in Times : \E h \in HelperAnswers(kind) :
                    BeginReport(r, u, p, kind, at, h)
               \/ BeginDelete(r, u, p)
        PROVE  \E q : Become(r, q) /\ Keeps(r, q) /\ Quiet
    BY <2>1 DEF CreateStray, BeginUpdate, BeginFound, BeginPublish, BeginReport, BeginDelete,
                Keeps, Idle
  <2> QED  BY <1>0, <1>6, <1>7, <2>1 DEF Arrive
<1>8. ASSUME NEW r \in Requests, NEW i \in ReportIds, BeginModerate(r, i)
      PROVE  PaidOnce'
  <2>1. \E q : Become(r, q) /\ Keeps(r, q) /\ Quiet
    BY <1>8 DEF BeginModerate, Keeps, Idle
  <2> QED  BY <1>0, <2>1
<1>9. ASSUME NEW r \in Requests,
             \/ \E i \in ReportIds : CommitPublish(r, i)
             \/ TxRead(r)
             \/ LoadReport(r)
             \/ CommitModerate(r)
             \/ \E i \in ReportIds, at \in Times : CreateClosure(r, i, at)
             \/ TouchClosure(r)
             \/ RecordStat(r)
             \/ RecomputeSnapshot(r)
             \/ RecomputeLastReported(r)
             \/ Abort(r)
             \/ BestEffortFails(r)
      PROVE  PaidOnce'
  <2>1. req[r] \in Request
    BY DEF TypeOK
  <2>2. \E q : Become(r, q) /\ Keeps(r, q) /\ Quiet
    BY <1>9, <2>1 DEF CommitPublish, TxRead, LoadReport, CommitModerate, CreateClosure, TouchClosure,
       RecordStat, RecomputeSnapshot, RecomputeLastReported, Abort, BestEffortFails,
       Keeps, Idle, Done, Request
  <2> QED  BY <1>0, <2>2
<1>10. ASSUME NEW r \in Requests, Proceed(r)
       PROVE  PaidOnce'
  BY <1>1, <1>2, <1>3, <1>4, <1>5, <1>9, <1>10 DEF Proceed
<1>11. CASE Crash
  <2>1. Quiet /\ \A p, u : Pending(p, u)' \subseteq Pending(p, u)
    BY <1>11 DEF Crash, Pending, Idle
  <2> QED  BY <2>1, PaidOnceKept
<1>12. CASE UNCHANGED vars
  BY <1>12 DEF vars, PaidOnce, Pending
<1> QED  BY <1>7, <1>8, <1>9, <1>10, <1>11, <1>12 DEF Next

\* However many requests close the search of a pet at the same time, and
\* whatever they read before, a helper is announced to gamification at most
\* once for each life of the pet.
THEOREM HelperPaidOnce == Spec => []PaidOnce
<1>1. Init => PaidOnce
  <2>1. ASSUME Init, NEW p \in Pets, NEW u \in Users
        PROVE  paid[p][u] = 0 /\ deletions[p] = 0 /\ Pending(p, u) = {}
    BY <2>1 DEF Init, Pending, Idle
  <2>2. Cardinality({}) = 0
    BY FS_EmptySet
  <2> QED  BY <2>1, <2>2 DEF PaidOnce
<1>2. TypeOK /\ PaidOnce /\ [Next]_vars => PaidOnce'
  BY PaidOnceStep
<1> QED  BY <1>1, <1>2, TypeCorrect, PTL DEF Spec

-----------------------------------------------------------------------------
(* What the transactions do to a pet and its episodes: one lemma for each, *)
(* which the invariants below cite instead of the action.                  *)

\* Only the row and the episodes of p are written.
OnlyPet(p) == \A o \in Pets \ {p} : pets'[o] = pets[o] /\ eps'[o] = eps[o]

\* What a transition makes of the episodes e and the current one, cur.
Moved(e, cur, old, new, e2, cur2) ==
  /\ Live(e) \subseteq Live(e2)
  /\ cur2 = cur \/ cur2 \in Live(e2)
  /\ \A k \in EpIds : e[k] # "none" => e2[k] # "none"
  /\ Opens(old, new) =>
       /\ cur2 = Fresh(e) /\ Fresh(e) \in EpIds /\ IsFresh(e, Fresh(e))
       /\ e2 = [e EXCEPT ![Fresh(e)] = "open"]
  /\ Closes(old, new) =>
       cur2 = cur /\ e2 = IF cur # 0 /\ e[cur] = "open" THEN [e EXCEPT ![cur] = new] ELSE e
  /\ ~Opens(old, new) /\ ~Closes(old, new) => cur2 = cur /\ e2 = e

\* No transition takes an episode away; opening adds the next one, closing
\* keeps the current one.
LEMMA TransitionMoves ==
  ASSUME NEW e \in EpRow, NEW cur \in EpIds \cup {0},
         NEW old, NEW new \in ValidPetStatuses, Opens(old, new) => HasFresh(e)
  PROVE  Moved(e, cur, old, new, HandleTransition(e, cur, old, new).eps,
                                 HandleTransition(e, cur, old, new).cur)
<1> DEFINE h == HandleTransition(e, cur, old, new)
<1> SUFFICES Moved(e, cur, old, new, h.eps, h.cur)
  OBVIOUS
<1>1. CASE Opens(old, new)
  <2>1. h = Open(e, cur) /\ ~Closes(old, new)
    BY <1>1 DEF HandleTransition, Opens, Closes
  <2>2. Fresh(e) \in EpIds /\ IsFresh(e, Fresh(e))
    BY <1>1, FreshType
  <2>3. h.eps = [e EXCEPT ![Fresh(e)] = "open"] /\ h.cur = Fresh(e)
    BY <2>1 DEF Open
  <2> HIDE DEF h
  <2>4. \A k \in EpIds : h.eps[k] = IF k = Fresh(e) THEN "open" ELSE e[k]
    BY <2>3 DEF EpRow
  <2>5. Live(e) \subseteq Live(h.eps) /\ Fresh(e) \in Live(h.eps)
    BY <2>2, <2>4 DEF Live
  <2>6. \A k \in EpIds : e[k] # "none" => h.eps[k] # "none"
    BY <2>4
  <2> QED  BY <1>1, <2>1, <2>2, <2>3, <2>5, <2>6 DEF Moved
<1>2. CASE Closes(old, new)
  <2>1. h = CloseCurrent(e, cur, new) /\ ~Opens(old, new)
    BY <1>2 DEF HandleTransition, Opens, Closes
  <2>2. /\ h.eps = IF cur # 0 /\ e[cur] = "open" THEN [e EXCEPT ![cur] = new] ELSE e
        /\ h.cur = cur
    BY <2>1 DEF CloseCurrent
  <2>3. new \notin {"none", "gone"}
    BY DEF ValidPetStatuses
  <2> HIDE DEF h
  <2>4. \A k \in EpIds : h.eps[k] = IF k = cur /\ e[cur] = "open" THEN new ELSE e[k]
    <3>1. 0 \notin EpIds
      BY BoundsAssumption DEF EpIds
    <3> QED  BY <2>2, <3>1 DEF EpRow
  <2>5. Live(e) \subseteq Live(h.eps) /\ \A k \in EpIds : e[k] # "none" => h.eps[k] # "none"
    BY <2>3, <2>4 DEF Live
  <2> QED  BY <1>2, <2>1, <2>2, <2>5 DEF Moved
<1>3. CASE ~Opens(old, new) /\ ~Closes(old, new)
  BY <1>3 DEF HandleTransition, Moved
<1> QED  BY <1>1, <1>2, <1>3

\* UpdatePet writes the row it read, edited, but for its clock.
LEMMA UpdateFacts ==
  ASSUME TypeOK, NEW r \in Requests, CommitUpdate(r), NEW q, q = req[r], NEW p, p = q.pet
  PROVE  /\ p \in Pets /\ q \in Request /\ q.seen \in PetRow /\ q.old = q.seen.status
         /\ pets'[p] \in PetRow /\ OnlyPet(p)
         /\ pets'[p].owner = q.seen.owner /\ pets'[p].reporter = q.seen.reporter
         /\ pets'[p].clock = IF pets[p] = Nil THEN 0 ELSE pets[p].clock
         /\ pets'[p].status = IF q.want = Nil THEN q.old ELSE q.want
         /\ EpisodeExists(p, q.seen.cur)
         /\ Moved(eps[p], q.seen.cur, q.old, pets'[p].status, eps'[p], pets'[p].cur)
<1> DEFINE row     == Save(p, Edited(q))
           changed == row.status # q.old
           ep      == IF changed THEN HandleTransition(eps[p], row.cur, q.old, row.status)
                      ELSE [eps |-> eps[p], cur |-> row.cur]
<1>1. q \in Request /\ Formed(q) /\ q.pc = "commit" /\ q.op = "update"
  BY DEF TypeOK, CommitUpdate
<1>2. p \in Pets /\ q.seen \in PetRow /\ q.old = q.seen.status
  BY <1>1 DEF Formed
<1>3. /\ row.owner = q.seen.owner /\ row.reporter = q.seen.reporter /\ row.cur = q.seen.cur
      /\ row.clock = IF pets[p] = Nil THEN 0 ELSE pets[p].clock
      /\ row.status = IF q.want = Nil THEN q.old ELSE q.want
  BY <1>2 DEF Save, Edited, PetRow
<1>4. row \in PetRow
  BY <1>1, SavedType
<1>5. /\ EpisodeExists(p, row.cur) /\ (changed /\ Opens(q.old, row.status) => HasFresh(eps[p]))
      /\ pets' = [pets EXCEPT ![p] = [row EXCEPT !.cur = ep.cur]]
      /\ eps' = [eps EXCEPT ![p] = ep.eps]
  BY DEF CommitUpdate
<1> HIDE DEF row
<1>6. eps[p] \in EpRow /\ row.cur \in EpIds \cup {0} /\ row.status \in ValidPetStatuses
  BY <1>2, <1>4 DEF TypeOK, EpRow, PetRow
<1>7. Moved(eps[p], row.cur, q.old, row.status, ep.eps, ep.cur)
  <2>1. CASE changed
    BY <1>5, <1>6, <2>1, TransitionMoves
  <2>2. CASE ~changed
    <3>1. ~Opens(q.old, row.status) /\ ~Closes(q.old, row.status)
      BY <2>2 DEF Opens, Closes
    <3> QED  BY <2>2, <3>1 DEF Moved
  <2> QED  BY <2>1, <2>2
<1>8. ep.cur \in EpIds \cup {0}
  BY <1>6, <1>7 DEF Moved, Live
<1> HIDE DEF ep
<1>9. /\ pets'[p] = [row EXCEPT !.cur = ep.cur] /\ eps'[p] = ep.eps /\ OnlyPet(p)
  BY <1>2, <1>5 DEF TypeOK, OnlyPet
<1>10. /\ pets'[p] \in PetRow /\ pets'[p].cur = ep.cur /\ pets'[p].status = row.status
       /\ pets'[p].owner = row.owner /\ pets'[p].reporter = row.reporter
       /\ pets'[p].clock = row.clock
  BY <1>4, <1>8, <1>9 DEF PetRow
<1> QED  BY <1>1, <1>2, <1>3, <1>5, <1>7, <1>9, <1>10

\* MarkAsFound changes the status of a row that is still there, and closes the
\* search the row names.
LEMMA FoundFacts ==
  ASSUME TypeOK, NEW r \in Requests, CommitFound(r), NEW q, q = req[r], NEW p, p = q.pet
  PROVE  /\ p \in Pets /\ q \in Request /\ OnlyPet(p)
         /\ pets[p] = Nil => pets'[p] = Nil
         /\ pets[p] # Nil =>
              /\ pets[p] \in PetRow /\ pets'[p] \in PetRow
              /\ pets'[p] = [pets[p] EXCEPT !.status = "found"]
         /\ Moved(eps[p], CurrentEpisode(p), q.old, "found", eps'[p], CurrentEpisode(p))
<1>1. q \in Request /\ p \in Pets
  BY DEF TypeOK, CommitFound, Formed
<1>2. /\ pets' = [pets EXCEPT ![p] = UpdateStatus(p, "found")]
      /\ eps' = [eps EXCEPT ![p] = HandleTransition(eps[p], CurrentEpisode(p), q.old, "found").eps]
  BY DEF CommitFound
<1>3. pets[p] # Nil => pets[p] \in PetRow
  BY <1>1 DEF TypeOK
<1>4. eps[p] \in EpRow /\ CurrentEpisode(p) \in EpIds \cup {0}
  BY <1>1, <1>3 DEF TypeOK, EpRow, PetRow, CurrentEpisode
<1>5. "found" \in ValidPetStatuses /\ ~Opens(q.old, "found")
  BY DEF ValidPetStatuses, Opens, IsActiveSearchStatus
<1>6. Moved(eps[p], CurrentEpisode(p), q.old, "found",
            HandleTransition(eps[p], CurrentEpisode(p), q.old, "found").eps,
            HandleTransition(eps[p], CurrentEpisode(p), q.old, "found").cur)
  BY <1>4, <1>5, TransitionMoves
<1>7. HandleTransition(eps[p], CurrentEpisode(p), q.old, "found").cur = CurrentEpisode(p)
  BY <1>5, <1>6 DEF Moved
<1>8. eps'[p] = HandleTransition(eps[p], CurrentEpisode(p), q.old, "found").eps
  BY <1>1, <1>2 DEF TypeOK
<1>9. pets'[p] = UpdateStatus(p, "found") /\ OnlyPet(p)
  BY <1>1, <1>2 DEF TypeOK, OnlyPet
<1>10. pets[p] # Nil => [pets[p] EXCEPT !.status = "found"] \in PetRow
  BY <1>3, <1>5 DEF PetRow
<1> QED  BY <1>1, <1>3, <1>6, <1>7, <1>8, <1>9, <1>10 DEF UpdateStatus

\* Opening adds the next episode and makes it the current one.
LEMMA OpenMoves ==
  ASSUME NEW e \in EpRow, HasFresh(e), NEW cur
  PROVE  /\ Open(e, cur).cur = Fresh(e) /\ Fresh(e) \in EpIds /\ IsFresh(e, Fresh(e))
         /\ Open(e, cur).eps = [e EXCEPT ![Fresh(e)] = "open"]
         /\ Live(e) \subseteq Live(Open(e, cur).eps)
         /\ Fresh(e) \in Live(Open(e, cur).eps)
         /\ \A k \in EpIds : e[k] # "none" => Open(e, cur).eps[k] # "none"
<1>1. Fresh(e) \in EpIds /\ IsFresh(e, Fresh(e))
  BY FreshType
<1>2. Open(e, cur).eps = [e EXCEPT ![Fresh(e)] = "open"] /\ Open(e, cur).cur = Fresh(e)
  BY DEF Open
<1>3. \A k \in EpIds : Open(e, cur).eps[k] = IF k = Fresh(e) THEN "open" ELSE e[k]
  BY <1>2 DEF EpRow
<1> QED  BY <1>1, <1>2, <1>3 DEF Live

\* The next search of p is opened, p names it and so does the new report i.
Opening(p, i) ==
  LET k == Fresh(eps[p]) IN
  /\ pets'[p] \in PetRow /\ pets'[p].cur = k
  /\ k \in EpIds /\ IsFresh(eps[p], k)
  /\ eps'[p] = [eps[p] EXCEPT ![k] = "open"]
  /\ Live(eps[p]) \subseteq Live(eps'[p]) /\ k \in Live(eps'[p])
  /\ \A j \in EpIds : eps[p][j] # "none" => eps'[p][j] # "none"
  /\ reports[i] = Nil /\ reports'[i].pet = p /\ reports'[i].ep = k
  /\ \A j \in ReportIds \ {i} : reports'[j] = reports[j]

\* CreatePet of a stray: the pet, its first search and its report are new.
LEMMA StrayFacts ==
  ASSUME TypeOK, NEW r \in Requests, NEW u \in Users, NEW p \in Pets, NEW i \in ReportIds,
         NEW at \in Times, CreateStray(r, u, p, i, at)
  PROVE  /\ pets[p] = Nil /\ deletions[p] = 0 /\ OnlyPet(p) /\ pets'[p].status = "stray"
         /\ pets'[p].clock = at /\ reports'[i].at = at
         /\ Opening(p, i)
<1> DEFINE opened == Open(eps[p], 0)
           row    == [NewPet(u, "stray") EXCEPT !.cur = opened.cur, !.clock = at]
           rep    == [pet |-> p, reporter |-> u, kind |-> "sighting", ep |-> opened.cur, at |-> at]
<1>1. /\ pets[p] = Nil /\ deletions[p] = 0 /\ reports[i] = Nil /\ HasFresh(eps[p])
      /\ pets' = [pets EXCEPT ![p] = row]
      /\ eps' = [eps EXCEPT ![p] = opened.eps]
      /\ reports' = [reports EXCEPT ![i] = rep]
  BY DEF CreateStray
<1>2. eps[p] \in EpRow
  BY DEF TypeOK, EpRow
<1>3. /\ opened.cur = Fresh(eps[p]) /\ Fresh(eps[p]) \in EpIds /\ IsFresh(eps[p], Fresh(eps[p]))
      /\ opened.eps = [eps[p] EXCEPT ![Fresh(eps[p])] = "open"]
      /\ Live(eps[p]) \subseteq Live(opened.eps) /\ Fresh(eps[p]) \in Live(opened.eps)
      /\ \A k \in EpIds : eps[p][k] # "none" => opened.eps[k] # "none"
  BY <1>1, <1>2, OpenMoves
<1> HIDE DEF opened
<1>4. row \in PetRow /\ row.cur = opened.cur /\ row.status = "stray" /\ row.clock = at
  <2>1. NewPet(u, "stray") \in PetRow /\ NewPet(u, "stray").status = "stray"
    BY NewPetType DEF InitialStatuses, NewPet
  <2> QED  BY <1>3, <2>1 DEF PetRow
<1>5. rep.pet = p /\ rep.ep = opened.cur /\ rep.at = at
  OBVIOUS
<1> HIDE DEF row, rep
<1>6. eps'[p] = opened.eps /\ pets'[p] = row /\ OnlyPet(p) /\ reports'[i] = rep
  BY <1>1 DEF TypeOK, OnlyPet
<1>7. \A j \in ReportIds \ {i} : reports'[j] = reports[j]
  BY <1>1 DEF TypeOK
<1> QED  BY <1>1, <1>3, <1>4, <1>5, <1>6, <1>7 DEF Opening

Later(a, b) == IF a < b THEN b ELSE a

\* Touching the clock of a pet advances it and changes nothing else.
LEMMA TouchAdvances ==
  ASSUME NEW row \in PetRow, NEW at \in Times
  PROVE  /\ TouchLastReported(row, at) \in PetRow
         /\ TouchLastReported(row, at).clock >= row.clock
         /\ TouchLastReported(row, at).clock = Later(row.clock, at)
         /\ TouchLastReported(row, at).cur = row.cur
         /\ TouchLastReported(row, at).status = row.status
         /\ TouchLastReported(row, at).owner = row.owner
         /\ TouchLastReported(row, at).reporter = row.reporter
<1>1. row.clock \in Nat /\ at \in Nat
  <2>1. row.clock \in Times \cup {0}
    BY DEF PetRow
  <2>2. \A t \in Times : t \in Nat
    BY TimesAssumption
  <2> QED  BY <2>1, <2>2
<1>2. CASE row.clock < at
  BY <1>1, <1>2 DEF TouchLastReported, PetRow, Later
<1>3. CASE ~(row.clock < at)
  BY <1>1, <1>3 DEF TouchLastReported, PetRow, Later
<1> QED  BY <1>2, <1>3

\* PublishLost opens an episode whatever the status of the pet.
LEMMA PublishFacts ==
  ASSUME TypeOK, NEW r \in Requests, NEW i \in ReportIds, CommitPublish(r, i),
         NEW q, q = req[r], NEW p, p = q.pet
  PROVE  /\ p \in Pets /\ q \in Request /\ OnlyPet(p) /\ q.at \in Times
         /\ pets[p] \in PetRow /\ pets'[p].status = "lost"
         /\ pets'[p].owner = pets[p].owner /\ pets'[p].reporter = pets[p].reporter
         /\ pets'[p].clock >= pets[p].clock
         /\ pets'[p].clock = Later(pets[p].clock, q.at) /\ reports'[i].at = q.at
         /\ Opening(p, i)
<1> DEFINE opened == Open(eps[p], CurrentEpisode(p))
           row    == TouchLastReported([pets[p] EXCEPT !.status = "lost", !.cur = opened.cur], q.at)
           rep    == [pet |-> p, reporter |-> q.actor, kind |-> "lost",
                      ep |-> opened.cur, at |-> q.at]
<1>1. /\ pets[p] # Nil /\ reports[i] = Nil /\ HasFresh(eps[p])
      /\ pets' = [pets EXCEPT ![p] = row]
      /\ eps' = [eps EXCEPT ![p] = opened.eps]
      /\ reports' = [reports EXCEPT ![i] = rep]
  BY DEF CommitPublish
<1>2. q \in Request /\ p \in Pets /\ q.at \in Times
  BY DEF TypeOK, CommitPublish, Formed
<1>3. eps[p] \in EpRow /\ pets[p] \in PetRow
  BY <1>1, <1>2 DEF TypeOK, EpRow
<1>4. /\ opened.cur = Fresh(eps[p]) /\ Fresh(eps[p]) \in EpIds /\ IsFresh(eps[p], Fresh(eps[p]))
      /\ opened.eps = [eps[p] EXCEPT ![Fresh(eps[p])] = "open"]
      /\ Live(eps[p]) \subseteq Live(opened.eps) /\ Fresh(eps[p]) \in Live(opened.eps)
      /\ \A k \in EpIds : eps[p][k] # "none" => opened.eps[k] # "none"
  BY <1>1, <1>3, OpenMoves
<1> HIDE DEF opened
<1>5. /\ row \in PetRow /\ row.cur = opened.cur /\ row.status = "lost"
      /\ row.owner = pets[p].owner /\ row.reporter = pets[p].reporter
      /\ row.clock >= pets[p].clock /\ row.clock = Later(pets[p].clock, q.at)
  <2> DEFINE mid == [pets[p] EXCEPT !.status = "lost", !.cur = opened.cur]
  <2>1. /\ mid \in PetRow /\ mid.cur = opened.cur /\ mid.status = "lost"
        /\ mid.owner = pets[p].owner /\ mid.reporter = pets[p].reporter
        /\ mid.clock = pets[p].clock
    BY <1>3, <1>4 DEF PetRow, ValidPetStatuses
  <2> HIDE DEF mid
  <2>2. row = TouchLastReported(mid, q.at)
    BY DEF mid
  <2> QED  BY <1>2, <2>1, <2>2, TouchAdvances
<1>6. rep.pet = p /\ rep.ep = opened.cur /\ rep.at = q.at
  OBVIOUS
<1> HIDE DEF row, rep
<1>7. eps'[p] = opened.eps /\ pets'[p] = row /\ OnlyPet(p) /\ reports'[i] = rep
  BY <1>1, <1>2 DEF TypeOK, OnlyPet
<1>8. \A j \in ReportIds \ {i} : reports'[j] = reports[j]
  BY <1>1 DEF TypeOK
<1> QED  BY <1>1, <1>2, <1>3, <1>4, <1>5, <1>6, <1>7, <1>8 DEF Opening

\* CreateReport moves the pet when its kind asks for it and the status it read
\* allows it; the report names the episode that is the last one afterwards.
LEMMA ReportFacts ==
  ASSUME TypeOK, NEW r \in Requests, NEW i \in ReportIds, CommitReport(r, i),
         NEW q, q = req[r], NEW p, p = q.pet
  PROVE  /\ p \in Pets /\ q \in Request /\ OnlyPet(p) /\ q.at \in Times
         /\ pets[p] \in PetRow /\ pets'[p] \in PetRow
         /\ pets'[p].owner = pets[p].owner /\ pets'[p].reporter = pets[p].reporter
         /\ pets'[p].status = IF ShouldTransition(q) THEN q.want ELSE pets[p].status
         /\ pets'[p].clock >= pets[p].clock
         /\ pets'[p].clock = Later(pets[p].clock, q.at) /\ reports'[i].at = q.at
         /\ ShouldTransition(q) =>
              Moved(eps[p], pets[p].cur, q.old, q.want, eps'[p], pets'[p].cur)
         /\ ~ShouldTransition(q) => eps'[p] = eps[p] /\ pets'[p].cur = pets[p].cur
         /\ reports[i] = Nil /\ reports'[i].pet = p /\ reports'[i].ep = FindCurrent(eps'[p])
         /\ \A j \in ReportIds \ {i} : reports'[j] = reports[j]
<1> DEFINE moves == ShouldTransition(q)
           ep    == IF moves THEN HandleTransition(eps[p], pets[p].cur, q.old, q.want)
                    ELSE [eps |-> eps[p], cur |-> pets[p].cur]
           row   == TouchLastReported([pets[p] EXCEPT !.status = IF moves THEN q.want ELSE @,
                                                      !.cur = ep.cur], q.at)
           rep   == [pet |-> p, reporter |-> q.actor, kind |-> q.want,
                     ep |-> FindCurrent(ep.eps), at |-> q.at]
<1>1. /\ pets[p] # Nil /\ reports[i] = Nil
      /\ moves /\ Opens(q.old, q.want) => HasFresh(eps[p])
      /\ pets' = [pets EXCEPT ![p] = row]
      /\ eps' = [eps EXCEPT ![p] = ep.eps]
      /\ reports' = [reports EXCEPT ![i] = rep]
  BY DEF CommitReport
<1>2. q \in Request /\ p \in Pets /\ q.at \in Times
  BY DEF TypeOK, CommitReport, Formed
<1>3. eps[p] \in EpRow /\ pets[p] \in PetRow /\ pets[p].cur \in EpIds \cup {0}
  BY <1>1, <1>2 DEF TypeOK, EpRow, PetRow
<1>4. moves => q.want \in ValidPetStatuses
  BY DEF ShouldTransition, ValidPetStatuses
<1> HIDE DEF moves
<1>5. /\ moves => Moved(eps[p], pets[p].cur, q.old, q.want, ep.eps, ep.cur)
      /\ ~moves => ep.eps = eps[p] /\ ep.cur = pets[p].cur
  BY <1>1, <1>3, <1>4, TransitionMoves
<1>6. ep.cur \in EpIds \cup {0}
  BY <1>3, <1>5 DEF Moved, Live
<1> HIDE DEF ep
<1>7. /\ row \in PetRow /\ row.cur = ep.cur
      /\ row.status = IF moves THEN q.want ELSE pets[p].status
      /\ row.owner = pets[p].owner /\ row.reporter = pets[p].reporter
      /\ row.clock >= pets[p].clock /\ row.clock = Later(pets[p].clock, q.at)
  <2> DEFINE mid == [pets[p] EXCEPT !.status = IF moves THEN q.want ELSE @, !.cur = ep.cur]
  <2>1. /\ mid \in PetRow /\ mid.cur = ep.cur
        /\ mid.status = IF moves THEN q.want ELSE pets[p].status
        /\ mid.owner = pets[p].owner /\ mid.reporter = pets[p].reporter
        /\ mid.clock = pets[p].clock
    BY <1>3, <1>4, <1>6 DEF PetRow
  <2> HIDE DEF mid
  <2>2. row = TouchLastReported(mid, q.at)
    BY DEF mid
  <2> QED  BY <1>2, <2>1, <2>2, TouchAdvances
<1>8. rep.pet = p /\ rep.ep = FindCurrent(ep.eps) /\ rep.at = q.at
  OBVIOUS
<1> HIDE DEF row, rep
<1>9. eps'[p] = ep.eps /\ pets'[p] = row /\ OnlyPet(p) /\ reports'[i] = rep
  BY <1>1, <1>2 DEF TypeOK, OnlyPet
<1>10. \A j \in ReportIds \ {i} : reports'[j] = reports[j]
  BY <1>1 DEF TypeOK
<1> QED  BY <1>1, <1>2, <1>3, <1>5, <1>7, <1>8, <1>9, <1>10 DEF moves

\* Steps that write only the clock of a pet: closure reports and recomputation.
LEMMA ClockFacts ==
  ASSUME TypeOK, NEW r \in Requests, TouchClosure(r) \/ RecomputeLastReported(r),
         NEW p, p = req[r].pet
  PROVE  /\ p \in Pets /\ OnlyPet(p) /\ eps' = eps /\ reports' = reports
         /\ pets[p] = Nil => pets'[p] = Nil
         /\ pets[p] # Nil =>
              /\ pets[p] \in PetRow /\ pets'[p] \in PetRow
              /\ pets'[p].cur = pets[p].cur /\ pets'[p].status = pets[p].status
              /\ pets'[p].owner = pets[p].owner /\ pets'[p].reporter = pets[p].reporter
              /\ TouchClosure(r) => /\ pets'[p].clock >= pets[p].clock
                                    /\ pets'[p].clock = Later(pets[p].clock, req[r].at)
              /\ RecomputeLastReported(r) => pets'[p].clock = req[r].at
<1>1. req[r] \in Request /\ p \in Pets /\ (TouchClosure(r) => req[r].at \in Times)
  BY DEF TypeOK, TouchClosure, RecomputeLastReported, Formed
<1>2. pets[p] # Nil => pets[p] \in PetRow
  BY <1>1 DEF TypeOK
<1>3. CASE TouchClosure(r)
  <2>1. pets' = [pets EXCEPT ![p] = IF pets[p] = Nil THEN Nil
                                    ELSE TouchLastReported(pets[p], req[r].at)]
    BY <1>3 DEF TouchClosure
  <2>2. eps' = eps /\ reports' = reports /\ OnlyPet(p)
    BY <1>1, <1>3, <2>1 DEF TouchClosure, TypeOK, OnlyPet
  <2>3. pets'[p] = IF pets[p] = Nil THEN Nil ELSE TouchLastReported(pets[p], req[r].at)
    BY <1>1, <2>1 DEF TypeOK
  <2>4. ~RecomputeLastReported(r)
    BY <1>3 DEF TouchClosure, RecomputeLastReported
  <2> QED  BY <1>1, <1>2, <1>3, <2>2, <2>3, <2>4, TouchAdvances
<1>4. CASE RecomputeLastReported(r)
  <2>1. pets' = [pets EXCEPT ![p] = IF pets[p] = Nil THEN Nil
                                    ELSE [pets[p] EXCEPT !.clock = req[r].at]]
    BY <1>4 DEF RecomputeLastReported
  <2>2. eps' = eps /\ reports' = reports /\ OnlyPet(p)
    BY <1>1, <1>4, <2>1 DEF RecomputeLastReported, TypeOK, OnlyPet
  <2>3. pets'[p] = IF pets[p] = Nil THEN Nil ELSE [pets[p] EXCEPT !.clock = req[r].at]
    BY <1>1, <2>1 DEF TypeOK
  <2>4. req[r].at \in Times \cup {0}
    BY <1>1 DEF Request
  <2>5. ~TouchClosure(r)
    BY <1>4 DEF TouchClosure, RecomputeLastReported
  <2> QED  BY <1>1, <1>2, <2>2, <2>3, <2>4, <2>5 DEF PetRow
<1> QED  BY <1>3, <1>4

\* DeletePet takes the reports of the pet along; what was opened stays opened.
LEMMA DeleteFacts ==
  ASSUME TypeOK, NEW r \in Requests, CommitDelete(r), NEW p, p = req[r].pet
  PROVE  /\ p \in Pets /\ OnlyPet(p) /\ pets[p] # Nil /\ pets'[p] = Nil
         /\ \A k \in EpIds : eps'[p][k] = IF eps[p][k] = "none" THEN "none" ELSE "gone"
         /\ \A i \in ReportIds : reports'[i] = IF i \in ReportsOf(p) THEN Nil ELSE reports[i]
         /\ credits' = {c \in credits : c[1] # p}
         /\ deletions' = [deletions EXCEPT ![p] = @ + 1]
<1>1. p \in Pets
  BY DEF TypeOK, CommitDelete, Formed
<1> DEFINE e == [k \in EpIds |-> IF eps[p][k] = "none" THEN "none" ELSE "gone"]
<1>2. /\ pets' = [pets EXCEPT ![p] = Nil] /\ pets[p] # Nil
      /\ eps' = [eps EXCEPT ![p] = e]
      /\ reports' = [i \in ReportIds |-> IF i \in ReportsOf(p) THEN Nil ELSE reports[i]]
      /\ credits' = {c \in credits : c[1] # p}
      /\ deletions' = [deletions EXCEPT ![p] = @ + 1]
  BY DEF CommitDelete
<1>3. OnlyPet(p)
  BY <1>2 DEF TypeOK, OnlyPet
<1>4. eps'[p] = e
  BY <1>1, <1>2 DEF TypeOK
<1>5. \A k \in EpIds : e[k] = IF eps[p][k] = "none" THEN "none" ELSE "gone"
  OBVIOUS
<1> HIDE DEF e
<1> QED  BY <1>1, <1>2, <1>3, <1>4, <1>5 DEF TypeOK

\* CreatePet writes a row that refers to no episode.
LEMMA CreateFacts ==
  ASSUME TypeOK, NEW r \in Requests, NEW u \in Users, NEW p \in Pets,
         NEW st \in {"registered", "adoption"}, CreatePet(r, u, p, st)
  PROVE  /\ pets[p] = Nil /\ deletions[p] = 0 /\ OnlyPet(p) /\ eps' = eps /\ reports' = reports
         /\ pets'[p] \in PetRow /\ pets'[p].cur = 0 /\ pets'[p].status = st
<1>1. /\ pets' = [pets EXCEPT ![p] = NewPet(u, st)] /\ eps' = eps /\ reports' = reports
      /\ pets[p] = Nil /\ deletions[p] = 0
  BY DEF CreatePet
<1>2. NewPet(u, st) \in PetRow /\ NewPet(u, st).cur = 0 /\ NewPet(u, st).status = st
  BY NewPetType DEF InitialStatuses, NewPet
<1> QED  BY <1>1, <1>2 DEF TypeOK, OnlyPet

\* A request that arrives writes nothing, unless it creates a pet.
LEMMA ArriveQuiet ==
  ASSUME NEW r, Arrive(r)
  PROVE  \E u \in Users, p \in Pets :
           \/ \E st \in {"registered", "adoption"} : CreatePet(r, u, p, st)
           \/ \E i \in ReportIds, at \in Times : CreateStray(r, u, p, i, at)
           \/ UNCHANGED <<pets, eps, reports, credits, ledger, paid, deletions>>
<1> DEFINE Quiet == UNCHANGED <<pets, eps, reports, credits, ledger, paid, deletions>>
<1>1. ASSUME NEW u, NEW p, NEW w, NEW h, BeginUpdate(r, u, p, w, h)
      PROVE  Quiet
  BY <1>1 DEF BeginUpdate
<1>2. ASSUME NEW u, NEW p, NEW h, BeginFound(r, u, p, h)
      PROVE  Quiet
  BY <1>2 DEF BeginFound
<1>3. ASSUME NEW u, NEW p, NEW at, BeginPublish(r, u, p, at)
      PROVE  Quiet
  BY <1>3 DEF BeginPublish
<1>4. ASSUME NEW u, NEW p, NEW k, NEW at, NEW h, BeginReport(r, u, p, k, at, h)
      PROVE  Quiet
  BY <1>4 DEF BeginReport
<1>5. ASSUME NEW u, NEW p, BeginDelete(r, u, p)
      PROVE  Quiet
  BY <1>5 DEF BeginDelete
<1> QED  BY <1>1, <1>2, <1>3, <1>4, <1>5 DEF Arrive

\* The steps that change the rows, and those that leave pets, episodes and
\* reports alone.
Touches ==
  \/ \E r \in Requests, u \in Users, p \in Pets, st \in {"registered", "adoption"} :
       CreatePet(r, u, p, st)
  \/ \E r \in Requests, u \in Users, p \in Pets, i \in ReportIds, at \in Times :
       CreateStray(r, u, p, i, at)
  \/ \E r \in Requests : \/ CommitUpdate(r) \/ CommitFound(r) \/ CommitDelete(r)
                         \/ CommitModerate(r) \/ TouchClosure(r) \/ RecomputeLastReported(r)
  \/ \E r \in Requests, i \in ReportIds : CommitPublish(r, i) \/ CommitReport(r, i)
  \/ \E r \in Requests, i \in ReportIds, at \in Times : CreateClosure(r, i, at)

LEMMA StepTouches ==
  ASSUME [Next]_vars
  PROVE  Touches \/ UNCHANGED <<pets, eps, reports>>
<1>1. ASSUME NEW r \in Requests, Arrive(r)
      PROVE  Touches \/ UNCHANGED <<pets, eps, reports>>
  <2>1. PICK u \in Users, p \in Pets :
          \/ \E st \in {"registered", "adoption"} : CreatePet(r, u, p, st)
          \/ \E i \in ReportIds, at \in Times : CreateStray(r, u, p, i, at)
          \/ UNCHANGED <<pets, eps, reports>>
    BY <1>1, ArriveQuiet
  <2> QED  BY <2>1 DEF Touches
<1>2. ASSUME NEW r \in Requests, Proceed(r)
      PROVE  Touches \/ UNCHANGED <<pets, eps, reports>>
  BY <1>2 DEF Proceed, Touches, TxRead, LoadReport, Publish, RecordStat, RecomputeSnapshot
<1>3. ASSUME NEW r \in Requests, NEW i \in ReportIds, BeginModerate(r, i)
      PROVE  UNCHANGED <<pets, eps, reports>>
  BY <1>3 DEF BeginModerate
<1>4. ASSUME NEW r \in Requests, Abort(r) \/ BestEffortFails(r)
      PROVE  UNCHANGED <<pets, eps, reports>>
  BY <1>4 DEF Abort, BestEffortFails
<1>5. CASE Crash
  BY <1>5 DEF Crash
<1>6. CASE UNCHANGED vars
  BY <1>6 DEF vars
<1> QED  BY <1>1, <1>2, <1>3, <1>4, <1>5, <1>6 DEF Next

-----------------------------------------------------------------------------
(* References.  No transaction but DeletePet takes an episode away, and    *)
(* that one takes the rows that could name it along; a stale save would    *)
(* bring such a name back, were it not for the foreign key it meets.       *)

\* A step that takes no pet and no episode away, and whose new references
\* exist, keeps all references live.
LEMMA ReferencesKept ==
  ASSUME TypeOK, ReferencesLive, NEW p \in Pets, OnlyPet(p),
         Live(eps[p]) \subseteq Live(eps'[p]),
         pets[p] # Nil => pets'[p] # Nil,
         pets'[p] # Nil => pets'[p].cur = 0 \/ pets'[p].cur \in Live(eps'[p]),
         \A i \in ReportIds :
           \/ reports'[i] = reports[i] \/ reports'[i] = Nil
           \/ /\ reports'[i].pet = p /\ pets'[p] # Nil
              /\ reports'[i].ep = 0 \/ reports'[i].ep \in Live(eps'[p])
  PROVE  ReferencesLive'
<1>1. \A o \in Pets : pets[o] # Nil => pets'[o] # Nil
  BY DEF OnlyPet
<1>2. \A o \in Pets : Live(eps[o]) \subseteq Live(eps'[o])
  BY DEF OnlyPet
<1>3. ASSUME NEW o \in Pets, pets'[o] # Nil
      PROVE  pets'[o].cur = 0 \/ pets'[o].cur \in Live(eps'[o])
  BY <1>2, <1>3 DEF ReferencesLive, OnlyPet
<1>4. ASSUME NEW i \in ReportIds, reports'[i] # Nil
      PROVE  /\ pets'[reports'[i].pet] # Nil
             /\ reports'[i].ep = 0 \/ reports'[i].ep \in Live(eps'[reports'[i].pet])
  <2>1. CASE reports'[i] = reports[i]
    <3>1. reports[i].pet \in Pets
      BY <1>4, <2>1 DEF TypeOK, ReportRow
    <3> QED  BY <1>1, <1>2, <1>4, <2>1, <3>1 DEF ReferencesLive
  <2>2. CASE reports'[i] # reports[i]
    BY <1>4, <2>2
  <2> QED  BY <2>1, <2>2
<1> QED  BY <1>3, <1>4 DEF ReferencesLive, Live

LEMMA ReferencesStep ==
  ASSUME TypeOK, ReferencesLive, [Next]_vars
  PROVE  ReferencesLive'
<1>0. Nil \notin PetRow
  BY RowsAssumption
<1>1. ASSUME NEW r \in Requests, NEW u \in Users, NEW p \in Pets,
             NEW st \in {"registered", "adoption"}, CreatePet(r, u, p, st)
      PROVE  ReferencesLive'
  BY <1>0, <1>1, CreateFacts, ReferencesKept
<1>2. ASSUME NEW r \in Requests, NEW u \in Users, NEW p \in Pets, NEW i \in ReportIds,
             NEW at \in Times, CreateStray(r, u, p, i, at)
      PROVE  ReferencesLive'
  <2>1. OnlyPet(p) /\ Opening(p, i)
    BY <1>2, StrayFacts
  <2>2. /\ pets'[p] # Nil /\ pets'[p].cur \in Live(eps'[p]) /\ Live(eps[p]) \subseteq Live(eps'[p])
        /\ reports'[i].pet = p /\ reports'[i].ep \in Live(eps'[p])
        /\ \A j \in ReportIds \ {i} : reports'[j] = reports[j]
    BY <1>0, <2>1 DEF Opening
  <2> QED  BY <2>1, <2>2, ReferencesKept
<1>3. ASSUME NEW r \in Requests, CommitUpdate(r)
      PROVE  ReferencesLive'
  <2> DEFINE p == req[r].pet
  <2>1. /\ p \in Pets /\ pets'[p] # Nil /\ OnlyPet(p)
        /\ EpisodeExists(p, req[r].seen.cur)
        /\ Moved(eps[p], req[r].seen.cur, req[r].old, pets'[p].status, eps'[p], pets'[p].cur)
    BY <1>0, <1>3, UpdateFacts
  <2>2. reports' = reports
    BY <1>3 DEF CommitUpdate
  <2>3. Live(eps[p]) \subseteq Live(eps'[p])
    BY <2>1 DEF Moved
  <2>4. pets'[p].cur = 0 \/ pets'[p].cur \in Live(eps'[p])
    BY <2>1, <2>3 DEF Moved, EpisodeExists
  <2> HIDE DEF p
  <2> QED  BY <2>1, <2>2, <2>3, <2>4, ReferencesKept
<1>4. ASSUME NEW r \in Requests, CommitFound(r)
      PROVE  ReferencesLive'
  <2> DEFINE p == req[r].pet
  <2>1. /\ p \in Pets /\ OnlyPet(p) /\ (pets[p] = Nil => pets'[p] = Nil)
        /\ pets[p] # Nil => pets[p] \in PetRow /\ pets'[p] \in PetRow
                            /\ pets'[p] = [pets[p] EXCEPT !.status = "found"]
        /\ Moved(eps[p], CurrentEpisode(p), req[r].old, "found", eps'[p], CurrentEpisode(p))
    BY <1>4, FoundFacts
  <2>2. reports' = reports
    BY <1>4 DEF CommitFound
  <2>3. Live(eps[p]) \subseteq Live(eps'[p])
    BY <2>1 DEF Moved
  <2>4. pets[p] # Nil => pets'[p] # Nil /\ pets'[p].cur = pets[p].cur
    BY <1>0, <2>1 DEF PetRow
  <2>5. pets'[p] # Nil => pets'[p].cur = 0 \/ pets'[p].cur \in Live(eps'[p])
    BY <2>1, <2>3, <2>4 DEF ReferencesLive
  <2> HIDE DEF p
  <2> QED  BY <2>1, <2>2, <2>3, <2>4, <2>5, ReferencesKept
<1>5. ASSUME NEW r \in Requests, NEW i \in ReportIds, CommitPublish(r, i)
      PROVE  ReferencesLive'
  <2> DEFINE p == req[r].pet
  <2>1. p \in Pets /\ OnlyPet(p) /\ Opening(p, i)
    BY <1>5, PublishFacts
  <2>2. /\ pets'[p] # Nil /\ pets'[p].cur \in Live(eps'[p]) /\ Live(eps[p]) \subseteq Live(eps'[p])
        /\ reports'[i].pet = p /\ reports'[i].ep \in Live(eps'[p])
        /\ \A j \in ReportIds \ {i} : reports'[j] = reports[j]
    BY <1>0, <2>1 DEF Opening
  <2> HIDE DEF p
  <2> QED  BY <2>1, <2>2, ReferencesKept
<1>6. ASSUME NEW r \in Requests, NEW i \in ReportIds, CommitReport(r, i)
      PROVE  ReferencesLive'
  <2> DEFINE p == req[r].pet
  <2>1. /\ p \in Pets /\ OnlyPet(p) /\ pets[p] # Nil /\ pets'[p] # Nil
        /\ ShouldTransition(req[r]) =>
             Moved(eps[p], pets[p].cur, req[r].old, req[r].want, eps'[p], pets'[p].cur)
        /\ ~ShouldTransition(req[r]) => eps'[p] = eps[p] /\ pets'[p].cur = pets[p].cur
        /\ reports'[i].pet = p /\ reports'[i].ep = FindCurrent(eps'[p])
        /\ \A j \in ReportIds \ {i} : reports'[j] = reports[j]
    BY <1>0, <1>6, ReportFacts
  <2>2. Live(eps[p]) \subseteq Live(eps'[p])
    BY <2>1 DEF Moved
  <2>3. pets'[p].cur = 0 \/ pets'[p].cur \in Live(eps'[p])
    BY <2>1, <2>2 DEF Moved, ReferencesLive
  <2>4. FindCurrent(eps'[p]) \in Live(eps'[p]) \cup {0}
    <3> DEFINE e == eps'[p]
    <3> HIDE DEF e
    <3>1. FindCurrent(e) \in Live(e) \cup {0}
      BY FindCurrentType
    <3> QED  BY <3>1 DEF e
  <2> HIDE DEF p
  <2> QED  BY <2>1, <2>2, <2>3, <2>4, ReferencesKept
<1>7. ASSUME NEW r \in Requests, CommitDelete(r)
      PROVE  ReferencesLive'
  <2> DEFINE p == req[r].pet
  <2>1. /\ p \in Pets /\ OnlyPet(p) /\ pets'[p] = Nil
        /\ \A i \in ReportIds : reports'[i] = IF i \in ReportsOf(p) THEN Nil ELSE reports[i]
    BY <1>7, DeleteFacts
  <2> HIDE DEF p
  <2>2. ASSUME NEW i \in ReportIds, reports'[i] # Nil
        PROVE  reports'[i] = reports[i] /\ reports[i].pet \in Pets \ {p}
    BY <2>1, <2>2 DEF ReportsOf, TypeOK, ReportRow
  <2>3. \A o \in Pets \ {p} : pets'[o] = pets[o] /\ Live(eps'[o]) = Live(eps[o])
    BY <2>1 DEF OnlyPet
  <2> QED  BY <2>1, <2>2, <2>3 DEF ReferencesLive, Live
<1>8. ASSUME NEW r \in Requests, TouchClosure(r) \/ RecomputeLastReported(r)
      PROVE  ReferencesLive'
  <2> DEFINE p == req[r].pet
  <2>1. /\ p \in Pets /\ OnlyPet(p) /\ eps' = eps /\ reports' = reports
        /\ pets[p] = Nil => pets'[p] = Nil
        /\ pets[p] # Nil => pets'[p] # Nil /\ pets'[p].cur = pets[p].cur
    BY <1>0, <1>8, ClockFacts
  <2>2. pets'[p] # Nil => pets'[p].cur = 0 \/ pets'[p].cur \in Live(eps'[p])
    BY <2>1 DEF ReferencesLive
  <2> HIDE DEF p
  <2> QED  BY <2>1, <2>2, ReferencesKept
<1>9. ASSUME NEW r \in Requests, CommitModerate(r)
      PROVE  ReferencesLive'
  <2>1. /\ pets' = pets /\ eps' = eps
        /\ \A i \in ReportIds : reports'[i] = reports[i] \/ reports'[i] = Nil
    BY <1>9 DEF CommitModerate, TypeOK
  <2> QED  BY <2>1 DEF ReferencesLive
<1>10. ASSUME NEW r \in Requests, NEW i \in ReportIds, NEW at \in Times, CreateClosure(r, i, at)
       PROVE  ReferencesLive'
  <2> DEFINE p   == req[r].pet
             rep == [pet |-> p, reporter |-> req[r].actor, kind |-> "found",
                     ep |-> FindCurrent(eps[p]), at |-> at]
  <2>1. /\ p \in Pets /\ pets[p] # Nil /\ pets' = pets /\ eps' = eps
        /\ reports' = [reports EXCEPT ![i] = rep]
    BY <1>10 DEF CreateClosure, TypeOK, Formed
  <2>2. rep.pet = p /\ rep.ep \in Live(eps[p]) \cup {0}
    BY FindCurrentType
  <2> HIDE DEF p, rep
  <2>3. reports'[i] = rep /\ \A j \in ReportIds \ {i} : reports'[j] = reports[j]
    BY <2>1 DEF TypeOK
  <2> QED  BY <2>1, <2>2, <2>3 DEF ReferencesLive
<1>11. CASE UNCHANGED <<pets, eps, reports>>
  BY <1>11 DEF ReferencesLive
<1> QED  BY <1>1, <1>2, <1>3, <1>4, <1>5, <1>6, <1>7, <1>8, <1>9, <1>10, <1>11, StepTouches
         DEF Touches

\* A pet names an episode of its own that exists and a report a pet and an
\* episode that exist, whatever a save that was read earlier writes back and
\* whenever a pet is deleted under a request.
THEOREM ReferencesStayLive == Spec => []ReferencesLive
<1>1. Init => ReferencesLive
  BY DEF Init, ReferencesLive
<1> QED  BY <1>1, ReferencesStep, TypeCorrect, PTL DEF Spec

-----------------------------------------------------------------------------
(* Credit never goes to a manager.  FindCandidates leaves out the owner    *)
(* and the reporter of the row it sees; the row may be written back later  *)
(* from what another request read, so all that is read of a pet has to     *)
(* name the same owner and reporter: ManagersAgree.                        *)

SameManager(a, b) == a.owner = b.owner /\ a.reporter = b.reporter

Updating(q) == q.pc = "commit" /\ q.op = "update"

\* What the updates in flight read of a pet agrees with its row and with each
\* other; once the row is gone, it was deleted, so its id is not given again.
ManagersAgree ==
  \A r \in Requests : Updating(req[r]) =>
    LET p == req[r].pet IN
    /\ pets[p] = Nil => deletions[p] > 0
    /\ pets[p] # Nil => SameManager(req[r].seen, pets[p])
    /\ \A s \in Requests : Updating(req[s]) /\ req[s].pet = p =>
         SameManager(req[r].seen, req[s].seen)

\* What a step can do to the row of o: leave it absent, keep its manager,
\* delete it, insert it anew or write back what an update read.
RowFate(o) ==
  \/ pets[o] = Nil /\ pets'[o] = Nil /\ deletions'[o] = deletions[o]
  \/ /\ pets[o] # Nil /\ pets'[o] # Nil /\ SameManager(pets[o], pets'[o])
     /\ deletions'[o] = deletions[o]
  \/ /\ pets[o] # Nil /\ pets'[o] = Nil /\ deletions'[o] > 0
     /\ \A c \in credits' : c[1] # o
  \/ pets[o] = Nil /\ deletions[o] = 0 /\ deletions'[o] = 0
  \/ \E r \in Requests :
       /\ Updating(req[r]) /\ req[r].pet = o
       /\ pets'[o] # Nil /\ SameManager(pets'[o], req[r].seen)
       /\ deletions'[o] = deletions[o]

LEMMA FateOfRow ==
  ASSUME TypeOK, [Next]_vars, NEW o \in Pets
  PROVE  RowFate(o)
<1>0. Nil \notin PetRow
  BY RowsAssumption
<1>1. ASSUME deletions' = deletions, pets'[o] = pets[o]
      PROVE  RowFate(o)
  BY <1>1 DEF RowFate, SameManager
<1>2. ASSUME NEW r \in Requests, NEW u \in Users, NEW p \in Pets,
             NEW st \in {"registered", "adoption"}, CreatePet(r, u, p, st)
      PROVE  RowFate(o)
  <2>1. OnlyPet(p) /\ pets[p] = Nil /\ deletions[p] = 0 /\ deletions' = deletions
    BY <1>2, CreateFacts DEF CreatePet
  <2> QED  BY <1>1, <2>1 DEF OnlyPet, RowFate
<1>3. ASSUME NEW r \in Requests, NEW u \in Users, NEW p \in Pets, NEW i \in ReportIds,
             NEW at \in Times, CreateStray(r, u, p, i, at)
      PROVE  RowFate(o)
  <2>1. OnlyPet(p) /\ pets[p] = Nil /\ deletions[p] = 0 /\ deletions' = deletions
    BY <1>3, StrayFacts DEF CreateStray
  <2> QED  BY <1>1, <2>1 DEF OnlyPet, RowFate
<1>4. ASSUME NEW r \in Requests, CommitUpdate(r)
      PROVE  RowFate(o)
  <2>1. OnlyPet(req[r].pet) /\ pets'[req[r].pet] # Nil
    BY <1>0, <1>4, UpdateFacts
  <2>2. SameManager(pets'[req[r].pet], req[r].seen)
    BY <1>4, UpdateFacts DEF SameManager
  <2>3. Updating(req[r]) /\ deletions' = deletions
    BY <1>4 DEF CommitUpdate, Updating
  <2> QED  BY <1>1, <2>1, <2>2, <2>3 DEF OnlyPet, RowFate
<1>5. ASSUME NEW r \in Requests, CommitFound(r)
      PROVE  RowFate(o)
  <2> DEFINE p == req[r].pet
  <2>1. /\ OnlyPet(p) /\ (pets[p] = Nil => pets'[p] = Nil)
        /\ pets[p] # Nil => pets[p] \in PetRow /\ pets'[p] \in PetRow
                            /\ pets'[p] = [pets[p] EXCEPT !.status = "found"]
    BY <1>5, FoundFacts
  <2>2. pets[p] # Nil => pets'[p] # Nil /\ SameManager(pets[p], pets'[p])
    BY <1>0, <2>1 DEF SameManager, PetRow
  <2>3. deletions' = deletions
    BY <1>5 DEF CommitFound
  <2> HIDE DEF p
  <2> QED  BY <1>1, <2>1, <2>2, <2>3 DEF OnlyPet, RowFate
<1>6. ASSUME NEW r \in Requests, NEW i \in ReportIds, CommitPublish(r, i)
      PROVE  RowFate(o)
  <2> DEFINE p == req[r].pet
  <2>1. OnlyPet(p) /\ pets[p] \in PetRow /\ Opening(p, i) /\ SameManager(pets[p], pets'[p])
    BY <1>6, PublishFacts DEF SameManager
  <2>2. pets[p] # Nil /\ pets'[p] # Nil
    BY <1>0, <2>1 DEF Opening
  <2>3. deletions' = deletions
    BY <1>6 DEF CommitPublish
  <2> HIDE DEF p
  <2> QED  BY <1>1, <2>1, <2>2, <2>3 DEF OnlyPet, RowFate
<1>7. ASSUME NEW r \in Requests, NEW i \in ReportIds, CommitReport(r, i)
      PROVE  RowFate(o)
  <2> DEFINE p == req[r].pet
  <2>1. /\ OnlyPet(p) /\ pets[p] \in PetRow /\ pets'[p] \in PetRow
        /\ SameManager(pets[p], pets'[p])
    BY <1>7, ReportFacts DEF SameManager
  <2>2. deletions' = deletions
    BY <1>7 DEF CommitReport
  <2> HIDE DEF p
  <2> QED  BY <1>0, <1>1, <2>1, <2>2 DEF OnlyPet, RowFate
<1>8. ASSUME NEW r \in Requests, CommitDelete(r)
      PROVE  RowFate(o)
  <2> DEFINE p == req[r].pet
  <2>1. /\ p \in Pets /\ OnlyPet(p) /\ pets[p] # Nil /\ pets'[p] = Nil
        /\ deletions' = [deletions EXCEPT ![p] = @ + 1]
        /\ \A c \in credits' : c[1] # p
    BY <1>8, DeleteFacts
  <2> HIDE DEF p
  <2>2. deletions'[o] = IF o = p THEN deletions[o] + 1 ELSE deletions[o]
    BY <2>1 DEF TypeOK
  <2>3. deletions[o] \in Nat
    BY DEF TypeOK
  <2>4. CASE o = p
    <3>1. deletions'[o] > 0
      BY <2>2, <2>3, <2>4
    <3> QED  BY <2>1, <2>4, <3>1 DEF RowFate
  <2>5. CASE o # p
    BY <2>1, <2>2, <2>5 DEF OnlyPet, RowFate, SameManager
  <2> QED  BY <2>4, <2>5
<1>9. ASSUME NEW r \in Requests, TouchClosure(r) \/ RecomputeLastReported(r)
      PROVE  RowFate(o)
  <2> DEFINE p == req[r].pet
  <2>1. /\ OnlyPet(p) /\ (pets[p] = Nil => pets'[p] = Nil)
        /\ pets[p] # Nil => pets'[p] # Nil /\ SameManager(pets[p], pets'[p])
    BY <1>0, <1>9, ClockFacts DEF SameManager
  <2>2. deletions' = deletions
    BY <1>9 DEF TouchClosure, RecomputeLastReported
  <2> HIDE DEF p
  <2> QED  BY <1>1, <2>1, <2>2 DEF OnlyPet, RowFate
<1>10. CASE UNCHANGED <<pets, deletions>>
  BY <1>1, <1>10
<1>11. ASSUME NEW r \in Requests, Arrive(r)
       PROVE  RowFate(o)
  <2>1. PICK u \in Users, p \in Pets :
          \/ \E st \in {"registered", "adoption"} : CreatePet(r, u, p, st)
          \/ \E i \in ReportIds, at \in Times : CreateStray(r, u, p, i, at)
          \/ UNCHANGED <<pets, deletions>>
    BY <1>11, ArriveQuiet
  <2> QED  BY <1>2, <1>3, <1>10, <2>1
<1>12. ASSUME NEW r \in Requests, Proceed(r)
       PROVE  RowFate(o)
  <2>1. ASSUME \/ \E i \in ReportIds, at \in Times : CreateClosure(r, i, at)
               \/ TxRead(r) \/ LoadReport(r) \/ CommitModerate(r) \/ Publish(r)
               \/ RecordStat(r) \/ RecomputeSnapshot(r)
        PROVE  UNCHANGED <<pets, deletions>>
    BY <2>1 DEF CreateClosure, TxRead, LoadReport, CommitModerate, Publish, RecordStat,
                RecomputeSnapshot
  <2> QED  BY <1>4, <1>5, <1>6, <1>7, <1>8, <1>9, <1>10, <1>12, <2>1 DEF Proceed
<1>13. ASSUME \/ \E r \in Requests, i \in ReportIds : BeginModerate(r, i)
              \/ \E r \in Requests : Abort(r) \/ BestEffortFails(r)
              \/ Crash \/ UNCHANGED vars
       PROVE  UNCHANGED <<pets, deletions>>
  BY <1>13 DEF BeginModerate, Abort, BestEffortFails, Crash, vars
<1> QED  BY <1>10, <1>11, <1>12, <1>13 DEF Next

\* The requests change one at a time, or all end at once.
LEMMA BecomeElse ==
  ASSUME TypeOK, NEW r \in Requests, NEW q, Become(r, q)
  PROVE  req'[r] = q /\ \A s \in Requests \ {r} : req'[s] = req[s]
BY DEF Become, TypeOK

\* An update that is about to commit was there before, or has just read the row.
LEMMA UpdatesRead ==
  ASSUME TypeOK, [Next]_vars, NEW s \in Requests, Updating(req'[s])
  PROVE  \/ req'[s] = req[s]
         \/ /\ req'[s].pet \in Pets /\ pets[req'[s].pet] # Nil
            /\ req'[s].seen = pets[req'[s].pet] /\ UNCHANGED <<pets, deletions>>
            /\ \A x \in Requests \ {s} : req'[x] = req[x]
<1> DEFINE Goal == \/ req'[s] = req[s]
                   \/ /\ req'[s].pet \in Pets /\ pets[req'[s].pet] # Nil
                      /\ req'[s].seen = pets[req'[s].pet] /\ UNCHANGED <<pets, deletions>>
                      /\ \A x \in Requests \ {s} : req'[x] = req[x]
<1>1. ASSUME NEW r \in Requests, NEW q, Become(r, q), ~Updating(q)
      PROVE  Goal
  BY <1>1, BecomeElse
<1>2. ASSUME UNCHANGED req
      PROVE  Goal
  BY <1>2
<1>3. ASSUME NEW r \in Requests, NEW u \in Users, NEW p \in Pets, NEW w, NEW h,
             BeginUpdate(r, u, p, w, h)
      PROVE  Goal
  <2> DEFINE q == [Idle EXCEPT !.pc = "commit", !.op = "update", !.actor = u, !.pet = p,
                     !.old = pets[p].status, !.seen = pets[p], !.want = w, !.helpers = h]
  <2>1. pets[p] # Nil /\ Become(r, q) /\ UNCHANGED <<pets, deletions>>
    BY <1>3 DEF BeginUpdate
  <2>2. q.pet = p /\ q.seen = pets[p]
    BY DEF Idle
  <2> HIDE DEF q
  <2>3. req'[r] = q /\ \A x \in Requests \ {r} : req'[x] = req[x]
    BY <2>1, BecomeElse
  <2> QED  BY <2>1, <2>2, <2>3
<1> HIDE DEF Goal
<1>4. ASSUME NEW r \in Requests, Arrive(r)
      PROVE  Goal
  <2>1. ASSUME NEW u \in Users, NEW p \in Pets, NEW st, CreatePet(r, u, p, st)
        PROVE  Goal
    BY <1>2, <2>1 DEF CreatePet
  <2>2. ASSUME NEW u \in Users, NEW p \in Pets, NEW i, NEW at, CreateStray(r, u, p, i, at)
        PROVE  Goal
    BY <1>1, <2>2 DEF CreateStray, Updating, Idle
  <2>3. ASSUME NEW u \in Users, NEW p \in Pets, NEW h, BeginFound(r, u, p, h)
        PROVE  Goal
    BY <1>1, <2>3 DEF BeginFound, Updating, Idle
  <2>4. ASSUME NEW u \in Users, NEW p \in Pets, NEW at, BeginPublish(r, u, p, at)
        PROVE  Goal
    BY <1>1, <2>4 DEF BeginPublish, Updating, Idle
  <2>5. ASSUME NEW u \in Users, NEW p \in Pets, NEW k, NEW at, NEW h,
               BeginReport(r, u, p, k, at, h)
        PROVE  Goal
    BY <1>1, <2>5 DEF BeginReport, Updating, Idle
  <2>6. ASSUME NEW u \in Users, NEW p \in Pets, BeginDelete(r, u, p)
        PROVE  Goal
    BY <1>1, <2>6 DEF BeginDelete, Updating, Idle
  <2> QED  BY <1>3, <1>4, <2>1, <2>2, <2>3, <2>4, <2>5, <2>6 DEF Arrive
<1>5. ASSUME NEW r \in Requests, NEW i \in ReportIds, BeginModerate(r, i)
      PROVE  Goal
  BY <1>1, <1>5 DEF BeginModerate, Updating, Idle
<1>6. ASSUME NEW r \in Requests, Proceed(r)
      PROVE  Goal
  <2>0. req[r] \in Request /\ Formed(req[r])
    BY DEF TypeOK
  <2>1. CASE CommitUpdate(r)
    BY <1>1, <2>1 DEF CommitUpdate, Done, Idle, Updating
  <2>2. CASE CommitFound(r)
    BY <1>1, <2>2 DEF CommitFound, Done, Idle, Updating
  <2>3. ASSUME NEW i \in ReportIds, CommitPublish(r, i) \/ CommitReport(r, i)
        PROVE  Goal
    BY <1>1, <2>3 DEF CommitPublish, CommitReport, Done, Idle, Updating
  <2>4. CASE TxRead(r)
    BY <1>1, <2>0, <2>4 DEF TxRead, Request, Formed, Updating
  <2>5. CASE LoadReport(r) \/ CommitDelete(r) \/ CommitModerate(r)
    BY <1>1, <2>0, <2>5 DEF LoadReport, CommitDelete, CommitModerate, Request, Idle, Updating
  <2>6. ASSUME NEW i \in ReportIds, NEW at \in Times, CreateClosure(r, i, at)
        PROVE  Goal
    BY <1>1, <2>0, <2>6 DEF CreateClosure, Request, Updating
  <2>7. CASE TouchClosure(r) \/ RecomputeSnapshot(r) \/ RecomputeLastReported(r)
    BY <1>1, <2>0, <2>7 DEF TouchClosure, RecomputeSnapshot, RecomputeLastReported, Request,
       Idle, Updating
  <2>8. CASE Publish(r) \/ RecordStat(r)
    BY <1>1, <2>0, <2>8 DEF Publish, RecordStat, Request, Idle, Updating
  <2> QED  BY <1>6, <2>1, <2>2, <2>3, <2>4, <2>5, <2>6, <2>7, <2>8 DEF Proceed
<1>7. ASSUME NEW r \in Requests, Abort(r) \/ BestEffortFails(r)
      PROVE  Goal
  <2>0. req[r] \in Request
    BY DEF TypeOK
  <2> QED  BY <1>1, <1>7, <2>0 DEF Abort, BestEffortFails, Request, Idle, Updating
<1>8. CASE Crash
  BY <1>8 DEF Crash, Idle, Updating
<1>9. CASE UNCHANGED vars
  BY <1>2, <1>9 DEF vars
<1> QED  BY <1>4, <1>5, <1>6, <1>7, <1>8, <1>9 DEF Next, Goal

LEMMA ManagersStep ==
  ASSUME TypeOK, ManagersAgree, [Next]_vars
  PROVE  ManagersAgree'
<1>1. \A s \in Requests : Updating(req[s]) => req[s].pet \in Pets
  BY DEF Updating, TypeOK, Formed
<1>2. CASE \E s \in Requests : Updating(req'[s]) /\ req'[s] # req[s]
  <2>1. PICK s \in Requests : Updating(req'[s]) /\ req'[s] # req[s]
    BY <1>2
  <2>2. /\ req'[s].pet \in Pets /\ pets[req'[s].pet] # Nil
        /\ req'[s].seen = pets[req'[s].pet] /\ UNCHANGED <<pets, deletions>>
        /\ \A x \in Requests \ {s} : req'[x] = req[x]
    BY <2>1, UpdatesRead
  <2> SUFFICES ASSUME NEW a \in Requests, Updating(req'[a]), NEW p, p = req'[a].pet
               PROVE  /\ pets[p] = Nil => deletions[p] > 0
                      /\ pets[p] # Nil => SameManager(req'[a].seen, pets[p])
                      /\ \A b \in Requests : Updating(req'[b]) /\ req'[b].pet = p =>
                           SameManager(req'[a].seen, req'[b].seen)
    BY <2>2 DEF ManagersAgree, Updating, SameManager
  <2>3. CASE a = s
    <3>1. ASSUME NEW b \in Requests \ {s}, Updating(req'[b]), req'[b].pet = p
          PROVE  SameManager(req'[a].seen, req'[b].seen)
      BY <2>2, <2>3, <3>1 DEF ManagersAgree, SameManager
    <3> QED  BY <2>2, <2>3, <3>1 DEF SameManager
  <2>4. CASE a # s
    <3>1. /\ pets[p] = Nil => deletions[p] > 0
          /\ pets[p] # Nil => SameManager(req'[a].seen, pets[p])
      BY <2>2, <2>4 DEF ManagersAgree
    <3>2. ASSUME NEW b \in Requests, Updating(req'[b]), req'[b].pet = p
          PROVE  SameManager(req'[a].seen, req'[b].seen)
      BY <2>2, <2>4, <3>1, <3>2 DEF ManagersAgree
    <3> QED  BY <3>1, <3>2
  <2> QED  BY <2>3, <2>4
<1>3. CASE \A s \in Requests : Updating(req'[s]) => req'[s] = req[s]
  <2> SUFFICES ASSUME NEW a \in Requests, Updating(req'[a]), NEW p, p = req'[a].pet
               PROVE  /\ pets'[p] = Nil => deletions'[p] > 0
                      /\ pets'[p] # Nil => SameManager(req'[a].seen, pets'[p])
                      /\ \A b \in Requests : Updating(req'[b]) /\ req'[b].pet = p =>
                           SameManager(req'[a].seen, req'[b].seen)
    BY DEF ManagersAgree, Updating, SameManager
  <2>1. req'[a] = req[a] /\ p \in Pets
    BY <1>1, <1>3
  <2>2. /\ pets[p] = Nil => deletions[p] > 0
        /\ pets[p] # Nil => SameManager(req[a].seen, pets[p])
        /\ \A b \in Requests : Updating(req[b]) /\ req[b].pet = p =>
             SameManager(req[a].seen, req[b].seen)
    BY <2>1 DEF ManagersAgree
  <2>3. RowFate(p)
    BY <2>1, FateOfRow
  <2>4. pets'[p] = Nil => deletions'[p] > 0
    BY <2>2, <2>3 DEF RowFate
  <2>5. pets'[p] # Nil => SameManager(req[a].seen, pets'[p])
    BY <2>2, <2>3 DEF RowFate, SameManager
  <2>6. \A b \in Requests : Updating(req'[b]) /\ req'[b].pet = p =>
          SameManager(req'[a].seen, req'[b].seen)
    BY <1>3, <2>1, <2>2
  <2> QED  BY <2>1, <2>4, <2>5, <2>6
<1> QED  BY <1>2, <1>3

\* Who a closing credits: helpers that FindCandidates offers, for the row it sees.
LEMMA CandidatesOnly ==
  ASSUME NEW p, NEW e, NEW helpers, HelpersAccepted(p, e, helpers)
  PROVE  \A u \in Chosen(helpers) : pets[p] # Nil /\ u \notin {pets[p].owner, pets[p].reporter}
<1>1. Chosen(helpers) \subseteq Candidates(p, e)
  BY DEF HelpersAccepted, Chosen
<1> QED  BY <1>1 DEF Candidates, FindCandidates

\* A step that credits only accepted helpers of p.
Crediting(p, helpers) ==
  /\ \E e : HelpersAccepted(p, e, helpers)
  /\ credits' = credits \cup ({p} \X Chosen(helpers))

LEMMA CreditsStep ==
  ASSUME TypeOK, [Next]_vars
  PROVE  \/ credits' \subseteq credits
         \/ \E p \in Pets : \E helpers : Crediting(p, helpers)
<1>1. ASSUME NEW r \in Requests, CommitUpdate(r)
      PROVE  credits' = credits \/ Crediting(req[r].pet, req[r].helpers)
  <2> DEFINE row == Save(req[r].pet, Edited(req[r]))
             e   == IF row.status # req[r].old
                    THEN HandleTransition(eps[req[r].pet], row.cur, req[r].old, row.status)
                    ELSE [eps |-> eps[req[r].pet], cur |-> row.cur]
  <2>1. \/ credits' = credits
        \/ /\ HelpersAccepted(req[r].pet, e.eps, req[r].helpers)
           /\ credits' = credits \cup ({req[r].pet} \X Chosen(req[r].helpers))
    BY <1>1 DEF CommitUpdate
  <2> HIDE DEF e
  <2> QED  BY <2>1 DEF Crediting
<1>2. ASSUME NEW r \in Requests, CommitFound(r)
      PROVE  Crediting(req[r].pet, req[r].helpers)
  <2> DEFINE e == HandleTransition(eps[req[r].pet], CurrentEpisode(req[r].pet), req[r].old, "found")
  <2>1. /\ HelpersAccepted(req[r].pet, e.eps, req[r].helpers)
        /\ credits' = credits \cup ({req[r].pet} \X Chosen(req[r].helpers))
    BY <1>2 DEF CommitFound
  <2> HIDE DEF e
  <2> QED  BY <2>1 DEF Crediting
<1>3. ASSUME NEW r \in Requests, NEW i \in ReportIds, CommitReport(r, i)
      PROVE  credits' = credits \/ Crediting(req[r].pet, req[r].helpers)
  <2> DEFINE e == IF ShouldTransition(req[r])
                  THEN HandleTransition(eps[req[r].pet], pets[req[r].pet].cur, req[r].old, req[r].want)
                  ELSE [eps |-> eps[req[r].pet], cur |-> pets[req[r].pet].cur]
  <2>1. \/ credits' = credits
        \/ /\ HelpersAccepted(req[r].pet, e.eps, req[r].helpers)
           /\ credits' = credits \cup ({req[r].pet} \X Chosen(req[r].helpers))
    BY <1>3 DEF CommitReport
  <2> HIDE DEF e
  <2> QED  BY <2>1 DEF Crediting
<1>4. ASSUME NEW r \in Requests, CommitDelete(r)
      PROVE  credits' \subseteq credits
  BY <1>4 DEF CommitDelete
<1>5. ASSUME NEW r \in Requests, Arrive(r)
      PROVE  credits' = credits
  <2>1. PICK u \in Users, p \in Pets :
          \/ \E st \in {"registered", "adoption"} : CreatePet(r, u, p, st)
          \/ \E i \in ReportIds, at \in Times : CreateStray(r, u, p, i, at)
          \/ credits' = credits
    BY <1>5, ArriveQuiet
  <2> QED  BY <2>1 DEF CreatePet, CreateStray
<1>6. ASSUME NEW r \in Requests,
             \/ \E i \in ReportIds : CommitPublish(r, i) \/ BeginModerate(r, i)
             \/ \E i \in ReportIds, at \in Times : CreateClosure(r, i, at)
             \/ TxRead(r) \/ LoadReport(r) \/ CommitModerate(r) \/ Publish(r) \/ TouchClosure(r)
             \/ RecordStat(r) \/ RecomputeSnapshot(r) \/ RecomputeLastReported(r)
             \/ Abort(r) \/ BestEffortFails(r)
      PROVE  credits' = credits
  BY <1>6 DEF CommitPublish, BeginModerate, CreateClosure, TxRead, LoadReport, CommitModerate,
     Publish, TouchClosure, RecordStat, RecomputeSnapshot, RecomputeLastReported, Abort,
     BestEffortFails
<1>7. \A r \in Requests : req[r].pc = "commit" => req[r].pet \in Pets
  BY DEF TypeOK, Formed
<1>8. ASSUME NEW r \in Requests, Proceed(r)
      PROVE  \/ credits' \subseteq credits
             \/ \E p \in Pets : \E helpers : Crediting(p, helpers)
  <2>1. CASE CommitUpdate(r)
    BY <1>1, <1>7, <2>1 DEF CommitUpdate
  <2>2. CASE CommitFound(r)
    BY <1>2, <1>7, <2>2 DEF CommitFound
  <2>3. ASSUME NEW i \in ReportIds, CommitReport(r, i)
        PROVE  \/ credits' \subseteq credits
               \/ \E p \in Pets : \E helpers : Crediting(p, helpers)
    BY <1>3, <1>7, <2>3 DEF CommitReport
  <2> QED  BY <1>4, <1>6, <1>8, <2>1, <2>2, <2>3 DEF Proceed
<1>9. CASE Crash \/ UNCHANGED vars
  BY <1>9 DEF Crash, vars
<1> QED  BY <1>5, <1>6, <1>8, <1>9 DEF Next

LEMMA NoManagerStep ==
  ASSUME TypeOK, ManagersAgree, NoManagerCredited, [Next]_vars
  PROVE  NoManagerCredited'
<1> SUFFICES ASSUME NEW c \in credits'
             PROVE  pets'[c[1]] # Nil /\ c[2] \notin {pets'[c[1]].owner, pets'[c[1]].reporter}
  BY DEF NoManagerCredited
<1> DEFINE o == c[1]
<1>1. o \in Pets
  BY TypeStep DEF TypeOK
<1>2. pets[o] # Nil /\ c[2] \notin {pets[o].owner, pets[o].reporter}
  <2>1. CASE c \in credits
    BY <2>1 DEF NoManagerCredited
  <2>2. CASE c \notin credits
    <3>1. PICK p \in Pets : \E helpers : Crediting(p, helpers)
      BY <2>2, CreditsStep
    <3>2. PICK helpers : Crediting(p, helpers)
      BY <3>1
    <3>3. c \in {p} \X Chosen(helpers)
      BY <2>2, <3>2 DEF Crediting
    <3>4. \A u \in Chosen(helpers) : pets[p] # Nil /\ u \notin {pets[p].owner, pets[p].reporter}
      BY <3>2, CandidatesOnly DEF Crediting
    <3> QED  BY <3>3, <3>4
  <2> QED  BY <2>1, <2>2
<1> HIDE DEF o
<1>3. RowFate(o) /\ c[1] = o
  BY <1>1, FateOfRow DEF o
<1>4. pets'[o] # Nil /\ SameManager(pets[o], pets'[o])
  BY <1>2, <1>3 DEF RowFate, ManagersAgree, SameManager
<1> QED  BY <1>2, <1>3, <1>4 DEF SameManager

\* Neither the owner of a pet nor the reporter of a stray is ever credited with
\* helping to find it, not even when an edit that was read before the credit
\* writes the row back after it.
THEOREM NoManagerIsCredited == Spec => []NoManagerCredited
<1>1. Init => ManagersAgree /\ NoManagerCredited
  BY DEF Init, ManagersAgree, NoManagerCredited, Updating, Idle
<1>2. TypeOK /\ ManagersAgree /\ NoManagerCredited /\ [Next]_vars
        => ManagersAgree' /\ NoManagerCredited'
  BY ManagersStep, NoManagerStep
<1> QED  BY <1>1, <1>2, TypeCorrect, PTL DEF Spec

-----------------------------------------------------------------------------
(* The clock.  Every write of last_reported_at but the recomputation keeps *)
(* it or advances it, a save included, which leaves the column alone.      *)

LEMMA ClockStep ==
  ASSUME TypeOK, [Next]_vars, NEW o \in Pets, pets[o] # Nil, pets'[o] # Nil,
         pets'[o].clock < pets[o].clock
  PROVE  \E r \in Requests : req[r].pc = "recompute" /\ req'[r].pc = "idle" /\ req[r].pet = o
<1>0. Nil \notin PetRow
  BY RowsAssumption
<1> DEFINE Goal == \E r \in Requests :
                     req[r].pc = "recompute" /\ req'[r].pc = "idle" /\ req[r].pet = o
<1>c. pets[o].clock \in Nat
  <2>1. pets[o].clock \in Times \cup {0}
    BY DEF TypeOK, PetRow
  <2>2. \A t \in Times : t \in Nat
    BY TimesAssumption
  <2> QED  BY <2>1, <2>2
<1>1. ASSUME pets'[o] = pets[o]
      PROVE  Goal
  BY <1>c, <1>1
<1>2. ASSUME NEW p \in Pets, OnlyPet(p), pets[p] = Nil \/ pets'[p].clock >= pets[p].clock
      PROVE  Goal
  <2>1. CASE o = p
    <3>1. pets'[o].clock >= pets[o].clock
      BY <1>2, <2>1
    <3>2. pets'[o].clock \in Nat
      <4>1. TypeOK'
        BY TypeStep
      <4>2. pets'[o].clock \in Times \cup {0}
        BY <4>1 DEF TypeOK, PetRow
      <4>3. \A t \in Times : t \in Nat
        BY TimesAssumption
      <4> QED  BY <4>2, <4>3
    <3> QED  BY <1>c, <3>1, <3>2
  <2>2. CASE o # p
    BY <1>1, <1>2, <2>2 DEF OnlyPet
  <2> QED  BY <2>1, <2>2
<1> HIDE DEF Goal
<1>3. ASSUME NEW r \in Requests, NEW u \in Users, NEW p \in Pets,
             NEW st \in {"registered", "adoption"}, CreatePet(r, u, p, st)
      PROVE  Goal
  BY <1>2, <1>3, CreateFacts
<1>4. ASSUME NEW r \in Requests, NEW u \in Users, NEW p \in Pets, NEW i \in ReportIds,
             NEW at \in Times, CreateStray(r, u, p, i, at)
      PROVE  Goal
  BY <1>2, <1>4, StrayFacts
<1>5. ASSUME NEW r \in Requests, CommitUpdate(r)
      PROVE  Goal
  <2> DEFINE p == req[r].pet
  <2>1. /\ p \in Pets /\ OnlyPet(p)
        /\ pets'[p].clock = IF pets[p] = Nil THEN 0 ELSE pets[p].clock
    BY <1>5, UpdateFacts
  <2> HIDE DEF p
  <2> QED  BY <1>1, <1>c, <2>1 DEF OnlyPet, Goal
<1>6. ASSUME NEW r \in Requests, CommitFound(r)
      PROVE  Goal
  <2> DEFINE p == req[r].pet
  <2>1. /\ p \in Pets /\ OnlyPet(p)
        /\ pets[p] # Nil => pets[p] \in PetRow /\ pets'[p] = [pets[p] EXCEPT !.status = "found"]
    BY <1>6, FoundFacts
  <2>2. pets[p] # Nil => pets'[p].clock = pets[p].clock
    BY <2>1 DEF PetRow
  <2> HIDE DEF p
  <2> QED  BY <1>1, <1>c, <2>1, <2>2 DEF OnlyPet, Goal
<1>7. ASSUME NEW r \in Requests, NEW i \in ReportIds, CommitPublish(r, i)
      PROVE  Goal
  <2>1. /\ req[r].pet \in Pets /\ OnlyPet(req[r].pet)
        /\ pets'[req[r].pet].clock >= pets[req[r].pet].clock
    BY <1>7, PublishFacts
  <2> QED  BY <1>2, <2>1
<1>8. ASSUME NEW r \in Requests, NEW i \in ReportIds, CommitReport(r, i)
      PROVE  Goal
  <2>1. /\ req[r].pet \in Pets /\ OnlyPet(req[r].pet)
        /\ pets'[req[r].pet].clock >= pets[req[r].pet].clock
    BY <1>8, ReportFacts
  <2> QED  BY <1>2, <2>1
<1>9. ASSUME NEW r \in Requests, CommitDelete(r)
      PROVE  Goal
  <2>1. OnlyPet(req[r].pet) /\ pets'[req[r].pet] = Nil
    BY <1>9, DeleteFacts
  <2> QED  BY <1>1, <2>1 DEF OnlyPet
<1>10. ASSUME NEW r \in Requests, TouchClosure(r)
       PROVE  Goal
  <2>1. /\ req[r].pet \in Pets /\ OnlyPet(req[r].pet)
        /\ pets[req[r].pet] # Nil => pets'[req[r].pet].clock >= pets[req[r].pet].clock
    BY <1>10, ClockFacts
  <2> QED  BY <1>2, <2>1
<1>11. ASSUME NEW r \in Requests, RecomputeLastReported(r)
       PROVE  Goal
  <2>1. OnlyPet(req[r].pet)
    BY <1>11, ClockFacts
  <2>2. req[r].pc = "recompute" /\ req'[r].pc = "idle"
    BY <1>11, BecomeElse DEF RecomputeLastReported, Idle
  <2> QED  BY <1>1, <2>1, <2>2 DEF OnlyPet, Goal
<1>12. ASSUME UNCHANGED pets
       PROVE  Goal
  BY <1>1, <1>12
<1>13. ASSUME \/ \E r \in Requests : CommitModerate(r)
              \/ \E r \in Requests, i \in ReportIds, at \in Times : CreateClosure(r, i, at)
       PROVE  UNCHANGED pets
  BY <1>13 DEF CommitModerate, CreateClosure
<1> QED  BY <1>3, <1>4, <1>5, <1>6, <1>7, <1>8, <1>9, <1>10, <1>11, <1>12, <1>13, StepTouches
         DEF Touches, Goal

\* last_reported_at goes back only in the recomputation that follows the
\* deletion of a report, whatever saves, late closure reports and old sightings
\* are in flight.
THEOREM ClockRarelyFalls == Spec => ClockFallsOnlyOnRecompute
<1>1. TypeOK /\ [Next]_vars =>
        [\A p \in Pets :
           pets[p] # Nil /\ pets'[p] # Nil /\ pets'[p].clock < pets[p].clock =>
             \E r \in Requests : req[r].pc = "recompute" /\ req'[r].pc = "idle" /\ req[r].pet = p]_vars
  BY ClockStep
<1> QED  BY <1>1, TypeCorrect, PTL DEF Spec, ClockFallsOnlyOnRecompute

-----------------------------------------------------------------------------
(* The ledger.  A request that owes the ledger a row carries it through    *)
(* the best-effort steps, any of which may be the last one it takes; it    *)
(* owes one search_started for an episode its own transaction opened.      *)

Unrecorded(q) ==
  \/ q.pc \in {"closure", "touch", "load", "ledger"}
  \/ q.pc = "publish" /\ ~RecordsFirst(q.op)

OwesStart(q) == Unrecorded(q) /\ q.want # "found"

Starting(p) == {r \in Requests : req[r].pet = p /\ OwesStart(req[r])}

\* What a request will do follows from a check made when it read the pet.
Aimed(q) ==
  /\ Updating(q) => q.want = Nil \/ ValidateTransition(q.old, q.want)
  /\ q.pc = "commit" /\ q.op = "found" =>
       q.want = "found" /\ q.old # "found" /\ ValidateTransition(q.old, "found")
  /\ q.pc = "commit" /\ q.op \in {"found", "report"} => q.old \in ValidPetStatuses
  /\ q.pc \in {"closure", "touch"} => q.want = "found"

AllAimed == \A r \in Requests : Aimed(req[r])

StartsCounted ==
  \A p \in Pets : ledger[p].started + Cardinality(Starting(p)) <= Cardinality(Opened(p))

\* The status machine reaches lost from registered only, found from a search.
LEMMA IntoLost ==
  ASSUME NEW old \in ValidPetStatuses, ValidateTransition(old, "lost"), old # "lost"
  PROVE  Opens(old, "lost")
<1>1. \A st \in ValidPetStatuses : "lost" \in AllowedTransitions[st] => st = "registered"
  BY DEF ValidPetStatuses, AllowedTransitions
<1>2. old = "registered"
  BY <1>1 DEF ValidateTransition
<1> QED  BY <1>2 DEF Opens, IsActiveSearchStatus

LEMMA IntoFound ==
  ASSUME NEW old \in ValidPetStatuses, ValidateTransition(old, "found"), old # "found"
  PROVE  Closes(old, "found")
<1>1. \A st \in ValidPetStatuses : "found" \in AllowedTransitions[st] => st \in {"lost", "stray"}
  BY DEF ValidPetStatuses, AllowedTransitions
<1>2. old \in {"lost", "stray"}
  BY <1>1 DEF ValidateTransition
<1> QED  BY <1>2 DEF Closes, IsActiveSearchStatus

LEMMA AimedStep ==
  ASSUME TypeOK, AllAimed, [Next]_vars
  PROVE  AllAimed'
<1>1. ASSUME NEW r \in Requests, NEW q, Become(r, q), Aimed(q)
      PROVE  AllAimed'
  <2>1. \A s \in Requests : Aimed(req'[s])
    BY <1>1, BecomeElse DEF AllAimed
  <2> QED  BY <2>1 DEF AllAimed, Aimed, Updating
<1>2. ASSUME UNCHANGED req
      PROVE  AllAimed'
  BY <1>2 DEF AllAimed, Aimed, Updating
<1>3. Aimed(Idle)
  BY DEF Aimed, Updating, Idle
<1>4. ASSUME NEW r \in Requests, Arrive(r)
      PROVE  AllAimed'
  <2>1. ASSUME NEW u \in Users, NEW p \in Pets, NEW st, CreatePet(r, u, p, st)
        PROVE  AllAimed'
    BY <1>2, <2>1 DEF CreatePet
  <2>2. ASSUME NEW u \in Users, NEW p \in Pets, NEW i, NEW at, CreateStray(r, u, p, i, at)
        PROVE  AllAimed'
    BY <1>1, <2>2 DEF CreateStray, Aimed, Updating, Idle
  <2>3. ASSUME NEW u \in Users, NEW p \in Pets, NEW w, NEW h, BeginUpdate(r, u, p, w, h)
        PROVE  AllAimed'
    BY <1>1, <2>3 DEF BeginUpdate, Aimed, Updating, Idle
  <2>4. ASSUME NEW u \in Users, NEW p \in Pets, NEW h, BeginFound(r, u, p, h)
        PROVE  AllAimed'
    <3>1. pets[p].status \in ValidPetStatuses
      BY <2>4 DEF BeginFound, TypeOK, PetRow
    <3> QED  BY <1>1, <2>4, <3>1 DEF BeginFound, Aimed, Updating, Idle
  <2>5. ASSUME NEW u \in Users, NEW p \in Pets, NEW at, BeginPublish(r, u, p, at)
        PROVE  AllAimed'
    BY <1>1, <2>5 DEF BeginPublish, Aimed, Updating, Idle
  <2>6. ASSUME NEW u \in Users, NEW p \in Pets, NEW k, NEW at, NEW h,
               BeginReport(r, u, p, k, at, h)
        PROVE  AllAimed'
    BY <1>1, <2>6 DEF BeginReport, Aimed, Updating, Idle
  <2>7. ASSUME NEW u \in Users, NEW p \in Pets, BeginDelete(r, u, p)
        PROVE  AllAimed'
    BY <1>1, <2>7 DEF BeginDelete, Aimed, Updating, Idle
  <2> QED  BY <1>4, <2>1, <2>2, <2>3, <2>4, <2>5, <2>6, <2>7 DEF Arrive
<1>5. ASSUME NEW r \in Requests, NEW i \in ReportIds, BeginModerate(r, i)
      PROVE  AllAimed'
  BY <1>1, <1>5 DEF BeginModerate, Aimed, Updating, Idle
<1>6. ASSUME NEW r \in Requests, Proceed(r)
      PROVE  AllAimed'
  <2>0. req[r] \in Request /\ Formed(req[r]) /\ Aimed(req[r])
    BY DEF TypeOK, AllAimed
  <2>1. CASE CommitUpdate(r)
    BY <1>1, <2>1 DEF CommitUpdate, Done, Idle, Aimed, Updating
  <2>2. CASE CommitFound(r)
    BY <1>1, <2>0, <2>2 DEF CommitFound, Done, Idle, Aimed, Updating
  <2>3. ASSUME NEW i \in ReportIds, CommitPublish(r, i) \/ CommitReport(r, i)
        PROVE  AllAimed'
    BY <1>1, <2>3 DEF CommitPublish, CommitReport, Done, Idle, Aimed, Updating
  <2>4. CASE TxRead(r)
    <3>1. pets[req[r].pet].status \in ValidPetStatuses
      BY <2>0, <2>4 DEF TxRead, Formed, TypeOK, PetRow
    <3>2. req[r].op = "report"
      BY <2>0, <2>4 DEF TxRead, Formed
    <3> QED  BY <1>1, <2>0, <2>4, <3>1, <3>2 DEF TxRead, Request, Aimed, Updating
  <2>5. CASE LoadReport(r) \/ CommitDelete(r) \/ CommitModerate(r)
    BY <1>1, <1>3, <2>0, <2>5 DEF LoadReport, CommitDelete, CommitModerate, Request, Aimed, Updating
  <2>6. ASSUME NEW i \in ReportIds, NEW at \in Times, CreateClosure(r, i, at)
        PROVE  AllAimed'
    BY <1>1, <2>0, <2>6 DEF CreateClosure, Request, Aimed, Updating
  <2>7. CASE TouchClosure(r) \/ RecomputeSnapshot(r) \/ RecomputeLastReported(r)
    BY <1>1, <1>3, <2>0, <2>7 DEF TouchClosure, RecomputeSnapshot, RecomputeLastReported, Request,
       Aimed, Updating
  <2>8. CASE Publish(r) \/ RecordStat(r)
    BY <1>1, <1>3, <2>0, <2>8 DEF Publish, RecordStat, Request, Aimed, Updating
  <2> QED  BY <1>6, <2>1, <2>2, <2>3, <2>4, <2>5, <2>6, <2>7, <2>8 DEF Proceed
<1>7. ASSUME NEW r \in Requests, Abort(r) \/ BestEffortFails(r)
      PROVE  AllAimed'
  <2>0. req[r] \in Request
    BY DEF TypeOK
  <2> QED  BY <1>1, <1>3, <1>7, <2>0 DEF Abort, BestEffortFails, Request, Aimed, Updating
<1>8. CASE Crash
  <2>1. \A s \in Requests : Aimed(req'[s])
    BY <1>3, <1>8 DEF Crash
  <2> QED  BY <2>1 DEF AllAimed, Aimed, Updating
<1>9. CASE UNCHANGED vars
  BY <1>2, <1>9 DEF vars
<1> QED  BY <1>4, <1>5, <1>6, <1>7, <1>8, <1>9 DEF Next

\* A step adds to the ledger what a request owed, or opens an episode for what
\* a request owes from then on, or does neither.
StartsFate(p) ==
  \/ /\ ledger'[p].started = ledger[p].started
     /\ Starting(p)' \subseteq Starting(p) /\ Opened(p) \subseteq Opened(p)'
  \/ /\ ledger'[p].started = ledger[p].started
     /\ \E r \in Requests : Starting(p)' \subseteq Starting(p) \cup {r}
     /\ \E k \in EpIds \ Opened(p) : Opened(p) \cup {k} \subseteq Opened(p)'
  \/ /\ ledger'[p].started = ledger[p].started + 1
     /\ \E r \in Starting(p) : Starting(p)' \subseteq Starting(p) \ {r}
     /\ Opened(p) \subseteq Opened(p)'

LEMMA StartingFinite ==
  ASSUME NEW p
  PROVE  IsFiniteSet(Starting(p)) /\ Cardinality(Starting(p)) \in Nat
<1>1. Starting(p) \in SUBSET Requests
  BY DEF Starting
<1> QED  BY <1>1, RequestsAssumption, FS_Subset, FS_CardinalityType

LEMMA OpenedFinite ==
  ASSUME NEW p
  PROVE  /\ IsFiniteSet(Opened(p)) /\ Cardinality(Opened(p)) \in Nat
         /\ IsFiniteSet(Opened(p)') /\ Cardinality(Opened(p)') \in Nat
<1>1. IsFiniteSet(EpIds)
  BY FS_Interval, BoundsAssumption DEF EpIds
<1>2. Opened(p) \in SUBSET EpIds /\ Opened(p)' \in SUBSET EpIds
  BY DEF Opened
<1> QED  BY <1>1, <1>2, FS_Subset, FS_CardinalityType

LEMMA StartsFateCounts ==
  ASSUME TypeOK, StartsCounted, NEW p \in Pets, StartsFate(p)
  PROVE  ledger'[p].started + Cardinality(Starting(p)') <= Cardinality(Opened(p)')
<1> DEFINE S  == Starting(p)
           S2 == Starting(p)'
           O  == Opened(p)
           O2 == Opened(p)'
<1>1. IsFiniteSet(S) /\ Cardinality(S) \in Nat
  BY StartingFinite
<1>2. /\ IsFiniteSet(O) /\ Cardinality(O) \in Nat
      /\ IsFiniteSet(O2) /\ Cardinality(O2) \in Nat
  BY OpenedFinite
<1>3. ledger[p].started \in Nat /\ ledger[p].started + Cardinality(S) <= Cardinality(O)
  BY DEF TypeOK, StartsCounted
<1>4. \/ ledger'[p].started = ledger[p].started /\ S2 \subseteq S /\ O \subseteq O2
      \/ /\ ledger'[p].started = ledger[p].started
         /\ \E r \in Requests : S2 \subseteq S \cup {r}
         /\ \E k \in EpIds \ O : O \cup {k} \subseteq O2
      \/ /\ ledger'[p].started = ledger[p].started + 1
         /\ \E r \in S : S2 \subseteq S \ {r}
         /\ O \subseteq O2
  BY DEF StartsFate
<1> HIDE DEF S, S2, O, O2
<1>5. CASE ledger'[p].started = ledger[p].started /\ S2 \subseteq S /\ O \subseteq O2
  <2>1. Cardinality(S2) \in Nat /\ Cardinality(S2) <= Cardinality(S)
    BY <1>1, <1>5, FS_Subset, FS_CardinalityType
  <2>2. Cardinality(O) <= Cardinality(O2)
    BY <1>2, <1>5, FS_Subset
  <2> QED  BY <1>1, <1>2, <1>3, <1>5, <2>1, <2>2 DEF S2, O2
<1>6. CASE /\ ledger'[p].started = ledger[p].started
           /\ \E r \in Requests : S2 \subseteq S \cup {r}
           /\ \E k \in EpIds \ O : O \cup {k} \subseteq O2
  <2>1. PICK r \in Requests : S2 \subseteq S \cup {r}
    BY <1>6
  <2>2. PICK k \in EpIds \ O : O \cup {k} \subseteq O2
    BY <1>6
  <2>3. /\ IsFiniteSet(S \cup {r}) /\ Cardinality(S \cup {r}) \in Nat
        /\ Cardinality(S \cup {r}) <= Cardinality(S) + 1
    <3>1. IsFiniteSet(S \cup {r}) /\ Cardinality(S \cup {r}) =
            IF r \in S THEN Cardinality(S) ELSE Cardinality(S) + 1
      BY <1>1, FS_AddElement
    <3> QED  BY <1>1, <3>1
  <2>4. Cardinality(S2) \in Nat /\ Cardinality(S2) <= Cardinality(S \cup {r})
    BY <2>1, <2>3, FS_Subset, FS_CardinalityType
  <2>5. Cardinality(O \cup {k}) = Cardinality(O) + 1
    BY <1>2, <2>2, FS_AddElement
  <2>6. Cardinality(O \cup {k}) <= Cardinality(O2)
    BY <1>2, <2>2, FS_Subset
  <2> QED  BY <1>1, <1>2, <1>3, <1>6, <2>3, <2>4, <2>5, <2>6 DEF S2, O2
<1>7. CASE /\ ledger'[p].started = ledger[p].started + 1
           /\ \E r \in S : S2 \subseteq S \ {r}
           /\ O \subseteq O2
  <2>1. PICK r \in S : S2 \subseteq S \ {r}
    BY <1>7
  <2>2. IsFiniteSet(S \ {r}) /\ Cardinality(S \ {r}) = Cardinality(S) - 1
    BY <1>1, <2>1, FS_RemoveElement
  <2>3. Cardinality(S2) \in Nat /\ Cardinality(S2) <= Cardinality(S \ {r})
    BY <2>1, <2>2, FS_Subset, FS_CardinalityType
  <2>4. Cardinality(O) <= Cardinality(O2)
    BY <1>2, <1>7, FS_Subset
  <2> QED  BY <1>1, <1>2, <1>3, <1>7, <2>2, <2>3, <2>4 DEF S2, O2
<1> QED  BY <1>4, <1>5, <1>6, <1>7

\* A step that opens nothing new: its request owes a start only if it did.
LEMMA StartsKept ==
  ASSUME TypeOK, NEW r \in Requests, NEW q, Become(r, q), ledger' = ledger,
         OwesStart(q) => OwesStart(req[r]) /\ q.pet = req[r].pet,
         NEW p \in Pets, \A k \in EpIds : eps[p][k] # "none" => eps'[p][k] # "none"
  PROVE  StartsFate(p)
<1>1. req'[r] = q /\ \A s \in Requests \ {r} : req'[s] = req[s]
  BY BecomeElse
<1>2. Starting(p)' \subseteq Starting(p)
  BY <1>1 DEF Starting, OwesStart, Unrecorded
<1>3. Opened(p) \subseteq Opened(p)'
  BY DEF Opened
<1> QED  BY <1>2, <1>3 DEF StartsFate

\* A step that opens episode k of d and leaves its request owing the start.
LEMMA StartsOpened ==
  ASSUME TypeOK, NEW r \in Requests, NEW q, Become(r, q), ledger' = ledger,
         NEW d \in Pets, q.pet = d, OnlyPet(d),
         NEW k \in EpIds, eps[d][k] = "none", eps'[d][k] # "none",
         \A j \in EpIds : eps[d][j] # "none" => eps'[d][j] # "none",
         NEW p \in Pets
  PROVE  StartsFate(p)
<1>1. req'[r] = q /\ \A s \in Requests \ {r} : req'[s] = req[s]
  BY BecomeElse
<1>2. CASE p = d
  <2>1. Starting(p)' \subseteq Starting(p) \cup {r}
    BY <1>1 DEF Starting, OwesStart, Unrecorded
  <2>2. k \notin Opened(p) /\ Opened(p) \cup {k} \subseteq Opened(p)'
    BY <1>2 DEF Opened
  <2> QED  BY <2>1, <2>2 DEF StartsFate
<1>3. CASE p # d
  <2>1. Starting(p)' \subseteq Starting(p)
    BY <1>1, <1>3 DEF Starting, OwesStart, Unrecorded
  <2>2. Opened(p) \subseteq Opened(p)'
    BY <1>3 DEF Opened, OnlyPet
  <2> QED  BY <2>1, <2>2 DEF StartsFate
<1> QED  BY <1>2, <1>3

\* What a transition makes of the episodes opens the next one, or none.
LEMMA MovedOpens ==
  ASSUME NEW e, NEW cur, NEW old, NEW new, NEW e2 \in EpRow, NEW cur2,
         e \in EpRow, Moved(e, cur, old, new, e2, cur2), Opens(old, new)
  PROVE  \E k \in EpIds : e[k] = "none" /\ e2[k] # "none"
<1>1. Fresh(e) \in EpIds /\ e[Fresh(e)] = "none" /\ e2 = [e EXCEPT ![Fresh(e)] = "open"]
  BY DEF Moved, IsFresh
<1>2. e2[Fresh(e)] = "open"
  BY <1>1 DEF EpRow
<1> QED  BY <1>1, <1>2

LEMMA StartsStep ==
  ASSUME TypeOK, AllAimed, [Next]_vars, NEW p \in Pets
  PROVE  StartsFate(p)
<1>0. \A d \in Pets : eps[d] \in EpRow /\ eps'[d] \in EpRow
  BY TypeStep DEF TypeOK, EpRow
<1>k. ASSUME NEW d \in Pets, OnlyPet(d),
             \A k \in EpIds : eps[d][k] # "none" => eps'[d][k] # "none"
      PROVE  \A k \in EpIds : eps[p][k] # "none" => eps'[p][k] # "none"
  BY <1>k DEF OnlyPet
<1>1. ASSUME NEW r \in Requests, NEW u \in Users, NEW d \in Pets, NEW st, CreatePet(r, u, d, st)
      PROVE  StartsFate(p)
  BY <1>1 DEF CreatePet, StartsFate, Starting, Opened, OwesStart, Unrecorded
<1>2. ASSUME NEW r \in Requests, NEW u \in Users, NEW d \in Pets, NEW i \in ReportIds,
             NEW at \in Times, CreateStray(r, u, d, i, at)
      PROVE  StartsFate(p)
  <2> DEFINE q == [Idle EXCEPT !.pc = "ledger", !.op = "create", !.pet = d, !.want = "stray"]
  <2>1. Become(r, q) /\ ledger' = ledger
    BY <1>2 DEF CreateStray
  <2>2. q.pet = d
    BY DEF Idle
  <2>3. OnlyPet(d) /\ Opening(d, i)
    BY <1>2, StrayFacts
  <2>4. \E k \in EpIds : eps[d][k] = "none" /\ eps'[d][k] # "none"
    BY <1>0, <2>3 DEF Opening, IsFresh, EpRow
  <2>5. \A j \in EpIds : eps[d][j] # "none" => eps'[d][j] # "none"
    BY <2>3 DEF Opening
  <2> HIDE DEF q
  <2> QED  BY <2>1, <2>2, <2>3, <2>4, <2>5, StartsOpened
<1>3. ASSUME NEW r \in Requests, NEW i \in ReportIds, CommitPublish(r, i)
      PROVE  StartsFate(p)
  <2> DEFINE d == req[r].pet
  <2>1. Become(r, Done(req[r])) /\ ledger' = ledger
    BY <1>3 DEF CommitPublish
  <2>2. Done(req[r]).pet = d
    BY DEF Done, Idle
  <2>3. d \in Pets /\ OnlyPet(d) /\ Opening(d, i)
    BY <1>3, PublishFacts
  <2> HIDE DEF d
  <2>4. \E k \in EpIds : eps[d][k] = "none" /\ eps'[d][k] # "none"
    BY <1>0, <2>3 DEF Opening, IsFresh, EpRow
  <2>5. \A j \in EpIds : eps[d][j] # "none" => eps'[d][j] # "none"
    BY <2>3 DEF Opening
  <2> QED  BY <2>1, <2>2, <2>3, <2>4, <2>5, StartsOpened
<1>4. ASSUME NEW r \in Requests, CommitUpdate(r)
      PROVE  StartsFate(p)
  <2> DEFINE q == req[r]
             d == q.pet
  <2>1. /\ d \in Pets /\ OnlyPet(d) /\ q.old \in ValidPetStatuses
        /\ Moved(eps[d], q.seen.cur, q.old, pets'[d].status, eps'[d], pets'[d].cur)
        /\ pets'[d].status = IF q.want = Nil THEN q.old ELSE q.want
    <3>1. q.seen \in PetRow /\ q.old = q.seen.status
      BY <1>4, UpdateFacts
    <3>2. q.old \in ValidPetStatuses
      BY <3>1 DEF PetRow
    <3> QED  BY <1>4, <3>2, UpdateFacts
  <2>2. \A k \in EpIds : eps[d][k] # "none" => eps'[d][k] # "none"
    BY <2>1 DEF Moved
  <2>3. ledger' = ledger
    BY <1>4 DEF CommitUpdate
  <2>4. \E x : /\ Become(r, x)
               /\ OwesStart(x) => /\ x.pet = d /\ q.want = "lost" /\ q.old # "lost"
    <3> DEFINE st   == Save(d, Edited(q)).status
               gets == IF st # q.old /\ st = "found" THEN InsertCredits(d, q.helpers) ELSE {}
               x    == [Done(q) EXCEPT !.credited = gets]
    <3>1. Become(r, IF st # q.old /\ st \in {"lost", "found"} THEN x ELSE Idle)
      BY <1>4 DEF CommitUpdate
    <3>2. x.pet = d /\ x.want = q.want
      BY DEF Done, Idle
    <3>3. ~OwesStart(Idle)
      BY DEF OwesStart, Unrecorded, Idle
    <3>4. st = IF q.want = Nil THEN q.old ELSE q.want
      <4>1. q.seen \in PetRow /\ q.old = q.seen.status
        BY <1>4, UpdateFacts
      <4> HIDE DEF q, d
      <4> QED  BY <4>1 DEF Save, Edited, PetRow
    <3>5. x.want = "found" => ~OwesStart(x)
      BY DEF OwesStart
    <3> HIDE DEF x, st, q, d
    <3> QED  BY <3>1, <3>2, <3>3, <3>4, <3>5
  <2>5. PICK x : /\ Become(r, x)
                 /\ OwesStart(x) => /\ x.pet = d /\ q.want = "lost" /\ q.old # "lost"
    BY <2>4
  <2>6. CASE ~OwesStart(x)
    BY <1>k, <2>1, <2>2, <2>3, <2>5, <2>6, StartsKept
  <2>7. CASE OwesStart(x)
    <3>1. pets'[d].status = "lost"
      BY <2>1, <2>5, <2>7, RowsAssumption DEF ValidPetStatuses
    <3>2. ValidateTransition(q.old, "lost")
      BY <1>4, <2>5, <2>7, RowsAssumption DEF AllAimed, Aimed, CommitUpdate, Updating, ValidPetStatuses
    <3>3. Opens(q.old, "lost")
      BY <2>1, <2>5, <2>7, <3>2, IntoLost
    <3>4. \E k \in EpIds : eps[d][k] = "none" /\ eps'[d][k] # "none"
      <4> HIDE DEF d, q
      <4> QED  BY <1>0, <2>1, <3>1, <3>3, MovedOpens
    <3> HIDE DEF d, q
    <3> QED  BY <2>1, <2>2, <2>3, <2>5, <2>7, <3>4, StartsOpened
  <2> QED  BY <2>6, <2>7
<1>5. ASSUME NEW r \in Requests, NEW i \in ReportIds, CommitReport(r, i)
      PROVE  StartsFate(p)
  <2> DEFINE q == req[r]
             d == q.pet
  <2>1. /\ d \in Pets /\ OnlyPet(d) /\ q \in Request
        /\ ShouldTransition(q) => Moved(eps[d], pets[d].cur, q.old, q.want, eps'[d], pets'[d].cur)
        /\ ~ShouldTransition(q) => eps'[d] = eps[d]
    BY <1>5, ReportFacts
  <2>2. \A k \in EpIds : eps[d][k] # "none" => eps'[d][k] # "none"
    BY <2>1 DEF Moved
  <2>3. ledger' = ledger
    BY <1>5 DEF CommitReport
  <2>4. \E x : /\ Become(r, x)
               /\ OwesStart(x) => x.pet = d /\ q.want = "lost" /\ ShouldTransition(q)
    <3> DEFINE gets == IF ShouldTransition(q) /\ q.want = "found"
                       THEN InsertCredits(d, q.helpers) ELSE {}
               x    == [Done(q) EXCEPT !.pc = "load", !.rid = i, !.credited = gets]
    <3>1. Become(r, IF ShouldTransition(q) THEN x ELSE Idle)
      BY <1>5 DEF CommitReport
    <3>2. x.pet = d /\ x.want = q.want
      BY DEF Done, Idle
    <3>3. ~OwesStart(Idle)
      BY DEF OwesStart, Unrecorded, Idle
    <3>4. x.want = "found" => ~OwesStart(x)
      BY DEF OwesStart
    <3>5. ShouldTransition(q) => q.want \in {"lost", "found"}
      BY DEF ShouldTransition
    <3> HIDE DEF x, q, d
    <3> QED  BY <3>1, <3>2, <3>3, <3>4, <3>5
  <2>5. PICK x : /\ Become(r, x)
                 /\ OwesStart(x) => x.pet = d /\ q.want = "lost" /\ ShouldTransition(q)
    BY <2>4
  <2>6. CASE ~OwesStart(x)
    BY <1>k, <2>1, <2>2, <2>3, <2>5, <2>6, StartsKept
  <2>7. CASE OwesStart(x)
    <3>1. q.old \in ValidPetStatuses
      BY <1>5 DEF AllAimed, Aimed, CommitReport
    <3>2. ValidateTransition(q.old, "lost") /\ q.old # "lost"
      BY <2>5, <2>7 DEF ShouldTransition
    <3>3. Opens(q.old, "lost")
      BY <3>1, <3>2, IntoLost
    <3>4. \E k \in EpIds : eps[d][k] = "none" /\ eps'[d][k] # "none"
      <4> HIDE DEF d, q
      <4> QED  BY <1>0, <2>1, <2>5, <2>7, <3>3, MovedOpens
    <3> HIDE DEF d, q
    <3> QED  BY <2>1, <2>2, <2>3, <2>5, <2>7, <3>4, StartsOpened
  <2> QED  BY <2>6, <2>7
<1>6. ASSUME NEW r \in Requests, CommitFound(r)
      PROVE  StartsFate(p)
  <2> DEFINE d == req[r].pet
             x == [Done(req[r]) EXCEPT !.pc = "closure", !.actor = req[r].actor,
                                       !.credited = InsertCredits(d, req[r].helpers)]
  <2>1. Become(r, x) /\ ledger' = ledger
    BY <1>6 DEF CommitFound
  <2>2. x.want = req[r].want
    BY DEF Done, Idle
  <2>3. req[r].want = "found"
    BY <1>6 DEF AllAimed, Aimed, CommitFound
  <2>4. ~OwesStart(x)
    BY <2>2, <2>3 DEF OwesStart
  <2>5. /\ d \in Pets /\ OnlyPet(d)
        /\ Moved(eps[d], CurrentEpisode(d), req[r].old, "found", eps'[d], CurrentEpisode(d))
    BY <1>6, FoundFacts
  <2>6. \A k \in EpIds : eps[d][k] # "none" => eps'[d][k] # "none"
    BY <2>5 DEF Moved
  <2> HIDE DEF x, d
  <2> QED  BY <1>k, <2>1, <2>4, <2>5, <2>6, StartsKept
<1>7. ASSUME NEW r \in Requests, CommitDelete(r)
      PROVE  StartsFate(p)
  <2> DEFINE d == req[r].pet
  <2>1. Become(r, Idle) /\ ledger' = ledger
    BY <1>7 DEF CommitDelete
  <2>2. ~OwesStart(Idle)
    BY DEF OwesStart, Unrecorded, Idle
  <2>3. /\ d \in Pets /\ OnlyPet(d)
        /\ \A k \in EpIds : eps'[d][k] = IF eps[d][k] = "none" THEN "none" ELSE "gone"
    BY <1>7, DeleteFacts
  <2> HIDE DEF d
  <2> QED  BY <1>k, <2>1, <2>2, <2>3, StartsKept
<1>8. ASSUME NEW r \in Requests, RecordStat(r)
      PROVE  StartsFate(p)
  <2> DEFINE q == req[r]
             d == q.pet
             x == IF RecordsFirst(q.op) THEN [q EXCEPT !.pc = "publish"] ELSE Idle
  <2>1. /\ Become(r, x) /\ q.pc = "ledger" /\ UNCHANGED eps
        /\ ledger' = IF q.want = "found" THEN [ledger EXCEPT ![d].found = @ + 1]
                     ELSE [ledger EXCEPT ![d].started = @ + 1]
    BY <1>8 DEF RecordStat
  <2>2. q \in Request /\ d \in Pets
    BY <2>1 DEF TypeOK, Formed
  <2>3. ~OwesStart(x)
    BY <2>2 DEF OwesStart, Unrecorded, Idle, Request
  <2>4. Opened(p)' = Opened(p)
    BY <2>1 DEF Opened
  <2> HIDE DEF x
  <2>5. Starting(p)' = Starting(p) \ {r}
    <3>1. req'[r] = x /\ \A s \in Requests \ {r} : req'[s] = req[s]
      BY <2>1, BecomeElse
    <3> HIDE DEF q, d
    <3> QED  BY <2>3, <3>1 DEF Starting, OwesStart, Unrecorded
  <2>6. CASE d = p /\ q.want # "found"
    <3>1. r \in Starting(p)
      BY <2>1, <2>6 DEF Starting, OwesStart, Unrecorded
    <3>2. ledger'[p].started = ledger[p].started + 1
      <4> HIDE DEF q, d
      <4> QED  BY <2>1, <2>6 DEF TypeOK
    <3> QED  BY <2>4, <2>5, <3>1, <3>2 DEF StartsFate
  <2>7. CASE ~(d = p /\ q.want # "found")
    <3>1. ledger'[p].started = ledger[p].started
      <4> HIDE DEF q, d
      <4> QED  BY <2>1, <2>2, <2>7 DEF TypeOK
    <3> QED  BY <2>4, <2>5, <3>1 DEF StartsFate
  <2> QED  BY <2>6, <2>7
<1>n. ASSUME NEW r \in Requests, NEW q, Become(r, q), ledger' = ledger, eps' = eps,
             q.pc \notin {"closure", "touch", "load", "ledger", "publish"}
      PROVE  StartsFate(p)
  <2>1. ~OwesStart(q)
    BY <1>n DEF OwesStart, Unrecorded
  <2> QED  BY <1>n, <2>1, StartsKept
<1>9. ASSUME NEW r \in Requests,
             \/ \E i \in ReportIds : BeginModerate(r, i)
             \/ \E i \in ReportIds, at \in Times : CreateClosure(r, i, at)
             \/ TxRead(r) \/ LoadReport(r) \/ CommitModerate(r) \/ TouchClosure(r) \/ Publish(r)
             \/ RecomputeSnapshot(r) \/ RecomputeLastReported(r)
             \/ Abort(r) \/ BestEffortFails(r)
      PROVE  StartsFate(p)
  <2>0. req[r] \in Request /\ Aimed(req[r])
    BY DEF TypeOK, AllAimed
  <2>m. ASSUME NEW q, Become(r, q), ledger' = ledger, eps' = eps,
               OwesStart(q) => OwesStart(req[r]) /\ q.pet = req[r].pet
        PROVE  StartsFate(p)
    BY <2>m, StartsKept
  <2>1. ASSUME NEW i, BeginModerate(r, i)
        PROVE  StartsFate(p)
    BY <1>n, <2>1 DEF BeginModerate, Idle
  <2>2. ASSUME NEW i, NEW at, CreateClosure(r, i, at)
        PROVE  StartsFate(p)
    BY <2>0, <2>2, <2>m DEF CreateClosure, OwesStart, Unrecorded, Aimed, Request
  <2>3. CASE TxRead(r) \/ CommitModerate(r)
    BY <1>n, <2>0, <2>3 DEF TxRead, CommitModerate, Request
  <2>4. CASE LoadReport(r)
    BY <2>0, <2>4, <2>m DEF LoadReport, OwesStart, Unrecorded, Request
  <2>5. CASE TouchClosure(r)
    BY <2>0, <2>5, <2>m DEF TouchClosure, OwesStart, Unrecorded, Aimed, Request
  <2>6. CASE Publish(r)
    BY <2>0, <2>6, <2>m DEF Publish, OwesStart, Unrecorded, Idle, Request
  <2>7. CASE RecomputeSnapshot(r) \/ RecomputeLastReported(r) \/ Abort(r)
    BY <1>n, <2>0, <2>7 DEF RecomputeSnapshot, RecomputeLastReported, Abort, Idle, Request
  <2>8. CASE BestEffortFails(r)
    BY <2>0, <2>8, <2>m DEF BestEffortFails, OwesStart, Unrecorded, Aimed, Idle, Request
  <2> QED  BY <1>9, <2>1, <2>2, <2>3, <2>4, <2>5, <2>6, <2>7, <2>8
<1>10. ASSUME NEW r \in Requests, Arrive(r)
       PROVE  StartsFate(p)
  <2>1. ASSUME NEW u, NEW d, NEW w, NEW h, BeginUpdate(r, u, d, w, h)
        PROVE  StartsFate(p)
    BY <1>n, <2>1 DEF BeginUpdate, Idle
  <2>2. ASSUME NEW u, NEW d, NEW h, BeginFound(r, u, d, h)
        PROVE  StartsFate(p)
    BY <1>n, <2>2 DEF BeginFound, Idle
  <2>3. ASSUME NEW u, NEW d, NEW at, BeginPublish(r, u, d, at)
        PROVE  StartsFate(p)
    BY <1>n, <2>3 DEF BeginPublish, Idle
  <2>4. ASSUME NEW u, NEW d, NEW k, NEW at, NEW h, BeginReport(r, u, d, k, at, h)
        PROVE  StartsFate(p)
    BY <1>n, <2>4 DEF BeginReport, Idle
  <2>5. ASSUME NEW u, NEW d, BeginDelete(r, u, d)
        PROVE  StartsFate(p)
    BY <1>n, <2>5 DEF BeginDelete, Idle
  <2> QED  BY <1>1, <1>2, <1>10, <2>1, <2>2, <2>3, <2>4, <2>5 DEF Arrive
<1>11. ASSUME NEW r \in Requests, Proceed(r)
       PROVE  StartsFate(p)
  BY <1>3, <1>4, <1>5, <1>6, <1>7, <1>8, <1>9, <1>11 DEF Proceed
<1>12. CASE Crash
  BY <1>12 DEF Crash, StartsFate, Starting, Opened, OwesStart, Unrecorded, Idle
<1>13. CASE UNCHANGED vars
  BY <1>13 DEF vars, StartsFate, Starting, Opened, OwesStart, Unrecorded
<1> QED  BY <1>9, <1>10, <1>11, <1>12, <1>13 DEF Next

\* The ledger counts no search_started but for a search that was opened,
\* whichever requests run at the same time and wherever one of them stops.
THEOREM StartsAreSearches == Spec => []StartedWithinOpened
<1>1. Init => AllAimed /\ StartsCounted
  <2>1. Init => AllAimed
    BY DEF Init, AllAimed, Aimed, Updating, Idle
  <2>2. ASSUME Init, NEW p \in Pets
        PROVE  ledger[p].started = 0 /\ Starting(p) = {} /\ Cardinality(Opened(p)) \in Nat
    BY <2>2, OpenedFinite DEF Init, Starting, OwesStart, Unrecorded, Idle
  <2>3. Cardinality({}) = 0
    BY FS_EmptySet
  <2>4. Init => StartsCounted
    BY <2>2, <2>3 DEF StartsCounted
  <2> QED  BY <2>1, <2>4
<1>2. TypeOK /\ AllAimed /\ StartsCounted /\ [Next]_vars => AllAimed' /\ StartsCounted'
  <2> SUFFICES ASSUME TypeOK, AllAimed, StartsCounted, [Next]_vars
               PROVE  AllAimed' /\ StartsCounted'
    OBVIOUS
  <2>1. \A p \in Pets : ledger'[p].started + Cardinality(Starting(p)') <= Cardinality(Opened(p)')
    BY StartsStep, StartsFateCounts
  <2> QED  BY <2>1, AimedStep DEF StartsCounted
<1>3. TypeOK /\ StartsCounted => StartedWithinOpened
  <2> SUFFICES ASSUME TypeOK, StartsCounted, NEW p \in Pets
               PROVE  ledger[p].started <= Cardinality(Opened(p))
    BY DEF StartedWithinOpened
  <2>1. Cardinality(Starting(p)) \in Nat /\ Cardinality(Opened(p)) \in Nat
    BY StartingFinite, OpenedFinite
  <2>2. ledger[p].started \in Nat
    BY DEF TypeOK
  <2> QED  BY <2>1, <2>2 DEF StartsCounted
<1> QED  BY <1>1, <1>2, <1>3, TypeCorrect, PTL DEF Spec
=============================================================================
