--------------------------- MODULE PetSerialProofs ---------------------------
(***************************************************************************)
(* Theorems about PetLifecycle when the server takes one request at a time *)
(* (OneAtATime), which is what the services are written and tested for:    *)
(* the status of a pet and its search keep the contract of PetContract,    *)
(* the ledger counts reunions only, the clock is the newest sighting.      *)
(* Each of them fails as soon as two requests overlap.                     *)
(***************************************************************************)
EXTENDS PetLifecycleProofs

OneAtATime == \A r, s \in Requests : r = s

-----------------------------------------------------------------------------
(* A sound pet: its searches were opened in order, none is left without    *)
(* the pet, the current one is the last one, and it is open exactly while  *)
(* the status says that the pet is searched for.                           *)

Ordered(e) == \A k \in EpIds : e[k] # "none" => \A j \in 1 .. k - 1 : e[j] # "none"

Sound(row, e) ==
  /\ Ordered(e)
  /\ row = Nil => Live(e) = {}
  /\ row # Nil =>
       /\ row.cur = FindCurrent(e)
       /\ IsActiveSearchStatus(row.status) <=> row.cur # 0 /\ e[row.cur] = "open"

AllSound == \A p \in Pets : Sound(pets[p], eps[p])

\* FindCurrent is the greatest of the episodes that exist.
LEMMA FindCurrentIs ==
  ASSUME NEW e, NEW k \in Live(e), \A j \in Live(e) : j <= k
  PROVE  FindCurrent(e) = k
<1>1. Live(e) \subseteq Nat
  BY BoundsAssumption DEF Live, EpIds
<1>2. \E m \in Live(e) : \A j \in Live(e) : j <= m
  OBVIOUS
<1>3. FindCurrent(e) = CHOOSE m \in Live(e) : \A j \in Live(e) : j <= m
  BY DEF FindCurrent
<1>4. FindCurrent(e) \in Live(e) /\ \A j \in Live(e) : j <= FindCurrent(e)
  BY <1>2, <1>3
<1>5. FindCurrent(e) <= k /\ k <= FindCurrent(e) /\ FindCurrent(e) \in Nat /\ k \in Nat
  BY <1>1, <1>4
<1> QED  BY <1>5

\* Opening the next search of a pet makes a sound pet of a searched one.
LEMMA SoundOpened ==
  ASSUME NEW e \in EpRow, Ordered(e), NEW k \in EpIds, IsFresh(e, k),
         NEW e2, e2 = [e EXCEPT ![k] = "open"],
         NEW row, row # Nil, row.cur = k, IsActiveSearchStatus(row.status)
  PROVE  Sound(row, e2)
<1>1. \A j \in EpIds : e2[j] = IF j = k THEN "open" ELSE e[j]
  BY DEF EpRow
<1>2. k \in Nat /\ k # 0 /\ \A j \in EpIds : j \in Nat /\ (\A m \in 1 .. j - 1 : m \in EpIds)
  BY BoundsAssumption DEF EpIds
<1>3. e[k] = "none" /\ \A m \in 1 .. k - 1 : e[m] # "none"
  BY DEF IsFresh
<1>4. Ordered(e2)
  <2> SUFFICES ASSUME NEW j \in EpIds, e2[j] # "none", NEW m \in 1 .. j - 1
               PROVE  e2[m] # "none"
    BY DEF Ordered
  <2>1. CASE j = k
    BY <1>1, <1>2, <1>3, <2>1
  <2>2. CASE j # k
    <3>1. e[j] # "none"
      BY <1>1, <2>2
    <3>2. e[m] # "none" /\ m \in EpIds
      BY <1>2, <3>1 DEF Ordered
    <3> QED  BY <1>1, <3>2
  <2> QED  BY <2>1, <2>2
<1>5. k \in Live(e2)
  BY <1>1 DEF Live
<1>6. \A j \in Live(e2) : j <= k
  <2> SUFFICES ASSUME NEW j \in Live(e2), ~(j <= k)
               PROVE  FALSE
    OBVIOUS
  <2>1. j \in EpIds /\ e2[j] # "none" /\ j \in Nat /\ j > k
    BY <1>2 DEF Live
  <2>2. e[j] # "none" /\ k \in 1 .. j - 1
    <3>1. k \in 1 .. j - 1
      BY <1>2, <2>1
    <3>2. j # k
      BY <1>2, <2>1
    <3> QED  BY <1>1, <2>1, <3>1, <3>2
  <2>3. e[k] # "none"
    BY <2>1, <2>2 DEF Ordered
  <2> QED  BY <1>3, <2>3
<1>7. FindCurrent(e2) = k
  BY <1>5, <1>6, FindCurrentIs
<1>8. e2[k] = "open"
  BY <1>1
<1> QED  BY <1>2, <1>4, <1>7, <1>8 DEF Sound

\* A transition of the status a sound pet has makes a sound pet of it.
LEMMA SoundMoved ==
  ASSUME NEW e \in EpRow, NEW row, row # Nil, Sound(row, e), row.cur \in EpIds \cup {0},
         NEW e2, NEW row2, row2 # Nil, row2.status \in ValidPetStatuses,
         Moved(e, row.cur, row.status, row2.status, e2, row2.cur)
  PROVE  Sound(row2, e2)
<1> DEFINE old == row.status
           new == row2.status
           cur == row.cur
<1>1. CASE Opens(old, new)
  <2>1. /\ row2.cur = Fresh(e) /\ Fresh(e) \in EpIds /\ IsFresh(e, Fresh(e))
        /\ e2 = [e EXCEPT ![Fresh(e)] = "open"]
    BY <1>1 DEF Moved
  <2>2. Ordered(e) /\ IsActiveSearchStatus(row2.status)
    BY <1>1 DEF Sound, Opens
  <2> QED  BY <2>1, <2>2, SoundOpened
<1>2. CASE Closes(old, new)
  <2>1. row2.cur = cur /\ e2 = IF cur # 0 /\ e[cur] = "open" THEN [e EXCEPT ![cur] = new] ELSE e
    BY <1>2 DEF Moved
  <2>2. cur # 0 /\ e[cur] = "open" /\ cur \in EpIds
    BY <1>2 DEF Sound, Closes
  <2>3. \A k \in EpIds : e2[k] = IF k = cur THEN new ELSE e[k]
    BY <2>1, <2>2 DEF EpRow
  <2>4. new \notin {"none", "gone", "open"}
    BY DEF ValidPetStatuses
  <2>5. Live(e2) = Live(e)
    BY <2>2, <2>3, <2>4 DEF Live
  <2>6. Ordered(e2)
    <3> SUFFICES ASSUME NEW k \in EpIds, e2[k] # "none", NEW j \in 1 .. k - 1
                 PROVE  e2[j] # "none"
      BY DEF Ordered
    <3>1. e[k] # "none"
      BY <2>2, <2>3
    <3>2. e[j] # "none"
      BY <3>1 DEF Sound, Ordered
    <3>3. j \in EpIds
      BY BoundsAssumption DEF EpIds
    <3> QED  BY <2>3, <2>4, <3>2, <3>3
  <2>7. FindCurrent(e2) = FindCurrent(e)
    BY <2>5 DEF FindCurrent
  <2>8. ~IsActiveSearchStatus(new) /\ e2[cur] # "open"
    BY <1>2, <2>2, <2>3, <2>4 DEF Closes
  <2> QED  BY <2>1, <2>6, <2>7, <2>8 DEF Sound
<1>3. CASE ~Opens(old, new) /\ ~Closes(old, new)
  <2>1. row2.cur = cur /\ e2 = e
    BY <1>3 DEF Moved
  <2>2. IsActiveSearchStatus(old) <=> IsActiveSearchStatus(new)
    BY <1>3 DEF Opens, Closes
  <2> QED  BY <2>1, <2>2 DEF Sound
<1> QED  BY <1>1, <1>2, <1>3

-----------------------------------------------------------------------------
(* One request at a time: what it read is what is there when it commits.   *)

FreshRead(q) ==
  q.pc = "commit" =>
    /\ q.op = "update" => pets[q.pet] # Nil /\ q.seen = pets[q.pet]
    /\ q.op \in {"found", "report"} => pets[q.pet] # Nil /\ q.old = pets[q.pet].status
    /\ q.op = "publish" => /\ pets[q.pet] # Nil /\ q.want = "lost"
                           /\ ValidateTransition(pets[q.pet].status, "lost")
    /\ q.op = "moderate" => reports[q.rid].pet = q.pet

AllFresh == \A r \in Requests : FreshRead(req[r])

LEMMA FreshStep ==
  ASSUME OneAtATime, TypeOK, AllFresh, [Next]_vars
  PROVE  AllFresh'
<1>1. ASSUME NEW r \in Requests, NEW q, Become(r, q), FreshRead(q)'
      PROVE  AllFresh'
  <2>1. req'[r] = q
    BY <1>1, BecomeElse
  <2>2. \A s \in Requests : s = r
    BY DEF OneAtATime
  <2> QED  BY <1>1, <2>1, <2>2 DEF AllFresh, FreshRead
<1>2. ASSUME NEW r \in Requests, NEW q, Become(r, q), q.pc # "commit"
      PROVE  AllFresh'
  BY <1>1, <1>2 DEF FreshRead
<1>3. ASSUME NEW r \in Requests, Arrive(r)
      PROVE  AllFresh'
  <2>0. \A s \in Requests : s = r
    BY DEF OneAtATime
  <2>1. ASSUME NEW u \in Users, NEW p \in Pets, NEW st, CreatePet(r, u, p, st)
        PROVE  AllFresh'
    BY <2>0, <2>1 DEF CreatePet, AllFresh, FreshRead
  <2>2. ASSUME NEW u \in Users, NEW p \in Pets, NEW i, NEW at, CreateStray(r, u, p, i, at)
        PROVE  AllFresh'
    BY <1>2, <2>2 DEF CreateStray, Idle
  <2>3. ASSUME NEW u \in Users, NEW p \in Pets, NEW w, NEW h, BeginUpdate(r, u, p, w, h)
        PROVE  AllFresh'
    BY <1>1, <2>3 DEF BeginUpdate, FreshRead, Idle
  <2>4. ASSUME NEW u \in Users, NEW p \in Pets, NEW h, BeginFound(r, u, p, h)
        PROVE  AllFresh'
    BY <1>1, <2>4 DEF BeginFound, FreshRead, Idle
  <2>5. ASSUME NEW u \in Users, NEW p \in Pets, NEW at, BeginPublish(r, u, p, at)
        PROVE  AllFresh'
    BY <1>1, <2>5 DEF BeginPublish, FreshRead, Idle
  <2>6. ASSUME NEW u \in Users, NEW p \in Pets, NEW k, NEW at, NEW h,
               BeginReport(r, u, p, k, at, h)
        PROVE  AllFresh'
    BY <1>2, <2>6 DEF BeginReport, Idle
  <2>7. ASSUME NEW u \in Users, NEW p \in Pets, BeginDelete(r, u, p)
        PROVE  AllFresh'
    BY <1>1, <2>7 DEF BeginDelete, FreshRead, Idle
  <2> QED  BY <1>3, <2>1, <2>2, <2>3, <2>4, <2>5, <2>6, <2>7 DEF Arrive
<1>4. ASSUME NEW r \in Requests, NEW i \in ReportIds, BeginModerate(r, i)
      PROVE  AllFresh'
  BY <1>1, <1>4 DEF BeginModerate, FreshRead, Idle
<1>5. ASSUME NEW r \in Requests, Proceed(r)
      PROVE  AllFresh'
  <2>0. req[r] \in Request /\ Formed(req[r])
    BY DEF TypeOK
  <2>1. CASE CommitUpdate(r)
    BY <1>2, <2>1 DEF CommitUpdate, Done, Idle
  <2>2. CASE CommitFound(r)
    BY <1>2, <2>2 DEF CommitFound, Done, Idle
  <2>3. ASSUME NEW i \in ReportIds, CommitPublish(r, i) \/ CommitReport(r, i)
        PROVE  AllFresh'
    BY <1>2, <2>3 DEF CommitPublish, CommitReport, Done, Idle
  <2>4. CASE TxRead(r)
    <3>1. req[r].op = "report"
      BY <2>0, <2>4 DEF TxRead, Formed
    <3> QED  BY <1>1, <2>0, <2>4, <3>1 DEF TxRead, Request, FreshRead
  <2>5. CASE LoadReport(r) \/ CommitDelete(r) \/ CommitModerate(r)
    BY <1>2, <2>0, <2>5 DEF LoadReport, CommitDelete, CommitModerate, Request, Idle
  <2>6. ASSUME NEW i \in ReportIds, NEW at \in Times, CreateClosure(r, i, at)
        PROVE  AllFresh'
    BY <1>2, <2>0, <2>6 DEF CreateClosure, Request
  <2>7. CASE TouchClosure(r) \/ RecomputeSnapshot(r) \/ RecomputeLastReported(r)
    BY <1>2, <2>0, <2>7 DEF TouchClosure, RecomputeSnapshot, RecomputeLastReported, Request, Idle
  <2>8. CASE Publish(r) \/ RecordStat(r)
    BY <1>2, <2>0, <2>8 DEF Publish, RecordStat, Request, Idle
  <2> QED  BY <1>5, <2>1, <2>2, <2>3, <2>4, <2>5, <2>6, <2>7, <2>8 DEF Proceed
<1>6. ASSUME NEW r \in Requests, Abort(r) \/ BestEffortFails(r)
      PROVE  AllFresh'
  <2>0. req[r] \in Request
    BY DEF TypeOK
  <2> QED  BY <1>2, <1>6, <2>0 DEF Abort, BestEffortFails, Request, Idle
<1>7. CASE Crash
  BY <1>7 DEF Crash, AllFresh, FreshRead, Idle
<1>8. CASE UNCHANGED vars
  BY <1>8 DEF vars, AllFresh, FreshRead
<1> QED  BY <1>3, <1>4, <1>5, <1>6, <1>7, <1>8 DEF Next

-----------------------------------------------------------------------------
(* The search of a pet follows its status.                                 *)

\* A step that writes only p, and keeps p sound, keeps every pet sound.
LEMMA SoundKept ==
  ASSUME AllSound, NEW p \in Pets, OnlyPet(p), Sound(pets'[p], eps'[p])
  PROVE  \A o \in Pets : Sound(pets'[o], eps'[o])
BY DEF AllSound, OnlyPet

\* What a transaction does to the status of p: nothing, or a step of the
\* contract.
StatusFate(p) ==
  \/ pets[p] = Nil /\ pets'[p] = Nil
  \/ pets[p] # Nil /\ pets'[p] # Nil /\ ValidateTransition(pets[p].status, pets'[p].status)
  \/ pets[p] = Nil /\ pets'[p] # Nil /\ pets'[p].status \in InitialStatuses
  \/ pets[p] # Nil /\ pets'[p] = Nil

\* Every step writes one pet, keeps it sound and takes it along the machine.
LEMMA SoundStep ==
  ASSUME OneAtATime, TypeOK, AllAimed, AllFresh, AllSound, [Next]_vars, NEW any \in Pets
  PROVE  \E p \in Pets : OnlyPet(p) /\ StatusFate(p) /\ Sound(pets'[p], eps'[p])
<1> DEFINE Goal == \E p \in Pets : OnlyPet(p) /\ StatusFate(p) /\ Sound(pets'[p], eps'[p])
<1>0. Nil \notin PetRow
  BY RowsAssumption
<1>e. \A p \in Pets : /\ eps[p] \in EpRow
                      /\ pets[p] # Nil => /\ pets[p] \in PetRow /\ pets[p].cur \in EpIds \cup {0}
                                          /\ pets[p].status \in ValidPetStatuses
  BY DEF TypeOK, EpRow, PetRow
<1>1. ASSUME UNCHANGED <<pets, eps>>
      PROVE  Goal
  BY <1>1 DEF AllSound, OnlyPet, StatusFate, ValidateTransition
<1>2. ASSUME NEW r \in Requests, NEW u \in Users, NEW p \in Pets,
             NEW st \in {"registered", "adoption"}, CreatePet(r, u, p, st)
      PROVE  Goal
  <2>1. /\ pets[p] = Nil /\ OnlyPet(p) /\ eps' = eps
        /\ pets'[p] # Nil /\ pets'[p].cur = 0 /\ pets'[p].status = st
    BY <1>0, <1>2, CreateFacts
  <2>2. Ordered(eps[p]) /\ Live(eps[p]) = {}
    BY <2>1 DEF AllSound, Sound
  <2>3. FindCurrent(eps[p]) = 0
    BY <2>2 DEF FindCurrent
  <2>4. ~IsActiveSearchStatus(st) /\ st \in InitialStatuses
    BY DEF IsActiveSearchStatus, InitialStatuses
  <2>5. Sound(pets'[p], eps'[p])
    BY <2>1, <2>2, <2>3, <2>4 DEF Sound
  <2> QED  BY <2>1, <2>4, <2>5 DEF StatusFate
<1>3. ASSUME NEW r \in Requests, NEW u \in Users, NEW p \in Pets, NEW i \in ReportIds,
             NEW at \in Times, CreateStray(r, u, p, i, at)
      PROVE  Goal
  <2>1. pets[p] = Nil /\ OnlyPet(p) /\ pets'[p].status = "stray" /\ Opening(p, i)
    BY <1>3, StrayFacts
  <2>2. /\ pets'[p] # Nil /\ pets'[p].cur = Fresh(eps[p])
        /\ Fresh(eps[p]) \in EpIds /\ IsFresh(eps[p], Fresh(eps[p]))
        /\ eps'[p] = [eps[p] EXCEPT ![Fresh(eps[p])] = "open"]
    BY <1>0, <2>1 DEF Opening
  <2>3. Ordered(eps[p])
    BY DEF AllSound, Sound
  <2>4. IsActiveSearchStatus(pets'[p].status) /\ pets'[p].status \in InitialStatuses
    BY <2>1 DEF IsActiveSearchStatus, InitialStatuses
  <2>5. Sound(pets'[p], eps'[p])
    BY <1>e, <2>2, <2>3, <2>4, SoundOpened
  <2> QED  BY <2>1, <2>2, <2>4, <2>5 DEF StatusFate
<1>4. ASSUME NEW r \in Requests, CommitUpdate(r)
      PROVE  Goal
  <2> DEFINE q == req[r]
             p == q.pet
  <2>1. /\ p \in Pets /\ q.seen \in PetRow /\ q.old = q.seen.status
        /\ pets'[p] \in PetRow /\ OnlyPet(p)
        /\ pets'[p].status = IF q.want = Nil THEN q.old ELSE q.want
        /\ Moved(eps[p], q.seen.cur, q.old, pets'[p].status, eps'[p], pets'[p].cur)
    BY <1>4, UpdateFacts
  <2>2. /\ pets[p] # Nil /\ q.seen = pets[p]
        /\ q.want = Nil \/ ValidateTransition(q.old, q.want)
    BY <1>4 DEF AllFresh, FreshRead, AllAimed, Aimed, Updating, CommitUpdate
  <2> HIDE DEF q, p
  <2>3. pets'[p] # Nil /\ pets'[p].status \in ValidPetStatuses
    BY <1>0, <2>1 DEF PetRow
  <2>4. Sound(pets'[p], eps'[p])
    <3>1. Sound(pets[p], eps[p])
      BY <2>1 DEF AllSound
    <3> QED  BY <1>e, <2>1, <2>2, <2>3, <3>1, SoundMoved
  <2>5. StatusFate(p)
    BY <2>1, <2>2, <2>3 DEF StatusFate, ValidateTransition
  <2> QED  BY <2>1, <2>4, <2>5
<1>5. ASSUME NEW r \in Requests, CommitFound(r)
      PROVE  Goal
  <2> DEFINE q == req[r]
             p == q.pet
  <2>1. /\ p \in Pets /\ OnlyPet(p)
        /\ pets[p] # Nil => /\ pets[p] \in PetRow /\ pets'[p] \in PetRow
                            /\ pets'[p] = [pets[p] EXCEPT !.status = "found"]
        /\ Moved(eps[p], CurrentEpisode(p), q.old, "found", eps'[p], CurrentEpisode(p))
    BY <1>5, FoundFacts
  <2>2. pets[p] # Nil /\ q.old = pets[p].status /\ ValidateTransition(q.old, "found")
    BY <1>5 DEF AllFresh, FreshRead, AllAimed, Aimed, CommitFound
  <2> HIDE DEF q, p
  <2>3. /\ pets'[p] # Nil /\ pets'[p].status = "found" /\ pets'[p].cur = pets[p].cur
        /\ CurrentEpisode(p) = pets[p].cur /\ pets'[p].status \in ValidPetStatuses
    BY <1>0, <2>1, <2>2 DEF PetRow, CurrentEpisode, ValidPetStatuses
  <2>4. Sound(pets'[p], eps'[p])
    <3>1. Sound(pets[p], eps[p])
      BY <2>1 DEF AllSound
    <3> QED  BY <1>e, <2>1, <2>2, <2>3, <3>1, SoundMoved
  <2>5. StatusFate(p)
    BY <2>1, <2>2, <2>3 DEF StatusFate
  <2> QED  BY <2>1, <2>4, <2>5
<1>6. ASSUME NEW r \in Requests, NEW i \in ReportIds, CommitPublish(r, i)
      PROVE  Goal
  <2> DEFINE p == req[r].pet
  <2>1. p \in Pets /\ OnlyPet(p) /\ pets'[p].status = "lost" /\ Opening(p, i)
    BY <1>6, PublishFacts
  <2>2. /\ pets'[p] # Nil /\ pets'[p].cur = Fresh(eps[p])
        /\ Fresh(eps[p]) \in EpIds /\ IsFresh(eps[p], Fresh(eps[p]))
        /\ eps'[p] = [eps[p] EXCEPT ![Fresh(eps[p])] = "open"]
    BY <1>0, <2>1 DEF Opening
  <2>3. Ordered(eps[p])
    BY <2>1 DEF AllSound, Sound
  <2>4. IsActiveSearchStatus(pets'[p].status)
    BY <2>1 DEF IsActiveSearchStatus
  <2>5. pets[p] # Nil /\ ValidateTransition(pets[p].status, "lost")
    BY <1>6 DEF AllFresh, FreshRead, CommitPublish
  <2> HIDE DEF p
  <2>6. Sound(pets'[p], eps'[p])
    BY <1>e, <2>1, <2>2, <2>3, <2>4, SoundOpened
  <2> QED  BY <2>1, <2>2, <2>5, <2>6 DEF StatusFate
<1>7. ASSUME NEW r \in Requests, NEW i \in ReportIds, CommitReport(r, i)
      PROVE  Goal
  <2> DEFINE q == req[r]
             p == q.pet
  <2>1. /\ p \in Pets /\ OnlyPet(p) /\ pets'[p] \in PetRow
        /\ pets'[p].status = IF ShouldTransition(q) THEN q.want ELSE pets[p].status
        /\ ShouldTransition(q) => Moved(eps[p], pets[p].cur, q.old, q.want, eps'[p], pets'[p].cur)
        /\ ~ShouldTransition(q) => eps'[p] = eps[p] /\ pets'[p].cur = pets[p].cur
    BY <1>7, ReportFacts
  <2>2. pets[p] # Nil /\ q.old = pets[p].status
    BY <1>7 DEF AllFresh, FreshRead, CommitReport
  <2>3. ShouldTransition(q) => ValidateTransition(q.old, q.want)
    BY DEF ShouldTransition
  <2> HIDE DEF q, p
  <2>4. pets'[p] # Nil /\ pets'[p].status \in ValidPetStatuses /\ Sound(pets[p], eps[p])
    BY <1>0, <2>1 DEF PetRow, AllSound
  <2>5. Sound(pets'[p], eps'[p])
    <3>1. CASE ShouldTransition(q)
      BY <1>e, <2>1, <2>2, <2>4, <3>1, SoundMoved
    <3>2. CASE ~ShouldTransition(q)
      BY <2>1, <2>2, <2>4, <3>2 DEF Sound
    <3> QED  BY <3>1, <3>2
  <2>6. StatusFate(p)
    BY <2>1, <2>2, <2>3, <2>4 DEF StatusFate, ValidateTransition
  <2> QED  BY <2>1, <2>5, <2>6
<1>8. ASSUME NEW r \in Requests, CommitDelete(r)
      PROVE  Goal
  <2> DEFINE p == req[r].pet
  <2>1. /\ p \in Pets /\ OnlyPet(p) /\ pets[p] # Nil /\ pets'[p] = Nil
        /\ \A k \in EpIds : eps'[p][k] = IF eps[p][k] = "none" THEN "none" ELSE "gone"
    BY <1>8, DeleteFacts
  <2> HIDE DEF p
  <2>2. Live(eps'[p]) = {}
    BY <2>1 DEF Live
  <2>3. Ordered(eps'[p])
    <3>1. \A k \in EpIds : \A j \in 1 .. k - 1 : j \in EpIds
      BY BoundsAssumption DEF EpIds
    <3>2. Ordered(eps[p])
      BY <2>1 DEF AllSound, Sound
    <3>3. ASSUME NEW k \in EpIds, eps'[p][k] # "none", NEW j \in 1 .. k - 1
          PROVE  eps'[p][j] # "none"
      BY <2>1, <3>1, <3>2, <3>3 DEF Ordered
    <3> QED  BY <3>3 DEF Ordered
  <2> QED  BY <2>1, <2>2, <2>3 DEF Sound, StatusFate
<1>9. ASSUME NEW r \in Requests, TouchClosure(r) \/ RecomputeLastReported(r)
      PROVE  Goal
  <2> DEFINE p == req[r].pet
  <2>1. /\ p \in Pets /\ OnlyPet(p) /\ eps' = eps
        /\ pets[p] = Nil => pets'[p] = Nil
        /\ pets[p] # Nil => /\ pets'[p] # Nil /\ pets'[p].cur = pets[p].cur
                            /\ pets'[p].status = pets[p].status
    BY <1>0, <1>9, ClockFacts
  <2> HIDE DEF p
  <2>2. Sound(pets'[p], eps'[p])
    BY <2>1 DEF AllSound, Sound
  <2> QED  BY <2>1, <2>2 DEF StatusFate, ValidateTransition
<1>10. ASSUME NEW r \in Requests,
              \/ CommitModerate(r)
              \/ \E i \in ReportIds, at \in Times : CreateClosure(r, i, at)
       PROVE  Goal
  BY <1>1, <1>10 DEF CommitModerate, CreateClosure
<1> HIDE DEF Goal
<1>11. ASSUME Touches
       PROVE  Goal
  BY <1>2, <1>3, <1>4, <1>5, <1>6, <1>7, <1>8, <1>9, <1>10, <1>11 DEF Touches
<1> QED  BY <1>1, <1>11, StepTouches DEF Goal

\* What holds of a server that takes one request at a time.
SerialInv == TypeOK /\ AllAimed /\ AllFresh /\ AllSound

LEMMA SerialStep ==
  ASSUME OneAtATime, SerialInv, [Next]_vars
  PROVE  SerialInv'
<1>1. ASSUME NEW o \in Pets
      PROVE  Sound(pets'[o], eps'[o])
  <2>1. PICK p \in Pets : OnlyPet(p) /\ Sound(pets'[p], eps'[p])
    BY SoundStep DEF SerialInv
  <2> QED  BY <2>1, SoundKept DEF SerialInv
<1>2. AllSound'
  BY <1>1 DEF AllSound, Sound, Live, FindCurrent
<1> QED  BY <1>2, TypeStep, AimedStep, FreshStep DEF SerialInv

LEMMA SerialInit ==
  ASSUME Init
  PROVE  SerialInv
<1>1. TypeOK
  BY IdleType DEF Init, TypeOK, EpState
<1>2. AllAimed /\ AllFresh
  BY DEF Init, AllAimed, Aimed, Updating, AllFresh, FreshRead, Idle
<1>3. AllSound
  BY DEF Init, AllSound, Sound, Ordered, Live
<1> QED  BY <1>1, <1>2, <1>3 DEF SerialInv

LEMMA SerialAlways ==
  ASSUME OneAtATime
  PROVE  Spec => []SerialInv
<1>1. SerialInv /\ [Next]_vars => SerialInv'
  BY SerialStep
<1> QED  BY <1>1, SerialInit, PTL DEF Spec

\* pets.current_episode_id names the episode FindCurrent finds: the map, the
\* helper candidates and the reports agree on the current search.
THEOREM CurrentStaysNewest ==
  ASSUME OneAtATime
  PROVE  Spec => []CurrentIsNewest
<1>1. SerialInv => CurrentIsNewest
  BY DEF SerialInv, AllSound, Sound, CurrentIsNewest
<1> QED  BY <1>1, SerialAlways, PTL

-----------------------------------------------------------------------------
(* The refinement.  The abstract state of a pet is computed from its row   *)
(* and its episodes; in a sound pet the status alone determines it.        *)

StatusOf(row) == IF row = Nil THEN Nil ELSE row.status

Searched(row, e) == row # Nil /\ row.cur # 0 /\ e[row.cur] = "open"

SearchedBy(st) == IF st = Nil THEN FALSE ELSE IsActiveSearchStatus(st)

\* A sound pet is searched for exactly while its status says so.
LEMMA SoundSearched ==
  ASSUME NEW row \in PetRow \cup {Nil}, NEW e, Sound(row, e)
  PROVE  /\ Searched(row, e) = SearchedBy(StatusOf(row))
         /\ StatusOf(row) = Nil <=> row = Nil
<1>1. CASE row = Nil
  BY <1>1 DEF Searched, SearchedBy, StatusOf
<1>2. CASE row # Nil
  <2>1. row.status \in ValidPetStatuses /\ row.status # Nil
    BY <1>2, RowsAssumption DEF PetRow
  <2>2. IsActiveSearchStatus(row.status) <=> Searched(row, e)
    BY <1>2 DEF Sound, Searched
  <2>3. StatusOf(row) = row.status
    BY <1>2 DEF StatusOf
  <2>4. SearchedBy(StatusOf(row)) = IsActiveSearchStatus(row.status)
    BY <2>1, <2>3 DEF SearchedBy
  <2>5. Searched(row, e) \in BOOLEAN /\ IsActiveSearchStatus(row.status) \in BOOLEAN
    BY DEF Searched, IsActiveSearchStatus
  <2> QED  BY <1>2, <2>1, <2>2, <2>3, <2>4, <2>5
<1> QED  BY <1>1, <1>2

\* The status machine of the contract is the one of the services.
LEMMA SameMachine ==
  /\ Contract!AllowedTransitions = AllowedTransitions
  /\ Contract!InitialStatuses = InitialStatuses
  /\ \A st : Contract!IsActiveSearchStatus(st) <=> IsActiveSearchStatus(st)
BY DEF Contract!AllowedTransitions, AllowedTransitions, Contract!InitialStatuses, InitialStatuses,
   Contract!IsActiveSearchStatus, IsActiveSearchStatus

LEMMA ContractInit ==
  ASSUME Init
  PROVE  Contract!Init
BY DEF Init, Contract!Init

LEMMA ContractStep ==
  ASSUME OneAtATime, SerialInv, [Next]_vars
  PROVE  Contract!Next \/ UNCHANGED Contract!vars
<1> DEFINE S  == [p \in Pets |-> StatusOf(pets[p])]
           S2 == [p \in Pets |-> StatusOf(pets'[p])]
           R  == [p \in Pets |-> Searched(pets[p], eps[p])]
           R2 == [p \in Pets |-> Searched(pets'[p], eps'[p])]
<1>1. CASE Pets = {}
  BY <1>1 DEF Contract!vars
<1>2. ASSUME NEW any \in Pets
      PROVE  Contract!Next \/ UNCHANGED Contract!vars
  <2>1. PICK p \in Pets : OnlyPet(p) /\ StatusFate(p) /\ Sound(pets'[p], eps'[p])
    BY SoundStep DEF SerialInv
  <2>2. SerialInv'
    BY SerialStep
  <2>3. \A o \in Pets : /\ pets[o] \in PetRow \cup {Nil} /\ Sound(pets[o], eps[o])
                        /\ pets'[o] \in PetRow \cup {Nil} /\ Sound(pets'[o], eps'[o])
    BY <2>1, <2>2, SoundKept DEF SerialInv, TypeOK, AllSound
  <2>4. \A o \in Pets : /\ Searched(pets[o], eps[o]) = SearchedBy(StatusOf(pets[o]))
                        /\ Searched(pets'[o], eps'[o]) = SearchedBy(StatusOf(pets'[o]))
                        /\ StatusOf(pets[o]) = Nil <=> pets[o] = Nil
                        /\ StatusOf(pets'[o]) = Nil <=> pets'[o] = Nil
    BY <2>3, SoundSearched
  <2>5. S2 = [S EXCEPT ![p] = StatusOf(pets'[p])]
    BY <2>1 DEF OnlyPet
  <2>6. R2 = [R EXCEPT ![p] = SearchedBy(StatusOf(pets'[p]))]
    BY <2>1, <2>4 DEF OnlyPet
  <2>7. ASSUME NEW st, st = StatusOf(pets'[p])
        PROVE  Contract!Become(p, st)
    BY <2>5, <2>7, <2>6, SameMachine DEF Contract!Become, StatusOf, Searched, SearchedBy
  <2>s. [o \in Pets |-> IF pets[o] = Nil THEN Nil ELSE pets[o].status][p] = StatusOf(pets[p])
    BY DEF StatusOf
  <2>8. StatusOf(pets[p]) = StatusOf(pets'[p]) => UNCHANGED Contract!vars
    <3>1. StatusOf(pets[p]) = StatusOf(pets'[p]) => S2 = S
      BY <2>5
    <3>2. StatusOf(pets[p]) = StatusOf(pets'[p]) => R2 = R
      BY <2>4, <2>6
    <3> QED  BY <3>1, <3>2 DEF Contract!vars, StatusOf, Searched
  <2>9. CASE pets[p] = Nil /\ pets'[p] = Nil
    BY <2>8, <2>9 DEF StatusOf
  <2>10. CASE /\ pets[p] # Nil /\ pets'[p] # Nil
              /\ ValidateTransition(pets[p].status, pets'[p].status)
    <3>1. StatusOf(pets[p]) = pets[p].status /\ StatusOf(pets'[p]) = pets'[p].status
      BY <2>10 DEF StatusOf
    <3>2. CASE pets[p].status = pets'[p].status
      BY <2>8, <3>1, <3>2
    <3>3. CASE pets'[p].status \in AllowedTransitions[pets[p].status]
      <4>1. Contract!Move(p)
        <5>1. StatusOf(pets[p]) # Nil
          BY <2>4, <2>10
        <5>2. StatusOf(pets'[p]) \in Contract!AllowedTransitions[StatusOf(pets[p])]
          BY <3>1, <3>3, SameMachine
        <5> QED  BY ONLY <2>7, <2>s, <5>1, <5>2, Zenon DEF Contract!Move
      <4> QED  BY <4>1 DEF Contract!Next
    <3> QED  BY <2>10, <3>2, <3>3 DEF ValidateTransition
  <2>11. CASE pets[p] = Nil /\ pets'[p] # Nil /\ pets'[p].status \in InitialStatuses
    <3>1. StatusOf(pets'[p]) = pets'[p].status
      BY <2>11 DEF StatusOf
    <3>2. StatusOf(pets[p]) = Nil /\ StatusOf(pets'[p]) \in Contract!InitialStatuses
      BY <2>4, <2>11, <3>1, SameMachine
    <3>3. Contract!Create(p)
      BY ONLY <2>7, <2>s, <3>2, Zenon DEF Contract!Create
    <3> QED  BY <3>3 DEF Contract!Next
  <2>12. CASE pets[p] # Nil /\ pets'[p] = Nil
    <3>1. StatusOf(pets'[p]) = Nil /\ StatusOf(pets[p]) # Nil
      BY <2>4, <2>12
    <3>2. Contract!Remove(p)
      BY ONLY <2>7, <2>s, <3>1, Zenon DEF Contract!Remove
    <3> QED  BY <3>2 DEF Contract!Next
  <2> QED  BY <2>1, <2>9, <2>10, <2>11, <2>12 DEF StatusFate
<1> QED  BY <1>1, <1>2

\* The status of a pet walks along the status machine one allowed step at a
\* time, and its search opens and closes with it in the same step.
THEOREM ServicesKeepContract ==
  ASSUME OneAtATime
  PROVE  Spec => ImplementsContract
<1>1. SerialInv /\ [Next]_vars => [Contract!Next]_Contract!vars
  BY ContractStep
<1> QED  BY <1>1, ContractInit, SerialAlways, PTL DEF Spec, ImplementsContract, Contract!Spec

-----------------------------------------------------------------------------
(* Reunions.  A request that owes the ledger a pet_found has closed a      *)
(* search as found, in the transaction that made it owe the row; no search *)
(* that ended so is ever opened again.                                     *)

Ended == {"found", "gone"}

Reunited(p) == {k \in EpIds : eps[p][k] \in Ended}

OwesFound(q) == Unrecorded(q) /\ q.want = "found"

Owed(p) == IF \E r \in Requests : req[r].pet = p /\ OwesFound(req[r]) THEN 1 ELSE 0

ReunionsCounted == \A p \in Pets : ledger[p].found + Owed(p) <= Cardinality(Reunited(p))

LEMMA MovedKeepsEnded ==
  ASSUME NEW e \in EpRow, NEW e2, NEW cur, NEW cur2, NEW old, NEW new,
         Moved(e, cur, old, new, e2, cur2), NEW k \in EpIds, e[k] \in Ended
  PROVE  e2[k] \in Ended
<1>1. CASE Opens(old, new)
  <2>1. e2 = [e EXCEPT ![Fresh(e)] = "open"] /\ Fresh(e) # k
    BY <1>1 DEF Moved, IsFresh, Ended
  <2> QED  BY <2>1 DEF EpRow
<1>2. CASE Closes(old, new)
  <2>1. e2 = e \/ (e[cur] = "open" /\ e2 = [e EXCEPT ![cur] = new])
    BY <1>2 DEF Moved
  <2>2. e2 = e \/ (k # cur /\ e2 = [e EXCEPT ![cur] = new])
    BY <2>1 DEF Ended
  <2> QED  BY <2>2 DEF EpRow
<1>3. CASE ~Opens(old, new) /\ ~Closes(old, new)
  BY <1>3 DEF Moved
<1> QED  BY <1>1, <1>2, <1>3

\* A search that ended in a reunion stays one, or is cascaded with its pet.
LEMMA EndedStays ==
  ASSUME TypeOK, [Next]_vars, NEW p \in Pets
  PROVE  Reunited(p) \subseteq Reunited(p)'
<1> DEFINE Stay(o) == \A k \in EpIds : eps[o][k] \in Ended => eps'[o][k] \in Ended
           Goal    == \E o \in Pets : OnlyPet(o) /\ Stay(o)
<1>0. \A o \in Pets : eps[o] \in EpRow
  BY DEF TypeOK, EpRow
<1>1. ASSUME NEW o \in Pets, OnlyPet(o), NEW i, Opening(o, i)
      PROVE  Goal
  <2>1. IsFresh(eps[o], Fresh(eps[o])) /\ eps'[o] = [eps[o] EXCEPT ![Fresh(eps[o])] = "open"]
    BY <1>1 DEF Opening
  <2>2. Stay(o)
    BY <1>0, <2>1 DEF IsFresh, EpRow, Ended
  <2> QED  BY <1>1, <2>2
<1>2. ASSUME NEW o \in Pets, OnlyPet(o), NEW cur, NEW cur2, NEW old, NEW new,
             Moved(eps[o], cur, old, new, eps'[o], cur2)
      PROVE  Goal
  BY <1>0, <1>2, MovedKeepsEnded
<1>3. ASSUME eps' = eps
      PROVE  Reunited(p) \subseteq Reunited(p)'
  BY <1>3 DEF Reunited
<1>4. ASSUME NEW r \in Requests, CommitUpdate(r)
      PROVE  Goal
  <2> DEFINE o == req[r].pet
  <2>1. /\ o \in Pets /\ OnlyPet(o)
        /\ Moved(eps[o], req[r].seen.cur, req[r].old, pets'[o].status, eps'[o], pets'[o].cur)
    BY <1>4, UpdateFacts
  <2> HIDE DEF o, Goal
  <2> QED  BY <1>2, <2>1
<1>5. ASSUME NEW r \in Requests, CommitFound(r)
      PROVE  Goal
  <2> DEFINE o == req[r].pet
  <2>1. /\ o \in Pets /\ OnlyPet(o)
        /\ Moved(eps[o], CurrentEpisode(o), req[r].old, "found", eps'[o], CurrentEpisode(o))
    BY <1>5, FoundFacts
  <2> HIDE DEF o, Goal
  <2> QED  BY <1>2, <2>1
<1>6. ASSUME NEW r \in Requests, NEW i \in ReportIds, CommitReport(r, i)
      PROVE  Goal
  <2> DEFINE o == req[r].pet
  <2>1. /\ o \in Pets /\ OnlyPet(o)
        /\ \/ eps'[o] = eps[o]
           \/ Moved(eps[o], pets[o].cur, req[r].old, req[r].want, eps'[o], pets'[o].cur)
    BY <1>6, ReportFacts
  <2> HIDE DEF o
  <2> QED  BY <1>2, <2>1
<1>7. ASSUME NEW r \in Requests, CommitDelete(r)
      PROVE  Goal
  <2> DEFINE o == req[r].pet
  <2>1. /\ o \in Pets /\ OnlyPet(o)
        /\ \A k \in EpIds : eps'[o][k] = IF eps[o][k] = "none" THEN "none" ELSE "gone"
    BY <1>7, DeleteFacts
  <2> HIDE DEF o
  <2> QED  BY <2>1 DEF Ended
<1>8. ASSUME NEW r \in Requests, NEW i \in ReportIds, CommitPublish(r, i)
      PROVE  Goal
  BY <1>1, <1>8, PublishFacts
<1>9. ASSUME NEW r \in Requests, NEW u \in Users, NEW o \in Pets, NEW i \in ReportIds,
             NEW at \in Times, CreateStray(r, u, o, i, at)
      PROVE  Goal
  BY <1>1, <1>9, StrayFacts
<1>10. Goal => Reunited(p) \subseteq Reunited(p)'
  BY DEF Reunited, OnlyPet
<1>11. Goal \/ eps' = eps
  <2> HIDE DEF Goal
  <2>1. ASSUME Touches
        PROVE  Goal \/ eps' = eps
    BY <1>4, <1>5, <1>6, <1>7, <1>8, <1>9, <2>1 DEF Touches, CreatePet, CommitModerate,
       TouchClosure, RecomputeLastReported, CreateClosure
  <2> QED  BY <2>1, StepTouches
<1> HIDE DEF Goal
<1> QED  BY <1>3, <1>10, <1>11

\* Moving a sound pet that is not found to found ends one more search so.
LEMMA ReunionEnds ==
  ASSUME NEW e \in EpRow, NEW row, row # Nil, Sound(row, e), row.cur \in EpIds \cup {0},
         row.status \in ValidPetStatuses, row.status # "found",
         ValidateTransition(row.status, "found"),
         NEW e2, NEW cur2, Moved(e, row.cur, row.status, "found", e2, cur2)
  PROVE  \E k \in EpIds : e[k] \notin Ended /\ e2[k] \in Ended
<1>1. Closes(row.status, "found")
  BY IntoFound
<1>2. row.cur # 0 /\ e[row.cur] = "open" /\ row.cur \in EpIds
  BY <1>1 DEF Sound, Closes
<1>3. e2 = [e EXCEPT ![row.cur] = "found"]
  BY <1>1, <1>2 DEF Moved
<1>4. e2[row.cur] = "found"
  BY <1>2, <1>3 DEF EpRow
<1> QED  BY <1>2, <1>4 DEF Ended

\* What the ledger says of p, and will say when the request in flight is done,
\* does not grow, or grows by one with the searches of p that ended so.
FoundsFate(p) ==
  \/ ledger'[p].found + Owed(p)' <= ledger[p].found + Owed(p)
  \/ /\ ledger'[p].found = ledger[p].found
     /\ \E k \in EpIds : k \in Reunited(p)' /\ k \notin Reunited(p)

\* With one request at a time, what is owed is what that request owes.
LEMMA OwedNow ==
  ASSUME OneAtATime, NEW r \in Requests, NEW p
  PROVE  Owed(p) = IF req[r].pet = p /\ OwesFound(req[r]) THEN 1 ELSE 0
BY DEF OneAtATime, Owed

LEMMA OwedThen ==
  ASSUME TypeOK, OneAtATime, NEW r \in Requests, NEW q, Become(r, q), NEW p
  PROVE  Owed(p)' = IF q.pet = p /\ OwesFound(q) THEN 1 ELSE 0
<1>1. req'[r] = q
  BY BecomeElse
<1>2. \A s \in Requests : s = r
  BY DEF OneAtATime
<1> QED  BY <1>1, <1>2 DEF Owed, OwesFound, Unrecorded

\* A step after which the request owes nothing it did not owe before.
LEMMA FoundsKept ==
  ASSUME TypeOK, OneAtATime, NEW r \in Requests, NEW q, Become(r, q),
         ledger' = ledger, OwesFound(q) => OwesFound(req[r]) /\ q.pet = req[r].pet,
         NEW p \in Pets
  PROVE  FoundsFate(p)
<1>1. Owed(p)' \in Nat /\ Owed(p) \in Nat /\ Owed(p)' <= Owed(p)
  BY OwedNow, OwedThen
<1>2. ledger[p].found \in Nat
  BY DEF TypeOK
<1> QED  BY <1>1, <1>2 DEF FoundsFate

\* A transaction that leaves its request owing a pet_found has ended a search.
LEMMA FoundsEnded ==
  ASSUME TypeOK, OneAtATime, NEW r \in Requests, NEW q, Become(r, q),
         ledger' = ledger, NEW d \in Pets, q.pet = d,
         OwesFound(q) => \E k \in EpIds : eps[d][k] \notin Ended /\ eps'[d][k] \in Ended,
         NEW p \in Pets
  PROVE  FoundsFate(p)
<1>1. CASE OwesFound(q) /\ p = d
  <2>1. \E k \in EpIds : k \in Reunited(p)' /\ k \notin Reunited(p)
    BY <1>1 DEF Reunited
  <2> QED  BY <2>1 DEF FoundsFate
<1>2. CASE ~(OwesFound(q) /\ p = d)
  <2>1. Owed(p)' = 0 /\ Owed(p) \in Nat
    BY <1>2, OwedNow, OwedThen
  <2>2. ledger[p].found \in Nat
    BY DEF TypeOK
  <2> QED  BY <2>1, <2>2 DEF FoundsFate
<1> QED  BY <1>1, <1>2

LEMMA FoundsFateCounts ==
  ASSUME TypeOK, TypeOK', [Next]_vars, ReunionsCounted, NEW p \in Pets, FoundsFate(p)
  PROVE  ledger'[p].found + Owed(p)' <= Cardinality(Reunited(p)')
<1> DEFINE R  == Reunited(p)
           R2 == Reunited(p)'
<1>1. /\ IsFiniteSet(R) /\ Cardinality(R) \in Nat
      /\ IsFiniteSet(R2) /\ Cardinality(R2) \in Nat
  <2>1. IsFiniteSet(EpIds)
    BY FS_Interval, BoundsAssumption DEF EpIds
  <2>2. R \in SUBSET EpIds /\ R2 \in SUBSET EpIds
    BY DEF Reunited
  <2> QED  BY <2>1, <2>2, FS_Subset, FS_CardinalityType
<1>2. /\ ledger[p].found \in Nat /\ ledger'[p].found \in Nat
      /\ Owed(p) \in {0, 1} /\ Owed(p)' \in {0, 1}
  BY DEF TypeOK, Owed
<1>3. R \subseteq R2
  BY EndedStays
<1>4. ledger[p].found + Owed(p) <= Cardinality(R)
  BY DEF ReunionsCounted
<1>5. CASE ledger'[p].found + Owed(p)' <= ledger[p].found + Owed(p)
  <2>1. Cardinality(R) <= Cardinality(R2)
    BY <1>1, <1>3, FS_Subset
  <2> HIDE DEF R, R2
  <2>2. ledger'[p].found + Owed(p)' <= Cardinality(R2)
    BY <1>1, <1>2, <1>4, <1>5, <2>1
  <2> QED  BY <2>2 DEF R2
<1>6. CASE /\ ledger'[p].found = ledger[p].found
           /\ \E k \in EpIds : k \in R2 /\ k \notin R
  <2>1. PICK k \in EpIds : k \in R2 /\ k \notin R
    BY <1>6
  <2> HIDE DEF R, R2
  <2>2. Cardinality(R \cup {k}) = Cardinality(R) + 1
    BY <1>1, <2>1, FS_AddElement
  <2>3. Cardinality(R \cup {k}) <= Cardinality(R2)
    BY <1>1, <1>3, <2>1, FS_Subset
  <2>4. ledger'[p].found + Owed(p)' <= Cardinality(R2)
    BY <1>1, <1>2, <1>4, <1>6, <2>2, <2>3
  <2> QED  BY <2>4 DEF R2
<1> QED  BY <1>5, <1>6 DEF FoundsFate

LEMMA FoundsStep ==
  ASSUME OneAtATime, SerialInv, [Next]_vars, NEW p \in Pets
  PROVE  FoundsFate(p)
<1>0. TypeOK /\ AllAimed /\ AllFresh /\ AllSound
  BY DEF SerialInv
<1>e. \A o \in Pets : /\ eps[o] \in EpRow /\ Sound(pets[o], eps[o])
                      /\ pets[o] # Nil => /\ pets[o].status \in ValidPetStatuses
                                          /\ pets[o].cur \in EpIds \cup {0}
  BY <1>0 DEF TypeOK, PetRow, EpRow, AllSound
<1>i. ~OwesFound(Idle)
  BY DEF OwesFound, Unrecorded, Idle
<1>n. ASSUME NEW r \in Requests, NEW q, Become(r, q), ledger' = ledger, ~OwesFound(q)
      PROVE  FoundsFate(p)
  BY <1>0, <1>n, FoundsKept
<1>1. ASSUME NEW r \in Requests, Arrive(r)
      PROVE  FoundsFate(p)
  <2>1. ASSUME NEW u, NEW d, NEW st, CreatePet(r, u, d, st)
        PROVE  FoundsFate(p)
    <3>1. ledger' = ledger /\ req' = req
      BY <2>1 DEF CreatePet
    <3>2. Owed(p)' = Owed(p) /\ Owed(p) \in Nat /\ ledger[p].found \in Nat
      BY <1>0, <3>1 DEF Owed, OwesFound, Unrecorded, TypeOK
    <3> QED  BY <3>1, <3>2 DEF FoundsFate
  <2>2. ASSUME NEW u, NEW d, NEW i, NEW at, CreateStray(r, u, d, i, at)
        PROVE  FoundsFate(p)
    BY <1>n, <2>2 DEF CreateStray, OwesFound, Idle
  <2>3. ASSUME NEW u, NEW d, NEW w, NEW h, BeginUpdate(r, u, d, w, h)
        PROVE  FoundsFate(p)
    BY <1>n, <2>3 DEF BeginUpdate, OwesFound, Unrecorded, Idle
  <2>4. ASSUME NEW u, NEW d, NEW h, BeginFound(r, u, d, h)
        PROVE  FoundsFate(p)
    BY <1>n, <2>4 DEF BeginFound, OwesFound, Unrecorded, Idle
  <2>5. ASSUME NEW u, NEW d, NEW at, BeginPublish(r, u, d, at)
        PROVE  FoundsFate(p)
    BY <1>n, <2>5 DEF BeginPublish, OwesFound, Unrecorded, Idle
  <2>6. ASSUME NEW u, NEW d, NEW k, NEW at, NEW h, BeginReport(r, u, d, k, at, h)
        PROVE  FoundsFate(p)
    BY <1>n, <2>6 DEF BeginReport, OwesFound, Unrecorded, Idle
  <2>7. ASSUME NEW u, NEW d, BeginDelete(r, u, d)
        PROVE  FoundsFate(p)
    BY <1>n, <2>7 DEF BeginDelete, OwesFound, Unrecorded, Idle
  <2> QED  BY <1>1, <2>1, <2>2, <2>3, <2>4, <2>5, <2>6, <2>7 DEF Arrive
<1>2. ASSUME NEW r \in Requests, NEW i \in ReportIds, BeginModerate(r, i)
      PROVE  FoundsFate(p)
  BY <1>n, <1>2 DEF BeginModerate, OwesFound, Unrecorded, Idle
<1>3. ASSUME NEW r \in Requests, CommitUpdate(r)
      PROVE  FoundsFate(p)
  <2> DEFINE q == req[r]
             d == q.pet
  <2>1. /\ d \in Pets /\ q.old = q.seen.status
        /\ Moved(eps[d], q.seen.cur, q.old, pets'[d].status, eps'[d], pets'[d].cur)
        /\ pets'[d].status = IF q.want = Nil THEN q.old ELSE q.want
    BY <1>0, <1>3, UpdateFacts
  <2>2. pets[d] # Nil /\ q.seen = pets[d] /\ ledger' = ledger
    BY <1>0, <1>3 DEF CommitUpdate, AllFresh, FreshRead
  <2>3. q.want = Nil \/ ValidateTransition(q.old, q.want)
    BY <1>0, <1>3 DEF AllAimed, Aimed, CommitUpdate, Updating
  <2>4. \E x : /\ Become(r, x)
               /\ OwesFound(x) => q.want = "found" /\ q.old # "found"
               /\ x = Idle \/ x.pet = d
    <3> DEFINE st   == Save(d, Edited(q)).status
               gets == IF st # q.old /\ st = "found" THEN InsertCredits(d, q.helpers) ELSE {}
               x    == [Done(q) EXCEPT !.credited = gets]
    <3>1. Become(r, IF st # q.old /\ st \in {"lost", "found"} THEN x ELSE Idle)
      BY <1>3 DEF CommitUpdate
    <3>2. x.pet = d /\ x.want = q.want
      BY DEF Done, Idle
    <3>3. st = IF q.want = Nil THEN q.old ELSE q.want
      <4>1. q.seen \in PetRow /\ q.old = q.seen.status
        BY <1>0, <1>3, UpdateFacts
      <4> HIDE DEF q, d
      <4> QED  BY <4>1 DEF Save, Edited, PetRow
    <3>4. OwesFound(x) => x.want = "found"
      BY DEF OwesFound
    <3> HIDE DEF x, st, q, d
    <3> QED  BY <1>i, <3>1, <3>2, <3>3, <3>4
  <2> HIDE DEF q, d
  <2>5. PICK x : /\ Become(r, x)
                 /\ OwesFound(x) => q.want = "found" /\ q.old # "found"
                 /\ x = Idle \/ x.pet = d
    BY <2>4
  <2>6. CASE OwesFound(x)
    <3>1. pets'[d].status = "found" /\ q.old = pets[d].status /\ q.seen.cur = pets[d].cur
      BY <2>1, <2>2, <2>5, <2>6, RowsAssumption DEF ValidPetStatuses
    <3>2. ValidateTransition(pets[d].status, "found") /\ pets[d].status # "found"
      BY <2>3, <2>5, <2>6, <3>1, RowsAssumption DEF ValidPetStatuses
    <3>3. \E k \in EpIds : eps[d][k] \notin Ended /\ eps'[d][k] \in Ended
      <4>1. /\ pets[d] # Nil /\ Sound(pets[d], eps[d]) /\ eps[d] \in EpRow
          /\ pets[d].cur \in EpIds \cup {0} /\ pets[d].status \in ValidPetStatuses
          /\ pets[d].status # "found" /\ ValidateTransition(pets[d].status, "found")
          /\ Moved(eps[d], pets[d].cur, pets[d].status, "found", eps'[d], pets'[d].cur)
        BY <1>e, <2>1, <2>2, <3>1, <3>2
      <4> QED  BY <4>1, ReunionEnds
    <3>4. x.pet = d
      BY <1>i, <2>5, <2>6
    <3> QED  BY <1>0, <2>1, <2>2, <2>5, <3>3, <3>4, FoundsEnded
  <2>7. CASE ~OwesFound(x)
    BY <1>n, <2>2, <2>5, <2>7
  <2> QED  BY <2>6, <2>7
<1>4. ASSUME NEW r \in Requests, CommitFound(r)
      PROVE  FoundsFate(p)
  <2> DEFINE q == req[r]
             d == q.pet
             x == [Done(q) EXCEPT !.pc = "closure", !.actor = q.actor,
                                  !.credited = InsertCredits(d, q.helpers)]
  <2>1. Become(r, x) /\ ledger' = ledger
    BY <1>4 DEF CommitFound
  <2>2. x.pet = d
    BY DEF Done, Idle
  <2>3. /\ d \in Pets
        /\ Moved(eps[d], CurrentEpisode(d), q.old, "found", eps'[d], CurrentEpisode(d))
    BY <1>0, <1>4, FoundFacts
  <2>4. /\ pets[d] # Nil /\ q.old = pets[d].status
        /\ q.old # "found" /\ ValidateTransition(q.old, "found")
    BY <1>0, <1>4 DEF AllFresh, FreshRead, AllAimed, Aimed, CommitFound
  <2>5. CurrentEpisode(d) = pets[d].cur
    BY <2>4 DEF CurrentEpisode
  <2> HIDE DEF x, d, q
  <2>6. \E k \in EpIds : eps[d][k] \notin Ended /\ eps'[d][k] \in Ended
    <3>1. /\ pets[d] # Nil /\ Sound(pets[d], eps[d]) /\ eps[d] \in EpRow
        /\ pets[d].cur \in EpIds \cup {0} /\ pets[d].status \in ValidPetStatuses
        /\ pets[d].status # "found" /\ ValidateTransition(pets[d].status, "found")
        /\ Moved(eps[d], pets[d].cur, pets[d].status, "found", eps'[d], pets[d].cur)
      BY <1>e, <2>3, <2>4, <2>5
    <3> QED  BY <3>1, ReunionEnds
  <2> QED  BY <1>0, <2>1, <2>2, <2>3, <2>6, FoundsEnded
<1>5. ASSUME NEW r \in Requests, NEW i \in ReportIds, CommitPublish(r, i)
      PROVE  FoundsFate(p)
  <2>1. Become(r, Done(req[r])) /\ ledger' = ledger
    BY <1>5 DEF CommitPublish
  <2>2. req[r].want = "lost"
    BY <1>0, <1>5 DEF AllFresh, FreshRead, CommitPublish
  <2>3. ~OwesFound(Done(req[r]))
    BY <2>2 DEF OwesFound, Done, Idle
  <2> QED  BY <1>n, <2>1, <2>3
<1>6. ASSUME NEW r \in Requests, NEW i \in ReportIds, CommitReport(r, i)
      PROVE  FoundsFate(p)
  <2> DEFINE q == req[r]
             d == q.pet
             gets == IF ShouldTransition(q) /\ q.want = "found"
                     THEN InsertCredits(d, q.helpers) ELSE {}
             x    == [Done(q) EXCEPT !.pc = "load", !.rid = i, !.credited = gets]
  <2>1. Become(r, IF ShouldTransition(q) THEN x ELSE Idle) /\ ledger' = ledger
    BY <1>6 DEF CommitReport
  <2>2. x.pet = d /\ x.want = q.want
    BY DEF Done, Idle
  <2>3. /\ d \in Pets
        /\ ShouldTransition(q) => Moved(eps[d], pets[d].cur, q.old, q.want, eps'[d], pets'[d].cur)
    BY <1>0, <1>6, ReportFacts
  <2>4. pets[d] # Nil /\ q.old = pets[d].status
    BY <1>0, <1>6 DEF AllFresh, FreshRead, CommitReport
  <2>5. OwesFound(x) => x.want = "found"
    BY DEF OwesFound
  <2>6. ShouldTransition(q) => q.want # q.old /\ ValidateTransition(q.old, q.want)
    BY DEF ShouldTransition
  <2> HIDE DEF x, d, q
  <2>7. CASE ShouldTransition(q) /\ OwesFound(x)
    <3>1. \E k \in EpIds : eps[d][k] \notin Ended /\ eps'[d][k] \in Ended
      <4>1. /\ pets[d] # Nil /\ Sound(pets[d], eps[d]) /\ eps[d] \in EpRow
          /\ pets[d].cur \in EpIds \cup {0} /\ pets[d].status \in ValidPetStatuses
          /\ pets[d].status # "found" /\ ValidateTransition(pets[d].status, "found")
          /\ Moved(eps[d], pets[d].cur, pets[d].status, "found", eps'[d], pets'[d].cur)
        BY <1>e, <2>2, <2>3, <2>4, <2>5, <2>6, <2>7
      <4> QED  BY <4>1, ReunionEnds
    <3> QED  BY <1>0, <2>1, <2>2, <2>3, <2>7, <3>1, FoundsEnded
  <2>8. CASE ~(ShouldTransition(q) /\ OwesFound(x))
    BY <1>i, <1>n, <2>1, <2>8
  <2> QED  BY <2>7, <2>8
<1>7. ASSUME NEW r \in Requests, RecordStat(r)
      PROVE  FoundsFate(p)
  <2> DEFINE q == req[r]
             x == IF RecordsFirst(q.op) THEN [q EXCEPT !.pc = "publish"] ELSE Idle
  <2>1. /\ Become(r, x) /\ q.pc = "ledger"
        /\ ledger' = IF q.want = "found" THEN [ledger EXCEPT ![q.pet].found = @ + 1]
                     ELSE [ledger EXCEPT ![q.pet].started = @ + 1]
    BY <1>7 DEF RecordStat
  <2>2. q \in Request /\ ledger \in [Pets -> [found : Nat, started : Nat]]
    BY <1>0 DEF TypeOK
  <2>3. ~OwesFound(x)
    BY <2>2 DEF OwesFound, Unrecorded, Idle, Request
  <2>4. Owed(p)' = 0
    BY <1>0, <2>1, <2>3, OwedThen
  <2>5. Owed(p) = IF q.pet = p /\ q.want = "found" THEN 1 ELSE 0
    BY <2>1, OwedNow DEF OwesFound, Unrecorded
  <2>6. /\ ledger[p].found \in Nat
        /\ ledger'[p].found = IF q.pet = p /\ q.want = "found" THEN ledger[p].found + 1
                              ELSE ledger[p].found
    BY <2>1, <2>2
  <2> QED  BY <2>4, <2>5, <2>6 DEF FoundsFate
<1>8. ASSUME NEW r \in Requests,
             \/ \E i \in ReportIds, at \in Times : CreateClosure(r, i, at)
             \/ TxRead(r) \/ LoadReport(r) \/ CommitDelete(r) \/ CommitModerate(r)
             \/ TouchClosure(r) \/ Publish(r)
             \/ RecomputeSnapshot(r) \/ RecomputeLastReported(r)
             \/ Abort(r) \/ BestEffortFails(r)
      PROVE  FoundsFate(p)
  <2>0. req[r] \in Request /\ Aimed(req[r])
    BY <1>0 DEF TypeOK, AllAimed
  <2>m. ASSUME NEW q, Become(r, q), ledger' = ledger,
               OwesFound(q) => OwesFound(req[r]) /\ q.pet = req[r].pet
        PROVE  FoundsFate(p)
    BY <1>0, <2>m, FoundsKept
  <2>1. ASSUME NEW i, NEW at, CreateClosure(r, i, at)
        PROVE  FoundsFate(p)
    BY <2>0, <2>1, <2>m DEF CreateClosure, OwesFound, Unrecorded, Request
  <2>2. CASE TxRead(r) \/ CommitModerate(r)
    BY <1>n, <2>0, <2>2 DEF TxRead, CommitModerate, OwesFound, Unrecorded, Request
  <2>3. CASE LoadReport(r)
    BY <2>0, <2>3, <2>m DEF LoadReport, OwesFound, Unrecorded, Request
  <2>4. CASE TouchClosure(r)
    BY <2>0, <2>4, <2>m DEF TouchClosure, OwesFound, Unrecorded, Request
  <2>5. CASE Publish(r)
    BY <2>0, <2>5, <2>m DEF Publish, OwesFound, Unrecorded, Idle, Request
  <2>6. CASE RecomputeSnapshot(r) \/ RecomputeLastReported(r) \/ Abort(r) \/ CommitDelete(r)
    BY <1>i, <1>n, <2>0, <2>6 DEF RecomputeSnapshot, RecomputeLastReported, Abort, CommitDelete,
       OwesFound, Unrecorded, Request
  <2>7. CASE BestEffortFails(r)
    BY <2>0, <2>7, <2>m DEF BestEffortFails, OwesFound, Unrecorded, Idle, Request
  <2> QED  BY <1>8, <2>1, <2>2, <2>3, <2>4, <2>5, <2>6, <2>7
<1>9. ASSUME NEW r \in Requests, Proceed(r)
      PROVE  FoundsFate(p)
  BY <1>3, <1>4, <1>5, <1>6, <1>7, <1>8, <1>9 DEF Proceed
<1>10. ASSUME Crash \/ UNCHANGED vars
       PROVE  FoundsFate(p)
  <2>1. ledger' = ledger /\ (req' = [r \in Requests |-> Idle] \/ req' = req)
    BY <1>10 DEF Crash, vars
  <2>2. Owed(p)' <= Owed(p) /\ ledger[p].found \in Nat /\ Owed(p) \in Nat /\ Owed(p)' \in Nat
    BY <1>0, <1>i, <2>1 DEF Owed, OwesFound, Unrecorded, TypeOK
  <2> QED  BY <2>1, <2>2 DEF FoundsFate
<1> QED  BY <1>1, <1>2, <1>8, <1>9, <1>10 DEF Next

\* platform_events counts a pet_found only for a search that ended as found,
\* so the impact page never claims a reunion there was no search for.
THEOREM ReunionsAreSearches ==
  ASSUME OneAtATime
  PROVE  Spec => []FoundWithinReunions
<1>1. ASSUME Init
      PROVE  ReunionsCounted
  <2>1. \A p \in Pets : ledger[p].found = 0 /\ Owed(p) = 0 /\ Reunited(p) = {}
    BY <1>1 DEF Init, Owed, OwesFound, Unrecorded, Idle, Reunited, Ended
  <2> QED  BY <2>1, FS_EmptySet DEF ReunionsCounted
<1>2. SerialInv /\ SerialInv' /\ ReunionsCounted /\ [Next]_vars => ReunionsCounted'
  <2> SUFFICES ASSUME SerialInv, SerialInv', ReunionsCounted, [Next]_vars
               PROVE  ReunionsCounted'
    OBVIOUS
  <2>1. \A p \in Pets : ledger'[p].found + Owed(p)' <= Cardinality(Reunited(p)')
    BY FoundsStep, FoundsFateCounts DEF SerialInv
  <2> QED  BY <2>1 DEF ReunionsCounted
<1>3. SerialInv /\ ReunionsCounted => FoundWithinReunions
  <2> SUFFICES ASSUME SerialInv, ReunionsCounted, NEW p \in Pets
               PROVE  ledger[p].found <= Cardinality(Reunited(p))
    BY DEF FoundWithinReunions, Reunited, Ended
  <2>1. IsFiniteSet(EpIds) /\ Reunited(p) \in SUBSET EpIds
    BY FS_Interval, BoundsAssumption DEF EpIds, Reunited
  <2>2. Cardinality(Reunited(p)) \in Nat
    BY <2>1, FS_Subset, FS_CardinalityType
  <2>3. ledger[p].found \in Nat /\ Owed(p) \in Nat
    BY DEF SerialInv, TypeOK, Owed
  <2> QED  BY <2>2, <2>3 DEF ReunionsCounted
<1> QED  BY <1>1, <1>2, <1>3, SerialAlways, PTL DEF Spec

-----------------------------------------------------------------------------
(* The clock.  Only an admin's deletion of a report and the touch that     *)
(* follows a closure report leave the clock behind the reports, and both   *)
(* catch up before the next request when no statement fails.               *)

\* t is the newest sighting of p among the reports rows; 0 when there is none.
Latest(rows, p, t) ==
  /\ \A i \in ReportIds : rows[i] # Nil /\ rows[i].pet = p => rows[i].at <= t
  /\ t = 0 \/ \E i \in ReportIds : rows[i] # Nil /\ rows[i].pet = p /\ rows[i].at = t

\* The pcs at which the clock of the request's pet is behind its reports.
CatchingUp == {"touch", "snapshot", "recompute"}

Clocked(row, rows, p, q) ==
  /\ q.pet = p /\ q.pc = "recompute" => Latest(rows, p, q.at)
  /\ q.pet = p /\ q.pc = "touch" => Latest(rows, p, Later(row.clock, q.at))
  /\ ~(q.pet = p /\ q.pc \in CatchingUp) => Latest(rows, p, row.clock)

AllClocked ==
  \A p \in Pets : pets[p] # Nil => \E r \in Requests : Clocked(pets[p], reports, p, req[r])

LEMMA LatestIsNewest ==
  ASSUME TypeOK, NEW p \in Pets, NEW t \in Times \cup {0}
  PROVE  Latest(reports, p, t) <=> t = NewestSighting(p)
<1>0. \A s \in Times \cup {0} : s \in Nat
  BY TimesAssumption
<1>1. \A i \in ReportsOf(p) : i \in ReportIds /\ reports[i].at \in Times /\ reports[i].at # 0
  BY TimesAssumption DEF TypeOK, ReportsOf, ReportRow
<1>2. Latest(reports, p, t) <=> /\ \A i \in ReportsOf(p) : reports[i].at <= t
                                /\ t = 0 \/ \E i \in ReportsOf(p) : reports[i].at = t
  BY DEF Latest, ReportsOf
<1>3. CASE ReportsOf(p) = {}
  BY <1>2, <1>3 DEF NewestSighting
<1>4. CASE ReportsOf(p) # {}
  <2> DEFINE Top(s) == /\ \E i \in ReportsOf(p) : reports[i].at = s
                       /\ \A i \in ReportsOf(p) : reports[i].at <= s
             seen   == {s \in Times : \E i \in ReportsOf(p) : reports[i].at = s}
  <2>1. Latest(reports, p, t) <=> Top(t)
    <3>1. PICK i \in ReportsOf(p) : TRUE
      BY <1>4
    <3>2. reports[i].at \in Nat /\ reports[i].at # 0
      BY <1>0, <1>1, <3>1
    <3>3. ~(reports[i].at <= 0)
      BY <3>2
    <3> QED  BY <1>2, <3>1, <3>3
  <2>2. \E s \in Times : Top(s)
    <3>1. \A i \in ReportsOf(p) : reports[i].at \in seen
      BY <1>1
    <3>2. seen \in SUBSET Nat /\ IsFiniteSet(seen) /\ seen # {}
      BY <1>4, <3>1, FS_Subset, TimesAssumption
    <3>3. \E s \in seen : \A x \in seen : x <= s
      BY <3>2, GreatestExists
    <3> QED  BY <3>1, <3>3
  <2>3. NewestSighting(p) = CHOOSE s \in Times : Top(s)
    BY <1>4 DEF NewestSighting
  <2>4. NewestSighting(p) \in Times /\ Top(NewestSighting(p))
    <3> HIDE DEF Top
    <3> QED  BY <2>2, <2>3
  <2>5. ASSUME NEW s \in Times, Top(s), Top(t)
        PROVE  s = t
    <3>1. s <= t /\ t <= s /\ s \in Nat /\ t \in Nat
      BY <1>0, <2>5
    <3> QED  BY <3>1
  <2> HIDE DEF Top
  <2> QED  BY <2>1, <2>4, <2>5
<1> QED  BY <1>3, <1>4

\* A report filed about d at at makes at a candidate for the newest sighting.
LEMMA LatestAdded ==
  ASSUME NEW rows, NEW rows2, NEW i \in ReportIds, NEW d, NEW at \in Nat, NEW t \in Nat,
         rows[i] = Nil, rows2[i] # Nil, rows2[i].pet = d, rows2[i].at = at,
         \A j \in ReportIds \ {i} : rows2[j] = rows[j],
         Latest(rows, d, t), \A j \in ReportIds : rows[j] # Nil => rows[j].at \in Nat
  PROVE  Latest(rows2, d, Later(t, at))
<1>1. Later(t, at) \in Nat /\ t <= Later(t, at) /\ at <= Later(t, at)
  BY DEF Later
<1>2. ASSUME NEW j \in ReportIds, rows2[j] # Nil, rows2[j].pet = d
      PROVE  rows2[j].at <= Later(t, at)
  <2>1. CASE j = i
    BY <1>1, <2>1
  <2>2. CASE j # i
    <3>1. rows[j].at \in Nat /\ rows[j].at <= t /\ rows2[j].at = rows[j].at
      BY <1>2, <2>2 DEF Latest
    <3> QED  BY <1>1, <3>1
  <2> QED  BY <2>1, <2>2
<1>3. \/ Later(t, at) = 0
      \/ \E j \in ReportIds : rows2[j] # Nil /\ rows2[j].pet = d /\ rows2[j].at = Later(t, at)
  <2>1. CASE t < at
    BY <2>1 DEF Later
  <2>2. CASE ~(t < at) /\ t # 0
    <3>1. PICK j \in ReportIds : rows[j] # Nil /\ rows[j].pet = d /\ rows[j].at = t
      BY <2>2 DEF Latest
    <3>2. j # i
      BY <3>1
    <3> QED  BY <2>2, <3>1, <3>2 DEF Later
  <2>3. CASE ~(t < at) /\ t = 0
    BY <2>3 DEF Later
  <2> QED  BY <2>1, <2>2, <2>3
<1> QED  BY <1>2, <1>3 DEF Latest

\* What is filed about one pet leaves the newest sighting of another alone.
LEMMA LatestElsewhere ==
  ASSUME NEW rows, NEW rows2, NEW i, NEW d, NEW o, o # d, NEW t,
         rows[i] = Nil \/ rows[i].pet = d, rows2[i] = Nil \/ rows2[i].pet = d,
         \A j \in ReportIds \ {i} : rows2[j] = rows[j], Latest(rows, o, t)
  PROVE  Latest(rows2, o, t)
BY DEF Latest

LEMMA ClockedNow ==
  ASSUME OneAtATime, AllClocked, NEW r \in Requests, NEW o \in Pets, pets[o] # Nil
  PROVE  Clocked(pets[o], reports, o, req[r])
<1>1. PICK s \in Requests : Clocked(pets[o], reports, o, req[s])
  BY DEF AllClocked
<1>2. s = r
  BY DEF OneAtATime
<1> QED  BY <1>1, <1>2

LEMMA ClockedThen ==
  ASSUME TypeOK, NEW r \in Requests, NEW q, Become(r, q),
         \A o \in Pets : pets'[o] # Nil => Clocked(pets'[o], reports', o, q)
  PROVE  AllClocked'
<1>1. req'[r] = q
  BY BecomeElse
<1> QED  BY <1>1 DEF AllClocked, Clocked, Latest

\* The reports CommitPublish, CommitReport and CreateClosure file are rows.
LEMMA ReportFiled ==
  ASSUME TypeOK, NEW r \in Requests, NEW i \in ReportIds,
         CommitPublish(r, i) \/ CommitReport(r, i) \/ \E at \in Times : CreateClosure(r, i, at)
  PROVE  reports'[i] # Nil
<1>0. req[r] \in Request /\ Formed(req[r]) /\ \A e : FindCurrent(e) \in EpIds \cup {0}
  BY FindCurrentType DEF TypeOK, Live
<1>1. CASE CommitPublish(r, i)
  <2> DEFINE p   == req[r].pet
             rep == [pet |-> p, reporter |-> req[r].actor, kind |-> "lost",
                     ep |-> Open(eps[p], CurrentEpisode(p)).cur, at |-> req[r].at]
  <2>1. reports' = [reports EXCEPT ![i] = rep] /\ HasFresh(eps[p])
    BY <1>1 DEF CommitPublish
  <2>2. p \in Pets /\ req[r].actor \in Users /\ req[r].at \in Times
    BY <1>0, <1>1 DEF CommitPublish, Formed
  <2>3. Open(eps[p], CurrentEpisode(p)).cur \in EpIds
    BY <2>1, FreshType DEF Open
  <2>4. rep \in ReportRow
    BY <2>2, <2>3 DEF ReportRow, ReportKinds
  <2> HIDE DEF rep
  <2> QED  BY <2>1, <2>4, RowsAssumption DEF TypeOK
<1>2. CASE CommitReport(r, i)
  <2> PICK e : reports' = [reports EXCEPT ![i] =
                 [pet |-> req[r].pet, reporter |-> req[r].actor, kind |-> req[r].want,
                  ep |-> FindCurrent(e), at |-> req[r].at]]
    BY <1>2 DEF CommitReport
  <2> DEFINE rep == [pet |-> req[r].pet, reporter |-> req[r].actor, kind |-> req[r].want,
                     ep |-> FindCurrent(e), at |-> req[r].at]
  <2>1. /\ req[r].pet \in Pets /\ req[r].actor \in Users /\ req[r].at \in Times
        /\ req[r].want \in ReportKinds
    BY <1>0, <1>2 DEF CommitReport, Formed
  <2>2. rep \in ReportRow
    BY <1>0, <2>1 DEF ReportRow
  <2>3. reports' = [reports EXCEPT ![i] = rep]
    OBVIOUS
  <2> HIDE DEF rep
  <2> QED  BY <2>2, <2>3, RowsAssumption DEF TypeOK
<1>3. ASSUME NEW at \in Times, CreateClosure(r, i, at)
      PROVE  reports'[i] # Nil
  <2> DEFINE rep == [pet |-> req[r].pet, reporter |-> req[r].actor, kind |-> "found",
                     ep |-> FindCurrent(eps[req[r].pet]), at |-> at]
  <2>1. reports' = [reports EXCEPT ![i] = rep]
    BY <1>3 DEF CreateClosure
  <2>2. req[r].pet \in Pets /\ req[r].actor \in Users
    BY <1>0, <1>3 DEF CreateClosure, Formed
  <2>3. rep \in ReportRow
    BY <1>0, <2>2 DEF ReportRow, ReportKinds
  <2> HIDE DEF rep
  <2> QED  BY <2>1, <2>3, RowsAssumption DEF TypeOK
<1> QED  BY <1>1, <1>2, <1>3

LEMMA ClockedStep ==
  ASSUME OneAtATime, ~Failures, SerialInv, ReferencesLive, AllClocked, [Next]_vars
  PROVE  AllClocked'
<1>0. TypeOK /\ AllFresh
  BY DEF SerialInv
<1>t. /\ \A o \in Pets : pets[o] # Nil => pets[o] \in PetRow /\ pets[o].clock \in Nat
      /\ \A i \in ReportIds : reports[i] # Nil => reports[i].at \in Nat
  <2>1. \A s \in Times \cup {0} : s \in Nat
    BY TimesAssumption
  <2>2. /\ \A o \in Pets : pets[o] # Nil => pets[o] \in PetRow /\ pets[o].clock \in Times \cup {0}
        /\ \A i \in ReportIds : reports[i] # Nil => reports[i].at \in Times
    BY <1>0 DEF TypeOK, PetRow, ReportRow
  <2> QED  BY <2>1, <2>2
<1>a. \A s \in Times : s \in Nat
  BY TimesAssumption
<1>u. ASSUME NEW o \in Pets, pets[o] = Nil
      PROVE  Latest(reports, o, 0)
  BY <1>u DEF ReferencesLive, Latest
<1>b. ASSUME NEW r \in Requests, req[r].pc \notin CatchingUp, NEW o \in Pets, pets[o] # Nil
      PROVE  Latest(reports, o, pets[o].clock)
  BY <1>b, ClockedNow DEF Clocked
<1>q. ASSUME NEW r \in Requests, NEW q, Become(r, q), reports' = reports,
             req[r].pc \notin CatchingUp, q.pc \notin CatchingUp,
             \A o \in Pets : pets'[o] # Nil =>
               \/ pets[o] # Nil /\ pets'[o].clock = pets[o].clock
               \/ pets[o] = Nil /\ pets'[o].clock = 0
      PROVE  AllClocked'
  <2>1. ASSUME NEW o \in Pets, pets'[o] # Nil
        PROVE  Clocked(pets'[o], reports', o, q)
    <3>1. Latest(reports, o, pets'[o].clock)
      BY <1>b, <1>q, <1>u, <2>1
    <3> QED  BY <1>q, <3>1 DEF Clocked, CatchingUp
  <2> QED  BY <1>0, <1>q, <2>1, ClockedThen
<1>n. ASSUME NEW r \in Requests, NEW q, Become(r, q), UNCHANGED <<pets, reports>>,
             req[r].pc \notin CatchingUp, q.pc \notin CatchingUp
      PROVE  AllClocked'
  BY <1>n, <1>q
<1>s. ASSUME NEW r \in Requests, NEW q, Become(r, q),
             req[r].pc \notin CatchingUp, q.pc \notin CatchingUp,
             NEW d \in Pets, OnlyPet(d), pets[d] # Nil, NEW i \in ReportIds, NEW at \in Times,
             reports[i] = Nil, reports'[i] # Nil, reports'[i].pet = d, reports'[i].at = at,
             \A j \in ReportIds \ {i} : reports'[j] = reports[j],
             pets'[d].clock = Later(pets[d].clock, at)
      PROVE  AllClocked'
  <2>1. Latest(reports', d, pets'[d].clock)
    <3>1. Latest(reports, d, pets[d].clock) /\ pets[d].clock \in Nat /\ at \in Nat
      BY <1>a, <1>b, <1>s, <1>t
    <3>2. Latest(reports', d, Later(pets[d].clock, at))
      BY <1>s, <1>t, <3>1, LatestAdded
    <3> QED  BY <1>s, <3>2
  <2>2. ASSUME NEW o \in Pets, o # d, pets'[o] # Nil
        PROVE  Latest(reports', o, pets'[o].clock)
    <3>1. pets'[o] = pets[o] /\ Latest(reports, o, pets[o].clock)
      BY <1>b, <1>s, <2>2 DEF OnlyPet
    <3>2. Latest(reports', o, pets[o].clock)
      BY <1>s, <2>2, <3>1, LatestElsewhere
    <3> QED  BY <3>1, <3>2
  <2>3. ASSUME NEW o \in Pets, pets'[o] # Nil
        PROVE  Clocked(pets'[o], reports', o, q)
    BY <1>s, <2>1, <2>2, <2>3 DEF Clocked, CatchingUp
  <2> QED  BY <1>0, <1>s, <2>3, ClockedThen
<1>1. ASSUME NEW r \in Requests, NEW u \in Users, NEW p \in Pets, NEW st, CreatePet(r, u, p, st)
      PROVE  AllClocked'
  <2>1. /\ pets' = [pets EXCEPT ![p] = NewPet(u, st)] /\ reports' = reports /\ req' = req
        /\ pets[p] = Nil /\ NewPet(u, st).clock = 0 /\ req[r].pc \notin CatchingUp
    BY <1>1 DEF CreatePet, NewPet, CatchingUp
  <2> DEFINE row == NewPet(u, st)
  <2> HIDE DEF row
  <2>2. ASSUME NEW o \in Pets, pets'[o] # Nil
        PROVE  Clocked(pets'[o], reports, o, req[r])
    <3>1. Latest(reports, o, pets'[o].clock)
      <4>1. CASE o = p
        BY <1>0, <1>u, <2>1, <4>1 DEF TypeOK
      <4>2. CASE o # p
        BY <1>0, <1>b, <2>1, <2>2, <4>2 DEF TypeOK
      <4> QED  BY <4>1, <4>2
    <3> QED  BY <2>1, <3>1 DEF Clocked, CatchingUp
  <2> QED  BY <2>1, <2>2 DEF AllClocked, Clocked, Latest
<1>2. ASSUME NEW r \in Requests, NEW u \in Users, NEW p \in Pets, NEW i \in ReportIds,
             NEW at \in Times, CreateStray(r, u, p, i, at)
      PROVE  AllClocked'
  <2> DEFINE q == [Idle EXCEPT !.pc = "ledger", !.op = "create", !.pet = p, !.want = "stray"]
             rep == [pet |-> p, reporter |-> u, kind |-> "sighting",
                     ep |-> Open(eps[p], 0).cur, at |-> at]
  <2>1. /\ Become(r, q) /\ req[r].pc \notin CatchingUp /\ q.pc \notin CatchingUp
        /\ reports' = [reports EXCEPT ![i] = rep] /\ HasFresh(eps[p])
    BY <1>2 DEF CreateStray, Idle, CatchingUp
  <2>2. rep \in ReportRow
    <3>1. Open(eps[p], 0).cur \in EpIds
      BY <2>1, FreshType DEF Open
    <3> QED  BY <3>1 DEF ReportRow, ReportKinds
  <2>3. reports'[i] # Nil
    <3> HIDE DEF rep
    <3> QED  BY <1>0, <2>1, <2>2, RowsAssumption DEF TypeOK
  <2>4. /\ pets[p] = Nil /\ OnlyPet(p) /\ pets'[p].clock = at /\ reports'[i].at = at
        /\ reports[i] = Nil /\ reports'[i].pet = p
        /\ \A j \in ReportIds \ {i} : reports'[j] = reports[j]
    <3>1. /\ pets[p] = Nil /\ OnlyPet(p) /\ pets'[p].clock = at /\ reports'[i].at = at
          /\ Opening(p, i)
      BY <1>0, <1>2, StrayFacts
    <3> QED  BY <3>1 DEF Opening
  <2> HIDE DEF q, rep
  <2>5. Latest(reports', p, at)
    <3>1. Latest(reports, p, 0) /\ at \in Nat /\ Later(0, at) = at
      BY <1>a, <1>u, <2>4 DEF Later
    <3>2. Latest(reports', p, Later(0, at))
      BY <1>t, <2>3, <2>4, <3>1, LatestAdded
    <3> QED  BY <3>1, <3>2
  <2>6. ASSUME NEW o \in Pets, o # p, pets'[o] # Nil
        PROVE  Latest(reports', o, pets'[o].clock)
    <3>1. pets'[o] = pets[o] /\ Latest(reports, o, pets[o].clock)
      BY <1>b, <2>1, <2>4, <2>6 DEF OnlyPet
    <3>2. Latest(reports', o, pets[o].clock)
      <4>1. /\ reports[i] = Nil /\ reports'[i].pet = p /\ o # p
            /\ \A j \in ReportIds \ {i} : reports'[j] = reports[j]
            /\ Latest(reports, o, pets[o].clock)
        BY <2>4, <2>6, <3>1
      <4> QED  BY <4>1, LatestElsewhere
    <3> QED  BY <3>1, <3>2
  <2>7. ASSUME NEW o \in Pets, pets'[o] # Nil
        PROVE  Clocked(pets'[o], reports', o, q)
    BY <2>1, <2>4, <2>5, <2>6, <2>7 DEF Clocked, CatchingUp
  <2> QED  BY <1>0, <2>1, <2>7, ClockedThen
<1>3. ASSUME NEW r \in Requests, Arrive(r)
      PROVE  AllClocked'
  <2>1. ASSUME NEW u, NEW d, NEW w, NEW h, BeginUpdate(r, u, d, w, h)
        PROVE  AllClocked'
    BY <1>n, <2>1 DEF BeginUpdate, Idle, CatchingUp
  <2>2. ASSUME NEW u, NEW d, NEW h, BeginFound(r, u, d, h)
        PROVE  AllClocked'
    BY <1>n, <2>2 DEF BeginFound, Idle, CatchingUp
  <2>3. ASSUME NEW u, NEW d, NEW at, BeginPublish(r, u, d, at)
        PROVE  AllClocked'
    BY <1>n, <2>3 DEF BeginPublish, Idle, CatchingUp
  <2>4. ASSUME NEW u, NEW d, NEW k, NEW at, NEW h, BeginReport(r, u, d, k, at, h)
        PROVE  AllClocked'
    BY <1>n, <2>4 DEF BeginReport, Idle, CatchingUp
  <2>5. ASSUME NEW u, NEW d, BeginDelete(r, u, d)
        PROVE  AllClocked'
    BY <1>n, <2>5 DEF BeginDelete, Idle, CatchingUp
  <2> QED  BY <1>1, <1>2, <1>3, <2>1, <2>2, <2>3, <2>4, <2>5 DEF Arrive
<1>4. ASSUME NEW r \in Requests, NEW i \in ReportIds, BeginModerate(r, i)
      PROVE  AllClocked'
  BY <1>n, <1>4 DEF BeginModerate, Idle, CatchingUp
<1>5. ASSUME NEW r \in Requests, CommitUpdate(r)
      PROVE  AllClocked'
  <2> DEFINE p == req[r].pet
  <2>1. /\ p \in Pets /\ OnlyPet(p)
        /\ pets'[p].clock = IF pets[p] = Nil THEN 0 ELSE pets[p].clock
    BY <1>0, <1>5, UpdateFacts
  <2>2. PICK q : Become(r, q) /\ q.pc \notin CatchingUp
    <3>1. ASSUME NEW c
          PROVE  [Done(req[r]) EXCEPT !.credited = c].pc = "publish" /\ Idle.pc = "idle"
      BY DEF Done, Idle
    <3> QED  BY <1>5, <3>1 DEF CommitUpdate, CatchingUp
  <2>3. req[r].pc \notin CatchingUp /\ reports' = reports
    BY <1>5 DEF CommitUpdate, CatchingUp
  <2> HIDE DEF p
  <2> QED  BY <1>q, <2>1, <2>2, <2>3 DEF OnlyPet
<1>6. ASSUME NEW r \in Requests, CommitFound(r)
      PROVE  AllClocked'
  <2> DEFINE p == req[r].pet
             q == [Done(req[r]) EXCEPT !.pc = "closure", !.actor = req[r].actor,
                                       !.credited = InsertCredits(p, req[r].helpers)]
  <2>1. /\ Become(r, q) /\ req[r].pc \notin CatchingUp /\ reports' = reports
    BY <1>6 DEF CommitFound, CatchingUp
  <2>2. q.pc \notin CatchingUp
    BY DEF Done, Idle, CatchingUp
  <2>3. p \in Pets /\ OnlyPet(p) /\ pets[p] # Nil /\ pets'[p].clock = pets[p].clock
    <3>1. pets[p] # Nil
      BY <1>0, <1>6 DEF AllFresh, FreshRead, CommitFound
    <3>2. /\ p \in Pets /\ OnlyPet(p) /\ pets[p] \in PetRow
          /\ pets'[p] = [pets[p] EXCEPT !.status = "found"]
      BY <1>0, <1>6, <3>1, FoundFacts
    <3> HIDE DEF p
    <3> QED  BY <3>1, <3>2 DEF PetRow
  <2> HIDE DEF p, q
  <2> QED  BY <1>q, <2>1, <2>2, <2>3 DEF OnlyPet
<1>7. ASSUME NEW r \in Requests, NEW i \in ReportIds, CommitPublish(r, i)
      PROVE  AllClocked'
  <2> DEFINE d == req[r].pet
             q == Done(req[r])
  <2>1. Become(r, q) /\ req[r].pc \notin CatchingUp /\ pets[d] # Nil
    BY <1>7 DEF CommitPublish, CatchingUp
  <2>2. q.pc \notin CatchingUp
    BY DEF Done, Idle, CatchingUp
  <2>3. /\ d \in Pets /\ OnlyPet(d) /\ req[r].at \in Times /\ Opening(d, i)
        /\ pets'[d].clock = Later(pets[d].clock, req[r].at) /\ reports'[i].at = req[r].at
    BY <1>0, <1>7, PublishFacts
  <2>4. reports'[i] # Nil
    BY <1>0, <1>7, ReportFiled
  <2>5. /\ reports[i] = Nil /\ reports'[i].pet = d
        /\ \A j \in ReportIds \ {i} : reports'[j] = reports[j]
    BY <2>3 DEF Opening
  <2> HIDE DEF d, q
  <2> QED  BY <1>s, <2>1, <2>2, <2>3, <2>4, <2>5
<1>8. ASSUME NEW r \in Requests, NEW i \in ReportIds, CommitReport(r, i)
      PROVE  AllClocked'
  <2> DEFINE d == req[r].pet
  <2>1. req[r].pc \notin CatchingUp /\ pets[d] # Nil
    BY <1>8 DEF CommitReport, CatchingUp
  <2>2. PICK q : Become(r, q) /\ q.pc \notin CatchingUp
    <3>1. ASSUME NEW c
          PROVE  /\ [Done(req[r]) EXCEPT !.pc = "load", !.rid = i, !.credited = c].pc = "load"
                 /\ Idle.pc = "idle"
      BY DEF Done, Idle
    <3> QED  BY <1>8, <3>1 DEF CommitReport, CatchingUp
  <2>3. /\ d \in Pets /\ OnlyPet(d) /\ req[r].at \in Times
        /\ pets'[d].clock = Later(pets[d].clock, req[r].at) /\ reports'[i].at = req[r].at
        /\ reports[i] = Nil /\ reports'[i].pet = d
        /\ \A j \in ReportIds \ {i} : reports'[j] = reports[j]
    BY <1>0, <1>8, ReportFacts
  <2>4. reports'[i] # Nil
    BY <1>0, <1>8, ReportFiled
  <2> HIDE DEF d
  <2> QED  BY <1>s, <2>1, <2>2, <2>3, <2>4
<1>9. ASSUME NEW r \in Requests, NEW i \in ReportIds, NEW at \in Times, CreateClosure(r, i, at)
      PROVE  AllClocked'
  <2> DEFINE d == req[r].pet
             q == [req[r] EXCEPT !.pc = "touch", !.at = at]
  <2>1. /\ Become(r, q) /\ req[r].pc = "closure" /\ pets[d] # Nil /\ reports[i] = Nil /\ pets' = pets
        /\ reports' = [reports EXCEPT ![i] =
             [pet |-> d, reporter |-> req[r].actor, kind |-> "found",
              ep |-> FindCurrent(eps[d]), at |-> at]]
    BY <1>9 DEF CreateClosure
  <2>2. q.pc = "touch" /\ q.pet = d /\ q.at = at /\ d \in Pets
    BY <1>0, <2>1 DEF TypeOK, Request, Formed
  <2>3. /\ reports'[i] # Nil /\ reports'[i].pet = d /\ reports'[i].at = at
        /\ \A j \in ReportIds \ {i} : reports'[j] = reports[j]
    <3>1. reports'[i] # Nil
      BY <1>0, <1>9, ReportFiled
    <3> QED  BY <1>0, <2>1, <3>1 DEF TypeOK
  <2> HIDE DEF d, q
  <2>4. ASSUME NEW o \in Pets, pets[o] # Nil
        PROVE  Latest(reports, o, pets[o].clock)
    BY <1>b, <2>1, <2>4 DEF CatchingUp
  <2>5. Latest(reports', d, Later(pets[d].clock, at))
    <3>1. Latest(reports, d, pets[d].clock) /\ pets[d].clock \in Nat /\ at \in Nat
      BY <1>a, <1>t, <2>1, <2>2, <2>4
    <3> QED  BY <1>t, <2>1, <2>3, <3>1, LatestAdded
  <2>6. ASSUME NEW o \in Pets, o # d, pets[o] # Nil
        PROVE  Latest(reports', o, pets[o].clock)
    <3>1. /\ reports[i] = Nil /\ reports'[i].pet = d /\ o # d
          /\ \A j \in ReportIds \ {i} : reports'[j] = reports[j]
          /\ Latest(reports, o, pets[o].clock)
      BY <2>1, <2>3, <2>4, <2>6
    <3> QED  BY <3>1, LatestElsewhere
  <2>7. ASSUME NEW o \in Pets, pets'[o] # Nil
        PROVE  Clocked(pets'[o], reports', o, q)
    BY <2>1, <2>2, <2>5, <2>6, <2>7 DEF Clocked, CatchingUp
  <2> QED  BY <1>0, <2>1, <2>7, ClockedThen
<1>10. ASSUME NEW r \in Requests, TouchClosure(r) \/ RecomputeLastReported(r)
       PROVE  AllClocked'
  <2> DEFINE d == req[r].pet
  <2>1. /\ d \in Pets /\ OnlyPet(d) /\ reports' = reports
        /\ pets[d] = Nil => pets'[d] = Nil
        /\ pets[d] # Nil =>
             /\ TouchClosure(r) => pets'[d].clock = Later(pets[d].clock, req[r].at)
             /\ RecomputeLastReported(r) => pets'[d].clock = req[r].at
    BY <1>0, <1>10, ClockFacts
  <2>2. PICK q : Become(r, q) /\ q.pc \notin CatchingUp
    <3>1. req[r] \in Request
      BY <1>0 DEF TypeOK
    <3>2. /\ [req[r] EXCEPT !.pc = "publish", !.actor = Nil, !.at = 0].pc = "publish"
          /\ Idle.pc = "idle"
      BY <3>1 DEF Request, Idle
    <3> QED  BY <1>10, <3>2 DEF TouchClosure, RecomputeLastReported, CatchingUp
  <2>3. \/ TouchClosure(r) /\ req[r].pc = "touch"
        \/ RecomputeLastReported(r) /\ req[r].pc = "recompute"
    BY <1>10 DEF TouchClosure, RecomputeLastReported
  <2> HIDE DEF d
  <2>4. ASSUME NEW o \in Pets, pets'[o] # Nil
        PROVE  Latest(reports, o, pets'[o].clock)
    <3>1. pets[o] # Nil /\ Clocked(pets[o], reports, o, req[r])
      BY <2>1, <2>4, ClockedNow DEF OnlyPet
    <3>2. CASE o = d
      BY <2>1, <2>3, <3>1, <3>2 DEF Clocked, d
    <3>3. CASE o # d
      BY <2>1, <3>1, <3>3 DEF Clocked, OnlyPet, d
    <3> QED  BY <3>2, <3>3
  <2>5. ASSUME NEW o \in Pets, pets'[o] # Nil
        PROVE  Clocked(pets'[o], reports', o, q)
    BY <2>1, <2>2, <2>4, <2>5 DEF Clocked, CatchingUp
  <2> QED  BY <1>0, <2>2, <2>5, ClockedThen
<1>11. ASSUME NEW r \in Requests, CommitDelete(r)
       PROVE  AllClocked'
  <2> DEFINE d == req[r].pet
  <2>1. /\ Become(r, Idle) /\ req[r].pc \notin CatchingUp /\ Idle.pc \notin CatchingUp
    BY <1>11 DEF CommitDelete, Idle, CatchingUp
  <2>2. /\ d \in Pets /\ OnlyPet(d) /\ pets'[d] = Nil
        /\ \A i \in ReportIds : reports'[i] = IF i \in ReportsOf(d) THEN Nil ELSE reports[i]
    BY <1>0, <1>11, DeleteFacts
  <2> HIDE DEF d
  <2>3. ASSUME NEW o \in Pets, pets'[o] # Nil
        PROVE  Clocked(pets'[o], reports', o, Idle)
    <3>1. o # d /\ pets'[o] = pets[o] /\ Latest(reports, o, pets[o].clock)
      BY <1>b, <2>1, <2>2, <2>3 DEF OnlyPet
    <3>2. \A i \in ReportIds : \/ reports'[i] = reports[i]
                               \/ reports'[i] = Nil /\ reports[i].pet = d
      BY <2>2 DEF ReportsOf
    <3>3. Latest(reports', o, pets[o].clock)
      BY <3>1, <3>2 DEF Latest
    <3> QED  BY <2>1, <3>1, <3>3 DEF Clocked, CatchingUp
  <2> QED  BY <1>0, <2>1, <2>3, ClockedThen
<1>12. ASSUME NEW r \in Requests, CommitModerate(r)
       PROVE  AllClocked'
  <2> DEFINE d == req[r].pet
             i == req[r].rid
             q == [req[r] EXCEPT !.pc = "snapshot"]
  <2>1. /\ Become(r, q) /\ pets' = pets /\ req[r].pc \notin CatchingUp
        /\ reports' = [reports EXCEPT ![i] = Nil]
    BY <1>12 DEF CommitModerate, CatchingUp
  <2>2. q.pc = "snapshot" /\ q.pet = d /\ i \in ReportIds /\ reports[i].pet = d
    BY <1>0, <1>12 DEF CommitModerate, TypeOK, Request, Formed, AllFresh, FreshRead
  <2> HIDE DEF d, i, q
  <2>3. reports'[i] = Nil /\ \A j \in ReportIds \ {i} : reports'[j] = reports[j]
    BY <1>0, <2>1, <2>2 DEF TypeOK
  <2>4. ASSUME NEW o \in Pets, pets'[o] # Nil
        PROVE  Clocked(pets'[o], reports', o, q)
    <3>1. Latest(reports, o, pets[o].clock)
      BY <1>b, <2>1, <2>4
    <3>2. CASE o # d
      <4>1. Latest(reports', o, pets[o].clock)
        BY <2>2, <2>3, <3>1, <3>2, LatestElsewhere
      <4> QED  BY <2>1, <2>2, <3>2, <4>1 DEF Clocked
    <3>3. CASE o = d
      BY <2>2, <3>3 DEF Clocked, CatchingUp
    <3> QED  BY <3>2, <3>3
  <2> QED  BY <1>0, <2>1, <2>4, ClockedThen
<1>13. ASSUME NEW r \in Requests, RecomputeSnapshot(r)
       PROVE  AllClocked'
  <2> DEFINE d == req[r].pet
             q == [req[r] EXCEPT !.pc = "recompute", !.at = NewestSighting(d)]
  <2>1. Become(r, q) /\ pets' = pets /\ reports' = reports /\ req[r].pc = "snapshot"
    BY <1>13 DEF RecomputeSnapshot
  <2>2. q.pc = "recompute" /\ q.pet = d /\ q.at = NewestSighting(d) /\ d \in Pets
    BY <1>0, <2>1 DEF TypeOK, Request, Formed
  <2> HIDE DEF d, q
  <2>3. Latest(reports, d, NewestSighting(d))
    BY <1>0, <2>2, NewestSightingType, LatestIsNewest
  <2>4. ASSUME NEW o \in Pets, pets'[o] # Nil
        PROVE  Clocked(pets'[o], reports', o, q)
    <3>1. Clocked(pets[o], reports, o, req[r])
      BY <2>1, <2>4, ClockedNow
    <3>2. o # d => Latest(reports, o, pets[o].clock)
      BY <3>1 DEF Clocked, d
    <3> QED  BY <2>1, <2>2, <2>3, <3>2 DEF Clocked, CatchingUp
  <2> QED  BY <1>0, <2>1, <2>4, ClockedThen
<1>14. ASSUME NEW r \in Requests,
              TxRead(r) \/ LoadReport(r) \/ Publish(r) \/ RecordStat(r) \/ Abort(r)
              \/ BestEffortFails(r)
       PROVE  AllClocked'
  <2>0. req[r] \in Request
    BY <1>0 DEF TypeOK
  <2>1. CASE TxRead(r) \/ LoadReport(r)
    BY <1>n, <2>0, <2>1 DEF TxRead, LoadReport, Request, CatchingUp
  <2>2. CASE Publish(r) \/ RecordStat(r)
    BY <1>n, <2>0, <2>2 DEF Publish, RecordStat, Request, Idle, CatchingUp
  <2>3. CASE Abort(r)
    BY <1>n, <2>0, <2>3 DEF Abort, Idle, CatchingUp
  <2>4. CASE BestEffortFails(r)
    BY <1>n, <2>0, <2>4 DEF BestEffortFails, Request, Idle, CatchingUp
  <2> QED  BY <1>14, <2>1, <2>2, <2>3, <2>4
<1>15. ASSUME NEW r \in Requests, Proceed(r)
       PROVE  AllClocked'
  BY <1>5, <1>6, <1>7, <1>8, <1>9, <1>10, <1>11, <1>12, <1>13, <1>14, <1>15 DEF Proceed
<1>16. CASE UNCHANGED vars
  BY <1>16 DEF vars, AllClocked, Clocked, Latest
<1> QED  BY <1>3, <1>4, <1>14, <1>15, <1>16 DEF Next, Crash

\* With no statement failing, last_reported_at is the newest sighting of the
\* pet whenever no request is about to write it.
THEOREM ClockIsTheNewestSighting ==
  ASSUME OneAtATime, ~Failures
  PROVE  Spec => []ClockIsNewestSighting
<1>1. Init => AllClocked
  BY DEF Init, AllClocked
<1>2. SerialInv /\ ReferencesLive /\ AllClocked /\ [Next]_vars => AllClocked'
  BY ClockedStep
<1>3. SerialInv /\ AllClocked => ClockIsNewestSighting
  <2> SUFFICES ASSUME SerialInv, AllClocked,
                      \A r \in Requests : req[r].pc \in {"idle", "load", "publish", "ledger"},
                      NEW p \in Pets, pets[p] # Nil
               PROVE  pets[p].clock = NewestSighting(p)
    BY DEF ClockIsNewestSighting
  <2>1. PICK r \in Requests : Clocked(pets[p], reports, p, req[r])
    BY DEF AllClocked
  <2>2. Latest(reports, p, pets[p].clock)
    BY <2>1 DEF Clocked, CatchingUp
  <2>3. TypeOK /\ pets[p].clock \in Times \cup {0}
    BY DEF SerialInv, TypeOK, PetRow
  <2> QED  BY <2>2, <2>3, LatestIsNewest
<1> QED  BY <1>1, <1>2, <1>3, SerialAlways, ReferencesStayLive, PTL DEF Spec
=============================================================================
