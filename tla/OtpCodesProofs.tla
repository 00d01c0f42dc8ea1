---------------------------- MODULE OtpCodesProofs ---------------------------
(***************************************************************************)
(* The one-time codes for any number of accounts, requests and guesses and *)
(* any limits: the quota of mails, the limit on guesses, and what spends   *)
(* the quota.                                                              *)
(***************************************************************************)
EXTENDS OtpCodes, FiniteSetTheorems, TLAPS

UnderLock == {"locked", "counted", "minted"}
Before == {"idle", "allowed", "waiting", "locked", "counted"}
WithCode == {"minted", "retiring", "mailing"}

\* Calls and codes belong to accounts; what is guessed at is a code.
Owned ==
    /\ \A r \in Requests : req[r] # "idle" => by[r] \in Users
    /\ \A r \in codes : req[r] # "idle"
    /\ \A g \in Guesses : guess[g].at \in {"found", "tried", "right"} =>
          guess[g].code \in Requests /\ req[guess[g].code] # "idle"

\* A row exists from Create to the end of its request and is deleted by that
\* request alone; a mail that went keeps its row.
RowsKept ==
    /\ \A r \in Requests : req[r] \in WithCode => r \in codes
    /\ \A r \in Requests : req[r] \in Before => r \notin codes
    /\ \A r \in mailed : req[r] = "ended" /\ r \in codes

\* Whoever works under the lock holds it or has lost it.
LockHeld ==
    /\ lock # None => req[lock] \in UnderLock /\ lock \notin cut
    /\ \A r \in Requests : req[r] \in UnderLock => r \in cut \/ lock = r
    /\ \A r \in cut : req[r] \in UnderLock \cup {"ended"}

\* Requests that have had a mail sent, or still may: counted, and not cut.
MayMail == mailed \cup {r \in Requests : req[r] \in WithCode \cup {"counted"} /\ r \notin cut}

QuotaKept ==
    /\ Cardinality(MayMail) <= GlobalMax[channel]
    /\ \A u \in Users : Cardinality({r \in MayMail : by[r] = u}) <= UserMax[channel]

\* A guess that added to the counter either was compared or still may be.
Tried(c) == {g \in Guesses : guess[g].at = "tried" /\ guess[g].code = c}
Spent == {g \in Guesses : guess[g].at \notin {"idle", "found"}}

GuessesCounted ==
    \A c \in Requests :
        /\ compared[c] + Cardinality(Tried(c)) <= attempts[c]
        /\ attempts[c] <= Cardinality(Spent)

-----------------------------------------------------------------------------
(* Types and owners *)

LEMMA RequestsCounted ==
    ASSUME NEW S \in SUBSET Requests
    PROVE  IsFiniteSet(S) /\ Cardinality(S) \in Nat
BY CallsAssumption, FS_Subset, FS_CardinalityType

LEMMA GuessesFinite ==
    ASSUME NEW S \in SUBSET Guesses
    PROVE  IsFiniteSet(S) /\ Cardinality(S) \in Nat /\ Cardinality(S) <= Cardinality(Guesses)
BY CallsAssumption, FS_Subset, FS_CardinalityType

\* attempts and compared stay within the guesses made.
Numbers ==
    /\ channel \in Channels
    /\ req \in [Requests -> InTransaction \cup
                            {"idle", "allowed", "retiring", "mailing", "ended"}]
    /\ by \in [Requests -> Users \cup {None}]
    /\ codes \subseteq Requests /\ created \in [Requests -> Nat]
    /\ used \subseteq Requests /\ fresh \subseteq Requests /\ cut \subseteq Requests
    /\ attempts \in [Requests -> Nat]
    /\ lock \in Requests \cup {None}
    /\ guess \in [Guesses -> [at : {"idle", "found", "tried", "right", "ended"},
                              code : Requests \cup {None}, right : BOOLEAN]]
    /\ verified \subseteq Users
    /\ mailed \subseteq Requests /\ orphans \subseteq Requests
    /\ compared \in [Requests -> Nat]

LEMMA NumbersStep ==
    ASSUME Numbers, Owned, [Next]_vars
    PROVE  Numbers' /\ Owned'
<1> USE DEF Numbers, Owned, Goes, Table, History, InTransaction
<1>1. ASSUME NEW r \in Requests, NEW u \in Users, Request(r, u) PROVE Numbers' /\ Owned'
  BY <1>1 DEF Request
<1>2. ASSUME NEW r \in Requests, BeginLock(r) PROVE Numbers' /\ Owned'
  BY <1>2 DEF BeginLock
<1>3. ASSUME NEW r \in Requests, Count(r) PROVE Numbers' /\ Owned'
  BY <1>3 DEF Count, Release
<1>4. ASSUME NEW r \in Requests, Create(r) PROVE Numbers' /\ Owned'
  <2>1. Cardinality({s \in Requests : created[s] # 0}) \in Nat
    BY RequestsCounted
  <2> QED
    BY <1>4, <2>1 DEF Create
<1>5. ASSUME NEW r \in Requests, EndLock(r) PROVE Numbers' /\ Owned'
  BY <1>5 DEF EndLock, Release, Delete
<1>6. ASSUME NEW r \in Requests, Retire(r) PROVE Numbers' /\ Owned'
  BY <1>6 DEF Retire, Of
<1>7. ASSUME NEW r \in Requests, MailGoes(r) PROVE Numbers' /\ Owned'
  BY <1>7 DEF MailGoes
<1>8. ASSUME NEW r \in Requests, MailFails(r) PROVE Numbers' /\ Owned'
  BY <1>8 DEF MailFails, Delete
<1>9. ASSUME NEW r \in Requests, Lock(r) PROVE Numbers' /\ Owned'
  BY <1>9 DEF Lock
<1>10. ASSUME NEW r \in Requests, LoseLock(r) PROVE Numbers' /\ Owned'
  BY <1>10 DEF LoseLock
<1>11. ASSUME NEW r \in Requests, Dies(r) PROVE Numbers' /\ Owned'
  BY <1>11 DEF Dies, Release
<1>12. ASSUME MinutePasses PROVE Numbers' /\ Owned'
  BY <1>12 DEF MinutePasses
<1>13. ASSUME NEW g \in Guesses, NEW u \in Users, NEW right \in BOOLEAN, Find(g, u, right)
       PROVE  Numbers' /\ Owned'
  BY <1>13 DEF Find, Active, Open, Of
<1>14. ASSUME NEW g \in Guesses, Increment(g) PROVE Numbers' /\ Owned'
  BY <1>14 DEF Increment
<1>15. ASSUME NEW g \in Guesses, Compare(g) PROVE Numbers' /\ Owned'
  <2> DEFINE c == guess[g].code
  <2>0. c \in Requests /\ req[c] # "idle" /\ guess[g].right \in BOOLEAN
    BY <1>15 DEF Compare
  <2>1. CASE guess' = [guess EXCEPT ![g] = Nobody("ended")]
    BY <1>15, <2>0, <2>1 DEF Compare, Nobody
  <2>2. CASE guess' = [guess EXCEPT ![g] = [@ EXCEPT !.at = "right"]] /\ UNCHANGED used
    BY <1>15, <2>0, <2>2 DEF Compare
  <2> QED
    BY <1>15, <2>1, <2>2 DEF Compare
<1>16. ASSUME NEW g \in Guesses, Redeem(g) PROVE Numbers' /\ Owned'
  BY <1>16 DEF Redeem, Nobody, Of
<1>17. ASSUME UNCHANGED vars PROVE Numbers' /\ Owned'
  BY <1>17 DEF vars
<1> QED
  BY <1>1, <1>2, <1>3, <1>4, <1>5, <1>6, <1>7, <1>8, <1>9, <1>10, <1>11, <1>12,
     <1>13, <1>14, <1>15, <1>16, <1>17 DEF Next, Step

-----------------------------------------------------------------------------
(* The lock and the rows *)

LEMMA LockStep ==
    ASSUME Numbers, LockHeld, [Next]_vars
    PROVE  LockHeld'
<1> USE CallsAssumption DEF Numbers, LockHeld, Goes, Table, History, UnderLock, InTransaction
<1>1. ASSUME NEW r \in Requests, NEW u \in Users, Request(r, u) PROVE LockHeld'
  BY <1>1 DEF Request
<1>2. ASSUME NEW r \in Requests, BeginLock(r) PROVE LockHeld'
  BY <1>2 DEF BeginLock
<1>3. ASSUME NEW r \in Requests, Count(r) PROVE LockHeld'
  BY <1>3 DEF Count, Release
<1>4. ASSUME NEW r \in Requests, Create(r) PROVE LockHeld'
  BY <1>4 DEF Create
<1>5. ASSUME NEW r \in Requests, EndLock(r) PROVE LockHeld'
  BY <1>5 DEF EndLock, Release
<1>6. ASSUME NEW r \in Requests, Retire(r) \/ MailGoes(r) \/ MailFails(r) PROVE LockHeld'
  BY <1>6 DEF Retire, MailGoes, MailFails
<1>7. ASSUME NEW r \in Requests, Lock(r) PROVE LockHeld'
  BY <1>7 DEF Lock, Lockable
<1>8. ASSUME NEW r \in Requests, LoseLock(r) PROVE LockHeld'
  BY <1>8 DEF LoseLock
<1>9. ASSUME NEW r \in Requests, Dies(r) PROVE LockHeld'
  BY <1>9 DEF Dies, Release
<1>10. ASSUME UNCHANGED <<req, lock, cut>> PROVE LockHeld'
  BY <1>10
<1> QED
  BY <1>1, <1>2, <1>3, <1>4, <1>5, <1>6, <1>7, <1>8, <1>9, <1>10
  DEF Next, Step, MinutePasses, Find, Increment, Compare, Redeem, vars

LEMMA RowsStep ==
    ASSUME Numbers, RowsKept, [Next]_vars
    PROVE  RowsKept'
<1> USE DEF Numbers, RowsKept, Goes, Table, History, Before, WithCode, InTransaction
<1>1. ASSUME NEW r \in Requests, NEW u \in Users, Request(r, u) PROVE RowsKept'
  BY <1>1 DEF Request
<1>2. ASSUME NEW r \in Requests, BeginLock(r) \/ Lock(r) PROVE RowsKept'
  BY <1>2 DEF BeginLock, Lock
<1>3. ASSUME NEW r \in Requests, Count(r) PROVE RowsKept'
  BY <1>3 DEF Count
<1>4. ASSUME NEW r \in Requests, Create(r) PROVE RowsKept'
  BY <1>4 DEF Create
<1>5. ASSUME NEW r \in Requests, EndLock(r) PROVE RowsKept'
  BY <1>5 DEF EndLock, Delete
<1>6. ASSUME NEW r \in Requests, Retire(r) PROVE RowsKept'
  BY <1>6 DEF Retire
<1>7. ASSUME NEW r \in Requests, MailGoes(r) PROVE RowsKept'
  BY <1>7 DEF MailGoes
<1>8. ASSUME NEW r \in Requests, MailFails(r) PROVE RowsKept'
  BY <1>8 DEF MailFails, Delete
<1>9. ASSUME NEW r \in Requests, Dies(r) PROVE RowsKept'
  BY <1>9 DEF Dies
<1>10. ASSUME UNCHANGED <<req, codes, mailed>> PROVE RowsKept'
  BY <1>10
<1> QED
  BY <1>1, <1>2, <1>3, <1>4, <1>5, <1>6, <1>7, <1>8, <1>9, <1>10
  DEF Next, Step, LoseLock, MinutePasses, Find, Increment, Compare, Redeem, vars

-----------------------------------------------------------------------------
(* The quota *)

\* Fewer requests that may mail, of the same accounts, keep the quota.
LEMMA QuotaShrinks ==
    ASSUME Numbers, Numbers', QuotaKept, channel' = channel,
           MayMail' \subseteq MayMail, \A r \in MayMail' : by'[r] = by[r]
    PROVE  QuotaKept'
<1>1. MayMail \subseteq Requests
  BY DEF MayMail, Numbers
<1>2. Cardinality(MayMail') <= Cardinality(MayMail)
  BY <1>1, RequestsCounted, FS_Subset
<1>3. ASSUME NEW u \in Users
      PROVE  Cardinality({r \in MayMail' : by'[r] = u}) <= Cardinality({r \in MayMail : by[r] = u})
  <2>1. {r \in MayMail' : by'[r] = u} \in SUBSET {r \in MayMail : by[r] = u}
    OBVIOUS
  <2>2. IsFiniteSet({r \in MayMail : by[r] = u})
    BY <1>1, RequestsCounted
  <2> QED
    BY <2>1, <2>2, FS_Subset
<1>4. Cardinality(MayMail) \in Nat /\ Cardinality(MayMail') \in Nat
  BY <1>1, RequestsCounted
<1>5. ASSUME NEW u \in Users
      PROVE  /\ Cardinality({r \in MayMail : by[r] = u}) \in Nat
             /\ Cardinality({r \in MayMail' : by'[r] = u}) \in Nat
  <2>1. /\ {r \in MayMail : by[r] = u} \in SUBSET Requests
        /\ {r \in MayMail' : by'[r] = u} \in SUBSET Requests
    BY <1>1
  <2> QED
    BY <2>1, RequestsCounted
<1>6. GlobalMax[channel] \in Nat /\ UserMax[channel] \in Nat
  BY QuotaAssumption DEF Numbers
<1>7. Cardinality(MayMail') <= GlobalMax[channel]
  BY <1>2, <1>4, <1>6 DEF QuotaKept
<1>8. ASSUME NEW u \in Users
      PROVE  Cardinality({r \in MayMail' : by'[r] = u}) <= UserMax[channel]
  <2>1. Cardinality({r \in MayMail : by[r] = u}) <= UserMax[channel]
    BY DEF QuotaKept
  <2> QED
    BY <1>3, <1>5, <1>6, <2>1
<1> QED
  BY <1>7, <1>8 DEF QuotaKept

\* The count a request acts on was taken with everybody else who may mail
\* already in the table: whoever counted before it and has no row is cut.
LEMMA CountKeepsQuota ==
    ASSUME Numbers, Owned, RowsKept, LockHeld, QuotaKept,
           NEW r \in Requests, Count(r), Numbers'
    PROVE  QuotaKept'
<1> USE DEF Count, Goes, Table, History
<1>1. MayMail \subseteq Requests
  BY DEF MayMail, Numbers
<1>2. CASE ~(Cardinality(Of(by[r])) < UserMax[channel] /\ Cardinality(codes) < GlobalMax[channel])
         \/ r \in cut
  <2>1. MayMail' \subseteq MayMail
    BY <1>2 DEF MayMail, Numbers, WithCode
  <2> QED
    BY <2>1, QuotaShrinks
<1>3. CASE /\ Cardinality(Of(by[r])) < UserMax[channel]
           /\ Cardinality(codes) < GlobalMax[channel] /\ r \notin cut
  <2>1. lock = r
    BY <1>3 DEF LockHeld, UnderLock
  <2>2. MayMail \subseteq codes
    BY <2>1 DEF MayMail, RowsKept, LockHeld, UnderLock
  <2>3. MayMail' = MayMail \cup {r}
    BY <1>3 DEF MayMail, Numbers, WithCode
  <2>4. /\ Cardinality(MayMail) <= Cardinality(codes)
        /\ Cardinality(codes) \in Nat /\ Cardinality(MayMail) \in Nat /\ IsFiniteSet(MayMail)
    BY <1>1, <2>2, RequestsCounted, FS_Subset DEF Numbers
  <2>5. Cardinality(MayMail') <= GlobalMax[channel]
    <3>1. GlobalMax[channel] \in Nat
      BY QuotaAssumption DEF Numbers
    <3>2. Cardinality(MayMail \cup {r}) <= Cardinality(MayMail) + 1
      <4>1. IsFiniteSet(MayMail) /\ Cardinality(MayMail) \in Nat
        BY <2>4
      <4> HIDE DEF Count
      <4> QED
        BY <4>1, FS_AddElement
    <3>3. Cardinality(MayMail \cup {r}) \in Nat
      BY <1>1, RequestsCounted
    <3> QED
      BY <1>3, <2>3, <2>4, <3>1, <3>2, <3>3
  <2>6. ASSUME NEW u \in Users
        PROVE  Cardinality({s \in MayMail' : by'[s] = u}) <= UserMax[channel]
    <3> DEFINE own == {s \in MayMail : by[s] = u}
    <3>1. UserMax[channel] \in Nat
      BY QuotaAssumption DEF Numbers
    <3>2. CASE by[r] # u
      <4>1. {s \in MayMail' : by'[s] = u} = own
        BY <2>3, <3>2
      <4> QED
        BY <4>1 DEF QuotaKept
    <3>3. CASE by[r] = u
      <4>1. {s \in MayMail' : by'[s] = u} = own \cup {r}
        BY <2>3, <3>3
      <4>2. own \in SUBSET Of(u)
        BY <2>2 DEF Of
      <4>3. IsFiniteSet(Of(u)) /\ Cardinality(Of(u)) \in Nat
        BY RequestsCounted DEF Of, Numbers
      <4>4. IsFiniteSet(own) /\ Cardinality(own) <= Cardinality(Of(u))
        BY <4>2, <4>3, FS_Subset
      <4>5. Cardinality(own) \in Nat
        BY <4>4, FS_CardinalityType
      <4>6. Cardinality(own \cup {r}) <= Cardinality(own) + 1 /\ Cardinality(own \cup {r}) \in Nat
        BY <4>4, <4>5, FS_AddElement
      <4>7. Cardinality(Of(u)) < UserMax[channel]
        BY <1>3, <3>3
      <4>8. Cardinality(own \cup {r}) <= UserMax[channel]
        BY <3>1, <4>3, <4>4, <4>5, <4>6, <4>7
      <4> QED
        BY <4>1, <4>8
    <3> QED
      BY <3>2, <3>3
  <2> QED
    BY <2>5, <2>6 DEF QuotaKept
<1> QED
  BY <1>2, <1>3

LEMMA QuotaStep ==
    ASSUME Numbers, Owned, RowsKept, LockHeld, QuotaKept, Numbers', [Next]_vars
    PROVE  QuotaKept'
<1> DEFINE Shrinks == /\ channel' = channel /\ MayMail' \subseteq MayMail
                      /\ \A r \in MayMail' : by'[r] = by[r]
<1> USE DEF MayMail, Numbers, Goes, Table, History, WithCode
<1>1. ASSUME NEW r \in Requests, NEW u \in Users, Request(r, u) PROVE Shrinks
  BY <1>1 DEF Request, RowsKept
<1>2. ASSUME NEW r \in Requests, BeginLock(r) \/ Lock(r) PROVE Shrinks
  BY <1>2 DEF BeginLock, Lock
<1>3. ASSUME NEW r \in Requests, Create(r) PROVE Shrinks
  BY <1>3 DEF Create
<1>4. ASSUME NEW r \in Requests, EndLock(r) PROVE Shrinks
  BY <1>4 DEF EndLock
<1>5. ASSUME NEW r \in Requests, Retire(r) PROVE Shrinks
  BY <1>5 DEF Retire
<1>6. ASSUME NEW r \in Requests, MailGoes(r) PROVE Shrinks
  BY <1>6 DEF MailGoes, LockHeld, UnderLock
<1>7. ASSUME NEW r \in Requests, MailFails(r) PROVE Shrinks
  BY <1>7 DEF MailFails
<1>8. ASSUME NEW r \in Requests, LoseLock(r) PROVE Shrinks
  BY <1>8 DEF LoseLock
<1>9. ASSUME NEW r \in Requests, Dies(r) PROVE Shrinks
  BY <1>9 DEF Dies
<1>10. ASSUME UNCHANGED <<channel, req, by, cut, mailed>> PROVE Shrinks
  BY <1>10
<1>11. ASSUME Shrinks PROVE QuotaKept'
  BY <1>11, QuotaShrinks
<1> HIDE DEF Shrinks
<1> QED
  BY <1>1, <1>2, <1>3, <1>4, <1>5, <1>6, <1>7, <1>8, <1>9, <1>10, <1>11, CountKeepsQuota
  DEF Next, Step, MinutePasses, Find, Increment, Compare, Redeem, vars

-----------------------------------------------------------------------------
(* The guesses *)

LEMMA GuessesType == ASSUME NEW c PROVE Tried(c) \in SUBSET Guesses /\ Spent \in SUBSET Guesses
BY DEF Tried, Spent

LEMMA GuessStep ==
    ASSUME Numbers, Owned, GuessesCounted, [Next]_vars
    PROVE  GuessesCounted'
<1> USE DEF Numbers, Table, History
<1>0. \A c \in Requests : /\ IsFiniteSet(Tried(c)) /\ Cardinality(Tried(c)) \in Nat
                          /\ IsFiniteSet(Spent) /\ Cardinality(Spent) \in Nat
  BY GuessesType, GuessesFinite
<1>1. ASSUME NEW g \in Guesses, NEW u \in Users, NEW right \in BOOLEAN, Find(g, u, right)
      PROVE  GuessesCounted'
  <2>1. PICK c \in Requests :
          guess' = [guess EXCEPT ![g] = [at |-> "found", code |-> c, right |-> right]]
    BY <1>1 DEF Find, Active, Open, Of
  <2>2. \A d : Tried(d)' = Tried(d)
    BY <1>1, <2>1 DEF Find, Tried
  <2>3. Spent' = Spent
    BY <1>1, <2>1 DEF Find, Spent
  <2> QED
    BY <1>1, <2>2, <2>3 DEF Find, GuessesCounted
<1>2. ASSUME NEW g \in Guesses, Increment(g) PROVE GuessesCounted'
  <2>0. PICK c \in Requests : guess[g].code = c
    BY <1>2 DEF Increment, Owned
  <2>1. Tried(c)' = Tried(c) \cup {g} /\ g \notin Tried(c)
    BY <1>2, <2>0 DEF Increment, Tried
  <2>2. \A d \in Requests \ {c} : Tried(d)' = Tried(d)
    BY <1>2, <2>0 DEF Increment, Tried
  <2>3. Spent' = Spent \cup {g} /\ g \notin Spent
    BY <1>2 DEF Increment, Spent
  <2>4. Cardinality(Tried(c)') = Cardinality(Tried(c)) + 1
    <3>1. IsFiniteSet(Tried(c)) /\ Cardinality(Tried(c)) \in Nat
      BY <1>0
    <3>2. Cardinality(Tried(c) \cup {g}) = Cardinality(Tried(c)) + 1
      BY <2>1, <3>1, FS_AddElement
    <3> QED
      BY <2>1, <3>2
  <2>5. Cardinality(Spent') = Cardinality(Spent) + 1
    BY <1>0, <2>0, <2>3, FS_AddElement
  <2>6. attempts' = [attempts EXCEPT ![c] = @ + 1] /\ compared' = compared
    BY <1>2, <2>0 DEF Increment
  <2>7. ASSUME NEW d \in Requests
        PROVE  compared'[d] + Cardinality(Tried(d)') <= attempts'[d] /\ attempts'[d] <= Cardinality(Spent')
    <3>1. compared[d] + Cardinality(Tried(d)) <= attempts[d] /\ attempts[d] <= Cardinality(Spent)
      BY DEF GuessesCounted
    <3>2. CASE d = c
      <4>1. Cardinality(Tried(d)') = Cardinality(Tried(d)) + 1
        BY <2>4, <3>2
      <4>2. compared'[d] = compared[d] /\ attempts'[d] = attempts[d] + 1
        BY <2>6, <3>2
      <4>3. compared[d] \in Nat /\ attempts[d] \in Nat
        OBVIOUS
      <4> QED
        BY <1>0, <2>5, <3>1, <4>1, <4>2, <4>3
    <3>3. CASE d # c
      BY <1>0, <2>2, <2>5, <2>6, <3>1, <3>3
    <3> QED
      BY <3>2, <3>3
  <2> QED
    BY <2>7 DEF GuessesCounted
<1>3. ASSUME NEW g \in Guesses, Compare(g) PROVE GuessesCounted'
  <2>0. PICK c \in Requests : guess[g].code = c /\ g \in Tried(c)
    BY <1>3 DEF Compare, Owned, Tried
  <2>1. /\ guess' \in [Guesses -> [at : {"idle", "found", "tried", "right", "ended"},
                                   code : Requests \cup {None}, right : BOOLEAN]]
        /\ guess'[g].at \in {"right", "ended"}
        /\ \A h \in Guesses \ {g} : guess'[h] = guess[h]
    <3>1. CASE guess' = [guess EXCEPT ![g] = Nobody("ended")]
      BY <3>1 DEF Nobody
    <3>2. CASE guess' = [guess EXCEPT ![g] = [@ EXCEPT !.at = "right"]]
      BY <3>2
    <3> QED
      BY <1>3, <3>1, <3>2 DEF Compare
  <2>2. Tried(c)' = Tried(c) \ {g}
    <3>1. ASSUME NEW h \in Guesses
          PROVE  h \in Tried(c)' <=> h \in Tried(c) \ {g}
      BY <2>1 DEF Tried
    <3> QED
      BY <3>1 DEF Tried
  <2>7. \A d \in Requests \ {c} : Tried(d)' = Tried(d)
    <3>1. ASSUME NEW d \in Requests \ {c}, NEW h \in Guesses
          PROVE  h \in Tried(d)' <=> h \in Tried(d)
      BY <2>0, <2>1 DEF Tried
    <3> QED
      BY <3>1 DEF Tried
  <2>3. Spent' = Spent
    BY <1>3, <2>1 DEF Compare, Spent
  <2>4. Cardinality(Tried(c)') = Cardinality(Tried(c)) - 1
    <3>1. IsFiniteSet(Tried(c)) /\ Cardinality(Tried(c)) \in Nat
      BY <1>0
    <3>2. Cardinality(Tried(c) \ {g}) = Cardinality(Tried(c)) - 1
      BY <2>0, <3>1, FS_RemoveElement
    <3> QED
      BY <2>2, <3>2
  <2>5. compared' \in {compared, [compared EXCEPT ![c] = @ + 1]} /\ attempts' = attempts
    BY <1>3, <2>0 DEF Compare
  <2>6. ASSUME NEW d \in Requests
        PROVE  compared'[d] + Cardinality(Tried(d)') <= attempts'[d] /\ attempts'[d] <= Cardinality(Spent')
    <3>1. compared[d] + Cardinality(Tried(d)) <= attempts[d] /\ attempts[d] <= Cardinality(Spent)
      BY DEF GuessesCounted
    <3>2. CASE d = c
      <4>1. Cardinality(Tried(d)') = Cardinality(Tried(d)) - 1
        BY <2>4, <3>2
      <4>2. compared'[d] \in {compared[d], compared[d] + 1} /\ attempts'[d] = attempts[d]
        BY <2>5, <3>2
      <4>3. compared[d] \in Nat /\ attempts[d] \in Nat
        OBVIOUS
      <4> QED
        BY <1>0, <2>3, <3>1, <4>1, <4>2, <4>3
    <3>3. CASE d # c
      BY <1>0, <2>7, <2>3, <2>5, <3>1, <3>3
    <3> QED
      BY <3>2, <3>3
  <2> QED
    BY <2>6 DEF GuessesCounted
<1>4. ASSUME NEW g \in Guesses, Redeem(g) PROVE GuessesCounted'
  <2>1. Spent' = Spent /\ \A d : Tried(d)' = Tried(d)
    BY <1>4 DEF Redeem, Nobody, Spent, Tried
  <2> QED
    BY <1>4, <2>1 DEF Redeem, GuessesCounted
<1>5. ASSUME UNCHANGED <<guess, attempts, compared>> PROVE GuessesCounted'
  BY <1>5 DEF GuessesCounted, Tried, Spent
<1> QED
  BY <1>1, <1>2, <1>3, <1>4, <1>5
  DEF Next, Step, Request, BeginLock, Count, Create, EndLock, Retire, MailGoes, MailFails,
      Lock, LoseLock, Dies, MinutePasses, vars

-----------------------------------------------------------------------------
(* Together *)

OtpInv == Numbers /\ Owned /\ RowsKept /\ LockHeld /\ QuotaKept /\ GuessesCounted

LEMMA OtpInvInit == Init => OtpInv
<1> SUFFICES ASSUME Init PROVE OtpInv
  OBVIOUS
<1> USE DEF Init
<1>1. Numbers /\ Owned
  BY DEF Numbers, Owned, Nobody
<1>2. RowsKept /\ LockHeld
  BY DEF RowsKept, LockHeld, WithCode, UnderLock
<1>3. QuotaKept
  <2>1. MayMail = {}
    BY DEF MayMail, WithCode
  <2>2. \A u \in Users : {r \in MayMail : by[r] = u} = {}
    BY <2>1
  <2>3. 0 <= GlobalMax[channel] /\ 0 <= UserMax[channel]
    BY QuotaAssumption
  <2> QED
    BY <2>1, <2>2, <2>3, FS_EmptySet DEF QuotaKept
<1>4. GuessesCounted
  <2>1. Spent = {} /\ \A c \in Requests : Tried(c) = {}
    BY DEF Spent, Tried, Nobody
  <2> QED
    BY <2>1, FS_EmptySet DEF GuessesCounted
<1> QED
  BY <1>1, <1>2, <1>3, <1>4 DEF OtpInv

LEMMA OtpInvStep == OtpInv /\ [Next]_vars => OtpInv'
BY NumbersStep, RowsStep, LockStep, QuotaStep, GuessStep DEF OtpInv

LEMMA OtpInvHolds == Spec => []OtpInv
BY OtpInvInit, OtpInvStep, PTL DEF Spec

\* The table, the lock and the counters keep their types; the counters never
\* exceed the guesses made (verification_token_repository.go).
THEOREM OtpTypeCorrect == Spec => []TypeOK
<1>1. OtpInv => TypeOK
  <2> SUFFICES ASSUME OtpInv PROVE TypeOK
    OBVIOUS
  <2>1. ASSUME NEW c \in Requests
        PROVE  attempts[c] \in 0 .. Cardinality(Guesses) /\ compared[c] \in 0 .. Cardinality(Guesses)
    <3>1. /\ Cardinality(Tried(c)) \in Nat /\ Cardinality(Spent) \in Nat
          /\ Cardinality(Spent) <= Cardinality(Guesses) /\ Cardinality(Guesses) \in Nat
      BY GuessesType, GuessesFinite
    <3>2. compared[c] + Cardinality(Tried(c)) <= attempts[c] /\ attempts[c] <= Cardinality(Spent)
      BY DEF OtpInv, GuessesCounted
    <3> QED
      BY <3>1, <3>2 DEF OtpInv, Numbers
  <2> QED
    BY <2>1 DEF OtpInv, Numbers, TypeOK
<1> QED
  BY <1>1, OtpInvHolds, PTL

\* Whatever requests overlap, and wherever the connection of the lock breaks,
\* no more mails go than the channel and the account have (SendOTP,
\* RequestReset under WithChannelLock).
THEOREM MailQuotaHolds == Spec => []QuotaHolds
<1>1. OtpInv => QuotaHolds
  <2> SUFFICES ASSUME OtpInv PROVE QuotaHolds
    OBVIOUS
  <2> USE DEF OtpInv
  <2>1. mailed \subseteq MayMail /\ MayMail \subseteq Requests
    BY DEF MayMail, Numbers
  <2>2. GlobalMax[channel] \in Nat /\ UserMax[channel] \in Nat
    BY QuotaAssumption DEF Numbers
  <2>3. Cardinality(mailed) <= GlobalMax[channel]
    <3>1. /\ IsFiniteSet(MayMail) /\ Cardinality(MayMail) \in Nat
          /\ Cardinality(mailed) \in Nat
      BY <2>1, RequestsCounted
    <3>2. Cardinality(mailed) <= Cardinality(MayMail)
      BY <2>1, <3>1, FS_Subset
    <3>3. Cardinality(MayMail) <= GlobalMax[channel]
      BY DEF QuotaKept
    <3> QED
      BY <2>2, <3>1, <3>2, <3>3
  <2>4. ASSUME NEW u \in Users
        PROVE  Cardinality({r \in mailed : by[r] = u}) <= UserMax[channel]
    <3> DEFINE got == {r \in mailed : by[r] = u}
               may == {r \in MayMail : by[r] = u}
    <3>1. got \in SUBSET may /\ may \in SUBSET Requests /\ got \in SUBSET Requests
      BY <2>1
    <3>2. IsFiniteSet(may) /\ Cardinality(may) \in Nat /\ Cardinality(got) \in Nat
      BY <3>1, RequestsCounted
    <3>3. Cardinality(got) <= Cardinality(may)
      BY <3>1, <3>2, FS_Subset
    <3>4. Cardinality(may) <= UserMax[channel]
      BY DEF QuotaKept
    <3> QED
      BY <2>2, <3>2, <3>3, <3>4
  <2> QED
    BY <2>3, <2>4 DEF QuotaHolds
<1> QED
  BY <1>1, OtpInvHolds, PTL

\* However concurrent guesses add to the counter and read it, a code is
\* compared at most MaxAttempts times (ConfirmOTP, ConfirmReset).
THEOREM GuessLimitHolds == Spec => []GuessesBounded
<1>1. Init => GuessesBounded
  BY QuotaAssumption DEF Init, GuessesBounded
<1>2. OtpInv /\ GuessesBounded /\ [Next]_vars => GuessesBounded'
  <2> SUFFICES ASSUME OtpInv, GuessesBounded, [Next]_vars PROVE GuessesBounded'
    OBVIOUS
  <2>1. ASSUME NEW g \in Guesses, Compare(g), compared' # compared PROVE GuessesBounded'
    <3> DEFINE c == guess[g].code
    <3>1. /\ c \in Requests /\ g \in Tried(c) /\ ~(attempts[c] > MaxAttempts)
          /\ compared' = [compared EXCEPT ![c] = @ + 1]
      BY <2>1 DEF Compare, TooMany, OtpInv, Owned, Tried
    <3>2. Cardinality(Tried(c)) \in Nat /\ Cardinality(Tried(c)) # 0
      BY <3>1, GuessesType, GuessesFinite, FS_EmptySet
    <3>3. compared[c] + Cardinality(Tried(c)) <= attempts[c]
      BY <3>1 DEF OtpInv, GuessesCounted
    <3>4. compared[c] + 1 <= MaxAttempts
      <4>1. compared[c] \in Nat /\ attempts[c] \in Nat /\ MaxAttempts \in Nat
        BY <3>1, QuotaAssumption DEF OtpInv, Numbers
      <4> HIDE DEF c
      <4> QED
        BY <3>1, <3>2, <3>3, <4>1
    <3> QED
      BY <3>1, <3>4 DEF GuessesBounded, OtpInv, Numbers
  <2>2. ASSUME compared' = compared PROVE GuessesBounded'
    BY <2>2 DEF GuessesBounded
  <2> QED
    BY <2>1, <2>2
    DEF Next, Step, Request, BeginLock, Count, Create, EndLock, Retire, MailGoes, MailFails,
        Lock, LoseLock, Dies, MinutePasses, Find, Increment, Redeem, vars, History
<1> QED
  BY <1>1, <1>2, OtpInvHolds, PTL DEF Spec

\* A finished request leaves no unsent code behind but one that could not be
\* deleted (the deferred DeleteByID of SendOTP and RequestReset).
THEOREM OnlyMailSpendsQuota == Spec => []OnlyMailCounts
<1>1. Init => OnlyMailCounts
  BY DEF Init, OnlyMailCounts
<1>2. OtpInv /\ OnlyMailCounts /\ [Next]_vars => OnlyMailCounts'
  <2> SUFFICES ASSUME OtpInv, OnlyMailCounts, [Next]_vars PROVE OnlyMailCounts'
    OBVIOUS
  <2> USE DEF OnlyMailCounts, OtpInv, Numbers, RowsKept, Before, WithCode, Goes, Table, History
  <2>1. ASSUME NEW r \in Requests, NEW u \in Users, Request(r, u) PROVE OnlyMailCounts'
    BY <2>1 DEF Request
  <2>2. ASSUME NEW r \in Requests, BeginLock(r) \/ Lock(r) \/ Retire(r) PROVE OnlyMailCounts'
    BY <2>2 DEF BeginLock, Lock, Retire
  <2>3. ASSUME NEW r \in Requests, Count(r) PROVE OnlyMailCounts'
    BY <2>3 DEF Count
  <2>4. ASSUME NEW r \in Requests, Create(r) PROVE OnlyMailCounts'
    BY <2>4 DEF Create
  <2>5. ASSUME NEW r \in Requests, EndLock(r) PROVE OnlyMailCounts'
    BY <2>5 DEF EndLock, Delete
  <2>6. ASSUME NEW r \in Requests, MailGoes(r) PROVE OnlyMailCounts'
    BY <2>6 DEF MailGoes
  <2>7. ASSUME NEW r \in Requests, MailFails(r) PROVE OnlyMailCounts'
    BY <2>7 DEF MailFails, Delete
  <2>8. ASSUME NEW r \in Requests, Dies(r) PROVE OnlyMailCounts'
    BY <2>8 DEF Dies
  <2>9. ASSUME UNCHANGED <<req, codes, mailed, orphans>> PROVE OnlyMailCounts'
    BY <2>9
  <2> QED
    BY <2>1, <2>2, <2>3, <2>4, <2>5, <2>6, <2>7, <2>8, <2>9
    DEF Next, Step, LoseLock, MinutePasses, Find, Increment, Compare, Redeem, vars
<1> QED
  BY <1>1, <1>2, OtpInvHolds, PTL DEF Spec
=============================================================================
