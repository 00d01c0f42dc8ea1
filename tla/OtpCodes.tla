------------------------------- MODULE OtpCodes ------------------------------
(***************************************************************************)
(* The one-time codes of one channel, email verification or password reset *)
(* (verification_service.go, password_reset_service.go) over the table     *)
(* verification_tokens: codes are counted and minted under an advisory     *)
(* lock, mailed by a provider with a daily quota, deleted if the mail      *)
(* fails, and guessed a bounded number of times.  Every statement commits  *)
(* alone.  All of it happens within one quota window.                      *)
(***************************************************************************)
EXTENDS Naturals, FiniteSets

CONSTANTS
    Users, Requests, Guesses,   \* 1 .. n: accounts, and calls made (bounds)
    UserMax, GlobalMax,         \* by channel: codes per account, and in all, per window
    MaxAttempts, None

Channels == {"email", "password_reset"}

ASSUME QuotaAssumption ==
    /\ UserMax \in [Channels -> Nat] /\ GlobalMax \in [Channels -> Nat]
    /\ MaxAttempts \in Nat

ASSUME CallsAssumption ==
    /\ IsFiniteSet(Requests) /\ IsFiniteSet(Guesses)
    /\ None \notin Requests \cup Users

VARIABLES
    channel,
    req,       \* each request: where it is; its code has its name
    by,        \* its account
    codes,     \* rows of the table
    created,   \* column created_at, as the rank of the code; 0 before it exists
    used,      \* column used
    attempts,  \* column attempts
    fresh,     \* rows of the last 60 s
    lock,      \* the advisory lock of the channel
    cut,       \* requests whose lock transaction lost its connection
    guess,     \* each confirmation: where it is, what it read
    verified,  \* accounts that redeemed a code
    mailed,    \* history: codes whose mail the provider acknowledged
    compared,  \* history: guesses compared with each code
    orphans    \* history: rows whose delete failed, or whose server died

vars == <<channel, req, by, codes, created, used, attempts, fresh, lock, cut, guess,
          verified, mailed, compared, orphans>>

Table == <<codes, created, used, attempts>>
History == <<mailed, compared, orphans>>
Of(u) == {r \in codes : by[r] = u}
InTransaction == {"waiting", "locked", "counted", "minted"}
Nobody(at) == [at |-> at, code |-> None, right |-> FALSE]

TypeOK ==
    /\ channel \in Channels
    /\ req \in [Requests -> InTransaction \cup
                            {"idle", "allowed", "retiring", "mailing", "ended"}]
    /\ by \in [Requests -> Users \cup {None}]
    /\ codes \subseteq Requests /\ created \in [Requests -> Nat]
    /\ used \subseteq Requests /\ fresh \subseteq Requests /\ cut \subseteq Requests
    /\ attempts \in [Requests -> 0 .. Cardinality(Guesses)]
    /\ lock \in Requests \cup {None}
    /\ guess \in [Guesses -> [at : {"idle", "found", "tried", "right", "ended"},
                              code : Requests \cup {None}, right : BOOLEAN]]
    /\ verified \subseteq Users
    /\ mailed \subseteq Requests /\ orphans \subseteq Requests
    /\ compared \in [Requests -> 0 .. Cardinality(Guesses)]

Init ==
    /\ channel \in Channels
    /\ req = [r \in Requests |-> "idle"] /\ by = [r \in Requests |-> None]
    /\ codes = {} /\ created = [r \in Requests |-> 0]
    /\ used = {} /\ fresh = {}
    /\ attempts = [r \in Requests |-> 0]
    /\ lock = None /\ cut = {}
    /\ guess = [g \in Guesses |-> Nobody("idle")]
    /\ verified = {}
    /\ mailed = {} /\ orphans = {} /\ compared = [r \in Requests |-> 0]

Goes(r, to) == req' = [req EXCEPT ![r] = to]

\* FindActiveByUser: the newest row that is neither used nor expired, if any.
Open(u) == Of(u) \ used
Active(u) == {r \in Open(u) : \A s \in Open(u) : created[s] <= created[r]}

-----------------------------------------------------------------------------
(* SendOTP and RequestReset *)

\* The account is not verified yet (email) and has no code of the last minute.
Request(r, u) ==
    /\ req[r] = "idle" /\ \A s \in Requests : s < r => req[s] # "idle"
    /\ u > 1 => \E s \in Requests : by[s] = u - 1       \* numbered as they come
    /\ channel = "email" => u \notin verified
    /\ Active(u) \cap fresh = {}
    /\ Goes(r, "allowed")
    /\ by' = [by EXCEPT ![r] = u]
    /\ UNCHANGED <<channel, Table, fresh, lock, cut, guess, verified, History>>

\* The pool has no limit: nobody calls SetMaxOpenConns.
PoolOfTwo == Cardinality({r \in Requests : req[r] \in InTransaction}) < 2
ConnectionFree == TRUE

\* WithChannelLock: a transaction of its own holds the lock, and its
\* connection, from before it is granted.
BeginLock(r) ==
    /\ req[r] = "allowed" /\ ConnectionFree
    /\ Goes(r, "waiting")
    /\ UNCHANGED <<channel, by, Table, fresh, lock, cut, guess, verified, History>>

NoLock == TRUE
Lockable == lock = None

Lock(r) ==
    /\ req[r] = "waiting" /\ Lockable
    /\ lock' = r
    /\ Goes(r, "locked")
    /\ UNCHANGED <<channel, by, Table, fresh, cut, guess, verified, History>>

\* The connection of the lock breaks; the function under it does not know.
LoseLock(r) ==
    /\ lock = r
    /\ lock' = None
    /\ cut' = cut \cup {r}
    /\ UNCHANGED <<channel, req, by, Table, fresh, guess, verified, History>>

\* CountSince twice, on another connection; a failed count closes the door.
Release(r) == lock' = IF lock = r THEN None ELSE lock

Count(r) ==
    /\ req[r] = "locked" /\ ConnectionFree
    /\ IF Cardinality(Of(by[r])) < UserMax[channel] /\ Cardinality(codes) < GlobalMax[channel]
       THEN Goes(r, "counted") /\ UNCHANGED lock
       ELSE Goes(r, "ended") /\ Release(r)
    /\ UNCHANGED <<channel, by, Table, fresh, cut, guess, verified, History>>

\* Create commits at once, outside the transaction of the lock.
Create(r) ==
    /\ req[r] = "counted" /\ ConnectionFree
    /\ codes' = codes \cup {r}
    /\ created' = [created EXCEPT ![r] = 1 + Cardinality({s \in Requests : created[s] # 0})]
    /\ fresh' = fresh \cup {r}
    /\ Goes(r, "minted")
    /\ UNCHANGED <<channel, by, used, attempts, lock, cut, guess, verified, History>>

\* DeleteByID, whose failure is only logged.
MarkUsedInstead(r) == used' = used \cup {r} /\ UNCHANGED <<codes, orphans>>
Delete(r) ==
    \/ codes' = codes \ {r} /\ UNCHANGED <<orphans, used>>
    \/ orphans' = orphans \cup {r} /\ UNCHANGED <<codes, used>>

\* The transaction of the lock ends; if it could not, the code is withdrawn.
EndLock(r) ==
    /\ req[r] = "minted" /\ Release(r)
    /\ cut' = cut \ {r}
    /\ IF r \in cut
       THEN Goes(r, "ended") /\ Delete(r)
       ELSE /\ Goes(r, IF channel = "email" THEN "mailing" ELSE "retiring")
            /\ UNCHANGED <<codes, orphans, used>>
    /\ UNCHANGED <<channel, by, created, attempts, fresh, guess, verified, mailed, compared>>

\* MarkAllUsedByUserExcept, after the new code exists; it may fail.
Retire(r) ==
    /\ req[r] = "retiring"
    /\ used' \in {used, used \cup (Of(by[r]) \ {r})}
    /\ Goes(r, "mailing")
    /\ UNCHANGED <<channel, by, codes, created, attempts, fresh, lock, cut, guess, verified, History>>

MailGoes(r) ==
    /\ req[r] = "mailing"
    /\ mailed' = mailed \cup {r}
    /\ Goes(r, "ended")
    /\ UNCHANGED <<channel, by, Table, fresh, lock, cut, guess, verified, compared, orphans>>

MailFails(r) ==
    /\ req[r] = "mailing"
    /\ Delete(r)
    /\ Goes(r, "ended")
    /\ UNCHANGED <<channel, by, created, attempts, fresh, lock, cut, guess, verified, mailed, compared>>

\* A statement fails, or the server dies under the request.
Dies(r) ==
    /\ req[r] \notin {"idle", "ended"}
    /\ Goes(r, "ended") /\ Release(r)
    /\ orphans' = IF r \in codes THEN orphans \cup {r} ELSE orphans
    /\ UNCHANGED <<channel, by, Table, fresh, cut, guess, verified, mailed, compared>>

MinutePasses ==
    /\ fresh # {} /\ fresh' = {}
    /\ UNCHANGED <<channel, req, by, Table, lock, cut, guess, verified, History>>

-----------------------------------------------------------------------------
(* ConfirmOTP and ConfirmReset *)

Find(g, u, right) ==
    /\ guess[g].at = "idle" /\ \A h \in Guesses : h < g => guess[h].at # "idle"
    /\ \E c \in Active(u) :
          /\ right => c \in mailed
          /\ guess' = [guess EXCEPT ![g] = [at |-> "found", code |-> c, right |-> right]]
    /\ UNCHANGED <<channel, req, by, Table, fresh, lock, cut, verified, History>>

\* IncrementAttempts: one UPDATE, then the value is read.
Increment(g) ==
    /\ guess[g].at = "found"
    /\ attempts' = [attempts EXCEPT ![guess[g].code] = @ + 1]
    /\ guess' = [guess EXCEPT ![g].at = "tried"]
    /\ UNCHANGED <<channel, req, by, codes, created, used, fresh, lock, cut, verified, History>>

TooManyLate(n) == n > MaxAttempts + 1
TooMany(n) == n > MaxAttempts

\* If the row is gone by now the read fails and the guess ends.
Compare(g) ==
    LET c == guess[g].code IN
    /\ guess[g].at = "tried"
    /\ IF c \in codes /\ ~TooMany(attempts[c])
       THEN /\ compared' = [compared EXCEPT ![c] = @ + 1]
            /\ guess' = [guess EXCEPT ![g] = IF @.right THEN [@ EXCEPT !.at = "right"]
                                             ELSE Nobody("ended")]
            /\ UNCHANGED used
       ELSE /\ guess' = [guess EXCEPT ![g] = Nobody("ended")]
            /\ used' \in {used, used \cup ({c} \cap codes)}
            /\ UNCHANGED compared
    /\ UNCHANGED <<channel, req, by, codes, created, attempts, fresh, lock, cut, verified, mailed, orphans>>

\* MarkUsed, or MarkAllUsedByUser; then the account is saved.  Either may fail.
Redeem(g) ==
    LET c == guess[g].code
        u == by[c]
    IN  /\ guess[g].at = "right"
        /\ \/ UNCHANGED <<used, verified>>
           \/ /\ used' = used \cup (IF channel = "email" THEN {c} ELSE Of(u))
              /\ verified' \in {verified, verified \cup {u}}
        /\ guess' = [guess EXCEPT ![g] = Nobody("ended")]
        /\ UNCHANGED <<channel, req, by, codes, created, attempts, fresh, lock, cut, History>>

-----------------------------------------------------------------------------
Step(r) ==
    \/ BeginLock(r) \/ Count(r) \/ Create(r) \/ EndLock(r)
    \/ Retire(r) \/ MailGoes(r) \/ MailFails(r)

Next ==
    \/ \E r \in Requests :
          \/ \E u \in Users : Request(r, u)
          \/ Step(r) \/ Lock(r) \/ LoseLock(r) \/ Dies(r)
    \/ MinutePasses
    \/ \E g \in Guesses :
          \/ \E u \in Users, right \in BOOLEAN : Find(g, u, right)
          \/ Increment(g) \/ Compare(g) \/ Redeem(g)

\* Requests run on; the lock is granted in the order it was asked for.
Fairness == \A r \in Requests : WF_vars(Step(r)) /\ SF_vars(Lock(r))

Spec == Init /\ [][Next]_vars /\ Fairness

-----------------------------------------------------------------------------
\* The provider's quota: however many requests count at once, and even if the
\* lock is lost between the count and the code, no more codes are mailed than
\* the channel and the account may have.
QuotaHolds ==
    /\ Cardinality(mailed) <= GlobalMax[channel]
    /\ \A u \in Users : Cardinality({r \in mailed : by[r] = u}) <= UserMax[channel]

\* A code nobody received spends no quota once its request is over, unless it
\* could not be deleted.
OnlyMailCounts == \A r \in codes : req[r] = "ended" => r \in mailed \cup orphans

\* No code is compared with more guesses than allowed, in whatever order
\* concurrent guesses add and read the counter.
GuessesBounded == \A r \in Requests : compared[r] <= MaxAttempts

\* Every request ends: waiting for the lock never locks its holder out of the
\* connection it needs to let go of it.
RequestsEnd == \A r \in Requests : req[r] = "allowed" ~> req[r] = "ended"
=============================================================================
