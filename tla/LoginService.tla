----------------------------- MODULE LoginService -----------------------------
(***************************************************************************)
(* AuthService (src/app/auth/service.py): logins under one identity, a     *)
(* username up to the case of its letters.  Two counters guard it: that of *)
(* the user row found and that of the LoginAttempt record, which also      *)
(* covers an identity without a row.  A login handler runs to its end on   *)
(* the event loop, so one authentication is one step; the clock moves      *)
(* between them.  An administrator may create rows and (de)activate them.  *)
(* Other identities have counters of their own.                            *)
(***************************************************************************)
EXTENDS Naturals, Sequences, FiniteSets

CONSTANTS
  Spelling,                \* usernames as they are stored, equal but for case
  Canonical,               \* normalize_username of all of them
  Bootstrap,               \* APP_BOOTSTRAP_ADMIN_USERNAME, or NoName when it is another's
  NoName,                  \* no spelling
  MaxFailedAttempts,       \* failures that lock a row
  LockoutDuration,
  MaxAttemptsPerIdentity,  \* failures that throttle the identity
  ThrottleWindow,
  MaxTime                  \* the clock's last tick (a bound of the model)

ASSUME SpellingAssumption ==
  Canonical \in Spelling /\ NoName \notin Spelling /\ Bootstrap \in Spelling \union {NoName}
ASSUME LimitAssumption ==
  /\ MaxFailedAttempts \in Nat \ {0} /\ LockoutDuration \in Nat \ {0}
  /\ MaxAttemptsPerIdentity \in Nat \ {0} /\ ThrottleWindow \in Nat \ {0}
  /\ MaxTime \in Nat

VARIABLES
  now,       \* minutes since the start
  users,     \* the rows of the identity, by the username they store
  attempt,   \* its LoginAttempt record
  told,      \* kinds of outcome that logins have had
  audited,   \* kinds of login entries in the committed audit log
  guesses,   \* history: failures since the identity's last success
  rowFails   \* history: by row, when it failed since its last success

vars == <<now, users, attempt, told, audited, guesses, rowFails>>
history == <<guesses, rowFails>>

Unlocked == 0     \* locked_until is NULL: a lock that has always ended

\* No LoginAttempt record: _assert_not_throttled lets it pass, and the next
\* failure makes it a record with a count of one, as it would this one.
NoRecord == [failure_count |-> 0, last_failure_at |-> 0]

\* Local and AD rows differ in who checks the password, not in what follows.
User == [is_active : BOOLEAN, failed_login_count : Nat, locked_until : Nat]
Time == 0..MaxTime
Attempt == [failure_count : 0..MaxAttemptsPerIdentity, last_failure_at : Time]
Kind == {"login_failed", "login_success", "login_denied"}

TypeOK ==
  /\ now \in Time
  /\ DOMAIN users \subseteq Spelling
  /\ \A s \in DOMAIN users : users[s] \in User
  /\ attempt \in Attempt
  /\ told \subseteq Kind /\ audited \subseteq Kind
  /\ guesses \in Seq(Time)
  /\ rowFails \in [Spelling -> Seq(Time)]

NewUser == [is_active |-> TRUE, failed_login_count |-> 0, locked_until |-> Unlocked]

With(s, row) == [t \in DOMAIN users \union {s} |-> IF t = s THEN row ELSE users[t]]

\* main.py's lifespan has called ensure_bootstrap_admin.
Init ==
  /\ now = 0
  /\ users = [s \in {Bootstrap} \ {NoName} |-> NewUser]
  /\ attempt = NoRecord
  /\ told = {} /\ audited = {}
  /\ guesses = <<>>
  /\ rowFails = [s \in Spelling |-> <<>>]

-----------------------------------------------------------------------------
\* Mutant: a throttle once reached is never lifted.
NeverStale == FALSE

\* The last failure is more than a window ago.
Stale == now - attempt.last_failure_at > ThrottleWindow

\* Mutant: the comparison lets one failure more through.
ThrottledLate == ~Stale /\ attempt.failure_count > MaxAttemptsPerIdentity

\* _assert_not_throttled raises.
Throttled == ~Stale /\ attempt.failure_count >= MaxAttemptsPerIdentity

\* _assert_not_locked raises.
Locked(s) == users[s].locked_until > now

\* _record_attempt_failure.
RecordFailure ==
  attempt' = [failure_count   |-> IF Stale THEN 1 ELSE attempt.failure_count + 1,
              last_failure_at |-> now]

\* Mutant: only the fifth failure locks, none after it.
FailedOnce(s) ==
  [is_active |-> users[s].is_active,
   failed_login_count |-> users[s].failed_login_count + 1,
   locked_until |-> IF users[s].failed_login_count + 1 = MaxFailedAttempts
                      THEN now + LockoutDuration ELSE users[s].locked_until]

\* The row part of _on_failure.
FailedRow(s) ==
  [is_active |-> users[s].is_active,
   failed_login_count |-> users[s].failed_login_count + 1,
   locked_until |-> IF users[s].failed_login_count + 1 >= MaxFailedAttempts
                      THEN now + LockoutDuration ELSE users[s].locked_until]

\* A counter refuses: nothing is evaluated, counted or written.
Refuse ==
  /\ \/ Throttled
     \/ \E s \in DOMAIN users : Locked(s)
  /\ UNCHANGED vars

\* The row found is inactive: the entry is added, but the exception leaves
\* authenticate() before any commit and the request's session discards it.
Deny ==
  /\ ~Throttled
  /\ \E s \in DOMAIN users : ~Locked(s) /\ ~users[s].is_active
  /\ told' = told \union {"login_denied"}
  /\ UNCHANGED <<now, users, attempt, audited, history>>

\* The row _find_user returns lets the attempt pass to the credentials.
\* Among several rows the query, which has no ORDER BY, may return any.
MayTry(s) == s \in DOMAIN users /\ ~Locked(s) /\ users[s].is_active

\* A wrong password, an AD that refuses, fails or is not configured.
FailAsUser(s) ==
  /\ ~Throttled /\ MayTry(s)
  /\ users' = With(s, FailedRow(s))
  /\ RecordFailure
  /\ rowFails' = [rowFails EXCEPT ![s] = Append(@, now)]
  /\ guesses' = Append(guesses, now)
  /\ told' = told \union {"login_failed"}
  /\ audited' = audited \union {"login_failed"}
  /\ UNCHANGED now

\* The same without a row: only the identity can be counted.
FailAsStranger ==
  /\ ~Throttled /\ DOMAIN users = {}
  /\ RecordFailure
  /\ guesses' = Append(guesses, now)
  /\ told' = told \union {"login_failed"}
  /\ audited' = audited \union {"login_failed"}
  /\ UNCHANGED <<now, users, rowFails>>

\* _on_success of row s: counters cleared, record deleted, entry, commit.
Succeeds(s, row) ==
  /\ users' = With(s, [row EXCEPT !.failed_login_count = 0, !.locked_until = Unlocked])
  /\ attempt' = NoRecord
  /\ guesses' = <<>>
  /\ rowFails' = [rowFails EXCEPT ![s] = <<>>]
  /\ told' = told \union {"login_success"}
  /\ audited' = audited \union {"login_success"}
  /\ UNCHANGED now

\* A correct local password, or a bind accepted for an existing AD row.
SucceedAsUser(s) == ~Throttled /\ MayTry(s) /\ Succeeds(s, users[s])

\* A bind accepted without a row: _provision_ad_user stores the normalized name.
SucceedAsStranger ==
  /\ ~Throttled /\ DOMAIN users = {}
  /\ Succeeds(Canonical, NewUser)

\* POST /admin/users: refused only if the exact spelling exists.
AdminCreates(s) ==
  /\ s \notin DOMAIN users
  /\ users' = With(s, NewUser)
  /\ UNCHANGED <<now, attempt, told, audited, history>>

\* POST /admin/users/{uid}/update: (de)activation leaves the counters alone.
AdminUpdates(s, active) ==
  /\ s \in DOMAIN users
  /\ users' = With(s, [users[s] EXCEPT !.is_active = active])
  /\ UNCHANGED <<now, attempt, told, audited, history>>

Tick ==
  /\ now < MaxTime
  /\ now' = now + 1
  /\ UNCHANGED <<users, attempt, told, audited, history>>

Next ==
  \/ Refuse \/ Deny \/ FailAsStranger \/ SucceedAsStranger \/ Tick
  \/ \E s \in Spelling :
       \/ FailAsUser(s) \/ SucceedAsUser(s) \/ AdminCreates(s)
       \/ \E b \in BOOLEAN : AdminUpdates(s, b)

Spec == Init /\ [][Next]_vars

-----------------------------------------------------------------------------
Since(seq, t) == Cardinality({i \in DOMAIN seq : seq[i] >= t})

\* FIND-004: within any throttle window at most MAX_ATTEMPTS_PER_IDENTITY
\* passwords are tried against an identity between two of its successes,
\* whatever its rows are, become, or are called.
GuessesBounded ==
  \A t \in 0..now : now - t <= ThrottleWindow => Since(guesses, t) <= MaxAttemptsPerIdentity

\* AC-13b: a row that fails MAX_FAILED_ATTEMPTS times stays shut for the whole
\* lockout, and after it each further failure shuts it again.
RowGuessesBounded ==
  \A s \in DOMAIN users, t \in 0..now :
    now - t < LockoutDuration => Since(rowFails[s], t) <= MaxFailedAttempts

\* Refusals do not prolong themselves: who is kept out has failed within the
\* last lockout or window, so waiting always helps.
WaitingHelps ==
  /\ Throttled => Since(guesses, IF now > ThrottleWindow THEN now - ThrottleWindow ELSE 0) > 0
  /\ \A s \in DOMAIN users :
       Locked(s) => \E i \in DOMAIN rowFails[s] : rowFails[s][i] + LockoutDuration > now

-----------------------------------------------------------------------------
\* The inductive invariant behind the bounds.
InOrder(seq) ==
  \A i, j \in DOMAIN seq : seq[i] <= now /\ (i <= j => seq[i] <= seq[j])

\* The record counts the latest failures, and every failure it does not count
\* lies more than a window before the first of them.
RecordCountsRun ==
  /\ InOrder(guesses)
  /\ guesses = <<>> => attempt = NoRecord
  /\ guesses # <<>> =>
       LET n == Len(guesses)
           c == attempt.failure_count
       IN  /\ attempt.last_failure_at = guesses[n]
           /\ c \in 1..n
           /\ \A i \in 1..(n - c) : guesses[i] + ThrottleWindow < guesses[n - c + 1]

\* A row counts all its failures, is locked by the last of them once there are
\* enough, and from then on failed at least a lockout after any earlier time.
RowFollowsFailures(s) ==
  LET f == rowFails[s]
      n == Len(f)
  IN  /\ InOrder(f)
      /\ users[s].failed_login_count = n
      /\ users[s].locked_until = IF n >= MaxFailedAttempts THEN f[n] + LockoutDuration ELSE Unlocked
      /\ \A i, j \in DOMAIN f : i < j /\ MaxFailedAttempts < j => f[i] + LockoutDuration <= f[j]

RowsFollowFailures ==
  \A s \in Spelling : IF s \in DOMAIN users THEN RowFollowsFailures(s) ELSE rowFails[s] = <<>>

\* Every outcome of a login leaves an entry, but that of an inactive account:
\* its entry is added to a session that nobody commits.
AuditedUnlessDenied == told \ {"login_denied"} \subseteq audited

IInv ==
  /\ TypeOK
  /\ AuditedUnlessDenied
  /\ RecordCountsRun
  /\ RowsFollowFailures
=============================================================================
