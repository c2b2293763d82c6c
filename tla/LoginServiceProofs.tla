-------------------------- MODULE LoginServiceProofs --------------------------
(***************************************************************************)
(* Proofs about LoginService for all limits and spans: the types, and that *)
(* the two counters bound the passwords that can be tried in a window.     *)
(***************************************************************************)
EXTENDS LoginService, FiniteSetTheorems, SequenceTheorems, TLAPS

\* One more failure at the end of a chronicle of times.
LEMMA Longer ==
  ASSUME NEW f \in Seq(Time), NEW t \in Time
  PROVE  /\ Append(f, t) \in Seq(Time) /\ Append(f, t) # <<>>
         /\ Len(f) \in Nat /\ Len(Append(f, t)) = Len(f) + 1
         /\ DOMAIN f = 1..Len(f) /\ DOMAIN Append(f, t) = 1..(Len(f) + 1)
         /\ \A i \in 1..Len(f) : Append(f, t)[i] = f[i] /\ f[i] \in Time
         /\ Append(f, t)[Len(f) + 1] = t
         /\ 1..(Len(f) + 1) = 1..Len(f) \union {Len(f) + 1}
<1>1. /\ Append(f, t) \in Seq(Time) /\ Append(f, t) # <<>>
      /\ Len(Append(f, t)) = Len(f) + 1
      /\ \A i \in 1..Len(f) : Append(f, t)[i] = f[i]
      /\ Append(f, t)[Len(f) + 1] = t
  BY AppendProperties
<1>2. /\ Len(f) \in Nat /\ DOMAIN f = 1..Len(f)
      /\ DOMAIN Append(f, t) = 1..(Len(f) + 1)
  BY <1>1, LenProperties
<1>3. \A i \in 1..Len(f) : f[i] \in Time
  BY ElementOfSeq
<1> QED BY <1>1, <1>2, <1>3

\* What With does to the rows.
LEMMA RowWritten ==
  ASSUME NEW s, NEW row
  PROVE  /\ DOMAIN With(s, row) = DOMAIN users \union {s}
         /\ With(s, row)[s] = row
         /\ \A t \in DOMAIN users \ {s} : With(s, row)[t] = users[t]
BY DEF With

\* A throttled identity is not counted any further.
LEMMA CountStaysSmall ==
  ASSUME TypeOK, ~Throttled, RecordFailure
  PROVE  attempt' \in Attempt /\ attempt'.last_failure_at = now
         /\ attempt'.failure_count = IF Stale THEN 1 ELSE attempt.failure_count + 1
<1>1. /\ attempt.failure_count \in 0..MaxAttemptsPerIdentity /\ now \in Time
      /\ MaxAttemptsPerIdentity \in Nat \ {0}
  BY LimitAssumption DEF TypeOK, Attempt
<1>2. (IF Stale THEN 1 ELSE attempt.failure_count + 1) \in 0..MaxAttemptsPerIdentity
  BY <1>1 DEF Throttled
<1> QED BY <1>1, <1>2 DEF RecordFailure, Attempt

\* A failed row is a row.
LEMMA FailedRowType ==
  ASSUME TypeOK, NEW s \in DOMAIN users
  PROVE  /\ FailedRow(s) \in User /\ FailedRow(s).is_active = users[s].is_active
         /\ FailedRow(s).failed_login_count = users[s].failed_login_count + 1
         /\ FailedRow(s).locked_until =
              IF users[s].failed_login_count + 1 >= MaxFailedAttempts
                THEN now + LockoutDuration ELSE users[s].locked_until
<1>1. /\ users[s].is_active \in BOOLEAN /\ users[s].failed_login_count \in Nat
      /\ users[s].locked_until \in Nat /\ now \in Nat /\ LockoutDuration \in Nat
  BY LimitAssumption DEF TypeOK, User, Time
<1> QED BY <1>1 DEF FailedRow, User

\* The state has the types TypeOK gives it.
THEOREM TypeCorrect == Spec => []TypeOK
<1>1. Init => TypeOK
  <2>1. 0 \in Time
    BY LimitAssumption DEF Time
  <2>2. NoRecord \in Attempt /\ NewUser \in User
    BY <2>1, LimitAssumption DEF NoRecord, Attempt, NewUser, User, Unlocked
  <2>3. <<>> \in Seq(Time)
    OBVIOUS
  <2> QED BY <2>1, <2>2, <2>3, SpellingAssumption DEF Init, TypeOK
<1>2. TypeOK /\ [Next]_vars => TypeOK'
  <2> SUFFICES ASSUME TypeOK, [Next]_vars PROVE TypeOK'
    OBVIOUS
  <2> USE DEF TypeOK
  <2>1. NoRecord \in Attempt /\ NewUser \in User
    BY LimitAssumption DEF NoRecord, Attempt, NewUser, User, Unlocked, Time
  <2>2. guesses \in Seq(Time) /\ Append(guesses, now) \in Seq(Time)
    BY Longer
  <2>3. \A s \in Spelling : Append(rowFails[s], now) \in Seq(Time)
    BY Longer
  <2>4. <<>> \in Seq(Time)
    OBVIOUS
  <2>5. ASSUME NEW s \in Spelling, NEW row \in User, users' = With(s, row)
        PROVE  DOMAIN users' \subseteq Spelling /\ \A t \in DOMAIN users' : users'[t] \in User
    BY <2>5 DEF With
  <2>6. ASSUME NEW s \in Spelling, FailAsUser(s)
        PROVE  TypeOK'
    <3>1. s \in DOMAIN users
      BY <2>6 DEF FailAsUser, MayTry
    <3>2. FailedRow(s) \in User /\ attempt' \in Attempt
      BY <2>6, <3>1, FailedRowType, CountStaysSmall DEF FailAsUser
    <3> QED BY <2>2, <2>3, <2>5, <2>6, <3>2 DEF FailAsUser, Kind
  <2>7. ASSUME NEW s \in Spelling, NEW row \in User, Succeeds(s, row)
        PROVE  TypeOK'
    <3>1. [row EXCEPT !.failed_login_count = 0, !.locked_until = Unlocked] \in User
      BY DEF User, Unlocked
    <3> QED BY <2>1, <2>4, <2>5, <2>7, <3>1 DEF Succeeds, Kind
  <2>8. CASE Refuse \/ Deny
    BY <2>8 DEF Refuse, Deny, vars, history, Kind
  <2>15. CASE Tick
    <3>1. now' \in Time
      BY <2>15, LimitAssumption DEF Tick, Time
    <3> QED BY <2>15, <3>1 DEF Tick, history
  <2>9. CASE FailAsStranger
    BY <2>2, <2>9, CountStaysSmall DEF FailAsStranger, Kind
  <2>10. CASE SucceedAsStranger
    BY <2>1, <2>7, <2>10, SpellingAssumption DEF SucceedAsStranger
  <2>11. ASSUME NEW s \in Spelling, SucceedAsUser(s)
         PROVE  TypeOK'
    BY <2>7, <2>11 DEF SucceedAsUser, MayTry
  <2>12. ASSUME NEW s \in Spelling, AdminCreates(s)
         PROVE  TypeOK'
    BY <2>1, <2>5, <2>12 DEF AdminCreates, history
  <2>13. ASSUME NEW s \in Spelling, NEW b \in BOOLEAN, AdminUpdates(s, b)
         PROVE  TypeOK'
    <3>1. [users[s] EXCEPT !.is_active = b] \in User
      BY <2>13 DEF AdminUpdates, User
    <3> QED BY <2>5, <2>13, <3>1 DEF AdminUpdates, history
  <2>14. CASE UNCHANGED vars
    BY <2>14 DEF vars, history
  <2> QED BY <2>6, <2>8, <2>9, <2>10, <2>11, <2>12, <2>13, <2>14, <2>15 DEF Next
<1> QED BY <1>1, <1>2, PTL DEF Spec

-----------------------------------------------------------------------------
\* Times are numbers.
LEMMA TimesAreNumbers ==
  /\ Time \subseteq Nat /\ \A t \in Time : t \in Nat
  /\ MaxFailedAttempts \in Nat \ {0} /\ LockoutDuration \in Nat \ {0}
  /\ MaxAttemptsPerIdentity \in Nat \ {0} /\ ThrottleWindow \in Nat \ {0}
BY LimitAssumption DEF Time

\* A chronicle stays one as time passes, and when the present is added to it.
LEMMA StillInOrder ==
  ASSUME now \in Time, now' \in Time, now' >= now, NEW f \in Seq(Time), InOrder(f)
  PROVE  \A i, j \in DOMAIN f : f[i] <= now' /\ (i <= j => f[i] <= f[j])
<1>1. \A i \in DOMAIN f : f[i] \in Nat
  BY ElementOfSeq, LenProperties, TimesAreNumbers
<1>2. now \in Nat /\ now' \in Nat
  BY TimesAreNumbers
<1> QED BY <1>1, <1>2 DEF InOrder

\* A failure recorded now comes last.
LEMMA LongerInOrder ==
  ASSUME now \in Time, NEW f \in Seq(Time), InOrder(f)
  PROVE  InOrder(Append(f, now))
<1> DEFINE g == Append(f, now)
           n == Len(f)
<1>1. /\ n \in Nat /\ DOMAIN f = 1..n /\ DOMAIN g = 1..(n + 1)
      /\ \A i \in 1..n : g[i] = f[i] /\ f[i] \in Time
      /\ g[n + 1] = now /\ 1..(n + 1) = 1..n \union {n + 1}
  <2>1. Len(f) \in Nat /\ 1..(Len(f) + 1) = 1..Len(f) \union {Len(f) + 1}
    BY Longer
  <2> QED BY <2>1, Longer
<1> HIDE DEF g, n
<1>2. \A i \in 1..(n + 1) : g[i] <= now
  BY <1>1, TimesAreNumbers DEF InOrder
<1>3. ASSUME NEW i \in 1..(n + 1), NEW j \in 1..(n + 1), i <= j
      PROVE  g[i] <= g[j]
  <2>1. CASE j = n + 1
    BY <2>1, <1>1, <1>2
  <2>2. CASE j \in 1..n
    <3>1. i \in 1..n
      BY <2>2, <1>1, <1>3
    <3> QED BY <2>2, <3>1, <1>1, <1>3 DEF InOrder
  <2> QED BY <2>1, <2>2, <1>1
<1> QED BY <1>1, <1>2, <1>3 DEF InOrder, g

\* A failure extends the run the record counts, or starts a new one.
LEMMA RunExtended ==
  ASSUME TypeOK, TypeOK', RecordCountsRun, RecordFailure, now' = now,
         guesses' = Append(guesses, now), ~Throttled
  PROVE  RecordCountsRun'
<1> DEFINE n == Len(guesses)
           c == attempt.failure_count
           d == attempt'.failure_count
<1>1. /\ n \in Nat /\ guesses' # <<>> /\ Len(guesses') = n + 1
      /\ DOMAIN guesses = 1..n /\ DOMAIN guesses' = 1..(n + 1)
      /\ \A i \in 1..n : guesses'[i] = guesses[i] /\ guesses[i] \in Time
      /\ guesses'[n + 1] = now
  BY Longer DEF TypeOK
<1>2. /\ attempt'.last_failure_at = now
      /\ d = IF Stale THEN 1 ELSE c + 1
      /\ c \in Nat /\ now \in Nat
  BY CountStaysSmall, TimesAreNumbers DEF TypeOK, Attempt
<1>3. InOrder(guesses)'
  BY <1>1, LongerInOrder DEF RecordCountsRun, InOrder, TypeOK
<1>4. /\ d \in 1..(n + 1)
      /\ \A i \in 1..((n + 1) - d) : guesses'[i] + ThrottleWindow < guesses'[((n + 1) - d) + 1]
  <2>1. CASE n = 0
    <3>1. guesses = <<>>
      BY <2>1, EmptySeq DEF TypeOK
    <3>2. c = 0 /\ d = 1
      BY <3>1, <1>2 DEF RecordCountsRun, NoRecord
    <3> QED BY <2>1, <3>2
  <2>2. CASE n # 0
    <3>1. guesses # <<>>
      BY <2>2, EmptySeq DEF TypeOK
    <3>2. /\ attempt.last_failure_at = guesses[n] /\ c \in 1..n
          /\ \A i \in 1..(n - c) : guesses[i] + ThrottleWindow < guesses[n - c + 1]
      BY <3>1 DEF RecordCountsRun
    <3>3. n \in 1..n /\ \A i \in 1..n : guesses[i] \in Nat
      <4>1. n \in 1..n
        BY <2>2, <1>1
      <4>2. \A i \in 1..n : guesses[i] \in Nat
        <5> HIDE DEF n
        <5> QED BY <1>1, TimesAreNumbers
      <4> QED BY <4>1, <4>2
    <3>4. CASE Stale
      <4>1. d = 1 /\ guesses[n] + ThrottleWindow < now
        BY <3>2, <3>3, <3>4, <1>2, TimesAreNumbers DEF Stale
      <4>2. \A i \in 1..n : guesses[i] <= guesses[n] /\ guesses[i] \in Nat
        <5>1. InOrder(guesses)
          BY DEF RecordCountsRun
        <5> HIDE DEF n
        <5> QED BY <5>1, <1>1, <3>3 DEF InOrder
      <4>3. (n + 1) - d = n /\ d \in 1..(n + 1)
        BY <4>1, <1>1
      <4>4. \A i \in 1..n : guesses'[i] + ThrottleWindow < guesses'[n + 1]
        BY <4>1, <4>2, <3>3, <1>1, <1>2, TimesAreNumbers
      <4> QED BY <4>3, <4>4
    <3>5. CASE ~Stale
      <4>1. d = c + 1 /\ (n + 1) - d = n - c /\ d \in 1..(n + 1) /\ n - c + 1 \in 1..n
            /\ 1..(n - c) \subseteq 1..n
        BY <3>2, <3>5, <1>1, <1>2
      <4> QED BY <4>1, <3>2, <1>1
    <3> QED BY <3>4, <3>5
  <2> QED BY <2>1, <2>2
<1> HIDE DEF d
<1>5. guesses'[Len(guesses')] = attempt'.last_failure_at
  BY <1>1, <1>2
<1> QED BY <1>1, <1>3, <1>4, <1>5 DEF RecordCountsRun, d

\* A row that fails was not locked: a lockout has passed since the failure that
\* locked it last.
LEMMA RowFailed ==
  ASSUME TypeOK, TypeOK', NEW s \in DOMAIN users, RowFollowsFailures(s), ~Locked(s), now' = now,
         users'[s] = FailedRow(s), rowFails'[s] = Append(rowFails[s], now)
  PROVE  RowFollowsFailures(s)'
<1> DEFINE f == rowFails[s]
           n == Len(f)
           g == rowFails'[s]
<1>1. f \in Seq(Time) /\ s \in Spelling /\ now \in Time
  BY DEF TypeOK
<1>2. /\ n \in Nat /\ DOMAIN f = 1..n /\ DOMAIN g = 1..(n + 1) /\ Len(g) = n + 1
      /\ \A i \in 1..n : g[i] = f[i] /\ f[i] \in Time
      /\ g[n + 1] = now /\ 1..(n + 1) = 1..n \union {n + 1}
  <2>1. n \in Nat /\ 1..(n + 1) = 1..n \union {n + 1}
    BY <1>1, Longer
  <2> QED BY <1>1, <2>1, Longer
<1>3. /\ InOrder(f) /\ users[s].failed_login_count = n
      /\ users[s].locked_until = IF n >= MaxFailedAttempts THEN f[n] + LockoutDuration ELSE Unlocked
      /\ \A i, j \in 1..n : i < j /\ MaxFailedAttempts < j => f[i] + LockoutDuration <= f[j]
  BY <1>2 DEF RowFollowsFailures
<1>4. InOrder(g)
  BY <1>1, <1>3, LongerInOrder
<1>5. /\ users'[s].failed_login_count = n + 1
      /\ users'[s].locked_until =
           IF n + 1 >= MaxFailedAttempts THEN now + LockoutDuration ELSE users[s].locked_until
  BY <1>3, FailedRowType
<1>6. n + 1 < MaxFailedAttempts => users[s].locked_until = Unlocked
  BY <1>2, <1>3, TimesAreNumbers
<1>7. ASSUME NEW i \in 1..(n + 1), NEW j \in 1..(n + 1), i < j, MaxFailedAttempts < j
      PROVE  g[i] + LockoutDuration <= g[j]
  <2>1. i \in 1..n
    BY <1>2, <1>7
  <2>2. CASE j \in 1..n
    BY <2>1, <2>2, <1>2, <1>3, <1>7
  <2>3. CASE j = n + 1
    <3>1. n >= MaxFailedAttempts /\ n \in 1..n
      BY <2>1, <2>3, <1>2, <1>7, TimesAreNumbers
    <3>2. f[n] + LockoutDuration <= now
      <4>1. f[n] \in Nat /\ now \in Nat
        BY <3>1, <1>1, <1>2, TimesAreNumbers
      <4> QED BY <3>1, <4>1, <1>3, TimesAreNumbers DEF Locked
    <3>3. f[i] <= f[n]
      BY <2>1, <3>1, <1>2, <1>3 DEF InOrder
    <3>4. f[i] \in Nat /\ f[n] \in Nat /\ now \in Nat
      BY <2>1, <3>1, <1>1, <1>2, TimesAreNumbers
    <3> QED BY <2>1, <2>3, <3>2, <3>3, <3>4, <1>2, TimesAreNumbers
  <2> QED BY <2>2, <2>3, <1>2
<1> HIDE DEF f, n
<1>8. InOrder(rowFails[s])'
  BY <1>4 DEF InOrder
<1>9. n + 1 >= MaxFailedAttempts \/ n + 1 < MaxFailedAttempts
  BY <1>2, TimesAreNumbers
<1> QED BY <1>2, <1>5, <1>6, <1>7, <1>8, <1>9 DEF RowFollowsFailures

\* A row whose counters and failures rest stays as it was while time passes.
LEMMA RowRests ==
  ASSUME TypeOK, now' \in Time, now' >= now, NEW s \in Spelling, RowFollowsFailures(s),
         users'[s].failed_login_count = users[s].failed_login_count,
         users'[s].locked_until = users[s].locked_until,
         rowFails'[s] = rowFails[s]
  PROVE  RowFollowsFailures(s)'
<1>1. rowFails[s] \in Seq(Time) /\ InOrder(rowFails[s])
  BY DEF TypeOK, RowFollowsFailures
<1>2. InOrder(rowFails[s])'
  BY <1>1, StillInOrder DEF InOrder, TypeOK
<1> QED BY <1>2 DEF RowFollowsFailures

\* A row without failures follows them.
LEMMA RowFresh ==
  ASSUME NEW s \in Spelling, rowFails'[s] = <<>>,
         users'[s].failed_login_count = 0, users'[s].locked_until = Unlocked
  PROVE  RowFollowsFailures(s)'
<1>1. DOMAIN rowFails'[s] = {} /\ Len(rowFails'[s]) = 0 /\ ~(0 >= MaxFailedAttempts)
  BY TimesAreNumbers
<1> QED BY <1>1 DEF RowFollowsFailures, InOrder

\* Without a record of failures there is nothing to count.
LEMMA RecordFresh ==
  ASSUME guesses' = <<>>, attempt' = NoRecord
  PROVE  RecordCountsRun'
<1>1. DOMAIN guesses' = {}
  OBVIOUS
<1> QED BY <1>1 DEF RecordCountsRun, InOrder, NoRecord

\* The record rests while time passes.
LEMMA RecordRests ==
  ASSUME TypeOK, RecordCountsRun, now' \in Time, now' >= now, UNCHANGED <<guesses, attempt>>
  PROVE  RecordCountsRun'
<1>1. InOrder(guesses)'
  BY StillInOrder DEF InOrder, RecordCountsRun, TypeOK
<1> QED BY <1>1 DEF RecordCountsRun

\* A success leaves no failure behind in its row or its identity.
LEMMA SuccessStep ==
  ASSUME IInv, TypeOK', AuditedUnlessDenied', NEW s \in Spelling, NEW row \in User, Succeeds(s, row)
  PROVE  IInv'
<1>1. /\ users' = With(s, [row EXCEPT !.failed_login_count = 0, !.locked_until = Unlocked])
      /\ attempt' = NoRecord /\ guesses' = <<>> /\ now' = now
      /\ rowFails' = [rowFails EXCEPT ![s] = <<>>]
  BY DEF Succeeds
<1>2. ASSUME NEW t \in Spelling
      PROVE  (IF t \in DOMAIN users THEN RowFollowsFailures(t) ELSE rowFails[t] = <<>>)'
  <2>1. CASE t = s
    <3>1. /\ t \in DOMAIN users' /\ rowFails'[t] = <<>>
          /\ users'[t].failed_login_count = 0 /\ users'[t].locked_until = Unlocked
      BY <2>1, <1>1 DEF With, User, IInv, TypeOK
    <3> QED BY <3>1, RowFresh
  <2>2. CASE t # s /\ t \in DOMAIN users
    <3>1. /\ t \in DOMAIN users' /\ users'[t] = users[t] /\ rowFails'[t] = rowFails[t]
          /\ now' \in Time /\ now' >= now
      BY <2>2, <1>1, TimesAreNumbers DEF With, IInv, TypeOK
    <3> QED BY <3>1, <2>2, RowRests DEF IInv, RowsFollowFailures
  <2>3. CASE t # s /\ t \notin DOMAIN users
    BY <2>3, <1>1 DEF With, IInv, TypeOK, RowsFollowFailures
  <2> QED BY <2>1, <2>2, <2>3
<1> QED BY <1>1, <1>2, RecordFresh DEF IInv, RowsFollowFailures

\* A failure is counted by the record and by the row that was found.
LEMMA FailureStep ==
  ASSUME IInv, TypeOK', AuditedUnlessDenied', NEW s \in Spelling, FailAsUser(s)
  PROVE  IInv'
<1>1. /\ users' = With(s, FailedRow(s)) /\ now' = now /\ s \in DOMAIN users /\ ~Locked(s)
      /\ ~Throttled /\ RecordFailure /\ guesses' = Append(guesses, now)
      /\ rowFails' = [rowFails EXCEPT ![s] = Append(@, now)]
  BY DEF FailAsUser, MayTry
<1>2. RecordCountsRun'
  BY <1>1, RunExtended DEF IInv
<1>3. ASSUME NEW t \in Spelling
      PROVE  (IF t \in DOMAIN users THEN RowFollowsFailures(t) ELSE rowFails[t] = <<>>)'
  <2>1. CASE t = s
    <3>1. users'[s] = FailedRow(s) /\ s \in DOMAIN users' /\ rowFails'[s] = Append(rowFails[s], now)
      BY <1>1 DEF With, IInv, TypeOK
    <3>2. RowFollowsFailures(s)
      BY <1>1 DEF IInv, RowsFollowFailures
    <3>3. RowFollowsFailures(s)'
      BY <1>1, <3>1, <3>2, RowFailed DEF IInv
    <3> QED BY <2>1, <3>1, <3>3
  <2>2. CASE t # s /\ t \in DOMAIN users
    <3>1. /\ t \in DOMAIN users' /\ users'[t] = users[t] /\ rowFails'[t] = rowFails[t]
          /\ now' \in Time /\ now' >= now
      BY <2>2, <1>1, TimesAreNumbers DEF With, IInv, TypeOK
    <3> QED BY <3>1, <2>2, RowRests DEF IInv, RowsFollowFailures
  <2>3. CASE t # s /\ t \notin DOMAIN users
    BY <2>3, <1>1 DEF With, IInv, TypeOK, RowsFollowFailures
  <2> QED BY <2>1, <2>2, <2>3
<1> QED BY <1>2, <1>3 DEF IInv, RowsFollowFailures

\* Steps of the administrator and of the clock disturb no counter.
LEMMA RestStep ==
  ASSUME IInv, TypeOK', AuditedUnlessDenied', UNCHANGED <<attempt, guesses, rowFails>>, now' >= now,
         DOMAIN users \subseteq DOMAIN users',
         \A t \in DOMAIN users : /\ users'[t].failed_login_count = users[t].failed_login_count
                                 /\ users'[t].locked_until = users[t].locked_until,
         \A t \in DOMAIN users' \ DOMAIN users : users'[t] = NewUser
  PROVE  IInv'
<1>1. now' \in Time
  BY DEF TypeOK
<1>2. RecordCountsRun'
  BY <1>1, RecordRests DEF IInv
<1>3. ASSUME NEW t \in Spelling
      PROVE  (IF t \in DOMAIN users THEN RowFollowsFailures(t) ELSE rowFails[t] = <<>>)'
  <2>1. CASE t \in DOMAIN users
    <3>1. RowFollowsFailures(t)
      BY <2>1 DEF IInv, RowsFollowFailures
    <3>2. RowFollowsFailures(t)'
      BY <2>1, <3>1, <1>1, RowRests DEF IInv
    <3> QED BY <2>1, <3>2
  <2>2. CASE t \in DOMAIN users' \ DOMAIN users
    <3>1. rowFails'[t] = <<>>
      BY <2>2 DEF IInv, RowsFollowFailures
    <3>2. RowFollowsFailures(t)'
      BY <2>2, <3>1, RowFresh DEF NewUser
    <3> QED BY <2>2, <3>2
  <2>3. CASE t \notin DOMAIN users'
    BY <2>3 DEF IInv, RowsFollowFailures
  <2> QED BY <2>1, <2>2, <2>3
<1> QED BY <1>2, <1>3 DEF IInv, RowsFollowFailures

\* No identity starts with failures.
LEMMA InitIInv == Init => IInv
<1> SUFFICES ASSUME Init PROVE IInv
  OBVIOUS
<1>1. TypeOK
  <2>1. 0 \in Time
    BY LimitAssumption DEF Time
  <2>2. NoRecord \in Attempt /\ NewUser \in User
    BY <2>1, LimitAssumption DEF NoRecord, Attempt, NewUser, User, Unlocked, Time
  <2>3. <<>> \in Seq(Time)
    OBVIOUS
  <2> QED BY <2>1, <2>2, <2>3, SpellingAssumption DEF Init, TypeOK
<1>2. RecordCountsRun
  <2>1. DOMAIN guesses = {} /\ guesses = <<>>
    BY DEF Init
  <2> QED BY <2>1 DEF Init, RecordCountsRun, InOrder
<1>3. ASSUME NEW s \in Spelling, s \in DOMAIN users
      PROVE  RowFollowsFailures(s)
  <2>1. rowFails[s] = <<>> /\ users[s] = NewUser
    BY <1>3 DEF Init
  <2>2. DOMAIN rowFails[s] = {} /\ Len(rowFails[s]) = 0 /\ ~(0 >= MaxFailedAttempts)
    BY <2>1, TimesAreNumbers
  <2> QED BY <2>1, <2>2 DEF RowFollowsFailures, InOrder, NewUser
<1>4. \A s \in Spelling : rowFails[s] = <<>>
  BY DEF Init
<1>5. AuditedUnlessDenied
  BY DEF Init, AuditedUnlessDenied
<1> QED BY <1>1, <1>2, <1>3, <1>4, <1>5 DEF IInv, RowsFollowFailures

\* IInv is inductive.
THEOREM Invariance == Spec => []IInv
<1>1. Init => IInv
  BY InitIInv
<1>2. TypeOK' /\ AuditedUnlessDenied' /\ IInv /\ [Next]_vars => IInv'
  <2> SUFFICES ASSUME TypeOK', AuditedUnlessDenied', IInv, [Next]_vars PROVE IInv'
    OBVIOUS
  <2>1. now \in Nat /\ now' \in Nat /\ now >= now
    BY TimesAreNumbers DEF IInv, TypeOK
  <2>2. CASE Refuse \/ Deny \/ UNCHANGED vars
    BY <2>1, <2>2, RestStep DEF Refuse, Deny, vars, history
  <2>3. CASE Tick
    BY <2>1, <2>3, RestStep DEF Tick, history
  <2>4. CASE FailAsStranger
    <3>1. /\ RecordCountsRun' /\ UNCHANGED <<users, rowFails>> /\ DOMAIN users = {}
      BY <2>4, RunExtended DEF FailAsStranger, IInv
    <3> QED BY <3>1 DEF IInv, RowsFollowFailures
  <2>5. CASE SucceedAsStranger
    <3>1. NewUser \in User /\ Canonical \in Spelling
      BY SpellingAssumption DEF NewUser, User, Unlocked
    <3> QED BY <2>5, <3>1, SuccessStep DEF SucceedAsStranger
  <2>6. ASSUME NEW s \in Spelling, SucceedAsUser(s)
        PROVE  IInv'
    <3>1. users[s] \in User
      BY <2>6 DEF SucceedAsUser, MayTry, IInv, TypeOK
    <3> QED BY <2>6, <3>1, SuccessStep DEF SucceedAsUser
  <2>7. ASSUME NEW s \in Spelling, AdminCreates(s)
        PROVE  IInv'
    <3>1. users' = With(s, NewUser) /\ s \notin DOMAIN users
      BY <2>7 DEF AdminCreates
    <3>2. /\ DOMAIN users' = DOMAIN users \union {s}
          /\ \A t \in DOMAIN users : users'[t] = users[t]
          /\ \A t \in DOMAIN users' \ DOMAIN users : users'[t] = NewUser
      BY <3>1 DEF With
    <3> QED BY <2>1, <2>7, <3>2, RestStep DEF AdminCreates, history
  <2>8. ASSUME NEW s \in Spelling, NEW b \in BOOLEAN, AdminUpdates(s, b)
        PROVE  IInv'
    <3>1. users' = With(s, [users[s] EXCEPT !.is_active = b]) /\ s \in DOMAIN users
          /\ users[s] \in User
      BY <2>8 DEF AdminUpdates, IInv, TypeOK
    <3>2. /\ DOMAIN users' = DOMAIN users
          /\ \A t \in DOMAIN users : /\ users'[t].failed_login_count = users[t].failed_login_count
                                     /\ users'[t].locked_until = users[t].locked_until
      BY <3>1 DEF With, User
    <3> QED BY <2>1, <2>8, <3>2, RestStep DEF AdminUpdates, history
  <2> QED BY <2>2, <2>3, <2>4, <2>5, <2>6, <2>7, <2>8, FailureStep DEF Next
<1>3. AuditedUnlessDenied /\ [Next]_vars => AuditedUnlessDenied'
  BY DEF AuditedUnlessDenied, Next, vars, history, Refuse, Deny, FailAsStranger, FailAsUser,
         Succeeds, SucceedAsUser, SucceedAsStranger, AdminCreates, AdminUpdates, Tick
<1>4. Init => AuditedUnlessDenied
  BY DEF Init, AuditedUnlessDenied
<1> QED BY <1>1, <1>2, <1>3, <1>4, TypeCorrect, PTL DEF Spec

-----------------------------------------------------------------------------
\* Within a throttle window an identity's password is tried at most
\* MAX_ATTEMPTS_PER_IDENTITY times between two of its successes.
THEOREM WindowBound == Spec => []GuessesBounded
<1>1. IInv => GuessesBounded
  <2> SUFFICES ASSUME IInv, NEW t \in 0..now, now - t <= ThrottleWindow
               PROVE  Since(guesses, t) <= MaxAttemptsPerIdentity
    BY DEF GuessesBounded
  <2> DEFINE n == Len(guesses)
             c == attempt.failure_count
             S == {i \in DOMAIN guesses : guesses[i] >= t}
  <2>1. /\ n \in Nat /\ DOMAIN guesses = 1..n /\ now \in Nat /\ t \in Nat
        /\ \A i \in 1..n : guesses[i] \in Nat
    <3>1. guesses \in Seq(Time) /\ now \in Nat
      BY TimesAreNumbers DEF IInv, TypeOK
    <3>2. DOMAIN guesses = 1..Len(guesses) /\ Len(guesses) \in Nat
          /\ \A i \in 1..Len(guesses) : guesses[i] \in Time
      BY <3>1, LenProperties, ElementOfSeq
    <3>3. now \in Nat /\ t \in Nat
      BY <3>1
    <3>4. \A i \in 1..n : guesses[i] \in Nat
      BY <3>2, TimesAreNumbers
    <3> HIDE DEF c, S
    <3> QED BY <3>2, <3>3, <3>4
  <2>2. CASE guesses = <<>>
    <3>1. S = {}
      BY <2>2
    <3> QED BY <3>1, FS_EmptySet, TimesAreNumbers DEF Since
  <2>3. CASE guesses # <<>>
    <3>1. /\ c \in 1..n /\ c <= MaxAttemptsPerIdentity
          /\ \A i \in 1..(n - c) : guesses[i] + ThrottleWindow < guesses[n - c + 1]
      BY <2>3, TimesAreNumbers DEF IInv, RecordCountsRun, TypeOK, Attempt
    <3>2. n - c + 1 \in 1..n /\ guesses[n - c + 1] <= now
      <4>1. n - c + 1 \in 1..n
        BY <2>1, <3>1
      <4> HIDE DEF n, c
      <4> QED BY <2>1, <4>1 DEF IInv, RecordCountsRun, InOrder
    <3>3. S \subseteq (n - c + 1)..n
      <4> SUFFICES ASSUME NEW i \in 1..n, guesses[i] >= t, i \notin (n - c + 1)..n
                   PROVE  FALSE
        BY <2>1
      <4>1. i \in 1..(n - c)
        BY <2>1, <3>1
      <4>2. guesses[i] + ThrottleWindow < now
        BY <2>1, <3>1, <3>2, <4>1, TimesAreNumbers
      <4> QED BY <2>1, <4>2, TimesAreNumbers
    <3>4. IsFiniteSet((n - c + 1)..n) /\ Cardinality((n - c + 1)..n) = c
      <4>1. n - c + 1 \in Int /\ n \in Int /\ ~(n - c + 1 > n) /\ n - (n - c + 1) + 1 = c
        BY <2>1, <3>1
      <4> HIDE DEF n, c
      <4> QED BY <4>1, FS_Interval
    <3>5. Cardinality(S) <= c /\ Cardinality(S) \in Nat
      BY <3>3, <3>4, FS_Subset, FS_CardinalityType
    <3> QED BY <2>1, <3>1, <3>5, TimesAreNumbers DEF Since
  <2> QED BY <2>2, <2>3
<1> QED BY <1>1, Invariance, PTL

\* Within a lockout a row fails at most MAX_FAILED_ATTEMPTS times between two
\* of its successes.
THEOREM LockoutBound == Spec => []RowGuessesBounded
<1>1. IInv => RowGuessesBounded
  <2> SUFFICES ASSUME IInv, NEW s \in DOMAIN users, NEW t \in 0..now, now - t < LockoutDuration
               PROVE  Since(rowFails[s], t) <= MaxFailedAttempts
    BY DEF RowGuessesBounded
  <2> DEFINE f == rowFails[s]
             n == Len(f)
             S == {i \in DOMAIN f : f[i] >= t}
  <2>1. s \in Spelling /\ f \in Seq(Time) /\ RowFollowsFailures(s) /\ now \in Nat /\ t \in Nat
    BY TimesAreNumbers DEF IInv, TypeOK, RowsFollowFailures
  <2>2. /\ n \in Nat /\ DOMAIN f = 1..n
        /\ \A i \in 1..n : f[i] \in Nat
        /\ \A i \in 1..n : f[i] <= now
        /\ \A i, j \in 1..n : i < j /\ MaxFailedAttempts < j => f[i] + LockoutDuration <= f[j]
    <3> HIDE DEF f
    <3>1. n \in Nat /\ DOMAIN f = 1..n /\ \A i \in 1..n : f[i] \in Time
      BY <2>1, LenProperties, ElementOfSeq
    <3> QED BY <2>1, <3>1, TimesAreNumbers DEF RowFollowsFailures, InOrder, f
  <2> HIDE DEF f, n
  <2>3. ASSUME NEW i \in 1..n, NEW j \in 1..n, i < j, MaxFailedAttempts < j
        PROVE  f[i] < t
    <3>1. f[i] + LockoutDuration <= now
      BY <2>1, <2>2, <2>3, TimesAreNumbers
    <3> QED BY <2>1, <2>2, <3>1, TimesAreNumbers
  <2>4. CASE S \subseteq 1..MaxFailedAttempts
    <3>1. IsFiniteSet(1..MaxFailedAttempts) /\ Cardinality(1..MaxFailedAttempts) = MaxFailedAttempts
      BY FS_Interval, TimesAreNumbers
    <3>2. Cardinality(S) <= MaxFailedAttempts
      BY <2>4, <3>1, FS_Subset
    <3> QED BY <3>2 DEF Since, f
  <2>5. CASE ~(S \subseteq 1..MaxFailedAttempts)
    <3>1. PICK j \in S : j \notin 1..MaxFailedAttempts
      BY <2>5
    <3>2. j \in 1..n /\ f[j] >= t /\ MaxFailedAttempts < j
      BY <3>1, <2>2, TimesAreNumbers
    <3>3. ASSUME NEW i \in 1..n, f[i] >= t, i # j
          PROVE  FALSE
      <4>1. f[i] \in Nat /\ f[j] \in Nat
        BY <2>2, <3>2
      <4>2. CASE i < j
        BY <2>3, <3>2, <3>3, <4>1, <4>2, <2>1
      <4>3. CASE j < i
        <5>1. MaxFailedAttempts < i
          BY <3>2, <4>3, <2>2, TimesAreNumbers
        <5> QED BY <2>3, <3>2, <4>1, <4>3, <5>1, <2>1
      <4> QED BY <4>2, <4>3, <3>2, <3>3, <2>2
    <3>4. S = {j}
      BY <3>2, <3>3, <2>2
    <3>5. Cardinality(S) = 1
      BY <3>4, FS_Singleton
    <3> QED BY <3>5, TimesAreNumbers DEF Since, f
  <2> QED BY <2>4, <2>5
<1> QED BY <1>1, Invariance, PTL

\* Whoever is kept out has failed recently: refusals do not prolong themselves.
THEOREM WaitingIsEnough == Spec => []WaitingHelps
<1>1. IInv => WaitingHelps
  <2> SUFFICES ASSUME IInv PROVE WaitingHelps
    OBVIOUS
  <2>1. ASSUME Throttled, NEW t \in Nat,
               t = IF now > ThrottleWindow THEN now - ThrottleWindow ELSE 0
        PROVE  Since(guesses, t) > 0
    <3> DEFINE n == Len(guesses)
               S == {i \in DOMAIN guesses : guesses[i] >= t}
    <3>1. guesses \in Seq(Time) /\ now \in Nat /\ attempt \in Attempt
      BY TimesAreNumbers DEF IInv, TypeOK
    <3>2. guesses # <<>>
      BY <2>1, TimesAreNumbers DEF IInv, RecordCountsRun, Throttled, NoRecord
    <3>3. n \in Nat /\ DOMAIN guesses = 1..n /\ n >= 1
      BY <3>1, <3>2, LenProperties, EmptySeq
    <3>4. guesses[n] \in Nat /\ guesses[n] = attempt.last_failure_at
      <4>1. guesses[n] \in Time
        BY <3>1, <3>3, ElementOfSeq
      <4>2. guesses[n] = attempt.last_failure_at
        BY <3>2 DEF IInv, RecordCountsRun
      <4> QED BY <4>1, <4>2, TimesAreNumbers
    <3>5. guesses[n] >= t
      BY <2>1, <3>1, <3>4, TimesAreNumbers DEF Throttled, Stale
    <3>6. n \in S
      BY <3>3, <3>5
    <3>7. IsFiniteSet(S)
      <4>1. IsFiniteSet(1..n) /\ S \subseteq 1..n
        BY <3>3, FS_Interval
      <4> QED BY <4>1, FS_Subset
    <3>8. Cardinality(S) \in Nat /\ Cardinality(S) # 0
      BY <3>6, <3>7, FS_CardinalityType, FS_EmptySet
    <3> QED BY <3>8 DEF Since
  <2>2. ASSUME NEW s \in DOMAIN users, Locked(s)
        PROVE  \E i \in DOMAIN rowFails[s] : rowFails[s][i] + LockoutDuration > now
    <3> DEFINE f == rowFails[s]
               n == Len(f)
    <3>1. s \in Spelling /\ f \in Seq(Time) /\ RowFollowsFailures(s) /\ now \in Nat
      BY TimesAreNumbers DEF IInv, TypeOK, RowsFollowFailures
    <3>2. n \in Nat /\ DOMAIN f = 1..n
      BY <3>1, LenProperties
    <3>3. n >= MaxFailedAttempts /\ f[n] + LockoutDuration > now
      BY <2>2, <3>1, <3>2, TimesAreNumbers DEF RowFollowsFailures, Locked, Unlocked
    <3>4. n \in DOMAIN f
      BY <3>2, <3>3, TimesAreNumbers
    <3> QED BY <3>3, <3>4
  <2>3. (IF now > ThrottleWindow THEN now - ThrottleWindow ELSE 0) \in Nat
    BY TimesAreNumbers DEF IInv, TypeOK
  <2> QED BY <2>1, <2>2, <2>3 DEF WaitingHelps
<1> QED BY <1>1, Invariance, PTL
=============================================================================
