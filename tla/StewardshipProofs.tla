--------------------------- MODULE StewardshipProofs ---------------------------
(***************************************************************************)
(* Proofs about Stewardship, for any users, sources, accounts and requests.*)
(***************************************************************************)
EXTENDS Stewardship, FiniteSetTheorems, TLAPS

\* What a request that has been served becomes when a slot is emptied.
LEMMA EndedType ==
  ASSUME request \in [Slot -> Request], NEW r \in Slot, Ended(r)
  PROVE  /\ request' \in [Slot -> Request]
         /\ \A q \in Slot : q # r => request'[q] = request[q]
         /\ request'[r] = NoRequest
BY DEF Ended, Request

LEMMA SeenAfterEnd ==
  ASSUME TypeOK, SeenIsReal, NEW r \in Slot, Ended(r), standing' = standing
  PROVE  SeenIsReal'
BY EndedType DEF TypeOK, SeenIsReal, Served

LEMMA InitIInv == Init => IInv
<1>1. ASSUME Init PROVE TypeOK
  BY <1>1 DEF Init, TypeOK, NoNotes, Standing, Active, Request
<1>2. ASSUME Init PROVE SeenIsReal
  BY <1>2 DEF Init, SeenIsReal, Served
<1>3. ASSUME Init PROVE TrailCounts
  <2>1. Cardinality({}) = 0
    BY FS_EmptySet
  <2> QED
    BY <1>3, <2>1 DEF Init, TrailCounts
<1> QED
  BY <1>1, <1>2, <1>3 DEF IInv

\* Every step keeps the invariant: one step of the proof for each action.
LEMMA NextIInv == IInv /\ [Next]_vars => IInv'
<1> SUFFICES ASSUME IInv, [Next]_vars PROVE IInv'
  OBVIOUS
<1> USE DEF IInv
<1>1. CASE Restart
  BY <1>1 DEF Restart, TypeOK, SeenIsReal, TrailCounts, Served, Request
<1>2. ASSUME NEW u \in User, NEW new \in Standing, Administer(u, new) PROVE IInv'
  <2> USE <1>2 DEF Administer
  <2>1. request' \in [Slot -> Request]
    BY DEF TypeOK, Request, Served
  <2>2. TypeOK'
    BY <2>1 DEF TypeOK
  <2>3. ASSUME NEW r \in Slot, Served(r)'
        PROVE  /\ standing'[request'[r].who] \in request'[r].seen
               /\ request'[r].stage = "admitted" => request'[r].role \in request'[r].seen
    <3>1. Served(r)
      BY <2>3 DEF Served, TypeOK
    <3>2. request[r].who \in User
      BY <3>1 DEF TypeOK, Request, Served
    <3>3. CASE request[r].who = u
      BY <3>1, <3>2, <3>3 DEF TypeOK, SeenIsReal, Request, Served
    <3>4. CASE request[r].who # u
      BY <3>1, <3>2, <3>4 DEF TypeOK, SeenIsReal, Request, Served
    <3> QED
      BY <3>3, <3>4
  <2>4. TrailCounts'
    BY DEF TrailCounts
  <2> QED
    BY <2>2, <2>3, <2>4 DEF SeenIsReal
<1>3. ASSUME NEW r \in Slot, NEW u \in User, Arrive(r, u) PROVE IInv'
  BY <1>3 DEF Arrive, TypeOK, SeenIsReal, TrailCounts, Served, Request
<1>4. ASSUME NEW r \in Slot, Depend(r) PROVE IInv'
  <2> USE <1>4 DEF Depend
  <2>1. Served(r) /\ request[r].who \in User /\ request[r].seen \in SUBSET Standing
    BY DEF TypeOK, Request, Served, NoRequest
  <2>2. TypeOK'
    BY <2>1 DEF TypeOK, Request
  <2>3. SeenIsReal'
    BY <2>1 DEF TypeOK, SeenIsReal, Served
  <2> QED
    BY <2>2, <2>3 DEF TrailCounts
<1>5. ASSUME NEW r \in Slot, Reject(r) PROVE IInv'
  <2>1. TypeOK'
    BY <1>5, EndedType DEF Reject, TypeOK
  <2>2. SeenIsReal'
    BY <1>5, SeenAfterEnd DEF Reject
  <2> QED
    BY <1>5, <2>1, <2>2 DEF Reject, TrailCounts
<1>6. ASSUME NEW r \in Slot, NEW s \in Source, NEW m \in Identifier, NEW text \in Text,
             NEW i \in {m, Normalized[m]}, SaveNote(r, s, m, i, text)
      PROVE  IInv'
  <2> USE <1>6 DEF SaveNote
  <2> DEFINE note == [note |-> text, updated_by |-> request[r].who]
  <2>1. request[r].who \in User
    BY DEF TypeOK, Request, NoRequest
  <2>2. note \in Note
    BY <2>1 DEF Note
  <2>3. notes' \in [Source -> [Identifier -> Note \union {NoNote}]]
    BY <2>2 DEF TypeOK
  <2>4. said' \in [Source -> [Identifier -> Note \union {NoNote}]]
    BY <2>2 DEF TypeOK
  <2>5. TypeOK'
    BY <2>3, <2>4, EndedType DEF TypeOK
  <2>6. SeenIsReal'
    BY SeenAfterEnd
  <2> QED
    BY <2>5, <2>6 DEF TrailCounts
<1>7. ASSUME NEW r \in Slot, NEW s \in Source, NEW ticked \in SUBSET User,
             SetMaintainers(r, s, ticked)
      PROVE  IInv'
  <2> USE <1>7 DEF SetMaintainers
  <2>1. Cardinality(ticked) \in Nat
    BY UserAssumption, FS_Subset, FS_CardinalityType
  <2>2. TypeOK'
    BY <2>1, EndedType DEF TypeOK, Replaced
  <2>3. SeenIsReal'
    BY SeenAfterEnd
  <2>4. TrailCounts'
    BY <2>1 DEF TypeOK, TrailCounts, Replaced
  <2> QED
    BY <2>2, <2>3, <2>4
<1>8. CASE UNCHANGED vars
  BY <1>8 DEF vars, TypeOK, SeenIsReal, TrailCounts, Served
<1> QED
  BY <1>1, <1>2, <1>3, <1>4, <1>5, <1>6, <1>7, <1>8 DEF Next

\* Type correctness; a waiting request has seen the present standing of its
\* user; the trail counts the maintainers.
THEOREM Invariance == Spec => []IInv
BY InitIInv, NextIInv, PTL DEF Spec

-----------------------------------------------------------------------------
\* Notes and maintainers change in two handlers only, whose guards are read
\* together with what the request has seen.
LEMMA StepIsEntitled ==
  ASSUME IInv, [Next]_vars
  PROVE  \A s \in Source :
           /\ \A i \in Identifier :
                notes'[s][i] # notes[s][i] =>
                  \E r \in Slot : /\ Served(r) /\ request'[r] = NoRequest
                                  /\ notes'[s][i].updated_by = request[r].who
                                  /\ MayWrite(r, s)
           /\ maintainers'[s] # maintainers[s] =>
                \E r \in Slot : /\ Served(r) /\ request'[r] = NoRequest
                                /\ HasBeenAdmin(r)
<1> USE DEF IInv
<1>1. ASSUME NEW r \in Slot, request[r].stage = "admitted"
      PROVE  /\ Served(r)
             /\ request[r].seen \intersect Active # {}
             /\ request[r].role = "admin" => HasBeenAdmin(r)
  BY <1>1 DEF TypeOK, SeenIsReal, Served, Request, NoRequest, HasBeenAdmin
<1>2. CASE UNCHANGED <<notes, maintainers>>
  BY <1>2
<1>3. ASSUME NEW r \in Slot, NEW s \in Source, NEW m \in Identifier, NEW text \in Text,
             NEW i \in {m, Normalized[m]}, SaveNote(r, s, m, i, text),
             NEW t \in Source, NEW j \in Identifier, notes'[t][j] # notes[t][j]
      PROVE  /\ Served(r) /\ request'[r] = NoRequest
             /\ notes'[t][j].updated_by = request[r].who
             /\ MayWrite(r, t)
  <2>1. t = s /\ notes'[t][j] = [note |-> text, updated_by |-> request[r].who]
    BY <1>3 DEF SaveNote, TypeOK
  <2>2. request'[r] = NoRequest
    BY <1>3, EndedType DEF SaveNote, TypeOK
  <2>3. MayWrite(r, s)
    BY <1>1, <1>3 DEF SaveNote, MayMaintain, MayWrite
  <2> QED
    BY <1>1, <1>3, <2>1, <2>2, <2>3 DEF SaveNote
<1>4. ASSUME NEW r \in Slot, NEW s \in Source, NEW ticked \in SUBSET User,
             SetMaintainers(r, s, ticked)
      PROVE  Served(r) /\ request'[r] = NoRequest /\ HasBeenAdmin(r)
  BY <1>1, <1>4, EndedType DEF SetMaintainers, TypeOK
<1>5. ASSUME NEW r \in Slot, NEW s \in Source, NEW m \in Identifier, NEW text \in Text,
             NEW i \in {m, Normalized[m]}, SaveNote(r, s, m, i, text)
      PROVE  maintainers' = maintainers
  BY <1>5 DEF SaveNote
<1>6. ASSUME NEW r \in Slot, NEW s \in Source, NEW ticked \in SUBSET User,
             SetMaintainers(r, s, ticked)
      PROVE  notes' = notes
  BY <1>6 DEF SetMaintainers
<1>7. \/ UNCHANGED <<notes, maintainers>>
      \/ \E r \in Slot, s \in Source, m \in Identifier, text \in Text :
           \E i \in {m, Normalized[m]} : SaveNote(r, s, m, i, text)
      \/ \E r \in Slot, s \in Source, ticked \in SUBSET User : SetMaintainers(r, s, ticked)
  BY DEF Next, vars, Restart, Administer, Arrive, Depend, Reject
<1> QED
  BY <1>2, <1>3, <1>4, <1>5, <1>6, <1>7

\* Nobody writes a note or an assignment on the strength of a role that was
\* withdrawn before the request, or of an assignment that is gone.
THEOREM WritersAreEntitled == Spec => EntitledWrites
<1>1. IInv /\ [Next]_vars =>
        [\A s \in Source :
           /\ \A i \in Identifier :
                notes'[s][i] # notes[s][i] =>
                  \E r \in Slot : /\ Served(r) /\ request'[r] = NoRequest
                                  /\ notes'[s][i].updated_by = request[r].who
                                  /\ MayWrite(r, s)
           /\ maintainers'[s] # maintainers[s] =>
                \E r \in Slot : /\ Served(r) /\ request'[r] = NoRequest
                                /\ HasBeenAdmin(r)]_vars
  BY StepIsEntitled
<1> QED
  BY <1>1, Invariance, PTL DEF Spec, EntitledWrites

-----------------------------------------------------------------------------
\* The account a note was sent for and the key it is stored under are those of
\* the same members.
LEMMA SavedIsShown ==
  ASSUME TypeOK, NotesFollowMembers, NEW r \in Slot, NEW s \in Source,
         NEW m \in Identifier, NEW text \in Text, NEW i \in {m, Normalized[m]},
         SaveNote(r, s, m, i, text)
  PROVE  NotesFollowMembers'
<1> DEFINE note == [note |-> text, updated_by |-> request[r].who]
<1>1. Normalized[i] = Normalized[m] /\ Normalized[m] \in Identifier
  BY NormalizedAssumption
<1>2. notes' = [notes EXCEPT ![s][Normalized[m]] = note]
  BY <1>1 DEF SaveNote, AccountKey
<1>3. said' = [said EXCEPT ![s] = [j \in Identifier |->
                 IF Normalized[j] = Normalized[m] THEN note ELSE @[j]]]
  BY DEF SaveNote
<1> HIDE DEF note
<1>4. ASSUME NEW t \in Source, NEW j \in Identifier
      PROVE  notes'[t][Normalized[j]] = said'[t][j]
  <2>1. notes[t][Normalized[j]] = said[t][j] /\ Normalized[j] \in Identifier
    BY NormalizedAssumption DEF NotesFollowMembers, Shown
  <2>2. CASE t # s
    BY <1>2, <1>3, <2>1, <2>2 DEF TypeOK
  <2>3. CASE t = s
    BY <1>1, <1>2, <1>3, <2>1, <2>3 DEF TypeOK
  <2> QED
    BY <2>2, <2>3
<1> QED
  BY <1>4 DEF NotesFollowMembers, Shown

\* The page of a source shows beside every member what was saved last on the
\* account, whatever spelling the note and the snapshot use.
THEOREM NotesStay == Spec => []NotesFollowMembers
<1>1. Init => NotesFollowMembers
  BY NormalizedAssumption DEF Init, NotesFollowMembers, Shown, NoNotes
<1>2. IInv /\ NotesFollowMembers /\ [Next]_vars => NotesFollowMembers'
  <2> SUFFICES ASSUME IInv, NotesFollowMembers, [Next]_vars PROVE NotesFollowMembers'
    OBVIOUS
  <2>1. CASE UNCHANGED <<notes, said>>
    BY <2>1 DEF NotesFollowMembers, Shown
  <2>2. ASSUME NEW r \in Slot, NEW s \in Source, NEW m \in Identifier, NEW text \in Text,
               NEW i \in {m, Normalized[m]}, SaveNote(r, s, m, i, text)
        PROVE  NotesFollowMembers'
    BY <2>2, SavedIsShown DEF IInv
  <2>3. \/ UNCHANGED <<notes, said>>
        \/ \E r \in Slot, s \in Source, m \in Identifier, text \in Text :
             \E i \in {m, Normalized[m]} : SaveNote(r, s, m, i, text)
    BY DEF Next, vars, Restart, Administer, Arrive, Depend, Reject, SetMaintainers
  <2> QED
    BY <2>1, <2>2, <2>3
<1> QED
  BY <1>1, <1>2, Invariance, PTL DEF Spec
=============================================================================
