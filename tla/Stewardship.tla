------------------------------ MODULE Stewardship ------------------------------
(***************************************************************************)
(* Who may write the notes on the members of a source, and what becomes of *)
(* them (src/app/web/routes.py, src/app/web/services.py).  A request's     *)
(* dependencies load the requester's row in a worker thread; the handler   *)
(* runs later and to its end, judges the role by the row as it was loaded  *)
(* and the assignment of maintainers by a query of its own.  Meanwhile     *)
(* other requests change roles, assignments and notes.                     *)
(***************************************************************************)
EXTENDS Naturals, FiniteSets

CONSTANTS
  User,
  Source,
  Identifier,  \* identifiers of accounts, as lists and forms spell them
  Normalized,  \* what strip().lower() makes of them
  Text,        \* notes that may be typed
  Slot         \* requests being served at a time (a bound of the model)

ASSUME NormalizedAssumption ==
  /\ Normalized \in [Identifier -> Identifier]
  /\ \A i \in Identifier : Normalized[Normalized[i]] = Normalized[i]

ASSUME UserAssumption == IsFiniteSet(User)

VARIABLES
  standing,     \* of each user's committed row
  maintainers,  \* the entitlement_maintainers rows, by source
  trail,        \* by source, the number its latest set_maintainers entry tells
  notes,        \* the entitlement_notes rows, by source and account_key
  request,      \* what each slot serves
  said          \* history: by source and account, the note saved last

vars == <<standing, maintainers, trail, notes, request, said>>

Active == {"admin", "auditor"}
Standing == Active \union {"inactive"}
Note == [note : Text, updated_by : User]
NoNote == [note |-> "none"]

\* seen is history: the standings of the requester since the request arrived.
NoRequest == [stage |-> "none"]
Request ==
  {NoRequest} \union [stage : {"arrived"}, who : User, seen : SUBSET Standing]
              \union [stage : {"admitted"}, who : User, seen : SUBSET Standing, role : Active]

TypeOK ==
  /\ standing \in [User -> Standing]
  /\ maintainers \in [Source -> SUBSET User]
  /\ trail \in [Source -> Nat]
  /\ notes \in [Source -> [Identifier -> Note \union {NoNote}]]
  /\ request \in [Slot -> Request]
  /\ said \in [Source -> [Identifier -> Note \union {NoNote}]]

NoNotes == [s \in Source |-> [i \in Identifier |-> NoNote]]

Init ==
  /\ standing \in [User -> Active]
  /\ maintainers = [s \in Source |-> {}]
  /\ trail = [s \in Source |-> 0]
  /\ notes = NoNotes
  /\ request = [r \in Slot |-> NoRequest]
  /\ said = NoNotes

-----------------------------------------------------------------------------
Served(r) == request[r] # NoRequest

\* The handlers of UserAdmin: an account gets another role or is deactivated.
Administer(u, new) ==
  /\ standing' = [standing EXCEPT ![u] = new]
  /\ request' = [r \in Slot |->
                   IF Served(r) /\ request[r].who = u
                     THEN [request[r] EXCEPT !.seen = @ \union {new}]
                     ELSE request[r]]
  /\ UNCHANGED <<maintainers, trail, notes, said>>

\* The cookie of an earlier login is enough to ask.
Arrive(r, u) ==
  /\ ~Served(r)
  /\ request' = [request EXCEPT ![r] =
                   [stage |-> "arrived", who |-> u, seen |-> {standing[u]}]]
  /\ UNCHANGED <<standing, maintainers, trail, notes, said>>

\* get_current_user: an active row is loaded, an inactive one answered with 401.
Depend(r) ==
  /\ request[r].stage = "arrived"
  /\ LET q == request[r]
     IN  request' = [request EXCEPT ![r] =
           IF standing[q.who] \in Active
             THEN [stage |-> "admitted", who |-> q.who, seen |-> q.seen,
                   role |-> standing[q.who]]
             ELSE NoRequest]
  /\ UNCHANGED <<standing, maintainers, trail, notes, said>>

Ended(r) == request' = [request EXCEPT ![r] = NoRequest]

\* Mutant: whoever maintains a source maintains them all.
MaintainsAny(q, s) == q.role = "admin" \/ \E t \in Source : q.who \in maintainers[t]

\* user_can_maintain: the role as loaded, or an assignment as it is now.
MayMaintain(q, s) == q.role = "admin" \/ q.who \in maintainers[s]

\* Mutant: notes are filed under the account as it was spelled.
AsSpelled(i) == i

\* account_key.strip().lower(), and Account.normalized_key of a member.
AccountKey(i) == Normalized[i]

\* save_entitlement_note on account m of source s, sent as i: the page sends
\* the key it read, other clients the spelling they know.  Upsert, entry, commit.
SaveNote(r, s, m, i, text) ==
  /\ request[r].stage = "admitted"
  /\ MayMaintain(request[r], s)
  /\ LET note == [note |-> text, updated_by |-> request[r].who]
     IN  /\ notes' = [notes EXCEPT ![s][AccountKey(i)] = note]
         /\ said' = [said EXCEPT ![s] = [j \in Identifier |->
                       IF Normalized[j] = Normalized[m] THEN note ELSE @[j]]]
  /\ Ended(r)
  /\ UNCHANGED <<standing, maintainers, trail>>

\* Mutant: the earlier rows are not deleted.
Joined(old, ticked) == old \union ticked

\* set_source_maintainers deletes the rows of the source and adds one for each
\* user ticked, on a page that may be older than the present rows.
Replaced(old, ticked) == ticked

SetMaintainers(r, s, ticked) ==
  /\ request[r].stage = "admitted"
  /\ request[r].role = "admin"
  /\ maintainers' = [maintainers EXCEPT ![s] = Replaced(@, ticked)]
  /\ trail' = [trail EXCEPT ![s] = Cardinality(ticked)]
  /\ Ended(r)
  /\ UNCHANGED <<standing, notes, said>>

\* An HTTP error, a database error that rolls back, or any other request.
Reject(r) ==
  /\ request[r].stage = "admitted"
  /\ Ended(r)
  /\ UNCHANGED <<standing, maintainers, trail, notes, said>>

\* The process stops and starts: requests are lost, rows are not.
Restart ==
  /\ request' = [r \in Slot |-> NoRequest]
  /\ UNCHANGED <<standing, maintainers, trail, notes, said>>

Next ==
  \/ Restart
  \/ \E u \in User, new \in Standing : Administer(u, new)
  \/ \E r \in Slot :
       \/ \E u \in User : Arrive(r, u)
       \/ Depend(r)
       \/ Reject(r)
       \/ \E s \in Source :
            \/ \E m \in Identifier, text \in Text :
                 \E i \in {m, Normalized[m]} : SaveNote(r, s, m, i, text)
            \/ \E ticked \in SUBSET User : SetMaintainers(r, s, ticked)

Spec == Init /\ [][Next]_vars

-----------------------------------------------------------------------------
\* The note on the page of source s beside a member spelled i, whatever
\* snapshot lists it.
Shown(s, i) == notes[s][Normalized[i]]

\* The request in slot r may change the maintainers, or the notes of source s,
\* on grounds that held while it was served.
HasBeenAdmin(r) == "admin" \in request[r].seen
MayWrite(r, s) ==
  /\ request[r].seen \intersect Active # {}
  /\ HasBeenAdmin(r) \/ request[r].who \in maintainers[s]

\* routes.py:278, models.py EntitlementMaintainer: no note changes but by the
\* request of the user it names, who has been active since it arrived, and who
\* maintains that very source now or has been an administrator since; and no
\* assignment changes but by an administrator's request.  An assignment that
\* was withdrawn, or a role withdrawn before the request, opens nothing.
EntitledWrites ==
  [][\A s \in Source :
       /\ \A i \in Identifier :
            notes'[s][i] # notes[s][i] =>
              \E r \in Slot : /\ Served(r) /\ request'[r] = NoRequest
                              /\ notes'[s][i].updated_by = request[r].who
                              /\ MayWrite(r, s)
       /\ maintainers'[s] # maintainers[s] =>
            \E r \in Slot : /\ Served(r) /\ request'[r] = NoRequest
                            /\ HasBeenAdmin(r)]_vars

\* models.py EntitlementNote: a note stays with the account, under whatever
\* spelling it was saved and whatever spelling a later snapshot lists: the
\* page shows what was saved last.
NotesFollowMembers == \A s \in Source, i \in Identifier : Shown(s, i) = said[s][i]

-----------------------------------------------------------------------------
\* What a waiting request has seen includes the present and what was loaded.
SeenIsReal ==
  \A r \in Slot :
    Served(r) =>
      /\ standing[request[r].who] \in request[r].seen
      /\ request[r].stage = "admitted" => request[r].role \in request[r].seen

\* The entry on a source's maintainers tells how many there are.
TrailCounts == \A s \in Source : trail[s] = Cardinality(maintainers[s])

IInv == TypeOK /\ SeenIsReal /\ TrailCounts
=============================================================================
