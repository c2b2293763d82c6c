------------------------- MODULE AdministrationProofs -------------------------
(***************************************************************************)
(* Proofs about what administrators save: accounts and roles (UserAdmin),  *)
(* for any number of users and of requests served at a time, and the       *)
(* configuration of a source (SourceSettings), for any number of tabs,     *)
(* templates and values.                                                   *)
(***************************************************************************)
EXTENDS UserAdmin, SourceSettings, TLAPS

-----------------------------------------------------------------------------
(* UserAdmin: who is admitted, that an administrator remains, the trail.   *)


\* The rows that require_admin lets pass are all alike.
LEMMA AdminRow ==
  ASSUME NEW row \in Row, IsAdmin(row)
  PROVE  row = Loaded
<1>1. row.is_active = TRUE
  BY DEF IsAdmin, Row
<1>2. row.role = "admin"
  BY DEF IsAdmin
<1> QED BY <1>1, <1>2 DEF Row, Loaded

\* A slot's request, as long as its requester keeps the row.
LEMMA WitnessedRequests ==
  ASSUME AdminTypeOK, NEW rows
  PROVE  /\ Witnessed(rows) \in [Slot -> Request]
         /\ \A s \in Slot :
              /\ Witnessed(rows)[s].stage = request[s].stage
              /\ Served(s) => /\ Witnessed(rows)[s].who = request[s].who
                              /\ request[s].held => Witnessed(rows)[s].held
                              /\ HoldsRole(rows, request[s].who) => Witnessed(rows)[s].held
<1> SUFFICES ASSUME NEW s \in Slot
             PROVE  /\ Witnessed(rows)[s] \in Request
                    /\ Witnessed(rows)[s].stage = request[s].stage
                    /\ Served(s) => /\ Witnessed(rows)[s].who = request[s].who
                                    /\ request[s].held => Witnessed(rows)[s].held
                                    /\ HoldsRole(rows, request[s].who) => Witnessed(rows)[s].held
  BY DEF Witnessed
<1> DEFINE h == HoldsRole(rows, request[s].who)
<1>1. h \in BOOLEAN
  BY DEF HoldsRole
<1>2. request[s] \in Request
  BY DEF AdminTypeOK
<1>3. Witnessed(rows)[s] = IF request[s] = NoRequest
                             THEN NoRequest
                             ELSE [request[s] EXCEPT !.held = @ \/ h]
  BY DEF Witnessed
<1> HIDE DEF h
<1>4. CASE request[s] = NoRequest
  BY <1>2, <1>3, <1>4 DEF NoRequest, Request, Served
<1>5. CASE request[s] # NoRequest
  <2>1. request[s] \in [stage : {"arrived", "admitted"}, who : User, held : BOOLEAN]
    BY <1>2, <1>5 DEF Request
  <2> QED BY <1>1, <1>3, <1>5, <2>1 DEF Request, h
<1> QED BY <1>4, <1>5

\* The parts of the invariant that a step which only moves requests may disturb.
RequestsOK == RequestsAreOwned /\ HeldWhileHolding /\ WithdrawnBeforeIsRefused

\* What Commit preserves, given that the new rows are rows and that no
\* requester with the role is left without its witness.
LEMMA CommitStep ==
  ASSUME AdminInv, NEW s \in Slot, NEW u \in User, NEW entry \in Row, NEW rows,
         DOMAIN rows \subseteq User, DOMAIN users \subseteq DOMAIN rows,
         \A v \in DOMAIN rows : rows[v] \in Row,
         request[s].stage = "admitted",
         Commit(s, rows, u, entry)
  PROVE  AdminTypeOK' /\ RequestsOK'
<1>1. /\ users' = rows /\ issued' = issued
      /\ trail' = [trail EXCEPT ![u] = entry]
      /\ request' = [Witnessed(rows) EXCEPT ![s] = NoRequest]
      /\ staleActors' = staleActors \union {v \in {request[s].who} : Withdrawn(v)}
  BY DEF Commit
<1>2. AdminTypeOK
  BY DEF AdminInv
<1>3. request[s].who \in User
  BY <1>2 DEF AdminTypeOK, Request, NoRequest
<1>4. /\ Witnessed(rows) \in [Slot -> Request]
      /\ \A q \in Slot :
           /\ Witnessed(rows)[q].stage = request[q].stage
           /\ Served(q) => /\ Witnessed(rows)[q].who = request[q].who
                           /\ request[q].held => Witnessed(rows)[q].held
                           /\ HoldsRole(rows, request[q].who) => Witnessed(rows)[q].held
  BY <1>2, WitnessedRequests
<1>5. AdminTypeOK'
  BY <1>1, <1>2, <1>3, <1>4 DEF AdminTypeOK, Request
<1>6. ASSUME NEW q \in Slot, request'[q].stage # "none"
      PROVE  /\ q # s /\ Served(q)
             /\ request'[q] = Witnessed(rows)[q]
             /\ request'[q].who = request[q].who
  BY <1>1, <1>4, <1>6 DEF NoRequest, Served
<1>7. RequestsAreOwned'
  BY <1>1, <1>6 DEF AdminInv, RequestsAreOwned, Served
<1>8. HeldWhileHolding'
  BY <1>1, <1>4, <1>6 DEF HeldWhileHolding, Served, HoldsRole
<1>9. WithdrawnBeforeIsRefused'
  BY <1>1, <1>4, <1>6 DEF AdminInv, WithdrawnBeforeIsRefused, Served
<1> QED BY <1>5, <1>7, <1>8, <1>9 DEF RequestsOK

\* An update or a creation that writes row to u and records it: the trail keeps
\* telling the rows, and a requester with the role remains an administrator
\* unless the row is its own.
LEMMA WriteStep ==
  ASSUME AdminInv, NEW s \in Slot, NEW u \in User, NEW row \in Row,
         request[s].stage = "admitted", u # request[s].who,
         Commit(s, With(u, row), u, row)
  PROVE  AdminInv'
<1>1. /\ users' = With(u, row)
      /\ trail' = [trail EXCEPT ![u] = row]
      /\ staleActors' = staleActors \union {v \in {request[s].who} : Withdrawn(v)}
  BY DEF Commit
<1>2. AdminTypeOK
  BY DEF AdminInv
<1>w. /\ DOMAIN With(u, row) = DOMAIN users \union {u}
      /\ With(u, row)[u] = row
      /\ \A v \in DOMAIN users \ {u} : With(u, row)[v] = users[v]
  BY DEF With
<1>3. AdminTypeOK' /\ RequestsOK'
  <2> DEFINE rows == With(u, row)
  <2>1. /\ DOMAIN rows \subseteq User /\ DOMAIN users \subseteq DOMAIN rows
        /\ \A v \in DOMAIN rows : rows[v] \in Row
    BY <1>2, <1>w DEF AdminTypeOK
  <2>2. Commit(s, rows, u, row)
    OBVIOUS
  <2> HIDE DEF rows
  <2> QED BY <2>1, <2>2, CommitStep
<1>4. AdminRemainsUnlessStale'
  <2> SUFFICES ASSUME staleActors' = {}
               PROVE  \E v \in User : HoldsRole(users', v)
    BY DEF AdminRemainsUnlessStale
  <2>1. HoldsRole(users, request[s].who) /\ request[s].who \in User
    BY <1>1, <1>2 DEF Withdrawn, AdminTypeOK, Request, NoRequest
  <2> QED BY <1>1, <1>w, <2>1 DEF HoldsRole
<1>5. TrailTellsRows'
  BY <1>1, <1>2, <1>w DEF AdminInv, TrailTellsRows, AdminTypeOK
<1> QED BY <1>3, <1>4, <1>5 DEF AdminInv, RequestsOK

\* An update of one's own row leaves it as it is: what the form may say is
\* what the object holds already.
LEMMA SelfStep ==
  ASSUME AdminInv, NEW s \in Slot, NEW role \in FormRole, NEW active \in BOOLEAN,
         UpdateSelf(s, role, active)
  PROVE  AdminInv'
<1> DEFINE u == request[s].who
<1>1. role = "admin" /\ active = TRUE /\ request[s].stage = "admitted"
  BY DEF UpdateSelf, LocksSelfOut
<1>2. AdminTypeOK
  BY DEF AdminInv
<1>3. u \in User /\ u \in DOMAIN users /\ users[u] \in Row
  BY <1>1, <1>2 DEF AdminInv, RequestsAreOwned, Served, AdminTypeOK, Request, NoRequest
<1>4. Target(Loaded, role, active) = Loaded
  BY <1>1 DEF Target, Loaded, Role
<1>5. Flushed(u, Loaded) = users[u] /\ With(u, users[u]) \in [DOMAIN users -> Row]
  BY <1>2, <1>3 DEF Flushed, Row, With, AdminTypeOK
<1>6. Commit(s, With(u, users[u]), u, Loaded)
  BY <1>4, <1>5 DEF UpdateSelf, EntryOf
<1>7. /\ users' = With(u, users[u])
      /\ trail' = [trail EXCEPT ![u] = Loaded]
      /\ staleActors' = staleActors \union {v \in {u} : Withdrawn(v)}
  BY <1>6 DEF Commit
<1>w. /\ DOMAIN With(u, users[u]) = DOMAIN users \union {u}
      /\ With(u, users[u])[u] = users[u]
      /\ \A v \in DOMAIN users \ {u} : With(u, users[u])[v] = users[v]
  BY DEF With
<1>8. AdminTypeOK' /\ RequestsOK'
  <2>1. Loaded \in Row
    BY DEF Loaded, Row, Role
  <2> DEFINE rows == With(u, users[u])
  <2>2. /\ DOMAIN rows \subseteq User /\ DOMAIN users \subseteq DOMAIN rows
        /\ \A v \in DOMAIN rows : rows[v] \in Row
    BY <1>2, <1>3, <1>w DEF AdminTypeOK
  <2>3. Commit(s, rows, u, Loaded)
    BY <1>6
  <2> HIDE DEF rows
  <2> QED BY <1>1, <1>3, <2>1, <2>2, <2>3, CommitStep
<1>9. \A v \in DOMAIN users : users'[v] = users[v]
  BY <1>3, <1>7, <1>w
<1>10. DOMAIN users' = DOMAIN users
  BY <1>3, <1>7, <1>w
<1>11. AdminRemainsUnlessStale'
  BY <1>7, <1>9, <1>10 DEF AdminInv, AdminRemainsUnlessStale, HoldsRole
<1>12. TrailTellsRows'
  <2> SUFFICES ASSUME NEW v \in User, v \notin staleActors', trail'[v] # NoEntry
               PROVE  v \in DOMAIN users' /\ trail'[v] = users'[v]
    BY DEF TrailTellsRows
  <2>1. CASE v = u
    BY <1>2, <1>3, <1>7, <1>9, <1>10, <2>1 DEF Withdrawn, HoldsRole, AdminTypeOK
  <2>2. CASE v # u
    BY <1>2, <1>7, <1>9, <1>10, <2>2 DEF AdminInv, TrailTellsRows, AdminTypeOK
  <2> QED BY <2>1, <2>2
<1> QED BY <1>8, <1>11, <1>12 DEF AdminInv, RequestsOK

\* No handler of a stranger: the steps that commit nothing.
LEMMA RequestStep ==
  ASSUME AdminInv, NEW s \in Slot,
         (\E u \in User : Arrive(s, u)) \/ Depend(s) \/ Reject(s)
  PROVE  AdminInv'
<1>1. AdminTypeOK
  BY DEF AdminInv
<1>2. /\ UNCHANGED <<users, issued, trail, staleActors>>
      /\ \A q \in Slot \ {s} : request'[q] = request[q]
      /\ request' \in [Slot -> Request]
      /\ Served(s)' => /\ request'[s].who \in issued
                       /\ HoldsRole(users, request'[s].who) => request'[s].held
                       /\ request'[s].stage = "admitted" => request'[s].held
  <2>1. CASE \E u \in User : Arrive(s, u)
    <3>1. PICK u \in User : Arrive(s, u)
      BY <2>1
    <3> DEFINE h == HoldsRole(users, u)
               r == [stage |-> "arrived", who |-> u, held |-> h]
    <3>2. h \in BOOLEAN
      BY DEF HoldsRole
    <3>3. /\ request' = [request EXCEPT ![s] = r] /\ u \in issued
          /\ UNCHANGED <<users, issued, trail, staleActors>>
      BY <3>1 DEF Arrive
    <3>4. r \in Request /\ r.who = u /\ r.held = h /\ r.stage = "arrived"
      <4> HIDE DEF h
      <4> QED BY <3>2 DEF Request
    <3> HIDE DEF r
    <3> QED BY <1>1, <3>3, <3>4 DEF AdminTypeOK, Served
  <2>2. CASE Depend(s)
    <3>1. request[s] \in Request /\ request[s].stage = "arrived"
      BY <1>1, <2>2 DEF Depend, AdminTypeOK
    <3>2. request[s] \in [stage : {"arrived", "admitted"}, who : User, held : BOOLEAN]
      BY <3>1 DEF Request, NoRequest
    <3>3. /\ request[s].who \in issued /\ request[s].who \in DOMAIN users
          /\ users[request[s].who] \in Row
          /\ HoldsRole(users, request[s].who) => request[s].held
      BY <1>1, <3>1 DEF AdminInv, RequestsAreOwned, HeldWhileHolding, Served, AdminTypeOK
    <3> DEFINE r == [request[s] EXCEPT !.stage = "admitted"]
    <3>4. r \in Request /\ r.who = request[s].who /\ (request[s].held => r.held)
      BY <3>2 DEF Request
    <3>5. UNCHANGED <<users, issued, trail, staleActors>>
      BY <2>2 DEF Depend
    <3>6. CASE IsAdmin(users[request[s].who])
      <4>1. HoldsRole(users, request[s].who)
        <5> DEFINE row == users[request[s].who]
        <5>1. row \in Row /\ IsAdmin(row)
          BY <3>3, <3>6
        <5>2. row = Loaded
          <6> HIDE DEF row
          <6> QED BY <5>1, AdminRow
        <5> QED BY <3>3, <5>2 DEF HoldsRole
      <4>2. request' = [request EXCEPT ![s] = r]
        BY <2>2, <3>6 DEF Depend
      <4> HIDE DEF r
      <4>3. /\ \A q \in Slot \ {s} : request'[q] = request[q]
            /\ request' \in [Slot -> Request] /\ request'[s] = r
        BY <1>1, <3>4, <4>2 DEF AdminTypeOK
      <4>4. request'[s].held /\ request'[s].who \in issued
        BY <3>3, <3>4, <4>1, <4>3
      <4> QED BY <3>5, <4>3, <4>4
    <3>7. CASE ~IsAdmin(users[request[s].who])
      <4>1. request' = [request EXCEPT ![s] = NoRequest]
        BY <2>2, <3>7 DEF Depend
      <4> QED BY <1>1, <3>5, <4>1 DEF AdminTypeOK, Request, NoRequest, Served
    <3> QED BY <3>6, <3>7
  <2>3. CASE Reject(s)
    BY <1>1, <2>3 DEF Reject, AdminTypeOK, Request, NoRequest, Served
  <2> QED BY <2>1, <2>2, <2>3
<1>3. AdminTypeOK' /\ AdminRemainsUnlessStale' /\ TrailTellsRows'
  BY <1>2 DEF AdminInv, AdminTypeOK, AdminRemainsUnlessStale, TrailTellsRows
<1>4. RequestsAreOwned' /\ HeldWhileHolding' /\ WithdrawnBeforeIsRefused'
  BY <1>2 DEF AdminInv, RequestsAreOwned, HeldWhileHolding, WithdrawnBeforeIsRefused, Served
<1> QED BY <1>3, <1>4 DEF AdminInv

\* A login adds at most an auditor, who has made no request.
LEMMA LoginStep ==
  ASSUME AdminInv, NEW u \in User, Login(u)
  PROVE  AdminInv'
<1>1. AdminTypeOK
  BY DEF AdminInv
<1> DEFINE row == [role |-> "auditor", is_active |-> TRUE]
<1>2. row \in Row /\ row # Loaded
  BY DEF Row, Role, Loaded
<1>3. /\ DOMAIN With(u, row) = DOMAIN users \union {u}
      /\ With(u, row)[u] = row
      /\ \A v \in DOMAIN users \ {u} : With(u, row)[v] = users[v]
  BY DEF With
<1>4. users' = users \/ (u \notin DOMAIN users /\ users' = With(u, row))
  BY DEF Login
<1>5. issued' = issued \union {u} /\ UNCHANGED <<request, trail, staleActors>>
  BY DEF Login
<1>6. /\ DOMAIN users' = DOMAIN users \union {u}
      /\ \A v \in DOMAIN users : users'[v] = users[v]
      /\ \A v \in DOMAIN users' : users'[v] \in Row
      /\ \A v \in User : HoldsRole(users', v) = HoldsRole(users, v)
  <2> HIDE DEF row
  <2>1. CASE u \in DOMAIN users
    BY <1>1, <1>4, <2>1 DEF AdminTypeOK
  <2>2. CASE u \notin DOMAIN users
    <3>1. users' = With(u, row)
      BY <2>2 DEF Login, row
    <3> QED BY <1>1, <1>2, <1>3, <2>2, <3>1 DEF AdminTypeOK, HoldsRole
  <2> QED BY <2>1, <2>2
<1>7. AdminTypeOK'
  BY <1>1, <1>5, <1>6 DEF AdminTypeOK
<1>8. RequestsAreOwned' /\ WithdrawnBeforeIsRefused'
  BY <1>5 DEF AdminInv, RequestsAreOwned, WithdrawnBeforeIsRefused, Served
<1>9. HeldWhileHolding'
  <2>1. \A s \in Slot : Served(s) => request[s].who \in User
    BY <1>1 DEF AdminInv, RequestsAreOwned, AdminTypeOK
  <2> QED BY <1>5, <1>6, <2>1 DEF AdminInv, HeldWhileHolding, Served
<1>10. AdminRemainsUnlessStale' /\ TrailTellsRows'
  BY <1>5, <1>6 DEF AdminInv, AdminRemainsUnlessStale, TrailTellsRows
<1> QED BY <1>7, <1>8, <1>9, <1>10 DEF AdminInv

\* After a restart nothing is served; no row has changed.
LEMMA RestartStep ==
  ASSUME AdminInv, Restart
  PROVE  AdminInv'
<1>1. AdminTypeOK
  BY DEF AdminInv
<1>2. /\ request' = [s \in Slot |-> NoRequest] /\ users' = Bootstrapped(users)
      /\ UNCHANGED <<issued, trail, staleActors>>
  BY DEF Restart
<1>3. /\ DOMAIN users \subseteq DOMAIN users' /\ DOMAIN users' \subseteq User
      /\ \A v \in DOMAIN users : users'[v] = users[v]
      /\ \A v \in DOMAIN users' : users'[v] \in Row
  BY <1>1, <1>2, BootstrapAssumption DEF AdminTypeOK, Bootstrapped, Loaded, Row, Role
<1>4. AdminTypeOK'
  BY <1>1, <1>2, <1>3 DEF AdminTypeOK, Request
<1>5. RequestsAreOwned' /\ HeldWhileHolding' /\ WithdrawnBeforeIsRefused'
  BY <1>2 DEF RequestsAreOwned, HeldWhileHolding, WithdrawnBeforeIsRefused, Served, NoRequest
<1>6. AdminRemainsUnlessStale' /\ TrailTellsRows'
  BY <1>2, <1>3 DEF AdminInv, AdminRemainsUnlessStale, TrailTellsRows, HoldsRole
<1> QED BY <1>4, <1>5, <1>6 DEF AdminInv

\* A started service has its bootstrap administrator and serves nothing.
LEMMA AdminStart == AdminInit => AdminInv
<1> SUFFICES ASSUME AdminInit PROVE AdminInv
  OBVIOUS
<1>1. DOMAIN users = {Bootstrap} /\ users[Bootstrap] = Loaded
  BY DEF AdminInit, Bootstrapped, NoRows
<1>2. AdminTypeOK
  <2>1. Loaded \in Row
    BY DEF Loaded, Row, Role
  <2> QED BY <1>1, <2>1, BootstrapAssumption DEF AdminInit, AdminTypeOK, Request
<1>3. HoldsRole(users, Bootstrap)
  BY <1>1 DEF HoldsRole
<1> QED BY <1>1, <1>2, <1>3, BootstrapAssumption
     DEF AdminInv, AdminInit, RequestsAreOwned, HeldWhileHolding, WithdrawnBeforeIsRefused, Served,
         NoRequest, AdminRemainsUnlessStale, TrailTellsRows

\* AdminInv is inductive.
THEOREM AdminInvariance == AdminSpec => []AdminInv
<1>1. AdminInv /\ [AdminNext]_adminVars => AdminInv'
  <2> SUFFICES ASSUME AdminInv, [AdminNext]_adminVars PROVE AdminInv'
    OBVIOUS
  <2>1. CASE Restart
    BY <2>1, RestartStep
  <2>2. CASE \E u \in User : Login(u)
    BY <2>2, LoginStep
  <2>3. ASSUME NEW s \in Slot, (\E u \in User : Arrive(s, u)) \/ Depend(s) \/ Reject(s)
        PROVE  AdminInv'
    BY <2>3, RequestStep
  <2>4. ASSUME NEW s \in Slot, NEW u \in User, NEW role \in FormRole, Create(s, u, role)
        PROVE  AdminInv'
    <3> DEFINE row == [role |-> IF role \in Role THEN role ELSE "auditor", is_active |-> TRUE]
    <3>1. row \in Row
      BY DEF Row, Role
    <3>2. request[s].stage = "admitted" /\ u \notin DOMAIN users
          /\ Commit(s, With(u, row), u, row)
      BY <2>4 DEF Create
    <3>3. u # request[s].who
      BY <3>2 DEF AdminInv, RequestsAreOwned, Served, AdminTypeOK
    <3> HIDE DEF row
    <3> QED BY <3>1, <3>2, <3>3, WriteStep
  <2>5. ASSUME NEW s \in Slot, NEW role \in FormRole, NEW active \in BOOLEAN,
               UpdateSelf(s, role, active)
        PROVE  AdminInv'
    BY <2>5, SelfStep
  <2>6. ASSUME NEW s \in Slot, NEW u \in User, NEW role \in FormRole, NEW active \in BOOLEAN,
               UpdateOther(s, u, role, active)
        PROVE  AdminInv'
    <3> DEFINE row == Target(users[u], role, active)
    <3>1. request[s].stage = "admitted" /\ u \in DOMAIN users /\ u # request[s].who
          /\ Commit(s, With(u, row), u, row)
      BY <2>6 DEF UpdateOther, EntryOf
    <3>2. row \in Row
      BY <3>1 DEF AdminInv, AdminTypeOK, Target, Row
    <3> HIDE DEF row
    <3> QED BY <3>1, <3>2, WriteStep
  <2>7. CASE UNCHANGED adminVars
    BY <2>7 DEF adminVars, AdminInv, AdminTypeOK, RequestsAreOwned, HeldWhileHolding, Served,
                WithdrawnBeforeIsRefused, AdminRemainsUnlessStale, TrailTellsRows
  <2> QED BY <2>1, <2>2, <2>3, <2>4, <2>5, <2>6, <2>7 DEF AdminNext
<1> QED BY <1>1, AdminStart, PTL DEF AdminSpec

\* The state has the types AdminTypeOK gives it.
THEOREM AdminTyped == AdminSpec => []AdminTypeOK
<1>1. AdminInv => AdminTypeOK
  BY DEF AdminInv
<1> QED BY <1>1, AdminInvariance, PTL

\* A role withdrawn before a request arrives opens no handler.
THEOREM RoleIsRead == AdminSpec => []WithdrawnBeforeIsRefused
<1>1. AdminInv => WithdrawnBeforeIsRefused
  BY DEF AdminInv
<1> QED BY <1>1, AdminInvariance, PTL

\* Nobody locks everybody out while no handler acts on a withdrawn role.
THEOREM SomebodyRemains == AdminSpec => []AdminRemainsUnlessStale
<1>1. AdminInv => AdminRemainsUnlessStale
  BY DEF AdminInv
<1> QED BY <1>1, AdminInvariance, PTL

\* The latest entry on an account tells its row.
THEOREM TrailIsTrue == AdminSpec => []TrailTellsRows
<1>1. AdminInv => TrailTellsRows
  BY DEF AdminInv
<1> QED BY <1>1, AdminInvariance, PTL

-----------------------------------------------------------------------------
(* SourceSettings: what the form accepts, the provider accepts, and an     *)
(* edit changes nothing but what was edited.                               *)


USE DEF Blank, NoTemplate, Default

\* The browser's choice among inputs of one name exists.
LEMMA LastExists ==
  ASSUME NEW q \in Param
  PROVE  LET last == CHOOSE t \in Template : IsLast(t, q)
         IN  last \in Template /\ ParamOf[last] = q
  BY TemplateAssumption DEF IsLast

LEMMA SentIsText ==
  ASSUME NEW f \in Form, NEW q \in Param
  PROVE  Sent(f, q) \in Text
  BY LastExists DEF Sent, Form, Input

LEMMA ParamTyped == \A t \in Template : ParamOf[t] = NoParam \/ ParamOf[t] \in Param
  BY DEF Param

LEMMA EmptyFormTyped == EmptyForm \in Form
  BY TemplateAssumption, TextAssumption DEF EmptyForm, Form, Input, Transport

LEMMA ShownIsText ==
  ASSUME NEW t \in Template, NEW parameters \in [Param -> Text]
  PROVE  Shown(t, parameters) \in Text
  BY ParamTyped, TextAssumption DEF Shown

LEMMA FormOfTyped ==
  ASSUME NEW c \in Config
  PROVE  FormOf(c) \in Form
<1>1. TransportShown(c.transport) \in Transport
  BY DEF TransportShown, Transport, Config
<1>2. [t \in Template |-> Shown(t, c.template_parameters)] \in Input
  <2>1. \A t \in Template : Shown(t, c.template_parameters) \in Text
    BY ShownIsText DEF Config
  <2> QED BY <2>1 DEF Input, Shown
<1>3. QED
  BY <1>1, <1>2, TemplateAssumption DEF FormOf, Form, Config

LEMMA ConfigOfTyped ==
  ASSUME NEW f \in Form
  PROVE  ConfigOf(f) \in Config
<1>1. [q \in Param |-> IF f.group_dn = Blank /\ ParamOf[f.template_key] = q
                         THEN Sent(f, q) ELSE Blank] \in [Param -> Text]
  BY SentIsText, TextAssumption
<1>2. QED
  BY <1>1 DEF ConfigOf, Config, Form

LEMMA RedisplayedTyped ==
  ASSUME NEW f \in Form
  PROVE  Redisplayed(f) \in Form
<1>1. [t \in Template |-> IF ParamOf[t] = NoParam THEN Blank ELSE Sent(f, ParamOf[t])]
        \in Input
  BY SentIsText, ParamTyped, TextAssumption DEF Input
<1>2. QED
  BY <1>1 DEF Redisplayed, Form

LEMMA NotNoConfig == \A c \in Config : c # NoConfig
<1>1. TAKE c \in Config
<1>2. DOMAIN c = {"transport", "group_dn", "template_key", "template_parameters", "plain"}
  BY DEF Config
<1>3. DOMAIN NoConfig = {"group_dn"}
  BY DEF NoConfig
<1>4. QED
  BY <1>2, <1>3

-----------------------------------------------------------------------------
\* The form that passed is stored in canonical form.
LEMMA StoredCanonical ==
  ASSUME NEW f \in Form
  PROVE  LET c == ConfigOf(f)
         IN  /\ (c.template_key = NoTemplate) <=> (c.group_dn # Blank)
             /\ \A q \in Param : c.template_parameters[q] # Blank =>
                  c.group_dn = Blank /\ ParamOf[c.template_key] = q
  BY TemplateAssumption DEF ConfigOf, Form

\* The two validations agree.
LEMMA AcceptedBuilds ==
  ASSUME NEW f \in Form, NEW password, NEW isEdit, Accepted(f, password, isEdit)
  PROVE  ProviderAccepts(ConfigOf(f))
<1>1. CASE f.group_dn # Blank
  BY <1>1 DEF Accepted, TransportAccepted, ProviderAccepts, ConfigOf
<1>2. CASE f.group_dn = Blank
  <2>1. TemplateUsed(ConfigOf(f)) = f.template_key /\ f.template_key \in Template
    BY <1>2, TemplateAssumption DEF TemplateUsed, ConfigOf, Form
  <2>2. CASE ParamOf[f.template_key] = NoParam
    BY <2>1, <2>2 DEF Accepted, TransportAccepted, ProviderAccepts, ConfigOf
  <2>3. CASE ParamOf[f.template_key] # NoParam
    <3>1. ParamOf[f.template_key] \in Param
      BY <2>1, <2>3, ParamTyped
    <3>2. ConfigOf(f).template_parameters[ParamOf[f.template_key]] = Sent(f, ParamOf[f.template_key])
      BY <1>2, <3>1 DEF ConfigOf
    <3>3. QED
      BY <1>2, <2>1, <2>3, <3>2 DEF Accepted, TransportAccepted, QueryAccepted, ProviderAccepts, ConfigOf
  <2>4. QED
    BY <2>2, <2>3
<1>3. QED
  BY <1>1, <1>2

-----------------------------------------------------------------------------
LEMMA InitIInv == Init => IInv
<1>. SUFFICES ASSUME Init PROVE IInv
  OBVIOUS
<1>1. config = NoConfig /\ secret = Blank /\ secret \in Password /\ ~Exists
  BY TextAssumption DEF Init, Exists
<1>2. \A p \in Page : page[p] = NoPage /\ page[p].mode = "closed"
  BY DEF Init, NoPage
<1>3. page \in [Page -> {NoPage}]
  BY DEF Init
<1>4. TypeOK
  BY <1>1, <1>3 DEF TypeOK
<1>5. Canonical /\ StoredConfigBuilds
  BY <1>1 DEF Canonical, StoredConfigBuilds
<1>6. EditsExist
  BY <1>2 DEF EditsExist
<1>7. QED
  BY <1>4, <1>5, <1>6 DEF IInv

\* A tab is set and the database is left alone.
LEMMA PageStep ==
  ASSUME IInv, NEW p \in Page, NEW new,
         new = NoPage \/ new \in [mode : {"new", "edit"}, form : Form],
         new.mode = "edit" => Exists,
         page' = [page EXCEPT ![p] = new], UNCHANGED <<config, secret>>
  PROVE  IInv'
<1>1. TypeOK'
  BY DEF IInv, TypeOK
<1>2. EditsExist'
  BY DEF IInv, TypeOK, EditsExist, Exists
<1>3. Canonical' /\ StoredConfigBuilds'
  BY DEF IInv, Canonical, StoredConfigBuilds, Exists, ProviderAccepts, TemplateUsed
<1>4. QED
  BY <1>1, <1>2, <1>3 DEF IInv

LEMMA SaveStep ==
  ASSUME IInv, NEW p \in Page, page[p] # NoPage,
         NEW f \in Form, NEW password \in Password, Save(p, f, password)
  PROVE  IInv'
<1>1. page[p].mode \in {"new", "edit"}
  BY DEF IInv, TypeOK
<1>2. config' = ConfigOf(f) /\ config' \in Config /\ Exists'
  BY ConfigOfTyped, NotNoConfig DEF Save, Exists
<1>3. secret' \in Password /\ secret' # Blank
  BY <1>1 DEF IInv, TypeOK, Save, Accepted, Replaced, EditsExist, StoredConfigBuilds
<1>4. page' = [page EXCEPT ![p] = NoPage]
  BY DEF Save
<1>5. TypeOK' /\ EditsExist'
  BY <1>2, <1>3, <1>4 DEF IInv, TypeOK, EditsExist, Exists
<1>6. Canonical'
  BY <1>2, StoredCanonical DEF Canonical
<1>7. ProviderAccepts(config')
  BY <1>2, AcceptedBuilds DEF Save
<1>8. StoredConfigBuilds'
  BY <1>3, <1>7 DEF StoredConfigBuilds
<1>9. QED
  BY <1>5, <1>6, <1>8 DEF IInv

LEMMA NextIInv == IInv /\ [Next]_vars => IInv'
<1>1. ASSUME IInv, NEW p \in Page, OpenNew(p) PROVE IInv'
  <2>. DEFINE new == [mode |-> "new", form |-> EmptyForm]
  <2>1. new \in [mode : {"new", "edit"}, form : Form] /\ new.mode # "edit"
    BY EmptyFormTyped
  <2>2. page' = [page EXCEPT ![p] = new] /\ UNCHANGED <<config, secret>>
    BY <1>1 DEF OpenNew
  <2>. HIDE DEF new
  <2>3. QED
    BY <1>1, <2>1, <2>2, PageStep
<1>2. ASSUME IInv, NEW p \in Page, OpenEdit(p) PROVE IInv'
  <2>. DEFINE new == [mode |-> "edit", form |-> FormOf(config)]
  <2>1. new \in [mode : {"new", "edit"}, form : Form]
    BY <1>2, FormOfTyped DEF OpenEdit, Exists, IInv, TypeOK
  <2>2. page' = [page EXCEPT ![p] = new] /\ UNCHANGED <<config, secret>> /\ Exists
    BY <1>2 DEF OpenEdit
  <2>. HIDE DEF new
  <2>3. QED
    BY <1>2, <2>1, <2>2, PageStep
<1>3. ASSUME IInv, NEW p \in Page, Close(p) PROVE IInv'
  BY <1>3, PageStep DEF Close, NoPage
<1>4. ASSUME IInv, NEW p \in Page, Submit(p) PROVE IInv'
  <2>1. page[p] # NoPage /\ page[p] \in [mode : {"new", "edit"}, form : Form]
    BY <1>4 DEF Submit, IInv, TypeOK
  <2>2. PICK f \in Form, password \in Password :
          Save(p, f, password) \/ Refuse(p, f, password)
    BY <1>4 DEF Submit
  <2>4. CASE Save(p, f, password)
    BY <1>4, <2>1, <2>4, SaveStep
  <2>5. CASE Refuse(p, f, password)
    <3>. DEFINE new == [page[p] EXCEPT !.form = Redisplayed(f)]
    <3>1. new \in [mode : {"new", "edit"}, form : Form] /\ new.mode = page[p].mode
      BY <2>1, RedisplayedTyped
    <3>2. page' = [page EXCEPT ![p] = new] /\ UNCHANGED <<config, secret>>
      BY <2>5, <1>4 DEF Refuse, IInv, TypeOK
    <3>3. page[p].mode = "edit" => Exists
      BY <1>4 DEF IInv, EditsExist
    <3>. HIDE DEF new
    <3>4. QED
      BY <1>4, <3>1, <3>2, <3>3, PageStep
  <2>6. QED
    BY <2>2, <2>4, <2>5
<1>5. ASSUME IInv, UNCHANGED vars PROVE IInv'
  BY <1>5 DEF IInv, TypeOK, Canonical, EditsExist, StoredConfigBuilds, Exists,
              ProviderAccepts, TemplateUsed, vars
<1>6. QED
  BY <1>1, <1>2, <1>3, <1>4, <1>5 DEF Next

\* The invariant, whatever templates and fields there are and however many tabs
\* are open.
THEOREM Invariance == Spec => []IInv
  BY InitIInv, NextIInv, PTL DEF Spec

\* parse_ldap_form never lets a configuration pass that build_provider refuses.
THEOREM FormAndProviderAgree == Spec => []StoredConfigBuilds
<1>1. IInv => StoredConfigBuilds
  BY DEF IInv
<1>2. QED
  BY Invariance, <1>1, PTL

-----------------------------------------------------------------------------
\* What is shown of a stored query is what it would be stored as again.
LEMMA QuerySurvives ==
  ASSUME IInv, Exists, NEW f \in Form,
         f.group_dn = config.group_dn,
         f.template_key = FormOf(config).template_key,
         f.input = FormOf(config).input
  PROVE  /\ ConfigOf(f).template_key = config.template_key
         /\ ConfigOf(f).template_parameters = config.template_parameters
<1>1. config \in Config
  BY DEF IInv, TypeOK, Exists
<1>2. /\ (config.template_key = NoTemplate) <=> (config.group_dn # Blank)
      /\ \A q \in Param : config.template_parameters[q] # Blank =>
           config.group_dn = Blank /\ ParamOf[config.template_key] = q
  BY DEF IInv, Canonical
<1>3. f.input = [t \in Template |-> Shown(t, config.template_parameters)]
  BY DEF FormOf
<1>4. \A q \in Param : Sent(f, q) = config.template_parameters[q]
  <2>1. TAKE q \in Param
  <2>. DEFINE last == CHOOSE t \in Template : IsLast(t, q)
  <2>2. last \in Template /\ ParamOf[last] = q
    BY LastExists
  <2>. HIDE DEF last
  <2>3. Shown(last, config.template_parameters) = config.template_parameters[q]
    BY <2>2 DEF Shown, Param
  <2>4. Sent(f, q) = f.input[last]
    BY DEF Sent, last
  <2>5. QED
    BY <1>3, <2>2, <2>3, <2>4
<1>5. ConfigOf(f).template_key = config.template_key
  BY <1>1, <1>2 DEF ConfigOf, FormOf, Config
<1>6. \A q \in Param : ConfigOf(f).template_parameters[q] = config.template_parameters[q]
  <2>1. TAKE q \in Param
  <2>2. CASE f.group_dn = Blank /\ ParamOf[f.template_key] = q
    BY <1>4, <2>2 DEF ConfigOf
  <2>3. CASE ~(f.group_dn = Blank /\ ParamOf[f.template_key] = q)
    <3>1. ConfigOf(f).template_parameters[q] = Blank
      BY <2>3 DEF ConfigOf
    <3>2. f.group_dn = Blank => f.template_key = config.template_key
      BY <1>2 DEF FormOf
    <3>3. config.template_parameters[q] = Blank
      BY <1>2, <2>3, <3>2
    <3>4. QED
      BY <3>1, <3>3
  <2>4. QED
    BY <2>2, <2>3
<1>7. ConfigOf(f).template_parameters \in [Param -> Text] /\ config.template_parameters \in [Param -> Text]
  BY <1>1, ConfigOfTyped DEF Config
<1>8. QED
  BY <1>5, <1>6, <1>7

LEMMA EditIsLocal == IInv => EditsStayLocal
<1>. SUFFICES ASSUME IInv, Exists, NEW f \in Form, Accepted(f, Blank, TRUE)
              PROVE  LET shown == FormOf(config)
                         after == ConfigOf(f)
                     IN  /\ \A switch \in {"use_ssl", "use_start_tls"} :
                              f.transport[switch] = shown.transport[switch]
                                => after.transport[switch] = config.transport[switch]
                         /\ f.group_dn = shown.group_dn => after.group_dn = config.group_dn
                         /\ f.plain = shown.plain => after.plain = config.plain
                         /\ /\ f.group_dn = shown.group_dn
                            /\ f.template_key = shown.template_key
                            /\ f.input = shown.input
                            => /\ after.template_key = config.template_key
                               /\ after.template_parameters = config.template_parameters
                         /\ f.transport.allow_plaintext = shown.transport.allow_plaintext
                            => /\ after.transport.use_ssl \/ after.transport.use_start_tls
                               /\ ~after.transport.allow_plaintext
  BY Zenon DEF EditsStayLocal
<1>1. config \in Config /\ f \in Form
  BY FormOfTyped DEF IInv, TypeOK, Exists
<1>2. \A switch \in {"use_ssl", "use_start_tls"} :
        f.transport[switch] = FormOf(config).transport[switch]
          => ConfigOf(f).transport[switch] = config.transport[switch]
  BY <1>1 DEF FormOf, ConfigOf, TransportShown, Config, Transport
<1>3. FormOf(config).group_dn = config.group_dn /\ ConfigOf(f).group_dn = f.group_dn
  BY DEF FormOf, ConfigOf
<1>4. FormOf(config).plain = config.plain /\ ConfigOf(f).plain = f.plain
  BY DEF FormOf, ConfigOf
<1>5. f.transport.allow_plaintext = FormOf(config).transport.allow_plaintext
        => /\ ConfigOf(f).transport.use_ssl \/ ConfigOf(f).transport.use_start_tls
           /\ ~ConfigOf(f).transport.allow_plaintext
  <2>1. FormOf(config).transport.allow_plaintext = FALSE
    BY <1>1 DEF FormOf, TransportShown, Config, Transport
  <2>2. ConfigOf(f).transport = f.transport
    BY DEF ConfigOf
  <2> QED BY <2>1, <2>2 DEF Accepted, TransportAccepted
<1>6. QED
  BY <1>1, <1>2, <1>3, <1>4, <1>5, QuerySurvives

\* An accepted edit of a stored configuration, of however many fields, keeps
\* what was left as shown, and is encrypted if the box was.
THEOREM LocalEdits == Spec => []EditsStayLocal
  BY Invariance, EditIsLocal, PTL
=============================================================================
