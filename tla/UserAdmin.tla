------------------------------- MODULE UserAdmin -------------------------------
(***************************************************************************)
(* Accounts, roles and the requests of administrators                      *)
(* (src/app/web/deps.py, src/app/web/routes.py).  The dependencies of a    *)
(* request run in a thread pool: get_current_user loads the requester's    *)
(* row, require_admin looks at its role.  The handler runs later, on the   *)
(* event loop, to its end and with the row as it was loaded.  Between the  *)
(* two, handlers of other requests run and commit.                         *)
(***************************************************************************)
EXTENDS FiniteSets

CONSTANTS
  User,       \* usernames, one per identity
  Bootstrap,  \* APP_BOOTSTRAP_ADMIN_USERNAME
  Slot        \* requests being served at a time (a bound of the model)

ASSUME BootstrapAssumption == Bootstrap \in User

VARIABLES
  users,       \* the committed rows
  issued,      \* users to whom a login has issued a session cookie
  request,     \* what each slot serves
  trail,       \* by user, the latest user_create or user_update entry
  staleActors  \* history: users whose handler acted after their role was withdrawn

adminVars == <<users, issued, request, trail, staleActors>>

Role == {"admin", "auditor"}
FormRole == Role \union {"other"}      \* what the form's role field may hold
Row == [role : Role, is_active : BOOLEAN]
NoEntry == [role |-> "none", is_active |-> FALSE]

\* held is history: was the requester an active administrator at some moment
\* since the request arrived?
NoRequest == [stage |-> "none"]
Request == {NoRequest} \union [stage : {"arrived", "admitted"}, who : User, held : BOOLEAN]

AdminTypeOK ==
  /\ DOMAIN users \subseteq User
  /\ \A u \in DOMAIN users : users[u] \in Row
  /\ issued \subseteq DOMAIN users
  /\ request \in [Slot -> Request]
  /\ trail \in [User -> Row \union {NoEntry}]
  /\ staleActors \subseteq User

With(u, row) == [v \in DOMAIN users \union {u} |-> IF v = u THEN row ELSE users[v]]

Loaded == [role |-> "admin", is_active |-> TRUE]    \* what require_admin lets pass
NoRows == [u \in {} |-> Loaded]

\* ensure_bootstrap_admin creates the row if there is none of that name, and
\* leaves it alone otherwise.
Bootstrapped(rows) ==
  IF Bootstrap \in DOMAIN rows
    THEN rows
    ELSE [v \in DOMAIN rows \union {Bootstrap} |-> IF v = Bootstrap THEN Loaded ELSE rows[v]]

AdminInit ==
  /\ users = Bootstrapped(NoRows)
  /\ issued = {}
  /\ request = [s \in Slot |-> NoRequest]
  /\ trail = [u \in User |-> NoEntry]
  /\ staleActors = {}

-----------------------------------------------------------------------------
\* Mutant: an inactive administrator is admitted.
AnyAdmin(row) == row.role = "admin"

\* get_current_user and require_admin let the row pass.
IsAdmin(row) == row.is_active /\ row.role = "admin"

\* Reality, for the history: an active row with the role.
HoldsRole(rows, u) == u \in DOMAIN rows /\ rows[u] = Loaded

\* The requests after rows have become rows.
Witnessed(rows) ==
  [s \in Slot |->
     IF request[s] = NoRequest
       THEN NoRequest
       ELSE [request[s] EXCEPT !.held = @ \/ HoldsRole(rows, request[s].who)]]

\* login_submit: an active row's owner, or an AD user without a row, whom
\* _provision_ad_user makes an auditor.  The cookie outlives every logout:
\* the server keeps no list of sessions.
Login(u) ==
  /\ u \in DOMAIN users => users[u].is_active
  /\ users' = IF u \in DOMAIN users
                THEN users ELSE With(u, [role |-> "auditor", is_active |-> TRUE])
  /\ issued' = issued \union {u}
  /\ UNCHANGED <<request, trail, staleActors>>

Arrive(s, u) ==
  /\ request[s] = NoRequest
  /\ u \in issued
  /\ request' = [request EXCEPT ![s] =
                   [stage |-> "arrived", who |-> u, held |-> HoldsRole(users, u)]]
  /\ UNCHANGED <<users, issued, trail, staleActors>>

\* The dependencies of the request in slot s: it goes on, or is answered with
\* a 401 or a 403.
Depend(s) ==
  /\ request[s].stage = "arrived"
  /\ request' = [request EXCEPT ![s] =
                   IF IsAdmin(users[request[s].who]) THEN [@ EXCEPT !.stage = "admitted"]
                                                     ELSE NoRequest]
  /\ UNCHANGED <<users, issued, trail, staleActors>>

Withdrawn(u) == ~HoldsRole(users, u)

\* What every handler leaves: the rows, an entry on user u, an empty slot.
Commit(s, rows, u, entry) ==
  /\ users' = rows
  /\ trail' = [trail EXCEPT ![u] = entry]
  /\ request' = [Witnessed(rows) EXCEPT ![s] = NoRequest]
  /\ staleActors' = staleActors \union {v \in {request[s].who} : Withdrawn(v)}
  /\ UNCHANGED issued

\* admin_users_create with a new name; what is no role becomes auditor.
Create(s, u, role) ==
  /\ request[s].stage = "admitted"
  /\ u \notin DOMAIN users
  /\ LET row == [role |-> IF role \in Role THEN role ELSE "auditor", is_active |-> TRUE]
     IN  Commit(s, With(u, row), u, row)

\* Mutant: only deactivation of oneself is refused.
DeactivatesSelf(who, u, role, active) == u = who /\ ~active

\* The update that admin_users_update refuses.
LocksSelfOut(who, u, role, active) == u = who /\ (~active \/ role # "admin")

\* Mutant: the role is taken from the form unchecked.
UncheckedTarget(row, role, active) == [role |-> role, is_active |-> active]

\* The target, once row, as the handler leaves it in memory.
Target(row, role, active) ==
  [role |-> IF role \in Role THEN role ELSE row.role, is_active |-> active]

\* Mutant: the entry repeats the form.
EntryFromForm(row, role, active) == [role |-> role, is_active |-> active]

\* detail=f"角色={target.role}、啟用={active}"
EntryOf(row, role, active) == row

\* admin_users_update of another row: it is loaded now, and written.
UpdateOther(s, u, role, active) ==
  /\ request[s].stage = "admitted"
  /\ u \in DOMAIN users \ {request[s].who}
  /\ ~LocksSelfOut(request[s].who, u, role, active)
  /\ LET row == Target(users[u], role, active)
     IN  Commit(s, With(u, row), u, EntryOf(row, role, active))

\* What a flush leaves in the row of u when its object was Loaded and is now
\* row: only columns that differ from what was loaded are written.
Flushed(u, row) ==
  [role      |-> IF row.role = Loaded.role THEN users[u].role ELSE row.role,
   is_active |-> IF row.is_active = Loaded.is_active THEN users[u].is_active ELSE row.is_active]

\* admin_users_update of the requester's own row: the session returns the very
\* object get_current_user loaded, whatever the row has become.
UpdateSelf(s, role, active) ==
  /\ request[s].stage = "admitted"
  /\ LET u == request[s].who
         row == Target(Loaded, role, active)
     IN  /\ ~LocksSelfOut(u, u, role, active)
         /\ Commit(s, With(u, Flushed(u, row)), u, EntryOf(row, role, active))

\* The handler raises an HTTP error (the name is empty or taken, the password
\* short, the row unknown, the requester's own), or the client is gone.
Reject(s) ==
  /\ request[s].stage = "admitted"
  /\ request' = [request EXCEPT ![s] = NoRequest]
  /\ UNCHANGED <<users, issued, trail, staleActors>>

\* The process stops and starts: requests are lost, lifespan runs.
Restart ==
  /\ request' = [s \in Slot |-> NoRequest]
  /\ users' = Bootstrapped(users)
  /\ UNCHANGED <<issued, trail, staleActors>>

AdminNext ==
  \/ Restart
  \/ \E u \in User : Login(u)
  \/ \E s \in Slot :
       \/ \E u \in User : Arrive(s, u)
       \/ Depend(s)
       \/ Reject(s)
       \/ \E role \in FormRole :
            \/ \E u \in User : Create(s, u, role)
            \/ \E active \in BOOLEAN :
                 \/ UpdateSelf(s, role, active)
                 \/ \E u \in User : UpdateOther(s, u, role, active)

AdminSpec == AdminInit /\ [][AdminNext]_adminVars

-----------------------------------------------------------------------------
\* deps.py:45: a role withdrawn before a request arrives opens no handler,
\* whatever the session cookie remembers.
WithdrawnBeforeIsRefused ==
  \A s \in Slot : request[s].stage = "admitted" => request[s].held

\* routes.py:417: nobody can lock everybody out.  As long as no handler acts
\* on a role withdrawn after it was read, an active administrator remains.
AdminRemainsUnlessStale == staleActors = {} => \E u \in User : HoldsRole(users, u)

\* The latest entry on an account tells its role and whether it is active,
\* unless the account's owner updated it after the role was withdrawn.
TrailTellsRows ==
  \A u \in User \ staleActors : trail[u] # NoEntry => u \in DOMAIN users /\ trail[u] = users[u]

\* routes.py:417, without the exception: an active administrator remains.
AdminRemains == \E u \in User : HoldsRole(users, u)

-----------------------------------------------------------------------------
\* Slots in which a request waits for its dependencies or for its handler.
Served(s) == request[s].stage # "none"

\* A request is that of a user with a row; without a withdrawal it still has
\* the role it was admitted for.
RequestsAreOwned == \A s \in Slot : Served(s) => request[s].who \in issued

HeldWhileHolding ==
  \A s \in Slot : Served(s) /\ HoldsRole(users, request[s].who) => request[s].held

AdminInv ==
  /\ AdminTypeOK
  /\ RequestsAreOwned
  /\ HeldWhileHolding
  /\ WithdrawnBeforeIsRefused
  /\ AdminRemainsUnlessStale
  /\ TrailTellsRows
=============================================================================
