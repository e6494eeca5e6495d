------------------------------ MODULE Accounts ------------------------------
(***************************************************************************)
(* Local accounts: their role grants, their sessions, the throttle on      *)
(* logins and registrations, and the administration of all of these.       *)
(*                                                                         *)
(* A request reads, may wait for an advisory lock, and commits once; other *)
(* requests commit in between.  A login reads the account, verifies the    *)
(* password for a long time and only then writes.  An administrative       *)
(* request resolves its actor first, then waits for its locks, reads what  *)
(* it decides on and writes.  Locks are held until the commit.  A request  *)
(* with two locks takes them in one step here: the code always takes the   *)
(* membership or bootstrap lock before that of a login.                    *)
(***************************************************************************)
EXTENDS Integers, Sequences, FiniteSets

CONSTANTS
  Users,         \* normalized logins; an account is known by its login
  Clients,       \* client addresses
  Requests,      \* requests the API can have in flight
  RoleChoices,   \* the sets of roles an administrator submits
  Outdated,      \* accounts created with older Argon2 parameters
  FailureLimit, Window, BlockTime,   \* settings of the throttle
  SessionTTL, RememberedTTL,         \* lifetimes of a session
  RequestTime,   \* the longest time between a request's start and its end
  MaxTime,       \* bound: the clock stops here
  Profiles       \* bounds: how often each operation may happen

Operations ==
  {"bootstrap", "login", "register", "logout", "create", "createAdmin",
   "reset", "grant", "revoke", "roles", "disable"}

ASSUME AccountsAssumption ==
  /\ RoleChoices \subseteq
       SUBSET {"student", "teacher", "editor", "administrator"}
  /\ {} \notin RoleChoices
  /\ {FailureLimit, Window, BlockTime, SessionTTL, RememberedTTL, MaxTime} \subseteq Nat \ {0}
  /\ RequestTime \in Nat
  /\ Profiles \subseteq [Operations -> Nat]
  /\ Outdated \subseteq Users
  /\ IsFiniteSet(Users) /\ IsFiniteSet(Requests)
  /\ "free" \notin Requests

VARIABLES
  status,     \* users.status, "none" before the account exists
  password,   \* users.password_hash: the number of the secret, the parameters
  grants,     \* user_roles with revoked_at IS NULL
  sessions,   \* auth_sessions in the order of their creation
  throttle,   \* auth_throttles by key
  locks,      \* advisory locks: the request that holds one, or "free"
  request,    \* what a request has read and decided so far
  now,        \* the clock
  changed,    \* history: when the account last changed, and the sessions then
  left        \* how often each operation may still happen

identities == <<status, password, grants>>
vars == <<identities, sessions, throttle, locks, request, now, changed, left>>

-----------------------------------------------------------------------------
(* Roles and permissions.                                                  *)

Role == {"student", "teacher", "editor", "administrator"}
Never == 0   \* expires_at IS NULL

EditorPermissions ==
  {"components.view", "components.create", "components.edit",
   "components.archive", "components.submit_for_review", "imports.view",
   "imports.create", "imports.retry", "imports.cancel"}
Permission ==
  EditorPermissions \cup
  {"components.propose_correction", "components.delete", "components.review",
   "components.publish", "imports.bulk_apply", "users.view", "users.manage",
   "roles.assign", "audit.view", "system.settings", "system.diagnostics"}

PermissionsOf(roles) ==
  UNION {CASE role = "student" -> {"components.view"}
           [] role = "teacher" ->
                {"components.view", "components.propose_correction"}
           [] role = "editor" -> EditorPermissions
           [] role = "administrator" -> Permission : role \in roles}

Effective(u, t) ==
  {g.role : g \in {h \in grants[u] : h.until = Never \/ h.until > t}}

Administrators ==
  {u \in Users : /\ status[u] = "active"
                 /\ \E g \in grants[u] : g.role = "administrator"}

\* Mutant: an editor needs no role besides.
ValidExpiryOnly(roles, until, t) ==
  /\ "editor" \in roles <=> until # Never
  /\ until # Never => until > t

ValidLifetime(roles, until, t) ==
  /\ "editor" \in roles <=> until # Never
  /\ "editor" \in roles =>
       roles \cap {"student", "teacher", "administrator"} # {}
  /\ until # Never => until > t

\* The rows added for these roles.
Granted(roles, until, at) ==
  {[role |-> role, until |-> IF role = "editor" THEN until ELSE Never,
    at |-> at] : role \in roles}

-----------------------------------------------------------------------------
(* The throttle.                                                           *)

Keys == ({"account"} \X Users) \cup ({"client", "registration"} \X Clients)
NoRow == [count |-> 0, since |-> 0, until |-> 0]

IsBlocked(keys) == \E k \in keys : throttle[k].until > now

\* Mutant: one failure more than the limit is needed for a block.
CountedLate(row, t) ==
  LET open == IF row = NoRow \/ row.since + Window <= t
              THEN [count |-> 0, since |-> t, until |-> 0] ELSE row
  IN  [count |-> open.count + 1, since |-> open.since,
       until |-> IF open.count + 1 > FailureLimit
                 THEN t + BlockTime ELSE open.until]

\* A failure that began at t, added to a row.
Counted(row, t) ==
  LET open == IF row = NoRow \/ row.since + Window <= t
              THEN [count |-> 0, since |-> t, until |-> 0] ELSE row
  IN  [count |-> open.count + 1, since |-> open.since,
       until |-> IF open.count + 1 >= FailureLimit
                 THEN t + BlockTime ELSE open.until]

RegisterFailure(keys, t) ==
  throttle' = [k \in Keys |-> IF k \in keys THEN Counted(throttle[k], t)
                                            ELSE throttle[k]]

ClearFailures(keys) ==
  throttle' = [k \in Keys |-> IF k \in keys THEN NoRow ELSE throttle[k]]

LoginKeys(u, c) == {<<"account", u>>, <<"client", c>>}
RegistrationKeys(c) == {<<"registration", c>>}

-----------------------------------------------------------------------------
(* Sessions.                                                               *)

\* The lifetime of a session begins with its request.  The secret the request
\* has verified is not stored with it, and kept here as history.
StartSession(r, lifetime, secret) ==
  sessions' = Append(sessions,
    [user |-> request[r].user, since |-> request[r].at,
     until |-> request[r].at + lifetime, revoked |-> FALSE, secret |-> secret])

Resolves(s) ==
  /\ ~sessions[s].revoked
  /\ sessions[s].until > now
  /\ status[sessions[s].user] = "active"
  /\ Effective(sessions[s].user, now) # {}

\* Mutant: sessions about to end are left alone.
RevokeLongSessions(u) ==
  sessions' = [s \in DOMAIN sessions |->
    IF sessions[s].user = u /\ sessions[s].until > now + 1
    THEN [sessions[s] EXCEPT !.revoked = TRUE] ELSE sessions[s]]

RevokeSessions(u) ==
  sessions' = [s \in DOMAIN sessions |->
    IF sessions[s].user = u THEN [sessions[s] EXCEPT !.revoked = TRUE]
                            ELSE sessions[s]]

\* An account changes when its status, its grants or its secret do.  That a
\* login stores a verified secret anew is no change of it.
Changes(u) ==
  /\ status[u] # "none"
  /\ \/ status'[u] # status[u] \/ grants'[u] # grants[u]
     \/ password'[u].secret > password[u].secret

\* The history follows from what a step changes, whichever step it is; it ends
\* every action that writes accounts.
NoteChanges ==
  changed' = [u \in Users |->
    IF Changes(u) THEN [at |-> now, sessions |-> Len(sessions)] ELSE changed[u]]

-----------------------------------------------------------------------------
(* Requests.                                                               *)

Idle == [pc |-> "idle"]

Spend(operation) ==
  left[operation] > 0 /\ left' = [left EXCEPT ![operation] = @ - 1]

Open(r, operation, what) ==
  /\ request[r] = Idle
  /\ Spend(operation)
  /\ request' = [request EXCEPT ![r] = what]

Close(r) ==
  /\ request' = [request EXCEPT ![r] = Idle]
  /\ locks' = [l \in DOMAIN locks |-> IF locks[l] = r THEN "free" ELSE locks[l]]
  /\ UNCHANGED <<now, left>>

Init ==
  /\ status = [u \in Users |-> "none"]
  /\ password = [u \in Users |-> [secret |-> 0, modern |-> TRUE]]
  /\ grants = [u \in Users |-> {}]
  /\ sessions = <<>>
  /\ throttle = [k \in Keys |-> NoRow]
  /\ locks = [l \in {"membership", "bootstrap"} \cup Users |-> "free"]
  /\ request = [r \in Requests |-> Idle]
  /\ now = 1
  /\ changed = [u \in Users |-> [at |-> 0, sessions |-> 0]]
  /\ left \in Profiles

-----------------------------------------------------------------------------
(* Logging in and out.  "known" says whether the right password was sent.  *)

StartLogin(r, u, c, known) ==
  LET keys == LoginKeys(u, c)
      valid == known /\ status[u] = "active"
  IN
  /\ ~IsBlocked(keys)
  /\ Open(r, "login",
       [pc |-> IF valid THEN "accepted" ELSE "rejected", user |-> u,
        keys |-> keys, rows |-> {k \in keys : throttle[k] # NoRow},
        hash |-> password[u], at |-> now])
  /\ UNCHANGED <<identities, sessions, throttle, locks, now, changed>>

RejectLogin(r) ==
  /\ request[r].pc = "rejected"
  /\ RegisterFailure(request[r].keys, request[r].at)
  /\ Close(r)
  /\ UNCHANGED <<identities, sessions, changed>>

\* A row that was there is deleted by another login before it is locked: the
\* request fails and nothing is committed.
LoseThrottleRow(r) ==
  /\ request[r].pc = "rejected"
  /\ \E k \in request[r].rows : throttle[k] = NoRow
  /\ Close(r)
  /\ UNCHANGED <<identities, sessions, throttle, changed>>

\* A hash with older parameters is replaced by one of the verified password.
AcceptLogin(r, lifetime) ==
  LET u == request[r].user IN
  /\ request[r].pc = "accepted"
  /\ ClearFailures(request[r].keys)
  /\ StartSession(r, lifetime, request[r].hash.secret)
  /\ password' = IF request[r].hash.modern THEN password
                 ELSE [password EXCEPT ![u] =
                         [secret |-> request[r].hash.secret, modern |-> TRUE]]
  /\ Close(r)
  /\ UNCHANGED <<status, grants>>
  /\ NoteChanges

Logout(s) ==
  /\ Resolves(s)
  /\ Spend("logout")
  /\ sessions' = [sessions EXCEPT ![s].revoked = TRUE]
  /\ UNCHANGED <<identities, throttle, locks, request, now, changed>>

-----------------------------------------------------------------------------
(* Requests that wait for locks.                                           *)

\* Mutant: roles are replaced without the lock on the membership.
LocksOfNoRoles(operation, u) ==
  IF operation = "roles" THEN {} ELSE
  CASE operation = "bootstrap" -> {"bootstrap", u}
    [] operation \in {"register", "create"} -> {u}
    [] operation = "createAdmin" -> {"membership", u}
    [] operation = "reset" -> {}
    [] OTHER -> {"membership"}

LocksOf(operation, u) ==
  CASE operation = "bootstrap" -> {"bootstrap", u}
    [] operation \in {"register", "create"} -> {u}
    [] operation = "createAdmin" -> {"membership", u}
    [] operation = "reset" -> {}
    [] OTHER -> {"membership"}

\* The first administrator, from the command line.
StartBootstrap(r, u) ==
  /\ Open(r, "bootstrap",
       [pc |-> "waiting", operation |-> "bootstrap", user |-> u, own |-> FALSE,
        keys |-> {}, at |-> now])
  /\ UNCHANGED <<identities, sessions, throttle, locks, now, changed>>

\* The attempt is counted before the login is looked up.
StartRegistration(r, u, c) ==
  /\ ~IsBlocked(RegistrationKeys(c))
  /\ Open(r, "register",
       [pc |-> "waiting", operation |-> "register", user |-> u, own |-> FALSE,
        keys |-> RegistrationKeys(c), at |-> now])
  /\ UNCHANGED <<identities, sessions, throttle, locks, now, changed>>

AdministrativeOperations ==
  {"create", "createAdmin", "reset", "grant", "revoke", "roles", "disable"}

\* "own": the target is the actor, whose row this transaction has read.
StartAdministration(r, s, operation, u) ==
  /\ Resolves(s)
  /\ {"users.manage", "roles.assign"} \subseteq
       PermissionsOf(Effective(sessions[s].user, now))
  /\ Open(r, operation,
       [pc |-> "waiting", operation |-> operation, user |-> u,
        own |-> sessions[s].user = u, keys |-> {}, at |-> now])
  /\ UNCHANGED <<identities, sessions, throttle, locks, now, changed>>

\* What a request reads once it has its locks.
Enter(r) ==
  LET q == request[r]
      wanted == LocksOf(q.operation, q.user)
  IN
  /\ q.pc = "waiting"
  /\ \A l \in wanted : locks[l] = "free"
  /\ locks' = [l \in DOMAIN locks |-> IF l \in wanted THEN r ELSE locks[l]]
  /\ request' = [request EXCEPT ![r] =
       [pc |-> "locked", operation |-> q.operation, user |-> q.user,
        keys |-> q.keys, at |-> q.at,
        status |-> IF q.own THEN "active" ELSE status[q.user],
        roles |-> Effective(q.user, now),
        administrators |-> Cardinality(Administrators)]]
  /\ UNCHANGED <<identities, sessions, throttle, now, left, changed>>

Commits(r, operation) ==
  request[r].pc = "locked" /\ request[r].operation = operation

Exists(r) == request[r].status # "none"

CreateAccount(r, roles, until) ==
  LET u == request[r].user IN
  /\ status' = [status EXCEPT ![u] = "active"]
  /\ password' = [password EXCEPT ![u] =
                    [secret |-> 1, modern |-> u \notin Outdated]]
  /\ grants' = [grants EXCEPT ![u] = Granted(roles, until, now)]

Register(r) ==
  /\ Commits(r, "register")
  /\ RegisterFailure(request[r].keys, request[r].at)
  /\ Close(r)
  /\ IF Exists(r) THEN UNCHANGED <<identities, sessions>>
     ELSE CreateAccount(r, {"student"}, Never)
          /\ StartSession(r, SessionTTL, 1)
  /\ NoteChanges

\* Bootstrap is refused once there is an administrator.
Bootstrap(r) ==
  /\ Commits(r, "bootstrap")
  /\ Close(r)
  /\ IF Exists(r) \/ request[r].administrators # 0 THEN UNCHANGED identities
     ELSE CreateAccount(r, {"administrator"}, Never)
  /\ UNCHANGED <<sessions, throttle>>
  /\ NoteChanges

CreateAdministrator(r) ==
  /\ Commits(r, "createAdmin")
  /\ Close(r)
  /\ IF Exists(r) THEN UNCHANGED identities
     ELSE CreateAccount(r, {"administrator"}, Never)
  /\ UNCHANGED <<sessions, throttle>>
  /\ NoteChanges

CreateUser(r, roles, until) ==
  /\ Commits(r, "create")
  /\ "administrator" \notin roles
  /\ Close(r)
  /\ IF Exists(r) \/ ~ValidLifetime(roles, until, now) THEN UNCHANGED identities
     ELSE CreateAccount(r, roles, until)
  /\ UNCHANGED <<sessions, throttle>>
  /\ NoteChanges

SetPassword(u) ==
  password' = [password EXCEPT ![u] = [secret |-> @.secret + 1, modern |-> TRUE]]

ResetPassword(r) ==
  LET u == request[r].user IN
  /\ Commits(r, "reset")
  /\ Close(r)
  /\ IF Exists(r)
     THEN SetPassword(u) /\ RevokeSessions(u)
     ELSE UNCHANGED <<password, sessions>>
  /\ UNCHANGED <<status, grants, throttle>>
  /\ NoteChanges

\* Mutant: a grant that has run out is not revoked when it is renewed.
RenewGrant(u, until) ==
  grants' = [grants EXCEPT ![u] =
    {g \in @ : g.role # "editor" \/ g.until <= now}
      \cup Granted({"editor"}, until, now)]

ReplaceGrant(u, until) ==
  grants' = [grants EXCEPT ![u] =
    {g \in @ : g.role # "editor"} \cup Granted({"editor"}, until, now)]

GrantEditor(r, until) ==
  LET q == request[r] IN
  /\ Commits(r, "grant")
  /\ Close(r)
  /\ IF \/ q.status # "active"
        \/ "administrator" \in q.roles
        \/ ~ValidLifetime(q.roles \cup {"editor"}, until, now)
     THEN UNCHANGED <<grants, sessions>>
     ELSE ReplaceGrant(q.user, until) /\ RevokeSessions(q.user)
  /\ UNCHANGED <<status, password, throttle>>
  /\ NoteChanges

RevokeGrant(u) == grants' = [grants EXCEPT ![u] = {g \in @ : g.role # "editor"}]

RevokeEditor(r) ==
  LET q == request[r] IN
  /\ Commits(r, "revoke")
  /\ Close(r)
  /\ IF "editor" \notin q.roles THEN UNCHANGED <<grants, sessions>>
     ELSE RevokeGrant(q.user) /\ RevokeSessions(q.user)
  /\ UNCHANGED <<status, password, throttle>>
  /\ NoteChanges

\* Would taking the membership from this account leave nobody?
LastAdministrator(q) == "administrator" \in q.roles /\ q.administrators <= 1

\* The rows that are not revoked are, and those of the new roles are added.
ReplaceRoles(u, roles, until) ==
  grants' = [grants EXCEPT ![u] = Granted(roles, until, now)]

SetRoles(r, roles, until) ==
  LET q == request[r] IN
  /\ Commits(r, "roles")
  /\ Close(r)
  /\ IF \/ ~Exists(r)
        \/ "administrator" \notin roles /\ LastAdministrator(q)
        \/ ~ValidLifetime(roles, until, now)
     THEN UNCHANGED <<grants, sessions>>
     ELSE ReplaceRoles(q.user, roles, until) /\ RevokeSessions(q.user)
  /\ UNCHANGED <<status, password, throttle>>
  /\ NoteChanges

DisableUser(r) ==
  LET q == request[r] IN
  /\ Commits(r, "disable")
  /\ Close(r)
  /\ IF ~Exists(r) \/ LastAdministrator(q)
     THEN UNCHANGED <<status, sessions>>
     ELSE /\ status' = [status EXCEPT ![q.user] = "disabled"]
          /\ RevokeSessions(q.user)
  /\ UNCHANGED <<password, grants, throttle>>
  /\ NoteChanges

Tick ==
  /\ now < MaxTime
  /\ \A r \in Requests :
       request[r].pc # "idle" => now - request[r].at < RequestTime
  /\ now' = now + 1
  /\ UNCHANGED <<identities, sessions, throttle, locks, request, left, changed>>

Expiries == {Never} \cup 1..(MaxTime + 1)

Next ==
  \/ \E r \in Requests, u \in Users :
       \/ StartBootstrap(r, u)
       \/ \E c \in Clients :
            \/ \E known \in BOOLEAN : StartLogin(r, u, c, known)
            \/ StartRegistration(r, u, c)
       \/ \E s \in DOMAIN sessions, operation \in AdministrativeOperations :
            StartAdministration(r, s, operation, u)
  \/ \E r \in Requests :
       \/ RejectLogin(r) \/ LoseThrottleRow(r) \/ Enter(r) \/ Register(r)
       \/ \E lifetime \in {SessionTTL, RememberedTTL} : AcceptLogin(r, lifetime)
       \/ Bootstrap(r) \/ CreateAdministrator(r) \/ ResetPassword(r)
       \/ RevokeEditor(r) \/ DisableUser(r)
       \/ \E until \in Expiries :
            \/ GrantEditor(r, until)
            \/ \E roles \in RoleChoices :
                 CreateUser(r, roles, until) \/ SetRoles(r, roles, until)
  \/ \E s \in DOMAIN sessions : Logout(s)
  \/ Tick

Spec == Init /\ [][Next]_vars

-----------------------------------------------------------------------------
(* Properties.                                                             *)

Statuses == {"none", "active", "disabled"}
Hashes == [secret : Nat, modern : BOOLEAN]
RequestStates ==
  {Idle}
  \cup [pc : {"accepted", "rejected"}, user : Users, keys : SUBSET Keys,
        rows : SUBSET Keys, hash : Hashes, at : Nat]
  \cup [pc : {"waiting"}, operation : Operations, user : Users, own : BOOLEAN,
        keys : SUBSET Keys, at : Nat]
  \cup [pc : {"locked"}, operation : Operations, user : Users, keys : SUBSET Keys,
        at : Nat, status : Statuses, roles : SUBSET Role, administrators : Nat]

Session ==
  [user : Users, since : Nat, until : Nat, revoked : BOOLEAN, secret : Nat]

\* Well typed, and the constraints of the tables: only editors have an
\* expiry, and it lies after the grant.
TypeOK ==
  /\ status \in [Users -> Statuses]
  /\ password \in [Users -> Hashes]
  /\ grants \in [Users -> SUBSET [role : Role, until : Nat, at : Nat]]
  /\ \A u \in Users : \A g \in grants[u] :
       /\ g.role = "editor" <=> g.until # Never
       /\ g.until # Never => g.until > g.at
  /\ sessions \in Seq(Session)
  /\ throttle \in [Keys -> [count : Nat, since : Nat, until : Nat]]
  /\ locks \in [{"membership", "bootstrap"} \cup Users -> Requests \cup {"free"}]
  /\ request \in [Requests -> RequestStates]
  /\ now \in 1..MaxTime
  /\ changed \in [Users -> [at : Nat, sessions : Nat]]
  /\ left \in [Operations -> Nat]

\* Whatever administrators do to each other at the same time, one of them
\* stays: once there is an active administrator there always is one.
AnAdministratorRemains ==
  [][Administrators # {} => Administrators' # {}]_vars

\* No account has two current grants of a role (the unique index over
\* unrevoked grants is never violated), although a grant that has run out
\* stays current until it is revoked.
OneCurrentGrant ==
  \A u \in Users : \A g, h \in grants[u] : g.role = h.role => g = h

\* Time and changes of roles never leave an account without a role, which
\* would turn away its sessions: some grant of it does not expire.
EveryoneKeepsARole ==
  \A u \in Users :
    status[u] # "none" => \E g \in grants[u] : g.until = Never

\* Whatever changes an account ends the sessions it has.  The only one that
\* can be used after a change, of those that began before it, is a login that
\* was under way: it has verified what the account was, and commits after the
\* change.  A login that began later was let in by the secret that is stored
\* now; where a login may store anew what it has verified (an outdated hash)
\* that secret itself may be an old one, so such accounts are excepted.
SessionsPostdateChanges ==
  \A s \in DOMAIN sessions :
    LET u == sessions[s].user IN
    ~sessions[s].revoked /\ sessions[s].until > now =>
      /\ s > changed[u].sessions
      /\ sessions[s].since + RequestTime >= changed[u].at
      /\ sessions[s].since > changed[u].at /\ u \notin Outdated
           => sessions[s].secret = password[u].secret

\* Attempts are admitted before the failures of those under way are counted,
\* and a failure is recorded, and blocks, from the time its attempt began.  A
\* late one can shorten the block to less than the window, and lets a second
\* round of attempts in: with the settings as they are shipped, a block as long
\* as the window and both far longer than a request (config.py:69-71), a
\* counter exceeds the limit by at most two rounds of the requests in flight.
FailuresStayBounded ==
  BlockTime >= Window /\ BlockTime >= 2 * RequestTime =>
    \A k \in Keys :
      throttle[k].count <= FailureLimit - 1 + 2 * Cardinality(Requests)
=============================================================================
