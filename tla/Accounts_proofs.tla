--------------------------- MODULE Accounts_proofs ---------------------------
(***************************************************************************)
(* Theorems about Accounts, for any accounts, requests, settings of the    *)
(* throttle and numbers of operations.                                     *)
(***************************************************************************)
EXTENDS Accounts, FiniteSetTheorems, SequenceTheorems, TLAPS

USE DEF identities

Locks == {"membership", "bootstrap"} \cup Users
Pending == [pc : {"accepted", "rejected"}, user : Users, keys : SUBSET Keys,
            rows : SUBSET Keys, hash : Hashes, at : Nat]
Waiting == [pc : {"waiting"}, operation : Operations, user : Users, own : BOOLEAN,
            keys : SUBSET Keys, at : Nat]
Locked == [pc : {"locked"}, operation : Operations, user : Users, keys : SUBSET Keys,
           at : Nat, status : Statuses, roles : SUBSET Role, administrators : Nat]

-----------------------------------------------------------------------------
(* Type correctness.                                                       *)

\* What a request has read, by where it is.
LEMMA RequestTypes ==
  ASSUME TypeOK, NEW r \in Requests
  PROVE  /\ request[r].pc \in {"idle", "accepted", "rejected", "waiting", "locked"}
         /\ request[r].pc = "idle" => request[r] = Idle
         /\ request[r].pc \in {"accepted", "rejected"} => request[r] \in Pending
         /\ request[r].pc = "waiting" => request[r] \in Waiting
         /\ request[r].pc = "locked" => request[r] \in Locked
BY DEF TypeOK, RequestStates, Idle, Pending, Waiting, Locked

LEMMA OpenType ==
  ASSUME TypeOK, NEW r \in Requests, NEW operation \in Operations,
         NEW what \in RequestStates, Open(r, operation, what)
  PROVE  /\ request' \in [Requests -> RequestStates]
         /\ left' \in [Operations -> Nat]
BY DEF TypeOK, Open, Spend

LEMMA CloseType ==
  ASSUME TypeOK, NEW r \in Requests, Close(r)
  PROVE  /\ request' \in [Requests -> RequestStates]
         /\ locks' \in [Locks -> Requests \cup {"free"}]
         /\ now' = now /\ left' = left
BY DEF TypeOK, Close, RequestStates, Locks

LEMMA KeysAreKeys ==
  ASSUME NEW u \in Users, NEW c \in Clients
  PROVE  LoginKeys(u, c) \subseteq Keys /\ RegistrationKeys(c) \subseteq Keys
BY DEF LoginKeys, RegistrationKeys, Keys

LEMMA CountedType ==
  ASSUME NEW row \in [count : Nat, since : Nat, until : Nat], NEW t \in Nat
  PROVE  Counted(row, t) \in [count : Nat, since : Nat, until : Nat]
<1>1. BlockTime \in Nat /\ Window \in Nat /\ FailureLimit \in Nat
  BY AccountsAssumption
<1> DEFINE open == IF row = NoRow \/ row.since + Window <= t
                   THEN [count |-> 0, since |-> t, until |-> 0] ELSE row
<1>2. open \in [count : Nat, since : Nat, until : Nat]
  BY <1>1
<1>3. open.count + 1 \in Nat /\ open.since \in Nat /\ open.until \in Nat
  BY <1>2
<1> HIDE DEF open
<1>4. QED BY <1>1, <1>3 DEF Counted, open

LEMMA ThrottleType ==
  ASSUME TypeOK, NEW keys \in SUBSET Keys, NEW t \in Nat,
         RegisterFailure(keys, t) \/ ClearFailures(keys) \/ UNCHANGED throttle
  PROVE  throttle' \in [Keys -> [count : Nat, since : Nat, until : Nat]]
<1>1. CASE RegisterFailure(keys, t)
  BY <1>1, CountedType DEF RegisterFailure, TypeOK
<1>2. CASE ClearFailures(keys)
  BY <1>2 DEF ClearFailures, NoRow, TypeOK
<1>3. QED BY <1>1, <1>2 DEF TypeOK

LEMMA StartSessionType ==
  ASSUME TypeOK, NEW r \in Requests, request[r].user \in Users, request[r].at \in Nat,
         NEW lifetime \in Nat, NEW secret \in Nat, StartSession(r, lifetime, secret)
  PROVE  /\ sessions' \in Seq(Session)
         /\ Len(sessions') = Len(sessions) + 1
         /\ \A s \in DOMAIN sessions : sessions'[s] = sessions[s]
         /\ sessions'[Len(sessions) + 1].user = request[r].user
         /\ sessions'[Len(sessions) + 1].since = request[r].at
         /\ sessions'[Len(sessions) + 1].secret = secret
         /\ DOMAIN sessions' = DOMAIN sessions \cup {Len(sessions) + 1}
<1> DEFINE new == [user |-> request[r].user, since |-> request[r].at,
                   until |-> request[r].at + lifetime, revoked |-> FALSE,
                   secret |-> secret]
<1>1. sessions \in Seq(Session) /\ new \in Session
  BY AccountsAssumption DEF TypeOK, Session
<1>2. sessions' = Append(sessions, new)
  BY DEF StartSession
<1>3. /\ new.user = request[r].user /\ new.since = request[r].at
      /\ new.secret = secret
  OBVIOUS
<1> HIDE DEF new
<1>4. QED BY <1>1, <1>2, <1>3

LEMMA RevokeSessionsType ==
  ASSUME TypeOK, NEW u \in Users, RevokeSessions(u)
  PROVE  /\ sessions' \in Seq(Session)
         /\ Len(sessions') = Len(sessions) /\ DOMAIN sessions' = DOMAIN sessions
         /\ \A s \in DOMAIN sessions :
              /\ sessions'[s].user = sessions[s].user
              /\ sessions'[s].since = sessions[s].since
              /\ sessions'[s].secret = sessions[s].secret
              /\ sessions[s].revoked => sessions'[s].revoked
              /\ sessions[s].user = u => sessions'[s].revoked
<1> DEFINE ended(s) == IF sessions[s].user = u
                       THEN [sessions[s] EXCEPT !.revoked = TRUE] ELSE sessions[s]
<1>1. sessions \in Seq(Session)
  BY DEF TypeOK, Session
<1>2. Len(sessions) \in Nat /\ DOMAIN sessions = 1..Len(sessions)
  BY <1>1
<1>3. \A s \in DOMAIN sessions :
        /\ ended(s) \in Session
        /\ ended(s).user = sessions[s].user
        /\ ended(s).since = sessions[s].since
        /\ ended(s).secret = sessions[s].secret
        /\ sessions[s].revoked => ended(s).revoked
        /\ sessions[s].user = u => ended(s).revoked
  <2>1. SUFFICES ASSUME NEW s \in DOMAIN sessions, NEW x \in Session, x = sessions[s]
                 PROVE  /\ ended(s) \in Session
                        /\ ended(s).user = x.user
                        /\ ended(s).since = x.since
                        /\ ended(s).secret = x.secret
                        /\ x.revoked => ended(s).revoked
                        /\ x.user = u => ended(s).revoked
    BY <1>1, <1>2, ElementOfSeq
  <2>2. QED BY <2>1 DEF Session
<1>4. sessions' = [s \in 1..Len(sessions) |-> ended(s)]
  BY <1>2 DEF RevokeSessions
<1> HIDE DEF ended
<1>5. sessions' \in [1..Len(sessions) -> Session]
  BY <1>2, <1>3, <1>4
<1>6. sessions' \in Seq(Session)
  BY <1>2, <1>5, SeqDef
<1>7. Len(sessions') = Len(sessions)
  BY <1>2, <1>5, <1>6
<1>8. \A s \in DOMAIN sessions : sessions'[s] = ended(s)
  BY <1>2, <1>4
<1>9. QED BY <1>2, <1>3, <1>5, <1>6, <1>7, <1>8

GrantRows == [role : Role, until : Nat, at : Nat]
LastingGrants(S) ==
  \A g \in S : /\ g.role = "editor" <=> g.until # Never
               /\ g.until # Never => g.until > g.at

\* The rows of a lifetime that was accepted are well formed.
LEMMA GrantedType ==
  ASSUME NEW roles \in SUBSET Role, NEW until \in Nat, NEW at \in Nat,
         "editor" \in roles => until # Never /\ until > at
  PROVE  /\ Granted(roles, until, at) \subseteq GrantRows
         /\ LastingGrants(Granted(roles, until, at))
BY DEF Granted, GrantRows, LastingGrants, Never, Role

LEMMA CreateAccountType ==
  ASSUME TypeOK, NEW r \in Requests, request[r].pc = "locked",
         NEW roles \in SUBSET Role, NEW until \in Nat,
         "editor" \in roles => until # Never /\ until > now,
         CreateAccount(r, roles, until)
  PROVE  /\ status' \in [Users -> Statuses]
         /\ password' \in [Users -> Hashes]
         /\ grants' \in [Users -> SUBSET GrantRows]
         /\ \A v \in Users : LastingGrants(grants'[v])
<1>1. request[r].user \in Users /\ now \in Nat
  BY RequestTypes DEF TypeOK, Locked
<1>2. /\ Granted(roles, until, now) \subseteq GrantRows
      /\ LastingGrants(Granted(roles, until, now))
  BY <1>1, GrantedType
<1>3. status' \in [Users -> Statuses] /\ password' \in [Users -> Hashes]
  BY <1>1 DEF CreateAccount, TypeOK, Statuses, Hashes
<1>4. /\ grants \in [Users -> SUBSET GrantRows]
      /\ \A v \in Users : LastingGrants(grants[v])
  BY DEF TypeOK, GrantRows, LastingGrants
<1>5. grants' = [grants EXCEPT ![request[r].user] = Granted(roles, until, now)]
  BY DEF CreateAccount
<1>6. QED BY <1>1, <1>2, <1>3, <1>4, <1>5

LEMMA NoteType ==
  ASSUME TypeOK, NoteChanges
  PROVE  changed' \in [Users -> [at : Nat, sessions : Nat]]
<1>1. now \in Nat /\ Len(sessions) \in Nat
  BY DEF TypeOK, Session
<1>2. QED BY <1>1 DEF TypeOK, NoteChanges

LEMMA TypeInit == Init => TypeOK
<1> SUFFICES ASSUME Init PROVE TypeOK
  OBVIOUS
<1>1. now \in 1..MaxTime /\ left \in [Operations -> Nat]
  BY AccountsAssumption DEF Init
<1>2. /\ throttle \in [Keys -> [count : Nat, since : Nat, until : Nat]]
      /\ locks \in [Locks -> Requests \cup {"free"}]
  BY DEF Init, NoRow, Locks
<1>3. request \in [Requests -> RequestStates]
  BY DEF Init, RequestStates
<1>4. QED BY <1>1, <1>2, <1>3 DEF Init, TypeOK, Statuses, Hashes, Locks

\* The requests that start.
LEMMA TypeStart ==
  ASSUME TypeOK, NEW r \in Requests, NEW u \in Users,
         \/ StartBootstrap(r, u)
         \/ \E c \in Clients :
              \/ \E known \in BOOLEAN : StartLogin(r, u, c, known)
              \/ StartRegistration(r, u, c)
         \/ \E s \in DOMAIN sessions, operation \in AdministrativeOperations :
              StartAdministration(r, s, operation, u)
  PROVE  TypeOK'
<1>1. now \in Nat
  BY DEF TypeOK
<1>2. CASE StartBootstrap(r, u)
  <2>1. [pc |-> "waiting", operation |-> "bootstrap", user |-> u, own |-> FALSE,
         keys |-> {}, at |-> now] \in RequestStates
    BY <1>1 DEF RequestStates, Operations
  <2>2. QED
    BY <1>2, <2>1, OpenType DEF StartBootstrap, Operations, TypeOK
<1>3. ASSUME NEW c \in Clients, NEW known \in BOOLEAN, StartLogin(r, u, c, known)
      PROVE  TypeOK'
  <2>1. LoginKeys(u, c) \in SUBSET Keys
    BY KeysAreKeys
  <2> DEFINE pc == IF known /\ status[u] = "active" THEN "accepted" ELSE "rejected"
             rows == {k \in LoginKeys(u, c) : throttle[k] # NoRow}
  <2>2. /\ pc \in {"accepted", "rejected"} /\ rows \in SUBSET Keys
        /\ password[u] \in Hashes
    BY <2>1 DEF TypeOK
  <2>3. Open(r, "login", [pc |-> pc, user |-> u, keys |-> LoginKeys(u, c), rows |-> rows,
                          hash |-> password[u], at |-> now])
    BY <1>3 DEF StartLogin
  <2> HIDE DEF pc, rows
  <2>4. [pc |-> pc, user |-> u, keys |-> LoginKeys(u, c), rows |-> rows,
         hash |-> password[u], at |-> now] \in RequestStates
    BY <1>1, <2>1, <2>2 DEF RequestStates
  <2>5. QED
    BY <1>3, <2>3, <2>4, OpenType DEF StartLogin, Operations, TypeOK
<1>4. ASSUME NEW c \in Clients, StartRegistration(r, u, c)
      PROVE  TypeOK'
  <2>1. RegistrationKeys(c) \in SUBSET Keys
    BY KeysAreKeys
  <2>2. [pc |-> "waiting", operation |-> "register", user |-> u, own |-> FALSE,
         keys |-> RegistrationKeys(c), at |-> now] \in RequestStates
    BY <1>1, <2>1 DEF RequestStates, Operations
  <2>3. QED
    BY <1>4, <2>2, OpenType DEF StartRegistration, Operations, TypeOK
<1>5. ASSUME NEW s \in DOMAIN sessions, NEW operation \in AdministrativeOperations,
             StartAdministration(r, s, operation, u)
      PROVE  TypeOK'
  <2>1. operation \in Operations
    BY DEF AdministrativeOperations, Operations
  <2>2. (sessions[s].user = u) \in BOOLEAN
    OBVIOUS
  <2>3. [pc |-> "waiting", operation |-> operation, user |-> u,
         own |-> sessions[s].user = u, keys |-> {}, at |-> now] \in RequestStates
    BY <1>1, <2>1, <2>2 DEF RequestStates
  <2>4. QED
    BY <1>5, <2>1, <2>3, OpenType DEF StartAdministration, TypeOK
<1>6. QED BY <1>2, <1>3, <1>4, <1>5

\* The number of administrators is a number: there are finitely many accounts.
LEMMA AdministratorsCounted ==
  /\ IsFiniteSet(Administrators) /\ Cardinality(Administrators) \in Nat
<1>1. Administrators \subseteq Users
  BY DEF Administrators
<1>2. QED BY <1>1, AccountsAssumption, FS_Subset, FS_CardinalityType

LEMMA TypeLogin ==
  ASSUME TypeOK, NEW r \in Requests,
         \/ RejectLogin(r) \/ LoseThrottleRow(r)
         \/ \E lifetime \in {SessionTTL, RememberedTTL} : AcceptLogin(r, lifetime)
  PROVE  TypeOK'
<1>1. CASE RejectLogin(r)
  <2>1. request[r].keys \in SUBSET Keys /\ request[r].at \in Nat
    BY <1>1, RequestTypes DEF RejectLogin, Pending
  <2>2. QED BY <1>1, <2>1, ThrottleType, CloseType DEF RejectLogin, TypeOK, Locks
<1>2. CASE LoseThrottleRow(r)
  BY <1>2, CloseType DEF LoseThrottleRow, TypeOK, Locks
<1>3. ASSUME NEW lifetime \in {SessionTTL, RememberedTTL}, AcceptLogin(r, lifetime)
      PROVE  TypeOK'
  <2>1. /\ request[r].keys \in SUBSET Keys /\ request[r].user \in Users
        /\ request[r].hash \in Hashes /\ request[r].hash.secret \in Nat
        /\ request[r].at \in Nat
    BY <1>3, RequestTypes DEF AcceptLogin, Pending, Hashes
  <2>2. lifetime \in Nat
    BY AccountsAssumption
  <2>3. throttle' \in [Keys -> [count : Nat, since : Nat, until : Nat]]
    BY <1>3, <2>1, ThrottleType DEF AcceptLogin
  <2>4. sessions' \in Seq(Session)
    BY <1>3, <2>1, <2>2, StartSessionType DEF AcceptLogin
  <2>5. password' \in [Users -> Hashes]
    BY <1>3, <2>1 DEF AcceptLogin, TypeOK, Hashes
  <2>6. changed' \in [Users -> [at : Nat, sessions : Nat]]
    BY <1>3, NoteType DEF AcceptLogin
  <2>7. QED BY <1>3, <2>3, <2>4, <2>5, <2>6, CloseType DEF AcceptLogin, TypeOK, Locks
<1>4. QED BY <1>1, <1>2, <1>3

LEMMA TypeEnter ==
  ASSUME TypeOK, NEW r \in Requests, Enter(r)
  PROVE  TypeOK'
<1> DEFINE q == request[r]
           state == IF q.own THEN "active" ELSE status[q.user]
           roles == Effective(q.user, now)
           count == Cardinality(Administrators)
<1>1. q \in Waiting
  BY RequestTypes DEF Enter
<1>2. /\ state \in Statuses /\ roles \in SUBSET Role /\ count \in Nat
  BY <1>1, AdministratorsCounted DEF TypeOK, Effective, Waiting, Statuses
<1>3. /\ q.operation \in Operations /\ q.user \in Users /\ q.keys \in SUBSET Keys
      /\ q.at \in Nat
  BY <1>1 DEF Waiting
<1>4. request' = [request EXCEPT ![r] =
        [pc |-> "locked", operation |-> q.operation, user |-> q.user, keys |-> q.keys,
         at |-> q.at, status |-> state, roles |-> roles, administrators |-> count]]
  BY DEF Enter
<1>5. locks' \in [Locks -> Requests \cup {"free"}]
  BY DEF Enter, TypeOK, Locks
<1> HIDE DEF state, roles, count, q
<1>6. [pc |-> "locked", operation |-> q.operation, user |-> q.user, keys |-> q.keys,
       at |-> q.at, status |-> state, roles |-> roles, administrators |-> count]
        \in RequestStates
  BY <1>2, <1>3 DEF RequestStates
<1>7. request' \in [Requests -> RequestStates]
  BY <1>4, <1>6 DEF TypeOK
<1>8. QED BY <1>5, <1>7 DEF Enter, TypeOK, Locks

LEMMA TypeCreate ==
  ASSUME TypeOK, NEW r \in Requests,
         \/ Register(r) \/ Bootstrap(r) \/ CreateAdministrator(r)
         \/ \E until \in Expiries, roles \in RoleChoices : CreateUser(r, roles, until)
  PROVE  TypeOK'
<1>1. request[r] \in Locked
  BY RequestTypes DEF Register, Bootstrap, CreateAdministrator, CreateUser, Commits
<1>2. /\ request[r].pc = "locked" /\ request[r].user \in Users
      /\ request[r].keys \in SUBSET Keys /\ request[r].at \in Nat
  BY <1>1 DEF Locked
<1>3. CASE Register(r)
  <2>1. throttle' \in [Keys -> [count : Nat, since : Nat, until : Nat]]
    BY <1>2, <1>3, ThrottleType DEF Register
  <2>2. CASE Exists(r)
    BY <1>3, <2>1, <2>2, CloseType, NoteType DEF Register, TypeOK, Locks
  <2>3. CASE ~ Exists(r)
    <3>1. CreateAccount(r, {"student"}, Never) /\ StartSession(r, SessionTTL, 1)
      BY <1>3, <2>3 DEF Register
    <3>2. sessions' \in Seq(Session)
      BY <1>2, <3>1, StartSessionType, AccountsAssumption
    <3>3. /\ status' \in [Users -> Statuses] /\ password' \in [Users -> Hashes]
          /\ grants' \in [Users -> SUBSET GrantRows]
          /\ \A v \in Users : LastingGrants(grants'[v])
      BY <1>2, <3>1, CreateAccountType DEF Role, Never
    <3>4. QED
      BY <1>3, <2>1, <3>2, <3>3, CloseType, NoteType
      DEF Register, TypeOK, Locks, GrantRows, LastingGrants
  <2>4. QED BY <2>2, <2>3
<1>4. ASSUME NEW roles \in SUBSET Role, NEW until \in Nat,
             "editor" \in roles => until # Never /\ until > now,
             \/ UNCHANGED identities
             \/ CreateAccount(r, roles, until),
             Close(r), UNCHANGED <<sessions, throttle>>, NoteChanges
      PROVE  TypeOK'
  <2>1. CASE UNCHANGED identities
    BY <1>4, <2>1, CloseType, NoteType DEF TypeOK, Locks
  <2>2. CASE CreateAccount(r, roles, until)
    <3>1. /\ status' \in [Users -> Statuses] /\ password' \in [Users -> Hashes]
          /\ grants' \in [Users -> SUBSET GrantRows]
          /\ \A v \in Users : LastingGrants(grants'[v])
      BY <1>2, <1>4, <2>2, CreateAccountType
    <3>2. QED
      BY <1>4, <3>1, CloseType, NoteType DEF TypeOK, Locks, GrantRows, LastingGrants
  <2>3. QED BY <1>4, <2>1, <2>2
<1>5. CASE Bootstrap(r) \/ CreateAdministrator(r)
  BY <1>4, <1>5 DEF Bootstrap, CreateAdministrator, Role, Never
<1>6. ASSUME NEW until \in Expiries, NEW roles \in RoleChoices, CreateUser(r, roles, until)
      PROVE  TypeOK'
  <2>1. roles \in SUBSET Role /\ until \in Nat
    BY AccountsAssumption DEF Role, Expiries, Never
  <2>2. \/ UNCHANGED identities
        \/ ValidLifetime(roles, until, now) /\ CreateAccount(r, roles, until)
    BY <1>6 DEF CreateUser
  <2>3. CASE UNCHANGED identities
    BY <1>6, <2>3, CloseType, NoteType DEF CreateUser, TypeOK, Locks
  <2>4. CASE ValidLifetime(roles, until, now) /\ CreateAccount(r, roles, until)
    BY <1>4, <1>6, <2>1, <2>4 DEF CreateUser, ValidLifetime
  <2>5. QED BY <2>2, <2>3, <2>4
<1>7. QED BY <1>3, <1>5, <1>6

LEMMA TypeChange ==
  ASSUME TypeOK, NEW r \in Requests,
         \/ ResetPassword(r) \/ RevokeEditor(r) \/ DisableUser(r)
         \/ \E until \in Expiries :
              \/ GrantEditor(r, until)
              \/ \E roles \in RoleChoices : SetRoles(r, roles, until)
  PROVE  TypeOK'
<1>1. request[r] \in Locked
  BY RequestTypes DEF ResetPassword, RevokeEditor, DisableUser, GrantEditor, SetRoles, Commits
<1>2. request[r].user \in Users /\ request[r].roles \in SUBSET Role /\ now \in Nat
  BY <1>1 DEF Locked, TypeOK
<1>3. /\ grants \in [Users -> SUBSET GrantRows]
      /\ \A v \in Users : LastingGrants(grants[v])
  BY DEF TypeOK, GrantRows, LastingGrants
<1>4. ASSUME RevokeSessions(request[r].user) \/ UNCHANGED sessions, NoteChanges,
             status' \in [Users -> Statuses], password' \in [Users -> Hashes],
             NEW S \in SUBSET GrantRows, LastingGrants(S),
             grants' \in {grants, [grants EXCEPT ![request[r].user] = S]},
             Close(r), UNCHANGED throttle
      PROVE  TypeOK'
  <2>1. /\ grants' \in [Users -> SUBSET GrantRows]
        /\ \A v \in Users : LastingGrants(grants'[v])
    BY <1>2, <1>3, <1>4
  <2>2. QED
    BY <1>2, <1>4, <2>1, RevokeSessionsType, NoteType, CloseType
    DEF TypeOK, Locks, GrantRows, LastingGrants
<1>5. CASE ResetPassword(r)
  <2>1. password' \in [Users -> Hashes]
    <3>1. /\ password \in [Users -> Hashes] /\ password[request[r].user].secret \in Nat
      BY <1>2 DEF TypeOK, Hashes
    <3> DEFINE new == [secret |-> password[request[r].user].secret + 1, modern |-> TRUE]
    <3>2. new \in Hashes
      BY <3>1 DEF Hashes
    <3>3. password' \in {password, [password EXCEPT ![request[r].user] = new]}
      BY <1>5 DEF ResetPassword, SetPassword
    <3> HIDE DEF new
    <3>4. QED BY <1>2, <3>1, <3>2, <3>3
  <2>2. LastingGrants({})
    BY DEF LastingGrants
  <2>3. QED BY <1>4, <1>5, <2>1, <2>2 DEF ResetPassword, TypeOK
<1>6. CASE DisableUser(r)
  <2>1. status' \in [Users -> Statuses]
    BY <1>2, <1>6 DEF DisableUser, TypeOK, Statuses
  <2>2. LastingGrants({})
    BY DEF LastingGrants
  <2>3. QED BY <1>4, <1>6, <2>1, <2>2 DEF DisableUser, TypeOK
<1>7. CASE RevokeEditor(r)
  <2> DEFINE S == {g \in grants[request[r].user] : g.role # "editor"}
  <2>1. S \in SUBSET GrantRows /\ LastingGrants(S)
    BY <1>2, <1>3 DEF LastingGrants
  <2>2. grants' \in {grants, [grants EXCEPT ![request[r].user] = S]}
    BY <1>7 DEF RevokeEditor, RevokeGrant
  <2> HIDE DEF S
  <2>3. QED BY <1>4, <1>7, <2>1, <2>2 DEF RevokeEditor, TypeOK
<1>8. ASSUME NEW until \in Expiries, GrantEditor(r, until)
      PROVE  TypeOK'
  <2> DEFINE S == {g \in grants[request[r].user] : g.role # "editor"}
                    \cup Granted({"editor"}, until, now)
  <2>1. until \in Nat
    BY AccountsAssumption DEF Expiries, Never
  <2>2. CASE UNCHANGED <<grants, sessions>>
    <3>1. LastingGrants({})
      BY DEF LastingGrants
    <3>2. QED BY <1>4, <1>8, <2>2, <3>1 DEF GrantEditor, TypeOK
  <2>3. CASE /\ ValidLifetime(request[r].roles \cup {"editor"}, until, now)
             /\ ReplaceGrant(request[r].user, until) /\ RevokeSessions(request[r].user)
    <3>1. until # Never /\ until > now
      BY <2>3 DEF ValidLifetime
    <3>2. /\ Granted({"editor"}, until, now) \subseteq GrantRows
          /\ LastingGrants(Granted({"editor"}, until, now))
      BY <1>2, <2>1, <3>1, GrantedType DEF Role
    <3>3. S \in SUBSET GrantRows /\ LastingGrants(S)
      BY <1>2, <1>3, <3>2 DEF LastingGrants
    <3>4. grants' = [grants EXCEPT ![request[r].user] = S]
      BY <2>3 DEF ReplaceGrant
    <3> HIDE DEF S
    <3>5. QED BY <1>4, <1>8, <2>3, <3>3, <3>4 DEF GrantEditor, TypeOK
  <2>4. QED BY <1>8, <2>2, <2>3 DEF GrantEditor
<1>9. ASSUME NEW until \in Expiries, NEW roles \in RoleChoices, SetRoles(r, roles, until)
      PROVE  TypeOK'
  <2> DEFINE S == Granted(roles, until, now)
  <2>1. roles \in SUBSET Role /\ until \in Nat
    BY AccountsAssumption DEF Role, Expiries, Never
  <2>2. CASE UNCHANGED <<grants, sessions>>
    <3>1. LastingGrants({})
      BY DEF LastingGrants
    <3>2. QED BY <1>4, <1>9, <2>2, <3>1 DEF SetRoles, TypeOK
  <2>3. CASE /\ ValidLifetime(roles, until, now)
             /\ ReplaceRoles(request[r].user, roles, until) /\ RevokeSessions(request[r].user)
    <3>1. S \in SUBSET GrantRows /\ LastingGrants(S)
      BY <1>2, <2>1, <2>3, GrantedType DEF ValidLifetime
    <3>2. grants' = [grants EXCEPT ![request[r].user] = S]
      BY <2>3 DEF ReplaceRoles
    <3> HIDE DEF S
    <3>3. QED BY <1>4, <1>9, <2>3, <3>1, <3>2 DEF SetRoles, TypeOK
  <2>4. QED BY <1>9, <2>2, <2>3 DEF SetRoles
<1>10. QED BY <1>5, <1>6, <1>7, <1>8, <1>9

LEMMA TypeLogout ==
  ASSUME TypeOK, NEW s \in DOMAIN sessions, Logout(s)
  PROVE  /\ sessions' \in Seq(Session) /\ Len(sessions') = Len(sessions)
         /\ \A t \in DOMAIN sessions :
              /\ sessions'[t].user = sessions[t].user
              /\ sessions'[t].since = sessions[t].since
              /\ sessions'[t].secret = sessions[t].secret
              /\ sessions[t].revoked => sessions'[t].revoked
         /\ left' \in [Operations -> Nat]
<1> DEFINE x == sessions[s]
           y == [x EXCEPT !.revoked = TRUE]
<1>1. sessions \in Seq(Session) /\ s \in 1..Len(sessions)
  BY DEF TypeOK, Session
<1>2. x \in Session
  BY <1>1, ElementOfSeq
<1>3. /\ y \in Session /\ y.revoked
      /\ y.user = x.user /\ y.since = x.since /\ y.secret = x.secret
  BY <1>2 DEF Session
<1>4. sessions' = [sessions EXCEPT ![s] = y]
  BY DEF Logout
<1>5. left' \in [Operations -> Nat]
  <2>1. left \in [Operations -> Nat] /\ "logout" \in Operations
    BY DEF TypeOK, Operations
  <2>2. QED BY <2>1 DEF Logout, Spend
<1> HIDE DEF y
<1>6. QED BY <1>1, <1>2, <1>3, <1>4, <1>5, ExceptSeq, LenProperties

\* Every step preserves the types.
LEMMA TypeStep == TypeOK /\ [Next]_vars => TypeOK'
<1> SUFFICES ASSUME TypeOK, [Next]_vars PROVE TypeOK'
  OBVIOUS
<1>1. CASE UNCHANGED vars
  BY <1>1 DEF vars, TypeOK
<1>2. ASSUME NEW s \in DOMAIN sessions, Logout(s) PROVE TypeOK'
  BY <1>2, TypeLogout DEF Logout, TypeOK, Session
<1>3. CASE Tick
  BY <1>3, AccountsAssumption DEF Tick, TypeOK
<1>4. QED
  BY <1>1, <1>2, <1>3, TypeStart, TypeLogin, TypeEnter, TypeCreate, TypeChange DEF Next

\* Accounts, grants, sessions, counters and requests keep their types, and in
\* every state the constraints of the tables hold: only an editor's grant runs
\* out, and not before it was made.
THEOREM Types == Spec => []TypeOK
BY TypeInit, TypeStep, PTL DEF Spec

-----------------------------------------------------------------------------
(* What the steps do to identities, sessions, locks and requests: every    *)
(* step is one of a few kinds, and the invariants below are preserved by   *)
(* each kind.                                                              *)

Creating == {"bootstrap", "register", "create", "createAdmin"}

Opened(r) ==
  /\ request[r] = Idle
  /\ \E what \in Pending \cup Waiting :
       /\ request' = [request EXCEPT ![r] = what]
       /\ what.pc = "waiting" /\ what.own => status[what.user] # "none"
  /\ UNCHANGED <<status, grants, sessions, locks, now>>

Created(r) ==
  /\ request[r].pc = "locked" /\ request[r].operation \in Creating /\ ~ Exists(r)
  /\ \E roles \in (SUBSET Role) \ {{}}, until \in Nat :
       ValidLifetime(roles, until, now) /\ CreateAccount(r, roles, until)
  /\ Close(r)

Regranted(r) ==
  LET u == request[r].user IN
  /\ request[r].pc = "locked"
  /\ \/ RevokeGrant(u)
     \/ \E until \in Nat : until # Never /\ ReplaceGrant(u, until)
  /\ Close(r) /\ UNCHANGED status

Replaced(r) ==
  LET q == request[r] IN
  /\ Commits(r, "roles") /\ Exists(r)
  /\ \E roles \in (SUBSET Role) \ {{}}, until \in Nat :
       /\ ValidLifetime(roles, until, now) /\ ReplaceRoles(q.user, roles, until)
       /\ "administrator" \in roles \/ ~ LastAdministrator(q)
  /\ Close(r) /\ UNCHANGED status

Disabled(r) ==
  LET q == request[r] IN
  /\ Commits(r, "disable") /\ Exists(r) /\ ~ LastAdministrator(q)
  /\ status' = [status EXCEPT ![q.user] = "disabled"]
  /\ Close(r) /\ UNCHANGED grants

Ended(r) == Close(r) /\ UNCHANGED <<status, grants>>

Passed == now' \in Nat /\ now <= now' /\ UNCHANGED <<status, grants, locks, request>>

Kinds ==
  \/ \E r \in Requests :
       \/ Opened(r) \/ Enter(r) \/ Created(r) \/ Regranted(r) \/ Replaced(r)
       \/ Disabled(r) \/ Ended(r)
  \/ Passed

LEMMA StartKinds ==
  ASSUME TypeOK, NEW r \in Requests, NEW u \in Users,
         \/ StartBootstrap(r, u)
         \/ \E c \in Clients :
              \/ \E known \in BOOLEAN : StartLogin(r, u, c, known)
              \/ StartRegistration(r, u, c)
         \/ \E s \in DOMAIN sessions, operation \in AdministrativeOperations :
              StartAdministration(r, s, operation, u)
  PROVE  Opened(r)
<1>1. now \in Nat
  BY DEF TypeOK
<1>2. CASE StartBootstrap(r, u)
  <2> DEFINE what == [pc |-> "waiting", operation |-> "bootstrap", user |-> u,
                      own |-> FALSE, keys |-> {}, at |-> now]
  <2>1. what \in Waiting /\ ~ what.own
    BY <1>1 DEF Waiting, Operations
  <2>2. request[r] = Idle /\ request' = [request EXCEPT ![r] = what]
    BY <1>2 DEF StartBootstrap, Open
  <2> HIDE DEF what
  <2>3. QED BY <1>2, <2>1, <2>2 DEF StartBootstrap, Opened
<1>3. ASSUME NEW c \in Clients, NEW known \in BOOLEAN, StartLogin(r, u, c, known)
      PROVE  Opened(r)
  <2> DEFINE pc == IF known /\ status[u] = "active" THEN "accepted" ELSE "rejected"
             rows == {k \in LoginKeys(u, c) : throttle[k] # NoRow}
             what == [pc |-> pc, user |-> u, keys |-> LoginKeys(u, c), rows |-> rows,
                      hash |-> password[u], at |-> now]
  <2>1. /\ pc \in {"accepted", "rejected"} /\ rows \in SUBSET Keys
        /\ LoginKeys(u, c) \in SUBSET Keys /\ password[u] \in Hashes
    BY KeysAreKeys DEF TypeOK
  <2>2. request[r] = Idle /\ request' = [request EXCEPT ![r] = what]
    BY <1>3 DEF StartLogin, Open
  <2> HIDE DEF pc, rows
  <2>3. what \in Pending /\ what.pc # "waiting"
    BY <1>1, <2>1 DEF Pending
  <2> HIDE DEF what
  <2>4. QED BY <1>3, <2>2, <2>3 DEF StartLogin, Opened
<1>4. ASSUME NEW c \in Clients, StartRegistration(r, u, c)
      PROVE  Opened(r)
  <2> DEFINE what == [pc |-> "waiting", operation |-> "register", user |-> u,
                      own |-> FALSE, keys |-> RegistrationKeys(c), at |-> now]
  <2>1. what \in Waiting /\ ~ what.own
    BY <1>1, KeysAreKeys DEF Waiting, Operations
  <2>2. request[r] = Idle /\ request' = [request EXCEPT ![r] = what]
    BY <1>4 DEF StartRegistration, Open
  <2> HIDE DEF what
  <2>3. QED BY <1>4, <2>1, <2>2 DEF StartRegistration, Opened
<1>5. ASSUME NEW s \in DOMAIN sessions, NEW operation \in AdministrativeOperations,
             StartAdministration(r, s, operation, u)
      PROVE  Opened(r)
  <2> DEFINE own == sessions[s].user = u
             what == [pc |-> "waiting", operation |-> operation, user |-> u,
                      own |-> own, keys |-> {}, at |-> now]
  <2>1. operation \in Operations /\ own \in BOOLEAN
    BY DEF AdministrativeOperations, Operations
  <2>2. own => status[u] # "none"
    BY <1>5 DEF StartAdministration, Resolves
  <2>3. request[r] = Idle /\ request' = [request EXCEPT ![r] = what]
    BY <1>5 DEF StartAdministration, Open
  <2> HIDE DEF own
  <2>4. what \in Waiting /\ what.own = own /\ what.user = u
    BY <1>1, <2>1 DEF Waiting
  <2> HIDE DEF what
  <2>5. QED BY <1>5, <2>2, <2>3, <2>4 DEF StartAdministration, Opened
<1>6. QED BY <1>2, <1>3, <1>4, <1>5

LEMMA CommitKinds ==
  ASSUME TypeOK, NEW r \in Requests,
         \/ Register(r) \/ Bootstrap(r) \/ CreateAdministrator(r)
         \/ ResetPassword(r) \/ RevokeEditor(r) \/ DisableUser(r)
         \/ \E until \in Expiries :
              \/ GrantEditor(r, until)
              \/ \E roles \in RoleChoices :
                   CreateUser(r, roles, until) \/ SetRoles(r, roles, until)
  PROVE  Created(r) \/ Regranted(r) \/ Replaced(r) \/ Disabled(r) \/ Ended(r)
<1>1. request[r].pc = "locked"
  BY DEF Register, Bootstrap, CreateAdministrator, ResetPassword, RevokeEditor,
         DisableUser, GrantEditor, CreateUser, SetRoles, Commits
<1>2. request[r].user \in Users
  BY <1>1, RequestTypes DEF Locked
<1>3. \A roles \in {{"student"}, {"administrator"}} :
        ValidLifetime(roles, Never, now) /\ roles \in (SUBSET Role) \ {{}}
  BY DEF ValidLifetime, Role
<1>4. \A until \in Expiries : until \in Nat
  BY AccountsAssumption DEF Expiries, Never
<1>5. \A roles \in RoleChoices : roles \in (SUBSET Role) \ {{}}
  BY AccountsAssumption DEF Role
<1>6. Never \in Nat
  BY DEF Never
<1>7. CASE Register(r)
  <2>1. CASE Exists(r)
    BY <1>7, <2>1 DEF Register, Ended
  <2>2. CASE ~ Exists(r)
    BY <1>1, <1>3, <1>6, <1>7, <2>2 DEF Register, Created, Commits, Creating
  <2>3. QED BY <2>1, <2>2
<1>8. CASE Bootstrap(r)
  BY <1>1, <1>3, <1>6, <1>8 DEF Bootstrap, Created, Ended, Commits, Creating
<1>9. CASE CreateAdministrator(r)
  BY <1>1, <1>3, <1>6, <1>9 DEF CreateAdministrator, Created, Ended, Commits, Creating
<1>10. ASSUME NEW until \in Expiries, NEW roles \in RoleChoices, CreateUser(r, roles, until)
       PROVE  Created(r) \/ Ended(r)
  BY <1>1, <1>4, <1>5, <1>10 DEF CreateUser, Created, Ended, Commits, Creating
<1>11. CASE ResetPassword(r)
  BY <1>2, <1>11 DEF ResetPassword, Ended
<1>12. CASE RevokeEditor(r)
  BY <1>1, <1>12 DEF RevokeEditor, Regranted, Ended
<1>13. CASE DisableUser(r)
  BY <1>13 DEF DisableUser, Disabled, Ended
<1>14. ASSUME NEW until \in Expiries, GrantEditor(r, until)
       PROVE  Regranted(r) \/ Ended(r)
  BY <1>1, <1>4, <1>14 DEF GrantEditor, Regranted, Ended, ValidLifetime
<1>15. ASSUME NEW until \in Expiries, NEW roles \in RoleChoices, SetRoles(r, roles, until)
       PROVE  Replaced(r) \/ Ended(r)
  BY <1>4, <1>5, <1>15 DEF SetRoles, Replaced, Ended
<1>16. QED
  BY <1>7, <1>8, <1>9, <1>10, <1>11, <1>12, <1>13, <1>14, <1>15

LEMMA StepKinds == TypeOK /\ [Next]_vars => Kinds
<1> SUFFICES ASSUME TypeOK, [Next]_vars PROVE Kinds
  OBVIOUS
<1>1. now \in Nat
  BY DEF TypeOK
<1>2. CASE UNCHANGED vars
  BY <1>1, <1>2 DEF vars, Kinds, Passed
<1>3. CASE Tick
  BY <1>1, <1>3 DEF Tick, Kinds, Passed
<1>4. ASSUME NEW s \in DOMAIN sessions, Logout(s) PROVE Kinds
  BY <1>1, <1>4 DEF Logout, Kinds, Passed
<1>5. ASSUME NEW r \in Requests,
             \/ RejectLogin(r) \/ LoseThrottleRow(r)
             \/ \E lifetime \in {SessionTTL, RememberedTTL} : AcceptLogin(r, lifetime)
      PROVE  Ended(r)
  <2>1. CASE RejectLogin(r) \/ LoseThrottleRow(r)
    BY <2>1 DEF RejectLogin, LoseThrottleRow, Ended
  <2>2. ASSUME NEW lifetime \in {SessionTTL, RememberedTTL}, AcceptLogin(r, lifetime)
        PROVE  Ended(r)
    BY <2>2 DEF AcceptLogin, Ended
  <2>3. QED BY <1>5, <2>1, <2>2
<1>6. QED
  BY <1>2, <1>3, <1>4, <1>5, StartKinds, CommitKinds DEF Next, Kinds

-----------------------------------------------------------------------------
(* Locks: a request that has read what it decides on holds its locks, and  *)
(* what it read of the existence of the account is still so.               *)

LEMMA LockNames ==
  ASSUME NEW operation \in Operations, NEW u \in Users
  PROVE  /\ LocksOf(operation, u) \subseteq Locks
         /\ operation \in Creating => u \in LocksOf(operation, u)
         /\ operation \in {"createAdmin", "grant", "revoke", "roles", "disable"} =>
              "membership" \in LocksOf(operation, u)
BY DEF LocksOf, Locks, Operations, Creating

LEMMA CloseFacts ==
  ASSUME TypeOK, NEW r \in Requests, Close(r)
  PROVE  /\ request'[r] = Idle
         /\ \A x \in Requests \ {r} : request'[x] = request[x]
         /\ \A l \in Locks : locks'[l] = IF locks[l] = r THEN "free" ELSE locks[l]
         /\ now' = now
BY DEF TypeOK, Close, Locks

\* A request that commits is over, the others are where they were, and the
\* locks of the others stay.
LEMMA KindCloses ==
  ASSUME TypeOK, NEW r \in Requests,
         Created(r) \/ Regranted(r) \/ Replaced(r) \/ Disabled(r) \/ Ended(r)
  PROVE  Close(r)
BY DEF Created, Regranted, Replaced, Disabled, Ended

LEMMA OpenFacts ==
  ASSUME TypeOK, NEW r \in Requests, Opened(r)
  PROVE  /\ request'[r] \in Pending \cup Waiting
         /\ request'[r].pc # "locked"
         /\ request'[r].pc = "waiting" /\ request'[r].own => status[request'[r].user] # "none"
         /\ \A x \in Requests \ {r} : request'[x] = request[x]
         /\ UNCHANGED <<status, grants, sessions, locks, now>>
<1>1. PICK what \in Pending \cup Waiting :
        /\ request' = [request EXCEPT ![r] = what]
        /\ what.pc = "waiting" /\ what.own => status[what.user] # "none"
  BY DEF Opened
<1>2. what.pc # "locked"
  BY DEF Pending, Waiting
<1>3. QED BY <1>1, <1>2 DEF Opened, TypeOK

LEMMA EnterFacts ==
  ASSUME TypeOK, NEW r \in Requests, Enter(r)
  PROVE  /\ request[r] \in Waiting /\ request'[r] \in Locked
         /\ request'[r].operation = request[r].operation
         /\ request'[r].user = request[r].user
         /\ request'[r].status = IF request[r].own THEN "active" ELSE status[request[r].user]
         /\ request'[r].roles = Effective(request[r].user, now)
         /\ request'[r].administrators = Cardinality(Administrators)
         /\ \A l \in LocksOf(request[r].operation, request[r].user) :
              locks[l] = "free" /\ locks'[l] = r
         /\ \A l \in Locks \ LocksOf(request[r].operation, request[r].user) :
              locks'[l] = locks[l]
         /\ \A x \in Requests \ {r} : request'[x] = request[x]
         /\ UNCHANGED <<status, grants, sessions, now>>
<1> DEFINE q == request[r]
           new == [pc |-> "locked", operation |-> q.operation, user |-> q.user,
                   keys |-> q.keys, at |-> q.at,
                   status |-> IF q.own THEN "active" ELSE status[q.user],
                   roles |-> Effective(q.user, now),
                   administrators |-> Cardinality(Administrators)]
<1>1. q \in Waiting /\ q.operation \in Operations /\ q.user \in Users
  BY RequestTypes DEF Enter, Waiting
<1>2. /\ request' = [request EXCEPT ![r] = new]
      /\ locks' = [l \in DOMAIN locks |->
                     IF l \in LocksOf(q.operation, q.user) THEN r ELSE locks[l]]
      /\ \A l \in LocksOf(q.operation, q.user) : locks[l] = "free"
      /\ UNCHANGED <<status, grants, sessions, now>>
  BY DEF Enter
<1>3. DOMAIN locks = Locks /\ DOMAIN request = Requests
  BY DEF TypeOK, Locks
<1>4. TypeOK'
  BY TypeEnter
<1>5. request'[r] = new /\ new.pc = "locked"
  BY <1>2, <1>3
<1> HIDE DEF new, q
<1>6. request'[r] \in Locked
  <2>1. request' \in [Requests -> RequestStates]
    BY <1>4 DEF TypeOK
  <2>2. QED BY <1>5, <2>1 DEF RequestStates, Idle, Locked
<1>7. LocksOf(q.operation, q.user) \subseteq Locks
  BY <1>1, LockNames
<1>8. \A x \in Requests \ {r} : request'[x] = request[x]
  BY <1>2, <1>3
<1>9. \A l \in Locks : locks'[l] = IF l \in LocksOf(q.operation, q.user) THEN r ELSE locks[l]
  BY <1>2, <1>3
<1>10. QED BY <1>1, <1>2, <1>5, <1>6, <1>7, <1>8, <1>9 DEF new, q

HoldsLocks ==
  \A r \in Requests : request[r].pc = "locked" =>
    \A l \in LocksOf(request[r].operation, request[r].user) : locks[l] = r

Existence ==
  \A r \in Requests :
    LET q == request[r] IN
    /\ q.pc = "waiting" /\ q.own => status[q.user] # "none"
    /\ q.pc = "locked" =>
         /\ q.status # "none" => status[q.user] # "none"
         /\ q.operation \in Creating /\ q.status = "none" => status[q.user] = "none"

LEMMA HoldsLocksStep == TypeOK /\ HoldsLocks /\ [Next]_vars => HoldsLocks'
<1> SUFFICES ASSUME TypeOK, HoldsLocks, Kinds,
                    NEW x \in Requests, request'[x].pc = "locked",
                    NEW l \in LocksOf(request'[x].operation, request'[x].user)
             PROVE  locks'[l] = x
  BY StepKinds DEF HoldsLocks
<1>1. Idle.pc # "locked"
  BY DEF Idle
<1>2. ASSUME request'[x] = request[x]
      PROVE  l \in Locks /\ locks[l] = x
  BY <1>2, RequestTypes, LockNames DEF HoldsLocks, Locked
<1>3. ASSUME NEW r \in Requests, Close(r) PROVE locks'[l] = x
  BY <1>1, <1>2, <1>3, CloseFacts
<1>4. ASSUME NEW r \in Requests, Opened(r) PROVE locks'[l] = x
  BY <1>2, <1>4, OpenFacts
<1>5. ASSUME NEW r \in Requests, Enter(r) PROVE locks'[l] = x
  <2>1. CASE x = r
    BY <1>5, <2>1, EnterFacts
  <2>2. CASE x # r
    BY <1>2, <1>5, <2>2, EnterFacts, AccountsAssumption
  <2>3. QED BY <2>1, <2>2
<1>6. CASE Passed
  BY <1>2, <1>6 DEF Passed
<1>7. QED BY <1>3, <1>4, <1>5, <1>6, KindCloses DEF Kinds

\* No two requests hold a lock.
LEMMA OneHolder ==
  ASSUME TypeOK, HoldsLocks, NEW r \in Requests, NEW x \in Requests,
         request[r].pc = "locked", request[x].pc = "locked",
         LocksOf(request[r].operation, request[r].user)
           \cap LocksOf(request[x].operation, request[x].user) # {}
  PROVE  r = x
BY DEF HoldsLocks

\* How a step changes whether an account exists.
LEMMA StatusFacts ==
  ASSUME TypeOK, Kinds
  PROVE  \/ UNCHANGED status
         \/ \E r \in Requests : Created(r)
              /\ status' = [status EXCEPT ![request[r].user] = "active"]
         \/ \E r \in Requests : Disabled(r)
              /\ status' = [status EXCEPT ![request[r].user] = "disabled"]
BY EnterFacts, OpenFacts
DEF Kinds, Created, CreateAccount, Regranted, Replaced, Disabled, Ended, Passed

LEMMA ExistenceStep ==
  TypeOK /\ HoldsLocks /\ Existence /\ [Next]_vars => Existence'
<1> SUFFICES ASSUME TypeOK, HoldsLocks, Existence, Kinds, NEW x \in Requests
             PROVE  LET q == request'[x] IN
                    /\ q.pc = "waiting" /\ q.own => status'[q.user] # "none"
                    /\ q.pc = "locked" =>
                         /\ q.status # "none" => status'[q.user] # "none"
                         /\ q.operation \in Creating /\ q.status = "none" =>
                              status'[q.user] = "none"
  BY StepKinds DEF Existence
<1> DEFINE Kept(q) ==
       /\ q.pc = "waiting" /\ q.own => status'[q.user] # "none"
       /\ q.pc = "locked" =>
            /\ q.status # "none" => status'[q.user] # "none"
            /\ q.operation \in Creating /\ q.status = "none" => status'[q.user] = "none"
<1>1. status \in [Users -> Statuses]
  BY DEF TypeOK
<1>2. \A r \in Requests : request[r].pc \in {"waiting", "locked"} =>
        request[r].user \in Users /\ request[r].operation \in Operations
  BY RequestTypes DEF Waiting, Locked
<1>3. ASSUME UNCHANGED status, request'[x] = request[x]
      PROVE  Kept(request'[x])
  BY <1>3 DEF Existence
<1>4. Kept(Idle)
  BY DEF Idle
<1>5. ASSUME NEW r \in Requests, Created(r) PROVE Kept(request'[x])
  <2>1. /\ request[r].pc = "locked" /\ request[r].operation \in Creating
        /\ status' = [status EXCEPT ![request[r].user] = "active"] /\ Close(r)
    BY <1>5 DEF Created, CreateAccount
  <2>2. CASE x = r
    BY <1>4, <2>1, <2>2, CloseFacts
  <2>3. CASE x # r
    <3>1. request'[x] = request[x]
      BY <2>1, <2>3, CloseFacts
    <3>2. request[x].pc = "locked" /\ request[x].operation \in Creating =>
            request[x].user # request[r].user
      BY <1>2, <2>1, <2>3, LockNames, OneHolder
    <3>3. QED BY <1>1, <1>2, <2>1, <3>1, <3>2 DEF Existence, Statuses
  <2>4. QED BY <2>2, <2>3
<1>6. ASSUME NEW r \in Requests, Disabled(r) PROVE Kept(request'[x])
  <2>1. /\ request[r].pc = "locked" /\ request[r].status # "none"
        /\ status' = [status EXCEPT ![request[r].user] = "disabled"] /\ Close(r)
    BY <1>6 DEF Disabled, Commits, Exists
  <2>2. status[request[r].user] # "none"
    BY <2>1 DEF Existence
  <2>3. CASE x = r
    BY <1>4, <2>1, <2>3, CloseFacts
  <2>4. CASE x # r
    <3>1. request'[x] = request[x]
      BY <2>1, <2>4, CloseFacts
    <3>2. QED BY <1>1, <1>2, <2>1, <2>2, <3>1 DEF Existence
  <2>5. QED BY <2>3, <2>4
<1>7. ASSUME NEW r \in Requests, Regranted(r) \/ Replaced(r) \/ Ended(r)
      PROVE  Kept(request'[x])
  <2>1. UNCHANGED status /\ Close(r)
    BY <1>7 DEF Regranted, Replaced, Ended
  <2>2. request'[x] \in {Idle, request[x]}
    BY <2>1, CloseFacts
  <2>3. QED BY <1>3, <1>4, <2>1, <2>2
<1>8. ASSUME NEW r \in Requests, Opened(r) PROVE Kept(request'[x])
  BY <1>3, <1>8, OpenFacts
<1>9. ASSUME NEW r \in Requests, Enter(r) PROVE Kept(request'[x])
  <2>1. CASE x = r
    <3>1. request[r].pc = "waiting"
      BY <1>9 DEF Enter
    <3>2. /\ request'[r].pc = "locked" /\ request'[r].user = request[r].user
          /\ request'[r].status = IF request[r].own THEN "active"
                                  ELSE status[request[r].user]
          /\ UNCHANGED status
      BY <1>9, EnterFacts DEF Locked
    <3>3. QED BY <2>1, <3>1, <3>2 DEF Existence
  <2>2. CASE x # r
    BY <1>3, <1>9, <2>2, EnterFacts
  <2>3. QED BY <2>1, <2>2
<1>10. CASE Passed
  BY <1>3, <1>10 DEF Passed
<1>11. QED BY <1>5, <1>6, <1>7, <1>8, <1>9, <1>10 DEF Kinds

-----------------------------------------------------------------------------
(* Grants.                                                                 *)

\* The rows of an accepted set of roles: one for each, one that lasts.
LEMMA GrantedRows ==
  ASSUME NEW roles \in (SUBSET Role) \ {{}}, NEW until \in Nat,
         ValidLifetime(roles, until, now)
  PROVE  LET S == Granted(roles, until, now) IN
         /\ \A g, h \in S : g.role = h.role => g = h
         /\ \E g \in S : g.until = Never
         /\ "administrator" \in roles => \E g \in S : g.role = "administrator"
         /\ "administrator" \notin roles => \A g \in S : g.role # "administrator"
<1>1. PICK role \in roles : role # "editor"
  BY DEF ValidLifetime
<1>2. [role |-> role, until |-> Never, at |-> now] \in Granted(roles, until, now)
  BY <1>1 DEF Granted
<1>3. "administrator" \in roles =>
        [role |-> "administrator", until |-> Never, at |-> now] \in Granted(roles, until, now)
  BY DEF Granted
<1> DEFINE S == Granted(roles, until, now)
<1>4. \A g \in S : g.role \in roles /\ g = [role |-> g.role, at |-> now,
                     until |-> IF g.role = "editor" THEN until ELSE Never]
  BY DEF Granted
<1>5. \A g, h \in S : g.role = h.role => g = h
  BY <1>4
<1>6. \E g \in S : g.until = Never
  BY <1>2
<1>7. "administrator" \in roles => \E g \in S : g.role = "administrator"
  BY <1>3
<1>8. "administrator" \notin roles => \A g \in S : g.role # "administrator"
  BY <1>4
<1>9. QED BY <1>5, <1>6, <1>7, <1>8

\* The grants of a renewed or revoked editor: the others, and at most one row.
LEMMA RegrantedRows ==
  ASSUME TypeOK, NEW r \in Requests, Regranted(r)
  PROVE  \E T : /\ \A g, h \in T : g = h
                /\ \A g \in T : g.role = "editor"
                /\ grants' = [grants EXCEPT ![request[r].user] =
                     {g \in grants[request[r].user] : g.role # "editor"} \cup T]
<1>1. CASE RevokeGrant(request[r].user)
  <2>1. grants' = [grants EXCEPT ![request[r].user] =
                     {g \in grants[request[r].user] : g.role # "editor"} \cup {}]
    BY <1>1 DEF RevokeGrant
  <2>2. QED BY <2>1
<1>2. ASSUME NEW until \in Nat, ReplaceGrant(request[r].user, until)
      PROVE  grants' = [grants EXCEPT ![request[r].user] =
               {g \in grants[request[r].user] : g.role # "editor"}
                 \cup Granted({"editor"}, until, now)]
  BY <1>2 DEF ReplaceGrant
<1>3. \A until : /\ \A g, h \in Granted({"editor"}, until, now) : g = h
                 /\ \A g \in Granted({"editor"}, until, now) : g.role = "editor"
  BY DEF Granted
<1>4. QED BY <1>1, <1>2, <1>3 DEF Regranted

\* A step leaves the grants of an account alone, gives it an accepted set of
\* roles, or changes its grant as an editor.
LEMMA GrantFacts ==
  ASSUME TypeOK, Kinds
  PROVE  \/ UNCHANGED grants
         \/ \E r \in Requests :
              /\ Created(r) \/ Replaced(r)
              /\ \E roles \in (SUBSET Role) \ {{}}, until \in Nat :
                   /\ ValidLifetime(roles, until, now)
                   /\ grants' = [grants EXCEPT ![request[r].user] =
                                   Granted(roles, until, now)]
         \/ \E r \in Requests : Regranted(r)
BY EnterFacts, OpenFacts
DEF Kinds, Created, CreateAccount, Replaced, ReplaceRoles, Disabled, Ended, Passed

LEMMA UserOf ==
  ASSUME TypeOK, NEW r \in Requests, request[r].pc = "locked"
  PROVE  request[r].user \in Users
BY RequestTypes DEF Locked

LEMMA OneGrantStep ==
  TypeOK /\ OneCurrentGrant /\ [Next]_vars => OneCurrentGrant'
<1> SUFFICES ASSUME TypeOK, OneCurrentGrant, Kinds, NEW u \in Users
             PROVE  \A g, h \in grants'[u] : g.role = h.role => g = h
  BY StepKinds DEF OneCurrentGrant
<1>1. DOMAIN grants = Users
  BY DEF TypeOK
<1>2. CASE UNCHANGED grants
  BY <1>2 DEF OneCurrentGrant
<1>3. ASSUME NEW r \in Requests, NEW roles \in (SUBSET Role) \ {{}}, NEW until \in Nat,
             ValidLifetime(roles, until, now),
             grants' = [grants EXCEPT ![request[r].user] = Granted(roles, until, now)]
      PROVE  \A g, h \in grants'[u] : g.role = h.role => g = h
  BY <1>1, <1>3, GrantedRows DEF OneCurrentGrant
<1>4. ASSUME NEW r \in Requests, Regranted(r)
      PROVE  \A g, h \in grants'[u] : g.role = h.role => g = h
  <2>1. PICK T :
          /\ \A g, h \in T : g = h
          /\ \A g \in T : g.role = "editor"
          /\ grants' = [grants EXCEPT ![request[r].user] =
               {g \in grants[request[r].user] : g.role # "editor"} \cup T]
    BY <1>4, RegrantedRows
  <2>2. QED BY <1>1, <2>1 DEF OneCurrentGrant
<1>5. QED BY <1>2, <1>3, <1>4, GrantFacts

\* No account ever has two current grants of a role: the unique index over the
\* grants that are not revoked never refuses a row.
THEOREM OneGrantOfARole == Spec => []OneCurrentGrant
<1>1. Init => OneCurrentGrant
  BY DEF Init, OneCurrentGrant
<1>2. QED BY <1>1, OneGrantStep, Types, PTL DEF Spec

LEMMA KeepsARoleStep ==
  TypeOK /\ Existence /\ EveryoneKeepsARole /\ [Next]_vars => EveryoneKeepsARole'
<1> SUFFICES ASSUME TypeOK, Existence, EveryoneKeepsARole, Kinds,
                    NEW u \in Users, status'[u] # "none"
             PROVE  \E g \in grants'[u] : g.until = Never
  BY StepKinds DEF EveryoneKeepsARole
<1>1. DOMAIN grants = Users /\ DOMAIN status = Users
  BY DEF TypeOK
<1>2. ASSUME status[u] # "none"
      PROVE  \E g \in grants'[u] : g.until = Never
  <2>1. PICK g \in grants[u] : g.until = Never
    BY <1>2 DEF EveryoneKeepsARole
  <2>2. CASE UNCHANGED grants
    BY <2>1, <2>2
  <2>3. ASSUME NEW r \in Requests, NEW roles \in (SUBSET Role) \ {{}}, NEW until \in Nat,
               ValidLifetime(roles, until, now),
               grants' = [grants EXCEPT ![request[r].user] = Granted(roles, until, now)]
        PROVE  \E h \in grants'[u] : h.until = Never
    BY <1>1, <2>1, <2>3, GrantedRows
  <2>4. ASSUME NEW r \in Requests, Regranted(r)
        PROVE  \E h \in grants'[u] : h.until = Never
    <3>1. g.role # "editor"
      BY <2>1 DEF TypeOK
    <3>2. g \in grants'[u]
      BY <1>1, <2>1, <2>4, <3>1, RegrantedRows
    <3>3. QED BY <2>1, <3>2
  <2>5. QED BY <2>2, <2>3, <2>4, GrantFacts
<1>3. ASSUME status[u] = "none", NEW r \in Requests, Created(r),
             status' = [status EXCEPT ![request[r].user] = "active"]
      PROVE  \E g \in grants'[u] : g.until = Never
  <2>1. u = request[r].user
    BY <1>1, <1>3
  <2>2. PICK roles \in (SUBSET Role) \ {{}}, until \in Nat :
          /\ ValidLifetime(roles, until, now)
          /\ grants' = [grants EXCEPT ![request[r].user] = Granted(roles, until, now)]
    BY <1>3 DEF Created, CreateAccount
  <2>3. QED BY <1>1, <2>1, <2>2, GrantedRows
<1>4. ASSUME status[u] = "none", NEW r \in Requests, Disabled(r),
             status' = [status EXCEPT ![request[r].user] = "disabled"]
      PROVE  FALSE
  BY <1>1, <1>4 DEF Disabled, Commits, Exists, Existence
<1>5. QED BY <1>2, <1>3, <1>4, StatusFacts

LEMMA LocksInit == Init => HoldsLocks /\ Existence
BY DEF Init, HoldsLocks, Existence, Idle

\* What the decisions rest on holds in every state.
LEMMA LocksHold == Spec => [](TypeOK /\ HoldsLocks /\ Existence)
BY TypeInit, TypeStep, LocksInit, HoldsLocksStep, ExistenceStep, PTL DEF Spec

\* Neither the end of a grant nor any order of creations, grants, revocations,
\* new roles and disabling leaves an account without a role that lasts.
THEOREM RolesLast == Spec => []EveryoneKeepsARole
<1>1. Init => EveryoneKeepsARole
  BY DEF Init, EveryoneKeepsARole
<1>2. QED BY <1>1, KeepsARoleStep, LocksHold, PTL DEF Spec

-----------------------------------------------------------------------------
(* The last administrator.                                                 *)

\* What a request that takes somebody's membership has read is still enough:
\* if it counted several administrators there is another one than its target,
\* and if it saw no membership the target has none.
OthersRemain ==
  \A r \in Requests :
    LET q == request[r] IN
    q.pc = "locked" /\ q.operation \in {"roles", "disable"} =>
      /\ q.administrators > 1 => \E v \in Administrators : v # q.user
      /\ "administrator" \notin q.roles /\ q.status # "none" =>
           \A g \in grants[q.user] : g.role # "administrator"

LEMMA SeveralMeansAnother ==
  ASSUME NEW u, Cardinality(Administrators) > 1
  PROVE  \E v \in Administrators : v # u
<1> SUFFICES ASSUME \A v \in Administrators : v = u PROVE FALSE
  OBVIOUS
<1>1. Administrators = {} \/ Administrators = {u}
  OBVIOUS
<1>2. Cardinality(Administrators) \in {0, 1}
  BY <1>1, FS_EmptySet, FS_Singleton
<1>3. QED BY <1>2

\* An administrator stays one unless his roles are replaced or he is disabled.
LEMMA MembershipLasts ==
  ASSUME TypeOK, Existence, Kinds, NEW v \in Administrators,
         \A r \in Requests : Replaced(r) \/ Disabled(r) => v # request[r].user
  PROVE  v \in Administrators'
<1>1. /\ v \in Users /\ status[v] = "active"
      /\ DOMAIN status = Users /\ DOMAIN grants = Users
  BY DEF Administrators, TypeOK
<1>2. PICK g \in grants[v] : g.role = "administrator"
  BY DEF Administrators
<1>3. \A r \in Requests : Created(r) => v # request[r].user
  BY <1>1 DEF Created, Exists, Existence
<1>4. status'[v] = "active"
  BY <1>1, <1>3, StatusFacts
<1>5. g \in grants'[v]
  <2>1. CASE UNCHANGED grants
    BY <1>2, <2>1
  <2>2. ASSUME NEW r \in Requests, Created(r) \/ Replaced(r), NEW S,
               grants' = [grants EXCEPT ![request[r].user] = S]
        PROVE  g \in grants'[v]
    BY <1>1, <1>2, <1>3, <2>2
  <2>3. ASSUME NEW r \in Requests, Regranted(r)
        PROVE  g \in grants'[v]
    BY <1>1, <1>2, <2>3, RegrantedRows
  <2>4. QED BY <2>1, <2>2, <2>3, GrantFacts
<1>6. QED BY <1>1, <1>2, <1>4, <1>5 DEF Administrators

\* An account without the membership gets it only with a new set of roles.
LEMMA NoMembershipLasts ==
  ASSUME TypeOK, Kinds, NEW u \in Users,
         \A g \in grants[u] : g.role # "administrator",
         \A r \in Requests : Created(r) \/ Replaced(r) => u # request[r].user
  PROVE  \A g \in grants'[u] : g.role # "administrator"
<1>1. DOMAIN grants = Users
  BY DEF TypeOK
<1>2. ASSUME NEW r \in Requests, Created(r) \/ Replaced(r), NEW S,
             grants' = [grants EXCEPT ![request[r].user] = S]
      PROVE  \A g \in grants'[u] : g.role # "administrator"
  BY <1>1, <1>2
<1>3. ASSUME NEW r \in Requests, Regranted(r)
      PROVE  \A g \in grants'[u] : g.role # "administrator"
  BY <1>1, <1>3, RegrantedRows
<1>4. QED BY <1>2, <1>3, GrantFacts

LEMMA OthersRemainStep ==
  TypeOK /\ HoldsLocks /\ Existence /\ OthersRemain /\ [Next]_vars => OthersRemain'
<1> SUFFICES ASSUME TypeOK, HoldsLocks, Existence, OthersRemain, Kinds,
                    NEW x \in Requests, request'[x].pc = "locked",
                    request'[x].operation \in {"roles", "disable"}
             PROVE  LET q == request'[x] IN
                    /\ q.administrators > 1 => \E v \in Administrators' : v # q.user
                    /\ "administrator" \notin q.roles /\ q.status # "none" =>
                         \A g \in grants'[q.user] : g.role # "administrator"
  BY StepKinds DEF OthersRemain
<1> DEFINE q == request'[x]
<1>1. CASE request'[x] = request[x]
  <2>1. /\ q.user \in Users /\ request[x].pc = "locked"
        /\ request[x].operation \in {"roles", "disable"}
    BY <1>1, UserOf
  <2>2. \A r \in Requests : ~ Replaced(r) /\ ~ Disabled(r)
    <3>1. SUFFICES ASSUME NEW r \in Requests, Replaced(r) \/ Disabled(r) PROVE FALSE
      OBVIOUS
    <3>2. /\ request[r].pc = "locked" /\ request[r].operation \in {"roles", "disable"}
          /\ Close(r)
      BY <3>1 DEF Replaced, Disabled, Commits
    <3>3. request[r].user \in Users
      BY <3>2, UserOf
    <3>4. r = x
      BY <2>1, <3>2, <3>3, LockNames, OneHolder, UserOf DEF Operations
    <3>5. request'[x] = Idle
      BY <3>2, <3>4, CloseFacts
    <3>6. QED BY <3>5 DEF Idle
  <2>3. q.status # "none" => \A r \in Requests : Created(r) => q.user # request[r].user
    BY <1>1, <2>1 DEF Created, Exists, Existence
  <2>4. q.administrators > 1 => \E v \in Administrators' : v # q.user
    <3>1. SUFFICES ASSUME NEW v \in Administrators, v # q.user PROVE v \in Administrators'
      BY <1>1, <2>1 DEF OthersRemain
    <3>2. QED BY <2>2, <3>1, MembershipLasts
  <2>5. "administrator" \notin q.roles /\ q.status # "none" =>
          \A g \in grants'[q.user] : g.role # "administrator"
    BY <1>1, <2>1, <2>2, <2>3, NoMembershipLasts DEF OthersRemain
  <2>6. QED BY <2>4, <2>5
<1>2. CASE Enter(x)
  <2>1. /\ request[x] \in Waiting /\ q.user = request[x].user
        /\ q.roles = Effective(q.user, now)
        /\ q.administrators = Cardinality(Administrators)
        /\ UNCHANGED <<status, grants>>
    BY <1>2, EnterFacts
  <2>2. Administrators' = Administrators
    BY <2>1 DEF Administrators
  <2>3. q.administrators > 1 => \E v \in Administrators' : v # q.user
    BY <2>1, <2>2, SeveralMeansAnother
  <2>4. \A g \in grants[q.user] : g.role = "administrator" => g.until = Never
    BY <2>1 DEF TypeOK, Waiting
  <2>5. "administrator" \notin q.roles => \A g \in grants'[q.user] : g.role # "administrator"
    BY <2>1, <2>4 DEF Effective
  <2>6. QED BY <2>3, <2>5
<1>3. ASSUME NEW r \in Requests, Close(r) PROVE request'[x] = request[x]
  <2>1. Idle.pc # "locked"
    BY DEF Idle
  <2>2. QED BY <1>3, <2>1, CloseFacts
<1>4. ASSUME NEW r \in Requests, Opened(r) PROVE request'[x] = request[x]
  BY <1>4, OpenFacts
<1>5. ASSUME NEW r \in Requests, Enter(r), r # x PROVE request'[x] = request[x]
  BY <1>5, EnterFacts
<1>6. CASE Passed
  BY <1>1, <1>6 DEF Passed
<1>7. QED BY <1>1, <1>2, <1>3, <1>4, <1>5, <1>6, KindCloses DEF Kinds

LEMMA AdministratorStep ==
  ASSUME TypeOK, Existence, OthersRemain, Kinds, NEW w \in Administrators
  PROVE  Administrators' # {}
<1>1. CASE \A r \in Requests : Replaced(r) \/ Disabled(r) => w # request[r].user
  BY <1>1, MembershipLasts
<1>2. ASSUME NEW r \in Requests, Replaced(r) \/ Disabled(r), w = request[r].user
      PROVE  Administrators' # {}
  <2>1. /\ request[r] \in Locked /\ request[r].pc = "locked" /\ request[r].status # "none"
        /\ request[r].operation \in {"roles", "disable"}
        /\ Close(r)
    BY <1>2, RequestTypes DEF Replaced, Disabled, Commits, Exists
  <2>2. /\ w \in Users /\ status[w] = "active"
        /\ \E g \in grants[w] : g.role = "administrator"
        /\ DOMAIN grants = Users
    BY DEF Administrators, TypeOK
  <2>3. "administrator" \in request[r].roles
    BY <1>2, <2>1, <2>2 DEF OthersRemain
  <2>4. CASE LastAdministrator(request[r])
    <3>1. PICK roles \in (SUBSET Role) \ {{}}, until \in Nat :
            /\ ValidLifetime(roles, until, now) /\ ReplaceRoles(w, roles, until)
            /\ "administrator" \in roles /\ UNCHANGED status
      BY <1>2, <2>4 DEF Replaced, Disabled
    <3>2. \E g \in grants'[w] : g.role = "administrator"
      BY <2>2, <3>1, GrantedRows DEF ReplaceRoles
    <3>3. w \in Administrators'
      BY <2>2, <3>1, <3>2 DEF Administrators
    <3>4. QED BY <3>3
  <2>5. CASE ~ LastAdministrator(request[r])
    <3>1. request[r].administrators > 1
      BY <2>1, <2>3, <2>5 DEF LastAdministrator, Locked
    <3>2. PICK v \in Administrators : v # w
      BY <1>2, <2>1, <3>1 DEF OthersRemain
    <3>3. \A x \in Requests : Replaced(x) \/ Disabled(x) => v # request[x].user
      <4>1. SUFFICES ASSUME NEW x \in Requests, Replaced(x) \/ Disabled(x) PROVE x = r
        BY <1>2, <3>2
      <4>2. Close(x) /\ request[x].pc = "locked"
        BY <4>1 DEF Replaced, Disabled, Commits
      <4>3. CASE x # r
        <5>1. request'[x] = Idle /\ request'[x] = request[x]
          BY <2>1, <4>2, <4>3, CloseFacts
        <5>2. QED BY <4>2, <5>1 DEF Idle
      <4>4. QED BY <4>3
    <3>4. QED BY <3>2, <3>3, MembershipLasts
  <2>6. QED BY <2>4, <2>5
<1>3. QED BY <1>1, <1>2

\* Whatever administrators do to each other at the same time, no step takes the
\* last active one: what a request has counted still holds when it commits,
\* since all that take a membership hold its lock.
THEOREM TheLastStays == Spec => AnAdministratorRemains
<1>1. Init => OthersRemain
  BY DEF Init, OthersRemain, Idle
<1>2. Spec => []OthersRemain
  BY <1>1, OthersRemainStep, LocksHold, PTL DEF Spec
<1>3. TypeOK /\ Existence /\ OthersRemain /\ [Next]_vars
        => [Administrators # {} => Administrators' # {}]_vars
  BY AdministratorStep, StepKinds
<1>4. QED BY <1>2, <1>3, LocksHold, PTL DEF Spec, AnAdministratorRemains

-----------------------------------------------------------------------------
(* The throttle: how far a counter can pass the limit.  A failure is added *)
(* to a window that is still open at the time its request began, and       *)
(* blocks from that time on.  A late one ends its block by the time of a   *)
(* request too early: a second round of requests is then admitted while    *)
(* the window is open.  All of their failures come so late in the window   *)
(* that each blocks until it is over, and there is no third round.         *)

\* The requests in flight whose failure would be added to the window of k.
Counting(k) ==
  {r \in Requests : /\ request[r].pc # "idle" /\ k \in request[r].keys
                    /\ request[r].at < throttle[k].since + Window}

InTime == \A r \in Requests : request[r].pc # "idle" =>
  request[r].at <= now /\ now <= request[r].at + RequestTime

Started == \A k \in Keys : throttle[k].since <= now

\* The first round: what can still be added stays within the requests there
\* are, and the block ends at most by the time of a request too early.
FirstRound(row, flight) ==
  /\ row.count + flight <= FailureLimit - 1 + Cardinality(Requests)
  /\ row.since + Window <= row.until + RequestTime

\* The second: the window is nearly over, and the block covers the rest of it
\* as soon as one failure of this round is counted.
SecondRound(row, flight) ==
  /\ row.since + Window <= now + RequestTime
  /\ \/ row.count <= FailureLimit - 1 + Cardinality(Requests)
     \/ /\ row.since + Window <= row.until
        /\ row.count + flight <= FailureLimit - 1 + 2 * Cardinality(Requests)

Paced(row, flight) ==
  row.count >= FailureLimit => FirstRound(row, flight) \/ SecondRound(row, flight)

Limited == \A k \in Keys : Paced(throttle[k], Cardinality(Counting(k)))

ThrottleInv == TypeOK /\ InTime /\ Started /\ Limited

\* What a step does to the throttle and to the requests in flight.
Admitted(r) ==
  /\ request[r] = Idle /\ request'[r].at = now /\ request'[r].pc # "idle"
  /\ \A k \in request'[r].keys : throttle[k].until <= now
  /\ \A x \in Requests \ {r} : request'[x] = request[x]
  /\ UNCHANGED <<throttle, now>>

Entered(r) ==
  /\ request[r].pc # "idle" /\ request'[r].pc # "idle"
  /\ request'[r].keys = request[r].keys /\ request'[r].at = request[r].at
  /\ \A x \in Requests \ {r} : request'[x] = request[x]
  /\ UNCHANGED <<throttle, now>>

Failed(r) ==
  /\ request[r].pc # "idle"
  /\ RegisterFailure(request[r].keys, request[r].at) /\ Close(r)

Cleared(r) ==
  /\ Close(r)
  /\ UNCHANGED throttle \/ ClearFailures(request[r].keys)

Ticked ==
  /\ now' = now + 1
  /\ \A r \in Requests : request[r].pc # "idle" => now - request[r].at < RequestTime
  /\ UNCHANGED <<throttle, request>>

ThrottleKinds ==
  \/ \E r \in Requests : Admitted(r) \/ Entered(r) \/ Failed(r) \/ Cleared(r)
  \/ Ticked
  \/ UNCHANGED <<throttle, request, now>>

LEMMA AdmittedKinds ==
  ASSUME TypeOK, NEW r \in Requests, NEW u \in Users,
         \/ StartBootstrap(r, u)
         \/ \E c \in Clients :
              \/ \E known \in BOOLEAN : StartLogin(r, u, c, known)
              \/ StartRegistration(r, u, c)
         \/ \E s \in DOMAIN sessions, operation \in AdministrativeOperations :
              StartAdministration(r, s, operation, u)
  PROVE  Admitted(r)
<1>1. \A keys \in SUBSET Keys : ~ IsBlocked(keys) => \A k \in keys : throttle[k].until <= now
  BY DEF IsBlocked, TypeOK
<1>2. ASSUME NEW what, request[r] = Idle, request' = [request EXCEPT ![r] = what],
             what.pc # "idle", what.at = now, UNCHANGED <<throttle, now>>,
             \A k \in what.keys : throttle[k].until <= now
      PROVE  Admitted(r)
  BY <1>2 DEF Admitted, TypeOK
<1>3. CASE StartBootstrap(r, u)
  <2> DEFINE what == [pc |-> "waiting", operation |-> "bootstrap", user |-> u,
                      own |-> FALSE, keys |-> {}, at |-> now]
  <2>1. request[r] = Idle /\ request' = [request EXCEPT ![r] = what]
        /\ UNCHANGED <<throttle, now>>
    BY <1>3 DEF StartBootstrap, Open
  <2>2. what.pc # "idle" /\ what.at = now /\ what.keys = {}
    OBVIOUS
  <2> HIDE DEF what
  <2>3. QED BY <1>2, <2>1, <2>2
<1>4. ASSUME NEW c \in Clients, NEW known \in BOOLEAN, StartLogin(r, u, c, known)
      PROVE  Admitted(r)
  <2> DEFINE what == [pc |-> IF known /\ status[u] = "active" THEN "accepted" ELSE "rejected",
                      user |-> u, keys |-> LoginKeys(u, c),
                      rows |-> {k \in LoginKeys(u, c) : throttle[k] # NoRow},
                      hash |-> password[u], at |-> now]
  <2>1. request[r] = Idle /\ request' = [request EXCEPT ![r] = what]
        /\ UNCHANGED <<throttle, now>> /\ ~ IsBlocked(LoginKeys(u, c))
    BY <1>4 DEF StartLogin, Open
  <2>2. what.pc # "idle" /\ what.at = now /\ what.keys = LoginKeys(u, c)
    OBVIOUS
  <2> HIDE DEF what
  <2>3. \A k \in what.keys : throttle[k].until <= now
    BY <1>1, <2>1, <2>2, KeysAreKeys
  <2>4. QED BY <1>2, <2>1, <2>2, <2>3
<1>5. ASSUME NEW c \in Clients, StartRegistration(r, u, c)
      PROVE  Admitted(r)
  <2> DEFINE what == [pc |-> "waiting", operation |-> "register", user |-> u,
                      own |-> FALSE, keys |-> RegistrationKeys(c), at |-> now]
  <2>1. request[r] = Idle /\ request' = [request EXCEPT ![r] = what]
        /\ UNCHANGED <<throttle, now>> /\ ~ IsBlocked(RegistrationKeys(c))
    BY <1>5 DEF StartRegistration, Open
  <2>2. what.pc # "idle" /\ what.at = now /\ what.keys = RegistrationKeys(c)
    OBVIOUS
  <2> HIDE DEF what
  <2>3. \A k \in what.keys : throttle[k].until <= now
    BY <1>1, <2>1, <2>2, KeysAreKeys
  <2>4. QED BY <1>2, <2>1, <2>2, <2>3
<1>6. ASSUME NEW s \in DOMAIN sessions, NEW operation \in AdministrativeOperations,
             StartAdministration(r, s, operation, u)
      PROVE  Admitted(r)
  <2> DEFINE what == [pc |-> "waiting", operation |-> operation, user |-> u,
                      own |-> sessions[s].user = u, keys |-> {}, at |-> now]
  <2>1. request[r] = Idle /\ request' = [request EXCEPT ![r] = what]
        /\ UNCHANGED <<throttle, now>>
    BY <1>6 DEF StartAdministration, Open
  <2>2. what.pc # "idle" /\ what.at = now /\ what.keys = {}
    OBVIOUS
  <2> HIDE DEF what
  <2>3. QED BY <1>2, <2>1, <2>2
<1>7. QED BY <1>3, <1>4, <1>5, <1>6

LEMMA StepThrottles == TypeOK /\ [Next]_vars => ThrottleKinds
<1> SUFFICES ASSUME TypeOK, [Next]_vars PROVE ThrottleKinds
  OBVIOUS
<1>1. ASSUME NEW r \in Requests, Enter(r) PROVE Entered(r)
  <2> DEFINE q == request[r]
             new == [pc |-> "locked", operation |-> q.operation, user |-> q.user,
                     keys |-> q.keys, at |-> q.at,
                     status |-> IF q.own THEN "active" ELSE status[q.user],
                     roles |-> Effective(q.user, now),
                     administrators |-> Cardinality(Administrators)]
  <2>1. request' = [request EXCEPT ![r] = new] /\ q.pc = "waiting"
        /\ UNCHANGED <<throttle, now>>
    BY <1>1 DEF Enter
  <2>2. new.pc = "locked" /\ new.keys = q.keys /\ new.at = q.at
    OBVIOUS
  <2> HIDE DEF new
  <2>3. QED BY <2>1, <2>2 DEF Entered, TypeOK
<1>2. ASSUME NEW r \in Requests, RejectLogin(r) \/ Register(r) PROVE Failed(r)
  BY <1>2 DEF RejectLogin, Register, Commits, Failed
<1>3. ASSUME NEW r \in Requests,
             \/ LoseThrottleRow(r)
             \/ \E lifetime \in {SessionTTL, RememberedTTL} : AcceptLogin(r, lifetime)
             \/ Bootstrap(r) \/ CreateAdministrator(r) \/ ResetPassword(r)
             \/ RevokeEditor(r) \/ DisableUser(r)
             \/ \E until \in Expiries :
                  \/ GrantEditor(r, until)
                  \/ \E roles \in RoleChoices :
                       CreateUser(r, roles, until) \/ SetRoles(r, roles, until)
      PROVE  Cleared(r)
  BY <1>3 DEF LoseThrottleRow, AcceptLogin, Bootstrap, CreateAdministrator, ResetPassword,
              RevokeEditor, DisableUser, GrantEditor, CreateUser, SetRoles, Cleared
<1>4. ASSUME NEW s \in DOMAIN sessions, Logout(s) PROVE UNCHANGED <<throttle, request, now>>
  BY <1>4 DEF Logout
<1>5. CASE Tick
  BY <1>5 DEF Tick, Ticked, ThrottleKinds
<1>6. CASE UNCHANGED vars
  BY <1>6 DEF vars, ThrottleKinds
<1>7. QED BY <1>1, <1>2, <1>3, <1>4, <1>5, <1>6, AdmittedKinds DEF Next, ThrottleKinds

LEMMA Settings ==
  /\ FailureLimit \in Nat /\ FailureLimit >= 1
  /\ Window \in Nat /\ BlockTime \in Nat /\ RequestTime \in Nat
BY AccountsAssumption

\* Sets of requests are finite and no larger than all of them.
LEMMA Few ==
  ASSUME NEW S \in SUBSET Requests
  PROVE  /\ IsFiniteSet(S) /\ Cardinality(S) \in Nat
         /\ Cardinality(Requests) \in Nat /\ Cardinality(S) <= Cardinality(Requests)
BY AccountsAssumption, FS_Subset, FS_CardinalityType

LEMMA OneLess ==
  ASSUME NEW S \in SUBSET Requests, NEW r \in S, NEW T \in SUBSET (S \ {r})
  PROVE  Cardinality(T) + 1 <= Cardinality(S) /\ Cardinality(T) \in Nat
<1>1. IsFiniteSet(S) /\ Cardinality(S) \in Nat
  BY Few
<1>2. Cardinality(S \ {r}) = Cardinality(S) - 1 /\ IsFiniteSet(S \ {r})
  BY <1>1, FS_RemoveElement
<1>3. Cardinality(T) <= Cardinality(S \ {r}) /\ Cardinality(T) \in Nat
  BY <1>2, FS_Subset, FS_CardinalityType
<1>4. QED BY <1>1, <1>2, <1>3

LEMMA NoMore ==
  ASSUME NEW S \in SUBSET Requests, NEW T \in SUBSET S
  PROVE  /\ Cardinality(T) <= Cardinality(S)
         /\ Cardinality(T) \in Nat /\ Cardinality(S) \in Nat
BY Few, FS_Subset, FS_CardinalityType

\* A row with one failure more.
LEMMA CountedRow ==
  ASSUME NEW row \in [count : Nat, since : Nat, until : Nat], NEW t \in Nat
  PROVE  /\ \/ /\ Counted(row, t).count = 1 /\ Counted(row, t).since = t
            \/ /\ Counted(row, t).count = row.count + 1
               /\ Counted(row, t).since = row.since /\ t < row.since + Window
         /\ Counted(row, t).count >= FailureLimit => Counted(row, t).until = t + BlockTime
<1>1. BlockTime \in Nat /\ Window \in Nat /\ FailureLimit \in Nat
  BY Settings
<1>2. CASE row = NoRow \/ row.since + Window <= t
  BY <1>1, <1>2 DEF Counted
<1>3. CASE ~ (row = NoRow \/ row.since + Window <= t)
  <2>1. t < row.since + Window
    BY <1>1, <1>3
  <2>2. Counted(row, t) = [count |-> row.count + 1, since |-> row.since,
          until |-> IF row.count + 1 >= FailureLimit THEN t + BlockTime ELSE row.until]
    BY <1>3 DEF Counted
  <2>3. QED BY <2>1, <2>2
<1>4. QED BY <1>2, <1>3

LEMMA RowTypes ==
  ASSUME TypeOK, NEW k \in Keys
  PROVE  /\ throttle[k] \in [count : Nat, since : Nat, until : Nat]
         /\ throttle[k].count \in Nat /\ throttle[k].since \in Nat
         /\ throttle[k].until \in Nat /\ now \in Nat
         /\ Counting(k) \subseteq Requests
BY DEF TypeOK, Counting

LEMMA TimeTypes ==
  ASSUME TypeOK, NEW r \in Requests, request[r].pc # "idle"
  PROVE  request[r].at \in Nat /\ request[r].keys \subseteq Keys
BY RequestTypes DEF Pending, Waiting, Locked

LEMMA InTimeStep ==
  ASSUME TypeOK, TypeOK', InTime, ThrottleKinds
  PROVE  InTime'
<1>1. now \in Nat /\ now' \in Nat /\ RequestTime \in Nat
  BY Settings DEF TypeOK
<1>2. ASSUME NEW r \in Requests, Admitted(r) PROVE InTime'
  BY <1>1, <1>2 DEF Admitted, InTime
<1>3. ASSUME NEW r \in Requests, Entered(r) PROVE InTime'
  BY <1>3 DEF Entered, InTime
<1>4. ASSUME NEW r \in Requests, Failed(r) \/ Cleared(r) PROVE InTime'
  <2>1. Close(r)
    BY <1>4 DEF Failed, Cleared
  <2>2. QED BY <2>1, CloseFacts DEF InTime, Idle
<1>5. CASE Ticked
  <2>1. ASSUME NEW r \in Requests, request[r].pc # "idle"
        PROVE  request[r].at <= now' /\ now' <= request[r].at + RequestTime
    <3>1. request[r].at \in Nat
      BY <2>1, TimeTypes
    <3>2. request[r].at <= now /\ now - request[r].at < RequestTime /\ now' = now + 1
      BY <1>5, <2>1 DEF Ticked, InTime
    <3>3. QED BY <1>1, <3>1, <3>2
  <2>2. QED BY <1>5, <2>1 DEF Ticked, InTime
<1>6. CASE UNCHANGED <<throttle, request, now>>
  BY <1>6 DEF InTime
<1>7. QED BY <1>2, <1>3, <1>4, <1>5, <1>6 DEF ThrottleKinds

\* What a step leaves of the requests whose failure would be added: none is
\* new unless it is admitted, and the one that ends is gone.
LEMMA CountingCloses ==
  ASSUME TypeOK, NEW r \in Requests, Close(r), NEW k \in Keys,
         throttle'[k].since = throttle[k].since
  PROVE  Counting(k)' \subseteq Counting(k) \ {r}
BY CloseFacts DEF Counting, Idle

\* What need not be argued again: with fewer requests in flight, and later, a
\* row stays within its round.
LEMMA StaysPaced ==
  ASSUME NEW row \in [count : Nat, since : Nat, until : Nat],
         NEW flight \in Nat, NEW fewer \in Nat, fewer <= flight,
         now \in Nat, now' \in Nat, now <= now', Paced(row, flight)
  PROVE  /\ row.count >= FailureLimit =>
              \/ FirstRound(row, fewer)
              \/ /\ row.since + Window <= now' + RequestTime
                 /\ \/ row.count <= FailureLimit - 1 + Cardinality(Requests)
                    \/ /\ row.since + Window <= row.until
                       /\ row.count + fewer
                            <= FailureLimit - 1 + 2 * Cardinality(Requests)
<1>1. /\ FailureLimit \in Nat /\ Window \in Nat /\ RequestTime \in Nat
      /\ Cardinality(Requests) \in Nat
  BY Settings, Few
<1>2. row.count \in Nat /\ row.since \in Nat /\ row.until \in Nat
  OBVIOUS
<1>3. QED BY <1>1, <1>2 DEF Paced, FirstRound, SecondRound

LEMMA SameRow ==
  ASSUME TypeOK, TypeOK', Limited, now <= now', NEW k \in Keys,
         throttle'[k] = throttle[k], Counting(k)' \subseteq Counting(k)
  PROVE  Paced(throttle[k], Cardinality(Counting(k)))'
<1>1. /\ Cardinality(Counting(k)') <= Cardinality(Counting(k))
      /\ Cardinality(Counting(k)') \in Nat /\ Cardinality(Counting(k)) \in Nat
  BY NoMore, RowTypes
<1>2. /\ throttle[k] \in [count : Nat, since : Nat, until : Nat]
      /\ now \in Nat /\ now' \in Nat
  BY RowTypes DEF TypeOK
<1>3. Paced(throttle[k], Cardinality(Counting(k)))
  BY DEF Limited
<1>4. QED BY <1>1, <1>2, <1>3, StaysPaced DEF Paced, FirstRound, SecondRound

\* A failure begun at t, at most the time of a request ago, added to a row.
LEMMA OneMoreIsPaced ==
  ASSUME BlockTime >= Window, BlockTime >= 2 * RequestTime,
         NEW row \in [count : Nat, since : Nat, until : Nat],
         NEW new \in [count : Nat, since : Nat, until : Nat],
         NEW t \in Nat, now \in Nat, t <= now, now <= t + RequestTime,
         row.since <= now, new.count = row.count + 1, new.since = row.since,
         new.count >= FailureLimit => new.until = t + BlockTime,
         NEW flight \in Nat, NEW rest \in Nat, rest + 1 <= flight,
         flight <= Cardinality(Requests), Paced(row, flight)
  PROVE  Paced(new, rest)
<1>1. /\ FailureLimit \in Nat /\ Window \in Nat /\ BlockTime \in Nat
      /\ RequestTime \in Nat /\ Cardinality(Requests) \in Nat
  BY Settings, Few
<1>2. /\ row.count \in Nat /\ row.since \in Nat /\ row.until \in Nat
      /\ new.count \in Nat /\ new.since \in Nat /\ new.until \in Nat
  OBVIOUS
<1>3. CASE new.count < FailureLimit
  BY <1>1, <1>2, <1>3 DEF Paced
<1>4. CASE new.count >= FailureLimit /\ row.count < FailureLimit
  BY <1>1, <1>2, <1>4 DEF Paced, FirstRound
<1>5. CASE row.count >= FailureLimit /\ FirstRound(row, flight)
  BY <1>1, <1>2, <1>5 DEF Paced, FirstRound
<1>6. CASE row.count >= FailureLimit /\ SecondRound(row, flight)
  <2>1. new.until >= row.since + Window
    BY <1>1, <1>2, <1>6 DEF SecondRound
  <2>2. new.count + rest <= FailureLimit - 1 + 2 * Cardinality(Requests)
    BY <1>1, <1>2, <1>6 DEF SecondRound
  <2>3. QED BY <1>1, <1>2, <1>6, <2>1, <2>2 DEF Paced, SecondRound
<1>7. QED BY <1>1, <1>2, <1>3, <1>4, <1>5, <1>6 DEF Paced

LEMMA FailedStep ==
  ASSUME TypeOK, TypeOK', InTime, Started, Limited, BlockTime >= Window,
         BlockTime >= 2 * RequestTime, NEW r \in Requests, Failed(r)
  PROVE  Started' /\ Limited'
<1> DEFINE t == request[r].at
<1>1. /\ Close(r) /\ request[r].pc # "idle" /\ now' = now
      /\ t \in Nat /\ t <= now /\ now <= t + RequestTime
  BY TimeTypes, CloseFacts DEF Failed, InTime
<1>2. \A k \in Keys : throttle'[k] = IF k \in request[r].keys
                                     THEN Counted(throttle[k], t) ELSE throttle[k]
  BY DEF Failed, RegisterFailure
<1> HIDE DEF t
<1>3. ASSUME NEW k \in Keys
      PROVE  /\ throttle'[k].since <= now
             /\ Paced(throttle[k], Cardinality(Counting(k)))'
  <2>1. throttle[k].since <= now /\ Paced(throttle[k], Cardinality(Counting(k)))
    BY DEF Started, Limited
  <2>2. CASE k \notin request[r].keys
    <3>1. throttle'[k] = throttle[k]
      BY <1>2, <2>2
    <3>2. Counting(k)' \subseteq Counting(k)
      BY <1>1, <3>1, CountingCloses
    <3>3. now <= now'
      BY <1>1, RowTypes
    <3>4. QED BY <2>1, <3>1, <3>2, <3>3, SameRow
  <2>3. CASE k \in request[r].keys
    <3> DEFINE row == throttle[k]
               new == Counted(row, t)
    <3>1. /\ \/ new.count = 1 /\ new.since = t
             \/ new.count = row.count + 1 /\ new.since = row.since /\ t < row.since + Window
          /\ new.count >= FailureLimit => new.until = t + BlockTime
      BY <1>1, CountedRow, RowTypes
    <3>2. throttle'[k] = new
      BY <1>2, <2>3
    <3>3. /\ row \in [count : Nat, since : Nat, until : Nat]
          /\ new \in [count : Nat, since : Nat, until : Nat] /\ now \in Nat
      BY <1>1, CountedType, RowTypes
    <3> HIDE DEF new
    <3>4. CASE new.count = 1 /\ new.since = t
      <4>1. Counting(k)' \subseteq Requests \ {r}
        BY <1>1, CloseFacts DEF Counting, Idle
      <4>2. /\ Cardinality(Counting(k)') + 1 <= Cardinality(Requests)
            /\ Cardinality(Counting(k)') \in Nat /\ Cardinality(Requests) \in Nat
        BY <4>1, OneLess, Few
      <4>3. Paced(new, Cardinality(Counting(k)'))
        BY <1>1, <3>1, <3>4, <4>2, Settings DEF Paced, FirstRound
      <4>4. QED BY <1>1, <3>2, <3>4, <4>3 DEF Paced, FirstRound, SecondRound
    <3>5. CASE new.count = row.count + 1 /\ new.since = row.since /\ t < row.since + Window
      <4>1. r \in Counting(k)
        BY <1>1, <2>3, <3>5 DEF Counting, t
      <4>2. Counting(k)' \subseteq Counting(k) \ {r}
        BY <1>1, <3>2, <3>5, CountingCloses
      <4>3. /\ Cardinality(Counting(k)') + 1 <= Cardinality(Counting(k))
            /\ Cardinality(Counting(k)') \in Nat
            /\ Cardinality(Counting(k)) \in Nat
            /\ Cardinality(Counting(k)) <= Cardinality(Requests)
        BY <4>1, <4>2, OneLess, Few, RowTypes
      <4>4. Paced(new, Cardinality(Counting(k)'))
        BY <1>1, <2>1, <3>1, <3>3, <3>5, <4>3, OneMoreIsPaced
      <4>5. QED BY <1>1, <2>1, <3>2, <3>5, <4>4 DEF Paced, FirstRound, SecondRound
    <3>6. QED BY <3>1, <3>4, <3>5
  <2>4. QED BY <2>2, <2>3
<1>4. QED BY <1>1, <1>3 DEF Started, Limited

LEMMA ClearedStep ==
  ASSUME TypeOK, TypeOK', Started, Limited, NEW r \in Requests, Cleared(r)
  PROVE  Started' /\ Limited'
<1>1. Close(r) /\ now' = now /\ now <= now'
  BY CloseFacts DEF Cleared, TypeOK
<1>2. ASSUME NEW k \in Keys
      PROVE  /\ throttle'[k].since <= now
             /\ Paced(throttle[k], Cardinality(Counting(k)))'
  <2>1. CASE throttle'[k] = throttle[k]
    <3>1. Counting(k)' \subseteq Counting(k)
      BY <1>1, <2>1, CountingCloses
    <3>2. QED BY <1>1, <2>1, <3>1, SameRow DEF Started
  <2>2. CASE throttle'[k] = NoRow
    <3>1. throttle'[k].count = 0 /\ throttle'[k].since = 0
      BY <2>2 DEF NoRow
    <3>2. QED BY <3>1, Settings, RowTypes DEF Paced
  <2>3. QED BY <2>1, <2>2 DEF Cleared, ClearFailures
<1>3. QED BY <1>1, <1>2 DEF Started, Limited

\* A request is admitted when its keys are not blocked.  In the first round of
\* a window it opens the second; in the second the window is over by then.
LEMMA AdmittedStep ==
  ASSUME TypeOK, TypeOK', Started, Limited, NEW r \in Requests, Admitted(r)
  PROVE  Started' /\ Limited'
<1>1. throttle' = throttle /\ now' = now /\ now <= now'
  BY DEF Admitted, TypeOK
<1>2. ASSUME NEW k \in Keys
      PROVE  Paced(throttle[k], Cardinality(Counting(k)))'
  <2> DEFINE row == throttle[k]
  <2>1. /\ row.count \in Nat /\ row.since \in Nat
        /\ row.until \in Nat /\ now \in Nat
    BY RowTypes
  <2>2. CASE r \notin Counting(k)'
    <3>1. Counting(k)' \subseteq Counting(k)
      BY <2>2 DEF Counting, Admitted
    <3>2. QED BY <1>1, <3>1, SameRow
  <2>3. CASE r \in Counting(k)'
    <3>1. /\ row.until <= now /\ now < row.since + Window
      BY <2>3 DEF Counting, Admitted
    <3>2. Paced(row, Cardinality(Counting(k))) /\ Cardinality(Counting(k)) \in Nat
          /\ Cardinality(Requests) \in Nat
      BY Few, RowTypes DEF Limited
    <3> HIDE DEF row
    <3>3. row.count >= FailureLimit =>
            /\ row.since + Window <= now + RequestTime
            /\ row.count <= FailureLimit - 1 + Cardinality(Requests)
      BY <2>1, <3>1, <3>2, Settings DEF Paced, FirstRound, SecondRound
    <3>4. QED BY <1>1, <3>3 DEF Paced, SecondRound, row
  <2>4. QED BY <2>2, <2>3
<1>3. QED BY <1>1, <1>2 DEF Started, Limited

LEMMA ThrottleStep ==
  ASSUME BlockTime >= Window, BlockTime >= 2 * RequestTime, ThrottleInv, [Next]_vars
  PROVE  ThrottleInv'
<1>1. TypeOK /\ TypeOK' /\ InTime /\ Started /\ Limited /\ ThrottleKinds
  BY TypeStep, StepThrottles DEF ThrottleInv
<1>2. InTime'
  BY <1>1, InTimeStep
<1>3. ASSUME /\ UNCHANGED throttle /\ now <= now'
             /\ \A k \in Keys : Counting(k)' = Counting(k)
      PROVE  Started' /\ Limited'
  <2>1. ASSUME NEW k \in Keys
        PROVE  throttle'[k].since <= now' /\ Paced(throttle[k], Cardinality(Counting(k)))'
    <3>1. throttle[k].since <= now /\ throttle[k].since \in Nat
          /\ now \in Nat /\ now' \in Nat
      BY <1>1, RowTypes DEF Started, TypeOK
    <3>2. QED BY <1>1, <1>3, <3>1, SameRow
  <2>2. QED BY <2>1 DEF Started, Limited
<1>4. ASSUME NEW r \in Requests, Entered(r) PROVE Started' /\ Limited'
  <2>1. \A k \in Keys : Counting(k)' = Counting(k)
    BY <1>4 DEF Entered, Counting
  <2>2. UNCHANGED throttle /\ now <= now'
    BY <1>1, <1>4 DEF Entered, TypeOK
  <2>3. QED BY <1>3, <2>1, <2>2
<1>5. ASSUME Ticked \/ UNCHANGED <<throttle, request, now>>
      PROVE  Started' /\ Limited'
  <2>1. \A k \in Keys : Counting(k)' = Counting(k)
    BY <1>5 DEF Ticked, Counting
  <2>2. UNCHANGED throttle /\ now <= now'
    BY <1>1, <1>5 DEF Ticked, TypeOK
  <2>3. QED BY <1>3, <2>1, <2>2
<1>6. Started' /\ Limited'
  BY <1>1, <1>4, <1>5, AdmittedStep, FailedStep, ClearedStep DEF ThrottleKinds
<1>7. QED BY <1>1, <1>2, <1>6 DEF ThrottleInv

LEMMA ThrottleInit == Init => ThrottleInv
<1> SUFFICES ASSUME Init PROVE ThrottleInv
  OBVIOUS
<1>1. TypeOK
  BY TypeInit
<1>2. /\ \A r \in Requests : request[r].pc = "idle"
      /\ \A k \in Keys : throttle[k].count = 0 /\ throttle[k].since = 0
      /\ now = 1
  BY DEF Init, Idle, NoRow
<1>3. Started /\ Limited
  BY <1>2, Settings DEF Started, Limited, Paced
<1>4. QED BY <1>1, <1>2, <1>3 DEF ThrottleInv, InTime

\* With a block as long as the window and as two requests can take, as the
\* settings are shipped, a counter passes its limit by at most two rounds of
\* the requests in flight: those admitted before the first block, and those
\* admitted at the end of a block that began before the last of them was counted.
THEOREM FailuresAreBounded == Spec => []FailuresStayBounded
<1>1. CASE BlockTime >= Window /\ BlockTime >= 2 * RequestTime
  <2>1. ThrottleInv /\ [Next]_vars => ThrottleInv'
    BY <1>1, ThrottleStep
  <2>2. ThrottleInv => FailuresStayBounded
    <3> SUFFICES ASSUME ThrottleInv, NEW k \in Keys
                 PROVE  throttle[k].count <= FailureLimit - 1 + 2 * Cardinality(Requests)
      BY DEF FailuresStayBounded
    <3>1. /\ throttle[k].count \in Nat /\ Cardinality(Counting(k)) \in Nat
          /\ Cardinality(Requests) \in Nat
          /\ Paced(throttle[k], Cardinality(Counting(k)))
      BY RowTypes, Few DEF ThrottleInv, Limited
    <3>2. QED BY <3>1, Settings DEF Paced, FirstRound, SecondRound
  <2>3. QED BY <2>1, <2>2, ThrottleInit, PTL DEF Spec
<1>2. CASE ~ (BlockTime >= Window /\ BlockTime >= 2 * RequestTime)
  <2>1. FailuresStayBounded
    BY <1>2 DEF FailuresStayBounded
  <2>2. QED BY <2>1, PTL
<1>3. QED BY <1>1, <1>2

-----------------------------------------------------------------------------
(* Sessions: what a login has verified, and when, against the changes of   *)
(* its account.                                                            *)

\* Only an account made with older parameters has such a hash, of its first
\* secret: every other secret is hashed with the parameters of today.
FirstHash(u, hash) == ~ hash.modern => hash.secret = 1 /\ u \in Outdated

AccountsInv == \A u \in Users :
  /\ changed[u].at <= now /\ changed[u].sessions <= Len(sessions)
  /\ status[u] # "none" => password[u].secret >= 1
  /\ FirstHash(u, password[u])

\* A login that was let in after the last change knows the secret of now.
Verified(u, at, secret) ==
  at > changed[u].at /\ u \notin Outdated => secret = password[u].secret

LoginsInv == \A r \in Requests : request[r].pc = "accepted" =>
  LET q == request[r] IN
  /\ status[q.user] # "none"
  /\ FirstHash(q.user, q.hash)
  /\ Verified(q.user, q.at, q.hash.secret)

SessionsInv == \A s \in DOMAIN sessions :
  LET u == sessions[s].user IN
  /\ status[u] # "none"
  /\ ~ sessions[s].revoked =>
       /\ s > changed[u].sessions
       /\ sessions[s].since + RequestTime >= changed[u].at
       /\ Verified(u, sessions[s].since, sessions[s].secret)

HistoryInv == AccountsInv /\ LoginsInv /\ SessionsInv

\* What a step does to accounts, logins and sessions.
Begun(r) ==
  /\ request'[r].pc = "accepted" =>
       LET q == request'[r] IN
       q.user \in Users /\ status[q.user] = "active" /\ q.hash = password[q.user]
  /\ \A x \in Requests \ {r} : request'[x] = request[x]
  /\ UNCHANGED <<status, password, sessions, changed, now>>

Joined(r) ==
  LET u == request[r].user IN
  /\ u \in Users /\ request[r].at \in Nat /\ request[r].pc = "locked"
  /\ status[u] = "none"
  /\ status' = [status EXCEPT ![u] = "active"]
  /\ password' = [password EXCEPT ![u] = [secret |-> 1, modern |-> u \notin Outdated]]
  /\ UNCHANGED sessions \/ StartSession(r, SessionTTL, 1)
  /\ UNCHANGED changed /\ Close(r)

Altered(r) ==
  LET u == request[r].user IN
  /\ u \in Users /\ request[r].pc = "locked"
  /\ status'[u] = status[u] \/ (status[u] # "none" /\ status'[u] # "none")
  /\ \A v \in Users \ {u} : /\ status'[v] = status[v] /\ password'[v] = password[v]
                            /\ changed'[v] = changed[v]
  /\ password'[u].secret >= password[u].secret
  /\ FirstHash(u, password[u]) => FirstHash(u, password'[u])
  /\ \/ changed'[u] = [at |-> now, sessions |-> Len(sessions)]
     \/ changed'[u] = changed[u] /\ password'[u].secret = password[u].secret
  /\ RevokeSessions(u) /\ Close(r)

LoggedIn(r) ==
  \E lifetime \in {SessionTTL, RememberedTTL} : AcceptLogin(r, lifetime)

Settled(r) == Close(r) /\ UNCHANGED <<status, password, sessions, changed>>

Quiet ==
  /\ now <= now'
  /\ UNCHANGED <<status, password, changed, request>>
  /\ UNCHANGED sessions \/ \E s \in DOMAIN sessions : Logout(s)

HistoryKinds ==
  \/ \E r \in Requests :
       Begun(r) \/ Joined(r) \/ Altered(r) \/ LoggedIn(r) \/ Settled(r)
  \/ Quiet

LEMMA BegunKinds ==
  ASSUME TypeOK, NEW r \in Requests, NEW u \in Users,
         \/ StartBootstrap(r, u)
         \/ \E c \in Clients :
              \/ \E known \in BOOLEAN : StartLogin(r, u, c, known)
              \/ StartRegistration(r, u, c)
         \/ \E s \in DOMAIN sessions, operation \in AdministrativeOperations :
              StartAdministration(r, s, operation, u)
  PROVE  Begun(r)
<1>1. ASSUME NEW what, request' = [request EXCEPT ![r] = what],
             UNCHANGED <<status, password, sessions, changed, now>>,
             what.pc = "accepted" =>
               /\ what.user = u /\ status[u] = "active"
               /\ what.hash = password[u]
      PROVE  Begun(r)
  BY <1>1 DEF Begun, TypeOK
<1>2. CASE StartBootstrap(r, u)
  <2> DEFINE what == [pc |-> "waiting", operation |-> "bootstrap", user |-> u,
                      own |-> FALSE, keys |-> {}, at |-> now]
  <2>1. request' = [request EXCEPT ![r] = what]
        /\ UNCHANGED <<status, password, sessions, changed, now>>
    BY <1>2 DEF StartBootstrap, Open
  <2>2. what.pc # "accepted"
    OBVIOUS
  <2> HIDE DEF what
  <2>3. QED BY <1>1, <2>1, <2>2
<1>3. ASSUME NEW c \in Clients, NEW known \in BOOLEAN, StartLogin(r, u, c, known)
      PROVE  Begun(r)
  <2> DEFINE what == [pc |-> IF known /\ status[u] = "active" THEN "accepted" ELSE "rejected",
                      user |-> u, keys |-> LoginKeys(u, c),
                      rows |-> {k \in LoginKeys(u, c) : throttle[k] # NoRow},
                      hash |-> password[u], at |-> now]
  <2>1. request' = [request EXCEPT ![r] = what]
        /\ UNCHANGED <<status, password, sessions, changed, now>>
    BY <1>3 DEF StartLogin, Open
  <2>2. /\ what.pc = "accepted" => status[u] = "active"
        /\ what.user = u /\ what.hash = password[u]
    OBVIOUS
  <2> HIDE DEF what
  <2>3. QED BY <1>1, <2>1, <2>2
<1>4. ASSUME NEW c \in Clients, StartRegistration(r, u, c)
      PROVE  Begun(r)
  <2> DEFINE what == [pc |-> "waiting", operation |-> "register", user |-> u,
                      own |-> FALSE, keys |-> RegistrationKeys(c), at |-> now]
  <2>1. request' = [request EXCEPT ![r] = what]
        /\ UNCHANGED <<status, password, sessions, changed, now>>
    BY <1>4 DEF StartRegistration, Open
  <2>2. what.pc # "accepted"
    OBVIOUS
  <2> HIDE DEF what
  <2>3. QED BY <1>1, <2>1, <2>2
<1>5. ASSUME NEW s \in DOMAIN sessions, NEW operation \in AdministrativeOperations,
             StartAdministration(r, s, operation, u)
      PROVE  Begun(r)
  <2> DEFINE what == [pc |-> "waiting", operation |-> operation, user |-> u,
                      own |-> sessions[s].user = u, keys |-> {}, at |-> now]
  <2>1. request' = [request EXCEPT ![r] = what]
        /\ UNCHANGED <<status, password, sessions, changed, now>>
    BY <1>5 DEF StartAdministration, Open
  <2>2. what.pc # "accepted"
    OBVIOUS
  <2> HIDE DEF what
  <2>3. QED BY <1>1, <2>1, <2>2
<1>6. QED BY <1>2, <1>3, <1>4, <1>5

LEMMA Unnoted ==
  ASSUME TypeOK, NoteChanges, \A u \in Users : ~ Changes(u)
  PROVE  UNCHANGED changed
BY DEF TypeOK, NoteChanges

\* The actions that create accounts.
LEMMA JoinedKinds ==
  ASSUME TypeOK, Existence, NEW r \in Requests,
         \/ Register(r) \/ Bootstrap(r) \/ CreateAdministrator(r)
         \/ \E until \in Expiries, roles \in RoleChoices : CreateUser(r, roles, until)
  PROVE  Joined(r) \/ Settled(r)
<1>1. /\ request[r].pc = "locked" /\ request[r].operation \in Creating
      /\ Close(r) /\ NoteChanges
  BY DEF Register, Bootstrap, CreateAdministrator, CreateUser, Commits, Creating
<1>2. request[r].user \in Users /\ request[r].at \in Nat
  BY <1>1, RequestTypes DEF Locked
<1>3. ASSUME NEW roles, NEW until, ~ Exists(r), CreateAccount(r, roles, until),
             UNCHANGED sessions \/ StartSession(r, SessionTTL, 1)
      PROVE  Joined(r)
  <2>1. status[request[r].user] = "none"
    BY <1>1, <1>3 DEF Existence, Exists
  <2>2. \A u \in Users : ~ Changes(u)
    BY <1>2, <1>3, <2>1 DEF CreateAccount, Changes, TypeOK, Hashes
  <2>3. UNCHANGED changed
    BY <1>1, <2>2, Unnoted
  <2>4. QED BY <1>1, <1>2, <1>3, <2>1, <2>3 DEF Joined, CreateAccount
<1>4. ASSUME UNCHANGED <<identities, sessions>> PROVE Settled(r)
  <2>1. \A u \in Users : ~ Changes(u)
    BY <1>4 DEF Changes, TypeOK, Hashes
  <2>2. QED BY <1>1, <1>4, <2>1, Unnoted DEF Settled
<1>5. CASE Register(r)
  BY <1>3, <1>4, <1>5 DEF Register
<1>6. CASE Bootstrap(r)
  BY <1>3, <1>4, <1>6 DEF Bootstrap
<1>7. CASE CreateAdministrator(r)
  BY <1>3, <1>4, <1>7 DEF CreateAdministrator
<1>8. ASSUME NEW until \in Expiries, NEW roles \in RoleChoices, CreateUser(r, roles, until)
      PROVE  Joined(r) \/ Settled(r)
  BY <1>3, <1>4, <1>8 DEF CreateUser
<1>9. QED BY <1>5, <1>6, <1>7, <1>8

\* The actions that change accounts end their sessions.
LEMMA AlteredKinds ==
  ASSUME TypeOK, Existence, NEW r \in Requests,
         \/ ResetPassword(r) \/ RevokeEditor(r) \/ DisableUser(r)
         \/ \E until \in Expiries :
              \/ GrantEditor(r, until)
              \/ \E roles \in RoleChoices : SetRoles(r, roles, until)
  PROVE  Altered(r) \/ Settled(r)
<1>1. request[r].pc = "locked" /\ Close(r) /\ NoteChanges
  BY DEF ResetPassword, RevokeEditor, DisableUser, GrantEditor, SetRoles, Commits
<1>2. PICK u \in Users : u = request[r].user
  BY <1>1, RequestTypes DEF Locked
<1>3. request[r].status # "none" => status[u] # "none"
  BY <1>1, <1>2 DEF Existence
<1>4. ASSUME status'[u] = status[u] \/ (status[u] # "none" /\ status'[u] # "none"),
             RevokeSessions(u),
             \A v \in Users \ {u} : /\ status'[v] = status[v]
                                    /\ password'[v] = password[v]
                                    /\ grants'[v] = grants[v],
             password' = password \/ (status[u] # "none" /\ SetPassword(u))
      PROVE  Altered(r)
  <2>1. password[u] \in Hashes /\ \A v \in Users : password[v].secret \in Nat
    BY <1>2 DEF TypeOK, Hashes
  <2>2. \A v \in Users \ {u} : ~ Changes(v)
    BY <1>4, <2>1 DEF Changes
  <2>3. \A v \in Users \ {u} : changed'[v] = changed[v]
    BY <1>1, <2>2 DEF NoteChanges
  <2>4. \/ password'[u] = password[u]
        \/ /\ password'[u].secret = password[u].secret + 1
           /\ password'[u].modern
    BY <1>2, <1>4 DEF SetPassword, TypeOK
  <2>5. password'[u].secret >= password[u].secret
    BY <1>2, <2>1, <2>4
  <2>6. FirstHash(u, password[u]) => FirstHash(u, password'[u])
    BY <2>4 DEF FirstHash
  <2>7. \/ changed'[u] = [at |-> now, sessions |-> Len(sessions)]
        \/ changed'[u] = changed[u] /\ password'[u].secret = password[u].secret
    <3>1. CASE Changes(u)
      BY <1>1, <1>2, <3>1 DEF NoteChanges
    <3>2. CASE ~ Changes(u)
      <4>1. password'[u].secret = password[u].secret
        BY <1>2, <1>4, <2>1, <2>4, <3>2 DEF Changes
      <4>2. changed'[u] = changed[u]
        BY <1>1, <1>2, <3>2 DEF NoteChanges
      <4>3. QED BY <4>1, <4>2
    <3>3. QED BY <3>1, <3>2
  <2>8. QED BY <1>1, <1>2, <1>4, <2>3, <2>5, <2>6, <2>7 DEF Altered
<1>5. ASSUME UNCHANGED <<identities, sessions>> PROVE Settled(r)
  <2>1. \A v \in Users : ~ Changes(v)
    BY <1>5 DEF Changes, TypeOK, Hashes
  <2>2. QED BY <1>1, <1>5, <2>1, Unnoted DEF Settled
<1>6. CASE ResetPassword(r)
  <2>1. CASE Exists(r)
    <3>1. SetPassword(u) /\ RevokeSessions(u) /\ UNCHANGED <<status, grants>>
      BY <1>2, <1>6, <2>1 DEF ResetPassword
    <3>2. status[u] # "none" /\ \A v \in Users \ {u} : password'[v] = password[v]
      BY <1>3, <2>1, <3>1 DEF Exists, SetPassword, TypeOK
    <3>3. QED BY <1>4, <3>1, <3>2
  <2>2. CASE ~ Exists(r)
    BY <1>5, <1>6, <2>2 DEF ResetPassword
  <2>3. QED BY <2>1, <2>2
<1>7. ASSUME UNCHANGED <<status, password>>, RevokeSessions(u),
             \A v \in Users \ {u} : grants'[v] = grants[v]
      PROVE  Altered(r)
  <2>1. /\ status'[u] = status[u] /\ password' = password
        /\ \A v \in Users \ {u} : /\ status'[v] = status[v]
                                  /\ password'[v] = password[v]
                                  /\ grants'[v] = grants[v]
    BY <1>7
  <2>2. QED BY <1>4, <1>7, <2>1
<1>8. ASSUME NEW until \in Expiries, GrantEditor(r, until) PROVE Altered(r) \/ Settled(r)
  <2>1. CASE UNCHANGED <<grants, sessions>>
    BY <1>5, <1>8, <2>1 DEF GrantEditor
  <2>2. CASE ReplaceGrant(u, until) /\ RevokeSessions(u)
    <3>1. \A v \in Users \ {u} : grants'[v] = grants[v]
      BY <2>2 DEF ReplaceGrant, TypeOK
    <3>2. QED BY <1>7, <1>8, <2>2, <3>1 DEF GrantEditor
  <2>3. QED BY <1>2, <1>8, <2>1, <2>2 DEF GrantEditor
<1>9. CASE RevokeEditor(r)
  <2>1. CASE UNCHANGED <<grants, sessions>>
    BY <1>5, <1>9, <2>1 DEF RevokeEditor
  <2>2. CASE RevokeGrant(u) /\ RevokeSessions(u)
    <3>1. \A v \in Users \ {u} : grants'[v] = grants[v]
      BY <2>2 DEF RevokeGrant, TypeOK
    <3>2. QED BY <1>7, <1>9, <2>2, <3>1 DEF RevokeEditor
  <2>3. QED BY <1>2, <1>9, <2>1, <2>2 DEF RevokeEditor
<1>10. ASSUME NEW until \in Expiries, NEW roles \in RoleChoices, SetRoles(r, roles, until)
       PROVE  Altered(r) \/ Settled(r)
  <2>1. CASE UNCHANGED <<grants, sessions>>
    BY <1>5, <1>10, <2>1 DEF SetRoles
  <2>2. CASE ReplaceRoles(u, roles, until) /\ RevokeSessions(u)
    <3>1. \A v \in Users \ {u} : grants'[v] = grants[v]
      BY <2>2 DEF ReplaceRoles, TypeOK
    <3>2. QED BY <1>7, <1>10, <2>2, <3>1 DEF SetRoles
  <2>3. QED BY <1>2, <1>10, <2>1, <2>2 DEF SetRoles
<1>11. CASE DisableUser(r)
  <2>1. CASE UNCHANGED <<status, sessions>>
    BY <1>5, <1>11, <2>1 DEF DisableUser
  <2>2. CASE /\ request[r].status # "none"
             /\ status' = [status EXCEPT ![u] = "disabled"] /\ RevokeSessions(u)
    <3>1. /\ status[u] # "none" /\ status'[u] = "disabled"
          /\ \A v \in Users \ {u} : status'[v] = status[v]
      BY <1>2, <1>3, <2>2 DEF TypeOK
    <3>2. UNCHANGED <<password, grants>>
      BY <1>11 DEF DisableUser
    <3>3. \A v \in Users \ {u} : /\ status'[v] = status[v]
                                /\ password'[v] = password[v]
                                /\ grants'[v] = grants[v]
      BY <3>1, <3>2
    <3>4. QED BY <1>4, <2>2, <3>1, <3>2, <3>3
  <2>3. QED BY <1>2, <1>11, <2>1, <2>2 DEF DisableUser, Exists
<1>12. QED BY <1>6, <1>8, <1>9, <1>10, <1>11

LEMMA StepHistory == TypeOK /\ Existence /\ [Next]_vars => HistoryKinds
<1> SUFFICES ASSUME TypeOK, Existence, [Next]_vars PROVE HistoryKinds
  OBVIOUS
<1>1. now \in Nat
  BY DEF TypeOK
<1>2. ASSUME NEW r \in Requests, RejectLogin(r) \/ LoseThrottleRow(r) PROVE Settled(r)
  BY <1>2 DEF RejectLogin, LoseThrottleRow, Settled
<1>3. ASSUME NEW r \in Requests, Enter(r) PROVE Begun(r)
  <2>1. request'[r] \in Locked /\ \A x \in Requests \ {r} : request'[x] = request[x]
    BY <1>3, EnterFacts
  <2>2. request'[r].pc # "accepted"
    BY <2>1 DEF Locked
  <2>3. UNCHANGED <<status, password, sessions, changed, now>>
    BY <1>3 DEF Enter
  <2>4. QED BY <2>1, <2>2, <2>3 DEF Begun
<1>4. ASSUME NEW s \in DOMAIN sessions, Logout(s) PROVE Quiet
  <2>1. UNCHANGED <<status, password, changed, request>> /\ now' = now
    BY <1>4 DEF Logout
  <2>2. now <= now'
    BY <1>1, <2>1
  <2>3. QED BY <1>4, <2>1, <2>2 DEF Quiet
<1>5. CASE Tick \/ UNCHANGED vars
  <2>1. UNCHANGED <<status, password, changed, request>> /\ sessions' = sessions
    BY <1>5 DEF Tick, vars
  <2>2. now' \in {now, now + 1}
    BY <1>5 DEF Tick, vars
  <2>3. now <= now'
    BY <1>1, <2>2
  <2>4. QED BY <2>1, <2>3 DEF Quiet, HistoryKinds
<1>6. QED
  BY <1>2, <1>3, <1>4, <1>5, BegunKinds, JoinedKinds, AlteredKinds
  DEF Next, HistoryKinds, LoggedIn

\* The accounts and the session a request belongs to.
LEMMA HistoryTypes ==
  ASSUME TypeOK
  PROVE  /\ now \in Nat /\ RequestTime \in Nat /\ Len(sessions) \in Nat
         /\ DOMAIN sessions = 1..Len(sessions)
         /\ \A u \in Users :
              /\ changed[u].at \in Nat /\ changed[u].sessions \in Nat
              /\ password[u] \in Hashes /\ password[u].secret \in Nat
         /\ \A s \in DOMAIN sessions :
              /\ sessions[s].user \in Users /\ sessions[s].since \in Nat
              /\ sessions[s].secret \in Nat
         /\ \A r \in Requests : request[r].pc = "accepted" =>
              /\ request[r].user \in Users /\ request[r].at \in Nat
              /\ request[r].hash \in Hashes /\ request[r].hash.secret \in Nat
<1>1. sessions \in Seq(Session)
  BY DEF TypeOK
<1>2. Len(sessions) \in Nat /\ DOMAIN sessions = 1..Len(sessions)
  BY <1>1
<1>3. \A s \in DOMAIN sessions : sessions[s] \in Session
  BY <1>1, <1>2, ElementOfSeq
<1>4. \A s \in DOMAIN sessions :
        /\ sessions[s].user \in Users /\ sessions[s].since \in Nat
        /\ sessions[s].secret \in Nat
  BY <1>3 DEF Session
<1>5. \A u \in Users :
        /\ changed[u].at \in Nat /\ changed[u].sessions \in Nat
        /\ password[u] \in Hashes /\ password[u].secret \in Nat
  BY DEF TypeOK, Hashes
<1>6. \A r \in Requests : request[r].pc = "accepted" =>
        /\ request[r].user \in Users /\ request[r].at \in Nat
        /\ request[r].hash \in Hashes /\ request[r].hash.secret \in Nat
  BY RequestTypes DEF Pending, Hashes
<1>7. now \in Nat /\ RequestTime \in Nat
  BY Settings DEF TypeOK
<1>8. QED BY <1>2, <1>4, <1>5, <1>6, <1>7

LEMMA BegunStep ==
  ASSUME TypeOK, TypeOK', InTime', HistoryInv, NEW r \in Requests, Begun(r)
  PROVE  HistoryInv'
<1>1. AccountsInv' /\ SessionsInv'
  BY DEF Begun, HistoryInv, AccountsInv, SessionsInv, Verified, FirstHash
<1>2. ASSUME NEW x \in Requests, request'[x].pc = "accepted"
      PROVE  LET q == request'[x] IN
             /\ status[q.user] # "none" /\ FirstHash(q.user, q.hash)
             /\ Verified(q.user, q.at, q.hash.secret)
  <2>1. CASE x = r
    <3>1. /\ request'[x].user \in Users /\ status[request'[x].user] = "active"
          /\ request'[x].hash = password[request'[x].user]
      BY <1>2, <2>1 DEF Begun
    <3>2. QED BY <3>1 DEF HistoryInv, AccountsInv, Verified
  <2>2. CASE x # r
    BY <1>2, <2>2 DEF Begun, HistoryInv, LoginsInv
  <2>3. QED BY <2>1, <2>2
<1>3. LoginsInv'
  BY <1>2 DEF Begun, LoginsInv, Verified, FirstHash
<1>4. QED BY <1>1, <1>3 DEF HistoryInv

\* A new account has neither logins under way nor sessions, but the one it is
\* made with.
LEMMA JoinedStep ==
  ASSUME TypeOK, TypeOK', InTime, HistoryInv, NEW r \in Requests, Joined(r)
  PROVE  HistoryInv'
<1> DEFINE u == request[r].user
<1>1. /\ u \in Users /\ request[r].at \in Nat /\ request[r].pc = "locked"
      /\ status[u] = "none" /\ UNCHANGED changed /\ Close(r) /\ now' = now
      /\ status'[u] # "none"
      /\ \A v \in Users \ {u} : status'[v] = status[v] /\ password'[v] = password[v]
      /\ password'[u] = [secret |-> 1, modern |-> u \notin Outdated]
  BY CloseFacts DEF Joined, TypeOK
<1>2. password'[u].secret = 1 /\ FirstHash(u, password'[u])
  <2>1. password'[u].secret = 1 /\ password'[u].modern = (u \notin Outdated)
    BY <1>1
  <2>2. QED BY <2>1 DEF FirstHash
<1> HIDE DEF u
<1>3. \A s \in DOMAIN sessions : sessions[s].user \in Users \ {u}
  BY <1>1, HistoryTypes DEF HistoryInv, SessionsInv
<1>4. /\ DOMAIN sessions \subseteq DOMAIN sessions' /\ Len(sessions) <= Len(sessions')
      /\ \A s \in DOMAIN sessions : sessions'[s] = sessions[s]
      /\ \A s \in DOMAIN sessions' \ DOMAIN sessions :
           /\ s = Len(sessions) + 1 /\ sessions'[s].user = u
           /\ sessions'[s].since = request[r].at /\ sessions'[s].secret = 1
  <2>1. CASE UNCHANGED sessions
    BY <2>1, HistoryTypes
  <2>2. CASE StartSession(r, SessionTTL, 1)
    BY <1>1, <2>2, StartSessionType, HistoryTypes, AccountsAssumption DEF u
  <2>3. QED BY <2>1, <2>2 DEF Joined
<1>5. AccountsInv'
  <2>1. Len(sessions') \in Nat
    BY HistoryTypes DEF TypeOK
  <2>2. QED BY <1>1, <1>2, <1>4, <2>1, HistoryTypes
            DEF HistoryInv, AccountsInv, FirstHash
<1>6. LoginsInv'
  <2>1. ASSUME NEW x \in Requests, request'[x].pc = "accepted"
        PROVE  request'[x] = request[x] /\ request[x].user \in Users \ {u}
               /\ request[x].pc = "accepted"
    <3>1. request'[x] = request[x]
      BY <1>1, <2>1, CloseFacts DEF Idle
    <3>2. QED BY <1>1, <2>1, <3>1, HistoryTypes DEF HistoryInv, LoginsInv
  <2>2. QED BY <1>1, <2>1 DEF HistoryInv, LoginsInv, Verified, FirstHash
<1>7. SessionsInv'
  <2>1. ASSUME NEW s \in DOMAIN sessions
        PROVE  /\ status'[sessions'[s].user] # "none"
               /\ ~ sessions'[s].revoked =>
                    /\ s > changed'[sessions'[s].user].sessions
                    /\ sessions'[s].since + RequestTime >= changed'[sessions'[s].user].at
                    /\ Verified(sessions[s].user, sessions[s].since, sessions[s].secret)'
    BY <1>1, <1>3, <1>4 DEF HistoryInv, SessionsInv, Verified
  <2>2. ASSUME NEW s \in DOMAIN sessions' \ DOMAIN sessions
        PROVE  /\ s > changed'[u].sessions
               /\ sessions'[s].since + RequestTime >= changed'[u].at
               /\ sessions'[s].secret = password'[u].secret
    <3>1. changed[u].at <= now /\ changed[u].sessions <= Len(sessions)
      BY <1>1 DEF HistoryInv, AccountsInv
    <3>2. now <= request[r].at + RequestTime
      BY <1>1 DEF InTime
    <3>3. QED BY <1>1, <1>2, <1>4, <2>2, <3>1, <3>2, HistoryTypes
  <2>3. QED BY <1>1, <1>4, <2>1, <2>2 DEF SessionsInv, Verified
<1>8. QED BY <1>5, <1>6, <1>7 DEF HistoryInv

\* A change ends the sessions there are, and every login under way began
\* before it.
LEMMA AlteredStep ==
  ASSUME TypeOK, TypeOK', InTime, HistoryInv, NEW r \in Requests, Altered(r)
  PROVE  HistoryInv'
<1>1. PICK u \in Users : u = request[r].user
  BY DEF Altered
<1>2. /\ status'[u] = status[u] \/ (status[u] # "none" /\ status'[u] # "none")
      /\ \A v \in Users \ {u} : /\ status'[v] = status[v] /\ password'[v] = password[v]
                                /\ changed'[v] = changed[v]
      /\ password'[u].secret >= password[u].secret
      /\ FirstHash(u, password[u]) => FirstHash(u, password'[u])
      /\ \/ changed'[u].at = now /\ changed'[u].sessions = Len(sessions)
         \/ changed'[u] = changed[u] /\ password'[u].secret = password[u].secret
      /\ RevokeSessions(u) /\ Close(r) /\ now' = now
  BY <1>1, CloseFacts DEF Altered
<1>3. /\ Len(sessions') = Len(sessions) /\ DOMAIN sessions' = DOMAIN sessions
      /\ \A s \in DOMAIN sessions :
           /\ sessions'[s].user = sessions[s].user
           /\ sessions'[s].since = sessions[s].since
           /\ sessions'[s].secret = sessions[s].secret
           /\ sessions[s].revoked => sessions'[s].revoked
           /\ sessions[s].user = u => sessions'[s].revoked
  BY <1>2, RevokeSessionsType
<1>4. \A v \in Users : status[v] # "none" => status'[v] # "none"
  BY <1>2
<1>5. AccountsInv'
  <2>1. \A v \in Users : password'[v].secret \in Nat
    BY DEF TypeOK, Hashes
  <2>2. QED BY <1>2, <1>3, <2>1, HistoryTypes DEF HistoryInv, AccountsInv, FirstHash
<1>6. LoginsInv'
  <2>1. ASSUME NEW x \in Requests, request'[x].pc = "accepted"
        PROVE  /\ request'[x] = request[x]
               /\ status'[request[x].user] # "none"
               /\ FirstHash(request[x].user, request[x].hash)
               /\ Verified(request[x].user, request[x].at, request[x].hash.secret)'
    <3>1. request'[x] = request[x]
      BY <1>2, <2>1, CloseFacts DEF Idle
    <3>2. /\ request[x].user \in Users /\ request[x].at \in Nat /\ request[x].at <= now
          /\ status[request[x].user] # "none"
          /\ FirstHash(request[x].user, request[x].hash)
          /\ Verified(request[x].user, request[x].at, request[x].hash.secret)
      BY <2>1, <3>1, HistoryTypes DEF HistoryInv, LoginsInv, InTime
    <3>3. request[x].at > changed'[request[x].user].at =>
            /\ changed'[request[x].user] = changed[request[x].user]
            /\ password'[request[x].user].secret = password[request[x].user].secret
      BY <1>2, <3>2, HistoryTypes
    <3>4. Verified(request[x].user, request[x].at, request[x].hash.secret)'
      BY <3>1, <3>2, <3>3 DEF Verified
    <3>5. QED BY <1>4, <3>1, <3>2, <3>4
  <2>2. QED BY <2>1 DEF LoginsInv, FirstHash
<1>7. SessionsInv'
  <2>1. ASSUME NEW s \in DOMAIN sessions, ~ sessions'[s].revoked
        PROVE  sessions[s].user \in Users \ {u} /\ ~ sessions[s].revoked
    BY <1>3, <2>1, HistoryTypes
  <2>2. \A s \in DOMAIN sessions : status'[sessions[s].user] # "none"
    BY <1>4, HistoryTypes DEF HistoryInv, SessionsInv
  <2>3. QED BY <1>2, <1>3, <2>1, <2>2 DEF HistoryInv, SessionsInv, Verified
<1>8. QED BY <1>5, <1>6, <1>7 DEF HistoryInv

\* A login stores a hash anew only for an account with outdated parameters.
LEMMA LoggedInStep ==
  ASSUME TypeOK, TypeOK', InTime, HistoryInv, NEW r \in Requests, LoggedIn(r)
  PROVE  HistoryInv'
<1>1. PICK u \in Users : u = request[r].user
  BY HistoryTypes DEF LoggedIn, AcceptLogin
<1>2. PICK lifetime \in {SessionTTL, RememberedTTL} : AcceptLogin(r, lifetime)
  BY DEF LoggedIn
<1>3. /\ request[r].pc = "accepted" /\ request[r].at \in Nat
      /\ request[r].hash.secret \in Nat /\ lifetime \in Nat
      /\ status[u] # "none" /\ FirstHash(u, request[r].hash)
      /\ Verified(u, request[r].at, request[r].hash.secret)
  BY <1>1, <1>2, HistoryTypes, AccountsAssumption DEF AcceptLogin, HistoryInv, LoginsInv
<1>4. /\ StartSession(r, lifetime, request[r].hash.secret)
      /\ Close(r) /\ NoteChanges /\ UNCHANGED <<status, grants>> /\ now' = now
  BY <1>2, CloseFacts DEF AcceptLogin
<1>5. /\ \A v \in Users \ {u} : password'[v] = password[v]
      /\ \/ password'[u] = password[u]
         \/ password'[u].secret = 1 /\ password'[u].modern /\ u \in Outdated
  BY <1>1, <1>2, <1>3 DEF AcceptLogin, FirstHash, TypeOK
<1>6. UNCHANGED changed
  <2>1. \A v \in Users : ~ Changes(v)
    BY <1>3, <1>4, <1>5, HistoryTypes DEF Changes, HistoryInv, AccountsInv
  <2>2. QED BY <1>4, <2>1, Unnoted
<1>7. /\ Len(sessions') = Len(sessions) + 1
      /\ DOMAIN sessions' = DOMAIN sessions \cup {Len(sessions) + 1}
      /\ \A s \in DOMAIN sessions : sessions'[s] = sessions[s]
      /\ sessions'[Len(sessions) + 1].user = u
      /\ sessions'[Len(sessions) + 1].since = request[r].at
      /\ sessions'[Len(sessions) + 1].secret = request[r].hash.secret
  BY <1>1, <1>3, <1>4, StartSessionType
<1>8. AccountsInv'
  BY <1>4, <1>5, <1>6, <1>7, HistoryTypes DEF HistoryInv, AccountsInv, FirstHash
<1>9. \A v \in Users, at \in Nat, secret \in Nat :
        Verified(v, at, secret) => Verified(v, at, secret)'
  BY <1>5, <1>6 DEF Verified
<1>10. LoginsInv'
  <2>1. ASSUME NEW x \in Requests, request'[x].pc = "accepted"
        PROVE  request'[x] = request[x]
    BY <1>4, <2>1, CloseFacts DEF Idle
  <2>2. ASSUME NEW x \in Requests, request'[x].pc = "accepted"
        PROVE  /\ status'[request'[x].user] # "none"
               /\ FirstHash(request'[x].user, request'[x].hash)
               /\ Verified(request[x].user, request[x].at, request[x].hash.secret)'
    <3>1. /\ request[x].pc = "accepted" /\ request'[x] = request[x]
          /\ request[x].user \in Users /\ request[x].at \in Nat
          /\ request[x].hash.secret \in Nat
      BY <2>1, <2>2, HistoryTypes
    <3>2. /\ status[request[x].user] # "none"
          /\ FirstHash(request[x].user, request[x].hash)
          /\ Verified(request[x].user, request[x].at, request[x].hash.secret)
      BY <3>1 DEF HistoryInv, LoginsInv
    <3>3. QED BY <1>4, <1>5, <1>6, <3>1, <3>2 DEF Verified
  <2>3. QED BY <2>2 DEF LoginsInv, FirstHash
<1>11. SessionsInv'
  <2>1. ASSUME NEW s \in DOMAIN sessions
        PROVE  /\ status'[sessions'[s].user] # "none"
               /\ ~ sessions'[s].revoked =>
                    /\ s > changed'[sessions'[s].user].sessions
                    /\ sessions'[s].since + RequestTime >= changed'[sessions'[s].user].at
                    /\ Verified(sessions[s].user, sessions[s].since, sessions[s].secret)'
    <3>1. sessions'[s] = sessions[s] /\ sessions[s].user \in Users
          /\ sessions[s].since \in Nat /\ sessions[s].secret \in Nat
      BY <1>7, HistoryTypes
    <3>2. /\ status[sessions[s].user] # "none"
          /\ ~ sessions[s].revoked =>
               /\ s > changed[sessions[s].user].sessions
               /\ sessions[s].since + RequestTime >= changed[sessions[s].user].at
               /\ Verified(sessions[s].user, sessions[s].since, sessions[s].secret)
      BY DEF HistoryInv, SessionsInv
    <3>3. Verified(sessions[s].user, sessions[s].since, sessions[s].secret) =>
            Verified(sessions[s].user, sessions[s].since, sessions[s].secret)'
      BY <1>5, <1>6, <3>1 DEF Verified
    <3>4. QED BY <1>4, <1>6, <3>1, <3>2, <3>3
  <2>2. /\ Len(sessions) + 1 > changed[u].sessions
        /\ request[r].at + RequestTime >= changed[u].at
    <3>1. changed[u].at <= now /\ changed[u].sessions <= Len(sessions)
      BY DEF HistoryInv, AccountsInv
    <3>2. now <= request[r].at + RequestTime
      BY <1>3 DEF InTime
    <3>3. QED BY <1>3, <3>1, <3>2, HistoryTypes
  <2>3. request[r].at > changed'[u].at /\ u \notin Outdated =>
          request[r].hash.secret = password'[u].secret
    BY <1>3, <1>5, <1>6 DEF Verified
  <2>4. QED BY <1>3, <1>4, <1>6, <1>7, <2>1, <2>2, <2>3 DEF SessionsInv, Verified
<1>12. QED BY <1>8, <1>10, <1>11 DEF HistoryInv

LEMMA SettledStep ==
  ASSUME TypeOK, HistoryInv, NEW r \in Requests, Settled(r)
  PROVE  HistoryInv'
<1>1. Close(r) /\ UNCHANGED <<status, password, sessions, changed>> /\ now' = now
  BY CloseFacts DEF Settled
<1>2. AccountsInv' /\ SessionsInv'
  BY <1>1 DEF HistoryInv, AccountsInv, SessionsInv, Verified, FirstHash
<1>3. \A x \in Requests : request'[x].pc = "accepted" => request'[x] = request[x]
  BY <1>1, CloseFacts DEF Idle
<1>4. LoginsInv'
  BY <1>1, <1>3 DEF HistoryInv, LoginsInv, Verified, FirstHash
<1>5. QED BY <1>2, <1>4 DEF HistoryInv

LEMMA QuietStep ==
  ASSUME TypeOK, TypeOK', HistoryInv, Quiet
  PROVE  HistoryInv'
<1>1. now <= now' /\ UNCHANGED <<status, password, changed, request>> /\ now' \in Nat
  BY DEF Quiet, TypeOK
<1>2. /\ Len(sessions') = Len(sessions) /\ DOMAIN sessions' = DOMAIN sessions
      /\ \A s \in DOMAIN sessions :
           /\ sessions'[s].user = sessions[s].user
           /\ sessions'[s].since = sessions[s].since
           /\ sessions'[s].secret = sessions[s].secret
           /\ sessions[s].revoked => sessions'[s].revoked
  <2>1. CASE UNCHANGED sessions
    BY <2>1
  <2>2. ASSUME NEW s \in DOMAIN sessions, Logout(s)
        PROVE  /\ Len(sessions') = Len(sessions) /\ sessions' \in Seq(Session)
               /\ \A t \in DOMAIN sessions :
                    /\ sessions'[t].user = sessions[t].user
                    /\ sessions'[t].since = sessions[t].since
                    /\ sessions'[t].secret = sessions[t].secret
                    /\ sessions[t].revoked => sessions'[t].revoked
    BY <2>2, TypeLogout
  <2>3. ASSUME NEW s \in DOMAIN sessions, Logout(s)
        PROVE  DOMAIN sessions' = DOMAIN sessions
    BY <2>2, <2>3, LenProperties, HistoryTypes
  <2>4. QED BY <2>1, <2>2, <2>3 DEF Quiet
<1>3. AccountsInv'
  BY <1>1, <1>2, HistoryTypes DEF HistoryInv, AccountsInv, FirstHash
<1>4. LoginsInv'
  BY <1>1 DEF HistoryInv, LoginsInv, Verified, FirstHash
<1>5. SessionsInv'
  BY <1>1, <1>2 DEF HistoryInv, SessionsInv, Verified
<1>6. QED BY <1>3, <1>4, <1>5 DEF HistoryInv

LEMMA HistoryStep ==
  TypeOK /\ Existence /\ InTime /\ HistoryInv /\ [Next]_vars => InTime' /\ HistoryInv'
<1> SUFFICES ASSUME TypeOK, Existence, InTime, HistoryInv, [Next]_vars
             PROVE  InTime' /\ HistoryInv'
  OBVIOUS
<1>1. TypeOK' /\ HistoryKinds /\ ThrottleKinds
  BY TypeStep, StepHistory, StepThrottles
<1>2. InTime'
  BY <1>1, InTimeStep
<1>3. HistoryInv'
  BY <1>1, <1>2, BegunStep, JoinedStep, AlteredStep, LoggedInStep, SettledStep, QuietStep
  DEF HistoryKinds
<1>4. QED BY <1>2, <1>3

LEMMA HistoryInit == Init => InTime /\ HistoryInv
<1> SUFFICES ASSUME Init PROVE InTime /\ HistoryInv
  OBVIOUS
<1>1. /\ \A r \in Requests : request[r].pc = "idle"
      /\ sessions = <<>> /\ now = 1
      /\ \A u \in Users : /\ status[u] = "none" /\ password[u].modern
                          /\ changed[u].at = 0 /\ changed[u].sessions = 0
  BY DEF Init, Idle
<1>2. Len(sessions) = 0 /\ DOMAIN sessions = {}
  BY <1>1
<1>3. QED BY <1>1, <1>2
          DEF InTime, HistoryInv, AccountsInv, LoginsInv, SessionsInv, FirstHash

\* A session that can still be used has not outlived a change of its account:
\* it was opened after it, by a login of which it may only have been under way,
\* and one let in after the change knows the secret that is stored (where no
\* login stores a secret anew).  In every order of logins, changes, logouts and
\* the passing of time, with the request's end at most RequestTime after its start.
THEOREM ChangesEndSessions == Spec => []SessionsPostdateChanges
<1>1. HistoryInv => SessionsPostdateChanges
  BY DEF HistoryInv, SessionsInv, Verified, SessionsPostdateChanges
<1>2. Spec => [](InTime /\ HistoryInv)
  BY HistoryInit, HistoryStep, LocksHold, PTL DEF Spec
<1>3. QED BY <1>1, <1>2, PTL
=============================================================================
