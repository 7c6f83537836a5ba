-------------------------------- MODULE Accounts --------------------------------
(***************************************************************************)
(* Tenants, users and sessions: a container's start (entrypoint.sh, db/wait, *)
(* db/seed), the script that adds test users, and the sign-up, login, guest, *)
(* logout and user creation routes (auth/, tenants/ and web/router.py, which *)
(* does the same for the pages).  Containers, the script and requests run    *)
(* beside one another over one Postgres database; one statement, or one      *)
(* commit, is one step.  A container may die between any two.               *)
(*                                                                         *)
(* The database keeps uq_users_tenant_email and the unique slug: an insert   *)
(* against either is an error in the process that tries it.                 *)
(***************************************************************************)
EXTENDS Integers, Sequences

CONSTANTS
  Containers, Clients, None,
  Slugs, Emails, Passwords,
  Normalized,                               \* what EmailStr makes of an address
  SeedTenants, SeedAccounts, SeedPassword,  \* what seed_data inserts, in order
  SeedEnabled,                              \* settings.seed_data
  ScriptTenants, ScriptAccounts,            \* what create_test_users makes sure of
  Requests,                                 \* the requests clients may make
  MaxRequests                               \* bound on their number

Roles == {"ADMIN", "NORMAL", "GUEST"}
Kinds == {"signup", "login", "guest", "create", "logout"}
RequestType == [kind : Kinds, page : BOOLEAN, email : Emails, password : Passwords,
                slug : Slugs \cup {None}, role : Roles]  \* page: of web/router.py
TokenType == [sub : Nat, tenant : Nat, email : Emails, password : Passwords]
DemoAccount == [slug : Slugs, email : Emails, role : Roles]

Listed(s) == {s[i] : i \in DOMAIN s}

ASSUME DemoAssumption ==
  /\ SeedTenants \in Seq(Slugs) /\ ScriptTenants \in Seq(Slugs)
  /\ \A i, j \in DOMAIN SeedTenants : SeedTenants[i] = SeedTenants[j] => i = j
  /\ \A i, j \in DOMAIN ScriptTenants : ScriptTenants[i] = ScriptTenants[j] => i = j
  /\ SeedTenants # <<>>
  /\ SeedAccounts \in Seq(DemoAccount) /\ ScriptAccounts \in Seq(DemoAccount)
  /\ \A i \in DOMAIN SeedAccounts : SeedAccounts[i].slug \in Listed(SeedTenants)
  /\ \A i \in DOMAIN ScriptAccounts : ScriptAccounts[i].slug \in Listed(ScriptTenants)
  /\ \A i, j \in DOMAIN SeedAccounts : i # j =>
       <<SeedAccounts[i].slug, SeedAccounts[i].email>> # <<SeedAccounts[j].slug, SeedAccounts[j].email>>
  /\ \A i, j \in DOMAIN ScriptAccounts : i # j =>
       <<ScriptAccounts[i].slug, ScriptAccounts[i].email>>
         # <<ScriptAccounts[j].slug, ScriptAccounts[j].email>>
  /\ SeedPassword \in Passwords /\ SeedEnabled \in BOOLEAN

ASSUME RequestsAssumption ==
  /\ Normalized \in [Emails -> Emails]
  /\ Requests \subseteq RequestType /\ MaxRequests \in Nat
  /\ None \notin Slugs /\ None \notin Containers \cup {"script"}
  /\ None \notin TokenType /\ "script" \notin Containers

VARIABLES
  tenants,   \* committed tenants: id, slug and where they come from
  users,     \* committed users
  lastTenant, lastUser,   \* the ids given out
  holder,    \* who has inserted tenants without having committed yet, or None
  phase,     \* of each container
  script,    \* of create_test_users: "idle", "looked" or "flushed"
  missing,   \* what the script found missing: slugs and accounts
  request, pc, at,   \* of each client: its last request, its place, its container
  home,      \* the tenant id the handler has found
  mine,      \* the id of the user the handler has created
  answer,    \* what the last request was answered with
  session,   \* the token the client holds, with what was shown to get it
  asked      \* requests made so far

committed == <<tenants, users, lastTenant, lastUser>>
database == <<committed, holder>>
handlers == <<request, pc, at, home, mine, answer, session, asked>>
vars == <<database, phase, script, missing, handlers>>

SlugsOf(ts) == {t.slug : t \in ts}
TenantOf(ts, slug) == (CHOOSE t \in ts : t.slug = slug).id
Taken(tenant, email) == \E u \in users : u.tenant = tenant /\ u.email = email

\* The address a handler works with.  SignupRequest and UserCreate declare an EmailStr,
\* which lowers the domain; the sign-up page and both logins keep what was typed.
Address(r) ==
  IF r.kind = "create" \/ (r.kind = "signup" /\ ~r.page) THEN Normalized[r.email] ELSE r.email

Nothing == [slugs |-> {}, accounts |-> {}]

Init ==
  /\ tenants = {} /\ users = {} /\ lastTenant = 0 /\ lastUser = 0 /\ holder = None
  /\ phase = [k \in Containers |-> "down"]
  /\ script = "idle" /\ missing = Nothing
  /\ request = [c \in Clients |-> None] /\ pc = [c \in Clients |-> "idle"]
  /\ at = [c \in Clients |-> None] /\ home = [c \in Clients |-> 0]
  /\ mine = [c \in Clients |-> 0] /\ answer = [c \in Clients |-> "none"]
  /\ session = [c \in Clients |-> None] /\ asked = 0

-----------------------------------------------------------------------------
\* A container's start.

Goto(k, p) == phase' = [phase EXCEPT ![k] = p]

\* docker compose up.
StartContainer(k) ==
  /\ phase[k] = "down"
  /\ Goto(k, "waiting")
  /\ UNCHANGED <<database, script, missing, handlers>>

\* The database answers within the attempts there are, or the container exits.
WaitForDb(k) ==
  /\ phase[k] = "waiting"
  /\ Goto(k, "migrated") \/ Goto(k, "down")
  /\ UNCHANGED <<database, script, missing, handlers>>

\* Variant: counts the tenants another process has not committed.
SeedCountDirty(k) ==
  /\ phase[k] = "migrated"
  /\ Goto(k, IF SeedEnabled /\ tenants = {} /\ holder = None THEN "seeding" ELSE "serving")
  /\ UNCHANGED <<database, script, missing, handlers>>

\* seed_data returns at once when seeding is off or a tenant exists.
SeedCount(k) ==
  /\ phase[k] = "migrated"
  /\ Goto(k, IF SeedEnabled /\ tenants = {} THEN "seeding" ELSE "serving")
  /\ UNCHANGED <<database, script, missing, handlers>>

AddedTenants(list, which, origin) ==
  {[id |-> lastTenant + i, slug |-> list[i], origin |-> origin] : i \in which}

\* The demo users of a list, in the tenants ts.
AddedUsers(ts, list, which, origin) ==
  {[id |-> lastUser + i, tenant |-> TenantOf(ts, list[i].slug), email |-> list[i].email,
    password |-> SeedPassword, role |-> list[i].role, origin |-> origin, by |-> 0] : i \in which}

\* Variant: commits the tenants before their users.
SeedFlushCommits(k) ==
  /\ phase[k] = "seeding" /\ holder = None
  /\ IF SlugsOf(tenants) \cap Listed(SeedTenants) # {}
     THEN Goto(k, "down") /\ UNCHANGED database
     ELSE /\ Goto(k, "flushed") /\ holder' = k
          /\ tenants' = tenants \cup AddedTenants(SeedTenants, DOMAIN SeedTenants, "seed")
          /\ lastTenant' = lastTenant + Len(SeedTenants)
          /\ UNCHANGED <<users, lastUser>>
  /\ UNCHANGED <<script, missing, handlers>>

\* The flush of the tenants waits for a transaction that has inserted them too; when
\* that one has committed, it is an error and the container exits.
SeedFlush(k) ==
  /\ phase[k] = "seeding" /\ holder = None
  /\ IF SlugsOf(tenants) \cap Listed(SeedTenants) # {}
     THEN Goto(k, "down") /\ UNCHANGED database
     ELSE Goto(k, "flushed") /\ holder' = k /\ UNCHANGED committed
  /\ UNCHANGED <<script, missing, handlers>>

\* Variant: nothing is committed, and the session stays open while the container serves.
SeedCommitForgotten(k) ==
  /\ phase[k] = "flushed"
  /\ Goto(k, "serving")
  /\ UNCHANGED <<database, script, missing, handlers>>

\* Tenants and users become visible together.
SeedCommit(k) ==
  /\ phase[k] = "flushed"
  /\ tenants' = tenants \cup AddedTenants(SeedTenants, DOMAIN SeedTenants, "seed")
  /\ users' = users \cup AddedUsers(tenants', SeedAccounts, DOMAIN SeedAccounts, "seed")
  /\ lastTenant' = lastTenant + Len(SeedTenants)
  /\ lastUser' = lastUser + Len(SeedAccounts)
  /\ holder' = None
  /\ Goto(k, "serving")
  /\ UNCHANGED <<script, missing, handlers>>

\* A container dies: an open transaction is rolled back, its requests get no answer.
Crash(k) ==
  /\ phase[k] # "down"
  /\ Goto(k, "down")
  /\ holder' = IF holder = k THEN None ELSE holder
  /\ pc' = [c \in Clients |-> IF at[c] = k THEN "idle" ELSE pc[c]]
  /\ answer' = [c \in Clients |-> IF at[c] = k THEN "lost" ELSE answer[c]]
  /\ at' = [c \in Clients |-> IF at[c] = k THEN None ELSE at[c]]
  /\ UNCHANGED <<committed, script, missing, request, home, mine, session, asked>>

-----------------------------------------------------------------------------
\* create_test_users, run inside a container that is up.

\* It looks for each tenant and each of its users.  The looks are one step: one that
\* is out of date when the script inserts ends it, whenever it was made.
ScriptLooks ==
  /\ script = "idle"
  /\ \E k \in Containers : phase[k] # "down"
  /\ script' = "looked"
  /\ missing' =
       [slugs |-> {i \in DOMAIN ScriptTenants : ScriptTenants[i] \notin SlugsOf(tenants)},
        accounts |-> {i \in DOMAIN ScriptAccounts :
                        \A t \in tenants : t.slug = ScriptAccounts[i].slug =>
                          ~Taken(t.id, ScriptAccounts[i].email)}]
  /\ UNCHANGED <<database, phase, handlers>>

\* The missing tenants are flushed, or are there by now and the script fails.
ScriptFlush ==
  /\ script = "looked"
  /\ IF missing.slugs = {}
     THEN script' = "flushed" /\ UNCHANGED <<missing, holder>>
     ELSE /\ holder = None
          /\ IF \E i \in missing.slugs : ScriptTenants[i] \in SlugsOf(tenants)
             THEN script' = "idle" /\ missing' = Nothing /\ UNCHANGED holder
             ELSE script' = "flushed" /\ holder' = "script" /\ UNCHANGED missing
  /\ UNCHANGED <<committed, phase, handlers>>

WithScript == tenants \cup AddedTenants(ScriptTenants, missing.slugs, "script")
ScriptUsers == AddedUsers(WithScript, ScriptAccounts, missing.accounts, "script")

\* The users it found missing, or nothing at all when one of them is there by now.
ScriptCommit ==
  /\ script = "flushed"
  /\ IF \E u \in ScriptUsers : Taken(u.tenant, u.email)
     THEN UNCHANGED committed
     ELSE /\ tenants' = WithScript
          /\ users' = users \cup ScriptUsers
          /\ lastTenant' = IF missing.slugs = {} THEN lastTenant
                           ELSE lastTenant + Len(ScriptTenants)
          /\ lastUser' = IF missing.accounts = {} THEN lastUser
                         ELSE lastUser + Len(ScriptAccounts)
  /\ holder' = IF holder = "script" THEN None ELSE holder
  /\ script' = "idle" /\ missing' = Nothing
  /\ UNCHANGED <<phase, handlers>>

\* It dies with its container.
ScriptDies ==
  /\ script # "idle"
  /\ script' = "idle" /\ missing' = Nothing
  /\ holder' = IF holder = "script" THEN None ELSE holder
  /\ UNCHANGED <<committed, phase, handlers>>

-----------------------------------------------------------------------------
\* Requests.

At(c, p) == pc[c] = p
Step(c, p) == pc' = [pc EXCEPT ![c] = p]
Answer(c, a) ==
  Step(c, "idle") /\ answer' = [answer EXCEPT ![c] = a] /\ at' = [at EXCEPT ![c] = None]
Continue(c, p) == Step(c, p) /\ UNCHANGED <<answer, at>>

FirstStep(r) ==
  CASE r.kind \in {"signup", "guest"} -> "resolve"
    [] r.kind = "login" -> "authenticate"
    [] r.kind = "create" -> "authorize"
    [] r.kind = "logout" -> "logout"

Ask(c) ==
  /\ At(c, "idle") /\ asked < MaxRequests
  /\ \E r \in Requests, k \in Containers :
       /\ phase[k] = "serving"
       /\ request' = [request EXCEPT ![c] = r] /\ at' = [at EXCEPT ![c] = k]
       /\ Step(c, FirstStep(r))
  /\ home' = [home EXCEPT ![c] = 0] /\ mine' = [mine EXCEPT ![c] = 0]
  /\ answer' = [answer EXCEPT ![c] = "none"]
  /\ asked' = asked + 1
  /\ UNCHANGED <<database, phase, script, missing, session>>

handled == <<request, asked>>
elsewhere == <<phase, script, missing, holder, handled>>

Named(slug) == {t \in tenants : t.slug = slug}
FirstTenant == {t \in tenants : \A other \in tenants : t.id <= other.id}

\* Variant: no fallback to the first tenant.
ResolveExactly(slug) == IF Named(slug) = {} THEN {0} ELSE {t.id : t \in Named(slug)}

\* The tenant with the slug; for an unknown or absent slug the first one; or none.
Resolved(slug) == {t.id : t \in IF Named(slug) = {} THEN FirstTenant ELSE Named(slug)}

ResolveTenant(c) ==
  /\ At(c, "resolve")
  /\ \/ /\ tenants = {}
        /\ Answer(c, "no tenant") /\ UNCHANGED home
     \/ /\ \E id \in Resolved(request[c].slug) : home' = [home EXCEPT ![c] = id]
        /\ Continue(c, IF request[c].kind = "guest" THEN "visit" ELSE "find")
  /\ UNCHANGED <<committed, mine, session, elsewhere>>

\* Variant: looks for the address in every tenant.
FindExistingAnywhere(c) ==
  /\ At(c, "find")
  /\ IF \E u \in users : u.email = Address(request[c])
     THEN Answer(c, "taken")
     ELSE Continue(c, "insert")
  /\ UNCHANGED <<committed, home, mine, session, elsewhere>>

FindExisting(c) ==
  /\ At(c, "find")
  /\ IF Taken(home[c], Address(request[c]))
     THEN Answer(c, "taken")
     ELSE Continue(c, "insert")
  /\ UNCHANGED <<committed, home, mine, session, elsewhere>>

NewUser(c) ==
  LET r == request[c]
  IN [id |-> lastUser + 1, tenant |-> home[c], email |-> Address(r), password |-> r.password,
      role |-> IF r.kind = "signup" THEN "NORMAL" ELSE r.role,
      origin |-> r.kind, by |-> IF r.kind = "create" THEN session[c].sub ELSE 0]

\* Variant: the database has no unique constraint.
CreateUserUnchecked(c) ==
  /\ At(c, "insert")
  /\ users' = users \cup {NewUser(c)} /\ lastUser' = lastUser + 1
  /\ mine' = [mine EXCEPT ![c] = lastUser + 1]
  /\ IF request[c].kind = "signup" THEN Continue(c, "issue") ELSE Answer(c, "created")
  /\ UNCHANGED <<tenants, lastTenant, home, session, elsewhere>>

\* The insert and its commit.  Against the constraint it raises, and nobody catches.
CreateUser(c) ==
  /\ At(c, "insert")
  /\ \/ /\ Taken(home[c], Address(request[c]))
        /\ Answer(c, "error") /\ UNCHANGED <<users, lastUser, mine>>
     \/ /\ ~Taken(home[c], Address(request[c]))
        /\ users' = users \cup {NewUser(c)} /\ lastUser' = lastUser + 1
        /\ mine' = [mine EXCEPT ![c] = lastUser + 1]
        /\ IF request[c].kind = "signup" THEN Continue(c, "issue") ELSE Answer(c, "created")
  /\ UNCHANGED <<tenants, lastTenant, home, session, elsewhere>>

Token(c, sub, tenant) ==
  [sub |-> sub, tenant |-> tenant, email |-> Address(request[c]), password |-> request[c].password]

\* The token of the user just created.
IssueToken(c) ==
  /\ At(c, "issue")
  /\ session' = [session EXCEPT ![c] = Token(c, mine[c], home[c])]
  /\ Answer(c, "token")
  /\ UNCHANGED <<committed, home, mine, elsewhere>>

\* A guest's token names a tenant and no user: GuestUser has the id 0.
IssueGuestToken(c) ==
  /\ At(c, "visit")
  /\ session' = [session EXCEPT ![c] = Token(c, 0, home[c])]
  /\ Answer(c, "token")
  /\ UNCHANGED <<committed, home, mine, elsewhere>>

\* authenticate_user takes the first row with the address, whatever its tenant, in an
\* order the database chooses.
Addressed(email) == {u \in users : u.email = email}
Verified(u, password) == u.password = password

Login(c) ==
  /\ At(c, "authenticate")
  /\ \/ /\ \/ Addressed(Address(request[c])) = {}
           \/ \E u \in Addressed(Address(request[c])) : ~Verified(u, request[c].password)
        /\ Answer(c, "invalid") /\ UNCHANGED session
     \/ \E u \in Addressed(Address(request[c])) :
          /\ Verified(u, request[c].password)
          /\ session' = [session EXCEPT ![c] = Token(c, u.id, u.tenant)]
          /\ Answer(c, "token")
  /\ UNCHANGED <<committed, home, mine, elsewhere>>

Logout(c) ==
  /\ At(c, "logout")
  /\ session' = [session EXCEPT ![c] = None]
  /\ Answer(c, "done")
  /\ UNCHANGED <<committed, home, mine, elsewhere>>

\* get_current_user and require_role(ADMIN).
CurrentAdmins(c) ==
  {u \in users : session[c] # None /\ u.id = session[c].sub /\ u.role = "ADMIN"}

Authorize(c) ==
  /\ At(c, "authorize")
  /\ \/ /\ CurrentAdmins(c) = {}
        /\ Answer(c, "denied") /\ UNCHANGED home
     \/ /\ \E u \in CurrentAdmins(c) : home' = [home EXCEPT ![c] = u.tenant]
        /\ Continue(c, "load")
  /\ UNCHANGED <<committed, mine, session, elsewhere>>

\* Variant: creates the user in the tenant the request names.
LoadTenantNamed(c) ==
  /\ At(c, "load")
  /\ \E id \in Resolved(request[c].slug) : home' = [home EXCEPT ![c] = id]
  /\ Continue(c, "insert")
  /\ UNCHANGED <<committed, mine, session, elsewhere>>

\* A slug may be given, but only the admin's own.
LoadTenant(c) ==
  /\ At(c, "load")
  /\ IF request[c].slug = None \/ \E t \in Named(request[c].slug) : t.id = home[c]
     THEN Continue(c, "insert")
     ELSE Answer(c, "denied")
  /\ UNCHANGED <<committed, home, mine, session, elsewhere>>

-----------------------------------------------------------------------------
Handle(c) ==
  \/ ResolveTenant(c) \/ FindExisting(c) \/ CreateUser(c) \/ IssueToken(c) \/ IssueGuestToken(c)
  \/ Login(c) \/ Logout(c) \/ Authorize(c) \/ LoadTenant(c)

Boot(k) == StartContainer(k) \/ WaitForDb(k) \/ SeedCount(k) \/ SeedFlush(k) \/ SeedCommit(k)

Script == ScriptLooks \/ ScriptFlush \/ ScriptCommit \/ ScriptDies

Next ==
  \/ \E k \in Containers : Boot(k) \/ Crash(k)
  \/ Script
  \/ \E c \in Clients : Ask(c) \/ Handle(c)

Spec == Init /\ [][Next]_vars

\* entrypoint.sh and the script run on without being asked.  A flush that waits for
\* another transaction is woken whenever one ends, so it is not passed over for ever,
\* however often the script is started and dies.  Nobody has to start a container or the
\* script, and nothing has to die.
Fairness ==
  /\ \A k \in Containers : /\ WF_vars(WaitForDb(k)) /\ WF_vars(SeedCount(k))
                           /\ SF_vars(SeedFlush(k)) /\ WF_vars(SeedCommit(k))
  /\ SF_vars(ScriptFlush) /\ WF_vars(ScriptCommit)

FairSpec == Spec /\ Fairness

-----------------------------------------------------------------------------
TenantIds == {t.id : t \in tenants}
TenantType == [id : Nat \ {0}, slug : Slugs, origin : {"seed", "script"}]
UserType == [id : Nat \ {0}, tenant : Nat, email : Emails, password : Passwords, role : Roles,
             origin : {"seed", "script", "signup", "create"}, by : Nat]

DatabaseTypes ==
  /\ tenants \subseteq TenantType /\ lastTenant \in Nat
  /\ users \subseteq UserType /\ lastUser \in Nat
  /\ \A u \in users : u.tenant \in TenantIds

ProcessTypes ==
  /\ holder \in Containers \cup {"script", None}
  /\ phase \in [Containers -> {"down", "waiting", "migrated", "seeding", "flushed", "serving"}]
  /\ script \in {"idle", "looked", "flushed"}
  /\ missing \in [slugs : SUBSET DOMAIN ScriptTenants, accounts : SUBSET DOMAIN ScriptAccounts]

HandlerTypes ==
  /\ request \in [Clients -> Requests \cup {None}]
  /\ pc \in [Clients -> {"idle", "resolve", "find", "insert", "issue", "visit", "authenticate",
                         "logout", "authorize", "load"}]
  /\ at \in [Clients -> Containers \cup {None}]
  /\ home \in [Clients -> {0} \cup TenantIds] /\ mine \in [Clients -> Nat]
  /\ answer \in [Clients -> {"none", "lost", "no tenant", "taken", "error", "token", "created",
                             "invalid", "denied", "done"}]
  /\ session \in [Clients -> TokenType \cup {None}]
  /\ \A c \in Clients : session[c] # None => session[c].tenant \in TenantIds
  /\ asked \in 0..MaxRequests

\* TypeOK: what the variables hold; users, sessions and what a handler works on belong to
\* tenants that exist.
TypeOK == DatabaseTypes /\ ProcessTypes /\ HandlerTypes

\* RegistrySpec: users and sessions are a registry in the sense of AccountRegistry,
\* however sign-ups, the seed and the script race and whatever dies: no account is
\* replaced, no address is enrolled twice in a tenant, and nobody holds the token of an
\* account whose address and password were not shown.
Registry == INSTANCE AccountRegistry WITH
  accounts <- {[id |-> u.id, tenant |-> u.tenant, email |-> u.email, password |-> u.password] :
                 u \in users},
  session <- session
RegistrySpec == Registry!Spec

\* SeedIsWhole: a tenant that comes from the seed has all of its demo users, whatever
\* died while seeding; a later start would not add what is missing.
SeedIsWhole ==
  \A t \in tenants : t.origin = "seed" =>
    \A i \in DOMAIN SeedAccounts : SeedAccounts[i].slug = t.slug =>
      \E u \in users : /\ u.tenant = t.id /\ u.email = SeedAccounts[i].email
                       /\ u.role = SeedAccounts[i].role

\* ServingIsSeeded: with seeding on, a container only serves over a database with a
\* tenant, so that no sign-up and no guest is told there is none.
ServingIsSeeded ==
  SeedEnabled =>
    /\ \A k \in Containers : phase[k] = "serving" => tenants # {}
    /\ \A c \in Clients : answer[c] # "no tenant"

\* AdminsStayHome: an account an admin created is in the tenant of that admin, whatever
\* tenant the request named.
AdminsStayHome ==
  \A u \in users : u.origin = "create" =>
    \E a \in users : a.id = u.by /\ a.role = "ADMIN" /\ a.tenant = u.tenant

\* RefusalsAreRight: a client whose sign-up or user was refused, or broke off with an
\* error, finds the address enrolled in the tenant the handler resolved.
RefusalsAreRight ==
  \A c \in Clients : answer[c] \in {"taken", "error"} => Taken(home[c], Address(request[c]))

\* StartsSettle: a container that has been started comes to serve, or exits, although its
\* flush waits for another container's or the script's, which may itself be waiting, die
\* or be started again (entrypoint.sh:4-8, seed.py:39-87, create_test_users.py:18-24).
Settled(k) == phase[k] \in {"down", "serving"}
StartsSettle == \A k \in Containers : ~Settled(k) ~> Settled(k)
=============================================================================
