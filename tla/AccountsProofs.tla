---------------------------- MODULE AccountsProofs ----------------------------
(***************************************************************************)
(* Proofs about Accounts, for every list of demo tenants and users, every    *)
(* set of requests and any number of containers and clients: the properties  *)
(* the run checks on a small instance, and that the routes, the seed and the  *)
(* script implement AccountRegistry.                                        *)
(***************************************************************************)
EXTENDS Accounts, TLAPS

\* Ids and slugs name one tenant, ids are given out in order.
Keys ==
  /\ \A t \in tenants : t.id <= lastTenant
  /\ \A s, t \in tenants : s.slug = t.slug \/ s.id = t.id => s = t
  /\ \A u \in users : u.id <= lastUser

\* Who has flushed tenants holds the lock, and what it has flushed is not there yet.
Locks ==
  /\ \A k \in Containers : phase[k] = "flushed" =>
       holder = k /\ \A i \in DOMAIN SeedTenants : SeedTenants[i] \notin SlugsOf(tenants)
  /\ script = "flushed" => \A i \in missing.slugs :
       holder = "script" /\ ScriptTenants[i] \notin SlugsOf(tenants)

\* What the script has not found missing is there.
ScriptKnows ==
  script # "idle" => \A i \in DOMAIN ScriptTenants \ missing.slugs :
                       ScriptTenants[i] \in SlugsOf(tenants)

\* What is known of a client with request r at place p, given answer a and session s, when
\* the handler has found tenant h and created user m; us and ids are the users and tenants.
AdminOf(us, sub, tenant) == \E a \in us : a.id = sub /\ a.role = "ADMIN" /\ a.tenant = tenant

Facts(us, ids, r, p, a, h, m, s) ==
  /\ p # "idle" => r \in Requests /\ a = "none"
  /\ p = "resolve" => r.kind \in {"signup", "guest"}
  /\ p \in {"find", "issue"} => r.kind = "signup"
  /\ p \in {"authorize", "load"} => r.kind = "create"
  /\ p = "insert" => r.kind \in {"signup", "create"}
  /\ p \in {"find", "insert", "issue", "visit", "load"} => h \in ids
  \* a user is only created for an admin of the tenant
  /\ p = "load" \/ (p = "insert" /\ r.kind = "create") => s # None /\ AdminOf(us, s.sub, h)
  \* a token about to be issued names the user just created
  /\ p = "issue" => \E u \in us : /\ u.id = m /\ u.tenant = h
                                  /\ u.email = Address(r) /\ u.password = r.password
  /\ a \in {"taken", "error"} => \E u \in us : u.tenant = h /\ u.email = Address(r)

Works == \A c \in Clients :
  Facts(users, TenantIds, request[c], pc[c], answer[c], home[c], mine[c], session[c])

\* With seeding on there is a tenant whenever a container serves.
Seeded ==
  SeedEnabled =>
    /\ \A k \in Containers : phase[k] = "serving" => tenants # {}
    /\ \A c \in Clients : answer[c] # "no tenant" /\ (pc[c] # "idle" => tenants # {})

IInv == /\ TypeOK /\ Keys /\ Locks /\ ScriptKnows /\ Works /\ Seeded
        /\ SeedIsWhole /\ AdminsStayHome

-----------------------------------------------------------------------------
\* A handler works with an address.
LEMMA AddressType ==
  ASSUME NEW r \in RequestType
  PROVE  Address(r) \in Emails
BY RequestsAssumption DEF Address, RequestType

-----------------------------------------------------------------------------
\* What an insert of demo tenants adds.
LEMMA AddedTenantsFacts ==
  ASSUME DatabaseTypes, NEW list \in Seq(Slugs), NEW which \in SUBSET DOMAIN list,
         NEW origin \in {"seed", "script"}
  PROVE  /\ AddedTenants(list, which, origin) \subseteq TenantType
         /\ \A t \in AddedTenants(list, which, origin) :
              /\ t.id > lastTenant /\ t.id <= lastTenant + Len(list)
              /\ t.origin = origin
              /\ \E i \in which : t.slug = list[i] /\ t.id = lastTenant + i
         /\ \A i \in which : list[i] \in SlugsOf(AddedTenants(list, which, origin))
<1>1. DOMAIN list = 1..Len(list) /\ Len(list) \in Nat /\ \A i \in DOMAIN list : list[i] \in Slugs
  OBVIOUS
<1>2. lastTenant \in Nat
  BY DEF DatabaseTypes
<1>3. ASSUME NEW t \in AddedTenants(list, which, origin)
      PROVE  /\ t \in TenantType /\ t.origin = origin
             /\ t.id > lastTenant /\ t.id <= lastTenant + Len(list)
             /\ \E i \in which : t.slug = list[i] /\ t.id = lastTenant + i
  <2>1. PICK i \in which : t = [id |-> lastTenant + i, slug |-> list[i], origin |-> origin]
    BY DEF AddedTenants
  <2>2. i \in 1..Len(list) /\ list[i] \in Slugs
    BY <1>1
  <2>3. t.slug = list[i] /\ t.id = lastTenant + i /\ t.origin = origin /\ t \in TenantType
    BY <1>2, <2>1, <2>2 DEF TenantType
  <2>4. QED
    BY <1>1, <1>2, <2>2, <2>3
<1>4. ASSUME NEW i \in which PROVE list[i] \in SlugsOf(AddedTenants(list, which, origin))
  <2>1. [id |-> lastTenant + i, slug |-> list[i], origin |-> origin]
          \in AddedTenants(list, which, origin)
    BY DEF AddedTenants
  <2>2. QED
    BY <2>1 DEF SlugsOf
<1>5. QED
  BY <1>3, <1>4

\* TenantOf names the one tenant with the slug.
LEMMA TenantOfFacts ==
  ASSUME NEW ts, NEW slug \in SlugsOf(ts)
  PROVE  \E t \in ts : t.slug = slug /\ TenantOf(ts, slug) = t.id
BY DEF SlugsOf, TenantOf

\* The user u stands for an entry of the list, in one of the tenants ts.
StandsFor(u, list, which, ts) ==
  \E i \in which, t \in ts :
    /\ u.tenant = t.id /\ t.slug = list[i].slug
    /\ u.email = list[i].email /\ u.role = list[i].role /\ u.id = lastUser + i
    /\ u.password = SeedPassword

\* What an insert of demo users adds.
LEMMA AddedUsersFacts ==
  ASSUME DatabaseTypes, NEW ts \in SUBSET TenantType,
         NEW list \in Seq(DemoAccount), NEW which \in SUBSET DOMAIN list,
         NEW origin \in {"seed", "script"},
         \A i \in which : list[i].slug \in SlugsOf(ts)
  PROVE  /\ AddedUsers(ts, list, which, origin) \subseteq UserType
         /\ \A u \in AddedUsers(ts, list, which, origin) :
              /\ u.id <= lastUser + Len(list) /\ u.origin = origin
              /\ StandsFor(u, list, which, ts)
<1>1. DOMAIN list = 1..Len(list) /\ Len(list) \in Nat /\ \A i \in DOMAIN list : list[i] \in DemoAccount
  OBVIOUS
<1>2. ASSUME NEW i \in which
      PROVE  \E t \in ts : t.slug = list[i].slug /\ TenantOf(ts, list[i].slug) = t.id
  BY list[i].slug \in SlugsOf(ts), TenantOfFacts
<1>3. \A i \in which : TenantOf(ts, list[i].slug) \in Nat
  BY <1>2 DEF TenantType
<1>4. SeedPassword \in Passwords /\ lastUser \in Nat
  BY DemoAssumption DEF DatabaseTypes
<1>5. ASSUME NEW i \in which
      PROVE  [id |-> lastUser + i, tenant |-> TenantOf(ts, list[i].slug), email |-> list[i].email,
              password |-> SeedPassword, role |-> list[i].role, origin |-> origin, by |-> 0]
               \in UserType
  BY <1>1, <1>3, <1>4 DEF UserType, DemoAccount
<1>6. AddedUsers(ts, list, which, origin) \subseteq UserType
  BY <1>5 DEF AddedUsers
<1>7. ASSUME NEW u \in AddedUsers(ts, list, which, origin)
      PROVE  /\ u.id <= lastUser + Len(list) /\ u.origin = origin
             /\ StandsFor(u, list, which, ts)
  <2>1. PICK i \in which :
          u = [id |-> lastUser + i, tenant |-> TenantOf(ts, list[i].slug), email |-> list[i].email,
               password |-> SeedPassword, role |-> list[i].role, origin |-> origin, by |-> 0]
    BY DEF AddedUsers
  <2>2. PICK t \in ts : t.slug = list[i].slug /\ TenantOf(ts, list[i].slug) = t.id
    BY <1>2
  <2>3. i \in 1..Len(list)
    BY <1>1
  <2>4. /\ u.id = lastUser + i /\ u.tenant = t.id /\ u.email = list[i].email
        /\ u.role = list[i].role /\ u.origin = origin /\ u.password = SeedPassword
    BY <2>1, <2>2
  <2>5. u.id <= lastUser + Len(list)
    BY <1>1, <1>4, <2>3, <2>4
  <2>6. QED
    BY <2>2, <2>4, <2>5 DEF StandsFor
<1>8. QED
  BY <1>6, <1>7

\* Which steps touch the tables, and that nothing is ever taken from them.
LEMMA Commits ==
  ASSUME Next
  PROVE  \/ UNCHANGED committed
         \/ \E k \in Containers : SeedCommit(k)
         \/ ScriptCommit
         \/ \E c \in Clients : CreateUser(c)
<1>1. ASSUME NEW k \in Containers, Boot(k) \/ Crash(k)
      PROVE  UNCHANGED committed \/ SeedCommit(k)
  BY <1>1 DEF Boot, Crash, StartContainer, WaitForDb, SeedCount, SeedFlush, database
<1>2. ASSUME Script PROVE UNCHANGED committed \/ ScriptCommit
  BY <1>2 DEF Script, ScriptLooks, ScriptFlush, ScriptDies, database
<1>3. ASSUME NEW c \in Clients, Ask(c) \/ Handle(c)
      PROVE  UNCHANGED committed \/ CreateUser(c)
  BY <1>3 DEF Ask, Handle, ResolveTenant, FindExisting, IssueToken, IssueGuestToken, Login, Logout,
              Authorize, LoadTenant, database
<1>4. QED
  BY <1>1, <1>2, <1>3 DEF Next

LEMMA Growth ==
  ASSUME Next
  PROVE  /\ tenants \subseteq tenants' /\ users \subseteq users'
         /\ TenantIds \subseteq TenantIds' /\ SlugsOf(tenants) \subseteq SlugsOf(tenants')
<1>1. tenants \subseteq tenants' /\ users \subseteq users'
  BY Commits DEF SeedCommit, ScriptCommit, WithScript, CreateUser, committed
<1>2. QED
  BY <1>1 DEF TenantIds, SlugsOf

-----------------------------------------------------------------------------
\* The tables: types, keys, whole seeds and admins at home.
Tables == DatabaseTypes /\ Keys /\ SeedIsWhole /\ AdminsStayHome

\* What the registry knows of a user, and that a step enrolls no address a second time.
Account(u) == [id |-> u.id, tenant |-> u.tenant, email |-> u.email, password |-> u.password]

Enrolls == \A u \in users' \ users, v \in users' :
             u.tenant = v.tenant /\ u.email = v.email => Account(u) = Account(v)

LEMMA SeedCommitTables ==
  ASSUME IInv, NEW k \in Containers, SeedCommit(k)
  PROVE  Tables' /\ Enrolls
<1> DEFINE A == AddedTenants(SeedTenants, DOMAIN SeedTenants, "seed")
           B == AddedUsers(tenants', SeedAccounts, DOMAIN SeedAccounts, "seed")
<1>1. /\ tenants' = tenants \cup A /\ users' = users \cup B
      /\ lastTenant' = lastTenant + Len(SeedTenants) /\ lastUser' = lastUser + Len(SeedAccounts)
  BY DEF SeedCommit
<1> HIDE DEF A, B
<1>2. /\ DatabaseTypes /\ Keys /\ SeedIsWhole /\ AdminsStayHome
      /\ \A i \in DOMAIN SeedTenants : SeedTenants[i] \notin SlugsOf(tenants)
  BY DEF IInv, TypeOK, Locks, SeedCommit
<1>3. /\ SeedTenants \in Seq(Slugs) /\ SeedAccounts \in Seq(DemoAccount)
      /\ Len(SeedTenants) \in Nat /\ Len(SeedAccounts) \in Nat
      /\ DOMAIN SeedTenants = 1..Len(SeedTenants) /\ lastTenant \in Nat /\ lastUser \in Nat
  BY <1>2, DemoAssumption DEF DatabaseTypes
<1>4. /\ A \subseteq TenantType
      /\ \A t \in A : /\ t.id > lastTenant /\ t.id <= lastTenant + Len(SeedTenants)
                      /\ t.origin = "seed"
                      /\ \E i \in DOMAIN SeedTenants : t.slug = SeedTenants[i] /\ t.id = lastTenant + i
      /\ \A i \in DOMAIN SeedTenants : SeedTenants[i] \in SlugsOf(A)
  BY <1>2, <1>3, AddedTenantsFacts DEF A
<1>5. tenants' \in SUBSET TenantType
  BY <1>1, <1>2, <1>4 DEF DatabaseTypes
<1>6. \A i \in DOMAIN SeedAccounts : SeedAccounts[i].slug \in SlugsOf(tenants')
  <2>1. \A i \in DOMAIN SeedAccounts : \E j \in DOMAIN SeedTenants :
          SeedAccounts[i].slug = SeedTenants[j]
    BY DemoAssumption DEF Listed
  <2>2. SlugsOf(A) \subseteq SlugsOf(tenants')
    BY <1>1 DEF SlugsOf
  <2>3. QED
    BY <1>4, <2>1, <2>2
<1>7. /\ B \subseteq UserType
      /\ \A u \in B : /\ u.id <= lastUser + Len(SeedAccounts) /\ u.origin = "seed"
                      /\ StandsFor(u, SeedAccounts, DOMAIN SeedAccounts, tenants')
  BY <1>2, <1>3, <1>5, <1>6, AddedUsersFacts DEF B
<1>8. DatabaseTypes'
  <2>1. users' \subseteq UserType /\ lastUser' \in Nat /\ lastTenant' \in Nat
    BY <1>1, <1>2, <1>3, <1>7 DEF DatabaseTypes
  <2>2. \A u \in users' : u.tenant \in TenantIds'
    BY <1>1, <1>2, <1>7 DEF DatabaseTypes, TenantIds, StandsFor
  <2>3. QED
    BY <1>5, <2>1, <2>2 DEF DatabaseTypes
<1>9. Keys'
  <2>1. \A t \in tenants' : t.id <= lastTenant'
    BY <1>1, <1>2, <1>3, <1>4 DEF Keys, DatabaseTypes, TenantType
  <2>2. \A u \in users' : u.id <= lastUser'
    BY <1>1, <1>2, <1>3, <1>7 DEF Keys, DatabaseTypes, UserType
  <2>3. ASSUME NEW s \in A, NEW t \in A, s.slug = t.slug \/ s.id = t.id PROVE s = t
    <3>1. PICK i \in DOMAIN SeedTenants : s.slug = SeedTenants[i] /\ s.id = lastTenant + i
      BY <1>4
    <3>2. PICK j \in DOMAIN SeedTenants : t.slug = SeedTenants[j] /\ t.id = lastTenant + j
      BY <1>4
    <3>3. i = j
      BY <1>3, <2>3, <3>1, <3>2, DemoAssumption
    <3>4. s.origin = t.origin /\ s \in TenantType /\ t \in TenantType
      BY <1>4
    <3>5. QED
      BY <3>1, <3>2, <3>3, <3>4 DEF TenantType
  <2>4. ASSUME NEW s \in tenants, NEW t \in A PROVE s.slug # t.slug /\ s.id # t.id
    BY <1>2, <1>3, <1>4 DEF Keys, SlugsOf, DatabaseTypes, TenantType
  <2>5. \A s, t \in tenants' : s.slug = t.slug \/ s.id = t.id => s = t
    BY <1>1, <1>2, <2>3, <2>4 DEF Keys
  <2>6. QED
    BY <2>1, <2>2, <2>5 DEF Keys
<1>10. SeedIsWhole'
  <2> SUFFICES ASSUME NEW t \in tenants', t.origin = "seed", NEW i \in DOMAIN SeedAccounts,
                      SeedAccounts[i].slug = t.slug
               PROVE  \E u \in users' : /\ u.tenant = t.id /\ u.email = SeedAccounts[i].email
                                        /\ u.role = SeedAccounts[i].role
    BY DEF SeedIsWhole
  <2>1. PICK s \in tenants' : s.slug = t.slug /\ TenantOf(tenants', t.slug) = s.id
    BY t.slug \in SlugsOf(tenants'), TenantOfFacts DEF SlugsOf
  <2>2. s = t
    BY <1>9, <2>1 DEF Keys
  <2> DEFINE u == [id |-> lastUser + i, tenant |-> TenantOf(tenants', SeedAccounts[i].slug),
                   email |-> SeedAccounts[i].email, password |-> SeedPassword,
                   role |-> SeedAccounts[i].role, origin |-> "seed", by |-> 0]
  <2>3. u \in users'
    BY <1>1 DEF B, AddedUsers
  <2>4. u.tenant = t.id /\ u.email = SeedAccounts[i].email /\ u.role = SeedAccounts[i].role
    BY <2>1, <2>2
  <2>5. QED
    BY <2>3, <2>4
<1>11. AdminsStayHome'
  BY <1>1, <1>2, <1>7 DEF AdminsStayHome
<1>12. Enrolls
  <2> SUFFICES ASSUME NEW u \in B, NEW v \in users', u.tenant = v.tenant, u.email = v.email
               PROVE  Account(u) = Account(v)
    BY <1>1 DEF Enrolls
  <2>1. PICK i \in DOMAIN SeedAccounts, t \in tenants' :
          /\ u.tenant = t.id /\ t.slug = SeedAccounts[i].slug /\ u.email = SeedAccounts[i].email
          /\ u.id = lastUser + i /\ u.password = SeedPassword
    BY <1>7 DEF StandsFor
  <2>2. v \notin users
    <3>1. t \notin tenants
      BY <1>2, <2>1, DemoAssumption DEF Listed, SlugsOf
    <3>2. t.id > lastTenant
      BY <1>1, <1>4, <3>1
    <3>3. \A w \in users : w.tenant \in Nat /\ w.tenant <= lastTenant
      BY <1>2 DEF DatabaseTypes, Keys, TenantIds, TenantType
    <3>4. t.id \in Nat
      BY <1>5 DEF TenantType
    <3>5. SUFFICES ASSUME v \in users PROVE FALSE
      OBVIOUS
    <3>6. t.id = v.tenant /\ v.tenant \in Nat /\ v.tenant <= lastTenant /\ lastTenant \in Nat
      BY <1>3, <2>1, <3>3, <3>5
    <3>7. QED
      BY <3>2, <3>6
  <2>3. PICK j \in DOMAIN SeedAccounts, s \in tenants' :
          /\ v.tenant = s.id /\ s.slug = SeedAccounts[j].slug /\ v.email = SeedAccounts[j].email
          /\ v.id = lastUser + j /\ v.password = SeedPassword
    BY <1>1, <1>7, <2>2 DEF StandsFor
  <2>4. s = t
    BY <1>9, <2>1, <2>3 DEF Keys
  <2>5. i = j
    BY <2>1, <2>3, <2>4, DemoAssumption
  <2>6. QED
    BY <2>1, <2>3, <2>5 DEF Account
<1>13. QED
  BY <1>8, <1>9, <1>10, <1>11, <1>12 DEF Tables

LEMMA ScriptCommitTables ==
  ASSUME IInv, ScriptCommit
  PROVE  Tables' /\ Enrolls
<1> DEFINE A == AddedTenants(ScriptTenants, missing.slugs, "script")
           B == AddedUsers(WithScript, ScriptAccounts, missing.accounts, "script")
<1>1. /\ DatabaseTypes /\ Keys /\ SeedIsWhole /\ AdminsStayHome
      /\ \A i \in missing.slugs : ScriptTenants[i] \notin SlugsOf(tenants)
      /\ \A i \in DOMAIN ScriptTenants \ missing.slugs : ScriptTenants[i] \in SlugsOf(tenants)
  BY DEF IInv, TypeOK, Locks, ScriptKnows, ScriptCommit
<1>2. CASE UNCHANGED committed
  BY <1>1, <1>2 DEF committed, Tables, DatabaseTypes, Keys, SeedIsWhole, AdminsStayHome, TenantIds,
                    Enrolls
<1>3. CASE ~UNCHANGED committed
  <2>1. /\ WithScript = tenants \cup A /\ tenants' = tenants \cup A /\ users' = users \cup B
        /\ lastTenant' = IF missing.slugs = {} THEN lastTenant ELSE lastTenant + Len(ScriptTenants)
        /\ lastUser' = IF missing.accounts = {} THEN lastUser ELSE lastUser + Len(ScriptAccounts)
        /\ \A u \in B : ~Taken(u.tenant, u.email)
    BY <1>3 DEF ScriptCommit, WithScript, ScriptUsers
  <2> HIDE DEF A, B
  <2>2. /\ ScriptTenants \in Seq(Slugs) /\ ScriptAccounts \in Seq(DemoAccount)
        /\ Len(ScriptTenants) \in Nat /\ Len(ScriptAccounts) \in Nat
        /\ DOMAIN ScriptTenants = 1..Len(ScriptTenants) /\ lastTenant \in Nat /\ lastUser \in Nat
        /\ missing.slugs \in SUBSET DOMAIN ScriptTenants
        /\ missing.accounts \in SUBSET DOMAIN ScriptAccounts
    BY <1>1, DemoAssumption DEF DatabaseTypes, IInv, TypeOK, ProcessTypes
  <2>3. /\ A \subseteq TenantType
        /\ \A t \in A : /\ t.id > lastTenant /\ t.id <= lastTenant + Len(ScriptTenants)
                        /\ t.origin = "script"
                        /\ \E i \in missing.slugs : t.slug = ScriptTenants[i] /\ t.id = lastTenant + i
        /\ \A i \in missing.slugs : ScriptTenants[i] \in SlugsOf(A)
    BY <1>1, <2>2, AddedTenantsFacts DEF A
  <2>4. WithScript \in SUBSET TenantType
    BY <1>1, <2>1, <2>3 DEF DatabaseTypes
  <2>5. \A i \in missing.accounts : ScriptAccounts[i].slug \in SlugsOf(WithScript)
    <3>1. \A i \in DOMAIN ScriptAccounts : \E j \in DOMAIN ScriptTenants :
            ScriptAccounts[i].slug = ScriptTenants[j]
      BY DemoAssumption DEF Listed
    <3>2. SlugsOf(A) \subseteq SlugsOf(WithScript) /\ SlugsOf(tenants) \subseteq SlugsOf(WithScript)
      BY <2>1 DEF SlugsOf
    <3>3. QED
      BY <1>1, <2>2, <2>3, <3>1, <3>2
  <2>6. /\ B \subseteq UserType
        /\ \A u \in B : /\ u.id <= lastUser + Len(ScriptAccounts) /\ u.origin = "script"
                        /\ StandsFor(u, ScriptAccounts, missing.accounts, WithScript)
    <3>1. DatabaseTypes /\ ScriptAccounts \in Seq(DemoAccount)
          /\ missing.accounts \in SUBSET DOMAIN ScriptAccounts
      BY <1>1, <2>2
    <3>2. QED
      BY <2>4, <2>5, <3>1, AddedUsersFacts DEF B
  <2>7. DatabaseTypes'
    <3>1. tenants' \subseteq TenantType /\ users' \subseteq UserType
      BY <1>1, <2>1, <2>4, <2>6 DEF DatabaseTypes
    <3>2. lastUser' \in Nat /\ lastTenant' \in Nat
      BY <2>1, <2>2
    <3>3. \A u \in users' : u.tenant \in TenantIds'
      BY <1>1, <2>1, <2>6 DEF DatabaseTypes, TenantIds, StandsFor
    <3>4. QED
      BY <3>1, <3>2, <3>3 DEF DatabaseTypes
  <2>8. Keys'
    <3>1. \A t \in tenants' : t.id <= lastTenant'
      BY <1>1, <2>1, <2>2, <2>3 DEF Keys, DatabaseTypes, TenantType
    <3>2. \A u \in users' : u.id <= lastUser'
      <4>1. \A u \in users : u.id \in Nat /\ u.id <= lastUser
        BY <1>1 DEF Keys, DatabaseTypes, UserType
      <4>2. \A u \in B : missing.accounts # {} /\ u.id <= lastUser + Len(ScriptAccounts)
        BY <2>6 DEF StandsFor
      <4>3. QED
        BY <2>1, <2>2, <4>1, <4>2
    <3>3. ASSUME NEW s \in A, NEW t \in A, s.slug = t.slug \/ s.id = t.id PROVE s = t
      <4>1. PICK i \in missing.slugs : s.slug = ScriptTenants[i] /\ s.id = lastTenant + i
        BY <2>3
      <4>2. PICK j \in missing.slugs : t.slug = ScriptTenants[j] /\ t.id = lastTenant + j
        BY <2>3
      <4>3. i = j
        BY <2>2, <3>3, <4>1, <4>2, DemoAssumption
      <4>4. s.origin = t.origin /\ s \in TenantType /\ t \in TenantType
        BY <2>3
      <4>5. QED
        BY <4>1, <4>2, <4>3, <4>4 DEF TenantType
    <3>4. ASSUME NEW s \in tenants, NEW t \in A PROVE s.slug # t.slug /\ s.id # t.id
      BY <1>1, <2>2, <2>3 DEF Keys, SlugsOf, DatabaseTypes, TenantType
    <3>5. \A s, t \in tenants' : s.slug = t.slug \/ s.id = t.id => s = t
      BY <1>1, <2>1, <3>3, <3>4 DEF Keys
    <3>6. QED
      BY <3>1, <3>2, <3>5 DEF Keys
  <2>9. SeedIsWhole'
    BY <1>1, <2>1, <2>3 DEF SeedIsWhole
  <2>10. AdminsStayHome'
    BY <1>1, <2>1, <2>6 DEF AdminsStayHome
  <2>11. Enrolls
    <3> SUFFICES ASSUME NEW u \in B, NEW v \in users', u.tenant = v.tenant, u.email = v.email
                 PROVE  Account(u) = Account(v)
      BY <2>1 DEF Enrolls
    <3>1. PICK i \in DOMAIN ScriptAccounts, t \in tenants' :
            /\ u.tenant = t.id /\ t.slug = ScriptAccounts[i].slug
            /\ u.email = ScriptAccounts[i].email
            /\ u.id = lastUser + i /\ u.password = SeedPassword
      BY <2>1, <2>2, <2>6 DEF StandsFor
    <3>2. v \in B
      BY <2>1 DEF Taken
    <3>3. PICK j \in DOMAIN ScriptAccounts, s \in tenants' :
            /\ v.tenant = s.id /\ s.slug = ScriptAccounts[j].slug
            /\ v.email = ScriptAccounts[j].email
            /\ v.id = lastUser + j /\ v.password = SeedPassword
      BY <2>1, <2>2, <2>6, <3>2 DEF StandsFor
    <3>4. s = t
      BY <2>8, <3>1, <3>3 DEF Keys
    <3>5. i = j
      BY <3>1, <3>3, <3>4, DemoAssumption
    <3>6. QED
      BY <3>1, <3>3, <3>5 DEF Account
  <2>12. QED
    BY <2>7, <2>8, <2>9, <2>10, <2>11 DEF Tables
<1>4. QED
  BY <1>2, <1>3

\* What the routes insert.
LEMMA NewUserFacts ==
  ASSUME IInv, NEW c \in Clients, pc[c] = "insert"
  PROVE  /\ NewUser(c) \in UserType /\ NewUser(c).tenant \in TenantIds
         /\ NewUser(c).id = lastUser + 1
         /\ NewUser(c).origin = "create" => AdminOf(users, NewUser(c).by, NewUser(c).tenant)
<1>1. /\ request[c] \in RequestType /\ request[c].kind \in {"signup", "create"}
      /\ home[c] \in TenantIds
  BY RequestsAssumption DEF IInv, Works, Facts
<1>2. home[c] \in Nat /\ lastUser \in Nat
  BY <1>1 DEF IInv, TypeOK, DatabaseTypes, TenantIds, TenantType
<1>3. request[c].kind = "create" =>
        session[c].sub \in Nat /\ AdminOf(users, session[c].sub, home[c])
  BY DEF IInv, Works, Facts, TypeOK, HandlerTypes, TokenType
<1>4. "NORMAL" \in Roles /\ request[c].role \in Roles
  BY <1>1 DEF Roles, RequestType
<1>5. QED
  BY <1>1, <1>2, <1>3, <1>4, AddressType DEF NewUser, UserType, RequestType

LEMMA CreateUserTables ==
  ASSUME IInv, NEW c \in Clients, CreateUser(c)
  PROVE  Tables' /\ Enrolls
<1>1. DatabaseTypes /\ Keys /\ SeedIsWhole /\ AdminsStayHome
  BY DEF IInv, TypeOK
<1>2. CASE UNCHANGED <<users, lastUser>>
  BY <1>1, <1>2 DEF CreateUser, Tables, DatabaseTypes, Keys, SeedIsWhole, AdminsStayHome, TenantIds,
                    Enrolls
<1>3. CASE ~Taken(home[c], Address(request[c])) /\ users' = users \cup {NewUser(c)} /\ lastUser' = lastUser + 1
  <2>1. /\ NewUser(c) \in UserType /\ NewUser(c).tenant \in TenantIds
        /\ NewUser(c).id = lastUser + 1
        /\ NewUser(c).origin = "create" => AdminOf(users, NewUser(c).by, NewUser(c).tenant)
    BY NewUserFacts DEF CreateUser, At
  <2>2. tenants' = tenants /\ lastTenant' = lastTenant /\ TenantIds' = TenantIds
    BY DEF CreateUser, TenantIds
  <2>3. DatabaseTypes'
    BY <1>1, <1>3, <2>1, <2>2 DEF DatabaseTypes
  <2>4. Keys'
    BY <1>1, <1>3, <2>1, <2>2 DEF Keys, DatabaseTypes, UserType
  <2>5. SeedIsWhole'
    BY <1>1, <1>3, <2>2 DEF SeedIsWhole
  <2>6. AdminsStayHome'
    BY <1>1, <1>3, <2>1 DEF AdminsStayHome, AdminOf
  <2>7. NewUser(c).tenant = home[c] /\ NewUser(c).email = Address(request[c])
    BY DEF NewUser
  <2>8. Enrolls
    BY <1>3, <2>7 DEF Enrolls, Taken
  <2>9. QED
    BY <2>3, <2>4, <2>5, <2>6, <2>8 DEF Tables
<1>4. QED
  BY <1>2, <1>3 DEF CreateUser

LEMMA TablesStep ==
  ASSUME IInv, Next
  PROVE  Tables' /\ Enrolls
<1>1. CASE UNCHANGED committed
  BY <1>1 DEF committed, IInv, TypeOK, Tables, DatabaseTypes, Keys, SeedIsWhole, AdminsStayHome,
              TenantIds, Enrolls
<1>2. QED
  BY <1>1, Commits, SeedCommitTables, ScriptCommitTables, CreateUserTables

-----------------------------------------------------------------------------
\* The processes that insert demo data: the lock keeps what they have looked up true.
Processes == ProcessTypes /\ Locks /\ ScriptKnows

LEMMA BootStep ==
  ASSUME IInv, NEW k \in Containers, Boot(k) \/ Crash(k)
  PROVE  Processes'
<1> USE RequestsAssumption
<1>1. ProcessTypes /\ Locks /\ ScriptKnows
  BY DEF IInv, TypeOK
<1>2. CASE UNCHANGED committed
  <2>1. SlugsOf(tenants)' = SlugsOf(tenants)
    BY <1>2 DEF committed, SlugsOf
  <2>2. ProcessTypes'
    BY <1>1, <1>2 DEF ProcessTypes, Boot, StartContainer, WaitForDb, SeedCount, SeedFlush,
                      SeedCommit, Crash, Goto, database
  <2>3. ScriptKnows'
    BY <1>1, <2>1 DEF ScriptKnows, Boot, StartContainer, WaitForDb, SeedCount, SeedFlush,
                      SeedCommit, Crash, Goto, database
  <2>4. Locks'
    <3>1. CASE StartContainer(k) \/ WaitForDb(k) \/ SeedCount(k)
      BY <1>1, <2>1, <3>1 DEF Locks, ProcessTypes, StartContainer, WaitForDb, SeedCount, Goto,
                              database
    <3>2. CASE SeedFlush(k)
      <4>1. holder = None /\ UNCHANGED <<script, missing>>
        BY <3>2 DEF SeedFlush
      <4>2. /\ \A j \in Containers : phase[j] # "flushed"
            /\ script = "flushed" => missing.slugs = {}
        BY <1>1, <4>1 DEF Locks, ProcessTypes
      <4>3. CASE SlugsOf(tenants) \cap Listed(SeedTenants) # {}
        BY <1>1, <2>1, <3>2, <4>1, <4>2, <4>3 DEF Locks, ProcessTypes, SeedFlush, Goto
      <4>4. CASE SlugsOf(tenants) \cap Listed(SeedTenants) = {}
        <5>1. holder' = k /\ phase' = [phase EXCEPT ![k] = "flushed"]
          BY <3>2, <4>4 DEF SeedFlush, Goto
        <5>2. \A i \in DOMAIN SeedTenants : SeedTenants[i] \notin SlugsOf(tenants)'
          BY <2>1, <4>4 DEF Listed
        <5>3. QED
          BY <1>1, <4>1, <4>2, <5>1, <5>2 DEF Locks, ProcessTypes
      <4>5. QED
        BY <4>3, <4>4
    <3>3. CASE SeedCommit(k)
      BY <1>1, <2>1, <3>3 DEF Locks, ProcessTypes, SeedCommit, Goto
    <3>4. CASE Crash(k)
      BY <1>1, <2>1, <3>4 DEF Locks, ProcessTypes, Crash, Goto
    <3>5. QED
      BY <3>1, <3>2, <3>3, <3>4 DEF Boot
  <2>5. QED
    BY <2>2, <2>3, <2>4 DEF Processes
<1>3. CASE SeedCommit(k)
  <2>1. SlugsOf(tenants) \subseteq SlugsOf(tenants)'
    BY <1>3 DEF SeedCommit, SlugsOf
  <2>2. ProcessTypes'
    BY <1>1, <1>3 DEF ProcessTypes, SeedCommit, Goto
  <2>3. ScriptKnows'
    BY <1>1, <1>3, <2>1 DEF ScriptKnows, SeedCommit
  <2>4. holder = k /\ k # "script"
    BY <1>1, <1>3 DEF Locks, SeedCommit
  <2>5. Locks'
    BY <1>1, <1>3, <2>4 DEF Locks, ProcessTypes, SeedCommit, Goto
  <2>6. QED
    BY <2>2, <2>3, <2>5 DEF Processes
<1>4. QED
  BY <1>2, <1>3 DEF Boot, Crash, StartContainer, WaitForDb, SeedCount, SeedFlush, database

LEMMA ScriptStep ==
  ASSUME IInv, Script
  PROVE  Processes'
<1> USE RequestsAssumption
<1>1. ProcessTypes /\ Locks /\ ScriptKnows
  BY DEF IInv, TypeOK
<1>2. ProcessTypes'
  BY <1>1 DEF ProcessTypes, Script, ScriptLooks, ScriptFlush, ScriptCommit, ScriptDies, Nothing,
              database
<1>3. ScriptKnows'
  BY <1>1 DEF ScriptKnows, Script, ScriptLooks, ScriptFlush, ScriptCommit, ScriptDies, database,
              committed, SlugsOf, ProcessTypes
<1>4. Locks'
  <2>1. CASE ScriptLooks
    BY <1>1, <2>1 DEF Locks, ScriptLooks, database, committed, SlugsOf
  <2>2. CASE ScriptFlush
    <3>1. SlugsOf(tenants)' = SlugsOf(tenants) /\ phase' = phase
      BY <2>2 DEF ScriptFlush, committed, SlugsOf
    <3>2. CASE script' = "flushed" /\ holder' = "script" /\ missing' = missing /\ holder = None
               /\ \A i \in missing.slugs : ScriptTenants[i] \notin SlugsOf(tenants)
      BY <1>1, <3>1, <3>2 DEF Locks
    <3>3. CASE missing.slugs = {} /\ UNCHANGED <<missing, holder>>
      BY <1>1, <3>1, <3>3 DEF Locks
    <3>4. CASE script' = "idle" /\ UNCHANGED holder
      BY <1>1, <3>1, <3>4 DEF Locks
    <3>5. QED
      BY <2>2, <3>2, <3>3, <3>4 DEF ScriptFlush
  <2>3. CASE ScriptCommit
    <3>1. CASE holder = "script"
      BY <1>1, <2>3, <3>1 DEF Locks, ScriptCommit
    <3>2. CASE holder # "script"
      <4>1. missing.slugs = {}
        BY <1>1, <2>3, <3>2 DEF Locks, ScriptCommit, ProcessTypes
      <4>2. SlugsOf(tenants)' = SlugsOf(tenants)
        BY <2>3, <4>1 DEF ScriptCommit, committed, WithScript, AddedTenants, SlugsOf
      <4>3. QED
        BY <1>1, <2>3, <3>2, <4>2 DEF Locks, ScriptCommit
    <3>3. QED
      BY <3>1, <3>2
  <2>4. CASE ScriptDies
    BY <1>1, <2>4 DEF Locks, ScriptDies, committed, SlugsOf
  <2>5. QED
    BY <2>1, <2>2, <2>3, <2>4 DEF Script
<1>5. QED
  BY <1>2, <1>3, <1>4 DEF Processes

LEMMA ProcessesStep ==
  ASSUME IInv, Next
  PROVE  Processes'
<1>1. ASSUME NEW c \in Clients, Ask(c) \/ Handle(c)
      PROVE  Processes'
  <2>1. UNCHANGED <<tenants, holder, phase, script, missing>>
    BY <1>1 DEF Ask, Handle, ResolveTenant, FindExisting, CreateUser, IssueToken, IssueGuestToken,
                Login, Logout, Authorize, LoadTenant, elsewhere, database, committed
  <2>2. QED
    BY <2>1 DEF IInv, TypeOK, Processes, ProcessTypes, Locks, ScriptKnows, SlugsOf
<1>2. QED
  BY <1>1, BootStep, ScriptStep DEF Next

-----------------------------------------------------------------------------
\* The requests at work.
LEMMA FactsGrow ==
  ASSUME NEW us, NEW us2, us \subseteq us2, NEW ids, NEW ids2, ids \subseteq ids2,
         NEW r, NEW p, NEW a, NEW h, NEW m, NEW s, Facts(us, ids, r, p, a, h, m, s)
  PROVE  Facts(us2, ids2, r, p, a, h, m, s)
BY DEF Facts, AdminOf

Points == {"idle", "resolve", "find", "insert", "issue", "visit", "authenticate", "logout",
           "authorize", "load"}
Answers == {"none", "lost", "no tenant", "taken", "error", "token", "created", "invalid",
            "denied", "done"}

\* A step of one client, with what its variables become.
Moves(c, r, p, k, a, h, m, s) ==
  /\ request' = [request EXCEPT ![c] = r] /\ pc' = [pc EXCEPT ![c] = p]
  /\ at' = [at EXCEPT ![c] = k] /\ answer' = [answer EXCEPT ![c] = a]
  /\ home' = [home EXCEPT ![c] = h] /\ mine' = [mine EXCEPT ![c] = m]
  /\ session' = [session EXCEPT ![c] = s]

LEMMA Moved ==
  ASSUME IInv, Next, NEW c \in Clients,
         NEW r \in Requests \cup {None}, NEW p \in Points, NEW k \in Containers \cup {None},
         NEW a \in Answers, NEW h, NEW m \in Nat, NEW s \in TokenType \cup {None},
         h \in {0} \cup TenantIds', s # None => s.tenant \in TenantIds',
         Moves(c, r, p, k, a, h, m, s), asked' \in 0..MaxRequests,
         Facts(users', TenantIds', r, p, a, h, m, s)
  PROVE  HandlerTypes' /\ Works'
<1>1. users \subseteq users' /\ TenantIds \subseteq TenantIds'
  BY Growth
<1>2. HandlerTypes /\ Works
  BY DEF IInv, TypeOK
<1>3. HandlerTypes'
  <2>1. /\ request' \in [Clients -> Requests \cup {None}] /\ pc' \in [Clients -> Points]
        /\ at' \in [Clients -> Containers \cup {None}] /\ mine' \in [Clients -> Nat]
        /\ answer' \in [Clients -> Answers]
    BY <1>2 DEF HandlerTypes, Moves, Points, Answers
  <2>2. home' \in [Clients -> {0} \cup TenantIds']
    BY <1>1, <1>2 DEF HandlerTypes, Moves
  <2>3. session' \in [Clients -> TokenType \cup {None}]
    BY <1>2 DEF HandlerTypes, Moves
  <2>4. \A d \in Clients : session'[d] # None => session'[d].tenant \in TenantIds'
    BY <1>1, <1>2 DEF HandlerTypes, Moves
  <2>5. QED
    BY <2>1, <2>2, <2>3, <2>4 DEF HandlerTypes, Points, Answers
<1>4. ASSUME NEW d \in Clients
      PROVE  Facts(users', TenantIds', request'[d], pc'[d], answer'[d], home'[d], mine'[d],
                   session'[d])
  <2>1. CASE d = c
    <3>1. /\ request'[d] = r /\ pc'[d] = p /\ answer'[d] = a /\ home'[d] = h /\ mine'[d] = m
          /\ session'[d] = s
      BY <1>2, <2>1 DEF HandlerTypes, Moves
    <3>2. QED
      BY <3>1
  <2>2. CASE d # c
    <3>1. /\ request'[d] = request[d] /\ pc'[d] = pc[d] /\ answer'[d] = answer[d]
          /\ home'[d] = home[d] /\ mine'[d] = mine[d] /\ session'[d] = session[d]
      BY <1>2, <2>2 DEF HandlerTypes, Moves
    <3>2. Facts(users, TenantIds, request[d], pc[d], answer[d], home[d], mine[d], session[d])
      BY <1>2 DEF Works
    <3>3. QED
      BY <1>1, <3>1, <3>2, FactsGrow
  <2>3. QED
    BY <2>1, <2>2
<1>5. QED
  BY <1>3, <1>4 DEF Works

\* A step of somebody else only adds tenants and users.
LEMMA WorksFrame ==
  ASSUME IInv, Next, UNCHANGED handlers
  PROVE  HandlerTypes' /\ Works'
<1>1. users \subseteq users' /\ TenantIds \subseteq TenantIds'
  BY Growth
<1>2. HandlerTypes'
  BY <1>1 DEF IInv, TypeOK, HandlerTypes, handlers
<1>3. Works'
  BY <1>1, FactsGrow DEF IInv, Works, handlers
<1>4. QED
  BY <1>2, <1>3

LEMMA WorksCrash ==
  ASSUME IInv, NEW k \in Containers, Crash(k)
  PROVE  HandlerTypes' /\ Works'
<1>1. UNCHANGED <<tenants, users, request, home, mine, session, asked>> /\ TenantIds' = TenantIds
  BY DEF Crash, committed, TenantIds
<1>2. HandlerTypes'
  BY <1>1 DEF IInv, TypeOK, HandlerTypes, Crash
<1>3. \A c \in Clients :
        \/ pc'[c] = "idle" /\ answer'[c] = "lost"
        \/ pc'[c] = pc[c] /\ answer'[c] = answer[c]
  BY DEF Crash
<1>4. Works'
  BY <1>1, <1>3 DEF IInv, Works, Facts
<1>5. QED
  BY <1>2, <1>4

LEMMA WorksAsk ==
  ASSUME IInv, NEW c \in Clients, Ask(c)
  PROVE  HandlerTypes' /\ Works'
<1>1. PICK r \in Requests, k \in Containers :
        /\ request' = [request EXCEPT ![c] = r] /\ at' = [at EXCEPT ![c] = k]
        /\ pc' = [pc EXCEPT ![c] = FirstStep(r)]
  BY DEF Ask, Step
<1>2. r.kind \in Kinds
  BY RequestsAssumption DEF RequestType
<1>3. /\ FirstStep(r) \in {"resolve", "authenticate", "authorize", "logout"}
      /\ FirstStep(r) = "resolve" => r.kind \in {"signup", "guest"}
      /\ FirstStep(r) = "authorize" => r.kind = "create"
  BY <1>2 DEF FirstStep, Kinds
<1>4. Moves(c, r, FirstStep(r), k, "none", 0, 0, session[c])
  BY <1>1 DEF Ask, Moves, IInv, TypeOK, HandlerTypes
<1>5. /\ session[c] \in TokenType \cup {None} /\ asked' \in 0..MaxRequests
      /\ session[c] # None => session[c].tenant \in TenantIds'
  <2>1. asked' = asked + 1 /\ asked < MaxRequests /\ asked \in 0..MaxRequests
    BY DEF Ask, IInv, TypeOK, HandlerTypes
  <2>2. asked' \in 0..MaxRequests
    BY <2>1, RequestsAssumption
  <2>3. TenantIds' = TenantIds
    BY DEF Ask, TenantIds, database, committed
  <2>4. QED
    BY <2>2, <2>3 DEF IInv, TypeOK, HandlerTypes
<1>6. Facts(users', TenantIds', r, FirstStep(r), "none", 0, 0, session[c])
  BY <1>3 DEF Facts
<1>7. Next
  BY DEF Next
<1>8. FirstStep(r) \in Points /\ "none" \in Answers
  BY <1>3 DEF Points, Answers
<1>9. QED
  BY <1>4, <1>5, <1>6, <1>7, <1>8, Moved

\* What a handler's step finds.
LEMMA Handling ==
  ASSUME IInv, NEW c \in Clients, Handle(c)
  PROVE  /\ Next /\ UNCHANGED <<tenants, request, asked>> /\ TenantIds' = TenantIds
         /\ users \subseteq users' /\ asked' \in 0..MaxRequests
         /\ HandlerTypes /\ request[c] \in Requests \cup {None} /\ home[c] \in {0} \cup TenantIds'
         /\ mine[c] \in Nat /\ session[c] \in TokenType \cup {None}
         /\ session[c] # None => session[c].tenant \in TenantIds'
         /\ at[c] \in Containers \cup {None}
         /\ request' = [request EXCEPT ![c] = request[c]]
         /\ Facts(users, TenantIds, request[c], pc[c], answer[c], home[c], mine[c], session[c])
<1>1. Next
  BY DEF Next
<1>2. UNCHANGED <<tenants, request, asked>>
  BY DEF Handle, ResolveTenant, FindExisting, CreateUser, IssueToken, IssueGuestToken, Login,
         Logout, Authorize, LoadTenant, elsewhere, handled, committed
<1>3. TenantIds' = TenantIds /\ users \subseteq users'
  BY <1>1, <1>2, Growth DEF TenantIds
<1>4. HandlerTypes /\ Works
  BY DEF IInv, TypeOK
<1>5. QED
  BY <1>1, <1>2, <1>3, <1>4 DEF HandlerTypes, Works

LEMMA WorksHandle ==
  ASSUME IInv, NEW c \in Clients, Handle(c)
  PROVE  HandlerTypes' /\ Works'
<1> DEFINE Is(p, a, h, m, s) ==
      /\ p \in Points /\ a \in Answers /\ h \in {0} \cup TenantIds' /\ m \in Nat
      /\ s \in TokenType \cup {None} /\ (s # None => s.tenant \in TenantIds')
      /\ \E k \in Containers \cup {None} : Moves(c, request[c], p, k, a, h, m, s)
      /\ Facts(users', TenantIds', request[c], p, a, h, m, s)
<1>1. ASSUME NEW p, NEW a, NEW h, NEW m, NEW s, Is(p, a, h, m, s)
      PROVE  HandlerTypes' /\ Works'
  BY <1>1, Handling, Moved
<1>2. ASSUME NEW a \in Answers \ {"taken", "error"}, NEW s \in TokenType \cup {None},
             s # None => s.tenant \in TenantIds',
             Answer(c, a), UNCHANGED <<home, mine>>, session' = [session EXCEPT ![c] = s]
      PROVE  HandlerTypes' /\ Works'
  <2>1. Moves(c, request[c], "idle", None, a, home[c], mine[c], s)
    BY <1>2, Handling DEF Moves, Answer, Step, HandlerTypes
  <2>2. Facts(users', TenantIds', request[c], "idle", a, home[c], mine[c], s)
    BY DEF Facts
  <2>3. QED
    BY <1>1, <1>2, <2>1, <2>2, Handling DEF Points
<1>3. ASSUME NEW a \in {"taken", "error"}, Answer(c, a), UNCHANGED <<home, mine, session>>,
             Taken(home[c], Address(request[c]))
      PROVE  HandlerTypes' /\ Works'
  <2>1. Moves(c, request[c], "idle", None, a, home[c], mine[c], session[c])
    BY <1>3, Handling DEF Moves, Answer, Step, HandlerTypes
  <2>2. Facts(users', TenantIds', request[c], "idle", a, home[c], mine[c], session[c])
    BY <1>3, Handling DEF Facts, Taken
  <2>3. QED
    BY <1>1, <2>1, <2>2, Handling DEF Points, Answers
<1>4. ASSUME NEW p \in Points, NEW h \in {0} \cup TenantIds', NEW m \in Nat, UNCHANGED session,
             Continue(c, p), home' = [home EXCEPT ![c] = h], mine' = [mine EXCEPT ![c] = m],
             pc[c] # "idle", Facts(users', TenantIds', request[c], p, "none", h, m, session[c])
      PROVE  HandlerTypes' /\ Works'
  <2>1. answer[c] = "none"
    BY <1>4, Handling DEF Facts
  <2>2. Moves(c, request[c], p, at[c], "none", h, m, session[c])
    BY <1>4, <2>1, Handling DEF Moves, Continue, Step, HandlerTypes
  <2>3. QED
    BY <1>1, <1>4, <2>2, Handling DEF Answers
<1> HIDE DEF Is
<1>5. CASE ResolveTenant(c)
  <2>1. CASE Answer(c, "no tenant") /\ UNCHANGED <<home, mine, session>>
    <3>1. session' = [session EXCEPT ![c] = session[c]] /\ "no tenant" \in Answers
      BY <2>1, Handling DEF HandlerTypes, Answers
    <3>2. QED
      BY <1>2, <2>1, <3>1, Handling
  <2>2. ASSUME NEW id \in Resolved(request[c].slug), home' = [home EXCEPT ![c] = id],
               Continue(c, IF request[c].kind = "guest" THEN "visit" ELSE "find"),
               UNCHANGED <<mine, session>>
        PROVE  HandlerTypes' /\ Works'
    <3> DEFINE p == IF request[c].kind = "guest" THEN "visit" ELSE "find"
    <3>1. id \in TenantIds'
      BY Handling DEF Resolved, TenantIds, Named, FirstTenant
    <3>2. pc[c] = "resolve" /\ request[c] \in Requests /\ request[c].kind \in {"signup", "guest"}
      BY <1>5, Handling DEF ResolveTenant, At, Facts
    <3>3. Facts(users', TenantIds', request[c], p, "none", id, mine[c], session[c])
      BY <3>1, <3>2 DEF Facts
    <3>4. mine' = [mine EXCEPT ![c] = mine[c]] /\ p \in Points
      BY <2>2, Handling DEF HandlerTypes, Points
    <3>5. QED
      BY <1>4, <2>2, <3>1, <3>2, <3>3, <3>4, Handling
  <2>3. QED
    BY <1>5, <2>1, <2>2 DEF ResolveTenant
<1>6. CASE FindExisting(c)
  <2>1. /\ UNCHANGED <<home, mine, session>> /\ pc[c] = "find" /\ request[c] \in Requests
        /\ request[c].kind = "signup" /\ home[c] \in TenantIds'
    BY <1>6, Handling DEF FindExisting, At, Facts
  <2>2. CASE Taken(home[c], Address(request[c])) /\ Answer(c, "taken")
    BY <1>3, <2>1, <2>2
  <2>3. CASE Continue(c, "insert")
    <3>1. Facts(users', TenantIds', request[c], "insert", "none", home[c], mine[c], session[c])
      BY <2>1 DEF Facts
    <3>2. home' = [home EXCEPT ![c] = home[c]] /\ mine' = [mine EXCEPT ![c] = mine[c]]
      BY <2>1, Handling DEF HandlerTypes
    <3>3. QED
      BY <1>4, <2>1, <2>3, <3>1, <3>2, Handling DEF Points
  <2>4. QED
    BY <1>6, <2>2, <2>3 DEF FindExisting
<1>7. CASE CreateUser(c)
  <2>1. /\ UNCHANGED <<home, session>> /\ pc[c] = "insert" /\ request[c] \in Requests
        /\ home[c] \in TenantIds' /\ lastUser + 1 \in Nat
        /\ home' = [home EXCEPT ![c] = home[c]]
    <3>1. UNCHANGED <<home, session>> /\ pc[c] = "insert"
      BY <1>7 DEF CreateUser, At
    <3>2. request[c] \in Requests /\ home[c] \in TenantIds'
      BY <3>1, Handling DEF Facts
    <3>3. lastUser + 1 \in Nat
      BY DEF IInv, TypeOK, DatabaseTypes
    <3>4. home' = [home EXCEPT ![c] = home[c]]
      BY <3>1, Handling DEF HandlerTypes
    <3>5. QED
      BY <3>1, <3>2, <3>3, <3>4
  <2>2. CASE Taken(home[c], Address(request[c])) /\ Answer(c, "error") /\ UNCHANGED mine
    BY <1>3, <2>1, <2>2
  <2>3. CASE /\ users' = users \cup {NewUser(c)} /\ mine' = [mine EXCEPT ![c] = lastUser + 1]
             /\ request[c].kind = "signup" /\ Continue(c, "issue")
    <3>1. /\ NewUser(c).id = lastUser + 1 /\ NewUser(c).tenant = home[c]
          /\ NewUser(c).email = Address(request[c]) /\ NewUser(c).password = request[c].password
      BY DEF NewUser
    <3>2. Facts(users', TenantIds', request[c], "issue", "none", home[c], lastUser + 1, session[c])
      BY <2>1, <2>3, <3>1 DEF Facts
    <3>3. QED
      BY <1>4, <2>1, <2>3, <3>2, Handling DEF Points
  <2>4. CASE Answer(c, "created") /\ mine' = [mine EXCEPT ![c] = lastUser + 1]
    <3>1. Moves(c, request[c], "idle", None, "created", home[c], lastUser + 1, session[c])
      BY <2>1, <2>4, Handling DEF Moves, Answer, Step, HandlerTypes
    <3>2. Facts(users', TenantIds', request[c], "idle", "created", home[c], lastUser + 1, session[c])
      BY DEF Facts
    <3>3. QED
      BY <1>1, <2>1, <3>1, <3>2, Handling DEF Is, Points, Answers
  <2>5. QED
    BY <1>7, <2>2, <2>3, <2>4 DEF CreateUser
<1>8. CASE IssueToken(c) \/ IssueGuestToken(c)
  <2>1. PICK sub \in Nat :
          /\ UNCHANGED <<home, mine>> /\ pc[c] \in {"issue", "visit"} /\ Answer(c, "token")
          /\ session' = [session EXCEPT ![c] = Token(c, sub, home[c])]
    BY <1>8, Handling DEF IssueToken, IssueGuestToken, At
  <2>2. request[c] \in RequestType /\ home[c] \in TenantIds' /\ home[c] \in Nat
    BY <2>1, Handling, RequestsAssumption
    DEF Facts, TenantIds, IInv, TypeOK, DatabaseTypes, TenantType
  <2>3. Token(c, sub, home[c]) \in TokenType /\ Token(c, sub, home[c]).tenant \in TenantIds'
    BY <2>2, AddressType DEF Token, TokenType, RequestType
  <2>4. QED
    BY <1>2, <2>1, <2>3 DEF Answers
<1>9. CASE Login(c)
  <2>1. /\ UNCHANGED <<home, mine>> /\ pc[c] = "authenticate" /\ request[c] \in RequestType
    BY <1>9, Handling, RequestsAssumption DEF Login, At, Facts
  <2>2. CASE Answer(c, "invalid") /\ UNCHANGED session
    <3>1. session' = [session EXCEPT ![c] = session[c]] /\ "invalid" \in Answers
      BY <2>2, Handling DEF HandlerTypes, Answers
    <3>2. QED
      BY <1>2, <2>1, <2>2, <3>1, Handling
  <2>3. ASSUME NEW u \in users, Answer(c, "token"),
               session' = [session EXCEPT ![c] = Token(c, u.id, u.tenant)]
        PROVE  HandlerTypes' /\ Works'
    <3>1. u \in UserType /\ u.tenant \in TenantIds'
      BY Handling DEF IInv, TypeOK, DatabaseTypes
    <3>2. Token(c, u.id, u.tenant) \in TokenType /\ Token(c, u.id, u.tenant).tenant \in TenantIds'
      BY <2>1, <3>1, AddressType DEF Token, TokenType, RequestType, UserType
    <3>3. QED
      BY <1>2, <2>1, <2>3, <3>2 DEF Answers
  <2>4. QED
    BY <1>9, <2>2, <2>3 DEF Login, Addressed
<1>10. CASE Logout(c)
  <2>1. /\ UNCHANGED <<home, mine>> /\ Answer(c, "done")
        /\ session' = [session EXCEPT ![c] = None]
    BY <1>10 DEF Logout
  <2>2. QED
    BY <1>2, <2>1 DEF Answers
<1>11. CASE Authorize(c)
  <2>1. /\ UNCHANGED <<mine, session>> /\ pc[c] = "authorize" /\ request[c] \in Requests
        /\ request[c].kind = "create"
        /\ session' = [session EXCEPT ![c] = session[c]]
        /\ mine' = [mine EXCEPT ![c] = mine[c]]
    BY <1>11, Handling DEF Authorize, At, Facts, HandlerTypes
  <2>2. CASE Answer(c, "denied") /\ UNCHANGED home
    BY <1>2, <2>1, <2>2, Handling DEF Answers
  <2>3. ASSUME NEW u \in CurrentAdmins(c), home' = [home EXCEPT ![c] = u.tenant],
               Continue(c, "load")
        PROVE  HandlerTypes' /\ Works'
    <3>1. /\ u \in users' /\ u.tenant \in TenantIds' /\ session[c] # None
          /\ u.id = session[c].sub /\ u.role = "ADMIN"
      BY Handling DEF CurrentAdmins, IInv, TypeOK, DatabaseTypes
    <3>2. Facts(users', TenantIds', request[c], "load", "none", u.tenant, mine[c], session[c])
      BY <2>1, <3>1 DEF Facts, AdminOf
    <3>3. QED
      <4>1. "load" \in Points /\ u.tenant \in {0} \cup TenantIds' /\ mine[c] \in Nat
        BY <3>1, Handling DEF Points
      <4>2. UNCHANGED session /\ pc[c] # "idle" /\ mine' = [mine EXCEPT ![c] = mine[c]]
        BY <2>1
      <4>3. QED
        BY <1>4, <2>3, <3>2, <4>1, <4>2
  <2>4. QED
    BY <1>11, <2>2, <2>3 DEF Authorize
<1>12. CASE LoadTenant(c)
  <2>1. /\ UNCHANGED <<home, mine, session>> /\ pc[c] = "load" /\ request[c] \in Requests
        /\ request[c].kind = "create" /\ home[c] \in TenantIds'
        /\ session[c] # None /\ AdminOf(users', session[c].sub, home[c])
        /\ session' = [session EXCEPT ![c] = session[c]]
        /\ home' = [home EXCEPT ![c] = home[c]] /\ mine' = [mine EXCEPT ![c] = mine[c]]
    BY <1>12, Handling DEF LoadTenant, At, Facts, HandlerTypes, AdminOf
  <2>2. CASE Answer(c, "denied")
    BY <1>2, <2>1, <2>2, Handling DEF Answers
  <2>3. CASE Continue(c, "insert")
    <3>1. Facts(users', TenantIds', request[c], "insert", "none", home[c], mine[c], session[c])
      BY <2>1 DEF Facts
    <3>2. QED
      BY <1>4, <2>1, <2>3, <3>1, Handling DEF Points
  <2>4. QED
    BY <1>12, <2>2, <2>3 DEF LoadTenant
<1>13. QED
  BY <1>5, <1>6, <1>7, <1>8, <1>9, <1>10, <1>11, <1>12 DEF Handle

LEMMA WorksStep ==
  ASSUME IInv, Next
  PROVE  HandlerTypes' /\ Works'
<1>1. ASSUME NEW k \in Containers, Boot(k) PROVE UNCHANGED handlers
  BY <1>1 DEF Boot, StartContainer, WaitForDb, SeedCount, SeedFlush, SeedCommit
<1>2. ASSUME Script PROVE UNCHANGED handlers
  BY <1>2 DEF Script, ScriptLooks, ScriptFlush, ScriptCommit, ScriptDies
<1>3. QED
  BY <1>1, <1>2, WorksFrame, WorksCrash, WorksAsk, WorksHandle DEF Next

-----------------------------------------------------------------------------
\* With seeding on, a container serves over a database with a tenant.
LEMMA SeededStep ==
  ASSUME IInv, Next
  PROVE  Seeded'
<1> SUFFICES ASSUME SeedEnabled
             PROVE  /\ \A k \in Containers : phase'[k] = "serving" => tenants' # {}
                    /\ \A c \in Clients : /\ answer'[c] # "no tenant"
                                          /\ pc'[c] # "idle" => tenants' # {}
  BY DEF Seeded
<1>1. /\ tenants \subseteq tenants' /\ ProcessTypes /\ HandlerTypes
      /\ \A k \in Containers : phase[k] = "serving" => tenants # {}
      /\ \A c \in Clients : answer[c] # "no tenant" /\ (pc[c] # "idle" => tenants # {})
  BY Growth DEF IInv, TypeOK, Seeded
<1>2. ASSUME NEW k \in Containers, Boot(k)
      PROVE  \A j \in Containers : phase'[j] = "serving" => tenants' # {}
  <2>1. CASE SeedCommit(k)
    <3>1. 1 \in DOMAIN SeedTenants
      BY DemoAssumption
    <3>2. [id |-> lastTenant + 1, slug |-> SeedTenants[1], origin |-> "seed"] \in tenants'
      BY <2>1, <3>1 DEF SeedCommit, AddedTenants
    <3>3. QED
      BY <3>2
  <2>2. CASE ~SeedCommit(k)
    BY <1>1, <1>2, <2>2 DEF Boot, StartContainer, WaitForDb, SeedCount, SeedFlush, Goto,
                            ProcessTypes, database, committed
  <2>3. QED
    BY <2>1, <2>2
<1>3. ASSUME NEW k \in Containers, Boot(k) PROVE UNCHANGED handlers
  BY <1>3 DEF Boot, StartContainer, WaitForDb, SeedCount, SeedFlush, SeedCommit
<1>4. CASE \E k \in Containers : Boot(k)
  BY <1>1, <1>2, <1>3, <1>4 DEF handlers
<1>5. CASE \E k \in Containers : Crash(k)
  BY <1>1, <1>5 DEF Crash, Goto, ProcessTypes
<1>6. CASE Script
  BY <1>1, <1>6 DEF Script, ScriptLooks, ScriptFlush, ScriptCommit, ScriptDies, handlers
<1>7. ASSUME NEW c \in Clients, Ask(c)
      PROVE  /\ tenants # {} /\ phase' = phase
             /\ \A d \in Clients : answer'[d] = answer[d] \/ answer'[d] = "none"
  BY <1>1, <1>7 DEF Ask, HandlerTypes
<1>8. ASSUME NEW c \in Clients, Handle(c)
      PROVE  /\ tenants # {} /\ phase' = phase
             /\ \A d \in Clients : answer'[d] # "no tenant"
  <2>1. pc[c] # "idle" /\ phase' = phase
    BY <1>8 DEF Handle, At, ResolveTenant, FindExisting, CreateUser, IssueToken, IssueGuestToken,
                Login, Logout, Authorize, LoadTenant, elsewhere
  <2>2. tenants # {}
    BY <1>1, <2>1
  <2>3. answer' = answer \/ \E a \in Answers \ {"no tenant"} : answer' = [answer EXCEPT ![c] = a]
    BY <1>8, <2>2 DEF Handle, ResolveTenant, FindExisting, CreateUser, IssueToken, IssueGuestToken,
                Login, Logout, Authorize, LoadTenant, Answer, Continue, Answers
  <2>4. QED
    BY <1>1, <2>1, <2>2, <2>3 DEF HandlerTypes
<1>9. QED
  BY <1>1, <1>4, <1>5, <1>6, <1>7, <1>8 DEF Next

-----------------------------------------------------------------------------
LEMMA Start ==
  ASSUME Init PROVE IInv
<1> USE DEF Init
<1>1. TypeOK
  BY RequestsAssumption
  DEF TypeOK, DatabaseTypes, ProcessTypes, HandlerTypes, Nothing
<1>2. Keys /\ Locks /\ ScriptKnows /\ SeedIsWhole /\ AdminsStayHome
  BY DEF Keys, Locks, ScriptKnows, SeedIsWhole, AdminsStayHome
<1>3. Works /\ Seeded
  BY DEF Works, Facts, Seeded
<1>4. QED
  BY <1>1, <1>2, <1>3 DEF IInv

LEMMA Inductive ==
  ASSUME IInv, [Next]_vars PROVE IInv'
<1>1. CASE Next
  BY <1>1, TablesStep, ProcessesStep, WorksStep, SeededStep
  DEF IInv, TypeOK, Tables, Processes
<1>2. CASE UNCHANGED vars
  BY <1>2 DEF vars, database, committed, handlers, IInv, TypeOK, DatabaseTypes, ProcessTypes,
              HandlerTypes, Keys, Locks, ScriptKnows, Works, Seeded, SeedIsWhole, AdminsStayHome,
              TenantIds, SlugsOf
<1>3. QED
  BY <1>1, <1>2

\* Whatever is asked of the routes and whatever dies, the inductive invariant holds.
THEOREM AccountsInv == Spec => []IInv
BY Start, Inductive, PTL DEF Spec

\* Every variable keeps its type: users, sessions and requests have tenants that exist.
THEOREM AccountTypes == Spec => []TypeOK
<1>1. IInv => TypeOK
  BY DEF IInv
<1>2. QED
  BY <1>1, AccountsInv, PTL

\* No death of a container leaves a seeded tenant without its demo users.
THEOREM SeedsAreWhole == Spec => []SeedIsWhole
<1>1. IInv => SeedIsWhole
  BY DEF IInv
<1>2. QED
  BY <1>1, AccountsInv, PTL

\* With seeding on, no route ever finds the database without a tenant.
THEOREM ServingMeansSeeded == Spec => []ServingIsSeeded
<1>1. IInv => ServingIsSeeded
  BY DEF IInv, Seeded, ServingIsSeeded
<1>2. QED
  BY <1>1, AccountsInv, PTL

\* An admin only ever creates accounts in the admin's own tenant.
THEOREM AdminsCreateAtHome == Spec => []AdminsStayHome
<1>1. IInv => AdminsStayHome
  BY DEF IInv
<1>2. QED
  BY <1>1, AccountsInv, PTL

\* A refused or failed sign-up finds its address enrolled in its tenant.
THEOREM RefusalsHaveReasons == Spec => []RefusalsAreRight
<1>1. IInv => RefusalsAreRight
  BY DEF IInv, Works, Facts, RefusalsAreRight, Taken
<1>2. QED
  BY <1>1, AccountsInv, PTL


-----------------------------------------------------------------------------
\* The routes, the seed and the script implement the registry.
Accts == {Account(u) : u \in users}

RegistryNext ==
  \/ /\ Accts \subseteq Accts'
     /\ \A a \in Accts' \ Accts, b \in Accts' : a.tenant = b.tenant /\ a.email = b.email => a = b
     /\ UNCHANGED session
  \/ UNCHANGED Accts /\ \E c \in Clients :
       \/ \E a \in Accts : session' = [session EXCEPT ![c] =
            [sub |-> a.id, tenant |-> a.tenant, email |-> a.email, password |-> a.password]]
       \/ /\ session'[c] # None /\ session'[c].sub = 0
          /\ session' = [session EXCEPT ![c] = session'[c]]
       \/ session' = [session EXCEPT ![c] = None]

LEMMA EnrollStep ==
  ASSUME IInv, Next, UNCHANGED session
  PROVE  RegistryNext
<1>1. users \subseteq users' /\ Enrolls
  BY Growth, TablesStep
<1>2. Accts \subseteq Accts'
  BY <1>1 DEF Accts
<1>3. ASSUME NEW a \in Accts' \ Accts, NEW b \in Accts', a.tenant = b.tenant, a.email = b.email
      PROVE  a = b
  <2>1. PICK u \in users' \ users : a = Account(u)
    BY <1>3 DEF Accts
  <2>2. PICK v \in users' : b = Account(v)
    BY DEF Accts
  <2>3. QED
    BY <1>1, <1>3, <2>1, <2>2 DEF Enrolls, Account
<1>4. QED
  BY <1>2, <1>3 DEF RegistryNext

\* A token is only issued for an account whose address and password are the request's.
LEMMA TokenStep ==
  ASSUME IInv, NEW c \in Clients, Handle(c), session' # session
  PROVE  RegistryNext
<1>1. HandlerTypes /\ Facts(users, TenantIds, request[c], pc[c], answer[c], home[c], mine[c], session[c])
  BY Handling
<1>2. CASE IssueToken(c)
  <2>1. PICK u \in users : /\ u.id = mine[c] /\ u.tenant = home[c]
                           /\ u.email = Address(request[c]) /\ u.password = request[c].password
    BY <1>1, <1>2 DEF Facts, IssueToken, At
  <2>2. session' = [session EXCEPT ![c] = [sub |-> u.id, tenant |-> u.tenant, email |-> u.email,
                                           password |-> u.password]]
    BY <1>2, <2>1 DEF IssueToken, Token
  <2>3. Account(u) \in Accts /\ UNCHANGED Accts
    BY <1>2 DEF Accts, IssueToken, committed
  <2>4. QED
    BY <2>2, <2>3 DEF RegistryNext, Account
<1>3. CASE IssueGuestToken(c)
  <2>1. session' = [session EXCEPT ![c] = Token(c, 0, home[c])] /\ UNCHANGED Accts
    BY <1>3 DEF IssueGuestToken, Accts, committed
  <2>2. session'[c] = Token(c, 0, home[c])
    BY <1>1, <2>1 DEF HandlerTypes
  <2>3. request[c] \in RequestType /\ home[c] \in Nat
    BY <1>1, <1>3, RequestsAssumption
    DEF Facts, IssueGuestToken, At, IInv, TypeOK, DatabaseTypes, TenantIds, TenantType
  <2>4. Token(c, 0, home[c]) \in TokenType /\ Token(c, 0, home[c]).sub = 0
    BY <2>3, AddressType DEF Token, TokenType, RequestType
  <2>5. QED
    BY <2>1, <2>2, <2>4, RequestsAssumption DEF RegistryNext
<1>4. CASE Login(c)
  <2>1. PICK u \in users :
          /\ u.email = Address(request[c]) /\ u.password = request[c].password
          /\ session' = [session EXCEPT ![c] = Token(c, u.id, u.tenant)]
    BY <1>4 DEF Login, Addressed, Verified
  <2>2. session' = [session EXCEPT ![c] = [sub |-> u.id, tenant |-> u.tenant, email |-> u.email,
                                           password |-> u.password]]
    BY <2>1 DEF Token
  <2>3. Account(u) \in Accts /\ UNCHANGED Accts
    BY <1>4 DEF Accts, Login, committed
  <2>4. QED
    BY <2>2, <2>3 DEF RegistryNext, Account
<1>5. CASE Logout(c)
  BY <1>5 DEF RegistryNext, Logout, Accts, committed
<1>6. QED
  BY <1>2, <1>3, <1>4, <1>5 DEF Handle, ResolveTenant, FindExisting, CreateUser, Authorize, LoadTenant

LEMMA RegistryStep ==
  ASSUME IInv, [Next]_vars
  PROVE  RegistryNext \/ UNCHANGED <<Accts, session>>
<1>1. CASE UNCHANGED vars
  BY <1>1 DEF vars, database, committed, handlers, Accts
<1>2. CASE Next /\ UNCHANGED session
  BY <1>2, EnrollStep
<1>3. CASE Next /\ session' # session
  <2>1. \E c \in Clients : Handle(c)
    BY <1>3 DEF Next, Boot, Script, Crash, Ask, StartContainer, WaitForDb, SeedCount, SeedFlush,
                SeedCommit, ScriptLooks, ScriptFlush, ScriptCommit, ScriptDies, handlers
  <2>2. QED
    BY <1>3, <2>1, TokenStep
<1>4. QED
  BY <1>1, <1>2, <1>3

\* The routes, the seed and the script, however they interleave and die, implement the
\* registry: accounts last, addresses are unique in a tenant, tokens are earned.
THEOREM AccountsImplementRegistry == Spec => RegistrySpec
<1>1. Init => Registry!Init
  BY DEF Init, Registry!Init
<1>2. IInv /\ [Next]_vars => [Registry!Next]_<<Accts, session>>
  <2>1. RegistryNext => Registry!Next
    BY DEF RegistryNext, Registry!Next, Registry!Enroll, Registry!SignIn, Registry!Visit,
           Registry!SignOut, Registry!SameAddress, Accts, Account
  <2>2. QED
    BY <2>1, RegistryStep
<1>3. QED
  BY <1>1, <1>2, AccountsInv, PTL DEF Spec, RegistrySpec, Registry!Spec, Accts, Account
=============================================================================
