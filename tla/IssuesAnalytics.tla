---------------------------- MODULE IssuesAnalytics ----------------------------
(***************************************************************************)
(* GET /quality/issues-analytics (quality/router.py) and the TTL cache it   *)
(* shares between worker threads (analytics/cache.py), beside the issues    *)
(* writer of etl/issues_writer.py, which keeps adding records meanwhile.    *)
(*                                                                         *)
(* The endpoint looks its tenant's key up without a lock, and on a miss     *)
(* reads the issues table four times: totals, rules by severity, weekly     *)
(* trend, transactions per rule.  A panel is modelled as the set of records *)
(* it was computed from.                                                    *)
(*                                                                         *)
(* Definitions whose comment starts with "Variant" are altered copies of    *)
(* the definition after them, used by no specification.                     *)
(***************************************************************************)
EXTENDS Integers, Sequences

CONSTANTS
  Workers,     \* threads that serve the endpoint
  Tenants,
  Records,     \* issue records the ETL may insert
  None,        \* no cache entry, no answer, no user
  Panels,      \* reads of the issues table per computation: 4 in the code
  TTL,         \* ISSUES_ANALYTICS_CACHE's ttl_seconds
  MaxTime      \* bound on the clock

ASSUME BoundsAssumption == TTL \in Nat \ {0} /\ Panels \in Nat \ {0} /\ MaxTime \in Nat
ASSUME NoneAssumption == None \notin Tenants

VARIABLES
  now,       \* time.time()
  table,     \* table[n]: tenant n's issue records
  born,      \* when each record was inserted
  store,     \* TTLCache._store, by cache key
  pc,        \* where each worker is in the handler
  tenant,    \* the tenant of the user it serves
  entry,     \* the entry its lookup found
  panels,    \* the panels read so far
  began,     \* when it read the first one
  answer     \* the response, and when it was decided

vars == <<now, table, born, store, pc, tenant, entry, panels, began, answer>>

\* Variant: the key names the endpoint only.
CacheKeyShared(n) == "issues_analytics"

CacheKey(n) == <<"issues_analytics", n>>
Keys == {CacheKey(n) : n \in Tenants}

Payload == [panels : [1..Panels -> SUBSET Records], began : 0..MaxTime, stored : 0..MaxTime]
Answers == [payload : Payload, at : 0..MaxTime]

Init ==
  /\ now = 0
  /\ table = [n \in Tenants |-> {}]
  /\ born = [x \in Records |-> 0]
  /\ store = [k \in Keys |-> None]
  /\ pc = [w \in Workers |-> "idle"]
  /\ tenant = [w \in Workers |-> None]
  /\ entry = [w \in Workers |-> None]
  /\ panels = [w \in Workers |-> <<>>]
  /\ began = [w \in Workers |-> 0]
  /\ answer = [w \in Workers |-> None]

Goto(w, phase) == pc' = [pc EXCEPT ![w] = phase]
Key(w) == CacheKey(tenant[w])
Loaded == UNION {table[n] : n \in Tenants}

\* The handler's frame is gone.
Forget(w) ==
  /\ tenant' = [tenant EXCEPT ![w] = None]
  /\ panels' = [panels EXCEPT ![w] = <<>>]
  /\ began' = [began EXCEPT ![w] = 0]

\* A user of some tenant calls the endpoint.
Ask(w) ==
  /\ pc[w] = "idle"
  /\ \E n \in Tenants : tenant' = [tenant EXCEPT ![w] = n]
  /\ Goto(w, "lookup")
  /\ UNCHANGED <<now, table, born, store, entry, panels, began, answer>>

\* self._store.get(key)
Lookup(w) ==
  /\ pc[w] = "lookup"
  /\ entry' = [entry EXCEPT ![w] = store[Key(w)]]
  /\ Goto(w, IF store[Key(w)] = None THEN "read" ELSE "check")
  /\ UNCHANGED <<now, table, born, store, tenant, panels, began, answer>>

\* Variant: an entry is served in the second it expires.
ExpiredLate(e) == e.stored + TTL < now

Expired(e) == e.stored + TTL <= now

\* The expiry is compared with the clock of now, for the entry found a moment ago.
CheckExpiry(w) ==
  /\ pc[w] = "check"
  /\ \/ /\ Expired(entry[w])
        /\ Goto(w, "drop")
        /\ UNCHANGED answer
     \/ /\ ~Expired(entry[w])
        /\ Goto(w, "answered")
        /\ answer' = [answer EXCEPT ![w] = [payload |-> entry[w], at |-> now]]
  /\ entry' = [entry EXCEPT ![w] = None]
  /\ UNCHANGED <<now, table, born, store, tenant, panels, began>>

\* pop(key, None) removes whatever is stored by now.
Drop(w) ==
  /\ pc[w] = "drop"
  /\ store' = [store EXCEPT ![Key(w)] = None]
  /\ Goto(w, "read")
  /\ UNCHANGED <<now, table, born, tenant, entry, panels, began, answer>>

\* Variant: an empty table ends the computation.
ReadPanelUntilEmpty(w) ==
  /\ pc[w] = "read"
  /\ panels' = [panels EXCEPT ![w] = Append(@, table[tenant[w]])]
  /\ began' = [began EXCEPT ![w] = IF panels[w] = <<>> THEN now ELSE @]
  /\ Goto(w, IF Len(panels[w]) + 1 = Panels \/ table[tenant[w]] = {} THEN "store" ELSE "read")
  /\ UNCHANGED <<now, table, born, store, tenant, entry, answer>>

\* One of the four queries; the latest report's messages do not matter here.
ReadPanel(w) ==
  /\ pc[w] = "read"
  /\ panels' = [panels EXCEPT ![w] = Append(@, table[tenant[w]])]
  /\ began' = [began EXCEPT ![w] = IF panels[w] = <<>> THEN now ELSE @]
  /\ Goto(w, IF Len(panels[w]) + 1 = Panels THEN "store" ELSE "read")
  /\ UNCHANGED <<now, table, born, store, tenant, entry, answer>>

\* A query raises: the request fails and nothing is cached.
ReadFails(w) ==
  /\ pc[w] = "read"
  /\ Goto(w, "idle")
  /\ Forget(w)
  /\ UNCHANGED <<now, table, born, store, entry, answer>>

\* The payload overwrites whatever another worker stored, and is the answer.
StorePayload(w) ==
  /\ pc[w] = "store"
  /\ LET p == [panels |-> panels[w], began |-> began[w], stored |-> now]
     IN /\ store' = [store EXCEPT ![Key(w)] = p]
        /\ answer' = [answer EXCEPT ![w] = [payload |-> p, at |-> now]]
  /\ Goto(w, "answered")
  /\ UNCHANGED <<now, table, born, tenant, entry, panels, began>>

\* The response is sent.
Respond(w) ==
  /\ pc[w] = "answered"
  /\ Goto(w, "idle")
  /\ answer' = [answer EXCEPT ![w] = None]
  /\ Forget(w)
  /\ UNCHANGED <<now, table, born, store, entry>>

\* Variant: a run clears the tenant's records before its first ones.
InsertIssuesAfterClear(n, x) ==
  /\ x \notin Loaded
  /\ table' = [table EXCEPT ![n] = {x}]
  /\ born' = [born EXCEPT ![x] = now]
  /\ UNCHANGED <<now, store, pc, tenant, entry, panels, began, answer>>

\* IssuesWriter.write for a run of tenant n: its reset finds none of its own records.
InsertIssues(n, x) ==
  /\ x \notin Loaded
  /\ table' = [table EXCEPT ![n] = @ \cup {x}]
  /\ born' = [born EXCEPT ![x] = now]
  /\ UNCHANGED <<now, store, pc, tenant, entry, panels, began, answer>>

Tick ==
  /\ now < MaxTime
  /\ now' = now + 1
  /\ UNCHANGED <<table, born, store, pc, tenant, entry, panels, began, answer>>

\* What the handler does after Ask.
Serve(w) ==
  \/ Lookup(w) \/ CheckExpiry(w) \/ Drop(w)
  \/ ReadPanel(w) \/ ReadFails(w) \/ StorePayload(w)
  \/ Respond(w)

Next ==
  \/ \E w \in Workers : Ask(w) \/ Serve(w)
  \/ \E n \in Tenants, x \in Records : InsertIssues(n, x)
  \/ Tick

Spec == Init /\ [][Next]_vars

------------------------------------------------------------------------------
(* Properties. *)

\* Every variable has its type.
TypeOK ==
  /\ now \in 0..MaxTime
  /\ table \in [Tenants -> SUBSET Records] /\ born \in [Records -> 0..MaxTime]
  /\ store \in [Keys -> {None} \cup Payload]
  /\ pc \in [Workers -> {"idle", "lookup", "check", "drop", "read", "store", "answered"}]
  /\ tenant \in [Workers -> {None} \cup Tenants]
  /\ \A w \in Workers : tenant[w] = None <=> pc[w] = "idle"
  /\ entry \in [Workers -> {None} \cup Payload]
  /\ panels \in [Workers -> Seq(SUBSET Records)] /\ began \in [Workers -> 0..MaxTime]
  /\ answer \in [Workers -> {None} \cup Answers]

Answered == {w \in Workers : pc[w] = "answered"}
Shown(w) == answer[w].payload.panels

\* An answer shows records of the asking user's tenant and no other, from whichever
\* worker's computation it comes (quality/router.py:499-503, cache.py:77-108).
AnswersStayInTenant ==
  \A w \in Answered : \A i \in DOMAIN Shown(w) : Shown(w)[i] \subseteq table[tenant[w]]

\* The panels of one answer agree as far as they can while records are being added:
\* each shows everything an earlier one shows (quality/router.py:505-617).
PanelsNest ==
  \A w \in Answered : \A i, j \in DOMAIN Shown(w) : i < j => Shown(w)[i] \subseteq Shown(w)[j]

\* How stale an answer can be: a record it misses was inserted less than the TTL plus
\* the time its computation took ago, whatever the races on the cache (cache.py:50-74).
StalenessBounded ==
  \A w \in Answered : \A i \in DOMAIN Shown(w) : \A x \in table[tenant[w]] \ Shown(w)[i] :
    answer[w].at - born[x] < TTL + (answer[w].payload.stored - answer[w].payload.began)
=============================================================================
