------------------------- MODULE IssuesAnalyticsProofs -------------------------
(***************************************************************************)
(* Proofs about IssuesAnalytics for any number of workers, tenants and      *)
(* records, any number of panels, TTL and clock bound.                      *)
(***************************************************************************)
EXTENDS IssuesAnalytics, SequenceTheorems, TLAPS

\* Which of its local variables a worker has set at each point of the handler.
FrameInv ==
  \A w \in Workers :
    /\ pc[w] \in {"idle", "lookup", "check", "drop"} => panels[w] = <<>> /\ began[w] = 0
    /\ pc[w] = "check" => entry[w] \in Payload
    /\ pc[w] = "read" => Len(panels[w]) < Panels
    /\ pc[w] = "store" => Len(panels[w]) = Panels
    /\ pc[w] = "answered" => answer[w] \in Answers

TypeInv == TypeOK /\ FrameInv

\* What is known of panels q of tenant n that were read from moment b on: they show
\* the tenant's records only, each shows what the ones before it show, and what one
\* of them misses was inserted no earlier than b.
Sound(q, b, n) ==
  /\ \A i \in DOMAIN q : q[i] \subseteq table[n]
  /\ \A i \in DOMAIN q : \A x \in table[n] \ q[i] : b <= born[x]
  /\ \A i, j \in DOMAIN q : i < j => q[i] \subseteq q[j]

\* A payload that was computed for tenant n.
SoundPayload(p, n) == Sound(p.panels, p.began, n) /\ p.began <= p.stored /\ p.stored <= now

SoundStore == \A n \in Tenants : store[CacheKey(n)] # None => SoundPayload(store[CacheKey(n)], n)
SoundEntries ==
  \A w \in Workers : pc[w] = "check" => SoundPayload(entry[w], tenant[w])
SoundPanels ==
  \A w \in Workers :
    pc[w] \in {"read", "store"} => Sound(panels[w], began[w], tenant[w]) /\ began[w] <= now
SoundAnswers ==
  \A w \in Workers : pc[w] = "answered" =>
    /\ SoundPayload(answer[w].payload, tenant[w])
    /\ answer[w].at < answer[w].payload.stored + TTL

SoundInv == SoundStore /\ SoundEntries /\ SoundPanels /\ SoundAnswers

------------------------------------------------------------------------------
(* Types. *)

\* A panel sequence of full length is what Payload holds.
LEMMA FullSequence ==
  ASSUME NEW q \in Seq(SUBSET Records), Len(q) = Panels
  PROVE  q \in [1..Panels -> SUBSET Records]
  OBVIOUS

LEMMA Typed ==
  ASSUME TypeInv, [Next]_vars
  PROVE  TypeInv'
<1> USE BoundsAssumption, NoneAssumption
<1>1. CASE UNCHANGED vars
  BY <1>1 DEF TypeInv, TypeOK, FrameInv, vars, Answered, Keys, Payload
<1>2. CASE Tick
  BY <1>2 DEF Tick, TypeInv, TypeOK, FrameInv
<1>3. ASSUME NEW n \in Tenants, NEW x \in Records, InsertIssues(n, x)
      PROVE  TypeInv'
  BY <1>3 DEF InsertIssues, TypeInv, TypeOK, FrameInv
<1>4. ASSUME NEW w \in Workers, Ask(w)
      PROVE  TypeInv'
  BY <1>4 DEF Ask, Goto, TypeInv, TypeOK, FrameInv
<1>5. ASSUME NEW w \in Workers, Lookup(w)
      PROVE  TypeInv'
  <2>1. tenant[w] \in Tenants /\ Key(w) \in Keys
    BY <1>5 DEF Lookup, TypeInv, TypeOK, Key, Keys
  <2>2. store[Key(w)] = None \/ store[Key(w)] \in Payload
    BY <2>1 DEF TypeInv, TypeOK
  <2>3. panels[w] = <<>> /\ Len(panels[w]) < Panels
    BY <1>5 DEF Lookup, TypeInv, FrameInv
  <2>4. TypeOK'
    BY <1>5, <2>1, <2>2 DEF Lookup, Goto, TypeInv, TypeOK
  <2>5. FrameInv'
    BY <1>5, <2>2, <2>3 DEF Lookup, Goto, TypeInv, TypeOK, FrameInv
  <2> QED BY <2>4, <2>5 DEF TypeInv
<1>6. ASSUME NEW w \in Workers, CheckExpiry(w)
      PROVE  TypeInv'
  <2>1. entry[w] \in Payload /\ now \in 0..MaxTime
    BY <1>6 DEF CheckExpiry, TypeInv, TypeOK, FrameInv
  <2>2. [payload |-> entry[w], at |-> now] \in Answers
    BY <2>1 DEF Answers
  <2>3. TypeOK'
    <3> DEFINE a == [payload |-> entry[w], at |-> now]
    <3>1. a \in Answers
      BY <2>2 DEF Answers
    <3>2. /\ pc[w] = "check" /\ entry' = [entry EXCEPT ![w] = None]
          /\ pc' = [pc EXCEPT ![w] = "drop"] \/ pc' = [pc EXCEPT ![w] = "answered"]
          /\ answer' = answer \/ answer' = [answer EXCEPT ![w] = a]
          /\ UNCHANGED <<now, table, born, store, tenant, panels, began>>
      BY <1>6 DEF CheckExpiry, Goto
    <3> HIDE DEF a
    <3>3. answer' \in [Workers -> {None} \cup Answers]
      BY <3>1, <3>2 DEF TypeInv, TypeOK
    <3>4. /\ entry' \in [Workers -> {None} \cup Payload]
          /\ pc' \in [Workers -> {"idle", "lookup", "check", "drop", "read", "store", "answered"}]
          /\ \A v \in Workers : pc'[v] = "idle" <=> pc[v] = "idle"
      BY <3>2 DEF TypeInv, TypeOK
    <3> QED
      BY <3>2, <3>3, <3>4 DEF TypeInv, TypeOK
  <2>4. FrameInv'
    BY <1>6, <2>2 DEF CheckExpiry, Goto, TypeInv, TypeOK, FrameInv
  <2> QED BY <2>3, <2>4 DEF TypeInv
<1>7. ASSUME NEW w \in Workers, Drop(w)
      PROVE  TypeInv'
  <2>1. Len(panels[w]) < Panels
    BY <1>7 DEF Drop, TypeInv, FrameInv
  <2>2. TypeOK'
    BY <1>7 DEF Drop, Goto, TypeInv, TypeOK
  <2>3. FrameInv'
    BY <1>7, <2>1 DEF Drop, Goto, TypeInv, TypeOK, FrameInv
  <2> QED BY <2>2, <2>3 DEF TypeInv
<1>8. ASSUME NEW w \in Workers, ReadPanel(w)
      PROVE  TypeInv'
  <2>1. tenant[w] \in Tenants /\ table[tenant[w]] \in SUBSET Records
    BY <1>8 DEF ReadPanel, TypeInv, TypeOK
  <2>2. panels[w] \in Seq(SUBSET Records) /\ Len(panels[w]) \in Nat /\ Len(panels[w]) < Panels
    BY <1>8 DEF ReadPanel, TypeInv, TypeOK, FrameInv
  <2>3. /\ Append(panels[w], table[tenant[w]]) \in Seq(SUBSET Records)
        /\ Len(Append(panels[w], table[tenant[w]])) = Len(panels[w]) + 1
    BY <2>1, <2>2
  <2>4. TypeOK'
    BY <1>8, <2>3 DEF ReadPanel, Goto, TypeInv, TypeOK
  <2>5. FrameInv'
    BY <1>8, <2>2, <2>3 DEF ReadPanel, Goto, TypeInv, TypeOK, FrameInv
  <2> QED BY <2>4, <2>5 DEF TypeInv
<1>9. ASSUME NEW w \in Workers, ReadFails(w)
      PROVE  TypeInv'
  <2>1. TypeOK'
    BY <1>9 DEF ReadFails, Forget, Goto, TypeInv, TypeOK
  <2>2. FrameInv'
    BY <1>9 DEF ReadFails, Forget, Goto, TypeInv, TypeOK, FrameInv
  <2> QED BY <2>1, <2>2 DEF TypeInv
<1>10. ASSUME NEW w \in Workers, StorePayload(w)
       PROVE  TypeInv'
  <2> DEFINE p == [panels |-> panels[w], began |-> began[w], stored |-> now]
  <2>1. panels[w] \in [1..Panels -> SUBSET Records]
    BY <1>10, FullSequence DEF StorePayload, TypeInv, TypeOK, FrameInv
  <2>2. p \in Payload /\ [payload |-> p, at |-> now] \in Answers
    BY <2>1 DEF TypeInv, TypeOK, Payload, Answers
  <2>3. /\ pc[w] = "store"
        /\ store' = [store EXCEPT ![Key(w)] = p]
        /\ answer' = [answer EXCEPT ![w] = [payload |-> p, at |-> now]]
        /\ pc' = [pc EXCEPT ![w] = "answered"]
        /\ UNCHANGED <<now, table, born, tenant, entry, panels, began>>
    BY <1>10 DEF StorePayload, Goto
  <2> HIDE DEF p
  <2>4. TypeOK'
    BY <2>2, <2>3 DEF TypeInv, TypeOK
  <2>5. FrameInv'
    BY <2>2, <2>3 DEF TypeInv, TypeOK, FrameInv
  <2> QED BY <2>4, <2>5 DEF TypeInv
<1>11. ASSUME NEW w \in Workers, Respond(w)
       PROVE  TypeInv'
  <2>1. TypeOK'
    BY <1>11 DEF Respond, Forget, Goto, TypeInv, TypeOK
  <2>2. FrameInv'
    BY <1>11 DEF Respond, Forget, Goto, TypeInv, TypeOK, FrameInv
  <2> QED BY <2>1, <2>2 DEF TypeInv
<1> QED
  BY <1>1, <1>2, <1>3, <1>4, <1>5, <1>6, <1>7, <1>8, <1>9, <1>10, <1>11 DEF Next, Serve

LEMMA TypedInit ==
  ASSUME Init
  PROVE  TypeInv
  BY BoundsAssumption, NoneAssumption DEF Init, TypeInv, TypeOK, FrameInv, Keys

\* Every variable keeps its type, and each worker's frame matches its place in the
\* handler (quality/router.py:491-649).
THEOREM TypeCorrect == Spec => []TypeOK
<1>1. Spec => []TypeInv
  BY TypedInit, Typed, PTL DEF Spec
<1> QED
  BY <1>1, PTL DEF TypeInv

------------------------------------------------------------------------------
(* Soundness of what is computed, stored and answered. *)

\* Two tenants never share a key.
LEMMA KeysDiffer ==
  ASSUME NEW m \in Tenants, NEW n \in Tenants, CacheKey(m) = CacheKey(n)
  PROVE  m = n
  BY DEF CacheKey

LEMMA InsertKeepsSound ==
  ASSUME TypeInv, NEW n \in Tenants, NEW x \in Records, InsertIssues(n, x),
         NEW m \in Tenants, NEW q, NEW b \in 0..MaxTime, b <= now, Sound(q, b, m)
  PROVE  /\ \A i \in DOMAIN q : q[i] \subseteq table'[m]
         /\ \A i \in DOMAIN q : \A y \in table'[m] \ q[i] : b <= born'[y]
<1>1. /\ x \notin Loaded /\ table' = [table EXCEPT ![n] = @ \cup {x}]
      /\ born' = [born EXCEPT ![x] = now]
      /\ table \in [Tenants -> SUBSET Records] /\ born \in [Records -> 0..MaxTime]
  BY DEF InsertIssues, TypeInv, TypeOK
<1>2. x \notin table[m]
  BY <1>1 DEF Loaded
<1>3. \A y \in table[m] : y # x /\ born'[y] = born[y]
  BY <1>1, <1>2
<1>4. table[m] \subseteq table'[m] /\ table'[m] \subseteq table[m] \cup {x} /\ born'[x] = now
  BY <1>1
<1> QED
  BY <1>3, <1>4 DEF Sound

LEMMA InsertIsSound ==
  ASSUME TypeInv, SoundInv, NEW n \in Tenants, NEW x \in Records, InsertIssues(n, x)
  PROVE  SoundInv'
<1>1. UNCHANGED <<now, store, pc, tenant, entry, panels, began, answer>>
  BY DEF InsertIssues
<1>2. ASSUME NEW m \in Tenants, NEW q, NEW b \in 0..MaxTime, b <= now, Sound(q, b, m)
      PROVE  /\ \A i \in DOMAIN q : q[i] \subseteq table'[m]
             /\ \A i \in DOMAIN q : \A y \in table'[m] \ q[i] : b <= born'[y]
             /\ \A i, j \in DOMAIN q : i < j => q[i] \subseteq q[j]
  <2>1. \A i, j \in DOMAIN q : i < j => q[i] \subseteq q[j]
    BY <1>2 DEF Sound
  <2> QED
    BY <1>2, <2>1, InsertKeepsSound
<1>3. SoundStore'
  <2> SUFFICES ASSUME NEW m \in Tenants, NEW p, p = store[CacheKey(m)], p # None
               PROVE  SoundPayload(p, m)'
    BY <1>1 DEF SoundStore, CacheKey
  <2>1. SoundPayload(p, m) /\ p \in Payload
    BY DEF SoundInv, SoundStore, TypeInv, TypeOK, Keys
  <2>2. p.began \in 0..MaxTime /\ p.stored \in 0..MaxTime /\ p.began <= now /\ now \in 0..MaxTime
    BY <2>1 DEF SoundPayload, Payload, TypeInv, TypeOK
  <2> QED
    BY <1>1, <1>2, <2>1, <2>2 DEF SoundPayload, Sound
<1>4. SoundEntries'
  <2> SUFFICES ASSUME NEW w \in Workers, pc[w] = "check"
               PROVE  SoundPayload(entry[w], tenant[w])'
    BY <1>1 DEF SoundEntries
  <2>1. SoundPayload(entry[w], tenant[w]) /\ entry[w] \in Payload /\ tenant[w] \in Tenants
    BY DEF SoundInv, SoundEntries, TypeInv, TypeOK, FrameInv
  <2>2. /\ entry[w].began \in 0..MaxTime /\ entry[w].stored \in 0..MaxTime
        /\ entry[w].began <= now /\ now \in 0..MaxTime
    BY <2>1 DEF SoundPayload, Payload, TypeInv, TypeOK
  <2> QED
    BY <1>1, <1>2, <2>1, <2>2 DEF SoundPayload, Sound
<1>5. SoundPanels'
  <2> SUFFICES ASSUME NEW w \in Workers, pc[w] \in {"read", "store"}
               PROVE  (Sound(panels[w], began[w], tenant[w]) /\ began[w] <= now)'
    BY <1>1 DEF SoundPanels
  <2>1. /\ Sound(panels[w], began[w], tenant[w]) /\ began[w] <= now
        /\ began[w] \in 0..MaxTime /\ tenant[w] \in Tenants
    BY DEF SoundInv, SoundPanels, TypeInv, TypeOK
  <2> QED
    BY <1>1, <1>2, <2>1 DEF Sound
<1>6. SoundAnswers'
  <2> SUFFICES ASSUME NEW w \in Workers, pc[w] = "answered"
               PROVE  (/\ SoundPayload(answer[w].payload, tenant[w])
                       /\ answer[w].at < answer[w].payload.stored + TTL)'
    BY <1>1 DEF SoundAnswers
  <2>1. /\ SoundPayload(answer[w].payload, tenant[w])
        /\ answer[w].at < answer[w].payload.stored + TTL
        /\ answer[w].payload \in Payload /\ tenant[w] \in Tenants
    BY DEF SoundInv, SoundAnswers, TypeInv, TypeOK, FrameInv, Answers
  <2>2. /\ answer[w].payload.began \in 0..MaxTime /\ answer[w].payload.stored \in 0..MaxTime
        /\ answer[w].payload.began <= now /\ now \in 0..MaxTime
    BY <2>1 DEF SoundPayload, Payload, TypeInv, TypeOK
  <2> QED
    BY <1>1, <1>2, <2>1, <2>2 DEF SoundPayload, Sound
<1> QED
  BY <1>3, <1>4, <1>5, <1>6 DEF SoundInv

LEMMA StepIsSound ==
  ASSUME TypeInv, SoundInv, NEW w \in Workers, Ask(w) \/ Serve(w)
  PROVE  SoundInv'
<1> USE BoundsAssumption DEF Goto, Key
<1>1. UNCHANGED <<now, table, born>>
  BY DEF Ask, Serve, Lookup, CheckExpiry, Drop, ReadPanel, ReadFails, StorePayload, Respond
<1>2. CASE Ask(w)
  <2>1. SoundStore' /\ SoundEntries'
    <3>1. SoundStore'
      BY <1>1, <1>2 DEF Ask, SoundInv, SoundStore, SoundPayload, Sound, CacheKey
    <3>2. SoundEntries'
      BY <1>1, <1>2 DEF Ask, SoundInv, SoundEntries, SoundPayload, Sound, TypeInv, TypeOK
    <3> QED BY <3>1, <3>2
  <2>2. SoundPanels'
    BY <1>1, <1>2 DEF Ask, SoundInv, SoundPanels, Sound, TypeInv, TypeOK
  <2>3. SoundAnswers'
    BY <1>1, <1>2 DEF Ask, SoundInv, SoundAnswers, SoundPayload, Sound, TypeInv, TypeOK
  <2> QED BY <2>1, <2>2, <2>3 DEF SoundInv
<1>3. CASE Lookup(w)
  <2>1. SoundStore'
    BY <1>1, <1>3 DEF Lookup, SoundInv, SoundStore, SoundPayload, Sound, CacheKey
  <2>2. SoundEntries'
    BY <1>1, <1>3 DEF Lookup, SoundInv, SoundStore, SoundEntries, SoundPayload, Sound, TypeInv,
                      TypeOK
  <2>3. SoundPanels'
    BY <1>1, <1>3 DEF Lookup, SoundInv, SoundPanels, Sound, TypeInv, TypeOK, FrameInv
  <2>4. SoundAnswers'
    BY <1>1, <1>3 DEF Lookup, SoundInv, SoundAnswers, SoundPayload, Sound, TypeInv, TypeOK
  <2> QED BY <2>1, <2>2, <2>3, <2>4 DEF SoundInv
<1>4. CASE CheckExpiry(w)
  <2>1. SoundStore'
    BY <1>1, <1>4 DEF CheckExpiry, SoundInv, SoundStore, SoundPayload, Sound, CacheKey
  <2>2. SoundEntries'
    BY <1>1, <1>4 DEF CheckExpiry, SoundInv, SoundEntries, SoundPayload, Sound, TypeInv, TypeOK
  <2>3. SoundPanels'
    BY <1>1, <1>4 DEF CheckExpiry, SoundInv, SoundPanels, Sound, TypeInv, TypeOK
  <2>4. entry[w] \in Payload /\ SoundPayload(entry[w], tenant[w])
    BY <1>4 DEF CheckExpiry, SoundInv, SoundEntries, TypeInv, FrameInv
  <2>5. SoundAnswers'
    BY <1>1, <1>4, <2>4 DEF CheckExpiry, Expired, SoundInv, SoundAnswers, SoundPayload, Sound,
                            TypeInv, TypeOK, Payload
  <2> QED BY <2>1, <2>2, <2>3, <2>5 DEF SoundInv
<1>5. CASE Drop(w)
  <2>1. SoundStore'
    BY <1>1, <1>5 DEF Drop, SoundInv, SoundStore, SoundPayload, Sound, TypeInv, TypeOK, Keys
  <2>2. SoundEntries'
    BY <1>1, <1>5 DEF Drop, SoundInv, SoundEntries, SoundPayload, Sound, TypeInv, TypeOK
  <2>3. SoundPanels'
    BY <1>1, <1>5 DEF Drop, SoundInv, SoundPanels, Sound, TypeInv, TypeOK, FrameInv
  <2>4. SoundAnswers'
    BY <1>1, <1>5 DEF Drop, SoundInv, SoundAnswers, SoundPayload, Sound, TypeInv, TypeOK
  <2> QED BY <2>1, <2>2, <2>3, <2>4 DEF SoundInv
<1>6. CASE ReadFails(w)
  <2>1. SoundStore' /\ SoundEntries'
    <3>1. SoundStore'
      BY <1>1, <1>6 DEF ReadFails, Forget, SoundInv, SoundStore, SoundPayload, Sound, CacheKey
    <3>2. SoundEntries'
      BY <1>1, <1>6 DEF ReadFails, Forget, SoundInv, SoundEntries, SoundPayload, Sound, TypeInv, TypeOK
    <3> QED BY <3>1, <3>2
  <2>2. SoundPanels'
    BY <1>1, <1>6 DEF ReadFails, Forget, SoundInv, SoundPanels, Sound, TypeInv, TypeOK
  <2>3. SoundAnswers'
    BY <1>1, <1>6 DEF ReadFails, Forget, SoundInv, SoundAnswers, SoundPayload, Sound, TypeInv,
                      TypeOK
  <2> QED BY <2>1, <2>2, <2>3 DEF SoundInv
<1>7. CASE Respond(w)
  <2>1. SoundStore' /\ SoundEntries'
    <3>1. SoundStore'
      BY <1>1, <1>7 DEF Respond, Forget, SoundInv, SoundStore, SoundPayload, Sound, CacheKey
    <3>2. SoundEntries'
      BY <1>1, <1>7 DEF Respond, Forget, SoundInv, SoundEntries, SoundPayload, Sound, TypeInv, TypeOK
    <3> QED BY <3>1, <3>2
  <2>2. SoundPanels'
    BY <1>1, <1>7 DEF Respond, Forget, SoundInv, SoundPanels, Sound, TypeInv, TypeOK
  <2>3. SoundAnswers'
    BY <1>1, <1>7 DEF Respond, Forget, SoundInv, SoundAnswers, SoundPayload, Sound, TypeInv,
                      TypeOK
  <2> QED BY <2>1, <2>2, <2>3 DEF SoundInv
<1>8. CASE ReadPanel(w)
  <2> DEFINE q == Append(panels[w], table[tenant[w]])
             b == IF panels[w] = <<>> THEN now ELSE began[w]
  <2>1. SoundStore' /\ SoundEntries'
    <3>1. SoundStore'
      BY <1>1, <1>8 DEF ReadPanel, SoundInv, SoundStore, SoundPayload, Sound, CacheKey
    <3>2. SoundEntries'
      BY <1>1, <1>8 DEF ReadPanel, SoundInv, SoundEntries, SoundPayload, Sound, TypeInv, TypeOK
    <3> QED BY <3>1, <3>2
  <2>2. SoundAnswers'
    BY <1>1, <1>8 DEF ReadPanel, SoundInv, SoundAnswers, SoundPayload, Sound, TypeInv, TypeOK
  <2>3. Sound(panels[w], began[w], tenant[w]) /\ began[w] <= now /\ tenant[w] \in Tenants
    BY <1>8 DEF ReadPanel, SoundInv, SoundPanels, TypeInv, TypeOK
  <2>4. /\ DOMAIN q = 1..(Len(panels[w]) + 1) /\ q[Len(panels[w]) + 1] = table[tenant[w]]
        /\ \A i \in DOMAIN panels[w] : q[i] = panels[w][i]
        /\ DOMAIN panels[w] = 1..Len(panels[w]) /\ Len(panels[w]) \in Nat
    <3>1. panels[w] \in Seq(SUBSET Records) /\ table[tenant[w]] \in SUBSET Records
      BY <2>3 DEF TypeInv, TypeOK
    <3> QED BY <3>1
  <2>5. b <= now /\ (panels[w] # <<>> => b = began[w]) /\ (panels[w] = <<>> => Len(panels[w]) = 0)
    BY <2>3 DEF TypeInv, TypeOK
  <2> HIDE DEF q, b
  <2>6. Sound(q, b, tenant[w])
    BY <2>3, <2>4, <2>5 DEF Sound
  <2>7. /\ panels' = [panels EXCEPT ![w] = q] /\ began' = [began EXCEPT ![w] = b]
        /\ \A v \in Workers : v # w => pc'[v] = pc[v]
        /\ UNCHANGED tenant
    BY <1>8 DEF ReadPanel, TypeInv, TypeOK, q, b
  <2>8. SoundPanels'
    BY <1>1, <2>5, <2>6, <2>7 DEF SoundInv, SoundPanels, Sound, TypeInv, TypeOK
  <2> QED BY <2>1, <2>2, <2>8 DEF SoundInv
<1>9. CASE StorePayload(w)
  <2> DEFINE p == [panels |-> panels[w], began |-> began[w], stored |-> now]
  <2>1. Sound(panels[w], began[w], tenant[w]) /\ began[w] <= now /\ tenant[w] \in Tenants
    BY <1>9 DEF StorePayload, SoundInv, SoundPanels, TypeInv, TypeOK
  <2>2. SoundPayload(p, tenant[w]) /\ p.stored = now /\ now < p.stored + TTL
    BY <2>1 DEF SoundPayload, TypeInv, TypeOK
  <2>3. /\ store' = [store EXCEPT ![CacheKey(tenant[w])] = p]
        /\ answer' = [answer EXCEPT ![w] = [payload |-> p, at |-> now]]
        /\ pc' = [pc EXCEPT ![w] = "answered"]
        /\ UNCHANGED <<tenant, entry, panels, began>>
    BY <1>9 DEF StorePayload
  <2> HIDE DEF p
  <2>4. SoundStore'
    <3> SUFFICES ASSUME NEW n \in Tenants, store'[CacheKey(n)] # None
                 PROVE  SoundPayload(store[CacheKey(n)], n)'
      BY DEF SoundStore, CacheKey
    <3>1. CASE n = tenant[w]
      BY <1>1, <2>1, <2>2, <2>3, <3>1 DEF SoundPayload, Sound, TypeInv, TypeOK, Keys
    <3>2. CASE n # tenant[w]
      <4>1. store'[CacheKey(n)] = store[CacheKey(n)]
        BY <2>1, <2>3, <3>2, KeysDiffer DEF TypeInv, TypeOK, Keys
      <4> QED
        BY <1>1, <4>1 DEF SoundInv, SoundStore, SoundPayload, Sound
    <3> QED BY <3>1, <3>2
  <2>5. SoundEntries' /\ SoundPanels'
    BY <1>1, <2>3 DEF SoundInv, SoundEntries, SoundPanels, SoundPayload, Sound, TypeInv, TypeOK
  <2>6. SoundAnswers'
    BY <1>1, <2>2, <2>3 DEF SoundInv, SoundAnswers, SoundPayload, Sound, TypeInv, TypeOK
  <2> QED BY <2>4, <2>5, <2>6 DEF SoundInv
<1> QED
  BY <1>2, <1>3, <1>4, <1>5, <1>6, <1>7, <1>8, <1>9 DEF Serve

LEMMA SoundInductive == TypeInv /\ SoundInv /\ [Next]_vars => SoundInv'
<1> SUFFICES ASSUME TypeInv, SoundInv, [Next]_vars
             PROVE  SoundInv'
  OBVIOUS
<1> USE DEF SoundInv, SoundStore, SoundEntries, SoundPanels, SoundAnswers, SoundPayload, Sound
<1>1. CASE UNCHANGED vars
  BY <1>1 DEF vars, CacheKey
<1>2. CASE Tick
  <2>1. /\ now \in Nat /\ now' = now + 1
        /\ UNCHANGED <<table, born, store, pc, tenant, entry, panels, began, answer>>
    BY <1>2 DEF Tick, TypeInv, TypeOK
  <2>2. SoundStore'
    <3> SUFFICES ASSUME NEW n \in Tenants, NEW p, p = store[CacheKey(n)], p # None
                 PROVE  SoundPayload(p, n)'
      BY <2>1 DEF CacheKey
    <3>1. SoundPayload(p, n)
      OBVIOUS
    <3>2. p \in Payload
      BY DEF TypeInv, TypeOK, Keys
    <3>3. p.stored \in Nat
      BY <3>2, BoundsAssumption DEF Payload
    <3> QED BY <2>1, <3>1, <3>3
  <2>3. SoundEntries'
    <3>1. \A w \in Workers : pc[w] = "check" => entry[w].stored \in Nat
      BY BoundsAssumption DEF TypeInv, FrameInv, Payload
    <3> QED BY <2>1, <3>1
  <2>4. SoundPanels'
    BY <2>1 DEF TypeInv, TypeOK
  <2>5. SoundAnswers'
    <3>1. \A w \in Workers : pc[w] = "answered" => answer[w].payload.stored \in Nat
      BY BoundsAssumption DEF TypeInv, FrameInv, Payload, Answers
    <3> QED BY <2>1, <3>1
  <2> QED BY <2>2, <2>3, <2>4, <2>5
<1>3. CASE \E w \in Workers : Ask(w) \/ Serve(w)
  BY <1>3, StepIsSound
<1>4. CASE \E n \in Tenants, x \in Records : InsertIssues(n, x)
  BY <1>4, InsertIsSound
<1> QED
  BY <1>1, <1>2, <1>3, <1>4 DEF Next

\* What is stored, held and answered is sound at all times (cache.py:36-74).
THEOREM AllSound == Spec => [](TypeInv /\ SoundInv)
<1>1. Init => TypeInv /\ SoundInv
  BY TypedInit DEF Init, SoundInv, SoundStore, SoundEntries, SoundPanels, SoundAnswers, Keys
<1>2. (TypeInv /\ SoundInv) /\ [Next]_vars => (TypeInv /\ SoundInv)'
  BY Typed, SoundInductive
<1> QED
  BY <1>1, <1>2, PTL DEF Spec

\* No answer shows another tenant's records, whichever worker computed or stored it
\* (quality/router.py:499-503).
THEOREM AnswersAreTenants == Spec => []AnswersStayInTenant
<1>1. TypeInv /\ SoundInv => AnswersStayInTenant
  BY DEF SoundInv, SoundAnswers, SoundPayload, Sound, AnswersStayInTenant, Answered, Shown
<1> QED
  BY <1>1, AllSound, PTL

\* The panels of an answer are nested in the order they were read
\* (quality/router.py:505-617).
THEOREM PanelsAreNested == Spec => []PanelsNest
<1>1. TypeInv /\ SoundInv => PanelsNest
  BY DEF SoundInv, SoundAnswers, SoundPayload, Sound, PanelsNest, Answered, Shown
<1> QED
  BY <1>1, AllSound, PTL

\* What an answer misses is younger than the TTL plus the time it took to compute
\* (cache.py:50-74).
THEOREM StalenessIsBounded == Spec => []StalenessBounded
<1>1. TypeInv /\ SoundInv => StalenessBounded
  <2> SUFFICES ASSUME TypeInv, SoundInv, NEW w \in Answered, NEW i \in DOMAIN Shown(w),
                      NEW x \in table[tenant[w]] \ Shown(w)[i]
               PROVE  answer[w].at - born[x]
                        < TTL + (answer[w].payload.stored - answer[w].payload.began)
    BY DEF StalenessBounded
  <2>1. w \in Workers /\ pc[w] = "answered" /\ tenant[w] \in Tenants
    BY DEF Answered, TypeInv, TypeOK
  <2>2. x \in Records /\ born[x] \in Int
    BY <2>1 DEF TypeInv, TypeOK
  <2>3. answer[w].payload.began <= born[x] /\ answer[w].at < answer[w].payload.stored + TTL
    BY <2>1 DEF SoundInv, SoundAnswers, SoundPayload, Sound, Shown
  <2>4. /\ answer[w].at \in Int /\ answer[w].payload.began \in Int
        /\ answer[w].payload.stored \in Int /\ TTL \in Int
    BY <2>1, BoundsAssumption DEF TypeInv, FrameInv, Answers, Payload
  <2> QED
    BY <2>2, <2>3, <2>4
<1> QED
  BY <1>1, AllSound, PTL

=============================================================================
