------------------------ MODULE HdfPowerManagerProofs ------------------------
(***************************************************************************)
(* Proofs about HdfPowerManager, for any number of callers, devices and    *)
(* requests: first for requests through the task queue, surplus releases   *)
(* included; then for direct and queued requests together, of callers that *)
(* release only what they acquired.                                        *)
(***************************************************************************)
EXTENDS HdfPowerManager, FiniteSetTheorems, TLAPS

\* Where a thread stands while it executes a request.
Acquiring == {"acquire", "acquired", "first", "active"}
Releasing == {"release", "decrement", "released", "last", "inactive"}
Executing == Acquiring \cup Releasing
Resting   == {"none", "wait", "lock", "dequeue"}

\* Only the queue's thread executes requests.
Shape ==
    /\ at \in [Threads -> {"idle", "post"} \cup Resting \cup Executing]
    /\ \A c \in Callers : at[c] \in {"idle", "post"}
    /\ at[Worker] \in Resting \cup Executing
    /\ running <=> at[Worker] # "none"
    /\ at[Worker] \in Acquiring => req[Worker] \in Requests /\ req[Worker].type = "ACQUIRE"
    /\ at[Worker] \in Releasing => req[Worker] \in Requests /\ req[Worker].type = "RELEASE"
    /\ owed \in [Devices -> Nat] /\ asked \in [Devices -> Nat]

\* Every post is for a request that was made.
Posting  == {c \in Callers : at[c] = "post"}
PostInv  == sem + Cardinality(Posting) <= made

\* The place of the request about device d, if there is one under way.
Place(d) == IF at[Worker] \in Executing /\ Dev(Worker) = d THEN at[Worker] ELSE "quiet"

\* The token of device d agrees with its holds, up to what the request under way
\* has done.
Agrees(d) == /\ powered[d] <=> owed[d] > 0
             /\ psmState[d] = "ACTIVE" <=> owed[d] > 0
Token(d) ==
    /\ Place(d) \in {"quiet", "acquire", "release", "decrement"} => refs[d] = owed[d] /\ Agrees(d)
    /\ Place(d) = "decrement" => owed[d] > 0
    /\ Place(d) = "acquired" => refs[d] = owed[d] + 1 /\ Agrees(d)
    /\ Place(d) = "first" => refs[d] = 1 /\ owed[d] = 0 /\ Agrees(d)
    /\ Place(d) = "active" => refs[d] = 1 /\ owed[d] = 0 /\ powered[d]
    /\ Place(d) = "released" => refs[d] = owed[d] - 1 /\ owed[d] > 0 /\ Agrees(d)
    /\ Place(d) = "last" => refs[d] = 0 /\ owed[d] < 2 /\ Agrees(d)
    /\ Place(d) = "inactive" => refs[d] = 0 /\ owed[d] < 2 /\ ~powered[d]
TokenInv == \A d \in Devices : Token(d)

\* The holds of d once the request under way is executed.
Pending(d) == IF at[Worker] \in Executing /\ Dev(Worker) = d
              THEN After(owed[d], req[Worker]) ELSE owed[d]

\* f: the holds of d as the queued requests will be executed, one after the other.
Leads(d, f, q) ==
    /\ f[0] = Pending(d)
    /\ \A k \in 1..Len(q) : f[k] = IF q[k].dev = d THEN After(f[k - 1], q[k]) ELSE f[k - 1]
    /\ f[Len(q)] = asked[d]
OrderInv == \A d \in Devices : \E f \in [0..Len(queue) -> Nat] : Leads(d, f, queue)

PowerInv == TypeOK /\ Shape /\ PostInv /\ TokenInv /\ OrderInv

\* What a request does to a count.
LEMMA AfterFacts ==
    ASSUME NEW n \in Nat, NEW r \in Requests
    PROVE  /\ After(n, r) \in Nat
           /\ r.type = "ACQUIRE" => After(n, r) = n + 1
           /\ r.type = "RELEASE" => After(n, r) = IF n > 0 THEN n - 1 ELSE 0
  BY DEF After, Requests

\* The initial state.
LEMMA InitInv ==
    ASSUME MaxRequests \in Nat, Worker \notin Callers
    PROVE  Init => PowerInv
<1> SUFFICES ASSUME Init
             PROVE  PowerInv
  OBVIOUS
<1> USE DEF Init
<1>1. TypeOK
  <2>1. /\ refs \in [Devices -> Int]
        /\ psmState \in [Devices -> {"IDLE", "ACTIVE", "INACTIVE"}]
        /\ queue \in Seq(Requests)
        /\ sem \in 0..MaxRequests /\ made \in 0..MaxRequests
    OBVIOUS
  <2>2. powered \in [Devices -> BOOLEAN] /\ mutex \in BOOLEAN /\ running \in BOOLEAN
    OBVIOUS
  <2>3. req \in [Threads -> Requests \cup {NoRequest}]
    OBVIOUS
  <2> HIDE DEF Init
  <2>4. QED
    BY <2>1, <2>2, <2>3 DEF TypeOK
<1>2. Shape
  <2>1. Worker \in Threads /\ at[Worker] = "none" /\ \A c \in Callers : at[c] = "idle"
    BY DEF Threads
  <2>2. at \in [Threads -> {"idle", "none"}]
    OBVIOUS
  <2>3. at \in [Threads -> {"idle", "post"} \cup Resting \cup Executing]
    BY <2>2 DEF Resting
  <2>4. owed \in [Devices -> Nat] /\ asked \in [Devices -> Nat]
    OBVIOUS
  <2>5. running <=> at[Worker] # "none"
    BY <2>1
  <2>6. at[Worker] \notin Acquiring /\ at[Worker] \notin Releasing /\ at[Worker] \in Resting
    BY <2>1 DEF Resting, Acquiring, Releasing
  <2> HIDE DEF Init
  <2>7. QED
    BY <2>1, <2>3, <2>4, <2>5, <2>6 DEF Shape
<1>3. PostInv
  <2>1. Posting = {}
    BY DEF Posting, Threads
  <2>2. QED
    BY <2>1, FS_EmptySet DEF PostInv
<1>4. Worker \in Threads /\ at[Worker] = "none"
  BY DEF Threads
<1>5. TokenInv
  <2> SUFFICES ASSUME NEW d \in Devices
               PROVE  Token(d)
    BY DEF TokenInv
  <2>1. Place(d) = "quiet"
    BY <1>4 DEF Place, Executing, Acquiring, Releasing
  <2>2. refs[d] = 0 /\ owed[d] = 0 /\ psmState[d] = "IDLE"
    OBVIOUS
  <2>3. powered[d] = FALSE
    OBVIOUS
  <2> HIDE DEF Init
  <2>4. Agrees(d)
    BY <2>2, <2>3 DEF Agrees
  <2>5. QED
    BY <2>1, <2>2, <2>4 DEF Token
<1>6. OrderInv
  <2> SUFFICES ASSUME NEW d \in Devices
               PROVE  \E f \in [0..Len(queue) -> Nat] : Leads(d, f, queue)
    BY DEF OrderInv
  <2> DEFINE f == [k \in 0..0 |-> 0]
  <2>1. f \in [0..Len(queue) -> Nat] /\ Len(queue) = 0 /\ f[0] = 0
    OBVIOUS
  <2>2. Pending(d) = 0 /\ asked[d] = 0
    BY <1>4 DEF Pending, Executing, Acquiring, Releasing
  <2> HIDE DEF f
  <2>3. Leads(d, f, queue)
    BY <2>1, <2>2 DEF Leads
  <2>4. QED
    BY <2>1, <2>3
<1>7. QED
  BY <1>1, <1>2, <1>3, <1>5, <1>6 DEF PowerInv

\* A step of a request that does not end it keeps what the queue leads to.
LEMMA OrderKept ==
    ASSUME OrderInv, queue' = queue, asked' = asked,
           \A d \in Devices : Pending(d)' = Pending(d)
    PROVE  OrderInv'
  BY DEF OrderInv, Leads

\* The steps of the queue's thread inside a request.
LEMMA TokenSteps ==
    ASSUME PowerInv, TokenStep(Worker), Worker \notin Callers
    PROVE  /\ at' = [at EXCEPT ![Worker] = at'[Worker]]
           /\ \/ /\ at[Worker] \in Acquiring /\ at'[Worker] \in Acquiring /\ owed' = owed
              \/ /\ at[Worker] \in Releasing /\ at'[Worker] \in Releasing /\ owed' = owed
              \/ /\ at[Worker] \in Executing /\ at'[Worker] = "dequeue"
                 /\ owed' = [owed EXCEPT ![Dev(Worker)] = After(@, req[Worker])]
           /\ UNCHANGED <<req, queueVars, made, holds, asked>>
<1>1. Worker \in Threads /\ DOMAIN at = Threads
  BY DEF PowerInv, Shape, Threads
<1>2. QED
  BY <1>1 DEF TokenStep, HdfSRefAcquire, SRefAcquired, PowerStateTokenOnFirstAcquire,
     OnFirstAcquireDone, PowerStateTokenReleaseWakeLock, HdfSRefRelease, SRefReleased,
     PowerStateTokenOnLastRelease, OnLastReleaseDone, Goes, Ends, Counts, Executing, Acquiring,
     Releasing

\* A step inside a request leaves the other devices' tokens alone.
LEMMA OtherTokens ==
    ASSUME PowerInv, TokenStep(Worker), Worker \notin Callers,
           NEW d \in Devices, d # Dev(Worker)
    PROVE  Token(d)'
<1>1. refs \in [Devices -> Int] /\ DOMAIN psmState = Devices /\ DOMAIN powered = Devices
      /\ owed \in [Devices -> Nat] /\ Worker \in Threads
  BY DEF PowerInv, TypeOK, Shape, Threads
<1>2. refs'[d] = refs[d] /\ psmState'[d] = psmState[d] /\ owed'[d] = owed[d]
  BY <1>1 DEF TokenStep, HdfSRefAcquire, SRefAcquired, PowerStateTokenOnFirstAcquire,
     OnFirstAcquireDone, PowerStateTokenReleaseWakeLock, HdfSRefRelease, SRefReleased,
     PowerStateTokenOnLastRelease, OnLastReleaseDone, Goes, Ends, Counts, tokenVars
<1>3. powered'[d] = powered[d]
  BY <1>1 DEF TokenStep, HdfSRefAcquire, SRefAcquired, PowerStateTokenOnFirstAcquire,
     OnFirstAcquireDone, PowerStateTokenReleaseWakeLock, HdfSRefRelease, SRefReleased,
     PowerStateTokenOnLastRelease, OnLastReleaseDone, tokenVars
<1>4. Dev(Worker)' = Dev(Worker)
  BY TokenSteps DEF Dev
<1>5. Place(d) = "quiet" /\ Place(d)' = "quiet"
  BY <1>4 DEF Place
<1>6. refs[d] = owed[d] /\ Agrees(d)
  BY <1>5 DEF PowerInv, TokenInv, Token
<1>7. Agrees(d)'
  BY <1>2, <1>3, <1>6 DEF Agrees
<1>8. QED
  BY <1>2, <1>5, <1>6, <1>7 DEF Token

\* The token of the device that the request is about, one step after the other.
LEMMA OwnToken ==
    ASSUME PowerInv, TokenStep(Worker), Worker \notin Callers,
           NEW d \in Devices, d = Dev(Worker)
    PROVE  Token(d)'
<1>1. refs \in [Devices -> Int] /\ psmState \in [Devices -> {"IDLE", "ACTIVE", "INACTIVE"}]
      /\ powered \in [Devices -> BOOLEAN] /\ owed \in [Devices -> Nat] /\ Worker \in Threads
      /\ DOMAIN at = Threads
  BY DEF PowerInv, TypeOK, Shape, Threads
<1>2. d = Dev(Worker)'
  BY TokenSteps DEF Dev
<1>3. at[Worker] \in Executing
  BY TokenSteps DEF Executing
<1>4. Place(d) = at[Worker]
  BY <1>3 DEF Place
<1>5. Token(d)
  BY DEF PowerInv, TokenInv
<1>6. /\ at[Worker] \in Acquiring => req[Worker] \in Requests /\ req[Worker].type = "ACQUIRE"
      /\ at[Worker] \in Releasing => req[Worker] \in Requests /\ req[Worker].type = "RELEASE"
  BY DEF PowerInv, Shape
<1>7. owed[d] \in Nat /\ refs[d] \in Int
  BY <1>1
<1>8. Place(d)' = IF at'[Worker] \in Executing THEN at'[Worker] ELSE "quiet"
  BY <1>2 DEF Place
<1> DEFINE Still == refs' = refs /\ psmState' = psmState /\ powered' = powered
<1>9. CASE HdfSRefAcquire(Worker)
  <2>1. at'[Worker] = "acquired" /\ at[Worker] = "acquire" /\ refs'[d] = refs[d] + 1
        /\ psmState' = psmState /\ powered' = powered /\ owed' = owed
    BY <1>1, <1>9 DEF HdfSRefAcquire, Goes
  <2>2. refs[d] = owed[d] /\ Agrees(d)
    BY <1>4, <1>5, <2>1 DEF Token
  <2>3. Agrees(d)'
    BY <2>1, <2>2 DEF Agrees
  <2>4. Place(d)' = "acquired"
    BY <1>8, <2>1 DEF Executing, Acquiring
  <2>5. QED
    BY <2>1, <2>2, <2>3, <2>4 DEF Token
<1>10. CASE SRefAcquired(Worker)
  <2>1. at[Worker] = "acquired" /\ Still
    BY <1>10 DEF SRefAcquired, tokenVars
  <2>2. refs[d] = owed[d] + 1 /\ Agrees(d)
    BY <1>4, <1>5, <2>1 DEF Token
  <2>3. CASE refs[d] = 1
    <3>1. at'[Worker] = "first" /\ owed' = owed
      BY <1>1, <1>10, <2>3 DEF SRefAcquired, Goes
    <3>2. Agrees(d)'
      BY <2>1, <2>2, <3>1 DEF Agrees
    <3>3. Place(d)' = "first"
      BY <1>8, <3>1 DEF Executing, Acquiring
    <3>4. QED
      BY <1>7, <2>1, <2>2, <2>3, <3>1, <3>2, <3>3 DEF Token
  <2>4. CASE refs[d] # 1
    <3>1. at'[Worker] = "dequeue" /\ owed'[d] = After(owed[d], req[Worker])
      BY <1>1, <1>10, <2>4 DEF SRefAcquired, Goes, Ends, Counts
    <3>2. owed'[d] = owed[d] + 1
      BY <1>6, <1>7, <2>1, <3>1, AfterFacts DEF Acquiring
    <3>3. owed[d] > 0 /\ owed'[d] > 0
      BY <1>7, <2>2, <2>4, <3>2
    <3>4. Agrees(d)'
      BY <2>1, <2>2, <3>3 DEF Agrees
    <3>5. Place(d)' = "quiet"
      BY <1>8, <3>1 DEF Executing, Acquiring, Releasing
    <3>6. QED
      BY <2>1, <2>2, <3>2, <3>4, <3>5 DEF Token
  <2>5. QED
    BY <2>3, <2>4
<1>11. CASE PowerStateTokenOnFirstAcquire(Worker)
  <2>0. at[Worker] = "first" /\ refs' = refs /\ psmState' = psmState
    BY <1>11 DEF PowerStateTokenOnFirstAcquire
  <2>2. refs[d] = 1 /\ owed[d] = 0 /\ Agrees(d)
    BY <1>4, <1>5, <2>0 DEF Token
  <2>3. psmState[d] # "ACTIVE"
    BY <2>2 DEF Agrees
  <2>1. at'[Worker] = "active" /\ owed' = owed
    BY <1>1, <1>11, <2>3 DEF PowerStateTokenOnFirstAcquire, Goes
  <2>4. powered'[d]
    BY <1>1, <1>11, <2>3 DEF PowerStateTokenOnFirstAcquire
  <2>5. Place(d)' = "active"
    BY <1>8, <2>1 DEF Executing, Acquiring
  <2>6. QED
    BY <2>0, <2>1, <2>2, <2>4, <2>5 DEF Token
<1>12. CASE OnFirstAcquireDone(Worker)
  <2>1. at[Worker] = "active" /\ at'[Worker] = "dequeue" /\ refs' = refs
        /\ psmState'[d] = "ACTIVE" /\ powered' = powered
        /\ owed'[d] = After(owed[d], req[Worker])
    BY <1>1, <1>12 DEF OnFirstAcquireDone, Goes, Ends, Counts
  <2>2. refs[d] = 1 /\ owed[d] = 0 /\ powered[d]
    BY <1>4, <1>5, <2>1 DEF Token
  <2>3. owed'[d] = 1
    BY <1>6, <1>7, <2>1, <2>2, AfterFacts DEF Acquiring
  <2>4. Agrees(d)'
    BY <2>1, <2>2, <2>3 DEF Agrees
  <2>5. Place(d)' = "quiet"
    BY <1>8, <2>1 DEF Executing, Acquiring, Releasing
  <2>6. QED
    BY <2>1, <2>2, <2>3, <2>4, <2>5 DEF Token
<1>13. CASE PowerStateTokenReleaseWakeLock(Worker)
  <2>1. at[Worker] = "release" /\ Still /\ owed' = owed
        /\ at'[Worker] = IF refs[d] = 0 THEN "last" ELSE "decrement"
    BY <1>1, <1>13 DEF PowerStateTokenReleaseWakeLock, Goes, tokenVars
  <2>2. refs[d] = owed[d] /\ Agrees(d)
    BY <1>4, <1>5, <2>1 DEF Token
  <2>3. Agrees(d)'
    BY <2>1, <2>2 DEF Agrees
  <2>4. Place(d)' = IF refs[d] = 0 THEN "last" ELSE "decrement"
    BY <1>8, <2>1 DEF Executing, Releasing
  <2>5. QED
    BY <1>7, <2>1, <2>2, <2>3, <2>4 DEF Token
<1>14. CASE HdfSRefRelease(Worker)
  <2>1. at'[Worker] = "released" /\ at[Worker] = "decrement" /\ refs'[d] = refs[d] - 1
        /\ psmState' = psmState /\ powered' = powered /\ owed' = owed
    BY <1>1, <1>14 DEF HdfSRefRelease, Goes
  <2>2. refs[d] = owed[d] /\ owed[d] > 0 /\ Agrees(d)
    BY <1>4, <1>5, <2>1 DEF Token
  <2>3. Agrees(d)'
    BY <2>1, <2>2 DEF Agrees
  <2>4. Place(d)' = "released"
    BY <1>8, <2>1 DEF Executing, Releasing
  <2>5. QED
    BY <1>7, <2>1, <2>2, <2>3, <2>4 DEF Token
<1>15. CASE SRefReleased(Worker)
  <2>1. at[Worker] = "released" /\ Still
    BY <1>15 DEF SRefReleased, tokenVars
  <2>2. refs[d] = owed[d] - 1 /\ owed[d] > 0 /\ Agrees(d)
    BY <1>4, <1>5, <2>1 DEF Token
  <2>3. CASE refs[d] = 0
    <3>1. at'[Worker] = "last" /\ owed' = owed
      BY <1>1, <1>15, <2>3 DEF SRefReleased, Goes
    <3>2. Agrees(d)'
      BY <2>1, <2>2, <3>1 DEF Agrees
    <3>3. Place(d)' = "last"
      BY <1>8, <3>1 DEF Executing, Releasing
    <3>4. QED
      BY <1>7, <2>1, <2>2, <2>3, <3>1, <3>2, <3>3 DEF Token
  <2>4. CASE refs[d] # 0
    <3>1. at'[Worker] = "dequeue" /\ owed'[d] = After(owed[d], req[Worker])
      BY <1>1, <1>15, <2>4 DEF SRefReleased, Goes, Ends, Counts
    <3>2. owed'[d] = owed[d] - 1
      BY <1>6, <1>7, <2>1, <2>2, <3>1, AfterFacts DEF Releasing
    <3>3. owed'[d] > 0
      BY <1>7, <2>2, <2>4, <3>2
    <3>4. Agrees(d)'
      BY <2>1, <2>2, <3>3 DEF Agrees
    <3>5. Place(d)' = "quiet"
      BY <1>8, <3>1 DEF Executing, Acquiring, Releasing
    <3>6. QED
      BY <2>1, <2>2, <3>2, <3>4, <3>5 DEF Token
  <2>5. QED
    BY <2>3, <2>4
<1>16. CASE PowerStateTokenOnLastRelease(Worker)
  <2>1. at[Worker] = "last" /\ refs' = refs /\ psmState' = psmState
    BY <1>16 DEF PowerStateTokenOnLastRelease
  <2>2. refs[d] = 0 /\ owed[d] < 2 /\ Agrees(d)
    BY <1>4, <1>5, <2>1 DEF Token
  <2>3. CASE psmState[d] \in {"ACTIVE", "IDLE"}
    <3>1. at'[Worker] = "inactive" /\ owed' = owed
      BY <1>1, <1>16, <2>3 DEF PowerStateTokenOnLastRelease, Goes
    <3>2. ~powered'[d]
      BY <1>1, <1>16, <2>3 DEF PowerStateTokenOnLastRelease
    <3>3. Place(d)' = "inactive"
      BY <1>8, <3>1 DEF Executing, Releasing
    <3>4. QED
      BY <2>1, <2>2, <3>1, <3>2, <3>3 DEF Token
  <2>4. CASE psmState[d] = "INACTIVE"
    <3>1. at'[Worker] = "dequeue" /\ owed'[d] = After(owed[d], req[Worker]) /\ powered' = powered
      BY <1>1, <1>16, <2>4 DEF PowerStateTokenOnLastRelease, Goes, Ends, Counts
    <3>2. owed[d] = 0
      BY <1>7, <2>2, <2>4 DEF Agrees
    <3>3. owed'[d] = 0
      <4>1. req[Worker] \in Requests /\ req[Worker].type = "RELEASE"
        BY <1>6, <2>1 DEF Releasing
      <4>2. After(owed[d], req[Worker]) = 0
        BY <1>7, <3>2, <4>1, AfterFacts
      <4>3. QED
        BY <3>1, <4>2
    <3>4. Agrees(d)'
      BY <2>1, <2>2, <3>1, <3>2, <3>3 DEF Agrees
    <3>5. Place(d)' = "quiet"
      BY <1>8, <3>1 DEF Executing, Acquiring, Releasing
    <3>6. QED
      BY <2>1, <2>2, <3>3, <3>4, <3>5 DEF Token
  <2>5. QED
    BY <1>1, <2>3, <2>4
<1>17. CASE OnLastReleaseDone(Worker)
  <2>1. at[Worker] = "inactive" /\ at'[Worker] = "dequeue" /\ refs' = refs
        /\ psmState'[d] = "INACTIVE" /\ powered' = powered
        /\ owed'[d] = After(owed[d], req[Worker])
    BY <1>1, <1>17 DEF OnLastReleaseDone, Goes, Ends, Counts
  <2>2. refs[d] = 0 /\ owed[d] < 2 /\ ~powered[d]
    BY <1>4, <1>5, <2>1 DEF Token
  <2>3. owed'[d] = 0
    BY <1>6, <1>7, <2>1, <2>2, AfterFacts DEF Releasing
  <2>4. Agrees(d)'
    BY <2>1, <2>2, <2>3 DEF Agrees
  <2>5. Place(d)' = "quiet"
    BY <1>8, <2>1 DEF Executing, Acquiring, Releasing
  <2>6. QED
    BY <2>1, <2>2, <2>3, <2>4, <2>5 DEF Token
<1>18. QED
  BY <1>9, <1>10, <1>11, <1>12, <1>13, <1>14, <1>15, <1>16, <1>17 DEF TokenStep

\* A step inside a request.
LEMMA TokenStepInv ==
    ASSUME PowerInv, TokenStep(Worker), Worker \notin Callers
    PROVE  PowerInv'
<1>1. /\ refs \in [Devices -> Int] /\ psmState \in [Devices -> {"IDLE", "ACTIVE", "INACTIVE"}]
      /\ powered \in [Devices -> BOOLEAN] /\ owed \in [Devices -> Nat] /\ Worker \in Threads
      /\ DOMAIN at = Threads
  BY DEF PowerInv, TypeOK, Shape, Threads
<1>2. at[Worker] \in Executing
  BY TokenSteps DEF Executing
<1>3. req[Worker] \in Requests /\ Dev(Worker) \in Devices
  BY <1>2 DEF PowerInv, Shape, Executing, Dev, Requests
<1>4. TypeOK'
  <2>1. refs' \in [Devices -> Int] /\ psmState' \in [Devices -> {"IDLE", "ACTIVE", "INACTIVE"}]
    BY <1>1, <1>3 DEF TokenStep, HdfSRefAcquire, SRefAcquired, PowerStateTokenOnFirstAcquire,
       OnFirstAcquireDone, PowerStateTokenReleaseWakeLock, HdfSRefRelease, SRefReleased,
       PowerStateTokenOnLastRelease, OnLastReleaseDone, tokenVars
  <2>2. powered' \in [Devices -> BOOLEAN]
    BY <1>1, <1>3 DEF TokenStep, HdfSRefAcquire, SRefAcquired, PowerStateTokenOnFirstAcquire,
       OnFirstAcquireDone, PowerStateTokenReleaseWakeLock, HdfSRefRelease, SRefReleased,
       PowerStateTokenOnLastRelease, OnLastReleaseDone, tokenVars
  <2>3. UNCHANGED <<queue, req, sem, made, mutex, running>>
    BY TokenSteps DEF queueVars
  <2>4. QED
    BY <2>1, <2>2, <2>3 DEF PowerInv, TypeOK
<1>5. Shape'
  <2>1. at' = [at EXCEPT ![Worker] = at'[Worker]]
        /\ at'[Worker] \in Executing \cup {"dequeue"}
        /\ (at'[Worker] \in Acquiring => at[Worker] \in Acquiring)
        /\ (at'[Worker] \in Releasing => at[Worker] \in Releasing)
    BY TokenSteps DEF Executing, Acquiring, Releasing
  <2>2. UNCHANGED <<req, running, asked>>
    BY TokenSteps DEF queueVars
  <2>3. owed' \in [Devices -> Nat]
    BY <1>1, <1>3, TokenSteps, AfterFacts
  <2>4. \A c \in Callers : at'[c] = at[c]
    BY <1>1, <2>1 DEF Threads
  <2>5. /\ at \in [Threads -> {"idle", "post"} \cup Resting \cup Executing]
        /\ \A c \in Callers : at[c] \in {"idle", "post"}
        /\ asked \in [Devices -> Nat]
        /\ at[Worker] \in Acquiring => req[Worker] \in Requests /\ req[Worker].type = "ACQUIRE"
        /\ at[Worker] \in Releasing => req[Worker] \in Requests /\ req[Worker].type = "RELEASE"
    BY DEF PowerInv, Shape
  <2>6. at' \in [Threads -> {"idle", "post"} \cup Resting \cup Executing]
    <3>1. at'[Worker] \in {"idle", "post"} \cup Resting \cup Executing
      BY <2>1 DEF Resting
    <3>2. QED
      BY <2>1, <2>5, <3>1
  <2>7. at'[Worker] # "none" /\ at[Worker] # "none" /\ at'[Worker] \in Resting \cup Executing
    BY <1>2, <2>1 DEF Executing, Acquiring, Releasing, Resting
  <2>8. running' <=> at'[Worker] # "none"
    BY <2>2, <2>7 DEF PowerInv, Shape
  <2>9. QED
    BY <2>1, <2>2, <2>3, <2>4, <2>5, <2>6, <2>7, <2>8 DEF Shape
<1>6. PostInv'
  <2>1. \A c \in Callers : at'[c] = at[c]
    BY <1>1, TokenSteps DEF Threads
  <2>2. Posting' = Posting /\ sem' = sem /\ made' = made
    BY <2>1, TokenSteps DEF Posting, queueVars
  <2>3. QED
    BY <2>2 DEF PowerInv, PostInv
<1>7. TokenInv'
  BY OwnToken, OtherTokens DEF TokenInv
<1>8. OrderInv'
  <2>1. queue' = queue /\ asked' = asked /\ req' = req
    BY TokenSteps DEF queueVars
  <2>2. \A d \in Devices : Pending(d)' = Pending(d)
    <3> SUFFICES ASSUME NEW d \in Devices
                 PROVE  Pending(d)' = Pending(d)
      OBVIOUS
    <3>1. CASE owed' = owed /\ at'[Worker] \in Executing
      BY <1>2, <2>1, <3>1 DEF Pending, Dev
    <3>2. CASE at'[Worker] = "dequeue"
               /\ owed' = [owed EXCEPT ![Dev(Worker)] = After(@, req[Worker])]
      <4>1. Pending(d)' = owed'[d]
        BY <3>2 DEF Pending, Executing, Acquiring, Releasing
      <4>2. QED
        BY <1>1, <1>2, <3>2, <4>1 DEF Pending
    <3>3. QED
      BY <3>1, <3>2, TokenSteps DEF Executing
  <2>3. OrderInv
    BY DEF PowerInv
  <2>4. QED
    BY <2>1, <2>2, <2>3, OrderKept
<1>9. QED
  BY <1>4, <1>5, <1>6, <1>7, <1>8 DEF PowerInv

\* The tokens, when a step changes none of them and the worker executes nothing
\* before or after it, or the same request.
LEMMA TokensKept ==
    ASSUME TokenInv, UNCHANGED <<refs, psmState, powered, owed>>,
           \A d \in Devices : Place(d)' = Place(d)
    PROVE  TokenInv'
<1> SUFFICES ASSUME NEW d \in Devices
             PROVE  Token(d)'
  BY DEF TokenInv
<1>1. Token(d) /\ Place(d)' = Place(d)
  BY DEF TokenInv
<1>2. Agrees(d)' <=> Agrees(d)
  BY DEF Agrees
<1>3. refs'[d] = refs[d] /\ owed'[d] = owed[d] /\ powered' = powered
  OBVIOUS
<1>4. QED
  BY <1>1, <1>2, <1>3 DEF Token

\* HdfTaskEnqueue.
LEMMA EnqueueInv ==
    ASSUME PowerInv, NEW t \in Callers, NEW r \in Requests, HdfTaskEnqueue(t, r),
           MaxRequests \in Nat, IsFiniteSet(Callers), Worker \notin Callers
    PROVE  PowerInv'
<1>1. /\ at[t] = "idle" /\ made < MaxRequests /\ made' = made + 1
      /\ asked' = [asked EXCEPT ![r.dev] = After(@, r)]
      /\ queue' = Append(queue, r)
      /\ at' = [at EXCEPT ![t] = "post", ![Worker] = IF running THEN @ ELSE "wait"]
      /\ UNCHANGED <<refs, psmState, powered, req, mutex, sem, owed>>
  BY DEF HdfTaskEnqueue, Makes, InsertTail, tokenVars
<1>2. running' = TRUE
  BY DEF HdfTaskEnqueue
<1>3. /\ at \in [Threads -> {"idle", "post"} \cup Resting \cup Executing]
      /\ \A c \in Callers : at[c] \in {"idle", "post"}
      /\ at[Worker] \in Resting \cup Executing
      /\ owed \in [Devices -> Nat] /\ asked \in [Devices -> Nat]
      /\ Worker \in Threads /\ t \in Threads /\ t # Worker
  BY DEF PowerInv, Shape, Threads
<1>4. /\ running => at[Worker] # "none"
      /\ ~running => at[Worker] = "none"
  BY DEF PowerInv, Shape
<1>5. /\ at'[t] = "post"
      /\ \A c \in Callers : c # t => at'[c] = at[c]
      /\ running => at'[Worker] = at[Worker]
      /\ ~running => at'[Worker] = "wait"
  BY <1>1, <1>3 DEF Threads
<1>6. queue \in Seq(Requests) /\ sem \in Nat /\ made \in Nat
  BY DEF PowerInv, TypeOK
<1>7. TypeOK'
  BY <1>1, <1>2, <1>6 DEF PowerInv, TypeOK
<1>8. Shape'
  <2>1. asked' \in [Devices -> Nat]
    BY <1>1, <1>3, AfterFacts DEF Requests
  <2>2. at'[Worker] # "none" /\ at'[Worker] \in Resting \cup Executing
    BY <1>3, <1>4, <1>5 DEF Resting
  <2>3. at' \in [Threads -> {"idle", "post"} \cup Resting \cup Executing]
    BY <1>1, <1>3 DEF Resting
  <2>4. /\ at'[Worker] \in Acquiring => at[Worker] \in Acquiring
        /\ at'[Worker] \in Releasing => at[Worker] \in Releasing
    BY <1>5 DEF Acquiring, Releasing
  <2>5. running' <=> at'[Worker] # "none"
    BY <1>2, <2>2
  <2>6. \A c \in Callers : at'[c] \in {"idle", "post"}
    BY <1>3, <1>5
  <2>7. /\ at'[Worker] \in Acquiring => req'[Worker] \in Requests /\ req'[Worker].type = "ACQUIRE"
        /\ at'[Worker] \in Releasing => req'[Worker] \in Requests /\ req'[Worker].type = "RELEASE"
    BY <1>1, <2>4 DEF PowerInv, Shape
  <2>8. QED
    BY <1>1, <1>3, <2>1, <2>2, <2>3, <2>5, <2>6, <2>7 DEF Shape
<1>9. PostInv'
  <2>1. Posting' = Posting \cup {t} /\ t \notin Posting
    BY <1>1, <1>5 DEF Posting
  <2>2. IsFiniteSet(Posting)
    BY FS_Subset DEF Posting
  <2>3. Cardinality(Posting') = Cardinality(Posting) + 1 /\ Cardinality(Posting) \in Nat
    BY <2>1, <2>2, FS_AddElement, FS_CardinalityType
  <2>4. QED
    BY <1>1, <1>6, <2>3 DEF PowerInv, PostInv
<1>10. /\ at[Worker] \in Executing => at'[Worker] = at[Worker]
       /\ at[Worker] \notin Executing => at'[Worker] \notin Executing
  BY <1>3, <1>4, <1>5 DEF Executing, Acquiring, Releasing
<1>11. TokenInv'
  <2>1. \A d \in Devices : Place(d)' = Place(d)
    BY <1>1, <1>10 DEF Place, Dev
  <2>2. QED
    BY <1>1, <2>1, TokensKept DEF PowerInv
<1>12. OrderInv'
  <2> SUFFICES ASSUME NEW d \in Devices
               PROVE  \E g \in [0..Len(queue') -> Nat] : Leads(d, g, queue)'
    BY DEF OrderInv
  <2>1. PICK f \in [0..Len(queue) -> Nat] : Leads(d, f, queue)
    BY DEF PowerInv, OrderInv
  <2>2. Pending(d)' = Pending(d)
    BY <1>1, <1>10 DEF Pending, Dev
  <2>3. PICK n \in Nat : n = Len(queue)
    BY <1>6
  <2>4. PICK a \in Nat : a = asked'[d]
    BY <1>8 DEF Shape
  <2> DEFINE g == [k \in 0..(n + 1) |-> IF k <= n THEN f[k] ELSE a]
  <2>5. Len(queue') = n + 1 /\ queue'[n + 1] = r /\ \A k \in 1..n : queue'[k] = queue[k]
    BY <1>1, <1>6, <2>3
  <2>6. g \in [0..(n + 1) -> Nat] /\ g[n + 1] = asked'[d] /\ \A k \in 0..n : g[k] = f[k]
    BY <2>3, <2>4
  <2> HIDE DEF g
  <2>7. f[0] = Pending(d) /\ f[n] = asked[d]
        /\ \A k \in 1..n : f[k] = IF queue[k].dev = d THEN After(f[k - 1], queue[k]) ELSE f[k - 1]
    BY <2>1, <2>3 DEF Leads
  <2>8. asked'[d] = IF r.dev = d THEN After(asked[d], r) ELSE asked[d]
    BY <1>1, <1>3
  <2>9. ASSUME NEW k \in 1..(n + 1)
        PROVE  g[k] = IF queue'[k].dev = d THEN After(g[k - 1], queue'[k]) ELSE g[k - 1]
    <3>1. CASE k = n + 1
      <4>1. k - 1 = n /\ g[n] = asked[d]
        BY <2>6, <2>7, <3>1
      <4>2. QED
        BY <2>5, <2>6, <2>8, <3>1, <4>1
    <3>2. CASE k # n + 1
      <4>1. k \in 1..n /\ k - 1 \in 0..n /\ k \in 0..n
        BY <3>2
      <4>2. QED
        BY <2>5, <2>6, <2>7, <4>1
    <3>3. QED
      BY <3>1, <3>2
  <2>10. g[0] = Pending(d)'
    BY <2>2, <2>6, <2>7
  <2>11. Leads(d, g, queue)'
    BY <2>5, <2>6, <2>9, <2>10 DEF Leads
  <2>12. QED
    BY <2>5, <2>6, <2>11
<1>13. QED
  BY <1>7, <1>8, <1>9, <1>11, <1>12 DEF PowerInv

\* OsalSemPost.
LEMMA SemPostInv ==
    ASSUME PowerInv, NEW t \in Callers, OsalSemPost(t),
           MaxRequests \in Nat, IsFiniteSet(Callers), Worker \notin Callers
    PROVE  PowerInv'
<1>1. /\ at[t] = "post" /\ sem' = sem + 1 /\ at' = [at EXCEPT ![t] = "idle"]
      /\ UNCHANGED <<refs, psmState, powered, req, queue, mutex, running, made, owed, asked>>
  BY DEF OsalSemPost, Goes, tokenVars
<1>2. /\ at \in [Threads -> {"idle", "post"} \cup Resting \cup Executing]
      /\ t \in Threads /\ Worker \in Threads /\ t # Worker
  BY DEF PowerInv, Shape, Threads
<1>3. at'[t] = "idle" /\ at'[Worker] = at[Worker] /\ \A c \in Callers : c # t => at'[c] = at[c]
  BY <1>1, <1>2 DEF Threads
<1>4. sem \in Nat /\ made \in 0..MaxRequests
  BY DEF PowerInv, TypeOK
<1>5. PostInv' /\ sem' <= made
  <2>1. Posting' = Posting \ {t} /\ t \in Posting
    BY <1>1, <1>3 DEF Posting
  <2>2. IsFiniteSet(Posting)
    BY FS_Subset DEF Posting
  <2>3. Cardinality(Posting') = Cardinality(Posting) - 1 /\ Cardinality(Posting) \in Nat
        /\ Cardinality(Posting') \in Nat
    BY <2>1, <2>2, FS_RemoveElement, FS_CardinalityType
  <2>4. QED
    BY <1>1, <1>4, <2>3 DEF PowerInv, PostInv
<1>6. TypeOK'
  BY <1>1, <1>4, <1>5 DEF PowerInv, TypeOK
<1>7. Shape'
  BY <1>1, <1>2, <1>3 DEF PowerInv, Shape
<1>8. TokenInv'
  <2>1. \A d \in Devices : Place(d)' = Place(d)
    BY <1>1, <1>3 DEF Place, Dev
  <2>2. QED
    BY <1>1, <2>1, TokensKept DEF PowerInv
<1>9. OrderInv'
  <2>1. \A d \in Devices : Pending(d)' = Pending(d)
    BY <1>1, <1>3 DEF Pending, Dev
  <2>2. QED
    BY <1>1, <2>1, OrderKept DEF PowerInv
<1>10. QED
  BY <1>5, <1>6, <1>7, <1>8, <1>9 DEF PowerInv

\* The queue's thread between two requests: HdfThreadTasker, TaskerLock and
\* TaskerUnlock.
LEMMA TaskerInv ==
    ASSUME PowerInv, HdfThreadTasker \/ TaskerLock \/ TaskerUnlock,
           MaxRequests \in Nat, IsFiniteSet(Callers), Worker \notin Callers
    PROVE  PowerInv'
<1>1. /\ at[Worker] \in Resting \ {"none"} /\ at'[Worker] \in Resting \ {"none"}
      /\ at' = [at EXCEPT ![Worker] = at'[Worker]]
      /\ UNCHANGED <<refs, psmState, powered, req, queue, running, made, owed, asked>>
  <2>1. Worker \in DOMAIN at
    BY DEF PowerInv, Shape, Threads
  <2>2. QED
    BY <2>1 DEF HdfThreadTasker, TaskerLock, TaskerUnlock, Goes, tokenVars, Resting
<1>2. /\ at \in [Threads -> {"idle", "post"} \cup Resting \cup Executing]
      /\ Worker \in Threads
  BY DEF PowerInv, Shape, Threads
<1>3. \A c \in Callers : at'[c] = at[c]
  BY <1>1, <1>2 DEF Threads
<1>4. sem \in 0..MaxRequests /\ made \in Nat
  BY DEF PowerInv, TypeOK
<1>5. sem' \in 0..MaxRequests /\ sem' <= sem
  BY <1>4 DEF HdfThreadTasker, TaskerLock, TaskerUnlock
<1>6. mutex' \in BOOLEAN
  BY DEF HdfThreadTasker, TaskerLock, TaskerUnlock, PowerInv, TypeOK
<1>7. TypeOK'
  BY <1>1, <1>5, <1>6 DEF PowerInv, TypeOK
<1>8. at[Worker] \notin Executing /\ at'[Worker] \notin Executing
  BY <1>1 DEF Resting, Executing, Acquiring, Releasing
<1>9. Shape'
  <2>1. at' \in [Threads -> {"idle", "post"} \cup Resting \cup Executing]
    <3>1. at'[Worker] \in {"idle", "post"} \cup Resting \cup Executing
      BY <1>1
    <3>2. QED
      BY <1>1, <1>2, <3>1
  <2>2. running' <=> at'[Worker] # "none"
    BY <1>1 DEF PowerInv, Shape
  <2>3. at'[Worker] \notin Acquiring /\ at'[Worker] \notin Releasing
    BY <1>8 DEF Executing
  <2>4. QED
    BY <1>1, <1>3, <2>1, <2>2, <2>3 DEF PowerInv, Shape
<1>10. PostInv'
  <2>1. Posting' = Posting
    BY <1>3 DEF Posting
  <2>2. Cardinality(Posting) \in Nat
    BY FS_Subset, FS_CardinalityType DEF Posting
  <2>3. QED
    BY <1>1, <1>4, <1>5, <2>1, <2>2 DEF PowerInv, PostInv
<1>11. TokenInv'
  <2>1. \A d \in Devices : Place(d)' = Place(d)
    BY <1>8 DEF Place
  <2>2. QED
    BY <1>1, <2>1, TokensKept DEF PowerInv
<1>12. OrderInv'
  <2>1. \A d \in Devices : Pending(d)' = Pending(d)
    BY <1>1, <1>8 DEF Pending
  <2>2. QED
    BY <1>1, <2>1, OrderKept DEF PowerInv
<1>13. QED
  BY <1>7, <1>9, <1>10, <1>11, <1>12 DEF PowerInv

\* HdfTaskDequeue: the first request of the queue becomes the one under way.
LEMMA DequeueInv ==
    ASSUME PowerInv, HdfTaskDequeue, Worker \notin Callers
    PROVE  PowerInv'
<1>1. PICK r : r = Head(queue)
  OBVIOUS
<1>2. /\ at[Worker] = "dequeue" /\ queue # <<>> /\ queue' = Tail(queue)
      /\ req' = [req EXCEPT ![Worker] = r]
      /\ at' = [at EXCEPT ![Worker] = IF r.type = "ACQUIRE" THEN "acquire" ELSE "release"]
      /\ UNCHANGED <<refs, psmState, powered, mutex, sem, running, made, owed, asked>>
  BY <1>1 DEF HdfTaskDequeue, Goes, tokenVars
<1>3. queue \in Seq(Requests) /\ req \in [Threads -> Requests \cup {NoRequest}]
  BY DEF PowerInv, TypeOK
<1>4. /\ at \in [Threads -> {"idle", "post"} \cup Resting \cup Executing]
      /\ Worker \in Threads /\ owed \in [Devices -> Nat] /\ asked \in [Devices -> Nat]
  BY DEF PowerInv, Shape, Threads
<1>5. r \in Requests /\ r.dev \in Devices /\ r.type \in {"ACQUIRE", "RELEASE"}
  <2>1. Head(queue) \in Requests
    BY <1>2, <1>3
  <2>2. QED
    BY <1>1, <2>1 DEF Requests
<1>6. /\ at'[Worker] = IF r.type = "ACQUIRE" THEN "acquire" ELSE "release"
      /\ req'[Worker] = r
      /\ \A c \in Callers : at'[c] = at[c]
  BY <1>2, <1>3, <1>4 DEF Threads
<1>7. TypeOK'
  <2>1. queue' \in Seq(Requests)
    BY <1>2, <1>3
  <2>2. req' \in [Threads -> Requests \cup {NoRequest}]
    BY <1>2, <1>3, <1>5
  <2>3. QED
    BY <1>2, <2>1, <2>2 DEF PowerInv, TypeOK
<1>8. at'[Worker] \in Executing /\ at[Worker] \notin Executing
  BY <1>2, <1>6 DEF Executing, Acquiring, Releasing
<1>9. Shape'
  <2>1. at' \in [Threads -> {"idle", "post"} \cup Resting \cup Executing]
    <3>1. at' = [at EXCEPT ![Worker] = at'[Worker]]
      BY <1>2, <1>4
    <3>2. QED
      BY <1>4, <1>8, <3>1
  <2>2. at'[Worker] # "none" /\ at[Worker] # "none"
    BY <1>2, <1>6
  <2>3. running' <=> at'[Worker] # "none"
    BY <1>2, <2>2 DEF PowerInv, Shape
  <2>4. /\ at'[Worker] \in Acquiring => r.type = "ACQUIRE"
        /\ at'[Worker] \in Releasing => r.type = "RELEASE"
    BY <1>5, <1>6 DEF Acquiring, Releasing
  <2>5. \A c \in Callers : at'[c] \in {"idle", "post"}
    BY <1>6 DEF PowerInv, Shape
  <2>6. QED
    BY <1>2, <1>4, <1>5, <1>6, <1>8, <2>1, <2>3, <2>4, <2>5 DEF Shape
<1>10. PostInv'
  <2>1. Posting' = Posting
    BY <1>6 DEF Posting
  <2>2. QED
    BY <1>2, <2>1 DEF PowerInv, PostInv
<1>11. TokenInv'
  <2> SUFFICES ASSUME NEW d \in Devices
               PROVE  Token(d)'
    BY DEF TokenInv
  <2>1. Place(d) = "quiet"
    BY <1>8 DEF Place
  <2>2. refs[d] = owed[d] /\ Agrees(d)
    BY <2>1 DEF PowerInv, TokenInv, Token
  <2>3. Agrees(d)'
    BY <1>2, <2>2 DEF Agrees
  <2>4. Place(d)' \in {"quiet", "acquire", "release"}
    BY <1>6 DEF Place
  <2>5. refs'[d] = owed'[d]
    BY <1>2, <2>2
  <2>6. QED
    BY <2>3, <2>4, <2>5 DEF Token
<1>12. OrderInv'
  <2> SUFFICES ASSUME NEW d \in Devices
               PROVE  \E g \in [0..Len(queue') -> Nat] : Leads(d, g, queue)'
    BY DEF OrderInv
  <2>1. PICK f \in [0..Len(queue) -> Nat] : Leads(d, f, queue)
    BY DEF PowerInv, OrderInv
  <2>2. PICK n \in Nat : n + 1 = Len(queue)
    <3>1. Len(queue) \in Nat /\ Len(queue) > 0
      BY <1>2, <1>3
    <3>2. Len(queue) - 1 \in Nat
      BY <3>1
    <3>3. QED
      BY <3>1, <3>2
  <2> DEFINE g == [k \in 0..n |-> f[k + 1]]
  <2>3. f \in [0..(n + 1) -> Nat]
    BY <2>2
  <2>4. g \in [0..n -> Nat] /\ \A k \in 0..n : g[k] = f[k + 1]
    BY <2>3
  <2> HIDE DEF g
  <2>5. Len(queue') = n /\ queue[1] = r /\ \A k \in 1..n : queue'[k] = queue[k + 1]
    BY <1>1, <1>2, <1>3, <2>2
  <2>6. f[0] = Pending(d) /\ f[n + 1] = asked[d]
        /\ \A k \in 1..(n + 1) :
             f[k] = IF queue[k].dev = d THEN After(f[k - 1], queue[k]) ELSE f[k - 1]
    BY <2>1, <2>2 DEF Leads
  <2>7. Pending(d) = owed[d]
    BY <1>8 DEF Pending
  <2>8. Pending(d)' = IF r.dev = d THEN After(owed[d], r) ELSE owed[d]
    BY <1>2, <1>6, <1>8 DEF Pending, Dev
  <2>9. f[1] = IF r.dev = d THEN After(f[0], r) ELSE f[0]
    BY <2>5, <2>6
  <2>10. g[0] = Pending(d)'
    BY <2>4, <2>6, <2>7, <2>8, <2>9
  <2>11. ASSUME NEW k \in 1..n
         PROVE  g[k] = IF queue'[k].dev = d THEN After(g[k - 1], queue'[k]) ELSE g[k - 1]
    <3>1. k \in 0..n /\ k - 1 \in 0..n /\ k + 1 \in 1..(n + 1) /\ (k + 1) - 1 = k /\ (k - 1) + 1 = k
      OBVIOUS
    <3>2. g[k] = f[k + 1] /\ g[k - 1] = f[k] /\ queue'[k] = queue[k + 1]
      BY <2>4, <2>5, <3>1
    <3>3. f[k + 1] = IF queue[k + 1].dev = d THEN After(f[k], queue[k + 1]) ELSE f[k]
      BY <2>6, <3>1
    <3>4. QED
      BY <3>2, <3>3
  <2>12. g[n] = asked'[d]
    BY <1>2, <2>4, <2>6
  <2>13. Leads(d, g, queue)'
    BY <2>5, <2>10, <2>11, <2>12 DEF Leads
  <2>14. QED
    BY <2>4, <2>5, <2>13
<1>13. QED
  BY <1>7, <1>9, <1>10, <1>11, <1>12 DEF PowerInv

\* Every step keeps the inductive invariant when all requests go through the queue.
LEMMA NextInv ==
    ASSUME MaxRequests \in Nat, IsFiniteSet(Callers), Direct = {}, Worker \notin Callers
    PROVE  PowerInv /\ [Next]_vars => PowerInv'
<1> SUFFICES ASSUME PowerInv, [Next]_vars
             PROVE  PowerInv'
  OBVIOUS
<1>1. CASE UNCHANGED vars
  <2>1. UNCHANGED <<refs, psmState, powered, at, req, queue, mutex, sem, running, made, owed,
                    asked>>
    BY <1>1 DEF vars, tokenVars, queueVars
  <2>2. \A d \in Devices : Place(d)' = Place(d) /\ Pending(d)' = Pending(d)
    BY <2>1 DEF Place, Pending, Dev
  <2>3. TokenInv' /\ OrderInv'
    BY <2>1, <2>2, TokensKept, OrderKept DEF PowerInv
  <2>4. TypeOK' /\ Shape' /\ PostInv'
    BY <2>1 DEF PowerInv, TypeOK, Shape, PostInv, Posting
  <2>5. QED
    BY <2>3, <2>4 DEF PowerInv
<1>2. CASE \E t \in Threads : TokenStep(t)
  <2>1. PICK t \in Threads : TokenStep(t)
    BY <1>2
  <2>2. at[t] \in Executing
    BY <2>1 DEF TokenStep, HdfSRefAcquire, SRefAcquired, PowerStateTokenOnFirstAcquire,
       OnFirstAcquireDone, PowerStateTokenReleaseWakeLock, HdfSRefRelease, SRefReleased,
       PowerStateTokenOnLastRelease, OnLastReleaseDone, Executing, Acquiring, Releasing
  <2>3. \A c \in Callers : at[c] \in {"idle", "post"}
    BY DEF PowerInv, Shape
  <2>4. t = Worker
    BY <2>2, <2>3 DEF Threads, Executing, Acquiring, Releasing
  <2>5. QED
    BY <2>1, <2>4, TokenStepInv
<1>3. CASE \E t \in Callers, r \in Requests : HdfPmRequest(t, r)
  BY <1>3 DEF HdfPmRequest
<1>4. CASE \E t \in Callers, r \in Requests : HdfTaskEnqueue(t, r)
  BY <1>4, EnqueueInv
<1>5. CASE \E t \in Callers : OsalSemPost(t)
  BY <1>5, SemPostInv
<1>6. CASE WorkerStep
  BY <1>6, TaskerInv, DequeueInv DEF WorkerStep
<1>7. QED
  BY <1>1, <1>2, <1>3, <1>4, <1>5, <1>6 DEF Next

\* What the inductive invariant says of devices at rest.
LEMMA PowerConsequences ==
    ASSUME PowerInv, Worker \notin Callers
    PROVE  TypeOK /\ HeldIsPowered /\ AsRequested
<1>1. Worker \in Threads /\ owed \in [Devices -> Nat] /\ asked \in [Devices -> Nat]
  BY DEF PowerInv, Shape, Threads
<1>2. ASSUME NEW d \in Devices, Quiet(d)
      PROVE  Place(d) = "quiet" /\ Pending(d) = owed[d]
  <2>1. at[Worker] \notin Executing \/ Dev(Worker) # d
    BY <1>1, <1>2 DEF Quiet, Executing, Acquiring, Releasing
  <2>2. QED
    BY <2>1 DEF Place, Pending
<1>3. HeldIsPowered
  BY <1>2 DEF PowerInv, TokenInv, Token, Agrees, HeldIsPowered
<1>4. AsRequested
  <2> SUFFICES ASSUME queue = <<>>, \A d \in Devices : Quiet(d)
               PROVE  owed = asked
    BY DEF AsRequested
  <2>1. ASSUME NEW d \in Devices
        PROVE  owed[d] = asked[d]
    <3>1. PICK f \in [0..Len(queue) -> Nat] : Leads(d, f, queue)
      BY DEF PowerInv, OrderInv
    <3>2. f[0] = Pending(d) /\ f[0] = asked[d]
      BY <3>1 DEF Leads
    <3>3. QED
      BY <1>2, <3>2
  <2>2. QED
    BY <1>1, <2>1
<1>5. QED
  BY <1>3, <1>4 DEF PowerInv

\* With any number of drivers making requests through the power manager's queue,
\* surplus releases included (HdfPmTaskPut, HdfTaskEnqueue, HdfThreadTasker,
\* PmTaskFunc, PowerStateTokenAcquireWakeLock, PowerStateTokenReleaseWakeLock): a
\* device about which no request is under way is powered exactly if it is held, its
\* count is the number of holds, and once the queue is empty the holds are those
\* that were asked for.
THEOREM HeldIsPoweredThm ==
    ASSUME MaxRequests \in Nat, IsFiniteSet(Callers), Direct = {}, Worker \notin Callers
    PROVE  Spec => [](TypeOK /\ HeldIsPowered /\ AsRequested)
<1>1. Init => PowerInv
  BY InitInv
<1>2. PowerInv /\ [Next]_vars => PowerInv'
  BY NextInv
<1>3. PowerInv => TypeOK /\ HeldIsPowered /\ AsRequested
  BY PowerConsequences
<1>4. QED
  BY <1>1, <1>2, <1>3, PTL DEF Spec

-----------------------------------------------------------------------------
(* Direct and queued requests together, of callers that release only what  *)
(* they acquired.                                                          *)

\* One token for each unit of g, so that sums are cardinalities.
Tokens(C, g) == {p \in C \X Nat : p[2] < g[p[1]]}

LEMMA AddToken ==
    ASSUME NEW C, NEW g \in [C -> Nat], NEW h \in [C -> Nat], NEW c \in C,
           h[c] = g[c] + 1, \A x \in C : x # c => h[x] = g[x],
           IsFiniteSet(Tokens(C, g))
    PROVE  /\ IsFiniteSet(Tokens(C, h))
           /\ Cardinality(Tokens(C, h)) = Cardinality(Tokens(C, g)) + 1
           /\ Cardinality(Tokens(C, g)) \in Nat
<1>1. Tokens(C, h) = Tokens(C, g) \cup {<<c, g[c]>>} /\ <<c, g[c]>> \notin Tokens(C, g)
  BY DEF Tokens
<1>2. QED
  BY <1>1, FS_AddElement, FS_CardinalityType

LEMMA DropToken ==
    ASSUME NEW C, NEW g \in [C -> Nat], NEW h \in [C -> Nat], NEW c \in C,
           g[c] = h[c] + 1, \A x \in C : x # c => h[x] = g[x],
           IsFiniteSet(Tokens(C, g))
    PROVE  /\ IsFiniteSet(Tokens(C, h))
           /\ Cardinality(Tokens(C, g)) = Cardinality(Tokens(C, h)) + 1
           /\ Cardinality(Tokens(C, h)) \in Nat
<1>1. IsFiniteSet(Tokens(C, h))
  <2>1. Tokens(C, h) \subseteq Tokens(C, g)
    BY DEF Tokens
  <2>2. QED
    BY <2>1, FS_Subset
<1>2. QED
  BY <1>1, AddToken

\* What direct callers hold of d, what they have counted in refs of it, and what is
\* held through the queue.
DirectHolds(d) == [c \in Direct |-> holds[c][d]]
Counted(c, d) == IF Dev(c) # d THEN holds[c][d]
                 ELSE IF at[c] = "acquire" THEN holds[c][d] - 1
                 ELSE IF at[c] \in {"release", "decrement"} THEN holds[c][d] + 1
                 ELSE holds[c][d]
DirectRefs(d)  == [c \in Direct |-> Counted(c, d)]
QueuedHolds(d) == [c \in Callers \ Direct |-> holds[c][d]]

\* The queued requests that refs does not show yet, the one under way among them.
Work == IF at[Worker] \in {"acquire", "release", "decrement"}
        THEN <<req[Worker]>> \o queue ELSE queue

\* f: the holds of d through the queue as the work is done; it never gives back
\* what it does not have.
Flows(d, f, q) ==
    \A k \in 1..Len(q) :
        /\ q[k].dev # d => f[k] = f[k - 1]
        /\ q[k].dev = d /\ q[k].type = "ACQUIRE" => f[k] = f[k - 1] + 1
        /\ q[k].dev = d /\ q[k].type = "RELEASE" => f[k - 1] = f[k] + 1

Finite(d) == /\ IsFiniteSet(Tokens(Direct, DirectHolds(d)))
             /\ IsFiniteSet(Tokens(Direct, DirectRefs(d)))
             /\ IsFiniteSet(Tokens(Callers \ Direct, QueuedHolds(d)))
Direct1(d) == Cardinality(Tokens(Direct, DirectHolds(d)))
Direct0(d) == Cardinality(Tokens(Direct, DirectRefs(d)))
Queued(d)  == Cardinality(Tokens(Callers \ Direct, QueuedHolds(d)))
CountInv(d) ==
    /\ Finite(d)
    /\ asked[d] = Direct1(d) + Queued(d)
    /\ \E f \in [0..Len(Work) -> Nat] :
          Flows(d, f, Work) /\ refs[d] = Direct0(d) + f[0] /\ f[Len(Work)] = Queued(d)

MixedShape ==
    /\ refs \in [Devices -> Int] /\ asked \in [Devices -> Nat]
    /\ holds \in [Callers -> [Devices -> Nat]]
    /\ queue \in Seq(Requests) /\ req \in [Threads -> Requests \cup {NoRequest}]
    /\ at \in [Threads -> {"idle", "post"} \cup Resting \cup Executing]
    /\ \A c \in Direct : at[c] \in {"idle"} \cup Executing
    /\ \A c \in Callers \ Direct : at[c] \in {"idle", "post"}
    /\ at[Worker] \in Resting \cup Executing
    /\ running \in BOOLEAN /\ (at[Worker] # "none" => running)
    /\ \A t \in Threads :
          /\ at[t] \in Acquiring => req[t] \in Requests /\ req[t].type = "ACQUIRE"
          /\ at[t] \in Releasing => req[t] \in Requests /\ req[t].type = "RELEASE"
    /\ \A c \in Direct : at[c] = "acquire" => holds[c][Dev(c)] > 0

MixedInv == MixedShape /\ \A d \in Devices : CountInv(d)

MixedNames == Balanced /\ Direct \subseteq Callers /\ Worker \notin Callers

\* The first of the work is done, or one more request is added to it.
LEMMA FlowsTail ==
    ASSUME NEW d, NEW q \in Seq(Requests), q # <<>>, NEW f \in [0..Len(q) -> Nat], Flows(d, f, q)
    PROVE  LET g == [k \in 0..(Len(q) - 1) |-> f[k + 1]]
           IN  /\ g \in [0..Len(Tail(q)) -> Nat] /\ Flows(d, g, Tail(q))
               /\ g[0] = f[1] /\ g[Len(Tail(q))] = f[Len(q)]
               /\ f[0] \in Nat /\ f[1] \in Nat
<1> DEFINE g == [k \in 0..(Len(q) - 1) |-> f[k + 1]]
<1>1. Len(q) \in Nat /\ Len(q) > 0 /\ Len(Tail(q)) = Len(q) - 1
      /\ \A k \in 1..(Len(q) - 1) : Tail(q)[k] = q[k + 1]
  OBVIOUS
<1>2. g \in [0..Len(Tail(q)) -> Nat] /\ g[0] = f[1] /\ g[Len(Tail(q))] = f[Len(q)]
      /\ f[0] \in Nat /\ f[1] \in Nat
  BY <1>1
<1>3. Flows(d, g, Tail(q))
  <2> SUFFICES ASSUME NEW k \in 1..(Len(q) - 1)
               PROVE  /\ q[k + 1].dev # d => g[k] = g[k - 1]
                      /\ q[k + 1].dev = d /\ q[k + 1].type = "ACQUIRE" => g[k] = g[k - 1] + 1
                      /\ q[k + 1].dev = d /\ q[k + 1].type = "RELEASE" => g[k - 1] = g[k] + 1
    BY <1>1 DEF Flows
  <2>1. k + 1 \in 1..Len(q) /\ (k + 1) - 1 = k /\ g[k] = f[k + 1] /\ g[k - 1] = f[k]
    BY <1>1
  <2>2. QED
    BY <2>1 DEF Flows
<1>4. QED
  BY <1>2, <1>3

LEMMA FlowsAppend ==
    ASSUME NEW d, NEW q \in Seq(Requests), NEW r \in Requests,
           NEW f \in [0..Len(q) -> Nat], Flows(d, f, q), NEW n \in Nat,
           r.dev # d => n = f[Len(q)],
           r.dev = d /\ r.type = "ACQUIRE" => n = f[Len(q)] + 1,
           r.dev = d /\ r.type = "RELEASE" => f[Len(q)] = n + 1
    PROVE  LET g == [k \in 0..(Len(q) + 1) |-> IF k = Len(q) + 1 THEN n ELSE f[k]]
           IN  /\ g \in [0..Len(Append(q, r)) -> Nat] /\ Flows(d, g, Append(q, r))
               /\ g[0] = f[0] /\ g[Len(Append(q, r))] = n
<1> DEFINE g == [k \in 0..(Len(q) + 1) |-> IF k = Len(q) + 1 THEN n ELSE f[k]]
           p == Append(q, r)
<1>1. Len(q) \in Nat /\ Len(p) = Len(q) + 1 /\ p[Len(q) + 1] = r
      /\ \A k \in 1..Len(q) : p[k] = q[k]
  OBVIOUS
<1> HIDE DEF p
<1>2. g \in [0..Len(p) -> Nat] /\ g[0] = f[0] /\ g[Len(p)] = n
  BY <1>1
<1>3. Flows(d, g, p)
  <2> SUFFICES ASSUME NEW k \in 1..Len(p)
               PROVE  /\ p[k].dev # d => g[k] = g[k - 1]
                      /\ p[k].dev = d /\ p[k].type = "ACQUIRE" => g[k] = g[k - 1] + 1
                      /\ p[k].dev = d /\ p[k].type = "RELEASE" => g[k - 1] = g[k] + 1
    BY DEF Flows
  <2>1. CASE k = Len(q) + 1
    <3>1. g[k] = n /\ g[k - 1] = f[Len(q)] /\ p[k] = r
      BY <1>1, <2>1
    <3>2. QED
      BY <3>1
  <2>2. CASE k # Len(q) + 1
    <3>1. k \in 1..Len(q) /\ g[k] = f[k] /\ g[k - 1] = f[k - 1] /\ p[k] = q[k]
      BY <1>1, <2>2
    <3>2. QED
      BY <3>1 DEF Flows
  <2>3. QED
    BY <2>1, <2>2
<1>4. QED
  BY <1>2, <1>3 DEF p

\* The ranges of the functions that are counted.
LEMMA MixedFacts ==
    ASSUME MixedNames, MixedInv, NEW d \in Devices
    PROVE  /\ DirectHolds(d) \in [Direct -> Nat] /\ DirectRefs(d) \in [Direct -> Nat]
           /\ QueuedHolds(d) \in [Callers \ Direct -> Nat]
           /\ Direct1(d) \in Nat /\ Direct0(d) \in Nat /\ Queued(d) \in Nat
           /\ Work \in Seq(Requests)
<1> USE DEF MixedNames, MixedInv, MixedShape
<1>1. DirectHolds(d) \in [Direct -> Nat] /\ QueuedHolds(d) \in [Callers \ Direct -> Nat]
  BY DEF DirectHolds, QueuedHolds
<1>2. ASSUME NEW c \in Direct PROVE Counted(c, d) \in Nat
  <2>1. holds[c][d] \in Nat
    OBVIOUS
  <2>2. at[c] = "acquire" /\ Dev(c) = d => holds[c][d] - 1 \in Nat
    BY <2>1
  <2>3. QED
    BY <2>1, <2>2 DEF Counted
<1>3. DirectRefs(d) \in [Direct -> Nat]
  BY <1>2 DEF DirectRefs
<1>4. Finite(d)
  BY DEF CountInv
<1>5. Direct1(d) \in Nat /\ Direct0(d) \in Nat /\ Queued(d) \in Nat
  BY <1>4, FS_CardinalityType DEF Finite, Direct1, Direct0, Queued
<1>6. Work \in Seq(Requests)
  <2>1. CASE at[Worker] \in {"acquire", "release", "decrement"}
    <3>1. req[Worker] \in Requests /\ queue \in Seq(Requests)
      BY <2>1 DEF Acquiring, Releasing, Threads
    <3>2. <<req[Worker]>> \o queue \in Seq(Requests)
      BY <3>1
    <3>3. QED
      BY <2>1, <3>2 DEF Work
  <2>2. CASE at[Worker] \notin {"acquire", "release", "decrement"}
    BY <2>2 DEF Work
  <2>3. QED
    BY <2>1, <2>2
<1>7. QED
  BY <1>1, <1>3, <1>5, <1>6

\* Nothing changes that the count of d depends on.
LEMMA CountKept ==
    ASSUME NEW d, CountInv(d), DirectHolds(d)' = DirectHolds(d), DirectRefs(d)' = DirectRefs(d),
           QueuedHolds(d)' = QueuedHolds(d), Work' = Work, refs'[d] = refs[d],
           asked'[d] = asked[d]
    PROVE  CountInv(d)'
  BY DEF CountInv, Finite, Direct1, Direct0, Queued

\* The worker does the request it has in hand: it counts it.
LEMMA WorkerCounts ==
    ASSUME MixedNames, MixedInv, at[Worker] \in {"acquire", "decrement"}, Work' = queue,
           refs' = [refs EXCEPT ![Dev(Worker)] =
                      IF at[Worker] = "acquire" THEN @ + 1 ELSE @ - 1],
           asked' = asked, NEW d \in Devices,
           DirectHolds(d)' = DirectHolds(d), DirectRefs(d)' = DirectRefs(d),
           QueuedHolds(d)' = QueuedHolds(d)
    PROVE  CountInv(d)'
<1> DEFINE r == req[Worker]
<1>1. r \in Requests /\ queue \in Seq(Requests) /\ Worker \in Threads
      /\ (at[Worker] = "acquire" => r.type = "ACQUIRE")
      /\ (at[Worker] = "decrement" => r.type = "RELEASE")
  BY DEF MixedInv, MixedShape, Acquiring, Releasing, Threads
<1>2. Work = <<r>> \o queue
  BY DEF Work
<1>3. r.dev \in Devices /\ Dev(Worker) = r.dev
  BY <1>1 DEF Requests, Dev
<1> HIDE DEF r
<1>4. /\ Work \in Seq(Requests) /\ Work # <<>> /\ Tail(Work) = queue /\ Work[1] = r
      /\ Len(Work) > 0 /\ Len(Work) \in Nat
  BY <1>1, <1>2
<1>5. PICK f \in [0..Len(Work) -> Nat] :
         Flows(d, f, Work) /\ refs[d] = Direct0(d) + f[0] /\ f[Len(Work)] = Queued(d)
  BY DEF MixedInv, CountInv
<1>6. PICK g \in [0..Len(queue) -> Nat] :
         Flows(d, g, queue) /\ g[0] = f[1] /\ g[Len(queue)] = f[Len(Work)]
         /\ f[0] \in Nat /\ f[1] \in Nat
  BY <1>4, <1>5, FlowsTail
<1>7. 1 \in 1..Len(Work) /\ 1 - 1 = 0
  BY <1>4
<1>8. /\ d # r.dev => f[1] = f[0]
      /\ d = r.dev /\ at[Worker] = "acquire" => f[1] = f[0] + 1
      /\ d = r.dev /\ at[Worker] = "decrement" => f[0] = f[1] + 1
  BY <1>1, <1>4, <1>5, <1>7 DEF Flows
<1>9. refs \in [Devices -> Int] /\ Direct0(d) \in Nat
  BY MixedFacts DEF MixedInv, MixedShape
<1>10. /\ d # r.dev => refs'[d] = refs[d]
       /\ d = r.dev /\ at[Worker] = "acquire" => refs'[d] = refs[d] + 1
       /\ d = r.dev /\ at[Worker] = "decrement" => refs'[d] = refs[d] - 1
  BY <1>3, <1>9
<1>11. refs'[d] = Direct0(d) + g[0]
  BY <1>5, <1>6, <1>8, <1>9, <1>10
<1>12. Finite(d)' /\ asked'[d] = Direct1(d)' + Queued(d)' /\ Direct0(d)' = Direct0(d)
       /\ Queued(d)' = Queued(d)
  BY DEF MixedInv, CountInv, Finite, Direct1, Direct0, Queued
<1>13. g \in [0..Len(Work') -> Nat] /\ Flows(d, g, Work') /\ g[Len(Work')] = Queued(d)'
  BY <1>5, <1>6, <1>12
<1>14. QED
  BY <1>11, <1>12, <1>13 DEF CountInv

\* A caller's part of the count of d changes, and refs with it.
LEMMA CountMoves ==
    ASSUME NEW d, CountInv(d), DirectHolds(d)' = DirectHolds(d),
           QueuedHolds(d)' = QueuedHolds(d), Work' = Work, asked' = asked,
           NEW new, new = DirectRefs(d)', IsFiniteSet(Tokens(Direct, new)),
           refs'[d] = refs[d] + Cardinality(Tokens(Direct, new)) - Direct0(d),
           refs[d] \in Int, Direct0(d) \in Nat, Cardinality(Tokens(Direct, new)) \in Nat
    PROVE  CountInv(d)'
<1>1. Finite(d)' /\ Direct1(d)' = Direct1(d) /\ Queued(d)' = Queued(d)
      /\ Direct0(d)' = Cardinality(Tokens(Direct, new))
  BY DEF CountInv, Finite, Direct1, Direct0, Queued
<1>2. PICK f \in [0..Len(Work) -> Nat] :
         Flows(d, f, Work) /\ refs[d] = Direct0(d) + f[0] /\ f[Len(Work)] = Queued(d)
  BY DEF CountInv
<1>3. f[0] \in Int
  BY <1>2
<1>4. refs'[d] = Direct0(d)' + f[0]
  BY <1>1, <1>2, <1>3
<1>5. asked'[d] = Direct1(d)' + Queued(d)'
  BY <1>1 DEF CountInv
<1>6. QED
  BY <1>1, <1>2, <1>4, <1>5 DEF CountInv

\* A direct caller counts its request.
LEMMA CallerCounts ==
    ASSUME MixedNames, MixedInv, NEW c \in Direct, at[c] \in {"acquire", "decrement"},
           at' = [at EXCEPT ![c] = at'[c]],
           at'[c] \notin {"acquire", "release", "decrement"},
           refs' = [refs EXCEPT ![Dev(c)] = IF at[c] = "acquire" THEN @ + 1 ELSE @ - 1],
           UNCHANGED <<req, queue, holds, asked>>, NEW d \in Devices
    PROVE  CountInv(d)'
<1> USE DEF MixedNames
<1>1. /\ refs \in [Devices -> Int] /\ holds \in [Callers -> [Devices -> Nat]]
      /\ c \in Threads /\ DOMAIN at = Threads /\ Worker \in Threads /\ c # Worker
      /\ c \in Callers
  BY DEF MixedInv, MixedShape, Threads
<1>2. Dev(c) \in Devices
  BY <1>1 DEF MixedInv, MixedShape, Acquiring, Releasing, Dev, Requests
<1>3. Work' = Work
  BY <1>1 DEF Work
<1>4. DirectHolds(d)' = DirectHolds(d) /\ QueuedHolds(d)' = QueuedHolds(d)
  BY DEF DirectHolds, QueuedHolds
<1>5. ASSUME NEW x \in Direct, x # c
      PROVE  Counted(x, d)' = Counted(x, d)
  BY <1>1, <1>5 DEF Counted, Dev, Threads
<1>6. CASE d # Dev(c)
  <2>1. Counted(c, d)' = Counted(c, d)
    BY <1>6 DEF Counted, Dev
  <2>2. DirectRefs(d)' = DirectRefs(d)
    BY <1>5, <2>1 DEF DirectRefs
  <2>3. refs'[d] = refs[d] /\ asked'[d] = asked[d] /\ CountInv(d)
    BY <1>1, <1>2, <1>6 DEF MixedInv
  <2>4. QED
    BY <1>3, <1>4, <2>2, <2>3, CountKept
<1>7. CASE d = Dev(c)
  <2>1. holds[c][d] \in Nat /\ holds'[c][d] = holds[c][d] /\ Dev(c)' = d
    BY <1>1, <1>7 DEF Dev
  <2>2. Counted(c, d)' = holds[c][d]
    BY <2>1 DEF Counted
  <2>3. Counted(c, d) = IF at[c] = "acquire" THEN holds[c][d] - 1 ELSE holds[c][d] + 1
    BY <1>7, <2>1 DEF Counted
  <2>4. /\ DirectRefs(d) \in [Direct -> Nat] /\ Direct0(d) \in Nat
        /\ DirectRefs(d)[c] = Counted(c, d)
        /\ IsFiniteSet(Tokens(Direct, DirectRefs(d)))
    BY MixedFacts DEF MixedInv, CountInv, Finite, DirectRefs
  <2>0. Direct0(d) = Cardinality(Tokens(Direct, DirectRefs(d))) /\ CountInv(d) /\ refs[d] \in Int
    BY <1>1 DEF Direct0, MixedInv
  <2>5. PICK new : new = DirectRefs(d)'
    OBVIOUS
  <2>6. new = [x \in Direct |-> IF x = c THEN holds[c][d] ELSE DirectRefs(d)[x]]
    BY <1>5, <2>2, <2>5 DEF DirectRefs
  <2>7. new \in [Direct -> Nat] /\ new[c] = holds[c][d]
        /\ \A x \in Direct : x # c => new[x] = DirectRefs(d)[x]
    BY <2>1, <2>4, <2>6
  <2>8. CASE at[c] = "acquire"
    <3>1. new[c] = DirectRefs(d)[c] + 1
      BY <2>1, <2>3, <2>4, <2>7, <2>8
    <3>2. IsFiniteSet(Tokens(Direct, new))
          /\ Cardinality(Tokens(Direct, new)) = Cardinality(Tokens(Direct, DirectRefs(d))) + 1
      BY <2>4, <2>7, <3>1, AddToken
    <3>3. refs'[d] = refs[d] + 1
      BY <1>1, <1>2, <1>7, <2>8
    <3>4. Cardinality(Tokens(Direct, new)) \in Nat
          /\ refs'[d] = refs[d] + Cardinality(Tokens(Direct, new)) - Direct0(d)
      BY <2>0, <2>4, <3>2, <3>3
    <3>5. QED
      BY <2>0, <2>4, <2>5, <3>2, <3>4, <1>3, <1>4, CountMoves
  <2>9. CASE at[c] = "decrement"
    <3>1. DirectRefs(d)[c] = new[c] + 1
      BY <2>1, <2>3, <2>4, <2>7, <2>9
    <3>2. IsFiniteSet(Tokens(Direct, new))
          /\ Cardinality(Tokens(Direct, DirectRefs(d))) = Cardinality(Tokens(Direct, new)) + 1
          /\ Cardinality(Tokens(Direct, new)) \in Nat
      BY <2>4, <2>7, <3>1, DropToken
    <3>3. refs'[d] = refs[d] - 1
      BY <1>1, <1>2, <1>7, <2>9
    <3>4. refs'[d] = refs[d] + Cardinality(Tokens(Direct, new)) - Direct0(d)
      BY <2>0, <2>4, <3>2, <3>3
    <3>5. QED
      BY <2>0, <2>4, <2>5, <3>2, <3>4, <1>3, <1>4, CountMoves
  <2>10. QED
    BY <2>8, <2>9
<1>8. QED
  BY <1>6, <1>7

\* A request that is counted is there to be given back.
LEMMA CountedIsThere ==
    ASSUME MixedNames, MixedInv, NEW t \in Threads, at[t] \in {"release", "decrement"}
    PROVE  Dev(t) \in Devices /\ refs[Dev(t)] > 0
<1> DEFINE d == Dev(t)
<1>1. /\ req[t] \in Requests /\ req[t].type = "RELEASE" /\ d \in Devices
      /\ t \in Direct \cup {Worker}
  BY DEF MixedInv, MixedShape, Releasing, Dev, Requests, Threads
<1> HIDE DEF d
<1>2. PICK f \in [0..Len(Work) -> Nat] : Flows(d, f, Work) /\ refs[d] = Direct0(d) + f[0]
  BY <1>1 DEF MixedInv, CountInv
<1>3. Direct0(d) \in Nat /\ DirectRefs(d) \in [Direct -> Nat] /\ Work \in Seq(Requests)
  BY <1>1, MixedFacts
<1>4. f[0] \in Nat
  BY <1>2, <1>3
<1>5. CASE t \in Direct
  <2>1. Counted(t, d) = holds[t][d] + 1 /\ holds[t][d] \in Nat
    BY <1>1, <1>5 DEF Counted, d, MixedInv, MixedShape, MixedNames
  <2>2. <<t, 0>> \in Tokens(Direct, DirectRefs(d))
    BY <1>5, <2>1 DEF Tokens, DirectRefs
  <2>3. IsFiniteSet(Tokens(Direct, DirectRefs(d)))
    BY <1>1 DEF MixedInv, CountInv, Finite
  <2>4. Direct0(d) # 0
    BY <2>2, <2>3, FS_EmptySet DEF Direct0
  <2>5. QED
    BY <1>1, <1>2, <1>3, <1>4, <2>4 DEF d
<1>6. CASE t = Worker
  <2>1. Work = <<req[Worker]>> \o queue /\ queue \in Seq(Requests)
    BY <1>6 DEF Work, MixedInv, MixedShape
  <2>2. Work[1] = req[Worker] /\ 1 \in 1..Len(Work)
    BY <1>1, <1>6, <2>1
  <2>3. Work[1].dev = d
    BY <2>2, <1>6 DEF d, Dev
  <2>4. f[1] \in Nat /\ f[1 - 1] = f[1] + 1
    BY <1>1, <1>2, <1>3, <1>6, <2>2, <2>3 DEF Flows
  <2>5. QED
    BY <1>1, <1>2, <1>3, <1>4, <2>4 DEF d
<1>7. QED
  BY <1>1, <1>5, <1>6

\* A step inside a request: what it leaves alone, and where it leads.
LEMMA MixedToken ==
    ASSUME MixedNames, MixedInv, NEW t \in Threads, TokenStep(t)
    PROVE  /\ t \in Direct \cup {Worker}
           /\ at' = [at EXCEPT ![t] = at'[t]]
           /\ UNCHANGED <<req, queue, running, made, holds, asked>>
           /\ at[t] \in Acquiring => at'[t] \in (Acquiring \ {"acquire"}) \cup {"idle", "dequeue"}
           /\ at[t] \in Releasing => at'[t] \in (Releasing \ {"release"}) \cup {"idle", "dequeue"}
           /\ at'[t] = "idle" => t # Worker
           /\ at'[t] = "dequeue" => t = Worker
           /\ at[t] \in Executing
<1>1. DOMAIN at = Threads
  BY DEF MixedInv, MixedShape
<1>2. /\ at' = [at EXCEPT ![t] = at'[t]]
      /\ UNCHANGED <<req, queue, running, made, holds, asked>>
      /\ at[t] \in Acquiring => at'[t] \in (Acquiring \ {"acquire"}) \cup {"idle", "dequeue"}
      /\ at[t] \in Releasing => at'[t] \in (Releasing \ {"release"}) \cup {"idle", "dequeue"}
      /\ at'[t] = "idle" => t # Worker
      /\ at'[t] = "dequeue" => t = Worker
      /\ at[t] \in Executing
  BY <1>1 DEF TokenStep, HdfSRefAcquire, SRefAcquired, PowerStateTokenOnFirstAcquire,
     OnFirstAcquireDone, PowerStateTokenReleaseWakeLock, HdfSRefRelease, SRefReleased,
     PowerStateTokenOnLastRelease, OnLastReleaseDone, Goes, Ends, Executing, Acquiring,
     Releasing, queueVars
<1>3. t \in Direct \cup {Worker}
  BY <1>2 DEF MixedInv, MixedShape, Executing, Acquiring, Releasing, Threads
<1>4. QED
  BY <1>2, <1>3

LEMMA MixedTokenShape ==
    ASSUME MixedNames, MixedInv, NEW t \in Threads, TokenStep(t)
    PROVE  MixedShape'
<1> USE DEF MixedNames
<1>1. MixedShape
  BY DEF MixedInv
<1>2. /\ t \in Direct \cup {Worker}
      /\ at' = [at EXCEPT ![t] = at'[t]]
      /\ UNCHANGED <<req, queue, running, made, holds, asked>>
      /\ at[t] \in Acquiring => at'[t] \in (Acquiring \ {"acquire"}) \cup {"idle", "dequeue"}
      /\ at[t] \in Releasing => at'[t] \in (Releasing \ {"release"}) \cup {"idle", "dequeue"}
      /\ at'[t] = "idle" => t # Worker
      /\ at'[t] = "dequeue" => t = Worker
      /\ at[t] \in Executing
  BY MixedToken
<1>3. Dev(t) \in Devices
  BY <1>1, <1>2 DEF MixedShape, Executing, Dev, Requests
<1>4. refs' \in [Devices -> Int]
  BY <1>1, <1>3 DEF TokenStep, HdfSRefAcquire, SRefAcquired, PowerStateTokenOnFirstAcquire,
     OnFirstAcquireDone, PowerStateTokenReleaseWakeLock, HdfSRefRelease, SRefReleased,
     PowerStateTokenOnLastRelease, OnLastReleaseDone, tokenVars, MixedShape
<1>5. at' \in [Threads -> {"idle", "post"} \cup Resting \cup Executing]
  BY <1>1, <1>2 DEF MixedShape, Executing, Resting
<1>6. at'[t] \in {"idle", "dequeue"} \cup Executing
  BY <1>2 DEF Executing
<1>7. ASSUME NEW u \in Threads, u # t PROVE at'[u] = at[u]
  BY <1>1, <1>2, <1>7 DEF MixedShape
<1>8. Worker \in Threads /\ Direct \subseteq Threads /\ Callers \subseteq Threads
      /\ Worker \notin Direct
  BY DEF Threads
<1>9. /\ \A c \in Direct : at'[c] \in {"idle"} \cup Executing
      /\ \A c \in Callers \ Direct : at'[c] \in {"idle", "post"}
      /\ at'[Worker] \in Resting \cup Executing
  BY <1>1, <1>2, <1>6, <1>7, <1>8 DEF MixedShape, Resting
<1>10. \A u \in Threads :
          /\ at'[u] \in Acquiring => req'[u] \in Requests /\ req'[u].type = "ACQUIRE"
          /\ at'[u] \in Releasing => req'[u] \in Requests /\ req'[u].type = "RELEASE"
  <2> SUFFICES ASSUME NEW u \in Threads
               PROVE  /\ at'[u] \in Acquiring => at[u] \in Acquiring
                      /\ at'[u] \in Releasing => at[u] \in Releasing
    BY <1>1, <1>2 DEF MixedShape
  <2>1. CASE u = t
    BY <2>1, <1>2 DEF Executing, Acquiring, Releasing
  <2>2. CASE u # t
    BY <2>2, <1>7
  <2>3. QED
    BY <2>1, <2>2
<1>0. running' \in BOOLEAN /\ (at'[Worker] # "none" => running')
  BY <1>1, <1>2, <1>7, <1>8 DEF MixedShape, Executing, Acquiring, Releasing
<1>11. \A c \in Direct : at'[c] = "acquire" => holds'[c][Dev(c)'] > 0
  BY <1>1, <1>2, <1>7, <1>8 DEF MixedShape, Dev, Executing, Acquiring, Releasing
<1>12. QED
  BY <1>0, <1>1, <1>2, <1>4, <1>5, <1>9, <1>10, <1>11 DEF MixedShape

\* A step inside a request that counts nothing.
LEMMA TokenKeeps ==
    ASSUME MixedNames, MixedInv, NEW t \in Threads, TokenStep(t), refs' = refs,
           ~(at[t] = "release" /\ at'[t] # "decrement"),
           at[t] \notin {"acquire", "decrement"}, NEW d \in Devices
    PROVE  CountInv(d)'
<1> USE DEF MixedNames
<1>1. /\ t \in Direct \cup {Worker} /\ at' = [at EXCEPT ![t] = at'[t]]
      /\ UNCHANGED <<req, queue, holds, asked>>
      /\ at[t] \in Executing
      /\ at[t] \in Acquiring => at'[t] \in (Acquiring \ {"acquire"}) \cup {"idle", "dequeue"}
      /\ at[t] \in Releasing => at'[t] \in (Releasing \ {"release"}) \cup {"idle", "dequeue"}
  BY MixedToken
<1>2. \/ at[t] = "release" /\ at'[t] = "decrement"
      \/ /\ at[t] \notin {"acquire", "release", "decrement"}
         /\ at'[t] \notin {"acquire", "release", "decrement"}
  <2>1. CASE at[t] = "release"
    BY <2>1
  <2>2. CASE at[t] \in Acquiring
    BY <2>2, <1>1 DEF Acquiring
  <2>3. CASE at[t] \in Releasing /\ at[t] # "release"
    <3>1. at'[t] # "decrement"
      BY <2>3 DEF TokenStep, HdfSRefAcquire, SRefAcquired, PowerStateTokenOnFirstAcquire,
         OnFirstAcquireDone, PowerStateTokenReleaseWakeLock, HdfSRefRelease, SRefReleased,
         PowerStateTokenOnLastRelease, OnLastReleaseDone, Goes, Ends, MixedInv, MixedShape
    <3>2. QED
      BY <2>3, <3>1, <1>1 DEF Releasing
  <2>4. QED
    BY <2>1, <2>2, <2>3, <1>1 DEF Executing
<1>3. DOMAIN at = Threads /\ Worker \in Threads /\ Worker \notin Direct /\ Direct \subseteq Threads
  BY DEF MixedInv, MixedShape, Threads
<1>4. Work' = Work
  <2>1. CASE t = Worker
    BY <2>1, <1>1, <1>2 DEF Work
  <2>2. CASE t # Worker
    BY <2>2, <1>1, <1>3 DEF Work
  <2>3. QED
    BY <2>1, <2>2
<1>5. DirectHolds(d)' = DirectHolds(d) /\ QueuedHolds(d)' = QueuedHolds(d)
  BY <1>1 DEF DirectHolds, QueuedHolds
<1>6. ASSUME NEW x \in Direct PROVE Counted(x, d)' = Counted(x, d)
  <2>1. Dev(x)' = Dev(x) /\ holds'[x][d] = holds[x][d]
    BY <1>1 DEF Dev
  <2>2. CASE x = t
    BY <2>1, <2>2, <1>2 DEF Counted
  <2>3. CASE x # t
    <3>1. at'[x] = at[x]
      BY <2>3, <1>1, <1>3
    <3>2. QED
      BY <2>1, <3>1 DEF Counted
  <2>4. QED
    BY <2>2, <2>3
<1>7. DirectRefs(d)' = DirectRefs(d)
  BY <1>6 DEF DirectRefs
<1>8. CountInv(d) /\ asked'[d] = asked[d] /\ refs'[d] = refs[d]
  BY <1>1 DEF MixedInv
<1>9. QED
  BY <1>4, <1>5, <1>7, <1>8, CountKept

LEMMA MixedTokenCounts ==
    ASSUME MixedNames, MixedInv, NEW t \in Threads, TokenStep(t), NEW d \in Devices
    PROVE  CountInv(d)'
<1> USE DEF MixedNames
<1>1. /\ t \in Direct \cup {Worker} /\ at' = [at EXCEPT ![t] = at'[t]]
      /\ UNCHANGED <<req, queue, holds, asked>>
  BY MixedToken
<1>2. DOMAIN at = Threads /\ Worker \in Threads /\ Worker \notin Direct /\ Direct \subseteq Threads
  BY DEF MixedInv, MixedShape, Threads
<1>3. CASE at[t] \in {"acquire", "decrement"}
  <2>1. /\ refs' = [refs EXCEPT ![Dev(t)] = IF at[t] = "acquire" THEN @ + 1 ELSE @ - 1]
        /\ at'[t] \notin {"acquire", "release", "decrement"}
    BY <1>2, <1>3 DEF TokenStep, HdfSRefAcquire, SRefAcquired, PowerStateTokenOnFirstAcquire,
       OnFirstAcquireDone, PowerStateTokenReleaseWakeLock, HdfSRefRelease, SRefReleased,
       PowerStateTokenOnLastRelease, OnLastReleaseDone, Goes
  <2>2. CASE t \in Direct
    BY <1>1, <1>3, <2>1, <2>2, CallerCounts
  <2>3. CASE t = Worker
    <3>1. Work' = queue
      BY <1>1, <2>1, <2>3 DEF Work
    <3>2. DirectHolds(d)' = DirectHolds(d) /\ QueuedHolds(d)' = QueuedHolds(d)
      BY <1>1 DEF DirectHolds, QueuedHolds
    <3>3. ASSUME NEW x \in Direct PROVE Counted(x, d)' = Counted(x, d)
      BY <1>1, <1>2, <2>3 DEF Counted, Dev
    <3>4. DirectRefs(d)' = DirectRefs(d)
      BY <3>3 DEF DirectRefs
    <3>5. QED
      BY <1>1, <1>3, <2>1, <2>3, <3>1, <3>2, <3>4, WorkerCounts
  <2>4. QED
    BY <1>1, <2>2, <2>3
<1>4. CASE at[t] \notin {"acquire", "decrement"}
  <2>1. refs' = refs
    BY <1>4 DEF TokenStep, HdfSRefAcquire, SRefAcquired, PowerStateTokenOnFirstAcquire,
       OnFirstAcquireDone, PowerStateTokenReleaseWakeLock, HdfSRefRelease, SRefReleased,
       PowerStateTokenOnLastRelease, OnLastReleaseDone, tokenVars
  <2>2. ~(at[t] = "release" /\ at'[t] # "decrement")
    <3> SUFFICES ASSUME at[t] = "release" PROVE at'[t] = "decrement"
      OBVIOUS
    <3>1. refs[Dev(t)] > 0 /\ Dev(t) \in Devices
      BY CountedIsThere
    <3>2. refs[Dev(t)] # 0
      BY <3>1
    <3>3. QED
      BY <1>2, <3>2 DEF TokenStep, HdfSRefAcquire, SRefAcquired,
         PowerStateTokenOnFirstAcquire, OnFirstAcquireDone, PowerStateTokenReleaseWakeLock,
         HdfSRefRelease, SRefReleased, PowerStateTokenOnLastRelease, OnLastReleaseDone, Goes
  <2>3. QED
    BY <1>4, <2>1, <2>2, TokenKeeps
<1>5. QED
  BY <1>3, <1>4

\* One caller holds one more, or one less, of a device.
LEMMA HoldMoves ==
    ASSUME NEW C, NEW g \in [C -> Nat], NEW h \in [C -> Nat], NEW c \in C,
           NEW more \in BOOLEAN, more => h[c] = g[c] + 1, ~more => g[c] = h[c] + 1,
           \A x \in C : x # c => h[x] = g[x], IsFiniteSet(Tokens(C, g))
    PROVE  /\ IsFiniteSet(Tokens(C, h))
           /\ Cardinality(Tokens(C, g)) \in Nat /\ Cardinality(Tokens(C, h)) \in Nat
           /\ more => Cardinality(Tokens(C, h)) = Cardinality(Tokens(C, g)) + 1
           /\ ~more => Cardinality(Tokens(C, g)) = Cardinality(Tokens(C, h)) + 1
<1>1. CASE more
  <2>1. /\ IsFiniteSet(Tokens(C, h)) /\ Cardinality(Tokens(C, g)) \in Nat
        /\ Cardinality(Tokens(C, h)) = Cardinality(Tokens(C, g)) + 1
    BY <1>1, AddToken
  <2>2. QED
    BY <1>1, <2>1
<1>2. CASE ~more
  <2>1. /\ IsFiniteSet(Tokens(C, h)) /\ Cardinality(Tokens(C, h)) \in Nat
        /\ Cardinality(Tokens(C, g)) = Cardinality(Tokens(C, h)) + 1
    BY <1>2, DropToken
  <2>2. QED
    BY <1>2, <2>1
<1>3. QED
  BY <1>1, <1>2

\* So does the count of what was asked for.
LEMMA AskedMoves ==
    ASSUME NEW C, NEW g \in [C -> Nat], NEW h \in [C -> Nat], NEW c \in C,
           NEW type \in {"ACQUIRE", "RELEASE"}, type = "RELEASE" => g[c] > 0,
           h[c] = (IF type = "ACQUIRE" THEN g[c] + 1 ELSE IF g[c] > 0 THEN g[c] - 1 ELSE 0),
           \A x \in C : x # c => h[x] = g[x], IsFiniteSet(Tokens(C, g)),
           NEW m \in Nat, NEW n, n = Cardinality(Tokens(C, g)) + m,
           NEW o, o = (IF type = "ACQUIRE" THEN n + 1 ELSE IF n > 0 THEN n - 1 ELSE 0)
    PROVE  IsFiniteSet(Tokens(C, h)) /\ o = Cardinality(Tokens(C, h)) + m
<1>1. PICK more \in BOOLEAN : more <=> type = "ACQUIRE"
  OBVIOUS
<1>2. (more => h[c] = g[c] + 1) /\ (~more => g[c] = h[c] + 1)
  BY <1>1
<1>3. /\ IsFiniteSet(Tokens(C, h))
      /\ Cardinality(Tokens(C, g)) \in Nat /\ Cardinality(Tokens(C, h)) \in Nat
      /\ more => Cardinality(Tokens(C, h)) = Cardinality(Tokens(C, g)) + 1
      /\ ~more => Cardinality(Tokens(C, g)) = Cardinality(Tokens(C, h)) + 1
  BY <1>2, HoldMoves
<1>4. QED
  BY <1>1, <1>3

\* A request that is made.
LEMMA MakesShape ==
    ASSUME MixedNames, MixedInv, NEW c \in Callers, NEW r \in Requests, Makes(c, r)
    PROVE  /\ holds' \in [Callers -> [Devices -> Nat]] /\ asked' \in [Devices -> Nat]
           /\ r.type = "RELEASE" => holds[c][r.dev] > 0
           /\ r.type = "ACQUIRE" => holds'[c][r.dev] > 0
           /\ r.dev \in Devices /\ r.type \in {"ACQUIRE", "RELEASE"}
           /\ at[c] = "idle"
           /\ holds'[c][r.dev] = After(holds[c][r.dev], r)
           /\ asked'[r.dev] = After(asked[r.dev], r)
           /\ \A d \in Devices \ {r.dev} : asked'[d] = asked[d]
           /\ \A x \in Callers, d \in Devices :
                 x # c \/ d # r.dev => holds'[x][d] = holds[x][d]
<1>1. /\ holds \in [Callers -> [Devices -> Nat]] /\ asked \in [Devices -> Nat]
      /\ r.dev \in Devices /\ r.type \in {"ACQUIRE", "RELEASE"} /\ at[c] = "idle"
      /\ r.type = "RELEASE" => holds[c][r.dev] > 0
      /\ holds' = [holds EXCEPT ![c][r.dev] = After(@, r)]
      /\ asked' = [asked EXCEPT ![r.dev] = After(@, r)]
  BY DEF MixedInv, MixedShape, MixedNames, Makes, Requests
<1>2. After(asked[r.dev], r) \in Nat /\ After(holds[c][r.dev], r) \in Nat
      /\ (r.type = "ACQUIRE" => After(holds[c][r.dev], r) > 0)
  <2>1. asked[r.dev] \in Nat /\ holds[c][r.dev] \in Nat
    BY <1>1
  <2>2. QED
    BY <2>1 DEF After
<1> HIDE DEF Makes
<1>3. holds' \in [Callers -> [Devices -> Nat]] /\ asked' \in [Devices -> Nat]
  BY <1>1, <1>2
<1>4. /\ holds'[c][r.dev] = After(holds[c][r.dev], r)
      /\ asked'[r.dev] = After(asked[r.dev], r)
      /\ \A d \in Devices \ {r.dev} : asked'[d] = asked[d]
      /\ \A x \in Callers, d \in Devices : x # c \/ d # r.dev => holds'[x][d] = holds[x][d]
  BY <1>1
<1>5. QED
  BY <1>1, <1>2, <1>3, <1>4

LEMMA MixedRequestShape ==
    ASSUME MixedNames, MixedInv, NEW c \in Callers, NEW r \in Requests, HdfPmRequest(c, r)
    PROVE  MixedShape'
<1> USE DEF MixedNames
<1>1. MixedShape /\ Makes(c, r) /\ c \in Direct /\ c \in Threads /\ c # Worker
      /\ Worker \in Threads /\ Direct \subseteq Threads /\ Callers \subseteq Threads
  BY DEF MixedInv, HdfPmRequest, Threads
<1>2. /\ holds' \in [Callers -> [Devices -> Nat]] /\ asked' \in [Devices -> Nat]
      /\ r.type = "ACQUIRE" => holds'[c][r.dev] > 0
      /\ r.type \in {"ACQUIRE", "RELEASE"}
      /\ \A x \in Callers, d \in Devices : x # c \/ d # r.dev => holds'[x][d] = holds[x][d]
      /\ at[c] = "idle"
  BY <1>1, MakesShape
<1>3. /\ refs' = refs /\ queue' = queue /\ running' = running
      /\ req' = [req EXCEPT ![c] = r]
      /\ at' = [at EXCEPT ![c] = IF r.type = "ACQUIRE" THEN "acquire" ELSE "release"]
  BY DEF HdfPmRequest, tokenVars, queueVars, Goes
<1>4. /\ refs' \in [Devices -> Int] /\ queue' \in Seq(Requests)
      /\ req' \in [Threads -> Requests \cup {NoRequest}]
      /\ at' \in [Threads -> {"idle", "post"} \cup Resting \cup Executing]
  BY <1>1, <1>2, <1>3 DEF MixedShape, Executing, Acquiring, Releasing
<1>5. \A u \in Threads : u # c => at'[u] = at[u] /\ req'[u] = req[u]
  BY <1>1, <1>3 DEF MixedShape
<1>6. at'[c] = (IF r.type = "ACQUIRE" THEN "acquire" ELSE "release") /\ req'[c] = r
  BY <1>1, <1>3 DEF MixedShape
<1>7. /\ \A x \in Direct : at'[x] \in {"idle"} \cup Executing
      /\ \A x \in Callers \ Direct : at'[x] \in {"idle", "post"}
      /\ at'[Worker] \in Resting \cup Executing
      /\ running' \in BOOLEAN /\ (at'[Worker] # "none" => running')
  BY <1>1, <1>3, <1>5, <1>6 DEF MixedShape, Executing, Acquiring, Releasing
<1>8. \A u \in Threads :
          /\ at'[u] \in Acquiring => req'[u] \in Requests /\ req'[u].type = "ACQUIRE"
          /\ at'[u] \in Releasing => req'[u] \in Requests /\ req'[u].type = "RELEASE"
  <2> SUFFICES ASSUME NEW u \in Threads
               PROVE  /\ at'[u] \in Acquiring => req'[u] \in Requests /\ req'[u].type = "ACQUIRE"
                      /\ at'[u] \in Releasing => req'[u] \in Requests /\ req'[u].type = "RELEASE"
    OBVIOUS
  <2>1. CASE u = c
    BY <1>2, <1>6, <2>1 DEF Acquiring, Releasing
  <2>2. CASE u # c
    <3>1. at'[u] = at[u] /\ req'[u] = req[u]
      BY <1>5, <2>2
    <3>2. QED
      BY <1>1, <3>1 DEF MixedShape
  <2>3. QED
    BY <2>1, <2>2
<1>9. ASSUME NEW x \in Direct, at'[x] = "acquire" PROVE holds'[x][Dev(x)'] > 0
  <2>1. CASE x = c
    BY <1>2, <1>6, <1>9, <2>1 DEF Dev
  <2>2. CASE x # c
    <3>1. at[x] = "acquire" /\ Dev(x)' = Dev(x)
      BY <1>1, <1>5, <1>9, <2>2 DEF Dev
    <3>2. holds[x][Dev(x)] > 0 /\ Dev(x) \in Devices /\ x \in Callers
      BY <1>1, <3>1 DEF MixedShape, Dev, Requests, Acquiring
    <3>3. holds'[x][Dev(x)] = holds[x][Dev(x)]
      BY <1>2, <2>2, <3>2
    <3>4. QED
      BY <3>1, <3>2, <3>3
  <2>3. QED
    BY <2>1, <2>2
<1>10. QED
  BY <1>2, <1>4, <1>7, <1>8, <1>9 DEF MixedShape

LEMMA MixedRequestCounts ==
    ASSUME MixedNames, MixedInv, NEW c \in Callers, NEW r \in Requests, HdfPmRequest(c, r),
           NEW d \in Devices
    PROVE  CountInv(d)'
<1> USE DEF MixedNames
<1>1. MixedShape /\ Makes(c, r) /\ c \in Direct /\ c \in Threads /\ c # Worker
      /\ Worker \in Threads /\ Direct \subseteq Threads /\ CountInv(d)
  BY DEF MixedInv, HdfPmRequest, Threads
<1>2. /\ r.type = "RELEASE" => holds[c][r.dev] > 0
      /\ r.dev \in Devices /\ r.type \in {"ACQUIRE", "RELEASE"} /\ at[c] = "idle"
      /\ holds'[c][r.dev] = After(holds[c][r.dev], r)
      /\ asked'[r.dev] = After(asked[r.dev], r)
      /\ \A e \in Devices \ {r.dev} : asked'[e] = asked[e]
      /\ \A x \in Callers, e \in Devices : x # c \/ e # r.dev => holds'[x][e] = holds[x][e]
      /\ holds' \in [Callers -> [Devices -> Nat]]
  BY <1>1, MakesShape
<1>3. /\ refs' = refs /\ queue' = queue
      /\ req' = [req EXCEPT ![c] = r]
      /\ at' = [at EXCEPT ![c] = IF r.type = "ACQUIRE" THEN "acquire" ELSE "release"]
  BY DEF HdfPmRequest, tokenVars, queueVars, Goes
<1>4. (\A u \in Threads : u # c => at'[u] = at[u] /\ req'[u] = req[u])
      /\ at'[c] = (IF r.type = "ACQUIRE" THEN "acquire" ELSE "release") /\ req'[c] = r
  BY <1>1, <1>3 DEF MixedShape
<1>5. Work' = Work
  BY <1>1, <1>3, <1>4 DEF Work
<1>6. QueuedHolds(d)' = QueuedHolds(d)
  BY <1>1, <1>2 DEF QueuedHolds
<1>7. ASSUME NEW x \in Direct PROVE Counted(x, d)' = Counted(x, d)
  <2>1. CASE x # c
    <3>1. Dev(x)' = Dev(x) /\ at'[x] = at[x] /\ holds'[x][d] = holds[x][d]
      BY <1>1, <1>2, <1>4, <2>1 DEF Dev
    <3>2. QED
      BY <3>1 DEF Counted
  <2>2. CASE x = c /\ d # r.dev
    <3>1. Dev(c)' = r.dev /\ holds'[c][d] = holds[c][d]
      BY <1>2, <1>4, <2>2 DEF Dev
    <3>2. QED
      BY <1>2, <2>2, <3>1 DEF Counted
  <2>3. CASE x = c /\ d = r.dev
    <3>1. Dev(c)' = d /\ holds[c][d] \in Nat /\ holds'[c][d] \in Nat
          /\ holds'[c][d] = After(holds[c][d], r)
      BY <1>1, <1>2, <1>4, <2>3 DEF Dev, MixedShape
    <3>2. Counted(c, d) = holds[c][d]
      BY <1>2 DEF Counted
    <3>3. CASE r.type = "ACQUIRE"
      <4>1. holds'[c][d] = holds[c][d] + 1 /\ at'[c] = "acquire"
        BY <1>4, <3>1, <3>3 DEF After
      <4>2. QED
        BY <2>3, <3>1, <3>2, <4>1 DEF Counted
    <3>4. CASE r.type = "RELEASE"
      <4>1. holds[c][d] = holds'[c][d] + 1 /\ at'[c] = "release"
        BY <1>2, <1>4, <2>3, <3>1, <3>4 DEF After
      <4>2. QED
        BY <2>3, <3>1, <3>2, <4>1 DEF Counted
    <3>5. QED
      BY <1>2, <3>3, <3>4
  <2>4. QED
    BY <2>1, <2>2, <2>3
<1>8. DirectRefs(d)' = DirectRefs(d)
  BY <1>7 DEF DirectRefs
<1>9. CASE d # r.dev
  <2>1. DirectHolds(d)' = DirectHolds(d)
    BY <1>2, <1>9 DEF DirectHolds
  <2>2. asked'[d] = asked[d] /\ refs'[d] = refs[d]
    BY <1>2, <1>3, <1>9
  <2>3. QED
    BY <1>1, <1>5, <1>6, <1>8, <2>1, <2>2, CountKept
<1>10. CASE d = r.dev
  <2>1. PICK old, new : old = DirectHolds(d) /\ new = DirectHolds(d)'
    OBVIOUS
  <2>2. old \in [Direct -> Nat] /\ Queued(d) \in Nat
    BY <2>1, MixedFacts
  <2>3. /\ new \in [Direct -> Nat] /\ new[c] = After(old[c], r)
        /\ \A x \in Direct : x # c => new[x] = old[x]
        /\ r.type = "RELEASE" => old[c] > 0
    BY <1>1, <1>2, <1>10, <2>1 DEF DirectHolds
  <2>4. IsFiniteSet(Tokens(Direct, old)) /\ asked[d] = Cardinality(Tokens(Direct, old)) + Queued(d)
    BY <1>1, <2>1 DEF CountInv, Finite, Direct1
  <2>5. IsFiniteSet(Tokens(Direct, new))
        /\ asked'[d] = Cardinality(Tokens(Direct, new)) + Queued(d)
    BY <1>1, <1>2, <1>10, <2>2, <2>3, <2>4, AskedMoves DEF After
  <2>6. Finite(d)' /\ asked'[d] = Direct1(d)' + Queued(d)' /\ Direct0(d)' = Direct0(d)
        /\ Queued(d)' = Queued(d)
    BY <1>1, <1>6, <1>8, <2>1, <2>5 DEF CountInv, Finite, Direct1, Direct0, Queued
  <2>7. QED
    BY <1>1, <1>3, <1>5, <2>6 DEF CountInv
<1>11. QED
  BY <1>9, <1>10

LEMMA MixedEnqueueShape ==
    ASSUME MixedNames, MixedInv, NEW c \in Callers, NEW r \in Requests, HdfTaskEnqueue(c, r)
    PROVE  MixedShape'
<1> USE DEF MixedNames
<1>1. MixedShape /\ Makes(c, r) /\ c \in Callers \ Direct /\ c \in Threads /\ c # Worker
      /\ Worker \in Threads /\ Direct \subseteq Threads /\ Callers \subseteq Threads
  BY DEF MixedInv, HdfTaskEnqueue, Threads
<1>2. /\ holds' \in [Callers -> [Devices -> Nat]] /\ asked' \in [Devices -> Nat]
      /\ \A x \in Callers, d \in Devices : x # c \/ d # r.dev => holds'[x][d] = holds[x][d]
  BY <1>1, MakesShape
<1>3. /\ refs' = refs /\ queue' = Append(queue, r) /\ running' = TRUE /\ req' = req
      /\ at' = [at EXCEPT ![c] = "post", ![Worker] = IF running THEN @ ELSE "wait"]
  BY DEF HdfTaskEnqueue, tokenVars, InsertTail
<1>4. queue \in Seq(Requests) /\ queue' \in Seq(Requests)
  BY <1>1, <1>3 DEF MixedShape
<1>5. /\ \A u \in Threads : u # c /\ u # Worker => at'[u] = at[u]
      /\ at'[c] = "post"
      /\ at'[Worker] = IF running THEN at[Worker] ELSE "wait"
      /\ at' \in [Threads -> {"idle", "post"} \cup Resting \cup Executing]
  BY <1>1, <1>3 DEF MixedShape, Resting
<1>6. at'[Worker] = (IF at[Worker] = "none" /\ ~running THEN "wait" ELSE at[Worker])
  BY <1>1, <1>5 DEF MixedShape
<1>7. /\ \A x \in Direct : at'[x] = at[x]
      /\ \A x \in Callers \ Direct : at'[x] \in {"idle", "post"}
      /\ at'[Worker] \in Resting \cup Executing
  BY <1>1, <1>5, <1>6 DEF MixedShape, Resting
<1>8. \A u \in Threads :
          /\ at'[u] \in Acquiring => req'[u] \in Requests /\ req'[u].type = "ACQUIRE"
          /\ at'[u] \in Releasing => req'[u] \in Requests /\ req'[u].type = "RELEASE"
  BY <1>1, <1>3, <1>5, <1>6 DEF MixedShape, Acquiring, Releasing
<1>9. ASSUME NEW x \in Direct, at'[x] = "acquire" PROVE holds'[x][Dev(x)'] > 0
  <2>1. at[x] = "acquire" /\ Dev(x)' = Dev(x)
    BY <1>3, <1>7, <1>9 DEF Dev
  <2>2. holds[x][Dev(x)] > 0 /\ Dev(x) \in Devices /\ x \in Callers /\ x # c
    BY <1>1, <2>1 DEF MixedShape, Dev, Requests, Acquiring
  <2>3. holds'[x][Dev(x)] = holds[x][Dev(x)]
    BY <1>2, <2>2
  <2>4. QED
    BY <2>1, <2>2, <2>3
<1>10. refs' \in [Devices -> Int] /\ req' \in [Threads -> Requests \cup {NoRequest}]
       /\ \A x \in Direct : at'[x] \in {"idle"} \cup Executing
  BY <1>1, <1>3, <1>7 DEF MixedShape
<1>11. QED
  BY <1>2, <1>3, <1>4, <1>5, <1>7, <1>8, <1>9, <1>10 DEF MixedShape

\* What a caller adds to the queue, the worker still has to do.
LEMMA WorkAppended ==
    ASSUME MixedNames, MixedInv, NEW c \in Callers, NEW r \in Requests, HdfTaskEnqueue(c, r)
    PROVE  Work' = Append(Work, r)
<1>1. /\ queue \in Seq(Requests) /\ queue' = Append(queue, r) /\ req' = req
      /\ at[Worker] = "none" \/ running
      /\ c # Worker /\ Worker \in Threads /\ DOMAIN at = Threads /\ req \in [Threads -> Requests \cup {NoRequest}]
      /\ at' = [at EXCEPT ![c] = "post", ![Worker] = IF running THEN @ ELSE "wait"]
  BY DEF HdfTaskEnqueue, tokenVars, InsertTail, MixedInv, MixedShape, MixedNames, Threads
<1>2. at'[Worker] = IF running THEN at[Worker] ELSE "wait"
  BY <1>1
<1>3. (at'[Worker] \in {"acquire", "release", "decrement"})
         <=> (at[Worker] \in {"acquire", "release", "decrement"})
  BY <1>1, <1>2
<1>4. CASE at[Worker] \in {"acquire", "release", "decrement"}
  <2>1. req[Worker] \in Requests
    BY <1>1, <1>4 DEF MixedInv, MixedShape, Acquiring, Releasing
  <2>2. ASSUME NEW x, x = req[Worker], x \in Requests
        PROVE  <<x>> \o Append(queue, r) = Append(<<x>> \o queue, r)
    BY <1>1, <2>2
  <2>3. <<req[Worker]>> \o Append(queue, r) = Append(<<req[Worker]>> \o queue, r)
    BY <2>1, <2>2
  <2>4. QED
    BY <1>1, <1>3, <1>4, <2>3 DEF Work
<1>5. CASE at[Worker] \notin {"acquire", "release", "decrement"}
  BY <1>1, <1>3, <1>5 DEF Work
<1>6. QED
  BY <1>4, <1>5

LEMMA MixedEnqueueCounts ==
    ASSUME MixedNames, MixedInv, NEW c \in Callers, NEW r \in Requests, HdfTaskEnqueue(c, r),
           NEW d \in Devices
    PROVE  CountInv(d)'
<1> USE DEF MixedNames
<1>1. MixedShape /\ Makes(c, r) /\ c \in Callers \ Direct /\ c \in Threads /\ c # Worker
      /\ Worker \in Threads /\ Direct \subseteq Threads /\ CountInv(d)
  BY DEF MixedInv, HdfTaskEnqueue, Threads
<1>2. /\ r.type = "RELEASE" => holds[c][r.dev] > 0
      /\ r.dev \in Devices /\ r.type \in {"ACQUIRE", "RELEASE"}
      /\ holds'[c][r.dev] = After(holds[c][r.dev], r)
      /\ asked'[r.dev] = After(asked[r.dev], r)
      /\ \A e \in Devices \ {r.dev} : asked'[e] = asked[e]
      /\ \A x \in Callers, e \in Devices : x # c \/ e # r.dev => holds'[x][e] = holds[x][e]
      /\ holds' \in [Callers -> [Devices -> Nat]]
  BY <1>1, MakesShape
<1>3. refs' = refs /\ req' = req /\ \A x \in Direct : at'[x] = at[x]
  BY <1>1 DEF HdfTaskEnqueue, tokenVars, MixedShape
<1>4. Work' = Append(Work, r)
  BY WorkAppended
<1>5. DirectHolds(d)' = DirectHolds(d)
  BY <1>1, <1>2 DEF DirectHolds
<1>6. ASSUME NEW x \in Direct PROVE Counted(x, d)' = Counted(x, d)
  <2>1. Dev(x)' = Dev(x) /\ at'[x] = at[x] /\ holds'[x][d] = holds[x][d]
    BY <1>1, <1>2, <1>3 DEF Dev
  <2>2. QED
    BY <2>1 DEF Counted
<1>7. DirectRefs(d)' = DirectRefs(d)
  BY <1>6 DEF DirectRefs
<1>8. PICK old, new : old = QueuedHolds(d) /\ new = QueuedHolds(d)'
  OBVIOUS
<1>9. /\ old \in [Callers \ Direct -> Nat] /\ Work \in Seq(Requests) /\ Queued(d) \in Nat
      /\ Direct1(d) \in Nat /\ Direct0(d) \in Nat
  BY <1>8, MixedFacts
<1>10. IsFiniteSet(Tokens(Callers \ Direct, old))
       /\ Queued(d) = Cardinality(Tokens(Callers \ Direct, old))
       /\ asked[d] = Cardinality(Tokens(Callers \ Direct, old)) + Direct1(d)
  BY <1>1, <1>8, <1>9 DEF CountInv, Finite, Queued
<1>11. new \in [Callers \ Direct -> Nat]
  BY <1>1, <1>2, <1>8 DEF QueuedHolds
<1>12. /\ IsFiniteSet(Tokens(Callers \ Direct, new))
       /\ Cardinality(Tokens(Callers \ Direct, new)) \in Nat
       /\ asked'[d] = Cardinality(Tokens(Callers \ Direct, new)) + Direct1(d)
       /\ d # r.dev => Cardinality(Tokens(Callers \ Direct, new)) = Queued(d)
       /\ d = r.dev /\ r.type = "ACQUIRE"
            => Cardinality(Tokens(Callers \ Direct, new)) = Queued(d) + 1
       /\ d = r.dev /\ r.type = "RELEASE"
            => Queued(d) = Cardinality(Tokens(Callers \ Direct, new)) + 1
  <2>1. CASE d # r.dev
    <3>1. new = old
      BY <1>1, <1>2, <1>8, <2>1 DEF QueuedHolds
    <3>2. asked'[d] = asked[d]
      BY <1>2, <2>1
    <3>3. QED
      BY <1>9, <1>10, <2>1, <3>1, <3>2
  <2>2. CASE d = r.dev
    <3>1. /\ new[c] = After(old[c], r)
          /\ \A x \in Callers \ Direct : x # c => new[x] = old[x]
          /\ r.type = "RELEASE" => old[c] > 0
      BY <1>1, <1>2, <1>8, <2>2 DEF QueuedHolds
    <3>2. /\ IsFiniteSet(Tokens(Callers \ Direct, new))
          /\ asked'[d] = Cardinality(Tokens(Callers \ Direct, new)) + Direct1(d)
      <4>1. asked'[d] = After(asked[d], r) /\ c \in Callers \ Direct
            /\ r.type \in {"ACQUIRE", "RELEASE"}
        BY <1>1, <1>2, <2>2
      <4>2. PICK C : C = Callers \ Direct
        OBVIOUS
      <4>3. /\ c \in C /\ old \in [C -> Nat] /\ new \in [C -> Nat]
            /\ new[c] = After(old[c], r) /\ \A x \in C : x # c => new[x] = old[x]
            /\ IsFiniteSet(Tokens(C, old)) /\ asked[d] = Cardinality(Tokens(C, old)) + Direct1(d)
        BY <1>9, <1>10, <1>11, <3>1, <4>1, <4>2
      <4>4. IsFiniteSet(Tokens(C, new)) /\ asked'[d] = Cardinality(Tokens(C, new)) + Direct1(d)
        <5>1. PICK type, n, o, m : /\ type = r.type /\ n = asked[d] /\ o = asked'[d]
                                   /\ m = Direct1(d)
          OBVIOUS
        <5>2. /\ new[c] = (IF type = "ACQUIRE" THEN old[c] + 1
                           ELSE IF old[c] > 0 THEN old[c] - 1 ELSE 0)
              /\ o = (IF type = "ACQUIRE" THEN n + 1 ELSE IF n > 0 THEN n - 1 ELSE 0)
              /\ type \in {"ACQUIRE", "RELEASE"} /\ (type = "RELEASE" => old[c] > 0)
              /\ m \in Nat /\ n = Cardinality(Tokens(C, old)) + m
          BY <1>9, <3>1, <4>1, <4>3, <5>1 DEF After
        <5>3. IsFiniteSet(Tokens(C, new)) /\ o = Cardinality(Tokens(C, new)) + m
          BY <4>3, <5>2, AskedMoves
        <5>4. QED
          BY <5>1, <5>3
      <4>5. QED
        BY <4>2, <4>4
    <3>3. Cardinality(Tokens(Callers \ Direct, new)) \in Nat
      BY <3>2, FS_CardinalityType
    <3>4. r.type = "RELEASE" => Queued(d) > 0
      <4>1. SUFFICES ASSUME r.type = "RELEASE" PROVE Queued(d) # 0
        BY <1>9
      <4>2. <<c, 0>> \in Tokens(Callers \ Direct, old)
        BY <1>1, <3>1, <4>1 DEF Tokens
      <4>3. QED
        BY <1>10, <4>2, FS_EmptySet
    <3>5. asked[d] = Queued(d) + Direct1(d) /\ asked'[d] = After(asked[d], r)
      BY <1>2, <1>10, <2>2
    <3>6. QED
      BY <1>2, <1>9, <2>2, <3>2, <3>3, <3>4, <3>5 DEF After
  <2>3. QED
    BY <2>1, <2>2
<1>13. PICK f \in [0..Len(Work) -> Nat] :
          Flows(d, f, Work) /\ refs[d] = Direct0(d) + f[0] /\ f[Len(Work)] = Queued(d)
  BY <1>1 DEF CountInv
<1>14. PICK n \in Nat : n = Cardinality(Tokens(Callers \ Direct, new))
  BY <1>12
<1>15. PICK g \in [0..Len(Append(Work, r)) -> Nat] :
          Flows(d, g, Append(Work, r)) /\ g[0] = f[0] /\ g[Len(Append(Work, r))] = n
  BY <1>9, <1>12, <1>13, <1>14, FlowsAppend
<1>16. Finite(d)' /\ Direct1(d)' = Direct1(d) /\ Direct0(d)' = Direct0(d) /\ Queued(d)' = n
  BY <1>1, <1>5, <1>7, <1>8, <1>12, <1>14 DEF CountInv, Finite, Direct1, Direct0, Queued
<1>17. asked'[d] = Direct1(d)' + Queued(d)' /\ refs'[d] = Direct0(d)' + g[0]
  BY <1>3, <1>9, <1>12, <1>13, <1>14, <1>15, <1>16
<1>18. g \in [0..Len(Work') -> Nat] /\ Flows(d, g, Work') /\ g[Len(Work')] = Queued(d)'
  BY <1>4, <1>15, <1>16
<1>19. QED
  BY <1>16, <1>17, <1>18 DEF CountInv

\* A thread that is in no request goes on: a caller posts, the worker waits or
\* takes or gives back the mutex.
LEMMA MixedRests ==
    ASSUME MixedNames, MixedInv, NEW t \in Threads, NEW p, at' = [at EXCEPT ![t] = p],
           UNCHANGED <<refs, req, queue, running, holds, asked>>,
           \/ t \in Callers \ Direct /\ p = "idle"
           \/ /\ t = Worker /\ at[t] \in Resting \ {"none"}
              /\ p \in Resting \ {"none"}
    PROVE  MixedInv'
<1> USE DEF MixedNames
<1>1. /\ MixedShape /\ Worker \in Threads /\ Worker \notin Callers
      /\ Direct \subseteq Threads /\ Callers \subseteq Threads /\ Direct \subseteq Callers
      /\ t \notin Direct
  BY DEF MixedInv, Threads
<1>2. /\ \A u \in Threads : u # t => at'[u] = at[u]
      /\ at'[t] = p
      /\ at' \in [Threads -> {"idle", "post"} \cup Resting \cup Executing]
  BY <1>1 DEF MixedShape, Resting
<1>3. /\ \A x \in Direct : at'[x] = at[x]
      /\ \A x \in Callers \ Direct : at'[x] \in {"idle", "post"}
      /\ at'[Worker] \in Resting \cup Executing /\ (at'[Worker] # "none" => running')
  BY <1>1, <1>2 DEF MixedShape, Resting
<1>4. \A u \in Threads :
          /\ at'[u] \in Acquiring => req'[u] \in Requests /\ req'[u].type = "ACQUIRE"
          /\ at'[u] \in Releasing => req'[u] \in Requests /\ req'[u].type = "RELEASE"
  BY <1>1, <1>2 DEF MixedShape, Acquiring, Releasing, Resting
<1>5. \A x \in Direct : at'[x] \in {"idle"} \cup Executing
                        /\ (at'[x] = "acquire" => holds'[x][Dev(x)'] > 0)
  BY <1>1, <1>3 DEF MixedShape, Dev
<1>6. MixedShape'
  BY <1>1, <1>2, <1>3, <1>4, <1>5 DEF MixedShape
<1>7. Work' = Work
  <2>1. CASE t = Worker
    BY <1>2, <2>1 DEF Work, Resting
  <2>2. CASE t # Worker
    BY <1>1, <1>2, <2>2 DEF Work
  <2>3. QED
    BY <2>1, <2>2
<1>8. ASSUME NEW d \in Devices PROVE CountInv(d)'
  <2>1. DirectHolds(d)' = DirectHolds(d) /\ QueuedHolds(d)' = QueuedHolds(d)
    BY DEF DirectHolds, QueuedHolds
  <2>2. ASSUME NEW x \in Direct PROVE Counted(x, d)' = Counted(x, d)
    BY <1>3 DEF Counted, Dev
  <2>3. DirectRefs(d)' = DirectRefs(d)
    BY <2>2 DEF DirectRefs
  <2>4. CountInv(d) /\ refs'[d] = refs[d] /\ asked'[d] = asked[d]
    BY DEF MixedInv
  <2>5. QED
    BY <1>7, <2>1, <2>3, <2>4, CountKept
<1>9. QED
  BY <1>6, <1>8 DEF MixedInv

\* The worker takes the first request of the queue in hand.
LEMMA MixedDequeues ==
    ASSUME MixedNames, MixedInv, HdfTaskDequeue
    PROVE  MixedInv'
<1> USE DEF MixedNames
<1>1. /\ MixedShape /\ Worker \in Threads /\ Worker \notin Callers
      /\ Direct \subseteq Threads /\ Callers \subseteq Threads /\ Direct \subseteq Callers
      /\ Worker \notin Direct
  BY DEF MixedInv, Threads
<1>2. PICK r, q : r = Head(queue) /\ q = Tail(queue)
  OBVIOUS
<1>3. /\ queue \in Seq(Requests) /\ queue # <<>> /\ queue' = q
      /\ req' = [req EXCEPT ![Worker] = r]
      /\ at' = [at EXCEPT ![Worker] = IF r.type = "ACQUIRE" THEN "acquire" ELSE "release"]
      /\ at[Worker] = "dequeue"
      /\ UNCHANGED <<refs, running, holds, asked>>
  BY <1>1, <1>2 DEF HdfTaskDequeue, tokenVars, Goes, MixedShape
<1>4. r \in Requests /\ q \in Seq(Requests) /\ queue = <<r>> \o q
  BY <1>2, <1>3
<1>5. r.type \in {"ACQUIRE", "RELEASE"}
  BY <1>4 DEF Requests
<1>6. /\ \A u \in Threads : u # Worker => at'[u] = at[u] /\ req'[u] = req[u]
      /\ at'[Worker] = (IF r.type = "ACQUIRE" THEN "acquire" ELSE "release")
      /\ req'[Worker] = r /\ req' \in [Threads -> Requests \cup {NoRequest}]
      /\ at' \in [Threads -> {"idle", "post"} \cup Resting \cup Executing]
  BY <1>1, <1>3, <1>4 DEF MixedShape, Executing, Acquiring, Releasing
<1>7. /\ \A x \in Direct : at'[x] = at[x] /\ req'[x] = req[x]
      /\ \A x \in Callers \ Direct : at'[x] \in {"idle", "post"}
      /\ at'[Worker] \in Resting \cup Executing /\ running' \in BOOLEAN
      /\ (at'[Worker] # "none" => running')
  BY <1>1, <1>3, <1>6 DEF MixedShape, Executing, Acquiring, Releasing
<1>8. \A u \in Threads :
          /\ at'[u] \in Acquiring => req'[u] \in Requests /\ req'[u].type = "ACQUIRE"
          /\ at'[u] \in Releasing => req'[u] \in Requests /\ req'[u].type = "RELEASE"
  BY <1>1, <1>4, <1>5, <1>6 DEF MixedShape, Acquiring, Releasing
<1>9. \A x \in Direct : at'[x] \in {"idle"} \cup Executing
                        /\ (at'[x] = "acquire" => holds'[x][Dev(x)'] > 0)
  BY <1>1, <1>3, <1>7 DEF MixedShape, Dev
<1>10. MixedShape'
  BY <1>1, <1>3, <1>4, <1>6, <1>7, <1>8, <1>9 DEF MixedShape
<1>11. Work' = Work
  BY <1>3, <1>4, <1>5, <1>6 DEF Work
<1>12. ASSUME NEW d \in Devices PROVE CountInv(d)'
  <2>1. DirectHolds(d)' = DirectHolds(d) /\ QueuedHolds(d)' = QueuedHolds(d)
    BY <1>3 DEF DirectHolds, QueuedHolds
  <2>2. ASSUME NEW x \in Direct PROVE Counted(x, d)' = Counted(x, d)
    BY <1>3, <1>7 DEF Counted, Dev
  <2>3. DirectRefs(d)' = DirectRefs(d)
    BY <2>2 DEF DirectRefs
  <2>4. CountInv(d) /\ refs'[d] = refs[d] /\ asked'[d] = asked[d]
    BY <1>3 DEF MixedInv
  <2>5. QED
    BY <1>11, <2>1, <2>3, <2>4, CountKept
<1>13. QED
  BY <1>10, <1>12 DEF MixedInv

LEMMA MixedInit == ASSUME MixedNames, Init PROVE MixedInv
<1> USE DEF MixedNames
<1>1. /\ refs = [d \in Devices |-> 0] /\ asked = [d \in Devices |-> 0]
      /\ holds = [c \in Callers |-> [d \in Devices |-> 0]]
      /\ queue = <<>> /\ req = [t \in Threads |-> NoRequest] /\ running = FALSE
      /\ at = [t \in Threads |-> IF t = Worker THEN "none" ELSE "idle"]
  BY DEF Init
<1>2. Worker \in Threads /\ Callers \subseteq Threads /\ Worker \notin Callers
  BY DEF Threads
<1>3. \A t \in Threads : at[t] = IF t = Worker THEN "none" ELSE "idle"
  BY <1>1
<1>4. at \in [Threads -> {"idle", "post"} \cup Resting \cup Executing]
  BY <1>1 DEF Resting
<1>5. /\ \A c \in Direct : at[c] = "idle"
      /\ \A c \in Callers \ Direct : at[c] = "idle"
      /\ at[Worker] = "none"
  BY <1>2, <1>3
<1>6. /\ refs \in [Devices -> Int] /\ asked \in [Devices -> Nat]
      /\ holds \in [Callers -> [Devices -> Nat]]
      /\ queue \in Seq(Requests) /\ req \in [Threads -> Requests \cup {NoRequest}]
  BY <1>1
<1>7. \A t \in Threads : at[t] \notin Acquiring /\ at[t] \notin Releasing
  BY <1>3 DEF Acquiring, Releasing
<1>8. MixedShape
  BY <1>1, <1>4, <1>5, <1>6, <1>7 DEF MixedShape, Resting
<1>9. ASSUME NEW d \in Devices PROVE CountInv(d)
  <2>1. \A C : Tokens(C, [c \in C |-> 0]) = {}
    BY DEF Tokens
  <2>2. /\ DirectHolds(d) = [c \in Direct |-> 0]
        /\ QueuedHolds(d) = [c \in Callers \ Direct |-> 0]
    BY <1>1 DEF DirectHolds, QueuedHolds
  <2>3. \A c \in Direct : Counted(c, d) = 0
    BY <1>1, <1>5 DEF Counted
  <2>4. DirectRefs(d) = [c \in Direct |-> 0]
    BY <2>3 DEF DirectRefs
  <2>5. Finite(d) /\ Direct1(d) = 0 /\ Direct0(d) = 0 /\ Queued(d) = 0
    BY <2>1, <2>2, <2>4, FS_EmptySet DEF Finite, Direct1, Direct0, Queued
  <2>6. Work = <<>>
    BY <1>1, <1>5 DEF Work
  <2>7. PICK f : f = [k \in 0..0 |-> 0]
    OBVIOUS
  <2>8. Len(Work) = 0 /\ f \in [0..Len(Work) -> Nat] /\ f[0] = 0 /\ Flows(d, f, Work)
    BY <2>6, <2>7 DEF Flows
  <2>9. refs[d] = 0 /\ asked[d] = 0
    BY <1>1
  <2>10. QED
    BY <2>5, <2>8, <2>9 DEF CountInv
<1>10. QED
  BY <1>8, <1>9 DEF MixedInv

LEMMA MixedNext == ASSUME MixedNames, MixedInv, [Next]_vars PROVE MixedInv'
<1>1. ASSUME NEW t \in Threads, TokenStep(t) PROVE MixedInv'
  BY <1>1, MixedTokenShape, MixedTokenCounts DEF MixedInv
<1>2. ASSUME NEW t \in Callers, NEW r \in Requests, HdfPmRequest(t, r) PROVE MixedInv'
  BY <1>2, MixedRequestShape, MixedRequestCounts DEF MixedInv
<1>3. ASSUME NEW t \in Callers, NEW r \in Requests, HdfTaskEnqueue(t, r) PROVE MixedInv'
  BY <1>3, MixedEnqueueShape, MixedEnqueueCounts DEF MixedInv
<1>4. ASSUME NEW t \in Callers, OsalSemPost(t) PROVE MixedInv'
  <2>1. /\ at[t] = "post" /\ at' = [at EXCEPT ![t] = "idle"] /\ t \in Threads
        /\ UNCHANGED <<refs, req, queue, running, holds, asked>>
    BY <1>4 DEF OsalSemPost, tokenVars, Goes, Threads
  <2>2. t \notin Direct
    BY <2>1 DEF MixedInv, MixedShape, Executing, Acquiring, Releasing
  <2>3. QED
    BY <2>1, <2>2, MixedRests
<1>5. CASE HdfThreadTasker \/ TaskerLock \/ TaskerUnlock
  <2>1. PICK p \in Resting \ {"none"} : at' = [at EXCEPT ![Worker] = p]
    BY <1>5 DEF HdfThreadTasker, TaskerLock, TaskerUnlock, Goes, Resting
  <2>2. /\ at[Worker] \in Resting \ {"none"} /\ Worker \in Threads
        /\ UNCHANGED <<refs, req, queue, running, holds, asked>>
    BY <1>5 DEF HdfThreadTasker, TaskerLock, TaskerUnlock, Resting, tokenVars, Threads
  <2>3. QED
    BY <2>1, <2>2, MixedRests
<1>6. CASE HdfTaskDequeue
  BY <1>6, MixedDequeues
<1>7. CASE UNCHANGED vars
  <2>1. UNCHANGED <<refs, at, req, queue, running, holds, asked>>
    BY <1>7 DEF vars, tokenVars, queueVars
  <2>2. MixedShape'
    BY <2>1 DEF MixedInv, MixedShape, Dev
  <2>3. ASSUME NEW d \in Devices PROVE CountInv(d)'
    <3>1. /\ DirectHolds(d)' = DirectHolds(d) /\ DirectRefs(d)' = DirectRefs(d)
          /\ QueuedHolds(d)' = QueuedHolds(d) /\ Work' = Work
          /\ refs'[d] = refs[d] /\ asked'[d] = asked[d]
      BY <2>1 DEF DirectHolds, DirectRefs, Counted, Dev, QueuedHolds, Work
    <3>2. QED
      BY <3>1, CountKept DEF MixedInv
  <2>4. QED
    BY <2>2, <2>3 DEF MixedInv
<1>8. QED
  BY <1>1, <1>2, <1>3, <1>4, <1>5, <1>6, <1>7 DEF Next, WorkerStep

\* With nothing under way, what is counted is what was asked for.
LEMMA MixedCounts == ASSUME MixedNames, MixedInv PROVE CountIsHolds
<1> USE DEF MixedNames
<1>1. MixedShape /\ Worker \in Threads /\ Direct \subseteq Threads
  BY DEF MixedInv, Threads
<1>2. ASSUME NEW d \in Devices PROVE refs[d] >= 0
  <2>1. PICK f \in [0..Len(Work) -> Nat] : refs[d] = Direct0(d) + f[0]
    BY DEF MixedInv, CountInv
  <2>2. Direct0(d) \in Nat /\ Len(Work) \in Nat
    BY MixedFacts
  <2>3. f[0] \in Nat
    BY <2>1, <2>2
  <2>4. QED
    BY <2>1, <2>2, <2>3
<1>3. ASSUME queue = <<>>, \A d \in Devices : Quiet(d) PROVE refs = asked
  <2>1. ASSUME NEW t \in Direct \cup {Worker}
        PROVE  at[t] \notin {"acquire", "release", "decrement"}
    <3> SUFFICES ASSUME at[t] \in {"acquire", "release", "decrement"} PROVE FALSE
      OBVIOUS
    <3>1. t \in Threads /\ Dev(t) \in Devices
      BY <1>1 DEF MixedShape, Acquiring, Releasing, Dev, Requests
    <3>2. QED
      BY <1>3, <3>1 DEF Quiet
  <2>2. Work = <<>>
    BY <1>3, <2>1 DEF Work
  <2>3. ASSUME NEW d \in Devices PROVE refs[d] = asked[d]
    <3>1. \A c \in Direct : Counted(c, d) = holds[c][d]
      BY <2>1 DEF Counted
    <3>2. DirectRefs(d) = DirectHolds(d)
      BY <3>1 DEF DirectRefs, DirectHolds
    <3>3. asked[d] = Direct1(d) + Queued(d) /\ Direct0(d) = Direct1(d)
      BY <3>2 DEF MixedInv, CountInv, Direct0, Direct1
    <3>4. PICK f : refs[d] = Direct0(d) + f[0] /\ f[Len(Work)] = Queued(d)
      BY DEF MixedInv, CountInv
    <3>5. Len(Work) = 0
      BY <2>2
    <3>6. QED
      BY <3>3, <3>4, <3>5
  <2>4. QED
    BY <1>1, <2>3 DEF MixedShape
<1>4. QED
  BY <1>2, <1>3 DEF CountIsHolds

\* Whatever direct and queued requests interleave, for any callers and devices,
\* of callers that release only what they acquired (HdfPmAcquireDevice,
\* HdfPmReleaseDevice, HdfTaskEnqueue): the count is never below 0, and is what
\* was asked for once nothing is under way.
THEOREM CountIsHoldsThm ==
    ASSUME MixedNames
    PROVE  Spec => []CountIsHolds
<1>1. Init => MixedInv
  BY MixedInit
<1>2. MixedInv /\ [Next]_vars => MixedInv'
  BY MixedNext
<1>3. MixedInv => CountIsHolds
  BY MixedCounts
<1>4. QED
  BY <1>1, <1>2, <1>3, PTL DEF Spec
=============================================================================
