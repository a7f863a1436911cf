------------------------ MODULE PlatformDeviceProofs ------------------------
(***************************************************************************)
(* Proofs about PlatformEvent and PlatformDevice.                          *)
(*                                                                         *)
(* Events, for any number of threads, events, listeners and calls, if a    *)
(* post to a waiter that has given up does not reach the thread's next one *)
(* (LatePostLands).  The inductive invariant follows a wake-up: the waiter *)
(* of a thread that waits is in one place only, in the list (then nothing  *)
(* was posted to it), with the one poster that took it out, or its         *)
(* semaphore is up.                                                        *)
(*                                                                         *)
(* A device that is added once implements SharedDevice, for any number of  *)
(* users.  The inductive invariant: the count is the number of holders and *)
(* the manager's reference, and once it is 0 it stays there (Gone), for    *)
(* then nobody can find the device.  Everything that can tell the owner    *)
(* that the device is dead, a poster, the event or the semaphore, implies  *)
(* it.                                                                     *)
(***************************************************************************)
EXTENDS PlatformDevice, SequenceTheorems, FiniteSetTheorems, TLAPS

-----------------------------------------------------------------------------
(* PlatformEvent.                                                          *)

\* The names of threads and listeners are different, and "none" is neither.
EventNames ==
    /\ EventThreads \cap Listeners = {}
    /\ "none" \notin EventThreads \cup Listeners
    /\ MaxCalls \in Nat

Waiter == [who : EventThreads \cup Listeners, mask : SUBSET Events, all : BOOLEAN]

\* The list after an entry is taken out of it.
LEMMA RemoveAtFacts ==
    ASSUME NEW S, NEW s \in Seq(S), NEW i \in 1..Len(s)
    PROVE  /\ RemoveAt(s, i) \in Seq(S)
           /\ Len(RemoveAt(s, i)) = Len(s) - 1
           /\ \A k \in 1..(Len(s) - 1) :
                 RemoveAt(s, i)[k] = IF k < i THEN s[k] ELSE s[k + 1]
<1> DEFINE a == SubSeq(s, 1, i - 1)
           b == SubSeq(s, i + 1, Len(s))
<1>1. a \in Seq(S) /\ Len(a) = i - 1 /\ \A k \in 1..(i - 1) : a[k] = s[k]
  BY SubSeqProperties
<1>2. b \in Seq(S) /\ Len(b) = Len(s) - i /\ \A k \in 1..(Len(s) - i) : b[k] = s[k + i]
  BY SubSeqProperties
<1>3. RemoveAt(s, i) = a \o b
  BY DEF RemoveAt
<1> HIDE DEF a, b
<1>4. /\ a \o b \in Seq(S)
      /\ Len(a \o b) = Len(a) + Len(b)
      /\ \A k \in 1..(Len(a) + Len(b)) :
            (a \o b)[k] = IF k <= Len(a) THEN a[k] ELSE b[k - Len(a)]
  BY <1>1, <1>2, ConcatProperties
<1>5. Len(a) + Len(b) = Len(s) - 1
  BY <1>1, <1>2
<1>6. ASSUME NEW k \in 1..(Len(s) - 1)
      PROVE  (a \o b)[k] = IF k < i THEN s[k] ELSE s[k + 1]
  <2>1. CASE k < i
    BY <1>1, <1>4, <1>5, <2>1
  <2>2. CASE ~(k < i)
    <3>1. k - (i - 1) \in 1..(Len(s) - i) /\ k - (i - 1) + i = k + 1
      BY <2>2
    <3>2. b[k - (i - 1)] = s[k + 1]
      BY <1>2, <3>1
    <3>3. QED
      BY <1>1, <1>4, <1>5, <2>2, <3>2
  <2>3. QED
    BY <2>1, <2>2
<1>7. QED
  BY <1>3, <1>4, <1>5, <1>6

(***************************************************************************)
(* The list of waiters.                                                    *)
(***************************************************************************)
\* A thread or a listener is in the list at most once.
OnceInList == \A i, j \in DOMAIN waiters : waiters[i].who = waiters[j].who => i = j

\* An entry of the list is the waiter of a thread or a listener.
LEMMA WhoFacts ==
    ASSUME waiters \in Seq(Waiter), NEW i \in DOMAIN waiters
    PROVE  waiters[i].who \in EventThreads \cup Listeners /\ InList(waiters[i].who)
<1>1. waiters[i] \in Waiter
  OBVIOUS
<1>2. waiters[i].who \in EventThreads \cup Listeners
  BY <1>1 DEF Waiter
<1>3. InList(waiters[i].who)
  BY DEF InList
<1>4. QED
  BY <1>2, <1>3

\* DListInsertTail of a waiter that is not in the list.
LEMMA InsertFacts ==
    ASSUME waiters \in Seq(Waiter), OnceInList, NEW w \in Waiter, ~InList(w.who),
           waiters' = Append(waiters, w)
    PROVE  /\ waiters' \in Seq(Waiter) /\ OnceInList'
           /\ \A x : InList(x)' <=> InList(x) \/ x = w.who
<1>1. /\ waiters' \in Seq(Waiter) /\ Len(waiters') = Len(waiters) + 1
      /\ Len(waiters) \in Nat
      /\ DOMAIN waiters = 1..Len(waiters) /\ DOMAIN waiters' = 1..(Len(waiters) + 1)
      /\ \A k \in 1..Len(waiters) : waiters'[k] = waiters[k]
      /\ waiters'[Len(waiters) + 1] = w
  OBVIOUS
<1>2. \A k \in DOMAIN waiters' :
         \/ k \in DOMAIN waiters /\ waiters'[k] = waiters[k]
         \/ k = Len(waiters) + 1 /\ waiters'[k] = w
  BY <1>1
<1>3. OnceInList'
  <2> SUFFICES ASSUME NEW i \in DOMAIN waiters', NEW j \in DOMAIN waiters',
                      waiters'[i].who = waiters'[j].who
               PROVE  i = j
    BY DEF OnceInList
  <2>1. QED
    BY <1>2 DEF OnceInList, InList
<1>4. ASSUME NEW x PROVE InList(x)' <=> InList(x) \/ x = w.who
  <2>1. InList(x) => InList(x)'
    BY <1>1 DEF InList
  <2>2. x = w.who => InList(x)'
    BY <1>1 DEF InList
  <2>3. InList(x)' => InList(x) \/ x = w.who
    BY <1>2 DEF InList
  <2>4. QED
    BY <2>1, <2>2, <2>3
<1>5. QED
  BY <1>1, <1>3, <1>4

\* DListRemove of the i-th waiter.
LEMMA RemoveFacts ==
    ASSUME waiters \in Seq(Waiter), OnceInList, NEW i \in DOMAIN waiters,
           waiters' = RemoveAt(waiters, i)
    PROVE  /\ waiters' \in Seq(Waiter) /\ OnceInList'
           /\ \A x : InList(x)' <=> InList(x) /\ x # waiters[i].who
<1>1. Len(waiters) \in Nat /\ DOMAIN waiters = 1..Len(waiters)
  OBVIOUS
<1>2. /\ waiters' \in Seq(Waiter) /\ Len(waiters') = Len(waiters) - 1
      /\ \A k \in 1..(Len(waiters) - 1) :
            waiters'[k] = IF k < i THEN waiters[k] ELSE waiters[k + 1]
  BY <1>1, RemoveAtFacts
<1>3. DOMAIN waiters' = 1..(Len(waiters) - 1)
  BY <1>2
<1>4. \A k \in DOMAIN waiters' :
         \/ k < i /\ k \in DOMAIN waiters /\ waiters'[k] = waiters[k]
         \/ k >= i /\ k + 1 \in DOMAIN waiters /\ waiters'[k] = waiters[k + 1]
  BY <1>1, <1>2, <1>3
<1>5. \A k \in DOMAIN waiters :
         \/ k = i
         \/ k < i /\ k \in DOMAIN waiters' /\ waiters'[k] = waiters[k]
         \/ k > i /\ k - 1 \in DOMAIN waiters' /\ waiters'[k - 1] = waiters[k]
  <2> SUFFICES ASSUME NEW k \in 1..Len(waiters), k # i
               PROVE  \/ k < i /\ k \in DOMAIN waiters' /\ waiters'[k] = waiters[k]
                      \/ k > i /\ k - 1 \in DOMAIN waiters' /\ waiters'[k - 1] = waiters[k]
    BY <1>1
  <2>1. CASE k < i
    BY <1>1, <1>2, <1>3, <2>1
  <2>2. CASE k > i
    <3>1. k - 1 \in 1..(Len(waiters) - 1) /\ ~(k - 1 < i) /\ (k - 1) + 1 = k
      BY <1>1, <2>2
    <3>2. QED
      BY <1>2, <1>3, <2>2, <3>1
  <2>3. QED
    BY <1>1, <2>1, <2>2
<1>6. OnceInList'
  <2> SUFFICES ASSUME NEW k \in DOMAIN waiters', NEW j \in DOMAIN waiters',
                      waiters'[k].who = waiters'[j].who
               PROVE  k = j
    BY DEF OnceInList
  <2>1. QED
    BY <1>1, <1>3, <1>4 DEF OnceInList
<1>7. ASSUME NEW x PROVE InList(x)' <=> InList(x) /\ x # waiters[i].who
  <2>1. ASSUME InList(x)' PROVE InList(x) /\ x # waiters[i].who
    <3>1. PICK k \in DOMAIN waiters' : waiters'[k].who = x
      BY <2>1 DEF InList
    <3>2. PICK j \in DOMAIN waiters : j # i /\ waiters[j].who = x
      BY <1>1, <1>3, <1>4, <3>1
    <3>3. QED
      BY <3>2 DEF InList, OnceInList
  <2>2. ASSUME InList(x), x # waiters[i].who PROVE InList(x)'
    <3>1. PICK k \in DOMAIN waiters : waiters[k].who = x
      BY <2>2 DEF InList
    <3>2. k # i
      BY <2>2, <3>1
    <3>3. QED
      BY <1>5, <3>1, <3>2 DEF InList
  <2>3. QED
    BY <2>1, <2>2
<1>8. QED
  BY <1>2, <1>6, <1>7

\* DListRemove of a waiter that may be in the list.
LEMMA ListRemoveFacts ==
    ASSUME waiters \in Seq(Waiter), OnceInList, NEW w, ListRemove(w)
    PROVE  /\ waiters' \in Seq(Waiter) /\ OnceInList'
           /\ \A x : InList(x)' <=> InList(x) /\ x # w
<1>1. CASE ~InList(w) /\ UNCHANGED waiters
  BY <1>1 DEF InList, OnceInList
<1>2. ASSUME NEW i \in DOMAIN waiters, waiters[i].who = w,
             waiters' = RemoveAt(waiters, i)
      PROVE  /\ waiters' \in Seq(Waiter) /\ OnceInList'
             /\ \A x : InList(x)' <=> InList(x) /\ x # w
  BY <1>2, RemoveFacts
<1>3. QED
  BY <1>1, <1>2 DEF ListRemove

(***************************************************************************)
(* Type correctness, with the list.                                        *)
(***************************************************************************)
\* The events that satisfy a mask are among those there are and those asked for.
LEMMA MaskedFacts ==
    ASSUME NEW word \in SUBSET Events, NEW mask \in SUBSET Events, NEW all \in BOOLEAN
    PROVE  /\ Masked(word, mask, all) \in SUBSET Events
           /\ Masked(word, mask, all) \subseteq mask
           /\ all /\ Masked(word, mask, all) # {} => Masked(word, mask, all) = mask
  BY DEF Masked

\* The call of a thread and the place where it stands have their types.
LEMMA CallFacts ==
    ASSUME EventTypeOK, NEW t \in EventThreads
    PROVE  /\ call[t].mask \in SUBSET Events /\ call[t].all \in BOOLEAN
           /\ at[t] \in Places /\ sem[t] \in Nat
           /\ eventsWord \in SUBSET Events /\ waiters \in Seq(Waiter)
  BY DEF EventTypeOK, Waiter

\* A poster that finds somebody finds the first waiter its events satisfy.
LEMMA PostFacts ==
    ASSUME NEW t \in EventThreads, PlatformEventPost(t), EventTypeOK
    PROVE  /\ at[t] = "post" /\ UNCHANGED <<sem, call>>
           /\ eventsWord' \in SUBSET Events
           /\ \/ /\ Returns(t, "SUCCESS", {})
                 /\ UNCHANGED <<waiters, chosen>>
              \/ \E i \in DOMAIN waiters, evs \in SUBSET Events :
                 /\ IF waiters[i].who \in Listeners THEN UNCHANGED waiters
                    ELSE waiters' = RemoveAt(waiters, i)
                 /\ chosen' = [chosen EXCEPT ![t] = [who |-> waiters[i].who, events |-> evs]]
                 /\ Goes(t, "notify")
                 /\ UNCHANGED result
<1> DEFINE word == eventsWord \cup call[t].mask
           Found(i) == [who    |-> waiters[i].who,
                        events |-> Masked(word, waiters[i].mask, waiters[i].all)]
           sat == {i \in DOMAIN waiters : Found(i).events # {}}
<1>1. word \in SUBSET Events /\ waiters \in Seq(Waiter)
  BY CallFacts
<1>2. /\ at[t] = "post" /\ UNCHANGED <<sem, call>>
      /\ \/ /\ sat = {} /\ eventsWord' = word
            /\ Returns(t, "SUCCESS", {})
            /\ UNCHANGED <<waiters, chosen>>
         \/ \E i \in sat :
            /\ IF waiters[i].who \in Listeners
               THEN eventsWord' = word \ Found(i).events /\ UNCHANGED waiters
               ELSE eventsWord' = word /\ waiters' = RemoveAt(waiters, i)
            /\ chosen' = [chosen EXCEPT ![t] = Found(i)]
            /\ Goes(t, "notify")
            /\ UNCHANGED result
  BY DEF PlatformEventPost
<1>3. CASE sat = {} /\ eventsWord' = word /\ Returns(t, "SUCCESS", {})
             /\ UNCHANGED <<waiters, chosen>>
  BY <1>1, <1>2, <1>3
<1>4. ASSUME NEW i \in sat,
             IF waiters[i].who \in Listeners
               THEN eventsWord' = word \ Found(i).events /\ UNCHANGED waiters
               ELSE eventsWord' = word /\ waiters' = RemoveAt(waiters, i),
             chosen' = [chosen EXCEPT ![t] = Found(i)]
      PROVE  /\ eventsWord' \in SUBSET Events
             /\ \E evs \in SUBSET Events :
                /\ IF waiters[i].who \in Listeners THEN UNCHANGED waiters
                   ELSE waiters' = RemoveAt(waiters, i)
                /\ chosen' = [chosen EXCEPT ![t] = [who |-> waiters[i].who, events |-> evs]]
  <2>1. waiters[i] \in Waiter
    BY <1>1
  <2>2. Masked(word, waiters[i].mask, waiters[i].all) \in SUBSET Events
    BY <1>1, <2>1, MaskedFacts DEF Waiter
  <2>3. eventsWord' \in SUBSET Events
    BY <1>1, <1>4
  <2>4. QED
    BY <1>4, <2>2, <2>3
<1> HIDE DEF word, Found
<1>5. QED
  BY <1>2, <1>3, <1>4

\* Every step keeps the types, and no thread or listener is listed twice.
LEMMA TypeStep ==
    ASSUME EventNames, TypeOK, OnceInList, [Next]_vars,
           \A t \in EventThreads : at[t] = "insert" => ~InList(t)
    PROVE  TypeOK' /\ OnceInList'
<1> USE DEF TypeOK, EventTypeOK, Places, Goes, Returns
<1>0. /\ waiters \in Seq(Waiter) /\ calls \in Nat /\ MaxCalls \in Nat
      /\ NoCall \in [mask : SUBSET Events, all : BOOLEAN,
                     tms : {"none", "zero", "finite", "forever"}]
      /\ NoResult \in [ret : {"NONE", "SUCCESS", "NO_DATA", "TIMEOUT"}, events : SUBSET Events]
      /\ NoChoice \in [who : EventThreads \cup Listeners \cup {"none"}, events : SUBSET Events]
  BY DEF Waiter, EventNames, NoCall, NoResult, NoChoice
<1>a. waiters' = waiters => OnceInList'
  BY DEF OnceInList
<1>1. ASSUME NEW t \in EventThreads, PlatformEventRead(t), UNCHANGED calls
      PROVE  TypeOK' /\ OnceInList'
  <2>1. Masked(eventsWord, call[t].mask, call[t].all) \in SUBSET Events
    BY CallFacts, MaskedFacts
  <2>2. eventsWord' \in SUBSET Events /\ OnceInList' /\ UNCHANGED <<waiters, sem, call, chosen>>
    BY <1>1, <1>a, <2>1 DEF PlatformEventRead
  <2>3. PICK p \in {"returned", "insert"} : Goes(t, p)
    BY <1>1 DEF PlatformEventRead
  <2>4. result' \in [EventThreads -> [ret : {"NONE", "SUCCESS", "NO_DATA", "TIMEOUT"},
                                      events : SUBSET Events]]
    BY <1>1, <2>1 DEF PlatformEventRead
  <2>5. QED
    BY <1>1, <2>2, <2>3, <2>4
<1>2. ASSUME NEW t \in EventThreads, WaiterInsert(t), UNCHANGED calls
      PROVE  TypeOK' /\ OnceInList'
  <2>1. [who |-> t, mask |-> call[t].mask, all |-> call[t].all] \in Waiter
    BY CallFacts DEF Waiter
  <2>2. waiters' \in Seq(Waiter) /\ OnceInList'
    BY <1>0, <1>2, <2>1, InsertFacts DEF WaiterInsert
  <2>3. QED
    BY <1>2, <2>2 DEF WaiterInsert, Waiter
<1>3. ASSUME NEW t \in EventThreads, WaiterWoken(t), UNCHANGED calls
      PROVE  TypeOK' /\ OnceInList'
  BY <1>3, <1>a DEF WaiterWoken
<1>4. ASSUME NEW t \in EventThreads, WaiterRead(t), UNCHANGED calls
      PROVE  TypeOK' /\ OnceInList'
  <2>1. Masked(eventsWord, call[t].mask, call[t].all) \in SUBSET Events
    BY CallFacts, MaskedFacts
  <2>2. QED
    BY <1>4, <1>a, <2>1 DEF WaiterRead
<1>5. ASSUME NEW t \in EventThreads, WaiterTimeout(t), UNCHANGED calls
      PROVE  TypeOK' /\ OnceInList'
  BY <1>5, <1>a DEF WaiterTimeout
<1>6. ASSUME NEW t \in EventThreads, WaiterRemove(t), UNCHANGED calls
      PROVE  TypeOK' /\ OnceInList'
  <2>1. waiters' \in Seq(Waiter) /\ OnceInList'
    BY <1>0, <1>6, ListRemoveFacts DEF WaiterRemove
  <2>2. QED
    BY <1>0, <1>6, <2>1 DEF WaiterRemove, PostsLost, Waiter
<1>7. ASSUME NEW t \in EventThreads, PlatformEventPost(t), UNCHANGED calls
      PROVE  TypeOK' /\ OnceInList'
  <2>1. CASE Returns(t, "SUCCESS", {}) /\ UNCHANGED <<waiters, chosen>>
    BY <1>7, <1>a, <2>1, PostFacts
  <2>2. ASSUME NEW i \in DOMAIN waiters, NEW evs \in SUBSET Events,
               IF waiters[i].who \in Listeners THEN UNCHANGED waiters
                 ELSE waiters' = RemoveAt(waiters, i),
               chosen' = [chosen EXCEPT ![t] = [who |-> waiters[i].who, events |-> evs]],
               Goes(t, "notify"), UNCHANGED result
        PROVE  TypeOK' /\ OnceInList'
    <3>1. waiters' \in Seq(Waiter) /\ OnceInList'
      BY <1>0, <1>a, <2>2, RemoveFacts
    <3>2. waiters[i].who \in EventThreads \cup Listeners
      BY <1>0, WhoFacts
    <3>3. chosen' \in [EventThreads -> [who : EventThreads \cup Listeners \cup {"none"},
                                       events : SUBSET Events]]
      BY <2>2, <3>2
    <3>4. /\ at' \in [EventThreads -> Places] /\ UNCHANGED <<sem, call>>
          /\ eventsWord' \in SUBSET Events
      BY <1>7, <2>2, PostFacts
    <3>5. QED
      BY <1>7, <2>2, <3>1, <3>3, <3>4 DEF Waiter
  <2>3. QED
    BY <1>7, <2>1, <2>2, PostFacts
<1>8. ASSUME NEW t \in EventThreads, PostNotify(t), UNCHANGED calls
      PROVE  TypeOK' /\ OnceInList'
  BY <1>0, <1>8, <1>a DEF PostNotify
<1>9. ASSUME NEW t \in EventThreads, PlatformEventWait(t) \/ CallPost(t)
      PROVE  TypeOK' /\ OnceInList'
  <2>1. PICK mask \in SUBSET Events, all \in BOOLEAN, p \in {"read", "post"},
              tms \in {"none", "zero", "finite"} : Calls(t, p, mask, all, tms)
    BY <1>9 DEF PlatformEventWait, CallPost
  <2>2. QED
    BY <1>0, <1>a, <2>1 DEF Calls
<1>10. ASSUME NEW t \in EventThreads, Return(t)
       PROVE  TypeOK' /\ OnceInList'
  BY <1>0, <1>10, <1>a DEF Return
<1>11. ASSUME NEW t \in EventThreads, NEW l \in Listeners, NEW mask \in SUBSET Events,
              PlatformEventListen(t, l, mask)
       PROVE  TypeOK' /\ OnceInList'
  <2>1. [who |-> l, mask |-> mask, all |-> FALSE] \in Waiter
    BY DEF Waiter
  <2>2. waiters' \in Seq(Waiter) /\ OnceInList'
    BY <1>0, <1>11, <2>1, InsertFacts DEF PlatformEventListen
  <2>3. QED
    BY <1>0, <1>11, <2>2 DEF PlatformEventListen, Waiter
<1>12. ASSUME NEW t \in EventThreads, NEW l \in Listeners, PlatformEventUnlisten(t, l)
       PROVE  TypeOK' /\ OnceInList'
  <2>1. waiters' \in Seq(Waiter) /\ OnceInList'
    BY <1>0, <1>12, ListRemoveFacts DEF PlatformEventUnlisten
  <2>2. QED
    BY <1>0, <1>12, <2>1 DEF PlatformEventUnlisten, Waiter
<1>13. CASE UNCHANGED vars
  BY <1>13, <1>a DEF vars, eventVars
<1>14. QED
  BY <1>1, <1>2, <1>3, <1>4, <1>5, <1>6, <1>7, <1>8, <1>9, <1>10, <1>11, <1>12, <1>13
     DEF Next

(***************************************************************************)
(* The wake-up of a waiter.                                                *)
(***************************************************************************)
WakeInv ==
    /\ \A t \in EventThreads : InList(t) => at[t] \in {"wait", "timeout"} /\ sem[t] = 0
    /\ \A p, t \in EventThreads :
          chosen[p].who = t => at[t] \in {"wait", "timeout"} /\ sem[t] = 0 /\ ~InList(t)
    /\ \A p, q, t \in EventThreads : chosen[p].who = t /\ chosen[q].who = t => p = q
    /\ TakenIsWoken

\* Every step keeps a waiter in one place.
LEMMA WakeStep ==
    ASSUME EventNames, ~LatePostLands, TypeOK, OnceInList, WakeInv, [Next]_vars
    PROVE  WakeInv'
<1> USE DEF WakeInv, TakenIsWoken, Goes, Returns
<1>0. /\ waiters \in Seq(Waiter)
      /\ at \in [EventThreads -> Places] /\ sem \in [EventThreads -> Nat]
      /\ DOMAIN chosen = EventThreads
      /\ \A t \in EventThreads : sem[t] \in Nat /\ NoChoice.who # t
  BY DEF TypeOK, EventTypeOK, Waiter, EventNames, NoChoice
<1>a. waiters' = waiters => \A x : InList(x)' <=> InList(x)
  BY DEF InList
<1>1. ASSUME NEW t \in EventThreads, PlatformEventRead(t)
      PROVE  WakeInv'
  <2>1. PICK p \in {"returned", "insert"} : Goes(t, p)
    BY <1>1 DEF PlatformEventRead
  <2>2. at[t] = "read" /\ UNCHANGED <<waiters, sem, chosen>>
    BY <1>1 DEF PlatformEventRead
  <2>3. QED
    BY <1>0, <1>a, <2>1, <2>2
<1>2. ASSUME NEW t \in EventThreads, WaiterInsert(t)
      PROVE  WakeInv'
  <2>1. [who |-> t, mask |-> call[t].mask, all |-> call[t].all] \in Waiter
    BY CallFacts DEF Waiter, TypeOK
  <2>2. \A x : InList(x)' <=> InList(x) \/ x = t
    BY <1>0, <1>2, <2>1, InsertFacts DEF WaiterInsert
  <2>3. /\ at[t] = "insert" /\ at' = [at EXCEPT ![t] = "wait"]
        /\ sem' = [sem EXCEPT ![t] = 0] /\ chosen' = chosen
    BY <1>2 DEF WaiterInsert
  <2>4. QED
    BY <1>0, <2>2, <2>3
<1>3. ASSUME NEW t \in EventThreads, WaiterWoken(t)
      PROVE  WakeInv'
  BY <1>0, <1>3, <1>a DEF WaiterWoken
<1>4. ASSUME NEW t \in EventThreads, WaiterRead(t)
      PROVE  WakeInv'
  <2>1. /\ at[t] = "reread" /\ at' = [at EXCEPT ![t] = "returned"]
        /\ UNCHANGED <<waiters, sem, chosen>>
    BY <1>4 DEF WaiterRead
  <2>2. QED
    BY <1>0, <1>a, <2>1
<1>5. ASSUME NEW t \in EventThreads, WaiterTimeout(t)
      PROVE  WakeInv'
  BY <1>0, <1>5, <1>a DEF WaiterTimeout
<1>6. ASSUME NEW t \in EventThreads, WaiterRemove(t)
      PROVE  WakeInv'
  <2>1. \A x : InList(x)' <=> InList(x) /\ x # t
    BY <1>0, <1>6, ListRemoveFacts DEF WaiterRemove
  <2>2. /\ at[t] = "timeout" /\ at' = [at EXCEPT ![t] = "returned"] /\ sem' = sem
        /\ chosen' = [p \in EventThreads |-> IF chosen[p].who = t THEN NoChoice ELSE chosen[p]]
    BY <1>6 DEF WaiterRemove, PostsLost
  <2>3. QED
    BY <1>0, <2>1, <2>2
<1>7. ASSUME NEW t \in EventThreads, PlatformEventPost(t)
      PROVE  WakeInv'
  <2>1. at[t] = "post" /\ UNCHANGED sem
    BY <1>7, PostFacts DEF TypeOK
  <2>2. CASE Returns(t, "SUCCESS", {}) /\ UNCHANGED <<waiters, chosen>>
    BY <1>0, <1>a, <2>1, <2>2
  <2>3. ASSUME NEW i \in DOMAIN waiters, NEW evs \in SUBSET Events,
               IF waiters[i].who \in Listeners THEN UNCHANGED waiters
                 ELSE waiters' = RemoveAt(waiters, i),
               chosen' = [chosen EXCEPT ![t] = [who |-> waiters[i].who, events |-> evs]],
               Goes(t, "notify")
        PROVE  WakeInv'
    <3> DEFINE w == waiters[i].who
    <3>1. w \in EventThreads \cup Listeners /\ InList(w)
      BY <1>0, WhoFacts
    <3>2. chosen'[t].who = w /\ \A p \in EventThreads \ {t} : chosen'[p] = chosen[p]
      BY <1>0, <2>3
    <3> HIDE DEF w
    <3>3. CASE w \in Listeners
      <4>1. waiters' = waiters /\ w \notin EventThreads
        BY <2>3, <3>3 DEF w, EventNames
      <4>2. QED
        BY <1>0, <1>a, <2>1, <2>3, <3>2, <4>1
    <3>4. CASE w \notin Listeners
      <4>1. \A x : InList(x)' <=> InList(x) /\ x # w
        BY <1>0, <2>3, <3>4, RemoveFacts DEF w
      <4>2. w \in EventThreads /\ at[w] \in {"wait", "timeout"} /\ sem[w] = 0 /\ w # t
        BY <2>1, <3>1, <3>4
      <4>3. at'[t] = "notify" /\ \A x \in EventThreads \ {t} : at'[x] = at[x]
        BY <1>0, <2>3
      <4>4. \A p, x \in EventThreads :
               chosen'[p].who = x => at'[x] \in {"wait", "timeout"} /\ sem'[x] = 0 /\ ~InList(x)'
        BY <2>1, <3>2, <4>1, <4>2, <4>3
      <4>5. \A p, q, x \in EventThreads : chosen'[p].who = x /\ chosen'[q].who = x => p = q
        BY <3>1, <3>2
      <4>6. TakenIsWoken'
        BY <2>1, <3>2, <4>1, <4>2, <4>3
      <4>7. QED
        BY <2>1, <4>1, <4>2, <4>3, <4>4, <4>5, <4>6
    <3>5. QED
      BY <3>3, <3>4
  <2>4. QED
    BY <1>7, <2>2, <2>3, PostFacts DEF TypeOK
<1>8. ASSUME NEW t \in EventThreads, PostNotify(t)
      PROVE  WakeInv'
  <2>1. /\ at[t] = "notify" /\ at' = [at EXCEPT ![t] = "returned"]
        /\ sem' = [w \in EventThreads |->
                      IF w = chosen[t].who /\ at[w] = "wait" THEN sem[w] + 1 ELSE sem[w]]
        /\ chosen' = [chosen EXCEPT ![t] = NoChoice]
        /\ waiters' = waiters
    BY <1>8 DEF PostNotify
  <2>2. QED
    BY <1>0, <1>a, <2>1
<1>9. ASSUME NEW t \in EventThreads, PlatformEventWait(t) \/ CallPost(t)
      PROVE  WakeInv'
  <2>1. /\ at[t] = "idle" /\ UNCHANGED <<waiters, sem, chosen>>
        /\ \E p \in {"read", "post"} : at' = [at EXCEPT ![t] = p]
    BY <1>9 DEF PlatformEventWait, CallPost, Calls
  <2>2. QED
    BY <1>0, <1>a, <2>1
<1>10. ASSUME NEW t \in EventThreads, Return(t)
       PROVE  WakeInv'
  BY <1>0, <1>10, <1>a DEF Return
<1>11. ASSUME NEW t \in EventThreads, NEW l \in Listeners, NEW mask \in SUBSET Events,
              PlatformEventListen(t, l, mask)
       PROVE  WakeInv'
  <2>1. [who |-> l, mask |-> mask, all |-> FALSE] \in Waiter
    BY DEF Waiter
  <2>2. \A x \in EventThreads : InList(x)' <=> InList(x)
    BY <1>0, <1>11, <2>1, InsertFacts DEF PlatformEventListen, EventNames
  <2>3. QED
    BY <1>0, <1>11, <2>2 DEF PlatformEventListen
<1>12. ASSUME NEW t \in EventThreads, NEW l \in Listeners, PlatformEventUnlisten(t, l)
       PROVE  WakeInv'
  <2>1. \A x \in EventThreads : InList(x)' <=> InList(x)
    BY <1>0, <1>12, ListRemoveFacts DEF PlatformEventUnlisten, EventNames
  <2>2. QED
    BY <1>0, <1>12, <2>1 DEF PlatformEventUnlisten
<1>13. CASE UNCHANGED vars
  BY <1>13, <1>a DEF vars, eventVars
<1>14. QED
  BY <1>1, <1>2, <1>3, <1>4, <1>5, <1>6, <1>7, <1>8, <1>9, <1>10, <1>11, <1>12, <1>13
     DEF Next

(***************************************************************************)
(* What a wait is given.                                                   *)
(***************************************************************************)
\* Every step keeps GivenAsAsked.
LEMMA GivenStep ==
    ASSUME TypeOK, GivenAsAsked, [Next]_vars
    PROVE  GivenAsAsked'
<1> USE DEF GivenAsAsked, Goes, Returns
<1>0. /\ DOMAIN at = EventThreads /\ DOMAIN result = EventThreads
      /\ DOMAIN call = EventThreads
  BY DEF TypeOK, EventTypeOK
<1>1. ASSUME NEW t \in EventThreads, PlatformEventRead(t) \/ WaiterRead(t)
      PROVE  GivenAsAsked'
  <2> DEFINE evs == Masked(eventsWord, call[t].mask, call[t].all)
  <2>1. evs \subseteq call[t].mask /\ (call[t].all /\ evs # {} => evs = call[t].mask)
    BY CallFacts, MaskedFacts DEF TypeOK
  <2> HIDE DEF evs
  <2>2. /\ call' = call
        /\ \/ Returns(t, "SUCCESS", evs) \/ Returns(t, "NO_DATA", {})
           \/ Goes(t, "insert") /\ UNCHANGED result
    BY <1>1 DEF PlatformEventRead, WaiterRead, evs
  <2>3. QED
    BY <1>0, <2>1, <2>2
<1>2. ASSUME NEW t \in EventThreads, WaiterInsert(t) \/ WaiterWoken(t) \/ WaiterTimeout(t)
      PROVE  GivenAsAsked'
  <2>1. /\ UNCHANGED <<call, result>>
        /\ \E p \in {"wait", "reread", "timeout"} : Goes(t, p)
    BY <1>2 DEF WaiterInsert, WaiterWoken, WaiterTimeout
  <2>2. QED
    BY <1>0, <2>1
<1>3. ASSUME NEW t \in EventThreads, WaiterRemove(t) \/ PostNotify(t)
      PROVE  GivenAsAsked'
  <2>1. call' = call /\ \E ret \in {"TIMEOUT", "SUCCESS"} : Returns(t, ret, {})
    BY <1>3 DEF WaiterRemove, PostNotify
  <2>2. QED
    BY <1>0, <2>1
<1>4. ASSUME NEW t \in EventThreads, PlatformEventPost(t)
      PROVE  GivenAsAsked'
  <2>1. call' = call /\ (Returns(t, "SUCCESS", {}) \/ (Goes(t, "notify") /\ UNCHANGED result))
    BY <1>4, PostFacts DEF TypeOK
  <2>2. QED
    BY <1>0, <2>1
<1>5. ASSUME NEW t \in EventThreads, PlatformEventWait(t) \/ CallPost(t)
      PROVE  GivenAsAsked'
  <2>1. PICK mask \in SUBSET Events, all \in BOOLEAN, p \in {"read", "post"},
              tms \in {"none", "zero", "finite"} : Calls(t, p, mask, all, tms)
    BY <1>5 DEF PlatformEventWait, CallPost
  <2>2. QED
    BY <1>0, <2>1 DEF Calls
<1>6. ASSUME NEW t \in EventThreads, Return(t)
      PROVE  GivenAsAsked'
  BY <1>0, <1>6 DEF Return
<1>7. ASSUME NEW t \in EventThreads, NEW l \in Listeners,
             \/ \E mask \in SUBSET Events \ {{}} : PlatformEventListen(t, l, mask)
             \/ PlatformEventUnlisten(t, l)
      PROVE  GivenAsAsked'
  <2>1. UNCHANGED <<at, call, result>>
    BY <1>7 DEF PlatformEventListen, PlatformEventUnlisten
  <2>2. QED
    BY <2>1
<1>8. CASE UNCHANGED vars
  BY <1>8 DEF vars, eventVars
<1>9. QED
  BY <1>1, <1>2, <1>3, <1>4, <1>5, <1>6, <1>7, <1>8 DEF Next

\* If a late post does not reach the thread's next wait (~LatePostLands): no waiter on
\* the stack of a call that has returned is in the list, a waiter that was taken
\* out of it is woken, and a wait that returns events returns only ones it asked
\* for, all of them in PLAT_EVENT_MODE_AND; it may succeed with none
\* (PlatformEventWait, PlatformEventPost).
THEOREM EventsDeliveredThm ==
    ASSUME EventNames, ~LatePostLands
    PROVE  Spec => []EventsDelivered
<1> DEFINE IInv == TypeOK /\ OnceInList /\ WakeInv /\ GivenAsAsked
<1>1. Init => IInv
  <2> SUFFICES ASSUME Init PROVE IInv
    OBVIOUS
  <2>1. DOMAIN waiters = {} /\ waiters \in Seq(Waiter)
    BY DEF Init, EventInit
  <2>2. TypeOK
    BY <2>1 DEF Init, EventInit, TypeOK, EventTypeOK, Places, EventNames, Waiter, NoCall,
       NoResult, NoChoice
  <2>3. OnceInList /\ WakeInv /\ GivenAsAsked
    BY <2>1 DEF Init, EventInit, OnceInList, WakeInv, TakenIsWoken, GivenAsAsked, InList,
       NoChoice, EventNames
  <2>4. QED
    BY <2>2, <2>3
<1>2. IInv /\ [Next]_vars => IInv'
  <2> SUFFICES ASSUME IInv, [Next]_vars PROVE IInv'
    OBVIOUS
  <2>1. \A t \in EventThreads : at[t] = "insert" => ~InList(t)
    BY DEF WakeInv
  <2>2. QED
    BY <2>1, TypeStep, WakeStep, GivenStep
<1>3. IInv => EventsDelivered
  <2> SUFFICES ASSUME IInv PROVE NoDanglingWaiter
    BY DEF EventsDelivered, WakeInv
  <2>1. \A i \in DOMAIN waiters : waiters[i].who \in EventThreads \cup Listeners
                                 /\ InList(waiters[i].who)
    BY WhoFacts DEF TypeOK, EventTypeOK, Waiter
  <2>2. QED
    BY <2>1 DEF NoDanglingWaiter, WakeInv
<1> HIDE DEF IInv
<1>4. QED
  BY <1>1, <1>2, <1>3, PTL DEF Spec

-----------------------------------------------------------------------------
(* PlatformDevice.                                                         *)

\* One device that is added at most once; the threads are finitely many.
DeviceNames ==
    /\ EventNames /\ ~LatePostLands
    /\ IsFiniteSet(EventThreads) /\ Owner \in EventThreads
    /\ DEAD \in Events
    /\ MaxAdds \in {0, 1} /\ MaxGets \in Nat

Holders    == {u \in Users : pc[u] = "holds"}
ManagerRef == IF listed \/ pc[Owner] = "delPut" THEN 1 ELSE 0
Gone       == refs = 0 /\ adds # 0
Waiting    == [mask |-> {DEAD}, all |-> FALSE, tms |-> "forever"]

\* Who holds the device.
CountInv == refs = Cardinality(Holders) + ManagerRef

\* The way of the device through PlatformDeviceAdd and PlatformDeviceDel.
OwnerPlaces == {"idle", "delPut", "released", "posting", "delWait", "waiting"}
UserPlaces  == {"idle", "holds", "released", "posting"}
LifeInv ==
    /\ pc \in [EventThreads -> OwnerPlaces \cup UserPlaces]
    /\ pc[Owner] \in OwnerPlaces /\ \A u \in Users : pc[u] \in UserPlaces
    /\ listed \in BOOLEAN /\ inited \in BOOLEAN
    /\ adds \in 0..MaxAdds /\ gets \in 0..MaxGets
    /\ adds = 0 => ~inited /\ ~listed /\ \A t \in EventThreads : pc[t] = "idle"
    /\ listed => inited /\ pc[Owner] = "idle"
    /\ pc[Owner] # "idle" => inited /\ ~listed

\* The calls of the event that are under way.
CallInv ==
    \A t \in EventThreads :
        /\ pc[t] = "posting" => at[t] \in {"post", "notify", "returned"}
        /\ pc[t] = "waiting" => /\ at[t] \in {"read", "insert", "wait", "reread", "returned"}
                                /\ call[t] = Waiting
        /\ pc[t] \notin {"posting", "waiting"} => at[t] = "idle"

\* What tells the owner that the device is dead.
DeadInv ==
    /\ DEAD \in eventsWord => Gone
    /\ \A t \in EventThreads : pc[t] = "posting" => Gone
    /\ sem[Owner] > 0 => Gone
    /\ at[Owner] = "reread" => Gone
    /\ pc[Owner] = "waiting" /\ at[Owner] = "returned" => Gone

EventInv  == TypeOK /\ OnceInList /\ WakeInv
DeviceInv == EventInv /\ CountInv /\ LifeInv /\ CallInv /\ DeadInv

\* The initial state.
LEMMA DeviceInitInv ==
    ASSUME DeviceNames, DeviceInit
    PROVE  DeviceInv
<1> USE DEF DeviceNames
<1>1. EventInv
  <2>1. DOMAIN waiters = {} /\ waiters \in Seq(Waiter)
    BY DEF DeviceInit, Init, EventInit
  <2>2. TypeOK
    BY <2>1 DEF DeviceInit, Init, EventInit, TypeOK, EventTypeOK, Places, EventNames, Waiter,
       NoCall, NoResult, NoChoice
  <2>3. OnceInList /\ WakeInv
    BY <2>1 DEF DeviceInit, Init, EventInit, OnceInList, WakeInv, TakenIsWoken, InList,
       NoChoice, EventNames
  <2>4. QED
    BY <2>2, <2>3 DEF EventInv
<1>2. pc = [t \in EventThreads |-> "idle"] /\ ~listed /\ ~inited /\ refs = 0 /\ adds = 0 /\ gets = 0
  BY DEF DeviceInit
<1>3. LifeInv
  <2>1. listed \in BOOLEAN /\ inited \in BOOLEAN
    BY DEF DeviceInit
  <2>2. QED
    BY <1>2, <2>1 DEF LifeInv, OwnerPlaces, UserPlaces, Users
<1>4. CountInv
  <2>1. Holders = {} /\ ManagerRef = 0
    BY <1>2 DEF Holders, ManagerRef, Users
  <2>2. QED
    BY <1>2, <2>1, FS_EmptySet DEF CountInv
<1>5. CallInv
  BY <1>2 DEF CallInv, DeviceInit, Init, EventInit
<1>6. DeadInv
  BY <1>2 DEF DeadInv, DeviceInit, Init, EventInit
<1>7. QED
  BY <1>1, <1>3, <1>4, <1>5, <1>6 DEF DeviceInv

\* The holders are finitely many, and no more than the threads.
LEMMA HoldersFacts ==
    ASSUME DeviceNames
    PROVE  /\ IsFiniteSet(Holders) /\ Cardinality(Holders) \in Nat
           /\ Cardinality(EventThreads) \in Nat
           /\ Cardinality(Holders) <= Cardinality(EventThreads)
<1>1. Holders \subseteq EventThreads /\ IsFiniteSet(EventThreads)
  BY DEF Holders, Users, DeviceNames
<1>2. QED
  BY <1>1, FS_Subset, FS_CardinalityType

\* A thread that moves, and neither takes nor gives back a reference.
LEMMA MoveCount ==
    ASSUME DeviceNames, DeviceInv, NEW t \in EventThreads, NEW p, Moves(t, p),
           UNCHANGED <<refs, listed>>,
           pc[t] \notin {"holds", "delPut"}, p \notin {"holds", "delPut"}
    PROVE  CountInv'
<1>1. pc \in [EventThreads -> OwnerPlaces \cup UserPlaces]
  BY DEF DeviceInv, LifeInv
<1>2. \A u \in EventThreads : (pc'[u] = "holds" <=> pc[u] = "holds")
                             /\ (pc'[u] = "delPut" <=> pc[u] = "delPut")
  BY <1>1 DEF Moves
<1>3. Holders' = Holders /\ ManagerRef' = ManagerRef
  BY <1>2 DEF Holders, ManagerRef, Users, DeviceNames
<1>4. QED
  BY <1>3 DEF DeviceInv, CountInv

\* Once nobody has a reference the device is out of the manager's list and stays so.
LEMMA GoneFacts ==
    ASSUME DeviceNames, DeviceInv
    PROVE  /\ refs \in Nat
           /\ refs = 0 => ~listed /\ pc[Owner] # "delPut" /\ Holders = {}
<1>1. Cardinality(Holders) \in Nat /\ ManagerRef \in {0, 1}
  BY HoldersFacts DEF ManagerRef
<1>2. refs = Cardinality(Holders) + ManagerRef
  BY DEF DeviceInv, CountInv
<1>3. ASSUME refs = 0
      PROVE  ~listed /\ pc[Owner] # "delPut" /\ Holders = {}
  <2>1. Cardinality(Holders) = 0 /\ ManagerRef = 0
    BY <1>1, <1>2, <1>3
  <2>2. Holders = {}
    BY <2>1, HoldersFacts, FS_EmptySet
  <2>3. QED
    BY <2>1, <2>2 DEF ManagerRef
<1>4. QED
  BY <1>1, <1>2, <1>3

\* The steps inside the calls of the event are steps of PlatformEvent.
LEMMA EventStepEvent ==
    ASSUME DeviceNames, EventInv, NEW t \in EventThreads, EventStep(t)
    PROVE  EventInv' /\ Next
<1>1. Next
  BY DEF EventStep, Next
<1>2. \A u \in EventThreads : at[u] = "insert" => ~InList(u)
  BY DEF EventInv, WakeInv
<1>3. QED
  BY <1>1, <1>2, TypeStep, WakeStep DEF EventInv, DeviceNames

\* A step inside a call of the event.
LEMMA EventStepInv ==
    ASSUME DeviceNames, DeviceInv, NEW t \in EventThreads, EventStep(t)
    PROVE  DeviceInv'
<1>1. EventInv'
  BY EventStepEvent DEF DeviceInv
<1>2. UNCHANGED <<refs, listed, inited, pc, adds, gets>>
  BY DEF EventStep, devVars
<1>3. CountInv' /\ LifeInv' /\ (Gone' <=> Gone)
  BY <1>2 DEF DeviceInv, CountInv, LifeInv, Holders, ManagerRef, Gone
<1>4. /\ at \in [EventThreads -> Places] /\ sem \in [EventThreads -> Nat]
      /\ DOMAIN call = EventThreads
      /\ pc \in [EventThreads -> OwnerPlaces \cup UserPlaces]
      /\ Owner \in EventThreads
  BY DEF DeviceInv, EventInv, TypeOK, EventTypeOK, LifeInv, DeviceNames
<1>5. call' = call
  BY DEF EventStep, PlatformEventRead, WaiterInsert, WaiterWoken, WaiterRead,
     PlatformEventPost, PostNotify
<1>6. /\ \A u \in EventThreads \ {t} : at'[u] = at[u]
      /\ at[t] = "read" => at'[t] \in {"returned", "insert"}
      /\ at[t] = "insert" => at'[t] = "wait"
      /\ at[t] = "wait" => at'[t] = "reread"
      /\ at[t] = "reread" => at'[t] = "returned"
      /\ at[t] = "post" => at'[t] \in {"returned", "notify"}
      /\ at[t] = "notify" => at'[t] = "returned"
      /\ at[t] \in {"read", "insert", "wait", "reread", "post", "notify"}
  BY <1>4 DEF EventStep, PlatformEventRead, WaiterInsert, WaiterWoken, WaiterRead,
     PlatformEventPost, PostNotify, Goes, Returns
<1>7. CallInv
  BY DEF DeviceInv
<1>8. CallInv'
  <2> SUFFICES ASSUME NEW u \in EventThreads
               PROVE  /\ pc[u] = "posting" => at'[u] \in {"post", "notify", "returned"}
                      /\ pc[u] = "waiting" =>
                           /\ at'[u] \in {"read", "insert", "wait", "reread", "returned"}
                           /\ call[u] = Waiting
                      /\ pc[u] \notin {"posting", "waiting"} => at'[u] = "idle"
    BY <1>2, <1>5 DEF CallInv
  <2>1. CASE u # t
    BY <1>6, <1>7, <2>1 DEF CallInv
  <2>2. CASE u = t
    BY <1>6, <1>7, <2>2 DEF CallInv
  <2>3. QED
    BY <2>1, <2>2
<1>9. pc[t] \in {"posting", "waiting"} /\ (pc[t] = "waiting" => t = Owner)
  BY <1>4, <1>6, <1>7 DEF CallInv, DeviceInv, LifeInv, Users, UserPlaces
<1>10. DeadInv'
  <2>0. DeadInv
    BY DEF DeviceInv
  <2>1. CASE pc[t] = "posting"
    <3>1. Gone'
      BY <1>3, <2>0, <2>1 DEF DeadInv
    <3>2. QED
      BY <3>1 DEF DeadInv
  <2>2. CASE pc[t] = "waiting"
    <3>1. t = Owner /\ call[t].mask = {DEAD} /\ call[t].tms = "forever"
      BY <1>7, <1>9, <2>2 DEF CallInv, Waiting
    <3>2. \A u \in EventThreads : pc[u] = "posting" => Gone
      BY <2>0 DEF DeadInv
    <3>3. CASE PlatformEventRead(t)
      <4> DEFINE evs == Masked(eventsWord, call[t].mask, call[t].all)
      <4>1. evs \subseteq eventsWord \cap {DEAD}
        BY <3>1 DEF Masked
      <4>2. /\ eventsWord' = eventsWord \ evs /\ sem' = sem
            /\ at'[t] = "returned" => evs # {}
            /\ at'[t] \in {"returned", "insert"}
        BY <1>4, <3>1, <3>3 DEF PlatformEventRead, Returns, Goes
      <4> HIDE DEF evs
      <4>3. at'[t] = "returned" => Gone
        BY <2>0, <4>1, <4>2 DEF DeadInv
      <4>4. QED
        BY <1>2, <1>3, <2>0, <3>1, <4>1, <4>2, <4>3 DEF DeadInv
    <3>4. CASE WaiterInsert(t)
      <4>1. eventsWord' = eventsWord /\ sem'[t] = 0 /\ at'[t] = "wait"
        BY <1>4, <3>4 DEF WaiterInsert, Goes
      <4>2. QED
        BY <1>2, <1>3, <2>0, <3>1, <4>1 DEF DeadInv
    <3>5. CASE WaiterWoken(t)
      <4>1. sem[Owner] > 0
        BY <3>1, <3>5 DEF WaiterWoken
      <4>2. Gone'
        BY <1>3, <2>0, <4>1 DEF DeadInv
      <4>3. QED
        BY <4>2 DEF DeadInv
    <3>6. CASE WaiterRead(t)
      <4>1. Gone'
        BY <1>3, <2>0, <3>1, <3>6 DEF DeadInv, WaiterRead
      <4>2. QED
        BY <4>1 DEF DeadInv
    <3>7. CASE PlatformEventPost(t) \/ PostNotify(t)
      BY <1>7, <2>2, <3>7 DEF CallInv, PlatformEventPost, PostNotify
    <3>8. QED
      BY <3>3, <3>4, <3>5, <3>6, <3>7 DEF EventStep
  <2>3. QED
    BY <1>9, <2>1, <2>2
<1>11. QED
  BY <1>1, <1>3, <1>8, <1>10 DEF DeviceInv

\* A thread that is outside the calls of the event begins or ends one, or moves
\* between them: what PlatformEvent needs of its callers.
LEMMA BeginsEvent ==
    ASSUME DeviceNames, EventInv, NEW t \in EventThreads, NEW p \in {"post", "read"},
           NEW tms \in {"none", "forever"}, at[t] = "idle", Begins(t, p, tms)
    PROVE  EventInv'
<1>1. /\ call' = [call EXCEPT ![t] = [mask |-> {DEAD}, all |-> FALSE, tms |-> tms]]
      /\ at' = [at EXCEPT ![t] = p]
      /\ UNCHANGED <<eventsWord, waiters, sem, result, chosen, calls>>
  BY DEF Begins
<1>2. at \in [EventThreads -> Places] /\ \A x : InList(x)' <=> InList(x)
  BY <1>1 DEF EventInv, TypeOK, EventTypeOK, InList
<1>3. TypeOK'
  <2>1. [mask |-> {DEAD}, all |-> FALSE, tms |-> tms]
          \in [mask : SUBSET Events, all : BOOLEAN, tms : {"none", "zero", "finite", "forever"}]
    BY DEF DeviceNames
  <2>2. at' \in [EventThreads -> Places]
    BY <1>1, <1>2 DEF Places
  <2>3. QED
    BY <1>1, <2>1, <2>2 DEF EventInv, TypeOK, EventTypeOK
<1>4. OnceInList'
  BY <1>1 DEF EventInv, OnceInList
<1>5. WakeInv'
  <2>1. \A u \in EventThreads : at[u] \in {"wait", "timeout"} <=> at'[u] \in {"wait", "timeout"}
    BY <1>1, <1>2
  <2>2. \A u \in EventThreads : /\ at'[u] = "wait" => at[u] = "wait"
                                /\ at[u] = "notify" => at'[u] = "notify"
    BY <1>1, <1>2
  <2>3. QED
    BY <1>1, <1>2, <2>1, <2>2 DEF EventInv, WakeInv, TakenIsWoken
<1>6. QED
  BY <1>3, <1>4, <1>5 DEF EventInv

\* The end of a call; the owner may empty the list.
LEMMA EndsEvent ==
    ASSUME DeviceNames, EventInv, NEW t \in EventThreads, at[t] = "returned", Ends(t),
           UNCHANGED <<eventsWord, sem, chosen, calls>>,
           waiters' = waiters \/ (waiters' = <<>> /\ \A u \in EventThreads \ {t} : at[u] # "wait")
    PROVE  EventInv'
<1>1. /\ call' = [call EXCEPT ![t] = NoCall] /\ result' = [result EXCEPT ![t] = NoResult]
      /\ at' = [at EXCEPT ![t] = "idle"]
  BY DEF Ends
<1>2. at \in [EventThreads -> Places] /\ DOMAIN chosen = EventThreads
  BY DEF EventInv, TypeOK, EventTypeOK
<1>3. waiters' \in Seq(Waiter) /\ OnceInList'
  <2>1. waiters \in Seq(Waiter) /\ OnceInList
    BY DEF EventInv, TypeOK, EventTypeOK, Waiter
  <2>2. CASE waiters' = waiters
    BY <2>1, <2>2 DEF OnceInList
  <2>3. CASE waiters' = <<>>
    BY <2>3 DEF OnceInList
  <2>4. QED
    BY <2>2, <2>3
<1>4. TypeOK'
  <2>1. NoCall \in [mask : SUBSET Events, all : BOOLEAN,
                    tms : {"none", "zero", "finite", "forever"}]
        /\ NoResult \in [ret : {"NONE", "SUCCESS", "NO_DATA", "TIMEOUT"}, events : SUBSET Events]
    BY DEF NoCall, NoResult
  <2>2. at' \in [EventThreads -> Places]
    BY <1>1, <1>2 DEF Places
  <2>3. QED
    BY <1>1, <1>3, <2>1, <2>2 DEF EventInv, TypeOK, EventTypeOK, Waiter
<1>5. WakeInv'
  <2>1. CASE waiters' = waiters
    <3>1. \A x : InList(x)' <=> InList(x)
      BY <2>1 DEF InList
    <3>2. QED
      BY <1>1, <1>2, <3>1 DEF EventInv, WakeInv, TakenIsWoken
  <2>2. CASE waiters' = <<>> /\ \A u \in EventThreads \ {t} : at[u] # "wait"
    <3>1. \A x : ~InList(x)'
      BY <2>2 DEF InList
    <3>2. QED
      BY <1>1, <1>2, <2>2, <3>1 DEF EventInv, WakeInv, TakenIsWoken
  <2>3. QED
    BY <2>1, <2>2
<1>6. QED
  BY <1>3, <1>4, <1>5 DEF EventInv

\* The event's part when a step leaves the event alone.
LEMMA QuietEvent ==
    ASSUME EventInv, UNCHANGED vars
    PROVE  EventInv'
<1>1. UNCHANGED <<eventsWord, waiters, sem, at, call, result, chosen, calls>>
  BY DEF vars, eventVars
<1>2. \A x : InList(x)' <=> InList(x)
  BY <1>1 DEF InList
<1>3. TypeOK' /\ OnceInList'
  BY <1>1 DEF EventInv, TypeOK, EventTypeOK, OnceInList
<1>4. WakeInv'
  BY <1>1, <1>2 DEF EventInv, WakeInv, TakenIsWoken
<1>5. QED
  BY <1>3, <1>4 DEF EventInv

\* PlatformDeviceAdd: before it nobody has touched the device.
LEMMA AddInv ==
    ASSUME DeviceNames, DeviceInv, PlatformDeviceAdd(Owner)
    PROVE  DeviceInv' /\ ~inited /\ ~listed /\ pc' = pc /\ (inited' <=> listed')
<1>1. /\ pc[Owner] = "idle" /\ adds < MaxAdds /\ adds' = adds + 1 /\ waiters' = <<>>
      /\ UNCHANGED <<sem, at, call, result, chosen, calls, pc, gets>>
  BY DEF PlatformDeviceAdd
<1>2. \/ inited' = TRUE /\ refs' = 1 /\ listed' = TRUE /\ eventsWord' = {}
      \/ inited' = FALSE /\ refs' = 0 /\ listed' = FALSE /\ eventsWord' = {DEAD}
  BY DEF PlatformDeviceAdd
<1>3. adds = 0 /\ adds' = 1 /\ MaxAdds = 1
  BY <1>1 DEF DeviceInv, LifeInv, DeviceNames
<1>4. ~inited /\ ~listed /\ \A t \in EventThreads : pc[t] = "idle"
  BY <1>3 DEF DeviceInv, LifeInv
<1>5. \A t \in EventThreads : at[t] = "idle"
  BY <1>4 DEF DeviceInv, CallInv
<1>6. EventInv'
  <2>1. \A x : ~InList(x)'
    BY <1>1 DEF InList
  <2>2. waiters' \in Seq(Waiter) /\ OnceInList'
    BY <1>1 DEF OnceInList
  <2>3. eventsWord' \subseteq Events
    BY <1>2 DEF DeviceNames
  <2>4. TypeOK'
    BY <1>1, <2>2, <2>3 DEF DeviceInv, EventInv, TypeOK, EventTypeOK, Waiter
  <2>5. WakeInv'
    BY <1>1, <1>5, <2>1 DEF DeviceInv, EventInv, WakeInv, TakenIsWoken
  <2>6. QED
    BY <2>2, <2>4, <2>5 DEF EventInv
<1>7. LifeInv'
  <2>1. listed' \in BOOLEAN /\ inited' \in BOOLEAN /\ (listed' => inited')
    BY <1>2
  <2>2. QED
    BY <1>1, <1>3, <2>1 DEF DeviceInv, LifeInv
<1>8. CountInv'
  <2>1. Holders' = {}
    BY <1>1, <1>4 DEF Holders, Users
  <2>2. Cardinality(Holders') = 0
    BY <2>1, FS_EmptySet
  <2>3. CASE inited' = TRUE /\ refs' = 1 /\ listed' = TRUE
    <3>1. ManagerRef' = 1
      BY <2>3 DEF ManagerRef
    <3>2. QED
      BY <2>2, <2>3, <3>1 DEF CountInv
  <2>4. CASE inited' = FALSE /\ refs' = 0 /\ listed' = FALSE
    <3>1. ManagerRef' = 0
      BY <1>1, <2>4 DEF ManagerRef
    <3>2. QED
      BY <2>2, <2>4, <3>1 DEF CountInv
  <2>5. QED
    BY <1>2, <2>3, <2>4
<1>9. CallInv'
  BY <1>1 DEF DeviceInv, CallInv
<1>10. DeadInv'
  <2>1. ~(sem[Owner] > 0)
    BY <1>3 DEF DeviceInv, DeadInv, Gone
  <2>2. DEAD \in eventsWord' => Gone'
    BY <1>2, <1>3 DEF Gone
  <2>3. QED
    BY <1>1, <1>4, <1>5, <2>1, <2>2 DEF DeadInv, DeviceNames
<1>11. inited' <=> listed'
  BY <1>2
<1>12. QED
  BY <1>1, <1>4, <1>6, <1>7, <1>8, <1>9, <1>10, <1>11 DEF DeviceInv

\* PlatformManagerFindDevice: the device that is found is in the list, so that its
\* count is not 0.
LEMMA FindInv ==
    ASSUME DeviceNames, DeviceInv, NEW u \in Users, PlatformManagerFindDevice(u)
    PROVE  DeviceInv' /\ listed /\ inited /\ u \notin Holders /\ Holders' = Holders \cup {u}
           /\ UNCHANGED <<listed, inited>>
<1>1. /\ pc[u] = "idle" /\ listed /\ gets < MaxGets /\ refs' = refs + 1 /\ gets' = gets + 1
      /\ pc' = [pc EXCEPT ![u] = "holds"] /\ UNCHANGED vars /\ UNCHANGED <<listed, inited, adds>>
  BY DEF PlatformManagerFindDevice, Moves
<1>2. UNCHANGED <<eventsWord, sem, at, call>>
  BY <1>1 DEF vars, eventVars
<1>3. /\ pc \in [EventThreads -> OwnerPlaces \cup UserPlaces]
      /\ u \in EventThreads /\ u # Owner /\ Owner \in EventThreads
  BY DEF DeviceInv, LifeInv, Users, DeviceNames
<1>4. inited /\ adds # 0
  BY <1>1 DEF DeviceInv, LifeInv
<1>5. refs # 0 /\ refs \in Nat
  BY <1>1, GoneFacts
<1>6. u \notin Holders /\ Holders' = Holders \cup {u}
  BY <1>1, <1>3 DEF Holders, Users
<1>7. CountInv'
  <2>1. Cardinality(Holders') = Cardinality(Holders) + 1 /\ Cardinality(Holders) \in Nat
    BY <1>6, HoldersFacts, FS_AddElement
  <2>2. ManagerRef' = ManagerRef /\ ManagerRef \in {0, 1}
    BY <1>1, <1>3 DEF ManagerRef
  <2>3. QED
    BY <1>1, <2>1, <2>2 DEF DeviceInv, CountInv
<1>8. LifeInv'
  <2>1. pc' \in [EventThreads -> OwnerPlaces \cup UserPlaces]
        /\ pc'[Owner] = pc[Owner] /\ \A x \in Users : pc'[x] \in UserPlaces
    BY <1>1, <1>3 DEF DeviceInv, LifeInv, UserPlaces, Users
  <2>2. gets' \in 0..MaxGets
    BY <1>1 DEF DeviceInv, LifeInv, DeviceNames
  <2>3. QED
    BY <1>1, <1>4, <2>1, <2>2 DEF DeviceInv, LifeInv
<1>9. CallInv'
  BY <1>1, <1>2, <1>3 DEF DeviceInv, CallInv
<1>10. DeadInv'
  <2>1. ~Gone
    BY <1>5 DEF Gone
  <2>2. \A t \in EventThreads : pc'[t] = "posting" => pc[t] = "posting"
    BY <1>1, <1>3
  <2>3. pc'[Owner] = pc[Owner]
    BY <1>1, <1>3
  <2>4. QED
    BY <1>2, <2>1, <2>2, <2>3 DEF DeviceInv, DeadInv
<1>11. EventInv'
  BY <1>1, QuietEvent DEF DeviceInv
<1>12. QED
  BY <1>1, <1>4, <1>6, <1>7, <1>8, <1>9, <1>10, <1>11 DEF DeviceInv

\* A thread that moves from a place of the functions to another one, when the device
\* stays in or out of the list.
LEMMA MoveLife ==
    ASSUME DeviceNames, DeviceInv, NEW t \in EventThreads, NEW p, Moves(t, p),
           UNCHANGED <<listed, inited, adds, gets>>, pc[t] # "idle",
           t = Owner => p \in OwnerPlaces \ {"idle"}, t # Owner => p \in UserPlaces
    PROVE  LifeInv'
<1>1. pc' = [pc EXCEPT ![t] = p] /\ pc \in [EventThreads -> OwnerPlaces \cup UserPlaces]
  BY DEF Moves, DeviceInv, LifeInv
<1>2. pc' \in [EventThreads -> OwnerPlaces \cup UserPlaces]
  BY <1>1
<1>3. adds # 0 /\ Owner \in EventThreads
  BY DEF DeviceInv, LifeInv, DeviceNames
<1>4. pc'[Owner] \in OwnerPlaces /\ \A u \in Users : pc'[u] \in UserPlaces
  BY <1>1, <1>3 DEF DeviceInv, LifeInv, Users
<1>5. pc'[Owner] = "idle" <=> pc[Owner] = "idle"
  BY <1>1, <1>3
<1>6. QED
  BY <1>2, <1>3, <1>4, <1>5 DEF DeviceInv, LifeInv

\* HdfSRefRelease: the decrement.
LEMMA ReleaseInv ==
    ASSUME DeviceNames, DeviceInv, NEW t \in EventThreads, HdfSRefRelease(t)
    PROVE  /\ DeviceInv' /\ UNCHANGED <<listed, inited>>
           /\ t = Owner => Holders' = Holders
           /\ t # Owner => t \in Holders /\ Holders' = Holders \ {t}
<1>1. /\ refs' = refs - 1 /\ Moves(t, "released") /\ UNCHANGED vars
      /\ UNCHANGED <<listed, inited, adds, gets>>
      /\ pc[t] = IF t = Owner THEN "delPut" ELSE "holds"
  BY DEF HdfSRefRelease, Users
<1>2. UNCHANGED <<eventsWord, sem, at, call>>
  BY <1>1 DEF vars, eventVars
<1>3. /\ pc \in [EventThreads -> OwnerPlaces \cup UserPlaces]
      /\ Owner \in EventThreads
      /\ pc' = [pc EXCEPT ![t] = "released"]
  BY <1>1 DEF DeviceInv, LifeInv, DeviceNames, Moves
<1>4. refs # 0
  <2>1. t # Owner => t \in Holders
    BY <1>1 DEF Holders, Users
  <2>2. QED
    BY <1>1, <2>1, GoneFacts
<1>5. LifeInv'
  BY <1>1, MoveLife DEF OwnerPlaces, UserPlaces
<1>6. CallInv'
  BY <1>1, <1>2, <1>3 DEF DeviceInv, CallInv
<1>7. DeadInv'
  <2>1. ~Gone
    BY <1>4 DEF Gone
  <2>2. \A u \in EventThreads : pc'[u] = "posting" => pc[u] = "posting"
    BY <1>3
  <2>3. pc'[Owner] = "waiting" => pc[Owner] = "waiting"
    BY <1>3
  <2>4. QED
    BY <1>2, <2>1, <2>2, <2>3 DEF DeviceInv, DeadInv
<1>8. EventInv'
  BY <1>1, QuietEvent DEF DeviceInv
<1>9. CASE t = Owner
  <2>1. Holders' = Holders
    BY <1>3, <1>9 DEF Holders, Users
  <2>2. ManagerRef = 1 /\ ManagerRef' = 0
    <3>1. ~listed
      BY <1>1, <1>9 DEF DeviceInv, LifeInv
    <3>2. pc'[Owner] = "released"
      BY <1>3, <1>9
    <3>3. QED
      BY <1>1, <1>9, <3>1, <3>2 DEF ManagerRef
  <2>3. CountInv'
    BY <1>1, <2>1, <2>2, HoldersFacts DEF DeviceInv, CountInv
  <2>4. QED
    BY <1>1, <1>5, <1>6, <1>7, <1>8, <1>9, <2>1, <2>3 DEF DeviceInv
<1>10. CASE t # Owner
  <2>1. t \in Holders /\ Holders' = Holders \ {t}
    BY <1>1, <1>3, <1>10 DEF Holders, Users
  <2>2. Cardinality(Holders') = Cardinality(Holders) - 1 /\ Cardinality(Holders) \in Nat
    BY <2>1, HoldersFacts, FS_RemoveElement
  <2>3. ManagerRef' = ManagerRef /\ ManagerRef \in {0, 1}
    BY <1>1, <1>3, <1>10 DEF ManagerRef
  <2>4. CountInv'
    BY <1>1, <2>2, <2>3 DEF DeviceInv, CountInv
  <2>5. QED
    BY <1>1, <1>5, <1>6, <1>7, <1>8, <1>10, <2>1, <2>4 DEF DeviceInv
<1>11. QED
  BY <1>9, <1>10

\* HdfSRefRelease: the reading; who reads 0 goes on to post.
LEMMA ReadCountInv ==
    ASSUME DeviceNames, DeviceInv, NEW t \in EventThreads, ReleaseRead(t)
    PROVE  DeviceInv' /\ UNCHANGED <<listed, inited>> /\ Holders' = Holders
<1>1. PICK p \in {AfterPut(t), "posting"} :
         /\ Moves(t, p) /\ pc[t] = "released" /\ UNCHANGED <<refs, listed, inited, adds, gets>>
         /\ \/ p = AfterPut(t) /\ UNCHANGED vars
            \/ p = "posting" /\ refs = 0 /\ Begins(t, "post", "none")
  BY DEF ReleaseRead
<1>2. /\ p \notin {"holds", "delPut", "idle"} \/ t # Owner
      /\ t = Owner => p \in OwnerPlaces \ {"idle"}
      /\ t # Owner => p \in {"idle", "posting"}
      /\ p \notin {"holds", "delPut", "waiting"}
  BY DEF AfterPut, OwnerPlaces
<1>3. /\ pc \in [EventThreads -> OwnerPlaces \cup UserPlaces] /\ Owner \in EventThreads
      /\ pc' = [pc EXCEPT ![t] = p] /\ at[t] = "idle" /\ DOMAIN at = EventThreads
      /\ DOMAIN call = EventThreads
  BY <1>1 DEF DeviceInv, LifeInv, DeviceNames, Moves, CallInv, EventInv, TypeOK, EventTypeOK
<1>4. LifeInv'
  BY <1>1, <1>2, MoveLife DEF UserPlaces
<1>5. CountInv'
  BY <1>1, <1>2, MoveCount
<1>6. Holders' = Holders
  BY <1>1, <1>2, <1>3 DEF Holders, Users
<1>7. EventInv'
  BY <1>1, <1>3, QuietEvent, BeginsEvent DEF DeviceInv
<1>8. /\ at' = IF p = "posting" /\ refs = 0 /\ Begins(t, "post", "none")
               THEN [at EXCEPT ![t] = "post"] ELSE at
      /\ \A u \in EventThreads \ {t} : call'[u] = call[u]
      /\ UNCHANGED <<eventsWord, sem>>
  <2>1. CASE p = AfterPut(t) /\ UNCHANGED vars
    <3>1. p # "posting" /\ UNCHANGED <<at, call, eventsWord, sem>>
      BY <2>1 DEF AfterPut, vars, eventVars
    <3>2. QED
      BY <3>1
  <2>2. CASE p = "posting" /\ refs = 0 /\ Begins(t, "post", "none")
    BY <1>3, <2>2 DEF Begins
  <2>3. QED
    BY <1>1, <2>1, <2>2
<1>9. p = "posting" => refs = 0 /\ at'[t] = "post"
  <2>1. AfterPut(t) # "posting"
    BY DEF AfterPut
  <2>2. QED
    BY <1>1, <1>3, <1>8, <2>1
<1>10. p # "posting" => at'[t] = "idle"
  BY <1>3, <1>8
<1>11. \A u \in EventThreads \ {t} : at'[u] = at[u] /\ pc'[u] = pc[u]
  BY <1>3, <1>8
<1>12. pc'[t] = p
  BY <1>3
<1>13. CallInv'
  <2> SUFFICES ASSUME NEW u \in EventThreads
               PROVE  /\ pc'[u] = "posting" => at'[u] \in {"post", "notify", "returned"}
                      /\ pc'[u] = "waiting" =>
                           /\ at'[u] \in {"read", "insert", "wait", "reread", "returned"}
                           /\ call'[u] = Waiting
                      /\ pc'[u] \notin {"posting", "waiting"} => at'[u] = "idle"
    BY DEF CallInv
  <2>1. CASE u = t
    BY <1>2, <1>9, <1>10, <1>12, <2>1
  <2>2. CASE u # t
    BY <1>8, <1>11, <2>2 DEF DeviceInv, CallInv
  <2>3. QED
    BY <2>1, <2>2
<1>14. DeadInv'
  <2>1. Gone' <=> Gone
    BY <1>1 DEF Gone
  <2>2. adds # 0
    BY <1>1 DEF DeviceInv, LifeInv
  <2>3. p = "posting" => Gone
    BY <1>9, <2>2 DEF Gone
  <2>4. \A u \in EventThreads : pc'[u] = "posting" => Gone
    BY <1>11, <1>12, <2>3 DEF DeviceInv, DeadInv
  <2>5. /\ at'[Owner] = "reread" => at[Owner] = "reread"
        /\ pc'[Owner] = "waiting" => pc[Owner] = "waiting" /\ at'[Owner] = at[Owner]
    BY <1>2, <1>3, <1>9, <1>10, <1>11, <1>12
  <2>6. QED
    BY <1>8, <2>1, <2>4, <2>5 DEF DeviceInv, DeadInv
<1>15. QED
  BY <1>1, <1>4, <1>5, <1>6, <1>7, <1>13, <1>14 DEF DeviceInv

\* PlatformDeviceOnLastPut is over.
LEMMA PutEndInv ==
    ASSUME DeviceNames, DeviceInv, NEW t \in EventThreads, OnLastPutEnd(t)
    PROVE  DeviceInv' /\ UNCHANGED <<listed, inited>> /\ Holders' = Holders
<1>1. PICK p : p = AfterPut(t)
  OBVIOUS
<1>2. /\ pc[t] = "posting" /\ at[t] = "returned" /\ Ends(t) /\ Moves(t, p)
      /\ UNCHANGED <<eventsWord, waiters, sem, chosen, calls>>
      /\ UNCHANGED <<refs, listed, inited, adds, gets>>
  BY <1>1 DEF OnLastPutEnd
<1>3. /\ t = Owner => p \in OwnerPlaces \ {"idle"}
      /\ t # Owner => p \in UserPlaces
      /\ p \in {"idle", "delWait"}
  BY <1>1 DEF AfterPut, OwnerPlaces, UserPlaces
<1>4. /\ pc \in [EventThreads -> OwnerPlaces \cup UserPlaces] /\ Owner \in EventThreads
      /\ pc' = [pc EXCEPT ![t] = p] /\ DOMAIN at = EventThreads
      /\ DOMAIN call = EventThreads
      /\ at' = [at EXCEPT ![t] = "idle"] /\ call' = [call EXCEPT ![t] = NoCall]
  BY <1>2 DEF DeviceInv, LifeInv, DeviceNames, Moves, EventInv, TypeOK, EventTypeOK, Ends
<1>5. LifeInv'
  BY <1>2, <1>3, MoveLife
<1>6. CountInv'
  BY <1>2, <1>3, MoveCount
<1>7. Holders' = Holders
  BY <1>2, <1>3, <1>4 DEF Holders, Users
<1>8. EventInv'
  BY <1>2, EndsEvent DEF DeviceInv
<1>9. CallInv'
  BY <1>3, <1>4 DEF DeviceInv, CallInv
<1>10. DeadInv'
  <2>1. Gone
    BY <1>2 DEF DeviceInv, DeadInv
  <2>2. Gone'
    BY <1>2, <2>1 DEF Gone
  <2>3. QED
    BY <2>2 DEF DeadInv
<1>11. QED
  BY <1>2, <1>5, <1>6, <1>7, <1>8, <1>9, <1>10 DEF DeviceInv

\* PlatformDeviceDel takes the device out of the list.
LEMMA DelInv ==
    ASSUME DeviceNames, DeviceInv, PlatformDeviceDel(Owner)
    PROVE  DeviceInv' /\ listed /\ ~listed' /\ inited /\ inited' /\ Holders' = Holders
<1>1. /\ pc[Owner] = "idle" /\ listed /\ listed' = FALSE /\ Moves(Owner, "delPut")
      /\ UNCHANGED vars /\ UNCHANGED <<refs, inited, adds, gets>>
  BY DEF PlatformDeviceDel
<1>2. UNCHANGED <<eventsWord, sem, at, call>>
  BY <1>1 DEF vars, eventVars
<1>3. /\ pc \in [EventThreads -> OwnerPlaces \cup UserPlaces] /\ Owner \in EventThreads
      /\ pc' = [pc EXCEPT ![Owner] = "delPut"] /\ inited
  BY <1>1 DEF DeviceInv, LifeInv, DeviceNames, Moves
<1>4. LifeInv'
  <2>1. adds # 0
    BY <1>1 DEF DeviceInv, LifeInv
  <2>2. /\ pc' \in [EventThreads -> OwnerPlaces \cup UserPlaces]
        /\ pc'[Owner] = "delPut" /\ \A u \in Users : pc'[u] = pc[u]
    BY <1>3 DEF OwnerPlaces, Users
  <2>3. inited' \in BOOLEAN /\ listed' \in BOOLEAN /\ ~listed' /\ inited'
    BY <1>1, <1>3 DEF DeviceInv, LifeInv
  <2>4. QED
    BY <1>1, <2>1, <2>2, <2>3 DEF DeviceInv, LifeInv, OwnerPlaces
<1>5. Holders' = Holders
  BY <1>3 DEF Holders, Users
<1>6. CountInv'
  <2>1. ManagerRef = 1
    BY <1>1 DEF ManagerRef
  <2>2. ManagerRef' = 1
    BY <1>3 DEF ManagerRef
  <2>3. QED
    BY <1>1, <1>5, <2>1, <2>2 DEF DeviceInv, CountInv
<1>7. CallInv'
  BY <1>1, <1>2, <1>3 DEF DeviceInv, CallInv
<1>8. DeadInv'
  <2>1. ~Gone
    BY <1>1, GoneFacts DEF Gone
  <2>2. \A u \in EventThreads : pc'[u] = "posting" => pc[u] = "posting"
    BY <1>3
  <2>3. pc'[Owner] # "waiting"
    BY <1>3
  <2>4. QED
    BY <1>2, <2>1, <2>2, <2>3 DEF DeviceInv, DeadInv
<1>9. EventInv'
  BY <1>1, QuietEvent DEF DeviceInv
<1>10. QED
  BY <1>1, <1>3, <1>4, <1>5, <1>6, <1>7, <1>8, <1>9 DEF DeviceInv

\* PlatformDeviceDel begins to wait.
LEMMA DelWaitInv ==
    ASSUME DeviceNames, DeviceInv, DelWait(Owner)
    PROVE  DeviceInv' /\ UNCHANGED <<listed, inited>> /\ Holders' = Holders
<1>1. /\ pc[Owner] = "delWait" /\ Begins(Owner, "read", "forever") /\ Moves(Owner, "waiting")
      /\ UNCHANGED <<refs, listed, inited, adds, gets>>
  BY DEF DelWait
<1>2. /\ pc \in [EventThreads -> OwnerPlaces \cup UserPlaces] /\ Owner \in EventThreads
      /\ pc' = [pc EXCEPT ![Owner] = "waiting"] /\ at[Owner] = "idle"
      /\ DOMAIN at = EventThreads /\ DOMAIN call = EventThreads
      /\ at' = [at EXCEPT ![Owner] = "read"] /\ call' = [call EXCEPT ![Owner] = Waiting]
      /\ UNCHANGED <<eventsWord, sem>>
  BY <1>1 DEF DeviceInv, LifeInv, DeviceNames, Moves, Begins, EventInv, TypeOK, EventTypeOK,
     CallInv, Waiting
<1>3. EventInv'
  BY <1>1, <1>2, BeginsEvent DEF DeviceInv
<1>4. LifeInv'
  BY <1>1, <1>2, MoveLife DEF OwnerPlaces
<1>5. CountInv'
  BY <1>1, <1>2, MoveCount
<1>6. Holders' = Holders
  BY <1>2 DEF Holders, Users
<1>7. CallInv'
  BY <1>2 DEF DeviceInv, CallInv
<1>8. DeadInv'
  <2>1. Gone' <=> Gone
    BY <1>1 DEF Gone
  <2>2. \A u \in EventThreads : pc'[u] = "posting" => pc[u] = "posting"
    BY <1>2
  <2>3. at'[Owner] = "read"
    BY <1>2
  <2>4. QED
    BY <1>2, <2>1, <2>2, <2>3 DEF DeviceInv, DeadInv
<1>9. QED
  BY <1>1, <1>3, <1>4, <1>5, <1>6, <1>7, <1>8 DEF DeviceInv

\* PlatformDeviceDel returns: nobody has the device any more.
LEMMA DelEndInv ==
    ASSUME DeviceNames, DeviceInv, DelEnd(Owner)
    PROVE  DeviceInv' /\ inited /\ ~inited' /\ ~listed /\ ~listed'
           /\ Holders = {} /\ Holders' = {}
<1>1. /\ pc[Owner] = "waiting" /\ at[Owner] = "returned" /\ Ends(Owner) /\ waiters' = <<>>
      /\ inited' = FALSE /\ Moves(Owner, "idle")
      /\ UNCHANGED <<eventsWord, sem, chosen, calls, refs, listed, adds, gets>>
  BY DEF DelEnd
<1>2. /\ pc \in [EventThreads -> OwnerPlaces \cup UserPlaces] /\ Owner \in EventThreads
      /\ pc' = [pc EXCEPT ![Owner] = "idle"]
      /\ DOMAIN at = EventThreads /\ DOMAIN call = EventThreads
      /\ at' = [at EXCEPT ![Owner] = "idle"] /\ call' = [call EXCEPT ![Owner] = NoCall]
  BY <1>1 DEF DeviceInv, LifeInv, DeviceNames, Moves, Ends, EventInv, TypeOK, EventTypeOK
<1>3. Gone /\ inited /\ ~listed
  BY <1>1 DEF DeviceInv, DeadInv, LifeInv
<1>4. Holders = {}
  BY <1>3, GoneFacts DEF Gone
<1>5. Holders' = Holders
  BY <1>1, <1>2 DEF Holders, Users
<1>6. EventInv'
  <2>1. \A u \in EventThreads \ {Owner} : pc[u] # "waiting"
    BY DEF DeviceInv, LifeInv, Users, UserPlaces
  <2>2. \A u \in EventThreads \ {Owner} : at[u] # "wait"
    BY <2>1 DEF DeviceInv, CallInv
  <2>3. QED
    BY <1>1, <1>2, <2>2, EndsEvent DEF DeviceInv
<1>7. LifeInv'
  <2>1. adds # 0
    BY <1>3 DEF Gone
  <2>2. /\ pc' \in [EventThreads -> OwnerPlaces \cup UserPlaces]
        /\ pc'[Owner] = "idle" /\ \A u \in Users : pc'[u] = pc[u]
    BY <1>2 DEF OwnerPlaces, Users
  <2>3. ~listed' /\ listed' \in BOOLEAN /\ inited' \in BOOLEAN
    BY <1>1, <1>3 DEF DeviceInv, LifeInv
  <2>4. QED
    BY <1>1, <2>1, <2>2, <2>3 DEF DeviceInv, LifeInv, OwnerPlaces
<1>8. CountInv'
  BY <1>1, <1>2, MoveCount
<1>9. CallInv'
  BY <1>2 DEF DeviceInv, CallInv
<1>10. DeadInv'
  <2>1. Gone'
    BY <1>1, <1>3 DEF Gone
  <2>2. QED
    BY <2>1 DEF DeadInv
<1>11. ~inited' /\ ~listed'
  BY <1>1, <1>3
<1>12. QED
  BY <1>3, <1>4, <1>5, <1>6, <1>7, <1>8, <1>9, <1>10, <1>11 DEF DeviceInv

(***************************************************************************)
(* The abstract device.                                                    *)
(***************************************************************************)
Phase == IF ~inited THEN "out" ELSE IF listed THEN "in" ELSE "leaving"

\* What a step of the abstract device is.
LEMMA SharedNext ==
    Shared!Next <=>
      \/ Phase = "out" /\ Phase' = "in" /\ Holders' = Holders
      \/ Phase = "in" /\ Phase' = "leaving" /\ Holders' = Holders
      \/ Phase = "leaving" /\ Holders = {} /\ Phase' = "out" /\ Holders' = Holders
      \/ \E u \in Users :
           \/ Phase = "in" /\ u \notin Holders /\ Holders' = Holders \cup {u} /\ Phase' = Phase
           \/ u \in Holders /\ Holders' = Holders \ {u} /\ Phase' = Phase
  BY DEF Shared!Next, Shared!Add, Shared!Remove, Shared!Retire, Shared!Get, Shared!Put, Phase,
     Holders

\* Every step keeps the invariant, and is a step of the abstract device or none.
LEMMA DeviceStep ==
    ASSUME DeviceNames, DeviceInv, [DeviceNext]_deviceVars
    PROVE  DeviceInv' /\ (Shared!Next \/ UNCHANGED <<Phase, Holders>>)
<1> DEFINE Goal == DeviceInv' /\ (Shared!Next \/ UNCHANGED <<Phase, Holders>>)
<1>0. UNCHANGED <<inited, listed>> => Phase' = Phase
  BY DEF Phase
<1>1. CASE PlatformDeviceAdd(Owner)
  <2>1. Holders' = Holders
    BY <1>1, AddInv DEF Holders
  <2>2. Phase = "out" /\ Phase' \in {"out", "in"}
    BY <1>1, AddInv DEF Phase
  <2>3. QED
    BY <1>1, <2>1, <2>2, AddInv, SharedNext
<1>2. CASE PlatformDeviceDel(Owner)
  <2>1. Phase = "in" /\ Phase' = "leaving"
    BY <1>2, DelInv DEF Phase
  <2>2. QED
    BY <1>2, <2>1, DelInv, SharedNext
<1>3. CASE DelWait(Owner)
  BY <1>0, <1>3, DelWaitInv
<1>4. CASE DelEnd(Owner)
  <2>1. Phase = "leaving" /\ Phase' = "out"
    BY <1>4, DelEndInv DEF Phase
  <2>2. QED
    BY <1>4, <2>1, DelEndInv, SharedNext
<1>5. ASSUME NEW u \in Users, PlatformManagerFindDevice(u)
      PROVE  Goal
  <2>1. Phase = "in" /\ Phase' = "in"
    BY <1>5, FindInv DEF Phase
  <2>2. QED
    BY <1>5, <2>1, FindInv, SharedNext
<1>6. ASSUME NEW t \in EventThreads, EventStep(t)
      PROVE  Goal
  <2>1. UNCHANGED <<inited, listed>> /\ Holders' = Holders
    BY <1>6 DEF EventStep, devVars, Holders
  <2>2. QED
    BY <1>0, <1>6, <2>1, EventStepInv
<1>7. ASSUME NEW t \in EventThreads, HdfSRefRelease(t)
      PROVE  Goal
  <2>1. Phase' = Phase
    BY <1>0, <1>7, ReleaseInv
  <2>2. CASE t = Owner
    BY <1>7, <2>1, <2>2, ReleaseInv
  <2>3. CASE t # Owner
    <3>1. t \in Users
      BY <2>3 DEF Users
    <3>2. QED
      BY <1>7, <2>1, <2>3, <3>1, ReleaseInv, SharedNext
  <2>4. QED
    BY <2>2, <2>3
<1>8. ASSUME NEW t \in EventThreads, ReleaseRead(t) \/ OnLastPutEnd(t)
      PROVE  Goal
  BY <1>0, <1>8, ReadCountInv, PutEndInv
<1>9. CASE UNCHANGED deviceVars
  <2>1. UNCHANGED vars /\ UNCHANGED <<refs, listed, inited, pc, adds, gets>>
    BY <1>9 DEF deviceVars, devVars
  <2>2. UNCHANGED <<eventsWord, sem, at, call>>
    BY <2>1 DEF vars, eventVars
  <2>3. EventInv'
    BY <2>1, QuietEvent DEF DeviceInv
  <2>4. CountInv' /\ LifeInv'
    BY <2>1 DEF DeviceInv, CountInv, LifeInv, Holders, ManagerRef
  <2>5. CallInv' /\ DeadInv'
    BY <2>1, <2>2 DEF DeviceInv, CallInv, DeadInv, Gone
  <2>6. Holders' = Holders
    BY <2>1 DEF Holders
  <2>7. QED
    BY <1>0, <2>1, <2>3, <2>4, <2>5, <2>6 DEF DeviceInv
<1>10. QED
  BY <1>1, <1>2, <1>3, <1>4, <1>5, <1>6, <1>7, <1>8, <1>9 DEF DeviceNext

\* What the invariant says to a reader of the module.
LEMMA DeviceConsequences ==
    ASSUME DeviceNames, DeviceInv
    PROVE  DeviceTypeOK /\ DeadIsLast
<1>1. refs \in 0..(Cardinality(EventThreads) + 1)
  <2>1. ManagerRef \in {0, 1}
    BY DEF ManagerRef
  <2>2. QED
    BY <2>1, HoldersFacts DEF DeviceInv, CountInv
<1>2. DeviceTypeOK
  <2>1. pc \in [EventThreads -> {"idle", "holds", "delPut", "released", "posting", "delWait",
                                 "waiting"}]
    BY DEF DeviceInv, LifeInv, OwnerPlaces, UserPlaces
  <2>2. EventTypeOK
    BY DEF DeviceInv, EventInv, TypeOK
  <2>3. listed \in BOOLEAN /\ inited \in BOOLEAN /\ adds \in 0..MaxAdds /\ gets \in 0..MaxGets
    BY DEF DeviceInv, LifeInv
  <2>4. QED
    BY <1>1, <2>1, <2>2, <2>3 DEF DeviceTypeOK
<1>3. DeadIsLast
  <2> SUFFICES ASSUME DEAD \in eventsWord
               PROVE  refs = 0 /\ ~listed /\ \A u \in Users : pc[u] # "holds"
    BY DEF DeadIsLast
  <2>1. Gone
    BY DEF DeviceInv, DeadInv
  <2>2. refs = 0 /\ ~listed /\ Holders = {}
    BY <2>1, GoneFacts DEF Gone
  <2>3. QED
    BY <2>2 DEF Holders
<1>4. QED
  BY <1>2, <1>3

\* The count, the event and the manager's list together do what SharedDevice promises,
\* for any number of users who find and put a device that is added once: it is found
\* only while it is in the manager, and PlatformDeviceDel ends only when nobody holds
\* it.  The owner is not told that the device is dead while somebody, or the manager,
\* has a reference (PlatformDeviceDel, PlatformManagerFindDevice, PlatformDevicePut).
THEOREM ImplementsSharedThm ==
    ASSUME DeviceNames
    PROVE  DeviceSpec => Shared!Spec /\ [](DeviceTypeOK /\ DeadIsLast)
<1>1. DeviceInit => DeviceInv
  BY DeviceInitInv
<1>2. DeviceInv /\ [DeviceNext]_deviceVars
        => DeviceInv' /\ [Shared!Next]_<<Phase, Holders>>
  BY DeviceStep
<1>3. DeviceInv => DeviceTypeOK /\ DeadIsLast
  BY DeviceConsequences
<1>4. DeviceInit => Shared!Init
  BY DEF DeviceInit, Shared!Init, Users
<1>5. QED
  BY <1>1, <1>2, <1>3, <1>4, PTL DEF DeviceSpec, Shared!Spec, Shared!vars, Phase, Holders
=============================================================================
