--------------------------- MODULE PlatformEvent ---------------------------
(***************************************************************************)
(* Events of the platform framework (platform_event.c): threads post       *)
(* events, others wait for some or all of a set of them, and listeners are *)
(* called back by the poster.                                              *)
(*                                                                         *)
(* Atomicity.  What is done under pe->spin is one step.  A waiter is       *)
(* entered into the list in a second critical section, after it found no   *)
(* event; a waiter's semaphore is posted, and a listener called, after the *)
(* spinlock is released.  A waiter lives on its thread's stack: a post     *)
(* that comes after its thread has given up is lost, or, if the thread has *)
(* the same frame for its next wait, may land there (LatePostLands).       *)
(*                                                                         *)
(* Each step leaves a thread at "returned" when its call is at an end, so  *)
(* that other modules can use the calls as parts of theirs.                *)
(***************************************************************************)
EXTENDS Integers, Sequences, SequencesExt

CONSTANTS EventThreads,   \* threads that call the functions
          Events,         \* bits of eventsWord
          Listeners,      \* struct PlatformEventListener
          LatePostLands,  \* whether a post to a dead waiter reaches the next one
          MaxCalls        \* bound on the calls made

VARIABLES
    eventsWord,  \* pe->eventsWord
    waiters,     \* pe->waiters
    sem,         \* the semaphore of each thread's waiter
    at,          \* where each thread stands
    call,        \* arguments of each thread's call
    result,      \* what it returned
    chosen,      \* PlatformEventPost: the waiter it found and the masked events
    calls        \* number of calls made

eventVars == <<eventsWord, waiters, sem, at, call, result, chosen>>
vars == <<eventVars, calls>>

NoCall   == [mask |-> {}, all |-> FALSE, tms |-> "none"]
NoChoice == [who |-> "none", events |-> {}]
NoResult == [ret |-> "NONE", events |-> {}]

EventInit ==
    /\ eventsWord = {}
    /\ waiters = <<>>
    /\ sem = [t \in EventThreads |-> 0]
    /\ at = [t \in EventThreads |-> "idle"]
    /\ call = [t \in EventThreads |-> NoCall]
    /\ result = [t \in EventThreads |-> NoResult]
    /\ chosen = [t \in EventThreads |-> NoChoice]

Init == EventInit /\ calls = 0

Goes(t, p) == at' = [at EXCEPT ![t] = p]
Returns(t, ret, evs) ==
    /\ result' = [result EXCEPT ![t] = [ret |-> ret, events |-> evs]]
    /\ Goes(t, "returned")

\* The events that satisfy a mask in PLAT_EVENT_MODE_AND or without it.
Masked(word, mask, all) ==
    IF all /\ ~(mask \subseteq word) THEN {} ELSE word \cap mask

\* The waiter of a thread or a listener is in the list; it is taken out of it.
InList(w) == \E i \in DOMAIN waiters : waiters[i].who = w
ListRemove(w) ==
    \/ ~InList(w) /\ UNCHANGED waiters
    \/ \E i \in DOMAIN waiters : waiters[i].who = w /\ waiters' = RemoveAt(waiters, i)

(***************************************************************************)
(* PlatformEventWait.                                                      *)
(***************************************************************************)
PlatformEventRead(t) ==
    /\ at[t] = "read"
    /\ LET evs == Masked(eventsWord, call[t].mask, call[t].all)
       IN  /\ eventsWord' = eventsWord \ evs
           /\ \/ evs # {} /\ Returns(t, "SUCCESS", evs)
              \/ evs = {} /\ call[t].tms = "zero" /\ Returns(t, "NO_DATA", {})
              \/ /\ evs = {} /\ call[t].tms # "zero"
                 /\ Goes(t, "insert")
                 /\ UNCHANGED result
    /\ UNCHANGED <<waiters, sem, call, chosen>>

\* PlatformEventReadSlowlly.
WaiterInsert(t) ==
    /\ at[t] = "insert"
    /\ waiters' = Append(waiters, [who |-> t, mask |-> call[t].mask, all |-> call[t].all])
    /\ sem' = [sem EXCEPT ![t] = 0]
    /\ Goes(t, "wait")
    /\ UNCHANGED <<eventsWord, call, result, chosen>>

WaiterWoken(t) ==
    /\ at[t] = "wait" /\ sem[t] > 0
    /\ sem' = [sem EXCEPT ![t] = @ - 1]
    /\ Goes(t, "reread")
    /\ UNCHANGED <<eventsWord, waiters, call, result, chosen>>

WaiterRead(t) ==
    /\ at[t] = "reread"
    /\ LET evs == Masked(eventsWord, call[t].mask, call[t].all)
       IN  eventsWord' = eventsWord \ evs /\ Returns(t, "SUCCESS", evs)
    /\ UNCHANGED <<waiters, sem, call, chosen>>

WaiterTimeout(t) ==
    /\ at[t] = "wait" /\ sem[t] = 0 /\ call[t].tms = "finite"
    /\ Goes(t, "timeout")
    /\ UNCHANGED <<eventsWord, waiters, sem, call, result, chosen>>

\* The posts that are still to come to the waiter of t, which is gone.
PostsLost(t) ==
    chosen' = [p \in EventThreads |->
                 IF chosen[p].who = t /\ ~LatePostLands THEN NoChoice ELSE chosen[p]]

\* Mutant: the waiter is left in the list.
RemoveNothing(t) ==
    /\ at[t] = "timeout"
    /\ PostsLost(t)
    /\ Returns(t, "TIMEOUT", {})
    /\ UNCHANGED <<eventsWord, waiters, sem, call>>

\* The waiter may still be in the list.
WaiterRemove(t) ==
    /\ at[t] = "timeout"
    /\ ListRemove(t)
    /\ PostsLost(t)
    /\ Returns(t, "TIMEOUT", {})
    /\ UNCHANGED <<eventsWord, sem, call>>

(***************************************************************************)
(* PlatformEventPost: the first waiter in the list that the events satisfy *)
(* is taken out of it, or called back if it is a listener.  A listener is  *)
(* given its events at once, a thread reads its own.                       *)
(***************************************************************************)
PlatformEventPost(t) ==
    LET word == eventsWord \cup call[t].mask
        Found(i) == [who    |-> waiters[i].who,
                     events |-> Masked(word, waiters[i].mask, waiters[i].all)]
        sat  == {i \in DOMAIN waiters : Found(i).events # {}}
    IN  /\ at[t] = "post"
        /\ \/ /\ sat = {}
              /\ eventsWord' = word
              /\ Returns(t, "SUCCESS", {})
              /\ UNCHANGED <<waiters, chosen>>
           \/ \E i \in sat :
              /\ \A j \in sat : i <= j
              /\ IF waiters[i].who \in Listeners
                 THEN eventsWord' = word \ Found(i).events /\ UNCHANGED waiters
                 ELSE eventsWord' = word /\ waiters' = RemoveAt(waiters, i)
              /\ chosen' = [chosen EXCEPT ![t] = Found(i)]
              /\ Goes(t, "notify")
              /\ UNCHANGED result
        /\ UNCHANGED <<sem, call>>

\* The callback of a listener, with chosen[t].events, or OsalSemPost.
PostNotify(t) ==
    /\ at[t] = "notify"
    /\ sem' = [w \in EventThreads |->
                 IF w = chosen[t].who /\ at[w] = "wait" THEN sem[w] + 1 ELSE sem[w]]
    /\ chosen' = [chosen EXCEPT ![t] = NoChoice]
    /\ Returns(t, "SUCCESS", {})
    /\ UNCHANGED <<eventsWord, waiters, call>>

(***************************************************************************)
(* Listeners.                                                              *)
(***************************************************************************)
PlatformEventListen(t, l, mask) ==
    /\ at[t] = "idle" /\ calls < MaxCalls /\ ~InList(l)
    /\ waiters' = Append(waiters, [who |-> l, mask |-> mask, all |-> FALSE])
    /\ calls' = calls + 1
    /\ UNCHANGED <<eventsWord, sem, at, call, result, chosen>>

PlatformEventUnlisten(t, l) ==
    /\ at[t] = "idle" /\ calls < MaxCalls /\ InList(l)
    /\ ListRemove(l)
    /\ calls' = calls + 1
    /\ UNCHANGED <<eventsWord, sem, at, call, result, chosen>>

(***************************************************************************)
(* Calls.                                                                  *)
(***************************************************************************)
Calls(t, p, mask, all, tms) ==
    /\ at[t] = "idle" /\ calls < MaxCalls
    /\ call' = [call EXCEPT ![t] = [mask |-> mask, all |-> all, tms |-> tms]]
    /\ Goes(t, p)
    /\ calls' = calls + 1
    /\ UNCHANGED <<eventsWord, waiters, sem, result, chosen>>

PlatformEventWait(t) ==
    \E mask \in SUBSET Events \ {{}}, all \in BOOLEAN, tms \in {"zero", "finite"} :
        Calls(t, "read", mask, all, tms)
CallPost(t) == \E mask \in SUBSET Events \ {{}} : Calls(t, "post", mask, FALSE, "none")

Return(t) ==
    /\ at[t] = "returned"
    /\ Goes(t, "idle")
    /\ call' = [call EXCEPT ![t] = NoCall]
    /\ result' = [result EXCEPT ![t] = NoResult]
    /\ UNCHANGED <<eventsWord, waiters, sem, chosen, calls>>

Next ==
    \E t \in EventThreads :
        \/ PlatformEventRead(t) /\ UNCHANGED calls
        \/ WaiterInsert(t) /\ UNCHANGED calls
        \/ WaiterWoken(t) /\ UNCHANGED calls
        \/ WaiterRead(t) /\ UNCHANGED calls
        \/ WaiterTimeout(t) /\ UNCHANGED calls
        \/ WaiterRemove(t) /\ UNCHANGED calls
        \/ PlatformEventPost(t) /\ UNCHANGED calls
        \/ PostNotify(t) /\ UNCHANGED calls
        \/ PlatformEventWait(t) \/ CallPost(t) \/ Return(t)
        \/ \E l \in Listeners :
             \/ \E mask \in SUBSET Events \ {{}} : PlatformEventListen(t, l, mask)
             \/ PlatformEventUnlisten(t, l)

Spec == Init /\ [][Next]_vars

(***************************************************************************)
(* Properties.                                                             *)
(***************************************************************************)
Places == {"idle", "read", "insert", "wait", "reread", "timeout", "post", "notify",
           "returned"}

\* Type invariant.
EventTypeOK ==
    /\ eventsWord \subseteq Events
    /\ at \in [EventThreads -> Places]
    /\ waiters \in Seq([who : EventThreads \cup Listeners, mask : SUBSET Events, all : BOOLEAN])
    /\ sem \in [EventThreads -> Nat]
    /\ call \in [EventThreads -> [mask : SUBSET Events, all : BOOLEAN,
                                  tms : {"none", "zero", "finite", "forever"}]]
    /\ result \in [EventThreads -> [ret : {"NONE", "SUCCESS", "NO_DATA", "TIMEOUT"},
                                    events : SUBSET Events]]
    /\ chosen \in [EventThreads -> [who : EventThreads \cup Listeners \cup {"none"},
                                    events : SUBSET Events]]
TypeOK == EventTypeOK /\ calls \in 0..MaxCalls

\* No call returns while the waiter on its stack is in the list, whether it was
\* woken or gave up while a poster was about to wake it.
NoDanglingWaiter ==
    \A i \in DOMAIN waiters :
        waiters[i].who \in Listeners \/ at[waiters[i].who] \in {"wait", "timeout"}

\* A thread that waits and is no longer in the list has been woken, or the poster
\* that took it out is about to: no wait ends with its waiter forgotten.
TakenIsWoken ==
    \A t \in EventThreads :
        at[t] = "wait" =>
            \/ InList(t)
            \/ sem[t] > 0
            \/ \E p \in EventThreads : at[p] = "notify" /\ chosen[p].who = t

\* A wait that returns events returns only ones it asked for, and all of them in
\* PLAT_EVENT_MODE_AND.  It may succeed with none, if another thread took them
\* between its wake-up and its reading (platform_event.c 134-155, 174-176).
GivenAsAsked ==
    \A t \in EventThreads :
        at[t] = "returned" /\ result[t].ret = "SUCCESS" /\ result[t].events # {} =>
            /\ result[t].events \subseteq call[t].mask
            /\ call[t].all => result[t].events = call[t].mask

\* What platform_event.c promises its callers: all of the above.
EventsDelivered == TypeOK /\ NoDanglingWaiter /\ TakenIsWoken /\ GivenAsAsked

=============================================================================
