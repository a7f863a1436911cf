-------------------------- MODULE HdfSyscallAdapter --------------------------
(***************************************************************************)
(* The user side of the device-event channel for one service               *)
(* (hdf_syscall_adapter.c): the listeners of a HdfSyscallAdapter, the      *)
(* HdfDevListenerThread that polls its file and calls them back, and the   *)
(* start and destruction of that thread.  Groups of services are left out. *)
(*                                                                         *)
(* Atomicity.  A registration holds adapter->mutex from its start to its   *)
(* end, and so does an unregistration; the thread holds thread->mutex from *)
(* the reading of an event to the end of the callbacks, and takes          *)
(* adapter->mutex for them.  status, shouldStop and the poll descriptors   *)
(* are read and written by both sides without a lock, one step for each.   *)
(* A thread structure is allocated anew when the adapter has none; the     *)
(* structures are numbered.                                                *)
(*                                                                         *)
(* Each application thread has one listener of its own.                    *)
(***************************************************************************)
EXTENDS Integers, Sequences

CONSTANTS Apps,         \* application threads, and the listener of each
          MaxFailures,  \* bound on the ioctls, thread starts and allocations that fail
          MaxThreads,   \* bound on the thread structures allocated
          MaxEvents     \* bound on the events the device sends

Threads == 1..MaxThreads
NoOne   == 0            \* nobody holds a mutex, no thread is bound

VARIABLES
    client,      \* the vnode client of the file: its status and event queue
    sent,        \* number of events sent
    open,        \* the adapter exists and its file is open
    listenerList,\* adapter->listenerList
    mutex,       \* holder of adapter->mutex
    bound,       \* adapter->thread
    th,          \* HdfDevListenerThread structures
    task,        \* where the task of each structure stands
    app,         \* where the call of each application thread stands
    misused,     \* freed memory was used
    hasty,       \* history: a thread was destroyed before it ran
    failures,    \* number of failures so far
    lost,        \* history: something failed since the last successful registration
    heard        \* history: last event each listener was called with

appVars  == <<app, failures, lost, hasty>>
vars == <<client, sent, open, listenerList, mutex, bound, th, task, app,
          misused, hasty, failures, lost, heard>>

Status == {"UNINITED", "INITED", "EXITED", "STARTED", "RUNNING"}

Blank == [status |-> "UNINITED", shouldStop |-> FALSE, pollChanged |-> FALSE,
          adapter |-> FALSE, pfd |-> FALSE, mutex |-> FALSE, freed |-> FALSE]

\* A task: where it stands, whether it polls the file, the event it has read,
\* the listeners it is calling, and the number of tasks of the structure that
\* have set EXITED and not yet looked at shouldStop.
NoTask == [at |-> "none", polls |-> FALSE, event |-> 0, calling |-> {}, tails |-> 0]

Init ==
    /\ client = [status |-> "RUNNING", queue |-> <<>>]
    /\ sent = 0
    /\ open = TRUE
    /\ listenerList = {}
    /\ mutex = NoOne
    /\ bound = NoOne
    /\ th = [t \in Threads |-> Blank]
    /\ task = [t \in Threads |-> NoTask]
    /\ app = [a \in Apps |-> "idle"]
    /\ misused = FALSE
    /\ hasty = FALSE
    /\ failures = 0
    /\ lost = FALSE
    /\ heard = [a \in Apps |-> 0]

Fault   == failures < MaxFailures /\ failures' = failures + 1
NoFault == UNCHANGED failures

Moves(a, p)  == app' = [app EXCEPT ![a] = p]
Goes(t, p)   == task' = [task EXCEPT ![t].at = p]

\* HDF_LISTEN_EVENT_START.
Listening == [client EXCEPT !.status = "LISTENING"]

\* HDF_LISTEN_EVENT_EXIT, which clears the queue.
Exited    == [status |-> "EXITED", queue |-> <<>>]

(***************************************************************************)
(* HdfDeviceRegisterEventListener.                                         *)
(***************************************************************************)
\* HdfDevListenerThreadObtain of a structure never used before.
Fresh == CHOOSE t \in Threads : th[t].status = "UNINITED"
MayObtain == \E t \in Threads : th[t].status = "UNINITED"

Initialised(thread) == [thread EXCEPT !.status = "INITED", !.pollChanged = TRUE, !.adapter = TRUE]

\* AddListenerToAdapterLocked and HdfIoServiceThreadBindLocked: a thread is
\* allocated, or one whose initialisation failed before is initialised, or the one
\* that exited by itself is prepared to start again.
HdfDeviceRegisterEventListener(a) ==
    /\ open /\ app[a] = "idle" /\ a \notin listenerList /\ mutex = NoOne
    /\ listenerList' = listenerList \cup {a}
    /\ mutex' = a
    /\ Moves(a, "start")
    /\ \/ /\ bound = NoOne /\ MayObtain
          /\ th' = [th EXCEPT ![Fresh] = Initialised(Blank)]
          /\ bound' = Fresh
       \/ /\ bound # NoOne /\ th[bound].status = "UNINITED"
          /\ th' = [th EXCEPT ![bound] = Initialised(@)]
          /\ UNCHANGED bound
       \/ /\ bound # NoOne /\ th[bound].status = "EXITED"
          /\ th' = [th EXCEPT ![bound].status = "INITED", ![bound].shouldStop = FALSE,
                              ![bound].adapter = TRUE]
          /\ UNCHANGED bound
       \/ /\ bound # NoOne /\ th[bound].status \notin {"UNINITED", "EXITED"}
          /\ th' = [th EXCEPT ![bound].adapter = TRUE]
          /\ UNCHANGED bound
    /\ UNCHANGED <<client, sent, open, task, misused, hasty, failures, lost, heard>>

\* The registration fails: the listener is taken out again.
Fails(a) ==
    /\ listenerList' = listenerList \ {a}
    /\ lost' = TRUE

\* HdfIoServiceThreadBindLocked fails: there is no memory for a thread, or its mutex
\* or task cannot be made, and the adapter keeps it for the next registration.  The
\* listener is put in and taken out under the mutex.
HdfIoServiceThreadBindFails(a) ==
    /\ open /\ app[a] = "idle" /\ a \notin listenerList /\ mutex = NoOne
    /\ bound # NoOne => th[bound].status = "UNINITED"
    /\ bound' \in {bound} \cup {t \in Threads : bound = NoOne /\ MayObtain /\ t = Fresh}
    /\ th' = IF bound' = NoOne THEN th ELSE [th EXCEPT ![bound'].adapter = TRUE]
    /\ Fault /\ Fails(a)
    /\ UNCHANGED <<client, sent, open, mutex, task, app, misused, hasty, heard>>

\* HdfDevListenerThreadStart.  A failed OsalThreadStart leaves STARTED behind.
HdfDevListenerThreadStart(a) ==
    /\ app[a] = "start"
    /\ \/ /\ th[bound].status \in {"STARTED", "RUNNING"}
          /\ lost' = FALSE
          /\ NoFault
          /\ UNCHANGED <<client, th, task, listenerList>>
       \/ /\ th[bound].status = "EXITED"
          /\ NoFault
          /\ Fails(a)
          /\ UNCHANGED <<client, th, task>>
       \/ /\ th[bound].status = "INITED" /\ Fault
          /\ th' = [th EXCEPT ![bound].pfd = TRUE]
          /\ Fails(a)
          /\ UNCHANGED <<client, task>>
       \/ /\ th[bound].status = "INITED" /\ Fault
          /\ client' = Listening
          /\ th' = [th EXCEPT ![bound].pfd = TRUE, ![bound].status = "STARTED"]
          /\ Fails(a)
          /\ UNCHANGED task
       \/ /\ th[bound].status = "INITED"
          /\ client' = Listening
          /\ th' = [th EXCEPT ![bound].pfd = TRUE, ![bound].status = "STARTED"]
          /\ task' = [task EXCEPT ![bound].at = "new"]
          /\ lost' = FALSE
          /\ NoFault
          /\ UNCHANGED listenerList
    /\ mutex' = NoOne
    /\ Moves(a, "idle")
    /\ UNCHANGED <<sent, open, bound, misused, hasty, heard>>

(***************************************************************************)
(* HdfDeviceUnregisterEventListener and HdfIoServiceAdapterRecycle.        *)
(***************************************************************************)
\* Mutant: adapter->mutex is not taken.
UnregisterUnlocked(a) ==
    /\ open /\ app[a] = "idle" /\ a \in listenerList
    /\ listenerList' = listenerList \ {a}
    /\ IF listenerList = {a}
       THEN Moves(a, "destroy") /\ mutex' = a
       ELSE UNCHANGED <<app, mutex>>
    /\ UNCHANGED <<client, sent, open, bound, th, task, misused, hasty, failures, lost, heard>>

\* The listener is unlinked; the last one destroys the thread, under the mutex.
HdfDeviceUnregisterEventListener(a) ==
    /\ open /\ app[a] = "idle" /\ a \in listenerList /\ mutex = NoOne
    /\ listenerList' = listenerList \ {a}
    /\ IF listenerList = {a}
       THEN Moves(a, "destroy") /\ mutex' = a
       ELSE UNCHANGED <<app, mutex>>
    /\ UNCHANGED <<client, sent, open, bound, th, task, misused, hasty, failures, lost, heard>>

\* No mutex is taken: the application has no other call in progress.
HdfIoServiceAdapterRecycle(a) ==
    /\ open /\ \A b \in Apps : app[b] = "idle"
    /\ open' = FALSE
    /\ Moves(a, "destroy")
    /\ UNCHANGED <<client, sent, listenerList, mutex, bound, th, task, misused,
                   hasty, failures, lost, heard>>

\* HdfDevListenerThreadDestroy: the status decides once.
HdfDevListenerThreadDestroy(a) ==
    /\ app[a] = "destroy"
    /\ \/ /\ bound = NoOne
          /\ Moves(a, "done")
          /\ UNCHANGED <<th, hasty>>
       \/ /\ bound # NoOne /\ th[bound].status = "UNINITED"
          /\ Moves(a, "done")
          /\ UNCHANGED <<th, hasty>>
       \/ /\ bound # NoOne /\ th[bound].status = "RUNNING"
          /\ Moves(a, "clear")
          /\ UNCHANGED <<th, hasty>>
       \/ /\ bound # NoOne /\ th[bound].status = "STARTED"
          /\ Moves(a, "stop")
          /\ hasty' = TRUE
          /\ UNCHANGED th
       \/ /\ bound # NoOne /\ th[bound].status \in {"EXITED", "INITED"}
          /\ th' = [th EXCEPT ![bound].freed = TRUE]
          /\ Moves(a, "done")
          /\ UNCHANGED hasty
    /\ UNCHANGED <<client, sent, open, listenerList, mutex, bound, task, misused,
                   failures, lost, heard>>

\* thread->adapter is cleared under thread->mutex ...
DestroyClear(a) ==
    /\ app[a] = "clear" /\ ~th[bound].mutex
    /\ th' = [th EXCEPT ![bound].adapter = FALSE]
    /\ Moves(a, "exit")
    /\ UNCHANGED <<client, sent, open, listenerList, mutex, bound, task, misused,
                   hasty, failures, lost, heard>>

\* ... the file is told to exit; if that fails the thread is left to itself ...
DestroyExitIoctl(a) ==
    /\ app[a] = "exit"
    /\ th' = [th EXCEPT ![bound].pfd = FALSE]
    /\ \/ /\ th[bound].pfd /\ NoFault
          /\ client' = Exited
          /\ Moves(a, "wait")
       \/ /\ IF th[bound].pfd THEN Fault ELSE NoFault
          /\ Moves(a, "stop")
          /\ UNCHANGED client
    /\ UNCHANGED <<sent, open, listenerList, mutex, bound, task, misused, hasty,
                   lost, heard>>

\* ... and waited for, for TIMEOUT_US.
DestroyWait(a) ==
    /\ app[a] = "wait"
    /\ \/ /\ th[bound].status = "EXITED"
          /\ th' = [th EXCEPT ![bound].freed = TRUE]
          /\ Moves(a, "done")
       \/ /\ th[bound].status # "EXITED"
          /\ Moves(a, "stop")
          /\ UNCHANGED th
    /\ UNCHANGED <<client, sent, open, listenerList, mutex, bound, task, misused,
                   hasty, failures, lost, heard>>

DestroyStop(a) ==
    /\ app[a] = "stop"
    /\ th' = [th EXCEPT ![bound].shouldStop = TRUE]
    /\ Moves(a, "done")
    /\ UNCHANGED <<client, sent, open, listenerList, mutex, bound, task, misused,
                   hasty, failures, lost, heard>>

\* The caller forgets the thread; Recycle closes the file and frees the adapter.
DestroyDone(a) ==
    /\ app[a] = "done"
    /\ bound' = NoOne
    /\ mutex' = IF mutex = a THEN NoOne ELSE mutex
    /\ Moves(a, IF open THEN "idle" ELSE "closed")
    /\ UNCHANGED <<client, sent, open, listenerList, th, task, misused, hasty, failures, lost, heard>>

(***************************************************************************)
(* HdfDevEventListenTask.                                                  *)
(***************************************************************************)
Freed == \E a \in Apps : app[a] = "closed"     \* the adapter is freed

ListenTask(t) ==
    /\ task[t].at = "new"
    /\ th' = [th EXCEPT ![t].status = "RUNNING"]
    /\ task' = [task EXCEPT ![t].at = "loop", ![t].polls = FALSE]
    /\ UNCHANGED <<client, sent, open, listenerList, mutex, bound, appVars, misused, heard>>

\* while (!shouldStop), and AssignPfds, for which there may be no memory.
ListenLoop(t) ==
    /\ task[t].at = "loop"
    /\ \/ /\ th[t].shouldStop
          /\ Goes(t, "exit")
          /\ UNCHANGED <<th, failures, lost>>
       \/ /\ ~th[t].shouldStop /\ th[t].pollChanged /\ ~th[t].mutex
          /\ th' = [th EXCEPT ![t].pollChanged = FALSE]
          /\ task' = [task EXCEPT ![t].polls = th[t].pfd,
                                  ![t].at = IF th[t].pfd THEN "poll" ELSE "exit"]
          /\ UNCHANGED <<failures, lost>>
       \/ /\ ~th[t].shouldStop /\ th[t].pollChanged /\ Fault
          /\ lost' = TRUE
          /\ Goes(t, "exit")
          /\ UNCHANGED th
       \/ /\ ~th[t].shouldStop /\ ~th[t].pollChanged
          /\ Goes(t, IF task[t].polls THEN "poll" ELSE "exit")
          /\ UNCHANGED <<th, failures, lost>>
    /\ UNCHANGED <<client, sent, open, listenerList, mutex, bound, app, hasty, misused, heard>>

\* poll returns: the client exited, an event is queued, or the file is closed.
ListenPoll(t) ==
    /\ task[t].at = "poll"
    /\ \/ client.status = "EXITED" /\ Goes(t, "exit")
       \/ client.status # "EXITED" /\ client.queue # <<>> /\ Goes(t, "read")
       \/ Freed /\ Goes(t, "loop")
    /\ UNCHANGED <<client, sent, open, listenerList, mutex, bound, th, appVars, misused, heard>>

\* HdfDevEventReadAndDispatch up to the callbacks, under thread->mutex.  The
\* adapter is looked at to compare its descriptor, freed or not.
HdfDevEventReadAndDispatch(t) ==
    /\ task[t].at = "read" /\ ~th[t].mutex
    /\ \/ /\ ~th[t].adapter
          /\ Goes(t, "loop")
          /\ UNCHANGED <<client, th, misused, failures, lost>>
       \/ /\ th[t].adapter /\ Freed
          /\ misused' = TRUE
          /\ Goes(t, "exit")
          /\ UNCHANGED <<client, th, failures, lost>>
       \/ /\ th[t].adapter /\ ~Freed /\ client.queue = <<>>
          /\ Goes(t, "loop")
          /\ UNCHANGED <<client, th, misused, failures, lost>>
       \/ /\ th[t].adapter /\ ~Freed /\ client.queue # <<>>
          /\ client' = [client EXCEPT !.queue = Tail(@)]
          /\ th' = [th EXCEPT ![t].mutex = TRUE]
          /\ task' = [task EXCEPT ![t].at = "dispatch", ![t].event = Head(client.queue)]
          /\ UNCHANGED <<misused, failures, lost>>
       \/ /\ Fault
          /\ lost' = TRUE
          /\ Goes(t, "exit")
          /\ UNCHANGED <<client, th, misused>>
    /\ UNCHANGED <<sent, open, listenerList, mutex, bound, app, hasty, heard>>

\* HdfDevEventDispatchLocked takes adapter->mutex ...
HdfDevEventDispatchLocked(t) ==
    /\ task[t].at = "dispatch"
    /\ \/ /\ ~Freed /\ mutex = NoOne
          /\ mutex' = t
          /\ task' = [task EXCEPT ![t].at = "callback", ![t].calling = listenerList]
          /\ UNCHANGED <<th, misused>>
       \/ /\ Freed
          /\ misused' = TRUE
          /\ th' = [th EXCEPT ![t].mutex = FALSE]
          /\ Goes(t, "exit")
          /\ UNCHANGED mutex
    /\ UNCHANGED <<client, sent, open, listenerList, bound, appVars, heard>>

\* ... calls the listeners and gives both mutexes back.
DispatchCallbacks(t) ==
    /\ task[t].at = "callback"
    /\ heard' = [a \in Apps |-> IF a \in task[t].calling THEN task[t].event ELSE heard[a]]
    /\ mutex' = NoOne
    /\ th' = [th EXCEPT ![t].mutex = FALSE]
    /\ task' = [task EXCEPT ![t].at = "loop", ![t].calling = {}]
    /\ UNCHANGED <<client, sent, open, listenerList, bound, appVars, misused>>

\* A structure started again may have two tasks; the bound is that the old one
\* has looked at shouldStop before the new one exits.
ListenExit(t) ==
    /\ task[t].at = "exit" /\ task[t].tails = 0
    /\ th' = [th EXCEPT ![t].status = "EXITED"]
    /\ task' = [task EXCEPT ![t].at = "none", ![t].tails = @ + 1]
    /\ UNCHANGED <<client, sent, open, listenerList, mutex, bound, appVars, misused, heard>>

\* if (thread->shouldStop), after the status was set: the structure may be gone.
ListenFree(t) ==
    /\ task[t].tails > 0
    /\ task' = [task EXCEPT ![t].tails = @ - 1]
    /\ \/ /\ th[t].freed
          /\ misused' = TRUE
          /\ UNCHANGED th
       \/ /\ ~th[t].freed
          /\ th' = [th EXCEPT ![t].freed = th[t].shouldStop]
          /\ UNCHANGED misused
    /\ UNCHANGED <<client, sent, open, listenerList, mutex, bound, appVars, heard>>

\* VNodeAdapterSendDevEventToClient; a poll in progress keeps a closed file.
VNodeAdapterSendDevEventToClient ==
    /\ client.status = "LISTENING" /\ sent < MaxEvents
    /\ open \/ \E t \in Threads : task[t].at = "poll"
    /\ sent' = sent + 1
    /\ client' = [client EXCEPT !.queue = Append(@, sent + 1)]
    /\ UNCHANGED <<open, listenerList, mutex, bound, th, task, appVars, misused, heard>>

\* The rest of a call that an application has made.
Returning(a) ==
    \/ HdfDevListenerThreadStart(a)
    \/ HdfDevListenerThreadDestroy(a) \/ DestroyClear(a) \/ DestroyExitIoctl(a)
    \/ DestroyWait(a) \/ DestroyStop(a) \/ DestroyDone(a)

AppStep(a) ==
    \/ HdfDeviceRegisterEventListener(a) \/ HdfIoServiceThreadBindFails(a)
    \/ HdfDeviceUnregisterEventListener(a)
    \/ HdfIoServiceAdapterRecycle(a)
    \/ Returning(a)

TaskStep(t) ==
    \/ ListenTask(t) \/ ListenLoop(t) \/ ListenPoll(t) \/ HdfDevEventReadAndDispatch(t)
    \/ HdfDevEventDispatchLocked(t) \/ DispatchCallbacks(t) \/ ListenExit(t) \/ ListenFree(t)

Next ==
    \/ \E a \in Apps : AppStep(a)
    \/ \E t \in Threads : TaskStep(t)
    \/ VNodeAdapterSendDevEventToClient

\* A call that was made and a task that was started run on when they can.
Spec ==
    /\ Init /\ [][Next]_vars
    /\ \A a \in Apps : WF_vars(Returning(a))
    /\ \A t \in Threads : WF_vars(TaskStep(t))

(***************************************************************************)
(* Properties.                                                             *)
(***************************************************************************)
\* Type invariant of the adapter, its threads and its file.
TypeOK ==
    /\ client \in [status : {"RUNNING", "LISTENING", "EXITED"}, queue : Seq(1..MaxEvents)]
    /\ sent \in 0..MaxEvents
    /\ listenerList \subseteq Apps
    /\ mutex \in Apps \cup Threads \cup {NoOne}
    /\ bound \in Threads \cup {NoOne}
    /\ \A t \in Threads : th[t].status \in Status /\ task[t].calling \subseteq Apps
    /\ heard \in [Apps -> 0..MaxEvents]

\* A successful registration lasts: while listeners are registered and nothing
\* has failed, the adapter has a thread whose task polls the file or is about
\* to, and the file takes events (HdfDevListenerThreadStart after a destruction
\* that timed out, or after a thread that exited by itself).
RegistrationServes ==
    (open /\ listenerList # {} /\ mutex = NoOne /\ ~lost)
        => /\ bound # NoOne /\ ~th[bound].freed /\ ~th[bound].shouldStop
           /\ task[bound].at \notin {"none", "exit"}
           /\ client.status = "LISTENING"

\* No listener is called back after its unregistration: a listener that is
\* being called is still in the list (HdfDevEventDispatchLocked holds
\* adapter->mutex over the callbacks).
NoCallbackAfterUnregister ==
    \A t \in Threads : task[t].calling \subseteq listenerList

\* A listener that is about to be called with an event has not been called with a
\* later one, even when an old thread and a new one read the same file
\* (HdfDevListenerThreadDestroy clears thread->adapter), unless a thread was
\* destroyed between its start and its first step: it is only told to stop
\* (LISTENER_STARTED) and keeps its adapter, and if it tested shouldStop before, it
\* reads an event beside its successor and may call a listener late.
HeardInOrder ==
    hasty \/ \A t \in Threads : task[t].at = "callback" =>
               \A a \in task[t].calling : heard[a] <= task[t].event

=============================================================================
