---------------------------- MODULE Regulator ----------------------------
(***************************************************************************)
(* Regulators of the platform framework (regulator_core.c,                 *)
(* regulator_tree_mgr.c).  Regulators form trees: a regulator is enabled   *)
(* after its parent and disabled after its children, and a forced disable  *)
(* takes its children with it.                                             *)
(*                                                                         *)
(* Atomicity.  Every regulator has a mutex.  RegulatorNodeEnable and       *)
(* RegulatorNodeDisable call themselves for the parent while they hold it, *)
(* RegulatorNodeForceDisable takes those of the regulators below, one at a *)
(* time, while it holds its own.  The status is looked at before the mutex *)
(* is taken, and the children's without theirs.  A step is what a thread   *)
(* does between two of these points.                                       *)
(*                                                                         *)
(* A thread has a stack of calls.  Regulators are added by one thread at a *)
(* time, as drivers are loaded, and there is memory for what the tree      *)
(* keeps about them: the addition that finds none is not modelled (it      *)
(* returns with the mutex of the tree manager held, regulator_tree_mgr.c   *)
(* 222-236, or with a half-known tree, regulator_core.c 149-152).  The two *)
(* managers' mutexes guard single searches and insertions otherwise.       *)
(* Voltages and currents are left out.                                     *)
(***************************************************************************)
EXTENDS Integers, Sequences

CONSTANTS Nodes,        \* regulators
          Parent,         \* parentName of each, None for a root
          None,
          AlwaysOn,     \* those with constraints.alwaysOn
          Threads,
          Ops,          \* subset of {"enable", "disable", "force"} that is called
          ParentFirst,  \* whether a parent is added before its children
          MaxCalls,     \* bound on the calls made
          MaxFails      \* bound on the failures of drivers

VARIABLES
    added,    \* regulatorHead
    linked,   \* regulators whose parent the tree manager knows
    status,   \* regulatorInfo.status
    lock,     \* who holds the mutex of each regulator
    stack,    \* calls each thread is in, the innermost last
    result,   \* the last call of each thread, and what it returned
    calls,    \* number of calls made
    fails     \* number of failures of drivers

vars == <<added, linked, status, lock, stack, result, calls, fails>>

NoCall == [op |-> "none", node |-> None, ret |-> "none"]

Init ==
    /\ added = {} /\ linked = {}
    /\ status = [n \in Nodes |-> "off"]
    /\ lock = [n \in Nodes |-> None]
    /\ stack = [t \in Threads |-> <<>>]
    /\ result = [t \in Threads |-> NoCall]
    /\ calls = 0 /\ fails = 0

(***************************************************************************)
(* The tree.                                                               *)
(***************************************************************************)
Children(n) == {c \in linked : Parent[c] = n}

\* Regulators on the way up from a regulator, as far as the tree is known.
Above == LET up[n \in Nodes] == IF n \in linked THEN {Parent[n]} \cup up[Parent[n]] ELSE {}
         IN  up
Below(n) == {m \in Nodes : n \in Above[m]}

RegulatorTreeGetParent(n) == IF n \in linked THEN Parent[n] ELSE None

\* RegulatorTreeIsUpNodeComplete, which is false for a root.
UpNodeComplete(n) ==
    /\ n \in linked
    /\ \A m \in Above[n] : Parent[m] # None => m \in linked

(***************************************************************************)
(* Calls.                                                                  *)
(***************************************************************************)
Top(t) == stack[t][Len(stack[t])]
Stands(t, op, pc) == stack[t] # <<>> /\ Top(t).op = op /\ Top(t).pc = pc
Frame(op, n) == [op |-> op, node |-> n, pc |-> "check", todo |-> {}]

Stays(t, pc, todo) ==
    stack' = [stack EXCEPT ![t][Len(stack[t])] = [@ EXCEPT !.pc = pc, !.todo = todo]]
Moves(t, pc) == Stays(t, pc, Top(t).todo)
CallsParent(t, op, pc, p) ==
    stack' = [stack EXCEPT ![t] = Append([@ EXCEPT ![Len(@)].pc = pc], Frame(op, p))]
Returns(t, ret) ==
    /\ stack' = [stack EXCEPT ![t] = SubSeq(@, 1, Len(@) - 1)]
    /\ result' = [result EXCEPT ![t] = [op |-> Top(t).op, node |-> Top(t).node, ret |-> ret]]

Locks(t) == lock[Top(t).node] = None /\ lock' = [lock EXCEPT ![Top(t).node] = t]
Unlocks(t) == lock' = [lock EXCEPT ![Top(t).node] = None]

\* A driver's operation, which sets the status unless it fails.
Driver(n, st) == status' = [status EXCEPT ![n] = st] /\ UNCHANGED fails
DriverFails == fails < MaxFails /\ fails' = fails + 1 /\ UNCHANGED status

(***************************************************************************)
(* RegulatorNodeAdd, with RegulatorNodeInitProcess.                        *)
(***************************************************************************)
\* RegulatorNodeSetParent and RegulatorNodeSetChild: the regulators whose parent
\* becomes known with n, if there is memory for the tree's nodes.
SetParentAndChild(n, all) ==
    {c \in all : Parent[c] \in all /\ n \in {c, Parent[c]}}

RegulatorNodeAdd(t, n) ==
    /\ stack[t] = <<>> /\ n \notin added
    /\ \A u \in Threads : stack[u] # <<>> => stack[u][1].op # "init"
    /\ ParentFirst /\ Parent[n] # None => Parent[n] \in added
    /\ added' = added \cup {n}
    /\ linked' = linked \cup SetParentAndChild(n, added')
    /\ stack' = [stack EXCEPT ![t] = <<Frame("init", n)>>]
    /\ result' = [result EXCEPT ![t] = NoCall]
    /\ UNCHANGED <<status, lock, calls, fails>>

Wanted(n) == n \in AlwaysOn \/ \E c \in Children(n) : c \in AlwaysOn \/ status[c] = "on"

\* RegulatorNodeInitEnable.
InitCheck(t) ==
    LET n == Top(t).node
    IN  /\ Stands(t, "init", "check")
        /\ \/ /\ status[n] = "on" \/ ~Wanted(n)
              /\ Returns(t, "SUCCESS")
           \/ /\ status[n] = "off" /\ Wanted(n)
              /\ IF UpNodeComplete(n)
                 THEN CallsParent(t, "enable", "done", n)
                 ELSE Moves(t, "act")
              /\ UNCHANGED result
        /\ UNCHANGED <<added, linked, status, lock, calls, fails>>

InitEnable(t) ==
    /\ Stands(t, "init", "act") /\ lock[Top(t).node] = None
    /\ Driver(Top(t).node, "on") \/ DriverFails
    /\ Returns(t, "SUCCESS")
    /\ UNCHANGED <<added, linked, lock, calls>>

InitEnd(t) ==
    /\ Stands(t, "init", "done")
    /\ Returns(t, "SUCCESS")
    /\ UNCHANGED <<added, linked, status, lock, calls, fails>>

(***************************************************************************)
(* RegulatorNodeEnable.                                                    *)
(***************************************************************************)
EnableCheck(t) ==
    /\ Stands(t, "enable", "check")
    /\ \/ status[Top(t).node] = "on" /\ Returns(t, "SUCCESS")
       \/ status[Top(t).node] = "off" /\ Moves(t, "lock") /\ UNCHANGED result
    /\ UNCHANGED <<added, linked, status, lock, calls, fails>>

EnableLock(t) ==
    LET n == Top(t).node
        p == RegulatorTreeGetParent(n)
    IN  /\ Stands(t, "enable", "lock")
        /\ \/ Parent[n] = None /\ Locks(t) /\ Moves(t, "act") /\ UNCHANGED result
           \/ /\ Parent[n] # None /\ p # None /\ Locks(t)
              /\ CallsParent(t, "enable", "parent", p)
              /\ UNCHANGED result
           \/ /\ Parent[n] # None /\ p = None /\ lock[n] = None
              /\ Returns(t, "FAILURE") /\ UNCHANGED lock
        /\ UNCHANGED <<added, linked, status, calls, fails>>

EnableParent(t) ==
    /\ Stands(t, "enable", "parent")
    /\ \/ result[t].ret = "SUCCESS" /\ Moves(t, "act") /\ UNCHANGED <<lock, result>>
       \/ result[t].ret = "FAILURE" /\ Unlocks(t) /\ Returns(t, "FAILURE")
    /\ UNCHANGED <<added, linked, status, calls, fails>>

EnableAct(t) ==
    /\ Stands(t, "enable", "act")
    /\ \/ Driver(Top(t).node, "on") /\ Returns(t, "SUCCESS")
       \/ DriverFails /\ Returns(t, "FAILURE")
    /\ Unlocks(t)
    /\ UNCHANGED <<added, linked, calls>>

(***************************************************************************)
(* RegulatorNodeDisable.                                                   *)
(***************************************************************************)
DisableCheck(t) ==
    /\ Stands(t, "disable", "check")
    /\ \/ /\ status[Top(t).node] = "off" \/ Top(t).node \in AlwaysOn
          /\ Returns(t, "SUCCESS")
       \/ /\ status[Top(t).node] = "on" /\ Top(t).node \notin AlwaysOn
          /\ Moves(t, "lock") /\ UNCHANGED result
    /\ UNCHANGED <<added, linked, status, lock, calls, fails>>

DisableLock(t) ==
    /\ Stands(t, "disable", "lock")
    /\ Locks(t) /\ Moves(t, "children")
    /\ UNCHANGED <<added, linked, status, result, calls, fails>>

\* Mutant: the children are not looked at.
DisableUnder(t) ==
    /\ Stands(t, "disable", "children")
    /\ Moves(t, "act")
    /\ UNCHANGED <<added, linked, status, lock, result, calls, fails>>

DisableChildren(t) ==
    /\ Stands(t, "disable", "children")
    /\ \/ /\ \A c \in Children(Top(t).node) : status[c] = "off"
          /\ Moves(t, "act") /\ UNCHANGED <<lock, result>>
       \/ /\ \E c \in Children(Top(t).node) : status[c] = "on"
          /\ Unlocks(t) /\ Returns(t, "FAILURE")
    /\ UNCHANGED <<added, linked, status, calls, fails>>

\* The end of both disables: the parent is disabled too, if it can be.
ThenParent(t) ==
    LET n == Top(t).node
        p == RegulatorTreeGetParent(n)
    IN  \/ Parent[n] = None /\ Unlocks(t) /\ Returns(t, "SUCCESS")
        \/ Parent[n] # None /\ p = None /\ Unlocks(t) /\ Returns(t, "FAILURE")
        \/ /\ Parent[n] # None /\ p # None
           /\ CallsParent(t, "disable", "parent", p)
           /\ UNCHANGED <<lock, result>>

DisableAct(t) ==
    /\ Stands(t, "disable", "act")
    /\ \/ Driver(Top(t).node, "off") /\ ThenParent(t)
       \/ DriverFails /\ Unlocks(t) /\ Returns(t, "FAILURE")
    /\ UNCHANGED <<added, linked, calls>>

\* Whether or not the parent was disabled.
DisableEnd(t) ==
    /\ Stands(t, "disable", "parent") \/ Stands(t, "force", "parent")
    /\ Unlocks(t) /\ Returns(t, "SUCCESS")
    /\ UNCHANGED <<added, linked, status, calls, fails>>

(***************************************************************************)
(* RegulatorNodeForceDisable, and RegulatorTreeChildForceDisable, in an    *)
(* order in which a regulator comes after those below it.                  *)
(***************************************************************************)
ForceLock(t) ==
    LET n == Top(t).node IN
    /\ Stands(t, "force", "check")
    /\ \/ /\ status[n] = "off" /\ lock[n] = None
          /\ Returns(t, "SUCCESS") /\ UNCHANGED lock
       \/ /\ status[n] = "on" /\ Locks(t)
          /\ Stays(t, "children", Below(n)) /\ UNCHANGED result
    /\ UNCHANGED <<added, linked, status, calls, fails>>

\* What the child's driver returns is ignored.
ForceChild(t, c) ==
    /\ Stands(t, "force", "children") /\ c \in Top(t).todo
    /\ Below(c) \cap Top(t).todo = {} /\ lock[c] = None
    /\ status' = [status EXCEPT ![c] = "off"]
    /\ Stays(t, "children", Top(t).todo \ {c})
    /\ UNCHANGED <<added, linked, lock, result, calls, fails>>

ForceAct(t) ==
    /\ Stands(t, "force", "children") /\ Top(t).todo = {}
    /\ \/ Driver(Top(t).node, "off") /\ ThenParent(t)
       \/ DriverFails /\ Unlocks(t) /\ Returns(t, "FAILURE")
    /\ UNCHANGED <<added, linked, calls>>

(***************************************************************************)
(* RegulatorEnable, RegulatorDisable, RegulatorForceDisable.               *)
(***************************************************************************)
Call(t, op, n) ==
    /\ stack[t] = <<>> /\ calls < MaxCalls
    /\ n \in added
    /\ stack' = [stack EXCEPT ![t] = <<Frame(op, n)>>]
    /\ result' = [result EXCEPT ![t] = NoCall]
    /\ calls' = calls + 1
    /\ UNCHANGED <<added, linked, status, lock, fails>>

Step(t) ==
    \/ InitCheck(t) \/ InitEnable(t) \/ InitEnd(t)
    \/ EnableCheck(t) \/ EnableLock(t) \/ EnableParent(t) \/ EnableAct(t)
    \/ DisableCheck(t) \/ DisableLock(t) \/ DisableChildren(t) \/ DisableAct(t)
    \/ DisableEnd(t) \/ ForceLock(t) \/ ForceAct(t)
    \/ \E c \in Nodes : ForceChild(t, c)

Next ==
    \E t \in Threads :
        \/ Step(t)
        \/ \E n \in Nodes : RegulatorNodeAdd(t, n) \/ \E op \in Ops : Call(t, op, n)

Spec == Init /\ [][Next]_vars
FairSpec == Spec /\ \A t \in Threads : WF_vars(Step(t))

(***************************************************************************)
(* Properties.                                                             *)
(***************************************************************************)
\* Type invariant.
TypeOK ==
    /\ added \subseteq Nodes /\ linked \subseteq added
    /\ status \in [Nodes -> {"on", "off"}]
    /\ lock \in [Nodes -> Threads \cup {None}]
    /\ \A t \in Threads : \A i \in DOMAIN stack[t] :
         /\ stack[t][i].op \in Ops \cup {"init", "enable", "disable"}
         /\ stack[t][i].node \in added /\ stack[t][i].todo \subseteq added
         /\ stack[t][i].pc \in {"check", "lock", "parent", "children", "act", "done"}
    /\ calls \in 0..MaxCalls /\ fails \in 0..MaxFails

AtRest == \A t \in Threads : stack[t] = <<>>

\* If parents are added first, by one thread that makes all calls, no regulator is on
\* below one that is off, whatever was called and whichever drivers failed.
ParentOn == AtRest => \A n \in linked : status[n] = "on" => status[Parent[n]] = "on"

\* A forced disable that succeeded left everything below the regulator off.
ForceDisabled ==
    \A t \in Threads :
        AtRest /\ result[t].op = "force" /\ result[t].ret = "SUCCESS" =>
            \A n \in {result[t].node} \cup Below(result[t].node) : status[n] = "off"

\* In whatever order regulators are added, those that are always on are on.
AlwaysOnOn == AtRest => \A n \in added \cap AlwaysOn : status[n] = "on"

\* A thread holds the mutexes of the regulators whose calls it is in the middle of,
\* and of no others: no way out of RegulatorNodeEnable, RegulatorNodeDisable or
\* RegulatorNodeForceDisable forgets one.
NoLockLeft ==
    \A t \in Threads, n \in Nodes :
        lock[n] = t => \E i \in DOMAIN stack[t] :
                         stack[t][i].node = n /\ stack[t][i].pc \notin {"check", "lock"}

=============================================================================
