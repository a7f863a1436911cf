------------------------ MODULE DevmgrServiceProofs ------------------------
(***************************************************************************)
(* Proofs about DevmgrService for any configuration of hosts and devices,  *)
(* any number of threads, calls and nodes.                                 *)
(***************************************************************************)
EXTENDS DevmgrService, FiniteSetTheorems, TLAPS

LoopRec  == [host : Hosts \cup {None}, pos : Nat, then : Infos \cup {None}]
FrameRec == [pc : PCs, info : Infos \cup {None}, inst : 0..instances,
             node : Nodes \cup {0}, del : BOOLEAN]
NodeRec  == [info : Infos \cup {None}, inst : 0..instances, devStatus : Statuses,
             servStatus : BOOLEAN, ioService : BOOLEAN, driver : Drivers]

(***************************************************************************)
(* The calls a thread may be in.                                           *)
(***************************************************************************)
\* Steps of AddDevice and DelDevice at which the thread owns a node.
Owning == {"launch", "bind", "init", "io", "service", "local", "attach", "link",
           "free", "release", "remove", "detach", "destroy"}
Owns(t, n) == frame[t].pc \in Owning /\ Node(t) = n

Bare(r) == ~r.servStatus /\ ~r.ioService
Up(r)   == r.devStatus = "LAUNCHED" /\ r.driver = "inited"
Published(r) ==
    /\ r.servStatus <=> Policy[r.info] \in {"PUBLIC", "CAPACITY"}
    /\ r.ioService <=> Policy[r.info] = "CAPACITY"

\* What the place where its thread stands says of a node.
Stage(pc, r) ==
    /\ pc = "launch" => r.devStatus = "INITED" /\ r.driver = "idle" /\ Bare(r)
    /\ pc = "bind" => r.devStatus = "LAUNCHED" /\ r.driver = "idle" /\ Bare(r)
    /\ pc = "init" => r.devStatus = "LAUNCHED" /\ r.driver \in {"idle", "entered"} /\ Bare(r)
    /\ pc = "io" => Up(r) /\ Bare(r) /\ Policy[r.info] = "CAPACITY"
    /\ pc = "service" => /\ Up(r) /\ ~r.servStatus
                         /\ Policy[r.info] \in {"PUBLIC", "CAPACITY"}
                         /\ r.ioService <=> Policy[r.info] = "CAPACITY"
    /\ pc \in {"local", "attach", "link"} => Up(r) /\ Published(r)
    /\ pc = "free" => IF r.devStatus = "LAUNCHED"
                      THEN /\ r.driver \in {"entered", "inited"}
                           /\ r.driver = "entered" => Bare(r)
                      ELSE r.driver \in {"idle", "released"} /\ Bare(r)
    /\ pc = "release" => /\ r.devStatus = "LAUNCHED" /\ r.driver \in {"entered", "inited"}
                         /\ r.driver = "entered" => Bare(r)
                         /\ r.ioService => r.servStatus
    /\ pc = "remove" => /\ r.devStatus = "LAUNCHED" /\ r.driver = "released"
                        /\ r.ioService => r.servStatus
    /\ pc = "detach" => r.devStatus = "LAUNCHED" /\ r.driver = "released" /\ Bare(r)
    /\ pc = "destroy" => /\ r.devStatus # "LAUNCHED" /\ r.driver \in {"idle", "released"}
                         /\ Bare(r)

\* The node a service's record points to.
ServiceOf(s) ==
    services[s] # 0 =>
        LET r == node[services[s]] IN
        r.devStatus = "LAUNCHED" /\ r.servStatus /\ SvcName[r.info] = s

\* A thread's node is its own and not in a list, a listed node is up and published
\* as its policy says, and there are no others.
NodeInv ==
    /\ \A t \in Threads : frame[t].pc \in Owning =>
          /\ Node(t) \in Nodes \ linked
          /\ Its(t).info = Info(t) /\ Its(t).inst = frame[t].inst
          /\ Stage(frame[t].pc, Its(t))
    /\ \A t, u \in Threads, n \in Nodes : Owns(t, n) /\ Owns(u, n) => t = u
    /\ \A n \in linked : Up(node[n]) /\ Published(node[n])
    /\ \A n \in Nodes : node[n] = FreeNode \/ n \in linked \/ \E t \in Threads : Owns(t, n)
    /\ \A s \in Names : ServiceOf(s)

\* A step of a thread on its own node.
LEMMA OwnNodeStep ==
    ASSUME TypeOK, NodeInv, NEW t \in Threads, frame[t].pc \in Owning,
           NEW p \in Owning, NEW r,
           frame' = [frame EXCEPT ![t].pc = p],
           node' = [node EXCEPT ![Node(t)] = r],
           r.info = Its(t).info, r.inst = Its(t).inst, Stage(p, r),
           linked' = linked,
           \A s \in Names :
              \/ services'[s] = 0
              \/ services'[s] = services[s] /\ services[s] # Node(t)
              \/ /\ services'[s] = Node(t)
                 /\ r.devStatus = "LAUNCHED" /\ r.servStatus /\ SvcName[Info(t)] = s
    PROVE  NodeInv'
<1>0. /\ frame \in [Threads -> FrameRec] /\ DOMAIN node = Nodes
      /\ Node(t) \in Nodes \ linked /\ linked \subseteq Nodes
      /\ r.info = Info(t) /\ r.inst = frame[t].inst
      /\ services \in [Names -> Nodes \cup {0}]
  BY DEF TypeOK, FrameRec, NodeInv
<1>1. /\ frame'[t].pc = p /\ frame'[t].node = Node(t) /\ frame'[t].info = Info(t)
      /\ frame'[t].inst = frame[t].inst
      /\ \A u \in Threads \ {t} : frame'[u] = frame[u]
  BY <1>0 DEF FrameRec, Node, Info
<1>2. \A n \in Nodes : node'[n] = IF n = Node(t) THEN r ELSE node[n]
  BY <1>0
<1>3. \A u \in Threads, n \in Nodes : Owns(u, n)' <=> Owns(u, n)
  BY <1>0, <1>1 DEF Owns, Node
<1>4. \A u \in Threads : frame'[u].pc \in Owning =>
          /\ Node(u)' \in Nodes \ linked
          /\ Its(u)'.info = Info(u)' /\ Its(u)'.inst = frame'[u].inst
          /\ Stage(frame'[u].pc, Its(u)')
  <2> SUFFICES ASSUME NEW u \in Threads, frame'[u].pc \in Owning
               PROVE  /\ Node(u)' \in Nodes \ linked
                      /\ Its(u)'.info = Info(u)' /\ Its(u)'.inst = frame'[u].inst
                      /\ Stage(frame'[u].pc, Its(u)')
    OBVIOUS
  <2>1. CASE u = t
    BY <1>0, <1>1, <1>2, <2>1 DEF Its, Node, Info
  <2>2. CASE u # t
    <3>1. Node(u)' = Node(u) /\ Info(u)' = Info(u) /\ frame'[u] = frame[u]
      BY <1>1, <2>2 DEF Node, Info
    <3>2. Node(u) # Node(t) /\ Node(u) \in Nodes \ linked
      BY <1>0, <2>2, <3>1 DEF NodeInv, Owns
    <3>3. Its(u)' = Its(u)
      BY <1>2, <3>1, <3>2 DEF Its
    <3>4. QED
      BY <3>1, <3>2, <3>3 DEF NodeInv
  <2>3. QED
    BY <2>1, <2>2
<1>5. \A u, w \in Threads, n \in Nodes : Owns(u, n)' /\ Owns(w, n)' => u = w
  BY <1>3 DEF NodeInv
<1>6. \A n \in linked : node'[n] = node[n]
  BY <1>0, <1>2
<1>7. \A n \in Nodes : node'[n] = FreeNode \/ n \in linked \/ \E u \in Threads : Owns(u, n)'
  <2>1. Owns(t, Node(t))
    BY DEF Owns
  <2>2. QED
    BY <1>0, <1>2, <1>3, <2>1 DEF NodeInv
<1>8. \A s \in Names : ServiceOf(s)'
  BY <1>0, <1>2 DEF NodeInv, ServiceOf
<1>9. QED
  BY <1>4, <1>5, <1>6, <1>7, <1>8 DEF NodeInv

(***************************************************************************)
(* Type correctness, with what the loops and calls know of their hosts.    *)
(***************************************************************************)
\* A loop that has turns to make, or whose end makes the host known as started,
\* is about a host that has attached; so is every call but LoadDevice's first step.
HostInv ==
    /\ \A t \in Threads : loop[t].host # None =>
          /\ loop[t].host \in hosts /\ loop[t].pos > 0
          /\ UnloadSeq[loop[t].host] # <<>> \/ ~InStep2(t) => hostService[loop[t].host] # 0
          /\ t # Boot => loop[t].then \in Infos /\ HostOf[loop[t].then] = loop[t].host
    /\ \A h \in hosts : UnloadSeq[h] # <<>> => hostService[h] # 0
    /\ \A h \in hostPid : hostService[h] # 0
    /\ \A t \in Threads : frame[t].pc # "idle" =>
          /\ Info(t) \in Infos /\ HostOf[Info(t)] \in hosts
          /\ frame[t].pc # "load" => frame[t].inst # 0
    /\ \A t \in Threads : frame[t].pc = "idle" => frame[t] = NoFrame

\* The parts of the state have their types.
LEMMA Types ==
    ASSUME TypeOK, NEW t \in Threads
    PROVE  /\ frame \in [Threads -> FrameRec] /\ frame[t] \in FrameRec
           /\ loop \in [Threads -> LoopRec] /\ loop[t] \in LoopRec
           /\ node \in [Nodes -> NodeRec] /\ \A n \in Nodes : node[n] \in NodeRec
           /\ instances \in Nat /\ NoFrame \in FrameRec /\ NoLoop \in LoopRec
           /\ FreeNode \in NodeRec
<1>1. NoFrame \in FrameRec /\ NoLoop \in LoopRec /\ FreeNode \in NodeRec
  BY DEF TypeOK, NoFrame, NoLoop, FreeNode, FrameRec, LoopRec, NodeRec, PCs, Statuses, Drivers
<1>2. QED
  BY <1>1 DEF TypeOK, FrameRec, LoopRec, NodeRec

\* Steps of AddDevice and DelDevice write the thread's frame in four ways.
LEMMA AddDelFrame ==
    ASSUME TypeOK, HostInv, NEW t \in Threads, AddDelStep(t)
    PROVE  /\ InCall /\ frame[t].pc # "idle" /\ frame[t].pc # "load"
           /\ \/ \E p \in PCs \ {"idle", "load"} : Goto(t, p)
              \/ Return(t)
              \/ \E n \in Nodes, p \in {"launch", "release"} :
                    frame' = [frame EXCEPT ![t].pc = p, ![t].node = n]
<1> USE DEF At, PCs
<1>1. CASE \/ QueryOrAddDevice(t) \/ GetDriver(t) \/ DeviceNodeNewInstance(t)
           \/ LinkNode(t) \/ FreeDevice(t)
  BY <1>1 DEF QueryOrAddDevice, GetDriver, DeviceNodeNewInstance, LinkNode, FreeDevice
<1>2. CASE DelDevice(t)
  <2>1. GetDeviceNode(t) \subseteq Nodes
    BY DEF GetDeviceNode, NodesOf, TypeOK
  <2>2. QED
    BY <1>2, <2>1 DEF DelDevice
<1>3. CASE LaunchNode(t) \/ DriverBind(t) \/ IoServicePublish(t) \/ PublishPublicService(t)
  BY <1>3 DEF LaunchNode, DriverBind, IoServicePublish, PublishPublicService, NodeStep
<1>4. CASE DriverInit(t)
  <2>1. Policy[Info(t)] \in {"NONE", "PUBLIC", "CAPACITY", "FRIENDLY", "PRIVATE"}
    BY <1>4, DevmgrAssumption DEF DriverInit, HostInv
  <2>2. PublishFrom(Policy[Info(t)]) \in PCs \ {"idle", "load"}
    BY <2>1 DEF PublishFrom
  <2>3. QED
    BY <1>4, <2>2 DEF DriverInit, NodeStep
<1>5. CASE PublishLocalService(t) \/ AttachDevice(t) \/ FreeInstance(t) \/ DriverRelease(t)
  BY <1>5 DEF PublishLocalService, AttachDevice, FreeInstance, DriverRelease, NodeStep
<1>6. CASE UnlaunchRemove(t) \/ DetachDevice(t) \/ DestroyNode(t)
  BY <1>6 DEF UnlaunchRemove, DetachDevice, DestroyNode, NodeStep
<1>7. QED
  BY <1>1, <1>2, <1>3, <1>4, <1>5, <1>6 DEF AddDelStep

\* The steps between NewInstance and the link or the end of the node.
OwnAction(t) ==
    \/ LaunchNode(t) \/ DriverBind(t) \/ DriverInit(t) \/ IoServicePublish(t)
    \/ PublishPublicService(t) \/ PublishLocalService(t) \/ AttachDevice(t)
    \/ FreeInstance(t) \/ DriverRelease(t) \/ UnlaunchRemove(t) \/ DetachDevice(t)

\* What they do: the node goes to the stage the new place asks for, and no record
\* of the service manager is left pointing to a node that is not up.
Changes(t) ==
    /\ \E p \in Owning, r \in NodeRec :
          /\ frame' = [frame EXCEPT ![t].pc = p]
          /\ node' = [node EXCEPT ![Node(t)] = r]
          /\ r.info = Its(t).info /\ r.inst = Its(t).inst /\ Stage(p, r)
          /\ \A s \in Names :
                \/ services'[s] = 0
                \/ services'[s] = services[s] /\ services[s] # Node(t)
                \/ /\ services'[s] = Node(t)
                   /\ r.devStatus = "LAUNCHED" /\ r.servStatus /\ SvcName[Info(t)] = s
    /\ frame[t].pc \in Owning
    /\ services' \in [Names -> Nodes \cup {0}]
    /\ UNCHANGED <<devices, linked, unloadDevInfos>>

\* A field of a node is written.
LEMMA NodeFields ==
    ASSUME NEW r \in NodeRec
    PROVE  /\ \A v \in Drivers :
                 [r EXCEPT !.driver = v] \in NodeRec
           /\ \A v \in Statuses : [r EXCEPT !.devStatus = v] \in NodeRec
           /\ [r EXCEPT !.servStatus = TRUE] \in NodeRec
           /\ [r EXCEPT !.ioService = TRUE] \in NodeRec
           /\ [r EXCEPT !.ioService = FALSE] \in NodeRec
           /\ [r EXCEPT !.ioService = FALSE, !.servStatus = FALSE] \in NodeRec
  BY DEF NodeRec

\* The steps on a thread's own node are Changes.
LEMMA OwnActions ==
    ASSUME TypeOK, HostInv, NodeInv, NEW t \in Threads, OwnAction(t)
    PROVE  Changes(t)
<1> DEFINE n == Node(t)
           r0 == Its(t)
           i == Info(t)
<1>0. /\ frame[t].pc \in Owning
      /\ UNCHANGED <<devices, linked, unloadDevInfos>>
  BY DEF OwnAction, LaunchNode, DriverBind, DriverInit, IoServicePublish,
     PublishPublicService, PublishLocalService, AttachDevice, FreeInstance, DriverRelease,
     UnlaunchRemove, DetachDevice, NodeStep, At, Owning
<1>1. /\ n \in Nodes /\ r0 \in NodeRec /\ r0.info = i /\ i \in Infos
      /\ Stage(frame[t].pc, r0)
      /\ node = [node EXCEPT ![n] = r0]
      /\ services \in [Names -> Nodes \cup {0}]
      /\ SvcName[i] \in Names
      /\ Policy[i] \in {"NONE", "PUBLIC", "CAPACITY", "FRIENDLY", "PRIVATE"}
  <2>1. n \in Nodes /\ r0.info = i /\ Stage(frame[t].pc, r0)
    BY <1>0 DEF NodeInv
  <2>2. i \in Infos
    BY <1>0 DEF HostInv, Owning
  <2>3. r0 \in NodeRec /\ node = [node EXCEPT ![n] = r0]
    BY <2>1, Types DEF Its
  <2>4. SvcName[i] \in Names /\ services \in [Names -> Nodes \cup {0}]
    BY <2>2 DEF Names, TypeOK
  <2>5. Policy[i] \in {"NONE", "PUBLIC", "CAPACITY", "FRIENDLY", "PRIVATE"}
    BY <2>2, DevmgrAssumption
  <2>6. QED
    BY <2>1, <2>2, <2>3, <2>4, <2>5
<1>2. \A s \in Names : services[s] = n =>
         r0.devStatus = "LAUNCHED" /\ r0.servStatus /\ SvcName[i] = s
  <2>1. n # 0
    BY <1>1 DEF Nodes
  <2>2. QED
    BY <1>1, <2>1 DEF NodeInv, ServiceOf, Its
<1> HIDE DEF n, r0, i
<1>a. ASSUME NEW p \in Owning, NEW r \in NodeRec,
             frame' = [frame EXCEPT ![t].pc = p], node' = [node EXCEPT ![n] = r],
             r.info = r0.info, r.inst = r0.inst, Stage(p, r), services' = services,
             r0.servStatus => r.devStatus = "LAUNCHED" /\ r.servStatus
      PROVE  Changes(t)
  BY <1>0, <1>1, <1>2, <1>a DEF Changes, n, r0, i
<1>b. ASSUME NEW p \in Owning, RemoveService(t), frame' = [frame EXCEPT ![t].pc = p],
             \A r \in NodeRec : Bare(r) /\ r.devStatus = r0.devStatus /\ r.driver = r0.driver
                               => Stage(p, r)
      PROVE  Changes(t)
  <2> DEFINE r == [r0 EXCEPT !.ioService = FALSE, !.servStatus = FALSE]
  <2>1. /\ r \in NodeRec /\ r.info = r0.info /\ r.inst = r0.inst /\ Bare(r)
        /\ r.devStatus = r0.devStatus /\ r.driver = r0.driver
    BY <1>1 DEF NodeRec, Bare
  <2>2. node' = [node EXCEPT ![n] = r]
    BY <1>b DEF RemoveService, SetNode, n, r0
  <2> HIDE DEF r
  <2>3. Stage(p, r)
    BY <1>b, <2>1
  <2>4. \/ r0.servStatus /\ services' = [services EXCEPT ![SvcName[i]] = 0]
        \/ ~r0.servStatus /\ services' = services
    BY <1>b DEF RemoveService, r0, i
  <2>5. /\ services' \in [Names -> Nodes \cup {0}]
        /\ \A s \in Names : \/ services'[s] = 0
                            \/ services'[s] = services[s] /\ services[s] # n
    <3>1. \A s \in Names : services[s] = n => r0.servStatus /\ SvcName[i] = s
      BY <1>2
    <3>2. services' \in [Names -> Nodes \cup {0}]
      BY <1>1, <2>4
    <3>3. \A s \in Names : services'[s] = services[s] \/ (SvcName[i] = s /\ services'[s] = 0)
      BY <1>1, <2>4
    <3>4. ~r0.servStatus => services' = services
      BY <2>4
    <3>5. r0.servStatus => services'[SvcName[i]] = 0
      BY <1>1, <2>4
    <3>6. QED
      BY <3>1, <3>2, <3>3, <3>4, <3>5
  <2>6. QED
    BY <1>0, <1>b, <2>1, <2>2, <2>3, <2>5 DEF Changes, n, r0
<1> USE DEF At, Goto, Owning
<1>3. CASE LaunchNode(t)
  <2>1. frame[t].pc = "launch" /\ services' = services
    BY <1>3 DEF LaunchNode
  <2>2. r0.devStatus = "INITED" /\ r0.driver = "idle" /\ Bare(r0)
    BY <1>1, <2>1 DEF Stage
  <2>3. CASE frame' = [frame EXCEPT ![t].pc = "free"] /\ UNCHANGED node
    BY <1>1, <1>a, <2>1, <2>2, <2>3 DEF Stage, Bare
  <2>4. CASE /\ frame' = [frame EXCEPT ![t].pc = "bind"]
             /\ node' = [node EXCEPT ![n] = [r0 EXCEPT !.devStatus = "LAUNCHED"]]
    BY <1>1, <1>a, <2>1, <2>2, <2>4 DEF Stage, Bare, NodeRec, Statuses
  <2>5. QED
    BY <1>3, <2>3, <2>4 DEF LaunchNode, SetNode, n, r0
<1>4. CASE DriverBind(t)
  <2>1. frame[t].pc = "bind" /\ services' = services
    BY <1>4 DEF DriverBind
  <2>2. r0.devStatus = "LAUNCHED" /\ r0.driver = "idle" /\ Bare(r0)
    BY <1>1, <2>1 DEF Stage
  <2>3. CASE frame' = [frame EXCEPT ![t].pc = "init"] /\ UNCHANGED node
    BY <1>1, <1>a, <2>1, <2>2, <2>3 DEF Stage, Bare
  <2>4. CASE /\ frame' = [frame EXCEPT ![t].pc = "free"]
             /\ node' = [node EXCEPT ![n] = [r0 EXCEPT !.devStatus = "NONE"]]
    BY <1>1, <1>a, <2>1, <2>2, <2>4 DEF Stage, Bare, NodeRec, Statuses
  <2>5. ASSUME NEW p \in {"init", "free"}, frame' = [frame EXCEPT ![t].pc = p],
               node' = [node EXCEPT ![n] = [r0 EXCEPT !.driver = "entered"]]
        PROVE  Changes(t)
    BY <1>1, <1>a, <2>1, <2>2, <2>5 DEF Stage, Bare, NodeRec, Drivers
  <2>6. QED
    BY <1>4, <2>3, <2>4, <2>5 DEF DriverBind, SetNode, n, r0
<1>5. CASE DriverInit(t)
  <2>1. frame[t].pc = "init" /\ services' = services
    BY <1>5 DEF DriverInit
  <2>2. r0.devStatus = "LAUNCHED" /\ Bare(r0)
    BY <1>1, <2>1 DEF Stage
  <2>3. CASE /\ frame' = [frame EXCEPT ![t].pc = PublishFrom(Policy[i])]
             /\ node' = [node EXCEPT ![n] = [r0 EXCEPT !.driver = "inited"]]
    <3> DEFINE r == [r0 EXCEPT !.driver = "inited"]
    <3>1. /\ r \in NodeRec /\ r.info = i /\ r.inst = r0.inst /\ Bare(r) /\ Up(r)
      BY <1>1, <2>2 DEF NodeRec, Drivers, Bare, Up
    <3> HIDE DEF r
    <3>2. PublishFrom(Policy[i]) \in Owning
      BY <1>1 DEF PublishFrom
    <3>3. Stage(PublishFrom(Policy[i]), r)
      BY <1>1, <3>1 DEF Stage, PublishFrom, Published, Bare
    <3>4. QED
      BY <1>1, <1>a, <2>1, <2>2, <2>3, <3>1, <3>2, <3>3 DEF r, Bare
  <2>4. CASE /\ frame' = [frame EXCEPT ![t].pc = "free"]
             /\ node' = [node EXCEPT ![n] = [r0 EXCEPT !.driver = "entered"]]
    BY <1>1, <1>a, <2>1, <2>2, <2>4 DEF Stage, Bare, NodeRec, Drivers
  <2>5. QED
    BY <1>5, <2>3, <2>4 DEF DriverInit, SetNode, n, r0, i
<1>6. CASE IoServicePublish(t)
  <2>1. frame[t].pc = "io" /\ services' = services
    BY <1>6 DEF IoServicePublish
  <2>2. Up(r0) /\ Bare(r0) /\ Policy[r0.info] = "CAPACITY"
    BY <1>1, <2>1 DEF Stage
  <2>3. CASE frame' = [frame EXCEPT ![t].pc = "free"] /\ UNCHANGED node
    BY <1>1, <1>a, <2>1, <2>2, <2>3 DEF Stage, Bare, Up
  <2>4. CASE /\ frame' = [frame EXCEPT ![t].pc = "service"]
             /\ node' = [node EXCEPT ![n] = [r0 EXCEPT !.ioService = TRUE]]
    BY <1>1, <1>a, <2>1, <2>2, <2>4 DEF Stage, Bare, Up, NodeRec
  <2>5. QED
    BY <1>6, <2>3, <2>4 DEF IoServicePublish, SetNode, n, r0
<1>7. CASE PublishPublicService(t)
  <2>1. frame[t].pc = "service"
    BY <1>7 DEF PublishPublicService
  <2>2. /\ Up(r0) /\ ~r0.servStatus /\ Policy[r0.info] \in {"PUBLIC", "CAPACITY"}
        /\ r0.ioService <=> Policy[r0.info] = "CAPACITY"
    BY <1>1, <2>1 DEF Stage
  <2>3. CASE /\ frame' = [frame EXCEPT ![t].pc = "free"] /\ services' = services
             /\ node' = [node EXCEPT ![n] = [r0 EXCEPT !.ioService = FALSE]]
    BY <1>1, <1>a, <2>2, <2>3 DEF Stage, Bare, Up, NodeRec
  <2>4. CASE /\ frame' = [frame EXCEPT ![t].pc = "local"]
             /\ services' = [services EXCEPT ![SvcName[i]] = n]
             /\ node' = [node EXCEPT ![n] = [r0 EXCEPT !.servStatus = TRUE]]
    <3> DEFINE r == [r0 EXCEPT !.servStatus = TRUE]
    <3>1. /\ r \in NodeRec /\ r.info = r0.info /\ r.inst = r0.inst /\ r.servStatus
          /\ Up(r) /\ Published(r)
      BY <1>1, <2>2 DEF NodeRec, Up, Published
    <3> HIDE DEF r
    <3>2. Stage("local", r) /\ r.devStatus = "LAUNCHED"
      BY <3>1 DEF Stage, Up
    <3>3. /\ services' \in [Names -> Nodes \cup {0}]
          /\ \A s \in Names : \/ services'[s] = services[s] /\ services[s] # n
                              \/ services'[s] = n /\ SvcName[i] = s
      <4>1. \A s \in Names : services[s] # n
        BY <1>2, <2>2
      <4>2. services' \in [Names -> Nodes \cup {0}]
        BY <1>1, <2>4
      <4>3. \A s \in Names : services'[s] = services[s] \/ (services'[s] = n /\ SvcName[i] = s)
        BY <1>1, <2>4
      <4>4. QED
        BY <4>1, <4>2, <4>3
    <3>4. node' = [node EXCEPT ![n] = r]
      BY <2>4 DEF r
    <3>5. QED
      BY <1>0, <2>4, <3>1, <3>2, <3>3, <3>4 DEF Changes, n, r0, i
  <2>5. QED
    BY <1>7, <2>3, <2>4 DEF PublishPublicService, SetNode, n, r0, i
<1>8. CASE PublishLocalService(t) \/ AttachDevice(t)
  <2>1. frame[t].pc \in {"local", "attach"} /\ UNCHANGED <<node, services>>
    BY <1>8 DEF PublishLocalService, AttachDevice
  <2>2. Up(r0) /\ Published(r0)
    BY <1>1, <2>1 DEF Stage
  <2>3. PICK p \in {"attach", "link", "free"} : frame' = [frame EXCEPT ![t].pc = p]
    BY <1>8 DEF PublishLocalService, AttachDevice
  <2>4. Stage(p, r0) /\ r0.devStatus = "LAUNCHED"
    BY <2>2 DEF Stage, Up
  <2>5. QED
    BY <1>1, <1>a, <2>1, <2>3, <2>4
<1>9. CASE FreeInstance(t)
  <2>1. frame[t].pc = "free" /\ RemoveService(t)
    BY <1>9 DEF FreeInstance
  <2>2. IF r0.devStatus = "LAUNCHED" THEN r0.driver \in {"entered", "inited"}
                                     ELSE r0.driver \in {"idle", "released"}
    BY <1>1, <2>1 DEF Stage
  <2>3. frame' = [frame EXCEPT ![t].pc =
                    IF r0.devStatus = "LAUNCHED" THEN "release" ELSE "destroy"]
    BY <1>9 DEF FreeInstance, r0
  <2>4. CASE r0.devStatus = "LAUNCHED"
    <3>1. \A r \in NodeRec : Bare(r) /\ r.devStatus = r0.devStatus /\ r.driver = r0.driver
                             => Stage("release", r)
      BY <2>2, <2>4 DEF Stage, Bare
    <3>2. QED
      BY <1>b, <2>1, <2>3, <2>4, <3>1
  <2>5. CASE r0.devStatus # "LAUNCHED"
    <3>1. \A r \in NodeRec : Bare(r) /\ r.devStatus = r0.devStatus /\ r.driver = r0.driver
                             => Stage("destroy", r)
      BY <2>2, <2>5 DEF Stage
    <3>2. QED
      BY <1>b, <2>1, <2>3, <2>5, <3>1
  <2>6. QED
    BY <2>4, <2>5
<1>10. CASE DriverRelease(t)
  <2>1. /\ frame[t].pc = "release" /\ services' = services
        /\ frame' = [frame EXCEPT ![t].pc = "remove"]
        /\ node' = [node EXCEPT ![n] = [r0 EXCEPT !.driver = "released"]]
    BY <1>10 DEF DriverRelease, SetNode, n, r0
  <2>2. r0.devStatus = "LAUNCHED" /\ (r0.ioService => r0.servStatus)
    BY <1>1, <2>1 DEF Stage
  <2>3. QED
    BY <1>1, <1>a, <2>1, <2>2 DEF Stage, NodeRec, Drivers
<1>11. CASE UnlaunchRemove(t)
  <2>1. frame[t].pc = "remove" /\ frame' = [frame EXCEPT ![t].pc = "detach"]
    BY <1>11 DEF UnlaunchRemove
  <2>2. /\ r0.devStatus = "LAUNCHED" /\ r0.driver = "released"
        /\ r0.ioService => r0.servStatus
    BY <1>1, <2>1 DEF Stage
  <2>3. CASE ~r0.servStatus /\ UNCHANGED <<node, services>>
    BY <1>1, <1>a, <2>1, <2>2, <2>3 DEF Stage, Bare
  <2>4. CASE RemoveService(t)
    <3>1. \A r \in NodeRec : Bare(r) /\ r.devStatus = r0.devStatus /\ r.driver = r0.driver
                             => Stage("detach", r)
      BY <2>2 DEF Stage
    <3>2. QED
      BY <1>b, <2>1, <2>4, <3>1
  <2>5. QED
    BY <1>11, <2>3, <2>4 DEF UnlaunchRemove, r0
<1>12. CASE DetachDevice(t)
  <2>1. /\ frame[t].pc = "detach" /\ services' = services
        /\ node' = [node EXCEPT ![n] = [r0 EXCEPT !.devStatus = "INITED"]]
    BY <1>12 DEF DetachDevice, SetNode, n, r0
  <2>2. PICK p \in {"free", "destroy"} : frame' = [frame EXCEPT ![t].pc = p]
    BY <1>12 DEF DetachDevice
  <2>3. r0.driver = "released" /\ Bare(r0)
    BY <1>1, <2>1 DEF Stage
  <2>4. QED
    BY <1>1, <1>a, <2>1, <2>2, <2>3 DEF Stage, Bare, NodeRec, Statuses
<1>13. QED
  BY <1>3, <1>4, <1>5, <1>6, <1>7, <1>8, <1>9, <1>10, <1>11, <1>12 DEF OwnAction

\* Steps of AddDevice and DelDevice keep the types.
LEMMA AddDelTypes ==
    ASSUME TypeOK, HostInv, NodeInv, NEW t \in Threads, AddDelStep(t)
    PROVE  TypeOK' /\ HostInv'
<1>0. /\ UNCHANGED <<phase, cursor, hosts, hostService, instances, hostPid, calls, loop>>
      /\ frame[t].pc # "idle" /\ frame[t].pc # "load"
  BY AddDelFrame DEF InCall, mgrVars
<1>1. /\ frame' \in [Threads -> FrameRec]
      /\ \A u \in Threads \ {t} : frame'[u] = frame[u]
      /\ \/ frame'[t] = NoFrame
         \/ /\ frame'[t].pc \in PCs \ {"idle", "load"}
            /\ frame'[t].info = frame[t].info /\ frame'[t].inst = frame[t].inst
  <2>1. CASE Return(t)
    BY <2>1, Types DEF Return
  <2>2. ASSUME NEW p \in PCs \ {"idle", "load"}, Goto(t, p)
        PROVE  /\ frame' \in [Threads -> FrameRec]
               /\ \A u \in Threads \ {t} : frame'[u] = frame[u]
               /\ frame'[t].pc \in PCs \ {"idle", "load"}
               /\ frame'[t].info = frame[t].info /\ frame'[t].inst = frame[t].inst
    BY <2>2, Types DEF Goto, FrameRec
  <2>3. ASSUME NEW n \in Nodes, NEW p \in {"launch", "release"},
               frame' = [frame EXCEPT ![t].pc = p, ![t].node = n]
        PROVE  /\ frame' \in [Threads -> FrameRec]
               /\ \A u \in Threads \ {t} : frame'[u] = frame[u]
               /\ frame'[t].pc \in PCs \ {"idle", "load"}
               /\ frame'[t].info = frame[t].info /\ frame'[t].inst = frame[t].inst
    BY <2>3, Types DEF FrameRec, PCs
  <2>4. QED
    BY <2>1, <2>2, <2>3, AddDelFrame
<1>2. HostInv'
  <2>1. \A u \in Threads : InStep2(u)' <=> InStep2(u)
    BY <1>0 DEF InStep2
  <2>2. NoFrame.pc = "idle"
    BY DEF NoFrame
  <2>3. QED
    BY <1>0, <1>1, <2>1, <2>2 DEF HostInv, Info
<1>3. node' \in [Nodes -> NodeRec] /\ services' \in [Names -> Nodes \cup {0}]
  <2>1. CASE Changes(t)
    <3>1. PICK p \in Owning, r \in NodeRec : node' = [node EXCEPT ![Node(t)] = r]
      BY <2>1 DEF Changes
    <3>2. node' \in [Nodes -> NodeRec]
      BY <3>1, Types
    <3>3. QED
      BY <2>1, <3>2 DEF Changes
  <2>2. CASE DeviceNodeNewInstance(t)
    <3>1. [FreeNode EXCEPT !.info = Info(t), !.inst = frame[t].inst,
                           !.devStatus = "INITED"] \in NodeRec
      BY Types DEF FreeNode, NodeRec, FrameRec, Info, Drivers, Statuses
    <3>2. node' = node \/ \E r \in NodeRec, n \in Nodes : node' = [node EXCEPT ![n] = r]
      BY <2>2, <3>1 DEF DeviceNodeNewInstance
    <3>3. services' = services
      BY <2>2 DEF DeviceNodeNewInstance
    <3>4. QED
      BY <3>2, <3>3, Types DEF TypeOK
  <2>3. CASE DestroyNode(t)
    <3>1. node' = [node EXCEPT ![Node(t)] = FreeNode] /\ services' = services
      BY <2>3 DEF DestroyNode, SetNode
    <3>2. QED
      BY <3>1, Types DEF TypeOK
  <2>4. CASE \/ QueryOrAddDevice(t) \/ GetDriver(t) \/ LinkNode(t) \/ DelDevice(t)
             \/ FreeDevice(t)
    <3>1. UNCHANGED <<node, services>>
      BY <2>4 DEF QueryOrAddDevice, GetDriver, LinkNode, DelDevice, FreeDevice, hostVars
    <3>2. QED
      BY <3>1, Types DEF TypeOK
  <2>5. QED
    BY <2>1, <2>2, <2>3, <2>4, OwnActions DEF AddDelStep, OwnAction
<1>4. /\ linked' \subseteq Nodes /\ unloadDevInfos' \subseteq Infos
      /\ tokens' \in [Infos -> Nat]
  <2>1. frame[t].pc \in Owning => Node(t) \in Nodes
    BY DEF NodeInv
  <2>2. linked' \subseteq linked \/ (frame[t].pc \in Owning /\ linked' = linked \cup {Node(t)})
    BY DEF AddDelStep, QueryOrAddDevice, GetDriver, DeviceNodeNewInstance, LaunchNode,
       DriverBind, DriverInit, IoServicePublish, PublishPublicService, PublishLocalService,
       AttachDevice, LinkNode, DelDevice, FreeInstance, DriverRelease, UnlaunchRemove,
       DetachDevice, DestroyNode, FreeDevice, NodeStep, hostVars, At, Owning
  <2>3. unloadDevInfos' \subseteq unloadDevInfos
    BY DEF AddDelStep, QueryOrAddDevice, GetDriver, DeviceNodeNewInstance, LaunchNode,
       DriverBind, DriverInit, IoServicePublish, PublishPublicService, PublishLocalService,
       AttachDevice, LinkNode, DelDevice, FreeInstance, DriverRelease, UnlaunchRemove,
       DetachDevice, DestroyNode, FreeDevice, NodeStep
  <2>4. \/ tokens' = tokens
        \/ tokens' = [tokens EXCEPT ![Info(t)] = @ + 1]
        \/ tokens' = [tokens EXCEPT ![Info(t)] = IF @ > 0 THEN @ - 1 ELSE 0]
    BY DEF AddDelStep, QueryOrAddDevice, GetDriver, DeviceNodeNewInstance, LaunchNode,
       DriverBind, DriverInit, IoServicePublish, PublishPublicService, PublishLocalService,
       AttachDevice, LinkNode, DelDevice, FreeInstance, DriverRelease, UnlaunchRemove,
       DetachDevice, DestroyNode, FreeDevice, NodeStep, hostVars
  <2>5. tokens' \in [Infos -> Nat]
    BY <2>4 DEF TypeOK
  <2>6. QED
    BY <2>1, <2>2, <2>3, <2>5 DEF TypeOK
<1>5. \A d \in devices' : d[1] \in 1..instances
  <2>1. frame[t].inst \in 1..instances
    BY <1>0, Types DEF HostInv, FrameRec
  <2>2. devices' \subseteq devices \cup {Device(t)}
    BY DEF AddDelStep, QueryOrAddDevice, GetDriver, DeviceNodeNewInstance, LaunchNode,
       DriverBind, DriverInit, IoServicePublish, PublishPublicService, PublishLocalService,
       AttachDevice, LinkNode, DelDevice, FreeInstance, DriverRelease, UnlaunchRemove,
       DetachDevice, DestroyNode, FreeDevice, NodeStep, hostVars
  <2>3. Device(t)[1] = frame[t].inst
    BY DEF Device
  <2>4. QED
    BY <2>1, <2>2, <2>3 DEF TypeOK
<1>6. QED
  BY <1>0, <1>1, <1>2, <1>3, <1>4, <1>5 DEF TypeOK, FrameRec, NodeRec

\* The frame of a call about info i that begins.
LEMMA CallFacts ==
    ASSUME TypeOK, NEW t \in Threads, NEW i \in Infos, NEW pc \in {"load", "query", "del"},
           Call(t, pc, i), UNCHANGED <<hostService, instances>>
    PROVE  /\ frame' \in [Threads -> FrameRec']
           /\ \A u \in Threads \ {t} : frame'[u] = frame[u]
           /\ frame'[t].pc = pc /\ frame'[t].info = i /\ frame'[t].node = 0
           /\ frame'[t].inst = hostService[HostOf[i]]
           /\ frame'[t].del <=> pc = "del"
<1>1. HostOf[i] \in Hosts
  BY DevmgrAssumption
<1>2. hostService[HostOf[i]] \in 0..instances
  BY <1>1 DEF TypeOK
<1> DEFINE f == [pc |-> pc, info |-> i, node |-> 0, inst |-> hostService'[HostOf[i]],
                 del |-> pc = "del"]
<1>3. f \in FrameRec' /\ f.pc = pc /\ f.info = i /\ f.node = 0
      /\ f.inst = hostService[HostOf[i]] /\ (f.del <=> pc = "del")
  <2>1. (pc = "del") \in BOOLEAN
    OBVIOUS
  <2>2. f.del = (pc = "del")
    BY Zenon
  <2>3. pc \in PCs /\ i \in Infos \cup {None} /\ 0 \in Nodes \cup {0}
        /\ hostService'[HostOf[i]] \in 0..instances'
    BY <1>2 DEF PCs
  <2>4. f \in FrameRec'
    BY <2>1, <2>3, Zenon DEF FrameRec
  <2>5. QED
    BY <2>2, <2>4
<1>4. frame' = [frame EXCEPT ![t] = f]
  BY DEF Call
<1> HIDE DEF f
<1>5. frame \in [Threads -> FrameRec']
  BY Types DEF FrameRec
<1>6. QED
  BY <1>3, <1>4, <1>5

\* A started host: there is one more instance.
LEMMA StartFacts ==
    ASSUME TypeOK, NEW t \in Threads, NEW h \in Hosts, NEW then \in Infos \cup {None},
           StartDeviceHost(t, h, then)
    PROVE  /\ instances' \in Nat /\ instances \in Nat /\ instances' = instances + 1
           /\ hostService' \in [Hosts -> 0..instances']
           /\ hostService'[h] = instances + 1 /\ hostService'[h] # 0
           /\ \A g \in Hosts \ {h} : hostService'[g] = hostService[g]
           /\ loop' \in [Threads -> LoopRec]
           /\ loop'[t].host = h /\ loop'[t].pos = 1 /\ loop'[t].then = then
           /\ \A u \in Threads \ {t} : loop'[u] = loop[u]
           /\ frame \in [Threads -> FrameRec'] /\ node \in [Nodes -> NodeRec']
           /\ NoFrame \in FrameRec'
           /\ \A d \in devices : d[1] \in 1..instances'
<1>1. /\ instances' \in Nat /\ instances \in Nat /\ instances' = instances + 1
      /\ hostService' \in [Hosts -> 0..instances'] /\ hostService'[h] = instances + 1
      /\ hostService'[h] # 0
      /\ \A g \in Hosts \ {h} : hostService'[g] = hostService[g]
  BY DEF TypeOK, StartDeviceHost
<1>2. /\ loop' \in [Threads -> LoopRec]
      /\ loop'[t].host = h /\ loop'[t].pos = 1 /\ loop'[t].then = then
      /\ \A u \in Threads \ {t} : loop'[u] = loop[u]
  BY Types DEF StartDeviceHost, LoopRec
<1>3. FrameRec \subseteq FrameRec' /\ NodeRec \subseteq NodeRec'
  BY <1>1 DEF FrameRec, NodeRec
<1>4. frame \in [Threads -> FrameRec'] /\ node \in [Nodes -> NodeRec']
  BY <1>3, Types
<1>5. NoFrame \in FrameRec'
  BY <1>3, Types
<1>6. \A d \in devices : d[1] \in 1..instances'
  BY <1>1 DEF TypeOK
<1>7. QED
  BY <1>1, <1>2, <1>4, <1>5, <1>6

\* The info a loop is at is one of its host's.
LEMMA LoopInfo ==
    ASSUME TypeOK, HostInv, NEW t \in Threads, loop[t].host # None,
           loop[t].pos <= Len(UnloadSeq[loop[t].host])
    PROVE  LET i == UnloadSeq[loop[t].host][loop[t].pos] IN
           /\ i \in Infos /\ HostOf[i] = loop[t].host /\ Preload[i] # "DISABLE"
           /\ hostService[loop[t].host] # 0
<1>1. loop[t].host \in Hosts /\ loop[t].host \in hosts /\ loop[t].pos \in Nat
      /\ loop[t].pos > 0
  BY Types DEF LoopRec, HostInv
<1>2. UnloadSeq[loop[t].host] \in Seq(Infos)
  BY <1>1, DevmgrAssumption
<1>3. Len(UnloadSeq[loop[t].host]) \in Nat
      /\ loop[t].pos \in 1..Len(UnloadSeq[loop[t].host])
  BY <1>1, <1>2
<1>4. UnloadSeq[loop[t].host][loop[t].pos] \in Infos
  BY <1>2, <1>3
<1>5. UnloadSeq[loop[t].host] # <<>>
  BY <1>3
<1>6. hostService[loop[t].host] # 0
  BY <1>1, <1>5 DEF HostInv
<1>7. QED
  BY <1>1, <1>3, <1>4, <1>6, DevmgrAssumption

\* The steps of the boot thread between its loops keep the types.
LEMMA BootTypes ==
    ASSUME TypeOK, HostInv, BootStep
    PROVE  TypeOK' /\ HostInv'
<1>0. Boot \in Threads /\ UNCHANGED <<frame, hostPid, calls, hostVars>>
  BY DEF BootStep, DevmgrServiceStartDeviceHost, StartDone, DevmgrServiceLoadLeftDriver, Threads
<1>a. /\ frame \in [Threads -> FrameRec] /\ node \in [Nodes -> NodeRec]
      /\ loop \in [Threads -> LoopRec] /\ NoLoop.host = None
      /\ cursor \in Nat \ {0} /\ cursor + 1 \in Nat \ {0}
      /\ phase \in {"hosts", "step2", "ready"} /\ loop[Boot] = NoLoop
      /\ hostPid \subseteq hosts /\ hosts \subseteq Hosts
  BY <1>0, Types DEF NoLoop, TypeOK, BootStep, DevmgrServiceStartDeviceHost, StartDone,
     DevmgrServiceLoadLeftDriver
<1>b. cursor <= Len(HostSeq) => HostSeq[cursor] \in Hosts
  BY <1>a DEF Hosts
<1>c. \A t \in Threads : InStep2(t) => t = Boot
  BY DEF InStep2
<1>1. CASE DevmgrServiceStartDeviceHost
  <2> DEFINE h == HostSeq[cursor]
  <2>1. phase = "hosts" /\ phase' = phase /\ h \in Hosts
    BY <1>1, <1>b DEF DevmgrServiceStartDeviceHost
  <2>2. \A t \in Threads : ~InStep2(t) /\ ~InStep2(t)'
    BY <2>1 DEF InStep2
  <2>3. CASE /\ cursor' = cursor + 1
             /\ UNCHANGED <<hosts, hostService, instances, unloadDevInfos, loop>>
    <3>1. TypeOK'
      BY <1>0, <1>a, <2>1, <2>3 DEF TypeOK, hostVars
    <3>2. HostInv'
      BY <1>0, <2>2, <2>3 DEF HostInv, Info
    <3>3. QED
      BY <3>1, <3>2
  <2>4. CASE /\ UnloadSeq[h] = <<>> /\ hosts' = hosts \cup {h} /\ cursor' = cursor + 1
             /\ UNCHANGED <<hostService, instances, unloadDevInfos, loop>>
    <3>1. TypeOK'
      BY <1>0, <1>a, <2>1, <2>4 DEF TypeOK, hostVars
    <3>2. HostInv'
      BY <1>0, <2>2, <2>4 DEF HostInv, Info
    <3>3. QED
      BY <3>1, <3>2
  <2>5. CASE /\ hosts' = hosts \cup {h}
             /\ unloadDevInfos' = unloadDevInfos
                    \cup {i \in Infos : HostOf[i] = h /\ Preload[i] # "DISABLE"}
             /\ StartDeviceHost(Boot, h, None) /\ UNCHANGED cursor
    <3>1. StartDeviceHost(Boot, h, None) /\ None \in Infos \cup {None}
      BY <2>5
    <3> HIDE DEF h
    <3>2. TypeOK'
      BY <1>0, <1>a, <2>1, <2>5, <3>1, StartFacts DEF TypeOK, hostVars, FrameRec, NodeRec, LoopRec
    <3>3. \A g \in Hosts : hostService[g] # 0 => hostService'[g] # 0
      BY <1>0, <2>1, <3>1, StartFacts
    <3>4. /\ loop'[Boot].host = h /\ loop'[Boot].pos = 1 /\ hostService'[h] # 0
          /\ \A u \in Threads \ {Boot} : loop'[u] = loop[u]
      BY <1>0, <2>1, <3>1, StartFacts
    <3>5. HostInv'
      BY <1>0, <1>a, <2>1, <2>2, <2>5, <3>3, <3>4 DEF HostInv, Info
    <3>6. QED
      BY <3>2, <3>5
  <2>6. QED
    BY <1>1, <2>3, <2>4, <2>5 DEF DevmgrServiceStartDeviceHost
<1>2. CASE StartDone
  <2>1. /\ UNCHANGED <<hosts, hostService, instances, unloadDevInfos, loop>>
        /\ cursor' = 1 /\ phase' \in {"hosts", "step2", "ready"}
    BY <1>2 DEF StartDone
  <2>2. TypeOK'
    BY <1>0, <1>a, <2>1 DEF TypeOK, hostVars
  <2>3. \A t \in Threads : loop[t].host # None => (InStep2(t)' <=> InStep2(t))
    BY <1>0, <1>a DEF InStep2
  <2>4. HostInv'
    BY <1>0, <2>1, <2>3 DEF HostInv, Info
  <2>5. QED
    BY <2>2, <2>4
<1>3. CASE DevmgrServiceLoadLeftDriver
  <2>1. UNCHANGED <<hosts, hostService, instances, unloadDevInfos>> /\ phase = "step2"
    BY <1>3 DEF DevmgrServiceLoadLeftDriver
  <2>2. CASE /\ cursor <= Len(HostSeq) /\ HostSeq[cursor] \in hosts
             /\ loop' = [loop EXCEPT ![Boot] = [host |-> HostSeq[cursor], pos |-> 1,
                                                then |-> None]]
             /\ UNCHANGED <<phase, cursor>>
    <3> DEFINE l == [host |-> HostSeq[cursor], pos |-> 1, then |-> None]
    <3>1. l \in LoopRec /\ l.host = HostSeq[cursor] /\ l.pos = 1
      BY <1>b, <2>2 DEF LoopRec
    <3> HIDE DEF l
    <3>2. loop' \in [Threads -> LoopRec] /\ loop'[Boot] = l
          /\ \A u \in Threads \ {Boot} : loop'[u] = loop[u]
      BY <1>0, <1>a, <2>2, <3>1 DEF l
    <3>3. TypeOK'
      BY <1>0, <1>a, <2>1, <2>2, <3>2 DEF TypeOK, hostVars, LoopRec
    <3>4. InStep2(Boot)' /\ \A t \in Threads : InStep2(t)' <=> InStep2(t)
      BY <2>1, <2>2 DEF InStep2
    <3>5. HostInv'
      BY <1>0, <2>1, <2>2, <3>1, <3>2, <3>4 DEF HostInv, Info
    <3>6. QED
      BY <3>3, <3>5
  <2>3. CASE cursor' = cursor + 1 /\ UNCHANGED <<phase, loop>>
    <3>1. TypeOK'
      BY <1>0, <1>a, <2>1, <2>3 DEF TypeOK, hostVars
    <3>2. HostInv'
      BY <1>0, <2>1, <2>3 DEF HostInv, Info, InStep2
    <3>3. QED
      BY <3>1, <3>2
  <2>4. CASE phase' = "ready" /\ UNCHANGED <<cursor, loop>>
    <3>1. TypeOK'
      BY <1>0, <1>a, <2>1, <2>4 DEF TypeOK, hostVars
    <3>2. \A t \in Threads : loop[t].host # None => (InStep2(t)' <=> InStep2(t))
      BY <1>0, <1>a DEF InStep2
    <3>3. HostInv'
      BY <1>0, <2>1, <2>4, <3>2 DEF HostInv, Info
    <3>4. QED
      BY <3>1, <3>3
  <2>5. QED
    BY <1>3, <2>2, <2>3, <2>4 DEF DevmgrServiceLoadLeftDriver
<1>4. QED
  BY <1>1, <1>2, <1>3 DEF BootStep

\* A call that begins on a host that has attached, or LoadDevice's, keeps HostInv.
LEMMA CallHost ==
    ASSUME TypeOK, HostInv, NEW t \in Threads, NEW i \in Infos,
           NEW pc \in {"load", "query", "del"}, Call(t, pc, i),
           UNCHANGED <<phase, hosts, hostService, instances>>, HostOf[i] \in hosts,
           pc # "load" => hostService[HostOf[i]] # 0,
           \A h \in hostPid' : hostService[h] # 0,
           \A u \in Threads : \/ loop'[u].host = None
                              \/ /\ loop'[u].host = loop[u].host /\ loop'[u].then = loop[u].then
                                 /\ loop'[u].pos > 0
    PROVE  HostInv'
<1>1. \A u \in Threads : InStep2(u)' <=> InStep2(u)
  BY DEF InStep2
<1>2. /\ frame'[t].pc = pc /\ frame'[t].info = i /\ frame'[t].inst = hostService[HostOf[i]]
      /\ \A u \in Threads \ {t} : frame'[u] = frame[u]
  BY CallFacts
<1>3. QED
  BY <1>1, <1>2 DEF HostInv, Info

\* The loops and the calls that begin keep the types.
LEMMA CallTypes ==
    ASSUME TypeOK, HostInv, NEW t \in Threads,
           \/ InstallNext(t) \/ InstallDone(t) \/ DevmgrServiceLoadDevice(t)
           \/ t \in Loaders /\ \E i \in Infos : \/ DevSvcManagerSubscribeService(t, i)
                                                \/ DevmgrServiceUnloadDevice(t, i)
    PROVE  TypeOK' /\ HostInv'
<1>0. /\ loop \in [Threads -> LoopRec] /\ loop[t] \in LoopRec
      /\ frame \in [Threads -> FrameRec] /\ NoFrame \in FrameRec
      /\ NoLoop \in LoopRec /\ NoLoop.host = None
      /\ cursor \in Nat \ {0} /\ cursor + 1 \in Nat \ {0}
  BY Types DEF TypeOK, NoLoop
<1>1. CASE InstallNext(t)
  <2> DEFINE h == loop[t].host
             i == UnloadSeq[h][loop[t].pos]
  <2>1. /\ h # None /\ loop[t].pos <= Len(UnloadSeq[h])
        /\ loop' = [loop EXCEPT ![t].pos = @ + 1]
        /\ UNCHANGED <<mgrVars, unloadDevInfos, hostVars>>
    BY <1>1 DEF InstallNext
  <2>2. i \in Infos /\ HostOf[i] = h /\ hostService[h] # 0 /\ h \in hosts
    BY <2>1, LoopInfo DEF HostInv
  <2> HIDE DEF h, i
  <2>3. /\ loop' \in [Threads -> LoopRec]
        /\ \A u \in Threads : /\ loop'[u].host = loop[u].host
                              /\ loop'[u].then = loop[u].then
                              /\ loop'[u].pos = IF u = t THEN loop[u].pos + 1 ELSE loop[u].pos
    <3> DEFINE l == [loop[t] EXCEPT !.pos = @ + 1]
    <3>1. /\ l \in LoopRec /\ l.host = loop[t].host /\ l.then = loop[t].then
          /\ l.pos = loop[t].pos + 1
      BY <1>0 DEF LoopRec
    <3>2. loop' = [loop EXCEPT ![t] = l]
      BY <2>1
    <3> HIDE DEF l
    <3>3. loop' \in [Threads -> LoopRec] /\ loop'[t] = l
          /\ \A u \in Threads \ {t} : loop'[u] = loop[u]
      BY <1>0, <3>1, <3>2
    <3>4. QED
      BY <3>1, <3>3
  <2>4. \A u \in Threads : loop'[u].host # None => loop'[u].pos > 0
    BY <1>0, <2>3 DEF HostInv, LoopRec
  <2>5. CASE UNCHANGED frame
    <3>1. TypeOK'
      BY <1>0, <2>1, <2>3, <2>5 DEF TypeOK, mgrVars, hostVars, LoopRec
    <3>2. HostInv'
      BY <2>1, <2>3, <2>4, <2>5 DEF HostInv, mgrVars, Info, InStep2
    <3>3. QED
      BY <3>1, <3>2
  <2>6. CASE Call(t, "query", i)
    <3>1. UNCHANGED <<phase, cursor, hosts, hostService, instances, hostPid, calls>>
      BY <2>1 DEF mgrVars
    <3>2. frame' \in [Threads -> FrameRec']
      BY <2>2, <2>6, <3>1, CallFacts
    <3>3. TypeOK'
      BY <1>0, <2>1, <2>3, <3>1, <3>2 DEF TypeOK, hostVars, LoopRec, FrameRec
    <3>4. \A g \in hostPid' : hostService[g] # 0
      BY <3>1 DEF HostInv
    <3>5. HostInv'
      BY <2>2, <2>3, <2>4, <2>6, <3>1, <3>4, CallHost
    <3>6. QED
      BY <3>3, <3>5
  <2>7. QED
    BY <1>1, <2>5, <2>6 DEF InstallNext, h, i
<1>2. CASE InstallDone(t)
  <2> DEFINE h == loop[t].host
  <2>1. /\ h # None /\ loop' = [loop EXCEPT ![t] = NoLoop]
        /\ UNCHANGED <<phase, hosts, hostService, instances, calls, unloadDevInfos, hostVars>>
        /\ hostPid' = IF InStep2(t) THEN hostPid ELSE hostPid \cup {h}
        /\ cursor' = cursor \/ cursor' = cursor + 1
        /\ IF t = Boot THEN UNCHANGED frame ELSE Call(t, "query", loop[t].then)
    BY <1>2 DEF InstallDone
  <2>2. h \in hosts /\ (~InStep2(t) => hostService[h] # 0)
    BY <2>1 DEF HostInv
  <2>3. /\ loop' \in [Threads -> LoopRec] /\ loop'[t].host = None
        /\ \A u \in Threads \ {t} : loop'[u] = loop[u]
    BY <1>0, <2>1
  <2>4. hostPid' \subseteq hosts /\ \A g \in hostPid' : hostService[g] # 0
    BY <2>1, <2>2 DEF HostInv, TypeOK
  <2>5. \A u \in Threads : InStep2(u)' <=> InStep2(u)
    BY <2>1 DEF InStep2
  <2>6. \A u \in Threads : loop'[u].host = None \/ (loop'[u] = loop[u] /\ loop'[u].pos > 0)
    BY <2>3 DEF HostInv
  <2>7. CASE UNCHANGED frame
    <3>1. TypeOK'
      BY <1>0, <2>1, <2>3, <2>4, <2>7 DEF TypeOK, hostVars, LoopRec
    <3>2. HostInv'
      BY <2>1, <2>3, <2>4, <2>5, <2>6, <2>7 DEF HostInv, Info
    <3>3. QED
      BY <3>1, <3>2
  <2>8. CASE t # Boot /\ Call(t, "query", loop[t].then)
    <3>1. loop[t].then \in Infos /\ HostOf[loop[t].then] = h /\ ~InStep2(t)
      BY <2>1, <2>8 DEF HostInv, InStep2
    <3>2. frame' \in [Threads -> FrameRec']
      BY <2>1, <2>8, <3>1, CallFacts
    <3>3. TypeOK'
      BY <1>0, <2>1, <2>3, <2>4, <3>2 DEF TypeOK, hostVars, LoopRec, FrameRec
    <3>4. HostInv'
      BY <2>1, <2>2, <2>4, <2>6, <2>8, <3>1, CallHost
    <3>5. QED
      BY <3>3, <3>4
  <2>9. QED
    BY <2>1, <2>7, <2>8
<1>3. CASE DevmgrServiceLoadDevice(t)
  <2> DEFINE i == frame[t].info
             h == HostOf[i]
  <2>1. /\ frame[t].pc = "load"
        /\ UNCHANGED <<phase, cursor, hosts, hostPid, calls, unloadDevInfos, hostVars>>
    BY <1>3 DEF DevmgrServiceLoadDevice, At
  <2>2. i \in Infos /\ h \in hosts /\ h \in Hosts
    BY <2>1, DevmgrAssumption DEF HostInv, Info
  <2>3. \A u \in Threads : InStep2(u)' <=> InStep2(u)
    BY <2>1 DEF InStep2
  <2>a. \A u \in Threads : loop[u].host # None => loop[u].pos > 0
    BY DEF HostInv
  <2>4. CASE HostStarted(h) /\ UNCHANGED <<instances, hostService, loop>> /\ Call(t, "query", i)
    <3>1. hostService[h] # 0 /\ \A g \in hostPid' : hostService[g] # 0
      BY <2>1, <2>4 DEF HostInv, HostStarted
    <3>2. frame' \in [Threads -> FrameRec']
      BY <2>2, <2>4, CallFacts
    <3>3. TypeOK'
      BY <2>1, <2>4, <3>2 DEF TypeOK, hostVars, FrameRec
    <3>4. HostInv'
      BY <2>1, <2>2, <2>4, <2>a, <3>1, CallHost
    <3>5. QED
      BY <3>3, <3>4
  <2>5. CASE StartDeviceHost(t, h, i) /\ Return(t)
    <3> HIDE DEF h
    <3>1. StartDeviceHost(t, h, i) /\ i \in Infos \cup {None}
      BY <2>2, <2>5
    <3>2. frame' = [frame EXCEPT ![t] = NoFrame]
      BY <2>5 DEF Return
    <3>3. /\ frame' \in [Threads -> FrameRec'] /\ frame'[t] = NoFrame
          /\ \A u \in Threads \ {t} : frame'[u] = frame[u]
      BY <1>0, <2>2, <3>1, <3>2, StartFacts
    <3>4. TypeOK'
      BY <2>1, <2>2, <3>1, <3>3, StartFacts DEF TypeOK, hostVars, FrameRec, NodeRec, LoopRec
    <3>5. \A g \in Hosts : hostService[g] # 0 => hostService'[g] # 0
      BY <2>2, <3>1, StartFacts
    <3>6. /\ loop'[t].host = h /\ loop'[t].pos = 1 /\ hostService'[h] # 0 /\ loop'[t].then = i
          /\ \A u \in Threads \ {t} : loop'[u] = loop[u]
      BY <2>2, <3>1, StartFacts
    <3>7. hosts \subseteq Hosts /\ hostPid \subseteq Hosts /\ NoFrame.pc = "idle"
      BY DEF TypeOK, NoFrame
    <3>8. HostInv'
      BY <2>1, <2>2, <2>3, <3>3, <3>5, <3>6, <3>7 DEF HostInv, Info, h
    <3>9. QED
      BY <3>4, <3>8
  <2>6. CASE Return(t) /\ UNCHANGED <<instances, hostService, loop>>
    <3>1. frame' = [frame EXCEPT ![t] = NoFrame]
      BY <2>6 DEF Return
    <3>2. /\ frame' \in [Threads -> FrameRec] /\ frame'[t] = NoFrame
          /\ \A u \in Threads \ {t} : frame'[u] = frame[u] /\ NoFrame.pc = "idle"
      BY <1>0, <3>1 DEF NoFrame
    <3>3. TypeOK'
      BY <2>1, <2>6, <3>2 DEF TypeOK, hostVars, FrameRec
    <3>a. NoFrame.pc = "idle"
      BY DEF NoFrame
    <3>4. HostInv'
      BY <2>1, <2>3, <2>6, <3>2, <3>a DEF HostInv, Info
    <3>5. QED
      BY <3>3, <3>4
  <2>7. QED
    BY <1>3, <2>4, <2>5, <2>6 DEF DevmgrServiceLoadDevice
<1>4. ASSUME NEW i \in Infos,
             DevSvcManagerSubscribeService(t, i) \/ DevmgrServiceUnloadDevice(t, i)
      PROVE  TypeOK' /\ HostInv'
  <2>1. /\ calls < MaxCalls /\ calls' = calls + 1 /\ DynamicDevInfoFound(SvcName[i], i)
        /\ UNCHANGED <<phase, cursor, hosts, hostService, instances, hostPid, unloadDevInfos,
                       loop, hostVars>>
    BY <1>4 DEF DevSvcManagerSubscribeService, DevmgrServiceUnloadDevice, MayCall
  <2>2. HostOf[i] \in hosts
    BY <2>1 DEF DynamicDevInfoFound, DynamicInfos
  <2>3. PICK pc \in {"load", "del"} : /\ Call(t, pc, i)
                                      /\ pc # "load" => hostService[HostOf[i]] # 0
    BY <1>4 DEF DevSvcManagerSubscribeService, DevmgrServiceUnloadDevice
  <2>4. frame' \in [Threads -> FrameRec']
    BY <2>1, <2>3, CallFacts
  <2>5. calls' \in 0..MaxCalls
    BY <2>1, DevmgrAssumption DEF TypeOK
  <2>6. TypeOK'
    BY <2>1, <2>4, <2>5 DEF TypeOK, hostVars, FrameRec
  <2>7. \A g \in hostPid' : hostService[g] # 0
    BY <2>1 DEF HostInv
  <2>8. \A u \in Threads : loop[u].host # None => loop[u].pos > 0
    BY DEF HostInv
  <2>9. HostInv'
    BY <2>1, <2>2, <2>3, <2>7, <2>8, CallHost
  <2>10. QED
    BY <2>6, <2>9
<1>5. QED
  BY <1>1, <1>2, <1>3, <1>4

(***************************************************************************)
(* The nodes: NodeInv is kept by every step.                               *)
(***************************************************************************)
\* Steps outside the part of a call that owns a node.
LEMMA QuietNodes ==
    ASSUME NodeInv, UNCHANGED <<node, linked, services>>,
           \A u \in Threads : \/ frame'[u] = frame[u]
                              \/ frame[u].pc \notin Owning /\ frame'[u].pc \notin Owning
    PROVE  NodeInv'
<1>1. \A u \in Threads, n \in Nodes : Owns(u, n)' <=> Owns(u, n)
  BY DEF Owns, Node
<1>2. \A u \in Threads : frame'[u].pc \in Owning =>
         frame'[u] = frame[u] /\ Its(u)' = Its(u) /\ Node(u)' = Node(u) /\ Info(u)' = Info(u)
  BY DEF Its, Node, Info
<1>3. \A s \in Names : ServiceOf(s)' <=> ServiceOf(s)
  BY DEF ServiceOf
<1>4. \A u \in Threads : frame'[u].pc \in Owning =>
          /\ Node(u)' \in Nodes \ linked
          /\ Its(u)'.info = Info(u)' /\ Its(u)'.inst = frame'[u].inst
          /\ Stage(frame'[u].pc, Its(u)')
  BY <1>2 DEF NodeInv
<1>5. QED
  BY <1>1, <1>3, <1>4 DEF NodeInv

\* A node a record of service s may point to.
Serves(r, s) == r.devStatus = "LAUNCHED" /\ r.servStatus /\ SvcName[r.info] = s

\* A thread that gets a node nobody owns, and whose node is changed to r.
LEMMA TakeNode ==
    ASSUME TypeOK, NodeInv, NEW t \in Threads, frame[t].pc \notin Owning,
           NEW p \in Owning, NEW n \in Nodes, NEW r,
           frame' = [frame EXCEPT ![t].pc = p, ![t].node = n],
           node' = [node EXCEPT ![n] = r],
           linked' = linked \ {n}, services' = services,
           \A u \in Threads : ~Owns(u, n),
           r.info = Info(t), r.inst = frame[t].inst, Stage(p, r),
           \A s \in Names : services[s] = n => Serves(r, s)
    PROVE  NodeInv'
<1>0. /\ frame \in [Threads -> FrameRec] /\ frame[t] \in FrameRec
      /\ DOMAIN node = Nodes /\ linked \subseteq Nodes
      /\ services \in [Names -> Nodes \cup {0}]
  BY Types DEF TypeOK
<1>1. /\ frame'[t].pc = p /\ frame'[t].node = n /\ frame'[t].info = Info(t)
      /\ frame'[t].inst = frame[t].inst
      /\ \A u \in Threads \ {t} : frame'[u] = frame[u]
  BY <1>0 DEF FrameRec, Info
<1>2. \A m \in Nodes : node'[m] = IF m = n THEN r ELSE node[m]
  BY <1>0
<1>3. \A u \in Threads, m \in Nodes : Owns(u, m)' <=> (Owns(u, m) \/ (u = t /\ m = n))
  BY <1>1 DEF Owns, Node
<1>4. ASSUME NEW u \in Threads, frame'[u].pc \in Owning
      PROVE  /\ Node(u)' \in Nodes \ linked'
             /\ Its(u)'.info = Info(u)' /\ Its(u)'.inst = frame'[u].inst
             /\ Stage(frame'[u].pc, Its(u)')
  <2>1. CASE u = t
    BY <1>1, <1>2, <2>1 DEF Its, Node, Info
  <2>2. CASE u # t
    <3>1. Node(u)' = Node(u) /\ Info(u)' = Info(u) /\ frame'[u] = frame[u]
      BY <1>1, <2>2 DEF Node, Info
    <3>2. Node(u) \in Nodes \ linked
      BY <1>4, <3>1 DEF NodeInv
    <3>3. Node(u) # n
      BY <1>4, <3>1 DEF Owns
    <3>4. Its(u)' = Its(u)
      BY <1>2, <3>1, <3>2, <3>3 DEF Its
    <3>5. /\ Its(u).info = Info(u) /\ Its(u).inst = frame[u].inst
          /\ Stage(frame[u].pc, Its(u))
      BY <1>4, <3>1 DEF NodeInv
    <3>6. Node(u) \notin linked'
      BY <3>2
    <3>7. QED
      BY <3>1, <3>2, <3>4, <3>5, <3>6
  <2>3. QED
    BY <2>1, <2>2
<1>5. \A u, w \in Threads, m \in Nodes : Owns(u, m)' /\ Owns(w, m)' => u = w
  BY <1>3 DEF NodeInv
<1>6. \A m \in linked' : m \in linked /\ node'[m] = node[m]
  BY <1>0, <1>2
<1>7. \A m \in Nodes : node'[m] = FreeNode \/ m \in linked' \/ \E u \in Threads : Owns(u, m)'
  BY <1>2, <1>3 DEF NodeInv
<1>8. ASSUME NEW s \in Names
      PROVE  ServiceOf(s)'
  <2>1. ServiceOf(s) /\ services[s] \in Nodes \cup {0} /\ (services[s] = n => Serves(r, s))
    BY <1>0 DEF NodeInv
  <2>2. CASE services[s] = 0
    BY <2>2 DEF ServiceOf
  <2>3. CASE services[s] = n
    BY <1>2, <2>1, <2>3 DEF ServiceOf, Serves
  <2>4. CASE services[s] # 0 /\ services[s] # n
    BY <1>2, <2>1, <2>4 DEF ServiceOf
  <2>5. QED
    BY <2>2, <2>3, <2>4
<1>9. QED
  BY <1>4, <1>5, <1>6, <1>7, <1>8 DEF NodeInv

\* A thread that gives up its node: it is linked, or it is free again.
LEMMA GiveNode ==
    ASSUME TypeOK, NodeInv, NEW t \in Threads, frame[t].pc \in Owning,
           \A u \in Threads \ {t} : frame'[u] = frame[u], frame'[t].pc \notin Owning,
           services' = services,
           \/ /\ linked' = linked \cup {Node(t)} /\ node' = node
              /\ Up(Its(t)) /\ Published(Its(t))
           \/ linked' = linked /\ node' = [node EXCEPT ![Node(t)] = FreeNode] /\ Bare(Its(t))
    PROVE  NodeInv'
<1>0. /\ DOMAIN node = Nodes /\ linked \subseteq Nodes /\ Node(t) \in Nodes \ linked
      /\ services \in [Names -> Nodes \cup {0}]
  BY Types DEF TypeOK, NodeInv
<1>1. \A m \in Nodes : m # Node(t) => node'[m] = node[m] /\ (m \in linked' <=> m \in linked)
  BY <1>0
<1>2. \A u \in Threads, m \in Nodes : Owns(u, m)' <=> (Owns(u, m) /\ u # t)
  BY DEF Owns, Node
<1>3. \A m \in Nodes : Owns(t, m) <=> m = Node(t)
  BY DEF Owns
<1>4. ASSUME NEW u \in Threads, frame'[u].pc \in Owning
      PROVE  /\ Node(u)' \in Nodes \ linked'
             /\ Its(u)'.info = Info(u)' /\ Its(u)'.inst = frame'[u].inst
             /\ Stage(frame'[u].pc, Its(u)')
  <2>1. u # t /\ frame'[u] = frame[u] /\ Node(u)' = Node(u) /\ Info(u)' = Info(u)
    BY <1>4 DEF Node, Info
  <2>2. Node(u) \in Nodes \ linked
    BY <1>4, <2>1 DEF NodeInv
  <2>3. Node(u) # Node(t)
    BY <1>0, <1>4, <2>1 DEF NodeInv, Owns
  <2>4. Its(u)' = Its(u) /\ Node(u) \notin linked'
    BY <1>1, <2>1, <2>2, <2>3 DEF Its
  <2>5. QED
    BY <1>4, <2>1, <2>2, <2>4 DEF NodeInv
<1>5. \A u, w \in Threads, m \in Nodes : Owns(u, m)' /\ Owns(w, m)' => u = w
  BY <1>2 DEF NodeInv
<1>6. \A m \in linked' : Up(node'[m]) /\ Published(node'[m])
  <2>1. \A m \in linked : Up(node[m]) /\ Published(node[m]) /\ m # Node(t)
    BY <1>0 DEF NodeInv
  <2>2. QED
    BY <1>0, <1>1, <2>1 DEF Its
<1>7. \A m \in Nodes : node'[m] = FreeNode \/ m \in linked' \/ \E u \in Threads : Owns(u, m)'
  <2>1. node'[Node(t)] = FreeNode \/ Node(t) \in linked'
    BY <1>0
  <2>2. QED
    BY <1>0, <1>1, <1>2, <1>3, <2>1 DEF NodeInv
<1>8. ASSUME NEW s \in Names
      PROVE  ServiceOf(s)'
  <2>1. ServiceOf(s) /\ services[s] \in Nodes \cup {0}
    BY <1>0 DEF NodeInv
  <2>2. CASE services[s] = 0
    BY <2>2 DEF ServiceOf
  <2>3. CASE services[s] # 0 /\ services[s] = Node(t)
    <3>1. Its(t).servStatus
      BY <2>1, <2>3 DEF ServiceOf, Its
    <3>2. node' = node
      BY <3>1 DEF Bare
    <3>3. QED
      BY <2>1, <3>2 DEF ServiceOf
  <2>4. CASE services[s] # 0 /\ services[s] # Node(t)
    BY <1>1, <2>1, <2>4 DEF ServiceOf
  <2>5. QED
    BY <2>2, <2>3, <2>4
<1>9. QED
  BY <1>4, <1>5, <1>6, <1>7, <1>8 DEF NodeInv

\* AddDevice and DelDevice keep NodeInv.
LEMMA AddDelNodes ==
    ASSUME TypeOK, HostInv, NodeInv, NEW t \in Threads, AddDelStep(t)
    PROVE  NodeInv'
<1>0. /\ frame \in [Threads -> FrameRec] /\ frame[t] \in FrameRec
      /\ node \in [Nodes -> NodeRec] /\ linked \subseteq Nodes
      /\ NoFrame.pc = "idle" /\ services \in [Names -> Nodes \cup {0}]
  BY Types DEF NoFrame, TypeOK
<1>1. CASE OwnAction(t)
  <2>1. Changes(t)
    BY <1>1, OwnActions
  <2>2. frame[t].pc \in Owning /\ linked' = linked
    BY <2>1 DEF Changes
  <2>3. PICK p \in Owning, r \in NodeRec :
          /\ frame' = [frame EXCEPT ![t].pc = p]
          /\ node' = [node EXCEPT ![Node(t)] = r]
          /\ r.info = Its(t).info /\ r.inst = Its(t).inst /\ Stage(p, r)
          /\ \A s \in Names :
                \/ services'[s] = 0
                \/ services'[s] = services[s] /\ services[s] # Node(t)
                \/ /\ services'[s] = Node(t)
                   /\ r.devStatus = "LAUNCHED" /\ r.servStatus /\ SvcName[Info(t)] = s
    BY <2>1 DEF Changes
  <2>4. QED
    BY <2>2, <2>3, OwnNodeStep
<1>2. CASE QueryOrAddDevice(t) \/ GetDriver(t) \/ FreeDevice(t)
  <2>1. UNCHANGED <<node, linked, services>> /\ frame[t].pc \notin Owning
    BY <1>2 DEF QueryOrAddDevice, GetDriver, FreeDevice, hostVars, At, Owning
  <2>2. Return(t) \/ \E p \in {"driver", "new", "freeDevice"} : Goto(t, p)
    BY <1>2 DEF QueryOrAddDevice, GetDriver, FreeDevice
  <2>3. /\ \A u \in Threads \ {t} : frame'[u] = frame[u]
        /\ frame'[t].pc \notin Owning
    BY <1>0, <2>2 DEF Return, Goto, Owning, FrameRec
  <2>4. QED
    BY <2>1, <2>3, QuietNodes
<1>3. CASE DeviceNodeNewInstance(t)
  <2>1. frame[t].pc \notin Owning /\ UNCHANGED <<linked, services>>
    BY <1>3 DEF DeviceNodeNewInstance, At, Owning
  <2>2. CASE Return(t) /\ UNCHANGED node
    <3>1. /\ \A u \in Threads \ {t} : frame'[u] = frame[u]
          /\ frame'[t].pc \notin Owning
      BY <1>0, <2>2 DEF Return, Owning
    <3>2. QED
      BY <2>1, <2>2, <3>1, QuietNodes
  <2>3. ASSUME NEW n \in Nodes, node[n] = FreeNode,
               node' = [node EXCEPT ![n] = [FreeNode EXCEPT !.info = Info(t),
                           !.inst = frame[t].inst, !.devStatus = "INITED"]],
               frame' = [frame EXCEPT ![t].pc = "launch", ![t].node = n]
        PROVE  NodeInv'
    <3> DEFINE r == [FreeNode EXCEPT !.info = Info(t), !.inst = frame[t].inst,
                                     !.devStatus = "INITED"]
    <3>1. r.info = Info(t) /\ r.inst = frame[t].inst /\ Stage("launch", r)
      BY DEF FreeNode, Stage, Bare
    <3>2. node' = [node EXCEPT ![n] = r]
      BY <2>3
    <3> HIDE DEF r
    <3>3. ~FreeNode.servStatus /\ FreeNode.devStatus = "FREE"
      BY DEF FreeNode
    <3>4. n \notin linked
      BY <2>3, <3>3 DEF NodeInv, Up
    <3>5. \A u \in Threads : ~Owns(u, n)
      <4> SUFFICES ASSUME NEW u \in Threads, Owns(u, n)
                   PROVE  FALSE
        OBVIOUS
      <4>1. Its(u) = FreeNode /\ frame[u].pc \in Owning
        BY <2>3 DEF Owns, Its
      <4>2. Stage(frame[u].pc, FreeNode) /\ FreeNode.info = Info(u)
        BY <4>1 DEF NodeInv
      <4>3. Info(u) \in Infos
        BY <4>1 DEF HostInv, Owning
      <4>4. QED
        BY <4>2, <4>3, DevmgrAssumption DEF FreeNode
    <3>6. \A s \in Names : services[s] # n
      <4>1. n # 0
        BY DEF Nodes
      <4>2. QED
        BY <2>3, <3>3, <4>1 DEF NodeInv, ServiceOf
    <3>7. "launch" \in Owning /\ linked' = linked \ {n}
      BY <2>1, <3>4 DEF Owning
    <3>8. QED
      BY <2>1, <2>3, <3>1, <3>2, <3>5, <3>6, <3>7, TakeNode
  <2>4. QED
    BY <1>3, <2>2, <2>3 DEF DeviceNodeNewInstance
<1>4. CASE LinkNode(t)
  <2>1. /\ frame[t].pc \in Owning /\ frame[t].pc = "link"
        /\ linked' = linked \cup {Node(t)} /\ UNCHANGED <<node, services>>
    BY <1>4 DEF LinkNode, At, Owning
  <2>2. Up(Its(t)) /\ Published(Its(t))
    BY <2>1 DEF NodeInv, Stage
  <2>3. /\ \A u \in Threads \ {t} : frame'[u] = frame[u]
        /\ frame'[t].pc \notin Owning
    BY <1>0, <1>4 DEF LinkNode, Return, Owning
  <2>4. QED
    BY <2>1, <2>2, <2>3, GiveNode
<1>5. CASE DelDevice(t)
  <2>1. frame[t].pc \notin Owning /\ UNCHANGED <<node, services>>
    BY <1>5 DEF DelDevice, At, Owning
  <2>2. CASE Return(t) /\ UNCHANGED linked
    <3>1. /\ \A u \in Threads \ {t} : frame'[u] = frame[u]
          /\ frame'[t].pc \notin Owning
      BY <1>0, <2>2 DEF Return, Owning
    <3>2. QED
      BY <2>1, <2>2, <3>1, QuietNodes
  <2>3. ASSUME NEW n \in Nodes, n \in GetDeviceNode(t), linked' = linked \ {n},
               frame' = [frame EXCEPT ![t].pc = "release", ![t].node = n]
        PROVE  NodeInv'
    <3>1. /\ n \in linked /\ n \in Nodes /\ node[n].info = Info(t)
          /\ <<node[n].inst, DeviceOf[node[n].info]>> = <<frame[t].inst, DeviceOf[Info(t)]>>
      BY <1>0, <2>3 DEF GetDeviceNode, NodesOf, Device
    <3>2. node[n].inst = frame[t].inst
      BY <3>1
    <3>3. Up(node[n]) /\ Published(node[n])
      BY <3>1 DEF NodeInv
    <3>4. Stage("release", node[n]) /\ "release" \in Owning
      BY <3>3 DEF Up, Published, Stage, Owning
    <3>5. \A u \in Threads : ~Owns(u, n)
      BY <3>1 DEF NodeInv, Owns
    <3>6. \A s \in Names : services[s] = n => Serves(node[n], s)
      <4>1. n # 0
        BY <3>1 DEF Nodes
      <4>2. QED
        BY <4>1 DEF NodeInv, ServiceOf, Serves
    <3>a. PICK r : r = node[n]
      OBVIOUS
    <3>7. /\ node' = [node EXCEPT ![n] = r] /\ r.info = Info(t) /\ r.inst = frame[t].inst
          /\ Stage("release", r)
          /\ \A s \in Names : services[s] = n => Serves(r, s)
      BY <1>0, <2>1, <3>1, <3>2, <3>4, <3>6, <3>a
    <3>8. /\ services' = services /\ n \in Nodes /\ "release" \in Owning
          /\ linked' = linked \ {n} /\ frame[t].pc \notin Owning
          /\ frame' = [frame EXCEPT ![t].pc = "release", ![t].node = n]
      BY <2>1, <2>3, <3>1, <3>4
    <3>9. QED
      BY <3>5, <3>7, <3>8, TakeNode
  <2>4. GetDeviceNode(t) \subseteq Nodes
    BY <1>0 DEF GetDeviceNode, NodesOf
  <2>5. QED
    BY <1>5, <2>2, <2>3, <2>4 DEF DelDevice
<1>6. CASE DestroyNode(t)
  <2>1. /\ frame[t].pc \in Owning /\ frame[t].pc = "destroy" /\ UNCHANGED <<linked, services>>
        /\ node' = [node EXCEPT ![Node(t)] = FreeNode]
    BY <1>6 DEF DestroyNode, At, Owning, SetNode, NodeStep
  <2>2. Bare(Its(t))
    BY <2>1 DEF NodeInv, Stage
  <2>3. /\ \A u \in Threads \ {t} : frame'[u] = frame[u]
        /\ frame'[t].pc \notin Owning
    BY <1>0, <1>6 DEF DestroyNode, Goto, Owning, FrameRec
  <2>4. QED
    BY <2>1, <2>2, <2>3, GiveNode
<1>7. QED
  BY <1>1, <1>2, <1>3, <1>4, <1>5, <1>6 DEF AddDelStep, OwnAction

\* So do the manager's steps: they touch no node.
LEMMA ManagerNodes ==
    ASSUME TypeOK, HostInv, NodeInv,
           \/ BootStep
           \/ \E t \in Threads : \/ InstallNext(t) \/ InstallDone(t)
                                 \/ DevmgrServiceLoadDevice(t)
           \/ \E t \in Loaders, i \in Infos : \/ DevSvcManagerSubscribeService(t, i)
                                              \/ DevmgrServiceUnloadDevice(t, i)
    PROVE  NodeInv'
<1>1. UNCHANGED <<node, linked, services>>
  BY DEF BootStep, DevmgrServiceStartDeviceHost, StartDone, DevmgrServiceLoadLeftDriver,
     InstallNext, InstallDone, DevmgrServiceLoadDevice, DevSvcManagerSubscribeService,
     DevmgrServiceUnloadDevice, hostVars
<1>2. \/ UNCHANGED frame
      \/ \E t \in Threads : /\ frame[t].pc \in {"idle", "load"}
                            /\ \/ Return(t)
                               \/ \E i, pc : pc \in {"load", "query", "del"} /\ Call(t, pc, i)
  <2>1. NoFrame.pc = "idle" /\ Loaders \subseteq Threads
    BY DEF NoFrame, Threads
  <2>2. CASE BootStep
    BY <2>2 DEF BootStep, DevmgrServiceStartDeviceHost, StartDone, DevmgrServiceLoadLeftDriver
  <2>3. ASSUME NEW t \in Threads, InstallNext(t) \/ InstallDone(t)
        PROVE  \/ UNCHANGED frame
               \/ /\ frame[t].pc = "idle"
                  /\ \E i, pc : pc \in {"load", "query", "del"} /\ Call(t, pc, i)
    BY <2>1, <2>3 DEF InstallNext, InstallDone, Idle
  <2>4. ASSUME NEW t \in Threads, DevmgrServiceLoadDevice(t)
        PROVE  /\ frame[t].pc = "load"
               /\ \/ Return(t)
                  \/ \E i, pc : pc \in {"load", "query", "del"} /\ Call(t, pc, i)
    BY <2>4 DEF DevmgrServiceLoadDevice, At
  <2>5. ASSUME NEW t \in Loaders, NEW i \in Infos,
               DevSvcManagerSubscribeService(t, i) \/ DevmgrServiceUnloadDevice(t, i)
        PROVE  /\ t \in Threads /\ frame[t].pc = "idle"
               /\ \E j, pc : pc \in {"load", "query", "del"} /\ Call(t, pc, j)
    BY <2>1, <2>5 DEF DevSvcManagerSubscribeService, DevmgrServiceUnloadDevice, MayCall,
       OutOfCall, Idle
  <2>6. QED
    BY <2>2, <2>3, <2>4, <2>5
<1>3. \A u \in Threads : \/ frame'[u] = frame[u]
                         \/ frame[u].pc \notin Owning /\ frame'[u].pc \notin Owning
  <2>1. DOMAIN frame = Threads /\ NoFrame.pc = "idle"
    BY DEF TypeOK, NoFrame
  <2>2. ASSUME NEW t \in Threads, NEW i, NEW pc \in {"load", "query", "del"}, Call(t, pc, i)
        PROVE  /\ \A u \in Threads \ {t} : frame'[u] = frame[u]
               /\ frame'[t].pc = pc
    BY <2>1, <2>2 DEF Call
  <2>3. ASSUME NEW t \in Threads, Return(t)
        PROVE  /\ \A u \in Threads \ {t} : frame'[u] = frame[u]
               /\ frame'[t].pc = "idle"
    BY <2>1, <2>3 DEF Return
  <2>4. QED
    BY <1>2, <2>2, <2>3 DEF Owning
<1>4. QED
  BY <1>1, <1>3, QuietNodes

\* The initial state.
LEMMA InitFacts == Init => TypeOK /\ HostInv /\ NodeInv
<1> SUFFICES ASSUME Init
             PROVE  TypeOK /\ HostInv /\ NodeInv
  OBVIOUS
<1> USE DEF Init
<1>1. TypeOK
  BY DevmgrAssumption DEF TypeOK, NoFrame, NoLoop, FreeNode, PCs, Statuses, Drivers
<1>2. HostInv
  BY DEF HostInv, NoFrame, NoLoop
<1>3. NodeInv
  BY DEF NodeInv, Owns, Owning, NoFrame, ServiceOf
<1>4. QED
  BY <1>1, <1>2, <1>3

\* Every step keeps the three parts of the invariant.
LEMMA NextFacts == TypeOK /\ HostInv /\ NodeInv /\ [Next]_vars => TypeOK' /\ HostInv' /\ NodeInv'
<1> SUFFICES ASSUME TypeOK, HostInv, NodeInv, [Next]_vars
             PROVE  TypeOK' /\ HostInv' /\ NodeInv'
  OBVIOUS
<1>1. CASE BootStep
  BY <1>1, BootTypes, ManagerNodes
<1>2. ASSUME NEW t \in Threads, AddDelStep(t)
      PROVE  TypeOK' /\ HostInv' /\ NodeInv'
  BY <1>2, AddDelTypes, AddDelNodes
<1>3. ASSUME NEW t \in Threads, InstallNext(t) \/ InstallDone(t) \/ DevmgrServiceLoadDevice(t)
      PROVE  TypeOK' /\ HostInv' /\ NodeInv'
  BY <1>3, CallTypes, ManagerNodes
<1>4. ASSUME NEW t \in Loaders, NEW i \in Infos,
             DevSvcManagerSubscribeService(t, i) \/ DevmgrServiceUnloadDevice(t, i)
      PROVE  TypeOK' /\ HostInv' /\ NodeInv'
  <2>1. t \in Threads
    BY DEF Threads
  <2>2. QED
    BY <1>4, <2>1, CallTypes, ManagerNodes
<1>5. CASE UNCHANGED vars
  <2>1. TypeOK'
    BY <1>5 DEF TypeOK, vars
  <2>2. HostInv'
    BY <1>5 DEF HostInv, vars, Info, InStep2
  <2>3. NodeInv'
    BY <1>5, QuietNodes DEF vars
  <2>4. QED
    BY <2>1, <2>2, <2>3
<1>6. QED
  BY <1>1, <1>2, <1>3, <1>4, <1>5 DEF Next, ThreadStep

\* Type correctness of the device manager and its hosts, whatever fails and however
\* boot, loads and unloads interleave; a device never has a negative count of tokens.
THEOREM TypeThm == Spec => []TypeOK
<1>1. Spec => [](TypeOK /\ HostInv /\ NodeInv)
  BY InitFacts, NextFacts, PTL DEF Spec
<1>2. QED
  BY <1>1, PTL

\* The records of the service manager and the vnodes never lead to a node that is gone
\* or whose driver did not finish Init (HdfDeviceLaunchNode, HdfDeviceUnlaunchNode).
THEOREM ServicesThm == Spec => []ServicesOfLaunchedNodes
<1>1. TypeOK /\ NodeInv => ServicesOfLaunchedNodes
  <2> SUFFICES ASSUME TypeOK, NodeInv
               PROVE  ServicesOfLaunchedNodes
    OBVIOUS
  <2>1. \A s \in Names : ServiceOf(s)
    BY DEF NodeInv
  <2>2. ASSUME NEW n \in Nodes, node[n].servStatus \/ node[n].ioService
        PROVE  node[n].driver \in {"inited", "released"}
    <3>1. CASE node[n] = FreeNode
      BY <2>2, <3>1 DEF FreeNode
    <3>2. CASE n \in linked
      BY <3>2 DEF NodeInv, Up
    <3>3. ASSUME NEW t \in Threads, Owns(t, n)
          PROVE  node[n].driver \in {"inited", "released"}
      <4>1. frame[t].pc \in Owning /\ Its(t) = node[n]
        BY <3>3 DEF Owns, Its
      <4>2. Stage(frame[t].pc, node[n])
        BY <4>1 DEF NodeInv
      <4>3. QED
        BY <2>2, <4>1, <4>2 DEF Stage, Owning, Bare, Up
    <3>4. QED
      BY <3>1, <3>2, <3>3 DEF NodeInv
  <2>3. QED
    BY <2>1, <2>2 DEF ServicesOfLaunchedNodes, ServiceOf
<1>2. Spec => [](TypeOK /\ HostInv /\ NodeInv)
  BY InitFacts, NextFacts, PTL DEF Spec
<1>3. QED
  BY <1>1, <1>2, PTL

\* Release is called exactly once for a driver that was entered, on every path that
\* frees its node (HdfDeviceUnlaunchNode, HdfDeviceNodeDestruct).
THEOREM ReleasedThm == Spec => []ReleasedExactlyOnce
<1>1. NodeInv => ReleasedExactlyOnce
  <2> SUFFICES ASSUME NodeInv, NEW t \in Threads
               PROVE  /\ At(t, "release") => Its(t).driver \in {"entered", "inited"}
                      /\ At(t, "destroy") => Its(t).driver \in {"idle", "released"}
    BY DEF ReleasedExactlyOnce
  <2>1. frame[t].pc \in Owning => Stage(frame[t].pc, Its(t))
    BY DEF NodeInv
  <2>2. QED
    BY <2>1 DEF At, Owning, Stage
<1>2. Spec => [](TypeOK /\ HostInv /\ NodeInv)
  BY InitFacts, NextFacts, PTL DEF Spec
<1>3. QED
  BY <1>1, <1>2, PTL

(***************************************************************************)
(* What AddDevice and DelDevice leave behind.  Two calls about one device  *)
(* may race when a dynamic device is loaded from outside DeviceManager-    *)
(* Dispatch or on a host that the boot thread starts, and the properties   *)
(* below then fail (run devmgr_late).  They hold when all calls come       *)
(* through the dispatcher and no host has both dynamic and other devices.  *)
(***************************************************************************)
Serialized ==
    /\ Loaders = Users
    /\ \A i \in Infos : Preload[i] = "DISABLE" => UnloadSeq[HostOf[i]] = <<>>
    /\ \A j, k \in 1..Len(HostSeq) : HostSeq[j] = HostSeq[k] => j = k

\* One call of the dispatcher at a time, about dynamic devices; the boot thread
\* calls from its loops only, about the other devices.
SerialInv ==
    /\ \A t, u \in Loaders : ~OutOfCall(t) /\ ~OutOfCall(u) => t = u
    /\ \A t \in Threads : frame[t].pc # "idle" => (Preload[Info(t)] = "DISABLE" <=> t # Boot)
    /\ \A t \in Loaders : loop[t].host # None =>
          UnloadSeq[loop[t].host] = <<>> /\ Preload[loop[t].then] = "DISABLE"
                                         /\ frame[t].pc = "idle"
    /\ loop[Boot].host = None => frame[Boot].pc = "idle"
    /\ frame[Boot].pc # "load"
    /\ \A t \in Threads : loop[t].host = None => loop[t] = NoLoop
    /\ phase = "hosts" /\ loop[Boot].host # None =>
          /\ cursor <= Len(HostSeq) /\ loop[Boot].host = HostSeq[cursor]
          /\ UnloadSeq[loop[Boot].host] # <<>>

\* A host is started once, and a call about a device works on its host's instance.
InstInv ==
    /\ \A g, h \in Hosts : hostService[g] = hostService[h] /\ hostService[g] # 0 => g = h
    /\ \A h \in Hosts : UnloadSeq[h] = <<>> /\ hostService[h] # 0 =>
          h \in hostPid \/ \E t \in Loaders : loop[t].host = h
    /\ phase = "hosts" =>
          \A k \in 1..Len(HostSeq) :
             /\ UnloadSeq[HostSeq[k]] # <<>>
             /\ k > cursor \/ (k = cursor /\ loop[Boot].host = None)
             => hostService[HostSeq[k]] = 0
    /\ \A t \in Threads : frame[t].pc \notin {"idle", "load"} =>
          frame[t].inst = hostService[HostOf[Info(t)]]
    /\ \A n \in linked : /\ node[n].info \in Infos
                         /\ node[n].inst = hostService[HostOf[node[n].info]]
                         /\ node[n].inst # 0

Before == {"idle", "load", "query"}
Adding == {"query", "driver", "new", "launch", "bind", "init", "io", "service", "local",
           "attach", "link"}

\* A device of a host's list.
DeviceOfNode(n) == <<node[n].inst, DeviceOf[node[n].info]>>

\* The calls during which the manager holds a token for a node that is not listed.
HasToken(t) ==
    \/ At(t, "link")
    \/ frame[t].del /\ frame[t].pc \in {"release", "remove", "detach"}
Listed(i)  == \E n \in linked : node[n].info = i
Tokened(i) == Listed(i) \/ \E t \in Threads : Info(t) = i /\ HasToken(t)

\* What a call is about to do, by the place it has reached.
DelInv ==
    \A t \in Threads : /\ frame[t].pc \in Adding => ~frame[t].del
                       /\ frame[t].pc = "load" => ~frame[t].del
                       /\ frame[t].pc = "del" => frame[t].del
                       /\ frame[t].pc = "free" /\ frame[t].del =>
                             Its(t).devStatus # "LAUNCHED"
                       /\ frame[t].del => t # Boot

\* Devices outlive their use.
DeviceInv ==
    /\ \A n \in linked : DeviceOfNode(n) \in devices
    /\ \A t \in Threads : frame[t].pc \notin Before /\ ~frame[t].del => Device(t) \in devices

\* A device has one node, listed or in the hands of a call.
OneInv ==
    /\ \A t \in Threads : frame[t].pc \notin Before \cup {"del"} => ~Listed(Info(t))
    /\ \A m, n \in linked : node[m].info = node[n].info => m = n

\* The manager holds one token for a listed device, and none for others.
TokenInv == \A i \in Infos : tokens[i] = IF Tokened(i) THEN 1 ELSE 0

\* Start-up loses no device, at any time.
LeftInv ==
    \A i \in Infos : Preload[i] # "DISABLE" =>
        /\ i \in unloadDevInfos => ~Listed(i)
        /\ HostOf[i] \in hosts /\ i \notin unloadDevInfos => Listed(i)

\* A step of AddDevice or DelDevice, as the other threads see it.
LEMMA AddDelThread ==
    ASSUME TypeOK, HostInv, NodeInv, NEW t \in Threads, AddDelStep(t)
    PROVE  /\ UNCHANGED <<phase, cursor, hosts, hostService, instances, hostPid, calls, loop>>
           /\ frame[t].pc # "idle" /\ frame[t].pc # "load"
           /\ \A u \in Threads \ {t} : frame'[u] = frame[u]
           /\ \/ frame'[t] = NoFrame
              \/ /\ frame'[t].pc \in PCs \ {"idle", "load"}
                 /\ frame'[t].info = frame[t].info /\ frame'[t].inst = frame[t].inst
                 /\ frame'[t].del = frame[t].del
           /\ \A n \in linked : n \in Nodes /\ node'[n] = node[n]
           /\ linked' \subseteq linked \/ LinkNode(t)
<1>1. /\ UNCHANGED <<phase, cursor, hosts, hostService, instances, hostPid, calls, loop>>
      /\ frame[t].pc # "idle" /\ frame[t].pc # "load"
  BY AddDelFrame DEF InCall, mgrVars
<1>2. /\ \A u \in Threads \ {t} : frame'[u] = frame[u]
      /\ \/ frame'[t] = NoFrame
         \/ /\ frame'[t].pc \in PCs \ {"idle", "load"}
            /\ frame'[t].info = frame[t].info /\ frame'[t].inst = frame[t].inst
            /\ frame'[t].del = frame[t].del
  <2>1. CASE Return(t)
    BY <2>1, Types DEF Return
  <2>2. ASSUME NEW p \in PCs \ {"idle", "load"}, Goto(t, p)
        PROVE  /\ \A u \in Threads \ {t} : frame'[u] = frame[u]
               /\ frame'[t].pc \in PCs \ {"idle", "load"}
               /\ frame'[t].info = frame[t].info /\ frame'[t].inst = frame[t].inst
               /\ frame'[t].del = frame[t].del
    BY <2>2, Types DEF Goto, FrameRec
  <2>3. ASSUME NEW n \in Nodes, NEW p \in {"launch", "release"},
               frame' = [frame EXCEPT ![t].pc = p, ![t].node = n]
        PROVE  /\ \A u \in Threads \ {t} : frame'[u] = frame[u]
               /\ frame'[t].pc \in PCs \ {"idle", "load"}
               /\ frame'[t].info = frame[t].info /\ frame'[t].inst = frame[t].inst
               /\ frame'[t].del = frame[t].del
    BY <2>3, Types DEF FrameRec, PCs
  <2>4. QED
    BY <2>1, <2>2, <2>3, AddDelFrame
<1>3. \A n \in linked : n \in Nodes /\ node'[n] = node[n]
  <2>0. linked \subseteq Nodes /\ DOMAIN node = Nodes
    BY DEF TypeOK
  <2>1. CASE Changes(t)
    <3>1. PICK p \in Owning, r \in NodeRec : node' = [node EXCEPT ![Node(t)] = r]
      BY <2>1 DEF Changes
    <3>2. Node(t) \notin linked
      BY <2>1 DEF Changes, NodeInv
    <3>3. QED
      BY <2>0, <3>1, <3>2
  <2>2. CASE DeviceNodeNewInstance(t)
    <3>1. node' = node \/ \E n \in Nodes : \E r : node[n] = FreeNode /\ node' = [node EXCEPT ![n] = r]
      BY <2>2 DEF DeviceNodeNewInstance
    <3>2. \A n \in linked : node[n] # FreeNode
      BY DEF NodeInv, Up, FreeNode
    <3>3. QED
      BY <2>0, <3>1, <3>2
  <2>3. CASE DestroyNode(t)
    <3>1. node' = [node EXCEPT ![Node(t)] = FreeNode] /\ frame[t].pc \in Owning
      BY <2>3 DEF DestroyNode, SetNode, At, Owning
    <3>2. Node(t) \notin linked
      BY <3>1 DEF NodeInv
    <3>3. QED
      BY <2>0, <3>1, <3>2
  <2>4. CASE \/ QueryOrAddDevice(t) \/ GetDriver(t) \/ LinkNode(t) \/ DelDevice(t)
             \/ FreeDevice(t)
    BY <2>0, <2>4 DEF QueryOrAddDevice, GetDriver, LinkNode, DelDevice, FreeDevice, hostVars
  <2>5. QED
    BY <2>1, <2>2, <2>3, <2>4, OwnActions DEF AddDelStep, OwnAction
<1>4. linked' \subseteq linked \/ LinkNode(t)
  BY DEF AddDelStep, QueryOrAddDevice, GetDriver, DeviceNodeNewInstance, LaunchNode,
     DriverBind, DriverInit, IoServicePublish, PublishPublicService, PublishLocalService,
     AttachDevice, DelDevice, FreeInstance, DriverRelease, UnlaunchRemove,
     DetachDevice, DestroyNode, FreeDevice, NodeStep, hostVars
<1>5. QED
  BY <1>1, <1>2, <1>3, <1>4

\* AddDevice and DelDevice keep the calls apart and their hosts.
LEMMA AddDelSerial ==
    ASSUME TypeOK, HostInv, NodeInv, SerialInv, InstInv, NEW t \in Threads, AddDelStep(t)
    PROVE  SerialInv' /\ InstInv'
<1>1. /\ UNCHANGED <<phase, cursor, hosts, hostService, instances, hostPid, calls, loop>>
      /\ frame[t].pc # "idle" /\ frame[t].pc # "load"
      /\ \A u \in Threads \ {t} : frame'[u] = frame[u]
      /\ \/ frame'[t] = NoFrame
         \/ /\ frame'[t].pc \in PCs \ {"idle", "load"}
            /\ frame'[t].info = frame[t].info /\ frame'[t].inst = frame[t].inst
      /\ \A n \in linked : node'[n] = node[n]
      /\ linked' \subseteq linked \/ LinkNode(t)
  BY AddDelThread
<1>2. NoFrame.pc = "idle" /\ Loaders \subseteq Threads /\ Boot \in Threads
  BY DEF NoFrame, Threads
<1>3. \A u \in Loaders : ~OutOfCall(u)' => ~OutOfCall(u)
  BY <1>1, <1>2 DEF OutOfCall, Idle
<1>4. \A u \in Threads : frame'[u].pc # "idle" => frame[u].pc # "idle" /\ Info(u)' = Info(u)
  BY <1>1, <1>2 DEF Info
<1>5. SerialInv'
  <2>1. \A u \in Threads : frame[u].pc = "idle" => frame'[u].pc = "idle"
    BY <1>1, <1>2
  <2>2. QED
    BY <1>1, <1>2, <1>3, <1>4, <2>1 DEF SerialInv
<1>6. \A n \in linked' : /\ node'[n].info \in Infos
                         /\ node'[n].inst = hostService[HostOf[node'[n].info]]
                         /\ node'[n].inst # 0
  <2>1. CASE linked' \subseteq linked
    BY <1>1, <2>1 DEF InstInv
  <2>2. CASE LinkNode(t)
    <3>1. linked' = linked \cup {Node(t)} /\ node' = node /\ frame[t].pc = "link"
      BY <2>2 DEF LinkNode, At
    <3>2. node[Node(t)].info = Info(t) /\ node[Node(t)].inst = frame[t].inst
      BY <3>1 DEF NodeInv, Its, Owning
    <3>3. Info(t) \in Infos /\ frame[t].inst # 0
      BY <1>1 DEF HostInv
    <3>4. frame[t].inst = hostService[HostOf[Info(t)]]
      BY <1>1 DEF InstInv
    <3>5. QED
      BY <3>1, <3>2, <3>3, <3>4 DEF InstInv
  <2>3. QED
    BY <1>1, <2>1, <2>2
<1>7. \A u \in Threads : frame'[u].pc \notin {"idle", "load"} =>
         frame'[u].inst = hostService[HostOf[Info(u)']]
  BY <1>1, <1>2 DEF InstInv, Info
<1>8. InstInv'
  BY <1>1, <1>6, <1>7 DEF InstInv
<1>9. QED
  BY <1>5, <1>8

\* Two threads in calls work on different devices.
LEMMA Apart ==
    ASSUME Serialized, HostInv, SerialInv, InstInv,
           NEW t \in Threads, NEW u \in Threads, t # u,
           frame[t].pc # "idle", frame[u].pc # "idle"
    PROVE  /\ Info(t) # Info(u)
           /\ frame[t].pc # "load" /\ frame[u].pc # "load" => Device(t) # Device(u)
<1>1. t = Boot \/ u = Boot
  <2>1. NoFrame.pc = "idle"
    BY DEF NoFrame
  <2>2. ~(t \in Loaders /\ u \in Loaders)
    BY <2>1 DEF SerialInv, OutOfCall, Idle
  <2>3. QED
    BY <2>2 DEF Threads
<1>2. /\ Info(t) \in Infos /\ Info(u) \in Infos
      /\ (Preload[Info(t)] = "DISABLE") # (Preload[Info(u)] = "DISABLE")
  BY <1>1 DEF HostInv, SerialInv
<1>3. ASSUME NEW i \in Infos, NEW j \in Infos, Preload[i] = "DISABLE", Preload[j] # "DISABLE"
      PROVE  HostOf[i] # HostOf[j]
  <2>1. UnloadSeq[HostOf[i]] = <<>>
    BY <1>3 DEF Serialized
  <2>2. \E k \in 1..Len(UnloadSeq[HostOf[j]]) : UnloadSeq[HostOf[j]][k] = j
    BY <1>3, DevmgrAssumption
  <2>3. QED
    BY <2>1, <2>2
<1>4. HostOf[Info(t)] # HostOf[Info(u)]
  BY <1>2, <1>3
<1>5. ASSUME frame[t].pc # "load", frame[u].pc # "load"
      PROVE  Device(t) # Device(u)
  <2>1. /\ frame[t].inst = hostService[HostOf[Info(t)]] /\ frame[t].inst # 0
        /\ frame[u].inst = hostService[HostOf[Info(u)]]
    BY <1>5 DEF InstInv, HostInv
  <2>2. HostOf[Info(t)] \in Hosts /\ HostOf[Info(u)] \in Hosts
    BY <1>2, DevmgrAssumption
  <2>3. frame[t].inst # frame[u].inst
    BY <1>4, <2>1, <2>2 DEF InstInv
  <2>4. QED
    BY <2>3 DEF Device
<1>6. QED
  BY <1>4, <1>5

\* How a step on a thread's own node moves the thread, and what it does to the tokens.
OwnMove(t, p) ==
    \/ /\ frame[t].pc \in Adding \ {"query", "driver", "new", "link"}
       /\ p \in (Adding \ {"query", "driver", "new", "link"}) \cup {"free"}
       /\ tokens' = tokens
    \/ /\ frame[t].pc = "attach" /\ p = "link"
       /\ tokens' = [tokens EXCEPT ![Info(t)] = @ + 1]
    \/ /\ frame[t].pc = "free" /\ p = "release" /\ Its(t).devStatus = "LAUNCHED"
       /\ tokens' = tokens
    \/ frame[t].pc = "free" /\ p = "destroy" /\ tokens' = tokens
    \/ frame[t].pc = "release" /\ p = "remove" /\ tokens' = tokens
    \/ frame[t].pc = "remove" /\ p = "detach" /\ tokens' = tokens
    \/ /\ frame[t].pc = "detach" /\ p = (IF frame[t].del THEN "free" ELSE "destroy")
       /\ tokens' = [tokens EXCEPT ![Info(t)] = IF @ > 0 THEN @ - 1 ELSE 0]
       /\ Its(t)'.devStatus = "INITED"

\* The steps on a thread's own node move it so.
LEMMA OwnMoves ==
    ASSUME TypeOK, HostInv, NodeInv, NEW t \in Threads, OwnAction(t)
    PROVE  /\ \E p \in Owning : Goto(t, p) /\ OwnMove(t, p)
           /\ UNCHANGED <<devices, linked, unloadDevInfos>>
<1>0. UNCHANGED <<devices, linked, unloadDevInfos>>
  BY OwnActions DEF Changes
<1> USE DEF At, Owning, Adding, OwnMove
<1>1. CASE LaunchNode(t)
  BY <1>0, <1>1 DEF LaunchNode
<1>2. CASE DriverBind(t)
  BY <1>0, <1>2 DEF DriverBind
<1>3. CASE DriverInit(t)
  <2>1. Policy[Info(t)] \in {"NONE", "PUBLIC", "CAPACITY", "FRIENDLY", "PRIVATE"}
    BY <1>3, DevmgrAssumption DEF DriverInit, HostInv
  <2>2. PublishFrom(Policy[Info(t)]) \in {"attach", "local", "service", "io"}
    BY <2>1 DEF PublishFrom
  <2>3. QED
    BY <1>0, <1>3, <2>2 DEF DriverInit
<1>4. CASE IoServicePublish(t) \/ PublishPublicService(t) \/ PublishLocalService(t)
  BY <1>0, <1>4 DEF IoServicePublish, PublishPublicService, PublishLocalService
<1>5. CASE AttachDevice(t)
  BY <1>0, <1>5 DEF AttachDevice
<1>6. CASE FreeInstance(t)
  BY <1>0, <1>6 DEF FreeInstance
<1>7. CASE DriverRelease(t) \/ UnlaunchRemove(t)
  BY <1>0, <1>7 DEF DriverRelease, UnlaunchRemove
<1>8. CASE DetachDevice(t)
  <2> DEFINE r == [Its(t) EXCEPT !.devStatus = "INITED"]
             p == IF frame[t].del THEN "free" ELSE "destroy"
  <2>1. /\ frame[t].pc = "detach" /\ node' = [node EXCEPT ![Node(t)] = r] /\ Goto(t, p)
        /\ tokens' = [tokens EXCEPT ![Info(t)] = IF @ > 0 THEN @ - 1 ELSE 0]
    BY <1>8 DEF DetachDevice, SetNode
  <2>2. Node(t) \in Nodes /\ Its(t) \in NodeRec /\ DOMAIN node = Nodes
    BY <2>1, Types DEF NodeInv, Its
  <2>3. r.devStatus = "INITED"
    BY <2>2 DEF NodeRec
  <2> HIDE DEF r
  <2>4. Node(t)' = Node(t)
    BY <2>1, Types DEF Goto, Node, FrameRec
  <2>5. Its(t)'.devStatus = "INITED"
    BY <2>1, <2>2, <2>3, <2>4 DEF Its
  <2>6. p \in Owning
    OBVIOUS
  <2>7. QED
    BY <1>0, <2>1, <2>5, <2>6
<1>9. QED
  BY <1>1, <1>2, <1>3, <1>4, <1>5, <1>6, <1>7, <1>8 DEF OwnAction

\* The places AddDevice and DelDevice go through.
LEMMA AddDelMoves ==
    ASSUME TypeOK, HostInv, NodeInv, NEW t \in Threads, AddDelStep(t)
    PROVE  /\ \/ frame'[t] = NoFrame
              \/ \E p \in Owning : frame'[t].pc = p /\ OwnMove(t, p)
              \/ frame[t].pc \in Adding /\ frame'[t].pc \in {"driver", "new", "launch", "freeDevice"}
              \/ frame[t].pc = "del" /\ frame'[t].pc = "release"
              \/ frame[t].pc = "destroy" /\ frame'[t].pc = "freeDevice"
           /\ frame'[t].pc = "driver" => QueryOrAddDevice(t)
           /\ OwnAction(t) \/ tokens' = tokens
           /\ devices' = devices \/ QueryOrAddDevice(t) \/ FreeDevice(t)
           /\ linked' = linked \/ LinkNode(t) \/ DelDevice(t)
           /\ unloadDevInfos' = unloadDevInfos \/ LinkNode(t)
<1>0. frame \in [Threads -> FrameRec] /\ frame[t] \in FrameRec
  BY Types
<1>1. CASE OwnAction(t)
  <2>1. PICK p \in Owning : Goto(t, p) /\ OwnMove(t, p)
    BY <1>1, OwnMoves
  <2>2. frame'[t].pc = p
    BY <1>0, <2>1 DEF Goto, FrameRec
  <2>3. QED
    BY <1>1, <2>1, <2>2, OwnMoves DEF Owning
<1>2. CASE QueryOrAddDevice(t) \/ GetDriver(t)
  <2>1. /\ UNCHANGED <<tokens, linked, unloadDevInfos>> /\ frame[t].pc \in Adding
        /\ devices' = devices \/ QueryOrAddDevice(t)
        /\ Return(t) \/ (QueryOrAddDevice(t) /\ Goto(t, "driver"))
                     \/ Goto(t, "new") \/ Goto(t, "freeDevice")
    BY <1>2 DEF QueryOrAddDevice, GetDriver, At, Adding, hostVars
  <2>2. /\ Return(t) => frame'[t] = NoFrame
        /\ \A p : Goto(t, p) => frame'[t].pc = p
    BY <1>0 DEF Return, Goto, FrameRec
  <2>3. NoFrame.pc = "idle"
    BY DEF NoFrame
  <2>4. QED
    BY <2>1, <2>2, <2>3
<1>3. CASE DeviceNodeNewInstance(t)
  <2>1. /\ UNCHANGED <<tokens, linked, unloadDevInfos, devices>> /\ frame[t].pc \in Adding
        /\ Return(t) \/ \E n \in Nodes : frame' = [frame EXCEPT ![t].pc = "launch", ![t].node = n]
    BY <1>3 DEF DeviceNodeNewInstance, At, Adding
  <2>2. frame'[t] = NoFrame \/ frame'[t].pc = "launch"
    BY <1>0, <2>1 DEF Return, FrameRec
  <2>3. QED
    BY <2>1, <2>2 DEF NoFrame
<1>4. CASE LinkNode(t) \/ FreeDevice(t)
  <2>1. Return(t) /\ tokens' = tokens
    BY <1>4 DEF LinkNode, FreeDevice
  <2>2. frame'[t] = NoFrame
    BY <1>0, <2>1 DEF Return
  <2>3. QED
    BY <1>4, <2>1, <2>2 DEF LinkNode, FreeDevice, NoFrame
<1>5. CASE DelDevice(t)
  <2>1. /\ UNCHANGED <<tokens, unloadDevInfos, devices>> /\ frame[t].pc = "del"
        /\ Return(t) \/ \E n : frame' = [frame EXCEPT ![t].pc = "release", ![t].node = n]
    BY <1>5 DEF DelDevice, At
  <2>2. frame'[t] = NoFrame \/ frame'[t].pc = "release"
    BY <1>0, <2>1 DEF Return, FrameRec
  <2>3. QED
    BY <1>5, <2>1, <2>2 DEF NoFrame
<1>6. CASE DestroyNode(t)
  <2>1. /\ UNCHANGED <<tokens, unloadDevInfos, devices, linked>> /\ frame[t].pc = "destroy"
        /\ Goto(t, "freeDevice")
    BY <1>6 DEF DestroyNode, At, NodeStep
  <2>2. frame'[t].pc = "freeDevice"
    BY <1>0, <2>1 DEF Goto, FrameRec
  <2>3. QED
    BY <2>1, <2>2
<1>7. QED
  BY <1>1, <1>2, <1>3, <1>4, <1>5, <1>6 DEF AddDelStep, OwnAction

\* Another thread's node does not change.
LEMMA OtherNodes ==
    ASSUME TypeOK, HostInv, NodeInv, NEW t \in Threads, AddDelStep(t),
           NEW u \in Threads, u # t, frame[u].pc \in Owning
    PROVE  Its(u)' = Its(u)
<1>1. frame'[u] = frame[u]
  BY AddDelThread
<1>2. /\ Node(u)' = Node(u) /\ Node(u) \in Nodes /\ DOMAIN node = Nodes
      /\ Its(u).info = Info(u) /\ Info(u) \in Infos
      /\ frame[t].pc \in Owning => Node(u) # Node(t)
  BY <1>1 DEF Node, NodeInv, TypeOK, Owns, HostInv, Owning
<1>3. CASE Changes(t)
  BY <1>2, <1>3 DEF Changes, Its
<1>4. CASE DestroyNode(t)
  BY <1>2, <1>4 DEF DestroyNode, SetNode, At, Owning, Its
<1>5. CASE DeviceNodeNewInstance(t)
  <2>1. Its(u) # FreeNode
    BY <1>2, DevmgrAssumption DEF FreeNode
  <2>2. node' = node \/ \E n \in Nodes : \E r : node[n] = FreeNode /\ node' = [node EXCEPT ![n] = r]
    BY <1>5 DEF DeviceNodeNewInstance
  <2>3. QED
    BY <1>2, <2>1, <2>2 DEF Its
<1>6. CASE node' = node
  BY <1>2, <1>6 DEF Its
<1>7. CASE \/ QueryOrAddDevice(t) \/ GetDriver(t) \/ LinkNode(t) \/ DelDevice(t)
           \/ FreeDevice(t)
  BY <1>6, <1>7 DEF QueryOrAddDevice, GetDriver, LinkNode, DelDevice, FreeDevice, hostVars
<1>8. QED
  BY <1>3, <1>4, <1>5, <1>7, OwnActions DEF AddDelStep, OwnAction

\* AddDevice and DelDevice keep DelInv.
LEMMA AddDelDel ==
    ASSUME TypeOK, HostInv, NodeInv, DelInv, NEW t \in Threads, AddDelStep(t)
    PROVE  DelInv'
<1> SUFFICES ASSUME NEW u \in Threads
             PROVE  /\ frame'[u].pc \in Adding => ~frame'[u].del
                    /\ frame'[u].pc = "load" => ~frame'[u].del
                    /\ frame'[u].pc = "del" => frame'[u].del
                    /\ frame'[u].pc = "free" /\ frame'[u].del => Its(u)'.devStatus # "LAUNCHED"
                    /\ frame'[u].del => u # Boot
  BY DEF DelInv
<1>1. CASE u # t
  <2>1. frame'[u] = frame[u]
    BY <1>1, AddDelThread
  <2>2. frame[u].pc = "free" => Its(u)' = Its(u)
    BY <1>1, OtherNodes DEF Owning
  <2>3. QED
    BY <2>1, <2>2 DEF DelInv
<1>2. CASE u = t
  <2>0. NoFrame.pc = "idle" /\ NoFrame.del = FALSE
    BY DEF NoFrame
  <2>1. frame'[t] = NoFrame \/ frame'[t].del = frame[t].del
    BY AddDelThread
  <2>2. CASE frame'[t] = NoFrame
    BY <1>2, <2>0, <2>2 DEF Adding
  <2>3. CASE frame'[t].del = frame[t].del /\ \E p \in Owning : frame'[t].pc = p /\ OwnMove(t, p)
    <3>1. frame'[t].pc \in Owning /\ OwnMove(t, frame'[t].pc)
      BY <2>3
    <3>2. frame'[t].pc \in Adding \cup {"free"} /\ frame[t].pc # "detach" => frame[t].pc \in Adding
      BY <3>1 DEF OwnMove, Adding
    <3>3. frame[t].pc = "detach" => /\ frame'[t].pc \notin Adding
                                    /\ Its(t)'.devStatus = "INITED"
      BY <3>1 DEF OwnMove, Adding
    <3>4. frame'[t].pc # "load" /\ frame'[t].pc # "del"
      BY <3>1 DEF Owning
    <3>5. QED
      BY <1>2, <2>3, <3>2, <3>3, <3>4 DEF DelInv
  <2>4. CASE /\ frame'[t].del = frame[t].del
             /\ frame[t].pc \in Adding /\ frame'[t].pc \in {"driver", "new", "launch", "freeDevice"}
    BY <1>2, <2>4 DEF DelInv, Adding
  <2>5. CASE /\ frame'[t].del = frame[t].del
             /\ \/ frame[t].pc = "del" /\ frame'[t].pc = "release"
                \/ frame[t].pc = "destroy" /\ frame'[t].pc = "freeDevice"
    BY <1>2, <2>5 DEF DelInv, Adding
  <2>6. QED
    BY <2>1, <2>2, <2>3, <2>4, <2>5, AddDelMoves
<1>3. QED
  BY <1>1, <1>2

\* AddDevice and DelDevice keep DeviceInv.
LEMMA AddDelDevice ==
    ASSUME Serialized, TypeOK, HostInv, NodeInv, SerialInv, InstInv, DelInv, DeviceInv,
           NEW t \in Threads, AddDelStep(t)
    PROVE  DeviceInv'
<1>1. /\ frame[t].pc # "idle" /\ frame[t].pc # "load"
      /\ \A u \in Threads \ {t} : frame'[u] = frame[u] /\ Device(u)' = Device(u)
      /\ \/ frame'[t] = NoFrame
         \/ Device(t)' = Device(t) /\ frame'[t].del = frame[t].del
      /\ \A n \in linked : DeviceOfNode(n)' = DeviceOfNode(n)
      /\ linked' \subseteq linked \/ LinkNode(t)
  BY AddDelThread DEF Device, Info, DeviceOfNode
<1>2. NoFrame.pc = "idle" /\ "idle" \in Before
  BY DEF NoFrame, Before
<1>3. \/ devices \subseteq devices'
      \/ /\ devices' = devices \ {Device(t)} /\ frame'[t] = NoFrame
         /\ \A n \in linked : DeviceOfNode(n) # Device(t)
         /\ ~LinkNode(t)
  <2>1. CASE FreeDevice(t)
    <3>1. Return(t) /\ ~LinkNode(t)
          /\ devices' = IF NodesOf(Device(t)) = {} THEN devices \ {Device(t)} ELSE devices
      BY <2>1 DEF FreeDevice, LinkNode, At
    <3>2. frame'[t] = NoFrame
      BY <3>1, Types DEF Return
    <3>3. NodesOf(Device(t)) = {} => \A n \in linked : DeviceOfNode(n) # Device(t)
      BY DEF NodesOf, DeviceOfNode
    <3>4. QED
      BY <3>1, <3>2, <3>3
  <2>2. CASE QueryOrAddDevice(t)
    BY <2>2 DEF QueryOrAddDevice
  <2>3. QED
    BY <2>1, <2>2, AddDelMoves
<1>4. \A n \in linked' : DeviceOfNode(n)' \in devices'
  <2>1. \A n \in linked : DeviceOfNode(n)' \in devices'
    BY <1>1, <1>3 DEF DeviceInv
  <2>2. CASE LinkNode(t)
    <3>1. linked' = linked \cup {Node(t)} /\ node' = node /\ frame[t].pc = "link"
          /\ devices' = devices
      BY <2>2 DEF LinkNode, At
    <3>2. PICK m : m = Node(t)
      OBVIOUS
    <3>3. DeviceOfNode(m)' = Device(t)
      BY <3>1, <3>2 DEF NodeInv, Its, Owning, DeviceOfNode, Device
    <3>4. Device(t) \in devices
      BY <3>1 DEF DeviceInv, DelInv, Before, Adding
    <3>5. QED
      BY <2>1, <3>1, <3>2, <3>3, <3>4
  <2>3. QED
    BY <1>1, <2>1, <2>2
<1>5. ASSUME NEW u \in Threads, frame'[u].pc \notin Before, ~frame'[u].del
      PROVE  Device(u)' \in devices'
  <2>1. CASE u # t
    <3>1. frame'[u] = frame[u] /\ Device(u)' = Device(u) /\ Device(u) \in devices
      BY <1>1, <1>5, <2>1 DEF DeviceInv
    <3>2. Device(u) # Device(t)
      BY <1>1, <1>5, <2>1, <3>1, Apart DEF Before
    <3>3. QED
      BY <1>3, <3>1, <3>2
  <2>2. CASE u = t
    <3>1. frame'[t] # NoFrame /\ Device(t)' = Device(t) /\ ~frame[t].del
      BY <1>1, <1>2, <1>5, <2>2
    <3>2. CASE frame[t].pc = "query"
      <4>1. QueryOrAddDevice(t)
        BY <3>2 DEF AddDelStep, QueryOrAddDevice, GetDriver, DeviceNodeNewInstance, LaunchNode,
           DriverBind, DriverInit, IoServicePublish, PublishPublicService, PublishLocalService,
           AttachDevice, LinkNode, DelDevice, FreeInstance, DriverRelease, UnlaunchRemove,
           DetachDevice, DestroyNode, FreeDevice, At
      <4>2. Return(t) => frame'[t] = NoFrame
        BY Types DEF Return
      <4>3. devices' = devices \cup {Device(t)}
        BY <3>1, <4>1, <4>2 DEF QueryOrAddDevice
      <4>4. QED
        BY <2>2, <3>1, <4>3
    <3>3. CASE frame[t].pc # "query"
      <4>1. Device(t) \in devices
        BY <1>1, <3>1, <3>3 DEF DeviceInv, Before
      <4>2. QED
        BY <1>3, <2>2, <3>1, <4>1
    <3>4. QED
      BY <3>2, <3>3
  <2>3. QED
    BY <2>1, <2>2
<1>6. QED
  BY <1>4, <1>5 DEF DeviceInv

\* What a step of AddDevice or DelDevice about info i does to the lists.
LEMMA AddDelListed ==
    ASSUME TypeOK, HostInv, NodeInv, InstInv, OneInv, NEW t \in Threads, AddDelStep(t),
           NEW i \in Infos, i = Info(t)
    PROVE  /\ \A j \in Infos : j # i => (Listed(j)' <=> Listed(j))
           /\ \/ (Listed(i)' <=> Listed(i)) /\ linked' = linked
              \/ LinkNode(t) /\ Listed(i)' /\ ~Listed(i)
              \/ DelDevice(t) /\ frame'[t].pc = "release" /\ Listed(i) /\ ~Listed(i)'
           /\ frame'[t].pc \notin Before \cup {"del"} => ~Listed(i)'
           /\ \A m, n \in linked' : node'[m].info = node'[n].info => m = n
<1>1. /\ \A n \in linked : node'[n] = node[n]
      /\ frame[t].pc # "idle" /\ frame[t].pc # "load"
      /\ linked' = linked \/ LinkNode(t) \/ DelDevice(t)
  BY AddDelThread, AddDelMoves
<1>a. NoFrame.pc = "idle" /\ "idle" \in Before
  BY DEF NoFrame, Before
<1>b. ASSUME Return(t)
      PROVE  frame'[t] = NoFrame /\ frame'[t].pc \in Before
  BY <1>a, <1>b, Types DEF Return
<1>c. GetDeviceNode(t) \subseteq linked
  BY DEF GetDeviceNode, NodesOf
<1>2. CASE linked' = linked
  <2>1. \A j : Listed(j)' <=> Listed(j)
    BY <1>1, <1>2 DEF Listed
  <2>2. ASSUME frame'[t].pc \notin Before \cup {"del"}
        PROVE  ~Listed(i)
    <3>1. CASE frame[t].pc = "query"
      <4>1. QueryOrAddDevice(t)
        BY <3>1 DEF AddDelStep, QueryOrAddDevice, GetDriver, DeviceNodeNewInstance, LaunchNode,
           DriverBind, DriverInit, IoServicePublish, PublishPublicService, PublishLocalService,
           AttachDevice, LinkNode, DelDevice, FreeInstance, DriverRelease, UnlaunchRemove,
           DetachDevice, DestroyNode, FreeDevice, At
      <4>2. GetDeviceNode(t) = {}
        BY <1>b, <2>2, <4>1 DEF QueryOrAddDevice
      <4>3. frame[t].inst = hostService[HostOf[Info(t)]]
        BY <1>1 DEF InstInv
      <4>4. QED
        BY <4>2, <4>3 DEF GetDeviceNode, NodesOf, Device, Listed, InstInv
    <3>2. CASE frame[t].pc = "del"
      <4>1. DelDevice(t)
        BY <3>2 DEF AddDelStep, QueryOrAddDevice, GetDriver, DeviceNodeNewInstance, LaunchNode,
           DriverBind, DriverInit, IoServicePublish, PublishPublicService, PublishLocalService,
           AttachDevice, LinkNode, DelDevice, FreeInstance, DriverRelease, UnlaunchRemove,
           DetachDevice, DestroyNode, FreeDevice, At
      <4>2. \E n \in GetDeviceNode(t) : linked' = linked \ {n}
        BY <1>b, <2>2, <4>1 DEF DelDevice
      <4>3. QED
        BY <1>2, <1>c, <4>2
    <3>3. CASE frame[t].pc \notin {"query", "del"}
      BY <1>1, <3>3 DEF OneInv, Before
    <3>4. QED
      BY <3>1, <3>2, <3>3
  <2>3. QED
    BY <1>1, <1>2, <2>1, <2>2 DEF OneInv
<1>3. CASE LinkNode(t)
  <2>1. PICK m : m = Node(t)
    OBVIOUS
  <2>2. linked' = linked \cup {m} /\ node' = node /\ frame[t].pc = "link" /\ Return(t)
    BY <1>3, <2>1 DEF LinkNode, At
  <2>3. node[m].info = i
    BY <2>1, <2>2 DEF NodeInv, Its, Owning
  <2>4. ~Listed(i)
    BY <2>2 DEF OneInv, Before
  <2>5. Listed(i)' /\ \A j \in Infos : j # i => (Listed(j)' <=> Listed(j))
    BY <2>2, <2>3 DEF Listed
  <2>6. \A n \in linked : node[n].info # i
    BY <2>4 DEF Listed
  <2>7. \A k, n \in linked' : node'[k].info = node'[n].info => k = n
    BY <2>2, <2>3, <2>6 DEF OneInv
  <2>8. QED
    BY <1>3, <1>b, <2>2, <2>4, <2>5, <2>7
<1>4. CASE DelDevice(t) /\ linked' # linked
  <2>1. PICK n \in GetDeviceNode(t) :
          linked' = linked \ {n} /\ frame' = [frame EXCEPT ![t].pc = "release", ![t].node = n]
    BY <1>4 DEF DelDevice
  <2>2. n \in linked /\ node[n].info = i /\ node' = node
    BY <1>4 DEF GetDeviceNode, NodesOf, DelDevice
  <2>3. frame'[t].pc = "release"
    BY <2>1, Types DEF FrameRec
  <2>4. \A m \in linked' : node[m].info # i
    BY <2>1, <2>2 DEF OneInv
  <2>5. Listed(i) /\ ~Listed(i)' /\ \A j \in Infos : j # i => (Listed(j)' <=> Listed(j))
    BY <2>1, <2>2, <2>4 DEF Listed
  <2>6. \A k, m \in linked' : node'[k].info = node'[m].info => k = m
    BY <2>1, <2>2 DEF OneInv
  <2>7. QED
    BY <1>4, <2>3, <2>5, <2>6
<1>5. QED
  BY <1>1, <1>2, <1>3, <1>4

\* AddDevice and DelDevice keep a device's node and its token one.
LEMMA AddDelToken ==
    ASSUME Serialized, TypeOK, HostInv, NodeInv, SerialInv, InstInv, DelInv, OneInv, TokenInv,
           NEW t \in Threads, AddDelStep(t)
    PROVE  OneInv' /\ TokenInv'
<1>1. /\ frame[t].pc # "idle" /\ frame[t].pc # "load"
      /\ \A u \in Threads \ {t} : frame'[u] = frame[u]
      /\ \/ frame'[t] = NoFrame
         \/ frame'[t].info = frame[t].info /\ frame'[t].del = frame[t].del
  BY AddDelThread
<1>2. PICK i \in Infos : i = Info(t)
  BY <1>1 DEF HostInv
<1>3. /\ \A j \in Infos : j # i => (Listed(j)' <=> Listed(j))
      /\ \/ (Listed(i)' <=> Listed(i)) /\ linked' = linked
         \/ LinkNode(t) /\ Listed(i)' /\ ~Listed(i)
         \/ DelDevice(t) /\ frame'[t].pc = "release" /\ Listed(i) /\ ~Listed(i)'
      /\ frame'[t].pc \notin Before \cup {"del"} => ~Listed(i)'
      /\ \A m, n \in linked' : node'[m].info = node'[n].info => m = n
  BY <1>2, AddDelListed
<1>4. NoFrame.pc = "idle" /\ NoFrame.info = None /\ NoFrame.del = FALSE /\ None \notin Infos
  BY DevmgrAssumption DEF NoFrame
<1>5. \A u \in Threads \ {t} : Info(u) # i
  <2>1. \A u \in Threads \ {t} : frame[u].pc = "idle" => Info(u) = None
    BY <1>4 DEF HostInv, Info
  <2>2. \A u \in Threads \ {t} : frame[u].pc # "idle" => Info(u) # Info(t)
    BY <1>1, Apart
  <2>3. QED
    BY <1>2, <1>4, <2>1, <2>2
<1>6. OneInv'
  <2>1. ASSUME NEW u \in Threads, frame'[u].pc \notin Before \cup {"del"}
        PROVE  ~Listed(Info(u))'
    <3>1. CASE u = t
      <4>1. Info(u)' = i
        BY <1>1, <1>2, <1>4, <2>1, <3>1 DEF Info, Before
      <4>2. ~Listed(i)'
        BY <1>3, <2>1, <3>1
      <4>3. QED
        BY <4>1, <4>2 DEF Listed
    <3>2. CASE u # t
      <4>1. frame'[u] = frame[u] /\ Info(u)' = Info(u)
        BY <1>1, <3>2 DEF Info
      <4>2. PICK j \in Infos : j = Info(u)
        BY <2>1, <4>1 DEF HostInv, Before
      <4>3. ~Listed(Info(u))
        BY <2>1, <4>1 DEF OneInv
      <4>4. ~Listed(j)
        BY <4>2, <4>3
      <4>5. ~Listed(j)'
        BY <1>3, <1>5, <3>2, <4>2, <4>4
      <4>6. QED
        BY <4>1, <4>2, <4>5 DEF Listed
    <3>3. QED
      BY <3>1, <3>2
  <2>2. QED
    BY <1>3, <2>1 DEF OneInv
<1>7. \A j \in Infos : j # i => tokens'[j] = tokens[j] /\ (Tokened(j)' <=> Tokened(j))
  <2>1. tokens' = tokens \/ \E v : tokens' = [tokens EXCEPT ![i] = v]
    <3>1. CASE OwnAction(t)
      BY <1>2, <3>1, OwnMoves DEF OwnMove
    <3>2. QED
      BY <3>1, AddDelMoves
  <2>2. tokens \in [Infos -> Nat]
    BY DEF TypeOK
  <2>3. \A j \in Infos : j # i => tokens'[j] = tokens[j]
    BY <2>1, <2>2
  <2>4. \A u \in Threads \ {t} : (HasToken(u)' <=> HasToken(u)) /\ Info(u)' = Info(u)
    BY <1>1 DEF HasToken, At, Info
  <2>5. Info(t)' \in {i, None} /\ Info(t) = i
    BY <1>1, <1>2, <1>4 DEF Info
  <2>6. \A j \in Infos : j # i =>
           ((\E u \in Threads : Info(u)' = j /\ HasToken(u)')
              <=> (\E u \in Threads : Info(u) = j /\ HasToken(u)))
    BY <1>4, <2>4, <2>5
  <2>7. QED
    BY <1>3, <2>3, <2>6 DEF Tokened
<1>8. /\ Tokened(i) <=> Listed(i) \/ HasToken(t)
      /\ Tokened(i)' <=> Listed(i)' \/ (HasToken(t)' /\ frame'[t] # NoFrame)
  <2>1. \A u \in Threads \ {t} : Info(u)' # i
    BY <1>1, <1>5 DEF Info
  <2>2. frame'[t] # NoFrame => Info(t)' = i
    BY <1>1, <1>2 DEF Info
  <2>3. frame'[t] = NoFrame => Info(t)' # i
    BY <1>4 DEF Info
  <2>4. QED
    BY <1>2, <1>5, <2>1, <2>2, <2>3 DEF Tokened
<1>9. ~HasToken(t)' \/ frame'[t] # NoFrame
  BY <1>4 DEF HasToken, At
<1>10. tokens[i] \in Nat /\ tokens[i] = (IF Tokened(i) THEN 1 ELSE 0) /\ tokens \in [Infos -> Nat]
  BY DEF TokenInv, TypeOK
<1>11. tokens'[i] = IF Tokened(i)' THEN 1 ELSE 0
  <2>1. CASE OwnAction(t)
    <3>1. PICK p \in Owning : Goto(t, p) /\ OwnMove(t, p)
      BY <2>1, OwnMoves
    <3>2. frame'[t].pc = p /\ frame'[t].del = frame[t].del /\ frame[t].pc \in Owning
          /\ p \notin Before \cup {"del"}
      BY <3>1, Types DEF Goto, FrameRec, OwnMove, Owning, Adding, Before
    <3>3. frame'[t] # NoFrame
      BY <1>4, <3>2 DEF Before
    <3>4. ~Listed(i)' /\ ~Listed(i)
      BY <1>2, <1>3, <3>2 DEF OneInv, Owning, Before
    <3>5. (Tokened(i) <=> HasToken(t)) /\ (Tokened(i)' <=> HasToken(t)')
      BY <1>8, <3>3, <3>4
    <3>6. /\ HasToken(t) <=> \/ frame[t].pc = "link"
                             \/ frame[t].del /\ frame[t].pc \in {"release", "remove", "detach"}
          /\ HasToken(t)' <=> \/ p = "link"
                              \/ frame[t].del /\ p \in {"release", "remove", "detach"}
      BY <3>2 DEF HasToken, At
    <3>7. /\ frame[t].pc \in Adding => ~frame[t].del
          /\ frame[t].pc = "free" /\ frame[t].del => Its(t).devStatus # "LAUNCHED"
      BY DEF DelInv
    <3>8. \/ tokens' = tokens /\ (HasToken(t)' <=> HasToken(t))
          \/ /\ tokens' = [tokens EXCEPT ![i] = @ + 1] /\ HasToken(t)' /\ ~HasToken(t)
          \/ /\ tokens' = [tokens EXCEPT ![i] = IF @ > 0 THEN @ - 1 ELSE 0] /\ ~HasToken(t)'
      <4>1. CASE /\ frame[t].pc \in Adding \ {"query", "driver", "new", "link"}
                 /\ p \in (Adding \ {"query", "driver", "new", "link"}) \cup {"free"}
                 /\ tokens' = tokens
        BY <3>6, <3>7, <4>1 DEF Adding
      <4>2. CASE /\ frame[t].pc = "attach" /\ p = "link"
                 /\ tokens' = [tokens EXCEPT ![Info(t)] = @ + 1]
        BY <1>2, <3>6, <3>7, <4>2 DEF Adding
      <4>3. CASE /\ frame[t].pc = "free" /\ p = "release" /\ Its(t).devStatus = "LAUNCHED"
                 /\ tokens' = tokens
        BY <3>6, <3>7, <4>3
      <4>4. CASE /\ \/ frame[t].pc = "free" /\ p = "destroy"
                    \/ frame[t].pc = "release" /\ p = "remove"
                    \/ frame[t].pc = "remove" /\ p = "detach"
                 /\ tokens' = tokens
        BY <3>6, <4>4
      <4>5. CASE /\ frame[t].pc = "detach" /\ p \in {"free", "destroy"}
                 /\ tokens' = [tokens EXCEPT ![Info(t)] = IF @ > 0 THEN @ - 1 ELSE 0]
        BY <1>2, <3>6, <4>5
      <4>6. QED
        BY <3>1, <4>1, <4>2, <4>3, <4>4, <4>5 DEF OwnMove
    <3>9. QED
      BY <1>10, <3>5, <3>8
  <2>2. CASE LinkNode(t)
    <3>1. tokens' = tokens /\ HasToken(t)
      BY <2>2 DEF LinkNode, HasToken
    <3>2. Listed(i)'
      <4>1. PICK m : m = Node(t)
        OBVIOUS
      <4>2. linked' = linked \cup {m} /\ node' = node /\ frame[t].pc = "link"
        BY <2>2, <4>1 DEF LinkNode, At
      <4>3. node[m].info = i
        BY <1>2, <4>1, <4>2 DEF NodeInv, Its, Owning
      <4>4. QED
        BY <4>2, <4>3 DEF Listed
    <3>3. QED
      BY <1>8, <1>10, <3>1, <3>2
  <2>3. CASE DelDevice(t) /\ frame'[t].pc = "release" /\ Listed(i) /\ ~Listed(i)'
    <3>1. tokens' = tokens /\ frame[t].pc = "del"
      BY <2>3 DEF DelDevice, At
    <3>2. frame'[t] # NoFrame /\ frame'[t].del
      BY <1>1, <1>4, <2>3, <3>1 DEF DelInv
    <3>3. HasToken(t)'
      BY <2>3, <3>2 DEF HasToken
    <3>4. QED
      BY <1>8, <1>10, <2>3, <3>1, <3>2, <3>3
  <2>4. CASE ~OwnAction(t) /\ (Listed(i)' <=> Listed(i)) /\ ~LinkNode(t) /\ linked' = linked
    <3>1. tokens' = tokens
      BY <2>4, AddDelMoves
    <3>2. ~HasToken(t)
      BY <2>4 DEF AddDelStep, OwnAction, QueryOrAddDevice, GetDriver, DeviceNodeNewInstance,
         DelDevice, DestroyNode, FreeDevice, At, HasToken
    <3>3. ~HasToken(t)' \/ frame'[t] = NoFrame
      <4>1. \A p \in Owning : OwnMove(t, p) => frame[t].pc \in Owning
        BY DEF OwnMove, Adding, Owning
      <4>2. CASE DestroyNode(t)
        <5>1. frame'[t].pc = "freeDevice"
          BY <4>2, Types DEF DestroyNode, Goto, FrameRec
        <5>2. QED
          BY <5>1 DEF HasToken, At
      <4>3. CASE DelDevice(t)
        <5>1. Return(t)
          <6>1. GetDeviceNode(t) \subseteq linked
            BY DEF GetDeviceNode, NodesOf
          <6>2. QED
            BY <2>4, <4>3, <6>1 DEF DelDevice
        <5>2. QED
          BY <5>1, Types DEF Return
      <4>4. CASE ~DestroyNode(t) /\ ~DelDevice(t)
        <5>1. frame[t].pc \notin Owning /\ frame[t].pc # "del"
          BY <2>4, <4>4 DEF AddDelStep, OwnAction, QueryOrAddDevice, GetDriver,
             DeviceNodeNewInstance, FreeDevice, At, Owning
        <5>2. frame'[t] = NoFrame \/ frame'[t].pc \in {"driver", "new", "launch", "freeDevice"}
          BY <4>1, <5>1, AddDelMoves DEF Owning
        <5>3. QED
          BY <5>2 DEF HasToken, At
      <4>5. QED
        BY <4>2, <4>3, <4>4
    <3>4. QED
      BY <1>8, <1>10, <2>4, <3>1, <3>2, <3>3
  <2>5. QED
    BY <1>3, <2>1, <2>2, <2>3, <2>4
<1>12. TokenInv'
  BY <1>7, <1>11 DEF TokenInv
<1>13. QED
  BY <1>6, <1>12

\* AddDevice and DelDevice keep LeftInv.
LEMMA AddDelLeft ==
    ASSUME TypeOK, HostInv, NodeInv, SerialInv, InstInv, DelInv, OneInv, LeftInv,
           NEW t \in Threads, AddDelStep(t)
    PROVE  LeftInv'
<1>1. hosts' = hosts /\ loop' = loop /\ frame[t].pc # "idle"
  BY AddDelThread
<1>2. PICK i \in Infos : i = Info(t)
  BY <1>1 DEF HostInv
<1>3. /\ \A j \in Infos : j # i => (Listed(j)' <=> Listed(j))
      /\ \/ (Listed(i)' <=> Listed(i)) /\ linked' = linked
         \/ LinkNode(t) /\ Listed(i)' /\ ~Listed(i)
         \/ DelDevice(t) /\ frame'[t].pc = "release" /\ Listed(i) /\ ~Listed(i)'
  BY <1>2, AddDelListed
<1>4. Preload[i] # "DISABLE" => t = Boot
  BY <1>1, <1>2 DEF SerialInv
<1>5. CASE LinkNode(t)
  <2>1. unloadDevInfos' = IF loop[t] = NoLoop THEN unloadDevInfos ELSE unloadDevInfos \ {i}
    BY <1>2, <1>5 DEF LinkNode
  <2>2. linked' # linked
    BY <1>5 DEF LinkNode, NodeInv, At, Owning
  <2>3. Listed(i)'
    BY <1>3, <1>5, <2>2 DEF LinkNode, DelDevice, At
  <2>4. t = Boot => loop[t] # NoLoop
    BY <1>1 DEF SerialInv, NoLoop
  <2>5. QED
    BY <1>1, <1>3, <1>4, <2>1, <2>3, <2>4 DEF LeftInv
<1>6. CASE ~LinkNode(t)
  <2>1. unloadDevInfos' = unloadDevInfos
    BY <1>6, AddDelMoves
  <2>2. DelDevice(t) => t # Boot
    BY DEF DelDevice, At, DelInv
  <2>3. QED
    BY <1>1, <1>3, <1>4, <1>6, <2>1, <2>2 DEF LeftInv
<1>7. QED
  BY <1>5, <1>6

\* The manager's steps: the frames of calls that begin or end at the manager.
LEMMA ManagerFrames ==
    ASSUME TypeOK, HostInv,
           \/ BootStep
           \/ \E t \in Threads : \/ InstallNext(t) \/ InstallDone(t)
                                 \/ DevmgrServiceLoadDevice(t)
           \/ \E t \in Loaders, i \in Infos : \/ DevSvcManagerSubscribeService(t, i)
                                              \/ DevmgrServiceUnloadDevice(t, i)
    PROVE  /\ UNCHANGED <<devices, node, linked, services, tokens>>
           /\ \/ UNCHANGED frame
              \/ \E t \in Threads :
                    /\ frame[t].pc \in {"idle", "load"}
                    /\ \A u \in Threads \ {t} : frame'[u] = frame[u]
                    /\ \/ frame'[t].pc \in Before /\ ~frame'[t].del
                       \/ frame'[t].pc = "del" /\ frame'[t].del /\ t \in Loaders
<1>0. DOMAIN frame = Threads /\ NoFrame.pc = "idle" /\ ~NoFrame.del /\ Loaders \subseteq Threads
  BY DEF TypeOK, NoFrame, Threads
<1>a. ASSUME NEW t \in Threads, Return(t)
      PROVE  /\ \A u \in Threads \ {t} : frame'[u] = frame[u]
             /\ frame'[t].pc \in Before /\ ~frame'[t].del
  BY <1>0, <1>a DEF Return, Before
<1>b. ASSUME NEW t \in Threads, NEW i, NEW pc \in {"load", "query", "del"}, Call(t, pc, i)
      PROVE  /\ \A u \in Threads \ {t} : frame'[u] = frame[u]
             /\ frame'[t].pc = pc /\ (frame'[t].del <=> pc = "del")
  <2> DEFINE f == [pc |-> pc, info |-> i, node |-> 0, inst |-> hostService'[HostOf[i]],
                   del |-> pc = "del"]
  <2>1. f.pc = pc /\ f.del = (pc = "del")
    BY Zenon
  <2>2. frame' = [frame EXCEPT ![t] = f]
    BY <1>b DEF Call
  <2> HIDE DEF f
  <2>3. frame'[t] = f /\ \A u \in Threads \ {t} : frame'[u] = frame[u]
    BY <1>0, <2>2
  <2>4. QED
    BY <2>1, <2>3
<1>1. UNCHANGED <<devices, node, linked, services, tokens>>
  BY DEF BootStep, DevmgrServiceStartDeviceHost, StartDone, DevmgrServiceLoadLeftDriver,
     InstallNext, InstallDone, DevmgrServiceLoadDevice, DevSvcManagerSubscribeService,
     DevmgrServiceUnloadDevice, hostVars
<1>2. \/ UNCHANGED frame
      \/ \E t \in Threads :
            /\ frame[t].pc \in {"idle", "load"}
            /\ \/ Return(t)
               \/ \E i, pc : pc \in {"load", "query"} /\ Call(t, pc, i)
               \/ \E i : Call(t, "del", i) /\ t \in Loaders
  <2>2. CASE BootStep
    BY <2>2 DEF BootStep, DevmgrServiceStartDeviceHost, StartDone, DevmgrServiceLoadLeftDriver
  <2>3. ASSUME NEW t \in Threads, InstallNext(t) \/ InstallDone(t)
        PROVE  \/ UNCHANGED frame
               \/ /\ frame[t].pc = "idle"
                  /\ \E i, pc : pc \in {"load", "query"} /\ Call(t, pc, i)
    BY <1>0, <2>3 DEF InstallNext, InstallDone, Idle
  <2>4. ASSUME NEW t \in Threads, DevmgrServiceLoadDevice(t)
        PROVE  /\ frame[t].pc = "load"
               /\ \/ Return(t)
                  \/ \E i, pc : pc \in {"load", "query"} /\ Call(t, pc, i)
    BY <2>4 DEF DevmgrServiceLoadDevice, At
  <2>5. ASSUME NEW t \in Loaders, NEW i \in Infos,
               DevSvcManagerSubscribeService(t, i) \/ DevmgrServiceUnloadDevice(t, i)
        PROVE  /\ t \in Threads /\ frame[t].pc = "idle"
               /\ \/ \E j, pc : pc \in {"load", "query"} /\ Call(t, pc, j)
                  \/ \E j : Call(t, "del", j)
    BY <1>0, <2>5 DEF DevSvcManagerSubscribeService, DevmgrServiceUnloadDevice, MayCall,
       OutOfCall, Idle
  <2>6. QED
    BY <2>2, <2>3, <2>4, <2>5
<1>3. QED
  BY <1>1, <1>2, <1>a, <1>b DEF Before

\* They touch no node, no list and no token.
LEMMA ManagerWork ==
    ASSUME TypeOK, HostInv, DelInv, DeviceInv, OneInv, TokenInv,
           \/ BootStep
           \/ \E t \in Threads : \/ InstallNext(t) \/ InstallDone(t)
                                 \/ DevmgrServiceLoadDevice(t)
           \/ \E t \in Loaders, i \in Infos : \/ DevSvcManagerSubscribeService(t, i)
                                              \/ DevmgrServiceUnloadDevice(t, i)
    PROVE  DelInv' /\ DeviceInv' /\ OneInv' /\ TokenInv'
<1>1. /\ UNCHANGED <<devices, node, linked, tokens>>
      /\ \A u \in Threads :
            \/ frame'[u] = frame[u]
            \/ /\ frame[u].pc \in {"idle", "load"}
               /\ \/ frame'[u].pc \in Before /\ ~frame'[u].del
                  \/ frame'[u].pc = "del" /\ frame'[u].del /\ u \in Loaders
  BY ManagerFrames
<1>2. \A i : Listed(i)' <=> Listed(i)
  BY <1>1 DEF Listed
<1>3. DelInv'
  <2>1. \A u \in Threads : frame'[u] = frame[u] => Its(u)' = Its(u)
    BY <1>1 DEF Its, Node
  <2>2. Boot \notin Loaders
    BY DevmgrAssumption
  <2>3. ASSUME NEW u \in Threads
        PROVE  /\ frame'[u].pc \in Adding => ~frame'[u].del
               /\ frame'[u].pc = "load" => ~frame'[u].del
               /\ frame'[u].pc = "del" => frame'[u].del
               /\ frame'[u].pc = "free" /\ frame'[u].del => Its(u)'.devStatus # "LAUNCHED"
               /\ frame'[u].del => u # Boot
    <3>1. CASE frame'[u] = frame[u]
      BY <2>1, <3>1 DEF DelInv
    <3>2. CASE frame'[u].pc \in Before /\ ~frame'[u].del
      BY <3>2 DEF Before, Adding
    <3>3. CASE frame'[u].pc = "del" /\ frame'[u].del /\ u \in Loaders
      BY <2>2, <3>3 DEF Adding
    <3>4. QED
      BY <1>1, <3>1, <3>2, <3>3
  <2>4. QED
    BY <2>3 DEF DelInv
<1>4. DeviceInv'
  <2>1. \A n \in linked : DeviceOfNode(n)' = DeviceOfNode(n)
    BY <1>1 DEF DeviceOfNode
  <2>2. \A u \in Threads : frame'[u] = frame[u] => Device(u)' = Device(u)
    BY DEF Device, Info
  <2>3. QED
    BY <1>1, <2>1, <2>2 DEF DeviceInv
<1>5. OneInv'
  <2>1. ASSUME NEW u \in Threads, frame'[u].pc \notin Before \cup {"del"}
        PROVE  ~Listed(Info(u))'
    <3>1. frame'[u] = frame[u] /\ Info(u)' = Info(u)
      BY <1>1, <2>1 DEF Info
    <3>2. ~Listed(Info(u))
      BY <2>1, <3>1 DEF OneInv
    <3>3. QED
      BY <1>1, <3>1, <3>2 DEF Listed
  <2>2. QED
    BY <1>1, <2>1 DEF OneInv
<1>6. TokenInv'
  <2>1. \A u \in Threads : /\ HasToken(u)' <=> HasToken(u)
                           /\ HasToken(u) => Info(u)' = Info(u)
    BY <1>1 DEF HasToken, At, Before, Info
  <2>2. \A i : Tokened(i)' <=> Tokened(i)
    BY <1>2, <2>1 DEF Tokened
  <2>3. QED
    BY <1>1, <2>2 DEF TokenInv
<1>7. QED
  BY <1>3, <1>4, <1>5, <1>6

\* A host that had no instance gets one.
LEMMA StartInst ==
    ASSUME TypeOK, HostInv, InstInv, NEW t \in Threads, NEW h \in Hosts,
           NEW then \in Infos \cup {None}, StartDeviceHost(t, h, then), hostService[h] = 0
    PROVE  /\ \A f, g \in Hosts : hostService'[f] = hostService'[g] /\ hostService'[f] # 0 => f = g
           /\ \A u \in Threads : frame[u].pc \notin {"idle", "load"} =>
                 frame[u].inst = hostService'[HostOf[Info(u)]]
           /\ \A n \in linked : node[n].inst = hostService'[HostOf[node[n].info]]
<1>1. /\ instances \in Nat /\ hostService'[h] = instances + 1
      /\ \A g \in Hosts \ {h} : hostService'[g] = hostService[g]
      /\ hostService \in [Hosts -> 0..instances]
  BY StartFacts DEF TypeOK
<1>2. \A f, g \in Hosts : hostService'[f] = hostService'[g] /\ hostService'[f] # 0 => f = g
  <2>1. \A g \in Hosts \ {h} : hostService'[g] # instances + 1
    BY <1>1
  <2>2. QED
    BY <1>1, <2>1 DEF InstInv
<1>3. ASSUME NEW u \in Threads, frame[u].pc \notin {"idle", "load"}
      PROVE  frame[u].inst = hostService'[HostOf[Info(u)]]
  <2>1. /\ HostOf[Info(u)] \in Hosts /\ frame[u].inst = hostService[HostOf[Info(u)]]
        /\ frame[u].inst # 0
    BY <1>3 DEF HostInv, TypeOK, InstInv
  <2>2. QED
    BY <1>1, <2>1
<1>4. ASSUME NEW n \in linked
      PROVE  node[n].inst = hostService'[HostOf[node[n].info]]
  <2>1. /\ HostOf[node[n].info] \in Hosts /\ node[n].inst # 0
        /\ node[n].inst = hostService[HostOf[node[n].info]]
    BY <1>4, DevmgrAssumption DEF InstInv
  <2>2. QED
    BY <1>1, <2>1
<1>5. QED
  BY <1>2, <1>3, <1>4

\* The boot thread between its loops: the hosts it starts had no instance, and none
\* of their devices is listed.
LEMMA BootSerial ==
    ASSUME Serialized, TypeOK, HostInv, NodeInv, SerialInv, InstInv, LeftInv, BootStep
    PROVE  SerialInv' /\ InstInv' /\ LeftInv'
<1>0. /\ Boot \in Threads /\ UNCHANGED <<frame, hostPid, hostVars>> /\ Boot \notin Loaders
      /\ Loaders \subseteq Threads /\ loop[Boot] = NoLoop /\ loop[Boot].host = None
      /\ frame[Boot].pc = "idle" /\ NoLoop.host = None
  <2>1. /\ UNCHANGED <<frame, hostPid, hostVars>> /\ loop[Boot] = NoLoop
    BY DEF BootStep, DevmgrServiceStartDeviceHost, StartDone, DevmgrServiceLoadLeftDriver
  <2>2. NoLoop.host = None
    BY DEF NoLoop
  <2>3. QED
    BY <2>1, <2>2, DevmgrAssumption DEF SerialInv, Threads
<1>a. /\ loop \in [Threads -> LoopRec] /\ cursor \in Nat \ {0} /\ Len(HostSeq) \in Nat
      /\ None \notin Hosts /\ hosts \subseteq Hosts
  <2>1. HostSeq \in Seq(Hosts) /\ None \notin Hosts
    BY DevmgrAssumption
  <2>2. Len(HostSeq) \in Nat
    BY <2>1
  <2>3. QED
    BY <1>0, <2>1, <2>2, Types DEF TypeOK
<1>b. \A i : Listed(i)' <=> Listed(i)
  BY <1>0 DEF Listed, hostVars
<1>c. ASSUME \A u \in Loaders : loop'[u] = loop[u]
      PROVE  \A u \in Loaders : OutOfCall(u)' <=> OutOfCall(u)
  BY <1>0, <1>c DEF OutOfCall, Idle
<1>d. \A u \in Threads : Info(u)' = Info(u)
  BY <1>0 DEF Info
<1>1. CASE /\ UNCHANGED <<hosts, hostService, instances, unloadDevInfos, loop>>
           /\ cursor' = cursor + 1 /\ phase' = phase
  <2>1. SerialInv'
    BY <1>0, <1>1, <1>c, <1>d DEF SerialInv
  <2>2. phase = "hosts" => \A k \in 1..Len(HostSeq) :
            /\ UnloadSeq[HostSeq[k]] # <<>>
            /\ k > cursor + 1 \/ k = cursor + 1
            => hostService[HostSeq[k]] = 0
    BY <1>a DEF InstInv
  <2>3. InstInv'
    BY <1>0, <1>1, <1>d, <2>2 DEF InstInv, hostVars
  <2>4. LeftInv'
    BY <1>1, <1>b DEF LeftInv
  <2>5. QED
    BY <2>1, <2>3, <2>4
<1>2. CASE /\ phase' # "hosts"
           /\ UNCHANGED <<hosts, hostService, instances, unloadDevInfos, loop>>
  <2>1. SerialInv'
    BY <1>0, <1>2, <1>c, <1>d DEF SerialInv
  <2>2. InstInv'
    BY <1>0, <1>2, <1>d DEF InstInv, hostVars
  <2>3. LeftInv'
    BY <1>2, <1>b DEF LeftInv
  <2>4. QED
    BY <2>1, <2>2, <2>3
<1>3. CASE DevmgrServiceStartDeviceHost
  <2> DEFINE h == HostSeq[cursor]
  <2>1. /\ phase = "hosts" /\ phase' = phase /\ cursor <= Len(HostSeq) /\ h \in Hosts
        /\ cursor \in 1..Len(HostSeq)
    BY <1>3, <1>a DEF DevmgrServiceStartDeviceHost, Hosts
  <2>2. CASE /\ UnloadSeq[h] = <<>> /\ hosts' = hosts \cup {h} /\ cursor' = cursor + 1
             /\ UNCHANGED <<hostService, instances, unloadDevInfos, loop>>
    <3>1. SerialInv'
      BY <1>0, <1>c, <1>d, <2>1, <2>2 DEF SerialInv
    <3>2. \A k \in 1..Len(HostSeq) :
              /\ UnloadSeq[HostSeq[k]] # <<>>
              /\ k > cursor + 1 \/ k = cursor + 1
              => hostService[HostSeq[k]] = 0
      BY <1>a, <2>1 DEF InstInv
    <3>3. InstInv'
      BY <1>0, <1>d, <2>1, <2>2, <3>2 DEF InstInv, hostVars
    <3>4. \A i \in Infos : HostOf[i] = h => Preload[i] = "DISABLE"
      <4>1. Len(UnloadSeq[h]) = 0
        BY <2>2
      <4>2. \A i \in Infos : ~\E k \in 1..Len(UnloadSeq[h]) : UnloadSeq[h][k] = i
        BY <4>1
      <4>3. QED
        BY <2>1, <4>2, DevmgrAssumption
    <3>5. LeftInv'
      BY <1>b, <2>2, <3>4 DEF LeftInv
    <3>6. QED
      BY <3>1, <3>3, <3>5
  <2>3. CASE /\ UnloadSeq[h] # <<>> /\ hosts' = hosts \cup {h}
             /\ unloadDevInfos' = unloadDevInfos
                    \cup {i \in Infos : HostOf[i] = h /\ Preload[i] # "DISABLE"}
             /\ StartDeviceHost(Boot, h, None) /\ UNCHANGED cursor
    <3>1. hostService[h] = 0
      BY <1>0, <2>1, <2>3 DEF InstInv
    <3>2. \A k \in 1..Len(HostSeq) : k > cursor => HostSeq[k] # h /\ HostSeq[k] \in Hosts
      BY <2>1 DEF Serialized, Hosts
    <3> HIDE DEF h
    <3>3. /\ loop'[Boot].host = h /\ \A u \in Threads \ {Boot} : loop'[u] = loop[u]
          /\ \A g \in Hosts \ {h} : hostService'[g] = hostService[g]
      BY <1>0, <2>1, <2>3, StartFacts
    <3>4. /\ \A f, g \in Hosts : hostService'[f] = hostService'[g] /\ hostService'[f] # 0 => f = g
          /\ \A u \in Threads : frame[u].pc \notin {"idle", "load"} =>
                frame[u].inst = hostService'[HostOf[Info(u)]]
          /\ \A n \in linked : node[n].inst = hostService'[HostOf[node[n].info]]
      BY <1>0, <2>1, <2>3, <3>1, StartInst
    <3>5. h # None /\ Boot \notin Loaders
      BY <1>0, <1>a, <2>1
    <3>6. SerialInv'
      <4>1. \A u \in Loaders : loop'[u] = loop[u]
        BY <1>0, <3>3
      <4>2. \A u \in Loaders : OutOfCall(u)' <=> OutOfCall(u)
        BY <1>c, <4>1
      <4>3. \A u \in Threads : loop'[u].host = None => loop'[u] = NoLoop
        BY <3>3, <3>5 DEF SerialInv
      <4>4. cursor' <= Len(HostSeq) /\ loop'[Boot].host = HostSeq[cursor'] /\ UnloadSeq[h] # <<>>
        BY <2>1, <2>3, <3>3 DEF h
      <4>5. QED
        BY <1>0, <1>d, <2>1, <3>3, <3>5, <4>1, <4>2, <4>3, <4>4 DEF SerialInv
    <3>7. InstInv'
      <4>1. \A g \in Hosts : UnloadSeq[g] = <<>> /\ hostService'[g] # 0 =>
               g \in hostPid \/ \E u \in Loaders : loop'[u].host = g
        <5>1. \A u \in Loaders : loop'[u] = loop[u]
          BY <1>0, <3>3
        <5>2. QED
          BY <2>3, <3>3, <5>1 DEF InstInv
      <4>2. \A k \in 1..Len(HostSeq) :
               UnloadSeq[HostSeq[k]] # <<>> /\ k > cursor => hostService'[HostSeq[k]] = 0
        BY <2>1, <3>2, <3>3 DEF InstInv
      <4>3. \A n \in linked : node[n].info \in Infos /\ node[n].inst # 0
        BY DEF InstInv
      <4>4. QED
        BY <1>0, <1>d, <2>3, <3>3, <3>4, <3>5, <4>1, <4>2, <4>3 DEF InstInv, hostVars
    <3>8. \A i \in Infos : HostOf[i] = h => ~Listed(i)
      BY <3>1 DEF Listed, InstInv
    <3>9. LeftInv'
      BY <1>b, <2>3, <3>8 DEF LeftInv
    <3>10. QED
      BY <3>6, <3>7, <3>9
  <2>4. QED
    BY <1>1, <1>3, <2>1, <2>2, <2>3 DEF DevmgrServiceStartDeviceHost
<1>4. CASE StartDone
  BY <1>2, <1>4 DEF StartDone
<1>5. CASE DevmgrServiceLoadLeftDriver
  <2>1. UNCHANGED <<hosts, hostService, instances, unloadDevInfos>> /\ phase = "step2"
    BY <1>5 DEF DevmgrServiceLoadLeftDriver
  <2>2. CASE /\ cursor <= Len(HostSeq) /\ HostSeq[cursor] \in hosts
             /\ loop' = [loop EXCEPT ![Boot] = [host |-> HostSeq[cursor], pos |-> 1,
                                                then |-> None]]
             /\ UNCHANGED <<phase, cursor>>
    <3>1. /\ \A u \in Threads \ {Boot} : loop'[u] = loop[u]
          /\ loop'[Boot].host # None
      BY <1>0, <1>a, <2>2
    <3>2. \A u \in Loaders : loop'[u] = loop[u]
      BY <1>0, <3>1
    <3>3. \A u \in Loaders : OutOfCall(u)' <=> OutOfCall(u)
      BY <1>c, <3>2
    <3>4. SerialInv'
      BY <1>0, <1>d, <2>1, <2>2, <3>1, <3>2, <3>3 DEF SerialInv
    <3>5. InstInv'
      BY <1>0, <1>d, <2>1, <2>2, <3>2 DEF InstInv, hostVars
    <3>6. LeftInv'
      BY <1>b, <2>1 DEF LeftInv
    <3>7. QED
      BY <3>4, <3>5, <3>6
  <2>3. QED
    BY <1>1, <1>2, <1>5, <2>1, <2>2 DEF DevmgrServiceLoadLeftDriver
<1>6. QED
  BY <1>3, <1>4, <1>5 DEF BootStep

\* The loops and the calls that begin: a loader's loop makes no turn, and a host is
\* started by a call only if nobody has started it.
LEMMA CallSerial ==
    ASSUME Serialized, TypeOK, HostInv, NodeInv, SerialInv, InstInv, LeftInv, NEW t \in Threads,
           \/ InstallNext(t) \/ InstallDone(t) \/ DevmgrServiceLoadDevice(t)
           \/ t \in Loaders /\ \E i \in Infos : \/ DevSvcManagerSubscribeService(t, i)
                                                \/ DevmgrServiceUnloadDevice(t, i)
    PROVE  SerialInv' /\ InstInv' /\ LeftInv'
<1>0. /\ UNCHANGED <<phase, hosts, unloadDevInfos, hostVars>> /\ Boot \notin Loaders
      /\ Loaders \subseteq Threads /\ NoLoop.host = None /\ NoFrame.pc = "idle"
      /\ (t \in Loaders <=> t # Boot) /\ Boot \in Threads
  <2>1. UNCHANGED <<phase, hosts, unloadDevInfos, hostVars>>
    BY DEF InstallNext, InstallDone, DevmgrServiceLoadDevice, DevSvcManagerSubscribeService,
       DevmgrServiceUnloadDevice, mgrVars
  <2>2. NoLoop.host = None /\ NoFrame.pc = "idle"
    BY DEF NoLoop, NoFrame
  <2>3. QED
    BY <2>1, <2>2, DevmgrAssumption DEF Threads
<1>a. /\ loop \in [Threads -> LoopRec] /\ loop[t] \in LoopRec
      /\ frame \in [Threads -> FrameRec] /\ frame[t] \in FrameRec
      /\ cursor \in Nat \ {0} /\ None \notin Hosts
  BY <1>0, Types, DevmgrAssumption DEF TypeOK
<1>b. LeftInv'
  <2>1. \A i : Listed(i)' <=> Listed(i)
    BY <1>0 DEF Listed, hostVars
  <2>2. QED
    BY <1>0, <2>1 DEF LeftInv
<1>c. ASSUME \A u \in Threads \ {t} : loop'[u] = loop[u] /\ frame'[u] = frame[u]
      PROVE  /\ \A u \in Loaders \ {t} : OutOfCall(u)' <=> OutOfCall(u)
             /\ \A u \in Threads \ {t} : Info(u)' = Info(u)
  BY <1>0, <1>c DEF OutOfCall, Idle, Info
<1>1. CASE InstallNext(t)
  <2> DEFINE h == loop[t].host
             i == UnloadSeq[h][loop[t].pos]
  <2>1. /\ h # None /\ loop[t].pos <= Len(UnloadSeq[h]) /\ frame[t].pc = "idle"
        /\ loop' = [loop EXCEPT ![t].pos = @ + 1]
        /\ UNCHANGED <<cursor, hostService, instances, hostPid>>
        /\ UNCHANGED frame \/ Call(t, "query", i)
    BY <1>0, <1>1 DEF InstallNext, mgrVars, Idle
  <2>2. i \in Infos /\ HostOf[i] = h /\ Preload[i] # "DISABLE"
    BY <2>1, LoopInfo
  <2>3. t = Boot
    <3>1. loop[t].pos > 0 /\ loop[t].pos \in Nat
      BY <1>a, <2>1 DEF HostInv, LoopRec
    <3>2. Len(UnloadSeq[h]) # 0 \/ UnloadSeq[h] # <<>>
      BY <2>1, <3>1
    <3>3. UnloadSeq[h] # <<>>
      <4>1. Len(<<>>) = 0
        OBVIOUS
      <4>2. QED
        BY <2>1, <3>1, <4>1
    <3>4. QED
      BY <1>0, <2>1, <3>3 DEF SerialInv
  <2> HIDE DEF h, i
  <2>4. \A u \in Threads : loop'[u].host = loop[u].host /\ (u # t => loop'[u] = loop[u])
    BY <1>a, <2>1 DEF LoopRec
  <2>5. /\ \A u \in Threads \ {t} : frame'[u] = frame[u]
        /\ \/ frame'[t] = frame[t]
           \/ /\ frame'[t].pc = "query" /\ frame'[t].info = i
              /\ frame'[t].inst = hostService[HostOf[i]]
    BY <1>a, <2>1, <2>2, CallFacts
  <2>6. /\ \A u \in Loaders : loop'[u] = loop[u] /\ frame'[u] = frame[u]
        /\ \A u \in Loaders : OutOfCall(u)' <=> OutOfCall(u)
        /\ \A u \in Threads \ {t} : Info(u)' = Info(u)
    BY <1>0, <1>c, <2>3, <2>4, <2>5
  <2>7. SerialInv'
    <3>1. \A u \in Threads : frame'[u].pc # "idle" => (Preload[Info(u)'] = "DISABLE" <=> u # Boot)
      BY <2>2, <2>3, <2>5, <2>6 DEF SerialInv, Info
    <3>2. \A u \in Threads : loop'[u].host = None => loop'[u] = NoLoop
      BY <2>1, <2>4 DEF SerialInv, h
    <3>3. loop'[Boot].host # None /\ frame'[Boot].pc # "load"
      BY <2>1, <2>3, <2>4, <2>5 DEF h
    <3>4. \A u \in Loaders : loop'[u].host # None =>
             UnloadSeq[loop'[u].host] = <<>> /\ Preload[loop'[u].then] = "DISABLE"
                                             /\ frame'[u].pc = "idle"
      BY <2>6 DEF SerialInv
    <3>5. phase = "hosts" => /\ cursor <= Len(HostSeq) /\ loop'[Boot].host = HostSeq[cursor]
                             /\ UnloadSeq[loop'[Boot].host] # <<>>
      BY <2>1, <2>3, <2>4 DEF SerialInv, h
    <3>6. QED
      BY <1>0, <2>1, <2>6, <3>1, <3>2, <3>3, <3>4, <3>5 DEF SerialInv
  <2>8. InstInv'
    <3>1. \A u \in Threads : frame'[u].pc \notin {"idle", "load"} =>
             frame'[u].inst = hostService[HostOf[Info(u)']]
      BY <2>1, <2>5, <2>6 DEF InstInv, Info
    <3>2. QED
      BY <1>0, <2>1, <2>4, <3>1 DEF InstInv, hostVars
  <2>9. QED
    BY <1>b, <2>7, <2>8
<1>2. CASE InstallDone(t) /\ t = Boot
  <2>1. /\ loop[t].host # None /\ frame[t].pc = "idle" /\ loop' = [loop EXCEPT ![t] = NoLoop]
        /\ UNCHANGED <<hostService, instances, frame>> /\ cursor' = cursor + 1
        /\ hostPid \subseteq hostPid'
    BY <1>0, <1>2 DEF InstallDone, Idle
  <2>2. loop'[t] = NoLoop /\ \A u \in Threads \ {t} : loop'[u] = loop[u]
    BY <1>a, <2>1
  <2>3. /\ \A u \in Loaders : loop'[u] = loop[u]
        /\ \A u \in Loaders : OutOfCall(u)' <=> OutOfCall(u)
        /\ \A u \in Threads : Info(u)' = Info(u)
    BY <1>0, <1>2, <1>c, <2>1, <2>2 DEF Info
  <2>4. SerialInv'
    BY <1>0, <1>2, <2>1, <2>2, <2>3 DEF SerialInv
  <2>5. phase = "hosts" => \A k \in 1..Len(HostSeq) :
           UnloadSeq[HostSeq[k]] # <<>> /\ (k > cursor' \/ k = cursor')
             => hostService[HostSeq[k]] = 0
    BY <1>a, <2>1 DEF InstInv
  <2>6. InstInv'
    BY <1>0, <2>1, <2>3, <2>5 DEF InstInv, hostVars
  <2>7. QED
    BY <1>b, <2>4, <2>6
<1>3. CASE InstallDone(t) /\ t # Boot
  <2> DEFINE h == loop[t].host
             i == loop[t].then
  <2>1. /\ h # None /\ frame[t] = NoFrame /\ loop' = [loop EXCEPT ![t] = NoLoop]
        /\ UNCHANGED <<cursor, hostService, instances>> /\ Call(t, "query", i)
        /\ hostPid' = hostPid \cup {h}
    BY <1>0, <1>3 DEF InstallDone, Idle, InStep2
  <2>2. i \in Infos /\ HostOf[i] = h /\ Preload[i] = "DISABLE" /\ ~OutOfCall(t)
    BY <1>0, <1>3, <2>1 DEF HostInv, SerialInv, OutOfCall
  <2> HIDE DEF i, h
  <2>3. loop'[t] = NoLoop /\ \A u \in Threads \ {t} : loop'[u] = loop[u]
    BY <1>a, <2>1
  <2>4. /\ \A u \in Threads \ {t} : frame'[u] = frame[u]
        /\ frame'[t].pc = "query" /\ frame'[t].info = i
        /\ frame'[t].inst = hostService[HostOf[i]]
    BY <2>1, <2>2, CallFacts
  <2>5. /\ \A u \in Loaders \ {t} : OutOfCall(u)' <=> OutOfCall(u)
        /\ \A u \in Threads \ {t} : Info(u)' = Info(u)
    BY <1>c, <2>3, <2>4
  <2>6. SerialInv'
    <3>1. \A u \in Threads : frame'[u].pc # "idle" => (Preload[Info(u)'] = "DISABLE" <=> u # Boot)
      BY <1>3, <2>2, <2>4, <2>5 DEF SerialInv, Info
    <3>2. \A u, w \in Loaders : ~OutOfCall(u)' /\ ~OutOfCall(w)' => u = w
      BY <1>0, <1>3, <2>2, <2>5 DEF SerialInv
    <3>3. loop'[Boot] = loop[Boot] /\ frame'[Boot] = frame[Boot]
      BY <1>0, <1>3, <2>3, <2>4
    <3>4. \A u \in Loaders : loop'[u].host # None =>
             UnloadSeq[loop'[u].host] = <<>> /\ Preload[loop'[u].then] = "DISABLE"
                                             /\ frame'[u].pc = "idle"
      BY <1>0, <2>3, <2>4 DEF SerialInv
    <3>5. \A u \in Threads : loop'[u].host = None => loop'[u] = NoLoop
      BY <2>3 DEF SerialInv
    <3>6. QED
      BY <1>0, <2>1, <3>1, <3>2, <3>3, <3>4, <3>5 DEF SerialInv
  <2>7. InstInv'
    <3>1. \A u \in Threads : frame'[u].pc \notin {"idle", "load"} =>
             frame'[u].inst = hostService[HostOf[Info(u)']]
      BY <2>4, <2>5 DEF InstInv, Info
    <3>2. \A g \in Hosts : UnloadSeq[g] = <<>> /\ hostService[g] # 0 =>
             g \in hostPid' \/ \E u \in Loaders : loop'[u].host = g
      BY <1>0, <2>1, <2>3 DEF InstInv, h
    <3>3. loop'[Boot] = loop[Boot]
      BY <1>0, <1>3, <2>3
    <3>4. QED
      BY <1>0, <2>1, <3>1, <3>2, <3>3 DEF InstInv, hostVars
  <2>8. QED
    BY <1>b, <2>6, <2>7
<1>4. CASE DevmgrServiceLoadDevice(t)
  <2> DEFINE i == frame[t].info
             h == HostOf[i]
  <2>1. /\ frame[t].pc = "load" /\ UNCHANGED <<cursor, hostPid>>
    BY <1>4 DEF DevmgrServiceLoadDevice, At
  <2>2. /\ i \in Infos /\ h \in Hosts /\ t \in Loaders /\ Preload[i] = "DISABLE"
        /\ UnloadSeq[h] = <<>> /\ ~OutOfCall(t) /\ loop[t].host = None
    <3>1. i \in Infos /\ h \in Hosts
      BY <2>1, DevmgrAssumption DEF HostInv, Info
    <3>2. t # Boot
      BY <2>1 DEF SerialInv
    <3>3. Preload[i] = "DISABLE"
      BY <2>1, <3>2 DEF SerialInv, Info
    <3>4. t \in Loaders /\ loop[t].host = None
      BY <1>0, <2>1, <3>2 DEF SerialInv
    <3>5. QED
      BY <1>0, <2>1, <3>1, <3>3, <3>4 DEF Serialized, OutOfCall, Idle
  <2>3. CASE UNCHANGED <<instances, hostService, loop>> /\ (Return(t) \/ Call(t, "query", i))
    <3> HIDE DEF i, h
    <3>1. /\ \A u \in Threads \ {t} : frame'[u] = frame[u]
          /\ \/ frame'[t].pc = "idle"
             \/ /\ frame'[t].pc = "query" /\ frame'[t].info = i
                /\ frame'[t].inst = hostService[HostOf[i]]
      <4>1. CASE Return(t)
        BY <1>0, <1>a, <4>1 DEF Return
      <4>2. CASE Call(t, "query", i)
        BY <2>2, <2>3, <4>2, CallFacts
      <4>3. QED
        BY <2>3, <4>1, <4>2
    <3>2. /\ \A u \in Loaders \ {t} : OutOfCall(u)' <=> OutOfCall(u)
          /\ \A u \in Threads \ {t} : Info(u)' = Info(u)
      BY <1>c, <2>3, <3>1
    <3>3. \A u \in Threads : frame'[u].pc # "idle" => (Preload[Info(u)'] = "DISABLE" <=> u # Boot)
      BY <1>0, <2>2, <3>1, <3>2 DEF SerialInv, Info
    <3>4. \A u, w \in Loaders : ~OutOfCall(u)' /\ ~OutOfCall(w)' => u = w
      BY <2>2, <3>2 DEF SerialInv
    <3>5. \A u \in Loaders : loop[u].host # None => frame'[u].pc = "idle"
      BY <1>0, <2>2, <3>1 DEF SerialInv
    <3>6. frame'[Boot] = frame[Boot]
      BY <1>0, <2>2, <3>1
    <3>7. SerialInv'
      BY <1>0, <2>1, <2>3, <3>3, <3>4, <3>5, <3>6 DEF SerialInv
    <3>8. \A u \in Threads : frame'[u].pc \notin {"idle", "load"} =>
             frame'[u].inst = hostService[HostOf[Info(u)']]
      BY <3>1, <3>2 DEF InstInv, Info
    <3>9. InstInv'
      BY <1>0, <2>1, <2>3, <3>8 DEF InstInv, hostVars
    <3>10. QED
      BY <1>b, <3>7, <3>9
  <2>4. CASE ~HostStarted(h) /\ StartDeviceHost(t, h, i) /\ Return(t)
    <3>1. hostService[h] = 0
      <4>1. h \notin hostPid
        BY <2>4 DEF HostStarted
      <4>2. \A u \in Loaders : loop[u].host # h
        <5>1. \A u \in Loaders : loop[u].host # None => ~OutOfCall(u)
          BY <1>0 DEF OutOfCall
        <5>2. h # None
          BY <1>a, <2>2
        <5>3. QED
          BY <2>2, <5>1, <5>2 DEF SerialInv
      <4>3. QED
        BY <2>2, <4>1, <4>2 DEF InstInv
    <3> HIDE DEF h
    <3>2. frame' = [frame EXCEPT ![t] = NoFrame]
      BY <2>4 DEF Return
    <3>3. frame'[t] = NoFrame /\ \A u \in Threads \ {t} : frame'[u] = frame[u]
      BY <1>a, <3>2
    <3>4. /\ loop'[t].host = h /\ loop'[t].then = i
          /\ \A u \in Threads \ {t} : loop'[u] = loop[u]
          /\ \A g \in Hosts \ {h} : hostService'[g] = hostService[g]
      BY <2>2, <2>4, StartFacts
    <3>5. /\ \A f, g \in Hosts : hostService'[f] = hostService'[g] /\ hostService'[f] # 0 => f = g
          /\ \A u \in Threads : frame[u].pc \notin {"idle", "load"} =>
                frame[u].inst = hostService'[HostOf[Info(u)]]
          /\ \A n \in linked : node[n].inst = hostService'[HostOf[node[n].info]]
      BY <2>2, <2>4, <3>1, StartInst
    <3> HIDE DEF i
    <3>6. /\ \A u \in Loaders \ {t} : OutOfCall(u)' <=> OutOfCall(u)
          /\ \A u \in Threads \ {t} : Info(u)' = Info(u)
      BY <1>c, <3>3, <3>4
    <3>7. SerialInv'
      <4>1. \A u \in Threads : frame'[u].pc # "idle" =>
               (Preload[Info(u)'] = "DISABLE" <=> u # Boot)
        BY <1>0, <3>3, <3>6 DEF SerialInv
      <4>2. \A u, w \in Loaders : ~OutOfCall(u)' /\ ~OutOfCall(w)' => u = w
        BY <2>2, <3>6 DEF SerialInv
      <4>3. \A u \in Loaders : loop'[u].host # None =>
               UnloadSeq[loop'[u].host] = <<>> /\ Preload[loop'[u].then] = "DISABLE"
                                               /\ frame'[u].pc = "idle"
        BY <1>0, <2>2, <3>3, <3>4 DEF SerialInv
      <4>4. loop'[Boot] = loop[Boot] /\ frame'[Boot] = frame[Boot]
        BY <1>0, <2>2, <3>3, <3>4
      <4>5. \A u \in Threads : loop'[u].host = None => loop'[u] = NoLoop
        BY <1>a, <2>2, <3>4 DEF SerialInv
      <4>6. QED
        BY <1>0, <2>1, <4>1, <4>2, <4>3, <4>4, <4>5 DEF SerialInv
    <3>8. InstInv'
      <4>1. \A g \in Hosts : UnloadSeq[g] = <<>> /\ hostService'[g] # 0 =>
               g \in hostPid \/ \E u \in Loaders : loop'[u].host = g
        <5>1. \A u \in Loaders : loop[u].host # None => loop'[u] = loop[u]
          BY <1>0, <2>2, <3>4
        <5>2. QED
          BY <1>a, <2>2, <3>4, <5>1 DEF InstInv
      <4>2. phase = "hosts" => \A k \in 1..Len(HostSeq) :
               /\ UnloadSeq[HostSeq[k]] # <<>>
               /\ k > cursor \/ (k = cursor /\ loop[Boot].host = None)
               => hostService'[HostSeq[k]] = 0
        <5>1. \A k \in 1..Len(HostSeq) : HostSeq[k] \in Hosts
          BY DEF Hosts
        <5>2. QED
          BY <2>2, <3>4, <5>1 DEF InstInv
      <4>3. \A u \in Threads : frame'[u].pc \notin {"idle", "load"} =>
               frame'[u].inst = hostService'[HostOf[Info(u)']]
        BY <1>0, <3>3, <3>5, <3>6
      <4>4. \A n \in linked : node[n].info \in Infos /\ node[n].inst # 0
        BY DEF InstInv
      <4>5. loop'[Boot] = loop[Boot]
        BY <1>0, <2>2, <3>4
      <4>6. QED
        BY <1>0, <2>1, <3>5, <4>1, <4>2, <4>3, <4>4, <4>5 DEF InstInv, hostVars
    <3>9. QED
      BY <1>b, <3>7, <3>8
  <2>5. QED
    BY <1>4, <2>3, <2>4 DEF DevmgrServiceLoadDevice
<1>5. ASSUME t \in Loaders, NEW i \in Infos,
             DevSvcManagerSubscribeService(t, i) \/ DevmgrServiceUnloadDevice(t, i)
      PROVE  SerialInv' /\ InstInv'
  <2>1. /\ MayCall(t) /\ DynamicDevInfoFound(SvcName[i], i)
        /\ UNCHANGED <<cursor, hostService, instances, hostPid, loop>>
    BY <1>5 DEF DevSvcManagerSubscribeService, DevmgrServiceUnloadDevice
  <2>2. Preload[i] = "DISABLE"
    BY <2>1 DEF DynamicDevInfoFound, DynamicInfos
  <2>3. PICK pc \in {"load", "del"} : Call(t, pc, i)
    BY <1>5 DEF DevSvcManagerSubscribeService, DevmgrServiceUnloadDevice
  <2>4. /\ \A u \in Threads \ {t} : frame'[u] = frame[u]
        /\ frame'[t].pc = pc /\ frame'[t].info = i
        /\ frame'[t].inst = hostService[HostOf[i]]
    BY <2>1, <2>3, CallFacts
  <2>5. \A u \in Loaders : OutOfCall(u)
    BY <1>5, <2>1 DEF MayCall, DispatchFree, Serialized
  <2>6. /\ \A u \in Loaders \ {t} : OutOfCall(u)'
        /\ \A u \in Threads \ {t} : Info(u)' = Info(u)
    BY <1>c, <2>1, <2>4, <2>5
  <2>7. loop[t].host = None /\ t # Boot
    BY <1>0, <1>5, <2>5 DEF OutOfCall
  <2>8. SerialInv'
    <3>1. \A u \in Threads : frame'[u].pc # "idle" => (Preload[Info(u)'] = "DISABLE" <=> u # Boot)
      BY <2>2, <2>4, <2>6, <2>7 DEF SerialInv, Info
    <3>2. \A u, w \in Loaders : ~OutOfCall(u)' /\ ~OutOfCall(w)' => u = w
      BY <2>6
    <3>3. frame'[Boot] = frame[Boot]
      BY <1>0, <2>4, <2>7
    <3>4. \A u \in Loaders : loop[u].host # None => frame'[u].pc = "idle"
      BY <1>0, <2>4, <2>7 DEF SerialInv
    <3>5. QED
      BY <1>0, <2>1, <3>1, <3>2, <3>3, <3>4 DEF SerialInv
  <2>9. InstInv'
    <3>1. \A u \in Threads : frame'[u].pc \notin {"idle", "load"} =>
             frame'[u].inst = hostService[HostOf[Info(u)']]
      BY <2>4, <2>6 DEF InstInv, Info
    <3>2. QED
      BY <1>0, <2>1, <3>1 DEF InstInv, hostVars
  <2>10. QED
    BY <2>8, <2>9
<1>6. QED
  BY <1>1, <1>2, <1>3, <1>4, <1>5, <1>b

\* The whole invariant of the serialized system.
SettledInv ==
    /\ TypeOK /\ HostInv /\ NodeInv
    /\ SerialInv /\ InstInv /\ DelInv /\ DeviceInv /\ OneInv /\ TokenInv /\ LeftInv

\* It holds initially.
LEMMA InitSettled == Init => SettledInv
<1> SUFFICES ASSUME Init
             PROVE  SettledInv
  OBVIOUS
<1>1. TypeOK /\ HostInv /\ NodeInv
  BY InitFacts
<1> USE DEF Init
<1>0. /\ \A t \in Threads : frame[t].pc = "idle" /\ loop[t] = NoLoop /\ ~frame[t].del
      /\ NoLoop.host = None /\ Boot \in Threads /\ Loaders \subseteq Threads
  BY DEF NoFrame, NoLoop, Threads
<1>2. SerialInv
  <2>1. \A t \in Loaders : OutOfCall(t)
    BY <1>0 DEF OutOfCall, Idle
  <2>2. QED
    BY <1>0, <2>1 DEF SerialInv
<1>3. InstInv
  <2>1. \A k \in 1..Len(HostSeq) : HostSeq[k] \in Hosts
    BY DEF Hosts
  <2>2. QED
    BY <1>0, <2>1 DEF InstInv
<1>4. DelInv /\ DeviceInv /\ OneInv
  BY <1>0 DEF DelInv, DeviceInv, OneInv, Adding, Before
<1>5. TokenInv
  BY <1>0 DEF TokenInv, Tokened, Listed, HasToken, At
<1>6. LeftInv
  BY DEF LeftInv
<1>7. QED
  BY <1>1, <1>2, <1>3, <1>4, <1>5, <1>6 DEF SettledInv

\* Every step keeps it.
LEMMA NextSettled == ASSUME Serialized PROVE SettledInv /\ [Next]_vars => SettledInv'
<1> SUFFICES ASSUME SettledInv, [Next]_vars
             PROVE  SettledInv'
  OBVIOUS
<1>0. /\ TypeOK /\ HostInv /\ NodeInv /\ SerialInv /\ InstInv /\ DelInv /\ DeviceInv /\ OneInv
      /\ TokenInv /\ LeftInv
  BY DEF SettledInv
<1>1. TypeOK' /\ HostInv' /\ NodeInv'
  BY <1>0, NextFacts
<1>2. CASE BootStep
  BY <1>0, <1>1, <1>2, BootSerial, ManagerWork DEF SettledInv
<1>3. ASSUME NEW t \in Threads, AddDelStep(t)
      PROVE  SettledInv'
  <2>1. SerialInv' /\ InstInv'
    BY <1>0, <1>3, AddDelSerial
  <2>2. DelInv' /\ DeviceInv'
    BY <1>0, <1>3, AddDelDel, AddDelDevice
  <2>3. OneInv' /\ TokenInv'
    BY <1>0, <1>3, AddDelToken
  <2>4. LeftInv'
    BY <1>0, <1>3, AddDelLeft
  <2>5. QED
    BY <1>1, <2>1, <2>2, <2>3, <2>4 DEF SettledInv
<1>4. ASSUME NEW t \in Threads, InstallNext(t) \/ InstallDone(t) \/ DevmgrServiceLoadDevice(t)
      PROVE  SettledInv'
  BY <1>0, <1>1, <1>4, CallSerial, ManagerWork DEF SettledInv
<1>5. ASSUME NEW t \in Loaders, NEW i \in Infos,
             DevSvcManagerSubscribeService(t, i) \/ DevmgrServiceUnloadDevice(t, i)
      PROVE  SettledInv'
  <2>1. t \in Threads
    BY DEF Threads
  <2>2. SerialInv' /\ InstInv' /\ LeftInv'
    BY <1>0, <1>5, <2>1, CallSerial
  <2>3. DelInv' /\ DeviceInv' /\ OneInv' /\ TokenInv'
    BY <1>0, <1>5, ManagerWork
  <2>4. QED
    BY <1>1, <2>2, <2>3 DEF SettledInv
<1>6. CASE UNCHANGED vars
  <2>1. \A i : Listed(i)' <=> Listed(i)
    BY <1>6 DEF vars, Listed
  <2>2. \A t \in Threads : /\ Info(t)' = Info(t) /\ Its(t)' = Its(t) /\ Device(t)' = Device(t)
                           /\ (HasToken(t)' <=> HasToken(t)) /\ (OutOfCall(t)' <=> OutOfCall(t))
    BY <1>6 DEF vars, Info, Its, Device, HasToken, OutOfCall, Idle, At, Node
  <2>3. SerialInv'
    BY <1>0, <1>6, <2>2 DEF vars, SerialInv, Threads
  <2>4. InstInv'
    BY <1>0, <1>6, <2>2 DEF vars, InstInv
  <2>5. DelInv' /\ OneInv' /\ LeftInv'
    <3>1. \A t \in Threads : Listed(Info(t))' <=> Listed(Info(t))
      BY <1>6 DEF vars, Listed, Info
    <3>2. QED
      BY <1>0, <1>6, <2>1, <2>2, <3>1 DEF vars, DelInv, OneInv, LeftInv
  <2>6. DeviceInv'
    BY <1>0, <1>6, <2>2 DEF vars, DeviceInv, DeviceOfNode
  <2>7. TokenInv'
    BY <1>0, <1>6, <2>1, <2>2 DEF vars, TokenInv, Tokened
  <2>8. QED
    BY <1>1, <2>3, <2>4, <2>5, <2>6, <2>7 DEF SettledInv
<1>7. QED
  BY <1>2, <1>3, <1>4, <1>5, <1>6 DEF Next, ThreadStep

\* The count of a device's listed nodes is that of its tokens.
LEMMA ListedCount ==
    ASSUME OneInv, NEW i \in Infos
    PROVE  Cardinality({n \in linked : node[n].info = i}) = IF Listed(i) THEN 1 ELSE 0
<1> DEFINE S == {n \in linked : node[n].info = i}
<1>1. CASE Listed(i)
  <2>1. PICK n \in linked : node[n].info = i
    BY <1>1 DEF Listed
  <2>2. S = {n}
    BY <2>1 DEF OneInv
  <2>3. Cardinality({n}) = 1
    BY FS_Singleton
  <2>4. QED
    BY <1>1, <2>2, <2>3
<1>2. CASE ~Listed(i)
  <2>1. S = {}
    BY <1>2 DEF Listed
  <2>2. Cardinality({}) = 0
    BY FS_EmptySet
  <2>3. QED
    BY <1>2, <2>1, <2>2
<1>3. QED
  BY <1>1, <1>2

\* A device stays in its host's list while a node is in it or a call adds one, and a
\* call works on a host that has attached, when calls about a device do not race
\* (DevHostServiceAddDevice, DevHostServiceDelDevice).
THEOREM DevicesThm == ASSUME Serialized PROVE Spec => []DevicesOutliveUse
<1>1. SettledInv => DevicesOutliveUse
  <2> SUFFICES ASSUME SettledInv
               PROVE  DevicesOutliveUse
    OBVIOUS
  <2>1. \A n \in linked : <<node[n].inst, DeviceOf[node[n].info]>> \in devices
    BY DEF SettledInv, DeviceInv, DeviceOfNode
  <2>2. \A t \in Threads : Busy(t) /\ ~At(t, "load") =>
           /\ frame[t].inst # 0
           /\ ~frame[t].del /\ ~At(t, "query") => Device(t) \in devices
    <3>1. \A t \in Threads : Busy(t) => frame[t].pc # "idle"
      BY DEF SettledInv, HostInv, Busy, Idle
    <3>2. QED
      BY <3>1 DEF SettledInv, HostInv, DeviceInv, At, Before
  <2>3. QED
    BY <2>1, <2>2 DEF DevicesOutliveUse
<1>2. Spec => []SettledInv
  BY InitSettled, NextSettled, PTL DEF Spec
<1>3. QED
  BY <1>1, <1>2, PTL

\* No two nodes of one device are launched at a time when calls about it do not race:
\* DevHostServiceAddDevice refuses a device that exists.
THEOREM OneNodeThm == ASSUME Serialized PROVE Spec => []OneNodePerDevice
<1>1. SettledInv => OneNodePerDevice
  <2> SUFFICES ASSUME SettledInv, NEW m \in Nodes, NEW n \in Nodes, m # n, Live(m), Live(n),
                      node[m].info = node[n].info
               PROVE  FALSE
    BY DEF OneNodePerDevice
  <2>0. HostInv /\ NodeInv /\ SerialInv /\ InstInv /\ OneInv
    BY DEF SettledInv
  <2>1. ASSUME NEW k \in Nodes, NEW t \in Threads, Owns(t, k)
        PROVE  frame[t].pc # "idle" /\ node[k].info = Info(t) /\ ~Listed(node[k].info)
    BY <2>0, <2>1 DEF NodeInv, Owns, Its, Owning, OneInv, Before
  <2>2. \A k \in Nodes : Live(k) => k \in linked \/ \E t \in Threads : Owns(t, k)
    BY <2>0 DEF NodeInv, Live
  <2>3. \A k \in linked : Listed(node[k].info)
    BY DEF Listed
  <2>4. CASE m \in linked \/ n \in linked
    <3>1. m \in linked /\ n \in linked
      BY <2>1, <2>2, <2>3, <2>4
    <3>2. QED
      BY <2>0, <3>1 DEF OneInv
  <2>5. CASE m \notin linked /\ n \notin linked
    <3>1. PICK t \in Threads : Owns(t, m)
      BY <2>2, <2>5
    <3>2. PICK u \in Threads : Owns(u, n)
      BY <2>2, <2>5
    <3>3. t # u
      BY <3>1, <3>2 DEF Owns
    <3>4. Info(t) = Info(u) /\ frame[t].pc # "idle" /\ frame[u].pc # "idle"
      BY <2>1, <3>1, <3>2
    <3>5. QED
      BY <2>0, <3>3, <3>4, Apart
  <2>6. QED
    BY <2>4, <2>5
<1>2. Spec => []SettledInv
  BY InitSettled, NextSettled, PTL DEF Spec
<1>3. QED
  BY <1>1, <1>2, PTL

\* What DevHostServiceAddDevice and DevHostServiceDelDevice leave behind is all or
\* nothing, tokens included, when calls about a device do not race.
THEOREM SettledThm == ASSUME Serialized PROVE Spec => []SettledNodes
<1>1. SettledInv => SettledNodes
  <2> SUFFICES ASSUME SettledInv
               PROVE  SettledNodes
    OBVIOUS
  <2>0. TypeOK /\ HostInv /\ NodeInv /\ OneInv /\ TokenInv
    BY DEF SettledInv
  <2>1. ASSUME NEW n \in Nodes, Live(n), ~Held(n)
        PROVE  n \in linked /\ Up(node[n]) /\ Published(node[n])
    BY <2>0, <2>1 DEF NodeInv, Live, Held, Owns
  <2>2. ASSUME NEW i \in Infos, \A t \in Threads : Info(t) # i
        PROVE  tokens[i] = Cardinality({n \in linked : node[n].info = i})
    <3>1. Tokened(i) <=> Listed(i)
      BY <2>2 DEF Tokened
    <3>2. QED
      BY <2>0, <3>1, ListedCount DEF TokenInv
  <2>3. QED
    BY <2>1, <2>2 DEF SettledNodes, Up, Published
<1>2. Spec => []SettledInv
  BY InitSettled, NextSettled, PTL DEF Spec
<1>3. QED
  BY <1>1, <1>2, PTL

\* Start-up loses no device: a device that is not dynamic is linked once or left
\* (DevHostServiceClntInstallDriver, DevmgrServiceLoadLeftDriver).
THEOREM InstalledThm == ASSUME Serialized PROVE Spec => []InstalledOrLeft
<1>1. SettledInv => InstalledOrLeft
  <2> SUFFICES ASSUME SettledInv, NEW i \in Infos, HostOf[i] \in hosts, Preload[i] # "DISABLE"
               PROVE  Cardinality({n \in linked : node[n].info = i})
                         = IF i \in unloadDevInfos THEN 0 ELSE 1
    BY DEF InstalledOrLeft
  <2>1. OneInv /\ LeftInv
    BY DEF SettledInv
  <2>2. Listed(i) <=> i \notin unloadDevInfos
    BY <2>1 DEF LeftInv
  <2>3. QED
    BY <2>1, <2>2, ListedCount
<1>2. Spec => []SettledInv
  BY InitSettled, NextSettled, PTL DEF Spec
<1>3. QED
  BY <1>1, <1>2, PTL
=============================================================================
