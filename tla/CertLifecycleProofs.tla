------------------------ MODULE CertLifecycleProofs ------------------------
(***************************************************************************)
(* Proofs about CertLifecycle, for all services, nodes, pods and ages.     *)
(***************************************************************************)
EXTENDS CertLifecycle, TLAPS

-----------------------------------------------------------------------------
(* Types.                                                                  *)

LEMMA IdleType == Idle \in TaskState
<1>1. (CHOOSE s \in Services : TRUE) \in Services
  BY CertAssumption DEF CertAssumption
<1>. QED
  BY <1>1 DEF Idle, TaskState

LEMMA StartType ==
  ASSUME NEW todo \in SUBSET Services, NEW to \in SUBSET Nodes
  PROVE  Start(todo, to) \in TaskState
BY IdleType DEF Start, TaskState

LEMMA OlderType == ASSUME NEW c \in Certs PROVE Older(c) \in Certs
BY CertAssumption DEF CertAssumption, Certs, Ages, Older

LEMMA TaskFields ==
  ASSUME NEW t \in TaskState
  PROVE  /\ t.pc \in {"idle", "issue", "agents", "push"}
         /\ t.todo \in SUBSET Services /\ t.svc \in Services
         /\ t.to \in SUBSET Nodes /\ t.left \in SUBSET Nodes
         /\ t.pc = "issue" => t.todo # {}
         /\ t.pc = "push" => t.left # {}
         /\ t = [pc |-> t.pc, todo |-> t.todo, svc |-> t.svc,
                 to |-> t.to, left |-> t.left]
BY DEF TaskState

\* The two ways in which a goroutine comes to push.
LEMMA PushType ==
  ASSUME NEW t \in TaskState, NEW left \in SUBSET Nodes, left # {}
  PROVE  /\ [t EXCEPT !.pc = "push", !.left = left] \in TaskState
         /\ t.pc = "push" => [t EXCEPT !.left = left] \in TaskState
BY DEF TaskState

\* OnConnect and the reconciler serve the agents they began with, and do not
\* ask who is connected.
Served(p, t) ==
  p \notin {Rotation, API} /\ t.pc # "idle" => t.pc # "agents" /\ t.to # {}

TypeInv == TypeOK /\ \A p \in Tasks : Served(p, task[p])

LEMMA TypeInit == Init => TypeInv
<1> SUFFICES ASSUME Init PROVE TypeInv
  OBVIOUS
<1>1. TypeOK
  BY IdleType DEF Init, TypeOK, Certs
<1>2. ASSUME NEW p \in Tasks PROVE Served(p, task[p])
  <2>1. task[p] = Idle
    BY <1>2 DEF Init
  <2>. QED
    BY <2>1 DEF Served, Idle
<1>. QED
  BY <1>1, <1>2 DEF TypeInv

LEMMA StartServed ==
  ASSUME NEW p, NEW todo, NEW to, to # {} \/ p \in {Rotation, API}
  PROVE  Served(p, Start(todo, to))
BY DEF Served, Start, Idle

\* One goroutine at a time changes its state.
LEMMA OneTask ==
  ASSUME TypeInv, NEW p \in Tasks, NEW t \in TaskState, Served(p, t),
         task' = [task EXCEPT ![p] = t]
  PROVE  /\ task' \in [Tasks -> TaskState]
         /\ \A q \in Tasks : Served(q, task'[q])
BY DEF TypeInv, TypeOK

LEMMA TaskStepType ==
  ASSUME TypeInv, NEW p \in Tasks, TaskStep(p)
  PROVE  TypeInv'
<1>0. /\ table \in [Services -> Certs] /\ 0 \in Certs
      /\ task \in [Tasks -> TaskState]
      /\ connected \in SUBSET Nodes
      /\ holds \in [Nodes -> [Services -> Certs]]
      /\ Served(p, task[p])
      /\ task[p] \in TaskState
      /\ task[p].todo \in SUBSET Services /\ task[p].svc \in Services
      /\ task[p].to \in SUBSET Nodes /\ task[p].left \in SUBSET Nodes
  BY CertAssumption, TaskFields
     DEF CertAssumption, TypeInv, TypeOK, Certs, Ages
<1>1. ASSUME NEW s \in task[p].todo, Issue(p, s) PROVE TypeInv'
  <2> DEFINE t == [pc   |-> IF p \in {Rotation, API} THEN "agents" ELSE "push",
                   todo |-> task[p].todo \ {s}, svc |-> s,
                   to   |-> task[p].to, left |-> task[p].to]
  <2>1. s \in Services /\ task[p].pc = "issue"
    BY <1>0, <1>1 DEF Issue
  <2>2. p \notin {Rotation, API} => task[p].to # {}
    BY <1>0, <2>1 DEF Served
  <2>3. t \in TaskState /\ Served(p, t)
    BY <1>0, <2>1, <2>2 DEF TaskState, Served
  <2>4. task' = [task EXCEPT ![p] = t]
    BY <1>1 DEF Issue
  <2>5. /\ task' \in [Tasks -> TaskState]
        /\ \A q \in Tasks : Served(q, task'[q])
    <3> HIDE DEF t
    <3>. QED
      BY <2>3, <2>4, OneTask
  <2>6. table' \in [Services -> Certs]
    BY <1>0, <1>1 DEF Issue
  <2>. QED
    BY <1>1, <2>5, <2>6 DEF Issue, TypeInv, TypeOK, agentVars
<1>2. ASSUME NEW s \in task[p].todo, IssueFails(p, s) PROVE TypeInv'
  <2> DEFINE t == Start(task[p].todo \ {s}, task[p].to)
  <2>1. t \in TaskState
    BY <1>0, StartType
  <2>2. Served(p, t)
    BY <1>0, <1>2, StartServed DEF Served, IssueFails
  <2>3. task' = [task EXCEPT ![p] = t]
    BY <1>2 DEF IssueFails
  <2>4. /\ task' \in [Tasks -> TaskState]
        /\ \A q \in Tasks : Served(q, task'[q])
    <3> HIDE DEF t
    <3>. QED
      BY <2>1, <2>2, <2>3, OneTask
  <2>. QED
    BY <1>2, <2>4 DEF IssueFails, TypeInv, TypeOK, agentVars
<1>3. ASSUME ListAgents(p) PROVE TypeInv'
  <2> DEFINE t == IF connected = {} THEN Start(task[p].todo, {})
                  ELSE [task[p] EXCEPT !.pc = "push", !.left = connected]
  <2>1. t \in TaskState
    BY <1>0, StartType, PushType
  <2>2. p \in {Rotation, API}
    BY <1>0, <1>3 DEF ListAgents, Served
  <2>3. Served(p, t)
    BY <2>2 DEF Served
  <2>4. task' = [task EXCEPT ![p] = t]
    BY <1>3 DEF ListAgents
  <2>5. /\ task' \in [Tasks -> TaskState]
        /\ \A q \in Tasks : Served(q, task'[q])
    <3> HIDE DEF t
    <3>. QED
      BY <2>1, <2>3, <2>4, OneTask
  <2>. QED
    BY <1>3, <2>5 DEF ListAgents, TypeInv, TypeOK, agentVars
<1>4. ASSUME NEW n \in task[p].left, PushCert(p, n) PROVE TypeInv'
  <2> DEFINE t == IF task[p].left = {n} THEN Start(task[p].todo, task[p].to)
                  ELSE [task[p] EXCEPT !.left = task[p].left \ {n}]
  <2>1. task[p].pc = "push" /\ n \in Nodes
    BY <1>0, <1>4 DEF PushCert
  <2>2. t \in TaskState
    BY <1>0, <2>1, StartType, PushType
  <2>3. Served(p, t)
    <3>1. p \notin {Rotation, API} => task[p].to # {}
      BY <1>0, <2>1 DEF Served
    <3>2. CASE task[p].left = {n}
      BY <3>1, <3>2, StartServed
    <3>3. CASE task[p].left # {n}
      BY <1>0, <2>1, <3>1, <3>3, TaskFields DEF Served
    <3>. QED
      BY <3>2, <3>3
  <2>4. task' = [task EXCEPT ![p] = t]
    BY <1>4 DEF PushCert
  <2>5. /\ task' \in [Tasks -> TaskState]
        /\ \A q \in Tasks : Served(q, task'[q])
    <3> HIDE DEF t
    <3>. QED
      BY <2>2, <2>3, <2>4, OneTask
  <2>6. holds' \in [Nodes -> [Services -> Certs]]
    <3>1. holds[n] \in [Services -> Certs]
      BY <1>0, <2>1
    <3>2. [holds EXCEPT ![n][task[p].svc] = 0]
            = [holds EXCEPT ![n] = [holds[n] EXCEPT ![task[p].svc] = 0]]
      BY <1>0, <2>1
    <3>3. [holds[n] EXCEPT ![task[p].svc] = 0] \in [Services -> Certs]
      BY <1>0, <3>1
    <3>. QED
      BY <1>0, <1>4, <2>1, <3>2, <3>3 DEF PushCert
  <2>. QED
    BY <1>4, <2>5, <2>6 DEF PushCert, TypeInv, TypeOK
<1>. QED
  BY <1>1, <1>2, <1>3, <1>4 DEF TaskStep

\* The steps by which an idle goroutine is given work.
LEMMA BeginType ==
  ASSUME TypeInv, NEW p \in Tasks,
         NEW todo \in SUBSET Services, NEW to \in SUBSET Nodes,
         to # {} \/ p \in {Rotation, API},
         task' = [task EXCEPT ![p] = Start(todo, to)]
  PROVE  /\ task' \in [Tasks -> TaskState]
         /\ \A q \in Tasks : Served(q, task'[q])
BY StartType, StartServed, OneTask

LEMMA TypeStep == TypeInv /\ [Next]_vars => TypeInv'
<1> SUFFICES ASSUME TypeInv, [Next]_vars PROVE TypeInv'
  OBVIOUS
<1>0. /\ TypeOK
      /\ {Rotation, API, Registry} \subseteq Tasks /\ Nodes \subseteq Tasks
      /\ Registry \notin {Rotation, API} /\ Rotation \in {Rotation, API}
      /\ PodService \in [PodNames -> Services] /\ PodNode \in [PodNames -> Nodes]
      /\ Announces \in [Nodes -> SUBSET Services]
  BY CertAssumption DEF CertAssumption, TypeInv, Tasks
<1>1. ASSUME NEW p \in Tasks, TaskStep(p) PROVE TypeInv'
  BY <1>1, TaskStepType
<1>2. CASE RotationScan
  <2>1. {s \in Services : Due(s)} \in SUBSET Services
    OBVIOUS
  <2>2. task' = [task EXCEPT ![Rotation] = Start({s \in Services : Due(s)}, {})]
    BY <1>2 DEF RotationScan
  <2>3. /\ task' \in [Tasks -> TaskState]
        /\ \A q \in Tasks : Served(q, task'[q])
    BY <1>0, <2>1, <2>2, BeginType
  <2>. QED
    BY <1>0, <1>2, <2>3 DEF RotationScan, TypeInv, TypeOK, agentVars
<1>3. ASSUME NEW s \in Services, RotateRequest(s) PROVE TypeInv'
  <2>1. task' = [task EXCEPT ![API] = Start({s}, {})]
    BY <1>3 DEF RotateRequest
  <2>2. /\ task' \in [Tasks -> TaskState]
        /\ \A q \in Tasks : Served(q, task'[q])
    BY <1>0, <2>1, BeginType
  <2>. QED
    BY <1>0, <1>3, <2>2 DEF RotateRequest, TypeInv, TypeOK, agentVars
<1>4. ASSUME NEW pod \in PodNames, ReconcileRunning(pod) PROVE TypeInv'
  <2>1. /\ {PodService[pod]} \in SUBSET Services
        /\ {PodNode[pod]} \in SUBSET Nodes /\ {PodNode[pod]} # {}
    BY <1>0
  <2>2. task' = [task EXCEPT ![Registry] =
                   Start({PodService[pod]}, {PodNode[pod]})]
    BY <1>4 DEF ReconcileRunning
  <2>3. /\ task' \in [Tasks -> TaskState]
        /\ \A q \in Tasks : Served(q, task'[q])
    BY <1>0, <2>1, <2>2, BeginType
  <2>. QED
    BY <1>0, <1>4, <2>3 DEF ReconcileRunning, TypeInv, TypeOK, agentVars
<1>5. ASSUME NEW pod \in PodNames,
             PodStart(pod) \/ PodStop(pod) \/ ReconcileGone(pod)
               \/ ReconcilePending(pod)
      PROVE  TypeInv'
  BY <1>0, <1>5
     DEF PodStart, PodStop, ReconcileGone, ReconcilePending, TypeInv, TypeOK,
         agentVars, Certs
<1>6. ASSUME NEW n \in Nodes, NEW ids \in SUBSET Announces[n],
             AgentConnect(n, ids)
      PROVE  TypeInv'
  <2>1. ids \in SUBSET Services /\ {n} \in SUBSET Nodes /\ {n} # {}
    BY <1>0
  <2>2. task' = [task EXCEPT ![n] = Start(ids, {n})]
    BY <1>6 DEF AgentConnect
  <2>3. /\ task' \in [Tasks -> TaskState]
        /\ \A q \in Tasks : Served(q, task'[q])
    BY <1>0, <2>1, <2>2, BeginType
  <2>. QED
    BY <1>0, <1>6, <2>1, <2>3 DEF AgentConnect, TypeInv, TypeOK
<1>7. ASSUME NEW n \in Nodes, AgentDisconnect(n) \/ AgentRestart(n)
      PROVE  TypeInv'
  BY <1>0, <1>7
     DEF AgentDisconnect, AgentRestart, sigilVars, TypeInv, TypeOK, Certs
<1>8. CASE SigilRestart
  BY <1>0, <1>8, IdleType
     DEF SigilRestart, TypeInv, TypeOK, Served, Idle
<1>9. CASE Tick
  BY <1>0, <1>9, OlderType DEF Tick, TypeInv, TypeOK
<1>10. CASE UNCHANGED vars
  BY <1>10 DEF vars, sigilVars, agentVars, TypeInv, TypeOK
<1>. QED
  BY <1>1, <1>2, <1>3, <1>4, <1>5, <1>6, <1>7, <1>8, <1>9, <1>10
     DEF Next, RegistryStep, AgentStep

LEMMA TypeInvariant == Spec => []TypeInv
BY TypeInit, TypeStep, PTL DEF Spec

\* Type correctness; in particular a goroutine that is at work always has a
\* service to issue for or an agent to push to (main.go, lines 188-225).
THEOREM TypeCorrect == Spec => []TypeOK
<1>1. TypeInv => TypeOK
  BY DEF TypeInv
<1>. QED
  BY <1>1, TypeInvariant, PTL

-----------------------------------------------------------------------------
(* What is listed is held by every connected agent that is not passed over. *)

\* A goroutine that is done has nothing left to issue.
Rests(t) == t.pc = "idle" => t.todo = {}

\* While a certificate is being pushed it is as young as the one listed.
PushedIsListed ==
  \A p \in Tasks :
    task[p].pc \in {"agents", "push"} => table[task[p].svc] \in {0, NoCert}

\* The rotation loop lets no listed certificate grow old.
ListedIsYoung == \A s \in Services : table[s] \in (0..RotateAfter) \cup {NoCert}

HeldInv ==
  /\ TypeInv
  /\ \A p \in Tasks : Rests(task[p])
  /\ PushedIsListed
  /\ ListedIsYoung
  /\ ListedIsHeld

LEMMA StartFields ==
  ASSUME NEW todo, NEW to
  PROVE  /\ Start(todo, to).todo = todo
         /\ Start(todo, to).pc = IF todo = {} THEN "idle" ELSE "issue"
         /\ Start(todo, to).pc # "idle" => Start(todo, to).to = to
BY DEF Start, Idle

LEMMA HeldInit == Init => HeldInv
<1> SUFFICES ASSUME Init PROVE HeldInv
  OBVIOUS
<1>1. TypeInv
  BY TypeInit
<1>2. \A p \in Tasks : task[p].pc = "idle" /\ task[p].todo = {}
  BY DEF Init, Idle
<1>3. /\ \A n \in Nodes : hello[n] = {}
      /\ \A s \in Services : table[s] = NoCert
      /\ connected = {}
  BY DEF Init
<1>. QED
  BY <1>1, <1>2, <1>3
     DEF HeldInv, Rests, PushedIsListed, ListedIsYoung, ListedIsHeld

\* An idle goroutine is given work.
LEMMA BeginHeld ==
  ASSUME HeldInv, TypeInv', NEW p \in Tasks, task[p].pc = "idle",
         NEW todo, NEW to,
         task' = [task EXCEPT ![p] = Start(todo, to)],
         UNCHANGED <<table, connected, hello, holds>>
  PROVE  HeldInv'
<1>1. /\ task \in [Tasks -> TaskState] /\ task[p].todo = {}
      /\ Nodes \subseteq Tasks
  BY DEF HeldInv, TypeInv, TypeOK, Rests, Tasks
<1>2. /\ task'[p] = Start(todo, to)
      /\ \A q \in Tasks : q # p => task'[q] = task[q]
  BY <1>1
<1>3. \A q \in Tasks : Rests(task'[q])
  BY <1>2, StartFields DEF HeldInv, Rests
<1>4. PushedIsListed'
  BY <1>2, StartFields DEF HeldInv, PushedIsListed
<1>5. ASSUME NEW n \in Nodes, NEW s, OnItsWay(n, s) PROVE OnItsWay(n, s)'
  <2>1. CASE s \in task[n].todo
    BY <1>1, <1>2, <2>1 DEF OnItsWay
  <2>2. CASE s \notin task[n].todo
    BY <1>2, <1>5, <2>2 DEF OnItsWay
  <2>. QED
    BY <2>1, <2>2
<1>6. connected \subseteq Nodes
  BY DEF HeldInv, TypeInv, TypeOK
<1>7. ListedIsHeld'
  BY <1>5, <1>6 DEF HeldInv, ListedIsHeld
<1>. QED
  BY <1>3, <1>4, <1>7 DEF HeldInv, ListedIsYoung, Rests

LEMMA TaskStepHeld ==
  ASSUME HeldInv, TypeInv', NEW p \in Tasks, TaskStep(p), ~PassedOver
  PROVE  HeldInv'
<1>0. /\ task \in [Tasks -> TaskState] /\ table \in [Services -> Certs]
      /\ holds \in [Nodes -> [Services -> Certs]]
      /\ hello \in [Nodes -> SUBSET Services]
      /\ connected \subseteq Nodes /\ Nodes \subseteq Tasks
      /\ task[p].todo \subseteq Services /\ task[p].svc \in Services
      /\ Rests(task[p]) /\ Served(p, task[p])
  BY CertAssumption, TaskFields
     DEF CertAssumption, HeldInv, TypeInv, TypeOK, Tasks
<1>1. ASSUME NEW s \in task[p].todo, Issue(p, s) PROVE HeldInv'
  <2>1. /\ task[p].pc = "issue" /\ s \in Services
        /\ table'[s] = 0
        /\ \A r \in Services : r # s => table'[r] = table[r]
        /\ \A q \in Tasks : q # p => task'[q] = task[q]
        /\ task'[p].pc = IF p \in {Rotation, API} THEN "agents" ELSE "push"
        /\ task'[p].todo = task[p].todo \ {s} /\ task'[p].svc = s
        /\ task'[p].to = task[p].to /\ task'[p].left = task[p].to
        /\ UNCHANGED <<connected, hello, holds>>
    BY <1>0, <1>1 DEF Issue, agentVars
  <2>2. \A q \in Tasks : Rests(task'[q])
    <3>1. Rests(task'[p])
      BY <1>0, <2>1 DEF Rests
    <3>. QED
      BY <2>1, <3>1 DEF HeldInv
  <2>3. PushedIsListed'
    <3> SUFFICES ASSUME NEW q \in Tasks, task'[q].pc \in {"agents", "push"}
                 PROVE  table'[task'[q].svc] \in {0, NoCert}
      BY DEF PushedIsListed
    <3>1. CASE q = p
      BY <2>1, <3>1
    <3>2. CASE q # p
      <4>1. task[q].svc \in Services
        BY <1>0, TaskFields
      <4>2. task'[q] = task[q] /\ table[task[q].svc] \in {0, NoCert}
        BY <2>1, <3>2 DEF HeldInv, PushedIsListed
      <4>. QED
        BY <2>1, <4>1, <4>2
    <3>. QED
      BY <3>1, <3>2
  <2>4. ListedIsYoung'
    <3>1. 0 \in 0..RotateAfter
      BY CertAssumption DEF CertAssumption
    <3>. QED
      BY <2>1, <3>1 DEF HeldInv, ListedIsYoung
  <2>5. ListedIsHeld'
    <3> SUFFICES ASSUME NEW n \in connected, NEW r \in hello[n],
                        table'[r] # NoCert
                 PROVE  holds[n][r] = table'[r] \/ OnItsWay(n, r)'
      BY <2>1 DEF ListedIsHeld
    <3>1. n \in Nodes /\ r \in Services
      BY <1>0
    <3>2. CASE r = s
      <4>1. p \notin {Rotation, API} => n \in task[p].to
        BY <1>1, <3>2 DEF PassedOver, IssuedPast
      <4>. QED
        BY <2>1, <3>2, <4>1 DEF OnItsWay
    <3>3. CASE r # s
      <4>1. holds[n][r] = table[r] \/ OnItsWay(n, r)
        BY <2>1, <3>1, <3>3 DEF HeldInv, ListedIsHeld
      <4>2. CASE r \in task[n].todo
        <5>1. r \in task'[n].todo
          BY <1>0, <2>1, <3>1, <3>3, <4>2
        <5>. QED
          BY <5>1 DEF OnItsWay
      <4>3. CASE \E q \in Tasks :
                   /\ task[q].svc = r
                   /\ \/ task[q].pc = "agents"
                      \/ task[q].pc = "push" /\ n \in task[q].left
        <5>1. PICK q \in Tasks :
                /\ task[q].svc = r
                /\ \/ task[q].pc = "agents"
                   \/ task[q].pc = "push" /\ n \in task[q].left
          BY <4>3
        <5>2. q # p
          BY <2>1, <5>1
        <5>3. task'[q] = task[q]
          BY <2>1, <5>2
        <5>. QED
          BY <5>1, <5>3 DEF OnItsWay
      <4>4. CASE holds[n][r] = table[r]
        BY <2>1, <3>1, <3>3, <4>4
      <4>. QED
        BY <4>1, <4>2, <4>3, <4>4 DEF OnItsWay
    <3>. QED
      BY <3>2, <3>3
  <2>. QED
    BY <1>0, <2>1, <2>2, <2>3, <2>4, <2>5 DEF HeldInv, Rests
<1>2. ASSUME NEW s \in task[p].todo, IssueFails(p, s) PROVE HeldInv'
  <2> DEFINE t == Start(task[p].todo \ {s}, task[p].to)
  <2>1. /\ task[p].pc = "issue" /\ p \notin connected
        /\ task'[p] = t
        /\ \A q \in Tasks : q # p => task'[q] = task[q]
        /\ UNCHANGED <<table, connected, hello, holds>>
    BY <1>0, <1>2 DEF IssueFails, agentVars, PassedOver, Skipped
  <2>2. /\ t.todo = task[p].todo \ {s} /\ t.pc \in {"idle", "issue"}
        /\ t.pc = "idle" => t.todo = {}
        /\ t.pc # "idle" => t.to = task[p].to
    BY StartFields
  <2> HIDE DEF t
  <2>3. \A q \in Tasks : Rests(task'[q])
    <3>1. Rests(t)
      BY <1>0, <2>1, <2>2 DEF Rests
    <3>. QED
      BY <2>1, <3>1 DEF HeldInv
  <2>4. PushedIsListed'
    BY <2>1, <2>2 DEF HeldInv, PushedIsListed
  <2>5. ASSUME NEW n \in connected, NEW r, OnItsWay(n, r)
        PROVE  OnItsWay(n, r)'
    <3>1. CASE r \in task[n].todo
      BY <1>0, <2>1, <3>1 DEF OnItsWay
    <3>2. CASE r \notin task[n].todo
      BY <2>1, <2>5, <3>2 DEF OnItsWay
    <3>. QED
      BY <3>1, <3>2
  <2>6. ListedIsHeld'
    BY <1>0, <2>1, <2>5 DEF HeldInv, ListedIsHeld
  <2>. QED
    BY <2>1, <2>3, <2>4, <2>6 DEF HeldInv, ListedIsYoung, Rests
<1>3. ASSUME ListAgents(p) PROVE HeldInv'
  <2> DEFINE t == IF connected = {} THEN Start(task[p].todo, {})
                  ELSE [task[p] EXCEPT !.pc = "push", !.left = connected]
  <2>1. /\ task[p].pc = "agents" /\ p \in {Rotation, API}
        /\ task'[p] = t
        /\ \A q \in Tasks : q # p => task'[q] = task[q]
        /\ UNCHANGED <<table, connected, hello, holds>>
    BY <1>0, <1>3 DEF ListAgents, agentVars, Served
  <2>2. /\ t.todo = task[p].todo
        /\ t.pc = "idle" => t.todo = {}
        /\ \/ t.pc \in {"idle", "issue"}
           \/ t.pc = "push" /\ t.svc = task[p].svc
        /\ connected # {} => /\ t.pc = "push" /\ t.svc = task[p].svc
                             /\ t.left = connected
    <3>1. CASE connected = {}
      <4>1. t = Start(task[p].todo, {})
        BY <3>1
      <4>2. /\ t.todo = task[p].todo
            /\ t.pc = IF task[p].todo = {} THEN "idle" ELSE "issue"
        <5> HIDE DEF t
        <5>. QED
          BY <4>1, StartFields
      <4> HIDE DEF t
      <4>. QED
        BY <3>1, <4>2
    <3>2. CASE connected # {}
      BY <1>0, <3>2, TaskFields
    <3>. QED
      BY <3>1, <3>2
  <2> HIDE DEF t
  <2>3. \A q \in Tasks : Rests(task'[q])
    <3>1. Rests(t)
      BY <2>1, <2>2 DEF Rests
    <3>. QED
      BY <2>1, <3>1 DEF HeldInv
  <2>4. PushedIsListed'
    BY <2>1, <2>2 DEF HeldInv, PushedIsListed
  <2>5. ASSUME NEW n \in connected, NEW r, OnItsWay(n, r)
        PROVE  OnItsWay(n, r)'
    <3>1. CASE r \in task[n].todo
      BY <1>0, <2>1, <2>2, <3>1 DEF OnItsWay
    <3>2. CASE r \notin task[n].todo
      <4>1. PICK q \in Tasks :
              /\ task[q].svc = r
              /\ \/ task[q].pc = "agents"
                 \/ task[q].pc = "push" /\ n \in task[q].left
        BY <2>5, <3>2 DEF OnItsWay
      <4>2. /\ task'[q].svc = r
            /\ \/ task'[q].pc = "agents"
               \/ task'[q].pc = "push" /\ n \in task'[q].left
        BY <2>1, <2>2, <4>1
      <4>. QED
        BY <4>2 DEF OnItsWay
    <3>. QED
      BY <3>1, <3>2
  <2>6. ListedIsHeld'
    BY <1>0, <2>1, <2>5 DEF HeldInv, ListedIsHeld
  <2>. QED
    BY <2>1, <2>3, <2>4, <2>6 DEF HeldInv, ListedIsYoung, Rests
<1>4. ASSUME NEW m \in task[p].left, PushCert(p, m) PROVE HeldInv'
  <2> DEFINE t == IF task[p].left = {m} THEN Start(task[p].todo, task[p].to)
                  ELSE [task[p] EXCEPT !.left = task[p].left \ {m}]
  <2>1. /\ task[p].pc = "push"
        /\ task'[p] = t
        /\ \A q \in Tasks : q # p => task'[q] = task[q]
        /\ UNCHANGED <<table, connected, hello>>
    BY <1>0, <1>4 DEF PushCert
  <2>2. /\ t.todo = task[p].todo
        /\ t.pc = "idle" => t.todo = {}
        /\ t.pc # "idle" => t.to = task[p].to
        /\ \/ t.pc \in {"idle", "issue"}
           \/ t.pc = "push" /\ t.svc = task[p].svc
        /\ \A n \in task[p].left : n # m =>
             t.pc = "push" /\ t.svc = task[p].svc /\ n \in t.left
    <3>1. CASE task[p].left = {m}
      <4>1. t = Start(task[p].todo, task[p].to)
        BY <3>1
      <4>2. /\ t.todo = task[p].todo
            /\ t.pc = IF task[p].todo = {} THEN "idle" ELSE "issue"
            /\ t.pc # "idle" => t.to = task[p].to
        <5> HIDE DEF t
        <5>. QED
          BY <4>1, StartFields
      <4> HIDE DEF t
      <4>. QED
        BY <3>1, <4>2
    <3>2. CASE task[p].left # {m}
      BY <1>0, <2>1, <3>2, TaskFields
    <3>. QED
      BY <3>1, <3>2
  <2> HIDE DEF t
  <2>3. \A q \in Tasks : Rests(task'[q])
    <3>1. Rests(t)
      BY <1>0, <2>1, <2>2 DEF Rests
    <3>. QED
      BY <2>1, <3>1 DEF HeldInv
  <2>4. PushedIsListed'
    BY <2>1, <2>2 DEF HeldInv, PushedIsListed
  <2>5. \A n \in Nodes, r \in Services :
          holds'[n][r] = IF n = m /\ m \in connected /\ r = task[p].svc THEN 0
                         ELSE holds[n][r]
    BY <1>0, <1>4 DEF PushCert
  <2>6. ListedIsHeld'
    <3> SUFFICES ASSUME NEW n \in connected, NEW r \in hello[n],
                        table[r] # NoCert
                 PROVE  holds'[n][r] = table[r] \/ OnItsWay(n, r)'
      BY <2>1 DEF ListedIsHeld
    <3>1. n \in Nodes /\ r \in Services
      BY <1>0
    <3>2. CASE n = m /\ r = task[p].svc
      <4>1. table[r] \in {0, NoCert}
        BY <2>1, <3>2 DEF HeldInv, PushedIsListed
      <4>. QED
        BY <2>5, <3>1, <3>2, <4>1
    <3>3. CASE ~(n = m /\ r = task[p].svc)
      <4>1. holds'[n][r] = holds[n][r]
        BY <2>5, <3>1, <3>3
      <4>2. CASE r \in task[n].todo
        <5>1. r \in task'[n].todo
          BY <1>0, <2>1, <2>2, <3>1, <4>2
        <5>. QED
          BY <5>1 DEF OnItsWay
      <4>3. CASE \E q \in Tasks :
                   /\ task[q].svc = r
                   /\ \/ task[q].pc = "agents"
                      \/ task[q].pc = "push" /\ n \in task[q].left
        <5>1. PICK q \in Tasks :
                /\ task[q].svc = r
                /\ \/ task[q].pc = "agents"
                   \/ task[q].pc = "push" /\ n \in task[q].left
          BY <4>3
        <5>2. /\ task'[q].svc = r
              /\ \/ task'[q].pc = "agents"
                 \/ task'[q].pc = "push" /\ n \in task'[q].left
          BY <2>1, <2>2, <3>3, <5>1
        <5>. QED
          BY <5>2 DEF OnItsWay
      <4>4. CASE holds[n][r] = table[r]
        BY <4>1, <4>4
      <4>. QED
        BY <4>2, <4>3, <4>4 DEF HeldInv, ListedIsHeld, OnItsWay
    <3>. QED
      BY <3>2, <3>3
  <2>. QED
    BY <2>1, <2>3, <2>4, <2>6 DEF HeldInv, ListedIsYoung, Rests
<1>. QED
  BY <1>1, <1>2, <1>3, <1>4 DEF TaskStep

\* A pod name in place of a service's revokes at most a listed certificate.
LEMMA GoneHeld ==
  ASSUME HeldInv, TypeInv', NEW pod, ReconcileGone(pod)
  PROVE  HeldInv'
<1>1. /\ UNCHANGED <<task, connected, hello, holds>>
      /\ \A s \in Services : table'[s] \in {table[s], NoCert}
  BY DEF ReconcileGone, agentVars
<1>2. PushedIsListed'
  <2>1. \A p \in Tasks : task[p].svc \in Services
    BY TaskFields DEF HeldInv, TypeInv, TypeOK
  <2>. QED
    BY <1>1, <2>1 DEF HeldInv, PushedIsListed
<1>3. ListedIsYoung'
  BY <1>1 DEF HeldInv, ListedIsYoung
<1>4. ListedIsHeld'
  <2>1. \A n \in connected : hello[n] \subseteq Services
    BY DEF HeldInv, TypeInv, TypeOK
  <2>. QED
    BY <1>1, <2>1 DEF HeldInv, ListedIsHeld, OnItsWay
<1>. QED
  BY <1>1, <1>2, <1>3, <1>4 DEF HeldInv, Rests

\* The agent that connects is to be issued all it names.
LEMMA ConnectHeld ==
  ASSUME HeldInv, TypeInv',
         NEW n \in Nodes, NEW ids \in SUBSET Announces[n], AgentConnect(n, ids)
  PROVE  HeldInv'
<1>0. /\ task \in [Tasks -> TaskState] /\ Nodes \subseteq Tasks
      /\ hello \in [Nodes -> SUBSET Services]
      /\ connected \subseteq Nodes
  BY DEF HeldInv, TypeInv, TypeOK, Tasks
<1>1. /\ task[n].pc = "idle" /\ task[n].todo = {}
      /\ connected' = connected \cup {n}
      /\ hello'[n] = ids
      /\ \A m \in Nodes : m # n => hello'[m] = hello[m]
      /\ task'[n] = Start(ids, {n})
      /\ \A q \in Tasks : q # n => task'[q] = task[q]
      /\ UNCHANGED <<table, holds>>
  BY <1>0 DEF AgentConnect, HeldInv, Rests
<1>2. \A q \in Tasks : Rests(task'[q])
  BY <1>1, StartFields DEF HeldInv, Rests
<1>3. PushedIsListed'
  <2>1. task'[n].pc \in {"idle", "issue"}
    BY <1>1, StartFields
  <2>. QED
    BY <1>1, <2>1 DEF HeldInv, PushedIsListed
<1>4. ListedIsHeld'
  <2> SUFFICES ASSUME NEW m \in connected', NEW s \in hello'[m],
                      table[s] # NoCert
               PROVE  holds[m][s] = table[s] \/ OnItsWay(m, s)'
    BY <1>1 DEF ListedIsHeld
  <2>1. CASE m = n
    <3>1. s \in task'[n].todo
      BY <1>1, <2>1, StartFields
    <3>. QED
      BY <2>1, <3>1 DEF OnItsWay
  <2>2. CASE m # n
    <3>1. m \in connected /\ m \in Tasks /\ s \in hello[m]
      BY <1>0, <1>1, <2>2
    <3>2. holds[m][s] = table[s] \/ OnItsWay(m, s)
      BY <3>1 DEF HeldInv, ListedIsHeld
    <3>3. ASSUME OnItsWay(m, s) PROVE OnItsWay(m, s)'
      <4>1. CASE s \in task[m].todo
        BY <1>1, <2>2, <3>1, <4>1 DEF OnItsWay
      <4>2. CASE s \notin task[m].todo
        BY <1>1, <3>3, <4>2 DEF OnItsWay
      <4>. QED
        BY <4>1, <4>2
    <3>. QED
      BY <3>2, <3>3
  <2>. QED
    BY <2>1, <2>2
<1>. QED
  BY <1>1, <1>2, <1>3, <1>4 DEF HeldInv, ListedIsYoung

\* Time passes only when nothing is on its way, so that what is held is what
\* is listed, and only while nothing listed is due.
LEMMA TickHeld ==
  ASSUME HeldInv, TypeInv', Tick
  PROVE  HeldInv'
<1>0. /\ connected \subseteq Nodes /\ Nodes \subseteq Tasks
      /\ hello \in [Nodes -> SUBSET Services]
      /\ \A p \in Tasks : task[p].pc = "idle" /\ task[p].todo = {}
      /\ UNCHANGED <<task, connected, hello>>
  BY DEF HeldInv, TypeInv, TypeOK, Tasks, Tick, Rests
<1>1. \A s \in Services : table'[s] = Older(table[s])
  BY DEF Tick
<1>2. \A n \in Nodes, s \in Services : holds'[n][s] = Older(holds[n][s])
  BY DEF Tick
<1>3. Older(NoCert) = NoCert
  BY CertAssumption DEF CertAssumption, Older
<1>4. ListedIsYoung'
  <2> SUFFICES ASSUME NEW s \in Services
               PROVE  Older(table[s]) \in (0..RotateAfter) \cup {NoCert}
    BY <1>1 DEF ListedIsYoung
  <2>1. CASE table[s] = NoCert
    BY <1>3, <2>1
  <2>2. CASE table[s] # NoCert
    <3>1. table[s] \in 0..RotateAfter /\ ~(table[s] >= RotateAfter)
      BY <2>2 DEF HeldInv, ListedIsYoung, Tick, Due
    <3>. QED
      BY <3>1, CertAssumption DEF CertAssumption, Older
  <2>. QED
    BY <2>1, <2>2
<1>5. ListedIsHeld'
  <2> SUFFICES ASSUME NEW n \in connected, NEW s \in hello[n],
                      table'[s] # NoCert
               PROVE  holds'[n][s] = table'[s]
    BY <1>0 DEF ListedIsHeld
  <2>1. n \in Nodes /\ s \in Services
    BY <1>0
  <2>2. table[s] # NoCert
    BY <1>1, <1>3, <2>1
  <2>3. ~OnItsWay(n, s)
    BY <1>0, <2>1 DEF OnItsWay
  <2>4. holds[n][s] = table[s]
    BY <2>2, <2>3 DEF HeldInv, ListedIsHeld
  <2>. QED
    BY <1>1, <1>2, <2>1, <2>4
<1>6. PushedIsListed'
  BY <1>0 DEF PushedIsListed
<1>. QED
  BY <1>0, <1>4, <1>5, <1>6 DEF HeldInv, Rests

LEMMA HeldStep == HeldInv /\ [Next]_vars /\ [~PassedOver]_vars => HeldInv'
<1> SUFFICES ASSUME HeldInv, [Next]_vars, [~PassedOver]_vars PROVE HeldInv'
  OBVIOUS
<1>0. TypeInv'
  BY TypeStep DEF HeldInv
<1>1. ASSUME NEW p \in Tasks, TaskStep(p), ~PassedOver PROVE HeldInv'
  BY <1>0, <1>1, TaskStepHeld
<1>2. CASE RotationScan
  BY <1>0, <1>2, BeginHeld DEF RotationScan, Tasks, agentVars
<1>3. ASSUME NEW s \in Services, RotateRequest(s) PROVE HeldInv'
  BY <1>0, <1>3, BeginHeld DEF RotateRequest, Tasks, agentVars
<1>4. ASSUME NEW pod \in PodNames, ReconcileRunning(pod) PROVE HeldInv'
  BY <1>0, <1>4, BeginHeld DEF ReconcileRunning, Tasks, agentVars
<1>5. ASSUME NEW pod \in PodNames, ReconcileGone(pod) PROVE HeldInv'
  BY <1>0, <1>5, GoneHeld
<1>6. ASSUME NEW pod \in PodNames,
             PodStart(pod) \/ PodStop(pod) \/ ReconcilePending(pod)
      PROVE  HeldInv'
  BY <1>0, <1>6
     DEF PodStart, PodStop, ReconcilePending, agentVars, HeldInv, Rests,
         PushedIsListed, ListedIsYoung, ListedIsHeld, OnItsWay
<1>7. ASSUME NEW n \in Nodes, NEW ids \in SUBSET Announces[n],
             AgentConnect(n, ids)
      PROVE  HeldInv'
  BY <1>0, <1>7, ConnectHeld
<1>8. ASSUME NEW n \in Nodes, AgentDisconnect(n) \/ AgentRestart(n)
      PROVE  HeldInv'
  <2>1. /\ UNCHANGED <<table, task, hello>>
        /\ connected' = connected \ {n}
        /\ \A m \in Nodes : m # n => holds'[m] = holds[m]
    BY <1>8 DEF AgentDisconnect, AgentRestart, sigilVars, HeldInv, TypeInv,
                TypeOK
  <2>2. connected \subseteq Nodes
    BY DEF HeldInv, TypeInv, TypeOK
  <2>3. ListedIsHeld'
    BY <2>1, <2>2 DEF HeldInv, ListedIsHeld, OnItsWay
  <2>. QED
    BY <1>0, <2>1, <2>3 DEF HeldInv, Rests, PushedIsListed, ListedIsYoung
<1>9. CASE SigilRestart
  <2>1. /\ UNCHANGED <<table, hello>> /\ connected' = {}
        /\ \A p \in Tasks : task'[p].pc = "idle" /\ task'[p].todo = {}
    BY <1>9 DEF SigilRestart, Idle
  <2>. QED
    BY <1>0, <2>1
       DEF HeldInv, Rests, PushedIsListed, ListedIsYoung, ListedIsHeld
<1>10. CASE Tick
  BY <1>0, <1>10, TickHeld
<1>11. CASE UNCHANGED vars
  BY <1>0, <1>11
     DEF vars, sigilVars, agentVars, HeldInv, Rests, PushedIsListed,
         ListedIsYoung, ListedIsHeld, OnItsWay
<1>. QED
  BY <1>1, <1>2, <1>3, <1>4, <1>5, <1>6, <1>7, <1>8, <1>9, <1>10, <1>11
     DEF Next, RegistryStep, AgentStep

\* A connected agent holds the certificate that is listed, or is about to be
\* pushed it, whatever order hellos, pod events, rotations, requests, restarts
\* and failures come in, as long as no connected agent is passed over (main.go,
\* lines 117-148, 188-225, 269-299 and 350-392).
THEOREM OnlyPassedOverMisled ==
  Spec /\ [][~PassedOver]_vars => []ListedIsHeld
<1>1. Init => HeldInv
  BY HeldInit
<1>2. HeldInv /\ [Next]_vars /\ [~PassedOver]_vars => HeldInv'
  BY HeldStep
<1>3. HeldInv => ListedIsHeld
  BY DEF HeldInv
<1>. QED
  BY <1>1, <1>2, <1>3, PTL DEF Spec

LEMMA HeldUnexpired == HeldInv => RenewedBeforeExpiry
<1> SUFFICES ASSUME HeldInv, NEW n \in connected, NEW s \in hello[n],
                    table[s] # NoCert, holds[n][s] = Lifetime
             PROVE  OnItsWay(n, s)
  BY DEF RenewedBeforeExpiry
<1>1. s \in Services
  BY DEF HeldInv, TypeInv, TypeOK
<1>2. table[s] # Lifetime
  BY <1>1, CertAssumption DEF CertAssumption, HeldInv, ListedIsYoung
<1>. QED
  BY <1>2 DEF HeldInv, ListedIsHeld

\* So being passed over is the one way to hold an expired certificate of a
\* listed service (main.go, lines 135-146 and 291-296), for every lifetime and
\* every number of agents.
THEOREM OnlyPassedOverExpire ==
  Spec /\ [][~PassedOver]_vars => []RenewedBeforeExpiry
<1>1. Init => HeldInv
  BY HeldInit
<1>2. HeldInv /\ [Next]_vars /\ [~PassedOver]_vars => HeldInv'
  BY HeldStep
<1>. QED
  BY <1>1, <1>2, HeldUnexpired, PTL DEF Spec

-----------------------------------------------------------------------------
(* Where one agent names each service, nobody is passed over.              *)

\* No two agents name one service, the pods of a service run on the node whose
\* agent names it, and OnConnect's calls of Issue succeed.
OneHolder ==
  /\ \A n, m \in Nodes : n # m => Announces[n] \cap Announces[m] = {}
  /\ \A pod \in PodNames, n \in Nodes :
       PodService[pod] \in Announces[n] => n = PodNode[pod]
  /\ Failing \cap Nodes = {}

\* Whoever is to get what a goroutine has still to issue is among those it
\* serves.
Aimed(p, t) ==
  /\ t.pc = "idle" => t.todo = {}
  /\ p \notin {Rotation, API} /\ t.pc # "idle" =>
       \A s \in t.todo, n \in Nodes : s \in Announces[n] => n \in t.to

AimedInv ==
  /\ TypeInv
  /\ \A n \in Nodes : hello[n] \subseteq Announces[n]
  /\ \A p \in Tasks : Aimed(p, task[p])

LEMMA AimedInit == Init => AimedInv
<1> SUFFICES ASSUME Init PROVE AimedInv
  OBVIOUS
<1>1. TypeInv
  BY TypeInit
<1>2. \A p \in Tasks : task[p].pc = "idle" /\ task[p].todo = {}
  BY DEF Init, Idle
<1>3. \A n \in Nodes : hello[n] = {}
  BY DEF Init
<1>. QED
  BY <1>1, <1>2, <1>3 DEF AimedInv, Aimed

\* A goroutine at work keeps the agents it serves, and has ever less to issue.
LEMMA TaskStepAimed ==
  ASSUME AimedInv, NEW p \in Tasks, TaskStep(p)
  PROVE  \A q \in Tasks : Aimed(q, task'[q])
<1>0. /\ task \in [Tasks -> TaskState]
      /\ Aimed(p, task[p]) /\ Served(p, task[p])
      /\ \A q \in Tasks : Aimed(q, task[q])
  BY DEF AimedInv, TypeInv, TypeOK
<1> DEFINE
  Goes == /\ \A q \in Tasks : q # p => task'[q] = task[q]
          /\ task[p].pc # "idle"
          /\ task'[p].todo \subseteq task[p].todo
          /\ task'[p].pc = "idle" => task'[p].todo = {}
          /\ p \notin {Rotation, API} /\ task'[p].pc # "idle" =>
               task'[p].to = task[p].to
<1>1. ASSUME NEW s \in task[p].todo, Issue(p, s) PROVE Goes
  BY <1>0, <1>1 DEF Issue
<1>2. ASSUME NEW s \in task[p].todo, IssueFails(p, s) PROVE Goes
  BY <1>0, <1>2, StartFields DEF IssueFails
<1>3. ASSUME ListAgents(p) PROVE Goes
  <2>1. /\ task[p].pc = "agents" /\ p \in {Rotation, API}
        /\ \A q \in Tasks : q # p => task'[q] = task[q]
    BY <1>0, <1>3 DEF ListAgents, Served
  <2>2. CASE connected = {}
    <3>1. task'[p] = Start(task[p].todo, {})
      BY <1>0, <1>3, <2>2 DEF ListAgents
    <3>. QED
      BY <2>1, <3>1, StartFields
  <2>3. CASE connected # {}
    <3>1. task'[p] = [task[p] EXCEPT !.pc = "push", !.left = connected]
      BY <1>0, <1>3, <2>3 DEF ListAgents
    <3>. QED
      BY <1>0, <2>1, <3>1, TaskFields
  <2>. QED
    BY <2>2, <2>3
<1>4. ASSUME NEW m \in task[p].left, PushCert(p, m) PROVE Goes
  BY <1>0, <1>4, StartFields, TaskFields DEF PushCert
<1> HIDE DEF Goes
<1>5. Goes
  BY <1>1, <1>2, <1>3, <1>4 DEF TaskStep
<1>. QED
  BY <1>0, <1>5 DEF Aimed, Goes

\* An idle goroutine is given work, for the agents that are to get it.
LEMMA BeginAimed ==
  ASSUME AimedInv, NEW p \in Tasks, NEW todo, NEW to,
         Aimed(p, Start(todo, to)),
         task' = [task EXCEPT ![p] = Start(todo, to)]
  PROVE  \A q \in Tasks : Aimed(q, task'[q])
BY DEF AimedInv, TypeInv, TypeOK

LEMMA AimedStep ==
  ASSUME OneHolder
  PROVE  AimedInv /\ [Next]_vars => AimedInv'
<1> SUFFICES ASSUME AimedInv, [Next]_vars PROVE AimedInv'
  OBVIOUS
<1>0. /\ TypeInv'
      /\ \A n \in Nodes : hello[n] \subseteq Announces[n]
      /\ \A p \in Tasks : Aimed(p, task[p])
      /\ {Rotation, API, Registry} \subseteq Tasks /\ Nodes \subseteq Tasks
  BY TypeStep DEF AimedInv, Tasks
<1>1. ASSUME NEW p \in Tasks, TaskStep(p) PROVE AimedInv'
  <2>1. UNCHANGED hello
    BY <1>1 DEF TaskStep, Issue, IssueFails, ListAgents, PushCert, agentVars
  <2>. QED
    BY <1>0, <1>1, <2>1, TaskStepAimed DEF AimedInv
<1>2. CASE RotationScan
  <2>1. Aimed(Rotation, Start({s \in Services : Due(s)}, {}))
    BY StartFields DEF Aimed
  <2>. QED
    BY <1>0, <1>2, <2>1, BeginAimed DEF RotationScan, AimedInv, agentVars
<1>3. ASSUME NEW s \in Services, RotateRequest(s) PROVE AimedInv'
  <2>1. Aimed(API, Start({s}, {}))
    BY StartFields DEF Aimed
  <2>. QED
    BY <1>0, <1>3, <2>1, BeginAimed DEF RotateRequest, AimedInv, agentVars
<1>4. ASSUME NEW pod \in PodNames, ReconcileRunning(pod) PROVE AimedInv'
  <2>1. \A n \in Nodes : PodService[pod] \in Announces[n] => n = PodNode[pod]
    BY DEF OneHolder
  <2>2. Aimed(Registry, Start({PodService[pod]}, {PodNode[pod]}))
    BY <2>1, StartFields DEF Aimed
  <2>. QED
    BY <1>0, <1>4, <2>2, BeginAimed DEF ReconcileRunning, AimedInv, agentVars
<1>5. ASSUME NEW n \in Nodes, NEW ids \in SUBSET Announces[n],
             AgentConnect(n, ids)
      PROVE  AimedInv'
  <2>1. \A s \in ids, m \in Nodes : s \in Announces[m] => m = n
    BY DEF OneHolder
  <2>2. Aimed(n, Start(ids, {n}))
    BY <2>1, StartFields DEF Aimed
  <2>3. \A q \in Tasks : Aimed(q, task'[q])
    BY <1>0, <1>5, <2>2, BeginAimed DEF AgentConnect
  <2>4. \A m \in Nodes : hello'[m] \subseteq Announces[m]
    BY <1>0, <1>5 DEF AgentConnect, AimedInv, TypeInv, TypeOK
  <2>. QED
    BY <1>0, <2>3, <2>4 DEF AimedInv
<1>6. CASE SigilRestart
  BY <1>0, <1>6 DEF SigilRestart, AimedInv, Aimed, Idle
<1>7. ASSUME UNCHANGED <<task, hello>> PROVE AimedInv'
  BY <1>0, <1>7 DEF AimedInv
<1>8. ASSUME NEW pod \in PodNames,
             PodStart(pod) \/ PodStop(pod) \/ ReconcileGone(pod)
               \/ ReconcilePending(pod)
      PROVE  UNCHANGED <<task, hello>>
  BY <1>8 DEF PodStart, PodStop, ReconcileGone, ReconcilePending, agentVars
<1>9. ASSUME NEW n \in Nodes, AgentDisconnect(n) \/ AgentRestart(n)
      PROVE  UNCHANGED <<task, hello>>
  BY <1>9 DEF AgentDisconnect, AgentRestart, sigilVars
<1>10. ASSUME Tick \/ UNCHANGED vars PROVE UNCHANGED <<task, hello>>
  BY <1>10 DEF Tick, vars, sigilVars, agentVars
<1>. QED
  BY <1>1, <1>2, <1>3, <1>4, <1>5, <1>6, <1>7, <1>8, <1>9, <1>10
     DEF Next, RegistryStep, AgentStep

LEMMA AimedReachesAll ==
  ASSUME OneHolder
  PROVE  AimedInv /\ [Next]_vars => [~PassedOver]_vars
<1> SUFFICES ASSUME AimedInv, PassedOver PROVE FALSE
  OBVIOUS
<1>1. PICK n \in connected : IssuedPast(n) \/ Skipped(n)
  BY DEF PassedOver
<1>2. n \in Nodes
  BY DEF AimedInv, TypeInv, TypeOK
<1>3. CASE IssuedPast(n)
  <2>1. PICK p \in Tasks \ {Rotation, API} :
          \E s \in task[p].todo \cap hello[n] :
            Issue(p, s) /\ n \notin task[p].to
    BY <1>3 DEF IssuedPast
  <2>. QED
    BY <1>2, <2>1 DEF AimedInv, Aimed, Issue
<1>4. CASE Skipped(n)
  BY <1>2, <1>4 DEF Skipped, IssueFails, OneHolder
<1>. QED
  BY <1>1, <1>3, <1>4

\* Where one agent names each service, OnConnect and the reconciler never issue
\* past a connected agent (main.go, lines 135-146 and 291-296).
THEOREM NobodyPassedOver ==
  ASSUME OneHolder PROVE Spec => [][~PassedOver]_vars
<1>1. Init => AimedInv
  BY AimedInit
<1>2. AimedInv /\ [Next]_vars => AimedInv'
  BY AimedStep
<1>3. AimedInv /\ [Next]_vars => [~PassedOver]_vars
  BY AimedReachesAll
<1>. QED
  BY <1>1, <1>2, <1>3, PTL DEF Spec

\* There a connected agent holds the certificate that is listed, or is about to
\* be pushed it (main.go, lines 117-148, 188-225, 269-299 and 350-392).
THEOREM ListedHeld ==
  ASSUME OneHolder PROVE Spec => []ListedIsHeld
BY NobodyPassedOver, OnlyPassedOverMisled, PTL

\* So none that has expired, for every lifetime and every earlier rotation.
THEOREM NoneExpires ==
  ASSUME OneHolder PROVE Spec => []RenewedBeforeExpiry
BY NobodyPassedOver, OnlyPassedOverExpire, PTL

=============================================================================
