--------------------------- MODULE CertLifecycle ---------------------------
(***************************************************************************)
(* The life of the services' certificates in Sigil: who issues them, who   *)
(* renews and revokes them, and which agents get them.                     *)
(*                                                                         *)
(* Four kinds of goroutine issue: OnConnect, for the services a new        *)
(* stream's hello names; the registry's reconciler, for a running pod; the *)
(* rotation loop, for every certificate that is due; and the handler of    *)
(* the rotate request.  Issuing puts a row into a table keyed by service,  *)
(* in place of the one that is there.  Pushing comes after: to the one     *)
(* agent concerned, or to the agents connected then.                       *)
(*                                                                         *)
(* Certificates are represented by their age.  A unit of age is hours; the *)
(* goroutines take seconds, so time passes only when none is at work and   *)
(* nothing is due.  The way of a push through a stream's channel is the    *)
(* subject of PolicyDistribution; here a push to a connected agent arrives.*)
(***************************************************************************)
EXTENDS Naturals, FiniteSets

CONSTANTS
  Services,      \* service ids
  Nodes,         \* the nodes' agents
  PodNames,      \* pod names; a pod may be named like a service
  PodService,    \* the `app` label of each pod
  PodNode,       \* the node of each pod
  Announces,     \* the services each agent may name in its hello
  Lifetime,      \* the age at which a certificate expires (leafTTL)
  RotateAfter,   \* the age from which it is renewed (0.8 leafTTL)
  Rotation, API, Registry, \* the goroutines that issue, besides OnConnect
  Failing,       \* those of whose calls of Issue may fail
  NoCert

ASSUME CertAssumption ==
  /\ Services # {}
  /\ PodService \in [PodNames -> Services]
  /\ PodNode \in [PodNames -> Nodes]
  /\ Announces \in [Nodes -> SUBSET Services]
  /\ Lifetime \in Nat /\ RotateAfter \in Nat /\ 0 < RotateAfter
  /\ RotateAfter < Lifetime
  /\ {Rotation, API, Registry} \cap Nodes = {}
  /\ Rotation # API /\ Rotation # Registry /\ API # Registry
  /\ NoCert \notin Nat

VARIABLES
  table,      \* the certs table: the age of each service's certificate
  task,       \* the state of each goroutine that issues
  pods,       \* the pods that are running
  queue,      \* the reconcile requests that wait
  connected,  \* the nodes with a registered stream
  hello,      \* the services named in the hello of a node's stream
  holds       \* the CertStore of each agent

sigilVars == <<table, task, queue>>
agentVars == <<connected, hello, holds>>
vars      == <<sigilVars, pods, agentVars>>

Tasks == {Rotation, API, Registry} \cup Nodes  \* a node stands for its OnConnect
Ages  == 0..Lifetime                           \* Lifetime: expired
Certs == Ages \cup {NoCert}

\* A goroutine: where it is, the services it has still to issue for, the one
\* it has issued for, the agents it serves and those it has still to push to.
TaskState ==
  {t \in [pc : {"idle", "issue", "agents", "push"}, todo : SUBSET Services,
          svc : Services, to : SUBSET Nodes, left : SUBSET Nodes] :
     /\ t.pc = "issue" => t.todo # {}
     /\ t.pc = "push" => t.left # {}}

Idle ==
  [pc |-> "idle", todo |-> {}, svc |-> CHOOSE s \in Services : TRUE,
   to |-> {}, left |-> {}]

TypeOK ==
  /\ table \in [Services -> Certs]
  /\ task \in [Tasks -> TaskState]
  /\ pods \in SUBSET PodNames
  /\ queue \in SUBSET PodNames
  /\ connected \in SUBSET Nodes
  /\ hello \in [Nodes -> SUBSET Services]
  /\ holds \in [Nodes -> [Services -> Certs]]

Init ==
  /\ table = [s \in Services |-> NoCert]
  /\ task = [p \in Tasks |-> Idle]
  /\ pods = {}
  /\ queue = {}
  /\ connected = {}
  /\ hello = [n \in Nodes |-> {}]
  /\ holds = [n \in Nodes |-> [s \in Services |-> NoCert]]

-----------------------------------------------------------------------------
(* Issuing and pushing, common to all.                                     *)

\* Variant: the goroutine waits for work when there is none.
StartAnyway(todo, to) == [Idle EXCEPT !.pc = "issue", !.todo = todo, !.to = to]

\* A goroutine is to issue for todo and to serve the agents of to.
Start(todo, to) ==
  IF todo = {} THEN Idle ELSE [Idle EXCEPT !.pc = "issue", !.todo = todo, !.to = to]

\* Issue: sign, and persist in place of the service's row.  The rotation loop
\* and the rotate request ask who is connected only then.
Issue(p, s) ==
  /\ task[p].pc = "issue"
  /\ s \in task[p].todo
  /\ table' = [table EXCEPT ![s] = 0]
  /\ task' = [task EXCEPT ![p] =
                [pc   |-> IF p \in {Rotation, API} THEN "agents" ELSE "push",
                 todo |-> task[p].todo \ {s}, svc |-> s,
                 to   |-> task[p].to, left |-> task[p].to]]
  /\ UNCHANGED <<pods, queue, agentVars>>

\* An error is logged, and the goroutine goes on with its next service.
IssueFails(p, s) ==
  /\ p \in Failing
  /\ task[p].pc = "issue"
  /\ s \in task[p].todo
  /\ task' = [task EXCEPT ![p] = Start(task[p].todo \ {s}, task[p].to)]
  /\ UNCHANGED <<table, pods, queue, agentVars>>

\* Variant: the agents are those connected, less those whose hello names the
\* service, as if their OnConnect had seen to them.
ListAgentsSkippingHello(p) ==
  LET others == {n \in connected : task[p].svc \notin hello[n]} IN
  /\ task[p].pc = "agents"
  /\ task' = [task EXCEPT ![p] =
                IF others = {} THEN Start(task[p].todo, {})
                ELSE [task[p] EXCEPT !.pc = "push", !.left = others]]
  /\ UNCHANGED <<table, pods, queue, agentVars>>

\* ConnectedAgents.
ListAgents(p) ==
  /\ task[p].pc = "agents"
  /\ task' = [task EXCEPT ![p] =
                IF connected = {} THEN Start(task[p].todo, {})
                ELSE [task[p] EXCEPT !.pc = "push", !.left = connected]]
  /\ UNCHANGED <<table, pods, queue, agentVars>>

\* PushCert: what is pushed to an agent that is not connected is dropped.
PushCert(p, n) ==
  /\ task[p].pc = "push"
  /\ n \in task[p].left
  /\ holds' = IF n \in connected THEN [holds EXCEPT ![n][task[p].svc] = 0]
              ELSE holds
  /\ task' = [task EXCEPT ![p] =
                IF task[p].left = {n} THEN Start(task[p].todo, task[p].to)
                ELSE [task[p] EXCEPT !.left = task[p].left \ {n}]]
  /\ UNCHANGED <<table, pods, queue, connected, hello>>

-----------------------------------------------------------------------------
(* What makes them issue.                                                  *)

\* Variant: a certificate is renewed when it has expired.
DueWhenExpired(s) == table[s] # NoCert /\ table[s] >= Lifetime

Due(s) == table[s] # NoCert /\ table[s] >= RotateAfter

\* A round of the rotation loop: it lists the table and takes what is due.
RotationScan ==
  /\ task[Rotation].pc = "idle"
  /\ \E s \in Services : Due(s)
  /\ task' = [task EXCEPT ![Rotation] = Start({s \in Services : Due(s)}, {})]
  /\ UNCHANGED <<table, pods, queue, agentVars>>

\* POST /api/v1/certs/{serviceID}/rotate, for a service that is listed.
RotateRequest(s) ==
  /\ task[API].pc = "idle"
  /\ table[s] # NoCert
  /\ task' = [task EXCEPT ![API] = Start({s}, {})]
  /\ UNCHANGED <<table, pods, queue, agentVars>>

\* The reconciler finds the pod running: issue, and push to the pod's node.
ReconcileRunning(pod) ==
  /\ task[Registry].pc = "idle"
  /\ pod \in queue \cap pods
  /\ queue' = queue \ {pod}
  /\ task' = [task EXCEPT ![Registry] = Start({PodService[pod]}, {PodNode[pod]})]
  /\ UNCHANGED <<table, pods, agentVars>>

\* It does not find the pod: Revoke takes the name of the pod for a service.
ReconcileGone(pod) ==
  /\ task[Registry].pc = "idle"
  /\ pod \in queue \ pods
  /\ queue' = queue \ {pod}
  /\ table' = [s \in Services |-> IF s = pod THEN NoCert ELSE table[s]]
  /\ UNCHANGED <<task, pods, agentVars>>

\* The pod is there but is not running, or on no node yet: nothing is done.
ReconcilePending(pod) ==
  /\ task[Registry].pc = "idle"
  /\ pod \in queue \ pods
  /\ queue' = queue \ {pod}
  /\ UNCHANGED <<table, task, pods, agentVars>>

\* A pod starts, changes or stops; each brings a reconcile request.
PodStart(pod) ==
  /\ pods' = pods \cup {pod}
  /\ queue' = queue \cup {pod}
  /\ UNCHANGED <<table, task, agentVars>>

PodStop(pod) ==
  /\ pod \in pods
  /\ pods' = pods \ {pod}
  /\ queue' = queue \cup {pod}
  /\ UNCHANGED <<table, task, agentVars>>

\* Subscribe registers the stream and starts OnConnect.  An agent waits five
\* seconds before it reconnects, and OnConnect is done by then.
AgentConnect(n, ids) ==
  /\ n \notin connected
  /\ task[n].pc = "idle"
  /\ connected' = connected \cup {n}
  /\ hello' = [hello EXCEPT ![n] = ids]
  /\ task' = [task EXCEPT ![n] = Start(ids, {n})]
  /\ UNCHANGED <<table, pods, queue, holds>>

AgentDisconnect(n) ==
  /\ n \in connected
  /\ connected' = connected \ {n}
  /\ UNCHANGED <<sigilVars, pods, hello, holds>>

\* CertStore is in memory.
AgentRestart(n) ==
  /\ connected' = connected \ {n}
  /\ holds' = [holds EXCEPT ![n] = [s \in Services |-> NoCert]]
  /\ UNCHANGED <<sigilVars, pods, hello>>

\* The table is in a file; the reconciler begins with every pod there is.
SigilRestart ==
  /\ task' = [p \in Tasks |-> Idle]
  /\ queue' = pods
  /\ connected' = {}
  /\ UNCHANGED <<table, pods, hello, holds>>

Older(age) == IF age \in 0..(Lifetime - 1) THEN age + 1 ELSE age

\* Hours pass.  The loop runs every five seconds, and a database that refuses
\* to write recovers before a certificate that is due expires.
Tick ==
  /\ \A p \in Tasks : task[p].pc = "idle"
  /\ \A s \in Services : ~Due(s)
  /\ table' = [s \in Services |-> Older(table[s])]
  /\ holds' = [n \in Nodes |-> [s \in Services |-> Older(holds[n][s])]]
  /\ UNCHANGED <<task, pods, queue, connected, hello>>

-----------------------------------------------------------------------------
TaskStep(p) ==
  \/ \E s \in task[p].todo : Issue(p, s) \/ IssueFails(p, s)
  \/ ListAgents(p)
  \/ \E n \in task[p].left : PushCert(p, n)

RegistryStep ==
  \E pod \in PodNames :
    \/ PodStart(pod) \/ PodStop(pod)
    \/ ReconcileRunning(pod) \/ ReconcileGone(pod) \/ ReconcilePending(pod)

AgentStep(n) ==
  \/ \E ids \in SUBSET Announces[n] : AgentConnect(n, ids)
  \/ AgentDisconnect(n)
  \/ AgentRestart(n)

Next ==
  \/ \E p \in Tasks : TaskStep(p)
  \/ RotationScan
  \/ \E s \in Services : RotateRequest(s)
  \/ RegistryStep
  \/ \E n \in Nodes : AgentStep(n)
  \/ SigilRestart
  \/ Tick

Spec == Init /\ [][Next]_vars

-----------------------------------------------------------------------------
(* Properties.                                                             *)

\* A goroutine that has issued for s is yet to push to n, or n's OnConnect is
\* yet to issue for s.
OnItsWay(n, s) ==
  \/ s \in task[n].todo
  \/ \E p \in Tasks : /\ task[p].svc = s
                      /\ \/ task[p].pc = "agents"
                         \/ task[p].pc = "push" /\ n \in task[p].left

\* Whoever issued last, and whatever was pushed to a stream that ended in the
\* meantime, a connected agent holds a certificate as new as the one listed of
\* every service its hello named, or is about to be pushed one.  This holds
\* where no two agents name one service, as in a cluster of one node: Issue
\* replaces the row of a service, and OnConnect and the reconciler push to one
\* agent.
ListedIsHeld ==
  \A n \in connected : \A s \in hello[n] :
    table[s] # NoCert => holds[n][s] = table[s] \/ OnItsWay(n, s)

\* "Cert rotation pushes to connected agents automatically before TTL expiry"
\* (docs/timeline.md, line 602): a connected agent holds no expired certificate
\* of a listed service its hello named, unless a new one is on its way.
RenewedBeforeExpiry ==
  \A n \in connected : \A s \in hello[n] :
    table[s] # NoCert /\ holds[n][s] = Lifetime => OnItsWay(n, s)

\* How an agent comes to be passed over.  OnConnect or the reconciler issues for
\* another agent a service that n's hello names, and pushes to that one alone.
IssuedPast(n) ==
  \E p \in Tasks \ {Rotation, API} : \E s \in task[p].todo \cap hello[n] :
    Issue(p, s) /\ n \notin task[p].to

\* n's OnConnect goes on when Issue fails, and nobody tries again.
Skipped(n) == \E s \in task[n].todo : IssueFails(n, s)

PassedOver == \E n \in connected : IssuedPast(n) \/ Skipped(n)

=============================================================================
