# MeshLite in TLA+

This directory models MeshLite, a service mesh: TLA+ modules translated from
the code under `src/`, TLC configurations that check them on small instances,
and theorems that TLAPS proves for every value of the constants.

    tlc -config policy_streams.cfg MCPolicyDistribution.tla
    tlapm PolicyDistributionProofs.tla

`PROJECT.json` lists the components, the runs and what each checks, the source
lines every definition models, the hazards the properties are aimed at, and the
theorems.

## 1. The system

MeshLite lets services of one or more Kubernetes clusters talk over mutual TLS
under one allow policy.

| Component | State it keeps | Operations |
| --- | --- | --- |
| **Sigil** (`src/sigil`), the control plane | the policy `Engine`; the distributor's map of streams; the root CA, in memory and in two files; the certificate table in SQLite | `Subscribe` stream per agent, `OnConnect`, `POST /api/v1/config`, rotation loop, pod events, enrolment of clusters |
| **Kprobe** (`src/kprobe`), one agent per node | `CertStore`, `PolicyCache`, `PodSnapshot`; the eBPF verdict map and flags | Sigil client (Bootstrap, UpgradingTLS, ConnectedTLS), pod watcher, verdict synchroniser, kernel classifier |
| **meshlite-tls** (`src/crates`) | `CertStore`, `PolicyCache`, shared by Kprobe and Conduit | update, lookup, `is_allowed`, `is_allowed_destination` |
| **Conduit** (`src/conduit`), the gateway between clusters | one certificate, a polled `PolicyCache`, one tunnel per connection | enrol, poll, egress, ingress |
| **Telemetry** (both agents) | a bounded channel, a batch | emit without blocking, flush |
| **Trace** (`src/trace/backend`) | event ring, edges, per-pair statistics, counters | ingest a batch, query |
| **meshctl**, front ends, demo services, charts | nothing the mesh depends on | |

How they interact: an agent opens a `Subscribe` stream to Sigil and receives
policies and certificates on it; Sigil's handlers and goroutines share the
engine, the distributor and the certificate table without an overall lock; in an
agent, the Sigil client and the pod watcher share mutexes with the verdict
synchroniser and wake it through channels; the synchroniser writes a kernel map
that the eBPF program reads on every packet; Conduit polls Sigil over HTTP and
asks its cache once per connection; agents send events to Trace over HTTP.

## 2. What makes it hard

- **Sigil's goroutines share state without a common lock.** The engine is
  overwritten in place; each `Subscribe` call starts a goroutine that reads it
  and pushes later; broadcasts look streams up one at a time; channels drop when
  full; a replaced stream's clean-up runs after its successor registered.
- **The verdict map is rebuilt while the kernel reads it**, from two snapshots
  taken one after the other, woken by three sources.
- **Certificates are issued, rotated and revoked concurrently**, through a table
  keyed by service alone.
- **Files, streams and watches fail half-way**: the root CA is two files, a
  Kubernetes watch restarts with an empty snapshot, an agent's certificate
  outlives the CA that signed it.
- **A gateway's session is two handlers in two processes**: a TLS 1.3 client is
  done with its handshake before the server has seen its certificate, either
  process may die, and no read has a timeout.
- **What a packet's addresses meant is asked after the fact**, of a snapshot that
  an API server's events keep changing.

What makes each part correct:

| Part | Correct means |
| --- | --- |
| Distributor | a node has at most one live stream and is reachable while it has one; a broadcast is of one document, arrives, and is never overtaken by an older one; in the end an agent has the engine's policy |
| Policy functions | the document, the engine, the agents, the gateways and `meshctl verify` decide alike |
| Pod watcher | a watcher that has caught up lists the cluster's pods; a report names the service that sent the packet |
| Verdict synchroniser | no announced change is lost; once quiet the kernel enforces the cached policy on the known pods; a rebuild never invents a verdict |
| Certificates | a connected agent holds, of each service it named, the certificate that is listed, and never an expired one; a deleted service has none |
| Sigil client, root CA | an agent's roots stay Sigil's across crashes; from any state, a reachable Sigil leads to a stream with all certificates; Sigil starts again after a crash |
| Conduit | what the egress reports of a request is what both halves of its session did with it; the halves end together |
| Telemetry | Trace counts a report at most once; a channel never grows past its capacity |

## 3. The modules

| Module | Models | Used by |
| --- | --- | --- |
| `PolicyDistribution` | Sigil's engine, the distributor, `OnConnect` and the config handler; the agents' ends of the streams | `MCPolicyDistribution`, `PolicyDistributionProofs` |
| `Policy` | documents, the engine's map, the list sent to agents, and the functions that decide (no state) | `PolicyPath`, `VerdictSync` |
| `PolicyPath` | a document's way from the operator to an agent and a gateway | `MCPolicyPath`, `PolicyPathProofs` |
| `Reconciler` | abstract: a component that follows a changing value and never loses sight of a change | `VerdictSync`, by `INSTANCE` |
| `VerdictSync` | Kprobe's Sigil client, pod watcher, forwarder and verdict task around their mutexes and channels; the kernel's map, flag and lookup | `MCVerdictSync`, `VerdictSyncProofs` |
| `PodWatch` | the cluster's pods and their watch, the snapshot, the packet log and its reports | `MCPodWatch`, `PodWatchProofs` |
| `CertLifecycle` | the issuers of certificates, the table, the registry's reconciler and the agents' stores | `MCCertLifecycle`, `CertLifecycleProofs` |
| `RootCA` | Sigil's root, its two files, its process and its listener's certificate | `SigilClient` |
| `SigilClient` | an agent's connection states, certificate store and hello, composed with `RootCA` | `MCSigilClient`, `SigilClientProofs` |
| `AtMostOnce` | abstract: jobs whose reports are sent once and forgotten | `Conduit`, by `INSTANCE` |
| `Conduit` | both gateways: processes, connection handlers, certificates, telemetry | `MCConduit`, `ConduitProofs` |

### PolicyDistribution

A config document is a number, in order of acceptance. The engine is a record of
two parts, because `*eng = *newEng` (`main.go:466`) copies a struct without a
lock and its readers take its fields one after the other; `ConfigSwapBegin` and
`ConfigSwapEnd` are the two halves of the copy, in either order of the parts,
and `ConnectReadRules`, `ConnectReadDefault`, `ConfigReadRules` and
`ConfigReadDefault` the reads. One action is what the code does between two
points at which another goroutine may run: `Subscribe` is the locked part of
`Distributor.Subscribe`, `StreamSend` and `SubscribeReturn` its loop and its
deferred clean-up, `BroadcastSnapshot`, `BroadcastLookup` and `BroadcastSend` the
three stages of a broadcast, of which only the first two hold a lock. A full
channel drops (`Enqueue`). `streams` is the distributor's map; `phase`, `owner`
and `send` are the Subscribe calls; `reading` and `cache` the agents. A push
remembers whether a broadcast or an `OnConnect` sent it, which only the
properties look at. Agents may disconnect and restart at any time, Sigil up to
`MaxRestarts` times, back to document 0, the start-up file: an accepted document
is stored nowhere.

### Policy and PolicyPath

`Policy` translates the decision functions as they are in the three languages.
`Rules(eng)` is a set of lists, one per order of Go's map iteration. `PolicyPath`
makes each transfer one step and asks whether all parties decide alike. A
gateway's poll can be answered and still not be applied: `Decodable` is what
Conduit's decoder accepts of what Go's encoder writes. A rule without
destinations is written as `null`, which serde refuses for the whole answer, and
an answer beyond the Go server's buffer comes in chunks, which `extract_body`
leaves in the text; `PlainRules` is how many rules fit before that.
`AnswerAppliedUnlessUndecodable` says that nothing else keeps a gateway from the
policy, although `cluster_client.rs` promises without exception to keep the cache
up to date.

With `default_allow`, Sigil's `Evaluate` and the agents differ:
`AgentEnforcesDocument` says for which pairs. `Evaluate` allows whatever no rule
lists; the agents (`policy_cache.rs:55-60`) and `meshctl` (`types.go:38-47`) deny
a service that has a rule everything its rule does not list. Only tests call
`Evaluate`; the comment above it (`engine.go:117`) describes it and not the mesh.

### VerdictSync and Reconciler

Each of the four tasks of Kprobe is a small automaton, and each `await` on a full
channel a state of its own. A rebuild (`VerdictSync::sync`) is as many steps as it
makes kernel calls: the flag, every removal, every insert, since the classifier
may run between any two. `Passes` is the classifier's decision on a connection's
first packet. `built` is a history variable: what the last finished rebuild was
made from. Addresses may be listed under two services, and the map may be too
small. Pod events are arbitrary, relists included; which events there are and what
the snapshot then has to do with the cluster's pods is `PodWatch`'s subject.

`Reconciler` is the promise, twice: the task's copy of the policy, and its copy of
the snapshot, differ from their source only while another look is due. The
refinement mappings are `PolicyReconciler` and `PodsReconciler`, where "due" is a
token in a channel, in a sender's hands or in the task's before the copy.

### PodWatch

`pods` is the cluster. `SetPod` and `RemovePod` change it and, if there is a watch,
append an event to it; `WatchFails` loses what was not delivered and `List` starts
a new watch with all pods in any order. `Clear`, `Apply`, `Delete` and `InitDone`
are `PodWatcher::run`'s arms. `Log` is the kernel's record of a packet, with the
service that sent it as history; `ReadSource` and `Report` are the reader, which
takes the snapshot's lock once for each address. `had`, `moved` and `doubled` are
history variables for the two ways in which the snapshot differs from the
cluster even when the watcher has caught up:

- a pod whose label or address changed arrives as an `Apply` of the new value;
  the old entry stays until the next list (`moved`);
- `retain` removes an address whoever else has it, so that deleting one of two
  pods with the same label and address (pods on the host's network, or a finished
  pod and its successor) removes the other as well (`doubled`).

`NoneMissing` and `OnlyMovesLinger` say that there are no others.

### CertLifecycle

A certificate is its age. `task` holds the goroutines that issue: the rotation
loop, the rotate request's handler, the registry's reconciler and one
`OnConnect` per node, each alternating `Issue` (sign, and replace the service's
row) and `PushCert`, with the list of agents read in between where the code does.
A pod may be named like a service, because `Reconcile` hands the name of a deleted
pod to `Revoke`. Time (`Tick`) passes only when no goroutine is at work and
nothing is due: a unit is hours, the loop's period is five seconds. That a push to
a connected agent arrives is taken from `PolicyDistribution`, where the channel is
modelled; an agent that reconnects (after five seconds) finds its earlier
`OnConnect` finished.

### RootCA and SigilClient

`RootCA` is Sigil's start: `New` loads the two files if both are there and makes a
root otherwise, a file is truncated and then filled, and a crash may come between
any two of these. `Listen` issues the listener's certificate, which nothing renews
(`Expire`). `SigilClient` extends it with an agent: `state`, `stream`, `store`. A
certificate is the root it came with. `Verified` is a successful handshake:
`first_cert` takes whichever entry a HashMap lists first, so any entry may be the
trust anchor. `Upgrade` is the first call on the TLS port, whose stream the code
drops, and `Connect` the second. `due` is what `OnConnect` still owes the stream.
Which policy a stream brings is `PolicyDistribution`'s, how certificates age
`CertLifecycle`'s.

Three consequences of the code are steps of the model that no document mentions:
after the listener's lifetime an agent that loses its stream stays out until Sigil
is restarted; after the volume is lost, and with it the root, a running agent
retries with its old root until it is restarted itself; and a crash in the middle
of writing `root.crt` leaves a Sigil that cannot start (the second disjunct of
`SigilComesBack`).

### Conduit and AtMostOnce

One connection is one record in `egress` and one in `ingress`, whose steps are
those between two awaits of `handle_connection`. `VerifyServer` ends the client's
handshake and `VerifyClient`, later, the server's; `Forward` may run in between.
`open` is what the egress's cache lets through: everything after a start, then
whatever a poll brings. `left` is the lifetime of a process's certificate, which it
never renews. `Emit` is `try_send` into a bounded channel, `Take` and `Post` the
sender, and `counted` what Trace adds up. The ingress reports whatever error ends
it, after it has served a request as well, and calls it a TLS rejection if the
error's text contains "alert" or "certificate", which a backend's name may
(`AlertNames`). The egress checks a connection once: a tunnel outlives the policy
that allowed it.

`AtMostOnce` is what the telemetry promises: a job is reported as it ends or never,
and its report is lost or counted, never both and never twice. In the refinement
mapping, `Reporting`, a job is a gateway's handler of a connection, over once it has
nothing left to report (`Ended`), and its report is on its way while it is in the
channel or with the sender.

## 4. The runs

| Run | Bounds | Shows |
| --- | --- | --- |
| `policy_streams` | 2 agents, 1 handler, 2 documents, 2 streams, 1 restart, channels of 2 | `TypeOK`, `BroadcastsUntorn`, `ServedIffRegistered`, `BroadcastsInOrder` |
| `policy_liveness` | 1 agent, 1 document, 2 streams, 1 restart, channels of 6 (never full), 1 certificate per hello | `OnlyConnectLeavesStale`, `EveryBroadcastArrives`, `ConnectedAgentGetsPolicy` |
| `policy_stale` (violation) | 1 agent, 1 stream, 1 document | an `OnConnect` overtaken by a broadcast leaves an old policy for good |
| `policy_path` | all documents of up to 3 rules over 3 services, 2 rules per plain answer, 2 versions | `AgentEnforcesDocument`, `MeshctlPredictsAgent`, `GatewayMatchesAgent`, `AnswerAppliedUnlessUndecodable` |
| `verdict_rebuild` | 2 services, 2 addresses, one listed under both services, map of 2 pairs, channels of 1 | `TypeOK`, `QuietMeansEnforced`, `OldNewOrDefault`, and that `VerdictSync` implements `Reconciler` twice |
| `verdict_liveness` | 2 services, 1 address each, 1 policy | `PolicyReachesKernel`, `PodsReachKernel` |
| `verdict_window` (violation) | 2 policies, both deny by default | a rebuild drops a connection both policies allow |
| `pod_watch` | 2 pods, 2 services, 2 addresses (1 in the pod CIDR), 3 changes, 1 lost watch or restart, 1 packet | `TypeOK`, `NoneMissing`, `OnlyMovesLinger`, `AttributedToSender` |
| `cert_rotation` | 1 node, 2 services, 2 pods, lifetime of 3 units, rotation from 2 | `TypeOK`, `ListedIsHeld`, `RenewedBeforeExpiry` |
| `cert_expiry` (violation) | 2 nodes that name the same service | a certificate expires at one agent because another connected |
| `sigil_client` | 1 agent, 2 names, 4 roots, lifetime of 2, 2 crashes, 1 lost volume, 2 broken streams | `TypeOK`, `TrustKept`, `NeverUpgradesEmpty`, `AgentSettles`, `SigilComesBack` |
| `conduit` | 2 connections, 1 service, lifetime of 1, channels of 1, 1 crash | `TypeOK`, `EgressReportsTheTruth`, `CountedAtMostOnce`, `SessionsEndTogether`, and that the telemetry implements `AtMostOnce` |

Why the bounds are enough to be worth running. A stale or torn policy takes two
documents, and a replaced stream two streams; a third of either only repeats a
choice that is already there, and the theorems of section 6 have no such bound.
Channels of 6 hold everything the bounded handlers and `OnConnect` calls can send,
as the real 64 does for a handful of pushes, and those of 2 fill at once.
Channels of one token make every sender of `VerdictSync` wait. Three rules over
three services contain the ways in which rules of a service repeat and lists are
ordered, a service without destinations, and an answer above and below
`PlainRules`. Three changes let a pod move, share an address and be deleted, with
a list before or after any of them. Three units of age are the fewest in which a
certificate can be fresh, due and expired with a connection in between. Each
crash makes at most one root, so that four roots never run out with three causes
to make one. Two connections compete for a telemetry channel of one.

`CHECK_DEADLOCK FALSE` is set where the bounded causes of change can be used up
with everything at rest: the `PolicyDistribution` runs, `sigil_client` (or Sigil stays
down for good, see `SigilComesBack`) and `pod_watch`.

The three violation runs are disagreements between the code and what its
documentation or comments say of it; `PROJECT.json` quotes the line of each. Two
more disagreements are in the models as steps and in passing properties as
exceptions. `*eng = *newEng` is called "safe enough" because of a single writer
(`main.go:464-465`), yet an `OnConnect` can read the rules of one document and the
default of another; broadcasts cannot (`BroadcastsUntorn`). And a gateway's poll
does not always keep its cache up to date (`AnswerAppliedUnlessUndecodable`).

## 5. Fairness

`PolicyDistribution` assumes weak fairness of each goroutine's steps (the Go
scheduler runs what can run), and that an agent whose stream was closed by the
server notices, which gRPC reports. Nothing makes an operator post or an agent
connect. `VerdictSync` assumes weak fairness of the verdict task and the
forwarder, and strong fairness of the sends into bounded channels: Tokio's
`mpsc` queues waiting senders and serves them in turn, so a sender cannot be
overtaken for ever although the channel is full again and again. It assumes that
a list of pods, once begun, ends (`WatchInitDone`); if the Kubernetes API fails
every list for ever, the snapshot is indeed never complete. `SigilClient`
assumes that Sigil's container is started again whenever it has exited
(Kubernetes restarts it), that the agent's loop runs, and that `OnConnect` issues and
pushes what is due; `AgentSettles` itself asks that Sigil in the end stays up with
its files and a valid listener, which the code cannot see to. `Conduit` assumes only
that a handler whose peer has closed finds out at its next read or write, and that
clients and backends close what the other side has closed; nothing is assumed of
handlers whose peer is there, as no read has a timeout. `CertLifecycle`, `PolicyPath`
and `PodWatch` have no liveness properties: what is on its way in `CertLifecycle` is
bounded by `Tick`, which is the assumption that the goroutines are done within a
unit of time.

## 6. What is proved

TLAPS proves the following for every value of the constants that the modules'
named assumptions allow.

**`PolicyDistributionProofs`.** `TypeCorrect` and `RegistrationExact` need no
further hypothesis. `TypeOK` is not inductive: a stream's clean-up looks up the
node its stream belongs to, so `TypeInv` adds that every stream in use has an
owner. `ServedIffRegistered` is then inductive with it. `BroadcastsNeverTorn` and
`BroadcastsNeverGoBack` assume `SingleWriter`; with two concurrent config
requests both fail. Their invariant, `BroadcastInv`, says what the writer has read
back (`WriterInv`), that the broadcasts of a channel are of one document each and
in order (`Ordered`), that nothing is in the channel of a stream that is not
served yet (`NotServedEmpty`), and that an agent is not ahead of the channel it
reads (`CacheBehind`). The second is an action property and follows from it.

`BroadcastsLeaveNobodyBehind` and `OnlyOvertakenConnectsMislead` say in which ways an
agent can end with an old policy. They assume `SingleWriter` and exclude steps:
`PolicyDropped`, a policy pushed into a full channel of a live stream, in both;
`ConnectOvertaken`, an `OnConnect` that pushes what the engine no longer holds after
the broadcast to its agent has gone out, in the second. The first hypothesis is what
`policy_liveness` gets from its channels of 6 and what the code's 64 make likely;
the second is what `policy_stale` violates. The argument is about the policy an agent
will have when it has read its channel to the end (`Ends`). The inductive invariant,
`FollowInv`, joins three parts to `BroadcastInv`: the stream an agent reads is its own
and served (`StreamInv`), the writer's broadcast carries what it put in the engine
(`WriterInv`), and for each connected agent the policy at the end of its channel is
acceptable (`NoneLeftBehind`), that is, the engine's, or an `OnConnect`'s if such are
admitted (`late`), or some goroutine has yet to push to that channel: an `OnConnect`
that reads its own node's stream (`ReadsItsOwn`) or the writer, whose list contains
everyone connected before it was drawn up (`PushesItsOwn`). Both theorems are the same
proof with `late` true and false.

**`PolicyPathProofs`.** `AgentsEnforceTheDocument`, `MeshctlIsRight` and
`GatewaysMatchAgents`. The lemmas say that a list made by `Rules` has exactly one
rule per entry of the engine, so that the first match is the only one and its
position is irrelevant; the inductive invariant `CompiledInv` is that a cache of
the current version holds such a list of the current engine. They hold for
any set of services and documents of any length. `OnlyUndecodableAnswersAreLost`
needs `AnswerInv`: a gateway answered at the current version has that version exactly
if the compiled engine is plain, that is, each of its entries has a destination and
there are at most `PlainRules` of them; a list has as many rules as the engine has
entries (`FS_Surjection`).

**`VerdictSyncProofs`.** `TypeCorrect`; `PolicyFollowed` and `PodsFollowed`, the two
refinements of `Reconciler` (each step of `VerdictSync` is a change, a look or a
stutter); `NoLostWakeup`, `RebuildNeverInvents` and `OnlyWindowsBlock`. The last
confines what `verdict_window` shows: allowed traffic is blocked only while a rebuild
towards default deny is clearing or filling the map, or if the map is too small
(`BlockingWindow`). The inductive invariant of the
last three, `MapInv`, describes the map at every point of a rebuild: until it
is empty every verdict comes from the last rebuild, afterwards every verdict comes
from the present one and every entry that was inserted is there if the snapshot
fits the map. Finiteness of services and addresses is assumed, for the
cardinalities that "fits" and "is full" compare.

**`CertLifecycleProofs`.** `TypeCorrect`, with `Served`: a goroutine that pushes has
someone to push to. `OnlyPassedOverMisled` and `OnlyPassedOverExpire` hold for any
number of agents that name a service, and exclude one kind of step, `PassedOver`: a
connected agent whose hello names a service is left out when `OnConnect` or the
reconciler issues for another agent, or its own `OnConnect`'s call of `Issue` fails.
`cert_expiry` does the first, so that together the run and the theorems say exactly
when a certificate expires in an agent's hands. The invariant `HeldInv` adds that
what is being pushed is as young as what is listed (`PushedIsListed`), that nothing
listed grows older than `RotateAfter` (`ListedIsYoung`), and that a goroutine that is
done has nothing left to issue (`Rests`). `NobodyPassedOver` says that nobody is passed
over under `OneHolder`: no two agents name one service, the pods of a service run
where it is named, and `OnConnect`'s calls of `Issue` succeed, of which a cluster of one
node gives the first two; its invariant is that whoever names a service is among
those its issuer serves (`AimedInv`). `ListedHeld` and `NoneExpires` follow.

**`PodWatchProofs`.** `TypeCorrect`, `SnapshotComplete`, `SnapshotSound` and
`ReportsNameTheSender`. An event in the watch is a promise, so the invariant is about
the snapshot that will be there when the watch is empty: `WillHave` and `WillLack`
say that the events still to be handled leave a pair in, or out. `FollowInv` is that
every pod's pair will be there or is in `doubled`, and that what is no pod's will not
or is in `moved`. `HadInv`, for the reports, is that events, snapshot and reader name
pairs that some pod has had.

**`SigilClientProofs`.** `TypeCorrect`, `RootSurvivesRestarts` and `FallbackNeverTaken`.
`RootInv` says what the files hold at each step of a start: whenever `root.crt` exists
the key is written, and a filled `root.crt` fits it, so that only a lost volume makes
a second root of which an agent could hear. `AgentInv` joins it to the agent: an open
stream has a Sigil that is up.

**`ConduitProofs`.** `TypeCorrect`, `ReportsAreTrue`, `CountedOnce`,
`TelemetryImplementsAtMostOnce` and `CountedRightly`. `SessionInv`
relates the two halves of a session at every step; `TruthInv` is the property made
strong enough to stay true of a record in the channel while the other half goes on;
`CountInv` says that a report is in one place at a time and that a handler with
one under way has nothing left to report. With it each step is one of `AtMostOnce` or
a stutter (`TelemetryImplementsAtMostOnce`); a post, for instance, takes its report
from everywhere it was. `CountedRightly` follows
from `AtMostOnce`.

`tlapm <module>.tla` checks each; none takes longer than a few minutes.

## 7. What is only model-checked

Only the liveness properties: `EveryBroadcastArrives`, `ConnectedAgentGetsPolicy`,
`PolicyReachesKernel`, `PodsReachKernel`, `AgentSettles`, `SigilComesBack` and
`SessionsEndTogether`. Liveness under fairness is beyond the prover, as it needs
`ENABLED`. Every safety property a passing run checks is a theorem; where one needs a
hypothesis about the constants or the steps, section 6 states it with the theorem.

## 8. What is not modelled

- meshctl apart from its decision function, the front ends, demo services,
  generated code, charts and scripts: they keep no state that the rest depends on;
- parsing and file errors, logging, gRPC framing, TLS itself: a certificate is an
  age, a policy a list of rules;
- `mtls_mode`: the agents store it and decide nothing with it;
- the Trace backend: statistics behind one lock, for display; nothing in the mesh
  reads them back. What reaches it, at most once, is in `Conduit`. Its Prometheus
  counters are incremented after the store's lock is released, so that a scrape may
  disagree with the summary, and a node keeps the cluster of the last record that
  names it;
- the agents' telemetry is the gateways' with another capacity, and is not modelled
  a second time;
- that a connection lost in silence is never noticed: neither `SigilClient`'s
  streams nor `Conduit`'s sessions have a timeout, and the models break them aloud.

Known limits of what is modelled: two certificates of the same age are alike, so a
store that keeps another serial than the listed one is not noticed; pushes of
certificates arrive; each of the modules about an agent abstracts from the others as
section 3 says, and no run composes all of them.

## 9. Plan

Left to do, in this order:

1. Serials in `CertLifecycle`, and with them which of two concurrent issues wins; a
   hello whose `Issue` fails.
2. `SigilClient` over `CertLifecycle`, so that an agent's own expired certificate and
   a changed root are seen together.
3. `TraceStore`: batches under the store's lock, counters outside it.
