---------------------------- MODULE VerdictSync ----------------------------
(***************************************************************************)
(* How Kprobe brings a policy and the pods' addresses into the kernel.     *)
(*                                                                         *)
(* The Sigil client writes the PolicyCache and the pod watcher the         *)
(* PodSnapshot, each under its own mutex, and each announces a change with *)
(* a token: the client on the sync channel, the watcher on the pod channel,*)
(* which a forwarder copies to the sync channel.  For every token the      *)
(* verdict task copies the policy, then the snapshot, and rebuilds the     *)
(* verdict map: flag first, then it removes every key, then it inserts the *)
(* new entries, one by one.  The kernel's classifier reads the map and the *)
(* flag at any moment in between.                                          *)
(***************************************************************************)
EXTENDS Policy

CONSTANTS
  IPs,       \* the addresses of pods
  PodCIDR,   \* those within 10.244.0.0/16; the others are the nodes'
  Members,   \* the <<service, address>> pairs the cluster can have
  Policies,  \* the policies Sigil may push
  ChanCap,   \* the capacity of both channels (32)
  MapCap     \* the capacity of VERDICT_MAP (4096)

ASSUME VerdictSyncAssumption ==
  /\ IsFiniteSet(Services) /\ IsFiniteSet(IPs)
  /\ PodCIDR \subseteq IPs
  /\ Members \subseteq Services \X IPs
  /\ \A p \in Policies : p \in [rules : Seq(AllowRule), dflt : BOOLEAN]
  /\ ChanCap \in Nat \ {0}
  /\ MapCap \in Nat

VARIABLES
  policy,     \* PolicyCache
  snapshot,   \* PodSnapshot: the addresses of each service
  client,     \* the Sigil client: receiving, or sending a token
  watcher,    \* the pod watcher: receiving, or sending a token
  relisting,  \* the watcher is between Init and InitDone
  podTokens,  \* the tokens in the pod channel
  forwarder,  \* the forwarder: receiving, or sending a token
  syncTokens, \* the tokens in the sync channel
  sync,       \* the verdict task
  flag,       \* POLICY_FLAGS[0]
  verdicts,   \* VERDICT_MAP
  built       \* what the last finished rebuild was made from

sourceVars == <<policy, snapshot, client, watcher, relisting>>
tokenVars  == <<podTokens, forwarder, syncTokens>>
kernelVars == <<flag, verdicts, built>>
vars == <<sourceVars, tokenVars, sync, kernelVars>>

CachedPolicies == Policies \cup {NewCache}
Snapshots      == [Services -> SUBSET IPs]
Entries        == Services \X Services \X IPs \X IPs

\* The verdict task: where it is, the copies it works with and the entries
\* it has still to insert.
SyncState ==
  [pc : {"recv", "policy", "pods", "flag", "clear", "fill"},
   policy : CachedPolicies, pods : Snapshots, todo : SUBSET Entries]

NoPods == [s \in Services |-> {}]

TypeOK ==
  /\ policy \in CachedPolicies
  /\ snapshot \in Snapshots
  /\ client \in {"recv", "send"}
  /\ watcher \in {"recv", "send"}
  /\ relisting \in BOOLEAN
  /\ podTokens \in 0..ChanCap
  /\ forwarder \in {"recv", "send"}
  /\ syncTokens \in 0..ChanCap
  /\ sync \in SyncState
  /\ flag \in BOOLEAN
  /\ verdicts \in [IPs \X IPs -> {"none", "allow", "deny"}]
  /\ built \in [policy : CachedPolicies, pods : Snapshots]

Init ==
  /\ policy = NewCache
  /\ snapshot = NoPods
  /\ client = "recv"
  /\ watcher = "recv"
  /\ relisting = FALSE
  /\ podTokens = 0
  /\ forwarder = "recv"
  /\ syncTokens = 0
  /\ sync = [pc |-> "recv", policy |-> NewCache, pods |-> NoPods, todo |-> {}]
  /\ flag = TRUE
  /\ verdicts = [pair \in IPs \X IPs |-> "none"]
  /\ built = [policy |-> NewCache, pods |-> NoPods]

-----------------------------------------------------------------------------
(* The Sigil client.                                                       *)

\* Variant: a policy is not announced.
PolicyPushSilent(p) ==
  /\ client = "recv"
  /\ policy' = p
  /\ UNCHANGED <<snapshot, client, watcher, relisting, tokenVars, sync,
                 kernelVars>>

\* A policy replaces the cached one and is announced.
PolicyPush(p) ==
  /\ client = "recv"
  /\ policy' = p
  /\ client' = "send"
  /\ UNCHANGED <<snapshot, watcher, relisting, tokenVars, sync, kernelVars>>

\* A certificate goes into the CertStore and is announced on the same channel.
CertPush ==
  /\ client = "recv"
  /\ client' = "send"
  /\ UNCHANGED <<policy, snapshot, watcher, relisting, tokenVars, sync,
                 kernelVars>>

\* send waits while the channel is full.
ClientSend ==
  /\ client = "send"
  /\ syncTokens < ChanCap
  /\ client' = "recv"
  /\ syncTokens' = syncTokens + 1
  /\ UNCHANGED <<policy, snapshot, watcher, relisting, podTokens, forwarder,
                 sync, kernelVars>>

-----------------------------------------------------------------------------
(* The pod watcher and the forwarder.                                      *)

\* Apply and InitApply of a pod with an `app` label and an address.
WatchApply(svc, ip) ==
  /\ watcher = "recv"
  /\ snapshot' = [snapshot EXCEPT ![svc] = @ \cup {ip}]
  /\ watcher' = "send"
  /\ UNCHANGED <<policy, client, relisting, tokenVars, sync, kernelVars>>

WatchDelete(svc, ip) ==
  /\ watcher = "recv"
  /\ ~relisting
  /\ snapshot' = [snapshot EXCEPT ![svc] = @ \ {ip}]
  /\ watcher' = "send"
  /\ UNCHANGED <<policy, client, relisting, tokenVars, sync, kernelVars>>

\* Init empties the snapshot and announces nothing; the list that follows
\* may fail and begin again.
WatchInit ==
  /\ watcher = "recv"
  /\ snapshot' = NoPods
  /\ relisting' = TRUE
  /\ UNCHANGED <<policy, client, watcher, tokenVars, sync, kernelVars>>

\* Variant: the end of the list is not announced.
WatchInitDoneSilent ==
  /\ watcher = "recv"
  /\ relisting
  /\ relisting' = FALSE
  /\ UNCHANGED <<policy, snapshot, client, watcher, tokenVars, sync,
                 kernelVars>>

WatchInitDone ==
  /\ watcher = "recv"
  /\ relisting
  /\ relisting' = FALSE
  /\ watcher' = "send"
  /\ UNCHANGED <<policy, snapshot, client, tokenVars, sync, kernelVars>>

WatcherSend ==
  /\ watcher = "send"
  /\ podTokens < ChanCap
  /\ watcher' = "recv"
  /\ podTokens' = podTokens + 1
  /\ UNCHANGED <<policy, snapshot, client, relisting, forwarder, syncTokens,
                 sync, kernelVars>>

ForwarderRecv ==
  /\ forwarder = "recv"
  /\ podTokens > 0
  /\ podTokens' = podTokens - 1
  /\ forwarder' = "send"
  /\ UNCHANGED <<sourceVars, syncTokens, sync, kernelVars>>

\* Variant: the sync channel is not bounded.
ForwarderSendUnbounded ==
  /\ forwarder = "send"
  /\ syncTokens' = syncTokens + 1
  /\ forwarder' = "recv"
  /\ UNCHANGED <<sourceVars, podTokens, sync, kernelVars>>

ForwarderSend ==
  /\ forwarder = "send"
  /\ syncTokens < ChanCap
  /\ syncTokens' = syncTokens + 1
  /\ forwarder' = "recv"
  /\ UNCHANGED <<sourceVars, podTokens, sync, kernelVars>>

-----------------------------------------------------------------------------
(* The verdict task.                                                       *)

SyncRecv ==
  /\ sync.pc = "recv"
  /\ syncTokens > 0
  /\ syncTokens' = syncTokens - 1
  /\ sync' = [sync EXCEPT !.pc = "policy"]
  /\ UNCHANGED <<sourceVars, podTokens, forwarder, kernelVars>>

SyncCopyPolicy ==
  /\ sync.pc = "policy"
  /\ sync' = [sync EXCEPT !.pc = "pods", !.policy = policy]
  /\ UNCHANGED <<sourceVars, tokenVars, kernelVars>>

SyncCopyPods ==
  /\ sync.pc = "pods"
  /\ sync' = [sync EXCEPT !.pc = "flag", !.pods = snapshot]
  /\ UNCHANGED <<sourceVars, tokenVars, kernelVars>>

SyncFlag ==
  /\ sync.pc = "flag"
  /\ flag' = sync.policy.dflt
  /\ sync' = [sync EXCEPT !.pc = "clear"]
  /\ UNCHANGED <<sourceVars, tokenVars, verdicts, built>>

SyncRemove(pair) ==
  /\ sync.pc = "clear"
  /\ verdicts[pair] # "none"
  /\ verdicts' = [verdicts EXCEPT ![pair] = "none"]
  /\ UNCHANGED <<sourceVars, tokenVars, sync, flag, built>>

\* The entries of a rebuild: every pair of addresses of two services.
EntriesOf(pods) ==
  {e \in Entries : e[1] # e[2] /\ e[3] \in pods[e[1]] /\ e[4] \in pods[e[2]]}

\* Variant: the rebuild starts filling before the map is empty.
SyncClearedEarly ==
  /\ sync.pc = "clear"
  /\ sync' = [sync EXCEPT !.pc = "fill", !.todo = EntriesOf(sync.pods)]
  /\ UNCHANGED <<sourceVars, tokenVars, kernelVars>>

SyncCleared ==
  /\ sync.pc = "clear"
  /\ \A pair \in IPs \X IPs : verdicts[pair] = "none"
  /\ sync' = [sync EXCEPT !.pc = "fill", !.todo = EntriesOf(sync.pods)]
  /\ UNCHANGED <<sourceVars, tokenVars, kernelVars>>

\* The verdict of an entry goes into the map if there is room.  The order is
\* that of the services in a HashMap; an address listed under two services
\* keeps what was written last.
SyncInsert(e) ==
  LET pair    == <<e[3], e[4]>>
      verdict == IF IsAllowed(sync.policy, e[1], e[2]) THEN "allow" ELSE "deny"
      Used    == {p \in IPs \X IPs : verdicts[p] # "none"}
  IN /\ sync.pc = "fill"
     /\ e \in sync.todo
     /\ verdicts' = IF pair \in Used \/ Cardinality(Used) < MapCap
                    THEN [verdicts EXCEPT ![pair] = verdict]
                    ELSE verdicts
     /\ sync' = [sync EXCEPT !.todo = @ \ {e}]
     /\ UNCHANGED <<sourceVars, tokenVars, flag, built>>

SyncDone ==
  /\ sync.pc = "fill"
  /\ sync.todo = {}
  /\ sync' = [sync EXCEPT !.pc = "recv"]
  /\ built' = [policy |-> sync.policy, pods |-> sync.pods]
  /\ UNCHANGED <<sourceVars, tokenVars, flag, verdicts>>

-----------------------------------------------------------------------------
\* try_intercept, for the packet that opens a connection: only pod addresses
\* are looked up, and the flag decides where the map has no verdict.
Passes(src, dst) ==
  \/ src \notin PodCIDR \/ dst \notin PodCIDR
  \/ verdicts[<<src, dst>>] = "allow"
  \/ verdicts[<<src, dst>>] = "none" /\ flag

SigilClient ==
  \/ \E p \in Policies : PolicyPush(p)
  \/ CertPush
  \/ ClientSend

PodWatcher ==
  \/ \E m \in Members : WatchApply(m[1], m[2]) \/ WatchDelete(m[1], m[2])
  \/ WatchInit
  \/ WatchInitDone
  \/ WatcherSend

Forwarder == ForwarderRecv \/ ForwarderSend

VerdictTask ==
  \/ SyncRecv
  \/ SyncCopyPolicy
  \/ SyncCopyPods
  \/ SyncFlag
  \/ \E pair \in IPs \X IPs : SyncRemove(pair)
  \/ SyncCleared
  \/ \E e \in sync.todo : SyncInsert(e)
  \/ SyncDone

Next == SigilClient \/ PodWatcher \/ Forwarder \/ VerdictTask

Spec == Init /\ [][Next]_vars

\* The tasks run when they can, and a token is sent when there is room: the
\* channels serve waiting senders in turn.  A list of pods, once begun, ends.
\* Nothing makes policies or pod events arrive.
Fairness ==
  /\ WF_vars(VerdictTask)
  /\ WF_vars(Forwarder)
  /\ SF_vars(ForwarderSend)
  /\ SF_vars(ClientSend)
  /\ SF_vars(WatcherSend)
  /\ SF_vars(WatchInitDone)

FairSpec == Spec /\ Fairness

-----------------------------------------------------------------------------
(* Properties.                                                             *)

\* The verdicts a map built from policy p and snapshot pods may give to a
\* connection: one per pair of services the two addresses are listed under,
\* and the default if there is none.
Verdicts(p, pods, src, dst) ==
  LET Pairs == {e \in EntriesOf(pods) : e[3] = src /\ e[4] = dst}
  IN IF Pairs = {} THEN {p.dflt}
     ELSE {IsAllowed(p, e[1], e[2]) : e \in Pairs}

\* The map has room for every pair of a snapshot.
Fits(pods) ==
  Cardinality({<<e[3], e[4]>> : e \in EntriesOf(pods)}) <= MapCap

\* A token that will make the verdict task copy the policy again, or the
\* snapshot, is on its way.
PolicyDue ==
  client = "send" \/ syncTokens > 0 \/ sync.pc = "policy"

PodsDue ==
  \/ watcher = "send" \/ podTokens > 0 \/ forwarder = "send"
  \/ syncTokens > 0 \/ sync.pc \in {"policy", "pods"}

\* While nothing is announced and no list is under way, the kernel enforces
\* the cached policy on the pods of the snapshot: no wakeup is lost between
\* the two mutexes and the two channels.
QuietMeansEnforced ==
  ~PolicyDue /\ ~PodsDue /\ ~relisting /\ sync.pc = "recv" /\ Fits(snapshot) =>
    \A src, dst \in PodCIDR :
      Passes(src, dst) \in Verdicts(policy, snapshot, src, dst)

\* In the middle of a rebuild a connection gets the verdict of the last
\* finished rebuild, that of the one being made, or the new default; in
\* particular, under default deny nothing passes that neither allows.  Where
\* the last rebuild ran out of room, the old default is possible as well.
OldNewOrDefault ==
  \A src, dst \in PodCIDR :
    Passes(src, dst) \in Verdicts(built.policy, built.pods, src, dst)
                         \cup Verdicts(sync.policy, sync.pods, src, dst)
                         \cup {sync.policy.dflt}
                         \cup IF Fits(built.pods) THEN {}
                              ELSE {built.policy.dflt}

\* The comment of verdict_sync.rs (lines 4-6): "there is no window during
\* which traffic is incorrectly blocked".  A connection that both the last
\* rebuild and the present one allow passes throughout.
NoWronglyBlockedWindow ==
  \A src, dst \in PodCIDR :
    FALSE \notin Verdicts(built.policy, built.pods, src, dst)
                 \cup Verdicts(sync.policy, sync.pods, src, dst)
      => Passes(src, dst)

\* When there is such a window: while a rebuild towards default deny has taken
\* entries out of the map or has not put all of them in, and after one that
\* ran out of room.
BlockingWindow ==
  \/ sync.pc \in {"clear", "fill"} /\ ~sync.policy.dflt
  \/ ~Fits(built.pods)

\* The verdict task follows the policy cache, and the pod snapshot outside a
\* relist, as a Reconciler does.
PolicyReconciler ==
  INSTANCE Reconciler WITH
    Values <- CachedPolicies, wanted <- policy, used <- sync.policy,
    due <- PolicyDue

PodsReconciler ==
  INSTANCE Reconciler WITH
    Values <- Snapshots, wanted <- snapshot, used <- sync.pods,
    due <- PodsDue \/ relisting

FollowsPolicy == PolicyReconciler!Spec
FollowsPods   == PodsReconciler!Spec

\* A policy that stays is enforced in the end, whatever pods come and go and
\* whatever certificates arrive.
PolicyReachesKernel ==
  \A p \in Policies : policy = p ~> policy # p \/ built.policy = p

\* The snapshot of a set of members.
SnapshotOf(members) ==
  [s \in Services |-> {ip \in IPs : <<s, ip>> \in members}]

\* So are the pods of a snapshot that stays.
PodsReachKernel ==
  \A members \in SUBSET Members :
    snapshot = SnapshotOf(members)
      ~> snapshot # SnapshotOf(members) \/ built.pods = SnapshotOf(members)

=============================================================================
