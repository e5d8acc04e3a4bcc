------------------------- MODULE VerdictSyncProofs -------------------------
(***************************************************************************)
(* Proofs about VerdictSync, for every cluster, set of policies and pair of*)
(* capacities.                                                             *)
(*                                                                         *)
(* TypeOK is inductive.  That the copies follow the cache and the snapshot *)
(* is a simulation of Reconciler, step by step.  What the map holds needs  *)
(* the invariant MapInv below, which says at each place of the rebuild     *)
(* which of the two policies the entries and the flag come from.           *)
(***************************************************************************)
EXTENDS VerdictSync, FiniteSetTheorems, TLAPS

-----------------------------------------------------------------------------
(* Types.                                                                  *)

LEMMA PolicyType ==
  ASSUME NEW p \in CachedPolicies
  PROVE  p.dflt \in BOOLEAN
<1>1. CASE p \in Policies
  BY <1>1, VerdictSyncAssumption
<1>2. CASE p = NewCache
  BY <1>2 DEF NewCache
<1>. QED
  BY <1>1, <1>2 DEF CachedPolicies

\* Every rebuild works with well-typed copies; stated for the record's fields
\* so that the proof of each action names the fields it changes.
LEMMA SyncFields ==
  ASSUME NEW pc \in {"recv", "policy", "pods", "flag", "clear", "fill"},
         NEW p \in CachedPolicies, NEW pods \in Snapshots,
         NEW todo \in SUBSET Entries
  PROVE  [pc |-> pc, policy |-> p, pods |-> pods, todo |-> todo] \in SyncState
BY DEF SyncState

LEMMA InitTypes == Init => TypeOK
<1>. SUFFICES ASSUME Init PROVE TypeOK
  OBVIOUS
<1>1. NoPods \in Snapshots
  BY DEF NoPods, Snapshots
<1>2. sync \in SyncState
  BY <1>1, SyncFields DEF Init, CachedPolicies
<1>3. verdicts \in [IPs \X IPs -> {"none", "allow", "deny"}]
  BY DEF Init
<1>4. built \in [policy : CachedPolicies, pods : Snapshots]
  BY <1>1 DEF Init, CachedPolicies
<1>c. ChanCap \in Nat /\ 0 \in 0..ChanCap
  BY VerdictSyncAssumption
<1>5. policy \in CachedPolicies /\ snapshot \in Snapshots
  BY <1>1 DEF Init, CachedPolicies
<1>6. /\ client \in {"recv", "send"} /\ watcher \in {"recv", "send"}
      /\ forwarder \in {"recv", "send"}
      /\ relisting \in BOOLEAN /\ flag \in BOOLEAN
      /\ podTokens \in 0..ChanCap /\ syncTokens \in 0..ChanCap
  BY <1>c DEF Init
<1>. QED
  BY <1>2, <1>3, <1>4, <1>5, <1>6 DEF TypeOK

LEMMA StepTypes ==
  ASSUME TypeOK, [Next]_vars
  PROVE  TypeOK'
<1>. USE DEF TypeOK, sourceVars, tokenVars, kernelVars
<1>c. ChanCap \in Nat /\ ChanCap > 0
  BY VerdictSyncAssumption
<1>1. ASSUME NEW p \in Policies, PolicyPush(p) PROVE TypeOK'
  BY <1>1 DEF PolicyPush, CachedPolicies
<1>2. CASE CertPush
  BY <1>2 DEF CertPush
<1>3. CASE ClientSend
  BY <1>3, <1>c DEF ClientSend
<1>4. ASSUME NEW m \in Members, WatchApply(m[1], m[2]) PROVE TypeOK'
  <2>1. m[1] \in Services /\ m[2] \in IPs
    BY VerdictSyncAssumption
  <2>2. snapshot' \in Snapshots
    BY <1>4, <2>1 DEF WatchApply, Snapshots
  <2>. QED
    BY <1>4, <2>2 DEF WatchApply
<1>5. ASSUME NEW m \in Members, WatchDelete(m[1], m[2]) PROVE TypeOK'
  <2>1. m[1] \in Services /\ m[2] \in IPs
    BY VerdictSyncAssumption
  <2>2. snapshot' \in Snapshots
    BY <1>5, <2>1 DEF WatchDelete, Snapshots
  <2>. QED
    BY <1>5, <2>2 DEF WatchDelete
<1>6. CASE WatchInit
  <2>1. snapshot' \in Snapshots
    BY <1>6 DEF WatchInit, Snapshots, NoPods
  <2>. QED
    BY <1>6, <2>1 DEF WatchInit
<1>7. CASE WatchInitDone
  BY <1>7 DEF WatchInitDone
<1>8. CASE WatcherSend
  BY <1>8, <1>c DEF WatcherSend
<1>9. CASE ForwarderRecv
  BY <1>9, <1>c DEF ForwarderRecv
<1>10. CASE ForwarderSend
  BY <1>10, <1>c DEF ForwarderSend
<1>11. CASE SyncRecv
  BY <1>11, <1>c DEF SyncRecv, SyncState
<1>12. CASE SyncCopyPolicy
  BY <1>12 DEF SyncCopyPolicy, SyncState
<1>13. CASE SyncCopyPods
  BY <1>13 DEF SyncCopyPods, SyncState
<1>14. CASE SyncFlag
  <2>1. flag' \in BOOLEAN
    BY <1>14, PolicyType DEF SyncFlag, SyncState
  <2>. QED
    BY <1>14, <2>1 DEF SyncFlag, SyncState
<1>15. ASSUME NEW pair \in IPs \X IPs, SyncRemove(pair) PROVE TypeOK'
  BY <1>15 DEF SyncRemove
<1>16. CASE SyncCleared
  <2>1. EntriesOf(sync.pods) \in SUBSET Entries
    BY DEF EntriesOf
  <2>. QED
    BY <1>16, <2>1 DEF SyncCleared, SyncState
<1>17. ASSUME NEW e \in sync.todo, SyncInsert(e) PROVE TypeOK'
  <2>1. sync' \in SyncState
    BY <1>17 DEF SyncInsert, SyncState
  <2>2. verdicts' \in [IPs \X IPs -> {"none", "allow", "deny"}]
    BY <1>17 DEF SyncInsert
  <2>. QED
    BY <1>17, <2>1, <2>2 DEF SyncInsert
<1>18. CASE SyncDone
  BY <1>18 DEF SyncDone, SyncState
<1>19. CASE UNCHANGED vars
  BY <1>19 DEF vars
<1>. QED
  BY <1>1, <1>2, <1>3, <1>4, <1>5, <1>6, <1>7, <1>8, <1>9, <1>10, <1>11,
     <1>12, <1>13, <1>14, <1>15, <1>16, <1>17, <1>18, <1>19
     DEF Next, SigilClient, PodWatcher, Forwarder, VerdictTask

\* Type correctness: in particular neither channel ever holds more tokens than
\* its capacity (mpsc::channel(32), main.rs lines 165 and 168).
THEOREM TypeCorrect == Spec => []TypeOK
BY InitTypes, StepTypes, PTL DEF Spec

-----------------------------------------------------------------------------
(* The copies follow the cache and the snapshot.                           *)

LEMMA PolicySteps ==
  ASSUME TypeOK, TypeOK', [Next]_vars
  PROVE  [PolicyReconciler!Next]_(PolicyReconciler!vars)
<1>. USE DEF TypeOK, sourceVars, tokenVars, kernelVars, PolicyDue,
            PolicyReconciler!Next, PolicyReconciler!vars,
            PolicyReconciler!Change, PolicyReconciler!Look
<1>1. CASE \E p \in Policies : PolicyPush(p)
  BY <1>1 DEF PolicyPush
<1>2. CASE CertPush
  BY <1>2 DEF CertPush
<1>3. CASE ClientSend
  BY <1>3 DEF ClientSend
<1>4. CASE PodWatcher
  BY <1>4 DEF PodWatcher, WatchApply, WatchDelete, WatchInit, WatchInitDone,
              WatcherSend
<1>5. CASE ForwarderRecv
  BY <1>5 DEF ForwarderRecv
<1>6. CASE ForwarderSend
  BY <1>6 DEF ForwarderSend
<1>7. CASE SyncRecv
  BY <1>7 DEF SyncRecv, SyncState
<1>8. CASE SyncCopyPolicy
  BY <1>8 DEF SyncCopyPolicy, SyncState
<1>9. CASE SyncCopyPods \/ SyncFlag \/ SyncCleared \/ SyncDone
  BY <1>9 DEF SyncCopyPods, SyncFlag, SyncCleared, SyncDone, SyncState
<1>10. CASE \E pair \in IPs \X IPs : SyncRemove(pair)
  BY <1>10 DEF SyncRemove
<1>11. CASE \E e \in sync.todo : SyncInsert(e)
  BY <1>11 DEF SyncInsert, SyncState
<1>12. CASE UNCHANGED vars
  BY <1>12 DEF vars
<1>. QED
  BY <1>1, <1>2, <1>3, <1>4, <1>5, <1>6, <1>7, <1>8, <1>9, <1>10, <1>11,
     <1>12 DEF Next, SigilClient, Forwarder, VerdictTask

LEMMA PodsSteps ==
  ASSUME TypeOK, TypeOK', [Next]_vars
  PROVE  [PodsReconciler!Next]_(PodsReconciler!vars)
<1>. USE DEF TypeOK, sourceVars, tokenVars, kernelVars, PodsDue,
            PodsReconciler!Next, PodsReconciler!vars,
            PodsReconciler!Change, PodsReconciler!Look
<1>1. CASE SigilClient
  BY <1>1 DEF SigilClient, PolicyPush, CertPush, ClientSend
<1>2. CASE \E m \in Members : WatchApply(m[1], m[2]) \/ WatchDelete(m[1], m[2])
  BY <1>2 DEF WatchApply, WatchDelete
<1>3. CASE WatchInit
  BY <1>3 DEF WatchInit
<1>4. CASE WatchInitDone
  BY <1>4 DEF WatchInitDone
<1>5. CASE WatcherSend
  BY <1>5 DEF WatcherSend
<1>6. CASE ForwarderRecv \/ ForwarderSend
  BY <1>6 DEF ForwarderRecv, ForwarderSend
<1>7. CASE SyncRecv \/ SyncCopyPolicy
  BY <1>7 DEF SyncRecv, SyncCopyPolicy, SyncState
<1>8. CASE SyncCopyPods
  BY <1>8 DEF SyncCopyPods, SyncState
<1>9. CASE SyncFlag \/ SyncCleared \/ SyncDone
  BY <1>9 DEF SyncFlag, SyncCleared, SyncDone, SyncState
<1>10. CASE \E pair \in IPs \X IPs : SyncRemove(pair)
  BY <1>10 DEF SyncRemove
<1>11. CASE \E e \in sync.todo : SyncInsert(e)
  BY <1>11 DEF SyncInsert, SyncState
<1>12. CASE UNCHANGED vars
  BY <1>12 DEF vars
<1>. QED
  BY <1>1, <1>2, <1>3, <1>4, <1>5, <1>6, <1>7, <1>8, <1>9, <1>10, <1>11,
     <1>12 DEF Next, PodWatcher, Forwarder, VerdictTask

\* The policy the verdict task works with follows the cache: after a change,
\* however it falls between the steps of a rebuild, the task owes another copy
\* of the policy (the sync channel, main.rs lines 165 and 199-205).
THEOREM PolicyFollowed == Spec => FollowsPolicy
<1>1. Init => PolicyReconciler!Init
  BY DEF Init, PolicyReconciler!Init, PolicyDue, CachedPolicies
<1>2. TypeOK /\ TypeOK' /\ [Next]_vars
        => [PolicyReconciler!Next]_(PolicyReconciler!vars)
  BY PolicySteps
<1>. QED
  BY <1>1, <1>2, TypeCorrect, PTL DEF Spec, FollowsPolicy, PolicyReconciler!Spec

\* So does its copy of the snapshot, except that a relist announces its end
\* only (pod_watcher.rs lines 107-114).
THEOREM PodsFollowed == Spec => FollowsPods
<1>1. Init => PodsReconciler!Init
  BY DEF Init, PodsReconciler!Init, PodsDue, NoPods, Snapshots
<1>2. TypeOK /\ TypeOK' /\ [Next]_vars
        => [PodsReconciler!Next]_(PodsReconciler!vars)
  BY PodsSteps
<1>. QED
  BY <1>1, <1>2, TypeCorrect, PTL DEF Spec, FollowsPods, PodsReconciler!Spec

\* What follows from being a Reconciler: a copy that differs from its source
\* is owed a look.
LEMMA PolicyLookedAfter == Spec => []PolicyReconciler!NoLostChange
<1>. USE DEF PolicyReconciler!NoLostChange
<1>1. PolicyReconciler!Init => PolicyReconciler!NoLostChange
  BY DEF PolicyReconciler!Init
<1>2. PolicyReconciler!NoLostChange
        /\ [PolicyReconciler!Next]_(PolicyReconciler!vars)
        => PolicyReconciler!NoLostChange'
  BY DEF PolicyReconciler!Next, PolicyReconciler!Change, PolicyReconciler!Look,
         PolicyReconciler!vars
<1>. QED
  BY <1>1, <1>2, PolicyFollowed, PTL DEF FollowsPolicy, PolicyReconciler!Spec

LEMMA PodsLookedAfter == Spec => []PodsReconciler!NoLostChange
<1>. USE DEF PodsReconciler!NoLostChange
<1>1. PodsReconciler!Init => PodsReconciler!NoLostChange
  BY DEF PodsReconciler!Init
<1>2. PodsReconciler!NoLostChange
        /\ [PodsReconciler!Next]_(PodsReconciler!vars)
        => PodsReconciler!NoLostChange'
  BY DEF PodsReconciler!Next, PodsReconciler!Change, PodsReconciler!Look,
         PodsReconciler!vars
<1>. QED
  BY <1>1, <1>2, PodsFollowed, PTL DEF FollowsPods, PodsReconciler!Spec

-----------------------------------------------------------------------------
(* What the map holds.                                                     *)

VerdictOf(p, e) == IF IsAllowed(p, e[1], e[2]) THEN "allow" ELSE "deny"

\* Every verdict in the map is that of an entry of (p, pods).
MadeFrom(p, pods) ==
  \A pair \in IPs \X IPs :
    verdicts[pair] # "none" =>
      \E e \in EntriesOf(pods) :
        <<e[3], e[4]>> = pair /\ verdicts[pair] = VerdictOf(p, e)

\* The entries of pods, but for those of todo, are in the map.
Holds(pods, todo) ==
  Fits(pods) => \A e \in EntriesOf(pods) \ todo : verdicts[<<e[3], e[4]>>] # "none"

\* Up to the flag the map and the flag are those of the last rebuild; until
\* the map is empty its entries are; from then on both are of the present one.
MapInv ==
  /\ sync.pc \in {"recv", "policy"} => sync.policy = built.policy
  /\ sync.pc \in {"recv", "policy", "pods"} => sync.pods = built.pods
  /\ flag = IF sync.pc \in {"clear", "fill"} THEN sync.policy.dflt
            ELSE built.policy.dflt
  /\ sync.pc # "fill" => MadeFrom(built.policy, built.pods)
  /\ sync.pc \notin {"clear", "fill"} => Holds(built.pods, {})
  /\ sync.pc = "fill" => /\ MadeFrom(sync.policy, sync.pods)
                         /\ Holds(sync.pods, sync.todo)
                         /\ sync.todo \subseteq EntriesOf(sync.pods)

LEMMA InitMap == Init => MapInv
<1>. SUFFICES ASSUME Init PROVE MapInv
  OBVIOUS
<1>1. MadeFrom(built.policy, built.pods)
  BY DEF Init, MadeFrom
<1>2. EntriesOf(NoPods) = {}
  BY DEF EntriesOf, NoPods, Entries
<1>3. Holds(built.pods, {})
  BY <1>2 DEF Init, Holds
<1>. QED
  BY <1>1, <1>3 DEF Init, MapInv, NewCache

\* When a snapshot fits, a missing pair of its entries finds room as long as
\* the map holds nothing but pairs of its entries.
LEMMA RoomForEntry ==
  ASSUME TypeOK, NEW p, NEW pods, MadeFrom(p, pods), Fits(pods),
         NEW e \in EntriesOf(pods), verdicts[<<e[3], e[4]>>] = "none"
  PROVE  Cardinality({q \in IPs \X IPs : verdicts[q] # "none"}) < MapCap
<1>. DEFINE Used  == {q \in IPs \X IPs : verdicts[q] # "none"}
            Pairs == {<<d[3], d[4]>> : d \in EntriesOf(pods)}
<1>1. Pairs \subseteq IPs \X IPs
  BY DEF EntriesOf, Entries
<1>2. IsFiniteSet(IPs \X IPs)
  BY VerdictSyncAssumption, FS_Product
<1>3. IsFiniteSet(Pairs) /\ Cardinality(Pairs) \in Nat
  BY <1>1, <1>2, FS_Subset, FS_CardinalityType
<1>4. Used \subseteq Pairs
  BY DEF MadeFrom
<1>5. Used # Pairs
  BY DEF EntriesOf
<1>6. IsFiniteSet(Used) /\ Cardinality(Used) \in Nat
  BY <1>3, <1>4, FS_Subset, FS_CardinalityType
<1>7. Cardinality(Used) <= Cardinality(Pairs) /\ Cardinality(Used) # Cardinality(Pairs)
  <2>. HIDE DEF Used, Pairs
  <2>. QED
    BY <1>3, <1>4, <1>5, FS_Subset
<1>8. Cardinality(Pairs) <= MapCap
  BY DEF Fits
<1>9. MapCap \in Nat
  BY VerdictSyncAssumption
<1>. QED
  BY <1>3, <1>6, <1>7, <1>8, <1>9

LEMMA InsertKeepsMap ==
  ASSUME TypeOK, MapInv, NEW e \in sync.todo, SyncInsert(e)
  PROVE  MapInv'
<1>. DEFINE pair == <<e[3], e[4]>>
            Used == {q \in IPs \X IPs : verdicts[q] # "none"}
            room == pair \in Used \/ Cardinality(Used) < MapCap
<1>1. /\ sync.pc = "fill" /\ sync'.pc = "fill"
      /\ sync'.policy = sync.policy /\ sync'.pods = sync.pods
      /\ sync'.todo = sync.todo \ {e}
      /\ flag' = flag /\ built' = built
  BY DEF SyncInsert, TypeOK, SyncState
<1>2. verdicts' = IF room THEN [verdicts EXCEPT ![pair] = VerdictOf(sync.policy, e)]
                  ELSE verdicts
  BY DEF SyncInsert, VerdictOf
<1>3. /\ MadeFrom(sync.policy, sync.pods)
      /\ Holds(sync.pods, sync.todo)
      /\ e \in EntriesOf(sync.pods) /\ sync.todo \subseteq EntriesOf(sync.pods)
  BY <1>1 DEF MapInv
<1>4. pair \in IPs \X IPs /\ VerdictOf(sync.policy, e) # "none"
  BY <1>3 DEF EntriesOf, Entries, VerdictOf
<1>5. \A q \in IPs \X IPs :
        verdicts'[q] = IF room /\ q = pair THEN VerdictOf(sync.policy, e)
                       ELSE verdicts[q]
  BY <1>2, <1>4 DEF TypeOK
<1>6. MadeFrom(sync.policy, sync.pods)'
  <2>. SUFFICES ASSUME NEW q \in IPs \X IPs, verdicts'[q] # "none"
                PROVE  \E d \in EntriesOf(sync.pods) :
                         <<d[3], d[4]>> = q
                         /\ verdicts'[q] = VerdictOf(sync.policy, d)
    BY <1>1 DEF MadeFrom, EntriesOf, VerdictOf
  <2>1. CASE room /\ q = pair
    BY <2>1, <1>3, <1>5
  <2>2. CASE ~(room /\ q = pair)
    BY <2>2, <1>3, <1>5 DEF MadeFrom
  <2>. QED
    BY <2>1, <2>2
<1>7. Holds(sync.pods, sync.todo)'
  <2>. SUFFICES ASSUME Fits(sync.pods), NEW d \in EntriesOf(sync.pods),
                       d \notin sync.todo \ {e}
                PROVE  verdicts'[<<d[3], d[4]>>] # "none"
    BY <1>1 DEF Holds, EntriesOf, Fits
  <2>1. <<d[3], d[4]>> \in IPs \X IPs
    BY DEF EntriesOf, Entries
  <2>2. CASE d = e
    <3>1. verdicts[pair] = "none" => Cardinality(Used) < MapCap
      BY <1>3, RoomForEntry
    <3>2. room
      BY <3>1, <1>4
    <3>. QED
      BY <2>2, <3>2, <1>4, <1>5
  <2>3. CASE d # e
    <3>1. verdicts[<<d[3], d[4]>>] # "none"
      BY <2>3, <1>3 DEF Holds
    <3>. QED
      BY <3>1, <2>1, <1>4, <1>5
  <2>. QED
    BY <2>2, <2>3
<1>8. sync'.todo \subseteq EntriesOf(sync'.pods)
  BY <1>1, <1>3
<1>9. flag' = sync'.policy.dflt
  BY <1>1 DEF MapInv
<1>. QED
  BY <1>1, <1>6, <1>7, <1>8, <1>9 DEF MapInv, EntriesOf

\* Steps that leave the map, the flag, the last rebuild and the verdict task
\* alone leave MapInv alone.
LEMMA OthersKeepMap ==
  ASSUME MapInv, UNCHANGED <<sync, kernelVars>>
  PROVE  MapInv'
BY DEF kernelVars, MapInv, MadeFrom, Holds, EntriesOf, Fits, VerdictOf

LEMMA StepMap ==
  ASSUME TypeOK, MapInv, [Next]_vars
  PROVE  MapInv'
<1>1. CASE SigilClient \/ PodWatcher \/ Forwarder \/ UNCHANGED vars
  <2>1. UNCHANGED <<sync, kernelVars>>
    BY <1>1 DEF SigilClient, PolicyPush, CertPush, ClientSend, PodWatcher,
       WatchApply, WatchDelete, WatchInit, WatchInitDone, WatcherSend,
       Forwarder, ForwarderRecv, ForwarderSend, vars
  <2>. QED
    BY <2>1, OthersKeepMap
<1>2. CASE SyncRecv \/ SyncCopyPolicy \/ SyncCopyPods
  <2>1. /\ UNCHANGED kernelVars
        /\ sync.pc \in {"recv", "policy", "pods"}
        /\ sync'.pc \in {"policy", "pods", "flag"}
        /\ sync'.pc = "policy" => sync.pc = "recv" /\ sync'.policy = sync.policy
                                 /\ sync'.pods = sync.pods
        /\ sync'.pc = "pods" => sync'.pods = sync.pods
    BY <1>2 DEF SyncRecv, SyncCopyPolicy, SyncCopyPods, TypeOK, SyncState
  <2>2. MadeFrom(built.policy, built.pods) /\ Holds(built.pods, {})
    BY <2>1 DEF MapInv
  <2>3. MadeFrom(built.policy, built.pods)' /\ Holds(built.pods, {})'
    BY <2>1, <2>2 DEF kernelVars, MadeFrom, Holds, EntriesOf, Fits, VerdictOf
  <2>. QED
    BY <2>1, <2>3 DEF MapInv, kernelVars
<1>3. CASE SyncFlag
  <2>1. MadeFrom(built.policy, built.pods)
    BY <1>3 DEF SyncFlag, MapInv
  <2>2. MadeFrom(built.policy, built.pods)'
    BY <1>3, <2>1 DEF SyncFlag, MadeFrom, EntriesOf, VerdictOf
  <2>. QED
    BY <1>3, <2>2 DEF SyncFlag, MapInv, TypeOK, SyncState
<1>4. ASSUME NEW pair \in IPs \X IPs, SyncRemove(pair) PROVE MapInv'
  <2>1. MadeFrom(built.policy, built.pods)
    BY <1>4 DEF SyncRemove, MapInv
  <2>2. \A q \in IPs \X IPs : verdicts'[q] # "none" => verdicts'[q] = verdicts[q]
    BY <1>4 DEF SyncRemove, TypeOK
  <2>3. MadeFrom(built.policy, built.pods)'
    BY <1>4, <2>1, <2>2 DEF SyncRemove, MadeFrom, EntriesOf, VerdictOf
  <2>. QED
    BY <1>4, <2>3 DEF SyncRemove, MapInv
<1>5. CASE SyncCleared
  <2>1. /\ sync.pc = "clear" /\ sync'.pc = "fill"
        /\ sync'.policy = sync.policy /\ sync'.pods = sync.pods
        /\ sync'.todo = EntriesOf(sync.pods)
        /\ verdicts' = verdicts /\ flag' = flag
    BY <1>5 DEF SyncCleared, TypeOK, SyncState, kernelVars
  <2>2. MadeFrom(sync.policy, sync.pods)'
    BY <1>5, <2>1 DEF SyncCleared, MadeFrom
  <2>3. Holds(sync.pods, sync.todo)' /\ sync'.todo \subseteq EntriesOf(sync'.pods)
    BY <2>1 DEF Holds, EntriesOf
  <2>. QED
    BY <2>1, <2>2, <2>3 DEF MapInv, EntriesOf
<1>6. ASSUME NEW e \in sync.todo, SyncInsert(e) PROVE MapInv'
  BY <1>6, InsertKeepsMap
<1>7. CASE SyncDone
  <2>1. /\ sync.pc = "fill" /\ sync.todo = {} /\ sync'.pc = "recv"
        /\ sync'.policy = sync.policy /\ sync'.pods = sync.pods
        /\ built'.policy = sync.policy /\ built'.pods = sync.pods
        /\ verdicts' = verdicts /\ flag' = flag
    BY <1>7 DEF SyncDone, TypeOK, SyncState
  <2>2. MadeFrom(sync.policy, sync.pods) /\ Holds(sync.pods, {})
    BY <2>1 DEF MapInv
  <2>3. MadeFrom(built.policy, built.pods)' /\ Holds(built.pods, {})'
    BY <2>1, <2>2 DEF MadeFrom, Holds, EntriesOf, Fits, VerdictOf
  <2>. QED
    BY <2>1, <2>3 DEF MapInv
<1>. QED
  BY <1>1, <1>2, <1>3, <1>4, <1>5, <1>6, <1>7 DEF Next, VerdictTask

LEMMA MapInvariant == Spec => []MapInv
BY InitMap, StepMap, TypeCorrect, PTL DEF Spec

-----------------------------------------------------------------------------
(* What a connection gets.                                                 *)

LEMMA AllowedIsBoolean ==
  ASSUME NEW p \in CachedPolicies, NEW from, NEW to
  PROVE  IsAllowed(p, from, to) \in BOOLEAN
BY PolicyType DEF IsAllowed

LEMMA PassesIsBoolean ==
  ASSUME NEW src, NEW dst
  PROVE  Passes(src, dst) \in BOOLEAN
BY DEF Passes

\* A verdict in the map is one of those the policy it is made from may give.
LEMMA VerdictFound ==
  ASSUME TypeOK, NEW p \in CachedPolicies, NEW pods, MadeFrom(p, pods),
         NEW src \in PodCIDR, NEW dst \in PodCIDR,
         verdicts[<<src, dst>>] # "none"
  PROVE  Passes(src, dst) \in Verdicts(p, pods, src, dst)
<1>0. <<src, dst>> \in IPs \X IPs
  BY VerdictSyncAssumption
<1>1. PICK e \in EntriesOf(pods) :
        <<e[3], e[4]>> = <<src, dst>> /\ verdicts[<<src, dst>>] = VerdictOf(p, e)
  BY <1>0 DEF MadeFrom
<1>2. IsAllowed(p, e[1], e[2]) \in BOOLEAN
  BY AllowedIsBoolean
<1>3. Passes(src, dst) <=> verdicts[<<src, dst>>] = "allow"
  BY DEF Passes
<1>4. VerdictOf(p, e) = "allow" <=> IsAllowed(p, e[1], e[2])
  BY DEF VerdictOf
<1>5. Passes(src, dst) = IsAllowed(p, e[1], e[2])
  BY <1>1, <1>2, <1>3, <1>4, PassesIsBoolean
<1>6. IsAllowed(p, e[1], e[2]) \in Verdicts(p, pods, src, dst)
  BY <1>1 DEF Verdicts
<1>. QED
  BY <1>5, <1>6

\* Without a verdict the flag decides.
LEMMA VerdictMissing ==
  ASSUME TypeOK, NEW src \in PodCIDR, NEW dst \in PodCIDR,
         verdicts[<<src, dst>>] = "none"
  PROVE  Passes(src, dst) = flag
<1>1. Passes(src, dst) <=> flag
  BY DEF Passes
<1>. QED
  BY <1>1, PassesIsBoolean DEF TypeOK

\* If the map holds all the entries, what is missing has none.
LEMMA NoEntry ==
  ASSUME NEW p, NEW pods, Holds(pods, {}), Fits(pods),
         NEW src, NEW dst, verdicts[<<src, dst>>] = "none"
  PROVE  p.dflt \in Verdicts(p, pods, src, dst)
<1>1. {e \in EntriesOf(pods) : e[3] = src /\ e[4] = dst} = {}
  BY DEF Holds
<1>. QED
  BY <1>1 DEF Verdicts

\* At every step of a rebuild a connection gets the old verdict, the new one
\* or the default (verdict_sync.rs lines 52-116, try_intercept lines 127-142).
THEOREM RebuildNeverInvents == Spec => []OldNewOrDefault
<1>1. TypeOK /\ MapInv => OldNewOrDefault
  <2>. SUFFICES ASSUME TypeOK, MapInv, NEW src \in PodCIDR, NEW dst \in PodCIDR
                PROVE  \/ Passes(src, dst) \in Verdicts(built.policy, built.pods, src, dst)
                       \/ Passes(src, dst) \in Verdicts(sync.policy, sync.pods, src, dst)
                       \/ Passes(src, dst) = sync.policy.dflt
                       \/ ~Fits(built.pods) /\ Passes(src, dst) = built.policy.dflt
    BY DEF OldNewOrDefault
  <2>1. built.policy \in CachedPolicies /\ sync.policy \in CachedPolicies
    BY DEF TypeOK, SyncState
  <2>2. CASE verdicts[<<src, dst>>] # "none"
    BY <2>1, <2>2, VerdictFound DEF MapInv
  <2>3. CASE verdicts[<<src, dst>>] = "none" /\ sync.pc \in {"clear", "fill"}
    BY <2>3, VerdictMissing DEF MapInv
  <2>4. CASE verdicts[<<src, dst>>] = "none" /\ sync.pc \notin {"clear", "fill"}
    <3>1. Passes(src, dst) = built.policy.dflt
      BY <2>4, VerdictMissing DEF MapInv
    <3>2. Fits(built.pods) =>
            built.policy.dflt \in Verdicts(built.policy, built.pods, src, dst)
      BY <2>4, NoEntry DEF MapInv
    <3>. QED
      BY <3>1, <3>2
  <2>. QED
    BY <2>2, <2>3, <2>4
<1>. QED
  BY <1>1, TypeCorrect, MapInvariant, PTL

\* The windows in which allowed traffic is blocked are those of a rebuild towards
\* default deny, between its first removal and its last insert, and those of a
\* map that is too small (verdict_sync.rs lines 4-6 and 52-116): with default
\* allow, or between rebuilds, there is none.
THEOREM OnlyWindowsBlock == Spec => [](NoWronglyBlockedWindow \/ BlockingWindow)
<1>1. TypeOK /\ MapInv => NoWronglyBlockedWindow \/ BlockingWindow
  <2>. SUFFICES ASSUME TypeOK, MapInv, ~BlockingWindow,
                       NEW src \in PodCIDR, NEW dst \in PodCIDR,
                       FALSE \notin Verdicts(built.policy, built.pods, src, dst),
                       FALSE \notin Verdicts(sync.policy, sync.pods, src, dst)
                PROVE  Passes(src, dst)
    BY DEF NoWronglyBlockedWindow
  <2>1. built.policy \in CachedPolicies /\ sync.policy \in CachedPolicies
    BY DEF TypeOK, SyncState
  <2>2. CASE verdicts[<<src, dst>>] # "none"
    <3>1. \/ Passes(src, dst) \in Verdicts(built.policy, built.pods, src, dst)
          \/ Passes(src, dst) \in Verdicts(sync.policy, sync.pods, src, dst)
      BY <2>1, <2>2, VerdictFound DEF MapInv
    <3>. QED
      BY <3>1, PassesIsBoolean
  <2>3. CASE verdicts[<<src, dst>>] = "none" /\ sync.pc \in {"clear", "fill"}
    BY <2>3, VerdictMissing DEF MapInv, BlockingWindow
  <2>4. CASE verdicts[<<src, dst>>] = "none" /\ sync.pc \notin {"clear", "fill"}
    <3>1. Passes(src, dst) = built.policy.dflt
      BY <2>4, VerdictMissing DEF MapInv
    <3>2. built.policy.dflt \in Verdicts(built.policy, built.pods, src, dst)
      BY <2>4, NoEntry DEF MapInv, BlockingWindow
    <3>. QED
      BY <3>1, <3>2, PassesIsBoolean
  <2>. QED
    BY <2>2, <2>3, <2>4
<1>. QED
  BY <1>1, TypeCorrect, MapInvariant, PTL

\* No wakeup is lost: once nothing is announced, the kernel enforces the
\* cached policy on the pods of the snapshot, if the map has room for them.
THEOREM NoLostWakeup == Spec => []QuietMeansEnforced
<1>1. TypeOK /\ MapInv /\ PolicyReconciler!NoLostChange
        /\ PodsReconciler!NoLostChange => QuietMeansEnforced
  <2>. SUFFICES ASSUME TypeOK, MapInv, PolicyReconciler!NoLostChange,
                       PodsReconciler!NoLostChange,
                       ~PolicyDue, ~PodsDue, ~relisting, sync.pc = "recv",
                       Fits(snapshot),
                       NEW src \in PodCIDR, NEW dst \in PodCIDR
                PROVE  Passes(src, dst) \in Verdicts(policy, snapshot, src, dst)
    BY DEF QuietMeansEnforced
  <2>1. sync.policy = policy /\ sync.pods = snapshot
    BY DEF PolicyReconciler!NoLostChange, PodsReconciler!NoLostChange
  <2>2. built.policy = policy /\ built.pods = snapshot
    BY <2>1 DEF MapInv
  <2>3. /\ flag = policy.dflt /\ MadeFrom(policy, snapshot)
        /\ Holds(snapshot, {})
    BY <2>2 DEF MapInv
  <2>4. CASE verdicts[<<src, dst>>] # "none"
    BY <2>3, <2>4, VerdictFound DEF TypeOK
  <2>5. CASE verdicts[<<src, dst>>] = "none"
    BY <2>3, <2>5, VerdictMissing, NoEntry
  <2>. QED
    BY <2>4, <2>5
<1>. QED
  BY <1>1, TypeCorrect, MapInvariant, PolicyLookedAfter, PodsLookedAfter, PTL

=============================================================================
