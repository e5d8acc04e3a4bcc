------------------------------ MODULE PodWatch ------------------------------
(***************************************************************************)
(* Kprobe's pod watcher against the cluster it watches, and the reports    *)
(* that name services by it.                                               *)
(*                                                                         *)
(* The API server sends an event for every change of a pod, in order, and  *)
(* the watcher turns the events into the PodSnapshot.  A watch may fail at *)
(* any time: what it had not delivered is lost, and the watcher lists all  *)
(* pods anew.  The kernel logs each packet to a perf buffer; a reader      *)
(* takes it from there later and looks both addresses up in the snapshot   *)
(* of that moment.                                                         *)
(*                                                                         *)
(* An event is handled in one step; its announcement to the verdict task   *)
(* is modelled in VerdictSync, and so are verdicts, which a report copies. *)
(***************************************************************************)
EXTENDS Naturals, Sequences, FiniteSets, Functions

CONSTANTS
  Pods,
  Services,
  Addrs,
  PodCIDR,     \* the addresses whose packets are reported
  Absent,      \* no such pod
  Unready,     \* a pod without an `app` label or without an address
  Unknown,     \* "unknown"
  MaxChanges,  \* bound: changes of pods
  MaxFailures, \* bound: failures of the watch and restarts of Kprobe
  MaxPackets   \* bound: packets logged

Pairs == Services \X Addrs

ASSUME PodWatchAssumption ==
  /\ IsFiniteSet(Pods)
  /\ PodCIDR \subseteq Addrs
  /\ Absent \notin Pairs /\ Unready \notin Pairs /\ Absent # Unready
  /\ Unknown \notin Services
  /\ MaxChanges \in Nat /\ MaxFailures \in Nat /\ MaxPackets \in Nat

VARIABLES
  pods,      \* the cluster's pods: the service and the address of each
  listing,   \* the watcher has no watch; it is about to list
  watch,     \* the events the watcher has still to handle
  snapshot,  \* PodSnapshot: the addresses listed under each service
  ring,      \* the packets logged and not yet read
  reader,    \* the packet being reported and its source, once looked up
  reported,  \* the report made last, at most one
  changes, failures, packets,  \* how many there have been
  had,       \* history: the addresses each service has had
  moved,     \* history: what a pod has changed from since the last list
  doubled    \* history: what one pod was deleted with while another had it

packetVars  == <<ring, reader, reported, packets>>
historyVars == <<had, moved, doubled>>
vars == <<pods, listing, watch, snapshot, packetVars, changes, failures,
          historyVars>>

PodObject == Pairs \cup {Unready}
Event  == [kind : {"apply", "delete"}, pod : PodObject]
          \cup [kind : {"init", "done"}, pod : {Absent}]
\* A packet and, as history, the service that sent it.
Packet == [src : Addrs, dst : Addrs, from : Services]
Names  == Services \cup {Unknown}
Record == [packet : Packet, source : Names, destination : Names]

TypeOK ==
  /\ pods \in [Pods -> PodObject \cup {Absent}]
  /\ listing \in BOOLEAN
  /\ watch \in Seq(Event)
  /\ snapshot \subseteq Pairs
  /\ ring \in Seq(Packet)
  /\ reader \subseteq [packet : Packet, source : Names]
  /\ reported \subseteq Record
  /\ changes \in 0..MaxChanges
  /\ failures \in 0..MaxFailures
  /\ packets \in 0..MaxPackets
  /\ had \subseteq Pairs /\ moved \subseteq Pairs /\ doubled \subseteq Pairs

Init ==
  /\ pods \in [Pods -> PodObject \cup {Absent}]
  /\ listing = TRUE
  /\ watch = <<[kind |-> "init", pod |-> Absent]>>
  /\ snapshot = {}
  /\ ring = <<>> /\ reader = {} /\ reported = {}
  /\ changes = 0 /\ failures = 0 /\ packets = 0
  /\ had = {pods[p] : p \in Pods} \cap Pairs
  /\ moved = {} /\ doubled = {}

-----------------------------------------------------------------------------
(* The cluster and its API server.                                         *)

\* A change is sent to the watcher unless it has no watch; it will then see
\* the change in the list.
Sent(kind, pod) ==
  watch' = IF listing THEN watch
           ELSE Append(watch, [kind |-> kind, pod |-> pod])

\* A pod is created, gets an address, or changes its label or its address.
\* Pods on the host's network share an address, and so may a finished pod and
\* a new one.
SetPod(p, new) ==
  /\ changes < MaxChanges
  /\ pods[p] # new
  /\ changes' = changes + 1
  /\ pods' = [pods EXCEPT ![p] = new]
  /\ Sent("apply", new)
  /\ had' = had \cup ({new} \cap Pairs)
  /\ moved' = moved \cup ({pods[p]} \cap Pairs)
  /\ UNCHANGED <<listing, snapshot, packetVars, failures, doubled>>

RemovePod(p) ==
  /\ changes < MaxChanges
  /\ pods[p] # Absent
  /\ changes' = changes + 1
  /\ pods' = [pods EXCEPT ![p] = Absent]
  /\ Sent("delete", pods[p])
  /\ doubled' = IF \E q \in Pods \ {p} : pods[q] = pods[p]
                THEN doubled \cup ({pods[p]} \cap Pairs) ELSE doubled
  /\ UNCHANGED <<listing, snapshot, packetVars, failures, had, moved>>

\* The list fails, or the watch cannot be resumed where it broke off; the
\* watcher logs an error and starts from Init.  A watch that can be resumed
\* loses nothing.
WatchFails ==
  /\ failures < MaxFailures
  /\ failures' = failures + 1
  /\ listing' = TRUE
  /\ watch' = <<[kind |-> "init", pod |-> Absent]>>
  /\ UNCHANGED <<pods, snapshot, packetVars, changes, historyVars>>

\* The list comes, in whatever order, and a watch follows it.
List ==
  LET Present == {p \in Pods : pods[p] # Absent}
  IN /\ listing
     /\ listing' = FALSE
     /\ \E order \in Bijection(1..Cardinality(Present), Present) :
          watch' = watch
                   \o [i \in 1..Cardinality(Present) |->
                         [kind |-> "apply", pod |-> pods[order[i]]]]
                   \o <<[kind |-> "done", pod |-> Absent]>>
     /\ moved' = {} /\ doubled' = {}
     /\ UNCHANGED <<pods, snapshot, packetVars, changes, failures, had>>

-----------------------------------------------------------------------------
(* PodWatcher::run.                                                        *)

Handle(kind) ==
  /\ watch # <<>>
  /\ Head(watch).kind = kind
  /\ watch' = Tail(watch)
  /\ UNCHANGED <<pods, listing, packetVars, changes, failures, historyVars>>

\* Variant: extract_service_and_ip takes every pod.
ApplyAnything ==
  /\ Handle("apply")
  /\ snapshot' = snapshot \cup {Head(watch).pod}

\* Apply and InitApply: extract_service_and_ip takes what has a label and an
\* address, and the address is put on its service's list once.
Apply ==
  /\ Handle("apply")
  /\ snapshot' = snapshot \cup ({Head(watch).pod} \cap Pairs)

\* Variant: the service's list is removed with one of its pods.
DeleteService ==
  /\ Handle("delete")
  /\ snapshot' = {e \in snapshot :
                    \A pair \in {Head(watch).pod} \cap Pairs : e[1] # pair[1]}

Delete ==
  /\ Handle("delete")
  /\ snapshot' = snapshot \ {Head(watch).pod}

\* Variant: the snapshot is kept when a watch starts again.
InitKeeps ==
  /\ Handle("init")
  /\ UNCHANGED snapshot

\* Event::Init clears the snapshot.
Clear ==
  /\ Handle("init")
  /\ snapshot' = {}

InitDone ==
  /\ Handle("done")
  /\ UNCHANGED snapshot

\* Kprobe is started again: the snapshot and the perf buffers are new.
Restart ==
  /\ failures < MaxFailures
  /\ failures' = failures + 1
  /\ listing' = TRUE
  /\ watch' = <<[kind |-> "init", pod |-> Absent]>>
  /\ snapshot' = {}
  /\ ring' = <<>> /\ reader' = {}
  /\ UNCHANGED <<pods, reported, changes, packets, historyVars>>

-----------------------------------------------------------------------------
(* Packets and their reports.  The channel the reports go to is the one of *)
(* Conduit's gateways.                                                     *)

\* try_intercept logs a packet that pod p sends.  The perf buffer drops what
\* does not fit: that packet is as if it had not been sent.
Log(p, dst) ==
  /\ packets < MaxPackets
  /\ pods[p] \in Pairs
  /\ packets' = packets + 1
  /\ ring' = Append(ring, [src |-> pods[p][2], dst |-> dst,
                           from |-> pods[p][1]])
  /\ UNCHANGED <<pods, listing, watch, snapshot, reader, reported, changes,
                 failures, historyVars>>

\* resolve_service: a service that lists the address, any if several do.
Resolve(ip) ==
  LET Listed == {s \in Services : <<s, ip>> \in snapshot}
  IN IF Listed = {} THEN {Unknown} ELSE Listed

\* The reader takes the next packet.
TakePacket ==
  /\ ring # <<>> /\ reader = {}
  /\ ring' = Tail(ring)
  /\ UNCHANGED <<pods, listing, watch, snapshot, reported, packets, changes,
                 failures, historyVars>>

\* Variant: the addresses are taken the wrong way round.
ReadSourceSwapped ==
  /\ TakePacket
  /\ \E source \in Resolve(Head(ring).dst) :
       reader' = {[packet |-> Head(ring), source |-> source]}

\* It looks the source up, unless neither address is a pod's.
ReadSource ==
  /\ TakePacket
  /\ IF {Head(ring).src, Head(ring).dst} \cap PodCIDR = {}
     THEN UNCHANGED reader
     ELSE \E source \in Resolve(Head(ring).src) :
            reader' = {[packet |-> Head(ring), source |-> source]}

\* Then, under the lock again, the destination; a packet of two unknown
\* addresses is not reported.
Report ==
  \E r \in reader : \E destination \in Resolve(r.packet.dst) :
    /\ reader' = {}
    /\ reported' = IF r.source = Unknown /\ destination = Unknown
                   THEN reported
                   ELSE {[packet |-> r.packet, source |-> r.source,
                          destination |-> destination]}
    /\ UNCHANGED <<pods, listing, watch, snapshot, ring, packets, changes,
                   failures, historyVars>>

-----------------------------------------------------------------------------
Next ==
  \/ \E p \in Pods : \/ \E new \in PodObject : SetPod(p, new)
                     \/ RemovePod(p)
                     \/ \E dst \in Addrs : Log(p, dst)
  \/ WatchFails
  \/ List \/ Apply \/ Delete \/ Clear \/ InitDone
  \/ Restart
  \/ ReadSource \/ Report

Spec == Init /\ [][Next]_vars

-----------------------------------------------------------------------------
(* Properties.                                                             *)

\* The watcher has listed and has nothing left to handle.
CaughtUp == ~listing /\ watch = <<>>

\* A watcher that has caught up lists every pod (PodWatcher::run,
\* extract_service_and_ip), across lost watches and restarts, except one that
\* shared its service and address with a pod that was deleted: retain removes
\* the address whoever else has it.
NoneMissing ==
  CaughtUp =>
    \A p \in Pods : pods[p] \in Pairs => pods[p] \in snapshot \cup doubled

\* It lists nothing else, except what a pod had before its label or its
\* address changed: Apply adds the new value and leaves the old one.  A list
\* clears both up.
OnlyMovesLinger ==
  CaughtUp => snapshot \subseteq {pods[p] : p \in Pods} \cup moved

\* A report, made at any time after the packet and from two looks at the
\* snapshot (the packet reader, resolve_service), names the service that sent
\* the packet or none, unless another service has had its address; and as
\* destination only a service that has had that address.
AttributedToSender ==
  \A r \in reported :
    /\ \/ r.source \in {Unknown, r.packet.from}
       \/ \E s \in Services \ {r.packet.from} : <<s, r.packet.src>> \in had
    /\ \/ r.destination = Unknown
       \/ <<r.destination, r.packet.dst>> \in had

=============================================================================
