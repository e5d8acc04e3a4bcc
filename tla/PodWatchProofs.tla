--------------------------- MODULE PodWatchProofs ---------------------------
(***************************************************************************)
(* Proofs about PodWatch, for any number of pods, services, addresses,     *)
(* failures and packets.                                                   *)
(***************************************************************************)
EXTENDS PodWatch, FiniteSetTheorems, SequenceTheorems, TLAPS

-----------------------------------------------------------------------------
(* What the pending events will make of the snapshot.                      *)

Adds(e, pair)   == e.kind = "apply" /\ e.pod = pair
Erases(e, pair) == e.kind = "init" \/ (e.kind = "delete" /\ e.pod = pair)

\* Once the events w are handled, the snapshot s will have the pair: the last
\* event about it adds it, or there is none and it is there.
WillHave(w, s, pair) ==
  \/ \E i \in 1..Len(w) : /\ Adds(w[i], pair)
                          /\ \A j \in (i+1)..Len(w) : ~Erases(w[j], pair)
  \/ pair \in s /\ \A j \in 1..Len(w) : ~Erases(w[j], pair)

WillLack(w, s, pair) ==
  \/ \E i \in 1..Len(w) : /\ Erases(w[i], pair)
                          /\ \A j \in (i+1)..Len(w) : ~Adds(w[j], pair)
  \/ pair \notin s /\ \A j \in 1..Len(w) : ~Adds(w[j], pair)

LEMMA AppendKeeps ==
  ASSUME NEW w \in Seq(Event), NEW s, NEW e \in Event, NEW pair
  PROVE  /\ Adds(e, pair) => WillHave(Append(w, e), s, pair)
         /\ Erases(e, pair) => WillLack(Append(w, e), s, pair)
         /\ WillHave(w, s, pair) /\ ~Erases(e, pair)
              => WillHave(Append(w, e), s, pair)
         /\ WillLack(w, s, pair) /\ ~Adds(e, pair)
              => WillLack(Append(w, e), s, pair)
<1> DEFINE v == Append(w, e)
           n == Len(w)
<1>1. /\ n \in Nat /\ Len(v) = n + 1 /\ v[n+1] = e
      /\ \A i \in 1..n : v[i] = w[i]
  <2> HIDE DEF Event
  <2>. QED
    OBVIOUS
<1> HIDE DEF v, n
<1>2. Adds(e, pair) => WillHave(v, s, pair)
  BY <1>1 DEF WillHave
<1>3. Erases(e, pair) => WillLack(v, s, pair)
  BY <1>1 DEF WillLack
<1>4. ASSUME WillHave(w, s, pair), ~Erases(e, pair)
      PROVE  WillHave(v, s, pair)
  <2>1. CASE \E i \in 1..n : /\ Adds(w[i], pair)
                             /\ \A j \in (i+1)..n : ~Erases(w[j], pair)
    <3>1. PICK i \in 1..n : /\ Adds(w[i], pair)
                            /\ \A j \in (i+1)..n : ~Erases(w[j], pair)
      BY <2>1
    <3>2. Adds(v[i], pair) /\ i \in 1..Len(v)
      BY <1>1, <3>1
    <3>3. \A j \in (i+1)..Len(v) : ~Erases(v[j], pair)
      BY <1>1, <1>4, <3>1
    <3>. QED
      BY <3>2, <3>3 DEF WillHave
  <2>2. CASE pair \in s /\ \A j \in 1..n : ~Erases(w[j], pair)
    <3>1. \A j \in 1..Len(v) : ~Erases(v[j], pair)
      BY <1>1, <1>4, <2>2
    <3>. QED
      BY <2>2, <3>1 DEF WillHave
  <2>. QED
    BY <1>4, <2>1, <2>2 DEF WillHave, n
<1>5. ASSUME WillLack(w, s, pair), ~Adds(e, pair)
      PROVE  WillLack(v, s, pair)
  <2>1. CASE \E i \in 1..n : /\ Erases(w[i], pair)
                             /\ \A j \in (i+1)..n : ~Adds(w[j], pair)
    <3>1. PICK i \in 1..n : /\ Erases(w[i], pair)
                            /\ \A j \in (i+1)..n : ~Adds(w[j], pair)
      BY <2>1
    <3>2. Erases(v[i], pair) /\ i \in 1..Len(v)
      BY <1>1, <3>1
    <3>3. \A j \in (i+1)..Len(v) : ~Adds(v[j], pair)
      BY <1>1, <1>5, <3>1
    <3>. QED
      BY <3>2, <3>3 DEF WillLack
  <2>2. CASE pair \notin s /\ \A j \in 1..n : ~Adds(w[j], pair)
    <3>1. \A j \in 1..Len(v) : ~Adds(v[j], pair)
      BY <1>1, <1>5, <2>2
    <3>. QED
      BY <2>2, <3>1 DEF WillLack
  <2>. QED
    BY <1>5, <2>1, <2>2 DEF WillLack, n
<1>. QED
  BY <1>2, <1>3, <1>4, <1>5 DEF v

\* Handling the first event changes nothing about the outcome.
LEMMA HandleKeeps ==
  ASSUME NEW w \in Seq(Event), w # <<>>, NEW s, NEW t, NEW pair,
         pair \in t <=> \/ Adds(Head(w), pair)
                        \/ pair \in s /\ ~Erases(Head(w), pair)
  PROVE  /\ WillHave(w, s, pair) => WillHave(Tail(w), t, pair)
         /\ WillLack(w, s, pair) => WillLack(Tail(w), t, pair)
<1> DEFINE v == Tail(w)
           n == Len(w)
<1>1. /\ n \in Nat /\ n >= 1 /\ Len(v) = n - 1 /\ w[1] = Head(w)
      /\ \A i \in 1..(n-1) : v[i] = w[i+1]
  <2> HIDE DEF Event
  <2>. QED
    OBVIOUS
<1>0. ~(Adds(Head(w), pair) /\ Erases(Head(w), pair))
  BY DEF Adds, Erases
<1> HIDE DEF v, n
<1>2. \A i \in 2..n : i - 1 \in 1..Len(v) /\ w[i] = v[i-1]
  BY <1>1
<1>3. ASSUME WillHave(w, s, pair) PROVE WillHave(v, t, pair)
  <2>1. ASSUME NEW i \in 1..n, Adds(w[i], pair),
               \A j \in (i+1)..n : ~Erases(w[j], pair)
        PROVE  WillHave(v, t, pair)
    <3>1. CASE i = 1
      <4>1. pair \in t
        BY <1>1, <2>1, <3>1
      <4>2. \A j \in 1..Len(v) : ~Erases(v[j], pair)
        BY <1>1, <2>1, <3>1
      <4>. QED
        BY <4>1, <4>2 DEF WillHave
    <3>2. CASE i # 1
      <4>1. i - 1 \in 1..Len(v) /\ Adds(v[i-1], pair)
        BY <1>1, <1>2, <2>1, <3>2
      <4>2. \A j \in ((i-1)+1)..Len(v) : ~Erases(v[j], pair)
        BY <1>1, <2>1, <3>2
      <4>. QED
        BY <4>1, <4>2 DEF WillHave
    <3>. QED
      BY <3>1, <3>2
  <2>2. ASSUME pair \in s, \A j \in 1..n : ~Erases(w[j], pair)
        PROVE  WillHave(v, t, pair)
    <3>1. pair \in t
      BY <1>1, <2>2
    <3>2. \A j \in 1..Len(v) : ~Erases(v[j], pair)
      BY <1>1, <2>2
    <3>. QED
      BY <3>1, <3>2 DEF WillHave
  <2>. QED
    BY <1>3, <2>1, <2>2 DEF WillHave, n
<1>4. ASSUME WillLack(w, s, pair) PROVE WillLack(v, t, pair)
  <2>1. ASSUME NEW i \in 1..n, Erases(w[i], pair),
               \A j \in (i+1)..n : ~Adds(w[j], pair)
        PROVE  WillLack(v, t, pair)
    <3>1. CASE i = 1
      <4>1. pair \notin t
        BY <1>0, <1>1, <2>1, <3>1
      <4>2. \A j \in 1..Len(v) : ~Adds(v[j], pair)
        BY <1>1, <2>1, <3>1
      <4>. QED
        BY <4>1, <4>2 DEF WillLack
    <3>2. CASE i # 1
      <4>1. i - 1 \in 1..Len(v) /\ Erases(v[i-1], pair)
        BY <1>1, <1>2, <2>1, <3>2
      <4>2. \A j \in ((i-1)+1)..Len(v) : ~Adds(v[j], pair)
        BY <1>1, <2>1, <3>2
      <4>. QED
        BY <4>1, <4>2 DEF WillLack
    <3>. QED
      BY <3>1, <3>2
  <2>2. ASSUME pair \notin s, \A j \in 1..n : ~Adds(w[j], pair)
        PROVE  WillLack(v, t, pair)
    <3>1. pair \notin t
      BY <1>1, <2>2
    <3>2. \A j \in 1..Len(v) : ~Adds(v[j], pair)
      BY <1>1, <2>2
    <3>. QED
      BY <3>1, <3>2 DEF WillLack
  <2>. QED
    BY <1>4, <2>1, <2>2 DEF WillLack, n
<1>. QED
  BY <1>3, <1>4 DEF v

-----------------------------------------------------------------------------
(* Types.                                                                  *)

\* Where the elements of two sequences are in their concatenation.
LEMMA Concatenation ==
  ASSUME NEW S, NEW u \in Seq(S), NEW v \in Seq(S)
  PROVE  /\ u \o v \in Seq(S)
         /\ Len(u \o v) = Len(u) + Len(v)
         /\ \A k \in 1..Len(u) : (u \o v)[k] = u[k]
         /\ \A k \in (Len(u) + 1)..(Len(u) + Len(v)) :
              (u \o v)[k] = v[k - Len(u)]
BY ConcatProperties

\* The events of a list.
LEMMA ListEvents ==
  ASSUME TypeOK, List
  PROVE  \E n \in Nat : \E order \in [1..n -> Pods] :
           /\ \A i \in 1..n : pods[order[i]] \in PodObject
           /\ \A p \in Pods : pods[p] # Absent => \E i \in 1..n : order[i] = p
           /\ watch' \in Seq(Event)
           /\ Len(watch') = Len(watch) + n + 1
           /\ \A i \in 1..Len(watch) : watch'[i] = watch[i]
           /\ \A i \in 1..n : watch'[Len(watch) + i]
                                = [kind |-> "apply", pod |-> pods[order[i]]]
           /\ watch'[Len(watch) + n + 1] = [kind |-> "done", pod |-> Absent]
<1> DEFINE Present == {p \in Pods : pods[p] # Absent}
           n == Cardinality(Present)
<1>1. n \in Nat
  <2>1. IsFiniteSet(Present)
    BY PodWatchAssumption, FS_Subset DEF PodWatchAssumption
  <2>. QED
    BY <2>1, FS_CardinalityType
<1>2. PICK order \in Bijection(1..n, Present) :
        watch' = watch
                 \o [i \in 1..n |-> [kind |-> "apply", pod |-> pods[order[i]]]]
                 \o <<[kind |-> "done", pod |-> Absent]>>
  BY DEF List
<1>3. /\ order \in [1..n -> Present]
      /\ \A p \in Present : \E i \in 1..n : order[i] = p
  BY <1>2 DEF Bijection, Injection, Surjection
<1>4. \A p \in Present : pods[p] \in PodObject
  BY DEF TypeOK
<1> HIDE DEF n
<1> DEFINE apps == [i \in 1..n |-> [kind |-> "apply", pod |-> pods[order[i]]]]
           done == <<[kind |-> "done", pod |-> Absent]>>
<1>5. /\ apps \in Seq(Event) /\ Len(apps) = n
      /\ \A i \in 1..n : apps[i] = [kind |-> "apply", pod |-> pods[order[i]]]
  <2>1. \A i \in 1..n : [kind |-> "apply", pod |-> pods[order[i]]] \in Event
    BY <1>3, <1>4 DEF Event
  <2>2. apps \in [1..n -> Event]
    BY <2>1
  <2> HIDE DEF Event
  <2>. QED
    BY <1>1, <2>2
<1>6. done \in Seq(Event) /\ Len(done) = 1
      /\ done[1] = [kind |-> "done", pod |-> Absent]
  <2>1. [kind |-> "done", pod |-> Absent] \in Event
    BY DEF Event
  <2> HIDE DEF Event
  <2>. QED
    BY <2>1
<1>7. watch \in Seq(Event) /\ watch' = watch \o apps \o done
  BY <1>2 DEF TypeOK
<1> HIDE DEF apps, done, Event
<1>8. /\ watch' \in Seq(Event)
      /\ Len(watch') = Len(watch) + n + 1
      /\ \A i \in 1..Len(watch) : watch'[i] = watch[i]
      /\ \A i \in 1..n : watch'[Len(watch) + i] = apps[i]
      /\ watch'[Len(watch) + n + 1] = done[1]
  <2>1. Len(watch) \in Nat
    BY <1>7
  <2> DEFINE q == watch \o apps
  <2>2. /\ q \in Seq(Event)
        /\ Len(q) = Len(watch) + Len(apps)
        /\ \A k \in 1..Len(watch) : q[k] = watch[k]
        /\ \A k \in (Len(watch) + 1)..(Len(watch) + Len(apps)) :
             q[k] = apps[k - Len(watch)]
    BY <1>5, <1>7, Concatenation
  <2>3. watch' = q \o done
    BY <1>7
  <2> HIDE DEF q
  <2>4. /\ watch' \in Seq(Event)
        /\ Len(watch') = Len(q) + Len(done)
        /\ \A k \in 1..Len(q) : watch'[k] = q[k]
        /\ \A k \in (Len(q) + 1)..(Len(q) + Len(done)) :
             watch'[k] = done[k - Len(q)]
    <3>1. q \in Seq(Event) /\ done \in Seq(Event)
      BY <1>6, <2>2
    <3>. QED
      BY <2>3, <3>1, Concatenation
  <2>6. ASSUME NEW i \in 1..n PROVE watch'[Len(watch) + i] = apps[i]
    <3>1. /\ Len(watch) + i \in (Len(watch) + 1)..(Len(watch) + Len(apps))
          /\ Len(watch) + i \in 1..Len(q)
          /\ (Len(watch) + i) - Len(watch) = i
      BY <1>1, <1>5, <2>1, <2>2
    <3>. QED
      BY <2>2, <2>4, <3>1
  <2>7. watch'[Len(watch) + n + 1] = done[1]
    <3>1. /\ Len(watch) + n + 1 \in (Len(q) + 1)..(Len(q) + Len(done))
          /\ (Len(watch) + n + 1) - Len(q) = 1
      BY <1>1, <1>5, <1>6, <2>1, <2>2
    <3>. QED
      BY <2>4, <3>1
  <2>8. Len(watch') = Len(watch) + n + 1
    BY <1>1, <1>5, <1>6, <2>1, <2>2, <2>4
  <2>9. ASSUME NEW i \in 1..Len(watch) PROVE watch'[i] = watch[i]
    <3>1. i \in 1..Len(q)
      BY <1>1, <1>5, <2>1, <2>2
    <3>. QED
      BY <2>2, <2>4, <3>1
  <2>. QED
    BY <2>4, <2>6, <2>7, <2>8, <2>9
<1>9. order \in [1..n -> Pods]
  BY <1>3
<1>10. \A i \in 1..n : pods[order[i]] \in PodObject
  BY <1>3, <1>4
<1>11. \A p \in Pods : pods[p] # Absent => \E i \in 1..n : order[i] = p
  BY <1>3
<1>12. \A i \in 1..n : watch'[Len(watch) + i]
                          = [kind |-> "apply", pod |-> pods[order[i]]]
  BY <1>5, <1>8
<1>13. watch'[Len(watch) + n + 1] = [kind |-> "done", pod |-> Absent]
  BY <1>6, <1>8
<1> HIDE DEF Present
<1>. QED
  BY <1>1, <1>8, <1>9, <1>10, <1>11, <1>12, <1>13

LEMMA HandleType ==
  ASSUME TypeOK, NEW kind, Handle(kind)
  PROVE  /\ watch \in Seq(Event) /\ watch # <<>>
         /\ Head(watch) \in Event /\ Head(watch).kind = kind
         /\ watch' = Tail(watch) /\ watch' \in Seq(Event)
<1>1. watch \in Seq(Event) /\ watch # <<>> /\ watch' = Tail(watch)
      /\ Head(watch).kind = kind
  BY DEF TypeOK, Handle
<1> HIDE DEF Event
<1>. QED
  BY <1>1

LEMMA InitEvent == <<[kind |-> "init", pod |-> Absent]>> \in Seq(Event)
<1>1. [kind |-> "init", pod |-> Absent] \in Event
  BY DEF Event
<1> HIDE DEF Event
<1>. QED
  BY <1>1

LEMMA SentType ==
  ASSUME TypeOK, NEW kind \in {"apply", "delete"}, NEW pod \in PodObject,
         Sent(kind, pod)
  PROVE  /\ [kind |-> kind, pod |-> pod] \in Event
         /\ watch \in Seq(Event) /\ watch' \in Seq(Event)
         /\ watch' = IF listing THEN watch
                     ELSE Append(watch, [kind |-> kind, pod |-> pod])
<1>1. /\ [kind |-> kind, pod |-> pod] \in Event
      /\ watch \in Seq(Event)
  BY DEF Event, TypeOK
<1>2. watch' = IF listing THEN watch
               ELSE Append(watch, [kind |-> kind, pod |-> pod])
  BY DEF Sent
<1> HIDE DEF Event
<1>. QED
  BY <1>1, <1>2

LEMMA ResolveType ==
  ASSUME NEW ip, NEW name \in Resolve(ip)
  PROVE  /\ name \in Names
         /\ name = Unknown \/ <<name, ip>> \in snapshot
BY DEF Resolve, Names

LEMMA TypeInit == Init => TypeOK
<1> SUFFICES ASSUME Init PROVE TypeOK
  OBVIOUS
<1>1. ring \in Seq(Packet)
  BY DEF Init
<1>. QED
  BY <1>1, InitEvent, PodWatchAssumption
     DEF Init, TypeOK, PodWatchAssumption

LEMMA TakeType ==
  ASSUME TypeOK, TakePacket
  PROVE  /\ ring \in Seq(Packet) /\ ring # <<>>
         /\ Head(ring) \in Packet /\ ring' \in Seq(Packet)
         /\ ring' = Tail(ring)
<1>1. ring \in Seq(Packet) /\ ring # <<>> /\ ring' = Tail(ring)
  BY DEF TypeOK, TakePacket
<1> HIDE DEF Packet
<1>. QED
  BY <1>1

LEMMA TypeNext == TypeOK /\ [Next]_vars => TypeOK'
<1> SUFFICES ASSUME TypeOK, [Next]_vars PROVE TypeOK'
  OBVIOUS
<1>1. ASSUME NEW p \in Pods, NEW new \in PodObject, SetPod(p, new)
      PROVE  TypeOK'
  <2>1. watch' \in Seq(Event)
    BY <1>1, SentType DEF SetPod
  <2>2. changes' \in 0..MaxChanges
    BY <1>1, PodWatchAssumption DEF SetPod, TypeOK, PodWatchAssumption
  <2>3. pods' \in [Pods -> PodObject \cup {Absent}]
    BY <1>1 DEF SetPod, TypeOK
  <2>. QED
    BY <1>1, <2>1, <2>2, <2>3 DEF SetPod, TypeOK, packetVars
<1>2. ASSUME NEW p \in Pods, RemovePod(p) PROVE TypeOK'
  <2>0. pods[p] \in PodObject
    BY <1>2 DEF RemovePod, TypeOK
  <2>1. watch' \in Seq(Event)
    BY <1>2, <2>0, SentType DEF RemovePod
  <2>2. changes' \in 0..MaxChanges
    BY <1>2, PodWatchAssumption DEF RemovePod, TypeOK, PodWatchAssumption
  <2>3. pods' \in [Pods -> PodObject \cup {Absent}]
    BY <1>2 DEF RemovePod, TypeOK
  <2>. QED
    BY <1>2, <2>1, <2>2, <2>3 DEF RemovePod, TypeOK, packetVars
<1>3. ASSUME NEW p \in Pods, NEW dst \in Addrs, Log(p, dst) PROVE TypeOK'
  <2>1. [src |-> pods[p][2], dst |-> dst, from |-> pods[p][1]] \in Packet
    BY <1>3 DEF Log, Packet, Pairs
  <2>2. ring \in Seq(Packet)
        /\ ring' = Append(ring, [src |-> pods[p][2], dst |-> dst,
                                 from |-> pods[p][1]])
    BY <1>3 DEF TypeOK, Log
  <2>3. ring' \in Seq(Packet)
    <3> HIDE DEF Packet
    <3>. QED
      BY <2>1, <2>2
  <2>4. packets' \in 0..MaxPackets
    BY <1>3, PodWatchAssumption DEF Log, TypeOK, PodWatchAssumption
  <2>. QED
    BY <1>3, <2>3, <2>4 DEF Log, TypeOK, historyVars
<1>4. CASE WatchFails
  BY <1>4, InitEvent, PodWatchAssumption
     DEF WatchFails, TypeOK, packetVars, historyVars, PodWatchAssumption
<1>5. CASE List
  <2>1. watch' \in Seq(Event)
    BY <1>5, ListEvents
  <2>. QED
    BY <1>5, <2>1 DEF List, TypeOK, packetVars
<1>6. CASE Apply
  BY <1>6, HandleType DEF Apply, Handle, TypeOK, packetVars, historyVars
<1>7. CASE Delete
  BY <1>7, HandleType DEF Delete, Handle, TypeOK, packetVars, historyVars
<1>8. CASE Clear
  BY <1>8, HandleType DEF Clear, Handle, TypeOK, packetVars, historyVars
<1>9. CASE InitDone
  BY <1>9, HandleType DEF InitDone, Handle, TypeOK, packetVars, historyVars
<1>10. CASE Restart
  <2>1. ring' \in Seq(Packet)
    BY <1>10 DEF Restart
  <2>. QED
    BY <1>10, <2>1, InitEvent, PodWatchAssumption
       DEF Restart, TypeOK, historyVars, PodWatchAssumption
<1>11. CASE ReadSource
  <2>1. ring' \in Seq(Packet) /\ Head(ring) \in Packet
    BY <1>11, TakeType DEF ReadSource
  <2>2. reader' \subseteq [packet : Packet, source : Names]
    <3>1. \/ reader' = reader
          \/ \E source \in Resolve(Head(ring).src) :
               reader' = {[packet |-> Head(ring), source |-> source]}
      BY <1>11 DEF ReadSource
    <3>2. \A source \in Resolve(Head(ring).src) : source \in Names
      BY ResolveType
    <3>3. reader \subseteq [packet : Packet, source : Names]
      BY DEF TypeOK
    <3> HIDE DEF Packet, Names
    <3>. QED
      BY <2>1, <3>1, <3>2, <3>3
  <2>. QED
    BY <1>11, <2>1, <2>2 DEF ReadSource, TakePacket, TypeOK, historyVars
<1>12. CASE Report
  <2>0. PICK r \in reader :
          \E destination \in Resolve(r.packet.dst) :
            /\ reader' = {}
            /\ reported' = IF r.source = Unknown /\ destination = Unknown
                           THEN reported
                           ELSE {[packet |-> r.packet, source |-> r.source,
                                  destination |-> destination]}
    BY <1>12 DEF Report
  <2>1. PICK destination \in Resolve(r.packet.dst) :
          /\ reader' = {}
          /\ reported' = IF r.source = Unknown /\ destination = Unknown
                         THEN reported
                         ELSE {[packet |-> r.packet, source |-> r.source,
                                destination |-> destination]}
    BY <2>0
  <2>2. destination \in Names
    BY ResolveType
  <2>3. r \in [packet : Packet, source : Names]
    BY DEF TypeOK
  <2>4. reported' \subseteq Record
    BY <2>1, <2>2, <2>3 DEF TypeOK, Record
  <2>. QED
    BY <1>12, <2>1, <2>4 DEF Report, TypeOK, historyVars
<1>13. CASE UNCHANGED vars
  BY <1>13 DEF vars, packetVars, historyVars, TypeOK
<1>. QED
  BY <1>1, <1>2, <1>3, <1>4, <1>5, <1>6, <1>7, <1>8, <1>9, <1>10, <1>11,
     <1>12, <1>13 DEF Next

\* Every variable of the watcher and of the reports has its type, for every
\* set of pods, services and addresses.
THEOREM TypeCorrect == Spec => []TypeOK
<1>1. Init => TypeOK
  BY TypeInit
<1>2. TypeOK /\ [Next]_vars => TypeOK'
  BY TypeNext
<1>. QED
  BY <1>1, <1>2, PTL DEF Spec

-----------------------------------------------------------------------------
(* The snapshot follows the cluster.                                       *)

\* With a watch, the pending events will bring in the pairs of the pods that
\* are there.
Comes ==
  ~listing => \A p \in Pods :
                pods[p] \in Pairs /\ pods[p] \notin doubled
                  => WillHave(watch, snapshot, pods[p])

\* They will take out what no pod has; without a watch, they will take out
\* everything.
Goes ==
  \A pair \in Pairs :
    listing \/ (pair \notin moved /\ \A p \in Pods : pods[p] # pair)
      => WillLack(watch, snapshot, pair)

FollowInv == TypeOK /\ Comes /\ Goes

LEMMA StartLacks ==
  ASSUME NEW s, NEW pair
  PROVE  WillLack(<<[kind |-> "init", pod |-> Absent]>>, s, pair)
BY DEF WillLack, Erases

LEMMA FollowInit == Init => FollowInv
<1> SUFFICES ASSUME Init PROVE FollowInv
  OBVIOUS
<1>1. TypeOK
  BY TypeInit
<1>2. Comes
  BY DEF Init, Comes
<1>3. Goes
  BY StartLacks DEF Init, Goes
<1>. QED
  BY <1>1, <1>2, <1>3 DEF FollowInv

\* Handling an event keeps both, given what it does to the snapshot.
LEMMA HandleFollows ==
  ASSUME FollowInv, NEW kind, Handle(kind),
         \A pair \in Pairs :
           pair \in snapshot' <=> \/ Adds(Head(watch), pair)
                                  \/ /\ pair \in snapshot
                                     /\ ~Erases(Head(watch), pair)
  PROVE  Comes' /\ Goes'
<1>1. /\ watch \in Seq(Event) /\ watch # <<>> /\ watch' = Tail(watch)
      /\ UNCHANGED <<pods, listing, doubled, moved>>
  BY HandleType DEF FollowInv, Handle, historyVars
<1>2. \A pair \in Pairs :
        /\ WillHave(watch, snapshot, pair) => WillHave(watch', snapshot', pair)
        /\ WillLack(watch, snapshot, pair) => WillLack(watch', snapshot', pair)
  <2> SUFFICES ASSUME NEW pair \in Pairs
               PROVE  /\ WillHave(watch, snapshot, pair)
                           => WillHave(Tail(watch), snapshot', pair)
                      /\ WillLack(watch, snapshot, pair)
                           => WillLack(Tail(watch), snapshot', pair)
    BY <1>1
  <2>. QED
    BY <1>1, HandleKeeps
<1>3. Comes'
  BY <1>1, <1>2 DEF FollowInv, Comes
<1>4. Goes'
  BY <1>1, <1>2 DEF FollowInv, Goes
<1>. QED
  BY <1>3, <1>4

LEMMA SetPodFollows ==
  ASSUME FollowInv, NEW p \in Pods, NEW new \in PodObject, SetPod(p, new)
  PROVE  Comes' /\ Goes'
<1> DEFINE e == [kind |-> "apply", pod |-> new]
<1>1. /\ e \in Event /\ watch \in Seq(Event)
      /\ watch' = IF listing THEN watch ELSE Append(watch, e)
      /\ UNCHANGED <<listing, snapshot, doubled>>
      /\ moved' = moved \cup ({pods[p]} \cap Pairs)
      /\ pods' = [pods EXCEPT ![p] = new]
      /\ pods \in [Pods -> PodObject \cup {Absent}]
  BY SentType DEF SetPod, FollowInv, TypeOK
<1>2. Comes'
  <2> SUFFICES ASSUME ~listing, NEW q \in Pods, pods'[q] \in Pairs,
                      pods'[q] \notin doubled
               PROVE  WillHave(Append(watch, e), snapshot, pods'[q])
    BY <1>1 DEF Comes
  <2>1. CASE q = p
    <3>1. Adds(e, pods'[q])
      BY <1>1, <2>1 DEF Adds
    <3> HIDE DEF e
    <3>. QED
      BY <1>1, <3>1, AppendKeeps
  <2>2. CASE q # p
    <3>1. WillHave(watch, snapshot, pods[q]) /\ pods'[q] = pods[q]
      BY <1>1, <2>2 DEF FollowInv, Comes
    <3>2. ~Erases(e, pods[q])
      BY DEF Erases
    <3> HIDE DEF e
    <3>. QED
      BY <1>1, <3>1, <3>2, AppendKeeps
  <2>. QED
    BY <2>1, <2>2
<1>3. Goes'
  <2> SUFFICES ASSUME NEW pair \in Pairs,
                      listing \/ (pair \notin moved'
                                  /\ \A q \in Pods : pods'[q] # pair)
               PROVE  WillLack(watch', snapshot, pair)
    BY <1>1 DEF Goes
  <2>1. CASE listing
    BY <1>1, <2>1 DEF FollowInv, Goes
  <2>2. CASE ~listing
    <3>1. new # pair
      BY <1>1, <2>2
    <3>2. pair \notin moved /\ \A q \in Pods : pods[q] # pair
      BY <1>1, <2>2
    <3>3. WillLack(watch, snapshot, pair)
      BY <3>2 DEF FollowInv, Goes
    <3>4. ~Adds(e, pair)
      BY <3>1 DEF Adds
    <3> HIDE DEF e
    <3>. QED
      BY <1>1, <2>2, <3>3, <3>4, AppendKeeps
  <2>. QED
    BY <2>1, <2>2
<1>. QED
  BY <1>2, <1>3

LEMMA RemovePodFollows ==
  ASSUME FollowInv, NEW p \in Pods, RemovePod(p)
  PROVE  Comes' /\ Goes'
<1> DEFINE e == [kind |-> "delete", pod |-> pods[p]]
<1>0. pods[p] \in PodObject
  BY DEF RemovePod, FollowInv, TypeOK
<1>1. /\ e \in Event /\ watch \in Seq(Event)
      /\ watch' = IF listing THEN watch ELSE Append(watch, e)
      /\ UNCHANGED <<listing, snapshot, moved>>
      /\ doubled' = IF \E q \in Pods \ {p} : pods[q] = pods[p]
                    THEN doubled \cup ({pods[p]} \cap Pairs) ELSE doubled
      /\ pods' = [pods EXCEPT ![p] = Absent]
      /\ pods \in [Pods -> PodObject \cup {Absent}]
  BY <1>0, SentType DEF RemovePod, FollowInv, TypeOK
<1>2. Comes'
  <2> SUFFICES ASSUME ~listing, NEW q \in Pods, pods'[q] \in Pairs,
                      pods'[q] \notin doubled'
               PROVE  WillHave(Append(watch, e), snapshot, pods'[q])
    BY <1>1 DEF Comes
  <2>1. q # p
    BY <1>1, PodWatchAssumption DEF PodWatchAssumption
  <2>2. pods'[q] = pods[q] /\ pods[q] # pods[p] /\ pods[q] \notin doubled
    BY <1>1, <2>1
  <2>3. WillHave(watch, snapshot, pods[q])
    BY <2>2 DEF FollowInv, Comes
  <2>4. ~Erases(e, pods[q])
    BY <2>2 DEF Erases
  <2> HIDE DEF e
  <2>. QED
    BY <1>1, <2>2, <2>3, <2>4, AppendKeeps
<1>3. Goes'
  <2> SUFFICES ASSUME NEW pair \in Pairs,
                      listing \/ (pair \notin moved
                                  /\ \A q \in Pods : pods'[q] # pair)
               PROVE  WillLack(watch', snapshot, pair)
    BY <1>1 DEF Goes
  <2>1. CASE listing
    BY <1>1, <2>1 DEF FollowInv, Goes
  <2>2. CASE ~listing /\ pods[p] = pair
    <3>1. Erases(e, pair)
      BY <2>2 DEF Erases
    <3> HIDE DEF e
    <3>. QED
      BY <1>1, <2>2, <3>1, AppendKeeps
  <2>3. CASE ~listing /\ pods[p] # pair
    <3>1. pair \notin moved /\ \A q \in Pods : pods[q] # pair
      BY <1>1, <2>3
    <3>2. WillLack(watch, snapshot, pair)
      BY <3>1 DEF FollowInv, Goes
    <3>3. ~Adds(e, pair)
      BY DEF Adds
    <3> HIDE DEF e
    <3>. QED
      BY <1>1, <2>3, <3>2, <3>3, AppendKeeps
  <2>. QED
    BY <2>1, <2>2, <2>3
<1>. QED
  BY <1>2, <1>3

LEMMA ListFollows ==
  ASSUME FollowInv, List
  PROVE  Comes' /\ Goes'
<1>1. /\ listing /\ ~listing' /\ UNCHANGED <<pods, snapshot>>
      /\ watch \in Seq(Event) /\ Len(watch) \in Nat
  <2>1. watch \in Seq(Event)
    BY DEF FollowInv, TypeOK
  <2> HIDE DEF Event
  <2>. QED
    BY <2>1 DEF List
<1>2. PICK n \in Nat : \E order \in [1..n -> Pods] :
           /\ \A i \in 1..n : pods[order[i]] \in PodObject
           /\ \A p \in Pods : pods[p] # Absent => \E i \in 1..n : order[i] = p
           /\ watch' \in Seq(Event)
           /\ Len(watch') = Len(watch) + n + 1
           /\ \A i \in 1..Len(watch) : watch'[i] = watch[i]
           /\ \A i \in 1..n : watch'[Len(watch) + i]
                                = [kind |-> "apply", pod |-> pods[order[i]]]
           /\ watch'[Len(watch) + n + 1] = [kind |-> "done", pod |-> Absent]
  BY ListEvents DEF FollowInv
<1>3. PICK order \in [1..n -> Pods] :
           /\ \A i \in 1..n : pods[order[i]] \in PodObject
           /\ \A p \in Pods : pods[p] # Absent => \E i \in 1..n : order[i] = p
           /\ Len(watch') = Len(watch) + n + 1
           /\ \A i \in 1..Len(watch) : watch'[i] = watch[i]
           /\ \A i \in 1..n : watch'[Len(watch) + i]
                                = [kind |-> "apply", pod |-> pods[order[i]]]
           /\ watch'[Len(watch) + n + 1] = [kind |-> "done", pod |-> Absent]
  BY <1>2
<1>4. ASSUME NEW k \in (Len(watch) + 1)..Len(watch')
      PROVE  \/ \E i \in 1..n :
                  watch'[k] = [kind |-> "apply", pod |-> pods[order[i]]]
             \/ watch'[k] = [kind |-> "done", pod |-> Absent]
  <2>1. CASE k = Len(watch) + n + 1
    BY <1>3, <2>1
  <2>2. CASE k # Len(watch) + n + 1
    <3>1. k - Len(watch) \in 1..n /\ Len(watch) + (k - Len(watch)) = k
      BY <1>1, <1>3, <2>2
    <3>. QED
      BY <1>3, <3>1
  <2>. QED
    BY <2>1, <2>2
<1>5. Comes'
  <2> SUFFICES ASSUME NEW p \in Pods, pods[p] \in Pairs
               PROVE  WillHave(watch', snapshot, pods[p])
    BY <1>1 DEF Comes
  <2>1. pods[p] # Absent
    BY PodWatchAssumption DEF PodWatchAssumption
  <2>2. PICK i \in 1..n : order[i] = p
    BY <1>3, <2>1
  <2> DEFINE m == Len(watch) + i
  <2>3. m \in 1..Len(watch') /\ Adds(watch'[m], pods[p])
    <3>1. m \in 1..Len(watch')
      BY <1>1, <1>3
    <3>2. watch'[m] = [kind |-> "apply", pod |-> pods[p]]
      BY <1>3, <2>2
    <3>. QED
      BY <3>1, <3>2 DEF Adds
  <2>4. \A k \in (m+1)..Len(watch') : ~Erases(watch'[k], pods[p])
    <3> SUFFICES ASSUME NEW k \in (m+1)..Len(watch')
                 PROVE  ~Erases(watch'[k], pods[p])
      OBVIOUS
    <3>1. k \in (Len(watch) + 1)..Len(watch')
      BY <1>1, <1>3
    <3>2. CASE \E h \in 1..n :
                  watch'[k] = [kind |-> "apply", pod |-> pods[order[h]]]
      BY <3>2 DEF Erases
    <3>3. CASE watch'[k] = [kind |-> "done", pod |-> Absent]
      BY <3>3 DEF Erases
    <3>. QED
      BY <1>4, <3>1, <3>2, <3>3
  <2> HIDE DEF m
  <2>. QED
    BY <2>3, <2>4 DEF WillHave
<1>6. Goes'
  <2> SUFFICES ASSUME NEW pair \in Pairs, \A p \in Pods : pods[p] # pair
               PROVE  WillLack(watch', snapshot, pair)
    BY <1>1 DEF Goes
  <2>1. WillLack(watch, snapshot, pair)
    BY <1>1 DEF FollowInv, Goes
  <2>2. \A k \in (Len(watch) + 1)..Len(watch') : ~Adds(watch'[k], pair)
    <3> SUFFICES ASSUME NEW k \in (Len(watch) + 1)..Len(watch')
                 PROVE  ~Adds(watch'[k], pair)
      OBVIOUS
    <3>1. CASE \E i \in 1..n :
                  watch'[k] = [kind |-> "apply", pod |-> pods[order[i]]]
      BY <3>1 DEF Adds
    <3>2. CASE watch'[k] = [kind |-> "done", pod |-> Absent]
      BY <3>2 DEF Adds
    <3>. QED
      BY <1>4, <3>1, <3>2
  <2>3. ASSUME NEW i \in 1..Len(watch), Erases(watch[i], pair),
               \A j \in (i+1)..Len(watch) : ~Adds(watch[j], pair)
        PROVE  WillLack(watch', snapshot, pair)
    <3>1. i \in 1..Len(watch') /\ Erases(watch'[i], pair)
      BY <1>1, <1>3, <2>3
    <3>2. ASSUME NEW j \in (i+1)..Len(watch') PROVE ~Adds(watch'[j], pair)
      <4>1. CASE j <= Len(watch)
        <5>1. j \in 1..Len(watch) /\ j \in (i+1)..Len(watch)
          BY <1>1, <1>3, <4>1
        <5>. QED
          BY <1>3, <2>3, <5>1
      <4>2. CASE ~(j <= Len(watch))
        <5>1. j \in (Len(watch) + 1)..Len(watch')
          BY <1>1, <1>3, <4>2
        <5>. QED
          BY <2>2, <5>1
      <4>. QED
        BY <4>1, <4>2
    <3>. QED
      BY <3>1, <3>2 DEF WillLack
  <2>4. ASSUME pair \notin snapshot,
               \A j \in 1..Len(watch) : ~Adds(watch[j], pair)
        PROVE  WillLack(watch', snapshot, pair)
    <3>1. ASSUME NEW j \in 1..Len(watch') PROVE ~Adds(watch'[j], pair)
      <4>1. CASE j \in 1..Len(watch)
        BY <1>3, <2>4, <4>1
      <4>2. CASE j \notin 1..Len(watch)
        <5>1. j \in (Len(watch) + 1)..Len(watch')
          BY <1>1, <1>3, <4>2
        <5>. QED
          BY <2>2, <5>1
      <4>. QED
        BY <4>1, <4>2
    <3>. QED
      BY <2>4, <3>1 DEF WillLack
  <2>. QED
    BY <2>1, <2>3, <2>4 DEF WillLack
<1>. QED
  BY <1>5, <1>6

LEMMA FollowNext == FollowInv /\ [Next]_vars => FollowInv'
<1> SUFFICES ASSUME FollowInv, [Next]_vars PROVE Comes' /\ Goes'
  BY TypeNext DEF FollowInv
<1>0. TypeOK
  BY DEF FollowInv
<1>1. ASSUME NEW p \in Pods, NEW new \in PodObject, SetPod(p, new)
      PROVE  Comes' /\ Goes'
  BY <1>1, SetPodFollows
<1>2. ASSUME NEW p \in Pods, RemovePod(p) PROVE Comes' /\ Goes'
  BY <1>2, RemovePodFollows
<1>3. CASE List
  BY <1>3, ListFollows
<1>4. CASE WatchFails \/ Restart
  <2>1. /\ listing' /\ watch' = <<[kind |-> "init", pod |-> Absent]>>
    BY <1>4 DEF WatchFails, Restart
  <2>. QED
    BY <2>1, StartLacks DEF Comes, Goes
<1>5. CASE Apply
  <2>1. Handle("apply") /\ Head(watch).kind = "apply"
    BY <1>5 DEF Apply, Handle
  <2>2. \A pair \in Pairs :
          pair \in snapshot' <=> \/ Adds(Head(watch), pair)
                                 \/ /\ pair \in snapshot
                                    /\ ~Erases(Head(watch), pair)
    BY <1>5, <2>1 DEF Apply, Adds, Erases
  <2>. QED
    BY <2>1, <2>2, HandleFollows
<1>6. CASE Delete
  <2>1. Handle("delete") /\ Head(watch).kind = "delete"
    BY <1>6 DEF Delete, Handle
  <2>2. \A pair \in Pairs :
          pair \in snapshot' <=> \/ Adds(Head(watch), pair)
                                 \/ /\ pair \in snapshot
                                    /\ ~Erases(Head(watch), pair)
    BY <1>6, <2>1 DEF Delete, Adds, Erases
  <2>. QED
    BY <2>1, <2>2, HandleFollows
<1>7. CASE Clear
  <2>1. Handle("init") /\ Head(watch).kind = "init"
    BY <1>7 DEF Clear, Handle
  <2>2. \A pair \in Pairs :
          pair \in snapshot' <=> \/ Adds(Head(watch), pair)
                                 \/ /\ pair \in snapshot
                                    /\ ~Erases(Head(watch), pair)
    BY <1>7, <2>1 DEF Clear, Adds, Erases
  <2>. QED
    BY <2>1, <2>2, HandleFollows
<1>8. CASE InitDone
  <2>1. Handle("done") /\ Head(watch).kind = "done"
    BY <1>8 DEF InitDone, Handle
  <2>2. \A pair \in Pairs :
          pair \in snapshot' <=> \/ Adds(Head(watch), pair)
                                 \/ /\ pair \in snapshot
                                    /\ ~Erases(Head(watch), pair)
    BY <1>8, <2>1 DEF InitDone, Adds, Erases
  <2>. QED
    BY <2>1, <2>2, HandleFollows
<1>9. ASSUME UNCHANGED <<pods, listing, watch, snapshot, moved, doubled>>
      PROVE  Comes' /\ Goes'
  BY <1>9 DEF FollowInv, Comes, Goes
<1>10. ASSUME NEW p \in Pods, NEW dst \in Addrs, Log(p, dst)
       PROVE  UNCHANGED <<pods, listing, watch, snapshot, moved, doubled>>
  BY <1>10 DEF Log, historyVars
<1>11. CASE ReadSource
  BY <1>9, <1>11 DEF ReadSource, TakePacket, historyVars
<1>12. CASE Report
  BY <1>9, <1>12 DEF Report, historyVars
<1>13. CASE UNCHANGED vars
  BY <1>9, <1>13 DEF vars, historyVars
<1>. QED
  BY <1>1, <1>2, <1>3, <1>4, <1>5, <1>6, <1>7, <1>8, <1>9, <1>10, <1>11,
     <1>12, <1>13 DEF Next

THEOREM Follows == Spec => []FollowInv
<1>1. Init => FollowInv
  BY FollowInit
<1>2. FollowInv /\ [Next]_vars => FollowInv'
  BY FollowNext
<1>. QED
  BY <1>1, <1>2, PTL DEF Spec

\* A watcher that has caught up lists every pod, whatever watches failed, but
\* for a pod that shared its pair with one that was deleted (PodWatcher::run).
THEOREM SnapshotComplete == Spec => []NoneMissing
<1>1. FollowInv => NoneMissing
  <2> SUFFICES ASSUME FollowInv, CaughtUp, NEW p \in Pods, pods[p] \in Pairs,
                      pods[p] \notin doubled
               PROVE  pods[p] \in snapshot
    BY DEF NoneMissing
  <2>1. WillHave(<<>>, snapshot, pods[p])
    BY DEF FollowInv, Comes, CaughtUp
  <2>. QED
    BY <2>1 DEF WillHave
<1>. QED
  BY <1>1, Follows, PTL

\* It lists nothing but pods and what a pod has changed from since the last
\* list (PodWatcher::run, Event::Apply, Event::Init).
THEOREM SnapshotSound == Spec => []OnlyMovesLinger
<1>1. FollowInv => OnlyMovesLinger
  <2> SUFFICES ASSUME FollowInv, CaughtUp, NEW pair \in snapshot,
                      pair \notin moved, \A p \in Pods : pods[p] # pair
               PROVE  FALSE
    BY DEF OnlyMovesLinger
  <2>1. pair \in Pairs
    BY DEF FollowInv, TypeOK
  <2>2. WillLack(<<>>, snapshot, pair)
    BY <2>1 DEF FollowInv, Goes, CaughtUp
  <2>. QED
    BY <2>2 DEF WillLack
<1>. QED
  BY <1>1, Follows, PTL

-----------------------------------------------------------------------------
(* The reports.                                                            *)

\* Whatever the watcher knows, is about to learn or has been asked has been
\* true of the cluster.
HadInv ==
  /\ TypeOK
  /\ \A p \in Pods : pods[p] \in Pairs => pods[p] \in had
  /\ \A i \in 1..Len(watch) :
       watch[i].kind = "apply" /\ watch[i].pod \in Pairs => watch[i].pod \in had
  /\ snapshot \subseteq had
  /\ \A r \in reader : r.source = Unknown \/ <<r.source, r.packet.src>> \in had
  /\ \A r \in reported :
       /\ r.source = Unknown \/ <<r.source, r.packet.src>> \in had
       /\ r.destination = Unknown \/ <<r.destination, r.packet.dst>> \in had

LEMMA HadInit == Init => HadInv
<1> SUFFICES ASSUME Init PROVE HadInv
  OBVIOUS
<1>1. TypeOK
  BY TypeInit
<1>2. \A i \in 1..Len(watch) : watch[i].kind # "apply"
  BY DEF Init
<1>. QED
  BY <1>1, <1>2 DEF Init, HadInv

LEMMA HandleHad ==
  ASSUME HadInv, NEW kind, Handle(kind), TypeOK', snapshot' \subseteq had
  PROVE  HadInv'
<1>1. /\ watch \in Seq(Event) /\ watch # <<>> /\ watch' = Tail(watch)
      /\ UNCHANGED <<pods, had, reader, reported>>
  BY HandleType DEF HadInv, Handle, packetVars, historyVars
<1>2. /\ Len(watch) \in Nat
      /\ Len(watch') = Len(watch) - 1
      /\ \A i \in 1..Len(watch') : watch'[i] = watch[i+1]
  <2> HIDE DEF Event
  <2>. QED
    BY <1>1
<1>3. \A i \in 1..Len(watch') :
        watch'[i].kind = "apply" /\ watch'[i].pod \in Pairs
          => watch'[i].pod \in had
  BY <1>2 DEF HadInv
<1>. QED
  BY <1>1, <1>3 DEF HadInv

LEMMA SentHad ==
  ASSUME HadInv, NEW kind \in {"apply", "delete"}, NEW pod \in PodObject,
         Sent(kind, pod), had \subseteq had',
         kind = "apply" /\ pod \in Pairs => pod \in had'
  PROVE  \A i \in 1..Len(watch') :
           watch'[i].kind = "apply" /\ watch'[i].pod \in Pairs
             => watch'[i].pod \in had'
<1> DEFINE e == [kind |-> kind, pod |-> pod]
<1>1. /\ e \in Event /\ watch \in Seq(Event)
      /\ watch' = IF listing THEN watch ELSE Append(watch, e)
  BY SentType DEF HadInv
<1>2. \A i \in 1..Len(watch) :
        watch[i].kind = "apply" /\ watch[i].pod \in Pairs
          => watch[i].pod \in had'
  BY DEF HadInv
<1>3. CASE listing
  BY <1>1, <1>2, <1>3
<1>4. CASE ~listing
  <2>1. /\ Len(watch) \in Nat
        /\ Len(watch') = Len(watch) + 1
        /\ watch'[Len(watch) + 1] = e
        /\ \A i \in 1..Len(watch) : watch'[i] = watch[i]
    <3> HIDE DEF e, Event
    <3>. QED
      BY <1>1, <1>4
  <2> SUFFICES ASSUME NEW i \in 1..Len(watch'),
                      watch'[i].kind = "apply", watch'[i].pod \in Pairs
               PROVE  watch'[i].pod \in had'
    OBVIOUS
  <2>2. CASE i = Len(watch) + 1
    BY <2>1, <2>2
  <2>3. CASE i # Len(watch) + 1
    <3>1. i \in 1..Len(watch)
      BY <2>1, <2>3
    <3>. QED
      BY <1>2, <2>1, <3>1
  <2>. QED
    BY <2>2, <2>3
<1>. QED
  BY <1>3, <1>4

LEMMA HadNext == HadInv /\ [Next]_vars => HadInv'
<1> SUFFICES ASSUME HadInv, [Next]_vars PROVE HadInv'
  OBVIOUS
<1>0. TypeOK /\ TypeOK'
  BY TypeNext DEF HadInv
<1>1. ASSUME NEW p \in Pods, NEW new \in PodObject, SetPod(p, new)
      PROVE  HadInv'
  <2>1. /\ had' = had \cup ({new} \cap Pairs) /\ Sent("apply", new)
        /\ UNCHANGED <<snapshot, reader, reported>>
        /\ pods' = [pods EXCEPT ![p] = new]
    BY <1>1 DEF SetPod, packetVars
  <2>2. \A i \in 1..Len(watch') :
          watch'[i].kind = "apply" /\ watch'[i].pod \in Pairs
            => watch'[i].pod \in had'
    BY <2>1, SentHad
  <2>3. \A q \in Pods : pods'[q] \in Pairs => pods'[q] \in had'
    BY <1>0, <2>1 DEF HadInv, TypeOK
  <2>. QED
    BY <1>0, <2>1, <2>2, <2>3 DEF HadInv
<1>2. ASSUME NEW p \in Pods, RemovePod(p) PROVE HadInv'
  <2>1. /\ had' = had /\ Sent("delete", pods[p])
        /\ UNCHANGED <<snapshot, reader, reported>>
        /\ pods' = [pods EXCEPT ![p] = Absent]
        /\ pods[p] \in PodObject
    BY <1>0, <1>2 DEF RemovePod, packetVars, TypeOK
  <2>2. \A i \in 1..Len(watch') :
          watch'[i].kind = "apply" /\ watch'[i].pod \in Pairs
            => watch'[i].pod \in had'
    BY <2>1, SentHad
  <2>3. \A q \in Pods : pods'[q] \in Pairs => pods'[q] \in had'
    BY <1>0, <2>1, PodWatchAssumption DEF HadInv, TypeOK, PodWatchAssumption
  <2>. QED
    BY <1>0, <2>1, <2>2, <2>3 DEF HadInv
<1>3. CASE List
  <2>1. UNCHANGED <<pods, had, snapshot, reader, reported>>
    BY <1>3 DEF List, packetVars
  <2>2. PICK n \in Nat : \E order \in [1..n -> Pods] :
           /\ Len(watch') = Len(watch) + n + 1
           /\ \A i \in 1..Len(watch) : watch'[i] = watch[i]
           /\ \A i \in 1..n : watch'[Len(watch) + i]
                                = [kind |-> "apply", pod |-> pods[order[i]]]
           /\ watch'[Len(watch) + n + 1] = [kind |-> "done", pod |-> Absent]
    BY <1>0, <1>3, ListEvents
  <2>3. PICK order \in [1..n -> Pods] :
           /\ Len(watch') = Len(watch) + n + 1
           /\ \A i \in 1..Len(watch) : watch'[i] = watch[i]
           /\ \A i \in 1..n : watch'[Len(watch) + i]
                                = [kind |-> "apply", pod |-> pods[order[i]]]
           /\ watch'[Len(watch) + n + 1] = [kind |-> "done", pod |-> Absent]
    BY <2>2
  <2>4. Len(watch) \in Nat
    <3>1. watch \in Seq(Event)
      BY <1>0 DEF TypeOK
    <3> HIDE DEF Event
    <3>. QED
      BY <3>1
  <2>5. ASSUME NEW k \in 1..Len(watch'),
               watch'[k].kind = "apply", watch'[k].pod \in Pairs
        PROVE  watch'[k].pod \in had
    <3>1. CASE k \in 1..Len(watch)
      BY <2>3, <2>5, <3>1 DEF HadInv
    <3>2. CASE k = Len(watch) + n + 1
      BY <2>3, <2>5, <3>2
    <3>3. CASE k \notin 1..Len(watch) /\ k # Len(watch) + n + 1
      <4>1. k - Len(watch) \in 1..n /\ Len(watch) + (k - Len(watch)) = k
        BY <2>3, <2>4, <3>3
      <4>2. PICK i \in 1..n :
              watch'[k] = [kind |-> "apply", pod |-> pods[order[i]]]
        BY <2>3, <4>1
      <4>. QED
        BY <2>3, <2>5, <4>2 DEF HadInv
    <3>. QED
      BY <3>1, <3>2, <3>3
  <2>. QED
    BY <1>0, <2>1, <2>5 DEF HadInv
<1>4. CASE WatchFails \/ Restart
  <2>1. /\ watch' = <<[kind |-> "init", pod |-> Absent]>>
        /\ UNCHANGED <<pods, had, reported>>
        /\ snapshot' \subseteq snapshot /\ reader' \subseteq reader
    BY <1>4 DEF WatchFails, Restart, packetVars, historyVars
  <2>2. \A i \in 1..Len(watch') : watch'[i].kind # "apply"
    BY <2>1
  <2>. QED
    BY <1>0, <2>1, <2>2 DEF HadInv
<1>5. CASE Apply
  <2>1. /\ Handle("apply") /\ watch \in Seq(Event) /\ watch # <<>>
        /\ Head(watch).kind = "apply"
        /\ snapshot' = snapshot \cup ({Head(watch).pod} \cap Pairs)
    BY <1>5 DEF Apply, Handle, HadInv, TypeOK
  <2>2. Head(watch) = watch[1] /\ 1 \in 1..Len(watch)
    <3> HIDE DEF Event
    <3>. QED
      BY <2>1
  <2>3. snapshot' \subseteq had
    BY <2>1, <2>2 DEF HadInv
  <2>. QED
    BY <1>0, <2>1, <2>3, HandleHad
<1>6. CASE Delete
  BY <1>0, <1>6, HandleHad DEF Delete, HadInv
<1>7. CASE Clear
  BY <1>0, <1>7, HandleHad DEF Clear, HadInv
<1>8. CASE InitDone
  BY <1>0, <1>8, HandleHad DEF InitDone, HadInv
<1>9. ASSUME NEW p \in Pods, NEW dst \in Addrs, Log(p, dst) PROVE HadInv'
  BY <1>0, <1>9 DEF Log, historyVars, HadInv
<1>10. CASE ReadSource
  <2>1. /\ UNCHANGED <<pods, watch, snapshot, reported, had>>
        /\ \/ reader' = reader
           \/ \E source \in Resolve(Head(ring).src) :
                reader' = {[packet |-> Head(ring), source |-> source]}
    BY <1>10 DEF ReadSource, TakePacket, historyVars
  <2>2. \A r \in reader' :
          r.source = Unknown \/ <<r.source, r.packet.src>> \in had
    <3>1. CASE reader' = reader
      BY <3>1 DEF HadInv
    <3>2. ASSUME NEW source \in Resolve(Head(ring).src),
                 reader' = {[packet |-> Head(ring), source |-> source]}
          PROVE  \A r \in reader' :
                   r.source = Unknown \/ <<r.source, r.packet.src>> \in had
      <4>1. source = Unknown \/ <<source, Head(ring).src>> \in had
        BY ResolveType DEF HadInv
      <4>. QED
        BY <3>2, <4>1
    <3>. QED
      BY <2>1, <3>1, <3>2
  <2>. QED
    BY <1>0, <2>1, <2>2 DEF HadInv
<1>11. CASE Report
  <2>1. PICK r \in reader :
          \E destination \in Resolve(r.packet.dst) :
            /\ reader' = {}
            /\ reported' = IF r.source = Unknown /\ destination = Unknown
                           THEN reported
                           ELSE {[packet |-> r.packet, source |-> r.source,
                                  destination |-> destination]}
    BY <1>11 DEF Report
  <2>2. UNCHANGED <<pods, watch, snapshot, had>>
    BY <1>11 DEF Report, historyVars
  <2>4. PICK destination \in Resolve(r.packet.dst) :
            /\ reader' = {}
            /\ reported' = IF r.source = Unknown /\ destination = Unknown
                           THEN reported
                           ELSE {[packet |-> r.packet, source |-> r.source,
                                  destination |-> destination]}
    BY <2>1
  <2>5. destination = Unknown \/ <<destination, r.packet.dst>> \in had
    BY ResolveType DEF HadInv
  <2>6. \A x \in reported' :
          /\ x.source = Unknown \/ <<x.source, x.packet.src>> \in had
          /\ x.destination = Unknown \/ <<x.destination, x.packet.dst>> \in had
    <3>1. r.source = Unknown \/ <<r.source, r.packet.src>> \in had
      BY DEF HadInv
    <3>2. CASE reported' = reported
      BY <3>2 DEF HadInv
    <3>3. CASE reported' = {[packet |-> r.packet, source |-> r.source,
                             destination |-> destination]}
      BY <2>5, <3>1, <3>3
    <3>. QED
      BY <2>4, <3>2, <3>3
  <2>. QED
    BY <1>0, <2>2, <2>4, <2>6 DEF HadInv
<1>12. CASE UNCHANGED vars
  BY <1>0, <1>12 DEF vars, packetVars, historyVars, HadInv
<1>. QED
  BY <1>1, <1>2, <1>3, <1>4, <1>5, <1>6, <1>7, <1>8, <1>9, <1>10, <1>11,
     <1>12 DEF Next

\* A report names the service that sent the packet or none, unless its address
\* has been another service's as well, however late it is made
\* (resolve_service).
THEOREM ReportsNameTheSender == Spec => []AttributedToSender
<1>1. Init => HadInv
  BY HadInit
<1>2. HadInv /\ [Next]_vars => HadInv'
  BY HadNext
<1>3. HadInv => AttributedToSender
  BY DEF HadInv, TypeOK, Record, Names, AttributedToSender
<1>. QED
  BY <1>1, <1>2, <1>3, PTL DEF Spec

=============================================================================
