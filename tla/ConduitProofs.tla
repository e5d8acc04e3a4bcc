--------------------------- MODULE ConduitProofs ---------------------------
(***************************************************************************)
(* Proofs about Conduit, for every set of connections and services, every  *)
(* certificate lifetime and every capacity of the telemetry channels.      *)
(*                                                                         *)
(* What a gateway reports is true of the session it reports about because  *)
(* of what the two halves of a session know of each other (SessionInv);    *)
(* once true, it stays true while the record is on its way, although both  *)
(* handlers go on.  That nothing is counted twice rests on a handler       *)
(* reporting only as it leaves (Ended), and on a record being in one place *)
(* at a time (CountInv).                                                   *)
(***************************************************************************)
EXTENDS Conduit, TLAPS

-----------------------------------------------------------------------------
(* The invariant.                                                          *)

\* The egress has no session yet, waits for the ingress's certificate, or has
\* accepted it; the ingress reads nothing before it has accepted the egress's.
SessionOK(c) ==
  /\ egress[c].at \in {"none", "read", "allowed"} => ingress[c] = "none"
  /\ egress[c].at = "handshake" => ingress[c] \in {"accept", "closed"}
  /\ egress[c].at \in {"none", "read", "allowed", "handshake"} => c \notin mutual
  /\ ingress[c] \in {"none", "accept", "verify", "alert"} => c \notin mutual
  /\ ingress[c] = "alert" => egress[c].at = "closed"
  /\ ingress[c] \in {"read", "backend", "pipe", "served"} => c \in mutual

SessionInv == \A c \in Conns : SessionOK(c)

\* What a record of the egress says of the session, strong enough to stay so.
True(r) ==
  /\ r.verdict = "allow" =>
       r.conn \in mutual /\ ingress[r.conn] \in {"pipe", "served", "closed"}
  /\ r.verdict = "deny" =>
       /\ r.conn \notin mutual /\ egress[r.conn].at = "closed"
       /\ ingress[r.conn] = "none"
  /\ r.verdict = "tls_reject" =>
       /\ r.conn \notin mutual /\ egress[r.conn].at = "closed"
       /\ ingress[r.conn] \in {"accept", "alert", "closed"}

TruthInv == \A r \in Pending("egress") : True(r)

\* A report is in one place at a time: the channel, the sender or Trace.
NotYetCounted(g) ==
  \A r \in Pending(g) : Ended(g, r.conn) /\ counted[<<g, r.conn>>] = 0
QueuedOnce(g) ==
  \A i, j \in DOMAIN queue[g] : i # j => queue[g][i].conn # queue[g][j].conn
TakenOnce(g) ==
  /\ \A r, s \in sending[g] : r = s
  /\ \A r \in sending[g], i \in DOMAIN queue[g] : queue[g][i].conn # r.conn
CountedOK(g) ==
  \A c \in Conns : /\ counted[<<g, c>>] <= 1
                   /\ counted[<<g, c>>] = 1 => Ended(g, c)

CountOK(g) ==
  NotYetCounted(g) /\ QueuedOnce(g) /\ TakenOnce(g) /\ CountedOK(g)

CountInv == \A g \in Gateways : CountOK(g)

-----------------------------------------------------------------------------
(* Types.                                                                  *)

\* What a channel holds after one more record, and after one less.
LEMMA AppendRecord ==
  ASSUME NEW q \in Seq(Record), NEW r \in Record
  PROVE  /\ Append(q, r) \in Seq(Record)
         /\ Len(Append(q, r)) = Len(q) + 1
         /\ Append(q, r)[Len(q) + 1] = r
         /\ \A i \in DOMAIN q : Append(q, r)[i] = q[i]
         /\ DOMAIN Append(q, r) = DOMAIN q \cup {Len(q) + 1}
         /\ Len(q) + 1 \notin DOMAIN q
OBVIOUS

LEMMA TailRecord ==
  ASSUME NEW q \in Seq(Record), q # <<>>
  PROVE  /\ Tail(q) \in Seq(Record)
         /\ Len(Tail(q)) = Len(q) - 1
         /\ Head(q) = q[1] /\ 1 \in DOMAIN q /\ Head(q) \in Record
         /\ \A i \in DOMAIN Tail(q) : /\ i + 1 \in DOMAIN q /\ i + 1 # 1
                                     /\ Tail(q)[i] = q[i + 1]
OBVIOUS

\* The channels' part of TypeOK.
ChannelsOK == /\ queue \in [Gateways -> Seq(Record)]
              /\ \A g \in Gateways : Len(queue[g]) <= QueueCap

LEMMA EmitTypes ==
  ASSUME ChannelsOK, NEW g \in Gateways, NEW c \in Conns, NEW v \in Verdicts,
         Emit(g, c, v)
  PROVE  ChannelsOK'
<1>. DEFINE r == [conn |-> c, verdict |-> v]
<1>1. r \in Record
  BY DEF Record
<1>2. CASE Len(queue[g]) < QueueCap
  <2>1. queue' = [queue EXCEPT ![g] = Append(queue[g], r)]
    BY <1>2 DEF Emit
  <2>2. Append(queue[g], r) \in Seq(Record) /\ Len(Append(queue[g], r)) = Len(queue[g]) + 1
    BY <1>1, AppendRecord DEF ChannelsOK
  <2>3. Len(queue[g]) + 1 <= QueueCap
    BY <1>2, ConduitAssumption DEF ConduitAssumption, ChannelsOK
  <2>. HIDE DEF r
  <2>. QED
    BY <2>1, <2>2, <2>3 DEF ChannelsOK
<1>3. CASE ~(Len(queue[g]) < QueueCap)
  BY <1>3 DEF Emit, ChannelsOK
<1>. QED
  BY <1>2, <1>3

LEMMA InitTypes == Init => TypeOK
<1>. SUFFICES ASSUME Init PROVE TypeOK
  OBVIOUS
<1>1. /\ up \subseteq Gateways /\ left \in [Gateways -> 0..Lifetime]
      /\ crashes \in 0..MaxCrashes /\ open \subseteq Services
  BY ConduitAssumption DEF Init, ConduitAssumption
<1>2. egress \in [Conns -> [at : EgressSteps, to : Services]]
  BY DEF Init, EgressSteps
<1>3. ingress \in [Conns -> IngressSteps] /\ mutual \subseteq Conns
  BY DEF Init, IngressSteps
<1>4. /\ queue \in [Gateways -> Seq(Record)]
      /\ \A g \in Gateways : Len(queue[g]) <= QueueCap
  BY ConduitAssumption DEF Init, ConduitAssumption
<1>5. /\ sending \in [Gateways -> SUBSET Record]
      /\ counted \in [Gateways \X Conns -> Nat]
  BY DEF Init
<1>. QED
  BY <1>1, <1>2, <1>3, <1>4, <1>5 DEF TypeOK

LEMMA StepTypes ==
  ASSUME TypeOK, [Next]_vars
  PROVE  TypeOK'
<1>. USE DEF processVars, telemetryVars
<1>k. /\ {"egress", "ingress"} = Gateways /\ {"allow", "deny", "tls_reject", "error"} = Verdicts
  BY DEF Gateways, Verdicts
<1>q. ChannelsOK
  BY DEF TypeOK, ChannelsOK
<1>1. ASSUME NEW g \in Gateways, Start(g) PROVE TypeOK'
  BY <1>1, ConduitAssumption DEF Start, Enrol, TypeOK, ConduitAssumption
<1>2. ASSUME NEW g \in Gateways, Crash(g) PROVE TypeOK'
  <2>1. egress' \in [Conns -> [at : EgressSteps, to : Services]]
    BY <1>2 DEF Crash, TypeOK, EgressSteps
  <2>2. ingress' \in [Conns -> IngressSteps]
    BY <1>2 DEF Crash, TypeOK, IngressSteps
  <2>3. /\ queue' \in [Gateways -> Seq(Record)]
        /\ \A h \in Gateways : Len(queue'[h]) <= QueueCap
    BY <1>2, ConduitAssumption DEF Crash, TypeOK, ConduitAssumption
  <2>4. sending' \in [Gateways -> SUBSET Record]
    BY <1>2 DEF Crash, TypeOK
  <2>5. crashes' \in 0..MaxCrashes /\ up' \subseteq Gateways
    BY <1>2, ConduitAssumption DEF Crash, TypeOK, ConduitAssumption
  <2>. QED
    BY <1>2, <2>1, <2>2, <2>3, <2>4, <2>5 DEF Crash, TypeOK
<1>3. CASE Tick
  BY <1>3, ConduitAssumption DEF Tick, Valid, TypeOK, ConduitAssumption
<1>4. ASSUME NEW destinations \in SUBSET Services, Poll(destinations)
      PROVE  TypeOK'
  BY <1>4 DEF Poll, TypeOK
<1>5. ASSUME NEW c \in Conns, Accept(c) PROVE TypeOK'
  BY <1>5 DEF Accept, EgressAt, TypeOK, EgressSteps
<1>6. ASSUME NEW c \in Conns, EgressHandler(c) PROVE TypeOK'
  <2>1. CASE NoRequest(c)
    BY <2>1 DEF NoRequest, EgressAt, IngressAt, TypeOK, EgressSteps, IngressSteps
  <2>2. CASE Allow(c)
    BY <2>2 DEF Allow, EgressAt, IngressAt, TypeOK, EgressSteps, IngressSteps
  <2>3. CASE Connect(c)
    BY <2>3 DEF Connect, EgressAt, IngressAt, TypeOK, EgressSteps, IngressSteps
  <2>4. CASE VerifyServer(c)
    BY <2>4 DEF VerifyServer, EgressAt, IngressAt, TypeOK, EgressSteps, IngressSteps
  <2>5. CASE Forward(c)
    BY <2>5 DEF Forward, EgressAt, IngressAt, TypeOK, EgressSteps, IngressSteps
  <2>6. CASE ForwardFails(c)
    BY <2>6 DEF ForwardFails, EgressAt, IngressAt, TypeOK, EgressSteps, IngressSteps
  <2>7. CASE RespondFails(c)
    BY <2>7 DEF RespondFails, EgressAt, IngressAt, TypeOK, EgressSteps, IngressSteps
  <2>8. CASE TunnelEnds(c)
    BY <2>8 DEF TunnelEnds, EgressAt, IngressAt, TypeOK, EgressSteps, IngressSteps
  <2>9. CASE Deny(c)
    <3>1. ChannelsOK'
      BY <2>9, <1>q, <1>k, EmitTypes DEF Deny
    <3>. QED
      BY <2>9, <3>1 DEF Deny, EgressAt, IngressAt, TypeOK, EgressSteps,
         IngressSteps, ChannelsOK
  <2>10. CASE ConnectFails(c)
    <3>1. ChannelsOK'
      BY <2>10, <1>q, <1>k, EmitTypes DEF ConnectFails
    <3>. QED
      BY <2>10, <3>1 DEF ConnectFails, EgressAt, IngressAt, TypeOK, EgressSteps,
         IngressSteps, ChannelsOK
  <2>11. CASE RejectServer(c)
    <3>1. ChannelsOK'
      BY <2>11, <1>q, <1>k, EmitTypes DEF RejectServer
    <3>. QED
      BY <2>11, <3>1 DEF RejectServer, EgressAt, IngressAt, TypeOK, EgressSteps,
         IngressSteps, ChannelsOK
  <2>12. CASE HandshakeLost(c)
    <3>1. ChannelsOK'
      BY <2>12, <1>q, <1>k, EmitTypes DEF HandshakeLost
    <3>. QED
      BY <2>12, <3>1 DEF HandshakeLost, EgressAt, IngressAt, TypeOK, EgressSteps,
         IngressSteps, ChannelsOK
  <2>13. CASE NoResponse(c)
    <3>1. ChannelsOK'
      BY <2>13, <1>q, <1>k, EmitTypes DEF NoResponse
    <3>. QED
      BY <2>13, <3>1 DEF NoResponse, EgressAt, IngressAt, TypeOK, EgressSteps,
         IngressSteps, ChannelsOK
  <2>14. CASE Respond(c)
    <3>1. ChannelsOK'
      BY <2>14, <1>q, <1>k, EmitTypes DEF Respond
    <3>. QED
      BY <2>14, <3>1 DEF Respond, EgressAt, IngressAt, TypeOK, EgressSteps,
         IngressSteps, ChannelsOK
  <2>. QED
    BY <1>6, <2>1, <2>2, <2>3, <2>4, <2>5, <2>6, <2>7, <2>8, <2>9, <2>10,
       <2>11, <2>12, <2>13, <2>14 DEF EgressHandler
<1>7. ASSUME NEW c \in Conns, NEW v \in Verdicts, IngressFails(c, v) PROVE TypeOK'
  <2>1. ChannelsOK'
    BY <1>7, <1>q, <1>k, EmitTypes DEF IngressFails
  <2>. QED
    BY <1>7, <2>1 DEF IngressFails, IngressAt, TypeOK, IngressSteps, ChannelsOK
<1>8. ASSUME NEW c \in Conns, IngressHandler(c) PROVE TypeOK'
  <2>1. CASE VerifyClient(c)
    BY <2>1 DEF VerifyClient, IngressAt, TypeOK, IngressSteps
  <2>2. CASE ReadRequest(c)
    BY <2>2 DEF ReadRequest, IngressAt, TypeOK, IngressSteps
  <2>3. CASE ConnectBackend(c)
    BY <2>3 DEF ConnectBackend, IngressAt, TypeOK, IngressSteps
  <2>4. CASE RejectClient(c)
    BY <2>4, <1>7, <1>k DEF RejectClient
  <2>5. CASE Alerted(c)
    BY <2>5, <1>7, <1>k DEF Alerted
  <2>6. CASE AcceptLost(c)
    BY <2>6, <1>7, <1>k DEF AcceptLost
  <2>7. CASE BackendFails(c)
    BY <2>7, <1>7, <1>k DEF BackendFails
  <2>8. CASE ReadLost(c)
    <3>1. CASE IngressFails(c, "error")
      BY <3>1, <1>7, <1>k
    <3>2. CASE IngressAt(c, "closed") /\ UNCHANGED <<processVars, open, egress, telemetryVars, mutual>>
      BY <3>2 DEF IngressAt, TypeOK, IngressSteps
    <3>. QED
      BY <2>8, <3>1, <3>2 DEF ReadLost
  <2>9. CASE PipeEnds(c)
    <3>1. ChannelsOK'
      BY <2>9, <1>q, <1>k, EmitTypes DEF PipeEnds, ChannelsOK
    <3>. QED
      BY <2>9, <3>1 DEF PipeEnds, IngressAt, TypeOK, IngressSteps, ChannelsOK
  <2>. QED
    BY <1>8, <2>1, <2>2, <2>3, <2>4, <2>5, <2>6, <2>7, <2>8, <2>9 DEF
       IngressHandler
<1>9. ASSUME NEW g \in Gateways, Sender(g) PROVE TypeOK'
  <2>1. CASE Take(g)
    <3>1. /\ Tail(queue[g]) \in Seq(Record) /\ Head(queue[g]) \in Record
          /\ Len(Tail(queue[g])) = Len(queue[g]) - 1
      BY <2>1, TailRecord DEF Take, TypeOK
    <3>2. ChannelsOK'
      BY <2>1, <3>1, ConduitAssumption DEF Take, TypeOK, ChannelsOK, ConduitAssumption
    <3>3. sending' \in [Gateways -> SUBSET Record]
      BY <2>1, <3>1 DEF Take, TypeOK
    <3>. QED
      BY <2>1, <3>2, <3>3 DEF Take, TypeOK, ChannelsOK
  <2>2. CASE Post(g)
    <3>1. PICK r \in sending[g] : counted' = [counted EXCEPT ![<<g, r.conn>>] = @ + 1]
      BY <2>2 DEF Post
    <3>2. r.conn \in Conns
      BY DEF TypeOK, Record
    <3>3. counted' \in [Gateways \X Conns -> Nat]
      BY <3>1, <3>2 DEF TypeOK
    <3>. QED
      BY <2>2, <3>3 DEF Post, TypeOK
  <2>3. CASE PostFails(g)
    BY <2>3 DEF PostFails, TypeOK
  <2>. QED
    BY <1>9, <2>1, <2>2, <2>3 DEF Sender
<1>10. CASE UNCHANGED vars
  BY <1>10 DEF vars, TypeOK
<1>. QED
  BY <1>1, <1>2, <1>3, <1>4, <1>5, <1>6, <1>8, <1>9, <1>10 DEF Next

\* Type correctness: in particular a telemetry channel never holds more than
\* its capacity (mpsc::channel(256) and try_send, telemetry.rs lines 29-48).
THEOREM TypeCorrect == Spec => []TypeOK
BY InitTypes, StepTypes, PTL DEF Spec

-----------------------------------------------------------------------------
(* The two halves of a session.                                            *)

\* What no step undoes: a handler that has left stays so, and what the egress
\* has truly said of a session remains true of it.
Lasting == /\ \A g \in Gateways, c \in Conns : Ended(g, c) => Ended(g, c)'
           /\ \A r \in Record : True(r) => True(r)'

LEMMA InitSessions == Init => SessionInv
BY DEF Init, SessionInv, SessionOK

\* Each step keeps SessionInv and Lasting.
LEMMA StepSessions ==
  ASSUME TypeOK, SessionInv, [Next]_vars
  PROVE  SessionInv' /\ Lasting
<1>. DEFINE Good == SessionInv' /\ Lasting
<1>. USE DEF processVars, telemetryVars
<1>t. /\ egress \in [Conns -> [at : EgressSteps, to : Services]]
      /\ ingress \in [Conns -> IngressSteps]
  BY DEF TypeOK
<1>s. \A c \in Conns : SessionOK(c)
  BY DEF SessionInv
<1>r. \A r \in Record : r.conn \in Conns
  BY DEF Record
<1>u. ASSUME UNCHANGED <<egress, ingress, mutual>> PROVE Good
  BY <1>u, <1>s DEF SessionInv, SessionOK, Lasting, Ended, True
<1>1. ASSUME NEW g \in Gateways, Start(g) PROVE Good
  BY <1>1, <1>u DEF Start
<1>2. ASSUME NEW g \in Gateways, Crash(g) PROVE Good
  <2>1. \A c \in Conns :
          /\ \/ egress'[c].at = egress[c].at
             \/ /\ egress[c].at # "none"
                /\ egress'[c].at = "closed"
          /\ \/ ingress'[c] = ingress[c]
             \/ /\ ingress[c] \notin {"none", "served"}
                /\ ingress'[c] = "closed"
    BY <1>2, <1>t DEF Crash
  <2>2. mutual' = mutual
    BY <1>2 DEF Crash
  <2>3. SessionInv'
    BY <2>1, <2>2, <1>s DEF SessionInv, SessionOK
  <2>4. Lasting
    BY <2>1, <2>2, <1>r DEF Lasting, Ended, True
  <2>. QED
    BY <2>3, <2>4
<1>3. CASE Tick
  BY <1>3, <1>u DEF Tick
<1>4. ASSUME NEW destinations \in SUBSET Services, Poll(destinations)
      PROVE  Good
  BY <1>4, <1>u DEF Poll
<1>5. ASSUME NEW c \in Conns, Accept(c) PROVE Good
  BY <1>5, <1>t, <1>s, <1>r DEF Accept, EgressAt, SessionInv, SessionOK,
     Lasting, Ended, True
<1>6. ASSUME NEW c \in Conns, EgressHandler(c) PROVE Good
  <2>1. CASE NoRequest(c)
    BY <2>1, <1>t, <1>s, <1>r DEF NoRequest, EgressAt,
       SessionInv, SessionOK, Lasting, Ended, True
  <2>2. CASE Allow(c)
    BY <2>2, <1>t, <1>s, <1>r DEF Allow, EgressAt,
       SessionInv, SessionOK, Lasting, Ended, True
  <2>3. CASE Connect(c)
    BY <2>3, <1>t, <1>s, <1>r DEF Connect, EgressAt, IngressAt,
       SessionInv, SessionOK, Lasting, Ended, True
  <2>4. CASE VerifyServer(c)
    BY <2>4, <1>t, <1>s, <1>r DEF VerifyServer, EgressAt, IngressAt,
       SessionInv, SessionOK, Lasting, Ended, True
  <2>5. CASE Forward(c)
    BY <2>5, <1>t, <1>s, <1>r DEF Forward, EgressAt,
       SessionInv, SessionOK, Lasting, Ended, True
  <2>6. CASE ForwardFails(c)
    BY <2>6, <1>t, <1>s, <1>r DEF ForwardFails, EgressAt,
       SessionInv, SessionOK, Lasting, Ended, True
  <2>7. CASE RespondFails(c)
    BY <2>7, <1>t, <1>s, <1>r DEF RespondFails, EgressAt,
       SessionInv, SessionOK, Lasting, Ended, True
  <2>8. CASE TunnelEnds(c)
    BY <2>8, <1>t, <1>s, <1>r DEF TunnelEnds, EgressAt,
       SessionInv, SessionOK, Lasting, Ended, True
  <2>9. CASE Deny(c)
    BY <2>9, <1>t, <1>s, <1>r DEF Deny, EgressAt,
       SessionInv, SessionOK, Lasting, Ended, True
  <2>10. CASE ConnectFails(c)
    BY <2>10, <1>t, <1>s, <1>r DEF ConnectFails, EgressAt,
       SessionInv, SessionOK, Lasting, Ended, True
  <2>11. CASE RejectServer(c)
    BY <2>11, <1>t, <1>s, <1>r DEF RejectServer, EgressAt, IngressAt,
       SessionInv, SessionOK, Lasting, Ended, True
  <2>12. CASE HandshakeLost(c)
    BY <2>12, <1>t, <1>s, <1>r DEF HandshakeLost, EgressAt,
       SessionInv, SessionOK, Lasting, Ended, True
  <2>13. CASE NoResponse(c)
    BY <2>13, <1>t, <1>s, <1>r DEF NoResponse, EgressAt,
       SessionInv, SessionOK, Lasting, Ended, True
  <2>14. CASE Respond(c)
    BY <2>14, <1>t, <1>s, <1>r DEF Respond, EgressAt,
       SessionInv, SessionOK, Lasting, Ended, True
  <2>. QED
    BY <1>6, <2>1, <2>2, <2>3, <2>4, <2>5, <2>6, <2>7, <2>8, <2>9, <2>10,
       <2>11, <2>12, <2>13, <2>14 DEF EgressHandler
<1>7. ASSUME NEW c \in Conns, IngressHandler(c) PROVE Good
  <2>1. CASE VerifyClient(c)
    BY <2>1, <1>t, <1>s, <1>r DEF VerifyClient, IngressAt,
       SessionInv, SessionOK, Lasting, Ended, True
  <2>2. CASE ReadRequest(c)
    BY <2>2, <1>t, <1>s, <1>r DEF ReadRequest, IngressAt,
       SessionInv, SessionOK, Lasting, Ended, True
  <2>3. CASE ConnectBackend(c)
    BY <2>3, <1>t, <1>s, <1>r DEF ConnectBackend, IngressAt,
       SessionInv, SessionOK, Lasting, Ended, True
  <2>4. CASE RejectClient(c)
    BY <2>4, <1>t, <1>s, <1>r DEF RejectClient, IngressFails, IngressAt,
       SessionInv, SessionOK, Lasting, Ended, True
  <2>5. CASE Alerted(c)
    BY <2>5, <1>t, <1>s, <1>r DEF Alerted, IngressFails, IngressAt,
       SessionInv, SessionOK, Lasting, Ended, True
  <2>6. CASE AcceptLost(c)
    BY <2>6, <1>t, <1>s, <1>r DEF AcceptLost, IngressFails, IngressAt, EgressGone,
       SessionInv, SessionOK, Lasting, Ended, True
  <2>7. CASE BackendFails(c)
    BY <2>7, <1>t, <1>s, <1>r DEF BackendFails, IngressFails, IngressAt,
       SessionInv, SessionOK, Lasting, Ended, True
  <2>8. CASE ReadLost(c)
    BY <2>8, <1>t, <1>s, <1>r DEF ReadLost, IngressFails, IngressAt, EgressGone,
       SessionInv, SessionOK, Lasting, Ended, True
  <2>9. CASE PipeEnds(c)
    BY <2>9, <1>t, <1>s, <1>r DEF PipeEnds, IngressAt,
       SessionInv, SessionOK, Lasting, Ended, True
  <2>. QED
    BY <1>7, <2>1, <2>2, <2>3, <2>4, <2>5, <2>6, <2>7, <2>8, <2>9 DEF
       IngressHandler
<1>8. ASSUME NEW g \in Gateways, Sender(g) PROVE Good
  BY <1>8, <1>u DEF Sender, Take, Post, PostFails
<1>9. CASE UNCHANGED vars
  BY <1>9, <1>u DEF vars
<1>. QED
  BY <1>1, <1>2, <1>3, <1>4, <1>5, <1>6, <1>7, <1>8, <1>9 DEF Next

LEMMA SessionInvariant == Spec => []SessionInv
BY TypeCorrect, InitSessions, StepSessions, PTL DEF Spec

-----------------------------------------------------------------------------
(* Where the records are.                                                  *)

\* A handler leaves a record behind: it had none, it is about to end, and what
\* it says is true if it is the egress's.
Reports(g, c, v) ==
  /\ Emit(g, c, v)
  /\ UNCHANGED <<sending, counted>>
  /\ ~Ended(g, c) /\ Ended(g, c)'
  /\ g = "egress" => True([conn |-> c, verdict |-> v])'

\* Every step leaves the records alone, adds one, moves one or loses some.
LEMMA StepRecords ==
  ASSUME TypeOK, SessionInv, [Next]_vars
  PROVE  \/ UNCHANGED telemetryVars
         \/ \E g \in Gateways, c \in Conns, v \in Verdicts : Reports(g, c, v)
         \/ \E g \in Gateways : Crash(g) \/ Sender(g)
<1>. DEFINE Good == \/ UNCHANGED telemetryVars
                    \/ \E g \in Gateways, c \in Conns, v \in Verdicts : Reports(g, c, v)
                    \/ \E g \in Gateways : Crash(g) \/ Sender(g)
<1>. USE DEF processVars, telemetryVars
<1>t. /\ egress \in [Conns -> [at : EgressSteps, to : Services]]
      /\ ingress \in [Conns -> IngressSteps]
  BY DEF TypeOK
<1>s. \A c \in Conns : SessionOK(c)
  BY DEF SessionInv
<1>k. /\ "egress" \in Gateways /\ "ingress" \in Gateways
      /\ "allow" \in Verdicts /\ "deny" \in Verdicts
      /\ "tls_reject" \in Verdicts /\ "error" \in Verdicts
  BY DEF Gateways, Verdicts
<1>1. ASSUME NEW c \in Conns, EgressHandler(c) PROVE Good
  <2>1. CASE NoRequest(c)
    BY <2>1 DEF NoRequest
  <2>2. CASE Allow(c)
    BY <2>2 DEF Allow
  <2>3. CASE Connect(c)
    BY <2>3 DEF Connect
  <2>4. CASE VerifyServer(c)
    BY <2>4 DEF VerifyServer
  <2>5. CASE Forward(c)
    BY <2>5 DEF Forward
  <2>6. CASE ForwardFails(c)
    BY <2>6 DEF ForwardFails
  <2>7. CASE RespondFails(c)
    BY <2>7 DEF RespondFails
  <2>8. CASE TunnelEnds(c)
    BY <2>8 DEF TunnelEnds
  <2>9. CASE Deny(c)
    <3>1. Reports("egress", c, "deny")
      BY <2>9, <1>t, <1>s DEF Deny, EgressAt, SessionOK, Reports,
         Ended, True
    <3>. QED
      BY <3>1, <1>k
  <2>10. CASE ConnectFails(c)
    <3>1. Reports("egress", c, "error")
      BY <2>10, <1>t, <1>s DEF ConnectFails, EgressAt, SessionOK, Reports,
         Ended, True
    <3>. QED
      BY <3>1, <1>k
  <2>11. CASE RejectServer(c)
    <3>1. Reports("egress", c, "tls_reject")
      BY <2>11, <1>t, <1>s DEF RejectServer, EgressAt, IngressAt, SessionOK, Reports,
         Ended, True
    <3>. QED
      BY <3>1, <1>k
  <2>12. CASE HandshakeLost(c)
    <3>1. Reports("egress", c, "tls_reject")
      BY <2>12, <1>t, <1>s DEF HandshakeLost, EgressAt, SessionOK, Reports,
         Ended, True
    <3>. QED
      BY <3>1, <1>k
  <2>13. CASE NoResponse(c)
    <3>1. Reports("egress", c, "error")
      BY <2>13, <1>t, <1>s DEF NoResponse, EgressAt, SessionOK, Reports,
         Ended, True
    <3>. QED
      BY <3>1, <1>k
  <2>14. CASE Respond(c)
    <3>1. Reports("egress", c, "allow")
      BY <2>14, <1>t, <1>s DEF Respond, EgressAt, SessionOK, Reports,
         Ended, True
    <3>. QED
      BY <3>1, <1>k
  <2>. QED
    BY <1>1, <2>1, <2>2, <2>3, <2>4, <2>5, <2>6, <2>7, <2>8, <2>9, <2>10,
       <2>11, <2>12, <2>13, <2>14 DEF EgressHandler
<1>2. ASSUME NEW c \in Conns, NEW v \in Verdicts, IngressFails(c, v),
             ingress[c] \notin {"served", "closed"}
      PROVE  Good
  <2>1. Reports("ingress", c, v)
    BY <1>2, <1>t DEF IngressFails, IngressAt, Reports, Ended
  <2>. QED
    BY <2>1, <1>k
<1>3. ASSUME NEW c \in Conns, IngressHandler(c) PROVE Good
  <2>1. CASE VerifyClient(c)
    BY <2>1 DEF VerifyClient
  <2>2. CASE ReadRequest(c)
    BY <2>2 DEF ReadRequest
  <2>3. CASE ConnectBackend(c)
    BY <2>3 DEF ConnectBackend
  <2>4. CASE RejectClient(c)
    BY <2>4, <1>2, <1>k DEF RejectClient
  <2>5. CASE Alerted(c)
    BY <2>5, <1>2, <1>k DEF Alerted
  <2>6. CASE AcceptLost(c)
    BY <2>6, <1>2, <1>k DEF AcceptLost
  <2>7. CASE BackendFails(c)
    BY <2>7, <1>2, <1>k DEF BackendFails
  <2>8. CASE ReadLost(c)
    BY <2>8, <1>2, <1>k DEF ReadLost
  <2>9. CASE PipeEnds(c)
    <3>1. ASSUME NEW v \in Verdicts, Emit("ingress", c, v) PROVE Good
      <4>1. Reports("ingress", c, v)
        BY <2>9, <3>1, <1>t DEF PipeEnds, IngressAt, Reports, Ended
      <4>. QED
        BY <4>1, <1>k
    <3>2. CASE UNCHANGED queue
      BY <2>9, <3>2 DEF PipeEnds
    <3>. QED
      BY <2>9, <3>1, <3>2, <1>k DEF PipeEnds
  <2>. QED
    BY <1>3, <2>1, <2>2, <2>3, <2>4, <2>5, <2>6, <2>7, <2>8, <2>9 DEF
       IngressHandler
<1>4. ASSUME NEW g \in Gateways, Start(g) PROVE Good
  BY <1>4 DEF Start
<1>5. CASE Tick
  BY <1>5 DEF Tick
<1>6. ASSUME NEW destinations \in SUBSET Services, Poll(destinations)
      PROVE  Good
  BY <1>6 DEF Poll
<1>7. ASSUME NEW c \in Conns, Accept(c) PROVE Good
  BY <1>7 DEF Accept
<1>8. CASE UNCHANGED vars
  BY <1>8 DEF vars
<1>. QED
  BY <1>1, <1>3, <1>4, <1>5, <1>6, <1>7, <1>8 DEF Next

\* A report puts one record at the end of the channel, or is dropped.
LEMMA ReportQueue ==
  ASSUME TypeOK, NEW g \in Gateways, NEW c \in Conns, NEW v \in Verdicts,
         Reports(g, c, v)
  PROVE  \/ queue' = queue
         \/ queue' = [queue EXCEPT ![g] = Append(queue[g], [conn |-> c, verdict |-> v])]
BY DEF Reports, Emit

\* Pending after a report, after a step of the sender and after a crash.
LEMMA PendingAfterReport ==
  ASSUME TypeOK, NEW g \in Gateways, NEW c \in Conns, NEW v \in Verdicts,
         Reports(g, c, v), NEW h \in Gateways, NEW r \in Pending(h)'
  PROVE  r \in Pending(h) \/ (h = g /\ r = [conn |-> c, verdict |-> v])
<1>. DEFINE new == [conn |-> c, verdict |-> v]
<1>1. sending' = sending /\ new \in Record /\ queue[g] \in Seq(Record)
  BY DEF Reports, Record, TypeOK
<1>2. CASE queue' = queue
  BY <1>1, <1>2 DEF Pending
<1>3. CASE queue' = [queue EXCEPT ![g] = Append(queue[g], new)]
  <2>. HIDE DEF new
  <2>1. h # g => queue'[h] = queue[h]
    BY <1>3 DEF TypeOK
  <2>2. queue'[g] = Append(queue[g], new)
    BY <1>3 DEF TypeOK
  <2>3. \A i \in DOMAIN Append(queue[g], new) :
          \/ Append(queue[g], new)[i] = new
          \/ i \in DOMAIN queue[g] /\ Append(queue[g], new)[i] = queue[g][i]
    BY <1>1, AppendRecord
  <2>4. r \in Pending(h) \/ (h = g /\ r = new)
    BY <1>1, <2>1, <2>2, <2>3 DEF Pending
  <2>. QED
    BY <2>4 DEF new
<1>. QED
  BY <1>2, <1>3, ReportQueue

LEMMA PendingAfterOther ==
  ASSUME TypeOK, NEW g \in Gateways, Crash(g) \/ Sender(g),
         NEW h \in Gateways, NEW r \in Pending(h)'
  PROVE  r \in Pending(h)
<1>1. CASE Crash(g)
  BY <1>1 DEF Crash, Pending, TypeOK
<1>2. CASE Take(g)
  <2>1. /\ queue[g] \in Seq(Record) /\ queue[g] # <<>>
        /\ queue' = [queue EXCEPT ![g] = Tail(queue[g])]
        /\ sending' = [sending EXCEPT ![g] = {Head(queue[g])}]
    BY <1>2 DEF Take, TypeOK
  <2>2. CASE h = g
    <3>1. queue'[g] = Tail(queue[g]) /\ sending'[g] = {Head(queue[g])}
      BY <2>1 DEF TypeOK
    <3>. QED
      BY <2>1, <2>2, <3>1, TailRecord DEF Pending
  <2>3. CASE h # g
    BY <2>1, <2>3 DEF Pending, TypeOK
  <2>. QED
    BY <2>2, <2>3
<1>3. CASE Post(g)
  BY <1>3 DEF Post, Pending, TypeOK
<1>4. CASE PostFails(g)
  BY <1>4 DEF PostFails, Pending, TypeOK
<1>. QED
  BY <1>1, <1>2, <1>3, <1>4 DEF Sender

LEMMA PendingRecords ==
  ASSUME TypeOK, NEW g \in Gateways, NEW r \in Pending(g)
  PROVE  r \in Record
<1>. USE DEF TypeOK
<1>1. queue[g] \in Seq(Record) /\ sending[g] \in SUBSET Record
  OBVIOUS
<1>2. \A i \in DOMAIN queue[g] : queue[g][i] \in Record
  BY <1>1
<1>. QED
  BY <1>1, <1>2 DEF Pending

-----------------------------------------------------------------------------
(* The reports are true.                                                   *)

LEMMA StepTruth ==
  ASSUME TypeOK, SessionInv, TruthInv, [Next]_vars
  PROVE  TruthInv'
<1>. SUFFICES ASSUME NEW r \in Pending("egress")' PROVE True(r)'
  BY DEF TruthInv
<1>k. "egress" \in Gateways
  BY DEF Gateways
<1>1. CASE r \in Pending("egress")
  <2>1. r \in Record /\ True(r)
    BY <1>1, <1>k, PendingRecords DEF TruthInv
  <2>. QED
    BY <2>1, StepSessions DEF Lasting
<1>2. ASSUME NEW c \in Conns, NEW v \in Verdicts, Reports("egress", c, v),
             r = [conn |-> c, verdict |-> v]
      PROVE  True(r)'
  BY <1>2 DEF Reports
<1>3. CASE r \notin Pending("egress")
  <2>1. CASE UNCHANGED telemetryVars
    BY <1>3, <2>1 DEF telemetryVars, Pending
  <2>2. ASSUME NEW g \in Gateways, Crash(g) \/ Sender(g) PROVE FALSE
    BY <1>3, <1>k, <2>2, PendingAfterOther
  <2>3. ASSUME NEW g \in Gateways, NEW c \in Conns, NEW v \in Verdicts,
               Reports(g, c, v)
        PROVE  True(r)'
    BY <1>2, <1>3, <1>k, <2>3, PendingAfterReport
  <2>. QED
    BY <2>1, <2>2, <2>3, StepRecords
<1>. QED
  BY <1>1, <1>3

\* Whatever the egress reports is what happened to the request, at the moment
\* it reports it and until Trace has counted it (egress.rs lines 82-220).
THEOREM ReportsAreTrue == Spec => []EgressReportsTheTruth
<1>1. Init => TruthInv
  BY DEF Init, TruthInv, Pending, Gateways
<1>2. TypeOK /\ TruthInv => EgressReportsTheTruth
  <2>. SUFFICES ASSUME TypeOK, TruthInv, NEW r \in Pending("egress")
                PROVE  /\ r.verdict = "allow" =>
                            /\ r.conn \in mutual
                            /\ ingress[r.conn] \in {"pipe", "served", "closed"}
                       /\ r.verdict \in {"deny", "tls_reject"} =>
                            /\ r.conn \notin mutual
                            /\ ingress[r.conn] \notin {"read", "backend", "pipe", "served"}
    BY DEF EgressReportsTheTruth
  <2>. QED
    BY DEF TruthInv, True
<1>. QED
  BY <1>1, <1>2, StepTruth, TypeCorrect, SessionInvariant, PTL DEF Spec

-----------------------------------------------------------------------------
(* Nothing is counted twice.                                               *)

LEMMA CountAfterReport ==
  ASSUME TypeOK, SessionInv, Lasting, CountInv,
         NEW g \in Gateways, NEW c \in Conns, NEW v \in Verdicts,
         Reports(g, c, v), NEW h \in Gateways
  PROVE  CountOK(h)'
<1>. DEFINE new == [conn |-> c, verdict |-> v]
<1>i. CountOK(g) /\ CountOK(h)
  BY DEF CountInv
<1>0. sending' = sending /\ counted' = counted /\ ~Ended(g, c) /\ Ended(g, c)'
  BY DEF Reports
<1>c. counted[<<g, c>>] = 0
  <2>1. counted[<<g, c>>] \in Nat
    BY DEF TypeOK
  <2>2. counted[<<g, c>>] <= 1 /\ counted[<<g, c>>] # 1
    BY <1>i, <1>0 DEF CountOK, CountedOK
  <2>. QED
    BY <2>1, <2>2
<1>1. NotYetCounted(h)'
  <2>. SUFFICES ASSUME NEW r \in Pending(h)'
                PROVE  Ended(h, r.conn)' /\ counted'[<<h, r.conn>>] = 0
    BY DEF NotYetCounted
  <2>1. CASE r \in Pending(h)
    <3>1. r.conn \in Conns
      BY <2>1, PendingRecords DEF Record
    <3>. QED
      BY <1>i, <1>0, <2>1, <3>1 DEF CountOK, NotYetCounted, Lasting
  <2>2. CASE h = g /\ r = new
    BY <1>0, <1>c, <2>2
  <2>. QED
    BY <2>1, <2>2, PendingAfterReport
<1>2. QueuedOnce(h)' /\ TakenOnce(h)'
  <2>1. CASE queue'[h] = queue[h]
    BY <1>i, <1>0, <2>1 DEF CountOK, QueuedOnce, TakenOnce
  <2>2. CASE h = g /\ queue' = [queue EXCEPT ![g] = Append(queue[g], new)]
    <3>1. \A r \in Pending(g) : r.conn # c
      BY <1>i, <1>0 DEF CountOK, NotYetCounted
    <3>2. queue[g] \in Seq(Record) /\ new \in Record /\ new.conn = c
      BY DEF TypeOK, Record
    <3>. HIDE DEF new
    <3>3. queue'[g] = Append(queue[g], new)
      BY <2>2 DEF TypeOK
    <3>4. /\ \A i \in DOMAIN queue[g] : /\ queue'[g][i] = queue[g][i]
                                       /\ queue'[g][i].conn # c
          /\ queue'[g][Len(queue[g]) + 1].conn = c
          /\ DOMAIN queue'[g] = DOMAIN queue[g] \cup {Len(queue[g]) + 1}
      BY <3>1, <3>2, <3>3, AppendRecord DEF Pending
    <3>5. \A r \in sending[g] : r.conn # c
      BY <3>1 DEF Pending
    <3>6. QueuedOnce(g)'
      BY <1>i, <3>4 DEF CountOK, QueuedOnce
    <3>7. TakenOnce(g)'
      BY <1>i, <1>0, <3>4, <3>5 DEF CountOK, TakenOnce
    <3>. QED
      BY <2>2, <3>6, <3>7
  <2>. QED
    BY <2>1, <2>2, ReportQueue DEF TypeOK
<1>3. CountedOK(h)'
  BY <1>i, <1>0 DEF CountOK, CountedOK, Lasting
<1>. QED
  BY <1>1, <1>2, <1>3 DEF CountOK

\* The sender takes a record, or a record is lost with its sender or channel.
LEMMA CountUnlessPosted ==
  ASSUME TypeOK, Lasting, CountInv, NEW g \in Gateways,
         Crash(g) \/ Take(g) \/ PostFails(g), NEW h \in Gateways
  PROVE  CountOK(h)'
<1>i. CountOK(h)
  BY DEF CountInv
<1>0. counted' = counted
  BY DEF Crash, Take, PostFails
<1>1. NotYetCounted(h)'
  <2>. SUFFICES ASSUME NEW r \in Pending(h)'
                PROVE  Ended(h, r.conn)' /\ counted'[<<h, r.conn>>] = 0
    BY DEF NotYetCounted
  <2>1. r \in Pending(h)
    BY PendingAfterOther DEF Sender
  <2>2. r.conn \in Conns
    BY <2>1, PendingRecords DEF Record
  <2>. QED
    BY <1>i, <1>0, <2>1, <2>2 DEF CountOK, NotYetCounted, Lasting
<1>2. CountedOK(h)'
  BY <1>i, <1>0 DEF CountOK, CountedOK, Lasting
<1>3. QueuedOnce(h)' /\ TakenOnce(h)'
  <2>1. CASE sending'[h] \subseteq sending[h] /\ queue'[h] \in {queue[h], <<>>}
    BY <1>i, <2>1 DEF CountOK, QueuedOnce, TakenOnce
  <2>2. CASE Take(g) /\ h = g
    <3>1. /\ queue[h] \in Seq(Record) /\ queue[h] # <<>>
          /\ queue'[h] = Tail(queue[h]) /\ sending'[h] = {Head(queue[h])}
      BY <2>2 DEF Take, TypeOK
    <3>2. /\ Head(queue[h]) = queue[h][1] /\ 1 \in DOMAIN queue[h]
          /\ \A i \in DOMAIN Tail(queue[h]) :
               /\ i + 1 \in DOMAIN queue[h] /\ i + 1 # 1
               /\ Tail(queue[h])[i] = queue[h][i + 1]
      BY <3>1, TailRecord
    <3>3. DOMAIN Tail(queue[h]) \subseteq Nat
      BY <3>1
    <3>4. QueuedOnce(h)'
      <4>. SUFFICES ASSUME NEW i \in DOMAIN Tail(queue[h]),
                           NEW j \in DOMAIN Tail(queue[h]), i # j
                    PROVE  Tail(queue[h])[i].conn # Tail(queue[h])[j].conn
        BY <3>1 DEF QueuedOnce
      <4>1. i + 1 # j + 1
        BY <3>3
      <4>. QED
        BY <1>i, <3>2, <4>1 DEF CountOK, QueuedOnce
    <3>5. TakenOnce(h)'
      <4>1. \A i \in DOMAIN Tail(queue[h]) : Tail(queue[h])[i].conn # queue[h][1].conn
        BY <1>i, <3>2 DEF CountOK, QueuedOnce
      <4>. QED
        BY <3>1, <3>2, <4>1 DEF TakenOnce
    <3>. QED
      BY <3>4, <3>5
  <2>. QED
    BY <2>1, <2>2 DEF Crash, Take, PostFails, TypeOK
<1>. QED
  BY <1>1, <1>2, <1>3 DEF CountOK

LEMMA CountAfterPost ==
  ASSUME TypeOK, Lasting, CountInv, NEW g \in Gateways, Post(g),
         NEW h \in Gateways
  PROVE  CountOK(h)'
<1>i. CountOK(h) /\ CountOK(g)
  BY DEF CountInv
<1>0. PICK r \in sending[g] :
        /\ counted' = [counted EXCEPT ![<<g, r.conn>>] = @ + 1]
        /\ sending' = [sending EXCEPT ![g] = {}]
        /\ queue' = queue
  BY DEF Post
<1>p. r \in Pending(g) /\ r.conn \in Conns
  BY PendingRecords DEF Pending, TypeOK, Record
<1>1. counted[<<g, r.conn>>] = 0 /\ Ended(g, r.conn)
  BY <1>i, <1>p DEF CountOK, NotYetCounted
<1>2. \A d \in Conns : (h = g /\ d = r.conn) \/ counted'[<<h, d>>] = counted[<<h, d>>]
  BY <1>0 DEF TypeOK
<1>n. counted'[<<g, r.conn>>] = 1
  <2>1. <<g, r.conn>> \in Gateways \X Conns
    BY <1>p
  <2>2. counted'[<<g, r.conn>>] = counted[<<g, r.conn>>] + 1
    BY <1>0, <2>1 DEF TypeOK
  <2>. QED
    BY <1>1, <2>2
<1>3. CountedOK(h)'
  <2>. SUFFICES ASSUME NEW d \in Conns
                PROVE  /\ counted'[<<h, d>>] <= 1
                       /\ counted'[<<h, d>>] = 1 => Ended(h, d)'
    BY DEF CountedOK
  <2>1. CASE h = g /\ d = r.conn
    BY <1>1, <1>n, <2>1 DEF Lasting
  <2>2. CASE counted'[<<h, d>>] = counted[<<h, d>>]
    BY <1>i, <2>2 DEF CountOK, CountedOK, Lasting
  <2>. QED
    BY <1>2, <2>1, <2>2
<1>4. /\ queue'[h] = queue[h] /\ sending'[h] \subseteq sending[h]
      /\ h = g => sending'[h] = {}
  BY <1>0 DEF TypeOK
<1>5. NotYetCounted(h)'
  <2>. SUFFICES ASSUME NEW s \in Pending(h)'
                PROVE  Ended(h, s.conn)' /\ counted'[<<h, s.conn>>] = 0
    BY DEF NotYetCounted
  <2>1. s \in Pending(h)
    BY <1>4 DEF Pending
  <2>2. s.conn \in Conns
    BY <2>1, PendingRecords DEF Record
  <2>3. h = g => s.conn # r.conn
    BY <1>i, <1>4 DEF Pending, CountOK, TakenOnce
  <2>. QED
    BY <1>i, <1>2, <2>1, <2>2, <2>3 DEF CountOK, NotYetCounted, Lasting
<1>6. QueuedOnce(h)' /\ TakenOnce(h)'
  BY <1>i, <1>4 DEF CountOK, QueuedOnce, TakenOnce
<1>. QED
  BY <1>3, <1>5, <1>6 DEF CountOK

LEMMA StepCount ==
  ASSUME TypeOK, TypeOK', SessionInv, CountInv, [Next]_vars
  PROVE  CountInv'
<1>. SUFFICES ASSUME NEW h \in Gateways PROVE CountOK(h)'
  BY DEF CountInv
<1>l. Lasting
  BY StepSessions
<1>1. CASE UNCHANGED telemetryVars
  <2>1. CountOK(h)
    BY DEF CountInv
  <2>2. \A r \in Pending(h) : r.conn \in Conns
    BY PendingRecords DEF Record
  <2>3. Pending(h)' = Pending(h)
    BY <1>1 DEF telemetryVars, Pending
  <2>. QED
    BY <1>1, <1>l, <2>1, <2>2, <2>3 DEF telemetryVars, CountOK, NotYetCounted,
       QueuedOnce, TakenOnce, CountedOK, Lasting
<1>2. ASSUME NEW g \in Gateways, NEW c \in Conns, NEW v \in Verdicts,
             Reports(g, c, v)
      PROVE  CountOK(h)'
  BY <1>l, <1>2, CountAfterReport
<1>3. ASSUME NEW g \in Gateways, Crash(g) \/ Sender(g) PROVE CountOK(h)'
  BY <1>l, <1>3, CountUnlessPosted, CountAfterPost DEF Sender
<1>. QED
  BY <1>1, <1>2, <1>3, StepRecords

LEMMA InitCount == Init => CountInv
<1>. SUFFICES ASSUME Init, NEW g \in Gateways PROVE CountOK(g)
  BY DEF CountInv
<1>1. queue[g] = <<>> /\ sending[g] = {}
  BY DEF Init
<1>2. \A c \in Conns : counted[<<g, c>>] = 0
  BY DEF Init
<1>. QED
  BY <1>1, <1>2 DEF CountOK, NotYetCounted, QueuedOnce, TakenOnce, CountedOK, Pending

LEMMA CountInvariant == Spec => []CountInv
BY InitCount, StepCount, TypeCorrect, SessionInvariant, PTL DEF Spec

\* Trace counts each gateway's report of a connection at most once, across
\* full channels, failed POSTs and crashes (telemetry.rs lines 29-75).
THEOREM CountedOnce == Spec => []CountedAtMostOnce
<1>1. CountInv => CountedAtMostOnce
  BY DEF CountInv, CountOK, CountedOK, CountedAtMostOnce
<1>. QED
  BY <1>1, CountInvariant, PTL

-----------------------------------------------------------------------------
(* The telemetry is an AtMostOnce, step by step.                           *)

\* The reports of AtMostOnce that are over and on their way.
Over == {gc \in Gateways \X Conns : Ended(gc[1], gc[2])}
OnTheirWay == {gc \in Gateways \X Conns : \E r \in Pending(gc[1]) : r.conn = gc[2]}

LEMMA OnTheirWayPairs ==
  ASSUME NEW g \in Gateways, NEW c \in Conns
  PROVE  /\ <<g, c>> \in OnTheirWay <=> \E r \in Pending(g) : r.conn = c
         /\ <<g, c>> \in Over <=> Ended(g, c)
BY DEF OnTheirWay, Over

\* What a handler reports is on its way unless the channel was full.
LEMMA ReportedOrDropped ==
  ASSUME TypeOK, NEW g \in Gateways, NEW c \in Conns, NEW v \in Verdicts,
         Reports(g, c, v)
  PROVE  \/ OnTheirWay' = OnTheirWay
         \/ OnTheirWay' = OnTheirWay \cup {<<g, c>>}
<1>. DEFINE new == [conn |-> c, verdict |-> v]
<1>1. /\ sending' = sending /\ new \in Record /\ queue[g] \in Seq(Record)
      /\ new.conn = c
  BY DEF Reports, Record, TypeOK
<1>2. CASE queue' = queue
  BY <1>1, <1>2 DEF OnTheirWay, Pending
<1>3. CASE queue' = [queue EXCEPT ![g] = Append(queue[g], new)]
  <2>. HIDE DEF new
  <2>1. /\ queue'[g] = Append(queue[g], new)
        /\ \A h \in Gateways : h # g => queue'[h] = queue[h]
    BY <1>3 DEF TypeOK
  <2>2. Pending(g)' = Pending(g) \cup {new}
    <3>1. /\ DOMAIN Append(queue[g], new) = DOMAIN queue[g] \cup {Len(queue[g]) + 1}
          /\ Append(queue[g], new)[Len(queue[g]) + 1] = new
          /\ \A i \in DOMAIN queue[g] : Append(queue[g], new)[i] = queue[g][i]
      BY <1>1, AppendRecord
    <3>. QED
      BY <1>1, <2>1, <3>1 DEF Pending
  <2>3. \A h \in Gateways : h # g => Pending(h)' = Pending(h)
    BY <1>1, <2>1 DEF Pending
  <2>4. OnTheirWay' = OnTheirWay \cup {<<g, c>>}
    BY <1>1, <2>2, <2>3 DEF OnTheirWay
  <2>. QED
    BY <2>4
<1>. QED
  BY <1>2, <1>3, ReportQueue

\* A record that has been posted is nowhere else.
LEMMA PostedIsGone ==
  ASSUME TypeOK, CountInv, NEW g \in Gateways, Post(g)
  PROVE  \E gc \in OnTheirWay :
           /\ OnTheirWay' = OnTheirWay \ {gc}
           /\ counted' = [counted EXCEPT ![gc] = @ + 1]
<1>0. PICK r \in sending[g] :
        /\ counted' = [counted EXCEPT ![<<g, r.conn>>] = @ + 1]
        /\ sending' = [sending EXCEPT ![g] = {}]
        /\ queue' = queue
  BY DEF Post
<1>1. r \in Pending(g) /\ r.conn \in Conns
  BY PendingRecords DEF Pending, TypeOK, Record
<1>2. TakenOnce(g)
  BY DEF CountInv, CountOK
<1>3. /\ sending'[g] = {}
      /\ \A h \in Gateways : h # g => sending'[h] = sending[h]
  BY <1>0 DEF TypeOK
<1>4. \A h \in Gateways : h # g => Pending(h)' = Pending(h)
  BY <1>0, <1>3 DEF Pending
<1>5. \A c \in Conns :
        (\E s \in Pending(g)' : s.conn = c)
          <=> c # r.conn /\ \E s \in Pending(g) : s.conn = c
  BY <1>0, <1>2, <1>3 DEF TakenOnce, Pending
<1>6. OnTheirWay' = OnTheirWay \ {<<g, r.conn>>}
  BY <1>4, <1>5 DEF OnTheirWay
<1>. QED
  BY <1>0, <1>1, <1>6 DEF OnTheirWay

\* Every step of the gateways is a step of AtMostOnce, or none.
LEMMA StepReporting ==
  ASSUME TypeOK, SessionInv, CountInv, [Next]_vars
  PROVE  [Reporting!Next]_(Reporting!vars)
<1>. USE DEF Reporting!Next, Reporting!vars, Reporting!Lose, Reporting!Progress,
             Reporting!Report, Reporting!Count
<1>o. Over \subseteq Over' /\ Over' \subseteq Gateways \X Conns
  BY StepSessions DEF Lasting, Over
<1>1. CASE OnTheirWay' \subseteq OnTheirWay /\ UNCHANGED counted
  BY <1>o, <1>1 DEF Over, OnTheirWay
<1>2. CASE UNCHANGED telemetryVars
  BY <1>1, <1>2 DEF telemetryVars, OnTheirWay, Pending
<1>3. ASSUME NEW g \in Gateways, NEW c \in Conns, NEW v \in Verdicts,
             Reports(g, c, v)
      PROVE  [Reporting!Next]_(Reporting!vars)
  <2>1. UNCHANGED counted /\ <<g, c>> \in Over' \ Over
    BY <1>3 DEF Reports, Over
  <2>2. CASE OnTheirWay' = OnTheirWay
    BY <1>1, <2>1, <2>2
  <2>3. CASE OnTheirWay' = OnTheirWay \cup {<<g, c>>}
    BY <1>o, <2>1, <2>3 DEF Over, OnTheirWay
  <2>. QED
    BY <1>3, <2>2, <2>3, ReportedOrDropped
<1>4. ASSUME NEW g \in Gateways, Crash(g) \/ Take(g) \/ PostFails(g)
      PROVE  [Reporting!Next]_(Reporting!vars)
  <2>1. UNCHANGED counted
    BY <1>4 DEF Crash, Take, PostFails
  <2>2. OnTheirWay' \subseteq OnTheirWay
    BY <1>4, PendingAfterOther DEF Sender, OnTheirWay
  <2>. QED
    BY <1>1, <2>1, <2>2
<1>5. ASSUME NEW g \in Gateways, Post(g)
      PROVE  [Reporting!Next]_(Reporting!vars)
  <2>1. Over' = Over
    BY <1>5 DEF Post, Over, Ended
  <2>2. PICK gc \in OnTheirWay :
          /\ OnTheirWay' = OnTheirWay \ {gc}
          /\ counted' = [counted EXCEPT ![gc] = @ + 1]
    BY <1>5, PostedIsGone
  <2>. QED
    BY <2>1, <2>2 DEF Over, OnTheirWay
<1>. QED
  BY <1>2, <1>3, <1>4, <1>5, StepRecords DEF Sender

LEMMA InitReporting == Init => Reporting!Init
BY DEF Init, Reporting!Init, Ended, Pending

\* Emitting, queueing, posting, losing and crashing amount to sending each
\* connection's report at most once and forgetting it (telemetry.rs lines 29-75,
\* egress.rs lines 82-220, ingress.rs lines 55-79).
THEOREM TelemetryImplementsAtMostOnce == Spec => ReportsAtMostOnce
<1>1. TypeOK /\ SessionInv /\ CountInv /\ [Next]_vars
        => [Reporting!Next]_(Reporting!vars)
  BY StepReporting
<1>. QED
  BY <1>1, InitReporting, TypeCorrect, SessionInvariant, CountInvariant, PTL
     DEF Spec, ReportsAtMostOnce, Reporting!Spec

\* What follows for whoever reads Trace: a count is of a connection whose handler
\* is done, and no second report of it is on its way.
THEOREM CountedRightly == Spec => []Reporting!CountedRight
<1>. USE DEF Reporting!CountedRight
<1>1. Reporting!Init => Reporting!CountedRight
  BY DEF Reporting!Init
<1>2. TypeOK /\ Reporting!CountedRight /\ [Reporting!Next]_(Reporting!vars)
        => Reporting!CountedRight'
  <2>. SUFFICES ASSUME TypeOK, Reporting!CountedRight,
                       [Reporting!Next]_(Reporting!vars)
                PROVE  Reporting!CountedRight'
    OBVIOUS
  <2>0. counted \in [Gateways \X Conns -> Nat]
    BY DEF TypeOK
  <2>1. CASE Reporting!Lose
    BY <2>1 DEF Reporting!Lose, Reporting!Progress
  <2>2. ASSUME NEW j \in Gateways \X Conns, Reporting!Report(j)
        PROVE  Reporting!CountedRight'
    BY <2>2 DEF Reporting!Report, Reporting!Progress
  <2>3. ASSUME NEW j \in Gateways \X Conns, Reporting!Count(j)
        PROVE  Reporting!CountedRight'
    BY <2>0, <2>3 DEF Reporting!Count
  <2>4. CASE UNCHANGED Reporting!vars
    BY <2>4 DEF Reporting!vars
  <2>. QED
    BY <2>1, <2>2, <2>3, <2>4 DEF Reporting!Next
<1>. QED
  BY <1>1, <1>2, TelemetryImplementsAtMostOnce, TypeCorrect, PTL
     DEF ReportsAtMostOnce, Reporting!Spec

=============================================================================
