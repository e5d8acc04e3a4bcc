--------------------- MODULE PolicyDistributionProofs ---------------------
(***************************************************************************)
(* Theorems about PolicyDistribution, for every set of nodes and handlers  *)
(* and every bound.                                                        *)
(***************************************************************************)
EXTENDS PolicyDistribution, TLAPS

\* Every stream that is in use or registered, and every OnConnect goroutine
\* that runs, belongs to a node.
OwnerKnown ==
  /\ \A s \in Streams :
       phase[s] # "unused" \/ connect[s].pc # "none" => owner[s] \in Nodes
  /\ \A n \in Nodes : streams[n] # NoStream => owner[streams[n]] \in Nodes

TypeInv == TypeOK /\ OwnerKnown

\* The fields of a push are those of the channels' type.
LEMMA PushTypes ==
  ASSUME TypeInv
  PROVE  /\ CertPush \in Push
         /\ \A s \in Streams : ConnectPush(connect[s]) \in Push
         /\ \A h \in Handlers : ConfigPush(handler[h]) \in Push
  BY ConstantsAssumption
     DEF TypeInv, TypeOK, Push, CertPush, ConnectPush, ConfigPush,
         HandlerState, ConnectState, ConstantsAssumption

\* Distributor.send keeps the channels well typed and within their capacity.
LEMMA EnqueueType ==
  ASSUME TypeInv, NEW as, NEW push \in Push, Enqueue(as, push)
  PROVE  /\ send' \in [Streams -> Seq(Push)]
         /\ \A s \in Streams : Len(send'[s]) <= ChanCap
<1>1. CASE send' = send
  BY <1>1 DEF TypeInv, TypeOK
<1>2. CASE /\ send' = [send EXCEPT ![as] = Append(@, push)]
           /\ Len(send[as]) < ChanCap
  <2>1. send \in [Streams -> Seq(Push)]
    BY DEF TypeInv, TypeOK
  <2>2. ASSUME NEW s \in Streams
        PROVE  send'[s] \in Seq(Push) /\ Len(send'[s]) <= ChanCap
    <3>1. CASE s = as
      <4>1. send'[s] = Append(send[s], push) /\ send[s] \in Seq(Push)
        BY <2>1, <1>2, <3>1
      <4>2. /\ send'[s] \in Seq(Push)
            /\ Len(send'[s]) = Len(send[s]) + 1
            /\ Len(send[s]) \in Nat
        BY <4>1
      <4>3. ChanCap \in Nat
        BY ConstantsAssumption DEF ConstantsAssumption
      <4>4. Len(send[s]) < ChanCap
        BY <1>2, <3>1
      <4> QED BY <4>2, <4>3, <4>4
    <3>2. CASE s # as
      BY <3>2, <2>1, <1>2 DEF TypeInv, TypeOK
    <3> QED BY <3>1, <3>2
  <2>3. send' = [s \in Streams |-> send'[s]]
    BY <2>1, <1>2
  <2> QED BY <2>2, <2>3
<1> QED BY <1>1, <1>2 DEF Enqueue

LEMMA TypeInit == Init => TypeInv
<1> SUFFICES ASSUME Init PROVE TypeInv
  OBVIOUS
<1> USE ConstantsAssumption DEF ConstantsAssumption
<1>1. TypeOK
  BY DEF Init, TypeOK, Engine, IdleHandler, NotConnecting, NoPolicy,
         HandlerState, ConnectState, CacheState
<1>2. OwnerKnown
  BY DEF Init, OwnerKnown, NotConnecting
<1> QED BY <1>1, <1>2 DEF TypeInv

\* The updates the steps make to a goroutine's record keep it in its type.
LEMMA ConnectStateUpdates ==
  ASSUME NEW r \in ConnectState
  PROVE  /\ NotConnecting \in ConnectState
         /\ [NotConnecting EXCEPT !.pc = "rules"] \in ConnectState
         /\ \A a \in 0..MaxConfig :
              [r EXCEPT !.pc = "dflt", !.allow = a] \in ConnectState
         /\ \A a \in 0..MaxConfig :
              [r EXCEPT !.pc = "lookup", !.dflt = a] \in ConnectState
         /\ \A as \in Streams \cup {NoStream} :
              [r EXCEPT !.pc = "send", !.as = as] \in ConnectState
         /\ r.item # CertsPerHello =>
              [r EXCEPT !.pc = "lookup", !.item = r.item + 1,
                        !.as = NoStream]
                \in ConnectState
<1>1. NotConnecting \in ConnectState
  BY ConstantsAssumption DEF NotConnecting, ConnectState, ConstantsAssumption
<1>2. r.item # CertsPerHello => r.item + 1 \in 0..CertsPerHello
  BY ConstantsAssumption DEF ConnectState, ConstantsAssumption
<1>3. ASSUME NEW i \in 0..CertsPerHello
      PROVE  [r EXCEPT !.pc = "lookup", !.item = i, !.as = NoStream]
               \in ConnectState
  BY DEF ConnectState
<1>4. [NotConnecting EXCEPT !.pc = "rules"] \in ConnectState
  BY <1>1 DEF ConnectState
<1>5. ASSUME NEW a \in 0..MaxConfig
      PROVE  /\ [r EXCEPT !.pc = "dflt", !.allow = a] \in ConnectState
             /\ [r EXCEPT !.pc = "lookup", !.dflt = a] \in ConnectState
  BY DEF ConnectState
<1>6. ASSUME NEW as \in Streams \cup {NoStream}
      PROVE  [r EXCEPT !.pc = "send", !.as = as] \in ConnectState
  BY DEF ConnectState
<1> QED BY <1>1, <1>2, <1>3, <1>4, <1>5, <1>6

LEMMA HandlerStateUpdates ==
  ASSUME NEW r \in HandlerState
  PROVE  /\ IdleHandler \in HandlerState
         /\ \A w \in 0..MaxConfig :
              /\ [r EXCEPT !.pc = "swapDflt", !.v = w] \in HandlerState
              /\ [r EXCEPT !.pc = "swapRules", !.v = w] \in HandlerState
         /\ [r EXCEPT !.pc = "rules"] \in HandlerState
         /\ \A a \in 0..MaxConfig :
              /\ [r EXCEPT !.pc = "dflt", !.allow = a] \in HandlerState
              /\ [r EXCEPT !.pc = "snapshot", !.dflt = a] \in HandlerState
         /\ \A todo \in SUBSET Nodes : Sending(r, todo) \in HandlerState
         /\ \A n \in Nodes, as \in Streams \cup {NoStream} :
              [r EXCEPT !.pc = "send", !.todo = r.todo \ {n}, !.as = as]
                \in HandlerState
<1>1. IdleHandler \in HandlerState
  BY ConstantsAssumption DEF IdleHandler, HandlerState, ConstantsAssumption
<1>2. ASSUME NEW w \in 0..MaxConfig
      PROVE  /\ [r EXCEPT !.pc = "swapDflt", !.v = w] \in HandlerState
             /\ [r EXCEPT !.pc = "swapRules", !.v = w] \in HandlerState
             /\ [r EXCEPT !.pc = "dflt", !.allow = w] \in HandlerState
             /\ [r EXCEPT !.pc = "snapshot", !.dflt = w] \in HandlerState
  BY DEF HandlerState
<1>3. [r EXCEPT !.pc = "rules"] \in HandlerState
  BY DEF HandlerState
<1>4. ASSUME NEW todo \in SUBSET Nodes
      PROVE  [r EXCEPT !.pc = "lookup", !.todo = todo, !.as = NoStream]
               \in HandlerState
  BY DEF HandlerState
<1>5. ASSUME NEW n \in Nodes, NEW as \in Streams \cup {NoStream}
      PROVE  [r EXCEPT !.pc = "send", !.todo = r.todo \ {n}, !.as = as]
               \in HandlerState
  <2>1. r.todo \ {n} \in SUBSET Nodes
    BY DEF HandlerState
  <2>2. ASSUME NEW todo \in SUBSET Nodes
        PROVE  [r EXCEPT !.pc = "send", !.todo = todo, !.as = as]
                 \in HandlerState
    BY DEF HandlerState
  <2> QED BY <2>1, <2>2
<1> QED BY <1>1, <1>2, <1>3, <1>4, <1>5 DEF Sending

LEMMA AdvanceType ==
  ASSUME TypeInv, NEW s \in Streams, ConnectAdvance(s)
  PROVE  /\ connect' \in [Streams -> ConnectState]
         /\ \A t \in Streams : t # s => connect'[t] = connect[t]
<1>1. connect \in [Streams -> ConnectState] /\ connect[s] \in ConnectState
  BY DEF TypeInv, TypeOK
<1> DEFINE c == IF connect[s].item = CertsPerHello THEN NotConnecting
                ELSE [connect[s] EXCEPT !.pc = "lookup",
                                        !.item = connect[s].item + 1,
                                        !.as = NoStream]
<1>2. c \in ConnectState
  BY <1>1, ConnectStateUpdates
<1>3. connect' = [connect EXCEPT ![s] = c]
  BY DEF ConnectAdvance
<1> HIDE DEF c
<1> QED
  BY <1>1, <1>2, <1>3

LEMMA TypeStep == TypeInv /\ [Next]_vars => TypeInv'
<1> SUFFICES ASSUME TypeInv, [Next]_vars PROVE TypeInv'
  OBVIOUS
<1> USE ConstantsAssumption
    DEF TypeInv, TypeOK, sigilVars, distVars, agentVars, ConstantsAssumption
<1>1. ASSUME NEW n \in Nodes, NEW s \in Streams, AgentSubscribe(n, s)
      PROVE  TypeInv'
  <2>1. TypeOK'
    BY <1>1 DEF AgentSubscribe
  <2>2. OwnerKnown'
    BY <1>1 DEF AgentSubscribe, OwnerKnown, ConnectState
  <2> QED BY <2>1, <2>2
<1>2. ASSUME NEW n \in Nodes, AgentDisconnect(n)
      PROVE  TypeInv'
  <2>1. TypeOK'
    BY <1>2 DEF AgentDisconnect
  <2>2. OwnerKnown'
    BY <1>2 DEF AgentDisconnect, OwnerKnown, ConnectState
  <2> QED BY <2>1, <2>2
<1>3. ASSUME NEW n \in Nodes, AgentRestart(n)
      PROVE  TypeInv'
  <2>1. cache' \in [Nodes -> CacheState]
    BY <1>3 DEF AgentRestart, NoPolicy, CacheState
  <2>2. TypeOK'
    BY <1>3, <2>1 DEF AgentRestart
  <2>3. OwnerKnown'
    BY <1>3 DEF AgentRestart, OwnerKnown, ConnectState
  <2> QED BY <2>2, <2>3
<1>4. ASSUME NEW s \in Streams, Subscribe(s)
      PROVE  TypeInv'
  <2>1. connect' \in [Streams -> ConnectState]
    <3>1. connect[s] \in ConnectState
      OBVIOUS
    <3>2. [NotConnecting EXCEPT !.pc = "rules"] \in ConnectState
      BY <3>1, ConnectStateUpdates
    <3> QED BY <1>4, <3>1, <3>2 DEF Subscribe
  <2>2. streams' \in [Nodes -> Streams \cup {NoStream}]
    BY <1>4 DEF Subscribe
  <2>3. TypeOK'
    BY <1>4, <2>1, <2>2 DEF Subscribe
  <2>4. OwnerKnown'
    <3>1. \A t \in Streams : t # s => connect'[t] = connect[t]
      BY <1>4 DEF Subscribe
    <3>2. /\ \A t \in Streams : phase'[t] # "unused" =>
               phase[t] # "unused" \/ t = streams[owner[s]]
          /\ streams' = [streams EXCEPT ![owner[s]] = s]
      BY <1>4 DEF Subscribe
    <3>3. phase[s] # "unused" /\ owner' = owner
      BY <1>4 DEF Subscribe
    <3>4. \A t \in Streams :
            phase'[t] # "unused" \/ connect'[t].pc # "none" => owner[t] \in Nodes
      BY <3>1, <3>2, <3>3 DEF OwnerKnown, Streams, NoStream
    <3>5. \A n \in Nodes : streams'[n] # NoStream => owner[streams'[n]] \in Nodes
      BY <3>2, <3>3 DEF OwnerKnown
    <3> QED BY <3>3, <3>4, <3>5 DEF OwnerKnown
  <2> QED BY <2>3, <2>4
<1>5. ASSUME NEW s \in Streams, StreamSend(s)
      PROVE  TypeInv'
  <2>1. cache' \in [Nodes -> CacheState]
    <3>1. Head(send[s]) \in Push
      BY <1>5 DEF StreamSend
    <3>2. \A old \in CacheState : Applied(Head(send[s]), old) \in CacheState
      BY <3>1 DEF Applied, Push, CacheState
    <3> QED BY <1>5, <3>2 DEF StreamSend
  <2>2. send' \in [Streams -> Seq(Push)]
    BY <1>5 DEF StreamSend
  <2>3. \A t \in Streams : Len(send'[t]) <= ChanCap
    BY <1>5 DEF StreamSend
  <2>4. TypeOK'
    BY <1>5, <2>1, <2>2, <2>3 DEF StreamSend
  <2>5. OwnerKnown'
    BY <1>5 DEF StreamSend, OwnerKnown, ConnectState
  <2> QED BY <2>4, <2>5
<1>6. ASSUME NEW s \in Streams, SubscribeReturn(s)
      PROVE  TypeInv'
  <2>1. send' \in [Streams -> Seq(Push)]
    BY <1>6 DEF SubscribeReturn
  <2>2. \A t \in Streams : Len(send'[t]) <= ChanCap
    BY <1>6 DEF SubscribeReturn
  <2>3. TypeOK'
    BY <1>6, <2>1, <2>2 DEF SubscribeReturn
  <2>4. OwnerKnown'
    BY <1>6 DEF SubscribeReturn, OwnerKnown, ConnectState
  <2> QED BY <2>3, <2>4
<1>7. ASSUME NEW s \in Streams, ConnectReadRules(s)
      PROVE  TypeInv'
  <2>1. connect' \in [Streams -> ConnectState]
    <3>1. connect[s] \in ConnectState
      OBVIOUS
    <3>2. [connect[s] EXCEPT !.pc = "dflt", !.allow = eng.allow] \in ConnectState
      BY <3>1, ConnectStateUpdates DEF Engine
    <3> QED BY <1>7, <3>1, <3>2 DEF ConnectReadRules
  <2>2. TypeOK'
    BY <1>7, <2>1 DEF ConnectReadRules
  <2>3. OwnerKnown'
    BY <1>7 DEF ConnectReadRules, OwnerKnown, ConnectState
  <2> QED BY <2>2, <2>3
<1>8. ASSUME NEW s \in Streams, ConnectReadDefault(s)
      PROVE  TypeInv'
  <2>1. connect' \in [Streams -> ConnectState]
    <3>1. connect[s] \in ConnectState
      OBVIOUS
    <3>2. [connect[s] EXCEPT !.pc = "lookup", !.dflt = eng.dflt] \in ConnectState
      BY <3>1, ConnectStateUpdates DEF Engine
    <3> QED BY <1>8, <3>1, <3>2 DEF ConnectReadDefault
  <2>2. TypeOK'
    BY <1>8, <2>1 DEF ConnectReadDefault
  <2>3. OwnerKnown'
    BY <1>8 DEF ConnectReadDefault, OwnerKnown, ConnectState
  <2> QED BY <2>2, <2>3
<1>9. ASSUME NEW s \in Streams, ConnectSkip(s)
      PROVE  TypeInv'
  <2>1. connect' \in [Streams -> ConnectState]
    BY <1>9, AdvanceType DEF ConnectSkip
  <2>2. TypeOK'
    BY <1>9, <2>1 DEF ConnectSkip
  <2>3. OwnerKnown'
    BY <1>9 DEF ConnectSkip, OwnerKnown, ConnectState, ConnectAdvance, NotConnecting
  <2> QED BY <2>2, <2>3
<1>10. ASSUME NEW s \in Streams, ConnectLookup(s)
      PROVE  TypeInv'
  <2>1. connect' \in [Streams -> ConnectState]
    <3>1. connect[s] \in ConnectState /\ owner[s] \in Nodes
      BY <1>10 DEF ConnectLookup, OwnerKnown
    <3>2. [connect[s] EXCEPT !.pc = "send", !.as = streams[owner[s]]]
            \in ConnectState
      BY <3>1, ConnectStateUpdates
    <3> QED BY <1>10, <3>1, <3>2 DEF ConnectLookup
  <2>2. TypeOK'
    BY <1>10, <2>1 DEF ConnectLookup
  <2>3. OwnerKnown'
    BY <1>10 DEF ConnectLookup, OwnerKnown, ConnectState
  <2> QED BY <2>2, <2>3
<1>11. ASSUME NEW s \in Streams, ConnectSend(s)
      PROVE  TypeInv'
  <2>1. connect' \in [Streams -> ConnectState]
    BY <1>11, AdvanceType DEF ConnectSend
  <2>2. send' \in [Streams -> Seq(Push)] /\ \A t \in Streams : Len(send'[t]) <= ChanCap
    BY <1>11, PushTypes, EnqueueType DEF ConnectSend
  <2>3. TypeOK'
    BY <1>11, <2>1, <2>2 DEF ConnectSend
  <2>4. OwnerKnown'
    BY <1>11 DEF ConnectSend, OwnerKnown, ConnectState, ConnectAdvance, NotConnecting
  <2> QED BY <2>3, <2>4
<1>12. ASSUME NEW h \in Handlers, ConfigSwapBegin(h)
      PROVE  TypeInv'
  <2>1. posted' \in 0..MaxConfig /\ posted' = posted + 1
    BY <1>12 DEF ConfigSwapBegin
  <2>2. eng' \in Engine
    BY <1>12, <2>1 DEF ConfigSwapBegin, Engine
  <2>3. handler' \in [Handlers -> HandlerState]
    <3>1. handler[h] \in HandlerState
      OBVIOUS
    <3>2. /\ [handler[h] EXCEPT !.pc = "swapDflt", !.v = posted'] \in HandlerState
          /\ [handler[h] EXCEPT !.pc = "swapRules", !.v = posted'] \in HandlerState
      BY <2>1, <3>1, HandlerStateUpdates
    <3> QED BY <1>12, <2>1, <3>1, <3>2 DEF ConfigSwapBegin
  <2>4. TypeOK'
    BY <1>12, <2>1, <2>2, <2>3 DEF ConfigSwapBegin
  <2>5. OwnerKnown'
    BY <1>12 DEF ConfigSwapBegin, OwnerKnown, ConnectState
  <2> QED BY <2>4, <2>5
<1>13. ASSUME NEW h \in Handlers, ConfigSwapEnd(h)
      PROVE  TypeInv'
  <2>1. eng' \in Engine
    BY <1>13 DEF ConfigSwapEnd, Engine, HandlerState
  <2>2. handler' \in [Handlers -> HandlerState]
    <3>1. handler[h] \in HandlerState
      OBVIOUS
    <3>2. [handler[h] EXCEPT !.pc = "rules"] \in HandlerState
      BY <3>1, HandlerStateUpdates
    <3> QED BY <1>13, <3>1, <3>2 DEF ConfigSwapEnd
  <2>3. TypeOK'
    BY <1>13, <2>1, <2>2 DEF ConfigSwapEnd
  <2>4. OwnerKnown'
    BY <1>13 DEF ConfigSwapEnd, OwnerKnown, ConnectState
  <2> QED BY <2>3, <2>4
<1>14. ASSUME NEW h \in Handlers, ConfigReadRules(h)
      PROVE  TypeInv'
  <2>1. handler' \in [Handlers -> HandlerState]
    <3>1. handler[h] \in HandlerState
      OBVIOUS
    <3>2. [handler[h] EXCEPT !.pc = "dflt", !.allow = eng.allow] \in HandlerState
      BY <3>1, HandlerStateUpdates DEF Engine
    <3> QED BY <1>14, <3>1, <3>2 DEF ConfigReadRules
  <2>2. TypeOK'
    BY <1>14, <2>1 DEF ConfigReadRules
  <2>3. OwnerKnown'
    BY <1>14 DEF ConfigReadRules, OwnerKnown, ConnectState
  <2> QED BY <2>2, <2>3
<1>15. ASSUME NEW h \in Handlers, ConfigReadDefault(h)
      PROVE  TypeInv'
  <2>1. handler' \in [Handlers -> HandlerState]
    <3>1. handler[h] \in HandlerState
      OBVIOUS
    <3>2. [handler[h] EXCEPT !.pc = "snapshot", !.dflt = eng.dflt] \in HandlerState
      BY <3>1, HandlerStateUpdates DEF Engine
    <3> QED BY <1>15, <3>1, <3>2 DEF ConfigReadDefault
  <2>2. TypeOK'
    BY <1>15, <2>1 DEF ConfigReadDefault
  <2>3. OwnerKnown'
    BY <1>15 DEF ConfigReadDefault, OwnerKnown, ConnectState
  <2> QED BY <2>2, <2>3
<1>16. ASSUME NEW h \in Handlers, BroadcastSnapshot(h)
      PROVE  TypeInv'
  <2>1. handler' \in [Handlers -> HandlerState]
    <3>1. handler[h] \in HandlerState
      OBVIOUS
    <3>2. Sending(handler[h], Registered) \in HandlerState
      BY <3>1, HandlerStateUpdates DEF Registered
    <3> QED BY <1>16, <3>1, <3>2 DEF BroadcastSnapshot
  <2>2. TypeOK'
    BY <1>16, <2>1 DEF BroadcastSnapshot
  <2>3. OwnerKnown'
    BY <1>16 DEF BroadcastSnapshot, OwnerKnown, ConnectState
  <2> QED BY <2>2, <2>3
<1>17. ASSUME NEW h \in Handlers, NEW n \in Nodes, BroadcastLookup(h, n)
      PROVE  TypeInv'
  <2>1. handler' \in [Handlers -> HandlerState]
    <3>1. handler[h] \in HandlerState /\ handler[h].todo \ {n} \in SUBSET Nodes
      BY DEF HandlerState
    <3>2. Sending(handler[h], handler[h].todo \ {n}) \in HandlerState
      BY <3>1, HandlerStateUpdates
    <3>3. [handler[h] EXCEPT !.pc = "send",
                             !.todo = handler[h].todo \ {n},
                             !.as = streams[n]]
            \in HandlerState
      BY <3>1, HandlerStateUpdates
    <3>4. CASE streams[n] = NoStream
      BY <1>17, <3>1, <3>2, <3>4 DEF BroadcastLookup
    <3>5. CASE streams[n] # NoStream
      BY <1>17, <3>1, <3>3, <3>5 DEF BroadcastLookup
    <3> QED BY <3>4, <3>5
  <2>2. TypeOK'
    BY <1>17, <2>1 DEF BroadcastLookup
  <2>3. OwnerKnown'
    BY <1>17 DEF BroadcastLookup, OwnerKnown, ConnectState
  <2> QED BY <2>2, <2>3
<1>18. ASSUME NEW h \in Handlers, BroadcastSend(h)
      PROVE  TypeInv'
  <2>1. handler' \in [Handlers -> HandlerState]
    <3>1. handler[h] \in HandlerState /\ handler[h].todo \in SUBSET Nodes
      BY DEF HandlerState
    <3>2. Sending(handler[h], handler[h].todo) \in HandlerState
      BY <3>1, HandlerStateUpdates
    <3> QED BY <1>18, <3>1, <3>2 DEF BroadcastSend
  <2>2. send' \in [Streams -> Seq(Push)] /\ \A t \in Streams : Len(send'[t]) <= ChanCap
    BY <1>18, PushTypes, EnqueueType DEF BroadcastSend
  <2>3. TypeOK'
    BY <1>18, <2>1, <2>2 DEF BroadcastSend
  <2>4. OwnerKnown'
    BY <1>18 DEF BroadcastSend, OwnerKnown, ConnectState
  <2> QED BY <2>3, <2>4
<1>19. ASSUME SigilRestart
      PROVE  TypeInv'
  <2>1. eng' \in Engine /\ restarts' \in 0..MaxRestarts
    BY <1>19 DEF SigilRestart, Engine
  <2>2. handler' \in [Handlers -> HandlerState]
    BY <1>19 DEF SigilRestart, IdleHandler, HandlerState
  <2>3. connect' \in [Streams -> ConnectState]
    BY <1>19 DEF SigilRestart, NotConnecting, ConnectState
  <2>4. send' \in [Streams -> Seq(Push)] /\ \A t \in Streams : Len(send'[t]) <= ChanCap
    BY <1>19 DEF SigilRestart
  <2>5. TypeOK'
    BY <1>19, <2>1, <2>2, <2>3, <2>4 DEF SigilRestart
  <2>6. OwnerKnown'
    BY <1>19 DEF SigilRestart, OwnerKnown, ConnectState, NotConnecting
  <2> QED BY <2>5, <2>6
<1>20. ASSUME UNCHANGED vars
       PROVE  TypeInv'
  BY <1>20 DEF vars, OwnerKnown
<1> QED
  BY <1>1, <1>2, <1>3, <1>4, <1>5, <1>6, <1>7, <1>8, <1>9, <1>10, <1>11, <1>12, <1>13, <1>14, <1>15, <1>16, <1>17, <1>18, <1>19, <1>20
     DEF Next, AgentStep, StreamStep, ConnectStep, ConfigStep

\* Type correctness: every variable stays in its type, and no channel ever
\* holds more than its capacity (distributor.go, lines 108 and 239-243).
THEOREM TypeCorrect == Spec => []TypeOK
<1>1. Spec => []TypeInv
  BY TypeInit, TypeStep, PTL DEF Spec
<1>2. TypeInv => TypeOK
  BY DEF TypeInv
<1> QED BY <1>1, <1>2, PTL

-----------------------------------------------------------------------------
(* The map of registered streams.                                          *)

RegistrationInv == TypeInv /\ ServedIffRegistered

\* Steps that leave the map, the owners and the phases alone.
LEMMA RegistrationFrame ==
  ASSUME ServedIffRegistered, UNCHANGED <<streams, owner, phase>>
  PROVE  ServedIffRegistered'
  BY DEF ServedIffRegistered

LEMMA RegistrationStep == RegistrationInv /\ [Next]_vars => ServedIffRegistered'
<1> SUFFICES ASSUME RegistrationInv, [Next]_vars PROVE ServedIffRegistered'
  OBVIOUS
<1> USE DEF RegistrationInv, TypeInv, sigilVars, distVars, agentVars
<1>1. ASSUME NEW n \in Nodes, NEW s \in Streams, AgentSubscribe(n, s)
      PROVE  ServedIffRegistered'
  <2>1. /\ owner' = [owner EXCEPT ![s] = n]
        /\ phase' = [phase EXCEPT ![s] = "pending"]
        /\ streams' = streams
        /\ phase[s] = "unused"
    BY <1>1 DEF AgentSubscribe
  <2>2. \A m \in Nodes : streams[m] # s
    BY <2>1 DEF ServedIffRegistered, Streams, NoStream
  <2> QED BY <2>1, <2>2 DEF ServedIffRegistered, TypeOK
<1>2. ASSUME NEW s \in Streams, Subscribe(s)
      PROVE  ServedIffRegistered'
  <2> DEFINE n == owner[s]
  <2>1. /\ streams' = [streams EXCEPT ![n] = s]
        /\ phase' = [t \in Streams |-> IF t = s THEN "serving"
                                       ELSE IF t = streams[n] THEN "cancelled"
                                       ELSE phase[t]]
        /\ owner' = owner
        /\ phase[s] = "pending"
    BY <1>2 DEF Subscribe
  <2>2. n \in Nodes
    BY <2>1 DEF OwnerKnown
  <2>3. ASSUME NEW t \in Streams
        PROVE  phase'[t] = "serving" <=>
                 owner'[t] \in Nodes /\ streams'[owner'[t]] = t
    <3>1. CASE t = s
      BY <2>1, <2>2, <3>1 DEF TypeOK
    <3>2. CASE t # s /\ owner[t] = n
      BY <2>1, <2>2, <3>2 DEF ServedIffRegistered, TypeOK
    <3>3. CASE t # s /\ owner[t] # n
      <4>1. t # streams[n]
        BY <2>2, <3>3 DEF ServedIffRegistered, Streams, NoStream
      <4> QED BY <2>1, <2>2, <3>3, <4>1 DEF ServedIffRegistered, TypeOK
    <3> QED BY <3>1, <3>2, <3>3
  <2>4. \A m \in Nodes : streams'[m] # NoStream => owner'[streams'[m]] = m
    BY <2>1, <2>2 DEF ServedIffRegistered, TypeOK
  <2> QED BY <2>3, <2>4 DEF ServedIffRegistered
<1>3. ASSUME NEW s \in Streams, SubscribeReturn(s)
      PROVE  ServedIffRegistered'
  <2> DEFINE n == owner[s]
  <2>1. /\ streams' = [streams EXCEPT ![n] = IF @ = s THEN NoStream ELSE @]
        /\ phase' = [phase EXCEPT ![s] = "returned"]
        /\ owner' = owner
        /\ phase[s] # "unused"
    BY <1>3 DEF SubscribeReturn
  <2>2. n \in Nodes
    BY <2>1 DEF OwnerKnown
  <2>3. ASSUME NEW t \in Streams
        PROVE  phase'[t] = "serving" <=>
                 owner'[t] \in Nodes /\ streams'[owner'[t]] = t
    <3>1. CASE t = s
      BY <2>1, <2>2, <3>1 DEF TypeOK, Streams, NoStream
    <3>2. CASE t # s
      BY <2>1, <2>2, <3>2 DEF ServedIffRegistered, TypeOK, Streams, NoStream
    <3> QED BY <3>1, <3>2
  <2>4. \A m \in Nodes : streams'[m] # NoStream => owner'[streams'[m]] = m
    BY <2>1, <2>2 DEF ServedIffRegistered, TypeOK
  <2> QED BY <2>3, <2>4 DEF ServedIffRegistered
<1>4. ASSUME NEW s \in Streams, StreamSend(s)
      PROVE  ServedIffRegistered'
  BY <1>4, RegistrationFrame DEF StreamSend
<1>5. ASSUME SigilRestart
      PROVE  ServedIffRegistered'
  BY <1>5 DEF SigilRestart, ServedIffRegistered, TypeOK, Streams, NoStream
<1>6. ASSUME NEW n \in Nodes, AgentDisconnect(n) \/ AgentRestart(n)
      PROVE  ServedIffRegistered'
  BY <1>6, RegistrationFrame DEF AgentDisconnect, AgentRestart
<1>7. ASSUME NEW s \in Streams, ConnectStep(s)
      PROVE  ServedIffRegistered'
  BY <1>7, RegistrationFrame
     DEF ConnectStep, ConnectReadRules, ConnectReadDefault, ConnectSkip,
         ConnectLookup, ConnectSend
<1>8. ASSUME NEW h \in Handlers, ConfigSwapBegin(h) \/ ConfigStep(h)
      PROVE  ServedIffRegistered'
  BY <1>8, RegistrationFrame
     DEF ConfigSwapBegin, ConfigStep, ConfigSwapEnd, ConfigReadRules,
         ConfigReadDefault, BroadcastSnapshot, BroadcastLookup, BroadcastSend
<1>9. ASSUME UNCHANGED vars
      PROVE  ServedIffRegistered'
  BY <1>9, RegistrationFrame DEF vars
<1> QED
  BY <1>1, <1>2, <1>3, <1>4, <1>5, <1>6, <1>7, <1>8, <1>9
     DEF Next, AgentStep, StreamStep

\* A stream is served exactly when it is the registered one of its node,
\* whatever the agents, the streams' goroutines and the restarts do
\* (distributor.go, Subscribe).
THEOREM RegistrationExact == Spec => []ServedIffRegistered
<1>1. Init => RegistrationInv
  BY TypeInit DEF Init, RegistrationInv, ServedIffRegistered, Streams, NoStream
<1>2. RegistrationInv /\ [Next]_vars => RegistrationInv'
  BY TypeStep, RegistrationStep DEF RegistrationInv
<1>3. RegistrationInv => ServedIffRegistered
  BY DEF RegistrationInv
<1> QED BY <1>1, <1>2, <1>3, PTL DEF Spec

-----------------------------------------------------------------------------
(* Broadcasts, when one handler at a time accepts documents.               *)

\* The broadcasts of a channel: each is of one document, none is of a document
\* not yet accepted, and they are in the order of their documents.
Ordered(q, last) ==
  \A i \in 1..Len(q) : q[i].kind = "config" =>
    /\ q[i].allow = q[i].dflt
    /\ q[i].allow <= last
    /\ \A j \in 1..i : q[j].kind = "config" => q[j].allow <= q[i].allow

\* What the writer has written and read so far is the last document accepted.
WriterInv ==
  \A h \in Handlers :
    LET w == handler[h] IN
    /\ w.pc \in {"swapDflt", "swapRules"} => w.v = posted
    /\ w.pc = "swapDflt" => eng.allow = posted
    /\ w.pc = "swapRules" => eng.dflt = posted
    /\ w.pc \in {"rules", "dflt", "snapshot", "lookup", "send"} =>
         eng.allow = posted /\ eng.dflt = posted
    /\ w.pc \in {"dflt", "snapshot", "lookup", "send"} => w.allow = posted
    /\ w.pc \in {"snapshot", "lookup", "send"} => w.dflt = posted

\* Nothing is put into the channel of a stream before it is served.
NotServedEmpty ==
  /\ \A s \in Streams : phase[s] \in {"unused", "pending"} => send[s] = <<>>
  /\ \A h \in Handlers : handler[h].pc = "send" =>
       /\ handler[h].as \in Streams
       /\ phase[handler[h].as] \notin {"unused", "pending"}
  /\ \A s \in Streams : connect[s].pc = "send" =>
       /\ connect[s].as \in Streams
       /\ phase[connect[s].as] \notin {"unused", "pending"}

\* An agent's broadcast is of one document and is not ahead of those in the
\* channel of the stream it reads.
CacheBehind ==
  \A n \in Nodes : cache[n].kind = "config" =>
    /\ cache[n].allow = cache[n].dflt
    /\ cache[n].allow <= posted
    /\ reading[n] # NoStream =>
         LET q == send[reading[n]] IN
         \A i \in 1..Len(q) : q[i].kind = "config" => cache[n].allow <= q[i].allow

BroadcastInv ==
  /\ RegistrationInv
  /\ WriterInv
  /\ NotServedEmpty
  /\ \A s \in Streams : Ordered(send[s], posted)
  /\ CacheBehind

LEMMA OrderedTail ==
  ASSUME NEW q \in Seq(Push), NEW last \in Nat, q # <<>>, Ordered(q, last)
  PROVE  /\ Ordered(Tail(q), last)
         /\ \A i \in 1..Len(Tail(q)) : i + 1 \in 1..Len(q) /\ Tail(q)[i] = q[i + 1]
<1>1. /\ Len(Tail(q)) = Len(q) - 1
      /\ Len(q) \in Nat
      /\ \A i \in 1..Len(Tail(q)) : i + 1 \in 1..Len(q) /\ Tail(q)[i] = q[i + 1]
  OBVIOUS
<1>2. ASSUME NEW i \in 1..Len(Tail(q)), Tail(q)[i].kind = "config"
      PROVE  /\ Tail(q)[i].allow = Tail(q)[i].dflt
             /\ Tail(q)[i].allow <= last
             /\ \A j \in 1..i : Tail(q)[j].kind = "config" =>
                  Tail(q)[j].allow <= Tail(q)[i].allow
  <2>1. i + 1 \in 1..Len(q) /\ Tail(q)[i] = q[i + 1]
    BY <1>1
  <2>2. ASSUME NEW j \in 1..i, Tail(q)[j].kind = "config"
        PROVE  Tail(q)[j].allow <= Tail(q)[i].allow
    <3>1. j \in 1..Len(Tail(q)) /\ j + 1 \in 1..(i + 1)
      BY <1>1
    <3>2. Tail(q)[j] = q[j + 1]
      BY <1>1, <3>1
    <3> QED BY <1>2, <2>1, <2>2, <3>1, <3>2 DEF Ordered
  <2> QED BY <1>2, <2>1, <2>2 DEF Ordered
<1> QED BY <1>1, <1>2 DEF Ordered

LEMMA OrderedAppend ==
  ASSUME NEW q \in Seq(Push), NEW last \in 0..MaxConfig, NEW push \in Push,
         Ordered(q, last),
         push.kind = "config" => push.allow = last /\ push.dflt = last
  PROVE  Ordered(Append(q, push), last)
<1> DEFINE r == Append(q, push)
<1>1. /\ Len(r) = Len(q) + 1
      /\ Len(q) \in Nat
      /\ \A i \in 1..Len(q) : r[i] = q[i]
      /\ r[Len(q) + 1] = push
  OBVIOUS
<1>2. last \in Nat /\ last <= last
  BY ConstantsAssumption DEF ConstantsAssumption
<1>3. ASSUME NEW i \in 1..Len(r), r[i].kind = "config"
      PROVE  /\ r[i].allow = r[i].dflt
             /\ r[i].allow <= last
             /\ \A j \in 1..i : r[j].kind = "config" => r[j].allow <= r[i].allow
  <2>1. CASE i = Len(q) + 1
    <3>1. r[i] = push /\ push.allow = last /\ push.dflt = last
      BY <1>1, <1>3, <2>1
    <3>2. ASSUME NEW j \in 1..i, r[j].kind = "config"
          PROVE  r[j].allow <= last
      <4>1. CASE j = i
        BY <3>1, <1>2, <4>1
      <4>2. CASE j # i
        <5>1. j \in 1..Len(q) /\ r[j] = q[j]
          BY <1>1, <2>1, <4>2
        <5> QED BY <5>1, <3>2 DEF Ordered
      <4> QED BY <4>1, <4>2
    <3> QED BY <3>1, <3>2, <1>2
  <2>2. CASE i # Len(q) + 1
    <3>1. i \in 1..Len(q)
      BY <1>1, <2>2
    <3>2. \A j \in 1..i : j \in 1..Len(q) /\ r[j] = q[j]
      BY <1>1, <3>1
    <3>3. r[i] = q[i]
      BY <1>1, <3>1
    <3> HIDE DEF r
    <3> QED BY <3>1, <3>2, <3>3, <1>3 DEF Ordered
  <2> QED BY <2>1, <2>2
<1> QED BY <1>3 DEF Ordered

\* The writer's steps, the only ones that touch the engine but for a restart.
LEMMA WriterStep ==
  ASSUME SingleWriter, BroadcastInv, [Next]_vars
  PROVE  WriterInv'
<1> USE DEF BroadcastInv, RegistrationInv, TypeInv, sigilVars
<1>1. PICK h \in Handlers : Handlers = {h}
  BY DEF SingleWriter
<1>2. handler \in [Handlers -> HandlerState] /\ eng \in Engine /\ posted \in Nat
  BY ConstantsAssumption DEF TypeOK, ConstantsAssumption
<1>3. CASE UNCHANGED <<handler, eng, posted>>
  BY <1>3 DEF WriterInv
<1>4. CASE ConfigSwapBegin(h)
  <2>1. posted' = posted + 1 /\ posted' \in Nat
    BY <1>2, <1>4 DEF ConfigSwapBegin
  <2>2. \/ /\ eng'.allow = posted'
           /\ handler'[h].pc = "swapDflt" /\ handler'[h].v = posted'
        \/ /\ eng'.dflt = posted'
           /\ handler'[h].pc = "swapRules" /\ handler'[h].v = posted'
    <3>1. CASE /\ eng' = [eng EXCEPT !.allow = posted + 1]
               /\ handler' = [handler EXCEPT ![h] =
                     [@ EXCEPT !.pc = "swapDflt", !.v = posted + 1]]
      BY <1>2, <2>1, <3>1 DEF HandlerState, Engine
    <3>2. CASE /\ eng' = [eng EXCEPT !.dflt = posted + 1]
               /\ handler' = [handler EXCEPT ![h] =
                     [@ EXCEPT !.pc = "swapRules", !.v = posted + 1]]
      BY <1>2, <2>1, <3>2 DEF HandlerState, Engine
    <3> QED BY <1>4, <3>1, <3>2 DEF ConfigSwapBegin
  <2> QED BY <1>1, <2>2 DEF WriterInv
<1>5. CASE ConfigSwapEnd(h)
  BY <1>1, <1>2, <1>5 DEF ConfigSwapEnd, WriterInv, HandlerState, Engine
<1>6. CASE ConfigReadRules(h)
  BY <1>1, <1>2, <1>6 DEF ConfigReadRules, WriterInv, HandlerState, Engine
<1>7. CASE ConfigReadDefault(h)
  BY <1>1, <1>2, <1>7 DEF ConfigReadDefault, WriterInv, HandlerState, Engine
<1>8. CASE BroadcastSnapshot(h)
  BY <1>1, <1>2, <1>8
     DEF BroadcastSnapshot, Sending, IdleHandler, WriterInv, HandlerState
<1>9. ASSUME NEW n \in Nodes, BroadcastLookup(h, n)
      PROVE  WriterInv'
  BY <1>1, <1>2, <1>9
     DEF BroadcastLookup, Sending, IdleHandler, WriterInv, HandlerState
<1>10. CASE BroadcastSend(h)
  BY <1>1, <1>2, <1>10
     DEF BroadcastSend, Sending, IdleHandler, WriterInv, HandlerState
<1>11. CASE SigilRestart
  BY <1>11 DEF SigilRestart, IdleHandler, WriterInv
<1>12. \/ UNCHANGED <<handler, eng, posted>>
       \/ ConfigSwapBegin(h) \/ ConfigStep(h)
       \/ SigilRestart
  BY <1>1
     DEF Next, AgentStep, AgentSubscribe, AgentDisconnect, AgentRestart,
         StreamStep, Subscribe, StreamSend, SubscribeReturn, ConnectStep,
         ConnectReadRules, ConnectReadDefault, ConnectSkip, ConnectLookup,
         ConnectSend, vars
<1> QED
  BY <1>3, <1>4, <1>5, <1>6, <1>7, <1>8, <1>9, <1>10, <1>11, <1>12
     DEF ConfigStep

\* What a step can do to a channel.
LEMMA ChannelSteps ==
  ASSUME SingleWriter, BroadcastInv, [Next]_vars, NEW s \in Streams
  PROVE  \/ send'[s] = send[s]
         \/ send'[s] = <<>>
         \/ /\ phase[s] \in {"serving", "cancelled"}
            /\ send[s] # <<>>
            /\ send'[s] = Tail(send[s])
            /\ StreamSend(s)
         \/ /\ phase[s] \notin {"unused", "pending"}
            /\ reading' = reading /\ cache' = cache /\ posted' = posted
            /\ phase' = phase
            /\ \E push \in Push :
                 /\ send'[s] = Append(send[s], push)
                 /\ push.kind = "config" => push.allow = posted /\ push.dflt = posted
<1> USE DEF BroadcastInv, RegistrationInv, TypeInv, sigilVars, distVars, agentVars
<1>1. send \in [Streams -> Seq(Push)]
  BY DEF TypeOK
<1>2. CASE UNCHANGED send
  BY <1>2
<1>3. ASSUME NEW t \in Streams, StreamSend(t)
      PROVE  \/ send'[s] = send[s]
             \/ /\ phase[s] \in {"serving", "cancelled"}
                /\ send[s] # <<>>
                /\ send'[s] = Tail(send[s])
                /\ StreamSend(s)
  BY <1>1, <1>3 DEF StreamSend
<1>4. ASSUME NEW t \in Streams, SubscribeReturn(t)
      PROVE  send'[s] = send[s] \/ send'[s] = <<>>
  BY <1>1, <1>4 DEF SubscribeReturn
<1>5. ASSUME NEW as \in Streams, NEW push \in Push, Enqueue(as, push),
             phase[as] \notin {"unused", "pending"},
             UNCHANGED <<reading, cache, posted, phase>>,
             push.kind = "config" => push.allow = posted /\ push.dflt = posted
      PROVE  \/ send'[s] = send[s]
             \/ /\ phase[s] \notin {"unused", "pending"}
                /\ reading' = reading /\ cache' = cache /\ posted' = posted
                /\ phase' = phase
                /\ \E p \in Push :
                     /\ send'[s] = Append(send[s], p)
                     /\ p.kind = "config" => p.allow = posted /\ p.dflt = posted
  BY <1>1, <1>5 DEF Enqueue
<1>6. ASSUME NEW t \in Streams, ConnectSend(t)
      PROVE  /\ connect[t].as \in Streams
             /\ ConnectPush(connect[t]) \in Push
             /\ ConnectPush(connect[t]).kind # "config"
             /\ Enqueue(connect[t].as, ConnectPush(connect[t]))
             /\ phase[connect[t].as] \notin {"unused", "pending"}
             /\ UNCHANGED <<reading, cache, posted, phase>>
  BY <1>6, PushTypes DEF ConnectSend, ConnectPush, CertPush, NotServedEmpty
<1>7. ASSUME NEW h \in Handlers, BroadcastSend(h)
      PROVE  /\ handler[h].as \in Streams
             /\ ConfigPush(handler[h]) \in Push
             /\ ConfigPush(handler[h]).allow = posted
             /\ ConfigPush(handler[h]).dflt = posted
             /\ Enqueue(handler[h].as, ConfigPush(handler[h]))
             /\ phase[handler[h].as] \notin {"unused", "pending"}
             /\ UNCHANGED <<reading, cache, posted, phase>>
  BY <1>7, PushTypes DEF BroadcastSend, ConfigPush, NotServedEmpty, WriterInv
<1>8. CASE SigilRestart
  BY <1>8 DEF SigilRestart
<1>9. \/ UNCHANGED send
      \/ \E t \in Streams : StreamSend(t) \/ SubscribeReturn(t) \/ ConnectSend(t)
      \/ \E h \in Handlers : BroadcastSend(h)
      \/ SigilRestart
  BY DEF Next, AgentStep, AgentSubscribe, AgentDisconnect, AgentRestart,
         StreamStep, Subscribe, ConnectStep, ConnectReadRules,
         ConnectReadDefault, ConnectSkip, ConnectLookup, ConfigSwapBegin,
         ConfigStep, ConfigSwapEnd, ConfigReadRules, ConfigReadDefault,
         BroadcastSnapshot, BroadcastLookup, vars
<1>10. ASSUME NEW t \in Streams, ConnectSend(t)
       PROVE  \/ send'[s] = send[s]
              \/ /\ phase[s] \notin {"unused", "pending"}
                 /\ reading' = reading /\ cache' = cache /\ posted' = posted
                 /\ phase' = phase
                 /\ \E p \in Push :
                      /\ send'[s] = Append(send[s], p)
                      /\ p.kind = "config" => p.allow = posted /\ p.dflt = posted
  BY <1>5, <1>6, <1>10
<1>11. ASSUME NEW h \in Handlers, BroadcastSend(h)
       PROVE  \/ send'[s] = send[s]
              \/ /\ phase[s] \notin {"unused", "pending"}
                 /\ reading' = reading /\ cache' = cache /\ posted' = posted
                 /\ phase' = phase
                 /\ \E p \in Push :
                      /\ send'[s] = Append(send[s], p)
                      /\ p.kind = "config" => p.allow = posted /\ p.dflt = posted
  BY <1>5, <1>7, <1>11
<1> QED
  BY <1>2, <1>3, <1>4, <1>8, <1>9, <1>10, <1>11

LEMMA PostedGrows ==
  ASSUME TypeInv, [Next]_vars
  PROVE  posted \in 0..MaxConfig /\ posted' \in 0..MaxConfig /\ posted <= posted'
<1>1. posted \in 0..MaxConfig /\ posted' \in 0..MaxConfig
  BY TypeStep DEF TypeInv, TypeOK
<1>2. posted' = posted \/ posted' = posted + 1
  BY DEF Next, AgentStep, AgentSubscribe, AgentDisconnect, AgentRestart,
         StreamStep, Subscribe, StreamSend, SubscribeReturn, ConnectStep,
         ConnectReadRules, ConnectReadDefault, ConnectSkip, ConnectLookup,
         ConnectSend, ConfigSwapBegin, ConfigStep, ConfigSwapEnd,
         ConfigReadRules, ConfigReadDefault, BroadcastSnapshot,
         BroadcastLookup, BroadcastSend, SigilRestart, vars, sigilVars
<1> QED BY <1>1, <1>2, ConstantsAssumption DEF ConstantsAssumption

LEMMA OrderedStep ==
  ASSUME SingleWriter, BroadcastInv, [Next]_vars, NEW s \in Streams
  PROVE  Ordered(send'[s], posted')
<1>1. /\ posted \in 0..MaxConfig /\ posted' \in 0..MaxConfig
      /\ posted \in Nat /\ posted' \in Nat /\ posted <= posted'
  BY PostedGrows, ConstantsAssumption
     DEF BroadcastInv, RegistrationInv, ConstantsAssumption
<1>2. send[s] \in Seq(Push) /\ Ordered(send[s], posted)
  BY DEF BroadcastInv, RegistrationInv, TypeInv, TypeOK
<1>3. ASSUME NEW q \in Seq(Push), Ordered(q, posted)
      PROVE  Ordered(q, posted')
  <2>1. ASSUME NEW i \in 1..Len(q) PROVE q[i].allow \in 0..MaxConfig
    <3>1. q[i] \in Push
      OBVIOUS
    <3> QED BY <3>1 DEF Push
  <2> QED BY <1>1, <1>3, <2>1, ConstantsAssumption DEF Ordered, ConstantsAssumption
<1>4. CASE send'[s] = send[s]
  BY <1>2, <1>3, <1>4
<1>5. CASE send'[s] = <<>>
  BY <1>5 DEF Ordered
<1>6. CASE send[s] # <<>> /\ send'[s] = Tail(send[s])
  <2>1. Ordered(Tail(send[s]), posted) /\ Tail(send[s]) \in Seq(Push)
    BY <1>1, <1>2, <1>6, OrderedTail
  <2> QED BY <1>3, <1>6, <2>1
<1>7. ASSUME NEW push \in Push, send'[s] = Append(send[s], push),
             push.kind = "config" => push.allow = posted /\ push.dflt = posted
      PROVE  Ordered(send'[s], posted')
  <2>1. Ordered(Append(send[s], push), posted) /\ Append(send[s], push) \in Seq(Push)
    BY <1>1, <1>2, <1>7, OrderedAppend
  <2> QED BY <1>3, <1>7, <2>1
<1> QED
  BY <1>4, <1>5, <1>6, <1>7, ChannelSteps

\* A goroutine of OnConnect that is about to push has just looked its stream
\* up, or was about to push before.
LEMMA ConnectToSend ==
  ASSUME TypeInv, [Next]_vars, NEW s \in Streams, connect'[s].pc = "send"
  PROVE  connect'[s] = connect[s] \/ ConnectLookup(s)
<1> USE DEF TypeInv, sigilVars, distVars, agentVars
<1>1. connect \in [Streams -> ConnectState]
  BY DEF TypeOK
<1>2. CASE connect' = connect
  BY <1>2
<1>3. ASSUME NEW t \in Streams, Subscribe(t)
      PROVE  connect'[s] = connect[s]
  BY <1>1, <1>3 DEF Subscribe, NotConnecting
<1>4. ASSUME NEW t \in Streams, ConnectReadRules(t) \/ ConnectReadDefault(t)
      PROVE  connect'[s] = connect[s]
  BY <1>1, <1>4 DEF ConnectReadRules, ConnectReadDefault, ConnectState
<1>5. ASSUME NEW t \in Streams, ConnectSkip(t) \/ ConnectSend(t)
      PROVE  connect'[s] = connect[s]
  <2>1. connect[t] \in ConnectState
    BY <1>1
  <2>2. connect'[t].pc # "send"
    <3>1. ConnectAdvance(t)
      BY <1>5 DEF ConnectSkip, ConnectSend
    <3>2. [connect[t] EXCEPT !.pc = "lookup",
                             !.item = connect[t].item + 1,
                             !.as = NoStream].pc = "lookup"
      BY <2>1 DEF ConnectState
    <3>3. NotConnecting.pc = "none"
      BY DEF NotConnecting
    <3> QED BY <1>1, <3>1, <3>2, <3>3 DEF ConnectAdvance
  <2> QED BY <1>1, <1>5, <2>2 DEF ConnectSkip, ConnectSend, ConnectAdvance
<1>6. ASSUME NEW t \in Streams, ConnectLookup(t)
      PROVE  connect'[s] = connect[s] \/ ConnectLookup(s)
  BY <1>1, <1>6 DEF ConnectLookup
<1>7. CASE SigilRestart
  BY <1>7 DEF SigilRestart, NotConnecting
<1>8. \/ connect' = connect
      \/ \E t \in Streams : Subscribe(t) \/ ConnectStep(t)
      \/ SigilRestart
  BY DEF Next, AgentStep, AgentSubscribe, AgentDisconnect, AgentRestart,
         StreamStep, StreamSend, SubscribeReturn, ConfigSwapBegin,
         ConfigStep, ConfigSwapEnd, ConfigReadRules, ConfigReadDefault,
         BroadcastSnapshot, BroadcastLookup, BroadcastSend, vars
<1> QED BY <1>2, <1>3, <1>4, <1>5, <1>6, <1>7, <1>8 DEF ConnectStep

LEMMA NotServedEmptyStep ==
  ASSUME SingleWriter, BroadcastInv, [Next]_vars
  PROVE  NotServedEmpty'
<1> USE DEF BroadcastInv, RegistrationInv, TypeInv, sigilVars, distVars, agentVars
<1>1. ASSUME NEW s \in Streams, phase[s] \notin {"unused", "pending"}
      PROVE  phase'[s] \notin {"unused", "pending"}
  BY <1>1
     DEF Next, AgentStep, AgentSubscribe, AgentDisconnect, AgentRestart,
         StreamStep, Subscribe, StreamSend, SubscribeReturn, ConnectStep,
         ConnectReadRules, ConnectReadDefault, ConnectSkip, ConnectLookup,
         ConnectSend, ConfigSwapBegin, ConfigStep, ConfigSwapEnd,
         ConfigReadRules, ConfigReadDefault, BroadcastSnapshot,
         BroadcastLookup, BroadcastSend, SigilRestart, vars, TypeOK
<1>2. ASSUME NEW s \in Streams, phase'[s] \in {"unused", "pending"}
      PROVE  send'[s] = <<>>
  <2>1. phase[s] \in {"unused", "pending"} /\ send[s] = <<>>
    BY <1>1, <1>2 DEF NotServedEmpty
  <2> QED BY <2>1, ChannelSteps
<1>3. ASSUME NEW h \in Handlers, handler'[h].pc = "send"
      PROVE  /\ handler'[h].as \in Streams
             /\ phase'[handler'[h].as] \notin {"unused", "pending"}
  <2>1. CASE handler'[h] = handler[h]
    BY <1>1, <1>3, <2>1 DEF NotServedEmpty
  <2>2. ASSUME NEW n \in Nodes, BroadcastLookup(h, n), handler'[h] # handler[h]
        PROVE  handler'[h].as \in Streams /\ phase[handler'[h].as] = "serving"
    <3>1. handler[h] \in HandlerState /\ handler'[h].pc = "send"
      BY <1>3 DEF TypeOK
    <3>2. streams[n] # NoStream /\ handler'[h].as = streams[n]
      BY <2>2, <3>1
         DEF BroadcastLookup, Sending, IdleHandler, HandlerState, TypeOK
    <3> QED BY <3>2 DEF ServedIffRegistered, TypeOK, NoStream
  <2>3. \/ handler'[h] = handler[h]
        \/ \E n \in Nodes : BroadcastLookup(h, n)
    <3>1. handler \in [Handlers -> HandlerState]
      BY DEF TypeOK
    <3>2. CASE handler' = handler
      BY <3>2
    <3>3. ASSUME NEW g \in Handlers,
                 ConfigSwapBegin(g) \/ ConfigSwapEnd(g) \/ ConfigReadRules(g)
                   \/ ConfigReadDefault(g)
          PROVE  handler'[h] = handler[h]
      BY <1>3, <3>1, <3>3
         DEF ConfigSwapBegin, ConfigSwapEnd, ConfigReadRules,
             ConfigReadDefault, HandlerState
    <3>4. ASSUME NEW g \in Handlers, BroadcastSnapshot(g) \/ BroadcastSend(g)
          PROVE  handler'[h] = handler[h]
      <4>1. \A r \in HandlerState, todo \in SUBSET Nodes :
              Sending(r, todo).pc # "send"
        BY DEF Sending, IdleHandler, HandlerState
      <4>2. handler[g] \in HandlerState /\ handler[g].todo \in SUBSET Nodes
        BY <3>1 DEF HandlerState
      <4>3. handler'[g].pc # "send"
        BY <3>1, <3>4, <4>1, <4>2 DEF BroadcastSnapshot, BroadcastSend, Registered
      <4> QED BY <1>3, <3>1, <3>4, <4>3 DEF BroadcastSnapshot, BroadcastSend
    <3>5. ASSUME NEW g \in Handlers, NEW n \in Nodes, BroadcastLookup(g, n)
          PROVE  handler'[h] = handler[h] \/ BroadcastLookup(h, n)
      BY <3>1, <3>5 DEF BroadcastLookup
    <3>6. CASE SigilRestart
      BY <1>3, <3>6 DEF SigilRestart, IdleHandler
    <3>7. \/ handler' = handler
          \/ \E g \in Handlers : ConfigSwapBegin(g) \/ ConfigStep(g)
          \/ SigilRestart
      BY DEF Next, AgentStep, AgentSubscribe, AgentDisconnect, AgentRestart,
             StreamStep, Subscribe, StreamSend, SubscribeReturn, ConnectStep,
             ConnectReadRules, ConnectReadDefault, ConnectSkip, ConnectLookup,
             ConnectSend, vars
    <3> QED BY <3>2, <3>3, <3>4, <3>5, <3>6, <3>7 DEF ConfigStep
  <2> QED BY <1>1, <2>1, <2>2, <2>3
<1>4. ASSUME NEW s \in Streams, connect'[s].pc = "send"
      PROVE  /\ connect'[s].as \in Streams
             /\ phase'[connect'[s].as] \notin {"unused", "pending"}
  <2>1. CASE connect'[s] = connect[s]
    BY <1>1, <1>4, <2>1 DEF NotServedEmpty
  <2>2. ASSUME ConnectLookup(s)
        PROVE  connect'[s].as \in Streams /\ phase[connect'[s].as] = "serving"
    <3>1. connect[s] \in ConnectState /\ owner[s] \in Nodes
      BY <2>2 DEF TypeOK, OwnerKnown, ConnectLookup
    <3>2. streams[owner[s]] # NoStream /\ connect'[s].as = streams[owner[s]]
      BY <2>2, <3>1 DEF ConnectLookup, ConnectState, TypeOK
    <3> QED BY <3>1, <3>2 DEF ServedIffRegistered, TypeOK, NoStream
  <2>3. connect'[s] = connect[s] \/ ConnectLookup(s)
    BY <1>4, ConnectToSend
  <2> QED BY <1>1, <2>1, <2>2, <2>3
<1> QED BY <1>2, <1>3, <1>4 DEF NotServedEmpty

\* An agent that applies a broadcast takes the head of the channel it reads.
LEMMA CacheSteps ==
  ASSUME BroadcastInv, [Next]_vars, NEW n \in Nodes, cache'[n].kind = "config"
  PROVE  \/ cache'[n] = cache[n]
         \/ \E s \in Streams :
              /\ StreamSend(s) /\ owner[s] = n /\ reading[n] = s
              /\ cache'[n] = Head(send[s])
<1> USE DEF BroadcastInv, RegistrationInv, TypeInv, sigilVars, distVars, agentVars
<1>1. cache \in [Nodes -> CacheState]
  BY DEF TypeOK
<1>2. CASE UNCHANGED cache
  BY <1>2
<1>3. ASSUME NEW m \in Nodes, AgentRestart(m)
      PROVE  cache'[n] = cache[n]
  BY <1>1, <1>3 DEF AgentRestart, NoPolicy
<1>4. ASSUME NEW s \in Streams, StreamSend(s), cache'[n] # cache[n]
      PROVE  /\ owner[s] = n /\ reading[n] = s
             /\ cache'[n] = Head(send[s])
  BY <1>1, <1>4 DEF StreamSend, Applied
<1>5. \/ UNCHANGED cache
      \/ \E m \in Nodes : AgentRestart(m)
      \/ \E s \in Streams : StreamSend(s)
  BY DEF Next, AgentStep, AgentSubscribe, AgentDisconnect, StreamStep,
         Subscribe, SubscribeReturn, ConnectStep, ConnectReadRules,
         ConnectReadDefault, ConnectSkip, ConnectLookup, ConnectSend,
         ConfigSwapBegin, ConfigStep, ConfigSwapEnd, ConfigReadRules,
         ConfigReadDefault, BroadcastSnapshot, BroadcastLookup,
         BroadcastSend, SigilRestart, vars
<1> QED BY <1>2, <1>3, <1>4, <1>5

LEMMA CacheBehindStep ==
  ASSUME SingleWriter, BroadcastInv, [Next]_vars
  PROVE  CacheBehind'
<1> USE DEF BroadcastInv, RegistrationInv, TypeInv
<1>1. ASSUME NEW n \in Nodes, cache'[n].kind = "config"
      PROVE  /\ cache'[n].allow = cache'[n].dflt
             /\ cache'[n].allow <= posted'
  <2>1. posted \in Nat /\ posted' \in Nat /\ posted <= posted'
    BY PostedGrows, ConstantsAssumption DEF ConstantsAssumption
  <2>2. CASE cache'[n] = cache[n]
    <3>1. cache[n].allow \in Nat /\ cache[n].allow <= posted
      BY <1>1, <2>2 DEF TypeOK, CacheState, CacheBehind
    <3> QED BY <1>1, <2>1, <2>2, <3>1 DEF CacheBehind
  <2>3. ASSUME NEW s \in Streams, StreamSend(s), cache'[n] = Head(send[s])
        PROVE  cache'[n].allow = cache'[n].dflt /\ cache'[n].allow <= posted'
    <3>1. send[s] \in Seq(Push) /\ send[s] # <<>>
      BY <2>3 DEF StreamSend, TypeOK
    <3>2. 1 \in 1..Len(send[s]) /\ cache'[n] = send[s][1] /\ send[s][1] \in Push
      BY <2>3, <3>1
    <3>3. cache'[n].allow = cache'[n].dflt /\ cache'[n].allow <= posted
      BY <1>1, <3>2 DEF Ordered
    <3>4. cache'[n].allow \in Nat
      BY <3>2 DEF Push
    <3> QED BY <2>1, <3>3, <3>4
  <2> QED BY <1>1, <2>2, <2>3, CacheSteps
<1>2. ASSUME NEW n \in Nodes, cache'[n].kind = "config", reading'[n] # NoStream,
             NEW i \in 1..Len(send'[reading'[n]]),
             send'[reading'[n]][i].kind = "config"
      PROVE  cache'[n].allow <= send'[reading'[n]][i].allow
  <2> DEFINE s == reading'[n]
  <2>1. s \in Streams /\ send[s] \in Seq(Push)
    BY <1>2, TypeStep DEF TypeOK
  <2>2. CASE reading[n] = s /\ cache'[n] = cache[n]
    <3>0. \A j \in 1..Len(send[s]) :
            send[s][j].kind = "config" => cache[n].allow <= send[s][j].allow
      BY <1>2, <2>1, <2>2 DEF CacheBehind
    <3>1. CASE send'[s] = send[s]
      BY <1>2, <2>2, <3>0, <3>1
    <3>2. CASE send'[s] = <<>>
      BY <1>2, <3>2
    <3>3. CASE send[s] # <<>> /\ send'[s] = Tail(send[s])
      <4>1. i + 1 \in 1..Len(send[s]) /\ send'[s][i] = send[s][i + 1]
        BY <1>2, <2>1, <3>3
      <4> QED BY <1>2, <2>2, <3>0, <4>1
    <3>4. ASSUME posted' = posted,
                 NEW push \in Push, send'[s] = Append(send[s], push),
                 push.kind = "config" => push.allow = posted
          PROVE  cache'[n].allow <= send'[s][i].allow
      <4>1. CASE i \in 1..Len(send[s])
        <5>1. send'[s][i] = send[s][i]
          BY <2>1, <3>4, <4>1
        <5> QED BY <1>2, <2>2, <3>0, <4>1, <5>1
      <4>2. CASE i \notin 1..Len(send[s])
        <5>1. send'[s][i] = push
          BY <1>2, <2>1, <3>4, <4>2
        <5>2. cache'[n].allow <= posted'
          BY <1>1, <1>2
        <5> QED BY <1>2, <3>4, <5>1, <5>2
      <4> QED BY <4>1, <4>2
    <3>5. \/ send'[s] = send[s]
          \/ send'[s] = <<>>
          \/ send[s] # <<>> /\ send'[s] = Tail(send[s])
          \/ /\ posted' = posted
             /\ \E push \in Push :
                  /\ send'[s] = Append(send[s], push)
                  /\ push.kind = "config" => push.allow = posted
      BY <2>1, ChannelSteps
    <3> QED BY <3>1, <3>2, <3>3, <3>4, <3>5
  <2>3. ASSUME NEW t \in Streams, StreamSend(t), reading[n] = t,
               cache'[n] = Head(send[t])
        PROVE  cache'[n].allow <= send'[s][i].allow
    <3>1. t = s /\ send[s] # <<>> /\ send'[s] = Tail(send[s])
      BY <2>1, <2>3 DEF StreamSend, TypeOK
    <3>2. cache'[n] = send[s][1] /\ 1 \in 1..Len(send[s])
      BY <2>1, <2>3, <3>1
    <3>3. i + 1 \in 1..Len(send[s]) /\ send'[s][i] = send[s][i + 1] /\ 1 \in 1..(i + 1)
      BY <1>2, <2>1, <3>1
    <3> QED BY <1>2, <2>1, <3>2, <3>3 DEF Ordered
  <2>4. CASE reading[n] # s
    <3>1. phase[s] = "unused" /\ send' = send
      BY <1>2, <2>4
         DEF Next, AgentStep, AgentSubscribe, AgentDisconnect, AgentRestart,
             StreamStep, Subscribe, StreamSend, SubscribeReturn, ConnectStep,
             ConnectReadRules, ConnectReadDefault, ConnectSkip, ConnectLookup,
             ConnectSend, ConfigSwapBegin, ConfigStep, ConfigSwapEnd,
             ConfigReadRules, ConfigReadDefault, BroadcastSnapshot,
             BroadcastLookup, BroadcastSend, SigilRestart, vars, agentVars,
             distVars, TypeOK
    <3>2. send'[s] = <<>>
      BY <2>1, <3>1 DEF NotServedEmpty
    <3> QED BY <1>2, <3>2
  <2> QED BY <1>2, <2>2, <2>3, <2>4, CacheSteps
<1> QED BY <1>1, <1>2 DEF CacheBehind

LEMMA BroadcastInit == Init => BroadcastInv
<1> SUFFICES ASSUME Init PROVE BroadcastInv
  OBVIOUS
<1>1. RegistrationInv
  BY TypeInit DEF Init, RegistrationInv, ServedIffRegistered, Streams, NoStream
<1>2. WriterInv
  BY DEF Init, WriterInv, IdleHandler
<1>3. NotServedEmpty
  BY DEF Init, NotServedEmpty, IdleHandler, NotConnecting
<1>4. \A s \in Streams : Ordered(send[s], posted)
  BY DEF Init, Ordered
<1>5. CacheBehind
  BY DEF Init, CacheBehind, NoPolicy
<1> QED BY <1>1, <1>2, <1>3, <1>4, <1>5 DEF BroadcastInv

LEMMA BroadcastStep ==
  ASSUME SingleWriter
  PROVE  BroadcastInv /\ [Next]_vars => BroadcastInv'
<1> SUFFICES ASSUME BroadcastInv, [Next]_vars PROVE BroadcastInv'
  OBVIOUS
<1>1. RegistrationInv'
  BY TypeStep, RegistrationStep DEF BroadcastInv, RegistrationInv
<1>2. \A s \in Streams : Ordered(send'[s], posted')
  BY OrderedStep
<1> QED
  BY <1>1, <1>2, WriterStep, NotServedEmptyStep, CacheBehindStep DEF BroadcastInv

\* With one writer no broadcast, on its way or applied, mixes two documents:
\* the handler reads back exactly the document it has just swapped in.
THEOREM BroadcastsNeverTorn ==
  ASSUME SingleWriter
  PROVE  Spec => []BroadcastsUntorn
<1>1. BroadcastInv => BroadcastsUntorn
  BY DEF BroadcastInv, BroadcastsUntorn, Ordered, CacheBehind
<1> QED BY <1>1, BroadcastInit, BroadcastStep, PTL DEF Spec

\* With one writer an agent never goes from a broadcast to an older one: what
\* a channel holds is in order, and never behind what its reader has applied.
THEOREM BroadcastsNeverGoBack ==
  ASSUME SingleWriter
  PROVE  Spec => BroadcastsInOrder
<1>1. ASSUME BroadcastInv, [Next]_vars, NEW n \in Nodes,
             cache[n].kind = "config", cache'[n].kind = "config"
      PROVE  cache[n].allow <= cache'[n].allow
  <2>1. CASE cache'[n] = cache[n]
    <3>1. cache[n] \in CacheState
      BY <1>1 DEF BroadcastInv, RegistrationInv, TypeInv, TypeOK
    <3>2. cache[n].allow \in Nat
      BY <3>1, ConstantsAssumption DEF CacheState, ConstantsAssumption
    <3> QED BY <2>1, <3>2
  <2>2. ASSUME NEW s \in Streams, StreamSend(s), reading[n] = s,
               cache'[n] = Head(send[s])
        PROVE  cache[n].allow <= cache'[n].allow
    <3>1. send[s] \in Seq(Push) /\ send[s] # <<>> /\ reading[n] # NoStream
      <4>1. send \in [Streams -> Seq(Push)]
        BY <1>1 DEF BroadcastInv, RegistrationInv, TypeInv, TypeOK
      <4>2. s # NoStream
        BY <2>2 DEF Streams, NoStream
      <4> QED BY <2>2, <4>1, <4>2 DEF StreamSend
    <3>2. 1 \in 1..Len(send[s]) /\ cache'[n] = send[s][1]
      BY <2>2, <3>1
    <3> QED BY <1>1, <2>2, <3>1, <3>2 DEF BroadcastInv, CacheBehind
  <2> QED BY <1>1, <2>1, <2>2, CacheSteps
<1>2. BroadcastInv /\ [Next]_vars =>
        [\A n \in Nodes :
           cache[n].kind = "config" /\ cache'[n].kind = "config"
             => cache[n].allow <= cache'[n].allow]_vars
  BY <1>1
<1> QED BY <1>2, BroadcastInit, BroadcastStep, PTL DEF Spec, BroadcastsInOrder

-----------------------------------------------------------------------------
(* Nobody connected is left behind, when no policy is dropped.             *)

\* What the agent holds once the pushes of q have reached a cache that holds
\* c: the last policy of q, and c if all of q is certificates.
Ends(q, c, p) ==
  \/ /\ p = c
     /\ \A i \in 1..Len(q) : q[i].kind = "cert"
  \/ /\ p.kind # "cert"
     /\ \E i \in 1..Len(q) :
          /\ q[i] = p
          /\ \A j \in 1..Len(q) : j > i => q[j].kind = "cert"

Connected(n) == reading[n] # NoStream /\ phase[reading[n]] = "serving"

\* OnConnect of stream s is past its policy.
PolicyPushed(s) == connect[s].pc = "none" \/ connect[s].item > 0

\* A policy that does not lag: what the engine holds, or, if late OnConnects are
\* put up with, whatever an OnConnect read.
Accepted(p, late) ==
  /\ p.kind # "none"
  /\ \/ p.allow = eng.allow /\ p.dflt = eng.dflt
     \/ late /\ p.kind = "connect"

\* An agent reads a stream it opened itself.
ReadsItsOwn ==
  \A n \in Nodes : reading[n] # NoStream =>
    owner[reading[n]] = n /\ phase[reading[n]] # "unused"

\* OnConnect of a served stream pushes into that stream.
PushesItsOwn ==
  \A s \in Streams :
    phase[s] = "serving" /\ connect[s].pc = "send" => connect[s].as = s

\* Once OnConnect has pushed its policy, a connected agent ends up with a
\* policy that does not lag, or a broadcast is still to come.
NoneLeftBehind(late) ==
  \A n \in Nodes :
    Connected(n) /\ PolicyPushed(reading[n]) =>
      \/ Owed(n)
      \/ \E p \in CacheState :
           Accepted(p, late) /\ Ends(send[reading[n]], cache[n], p)

StreamInv == BroadcastInv /\ ReadsItsOwn /\ PushesItsOwn

FollowInv(late) == StreamInv /\ NoneLeftBehind(late)

\* StreamSend leaves unchanged what the agent ends up with.
LEMMA EndsTail ==
  ASSUME NEW q \in Seq(Push), NEW c, NEW p, q # <<>>, Ends(q, c, p)
  PROVE  Ends(Tail(q), Applied(Head(q), c), p)
<1>1. /\ Len(q) \in Nat
      /\ Len(Tail(q)) = Len(q) - 1
      /\ 1 \in 1..Len(q)
      /\ Head(q) = q[1]
      /\ \A i \in 1..Len(Tail(q)) : i + 1 \in 1..Len(q) /\ Tail(q)[i] = q[i + 1]
  OBVIOUS
<1>2. CASE p = c /\ \A i \in 1..Len(q) : q[i].kind = "cert"
  <2>1. Applied(Head(q), c) = c
    BY <1>1, <1>2 DEF Applied
  <2> QED BY <1>1, <1>2, <2>1 DEF Ends
<1>3. ASSUME NEW i \in 1..Len(q), p.kind # "cert", q[i] = p,
             \A j \in 1..Len(q) : j > i => q[j].kind = "cert"
      PROVE  Ends(Tail(q), Applied(Head(q), c), p)
  <2>1. \A k \in 1..Len(Tail(q)) : k > i - 1 => Tail(q)[k].kind = "cert"
    BY <1>1, <1>3
  <2>2. CASE i = 1
    <3>1. Applied(Head(q), c) = p
      BY <1>1, <1>3, <2>2 DEF Applied
    <3>2. \A k \in 1..Len(Tail(q)) : Tail(q)[k].kind = "cert"
      BY <1>1, <2>1, <2>2
    <3> QED BY <3>1, <3>2 DEF Ends
  <2>3. CASE i # 1
    <3>1. i - 1 \in 1..Len(Tail(q)) /\ Tail(q)[i - 1] = p
      BY <1>1, <1>3, <2>3
    <3> QED BY <1>3, <2>1, <3>1 DEF Ends
  <2> QED BY <2>2, <2>3
<1> QED BY <1>2, <1>3 DEF Ends

\* A certificate put into the channel leaves it unchanged too.
LEMMA EndsCert ==
  ASSUME NEW q \in Seq(Push), NEW c, NEW p, NEW push \in Push,
         push.kind = "cert", Ends(q, c, p)
  PROVE  Ends(Append(q, push), c, p)
<1> DEFINE r == Append(q, push)
<1>1. /\ Len(q) \in Nat
      /\ Len(r) = Len(q) + 1
      /\ \A i \in 1..Len(q) : i \in 1..Len(r) /\ r[i] = q[i]
      /\ r[Len(q) + 1] = push
  OBVIOUS
<1>2. \A j \in 1..Len(r) : j \in 1..Len(q) \/ r[j] = push
  BY <1>1
<1> HIDE DEF r
<1>3. CASE p = c /\ \A i \in 1..Len(q) : q[i].kind = "cert"
  <2>1. \A j \in 1..Len(r) : r[j].kind = "cert"
    BY <1>1, <1>2, <1>3
  <2> QED BY <1>3, <2>1 DEF Ends, r
<1>4. ASSUME NEW i \in 1..Len(q), p.kind # "cert", q[i] = p,
             \A j \in 1..Len(q) : j > i => q[j].kind = "cert"
      PROVE  Ends(r, c, p)
  <2>1. \A j \in 1..Len(r) : j > i => r[j].kind = "cert"
    BY <1>1, <1>2, <1>4
  <2>2. i \in 1..Len(r) /\ r[i] = p
    BY <1>1, <1>4
  <2> QED BY <1>4, <2>1, <2>2 DEF Ends
<1> QED BY <1>3, <1>4 DEF Ends, r

\* A policy put into the channel is what the agent ends up with.
LEMMA EndsPolicy ==
  ASSUME NEW q \in Seq(Push), NEW c, NEW push \in Push, push.kind # "cert"
  PROVE  Ends(Append(q, push), c, push)
<1>1. /\ Len(q) \in Nat
      /\ Len(Append(q, push)) = Len(q) + 1
      /\ Append(q, push)[Len(q) + 1] = push
  OBVIOUS
<1>2. Len(q) + 1 \in 1..Len(Append(q, push))
  BY <1>1
<1>3. \A j \in 1..Len(Append(q, push)) : ~(j > Len(q) + 1)
  BY <1>1
<1> QED BY <1>1, <1>2, <1>3 DEF Ends

LEMMA ReadsItsOwnStep ==
  ASSUME TypeInv, ReadsItsOwn, [Next]_vars
  PROVE  ReadsItsOwn'
<1> USE DEF TypeInv, TypeOK, sigilVars, distVars, agentVars
<1>1. ASSUME NEW n \in Nodes, NEW s \in Streams, AgentSubscribe(n, s)
      PROVE  ReadsItsOwn'
  BY <1>1 DEF AgentSubscribe, ReadsItsOwn
<1>2. ASSUME NEW n \in Nodes, AgentDisconnect(n) \/ AgentRestart(n)
      PROVE  ReadsItsOwn'
  BY <1>2 DEF AgentDisconnect, AgentRestart, ReadsItsOwn
<1>3. CASE UNCHANGED <<reading, owner, phase>>
  BY <1>3 DEF ReadsItsOwn
<1>4. CASE /\ UNCHANGED <<reading, owner>>
           /\ \A s \in Streams : phase[s] # "unused" => phase'[s] # "unused"
  <2>1. \A n \in Nodes : reading[n] # NoStream => reading[n] \in Streams
    OBVIOUS
  <2> QED BY <1>4, <2>1 DEF ReadsItsOwn
<1>5. \/ \E n \in Nodes : AgentStep(n)
      \/ UNCHANGED <<reading, owner, phase>>
      \/ /\ UNCHANGED <<reading, owner>>
         /\ \A s \in Streams : phase[s] # "unused" => phase'[s] # "unused"
  BY DEF Next, StreamStep, Subscribe, StreamSend, SubscribeReturn,
         ConnectStep, ConnectReadRules, ConnectReadDefault, ConnectSkip,
         ConnectLookup, ConnectSend, ConfigSwapBegin, ConfigStep,
         ConfigSwapEnd, ConfigReadRules, ConfigReadDefault,
         BroadcastSnapshot, BroadcastLookup, BroadcastSend, SigilRestart,
         vars
<1> QED BY <1>1, <1>2, <1>3, <1>4, <1>5 DEF AgentStep

\* A stream that is served was served before, or its Subscribe call starts.
LEMMA ServedBefore ==
  ASSUME TypeInv, [Next]_vars, NEW s \in Streams, phase'[s] = "serving"
  PROVE  phase[s] = "serving" \/ Subscribe(s)
<1> USE DEF TypeInv, TypeOK, sigilVars, distVars, agentVars
<1>1. ASSUME NEW t \in Streams, Subscribe(t)
      PROVE  phase[s] = "serving" \/ Subscribe(s)
  BY <1>1 DEF Subscribe
<1>2. \/ phase'[s] = phase[s]
      \/ phase'[s] # "serving"
      \/ \E t \in Streams : Subscribe(t)
  BY DEF Next, AgentStep, AgentSubscribe, AgentDisconnect, AgentRestart,
         StreamStep, StreamSend, SubscribeReturn,
         ConnectStep, ConnectReadRules, ConnectReadDefault, ConnectSkip,
         ConnectLookup, ConnectSend, ConfigSwapBegin, ConfigStep,
         ConfigSwapEnd, ConfigReadRules, ConfigReadDefault,
         BroadcastSnapshot, BroadcastLookup, BroadcastSend, SigilRestart,
         vars
<1> QED BY <1>1, <1>2

LEMMA PushesItsOwnStep ==
  ASSUME RegistrationInv, PushesItsOwn, [Next]_vars
  PROVE  PushesItsOwn'
<1> SUFFICES ASSUME NEW s \in Streams,
                    phase'[s] = "serving", connect'[s].pc = "send"
             PROVE  connect'[s].as = s
  BY DEF PushesItsOwn
<1> USE DEF RegistrationInv, TypeInv, TypeOK
<1>1. CASE Subscribe(s)
  BY <1>1 DEF Subscribe, NotConnecting
<1>2. CASE phase[s] = "serving" /\ connect'[s] = connect[s]
  BY <1>2 DEF PushesItsOwn
<1>3. CASE phase[s] = "serving" /\ ConnectLookup(s)
  <2>1. connect'[s].as = streams[owner[s]]
    BY <1>3 DEF ConnectLookup, ConnectState
  <2> QED BY <1>3, <2>1 DEF ServedIffRegistered
<1> QED BY <1>1, <1>2, <1>3, ServedBefore, ConnectToSend

\* An agent that is connected after a step, to a stream whose OnConnect has
\* pushed its policy, was connected to it before: the stream is its node's.
LEMMA ConnectedBefore ==
  ASSUME StreamInv, [Next]_vars, NEW n \in Nodes, NEW s \in Streams,
         reading'[n] = s, phase'[s] = "serving",
         connect'[s].pc = "none" \/ connect'[s].item > 0
  PROVE  /\ reading[n] = s /\ phase[s] = "serving"
         /\ owner[s] = n /\ streams[n] = s
<1>1. ~Subscribe(s)
  <2> DEFINE started == [NotConnecting EXCEPT !.pc = "rules"]
  <2>1. started.pc = "rules" /\ started.item = 0
    BY DEF NotConnecting
  <2>2. connect \in [Streams -> ConnectState]
    BY DEF StreamInv, BroadcastInv, RegistrationInv, TypeInv, TypeOK
  <2>3. Subscribe(s) => connect'[s] = started
    BY <2>2 DEF Subscribe
  <2> HIDE DEF started
  <2> QED BY <2>1, <2>3
<1> USE DEF StreamInv, BroadcastInv, RegistrationInv, TypeInv, sigilVars,
            distVars, agentVars
<1>2. phase[s] = "serving"
  BY <1>1, ServedBefore
<1>3. reading[n] = s
  <2>1. ASSUME NEW m \in Nodes, NEW t \in Streams, AgentSubscribe(m, t)
        PROVE  reading'[n] = reading[n]
    BY <1>2, <2>1 DEF AgentSubscribe, TypeOK
  <2>2. ASSUME NEW m \in Nodes, AgentDisconnect(m) \/ AgentRestart(m)
        PROVE  reading'[n] = reading[n]
    BY <2>2 DEF AgentDisconnect, AgentRestart, TypeOK, Streams, NoStream
  <2>3. \/ \E m \in Nodes : AgentStep(m)
        \/ reading' = reading
    BY DEF Next, StreamStep, Subscribe, StreamSend, SubscribeReturn,
           ConnectStep, ConnectReadRules, ConnectReadDefault, ConnectSkip,
           ConnectLookup, ConnectSend, ConfigSwapBegin, ConfigStep,
           ConfigSwapEnd, ConfigReadRules, ConfigReadDefault,
           BroadcastSnapshot, BroadcastLookup, BroadcastSend, SigilRestart,
           vars
  <2> QED BY <2>1, <2>2, <2>3 DEF AgentStep
<1>4. owner[s] = n
  BY <1>3 DEF ReadsItsOwn, Streams, NoStream
<1> QED BY <1>2, <1>3, <1>4 DEF ServedIffRegistered

\* Distributor.send leaves a channel it is not called for alone, and puts the
\* push into the one it is called for if that channel has room.
LEMMA EnqueueSteps ==
  ASSUME TypeInv, NEW s \in Streams, NEW as \in Streams, NEW push \in Push,
         Enqueue(as, push)
  PROVE  /\ as # s => send'[s] = send[s]
         /\ as = s => send'[s] = send[s] \/ send'[s] = Append(send[s], push)
         /\ as = s /\ phase[s] # "returned" /\ ~Full(s) =>
              send'[s] = Append(send[s], push)
<1>1. /\ send \in [Streams -> Seq(Push)]
      /\ Len(send[s]) \in Nat /\ ChanCap \in Nat /\ Len(send[s]) <= ChanCap
  BY ConstantsAssumption DEF TypeInv, TypeOK, ConstantsAssumption
<1>2. phase[s] # "returned" /\ ~Full(s) => Len(send[s]) < ChanCap
  BY <1>1 DEF Full
<1> QED BY <1>1, <1>2 DEF Enqueue

\* The steps that leave the agent's channel, its cache, the engine and the
\* broadcasts alone.
LEMMA FollowFrame ==
  ASSUME NEW late \in BOOLEAN, FollowInv(late),
         NEW n \in Nodes, NEW s \in Streams, reading[n] = s, reading'[n] = s, phase[s] = "serving",
         PolicyPushed(s),
         UNCHANGED <<eng, handler>>, send'[s] = send[s], cache'[n] = cache[n]
  PROVE  \/ Owed(n)'
         \/ \E p \in CacheState : Accepted(p, late)' /\ Ends(send'[s], cache'[n], p)
<1>1. s # NoStream
  BY DEF Streams, NoStream
<1>2. \/ Owed(n)
      \/ \E p \in CacheState : Accepted(p, late) /\ Ends(send[s], cache[n], p)
  BY <1>1 DEF FollowInv, NoneLeftBehind, Connected
<1>3. Owed(n) => Owed(n)'
  BY DEF Owed
<1>4. \A p \in CacheState : Accepted(p, late) => Accepted(p, late)'
  BY DEF Accepted
<1> QED BY <1>2, <1>3, <1>4

\* Every step keeps it: the steps of the broadcast, of OnConnect and of the
\* stream one by one, the others because they leave n's channel alone.
LEMMA NoneLeftBehindStep ==
  ASSUME SingleWriter, NEW late \in BOOLEAN, FollowInv(late), [Next]_vars,
         [~PolicyDropped]_vars, late \/ [~ConnectOvertaken]_vars
  PROVE  NoneLeftBehind(late)'
<1> SUFFICES
      ASSUME NEW n \in Nodes, NEW s \in Streams,
             reading'[n] = s, phase'[s] = "serving",
             connect'[s].pc = "none" \/ connect'[s].item > 0
      PROVE  \/ Owed(n)'
             \/ \E p \in CacheState :
                  Accepted(p, late)' /\ Ends(send'[s], cache'[n], p)
  <2>1. TypeOK'
    BY TypeStep DEF FollowInv, StreamInv, BroadcastInv, RegistrationInv, TypeInv
  <2>2. \A n \in Nodes : reading'[n] # NoStream => reading'[n] \in Streams
    BY <2>1 DEF TypeOK
  <2> QED BY <2>2 DEF NoneLeftBehind, Connected, PolicyPushed
<1> DEFINE Goal == \/ Owed(n)'
                   \/ \E p \in CacheState :
                        Accepted(p, late)' /\ Ends(send'[s], cache'[n], p)
<1>1. TypeInv /\ TypeOK /\ WriterInv
  BY DEF FollowInv, StreamInv, BroadcastInv, RegistrationInv, TypeInv
<1>2. /\ reading[n] = s /\ phase[s] = "serving" /\ s # NoStream
      /\ owner[s] = n /\ streams[n] = s
  BY ConnectedBefore DEF FollowInv, Streams, NoStream
<1>3. /\ handler \in [Handlers -> HandlerState]
      /\ connect \in [Streams -> ConnectState]
      /\ send \in [Streams -> Seq(Push)]
      /\ cache \in [Nodes -> CacheState]
      /\ phase \in [Streams ->
           {"unused", "pending", "serving", "cancelled", "returned"}]
  BY <1>1 DEF TypeOK
\* What holds before the step.
<1>4. PolicyPushed(s) =>
        \/ Owed(n)
        \/ \E p \in CacheState : Accepted(p, late) /\ Ends(send[s], cache[n], p)
  BY <1>2 DEF FollowInv, NoneLeftBehind, Connected
<1>5. ASSUME connect'[s] = connect[s]
      PROVE  PolicyPushed(s)
  BY <1>5 DEF PolicyPushed
<1>6. ASSUME PolicyPushed(s), UNCHANGED <<eng, handler>>,
             send'[s] = send[s], cache'[n] = cache[n]
      PROVE  Goal
  BY <1>2, <1>6, FollowFrame
<1> USE DEF sigilVars, distVars, agentVars
\* The agent.
<1>7. ASSUME NEW m \in Nodes, NEW t \in Streams, AgentSubscribe(m, t)
      PROVE  Goal
  BY <1>5, <1>6, <1>7 DEF AgentSubscribe
<1>8. ASSUME NEW m \in Nodes, AgentDisconnect(m)
      PROVE  Goal
  BY <1>5, <1>6, <1>8 DEF AgentDisconnect
<1>9. ASSUME NEW m \in Nodes, AgentRestart(m)
      PROVE  Goal
  <2>1. m # n
    BY <1>1, <1>2, <1>9 DEF AgentRestart, TypeOK
  <2>2. cache'[n] = cache[n]
    BY <1>3, <1>9, <2>1 DEF AgentRestart
  <2> QED BY <1>5, <1>6, <1>9, <2>2 DEF AgentRestart
\* The stream.
<1>10. ASSUME NEW t \in Streams, Subscribe(t)
       PROVE  Goal
  <2>1. t # s
    BY <1>2, <1>10 DEF Subscribe
  <2>2. connect'[s] = connect[s]
    BY <1>3, <1>10, <2>1 DEF Subscribe
  <2> QED BY <1>5, <1>6, <1>10, <2>2 DEF Subscribe
<1>11. ASSUME NEW t \in Streams, StreamSend(t), t # s
       PROVE  Goal
  <2>1. send'[s] = send[s]
    BY <1>3, <1>11 DEF StreamSend
  <2>2. cache'[n] = cache[n]
    BY <1>2, <1>3, <1>11 DEF StreamSend
  <2> QED BY <1>5, <1>6, <1>11, <2>1, <2>2 DEF StreamSend
<1>12. CASE StreamSend(s)
  <2>1. /\ send[s] # <<>> /\ send[s] \in Seq(Push)
        /\ send'[s] = Tail(send[s])
        /\ cache'[n] = Applied(Head(send[s]), cache[n])
        /\ UNCHANGED <<eng, handler, connect, reading>>
    BY <1>2, <1>3, <1>12 DEF StreamSend
  <2>2. ASSUME NEW p \in CacheState, Accepted(p, late), Ends(send[s], cache[n], p)
        PROVE  Accepted(p, late)' /\ Ends(send'[s], cache'[n], p)
    <3>1. Ends(Tail(send[s]), Applied(Head(send[s]), cache[n]), p)
      BY <2>1, <2>2, EndsTail
    <3> QED BY <2>1, <2>2, <3>1 DEF Accepted
  <2>3. Owed(n) => Owed(n)'
    BY <2>1 DEF Owed
  <2> QED BY <1>4, <1>5, <2>1, <2>2, <2>3
<1>13. ASSUME NEW t \in Streams, SubscribeReturn(t)
       PROVE  Goal
  <2>1. t # s
    BY <1>3, <1>13 DEF SubscribeReturn
  <2>2. send'[s] = send[s]
    BY <1>3, <1>13, <2>1 DEF SubscribeReturn
  <2> QED BY <1>5, <1>6, <1>13, <2>2 DEF SubscribeReturn
\* OnConnect.
<1>14. ASSUME NEW t \in Streams, ConnectReadRules(t) \/ ConnectReadDefault(t)
              \/ ConnectLookup(t)
       PROVE  Goal
  <2>1. connect[t] \in ConnectState
    BY <1>3
  <2>2. /\ connect'[t].item = connect[t].item
        /\ connect'[t].pc # "none"
        /\ \A u \in Streams : u # t => connect'[u] = connect[u]
    <3>1. CASE ConnectReadRules(t)
      BY <1>3, <2>1, <3>1 DEF ConnectReadRules, ConnectState
    <3>2. CASE ConnectReadDefault(t)
      BY <1>3, <2>1, <3>2 DEF ConnectReadDefault, ConnectState
    <3>3. CASE ConnectLookup(t)
      BY <1>3, <2>1, <3>3 DEF ConnectLookup, ConnectState
    <3> QED BY <1>14, <3>1, <3>2, <3>3
  <2>3. PolicyPushed(s)
    BY <2>2 DEF PolicyPushed
  <2> QED BY <1>6, <1>14, <2>3
     DEF ConnectReadRules, ConnectReadDefault, ConnectLookup
<1>15. ASSUME NEW t \in Streams, ConnectSkip(t)
       PROVE  Goal
  <2>1. t # s => connect'[s] = connect[s]
    BY <1>1, <1>15, AdvanceType DEF ConnectSkip
  <2>2. t = s => connect[s].item > 0
    BY <1>2, <1>15 DEF ConnectSkip
  <2>3. PolicyPushed(s)
    BY <1>5, <2>1, <2>2 DEF PolicyPushed
  <2> QED BY <1>6, <1>15, <2>3 DEF ConnectSkip
<1>16. ASSUME NEW t \in Streams, ConnectSend(t), ~PolicyDropped,
              late \/ ~ConnectOvertaken
       PROVE  Goal
  <2> DEFINE as == connect[t].as
             push == ConnectPush(connect[t])
  <2>1. /\ as \in Streams /\ push \in Push /\ Enqueue(as, push)
        /\ UNCHANGED <<eng, handler, cache, reading>>
    BY <1>1, <1>16, PushTypes
       DEF ConnectSend, FollowInv, StreamInv, BroadcastInv, NotServedEmpty
  <2>2. /\ t # s => connect'[s] = connect[s]
        /\ t = s => as = s
    BY <1>1, <1>2, <1>16, AdvanceType DEF ConnectSend, FollowInv, StreamInv, PushesItsOwn
  <2>3. CASE as # s
    <3>1. send'[s] = send[s]
      BY <1>1, <2>1, <2>3, EnqueueSteps
    <3> QED BY <1>5, <1>6, <2>1, <2>2, <2>3, <3>1
  <2>4. CASE as = s /\ connect[t].item = 0
    <3>1. push.kind = "connect" /\ push \in CacheState
      BY <2>1, <2>4 DEF ConnectPush, Push, CacheState
    <3>2. send'[s] = Append(send[s], push)
      <4>1. ~Full(s)
        BY <1>16, <2>4 DEF PolicyDropped
      <4> QED BY <1>1, <1>2, <2>1, <2>4, <4>1, EnqueueSteps
    <3>3. Ends(send'[s], cache'[n], push)
      BY <1>3, <2>1, <3>1, <3>2, EndsPolicy
    <3>4. \/ late \/ Owed(n)
          \/ push.allow = eng.allow /\ push.dflt = eng.dflt
      BY <1>2, <1>16, <2>4 DEF ConnectOvertaken, ConnectPush
    <3>5. Owed(n) => Owed(n)'
      BY <2>1 DEF Owed
    <3> QED BY <2>1, <3>1, <3>3, <3>4, <3>5 DEF Accepted
  <2>5. CASE as = s /\ connect[t].item # 0
    <3>1. push.kind = "cert"
      BY <2>5 DEF ConnectPush, CertPush
    <3>2. PolicyPushed(s)
      <4>1. connect[t].item \in Nat
        BY <1>3, ConstantsAssumption DEF ConnectState, ConstantsAssumption
      <4> QED BY <1>5, <2>2, <2>5, <4>1 DEF PolicyPushed
    <3>3. send'[s] = send[s] \/ send'[s] = Append(send[s], push)
      BY <1>1, <2>1, <2>5, EnqueueSteps
    <3>4. ASSUME NEW p \in CacheState, Accepted(p, late), Ends(send[s], cache[n], p)
          PROVE  Accepted(p, late)' /\ Ends(send'[s], cache'[n], p)
      <4>1. Ends(send'[s], cache[n], p)
        BY <1>3, <2>1, <3>1, <3>3, <3>4, EndsCert
      <4> QED BY <2>1, <3>4, <4>1 DEF Accepted
    <3>5. Owed(n) => Owed(n)'
      BY <2>1 DEF Owed
    <3> QED BY <1>4, <3>2, <3>4, <3>5
  <2> QED BY <2>3, <2>4, <2>5
\* The config handler.
<1>17. ASSUME NEW h \in Handlers,
              ConfigSwapBegin(h) \/ ConfigSwapEnd(h) \/ ConfigReadRules(h)
                \/ ConfigReadDefault(h)
       PROVE  Goal
  <2>1. handler[h] \in HandlerState
    BY <1>3
  <2>2. handler'[h].pc \in {"swapRules", "swapDflt", "rules", "dflt", "snapshot"}
    <3>1. CASE ConfigSwapBegin(h)
      BY <1>3, <2>1, <3>1 DEF ConfigSwapBegin, HandlerState
    <3>2. CASE ConfigSwapEnd(h)
      BY <1>3, <2>1, <3>2 DEF ConfigSwapEnd, HandlerState
    <3>3. CASE ConfigReadRules(h)
      BY <1>3, <2>1, <3>3 DEF ConfigReadRules, HandlerState
    <3>4. CASE ConfigReadDefault(h)
      BY <1>3, <2>1, <3>4 DEF ConfigReadDefault, HandlerState
    <3> QED BY <1>17, <3>1, <3>2, <3>3, <3>4
  <2> QED BY <2>2 DEF Owed
<1>18. ASSUME NEW h \in Handlers, BroadcastSnapshot(h)
       PROVE  Goal
  <2>1. n \in Registered
    BY <1>2 DEF Registered
  <2>2. handler[h] \in HandlerState /\ Registered # {}
    BY <1>3, <2>1
  <2>3. handler'[h].pc = "lookup" /\ handler'[h].todo = Registered
    BY <1>3, <1>18, <2>2 DEF BroadcastSnapshot, Sending, HandlerState
  <2> QED BY <2>1, <2>3 DEF Owed
<1>19. ASSUME NEW h \in Handlers, NEW m \in Nodes, BroadcastLookup(h, m)
       PROVE  Goal
  <2>1. handler[h] \in HandlerState /\ handler[h].pc = "lookup"
        /\ \A g \in Handlers : g = h
    BY <1>3, <1>19 DEF BroadcastLookup, SingleWriter
  <2>2. UNCHANGED <<eng, connect, send, cache, reading>>
    BY <1>19 DEF BroadcastLookup
  <2>3. CASE m = n
    <3>1. handler'[h].pc = "send" /\ handler'[h].as = s
      BY <1>2, <1>3, <1>19, <2>1, <2>3 DEF BroadcastLookup, HandlerState
    <3> QED BY <3>1 DEF Owed
  <2>4. CASE m # n /\ Owed(n)
    <3>1. n \in handler[h].todo \ {m}
      BY <2>1, <2>4 DEF Owed
    <3>2. /\ handler'[h].pc \in {"lookup", "send"}
          /\ handler'[h].todo = handler[h].todo \ {m}
      BY <1>3, <1>19, <2>1, <3>1 DEF BroadcastLookup, Sending, HandlerState
    <3> QED BY <3>1, <3>2 DEF Owed
  <2>5. CASE ~Owed(n)
    BY <1>4, <1>5, <2>2, <2>5 DEF Accepted
  <2> QED BY <2>3, <2>4, <2>5
<1>20. ASSUME NEW h \in Handlers, BroadcastSend(h), ~PolicyDropped
       PROVE  Goal
  <2> DEFINE as == handler[h].as
             push == ConfigPush(handler[h])
  <2>1. handler[h] \in HandlerState /\ handler[h].pc = "send"
        /\ \A g \in Handlers : g = h
    BY <1>3, <1>20 DEF BroadcastSend, SingleWriter
  <2>2. /\ as \in Streams /\ push \in Push /\ Enqueue(as, push)
        /\ UNCHANGED <<eng, connect, cache, reading>>
    BY <1>1, <1>20, PushTypes
       DEF BroadcastSend, FollowInv, StreamInv, BroadcastInv, NotServedEmpty
  <2>3. CASE as = s
    <3>1. /\ push.kind = "config" /\ push \in CacheState
          /\ push.allow = eng.allow /\ push.dflt = eng.dflt
      BY <1>1, <2>1, <2>2 DEF ConfigPush, Push, CacheState, WriterInv
    <3>2. send'[s] = Append(send[s], push)
      <4>1. ~Full(s)
        BY <1>20, <2>3 DEF PolicyDropped
      <4> QED BY <1>1, <1>2, <2>2, <2>3, <4>1, EnqueueSteps
    <3>3. Ends(send'[s], cache'[n], push)
      BY <1>3, <2>2, <3>1, <3>2, EndsPolicy
    <3> QED BY <2>2, <3>1, <3>3 DEF Accepted
  <2>4. CASE as # s /\ Owed(n)
    <3>1. n \in handler[h].todo
      BY <1>2, <2>1, <2>4 DEF Owed
    <3>2. handler'[h].pc = "lookup" /\ handler'[h].todo = handler[h].todo
      BY <1>3, <1>20, <2>1, <3>1 DEF BroadcastSend, Sending, HandlerState
    <3> QED BY <3>1, <3>2 DEF Owed
  <2>5. CASE as # s /\ ~Owed(n)
    <3>1. send'[s] = send[s]
      BY <1>1, <2>2, <2>5, EnqueueSteps
    <3> QED BY <1>4, <1>5, <2>2, <2>5, <3>1 DEF Accepted
  <2> QED BY <2>3, <2>4, <2>5
<1>21. ~SigilRestart
  BY DEF SigilRestart
<1>22. CASE UNCHANGED vars
  BY <1>5, <1>6, <1>22 DEF vars
<1>23. CASE Next /\ ~PolicyDropped /\ (late \/ ~ConnectOvertaken)
  BY <1>7, <1>8, <1>9, <1>10, <1>11, <1>12, <1>13, <1>14, <1>15, <1>16,
     <1>17, <1>18, <1>19, <1>20, <1>21, <1>23
     DEF Next, AgentStep, StreamStep, ConnectStep, ConfigStep
<1> QED BY <1>22, <1>23

LEMMA FollowInit == ASSUME NEW late PROVE Init => FollowInv(late)
BY BroadcastInit
   DEF Init, FollowInv, StreamInv, ReadsItsOwn, PushesItsOwn, NoneLeftBehind,
       Connected, NotConnecting, Streams, NoStream

LEMMA FollowStep ==
  ASSUME SingleWriter, NEW late \in BOOLEAN, FollowInv(late), [Next]_vars,
         [~PolicyDropped]_vars, late \/ [~ConnectOvertaken]_vars
  PROVE  FollowInv(late)'
<1>1. BroadcastInv /\ RegistrationInv /\ TypeInv /\ ReadsItsOwn /\ PushesItsOwn
  BY DEF FollowInv, StreamInv, BroadcastInv, RegistrationInv
<1>2. BroadcastInv'
  BY <1>1, BroadcastStep
<1> QED
  BY <1>1, <1>2, ReadsItsOwnStep, PushesItsOwnStep, NoneLeftBehindStep
     DEF FollowInv, StreamInv

\* A settled agent's policy is one that does not lag.
LEMMA SettledAccepted ==
  ASSUME NEW late \in BOOLEAN, FollowInv(late), NEW n \in Nodes, Settled(n)
  PROVE  Accepted(cache[n], late)
<1>1. Connected(n) /\ reading[n] \in Streams
  BY DEF Settled, Connected, FollowInv, StreamInv, BroadcastInv,
         RegistrationInv, TypeInv, TypeOK
<1>2. PolicyPushed(reading[n])
  BY <1>1 DEF Settled, PolicyPushed, FollowInv, StreamInv, ReadsItsOwn
<1>3. ~Owed(n)
  BY DEF Settled, Owed
<1>4. PICK p \in CacheState :
        Accepted(p, late) /\ Ends(send[reading[n]], cache[n], p)
  BY <1>1, <1>2, <1>3 DEF FollowInv, NoneLeftBehind
<1>5. p = cache[n]
  BY <1>4 DEF Settled, Ends
<1> QED BY <1>4, <1>5

\* With one writer, and as long as no policy is dropped at a full channel, a
\* broadcast never leaves a connected agent behind (BroadcastPolicy, send and
\* the loop of Subscribe): an agent that has settled holds the engine's policy,
\* or the policy of an OnConnect.  Restarts of Sigil are included.
THEOREM BroadcastsLeaveNobodyBehind ==
  ASSUME SingleWriter
  PROVE  Spec /\ [][~PolicyDropped]_vars => []OnlyConnectLeavesStale
<1>1. FollowInv(TRUE) => OnlyConnectLeavesStale
  BY SettledAccepted DEF OnlyConnectLeavesStale, Accepted, HasEngine
<1>2. FollowInv(TRUE) /\ [Next]_vars /\ [~PolicyDropped]_vars => FollowInv(TRUE)'
  BY FollowStep
<1>3. Init => FollowInv(TRUE)
  BY FollowInit
<1> QED BY <1>1, <1>2, <1>3, PTL DEF Spec

\* The documentation's claim is one step short of true: with one writer, no
\* policy dropped at a full channel and no OnConnect overtaken (main.go, lines
\* 118-131: it reads the engine, and pushes what it read after the broadcast of
\* a newer document), every settled agent has the engine's policy.
THEOREM OnlyOvertakenConnectsMislead ==
  ASSUME SingleWriter
  PROVE  Spec /\ [][~PolicyDropped]_vars /\ [][~ConnectOvertaken]_vars
           => []SettledAgentsAreCurrent
<1>1. FollowInv(FALSE) => SettledAgentsAreCurrent
  BY SettledAccepted DEF SettledAgentsAreCurrent, Accepted, HasEngine
<1>2. FollowInv(FALSE) /\ [Next]_vars /\ [~PolicyDropped]_vars
        /\ [~ConnectOvertaken]_vars => FollowInv(FALSE)'
  BY FollowStep
<1>3. Init => FollowInv(FALSE)
  BY FollowInit
<1> QED BY <1>1, <1>2, <1>3, PTL DEF Spec
=============================================================================
