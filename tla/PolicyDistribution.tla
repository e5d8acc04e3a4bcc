------------------------ MODULE PolicyDistribution ------------------------
(***************************************************************************)
(* How a policy travels from Sigil's engine to the agents.                 *)
(*                                                                         *)
(* Sigil keeps one Engine, overwritten in place by POST /api/v1/config,    *)
(* and a Distributor: a map from node id to the Subscribe stream of that   *)
(* node, each stream with a bounded channel drained by its own goroutine.  *)
(* A config handler broadcasts what it reads back from the engine; every   *)
(* Subscribe starts an OnConnect goroutine that reads the engine and       *)
(* pushes the policy, then one certificate per service, to the node.       *)
(* All of these run concurrently, with no lock held between their steps.   *)
(*                                                                         *)
(* A config document is represented by its number, in the order in which   *)
(* the documents are accepted; document 0 is the file Sigil starts from.   *)
(* The engine has two parts that are written and read one after the other, *)
(* the allow map and the scalars (default_allow, mtls_mode).               *)
(***************************************************************************)
EXTENDS Naturals, Sequences

CONSTANTS
  Nodes,          \* the node ids agents subscribe with
  NoNode,         \* the owner of a stream id that is not in use
  Handlers,       \* the goroutines that serve POST /api/v1/config
  ChanCap,        \* the capacity of a stream's send channel (64)
  CertsPerHello,  \* the services an agent names in its hello
  MaxConfig,      \* bound: config documents accepted
  MaxStreams,     \* bound: Subscribe calls
  MaxRestarts     \* bound: restarts of Sigil

ASSUME ConstantsAssumption ==
  /\ NoNode \notin Nodes
  /\ ChanCap \in Nat \ {0}
  /\ CertsPerHello \in Nat
  /\ MaxConfig \in Nat
  /\ MaxStreams \in Nat
  /\ MaxRestarts \in Nat

Streams  == 1..MaxStreams
NoStream == 0

VARIABLES
  eng,       \* *eng: the number of the document each part comes from
  posted,    \* how many documents have been accepted
  restarts,  \* how often Sigil has been restarted
  handler,   \* the state of each config handler
  connect,   \* the state of the OnConnect goroutine of each stream
  streams,   \* Distributor.streams: the stream registered for each node
  owner,     \* the node each stream was opened by
  phase,     \* where each stream's Subscribe call is
  send,      \* the send channel of each stream
  reading,   \* the stream each agent is reading from
  cache      \* each agent's PolicyCache: the last policy it applied

sigilVars == <<eng, posted, restarts, handler, connect>>
distVars  == <<streams, owner, phase, send>>
agentVars == <<reading, cache>>
vars      == <<sigilVars, distVars, agentVars>>

Engine == [allow : 0..MaxConfig, dflt : 0..MaxConfig]

\* What a channel carries.  A policy remembers which path sent it, so that
\* the properties can tell an OnConnect push from a broadcast.
Push == [kind : {"connect", "config", "cert"},
         allow : 0..MaxConfig, dflt : 0..MaxConfig]

CertPush == [kind |-> "cert", allow |-> 0, dflt |-> 0]
NoPolicy == [kind |-> "none", allow |-> 0, dflt |-> 0]

\* A config handler: the document it accepted, what it read back, the nodes
\* still to be sent to and the stream captured by the last lookup.
HandlerState ==
  [pc : {"idle", "swapRules", "swapDflt", "rules", "dflt", "snapshot",
         "lookup", "send"},
   v : 0..MaxConfig, allow : 0..MaxConfig, dflt : 0..MaxConfig,
   todo : SUBSET Nodes, as : Streams \cup {NoStream}]

\* An OnConnect goroutine: what it read, and which of its pushes is next
\* (0 is the policy, the others are certificates).
ConnectState ==
  [pc : {"none", "rules", "dflt", "lookup", "send"},
   allow : 0..MaxConfig, dflt : 0..MaxConfig,
   item : 0..CertsPerHello, as : Streams \cup {NoStream}]

CacheState ==
  [kind : {"none", "connect", "config"},
   allow : 0..MaxConfig, dflt : 0..MaxConfig]

IdleHandler ==
  [pc |-> "idle", v |-> 0, allow |-> 0, dflt |-> 0,
   todo |-> {}, as |-> NoStream]

NotConnecting ==
  [pc |-> "none", allow |-> 0, dflt |-> 0, item |-> 0, as |-> NoStream]

TypeOK ==
  /\ eng \in Engine
  /\ posted \in 0..MaxConfig
  /\ restarts \in 0..MaxRestarts
  /\ handler \in [Handlers -> HandlerState]
  /\ connect \in [Streams -> ConnectState]
  /\ streams \in [Nodes -> Streams \cup {NoStream}]
  /\ owner \in [Streams -> Nodes \cup {NoNode}]
  /\ phase \in [Streams ->
       {"unused", "pending", "serving", "cancelled", "returned"}]
  /\ send \in [Streams -> Seq(Push)]
  /\ \A s \in Streams : Len(send[s]) <= ChanCap
  /\ reading \in [Nodes -> Streams \cup {NoStream}]
  /\ cache \in [Nodes -> CacheState]

Init ==
  /\ eng = [allow |-> 0, dflt |-> 0]
  /\ posted = 0
  /\ restarts = 0
  /\ handler = [h \in Handlers |-> IdleHandler]
  /\ connect = [s \in Streams |-> NotConnecting]
  /\ streams = [n \in Nodes |-> NoStream]
  /\ owner = [s \in Streams |-> NoNode]
  /\ phase = [s \in Streams |-> "unused"]
  /\ send = [s \in Streams |-> <<>>]
  /\ reading = [n \in Nodes |-> NoStream]
  /\ cache = [n \in Nodes |-> NoPolicy]

-----------------------------------------------------------------------------
(* The agent's side of a stream.                                           *)

\* The agent opens a Subscribe stream; the server has not looked at it yet.
AgentSubscribe(n, s) ==
  /\ reading[n] = NoStream
  /\ phase[s] = "unused"
  /\ \A t \in Streams : t < s => phase[t] # "unused"
  /\ reading' = [reading EXCEPT ![n] = s]
  /\ owner' = [owner EXCEPT ![s] = n]
  /\ phase' = [phase EXCEPT ![s] = "pending"]
  /\ UNCHANGED <<sigilVars, streams, send, cache>>

\* The stream ends for the agent: it dropped it (the first certificate has
\* arrived, the TLS probe succeeded), the call failed or timed out, the
\* connection broke, or the server closed it.
AgentDisconnect(n) ==
  /\ reading[n] # NoStream
  /\ reading' = [reading EXCEPT ![n] = NoStream]
  /\ UNCHANGED <<sigilVars, distVars, cache>>

\* The agent process restarts with the cache PolicyCache::new builds.
AgentRestart(n) ==
  /\ reading' = [reading EXCEPT ![n] = NoStream]
  /\ cache' = [cache EXCEPT ![n] = NoPolicy]
  /\ UNCHANGED <<sigilVars, distVars>>

-----------------------------------------------------------------------------
(* Distributor.Subscribe: one goroutine per stream.                        *)

\* Variant: OnConnect is not started.
SubscribeWithoutConnect(s) ==
  LET n == owner[s]  old == streams[n] IN
  /\ phase[s] = "pending"
  /\ streams' = [streams EXCEPT ![n] = s]
  /\ phase' = [t \in Streams |-> IF t = s THEN "serving"
                                 ELSE IF t = old THEN "cancelled"
                                 ELSE phase[t]]
  /\ UNCHANGED <<sigilVars, owner, send, agentVars>>

\* The handler starts: under the lock it cancels the stream registered for
\* the node and takes its place, then it starts OnConnect.
Subscribe(s) ==
  LET n == owner[s]  old == streams[n] IN
  /\ phase[s] = "pending"
  /\ streams' = [streams EXCEPT ![n] = s]
  /\ phase' = [t \in Streams |-> IF t = s THEN "serving"
                                 ELSE IF t = old THEN "cancelled"
                                 ELSE phase[t]]
  /\ connect' = [connect EXCEPT ![s] = [NotConnecting EXCEPT !.pc = "rules"]]
  /\ UNCHANGED <<eng, posted, restarts, handler, owner, send, agentVars>>

\* What the agent does with a push: only a policy replaces the cache.
Applied(push, old) == IF push.kind = "cert" THEN old ELSE push

\* The loop takes the next push and sends it.  It reaches the agent if the
\* agent still reads this stream and is lost otherwise.  A cancelled loop may
\* go on sending: select picks either ready case.
StreamSend(s) ==
  LET n == owner[s] IN
  /\ phase[s] \in {"serving", "cancelled"}
  /\ send[s] # <<>>
  /\ send' = [send EXCEPT ![s] = Tail(@)]
  /\ cache' = [cache EXCEPT ![n] =
                 IF reading[n] = s THEN Applied(Head(send[s]), @) ELSE @]
  /\ UNCHANGED <<sigilVars, streams, owner, phase, reading>>

\* Variant: the clean-up removes whatever stream is registered for the node.
SubscribeReturnUnchecked(s) ==
  /\ \/ phase[s] = "cancelled"
     \/ phase[s] = "serving" /\ reading[owner[s]] # s
  /\ streams' = [streams EXCEPT ![owner[s]] = NoStream]
  /\ phase' = [phase EXCEPT ![s] = "returned"]
  /\ send' = [send EXCEPT ![s] = <<>>]
  /\ UNCHANGED <<sigilVars, owner, agentVars>>

\* The loop ends, because the stream was cancelled or its client is gone
\* (ctx.Done or an error of Send), and the deferred clean-up removes the
\* stream from the map if it is still the one registered.  The channel is
\* garbage from here on.
SubscribeReturn(s) ==
  LET n == owner[s] IN
  /\ \/ phase[s] = "cancelled"
     \/ phase[s] = "serving" /\ reading[n] # s
  /\ streams' = [streams EXCEPT ![n] = IF @ = s THEN NoStream ELSE @]
  /\ phase' = [phase EXCEPT ![s] = "returned"]
  /\ send' = [send EXCEPT ![s] = <<>>]
  /\ UNCHANGED <<sigilVars, owner, agentVars>>

\* Variants: the newest push goes first; a full channel grows; a channel
\* without a buffer.
EnqueueFirst(as, push) ==
  send' = IF Len(send[as]) < ChanCap /\ phase[as] # "returned"
          THEN [send EXCEPT ![as] = <<push>> \o @]
          ELSE send

EnqueueGrowing(as, push) ==
  send' = IF phase[as] # "returned"
          THEN [send EXCEPT ![as] = Append(@, push)]
          ELSE send

EnqueueUnbuffered(as, push) ==
  send' = IF Len(send[as]) < 1 /\ phase[as] # "returned"
          THEN [send EXCEPT ![as] = Append(@, push)]
          ELSE send

\* Distributor.send after its lookup: put the push into the channel captured
\* by the lookup, whatever has become of that stream, or drop it if full.
Enqueue(as, push) ==
  send' = IF Len(send[as]) < ChanCap /\ phase[as] # "returned"
          THEN [send EXCEPT ![as] = Append(@, push)]
          ELSE send

-----------------------------------------------------------------------------
(* OnConnect: one goroutine per Subscribe call.                            *)

ConnectReadRules(s) ==
  /\ connect[s].pc = "rules"
  /\ connect' = [connect EXCEPT ![s] =
                [@ EXCEPT !.pc = "dflt", !.allow = eng.allow]]
  /\ UNCHANGED <<eng, posted, restarts, handler, distVars, agentVars>>

ConnectReadDefault(s) ==
  /\ connect[s].pc = "dflt"
  /\ connect' = [connect EXCEPT ![s] =
                [@ EXCEPT !.pc = "lookup", !.dflt = eng.dflt]]
  /\ UNCHANGED <<eng, posted, restarts, handler, distVars, agentVars>>

\* Item 0 of the goroutine's work is the policy, each later one a certificate.
ConnectAdvance(s) ==
  connect' = [connect EXCEPT ![s] =
                IF @.item = CertsPerHello THEN NotConnecting
                ELSE [@ EXCEPT !.pc = "lookup", !.item = connect[s].item + 1,
                               !.as = NoStream]]

\* send finds no stream for the node, or the certificate was not issued.
ConnectSkip(s) ==
  /\ connect[s].pc = "lookup"
  /\ streams[owner[s]] = NoStream \/ connect[s].item > 0
  /\ ConnectAdvance(s)
  /\ UNCHANGED <<eng, posted, restarts, handler, distVars, agentVars>>

ConnectLookup(s) ==
  /\ connect[s].pc = "lookup"
  /\ streams[owner[s]] # NoStream
  /\ connect' = [connect EXCEPT ![s] =
                   [@ EXCEPT !.pc = "send", !.as = streams[owner[s]]]]
  /\ UNCHANGED <<eng, posted, restarts, handler, distVars, agentVars>>

ConnectPush(c) ==
  IF c.item = 0 THEN [kind |-> "connect", allow |-> c.allow, dflt |-> c.dflt]
  ELSE CertPush

ConnectSend(s) ==
  /\ connect[s].pc = "send"
  /\ Enqueue(connect[s].as, ConnectPush(connect[s]))
  /\ ConnectAdvance(s)
  /\ UNCHANGED <<eng, posted, restarts, handler,
                 streams, owner, phase, agentVars>>

-----------------------------------------------------------------------------
(* POST /api/v1/config.  A document that does not parse changes nothing.    *)

\* *eng = *newEng copies the struct part by part, without a lock and in an
\* order the build chooses; the pc names the part still to be written.
ConfigSwapBegin(h) ==
  /\ handler[h].pc = "idle"
  /\ posted < MaxConfig
  /\ posted' = posted + 1
  /\ \/ /\ eng' = [eng EXCEPT !.allow = posted + 1]
        /\ handler' = [handler EXCEPT ![h] =
                      [@ EXCEPT !.pc = "swapDflt", !.v = posted + 1]]
     \/ /\ eng' = [eng EXCEPT !.dflt = posted + 1]
        /\ handler' = [handler EXCEPT ![h] =
                      [@ EXCEPT !.pc = "swapRules", !.v = posted + 1]]
  /\ UNCHANGED <<restarts, connect, distVars, agentVars>>

\* Variant: one part of the new engine is never copied.
ConfigSwapPartial(h) ==
  /\ handler[h].pc \in {"swapDflt", "swapRules"}
  /\ handler' = [handler EXCEPT ![h] = [@ EXCEPT !.pc = "rules"]]
  /\ UNCHANGED <<eng, posted, restarts, connect, distVars, agentVars>>

ConfigSwapEnd(h) ==
  /\ \/ /\ handler[h].pc = "swapDflt"
        /\ eng' = [eng EXCEPT !.dflt = handler[h].v]
     \/ /\ handler[h].pc = "swapRules"
        /\ eng' = [eng EXCEPT !.allow = handler[h].v]
  /\ handler' = [handler EXCEPT ![h] = [@ EXCEPT !.pc = "rules"]]
  /\ UNCHANGED <<posted, restarts, connect, distVars, agentVars>>

\* The handler reads back what it will broadcast.
ConfigReadRules(h) ==
  /\ handler[h].pc = "rules"
  /\ handler' = [handler EXCEPT ![h] =
                [@ EXCEPT !.pc = "dflt", !.allow = eng.allow]]
  /\ UNCHANGED <<eng, posted, restarts, connect, distVars, agentVars>>

ConfigReadDefault(h) ==
  /\ handler[h].pc = "dflt"
  /\ handler' = [handler EXCEPT ![h] =
                [@ EXCEPT !.pc = "snapshot", !.dflt = eng.dflt]]
  /\ UNCHANGED <<eng, posted, restarts, connect, distVars, agentVars>>

Registered == {n \in Nodes : streams[n] # NoStream}

\* The handler with the nodes of todo still to be sent to.
Sending(hd, todo) ==
  IF todo = {} THEN IdleHandler
  ELSE [hd EXCEPT !.pc = "lookup", !.todo = todo, !.as = NoStream]

\* BroadcastPolicy copies the registered node ids under the read lock ...
BroadcastSnapshot(h) ==
  /\ handler[h].pc = "snapshot"
  /\ handler' = [handler EXCEPT ![h] = Sending(@, Registered)]
  /\ UNCHANGED <<eng, posted, restarts, connect, distVars, agentVars>>

\* ... and sends to them one by one, looking each one up again.
BroadcastLookup(h, n) ==
  /\ handler[h].pc = "lookup"
  /\ n \in handler[h].todo
  /\ handler' = [handler EXCEPT ![h] =
       IF streams[n] = NoStream THEN Sending(@, @.todo \ {n})
       ELSE [@ EXCEPT !.pc = "send", !.todo = handler[h].todo \ {n},
                      !.as = streams[n]]]
  /\ UNCHANGED <<eng, posted, restarts, connect, distVars, agentVars>>

ConfigPush(hd) == [kind |-> "config", allow |-> hd.allow, dflt |-> hd.dflt]

BroadcastSend(h) ==
  /\ handler[h].pc = "send"
  /\ Enqueue(handler[h].as, ConfigPush(handler[h]))
  /\ handler' = [handler EXCEPT ![h] = Sending(@, @.todo)]
  /\ UNCHANGED <<eng, posted, restarts, connect,
                 streams, owner, phase, agentVars>>

-----------------------------------------------------------------------------
\* Sigil restarts: the engine is read from the file again, an accepted
\* document is stored nowhere, and every goroutine and stream is gone.
SigilRestart ==
  /\ restarts < MaxRestarts
  /\ restarts' = restarts + 1
  /\ eng' = [allow |-> 0, dflt |-> 0]
  /\ handler' = [h \in Handlers |-> IdleHandler]
  /\ connect' = [s \in Streams |-> NotConnecting]
  /\ streams' = [n \in Nodes |-> NoStream]
  /\ phase' = [s \in Streams |->
                 IF phase[s] = "unused" THEN "unused" ELSE "returned"]
  /\ send' = [s \in Streams |-> <<>>]
  /\ UNCHANGED <<posted, owner, agentVars>>

AgentStep(n) ==
  \/ \E s \in Streams : AgentSubscribe(n, s)
  \/ AgentDisconnect(n)
  \/ AgentRestart(n)

ConnectStep(s) ==
  \/ ConnectReadRules(s)
  \/ ConnectReadDefault(s)
  \/ ConnectSkip(s)
  \/ ConnectLookup(s)
  \/ ConnectSend(s)

StreamStep(s) ==
  \/ Subscribe(s)
  \/ StreamSend(s)
  \/ SubscribeReturn(s)

\* What a config handler does once it has accepted its document.
ConfigStep(h) ==
  \/ ConfigSwapEnd(h)
  \/ ConfigReadRules(h)
  \/ ConfigReadDefault(h)
  \/ BroadcastSnapshot(h)
  \/ \E n \in Nodes : BroadcastLookup(h, n)
  \/ BroadcastSend(h)

Next ==
  \/ \E n \in Nodes : AgentStep(n)
  \/ \E s \in Streams : StreamStep(s) \/ ConnectStep(s)
  \/ \E h \in Handlers : ConfigSwapBegin(h) \/ ConfigStep(h)
  \/ SigilRestart

Spec == Init /\ [][Next]_vars

\* Goroutines that can run do run, and an agent whose stream the server has
\* closed finds out.  Nothing makes an operator post, an agent subscribe (the
\* number of calls is bounded here) or anything fail.
Fairness ==
  /\ \A s \in Streams : WF_vars(StreamStep(s)) /\ WF_vars(ConnectStep(s))
  /\ \A h \in Handlers : WF_vars(ConfigStep(h))
  /\ \A n \in Nodes : WF_vars(/\ reading[n] # NoStream
                              /\ phase[reading[n]] = "returned"
                              /\ AgentDisconnect(n))

FairSpec == Spec /\ Fairness

-----------------------------------------------------------------------------
(* Properties.                                                             *)

\* The map and the Subscribe goroutines agree: a stream is served, and not
\* cancelled, exactly when it is the one registered for the node that opened
\* it.  So no node has two live streams, a live agent is never unreachable,
\* and the clean-up of a replaced stream leaves its successor in place
\* (distributor.go, Subscribe, lines 116-137).
ServedIffRegistered ==
  /\ \A s \in Streams :
       phase[s] = "serving" <=> owner[s] \in Nodes /\ streams[owner[s]] = s
  /\ \A n \in Nodes : streams[n] # NoStream => owner[streams[n]] = n

\* One handler at a time accepts config documents.
SingleWriter == \E h \in Handlers : Handlers = {h}

\* With one writer, no broadcast mixes two documents: neither one in a channel
\* nor one an agent has applied (main.go, lines 466-481).
BroadcastsUntorn ==
  /\ \A s \in Streams : \A i \in 1..Len(send[s]) :
       send[s][i].kind = "config" => send[s][i].allow = send[s][i].dflt
  /\ \A n \in Nodes :
       cache[n].kind = "config" => cache[n].allow = cache[n].dflt

\* With one writer, an agent never goes back from one broadcast to an older
\* one, across replaced streams, lost pushes and restarts of Sigil.
BroadcastsInOrder ==
  [][\A n \in Nodes :
       cache[n].kind = "config" /\ cache'[n].kind = "config"
         => cache[n].allow <= cache'[n].allow]_vars

\* Nothing is on its way to n any more, and n's stream is served.
Settled(n) ==
  /\ reading[n] # NoStream
  /\ phase[reading[n]] = "serving"
  /\ send[reading[n]] = <<>>
  /\ \A h \in Handlers : handler[h].pc = "idle"
  /\ \A s \in Streams : owner[s] = n => connect[s].pc = "none"

HasEngine(n) ==
  /\ cache[n].kind # "none"
  /\ cache[n].allow = eng.allow
  /\ cache[n].dflt = eng.dflt

\* A step that drops a policy because the channel of a live stream is full.
Full(as) == phase[as] # "returned" /\ Len(send[as]) = ChanCap

PolicyDropped ==
  \/ \E s \in Streams :
       ConnectSend(s) /\ connect[s].item = 0 /\ Full(connect[s].as)
  \/ \E h \in Handlers : BroadcastSend(h) /\ Full(handler[h].as)

\* A config handler has yet to put its broadcast into n's channel.
Owed(n) ==
  \E h \in Handlers :
    LET w == handler[h] IN
    \/ w.pc \in {"swapRules", "swapDflt", "rules", "dflt", "snapshot"}
    \/ w.pc \in {"lookup", "send"} /\ n \in w.todo
    \/ w.pc = "send" /\ w.as = reading[n]

\* A step that pushes to n what an OnConnect has read of the engine, when the
\* engine no longer holds it and its broadcast to n has gone out already.
ConnectOvertaken ==
  \E s \in Streams, n \in Nodes :
    LET c == connect[s] IN
    /\ ConnectSend(s) /\ c.item = 0 /\ c.as = reading[n]
    /\ c.allow # eng.allow \/ c.dflt # eng.dflt
    /\ ~Owed(n)

\* With one writer and no policy dropped at a full channel, a broadcast never
\* leaves a connected agent behind, and none is left without a policy: once
\* nothing is on its way, an agent whose policy is not the engine's got it from
\* an OnConnect that read the engine before the document was swapped in and
\* pushed after the broadcast (main.go, lines 118-131 and 466-481).
OnlyConnectLeavesStale ==
  \A n \in Nodes : Settled(n) /\ ~HasEngine(n) => cache[n].kind = "connect"

\* The documentation's claim without that exception ("Policy Distributor ...
\* Pushes on every change"): a settled agent has the engine's policy.
SettledAgentsAreCurrent ==
  \A n \in Nodes : Settled(n) => HasEngine(n)

\* A broadcast that has a connected node on its list reaches the agent, unless
\* the agent leaves that stream or Sigil ends it first.
EveryBroadcastArrives ==
  \A h \in Handlers, n \in Nodes, s \in Streams, v \in 1..MaxConfig :
    (/\ handler[h].pc = "lookup" /\ handler[h].allow = v
     /\ n \in handler[h].todo
     /\ reading[n] = s /\ phase[s] = "serving")
      ~> \/ cache[n].kind = "config" /\ cache[n].allow = v
         \/ reading[n] # s
         \/ phase[s] # "serving"

\* An agent that opens a stream and keeps it gets a policy, whatever was
\* registered for its node before.
ConnectedAgentGetsPolicy ==
  \A n \in Nodes, s \in Streams :
    reading[n] = s ~> cache[n].kind # "none" \/ reading[n] # s

=============================================================================
