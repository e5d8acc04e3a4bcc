---------------------------- MODULE PolicyPath ----------------------------
(***************************************************************************)
(* The path of a policy document: Sigil compiles it, an agent gets the     *)
(* compiled policy as a list pushed over gRPC, and a gateway polls it over *)
(* HTTP as JSON.  When and in which order pushes arrive is the subject of  *)
(* PolicyDistribution; here a push or a poll is one step, and the question *)
(* is whether Sigil, agents, gateways and the command line tool decide     *)
(* alike once they have the same document.                                 *)
(***************************************************************************)
EXTENDS Policy

CONSTANTS
  Documents,      \* the documents an operator may post
  StartDocument,  \* the file Sigil starts from
  MaxVersion      \* bound: documents loaded, the first one included

ASSUME DocumentsAssumption ==
  /\ \A doc \in Documents : doc \in MeshConfig
  /\ StartDocument \in MeshConfig
  /\ MaxVersion \in Nat \ {0}

VARIABLES
  doc,      \* the document Sigil accepted last
  engine,   \* *eng
  version,  \* how many documents Sigil has loaded
  agent,    \* an agent's PolicyCache and the version it was pushed at
  gateway,  \* a gateway's PolicyCache, the version it was polled at
  answered  \* the version of the last answer the gateway's poll received

vars == <<doc, engine, version, agent, gateway, answered>>

EmptyCache == [rules |-> NewCache.rules, dflt |-> NewCache.dflt, version |-> 0]

Init ==
  /\ doc = StartDocument
  /\ engine = NewEngine(StartDocument)
  /\ version = 1
  /\ agent = EmptyCache
  /\ gateway = EmptyCache
  /\ answered = 0

\* POST /api/v1/config.
LoadConfig(d) ==
  /\ version < MaxVersion
  /\ doc' = d
  /\ engine' = NewEngine(d)
  /\ version' = version + 1
  /\ UNCHANGED <<agent, gateway, answered>>

\* Sigil pushes Rules() and the default; the agent replaces its cache.
PushPolicy(rules) ==
  /\ rules \in Rules(engine)
  /\ agent' = [rules |-> rules, dflt |-> engine.dflt, version |-> version]
  /\ UNCHANGED <<doc, engine, version, gateway, answered>>

AgentRestart ==
  /\ agent' = EmptyCache
  /\ UNCHANGED <<doc, engine, version, gateway, answered>>

\* A poll that Sigil answers.  An answer the gateway cannot decode is logged
\* and leaves the cache as it is.
PollPolicy(rules) ==
  /\ rules \in Rules(engine)
  /\ answered' = version
  /\ gateway' = IF Decodable(rules)
                THEN [rules |-> rules, dflt |-> engine.dflt,
                      version |-> version]
                ELSE gateway
  /\ UNCHANGED <<doc, engine, version, agent>>

GatewayRestart ==
  /\ gateway' = EmptyCache
  /\ answered' = 0
  /\ UNCHANGED <<doc, engine, version, agent>>

Next ==
  \/ \E d \in Documents : LoadConfig(d)
  \/ \E rules \in Rules(engine) : PushPolicy(rules) \/ PollPolicy(rules)
  \/ AgentRestart
  \/ GatewayRestart

Spec == Init /\ [][Next]_vars

-----------------------------------------------------------------------------
(* Properties.                                                             *)

\* Some rule of the document allows the call.
Permitted(from, to) ==
  \E i \in DOMAIN doc.rules :
    doc.rules[i].from = from /\ to \in doc.rules[i].to

\* Some rule of the document is for the calling service.
Ruled(from) == \E i \in DOMAIN doc.rules : doc.rules[i].from = from

\* From the document to a packet's verdict, however the rules of a service are
\* spread over the document and in whatever order Sigil's map listed them
\* (newEngine, Rules, apply_policy_bundle, is_allowed): an agent that has the
\* policy allows a call exactly when some rule of the document does, or the
\* default is to allow and no rule is for the caller.  Sigil's own Evaluate
\* applies the default to every pair no rule lists; it denies nothing that an
\* agent allows, and the same under default deny.
AgentEnforcesDocument ==
  agent.version = version =>
    \A from, to \in Services :
      /\ IsAllowed(agent, from, to)
           <=> Permitted(from, to) \/ (doc.dflt /\ ~Ruled(from))
      /\ Evaluate(engine, from, to) <=> Permitted(from, to) \/ doc.dflt

\* meshctl verify, which asks Sigil for the rules itself, predicts what an
\* agent with the current policy does: the two lists come from two calls of
\* Rules and may be ordered differently.
MeshctlPredictsAgent ==
  agent.version = version =>
    \A rules \in Rules(engine), from, to \in Services :
      IsAllowed([rules |-> rules, dflt |-> engine.dflt], from, to)
        <=> IsAllowed(agent, from, to)

\* A gateway, which does not know the caller, lets a destination through if
\* an agent lets some caller reach it, and when the default is to deny only
\* then.
GatewayMatchesAgent ==
  agent.version = version /\ gateway.version = version =>
    \A to \in Services :
      LET Reachable == \E from \in Services : IsAllowed(agent, from, to)
      IN /\ Reachable => IsAllowedDestination(gateway, to)
         /\ ~doc.dflt /\ IsAllowedDestination(gateway, to) => Reachable

\* The poll "keeps the shared PolicyCache up to date" except for a document
\* with a service none of whose rules has a destination, or with rules for so
\* many services that the answer comes in chunks (Rules, fetch_policy,
\* extract_body): then, and only then, a gateway that has been answered goes on
\* with what it had, a cache that allows everything if it has just started.
AnswerAppliedUnlessUndecodable ==
  answered = version =>
    (gateway.version = version
       <=> /\ \A from \in Services :
                Ruled(from) => \E to \in Services : Permitted(from, to)
           /\ Cardinality({from \in Services : Ruled(from)}) <= PlainRules)

=============================================================================
