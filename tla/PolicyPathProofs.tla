------------------------- MODULE PolicyPathProofs -------------------------
(***************************************************************************)
(* Proofs about PolicyPath, for all sets of services and documents.        *)
(***************************************************************************)
EXTENDS PolicyPath, FiniteSetTheorems, TLAPS

-----------------------------------------------------------------------------
(* The functions of Policy.                                                *)

\* The engine's entries are the rules of the document, merged.
LEMMA EngineEntries ==
  ASSUME NEW cfg \in MeshConfig, NEW from, NEW to
  PROVE  (from \in DOMAIN NewEngine(cfg).allow /\ to \in NewEngine(cfg).allow[from])
           <=> \E i \in DOMAIN cfg.rules :
                 cfg.rules[i].from = from /\ to \in cfg.rules[i].to
BY DEF NewEngine

\* A list that Rules may return has one rule for every entry of the engine.
LEMMA OneRulePerEntry ==
  ASSUME NEW eng, NEW rules \in Rules(eng)
  PROVE  /\ \A i \in DOMAIN rules :
              /\ i \in Int
              /\ rules[i].from \in DOMAIN eng.allow
              /\ rules[i].to = eng.allow[rules[i].from]
         /\ \A i, j \in DOMAIN rules : rules[i].from = rules[j].from => i = j
         /\ \A from \in DOMAIN eng.allow :
              \E i \in DOMAIN rules : rules[i].from = from
<1> DEFINE D == DOMAIN eng.allow
           n == Cardinality(D)
<1>1. PICK p \in Bijection(1..n, D) :
        rules = [i \in DOMAIN p |-> [from |-> p[i], to |-> eng.allow[p[i]]]]
  BY DEF Rules
<1>2. /\ p \in [1..n -> D]
      /\ \A i, j \in 1..n : p[i] = p[j] => i = j
      /\ \A d \in D : \E i \in 1..n : p[i] = d
  BY <1>1 DEF Bijection, Injection, Surjection, IsInjective
<1>3. /\ DOMAIN rules = 1..n
      /\ \A i \in 1..n : rules[i].from = p[i] /\ rules[i].to = eng.allow[p[i]]
  BY <1>1, <1>2
<1>. QED
  BY <1>2, <1>3

\* With such a list the first match is the only match, so is_allowed decides
\* by the service's entry if it has one and by the default if not, whatever
\* the order of the list.
LEMMA FirstMatchIsTheEntry ==
  ASSUME NEW eng, NEW rules \in Rules(eng), NEW cache, NEW from, NEW to,
         cache.rules = rules
  PROVE  IsAllowed(cache, from, to)
           <=> IF from \in DOMAIN eng.allow THEN to \in eng.allow[from]
               ELSE cache.dflt
<1> DEFINE Matches == {i \in DOMAIN rules : rules[i].from = from}
<1>1. CASE from \in DOMAIN eng.allow
  <2>1. PICK i \in DOMAIN rules : rules[i].from = from
    BY <1>1, OneRulePerEntry
  <2>2. Matches = {i} /\ i \in Int /\ rules[i].to = eng.allow[from]
    BY <2>1, OneRulePerEntry
  <2>3. IsAllowed(cache, from, to) <=> to \in rules[i].to
    BY <2>2 DEF IsAllowed
  <2>. QED
    BY <1>1, <2>2, <2>3
<1>2. CASE from \notin DOMAIN eng.allow
  <2>1. Matches = {}
    BY <1>2, OneRulePerEntry
  <2>. QED
    BY <1>2, <2>1 DEF IsAllowed
<1>. QED
  BY <1>1, <1>2

\* The gateway's answer, in terms of the engine.
LEMMA DestinationIsSomeEntry ==
  ASSUME NEW eng, NEW rules \in Rules(eng), NEW cache, NEW to,
         cache.rules = rules
  PROVE  IsAllowedDestination(cache, to)
           <=> \/ \E from \in DOMAIN eng.allow : to \in eng.allow[from]
               \/ cache.dflt
BY OneRulePerEntry DEF IsAllowedDestination

-----------------------------------------------------------------------------
(* The inductive invariant: a cache of the current version holds a list of *)
(* the current engine, and the engine is the compiled document.            *)

HoldsEngine(cache) ==
  /\ cache.version \in Nat /\ cache.version <= version
  /\ cache.version = version =>
       cache.rules \in Rules(engine) /\ cache.dflt = engine.dflt

CompiledInv ==
  /\ doc \in MeshConfig
  /\ engine = NewEngine(doc)
  /\ version \in Nat \ {0}
  /\ HoldsEngine(agent)
  /\ HoldsEngine(gateway)

LEMMA CompiledInit == Init => CompiledInv
BY DocumentsAssumption
   DEF DocumentsAssumption, Init, CompiledInv, HoldsEngine, EmptyCache

LEMMA CompiledNext == CompiledInv /\ [Next]_vars => CompiledInv'
<1> SUFFICES ASSUME CompiledInv, [Next]_vars PROVE CompiledInv'
  OBVIOUS
<1> USE DEF CompiledInv, HoldsEngine
<1>1. ASSUME NEW d \in Documents, LoadConfig(d) PROVE CompiledInv'
  <2>1. d \in MeshConfig
    BY DocumentsAssumption DEF DocumentsAssumption
  <2>2. /\ agent.version <= version /\ agent' = agent
        /\ gateway.version <= version /\ gateway' = gateway
        /\ version' = version + 1
    BY <1>1 DEF LoadConfig
  <2>3. agent'.version < version' /\ gateway'.version < version'
    BY <2>2
  <2>. QED
    BY <1>1, <2>1, <2>2, <2>3 DEF LoadConfig
<1>2. ASSUME NEW rules \in Rules(engine), PushPolicy(rules)
      PROVE  CompiledInv'
  BY <1>2 DEF PushPolicy
<1>3. ASSUME NEW rules \in Rules(engine), PollPolicy(rules)
      PROVE  CompiledInv'
  <2>1. CASE Decodable(rules)
    BY <1>3, <2>1 DEF PollPolicy
  <2>2. CASE ~Decodable(rules)
    BY <1>3, <2>2 DEF PollPolicy
  <2>. QED
    BY <2>1, <2>2
<1>4. CASE AgentRestart
  BY <1>4 DEF AgentRestart, EmptyCache
<1>5. CASE GatewayRestart
  BY <1>5 DEF GatewayRestart, EmptyCache
<1>6. CASE UNCHANGED vars
  BY <1>6 DEF vars
<1>. QED
  BY <1>1, <1>2, <1>3, <1>4, <1>5, <1>6 DEF Next

THEOREM Compiled == Spec => []CompiledInv
<1>1. Init => CompiledInv
  BY CompiledInit
<1>2. CompiledInv /\ [Next]_vars => CompiledInv'
  BY CompiledNext
<1>. QED
  BY <1>1, <1>2, PTL DEF Spec

-----------------------------------------------------------------------------
(* The theorems.                                                           *)

\* An agent with the current policy allows a call exactly when some rule of
\* the document does, or the default is to allow and no rule is for the caller
\* (newEngine, Rules, is_allowed); Evaluate applies the default to all pairs
\* that no rule lists.
THEOREM AgentsEnforceTheDocument == Spec => []AgentEnforcesDocument
<1>1. CompiledInv => AgentEnforcesDocument
  <2> SUFFICES ASSUME CompiledInv, agent.version = version,
                      NEW from \in Services, NEW to \in Services
               PROVE  /\ IsAllowed(agent, from, to)
                           <=> Permitted(from, to) \/ (doc.dflt /\ ~Ruled(from))
                      /\ Evaluate(engine, from, to)
                           <=> Permitted(from, to) \/ doc.dflt
    BY DEF AgentEnforcesDocument
  <2>1. /\ agent.rules \in Rules(engine)
        /\ engine = NewEngine(doc) /\ doc \in MeshConfig
        /\ agent.dflt = doc.dflt /\ engine.dflt = doc.dflt
    BY DEF CompiledInv, HoldsEngine, NewEngine
  <2>2. IsAllowed(agent, from, to)
          <=> IF from \in DOMAIN engine.allow THEN to \in engine.allow[from]
              ELSE doc.dflt
    BY <2>1, FirstMatchIsTheEntry
  <2>3. (from \in DOMAIN engine.allow /\ to \in engine.allow[from])
          <=> Permitted(from, to)
    BY <2>1, EngineEntries DEF Permitted
  <2>4. from \in DOMAIN engine.allow <=> Ruled(from)
    BY <2>1 DEF NewEngine, Ruled
  <2>5. IsAllowed(agent, from, to)
          <=> Permitted(from, to) \/ (doc.dflt /\ ~Ruled(from))
    BY <2>2, <2>3, <2>4
  <2>6. Evaluate(engine, from, to) <=> Permitted(from, to) \/ doc.dflt
    BY <2>1, <2>3 DEF Evaluate
  <2>. QED
    BY <2>5, <2>6
<1>. QED
  BY <1>1, Compiled, PTL

\* meshctl verify predicts the agents: two lists of one engine decide alike,
\* in whatever order its map was iterated (Rules, isAllowed, is_allowed).
THEOREM MeshctlIsRight == Spec => []MeshctlPredictsAgent
<1>1. CompiledInv => MeshctlPredictsAgent
  <2> SUFFICES ASSUME CompiledInv, agent.version = version,
                      NEW rules \in Rules(engine),
                      NEW from \in Services, NEW to \in Services
               PROVE  IsAllowed([rules |-> rules, dflt |-> engine.dflt], from, to)
                        <=> IsAllowed(agent, from, to)
    BY DEF MeshctlPredictsAgent
  <2> DEFINE cache == [rules |-> rules, dflt |-> engine.dflt]
  <2>1. agent.rules \in Rules(engine) /\ agent.dflt = engine.dflt
    BY DEF CompiledInv, HoldsEngine
  <2>2. cache.rules = rules /\ cache.dflt = engine.dflt
    OBVIOUS
  <2>3. IsAllowed(cache, from, to)
          <=> IF from \in DOMAIN engine.allow THEN to \in engine.allow[from]
              ELSE engine.dflt
    <3> HIDE DEF cache
    <3>. QED
      BY <2>2, FirstMatchIsTheEntry
  <2>4. IsAllowed(agent, from, to)
          <=> IF from \in DOMAIN engine.allow THEN to \in engine.allow[from]
              ELSE engine.dflt
    BY <2>1, FirstMatchIsTheEntry
  <2>. QED
    BY <2>3, <2>4
<1>. QED
  BY <1>1, Compiled, PTL

\* A gateway with the current policy refuses nothing that an agent would let
\* some caller reach, and under default deny lets through nothing else
\* (is_allowed_destination against is_allowed).
THEOREM GatewaysMatchAgents == Spec => []GatewayMatchesAgent
<1>1. CompiledInv => GatewayMatchesAgent
  <2> SUFFICES ASSUME CompiledInv,
                      agent.version = version, gateway.version = version,
                      NEW to \in Services
               PROVE  LET Reachable == \E from \in Services :
                                         IsAllowed(agent, from, to)
                      IN /\ Reachable => IsAllowedDestination(gateway, to)
                         /\ ~doc.dflt /\ IsAllowedDestination(gateway, to)
                              => Reachable
    BY DEF GatewayMatchesAgent
  <2>1. /\ agent.rules \in Rules(engine) /\ agent.dflt = engine.dflt
        /\ gateway.rules \in Rules(engine) /\ gateway.dflt = engine.dflt
        /\ engine = NewEngine(doc) /\ doc \in MeshConfig
    BY DEF CompiledInv, HoldsEngine
  <2>2. /\ engine.dflt = doc.dflt
        /\ \A f \in DOMAIN engine.allow : f \in Services
    <3>1. \A i \in DOMAIN doc.rules : doc.rules[i].from \in Services
      <4>1. doc.rules \in Seq(AllowRule)
        BY <2>1 DEF MeshConfig
      <4>2. \A i \in DOMAIN doc.rules : doc.rules[i] \in AllowRule
        <5> HIDE DEF AllowRule
        <5>. QED
          BY <4>1
      <4>. QED
        BY <4>2 DEF AllowRule
    <3>. QED
      BY <2>1, <3>1 DEF NewEngine
  <2>3. \A from \in Services : IsAllowed(agent, from, to)
          <=> IF from \in DOMAIN engine.allow THEN to \in engine.allow[from]
              ELSE engine.dflt
    BY <2>1, FirstMatchIsTheEntry
  <2>4. IsAllowedDestination(gateway, to)
          <=> \/ \E from \in DOMAIN engine.allow : to \in engine.allow[from]
              \/ engine.dflt
    BY <2>1, DestinationIsSomeEntry
  <2>. QED
    BY <2>2, <2>3, <2>4
<1>. QED
  BY <1>1, Compiled, PTL

-----------------------------------------------------------------------------
(* Which answers a gateway applies.                                        *)

\* Every service with a rule may call something, and there are few of them.
PlainEngine(eng) ==
  /\ \A from \in DOMAIN eng.allow : eng.allow[from] # {}
  /\ Cardinality(DOMAIN eng.allow) <= PlainRules

\* Whether an answer can be decoded depends on the engine, not on the order
\* its map was iterated in.
LEMMA DecodableIsPlain ==
  ASSUME NEW eng, IsFiniteSet(DOMAIN eng.allow), NEW rules \in Rules(eng)
  PROVE  Decodable(rules) <=> PlainEngine(eng)
<1> DEFINE D == DOMAIN eng.allow
           n == Cardinality(D)
<1>1. n \in Nat
  BY FS_CardinalityType
<1>2. DOMAIN rules = 1..n
  <2>1. PICK p \in Bijection(1..n, D) :
          rules = [i \in DOMAIN p |-> [from |-> p[i], to |-> eng.allow[p[i]]]]
    BY DEF Rules
  <2>. QED
    BY <2>1 DEF Bijection, Injection
<1>3. Len(rules) = n
  <2>1. rules = [i \in 1..n |-> rules[i]]
    <3>1. PICK p \in Bijection(1..n, D) :
            rules = [i \in DOMAIN p |-> [from |-> p[i], to |-> eng.allow[p[i]]]]
      BY DEF Rules
    <3>. QED
      BY <3>1, <1>2
  <2>2. rules \in Seq({rules[i] : i \in 1..n})
    BY <1>1, <2>1
  <2>. QED
    BY <1>1, <1>2, <2>2
<1>4. (\A i \in DOMAIN rules : rules[i].to # {})
        <=> \A from \in D : eng.allow[from] # {}
  BY OneRulePerEntry
<1>. QED
  BY <1>3, <1>4 DEF Decodable, PlainEngine

\* The engine has finitely many entries.
LEMMA FiniteEngine ==
  ASSUME NEW cfg \in MeshConfig
  PROVE  IsFiniteSet(DOMAIN NewEngine(cfg).allow)
<1>1. cfg.rules \in Seq(AllowRule)
  BY DEF MeshConfig
<1>2. Len(cfg.rules) \in Nat /\ DOMAIN cfg.rules = 1..Len(cfg.rules)
  <2> HIDE DEF AllowRule
  <2>. QED
    BY <1>1
<1>3. IsFiniteSet(1..Len(cfg.rules))
  BY <1>2, FS_Interval
<1>4. IsFiniteSet({cfg.rules[i].from : i \in DOMAIN cfg.rules})
  <2> DEFINE f == [i \in DOMAIN cfg.rules |-> cfg.rules[i].from]
             T == {cfg.rules[i].from : i \in DOMAIN cfg.rules}
  <2>1. f \in Surjection(DOMAIN cfg.rules, T)
    BY DEF Surjection
  <2>. QED
    BY <1>2, <1>3, <2>1, FS_Surjection
<1>5. DOMAIN NewEngine(cfg).allow = {cfg.rules[i].from : i \in DOMAIN cfg.rules}
  BY DEF NewEngine
<1>. QED
  BY <1>4, <1>5

\* A gateway answered with the current policy has it if it can be decoded.
AnswerInv ==
  /\ answered \in Nat
  /\ answered <= version
  /\ gateway.version <= answered
  /\ answered = version => (gateway.version = version <=> PlainEngine(engine))

LEMMA AnswerInit == Init => AnswerInv
BY DEF Init, AnswerInv, EmptyCache

LEMMA AnswerNext == CompiledInv /\ AnswerInv /\ [Next]_vars => AnswerInv'
<1> SUFFICES ASSUME CompiledInv, AnswerInv, [Next]_vars PROVE AnswerInv'
  OBVIOUS
<1>0. /\ version \in Nat /\ version > 0 /\ gateway.version \in Nat
      /\ doc \in MeshConfig /\ engine = NewEngine(doc)
  BY DEF CompiledInv, HoldsEngine
<1>1. ASSUME NEW d \in Documents, LoadConfig(d) PROVE AnswerInv'
  <2>1. /\ version' = version + 1 /\ answered' = answered
        /\ gateway' = gateway
    BY <1>1 DEF LoadConfig
  <2>. QED
    BY <1>0, <2>1 DEF AnswerInv
<1>2. ASSUME NEW rules \in Rules(engine), PushPolicy(rules) PROVE AnswerInv'
  BY <1>2 DEF PushPolicy, AnswerInv, PlainEngine
<1>3. ASSUME NEW rules \in Rules(engine), PollPolicy(rules) PROVE AnswerInv'
  <2>1. Decodable(rules) <=> PlainEngine(engine)
    BY <1>0, DecodableIsPlain, FiniteEngine
  <2>2. /\ answered' = version /\ version' = version
        /\ PlainEngine(engine)' <=> PlainEngine(engine)
    BY <1>3 DEF PollPolicy, PlainEngine
  <2>3. CASE Decodable(rules)
    <3>1. gateway'.version = version
      BY <1>3, <2>3 DEF PollPolicy
    <3>. QED
      BY <1>0, <2>1, <2>2, <2>3, <3>1 DEF AnswerInv
  <2>4. CASE ~Decodable(rules)
    <3>1. gateway' = gateway
      BY <1>3, <2>4 DEF PollPolicy
    <3>. QED
      BY <1>0, <2>1, <2>2, <2>4, <3>1 DEF AnswerInv
  <2>. QED
    BY <2>3, <2>4
<1>4. CASE AgentRestart
  BY <1>4 DEF AgentRestart, AnswerInv, PlainEngine
<1>5. CASE GatewayRestart
  <2>1. /\ answered' = 0 /\ gateway'.version = 0 /\ version' = version
    BY <1>5 DEF GatewayRestart, EmptyCache
  <2>. QED
    BY <1>0, <2>1 DEF AnswerInv
<1>6. CASE UNCHANGED vars
  BY <1>6 DEF vars, AnswerInv, PlainEngine
<1>. QED
  BY <1>1, <1>2, <1>3, <1>4, <1>5, <1>6 DEF Next

\* A gateway that has been answered has the policy, unless some service of the
\* document may call nothing or its rules are for too many services
\* (fetch_policy), for every document and every order of its rules.
THEOREM OnlyUndecodableAnswersAreLost ==
  Spec => []AnswerAppliedUnlessUndecodable
<1>1. Init => AnswerInv
  BY AnswerInit
<1>2. CompiledInv /\ AnswerInv /\ [Next]_vars => AnswerInv'
  BY AnswerNext
<1>3. CompiledInv /\ AnswerInv => AnswerAppliedUnlessUndecodable
  <2> SUFFICES ASSUME CompiledInv, AnswerInv
               PROVE  AnswerAppliedUnlessUndecodable
    OBVIOUS
  <2>1. doc \in MeshConfig /\ engine = NewEngine(doc)
    BY DEF CompiledInv
  <2>2. /\ doc.rules \in Seq(AllowRule)
        /\ \A i \in DOMAIN doc.rules : doc.rules[i] \in AllowRule
    <3>1. doc.rules \in Seq(AllowRule)
      BY <2>1 DEF MeshConfig
    <3> HIDE DEF AllowRule
    <3>. QED
      BY <3>1
  <2>3. \A i \in DOMAIN doc.rules :
          /\ doc.rules[i].from \in Services
          /\ doc.rules[i].to \subseteq Services
    BY <2>2 DEF AllowRule
  <2>4. DOMAIN engine.allow = {from \in Services : Ruled(from)}
    BY <2>1, <2>3 DEF NewEngine, Ruled
  <2>5. \A from \in DOMAIN engine.allow : \A to :
          to \in engine.allow[from] <=> to \in Services /\ Permitted(from, to)
    BY <2>1, <2>3, EngineEntries DEF Permitted
  <2>6. (\A from \in DOMAIN engine.allow : engine.allow[from] # {})
          <=> \A from \in Services :
                Ruled(from) => \E to \in Services : Permitted(from, to)
    BY <2>4, <2>5
  <2>. QED
    BY <2>4, <2>6 DEF AnswerInv, PlainEngine, AnswerAppliedUnlessUndecodable
<1>. QED
  BY <1>1, <1>2, <1>3, Compiled, PTL DEF Spec

=============================================================================
