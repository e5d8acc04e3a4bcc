------------------------------ MODULE Policy ------------------------------
(***************************************************************************)
(* The policy, as a document, as Sigil's Engine and as the PolicyCache of  *)
(* an agent or a gateway, and the functions that decide with it.           *)
(*                                                                         *)
(* A document lists allow rules in the order the operator wrote them, with *)
(* any number of rules for one service.  The Engine is a map from a        *)
(* service to the set of services it may call.  What Sigil sends is a list *)
(* again, one rule per service, in the order its map iteration chooses,    *)
(* and a PolicyCache keeps that list.                                      *)
(***************************************************************************)
EXTENDS Naturals, Sequences, FiniteSets, Functions

CONSTANTS
  Services,
  PlainRules   \* the rules whose JSON fits the buffer of Go's HTTP server

ASSUME PolicyAssumption == PlainRules \in Nat

\* An allow rule.  The order within `to` decides nothing.
AllowRule == [from : Services, to : SUBSET Services]

MeshConfig == [rules : Seq(AllowRule), dflt : BOOLEAN]

-----------------------------------------------------------------------------
(* Sigil.                                                                  *)

\* Variant: a later rule of a service replaces the earlier ones.
NewEngineLastRule(cfg) ==
  [allow |-> [from \in {cfg.rules[i].from : i \in DOMAIN cfg.rules} |->
                UNION {cfg.rules[i].to : i \in {j \in DOMAIN cfg.rules :
                         /\ cfg.rules[j].from = from
                         /\ \A k \in DOMAIN cfg.rules :
                              cfg.rules[k].from = from => k <= j}}],
   dflt |-> cfg.dflt]

\* newEngine: the rules of one service are merged.  A rule without
\* destinations still leaves an entry for its service.
NewEngine(cfg) ==
  [allow |-> [from \in {cfg.rules[i].from : i \in DOMAIN cfg.rules} |->
                UNION {cfg.rules[i].to : i \in {j \in DOMAIN cfg.rules :
                         cfg.rules[j].from = from}}],
   dflt |-> cfg.dflt]

\* Evaluate: an explicit rule, or the default.
Evaluate(eng, from, to) ==
  \/ from \in DOMAIN eng.allow /\ to \in eng.allow[from]
  \/ eng.dflt

\* Variant: one rule per pair of services instead of one per service.
RulesPerPair(eng) ==
  LET Pairs == {p \in (DOMAIN eng.allow) \X Services : p[2] \in eng.allow[p[1]]}
  IN {[i \in DOMAIN p |-> [from |-> p[i][1], to |-> {p[i][2]}]] :
        p \in Bijection(1..Cardinality(Pairs), Pairs)}

\* Rules: the lists a call may return.
Rules(eng) ==
  {[i \in DOMAIN p |-> [from |-> p[i], to |-> eng.allow[p[i]]]] :
     p \in Bijection(1..Cardinality(DOMAIN eng.allow), DOMAIN eng.allow)}

-----------------------------------------------------------------------------
(* The agents, the gateways and the command line tool.                     *)

\* PolicyCache::new allows everything.
NewCache == [rules |-> <<>>, dflt |-> TRUE]

\* PolicyCache::is_allowed, and isAllowed of the command line tool: the first
\* rule of the calling service decides, and denies what it does not list; the
\* default is for services without a rule.
IsAllowed(cache, from, to) ==
  LET Matches == {i \in DOMAIN cache.rules : cache.rules[i].from = from}
  IN IF Matches = {} THEN cache.dflt
     ELSE \E i \in Matches : /\ \A j \in Matches : i <= j
                             /\ to \in cache.rules[i].to

\* Variant: only the first rule is looked at.
IsAllowedDestinationFirst(cache, to) ==
  \/ cache.rules # <<>> /\ to \in cache.rules[1].to
  \/ cache.dflt

\* PolicyCache::is_allowed_destination: the gateway does not know who calls.
IsAllowedDestination(cache, to) ==
  \/ \E i \in DOMAIN cache.rules : to \in cache.rules[i].to
  \/ cache.dflt

\* What Conduit can decode.  The JSON of a rule without destinations has a
\* null in the place of its list, which the decoder refuses; and an answer too
\* long for the server's buffer (2048 bytes) is sent in chunks, which
\* extract_body leaves in the text.
Decodable(rules) ==
  /\ \A i \in DOMAIN rules : rules[i].to # {}
  /\ Len(rules) <= PlainRules
=============================================================================
