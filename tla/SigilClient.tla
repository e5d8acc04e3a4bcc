----------------------------- MODULE SigilClient -----------------------------
(***************************************************************************)
(* An agent's connection to Sigil.  The agent begins without certificates, *)
(* on Sigil's plaintext port; the first certificate it is pushed brings it *)
(* to the TLS port, to which it then returns for ever.  There it verifies  *)
(* Sigil by the root that came with one of its certificates, any one of    *)
(* them; Sigil asks for the agent's own certificate and verifies nothing.  *)
(*                                                                         *)
(* Composed with RootCA, which says which root Sigil signs by and when its *)
(* listener has a valid certificate.  The order of pushes and what becomes *)
(* of the policies are PolicyDistribution's, how certificates age is       *)
(* CertLifecycle's.                                                        *)
(***************************************************************************)
EXTENDS RootCA

CONSTANTS
  Node,     \* the name of the agent's node, which it names as a service too
  Names,    \* all the names its certificates can be for
  NoCert,   \* no certificate
  MaxDrops  \* bound: calls and streams the network breaks

ASSUME ClientAssumption ==
  /\ Node \in Names
  /\ NoCert \notin Roots
  /\ MaxDrops \in Nat

VARIABLES
  state,   \* the agent's State
  stream,  \* its Subscribe call; Sigil may have broken it before the agent knows
  store,   \* its CertStore: the root each certificate came with
  hello,   \* the names of its last AgentHello
  due,     \* those of them that OnConnect has yet to push a certificate for
  drops    \* breaks so far

agentVars == <<state, stream, store, hello, due, drops>>
vars == <<rootVars, agentVars>>

States  == {"Bootstrap", "UpgradingTLS", "ConnectedTLS"}

TypeOK ==
  /\ RootTypeOK
  /\ state \in States
  /\ stream \in {"none", "open", "broken"}
  /\ store \in [Names -> Roots \cup {NoCert}]
  /\ hello \subseteq Names /\ due \subseteq hello
  /\ drops \in 0..MaxDrops

EmptyStore == [s \in Names |-> NoCert]

Init ==
  /\ RootInit
  /\ state = "Bootstrap"
  /\ stream = "none"
  /\ store = EmptyStore
  /\ hello = {} /\ due = {}
  /\ drops = 0

Held == {s \in Names : store[s] # NoCert}

\* Some certificate's root verifies Sigil: first_cert takes the entry that a
\* HashMap lists first.
Verified == /\ sigil = "up"
            /\ listener > 0
            /\ \E s \in Held : store[s] = root

\* Variant: what was owed to the last stream is owed to this one as well.
SubscribeOwing ==
  /\ stream' = "open"
  /\ \E services \in SUBSET Names : hello' = services \cup {Node}
  /\ due' = due \cup hello'

\* make_hello: what the snapshot holds, and the node itself.
Subscribe ==
  /\ stream' = "open"
  /\ \E services \in SUBSET Names : hello' = services \cup {Node}
  /\ due' = hello'

-----------------------------------------------------------------------------
(* The agent.                                                              *)

BootstrapSubscribe ==
  /\ state = "Bootstrap" /\ stream = "none"
  /\ sigil = "up"
  /\ Subscribe
  /\ UNCHANGED <<rootVars, state, store, drops>>

\* Variant: any push ends the bootstrap, a policy as well.
FirstPush(s) ==
  /\ state = "Bootstrap" /\ stream = "open"
  /\ store' = store \/ store' = [store EXCEPT ![s] = root]
  /\ state' = "UpgradingTLS"
  /\ stream' = "none"
  /\ UNCHANGED <<rootVars, hello, due, drops>>

\* The first certificate on the plaintext stream: the stream is dropped, with
\* what else is on it.
FirstCert(s) ==
  /\ state = "Bootstrap" /\ stream = "open"
  /\ store' = [store EXCEPT ![s] = root]
  /\ state' = "UpgradingTLS"
  /\ stream' = "none"
  /\ UNCHANGED <<rootVars, hello, due, drops>>

\* A first call on the TLS port, whose stream is dropped at once.
Upgrade ==
  /\ state = "UpgradingTLS"
  /\ Verified
  /\ state' = "ConnectedTLS"
  /\ UNCHANGED <<rootVars, stream, store, hello, due, drops>>

\* The second call, whose stream is kept.
Connect ==
  /\ state = "ConnectedTLS" /\ stream = "none"
  /\ Verified
  /\ Subscribe
  /\ UNCHANGED <<rootVars, state, store, drops>>

\* The network's part in a failed call is bounded, Sigil's is not.
ConnectFails ==
  /\ state = "ConnectedTLS" /\ stream = "none"
  /\ \/ ~Verified /\ drops' = drops
     \/ drops < MaxDrops /\ drops' = drops + 1
  /\ state' = "UpgradingTLS"
  /\ UNCHANGED <<rootVars, stream, store, hello, due>>

\* A certificate of OnConnect's, or any other that is issued for a name.
PushCert(s) ==
  /\ state = "ConnectedTLS" /\ stream = "open"
  /\ store' = [store EXCEPT ![s] = root]
  /\ due' = due \ {s}
  /\ UNCHANGED <<rootVars, state, stream, hello, drops>>

\* The network breaks the stream, and the agent is told: there is no keepalive
\* on it to find a connection that dies in silence.
Drop ==
  /\ stream = "open"
  /\ drops < MaxDrops
  /\ drops' = drops + 1
  /\ stream' = "broken"
  /\ UNCHANGED <<rootVars, state, store, hello, due>>

\* Variant: a closed stream leaves the agent in its state.
StreamEndsUnnoticed ==
  /\ stream = "broken"
  /\ state # "ConnectedTLS"
  /\ stream' = "none"
  /\ UNCHANGED <<rootVars, state, store, hello, due, drops>>

\* stream.message() returns an error or nothing.
StreamEnds ==
  /\ stream = "broken"
  /\ stream' = "none"
  /\ state' = IF state = "ConnectedTLS" THEN "UpgradingTLS" ELSE state
  /\ UNCHANGED <<rootVars, store, hello, due, drops>>

\* The agent's process is started again, with an empty CertStore.
AgentRestart ==
  /\ crashes < MaxCrashes
  /\ crashes' = crashes + 1
  /\ state' = "Bootstrap"
  /\ stream' = "none"
  /\ store' = EmptyStore
  /\ UNCHANGED <<files, sigil, root, made, listener, losses, hello, due, drops>>

Agent ==
  \/ BootstrapSubscribe \/ Upgrade \/ Connect \/ ConnectFails \/ StreamEnds

Push == \E s \in Names : FirstCert(s) \/ PushCert(s)

\* Sigil's process, which breaks its streams when it crashes.
Sigil ==
  \/ Starting /\ UNCHANGED agentVars
  \/ /\ SigilCrash
     /\ stream' = IF stream = "open" THEN "broken" ELSE stream
     /\ UNCHANGED <<state, store, hello, due, drops>>

Environment ==
  \/ LoseVolume /\ UNCHANGED agentVars
  \/ Expire /\ UNCHANGED agentVars
  \/ Drop
  \/ AgentRestart

Next == Agent \/ Push \/ Sigil \/ Environment

Spec == Init /\ [][Next]_vars

\* Sigil's container is started again whenever it has exited; the agent's loop
\* runs; OnConnect issues and pushes a certificate for each name.
Fairness ==
  /\ WF_vars(Sigil /\ sigil' # "down")
  /\ WF_vars(Agent)
  /\ WF_vars(\E s \in due : FirstCert(s) \/ PushCert(s))

FairSpec == Spec /\ Fairness

-----------------------------------------------------------------------------
(* Properties.                                                             *)

\* Whatever crashes, and in the middle of whichever write, an agent holds no
\* root but the one in Sigil's two files, until the volume is lost: a restart
\* of Sigil never makes the certificates of running agents worthless, and it
\* makes no difference which of them first_cert takes.
TrustKept ==
  losses = 0 => \A s \in Held : store[s] = keyFile /\ store[s] = certFile

\* The fallback from UpgradingTLS to Bootstrap, which the code takes when the
\* store is empty, is never taken: an agent that has once left Bootstrap has a
\* certificate, across crashes and losses.
NeverUpgradesEmpty == state # "Bootstrap" => Held # {}

\* The agent is connected and holds a certificate for each name in its hello.
Settled == state = "ConnectedTLS" /\ stream = "open" /\ hello \subseteq Held

\* If Sigil comes to stay, with its files and a valid listener, the agent comes
\* to stay connected with all its certificates, from whatever state crashes,
\* failed calls and broken streams have left it in.
AgentSettles ==
  <>[](sigil = "up" /\ listener > 0 /\ losses = 0) => <>[]Settled

\* Sigil comes back after every crash, with one exception: a crash between the
\* truncation and the end of the write of root.crt leaves two files that New
\* insists on loading.
SigilComesBack == <>[](sigil = "up") \/ <>[](sigil = "down" /\ certFile = Torn)
=============================================================================
