------------------------- MODULE SigilClientProofs -------------------------
(***************************************************************************)
(* Proofs about SigilClient and RootCA, for every set of roots and names,  *)
(* every lifetime and any number of crashes, breaks and losses.            *)
(*                                                                         *)
(* RootInv says what the two files can be at each place a start can be     *)
(* interrupted at: never two whole files of two roots, and never two whole *)
(* files of one before the last write is done.  Sigil serves, and so an    *)
(* agent is given a root, only after that.                                 *)
(***************************************************************************)
EXTENDS SigilClient, TLAPS

-----------------------------------------------------------------------------
(* Types.                                                                  *)

LEMMA InitTypes == Init => TypeOK
BY RootAssumption, ClientAssumption
   DEF RootAssumption, ClientAssumption, Init, RootInit, TypeOK, RootTypeOK,
       Files, States, EmptyStore

LEMMA RootTypes ==
  ASSUME RootTypeOK, RootNext
  PROVE  RootTypeOK'
<1>. USE RootAssumption DEF RootAssumption, RootTypeOK, Files, files
<1>1. CASE Load
  BY <1>1 DEF Load
<1>2. CASE Generate
  BY <1>2 DEF Generate
<1>3. CASE FillKey
  BY <1>3 DEF FillKey
<1>4. CASE TruncateCert
  BY <1>4 DEF TruncateCert
<1>5. CASE FillCert
  BY <1>5 DEF FillCert
<1>6. CASE Listen
  BY <1>6 DEF Listen
<1>7. CASE SigilCrash
  BY <1>7 DEF SigilCrash
<1>8. CASE LoseVolume
  BY <1>8 DEF LoseVolume
<1>9. CASE Expire
  BY <1>9 DEF Expire
<1>. QED
  BY <1>1, <1>2, <1>3, <1>4, <1>5, <1>6, <1>7, <1>8, <1>9 DEF RootNext, Starting

\* Between Sigil's steps the root's files and process stay as they are, but
\* for the count of crashes.
RootStep == RootNext \/ UNCHANGED <<keyFile, certFile, sigil, root, made, listener, losses>>

LEMMA AgentSteps ==
  ASSUME TypeOK, stream = "open" => root \in Roots, [Next]_vars
  PROVE  RootStep /\ TypeOK'
<1>. USE DEF agentVars, rootVars, files
<1>r. ASSUME UNCHANGED rootVars PROVE RootStep /\ RootTypeOK'
  BY <1>r DEF RootStep, TypeOK, RootTypeOK
<1>s. ASSUME Subscribe
      PROVE  /\ stream' \in {"none", "open", "broken"}
             /\ hello' \subseteq Names /\ due' \subseteq hello'
  BY <1>s, ClientAssumption DEF ClientAssumption, Subscribe
<1>p. ASSUME NEW s \in Names, root \in Roots
      PROVE  [store EXCEPT ![s] = root] \in [Names -> Roots \cup {NoCert}]
  BY <1>p DEF TypeOK
<1>1. CASE BootstrapSubscribe
  BY <1>1, <1>r, <1>s DEF BootstrapSubscribe, TypeOK
<1>2. CASE Upgrade
  BY <1>2, <1>r DEF Upgrade, TypeOK, States
<1>3. CASE Connect
  BY <1>3, <1>r, <1>s DEF Connect, TypeOK
<1>4. CASE ConnectFails
  BY <1>4, <1>r, ClientAssumption DEF ConnectFails, TypeOK, States, ClientAssumption
<1>5. CASE StreamEnds
  BY <1>5, <1>r DEF StreamEnds, TypeOK, States
<1>6. ASSUME NEW s \in Names, FirstCert(s) PROVE RootStep /\ TypeOK'
  BY <1>6, <1>r, <1>p DEF FirstCert, TypeOK, States
<1>7. ASSUME NEW s \in Names, PushCert(s) PROVE RootStep /\ TypeOK'
  BY <1>7, <1>r, <1>p DEF PushCert, TypeOK
<1>8. CASE Sigil
  <2>1. RootNext /\ RootTypeOK'
    BY <1>8, RootTypes DEF Sigil, RootNext, TypeOK
  <2>. QED
    BY <1>8, <2>1 DEF Sigil, RootStep, TypeOK
<1>9. CASE (LoseVolume \/ Expire) /\ UNCHANGED agentVars
  <2>1. RootNext /\ RootTypeOK'
    BY <1>9, RootTypes DEF RootNext, TypeOK
  <2>. QED
    BY <1>9, <2>1 DEF RootStep, TypeOK
<1>10. CASE Drop
  BY <1>10, <1>r, ClientAssumption DEF Drop, TypeOK, ClientAssumption
<1>11. CASE AgentRestart
  BY <1>11, RootAssumption
     DEF AgentRestart, RootStep, TypeOK, RootTypeOK, States, EmptyStore, RootAssumption
<1>12. CASE UNCHANGED vars
  BY <1>12, <1>r DEF vars, TypeOK
<1>. QED
  BY <1>1, <1>2, <1>3, <1>4, <1>5, <1>6, <1>7, <1>8, <1>9, <1>10, <1>11, <1>12
     DEF Next, Agent, Push, Environment

-----------------------------------------------------------------------------
(* The root's files.                                                       *)

RootInv ==
  /\ certFile # NoFile => keyFile \in Roots
  /\ certFile \in Roots => certFile = keyFile
  /\ sigil = "key" => root \in Roots /\ certFile = NoFile
  /\ sigil = "cert" => root \in Roots /\ keyFile = root /\ certFile = NoFile
  /\ sigil = "certdata" => root \in Roots /\ keyFile = root /\ certFile = Torn
  /\ sigil \in {"listen", "up"} =>
       root \in Roots /\ keyFile = root /\ certFile = root

LEMMA RootSteps ==
  ASSUME RootTypeOK, RootInv, RootStep
  PROVE  RootInv'
<1>. USE RootAssumption DEF RootAssumption, RootTypeOK, RootInv, Files, files
<1>1. CASE Load
  BY <1>1 DEF Load
<1>2. CASE Generate
  BY <1>2 DEF Generate
<1>3. CASE FillKey
  BY <1>3 DEF FillKey
<1>4. CASE TruncateCert
  BY <1>4 DEF TruncateCert
<1>5. CASE FillCert
  BY <1>5 DEF FillCert
<1>6. CASE Listen
  BY <1>6 DEF Listen
<1>7. CASE SigilCrash
  BY <1>7 DEF SigilCrash
<1>8. CASE LoseVolume
  BY <1>8 DEF LoseVolume
<1>9. CASE Expire
  BY <1>9 DEF Expire
<1>10. CASE UNCHANGED <<keyFile, certFile, sigil, root, made, listener, losses>>
  BY <1>10
<1>. QED
  BY <1>1, <1>2, <1>3, <1>4, <1>5, <1>6, <1>7, <1>8, <1>9, <1>10
     DEF RootStep, RootNext, Starting

\* Once both files are whole they stay, unless the volume is lost.
LEMMA FilesStay ==
  ASSUME RootTypeOK, RootInv, RootStep, losses' = 0, certFile \in Roots
  PROVE  losses = 0 /\ keyFile' = keyFile /\ certFile' = certFile
BY RootAssumption
   DEF RootAssumption, RootTypeOK, RootInv, RootStep, RootNext, Starting, Load,
       Generate, FillKey, TruncateCert, FillCert, Listen, SigilCrash, LoseVolume,
       Expire, files, Files

-----------------------------------------------------------------------------
(* What the agent holds.                                                   *)

\* A stream that is not broken is to a Sigil that serves.
AgentInv ==
  /\ stream = "open" => sigil = "up"
  /\ NeverUpgradesEmpty
  /\ TrustKept

LEMMA StepAgent ==
  ASSUME TypeOK, TypeOK', RootInv, AgentInv, [Next]_vars
  PROVE  AgentInv'
<1>. USE DEF agentVars, rootVars, files
<1>t. RootTypeOK /\ RootStep /\ losses \in Nat /\ losses' \in Nat
  BY AgentSteps DEF AgentInv, RootInv, TypeOK, RootTypeOK
<1>h. ASSUME losses' = 0, NEW s \in Held
      PROVE  losses = 0 /\ store[s] = keyFile' /\ store[s] = certFile'
  <2>1. losses = 0
    BY <1>t, <1>h
       DEF RootStep, RootNext, Starting, Load, Generate, FillKey, TruncateCert,
           FillCert, Listen, SigilCrash, LoseVolume, Expire
  <2>2. store[s] \in Roots /\ store[s] = keyFile /\ store[s] = certFile
    BY <1>h, <2>1 DEF AgentInv, TrustKept, Held, TypeOK
  <2>. QED
    BY <1>t, <1>h, <2>1, <2>2, FilesStay
\* A step that gives the agent no certificate.
<1>u. ASSUME store' = store, stream' = "open" => sigil' = "up",
             state' # "Bootstrap" => state # "Bootstrap"
      PROVE  AgentInv'
  <2>1. Held' = Held
    BY <1>u DEF Held
  <2>. QED
    BY <1>u, <1>h, <2>1 DEF AgentInv, NeverUpgradesEmpty, TrustKept
\* A step that gives it one.
<1>c. ASSUME NEW s \in Names, stream = "open", UNCHANGED rootVars,
             store' = [store EXCEPT ![s] = root], stream' \in {"none", "open"}
      PROVE  AgentInv'
  <2>1. root \in Roots /\ root = keyFile' /\ root = certFile' /\ sigil' = "up"
    BY <1>c DEF AgentInv, RootInv
  <2>2. store'[s] = root /\ root # NoCert
    BY <1>c, <2>1, ClientAssumption DEF TypeOK, ClientAssumption
  <2>3. s \in Held'
    BY <2>2 DEF Held
  <2>4. \A q \in Held' : q # s => q \in Held /\ store'[q] = store[q]
    BY <1>c DEF Held, TypeOK
  <2>5. TrustKept'
    BY <1>h, <2>1, <2>2, <2>4 DEF TrustKept
  <2>. QED
    BY <1>c, <2>1, <2>3, <2>5 DEF AgentInv, NeverUpgradesEmpty
<1>1. CASE BootstrapSubscribe
  BY <1>1, <1>u DEF BootstrapSubscribe
<1>2. CASE Upgrade
  BY <1>2, <1>u DEF Upgrade, AgentInv
<1>3. CASE Connect
  BY <1>3, <1>u DEF Connect, Verified
<1>4. CASE ConnectFails
  BY <1>4, <1>u DEF ConnectFails, AgentInv
<1>5. CASE StreamEnds
  BY <1>5, <1>u DEF StreamEnds
<1>6. ASSUME NEW s \in Names, FirstCert(s) PROVE AgentInv'
  BY <1>6, <1>c DEF FirstCert
<1>7. ASSUME NEW s \in Names, PushCert(s) PROVE AgentInv'
  BY <1>7, <1>c DEF PushCert
<1>8. CASE Starting /\ UNCHANGED agentVars
  <2>1. sigil # "up"
    BY <1>8 DEF Starting, Load, Generate, FillKey, TruncateCert, FillCert, Listen
  <2>. QED
    BY <1>8, <2>1, <1>u DEF AgentInv
<1>9. CASE SigilCrash /\ stream' = (IF stream = "open" THEN "broken" ELSE stream)
             /\ UNCHANGED <<state, store, hello, due, drops>>
  BY <1>9, <1>u
<1>10. CASE LoseVolume /\ UNCHANGED agentVars
  BY <1>10, <1>u DEF LoseVolume, AgentInv
<1>11. CASE Expire /\ UNCHANGED agentVars
  BY <1>11, <1>u DEF Expire, AgentInv
<1>12. CASE Drop
  BY <1>12, <1>u DEF Drop
<1>13. CASE AgentRestart
  <2>1. Held' = {}
    BY <1>13 DEF AgentRestart, EmptyStore, Held
  <2>. QED
    BY <1>13, <2>1 DEF AgentRestart, AgentInv, NeverUpgradesEmpty, TrustKept
<1>14. CASE UNCHANGED vars
  BY <1>14, <1>u DEF vars, AgentInv
<1>. QED
  BY <1>1, <1>2, <1>3, <1>4, <1>5, <1>6, <1>7, <1>8, <1>9, <1>10, <1>11, <1>12,
     <1>13, <1>14 DEF Next, Agent, Push, Sigil, Environment

LEMMA Invariant == Spec => [](TypeOK /\ RootInv /\ AgentInv)
<1>1. Init => TypeOK /\ RootInv /\ AgentInv
  <2>. SUFFICES ASSUME Init PROVE RootInv /\ AgentInv
    BY InitTypes
  <2>1. RootInv
    BY RootAssumption DEF RootAssumption, Init, RootInit, RootInv
  <2>2. Held = {}
    BY DEF Init, EmptyStore, Held
  <2>. QED
    BY <2>1, <2>2 DEF Init, AgentInv, NeverUpgradesEmpty, TrustKept
<1>2. ASSUME TypeOK, RootInv, AgentInv, [Next]_vars
      PROVE  TypeOK' /\ RootInv' /\ AgentInv'
  <2>1. stream = "open" => root \in Roots
    BY <1>2 DEF AgentInv, RootInv
  <2>2. RootStep /\ TypeOK'
    BY <1>2, <2>1, AgentSteps
  <2>3. RootInv'
    BY <1>2, <2>2, RootSteps DEF TypeOK
  <2>. QED
    BY <1>2, <2>2, <2>3, StepAgent
<1>. QED
  BY <1>1, <1>2, PTL DEF Spec

\* Type correctness: in particular Sigil owes certificates only for names the
\* agent's last hello has (main.go lines 133-147).
THEOREM TypeCorrect == Spec => []TypeOK
BY Invariant, PTL

\* An agent's roots are Sigil's, whatever crashes, until the volume is lost
\* (ca.go lines 77-87 and 316-366, sigil_client.rs lines 91-105 and 184-196).
THEOREM RootSurvivesRestarts == Spec => []TrustKept
BY Invariant, PTL DEF AgentInv

\* The fallback from UpgradingTLS to Bootstrap is never taken for an empty
\* store (sigil_client.rs lines 160-164 and 274).
THEOREM FallbackNeverTaken == Spec => []NeverUpgradesEmpty
BY Invariant, PTL DEF AgentInv

=============================================================================
