------------------------------ MODULE Conduit ------------------------------
(***************************************************************************)
(* The cross-cluster gateways.  The egress accepts plain connections,      *)
(* checks the destination against its PolicyCache, opens a mutual TLS      *)
(* session to the ingress of the other cluster, forwards the request and,  *)
(* once the first bytes of a response are there, becomes a tunnel.  The    *)
(* ingress verifies the egress, connects to the backend and pipes.         *)
(*                                                                         *)
(* Each gateway enrols once, when its process starts, and keeps that       *)
(* certificate as long as the process lives.  Each reports to Trace        *)
(* through a bounded channel that a sender task empties one POST at a      *)
(* time; what does not fit and what cannot be posted is dropped.           *)
(*                                                                         *)
(* The PolicyCache is the set of destinations it lets through; PolicyPath  *)
(* says how a poll fills it.  The ingress polls as well and reads its      *)
(* cache nowhere.  The network may break a session at any step.            *)
(***************************************************************************)
EXTENDS Naturals, Sequences, FiniteSets

CONSTANTS
  Conns,       \* the clients' connections to the egress
  Services,    \* the destinations a Host header names
  AlertNames,  \* the services with "alert" or "certificate" in their names
  Lifetime,    \* the lifetime of a certificate, in ticks
  QueueCap,    \* the capacity of a telemetry channel (256)
  MaxCrashes   \* bound: crashes of gateway processes

ASSUME ConduitAssumption ==
  /\ AlertNames \subseteq Services
  /\ Lifetime \in Nat \ {0}
  /\ QueueCap \in Nat \ {0}
  /\ MaxCrashes \in Nat

VARIABLES
  up,       \* the gateway processes that have enrolled and run
  left,     \* the ticks left to the certificate of each gateway's process
  crashes,  \* crashes so far
  open,     \* the destinations the egress's PolicyCache allows
  egress,   \* the egress's handler of each connection
  ingress,  \* the ingress's handler of each connection
  queue,    \* each gateway's telemetry channel
  sending,  \* the records a sender has taken from its channel, at most one
  counted,  \* how often Trace has counted a record of a gateway and connection
  mutual    \* the connections on which both sides verified the other

processVars   == <<up, left, crashes>>
telemetryVars == <<queue, sending, counted>>
vars == <<processVars, open, egress, ingress, telemetryVars, mutual>>

Gateways == {"egress", "ingress"}
Verdicts == {"allow", "deny", "tls_reject", "error"}

\* What of a TelemetryRecord the properties tell apart.
Record == [conn : Conns, verdict : Verdicts]

\* The steps of egress::handle_connection.
EgressSteps == {"none", "read", "allowed", "handshake", "forward", "await",
                "tunnel", "closed"}

\* The steps of ingress::handle_connection.  "accept" waits for the client's
\* hello, "verify" for its certificate; "alert" is a session the client ended
\* with a TLS alert; "served" has ended after piping to a backend.
IngressSteps == {"none", "accept", "verify", "alert", "read", "backend",
                 "pipe", "served", "closed"}

TypeOK ==
  /\ up \subseteq Gateways
  /\ left \in [Gateways -> 0..Lifetime]
  /\ crashes \in 0..MaxCrashes
  /\ open \subseteq Services
  /\ egress \in [Conns -> [at : EgressSteps, to : Services]]
  /\ ingress \in [Conns -> IngressSteps]
  /\ queue \in [Gateways -> Seq(Record)]
  /\ \A g \in Gateways : Len(queue[g]) <= QueueCap
  /\ sending \in [Gateways -> SUBSET Record]
  /\ counted \in [Gateways \X Conns -> Nat]
  /\ mutual \subseteq Conns

Init ==
  /\ up = {}
  /\ left = [g \in Gateways |-> 0]
  /\ crashes = 0
  /\ open = Services
  /\ egress \in [Conns -> [at : {"none"}, to : Services]]
  /\ ingress = [c \in Conns |-> "none"]
  /\ queue = [g \in Gateways |-> <<>>]
  /\ sending = [g \in Gateways |-> {}]
  /\ counted = [gc \in Gateways \X Conns |-> 0]
  /\ mutual = {}

-----------------------------------------------------------------------------
(* Helpers.                                                                *)

\* Variant: the channel takes everything.
EmitUnbounded(g, c, v) ==
  queue' = [queue EXCEPT ![g] = Append(@, [conn |-> c, verdict |-> v])]

\* TelemetryHandle::emit: try_send drops the record when the channel is full.
Emit(g, c, v) ==
  queue' = IF Len(queue[g]) < QueueCap
           THEN [queue EXCEPT ![g] = Append(@, [conn |-> c, verdict |-> v])]
           ELSE queue

\* A peer with the root of this mesh, as client_config and server_config set
\* it up, verifies the gateway's certificate.
Valid(g) == left[g] > 0

\* Sigil issues a certificate for the process, which keeps it.
Enrol(g) == left' = [left EXCEPT ![g] = Lifetime]

\* The ingress accepts connections, with the TLS configuration of its start.
IngressListens == "ingress" \in up

EgressAt(c, step)  == egress' = [egress EXCEPT ![c].at = step]
IngressAt(c, step) == ingress' = [ingress EXCEPT ![c] = step]

\* The other side of the session has closed it, or its process is gone.
EgressGone(c)  == egress[c].at = "closed"
IngressGone(c) == ingress[c] \in {"served", "closed"}

-----------------------------------------------------------------------------
(* Processes, time and policy.                                             *)

\* main: enrol with Sigil, then listen.  A process that cannot enrol exits and
\* is started again.  Its CertStore and PolicyCache are new.
Start(g) ==
  /\ g \notin up
  /\ up' = up \cup {g}
  /\ Enrol(g)
  /\ open' = IF g = "egress" THEN Services ELSE open
  /\ UNCHANGED <<crashes, egress, ingress, telemetryVars, mutual>>

\* A process dies with its handlers, its channel and its sender.
Crash(g) ==
  /\ g \in up
  /\ crashes < MaxCrashes
  /\ crashes' = crashes + 1
  /\ up' = up \ {g}
  /\ egress' = IF g = "egress"
               THEN [c \in Conns |-> [egress[c] EXCEPT !.at =
                       IF @ = "none" THEN @ ELSE "closed"]]
               ELSE egress
  /\ ingress' = IF g = "ingress"
                THEN [c \in Conns |->
                        IF ingress[c] \in {"none", "served"} THEN ingress[c]
                        ELSE "closed"]
                ELSE ingress
  /\ queue' = [queue EXCEPT ![g] = <<>>]
  /\ sending' = [sending EXCEPT ![g] = {}]
  /\ UNCHANGED <<left, open, counted, mutual>>

Tick ==
  /\ \E g \in Gateways : Valid(g)
  /\ left' = [g \in Gateways |-> IF Valid(g) THEN left[g] - 1 ELSE 0]
  /\ UNCHANGED <<up, crashes, open, egress, ingress, telemetryVars, mutual>>

\* start_policy_poll: an answer replaces what the cache allows.
Poll(destinations) ==
  /\ "egress" \in up
  /\ open' = destinations
  /\ UNCHANGED <<processVars, egress, ingress, telemetryVars, mutual>>

-----------------------------------------------------------------------------
(* The egress's handler.                                                   *)

Accept(c) ==
  /\ "egress" \in up
  /\ egress[c].at = "none"
  /\ EgressAt(c, "read")
  /\ UNCHANGED <<processVars, open, ingress, telemetryVars, mutual>>

\* The client sends nothing, or no Host header in what one read returns
\* (400): no record.
NoRequest(c) ==
  /\ egress[c].at = "read"
  /\ EgressAt(c, "closed")
  /\ UNCHANGED <<processVars, open, ingress, telemetryVars, mutual>>

\* is_allowed_destination refuses: a record and a 403.
Deny(c) ==
  /\ egress[c].at = "read"
  /\ egress[c].to \notin open
  /\ EgressAt(c, "closed")
  /\ Emit("egress", c, "deny")
  /\ UNCHANGED <<processVars, open, ingress, sending, counted, mutual>>

Allow(c) ==
  /\ egress[c].at = "read"
  /\ egress[c].to \in open
  /\ EgressAt(c, "allowed")
  /\ UNCHANGED <<processVars, open, ingress, telemetryVars, mutual>>

Connect(c) ==
  /\ egress[c].at = "allowed"
  /\ IngressListens
  /\ EgressAt(c, "handshake")
  /\ IngressAt(c, "accept")
  /\ UNCHANGED <<processVars, open, telemetryVars, mutual>>

ConnectFails(c) ==
  /\ egress[c].at = "allowed"
  /\ EgressAt(c, "closed")
  /\ Emit("egress", c, "error")
  /\ UNCHANGED <<processVars, open, ingress, sending, counted, mutual>>

\* The egress verifies the ingress and sends its own certificate.  For the
\* client of a TLS 1.3 session the handshake is then over.
VerifyServer(c) ==
  /\ egress[c].at = "handshake"
  /\ ingress[c] = "accept"
  /\ Valid("ingress")
  /\ EgressAt(c, "forward")
  /\ IngressAt(c, "verify")
  /\ UNCHANGED <<processVars, open, telemetryVars, mutual>>

\* It refuses the ingress's certificate, with an alert.
RejectServer(c) ==
  /\ egress[c].at = "handshake"
  /\ ingress[c] = "accept"
  /\ ~Valid("ingress")
  /\ EgressAt(c, "closed")
  /\ IngressAt(c, "alert")
  /\ Emit("egress", c, "tls_reject")
  /\ UNCHANGED <<processVars, open, sending, counted, mutual>>

\* Any other end of the handshake is reported alike.
HandshakeLost(c) ==
  /\ egress[c].at = "handshake"
  /\ EgressAt(c, "closed")
  /\ Emit("egress", c, "tls_reject")
  /\ UNCHANGED <<processVars, open, ingress, sending, counted, mutual>>

\* Variant: the outcome is reported when the request has been forwarded.
ForwardReportsAllow(c) ==
  /\ egress[c].at = "forward"
  /\ EgressAt(c, "await")
  /\ Emit("egress", c, "allow")
  /\ UNCHANGED <<processVars, open, ingress, sending, counted, mutual>>

\* The buffered request goes out, whether or not the ingress has accepted the
\* egress's certificate yet.
Forward(c) ==
  /\ egress[c].at = "forward"
  /\ EgressAt(c, "await")
  /\ UNCHANGED <<processVars, open, ingress, telemetryVars, mutual>>

\* A failed write ends the handler without a record.
ForwardFails(c) ==
  /\ egress[c].at = "forward"
  /\ EgressAt(c, "closed")
  /\ UNCHANGED <<processVars, open, ingress, telemetryVars, mutual>>

\* The session ends before a response, or the read fails: among others when
\* the ingress has refused the egress's certificate.
NoResponse(c) ==
  /\ egress[c].at = "await"
  /\ EgressAt(c, "closed")
  /\ Emit("egress", c, "error")
  /\ UNCHANGED <<processVars, open, ingress, sending, counted, mutual>>

\* The first bytes of a response reach the client.
Respond(c) ==
  /\ egress[c].at = "await"
  /\ ingress[c] \in {"pipe", "served"}
  /\ EgressAt(c, "tunnel")
  /\ Emit("egress", c, "allow")
  /\ UNCHANGED <<processVars, open, ingress, sending, counted, mutual>>

\* The client is gone when its response comes: no record.
RespondFails(c) ==
  /\ egress[c].at = "await"
  /\ ingress[c] \in {"pipe", "served"}
  /\ EgressAt(c, "closed")
  /\ UNCHANGED <<processVars, open, ingress, telemetryVars, mutual>>

\* Variant: the end of the tunnel is reported, as the ingress does.
TunnelEndReported(c) ==
  /\ egress[c].at = "tunnel"
  /\ EgressAt(c, "closed")
  /\ Emit("egress", c, "allow")
  /\ UNCHANGED <<processVars, open, ingress, sending, counted, mutual>>

\* copy_bidirectional ends.
TunnelEnds(c) ==
  /\ egress[c].at = "tunnel"
  /\ EgressAt(c, "closed")
  /\ UNCHANGED <<processVars, open, ingress, telemetryVars, mutual>>

-----------------------------------------------------------------------------
(* The ingress's handler.  Whatever error ends it is reported by the task   *)
(* around it, as a TLS rejection if the error's text has one of two words   *)
(* in it.                                                                   *)

IngressFails(c, v) ==
  /\ IngressAt(c, "closed")
  /\ Emit("ingress", c, v)
  /\ UNCHANGED <<processVars, open, egress, sending, counted, mutual>>

VerifyClient(c) ==
  /\ ingress[c] = "verify"
  /\ Valid("egress")
  /\ IngressAt(c, "read")
  /\ mutual' = mutual \cup {c}
  /\ UNCHANGED <<processVars, open, egress, telemetryVars>>

\* "invalid peer certificate".
RejectClient(c) ==
  /\ ingress[c] = "verify"
  /\ ~Valid("egress")
  /\ IngressFails(c, "tls_reject")

\* "received fatal alert".
Alerted(c) ==
  /\ ingress[c] = "alert"
  /\ IngressFails(c, "tls_reject")

\* Variant: a session that breaks during the handshake is waited for.
AcceptLostIgnored(c) ==
  /\ ingress[c] \in {"accept", "verify"}
  /\ EgressGone(c)
  /\ UNCHANGED vars

\* The session breaks during the handshake.
AcceptLost(c) ==
  /\ ingress[c] \in {"accept", "verify"}
  /\ EgressGone(c)
  /\ IngressFails(c, "error")

\* The request arrives, possibly after the egress has closed; a Host header is
\* in it, the egress has seen to that.
ReadRequest(c) ==
  /\ ingress[c] = "read"
  /\ egress[c].at \in {"await", "closed"}
  /\ IngressAt(c, "backend")
  /\ UNCHANGED <<processVars, open, egress, telemetryVars, mutual>>

\* The egress closes first: an end of stream is no error, a reset is one.
ReadLost(c) ==
  /\ ingress[c] = "read"
  /\ EgressGone(c)
  /\ \/ /\ IngressAt(c, "closed")
        /\ UNCHANGED <<processVars, open, egress, telemetryVars, mutual>>
     \/ IngressFails(c, "error")

ConnectBackend(c) ==
  /\ ingress[c] = "backend"
  /\ IngressAt(c, "pipe")
  /\ UNCHANGED <<processVars, open, egress, telemetryVars, mutual>>

\* The backend's name is in the error's text.
BackendFails(c) ==
  /\ ingress[c] = "backend"
  /\ IngressFails(c, IF egress[c].to \in AlertNames THEN "tls_reject"
                    ELSE "error")

\* The pipe ends, quietly, with an error, or with an alert of the egress.
PipeEnds(c) ==
  /\ ingress[c] = "pipe"
  /\ IngressAt(c, "served")
  /\ \/ UNCHANGED queue
     \/ \E v \in {"error", "tls_reject"} : Emit("ingress", c, v)
  /\ UNCHANGED <<processVars, open, egress, sending, counted, mutual>>

-----------------------------------------------------------------------------
(* The senders.                                                            *)

Take(g) ==
  /\ queue[g] # <<>>
  /\ sending[g] = {}
  /\ sending' = [sending EXCEPT ![g] = {Head(queue[g])}]
  /\ queue' = [queue EXCEPT ![g] = Tail(@)]
  /\ UNCHANGED <<processVars, open, egress, ingress, counted, mutual>>

\* Variant: a record is kept until its response has been read.
PostUntilAnswered(g) ==
  \E r \in sending[g] :
    /\ counted' = [counted EXCEPT ![<<g, r.conn>>] = @ + 1]
    /\ sending' = [sending EXCEPT ![g] = {}] \/ UNCHANGED sending
    /\ UNCHANGED <<processVars, open, egress, ingress, queue, mutual>>

\* post_record: Trace counts the record; whether its answer arrives or not,
\* the sender goes on to the next one.
Post(g) ==
  \E r \in sending[g] :
    /\ counted' = [counted EXCEPT ![<<g, r.conn>>] = @ + 1]
    /\ sending' = [sending EXCEPT ![g] = {}]
    /\ UNCHANGED <<processVars, open, egress, ingress, queue, mutual>>

\* Trace cannot be reached, or refuses: the record is lost.
PostFails(g) ==
  /\ sending[g] # {}
  /\ sending' = [sending EXCEPT ![g] = {}]
  /\ UNCHANGED <<processVars, open, egress, ingress, queue, counted, mutual>>

-----------------------------------------------------------------------------
EgressHandler(c) ==
  \/ NoRequest(c) \/ Deny(c) \/ Allow(c)
  \/ Connect(c) \/ ConnectFails(c)
  \/ VerifyServer(c) \/ RejectServer(c) \/ HandshakeLost(c)
  \/ Forward(c) \/ ForwardFails(c)
  \/ NoResponse(c) \/ Respond(c) \/ RespondFails(c)
  \/ TunnelEnds(c)

IngressHandler(c) ==
  \/ VerifyClient(c) \/ RejectClient(c) \/ Alerted(c) \/ AcceptLost(c)
  \/ ReadRequest(c) \/ ReadLost(c)
  \/ ConnectBackend(c) \/ BackendFails(c)
  \/ PipeEnds(c)

Sender(g) == Take(g) \/ Post(g) \/ PostFails(g)

Next ==
  \/ \E c \in Conns : Accept(c) \/ EgressHandler(c) \/ IngressHandler(c)
  \/ \E g \in Gateways : Start(g) \/ Crash(g) \/ Sender(g)
  \/ Tick
  \/ \E destinations \in SUBSET Services : Poll(destinations)

Spec == Init /\ [][Next]_vars

\* A handler whose peer has closed its session gets to know of it: its next
\* read or write fails or returns an end of stream.  That clients and backends
\* close what the other side has closed is assumed; no handler has a timeout.
Fairness ==
  \A c \in Conns : /\ WF_vars(IngressGone(c) /\ EgressHandler(c))
                   /\ WF_vars(EgressGone(c) /\ IngressHandler(c))

FairSpec == Spec /\ Fairness

-----------------------------------------------------------------------------
(* Properties.                                                             *)

\* The records of a gateway that are on their way to Trace.
Pending(g) == sending[g] \cup {queue[g][i] : i \in DOMAIN queue[g]}

\* What the egress reports of a request is what happened to it, although the
\* other half of the session is another process's and a TLS 1.3 client learns
\* of a refused certificate only when it reads.  "allow" means that each
\* gateway verified the other and a backend was reached; a request reported as
\* denied, or as rejected in the handshake, reached no backend and was never
\* part of a verified session.
EgressReportsTheTruth ==
  \A r \in Pending("egress") :
    /\ r.verdict = "allow" =>
         r.conn \in mutual /\ ingress[r.conn] \in {"pipe", "served", "closed"}
    /\ r.verdict \in {"deny", "tls_reject"} =>
         /\ r.conn \notin mutual
         /\ ingress[r.conn] \notin {"read", "backend", "pipe", "served"}

\* The gateway's handler of a connection has nothing left to report.
Ended(g, c) == IF g = "egress" THEN egress[c].at \in {"tunnel", "closed"}
               ELSE ingress[c] \in {"served", "closed"}

Reporting ==
  INSTANCE AtMostOnce WITH
    Jobs    <- Gateways \X Conns,
    over    <- {gc \in Gateways \X Conns : Ended(gc[1], gc[2])},
    pending <- {gc \in Gateways \X Conns :
                  \E r \in Pending(gc[1]) : r.conn = gc[2]},
    counted <- counted

\* The channels and senders of telemetry.rs keep the promise of AtMostOnce: a
\* connection is reported as its handler ends, and its record is lost or counted
\* without ever being in two places, whoever crashes and whichever channel is
\* full.
ReportsAtMostOnce == Reporting!Spec

\* Trace counts no gateway's report of a connection twice: a handler reports
\* once on whatever path it leaves, and a POST whose answer is lost is not
\* sent again.
CountedAtMostOnce == \A g \in Gateways, c \in Conns : counted[<<g, c>>] <= 1

\* However a session breaks and whichever process dies, when one gateway's
\* handler of a connection is gone the other's ends as well.
SessionsEndTogether ==
  \A c \in Conns :
    /\ EgressGone(c) ~> EgressGone(c) /\ (IngressGone(c) \/ ingress[c] = "none")
    /\ IngressGone(c) ~> EgressGone(c) /\ IngressGone(c)
=============================================================================
