------------------------------- MODULE RootCA -------------------------------
(***************************************************************************)
(* Sigil's root of trust: the two files it lives in, the process that      *)
(* makes or loads it at its start, and the certificate of the TLS listener *)
(* the process then issues for itself, once.                               *)
(*                                                                         *)
(* A file is written by truncating it and then filling it, so a crash can  *)
(* leave it torn.  A crash is the process's; what it has written stays.    *)
(* The volume may be lost while Sigil is down.                             *)
(***************************************************************************)
EXTENDS Naturals, FiniteSets

CONSTANTS
  Roots,       \* the root CAs there can be, each a key and its certificate
  NoFile,      \* a file that does not exist
  Torn,        \* a file that was not filled
  Lifetime,    \* the lifetime of the listener's certificate, in ticks
  MaxCrashes,  \* bound: crashes of any process
  MaxLosses    \* bound: losses of the volume

ASSUME RootAssumption ==
  /\ NoFile \notin Roots /\ Torn \notin Roots /\ NoFile # Torn
  /\ Lifetime \in Nat \ {0}
  /\ MaxCrashes \in Nat
  /\ MaxLosses \in Nat

VARIABLES
  keyFile,   \* root.key
  certFile,  \* root.crt
  sigil,     \* what Sigil's process is at
  root,      \* the root in Sigil's memory, NoFile if there is none
  made,      \* the roots generated so far
  listener,  \* the ticks left to the listener's certificate
  crashes,   \* crashes so far
  losses     \* losses so far

files    == <<keyFile, certFile>>
rootVars == <<files, sigil, root, made, listener, crashes, losses>>

Files == Roots \cup {NoFile, Torn}

RootTypeOK ==
  /\ keyFile \in Files /\ certFile \in Files
  /\ sigil \in {"down", "key", "cert", "certdata", "listen", "up"}
  /\ root \in Roots \cup {NoFile}
  /\ made \subseteq Roots
  /\ listener \in 0..Lifetime
  /\ crashes \in 0..MaxCrashes
  /\ losses \in 0..MaxLosses

RootInit ==
  /\ keyFile = NoFile /\ certFile = NoFile
  /\ sigil = "down"
  /\ root = NoFile
  /\ made = {}
  /\ listener = 0
  /\ crashes = 0 /\ losses = 0

\* New finds both files and loads them.  A file that does not parse, or a key
\* that does not fit the certificate, ends the process, now or when the
\* listener's certificate is signed: Sigil stays down.
Load ==
  /\ sigil = "down"
  /\ keyFile = certFile /\ keyFile \in Roots
  /\ root' = keyFile
  /\ sigil' = "listen"
  /\ UNCHANGED <<files, made, listener, crashes, losses>>

\* Variant: a root is generated unless none of the two files is there.
GenerateUnlessAny ==
  /\ sigil = "down"
  /\ keyFile = NoFile /\ certFile = NoFile
  /\ \E r \in Roots \ made : root' = r /\ made' = made \cup {r}
  /\ sigil' = "key"
  /\ keyFile' = Torn
  /\ UNCHANGED <<certFile, listener, crashes, losses>>

\* Variant: a root is generated at every start.
GenerateAlways ==
  /\ sigil = "down"
  /\ \E r \in Roots \ made : root' = r /\ made' = made \cup {r}
  /\ sigil' = "key"
  /\ keyFile' = Torn
  /\ UNCHANGED <<certFile, listener, crashes, losses>>

\* New misses a file: generateRootCA makes a root and truncates the key's file.
Generate ==
  /\ sigil = "down"
  /\ keyFile = NoFile \/ certFile = NoFile
  /\ \E r \in Roots \ made : root' = r /\ made' = made \cup {r}
  /\ sigil' = "key"
  /\ keyFile' = Torn
  /\ UNCHANGED <<certFile, listener, crashes, losses>>

FillKey ==
  /\ sigil = "key"
  /\ keyFile' = root
  /\ sigil' = "cert"
  /\ UNCHANGED <<certFile, root, made, listener, crashes, losses>>

TruncateCert ==
  /\ sigil = "cert"
  /\ certFile' = Torn
  /\ sigil' = "certdata"
  /\ UNCHANGED <<keyFile, root, made, listener, crashes, losses>>

FillCert ==
  /\ sigil = "certdata"
  /\ certFile' = root
  /\ sigil' = "listen"
  /\ UNCHANGED <<keyFile, root, made, listener, crashes, losses>>

\* main issues the listener's certificate and serves.
Listen ==
  /\ sigil = "listen"
  /\ sigil' = "up"
  /\ listener' = Lifetime
  /\ UNCHANGED <<files, root, made, crashes, losses>>

SigilCrash ==
  /\ sigil # "down"
  /\ crashes < MaxCrashes
  /\ crashes' = crashes + 1
  /\ sigil' = "down"
  /\ root' = NoFile
  /\ listener' = 0
  /\ UNCHANGED <<files, made, losses>>

LoseVolume ==
  /\ sigil = "down"
  /\ losses < MaxLosses
  /\ losses' = losses + 1
  /\ keyFile' = NoFile /\ certFile' = NoFile
  /\ UNCHANGED <<sigil, root, made, listener, crashes>>

\* Time passes.  Nothing issues the listener another certificate: the rotation
\* loop renews its row in the table, and pushes to agents.
Expire ==
  /\ listener > 0
  /\ listener' = listener - 1
  /\ UNCHANGED <<files, sigil, root, made, crashes, losses>>

\* The steps of a process that starts.
Starting == Load \/ Generate \/ FillKey \/ TruncateCert \/ FillCert \/ Listen

RootNext == Starting \/ SigilCrash \/ LoseVolume \/ Expire
=============================================================================
