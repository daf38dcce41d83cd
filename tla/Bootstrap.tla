----------------------------- MODULE Bootstrap ------------------------------
(***************************************************************************)
(* DaemonIdentity::open_or_init (crates/busyncr-daemon/src/identity.rs):   *)
(* the internal CA and the server certificate, generated by the first      *)
(* command that opens the identity directory and reloaded by every later   *)
(* one.  serve, enroll-token and revoke all begin with it; nothing locks   *)
(* the directory, and a command may stop between any two files.            *)
(*                                                                         *)
(* A certificate and its key carry the generation they were made in.  One  *)
(* write_atomic is one step: its temporary file is never read, and a       *)
(* command that stops inside it has not renamed it.                        *)
(***************************************************************************)
EXTENDS FiniteSets

CONSTANTS
    Process,        \* commands that open the identity directory
    Generation,     \* key pairs there are to generate (bounds the restarts)
    Overlap,        \* whether two of them may be bootstrapping at once
    None            \* no file, nothing loaded

ASSUME BootstrapAssumption ==
    /\ Overlap \in BOOLEAN
    /\ None \notin Generation
    /\ None \notin [own: Generation, issuer: Generation]

VARIABLES
    ca_cert, ca_key,            \* ca-cert.pem, ca-key.pem: their generation
    server_cert, server_key,    \* server-cert.pem, server-key.pem
    pc,                         \* how far each command is in open_or_init
    mem_ca, mem_ca_key,         \* the CA certificate and key it has in memory
    mem_server, mem_server_key, \* its server certificate and key
    made,                       \* generations used up
    handed                      \* CA certificates open_or_init has returned (history)

files == <<ca_cert, ca_key, server_cert, server_key>>
mem == <<mem_ca, mem_ca_key, mem_server, mem_server_key>>
vars == <<files, pc, mem, made, handed>>

-----------------------------------------------------------------------------
Goto(p, from, to) == pc[p] = from /\ pc' = [pc EXCEPT ![p] = to]

Bootstrapping(p) == pc[p] \notin {"stopped", "open"}
start(p) ==
    /\ Goto(p, "stopped", "probe_ca")
    /\ Overlap \/ \A q \in Process : ~Bootstrapping(q)
    /\ UNCHANGED <<files, mem, made, handed>>

HaveCa_CertOnly == ca_cert # None           \* MUTANT: one file taken for two
HaveCa == ca_cert # None /\ ca_key # None
HaveServer == server_cert # None /\ server_key # None

\* Both files are there (they never go away again): the certificate is read.
load_ca_cert(p) ==
    /\ Goto(p, "probe_ca", "load_ca_key")
    /\ HaveCa
    /\ mem_ca' = [mem_ca EXCEPT ![p] = ca_cert]
    /\ UNCHANGED <<files, mem_ca_key, mem_server, mem_server_key, made, handed>>

load_ca_key(p) ==
    /\ Goto(p, "load_ca_key", "probe_server")
    /\ mem_ca_key' = [mem_ca_key EXCEPT ![p] = ca_key]
    /\ UNCHANGED <<files, mem_ca, mem_server, mem_server_key, made, handed>>

generate_ca(p, g) ==
    /\ Goto(p, "probe_ca", "write_ca_cert")
    /\ ~HaveCa
    /\ g \notin made
    /\ made' = made \cup {g}
    /\ mem_ca' = [mem_ca EXCEPT ![p] = g]
    /\ mem_ca_key' = [mem_ca_key EXCEPT ![p] = g]
    /\ UNCHANGED <<files, mem_server, mem_server_key, handed>>

write_ca_cert(p) ==
    /\ Goto(p, "write_ca_cert", "write_ca_key")
    /\ ca_cert' = mem_ca[p]
    /\ UNCHANGED <<ca_key, server_cert, server_key, mem, made, handed>>

write_ca_key_Forgets(p) ==                  \* MUTANT: the key stays in memory
    /\ Goto(p, "write_ca_key", "probe_server")
    /\ UNCHANGED <<files, mem, made, handed>>

write_ca_key(p) ==
    /\ Goto(p, "write_ca_key", "probe_server")
    /\ ca_key' = mem_ca_key[p]
    /\ UNCHANGED <<ca_cert, server_cert, server_key, mem, made, handed>>

load_server_cert(p) ==
    /\ Goto(p, "probe_server", "load_server_key")
    /\ HaveServer
    /\ mem_server' = [mem_server EXCEPT ![p] = server_cert]
    /\ UNCHANGED <<files, mem_ca, mem_ca_key, mem_server_key, made, handed>>

\* Everything is loaded: open_or_init returns and the CA is handed out.
load_server_key(p) ==
    /\ Goto(p, "load_server_key", "open")
    /\ mem_server_key' = [mem_server_key EXCEPT ![p] = server_key]
    /\ handed' = handed \cup {mem_ca[p]}
    /\ UNCHANGED <<files, mem_ca, mem_ca_key, mem_server, made>>

\* The server certificate is signed with the CA key in memory.
generate_server(p, g) ==
    /\ Goto(p, "probe_server", "write_server_cert")
    /\ ~HaveServer
    /\ g \notin made
    /\ made' = made \cup {g}
    /\ mem_server' = [mem_server EXCEPT ![p] = [own |-> g, issuer |-> mem_ca_key[p]]]
    /\ mem_server_key' = [mem_server_key EXCEPT ![p] = g]
    /\ UNCHANGED <<files, mem_ca, mem_ca_key, handed>>

write_server_cert(p) ==
    /\ Goto(p, "write_server_cert", "write_server_key")
    /\ server_cert' = mem_server[p]
    /\ UNCHANGED <<ca_cert, ca_key, server_key, mem, made, handed>>

write_server_key(p) ==
    /\ Goto(p, "write_server_key", "open")
    /\ server_key' = mem_server_key[p]
    /\ handed' = handed \cup {mem_ca[p]}
    /\ UNCHANGED <<ca_cert, ca_key, server_cert, mem, made>>

\* The command returns, fails or is killed.
stop(p) ==
    /\ pc[p] # "stopped"
    /\ pc' = [pc EXCEPT ![p] = "stopped"]
    /\ mem_ca' = [mem_ca EXCEPT ![p] = None]
    /\ mem_ca_key' = [mem_ca_key EXCEPT ![p] = None]
    /\ mem_server' = [mem_server EXCEPT ![p] = None]
    /\ mem_server_key' = [mem_server_key EXCEPT ![p] = None]
    /\ UNCHANGED <<files, made, handed>>

-----------------------------------------------------------------------------
Init ==
    /\ ca_cert = None /\ ca_key = None
    /\ server_cert = None /\ server_key = None
    /\ pc = [p \in Process |-> "stopped"]
    /\ mem_ca = [p \in Process |-> None] /\ mem_ca_key = [p \in Process |-> None]
    /\ mem_server = [p \in Process |-> None]
    /\ mem_server_key = [p \in Process |-> None]
    /\ made = {}
    /\ handed = {}

Step(p) ==
    \/ start(p)
    \/ load_ca_cert(p) \/ load_ca_key(p)
    \/ \E g \in Generation : generate_ca(p, g)
    \/ write_ca_cert(p) \/ write_ca_key(p)
    \/ load_server_cert(p) \/ load_server_key(p)
    \/ \E g \in Generation : generate_server(p, g)
    \/ write_server_cert(p) \/ write_server_key(p)
    \/ stop(p)

Next == \E p \in Process : Step(p)

Spec == Init /\ [][Next]_vars

-----------------------------------------------------------------------------
(* Properties.                                                             *)

\* "The CA (and therefore every issued client certificate) survives restarts":
\* every open_or_init that returns, in whichever command and after whatever
\* interrupted attempts, returns the same CA certificate.
CASurvives == \A c, d \in handed : c = d

\* A command that has opened the identity holds a CA key that belongs to its
\* CA certificate, and a server certificate that belongs to its server key
\* and verifies against that CA, which is what clients pin.
IdentityCoherent ==
    \A p \in Process : pc[p] = "open" =>
        /\ mem_ca_key[p] \in Generation /\ mem_ca[p] = mem_ca_key[p]
        /\ mem_server_key[p] \in Generation
        /\ mem_server[p] = [own |-> mem_server_key[p], issuer |-> mem_ca[p]]
=============================================================================
