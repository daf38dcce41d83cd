----------------------------- MODULE Enrollment -----------------------------
(***************************************************************************)
(* One-time tokens, the enrolled-client registry and the check every RPC   *)
(* makes against it (crates/busyncr-daemon/src/identity.rs, with the       *)
(* Enroll handler and authenticate of service.rs and the enroll-token and  *)
(* revoke commands of main.rs).                                            *)
(*                                                                         *)
(* The registry is a directory, and its files are all the processes share: *)
(* the handlers of `serve' run on blocking threads, `enroll-token' and     *)
(* `revoke' are processes beside it, and no lock orders them.  A file is   *)
(* written by write_atomic: create `.tmp-<name>', write it, rename it.     *)
(* read_registry lists the directory and reads the files one by one, and   *)
(* its filter is the extension `.toml', which the temporary files have     *)
(* too.  Each of these steps is an action.                                 *)
(*                                                                         *)
(* A path is <<fingerprint, number of `.tmp-' prefixes>>.  revoke is run   *)
(* once at a time; everything else is concurrent.                          *)
(***************************************************************************)
EXTENDS Integers, FiniteSets

CONSTANTS
    Token,      \* enrollment tokens
    Name,       \* enrollment names (CSR Common Names)
    Fingerprint,\* certificate fingerprints
    Handler,    \* blocking threads that serve Enroll
    Torn,       \* the contents of a file created but not yet written
    None        \* no token, name, fingerprint or path

Path == Fingerprint \X (0..2)
ClientRecord == [name: Name, revoked: BOOLEAN]

ASSUME EnrollmentAssumption ==
    /\ Torn \notin ClientRecord
    /\ None \notin Token \cup Name \cup Fingerprint \cup Path

VARIABLES
    minted,     \* tokens enroll-token has printed (history)
    tokens,     \* tokens/: the outstanding ones
    clients,    \* clients/: path -> contents
    pc,         \* each handler: where its Enroll call is
    request,    \*   the token and name it was called with
    todo,       \*   the registry files it has yet to read
    taken,      \*   whether one of those read has the name
    signed,     \*   the fingerprint of the certificate it issues
    rev,        \* the revoke command
    serving,    \* certificates with an authenticated RPC in progress
    cert,       \* published fingerprint -> the token spent on it (history)
    banned      \* clients some revoke has returned for (history)

call == <<pc, request, todo, taken, signed>>
vars == <<minted, tokens, clients, call, rev, serving, cert, banned>>

-----------------------------------------------------------------------------
(* The directory.                                                          *)

\* clients/<fp>.toml, and the file write_atomic stages for a path.
client_path(fp) == <<fp, 0>>
Tmp_InPlace(p) == p                         \* MUTANT: written where it is read
Tmp(p) == <<p[1], p[2] + 1>>

Write(p, c) == [q \in DOMAIN clients \cup {p} |-> IF q = p THEN c ELSE clients[q]]
Rename(p, q) == [r \in (DOMAIN clients \ {p}) \cup {q} |->
                    IF r = q THEN clients[p] ELSE clients[r]]

\* The entries read_registry will read.
Entries == DOMAIN clients
\* A listed file reads and parses.
Parses(p) == p \in DOMAIN clients /\ clients[p] # Torn

ActiveAs_Any(p, n) == clients[p].name = n   \* MUTANT: the revoked flag is not read
ActiveAs(p, n) == clients[p].name = n /\ ~clients[p].revoked

client_status(fp) ==
    CASE client_path(fp) \notin DOMAIN clients -> "Unknown"
      [] Parses(client_path(fp)) /\ clients[client_path(fp)].revoked -> "Revoked"
      [] Parses(client_path(fp)) /\ ~clients[client_path(fp)].revoked -> "Active"
      [] OTHER -> "RegistryParse"

-----------------------------------------------------------------------------
(* Tokens and enrolment.                                                   *)

IdleRevoke == [pc |-> "idle", name |-> None, todo |-> {}, found |-> {},
               path |-> None, done |-> {}, covered |-> {}]

\* The token is printed once its file is in place, so nobody presents it before.
mint_token(t) ==
    /\ t \notin minted
    /\ minted' = minted \cup {t}
    /\ tokens' = tokens \cup {t}
    /\ UNCHANGED <<clients, call, rev, serving, cert, banned>>

consume_token_Keeps(t) == tokens            \* MUTANT: removal left for later
\* remove_file: the one step in which a token is spent.
consume_token(t) == tokens \ {t}

Goto(h, from, to) == pc[h] = from /\ pc' = [pc EXCEPT ![h] = to]
\* The call is over, well or badly, and the handler is free for another.
Return(h) ==
    /\ pc' = [pc EXCEPT ![h] = "idle"]
    /\ request' = [request EXCEPT ![h] = None]
    /\ todo' = [todo EXCEPT ![h] = {}]
    /\ taken' = [taken EXCEPT ![h] = FALSE]
    /\ signed' = [signed EXCEPT ![h] = None]

\* Enroll with an outstanding token (any other is refused and changes nothing):
\* the token is spent, then active_client_named lists the registry.
enroll(h, t, n) ==
    /\ Goto(h, "idle", "read")
    /\ t \in tokens
    /\ tokens' = consume_token(t)
    /\ request' = [request EXCEPT ![h] = [token |-> t, name |-> n]]
    /\ todo' = [todo EXCEPT ![h] = Entries]
    /\ taken' = [taken EXCEPT ![h] = FALSE]
    /\ UNCHANGED <<minted, clients, signed, rev, serving, cert, banned>>

\* The CSR does not parse or carries no usable name: the token is spent anyway.
enroll_rejected(t) ==
    /\ t \in tokens
    /\ tokens' = consume_token(t)
    /\ UNCHANGED <<minted, clients, call, rev, serving, cert, banned>>

enroll_read(h, p) ==
    /\ Goto(h, "read", "read")
    /\ p \in todo[h]
    /\ Parses(p)
    /\ todo' = [todo EXCEPT ![h] = @ \ {p}]
    /\ taken' = [taken EXCEPT ![h] = @ \/ ActiveAs(p, request[h].name)]
    /\ UNCHANGED <<minted, tokens, clients, request, signed, rev, serving, cert, banned>>

\* The file is gone (Io) or half-written (RegistryParse): the call fails.
enroll_read_error(h, p) ==
    /\ pc[h] = "read"
    /\ p \in todo[h]
    /\ ~Parses(p)
    /\ Return(h)
    /\ UNCHANGED <<minted, tokens, clients, rev, serving, cert, banned>>

\* NameTaken.
enroll_taken(h) ==
    /\ pc[h] = "read"
    /\ todo[h] = {}
    /\ taken[h]
    /\ Return(h)
    /\ UNCHANGED <<minted, tokens, clients, rev, serving, cert, banned>>

\* No two certificates have one fingerprint.
Fresh(fp) == \A p \in DOMAIN clients : p[1] # fp

\* The certificate is signed and its record staged.
enroll_create(h, fp) ==
    /\ Goto(h, "read", "write")
    /\ todo[h] = {}
    /\ ~taken[h]
    /\ Fresh(fp)
    /\ clients' = Write(Tmp(client_path(fp)), Torn)
    /\ signed' = [signed EXCEPT ![h] = fp]
    /\ UNCHANGED <<minted, tokens, request, todo, taken, rev, serving, cert, banned>>

enroll_write(h) ==
    /\ Goto(h, "write", "rename")
    /\ clients' = Write(Tmp(client_path(signed[h])),
                        [name |-> request[h].name, revoked |-> FALSE])
    /\ UNCHANGED <<minted, tokens, request, todo, taken, signed, rev, serving, cert, banned>>

enroll_rename(h) ==
    /\ pc[h] = "rename"
    /\ Return(h)
    /\ clients' = Rename(Tmp(client_path(signed[h])), client_path(signed[h]))
    /\ cert' = [f \in DOMAIN cert \cup {signed[h]} |->
                   IF f = signed[h] THEN request[h].token ELSE cert[f]]
    /\ UNCHANGED <<minted, tokens, rev, serving, banned>>

\* An I/O error or the end of the daemon: files stay as they are.
enroll_abort(h) ==
    /\ pc[h] # "idle"
    /\ Return(h)
    /\ UNCHANGED <<minted, tokens, clients, rev, serving, cert, banned>>

-----------------------------------------------------------------------------
(* The revoke command.                                                     *)

\* `covered' notes the clients whose enrolment under the name had completed.
revoke(n) ==
    /\ rev.pc = "idle"
    /\ rev' = [IdleRevoke EXCEPT !.pc = "read", !.name = n, !.todo = Entries,
                 !.covered = {fp \in Fingerprint : /\ client_path(fp) \in DOMAIN clients
                                             /\ clients[client_path(fp)].name = n}]
    /\ UNCHANGED <<minted, tokens, clients, call, serving, cert, banned>>

revoke_read(p) ==
    /\ rev.pc = "read"
    /\ p \in rev.todo
    /\ Parses(p)
    /\ rev' = [rev EXCEPT !.todo = @ \ {p},
                          !.found = @ \cup {q \in {p} : ActiveAs(q, rev.name)}]
    /\ UNCHANGED <<minted, tokens, clients, call, serving, cert, banned>>

revoke_read_error(p) ==
    /\ rev.pc = "read"
    /\ p \in rev.todo
    /\ ~Parses(p)
    /\ rev' = IdleRevoke
    /\ UNCHANGED <<minted, tokens, clients, call, serving, cert, banned>>

\* The loop over the records read, one write_atomic each.
revoke_create(p) ==
    /\ rev.pc = "read"
    /\ rev.todo = {}
    /\ p \in rev.found
    /\ clients' = Write(Tmp(p), Torn)
    /\ rev' = [rev EXCEPT !.pc = "write", !.path = p, !.found = @ \ {p}]
    /\ UNCHANGED <<minted, tokens, call, serving, cert, banned>>

revoke_write ==
    /\ rev.pc = "write"
    /\ clients' = Write(Tmp(rev.path), [name |-> rev.name, revoked |-> TRUE])
    /\ rev' = [rev EXCEPT !.pc = "rename"]
    /\ UNCHANGED <<minted, tokens, call, serving, cert, banned>>

revoke_rename ==
    /\ rev.pc = "rename"
    /\ clients' = Rename(Tmp(rev.path), rev.path)
    /\ rev' = [rev EXCEPT !.pc = "read", !.path = None,
                          !.done = @ \cup {rev.path[1]}]
    /\ UNCHANGED <<minted, tokens, call, serving, cert, banned>>

revoke_done_Early ==                        \* MUTANT: returns after one certificate
    /\ rev.pc = "read"
    /\ rev.todo = {}
    /\ rev.found = {} \/ rev.done # {}
    /\ rev' = IdleRevoke
    /\ banned' = banned \cup rev.covered
    /\ UNCHANGED <<minted, tokens, clients, call, serving, cert>>

\* "revoked <n> certificate(s)": the caller is told of rev.done.
revoke_done ==
    /\ rev.pc = "read"
    /\ rev.todo = {}
    /\ rev.found = {}
    /\ rev' = IdleRevoke
    /\ banned' = banned \cup rev.covered
    /\ UNCHANGED <<minted, tokens, clients, call, serving, cert>>

revoke_abort ==
    /\ rev.pc # "idle"
    /\ rev' = IdleRevoke
    /\ UNCHANGED <<minted, tokens, clients, call, serving, cert, banned>>

-----------------------------------------------------------------------------
(* Every other RPC.                                                        *)

Admitted_Known(fp) == client_status(fp) # "Unknown"  \* MUTANT: revocation not looked at
Admitted(fp) == client_status(fp) = "Active"

\* authenticate runs once, before the handler's work.
authenticate(fp) ==
    /\ fp \notin serving
    /\ Admitted(fp)
    /\ serving' = serving \cup {fp}
    /\ UNCHANGED <<minted, tokens, clients, call, rev, cert, banned>>

respond(fp) ==
    /\ fp \in serving
    /\ serving' = serving \ {fp}
    /\ UNCHANGED <<minted, tokens, clients, call, rev, cert, banned>>

-----------------------------------------------------------------------------
Init ==
    /\ minted = {}
    /\ tokens = {}
    /\ clients = [p \in {} |-> Torn]
    /\ pc = [h \in Handler |-> "idle"]
    /\ request = [h \in Handler |-> None]
    /\ todo = [h \in Handler |-> {}]
    /\ taken = [h \in Handler |-> FALSE]
    /\ signed = [h \in Handler |-> None]
    /\ rev = IdleRevoke
    /\ serving = {}
    /\ cert = [f \in {} |-> None]
    /\ banned = {}

EnrollStep(h) ==
    \/ \E t \in Token, n \in Name : enroll(h, t, n)
    \/ \E p \in Path : enroll_read(h, p) \/ enroll_read_error(h, p)
    \/ enroll_taken(h)
    \/ \E fp \in Fingerprint : enroll_create(h, fp)
    \/ enroll_write(h)
    \/ enroll_rename(h)
    \/ enroll_abort(h)

RevokeStep ==
    \/ \E n \in Name : revoke(n)
    \/ \E p \in Path : revoke_read(p) \/ revoke_read_error(p) \/ revoke_create(p)
    \/ revoke_write
    \/ revoke_rename
    \/ revoke_done
    \/ revoke_abort

Next ==
    \/ \E t \in Token : mint_token(t) \/ enroll_rejected(t)
    \/ \E h \in Handler : EnrollStep(h)
    \/ RevokeStep
    \/ \E fp \in Fingerprint : authenticate(fp) \/ respond(fp)

Spec == Init /\ [][Next]_vars

-----------------------------------------------------------------------------
(* Properties.                                                             *)

\* Type correctness; `.tmp-' prefixes do not pile up beyond two, however
\* often revoke meets the temporary files of write_atomic.
TypeOK ==
    /\ minted \subseteq Token
    /\ tokens \subseteq Token
    /\ DOMAIN clients \subseteq Path
    /\ \A p \in DOMAIN clients : clients[p] \in ClientRecord \cup {Torn}
    /\ pc \in [Handler -> {"idle", "read", "write", "rename"}]
    /\ request \in [Handler -> [token: Token, name: Name] \cup {None}]
    /\ todo \in [Handler -> SUBSET Path]
    /\ taken \in [Handler -> BOOLEAN]
    /\ signed \in [Handler -> Fingerprint \cup {None}]
    /\ rev \in [pc: {"idle", "read", "write", "rename"},
                name: Name \cup {None}, todo: SUBSET Path, found: SUBSET Path,
                path: Path \cup {None}, done: SUBSET Fingerprint, covered: SUBSET Fingerprint]
    /\ serving \subseteq Fingerprint
    /\ DOMAIN cert \subseteq Fingerprint
    /\ \A f \in DOMAIN cert : cert[f] \in Token
    /\ banned \subseteq Fingerprint

\* "A token is spendable exactly once": every registered client was enrolled
\* on a minted token that is gone from tokens/, and no two on the same one,
\* whatever handlers, failures and restarts came between consume_token and
\* the record's rename.
EachClientSpentItsToken ==
    /\ \A fp \in Fingerprint : client_path(fp) \in DOMAIN clients =>
          fp \in DOMAIN cert /\ cert[fp] \in minted \ tokens
    /\ \A f, g \in DOMAIN cert : cert[f] = cert[g] => f = g

\* write_atomic: what a client's own path holds is always a whole record, so
\* authenticate never fails on a client another process is writing.
PublishedIsWhole ==
    \A fp \in Fingerprint : client_path(fp) \in DOMAIN clients =>
        clients[client_path(fp)] # Torn

\* A client that had enrolled under the name when revoke began is revoked when
\* revoke returns, and for good: no enrolment or later revoke, complete or
\* cut short, makes its certificate valid again.
RevokedStaysRevoked ==
    \A fp \in banned : client_status(fp) = "Revoked"

\* "Every RPC checks ... and refuses revoked": no RPC of such a client begins
\* after the revoke returned; one that had begun runs to its end.
NoServiceAfterRevocation ==
    [][serving' \cap banned \subseteq serving]_vars

\* "Writes data atomically": a reader of the registry does not come upon a
\* half-written file.
NoTornRead ==
    \A h \in Handler : pc[h] = "read" =>
        \A p \in todo[h] \cap DOMAIN clients : clients[p] # Torn
=============================================================================
