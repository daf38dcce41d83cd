-------------------------- MODULE EnrollmentProofs --------------------------
(***************************************************************************)
(* Tokens are spent once, published records are whole, and revocation is   *)
(* complete and final, for any number of handlers, tokens and clients.     *)
(***************************************************************************)
EXTENDS Enrollment, TLAPS

\* Tokens in flight: a call under way holds a token that is spent, that no
\* client was enrolled on yet, and that no other call holds.
Busy(h) == pc[h] # "idle"
TokenInv ==
    /\ tokens \subseteq minted
    /\ \A fp \in Fingerprint : client_path(fp) \in DOMAIN clients => fp \in DOMAIN cert
    /\ \A f \in DOMAIN cert : cert[f] \in minted \ tokens
    /\ \A f, g \in DOMAIN cert : cert[f] = cert[g] => f = g
    /\ \A h \in Handler : Busy(h) =>
          /\ request[h] \in [token: Token, name: Name]
          /\ request[h].token \in minted \ tokens
          /\ \A f \in DOMAIN cert : cert[f] # request[h].token
    /\ \A h, i \in Handler : Busy(h) /\ Busy(i) /\ request[h].token = request[i].token => h = i

\* Staged records: a call that has signed a certificate is the only one with
\* that fingerprint; its temporary file is there, its own path is not yet.
StagedInv ==
    /\ \A h \in Handler : pc[h] \in {"write", "rename"} =>
          /\ signed[h] \in Fingerprint
          /\ <<signed[h], 0>> \notin DOMAIN clients
          /\ <<signed[h], 1>> \in DOMAIN clients
    /\ \A h \in Handler : pc[h] = "rename" => clients[<<signed[h], 1>>] # Torn
    /\ \A h, i \in Handler :
          /\ pc[h] \in {"write", "rename"} /\ pc[i] \in {"write", "rename"}
          /\ signed[h] = signed[i]
          => h = i

\* Revocation in progress: every client it must cover is revoked already, or
\* still among the files to read, the records found, or the one being written.
RevokeInv ==
    /\ rev.pc # "idle" => rev.name \in Name
    /\ \A p \in rev.todo \cup rev.found : p[2] = 0 => p \in DOMAIN clients
    /\ \A p \in rev.found : p[2] \in {0, 1}
    /\ rev.pc \in {"write", "rename"} =>
          /\ rev.path \in Fingerprint \X {0, 1}
          /\ rev.path[2] = 0 => rev.path \in DOMAIN clients
          /\ Tmp(rev.path) \in DOMAIN clients
    /\ rev.pc = "rename" => clients[Tmp(rev.path)] = [name |-> rev.name, revoked |-> TRUE]
    /\ rev.pc # "idle" => \A fp \in rev.covered :
          /\ <<fp, 0>> \in DOMAIN clients
          /\ clients[<<fp, 0>>].name = rev.name
          /\ \/ clients[<<fp, 0>>].revoked
             \/ <<fp, 0>> \in rev.todo \cup rev.found
             \/ rev.pc \in {"write", "rename"} /\ rev.path = <<fp, 0>>

\* Two `.tmp-' prefixes only ever name a file revoke is writing or has left.
DepthInv == \A p \in DOMAIN clients : p[2] = 2 =>
                clients[p] = Torn \/ clients[p].revoked

BannedInv == \A fp \in banned :
    <<fp, 0>> \in DOMAIN clients /\ clients[<<fp, 0>>].revoked

IInv ==
    /\ TypeOK
    /\ TokenInv
    /\ PublishedIsWhole
    /\ StagedInv
    /\ RevokeInv
    /\ DepthInv
    /\ BannedInv

-----------------------------------------------------------------------------
LEMMA Staging == \A fp : Tmp(client_path(fp)) = <<fp, 1>> /\ client_path(fp) = <<fp, 0>>
  BY DEF Tmp, client_path

\* What write_atomic's steps leave of the directory.
LEMMA Written ==
    ASSUME NEW p, NEW c, clients' = Write(p, c)
    PROVE  /\ DOMAIN clients' = DOMAIN clients \cup {p}
           /\ clients'[p] = c
           /\ \A q \in DOMAIN clients : q # p => clients'[q] = clients[q]
  BY DEF Write

LEMMA Renamed ==
    ASSUME NEW p, NEW q, clients' = Rename(p, q), p # q
    PROVE  /\ DOMAIN clients' = (DOMAIN clients \ {p}) \cup {q}
           /\ clients'[q] = clients[p]
           /\ \A r \in DOMAIN clients : r # p /\ r # q => clients'[r] = clients[r]
  BY DEF Rename

\* A path is its two components.
LEMMA Apart ==
    /\ \A f, g : <<f, 0>> # <<g, 1>> /\ <<f, 0>> # <<g, 2>> /\ <<f, 1>> # <<g, 2>>
    /\ \A f, g : <<f, 0>> = <<g, 0>> => f = g
    /\ \A f, g : <<f, 1>> = <<g, 1>> => f = g
  OBVIOUS

LEMMA InPath ==
    \A f \in Fingerprint : <<f, 0>> \in Path /\ <<f, 1>> \in Path /\ <<f, 2>> \in Path
  BY DEF Path

\* The file staged for a path with at most one `.tmp-' is a path, and nobody's own.
LEMMA TmpPath ==
    ASSUME NEW f \in Fingerprint, NEW k \in {0, 1}
    PROVE  /\ <<f, k>> \in Path /\ <<f, k + 1>> \in Path
           /\ \A g : <<g, 0>> # <<f, k + 1>>
  <1>1. CASE k = 0
    <2>1. k + 1 = 1
      BY <1>1
    <2>2. <<f, k>> = <<f, 0>> /\ <<f, k + 1>> = <<f, 1>>
      BY <1>1, <2>1
    <2> QED
      BY <2>2, InPath, Apart
  <1>2. CASE k = 1
    <2>1. k + 1 = 2
      BY <1>2
    <2>2. <<f, k>> = <<f, 1>> /\ <<f, k + 1>> = <<f, 2>>
      BY <1>2, <2>1
    <2> QED
      BY <2>2, InPath, Apart
  <1> QED
    BY <1>1, <1>2

\* The part of TypeOK a write to the directory can disturb.
FilesOK ==
    /\ DOMAIN clients \subseteq Path
    /\ \A p \in DOMAIN clients : clients[p] \in ClientRecord \cup {Torn}

\* Calls past the read keep their files when the directory changes elsewhere.
LEMMA StagedKept ==
    ASSUME StagedInv, UNCHANGED <<pc, signed>>,
           \A s \in Fingerprint :
             <<s, 0>> \notin DOMAIN clients /\ <<s, 1>> \in DOMAIN clients =>
               /\ <<s, 0>> \notin DOMAIN clients'
               /\ <<s, 1>> \in DOMAIN clients'
               /\ clients[<<s, 1>>] # Torn => clients'[<<s, 1>>] # Torn
    PROVE  StagedInv'
  BY DEF StagedInv

LEMMA InitEstablishes == Init => IInv
  <1> SUFFICES ASSUME Init PROVE IInv
    OBVIOUS
  <1> USE DEF Init
  <1>1. TypeOK
    BY DEF TypeOK, IdleRevoke
  <1>2. TokenInv /\ PublishedIsWhole /\ StagedInv
    BY DEF TokenInv, PublishedIsWhole, StagedInv, Busy
  <1>3. RevokeInv /\ DepthInv /\ BannedInv
    BY DEF RevokeInv, DepthInv, BannedInv, IdleRevoke
  <1> QED
    BY <1>1, <1>2, <1>3 DEF IInv

LEMMA mint_token_Preserves ==
    ASSUME NEW t \in Token, IInv, mint_token(t) PROVE IInv'
  <1> USE EnrollmentAssumption DEF IInv, mint_token, call
  <1>1. TypeOK'
    BY DEF TypeOK
  <1>2. TokenInv'
    BY DEF TokenInv, Busy, TypeOK, client_path
  <1>3. PublishedIsWhole'
    BY DEF PublishedIsWhole, StagedInv, RevokeInv, TypeOK, client_path
  <1>4. StagedInv'
    BY DEF StagedInv, RevokeInv, TypeOK
  <1>5. RevokeInv'
    BY DEF RevokeInv, StagedInv, DepthInv, TypeOK, Tmp
  <1>6. DepthInv'
    BY DEF DepthInv, RevokeInv, StagedInv, TypeOK
  <1>7. BannedInv'
    BY DEF BannedInv, RevokeInv, StagedInv, TypeOK
  <1> QED
    BY <1>1, <1>2, <1>3, <1>4, <1>5, <1>6, <1>7

LEMMA enroll_rejected_Preserves ==
    ASSUME NEW t \in Token, IInv, enroll_rejected(t) PROVE IInv'
  <1> USE EnrollmentAssumption DEF IInv, enroll_rejected, call, consume_token
  <1>1. TypeOK'
    BY DEF TypeOK
  <1>2. TokenInv'
    BY DEF TokenInv, Busy, TypeOK, client_path
  <1>3. PublishedIsWhole'
    BY DEF PublishedIsWhole, StagedInv, RevokeInv, TypeOK, client_path
  <1>4. StagedInv'
    BY DEF StagedInv, RevokeInv, TypeOK
  <1>5. RevokeInv'
    BY DEF RevokeInv, StagedInv, DepthInv, TypeOK, Tmp
  <1>6. DepthInv'
    BY DEF DepthInv, RevokeInv, StagedInv, TypeOK
  <1>7. BannedInv'
    BY DEF BannedInv, RevokeInv, StagedInv, TypeOK
  <1> QED
    BY <1>1, <1>2, <1>3, <1>4, <1>5, <1>6, <1>7

LEMMA enroll_Preserves ==
    ASSUME NEW h \in Handler, NEW t \in Token, NEW n \in Name, IInv, enroll(h, t, n) PROVE IInv'
  <1> USE EnrollmentAssumption DEF IInv, enroll, call, Goto, consume_token, Entries
  <1>1. TypeOK'
    BY DEF TypeOK
  <1>2. TokenInv'
    BY DEF TokenInv, Busy, TypeOK, client_path
  <1>3. PublishedIsWhole'
    BY DEF PublishedIsWhole, StagedInv, RevokeInv, TypeOK, client_path
  <1>4. StagedInv'
    BY DEF StagedInv, RevokeInv, TypeOK
  <1>5. RevokeInv'
    BY DEF RevokeInv, StagedInv, DepthInv, TypeOK, Tmp
  <1>6. DepthInv'
    BY DEF DepthInv, RevokeInv, StagedInv, TypeOK
  <1>7. BannedInv'
    BY DEF BannedInv, RevokeInv, StagedInv, TypeOK
  <1> QED
    BY <1>1, <1>2, <1>3, <1>4, <1>5, <1>6, <1>7

LEMMA enroll_read_Preserves ==
    ASSUME NEW h \in Handler, NEW p \in Path, IInv, enroll_read(h, p) PROVE IInv'
  <1> USE EnrollmentAssumption DEF IInv, enroll_read, call, Goto
  <1>1. TypeOK'
    BY DEF TypeOK
  <1>2. TokenInv'
    BY DEF TokenInv, Busy, TypeOK, client_path
  <1>3. PublishedIsWhole'
    BY DEF PublishedIsWhole, StagedInv, RevokeInv, TypeOK, client_path
  <1>4. StagedInv'
    BY DEF StagedInv, RevokeInv, TypeOK
  <1>5. RevokeInv'
    BY DEF RevokeInv, StagedInv, DepthInv, TypeOK, Tmp
  <1>6. DepthInv'
    BY DEF DepthInv, RevokeInv, StagedInv, TypeOK
  <1>7. BannedInv'
    BY DEF BannedInv, RevokeInv, StagedInv, TypeOK
  <1> QED
    BY <1>1, <1>2, <1>3, <1>4, <1>5, <1>6, <1>7

LEMMA enroll_read_error_Preserves ==
    ASSUME NEW h \in Handler, NEW p \in Path, IInv, enroll_read_error(h, p) PROVE IInv'
  <1> USE EnrollmentAssumption DEF IInv, enroll_read_error, call, Return
  <1>1. TypeOK'
    BY DEF TypeOK
  <1>2. TokenInv'
    BY DEF TokenInv, Busy, TypeOK, client_path
  <1>3. PublishedIsWhole'
    BY DEF PublishedIsWhole, StagedInv, RevokeInv, TypeOK, client_path
  <1>4. StagedInv'
    BY DEF StagedInv, RevokeInv, TypeOK
  <1>5. RevokeInv'
    BY DEF RevokeInv, StagedInv, DepthInv, TypeOK, Tmp
  <1>6. DepthInv'
    BY DEF DepthInv, RevokeInv, StagedInv, TypeOK
  <1>7. BannedInv'
    BY DEF BannedInv, RevokeInv, StagedInv, TypeOK
  <1> QED
    BY <1>1, <1>2, <1>3, <1>4, <1>5, <1>6, <1>7

LEMMA enroll_taken_Preserves ==
    ASSUME NEW h \in Handler, IInv, enroll_taken(h) PROVE IInv'
  <1> USE EnrollmentAssumption DEF IInv, enroll_taken, call, Return
  <1>1. TypeOK'
    BY DEF TypeOK
  <1>2. TokenInv'
    BY DEF TokenInv, Busy, TypeOK, client_path
  <1>3. PublishedIsWhole'
    BY DEF PublishedIsWhole, StagedInv, RevokeInv, TypeOK, client_path
  <1>4. StagedInv'
    BY DEF StagedInv, RevokeInv, TypeOK
  <1>5. RevokeInv'
    BY DEF RevokeInv, StagedInv, DepthInv, TypeOK, Tmp
  <1>6. DepthInv'
    BY DEF DepthInv, RevokeInv, StagedInv, TypeOK
  <1>7. BannedInv'
    BY DEF BannedInv, RevokeInv, StagedInv, TypeOK
  <1> QED
    BY <1>1, <1>2, <1>3, <1>4, <1>5, <1>6, <1>7

LEMMA enroll_create_Preserves ==
    ASSUME NEW h \in Handler, NEW fp \in Fingerprint, IInv, enroll_create(h, fp) PROVE IInv'
  <1> USE EnrollmentAssumption
  <1>a. /\ DOMAIN clients' = DOMAIN clients \cup {<<fp, 1>>}
        /\ clients'[<<fp, 1>>] = Torn
        /\ \A q \in DOMAIN clients : q # <<fp, 1>> => clients'[q] = clients[q]
    BY Written, Staging DEF enroll_create
  <1>b. \A k : <<fp, k>> \notin DOMAIN clients
    BY DEF enroll_create, Fresh
  <1>m. FilesOK'
    BY <1>a, InPath DEF FilesOK, IInv, TypeOK
  <1>1. TypeOK'
    BY <1>m, <1>b DEF IInv, enroll_create, FilesOK, TypeOK, call, Goto
  <1>2. TokenInv'
    BY Staging DEF IInv, enroll_create, call, Goto, Write, Fresh, TokenInv, Busy, TypeOK, client_path, Path, ClientRecord
  <1>3. PublishedIsWhole'
    BY Staging DEF IInv, enroll_create, call, Goto, Write, Fresh, PublishedIsWhole, StagedInv, RevokeInv, TypeOK, client_path, Path, ClientRecord
  <1>4. StagedInv'
    <2>1. \A i \in Handler : pc[i] \in {"write", "rename"} => signed[i] # fp
      BY <1>b DEF IInv, StagedInv
    <2>2. /\ pc' = [pc EXCEPT ![h] = "write"] /\ signed' = [signed EXCEPT ![h] = fp]
          /\ \A i \in Handler : i # h => pc'[i] = pc[i] /\ signed'[i] = signed[i]
          /\ pc'[h] = "write" /\ signed'[h] = fp
      BY DEF IInv, TypeOK, enroll_create, Goto
    <2>3. ASSUME NEW i \in Handler, i # h, pc[i] \in {"write", "rename"}
          PROVE  /\ <<signed[i], 0>> \notin DOMAIN clients'
                 /\ <<signed[i], 1>> \in DOMAIN clients'
                 /\ clients'[<<signed[i], 1>>] = clients[<<signed[i], 1>>]
      BY <1>a, <2>1, <2>3, Apart DEF IInv, StagedInv
    <2>4. <<fp, 0>> \notin DOMAIN clients' /\ <<fp, 1>> \in DOMAIN clients'
      BY <1>a, <1>b, Apart
    <2>5. ASSUME NEW i \in Handler, pc'[i] \in {"write", "rename"}
          PROVE  /\ signed'[i] \in Fingerprint
                 /\ <<signed'[i], 0>> \notin DOMAIN clients'
                 /\ <<signed'[i], 1>> \in DOMAIN clients'
                 /\ pc'[i] = "rename" => clients'[<<signed'[i], 1>>] # Torn
      <3>1. CASE i = h
        BY <2>2, <2>4, <3>1
      <3>2. CASE i # h
        BY <2>2, <2>3, <2>5, <3>2 DEF IInv, StagedInv
      <3> QED
        BY <3>1, <3>2
    <2>6. \A i, j \in Handler :
             /\ pc'[i] \in {"write", "rename"} /\ pc'[j] \in {"write", "rename"}
             /\ signed'[i] = signed'[j]
             => i = j
      BY <2>1, <2>2 DEF IInv, StagedInv
    <2> QED
      BY <2>5, <2>6 DEF StagedInv
  <1>5. RevokeInv'
    BY Staging DEF IInv, enroll_create, call, Goto, Write, Fresh, RevokeInv, StagedInv, DepthInv, TypeOK, Tmp, Path, ClientRecord
  <1>6. DepthInv'
    BY Staging DEF IInv, enroll_create, call, Goto, Write, Fresh, DepthInv, RevokeInv, StagedInv, TypeOK, Path, ClientRecord
  <1>7. BannedInv'
    BY <1>a, <1>b, Apart, EnrollmentAssumption DEF IInv, enroll_create, BannedInv
  <1> QED
    BY <1>1, <1>2, <1>3, <1>4, <1>5, <1>6, <1>7 DEF IInv

LEMMA enroll_write_Preserves ==
    ASSUME NEW h \in Handler, IInv, enroll_write(h) PROVE IInv'
  <1> USE EnrollmentAssumption
  <1>b. /\ signed[h] \in Fingerprint
        /\ <<signed[h], 0>> \notin DOMAIN clients
        /\ <<signed[h], 1>> \in DOMAIN clients
    BY DEF enroll_write, Goto, IInv, StagedInv
  <1>c. request[h] \in [token: Token, name: Name]
    BY DEF enroll_write, Goto, IInv, TokenInv, Busy
  <1>d. [name |-> request[h].name, revoked |-> FALSE] \in ClientRecord
    BY <1>c DEF ClientRecord
  <1>a. /\ DOMAIN clients' = DOMAIN clients \cup {<<signed[h], 1>>}
        /\ clients'[<<signed[h], 1>>] = [name |-> request[h].name, revoked |-> FALSE]
        /\ \A q \in DOMAIN clients : q # <<signed[h], 1>> => clients'[q] = clients[q]
    BY Written, Staging DEF enroll_write
  <1>m. FilesOK'
    BY <1>a, <1>b, <1>d, InPath DEF FilesOK, IInv, TypeOK
  <1>1. TypeOK'
    BY <1>m, <1>b DEF IInv, enroll_write, FilesOK, TypeOK, call, Goto
  <1>2. TokenInv'
    BY Staging DEF IInv, enroll_write, call, Goto, Write, TokenInv, Busy, TypeOK, client_path, Path, ClientRecord
  <1>3. PublishedIsWhole'
    BY Staging DEF IInv, enroll_write, call, Goto, Write, PublishedIsWhole, StagedInv, RevokeInv, TypeOK, client_path, Path, ClientRecord
  <1>4. StagedInv'
    <2>1. \A i \in Handler : i # h /\ pc[i] \in {"write", "rename"} => signed[i] # signed[h]
      BY DEF IInv, StagedInv, enroll_write, Goto
    <2>2. /\ \A i \in Handler : i # h => pc'[i] = pc[i]
          /\ pc'[h] = "rename" /\ signed' = signed /\ pc[h] = "write"
      BY DEF IInv, TypeOK, enroll_write, Goto
    <2>3. ASSUME NEW i \in Handler, i # h, pc[i] \in {"write", "rename"}
          PROVE  /\ <<signed[i], 0>> \notin DOMAIN clients'
                 /\ <<signed[i], 1>> \in DOMAIN clients'
                 /\ clients'[<<signed[i], 1>>] = clients[<<signed[i], 1>>]
      BY <1>a, <2>1, <2>3, Apart DEF IInv, StagedInv
    <2>4. /\ <<signed[h], 0>> \notin DOMAIN clients'
          /\ <<signed[h], 1>> \in DOMAIN clients'
          /\ clients'[<<signed[h], 1>>] # Torn
      BY <1>a, <1>b, <1>d, Apart
    <2> QED
      BY <1>b, <2>1, <2>2, <2>3, <2>4 DEF IInv, StagedInv
  <1>5. RevokeInv'
    BY Staging DEF IInv, enroll_write, call, Goto, Write, RevokeInv, StagedInv, DepthInv, TypeOK, Tmp, Path, ClientRecord
  <1>6. DepthInv'
    BY Staging DEF IInv, enroll_write, call, Goto, Write, DepthInv, RevokeInv, StagedInv, TypeOK, Path, ClientRecord
  <1>7. BannedInv'
    BY <1>a, <1>b, Apart, EnrollmentAssumption DEF IInv, enroll_write, BannedInv
  <1> QED
    BY <1>1, <1>2, <1>3, <1>4, <1>5, <1>6, <1>7 DEF IInv

LEMMA enroll_rename_Preserves ==
    ASSUME NEW h \in Handler, IInv, enroll_rename(h) PROVE IInv'
  <1> USE EnrollmentAssumption
  <1>b. /\ signed[h] \in Fingerprint
        /\ <<signed[h], 0>> \notin DOMAIN clients
        /\ <<signed[h], 1>> \in DOMAIN clients
    BY DEF enroll_rename, IInv, StagedInv
  <1>c. clients' = Rename(<<signed[h], 1>>, <<signed[h], 0>>)
    BY Staging DEF enroll_rename
  <1>d. <<signed[h], 1>> # <<signed[h], 0>>
    OBVIOUS
  <1>a. /\ DOMAIN clients' = (DOMAIN clients \ {<<signed[h], 1>>}) \cup {<<signed[h], 0>>}
        /\ clients'[<<signed[h], 0>>] = clients[<<signed[h], 1>>]
        /\ \A q \in DOMAIN clients : q # <<signed[h], 1>> /\ q # <<signed[h], 0>>
                                       => clients'[q] = clients[q]
    BY <1>c, <1>d, Renamed
  <1>m. FilesOK'
    BY <1>a, <1>b, InPath DEF FilesOK, IInv, TypeOK
  <1>1. TypeOK'
    BY <1>m, <1>b DEF IInv, enroll_rename, FilesOK, TypeOK, call, Return, TokenInv, Busy
  <1>2. TokenInv'
    BY Staging DEF IInv, enroll_rename, call, Return, Rename, TokenInv, Busy, TypeOK, client_path, Path, ClientRecord
  <1>3. PublishedIsWhole'
    BY Staging DEF IInv, enroll_rename, call, Return, Rename, PublishedIsWhole, StagedInv, RevokeInv, TypeOK, client_path, Path, ClientRecord
  <1>4. StagedInv'
    <2>1. \A i \in Handler : i # h /\ pc[i] \in {"write", "rename"} => signed[i] # signed[h]
      BY DEF IInv, StagedInv, enroll_rename
    <2>2. /\ \A i \in Handler : i # h => pc'[i] = pc[i] /\ signed'[i] = signed[i]
          /\ pc'[h] = "idle"
      BY DEF IInv, TypeOK, enroll_rename, Return
    <2>3. ASSUME NEW i \in Handler, i # h, pc[i] \in {"write", "rename"}
          PROVE  /\ <<signed[i], 0>> \notin DOMAIN clients'
                 /\ <<signed[i], 1>> \in DOMAIN clients'
                 /\ clients'[<<signed[i], 1>>] = clients[<<signed[i], 1>>]
      BY <1>a, <2>1, <2>3, Apart DEF IInv, StagedInv
    <2>4. ASSUME NEW i \in Handler, pc'[i] \in {"write", "rename"}
          PROVE  /\ signed'[i] \in Fingerprint
                 /\ <<signed'[i], 0>> \notin DOMAIN clients'
                 /\ <<signed'[i], 1>> \in DOMAIN clients'
                 /\ pc'[i] = "rename" => clients'[<<signed'[i], 1>>] # Torn
      BY <2>2, <2>3, <2>4 DEF IInv, StagedInv
    <2>5. \A i, j \in Handler :
             /\ pc'[i] \in {"write", "rename"} /\ pc'[j] \in {"write", "rename"}
             /\ signed'[i] = signed'[j]
             => i = j
      BY <2>2 DEF IInv, StagedInv
    <2> QED
      BY <2>4, <2>5 DEF StagedInv
  <1>5. RevokeInv'
    BY Staging DEF IInv, enroll_rename, call, Return, Rename, RevokeInv, StagedInv, DepthInv, TypeOK, Tmp, Path, ClientRecord
  <1>6. DepthInv'
    BY Staging DEF IInv, enroll_rename, call, Return, Rename, DepthInv, RevokeInv, StagedInv, TypeOK, Path, ClientRecord
  <1>7. BannedInv'
    BY <1>a, <1>b, Apart, EnrollmentAssumption DEF IInv, enroll_rename, BannedInv
  <1> QED
    BY <1>1, <1>2, <1>3, <1>4, <1>5, <1>6, <1>7 DEF IInv

LEMMA enroll_abort_Preserves ==
    ASSUME NEW h \in Handler, IInv, enroll_abort(h) PROVE IInv'
  <1> USE EnrollmentAssumption DEF IInv, enroll_abort, call, Return
  <1>1. TypeOK'
    BY DEF TypeOK
  <1>2. TokenInv'
    BY DEF TokenInv, Busy, TypeOK, client_path
  <1>3. PublishedIsWhole'
    BY DEF PublishedIsWhole, StagedInv, RevokeInv, TypeOK, client_path
  <1>4. StagedInv'
    BY DEF StagedInv, RevokeInv, TypeOK
  <1>5. RevokeInv'
    BY DEF RevokeInv, StagedInv, DepthInv, TypeOK, Tmp
  <1>6. DepthInv'
    BY DEF DepthInv, RevokeInv, StagedInv, TypeOK
  <1>7. BannedInv'
    BY DEF BannedInv, RevokeInv, StagedInv, TypeOK
  <1> QED
    BY <1>1, <1>2, <1>3, <1>4, <1>5, <1>6, <1>7

LEMMA revoke_Preserves ==
    ASSUME NEW n \in Name, IInv, revoke(n) PROVE IInv'
  <1> USE EnrollmentAssumption DEF IInv, revoke, call, IdleRevoke, Entries, client_path
  <1>1. TypeOK'
    BY DEF TypeOK
  <1>2. TokenInv'
    BY DEF TokenInv, Busy, TypeOK, client_path
  <1>3. PublishedIsWhole'
    BY DEF PublishedIsWhole, StagedInv, RevokeInv, TypeOK, client_path
  <1>4. StagedInv'
    BY DEF StagedInv, RevokeInv, TypeOK
  <1>5. RevokeInv'
    BY DEF RevokeInv, StagedInv, DepthInv, TypeOK, Tmp
  <1>6. DepthInv'
    BY DEF DepthInv, RevokeInv, StagedInv, TypeOK
  <1>7. BannedInv'
    BY DEF BannedInv, RevokeInv, StagedInv, TypeOK
  <1> QED
    BY <1>1, <1>2, <1>3, <1>4, <1>5, <1>6, <1>7

LEMMA revoke_read_Preserves ==
    ASSUME NEW p \in Path, IInv, revoke_read(p) PROVE IInv'
  <1> USE EnrollmentAssumption DEF IInv, revoke_read, call, Parses, ActiveAs
  <1>1. TypeOK'
    BY DEF TypeOK, Path, ClientRecord
  <1>2. TokenInv'
    BY DEF TokenInv, Busy, TypeOK, client_path, Path, ClientRecord
  <1>3. PublishedIsWhole'
    BY DEF PublishedIsWhole, StagedInv, RevokeInv, TypeOK, client_path, Path, ClientRecord
  <1>4. StagedInv'
    BY DEF StagedInv, RevokeInv, TypeOK, Path, ClientRecord
  <1>5. RevokeInv'
    BY DEF RevokeInv, StagedInv, DepthInv, TypeOK, Tmp, Path, ClientRecord
  <1>6. DepthInv'
    BY DEF DepthInv, RevokeInv, StagedInv, TypeOK, Path, ClientRecord
  <1>7. BannedInv'
    BY DEF BannedInv, RevokeInv, StagedInv, TypeOK, Path, ClientRecord
  <1> QED
    BY <1>1, <1>2, <1>3, <1>4, <1>5, <1>6, <1>7

LEMMA revoke_read_error_Preserves ==
    ASSUME NEW p \in Path, IInv, revoke_read_error(p) PROVE IInv'
  <1> USE EnrollmentAssumption DEF IInv, revoke_read_error, call, IdleRevoke
  <1>1. TypeOK'
    BY DEF TypeOK, Path, ClientRecord
  <1>2. TokenInv'
    BY DEF TokenInv, Busy, TypeOK, client_path, Path, ClientRecord
  <1>3. PublishedIsWhole'
    BY DEF PublishedIsWhole, StagedInv, RevokeInv, TypeOK, client_path, Path, ClientRecord
  <1>4. StagedInv'
    BY DEF StagedInv, RevokeInv, TypeOK, Path, ClientRecord
  <1>5. RevokeInv'
    BY DEF RevokeInv, StagedInv, DepthInv, TypeOK, Tmp, Path, ClientRecord
  <1>6. DepthInv'
    BY DEF DepthInv, RevokeInv, StagedInv, TypeOK, Path, ClientRecord
  <1>7. BannedInv'
    BY DEF BannedInv, RevokeInv, StagedInv, TypeOK, Path, ClientRecord
  <1> QED
    BY <1>1, <1>2, <1>3, <1>4, <1>5, <1>6, <1>7

LEMMA revoke_create_Preserves ==
    ASSUME NEW p \in Path, IInv, revoke_create(p) PROVE IInv'
  <1> USE EnrollmentAssumption
  <1>b. PICK f \in Fingerprint, k \in {0, 1} : p = <<f, k>>
    BY DEF revoke_create, IInv, RevokeInv, Path
  <1>c. Tmp(p) = <<f, k + 1>>
    BY <1>b DEF Tmp
  <1>d. k = 0 => <<f, 0>> \in DOMAIN clients
    BY <1>b DEF revoke_create, IInv, RevokeInv
  <1>k. /\ <<f, k>> \in Path /\ <<f, k + 1>> \in Path
        /\ \A g : <<g, 0>> # <<f, k + 1>>
    BY TmpPath
  <1>a. /\ DOMAIN clients' = DOMAIN clients \cup {<<f, k + 1>>}
        /\ clients'[<<f, k + 1>>] = Torn
        /\ \A q \in DOMAIN clients : q # <<f, k + 1>> => clients'[q] = clients[q]
    BY <1>c, Written DEF revoke_create
  <1>m. FilesOK'
    BY <1>a, <1>k DEF FilesOK, IInv, TypeOK
  <1>1. TypeOK'
    BY <1>m, <1>b DEF IInv, revoke_create, FilesOK, TypeOK, call
  <1>2. TokenInv'
    BY DEF IInv, revoke_create, call, Write, Tmp, TokenInv, Busy, TypeOK, client_path, Path, ClientRecord
  <1>3. PublishedIsWhole'
    BY DEF IInv, revoke_create, call, Write, Tmp, PublishedIsWhole, StagedInv, RevokeInv, TypeOK, client_path, Path, ClientRecord
  <1>4. StagedInv'
    <2>1. ASSUME NEW s \in Fingerprint,
                 <<s, 0>> \notin DOMAIN clients, <<s, 1>> \in DOMAIN clients
          PROVE  /\ <<s, 0>> \notin DOMAIN clients'
                 /\ <<s, 1>> \in DOMAIN clients'
                 /\ clients[<<s, 1>>] # Torn => clients'[<<s, 1>>] # Torn
      <3>1. CASE k = 0
        BY <1>a, <1>d, <2>1, <3>1, Apart
      <3>2. CASE k = 1
        BY <1>a, <2>1, <3>2, Apart
      <3> QED
        BY <3>1, <3>2
    <2> QED
      BY <2>1, StagedKept DEF IInv, revoke_create, call
  <1>5. RevokeInv'
    BY DEF IInv, revoke_create, call, Write, Tmp, RevokeInv, StagedInv, DepthInv, TypeOK, Path, ClientRecord
  <1>6. DepthInv'
    BY DEF IInv, revoke_create, call, Write, Tmp, DepthInv, RevokeInv, StagedInv, TypeOK, Path, ClientRecord
  <1>7. BannedInv'
    BY <1>a, <1>b, <1>d, <1>k, EnrollmentAssumption DEF IInv, revoke_create, BannedInv
  <1> QED
    BY <1>1, <1>2, <1>3, <1>4, <1>5, <1>6, <1>7 DEF IInv

LEMMA revoke_write_Preserves ==
    ASSUME IInv, revoke_write PROVE IInv'
  <1> USE EnrollmentAssumption
  <1>b. PICK f \in Fingerprint, k \in {0, 1} : rev.path = <<f, k>>
    BY DEF revoke_write, IInv, RevokeInv
  <1>c. Tmp(rev.path) = <<f, k + 1>>
    BY <1>b DEF Tmp
  <1>d. k = 0 => <<f, 0>> \in DOMAIN clients
    BY <1>b DEF revoke_write, IInv, RevokeInv
  <1>k. /\ <<f, k>> \in Path /\ <<f, k + 1>> \in Path
        /\ \A g : <<g, 0>> # <<f, k + 1>>
    BY TmpPath
  <1>e. [name |-> rev.name, revoked |-> TRUE] \in ClientRecord
    BY DEF revoke_write, IInv, RevokeInv, ClientRecord
  <1>a. /\ DOMAIN clients' = DOMAIN clients \cup {<<f, k + 1>>}
        /\ clients'[<<f, k + 1>>] = [name |-> rev.name, revoked |-> TRUE]
        /\ \A q \in DOMAIN clients : q # <<f, k + 1>> => clients'[q] = clients[q]
    BY <1>c, Written DEF revoke_write
  <1>m. FilesOK'
    BY <1>a, <1>e, <1>k DEF FilesOK, IInv, TypeOK
  <1>1. TypeOK'
    BY <1>m, <1>b DEF IInv, revoke_write, FilesOK, TypeOK, call
  <1>2. TokenInv'
    <2>1. \A g \in Fingerprint : <<g, 0>> \in DOMAIN clients' => <<g, 0>> \in DOMAIN clients
      BY <1>a, <1>d, Apart
    <2> QED
      BY <2>1 DEF IInv, revoke_write, call, TokenInv, Busy, client_path
  <1>3. PublishedIsWhole'
    BY DEF IInv, revoke_write, call, Write, Tmp, PublishedIsWhole, StagedInv, RevokeInv, TypeOK, client_path, Path, ClientRecord
  <1>4. StagedInv'
    <2>1. ASSUME NEW s \in Fingerprint,
                 <<s, 0>> \notin DOMAIN clients, <<s, 1>> \in DOMAIN clients
          PROVE  /\ <<s, 0>> \notin DOMAIN clients'
                 /\ <<s, 1>> \in DOMAIN clients'
                 /\ clients[<<s, 1>>] # Torn => clients'[<<s, 1>>] # Torn
      <3>1. CASE k = 0
        BY <1>a, <1>d, <1>e, <2>1, <3>1, Apart
      <3>2. CASE k = 1
        BY <1>a, <1>e, <2>1, <3>2, Apart
      <3> QED
        BY <3>1, <3>2
    <2> QED
      BY <2>1, StagedKept DEF IInv, revoke_write, call
  <1>5. RevokeInv'
    BY DEF IInv, revoke_write, call, Write, Tmp, RevokeInv, StagedInv, DepthInv, TypeOK, Path, ClientRecord
  <1>6. DepthInv'
    BY DEF IInv, revoke_write, call, Write, Tmp, DepthInv, RevokeInv, StagedInv, TypeOK, Path, ClientRecord
  <1>7. BannedInv'
    BY <1>a, <1>b, <1>d, <1>k, EnrollmentAssumption DEF IInv, revoke_write, BannedInv
  <1> QED
    BY <1>1, <1>2, <1>3, <1>4, <1>5, <1>6, <1>7 DEF IInv

LEMMA revoke_rename_Preserves ==
    ASSUME IInv, revoke_rename PROVE IInv'
  <1> USE EnrollmentAssumption
  <1>b. PICK f \in Fingerprint, k \in {0, 1} : rev.path = <<f, k>>
    BY DEF revoke_rename, IInv, RevokeInv
  <1>c. Tmp(rev.path) = <<f, k + 1>>
    BY <1>b DEF Tmp
  <1>d. k = 0 => <<f, 0>> \in DOMAIN clients
    BY <1>b DEF revoke_rename, IInv, RevokeInv
  <1>k. /\ <<f, k>> \in Path /\ <<f, k + 1>> \in Path
        /\ \A g : <<g, 0>> # <<f, k + 1>>
    BY TmpPath
  <1>e. [name |-> rev.name, revoked |-> TRUE] \in ClientRecord
    BY DEF revoke_rename, IInv, RevokeInv, ClientRecord
  <1>f. clients[<<f, k + 1>>] = [name |-> rev.name, revoked |-> TRUE]
    BY <1>c DEF revoke_rename, IInv, RevokeInv
  <1>g. <<f, k + 1>> # <<f, k>>
    OBVIOUS
  <1>h. clients' = Rename(<<f, k + 1>>, <<f, k>>)
    BY <1>b, <1>c DEF revoke_rename
  <1>a. /\ DOMAIN clients' = (DOMAIN clients \ {<<f, k + 1>>}) \cup {<<f, k>>}
        /\ clients'[<<f, k>>] = [name |-> rev.name, revoked |-> TRUE]
        /\ \A q \in DOMAIN clients : q # <<f, k + 1>> /\ q # <<f, k>> => clients'[q] = clients[q]
    <2>1. /\ DOMAIN clients' = (DOMAIN clients \ {<<f, k + 1>>}) \cup {<<f, k>>}
          /\ clients'[<<f, k>>] = clients[<<f, k + 1>>]
          /\ \A q \in DOMAIN clients : q # <<f, k + 1>> /\ q # <<f, k>> => clients'[q] = clients[q]
      BY <1>g, <1>h, Renamed
    <2> QED
      BY <1>f, <2>1
  <1>j. rev.path[1] = f
    BY <1>b
  <1>m. FilesOK'
    BY <1>a, <1>e, <1>k DEF FilesOK, IInv, TypeOK
  <1>1. TypeOK'
    BY <1>m, <1>b, <1>j DEF IInv, revoke_rename, FilesOK, TypeOK, call
  <1>2. TokenInv'
    <2>1. \A g \in Fingerprint : <<g, 0>> \in DOMAIN clients' => <<g, 0>> \in DOMAIN clients
      BY <1>a, <1>d, Apart
    <2> QED
      BY <2>1 DEF IInv, revoke_rename, call, TokenInv, Busy, client_path
  <1>3. PublishedIsWhole'
    BY <1>a, <1>d, <1>e, Apart DEF IInv, PublishedIsWhole, client_path
  <1>4. StagedInv'
    <2>1. ASSUME NEW s \in Fingerprint,
                 <<s, 0>> \notin DOMAIN clients, <<s, 1>> \in DOMAIN clients
          PROVE  /\ <<s, 0>> \notin DOMAIN clients'
                 /\ <<s, 1>> \in DOMAIN clients'
                 /\ clients[<<s, 1>>] # Torn => clients'[<<s, 1>>] # Torn
      <3>1. CASE k = 0
        BY <1>a, <1>d, <1>e, <2>1, <3>1, Apart
      <3>2. CASE k = 1
        BY <1>a, <1>e, <2>1, <3>2, Apart
      <3> QED
        BY <3>1, <3>2
    <2> QED
      BY <2>1, StagedKept DEF IInv, revoke_rename, call
  <1>5. RevokeInv'
    BY DEF IInv, revoke_rename, call, Rename, Tmp, RevokeInv, StagedInv, DepthInv, TypeOK, Path, ClientRecord
  <1>6. DepthInv'
    BY DEF IInv, revoke_rename, call, Rename, Tmp, DepthInv, RevokeInv, StagedInv, TypeOK, Path, ClientRecord
  <1>7. BannedInv'
    <2> SUFFICES ASSUME NEW g \in banned
                 PROVE  <<g, 0>> \in DOMAIN clients' /\ clients'[<<g, 0>>].revoked
      BY DEF revoke_rename, BannedInv
    <2>1. <<g, 0>> \in DOMAIN clients /\ clients[<<g, 0>>].revoked /\ <<g, 0>> # <<f, k + 1>>
      BY <1>k DEF IInv, BannedInv
    <2>2. CASE <<g, 0>> = <<f, k>>
      BY <1>a, <2>2
    <2>3. CASE <<g, 0>> # <<f, k>>
      BY <1>a, <2>1, <2>3
    <2> QED
      BY <2>2, <2>3
  <1> QED
    BY <1>1, <1>2, <1>3, <1>4, <1>5, <1>6, <1>7 DEF IInv

LEMMA revoke_done_Preserves ==
    ASSUME IInv, revoke_done PROVE IInv'
  <1> USE EnrollmentAssumption DEF IInv, revoke_done, call, IdleRevoke
  <1>1. TypeOK'
    BY DEF TypeOK, Path, ClientRecord
  <1>2. TokenInv'
    BY DEF TokenInv, Busy, TypeOK, client_path, Path, ClientRecord
  <1>3. PublishedIsWhole'
    BY DEF PublishedIsWhole, StagedInv, RevokeInv, TypeOK, client_path, Path, ClientRecord
  <1>4. StagedInv'
    BY DEF StagedInv, RevokeInv, TypeOK, Path, ClientRecord
  <1>5. RevokeInv'
    BY DEF RevokeInv, StagedInv, DepthInv, TypeOK, Tmp, Path, ClientRecord
  <1>6. DepthInv'
    BY DEF DepthInv, RevokeInv, StagedInv, TypeOK, Path, ClientRecord
  <1>7. BannedInv'
    BY DEF BannedInv, RevokeInv, StagedInv, TypeOK, Path, ClientRecord
  <1> QED
    BY <1>1, <1>2, <1>3, <1>4, <1>5, <1>6, <1>7

LEMMA revoke_abort_Preserves ==
    ASSUME IInv, revoke_abort PROVE IInv'
  <1> USE EnrollmentAssumption DEF IInv, revoke_abort, call, IdleRevoke
  <1>1. TypeOK'
    BY DEF TypeOK, Path, ClientRecord
  <1>2. TokenInv'
    BY DEF TokenInv, Busy, TypeOK, client_path, Path, ClientRecord
  <1>3. PublishedIsWhole'
    BY DEF PublishedIsWhole, StagedInv, RevokeInv, TypeOK, client_path, Path, ClientRecord
  <1>4. StagedInv'
    BY DEF StagedInv, RevokeInv, TypeOK, Path, ClientRecord
  <1>5. RevokeInv'
    BY DEF RevokeInv, StagedInv, DepthInv, TypeOK, Tmp, Path, ClientRecord
  <1>6. DepthInv'
    BY DEF DepthInv, RevokeInv, StagedInv, TypeOK, Path, ClientRecord
  <1>7. BannedInv'
    BY DEF BannedInv, RevokeInv, StagedInv, TypeOK, Path, ClientRecord
  <1> QED
    BY <1>1, <1>2, <1>3, <1>4, <1>5, <1>6, <1>7

LEMMA authenticate_Preserves ==
    ASSUME NEW fp \in Fingerprint, IInv, authenticate(fp) PROVE IInv'
  <1> USE EnrollmentAssumption DEF IInv, authenticate, call
  <1>1. TypeOK'
    BY DEF TypeOK
  <1>2. TokenInv'
    BY DEF TokenInv, Busy, TypeOK, client_path
  <1>3. PublishedIsWhole'
    BY DEF PublishedIsWhole, StagedInv, RevokeInv, TypeOK, client_path
  <1>4. StagedInv'
    BY DEF StagedInv, RevokeInv, TypeOK
  <1>5. RevokeInv'
    BY DEF RevokeInv, StagedInv, DepthInv, TypeOK, Tmp
  <1>6. DepthInv'
    BY DEF DepthInv, RevokeInv, StagedInv, TypeOK
  <1>7. BannedInv'
    BY DEF BannedInv, RevokeInv, StagedInv, TypeOK
  <1> QED
    BY <1>1, <1>2, <1>3, <1>4, <1>5, <1>6, <1>7

LEMMA respond_Preserves ==
    ASSUME NEW fp \in Fingerprint, IInv, respond(fp) PROVE IInv'
  <1> USE EnrollmentAssumption DEF IInv, respond, call
  <1>1. TypeOK'
    BY DEF TypeOK
  <1>2. TokenInv'
    BY DEF TokenInv, Busy, TypeOK, client_path
  <1>3. PublishedIsWhole'
    BY DEF PublishedIsWhole, StagedInv, RevokeInv, TypeOK, client_path
  <1>4. StagedInv'
    BY DEF StagedInv, RevokeInv, TypeOK
  <1>5. RevokeInv'
    BY DEF RevokeInv, StagedInv, DepthInv, TypeOK, Tmp
  <1>6. DepthInv'
    BY DEF DepthInv, RevokeInv, StagedInv, TypeOK
  <1>7. BannedInv'
    BY DEF BannedInv, RevokeInv, StagedInv, TypeOK
  <1> QED
    BY <1>1, <1>2, <1>3, <1>4, <1>5, <1>6, <1>7

-----------------------------------------------------------------------------
LEMMA Invariance == Spec => []IInv
  <1>1. Init => IInv
    BY InitEstablishes
  <1>2. IInv /\ [Next]_vars => IInv'
    <2> SUFFICES ASSUME IInv, [Next]_vars PROVE IInv'
      OBVIOUS
    <2>1. CASE UNCHANGED vars
      BY <2>1 DEF vars, call, IInv, TypeOK, TokenInv, Busy, PublishedIsWhole, StagedInv,
         RevokeInv, DepthInv, BannedInv, Tmp, client_path
    <2>2. ASSUME NEW h \in Handler, EnrollStep(h) PROVE IInv'
      BY <2>2, enroll_Preserves, enroll_read_Preserves, enroll_read_error_Preserves,
         enroll_taken_Preserves, enroll_create_Preserves, enroll_write_Preserves,
         enroll_rename_Preserves, enroll_abort_Preserves DEF EnrollStep
    <2>3. CASE RevokeStep
      BY <2>3, revoke_Preserves, revoke_read_Preserves, revoke_read_error_Preserves,
         revoke_create_Preserves, revoke_write_Preserves, revoke_rename_Preserves,
         revoke_done_Preserves, revoke_abort_Preserves DEF RevokeStep
    <2>4. CASE Next
      BY <2>2, <2>3, <2>4, mint_token_Preserves, enroll_rejected_Preserves,
         authenticate_Preserves, respond_Preserves DEF Next
    <2> QED
      BY <2>1, <2>4
  <1> QED
    BY <1>1, <1>2, PTL DEF Spec

\* Type correctness; in particular revoke never stages beyond `.tmp-.tmp-'.
THEOREM TypeCorrect == Spec => []TypeOK
  <1>1. IInv => TypeOK
    BY DEF IInv
  <1> QED
    BY <1>1, Invariance, PTL

\* A token enrolls at most one client, whatever handlers, failures and
\* restarts come between consume_token and the rename of the record.
THEOREM TokensAreSpentOnce == Spec => []EachClientSpentItsToken
  <1>1. IInv => EachClientSpentItsToken
    BY DEF IInv, TokenInv, EachClientSpentItsToken
  <1> QED
    BY <1>1, Invariance, PTL

\* A client's own registry file is never half-written.
THEOREM PublishedRecordsAreWhole == Spec => []PublishedIsWhole
  <1>1. IInv => PublishedIsWhole
    BY DEF IInv
  <1> QED
    BY <1>1, Invariance, PTL

\* client_status of a client some revoke has returned for.
LEMMA BannedStatus == IInv => RevokedStaysRevoked
  <1> SUFFICES ASSUME IInv, NEW fp \in banned PROVE client_status(fp) = "Revoked"
    BY DEF RevokedStaysRevoked
  <1>1. /\ fp \in Fingerprint
        /\ client_path(fp) \in DOMAIN clients /\ clients[client_path(fp)].revoked
    BY DEF IInv, TypeOK, BannedInv, client_path
  <1>2. Parses(client_path(fp))
    BY <1>1 DEF IInv, PublishedIsWhole, Parses
  <1> QED
    BY <1>1, <1>2 DEF client_status

\* revoke covers every client enrolled under the name before it began, and
\* nothing undoes it.
THEOREM RevocationIsFinal == Spec => []RevokedStaysRevoked
  BY BannedStatus, Invariance, PTL

\* No RPC of such a client passes authenticate any more.
THEOREM RevokedAreRefused == Spec => NoServiceAfterRevocation
  <1>1. IInv /\ [Next]_vars => [serving' \cap banned \subseteq serving]_vars
    <2> SUFFICES ASSUME IInv, Next PROVE serving' \cap banned \subseteq serving
      OBVIOUS
    <2>1. ASSUME NEW fp \in Fingerprint, authenticate(fp) PROVE fp \notin banned
      BY <2>1, BannedStatus DEF authenticate, Admitted, RevokedStaysRevoked
    <2>2. ASSUME NEW fp \in Fingerprint, authenticate(fp)
          PROVE  serving' \cap banned \subseteq serving
      BY <2>1, <2>2 DEF authenticate
    <2>3. ASSUME NEW h \in Handler, EnrollStep(h) PROVE serving' = serving
      BY <2>3 DEF EnrollStep, enroll, enroll_read, enroll_read_error, enroll_taken,
         enroll_create, enroll_write, enroll_rename, enroll_abort
    <2>4. CASE RevokeStep
      BY <2>4 DEF RevokeStep, revoke, revoke_read, revoke_read_error, revoke_create,
         revoke_write, revoke_rename, revoke_done, revoke_abort
    <2> QED
      BY <2>2, <2>3, <2>4 DEF Next, mint_token, enroll_rejected, respond
  <1> QED
    BY <1>1, Invariance, PTL DEF Spec, NoServiceAfterRevocation
=============================================================================
