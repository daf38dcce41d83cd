-------------------------- MODULE BootstrapProofs ---------------------------
(***************************************************************************)
(* When no two commands bootstrap at once, open_or_init hands out one CA   *)
(* for ever and a coherent identity, however often it is interrupted.      *)
(***************************************************************************)
EXTENDS Bootstrap, TLAPS

\* The stages, the certificates and the memories that hold them.
ServerCert == [own: Generation, issuer: Generation]
PcName == {"stopped", "probe_ca", "load_ca_key", "write_ca_cert", "write_ca_key",
           "probe_server", "load_server_key", "write_server_cert",
           "write_server_key", "open"}
MemType ==
    /\ pc \in [Process -> PcName]
    /\ mem_ca \in [Process -> Generation \cup {None}]
    /\ mem_ca_key \in [Process -> Generation \cup {None}]
    /\ mem_server \in [Process -> ServerCert \cup {None}]
    /\ mem_server_key \in [Process -> Generation \cup {None}]

\* The key is the commit record of a pair: it is written after the
\* certificate, so once it is there the pair is complete and is never written
\* again.  A certificate alone may belong to an interrupted attempt.
DiskInv ==
    /\ ca_cert \in Generation \cup {None}
    /\ ca_key \in Generation \cup {None}
    /\ server_cert \in ServerCert \cup {None}
    /\ server_key \in Generation \cup {None}
    /\ ca_key # None => ca_cert = ca_key
    /\ server_key # None => /\ ca_key # None
                            /\ server_cert = [own |-> server_key, issuer |-> ca_key]
    /\ handed \subseteq {ca_cert}
    /\ handed # {} => ca_key # None

\* What a command has in memory agrees with the disk, stage by stage.
MemoryInv(p) ==
    /\ pc[p] = "load_ca_key" => ca_key # None /\ mem_ca[p] = ca_cert
    /\ pc[p] \in {"write_ca_cert", "write_ca_key"} =>
          ca_key = None /\ mem_ca_key[p] \in Generation /\ mem_ca[p] = mem_ca_key[p]
    /\ pc[p] = "write_ca_key" => ca_cert = mem_ca[p]
    /\ pc[p] \in {"probe_server", "load_server_key", "write_server_cert",
                  "write_server_key", "open"} =>
          ca_key # None /\ mem_ca[p] = ca_cert /\ mem_ca_key[p] = ca_key
    /\ pc[p] \in {"load_server_key", "open"} =>
          server_key # None /\ mem_server[p] = server_cert
    /\ pc[p] \in {"write_server_cert", "write_server_key"} =>
          /\ server_key = None
          /\ mem_server_key[p] \in Generation
          /\ mem_server[p] = [own |-> mem_server_key[p], issuer |-> ca_key]
    /\ pc[p] = "write_server_key" => server_cert = mem_server[p]
    /\ pc[p] = "open" => mem_server_key[p] = server_key

\* At most one command is between start and open.
OneAtATime ==
    \A p, q \in Process : Bootstrapping(p) /\ Bootstrapping(q) => p = q

IInv == MemType /\ DiskInv /\ OneAtATime /\ \A p \in Process : MemoryInv(p)

-----------------------------------------------------------------------------
LEMMA InitEstablishes == Init => IInv
  BY DEF Init, IInv, MemType, PcName, DiskInv, OneAtATime, MemoryInv, Bootstrapping

\* A certificate with an owner and an issuer is not a missing file.
LEMMA ServerCertExists ==
    \A g, c \in Generation : [own |-> g, issuer |-> c] # None
  <1> SUFFICES ASSUME NEW g \in Generation, NEW c \in Generation
               PROVE  [own |-> g, issuer |-> c] # None
    OBVIOUS
  <1>1. [own |-> g, issuer |-> c] \in [own: Generation, issuer: Generation]
    OBVIOUS
  <1> QED
    BY <1>1, BootstrapAssumption

\* Every stage of open_or_init, and stop, keeps the invariant: a pair is
\* written only while its key is missing, and then no command that is past
\* the pair exists.
LEMMA StepPreserves ==
    ASSUME ~Overlap, IInv, NEW p \in Process, Step(p) PROVE IInv'
  <1>0. /\ MemType /\ DiskInv /\ OneAtATime
        /\ \A q \in Process : MemoryInv(q)
    BY DEF IInv
  <1>1. CASE start(p)
    <2>1. MemType'
      BY <1>0, <1>1 DEF start, Goto, files, mem, MemType, PcName, DiskInv
    <2>2. DiskInv'
      BY <1>0, <1>1, BootstrapAssumption DEF start, Goto, files, mem, DiskInv, MemoryInv, MemType
    <2>3. OneAtATime'
      BY <1>0, <1>1 DEF start, Goto, OneAtATime, Bootstrapping, MemType
    <2>4. ASSUME NEW q \in Process PROVE MemoryInv(q)'
      <3>1. CASE q = p
        BY <1>0, <1>1, <3>1, BootstrapAssumption DEF start, Goto, files, mem, DiskInv, MemoryInv, MemType
      <3>2. CASE q # p
        BY <1>0, <1>1, <3>2, BootstrapAssumption DEF start, Goto, files, mem, DiskInv, MemoryInv, MemType,
           OneAtATime, Bootstrapping
      <3> QED
        BY <3>1, <3>2
    <2> QED
      BY <2>1, <2>2, <2>3, <2>4 DEF IInv
  <1>2. CASE stop(p)
    <2>1. MemType'
      BY <1>0, <1>2 DEF stop, Goto, files, mem, MemType, PcName, DiskInv
    <2>2. DiskInv'
      BY <1>0, <1>2, BootstrapAssumption DEF stop, Goto, files, mem, DiskInv, MemoryInv, MemType
    <2>3. OneAtATime'
      BY <1>0, <1>2 DEF stop, Goto, OneAtATime, Bootstrapping, MemType
    <2>4. ASSUME NEW q \in Process PROVE MemoryInv(q)'
      <3>1. CASE q = p
        BY <1>0, <1>2, <3>1, BootstrapAssumption DEF stop, Goto, files, mem, DiskInv, MemoryInv, MemType
      <3>2. CASE q # p
        BY <1>0, <1>2, <3>2, BootstrapAssumption DEF stop, Goto, files, mem, DiskInv, MemoryInv, MemType,
           OneAtATime, Bootstrapping
      <3> QED
        BY <3>1, <3>2
    <2> QED
      BY <2>1, <2>2, <2>3, <2>4 DEF IInv
  <1>3. CASE load_ca_cert(p)
    <2>1. MemType'
      BY <1>0, <1>3 DEF load_ca_cert, HaveCa, Goto, files, mem, MemType, PcName, DiskInv
    <2>2. DiskInv'
      BY <1>0, <1>3, BootstrapAssumption DEF load_ca_cert, HaveCa, Goto, files, mem, DiskInv, MemoryInv, MemType
    <2>3. OneAtATime'
      BY <1>0, <1>3 DEF load_ca_cert, HaveCa, Goto, OneAtATime, Bootstrapping, MemType
    <2>4. ASSUME NEW q \in Process PROVE MemoryInv(q)'
      <3>1. CASE q = p
        BY <1>0, <1>3, <3>1, BootstrapAssumption DEF load_ca_cert, HaveCa, Goto, files, mem, DiskInv, MemoryInv, MemType
      <3>2. CASE q # p
        BY <1>0, <1>3, <3>2, BootstrapAssumption DEF load_ca_cert, HaveCa, Goto, files, mem, DiskInv, MemoryInv, MemType,
           OneAtATime, Bootstrapping
      <3> QED
        BY <3>1, <3>2
    <2> QED
      BY <2>1, <2>2, <2>3, <2>4 DEF IInv
  <1>4. CASE load_ca_key(p)
    <2>1. MemType'
      BY <1>0, <1>4 DEF load_ca_key, Goto, files, mem, MemType, PcName, DiskInv
    <2>2. DiskInv'
      BY <1>0, <1>4, BootstrapAssumption DEF load_ca_key, Goto, files, mem, DiskInv, MemoryInv, MemType
    <2>3. OneAtATime'
      BY <1>0, <1>4 DEF load_ca_key, Goto, OneAtATime, Bootstrapping, MemType
    <2>4. ASSUME NEW q \in Process PROVE MemoryInv(q)'
      <3>1. CASE q = p
        BY <1>0, <1>4, <3>1, BootstrapAssumption DEF load_ca_key, Goto, files, mem, DiskInv, MemoryInv, MemType
      <3>2. CASE q # p
        BY <1>0, <1>4, <3>2, BootstrapAssumption DEF load_ca_key, Goto, files, mem, DiskInv, MemoryInv, MemType,
           OneAtATime, Bootstrapping
      <3> QED
        BY <3>1, <3>2
    <2> QED
      BY <2>1, <2>2, <2>3, <2>4 DEF IInv
  <1>5. ASSUME NEW g \in Generation, generate_ca(p, g) PROVE IInv'
    <2>1. MemType'
      BY <1>0, <1>5 DEF generate_ca, HaveCa, Goto, files, mem, MemType, PcName, DiskInv
    <2>2. DiskInv'
      BY <1>0, <1>5, BootstrapAssumption DEF generate_ca, HaveCa, Goto, files, mem, DiskInv, MemoryInv, MemType
    <2>3. OneAtATime'
      BY <1>0, <1>5 DEF generate_ca, HaveCa, Goto, OneAtATime, Bootstrapping, MemType
    <2>4. ASSUME NEW q \in Process PROVE MemoryInv(q)'
      <3>1. CASE q = p
        BY <1>0, <1>5, <3>1, BootstrapAssumption DEF generate_ca, HaveCa, Goto, files, mem, DiskInv, MemoryInv, MemType
      <3>2. CASE q # p
        BY <1>0, <1>5, <3>2, BootstrapAssumption DEF generate_ca, HaveCa, Goto, files, mem, DiskInv, MemoryInv, MemType,
           OneAtATime, Bootstrapping
      <3> QED
        BY <3>1, <3>2
    <2> QED
      BY <2>1, <2>2, <2>3, <2>4 DEF IInv
  <1>6. ASSUME NEW g \in Generation, generate_server(p, g) PROVE IInv'
    <2>0. server_key = None /\ mem_ca_key[p] \in Generation
      BY <1>0, <1>6, ServerCertExists, BootstrapAssumption
      DEF generate_server, HaveServer, Goto, DiskInv, MemoryInv
    <2>t. [own |-> g, issuer |-> mem_ca_key[p]] \in ServerCert
      BY <2>0 DEF ServerCert
    <2>1. MemType'
      BY <1>0, <1>6, <2>0, <2>t DEF generate_server, HaveServer, Goto, files, mem, MemType, PcName, DiskInv
    <2>2. DiskInv'
      BY <1>0, <1>6, <2>0, <2>t, BootstrapAssumption DEF generate_server, HaveServer, Goto, files, mem, DiskInv, MemoryInv, MemType
    <2>3. OneAtATime'
      BY <1>0, <1>6, <2>0, <2>t DEF generate_server, HaveServer, Goto, OneAtATime, Bootstrapping, MemType
    <2>4. ASSUME NEW q \in Process PROVE MemoryInv(q)'
      <3>1. CASE q = p
        BY <1>0, <1>6, <2>0, <2>t, <3>1, BootstrapAssumption DEF generate_server, HaveServer, Goto, files, mem, DiskInv, MemoryInv, MemType
      <3>2. CASE q # p
        BY <1>0, <1>6, <2>0, <2>t, <3>2, BootstrapAssumption DEF generate_server, HaveServer, Goto, files, mem, DiskInv, MemoryInv, MemType,
           OneAtATime, Bootstrapping
      <3> QED
        BY <3>1, <3>2
    <2> QED
      BY <2>1, <2>2, <2>3, <2>4 DEF IInv
  <1>7. CASE write_ca_cert(p)
    <2>1. MemType'
      BY <1>0, <1>7 DEF write_ca_cert, Goto, files, mem, MemType, PcName, DiskInv
    <2>2. DiskInv'
      BY <1>0, <1>7, BootstrapAssumption DEF write_ca_cert, Goto, files, mem, DiskInv, MemoryInv, MemType
    <2>3. OneAtATime'
      BY <1>0, <1>7 DEF write_ca_cert, Goto, OneAtATime, Bootstrapping, MemType
    <2>4. ASSUME NEW q \in Process PROVE MemoryInv(q)'
      <3>1. CASE q = p
        BY <1>0, <1>7, <3>1, BootstrapAssumption DEF write_ca_cert, Goto, files, mem, DiskInv, MemoryInv, MemType
      <3>2. CASE q # p
        BY <1>0, <1>7, <3>2, BootstrapAssumption DEF write_ca_cert, Goto, files, mem, DiskInv, MemoryInv, MemType,
           OneAtATime, Bootstrapping
      <3> QED
        BY <3>1, <3>2
    <2> QED
      BY <2>1, <2>2, <2>3, <2>4 DEF IInv
  <1>8. CASE write_ca_key(p)
    <2>1. MemType'
      BY <1>0, <1>8 DEF write_ca_key, Goto, files, mem, MemType, PcName, DiskInv
    <2>2. DiskInv'
      BY <1>0, <1>8, BootstrapAssumption DEF write_ca_key, Goto, files, mem, DiskInv, MemoryInv, MemType
    <2>3. OneAtATime'
      BY <1>0, <1>8 DEF write_ca_key, Goto, OneAtATime, Bootstrapping, MemType
    <2>4. ASSUME NEW q \in Process PROVE MemoryInv(q)'
      <3>1. CASE q = p
        BY <1>0, <1>8, <3>1, BootstrapAssumption DEF write_ca_key, Goto, files, mem, DiskInv, MemoryInv, MemType
      <3>2. CASE q # p
        BY <1>0, <1>8, <3>2, BootstrapAssumption DEF write_ca_key, Goto, files, mem, DiskInv, MemoryInv, MemType,
           OneAtATime, Bootstrapping
      <3> QED
        BY <3>1, <3>2
    <2> QED
      BY <2>1, <2>2, <2>3, <2>4 DEF IInv
  <1>9. CASE load_server_cert(p)
    <2>1. MemType'
      BY <1>0, <1>9 DEF load_server_cert, HaveServer, Goto, files, mem, MemType, PcName, DiskInv
    <2>2. DiskInv'
      BY <1>0, <1>9, BootstrapAssumption DEF load_server_cert, HaveServer, Goto, files, mem, DiskInv, MemoryInv, MemType
    <2>3. OneAtATime'
      BY <1>0, <1>9 DEF load_server_cert, HaveServer, Goto, OneAtATime, Bootstrapping, MemType
    <2>4. ASSUME NEW q \in Process PROVE MemoryInv(q)'
      <3>1. CASE q = p
        BY <1>0, <1>9, <3>1, BootstrapAssumption DEF load_server_cert, HaveServer, Goto, files, mem, DiskInv, MemoryInv, MemType
      <3>2. CASE q # p
        BY <1>0, <1>9, <3>2, BootstrapAssumption DEF load_server_cert, HaveServer, Goto, files, mem, DiskInv, MemoryInv, MemType,
           OneAtATime, Bootstrapping
      <3> QED
        BY <3>1, <3>2
    <2> QED
      BY <2>1, <2>2, <2>3, <2>4 DEF IInv
  <1>10. CASE load_server_key(p)
    <2>1. MemType'
      BY <1>0, <1>10 DEF load_server_key, Goto, files, mem, MemType, PcName, DiskInv
    <2>2. DiskInv'
      BY <1>0, <1>10, BootstrapAssumption DEF load_server_key, Goto, files, mem, DiskInv, MemoryInv, MemType
    <2>3. OneAtATime'
      BY <1>0, <1>10 DEF load_server_key, Goto, OneAtATime, Bootstrapping, MemType
    <2>4. ASSUME NEW q \in Process PROVE MemoryInv(q)'
      <3>1. CASE q = p
        BY <1>0, <1>10, <3>1, BootstrapAssumption DEF load_server_key, Goto, files, mem, DiskInv, MemoryInv, MemType
      <3>2. CASE q # p
        BY <1>0, <1>10, <3>2, BootstrapAssumption DEF load_server_key, Goto, files, mem, DiskInv, MemoryInv, MemType,
           OneAtATime, Bootstrapping
      <3> QED
        BY <3>1, <3>2
    <2> QED
      BY <2>1, <2>2, <2>3, <2>4 DEF IInv
  <1>11. CASE write_server_cert(p)
    <2>1. MemType'
      BY <1>0, <1>11 DEF write_server_cert, Goto, files, mem, MemType, PcName, DiskInv
    <2>2. DiskInv'
      BY <1>0, <1>11, BootstrapAssumption DEF write_server_cert, Goto, files, mem, DiskInv, MemoryInv, MemType
    <2>3. OneAtATime'
      BY <1>0, <1>11 DEF write_server_cert, Goto, OneAtATime, Bootstrapping, MemType
    <2>4. ASSUME NEW q \in Process PROVE MemoryInv(q)'
      <3>1. CASE q = p
        BY <1>0, <1>11, <3>1, BootstrapAssumption DEF write_server_cert, Goto, files, mem, DiskInv, MemoryInv, MemType
      <3>2. CASE q # p
        BY <1>0, <1>11, <3>2, BootstrapAssumption DEF write_server_cert, Goto, files, mem, DiskInv, MemoryInv, MemType,
           OneAtATime, Bootstrapping
      <3> QED
        BY <3>1, <3>2
    <2> QED
      BY <2>1, <2>2, <2>3, <2>4 DEF IInv
  <1>12. CASE write_server_key(p)
    <2>1. MemType'
      BY <1>0, <1>12 DEF write_server_key, Goto, files, mem, MemType, PcName, DiskInv
    <2>2. DiskInv'
      BY <1>0, <1>12, BootstrapAssumption DEF write_server_key, Goto, files, mem, DiskInv, MemoryInv, MemType
    <2>3. OneAtATime'
      BY <1>0, <1>12 DEF write_server_key, Goto, OneAtATime, Bootstrapping, MemType
    <2>4. ASSUME NEW q \in Process PROVE MemoryInv(q)'
      <3>1. CASE q = p
        BY <1>0, <1>12, <3>1, BootstrapAssumption DEF write_server_key, Goto, files, mem, DiskInv, MemoryInv, MemType
      <3>2. CASE q # p
        BY <1>0, <1>12, <3>2, BootstrapAssumption DEF write_server_key, Goto, files, mem, DiskInv, MemoryInv, MemType,
           OneAtATime, Bootstrapping
      <3> QED
        BY <3>1, <3>2
    <2> QED
      BY <2>1, <2>2, <2>3, <2>4 DEF IInv
  <1> QED
    BY <1>1, <1>2, <1>3, <1>4, <1>5, <1>6, <1>7, <1>8, <1>9, <1>10, <1>11, <1>12 DEF Step

LEMMA InvHolds ==
    ASSUME ~Overlap PROVE Spec => []IInv
  <1>1. Init => IInv
    BY InitEstablishes
  <1>2. IInv /\ [Next]_vars => IInv'
    <2> SUFFICES ASSUME IInv, [Next]_vars PROVE IInv'
      OBVIOUS
    <2>1. CASE UNCHANGED vars
      BY <2>1 DEF vars, files, mem, IInv, MemType, DiskInv, MemoryInv, OneAtATime,
         Bootstrapping
    <2>2. CASE Next
      BY <2>2, StepPreserves DEF Next
    <2> QED
      BY <2>1, <2>2
  <1> QED
    BY <1>1, <1>2, PTL DEF Spec

\* open_or_init returns one CA certificate for ever, for any number of commands
\* and restarts, provided no two commands bootstrap at once.
THEOREM CASurvivesRestarts ==
    ASSUME ~Overlap PROVE Spec => []CASurvives
  <1>1. IInv => CASurvives
    BY DEF IInv, DiskInv, CASurvives
  <1>2. Spec => []IInv
    BY InvHolds
  <1> QED
    BY <1>1, <1>2, PTL

\* A command that has opened the identity holds matching pairs, and a server
\* certificate that verifies against the CA its clients pin: whatever attempt
\* before it stopped between two files (open_or_init).
THEOREM IdentityStaysCoherent ==
    ASSUME ~Overlap PROVE Spec => []IdentityCoherent
  <1>1. IInv => IdentityCoherent
    BY BootstrapAssumption DEF IInv, MemType, DiskInv, MemoryInv, IdentityCoherent
  <1>2. Spec => []IInv
    BY InvHolds
  <1> QED
    BY <1>1, <1>2, PTL
=============================================================================
