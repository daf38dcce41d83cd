-------------------------- MODULE ClientKeysProofs --------------------------
(***************************************************************************)
(* The client's key material survives every sequence of commands, and a    *)
(* command that reports success has done all of its work, for any number   *)
(* of backup slots, keyfiles, passphrases and enrolments.                  *)
(***************************************************************************)
EXTENDS ClientKeys, WellFoundedInduction, TLAPS

Files == {"client-key.pem", "client-cert.pem", "ca-cert.pem", "enrollment-name",
          "data.key", "chunk-id.key"}

TwoKeys == Int \X Int

KeysType ==
    /\ dir \in [Files -> Int]
    /\ old \in [1 .. MAX_KEY_BACKUPS -> [Existing -> Int]]
    /\ DOMAIN keyfile = Paths
    /\ \A p \in Paths : keyfile[p].pair \in TwoKeys
    /\ DOMAIN cmd = {"op", "pc", "pair", "slot"}
    /\ cmd.op \in {"none", "enroll", "enrolled", "exported", "import", "imported"}
    /\ cmd.pc \in 0 .. 6 /\ cmd.pair \in TwoKeys
    /\ cmd.pc # 0 <=> cmd.op \in {"enroll", "import"}
    /\ cmd.op = "import" => cmd.pc <= 5
    /\ born \in Nat

\* An enrolment under way has written the files before the one it is at, and
\* has made sure of the keys before the one it is at.
EnrollInv ==
    cmd.op = "enroll" =>
        /\ born > 0
        /\ \A i \in 1 .. 4 : i < cmd.pc => dir[EnrollFiles[i]] = born
        /\ cmd.pc = 6 => dir["data.key"] \notin {ABSENT, MALFORMED}

\* An import under way overwrites nothing: what it has still to move goes to a
\* slot that is empty, and where it has still to write there is no file.
ImportInv ==
    cmd.op = "import" =>
        /\ cmd.pc \in {2, 3} => cmd.slot \in 1 .. MAX_KEY_BACKUPS
        /\ cmd.pc = 2 => old[cmd.slot]["data.key"] = ABSENT
        /\ cmd.pc \in {2, 3} => old[cmd.slot]["chunk-id.key"] = ABSENT
        /\ cmd.pc \in {3, 4} => dir["data.key"] = ABSENT
        /\ cmd.pc \in {4, 5} => dir["chunk-id.key"] = ABSENT
        /\ cmd.pc = 5 => dir["data.key"] = cmd.pair[1]

IInv == KeysType /\ EnrollInv /\ ImportInv /\ SuccessIsWhole

-----------------------------------------------------------------------------
LEMMA FileNames ==
    /\ EnrollFiles[1] = "client-key.pem" /\ EnrollFiles[2] = "client-cert.pem"
    /\ EnrollFiles[3] = "ca-cert.pem" /\ EnrollFiles[4] = "enrollment-name"
    /\ EnrollFiles[5] = "data.key" /\ EnrollFiles[6] = "chunk-id.key"
    /\ {EnrollFiles[i] : i \in DOMAIN EnrollFiles} = Files
  BY DEF EnrollFiles, Files

\* A set of naturals that is not empty has a least element, which Min picks.
LEMMA MinIsLeast ==
    ASSUME NEW S \in SUBSET Nat, S # {}
    PROVE  Min(S) \in S /\ \A y \in S : Min(S) <= y
<1> DEFINE R == {p \in Nat \X Nat : p[1] < p[2]}
<1>1. IsWellFoundedOn(R, Nat)
  BY NatLessThanWellFounded DEF OpToRel
<1> HIDE DEF R
<1>2. PICK x \in S : \A y \in S : ~ (<<y, x>> \in R)
  BY <1>1, WFMin
<1>3. ASSUME NEW y \in S, ~ (x <= y) PROVE FALSE
  <2>1. x \in Nat /\ y \in Nat /\ y < x
    BY <1>3
  <2>2. <<y, x>> \in R
    BY <2>1 DEF R
  <2> QED
    BY <1>2, <2>2
<1> QED
  BY <1>3 DEF Min

LEMMA FreeSlot ==
    ASSUME KeysType, free_slots # {}
    PROVE  /\ Min(free_slots) \in 1 .. MAX_KEY_BACKUPS
           /\ \A f \in Existing : old[Min(free_slots)][f] = ABSENT
<1>1. free_slots \in SUBSET Nat
  BY KeyfileAssumption DEF free_slots, KeysType
<1>2. Min(free_slots) \in free_slots
  BY <1>1, MinIsLeast
<1> QED
  BY <1>2 DEF free_slots, KeysType

LEMMA InitInv == Init => IInv
<1> SUFFICES ASSUME Init PROVE IInv
  OBVIOUS
<1>1. KeysType
  <2>1. dir \in [Files -> Int]
    BY FileNames DEF Init, ABSENT, MALFORMED
  <2>2. old \in [1 .. MAX_KEY_BACKUPS -> [Existing -> Int]]
    BY DEF Init, ABSENT
  <2>3. DOMAIN keyfile = Paths /\ \A p \in Paths : keyfile[p].pair \in TwoKeys
    <3>1. PICK f \in Foreign : keyfile = [p \in Paths |-> IF p = 1 THEN f ELSE NoFile]
      BY DEF Init
    <3>2. f.pair \in TwoKeys /\ NoFile.pair \in TwoKeys
      BY KeyfileAssumption DEF NoFile, ABSENT, TwoKeys
    <3> QED
      BY <3>1, <3>2
  <2>4. cmd = [op |-> "none", pc |-> 0, pair |-> <<0, 0>>, slot |-> 0] /\ born = 0
    BY DEF Init, Idle, Command, ABSENT
  <2> QED
    BY <2>1, <2>2, <2>3, <2>4 DEF KeysType, TwoKeys
<1>2. EnrollInv /\ ImportInv /\ SuccessIsWhole
  BY DEF Init, EnrollInv, ImportInv, SuccessIsWhole, Idle, Command
<1> QED
  BY <1>1, <1>2 DEF IInv
-----------------------------------------------------------------------------
LEMMA NextInv == IInv /\ [Next]_vars => IInv'
<1> SUFFICES ASSUME IInv, [Next]_vars PROVE IInv'
  OBVIOUS
<1> USE DEF IInv
<1>1. CASE request_enrollment
  <2>1. cmd' = [op |-> "enroll", pc |-> 1, pair |-> <<0, 0>>, slot |-> 0]
    BY <1>1 DEF request_enrollment, Command, ABSENT
  <2>2. KeysType'
    BY <1>1, <2>1 DEF KeysType, request_enrollment, TwoKeys
  <2>3. EnrollInv' /\ ImportInv' /\ SuccessIsWhole'
    BY <1>1, <2>1 DEF KeysType, request_enrollment, EnrollInv, ImportInv, SuccessIsWhole
  <2> QED
    BY <2>2, <2>3
<1>2. CASE save_identity
  <2>1. EnrollFiles[cmd.pc] \in Files \ Existing
    BY <1>2, FileNames DEF save_identity, Files, Existing
  <2>2. /\ cmd'.pc = cmd.pc + 1 /\ cmd'.op = "enroll" /\ cmd'.pair = cmd.pair /\ cmd'.slot = cmd.slot
        /\ DOMAIN cmd' = DOMAIN cmd
    BY <1>2 DEF save_identity, KeysType
  <2>3. KeysType'
    BY <1>2, <2>1, <2>2 DEF KeysType, save_identity
  <2>4. \A i \in 1 .. 4 : EnrollFiles[i] = EnrollFiles[cmd.pc] => i = cmd.pc
    BY <1>2, FileNames DEF save_identity
  <2>5. EnrollInv'
    <3>1. /\ dir'[EnrollFiles[cmd.pc]] = born
          /\ \A i \in 1 .. 4 : i # cmd.pc => dir'[EnrollFiles[i]] = dir[EnrollFiles[i]]
      BY <1>2, <2>1, <2>4, FileNames DEF KeysType, save_identity, Files
    <3>2. \A i \in 1 .. 4 : i < cmd.pc + 1 => dir'[EnrollFiles[i]] = born
      BY <1>2, <3>1 DEF KeysType, save_identity, EnrollInv
    <3> QED
      BY <1>2, <2>2, <3>2 DEF save_identity, EnrollInv
  <2> QED
    BY <2>2, <2>3, <2>5 DEF ImportInv, SuccessIsWhole
<1>3. CASE ensure_key_file
  <2> DEFINE f == EnrollFiles[cmd.pc]
  <2>1. f \in Existing /\ f \in Files /\ (cmd.pc = 5 => f = "data.key") /\ (cmd.pc = 6 => f = "chunk-id.key")
    BY <1>3, FileNames DEF ensure_key_file, Files, Existing
  <2> HIDE DEF f
  <2>2. /\ dir' = IF dir[f] = ABSENT THEN [dir EXCEPT ![f] = born] ELSE dir
        /\ cmd' = IF dir[f] = MALFORMED THEN Idle
                  ELSE IF cmd.pc = 6 THEN Command("enrolled", 0) ELSE [cmd EXCEPT !.pc = 6]
        /\ cmd.op = "enroll" /\ cmd.pc \in 5 .. 6 /\ UNCHANGED <<old, keyfile, born>>
    BY <1>3 DEF ensure_key_file, f
  <2>3. dir' \in [Files -> Int]
    BY <2>1, <2>2 DEF KeysType
  <2>4. \A i \in 1 .. 4 : dir'[EnrollFiles[i]] = dir[EnrollFiles[i]]
    BY <2>1, <2>2, FileNames DEF KeysType, Existing, Files
  <2>5. CASE dir[f] = MALFORMED
    <3>1. cmd' = [op |-> "none", pc |-> 0, pair |-> <<0, 0>>, slot |-> 0]
      BY <2>2, <2>5 DEF Idle, Command, ABSENT
    <3> QED
      BY <2>2, <2>3, <3>1 DEF KeysType, TwoKeys, EnrollInv, ImportInv, SuccessIsWhole
  <2>6. CASE dir[f] # MALFORMED /\ cmd.pc = 6
    <3>1. cmd' = [op |-> "enrolled", pc |-> 0, pair |-> <<0, 0>>, slot |-> 0]
      BY <2>2, <2>6 DEF Command, ABSENT
    <3>2. KeysType'
      BY <2>2, <2>3, <3>1 DEF KeysType, TwoKeys
    <3>3. \A g \in Existing : dir'[g] \notin {ABSENT, MALFORMED}
      BY <2>1, <2>2, <2>6 DEF KeysType, EnrollInv, Existing, Files, ABSENT, MALFORMED
    <3>4. \A i \in 1 .. 4 : dir'[EnrollFiles[i]] = born'
      BY <2>2, <2>4, <2>6 DEF EnrollInv
    <3> QED
      BY <3>1, <3>2, <3>3, <3>4 DEF EnrollInv, ImportInv, SuccessIsWhole
  <2>7. CASE dir[f] # MALFORMED /\ cmd.pc # 6
    <3>1. /\ cmd' = [cmd EXCEPT !.pc = 6]
          /\ cmd.pc = 5 /\ f = "data.key"
      BY <2>1, <2>2, <2>7
    <3>2. cmd'.op = "enroll" /\ cmd'.pc = 6
      BY <2>2, <3>1 DEF KeysType
    <3>3. KeysType'
      BY <2>2, <2>3, <3>1, <3>2 DEF KeysType
    <3>4. dir'["data.key"] \notin {ABSENT, MALFORMED}
      BY <2>1, <2>2, <2>7, <3>1 DEF KeysType, EnrollInv, ABSENT, MALFORMED
    <3>5. \A i \in 1 .. 4 : dir'[EnrollFiles[i]] = born'
      BY <2>2, <2>4, <3>1 DEF EnrollInv
    <3> QED
      BY <2>2, <3>2, <3>3, <3>4, <3>5 DEF EnrollInv, ImportInv, SuccessIsWhole
  <2> QED
    BY <2>5, <2>6, <2>7
<1>4. ASSUME NEW path \in Paths, NEW given \in Passphrases, export_key(path, given)
      PROVE  IInv'
  <2>1. cmd' = [op |-> "exported", pc |-> 0, pair |-> <<0, 0>>, slot |-> path]
    BY <1>4 DEF export_key, Command, ABSENT
  <2>2. Pair \in TwoKeys
    BY DEF Pair, KeysType, Files, TwoKeys
  <2>3. /\ keyfile' = [keyfile EXCEPT ![path] = [version |-> 2, pass |-> given.text, pair |-> Pair]]
        /\ UNCHANGED <<dir, old, born>>
    BY <1>4 DEF export_key, export_keyfile
  <2>4. KeysType'
    BY <2>1, <2>2, <2>3 DEF KeysType, TwoKeys
  <2>5. keyfile'[path] = [version |-> 2, pass |-> given.text, pair |-> Pair] /\ Pair' = Pair
    BY <2>3 DEF KeysType, Pair
  <2>6. SuccessIsWhole'
    BY <2>1, <2>5 DEF SuccessIsWhole, import_keyfile
  <2> QED
    BY <2>1, <2>4, <2>6 DEF EnrollInv, ImportInv
<1>5. ASSUME NEW path \in Paths, NEW given \in Passphrases, import_key(path, given)
      PROVE  IInv'
  <2> DEFINE pair == keyfile[path].pair
  <2>1. pair \in TwoKeys
    BY DEF KeysType
  <2>2. /\ UNCHANGED <<dir, old, keyfile, born>>
        /\ cmd' = IF Pair = pair THEN [Command("imported", 0) EXCEPT !.pair = pair]
                  ELSE [Command("import", IF Pair = <<ABSENT, ABSENT>> THEN 4 ELSE 1) EXCEPT !.pair = pair]
    BY <1>5 DEF import_key, both_current
  <2> HIDE DEF pair
  <2>3. CASE Pair = pair
    <3>1. cmd' = [op |-> "imported", pc |-> 0, pair |-> pair, slot |-> 0]
      BY <2>2, <2>3 DEF Command
    <3>2. Pair' = cmd'.pair
      BY <2>2, <2>3, <3>1 DEF Pair
    <3>3. KeysType'
      BY <2>1, <2>2, <3>1 DEF KeysType
    <3> QED
      BY <2>2, <3>1, <3>2, <3>3 DEF EnrollInv, ImportInv, SuccessIsWhole
  <2>4. CASE Pair # pair /\ Pair = <<ABSENT, ABSENT>>
    <3>1. cmd' = [op |-> "import", pc |-> 4, pair |-> pair, slot |-> 0]
      BY <2>2, <2>4 DEF Command
    <3>2. dir["data.key"] = ABSENT /\ dir["chunk-id.key"] = ABSENT
      BY <2>4 DEF Pair
    <3>3. KeysType'
      BY <2>1, <2>2, <3>1 DEF KeysType
    <3> QED
      BY <2>2, <3>1, <3>2, <3>3 DEF EnrollInv, ImportInv, SuccessIsWhole
  <2>5. CASE Pair # pair /\ Pair # <<ABSENT, ABSENT>>
    <3>1. cmd' = [op |-> "import", pc |-> 1, pair |-> pair, slot |-> 0]
      BY <2>2, <2>5 DEF Command
    <3>2. KeysType'
      BY <2>1, <2>2, <3>1 DEF KeysType
    <3> QED
      BY <3>1, <3>2 DEF EnrollInv, ImportInv, SuccessIsWhole
  <2> QED
    BY <2>3, <2>4, <2>5
<1>6. CASE back_up_existing_keys
  <2>1. CASE free_slots = {}
    <3>1. cmd' = [op |-> "none", pc |-> 0, pair |-> <<0, 0>>, slot |-> 0]
      BY <1>6, <2>1 DEF back_up_existing_keys, Idle, Command, ABSENT
    <3>2. KeysType'
      BY <1>6, <3>1 DEF back_up_existing_keys, KeysType, TwoKeys
    <3> QED
      BY <3>1, <3>2 DEF EnrollInv, ImportInv, SuccessIsWhole
  <2>2. CASE free_slots # {}
    <3> DEFINE slot == Min(free_slots)
    <3>1. slot \in 1 .. MAX_KEY_BACKUPS /\ \A f \in Existing : old[slot][f] = ABSENT
      BY <2>2, FreeSlot
    <3>2. cmd' = [cmd EXCEPT !.pc = 2, !.slot = slot]
      BY <1>6, <2>2 DEF back_up_existing_keys
    <3> HIDE DEF slot
    <3>3. /\ cmd'.op = "import" /\ cmd'.pc = 2 /\ cmd'.slot = slot /\ cmd'.pair = cmd.pair
          /\ DOMAIN cmd' = DOMAIN cmd
      BY <1>6, <3>2 DEF back_up_existing_keys, KeysType
    <3>4. KeysType'
      BY <1>6, <3>3 DEF back_up_existing_keys, KeysType
    <3> QED
      BY <1>6, <3>1, <3>3, <3>4 DEF back_up_existing_keys, EnrollInv, ImportInv, SuccessIsWhole, Existing
  <2> QED
    BY <2>1, <2>2
<1>7. CASE rename
  <2> DEFINE f == EnrollFiles[cmd.pc + 3]
  <2>1. f \in Existing /\ f \in Files /\ (cmd.pc = 2 => f = "data.key") /\ (cmd.pc = 3 => f = "chunk-id.key")
    BY <1>7, FileNames DEF rename, Files, Existing
  <2>2. /\ cmd.op = "import" /\ cmd.pc \in 2 .. 3 /\ cmd' = [cmd EXCEPT !.pc = @ + 1]
        /\ UNCHANGED <<keyfile, born>>
        /\ IF dir[f] = ABSENT THEN UNCHANGED <<dir, old>>
           ELSE old' = [old EXCEPT ![cmd.slot][f] = dir[f]] /\ dir' = [dir EXCEPT ![f] = ABSENT]
    BY <1>7 DEF rename
  <2> HIDE DEF f
  <2>3. /\ cmd'.op = "import" /\ cmd'.pc = cmd.pc + 1 /\ cmd'.slot = cmd.slot /\ cmd'.pair = cmd.pair
        /\ DOMAIN cmd' = DOMAIN cmd
    BY <2>2 DEF KeysType
  <2>4. dir' \in [Files -> Int] /\ dir'[f] = ABSENT /\ \A g \in Files : g # f => dir'[g] = dir[g]
    BY <2>1, <2>2 DEF KeysType, ABSENT
  <2>5. cmd.slot \in 1 .. MAX_KEY_BACKUPS
    BY <2>2 DEF ImportInv
  <2>6. /\ old' \in [1 .. MAX_KEY_BACKUPS -> [Existing -> Int]]
        /\ \A g \in Existing : g # f => old'[cmd.slot][g] = old[cmd.slot][g]
    <3>1. CASE dir[f] = ABSENT
      BY <2>2, <3>1 DEF KeysType
    <3>2. CASE dir[f] # ABSENT
      <4> DEFINE moved == [old[cmd.slot] EXCEPT ![f] = dir[f]]
      <4>1. old' = [old EXCEPT ![cmd.slot] = moved]
        BY <2>2, <3>2
      <4>2. moved \in [Existing -> Int] /\ \A g \in Existing : g # f => moved[g] = old[cmd.slot][g]
        BY <2>1, <2>5 DEF KeysType
      <4> HIDE DEF moved
      <4> QED
        BY <2>5, <4>1, <4>2 DEF KeysType
    <3> QED
      BY <3>1, <3>2
  <2>7. KeysType'
    BY <2>2, <2>3, <2>4, <2>6 DEF KeysType
  <2>8. ImportInv'
    BY <2>1, <2>2, <2>3, <2>4, <2>5, <2>6 DEF ImportInv, Files, Existing
  <2> QED
    BY <2>3, <2>7, <2>8 DEF EnrollInv, SuccessIsWhole
<1>8. CASE install
  <2> DEFINE f == EnrollFiles[cmd.pc + 1]
             key == cmd.pair[cmd.pc - 3]
  <2>1. f \in Files /\ (cmd.pc = 4 => f = "data.key") /\ (cmd.pc = 5 => f = "chunk-id.key")
    BY <1>8, FileNames DEF install, Files, Existing
  <2>2. /\ key \in Int /\ (cmd.pc = 4 => key = cmd.pair[1]) /\ (cmd.pc = 5 => key = cmd.pair[2])
        /\ cmd.pair = <<cmd.pair[1], cmd.pair[2]>>
    BY <1>8 DEF install, KeysType, TwoKeys
  <2>3. /\ cmd.op = "import" /\ cmd.pc \in 4 .. 5 /\ UNCHANGED <<old, keyfile, born>>
        /\ dir' = [dir EXCEPT ![f] = key]
        /\ cmd' = IF cmd.pc = 4 THEN [cmd EXCEPT !.pc = 5] ELSE [cmd EXCEPT !.op = "imported", !.pc = 0]
    BY <1>8 DEF install
  <2> HIDE DEF f, key
  <2>4. dir' \in [Files -> Int] /\ dir'[f] = key /\ \A g \in Files : g # f => dir'[g] = dir[g]
    BY <2>1, <2>2, <2>3 DEF KeysType
  <2>5. CASE cmd.pc = 4
    <3>1. /\ cmd'.op = "import" /\ cmd'.pc = 5 /\ cmd'.pair = cmd.pair
        /\ DOMAIN cmd' = DOMAIN cmd
      BY <2>3, <2>5 DEF KeysType
    <3>2. KeysType'
      BY <2>3, <2>4, <3>1 DEF KeysType
    <3>3. ImportInv'
      BY <2>1, <2>2, <2>3, <2>4, <2>5, <3>1 DEF ImportInv, Files
    <3> QED
      BY <3>1, <3>2, <3>3 DEF EnrollInv, SuccessIsWhole
  <2>6. CASE cmd.pc = 5
    <3>1. cmd'.op = "imported" /\ cmd'.pc = 0 /\ cmd'.pair = cmd.pair /\ DOMAIN cmd' = DOMAIN cmd
      BY <2>3, <2>6 DEF KeysType
    <3>2. KeysType'
      BY <2>3, <2>4, <3>1 DEF KeysType
    <3>3. Pair' = cmd'.pair
      BY <2>1, <2>2, <2>3, <2>4, <2>6, <3>1 DEF ImportInv, Pair, Files
    <3> QED
      BY <3>1, <3>2, <3>3 DEF EnrollInv, ImportInv, SuccessIsWhole
  <2> QED
    BY <2>3, <2>5, <2>6
<1>9. CASE crash
  <2>1. cmd' = [op |-> "none", pc |-> 0, pair |-> <<0, 0>>, slot |-> 0]
    BY <1>9 DEF crash, Idle, Command, ABSENT
  <2> QED
    BY <1>9, <2>1 DEF crash, KeysType, TwoKeys, EnrollInv, ImportInv, SuccessIsWhole
<1>10. CASE UNCHANGED vars
  BY <1>10 DEF vars, KeysType, EnrollInv, ImportInv, SuccessIsWhole, Pair
<1> QED
  BY <1>1, <1>2, <1>3, <1>4, <1>5, <1>6, <1>7, <1>8, <1>9, <1>10 DEF Next

\* No step of a command destroys key material: what it overwrites is absent.
LEMMA StepKeepsMaterial ==
    ASSUME IInv, [Next]_vars
    PROVE  \A m \in Material : m[2] = ABSENT \/ m \in Material'
<1> SUFFICES ASSUME NEW f \in Existing
             PROVE  /\ dir[f] = ABSENT \/ <<f, dir[f]>> \in Material'
                    /\ \A n \in DOMAIN old : old[n][f] = ABSENT \/ <<f, old[n][f]>> \in Material'
  BY DEF Material
<1> USE DEF IInv
<1>1. CASE UNCHANGED <<dir, old>>
  BY <1>1 DEF Material
<1>2. CASE save_identity
  <2>1. EnrollFiles[cmd.pc] \notin Existing
    BY <1>2, FileNames DEF save_identity, Existing
  <2>2. dir'[f] = dir[f] /\ old' = old
    BY <1>2, <2>1 DEF save_identity, KeysType
  <2> QED
    BY <2>2 DEF Material
<1>3. CASE ensure_key_file
  <2>1. (dir[f] # ABSENT => dir'[f] = dir[f]) /\ old' = old
    BY <1>3 DEF ensure_key_file, KeysType
  <2> QED
    BY <2>1 DEF Material
<1>4. CASE rename
  <2> DEFINE g == EnrollFiles[cmd.pc + 3]
  <2>1. g \in Existing /\ (cmd.pc = 2 => g = "data.key") /\ (cmd.pc = 3 => g = "chunk-id.key")
    BY <1>4, FileNames DEF rename, Existing
  <2>2. /\ cmd.slot \in DOMAIN old /\ old[cmd.slot][g] = ABSENT
        /\ DOMAIN dir = Files /\ \A n \in DOMAIN old : DOMAIN old[n] = Existing
    BY <1>4, <2>1 DEF rename, ImportInv, KeysType
  <2>3. IF dir[g] = ABSENT THEN UNCHANGED <<dir, old>>
        ELSE old' = [old EXCEPT ![cmd.slot][g] = dir[g]] /\ dir' = [dir EXCEPT ![g] = ABSENT]
    BY <1>4 DEF rename
  <2> HIDE DEF g
  <2>4. CASE dir[g] # ABSENT
    <3>1. DOMAIN old' = DOMAIN old
      BY <2>3, <2>4
    <3>2. old'[cmd.slot][g] = dir[g]
      BY <2>1, <2>2, <2>3, <2>4
    <3>3. \A n \in DOMAIN old : old[n][f] = ABSENT \/ old'[n][f] = old[n][f]
      BY <2>1, <2>2, <2>3, <2>4
    <3>4. dir'[f] = dir[f] \/ f = g
      BY <2>2, <2>3, <2>4 DEF Files, Existing
    <3> QED
      BY <2>1, <2>2, <3>1, <3>2, <3>3, <3>4 DEF Material
  <2> QED
    BY <1>1, <2>3, <2>4
<1>5. CASE install
  <2>1. dir[EnrollFiles[cmd.pc + 1]] = ABSENT
    BY <1>5, FileNames DEF install, ImportInv
  <2>2. (dir[f] # ABSENT => dir'[f] = dir[f]) /\ old' = old
    BY <1>5, <2>1 DEF install, KeysType
  <2> QED
    BY <2>2 DEF Material
<1> QED
  BY <1>1, <1>2, <1>3, <1>4, <1>5
     DEF Next, vars, request_enrollment, export_key, import_key, back_up_existing_keys, crash

-----------------------------------------------------------------------------
LEMMA InvHolds == Spec => []IInv
  BY InitInv, NextInv, PTL DEF Spec

(* Whatever was cut short before, a command that reports success has done   *)
(* its work: an import leaves exactly the keyfile's pair, an enrolment one  *)
(* identity and two usable keys, an export opens to the keys in use         *)
(* (keys.rs import_key and export_key, enroll.rs save_identity and          *)
(* ensure_data_key).                                                        *)
THEOREM SuccessfulCommands == Spec => []SuccessIsWhole
<1>1. IInv => SuccessIsWhole
  BY DEF IInv
<1> QED
  BY <1>1, InvHolds, PTL

(* Key bytes, well-formed or not, stay in their file or in one of its .old-n *)
(* files through every step of every command and every crash in between      *)
(* (keys.rs back_up_existing_keys and import_key, enroll.rs                  *)
(* ensure_key_file).                                                         *)
THEOREM KeysSurvive == Spec => NothingDestroyed
<1>1. IInv /\ [Next]_vars => [\A m \in Material : m[2] = ABSENT \/ m \in Material']_vars
  BY StepKeepsMaterial
<1> QED
  BY <1>1, InvHolds, PTL DEF Spec, NothingDestroyed
=============================================================================
