----------------------------- MODULE ClientKeys -----------------------------
(***************************************************************************)
(* The client's state directory: identity and backup-set keys, as enroll,  *)
(* export-key and import-key read and replace them file by file            *)
(* (crates/busyncr-client/src/enroll.rs, keys.rs; the keyfile is           *)
(* busyncr-core's crypto.rs).  One command runs at a time; it may crash or *)
(* meet an I/O error between any two of its writes.  write_atomic makes    *)
(* each write and each rename one step.                                    *)
(*                                                                         *)
(* What a file holds is the number of the enrolment that made it: two keys *)
(* with one number were born together.  Other machines have made some too. *)
(***************************************************************************)
EXTENDS Integers, Sequences, FiniteSetsExt

CONSTANTS
    MAX_KEY_BACKUPS,
    Passphrases,        \* [from, text]: how the operator gives one
    Foreign,            \* keyfiles from other machines
    Paths,              \* where keyfiles are kept
    MAX_ENROLMENTS      \* bound: enrolments on this machine

\* A keyfile holds two keys, whichever machine wrote it.
ASSUME KeyfileAssumption ==
    /\ MAX_KEY_BACKUPS \in Nat
    /\ \A f \in Foreign : f.pair \in Int \X Int

ABSENT == 0
MALFORMED == -1         \* not 32 bytes
Existing == {"data.key", "chunk-id.key"}
EnrollFiles == <<"client-key.pem", "client-cert.pem", "ca-cert.pem", "enrollment-name",
                 "data.key", "chunk-id.key">>

VARIABLES
    dir,        \* file -> what it holds
    old,        \* slot n -> what data.key.old-n and chunk-id.key.old-n hold
    keyfile,    \* path -> the keyfile there: [version, pass, pair]
    cmd,        \* the command
    born        \* enrolments so far

vars == <<dir, old, keyfile, cmd, born>>

NoFile == [version |-> ABSENT, pass |-> "", pair |-> <<ABSENT, ABSENT>>]
Command(op, pc) == [op |-> op, pc |-> pc, pair |-> <<ABSENT, ABSENT>>, slot |-> 0]
Idle == Command("none", 0)
Pair == <<dir["data.key"], dir["chunk-id.key"]>>

Init ==
    /\ \E bytes \in {ABSENT, MALFORMED} :
         dir = [f \in {EnrollFiles[i] : i \in DOMAIN EnrollFiles} |->
                  IF f = "data.key" THEN bytes ELSE ABSENT]
    /\ old = [n \in 1 .. MAX_KEY_BACKUPS |-> [f \in Existing |-> ABSENT]]
    /\ \E f \in Foreign : keyfile = [p \in Paths |-> IF p = 1 THEN f ELSE NoFile]
    /\ cmd = Idle /\ born = 0

-----------------------------------------------------------------------------
\* The daemon signed this machine's request: the token is spent.
request_enrollment ==
    /\ cmd.pc = 0 /\ born < MAX_ENROLMENTS
    /\ born' = born + 1
    /\ cmd' = Command("enroll", 1)
    /\ UNCHANGED <<dir, old, keyfile>>

\* save_identity replaces its four files one after the other.
save_identity ==
    /\ cmd.op = "enroll" /\ cmd.pc \in 1 .. 4
    /\ dir' = [dir EXCEPT ![EnrollFiles[cmd.pc]] = born]
    /\ cmd' = [cmd EXCEPT !.pc = @ + 1]
    /\ UNCHANGED <<old, keyfile, born>>

\* Each key that is missing is made; one that is there stays as it is.
ensure_key_file ==
    LET f == EnrollFiles[cmd.pc]
    IN  /\ cmd.op = "enroll" /\ cmd.pc \in 5 .. 6
        /\ dir' = IF dir[f] = ABSENT THEN [dir EXCEPT ![f] = born] ELSE dir
        /\ cmd' = IF dir[f] = MALFORMED THEN Idle
                  ELSE IF cmd.pc = 6 THEN Command("enrolled", 0)
                  ELSE [cmd EXCEPT !.pc = 6]
        /\ UNCHANGED <<old, keyfile, born>>

-----------------------------------------------------------------------------
\* Only a passphrase on the command line may be empty.
resolve_passphrase(given) == given.from = "argument" \/ given.text # ""

\* The keys are read one after the other; the output must not exist.
export_keyfile(pass) == [version |-> 2, pass |-> pass, pair |-> Pair]
export_key(path, given) ==
    /\ cmd.pc = 0
    /\ resolve_passphrase(given)
    /\ \A i \in 1 .. 2 : Pair[i] \notin {ABSENT, MALFORMED}
    /\ keyfile[path] = NoFile
    /\ keyfile' = [keyfile EXCEPT ![path] = export_keyfile(given.text)]
    /\ cmd' = [Command("exported", 0) EXCEPT !.slot = path]
    /\ UNCHANGED <<dir, old, born>>

import_keyfile(f, pass) == f.version = 2 /\ f.pass = pass

\* As if the data key alone decided whether there is anything to do.
both_current_DataOnly(pair) == Pair[1] = pair[1]

both_current(pair) == Pair = pair

import_key(path, given) ==
    /\ cmd.pc = 0
    /\ resolve_passphrase(given)
    /\ import_keyfile(keyfile[path], given.text)
    /\ LET pair == keyfile[path].pair
       IN  cmd' = IF both_current(pair) THEN [Command("imported", 0) EXCEPT !.pair = pair]
                  ELSE [Command("import", IF Pair = <<ABSENT, ABSENT>> THEN 4 ELSE 1) EXCEPT !.pair = pair]
    /\ UNCHANGED <<dir, old, keyfile, born>>

\* As if a slot were free as soon as no data key is in it.
free_slots_DataOnly == {n \in DOMAIN old : old[n]["data.key"] = ABSENT}

free_slots == {n \in DOMAIN old : \A f \in Existing : old[n][f] = ABSENT}

\* back_up_existing_keys: the first slot free of both, then the two renames.
back_up_existing_keys ==
    /\ cmd.op = "import" /\ cmd.pc = 1
    /\ cmd' = IF free_slots = {} THEN Idle
              ELSE [cmd EXCEPT !.pc = 2, !.slot = Min(free_slots)]
    /\ UNCHANGED <<dir, old, keyfile, born>>

rename ==
    LET f == EnrollFiles[cmd.pc + 3]
    IN  /\ cmd.op = "import" /\ cmd.pc \in 2 .. 3
        /\ IF dir[f] = ABSENT THEN UNCHANGED <<dir, old>>
           ELSE /\ old' = [old EXCEPT ![cmd.slot][f] = dir[f]]
                /\ dir' = [dir EXCEPT ![f] = ABSENT]
        /\ cmd' = [cmd EXCEPT !.pc = @ + 1]
        /\ UNCHANGED <<keyfile, born>>

install ==
    /\ cmd.op = "import" /\ cmd.pc \in 4 .. 5
    /\ dir' = [dir EXCEPT ![EnrollFiles[cmd.pc + 1]] = cmd.pair[cmd.pc - 3]]
    /\ cmd' = IF cmd.pc = 4 THEN [cmd EXCEPT !.pc = 5] ELSE [cmd EXCEPT !.op = "imported", !.pc = 0]
    /\ UNCHANGED <<old, keyfile, born>>

-----------------------------------------------------------------------------
\* A crash, or an error from the file system that ends the command.
crash ==
    /\ cmd.pc # 0
    /\ cmd' = Idle
    /\ UNCHANGED <<dir, old, keyfile, born>>

Next ==
    \/ request_enrollment \/ save_identity \/ ensure_key_file
    \/ \E path \in Paths, given \in Passphrases : export_key(path, given) \/ import_key(path, given)
    \/ back_up_existing_keys \/ rename \/ install
    \/ crash

Spec == Init /\ [][Next]_vars

-----------------------------------------------------------------------------
Material == {<<f, dir[f]>> : f \in Existing} \cup {<<f, old[n][f]>> : f \in Existing, n \in DOMAIN old}

(* No key material is ever lost, whatever commands run and wherever they are  *)
(* cut short: bytes that were once in a key file stay in it or in one of its  *)
(* .old-n files, malformed ones too (keys.rs import_key,                      *)
(* back_up_existing_keys; enroll.rs ensure_key_file).                         *)
NothingDestroyed ==
    [][\A m \in Material : m[2] = ABSENT \/ m \in Material']_vars

(* A command that reports success has done all of its work, after any number *)
(* of earlier ones that were cut short: an import leaves exactly the keys of *)
(* its keyfile, an enrolment leaves the four files of one identity and both  *)
(* keys, an export is a keyfile that opens to the keys in use (keys.rs       *)
(* import_key's AlreadyCurrent, enroll.rs save_identity, ensure_data_key).   *)
SuccessIsWhole ==
    /\ cmd.op = "imported" => Pair = cmd.pair
    /\ cmd.op = "enrolled" => /\ \A i \in 1 .. 4 : dir[EnrollFiles[i]] = born
                              /\ \A f \in Existing : dir[f] \notin {ABSENT, MALFORMED}
    /\ cmd.op = "exported" => \E given \in Passphrases :
                                 import_keyfile(keyfile[cmd.slot], given.text) /\ keyfile[cmd.slot].pair = Pair
=============================================================================
