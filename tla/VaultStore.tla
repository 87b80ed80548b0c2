------------------------------- MODULE VaultStore -------------------------------
(***************************************************************************)
(* vault.rs: the open vault, the encrypted file, and how the one becomes   *)
(* the other.  Every change encrypts the whole payload and replaces the    *)
(* file: temporary file, write and sync, rename, sync of the directory.    *)
(* The process may be killed, and the power may fail, between any two of   *)
(* these steps.  The controller's mutex is held from the first to the      *)
(* last, so there is one operation at a time.                              *)
(*                                                                         *)
(* A key stands for a password and its salt; file contents are what        *)
(* decrypting them with their key yields.                                  *)
(***************************************************************************)
EXTENDS FiniteSets, Naturals

CONSTANTS Name, Value, Key,
          Missing,     \* no secret of that name
          Locked,      \* no key and no payload in memory
          NoFile,      \* there is no vault file
          Damaged,     \* a file that no key opens
          NoWrite, NoName,
          MaxSurvivors \* bound: files a power loss may leave when a directory sync fails

VARIABLES memory,      \* VaultStore.key and .data, or Locked
          visible,     \* the file as every process sees it
          survivors,   \* the files a power loss may leave
          write,       \* the replacement of the file going on, or NoWrite
          job,         \* the operation it belongs to
          outcome      \* what the operation returned, until its caller has it

diskVars == <<visible, survivors>>
vars     == <<memory, diskVars, write, job, outcome>>

Data     == [Name -> Value \cup {Missing}]
Contents == [key : Key, data : Data]
Write    == [contents : Contents, phase : {"started", "opened", "written", "renamed", "synced"},
             whole : BOOLEAN]
Job      == [kind : {"none", "create", "password", "save", "rename", "delete"},
             name : Name \cup {NoName}, value : Value \cup {Missing}]

ASSUME SpecialValues ==
    /\ Missing \notin Value
    /\ NoName \notin Name
    /\ {Locked, NoFile, Damaged, NoWrite} \cap (Contents \cup Write) = {}
    /\ NoFile # Damaged /\ NoFile # NoWrite
    /\ MaxSurvivors \in Nat

NoJob == [kind |-> "none", name |-> NoName, value |-> Missing]

TypeOK ==
    /\ memory \in Contents \cup {Locked}
    /\ visible \in Contents \cup {NoFile, Damaged}
    /\ survivors \subseteq Contents \cup {NoFile, Damaged}
    /\ visible \in survivors
    /\ write \in Write \cup {NoWrite}
    /\ job \in Job
    /\ write = NoWrite <=> job = NoJob
    /\ outcome \in {"none", "ok", "error"}
    /\ outcome # "none" => write = NoWrite

Empty == [n \in Name |-> Missing]

Init ==
    /\ memory = Locked
    /\ visible \in {NoFile} \cup [key : Key, data : {Empty}]
    /\ survivors = {visible}
    /\ write = NoWrite
    /\ job = NoJob
    /\ outcome = "none"

-----------------------------------------------------------------------------
(* The operations, up to the first write.                                  *)

Free == write = NoWrite /\ outcome = "none"
Open == Free /\ memory # Locked

Replace(contents) ==
    write' = [contents |-> contents, phase |-> "started", whole |-> FALSE]

Start(kind, contents) ==
    /\ Replace(contents)
    /\ job' = [NoJob EXCEPT !.kind = kind]
    /\ UNCHANGED <<diskVars, outcome>>

Answer(result) ==
    /\ outcome' = result
    /\ write' = NoWrite
    /\ job' = NoJob

\* VaultStore::create()
Create(key) ==
    /\ Free /\ memory = Locked
    /\ visible = NoFile
    /\ Start("create", [key |-> key, data |-> Empty])
    /\ UNCHANGED memory

\* VaultStore::unlock(): a file that cannot be read or decrypted is an error.
Unlock(key) ==
    /\ Free /\ memory = Locked
    /\ visible # NoFile
    /\ IF visible \in Contents /\ visible.key = key
       THEN memory' = visible /\ Answer("ok")
       ELSE UNCHANGED memory /\ Answer("error")
    /\ UNCHANGED diskVars

Lock ==
    /\ Open
    /\ memory' = Locked
    /\ UNCHANGED <<diskVars, write, job, outcome>>

With(name, value) == [memory EXCEPT !.data[name] = value]

\* save_secret(): memory changes first.
Save(name, value) ==
    /\ Open
    /\ memory' = With(name, value)
    /\ Start("save", With(name, value))

Refuse ==
    /\ Answer("error")
    /\ UNCHANGED <<memory, diskVars>>

\* Variant of Movable: a secret that has the new name is not noticed.
MovableOver(old, new) == memory.data[old] # Missing

\* rename() refuses to replace another secret.
Movable(old, new) == memory.data[old] # Missing /\ memory.data[new] = Missing

Moved(old, new) == [memory EXCEPT !.data[new] = memory.data[old], !.data[old] = Missing]

\* Controller::save_secret() with a new name: a rename that is saved, then the
\* value, which is saved once more.
Edit(old, new, value) ==
    /\ Open /\ old # new
    /\ IF ~Movable(old, new) THEN Refuse
       ELSE /\ memory' = Moved(old, new)
            /\ Replace(Moved(old, new))
            /\ job' = [kind |-> "rename", name |-> new, value |-> value]
            /\ UNCHANGED <<diskVars, outcome>>

\* delete()
Delete(name) ==
    /\ Open
    /\ IF memory.data[name] = Missing THEN Refuse
       ELSE /\ memory' = With(name, Missing)
            /\ Start("delete", With(name, Missing))

\* Variant of ChangePassword: the new key is taken over at once.
ChangePasswordFirst(key) ==
    /\ Open
    /\ memory' = [memory EXCEPT !.key = key]
    /\ Start("password", [memory EXCEPT !.key = key])

\* change_password(): memory keeps the old key until the file has the new one.
ChangePassword(key) ==
    /\ Open
    /\ Start("password", [memory EXCEPT !.key = key])
    /\ UNCHANGED memory

-----------------------------------------------------------------------------
(* save_with() and atomic_write().                                         *)

Step(from, to) ==
    /\ write # NoWrite /\ write.phase = from
    /\ write' = [write EXCEPT !.phase = to]
    /\ UNCHANGED <<memory, job, outcome>>

OpenTemporary == Step("started", "opened") /\ UNCHANGED diskVars

\* Variant of WriteTemporary without sync_all().
WriteUnsynced == Step("opened", "written") /\ UNCHANGED diskVars

\* write_all() and sync_all(): the whole file is on the disk before it has its
\* name.
WriteTemporary ==
    /\ write # NoWrite /\ write.phase = "opened"
    /\ write' = [write EXCEPT !.phase = "written", !.whole = TRUE]
    /\ UNCHANGED <<memory, diskVars, job, outcome>>

\* rename(): at once for every reader, on the disk some time later.
RenameTemporary ==
    /\ Step("written", "renamed")
    /\ visible' = write.contents
    /\ survivors' = survivors \cup {write.contents}
                      \cup IF write.whole THEN {} ELSE {Damaged}

\* sync_all() of the directory, whose failure is ignored.
SyncDirectory ==
    /\ Step("renamed", "synced")
    /\ UNCHANGED visible
    /\ \/ survivors' = {visible}
       \/ Cardinality(survivors) <= MaxSurvivors /\ UNCHANGED survivors

\* Any step before the rename may fail; the temporary file is removed, and a
\* change of the payload stays in memory.
Fail ==
    /\ write # NoWrite /\ write.phase \in {"started", "opened", "written"}
    /\ Answer("error")
    /\ UNCHANGED <<memory, diskVars>>

\* The operation goes on: a new vault is opened, a new key taken over, a
\* renamed secret gets its value.
Finish ==
    /\ write # NoWrite /\ write.phase = "synced"
    /\ IF job.kind = "rename"
       THEN /\ memory' = With(job.name, job.value)
            /\ Replace(With(job.name, job.value))
            /\ job' = [NoJob EXCEPT !.kind = "save"]
            /\ UNCHANGED outcome
       ELSE /\ memory' = IF job.kind \in {"create", "password"} THEN write.contents ELSE memory
            /\ Answer("ok")
    /\ UNCHANGED diskVars

\* The caller has the result.
Acknowledge ==
    /\ outcome # "none"
    /\ outcome' = "none"
    /\ UNCHANGED <<memory, diskVars, write, job>>

-----------------------------------------------------------------------------
(* The machine.                                                            *)

\* The file system writes back in its own time.
Flush ==
    /\ survivors # {visible}
    /\ survivors' = {visible}
    /\ UNCHANGED <<memory, visible, write, job, outcome>>

Restart ==
    /\ memory' = Locked
    /\ write' = NoWrite
    /\ job' = NoJob
    /\ outcome' = "none"

\* The process ends, by its own will or not; a temporary file may stay behind.
Kill == Restart /\ UNCHANGED diskVars

PowerLoss ==
    /\ Restart
    /\ visible' \in survivors
    /\ survivors' = {visible'}

-----------------------------------------------------------------------------
Operation ==
    \/ \E key \in Key : Create(key) \/ Unlock(key) \/ ChangePassword(key)
    \/ \E name \in Name, value \in Value : Save(name, value)
    \/ \E old, new \in Name, value \in Value : Edit(old, new, value)
    \/ \E name \in Name : Delete(name)
    \/ Lock

Writing ==
    \/ OpenTemporary
    \/ WriteTemporary
    \/ RenameTemporary
    \/ SyncDirectory
    \/ Fail
    \/ Finish

Machine == Flush \/ Kill \/ PowerLoss

Next == Operation \/ Writing \/ Acknowledge \/ Machine

Spec == Init /\ [][Next]_vars

-----------------------------------------------------------------------------
(* Properties.                                                             *)

\* What save_with was told to store and what the controller believes agree: an
\* operation that reported success is in the file as memory has it, and whenever
\* no write is going on the file opens with the key the vault was opened with,
\* or changed to, however many saves failed.
FileMatches ==
    /\ outcome = "ok" => memory # Locked /\ visible = memory
    /\ memory # Locked /\ write = NoWrite
         => visible \in Contents /\ visible.key = memory.key

\* A secret leaves the open vault only by being deleted: renaming it never
\* swallows another one, and no failure loses the one that is renamed.
SecretsStay ==
    [][memory # Locked /\ memory' # Locked /\ job'.kind # "delete"
         => \A old \in Name : memory.data[old] # Missing =>
               \/ memory'.data[old] # Missing
               \/ \E new \in Name : /\ memory.data[new] = Missing
                                    /\ memory'.data[new] = memory.data[old]]_vars

\* The password changes with the file: the open vault takes over a new key only
\* when the file already opens with it, and the file gets another key only from
\* change_password(), or when a power loss takes one back that was not on the disk.
PasswordIsTheFiles ==
    [][/\ memory # Locked /\ memory' # Locked /\ memory'.key # memory.key
            => visible \in Contents /\ visible.key = memory'.key
       /\ visible \in Contents /\ visible' \in Contents /\ visible'.key # visible.key
            => job.kind = "password" \/ (memory' = Locked /\ visible' \in survivors)]_vars

-----------------------------------------------------------------------------
(* The file is a VaultRegister.                                            *)

Register == INSTANCE VaultRegister WITH
    Values    <- Contents \cup {NoFile},
    Nothing   <- NoWrite,
    stored    <- visible,
    survivors <- survivors,
    pending   <- IF write # NoWrite /\ write.phase \in {"started", "opened", "written"}
                 THEN write.contents ELSE NoWrite

\* However a save is interrupted, the file holds what one save wrote.
ImplementsRegister == Register!Spec

==============================================================================
