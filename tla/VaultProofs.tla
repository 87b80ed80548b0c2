------------------------------- MODULE VaultProofs -------------------------------
(***************************************************************************)
(* What VaultStore promises holds for any names, values and keys, and for  *)
(* any number of files a power loss may leave.                             *)
(***************************************************************************)
EXTENDS VaultStore, TLAPS

Unrenamed == {"started", "opened", "written"}

\* What a save that is going on owes to memory and to the file.
WriteConsistent ==
    write # NoWrite =>
       /\ job.kind = "create" <=> memory = Locked
       /\ memory # Locked =>
             /\ write.contents.data = memory.data
             /\ job.kind # "password" => write.contents = memory
             /\ write.phase \in Unrenamed => visible \in Contents /\ visible.key = memory.key
       /\ write.phase \notin Unrenamed => visible = write.contents
       /\ write.whole <=> write.phase \notin {"started", "opened"}
       /\ job.kind = "rename" => job.name \in Name /\ job.value \in Value

\* The inductive invariant.
Consistent ==
    /\ TypeOK
    /\ FileMatches
    /\ WriteConsistent
    /\ Damaged \notin survivors

-----------------------------------------------------------------------------
(* Contents, and how an operation changes them.                            *)

LEMMA WithContents ==
    ASSUME memory \in Contents, NEW name \in Name, NEW value \in Value \cup {Missing}
    PROVE  /\ With(name, value) \in Contents
           /\ With(name, value).key = memory.key
           /\ With(name, value).data = [memory.data EXCEPT ![name] = value]
BY DEF With, Contents, Data

LEMMA MovedContents ==
    ASSUME memory \in Contents, NEW old \in Name, NEW new \in Name, Movable(old, new)
    PROVE  /\ Moved(old, new) \in Contents
           /\ Moved(old, new).key = memory.key
           /\ Moved(old, new).data = [memory.data EXCEPT ![new] = memory.data[old], ![old] = Missing]
BY DEF Moved, Contents, Data

LEMMA Rekeyed ==
    ASSUME memory \in Contents, NEW key \in Key
    PROVE  /\ [memory EXCEPT !.key = key] \in Contents
           /\ [memory EXCEPT !.key = key].data = memory.data
BY DEF Contents, Data

LEMMA EmptyContents ==
    ASSUME NEW key \in Key
    PROVE  [key |-> key, data |-> Empty] \in Contents
BY DEF Contents, Data, Empty

\* A write is in one of its phases; NoWrite is none.
LEMMA Distinct ==
    /\ Locked \notin Contents /\ NoFile \notin Contents /\ Damaged \notin Contents
    /\ NoWrite \notin Write /\ NoWrite \notin Contents
    /\ NoFile # Damaged /\ NoFile # NoWrite
    /\ NoJob \in Job
BY SpecialValues DEF NoJob, Job

-----------------------------------------------------------------------------
(* An operation that starts a save.                                        *)

LEMMA Starts ==
    ASSUME Consistent, Open,
           NEW kind \in {"password", "save", "delete"}, NEW contents \in Contents,
           Start(kind, contents),
           memory' \in Contents, memory'.key = memory.key, contents.data = memory'.data,
           kind # "password" => contents = memory'
    PROVE  Consistent'
<1> USE Distinct
<1>1. /\ write' = [contents |-> contents, phase |-> "started", whole |-> FALSE]
      /\ job' = [NoJob EXCEPT !.kind = kind]
      /\ visible' = visible /\ survivors' = survivors /\ outcome' = outcome
  BY DEF Start, Replace, diskVars
<1>2. write' \in Write /\ job' \in Job /\ job' # NoJob /\ job'.kind = kind
  BY <1>1 DEF Write, Job, NoJob
<1>3. visible \in Contents /\ visible.key = memory.key /\ outcome = "none"
  BY DEF Consistent, FileMatches, Open, Free
<1>4. TypeOK'
  BY <1>1, <1>2, <1>3 DEF Consistent, TypeOK
<1>5. FileMatches'
  BY <1>1, <1>2, <1>3 DEF FileMatches
<1>6. WriteConsistent'
  BY <1>1, <1>2, <1>3 DEF WriteConsistent, Unrenamed
<1> QED
  BY <1>1, <1>4, <1>5, <1>6 DEF Consistent

\* save_secret(), delete() and change_password().
LEMMA SaveConsistent ==
    ASSUME Consistent, NEW name \in Name, NEW value \in Value, Save(name, value)
    PROVE  Consistent'
<1>1. memory \in Contents /\ Open
  BY DEF Save, Open, Consistent, TypeOK
<1>2. memory' = With(name, value) /\ Start("save", With(name, value))
  BY DEF Save
<1> QED
  BY <1>1, <1>2, WithContents, Starts

LEMMA RefuseConsistent ==
    ASSUME Consistent, Open, Refuse
    PROVE  Consistent'
<1>1. /\ write' = NoWrite /\ job' = NoJob /\ outcome' = "error"
      /\ memory' = memory /\ visible' = visible /\ survivors' = survivors
  BY DEF Refuse, Answer, diskVars
<1> QED
  BY <1>1, Distinct DEF Consistent, TypeOK, FileMatches, WriteConsistent, Open, Free

LEMMA DeleteConsistent ==
    ASSUME Consistent, NEW name \in Name, Delete(name)
    PROVE  Consistent'
<1>1. memory \in Contents /\ Open
  BY DEF Delete, Open, Consistent, TypeOK
<1>2. CASE memory.data[name] = Missing
  BY <1>1, <1>2, RefuseConsistent DEF Delete
<1>3. CASE memory.data[name] # Missing
  <2>1. memory' = With(name, Missing) /\ Start("delete", With(name, Missing))
    BY <1>3 DEF Delete
  <2> QED
    BY <1>1, <2>1, WithContents, Starts
<1> QED
  BY <1>2, <1>3

LEMMA ChangePasswordConsistent ==
    ASSUME Consistent, NEW key \in Key, ChangePassword(key)
    PROVE  Consistent'
<1>1. memory \in Contents /\ Open
  BY DEF ChangePassword, Open, Consistent, TypeOK
<1>2. memory' = memory /\ Start("password", [memory EXCEPT !.key = key])
  BY DEF ChangePassword
<1> QED
  BY <1>1, <1>2, Rekeyed, Starts

LEMMA EditConsistent ==
    ASSUME Consistent, NEW old \in Name, NEW new \in Name, NEW value \in Value, Edit(old, new, value)
    PROVE  Consistent'
<1>1. memory \in Contents /\ Open
  BY DEF Edit, Open, Consistent, TypeOK
<1>2. CASE ~Movable(old, new)
  BY <1>1, <1>2, RefuseConsistent DEF Edit
<1>3. CASE Movable(old, new)
  <2> DEFINE moved == Moved(old, new)
  <2>1. /\ memory' = moved
        /\ write' = [contents |-> moved, phase |-> "started", whole |-> FALSE]
        /\ job' = [kind |-> "rename", name |-> new, value |-> value]
        /\ visible' = visible /\ survivors' = survivors /\ outcome' = outcome
    BY <1>3 DEF Edit, Replace, diskVars
  <2>2. moved \in Contents /\ moved.key = memory.key
    BY <1>1, <1>3, MovedContents
  <2>3. visible \in Contents /\ visible.key = memory.key /\ outcome = "none"
    BY <1>1 DEF Consistent, FileMatches, Open, Free
  <2> HIDE DEF moved
  <2>4. write' \in Write /\ job' \in Job /\ job' # NoJob
    BY <2>1, <2>2 DEF Write, Job, NoJob
  <2>5. TypeOK'
    BY <2>1, <2>2, <2>3, <2>4, Distinct DEF Consistent, TypeOK
  <2>6. FileMatches'
    BY <2>1, <2>3, <2>4, Distinct DEF FileMatches
  <2>7. WriteConsistent'
    BY <2>1, <2>2, <2>3, Distinct DEF WriteConsistent, Unrenamed
  <2> QED
    BY <2>1, <2>5, <2>6, <2>7 DEF Consistent
<1> QED
  BY <1>2, <1>3

-----------------------------------------------------------------------------
(* Creating, opening and locking the vault.                                *)

LEMMA CreateConsistent ==
    ASSUME Consistent, NEW key \in Key, Create(key)
    PROVE  Consistent'
<1> DEFINE contents == [key |-> key, data |-> Empty]
<1>1. contents \in Contents
  BY EmptyContents
<1> HIDE DEF contents
<1>2. /\ write = NoWrite /\ outcome = "none" /\ memory = Locked
      /\ memory' = memory
      /\ write' = [contents |-> contents, phase |-> "started", whole |-> FALSE]
      /\ job' = [NoJob EXCEPT !.kind = "create"]
      /\ visible' = visible /\ survivors' = survivors /\ outcome' = outcome
  BY DEF Create, Free, Start, Replace, diskVars, contents
<1>3. write' \in Write /\ job' \in Job /\ job' # NoJob /\ job'.kind = "create"
  BY <1>1, <1>2, Distinct DEF Write, Job, NoJob
<1>4. TypeOK'
  BY <1>2, <1>3, Distinct DEF Consistent, TypeOK
<1>5. FileMatches'
  BY <1>2 DEF FileMatches
<1>6. WriteConsistent'
  BY <1>1, <1>2, <1>3 DEF WriteConsistent, Unrenamed
<1> QED
  BY <1>2, <1>4, <1>5, <1>6 DEF Consistent

LEMMA UnlockConsistent ==
    ASSUME Consistent, NEW key \in Key, Unlock(key)
    PROVE  Consistent'
BY Distinct DEF Unlock, Answer, diskVars, Consistent, TypeOK, FileMatches, WriteConsistent

LEMMA LockConsistent ==
    ASSUME Consistent, Lock
    PROVE  Consistent'
BY Distinct DEF Lock, Open, Free, diskVars, Consistent, TypeOK, FileMatches, WriteConsistent

-----------------------------------------------------------------------------
(* The steps of a save.                                                    *)

LEMMA OpenTemporaryConsistent ==
    ASSUME Consistent, OpenTemporary
    PROVE  Consistent'
<1>1. /\ write \in Write /\ write # NoWrite /\ write.phase = "started"
      /\ write' = [write EXCEPT !.phase = "opened"]
      /\ memory' = memory /\ job' = job /\ outcome' = outcome
      /\ visible' = visible /\ survivors' = survivors
  BY DEF OpenTemporary, Step, diskVars, Consistent, TypeOK
<1>2. /\ write' \in Write /\ write' # NoWrite /\ write'.phase = "opened"
      /\ write'.contents = write.contents /\ write'.whole = write.whole
  BY <1>1, Distinct DEF Write
<1> QED
  BY <1>1, <1>2 DEF Consistent, TypeOK, FileMatches, WriteConsistent, Unrenamed

LEMMA WriteTemporaryConsistent ==
    ASSUME Consistent, WriteTemporary
    PROVE  Consistent'
<1>1. /\ write \in Write /\ write # NoWrite /\ write.phase = "opened"
      /\ write' = [write EXCEPT !.phase = "written", !.whole = TRUE]
      /\ memory' = memory /\ job' = job /\ outcome' = outcome
      /\ visible' = visible /\ survivors' = survivors
  BY DEF WriteTemporary, diskVars, Consistent, TypeOK
<1>2. /\ write' \in Write /\ write' # NoWrite /\ write'.phase = "written"
      /\ write'.contents = write.contents /\ write'.whole = TRUE
  BY <1>1, Distinct DEF Write
<1> QED
  BY <1>1, <1>2 DEF Consistent, TypeOK, FileMatches, WriteConsistent, Unrenamed

LEMMA RenameTemporaryConsistent ==
    ASSUME Consistent, RenameTemporary
    PROVE  Consistent'
<1>1. /\ write \in Write /\ write # NoWrite /\ write.phase = "written"
      /\ write' = [write EXCEPT !.phase = "renamed"]
      /\ memory' = memory /\ job' = job /\ outcome' = outcome
      /\ visible' = write.contents
      /\ survivors' = survivors \cup {write.contents} \cup IF write.whole THEN {} ELSE {Damaged}
  BY DEF RenameTemporary, Step, Consistent, TypeOK
<1>2. write.whole = TRUE /\ write.contents \in Contents
  BY <1>1 DEF Consistent, WriteConsistent, Write
<1>3. survivors' = survivors \cup {write.contents}
  BY <1>1, <1>2
<1>4. /\ write' \in Write /\ write' # NoWrite /\ write'.phase = "renamed"
      /\ write'.contents = write.contents /\ write'.whole = write.whole
  BY <1>1, Distinct DEF Write
<1> QED
  BY <1>1, <1>2, <1>3, <1>4, Distinct DEF Consistent, TypeOK, FileMatches, WriteConsistent, Unrenamed

LEMMA SyncDirectoryConsistent ==
    ASSUME Consistent, SyncDirectory
    PROVE  Consistent'
<1>1. /\ write \in Write /\ write # NoWrite /\ write.phase = "renamed"
      /\ write' = [write EXCEPT !.phase = "synced"]
      /\ memory' = memory /\ job' = job /\ outcome' = outcome
      /\ visible' = visible
      /\ survivors' = {visible} \/ survivors' = survivors
  BY DEF SyncDirectory, Step, Consistent, TypeOK
<1>2. /\ write' \in Write /\ write' # NoWrite /\ write'.phase = "synced"
      /\ write'.contents = write.contents /\ write'.whole = write.whole
  BY <1>1, Distinct DEF Write
<1> QED
  BY <1>1, <1>2, Distinct DEF Consistent, TypeOK, FileMatches, WriteConsistent, Unrenamed

LEMMA FailConsistent ==
    ASSUME Consistent, Fail
    PROVE  Consistent'
<1>1. /\ write # NoWrite /\ write.phase \in Unrenamed
      /\ write' = NoWrite /\ job' = NoJob /\ outcome' = "error"
      /\ memory' = memory /\ visible' = visible /\ survivors' = survivors
  BY DEF Fail, Answer, diskVars, Unrenamed
<1> QED
  BY <1>1, Distinct DEF Consistent, TypeOK, FileMatches, WriteConsistent

\* The value of a renamed secret is saved next.
LEMMA FinishRename ==
    ASSUME Consistent, Finish, job.kind = "rename"
    PROVE  Consistent'
<1>1. /\ write # NoWrite /\ write \in Write /\ write.phase = "synced" /\ outcome = "none"
      /\ memory # Locked /\ memory \in Contents
      /\ job.name \in Name /\ job.value \in Value
      /\ visible = memory
  BY DEF Finish, Consistent, TypeOK, WriteConsistent, Unrenamed
<1> DEFINE contents == With(job.name, job.value)
<1>2. contents \in Contents /\ contents.key = memory.key
  BY <1>1, WithContents
<1>3. /\ memory' = contents
      /\ write' = [contents |-> contents, phase |-> "started", whole |-> FALSE]
      /\ job' = [NoJob EXCEPT !.kind = "save"]
      /\ outcome' = outcome /\ visible' = visible /\ survivors' = survivors
  BY DEF Finish, Replace, diskVars
<1> HIDE DEF contents
<1>4. write' \in Write /\ job' \in Job /\ job' # NoJob /\ job'.kind = "save"
  BY <1>2, <1>3, Distinct DEF Write, Job, NoJob
<1> QED
  BY <1>1, <1>2, <1>3, <1>4, Distinct DEF Consistent, TypeOK, FileMatches, WriteConsistent, Unrenamed

LEMMA FinishOther ==
    ASSUME Consistent, Finish, job.kind # "rename"
    PROVE  Consistent' /\ outcome' = "ok"
<1>1. /\ write # NoWrite /\ write \in Write /\ write.contents \in Contents
      /\ visible = write.contents /\ outcome = "none"
  BY DEF Finish, Consistent, TypeOK, WriteConsistent, Unrenamed, Write
<1>2. /\ write' = NoWrite /\ job' = NoJob /\ outcome' = "ok"
      /\ visible' = visible /\ survivors' = survivors
      /\ memory' = IF job.kind \in {"create", "password"} THEN write.contents ELSE memory
  BY DEF Finish, Answer, diskVars
<1>3. memory' = write.contents
  BY <1>1, <1>2 DEF Consistent, WriteConsistent
<1> QED
  BY <1>1, <1>2, <1>3, Distinct DEF Consistent, TypeOK, FileMatches, WriteConsistent

-----------------------------------------------------------------------------
(* All together.                                                           *)

LEMMA AcknowledgeConsistent ==
    ASSUME Consistent, Acknowledge
    PROVE  Consistent'
BY DEF Acknowledge, diskVars, Consistent, TypeOK, FileMatches, WriteConsistent

LEMMA MachineConsistent ==
    ASSUME Consistent, Machine
    PROVE  Consistent'
<1>1. CASE Flush
  BY <1>1, Distinct DEF Flush, Consistent, TypeOK, FileMatches, WriteConsistent
<1>2. CASE Kill
  BY <1>2, Distinct DEF Kill, Restart, diskVars, Consistent, TypeOK, FileMatches, WriteConsistent
<1>3. CASE PowerLoss
  BY <1>3, Distinct DEF PowerLoss, Restart, Consistent, TypeOK, FileMatches, WriteConsistent
<1> QED
  BY <1>1, <1>2, <1>3 DEF Machine

LEMMA StaysConsistent ==
    ASSUME Consistent, [Next]_vars
    PROVE  Consistent'
<1>1. CASE UNCHANGED vars
  BY <1>1 DEF vars, diskVars, Consistent, TypeOK, FileMatches, WriteConsistent
<1>2. CASE Operation
  BY <1>2, CreateConsistent, UnlockConsistent, ChangePasswordConsistent, SaveConsistent,
     EditConsistent, DeleteConsistent, LockConsistent DEF Operation
<1>3. CASE Writing
  BY <1>3, OpenTemporaryConsistent, WriteTemporaryConsistent, RenameTemporaryConsistent,
     SyncDirectoryConsistent, FailConsistent, FinishRename, FinishOther DEF Writing
<1>4. CASE Acknowledge
  BY <1>4, AcknowledgeConsistent
<1>5. CASE Machine
  BY <1>5, MachineConsistent
<1> QED
  BY <1>1, <1>2, <1>3, <1>4, <1>5 DEF Next

LEMMA InitConsistent == Init => Consistent
<1>1. \A key \in Key : [key |-> key, data |-> Empty] \in Contents
  BY EmptyContents
<1>2. Init => visible \in Contents \cup {NoFile}
  BY <1>1 DEF Init
<1> QED
  BY <1>2, Distinct DEF Init, Consistent, TypeOK, FileMatches, WriteConsistent

-----------------------------------------------------------------------------
(* Theorems.                                                               *)

\* The vault's invariant, however saves fail and machines stop (vault.rs).
THEOREM ConsistentAlways == Spec => []Consistent
<1> QED
  BY InitConsistent, StaysConsistent, PTL DEF Spec

\* Every variable keeps to its type.
THEOREM TypeCorrect == Spec => []TypeOK
<1>1. Consistent => TypeOK
  BY DEF Consistent
<1> QED
  BY <1>1, ConsistentAlways, PTL

\* The file opens with the key in memory, and a reported success is on it
\* (save_with and change_password in vault.rs).
THEOREM FileAlwaysMatches == Spec => []FileMatches
<1>1. Consistent => FileMatches
  BY DEF Consistent
<1> QED
  BY <1>1, ConsistentAlways, PTL

Stays(old) ==
    \/ memory'.data[old] # Missing
    \/ \E new \in Name : /\ memory.data[new] = Missing
                         /\ memory'.data[new] = memory.data[old]

LEMMA SecretsStayStep ==
    ASSUME Consistent, [Next]_vars, memory # Locked, memory' # Locked, job'.kind # "delete",
           NEW old \in Name, memory.data[old] # Missing
    PROVE  Stays(old)
<1>1. memory \in Contents /\ Missing \notin Value
  BY SpecialValues DEF Consistent, TypeOK
<1>2. ASSUME memory' = memory PROVE Stays(old)
  BY <1>2 DEF Stays
<1>3. ASSUME NEW name \in Name, NEW value \in Value, memory' = With(name, value) PROVE Stays(old)
  <2>1. memory'.data = [memory.data EXCEPT ![name] = value]
    BY <1>1, <1>3, WithContents
  <2> QED
    BY <1>1, <2>1 DEF Stays, Contents, Data
<1>4. CASE UNCHANGED vars
  BY <1>2, <1>4 DEF vars
<1>5. CASE Operation
  <2>1. ASSUME NEW key \in Key, Create(key) \/ Unlock(key) \/ ChangePassword(key) PROVE Stays(old)
    BY <1>2, <2>1 DEF Create, Unlock, ChangePassword, Free
  <2>2. ASSUME NEW name \in Name, NEW value \in Value, Save(name, value) PROVE Stays(old)
    BY <1>3, <2>2 DEF Save
  <2>3. ASSUME NEW from \in Name, NEW to \in Name, NEW value \in Value, Edit(from, to, value)
        PROVE  Stays(old)
    <3>1. CASE ~Movable(from, to)
      BY <1>2, <2>3, <3>1 DEF Edit, Refuse
    <3>2. CASE Movable(from, to)
      <4>1. memory'.data = [memory.data EXCEPT ![to] = memory.data[from], ![from] = Missing]
        BY <1>1, <2>3, <3>2, MovedContents DEF Edit
      <4>2. from # to /\ memory.data[to] = Missing
        BY <2>3, <3>2 DEF Edit, Movable
      <4> QED
        BY <1>1, <4>1, <4>2 DEF Stays, Contents, Data
    <3> QED
      BY <3>1, <3>2
  <2>4. ASSUME NEW name \in Name, Delete(name) PROVE Stays(old)
    <3>1. CASE memory.data[name] = Missing
      BY <1>2, <2>4, <3>1 DEF Delete, Refuse
    <3>2. CASE memory.data[name] # Missing
      BY <2>4, <3>2 DEF Delete, Start, NoJob
    <3> QED
      BY <3>1, <3>2
  <2>5. CASE Lock
    BY <2>5 DEF Lock
  <2> QED
    BY <1>5, <2>1, <2>2, <2>3, <2>4, <2>5 DEF Operation
<1>6. CASE Writing
  <2>1. CASE OpenTemporary \/ WriteTemporary \/ RenameTemporary \/ SyncDirectory \/ Fail
    BY <1>2, <2>1 DEF OpenTemporary, WriteTemporary, RenameTemporary, SyncDirectory, Fail, Step
  <2>2. CASE Finish /\ job.kind = "rename"
    <3>1. job.name \in Name /\ job.value \in Value /\ memory' = With(job.name, job.value)
      BY <2>2 DEF Finish, Consistent, WriteConsistent
    <3> QED
      BY <1>3, <3>1
  <2>3. CASE Finish /\ job.kind # "rename"
    <3>1. memory'.data = memory.data
      BY <2>3 DEF Finish, Consistent, WriteConsistent
    <3> QED
      BY <3>1 DEF Stays
  <2> QED
    BY <1>6, <2>1, <2>2, <2>3 DEF Writing
<1>7. CASE Acknowledge
  BY <1>2, <1>7 DEF Acknowledge
<1>8. CASE Machine
  BY <1>2, <1>8 DEF Machine, Flush, Kill, PowerLoss, Restart
<1> QED
  BY <1>4, <1>5, <1>6, <1>7, <1>8 DEF Next

\* Nothing but deleting takes a secret from the open vault (rename and
\* change_password in vault.rs, save_secret in controller.rs).
THEOREM SecretsAlwaysStay == Spec => SecretsStay
<1>1. Consistent /\ [Next]_vars =>
        [memory # Locked /\ memory' # Locked /\ job'.kind # "delete"
          => \A old \in Name : memory.data[old] # Missing =>
                \/ memory'.data[old] # Missing
                \/ \E new \in Name : /\ memory.data[new] = Missing
                                     /\ memory'.data[new] = memory.data[old]]_vars
  BY SecretsStayStep DEF Stays
<1> QED
  BY <1>1, ConsistentAlways, PTL DEF Spec, SecretsStay

-----------------------------------------------------------------------------
(* The key of the file and the key in memory.                              *)

LEMMA MemoryKeyStep ==
    ASSUME Consistent, [Next]_vars, memory # Locked, memory' # Locked, memory'.key # memory.key
    PROVE  visible \in Contents /\ visible.key = memory'.key
<1>1. memory \in Contents
  BY DEF Consistent, TypeOK
<1>2. CASE Operation
  <2>1. ASSUME NEW name \in Name, NEW value \in Value, Save(name, value) PROVE FALSE
    BY <1>1, <2>1, WithContents DEF Save
  <2>2. ASSUME NEW name \in Name, Delete(name) PROVE FALSE
    BY <1>1, <2>2, WithContents DEF Delete, Refuse
  <2>3. ASSUME NEW old \in Name, NEW new \in Name, NEW value \in Value, Edit(old, new, value) PROVE FALSE
    BY <1>1, <2>3, MovedContents DEF Edit, Refuse
  <2> QED
    BY <1>2, <2>1, <2>2, <2>3 DEF Operation, Create, Unlock, ChangePassword, Lock
<1>3. CASE Writing
  <2>1. CASE Finish /\ job.kind = "rename"
    <3>1. job.name \in Name /\ job.value \in Value /\ memory' = With(job.name, job.value)
      BY <2>1 DEF Finish, Consistent, WriteConsistent
    <3> QED
      BY <1>1, <3>1, WithContents
  <2>2. CASE Finish /\ job.kind # "rename"
    BY <2>2, FinishOther DEF Consistent, FileMatches, TypeOK, WriteConsistent, Unrenamed, Finish, Write, Answer, diskVars
  <2> QED
    BY <1>3, <2>1, <2>2 DEF Writing, OpenTemporary, WriteTemporary, RenameTemporary, SyncDirectory, Fail, Step
<1>4. CASE UNCHANGED vars \/ Acknowledge \/ Machine
  BY <1>4 DEF vars, Acknowledge, Machine, Flush, Kill, PowerLoss, Restart
<1> QED
  BY <1>2, <1>3, <1>4 DEF Next

\* A new vault replaces nothing.
CreatesTheFile ==
    write # NoWrite /\ job.kind = "create" /\ write.phase \in Unrenamed => visible = NoFile

LEMMA CreatesStay ==
    ASSUME Consistent, CreatesTheFile, [Next]_vars
    PROVE  CreatesTheFile'
<1> USE DEF CreatesTheFile, Unrenamed
<1>1. CASE Operation
  <2>1. ASSUME NEW name \in Name, NEW value \in Value, Save(name, value) PROVE job'.kind = "save"
    BY <2>1, Distinct DEF Save, Start, NoJob
  <2>2. ASSUME NEW name \in Name, Delete(name) PROVE write' = NoWrite \/ job'.kind = "delete"
    BY <2>2 DEF Delete, Refuse, Answer, Start, NoJob
  <2>3. ASSUME NEW old \in Name, NEW new \in Name, NEW value \in Value, Edit(old, new, value)
        PROVE  write' = NoWrite \/ job'.kind = "rename"
    BY <2>3 DEF Edit, Refuse, Answer
  <2>4. ASSUME NEW key \in Key, Create(key) \/ Unlock(key) \/ ChangePassword(key)
        PROVE  visible' = NoFile \/ write' = NoWrite \/ job'.kind = "password"
    BY <2>4 DEF Create, Unlock, ChangePassword, Answer, Start, NoJob, diskVars
  <2>5. CASE Lock
    BY <2>5 DEF Lock, Open, Free
  <2> QED
    BY <1>1, <2>1, <2>2, <2>3, <2>4, <2>5 DEF Operation
<1>2. CASE OpenTemporary \/ WriteTemporary
  BY <1>2 DEF OpenTemporary, WriteTemporary, Step, diskVars
<1>3. CASE RenameTemporary \/ SyncDirectory
  <2>1. write \in Write /\ write'.phase \in {"renamed", "synced"}
    BY <1>3, Distinct DEF RenameTemporary, SyncDirectory, Step, Consistent, TypeOK, Write
  <2> QED
    BY <2>1
<1>4. CASE Fail
  BY <1>4 DEF Fail, Answer
<1>5. CASE Finish
  BY <1>5 DEF Finish, Answer, NoJob
<1>6. CASE UNCHANGED vars \/ Acknowledge \/ Machine
  BY <1>6 DEF vars, diskVars, Acknowledge, Machine, Flush, Kill, PowerLoss, Restart
<1> QED
  BY <1>1, <1>2, <1>3, <1>4, <1>5, <1>6 DEF Next, Writing

LEMMA FileKeyStep ==
    ASSUME Consistent, CreatesTheFile, [Next]_vars, visible \in Contents, visible' \in Contents, visible'.key # visible.key
    PROVE  job.kind = "password" \/ (memory' = Locked /\ visible' \in survivors)
<1>1. visible' = visible \/ RenameTemporary \/ PowerLoss
  BY DEF Next, vars, diskVars, Operation, Create, Unlock, ChangePassword, Save, Edit, Delete, Lock, Start, Refuse,
     Writing, OpenTemporary, WriteTemporary, SyncDirectory, Fail, Finish, Acknowledge, Machine, Flush, Kill
<1>2. CASE RenameTemporary
  <2>1. write # NoWrite /\ write.phase = "written" /\ visible' = write.contents
    BY <1>2 DEF RenameTemporary, Step
  <2>2. memory # Locked
    BY <2>1, Distinct DEF Consistent, WriteConsistent, CreatesTheFile, Unrenamed
  <2> QED
    BY <2>1, <2>2 DEF Consistent, WriteConsistent, Unrenamed
<1> QED
  BY <1>1, <1>2 DEF PowerLoss, Restart

\* No failed or interrupted change of the password separates the open vault from
\* its file, and no save changes the password (change_password and save_with in
\* vault.rs).
THEOREM PasswordAlwaysTheFiles == Spec => PasswordIsTheFiles
<1>1. Consistent /\ CreatesTheFile /\ [Next]_vars =>
        [/\ memory # Locked /\ memory' # Locked /\ memory'.key # memory.key
              => visible \in Contents /\ visible.key = memory'.key
         /\ visible \in Contents /\ visible' \in Contents /\ visible'.key # visible.key
              => job.kind = "password" \/ (memory' = Locked /\ visible' \in survivors)]_vars
  BY MemoryKeyStep, FileKeyStep
<1>2. Init => CreatesTheFile
  BY DEF Init, CreatesTheFile
<1>3. Consistent /\ CreatesTheFile /\ [Next]_vars => CreatesTheFile'
  BY CreatesStay
<1> QED
  BY <1>1, <1>2, <1>3, ConsistentAlways, PTL DEF Spec, PasswordIsTheFiles

-----------------------------------------------------------------------------
(* The file is a VaultRegister: a save begins with the operation, takes    *)
(* effect with the rename, and is abandoned by an error or the end of the  *)
(* process before it.                                                      *)

LEMMA Begins ==
    ASSUME NEW contents \in Contents, write = NoWrite \/ write.phase \notin Unrenamed,
           write' = [contents |-> contents, phase |-> "started", whole |-> FALSE],
           visible' = visible, survivors' = survivors
    PROVE  Register!Next
<1>1. write' # NoWrite
  <2>1. write' \in Write
    BY DEF Write
  <2> QED
    BY <2>1, Distinct
<1>2. Register!Begin(contents)
  BY <1>1 DEF Register!Begin, Unrenamed
<1> QED
  BY <1>2 DEF Register!Next

\* An operation that starts no save.
LEMMA Idles ==
    ASSUME write = NoWrite \/ write.phase \notin Unrenamed, write' = NoWrite,
           visible' = visible, survivors' = survivors
    PROVE  UNCHANGED Register!vars
BY DEF Register!vars, Unrenamed

LEMMA OperationIsRegistered ==
    ASSUME Consistent, Operation
    PROVE  [Register!Next]_(Register!vars)
<1>1. ASSUME NEW key \in Key, Create(key) PROVE Register!Next
  <2>1. [key |-> key, data |-> Empty] \in Contents
    BY EmptyContents
  <2> QED
    BY <1>1, <2>1, Begins DEF Create, Free, Start, Replace, diskVars
<1>2. ASSUME NEW key \in Key, Unlock(key) PROVE UNCHANGED Register!vars
  BY <1>2, Idles DEF Unlock, Free, Answer, diskVars
<1>3. ASSUME NEW key \in Key, ChangePassword(key) PROVE Register!Next
  <2>1. [memory EXCEPT !.key = key] \in Contents
    BY <1>3, Rekeyed DEF ChangePassword, Open, Consistent, TypeOK
  <2> QED
    BY <1>3, <2>1, Begins DEF ChangePassword, Open, Free, Start, Replace, diskVars
<1>4. ASSUME NEW name \in Name, NEW value \in Value, Save(name, value) PROVE Register!Next
  <2>1. With(name, value) \in Contents
    BY <1>4, WithContents DEF Save, Open, Consistent, TypeOK
  <2> QED
    BY <1>4, <2>1, Begins DEF Save, Open, Free, Start, Replace, diskVars
<1>5. ASSUME NEW old \in Name, NEW new \in Name, NEW value \in Value, Edit(old, new, value)
      PROVE  [Register!Next]_(Register!vars)
  <2>1. CASE ~Movable(old, new)
    BY <1>5, <2>1, Idles DEF Edit, Refuse, Answer, Open, Free, diskVars
  <2>2. CASE Movable(old, new)
    <3>1. Moved(old, new) \in Contents
      BY <1>5, <2>2, MovedContents DEF Edit, Open, Consistent, TypeOK
    <3> QED
      BY <1>5, <2>2, <3>1, Begins DEF Edit, Open, Free, Replace, diskVars
  <2> QED
    BY <2>1, <2>2
<1>6. ASSUME NEW name \in Name, Delete(name) PROVE [Register!Next]_(Register!vars)
  <2>1. CASE memory.data[name] = Missing
    BY <1>6, <2>1, Idles DEF Delete, Refuse, Answer, Open, Free, diskVars
  <2>2. CASE memory.data[name] # Missing
    <3>1. With(name, Missing) \in Contents
      BY <1>6, WithContents DEF Delete, Open, Consistent, TypeOK
    <3> QED
      BY <1>6, <2>2, <3>1, Begins DEF Delete, Open, Free, Start, Replace, diskVars
  <2> QED
    BY <2>1, <2>2
<1>7. CASE Lock
  BY <1>7 DEF Lock, Register!vars, diskVars
<1> QED
  BY <1>1, <1>2, <1>3, <1>4, <1>5, <1>6, <1>7 DEF Operation

LEMMA WritingIsRegistered ==
    ASSUME Consistent, Writing
    PROVE  [Register!Next]_(Register!vars)
<1>1. write \in Write /\ write # NoWrite /\ write.contents \in Contents /\ write.contents # NoWrite
  BY Distinct DEF Writing, OpenTemporary, WriteTemporary, RenameTemporary, SyncDirectory, Fail,
     Finish, Step, Consistent, TypeOK, Write
<1>2. ASSUME NEW to \in {"opened", "written", "renamed", "synced"}
      PROVE  LET w == [write EXCEPT !.phase = to]
             IN  w # NoWrite /\ w.contents = write.contents /\ w.phase = to
  BY <1>1, Distinct DEF Write
<1>3. CASE OpenTemporary
  BY <1>1, <1>2, <1>3 DEF OpenTemporary, Step, Register!vars, diskVars
<1>4. CASE WriteTemporary
  <2>1. write' # NoWrite /\ write'.contents = write.contents /\ write'.phase = "written"
    BY <1>1, <1>4, Distinct DEF WriteTemporary, Write
  <2> QED
    BY <1>4, <2>1 DEF WriteTemporary, Register!vars, diskVars
<1>5. CASE RenameTemporary
  <2>1. /\ visible' = write.contents /\ survivors' = survivors \cup {write.contents}
        /\ write' # NoWrite /\ write.phase = "written" /\ write'.phase = "renamed"
    BY <1>1, <1>2, <1>5 DEF RenameTemporary, Step, Consistent, WriteConsistent
  <2>2. Register!Commit
    BY <1>1, <2>1 DEF Register!Commit
  <2> QED
    BY <2>2 DEF Register!Next
<1>6. CASE SyncDirectory
  <2>1. /\ write' # NoWrite /\ write.phase = "renamed" /\ write'.phase = "synced"
        /\ visible' = visible /\ survivors' \in {{visible}, survivors}
    BY <1>1, <1>2, <1>6 DEF SyncDirectory, Step
  <2>2. CASE survivors' = survivors
    BY <1>1, <2>1, <2>2 DEF Register!vars
  <2>3. CASE survivors' = {visible}
    <3>1. Register!Settle
      BY <1>1, <2>1, <2>3 DEF Register!Settle
    <3> QED
      BY <3>1 DEF Register!Next
  <2> QED
    BY <2>1, <2>2, <2>3
<1>7. CASE Fail
  <2>1. Register!Abandon
    BY <1>1, <1>7 DEF Fail, Answer, diskVars, Register!Abandon
  <2> QED
    BY <2>1 DEF Register!Next
<1>8. CASE Finish /\ job.kind = "rename"
  <2>1. With(job.name, job.value) \in Contents
    BY <1>1, <1>8, WithContents DEF Consistent, TypeOK, WriteConsistent
  <2> QED
    BY <1>8, <2>1, Begins DEF Finish, Replace, diskVars, Unrenamed
<1>9. CASE Finish /\ job.kind # "rename"
  BY <1>9, Idles DEF Finish, Answer, diskVars, Unrenamed
<1> QED
  BY <1>3, <1>4, <1>5, <1>6, <1>7, <1>8, <1>9 DEF Writing

\* The end of the process gives up a save that is not yet visible.
LEMMA StopIsRegistered ==
    ASSUME Consistent, Kill \/ PowerLoss
    PROVE  [Register!Next]_(Register!vars)
<1>1. CASE PowerLoss
  <2>1. Register!PowerLoss
    BY <1>1 DEF PowerLoss, Restart, Register!PowerLoss
  <2> QED
    BY <2>1 DEF Register!Next
<1>2. CASE Kill /\ (write = NoWrite \/ write.phase \notin Unrenamed)
  BY <1>2, Idles DEF Kill, Restart, diskVars
<1>3. CASE Kill /\ write # NoWrite /\ write.phase \in Unrenamed
  <2>1. write.contents # NoWrite
    BY <1>3, Distinct DEF Consistent, TypeOK, Write
  <2>2. Register!Abandon
    BY <1>3, <2>1 DEF Kill, Restart, diskVars, Unrenamed, Register!Abandon
  <2> QED
    BY <2>2 DEF Register!Next
<1> QED
  BY <1>1, <1>2, <1>3

LEMMA StepIsRegistered ==
    ASSUME Consistent, [Next]_vars
    PROVE  [Register!Next]_(Register!vars)
<1>1. CASE UNCHANGED vars
  BY <1>1 DEF vars, diskVars, Register!vars
<1>2. CASE Acknowledge
  BY <1>2 DEF Acknowledge, diskVars, Register!vars
<1>3. CASE Flush
  <2>1. Register!Settle
    BY <1>3 DEF Flush, Register!Settle
  <2> QED
    BY <2>1 DEF Register!Next
<1> QED
  BY <1>1, <1>2, <1>3, OperationIsRegistered, WritingIsRegistered, StopIsRegistered DEF Next, Machine

\* The file is always one that a save wrote as a whole (atomic_write in vault.rs).
THEOREM VaultIsRegister == Spec => ImplementsRegister
<1>1. Init => Register!Init
  <2>1. \A key \in Key : [key |-> key, data |-> Empty] \in Contents
    BY EmptyContents
  <2> QED
    BY <2>1 DEF Init, Register!Init
<1>2. Consistent /\ [Next]_vars => [Register!Next]_(Register!vars)
  BY StepIsRegistered
<1> QED
  BY <1>1, <1>2, ConsistentAlways, PTL DEF Spec, ImplementsRegister, Register!Spec

\* Every VaultRegister keeps its promise, whatever is stored in it.
THEOREM RegisterKeepsWhole == Register!Spec => []Register!AlwaysWhole
<1> USE DEF Register!AlwaysWhole
<1>1. Register!Init => Register!AlwaysWhole
  BY DEF Register!Init
<1>2. Register!AlwaysWhole /\ [Register!Next]_(Register!vars) => Register!AlwaysWhole'
  <2> SUFFICES ASSUME Register!AlwaysWhole, [Register!Next]_(Register!vars)
               PROVE  Register!AlwaysWhole'
    OBVIOUS
  <2> QED
    BY DEF Register!Next, Register!vars, Register!Begin, Register!Commit, Register!Abandon, Register!Settle,
       Register!PowerLoss
<1> QED
  BY <1>1, <1>2, PTL DEF Register!Spec

\* No error, kill or power loss at any step of a save leaves a damaged file
\* (atomic_write in vault.rs).
THEOREM FileAlwaysWhole == Spec => []Register!AlwaysWhole
BY VaultIsRegister, RegisterKeepsWhole DEF ImplementsRegister

==============================================================================
