----------------------------- MODULE MainViewProofs -----------------------------
(***************************************************************************)
(* The main window over the vault: every step of the window is a step of   *)
(* the vault, so that what VaultProofs shows of the vault holds under it,  *)
(* and a locked vault shows nothing, for any names, values and keys.       *)
(***************************************************************************)
EXTENDS MainView, VaultProofs

ViewTyped ==
    /\ window \in BOOLEAN
    /\ modal \in [form : {"none", "secret", "delete", "password"}, subject : Name \cup {NoName}]
    /\ typed \in [auth : Key \cup {NoKey}, name : Name \cup {NoName},
                  value : Value \cup {Missing}, password : Key \cup {NoKey}]
    /\ revealed \in [name : Name, value : Value] \cup {NoName}
    /\ handler \in {"none", "auth", "secret", "delete", "password"}

\* Nothing is on display but what is typed into the lock screen.
Bare == /\ revealed = NoName /\ modal = NoModal
        /\ typed = [Blank EXCEPT !.auth = typed.auth]

\* What a handler that waits for the vault found when it began, and leaves until
\* the answer is there.
HandlerConsistent ==
    /\ handler # "none" => window
    /\ handler = "auth" =>
          /\ Bare
          /\ write # NoWrite => job.kind = "create"
          /\ outcome = "error" => memory = Locked
          /\ write = NoWrite => outcome # "none"
    /\ handler \in {"secret", "delete", "password"} => memory # Locked /\ typed.auth = NoKey

\* The inductive invariant of the window.
ViewConsistent ==
    /\ ViewTyped
    /\ ~window => modal = NoModal /\ typed = Blank /\ revealed = NoName /\ handler = "none"
    /\ handler = "none" => Free
    /\ modal.form = "delete" => modal.subject \in Name
    /\ HandlerConsistent
    /\ LockedShowsNothing

-----------------------------------------------------------------------------
(* The window does to the vault what the vault can do.                     *)

LEMMA ClicksAreOperations ==
    ASSUME ViewConsistent, Clicks
    PROVE  [Operation]_vars
<1> USE DEF ViewConsistent, ViewTyped
<1>1. CASE SubmitAuth
  <2>1. typed.auth \in Key
    BY <1>1 DEF SubmitAuth
  <2>2. Create(typed.auth) \/ Unlock(typed.auth)
    BY <1>1 DEF SubmitAuth
  <2> QED
    BY <2>1, <2>2 DEF Operation
<1>2. CASE \E name \in Name : OpenSecret(name) \/ Reveal(name) \/ AskDelete(name)
  BY <1>2 DEF OpenSecret, Reveal, AskDelete
<1>3. CASE OpenNewSecret \/ OpenPassword \/ CloseModal
  BY <1>3 DEF OpenNewSecret, OpenPassword, CloseModal
<1>4. CASE SaveSecret
  <2>1. typed.name \in Name /\ typed.value \in Value
    BY <1>4 DEF SaveSecret
  <2>2. CASE modal.subject \in {NoName, typed.name}
    BY <1>4, <2>1, <2>2 DEF SaveSecret, Operation
  <2>3. CASE modal.subject \notin {NoName, typed.name}
    <3>1. modal.subject \in Name
      BY <2>3
    <3>2. Edit(modal.subject, typed.name, typed.value)
      BY <1>4, <2>3 DEF SaveSecret
    <3> QED
      BY <2>1, <3>1, <3>2 DEF Operation
  <2> QED
    BY <2>2, <2>3
<1>5. CASE DeleteSecret
  BY <1>5 DEF DeleteSecret, Operation
<1>6. CASE SavePassword
  <2>1. typed.password \in Key /\ ChangePassword(typed.password)
    BY <1>6 DEF SavePassword
  <2> QED
    BY <2>1 DEF Operation
<1>7. CASE LockButton
  BY <1>7 DEF LockButton, Operation
<1> QED
  BY <1>1, <1>2, <1>3, <1>4, <1>5, <1>6, <1>7 DEF Clicks

LEMMA ViewStepsAreVaultSteps ==
    ASSUME ViewConsistent, [ViewNext]_allVars
    PROVE  [Next]_vars
<1>1. CASE UNCHANGED allVars \/ Typing \/ OpenMain \/ CloseMain
  BY <1>1 DEF allVars, Typing, TypeAuth, TypePassword, TypeSecret, OpenMain, CloseMain
<1>2. CASE Clicks
  BY <1>2, ClicksAreOperations DEF Next
<1>3. CASE Answered \/ TrayLock
  BY <1>3 DEF Answered, TrayLock, Next, Operation
<1>4. CASE Writing \/ Flush \/ Kill \/ PowerLoss
  BY <1>4 DEF Next, Machine
<1> QED
  BY <1>1, <1>2, <1>3, <1>4 DEF ViewNext, Crash

-----------------------------------------------------------------------------
(* The invariant, action by action.                                        *)

LEMMA TypingConsistent ==
    ASSUME ViewConsistent, Typing
    PROVE  ViewConsistent'
<1>1. ASSUME NEW key \in Key, TypeAuth(key) PROVE ViewConsistent'
  <2>1. /\ typed' = [typed EXCEPT !.auth = key] /\ Bare
        /\ handler = "none" /\ window /\ memory = Locked
        /\ UNCHANGED <<vars, window, modal, revealed, handler>>
    BY <1>1 DEF TypeAuth, Idle, ViewConsistent, LockedShowsNothing, Bare
  <2>2. typed' = [Blank EXCEPT !.auth = key] /\ typed'.auth = key
    BY <2>1 DEF Bare, Blank
  <2>3. typed' = [Blank EXCEPT !.auth = typed'.auth]
    BY <2>2
  <2>4. ViewTyped'
    BY <2>1 DEF ViewConsistent, ViewTyped
  <2> QED
    BY <2>1, <2>3, <2>4 DEF ViewConsistent, HandlerConsistent, LockedShowsNothing, Bare, Idle, Free, vars, diskVars
<1>2. ASSUME NEW key \in Key, TypePassword(key) PROVE ViewConsistent'
  BY <1>2 DEF TypePassword, Showing, Idle, ViewConsistent, ViewTyped, HandlerConsistent, LockedShowsNothing, Free, vars, diskVars
<1>3. ASSUME NEW name \in Name, NEW value \in Value, TypeSecret(name, value) PROVE ViewConsistent'
  BY <1>3 DEF TypeSecret, Showing, Idle, ViewConsistent, ViewTyped, HandlerConsistent, LockedShowsNothing, Free, vars, diskVars
<1> QED
  BY <1>1, <1>2, <1>3 DEF Typing

\* Clicks that leave the vault alone.
LEMMA FormsConsistent ==
    ASSUME Consistent, ViewConsistent,
           \/ \E name \in Name : OpenSecret(name) \/ Reveal(name) \/ AskDelete(name)
           \/ OpenNewSecret \/ OpenPassword \/ CloseModal
    PROVE  ViewConsistent'
<1> USE DEF Idle, Showing, Plain, Show, ViewConsistent, ViewTyped, HandlerConsistent, LockedShowsNothing,
            Free, vars, diskVars
<1>1. \A name \in Name : memory # Locked => memory.data[name] \in Value \cup {Missing}
  BY DEF Consistent, TypeOK, Contents, Data
<1>2. ASSUME NEW name \in Name, OpenSecret(name) PROVE ViewConsistent'
  BY <1>1, <1>2 DEF OpenSecret
<1>3. ASSUME NEW name \in Name, Reveal(name) PROVE ViewConsistent'
  <2>1. [name |-> name, value |-> memory.data[name]] \in [name : Name, value : Value]
    BY <1>1, <1>3 DEF Reveal, Listed
  <2> QED
    BY <1>3, <2>1 DEF Reveal
<1>4. ASSUME NEW name \in Name, AskDelete(name) PROVE ViewConsistent'
  BY <1>4 DEF AskDelete
<1>5. CASE OpenNewSecret
  BY <1>5 DEF OpenNewSecret
<1>6. CASE OpenPassword
  BY <1>6 DEF OpenPassword
<1>7. CASE CloseModal
  BY <1>7 DEF CloseModal, NoModal
<1> QED
  BY <1>2, <1>3, <1>4, <1>5, <1>6, <1>7

LEMMA SubmitConsistent ==
    ASSUME Consistent, ViewConsistent, SubmitAuth
    PROVE  ViewConsistent'
<1>1. /\ Bare /\ window /\ memory = Locked /\ handler' = "auth"
      /\ UNCHANGED <<window, modal, typed, revealed>>
  BY DEF SubmitAuth, Idle, ViewConsistent, LockedShowsNothing, Bare
<1>2. /\ write' # NoWrite => job'.kind = "create"
      /\ outcome' = "error" => memory' = Locked
      /\ write' = NoWrite => outcome' # "none"
  <2>1. CASE Create(typed.auth)
    <3>1. write' \in Write
      BY <2>1, EmptyContents, <1>1 DEF Create, Start, Replace, Write, SubmitAuth, ViewConsistent, ViewTyped
    <3> QED
      BY <2>1, <3>1, Distinct DEF Create, Start, NoJob, Free
  <2>2. CASE Unlock(typed.auth)
    BY <1>1, <2>2 DEF Unlock, Answer
  <2> QED
    BY <2>1, <2>2 DEF SubmitAuth
<1> QED
  BY <1>1, <1>2 DEF ViewConsistent, ViewTyped, HandlerConsistent, LockedShowsNothing, Bare, Idle

\* Clicks whose handler waits for an open vault.
LEMMA EditingConsistent ==
    ASSUME Consistent, ViewConsistent, SaveSecret \/ DeleteSecret \/ SavePassword
    PROVE  ViewConsistent'
<1>1. /\ window /\ memory # Locked /\ handler = "none" /\ handler' \in {"secret", "delete", "password"}
      /\ UNCHANGED <<window, modal, typed, revealed>>
  BY DEF SaveSecret, DeleteSecret, SavePassword, Showing, Idle
<1>2. memory' # Locked
  <2>1. memory \in Contents
    BY <1>1 DEF Consistent, TypeOK
  <2>2. CASE SaveSecret
    <3>1. typed.name \in Name /\ typed.value \in Value /\ modal.subject \in Name \cup {NoName}
      BY <2>2 DEF SaveSecret, ViewConsistent, ViewTyped
    <3>2. CASE Save(typed.name, typed.value)
      <4>1. With(typed.name, typed.value) \in Contents
        BY <2>1, <3>1, WithContents
      <4> QED
        BY <3>2, <4>1, Distinct DEF Save
    <3>3. CASE modal.subject \in Name /\ Edit(modal.subject, typed.name, typed.value)
      <4>1. CASE memory' = memory
        BY <1>1, <4>1
      <4>2. CASE Movable(modal.subject, typed.name) /\ memory' = Moved(modal.subject, typed.name)
        <5>1. Moved(modal.subject, typed.name) \in Contents
          BY <2>1, <3>1, <3>3, <4>2, MovedContents
        <5> QED
          BY <4>2, <5>1, Distinct
      <4> QED
        BY <3>3, <4>1, <4>2 DEF Edit, Refuse
    <3> QED
      BY <2>2, <3>1, <3>2, <3>3 DEF SaveSecret
  <2>3. CASE DeleteSecret
    <3>1. modal.subject \in Name /\ Delete(modal.subject)
      BY <2>3 DEF DeleteSecret, ViewConsistent
    <3>2. With(modal.subject, Missing) \in Contents
      BY <2>1, <3>1, WithContents
    <3>3. memory' = memory \/ memory' = With(modal.subject, Missing)
      BY <3>1 DEF Delete, Refuse
    <3> QED
      BY <1>1, <3>2, <3>3, Distinct
  <2>4. CASE SavePassword
    BY <1>1, <2>4 DEF SavePassword, ChangePassword
  <2> QED
    BY <2>2, <2>3, <2>4
<1> QED
  BY <1>1, <1>2 DEF ViewConsistent, ViewTyped, HandlerConsistent, LockedShowsNothing, Idle

\* Clearing everything, when the vault is locked or the view goes.
LEMMA Cleared ==
    ASSUME ViewTyped, ClearSensitive, window' \in BOOLEAN, handler' = "none", Free'
    PROVE  ViewConsistent'
<1>1. typed' = Blank /\ modal' = NoModal /\ revealed' = NoName
  BY DEF ClearSensitive
<1>2. Blank = [Blank EXCEPT !.auth = Blank.auth] /\ Blank.auth = NoKey
  BY DEF Blank
<1>3. ViewTyped'
  BY <1>1 DEF ViewTyped, Blank, NoModal
<1>4. LockedShowsNothing'
  BY <1>1, <1>2 DEF LockedShowsNothing
<1> QED
  BY <1>1, <1>3, <1>4 DEF ViewConsistent, HandlerConsistent, NoModal

LEMMA LockingConsistent ==
    ASSUME Consistent, ViewConsistent, LockButton \/ TrayLock
    PROVE  ViewConsistent'
<1>1. Lock /\ handler' = "none" /\ window' = window
  BY DEF LockButton, TrayLock, Plain, Showing, Idle
<1>2. Free'
  BY <1>1 DEF Lock, Open, Free
<1>3. ClearSensitive
  BY DEF LockButton, TrayLock, ClearSensitive, ViewConsistent
<1> QED
  BY <1>1, <1>2, <1>3, Cleared DEF ViewConsistent, ViewTyped

LEMMA AnsweredConsistent ==
    ASSUME Consistent, ViewConsistent, Answered
    PROVE  ViewConsistent'
<1>1. /\ outcome \in {"ok", "error"} /\ outcome' = "none" /\ write = NoWrite
      /\ handler' = "none" /\ UNCHANGED <<memory, diskVars, write, job, window>>
  BY DEF Answered, Acknowledge, Consistent, TypeOK
<1>2. handler # "none" /\ window
  BY <1>1 DEF ViewConsistent, HandlerConsistent, Free
<1>3. Free'
  BY <1>1 DEF Free
<1>4. CASE handler = "auth" /\ outcome = "ok"
  <2>1. memory # Locked
    BY <1>4 DEF Consistent, FileMatches
  <2>2. typed' = [typed EXCEPT !.auth = NoKey] /\ modal' = modal /\ revealed' = revealed
    BY <1>4 DEF Answered, Succeed
  <2> QED
    BY <1>1, <1>2, <1>3, <2>1, <2>2 DEF ViewConsistent, ViewTyped, HandlerConsistent, LockedShowsNothing
<1>5. CASE handler = "auth" /\ outcome # "ok"
  <2>1. memory = Locked /\ Bare
    BY <1>1, <1>5 DEF ViewConsistent, HandlerConsistent
  <2>2. UNCHANGED <<typed, modal, revealed>>
    BY <1>5 DEF Answered
  <2> QED
    BY <1>1, <1>2, <1>3, <2>1, <2>2 DEF ViewConsistent, ViewTyped, HandlerConsistent, LockedShowsNothing, Bare
<1>6. CASE handler # "auth"
  <2>1. memory # Locked /\ typed.auth = NoKey /\ handler \in {"secret", "delete", "password"}
    BY <1>2, <1>6 DEF ViewConsistent, ViewTyped, HandlerConsistent
  <2>2. /\ typed' \in {typed, [typed EXCEPT !.name = NoName, !.value = Missing],
                       [typed EXCEPT !.password = NoKey]}
        /\ modal' \in {modal, NoModal}
        /\ revealed' \in {revealed, NoName}
    BY <2>1 DEF Answered, Succeed
  <2>3. ViewTyped' /\ typed'.auth = NoKey
    <3>1. /\ typed' \in [auth : Key \cup {NoKey}, name : Name \cup {NoName},
                         value : Value \cup {Missing}, password : Key \cup {NoKey}]
          /\ typed'.auth = NoKey
      BY <2>1, <2>2 DEF ViewConsistent, ViewTyped
    <3>2. /\ modal' \in [form : {"none", "secret", "delete", "password"}, subject : Name \cup {NoName}]
          /\ revealed' \in [name : Name, value : Value] \cup {NoName}
      BY <2>2 DEF ViewConsistent, ViewTyped, NoModal
    <3> QED
      BY <1>1, <3>1, <3>2 DEF ViewConsistent, ViewTyped
  <2>4. modal'.form = "delete" => modal'.subject \in Name
    BY <2>2 DEF ViewConsistent, NoModal
  <2> QED
    BY <1>1, <1>2, <1>3, <2>1, <2>3, <2>4 DEF ViewConsistent, HandlerConsistent, LockedShowsNothing
<1> QED
  BY <1>4, <1>5, <1>6

\* A save goes on behind the handler that waits for it.
LEMMA WritingConsistent ==
    ASSUME Consistent, ViewConsistent, Writing, UNCHANGED viewVars
    PROVE  ViewConsistent'
<1>1. write # NoWrite /\ handler # "none" /\ outcome = "none"
  BY DEF Writing, OpenTemporary, WriteTemporary, RenameTemporary, SyncDirectory, Fail, Finish, Step,
     ViewConsistent, Free, Consistent, TypeOK
<1>2. CASE OpenTemporary \/ WriteTemporary \/ RenameTemporary \/ SyncDirectory
  <2>1. UNCHANGED <<memory, job, outcome>>
    BY <1>2 DEF OpenTemporary, WriteTemporary, RenameTemporary, SyncDirectory, Step
  <2>2. write' # NoWrite
    <3>1. write \in Write
      BY <1>1 DEF Consistent, TypeOK
    <3>2. write' \in Write
      BY <1>2, <3>1 DEF OpenTemporary, WriteTemporary, RenameTemporary, SyncDirectory, Step, Write
    <3> QED
      BY <3>2, Distinct
  <2> QED
    BY <1>1, <2>1, <2>2 DEF viewVars, ViewConsistent, ViewTyped, HandlerConsistent, LockedShowsNothing, Bare, Idle
<1>3. CASE Fail
  <2>1. memory' = memory /\ write' = NoWrite /\ outcome' = "error"
    BY <1>3 DEF Fail, Answer
  <2>2. handler = "auth" => memory = Locked
    BY <1>1 DEF Consistent, WriteConsistent, ViewConsistent, HandlerConsistent
  <2> QED
    BY <1>1, <2>1, <2>2 DEF viewVars, ViewConsistent, ViewTyped, HandlerConsistent, LockedShowsNothing, Bare, Idle
<1>4. CASE Finish /\ job.kind = "rename"
  <2>1. handler # "auth"
    BY <1>1, <1>4 DEF ViewConsistent, HandlerConsistent
  <2>2. memory \in Contents /\ job.name \in Name /\ job.value \in Value
    BY <1>1, <1>4 DEF Consistent, TypeOK, WriteConsistent
  <2>3. memory' = With(job.name, job.value)
    BY <1>4 DEF Finish
  <2>4. memory' # Locked
    BY <2>2, <2>3, WithContents, Distinct
  <2> QED
    BY <1>1, <2>1, <2>4 DEF viewVars, ViewConsistent, ViewTyped, HandlerConsistent, LockedShowsNothing, Idle
<1>5. CASE Finish /\ job.kind # "rename"
  <2>1. outcome' = "ok" /\ write' = NoWrite /\ memory' # Locked
    BY <1>5, FinishOther DEF Consistent, FileMatches, Finish, Answer
  <2> QED
    BY <1>1, <2>1 DEF viewVars, ViewConsistent, ViewTyped, HandlerConsistent, LockedShowsNothing, Bare, Idle
<1> QED
  BY <1>2, <1>3, <1>4, <1>5 DEF Writing

LEMMA WindowConsistent ==
    ASSUME ViewConsistent, OpenMain \/ CloseMain \/ Crash
    PROVE  ViewConsistent'
<1>1. CASE OpenMain
  BY <1>1 DEF OpenMain, vars, diskVars, ViewConsistent, ViewTyped, HandlerConsistent, LockedShowsNothing, Idle, Free
<1>2. CASE CloseMain
  <2>1. Free'
    BY <1>2 DEF CloseMain, Idle, ViewConsistent, Free, vars
  <2> QED
    BY <1>2, <2>1, Cleared DEF CloseMain, NoView, ViewConsistent
<1>3. CASE Crash
  <2>1. Free'
    BY <1>3 DEF Crash, Kill, PowerLoss, Restart, Free
  <2> QED
    BY <1>3, <2>1, Cleared DEF Crash, NoView, ViewConsistent
<1> QED
  BY <1>1, <1>2, <1>3

LEMMA StaysViewConsistent ==
    ASSUME Consistent, ViewConsistent, [ViewNext]_allVars
    PROVE  ViewConsistent'
<1>1. CASE UNCHANGED allVars
  BY <1>1 DEF allVars, vars, diskVars, viewVars, ViewConsistent, ViewTyped, HandlerConsistent, LockedShowsNothing,
     Bare, Idle, Free
<1>2. CASE Clicks
  BY <1>2, FormsConsistent, SubmitConsistent, EditingConsistent, LockingConsistent DEF Clicks
<1>3. CASE Flush /\ UNCHANGED viewVars
  BY <1>3 DEF Flush, viewVars, ViewConsistent, ViewTyped, HandlerConsistent, LockedShowsNothing, Bare, Idle, Free
<1> QED
  BY <1>1, <1>2, <1>3, TypingConsistent, AnsweredConsistent, LockingConsistent, WindowConsistent,
     WritingConsistent DEF ViewNext

LEMMA ViewInitConsistent == ViewInit => ViewConsistent
<1>1. Blank = [Blank EXCEPT !.auth = Blank.auth]
  BY DEF Blank
<1>2. ASSUME ViewInit PROVE ViewTyped /\ Free
  BY <1>2 DEF ViewInit, ViewTyped, Blank, NoModal, Init, Free
<1>3. ASSUME ViewInit PROVE LockedShowsNothing
  BY <1>1, <1>3 DEF ViewInit, Init, LockedShowsNothing
<1>4. NoModal.form # "delete"
  BY DEF NoModal
<1> QED
  BY <1>2, <1>3, <1>4 DEF ViewInit, ViewConsistent, HandlerConsistent

-----------------------------------------------------------------------------
(* Theorems.                                                               *)

LEMMA ViewInvariant == ViewSpec => [](Consistent /\ ViewConsistent)
<1>1. ViewInit => Consistent /\ ViewConsistent
  BY InitConsistent, ViewInitConsistent DEF ViewInit
<1>2. Consistent /\ ViewConsistent /\ [ViewNext]_allVars => (Consistent /\ ViewConsistent)'
  BY StaysConsistent, StaysViewConsistent, ViewStepsAreVaultSteps
<1> QED
  BY <1>1, <1>2, PTL DEF ViewSpec

\* Under the window the vault is the vault: what is proved of VaultStore holds.
THEOREM ViewKeepsVault == ViewSpec => Spec
<1>1. ViewInit => Init
  BY DEF ViewInit
<1>2. ViewConsistent /\ [ViewNext]_allVars => [Next]_vars
  BY ViewStepsAreVaultSteps
<1> QED
  BY <1>1, <1>2, ViewInvariant, PTL DEF ViewSpec, Spec

\* A save, a crash or a power loss that the window lives through leaves the file
\* whole, no edit swallows a secret, and the password is the file's.
THEOREM VaultUnderView == ViewSpec => []FileMatches /\ SecretsStay /\ PasswordIsTheFiles /\ ImplementsRegister
BY ViewKeepsVault, FileAlwaysMatches, SecretsAlwaysStay, PasswordAlwaysTheFiles, VaultIsRegister

\* Every variable of the window keeps to its type, and a window that is closed
\* has no forms and no handler.
THEOREM ViewTypeCorrect == ViewSpec => []ViewTypeOK
<1>1. Consistent /\ ViewConsistent => ViewTypeOK
  BY DEF Consistent, ViewConsistent, ViewTyped, ViewTypeOK
<1> QED
  BY <1>1, ViewInvariant, PTL

\* Locking, from the header or from the tray, clears what was shown
\* (lock_vault and clear_sensitive in app.rs, dispatch in runtime.rs).
THEOREM LockedAlwaysShowsNothing == ViewSpec => []LockedShowsNothing
<1>1. ViewConsistent => LockedShowsNothing
  BY DEF ViewConsistent
<1> QED
  BY <1>1, ViewInvariant, PTL

==============================================================================
