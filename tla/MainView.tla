-------------------------------- MODULE MainView --------------------------------
(***************************************************************************)
(* The main window (app.rs, MainView) over the vault: what its forms hold  *)
(* and what it reveals, while the vault is opened, edited and locked, from *)
(* the window itself or from the tray.  Handlers run on the main thread    *)
(* and keep it until the vault has answered.  The window is opened, closed *)
(* and dropped at any time in between (runtime.rs).                        *)
(***************************************************************************)
EXTENDS VaultStore

CONSTANT NoKey           \* an empty password input

VARIABLES window,        \* the main window is open, and has its view
          modal,         \* MainView.modal: the form on top and what it is about
          typed,         \* the input buffers
          revealed,      \* the name and the value on display, or NoName
          handler        \* the handler that waits for the vault, or "none"

viewVars == <<window, modal, typed, revealed, handler>>
allVars  == <<vars, viewVars>>

NoModal == [form |-> "none", subject |-> NoName]
Blank   == [auth |-> NoKey, name |-> NoName, value |-> Missing, password |-> NoKey]

ViewTypeOK ==
    /\ TypeOK
    /\ window \in BOOLEAN
    /\ modal \in [form : {"none", "secret", "delete", "password"}, subject : Name \cup {NoName}]
    /\ typed \in [auth : Key \cup {NoKey}, name : Name \cup {NoName},
                  value : Value \cup {Missing}, password : Key \cup {NoKey}]
    /\ revealed \in [name : Name, value : Value] \cup {NoName}
    /\ handler \in {"none", "auth", "secret", "delete", "password"}
    /\ ~window => modal = NoModal /\ typed = Blank /\ revealed = NoName /\ handler = "none"
    /\ handler = "none" => Free

ViewInit ==
    /\ Init
    /\ window = FALSE
    /\ modal = NoModal
    /\ typed = Blank
    /\ revealed = NoName
    /\ handler = "none"

Idle   == handler = "none"
Showing == Idle /\ window /\ memory # Locked
Plain  == Showing /\ modal = NoModal      \* an open form covers everything else

Listed(name) == memory.data[name] # Missing

-----------------------------------------------------------------------------
(* The lock screen.                                                        *)

TypeAuth(key) ==
    /\ Idle /\ window /\ memory = Locked
    /\ typed' = [typed EXCEPT !.auth = key]
    /\ UNCHANGED <<vars, window, modal, revealed, handler>>

\* submit_auth_form(): creates the vault when there is no file.
SubmitAuth ==
    /\ Idle /\ window /\ memory = Locked
    /\ typed.auth # NoKey
    /\ IF visible = NoFile THEN Create(typed.auth) ELSE Unlock(typed.auth)
    /\ handler' = "auth"
    /\ UNCHANGED <<window, modal, typed, revealed>>

-----------------------------------------------------------------------------
(* The list of secrets and its forms.                                      *)

Show(form, subject) == modal' = [form |-> form, subject |-> subject]

\* open_secret(): the value is read when the form opens.
OpenSecret(name) ==
    /\ Plain /\ Listed(name)
    /\ Show("secret", name)
    /\ typed' = [typed EXCEPT !.name = name, !.value = memory.data[name]]
    /\ UNCHANGED <<vars, window, revealed, handler>>

OpenNewSecret ==
    /\ Plain
    /\ Show("secret", NoName)
    /\ typed' = [typed EXCEPT !.name = NoName, !.value = Missing]
    /\ UNCHANGED <<vars, window, revealed, handler>>

TypeSecret(name, value) ==
    /\ Showing /\ modal.form = "secret"
    /\ typed' = [typed EXCEPT !.name = name, !.value = value]
    /\ UNCHANGED <<vars, window, modal, revealed, handler>>

\* save_secret()
SaveSecret ==
    /\ Showing /\ modal.form = "secret"
    /\ typed.name # NoName /\ typed.value # Missing
    /\ IF modal.subject \in {NoName, typed.name}
       THEN Save(typed.name, typed.value)
       ELSE Edit(modal.subject, typed.name, typed.value)
    /\ handler' = "secret"
    /\ UNCHANGED <<window, modal, typed, revealed>>

\* reveal_secret(): shows, or hides again.
Reveal(name) ==
    /\ Plain /\ Listed(name)
    /\ revealed' = IF revealed # NoName /\ revealed.name = name THEN NoName
                   ELSE [name |-> name, value |-> memory.data[name]]
    /\ UNCHANGED <<vars, window, modal, typed, handler>>

AskDelete(name) ==
    /\ Plain /\ Listed(name)
    /\ Show("delete", name)
    /\ UNCHANGED <<vars, window, typed, revealed, handler>>

\* delete_secret()
DeleteSecret ==
    /\ Showing /\ modal.form = "delete"
    /\ Delete(modal.subject)
    /\ handler' = "delete"
    /\ UNCHANGED <<window, modal, typed, revealed>>

\* open_password()
OpenPassword ==
    /\ Plain
    /\ Show("password", NoName)
    /\ typed' = [typed EXCEPT !.password = NoKey]
    /\ UNCHANGED <<vars, window, revealed, handler>>

TypePassword(key) ==
    /\ Showing /\ modal.form = "password"
    /\ typed' = [typed EXCEPT !.password = key]
    /\ UNCHANGED <<vars, window, modal, revealed, handler>>

\* save_password()
SavePassword ==
    /\ Showing /\ modal.form = "password"
    /\ typed.password # NoKey
    /\ ChangePassword(typed.password)
    /\ handler' = "password"
    /\ UNCHANGED <<window, modal, typed, revealed>>

\* close_modal() clears the inputs of the form it closes.
CloseModal ==
    /\ Showing /\ modal # NoModal
    /\ modal' = NoModal
    /\ typed' = CASE modal.form = "secret"   -> [typed EXCEPT !.name = NoName, !.value = Missing]
                  [] modal.form = "password" -> [typed EXCEPT !.password = NoKey]
                  [] OTHER                   -> typed
    /\ UNCHANGED <<vars, window, revealed, handler>>

-----------------------------------------------------------------------------
(* The answer of the vault reaches the handler.  After an error the form   *)
(* stays as it was.                                                        *)

Succeed ==
    CASE handler = "auth" ->
            /\ typed' = [typed EXCEPT !.auth = NoKey]
            /\ UNCHANGED <<modal, revealed>>
      [] handler = "secret" ->
            /\ typed' = [typed EXCEPT !.name = NoName, !.value = Missing]
            /\ modal' = NoModal
            /\ revealed' = NoName
      [] handler = "delete" ->
            /\ modal' = NoModal
            /\ revealed' = NoName
            /\ UNCHANGED typed
      [] handler = "password" ->
            /\ typed' = [typed EXCEPT !.password = NoKey]
            /\ modal' = NoModal
            /\ UNCHANGED revealed

Answered ==
    /\ Acknowledge
    /\ IF outcome = "ok" THEN Succeed ELSE UNCHANGED <<typed, modal, revealed>>
    /\ handler' = "none"
    /\ UNCHANGED window

-----------------------------------------------------------------------------
(* Locking, and the window itself.                                         *)

\* clear_sensitive()
ClearSensitive ==
    /\ typed' = Blank
    /\ modal' = NoModal
    /\ revealed' = NoName

\* The button in the header: lock_vault().
LockButton ==
    /\ Plain
    /\ Lock
    /\ ClearSensitive
    /\ UNCHANGED <<window, handler>>

\* Variant of TrayLock: only the controller is locked.
TrayLockOnly ==
    /\ Idle
    /\ Lock
    /\ UNCHANGED viewVars

\* The tray's Lock: the controller first, then the view if there is one.
TrayLock ==
    /\ Idle
    /\ Lock
    /\ IF window THEN ClearSensitive ELSE UNCHANGED <<typed, modal, revealed>>
    /\ UNCHANGED <<window, handler>>

\* open_main(), by the tray, a request or a sign-in.
OpenMain ==
    /\ Idle /\ ~window
    /\ window' = TRUE
    /\ UNCHANGED <<vars, modal, typed, revealed, handler>>

NoView ==
    /\ window' = FALSE
    /\ ClearSensitive
    /\ handler' = "none"

\* Variant of CloseMain: observe_closed_windows() forgets the view.
CloseMainOnly ==
    /\ Idle /\ window
    /\ window' = FALSE
    /\ UNCHANGED <<vars, modal, typed, revealed, handler>>

\* The window is closed, or toggled away: its view is dropped.
CloseMain ==
    /\ Idle /\ window
    /\ NoView
    /\ UNCHANGED vars

\* A crash, Quit, or a power loss.
Crash == (Kill \/ PowerLoss) /\ NoView

-----------------------------------------------------------------------------
Typing ==
    \/ \E key \in Key : TypeAuth(key) \/ TypePassword(key)
    \/ \E name \in Name, value \in Value : TypeSecret(name, value)

Clicks ==
    \/ SubmitAuth
    \/ \E name \in Name : OpenSecret(name) \/ Reveal(name) \/ AskDelete(name)
    \/ OpenNewSecret
    \/ SaveSecret
    \/ DeleteSecret
    \/ OpenPassword
    \/ SavePassword
    \/ CloseModal
    \/ LockButton

ViewNext ==
    \/ Typing
    \/ Clicks
    \/ Answered
    \/ TrayLock
    \/ OpenMain
    \/ CloseMain
    \/ (Writing \/ Flush) /\ UNCHANGED viewVars
    \/ Crash

ViewSpec == ViewInit /\ [][ViewNext]_allVars

-----------------------------------------------------------------------------
(* Properties.                                                             *)

\* Once the vault is locked, from wherever, the window holds nothing of what
\* it showed: no revealed value, no form, nothing typed into one.  Once it is
\* open the master password is no longer in its input.  lock_vault(), the
\* tray's Lock and every handler that succeeds clear what is theirs.
LockedShowsNothing ==
    Idle => IF memory = Locked
            THEN /\ revealed = NoName /\ modal = NoModal
                 /\ typed = [Blank EXCEPT !.auth = typed.auth]
            ELSE typed.auth = NoKey

==============================================================================
