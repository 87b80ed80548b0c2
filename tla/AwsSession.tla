------------------------------- MODULE AwsSession -------------------------------
(***************************************************************************)
(* What a thread does with the level AwsAccess approved: it takes the      *)
(* broker's operation lock, renews the saved AWS session, signs in through *)
(* the browser when AWS rejects it, fetches role credentials and saves the *)
(* session.  The sign-in button starts a thread that does the same without *)
(* fetching credentials.                                                   *)
(*                                                                         *)
(* A call to AWS or a wait for the browser is one step, between two        *)
(* critical sections of the controller's mutex; meanwhile the user may     *)
(* lock the vault, change the connection, name accounts or revoke grants.  *)
(* Tokens are numbers in the order AWS issued them.                        *)
(***************************************************************************)
EXTENDS Integers

CONSTANTS Helper,      \* threads of `aws credentials` requests, one request each
          SignIn,      \* threads of the sign-in button, one press each
          Portal,      \* start URL and region of a connection
          Account,     \* AWS accounts; an alias is the account it names
          MaxIssued,   \* bound: refresh tokens that are issued
          NoToken, NoSettings, NoThread

Thread == Helper \cup SignIn

ASSUME ThreadAssumption == Helper \cap SignIn = {} /\ NoThread \notin Thread

\* Init starts with one token that AWS has issued.
ASSUME IssuedAssumption == MaxIssued \in Nat \ {0}

VARIABLES unlocked,    \* VaultStore::unlocked()
          memory,      \* the open vault's AwsSettings
          file,        \* those in the vault file
          status,      \* Controller.aws_login
          holder,      \* who has AwsBroker.operations
          pc,          \* where each thread is: the step it takes next
          draft,       \* the settings a thread works on
          result,      \* what its latest call to AWS returned
          granted,     \* is the grant that approved a helper still stored?
          issued,      \* the latest refresh token AWS issued
          replaced,    \* refresh tokens that AWS replaced by a newer one
          spoiled      \* history: a failure the program reported lost a token

vaultVars  == <<unlocked, memory, file>>
threadVars == <<holder, pc, draft, result>>
awsVars    == <<issued, replaced>>
vars       == <<vaultVars, status, threadVars, granted, awsVars, spoiled>>

\* The portal of a token is not in the code: it is where AWS issued it.
Token    == [portal : Portal, refresh : 0..MaxIssued]
Settings == [portal : Portal, token : Token \cup {NoToken},
             targets : SUBSET Account, discovered : SUBSET Account]

ASSUME NoneAssumption == NoToken \notin Token /\ NoSettings \notin Settings

InProgress == {"Starting", "AwaitingUser", "Discovering"}
Status     == InProgress \cup {"Idle", "LoggedIn", "Failed"}

Result == {"ok", "expired", "error"}

SigningIn == {"discover", "browser", "awaiting", "failing", "authorized",
              "rediscover", "complete"}
Holding   == {"reload", "fetch", "fetched", "prepare", "again", "refetch",
              "refetched"} \cup SigningIn
Done      == {"served", "failed", "done"}
Place     == {"idle", "approved", "queued", "reporting"} \cup Holding \cup Done

\* AwsSettings::validate(): a target names an account that is still assigned.
Valid(s) == s.discovered # {} => s.targets \subseteq s.discovered

\* A thread keeps settings only while it has the operation lock, and no
\* settings fail the validation every use of them starts with.
TypeOK ==
    /\ unlocked \in BOOLEAN
    /\ memory \in Settings \cup {NoSettings}
    /\ ~unlocked => memory = NoSettings
    /\ file \in Settings \cup {NoSettings}
    /\ status \in Status
    /\ holder \in Thread \cup {NoThread}
    /\ pc \in [Thread -> Place]
    /\ draft \in [Thread -> Settings \cup {NoSettings}]
    /\ \A t \in Thread : draft[t] # NoSettings => holder = t
    /\ \A s \in {memory, file} : s # NoSettings => Valid(s)
    /\ result \in [Thread -> Result]
    /\ granted \in [Helper -> BOOLEAN]
    /\ issued \in 0..MaxIssued
    /\ replaced \subseteq 1..issued
    /\ spoiled \in BOOLEAN

\* The program starts on any file an earlier run may have left.
Init ==
    /\ issued = 1
    /\ file \in {NoSettings} \cup
                {s \in Settings : s.targets \subseteq s.discovered
                    /\ s.token \in {NoToken, [portal |-> s.portal, refresh |-> 1]}}
    /\ unlocked = FALSE
    /\ memory = NoSettings
    /\ status = "Idle"
    /\ holder = NoThread
    /\ pc = [t \in Thread |-> "idle"]
    /\ draft = [t \in Thread |-> NoSettings]
    /\ result = [t \in Thread |-> "ok"]
    /\ granted = [h \in Helper |-> FALSE]
    /\ replaced = {}
    /\ spoiled = FALSE

-----------------------------------------------------------------------------
(* Calls to AWS.  An outcome is a result, the settings as the call left    *)
(* them, and what AWS did to the refresh token: kept it, replaced it, or   *)
(* replaced it in a reply that never arrived.                              *)

Outcome(r, s) == [result |-> r, settings |-> s, token |-> "kept"]

\* The access token is still good; or AWS renewed it and kept the refresh
\* token, which leaves the same settings here.
Renewed(s) ==
    IF s.token = NoToken THEN {} ELSE {Outcome("ok", s)}

\* renew_access_token() with a refresh token: rejected, which clears it,
\* failed, or answered with a new one.
Contacted(s) ==
    IF s.token = NoToken \/ s.token.refresh = 0 THEN {}
    ELSE {Outcome("error", s), Outcome("expired", [s EXCEPT !.token = NoToken])}
         \cup IF s.token.refresh \in replaced \/ issued = MaxIssued THEN {}
              ELSE {[result |-> "ok", token |-> "replaced",
                     settings |-> [s EXCEPT !.token.refresh = issued + 1]],
                    [result |-> "error", token |-> "lost", settings |-> s]}

\* refresh_access_token().  Without a usable registration or refresh token the
\* session counts as expired.
Refreshed(s) == Renewed(s) \cup Contacted(s) \cup {Outcome("expired", s)}

\* AwsBroker::credentials(): an unknown profile is an error, and AWS may
\* reject an access token that looks good.
Credentials(s) ==
    {o \in Refreshed(s) : o.result # "ok"} \cup
    {[o EXCEPT !.result = r] :
        o \in {p \in Refreshed(s) : p.result = "ok"},
        r \in IF s.targets = {} THEN {"error"} ELSE Result}

\* A target that is no longer assigned is dropped.
Assigned(s, accounts) ==
    [s EXCEPT !.discovered = accounts, !.targets = s.targets \cap accounts]

\* AwsBroker::discover_accounts()
Discovery(s) ==
    LET renewed == {o \in Refreshed(s) : o.result = "ok"}
    IN  (Refreshed(s) \ renewed)
          \cup {[o EXCEPT !.result = r] : o \in renewed, r \in {"expired", "error"}}
          \cup {[o EXCEPT !.settings = Assigned(o.settings, accounts)] :
                   o \in renewed, accounts \in SUBSET Account}

\* The thread has its outcome; AWS has done its part.
Received(t, o) ==
    /\ draft' = [draft EXCEPT ![t] = o.settings]
    /\ result' = [result EXCEPT ![t] = o.result]
    /\ issued' = IF o.token = "kept" THEN issued ELSE issued + 1
    /\ replaced' = IF o.token = "kept" THEN replaced
                   ELSE replaced \cup {draft[t].token.refresh}
    /\ spoiled' = (spoiled \/ o.token = "lost")

-----------------------------------------------------------------------------
(* The controller's mutex: saving a session.                               *)

\* Variant of Persistable: the connection is not compared.
AlwaysPersistable(s) == memory # NoSettings

\* persist_aws_session() refuses a session of another connection.
Persistable(s) == memory # NoSettings /\ memory.portal = s.portal

\* Variant of Merged: the settings of the thread replace the stored ones.
Overwritten(s, discovery) == s

\* Only what the session owns is taken over; discovery drops the targets it
\* did not find.
Merged(s, discovery) ==
    [memory EXCEPT !.token = s.token,
                   !.targets = IF discovery THEN @ \cap s.discovered ELSE @,
                   !.discovered = IF discovery THEN s.discovered ELSE @]

Persist(s, discovery) ==
    /\ Persistable(s)
    /\ memory' = Merged(s, discovery)
    /\ file' = memory'
    /\ UNCHANGED <<unlocked, spoiled>>

\* Refused, or changed in memory while the file could not be written.
PersistFails(s, discovery) ==
    /\ IF Persistable(s) THEN memory' = Merged(s, discovery) ELSE UNCHANGED memory
    /\ spoiled' = TRUE
    /\ UNCHANGED <<unlocked, file>>

Goto(t, place) == pc' = [pc EXCEPT ![t] = place]

\* Variant of Return that keeps the settings for later.
ReturnKeeping(t, place) ==
    /\ Goto(t, place)
    /\ holder' = NoThread
    /\ UNCHANGED <<granted, draft, result>>

\* The guard of the operation lock and the settings are dropped on return; a
\* helper that has answered relies on its grant no longer.
Return(t, place) ==
    /\ Goto(t, place)
    /\ holder' = NoThread
    /\ granted' = [h \in Helper |-> granted[h] /\ h # t]
    /\ draft' = [draft EXCEPT ![t] = NoSettings]
    /\ result' = [result EXCEPT ![t] = "ok"]

-----------------------------------------------------------------------------
(* handle_aws_request() once the level is known.                           *)

\* AwsAccess approves by a stored grant.  A request that was allowed once goes
\* on like one whose grant has ended.
Approve(h) ==
    /\ pc[h] = "idle"
    /\ unlocked /\ memory # NoSettings /\ memory.targets # {}
    /\ granted' = [granted EXCEPT ![h] = TRUE]
    /\ Goto(h, "approved")
    /\ UNCHANGED <<vaultVars, status, holder, draft, result, awsVars, spoiled>>

\* aws_credential_context() before the lock: only whether it succeeds matters.
Context(h) ==
    /\ pc[h] = "approved"
    /\ Goto(h, IF memory = NoSettings THEN "failed" ELSE "queued")
    /\ UNCHANGED <<vaultVars, status, holder, draft, result, granted, awsVars, spoiled>>

\* AwsBroker::operation()
TakeOperation(t) ==
    /\ pc[t] = "queued"
    /\ holder = NoThread
    /\ holder' = t
    /\ Goto(t, IF t \in Helper THEN "reload" ELSE "prepare")
    /\ UNCHANGED <<vaultVars, status, draft, result, granted, awsVars, spoiled>>

\* aws_credential_context() under the lock, before each attempt.
Reload(h) ==
    /\ pc[h] \in {"reload", "again"}
    /\ IF memory = NoSettings THEN Return(h, "failed")
       ELSE /\ draft' = [draft EXCEPT ![h] = memory]
            /\ Goto(h, IF pc[h] = "reload" THEN "fetch" ELSE "refetch")
            /\ UNCHANGED <<granted, holder, result>>
    /\ UNCHANGED <<vaultVars, status, awsVars, spoiled>>

Fetch(h) ==
    /\ pc[h] \in {"fetch", "refetch"}
    /\ \E o \in Credentials(draft[h]) : Received(h, o)
    /\ Goto(h, IF pc[h] = "fetch" THEN "fetched" ELSE "refetched")
    /\ UNCHANGED <<vaultVars, status, holder, granted>>

Fetched(h) ==
    /\ pc[h] \in {"fetched", "refetched"}
    /\ UNCHANGED <<status, awsVars>>

\* Variant of Serve: credentials leave whether or not the session could be saved.
ServeAnyway(h) ==
    /\ Fetched(h) /\ result[h] = "ok"
    /\ Persist(draft[h], FALSE) \/ PersistFails(draft[h], FALSE)
    /\ Return(h, "served")

\* persist_aws_settings() comes before the credentials are looked at.
Serve(h) ==
    /\ Fetched(h) /\ result[h] = "ok"
    /\ Persist(draft[h], FALSE)
    /\ Return(h, "served")

\* Variant of Fail: only successful attempts are saved.
FailUnsaved(h) ==
    /\ Fetched(h)
    /\ result[h] = "error" \/ (result[h] = "expired" /\ pc[h] = "refetched")
    /\ UNCHANGED <<vaultVars, spoiled>>
    /\ Return(h, "failed")

Fail(h) ==
    /\ Fetched(h)
    /\ result[h] = "error" \/ (result[h] = "expired" /\ pc[h] = "refetched")
    /\ Persist(draft[h], FALSE)
    /\ Return(h, "failed")

\* A session that cannot be renewed needs a sign-in, once.
NeedSignIn(h) ==
    /\ Fetched(h) /\ result[h] = "expired" /\ pc[h] = "fetched"
    /\ Persist(draft[h], FALSE)
    /\ Goto(h, "prepare")
    /\ draft' = [draft EXCEPT ![h] = NoSettings]
    /\ UNCHANGED <<granted, holder, result>>

\* Credentials that were fetched are dropped when the session cannot be saved.
FailToSave(h) ==
    /\ Fetched(h)
    /\ PersistFails(draft[h], FALSE)
    /\ Return(h, "failed")

-----------------------------------------------------------------------------
(* begin_aws_login() and run_aws_login().                                  *)

\* preview_aws_login()
MayPrepare == status \notin InProgress /\ memory # NoSettings

\* The button was pressed; the thread may fail to start, which is reported in
\* a critical section of its own.
Press(t) ==
    /\ pc[t] = "idle"
    /\ MayPrepare
    /\ \E place \in {"queued", "reporting"} : Goto(t, place)
    /\ UNCHANGED <<vaultVars, status, holder, draft, result, granted, awsVars, spoiled>>

\* prepare_aws_login()
Prepare(t) ==
    /\ pc[t] = "prepare"
    /\ IF MayPrepare
       THEN /\ status' = "Starting"
            /\ draft' = [draft EXCEPT ![t] = memory]
            /\ Goto(t, "discover")
            /\ UNCHANGED <<granted, holder, result>>
       ELSE /\ Return(t, IF t \in Helper THEN "failed" ELSE "reporting")
            /\ UNCHANGED status
    /\ UNCHANGED <<vaultVars, awsVars, spoiled>>

\* The saved session is tried first, and again after the browser; only the
\* first time does an expired one lead to the browser.
Discover(t) ==
    /\ pc[t] \in {"discover", "rediscover"}
    /\ \E o \in Discovery(draft[t]) :
          /\ Received(t, o)
          /\ Goto(t, IF pc[t] = "discover" /\ o.result = "expired" THEN "browser"
                     ELSE "complete")
    /\ UNCHANGED <<vaultVars, status, holder, granted>>

\* ensure_registration(): a registration that is no longer usable is renewed,
\* and the token it obtained forgotten.
Registered(s) == {s, [s EXCEPT !.token = NoToken]}

\* AwsBroker::login() up to browser_ready: listener, registration, URL.
OpenBrowser(t) ==
    /\ pc[t] = "browser"
    /\ \E s \in Registered(draft[t]) : draft' = [draft EXCEPT ![t] = s]
    /\ \/ status' = "AwaitingUser" /\ Goto(t, "awaiting")
       \/ UNCHANGED status /\ Goto(t, "failing")
    /\ UNCHANGED <<vaultVars, holder, result, granted, awsVars, spoiled>>

\* A local request to the callback's port: whether it is complete and well
\* formed, whose `state` it has, and what else.
LocalRequest == [complete : BOOLEAN, state : {"ours", "other"},
                 content : {"code", "error", "neither"}]

\* read_callback() and parse_callback(): what counts as an answer.
ParsedCallback(r) ==
    IF ~r.complete \/ r.state = "other" \/ r.content = "neither" THEN "ignored"
    ELSE IF r.content = "error" THEN "declined" ELSE "code"

\* wait_for_code(), then create_token(), which AWS answers with a token and
\* perhaps a refresh token, or not at all.
Callback(t, r) ==
    /\ pc[t] = "awaiting"
    /\ ParsedCallback(r) # "ignored"
    /\ \/ /\ ParsedCallback(r) = "code"
          /\ \E refresh \in {0} \cup {n \in {issued + 1} : n <= MaxIssued} :
                /\ draft' = [draft EXCEPT ![t].token =
                                [portal |-> draft[t].portal, refresh |-> refresh]]
                /\ issued' = IF refresh = 0 THEN issued ELSE refresh
          /\ Goto(t, "authorized")
       \/ /\ Goto(t, "failing")
          /\ UNCHANGED <<draft, issued>>
    /\ UNCHANGED <<vaultVars, status, holder, result, granted, replaced, spoiled>>

\* Variant of Deadline: nobody waits with a timeout.
NoDeadline(t) == FALSE /\ UNCHANGED vars

\* Ten minutes without an answer.
Deadline(t) ==
    /\ pc[t] = "awaiting"
    /\ Goto(t, "failing")
    /\ UNCHANGED <<vaultVars, status, holder, draft, result, granted, awsVars, spoiled>>

\* The stored refresh token is one that AWS has replaced.
StaleSession ==
    memory # NoSettings /\ memory.token # NoToken /\ memory.token.refresh \in replaced

\* Variant of SignInFails that leaves the status to the caller.
SignInFailsSilently(t) ==
    /\ pc[t] = "failing"
    /\ spoiled' = (spoiled \/ StaleSession)
    /\ Return(t, IF t \in Helper THEN "failed" ELSE "reporting")
    /\ UNCHANGED <<vaultVars, status, awsVars>>

\* complete_aws_login(Err): the settings are dropped, and with them a token
\* that the first discovery may have renewed.
SignInFails(t) ==
    /\ pc[t] = "failing"
    /\ status' = "Failed"
    /\ spoiled' = (spoiled \/ StaleSession)
    /\ Return(t, IF t \in Helper THEN "failed" ELSE "reporting")
    /\ UNCHANGED <<vaultVars, awsVars>>

Authorized(t) ==
    /\ pc[t] = "authorized"
    /\ status' = "Discovering"
    /\ Goto(t, "rediscover")
    /\ UNCHANGED <<vaultVars, holder, draft, result, granted, awsVars, spoiled>>

\* complete_aws_login(Ok) saves the session with its accounts,
\* complete_aws_discovery_failure() without.  A helper tries again.
Complete(t) ==
    /\ pc[t] = "complete"
    /\ \/ Persist(draft[t], result[t] = "ok")
          /\ status' = IF result[t] = "ok" THEN "LoggedIn" ELSE "Failed"
       \/ PersistFails(draft[t], result[t] = "ok") /\ status' = "Failed"
    /\ IF t \in Helper
       THEN /\ Goto(t, "again")
            /\ draft' = [draft EXCEPT ![t] = NoSettings]
            /\ UNCHANGED <<granted, holder, result>>
       ELSE Return(t, "done")
    /\ UNCHANGED awsVars

\* The button's thread reports its error once more, without the lock.
Report(t) ==
    /\ pc[t] = "reporting"
    /\ status' = "Failed"
    /\ Goto(t, "done")
    /\ UNCHANGED <<vaultVars, holder, draft, result, granted, awsVars, spoiled>>

-----------------------------------------------------------------------------
(* The user, meanwhile.                                                    *)

NoGrants == granted' = [h \in Helper |-> FALSE]

\* A change that memory has and the file has not is lost.
Lock ==
    /\ unlocked
    /\ unlocked' = FALSE
    /\ memory' = NoSettings
    /\ status' = "Idle"
    /\ NoGrants
    /\ spoiled' = (spoiled \/ holder # NoThread)
    /\ UNCHANGED <<file, threadVars, awsVars>>

Unlock ==
    /\ ~unlocked
    /\ unlocked' = TRUE
    /\ memory' = file
    /\ UNCHANGED <<file, status, threadVars, granted, awsVars, spoiled>>

\* save_aws_configuration(): a failed write keeps grants and status.
SaveSettings(s) ==
    /\ unlocked
    /\ memory' = s
    /\ \/ file' = s /\ status' = "Idle" /\ NoGrants /\ UNCHANGED spoiled
       \/ spoiled' = TRUE /\ UNCHANGED <<file, status, granted>>
    /\ UNCHANGED <<unlocked, threadVars, awsVars>>

\* save_aws_connection(): another connection starts without a session.
SaveConnection(portal) ==
    SaveSettings(IF memory # NoSettings /\ memory.portal = portal THEN memory
                 ELSE [portal |-> portal, token |-> NoToken,
                       targets |-> {}, discovered |-> {}])

\* save_aws_aliases(): the form lists the discovered accounts.
SaveAliases(named) ==
    /\ memory # NoSettings
    /\ named # {} /\ named \subseteq memory.discovered
    /\ SaveSettings([memory EXCEPT !.targets = named])

\* A grant ends: revoked, expired, or its process exited.
EndGrant(h) ==
    /\ granted[h]
    /\ granted' = [granted EXCEPT ![h] = FALSE]
    /\ UNCHANGED <<vaultVars, status, threadVars, awsVars, spoiled>>

-----------------------------------------------------------------------------
User ==
    \/ Lock
    \/ Unlock
    \/ \E portal \in Portal : SaveConnection(portal)
    \/ \E named \in SUBSET Account : SaveAliases(named)
    \/ \E h \in Helper : Approve(h) \/ EndGrant(h)
    \/ \E t \in SignIn : Press(t)
    \/ \E t \in Thread, r \in LocalRequest : Callback(t, r)

HelperStep(h) ==
    \/ Context(h)
    \/ Reload(h)
    \/ Fetch(h)
    \/ Serve(h)
    \/ Fail(h)
    \/ NeedSignIn(h)
    \/ FailToSave(h)

SignInStep(t) ==
    \/ Prepare(t)
    \/ Discover(t)
    \/ OpenBrowser(t)
    \/ Deadline(t)
    \/ SignInFails(t)
    \/ Authorized(t)
    \/ Complete(t)

ThreadStep(t) ==
    \/ TakeOperation(t)
    \/ t \in Helper /\ HelperStep(t)
    \/ SignInStep(t)
    \/ t \in SignIn /\ Report(t)

Next == User \/ \E t \in Thread : ThreadStep(t)

\* Threads run and calls to AWS return; nothing is assumed of the user or of
\* the browser.
Fairness == \A t \in Thread : WF_vars(ThreadStep(t))

Spec == Init /\ [][Next]_vars /\ Fairness

-----------------------------------------------------------------------------
(* Properties.                                                             *)

\* A status that refuses further sign-ins is backed by a thread that is at
\* exactly that point of a sign-in, whatever the user did meanwhile and however
\* late another thread reports its error: otherwise nobody could sign in again.
\* The converse is not so: a late error may stand over a sign-in that goes on.
StatusIsBacked ==
    /\ status \in InProgress => holder # NoThread
    /\ status = "Starting" => pc[holder] \in {"discover", "browser", "failing", "complete"}
    /\ status = "AwaitingUser" => pc[holder] \in {"awaiting", "failing", "authorized"}
    /\ status = "Discovering" => pc[holder] \in {"rediscover", "complete"}

\* Threads renew one session in turn, each from what the one before it saved:
\* between two operations the stored refresh token is never one that AWS has
\* already replaced, also when the attempt that rotated it failed.  Excepted are
\* the losses the program reports as a failure and does nothing about: a lost
\* reply, a failed write, a lock in the middle, and a sign-in that fails after its
\* first discovery rotated the token (SignInFails).
SessionSurvives == holder = NoThread /\ ~spoiled => ~StaleSession

\* A session of one connection never ends up under another, although the user
\* may change the connection, and change it back, while AWS is being called.
TokenMatchesPortal ==
    \A s \in {memory, file} :
        s # NoSettings /\ s.token # NoToken => s.token.portal = s.portal

\* The user's settings are never taken back: a thread that saves a session it
\* loaded minutes ago leaves the connection and the aliases as they are now,
\* apart from aliases of accounts that are no longer assigned.
SettingsStayTheUsers ==
    [][pc' # pc /\ memory' # memory
         => /\ memory'.portal = memory.portal
            /\ memory'.targets \in {memory.targets, memory.targets \cap memory'.discovered}]_vars

\* AwsBroker.operation() keeps operations apart: from the moment a thread loads the
\* settings to the moment it saves them no other thread renews the session or
\* signs in, and the lock is never kept by a thread that has left.
OperationsExclude ==
    /\ \A t, u \in Thread : pc[t] \in Holding /\ pc[u] \in Holding => t = u
    /\ holder # NoThread => pc[holder] \in Holding

\* AWS replaces a refresh token when it is used.  None is sent a second time,
\* whichever threads share the session, unless a failure was reported.
ReplacedTokensStayUnsent ==
    ~spoiled => \A t \in Thread :
        pc[t] \in {"fetch", "refetch", "discover", "rediscover"} /\ draft[t].token # NoToken
          => draft[t].token.refresh \notin replaced

\* A success that is reported is in the file: credentials leave, and a sign-in
\* shows as logged in, only with a session of the present connection that the
\* vault file holds, and never when the vault was locked or the connection
\* changed while AWS was being called.
Saved ==
    /\ unlocked /\ memory'.portal = memory.portal
    /\ memory' = file'
    /\ memory'.token # NoToken /\ memory'.token.portal = memory'.portal

SuccessIsSaved ==
    [][/\ \A h \in Helper : pc'[h] = "served" /\ pc[h] # "served"
             => Saved /\ memory'.token = draft[h].token /\ memory.portal = draft[h].portal
       /\ status' = "LoggedIn" /\ status # "LoggedIn" => Saved]_vars

\* Every request and every sign-in ends, also when the user never answers the
\* browser; with StatusIsBacked, so does every status in progress.
OperationsEnd ==
    \A t \in Thread : pc[t] # "idle" ~> pc[t] \in Done

\* README.md:95: revoking or expiring a grant prevents secretd from issuing
\* another set automatically.
IssuedUnderGrant ==
    [][\A h \in Helper : pc'[h] = "served" /\ pc[h] # "served" => granted[h]]_vars

==============================================================================
