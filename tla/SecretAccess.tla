----------------------------- MODULE SecretAccess -----------------------------
(***************************************************************************)
(* How a `secretd get` request is decided and answered.                    *)
(*                                                                         *)
(* Every connection is served by a thread of its own                       *)
(* (ipc/server.rs, handle_secret_request).  The thread enters the          *)
(* Controller, and when nobody has decided yet it sleeps on a one-shot     *)
(* channel until the user decides, the vault is locked, or its timeout     *)
(* passes.  Controller methods hold one mutex, so each is one action;      *)
(* between two of them any other thread or the user interface may run.     *)
(***************************************************************************)
EXTENDS GrantStore

CONSTANTS Connection,  \* slots for client connections, each with its thread
          Tree,        \* process trees of clients, secretd's own binary left out
          Launchd,     \* the process every other one descends from
          NoRequest    \* a slot that never served a request

ASSUME TreeAssumption ==
    /\ Tree \subseteq [origin : Process, members : SUBSET Process]
    /\ \A t \in Tree : t.origin \in t.members

VARIABLES unlocked,  \* Vault::unlocked()
          secrets,   \* names in the decrypted vault; {} while it is locked
          disk,      \* names in the vault file
          pending,   \* keys of Controller.pending and .pending_resolutions
          waiting,   \* Controller.waiting_for_unlock
          request,   \* the latest request of each connection
          channel,   \* what was sent to each thread and not yet received
          handler,   \* where each connection's thread is
          audit      \* the activity entries about the latest request

storeVars   == <<grants, now>>
vaultVars   == <<unlocked, secrets, disk>>
queueVars   == <<pending, waiting, channel>>
vars        == <<storeVars, vaultVars, queueVars, request, handler, audit>>

Request     == [secret : Secret, tree : Tree, verified : BOOLEAN]
Resolution  == {"Approved", "Denied", "Failed"}
Approval    == {"AutoGranted", "AllowedOnce", "GrantedTemporarily"}
AuditAction == Approval \cup {"Denied", "TimedOut"}

\* "waiting": in recv_timeout.  "elapsed": recv_timeout gave up, the mutex
\* is not taken yet.  The last four are answers sent to the client.
Answer  == {"released", "refused", "failed", "expired"}
Handler == {"idle", "waiting", "elapsed"} \cup Answer

Open(c) == handler[c] \in {"waiting", "elapsed"}

\* Every variable ranges over what the code can store in it.
TypeOK ==
    /\ GrantTypeOK
    /\ unlocked \in BOOLEAN
    /\ secrets \subseteq Secret
    /\ disk \subseteq Secret
    /\ pending \subseteq Connection
    /\ waiting \subseteq Connection
    /\ request \in [Connection -> Request \cup {NoRequest}]
    /\ \A c \in pending : request[c] \in Request
    /\ channel \in [Connection -> Resolution \cup {"empty"}]
    /\ handler \in [Connection -> Handler]
    /\ audit \in [Connection -> SUBSET AuditAction]

Init ==
    /\ GrantInit
    /\ unlocked = FALSE
    /\ secrets = {}
    /\ disk \in SUBSET Secret
    /\ pending = {}
    /\ waiting = {}
    /\ request = [c \in Connection |-> NoRequest]
    /\ channel = [c \in Connection |-> "empty"]
    /\ handler = [c \in Connection |-> "idle"]
    /\ audit = [c \in Connection |-> {}]

-----------------------------------------------------------------------------
(* Operators several controller methods share.                             *)

\* An outcome reaches a set of pending requests: each leaves the maps and
\* its thread is sent the resolution.
Resolve(C, resolution) ==
    /\ pending' = pending \ C
    /\ waiting' = waiting \ C
    /\ channel' = [c \in Connection |-> IF c \in C THEN resolution ELSE channel[c]]

\* record_audit() for every request of C.
Record(C, action) ==
    audit' = [c \in Connection |-> IF c \in C THEN audit[c] \cup {action} ELSE audit[c]]

\* Variant of PendingWithin: a temporary approval settles only the request
\* it answers.
NobodyWithin(secret, process) == {}

\* Variant of PendingWithin: the boundary alone decides, whatever the secret.
AnySecretWithin(secret, process) ==
    {c \in pending : request[c].verified /\ process \in request[c].tree.members}

\* Verified pending requests for the secret from within the boundary.
PendingWithin(secret, process) ==
    {c \in pending : /\ request[c].verified
                     /\ request[c].secret = secret
                     /\ process \in request[c].tree.members}
-----------------------------------------------------------------------------
(* begin_request(), on a connection slot whose thread has answered.        *)

Begin(c, r, state) ==
    /\ ~Open(c)
    /\ request' = [request EXCEPT ![c] = r]
    /\ handler' = [handler EXCEPT ![c] = state]
    /\ UNCHANGED vaultVars

\* The vault is locked: the request is queued and marked to be looked at
\* again on unlock; nobody asks whether the secret exists.
BeginLocked(c, r) ==
    /\ ~unlocked
    /\ Begin(c, r, "waiting")
    /\ pending' = pending \cup {c}
    /\ waiting' = waiting \cup {c}
    /\ audit' = [audit EXCEPT ![c] = {}]
    /\ UNCHANGED <<storeVars, channel>>

\* No such secret: an error at once, and no activity entry.
BeginMissing(c, r) ==
    /\ unlocked
    /\ r.secret \notin secrets
    /\ Begin(c, r, "failed")
    /\ audit' = [audit EXCEPT ![c] = {}]
    /\ UNCHANGED <<storeVars, queueVars>>

\* A live grant covers the verified requester: the value at once.
BeginCovered(c, r) ==
    /\ unlocked
    /\ r.secret \in secrets
    /\ r.verified
    /\ Covers(Live, r.secret, r.tree.members)
    /\ Begin(c, r, "released")
    /\ grants' = Live
    /\ audit' = [audit EXCEPT ![c] = {"AutoGranted"}]
    /\ UNCHANGED <<now, queueVars>>

\* Otherwise the user is asked.  Only a verified request gets as far as
\* find() and its cleanup.
BeginQueued(c, r) ==
    /\ unlocked
    /\ r.secret \in secrets
    /\ r.verified => ~Covers(Live, r.secret, r.tree.members)
    /\ Begin(c, r, "waiting")
    /\ grants' = IF r.verified THEN Live ELSE grants
    /\ pending' = pending \cup {c}
    /\ audit' = [audit EXCEPT ![c] = {}]
    /\ UNCHANGED <<now, waiting, channel>>

-----------------------------------------------------------------------------
(* respond(), called by the approval window.                               *)

Deny(c) ==
    /\ c \in pending
    /\ Resolve({c}, "Denied")
    /\ Record({c}, "Denied")
    /\ UNCHANGED <<storeVars, vaultVars, request, handler>>

\* Variant of AllowOnce: answers a request that is no longer pending.
AllowOnceAgain(c) ==
    /\ Open(c) /\ c \notin waiting
    /\ Resolve({c}, "Approved")
    /\ Record({c}, "AllowedOnce")
    /\ UNCHANGED <<storeVars, vaultVars, request, handler>>

AllowOnce(c) ==
    /\ c \in pending \ waiting
    /\ Resolve({c}, "Approved")
    /\ Record({c}, "AllowedOnce")
    /\ UNCHANGED <<storeVars, vaultVars, request, handler>>

\* Variant of AllowTemporarily: a request whose process could not be verified
\* may be given a temporary grant too.
AllowAnyTemporarily(c, process, seconds, id) ==
    LET r       == request[c]
        settled == {c} \cup PendingWithin(r.secret, process)
    IN  /\ c \in pending \ waiting
        /\ process \in r.tree.members \ {Launchd}
        /\ seconds \in ValidSeconds
        /\ id \in FreshIds
        /\ grants' = Added(id, r.secret, process, seconds)
        /\ Resolve(settled, "Approved")
        /\ audit' = [d \in Connection |->
                        IF d = c THEN audit[d] \cup {"GrantedTemporarily"}
                        ELSE IF d \in settled THEN audit[d] \cup {"AutoGranted"}
                        ELSE audit[d]]
        /\ UNCHANGED <<now, vaultVars, request, handler>>

\* The grant's boundary is a process of the requester's tree other than
\* launchd.  Every other verified request the new grant covers is settled
\* with it, and recorded as granted automatically.
AllowTemporarily(c, process, seconds, id) ==
    LET r       == request[c]
        settled == {c} \cup PendingWithin(r.secret, process)
    IN  /\ c \in pending \ waiting
        /\ r.verified
        /\ process \in r.tree.members \ {Launchd}
        /\ seconds \in ValidSeconds
        /\ id \in FreshIds
        /\ grants' = Added(id, r.secret, process, seconds)
        /\ Resolve(settled, "Approved")
        /\ audit' = [d \in Connection |->
                        IF d = c THEN audit[d] \cup {"GrantedTemporarily"}
                        ELSE IF d \in settled THEN audit[d] \cup {"AutoGranted"}
                        ELSE audit[d]]
        /\ UNCHANGED <<now, vaultVars, request, handler>>

-----------------------------------------------------------------------------
(* The thread's side: recv_timeout() and what follows it.                  *)

\* Variant of Finish: reports the resolution itself.
FinishRaw(c, answer) ==
    /\ handler' = [handler EXCEPT ![c] = channel[c]]
    /\ channel' = [channel EXCEPT ![c] = "empty"]

Finish(c, answer) ==
    /\ handler' = [handler EXCEPT ![c] = answer]
    /\ channel' = [channel EXCEPT ![c] = "empty"]

\* Approved: the thread takes the mutex again and reads the value, which
\* fails when the vault was locked or the secret removed in between.
ReceiveApproved(c) ==
    /\ handler[c] = "waiting"
    /\ channel[c] = "Approved"
    /\ Finish(c, IF unlocked /\ request[c].secret \in secrets THEN "released" ELSE "failed")
    /\ UNCHANGED <<storeVars, vaultVars, pending, waiting, request, audit>>

ReceiveRefusal(c) ==
    /\ handler[c] = "waiting"
    /\ channel[c] \in {"Denied", "Failed"}
    /\ Finish(c, IF channel[c] = "Denied" THEN "refused" ELSE "failed")
    /\ UNCHANGED <<storeVars, vaultVars, pending, waiting, request, audit>>

\* Variant of Elapse: recv() in place of recv_timeout().
NeverElapse(c) == FALSE /\ UNCHANGED vars

\* Two minutes without a resolution.  The mutex is still to be taken.
Elapse(c) ==
    /\ handler[c] = "waiting"
    /\ channel[c] = "empty"
    /\ handler' = [handler EXCEPT ![c] = "elapsed"]
    /\ UNCHANGED <<storeVars, vaultVars, queueVars, request, audit>>

\* Variant of TimeoutRequest: records a timeout whether or not the request
\* was still pending.
TimeoutRegardless(c) ==
    /\ handler[c] = "elapsed"
    /\ pending' = pending \ {c}
    /\ waiting' = waiting \ {c}
    /\ Finish(c, "expired")
    /\ Record({c}, "TimedOut")
    /\ UNCHANGED <<storeVars, vaultVars, request>>

\* timeout_request(): does nothing to a request decided in the meantime; the
\* client is told "denied or timed out" either way.
TimeoutRequest(c) ==
    /\ handler[c] = "elapsed"
    /\ pending' = pending \ {c}
    /\ waiting' = waiting \ {c}
    /\ Finish(c, "expired")
    /\ Record({c} \cap pending, "TimedOut")
    /\ UNCHANGED <<storeVars, vaultVars, request>>

-----------------------------------------------------------------------------
(* The rest of the user interface.                                         *)

\* Variant of Unlock: the waiting requests stay marked as waiting.
UnlockOnly ==
    /\ ~unlocked
    /\ unlocked' = TRUE
    /\ secrets' = disk
    /\ UNCHANGED <<storeVars, disk, queueVars, request, handler, audit>>

\* Variant of Unlock: drops the requests that cannot be served, and leaves
\* their threads asleep.
UnlockSilently ==
    /\ ~unlocked
    /\ unlocked' = TRUE
    /\ secrets' = disk
    /\ waiting' = {}
    /\ pending' = pending \ {c \in waiting : request[c].secret \notin disk}
    /\ UNCHANGED <<storeVars, disk, channel, request, handler, audit>>

\* unlock() or create_vault(), then prepare_waiting_requests(): a request
\* queued while locked fails now when its secret does not exist.  A vault
\* file still to be created holds no secrets.
Unlock ==
    LET failed == {c \in waiting : request[c].secret \notin disk}
    IN  /\ ~unlocked
        /\ unlocked' = TRUE
        /\ secrets' = disk
        /\ waiting' = {}
        /\ pending' = pending \ failed
        /\ channel' = [c \in Connection |-> IF c \in failed THEN "Failed" ELSE channel[c]]
        /\ UNCHANGED <<storeVars, disk, request, handler, audit>>

\* Lock: every grant is revoked and every pending request denied.
Lock ==
    /\ unlocked' = FALSE
    /\ secrets' = {}
    /\ grants' = {}
    /\ Resolve(pending, "Denied")
    /\ Record(pending, "Denied")
    /\ UNCHANGED <<now, disk, request, handler>>

\* What save() leaves in the file: the new names, or the old ones when
\* writing fails.  The names in memory have changed in either case.
Save == disk' \in {secrets', disk}

SaveSecret(name) ==
    /\ unlocked
    /\ secrets' = secrets \cup {name}
    /\ Save
    /\ UNCHANGED <<storeVars, unlocked, queueVars, request, handler, audit>>

\* Grants and pending requests keep the old name.
RenameSecret(old, new) ==
    /\ unlocked
    /\ old \in secrets
    /\ new \notin secrets
    /\ secrets' = (secrets \ {old}) \cup {new}
    /\ Save
    /\ UNCHANGED <<storeVars, unlocked, queueVars, request, handler, audit>>

\* The secret's grants go with it, unless saving failed.  Pending requests
\* for it stay.
DeleteSecret(name) ==
    /\ unlocked
    /\ name \in secrets
    /\ secrets' = secrets \ {name}
    /\ \/ /\ disk' = secrets'
          /\ grants' = {g \in Live : g.resource # name}
       \/ /\ disk' = disk
          /\ grants' = grants
    /\ UNCHANGED <<now, unlocked, queueVars, request, handler, audit>>

RevokeGrant(id) ==
    /\ grants' = Revoked(id)
    /\ UNCHANGED <<now, vaultVars, queueVars, request, handler, audit>>

ExtendGrant(id) ==
    /\ grants' = Extended(id)
    /\ UNCHANGED <<now, vaultVars, queueVars, request, handler, audit>>

\* snapshot(), taken at every refresh of the windows, drops expired grants.
Snapshot ==
    /\ grants' = Live
    /\ UNCHANGED <<now, vaultVars, queueVars, request, handler, audit>>

Clock == ClockStep /\ UNCHANGED <<vaultVars, queueVars, request, handler, audit>>

-----------------------------------------------------------------------------
ThreadStep(c) ==
    \/ ReceiveApproved(c)
    \/ ReceiveRefusal(c)
    \/ Elapse(c)
    \/ TimeoutRequest(c)

Asking(c) ==
    \E r \in Request :
       BeginLocked(c, r) \/ BeginMissing(c, r) \/ BeginCovered(c, r) \/ BeginQueued(c, r)

Responding(c) ==
    \/ Deny(c)
    \/ AllowOnce(c)
    \/ \E process \in Process, seconds \in ValidSeconds, id \in GrantId :
          AllowTemporarily(c, process, seconds, id)

Managing ==
    \/ Unlock
    \/ Lock
    \/ \E name \in Secret : SaveSecret(name) \/ DeleteSecret(name)
    \/ \E old, new \in Secret : RenameSecret(old, new)
    \/ \E g \in grants : RevokeGrant(g.id) \/ ExtendGrant(g.id)
    \/ Snapshot

Next ==
    \/ \E c \in Connection : Asking(c) \/ Responding(c) \/ ThreadStep(c)
    \/ Managing
    \/ Clock

\* recv_timeout always returns, and a thread that wants the mutex gets it.
Fairness == \A c \in Connection : WF_vars(ThreadStep(c))

Spec == Init /\ [][Next]_vars /\ Fairness

-----------------------------------------------------------------------------
(* Properties.                                                             *)

\* Locking leaves nothing behind that the next session could use, and
\* unlocking leaves no request stuck: respond() only looks at
\* waiting_for_unlock, never at the vault, to refuse an approval while it is
\* locked, and that is enough because a locked vault has no grants and only
\* waiting requests, an open one no waiting requests.
SessionsAreSeparate ==
    /\ unlocked => waiting = {}
    /\ ~unlocked => grants = {} /\ pending = waiting

\* No request is left asking for what a stored grant already allows: whoever
\* comes first, the grant or the request, begin_request or respond settles
\* it.  A request that slipped through would sit in front of the user with
\* nothing to decide, until its timeout denied it.
NoCoveredPending ==
    \A c \in pending :
        request[c].verified => ~Covers(grants, request[c].secret, request[c].tree.members)

\* add() never looks for an equal grant, yet there are never two for one
\* secret and process: it takes a pending request the first does not cover.
OneGrantPerScope ==
    \A g, h \in grants :
        g.resource = h.resource /\ g.process = h.process => g.id = h.id

\* A sleeping thread can still be woken: while its request is open it is
\* either pending, with the sender, or its resolution is in the channel,
\* never both and never neither.  No request outlives its thread.
NoLostResolution ==
    \A c \in Connection :
        /\ Open(c) => (c \in pending <=> channel[c] = "empty")
        /\ ~Open(c) => c \notin pending /\ channel[c] = "empty"

\* What the activity list says is what the client got: a value goes out on
\* exactly one approving entry, a refusal on exactly one denial.  A thread
\* whose timeout raced the decision reports a timeout whatever the entry says.
AnswersMatchActivity ==
    \A c \in Connection :
        /\ handler[c] = "released" => \E a \in Approval : audit[c] = {a}
        /\ handler[c] = "refused"  => audit[c] = {"Denied"}
        /\ handler[c] = "expired"  => \A a, b \in audit[c] : a = b
        /\ handler[c] = "failed"   => audit[c] \subseteq Approval
        /\ c \in pending           => audit[c] = {}

\* What makes the properties above inductive: waiting_for_unlock only marks
\* pending requests, and a resolution in flight has its activity entry, but
\* for the failure of a request that was never decided.
ResolutionsMatchActivity ==
    \A c \in Connection :
        /\ channel[c] = "Approved" => \E a \in Approval : audit[c] = {a}
        /\ channel[c] = "Denied"   => audit[c] = {"Denied"}
        /\ channel[c] = "Failed"   => audit[c] = {}

Consistent ==
    /\ TypeOK
    /\ waiting \subseteq pending
    /\ SessionsAreSeparate
    /\ NoLostResolution
    /\ NoCoveredPending
    /\ OneGrantPerScope
    /\ AnswersMatchActivity
    /\ ResolutionsMatchActivity

\* Nothing is granted automatically but to a verified requester with a live
\* grant on that secret around it.  The grant may be older than the secret: one
\* that a failed delete or a rename left under the name is as good as any.
AutoGrantIsCovered ==
    \A c \in Connection :
        "AutoGranted" \in audit'[c] /\ "AutoGranted" \notin audit[c]
          => /\ request'[c].verified
             /\ Covers(Live', request'[c].secret, request'[c].tree.members)

AutoGrantsAreCovered == [][AutoGrantIsCovered]_vars

\* Revoking the entry the user sees ends the access: no other grant still
\* opens that secret to that process.
RevokeEndsScope ==
    [][\A g \in grants : RevokeGrant(g.id) =>
          ~\E h \in grants' : h.resource = g.resource /\ h.process = g.process]_vars

\* Nothing but the user's answer to a pending request opens a secret to a process
\* it was not open to before, and the process is one of that requester's tree,
\* never launchd: approvals of other requests, edits of secrets, unlocking and
\* extending make no grant, and none is carried over to another name.
GrantIsAnswer ==
    \A g \in grants' :
        \/ \E h \in grants : h.resource = g.resource /\ h.process = g.process
        \/ /\ g.process # Launchd
           /\ \E c \in pending \ waiting :
                 /\ request[c].verified
                 /\ request[c].secret = g.resource
                 /\ g.process \in request[c].tree.members
                 /\ audit'[c] = {"GrantedTemporarily"}

GrantsComeFromTheUser == [][GrantIsAnswer]_vars

\* launchd, which every process descends from, is never a boundary.
LaunchdIsNoBoundary == \A g \in grants : g.process # Launchd

\* Nothing is approved while the vault is locked, neither by the user nor by a
\* grant, although respond() does not look at the vault.
NothingApprovedWhileLocked ==
    [][~unlocked => \A c \in Connection :
          audit'[c] \cap Approval # {} => audit'[c] = audit[c]]_vars

\* While the clock only moves on, "+ 1 hour" never shortens what it extends.
ExtensionNeverShortens ==
    [][~ClockMayStepBack =>
         \A g \in Live : ExtendGrant(g.id) =>
            \E h \in grants' : h.id = g.id /\ h.expires >= g.expires]_vars

\* However often a grant is extended, it never has more than the maximum
\* left, as long as the clock is not set back.
GrantLifeIsBounded ==
    ~ClockMayStepBack => \A g \in grants : g.expires <= now + MaxGrant

\* Every client gets an answer.
EveryRequestIsAnswered == \A c \in Connection : Open(c) ~> ~Open(c)

-----------------------------------------------------------------------------
(* What the client sees of all this is ApprovalGate.                       *)

gateStage == [c \in Connection |->
    CASE handler[c] = "idle" -> "idle"
      [] Open(c)             -> "asked"
      [] OTHER               -> "answered"]

VerdictOf(entries, sent, state) ==
    IF \E a \in Approval : a \in entries THEN "approved"
    ELSE IF "Denied" \in entries THEN "denied"
    ELSE IF sent = "Failed" \/ state \in {"failed", "expired"} THEN "void"
    ELSE "none"

gateVerdict == [c \in Connection |-> VerdictOf(audit[c], channel[c], handler[c])]

gateAnswer == [c \in Connection |->
    CASE handler[c] = "released" -> "value"
      [] handler[c] \in Answer \ {"released"} -> "refusal"
      [] OTHER -> "none"]

Gate == INSTANCE ApprovalGate WITH
            Client <- Connection,
            stage <- gateStage, verdict <- gateVerdict, answer <- gateAnswer

\* Requests are decided and answered the way ApprovalGate promises, through
\* every interleaving of threads, decisions, timeouts, locks and edits.
ImplementsGate == Gate!Spec

=============================================================================
