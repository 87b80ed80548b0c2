------------------------------- MODULE AwsAccess -------------------------------
(***************************************************************************)
(* How an `aws-credentials` request is decided: at once by a remembered    *)
(* denial or a grant, else by the user, for the requester alone or for a   *)
(* boundary process and everything below it.  What the thread does with    *)
(* the level it was granted (tokens, sign-in, role credentials) is not     *)
(* part of this module.                                                    *)
(*                                                                         *)
(* Threads, the mutex and the one-shot channels are those of SecretAccess. *)
(***************************************************************************)
EXTENDS WallClock, Sequences

CONSTANTS Profile,     \* aliases the user may configure
          Process,     \* process identities: pid, start time, executable
          Launchd,     \* the process every other one descends from
          Mortal,      \* bound: the processes that may exit
          Connection,  \* slots for client connections, each with its thread
          Tree,        \* process trees, the requester first, then its ancestors
          NoRequest    \* a slot that never served a request

ASSUME TreeAssumption == Tree \subseteq Seq(Process) \ {<<>>}

VARIABLES unlocked,    \* Vault::unlocked()
          configured,  \* profiles with a target in the open vault; {} while locked
          disk,        \* profiles with a target in the vault file
          alive,       \* running processes
          decisions,   \* Controller.aws_process_decisions: the grants
          denials,     \* Controller.aws_process_denials
          pending,     \* keys of .pending_aws and .pending_aws_resolutions
          request,     \* the latest request of each connection
          channel,     \* what was sent to each thread and not yet received
          handler,     \* where each connection's thread is
          audit        \* the activity entries about the latest request

ruleVars  == <<decisions, denials>>
vaultVars == <<unlocked, configured, disk>>
queueVars == <<pending, channel>>
slotVars  == <<request, handler, audit>>
vars      == <<now, alive, ruleVars, vaultVars, queueVars, slotVars>>

Level    == {"ReadOnly", "Admin"}
Request  == [profile : Profile, tree : Tree, verified : BOOLEAN]

\* retain() keeps one decision and one denial per profile and process, so the
\* record stands for its uuid.
Decision == [profile : Profile, process : Process, level : Level, expires : Nat]
Denial   == [profile : Profile, process : Process, expires : Nat]

Approval    == {"AutoGranted", "AllowedOnce", "GrantedTemporarily"}
AuditAction == Approval \cup {"Denied", "TimedOut"}

\* A thread that was granted a level goes on with it: the level is its state.
Answer  == Level \cup {"refused", "failed", "expired"}
Handler == {"idle", "waiting", "elapsed"} \cup Answer

Open(c) == handler[c] \in {"waiting", "elapsed"}

Origin(tree)  == tree[1]
Members(tree) == {tree[i] : i \in 1..Len(tree)}

\* Every variable ranges over what the code can store in it.
TypeOK ==
    /\ now \in Nat
    /\ unlocked \in BOOLEAN
    /\ configured \subseteq Profile
    /\ disk \subseteq Profile
    /\ alive \subseteq Process
    /\ decisions \subseteq Decision
    /\ denials \subseteq Denial
    /\ pending \subseteq Connection
    /\ request \in [Connection -> Request \cup {NoRequest}]
    /\ \A c \in pending : request[c] \in Request
    /\ channel \in [Connection -> Level \cup {"Denied", "empty"}]
    /\ handler \in [Connection -> Handler]
    /\ audit \in [Connection -> SUBSET AuditAction]

Init ==
    /\ now = 0
    /\ unlocked = FALSE
    /\ configured = {}
    /\ disk \in SUBSET Profile
    /\ alive = Process
    /\ decisions = {}
    /\ denials = {}
    /\ pending = {}
    /\ request = [c \in Connection |-> NoRequest]
    /\ channel = [c \in Connection |-> "empty"]
    /\ handler = [c \in Connection |-> "idle"]
    /\ audit = [c \in Connection |-> {}]

-----------------------------------------------------------------------------
(* Operators several controller methods share.                             *)

Live(rules) == {rule \in rules : rule.expires > now}

\* prune_exited_aws_grants()
Prunable == {d \in decisions : d.expires <= now \/ d.process \notin alive}
Pruned   == decisions \ Prunable

\* Does some decision or denial of `rules` apply to a request?
Covers(rules, r) ==
    \E rule \in rules : rule.profile = r.profile /\ rule.process \in Members(r.tree)

\* find_map over the tree: the decision of the nearest ancestor.
Nearest(d, r) ==
    \E i \in 1..Len(r.tree) :
       /\ d.profile = r.profile /\ d.process = r.tree[i]
       /\ \A j \in 1..(i - 1), e \in Pruned :
             ~(e.profile = r.profile /\ e.process = r.tree[j])

SameScope(rule, profile, process) == rule.profile = profile /\ rule.process = process

\* remember_aws_denial()
WithDenial(profile, process) ==
    {n \in denials : ~SameScope(n, profile, process)}
      \cup {[profile |-> profile, process |-> process, expires |-> now + DefaultGrant]}

\* Variant of PendingWithin: a boundary settles only the request it came with.
NobodyWithin(profile, process) == {}

\* Variant of PendingWithin: the boundary alone decides, whatever the profile.
AnyProfileWithin(profile, process) ==
    {c \in pending : request[c].verified /\ process \in Members(request[c].tree)}

\* resolve_pending_aws_requests(): verified requests for the profile inside
\* the boundary.
PendingWithin(profile, process) ==
    {c \in pending : /\ request[c].verified
                     /\ request[c].profile = profile
                     /\ process \in Members(request[c].tree)}

\* The requests of C leave the maps and their threads are sent the resolution.
Resolve(C, resolution) ==
    /\ pending' = pending \ C
    /\ channel' = [c \in Connection |-> IF c \in C THEN resolution ELSE channel[c]]

\* One entry for the request the user answered, another for those settled
\* with it.
Record(c, action, others, theirs) ==
    audit' = [d \in Connection |->
                IF d = c THEN audit[d] \cup {action}
                ELSE IF d \in others THEN audit[d] \cup {theirs}
                ELSE audit[d]]

-----------------------------------------------------------------------------
(* begin_aws_request().  It first drops the grants that expired or whose   *)
(* process exited, and the denials that expired.                           *)

Begin(c, r, state, entries) ==
    /\ ~Open(c)
    /\ decisions' = Pruned
    /\ denials' = Live(denials)
    /\ request' = [request EXCEPT ![c] = r]
    /\ handler' = [handler EXCEPT ![c] = state]
    /\ audit' = [audit EXCEPT ![c] = entries]
    /\ UNCHANGED <<now, alive, vaultVars>>

IsDenied(r)  == r.verified /\ Covers(Live(denials), r)
IsAllowed(r) == r.verified /\ unlocked /\ Covers(Pruned, r)

\* A remembered denial answers first, locked or not, without an entry.
BeginDenied(c, r) ==
    /\ IsDenied(r)
    /\ Begin(c, r, "refused", {})
    /\ UNCHANGED queueVars

\* An open vault without a target for the profile: an error.
BeginUnknown(c, r) ==
    /\ ~IsDenied(r)
    /\ unlocked /\ r.profile \notin configured
    /\ Begin(c, r, "failed", {})
    /\ UNCHANGED queueVars

\* Variant of BeginAllowed that does not look at the denials first.
BeginAllowedFirst(c, r) ==
    /\ unlocked /\ r.profile \in configured
    /\ r.verified
    /\ \E d \in Pruned : Nearest(d, r) /\ Begin(c, r, d.level, {"AutoGranted"})
    /\ UNCHANGED queueVars

\* The nearest ancestor with a grant decides the level.
BeginAllowed(c, r) ==
    /\ ~IsDenied(r)
    /\ unlocked /\ r.profile \in configured
    /\ r.verified
    /\ \E d \in Pruned : Nearest(d, r) /\ Begin(c, r, d.level, {"AutoGranted"})
    /\ UNCHANGED queueVars

\* Otherwise the user is asked, also while the vault is locked.
BeginQueued(c, r) ==
    /\ ~IsDenied(r)
    /\ unlocked => r.profile \in configured
    /\ ~IsAllowed(r)
    /\ Begin(c, r, "waiting", {})
    /\ pending' = pending \cup {c}
    /\ UNCHANGED channel

-----------------------------------------------------------------------------
(* respond_aws() and dismiss_aws_request(), called by the approval window. *)

Approvable(c) ==
    /\ c \in pending
    /\ unlocked
    /\ request[c].profile \in configured

\* validated_grant_process(): any process of the tree but launchd.
Boundary(c) == Members(request[c].tree) \ {Launchd}

\* The new grant replaces the one the boundary had and lifts its block.
Approve(c, level, boundary, seconds) ==
    LET profile == request[c].profile
        others  == PendingWithin(profile, boundary) \ {c}
    IN  /\ Approvable(c)
        /\ request[c].verified
        /\ boundary \in Boundary(c)
        /\ seconds \in ValidSeconds
        /\ decisions' = {d \in decisions : ~SameScope(d, profile, boundary)}
             \cup {[profile |-> profile, process |-> boundary, level |-> level,
                    expires |-> now + seconds]}
        /\ denials' = {n \in denials : ~SameScope(n, profile, boundary)}
        /\ Resolve({c} \cup others, level)
        /\ Record(c, "GrantedTemporarily", others, "AutoGranted")
        /\ UNCHANGED <<now, alive, vaultVars, request, handler>>

\* Variant of ApproveUnverified: a request that was settled is no error.
ApproveUnverifiedAgain(c, level) ==
    /\ Open(c) /\ unlocked /\ request[c].profile \in configured
    /\ ~request[c].verified
    /\ Resolve({c}, level)
    /\ Record(c, "AllowedOnce", {}, "AutoGranted")
    /\ UNCHANGED <<now, alive, ruleVars, vaultVars, request, handler>>

\* An unverified request is allowed once, and leaves nothing behind.
ApproveUnverified(c, level) ==
    /\ Approvable(c)
    /\ ~request[c].verified
    /\ Resolve({c}, level)
    /\ Record(c, "AllowedOnce", {}, "AutoGranted")
    /\ UNCHANGED <<now, alive, ruleVars, vaultVars, request, handler>>

Deny(c, boundary) ==
    LET profile == request[c].profile
        others  == PendingWithin(profile, boundary) \ {c}
    IN  /\ c \in pending
        /\ request[c].verified
        /\ boundary \in Boundary(c)
        /\ denials' = WithDenial(profile, boundary)
        /\ Resolve({c} \cup others, "Denied")
        /\ Record(c, "Denied", others, "Denied")
        /\ UNCHANGED <<now, alive, decisions, vaultVars, request, handler>>

\* Closing the window, and denying an unverified request: only this request.
Dismiss(c) ==
    /\ c \in pending
    /\ Resolve({c}, "Denied")
    /\ Record(c, "Denied", {}, "Denied")
    /\ UNCHANGED <<now, alive, ruleVars, vaultVars, request, handler>>

-----------------------------------------------------------------------------
(* The thread's side.                                                      *)

Finish(c, answer) ==
    /\ handler' = [handler EXCEPT ![c] = answer]
    /\ channel' = [channel EXCEPT ![c] = "empty"]

\* Variant of Receive: the thread goes on with what it was sent, whatever it is.
ReceiveRaw(c) ==
    /\ handler[c] = "waiting"
    /\ channel[c] # "empty"
    /\ Finish(c, channel[c])
    /\ UNCHANGED <<now, alive, ruleVars, vaultVars, pending, request, audit>>

Receive(c) ==
    /\ handler[c] = "waiting"
    /\ channel[c] # "empty"
    /\ Finish(c, IF channel[c] = "Denied" THEN "refused" ELSE channel[c])
    /\ UNCHANGED <<now, alive, ruleVars, vaultVars, pending, request, audit>>

\* Variant of Elapse: recv() in place of recv_timeout().
NeverElapse(c) == FALSE /\ UNCHANGED vars

\* Ten minutes without a resolution.  The mutex is still to be taken.
Elapse(c) ==
    /\ handler[c] = "waiting"
    /\ channel[c] = "empty"
    /\ handler' = [handler EXCEPT ![c] = "elapsed"]
    /\ UNCHANGED <<now, alive, ruleVars, vaultVars, queueVars, request, audit>>

\* Variant of TimeoutLate: the timeout is recorded although it lost the race.
TimeoutLateRecorded(c) ==
    /\ handler[c] = "elapsed"
    /\ c \notin pending
    /\ Finish(c, "expired")
    /\ Record(c, "TimedOut", {}, "Denied")
    /\ UNCHANGED <<now, alive, ruleVars, vaultVars, pending, request>>

\* timeout_aws_request(), when the request was decided in the meantime.
TimeoutLate(c) ==
    /\ handler[c] = "elapsed"
    /\ c \notin pending
    /\ Finish(c, "expired")
    /\ UNCHANGED <<now, alive, ruleVars, vaultVars, pending, request, audit>>

\* timeout_aws_request(): a verified requester is blocked as if the user had
\* denied it, with its own process as the boundary.  The requests settled
\* with it are recorded as denied.
TimeoutRequest(c) ==
    LET profile == request[c].profile
        origin  == Origin(request[c].tree)
        others  == IF request[c].verified
                     THEN PendingWithin(profile, origin) \ {c} ELSE {}
    IN  /\ handler[c] = "elapsed"
        /\ c \in pending
        /\ denials' = IF request[c].verified THEN WithDenial(profile, origin) ELSE denials
        /\ pending' = pending \ ({c} \cup others)
        /\ channel' = [d \in Connection |-> IF d \in others THEN "Denied" ELSE channel[d]]
        /\ handler' = [handler EXCEPT ![c] = "expired"]
        /\ Record(c, "TimedOut", others, "Denied")
        /\ UNCHANGED <<now, alive, decisions, vaultVars, request>>

-----------------------------------------------------------------------------
(* The rest of the user interface, and what the system does on its own.    *)

Unlock ==
    /\ ~unlocked
    /\ unlocked' = TRUE
    /\ configured' = disk
    /\ UNCHANGED <<now, alive, disk, ruleVars, queueVars, slotVars>>

\* Variant of Lock: the senders are cleared, not told.
LockSilently ==
    /\ unlocked' = FALSE
    /\ configured' = {}
    /\ pending' = {}
    /\ decisions' = {}
    /\ denials' = {}
    /\ UNCHANGED <<now, alive, disk, channel, slotVars>>

\* Variant of Lock: the grants survive.
LockKeepingGrants ==
    /\ unlocked' = FALSE
    /\ configured' = {}
    /\ Resolve(pending, "Denied")
    /\ UNCHANGED <<now, alive, disk, ruleVars, slotVars>>

\* Lock: every thread is told no, without an activity entry, and grants and
\* denials are forgotten.
Lock ==
    /\ unlocked' = FALSE
    /\ configured' = {}
    /\ Resolve(pending, "Denied")
    /\ decisions' = {}
    /\ denials' = {}
    /\ UNCHANGED <<now, alive, disk, slotVars>>

\* save_aws_configuration(): new targets start without grants or denials.
\* When the file can't be written the new targets are in memory all the same,
\* and the rules stay.  Pending requests stay in either case.
SaveConfiguration(targets) ==
    /\ unlocked
    /\ configured' = targets
    /\ \/ /\ disk' = targets
          /\ decisions' = {}
          /\ denials' = {}
       \/ UNCHANGED <<disk, ruleVars>>
    /\ UNCHANGED <<now, alive, unlocked, queueVars, slotVars>>

\* persist_aws_session() after discovery drops the targets whose account or
\* roles are gone.  Without any to drop this is also every other save of the
\* vault, which brings the file up to date.
DropTargets(targets) ==
    /\ unlocked
    /\ targets \subseteq configured
    /\ configured' = targets
    /\ disk' \in {targets, disk}
    /\ UNCHANGED <<now, alive, unlocked, ruleVars, queueVars, slotVars>>

\* Variant of SetLevel: the grant with the new level joins the old one.
SetLevelBeside(d, level) ==
    /\ unlocked
    /\ d \in Pruned
    /\ decisions' = Pruned \cup {[d EXCEPT !.level = level]}
    /\ UNCHANGED <<now, alive, denials, vaultVars, queueVars, slotVars>>

\* set_aws_grant_level() prunes first.
SetLevel(d, level) ==
    /\ unlocked
    /\ d \in Pruned
    /\ decisions' = (Pruned \ {d}) \cup {[d EXCEPT !.level = level]}
    /\ UNCHANGED <<now, alive, denials, vaultVars, queueVars, slotVars>>

\* extend_aws_grant() leaves an expired grant alone, and prunes nothing.
ExtendDecision(d) ==
    /\ d \in Live(decisions)
    /\ decisions' = (decisions \ {d}) \cup {[d EXCEPT !.expires = ExtendedExpiry(@)]}
    /\ UNCHANGED <<now, alive, denials, vaultVars, queueVars, slotVars>>

RevokeDecision(d) ==
    /\ decisions' = decisions \ {d}
    /\ UNCHANGED <<now, alive, denials, vaultVars, queueVars, slotVars>>

Unblock(n) ==
    /\ denials' = denials \ {n}
    /\ UNCHANGED <<now, alive, decisions, vaultVars, queueVars, slotVars>>

\* snapshot(), at every refresh, and the liveness check of the grants page.
Snapshot ==
    /\ decisions' = Live(decisions)
    /\ denials' = Live(denials)
    /\ UNCHANGED <<now, alive, vaultVars, queueVars, slotVars>>

Prune ==
    /\ decisions' = Pruned
    /\ UNCHANGED <<now, alive, denials, vaultVars, queueVars, slotVars>>

Clock == TimePasses /\ UNCHANGED <<alive, ruleVars, vaultVars, queueVars, slotVars>>

Exit(process) ==
    /\ process \in alive \cap Mortal
    /\ alive' = alive \ {process}
    /\ UNCHANGED <<now, ruleVars, vaultVars, queueVars, slotVars>>

-----------------------------------------------------------------------------
ThreadStep(c) == Receive(c) \/ Elapse(c) \/ TimeoutLate(c) \/ TimeoutRequest(c)

Asking(c) ==
    \E r \in Request : \/ BeginDenied(c, r) \/ BeginUnknown(c, r)
                       \/ BeginAllowed(c, r) \/ BeginQueued(c, r)

Responding(c) ==
    \/ \E level \in Level, boundary \in Process, seconds \in ValidSeconds :
          Approve(c, level, boundary, seconds)
    \/ \E level \in Level : ApproveUnverified(c, level)
    \/ \E boundary \in Process : Deny(c, boundary)
    \/ Dismiss(c)

Managing ==
    \/ Unlock
    \/ Lock
    \/ \E targets \in SUBSET Profile : SaveConfiguration(targets) \/ DropTargets(targets)
    \/ \E d \in decisions :
          \/ \E level \in Level : SetLevel(d, level)
          \/ ExtendDecision(d)
          \/ RevokeDecision(d)
    \/ \E n \in denials : Unblock(n)
    \/ Snapshot
    \/ Prune

Next ==
    \/ \E c \in Connection : Asking(c) \/ Responding(c) \/ ThreadStep(c)
    \/ Managing
    \/ Clock
    \/ \E process \in Process : Exit(process)

\* recv_timeout always returns, and a thread that wants the mutex gets it.
Fairness == \A c \in Connection : WF_vars(ThreadStep(c))

Spec == Init /\ [][Next]_vars /\ Fairness

-----------------------------------------------------------------------------
(* Properties.                                                             *)

\* No request is left asking about what a stored grant or denial already
\* settles: whichever comes first, begin_aws_request, the answer to another
\* request or another request's timeout settles it.  This is what keeps a
\* retrying tool from opening one window after another.
NoCoveredPending ==
    \A c \in pending :
        request[c].verified => ~Covers(decisions, request[c]) /\ ~Covers(denials, request[c])

\* No process is both granted and denied a profile.  remember_aws_denial never
\* removes a grant, also not when a timeout records the denial; it need not,
\* because a request whose tree holds a granted process is never pending.
NoContradiction ==
    \A d \in decisions, n \in denials : ~SameScope(n, d.profile, d.process)

\* A locked vault holds no grants: nothing is decided automatically from an
\* earlier session.  Denials may be there: requests are also denied, and time
\* out, while it is locked.
LockedHasNoGrants == ~unlocked => decisions = {}

\* A sleeping thread can still be woken: while its request is open it is
\* either pending, with the sender, or its resolution is in the channel.
NoLostResolution ==
    \A c \in Connection :
        /\ Open(c) => (c \in pending <=> channel[c] = "empty")
        /\ ~Open(c) => c \notin pending /\ channel[c] = "empty"

\* A level goes out on exactly one approving entry.  A refusal has one denial
\* entry, or none when it comes from a remembered denial or from locking.
AnswersMatchActivity ==
    \A c \in Connection :
        /\ handler[c] \in Level    => \E a \in Approval : audit[c] = {a}
        /\ handler[c] = "refused"  => audit[c] \subseteq {"Denied"}
        /\ handler[c] = "expired"  => \A a, b \in audit[c] : a = b
        /\ handler[c] = "failed"   => audit[c] = {}
        /\ c \in pending           => audit[c] = {}

\* What makes the properties above inductive: a level on its way has its one
\* approving entry, a denial at most a denial entry.
ResolutionsMatchActivity ==
    \A c \in Connection :
        /\ channel[c] \in Level => \E a \in Approval : audit[c] = {a}
        /\ channel[c] = "Denied" => audit[c] \subseteq {"Denied"}

Consistent ==
    /\ TypeOK
    /\ LockedHasNoGrants
    /\ NoLostResolution
    /\ NoCoveredPending
    /\ NoContradiction
    /\ AnswersMatchActivity
    /\ ResolutionsMatchActivity

\* Grants and denials end in bounded time, as long as the clock is not set
\* back: a grant at most the maximum from now, however often it is extended,
\* a denial at most the default.
RuleLifeIsBounded ==
    ~ClockMayStepBack => /\ \A d \in decisions : d.expires <= now + MaxGrant
                         /\ \A n \in denials : n.expires <= now + DefaultGrant

\* The level a request is given: handed to its thread or on its way to it.
GrantedLevel(c) == IF handler[c] \in Level THEN handler[c] ELSE channel[c]

\* What a verified request is given comes from a live grant of that profile
\* around the requester, at that grant's level; and once the user has allowed
\* it no denial is left that would refuse the same request the next time.
GrantIsInForce ==
    \A c \in Connection :
        audit'[c] \cap {"AutoGranted", "GrantedTemporarily"} # {} /\ audit'[c] # audit[c]
          => /\ request'[c].verified
             /\ \E d \in Live(decisions)' :
                   /\ d.profile = request'[c].profile
                   /\ d.process \in Members(request'[c].tree)
                   /\ d.level = GrantedLevel(c)'
             /\ ~Covers(denials', request'[c])

GrantsAreInForce == [][GrantIsInForce]_vars

\* There is at most one grant and one denial of a profile for a process.  The
\* window revokes by id, so this is what makes revoking an entry end its scope,
\* and what makes the level of an automatic grant a matter of the tree alone.
OneRulePerScope ==
    /\ \A d, e \in decisions : SameScope(e, d.profile, d.process) => e = d
    /\ \A m, n \in denials : SameScope(m, n.profile, n.process) => m = n

\* Revoking a grant the user sees leaves none for its profile and process, and
\* unblocking leaves no denial: whatever the level or the expiry was changed to.
RevokeEndsScope ==
    [][/\ \A d \in decisions : RevokeDecision(d) =>
             \A e \in decisions' : ~SameScope(e, d.profile, d.process)
       /\ \A n \in denials : Unblock(n) =>
             \A m \in denials' : ~SameScope(m, n.profile, n.process)]_vars

\* Does the rule concern what this verified request asks?
AsksFor(c, rule) ==
    /\ request[c].verified
    /\ request[c].profile = rule.profile
    /\ rule.process \in Members(request[c].tree)

\* Nothing but the answer to a pending request grants or blocks a scope that was
\* not granted or blocked before, and it does so inside that request's tree.
\* launchd is never granted, and blocked only when its own request timed out.
RuleIsAnswer ==
    /\ \A d \in decisions' :
          \/ \E e \in decisions : SameScope(e, d.profile, d.process)
          \/ /\ d.process # Launchd
             /\ \E c \in pending : AsksFor(c, d) /\ audit'[c] = {"GrantedTemporarily"}
    /\ \A n \in denials' :
          \/ \E m \in denials : SameScope(m, n.profile, n.process)
          \/ \E c \in pending :
                /\ AsksFor(c, n)
                /\ \/ audit'[c] = {"Denied"} /\ n.process # Launchd
                   \/ audit'[c] = {"TimedOut"} /\ n.process = Origin(request[c].tree)

RulesAreAnswers == [][RuleIsAnswer]_vars

\* launchd is never granted, and is blocked only if some client had it as the
\* first process of its tree, which is when launchd has adopted the client.
LaunchdOnlyForOrphans ==
    /\ \A d \in decisions : d.process # Launchd
    /\ (\E n \in denials : n.process = Launchd) => \E t \in Tree : Origin(t) = Launchd

\* An answer only adds: the grants and denials that respond_aws, a timeout and
\* remember_aws_denial take out to put a newer one in their place are never
\* there, because a request one of them covers is not pending.
AnswersOnlyAdd ==
    [][(\E c \in Connection : Responding(c) \/ ThreadStep(c))
          => decisions \subseteq decisions' /\ denials \subseteq denials']_vars

\* begin_aws_request finds one grant whenever a live grant covers the request,
\* so that a request is never queued, nor its level a matter of the grants'
\* order, on account of how the tree is searched.
OneNearestGrant ==
    \A r \in Request : Covers(Pruned, r) =>
        \E d \in Pruned : Nearest(d, r) /\ \A e \in Pruned : Nearest(e, r) => e = d

\* While the clock only moves on, "+ 1 hour" never shortens what it extends.
ExtensionNeverShortens ==
    [][~ClockMayStepBack =>
         \A d \in decisions : ExtendDecision(d) =>
            \E e \in decisions' : SameScope(e, d.profile, d.process) /\ e.expires >= d.expires]_vars

\* Every client gets an answer.
EveryRequestIsAnswered == \A c \in Connection : Open(c) ~> ~Open(c)

\* What controller.rs validated_grant_process says of a boundary: launchd,
\* which every process descends from, is never one.
LaunchdIsNoBoundary ==
    /\ \A d \in decisions : d.process # Launchd
    /\ \A n \in denials : n.process # Launchd

-----------------------------------------------------------------------------
(* What the client sees of all this is ApprovalGate.                       *)

gateStage == [c \in Connection |->
    CASE handler[c] = "idle" -> "idle"
      [] Open(c)             -> "asked"
      [] OTHER               -> "answered"]

\* A denial without an entry, on locking, is a verdict once it is sent.
VerdictOf(entries, sent, state) ==
    IF \E a \in Approval : a \in entries THEN "approved"
    ELSE IF "Denied" \in entries THEN "denied"
    ELSE IF sent = "Denied" \/ state \in {"refused", "failed", "expired"} THEN "void"
    ELSE "none"

gateVerdict == [c \in Connection |-> VerdictOf(audit[c], channel[c], handler[c])]

gateAnswer == [c \in Connection |->
    CASE handler[c] \in Level -> "value"
      [] handler[c] \in Answer \ Level -> "refusal"
      [] OTHER -> "none"]

Gate == INSTANCE ApprovalGate WITH
            Client <- Connection,
            stage <- gateStage, verdict <- gateVerdict, answer <- gateAnswer

\* Requests for AWS credentials are decided the way ApprovalGate promises too.
ImplementsGate == Gate!Spec

==============================================================================
