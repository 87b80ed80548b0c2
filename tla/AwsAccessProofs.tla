---------------------------- MODULE AwsAccessProofs ----------------------------
(***************************************************************************)
(* Machine-checked proofs about AwsAccess, for any numbers of clients,     *)
(* profiles and processes, any process trees, any durations, any exits and *)
(* a wall clock that may move either way.                                  *)
(***************************************************************************)
EXTENDS AwsAccess, WellFoundedInduction, TLAPS

\* The requester is a process, and a member of its own tree.
LEMMA TreeFacts ==
    ASSUME NEW r \in Request
    PROVE  /\ r.profile \in Profile
           /\ r.tree \in Seq(Process)
           /\ Len(r.tree) \in Nat \ {0}
           /\ Members(r.tree) \subseteq Process
           /\ Origin(r.tree) \in Members(r.tree)
<1>1. r.profile \in Profile /\ r.tree \in Seq(Process) /\ r.tree # <<>>
  BY TreeAssumption DEF Request
<1>2. Len(r.tree) \in Nat /\ Len(r.tree) # 0
  BY <1>1
<1>3. \A i \in 1..Len(r.tree) : r.tree[i] \in Process
  BY <1>1
<1> QED
  BY <1>1, <1>2, <1>3 DEF Members, Origin

\* Extending keeps an expiry an instant.
LEMMA ExtendedExpiryIsNat ==
    ASSUME now \in Nat, NEW e \in Nat PROVE ExtendedExpiry(e) \in Nat
BY DurationAssumption DEF ExtendedExpiry

\* A new denial replaces the one of its scope, and lasts the default.
LEMMA DenialAdded ==
    ASSUME now \in Nat, denials \subseteq Denial, NEW profile \in Profile, NEW process \in Process
    PROVE  /\ WithDenial(profile, process) \subseteq Denial
           /\ \A n \in WithDenial(profile, process) :
                n \in denials \/ (SameScope(n, profile, process) /\ n.expires = now + DefaultGrant)
BY DurationAssumption DEF WithDenial, Denial, SameScope

\* Every reachable state has values of the declared types.
LEMMA TypeStep == TypeOK /\ [Next]_vars => TypeOK'
<1> SUFFICES ASSUME TypeOK, [Next]_vars PROVE TypeOK'
  OBVIOUS
<1> USE DEF TypeOK, vars, ruleVars, vaultVars, queueVars, slotVars
<1>1. ASSUME NEW c \in Connection, Asking(c) PROVE TypeOK'
  <2>1. PICK r \in Request :
           BeginDenied(c, r) \/ BeginUnknown(c, r) \/ BeginAllowed(c, r) \/ BeginQueued(c, r)
    BY <1>1 DEF Asking
  <2>2. CASE BeginDenied(c, r)
    BY <2>2 DEF BeginDenied, Begin, Pruned, Live, Handler, Answer
  <2>3. CASE BeginUnknown(c, r)
    BY <2>3 DEF BeginUnknown, Begin, Pruned, Live, Handler, Answer
  <2>4. CASE BeginAllowed(c, r)
    <3>1. PICK d \in Pruned : Begin(c, r, d.level, {"AutoGranted"})
      BY <2>4 DEF BeginAllowed
    <3>2. d.level \in Handler
      BY <3>1 DEF Pruned, Decision, Handler, Answer
    <3> QED
      BY <2>4, <3>1, <3>2 DEF BeginAllowed, Begin, Pruned, Live, AuditAction, Approval
  <2>5. CASE BeginQueued(c, r)
    BY <2>5 DEF BeginQueued, Begin, Pruned, Live, Handler
  <2> QED
    BY <2>1, <2>2, <2>3, <2>4, <2>5
<1>2. ASSUME NEW c \in Connection, Responding(c) PROVE TypeOK'
  <2>1. ASSUME NEW level \in Level, NEW boundary \in Process, NEW seconds \in ValidSeconds,
               Approve(c, level, boundary, seconds)
        PROVE  TypeOK'
    <3>1. request[c] \in Request /\ now + seconds \in Nat
      BY <2>1, DurationAssumption DEF Approve, Approvable, ValidSeconds
    <3>2. request[c].profile \in Profile
      BY <3>1, TreeFacts
    <3>3. decisions' \subseteq Decision /\ denials' \subseteq Denial
      BY <2>1, <3>1, <3>2 DEF Approve, Decision
    <3> QED
      BY <2>1, <3>3 DEF Approve, Resolve, Record, AuditAction, Approval
  <2>2. ASSUME NEW level \in Level, ApproveUnverified(c, level) PROVE TypeOK'
    BY <2>2 DEF ApproveUnverified, Resolve, Record, AuditAction, Approval
  <2>3. ASSUME NEW boundary \in Process, Deny(c, boundary) PROVE TypeOK'
    <3>1. request[c].profile \in Profile
      BY <2>3, TreeFacts DEF Deny
    <3>2. denials' \subseteq Denial
      BY <2>3, <3>1, DenialAdded DEF Deny
    <3> QED
      BY <2>3, <3>2 DEF Deny, Resolve, Record, AuditAction
  <2>4. CASE Dismiss(c)
    BY <2>4 DEF Dismiss, Resolve, Record, AuditAction
  <2> QED
    BY <1>2, <2>1, <2>2, <2>3, <2>4 DEF Responding
<1>3. ASSUME NEW c \in Connection, ThreadStep(c) PROVE TypeOK'
  <2>1. CASE Receive(c)
    BY <2>1 DEF Receive, Finish, Handler, Answer, Level
  <2>2. CASE Elapse(c)
    BY <2>2 DEF Elapse, Handler
  <2>3. CASE TimeoutLate(c)
    BY <2>3 DEF TimeoutLate, Finish, Handler, Answer
  <2>4. CASE TimeoutRequest(c)
    <3>1. request[c].profile \in Profile /\ Origin(request[c].tree) \in Process
      BY <2>4, TreeFacts DEF TimeoutRequest
    <3>2. denials' \subseteq Denial
      BY <2>4, <3>1, DenialAdded DEF TimeoutRequest
    <3> QED
      BY <2>4, <3>2 DEF TimeoutRequest, Record, Handler, Answer, AuditAction
  <2> QED
    BY <1>3, <2>1, <2>2, <2>3, <2>4 DEF ThreadStep
<1>4. ASSUME Managing PROVE TypeOK'
  <2>1. CASE Unlock
    BY <2>1 DEF Unlock
  <2>2. CASE Lock
    BY <2>2 DEF Lock, Resolve
  <2>3. ASSUME NEW targets \in SUBSET Profile, SaveConfiguration(targets) PROVE TypeOK'
    BY <2>3 DEF SaveConfiguration
  <2>4. ASSUME NEW targets \in SUBSET Profile, DropTargets(targets) PROVE TypeOK'
    BY <2>4 DEF DropTargets
  <2>5. ASSUME NEW d \in decisions, NEW level \in Level, SetLevel(d, level) PROVE TypeOK'
    BY <2>5 DEF SetLevel, Pruned, Decision
  <2>6. ASSUME NEW d \in decisions, ExtendDecision(d) PROVE TypeOK'
    <3>1. d.expires \in Nat
      BY DEF Decision
    <3>2. ExtendedExpiry(d.expires) \in Nat
      BY <3>1, ExtendedExpiryIsNat
    <3>3. [d EXCEPT !.expires = ExtendedExpiry(@)] \in Decision
      BY <3>2 DEF Decision
    <3> QED
      BY <2>6, <3>3 DEF ExtendDecision
  <2>7. ASSUME NEW d \in decisions, RevokeDecision(d) PROVE TypeOK'
    BY <2>7 DEF RevokeDecision
  <2>8. ASSUME NEW n \in denials, Unblock(n) PROVE TypeOK'
    BY <2>8 DEF Unblock
  <2>9. CASE Snapshot \/ Prune
    BY <2>9 DEF Snapshot, Prune, Live, Pruned
  <2> QED
    BY <1>4, <2>1, <2>2, <2>3, <2>4, <2>5, <2>6, <2>7, <2>8, <2>9 DEF Managing
<1>5. CASE Clock
  BY <1>5, DurationAssumption DEF Clock, TimePasses
<1>6. ASSUME NEW process \in Process, Exit(process) PROVE TypeOK'
  BY <1>6 DEF Exit
<1>7. CASE UNCHANGED vars
  BY <1>7
<1> QED
  BY <1>1, <1>2, <1>3, <1>4, <1>5, <1>6, <1>7 DEF Next

-----------------------------------------------------------------------------
\* Managing grants and denials, time and exits leave requests and sessions
\* alone, and never widen what the stored grants and denials cover.
Quiet ==
    /\ UNCHANGED <<unlocked, queueVars, slotVars>>
    /\ \A e \in decisions' : \E d \in decisions : d.profile = e.profile /\ d.process = e.process
    /\ denials' \subseteq denials

LEMMA StepKinds ==
    ASSUME TypeOK, [Next]_vars
    PROVE  \/ \E c \in Connection : Asking(c) \/ Responding(c) \/ ThreadStep(c)
           \/ Unlock \/ Lock \/ Quiet
<1> USE DEF ruleVars, vaultVars
<1>1. ASSUME NEW targets \in SUBSET Profile, SaveConfiguration(targets) \/ DropTargets(targets)
      PROVE  Quiet
  BY <1>1 DEF SaveConfiguration, DropTargets, Quiet
<1>2. ASSUME NEW d \in decisions, NEW level \in Level, SetLevel(d, level) PROVE Quiet
  <2>1. d \in Decision
    BY DEF TypeOK
  <2> QED
    BY <1>2, <2>1 DEF SetLevel, Pruned, Decision, Quiet
<1>3. ASSUME NEW d \in decisions, ExtendDecision(d) PROVE Quiet
  <2>1. d \in Decision
    BY DEF TypeOK
  <2> QED
    BY <1>3, <2>1 DEF ExtendDecision, Decision, Quiet
<1>4. ASSUME NEW d \in decisions, RevokeDecision(d) PROVE Quiet
  BY <1>4 DEF RevokeDecision, Quiet
<1>5. ASSUME NEW n \in denials, Unblock(n) PROVE Quiet
  BY <1>5 DEF Unblock, Quiet
<1>6. CASE Snapshot \/ Prune
  BY <1>6 DEF Snapshot, Prune, Live, Pruned, Quiet
<1>7. CASE Clock
  BY <1>7 DEF Clock, TimePasses, Quiet
<1>8. ASSUME NEW process \in Process, Exit(process) PROVE Quiet
  BY <1>8 DEF Exit, Quiet
<1>9. CASE UNCHANGED vars
  BY <1>9 DEF vars, Quiet
<1> QED
  BY <1>1, <1>2, <1>3, <1>4, <1>5, <1>6, <1>7, <1>8, <1>9 DEF Next, Managing

\* Locking empties the grants, and none is made before the next unlock.
LEMMA LockStep ==
    ASSUME TypeOK, LockedHasNoGrants, [Next]_vars
    PROVE  LockedHasNoGrants'
<1> USE DEF LockedHasNoGrants, ruleVars, vaultVars
<1>1. ASSUME NEW c \in Connection, Asking(c) PROVE LockedHasNoGrants'
  BY <1>1 DEF Asking, BeginDenied, BeginUnknown, BeginAllowed, BeginQueued, Begin, Pruned
<1>2. ASSUME NEW c \in Connection, Responding(c) PROVE LockedHasNoGrants'
  <2>1. unlocked' = unlocked /\ (unlocked \/ decisions' = decisions)
    BY <1>2 DEF Responding, Approve, Approvable, ApproveUnverified, Deny, Dismiss
  <2> QED
    BY <2>1
<1>3. ASSUME NEW c \in Connection, ThreadStep(c) PROVE LockedHasNoGrants'
  BY <1>3 DEF ThreadStep, Receive, Elapse, TimeoutLate, TimeoutRequest
<1>4. CASE Unlock \/ Lock
  BY <1>4 DEF Unlock, Lock
<1>5. CASE Quiet
  BY <1>5 DEF Quiet
<1> QED
  BY <1>1, <1>2, <1>3, <1>4, <1>5, StepKinds

\* No thread sleeps without somebody left to wake it.
LEMMA ResolutionStep ==
    ASSUME TypeOK, NoLostResolution, [Next]_vars
    PROVE  NoLostResolution'
<1> USE DEF NoLostResolution, TypeOK, Open, queueVars, slotVars
<1>1. ASSUME NEW c \in Connection, Asking(c) PROVE NoLostResolution'
  <2>1. PICK r \in Request :
           BeginDenied(c, r) \/ BeginUnknown(c, r) \/ BeginAllowed(c, r) \/ BeginQueued(c, r)
    BY <1>1 DEF Asking
  <2>2. CASE BeginQueued(c, r)
    BY <2>2 DEF BeginQueued, Begin
  <2>3. CASE BeginDenied(c, r) \/ BeginUnknown(c, r)
    BY <2>3 DEF BeginDenied, BeginUnknown, Begin
  <2>4. CASE BeginAllowed(c, r)
    <3>1. PICK d \in Pruned : Begin(c, r, d.level, {"AutoGranted"})
      BY <2>4 DEF BeginAllowed
    <3>2. d.level \in Level
      BY <3>1 DEF Pruned, Decision
    <3> QED
      BY <2>4, <3>1, <3>2 DEF BeginAllowed, Begin, Level
  <2> QED
    BY <2>1, <2>2, <2>3, <2>4
<1>2. ASSUME NEW c \in Connection, Responding(c) PROVE NoLostResolution'
  <2>1. PICK C \in SUBSET pending, resolution \in Level \cup {"Denied"} :
           Resolve(C, resolution) /\ handler' = handler
    <3>1. ASSUME NEW level \in Level, NEW boundary \in Process, NEW seconds \in ValidSeconds,
                 Approve(c, level, boundary, seconds)
          PROVE  \E C \in SUBSET pending : Resolve(C, level) /\ handler' = handler
      BY <3>1 DEF Approve, Approvable, PendingWithin
    <3>2. ASSUME NEW level \in Level, ApproveUnverified(c, level)
          PROVE  \E C \in SUBSET pending : Resolve(C, level) /\ handler' = handler
      BY <3>2 DEF ApproveUnverified, Approvable
    <3>3. ASSUME NEW boundary \in Process, Deny(c, boundary)
          PROVE  \E C \in SUBSET pending : Resolve(C, "Denied") /\ handler' = handler
      BY <3>3 DEF Deny, PendingWithin
    <3>4. CASE Dismiss(c)
      BY <3>4 DEF Dismiss
    <3> QED
      BY <1>2, <3>1, <3>2, <3>3, <3>4 DEF Responding
  <2>2. resolution # "empty"
    BY DEF Level
  <2> QED
    BY <2>1, <2>2 DEF Resolve
<1>3. ASSUME NEW c \in Connection, ThreadStep(c) PROVE NoLostResolution'
  <2>1. CASE Receive(c)
    BY <2>1 DEF Receive, Finish, Level
  <2>2. CASE Elapse(c)
    BY <2>2 DEF Elapse
  <2>3. CASE TimeoutLate(c)
    BY <2>3 DEF TimeoutLate, Finish
  <2>4. CASE TimeoutRequest(c)
    BY <2>4 DEF TimeoutRequest, PendingWithin
  <2> QED
    BY <1>3, <2>1, <2>2, <2>3, <2>4 DEF ThreadStep
<1>4. CASE Unlock
  BY <1>4 DEF Unlock
<1>5. CASE Lock
  BY <1>5 DEF Lock, Resolve
<1>6. CASE Quiet
  BY <1>6 DEF Quiet
<1> QED
  BY <1>1, <1>2, <1>3, <1>4, <1>5, <1>6, StepKinds

\* Whichever comes first, a grant or a denial or a request it covers, the
\* request is settled with it.
LEMMA CoverageStep ==
    ASSUME TypeOK, LockedHasNoGrants, NoLostResolution, NoCoveredPending, [Next]_vars
    PROVE  NoCoveredPending'
<1> USE DEF NoCoveredPending, Covers, ruleVars, queueVars, slotVars
<1>1. ASSUME NEW c \in Connection, Asking(c) PROVE NoCoveredPending'
  <2>1. PICK r \in Request :
           BeginDenied(c, r) \/ BeginUnknown(c, r) \/ BeginAllowed(c, r) \/ BeginQueued(c, r)
    BY <1>1 DEF Asking
  <2>2. /\ ~Open(c)
        /\ decisions' = Pruned /\ denials' = Live(denials)
        /\ request' = [request EXCEPT ![c] = r]
    BY <2>1 DEF BeginDenied, BeginUnknown, BeginAllowed, BeginQueued, Begin
  <2>3. /\ c \notin pending
        /\ request'[c] = r /\ \A d \in pending : request'[d] = request[d]
        /\ decisions' \subseteq decisions /\ denials' \subseteq denials
    BY <2>2 DEF TypeOK, NoLostResolution, Live, Pruned
  <2>4. CASE pending' = pending
    BY <2>3, <2>4
  <2>5. CASE BeginQueued(c, r)
    <3>1. r.verified => ~Covers(decisions', r) /\ ~Covers(denials', r)
      BY <2>2, <2>3, <2>5 DEF BeginQueued, IsDenied, IsAllowed, LockedHasNoGrants
    <3> QED
      BY <2>3, <2>5, <3>1 DEF BeginQueued
  <2> QED
    BY <2>1, <2>4, <2>5 DEF BeginDenied, BeginUnknown, BeginAllowed
<1>2. ASSUME NEW c \in Connection, Responding(c) PROVE NoCoveredPending'
  <2>1. ASSUME NEW level \in Level, NEW boundary \in Process, NEW seconds \in ValidSeconds,
               Approve(c, level, boundary, seconds)
        PROVE  NoCoveredPending'
    BY <2>1 DEF Approve, Resolve, PendingWithin
  <2>2. ASSUME NEW level \in Level, ApproveUnverified(c, level) PROVE NoCoveredPending'
    BY <2>2 DEF ApproveUnverified, Resolve
  <2>3. ASSUME NEW boundary \in Process, Deny(c, boundary) PROVE NoCoveredPending'
    BY <2>3 DEF Deny, Resolve, PendingWithin, WithDenial
  <2>4. CASE Dismiss(c)
    BY <2>4 DEF Dismiss, Resolve
  <2> QED
    BY <1>2, <2>1, <2>2, <2>3, <2>4 DEF Responding
<1>3. ASSUME NEW c \in Connection, ThreadStep(c) PROVE NoCoveredPending'
  <2>1. CASE TimeoutRequest(c)
    BY <2>1 DEF TimeoutRequest, PendingWithin, WithDenial
  <2>2. CASE Receive(c) \/ Elapse(c) \/ TimeoutLate(c)
    BY <2>2 DEF Receive, Elapse, TimeoutLate
  <2> QED
    BY <1>3, <2>1, <2>2 DEF ThreadStep
<1>4. CASE Unlock
  BY <1>4 DEF Unlock
<1>5. CASE Lock
  BY <1>5 DEF Lock, Resolve
<1>6. CASE Quiet
  BY <1>6 DEF Quiet
<1> QED
  BY <1>1, <1>2, <1>3, <1>4, <1>5, <1>6, StepKinds

\* A denial is made for a pending request, and a grant on the same scope
\* would cover that request.
LEMMA ContradictionStep ==
    ASSUME TypeOK, NoCoveredPending, NoContradiction, [Next]_vars
    PROVE  NoContradiction'
<1> USE DEF NoContradiction, SameScope, ruleVars
<1>1. ASSUME NEW c \in Connection, Asking(c) PROVE NoContradiction'
  BY <1>1 DEF Asking, BeginDenied, BeginUnknown, BeginAllowed, BeginQueued, Begin, Live, Pruned
<1>2. ASSUME NEW c \in pending, NEW process \in Members(request[c].tree), request[c].verified,
             decisions' = decisions, denials' = WithDenial(request[c].profile, process)
      PROVE  NoContradiction'
  <2>1. \A d \in decisions : ~SameScope(d, request[c].profile, process)
    BY <1>2 DEF NoCoveredPending, Covers
  <2> QED
    BY <1>2, <2>1 DEF WithDenial
<1>3. ASSUME NEW c \in Connection, Responding(c) PROVE NoContradiction'
  <2>1. ASSUME NEW level \in Level, NEW boundary \in Process, NEW seconds \in ValidSeconds,
               Approve(c, level, boundary, seconds)
        PROVE  NoContradiction'
    BY <2>1 DEF Approve
  <2>2. ASSUME NEW level \in Level, ApproveUnverified(c, level) PROVE NoContradiction'
    BY <2>2 DEF ApproveUnverified
  <2>3. ASSUME NEW boundary \in Process, Deny(c, boundary) PROVE NoContradiction'
    BY <1>2, <2>3 DEF Deny, Boundary
  <2>4. CASE Dismiss(c)
    BY <2>4 DEF Dismiss
  <2> QED
    BY <1>3, <2>1, <2>2, <2>3, <2>4 DEF Responding
<1>4. ASSUME NEW c \in Connection, ThreadStep(c) PROVE NoContradiction'
  <2>1. CASE TimeoutRequest(c)
    <3>1. Origin(request[c].tree) \in Members(request[c].tree)
      BY <2>1, TreeFacts DEF TimeoutRequest, TypeOK
    <3> QED
      BY <1>2, <2>1, <3>1 DEF TimeoutRequest
  <2>2. CASE Receive(c) \/ Elapse(c) \/ TimeoutLate(c)
    BY <2>2 DEF Receive, Elapse, TimeoutLate
  <2> QED
    BY <1>4, <2>1, <2>2 DEF ThreadStep
<1>5. CASE Unlock \/ Lock
  BY <1>5 DEF Unlock, Lock
<1>6. CASE Quiet
  BY <1>6 DEF Quiet
<1> QED
  BY <1>1, <1>3, <1>4, <1>5, <1>6, StepKinds

\* A decision that settles the pending requests C with one resolution, each
\* with one fitting entry, keeps answers and entries together.
LEMMA Settled ==
    ASSUME TypeOK, NoLostResolution, AnswersMatchActivity, ResolutionsMatchActivity,
           NEW C \in SUBSET pending, NEW resolution \in Level \cup {"Denied"},
           Resolve(C, resolution), handler' = handler,
           \A d \in Connection \ C : audit'[d] = audit[d],
           \A d \in C : \/ resolution = "Denied" /\ audit'[d] \subseteq {"Denied"}
                       \/ \E a \in Approval : audit'[d] = {a}
                            /\ resolution # "Denied"
    PROVE  AnswersMatchActivity' /\ ResolutionsMatchActivity'
<1>1. \A d \in C : Open(d) /\ d \in Connection
  BY DEF NoLostResolution, TypeOK
<1>2. /\ pending' = pending \ C
      /\ \A d \in Connection : channel'[d] = IF d \in C THEN resolution ELSE channel[d]
  BY DEF Resolve
<1>3. AnswersMatchActivity'
  <2> SUFFICES ASSUME NEW d \in Connection
               PROVE  /\ handler[d] \in Level   => \E a \in Approval : audit'[d] = {a}
                      /\ handler[d] = "refused" => audit'[d] \subseteq {"Denied"}
                      /\ handler[d] = "expired" => \A a, b \in audit'[d] : a = b
                      /\ handler[d] = "failed"  => audit'[d] = {}
                      /\ d \in pending'        => audit'[d] = {}
    BY DEF AnswersMatchActivity
  <2>1. CASE d \in C
    BY <1>1, <1>2, <2>1 DEF Open, Level
  <2>2. CASE d \notin C
    BY <1>2, <2>2 DEF AnswersMatchActivity
  <2> QED
    BY <2>1, <2>2
<1>4. ResolutionsMatchActivity'
  <2> SUFFICES ASSUME NEW d \in Connection
               PROVE  /\ channel'[d] \in Level  => \E a \in Approval : audit'[d] = {a}
                      /\ channel'[d] = "Denied" => audit'[d] \subseteq {"Denied"}
    BY DEF ResolutionsMatchActivity
  <2>1. CASE d \in C
    BY <1>2, <2>1 DEF Level
  <2>2. CASE d \notin C
    BY <1>2, <2>2 DEF ResolutionsMatchActivity
  <2> QED
    BY <2>1, <2>2
<1> QED
  BY <1>3, <1>4

\* What respond_aws settles, with what, and how it is recorded.
LEMMA RespondingSettles ==
    ASSUME TypeOK, AnswersMatchActivity, NEW c \in Connection, Responding(c)
    PROVE  \E C \in SUBSET pending, resolution \in Level \cup {"Denied"} :
              /\ Resolve(C, resolution)
              /\ handler' = handler
              /\ \A d \in Connection \ C : audit'[d] = audit[d]
              /\ \A d \in C : \/ resolution = "Denied" /\ audit'[d] = {"Denied"}
                             \/ /\ resolution # "Denied"
                                /\ \E a \in Approval : audit'[d] = {a}
<1> DEFINE Settles(C, resolution) ==
              /\ Resolve(C, resolution)
              /\ handler' = handler
              /\ \A d \in Connection \ C : audit'[d] = audit[d]
              /\ \A d \in C : \/ resolution = "Denied" /\ audit'[d] = {"Denied"}
                             \/ /\ resolution # "Denied"
                                /\ \E a \in Approval : audit'[d] = {a}
<1> DEFINE Within(boundary) == PendingWithin(request[c].profile, boundary) \ {c}
<1>1. \A d \in pending : d \in Connection /\ audit[d] = {}
  BY DEF TypeOK, AnswersMatchActivity
<1>2. ASSUME NEW level \in Level, NEW boundary \in Process, NEW seconds \in ValidSeconds,
             Approve(c, level, boundary, seconds)
      PROVE  \E C \in SUBSET pending : Settles(C, level)
  <2>1. c \in pending /\ Within(boundary) \subseteq pending
    BY <1>2 DEF Approve, Approvable, PendingWithin
  <2>2. /\ audit'[c] = {"GrantedTemporarily"}
        /\ \A d \in Within(boundary) : audit'[d] = {"AutoGranted"}
    BY <1>1, <1>2, <2>1 DEF Approve, Record
  <2>3. \A d \in Connection \ ({c} \cup Within(boundary)) : audit'[d] = audit[d]
    BY <1>2 DEF Approve, Record
  <2>4. Resolve({c} \cup Within(boundary), level) /\ handler' = handler /\ level # "Denied"
    BY <1>2 DEF Approve, Level
  <2> HIDE DEF Within
  <2>5. Settles({c} \cup Within(boundary), level)
    BY <2>2, <2>3, <2>4 DEF Approval
  <2>6. {c} \cup Within(boundary) \in SUBSET pending
    BY <2>1
  <2> QED
    BY <2>5, <2>6
<1>3. ASSUME NEW level \in Level, ApproveUnverified(c, level)
      PROVE  \E C \in SUBSET pending : Settles(C, level)
  <2>1. c \in pending
    BY <1>3 DEF ApproveUnverified, Approvable
  <2>2. audit'[c] = {"AllowedOnce"} /\ \A d \in Connection \ {c} : audit'[d] = audit[d]
    BY <1>1, <1>3, <2>1 DEF ApproveUnverified, Record
  <2>3. Settles({c}, level)
    BY <1>3, <2>2 DEF ApproveUnverified, Level, Approval
  <2> QED
    BY <2>1, <2>3
<1>4. ASSUME NEW boundary \in Process, Deny(c, boundary)
      PROVE  \E C \in SUBSET pending : Settles(C, "Denied")
  <2>1. c \in pending /\ Within(boundary) \subseteq pending
    BY <1>4 DEF Deny, PendingWithin
  <2>2. \A d \in {c} \cup Within(boundary) : audit'[d] = {"Denied"}
    BY <1>1, <1>4, <2>1 DEF Deny, Record
  <2>3. \A d \in Connection \ ({c} \cup Within(boundary)) : audit'[d] = audit[d]
    BY <1>4 DEF Deny, Record
  <2>4. Resolve({c} \cup Within(boundary), "Denied") /\ handler' = handler
    BY <1>4 DEF Deny
  <2> HIDE DEF Within
  <2>5. Settles({c} \cup Within(boundary), "Denied")
    BY <2>2, <2>3, <2>4
  <2>6. {c} \cup Within(boundary) \in SUBSET pending
    BY <2>1
  <2> QED
    BY <2>5, <2>6
<1>5. ASSUME Dismiss(c) PROVE \E C \in SUBSET pending : Settles(C, "Denied")
  <2>1. c \in pending
    BY <1>5 DEF Dismiss
  <2>2. audit'[c] = {"Denied"} /\ \A d \in Connection \ {c} : audit'[d] = audit[d]
    BY <1>1, <1>5, <2>1 DEF Dismiss, Record
  <2>3. Settles({c}, "Denied")
    BY <1>5, <2>2 DEF Dismiss
  <2> QED
    BY <2>1, <2>3
<1> HIDE DEF Settles
<1>6. \E C \in SUBSET pending, resolution \in Level \cup {"Denied"} : Settles(C, resolution)
  BY <1>2, <1>3, <1>4, <1>5 DEF Responding
<1> QED
  BY <1>6 DEF Settles

\* Every answer and every resolution in flight fits the activity entries.
LEMMA ActivityStep ==
    ASSUME TypeOK, NoLostResolution, AnswersMatchActivity, ResolutionsMatchActivity, [Next]_vars
    PROVE  AnswersMatchActivity' /\ ResolutionsMatchActivity'
<1> DEFINE Goal == AnswersMatchActivity' /\ ResolutionsMatchActivity'
<1>1. ASSUME NEW c \in Connection, Responding(c) PROVE Goal
  <2>1. PICK C \in SUBSET pending, resolution \in Level \cup {"Denied"} :
           /\ Resolve(C, resolution)
           /\ handler' = handler
           /\ \A d \in Connection \ C : audit'[d] = audit[d]
           /\ \A d \in C : \/ resolution = "Denied" /\ audit'[d] = {"Denied"}
                          \/ /\ resolution # "Denied"
                             /\ \E a \in Approval : audit'[d] = {a}
    BY <1>1, RespondingSettles
  <2> QED
    BY <2>1, Settled
<1> USE DEF AnswersMatchActivity, ResolutionsMatchActivity, NoLostResolution, TypeOK, Open,
            queueVars, slotVars
<1>2. ASSUME NEW c \in Connection, Asking(c) PROVE Goal
  <2>1. PICK r \in Request :
           BeginDenied(c, r) \/ BeginUnknown(c, r) \/ BeginAllowed(c, r) \/ BeginQueued(c, r)
    BY <1>2 DEF Asking
  <2>2. CASE BeginAllowed(c, r)
    <3>1. PICK d \in Pruned : Begin(c, r, d.level, {"AutoGranted"})
      BY <2>2 DEF BeginAllowed
    <3>2. d.level \in Level /\ "AutoGranted" \in Approval
      BY <3>1 DEF Pruned, Decision, Approval
    <3> QED
      BY <2>2, <3>1, <3>2 DEF BeginAllowed, Begin, Level
  <2>3. CASE BeginDenied(c, r) \/ BeginUnknown(c, r)
    BY <2>3 DEF BeginDenied, BeginUnknown, Begin, Level
  <2>4. CASE BeginQueued(c, r)
    BY <2>4 DEF BeginQueued, Begin, Level
  <2> QED
    BY <2>1, <2>2, <2>3, <2>4
<1>3. ASSUME NEW c \in Connection, ThreadStep(c) PROVE Goal
  <2>1. CASE Receive(c)
    BY <2>1 DEF Receive, Finish, Level
  <2>2. CASE Elapse(c)
    BY <2>2 DEF Elapse, Level
  <2>3. CASE TimeoutLate(c)
    BY <2>3 DEF TimeoutLate, Finish, Level
  <2>4. CASE TimeoutRequest(c)
    <3>1. PICK others \in SUBSET (pending \ {c}) :
             /\ pending' = pending \ ({c} \cup others)
             /\ channel' = [d \in Connection |-> IF d \in others THEN "Denied" ELSE channel[d]]
             /\ handler' = [handler EXCEPT ![c] = "expired"]
             /\ Record(c, "TimedOut", others, "Denied")
      BY <2>4 DEF TimeoutRequest, PendingWithin
    <3>2. /\ c \in pending /\ audit[c] = {} /\ channel[c] = "empty"
          /\ \A d \in others : audit[d] = {} /\ Open(d) /\ d \in Connection
      BY <2>4 DEF TimeoutRequest
    <3>3. /\ audit'[c] = {"TimedOut"}
          /\ \A d \in others : audit'[d] = {"Denied"}
          /\ \A d \in Connection \ ({c} \cup others) : audit'[d] = audit[d]
      BY <3>1, <3>2 DEF Record
    <3>4. AnswersMatchActivity'
      <4> SUFFICES ASSUME NEW d \in Connection
                   PROVE  /\ handler'[d] \in Level   => \E a \in Approval : audit'[d] = {a}
                          /\ handler'[d] = "refused" => audit'[d] \subseteq {"Denied"}
                          /\ handler'[d] = "expired" => \A a, b \in audit'[d] : a = b
                          /\ handler'[d] = "failed"  => audit'[d] = {}
                          /\ d \in pending'         => audit'[d] = {}
        OBVIOUS
      <4>1. CASE d = c
        BY <3>1, <3>3, <4>1 DEF Level
      <4>2. CASE d \in others
        BY <3>1, <3>2, <3>3, <4>2 DEF Level
      <4>3. CASE d \notin {c} \cup others
        BY <3>1, <3>3, <4>3
      <4> QED
        BY <4>1, <4>2, <4>3
    <3>5. ResolutionsMatchActivity'
      <4> SUFFICES ASSUME NEW d \in Connection
                   PROVE  /\ channel'[d] \in Level  => \E a \in Approval : audit'[d] = {a}
                          /\ channel'[d] = "Denied" => audit'[d] \subseteq {"Denied"}
        OBVIOUS
      <4>1. CASE d \in others
        BY <3>1, <3>3, <4>1 DEF Level
      <4>2. CASE d = c
        BY <3>1, <3>2, <4>2 DEF Level
      <4>3. CASE d \notin {c} \cup others
        BY <3>1, <3>3, <4>3
      <4> QED
        BY <4>1, <4>2, <4>3
    <3> QED
      BY <3>4, <3>5
  <2> QED
    BY <1>3, <2>1, <2>2, <2>3, <2>4 DEF ThreadStep
<1>4. CASE Unlock
  BY <1>4 DEF Unlock
<1>5. CASE Lock
  <2>1. Resolve(pending, "Denied") /\ handler' = handler /\ audit' = audit
    BY <1>5 DEF Lock
  <2>2. \A d \in pending : audit'[d] \subseteq {"Denied"}
    BY <2>1
  <2> QED
    BY <2>1, <2>2, Settled
<1>6. CASE Quiet
  BY <1>6 DEF Quiet
<1> QED
  BY <1>1, <1>2, <1>3, <1>4, <1>5, <1>6, StepKinds

-----------------------------------------------------------------------------
\* The inductive invariant.  Scopes stay free of contradictions because
\* requests stay uncovered; requests stay uncovered because a locked vault
\* has no grants, so that one made while nobody looks at grants has none to
\* overlook.
THEOREM ConsistentAlways == Spec => []Consistent
<1> USE DEF Consistent
<1>1. Init => Consistent
  <2> USE DEF Init
  <2>1. Init => TypeOK
    <3>1. Init => /\ now \in Nat
                  /\ configured \subseteq Profile /\ disk \subseteq Profile
                  /\ alive \subseteq Process
                  /\ decisions \subseteq Decision /\ denials \subseteq Denial
      OBVIOUS
    <3>2. Init => unlocked \in BOOLEAN
      BY Zenon
    <3>3. Init => /\ pending \subseteq Connection
                  /\ request \in [Connection -> Request \cup {NoRequest}]
                  /\ \A c \in pending : request[c] \in Request
      OBVIOUS
    <3>4. Init => channel \in [Connection -> Level \cup {"Denied", "empty"}]
      OBVIOUS
    <3>5. Init => handler \in [Connection -> Handler]
      BY DEF Handler
    <3>6. Init => audit \in [Connection -> SUBSET AuditAction]
      <4>1. {} \in SUBSET AuditAction
        OBVIOUS
      <4> QED
        BY <4>1
    <3> QED
      BY <3>1, <3>2, <3>3, <3>4, <3>5, <3>6 DEF TypeOK
  <2>2. Init => LockedHasNoGrants /\ NoLostResolution
    BY DEF LockedHasNoGrants, NoLostResolution, Open
  <2>3. Init => NoCoveredPending /\ NoContradiction
    BY DEF NoCoveredPending, NoContradiction
  <2>4. Init => AnswersMatchActivity /\ ResolutionsMatchActivity
    BY DEF AnswersMatchActivity, ResolutionsMatchActivity, Level
  <2> QED
    BY <2>1, <2>2, <2>3, <2>4
<1>2. Consistent /\ [Next]_vars => Consistent'
  BY TypeStep, LockStep, ResolutionStep, CoverageStep, ContradictionStep, ActivityStep
<1> QED
  BY <1>1, <1>2, PTL DEF Spec

\* Values stay within their types, whatever the interleaving.
THEOREM TypeCorrect == Spec => []TypeOK
<1>1. Consistent => TypeOK
  BY DEF Consistent
<1> QED
  BY <1>1, ConsistentAlways, PTL

\* Nothing is decided automatically from before the vault was locked.
THEOREM LockedNeverHasGrants == Spec => []LockedHasNoGrants
<1>1. Consistent => LockedHasNoGrants
  BY DEF Consistent
<1> QED
  BY <1>1, ConsistentAlways, PTL

\* The user is never asked about what a grant or a denial already settles.
THEOREM NeverCoveredPending == Spec => []NoCoveredPending
<1>1. Consistent => NoCoveredPending
  BY DEF Consistent
<1> QED
  BY <1>1, ConsistentAlways, PTL

\* No process is granted and denied a profile at the same time.
THEOREM NeverContradiction == Spec => []NoContradiction
<1>1. Consistent => NoContradiction
  BY DEF Consistent
<1> QED
  BY <1>1, ConsistentAlways, PTL

\* No client thread is left asleep with nobody to wake it.
THEOREM ResolutionsNeverLost == Spec => []NoLostResolution
<1>1. Consistent => NoLostResolution
  BY DEF Consistent
<1> QED
  BY <1>1, ConsistentAlways, PTL

\* The activity list never contradicts what a client was told.
THEOREM AnswersAlwaysMatchActivity == Spec => []AnswersMatchActivity
<1>1. Consistent => AnswersMatchActivity
  BY DEF Consistent
<1> QED
  BY <1>1, ConsistentAlways, PTL

\* A request is granted only what a live grant around it says, and never next
\* to a denial that covers it.
THEOREM GrantsAlwaysInForce == Spec => GrantsAreInForce
<1>1. ASSUME Consistent, [Next]_vars PROVE [GrantIsInForce]_vars
  <2> DEFINE InForce(d) ==
         /\ request'[d].verified
         /\ \E e \in Live(decisions)' :
               /\ e.profile = request'[d].profile
               /\ e.process \in Members(request'[d].tree)
               /\ e.level = GrantedLevel(d)'
         /\ ~Covers(denials', request'[d])
  <2> SUFFICES ASSUME NEW d \in Connection, audit'[d] # audit[d],
                      audit'[d] \cap {"AutoGranted", "GrantedTemporarily"} # {}
               PROVE  InForce(d)
    BY DEF GrantIsInForce
  <2>0. TypeOK /\ NoLostResolution /\ NoCoveredPending /\ AnswersMatchActivity
    BY <1>1 DEF Consistent
  <2>1. ASSUME NEW c \in Connection, Asking(c) PROVE InForce(d)
    <3>1. PICK r \in Request :
            BeginDenied(c, r) \/ BeginUnknown(c, r) \/ BeginAllowed(c, r) \/ BeginQueued(c, r)
      BY <2>1 DEF Asking
    <3>2. BeginAllowed(c, r) /\ c = d
      BY <2>0, <3>1 DEF BeginDenied, BeginUnknown, BeginAllowed, BeginQueued, Begin, TypeOK
    <3>3. PICK e \in Pruned : Nearest(e, r) /\ Begin(c, r, e.level, {"AutoGranted"})
      BY <3>2 DEF BeginAllowed
    <3>4. /\ request'[d] = r /\ handler'[d] = e.level /\ now' = now
          /\ decisions' = Pruned /\ denials' = Live(denials)
      BY <2>0, <3>2, <3>3 DEF Begin, TypeOK
    <3>5. e.level \in Level /\ e.expires > now
      BY <2>0, <3>3 DEF Pruned, Prunable, TypeOK, Decision
    <3>6. r.verified /\ ~Covers(denials', r)
      BY <3>2, <3>4 DEF BeginAllowed, IsDenied
    <3>7. e \in Live(decisions)' /\ e.level = GrantedLevel(d)'
      BY <3>3, <3>4, <3>5 DEF Live, GrantedLevel
    <3>8. e.profile = r.profile /\ e.process \in Members(r.tree)
      BY <3>3 DEF Nearest, Members
    <3> QED
      BY <3>4, <3>6, <3>7, <3>8
  <2>2. ASSUME NEW c \in Connection, Responding(c) PROVE InForce(d)
    <3>1. \A e \in pending : e \in Connection /\ audit[e] = {}
      BY <2>0 DEF TypeOK, AnswersMatchActivity
    <3>2. PICK level \in Level, boundary \in Process, seconds \in ValidSeconds :
             Approve(c, level, boundary, seconds)
      BY <2>2, <3>1 DEF Responding, ApproveUnverified, Approvable, Deny, Dismiss, Record,
                        PendingWithin
    <3> DEFINE profile == request[c].profile
               settled == {c} \cup (PendingWithin(profile, boundary) \ {c})
               added == [profile |-> profile, process |-> boundary, level |-> level,
                         expires |-> now + seconds]
    <3>3. /\ d \in settled /\ request' = request /\ handler' = handler /\ now' = now
          /\ channel' = [e \in Connection |-> IF e \in settled THEN level ELSE channel[e]]
          /\ added \in decisions'
          /\ denials' = {n \in denials : ~SameScope(n, profile, boundary)}
      BY <3>2 DEF Approve, Record, Resolve
    <3>4. /\ d \in pending /\ request[d].verified
          /\ request[d].profile = profile /\ boundary \in Members(request[d].tree)
      BY <3>2, <3>3 DEF Approve, Approvable, PendingWithin, Boundary
    <3>5. Open(d)
      BY <2>0, <3>4 DEF NoLostResolution
    <3>6. GrantedLevel(d)' = level
      BY <3>3, <3>5 DEF GrantedLevel, Open, Level
    <3>7. added \in Live(decisions)'
      BY <2>0, <3>3, DurationAssumption DEF Live, ValidSeconds, TypeOK
    <3>8. ~Covers(denials', request'[d])
      BY <2>0, <3>3, <3>4 DEF NoCoveredPending, Covers
    <3> QED
      BY <3>3, <3>4, <3>6, <3>7, <3>8
  <2>3. ASSUME NEW c \in Connection, ThreadStep(c) PROVE FALSE
    <3>1. TimeoutRequest(c)
      BY <2>3 DEF ThreadStep, Receive, Elapse, TimeoutLate
    <3>2. \A e \in pending : audit[e] = {}
      BY <2>0 DEF TypeOK, AnswersMatchActivity
    <3>3. PICK others \in SUBSET pending : Record(c, "TimedOut", others, "Denied")
      BY <3>1 DEF TimeoutRequest, PendingWithin
    <3>4. audit[d] = {} /\ audit'[d] \in {{"TimedOut"}, {"Denied"}}
      BY <3>1, <3>2, <3>3 DEF Record, TimeoutRequest
    <3> QED
      BY <3>4
  <2>4. ASSUME Unlock \/ Lock \/ Quiet PROVE FALSE
    BY <2>4 DEF Unlock, Lock, Quiet, slotVars
  <2> QED
    BY <1>1, <2>0, <2>1, <2>2, <2>3, <2>4, StepKinds
<1> QED
  BY <1>1, ConsistentAlways, PTL DEF Spec, GrantsAreInForce

\* While the clock only moves on, no grant lasts longer than the maximum from
\* now, however it came about, and no denial longer than the default.
THEOREM RuleLifeAlwaysBounded == Spec => []RuleLifeIsBounded
<1> USE DurationAssumption DEF RuleLifeIsBounded, ruleVars
<1>1. Init => RuleLifeIsBounded
  BY DEF Init
<1>2. ASSUME TypeOK, RuleLifeIsBounded, [Next]_vars PROVE RuleLifeIsBounded'
  <2>0. now \in Nat /\ (\A d \in decisions : d.expires \in Nat) /\ (\A n \in denials : n.expires \in Nat)
    BY <1>2 DEF TypeOK, Decision, Denial
  <2>1. ASSUME /\ now' = now
               /\ \A d \in decisions' : \/ \E e \in decisions : d.expires = e.expires
                                        \/ d.expires <= now + MaxGrant
               /\ \A n \in denials' : n \in denials \/ n.expires <= now + DefaultGrant
        PROVE  RuleLifeIsBounded'
    BY <1>2, <2>1
  <2>2. ASSUME NEW c \in Connection, Asking(c) PROVE RuleLifeIsBounded'
    BY <2>1, <2>2 DEF Asking, BeginDenied, BeginUnknown, BeginAllowed, BeginQueued, Begin,
                      Live, Pruned
  <2>3. ASSUME NEW profile \in Profile, NEW process \in Process
        PROVE  \A n \in WithDenial(profile, process) : n \in denials \/ n.expires <= now + DefaultGrant
    BY <1>2, <2>0, DenialAdded DEF TypeOK
  <2>4. ASSUME NEW c \in Connection, Responding(c) PROVE RuleLifeIsBounded'
    <3>1. ASSUME NEW level \in Level, NEW boundary \in Process, NEW seconds \in ValidSeconds,
                 Approve(c, level, boundary, seconds)
          PROVE  RuleLifeIsBounded'
      <4>1. now + seconds <= now + MaxGrant
        BY <2>0 DEF ValidSeconds
      <4> QED
        BY <2>1, <3>1, <4>1 DEF Approve
    <3>2. ASSUME NEW level \in Level, ApproveUnverified(c, level) PROVE RuleLifeIsBounded'
      BY <2>1, <3>2 DEF ApproveUnverified
    <3>3. ASSUME NEW boundary \in Process, Deny(c, boundary) PROVE RuleLifeIsBounded'
      <4>1. request[c].profile \in Profile
        BY <1>2, <3>3, TreeFacts DEF Deny, TypeOK
      <4> QED
        BY <2>1, <2>3, <3>3, <4>1 DEF Deny
    <3>4. CASE Dismiss(c)
      BY <2>1, <3>4 DEF Dismiss
    <3> QED
      BY <2>4, <3>1, <3>2, <3>3, <3>4 DEF Responding
  <2>5. ASSUME NEW c \in Connection, ThreadStep(c) PROVE RuleLifeIsBounded'
    <3>1. CASE TimeoutRequest(c)
      <4>1. request[c].profile \in Profile /\ Origin(request[c].tree) \in Process
        BY <1>2, <3>1, TreeFacts DEF TimeoutRequest, TypeOK
      <4> QED
        BY <2>1, <2>3, <3>1, <4>1 DEF TimeoutRequest
    <3>2. CASE Receive(c) \/ Elapse(c) \/ TimeoutLate(c)
      BY <2>1, <3>2 DEF Receive, Elapse, TimeoutLate
    <3> QED
      BY <2>5, <3>1, <3>2 DEF ThreadStep
  <2>6. ASSUME Managing PROVE RuleLifeIsBounded'
    <3>1. ASSUME NEW d \in decisions, ExtendDecision(d) PROVE RuleLifeIsBounded'
      <4>1. ExtendedExpiry(d.expires) <= now + MaxGrant
        BY <2>0 DEF ExtendedExpiry
      <4>2. d \in Decision
        BY <1>2 DEF TypeOK
      <4> QED
        BY <2>1, <3>1, <4>1, <4>2 DEF ExtendDecision, Decision
    <3>2. ASSUME NEW d \in decisions, NEW level \in Level, SetLevel(d, level) PROVE RuleLifeIsBounded'
      <4>1. d \in Decision
        BY <1>2 DEF TypeOK
      <4> QED
        BY <2>1, <3>2, <4>1 DEF SetLevel, Pruned, Decision
    <3>3. CASE Unlock \/ Lock \/ Snapshot \/ Prune
      BY <2>1, <3>3 DEF Unlock, Lock, Snapshot, Prune, Live, Pruned
    <3>4. ASSUME NEW targets \in SUBSET Profile, SaveConfiguration(targets) \/ DropTargets(targets)
          PROVE  RuleLifeIsBounded'
      BY <2>1, <3>4 DEF SaveConfiguration, DropTargets
    <3>5. ASSUME NEW d \in decisions, RevokeDecision(d) PROVE RuleLifeIsBounded'
      BY <2>1, <3>5 DEF RevokeDecision
    <3>6. ASSUME NEW n \in denials, Unblock(n) PROVE RuleLifeIsBounded'
      BY <2>1, <3>6 DEF Unblock
    <3> QED
      BY <2>6, <3>1, <3>2, <3>3, <3>4, <3>5, <3>6 DEF Managing
  <2>7. CASE Clock
    BY <1>2, <2>0, <2>7 DEF Clock, TimePasses
  <2>8. ASSUME NEW process \in Process, Exit(process) PROVE RuleLifeIsBounded'
    BY <2>1, <2>8 DEF Exit
  <2>9. CASE UNCHANGED vars
    BY <2>1, <2>9 DEF vars
  <2> QED
    BY <1>2, <2>2, <2>4, <2>5, <2>6, <2>7, <2>8, <2>9 DEF Next
<1> QED
  BY <1>1, <1>2, TypeCorrect, PTL DEF Spec

-----------------------------------------------------------------------------
\* A grant or a denial is made for a verified pending request, and one that was
\* stored for the same scope would have settled that request before.
LEMMA OneRuleStep ==
    ASSUME TypeOK, NoCoveredPending, OneRulePerScope, [Next]_vars
    PROVE  OneRulePerScope'
<1> USE DEF OneRulePerScope, SameScope, ruleVars
<1>1. ASSUME decisions' \subseteq decisions, denials' \subseteq denials PROVE OneRulePerScope'
  BY <1>1
<1>2. ASSUME NEW d \in decisions, NEW e \in Decision, SameScope(e, d.profile, d.process),
             decisions' \subseteq (decisions \ {d}) \cup {e}, denials' = denials
      PROVE  OneRulePerScope'
  BY <1>2
<1>3. ASSUME NEW c \in Connection, Asking(c) PROVE OneRulePerScope'
  BY <1>1, <1>3 DEF Asking, BeginDenied, BeginUnknown, BeginAllowed, BeginQueued, Begin,
                    Live, Pruned
<1>4. ASSUME NEW profile, NEW process, decisions' = decisions,
             denials' = WithDenial(profile, process)
      PROVE  OneRulePerScope'
  BY <1>4 DEF WithDenial
<1>5. ASSUME NEW c \in Connection, Responding(c) PROVE OneRulePerScope'
  <2>1. ASSUME NEW level \in Level, NEW boundary \in Process, NEW seconds \in ValidSeconds,
               Approve(c, level, boundary, seconds)
        PROVE  OneRulePerScope'
    BY <2>1 DEF Approve
  <2>2. ASSUME NEW level \in Level, ApproveUnverified(c, level) PROVE OneRulePerScope'
    BY <1>1, <2>2 DEF ApproveUnverified
  <2>3. ASSUME NEW boundary \in Process, Deny(c, boundary) PROVE OneRulePerScope'
    BY <1>4, <2>3 DEF Deny
  <2>4. CASE Dismiss(c)
    BY <1>1, <2>4 DEF Dismiss
  <2> QED
    BY <1>5, <2>1, <2>2, <2>3, <2>4 DEF Responding
<1>6. ASSUME NEW c \in Connection, ThreadStep(c) PROVE OneRulePerScope'
  <2>1. CASE TimeoutRequest(c)
    BY <1>1, <1>4, <2>1 DEF TimeoutRequest
  <2>2. CASE Receive(c) \/ Elapse(c) \/ TimeoutLate(c)
    BY <1>1, <2>2 DEF Receive, Elapse, TimeoutLate
  <2> QED
    BY <1>6, <2>1, <2>2 DEF ThreadStep
<1>7. ASSUME Managing PROVE OneRulePerScope'
  <2>1. CASE Unlock \/ Lock \/ Snapshot \/ Prune
    BY <1>1, <2>1 DEF Unlock, Lock, Snapshot, Prune, Live, Pruned
  <2>2. ASSUME NEW targets \in SUBSET Profile, SaveConfiguration(targets) \/ DropTargets(targets)
        PROVE  OneRulePerScope'
    BY <1>1, <2>2 DEF SaveConfiguration, DropTargets
  <2>3. ASSUME NEW d \in decisions, NEW level \in Level, SetLevel(d, level)
        PROVE  OneRulePerScope'
    <3>1. [d EXCEPT !.level = level] \in Decision /\ SameScope([d EXCEPT !.level = level], d.profile, d.process)
      BY DEF TypeOK, Decision
    <3> QED
      BY <1>2, <2>3, <3>1 DEF SetLevel, Pruned
  <2>4. ASSUME NEW d \in decisions, ExtendDecision(d) PROVE OneRulePerScope'
    <3>1. d \in Decision /\ ExtendedExpiry(d.expires) \in Nat
      BY ExtendedExpiryIsNat DEF TypeOK, Decision
    <3>2. /\ [d EXCEPT !.expires = ExtendedExpiry(@)] \in Decision
          /\ SameScope([d EXCEPT !.expires = ExtendedExpiry(@)], d.profile, d.process)
      BY <3>1 DEF Decision
    <3> QED
      BY <1>2, <2>4, <3>2 DEF ExtendDecision
  <2>5. ASSUME NEW d \in decisions, RevokeDecision(d) PROVE OneRulePerScope'
    BY <1>1, <2>5 DEF RevokeDecision
  <2>6. ASSUME NEW n \in denials, Unblock(n) PROVE OneRulePerScope'
    BY <1>1, <2>6 DEF Unblock
  <2> QED
    BY <1>7, <2>1, <2>2, <2>3, <2>4, <2>5, <2>6 DEF Managing
<1>8. CASE Clock
  BY <1>1, <1>8 DEF Clock
<1>9. ASSUME NEW process \in Process, Exit(process) PROVE OneRulePerScope'
  BY <1>1, <1>9 DEF Exit
<1>10. CASE UNCHANGED vars
  BY <1>1, <1>10 DEF vars
<1> QED
  BY <1>3, <1>5, <1>6, <1>7, <1>8, <1>9, <1>10 DEF Next

\* One profile and process never have two grants, or two denials.
THEOREM AlwaysOneRulePerScope == Spec => []OneRulePerScope
<1>1. Init => OneRulePerScope
  BY DEF Init, OneRulePerScope
<1>2. Consistent /\ OneRulePerScope /\ [Next]_vars => OneRulePerScope'
  BY OneRuleStep DEF Consistent
<1> QED
  BY <1>1, <1>2, ConsistentAlways, PTL DEF Spec

\* Revoking an entry of the window ends access of its process to its profile,
\* and unblocking one lets the process ask again.
THEOREM RevocationEndsScope == Spec => RevokeEndsScope
<1>1. ASSUME OneRulePerScope
      PROVE  /\ \A d \in decisions : RevokeDecision(d) =>
                   \A e \in decisions' : ~SameScope(e, d.profile, d.process)
             /\ \A n \in denials : Unblock(n) =>
                   \A m \in denials' : ~SameScope(m, n.profile, n.process)
  BY <1>1 DEF OneRulePerScope, RevokeDecision, Unblock
<1> QED
  BY <1>1, AlwaysOneRulePerScope, PTL DEF RevokeEndsScope

-----------------------------------------------------------------------------
\* Whatever adds a scope to the grants or to the denials is the answer to a
\* pending request, which has no activity entry before.
LEMMA AnswerStep ==
    ASSUME TypeOK, AnswersMatchActivity, [Next]_vars
    PROVE  RuleIsAnswer
<1> DEFINE Kept(d) == \E e \in decisions : SameScope(e, d.profile, d.process)
           Unchanged(n) == \E m \in denials : SameScope(m, n.profile, n.process)
<1> USE DEF SameScope, ruleVars
<1>1. ASSUME \A d \in decisions' : Kept(d), \A n \in denials' : Unchanged(n)
      PROVE  RuleIsAnswer
  BY <1>1 DEF RuleIsAnswer
<1>2. ASSUME decisions' \subseteq decisions, denials' \subseteq denials PROVE RuleIsAnswer
  BY <1>1, <1>2
<1>3. \A c \in pending : c \in Connection /\ audit[c] = {}
  BY DEF TypeOK, AnswersMatchActivity
<1>4. ASSUME NEW c \in Connection, Asking(c) PROVE RuleIsAnswer
  BY <1>2, <1>4 DEF Asking, BeginDenied, BeginUnknown, BeginAllowed, BeginQueued, Begin,
                    Live, Pruned
<1>5. ASSUME NEW c \in Connection, Responding(c) PROVE RuleIsAnswer
  <2>1. ASSUME NEW level \in Level, NEW boundary \in Process, NEW seconds \in ValidSeconds,
               Approve(c, level, boundary, seconds)
        PROVE  RuleIsAnswer
    <3>1. /\ c \in pending /\ request[c].verified
          /\ boundary \in Members(request[c].tree) /\ boundary # Launchd
      BY <2>1 DEF Approve, Approvable, Boundary
    <3>2. audit'[c] = {"GrantedTemporarily"}
      BY <1>3, <2>1, <3>1 DEF Approve, Record
    <3>3. ASSUME NEW d \in decisions'
          PROVE  Kept(d) \/ (d.profile = request[c].profile /\ d.process = boundary)
      BY <2>1, <3>3 DEF Approve
    <3>4. \A n \in denials' : Unchanged(n)
      BY <2>1 DEF Approve
    <3> QED
      BY <3>1, <3>2, <3>3, <3>4 DEF RuleIsAnswer, AsksFor
  <2>2. ASSUME NEW level \in Level, ApproveUnverified(c, level) PROVE RuleIsAnswer
    BY <1>2, <2>2 DEF ApproveUnverified
  <2>3. ASSUME NEW boundary \in Process, Deny(c, boundary) PROVE RuleIsAnswer
    <3>1. /\ c \in pending /\ request[c].verified
          /\ boundary \in Members(request[c].tree) /\ boundary # Launchd
      BY <2>3 DEF Deny, Boundary
    <3>2. audit'[c] = {"Denied"}
      BY <1>3, <2>3, <3>1 DEF Deny, Record
    <3>3. \A n \in denials' :
             Unchanged(n) \/ (n.profile = request[c].profile /\ n.process = boundary)
      BY <2>3 DEF Deny, WithDenial
    <3>4. \A d \in decisions' : Kept(d)
      BY <2>3 DEF Deny
    <3> QED
      BY <3>1, <3>2, <3>3, <3>4 DEF RuleIsAnswer, AsksFor
  <2>4. CASE Dismiss(c)
    BY <1>2, <2>4 DEF Dismiss
  <2> QED
    BY <1>5, <2>1, <2>2, <2>3, <2>4 DEF Responding
<1>6. ASSUME NEW c \in Connection, ThreadStep(c) PROVE RuleIsAnswer
  <2>1. CASE TimeoutRequest(c) /\ request[c].verified
    <3>1. c \in pending /\ Origin(request[c].tree) \in Members(request[c].tree)
      BY <2>1, TreeFacts DEF TimeoutRequest, TypeOK
    <3>2. audit'[c] = {"TimedOut"}
      BY <1>3, <2>1, <3>1 DEF TimeoutRequest, Record
    <3>3. \A n \in denials' :
             \/ Unchanged(n)
             \/ n.profile = request[c].profile /\ n.process = Origin(request[c].tree)
      BY <2>1 DEF TimeoutRequest, WithDenial
    <3>4. \A d \in decisions' : Kept(d)
      BY <2>1 DEF TimeoutRequest
    <3> QED
      BY <2>1, <3>1, <3>2, <3>3, <3>4 DEF RuleIsAnswer, AsksFor
  <2>2. CASE TimeoutRequest(c) /\ ~request[c].verified
    BY <1>2, <2>2 DEF TimeoutRequest
  <2>3. CASE Receive(c) \/ Elapse(c) \/ TimeoutLate(c)
    BY <1>2, <2>3 DEF Receive, Elapse, TimeoutLate
  <2> QED
    BY <1>6, <2>1, <2>2, <2>3 DEF ThreadStep
<1>7. CASE Unlock \/ Lock
  BY <1>2, <1>7 DEF Unlock, Lock
<1>8. CASE Quiet
  BY <1>1, <1>8 DEF Quiet
<1> QED
  BY <1>4, <1>5, <1>6, <1>7, <1>8, StepKinds

\* Every grant and every block goes back to an answer the user gave, or failed
\* to give in time, about that profile and a process of that requester's tree.
THEOREM RulesAlwaysAnswers == Spec => RulesAreAnswers
<1>1. Consistent /\ [Next]_vars => [RuleIsAnswer]_vars
  BY AnswerStep DEF Consistent
<1> QED
  BY <1>1, ConsistentAlways, PTL DEF Spec, RulesAreAnswers

\* launchd's only way into the rules is the timeout of a request that has it as
\* its first process: it is never granted, and never denied by the user.
THEOREM LaunchdAlwaysOrphan == Spec => []LaunchdOnlyForOrphans
<1>1. Init => LaunchdOnlyForOrphans
  BY DEF Init, LaunchdOnlyForOrphans
<1>2. ASSUME TypeOK, RuleIsAnswer, LaunchdOnlyForOrphans PROVE LaunchdOnlyForOrphans'
  <2>1. \A d \in decisions' : d.process # Launchd
    BY <1>2 DEF RuleIsAnswer, LaunchdOnlyForOrphans, SameScope
  <2>2. ASSUME NEW n \in denials', n.process = Launchd PROVE \E t \in Tree : Origin(t) = Launchd
    <3>1. CASE \E m \in denials : SameScope(m, n.profile, n.process)
      BY <1>2, <2>2, <3>1 DEF LaunchdOnlyForOrphans, SameScope
    <3>2. CASE \E c \in pending : n.process = Origin(request[c].tree)
      BY <1>2, <2>2, <3>2 DEF TypeOK, Request
    <3> QED
      BY <1>2, <2>2, <3>1, <3>2 DEF RuleIsAnswer
  <2> QED
    BY <2>1, <2>2 DEF LaunchdOnlyForOrphans
<1>3. ASSUME Consistent, [Next]_vars, LaunchdOnlyForOrphans PROVE LaunchdOnlyForOrphans'
  BY <1>2, <1>3, AnswerStep DEF Consistent
<1> QED
  BY <1>1, <1>3, ConsistentAlways, PTL DEF Spec

\* What validated_grant_process says of launchd is true of every boundary, as
\* long as no client asks whose own parent is gone.
THEOREM LaunchdNoBoundaryWithoutOrphans ==
    ASSUME \A t \in Tree : Origin(t) # Launchd
    PROVE  Spec => []LaunchdIsNoBoundary
<1>1. LaunchdOnlyForOrphans => LaunchdIsNoBoundary
  BY DEF LaunchdOnlyForOrphans, LaunchdIsNoBoundary
<1> QED
  BY <1>1, LaunchdAlwaysOrphan, PTL

\* No answer takes anything out of the rules: what it would replace would have
\* settled its request before.
THEOREM AnswersNeverReplace == Spec => AnswersOnlyAdd
<1>1. ASSUME TypeOK, NoCoveredPending, NEW c \in Connection, Responding(c) \/ ThreadStep(c)
      PROVE  decisions \subseteq decisions' /\ denials \subseteq denials'
  <2> USE DEF ruleVars
  <2>1. ASSUME NEW process \in Members(request[c].tree), c \in pending, request[c].verified
        PROVE  /\ {d \in decisions : ~SameScope(d, request[c].profile, process)} = decisions
               /\ {n \in denials : ~SameScope(n, request[c].profile, process)} = denials
    BY <1>1, <2>1 DEF NoCoveredPending, Covers, SameScope
  <2>2. ASSUME NEW level \in Level, NEW boundary \in Process, NEW seconds \in ValidSeconds,
               Approve(c, level, boundary, seconds)
        PROVE  decisions \subseteq decisions' /\ denials \subseteq denials'
    BY <2>1, <2>2 DEF Approve, Approvable, Boundary
  <2>3. ASSUME NEW boundary \in Process, Deny(c, boundary)
        PROVE  decisions \subseteq decisions' /\ denials \subseteq denials'
    BY <2>1, <2>3 DEF Deny, Boundary, WithDenial
  <2>4. ASSUME NEW level \in Level, ApproveUnverified(c, level)
        PROVE  decisions \subseteq decisions' /\ denials \subseteq denials'
    BY <2>4 DEF ApproveUnverified
  <2>5. CASE TimeoutRequest(c)
    <3>1. c \in pending /\ Origin(request[c].tree) \in Members(request[c].tree)
      BY <1>1, <2>5, TreeFacts DEF TimeoutRequest, TypeOK
    <3>2. decisions' = decisions /\ denials \subseteq denials'
      BY <2>1, <2>5, <3>1 DEF TimeoutRequest, WithDenial
    <3> QED
      BY <3>2
  <2>6. CASE Dismiss(c) \/ Receive(c) \/ Elapse(c) \/ TimeoutLate(c)
    BY <2>6 DEF Dismiss, Receive, Elapse, TimeoutLate
  <2> QED
    BY <1>1, <2>2, <2>3, <2>4, <2>5, <2>6 DEF Responding, ThreadStep
<1>2. TypeOK /\ NoCoveredPending =>
        ((\E c \in Connection : Responding(c) \/ ThreadStep(c))
            => decisions \subseteq decisions' /\ denials \subseteq denials')
  BY <1>1
<1> QED
  BY <1>2, TypeCorrect, NeverCoveredPending, PTL DEF AnswersOnlyAdd

-----------------------------------------------------------------------------
\* A set of tree positions has a first one.
LEMMA FirstPosition ==
    ASSUME NEW S \in SUBSET Nat, S # {}
    PROVE  \E i \in S : \A j \in S : i <= j
<1>1. PICK i \in S : \A j \in S : <<j, i>> \notin OpToRel(<, Nat)
  BY NatLessThanWellFounded, WFMin
<1>2. \A j \in S : ~(j < i)
  BY <1>1 DEF OpToRel
<1> QED
  BY <1>2

\* The search of a request's tree finds exactly one grant when there is any.
THEOREM AlwaysOneNearestGrant == Spec => []OneNearestGrant
<1>1. ASSUME TypeOK, OneRulePerScope, NEW r \in Request, Covers(Pruned, r)
      PROVE  \E d \in Pruned : Nearest(d, r) /\ \A e \in Pruned : Nearest(e, r) => e = d
  <2> DEFINE Positions == {i \in 1..Len(r.tree) : \E d \in Pruned : SameScope(d, r.profile, r.tree[i])}
  <2>1. Len(r.tree) \in Nat
    BY TreeFacts
  <2>2. Positions # {}
    BY <1>1 DEF Covers, Members, SameScope
  <2>3. PICK i \in Positions : \A j \in Positions : i <= j
    <3>1. Positions \in SUBSET Nat
      BY <2>1
    <3> QED
      BY <2>2, <3>1, FirstPosition
  <2>4. PICK d \in Pruned : SameScope(d, r.profile, r.tree[i])
    BY <2>3
  <2>5. \A j \in 1..(i - 1), e \in Pruned : ~(e.profile = r.profile /\ e.process = r.tree[j])
    BY <2>1, <2>3 DEF SameScope
  <2>6. Nearest(d, r)
    BY <2>3, <2>4, <2>5 DEF Nearest, SameScope
  <2>7. ASSUME NEW e \in Pruned, Nearest(e, r) PROVE e = d
    <3>1. PICK k \in 1..Len(r.tree) :
             /\ e.profile = r.profile /\ e.process = r.tree[k]
             /\ \A j \in 1..(k - 1), f \in Pruned :
                   ~(f.profile = r.profile /\ f.process = r.tree[j])
      BY <2>7 DEF Nearest
    <3>2. ~(i < k) /\ ~(k < i)
      BY <2>1, <2>3, <2>4, <2>5, <3>1 DEF SameScope
    <3>3. SameScope(e, d.profile, d.process)
      BY <2>1, <2>3, <2>4, <3>1, <3>2 DEF SameScope
    <3> QED
      BY <1>1, <3>3 DEF OneRulePerScope, Pruned
  <2> QED
    BY <2>6, <2>7
<1>2. TypeOK /\ OneRulePerScope => OneNearestGrant
  BY <1>1 DEF OneNearestGrant
<1> QED
  BY <1>2, TypeCorrect, AlwaysOneRulePerScope, PTL

\* Extending a grant moves its expiry on, unless the clock was set back.
THEOREM ExtensionsNeverShorten == Spec => ExtensionNeverShortens
<1>1. ASSUME TypeOK, RuleLifeIsBounded, ~ClockMayStepBack, NEW d \in decisions, ExtendDecision(d)
      PROVE  \E e \in decisions' : SameScope(e, d.profile, d.process) /\ e.expires >= d.expires
  <2> DEFINE longer == [d EXCEPT !.expires = ExtendedExpiry(@)]
  <2>1. /\ d \in Decision /\ d.expires \in Nat /\ now \in Nat
        /\ d.expires <= now + MaxGrant
    BY <1>1 DEF TypeOK, Decision, RuleLifeIsBounded
  <2>2. ExtendedExpiry(d.expires) >= d.expires
    BY <2>1, DurationAssumption DEF ExtendedExpiry
  <2>3. longer.profile = d.profile /\ longer.process = d.process /\ longer.expires >= d.expires
    BY <2>1, <2>2 DEF Decision
  <2>4. longer \in decisions'
    BY <1>1 DEF ExtendDecision
  <2> QED
    BY <2>3, <2>4 DEF SameScope
<1>2. TypeOK /\ RuleLifeIsBounded =>
        (~ClockMayStepBack =>
           \A d \in decisions : ExtendDecision(d) =>
              \E e \in decisions' : SameScope(e, d.profile, d.process) /\ e.expires >= d.expires)
  BY <1>1
<1> QED
  BY <1>2, TypeCorrect, RuleLifeAlwaysBounded, PTL DEF ExtensionNeverShortens

================================================================================
