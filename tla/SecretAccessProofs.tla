--------------------------- MODULE SecretAccessProofs ---------------------------
(***************************************************************************)
(* Machine-checked proofs about SecretAccess, for any numbers of clients,  *)
(* secrets and processes, any process trees, any durations and a wall      *)
(* clock that may move either way.                                         *)
(***************************************************************************)
EXTENDS SecretAccess, TLAPS

\* A grant that is extended keeps its id, resource and process, and stays a
\* grant.
LEMMA ExtendedGrants ==
    ASSUME GrantTypeOK, NEW id
    PROVE  /\ Extended(id) \subseteq Grant
           /\ \A h \in Extended(id) : \E g \in grants :
                 h.id = g.id /\ h.resource = g.resource /\ h.process = g.process
<1> DEFINE longer(g) == IF g.id = id THEN [g EXCEPT !.expires = ExtendedExpiry(@)] ELSE g
<1>1. ASSUME NEW e \in Nat PROVE ExtendedExpiry(e) \in Nat
  BY <1>1, DurationAssumption DEF ExtendedExpiry, GrantTypeOK
<1>2. ASSUME NEW g \in grants
      PROVE  /\ longer(g) \in Grant
             /\ longer(g).id = g.id /\ longer(g).resource = g.resource
             /\ longer(g).process = g.process
  <2>1. g \in Grant
    BY DEF GrantTypeOK
  <2>2. ExtendedExpiry(g.expires) \in Nat
    BY <1>1, <2>1 DEF Grant
  <2> QED
    BY <2>1, <2>2 DEF Grant
<1>3. \A h \in Extended(id) : \E g \in grants : h = longer(g)
  BY DEF Extended, Live
<1> QED
  BY <1>2, <1>3

\* Every reachable state has values of the declared types.
LEMMA TypeStep == TypeOK /\ [Next]_vars => TypeOK'
<1> SUFFICES ASSUME TypeOK, [Next]_vars PROVE TypeOK'
  OBVIOUS
<1> USE DEF TypeOK, GrantTypeOK, vars, storeVars, vaultVars, queueVars
<1>1. ASSUME NEW c \in Connection, Asking(c) PROVE TypeOK'
  <2>1. PICK r \in Request :
           BeginLocked(c, r) \/ BeginMissing(c, r) \/ BeginCovered(c, r) \/ BeginQueued(c, r)
    BY <1>1 DEF Asking
  <2>2. CASE BeginLocked(c, r)
    BY <2>2 DEF BeginLocked, Begin, Handler
  <2>3. CASE BeginMissing(c, r)
    BY <2>3 DEF BeginMissing, Begin, Handler, Answer
  <2>4. CASE BeginCovered(c, r)
    BY <2>4 DEF BeginCovered, Begin, Live, Handler, Answer, AuditAction, Approval
  <2>5. CASE BeginQueued(c, r)
    BY <2>5 DEF BeginQueued, Begin, Live, Handler
  <2> QED
    BY <2>1, <2>2, <2>3, <2>4, <2>5
<1>2. ASSUME NEW c \in Connection, Responding(c) PROVE TypeOK'
  <2>1. CASE Deny(c)
    BY <2>1 DEF Deny, Resolve, Record, Resolution, AuditAction
  <2>2. CASE AllowOnce(c)
    BY <2>2 DEF AllowOnce, Resolve, Record, Resolution, AuditAction, Approval
  <2>3. ASSUME NEW process \in Process, NEW seconds \in ValidSeconds, NEW id \in GrantId,
               AllowTemporarily(c, process, seconds, id)
        PROVE  TypeOK'
    <3>1. request[c].secret \in Secret /\ now + seconds \in Nat
      BY <2>3, DurationAssumption DEF AllowTemporarily, ValidSeconds, Request
    <3>2. grants' \subseteq Grant
      BY <2>3, <3>1 DEF AllowTemporarily, Added, Grant
    <3> QED
      BY <2>3, <3>2 DEF AllowTemporarily, Resolve, Resolution, AuditAction, Approval
  <2> QED
    BY <1>2, <2>1, <2>2, <2>3 DEF Responding
<1>3. ASSUME NEW c \in Connection, ThreadStep(c) PROVE TypeOK'
  <2>1. CASE ReceiveApproved(c)
    BY <2>1 DEF ReceiveApproved, Finish, Handler, Answer
  <2>2. CASE ReceiveRefusal(c)
    BY <2>2 DEF ReceiveRefusal, Finish, Handler, Answer
  <2>3. CASE Elapse(c)
    BY <2>3 DEF Elapse, Handler
  <2>4. CASE TimeoutRequest(c)
    BY <2>4 DEF TimeoutRequest, Finish, Record, Handler, Answer, AuditAction
  <2> QED
    BY <1>3, <2>1, <2>2, <2>3, <2>4 DEF ThreadStep
<1>4. ASSUME Managing PROVE TypeOK'
  <2>1. CASE Unlock
    BY <2>1 DEF Unlock, Resolution
  <2>2. CASE Lock
    BY <2>2 DEF Lock, Resolve, Record, Resolution, AuditAction
  <2>3. ASSUME NEW name \in Secret, SaveSecret(name) PROVE TypeOK'
    BY <2>3 DEF SaveSecret, Save
  <2>4. ASSUME NEW name \in Secret, DeleteSecret(name) PROVE TypeOK'
    BY <2>4 DEF DeleteSecret, Live
  <2>5. ASSUME NEW old \in Secret, NEW new \in Secret, RenameSecret(old, new) PROVE TypeOK'
    BY <2>5 DEF RenameSecret, Save
  <2>6. ASSUME NEW g \in grants, RevokeGrant(g.id) PROVE TypeOK'
    BY <2>6 DEF RevokeGrant, Revoked
  <2>7. ASSUME NEW g \in grants, ExtendGrant(g.id) PROVE TypeOK'
    <3>1. Extended(g.id) \subseteq Grant
      BY ExtendedGrants
    <3> QED
      BY <2>7, <3>1 DEF ExtendGrant
  <2>8. CASE Snapshot
    BY <2>8 DEF Snapshot, Live
  <2> QED
    BY <1>4, <2>1, <2>2, <2>3, <2>4, <2>5, <2>6, <2>7, <2>8 DEF Managing
<1>5. CASE Clock
  BY <1>5, DurationAssumption DEF Clock, ClockStep, TimePasses
<1>6. CASE UNCHANGED vars
  BY <1>6
<1> QED
  BY <1>1, <1>2, <1>3, <1>4, <1>5, <1>6 DEF Next

-----------------------------------------------------------------------------
\* Most of the user interface leaves requests and sessions alone, and never
\* widens what the stored grants cover.
Quiet ==
    /\ UNCHANGED <<unlocked, queueVars, request, handler, audit>>
    /\ \A h \in grants' : \E g \in grants :
          h.id = g.id /\ h.resource = g.resource /\ h.process = g.process

LEMMA StepKinds ==
    ASSUME TypeOK, [Next]_vars
    PROVE  \/ \E c \in Connection : Asking(c) \/ Responding(c) \/ ThreadStep(c)
           \/ Unlock \/ Lock \/ Quiet
<1> USE DEF storeVars, vaultVars
<1>1. ASSUME NEW name \in Secret, SaveSecret(name) PROVE Quiet
  BY <1>1 DEF SaveSecret, Quiet
<1>2. ASSUME NEW name \in Secret, DeleteSecret(name) PROVE Quiet
  BY <1>2 DEF DeleteSecret, Live, Quiet
<1>3. ASSUME NEW old \in Secret, NEW new \in Secret, RenameSecret(old, new) PROVE Quiet
  BY <1>3 DEF RenameSecret, Quiet
<1>4. ASSUME NEW g \in grants, RevokeGrant(g.id) PROVE Quiet
  BY <1>4 DEF RevokeGrant, Revoked, Quiet
<1>5. ASSUME NEW g \in grants, ExtendGrant(g.id) PROVE Quiet
  BY <1>5, ExtendedGrants DEF ExtendGrant, TypeOK, Quiet
<1>6. CASE Snapshot
  BY <1>6 DEF Snapshot, Live, Quiet
<1>7. CASE Clock
  BY <1>7 DEF Clock, ClockStep, TimePasses, Quiet
<1>8. CASE UNCHANGED vars
  BY <1>8 DEF vars, Quiet
<1> QED
  BY <1>1, <1>2, <1>3, <1>4, <1>5, <1>6, <1>7, <1>8 DEF Next, Managing

\* Sessions stay apart, and only pending requests are marked as waiting.
LEMMA SessionStep ==
    ASSUME TypeOK, waiting \subseteq pending, SessionsAreSeparate, NoLostResolution, [Next]_vars
    PROVE  (waiting \subseteq pending)' /\ SessionsAreSeparate'
<1> USE DEF SessionsAreSeparate, storeVars, vaultVars, queueVars
<1>1. ASSUME NEW c \in Connection, Asking(c)
      PROVE  (waiting \subseteq pending)' /\ SessionsAreSeparate'
  BY <1>1 DEF Asking, BeginLocked, BeginMissing, BeginCovered, BeginQueued, Begin
<1>2. ASSUME NEW c \in Connection, Responding(c)
      PROVE  (waiting \subseteq pending)' /\ SessionsAreSeparate'
  BY <1>2 DEF Responding, Deny, AllowOnce, AllowTemporarily, Resolve
<1>3. ASSUME NEW c \in Connection, ThreadStep(c)
      PROVE  (waiting \subseteq pending)' /\ SessionsAreSeparate'
  BY <1>3 DEF ThreadStep, ReceiveApproved, ReceiveRefusal, Elapse, TimeoutRequest
<1>4. CASE Unlock
  BY <1>4 DEF Unlock
<1>5. CASE Lock
  BY <1>5 DEF Lock, Resolve
<1>6. CASE Quiet
  BY <1>6 DEF Quiet
<1> QED
  BY <1>1, <1>2, <1>3, <1>4, <1>5, <1>6, StepKinds

\* No thread sleeps without somebody left to wake it.
LEMMA ResolutionStep ==
    ASSUME TypeOK, waiting \subseteq pending, NoLostResolution, [Next]_vars
    PROVE  NoLostResolution'
<1> USE DEF NoLostResolution, TypeOK, Open, queueVars, Resolution
<1>1. ASSUME NEW c \in Connection, Asking(c) PROVE NoLostResolution'
  BY <1>1 DEF Asking, BeginLocked, BeginMissing, BeginCovered, BeginQueued, Begin
<1>2. ASSUME NEW c \in Connection, Responding(c) PROVE NoLostResolution'
  BY <1>2 DEF Responding, Deny, AllowOnce, AllowTemporarily, Resolve, PendingWithin
<1>3. ASSUME NEW c \in Connection, ThreadStep(c) PROVE NoLostResolution'
  BY <1>3 DEF ThreadStep, ReceiveApproved, ReceiveRefusal, Elapse, TimeoutRequest, Finish
<1>4. CASE Unlock
  BY <1>4 DEF Unlock
<1>5. CASE Lock
  BY <1>5 DEF Lock, Resolve
<1>6. CASE Quiet
  BY <1>6 DEF Quiet
<1> QED
  BY <1>1, <1>2, <1>3, <1>4, <1>5, <1>6, StepKinds

\* Whichever comes first, a grant or a request it covers, the request is
\* settled with it.
LEMMA CoverageStep ==
    ASSUME TypeOK, SessionsAreSeparate, NoLostResolution, NoCoveredPending, [Next]_vars
    PROVE  NoCoveredPending'
<1> USE DEF NoCoveredPending, Covers, storeVars, queueVars
<1>1. ASSUME NEW c \in Connection, Asking(c) PROVE NoCoveredPending'
  <2>1. c \notin pending
    BY <1>1 DEF NoLostResolution, Asking, BeginLocked, BeginMissing, BeginCovered,
                BeginQueued, Begin
  <2>2. PICK r \in Request :
           BeginLocked(c, r) \/ BeginMissing(c, r) \/ BeginCovered(c, r) \/ BeginQueued(c, r)
    BY <1>1 DEF Asking
  <2>3. request'[c] = r /\ \A d \in pending : request'[d] = request[d]
    BY <2>1, <2>2 DEF TypeOK, BeginLocked, BeginMissing, BeginCovered, BeginQueued, Begin
  <2>4. CASE BeginLocked(c, r)
    BY <2>3, <2>4 DEF BeginLocked, SessionsAreSeparate
  <2>5. CASE BeginMissing(c, r) \/ BeginCovered(c, r)
    BY <2>3, <2>5 DEF BeginMissing, BeginCovered, Live
  <2>6. CASE BeginQueued(c, r)
    BY <2>3, <2>6 DEF BeginQueued, Live
  <2> QED
    BY <2>2, <2>4, <2>5, <2>6
<1>2. ASSUME NEW c \in Connection, Responding(c) PROVE NoCoveredPending'
  <2>1. CASE Deny(c) \/ AllowOnce(c)
    BY <2>1 DEF Deny, AllowOnce, Resolve
  <2>2. ASSUME NEW process \in Process, NEW seconds \in ValidSeconds, NEW id \in GrantId,
               AllowTemporarily(c, process, seconds, id)
        PROVE  NoCoveredPending'
    <3>1. /\ pending' = pending \ ({c} \cup PendingWithin(request[c].secret, process))
          /\ request' = request
          /\ grants' = Added(id, request[c].secret, process, seconds)
      BY <2>2 DEF AllowTemporarily, Resolve
    <3> QED
      BY <3>1 DEF Added, PendingWithin
  <2> QED
    BY <1>2, <2>1, <2>2 DEF Responding
<1>3. ASSUME NEW c \in Connection, ThreadStep(c) PROVE NoCoveredPending'
  BY <1>3 DEF ThreadStep, ReceiveApproved, ReceiveRefusal, Elapse, TimeoutRequest
<1>4. CASE Unlock
  BY <1>4 DEF Unlock
<1>5. CASE Lock
  BY <1>5 DEF Lock, Resolve
<1>6. CASE Quiet
  BY <1>6 DEF Quiet
<1> QED
  BY <1>1, <1>2, <1>3, <1>4, <1>5, <1>6, StepKinds

\* A second grant for one secret and process would take a pending request
\* that the first one covers.
LEMMA ScopeStep ==
    ASSUME TypeOK, NoCoveredPending, OneGrantPerScope, [Next]_vars
    PROVE  OneGrantPerScope'
<1> USE DEF OneGrantPerScope, storeVars
<1>1. ASSUME NEW c \in Connection, Asking(c) PROVE OneGrantPerScope'
  BY <1>1 DEF Asking, BeginLocked, BeginMissing, BeginCovered, BeginQueued, Live
<1>2. ASSUME NEW c \in Connection, Responding(c) PROVE OneGrantPerScope'
  <2>1. CASE Deny(c) \/ AllowOnce(c)
    BY <2>1 DEF Deny, AllowOnce
  <2>2. ASSUME NEW process \in Process, NEW seconds \in ValidSeconds, NEW id \in GrantId,
               AllowTemporarily(c, process, seconds, id)
        PROVE  OneGrantPerScope'
    <3>1. \A g \in grants : ~(g.resource = request[c].secret /\ g.process = process)
      BY <2>2 DEF AllowTemporarily, NoCoveredPending, Covers
    <3>2. grants' = Added(id, request[c].secret, process, seconds)
      BY <2>2 DEF AllowTemporarily
    <3> QED
      BY <3>1, <3>2 DEF Added
  <2> QED
    BY <1>2, <2>1, <2>2 DEF Responding
<1>3. ASSUME NEW c \in Connection, ThreadStep(c) PROVE OneGrantPerScope'
  BY <1>3 DEF ThreadStep, ReceiveApproved, ReceiveRefusal, Elapse, TimeoutRequest
<1>4. CASE Unlock
  BY <1>4 DEF Unlock
<1>5. CASE Lock
  BY <1>5 DEF Lock
<1>6. CASE Quiet
  BY <1>6 DEF Quiet
<1> QED
  BY <1>1, <1>2, <1>3, <1>4, <1>5, <1>6, StepKinds

\* Every answer and every resolution in flight has its one activity entry.
LEMMA ActivityStep ==
    ASSUME TypeOK, waiting \subseteq pending, NoLostResolution,
           AnswersMatchActivity, ResolutionsMatchActivity, [Next]_vars
    PROVE  AnswersMatchActivity' /\ ResolutionsMatchActivity'
<1> DEFINE Goal == AnswersMatchActivity' /\ ResolutionsMatchActivity'
<1> USE DEF AnswersMatchActivity, ResolutionsMatchActivity, NoLostResolution, TypeOK, Open,
            queueVars, Approval
<1>1. ASSUME NEW c \in Connection, Asking(c) PROVE Goal
  BY <1>1 DEF Asking, BeginLocked, BeginMissing, BeginCovered, BeginQueued, Begin
<1>2. ASSUME NEW c \in Connection, Responding(c) PROVE Goal
  <2>1. CASE Deny(c)
    BY <2>1 DEF Deny, Resolve, Record
  <2>2. CASE AllowOnce(c)
    BY <2>2 DEF AllowOnce, Resolve, Record
  <2>3. ASSUME NEW process \in Process, NEW seconds \in ValidSeconds, NEW id \in GrantId,
               AllowTemporarily(c, process, seconds, id)
        PROVE  Goal
    <3> DEFINE settled == {c} \cup PendingWithin(request[c].secret, process)
    <3>1. settled \subseteq pending
      BY <2>3 DEF AllowTemporarily, PendingWithin
    <3>2. /\ pending' = pending \ settled
          /\ handler' = handler
          /\ \A d \in Connection \ settled : channel'[d] = channel[d] /\ audit'[d] = audit[d]
          /\ \A d \in settled : channel'[d] = "Approved"
      BY <2>3, <3>1 DEF AllowTemporarily, Resolve
    <3>3. \A d \in settled : \E a \in Approval : audit'[d] = {a}
      <4>1. audit'[c] = {"GrantedTemporarily"}
        BY <2>3 DEF AllowTemporarily
      <4>2. \A d \in settled \ {c} : audit'[d] = {"AutoGranted"}
        BY <2>3, <3>1 DEF AllowTemporarily
      <4> QED
        BY <4>1, <4>2
    <3>4. \A d \in settled : Open(d)
      BY <3>1
    <3>5. AnswersMatchActivity'
      <4> SUFFICES ASSUME NEW d \in Connection
                   PROVE  /\ handler[d] = "released" => \E a \in Approval : audit'[d] = {a}
                          /\ handler[d] = "refused"  => audit'[d] = {"Denied"}
                          /\ handler[d] = "expired"  => \A a, b \in audit'[d] : a = b
                          /\ handler[d] = "failed"   => audit'[d] \subseteq Approval
                          /\ d \in pending'         => audit'[d] = {}
        BY <3>2
      <4>1. CASE d \in settled
        BY <3>2, <3>4, <4>1
      <4>2. CASE d \notin settled
        BY <3>2, <4>2
      <4> QED
        BY <4>1, <4>2
    <3>6. ResolutionsMatchActivity'
      <4> SUFFICES ASSUME NEW d \in Connection
                   PROVE  /\ channel'[d] = "Approved" => \E a \in Approval : audit'[d] = {a}
                          /\ channel'[d] = "Denied"   => audit'[d] = {"Denied"}
                          /\ channel'[d] = "Failed"   => audit'[d] = {}
        OBVIOUS
      <4>1. CASE d \in settled
        BY <3>2, <3>3, <4>1
      <4>2. CASE d \notin settled
        BY <3>2, <4>2
      <4> QED
        BY <4>1, <4>2
    <3> QED
      BY <3>5, <3>6
  <2> QED
    BY <1>2, <2>1, <2>2, <2>3 DEF Responding
<1>3. ASSUME NEW c \in Connection, ThreadStep(c) PROVE Goal
  <2>1. CASE ReceiveApproved(c)
    BY <2>1 DEF ReceiveApproved, Finish
  <2>2. CASE ReceiveRefusal(c)
    BY <2>2 DEF ReceiveRefusal, Finish
  <2>3. CASE Elapse(c)
    BY <2>3 DEF Elapse
  <2>4. CASE TimeoutRequest(c)
    <3>1. /\ handler' = [handler EXCEPT ![c] = "expired"]
          /\ channel' = [channel EXCEPT ![c] = "empty"]
          /\ pending' = pending \ {c}
          /\ \A d \in Connection \ {c} : audit'[d] = audit[d]
      BY <2>4 DEF TimeoutRequest, Finish, Record
    <3>2. \A a, b \in audit'[c] : a = b
      <4>1. CASE c \in pending
        <5>1. audit[c] = {} /\ audit'[c] = audit[c] \cup {"TimedOut"}
          BY <2>4, <4>1 DEF TimeoutRequest, Record
        <5> QED
          BY <5>1
      <4>2. CASE c \notin pending
        <5>1. audit'[c] = audit[c] /\ channel[c] \in Resolution
          BY <2>4, <4>2 DEF TimeoutRequest, Record
        <5> QED
          BY <5>1 DEF Resolution
      <4> QED
        BY <4>1, <4>2
    <3> QED
      BY <3>1, <3>2
  <2> QED
    BY <1>3, <2>1, <2>2, <2>3, <2>4 DEF ThreadStep
<1>4. CASE Unlock
  BY <1>4 DEF Unlock
<1>5. CASE Lock
  BY <1>5 DEF Lock, Resolve, Record
<1>6. CASE Quiet
  BY <1>6 DEF Quiet
<1> QED
  BY <1>1, <1>2, <1>3, <1>4, <1>5, <1>6, StepKinds

-----------------------------------------------------------------------------
\* The inductive invariant: its parts lean on each other.  Sessions stay
\* apart because only pending requests wait; requests stay uncovered because
\* locking leaves no grant behind; scopes stay unique because requests stay
\* uncovered.
THEOREM ConsistentAlways == Spec => []Consistent
<1> USE DEF Consistent
<1>1. Init => Consistent
  <2> USE DEF Init, GrantInit
  <2>1. Init => TypeOK
    <3>1. Init => GrantTypeOK /\ secrets \subseteq Secret /\ disk \subseteq Secret
      BY DEF GrantTypeOK
    <3>2. Init => unlocked \in BOOLEAN
      BY Zenon
    <3>3. Init => /\ pending \subseteq Connection
                  /\ waiting \subseteq Connection
                  /\ request \in [Connection -> Request \cup {NoRequest}]
                  /\ \A c \in pending : request[c] \in Request
      OBVIOUS
    <3>4. Init => channel \in [Connection -> Resolution \cup {"empty"}]
      OBVIOUS
    <3>5. Init => handler \in [Connection -> Handler]
      BY DEF Handler
    <3>6. Init => audit \in [Connection -> SUBSET AuditAction]
      <4>1. {} \in SUBSET AuditAction
        OBVIOUS
      <4> QED
        BY <4>1
    <3> QED
      BY <3>1, <3>2, <3>3, <3>4, <3>5, <3>6 DEF TypeOK
  <2>2. Init => waiting \subseteq pending /\ SessionsAreSeparate /\ NoCoveredPending
    BY DEF SessionsAreSeparate, NoCoveredPending
  <2>3. Init => NoLostResolution /\ OneGrantPerScope
    BY DEF NoLostResolution, Open, OneGrantPerScope
  <2>4. Init => AnswersMatchActivity /\ ResolutionsMatchActivity
    BY DEF AnswersMatchActivity, ResolutionsMatchActivity
  <2> QED
    BY <2>1, <2>2, <2>3, <2>4
<1>2. Consistent /\ [Next]_vars => Consistent'
  BY TypeStep, SessionStep, ResolutionStep, CoverageStep, ScopeStep, ActivityStep
<1> QED
  BY <1>1, <1>2, PTL DEF Spec

\* Values stay within their types, whatever the interleaving.
THEOREM TypeCorrect == Spec => []TypeOK
<1>1. Consistent => TypeOK
  BY DEF Consistent
<1> QED
  BY <1>1, ConsistentAlways, PTL

\* A locked vault keeps no grant and only requests that wait for the
\* password; an open one none of these.
THEOREM SessionsAlwaysSeparate == Spec => []SessionsAreSeparate
<1>1. Consistent => SessionsAreSeparate
  BY DEF Consistent
<1> QED
  BY <1>1, ConsistentAlways, PTL

\* The user is never asked about what a stored grant already allows.
THEOREM NeverCoveredPending == Spec => []NoCoveredPending
<1>1. Consistent => NoCoveredPending
  BY DEF Consistent
<1> QED
  BY <1>1, ConsistentAlways, PTL

\* One secret and process never have two grants.
THEOREM AlwaysOneGrantPerScope == Spec => []OneGrantPerScope
<1>1. Consistent => OneGrantPerScope
  BY DEF Consistent
<1> QED
  BY <1>1, ConsistentAlways, PTL

\* No client thread is left asleep with nobody to wake it.
THEOREM ResolutionsNeverLost == Spec => []NoLostResolution
<1>1. Consistent => NoLostResolution
  BY DEF Consistent
<1> QED
  BY <1>1, ConsistentAlways, PTL

\* The activity list never contradicts what a client was told.
THEOREM AnswersAlwaysMatchActivity == Spec => []AnswersMatchActivity
<1>1. Consistent => AnswersMatchActivity
  BY DEF Consistent
<1> QED
  BY <1>1, ConsistentAlways, PTL

\* Revoking the one entry a scope has ends the access.
THEOREM RevocationEndsScope == Spec => RevokeEndsScope
<1> DEFINE Ends == \A g \in grants : RevokeGrant(g.id) =>
                     ~\E h \in grants' : h.resource = g.resource /\ h.process = g.process
<1>1. Consistent /\ [Next]_vars => [Ends]_vars
  BY DEF Consistent, OneGrantPerScope, RevokeGrant, Revoked
<1> QED
  BY <1>1, ConsistentAlways, PTL DEF Spec, RevokeEndsScope

\* A grant is only ever spent, by a new request or by one pending when it was
\* made, inside its boundary, for its secret, while it is live.
THEOREM AutoGrantsAlwaysCovered == Spec => AutoGrantsAreCovered
<1>1. ASSUME Consistent, [Next]_vars PROVE [AutoGrantIsCovered]_vars
  <2> SUFFICES ASSUME NEW d \in Connection,
                      "AutoGranted" \in audit'[d], "AutoGranted" \notin audit[d]
               PROVE  /\ request'[d].verified
                      /\ Covers(Live', request'[d].secret, request'[d].tree.members)
    BY DEF AutoGrantIsCovered
  <2> USE <1>1 DEF Consistent, TypeOK
  <2>1. ASSUME NEW c \in Connection, Asking(c)
        PROVE  /\ request'[d].verified
               /\ Covers(Live', request'[d].secret, request'[d].tree.members)
    <3>1. PICK r \in Request :
            BeginLocked(c, r) \/ BeginMissing(c, r) \/ BeginCovered(c, r) \/ BeginQueued(c, r)
      BY <2>1 DEF Asking
    <3>2. BeginCovered(c, r) /\ c = d
      BY <3>1 DEF BeginLocked, BeginMissing, BeginCovered, BeginQueued, Begin
    <3> QED
      BY <3>2 DEF BeginCovered, Begin, Live, Covers
  <2>2. ASSUME NEW c \in Connection, Responding(c)
        PROVE  /\ request'[d].verified
               /\ Covers(Live', request'[d].secret, request'[d].tree.members)
    <3>1. PICK process \in Process, seconds \in ValidSeconds, id \in GrantId :
            AllowTemporarily(c, process, seconds, id)
      BY <2>2 DEF Responding, Deny, AllowOnce, Record
    <3>2. d \in PendingWithin(request[c].secret, process) /\ request' = request
      BY <3>1 DEF AllowTemporarily
    <3>3. now + seconds > now
      BY DurationAssumption DEF ValidSeconds, GrantTypeOK
    <3>4. \E g \in Live' : g.resource = request[c].secret /\ g.process = process
      <4> DEFINE added == [id |-> id, resource |-> request[c].secret, process |-> process,
                           expires |-> now + seconds]
      <4>1. added \in grants' /\ now' = now
        BY <3>1 DEF AllowTemporarily, Added
      <4>2. added \in Live'
        BY <3>3, <4>1 DEF Live
      <4> QED
        BY <4>2
    <3> QED
      BY <3>2, <3>4 DEF PendingWithin, Covers
  <2>3. ASSUME NEW c \in Connection, ThreadStep(c) PROVE FALSE
    BY <2>3 DEF ThreadStep, ReceiveApproved, ReceiveRefusal, Elapse, TimeoutRequest, Record
  <2>4. ASSUME Unlock \/ Lock \/ Quiet PROVE FALSE
    BY <2>4 DEF Unlock, Lock, Record, Quiet
  <2> QED
    BY <2>1, <2>2, <2>3, <2>4, StepKinds
<1> QED
  BY <1>1, ConsistentAlways, PTL DEF Spec, AutoGrantsAreCovered

\* While the clock only moves on, no series of approvals and extensions gives
\* a grant more than the maximum from now.
THEOREM GrantLifeAlwaysBounded == Spec => []GrantLifeIsBounded
<1> USE DurationAssumption DEF GrantLifeIsBounded
<1>1. Init => GrantLifeIsBounded
  BY DEF Init, GrantInit
<1>2. ASSUME TypeOK, GrantLifeIsBounded, [Next]_vars PROVE GrantLifeIsBounded'
  <2> USE <1>2 DEF TypeOK, GrantTypeOK, Grant, storeVars
  <2>1. ASSUME grants' \subseteq grants, now' = now PROVE GrantLifeIsBounded'
    BY <2>1
  <2>2. ASSUME NEW c \in Connection, Asking(c) PROVE GrantLifeIsBounded'
    BY <2>1, <2>2 DEF Asking, BeginLocked, BeginMissing, BeginCovered, BeginQueued, Live
  <2>3. ASSUME NEW c \in Connection, Responding(c) PROVE GrantLifeIsBounded'
    <3>1. CASE Deny(c) \/ AllowOnce(c)
      BY <2>1, <3>1 DEF Deny, AllowOnce
    <3>2. ASSUME NEW process \in Process, NEW seconds \in ValidSeconds, NEW id \in GrantId,
                 AllowTemporarily(c, process, seconds, id)
          PROVE  GrantLifeIsBounded'
      BY <3>2 DEF AllowTemporarily, Added, ValidSeconds
    <3> QED
      BY <2>3, <3>1, <3>2 DEF Responding
  <2>4. ASSUME NEW c \in Connection, ThreadStep(c) PROVE GrantLifeIsBounded'
    BY <2>1, <2>4 DEF ThreadStep, ReceiveApproved, ReceiveRefusal, Elapse, TimeoutRequest
  <2>5. ASSUME Managing PROVE GrantLifeIsBounded'
    <3>1. ASSUME NEW g \in grants, ExtendGrant(g.id) PROVE GrantLifeIsBounded'
      <4>1. \A e \in Nat : ExtendedExpiry(e) <= now + MaxGrant
        BY DEF ExtendedExpiry
      <4>2. now' = now /\ \A h \in grants' : h \in grants \/ h.expires <= now + MaxGrant
        BY <3>1, <4>1 DEF ExtendGrant, Extended, Live
      <4> QED
        BY <4>2
    <3>2. CASE Unlock \/ Lock \/ Snapshot
      BY <2>1, <3>2 DEF Unlock, Lock, Snapshot, Live
    <3>3. ASSUME NEW name \in Secret, SaveSecret(name) \/ DeleteSecret(name)
          PROVE  GrantLifeIsBounded'
      BY <2>1, <3>3 DEF SaveSecret, DeleteSecret, Live
    <3>4. ASSUME NEW old \in Secret, NEW new \in Secret, RenameSecret(old, new)
          PROVE  GrantLifeIsBounded'
      BY <2>1, <3>4 DEF RenameSecret
    <3>5. ASSUME NEW g \in grants, RevokeGrant(g.id) PROVE GrantLifeIsBounded'
      BY <2>1, <3>5 DEF RevokeGrant, Revoked
    <3> QED
      BY <2>5, <3>1, <3>2, <3>3, <3>4, <3>5 DEF Managing
  <2>6. CASE Clock
    BY <2>6 DEF Clock, ClockStep, TimePasses
  <2>7. CASE UNCHANGED vars
    BY <2>1, <2>7 DEF vars
  <2> QED
    BY <2>2, <2>3, <2>4, <2>5, <2>6, <2>7 DEF Next
<1> QED
  BY <1>1, <1>2, TypeCorrect, PTL DEF Spec

-----------------------------------------------------------------------------
\* The step that adds a scope to the grants is the answer to a pending request,
\* which has no activity entry before.
LEMMA AnswerStep ==
    ASSUME TypeOK, AnswersMatchActivity, [Next]_vars
    PROVE  GrantIsAnswer
<1> DEFINE Kept == \A g \in grants' :
                     \E h \in grants : h.resource = g.resource /\ h.process = g.process
<1>1. ASSUME Kept PROVE GrantIsAnswer
  BY <1>1 DEF GrantIsAnswer
<1>2. ASSUME grants' \subseteq grants PROVE GrantIsAnswer
  BY <1>1, <1>2
<1>3. ASSUME NEW c \in Connection, Asking(c) PROVE GrantIsAnswer
  BY <1>2, <1>3 DEF Asking, BeginLocked, BeginMissing, BeginCovered, BeginQueued, Live, storeVars
<1>4. ASSUME NEW c \in Connection, Responding(c) PROVE GrantIsAnswer
  <2>1. CASE Deny(c) \/ AllowOnce(c)
    BY <1>2, <2>1 DEF Deny, AllowOnce, storeVars
  <2>2. ASSUME NEW process \in Process, NEW seconds \in ValidSeconds, NEW id \in GrantId,
               AllowTemporarily(c, process, seconds, id)
        PROVE  GrantIsAnswer
    <3>1. /\ c \in pending \ waiting /\ request[c].verified
          /\ process \in request[c].tree.members /\ process # Launchd
      BY <2>2 DEF AllowTemporarily
    <3>2. audit'[c] = {"GrantedTemporarily"}
      BY <2>2, <3>1 DEF AllowTemporarily, AnswersMatchActivity
    <3>3. \A g \in grants' : \/ g \in grants
                             \/ g.resource = request[c].secret /\ g.process = process
      BY <2>2 DEF AllowTemporarily, Added
    <3> QED
      BY <3>1, <3>2, <3>3 DEF GrantIsAnswer
  <2> QED
    BY <1>4, <2>1, <2>2 DEF Responding
<1>5. ASSUME NEW c \in Connection, ThreadStep(c) PROVE GrantIsAnswer
  BY <1>2, <1>5 DEF ThreadStep, ReceiveApproved, ReceiveRefusal, Elapse, TimeoutRequest, storeVars
<1>6. CASE Unlock \/ Lock
  BY <1>2, <1>6 DEF Unlock, Lock, storeVars
<1>7. CASE Quiet
  BY <1>1, <1>7 DEF Quiet
<1> QED
  BY <1>3, <1>4, <1>5, <1>6, <1>7, StepKinds

\* Every grant goes back to an answer of the user about that secret and a process
\* of that requester's tree.
THEOREM GrantsAlwaysFromTheUser == Spec => GrantsComeFromTheUser
<1>1. Consistent /\ [Next]_vars => [GrantIsAnswer]_vars
  BY AnswerStep DEF Consistent
<1> QED
  BY <1>1, ConsistentAlways, PTL DEF Spec, GrantsComeFromTheUser

\* No grant covers everything that runs.
THEOREM LaunchdNeverBoundary == Spec => []LaunchdIsNoBoundary
<1>1. Init => LaunchdIsNoBoundary
  BY DEF Init, GrantInit, LaunchdIsNoBoundary
<1>2. Consistent /\ LaunchdIsNoBoundary /\ [Next]_vars => LaunchdIsNoBoundary'
  BY AnswerStep DEF Consistent, GrantIsAnswer, LaunchdIsNoBoundary
<1> QED
  BY <1>1, <1>2, ConsistentAlways, PTL DEF Spec

\* While the vault is locked every pending request waits, which is why respond()
\* refuses to approve it, and there is no grant to allow one automatically.
THEOREM NothingEverApprovedWhileLocked == Spec => NothingApprovedWhileLocked
<1> DEFINE Nothing == ~unlocked => \A c \in Connection :
                        audit'[c] \cap Approval # {} => audit'[c] = audit[c]
<1>1. ASSUME Consistent, [Next]_vars PROVE [Nothing]_vars
  <2> SUFFICES ASSUME ~unlocked, NEW d \in Connection, audit'[d] \cap Approval # {}
               PROVE  audit'[d] = audit[d]
    OBVIOUS
  <2>0. /\ audit \in [Connection -> SUBSET AuditAction]
        /\ pending = waiting /\ \A c \in pending : audit[c] = {}
    BY <1>1 DEF Consistent, TypeOK, SessionsAreSeparate, AnswersMatchActivity
  <2>1. ASSUME NEW c \in Connection, Asking(c) PROVE audit'[d] = audit[d]
    <3>1. PICK r \in Request : BeginLocked(c, r)
      BY <2>1 DEF Asking, BeginMissing, BeginCovered, BeginQueued
    <3> QED
      BY <2>0, <3>1 DEF BeginLocked, Begin
  <2>2. ASSUME NEW c \in Connection, Responding(c) PROVE audit'[d] = audit[d]
    <3>1. Deny(c)
      BY <2>0, <2>2 DEF Responding, AllowOnce, AllowTemporarily
    <3> QED
      BY <2>0, <3>1 DEF Deny, Record, Approval
  <2>3. ASSUME NEW c \in Connection, ThreadStep(c) PROVE audit'[d] = audit[d]
    BY <2>0, <2>3 DEF ThreadStep, ReceiveApproved, ReceiveRefusal, Elapse, TimeoutRequest,
                      Record, Approval
  <2>4. CASE Unlock \/ Quiet
    BY <2>4 DEF Unlock, Quiet
  <2>5. CASE Lock
    BY <2>0, <2>5 DEF Lock, Record, Approval
  <2> QED
    BY <1>1, <2>1, <2>2, <2>3, <2>4, <2>5, StepKinds DEF Consistent
<1> QED
  BY <1>1, ConsistentAlways, PTL DEF Spec, NothingApprovedWhileLocked

\* Extending a grant moves its expiry on, unless the clock was set back.
THEOREM ExtensionsNeverShorten == Spec => ExtensionNeverShortens
<1>1. ASSUME TypeOK, GrantLifeIsBounded, ~ClockMayStepBack, NEW g \in Live, ExtendGrant(g.id)
      PROVE  \E h \in grants' : h.id = g.id /\ h.expires >= g.expires
  <2> DEFINE longer == [g EXCEPT !.expires = ExtendedExpiry(@)]
  <2>1. /\ g \in Grant /\ g.expires \in Nat /\ now \in Nat
        /\ g.expires <= now + MaxGrant
    BY <1>1 DEF TypeOK, GrantTypeOK, Grant, Live, GrantLifeIsBounded
  <2>2. ExtendedExpiry(g.expires) >= g.expires
    BY <2>1, DurationAssumption DEF ExtendedExpiry
  <2>3. longer.id = g.id /\ longer.expires >= g.expires
    BY <2>1, <2>2 DEF Grant
  <2>4. longer \in grants'
    BY <1>1 DEF ExtendGrant, Extended
  <2> QED
    BY <2>3, <2>4
<1>2. TypeOK /\ GrantLifeIsBounded =>
        (~ClockMayStepBack =>
           \A g \in Live : ExtendGrant(g.id) =>
              \E h \in grants' : h.id = g.id /\ h.expires >= g.expires)
  BY <1>1
<1> QED
  BY <1>2, TypeCorrect, GrantLifeAlwaysBounded, PTL DEF ExtensionNeverShortens

=================================================================================
