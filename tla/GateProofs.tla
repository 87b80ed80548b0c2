------------------------------- MODULE GateProofs -------------------------------
(***************************************************************************)
(* SecretAccess implements the safety part of ApprovalGate, for every      *)
(* value of its constants.                                                 *)
(***************************************************************************)
EXTENDS SecretAccessProofs

\* An approving entry is an approval; of the others only a denial is a verdict.
LEMMA VerdictCases ==
    ASSUME NEW entries, NEW sent, NEW state
    PROVE  /\ \A a \in Approval : a \in entries => VerdictOf(entries, sent, state) = "approved"
           /\ entries = {"Denied"} => VerdictOf(entries, sent, state) = "denied"
           /\ entries \in {{}, {"TimedOut"}} /\ (sent = "Failed" \/ state \in {"failed", "expired"})
                => VerdictOf(entries, sent, state) = "void"
           /\ entries = {} /\ sent # "Failed" /\ state \notin {"failed", "expired"}
                => VerdictOf(entries, sent, state) = "none"
<1> USE DEF VerdictOf
<1>1. ASSUME NEW a \in Approval, a \in entries PROVE VerdictOf(entries, sent, state) = "approved"
  BY <1>1
<1>2. ASSUME entries \in {{}, {"TimedOut"}, {"Denied"}} PROVE \A a \in Approval : a \notin entries
  BY <1>2 DEF Approval
<1>3. ASSUME entries = {"Denied"} PROVE VerdictOf(entries, sent, state) = "denied"
  <2>1. "Denied" \in entries
    BY <1>3
  <2> QED
    BY <1>2, <1>3, <2>1
<1>4. ASSUME entries \in {{}, {"TimedOut"}} PROVE "Denied" \notin entries
  BY <1>4
<1> QED
  BY <1>1, <1>2, <1>3, <1>4

\* The gate's view of a client depends on that client's own variables only.
LEMMA ViewIsLocal ==
    ASSUME NEW d \in Connection,
           handler'[d] = handler[d], audit'[d] = audit[d], channel'[d] = channel[d]
    PROVE  /\ gateStage'[d] = gateStage[d]
           /\ gateVerdict'[d] = gateVerdict[d]
           /\ gateAnswer'[d] = gateAnswer[d]
BY DEF gateStage, gateVerdict, gateAnswer, Open

\* Two functions that agree but at one point.
LEMMA OnePoint ==
    ASSUME NEW S, NEW f, NEW g, NEW c \in S, NEW v,
           f = [d \in S |-> f[d]], g = [d \in S |-> g[d]],
           g[c] = v, \A d \in S \ {c} : g[d] = f[d]
    PROVE  g = [f EXCEPT ![c] = v]
OBVIOUS

\* A step of one client's thread is a step of the gate when it moves that
\* client's view the way the gate allows.
LEMMA OneClient ==
    ASSUME NEW c \in Connection, NEW s, NEW v, NEW a,
           \A d \in Connection \ {c} :
              handler'[d] = handler[d] /\ audit'[d] = audit[d] /\ channel'[d] = channel[d],
           gateStage'[c] = s, gateVerdict'[c] = v, gateAnswer'[c] = a
    PROVE  Gate!Becomes(c, s, v, a)
<1>1. \A d \in Connection \ {c} : /\ gateStage'[d] = gateStage[d]
                                  /\ gateVerdict'[d] = gateVerdict[d]
                                  /\ gateAnswer'[d] = gateAnswer[d]
  BY ViewIsLocal
<1>2. gateStage' = [gateStage EXCEPT ![c] = s]
  <2>1. gateStage = [d \in Connection |-> gateStage[d]] /\ gateStage' = [d \in Connection |-> gateStage'[d]]
    BY DEF gateStage
  <2> QED
    BY <1>1, <2>1, OnePoint
<1>3. gateVerdict' = [gateVerdict EXCEPT ![c] = v]
  <2>1. gateVerdict = [d \in Connection |-> gateVerdict[d]] /\ gateVerdict' = [d \in Connection |-> gateVerdict'[d]]
    BY DEF gateVerdict
  <2> QED
    BY <1>1, <2>1, OnePoint
<1>4. gateAnswer' = [gateAnswer EXCEPT ![c] = a]
  <2>1. gateAnswer = [d \in Connection |-> gateAnswer[d]] /\ gateAnswer' = [d \in Connection |-> gateAnswer'[d]]
    BY DEF gateAnswer
  <2> QED
    BY <1>1, <2>1, OnePoint
<1> QED
  BY <1>2, <1>3, <1>4 DEF Gate!Becomes

\* A decision about pending requests is a verdict on them.
LEMMA Verdict ==
    ASSUME Consistent,
           NEW C \in SUBSET pending, NEW v \in {"approved", "denied", "void"},
           handler' = handler,
           \A d \in Connection \ C : audit'[d] = audit[d] /\ channel'[d] = channel[d],
           \A d \in C : gateVerdict'[d] = v
    PROVE  Gate!Next
<1>1. C \subseteq Connection
  BY DEF Consistent, TypeOK
<1>2. \A d \in C : gateStage[d] = "asked" /\ gateVerdict[d] = "none"
  <2> SUFFICES ASSUME NEW d \in C PROVE gateStage[d] = "asked" /\ gateVerdict[d] = "none"
    OBVIOUS
  <2>1. Open(d) /\ channel[d] = "empty" /\ audit[d] = {}
    BY <1>1 DEF Consistent, NoLostResolution, AnswersMatchActivity
  <2> QED
    BY <1>1, <2>1, VerdictCases DEF gateStage, gateVerdict, Open
<1>3. gateVerdict' = [d \in Connection |-> IF d \in C THEN v ELSE gateVerdict[d]]
  <2>1. \A d \in Connection \ C : gateVerdict'[d] = gateVerdict[d]
    BY ViewIsLocal
  <2>2. gateVerdict' = [d \in Connection |-> gateVerdict'[d]]
    BY DEF gateVerdict
  <2> QED
    BY <1>1, <2>1, <2>2
<1>4. gateStage' = gateStage /\ gateAnswer' = gateAnswer
  BY DEF gateStage, gateAnswer, Open
<1>5. Gate!Judge(C, v)
  BY <1>2, <1>3, <1>4 DEF Gate!Judge
<1> QED
  BY <1>1, <1>5 DEF Gate!Next

\* Every step of SecretAccess is a step of the gate, or none.
LEMMA GateStep ==
    ASSUME Consistent, Consistent', [Next]_vars
    PROVE  [Gate!Next]_(Gate!vars)
<1> USE DEF Open, NoLostResolution
<1>0. TypeOK /\ NoLostResolution /\ AnswersMatchActivity /\ ResolutionsMatchActivity
  BY DEF Consistent
<1>1. ASSUME NEW c \in Connection, Asking(c) PROVE Gate!Next
  <2>1. PICK r \in Request :
           BeginLocked(c, r) \/ BeginMissing(c, r) \/ BeginCovered(c, r) \/ BeginQueued(c, r)
    BY <1>1 DEF Asking
  <2>2. /\ ~Open(c) /\ channel[c] = "empty" /\ channel'[c] = "empty"
        /\ \A d \in Connection \ {c} :
              handler'[d] = handler[d] /\ audit'[d] = audit[d] /\ channel'[d] = channel[d]
    BY <1>0, <2>1 DEF TypeOK, BeginLocked, BeginMissing, BeginCovered, BeginQueued, Begin, queueVars
  <2>3. gateStage[c] # "asked"
    BY <2>2 DEF gateStage
  <2>4. CASE BeginLocked(c, r) \/ BeginQueued(c, r)
    <3>1. handler'[c] = "waiting" /\ audit'[c] = {}
      BY <1>0, <2>4 DEF TypeOK, BeginLocked, BeginQueued, Begin
    <3>2. gateStage'[c] = "asked" /\ gateVerdict'[c] = "none" /\ gateAnswer'[c] = "none"
      BY <2>2, <3>1, VerdictCases DEF gateStage, gateVerdict, gateAnswer, Answer
    <3>3. Gate!Ask(c)
      BY <2>2, <2>3, <3>2, OneClient DEF Gate!Ask
    <3> QED
      BY <3>3 DEF Gate!Next
  <2>5. CASE BeginMissing(c, r)
    <3>1. handler'[c] = "failed" /\ audit'[c] = {}
      BY <1>0, <2>5 DEF TypeOK, BeginMissing, Begin
    <3>2. gateStage'[c] = "answered" /\ gateVerdict'[c] = "void" /\ gateAnswer'[c] = "refusal"
      BY <2>2, <3>1, VerdictCases DEF gateStage, gateVerdict, gateAnswer, Answer
    <3>3. Gate!AskAndAnswer(c)
      BY <2>2, <2>3, <3>2, OneClient DEF Gate!AskAndAnswer
    <3> QED
      BY <3>3 DEF Gate!Next
  <2>6. CASE BeginCovered(c, r)
    <3>1. handler'[c] = "released" /\ audit'[c] = {"AutoGranted"}
      BY <1>0, <2>6 DEF TypeOK, BeginCovered, Begin
    <3>2. gateStage'[c] = "answered" /\ gateVerdict'[c] = "approved" /\ gateAnswer'[c] = "value"
      BY <2>2, <3>1, VerdictCases DEF gateStage, gateVerdict, gateAnswer, Answer, Approval
    <3>3. Gate!AskAndAnswer(c)
      BY <2>2, <2>3, <3>2, OneClient DEF Gate!AskAndAnswer
    <3> QED
      BY <3>3 DEF Gate!Next
  <2> QED
    BY <2>1, <2>4, <2>5, <2>6
<1>2. ASSUME NEW c \in Connection, Responding(c) PROVE Gate!Next
  <2>1. CASE Deny(c)
    <3>1. /\ c \in pending /\ handler' = handler /\ audit'[c] = audit[c] \cup {"Denied"}
          /\ \A d \in Connection \ {c} : audit'[d] = audit[d] /\ channel'[d] = channel[d]
      BY <2>1 DEF Deny, Resolve, Record
    <3>2. audit'[c] = {"Denied"}
      BY <1>0, <3>1 DEF AnswersMatchActivity
    <3>3. gateVerdict'[c] = "denied"
      BY <3>2, VerdictCases DEF gateVerdict
    <3>4. {c} \in SUBSET pending /\ \A d \in {c} : gateVerdict'[d] = "denied"
      BY <3>1, <3>3
    <3> QED
      BY <3>1, <3>4, Verdict
  <2>2. CASE AllowOnce(c)
    <3>1. /\ c \in pending /\ handler' = handler /\ audit'[c] = audit[c] \cup {"AllowedOnce"}
          /\ \A d \in Connection \ {c} : audit'[d] = audit[d] /\ channel'[d] = channel[d]
      BY <2>2 DEF AllowOnce, Resolve, Record
    <3>2. "AllowedOnce" \in Approval /\ "AllowedOnce" \in audit'[c]
      BY <3>1 DEF Approval
    <3>3. gateVerdict'[c] = "approved"
      BY <3>2, VerdictCases DEF gateVerdict
    <3>4. {c} \in SUBSET pending /\ \A d \in {c} : gateVerdict'[d] = "approved"
      BY <3>1, <3>3
    <3> QED
      BY <3>1, <3>4, Verdict
  <2>3. ASSUME NEW process \in Process, NEW seconds \in ValidSeconds, NEW id \in GrantId,
               AllowTemporarily(c, process, seconds, id)
        PROVE  Gate!Next
    <3> DEFINE settled == {c} \cup PendingWithin(request[c].secret, process)
    <3>1. /\ settled \subseteq pending /\ handler' = handler
          /\ \A d \in Connection \ settled : audit'[d] = audit[d] /\ channel'[d] = channel[d]
      BY <2>3 DEF AllowTemporarily, Resolve, PendingWithin
    <3>2. \A d \in settled : \E a \in Approval : a \in audit'[d]
      BY <1>0, <2>3, <3>1 DEF AllowTemporarily, Approval, TypeOK
    <3>3. \A d \in settled : gateVerdict'[d] = "approved"
      BY <1>0, <3>1, <3>2, VerdictCases DEF gateVerdict, TypeOK
    <3> HIDE DEF settled
    <3> QED
      BY <3>1, <3>3, Verdict
  <2> QED
    BY <1>2, <2>1, <2>2, <2>3 DEF Responding
<1>3. ASSUME NEW c \in Connection, ThreadStep(c) PROVE [Gate!Next]_(Gate!vars)
  <2>1. CASE Elapse(c)
    <3>1. UNCHANGED <<audit, channel>> /\ handler' = [handler EXCEPT ![c] = "elapsed"]
          /\ handler[c] = "waiting"
      BY <2>1 DEF Elapse, queueVars
    <3>2. \A d \in Connection : handler'[d] \in {"failed", "expired"}
                                   <=> handler[d] \in {"failed", "expired"}
      BY <1>0, <3>1 DEF TypeOK
    <3>3. gateVerdict' = gateVerdict
      BY <3>1, <3>2 DEF gateVerdict, VerdictOf
    <3>4. gateStage' = gateStage /\ gateAnswer' = gateAnswer
      BY <1>0, <3>1 DEF gateStage, gateAnswer, Answer, TypeOK
    <3> QED
      BY <3>3, <3>4 DEF Gate!vars
  <2>2. ASSUME ThreadStep(c), ~Elapse(c)
        PROVE  /\ Open(c) /\ handler'[c] \in Answer /\ channel'[c] = "empty"
               /\ \A d \in Connection \ {c} :
                     handler'[d] = handler[d] /\ audit'[d] = audit[d] /\ channel'[d] = channel[d]
    BY <1>0, <2>2 DEF ThreadStep, ReceiveApproved, ReceiveRefusal, TimeoutRequest, Finish,
                      Record, Answer, TypeOK
  <2>3. CASE ReceiveApproved(c)
    <3>1. /\ channel[c] = "Approved" /\ audit' = audit
          /\ handler'[c] \in {"released", "failed"}
          /\ \E a \in Approval : a \in audit[c]
      BY <1>0, <2>3 DEF ReceiveApproved, Finish, TypeOK, ResolutionsMatchActivity
    <3>2. /\ gateStage[c] = "asked"
          /\ gateStage'[c] = "answered"
          /\ gateAnswer'[c] \in {"value", "refusal"}
      BY <2>3, <3>1 DEF ReceiveApproved, gateStage, gateAnswer, Answer
    <3>5. gateVerdict[c] = "approved" /\ gateVerdict'[c] = "approved"
      BY <3>1, VerdictCases DEF gateVerdict
    <3>3. ~Elapse(c) /\ ThreadStep(c)
      BY <2>3, <3>1 DEF Elapse, ThreadStep
    <3>4. Gate!Reply(c)
      BY <2>2, <3>2, <3>3, <3>5, OneClient DEF Gate!Reply
    <3> QED
      BY <3>4 DEF Gate!Next
  <2>4. CASE ReceiveRefusal(c)
    <3>1. /\ audit' = audit /\ ~Elapse(c) /\ ThreadStep(c) /\ handler[c] = "waiting"
          /\ \/ channel[c] = "Denied" /\ audit[c] = {"Denied"} /\ handler'[c] = "refused"
             \/ channel[c] = "Failed" /\ audit[c] = {} /\ handler'[c] = "failed"
      BY <1>0, <2>4 DEF ReceiveRefusal, Finish, TypeOK, ResolutionsMatchActivity, Elapse, ThreadStep
    <3>2. /\ gateStage[c] = "asked" /\ gateStage'[c] = "answered" /\ gateAnswer'[c] = "refusal"
      BY <2>2, <3>1 DEF gateStage, gateAnswer, Answer
    <3>3. gateVerdict[c] \in {"denied", "void"} /\ gateVerdict'[c] = gateVerdict[c]
      BY <2>2, <3>1, VerdictCases DEF gateVerdict
    <3>4. Gate!Reply(c)
      BY <2>2, <3>1, <3>2, <3>3, OneClient DEF Gate!Reply
    <3> QED
      BY <3>4 DEF Gate!Next
  <2>5. CASE TimeoutRequest(c)
    <3>1. ~Elapse(c) /\ ThreadStep(c) /\ handler[c] = "elapsed" /\ handler'[c] = "expired"
      BY <1>0, <2>5 DEF TimeoutRequest, Finish, TypeOK, Elapse, ThreadStep
    <3>2. gateStage[c] = "asked" /\ gateStage'[c] = "answered" /\ gateAnswer'[c] = "refusal"
      BY <3>1 DEF gateStage, gateAnswer, Answer
    <3>3. CASE c \in pending
      <4>1. audit[c] = {} /\ channel[c] = "empty" /\ audit'[c] = audit[c] \cup {"TimedOut"}
        BY <1>0, <2>5, <3>3 DEF TimeoutRequest, Record, AnswersMatchActivity
      <4>2. audit'[c] = {"TimedOut"}
        BY <4>1
      <4>3. gateVerdict[c] = "none" /\ gateVerdict'[c] = "void"
        BY <3>1, <4>1, <4>2, <2>2, VerdictCases DEF gateVerdict
      <4>4. Gate!Becomes(c, "answered", "void", "refusal")
        BY <2>2, <3>1, <3>2, <4>3, OneClient
      <4>5. Gate!GiveUp(c, {})
        <5>1. gateVerdict' = [d \in Connection |-> IF d = c THEN "void" ELSE gateVerdict[d]]
          BY <4>4 DEF Gate!Becomes, gateVerdict
        <5> QED
          BY <3>2, <4>3, <4>4, <5>1 DEF Gate!Becomes, Gate!GiveUp
      <4> QED
        BY <4>5 DEF Gate!Next
    <3>4. CASE c \notin pending
      <4>1. audit'[c] = audit[c] /\ channel[c] \in Resolution
        BY <1>0, <2>5, <3>1, <3>4 DEF TimeoutRequest, Record, TypeOK
      <4>2. \/ \E a \in Approval : audit[c] = {a}
            \/ audit[c] = {"Denied"}
            \/ audit[c] = {} /\ channel[c] = "Failed"
        BY <1>0, <4>1 DEF Resolution, ResolutionsMatchActivity
      <4>3. gateVerdict[c] # "none" /\ gateVerdict'[c] = gateVerdict[c]
        BY <3>1, <4>1, <4>2, <2>2, VerdictCases DEF gateVerdict
      <4>4. Gate!Reply(c)
        BY <2>2, <3>1, <3>2, <4>3, OneClient DEF Gate!Reply
      <4> QED
        BY <4>4 DEF Gate!Next
    <3> QED
      BY <3>3, <3>4
  <2> QED
    BY <1>3, <2>1, <2>3, <2>4, <2>5 DEF ThreadStep
<1>4. CASE Unlock
  <2> DEFINE failed == {d \in waiting : request[d].secret \notin disk}
  <2>1. /\ failed \subseteq pending /\ handler' = handler /\ audit' = audit
        /\ \A d \in Connection \ failed : channel'[d] = channel[d]
        /\ \A d \in Connection \cap failed : channel'[d] = "Failed"
    BY <1>4 DEF Unlock, Consistent
  <2>2. \A d \in failed : audit[d] = {} /\ d \in Connection
    BY <1>0, <2>1 DEF AnswersMatchActivity, TypeOK
  <2>3. \A d \in failed : gateVerdict'[d] = "void"
    BY <2>1, <2>2, VerdictCases DEF gateVerdict
  <2> HIDE DEF failed
  <2> QED
    BY <2>1, <2>3, Verdict
<1>5. CASE Lock
  <2>1. /\ handler' = handler
        /\ \A d \in Connection \ pending : audit'[d] = audit[d] /\ channel'[d] = channel[d]
        /\ \A d \in pending : d \in Connection /\ audit'[d] = audit[d] \cup {"Denied"}
    BY <1>0, <1>5 DEF Lock, Resolve, Record, TypeOK
  <2>2. \A d \in pending : audit'[d] = {"Denied"}
    BY <1>0, <2>1 DEF AnswersMatchActivity
  <2>3. \A d \in pending : gateVerdict'[d] = "denied"
    BY <2>1, <2>2, VerdictCases DEF gateVerdict
  <2> QED
    BY <2>1, <2>3, Verdict
<1>6. CASE Quiet
  BY <1>6 DEF Quiet, queueVars, gateStage, gateVerdict, gateAnswer, Gate!vars
<1> QED
  BY <1>0, <1>1, <1>2, <1>3, <1>4, <1>5, <1>6, StepKinds

\* What clients see of the request path is what ApprovalGate promises: one
\* final verdict per question, and a value only on an approving one.
THEOREM SecretAccessIsGated == Spec => Gate!Safety
<1>1. Init => Gate!Init
  BY VerdictCases DEF Init, Gate!Init, gateStage, gateVerdict, gateAnswer, Open, Answer
<1>2. Consistent /\ Consistent' /\ [Next]_vars => [Gate!Next]_(Gate!vars)
  BY GateStep
<1> QED
  BY <1>1, <1>2, ConsistentAlways, PTL DEF Spec, Gate!Safety

-----------------------------------------------------------------------------
\* The mapped variables are functions of the connections.
LEMMA GateViews ==
    /\ gateStage = [d \in Connection |-> gateStage[d]]
    /\ gateVerdict = [d \in Connection |-> gateVerdict[d]]
    /\ gateAnswer = [d \in Connection |-> gateAnswer[d]]
BY DEF gateStage, gateVerdict, gateAnswer

\* A move of one exchange leaves the others where they are.
LEMMA OneExchange ==
    ASSUME NEW c \in Connection, NEW s, NEW v, NEW a, Gate!Becomes(c, s, v, a)
    PROVE  /\ gateStage'[c] = s /\ gateVerdict'[c] = v /\ gateAnswer'[c] = a
           /\ \A d \in Connection \ {c} : /\ gateVerdict'[d] = gateVerdict[d]
                                          /\ gateAnswer'[d] = gateAnswer[d]
BY GateViews DEF Gate!Becomes

\* Every step of the gate keeps the link between values and verdicts, and leaves
\* the verdict on an open question alone.
LEMMA GateInvariantStep ==
    ASSUME [Gate!Next]_(Gate!vars), Gate!ValuesAreApproved
    PROVE  /\ Gate!ValuesAreApproved'
           /\ \A c \in Connection : gateStage[c] = "asked" =>
                 /\ gateVerdict[c] # "none" => gateVerdict'[c] = gateVerdict[c]
                 /\ gateAnswer'[c] = "value" => gateVerdict[c] = "approved"
<1> DEFINE Goal == /\ Gate!ValuesAreApproved'
                   /\ \A c \in Connection : gateStage[c] = "asked" =>
                         /\ gateVerdict[c] # "none" => gateVerdict'[c] = gateVerdict[c]
                         /\ gateAnswer'[c] = "value" => gateVerdict[c] = "approved"
<1> USE DEF Gate!ValuesAreApproved
<1>1. ASSUME NEW c \in Connection, Gate!Ask(c) PROVE Goal
  BY <1>1, OneExchange DEF Gate!Ask
<1>2. ASSUME NEW c \in Connection, Gate!AskAndAnswer(c) PROVE Goal
  BY <1>2, OneExchange DEF Gate!AskAndAnswer
<1>3. ASSUME NEW c \in Connection, Gate!Reply(c) PROVE Goal
  BY <1>3, OneExchange DEF Gate!Reply
<1>4. ASSUME NEW c \in Connection, NEW C \in SUBSET Connection, Gate!GiveUp(c, C) PROVE Goal
  <2>1. /\ gateAnswer'[c] = "refusal"
        /\ \A d \in Connection \ {c} : gateAnswer'[d] = gateAnswer[d]
    BY <1>4, GateViews DEF Gate!GiveUp
  <2>2. \A d \in Connection \ (C \cup {c}) : gateVerdict'[d] = gateVerdict[d]
    BY <1>4 DEF Gate!GiveUp
  <2>3. \A d \in C \cup {c} : gateVerdict[d] = "none"
    BY <1>4 DEF Gate!GiveUp
  <2> QED
    BY <2>1, <2>2, <2>3
<1>5. ASSUME NEW C \in SUBSET Connection, NEW v, Gate!Judge(C, v) PROVE Goal
  <2>1. /\ gateAnswer' = gateAnswer
        /\ \A d \in Connection \ C : gateVerdict'[d] = gateVerdict[d]
        /\ \A d \in C : gateVerdict[d] = "none"
    BY <1>5 DEF Gate!Judge
  <2> QED
    BY <2>1
<1>6. CASE UNCHANGED Gate!vars
  BY <1>6 DEF Gate!vars
<1> QED
  BY <1>1, <1>2, <1>3, <1>4, <1>5, <1>6 DEF Gate!Next

\* What the promise means to a client: no value without an approving verdict,
\* and no verdict on an open question that changes.
THEOREM PromiseIsKept == Gate!Safety => []Gate!ValuesAreApproved /\ Gate!VerdictsStand
<1>1. Gate!Init => Gate!ValuesAreApproved
  BY DEF Gate!Init, Gate!ValuesAreApproved
<1>2. Gate!ValuesAreApproved /\ [Gate!Next]_(Gate!vars) =>
         /\ Gate!ValuesAreApproved'
         /\ \A c \in Connection : gateStage[c] = "asked" =>
               /\ gateVerdict[c] # "none" => gateVerdict'[c] = gateVerdict[c]
               /\ gateAnswer'[c] = "value" => gateVerdict[c] = "approved"
  BY GateInvariantStep
<1> QED
  BY <1>1, <1>2, PTL DEF Gate!Safety, Gate!VerdictsStand

\* No secret leaves without an approval, and none is approved after it was denied.
THEOREM ClientsGetWhatWasDecided == Spec => []Gate!ValuesAreApproved /\ Gate!VerdictsStand
BY SecretAccessIsGated, PromiseIsKept, PTL

=================================================================================
