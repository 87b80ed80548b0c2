------------------------------ MODULE AwsGateProofs ------------------------------
(***************************************************************************)
(* AwsAccess implements the safety part of ApprovalGate, for every value   *)
(* of its constants, although one client's timeout may settle others.      *)
(***************************************************************************)
EXTENDS AwsAccessProofs

\* An approving entry is an approval, a denial entry alone a denial; with no
\* such entry a refusal sent or given is an outcome nobody decided.
LEMMA VerdictCases ==
    ASSUME NEW entries, NEW sent, NEW state
    PROVE  /\ (\E a \in Approval : entries = {a}) => VerdictOf(entries, sent, state) = "approved"
           /\ entries = {"Denied"} => VerdictOf(entries, sent, state) = "denied"
           /\ entries \in {{}, {"TimedOut"}}
                /\ (sent = "Denied" \/ state \in {"refused", "failed", "expired"})
                => VerdictOf(entries, sent, state) = "void"
           /\ entries = {} /\ sent # "Denied" /\ state \notin {"refused", "failed", "expired"}
                => VerdictOf(entries, sent, state) = "none"
<1> USE DEF VerdictOf
<1>1. ASSUME NEW a \in Approval, entries = {a} PROVE VerdictOf(entries, sent, state) = "approved"
  BY <1>1
<1>2. ASSUME entries \in {{}, {"TimedOut"}, {"Denied"}} PROVE \A a \in Approval : a \notin entries
  BY <1>2 DEF Approval
<1>3. ASSUME entries = {"Denied"} PROVE VerdictOf(entries, sent, state) = "denied"
  <2>1. "Denied" \in entries
    BY <1>3
  <2> QED
    BY <1>2, <1>3, <2>1
<1>4. ASSUME entries \in {{}, {"TimedOut"}} PROVE "Denied" \notin entries
  BY <1>4
<1> QED
  BY <1>1, <1>2, <1>3, <1>4

\* The gate's view of a client depends on that client's own variables only.
LEMMA ViewIsLocal ==
    ASSUME NEW d \in Connection,
           handler'[d] = handler[d], audit'[d] = audit[d], channel'[d] = channel[d]
    PROVE  /\ gateStage'[d] = gateStage[d]
           /\ gateVerdict'[d] = gateVerdict[d]
           /\ gateAnswer'[d] = gateAnswer[d]
BY DEF gateStage, gateVerdict, gateAnswer, Open

\* A pending request is a question without a verdict.
LEMMA PendingIsUndecided ==
    ASSUME Consistent, NEW d \in pending
    PROVE  d \in Connection /\ gateStage[d] = "asked" /\ gateVerdict[d] = "none"
<1>1. d \in Connection
  BY DEF Consistent, TypeOK
<1>2. Open(d) /\ channel[d] = "empty" /\ audit[d] = {}
  BY <1>1 DEF Consistent, NoLostResolution, AnswersMatchActivity
<1> QED
  BY <1>1, <1>2, VerdictCases DEF gateStage, gateVerdict, Open

\* A step that leaves every other client alone moves the gate as it moves
\* this client's view.
LEMMA OneClient ==
    ASSUME NEW c \in Connection, NEW s, NEW v, NEW a,
           \A d \in Connection \ {c} :
              handler'[d] = handler[d] /\ audit'[d] = audit[d] /\ channel'[d] = channel[d],
           gateStage'[c] = s, gateVerdict'[c] = v, gateAnswer'[c] = a
    PROVE  Gate!Becomes(c, s, v, a)
<1>1. \A d \in Connection \ {c} : /\ gateStage'[d] = gateStage[d]
                                  /\ gateVerdict'[d] = gateVerdict[d]
                                  /\ gateAnswer'[d] = gateAnswer[d]
  BY ViewIsLocal
<1>2. \A f, g : f = [d \in Connection |-> f[d]] /\ g = [d \in Connection |-> g[d]]
                  /\ (\A d \in Connection \ {c} : g[d] = f[d])
                => g = [f EXCEPT ![c] = g[c]]
  OBVIOUS
<1>3. /\ gateStage   = [d \in Connection |-> gateStage[d]]
      /\ gateVerdict = [d \in Connection |-> gateVerdict[d]]
      /\ gateAnswer  = [d \in Connection |-> gateAnswer[d]]
      /\ gateStage'   = [d \in Connection |-> gateStage'[d]]
      /\ gateVerdict' = [d \in Connection |-> gateVerdict'[d]]
      /\ gateAnswer'  = [d \in Connection |-> gateAnswer'[d]]
  BY DEF gateStage, gateVerdict, gateAnswer
<1>4. /\ gateStage'   = [gateStage EXCEPT ![c] = s]
      /\ gateVerdict' = [gateVerdict EXCEPT ![c] = v]
      /\ gateAnswer'  = [gateAnswer EXCEPT ![c] = a]
  BY <1>1, <1>2, <1>3
<1> QED
  BY <1>4 DEF Gate!Becomes

\* A decision about pending requests is a verdict on them.
LEMMA Verdict ==
    ASSUME Consistent,
           NEW C \in SUBSET pending, NEW v \in {"approved", "denied", "void"},
           handler' = handler,
           \A d \in Connection \ C : audit'[d] = audit[d] /\ channel'[d] = channel[d],
           \A d \in C : gateVerdict'[d] = v
    PROVE  Gate!Next
<1>1. C \subseteq Connection
  BY DEF Consistent, TypeOK
<1>2. \A d \in C : gateStage[d] = "asked" /\ gateVerdict[d] = "none"
  BY PendingIsUndecided
<1>3. gateVerdict' = [d \in Connection |-> IF d \in C THEN v ELSE gateVerdict[d]]
  <2>1. \A d \in Connection \ C : gateVerdict'[d] = gateVerdict[d]
    BY ViewIsLocal
  <2>2. gateVerdict' = [d \in Connection |-> gateVerdict'[d]]
    BY DEF gateVerdict
  <2> QED
    BY <1>1, <2>1, <2>2
<1>4. gateStage' = gateStage /\ gateAnswer' = gateAnswer
  BY DEF gateStage, gateAnswer, Open
<1>5. Gate!Judge(C, v)
  BY <1>2, <1>3, <1>4 DEF Gate!Judge
<1> QED
  BY <1>1, <1>5 DEF Gate!Next

\* begin_aws_request() asks, or answers at once.
LEMMA AskingStep ==
    ASSUME TypeOK, NoLostResolution, NEW c \in Connection, Asking(c)
    PROVE  Gate!Next
<1>1. PICK r \in Request :
         BeginDenied(c, r) \/ BeginUnknown(c, r) \/ BeginAllowed(c, r) \/ BeginQueued(c, r)
  BY DEF Asking
<1>2. /\ ~Open(c) /\ channel[c] = "empty" /\ channel'[c] = "empty"
      /\ \A d \in Connection \ {c} :
            handler'[d] = handler[d] /\ audit'[d] = audit[d] /\ channel'[d] = channel[d]
  BY <1>1 DEF TypeOK, NoLostResolution, BeginDenied, BeginUnknown, BeginAllowed, BeginQueued,
              Begin, queueVars
<1>3. gateStage[c] # "asked"
  BY <1>2 DEF gateStage
<1>4. CASE BeginQueued(c, r)
  <2>1. handler'[c] = "waiting" /\ audit'[c] = {}
    BY <1>4 DEF TypeOK, BeginQueued, Begin
  <2>2. gateStage'[c] = "asked" /\ gateVerdict'[c] = "none" /\ gateAnswer'[c] = "none"
    BY <1>2, <2>1, VerdictCases DEF gateStage, gateVerdict, gateAnswer, Answer, Level, Open
  <2>3. Gate!Ask(c)
    BY <1>2, <1>3, <2>2, OneClient DEF Gate!Ask
  <2> QED
    BY <2>3 DEF Gate!Next
<1>5. CASE BeginDenied(c, r) \/ BeginUnknown(c, r)
  <2>1. handler'[c] \in {"refused", "failed"} /\ audit'[c] = {}
    BY <1>5 DEF TypeOK, BeginDenied, BeginUnknown, Begin
  <2>2. gateStage'[c] = "answered" /\ gateVerdict'[c] = "void" /\ gateAnswer'[c] = "refusal"
    BY <1>2, <2>1, VerdictCases DEF gateStage, gateVerdict, gateAnswer, Answer, Level, Open
  <2>3. Gate!AskAndAnswer(c)
    BY <1>2, <1>3, <2>2, OneClient DEF Gate!AskAndAnswer
  <2> QED
    BY <2>3 DEF Gate!Next
<1>6. CASE BeginAllowed(c, r)
  <2>1. PICK e \in Pruned : Begin(c, r, e.level, {"AutoGranted"})
    BY <1>6 DEF BeginAllowed
  <2>2. handler'[c] \in Level /\ audit'[c] = {"AutoGranted"} /\ "AutoGranted" \in Approval
    BY <2>1 DEF TypeOK, Begin, Pruned, Decision, Approval
  <2>3. gateStage'[c] = "answered" /\ gateVerdict'[c] = "approved" /\ gateAnswer'[c] = "value"
    BY <1>2, <2>2, VerdictCases DEF gateStage, gateVerdict, gateAnswer, Level, Open
  <2>4. Gate!AskAndAnswer(c)
    BY <1>2, <1>3, <2>3, OneClient DEF Gate!AskAndAnswer
  <2> QED
    BY <2>4 DEF Gate!Next
<1> QED
  BY <1>1, <1>4, <1>5, <1>6

\* respond_aws() and dismiss_aws_request() judge.
LEMMA RespondingStep ==
    ASSUME Consistent, NEW c \in Connection, Responding(c)
    PROVE  Gate!Next
<1>1. PICK C \in SUBSET pending, resolution \in Level \cup {"Denied"} :
         /\ Resolve(C, resolution)
         /\ handler' = handler
         /\ \A d \in Connection \ C : audit'[d] = audit[d]
         /\ \A d \in C : \/ resolution = "Denied" /\ audit'[d] = {"Denied"}
                        \/ /\ resolution # "Denied"
                           /\ \E a \in Approval : audit'[d] = {a}
  BY RespondingSettles DEF Consistent
<1>2. C \subseteq Connection /\ \A d \in Connection \ C : channel'[d] = channel[d]
  BY <1>1 DEF Consistent, TypeOK, Resolve
<1>3. CASE resolution = "Denied"
  <2>1. \A d \in C : gateVerdict'[d] = "denied"
    BY <1>1, <1>2, <1>3, VerdictCases DEF gateVerdict
  <2> QED
    BY <1>1, <1>2, <2>1, Verdict
<1>4. CASE resolution # "Denied"
  <2>1. \A d \in C : gateVerdict'[d] = "approved"
    BY <1>1, <1>2, <1>4, VerdictCases DEF gateVerdict
  <2> QED
    BY <1>1, <1>2, <2>1, Verdict
<1> QED
  BY <1>3, <1>4

\* The thread replies, or gives up and takes its siblings with it.
LEMMA ThreadGateStep ==
    ASSUME Consistent, NEW c \in Connection, ThreadStep(c)
    PROVE  [Gate!Next]_(Gate!vars)
<1>0. TypeOK /\ NoLostResolution /\ AnswersMatchActivity /\ ResolutionsMatchActivity
  BY DEF Consistent
<1>1. CASE Elapse(c)
  <2>1. UNCHANGED <<audit, channel>> /\ handler' = [handler EXCEPT ![c] = "elapsed"]
        /\ handler[c] = "waiting"
    BY <1>1 DEF Elapse, queueVars
  <2>2. \A d \in Connection : handler'[d] \in {"refused", "failed", "expired"}
                                 <=> handler[d] \in {"refused", "failed", "expired"}
    BY <1>0, <2>1 DEF TypeOK
  <2>3. gateVerdict' = gateVerdict
    BY <2>1, <2>2 DEF gateVerdict, VerdictOf
  <2>4. gateStage' = gateStage /\ gateAnswer' = gateAnswer
    BY <1>0, <2>1 DEF gateStage, gateAnswer, Answer, Level, Open, TypeOK
  <2> QED
    BY <2>3, <2>4 DEF Gate!vars
<1>2. CASE Receive(c) \/ TimeoutLate(c)
  <2>1. /\ Open(c) /\ channel[c] \in Level \cup {"Denied"} /\ channel'[c] = "empty"
        /\ audit' = audit
        /\ \A d \in Connection \ {c} :
              handler'[d] = handler[d] /\ audit'[d] = audit[d] /\ channel'[d] = channel[d]
        /\ \/ handler'[c] = channel[c] /\ channel[c] \in Level
           \/ handler'[c] \in {"refused", "expired"}
    BY <1>0, <1>2 DEF TypeOK, NoLostResolution, Open, Receive, TimeoutLate, Finish
  <2>2. gateStage[c] = "asked" /\ gateStage'[c] = "answered"
    BY <2>1 DEF gateStage, Open, Level
  <2>3. CASE channel[c] \in Level
    <3>1. gateVerdict[c] = "approved" /\ gateVerdict'[c] = "approved"
      BY <1>0, <2>1, <2>3, VerdictCases DEF ResolutionsMatchActivity, gateVerdict
    <3>2. gateAnswer'[c] \in {"value", "refusal"}
      BY <2>1 DEF gateAnswer, Answer, Level
    <3>3. Gate!Reply(c)
      BY <2>1, <2>2, <3>1, <3>2, OneClient DEF Gate!Reply
    <3> QED
      BY <3>3 DEF Gate!Next
  <2>4. CASE channel[c] = "Denied"
    <3>1. handler'[c] \in {"refused", "expired"}
      BY <2>1, <2>4 DEF Level
    <3>2. audit[c] = {} \/ audit[c] = {"Denied"}
      BY <1>0, <2>4 DEF ResolutionsMatchActivity
    <3>3. gateVerdict[c] \in {"denied", "void"} /\ gateVerdict'[c] = gateVerdict[c]
      BY <2>1, <2>4, <3>1, <3>2, VerdictCases DEF gateVerdict
    <3>4. gateAnswer'[c] = "refusal"
      BY <3>1 DEF gateAnswer, Answer, Level
    <3>5. Gate!Reply(c)
      BY <2>1, <2>2, <3>3, <3>4, OneClient DEF Gate!Reply
    <3> QED
      BY <3>5 DEF Gate!Next
  <2> QED
    BY <2>1, <2>3, <2>4
<1>3. CASE TimeoutRequest(c)
  <2>1. PICK others \in SUBSET (pending \ {c}) :
           /\ channel' = [d \in Connection |-> IF d \in others THEN "Denied" ELSE channel[d]]
           /\ handler' = [handler EXCEPT ![c] = "expired"]
           /\ Record(c, "TimedOut", others, "Denied")
    BY <1>3 DEF TimeoutRequest, PendingWithin
  <2>2. /\ c \in pending /\ c \notin others /\ others \in SUBSET Connection
        /\ \A d \in others \cup {c} : audit[d] = {}
    BY <1>0, <1>3, <2>1 DEF TimeoutRequest, AnswersMatchActivity, TypeOK
  <2>3. \A d \in others \cup {c} : gateStage[d] = "asked" /\ gateVerdict[d] = "none"
    BY <2>1, <2>2, PendingIsUndecided
  <2>4. /\ handler'[c] = "expired" /\ audit'[c] = {"TimedOut"}
        /\ \A d \in others : handler'[d] = handler[d] /\ audit'[d] = {"Denied"}
        /\ \A d \in Connection \ (others \cup {c}) :
              handler'[d] = handler[d] /\ audit'[d] = audit[d] /\ channel'[d] = channel[d]
    BY <1>0, <2>1, <2>2 DEF Record, TypeOK
  <2>5. gateVerdict'[c] = "void" /\ \A d \in others : gateVerdict'[d] = "denied"
    BY <2>2, <2>4, VerdictCases DEF gateVerdict
  <2>6. \A d \in Connection \ (others \cup {c}) : gateVerdict'[d] = gateVerdict[d]
    BY <2>4, ViewIsLocal
  <2>7. gateVerdict' = [d \in Connection |-> IF d = c THEN "void"
                                             ELSE IF d \in others THEN "denied"
                                             ELSE gateVerdict[d]]
    <3>1. gateVerdict' = [d \in Connection |-> gateVerdict'[d]]
      BY DEF gateVerdict
    <3> QED
      BY <2>5, <2>6, <3>1
  <2>8. /\ gateStage' = [gateStage EXCEPT ![c] = "answered"]
        /\ gateAnswer' = [gateAnswer EXCEPT ![c] = "refusal"]
    BY <1>0, <2>1 DEF gateStage, gateAnswer, Open, Answer, Level, TypeOK
  <2>9. Gate!GiveUp(c, others)
    BY <2>2, <2>3, <2>7, <2>8 DEF Gate!GiveUp
  <2> QED
    BY <2>2, <2>9 DEF Gate!Next
<1> QED
  BY <1>1, <1>2, <1>3 DEF ThreadStep

\* Every step of AwsAccess is a step of the gate, or none.
LEMMA GateStep ==
    ASSUME Consistent, [Next]_vars
    PROVE  [Gate!Next]_(Gate!vars)
<1>0. TypeOK /\ NoLostResolution /\ AnswersMatchActivity
  BY DEF Consistent
<1>1. ASSUME NEW c \in Connection, Asking(c) PROVE Gate!Next
  BY <1>0, <1>1, AskingStep
<1>2. ASSUME NEW c \in Connection, Responding(c) PROVE Gate!Next
  BY <1>2, RespondingStep
<1>3. ASSUME NEW c \in Connection, ThreadStep(c) PROVE [Gate!Next]_(Gate!vars)
  BY <1>3, ThreadGateStep
<1>4. CASE Lock
  <2>1. /\ handler' = handler /\ audit' = audit
        /\ \A d \in Connection \ pending : channel'[d] = channel[d]
        /\ \A d \in pending : d \in Connection /\ channel'[d] = "Denied" /\ audit[d] = {}
    BY <1>0, <1>4 DEF Lock, Resolve, slotVars, TypeOK, AnswersMatchActivity
  <2>2. \A d \in pending : gateVerdict'[d] = "void"
    BY <2>1, VerdictCases DEF gateVerdict
  <2> QED
    BY <2>1, <2>2, Verdict
<1>5. CASE Unlock \/ Quiet
  BY <1>5 DEF Unlock, Quiet, queueVars, slotVars, gateStage, gateVerdict, gateAnswer, Open, Gate!vars
<1> QED
  BY <1>0, <1>1, <1>2, <1>3, <1>4, <1>5, StepKinds

\* What clients see of AWS requests is what ApprovalGate promises: one final
\* verdict per question, and credentials only on an approving one.
THEOREM AwsAccessIsGated == Spec => Gate!Safety
<1>1. Init => Gate!Init
  BY VerdictCases DEF Init, Gate!Init, gateStage, gateVerdict, gateAnswer, Open, Answer, Level
<1>2. Consistent /\ [Next]_vars => [Gate!Next]_(Gate!vars)
  BY GateStep
<1> QED
  BY <1>1, <1>2, ConsistentAlways, PTL DEF Spec, Gate!Safety

-----------------------------------------------------------------------------
\* The mapped variables are functions of the connections.
LEMMA GateViews ==
    /\ gateStage = [d \in Connection |-> gateStage[d]]
    /\ gateVerdict = [d \in Connection |-> gateVerdict[d]]
    /\ gateAnswer = [d \in Connection |-> gateAnswer[d]]
BY DEF gateStage, gateVerdict, gateAnswer

\* A move of one exchange leaves the others where they are.
LEMMA OneExchange ==
    ASSUME NEW c \in Connection, NEW s, NEW v, NEW a, Gate!Becomes(c, s, v, a)
    PROVE  /\ gateStage'[c] = s /\ gateVerdict'[c] = v /\ gateAnswer'[c] = a
           /\ \A d \in Connection \ {c} : /\ gateVerdict'[d] = gateVerdict[d]
                                          /\ gateAnswer'[d] = gateAnswer[d]
BY GateViews DEF Gate!Becomes

\* Every step of the gate keeps the link between values and verdicts, and leaves
\* the verdict on an open question alone.
LEMMA GateInvariantStep ==
    ASSUME [Gate!Next]_(Gate!vars), Gate!ValuesAreApproved
    PROVE  /\ Gate!ValuesAreApproved'
           /\ \A c \in Connection : gateStage[c] = "asked" =>
                 /\ gateVerdict[c] # "none" => gateVerdict'[c] = gateVerdict[c]
                 /\ gateAnswer'[c] = "value" => gateVerdict[c] = "approved"
<1> DEFINE Goal == /\ Gate!ValuesAreApproved'
                   /\ \A c \in Connection : gateStage[c] = "asked" =>
                         /\ gateVerdict[c] # "none" => gateVerdict'[c] = gateVerdict[c]
                         /\ gateAnswer'[c] = "value" => gateVerdict[c] = "approved"
<1> USE DEF Gate!ValuesAreApproved
<1>1. ASSUME NEW c \in Connection, Gate!Ask(c) PROVE Goal
  BY <1>1, OneExchange DEF Gate!Ask
<1>2. ASSUME NEW c \in Connection, Gate!AskAndAnswer(c) PROVE Goal
  BY <1>2, OneExchange DEF Gate!AskAndAnswer
<1>3. ASSUME NEW c \in Connection, Gate!Reply(c) PROVE Goal
  BY <1>3, OneExchange DEF Gate!Reply
<1>4. ASSUME NEW c \in Connection, NEW C \in SUBSET Connection, Gate!GiveUp(c, C) PROVE Goal
  <2>1. /\ gateAnswer'[c] = "refusal"
        /\ \A d \in Connection \ {c} : gateAnswer'[d] = gateAnswer[d]
    BY <1>4, GateViews DEF Gate!GiveUp
  <2>2. \A d \in Connection \ (C \cup {c}) : gateVerdict'[d] = gateVerdict[d]
    BY <1>4 DEF Gate!GiveUp
  <2>3. \A d \in C \cup {c} : gateVerdict[d] = "none"
    BY <1>4 DEF Gate!GiveUp
  <2> QED
    BY <2>1, <2>2, <2>3
<1>5. ASSUME NEW C \in SUBSET Connection, NEW v, Gate!Judge(C, v) PROVE Goal
  <2>1. /\ gateAnswer' = gateAnswer
        /\ \A d \in Connection \ C : gateVerdict'[d] = gateVerdict[d]
        /\ \A d \in C : gateVerdict[d] = "none"
    BY <1>5 DEF Gate!Judge
  <2> QED
    BY <2>1
<1>6. CASE UNCHANGED Gate!vars
  BY <1>6 DEF Gate!vars
<1> QED
  BY <1>1, <1>2, <1>3, <1>4, <1>5, <1>6 DEF Gate!Next

\* What the promise means to a client: no value without an approving verdict,
\* and no verdict on an open question that changes.
THEOREM PromiseIsKept == Gate!Safety => []Gate!ValuesAreApproved /\ Gate!VerdictsStand
<1>1. Gate!Init => Gate!ValuesAreApproved
  BY DEF Gate!Init, Gate!ValuesAreApproved
<1>2. Gate!ValuesAreApproved /\ [Gate!Next]_(Gate!vars) =>
         /\ Gate!ValuesAreApproved'
         /\ \A c \in Connection : gateStage[c] = "asked" =>
               /\ gateVerdict[c] # "none" => gateVerdict'[c] = gateVerdict[c]
               /\ gateAnswer'[c] = "value" => gateVerdict[c] = "approved"
  BY GateInvariantStep
<1> QED
  BY <1>1, <1>2, PTL DEF Gate!Safety, Gate!VerdictsStand

\* No level is given without an approval, and none is approved after it was denied.
THEOREM ClientsGetWhatWasDecided == Spec => []Gate!ValuesAreApproved /\ Gate!VerdictsStand
BY AwsAccessIsGated, PromiseIsKept, PTL

==================================================================================
