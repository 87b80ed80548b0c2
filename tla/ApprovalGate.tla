----------------------------- MODULE ApprovalGate -----------------------------
(***************************************************************************)
(* What a client of secretd is promised, with nothing of how it is done:   *)
(* every question gets at most one verdict, the verdict never changes      *)
(* while the question is open, a value is given only on an approving one,  *)
(* and every question is answered.  An approving verdict may still end in  *)
(* a refusal, because what it approved may be gone when it is used.        *)
(***************************************************************************)
CONSTANT Client

VARIABLES stage,    \* "idle", "asked" or "answered"
          verdict,  \* "none", "approved", "denied", or "void": nobody decided
          answer    \* "none", "value" or "refusal"

vars == <<stage, verdict, answer>>

Init ==
    /\ stage = [c \in Client |-> "idle"]
    /\ verdict = [c \in Client |-> "none"]
    /\ answer = [c \in Client |-> "none"]

\* Client c's exchange moves to the given stage, verdict and answer.
Becomes(c, s, v, a) ==
    /\ stage' = [stage EXCEPT ![c] = s]
    /\ verdict' = [verdict EXCEPT ![c] = v]
    /\ answer' = [answer EXCEPT ![c] = a]

Ask(c) ==
    /\ stage[c] # "asked"
    /\ Becomes(c, "asked", "none", "none")

\* A question that needs no asking: permitted already, or meaningless.
AskAndAnswer(c) ==
    /\ stage[c] # "asked"
    /\ \/ Becomes(c, "answered", "approved", "value")
       \/ Becomes(c, "answered", "void", "refusal")

\* One verdict settles any number of open questions.
Judge(C, v) ==
    /\ \A c \in C : stage[c] = "asked" /\ verdict[c] = "none"
    /\ verdict' = [c \in Client |-> IF c \in C THEN v ELSE verdict[c]]
    /\ UNCHANGED <<stage, answer>>

Reply(c) ==
    /\ stage[c] = "asked"
    /\ verdict[c] # "none"
    /\ \/ Becomes(c, "answered", verdict[c], "refusal")
       \/ /\ verdict[c] = "approved"
          /\ Becomes(c, "answered", "approved", "value")

\* Nobody decided in time.  That may be taken for a denial of others too.
GiveUp(c, C) ==
    /\ c \notin C
    /\ \A d \in C \cup {c} : stage[d] = "asked" /\ verdict[d] = "none"
    /\ stage' = [stage EXCEPT ![c] = "answered"]
    /\ answer' = [answer EXCEPT ![c] = "refusal"]
    /\ verdict' = [d \in Client |-> IF d = c THEN "void"
                                   ELSE IF d \in C THEN "denied" ELSE verdict[d]]

Next ==
    \/ \E c \in Client : Ask(c) \/ AskAndAnswer(c) \/ Reply(c)
    \/ \E c \in Client, C \in SUBSET Client : GiveUp(c, C)
    \/ \E C \in SUBSET Client, v \in {"approved", "denied", "void"} : Judge(C, v)

\* The promise without its liveness.
Safety == Init /\ [][Next]_vars

Fairness == \A c \in Client : WF_vars(Reply(c) \/ \E C \in SUBSET Client : GiveUp(c, C))

Spec == Init /\ [][Next]_vars /\ Fairness

-----------------------------------------------------------------------------
(* What the promise says of every exchange, whoever keeps it.              *)

\* A client holds a value only on an approving verdict.
ValuesAreApproved == \A c \in Client : answer[c] = "value" => verdict[c] = "approved"

\* The verdict on an open question stands, whatever else happens to it and to
\* other questions, and a value answers it only once the verdict approves.
VerdictsStand ==
    [][\A c \in Client : stage[c] = "asked" =>
          /\ verdict[c] # "none" => verdict'[c] = verdict[c]
          /\ answer'[c] = "value" => verdict[c] = "approved"]_vars
=============================================================================
