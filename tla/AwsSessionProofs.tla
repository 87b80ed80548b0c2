--------------------------- MODULE AwsSessionProofs ---------------------------
(***************************************************************************)
(* Proofs about AwsSession: its types, the status and the tokens, for any  *)
(* number of threads, connections, accounts and issued tokens.             *)
(***************************************************************************)
EXTENDS AwsSession, TLAPS

\* Where a thread has settings to work on.
Working == {"fetch", "fetched", "refetch", "refetched"} \cup SigningIn

\* A thread is inside an operation exactly while it has the lock, and works on
\* settings it loaded.
OperationsHold ==
    \A t \in Thread : /\ pc[t] \in Holding <=> holder = t
                      /\ pc[t] \in Working => draft[t] # NoSettings

\* A token is one that AWS issued, and issued at the portal of the settings
\* that hold it.
Owned(s) ==
    s.token # NoToken => s.token.portal = s.portal /\ s.token.refresh <= issued

SavedOwned == \A s \in {memory, file} : s # NoSettings => Owned(s)

DraftsOwned == \A t \in Thread : draft[t] # NoSettings => Owned(draft[t])

VaultTypes ==
    /\ unlocked \in BOOLEAN
    /\ memory \in Settings \cup {NoSettings}
    /\ ~unlocked => memory = NoSettings
    /\ file \in Settings \cup {NoSettings}
    /\ \A s \in {memory, file} : s # NoSettings => Valid(s)

ThreadTypes ==
    /\ holder \in Thread \cup {NoThread}
    /\ pc \in [Thread -> Place]
    /\ draft \in [Thread -> Settings \cup {NoSettings}]
    /\ \A t \in Thread : draft[t] # NoSettings => holder = t
    /\ result \in [Thread -> Result]
    /\ granted \in [Helper -> BOOLEAN]

AwsTypes ==
    /\ issued \in 0..MaxIssued
    /\ replaced \subseteq 1..issued
    /\ spoiled \in BOOLEAN

Consistent ==
    /\ VaultTypes /\ SavedOwned
    /\ ThreadTypes /\ OperationsHold /\ DraftsOwned
    /\ AwsTypes
    /\ status \in Status /\ StatusIsBacked

THEOREM ConsistentTypes == Consistent => TypeOK
BY DEF Consistent, VaultTypes, ThreadTypes, AwsTypes, TypeOK

-----------------------------------------------------------------------------
(* What AWS may answer.                                                    *)

\* An answer concerns the portal it was asked for, and holds the token that
\* was sent, none, or the next one.
Answer(s, o) ==
    /\ o.settings \in Settings
    /\ o.result \in Result
    /\ o.token \in {"kept", "replaced", "lost"}
    /\ o.settings.portal = s.portal
    /\ o.token # "kept" => /\ s.token # NoToken /\ s.token.refresh # 0
                           /\ o.settings.token # NoToken
                           /\ issued # MaxIssued
    /\ o.settings.token # NoToken =>
          /\ s.token # NoToken
          /\ o.settings.token.portal = s.token.portal
          /\ o.settings.token.refresh = IF o.token = "replaced" THEN issued + 1
                                        ELSE s.token.refresh

LEMMA RefreshAnswers ==
    ASSUME issued \in 0..MaxIssued, NEW s \in Settings, NEW o \in Refreshed(s)
    PROVE  Answer(s, o)
<1>1. CASE o \in Renewed(s) \/ o = Outcome("expired", s)
      <2>1. o \in {Outcome("ok", s), Outcome("expired", s)}
            BY <1>1 DEF Renewed
      <2>2. QED BY <2>1 DEF Outcome, Answer, Result, Settings
<1>2. CASE o \in Contacted(s)
      <2>1. s.token # NoToken /\ s.token.refresh # 0 /\ s.token \in Token
            BY <1>2 DEF Contacted, Settings
      <2>2. CASE o = Outcome("error", s)
            BY <2>2 DEF Outcome, Answer, Result, Settings
      <2>3. CASE o = Outcome("expired", [s EXCEPT !.token = NoToken])
            BY <2>3 DEF Outcome, Answer, Result, Settings
      <2>4. CASE issued # MaxIssued /\ o = [result |-> "ok", token |-> "replaced",
                     settings |-> [s EXCEPT !.token.refresh = issued + 1]]
            <3>1. DEFINE k == [s.token EXCEPT !.refresh = issued + 1]
            <3>2. k \in Token /\ k.portal = s.token.portal /\ k.refresh = issued + 1
                  BY <2>1, <2>4, IssuedAssumption DEF Token
            <3>3. o.settings = [s EXCEPT !.token = k]
                  BY <2>4 DEF Settings
            <3>4. o.settings \in Settings /\ o.settings.portal = s.portal
                    /\ o.settings.token = k
                  BY <3>2, <3>3 DEF Settings
            <3>5. o.result = "ok" /\ o.token = "replaced"
                  BY <2>4
            <3>6. QED BY <2>1, <2>4, <3>2, <3>4, <3>5, NoneAssumption DEF Answer, Result
      <2>5. CASE issued # MaxIssued /\ o = [result |-> "error", token |-> "lost", settings |-> s]
            BY <2>1, <2>5 DEF Answer, Result, Settings
      <2>6. QED BY <1>2, <2>1, <2>2, <2>3, <2>4, <2>5 DEF Contacted
<1>3. QED BY <1>1, <1>2 DEF Refreshed

LEMMA CredentialsAnswer ==
    ASSUME issued \in 0..MaxIssued, NEW s \in Settings, NEW o \in Credentials(s)
    PROVE  Answer(s, o)
<1>1. CASE o \in Refreshed(s)
      BY <1>1, RefreshAnswers
<1>2. CASE \E p \in Refreshed(s), r \in Result : p.result = "ok" /\ o = [p EXCEPT !.result = r]
      <2>1. PICK p \in Refreshed(s), r \in Result : o = [p EXCEPT !.result = r]
            BY <1>2
      <2>2. Answer(s, p) BY RefreshAnswers
      <2>3. o.settings = p.settings /\ o.token = p.token /\ o.result = r
            BY <2>1 DEF Refreshed, Renewed, Contacted, Outcome
      <2>4. QED BY <2>2, <2>3 DEF Answer
<1>3. QED BY <1>1, <1>2 DEF Credentials, Result

LEMMA DiscoveryAnswers ==
    ASSUME issued \in 0..MaxIssued, NEW s \in Settings, NEW o \in Discovery(s)
    PROVE  Answer(s, o)
<1>1. CASE o \in Refreshed(s)
      BY <1>1, RefreshAnswers
<1>2. CASE \E p \in Refreshed(s), r \in Result : o = [p EXCEPT !.result = r]
      <2>1. PICK p \in Refreshed(s), r \in Result : o = [p EXCEPT !.result = r]
            BY <1>2
      <2>2. Answer(s, p) BY RefreshAnswers
      <2>3. o.settings = p.settings /\ o.token = p.token /\ o.result = r
            BY <2>1 DEF Refreshed, Renewed, Contacted, Outcome
      <2>4. QED BY <2>2, <2>3 DEF Answer
<1>3. CASE \E p \in Refreshed(s), accounts \in SUBSET Account :
             o = [p EXCEPT !.settings = Assigned(p.settings, accounts)]
      <2>1. PICK p \in Refreshed(s), accounts \in SUBSET Account :
                    o = [p EXCEPT !.settings = Assigned(p.settings, accounts)]
            BY <1>3
      <2>2. Answer(s, p) BY RefreshAnswers
      <2>3. /\ o.token = p.token /\ o.result = p.result
            /\ o.settings = Assigned(p.settings, accounts)
            BY <2>1 DEF Refreshed, Renewed, Contacted, Outcome
      <2>4. /\ o.settings \in Settings /\ o.settings.portal = p.settings.portal
            /\ o.settings.token = p.settings.token
            BY <2>2, <2>3 DEF Answer, Settings, Assigned
      <2>5. QED BY <2>2, <2>3, <2>4 DEF Answer
<1>4. QED BY <1>1, <1>2, <1>3 DEF Discovery, Result

-----------------------------------------------------------------------------
(* What the steps have in common.                                          *)

\* A thread inside an operation goes on with settings it may use.
LEMMA Moving ==
    ASSUME Consistent, NEW t \in Thread, pc[t] \in Holding,
           NEW place \in Holding, NEW s \in Settings \cup {NoSettings},
           place \in Working => s # NoSettings,
           s # NoSettings /\ s.token # NoToken
               => s.token.portal = s.portal /\ s.token.refresh <= issued',
           issued' \in 0..MaxIssued, issued <= issued',
           Goto(t, place), draft' = [draft EXCEPT ![t] = s],
           result' \in [Thread -> Result], UNCHANGED <<holder, granted>>
    PROVE  ThreadTypes' /\ OperationsHold' /\ DraftsOwned'
<1> DEFINE Fits(d) == d.token # NoToken => d.token.portal = d.portal
                                           /\ d.token.refresh <= issued'
<1>1. holder = t /\ pc' = [pc EXCEPT ![t] = place] /\ Working \subseteq Holding
      BY DEF Consistent, OperationsHold, Goto, Working, Holding
<1>2. ThreadTypes'
      BY <1>1 DEF Consistent, ThreadTypes, Holding, Place
<1>3. /\ \A u \in Thread : pc'[u] = IF u = t THEN place ELSE pc[u]
      /\ \A u \in Thread : draft'[u] = IF u = t THEN s ELSE draft[u]
      <2>1. pc \in [Thread -> Place] /\ draft \in [Thread -> Settings \cup {NoSettings}]
            BY DEF Consistent, ThreadTypes
      <2>2. QED BY <1>1, <2>1
<1>4. OperationsHold'
      <2>1. OperationsHold /\ holder' = t
            BY <1>1 DEF Consistent
      <2>2. ASSUME NEW u \in Thread
            PROVE  /\ pc'[u] \in Holding <=> holder' = u
                   /\ pc'[u] \in Working => draft'[u] # NoSettings
            <3>1. CASE u = t
                  BY <1>3, <2>1, <3>1
            <3>2. CASE u # t
                  BY <1>1, <1>3, <2>1, <3>2 DEF OperationsHold
            <3>3. QED BY <3>1, <3>2
      <2>3. QED BY <2>2 DEF OperationsHold
<1>5. \A d \in Settings : Owned(d) => Fits(d)
      BY IssuedAssumption DEF Consistent, AwsTypes, Owned, Settings, Token
<1>6. \A u \in Thread : draft'[u] # NoSettings => Fits(draft'[u])
      <2>1. \A u \in Thread : draft[u] # NoSettings => draft[u] \in Settings /\ Owned(draft[u])
            BY DEF Consistent, ThreadTypes, DraftsOwned
      <2>2. s # NoSettings => Fits(s)
            OBVIOUS
      <2>3. QED BY <1>3, <1>5, <2>1, <2>2
<1>7. DraftsOwned'
      BY <1>6 DEF DraftsOwned, Owned
<1>8. QED BY <1>2, <1>4, <1>7

\* The vault is left alone while AWS issues tokens.
LEMMA Kept ==
    ASSUME Consistent, UNCHANGED vaultVars, issued' \in 0..MaxIssued, issued <= issued'
    PROVE  VaultTypes' /\ SavedOwned'
<1> USE DEF Consistent, vaultVars
<1>1. VaultTypes'
      BY DEF VaultTypes, Valid
<1>2. \A s \in {memory, file} : s # NoSettings => s \in Settings /\ Owned(s)
      BY DEF VaultTypes, SavedOwned
<1>3. \A s \in Settings : Owned(s) =>
          (s.token # NoToken => s.token.portal = s.portal /\ s.token.refresh <= issued')
      BY IssuedAssumption DEF AwsTypes, Owned, Settings, Token
<1>4. SavedOwned'
      BY <1>2, <1>3 DEF SavedOwned, Owned
<1>5. QED BY <1>1, <1>4

\* A thread that returns lets go of the lock and of its settings.
LEMMA Returning ==
    ASSUME Consistent, NEW t \in Thread, pc[t] \in Holding,
           NEW place \in Place \ Holding, Return(t, place), UNCHANGED issued
    PROVE  /\ ThreadTypes' /\ OperationsHold' /\ DraftsOwned'
           /\ holder' = NoThread
           /\ \A u \in Thread : draft'[u] = NoSettings
<1> USE DEF Consistent, Return, Goto
<1>1. holder = t /\ Working \subseteq Holding
      BY DEF OperationsHold, Working, Holding
<1>2. \A u \in Thread : /\ draft'[u] = NoSettings
                         /\ pc'[u] = IF u = t THEN place ELSE pc[u]
      BY <1>1 DEF ThreadTypes
<1>3. ThreadTypes'
      BY <1>1, <1>2 DEF ThreadTypes, Result
<1>4. OperationsHold'
      BY <1>1, <1>2, ThreadAssumption DEF OperationsHold
<1>5. DraftsOwned'
      BY <1>2 DEF DraftsOwned
<1>6. QED BY <1>2, <1>3, <1>4, <1>5

\* A thread outside any operation stays outside.
LEMMA Waiting ==
    ASSUME Consistent, NEW t \in Thread, pc[t] \notin Holding,
           NEW place \in Place \ Holding, Goto(t, place),
           UNCHANGED <<holder, draft, result, issued>>, granted' \in [Helper -> BOOLEAN]
    PROVE  ThreadTypes' /\ OperationsHold' /\ DraftsOwned'
<1> USE DEF Consistent, Goto
<1>1. \A u \in Thread : pc'[u] = IF u = t THEN place ELSE pc[u]
      BY DEF ThreadTypes
<1>2. OperationsHold'
      BY <1>1 DEF OperationsHold, Working, Holding
<1>3. ThreadTypes' /\ DraftsOwned'
      BY DEF ThreadTypes, DraftsOwned, Owned
<1>4. QED BY <1>2, <1>3

\* What is saved is valid and holds a token that fits, also when the file
\* could not be written.
LEMMA Saving ==
    ASSUME Consistent, NEW s \in Settings, Owned(s), NEW discovery \in BOOLEAN,
           Persist(s, discovery) \/ PersistFails(s, discovery), UNCHANGED awsVars
    PROVE  VaultTypes' /\ SavedOwned' /\ AwsTypes'
<1> USE DEF Consistent
<1>1. CASE Persistable(s)
      <2>1. memory \in Settings /\ unlocked /\ memory.portal = s.portal
            BY <1>1 DEF Persistable, VaultTypes
      <2> DEFINE m == Merged(s, discovery)
      <2>2. m \in Settings /\ m.token = s.token /\ m.portal = s.portal /\ Valid(m)
            <3>1. /\ memory.targets \in SUBSET Account /\ memory.discovered \in SUBSET Account
                  /\ s.discovered \in SUBSET Account /\ s.token \in Token \cup {NoToken}
                  /\ memory.portal \in Portal
                  BY <2>1 DEF Settings
            <3>2. Valid(memory)
                  BY <2>1, NoneAssumption DEF VaultTypes
            <3>3. CASE discovery
                  <4>1. m = [memory EXCEPT !.token = s.token,
                                 !.targets = memory.targets \cap s.discovered,
                                 !.discovered = s.discovered]
                        BY <3>3 DEF Merged
                  <4>2. m = [portal |-> memory.portal, token |-> s.token,
                             targets |-> memory.targets \cap s.discovered,
                             discovered |-> s.discovered]
                        BY <2>1, <4>1 DEF Settings
                  <4>3. QED BY <2>1, <3>1, <4>2 DEF Settings, Valid
            <3>4. CASE ~discovery
                  <4>1. m = [memory EXCEPT !.token = s.token, !.targets = memory.targets,
                                 !.discovered = memory.discovered]
                        BY <3>4 DEF Merged
                  <4>2. m = [portal |-> memory.portal, token |-> s.token,
                             targets |-> memory.targets, discovered |-> memory.discovered]
                        BY <2>1, <4>1 DEF Settings
                  <4>3. QED BY <2>1, <3>1, <3>2, <4>2 DEF Settings, Valid
            <3>5. QED BY <3>3, <3>4
      <2>3. memory' = m /\ file' \in {m, file} /\ unlocked' = unlocked
            BY <1>1 DEF Persist, PersistFails
      <2>4. VaultTypes'
            BY <2>1, <2>2, <2>3 DEF VaultTypes, Valid
      <2>5. Owned(m)
            BY <2>2 DEF Owned
      <2>6. SavedOwned'
            BY <2>3, <2>5 DEF SavedOwned, Owned, awsVars
      <2>7. QED BY <2>4, <2>6 DEF AwsTypes, awsVars, Persist, PersistFails
<1>2. CASE ~Persistable(s)
      BY <1>2 DEF Persist, PersistFails, VaultTypes, SavedOwned, Owned, AwsTypes, awsVars, Valid
<1>3. QED BY <1>1, <1>2

\* A call to AWS.
LEMMA Receiving ==
    ASSUME Consistent, NEW t \in Thread, pc[t] \in Working,
           NEW o, Answer(draft[t], o), Received(t, o),
           NEW place \in Working, Goto(t, place), UNCHANGED <<vaultVars, holder, granted>>
    PROVE  /\ VaultTypes' /\ SavedOwned' /\ AwsTypes'
           /\ ThreadTypes' /\ OperationsHold' /\ DraftsOwned'
<1> USE DEF Consistent
<1>1. draft[t] \in Settings /\ Owned(draft[t]) /\ Working \subseteq Holding
      BY DEF OperationsHold, ThreadTypes, DraftsOwned, Working, Holding
<1>2. \/ issued' = issued /\ o.token = "kept"
      \/ issued' = issued + 1 /\ issued # MaxIssued /\ o.token # "kept"
      BY DEF Received, Answer
<1>3. issued' \in 0..MaxIssued /\ issued <= issued' /\ issued \in Nat
      BY <1>2, IssuedAssumption DEF AwsTypes
<1>4. replaced' \subseteq 1..issued'
      <2>1. CASE o.token = "kept"
            BY <1>2, <2>1 DEF AwsTypes, Received
      <2>2. CASE o.token # "kept"
            <3>1. draft[t].token \in Token /\ draft[t].token # NoToken /\ draft[t].token.refresh # 0
                  BY <1>1, <2>2 DEF Answer, Settings
            <3>2. draft[t].token.refresh \in 1..issued
                  BY <1>1, <1>3, <3>1 DEF Owned, Token
            <3>3. replaced' = replaced \cup {draft[t].token.refresh} /\ issued' = issued + 1
                  BY <1>2, <2>2 DEF Received
            <3>4. ASSUME NEW n \in replaced'
                  PROVE  n \in 1..issued'
                  <4>1. n \in replaced \/ n = draft[t].token.refresh
                        BY <3>3
                  <4>2. n \in 1..issued
                        BY <3>2, <4>1 DEF AwsTypes
                  <4>3. QED BY <1>3, <3>3, <4>2
            <3>5. QED BY <3>4
      <2>3. QED BY <2>1, <2>2
<1>5. AwsTypes'
      BY <1>3, <1>4 DEF AwsTypes, Received
<1>6. /\ o.settings \in Settings
      /\ o.settings.token # NoToken =>
             /\ o.settings.token.portal = o.settings.portal
             /\ o.settings.token.refresh <= issued'
      BY <1>1, <1>2, <1>3 DEF Owned, Answer, Settings, Token
<1>7. ThreadTypes' /\ OperationsHold' /\ DraftsOwned'
      <2>1. draft' = [draft EXCEPT ![t] = o.settings] /\ result' \in [Thread -> Result]
            BY DEF Received, Answer, ThreadTypes
      <2>2. QED BY <1>1, <1>3, <1>6, <2>1, Moving, NoneAssumption
<1>8. VaultTypes' /\ SavedOwned'
      BY <1>3, Kept
<1>9. QED BY <1>5, <1>7, <1>8

-----------------------------------------------------------------------------
(* The steps.                                                              *)

LEMMA ConsistentInit == Init => Consistent
<1> SUFFICES ASSUME Init PROVE Consistent
    OBVIOUS
<1> USE DEF Init
<1>1. VaultTypes /\ SavedOwned
      <2>1. file \in Settings \cup {NoSettings}
            OBVIOUS
      <2>2. file # NoSettings => Valid(file) /\ Owned(file)
            BY DEF Valid, Owned
      <2>3. QED BY <2>1, <2>2 DEF VaultTypes, SavedOwned
<1>2. ThreadTypes /\ OperationsHold /\ DraftsOwned
      <2>1. "idle" \notin Holding /\ "idle" \notin Working /\ "idle" \in Place
            BY DEF Holding, Working, SigningIn, Place
      <2>2. QED BY <2>1, ThreadAssumption DEF ThreadTypes, OperationsHold, DraftsOwned, Result
<1>3. AwsTypes
      <2>1. 1 \in 0..MaxIssued
            BY IssuedAssumption
      <2>2. QED BY <2>1 DEF AwsTypes
<1>4. status \in Status /\ StatusIsBacked
      BY DEF Status, InProgress, StatusIsBacked
<1>5. QED BY <1>1, <1>2, <1>3, <1>4 DEF Consistent

LEMMA UserKeeps ==
    ASSUME Consistent, User
    PROVE  Consistent'
<1> USE DEF Consistent
<1>1. CASE Lock
      <2>1. VaultTypes' /\ SavedOwned' /\ AwsTypes'
            BY <1>1 DEF Lock, VaultTypes, SavedOwned, AwsTypes, awsVars, Owned, Valid
      <2>2. ThreadTypes' /\ OperationsHold' /\ DraftsOwned'
            BY <1>1 DEF Lock, NoGrants, threadVars, awsVars, ThreadTypes, OperationsHold,
                        DraftsOwned, Owned
      <2>3. status' \in Status /\ StatusIsBacked'
            BY <1>1 DEF Lock, Status, InProgress, StatusIsBacked
      <2>4. QED BY <2>1, <2>2, <2>3
<1>2. CASE Unlock
      <2>1. VaultTypes' /\ SavedOwned' /\ AwsTypes'
            BY <1>2 DEF Unlock, VaultTypes, SavedOwned, AwsTypes, awsVars, Owned, Valid
      <2>2. ThreadTypes' /\ OperationsHold' /\ DraftsOwned'
            BY <1>2 DEF Unlock, threadVars, awsVars, ThreadTypes, OperationsHold,
                        DraftsOwned, Owned
      <2>3. status' \in Status /\ StatusIsBacked'
            BY <1>2 DEF Unlock, threadVars, StatusIsBacked
      <2>4. QED BY <2>1, <2>2, <2>3
<1>3. ASSUME NEW s \in Settings, Valid(s), Owned(s), SaveSettings(s)
      PROVE  Consistent'
      <2>1. VaultTypes' /\ SavedOwned' /\ AwsTypes'
            BY <1>3 DEF SaveSettings, VaultTypes, SavedOwned, AwsTypes, awsVars, Owned, Valid
      <2>2. ThreadTypes' /\ OperationsHold' /\ DraftsOwned'
            BY <1>3 DEF SaveSettings, NoGrants, threadVars, awsVars, ThreadTypes,
                        OperationsHold, DraftsOwned, Owned
      <2>3. status' \in Status /\ StatusIsBacked'
            BY <1>3 DEF SaveSettings, threadVars, Status, InProgress, StatusIsBacked
      <2>4. QED BY <2>1, <2>2, <2>3
<1>4. ASSUME NEW portal \in Portal, SaveConnection(portal)
      PROVE  Consistent'
      <2> DEFINE new == [portal |-> portal, token |-> NoToken,
                         targets |-> {}, discovered |-> {}]
      <2>1. CASE memory # NoSettings /\ memory.portal = portal
            <3>1. memory \in Settings /\ Valid(memory) /\ Owned(memory)
                  BY <2>1 DEF VaultTypes, SavedOwned
            <3>2. SaveSettings(memory)
                  BY <1>4, <2>1 DEF SaveConnection
            <3>3. QED BY <1>3, <3>1, <3>2
      <2>2. CASE ~(memory # NoSettings /\ memory.portal = portal)
            <3>1. new \in Settings /\ Valid(new) /\ Owned(new)
                  BY DEF Settings, Valid, Owned
            <3>2. SaveSettings(new)
                  BY <1>4, <2>2 DEF SaveConnection
            <3>3. QED BY <1>3, <3>1, <3>2
      <2>3. QED BY <2>1, <2>2
<1>5. ASSUME NEW named \in SUBSET Account, SaveAliases(named)
      PROVE  Consistent'
      <2> DEFINE new == [memory EXCEPT !.targets = named]
      <2>1. memory \in Settings /\ Owned(memory) /\ named \subseteq memory.discovered
            BY <1>5 DEF SaveAliases, VaultTypes, SavedOwned
      <2>2. new \in Settings /\ Valid(new) /\ Owned(new)
            BY <2>1 DEF Settings, Valid, Owned
      <2>3. SaveSettings(new)
            BY <1>5 DEF SaveAliases
      <2>4. QED BY <1>3, <2>2, <2>3
<1>6. ASSUME NEW h \in Helper, Approve(h)
      PROVE  Consistent'
      <2>1. h \in Thread /\ pc[h] \notin Holding /\ "approved" \in Place \ Holding
            BY <1>6 DEF Approve, Thread, Holding, SigningIn, Place
      <2>2. granted' \in [Helper -> BOOLEAN] /\ issued' = issued
            BY <1>6 DEF Approve, ThreadTypes, awsVars
      <2>3. ThreadTypes' /\ OperationsHold' /\ DraftsOwned'
            BY <1>6, <2>1, <2>2, Waiting DEF Approve
      <2>4. VaultTypes' /\ SavedOwned' /\ AwsTypes'
            BY <1>6, Kept, IssuedAssumption DEF Approve, AwsTypes, awsVars
      <2>5. status' \in Status /\ StatusIsBacked'
            BY <1>6 DEF Approve, Goto, StatusIsBacked, ThreadTypes
      <2>6. QED BY <2>3, <2>4, <2>5
<1>7. ASSUME NEW h \in Helper, EndGrant(h)
      PROVE  Consistent'
      <2>1. ThreadTypes' /\ OperationsHold' /\ DraftsOwned'
            BY <1>7 DEF EndGrant, threadVars, awsVars, ThreadTypes, OperationsHold,
                        DraftsOwned, Owned
      <2>2. VaultTypes' /\ SavedOwned' /\ AwsTypes'
            BY <1>7, Kept, IssuedAssumption DEF EndGrant, AwsTypes, awsVars
      <2>3. status' \in Status /\ StatusIsBacked'
            BY <1>7 DEF EndGrant, threadVars, StatusIsBacked
      <2>4. QED BY <2>1, <2>2, <2>3
<1>8. ASSUME NEW t \in SignIn, Press(t)
      PROVE  Consistent'
      <2>1. PICK place \in {"queued", "reporting"} : Goto(t, place)
            BY <1>8 DEF Press
      <2>2. t \in Thread /\ pc[t] \notin Holding /\ place \in Place \ Holding
            BY <1>8 DEF Press, Thread, Holding, SigningIn, Place
      <2>3. ThreadTypes' /\ OperationsHold' /\ DraftsOwned'
            BY <1>8, <2>1, <2>2, Waiting DEF Press, ThreadTypes, awsVars
      <2>4. VaultTypes' /\ SavedOwned' /\ AwsTypes'
            BY <1>8, Kept, IssuedAssumption DEF Press, AwsTypes, awsVars
      <2>5. status' \in Status /\ StatusIsBacked'
            BY <1>8, <2>1 DEF Press, MayPrepare, Goto, StatusIsBacked, ThreadTypes, InProgress
      <2>6. QED BY <2>3, <2>4, <2>5
<1>9. ASSUME NEW t \in Thread, NEW r \in LocalRequest, Callback(t, r)
      PROVE  Consistent'
      <2>1. pc[t] \in Working \cap Holding /\ pc[t] = "awaiting" /\ holder = t
            BY <1>9 DEF Callback, Working, Holding, SigningIn, OperationsHold
      <2>2. draft[t] \in Settings /\ draft[t] # NoSettings /\ Owned(draft[t])
            BY <2>1 DEF OperationsHold, ThreadTypes, DraftsOwned
      <2>3. {"authorized", "failing"} \subseteq Working \cap Holding
            BY DEF Working, Holding, SigningIn
      <2>4. CASE Goto(t, "failing") /\ UNCHANGED <<draft, issued>>
            <3>1. draft' = [draft EXCEPT ![t] = draft[t]]
                  BY <2>4 DEF ThreadTypes
            <3>2. ThreadTypes' /\ OperationsHold' /\ DraftsOwned'
                  <4>1. issued' \in 0..MaxIssued /\ issued <= issued'
                        BY <2>4, IssuedAssumption DEF AwsTypes
                  <4>2. UNCHANGED <<holder, granted>> /\ result' \in [Thread -> Result]
                        BY <1>9 DEF Callback, ThreadTypes
                  <4>3. draft[t].token # NoToken => /\ draft[t].token.portal = draft[t].portal
                                                    /\ draft[t].token.refresh <= issued'
                        BY <2>2, <2>4 DEF Owned
                  <4>4. QED BY <2>1, <2>2, <2>3, <2>4, <3>1, <4>1, <4>2, <4>3, Moving
            <3>3. VaultTypes' /\ SavedOwned' /\ AwsTypes'
                  BY <1>9, <2>4, Kept, IssuedAssumption DEF Callback, AwsTypes
            <3>4. QED BY <1>9, <2>1, <2>4, <3>2, <3>3 DEF Callback, Goto, StatusIsBacked, ThreadTypes
      <2>5. ASSUME Goto(t, "authorized"),
                   NEW refresh \in {0} \cup {n \in {issued + 1} : n <= MaxIssued},
                   draft' = [draft EXCEPT ![t].token =
                                [portal |-> draft[t].portal, refresh |-> refresh]],
                   issued' = IF refresh = 0 THEN issued ELSE refresh
            PROVE  Consistent'
            <3> DEFINE token == [portal |-> draft[t].portal, refresh |-> refresh]
                       new == [draft[t] EXCEPT !.token = token]
            <3>1. issued' \in 0..MaxIssued /\ issued <= issued' /\ refresh \in 0..issued'
                    /\ issued \in Nat
                  BY <2>5, IssuedAssumption DEF AwsTypes
            <3>2. token \in Token /\ new \in Settings /\ new.token = token
                    /\ new.portal = draft[t].portal
                  BY <2>2, <3>1, IssuedAssumption DEF Settings, Token
            <3>3. draft' = [draft EXCEPT ![t] = new]
                  BY <2>5 DEF ThreadTypes
            <3>4. ThreadTypes' /\ OperationsHold' /\ DraftsOwned'
                  <4>1. UNCHANGED <<holder, granted>> /\ result' \in [Thread -> Result]
                        BY <1>9 DEF Callback, ThreadTypes
                  <4>2. new.token.portal = new.portal /\ new.token.refresh <= issued'
                          /\ new # NoSettings
                        BY <3>1, <3>2, NoneAssumption
                  <4>3. QED BY <2>1, <2>3, <2>5, <3>1, <3>2, <3>3, <4>1, <4>2, Moving
            <3>5. VaultTypes' /\ SavedOwned'
                  BY <1>9, <3>1, Kept DEF Callback
            <3>6. AwsTypes'
                  BY <1>9, <3>1 DEF Callback, AwsTypes
            <3>7. QED BY <1>9, <2>1, <2>5, <3>4, <3>5, <3>6
                      DEF Callback, Goto, StatusIsBacked, ThreadTypes
      <2>6. QED BY <1>9, <2>4, <2>5 DEF Callback
<1>10. QED BY <1>1, <1>2, <1>4, <1>5, <1>6, <1>7, <1>8, <1>9 DEF User

\* A thread that works has settings of its own, and the lock.
LEMMA WorkingHas ==
    ASSUME Consistent, NEW t \in Thread, pc[t] \in Working
    PROVE  /\ draft[t] \in Settings /\ draft[t] # NoSettings /\ Owned(draft[t])
           /\ pc[t] \in Holding /\ holder = t
BY DEF Consistent, OperationsHold, ThreadTypes, DraftsOwned, Working, Holding

\* A step inside an operation that leaves AWS alone.
LEMMA MovesOn ==
    ASSUME Consistent, NEW t \in Thread, pc[t] \in Holding,
           NEW place \in Holding, NEW s \in Settings \cup {NoSettings},
           place \in Working => s # NoSettings, s # NoSettings => Owned(s),
           Goto(t, place), draft' = [draft EXCEPT ![t] = s],
           UNCHANGED <<holder, result, granted, issued>>
    PROVE  ThreadTypes' /\ OperationsHold' /\ DraftsOwned' /\ pc'[t] = place /\ holder' = t
<1>1. issued' \in 0..MaxIssued /\ issued <= issued' /\ result' \in [Thread -> Result]
      BY IssuedAssumption DEF Consistent, AwsTypes, ThreadTypes
<1>2. s # NoSettings /\ s.token # NoToken
          => s.token.portal = s.portal /\ s.token.refresh <= issued'
      BY DEF Owned
<1>3. pc'[t] = place /\ holder' = t
      BY DEF Goto, Consistent, ThreadTypes, OperationsHold
<1>4. QED BY <1>1, <1>2, <1>3, Moving

LEMMA HelperKeeps ==
    ASSUME Consistent, NEW h \in Helper, HelperStep(h)
    PROVE  Consistent'
<1> USE DEF Consistent
<1>0. h \in Thread
      BY DEF Thread
<1>1. CASE Context(h)
      <2>1. PICK place \in {"failed", "queued"} : Goto(h, place)
            BY <1>1 DEF Context
      <2>2. pc[h] \notin Holding /\ place \in Place \ Holding
            BY <1>1 DEF Context, Holding, SigningIn, Place, Done
      <2>3. ThreadTypes' /\ OperationsHold' /\ DraftsOwned'
            BY <1>0, <1>1, <2>1, <2>2, Waiting DEF Context, ThreadTypes, awsVars
      <2>4. VaultTypes' /\ SavedOwned' /\ AwsTypes'
            BY <1>1, Kept, IssuedAssumption DEF Context, AwsTypes, awsVars
      <2>5. status' \in Status /\ StatusIsBacked'
            BY <1>0, <1>1, <2>1 DEF Context, Goto, StatusIsBacked, ThreadTypes
      <2>6. QED BY <2>3, <2>4, <2>5
<1>2. CASE Reload(h)
      <2>1. pc[h] \in Holding /\ holder = h /\ pc[h] \in {"reload", "again"}
            BY <1>0, <1>2 DEF Reload, Holding, OperationsHold
      <2>2. VaultTypes' /\ SavedOwned' /\ AwsTypes'
            BY <1>2, Kept, IssuedAssumption DEF Reload, AwsTypes, awsVars
      <2>3. CASE memory = NoSettings
            <3>1. Return(h, "failed") /\ "failed" \in Place \ Holding /\ issued' = issued
                  BY <1>2, <2>3 DEF Reload, Place, Holding, SigningIn, Done, awsVars
            <3>2. ThreadTypes' /\ OperationsHold' /\ DraftsOwned' /\ holder' = NoThread
                  BY <1>0, <2>1, <3>1, Returning
            <3>3. status' \in Status /\ StatusIsBacked'
                  BY <1>2, <2>1 DEF Reload, StatusIsBacked, InProgress, Status
            <3>4. QED BY <2>2, <3>2, <3>3
      <2>4. CASE memory # NoSettings
            <3>1. PICK place \in {"fetch", "refetch"} : Goto(h, place)
                  BY <1>2, <2>4 DEF Reload
            <3>2. PICK s \in Settings : s = memory
                  BY <2>4 DEF VaultTypes
            <3>3. /\ place \in Holding /\ Owned(s) /\ s # NoSettings
                  /\ draft' = [draft EXCEPT ![h] = s]
                  /\ UNCHANGED <<holder, result, granted, issued, status>>
                  BY <1>2, <2>4, <3>2 DEF Reload, Holding, SavedOwned, awsVars
            <3>4. ThreadTypes' /\ OperationsHold' /\ DraftsOwned' /\ pc'[h] = place /\ holder' = h
                  BY <1>0, <2>1, <3>1, <3>3, MovesOn
            <3>5. status' \in Status /\ StatusIsBacked'
                  BY <2>1, <3>3, <3>4 DEF StatusIsBacked, InProgress, Status
            <3>6. QED BY <2>2, <3>4, <3>5
      <2>5. QED BY <2>3, <2>4
<1>3. CASE Fetch(h)
      <2>1. PICK place \in {"fetched", "refetched"} : Goto(h, place)
            BY <1>3 DEF Fetch
      <2>2. PICK o \in Credentials(draft[h]) : Received(h, o)
            BY <1>3 DEF Fetch
      <2>3. pc[h] \in Working /\ place \in Working /\ pc[h] \in {"fetch", "refetch"}
            BY <1>3 DEF Fetch, Working
      <2>4. draft[h] \in Settings /\ holder = h
            BY <1>0, <2>3, WorkingHas
      <2>5. PICK s \in Settings : s = draft[h]
            BY <2>4
      <2>6. Answer(s, o)
            BY <2>2, <2>5, CredentialsAnswer DEF AwsTypes
      <2>7. /\ VaultTypes' /\ SavedOwned' /\ AwsTypes'
            /\ ThreadTypes' /\ OperationsHold' /\ DraftsOwned'
            BY <1>0, <1>3, <2>1, <2>2, <2>3, <2>5, <2>6, Receiving DEF Fetch
      <2>8. status' \in Status /\ StatusIsBacked'
            BY <1>3, <2>3, <2>4 DEF Fetch, StatusIsBacked, InProgress, Status
      <2>9. QED BY <2>7, <2>8
<1>4. ASSUME Fetched(h), Persist(draft[h], FALSE) \/ PersistFails(draft[h], FALSE),
             NEW place \in {"served", "failed"}, Return(h, place)
      PROVE  Consistent'
      <2>1. pc[h] \in Working /\ pc[h] \in {"fetched", "refetched"}
            BY <1>4 DEF Fetched, Working
      <2>2. draft[h] \in Settings /\ Owned(draft[h]) /\ pc[h] \in Holding /\ holder = h
            BY <1>0, <2>1, WorkingHas
      <2>3. PICK s \in Settings : s = draft[h]
            BY <2>2
      <2>4. Owned(s) /\ UNCHANGED awsVars /\ (Persist(s, FALSE) \/ PersistFails(s, FALSE))
            BY <1>4, <2>2, <2>3 DEF Fetched, Owned
      <2>5. VaultTypes' /\ SavedOwned' /\ AwsTypes'
            BY <2>4, Saving
      <2>6. place \in Place \ Holding /\ issued' = issued
            BY <2>4 DEF Place, Holding, SigningIn, Done, awsVars
      <2>7. ThreadTypes' /\ OperationsHold' /\ DraftsOwned'
            BY <1>0, <1>4, <2>2, <2>6, Returning
      <2>8. status' \in Status /\ StatusIsBacked'
            BY <1>4, <2>1, <2>2 DEF Fetched, StatusIsBacked, InProgress, Status
      <2>9. QED BY <2>5, <2>7, <2>8
<1>5. CASE Serve(h)
      BY <1>4, <1>5 DEF Serve
<1>6. CASE Fail(h)
      BY <1>4, <1>6 DEF Fail
<1>7. CASE FailToSave(h)
      BY <1>4, <1>7 DEF FailToSave
<1>8. CASE NeedSignIn(h)
      <2>1. pc[h] \in Working /\ pc[h] = "fetched"
            BY <1>8 DEF NeedSignIn, Working
      <2>2. draft[h] \in Settings /\ Owned(draft[h]) /\ pc[h] \in Holding /\ holder = h
            BY <1>0, <2>1, WorkingHas
      <2>3. PICK s \in Settings : s = draft[h]
            BY <2>2
      <2>4. Owned(s) /\ UNCHANGED awsVars /\ Persist(s, FALSE)
            BY <1>8, <2>2, <2>3 DEF NeedSignIn, Fetched, Owned
      <2>5. VaultTypes' /\ SavedOwned' /\ AwsTypes'
            BY <2>4, Saving
      <2>6. "prepare" \in Holding /\ "prepare" \notin Working
            BY DEF Holding, Working, SigningIn
      <2>7. ThreadTypes' /\ OperationsHold' /\ DraftsOwned' /\ pc'[h] = "prepare" /\ holder' = h
            BY <1>0, <1>8, <2>2, <2>4, <2>6, MovesOn DEF NeedSignIn, awsVars
      <2>8. status' \in Status /\ StatusIsBacked'
            BY <1>8, <2>1, <2>2, <2>7 DEF NeedSignIn, Fetched, StatusIsBacked, InProgress, Status
      <2>9. QED BY <2>5, <2>7, <2>8
<1>9. QED BY <1>1, <1>2, <1>3, <1>5, <1>6, <1>7, <1>8 DEF HelperStep

LEMMA SignInKeeps ==
    ASSUME Consistent, NEW t \in Thread, SignInStep(t)
    PROVE  Consistent'
<1> USE DEF Consistent
<1>1. CASE Prepare(t)
      <2>1. pc[t] \in Holding /\ holder = t /\ pc[t] = "prepare"
            BY <1>1 DEF Prepare, Holding, OperationsHold
      <2>2. VaultTypes' /\ SavedOwned' /\ AwsTypes'
            BY <1>1, Kept, IssuedAssumption DEF Prepare, AwsTypes, awsVars
      <2>3. CASE ~MayPrepare
            <3>1. PICK place \in {"failed", "reporting"} : Return(t, place)
                  BY <1>1, <2>3 DEF Prepare
            <3>2. place \in Place \ Holding /\ issued' = issued /\ status' = status
                  BY <1>1, <2>3 DEF Prepare, Place, Holding, SigningIn, Done, awsVars
            <3>3. ThreadTypes' /\ OperationsHold' /\ DraftsOwned'
                  BY <2>1, <3>1, <3>2, Returning
            <3>4. status' \in Status /\ StatusIsBacked'
                  BY <2>1, <3>2 DEF StatusIsBacked, InProgress, Status
            <3>5. QED BY <2>2, <3>3, <3>4
      <2>4. CASE MayPrepare
            <3>1. PICK s \in Settings : s = memory
                  BY <2>4 DEF MayPrepare, VaultTypes
            <3>2. /\ "discover" \in Holding /\ Owned(s) /\ s # NoSettings
                  /\ Goto(t, "discover") /\ draft' = [draft EXCEPT ![t] = s]
                  /\ UNCHANGED <<holder, result, granted, issued>> /\ status' = "Starting"
                  BY <1>1, <2>4, <3>1 DEF Prepare, MayPrepare, Holding, SigningIn, SavedOwned, awsVars
            <3>3. /\ ThreadTypes' /\ OperationsHold' /\ DraftsOwned'
                  /\ pc'[t] = "discover" /\ holder' = t
                  BY <2>1, <3>2, MovesOn
            <3>4. status' \in Status /\ StatusIsBacked'
                  BY <3>2, <3>3, ThreadAssumption DEF StatusIsBacked, InProgress, Status
            <3>5. QED BY <2>2, <3>3, <3>4
      <2>5. QED BY <2>3, <2>4
<1>2. CASE Discover(t)
      <2>1. pc[t] \in Working /\ pc[t] \in {"discover", "rediscover"}
            BY <1>2 DEF Discover, Working, SigningIn
      <2>2. draft[t] \in Settings /\ holder = t
            BY <2>1, WorkingHas
      <2>3. PICK o \in Discovery(draft[t]) :
                /\ Received(t, o)
                /\ Goto(t, IF pc[t] = "discover" /\ o.result = "expired" THEN "browser"
                           ELSE "complete")
            BY <1>2 DEF Discover
      <2>4. PICK place \in {"browser", "complete"} :
                Goto(t, place) /\ (pc[t] = "rediscover" => place = "complete")
            BY <2>1, <2>3
      <2>5. place \in Working
            BY DEF Working, SigningIn
      <2>6. PICK s \in Settings : s = draft[t]
            BY <2>2
      <2>7. Answer(s, o)
            BY <2>3, <2>6, DiscoveryAnswers DEF AwsTypes
      <2>8. /\ VaultTypes' /\ SavedOwned' /\ AwsTypes'
            /\ ThreadTypes' /\ OperationsHold' /\ DraftsOwned'
            BY <1>2, <2>1, <2>3, <2>4, <2>5, <2>6, <2>7, Receiving DEF Discover
      <2>9. pc'[t] = place /\ holder' = t /\ status' = status
            BY <1>2, <2>2, <2>4 DEF Discover, Goto, ThreadTypes
      <2>10. status' \in Status /\ StatusIsBacked'
            BY <2>1, <2>2, <2>4, <2>9 DEF StatusIsBacked, InProgress, Status
      <2>11. QED BY <2>8, <2>10
<1>3. ASSUME pc[t] \in {"browser", "awaiting", "authorized"},
             NEW place \in {"awaiting", "failing", "rediscover"}, Goto(t, place),
             NEW s \in {draft[t], [draft[t] EXCEPT !.token = NoToken]},
             draft' = [draft EXCEPT ![t] = s],
             UNCHANGED <<vaultVars, holder, result, granted, awsVars, spoiled>>
      PROVE  /\ VaultTypes' /\ SavedOwned' /\ AwsTypes'
             /\ ThreadTypes' /\ OperationsHold' /\ DraftsOwned'
             /\ holder = t /\ pc'[t] = place /\ holder' = t
      <2>1. pc[t] \in Working /\ place \in Holding
            BY <1>3 DEF Working, Holding, SigningIn
      <2>2. draft[t] \in Settings /\ Owned(draft[t]) /\ holder = t /\ pc[t] \in Holding
            BY <2>1, WorkingHas
      <2>3. s \in Settings /\ Owned(s) /\ s # NoSettings
            BY <1>3, <2>2, NoneAssumption DEF Settings, Owned
      <2>4. ThreadTypes' /\ OperationsHold' /\ DraftsOwned' /\ pc'[t] = place /\ holder' = t
            BY <1>3, <2>1, <2>2, <2>3, MovesOn DEF awsVars
      <2>5. VaultTypes' /\ SavedOwned' /\ AwsTypes'
            BY <1>3, Kept, IssuedAssumption DEF AwsTypes, awsVars
      <2>6. QED BY <2>2, <2>4, <2>5
<1>4. CASE OpenBrowser(t)
      <2>1. PICK s \in {draft[t], [draft[t] EXCEPT !.token = NoToken]} :
                draft' = [draft EXCEPT ![t] = s]
            BY <1>4 DEF OpenBrowser, Registered
      <2>2. PICK place \in {"awaiting", "failing"} :
                /\ Goto(t, place)
                /\ status' = IF place = "awaiting" THEN "AwaitingUser" ELSE status
            BY <1>4 DEF OpenBrowser
      <2>3. /\ VaultTypes' /\ SavedOwned' /\ AwsTypes'
            /\ ThreadTypes' /\ OperationsHold' /\ DraftsOwned'
            /\ holder = t /\ pc'[t] = place /\ holder' = t
            BY <1>3, <1>4, <2>1, <2>2 DEF OpenBrowser
      <2>4. status' \in Status /\ StatusIsBacked'
            BY <1>4, <2>2, <2>3, ThreadAssumption DEF OpenBrowser, StatusIsBacked, InProgress, Status
      <2>5. QED BY <2>3, <2>4
<1>5. CASE Deadline(t)
      <2>1. draft' = [draft EXCEPT ![t] = draft[t]]
            BY <1>5 DEF Deadline, ThreadTypes
      <2>2. /\ VaultTypes' /\ SavedOwned' /\ AwsTypes'
            /\ ThreadTypes' /\ OperationsHold' /\ DraftsOwned'
            /\ holder = t /\ pc'[t] = "failing" /\ holder' = t
            BY <1>3, <1>5, <2>1 DEF Deadline
      <2>3. status' \in Status /\ StatusIsBacked'
            BY <1>5, <2>2 DEF Deadline, StatusIsBacked, InProgress, Status
      <2>4. QED BY <2>2, <2>3
<1>6. CASE Authorized(t)
      <2>1. draft' = [draft EXCEPT ![t] = draft[t]]
            BY <1>6 DEF Authorized, ThreadTypes
      <2>2. /\ VaultTypes' /\ SavedOwned' /\ AwsTypes'
            /\ ThreadTypes' /\ OperationsHold' /\ DraftsOwned'
            /\ holder = t /\ pc'[t] = "rediscover" /\ holder' = t
            BY <1>3, <1>6, <2>1 DEF Authorized
      <2>3. status' \in Status /\ StatusIsBacked'
            BY <1>6, <2>2, ThreadAssumption DEF Authorized, StatusIsBacked, InProgress, Status
      <2>4. QED BY <2>2, <2>3
<1>7. CASE SignInFails(t)
      <2>1. pc[t] \in Holding
            BY <1>7 DEF SignInFails, Holding, SigningIn
      <2>2. PICK place \in {"failed", "reporting"} : Return(t, place)
            BY <1>7 DEF SignInFails
      <2>3. place \in Place \ Holding /\ issued' = issued
            BY <1>7 DEF SignInFails, Place, Holding, SigningIn, Done, awsVars
      <2>4. ThreadTypes' /\ OperationsHold' /\ DraftsOwned'
            BY <2>1, <2>2, <2>3, Returning
      <2>5. VaultTypes' /\ SavedOwned'
            BY <1>7, <2>3, Kept, IssuedAssumption DEF SignInFails, AwsTypes
      <2>6. AwsTypes'
            BY <1>7 DEF SignInFails, AwsTypes, awsVars, StaleSession
      <2>7. status' \in Status /\ StatusIsBacked'
            BY <1>7 DEF SignInFails, StatusIsBacked, InProgress, Status
      <2>8. QED BY <2>4, <2>5, <2>6, <2>7
<1>8. CASE Complete(t)
      <2>1. pc[t] \in Working
            BY <1>8 DEF Complete, Working, SigningIn
      <2>2. draft[t] \in Settings /\ Owned(draft[t]) /\ pc[t] \in Holding /\ holder = t
            BY <2>1, WorkingHas
      <2>3. PICK s \in Settings : s = draft[t]
            BY <2>2
      <2>4. PICK discovery \in BOOLEAN : discovery = (result[t] = "ok")
            OBVIOUS
      <2>5. Owned(s) /\ (Persist(s, discovery) \/ PersistFails(s, discovery))
            BY <1>8, <2>2, <2>3, <2>4 DEF Complete, Owned
      <2>6. UNCHANGED awsVars /\ issued' = issued
            BY <1>8 DEF Complete, awsVars
      <2>7. VaultTypes' /\ SavedOwned' /\ AwsTypes'
            BY <2>5, <2>6, Saving
      <2>8. status' \in {"LoggedIn", "Failed"}
            BY <1>8 DEF Complete
      <2>9. status' \in Status /\ StatusIsBacked'
            BY <2>8 DEF StatusIsBacked, InProgress, Status
      <2>10. CASE t \in Helper
            <3>1. "again" \in Holding /\ "again" \notin Working
                  BY DEF Holding, Working, SigningIn
            <3>2. ThreadTypes' /\ OperationsHold' /\ DraftsOwned'
                  BY <1>8, <2>2, <2>6, <2>10, <3>1, MovesOn DEF Complete
            <3>3. QED BY <2>7, <2>9, <3>2
      <2>11. CASE t \notin Helper
            <3>1. "done" \in Place \ Holding
                  BY DEF Place, Holding, SigningIn, Done
            <3>2. ThreadTypes' /\ OperationsHold' /\ DraftsOwned'
                  BY <1>8, <2>2, <2>6, <2>11, <3>1, Returning DEF Complete
            <3>3. QED BY <2>7, <2>9, <3>2
      <2>12. QED BY <2>10, <2>11
<1>9. QED BY <1>1, <1>2, <1>4, <1>5, <1>6, <1>7, <1>8 DEF SignInStep

LEMMA ConsistentStep == Consistent /\ [Next]_vars => Consistent'
<1> SUFFICES ASSUME Consistent, [Next]_vars PROVE Consistent'
    OBVIOUS
<1>1. CASE User
      BY <1>1, UserKeeps
<1>2. ASSUME NEW t \in Thread, TakeOperation(t)
      PROVE  Consistent'
      <2> USE DEF Consistent
      <2>1. PICK place \in {"reload", "prepare"} : Goto(t, place)
            BY <1>2 DEF TakeOperation
      <2>2. place \in Holding /\ place \notin Working /\ place \in Place
            BY DEF Holding, Working, SigningIn, Place
      <2>3. holder = NoThread /\ holder' = t /\ UNCHANGED <<draft, result, granted, issued>>
            BY <1>2 DEF TakeOperation, awsVars
      <2>4. \A u \in Thread : /\ draft[u] = NoSettings /\ pc[u] \notin Holding
            BY <2>3, ThreadAssumption DEF OperationsHold, ThreadTypes
      <2>5. \A u \in Thread : pc'[u] = IF u = t THEN place ELSE pc[u]
            BY <2>1 DEF Goto, ThreadTypes
      <2>6. OperationsHold'
            BY <2>2, <2>3, <2>4, <2>5 DEF OperationsHold, Working, Holding
      <2>7. ThreadTypes' /\ DraftsOwned'
            BY <2>1, <2>2, <2>3, <2>4 DEF Goto, ThreadTypes, DraftsOwned
      <2>8. VaultTypes' /\ SavedOwned' /\ AwsTypes'
            BY <1>2, Kept, IssuedAssumption DEF TakeOperation, AwsTypes, awsVars
      <2>9. status' \in Status /\ StatusIsBacked'
            BY <1>2, <2>3 DEF TakeOperation, StatusIsBacked, InProgress, Status
      <2>10. QED BY <2>6, <2>7, <2>8, <2>9
<1>3. ASSUME NEW t \in SignIn, Report(t)
      PROVE  Consistent'
      <2> USE DEF Consistent
      <2>1. t \in Thread /\ pc[t] \notin Holding /\ "done" \in Place \ Holding
            BY <1>3 DEF Report, Thread, Holding, SigningIn, Place, Done
      <2>2. ThreadTypes' /\ OperationsHold' /\ DraftsOwned'
            BY <1>3, <2>1, Waiting DEF Report, ThreadTypes, awsVars
      <2>3. VaultTypes' /\ SavedOwned' /\ AwsTypes'
            BY <1>3, Kept, IssuedAssumption DEF Report, AwsTypes, awsVars
      <2>4. status' \in Status /\ StatusIsBacked'
            BY <1>3 DEF Report, StatusIsBacked, InProgress, Status
      <2>5. QED BY <2>2, <2>3, <2>4
<1>4. CASE UNCHANGED vars
      BY <1>4 DEF vars, vaultVars, threadVars, awsVars, Consistent, VaultTypes, SavedOwned,
                  ThreadTypes, OperationsHold, DraftsOwned, Owned, AwsTypes, StatusIsBacked, Valid
<1>5. QED BY <1>1, <1>2, <1>3, <1>4, HelperKeeps, SignInKeeps DEF Next, ThreadStep

-----------------------------------------------------------------------------
(* Theorems.                                                               *)

\* Locks, settings and tokens agree in every reachable state.
THEOREM ConsistentAlways == Spec => []Consistent
BY ConsistentInit, ConsistentStep, PTL DEF Spec

\* The types of the session: what is stored is valid, and only the thread that
\* has the operation lock works on settings.
THEOREM TypeCorrect == Spec => []TypeOK
BY ConsistentAlways, ConsistentTypes, PTL

\* A sign-in that is shown as in progress is one that a thread is in.
THEOREM StatusAlwaysBacked == Spec => []StatusIsBacked
<1>1. Consistent => StatusIsBacked
      BY DEF Consistent
<1>2. QED BY ConsistentAlways, <1>1, PTL

\* A session never ends up under another connection.
THEOREM TokensStayHome == Spec => []TokenMatchesPortal
<1>1. Consistent => TokenMatchesPortal
      BY DEF Consistent, SavedOwned, Owned, TokenMatchesPortal
<1>2. QED BY ConsistentAlways, <1>1, PTL

\* The user's settings stay as they are when a thread saves its session.
THEOREM SettingsAlwaysStay == Spec => SettingsStayTheUsers
<1> DEFINE Stays == pc' # pc /\ memory' # memory
                      => /\ memory'.portal = memory.portal
                         /\ memory'.targets \in {memory.targets,
                                                memory.targets \cap memory'.discovered}
<1>1. ASSUME Consistent, NEW s, NEW discovery \in BOOLEAN,
             Persist(s, discovery) \/ PersistFails(s, discovery)
      PROVE  Stays
      <2>1. CASE Persistable(s)
            <3>1. memory' = Merged(s, discovery) /\ memory \in Settings
                  BY <1>1, <2>1 DEF Persist, PersistFails, Persistable, Consistent, VaultTypes
            <3>2. CASE discovery
                  <4>1. memory' = [memory EXCEPT !.token = s.token,
                                       !.targets = memory.targets \cap s.discovered,
                                       !.discovered = s.discovered]
                        BY <3>1, <3>2 DEF Merged
                  <4>2. QED BY <3>1, <4>1 DEF Settings
            <3>3. CASE ~discovery
                  <4>1. memory' = [memory EXCEPT !.token = s.token, !.targets = memory.targets,
                                       !.discovered = memory.discovered]
                        BY <3>1, <3>3 DEF Merged
                  <4>2. QED BY <3>1, <4>1 DEF Settings
            <3>4. QED BY <3>2, <3>3
      <2>2. CASE ~Persistable(s)
            BY <1>1, <2>2 DEF Persist, PersistFails
      <2>3. QED BY <2>1, <2>2
<1>2. ASSUME Consistent, [Next]_vars
      PROVE  [Stays]_vars
      <2>1. UNCHANGED vaultVars => Stays
            BY DEF vaultVars
      <2>2. UNCHANGED threadVars => Stays
            BY DEF threadVars
      <2>3. ASSUME NEW s, NEW discovery \in BOOLEAN,
                   Persist(s, discovery) \/ PersistFails(s, discovery)
            PROVE  Stays
            BY <1>1, <1>2, <2>3
      <2>4. CASE User
            BY <2>1, <2>2, <2>4 DEF User, Lock, Unlock, SaveConnection, SaveAliases, SaveSettings,
                  Approve, EndGrant, Press, Callback
      <2>5. ASSUME NEW t \in Thread, ThreadStep(t)
            PROVE  Stays
            <3>1. CASE TakeOperation(t) \/ Context(t) \/ Reload(t) \/ Fetch(t) \/ Report(t)
                  BY <2>1, <3>1 DEF TakeOperation, Context, Reload, Fetch, Report
            <3>2. CASE Prepare(t) \/ Discover(t) \/ OpenBrowser(t) \/ Deadline(t)
                          \/ SignInFails(t) \/ Authorized(t)
                  BY <2>1, <3>2 DEF Prepare, Discover, OpenBrowser, Deadline, SignInFails, Authorized
            <3>3. CASE Serve(t) \/ Fail(t) \/ NeedSignIn(t) \/ FailToSave(t)
                  BY <2>3, <3>3 DEF Serve, Fail, NeedSignIn, FailToSave
            <3>4. CASE Complete(t)
                  <4>1. (result[t] = "ok") \in BOOLEAN
                        OBVIOUS
                  <4>2. QED BY <2>3, <3>4, <4>1 DEF Complete
            <3>5. QED BY <2>5, <3>1, <3>2, <3>3, <3>4 DEF ThreadStep, HelperStep, SignInStep
      <2>6. CASE UNCHANGED vars
            BY <2>6 DEF vars, vaultVars
      <2>7. QED BY <1>2, <2>4, <2>5, <2>6 DEF Next
<1>3. QED BY <1>2, ConsistentAlways, PTL DEF Spec, SettingsStayTheUsers

-----------------------------------------------------------------------------
(* The session survives.  SessionSurvives speaks of the moments between    *)
(* operations; the invariant says what a thread in an operation is still   *)
(* to repair.                                                              *)

Live(s) == s.token # NoToken => s.token.refresh \notin replaced

SameToken(r, s) ==
    /\ r.token # NoToken /\ s.token # NoToken
    /\ r.token.refresh = s.token.refresh /\ s.token.refresh # 0

\* What the vault has open is what its file says.
FileIsCurrent == unlocked => memory = file

\* A thread works on a token that AWS still accepts, and shares one with the
\* file only under the same connection.
DraftsAreLive ==
    \A t \in Thread : pc[t] \in Working =>
        /\ unlocked
        /\ Live(draft[t])
        /\ file # NoSettings /\ SameToken(draft[t], file) => draft[t].portal = file.portal

\* A stored token that was replaced is one that a thread is about to overwrite.
StaleIsRepaired ==
    file # NoSettings /\ ~Live(file)
        => \E t \in Thread : pc[t] \in Working /\ draft[t].portal = file.portal

Sound == ~spoiled => FileIsCurrent /\ DraftsAreLive /\ StaleIsRepaired

LEMMA SoundInit == Init => Sound
BY DEF Init, Sound, FileIsCurrent, DraftsAreLive, StaleIsRepaired, Live, Working, SigningIn

LEMMA NobodyWorks ==
    ASSUME Consistent, NEW t \in Thread, pc[t] \in Holding, pc[t] \notin Working
    PROVE  \A u \in Thread : pc[u] \notin Working
BY DEF Consistent, OperationsHold, Working, Holding

\* A step that touches no vault and no token.
LEMMA SoundQuiet ==
    ASSUME Sound, UNCHANGED <<unlocked, memory, file, replaced, spoiled>>,
           \A u \in Thread : pc'[u] \in Working <=> pc[u] \in Working,
           \A u \in Thread : pc[u] \in Working =>
               /\ draft'[u].portal = draft[u].portal
               /\ draft'[u].token \in {draft[u].token, NoToken}
    PROVE  Sound'
<1> SUFFICES ASSUME ~spoiled
             PROVE  FileIsCurrent' /\ DraftsAreLive' /\ StaleIsRepaired'
    BY DEF Sound
<1> USE DEF Sound
<1>1. FileIsCurrent'
      BY DEF FileIsCurrent
<1>2. DraftsAreLive'
      BY DEF DraftsAreLive, Live, SameToken
<1>3. StaleIsRepaired'
      BY DEF StaleIsRepaired, Live
<1>4. QED BY <1>1, <1>2, <1>3

\* A thread starts to work on the open settings.
LEMMA SoundLoad ==
    ASSUME Consistent, Sound, NEW t \in Thread, pc[t] \in Holding, pc[t] \notin Working,
           memory # NoSettings, NEW place \in Working, Goto(t, place),
           draft' = [draft EXCEPT ![t] = memory],
           UNCHANGED <<unlocked, memory, file, replaced, spoiled>>
    PROVE  Sound'
<1> SUFFICES ASSUME ~spoiled
             PROVE  FileIsCurrent' /\ DraftsAreLive' /\ StaleIsRepaired'
    BY DEF Sound
<1> USE DEF Sound
<1>1. unlocked /\ memory = file
      BY DEF Consistent, VaultTypes, FileIsCurrent
<1>2. \A u \in Thread : pc[u] \notin Working
      BY NobodyWorks
<1>3. Live(file)
      BY <1>1, <1>2 DEF StaleIsRepaired
<1>4. /\ \A u \in Thread : pc'[u] \in Working <=> u = t
      /\ draft'[t] = file
      BY <1>1, <1>2 DEF Goto, Consistent, ThreadTypes
<1>5. FileIsCurrent'
      BY <1>1 DEF FileIsCurrent
<1>6. DraftsAreLive'
      BY <1>1, <1>3, <1>4 DEF DraftsAreLive, Live
<1>7. StaleIsRepaired'
      BY <1>3 DEF StaleIsRepaired, Live
<1>8. QED BY <1>5, <1>6, <1>7

\* A thread saves its session and stops to work on it.
LEMMA SoundSave ==
    ASSUME Consistent, Sound, NEW t \in Thread, pc[t] \in Working,
           NEW s \in Settings, s = draft[t], NEW discovery \in BOOLEAN,
           Persist(s, discovery) \/ PersistFails(s, discovery),
           UNCHANGED awsVars, pc'[t] \notin Working,
           \A u \in Thread : u # t => pc'[u] = pc[u]
    PROVE  Sound'
<1> SUFFICES ASSUME ~spoiled'
             PROVE  FileIsCurrent' /\ DraftsAreLive' /\ StaleIsRepaired'
    BY DEF Sound
<1>1. Persist(s, discovery) /\ ~spoiled
      BY DEF Persist, PersistFails
<1>2. memory' = Merged(s, discovery) /\ file' = memory' /\ unlocked' = unlocked
      BY <1>1 DEF Persist
<1>3. memory \in Settings
      BY <1>1 DEF Persist, Persistable, Consistent, VaultTypes
<1>4. memory'.token = s.token
      BY <1>2, <1>3 DEF Merged, Settings
<1>5. Live(s)
      BY <1>1 DEF Sound, DraftsAreLive
<1>6. \A u \in Thread : pc'[u] \notin Working
      BY DEF Consistent, OperationsHold, Working, Holding
<1>7. FileIsCurrent' /\ DraftsAreLive'
      BY <1>2, <1>6 DEF FileIsCurrent, DraftsAreLive
<1>8. StaleIsRepaired'
      BY <1>2, <1>4, <1>5 DEF StaleIsRepaired, Live, awsVars
<1>9. QED BY <1>7, <1>8

\* A working thread gets a token that is newer than every stored one, or keeps
\* its own.
LEMMA SoundToken ==
    ASSUME Consistent, Sound, NEW t \in Thread, pc[t] \in Working, pc'[t] \in Working,
           \A u \in Thread : u # t => pc'[u] = pc[u],
           NEW s \in Settings, draft' = [draft EXCEPT ![t] = s],
           s.portal = draft[t].portal,
           UNCHANGED vaultVars, ~spoiled' => ~spoiled,
           \/ s.token = NoToken /\ replaced' = replaced
           \/ s.token = draft[t].token /\ (replaced' = replaced \/ spoiled')
           \/ s.token # NoToken /\ s.token.refresh \in {0, issued + 1} /\ replaced' = replaced
           \/ /\ s.token # NoToken /\ s.token.refresh = issued + 1
              /\ draft[t].token # NoToken /\ draft[t].token.refresh # 0
              /\ replaced' = replaced \cup {draft[t].token.refresh}
    PROVE  Sound'
<1> SUFFICES ASSUME ~spoiled'
             PROVE  FileIsCurrent' /\ DraftsAreLive' /\ StaleIsRepaired'
    BY DEF Sound
<1>1. FileIsCurrent /\ DraftsAreLive /\ StaleIsRepaired
      BY DEF Sound
<1>2. \A u \in Thread : pc[u] \in Working <=> u = t
      BY DEF Consistent, OperationsHold, Working, Holding
<1>3. \A u \in Thread : pc'[u] \in Working <=> u = t
      BY <1>2
<1>4. /\ draft'[t] = s /\ draft[t] \in Settings /\ draft[t].token \in Token \cup {NoToken}
      /\ issued \in Nat /\ replaced \subseteq 1..issued
      /\ draft[t].token # NoToken => draft[t].token.refresh <= issued /\ draft[t].token.refresh \in Nat
      /\ file # NoSettings /\ file.token # NoToken => file.token.refresh <= issued
                                                     /\ file.token.refresh \in Nat
      <2>1. draft[t] \in Settings /\ Owned(draft[t])
            BY WorkingHas
      <2>2. file # NoSettings => file \in Settings /\ Owned(file)
            BY DEF Consistent, VaultTypes, SavedOwned
      <2>3. issued \in Nat /\ replaced \subseteq 1..issued /\ draft'[t] = s
            BY IssuedAssumption DEF Consistent, AwsTypes, ThreadTypes
      <2>4. QED BY <2>1, <2>2, <2>3, IssuedAssumption DEF Settings, Token, Owned
<1>5. FileIsCurrent'
      BY <1>1 DEF FileIsCurrent, vaultVars
<1>6. Live(s)'
      <2>1. Live(draft[t])
            BY <1>1, <1>2 DEF DraftsAreLive
      <2>2. issued + 1 \notin replaced /\ 0 \notin replaced
            BY <1>4
      <2>3. draft[t].token # NoToken => issued + 1 # draft[t].token.refresh
            BY <1>4
      <2>4. QED BY <2>1, <2>2, <2>3 DEF Live
<1>7. file # NoSettings /\ SameToken(s, file) => s.portal = file.portal
      <2>1. file # NoSettings /\ SameToken(draft[t], file) => draft[t].portal = file.portal
            BY <1>1, <1>2 DEF DraftsAreLive
      <2>2. file # NoSettings /\ file.token # NoToken => file.token.refresh # issued + 1
            BY <1>4
      <2>3. QED BY <2>1, <2>2 DEF SameToken
<1>8. DraftsAreLive'
      BY <1>1, <1>2, <1>3, <1>4, <1>6, <1>7 DEF DraftsAreLive, Live, SameToken, vaultVars
<1>9. StaleIsRepaired'
      <2> SUFFICES ASSUME file # NoSettings, ~Live(file)'
                   PROVE  s.portal = file.portal
          BY <1>3, <1>4 DEF StaleIsRepaired, Live, vaultVars
      <2>1. CASE ~Live(file)
            BY <1>1, <1>2, <2>1 DEF StaleIsRepaired
      <2>2. CASE Live(file)
            <3>1. file' = file
                  BY DEF vaultVars
            <3>2. /\ file.token # NoToken /\ draft[t].token # NoToken
                  /\ file.token.refresh = draft[t].token.refresh /\ file.token.refresh # 0
                  BY <2>2, <3>1 DEF Live
            <3>3. SameToken(draft[t], file)
                  BY <3>2 DEF SameToken
            <3>4. QED BY <1>1, <1>2, <3>3 DEF DraftsAreLive
      <2>3. QED BY <2>1, <2>2
<1>10. QED BY <1>5, <1>8, <1>9

LEMMA SoundReceive ==
    ASSUME Consistent, Sound, NEW t \in Thread, pc[t] \in Working,
           NEW o, Answer(draft[t], o), Received(t, o),
           NEW place \in Working, Goto(t, place), UNCHANGED vaultVars
    PROVE  Sound'
<1>1. /\ draft[t] \in Settings /\ o.settings \in Settings
      /\ draft' = [draft EXCEPT ![t] = o.settings] /\ o.settings.portal = draft[t].portal
      BY WorkingHas DEF Received, Answer
<1>2. pc'[t] \in Working /\ (\A u \in Thread : u # t => pc'[u] = pc[u])
      BY DEF Goto, Consistent, ThreadTypes
<1>3. ~spoiled' => ~spoiled /\ o.token # "lost"
      BY DEF Received
<1>4. \/ o.settings.token = NoToken /\ replaced' = replaced
      \/ o.settings.token = draft[t].token /\ (replaced' = replaced \/ spoiled')
      \/ /\ o.settings.token # NoToken /\ o.settings.token.refresh = issued + 1
         /\ draft[t].token # NoToken /\ draft[t].token.refresh # 0
         /\ replaced' = replaced \cup {draft[t].token.refresh}
      <2>1. o.token # "replaced" /\ o.settings.token # NoToken
                => o.settings.token = draft[t].token
            BY <1>1, NoneAssumption DEF Answer, Settings, Token
      <2>2. CASE o.token = "kept"
            BY <2>1, <2>2 DEF Received
      <2>3. CASE o.token = "lost"
            BY <2>1, <2>3 DEF Received, Answer
      <2>4. CASE o.token = "replaced"
            BY <2>4 DEF Received, Answer
      <2>5. QED BY <2>2, <2>3, <2>4 DEF Answer
<1>5. QED BY <1>1, <1>2, <1>3, <1>4, SoundToken

LEMMA SoundUser ==
    ASSUME Consistent, Sound, User
    PROVE  Sound'
<1>1. CASE Lock
      <2> SUFFICES ASSUME ~spoiled'
                   PROVE  FileIsCurrent' /\ DraftsAreLive' /\ StaleIsRepaired'
          BY DEF Sound
      <2>1. ~spoiled /\ holder = NoThread
            BY <1>1 DEF Lock
      <2>2. \A u \in Thread : pc[u] \notin Working
            BY <2>1, ThreadAssumption DEF Consistent, OperationsHold, Working, Holding
      <2>3. QED BY <1>1, <2>1, <2>2 DEF Lock, threadVars, awsVars, Sound, FileIsCurrent,
                                   DraftsAreLive, StaleIsRepaired, Live
<1>2. CASE Unlock
      BY <1>2 DEF Unlock, threadVars, awsVars, Sound, FileIsCurrent, DraftsAreLive,
                  StaleIsRepaired, Live, SameToken
<1>3. ASSUME NEW s, SaveSettings(s), Sound,
             \/ s.token = NoToken
             \/ memory # NoSettings /\ s.token = memory.token /\ s.portal = memory.portal
      PROVE  Sound'
      <2> SUFFICES ASSUME ~spoiled'
                   PROVE  FileIsCurrent' /\ DraftsAreLive' /\ StaleIsRepaired'
          BY DEF Sound
      <2>1. /\ ~spoiled /\ memory' = s /\ file' = s /\ unlocked /\ unlocked' = unlocked
            /\ UNCHANGED <<pc, draft, replaced>>
            BY <1>3 DEF SaveSettings, threadVars, awsVars, Sound
      <2>2. memory = file /\ DraftsAreLive /\ StaleIsRepaired
            BY <1>3, <2>1 DEF Sound, FileIsCurrent
      <2>3. FileIsCurrent'
            BY <2>1 DEF FileIsCurrent
      <2>4. CASE s.token = NoToken
            BY <2>1, <2>2, <2>3, <2>4 DEF DraftsAreLive, StaleIsRepaired, Live, SameToken
      <2>5. CASE file # NoSettings /\ s.token = file.token /\ s.portal = file.portal
            BY <2>1, <2>2, <2>3, <2>5 DEF DraftsAreLive, StaleIsRepaired, Live, SameToken
      <2>6. QED BY <1>3, <2>2, <2>4, <2>5
<1>4. ASSUME NEW portal \in Portal, SaveConnection(portal)
      PROVE  Sound'
      <2>1. PICK s : /\ SaveSettings(s)
                     /\ \/ s.token = NoToken
                        \/ memory # NoSettings /\ s.token = memory.token
                             /\ s.portal = memory.portal
            BY <1>4 DEF SaveConnection
      <2>2. QED BY <1>3, <2>1
<1>5. ASSUME NEW named \in SUBSET Account, SaveAliases(named)
      PROVE  Sound'
      <2>1. PICK s : s = [memory EXCEPT !.targets = named]
            OBVIOUS
      <2>2. memory \in Settings /\ memory # NoSettings
            BY <1>5 DEF SaveAliases, Consistent, VaultTypes
      <2>3. s.token = memory.token /\ s.portal = memory.portal
            BY <2>1, <2>2 DEF Settings
      <2>4. SaveSettings(s)
            BY <1>5, <2>1 DEF SaveAliases
      <2>5. QED BY <1>3, <2>2, <2>3, <2>4
<1>6. ASSUME NEW t \in Thread, pc[t] \notin Working,
             NEW place \in Place \ Working, Goto(t, place),
             UNCHANGED <<vaultVars, draft, awsVars, spoiled>>
      PROVE  Sound'
      <2>1. \A u \in Thread : pc'[u] \in Working <=> pc[u] \in Working
            BY <1>6 DEF Goto, Consistent, ThreadTypes
      <2>2. QED BY <1>6, <2>1, SoundQuiet DEF vaultVars, awsVars
<1>7. ASSUME NEW h \in Helper, Approve(h)
      PROVE  Sound'
      <2>1. h \in Thread /\ pc[h] \notin Working /\ "approved" \in Place \ Working
            BY <1>7 DEF Approve, Thread, Working, SigningIn, Place
      <2>2. QED BY <1>6, <1>7, <2>1 DEF Approve
<1>8. ASSUME NEW h \in Helper, EndGrant(h)
      PROVE  Sound'
      BY <1>8, SoundQuiet DEF EndGrant, vaultVars, threadVars, awsVars
<1>9. ASSUME NEW t \in SignIn, Press(t)
      PROVE  Sound'
      <2>1. PICK place \in {"queued", "reporting"} : Goto(t, place)
            BY <1>9 DEF Press
      <2>2. t \in Thread /\ pc[t] \notin Working /\ place \in Place \ Working
            BY <1>9 DEF Press, Thread, Working, SigningIn, Place
      <2>3. QED BY <1>6, <1>9, <2>1, <2>2 DEF Press
<1>10. ASSUME NEW t \in Thread, NEW r \in LocalRequest, Callback(t, r)
      PROVE  Sound'
      <2>1. pc[t] \in Working /\ {"authorized", "failing"} \subseteq Working
            BY <1>10 DEF Callback, Working, SigningIn
      <2>2. draft[t] \in Settings
            BY <2>1, WorkingHas
      <2>3. CASE Goto(t, "failing") /\ UNCHANGED <<draft, issued>>
            <3>1. \A u \in Thread : pc'[u] \in Working <=> pc[u] \in Working
                  BY <2>1, <2>3 DEF Goto, Consistent, ThreadTypes
            <3>2. QED BY <1>10, <2>3, <3>1, SoundQuiet DEF Callback, vaultVars
      <2>4. ASSUME Goto(t, "authorized"),
                   NEW refresh \in {0} \cup {n \in {issued + 1} : n <= MaxIssued},
                   draft' = [draft EXCEPT ![t].token =
                                [portal |-> draft[t].portal, refresh |-> refresh]]
            PROVE  Sound'
            <3>1. PICK s : s = [draft[t] EXCEPT !.token = [portal |-> draft[t].portal,
                                                           refresh |-> refresh]]
                  OBVIOUS
            <3>2. refresh \in 0..MaxIssued
                  BY IssuedAssumption DEF Consistent, AwsTypes
            <3>3. /\ s \in Settings /\ s.portal = draft[t].portal /\ s.token \in Token
                  /\ s.token.refresh = refresh
                  BY <2>2, <3>1, <3>2 DEF Settings, Token
            <3>4. draft' = [draft EXCEPT ![t] = s]
                  BY <2>4, <3>1 DEF Consistent, ThreadTypes
            <3>5. pc'[t] \in Working /\ (\A u \in Thread : u # t => pc'[u] = pc[u])
                  BY <2>1, <2>4 DEF Goto, Consistent, ThreadTypes
            <3>6. UNCHANGED vaultVars /\ (~spoiled' => ~spoiled)
                  BY <1>10 DEF Callback
            <3>7. s.token # NoToken /\ s.token.refresh \in {0, issued + 1} /\ replaced' = replaced
                  BY <1>10, <3>3, NoneAssumption DEF Callback
            <3>8. QED BY <2>1, <3>3, <3>4, <3>5, <3>6, <3>7, SoundToken
      <2>5. QED BY <1>10, <2>3, <2>4 DEF Callback
<1>11. QED BY <1>1, <1>2, <1>4, <1>5, <1>7, <1>8, <1>9, <1>10 DEF User

LEMMA SoundThread ==
    ASSUME Consistent, Sound, NEW t \in Thread, ThreadStep(t)
    PROVE  Sound'
<1> USE DEF Consistent
<1>1. ASSUME pc[t] \notin Working, NEW place \in Place \ Working, Goto(t, place),
             UNCHANGED <<vaultVars, awsVars, spoiled>>,
             \A u \in Thread : u # t => draft'[u] = draft[u]
      PROVE  Sound'
      <2>1. \A u \in Thread : pc'[u] \in Working <=> pc[u] \in Working
            BY <1>1 DEF Goto, ThreadTypes
      <2>2. \A u \in Thread : pc[u] \in Working => draft'[u] = draft[u]
            BY <1>1
      <2>3. QED BY <1>1, <2>1, SoundQuiet DEF vaultVars, awsVars
<1>2. CASE TakeOperation(t) \/ Context(t) \/ Report(t)
      <2>1. PICK place \in {"reload", "prepare", "failed", "queued", "done"} : Goto(t, place)
            BY <1>2 DEF TakeOperation, Context, Report
      <2>2. place \in Place \ Working /\ pc[t] \notin Working
            BY <1>2 DEF TakeOperation, Context, Report, Place, Holding, Done, Working, SigningIn
      <2>3. QED BY <1>1, <1>2, <2>1, <2>2 DEF TakeOperation, Context, Report
<1>3. CASE Reload(t)
      <2>1. pc[t] \in Holding /\ pc[t] \notin Working
            BY <1>3 DEF Reload, Holding, Working, SigningIn
      <2>2. CASE memory = NoSettings
            <3>1. "failed" \in Place \ Working /\ Return(t, "failed")
                  BY <1>3, <2>2 DEF Reload, Place, Done, Holding, Working, SigningIn
            <3>2. QED BY <1>1, <1>3, <2>1, <3>1 DEF Reload, Return, ThreadTypes
      <2>3. CASE memory # NoSettings
            <3>1. PICK place \in {"fetch", "refetch"} : Goto(t, place)
                  BY <1>3, <2>3 DEF Reload
            <3>2. place \in Working
                  BY DEF Working
            <3>3. QED BY <1>3, <2>1, <2>3, <3>1, <3>2, SoundLoad DEF Reload, vaultVars, awsVars
      <2>4. QED BY <2>2, <2>3
<1>4. CASE Prepare(t)
      <2>1. pc[t] \in Holding /\ pc[t] \notin Working
            BY <1>4 DEF Prepare, Holding, Working, SigningIn
      <2>2. CASE ~MayPrepare
            <3>1. PICK place \in {"failed", "reporting"} : Return(t, place)
                  BY <1>4, <2>2 DEF Prepare
            <3>2. place \in Place \ Working
                  BY DEF Place, Done, Holding, Working, SigningIn
            <3>3. QED BY <1>1, <1>4, <2>1, <3>1, <3>2 DEF Prepare, Return, ThreadTypes
      <2>3. CASE MayPrepare
            <3>1. "discover" \in Working
                  BY DEF Working, SigningIn
            <3>2. memory # NoSettings /\ Goto(t, "discover") /\ draft' = [draft EXCEPT ![t] = memory]
                  BY <1>4, <2>3 DEF Prepare, MayPrepare
            <3>3. UNCHANGED <<unlocked, memory, file, replaced, spoiled>>
                  BY <1>4 DEF Prepare, vaultVars, awsVars
            <3>4. QED BY <2>1, <3>1, <3>2, <3>3, SoundLoad
      <2>4. QED BY <2>2, <2>3
<1>5. CASE Fetch(t)
      <2>1. pc[t] \in Working
            BY <1>5 DEF Fetch, Working
      <2>2. PICK s \in Settings : s = draft[t]
            BY <2>1, WorkingHas
      <2>3. PICK o \in Credentials(s) : Received(t, o)
            BY <1>5, <2>2 DEF Fetch
      <2>4. PICK place \in {"fetched", "refetched"} : Goto(t, place)
            BY <1>5 DEF Fetch
      <2>5. Answer(s, o) /\ place \in Working
            BY <2>3, CredentialsAnswer DEF AwsTypes, Working
      <2>6. QED BY <1>5, <2>1, <2>2, <2>3, <2>4, <2>5, SoundReceive DEF Fetch
<1>6. CASE Discover(t)
      <2>1. pc[t] \in Working
            BY <1>6 DEF Discover, Working, SigningIn
      <2>2. PICK s \in Settings : s = draft[t]
            BY <2>1, WorkingHas
      <2>3. PICK o \in Discovery(s), place \in {"browser", "complete"} :
                Received(t, o) /\ Goto(t, place)
            BY <1>6, <2>2 DEF Discover
      <2>4. Answer(s, o) /\ place \in Working
            BY <2>3, DiscoveryAnswers DEF AwsTypes, Working, SigningIn
      <2>5. QED BY <1>6, <2>1, <2>2, <2>3, <2>4, SoundReceive DEF Discover
<1>7. ASSUME pc[t] \in Working, NEW discovery \in BOOLEAN,
             Persist(draft[t], discovery) \/ PersistFails(draft[t], discovery),
             UNCHANGED awsVars, NEW place \in Place \ Working, Goto(t, place)
      PROVE  Sound'
      <2>1. PICK s \in Settings : s = draft[t]
            BY <1>7, WorkingHas
      <2>2. pc'[t] \notin Working /\ (\A u \in Thread : u # t => pc'[u] = pc[u])
            BY <1>7 DEF Goto, ThreadTypes
      <2>3. Persist(s, discovery) \/ PersistFails(s, discovery)
            BY <1>7, <2>1
      <2>4. QED BY <1>7, <2>1, <2>2, <2>3, SoundSave
<1>8. CASE Serve(t) \/ Fail(t) \/ FailToSave(t) \/ NeedSignIn(t)
      <2>1. PICK place \in {"served", "failed", "prepare"} : Goto(t, place)
            BY <1>8 DEF Serve, Fail, FailToSave, NeedSignIn, Return
      <2>2. place \in Place \ Working /\ pc[t] \in Working
            BY <1>8 DEF Serve, Fail, FailToSave, NeedSignIn, Fetched, Place, Done, Holding,
                        Working, SigningIn
      <2>3. /\ Persist(draft[t], FALSE) \/ PersistFails(draft[t], FALSE)
            /\ UNCHANGED awsVars
            BY <1>8 DEF Serve, Fail, FailToSave, NeedSignIn, Fetched
      <2>4. QED BY <1>7, <2>1, <2>2, <2>3
<1>9. CASE Complete(t)
      <2>1. PICK place \in {"again", "done"} : Goto(t, place)
            BY <1>9 DEF Complete, Return
      <2>2. place \in Place \ Working /\ pc[t] \in Working
            BY <1>9 DEF Complete, Place, Done, Holding, Working, SigningIn
      <2>3. PICK discovery \in BOOLEAN : discovery = (result[t] = "ok")
            OBVIOUS
      <2>4. /\ Persist(draft[t], discovery) \/ PersistFails(draft[t], discovery)
            /\ UNCHANGED awsVars
            BY <1>9, <2>3 DEF Complete
      <2>5. QED BY <1>7, <2>1, <2>2, <2>4
<1>10. ASSUME pc[t] \in Working, NEW place \in Working, Goto(t, place),
              NEW s \in {draft[t], [draft[t] EXCEPT !.token = NoToken]},
              draft' = [draft EXCEPT ![t] = s],
              UNCHANGED <<vaultVars, awsVars, spoiled>>
       PROVE  Sound'
      <2>1. draft[t] \in Settings
            BY <1>10, WorkingHas
      <2>2. s.portal = draft[t].portal /\ s.token \in {draft[t].token, NoToken}
            BY <1>10, <2>1 DEF Settings
      <2>3. \A u \in Thread : pc'[u] \in Working <=> pc[u] \in Working
            BY <1>10 DEF Goto, ThreadTypes
      <2>4. \A u \in Thread : draft'[u] = IF u = t THEN s ELSE draft[u]
            BY <1>10 DEF ThreadTypes
      <2>5. \A u \in Thread : /\ draft'[u].portal = draft[u].portal
                              /\ draft'[u].token \in {draft[u].token, NoToken}
            BY <2>2, <2>4
      <2>6. QED BY <1>10, <2>3, <2>5, SoundQuiet DEF vaultVars, awsVars
<1>11. CASE OpenBrowser(t)
      <2>1. PICK place \in {"awaiting", "failing"} : Goto(t, place)
            BY <1>11 DEF OpenBrowser
      <2>2. PICK s \in {draft[t], [draft[t] EXCEPT !.token = NoToken]} :
                draft' = [draft EXCEPT ![t] = s]
            BY <1>11 DEF OpenBrowser, Registered
      <2>3. pc[t] \in Working /\ place \in Working
            BY <1>11 DEF OpenBrowser, Working, SigningIn
      <2>4. QED BY <1>10, <1>11, <2>1, <2>2, <2>3 DEF OpenBrowser
<1>12. CASE Deadline(t) \/ Authorized(t)
      <2>1. PICK place \in {"failing", "rediscover"} : Goto(t, place)
            BY <1>12 DEF Deadline, Authorized
      <2>2. draft' = [draft EXCEPT ![t] = draft[t]]
            BY <1>12 DEF Deadline, Authorized, ThreadTypes
      <2>3. pc[t] \in Working /\ place \in Working
            BY <1>12 DEF Deadline, Authorized, Working, SigningIn
      <2>4. QED BY <1>10, <1>12, <2>1, <2>2, <2>3 DEF Deadline, Authorized
<1>13. CASE SignInFails(t)
      <2> SUFFICES ASSUME ~spoiled'
                   PROVE  FileIsCurrent' /\ DraftsAreLive' /\ StaleIsRepaired'
          BY DEF Sound
      <2>1. pc[t] \in Working
            BY <1>13 DEF SignInFails, Working, SigningIn
      <2>2. PICK place \in {"failed", "reporting"} : Goto(t, place)
            BY <1>13 DEF SignInFails, Return
      <2>3. place \notin Working
            BY DEF Working, SigningIn
      <2>4. \A u \in Thread : pc'[u] \notin Working
            BY <2>1, <2>2, <2>3 DEF Goto, ThreadTypes, OperationsHold, Working, Holding
      <2>5. ~spoiled /\ ~StaleSession /\ UNCHANGED <<unlocked, memory, file, replaced>>
            BY <1>13 DEF SignInFails, vaultVars, awsVars
      <2>6. memory = file
            BY <2>1, <2>5 DEF Sound, DraftsAreLive, FileIsCurrent
      <2>7. QED BY <2>4, <2>5, <2>6 DEF FileIsCurrent, DraftsAreLive, StaleIsRepaired,
                                        StaleSession, Live
<1>14. QED BY <1>2, <1>3, <1>4, <1>5, <1>6, <1>8, <1>9, <1>11, <1>12, <1>13
           DEF ThreadStep, HelperStep, SignInStep

\* As long as no failure was reported, what is stored is current, or a thread
\* is about to make it so.
THEOREM SoundAlways == Spec => []Sound
<1>1. Consistent /\ Sound /\ [Next]_vars => Sound'
      <2> SUFFICES ASSUME Consistent, Sound, [Next]_vars PROVE Sound'
          OBVIOUS
      <2>1. CASE UNCHANGED vars
            <3>1. /\ UNCHANGED <<unlocked, memory, file, replaced, spoiled>>
                  /\ UNCHANGED <<pc, draft>>
                  BY <2>1 DEF vars, vaultVars, threadVars, awsVars
            <3>2. QED BY <3>1, SoundQuiet
      <2>2. QED BY <2>1, SoundUser, SoundThread DEF Next
<1>2. QED BY SoundInit, ConsistentAlways, <1>1, PTL DEF Spec

\* Between two operations the stored session is one that AWS still accepts,
\* unless a failure was reported.
THEOREM SessionAlwaysSurvives == Spec => []SessionSurvives
<1>1. Consistent /\ Sound => SessionSurvives
      <2> SUFFICES ASSUME Consistent, Sound, holder = NoThread, ~spoiled, StaleSession
                   PROVE  FALSE
          BY DEF SessionSurvives
      <2>1. \A t \in Thread : pc[t] \notin Working
            BY ThreadAssumption DEF Consistent, OperationsHold, Working, Holding
      <2>2. memory # NoSettings /\ unlocked /\ memory = file /\ ~Live(memory)
            BY DEF StaleSession, Consistent, VaultTypes, Sound, FileIsCurrent, Live
      <2>3. QED BY <2>1, <2>2 DEF Sound, StaleIsRepaired
<1>2. QED BY ConsistentAlways, SoundAlways, <1>1, PTL

-----------------------------------------------------------------------------
(* One operation at a time, and what it needs to succeed.                  *)

\* Loading, renewing and saving a session is one operation of one thread.
THEOREM OperationsAlwaysExclude == Spec => []OperationsExclude
<1>1. Consistent => OperationsExclude
      BY DEF Consistent, OperationsHold, ThreadTypes, OperationsExclude
<1>2. QED BY ConsistentAlways, <1>1, PTL

\* A thread that is about to call AWS has a token that AWS still accepts.
THEOREM ReplacedTokensNeverSent == Spec => []ReplacedTokensStayUnsent
<1>1. {"fetch", "refetch", "discover", "rediscover"} \subseteq Working
      BY DEF Working, SigningIn
<1>2. Consistent /\ Sound => ReplacedTokensStayUnsent
      BY <1>1 DEF Sound, DraftsAreLive, Live, ReplacedTokensStayUnsent
<1>3. QED BY <1>2, SoundAlways, ConsistentAlways, PTL

\* Where a thread looks at what its call to AWS returned.
Answered == {"fetched", "refetched", "complete"}

\* A call that succeeded left a session.
OkHasToken ==
    \A t \in Thread : pc[t] \in Answered /\ result[t] = "ok" => draft[t].token # NoToken

LEMMA OkAnswers ==
    ASSUME issued \in 0..MaxIssued, NEW s \in Settings,
           NEW o \in Credentials(s) \cup Discovery(s), o.result = "ok"
    PROVE  o.settings.token # NoToken
<1>1. ASSUME NEW p \in Refreshed(s), p.result = "ok"
      PROVE  p.settings.token # NoToken
      <2>1. Answer(s, p)
            BY RefreshAnswers
      <2>2. p \in Renewed(s) \/ p.token # "kept"
            BY <1>1 DEF Refreshed, Contacted, Outcome
      <2>3. QED BY <2>1, <2>2 DEF Renewed, Outcome, Answer
<1>2. ASSUME NEW p \in Refreshed(s), p.result = "ok", NEW r, o = [p EXCEPT !.result = r]
      PROVE  o.settings = p.settings
      BY <1>2 DEF Refreshed, Renewed, Contacted, Outcome
<1>3. ASSUME NEW p \in Refreshed(s), p.result = "ok", NEW accounts \in SUBSET Account,
             o = [p EXCEPT !.settings = Assigned(p.settings, accounts)]
      PROVE  o.settings.token = p.settings.token
      <2>1. o.settings = Assigned(p.settings, accounts) /\ p.settings \in Settings
            BY <1>3, RefreshAnswers DEF Refreshed, Renewed, Contacted, Outcome, Answer
      <2>2. QED BY <2>1 DEF Assigned, Settings
<1>4. QED BY <1>1, <1>2, <1>3 DEF Credentials, Discovery

\* A step of one thread keeps what is known of the others.
LEMMA OkLocal ==
    ASSUME OkHasToken, NEW t \in Thread,
           \A u \in Thread \ {t} : /\ pc'[u] = pc[u] /\ result'[u] = result[u]
                                   /\ draft'[u] = draft[u],
           pc'[t] \in Answered /\ result'[t] = "ok" => draft'[t].token # NoToken
    PROVE  OkHasToken'
BY DEF OkHasToken

LEMMA OkStep ==
    ASSUME Consistent, OkHasToken, [Next]_vars
    PROVE  OkHasToken'
<1>0. /\ pc \in [Thread -> Place] /\ draft \in [Thread -> Settings \cup {NoSettings}]
      /\ result \in [Thread -> Result] /\ issued \in 0..MaxIssued
      BY DEF Consistent, ThreadTypes, AwsTypes
<1>1. ASSUME UNCHANGED <<pc, draft, result>> PROVE OkHasToken'
      BY <1>1 DEF OkHasToken
<1>2. ASSUME NEW t \in Thread, NEW place \in Place \ Answered, Goto(t, place),
             \A u \in Thread \ {t} : draft'[u] = draft[u] /\ result'[u] = result[u]
      PROVE  OkHasToken'
      BY <1>0, <1>2, OkLocal DEF Goto
<1>3. ASSUME NEW t \in Thread, NEW place \in Place \ Answered, Return(t, place)
      PROVE  OkHasToken'
      BY <1>0, <1>2, <1>3 DEF Return
<1>4. ASSUME NEW t \in Thread, NEW o, NEW place \in Place, Goto(t, place), Received(t, o),
             pc[t] \in Working, o \in Credentials(draft[t]) \cup Discovery(draft[t])
      PROVE  OkHasToken'
      <2>1. PICK s \in Settings : s = draft[t]
            BY <1>4, WorkingHas
      <2>2. o.result = "ok" => o.settings.token # NoToken
            BY <1>0, <1>4, <2>1, OkAnswers
      <2>3. QED BY <1>0, <1>4, <2>2, OkLocal DEF Goto, Received
<1>5. CASE User
      <2>1. ASSUME NEW t \in Thread, NEW r \in LocalRequest, Callback(t, r)
            PROVE  OkHasToken'
            <3>1. PICK place \in {"authorized", "failing"} : Goto(t, place)
                  BY <2>1 DEF Callback
            <3>2. place \in Place \ Answered
                  BY DEF Place, Holding, SigningIn, Answered
            <3>3. \A u \in Thread \ {t} : draft'[u] = draft[u] /\ result'[u] = result[u]
                  BY <1>0, <2>1 DEF Callback
            <3>4. QED BY <1>2, <3>1, <3>2, <3>3
      <2>2. ASSUME NEW h \in Helper, Approve(h)
            PROVE  OkHasToken'
            BY <1>2, <2>2 DEF Approve, Place, Answered, Thread
      <2>3. ASSUME NEW t \in SignIn, Press(t)
            PROVE  OkHasToken'
            BY <1>2, <2>3 DEF Press, Place, Holding, Answered, Thread
      <2>4. CASE Lock \/ Unlock
            BY <1>1, <2>4 DEF Lock, Unlock, threadVars
      <2>5. ASSUME NEW s, SaveSettings(s)
            PROVE  OkHasToken'
            BY <1>1, <2>5 DEF SaveSettings, threadVars
      <2>6. ASSUME NEW h \in Helper, EndGrant(h)
            PROVE  OkHasToken'
            BY <1>1, <2>6 DEF EndGrant, threadVars
      <2>7. QED BY <1>5, <2>1, <2>2, <2>3, <2>4, <2>5, <2>6 DEF User, SaveConnection, SaveAliases
<1>6. ASSUME NEW t \in Thread, TakeOperation(t)
      PROVE  OkHasToken'
      BY <1>2, <1>6 DEF TakeOperation, Place, Holding, Answered
<1>7. ASSUME NEW h \in Helper, HelperStep(h)
      PROVE  OkHasToken'
      <2>0. h \in Thread
            BY DEF Thread
      <2>1. CASE Context(h)
            BY <1>2, <2>0, <2>1 DEF Context, Place, Done, Answered
      <2>2. CASE Reload(h)
            <3>1. CASE memory = NoSettings
                  BY <1>3, <2>0, <2>2, <3>1 DEF Reload, Place, Done, Answered
            <3>2. CASE memory # NoSettings
                  BY <1>0, <1>2, <2>0, <2>2, <3>2 DEF Reload, Place, Holding, Answered
            <3>3. QED BY <3>1, <3>2
      <2>3. CASE Fetch(h)
            <3>1. PICK o \in Credentials(draft[h]) : Received(h, o)
                  BY <2>3 DEF Fetch
            <3>2. PICK place \in {"fetched", "refetched"} : Goto(h, place)
                  BY <2>3 DEF Fetch
            <3>3. pc[h] \in Working /\ place \in Place
                  BY <2>3 DEF Fetch, Working, Place, Holding
            <3>4. QED BY <1>4, <2>0, <3>1, <3>2, <3>3
      <2>4. CASE Serve(h) \/ Fail(h) \/ FailToSave(h)
            BY <1>3, <2>0, <2>4 DEF Serve, Fail, FailToSave, Place, Done, Answered
      <2>5. CASE NeedSignIn(h)
            BY <1>0, <1>2, <2>0, <2>5 DEF NeedSignIn, Place, Holding, Answered
      <2>6. QED BY <1>7, <2>1, <2>2, <2>3, <2>4, <2>5 DEF HelperStep
<1>8. ASSUME NEW t \in Thread, SignInStep(t)
      PROVE  OkHasToken'
      <2>1. CASE Prepare(t)
            <3>1. CASE MayPrepare
                  BY <1>0, <1>2, <2>1, <3>1 DEF Prepare, Place, Holding, SigningIn, Answered
            <3>2. CASE ~MayPrepare
                  <4>1. PICK place \in {"failed", "reporting"} : Return(t, place)
                        BY <2>1, <3>2 DEF Prepare
                  <4>2. QED BY <1>3, <4>1 DEF Place, Done, Answered
            <3>3. QED BY <3>1, <3>2
      <2>2. CASE Discover(t)
            <3>1. PICK o \in Discovery(draft[t]) :
                        /\ Received(t, o)
                        /\ Goto(t, IF pc[t] = "discover" /\ o.result = "expired" THEN "browser"
                                   ELSE "complete")
                  BY <2>2 DEF Discover
            <3>2. PICK place \in {"browser", "complete"} : Goto(t, place)
                  BY <3>1
            <3>3. pc[t] \in Working /\ place \in Place
                  BY <2>2 DEF Discover, Working, Place, Holding, SigningIn
            <3>4. QED BY <1>4, <3>1, <3>2, <3>3
      <2>3. CASE OpenBrowser(t)
            <3>1. PICK place \in {"awaiting", "failing"} : Goto(t, place)
                  BY <2>3 DEF OpenBrowser
            <3>2. place \in Place \ Answered
                  BY DEF Place, Holding, SigningIn, Answered
            <3>3. QED BY <1>0, <1>2, <2>3, <3>1, <3>2 DEF OpenBrowser
      <2>4. CASE Deadline(t)
            BY <1>2, <2>4 DEF Deadline, Place, Holding, SigningIn, Answered
      <2>5. CASE SignInFails(t)
            <3>1. PICK place \in {"failed", "reporting"} : Return(t, place)
                  BY <2>5 DEF SignInFails
            <3>2. QED BY <1>3, <3>1 DEF Place, Done, Answered
      <2>6. CASE Authorized(t)
            BY <1>2, <2>6 DEF Authorized, Place, Holding, SigningIn, Answered
      <2>7. CASE Complete(t)
            <3>1. CASE t \in Helper
                  BY <1>0, <1>2, <2>7, <3>1 DEF Complete, Place, Holding, Answered
            <3>2. CASE t \notin Helper
                  BY <1>3, <2>7, <3>2 DEF Complete, Place, Done, Answered
            <3>3. QED BY <3>1, <3>2
      <2>8. QED BY <1>8, <2>1, <2>2, <2>3, <2>4, <2>5, <2>6, <2>7 DEF SignInStep
<1>9. ASSUME NEW t \in SignIn, Report(t)
      PROVE  OkHasToken'
      BY <1>2, <1>9 DEF Report, Place, Done, Answered, Thread
<1>10. CASE UNCHANGED vars
      BY <1>1, <1>10 DEF vars, threadVars
<1>11. QED BY <1>5, <1>6, <1>7, <1>8, <1>9, <1>10 DEF Next, ThreadStep

\* What a thread saves becomes the open settings and the file's.
LEMMA PersistSaves ==
    ASSUME Consistent, NEW s \in Settings, Owned(s), s.token # NoToken,
           NEW discovery \in BOOLEAN, Persist(s, discovery)
    PROVE  Saved /\ memory'.token = s.token /\ memory.portal = s.portal
<1>1. memory \in Settings /\ unlocked /\ memory.portal = s.portal
      BY DEF Persist, Persistable, Consistent, VaultTypes
<1>2. memory' = Merged(s, discovery) /\ file' = memory'
      BY DEF Persist
<1>3. memory'.token = s.token /\ memory'.portal = memory.portal
      BY <1>1, <1>2 DEF Merged, Settings
<1>4. QED BY <1>1, <1>2, <1>3 DEF Saved, Owned

\* Nothing is reported as a success that the vault file does not hold.
THEOREM SuccessAlwaysSaved == Spec => SuccessIsSaved
<1> DEFINE Served == \A h \in Helper : pc'[h] = "served" /\ pc[h] # "served"
                        => Saved /\ memory'.token = draft[h].token /\ memory.portal = draft[h].portal
           LoggedIn == status' = "LoggedIn" /\ status # "LoggedIn" => Saved
<1>1. ASSUME Consistent, OkHasToken, [Next]_vars, NEW h \in Helper,
             pc'[h] = "served", pc[h] # "served"
      PROVE  Saved /\ memory'.token = draft[h].token /\ memory.portal = draft[h].portal
      <2>0. h \in Thread /\ pc \in [Thread -> Place]
            BY <1>1 DEF Consistent, ThreadTypes, Thread
      <2>1. Serve(h)
            <3>1. CASE User
                  BY <1>1, <2>0, <3>1 DEF User, Lock, Unlock, SaveConnection, SaveAliases,
                     SaveSettings, Approve, EndGrant, Press, Callback, threadVars, Goto
            <3>2. ASSUME NEW t \in Thread, ThreadStep(t), ~Serve(t) PROVE FALSE
                  BY <1>1, <2>0, <3>2 DEF ThreadStep, TakeOperation, HelperStep, Context, Reload,
                     Fetch, Fail, NeedSignIn, FailToSave, SignInStep, Prepare, Discover,
                     OpenBrowser, Deadline, SignInFails, Authorized, Complete, Report, Goto, Return
            <3>3. ASSUME NEW t \in Thread, Serve(t) PROVE t = h
                  BY <1>1, <2>0, <3>3 DEF Serve, Return, Goto
            <3>4. CASE UNCHANGED vars
                  BY <1>1, <3>4 DEF vars, threadVars
            <3>5. QED BY <1>1, <3>1, <3>2, <3>3, <3>4 DEF Next
      <2>2. pc[h] \in Answered /\ pc[h] \in Working /\ result[h] = "ok" /\ Persist(draft[h], FALSE)
            BY <2>1 DEF Serve, Fetched, Answered, Working
      <2>3. PICK s \in Settings : s = draft[h] /\ Owned(s)
            BY <1>1, <2>0, <2>2, WorkingHas
      <2>4. s.token # NoToken /\ Persist(s, FALSE)
            BY <1>1, <2>0, <2>2, <2>3 DEF OkHasToken
      <2>5. QED BY <1>1, <2>3, <2>4, PersistSaves
<1>2. ASSUME Consistent, OkHasToken, [Next]_vars, status' = "LoggedIn", status # "LoggedIn"
      PROVE  Saved
      <2>1. PICK t \in Thread : Complete(t) /\ result[t] = "ok" /\ Persist(draft[t], TRUE)
            <3>1. CASE User
                  BY <1>2, <3>1 DEF User, Lock, Unlock, SaveConnection, SaveAliases,
                     SaveSettings, Approve, EndGrant, Press, Callback
            <3>2. ASSUME NEW t \in Thread, ThreadStep(t), ~Complete(t) PROVE FALSE
                  BY <1>2, <3>2 DEF ThreadStep, TakeOperation, HelperStep, Context, Reload,
                     Fetch, Fetched, Serve, Fail, NeedSignIn, FailToSave, SignInStep, Prepare, Discover,
                     OpenBrowser, Deadline, SignInFails, Authorized, Report
            <3>3. ASSUME NEW t \in Thread, Complete(t)
                  PROVE  result[t] = "ok" /\ Persist(draft[t], TRUE)
                  BY <1>2, <3>3 DEF Complete
            <3>4. CASE UNCHANGED vars
                  BY <1>2, <3>4 DEF vars
            <3>5. QED BY <1>2, <3>1, <3>2, <3>3, <3>4 DEF Next
      <2>2. pc[t] \in Answered /\ pc[t] \in Working
            BY <2>1 DEF Complete, Answered, Working, SigningIn
      <2>3. PICK s \in Settings : s = draft[t] /\ Owned(s)
            BY <1>2, <2>2, WorkingHas
      <2>4. s.token # NoToken /\ Persist(s, TRUE)
            BY <1>2, <2>1, <2>2, <2>3 DEF OkHasToken
      <2>5. QED BY <1>2, <2>3, <2>4, PersistSaves
<1>3. Init => OkHasToken
      BY DEF Init, OkHasToken, Answered
<1>4. Consistent /\ OkHasToken /\ [Next]_vars => OkHasToken'
      BY OkStep
<1>5. Consistent /\ OkHasToken /\ [Next]_vars => Served /\ LoggedIn
      BY <1>1, <1>2
<1>6. QED BY <1>3, <1>4, <1>5, ConsistentAlways, PTL DEF Spec, SuccessIsSaved

===============================================================================
