----------------------------- MODULE DesktopProofs -----------------------------
(***************************************************************************)
(* The desktop process, for any number of clients, connections and process *)
(* IDs: the slots add up, and nothing but the user's closing the window    *)
(* dismisses a request.                                                    *)
(***************************************************************************)
EXTENDS Desktop, FiniteSetTheorems, TLAPS

Stages == {"idle", "backlog", "accepted", "refused"} \cup Threads

-----------------------------------------------------------------------------
(* The inductive invariant, by the state it is about.                      *)

ProcessOK ==
    /\ desktop \in {"off", "running", "quitting"}
    /\ endpoint \in {"none", "current", "stale"}
    /\ listening \in BOOLEAN

BacklogOK ==
    /\ backlog \in Seq(Conn)
    /\ IsInjective(backlog)
    /\ ToSet(backlog) = {c \in Conn : conn[c] = "backlog"}

StagesOK ==
    /\ conn \in [Conn -> Stages]
    /\ accepted \in Conn \cup {NoConn}
    /\ \A c \in Conn : conn[c] \in {"accepted", "refused"} <=> accepted = c

Taken == Cardinality(Live) + leaked

\* A connection that was let in still has its slot when its thread starts.
SlotsOK ==
    /\ active \in Nat /\ leaked \in 0..MaxLeaks
    /\ active = Taken + IF accepted = NoConn THEN 0 ELSE 1
    /\ Taken <= MaxConnections
    /\ \A c \in Conn : conn[c] = "accepted" => Taken < MaxConnections

Walks == [at : Pid \cup {0}, tree : Seq(Pid)]

WalksOK ==
    /\ walk \in [Conn -> Walks]
    /\ \A c \in Conn : Sound(walk[c], ProcessOf[c])
    /\ \A c \in Conn : walk[c].tree = << >> => walk[c].at \in {0, ProcessOf[c]}

QueueOK ==
    /\ queue \in [Conn -> Times \cup {0}]
    /\ resolution \in [Conn -> {"none", "decided", "dismissed"}]
    /\ \A c \in Conn : queue[c] # 0 => conn[c] = "waiting" /\ resolution[c] = "none"
    /\ \A c \in Conn : resolution[c] # "none" => conn[c] = "waiting"

\* A turn in which a request is dismissed began with the user's click.
WindowOK ==
    /\ window \in BOOLEAN
    /\ shown \in Conn \cup {NoConn}
    /\ main \in [doing : {"idle", "open", "close", "dismiss", "deny"},
                 by : {"user", "reconcile"}, was : Conn \cup {NoConn}, target : Conn \cup {NoConn}]
    /\ ~window => shown = NoConn
    /\ window \/ main # Idle => desktop = "running"
    /\ main.doing = "deny" => main.by = "user" /\ main.target \in Conn
    /\ main.doing = "dismiss" => main.by = "user"
    /\ main.doing = "open" => ~window

Consistent ==
    /\ ProcessTypeOK
    /\ ProcessOK
    /\ BacklogOK
    /\ StagesOK
    /\ SlotsOK
    /\ WalksOK
    /\ QueueOK
    /\ WindowOK

-----------------------------------------------------------------------------
(* What each group of actions leaves alone.                                *)

LEMMA MainLeaves ==
    ASSUME MainThread \/ Render \/ User
    PROVE  UNCHANGED <<endpoint, backlog, listening, accepted, active, leaked, table, connVars>>
BY DEF MainThread, Render, User, Reconcile, OpenRequest, CloseRequest, PickOldest, DenyPicked, Click, LockVault,
   UserCloses, Quit, WindowClosed, serverVars, windowVars, connVars

LEMMA ThreadsLeave ==
    ASSUME NEW c \in Conn, ThreadStep(c)
    PROVE  UNCHANGED <<desktop, endpoint, backlog, listening, accepted, leaked, table>>
BY DEF ThreadStep, Read, Look, Looked, Ask, Wake, TimeOut, Reply, Return, serverVars

ListenerStep == StopListening \/ \E c \in Conn : Accept(c) \/ Refuse(c) \/ Spawn(c) \/ SpawnFails(c)

LEMMA ListenerLeaves ==
    ASSUME ListenerStep
    PROVE  UNCHANGED <<desktop, endpoint, table, walk, queueVars>>
BY DEF ListenerStep, Accept, Refuse, Spawn, SpawnFails, StopListening, Unchanged

SystemStep == OtherProcesses \/ (\E c \in Conn : Connect(c) \/ Leave(c)) \/ StartDesktop

LEMMA SystemLeaves ==
    ASSUME SystemStep
    PROVE  UNCHANGED <<accepted, active, leaked, walk, queueVars>>
BY DEF SystemStep, OtherProcesses, Connect, Leave, StartDesktop, serverVars, connVars

\* The other groups of Next.
MainStep == MainThread \/ Render \/ User

ThreadsStep == \E c \in Conn : ThreadStep(c)

End == EndDesktop \/ CrashDesktop

LEMMA Steps ==
    ASSUME [Next]_allVars
    PROVE  \/ UNCHANGED allVars
           \/ MainStep
           \/ ListenerStep /\ UNCHANGED windowVars
           \/ SystemStep /\ UNCHANGED windowVars
           \/ ThreadsStep /\ UNCHANGED windowVars
           \/ End /\ NoWindows
BY DEF Next, Server, AcceptStep, MainStep, ListenerStep, SystemStep, ThreadsStep, End

\* The end of the process leaves nothing.
LEMMA Ended ==
    ASSUME End
    PROVE  /\ desktop' = "off" /\ listening' = FALSE /\ endpoint' \in {"none", "stale"}
           /\ backlog' = << >> /\ accepted' = NoConn /\ active' = 0 /\ leaked' = 0
           /\ conn' = [c \in Conn |-> "idle"]
           /\ walk' = [c \in Conn |-> NoWalk]
           /\ queue' = [c \in Conn |-> 0]
           /\ resolution' = [c \in Conn |-> "none"]
           /\ table' = table
BY DEF End, EndDesktop, CrashDesktop, ProcessEnds, Dropped

-----------------------------------------------------------------------------
(* The process table and the process.                                      *)

LEMMA TableStays ==
    ASSUME Consistent, [Next]_allVars
    PROVE  ProcessTypeOK'
<1> USE DEF ProcessTypeOK
<1>1. ASSUME NEW parent \in Pid, NEW pid \in Pid, Fork(parent, pid) PROVE ProcessTypeOK'
  BY <1>1, ProcessAssumption DEF Consistent, Fork, Alive
<1>2. ASSUME NEW pid \in Pid, Exit(pid) PROVE ProcessTypeOK'
  BY <1>2, ProcessAssumption DEF Consistent, Exit, Alive, Gone
<1>3. ASSUME table' = table PROVE ProcessTypeOK'
  BY <1>3 DEF Consistent, Alive
<1>4. CASE SystemStep
  <2>1. \A c \in Conn : ProcessOf[c] \in Pid
    BY ServerAssumption
  <2> QED
    BY <1>1, <1>2, <1>3, <1>4, <2>1 DEF SystemStep, OtherProcesses, Connect, Leave, StartDesktop
<1>5. CASE UNCHANGED allVars
  BY <1>3, <1>5 DEF allVars
<1>6. CASE MainStep
  BY <1>3, <1>6, MainLeaves DEF MainStep
<1>7. CASE ListenerStep
  BY <1>3, <1>7, ListenerLeaves
<1>8. CASE ThreadsStep
  BY <1>3, <1>8, ThreadsLeave DEF ThreadsStep
<1>9. CASE End
  BY <1>3, <1>9, Ended
<1> QED
  BY <1>4, <1>5, <1>6, <1>7, <1>8, <1>9, Steps

LEMMA ProcessStays ==
    ASSUME Consistent, [Next]_allVars
    PROVE  ProcessOK'
<1> USE DEF ProcessOK, Consistent
<1>1. CASE SystemStep
  BY <1>1 DEF SystemStep, OtherProcesses, Connect, Leave, StartDesktop, WriteEndpoint, serverVars
<1>2. CASE UNCHANGED allVars
  BY <1>2 DEF allVars, serverVars
<1>3. CASE MainStep
  <2>1. desktop' \in {desktop, "quitting"}
    BY <1>3 DEF MainStep, MainThread, Render, User, Reconcile, OpenRequest, CloseRequest, PickOldest, DenyPicked,
       Click, LockVault, UserCloses, Quit, WindowClosed, serverVars
  <2> QED
    BY <1>3, <2>1, MainLeaves DEF MainStep
<1>4. CASE ListenerStep
  BY <1>4, ListenerLeaves DEF ListenerStep, Accept, Refuse, Spawn, SpawnFails, StopListening
<1>5. CASE ThreadsStep
  BY <1>5, ThreadsLeave DEF ThreadsStep
<1>6. CASE End
  BY <1>6, Ended
<1> QED
  BY <1>1, <1>2, <1>3, <1>4, <1>5, <1>6, Steps

-----------------------------------------------------------------------------
(* The stages of the connections.                                          *)

LEMMA BecomesStage ==
    ASSUME StagesOK, NEW c \in Conn, NEW stage \in Stages, Becomes(c, stage)
    PROVE  /\ conn' \in [Conn -> Stages]
           /\ conn'[c] = stage
           /\ \A d \in Conn \ {c} : conn'[d] = conn[d]
BY DEF StagesOK, Becomes

\* What a thread's step does to its stage.
LEMMA ThreadMoves ==
    ASSUME Consistent, NEW c \in Conn, ThreadStep(c)
    PROVE  /\ conn' \in [Conn -> Stages]
           /\ \A d \in Conn \ {c} : conn'[d] = conn[d]
           /\ conn[c] \in Threads
           /\ conn'[c] \in Threads \cup {"idle"}
           /\ conn'[c] = "idle" <=> Return(c)
           /\ Return(c) \/ active' = active
<1> USE DEF Threads, Stages
<1>1. StagesOK
  BY DEF Consistent
<1>2. ASSUME NEW stage \in Threads, Becomes(c, stage) PROVE conn' \in [Conn -> Stages] /\ conn'[c] = stage
                                                         /\ \A d \in Conn \ {c} : conn'[d] = conn[d]
  BY <1>1, <1>2, BecomesStage
<1>3. CASE Read(c) \/ Ask(c) \/ Wake(c) \/ Reply(c)
  BY <1>1, <1>2, <1>3 DEF Read, Ask, Wake, Reply, serverVars, Return, StagesOK
<1>4. CASE Looked(c)
  BY <1>1, <1>2, <1>4 DEF Looked, serverVars, Return, StagesOK
<1>5. CASE Look(c)
  BY <1>1, <1>5 DEF Look, serverVars, StagesOK, Return
<1>6. CASE TimeOut(c)
  BY <1>1, <1>6 DEF TimeOut, serverVars, connVars, Queued, Consistent, QueueOK, StagesOK, Return
<1>7. CASE Return(c)
  BY <1>1, <1>7, BecomesStage DEF Return, StagesOK
<1> QED
  BY <1>3, <1>4, <1>5, <1>6, <1>7 DEF ThreadStep

LEMMA StagesStay ==
    ASSUME Consistent, [Next]_allVars
    PROVE  StagesOK'
<1> USE DEF Threads, Stages
<1>1. StagesOK /\ NoConn \notin Conn
  BY ServerAssumption DEF Consistent
<1>2. ASSUME UNCHANGED <<conn, accepted>> PROVE StagesOK'
  BY <1>1, <1>2 DEF StagesOK
<1>3. CASE SystemStep
  <2>1. CASE \E c \in Conn : Connect(c)
    <3>1. PICK c \in Conn : Connect(c)
      BY <2>1
    <3>2. conn[c] = "idle" /\ Becomes(c, "backlog") /\ accepted' = accepted
      BY <3>1 DEF Connect
    <3> QED
      BY <1>1, <3>2, BecomesStage DEF StagesOK
  <2> QED
    BY <1>2, <1>3, <2>1 DEF SystemStep, OtherProcesses, Leave, StartDesktop, serverVars, connVars
<1>4. CASE UNCHANGED allVars
  BY <1>2, <1>4 DEF allVars, serverVars, connVars
<1>5. CASE MainStep
  BY <1>2, <1>5, MainLeaves DEF MainStep, connVars
<1>6. CASE StopListening
  BY <1>1, <1>6 DEF StopListening, Dropped, StagesOK, Consistent, BacklogOK
<1>7. ASSUME NEW c \in Conn, Accept(c) PROVE StagesOK'
  <2>1. /\ conn[c] = "backlog" /\ accepted = NoConn /\ accepted' = c
        /\ \E stage \in {"accepted", "refused"} : Becomes(c, stage)
    <3>1. c \in ToSet(backlog)
      BY <1>7 DEF Accept, ToSet, Consistent, BacklogOK
    <3> QED
      BY <1>7, <3>1 DEF Accept, Consistent, BacklogOK
  <2> QED
    BY <1>1, <2>1, BecomesStage DEF StagesOK
<1>8. ASSUME NEW c \in Conn, Refuse(c) \/ SpawnFails(c) PROVE StagesOK'
  BY <1>1, <1>8, BecomesStage DEF Refuse, SpawnFails, StagesOK
<1>9. ASSUME NEW c \in Conn, Spawn(c) PROVE StagesOK'
  BY <1>1, <1>9, BecomesStage DEF Spawn, StagesOK
<1>10. CASE ThreadsStep
  <2>1. PICK c \in Conn : ThreadStep(c)
    BY <1>10 DEF ThreadsStep
  <2> QED
    BY <1>1, <2>1, ThreadMoves, ThreadsLeave DEF StagesOK
<1>11. CASE End
  BY <1>1, <1>11, Ended DEF StagesOK
<1> QED
  BY <1>3, <1>4, <1>5, <1>6, <1>7, <1>8, <1>9, <1>10, <1>11, Steps DEF ListenerStep

-----------------------------------------------------------------------------
(* The backlog.                                                            *)

LEMMA AppendOne ==
    ASSUME NEW S, NEW s \in Seq(S), NEW x \in S \ ToSet(s), IsInjective(s)
    PROVE  /\ Append(s, x) \in Seq(S)
           /\ IsInjective(Append(s, x))
           /\ ToSet(Append(s, x)) = ToSet(s) \cup {x}
<1>1. /\ Append(s, x) \in Seq(S) /\ Len(Append(s, x)) = Len(s) + 1
      /\ \A i \in 1..Len(s) : Append(s, x)[i] = s[i]
      /\ Append(s, x)[Len(s) + 1] = x
  OBVIOUS
<1>2. DOMAIN s = 1..Len(s) /\ DOMAIN Append(s, x) = 1..(Len(s) + 1) /\ Len(s) \in Nat
  BY <1>1
<1>3. \A i \in 1..Len(s) : s[i] # x
  BY <1>2 DEF ToSet
<1>4. IsInjective(Append(s, x))
  BY <1>1, <1>2, <1>3 DEF IsInjective
<1>5. ToSet(Append(s, x)) = ToSet(s) \cup {x}
  BY <1>1, <1>2 DEF ToSet
<1> QED
  BY <1>1, <1>4, <1>5

LEMMA TakeOne ==
    ASSUME NEW S, NEW s \in Seq(S), s # << >>, IsInjective(s)
    PROVE  /\ Tail(s) \in Seq(S)
           /\ IsInjective(Tail(s))
           /\ ToSet(Tail(s)) = ToSet(s) \ {Head(s)}
<1>1. /\ Tail(s) \in Seq(S) /\ Len(Tail(s)) = Len(s) - 1 /\ Len(s) \in Nat \ {0}
      /\ \A i \in 1..(Len(s) - 1) : Tail(s)[i] = s[i + 1]
      /\ Head(s) = s[1]
  OBVIOUS
<1>2. DOMAIN s = 1..Len(s) /\ DOMAIN Tail(s) = 1..(Len(s) - 1)
  BY <1>1
<1>3. IsInjective(Tail(s))
  <2> SUFFICES ASSUME NEW i \in 1..(Len(s) - 1), NEW j \in 1..(Len(s) - 1), Tail(s)[i] = Tail(s)[j]
               PROVE  i = j
    BY <1>2 DEF IsInjective
  <2>1. s[i + 1] = s[j + 1] /\ i + 1 \in 1..Len(s) /\ j + 1 \in 1..Len(s)
    BY <1>1
  <2>2. i + 1 = j + 1
    BY <1>2, <2>1 DEF IsInjective
  <2> QED
    BY <1>1, <2>2
<1>4. ASSUME NEW x \in ToSet(Tail(s)) PROVE x \in ToSet(s) \ {Head(s)}
  <2>1. PICK i \in 1..(Len(s) - 1) : x = s[i + 1]
    BY <1>1, <1>2 DEF ToSet
  <2>2. i + 1 \in 1..Len(s) /\ 1 \in 1..Len(s) /\ i + 1 # 1
    BY <1>1
  <2> QED
    BY <1>1, <1>2, <2>1, <2>2 DEF ToSet, IsInjective
<1>5. ASSUME NEW x \in ToSet(s) \ {Head(s)} PROVE x \in ToSet(Tail(s))
  <2>1. PICK i \in 1..Len(s) : x = s[i] /\ i # 1
    BY <1>1, <1>2 DEF ToSet
  <2>2. i - 1 \in 1..(Len(s) - 1) /\ Tail(s)[i - 1] = x
    BY <1>1, <2>1
  <2> QED
    BY <1>2, <2>2 DEF ToSet
<1> QED
  BY <1>1, <1>3, <1>4, <1>5

LEMMA BacklogStays ==
    ASSUME Consistent, [Next]_allVars
    PROVE  BacklogOK'
<1> USE DEF Threads, Stages
<1>1. BacklogOK /\ StagesOK
  BY DEF Consistent
<1>2. ASSUME UNCHANGED <<conn, backlog>> PROVE BacklogOK'
  BY <1>1, <1>2 DEF BacklogOK
<1>3. ASSUME backlog' = backlog, NEW c \in Conn, conn[c] # "backlog", conn'[c] # "backlog",
             \A d \in Conn \ {c} : conn'[d] = conn[d]
      PROVE  BacklogOK'
  <2>1. {d \in Conn : conn'[d] = "backlog"} = {d \in Conn : conn[d] = "backlog"}
    BY <1>3
  <2> QED
    BY <1>1, <1>3, <2>1 DEF BacklogOK
<1>4. ASSUME backlog' = << >>, \A c \in Conn : conn'[c] # "backlog" PROVE BacklogOK'
  <2>1. << >> \in Seq(Conn) /\ IsInjective(<< >>) /\ ToSet(<< >>) = {}
    BY DEF IsInjective, ToSet
  <2>2. {c \in Conn : conn'[c] = "backlog"} = {}
    BY <1>4
  <2> QED
    BY <1>4, <2>1, <2>2 DEF BacklogOK
<1>5. CASE SystemStep
  <2>1. ASSUME NEW c \in Conn, Connect(c) PROVE BacklogOK'
    <3>1. conn[c] = "idle" /\ Becomes(c, "backlog") /\ backlog' = Append(backlog, c)
      BY <2>1 DEF Connect
    <3>2. c \notin ToSet(backlog)
      BY <1>1, <3>1 DEF BacklogOK
    <3>3. conn'[c] = "backlog" /\ \A d \in Conn \ {c} : conn'[d] = conn[d]
      BY <1>1, <3>1, BecomesStage
    <3>4. {d \in Conn : conn'[d] = "backlog"} = {d \in Conn : conn[d] = "backlog"} \cup {c}
      BY <3>3
    <3>5. /\ Append(backlog, c) \in Seq(Conn) /\ IsInjective(Append(backlog, c))
          /\ ToSet(Append(backlog, c)) = ToSet(backlog) \cup {c}
      BY <1>1, <3>2, AppendOne DEF BacklogOK
    <3> QED
      BY <1>1, <3>1, <3>4, <3>5 DEF BacklogOK
  <2> QED
    BY <1>2, <1>5, <2>1 DEF SystemStep, OtherProcesses, Leave, StartDesktop, serverVars, connVars
<1>6. CASE UNCHANGED allVars
  BY <1>2, <1>6 DEF allVars, serverVars, connVars
<1>7. CASE MainStep
  BY <1>2, <1>7, MainLeaves DEF MainStep, connVars
<1>8. CASE StopListening
  <2>1. \A c \in Conn : conn'[c] # "backlog"
    BY <1>1, <1>8 DEF StopListening, Dropped, BacklogOK
  <2> QED
    BY <1>4, <1>8, <2>1 DEF StopListening
<1>9. ASSUME NEW c \in Conn, Accept(c) PROVE BacklogOK'
  <2>1. /\ backlog # << >> /\ c = Head(backlog) /\ backlog' = Tail(backlog)
        /\ \E stage \in {"accepted", "refused"} : Becomes(c, stage)
    BY <1>9 DEF Accept
  <2>2. conn'[c] # "backlog" /\ \A d \in Conn \ {c} : conn'[d] = conn[d]
    BY <1>1, <2>1, BecomesStage
  <2>3. {d \in Conn : conn'[d] = "backlog"} = {d \in Conn : conn[d] = "backlog"} \ {c}
    BY <2>2
  <2>4. /\ Tail(backlog) \in Seq(Conn) /\ IsInjective(Tail(backlog))
        /\ ToSet(Tail(backlog)) = ToSet(backlog) \ {c}
    BY <1>1, <2>1, TakeOne DEF BacklogOK
  <2> QED
    BY <1>1, <2>1, <2>3, <2>4 DEF BacklogOK
<1>10. ASSUME NEW c \in Conn, Refuse(c) \/ SpawnFails(c) \/ Spawn(c) PROVE BacklogOK'
  <2>1. backlog' = backlog /\ conn[c] \in {"accepted", "refused"} /\ \E stage \in {"idle", "reading"} : Becomes(c, stage)
    BY <1>10 DEF Refuse, SpawnFails, Spawn
  <2>2. conn'[c] # "backlog" /\ \A d \in Conn \ {c} : conn'[d] = conn[d]
    BY <1>1, <2>1, BecomesStage
  <2> QED
    BY <1>3, <2>1, <2>2
<1>11. CASE ThreadsStep
  <2>1. PICK c \in Conn : ThreadStep(c)
    BY <1>11 DEF ThreadsStep
  <2>2. backlog' = backlog /\ conn[c] # "backlog" /\ conn'[c] # "backlog" /\ \A d \in Conn \ {c} : conn'[d] = conn[d]
    BY <2>1, ThreadMoves, ThreadsLeave
  <2> QED
    BY <1>3, <2>2
<1>12. CASE End
  BY <1>4, <1>12, Ended
<1> QED
  BY <1>5, <1>6, <1>7, <1>8, <1>9, <1>10, <1>11, <1>12, Steps DEF ListenerStep

-----------------------------------------------------------------------------
(* The slots.                                                              *)

LEMMA LiveFinite == IsFiniteSet(Live) /\ Cardinality(Live) \in Nat
<1>1. Live \in SUBSET Conn /\ IsFiniteSet(Conn)
  BY ServerAssumption DEF Live
<1>2. IsFiniteSet(Live)
  BY <1>1, FS_Subset
<1> QED
  BY <1>2, FS_CardinalityType

LEMMA SameLive ==
    ASSUME \A c \in Conn : conn'[c] \in Threads <=> conn[c] \in Threads
    PROVE  Live' = Live
BY DEF Live

\* A thread starts.
LEMMA OneMore ==
    ASSUME NEW c \in Conn, conn[c] \notin Threads, conn'[c] \in Threads,
           \A d \in Conn \ {c} : conn'[d] = conn[d]
    PROVE  Cardinality(Live') = Cardinality(Live) + 1
<1>1. c \notin Live /\ Live' = Live \cup {c}
  BY DEF Live
<1> QED
  BY <1>1, LiveFinite, FS_AddElement

\* A thread ends.
LEMMA OneLess ==
    ASSUME NEW c \in Conn, conn[c] \in Threads, conn'[c] \notin Threads,
           \A d \in Conn \ {c} : conn'[d] = conn[d]
    PROVE  Cardinality(Live') = Cardinality(Live) - 1 /\ Cardinality(Live') \in Nat
<1>1. c \in Live /\ Live' = Live \ {c}
  BY DEF Live
<1>2. IsFiniteSet(Live') /\ Cardinality(Live') = Cardinality(Live) - 1
  BY <1>1, LiveFinite, FS_RemoveElement
<1> QED
  BY <1>2, FS_CardinalityType

LEMMA SlotsStay ==
    ASSUME Consistent, [Next]_allVars
    PROVE  SlotsOK'
<1> USE ServerAssumption
<1>1. /\ SlotsOK /\ StagesOK /\ StagesOK' /\ BacklogOK
      /\ Cardinality(Live) \in Nat /\ leaked \in Nat /\ active \in Nat
  BY LiveFinite, StagesStay DEF Consistent, SlotsOK
<1>2. ASSUME UNCHANGED <<active, leaked, accepted>>, Live' = Live,
             \A c \in Conn : conn'[c] = "accepted" => conn[c] = "accepted"
      PROVE  SlotsOK'
  BY <1>1, <1>2 DEF SlotsOK, Taken
<1>3. CASE SystemStep
  <2>1. CASE \E c \in Conn : Connect(c)
    <3>1. PICK c \in Conn : Connect(c)
      BY <2>1
    <3>2. conn[c] = "idle" /\ Becomes(c, "backlog")
      BY <3>1 DEF Connect
    <3>3. conn'[c] = "backlog" /\ \A d \in Conn \ {c} : conn'[d] = conn[d]
      BY <1>1, <3>2, BecomesStage DEF Stages
    <3>4. Live' = Live
      BY <3>2, <3>3, SameLive DEF Threads
    <3> QED
      BY <1>2, <1>3, <3>3, <3>4, SystemLeaves
  <2>2. CASE conn' = conn
    BY <1>2, <1>3, <2>2, SystemLeaves DEF Live
  <2> QED
    BY <1>3, <2>1, <2>2 DEF SystemStep, OtherProcesses, Leave, StartDesktop, connVars
<1>4. CASE UNCHANGED allVars
  BY <1>2, <1>4 DEF allVars, serverVars, connVars, Live
<1>5. CASE MainStep
  BY <1>2, <1>5, MainLeaves DEF MainStep, connVars, Live
<1>6. CASE StopListening
  <2>1. \A c \in Conn : conn'[c] = IF conn[c] = "backlog" THEN "idle" ELSE conn[c]
    BY <1>1, <1>6 DEF StopListening, Dropped, BacklogOK
  <2>2. Live' = Live
    BY <2>1, SameLive DEF Threads
  <2> QED
    BY <1>2, <1>6, <2>1, <2>2 DEF StopListening
<1>7. ASSUME NEW c \in Conn, Accept(c) PROVE SlotsOK'
  <2>1. /\ accepted = NoConn /\ accepted' = c /\ active' = active + 1 /\ leaked' = leaked
        /\ Becomes(c, IF active >= MaxConnections THEN "refused" ELSE "accepted")
    BY <1>7 DEF Accept
  <2>2. c \in ToSet(backlog)
    BY <1>1, <1>7 DEF Accept, ToSet, BacklogOK
  <2>3. /\ conn[c] = "backlog" /\ conn'[c] = IF active >= MaxConnections THEN "refused" ELSE "accepted"
        /\ \A d \in Conn \ {c} : conn'[d] = conn[d]
    BY <1>1, <2>1, <2>2, BecomesStage DEF Stages, BacklogOK
  <2>4. Live' = Live
    BY <2>3, SameLive DEF Threads
  <2>5. \A d \in Conn : conn'[d] = "accepted" => d = c /\ active < MaxConnections
    BY <1>1, <2>1, <2>3 DEF StagesOK
  <2> QED
    BY <1>1, <2>1, <2>4, <2>5 DEF SlotsOK, Taken
<1>8. ASSUME NEW c \in Conn, Refuse(c) PROVE SlotsOK'
  <2>1. /\ accepted = c /\ conn[c] = "refused" /\ accepted' = NoConn /\ active' = active - 1 /\ leaked' = leaked
        /\ Becomes(c, "idle")
    BY <1>8 DEF Refuse
  <2>2. conn'[c] = "idle" /\ \A d \in Conn \ {c} : conn'[d] = conn[d]
    BY <1>1, <2>1, BecomesStage DEF Stages
  <2>3. Live' = Live
    BY <2>1, <2>2, SameLive DEF Threads
  <2> QED
    BY <1>1, <2>1, <2>2, <2>3 DEF SlotsOK, Taken, StagesOK
<1>9. ASSUME NEW c \in Conn, SpawnFails(c) PROVE SlotsOK'
  <2>1. /\ accepted = c /\ conn[c] = "accepted" /\ accepted' = NoConn /\ active' = active
        /\ leaked < MaxLeaks /\ leaked' = leaked + 1
        /\ Becomes(c, "idle")
    BY <1>9 DEF SpawnFails
  <2>2. conn'[c] = "idle" /\ \A d \in Conn \ {c} : conn'[d] = conn[d]
    BY <1>1, <2>1, BecomesStage DEF Stages
  <2>3. Live' = Live
    BY <2>1, <2>2, SameLive DEF Threads
  <2>4. \A d \in Conn : conn'[d] # "accepted"
    BY <1>1, <2>1, <2>2 DEF StagesOK
  <2> QED
    BY <1>1, <2>1, <2>3, <2>4 DEF SlotsOK, Taken
<1>10. ASSUME NEW c \in Conn, Spawn(c) PROVE SlotsOK'
  <2>1. /\ accepted = c /\ conn[c] = "accepted" /\ accepted' = NoConn /\ active' = active /\ leaked' = leaked
        /\ Becomes(c, "reading")
    BY <1>10 DEF Spawn
  <2>2. conn'[c] = "reading" /\ \A d \in Conn \ {c} : conn'[d] = conn[d]
    BY <1>1, <2>1, BecomesStage DEF Stages, Threads
  <2>3. Cardinality(Live') = Cardinality(Live) + 1
    BY <2>1, <2>2, OneMore DEF Threads
  <2>4. \A d \in Conn : conn'[d] # "accepted"
    BY <1>1, <2>1, <2>2 DEF StagesOK
  <2> QED
    BY <1>1, <2>1, <2>3, <2>4 DEF SlotsOK, Taken
<1>11. ASSUME NEW c \in Conn, ThreadStep(c) PROVE SlotsOK'
  <2>1. /\ conn[c] \in Threads /\ conn'[c] \in Threads \cup {"idle"}
        /\ \A d \in Conn \ {c} : conn'[d] = conn[d]
        /\ leaked' = leaked /\ accepted' = accepted
    BY <1>11, ThreadMoves, ThreadsLeave
  <2>2. CASE conn'[c] \in Threads
    <3>1. Live' = Live /\ active' = active
      BY <1>11, <2>1, <2>2, SameLive, ThreadMoves DEF Threads
    <3> QED
      BY <1>2, <2>1, <2>2, <3>1 DEF Threads
  <2>3. CASE conn'[c] = "idle"
    <3>1. active' = active - 1
      BY <1>11, <2>3, ThreadMoves DEF Return
    <3>2. Cardinality(Live') = Cardinality(Live) - 1 /\ Cardinality(Live') \in Nat
      BY <2>1, <2>3, OneLess DEF Threads
    <3>3. \A d \in Conn : conn'[d] = "accepted" => conn[d] = "accepted"
      BY <2>1, <2>3
    <3> QED
      BY <1>1, <2>1, <3>1, <3>2, <3>3 DEF SlotsOK, Taken
  <2> QED
    BY <2>1, <2>2, <2>3
<1>12. CASE End
  <2>1. Live' = {}
    BY <1>12, Ended DEF Live, Threads
  <2>2. Cardinality(Live') = 0
    BY <2>1, FS_EmptySet
  <2> QED
    BY <1>1, <1>12, <2>2, Ended DEF SlotsOK, Taken
<1> QED
  BY <1>3, <1>4, <1>5, <1>6, <1>7, <1>8, <1>9, <1>10, <1>11, <1>12, Steps DEF ListenerStep, ThreadsStep

-----------------------------------------------------------------------------
(* The walks to the ancestors.                                             *)

\* One more process, which was not found before.
LEMMA LookSound ==
    ASSUME ProcessTypeOK, NEW w \in Walks, NEW pid \in Pid, Sound(w, pid), GoesOn(w),
           w.tree = << >> => w.at \in {0, pid}
    PROVE  /\ Inspect(w) \in Walks
           /\ Sound(Inspect(w), pid)
           /\ Inspect(w).tree = << >> => Inspect(w).at \in {0, pid}
<1>1. /\ w.at \in Pid /\ w.tree \in Seq(Pid) /\ Len(w.tree) < Limit /\ w.at \notin ToSet(w.tree)
      /\ IsInjective(w.tree) /\ (w.tree # << >> => w.tree[1] = pid)
      /\ Limit \in Nat /\ 0 \notin Pid
  BY ProcessAssumption DEF Walks, GoesOn, Visited, Sound
<1>2. CASE ~Alive(w.at)
  <2>1. Inspect(w) = [w EXCEPT !.at = 0]
    BY <1>2 DEF Inspect
  <2>2. Inspect(w) \in Walks /\ Inspect(w).tree = w.tree /\ Inspect(w).at = 0
    BY <2>1 DEF Walks
  <2> QED
    BY <2>2 DEF Sound
<1>3. CASE Alive(w.at)
  <2> DEFINE longer == Append(w.tree, w.at)
  <2>1. Inspect(w) = [at |-> table[w.at], tree |-> longer]
    BY <1>3 DEF Inspect
  <2>2. table[w.at] \in Pid \cup {0}
    BY <1>1, <1>3 DEF Alive, ProcessTypeOK
  <2>3. longer \in Seq(Pid) /\ IsInjective(longer)
    BY <1>1, AppendOne
  <2>4. Len(longer) = Len(w.tree) + 1 /\ longer # << >> /\ Len(w.tree) \in Nat
    <3>1. w.tree \in Seq(Pid) /\ Len(w.tree) \in Nat
      BY <1>1
    <3>2. Len(longer) = Len(w.tree) + 1
      BY <1>1, <3>1
    <3> HIDE DEF longer
    <3>3. longer = << >> => Len(longer) = 0
      OBVIOUS
    <3> QED
      BY <3>1, <3>2, <3>3
  <2>5. longer[1] = pid
    <3>1. CASE w.tree = << >>
      BY <1>1, <3>1
    <3>2. CASE w.tree # << >>
      BY <1>1, <3>2
    <3> QED
      BY <3>1, <3>2
  <2> HIDE DEF longer
  <2>6. Inspect(w) \in Walks /\ Inspect(w).tree = longer
    BY <2>1, <2>2, <2>3 DEF Walks
  <2> QED
    BY <1>1, <2>3, <2>4, <2>5, <2>6 DEF Sound
<1> QED
  BY <1>2, <1>3

LEMMA FreshWalks ==
    ASSUME NEW pid \in Pid
    PROVE  /\ From(pid) \in Walks /\ NoWalk \in Walks
           /\ Sound(From(pid), pid) /\ Sound(NoWalk, pid)
           /\ From(pid).at = pid /\ NoWalk.at = 0
<1>1. << >> \in Seq(Pid) /\ IsInjective(<< >>) /\ Len(<< >>) = 0 /\ Limit \in Nat
  BY ProcessAssumption DEF IsInjective
<1> QED
  BY <1>1 DEF From, NoWalk, Walks, Sound

LEMMA WalksStay ==
    ASSUME Consistent, [Next]_allVars
    PROVE  WalksOK'
<1>1. WalksOK /\ \A c \in Conn : ProcessOf[c] \in Pid
  BY ServerAssumption DEF Consistent
<1>2. ASSUME walk' = walk PROVE WalksOK'
  BY <1>1, <1>2 DEF WalksOK, Sound
<1>3. ASSUME NEW c \in Conn, NEW w \in Walks, walk' = [walk EXCEPT ![c] = w], Sound(w, ProcessOf[c]),
             w.tree = << >> => w.at \in {0, ProcessOf[c]}
      PROVE  WalksOK'
  BY <1>1, <1>3 DEF WalksOK, Sound
<1>4. ASSUME NEW c \in Conn, ThreadStep(c) PROVE WalksOK'
  <2>1. CASE Read(c)
    BY <1>1, <1>2, <1>3, <2>1, FreshWalks DEF Read
  <2>2. CASE Look(c)
    BY <1>1, <1>3, <2>2, LookSound DEF Look, WalksOK, Consistent
  <2>3. CASE Looked(c)
    BY <1>1, <1>3, <2>3, FreshWalks DEF Looked
  <2> QED
    BY <1>2, <1>4, <2>1, <2>2, <2>3 DEF ThreadStep, Ask, Wake, TimeOut, Reply, Return, connVars
<1>5. CASE End
  BY <1>1, <1>5, Ended, FreshWalks DEF WalksOK
<1>6. CASE UNCHANGED allVars
  BY <1>2, <1>6 DEF allVars, connVars
<1>7. CASE MainStep
  BY <1>2, <1>7, MainLeaves DEF MainStep, connVars
<1> QED
  BY <1>2, <1>4, <1>5, <1>6, <1>7, ListenerLeaves, SystemLeaves, Steps DEF ThreadsStep

-----------------------------------------------------------------------------
(* The pending requests and their resolutions.                             *)

LEMMA ResolveOK ==
    ASSUME Consistent, NEW S \in SUBSET Conn, NEW result \in {"decided", "dismissed"}, Resolve(S, result)
    PROVE  /\ queue' \in [Conn -> Times \cup {0}]
           /\ resolution' \in [Conn -> {"none", "decided", "dismissed"}]
           /\ \A c \in Conn : queue'[c] # 0 => queue[c] # 0 /\ resolution'[c] = resolution[c]
           /\ \A c \in Conn : resolution'[c] \in {resolution[c], result}
           /\ \A c \in Conn : resolution'[c] # resolution[c] => queue[c] # 0
BY DEF Consistent, QueueOK, Resolve, Queued

LEMMA MainResolves ==
    ASSUME Consistent, MainStep
    PROVE  \/ UNCHANGED queueVars
           \/ \E S \in SUBSET Conn : Resolve(S, "decided")
           \/ main.doing = "deny" /\ main.by = "user" /\ \E S \in SUBSET Conn : Resolve(S, "dismissed")
<1>1. Queued \in SUBSET Conn
  BY DEF Queued
<1>2. CASE Click
  <2>1. PICK others \in SUBSET (Queued \ {shown}) : Resolve({shown} \cup others, "decided")
    BY <1>2 DEF Click
  <2>2. {shown} \cup others \in SUBSET Conn
    BY <1>1, <1>2, <2>1 DEF Click
  <2> QED
    BY <2>1, <2>2
<1>3. CASE LockVault \/ Quit
  BY <1>1, <1>3 DEF LockVault, Quit
<1>4. CASE DenyPicked
  <2>1. main.by = "user" /\ {main.target} \cap Queued \in SUBSET Conn
    BY <1>1, <1>4 DEF DenyPicked, Consistent, WindowOK
  <2> QED
    BY <1>4, <2>1 DEF DenyPicked
<1> QED
  BY <1>2, <1>3, <1>4 DEF MainStep, MainThread, Render, User, Reconcile, OpenRequest, CloseRequest, PickOldest,
     UserCloses, WindowClosed

LEMMA QueueStays ==
    ASSUME Consistent, [Next]_allVars
    PROVE  QueueOK'
<1> USE DEF Threads, Stages
<1>1. QueueOK /\ StagesOK
  BY DEF Consistent
<1>2. ASSUME UNCHANGED queueVars, \A c \in Conn : conn[c] = "waiting" => conn'[c] = "waiting" PROVE QueueOK'
  BY <1>1, <1>2 DEF QueueOK, queueVars
<1>3. ASSUME conn' = conn, NEW S \in SUBSET Conn, NEW result \in {"decided", "dismissed"}, Resolve(S, result)
      PROVE  QueueOK'
  BY <1>1, <1>3, ResolveOK DEF QueueOK
<1>4. ASSUME NEW c \in Conn, ThreadStep(c) PROVE QueueOK'
  <2>1. CASE Read(c) \/ Look(c) \/ Looked(c) \/ Reply(c) \/ Return(c)
    <3>1. UNCHANGED queueVars /\ conn[c] # "waiting"
      BY <2>1 DEF Read, Look, Looked, Reply, Return
    <3> QED
      BY <1>2, <1>4, <3>1, ThreadMoves
  <2>2. CASE Ask(c)
    <3>1. CASE queue' = queue
      BY <1>2, <1>4, <2>2, <3>1, ThreadMoves DEF Ask, queueVars
    <3>2. CASE \E time \in Times : Becomes(c, "waiting") /\ queue' = [queue EXCEPT ![c] = time]
      <4>1. conn[c] = "asking" /\ resolution' = resolution /\ resolution[c] = "none"
        BY <2>2 DEF Ask, Consistent, QueueOK
      <4>2. conn'[c] = "waiting" /\ \A d \in Conn \ {c} : conn'[d] = conn[d]
        BY <1>1, <3>2, BecomesStage
      <4> QED
        BY <1>1, <3>2, <4>1, <4>2 DEF QueueOK
    <3> QED
      BY <2>2, <3>1, <3>2 DEF Ask
  <2>3. CASE Wake(c)
    <3>1. /\ conn[c] = "waiting" /\ resolution[c] # "none" /\ queue' = queue
          /\ resolution' = [resolution EXCEPT ![c] = "none"] /\ \A d \in Conn \ {c} : conn'[d] = conn[d]
      BY <1>4, <2>3, ThreadMoves DEF Wake
    <3> QED
      BY <1>1, <3>1 DEF QueueOK
  <2>4. CASE TimeOut(c)
    <3>1. PICK others \in SUBSET (Queued \ {c}) : Resolve({c} \cup others, "decided")
      BY <2>4 DEF TimeOut
    <3>2. {c} \cup others \in SUBSET Conn /\ conn' = conn
      BY <2>4, <3>1 DEF TimeOut, connVars, Queued
    <3> QED
      BY <1>3, <3>1, <3>2
  <2> QED
    BY <1>4, <2>1, <2>2, <2>3, <2>4 DEF ThreadStep
<1>5. CASE End
  BY <1>5, Ended DEF QueueOK
<1>6. CASE UNCHANGED allVars
  BY <1>2, <1>6 DEF allVars, connVars
<1>7. CASE MainStep
  <2>1. conn' = conn
    BY <1>7, MainLeaves DEF MainStep, connVars
  <2> QED
    BY <1>2, <1>3, <1>7, <2>1, MainResolves
<1>8. CASE SystemStep
  <2>1. \A c \in Conn : conn[c] = "waiting" => conn'[c] = "waiting"
    BY <1>1, <1>8 DEF SystemStep, OtherProcesses, Connect, Leave, StartDesktop, Becomes, connVars, StagesOK
  <2> QED
    BY <1>2, <1>8, <2>1, SystemLeaves
<1>9. CASE ListenerStep
  <2>1. \A c \in Conn : conn[c] = "waiting" => conn'[c] = "waiting"
    <3>1. CASE StopListening
      BY <1>1, <3>1 DEF StopListening, Dropped, Consistent, BacklogOK
    <3>2. ASSUME NEW c \in Conn, Accept(c) PROVE conn[c] = "backlog" /\ \E stage \in Stages : Becomes(c, stage)
      BY <3>2 DEF Accept, ToSet, Consistent, BacklogOK
    <3>3. ASSUME NEW c \in Conn, Refuse(c) \/ Spawn(c) \/ SpawnFails(c)
          PROVE  conn[c] # "waiting" /\ \E stage \in Stages : Becomes(c, stage)
      BY <3>3 DEF Refuse, Spawn, SpawnFails
    <3> QED
      BY <1>1, <1>9, <3>1, <3>2, <3>3, BecomesStage DEF ListenerStep
  <2> QED
    BY <1>2, <1>9, <2>1, ListenerLeaves
<1> QED
  BY <1>4, <1>5, <1>6, <1>7, <1>8, <1>9, Steps DEF ThreadsStep

-----------------------------------------------------------------------------
(* The main thread's turn.                                                 *)

LEMMA OldestAreQueued == OldestOrNone \subseteq Conn \cup {NoConn}
BY DEF OldestOrNone, Oldest, First, Queued

LEMMA WindowStays ==
    ASSUME Consistent, [Next]_allVars
    PROVE  WindowOK'
<1> USE DEF WindowOK, Idle
<1>1. WindowOK /\ ProcessOK /\ NoConn \notin Conn
  BY ServerAssumption DEF Consistent
<1>0. main.doing # "idle" => desktop = "running"
  <2>1. Idle.doing = "idle"
    OBVIOUS
  <2>2. main = Idle => main.doing = "idle"
    BY <2>1
  <2> QED
    BY <1>1, <2>2
<1>2. ASSUME UNCHANGED <<window, shown, main>>, desktop' = desktop PROVE WindowOK'
  BY <1>1, <1>2
<1>3. ASSUME window' = FALSE, shown' = NoConn, main' = Idle PROVE WindowOK'
  BY <1>3
<1>4. ASSUME NEW by \in {"user", "reconcile"}, NEW intentional \in BOOLEAN, WindowClosed(by, intentional),
             by = "user" \/ intentional, desktop = "running"
      PROVE  WindowOK'
  BY <1>1, <1>4 DEF WindowClosed, serverVars
<1>5. CASE Render
  BY <1>1, <1>5, OldestAreQueued DEF Render, Turn, serverVars
<1>6. CASE Reconcile
  BY <1>1, <1>6 DEF Reconcile, Turn, Continue, serverVars
<1>7. CASE OpenRequest
  BY <1>0, <1>1, <1>7 DEF OpenRequest, serverVars
<1>8. CASE CloseRequest
  BY <1>0, <1>4, <1>8 DEF CloseRequest
<1>9. CASE UserCloses
  BY <1>1, <1>4, <1>9 DEF UserCloses, Turn
<1>10. CASE PickOldest
  <2>1. PICK c \in OldestOrNone : main' = IF c = NoConn THEN Idle ELSE [main EXCEPT !.doing = "deny", !.target = c]
    BY <1>10 DEF PickOldest
  <2>2. c \in Conn \cup {NoConn} /\ main.by = "user" /\ UNCHANGED <<window, shown, desktop>>
    BY <1>1, <1>10, <2>1, OldestAreQueued DEF PickOldest, serverVars
  <2>3. CASE c = NoConn
    BY <1>1, <2>1, <2>2, <2>3
  <2>4. CASE c # NoConn
    <3>1. /\ main' \in [doing : {"idle", "open", "close", "dismiss", "deny"},
                        by : {"user", "reconcile"}, was : Conn \cup {NoConn}, target : Conn \cup {NoConn}]
          /\ main'.doing = "deny" /\ main'.by = "user" /\ main'.target \in Conn
      BY <1>1, <2>1, <2>2, <2>4
    <3>2. desktop = "running"
      BY <1>0, <1>10 DEF PickOldest
    <3> QED
      BY <1>1, <2>2, <3>1, <3>2
  <2> QED
    BY <2>3, <2>4
<1>11. CASE DenyPicked
  BY <1>1, <1>11 DEF DenyPicked, serverVars
<1>12. CASE Click \/ LockVault
  BY <1>2, <1>12 DEF Click, LockVault, serverVars, windowVars
<1>13. CASE Quit
  BY <1>3, <1>13 DEF Quit
<1>14. CASE SystemStep /\ UNCHANGED windowVars
  <2>1. desktop' = desktop \/ (desktop = "off" /\ desktop' = "running")
    BY <1>14 DEF SystemStep, OtherProcesses, Connect, Leave, StartDesktop, serverVars
  <2> QED
    BY <1>1, <1>14, <2>1 DEF windowVars
<1>15. CASE UNCHANGED allVars
  BY <1>2, <1>15 DEF allVars, serverVars, windowVars
<1>16. CASE ListenerStep /\ UNCHANGED windowVars
  BY <1>2, <1>16, ListenerLeaves DEF windowVars
<1>17. CASE ThreadsStep /\ UNCHANGED windowVars
  BY <1>2, <1>17, ThreadsLeave DEF ThreadsStep, windowVars
<1>18. CASE End /\ NoWindows
  BY <1>3, <1>18 DEF NoWindows
<1> QED
  BY <1>5, <1>6, <1>7, <1>8, <1>9, <1>10, <1>11, <1>12, <1>13, <1>14, <1>15, <1>16, <1>17, <1>18, Steps
     DEF MainStep, MainThread, User

-----------------------------------------------------------------------------
(* Theorems.                                                               *)

LEMMA InitConsistent == DesktopInit => Consistent
<1> SUFFICES ASSUME DesktopInit PROVE Consistent
  OBVIOUS
<1> USE DEF DesktopInit, ServerInit
<1>1. ProcessTypeOK
  BY ProcessAssumption DEF ProcessInit, ProcessTypeOK, Alive, Gone
<1>2. BacklogOK
  <2>1. << >> \in Seq(Conn) /\ IsInjective(<< >>) /\ ToSet(<< >>) = {}
    BY DEF IsInjective, ToSet
  <2>2. {c \in Conn : conn[c] = "backlog"} = {}
    OBVIOUS
  <2> QED
    BY <2>1, <2>2 DEF BacklogOK
<1>3. StagesOK
  BY ServerAssumption DEF StagesOK, Stages
<1>4. SlotsOK
  <2>1. Live = {}
    BY DEF Live, Threads
  <2>2. Cardinality(Live) = 0
    BY <2>1, FS_EmptySet
  <2> QED
    BY <2>2, ServerAssumption DEF SlotsOK, Taken
<1>5. WalksOK
  BY FreshWalks, ServerAssumption DEF WalksOK
<1>6. ProcessOK /\ QueueOK /\ WindowOK
  BY DEF ProcessOK, QueueOK, WindowOK, Idle
<1> QED
  BY <1>1, <1>2, <1>3, <1>4, <1>5, <1>6 DEF Consistent

\* The inductive invariant of the desktop process (server.rs, runtime.rs).
THEOREM ConsistentAlways == Spec => []Consistent
<1>1. Consistent /\ [Next]_allVars => Consistent'
  BY TableStays, ProcessStays, BacklogStays, StagesStay, SlotsStay, WalksStay, QueueStays, WindowStays DEF Consistent
<1> QED
  BY <1>1, InitConsistent, PTL DEF Spec

\* Every variable keeps to its type, and every walk to the ancestors finds a
\* process once, however process IDs are used again (inspect_process_tree in
\* process.rs).
THEOREM TypeCorrect == Spec => []DesktopTypeOK
<1>1. Consistent => DesktopTypeOK
  BY DEF Consistent, ProcessOK, BacklogOK, StagesOK, Stages, SlotsOK, WalksOK, QueueOK, WindowOK, DesktopTypeOK,
     ServerTypeOK, Queued
<1> QED
  BY <1>1, ConsistentAlways, PTL

\* No slot is lost or returned twice, and the limit is kept (ActiveConnection in
\* server.rs).
THEOREM SlotsAlwaysAccounted == Spec => []SlotsAreAccounted
<1>1. Consistent => SlotsAreAccounted
  BY DEF Consistent, SlotsOK, Taken, StagesOK, SlotsAreAccounted
<1> QED
  BY <1>1, ConsistentAlways, PTL

\* Only the user's closing of the window dismisses (closing_request in runtime.rs).
THEOREM OnlyTheUserDismisses == Spec => DismissedOnlyByTheUser
<1> DEFINE Dismissal == \A c \in Conn : resolution[c] # "dismissed" /\ resolution'[c] = "dismissed"
                            => main.doing = "deny" /\ main.by = "user"
<1>1. ASSUME Consistent, [Next]_allVars PROVE Dismissal
  <2>1. ASSUME NEW S \in SUBSET Conn, Resolve(S, "decided") PROVE Dismissal
    BY <1>1, <2>1, ResolveOK
  <2>2. ASSUME resolution' = resolution PROVE Dismissal
    BY <2>2
  <2>3. CASE MainStep
    BY <1>1, <2>1, <2>2, <2>3, MainResolves DEF queueVars
  <2>4. ASSUME NEW c \in Conn, ThreadStep(c) PROVE Dismissal
    <3>1. CASE TimeOut(c)
      <4>1. PICK others \in SUBSET (Queued \ {c}) : Resolve({c} \cup others, "decided")
        BY <3>1 DEF TimeOut
      <4>2. {c} \cup others \in SUBSET Conn
        BY <4>1 DEF Queued
      <4> QED
        BY <2>1, <4>1, <4>2
    <3>2. CASE Wake(c)
      BY <1>1, <3>2 DEF Wake, Consistent, QueueOK
    <3> QED
      BY <2>2, <2>4, <3>1, <3>2 DEF ThreadStep, Read, Look, Looked, Ask, Reply, Return, queueVars
  <2>5. CASE End
    BY <2>5, Ended
  <2>6. CASE UNCHANGED allVars
    BY <2>2, <2>6 DEF allVars, queueVars
  <2> QED
    BY <1>1, <2>2, <2>3, <2>4, <2>5, <2>6, Steps, ListenerLeaves, SystemLeaves DEF ThreadsStep, queueVars
<1>2. Consistent /\ [Next]_allVars => [Dismissal]_allVars
  BY <1>1
<1> QED
  BY <1>2, ConsistentAlways, PTL DEF Spec, DismissedOnlyByTheUser

-----------------------------------------------------------------------------
(* A thread that waits can be answered, once.                              *)

\* Only a step that asks makes a thread wait, and only one that wakes it ends that.
LEMMA WaitingStays ==
    ASSUME Consistent, [Next]_allVars, NEW c \in Conn
    PROVE  \/ conn'[c] = "waiting" <=> conn[c] = "waiting"
           \/ Ask(c) \/ Wake(c)
           \/ End
<1> USE DEF Threads, Stages
<1>1. StagesOK
  BY DEF Consistent
<1>2. ASSUME NEW d \in Conn, NEW stage \in Stages \ {"waiting"}, Becomes(d, stage), conn[d] # "waiting"
      PROVE  conn'[c] = "waiting" <=> conn[c] = "waiting"
  BY <1>1, <1>2, BecomesStage
<1>3. CASE UNCHANGED conn
  BY <1>3
<1>4. CASE SystemStep
  BY <1>2, <1>3, <1>4 DEF SystemStep, OtherProcesses, Connect, Leave, StartDesktop, connVars
<1>5. CASE ListenerStep
  <2>1. CASE StopListening
    BY <1>1, <2>1 DEF StopListening, Dropped, Consistent, BacklogOK
  <2>2. ASSUME NEW d \in Conn, Accept(d) PROVE conn[d] = "backlog" /\ \E stage \in {"accepted", "refused"} : Becomes(d, stage)
    BY <2>2 DEF Accept, ToSet, Consistent, BacklogOK
  <2>3. ASSUME NEW d \in Conn, Refuse(d) \/ Spawn(d) \/ SpawnFails(d)
        PROVE  conn[d] # "waiting" /\ \E stage \in {"idle", "reading"} : Becomes(d, stage)
    BY <2>3 DEF Refuse, Spawn, SpawnFails
  <2> QED
    BY <1>2, <1>5, <2>1, <2>2, <2>3 DEF ListenerStep
<1>6. ASSUME NEW d \in Conn, ThreadStep(d)
      PROVE  (conn'[c] = "waiting" <=> conn[c] = "waiting") \/ Ask(c) \/ Wake(c)
  <2>1. CASE d # c
    BY <1>6, <2>1, ThreadMoves
  <2>2. CASE d = c /\ (Read(d) \/ Reply(d) \/ Return(d))
    BY <1>2, <2>2 DEF Read, Reply, Return
  <2>3. CASE d = c /\ Looked(d)
    BY <1>2, <2>3 DEF Looked
  <2>4. CASE Look(d) \/ TimeOut(d)
    BY <1>3, <2>4 DEF Look, TimeOut, connVars
  <2> QED
    BY <1>6, <2>1, <2>2, <2>3, <2>4 DEF ThreadStep
<1>7. CASE MainStep
  BY <1>3, <1>7, MainLeaves DEF MainStep, connVars
<1>8. CASE UNCHANGED allVars
  BY <1>3, <1>8 DEF allVars, connVars
<1> QED
  BY <1>4, <1>5, <1>6, <1>7, <1>8, Steps DEF ThreadsStep

\* What becomes of the pending maps and of the channels in a step.
LEMMA QueueMoves ==
    ASSUME Consistent, [Next]_allVars
    PROVE  \/ UNCHANGED queueVars
           \/ \E S \in SUBSET Conn, result \in {"decided", "dismissed"} : Resolve(S, result) /\ conn' = conn
           \/ \E c \in Conn : Ask(c) \/ Wake(c)
           \/ End
<1>1. ASSUME NEW c \in Conn, TimeOut(c)
      PROVE  \E S \in SUBSET Conn : Resolve(S, "decided") /\ conn' = conn
  <2>1. PICK others \in SUBSET (Queued \ {c}) : Resolve({c} \cup others, "decided")
    BY <1>1 DEF TimeOut
  <2>2. {c} \cup others \in SUBSET Conn /\ conn' = conn
    BY <1>1, <2>1 DEF TimeOut, connVars, Queued
  <2> QED
    BY <2>1, <2>2
<1>2. CASE MainStep
  <2>1. conn' = conn
    BY <1>2, MainLeaves DEF MainStep, connVars
  <2> QED
    BY <1>2, <2>1, MainResolves
<1>3. ASSUME NEW c \in Conn, ThreadStep(c)
      PROVE  Ask(c) \/ Wake(c) \/ TimeOut(c) \/ UNCHANGED queueVars
  BY <1>3 DEF ThreadStep, Read, Look, Looked, Reply, Return, queueVars
<1>4. CASE UNCHANGED allVars
  BY <1>4 DEF allVars
<1> QED
  BY <1>1, <1>2, <1>3, <1>4, Steps, ListenerLeaves, SystemLeaves DEF ThreadsStep

LEMMA WaitersStay ==
    ASSUME Consistent, WaitersWaitForSomebody, [Next]_allVars
    PROVE  WaitersWaitForSomebody'
<1> SUFFICES ASSUME NEW c \in Conn
             PROVE  conn'[c] = "waiting" <=> (queue'[c] # 0) # (resolution'[c] # "none")
  BY DEF WaitersWaitForSomebody, Queued
<1>1. /\ QueueOK /\ QueueOK' /\ StagesOK
      /\ conn[c] = "waiting" <=> (queue[c] # 0) # (resolution[c] # "none")
  BY QueueStays DEF Consistent, WaitersWaitForSomebody, Queued
<1>2. CASE Ask(c)
  <2>1. CASE \E time \in Times : Becomes(c, "waiting") /\ queue' = [queue EXCEPT ![c] = time]
    <3>1. conn'[c] = "waiting" /\ queue'[c] \in Times /\ 0 \notin Times /\ resolution' = resolution
      BY <1>1, <1>2, <2>1, BecomesStage, ServerAssumption DEF Ask, QueueOK, Threads, Stages
    <3> QED
      BY <1>1, <3>1 DEF QueueOK
  <2>2. CASE Becomes(c, "replying") /\ queue' = queue
    <3>1. conn'[c] = "replying" /\ conn[c] = "asking" /\ queue' = queue /\ resolution' = resolution
      BY <1>1, <1>2, <2>2, BecomesStage DEF Ask, Threads, Stages
    <3> QED
      BY <1>1, <3>1 DEF QueueOK
  <2> QED
    BY <1>2, <2>1, <2>2 DEF Ask
<1>3. CASE Wake(c)
  <2>1. conn'[c] = "replying" /\ queue'[c] = queue[c] /\ queue[c] = 0 /\ resolution'[c] = "none"
    BY <1>1, <1>3, BecomesStage DEF Wake, QueueOK, Threads, Stages
  <2> QED
    BY <2>1
<1>4. CASE End
  BY <1>4, Ended
<1>5. CASE (conn'[c] = "waiting" <=> conn[c] = "waiting") /\ UNCHANGED queueVars
  BY <1>1, <1>5 DEF queueVars
<1>6. ASSUME NEW S \in SUBSET Conn, NEW result \in {"decided", "dismissed"}, Resolve(S, result), conn' = conn
      PROVE  conn'[c] = "waiting" <=> (queue'[c] # 0) # (resolution'[c] # "none")
  <2>1. CASE c \in S
    <3>1. queue'[c] = 0 /\ resolution'[c] = IF queue[c] # 0 THEN result ELSE resolution[c]
      BY <1>6, <2>1 DEF Resolve, Queued
    <3> QED
      BY <1>1, <1>6, <3>1 DEF QueueOK
  <2>2. CASE c \notin S
    <3>1. queue'[c] = queue[c] /\ resolution'[c] = resolution[c]
      BY <1>6, <2>2 DEF Resolve
    <3> QED
      BY <1>1, <1>6, <3>1
  <2> QED
    BY <2>1, <2>2
<1>7. ASSUME NEW d \in Conn \ {c}, Ask(d) \/ Wake(d)
      PROVE  conn'[c] = "waiting" <=> (queue'[c] # 0) # (resolution'[c] # "none")
  <2>1. conn'[c] = conn[c]
    BY <1>7, ThreadMoves DEF ThreadStep
  <2>2. queue'[c] = queue[c] /\ resolution'[c] = resolution[c]
    BY <1>1, <1>7 DEF Ask, Wake, QueueOK
  <2> QED
    BY <1>1, <2>1, <2>2
<1> QED
  BY <1>2, <1>3, <1>4, <1>5, <1>6, <1>7, WaitingStays, QueueMoves

\* A waiting thread is in the queue or has its answer, and never both (the pending
\* maps and the channels of controller.rs).
THEOREM WaitersAlwaysWaitForSomebody == Spec => []WaitersWaitForSomebody
<1>1. DesktopInit => WaitersWaitForSomebody
  BY DEF DesktopInit, ServerInit, WaitersWaitForSomebody, Queued
<1> QED
  BY <1>1, WaitersStay, ConsistentAlways, PTL DEF Spec

\* The first answer counts.
THEOREM DecisionsAlwaysStand == Spec => DecisionsStand
<1> DEFINE Stands == \A c \in Conn : resolution[c] # "none" => resolution'[c] \in {resolution[c], "none"}
<1>1. ASSUME Consistent, [Next]_allVars PROVE Stands
  <2>1. QueueOK
    BY <1>1 DEF Consistent
  <2>2. ASSUME NEW S \in SUBSET Conn, NEW result \in {"decided", "dismissed"}, Resolve(S, result) PROVE Stands
    BY <1>1, <2>1, <2>2, ResolveOK DEF QueueOK
  <2>3. ASSUME NEW c \in Conn, Ask(c) \/ Wake(c) PROVE Stands
    BY <2>1, <2>3 DEF Ask, Wake, QueueOK
  <2>4. CASE UNCHANGED queueVars
    BY <2>4 DEF queueVars
  <2>5. CASE End
    BY <2>5, Ended
  <2> QED
    BY <1>1, <2>2, <2>3, <2>4, <2>5, QueueMoves
<1>2. Consistent /\ [Next]_allVars => [Stands]_allVars
  BY <1>1
<1> QED
  BY <1>2, ConsistentAlways, PTL DEF Spec, DecisionsStand

-----------------------------------------------------------------------------
(* The end of the process.                                                 *)

LEMMA OutlivesStays ==
    ASSUME Consistent, NothingOutlivesTheDesktop, [Next]_allVars
    PROVE  NothingOutlivesTheDesktop'
<1> USE DEF Threads, Stages
<1>1. /\ ProcessOK /\ BacklogOK /\ StagesOK /\ SlotsOK /\ QueueOK /\ WindowOK
      /\ WindowOK'
  BY WindowStays DEF Consistent
<1>2. CASE End /\ NoWindows
  BY <1>2, Ended DEF NoWindows, NothingOutlivesTheDesktop
<1>3. CASE MainStep
  <2>1. desktop = "running"
    <3>1. main.doing # "idle" => main # Idle
      BY DEF Idle
    <3>2. Turn \/ main.doing # "idle"
      BY <1>3 DEF MainStep, MainThread, Render, User, Reconcile, OpenRequest, CloseRequest, PickOldest, DenyPicked,
         Click, LockVault, UserCloses, Quit
    <3> QED
      BY <1>1, <3>1, <3>2 DEF Turn, WindowOK
  <2>2. desktop' \in {desktop, "quitting"}
    BY <1>3 DEF MainStep, MainThread, Render, User, Reconcile, OpenRequest, CloseRequest, PickOldest, DenyPicked,
       Click, LockVault, UserCloses, Quit, WindowClosed, serverVars
  <2> QED
    BY <1>3, <2>1, <2>2, MainLeaves DEF MainStep, NothingOutlivesTheDesktop
<1>4. CASE ThreadsStep /\ UNCHANGED windowVars
  <2>1. PICK c \in Conn : ThreadStep(c)
    BY <1>4 DEF ThreadsStep
  <2>2. desktop # "off"
    BY <2>1, ThreadMoves DEF NothingOutlivesTheDesktop
  <2> QED
    BY <2>1, <2>2, ThreadsLeave DEF NothingOutlivesTheDesktop
<1>5. CASE ListenerStep /\ UNCHANGED windowVars
  <2>1. desktop # "off"
    <3>1. ASSUME NEW c \in Conn, Accept(c) \/ Refuse(c) \/ Spawn(c) \/ SpawnFails(c) \/ StopListening
          PROVE  listening \/ conn[c] \in {"accepted", "refused"}
      BY <3>1 DEF Accept, Refuse, Spawn, SpawnFails, StopListening
    <3>2. StopListening => listening
      BY DEF StopListening
    <3> QED
      BY <1>5, <3>1, <3>2 DEF ListenerStep, NothingOutlivesTheDesktop
  <2>2. ~listening' => backlog' = << >> /\ accepted' = NoConn
    <3>1. CASE StopListening
      BY <3>1 DEF StopListening
    <3>2. ASSUME NEW c \in Conn, Accept(c) \/ Refuse(c) \/ Spawn(c) \/ SpawnFails(c) PROVE listening' = listening /\ listening
      <4>1. c # NoConn
        BY ServerAssumption
      <4> QED
        BY <3>2, <4>1 DEF Accept, Refuse, Spawn, SpawnFails, NothingOutlivesTheDesktop
    <3> QED
      BY <1>5, <3>1, <3>2 DEF ListenerStep
  <2> QED
    BY <1>5, <2>1, <2>2, ListenerLeaves DEF NothingOutlivesTheDesktop
<1>6. CASE SystemStep /\ UNCHANGED windowVars
  <2>1. ASSUME NEW c \in Conn, Connect(c) PROVE NothingOutlivesTheDesktop'
    BY <1>6, <2>1, SystemLeaves DEF Connect, NothingOutlivesTheDesktop
  <2>2. CASE StartDesktop
    BY <2>2 DEF StartDesktop, WriteEndpoint, NothingOutlivesTheDesktop
  <2>3. CASE UNCHANGED <<serverVars, connVars, queueVars>>
    BY <1>6, <2>3 DEF serverVars, connVars, queueVars, windowVars, NothingOutlivesTheDesktop
  <2> QED
    BY <1>6, <2>1, <2>2, <2>3 DEF SystemStep, OtherProcesses, Leave
<1>7. CASE UNCHANGED allVars
  BY <1>7 DEF allVars, serverVars, connVars, queueVars, windowVars, NothingOutlivesTheDesktop
<1> QED
  BY <1>2, <1>3, <1>4, <1>5, <1>6, <1>7, Steps

\* No end of the process leaves anything that the next one would trip over
\* (close in server.rs; a crash closes what the process held).
THEOREM NothingEverOutlivesTheDesktop == Spec => []NothingOutlivesTheDesktop
<1>1. DesktopInit => NothingOutlivesTheDesktop
  BY DEF DesktopInit, ServerInit, NothingOutlivesTheDesktop
<1> QED
  BY <1>1, OutlivesStays, ConsistentAlways, PTL DEF Spec

==============================================================================
