------------------------------ MODULE RequestServer ------------------------------
(***************************************************************************)
(* ipc/server.rs and ipc/client.rs around the two request handlers: the    *)
(* endpoint file by which clients find the desktop, the thread that        *)
(* accepts connections, a limited number of connection threads, and what   *)
(* becomes of them when a thread cannot be started, the listener fails, or *)
(* the desktop quits, crashes and is started again.                        *)
(*                                                                         *)
(* The controller is reduced to which requests wait and which were         *)
(* decided; SecretAccess and AwsAccess have the rest.                      *)
(***************************************************************************)
EXTENDS ProcessTree

CONSTANTS Conn,            \* clients, each with one connection at a time
          ProcessOf,       \* the process ID each of them runs under
          MaxConnections,
          MaxLeaks,        \* bound: threads that cannot be started
          Times,           \* bound: requested_at
          NoConn

ASSUME ServerAssumption ==
    /\ IsFiniteSet(Conn)
    /\ ProcessOf \in [Conn -> Pid]
    /\ MaxConnections \in Nat \ {0}
    /\ MaxLeaks \in Nat
    /\ Times \subseteq Nat \ {0}
    /\ NoConn \notin Conn

VARIABLES desktop,         \* "off", "running" or "quitting"
          endpoint,        \* the endpoint file: "none", "current" or "stale"
          backlog,         \* connections that were made and not yet accepted
          listening,       \* the accepting thread has not ended
          accepted,        \* the connection it is dealing with
          active,          \* the counter of connections
          leaked,          \* those of them that belong to nobody
          conn,            \* the stage of each connection
          walk,            \* inspect_process_tree() of its thread
          queue,           \* requested_at in the controller's pending maps, or 0
          resolution       \* what was sent to the waiting thread

serverVars == <<desktop, endpoint, backlog, listening, accepted, active, leaked>>
connVars   == <<conn, walk>>
queueVars  == <<queue, resolution>>

Threads == {"reading", "inspecting", "asking", "waiting", "replying", "leaving"}
Live    == {c \in Conn : conn[c] \in Threads}
Queued  == {c \in Conn : queue[c] # 0}

ServerTypeOK ==
    /\ ProcessTypeOK
    /\ desktop \in {"off", "running", "quitting"}
    /\ endpoint \in {"none", "current", "stale"}
    /\ IsInjective(backlog) /\ ToSet(backlog) = {c \in Conn : conn[c] = "backlog"}
    /\ listening \in BOOLEAN
    /\ accepted \in Conn \cup {NoConn}
    /\ active \in Nat /\ leaked \in 0..MaxLeaks
    /\ conn \in [Conn -> {"idle", "backlog", "accepted", "refused"} \cup Threads]
    /\ \A c \in Conn : Sound(walk[c], ProcessOf[c])
    /\ queue \in [Conn -> Times \cup {0}]
    /\ resolution \in [Conn -> {"none", "decided", "dismissed"}]
    /\ \A c \in Queued : conn[c] = "waiting" /\ resolution[c] = "none"

ServerInit ==
    /\ ProcessInit
    /\ desktop = "off" /\ endpoint = "none" /\ backlog = << >>
    /\ listening = FALSE /\ accepted = NoConn
    /\ active = 0 /\ leaked = 0
    /\ conn = [c \in Conn |-> "idle"]
    /\ walk = [c \in Conn |-> NoWalk]
    /\ queue = [c \in Conn |-> 0]
    /\ resolution = [c \in Conn |-> "none"]

Becomes(c, stage) == conn' = [conn EXCEPT ![c] = stage]

-----------------------------------------------------------------------------
(* Processes come and go; a client is one of them.                         *)

Clients == {ProcessOf[c] : c \in Conn}

OtherProcesses ==
    /\ \E pid \in Pid \ Clients : Exit(pid) \/ \E parent \in Pid : Fork(parent, pid)
    /\ UNCHANGED <<serverVars, connVars, queueVars>>

\* request(): a new client reads the endpoint file and connects; the file may be
\* that of a desktop that is gone, and then the client ends with an error.
Connect(c) ==
    /\ conn[c] = "idle"
    /\ endpoint = "current" /\ listening
    /\ \E parent \in Pid \ Clients : Fork(parent, ProcessOf[c])
    /\ Becomes(c, "backlog")
    /\ backlog' = Append(backlog, c)
    /\ UNCHANGED <<desktop, endpoint, listening, accepted, active, leaked, walk, queueVars>>

\* The client ends; before it has heard anything, when it is killed.
Leave(c) ==
    /\ Exit(ProcessOf[c])
    /\ UNCHANGED <<serverVars, connVars, queueVars>>

-----------------------------------------------------------------------------
(* The accepting thread.                                                   *)

Unchanged == UNCHANGED <<table, desktop, endpoint>>

\* accept(), and the counter is raised before it is compared.
Accept(c) ==
    /\ listening /\ accepted = NoConn
    /\ backlog # << >> /\ c = Head(backlog)
    /\ backlog' = Tail(backlog)
    /\ accepted' = c
    /\ active' = active + 1
    /\ Becomes(c, IF active >= MaxConnections THEN "refused" ELSE "accepted")
    /\ Unchanged
    /\ UNCHANGED <<listening, leaked, walk, queueVars>>

\* Variant of Refuse: the slot is kept.
RefuseKeeping(c) ==
    /\ accepted = c /\ conn[c] = "refused"
    /\ accepted' = NoConn
    /\ Becomes(c, "idle")
    /\ Unchanged
    /\ UNCHANGED <<backlog, listening, active, leaked, walk, queueVars>>

Refuse(c) ==
    /\ accepted = c /\ conn[c] = "refused"
    /\ accepted' = NoConn
    /\ active' = active - 1
    /\ Becomes(c, "idle")
    /\ Unchanged
    /\ UNCHANGED <<backlog, listening, leaked, walk, queueVars>>

Spawn(c) ==
    /\ accepted = c /\ conn[c] = "accepted"
    /\ accepted' = NoConn
    /\ Becomes(c, "reading")
    /\ Unchanged
    /\ UNCHANGED <<backlog, listening, active, leaked, walk, queueVars>>

\* Builder::spawn() fails: the connection is dropped with the closure, the guard
\* that returns the slot was never made.
SpawnFails(c) ==
    /\ accepted = c /\ conn[c] = "accepted"
    /\ leaked < MaxLeaks
    /\ accepted' = NoConn
    /\ leaked' = leaked + 1
    /\ Becomes(c, "idle")
    /\ Unchanged
    /\ UNCHANGED <<backlog, listening, active, walk, queueVars>>

Dropped(connections) ==
    conn' = [c \in Conn |-> IF c \in connections THEN "idle" ELSE conn[c]]

\* Variant of StopListening: the listener outlives the thread.
StopAccepting ==
    /\ listening /\ accepted = NoConn
    /\ listening' = FALSE
    /\ Unchanged
    /\ UNCHANGED <<backlog, accepted, active, leaked, connVars, queueVars>>

\* The loop ends, on shutdown or when accept() fails, and with it the listener.
StopListening ==
    /\ listening /\ accepted = NoConn
    /\ listening' = FALSE
    /\ Dropped(ToSet(backlog))
    /\ backlog' = << >>
    /\ Unchanged
    /\ UNCHANGED <<accepted, active, leaked, walk, queueVars>>

-----------------------------------------------------------------------------
(* handle_connection().                                                    *)

\* read_request() and the checks of what was read.
Read(c) ==
    /\ conn[c] = "reading"
    /\ \/ Becomes(c, "inspecting") /\ walk' = [walk EXCEPT ![c] = From(ProcessOf[c])]
       \/ Becomes(c, "replying") /\ UNCHANGED walk
    /\ UNCHANGED <<serverVars, table, queueVars>>

Look(c) ==
    /\ conn[c] = "inspecting"
    /\ GoesOn(walk[c])
    /\ walk' = [walk EXCEPT ![c] = Inspect(walk[c])]
    /\ UNCHANGED <<serverVars, table, conn, queueVars>>

\* request_process(): an empty tree is an error.
Looked(c) ==
    /\ conn[c] = "inspecting"
    /\ ~GoesOn(walk[c])
    /\ Becomes(c, IF walk[c].tree = << >> THEN "replying" ELSE "asking")
    /\ walk' = [walk EXCEPT ![c] = NoWalk]
    /\ UNCHANGED <<serverVars, table, queueVars>>

\* begin_request() and begin_aws_request(): decided at once, or queued.
Ask(c) ==
    /\ conn[c] = "asking"
    /\ \/ Becomes(c, "replying") /\ UNCHANGED queue
       \/ \E time \in Times : Becomes(c, "waiting") /\ queue' = [queue EXCEPT ![c] = time]
    /\ UNCHANGED <<serverVars, table, walk, resolution>>

\* recv_timeout(): a resolution, or nothing in time.  A timeout of an AWS
\* request also denies others.
Wake(c) ==
    /\ conn[c] = "waiting" /\ resolution[c] # "none"
    /\ Becomes(c, "replying")
    /\ resolution' = [resolution EXCEPT ![c] = "none"]
    /\ UNCHANGED <<serverVars, table, walk, queue>>

\* Variant of Resolve: the requests go, and their threads are not sent to.
ResolveSilently(connections, result) ==
    /\ queue' = [c \in Conn |-> IF c \in connections THEN 0 ELSE queue[c]]
    /\ UNCHANGED resolution

\* What settles requests takes them from the queue and sends to their threads in
\* one critical section.
Resolve(connections, result) ==
    /\ queue' = [c \in Conn |-> IF c \in connections THEN 0 ELSE queue[c]]
    /\ resolution' = [c \in Conn |-> IF c \in connections \cap Queued THEN result ELSE resolution[c]]

TimeOut(c) ==
    /\ c \in Queued
    /\ \E others \in SUBSET (Queued \ {c}) : Resolve({c} \cup others, "decided")
    /\ UNCHANGED <<serverVars, table, connVars>>

\* write_response(), then the guard returns the slot.
Reply(c) ==
    /\ conn[c] = "replying"
    /\ Becomes(c, "leaving")
    /\ UNCHANGED <<serverVars, table, walk, queueVars>>

Return(c) ==
    /\ conn[c] = "leaving"
    /\ Becomes(c, "idle")
    /\ active' = active - 1
    /\ UNCHANGED <<desktop, endpoint, backlog, listening, accepted, leaked, table, walk, queueVars>>

-----------------------------------------------------------------------------
(* The process.                                                            *)

\* write_endpoint() renames a finished file over the old one: a client reads one
\* of the two.
WriteEndpoint == endpoint' = "current"

\* RequestServer::start()
StartDesktop ==
    /\ desktop = "off"
    /\ desktop' = "running"
    /\ WriteEndpoint
    /\ listening' = TRUE
    /\ UNCHANGED <<table, backlog, accepted, active, leaked, connVars, queueVars>>

\* Everything that belonged to the process is gone.
ProcessEnds ==
    /\ desktop' = "off"
    /\ listening' = FALSE
    /\ backlog' = << >> /\ accepted' = NoConn
    /\ active' = 0 /\ leaked' = 0
    /\ Dropped(Conn)
    /\ walk' = [c \in Conn |-> NoWalk]
    /\ queue' = [c \in Conn |-> 0]
    /\ resolution' = [c \in Conn |-> "none"]
    /\ UNCHANGED table

\* close(): the file is removed once the accepting thread has ended.
EndDesktop ==
    /\ desktop = "quitting" /\ ~listening
    /\ endpoint' = "none"
    /\ ProcessEnds

CrashDesktop ==
    /\ desktop # "off"
    /\ endpoint' = "stale"
    /\ ProcessEnds

-----------------------------------------------------------------------------
ThreadStep(c) ==
    \/ Read(c)
    \/ Look(c)
    \/ Looked(c)
    \/ Ask(c)
    \/ Wake(c)
    \/ TimeOut(c)
    \/ Reply(c)
    \/ Return(c)

AcceptStep == \E c \in Conn : Accept(c) \/ Refuse(c) \/ Spawn(c)

-----------------------------------------------------------------------------
(* Properties.                                                             *)

\* The counter is what the connection threads hold, the connection being accepted,
\* and the slots that failed spawns lost for good (`leaked`: the code does not get
\* those back).  Nothing else loses a slot or returns one twice, a refusal at the
\* limit included; and there are never more than MaxConnections threads.
SlotsAreAccounted ==
    /\ active = Cardinality(Live) + leaked + IF accepted = NoConn THEN 0 ELSE 1
    /\ Cardinality(Live) + leaked <= MaxConnections
    /\ \A c \in Conn : conn[c] \in {"accepted", "refused"} => accepted = c

\* A client that was let in hears something in the end, an answer or that its
\* connection was closed, without waiting for its own 25 minutes.
EveryClientHears ==
    \A c \in Conn : conn[c] = "backlog" ~> conn[c] \in {"leaving", "idle"}

==============================================================================
