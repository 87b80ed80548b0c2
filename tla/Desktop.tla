--------------------------------- MODULE Desktop ---------------------------------
(***************************************************************************)
(* The desktop process: RequestServer, and on the main thread the window   *)
(* that shows one pending request at a time (app.rs, RequestView) with the *)
(* event loop that opens and closes it (runtime.rs).  The main thread runs *)
(* one turn at a time, but it takes the controller's mutex more than once  *)
(* in a turn, and the connection threads run in between.                   *)
(***************************************************************************)
EXTENDS RequestServer

CONSTANT Aws               \* the connections that ask for AWS credentials

ASSUME AwsAssumption == Aws \subseteq Conn

VARIABLES window,          \* Windows.request is open
          shown,           \* the request it shows
          main             \* what is left of the main thread's turn

windowVars == <<window, shown, main>>
allVars    == <<serverVars, table, connVars, queueVars, windowVars>>

Idle == [doing |-> "idle", by |-> "user", was |-> NoConn, target |-> NoConn]

DesktopTypeOK ==
    /\ ServerTypeOK
    /\ window \in BOOLEAN
    /\ shown \in Conn \cup {NoConn}
    /\ main \in [doing : {"idle", "open", "close", "dismiss", "deny"},
                 by : {"user", "reconcile"}, was : Conn \cup {NoConn}, target : Conn \cup {NoConn}]
    /\ ~window => shown = NoConn
    /\ window \/ main # Idle => desktop = "running"

DesktopInit ==
    /\ ServerInit
    /\ window = FALSE
    /\ shown = NoConn
    /\ main = Idle

Turn == desktop = "running" /\ main = Idle

-----------------------------------------------------------------------------
(* Which request is shown: the oldest of each kind, an AWS request first   *)
(* when they are equally old.  Requests of one kind and one millisecond    *)
(* come in any order.                                                      *)

First(connections) ==
    {c \in connections : \A d \in connections : queue[c] <= queue[d]}

Oldest ==
    LET aws    == First(Queued \cap Aws)
        secret == First(Queued \ Aws)
    IN  IF aws # {} /\ \A a \in aws, s \in secret : queue[a] <= queue[s] THEN aws ELSE secret

OldestOrNone == IF Oldest = {} THEN {NoConn} ELSE Oldest

\* RequestView::render()
Render ==
    /\ Turn /\ window
    /\ shown' \in OldestOrNone
    /\ UNCHANGED <<serverVars, table, connVars, queueVars, window, main>>

\* respond_secret() and respond_aws(), with the ID the button was made for; a
\* grant settles other requests too.  A request that is no longer pending is an
\* error.
Click ==
    /\ Turn /\ shown # NoConn
    /\ shown \in Queued
    /\ \E others \in SUBSET (Queued \ {shown}) : Resolve({shown} \cup others, "decided")
    /\ UNCHANGED <<serverVars, table, connVars, windowVars>>

\* Controller::lock() denies what is pending.
LockVault ==
    /\ Turn /\ Queued # {}
    /\ Resolve(Queued, "decided")
    /\ UNCHANGED <<serverVars, table, connVars, windowVars>>

-----------------------------------------------------------------------------
(* The event loop.                                                         *)

Continue(doing) == main' = [Idle EXCEPT !.doing = doing]

\* reconcile_windows(): a snapshot, and what it calls for.
Reconcile ==
    /\ Turn
    /\ \/ Queued # {} /\ ~window /\ Continue("open")
       \/ Queued = {} /\ window /\ Continue("close")
    /\ UNCHANGED <<serverVars, table, connVars, queueVars, window, shown>>

\* open_request(), which may fail and is tried again.
OpenRequest ==
    /\ main.doing = "open"
    /\ window' \in BOOLEAN
    /\ main' = Idle
    /\ UNCHANGED <<serverVars, table, connVars, queueVars, shown>>

\* observe_closed_windows()
WindowClosed(by, intentional) ==
    /\ window' = FALSE
    /\ shown' = NoConn
    /\ main' = IF intentional THEN Idle
               ELSE [Idle EXCEPT !.doing = "dismiss", !.by = by, !.was = shown]
    /\ UNCHANGED <<serverVars, table, connVars, queueVars>>

\* Variant of CloseRequest without closing_request.
CloseUnannounced ==
    /\ main.doing = "close"
    /\ WindowClosed("reconcile", FALSE)

\* close_request() sets closing_request for the time of the call.
CloseRequest ==
    /\ main.doing = "close"
    /\ WindowClosed("reconcile", TRUE)

UserCloses ==
    /\ Turn /\ window
    /\ WindowClosed("user", FALSE)

\* dismiss_oldest_request(): a snapshot, then a second critical section in which
\* that request may be gone.
PickOldest ==
    /\ main.doing = "dismiss"
    /\ \E c \in OldestOrNone :
          main' = IF c = NoConn THEN Idle ELSE [main EXCEPT !.doing = "deny", !.target = c]
    /\ UNCHANGED <<serverVars, table, connVars, queueVars, window, shown>>

DenyPicked ==
    /\ main.doing = "deny"
    /\ Resolve({main.target} \cap Queued, "dismissed")
    /\ main' = Idle
    /\ UNCHANGED <<serverVars, table, connVars, window, shown>>

-----------------------------------------------------------------------------
(* The end.                                                                *)

\* Quit drops AppState: the vault is locked, then the server is closed.
Quit ==
    /\ Turn
    /\ Resolve(Queued, "decided")
    /\ desktop' = "quitting"
    /\ window' = FALSE /\ shown' = NoConn /\ main' = Idle
    /\ UNCHANGED <<endpoint, backlog, listening, accepted, active, leaked, table, connVars>>

NoWindows == window' = FALSE /\ shown' = NoConn /\ main' = Idle

-----------------------------------------------------------------------------
MainThread ==
    \/ Reconcile
    \/ OpenRequest
    \/ CloseRequest
    \/ PickOldest
    \/ DenyPicked

User ==
    \/ Click
    \/ LockVault
    \/ UserCloses
    \/ Quit

Server ==
    \/ OtherProcesses
    \/ \E c \in Conn : Connect(c) \/ Leave(c)
    \/ AcceptStep
    \/ \E c \in Conn : SpawnFails(c)
    \/ StopListening
    \/ \E c \in Conn : ThreadStep(c)
    \/ StartDesktop

Next ==
    \/ MainThread
    \/ Render
    \/ User
    \/ Server /\ UNCHANGED windowVars
    \/ (EndDesktop \/ CrashDesktop) /\ NoWindows

\* Threads that can go on do: reads, looks and waits have a timeout.  Nothing is
\* asked of the user, of clients or of other processes.
Fairness ==
    /\ WF_allVars(AcceptStep /\ UNCHANGED windowVars)
    /\ \A c \in Conn : WF_allVars(ThreadStep(c) /\ UNCHANGED windowVars)
    /\ WF_allVars(desktop = "quitting" /\ StopListening /\ UNCHANGED windowVars)
    /\ WF_allVars(EndDesktop /\ NoWindows)

Spec == DesktopInit /\ [][Next]_allVars /\ Fairness

-----------------------------------------------------------------------------
(* Properties.                                                             *)

\* A request is dismissed only when the user closed the window: closing it because
\* no request is left never denies one that arrives in the meantime
\* (closing_request in runtime.rs).  Which request the user meant is
\* CloseAffectsTheShown.
DismissedOnlyByTheUser ==
    [][\A c \in Conn : resolution[c] # "dismissed" /\ resolution'[c] = "dismissed"
          => main.doing = "deny" /\ main.by = "user"]_allVars

\* Closing the window affects only the request it shows (README.md:109).
CloseAffectsTheShown ==
    main.doing = "deny" /\ main.was # NoConn => main.target = main.was

\* A thread that waits is waiting for somebody: its request is still shown to the
\* user, or its answer is on the way, and never both.  A click, a timeout and a
\* lock that settle others take requests from the queue and send in one critical
\* section (respond, timeout_request and lock in controller.rs).
WaitersWaitForSomebody ==
    \A c \in Conn : conn[c] = "waiting" <=> (c \in Queued) # (resolution[c] # "none")

\* What a waiting thread was told does not change before it wakes: of a click, a
\* timeout and a dismissal of the same request the first one counts.
DecisionsStand ==
    [][\A c \in Conn : resolution[c] # "none" => resolution'[c] \in {resolution[c], "none"}]_allVars

\* The desktop that ends, or crashes between any two steps, leaves no connection,
\* no request and no slot behind that the next one would find; the endpoint file
\* then names a desktop that is gone, or is gone too (close in server.rs).
NothingOutlivesTheDesktop ==
    /\ desktop = "off" =>
          /\ ~listening /\ ~window /\ accepted = NoConn /\ active = 0
          /\ \A c \in Conn : conn[c] = "idle" /\ queue[c] = 0 /\ resolution[c] = "none"
    /\ desktop = "off" <=> endpoint # "current"
    /\ ~listening => backlog = << >> /\ accepted = NoConn

==============================================================================
