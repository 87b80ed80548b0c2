------------------------------ MODULE GrantStore ------------------------------
(***************************************************************************)
(* The in-memory store of temporary secret grants (grants.rs).  A grant    *)
(* lets one process, and every process below it, read one secret until it  *)
(* expires.  The store is a Vec behind the controller's mutex; its order   *)
(* only decides which of several covering grants `find` returns, which no  *)
(* caller tells apart, so it is a set here, and the uuid of a grant is     *)
(* kept because it is what keeps two equal grants apart.                   *)
(***************************************************************************)
EXTENDS WallClock

CONSTANTS Secret,   \* normalised secret names
          Process,  \* process identities: pid, start time, executable
          GrantId   \* uuids the store can still hand out

VARIABLE grants  \* the grants the store holds, expired ones included

Grant == [id : GrantId, resource : Secret, process : Process, expires : Nat]

GrantTypeOK ==
    /\ grants \subseteq Grant
    /\ now \in Nat

GrantInit ==
    /\ grants = {}
    /\ now = 0

-----------------------------------------------------------------------------
\* cleanup(): what is left once the expired grants are dropped.
Live == {g \in grants : g.expires > now}

\* find(): does some grant of G open the secret to a process of the tree?
Covers(G, secret, members) ==
    \E g \in G : g.resource = secret /\ g.process \in members

\* Uuids never repeat.
FreshIds == GrantId \ {g.id : g \in grants}

\* add(): does not drop expired grants.
Added(id, secret, process, seconds) ==
    grants \cup {[id |-> id, resource |-> secret, process |-> process,
                  expires |-> now + seconds]}

\* extend(): works on what cleanup() leaves.
Extended(id) ==
    {IF g.id = id THEN [g EXCEPT !.expires = ExtendedExpiry(@)] ELSE g : g \in Live}

\* revoke(): removes one entry, without a cleanup.
Revoked(id) == {g \in grants : g.id # id}

-----------------------------------------------------------------------------
ClockStep == TimePasses /\ UNCHANGED grants
=============================================================================
