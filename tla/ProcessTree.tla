------------------------------- MODULE ProcessTree -------------------------------
(***************************************************************************)
(* process.rs: who asks.  A connection thread walks from the client's      *)
(* process to its ancestors, one look at the system's process table per    *)
(* process, while processes exit, are adopted, and process IDs are used    *)
(* again.                                                                  *)
(***************************************************************************)
EXTENDS Integers, Sequences, FiniteSets, SequencesExt

CONSTANTS Pid,           \* process IDs
          Root,          \* the process that adopts orphans: launchd or init
          Limit          \* the longest tree that is collected

ASSUME ProcessAssumption ==
    /\ Pid \subseteq Nat \ {0}
    /\ Root \in Pid
    /\ Limit \in Nat \ {0}

VARIABLE table           \* the parent of each live process

Gone == -1

Alive(pid) == table[pid] # Gone

ProcessTypeOK ==
    /\ table \in [Pid -> {Gone, 0} \cup Pid]
    /\ Alive(Root)

ProcessInit == table = [pid \in Pid |-> IF pid = Root THEN 0 ELSE Gone]

-----------------------------------------------------------------------------
(* The operating system.                                                   *)

\* The ID may have been another process's before.
Fork(parent, pid) ==
    /\ Alive(parent) /\ ~Alive(pid)
    /\ table' = [table EXCEPT ![pid] = parent]

\* The children of a process that exits are adopted.
Exit(pid) ==
    /\ pid # Root /\ Alive(pid)
    /\ table' = [p \in Pid |-> IF p = pid THEN Gone
                               ELSE IF table[p] = pid THEN Root ELSE table[p]]

-----------------------------------------------------------------------------
(* inspect_process_tree(), as a state [at, tree]: the process to look at   *)
(* next, or 0, and those that were found.                                  *)

From(pid) == [at |-> pid, tree |-> << >>]

NoWalk == From(0)

Visited(walk) == ToSet(walk.tree)

\* Variant of GoesOn: a walk does not remember where it was.
GoesOnForgetting(walk) == walk.at > 0 /\ Len(walk.tree) < Limit

GoesOn(walk) ==
    /\ walk.at > 0
    /\ Len(walk.tree) < Limit
    /\ walk.at \notin Visited(walk)

\* inspect_process(): one look at one process, which may be gone.
Inspect(walk) ==
    IF ~Alive(walk.at) THEN [walk EXCEPT !.at = 0]
    ELSE [at |-> table[walk.at], tree |-> Append(walk.tree, walk.at)]

\* A tree that can be offered as a choice of boundaries: it starts with the
\* process that asked, and no process ID is in it twice.
Sound(walk, pid) ==
    /\ Len(walk.tree) <= Limit
    /\ walk.tree # << >> => walk.tree[1] = pid
    /\ IsInjective(walk.tree)

==============================================================================
