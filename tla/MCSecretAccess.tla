---------------------------- MODULE MCSecretAccess ----------------------------
(***************************************************************************)
(* Instances of SecretAccess for TLC: two tools started from one shell, so *)
(* that a grant on a tool covers one client and a grant on the shell both. *)
(***************************************************************************)
EXTENDS SecretAccess, TLC

CONSTANTS shell, toolA, toolB, launchd

MCProcess == {shell, toolA, toolB, launchd}

Chain(tool) == [origin |-> tool, members |-> {tool, shell, launchd}]

\* A client whose parent has exited: launchd is all that is left of its tree.
Orphan == [origin |-> launchd, members |-> {launchd}]

TwoTools == {Chain(toolA), Chain(toolB)}

OneTool == {Chain(toolA)}

OneToolOrOrphan == {Chain(toolA), Orphan}

\* Neither the threads, the tools nor the uuids differ in anything but name.
Symmetry == Permutations(Connection) \cup Permutations(GrantId) \cup Permutations({toolA, toolB})

\* Secrets, threads and uuids are interchangeable too.
NameSymmetry == Permutations(Connection) \cup Permutations(GrantId) \cup Permutations(Secret)
=============================================================================
