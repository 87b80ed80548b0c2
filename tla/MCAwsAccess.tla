------------------------------ MODULE MCAwsAccess ------------------------------
(***************************************************************************)
(* Instances of AwsAccess for TLC: a shell that asks for itself and a tool *)
(* it started, so that one request's tree lies inside the other's.         *)
(***************************************************************************)
EXTENDS AwsAccess, TLC

CONSTANTS shell, tool, launchd

MCProcess == {shell, tool, launchd}

\* launchd, the last ancestor, is left out where it could not be chosen.
ShellAndTool == {<<tool, shell>>, <<shell>>}

ToolOnly == {<<tool>>}

\* A tool with a parent, and one whose parent has exited: launchd adopted the
\* client, so that it is the first process of the tree not secretd's own.
WithOrphan == {<<tool, launchd>>, <<launchd>>}

Symmetry == Permutations(Connection)

ProfileSymmetry == Permutations(Connection) \cup Permutations(Profile)
=============================================================================
