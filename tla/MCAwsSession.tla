------------------------------ MODULE MCAwsSession ------------------------------
(***************************************************************************)
(* Instances of AwsSession for TLC.                                        *)
(***************************************************************************)
EXTENDS AwsSession, TLC

=============================================================================
