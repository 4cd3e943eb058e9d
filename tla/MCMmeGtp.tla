------------------------------ MODULE MCMmeGtp ------------------------------
(***************************************************************************)
(* One UE with three sessions for TLC: s1 with an S1-U path, s2 without,   *)
(* s3 with one whose default bearer is already disconnecting.             *)
(***************************************************************************)
EXTENDS MmeGtp

CONSTANTS s1, s2, s3, sgw1, stranger

ThreeSess == {s1, s2, s3}
SessOrder == <<s1, s2, s3>>
WithS1u == {s1, s3}
PdnWillDisconnect == {s3}

=============================================================================
