------------------------- MODULE CredentialRotationMC -------------------------
(* CredentialRotation for TLC.                                               *)
EXTENDS CredentialRotation

=============================================================================
