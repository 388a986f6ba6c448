-------------------------- MODULE MCSocketIoClient --------------------------
(* Instances of SocketIoClient for TLC.                                     *)
EXTENDS SocketIoClient, TLC

MCAuth == {Json("object", "token")}

=============================================================================
