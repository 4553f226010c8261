----------------------- MODULE MCRemoteControlSerial -----------------------
(***************************************************************************)
(* MCRemoteControl with the one caller RemoteControlSerial asks for.       *)
(***************************************************************************)
EXTENDS MCRemoteControl, RemoteControlSerial
=============================================================================
