-------------------------- MODULE MCRemoteControl --------------------------
(***************************************************************************)
(* Instances of RemoteControl for model checking, with the real channel    *)
(* keys of a few brightnesses.                                             *)
(***************************************************************************)
EXTENDS RemoteControl

Codes == INSTANCE IrCodes

\* Brightness 0 never dials; 14 and 26 dial 5 and 10; 255 is the selection
\* the constructor assumes.
SomeBrightness == {0, 14, 26, 255}

\* Two brightnesses with two-digit channels, 10 and 50.
TwoDigitBrightness == {26, 127}

RealKeysOf == [v \in Brightness \ {0} |-> Codes!ChannelKeys(v)]
RealKeys   == DOMAIN Codes!get_remote_control("LG")
=============================================================================
