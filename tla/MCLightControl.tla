--------------------------- MODULE MCLightControl ---------------------------
(***************************************************************************)
(* Instances of LightControl for model checking.                           *)
(***************************************************************************)
EXTENDS LightControl

Codes == INSTANCE IrCodes

RealKeysOf == [v \in Brightness \ {0} |-> Codes!ChannelKeys(v)]
RealKeys   == DOMAIN Codes!get_remote_control("LG")

\* A request as Alexa sends it, for light id.
Whole(kind, id, number) ==
  [kind |-> kind, id |-> id, number |-> number, ends |-> "whole"]

Switching == {Whole("on", 1, 0), Whole("off", 1, 0)}
Dimming   == {Whole("bri", 1, 0), Whole("bri", 1, 14)}

Television == << "fernseher" >>
TwoDevices == << "fernseher", "lampe" >>

\* One connection, and everything that may come in on it: ids and numbers
\* that wrap around, an id of no device, colours, requests that end too early.
Everything ==
  [t \in Thread |->
     Switching \cup Dimming \cup
       {Whole("bri", 257, 270), Whole("bri", 256, 14), Whole("on", 2, 0),
        Whole("off", 3, 0), Whole("hue", 1, 0), Whole("ct", 1, 300),
        Whole("ct", 1, 65536), Whole("register", 1, 0),
        [Whole("bri", 1, 14) EXCEPT !.ends = "key"],
        [Whole("hue", 1, 0) EXCEPT !.ends = "key"],
        [Whole("on", 0, 0) EXCEPT !.ends = "lights"],
        [Whole("on", 1, 0) EXCEPT !.ends = "line"]}]

\* Several connections: one dims the television, which also switches it off,
\* the others switch it on and off, and the other light on.
OneDimmer ==
  LET dimmer == CHOOSE t \in Thread : TRUE
  IN  [t \in Thread |-> IF t = dimmer THEN Dimming
                                      ELSE Switching \cup {Whole("on", 2, 0)}]

JustSwitching == [t \in Thread |-> Switching]
=============================================================================
