---------------------------- MODULE MCAlgorithms ----------------------------
(***************************************************************************)
(* Sweeps the pure algorithms of the program over bounded inputs and       *)
(* checks them against what they are for: IrCodes over every brightness,   *)
(* RequestText over requests, whole and cut, and over dotted texts.        *)
(***************************************************************************)
EXTENDS IrCodes, RequestText

VARIABLE sample   \* the input under test

\* Requests as a controller writes them, and the number of characters that
\* the first recv returns.
Lines == {<< "h" >>, << "h", " ", "v" >>}

HeaderLists == {<< >>} \cup {<< l >> : l \in Lines} \cup {<< l, m >> : l, m \in Lines}

BodyChars == {"b", " ", "CR", "LF"}

Bodies == {<< >>} \cup [1 .. 1 -> BodyChars] \cup [1 .. 2 -> BodyChars]

LineEnds == {<< "CR", "LF" >>, << "LF" >>}

Join(text, line) == text \o line

HeadOf(request) ==
  LET lines == [i \in DOMAIN request.headers |->
                  request.headers[i] \o request.lineEnd]
  IN  FoldLeft(Join, << "m", " ", "u", "/", " ", "v" >> \o request.lineEnd, lines)
        \o request.lineEnd

Samples ==
  [kind : {"brightness"}, value : Byte]
    \cup [kind : {"request"}, lineEnd : LineEnds, headers : HeaderLists,
          body : Bodies, cut : 0 .. 26]
    \cup [kind : {"address"}, bytes : [1 .. 4 -> {0, 9, 10, 99, 100, 255}]]
    \cup [kind : {"text"}, text : UNION {[1 .. n -> {"2", "6", ".", "x"}] : n \in 0 .. 6}]

Init == sample = [kind |-> "none"]

Next == \/ sample.kind = "none" /\ sample' \in Samples
        \/ sample.kind # "none" /\ sample' = [kind |-> "none"]

Spec == Init /\ [][Next]_sample

-----------------------------------------------------------------------------
Number(digits) == FoldLeft(LAMBDA number, digit : 10 * number + digit, 0, digits)

(***************************************************************************)
(* The 256 entries of brightness_to_channel_mapping are, without a single  *)
(* exception, the straight line (49 v - 23) / 124 rounded down and clamped *)
(* to 0 .. 99: the table has no misplaced entry, skips no channel and      *)
(* never goes back, so every two-digit channel can be reached by voice.    *)
(***************************************************************************)
TableIsLinear ==
  sample.kind = "brightness" =>
    LET line == (49 * sample.value - 23) \div 124
    IN  convert_brightness_to_channel(sample.value) =
          IF line < 0 THEN 0 ELSE IF line > 99 THEN 99 ELSE line

(***************************************************************************)
(* get_digits spells its argument: read as a decimal number the digits     *)
(* give it back, for every byte and not only for channels, and no number   *)
(* but zero starts with a zero, so no key is pressed in vain.              *)
(***************************************************************************)
DigitsSpellNumber ==
  sample.kind = "brightness" =>
    LET digits == get_digits(sample.value)
    IN  /\ Number(digits) = sample.value
        /\ \A i \in DOMAIN digits : digits[i] \in 0 .. 9
        /\ digits[1] = 0 => sample.value = 0

(***************************************************************************)
(* The frames actionPerformed puts on the serial line for a brightness     *)
(* determine remote control and channel: two brightnesses share their      *)
(* frames exactly when they are dialled on the same remote control and     *)
(* mean the same channel, and every frame is the five bytes sendBytes      *)
(* prints.  A wrong, duplicated or missing entry of a table breaks this.   *)
(***************************************************************************)
Frames(remote, v) ==
  LET keys  == ChannelKeys(v)
      codes == get_remote_control(remote)
  IN  [i \in DOMAIN keys |-> codes[keys[i]]]

FramesIdentifyChannel ==
  sample.kind = "brightness" =>
    \A r1 \in {"LG", "DYON"} :
      LET sent == Frames(r1, sample.value)
      IN  /\ \A i \in DOMAIN sent : sent[i] \in [1 .. 5 -> Byte]
          /\ \A r2 \in {"LG", "DYON"}, v \in Byte :
               sent = Frames(r2, v)
                 <=> /\ r1 = r2
                     /\ convert_brightness_to_channel(sample.value)
                          = convert_brightness_to_channel(v)

(***************************************************************************)
(* What recv returned is a request or its beginning.  _onTCPData finds     *)
(* method, url and body of a whole request, whatever its headers, its line *)
(* ends and its body are; of one that is cut it finds the same method and  *)
(* url and what is there of the body, never something else, and it runs on *)
(* behind the text exactly if the cut is not behind the url (420-447).     *)
(***************************************************************************)
CutRequestsAreBeginnings ==
  sample.kind = "request" =>
    LET whole  == HeadOf(sample) \o sample.body
        behind == 5
    IN  sample.cut <= Len(whole) =>
          Request(SubSeq(whole, 1, sample.cut)) =
            IF sample.cut < behind THEN Overrun
            ELSE [method |-> << "m" >>, url |-> << "u", "/" >>,
                  body |-> SubSeq(whole, Len(HeadOf(sample)) + 1, sample.cut)]

(***************************************************************************)
(* An address survives being printed and read, which is how the answer to  *)
(* a search gets the address get_ip_addr found (toString, fromString).     *)
(***************************************************************************)
AddressesSurvive ==
  sample.kind = "address" =>
    fromString(toString(sample.bytes)) = [ok |-> TRUE, bytes |-> sample.bytes]

(***************************************************************************)
(* fromString accepts four runs of digits with a dot between them, of      *)
(* which each is at most 255 and may be empty, and nothing else.           *)
(***************************************************************************)
Split(runs, char) ==
  IF char = "." THEN Append(runs, << >>)
  ELSE [runs EXCEPT ![Len(runs)] = Append(@, char)]

Runs(text) == FoldLeft(Split, << << >> >>, text)

Octet(run) == Number([k \in DOMAIN run |-> ValueOf(run[k])])

ReadsAddressesOnly ==
  sample.kind = "text" =>
    LET runs == Runs(sample.text)
        read == fromString(sample.text)
    IN  /\ read.ok <=> /\ Len(runs) = 4
                       /\ \A r \in DOMAIN runs : ToSet(runs[r]) \subseteq ToSet(Digits)
                       /\ \A r \in DOMAIN runs : Octet(runs[r]) <= 255
        /\ read.ok => read.bytes = [r \in DOMAIN runs |-> Octet(runs[r])]
=============================================================================
