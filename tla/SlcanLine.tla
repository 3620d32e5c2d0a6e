------------------------------ MODULE SlcanLine ------------------------------
(***************************************************************************)
(* What an adapter says, read: the streaming decoder of slcan/src/decoder.rs *)
(* as bridge/src/bus.rs drives it.  A line is a kind, an identifier, a     *)
(* length and data, by position and in hexadecimal, up to a terminator; a  *)
(* read takes whatever has arrived.                                        *)
(*                                                                         *)
(* The line between adapter and host may lose bytes, and at a wrong speed  *)
(* or after a brown-out the adapter says bytes that are no line at all.    *)
(***************************************************************************)
EXTENDS Integers, Sequences, SequencesExt

CONSTANTS
  Characters,        \* the characters bytes stand for
  Frames,            \* the frames on the bus
  Times,             \* what an adapter may add to a frame: sequences of characters
  Noise,             \* what an adapter says that is no line: sequences of characters
  MaxLine,           \* c_uMaxLineLength: 200
  ReadSize,          \* the buffer of ReceiveFrames: 1024
  MaxLines,          \* bound on the lines an adapter says
  MaxDamage          \* bound on the bytes lost and the noise

VARIABLES
  said,              \* the lines said: the frame each shows, if any, and whether it is intact
  ended,             \* the last line the adapter began has its terminator
  line,              \* bytes on their way: a character, and the line it is of
  damage,            \* how often anything was lost or babbled
  partial,           \* m_strPartial
  decoded,           \* the frames ReceiveFrames returned, each with the line it ended at
  rejections         \* m_uRejectionCount

vars == <<said, ended, line, damage, partial, decoded, rejections>>

Init ==
  /\ said = <<>> /\ ended = TRUE /\ line = <<>> /\ damage = 0
  /\ partial = <<>> /\ decoded = <<>> /\ rejections = 0

-----------------------------------------------------------------------------
(***************************************************************************)
(* Characters and frames                                                   *)
(***************************************************************************)
HexDigits == <<"0","1","2","3","4","5","6","7","8","9","A","B","C","D","E","F">>
Nibble == [c \in ToSet(HexDigits) |-> CHOOSE n \in 0 .. 15 : HexDigits[n + 1] = c]
IsHex(chars) == \A k \in 1 .. Len(chars) : chars[k] \in DOMAIN Nibble

IdLength(extended) == IF extended THEN 8 ELSE 3

\* A frame: its identifier and its bytes as nibbles, high one first.  A remote
\* frame has a length and no data.
DataLengthCode(frame) == IF frame.remote THEN frame.remoteLength ELSE Len(frame.data) \div 2

ASSUME SlcanAssumption ==
  /\ ToSet(HexDigits) \cup {"t", "T", "r", "R", "z", "CR", "BEL"} \subseteq Characters
  /\ \A frame \in Frames :
       /\ frame \in [extended : BOOLEAN, remote : BOOLEAN, id : Seq(0 .. 15),
                      data : Seq(0 .. 15), remoteLength : 0 .. 8]
       /\ Len(frame.id) = IdLength(frame.extended)
       /\ Len(frame.data) \in {2 * n : n \in 0 .. 8}
       /\ IF frame.remote THEN frame.data = <<>> ELSE frame.remoteLength = 0
  /\ MaxLine \in Nat \ {0} /\ ReadSize \in Nat \ {0}

Kind(frame) ==
  IF frame.extended THEN IF frame.remote THEN "R" ELSE "T"
                    ELSE IF frame.remote THEN "r" ELSE "t"

Hex(nibbles) == [k \in DOMAIN nibbles |-> HexDigits[nibbles[k] + 1]]

\* EncodeFrame, up to the terminator.
EncodeFrame(frame) ==
  <<Kind(frame)>> \o Hex(frame.id) \o Hex(<<DataLengthCode(frame)>>) \o Hex(frame.data)

\* Characters of a line, none of which ends it or stands for a rejection.
IsText(chars) ==
  chars \in Seq(Characters) /\ \A k \in 1 .. Len(chars) : chars[k] \notin {"CR", "BEL"}

\* A line fits, and the terminator of noise is that of the reply after it.
ASSUME LineAssumption ==
  /\ \A time \in Times :
       IsText(time) /\ \A frame \in Frames : Len(EncodeFrame(frame) \o time) <= MaxLine
  /\ \A noise \in Noise :
       noise \in Seq(Characters) /\ \A k \in 1 .. Len(noise) : noise[k] # "CR"

-----------------------------------------------------------------------------
(***************************************************************************)
(* Decoding a line                                                         *)
(***************************************************************************)
\* from_str_radix: hexadecimal digits, and a leading plus is a digit's place
\* that counts for nothing.  Empty when it is neither.
Number(chars) ==
  CASE IsHex(chars) -> [k \in 1 .. Len(chars) |-> Nibble[chars[k]]]
    [] Len(chars) > 1 /\ chars[1] = "+" /\ IsHex(Tail(chars)) ->
         [k \in 1 .. Len(chars) |-> IF k = 1 THEN 0 ELSE Nibble[chars[k]]]
    [] OTHER -> <<>>

\* DecodeDataBytes: exactly the declared length, whatever follows it.
DataOf(rest, length) ==
  LET byte(k) == Number(SubSeq(rest, 2 * k - 1, 2 * k))
  IN  IF Len(rest) < 2 * length \/ \E k \in 1 .. length : byte(k) = <<>>
        THEN <<>>
        ELSE <<[k \in 1 .. 2 * length |-> byte((k + 1) \div 2)[2 - (k % 2)]]>>

\* DecodeFrameLine: the frame, or nothing when the line is malformed.
DecodeFrameLine(chars) ==
  LET extended == chars[1] \in {"T", "R"}
      remote == chars[1] \in {"r", "R"}
      header == 1 + IdLength(extended) + 1
      id == Number(SubSeq(chars, 2, header - 1))
      length == Number(<<chars[header]>>)
      data == DataOf(SubSeq(chars, header + 1, Len(chars)), length[1])
      frame(bytes) ==
        [extended |-> extended, remote |-> remote, id |-> id, data |-> bytes,
         remoteLength |-> IF remote THEN length[1] ELSE 0]
  IN  CASE Len(chars) < header -> <<>>
        [] Len(chars) >= header /\ (id = <<>> \/ length = <<>>) -> <<>>
        [] Len(chars) >= header /\ id # <<>> /\ length # <<>> ->
             CASE length[1] > 8 -> <<>>
               [] length[1] <= 8 /\ remote -> <<frame(<<>>)>>
               [] OTHER -> IF data = <<>> THEN <<>> ELSE <<frame(data[1])>>

\* DecodeLine: everything that is no frame is an acknowledgement.
DecodeLine(chars) ==
  IF chars # <<>> /\ chars[1] \in {"t", "T", "r", "R"} THEN DecodeFrameLine(chars) ELSE <<>>

-----------------------------------------------------------------------------
(***************************************************************************)
(* The adapter and its line                                                *)
(***************************************************************************)
Bytes(chars, n) == [k \in DOMAIN chars |-> [char |-> chars[k], of |-> n]]

SayLine(shows, chars) ==
  /\ Len(said) < MaxLines
  /\ said' = Append(said, [shows |-> shows, intact |-> ended])
  /\ ended' = TRUE
  /\ line' = line \o Bytes(Append(chars, "CR"), Len(said) + 1)
  /\ UNCHANGED <<damage, partial, decoded, rejections>>

\* A frame from the bus; an adapter may add the time.
SayFrame ==
  \E frame \in Frames, time \in Times :
    SayLine(<<frame>>, EncodeFrame(frame) \o time)

\* It accepts a command.
Acknowledge == \E reply \in {<<>>, <<"z">>} : SayLine(<<>>, reply)

\* It rejects one, with a character that is no part of any line.
Ring ==
  /\ Len(said) < MaxLines
  /\ \A k \in 1 .. Len(line) : line[k].char # "BEL"
  /\ rejections = 0
  /\ line' = Append(line, [char |-> "BEL", of |-> Len(said) + 1])
  /\ UNCHANGED <<said, ended, damage, partial, decoded, rejections>>

\* It says what is no line, and what it says next goes with it; a reply that
\* is a terminator alone is noise that has one.
Babble ==
  /\ damage < MaxDamage
  /\ \E noise \in Noise : line' = line \o Bytes(noise, Len(said) + 1)
  /\ damage' = damage + 1 /\ ended' = FALSE
  /\ UNCHANGED <<said, partial, decoded, rejections>>

\* A byte is lost, and with a terminator the line that follows runs on.
LoseByte ==
  /\ damage < MaxDamage
  /\ \E k \in 1 .. Len(line) :
       LET n == line[k].of
           hit == CASE line[k].char = "CR" -> {n, n + 1}
                    [] line[k].char = "BEL" -> {}
                    [] OTHER -> {n}
       IN  /\ line' = RemoveAt(line, k)
           /\ said' = [m \in DOMAIN said |->
                IF m \in hit THEN [said[m] EXCEPT !.intact = FALSE] ELSE said[m]]
           /\ ended' = (ended /\ ~(line[k].char = "CR" /\ n = Len(said)))
  /\ damage' = damage + 1
  /\ UNCHANGED <<partial, decoded, rejections>>

-----------------------------------------------------------------------------
(***************************************************************************)
(* Reading                                                                 *)
(***************************************************************************)
Decoder == [partial |-> partial, decoded |-> decoded, rejections |-> rejections]

\* Mutated form of Starting: what an earlier read began is forgotten.
StartingAfresh == [Decoder EXCEPT !.partial = <<>>]

\* Feed goes on with the line that was begun.
Starting == Decoder

\* PushCharacter: the character that is too many goes with the line before it.
PushCharacter(d, char) ==
  [d EXCEPT !.partial = IF Len(@) >= MaxLine THEN <<>> ELSE Append(@, char)]

EndLine(d, n) ==
  LET shows == DecodeLine(d.partial)
  IN  [d EXCEPT !.partial = <<>>,
                !.decoded = @ \o [k \in DOMAIN shows |-> [at |-> n, frame |-> shows[k]]]]

FeedByte(d, byte) ==
  CASE byte.char = "CR" -> EndLine(d, byte.of)
    [] byte.char = "BEL" -> [d EXCEPT !.rejections = @ + 1]
    [] OTHER -> PushCharacter(d, byte.char)

Feed(d, bytes) ==
  LET Fed[k \in 0 .. Len(bytes)] ==
        IF k = 0 THEN d ELSE FeedByte(Fed[k - 1], bytes[k])
  IN  Fed[Len(bytes)]

\* ReceiveFrames: some of what has arrived.
ReceiveFrames ==
  \E n \in 1 .. Len(line) :
    /\ n <= ReadSize
    /\ LET fed == Feed(Starting, SubSeq(line, 1, n))
       IN  /\ partial' = fed.partial
           /\ decoded' = fed.decoded
           /\ rejections' = fed.rejections
    /\ line' = SubSeq(line, n + 1, Len(line))
    /\ UNCHANGED <<said, ended, damage>>

Next == SayFrame \/ Acknowledge \/ Ring \/ Babble \/ LoseByte \/ ReceiveFrames

Spec == Init /\ [][Next]_vars

-----------------------------------------------------------------------------
IsRead(n) == \A k \in 1 .. Len(line) : line[k].of > n

\* However reads cut the stream, a line that arrived whole shows its frame once
\* and in its place, and an acknowledgement or a rejection shows none.  Lost
\* bytes and noise spoil no line but their own and, with a terminator, the next.
WholeLinesArriveOnce ==
  /\ \A n \in 1 .. Len(said) :
       said[n].intact /\ IsRead(n)
         => {d.frame : d \in {e \in ToSet(decoded) : e.at = n}} = ToSet(said[n].shows)
  /\ \A j, k \in 1 .. Len(decoded) : j < k => decoded[j].at < decoded[k].at

=============================================================================
