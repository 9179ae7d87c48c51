------------------------------- MODULE Frame -------------------------------
(***************************************************************************)
(* The frame codec of examples/frame_tester, class Frame.                  *)
(*                                                                         *)
(* One Frame object (tx) is filled in with the setters and encoded; the    *)
(* bytes go over a line; another object (rx) decodes them.  rx is used     *)
(* again for the next frame, so what a decode leaves alone is what an      *)
(* earlier one put there.                                                  *)
(*                                                                         *)
(* External: the line, which may change one byte or lose the end of a      *)
(* frame, and the memory behind the byte vector (Junk).                    *)
(***************************************************************************)
EXTENDS Integers, Sequences

CONSTANTS
    MaxWords,   \* data words that decodeFrame's loop takes (13)
    Inputs,     \* field -> values that the setters are called with
    Junk,       \* bytes that may lie behind the vector
    Masks,      \* bit patterns by which the line may change a byte
    Cuts,       \* lengths to which the line may shorten a frame
    MaxSets,    \* bound: calls of setters
    MaxFrames   \* bound: frames encoded

\* uint8_t and uint16_t
MaxByte == 255
MaxWord == 65535
Byte == 0 .. MaxByte
Word == 0 .. MaxWord

Fields ==
    {"registerAddress", "readWriteCommand", "lengthCode", "chipAddress",
     "engineAddress", "data", "general", "cnt", "completion",
     "completionWithConditional"}

FrameType ==
    [registerAddress : Byte, readWriteCommand : BOOLEAN, lengthCode : Byte,
     chipAddress : Byte, engineAddress : Word, data : Seq(Word),
     general : Byte, cnt : Byte, completion : BOOLEAN,
     completionWithConditional : BOOLEAN]

\* Frame::Frame()
NewFrame ==
    [registerAddress |-> 0, readWriteCommand |-> FALSE, lengthCode |-> 0,
     chipAddress |-> 0, engineAddress |-> 0, data |-> <<>>, general |-> 0,
     cnt |-> 0, completion |-> FALSE, completionWithConditional |-> FALSE]

ASSUME FrameAssumption ==
    /\ MaxWords \in Nat
    /\ DOMAIN Inputs = Fields
    /\ \A field \in Fields : \A v \in Inputs[field] :
            [NewFrame EXCEPT ![field] = v] \in FrameType
    /\ Junk \subseteq Byte /\ Junk # {}
    /\ Masks \subseteq Byte \ {0}
    /\ Cuts \subseteq Nat
    /\ MaxSets \in Nat
    /\ MaxFrames \in Nat

VARIABLES
    tx,         \* the sender's Frame
    rx,         \* the receiver's Frame
    wire,       \* bytes of the last encoded frame, as the line has them
    origin,     \* history: the Frame whose encoding is on the line
    line,       \* history: "intact", "damaged" or "cut"
    decoded,    \* history: rx decoded what is on the line
    overread,   \* history: decodeFrame read past the end of the vector
    sets,       \* calls of setters so far
    frames      \* frames encoded so far

vars == <<tx, rx, wire, origin, line, decoded, overread, sets, frames>>

-----------------------------------------------------------------------------
(* calculateCRC: a 16-bit shift register.                                  *)

Bit(n, i) == (n \div 2^i) % 2

\* byte ^ mask
XorByte(byte, mask) ==
    LET x(i) == ((Bit(byte, i) + Bit(mask, i)) % 2) * 2^i
    IN  x(0) + x(1) + x(2) + x(3) + x(4) + x(5) + x(6) + x(7)

Toggle(n, i) == IF Bit(n, i) = 1 THEN n - 2^i ELSE n + 2^i

\* ^ polynomial, which is 0x8005
XorPolynomial(n) == Toggle(Toggle(Toggle(n, 15), 2), 0)

\* crc << 1, with the polynomial if the top bit was set
Shift == [crc \in Word |->
            IF Bit(crc, 15) = 1 THEN XorPolynomial((2 * crc) % 65536) ELSE 2 * crc]

\* crc ^= (byte << 8), then eight shifts
CrcByte(byte) ==
    [crc \in Word |->
        LET s[k \in 0 .. 8] ==
                IF k = 0 THEN 256 * XorByte(crc \div 256, byte) + (crc % 256)
                         ELSE Shift[s[k - 1]]
        IN  s[8]]

calculateCRC(bytes) ==
    LET crc[n \in 0 .. Len(bytes)] ==
            IF n = 0 THEN 0 ELSE CrcByte(bytes[n])[crc[n - 1]]
    IN  crc[Len(bytes)]

-----------------------------------------------------------------------------
(* encodeFrame.                                                            *)

TwoBytes(word) == <<word \div 256, word % 256>>

\* High byte and low byte of every word.
DataBytes(words) ==
    [k \in 1 .. 2 * Len(words) |->
        IF k % 2 = 1 THEN words[(k + 1) \div 2] \div 256 ELSE words[k \div 2] % 256]

Flag(b) == IF b THEN 1 ELSE 0

\* general in the upper seven bits, readWriteCommand in the lowest.
GeneralByte(f) == ((2 * f.general) % 256) + Flag(f.readWriteCommand)

\* Everything but the CRC.
Body(f) ==
    <<f.registerAddress, f.lengthCode, f.chipAddress>>
    \o TwoBytes(f.engineAddress)
    \o DataBytes(f.data)
    \o <<GeneralByte(f), f.cnt,
         Flag(f.completion) + 2 * Flag(f.completionWithConditional)>>

\* Mutant of encodeFrame: the CRC's low byte comes first.
encodeFrame_Swapped(f) ==
    LET crc == calculateCRC(Body(f)) IN Body(f) \o <<crc % 256, crc \div 256>>

encodeFrame(f) ==
    LET crc == calculateCRC(Body(f)) IN Body(f) \o TwoBytes(crc)

-----------------------------------------------------------------------------
(* decodeFrame, with positions counted from 1.                             *)

\* Mutant of headerSize: read/write still counted as a byte of its own.
headerSize_Old == 7

headerSize == 6
footerSize == 4

\* Mutant of WordsIn: the loop takes one word less.
WordsIn_Fewer(bytes) ==
    LET whole == (Len(bytes) - headerSize) \div 2
    IN  IF whole < MaxWords - 1 THEN whole ELSE MaxWords - 1

\* The loop takes whole words while there are any, at most MaxWords.
WordsIn(bytes) ==
    LET whole == (Len(bytes) - headerSize) \div 2
    IN  IF whole < MaxWords THEN whole ELSE MaxWords

\* Mutant of WithHeader: the loop appends to the data of the earlier frame.
WithHeader_Appends(f, bytes) ==
    [f EXCEPT !.registerAddress = bytes[1],
              !.readWriteCommand = (bytes[2] % 2 = 1),
              !.general = bytes[2] \div 2,
              !.lengthCode = bytes[3],
              !.chipAddress = bytes[4],
              !.engineAddress = 256 * bytes[5] + bytes[6],
              !.data = @ \o [i \in 1 .. WordsIn(bytes) |->
                                256 * bytes[headerSize + 2 * i - 1]
                                + bytes[headerSize + 2 * i]]]

\* The header, then the data words.
WithHeader(f, bytes) ==
    [f EXCEPT !.registerAddress = bytes[1],
              !.readWriteCommand = (bytes[2] % 2 = 1),
              !.general = bytes[2] \div 2,
              !.lengthCode = bytes[3],
              !.chipAddress = bytes[4],
              !.engineAddress = 256 * bytes[5] + bytes[6],
              !.data = [i \in 1 .. WordsIn(bytes) |->
                            256 * bytes[headerSize + 2 * i - 1]
                            + bytes[headerSize + 2 * i]]]

WithFooter(f, count, flags) ==
    [f EXCEPT !.cnt = count,
              !.completion = (flags % 2 = 1),
              !.completionWithConditional = ((flags \div 2) % 2 = 1)]

\* What bytes[i] can be: behind the vector, whatever is there.
At(bytes, i) == IF i <= Len(bytes) THEN {bytes[i]} ELSE Junk

-----------------------------------------------------------------------------
Init ==
    /\ tx = NewFrame
    /\ rx = NewFrame
    /\ wire = <<>>
    /\ origin = NewFrame
    /\ line = "intact"
    /\ decoded = FALSE
    /\ overread = FALSE
    /\ sets = 0
    /\ frames = 0

\* The setters, setRegisterAddress to setLengthCode: each assigns its field.
Set(field) ==
    /\ sets < MaxSets
    /\ \E v \in Inputs[field] : tx' = [tx EXCEPT ![field] = v]
    /\ sets' = sets + 1
    /\ UNCHANGED <<rx, wire, origin, line, decoded, overread, frames>>

Encode ==
    /\ frames < MaxFrames
    /\ wire' = encodeFrame(tx)
    /\ origin' = tx
    /\ line' = "intact"
    /\ decoded' = FALSE
    /\ overread' = FALSE
    /\ frames' = frames + 1
    /\ UNCHANGED <<tx, rx, sets>>

Damage ==
    /\ wire # <<>> /\ line = "intact" /\ ~decoded
    /\ \E i \in DOMAIN wire, mask \in Masks :
            wire' = [wire EXCEPT ![i] = XorByte(@, mask)]
    /\ line' = "damaged"
    /\ UNCHANGED <<tx, rx, origin, decoded, overread, sets, frames>>

Cut ==
    /\ wire # <<>> /\ line = "intact" /\ ~decoded
    /\ \E n \in Cuts : n < Len(wire) /\ wire' = SubSeq(wire, 1, n)
    /\ line' = "cut"
    /\ UNCHANGED <<tx, rx, origin, decoded, overread, sets, frames>>

\* There are bytes to decode, and enough of them for decodeFrame to go on.
Pending == frames > 0 /\ ~decoded
LongEnough == Len(wire) >= headerSize + footerSize

\* Too short: an error message, and the object stays as it was.
DecodeRefused ==
    /\ Pending
    /\ ~LongEnough
    /\ decoded' = TRUE
    /\ UNCHANGED <<tx, rx, wire, origin, line, overread, sets, frames>>

\* Mutant of DecodeShort: break instead of return.
DecodeShort_Break ==
    /\ Pending
    /\ LongEnough
    /\ WordsIn(wire) < MaxWords
    /\ \E count, flags \in Junk : rx' = WithFooter(WithHeader(rx, wire), count, flags)
    /\ decoded' = TRUE
    /\ UNCHANGED <<tx, wire, origin, line, overread, sets, frames>>

\* The bytes run out in the loop: decodeFrame returns without a footer.
DecodeShort ==
    /\ Pending
    /\ LongEnough
    /\ WordsIn(wire) < MaxWords
    /\ rx' = WithHeader(rx, wire)
    /\ decoded' = TRUE
    /\ UNCHANGED <<tx, wire, origin, line, overread, sets, frames>>

\* All words are there; the two bytes of the footer are read unchecked.
DecodeFull ==
    LET next == headerSize + 2 * WordsIn(wire) + 1 IN
    /\ Pending
    /\ LongEnough
    /\ WordsIn(wire) >= MaxWords
    /\ \E count \in At(wire, next), flags \in At(wire, next + 1) :
            rx' = WithFooter(WithHeader(rx, wire), count, flags)
    /\ overread' = (next + 1 > Len(wire))
    /\ decoded' = TRUE
    /\ UNCHANGED <<tx, wire, origin, line, sets, frames>>

Decode == DecodeRefused \/ DecodeShort \/ DecodeFull

Next == (\E field \in Fields : Set(field)) \/ Encode \/ Damage \/ Cut \/ Decode

Spec == Init /\ [][Next]_vars

-----------------------------------------------------------------------------
(* Properties.                                                             *)

\* The CRC over a whole frame, its own two bytes included, is zero if the line
\* left the frame alone, and is not if it changed bits of one byte, wherever:
\* the order of the CRC's bytes fits the order in which calculateCRC takes them.
CrcTells ==
    /\ frames > 0 /\ line = "intact" => calculateCRC(wire) = 0
    /\ line = "damaged" => calculateCRC(wire) # 0

\* rx holds the decoding of a frame that the line left alone.
Received == decoded /\ line = "intact"

\* encodeFrame and decodeFrame agree on where the register address is, and, for
\* a frame with exactly MaxWords words, on where counter and flags are, although
\* they place the general byte at opposite ends of the data.
FullFrameAgrees ==
    Received =>
        /\ rx.registerAddress = origin.registerAddress
        /\ Len(origin.data) = MaxWords =>
            /\ rx.cnt = origin.cnt
            /\ rx.completion = origin.completion
            /\ rx.completionWithConditional = origin.completionWithConditional

\* What decodeFrame takes for data starts with the second byte of the first word
\* and ends with the CRC: for a frame of n words, no more than n + 2 and no more
\* than MaxWords, whatever rx held before, and word i is made of the halves of
\* words i and i + 1.
DataSlips ==
    Received =>
        /\ Len(rx.data) <= MaxWords
        /\ Len(rx.data) <= Len(origin.data) + 2
        /\ \A i \in 1 .. Len(origin.data) - 1 : i <= MaxWords =>
            rx.data[i] = 256 * (origin.data[i] % 256) + (origin.data[i + 1] \div 256)

\* Of the frames that encodeFrame makes, decodeFrame reads past the end of those
\* with MaxWords - 2 words and of no others.
OverreadOnlyAtEdge ==
    Received => (overread <=> Len(origin.data) = MaxWords - 2)

\* A frame with fewer words never changes the receiver's counter or flags: they
\* stay those of an earlier frame.
ShortFrameKeepsFooter ==
    [][decoded' /\ line = "intact" /\ Len(origin.data) < MaxWords - 2
        => /\ rx'.cnt = rx.cnt
           /\ rx'.completion = rx.completion
           /\ rx'.completionWithConditional = rx.completionWithConditional]_vars
=============================================================================
