------------------------------- MODULE Base64 --------------------------------
(***************************************************************************)
(* The base64 functions of config_info.cpp: pictures are encoded for the   *)
(* answer, and save_base64_to_file decodes them again for inspection.      *)
(* Characters are their ASCII codes.  What is done character by character  *)
(* is a recursive function of the number of characters read, so that the   *)
(* proofs can follow it.                                                   *)
(*                                                                         *)
(* `given` grows by a byte or a character at a time: every text over the   *)
(* given alphabet, up to MaxLength, is a state.                            *)
(***************************************************************************)
EXTENDS Integers, SequencesExt

CONSTANTS Bytes, Characters, MaxLength

ASSUME Base64Assumption ==
  Bytes \subseteq 0 .. 255 /\ Characters \subseteq 1 .. 255 /\ MaxLength \in Nat

VARIABLES given, givenAs       \* the sequence; "bytes" or "text"
base64Vars == <<given, givenAs>>

Pad == 61
Space == {9, 10, 11, 12, 13, 32}
Marker == <<98, 97, 115, 101, 54, 52, 44>>        \* "base64," of a data URL

\* The characters of a text that are in C.
Only(text, C) ==
  LET only[n \in 0 .. Len(text)] ==
        IF n = 0 THEN <<>>
        ELSE IF text[n] \in C THEN Append(only[n - 1], text[n]) ELSE only[n - 1]
  IN  only[Len(text)]

\* A-Z a-z 0-9 + /
tbl(v) ==
  CASE v \in 0 .. 25 -> 65 + v [] v \in 26 .. 51 -> 97 + v - 26
    [] v \in 52 .. 61 -> 48 + v - 52 [] v = 62 -> 43 [] v = 63 -> 47
isalnum == (65 .. 90) \cup (97 .. 122) \cup (48 .. 57)
\* -2 for the padding, -3 for space, -1 for what does not belong there; - and _ are the
\* URL form of + and /.
b64_val(c) ==
  CASE c = Pad -> -2 [] c \in Space -> -3
    [] c \in 65 .. 90 -> c - 65 [] c \in 97 .. 122 -> c - 97 + 26
    [] c \in 48 .. 57 -> c - 48 + 52
    [] c \in {43, 45} -> 62 [] c \in {47, 95} -> 63 [] OTHER -> -1

\* The four characters of up to three bytes; what is missing is padded.
Quartet(three) ==
  LET byte(i) == IF i <= Len(three) THEN three[i] ELSE 0
      triple == byte(1) * 65536 + byte(2) * 256 + byte(3) IN
  <<tbl(triple \div 262144), tbl((triple \div 4096) % 64),
    IF Len(three) >= 2 THEN tbl((triple \div 64) % 64) ELSE Pad,
    IF Len(three) >= 3 THEN tbl(triple % 64) ELSE Pad>>
\* Mutated form: the last group is only looked at when it is whole.
base64_encode_Whole(data) ==
  FlattenSeq([g \in 1 .. Len(data) \div 3 |-> Quartet(SubSeq(data, 3 * g - 2, 3 * g))])
base64_encode(data) ==
  FlattenSeq([g \in 1 .. (Len(data) + 2) \div 3 |->
                Quartet(SubSeq(data, 3 * g - 2, IF 3 * g <= Len(data) THEN 3 * g
                                                ELSE Len(data)))])

\* The bytes of four values, and how many of them count.
Low(n) == n % 256
Triple(v) ==
  <<Low(v[1] * 4 + v[2] \div 16), Low(v[2] * 16 + v[3] \div 4), Low(v[3] * 64 + v[4])>>
Kept(v) == IF v[3] = -2 THEN 1 ELSE IF v[4] = -2 THEN 2 ELSE 3
Refused(v) ==
  \/ v[1] < 0 \/ v[2] < 0
  \/ v[3] < 0 /\ v[4] # -2

\* A character: space is passed over, a group of four gives bytes, one with padding
\* ends the text, and what is wrong makes the call fail.
DecodeOne(s, c) ==
  LET v == b64_val(c)
      q == Append(s.quartet, v) IN
  IF s.finished \/ s.failed \/ v = -3 THEN s
  ELSE IF v = -1 THEN [s EXCEPT !.failed = TRUE]
  ELSE IF Len(q) < 4 THEN [s EXCEPT !.quartet = q]
  ELSE IF Refused(q) THEN [s EXCEPT !.failed = TRUE]
  ELSE LET whole == [i \in 1 .. 4 |-> IF q[i] < 0 THEN 0 ELSE q[i]] IN
       [quartet |-> <<>>, out |-> s.out \o SubSeq(Triple(whole), 1, Kept(q)),
        finished |-> Kept(q) < 3, failed |-> FALSE]
\* The bytes that are allocated for a text; what is written behind them is lost.
DecodeCap(text) ==
  (Len(Only(text, (1 .. 255) \ Space)) \div 4) * 3 + 3
Fresh == [quartet |-> <<>>, out |-> <<>>, finished |-> FALSE, failed |-> FALSE]
base64_decode(text) ==
  LET decoded[n \in 0 .. Len(text)] ==
        IF n = 0 THEN Fresh ELSE DecodeOne(decoded[n - 1], text[n])
      s == decoded[Len(text)] IN
  [ok |-> ~s.failed /\ (s.finished \/ s.quartet = <<>>),
   out |-> SubSeq(s.out, 1, IF Len(s.out) <= DecodeCap(text) THEN Len(s.out)
                            ELSE DecodeCap(text))]

\* What follows the first marker, or all of it.
Payload(text) ==
  LET at == {i \in 0 .. Len(text) - Len(Marker) :
               \A k \in DOMAIN Marker : text[i + k] = Marker[k]} IN
  IF at = {} THEN text ELSE SubSeq(text, Min(at) + Len(Marker) + 1, Len(text))
\* The payload; the URL form is replaced, what does not belong there is left out, and
\* missing padding is added.
normalize_b64(text) ==
  LET load == Payload(text)
      plain == [i \in DOMAIN load |->
                  IF load[i] = 45 THEN 43 ELSE IF load[i] = 95 THEN 47 ELSE load[i]]
      kept == Only(plain, isalnum \cup {43, 47, Pad}) IN
  kept \o CASE Len(kept) % 4 = 2 -> <<Pad, Pad>> [] Len(kept) % 4 = 3 -> <<Pad>>
            [] OTHER -> <<>>
\* -2 and -3 of save_base64_to_file; the file itself does not matter here.
save_base64_to_file(text) ==
  LET norm == normalize_b64(text) IN
  IF norm = <<>> THEN [rc |-> -2, bin |-> <<>>]
  ELSE LET bin == base64_decode(norm) IN
       IF ~bin.ok \/ bin.out = <<>> THEN [rc |-> -3, bin |-> <<>>]
       ELSE [rc |-> 0, bin |-> bin.out]

Base64Init == given = <<>> /\ givenAs \in {"bytes", "text"}
Base64Next ==
  /\ Len(given) < MaxLength
  /\ \E x \in IF givenAs = "bytes" THEN Bytes ELSE Characters : given' = Append(given, x)
  /\ UNCHANGED givenAs
Base64Spec == Base64Init /\ [][Base64Next]_base64Vars

(***************************************************************************)
(* Properties                                                              *)
(***************************************************************************)
\* What was encoded is saved as it was, with and without its padding, in the URL form,
\* and behind the marker of a data URL.  And a text that is accepted is the encoding of
\* what is saved, but for the spare bits of its last character and what follows its
\* padding.
Base64RoundTrip ==
  /\ givenAs = "bytes" /\ given # <<>> =>
       LET text == base64_encode(given)
           bare == Only(text, (1 .. 255) \ {Pad})
           url == [i \in DOMAIN text |->
                     IF text[i] = 43 THEN 45 ELSE IF text[i] = 47 THEN 95 ELSE text[i]] IN
       \A t \in {text, bare, url, Marker \o text} :
         save_base64_to_file(t) = [rc |-> 0, bin |-> given]
  /\ LET saved == save_base64_to_file(given)
         text == base64_encode(saved.bin)
         norm == normalize_b64(given) IN
     givenAs = "text" /\ saved.rc = 0 =>
       /\ \A i \in DOMAIN text :
            norm[i] = text[i] \/ (i < Len(text) /\ text[i + 1] = Pad)
       /\ Len(norm) > Len(text) => norm[Len(text)] = Pad
==============================================================================
