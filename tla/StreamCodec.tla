---------------------------- MODULE StreamCodec -----------------------------
(***************************************************************************)
(* The codec of the stream transports: where a message ends in the bytes   *)
(* received so far.  A byte is one of the classes decode tells apart:      *)
(* open and close (either bracket), quote, backslash, space, newline (a    *)
(* whitespace too), bad (not UTF-8) and char (anything else).              *)
(***************************************************************************)
EXTENDS Integers, Sequences, FiniteSets, Subsequences

CONSTANT Nothing  \* no message yet

Byte == {"open", "close", "quote", "backslash", "space", "newline", "bad", "char"}

ASSUME NothingAssumption == Nothing \notin Seq(Byte)

(* Separator: Empty, or the byte that ends a message. *)
Empty == "Empty"

is_whitespace(byte) == byte \in {"space", "newline"}

Utf8(bytes) == \A i \in DOMAIN bytes : bytes[i] # "bad"

(* What decode returns: a message, Nothing or an error; and the bytes left. *)
Decoded(bytes, rest) == [message |-> bytes, rest |-> rest, error |-> FALSE]

(***************************************************************************)
(* in_str and is_escaped after a byte: out of a string, in one (str), or   *)
(* in one after a backslash (esc).                                         *)
(***************************************************************************)
Lex(lex, byte) ==
  CASE byte = "quote" -> IF lex = "str" THEN "out" ELSE "str"
    [] byte = "backslash" /\ lex = "str" -> "esc"
    [] OTHER -> IF lex = "out" THEN "out" ELSE "str"

(***************************************************************************)
(* Whether decode's loop finds a message to end after these bytes: lex,    *)
(* depth and start_idx are its variables after i of them, whitespaces      *)
(* after all; the index of byte i is i - 1.                                *)
(***************************************************************************)
EndsMessage(bytes) ==
  LET n == Len(bytes)
      lex[i \in 0 .. n] == IF i = 0 THEN "out" ELSE Lex(lex[i - 1], bytes[i])
      bracket == [i \in 1 .. n |-> IF lex[i - 1] # "out" THEN 0
                    ELSE IF bytes[i] = "open" THEN 1 ELSE IF bytes[i] = "close" THEN -1 ELSE 0]
      depth[i \in 0 .. n] == IF i = 0 THEN 0 ELSE depth[i - 1] + bracket[i]
      start_idx[i \in 0 .. n] ==
        CASE i = 0 -> 0
          [] i > 0 /\ bracket[i] = 1 /\ depth[i] = 1 -> i - 1
          [] OTHER -> start_idx[i - 1]
      whitespaces == Cardinality({i \in 1 .. n : is_whitespace(bytes[i])})
  IN  depth[n] = 0 /\ n - 1 # start_idx[n] /\ n - start_idx[n] > whitespaces

(* Where the first message ends in the buffer, 0 if none does. *)
MessageEnd(buf, separator) ==
  LET ends == {n \in 1 .. Len(buf) : IF separator = Empty THEN EndsMessage(SubSeq(buf, 1, n))
                                     ELSE buf[n] = separator}
  IN  IF ends = {} THEN 0 ELSE CHOOSE n \in ends : \A m \in ends : n <= m

(* What split_to leaves in the buffer. *)
LeftAfter(buf, n) == SubSeq(buf, n + 1, Len(buf))

(***************************************************************************)
(* decode.  Between separators what is not UTF-8 is an error; without, it  *)
(* is dropped and what follows has to wait for the next read.              *)
(***************************************************************************)
decode(buf, separator) ==
  LET end == MessageEnd(buf, separator)
      line == SubSeq(buf, 1, IF separator = Empty THEN end ELSE end - 1)
      rest == LeftAfter(buf, end)
  IN  IF end = 0 THEN Decoded(Nothing, buf)
      ELSE IF Utf8(line) THEN Decoded(line, rest)
      ELSE [Decoded(Nothing, rest) EXCEPT !.error = (separator # Empty)]

(* encode: the payload, and the separator if there is one. *)
encode(payload, separator) == IF separator = Empty THEN payload ELSE Append(payload, separator)
-----------------------------------------------------------------------------
(* Clients. *)

(* What a client sends, message by message, separated as the server expects. *)
Encoded(messages, separator) == [i \in DOMAIN messages |-> encode(messages[i], separator)]

Sent(messages, separator) == JoinLast(Encoded(messages, separator))[Len(messages)]

(* The messages a server can hand to its service. *)
Texts(messages) == Subsequence(messages, {i \in DOMAIN messages : Utf8(messages[i])})

(***************************************************************************)
(* What clients are assumed to send: bytes that decode, given a message    *)
(* alone, takes for one message.  Only a last one may be left incomplete.  *)
(***************************************************************************)
Framed(messages, separator) ==
  \A i \in DOMAIN messages :
    LET bytes == Encoded(messages, separator)[i]
    IN  /\ bytes # <<>>
        /\ \/ MessageEnd(bytes, separator) = Len(bytes)
           \/ i = Len(messages) /\ MessageEnd(bytes, separator) = 0
=============================================================================
