---------------------------- MODULE Subsequences ----------------------------
(***************************************************************************)
(* Filtering and joining sequences.  Subsequence does what SelectSeq does, *)
(* with a set in the place of an operator, so that facts about it can be   *)
(* stated and proved once (SequenceProofs) and used wherever a list is     *)
(* filtered; JoinLast gives FlattenSeq of every end of a sequence.         *)
(***************************************************************************)
EXTENDS Naturals, Sequences

(* The elements of s at the positions in `at`, in the order of s.          *)
Subsequence(s, at) ==
  LET pick[i \in 0 .. Len(s)] ==
        IF i = 0 THEN <<>> ELSE IF i \in at THEN Append(pick[i - 1], s[i]) ELSE pick[i - 1]
  IN  pick[Len(s)]

(* The last i of the sequences in parts as one, for every i. *)
JoinLast(parts) ==
  LET last[i \in 0 .. Len(parts)] ==
        IF i = 0 THEN <<>> ELSE parts[Len(parts) + 1 - i] \o last[i - 1]
  IN  last
=============================================================================
