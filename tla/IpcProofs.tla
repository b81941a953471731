------------------------------ MODULE IpcProofs -----------------------------
(***************************************************************************)
(* Proofs about the IPC server: what SessionStats see, what is exchanged   *)
(* in a session however its bytes are cut, and that SelectWithWeak is fair *)
(* to the responses.                                                       *)
(***************************************************************************)
EXTENDS IpcServer, StreamCodecProofs, FiniteSetTheorems

Places == {"none", "backlog", "open", "finished", "failed", "dropped"}

(* What is written: the response to a request, or a pushed message, by its number. *)
Items == [response : Nat \ {0}] \union [push : Nat \ {0}]

Session ==
  [at : Places, id : Nat, wire : Seq(Byte), eof : BOOLEAN, buf : Seq(Byte), readable : BOOLEAN,
   up_closed : BOOLEAN, handled : Seq(Seq(Byte)), running : SUBSET Nat, ready : SUBSET Nat,
   silent : SUBSET Nat, accepted : Nat, taken : Nat, use_strong : BOOLEAN, out : Seq(Items),
   open_session : Nat, close_session : Nat]

ResponsesAt(out) == {i \in DOMAIN out : "response" \in DOMAIN out[i]}
Answered(out) == {out[i].response : i \in ResponsesAt(out)}

(***************************************************************************)
(* Where the n requests of a session are: in progress, with a response to  *)
(* write, without one, or answered.                                        *)
(***************************************************************************)
Placed(running, ready, silent, answered, n) ==
  /\ running \union ready \union silent \union answered = 1 .. n
  /\ running \intersect ready = {} /\ running \intersect silent = {} /\ running \intersect answered = {}
  /\ ready \intersect silent = {} /\ ready \intersect answered = {} /\ silent \intersect answered = {}
  /\ Cardinality(running \union ready) <= client_buffer_size

(* What has been written, where the last item is a pushed message only with use_strong set. *)
Written(out, taken, use_strong) ==
  /\ \A i, j \in ResponsesAt(out) : out[i].response = out[j].response => i = j
  /\ Subsequence(out, DOMAIN out \ ResponsesAt(out)) = [i \in 1 .. taken |-> [push |-> i]]
  /\ out # <<>> /\ Len(out) \notin ResponsesAt(out) => use_strong

(* The calls of SessionStats. *)
Reported(at, open_session, close_session) ==
  /\ open_session = (IF at \in {"none", "backlog"} THEN 0 ELSE 1)
  /\ close_session = (IF at \in {"finished", "failed"} THEN 1 ELSE 0)

Kept(s, M, sep) ==
  /\ s \in Session
  /\ Served(M, sep, s.buf, s.wire, s.handled)
  /\ s.up_closed => s.buf = <<>> /\ s.wire = <<>> /\ ~s.readable
  /\ s.at = "finished" => s.up_closed /\ s.running = {} /\ s.ready = {}
  /\ Placed(s.running, s.ready, s.silent, Answered(s.out), Len(s.handled))
  /\ Written(s.out, s.taken, s.use_strong)
  /\ Reported(s.at, s.open_session, s.close_session)

SessionInv ==
  /\ setup \in Setups
  /\ DOMAIN session = Connections
  /\ \A c \in Connections : Kept(session[c], setup.messages[c], setup.incoming_separator)
-----------------------------------------------------------------------------
(* Where requests are. *)

LEMMA InProgressFinite ==
  ASSUME NEW running, NEW ready, NEW silent, NEW answered, NEW n \in Nat,
         Placed(running, ready, silent, answered, n)
  PROVE  IsFiniteSet(running \union ready)
<1>1. running \union ready \subseteq 1 .. n
  BY Zenon DEF Placed
<1>2. IsFiniteSet(1 .. n)
  BY FS_Interval
<1>. QED  BY <1>1, <1>2, FS_Subset, Zenon

(* A request is begun. *)
LEMMA Begins ==
  ASSUME client_buffer_size \in Nat,
         NEW running, NEW ready, NEW silent, NEW answered, NEW n \in Nat,
         Placed(running, ready, silent, answered, n),
         Cardinality(running \union ready) < client_buffer_size
  PROVE  Placed(running \union {n + 1}, ready, silent, answered, n + 1)
<1>1. running \union ready \union silent \union answered = 1 .. n
  BY Zenon DEF Placed
<1>2. n + 1 \notin 1 .. n /\ (1 .. n) \union {n + 1} = 1 .. n + 1
  OBVIOUS
<1>3. (running \union {n + 1}) \union ready \union silent \union answered = 1 .. n + 1
  BY <1>1, <1>2, Zenon
<1>4. n + 1 \notin ready /\ n + 1 \notin silent /\ n + 1 \notin answered
  BY <1>1, <1>2, Zenon
<1>5. Cardinality((running \union {n + 1}) \union ready) <= client_buffer_size
  <2>1. PICK S : S = running \union ready /\ IsFiniteSet(S)
    BY InProgressFinite, Zenon
  <2>2. (running \union {n + 1}) \union ready = S \union {n + 1}
    BY <2>1, Zenon
  <2>3. Cardinality(S) \in Nat /\ Cardinality(S \union {n + 1}) \in {Cardinality(S), Cardinality(S) + 1}
    BY <2>1, FS_CardinalityType, FS_AddElement, Zenon
  <2>4. Cardinality(S) < client_buffer_size
    BY <2>1, Zenon
  <2>5. Cardinality(S \union {n + 1}) <= client_buffer_size
    BY <2>3, <2>4
  <2>. QED  BY <2>2, <2>5, Zenon
<1>6. /\ (running \union {n + 1}) \intersect ready = {}
      /\ (running \union {n + 1}) \intersect silent = {}
      /\ (running \union {n + 1}) \intersect answered = {}
  BY <1>4, Zenon DEF Placed
<1>. QED  BY <1>3, <1>5, <1>6, Zenon DEF Placed

(* Fewer requests are in progress. *)
LEMMA FewerInProgress ==
  ASSUME client_buffer_size \in Nat,
         NEW running, NEW ready, NEW silent, NEW answered, NEW n \in Nat,
         Placed(running, ready, silent, answered, n), NEW S, S \subseteq running \union ready
  PROVE  Cardinality(S) <= client_buffer_size
<1>1. PICK T : T = running \union ready /\ IsFiniteSet(T)
  BY InProgressFinite, Zenon
<1>2. Cardinality(S) <= Cardinality(T) /\ Cardinality(S) \in Nat /\ Cardinality(T) \in Nat
  BY <1>1, FS_Subset, FS_CardinalityType, Zenon
<1>3. Cardinality(T) <= client_buffer_size
  BY <1>1, Zenon DEF Placed
<1>. QED  BY <1>2, <1>3

(* One completes, with a response or without. *)
LEMMA Completes ==
  ASSUME client_buffer_size \in Nat,
         NEW running, NEW ready, NEW silent, NEW answered, NEW n \in Nat,
         Placed(running, ready, silent, answered, n), NEW i \in running
  PROVE  /\ Placed(running \ {i}, ready \union {i}, silent, answered, n)
         /\ Placed(running \ {i}, ready, silent \union {i}, answered, n)
<1>1. /\ Cardinality((running \ {i}) \union (ready \union {i})) <= client_buffer_size
      /\ Cardinality((running \ {i}) \union ready) <= client_buffer_size
  <2>1. /\ (running \ {i}) \union (ready \union {i}) \subseteq running \union ready
        /\ (running \ {i}) \union ready \subseteq running \union ready
    BY Zenon
  <2>. QED  BY <2>1, FewerInProgress, Zenon
<1>2. i \notin ready /\ i \notin silent /\ i \notin answered
  BY Zenon DEF Placed
<1>3. /\ (running \ {i}) \union (ready \union {i}) \union silent \union answered
           = running \union ready \union silent \union answered
      /\ (running \ {i}) \union ready \union (silent \union {i}) \union answered
           = running \union ready \union silent \union answered
  BY Zenon
<1>4. Placed(running \ {i}, ready \union {i}, silent, answered, n)
  BY <1>1, <1>2, <1>3, Zenon DEF Placed
<1>5. Placed(running \ {i}, ready, silent \union {i}, answered, n)
  BY <1>1, <1>2, <1>3, ZenonT(60) DEF Placed
<1>. QED  BY <1>4, <1>5, Zenon

(* One is answered. *)
LEMMA IsAnswered ==
  ASSUME client_buffer_size \in Nat,
         NEW running, NEW ready, NEW silent, NEW answered, NEW n \in Nat,
         Placed(running, ready, silent, answered, n), NEW i \in ready
  PROVE  /\ Placed(running, ready \ {i}, silent, answered \union {i}, n)
         /\ i \in Nat \ {0} /\ i \notin answered
<1>1. Cardinality(running \union (ready \ {i})) <= client_buffer_size
  <2>1. running \union (ready \ {i}) \subseteq running \union ready
    BY Zenon
  <2>. QED  BY <2>1, FewerInProgress, Zenon
<1>2. i \notin running /\ i \notin silent /\ i \notin answered /\ i \in 1 .. n
  BY Zenon DEF Placed
<1>3. running \union (ready \ {i}) \union silent \union (answered \union {i})
        = running \union ready \union silent \union answered
  BY Zenon
<1>4. Placed(running, ready \ {i}, silent, answered \union {i}, n)
  BY <1>1, <1>2, <1>3, Zenon DEF Placed
<1>5. i \in Nat \ {0}
  BY <1>2
<1>. QED  BY <1>2, <1>4, <1>5, Zenon
-----------------------------------------------------------------------------
(* What is written. *)

LEMMA ItemsAre ==
  /\ \A i \in Nat \ {0} : /\ [response |-> i] \in Items /\ [response |-> i].response = i
                          /\ "response" \in DOMAIN [response |-> i] /\ "push" \notin DOMAIN [response |-> i]
  /\ \A i \in Nat \ {0} : /\ [push |-> i] \in Items
                          /\ "push" \in DOMAIN [push |-> i] /\ "response" \notin DOMAIN [push |-> i]
  /\ \A e \in Items : "push" \in DOMAIN e => "response" \notin DOMAIN e
BY DEF Items

(* One more item is written. *)
More(out, e) ==
  LET more == Append(out, e)
      pushes == DOMAIN out \ ResponsesAt(out)
  IN  /\ more \in Seq(Items) /\ Len(more) = Len(out) + 1 /\ Len(more) # 0
      /\ more[Len(out) + 1] = e /\ \A i \in 1 .. Len(out) : more[i] = out[i]
      /\ \A i \in ResponsesAt(out) : i \in 1 .. Len(out) /\ more[i] = out[i]
      /\ Len(out) + 1 \notin ResponsesAt(out)
      /\ IF "response" \in DOMAIN e
         THEN /\ ResponsesAt(more) = ResponsesAt(out) \union {Len(out) + 1}
              /\ Answered(more) = Answered(out) \union {e.response}
              /\ Subsequence(more, DOMAIN more \ ResponsesAt(more)) = Subsequence(out, pushes)
         ELSE /\ ResponsesAt(more) = ResponsesAt(out)
              /\ Answered(more) = Answered(out)
              /\ Subsequence(more, DOMAIN more \ ResponsesAt(more)) = Append(Subsequence(out, pushes), e)

LEMMA WrittenMore ==
  ASSUME NEW out \in Seq(Items), NEW e \in Items
  PROVE  More(out, e)
<1>1. PICK more \in Seq(Items) : more = Append(out, e)
  BY AppendProperties, Zenon
<1>2. /\ DOMAIN more = 1 .. Len(out) + 1 /\ Len(out) \in Nat /\ DOMAIN out = 1 .. Len(out)
      /\ more[Len(out) + 1] = e /\ Len(more) = Len(out) + 1 /\ Len(more) # 0
      /\ \A i \in 1 .. Len(out) : more[i] = out[i] /\ i \in 1 .. Len(out) + 1
      /\ Len(out) + 1 \in 1 .. Len(out) + 1 /\ Len(out) + 1 \notin 1 .. Len(out)
      /\ \A i \in 1 .. Len(out) + 1 : i \in 1 .. Len(out) \/ i = Len(out) + 1
  BY <1>1
<1>. DEFINE R == ResponsesAt(out)
            P == DOMAIN out \ R
<1>3. \A i \in R : i \in 1 .. Len(out) /\ more[i] = out[i] /\ "response" \in DOMAIN out[i]
  BY <1>2, Zenon DEF ResponsesAt
<1>4. Len(out) + 1 \notin R
  BY <1>2, <1>3, Zenon
<1>5. CASE "response" \in DOMAIN e
  <2>1. ResponsesAt(more) = R \union {Len(out) + 1}
    BY <1>2, <1>3, <1>5, Zenon DEF ResponsesAt
  <2>2. Answered(more) = Answered(out) \union {e.response}
    <3>1. \A i \in R : more[i].response = out[i].response
      BY <1>3, Zenon
    <3>2. Answered(more) = {more[i].response : i \in R} \union {more[Len(out) + 1].response}
      BY <2>1, Zenon DEF Answered
    <3>3. {more[i].response : i \in R} = Answered(out)
      BY <3>1, Zenon DEF Answered
    <3>. QED  BY <1>2, <3>2, <3>3, Zenon
  <2>3. Grows(out, e, P, DOMAIN more \ ResponsesAt(more))
    <3>1. \A i \in 1 .. Len(out) : i \in DOMAIN more \ ResponsesAt(more) <=> i \in P
      BY <1>2, <2>1, Zenon
    <3>. QED  BY <3>1, SubsequenceAppend, Zenon
  <2>4. Subsequence(more, DOMAIN more \ ResponsesAt(more)) = Subsequence(out, P)
    BY <1>1, <2>1, <2>3, Zenon DEF Grows
  <2>. QED  BY <1>1, <1>2, <1>3, <1>4, <1>5, <2>1, <2>2, <2>4, Zenon DEF More
<1>6. CASE "response" \notin DOMAIN e
  <2>1. ResponsesAt(more) = R
    BY <1>2, <1>3, <1>6, Zenon DEF ResponsesAt
  <2>2. Answered(more) = Answered(out)
    BY <1>2, <1>3, <2>1, Zenon DEF Answered
  <2>3. Grows(out, e, P, DOMAIN more \ ResponsesAt(more))
    <3>1. \A i \in 1 .. Len(out) : i \in DOMAIN more \ ResponsesAt(more) <=> i \in P
      BY <1>2, <2>1, Zenon
    <3>. QED  BY <3>1, SubsequenceAppend, Zenon
  <2>4. Subsequence(more, DOMAIN more \ ResponsesAt(more)) = Append(Subsequence(out, P), e)
    BY <1>1, <1>2, <1>4, <2>1, <2>3, Zenon DEF Grows
  <2>. QED  BY <1>1, <1>2, <1>3, <1>4, <1>6, <2>1, <2>2, <2>4, Zenon DEF More
<1>. QED  BY <1>5, <1>6, Zenon

LEMMA WrittenFirst == Written(<<>>, 0, FALSE) /\ Answered(<<>>) = {}
<1>1. <<>> \in Seq(Items) /\ Len(<<>>) = 0 /\ DOMAIN <<>> = {}
  OBVIOUS
<1>2. ASSUME NEW at PROVE Subsequence(<<>>, at) = <<>>
  BY SubsequenceEmpty, Zenon
<1>3. [i \in 1 .. 0 |-> [push |-> i]] = <<>>
  OBVIOUS
<1>4. ResponsesAt(<<>>) = {}
  BY <1>1, Zenon DEF ResponsesAt
<1>5. Subsequence(<<>>, DOMAIN <<>> \ ResponsesAt(<<>>)) = [i \in 1 .. 0 |-> [push |-> i]]
  BY <1>2, <1>3, Zenon
<1>6. Answered(<<>>) = {}
  BY <1>4, Zenon DEF Answered
<1>. QED  BY <1>4, <1>5, <1>6, Zenon DEF Written

(* A response is written. *)
LEMMA WriteResponse ==
  ASSUME NEW out \in Seq(Items), NEW taken, NEW strong, Written(out, taken, strong),
         NEW i \in Nat \ {0}, i \notin Answered(out)
  PROVE  LET more == Append(out, [response |-> i])
         IN  /\ more \in Seq(Items) /\ Answered(more) = Answered(out) \union {i}
             /\ Written(more, taken, FALSE)
<1>1. PICK e \in Items : e = [response |-> i] /\ "response" \in DOMAIN e /\ e.response = i
  BY ItemsAre, Zenon
<1>2. PICK more : more = Append(out, e)
  BY Zenon
<1>3. More(out, e)
  BY WrittenMore, Zenon
<1>4. /\ more \in Seq(Items) /\ Answered(more) = Answered(out) \union {i}
      /\ ResponsesAt(more) = ResponsesAt(out) \union {Len(out) + 1} /\ Len(more) = Len(out) + 1
      /\ more[Len(out) + 1] = e
      /\ \A k \in ResponsesAt(out) : more[k] = out[k]
      /\ Subsequence(more, DOMAIN more \ ResponsesAt(more)) = Subsequence(out, DOMAIN out \ ResponsesAt(out))
  BY <1>1, <1>2, <1>3, Zenon DEF More
<1>5. ASSUME NEW j \in ResponsesAt(more), NEW k \in ResponsesAt(more), more[j].response = more[k].response
      PROVE  j = k
  <2>1. \A l \in ResponsesAt(out) : out[l].response # i
    BY Zenon DEF Answered
  <2>. QED  BY <1>1, <1>4, <1>5, <2>1, Zenon DEF Written
<1>6. Written(more, taken, FALSE)
  BY <1>4, <1>5, Zenon DEF Written
<1>. QED  BY <1>1, <1>2, <1>4, <1>6, Zenon

(* A pushed message is. *)
LEMMA WritePush ==
  ASSUME NEW out \in Seq(Items), NEW taken \in Nat, NEW strong, Written(out, taken, strong)
  PROVE  LET more == Append(out, [push |-> taken + 1])
         IN  /\ more \in Seq(Items) /\ Answered(more) = Answered(out)
             /\ Written(more, taken + 1, TRUE)
<1>1. taken + 1 \in Nat \ {0}
  OBVIOUS
<1>2. PICK e \in Items : e = [push |-> taken + 1] /\ "response" \notin DOMAIN e
  BY <1>1, ItemsAre, Zenon
<1>3. PICK more : more = Append(out, e)
  BY Zenon
<1>4. More(out, e)
  BY WrittenMore, Zenon
<1>5. /\ more \in Seq(Items) /\ Answered(more) = Answered(out) /\ ResponsesAt(more) = ResponsesAt(out)
      /\ \A k \in ResponsesAt(out) : more[k] = out[k]
      /\ Subsequence(more, DOMAIN more \ ResponsesAt(more))
           = Append([i \in 1 .. taken |-> [push |-> i]], e)
  BY <1>2, <1>3, <1>4, Zenon DEF More, Written
<1>6. Append([i \in 1 .. taken |-> [push |-> i]], e) = [i \in 1 .. taken + 1 |-> [push |-> i]]
  BY <1>2
<1>7. Written(more, taken + 1, TRUE)
  BY <1>5, <1>6, Zenon DEF Written
<1>. QED  BY <1>2, <1>3, <1>5, <1>7, Zenon
-----------------------------------------------------------------------------
(* What each step does to a session. *)

LEMMA FreshKept ==
  ASSUME NEW M \in Seq(Seq(Byte)), NEW sep \in Byte \union {Empty}, Framed(M, sep),
         client_buffer_size \in Nat
  PROVE  Kept(IpcFresh(Sent(M, sep)), M, sep)
<1>1. PICK wire \in Seq(Byte) : wire = Sent(M, sep) /\ Served(M, sep, <<>>, wire, <<>>)
  BY ServedFirst, Zenon
<1>2. PICK s : s = IpcFresh(wire)
  BY Zenon
<1>3. s \in Session
  <2>1. <<>> \in Seq(Byte) /\ <<>> \in Seq(Seq(Byte)) /\ <<>> \in Seq(Items) /\ {} \in SUBSET Nat
        /\ 0 \in Nat /\ "none" \in Places /\ FALSE \in BOOLEAN
    BY DEF Places
  <2>. QED  BY <1>2, <2>1 DEF IpcFresh, Session
<1>4. /\ s.at = "none" /\ s.open_session = 0 /\ s.close_session = 0 /\ ~s.up_closed
      /\ s.buf = <<>> /\ s.wire = wire /\ s.handled = <<>>
      /\ s.running = {} /\ s.ready = {} /\ s.silent = {}
      /\ s.out = <<>> /\ s.taken = 0 /\ s.use_strong = FALSE
  BY <1>2, Zenon DEF IpcFresh
<1>5. Reported(s.at, s.open_session, s.close_session) /\ s.at # "finished"
  BY <1>4 DEF Reported
<1>6. Placed({}, {}, {}, {}, Len(<<>>))
  <2>1. Len(<<>>) = 0 /\ 1 .. 0 = {}
    OBVIOUS
  <2>2. Cardinality({}) = 0
    BY FS_EmptySet
  <2>3. {} \union {} = {} /\ {} \intersect {} = {}
    OBVIOUS
  <2>4. 0 <= client_buffer_size
    OBVIOUS
  <2>. QED  BY <2>1, <2>2, <2>3, <2>4, Zenon DEF Placed
<1>. QED  BY <1>1, <1>2, <1>3, <1>4, <1>5, <1>6, WrittenFirst, Zenon DEF Kept

(* A client connects, or the server stops. *)
LEMMA Moves ==
  ASSUME NEW M, NEW sep, NEW r, Kept(r, M, sep), NEW to,
         (r.at = "none" /\ to = "backlog") \/ (r.at = "open" /\ to = "dropped")
  PROVE  Kept([r EXCEPT !.at = to], M, sep)
<1>1. PICK s : s = [r EXCEPT !.at = to]
  BY Zenon
<1>2. r \in Session
  BY Zenon DEF Kept
<1>3. to \in Places /\ to # "finished"
  BY DEF Places
<1>4. s \in Session
  BY <1>1, <1>2, <1>3, Zenon DEF Session
<1>5. /\ s.at = to /\ s.buf = r.buf /\ s.wire = r.wire /\ s.handled = r.handled
      /\ s.up_closed = r.up_closed /\ s.readable = r.readable /\ s.running = r.running
      /\ s.ready = r.ready /\ s.silent = r.silent /\ s.out = r.out /\ s.taken = r.taken
      /\ s.use_strong = r.use_strong
      /\ s.open_session = r.open_session /\ s.close_session = r.close_session
  BY <1>1, <1>2 DEF Session
<1>6. Reported(r.at, r.open_session, r.close_session)
  BY Zenon DEF Kept
<1>7. Reported(to, r.open_session, r.close_session)
  BY <1>6 DEF Reported
<1>. QED  BY <1>1, <1>3, <1>4, <1>5, <1>7, Zenon DEF Kept

(* A session is opened. *)
LEMMA Opens ==
  ASSUME NEW M, NEW sep, NEW r, Kept(r, M, sep), r.at = "backlog", NEW id \in Nat
  PROVE  Kept([r EXCEPT !.at = "open", !.id = id, !.open_session = @ + 1], M, sep)
<1>1. PICK s : s = [r EXCEPT !.at = "open", !.id = id, !.open_session = @ + 1]
  BY Zenon
<1>2. r \in Session /\ Reported(r.at, r.open_session, r.close_session)
  BY Zenon DEF Kept
<1>3. PICK n \in Nat : n = r.open_session + 1 /\ Reported("open", n, r.close_session)
  <2>1. r.open_session = 0 /\ r.close_session = 0
    BY <1>2 DEF Reported
  <2>. QED  BY <2>1 DEF Reported
<1>4. s = [r EXCEPT !.at = "open", !.id = id, !.open_session = n]
  BY <1>1, <1>3, Zenon
<1>5. s \in Session
  BY <1>2, <1>4, Zenon DEF Session, Places
<1>6. /\ s.at = "open" /\ s.buf = r.buf /\ s.wire = r.wire /\ s.handled = r.handled
      /\ s.up_closed = r.up_closed /\ s.readable = r.readable /\ s.running = r.running
      /\ s.ready = r.ready /\ s.silent = r.silent /\ s.out = r.out /\ s.taken = r.taken
      /\ s.use_strong = r.use_strong
      /\ s.open_session = n /\ s.close_session = r.close_session
  BY <1>2, <1>4 DEF Session
<1>7. s.at # "finished"
  BY <1>6
<1>. QED  BY <1>1, <1>3, <1>5, <1>6, <1>7, Zenon DEF Kept

(* And ended, with everything answered if nothing failed. *)
LEMMA EndsSession ==
  ASSUME NEW M, NEW sep, NEW r, Kept(r, M, sep), r.at = "open", NEW how \in {"finished", "failed"},
         how = "finished" => StrongEnds(r)
  PROVE  Kept(Ended(r, how), M, sep)
<1>1. PICK s : s = Ended(r, how)
  BY Zenon
<1>2. r \in Session /\ Reported(r.at, r.open_session, r.close_session)
  BY Zenon DEF Kept
<1>3. PICK n \in Nat : n = r.close_session + 1 /\ Reported(how, r.open_session, n)
  <2>1. r.open_session = 1 /\ r.close_session = 0
    BY <1>2 DEF Reported
  <2>. QED  BY <2>1 DEF Reported
<1>4. s = [r EXCEPT !.at = how, !.close_session = n]
  BY <1>1, <1>3, Zenon DEF Ended
<1>5. s \in Session
  BY <1>2, <1>4, Zenon DEF Session, Places
<1>6. /\ s.at = how /\ s.buf = r.buf /\ s.wire = r.wire /\ s.handled = r.handled
      /\ s.up_closed = r.up_closed /\ s.readable = r.readable /\ s.running = r.running
      /\ s.ready = r.ready /\ s.silent = r.silent /\ s.out = r.out /\ s.taken = r.taken
      /\ s.use_strong = r.use_strong
      /\ s.open_session = r.open_session /\ s.close_session = n
  BY <1>2, <1>4 DEF Session
<1>. QED  BY <1>1, <1>3, <1>5, <1>6, Zenon DEF Kept, StrongEnds

LEMMA HangsUp ==
  ASSUME NEW M, NEW sep, NEW r, Kept(r, M, sep)
  PROVE  Kept([r EXCEPT !.eof = TRUE], M, sep)
<1>1. PICK s : s = [r EXCEPT !.eof = TRUE]
  BY Zenon
<1>2. r \in Session
  BY Zenon DEF Kept
<1>3. s \in Session
  BY <1>1, <1>2, Zenon DEF Session
<1>4. /\ s.at = r.at /\ s.buf = r.buf /\ s.wire = r.wire /\ s.handled = r.handled
      /\ s.up_closed = r.up_closed /\ s.readable = r.readable /\ s.running = r.running
      /\ s.ready = r.ready /\ s.silent = r.silent /\ s.out = r.out /\ s.taken = r.taken
      /\ s.use_strong = r.use_strong
      /\ s.open_session = r.open_session /\ s.close_session = r.close_session
  BY <1>1, <1>2, SMTT(30) DEF Session
<1>. QED  BY <1>1, <1>3, <1>4, Zenon DEF Kept

LEMMA GetsPush ==
  ASSUME NEW M, NEW sep, NEW r, Kept(r, M, sep)
  PROVE  Kept([r EXCEPT !.accepted = @ + 1], M, sep)
<1>1. PICK s : s = [r EXCEPT !.accepted = @ + 1]
  BY Zenon
<1>2. r \in Session
  BY Zenon DEF Kept
<1>3. s \in Session
  <2>1. PICK n \in Nat : n = r.accepted + 1
    BY <1>2 DEF Session
  <2>2. s = [r EXCEPT !.accepted = n]
    BY <1>1, <2>1, Zenon
  <2>. QED  BY <1>2, <2>2, Zenon DEF Session
<1>4. /\ s.at = r.at /\ s.buf = r.buf /\ s.wire = r.wire /\ s.handled = r.handled
      /\ s.up_closed = r.up_closed /\ s.readable = r.readable /\ s.running = r.running
      /\ s.ready = r.ready /\ s.silent = r.silent /\ s.out = r.out /\ s.taken = r.taken
      /\ s.use_strong = r.use_strong
      /\ s.open_session = r.open_session /\ s.close_session = r.close_session
  BY <1>1, <1>2, SMTT(30) DEF Session
<1>. QED  BY <1>1, <1>3, <1>4, Zenon DEF Kept

LEMMA Prefers ==
  ASSUME NEW M, NEW sep, NEW r, Kept(r, M, sep)
  PROVE  Kept([r EXCEPT !.use_strong = TRUE], M, sep)
<1>1. PICK s : s = [r EXCEPT !.use_strong = TRUE]
  BY Zenon
<1>2. r \in Session
  BY Zenon DEF Kept
<1>3. s \in Session
  BY <1>1, <1>2, Zenon DEF Session
<1>4. /\ s.at = r.at /\ s.buf = r.buf /\ s.wire = r.wire /\ s.handled = r.handled
      /\ s.up_closed = r.up_closed /\ s.readable = r.readable /\ s.running = r.running
      /\ s.ready = r.ready /\ s.silent = r.silent /\ s.out = r.out /\ s.taken = r.taken
      /\ s.use_strong = TRUE
      /\ s.open_session = r.open_session /\ s.close_session = r.close_session
  BY <1>1, <1>2 DEF Session
<1>5. Written(r.out, r.taken, TRUE)
  BY Zenon DEF Kept, Written
<1>. QED  BY <1>1, <1>3, <1>4, <1>5, Zenon DEF Kept

LEMMA Reads ==
  ASSUME NEW M, NEW sep, NEW r, Kept(r, M, sep), r.at = "open", NEW n \in 1 .. Len(r.wire)
  PROVE  Kept([r EXCEPT !.buf = @ \o SubSeq(r.wire, 1, n),
                        !.wire = SubSeq(@, n + 1, Len(@)), !.readable = TRUE], M, sep)
<1>1. PICK s : s = [r EXCEPT !.buf = @ \o SubSeq(r.wire, 1, n),
                             !.wire = SubSeq(@, n + 1, Len(@)), !.readable = TRUE]
  BY Zenon
<1>2. r \in Session /\ Served(M, sep, r.buf, r.wire, r.handled)
  BY Zenon DEF Kept
<1>3. PICK buf, wire : buf = r.buf \o SubSeq(r.wire, 1, n) /\ wire = SubSeq(r.wire, n + 1, Len(r.wire))
  BY Zenon
<1>4. buf \in Seq(Byte) /\ wire \in Seq(Byte) /\ Served(M, sep, buf, wire, r.handled)
  <2>1. r.buf \in Seq(Byte) /\ r.wire \in Seq(Byte)
    BY <1>2, Zenon DEF Session
  <2>. QED  BY <1>2, <1>3, <2>1, ServedRead, Zenon
<1>5. s = [r EXCEPT !.buf = buf, !.wire = wire, !.readable = TRUE]
  BY <1>1, <1>3, Zenon
<1>6. s \in Session
  BY <1>2, <1>4, <1>5, Zenon DEF Session
<1>7. /\ s.at = r.at /\ s.buf = buf /\ s.wire = wire /\ s.handled = r.handled
      /\ s.up_closed = r.up_closed /\ s.running = r.running
      /\ s.ready = r.ready /\ s.silent = r.silent /\ s.out = r.out /\ s.taken = r.taken
      /\ s.use_strong = r.use_strong
      /\ s.open_session = r.open_session /\ s.close_session = r.close_session
  BY <1>2, <1>5 DEF Session
<1>8. ~r.up_closed
  <2>1. r.wire # <<>>
    OBVIOUS
  <2>. QED  BY <2>1, Zenon DEF Kept
<1>. QED  BY <1>1, <1>4, <1>6, <1>7, <1>8, Zenon DEF Kept

(* A message is found, and there is room for another request. *)
LEMMA Handles ==
  ASSUME NEW M, NEW sep, NEW r, Kept(r, M, sep), r.at = "open", ~r.up_closed,
         client_buffer_size \in Nat, Cardinality(r.running \union r.ready) < client_buffer_size,
         NEW d, Advances(d, M, sep, r.wire, r.handled), d.message # Nothing
  PROVE  Kept(IpcHandle(r, d), M, sep)
<1>1. PICK s : s = IpcHandle(r, d)
  BY Zenon
<1>2. r \in Session /\ Placed(r.running, r.ready, r.silent, Answered(r.out), Len(r.handled))
  BY Zenon DEF Kept
<1>3. r.handled \in Seq(Seq(Byte))
  BY <1>2, Zenon DEF Session
<1>4. PICK buf \in Seq(Byte), m \in Seq(Byte) : buf = d.rest /\ m = d.message
  BY Zenon DEF Advances
<1>5. PICK handled, n : handled = Append(r.handled, m) /\ n = Len(r.handled) + 1
  BY Zenon
<1>6. handled \in Seq(Seq(Byte)) /\ Len(handled) = n /\ Len(r.handled) \in Nat /\ n \in Nat
  BY <1>3, <1>5
<1>7. Served(M, sep, buf, r.wire, handled)
  BY <1>4, <1>5, Zenon DEF Advances
<1>8. PICK running : running = r.running \union {n}
  BY Zenon
<1>9. running \in SUBSET Nat
  <2>1. r.running \in SUBSET Nat
    BY <1>2, Zenon DEF Session
  <2>. QED  BY <1>6, <1>8, <2>1, Zenon
<1>10. s = [r EXCEPT !.buf = buf, !.handled = handled, !.running = running]
  BY <1>1, <1>4, <1>5, <1>8, Zenon DEF IpcHandle
<1>11. s \in Session
  BY <1>2, <1>6, <1>9, <1>10, Zenon DEF Session
<1>12. /\ s.at = r.at /\ s.buf = buf /\ s.wire = r.wire /\ s.handled = handled
       /\ s.up_closed = r.up_closed /\ s.running = running
       /\ s.ready = r.ready /\ s.silent = r.silent /\ s.out = r.out /\ s.taken = r.taken
       /\ s.use_strong = r.use_strong
       /\ s.open_session = r.open_session /\ s.close_session = r.close_session
  BY <1>2, <1>10 DEF Session
<1>13. Placed(running, r.ready, r.silent, Answered(r.out), n)
  <2>1. Placed(r.running \union {Len(r.handled) + 1}, r.ready, r.silent, Answered(r.out), Len(r.handled) + 1)
    BY <1>2, <1>6, Begins, Zenon
  <2>. QED  BY <1>5, <1>8, <2>1, Zenon
<1>14. s.at # "finished"
  BY <1>12
<1>. QED  BY <1>1, <1>6, <1>7, <1>11, <1>12, <1>13, <1>14, Zenon DEF Kept

(* None is, and the reader waits for more. *)
LEMMA Awaits ==
  ASSUME NEW M, NEW sep, NEW r, Kept(r, M, sep), ~r.up_closed,
         NEW d, Advances(d, M, sep, r.wire, r.handled), d.message = Nothing, ~d.error
  PROVE  Kept([r EXCEPT !.buf = d.rest, !.readable = FALSE], M, sep)
<1>1. PICK s : s = [r EXCEPT !.buf = d.rest, !.readable = FALSE]
  BY Zenon
<1>2. r \in Session
  BY Zenon DEF Kept
<1>3. PICK buf \in Seq(Byte) : buf = d.rest /\ Served(M, sep, buf, r.wire, r.handled)
  BY Zenon DEF Advances
<1>4. s = [r EXCEPT !.buf = buf, !.readable = FALSE]
  BY <1>1, <1>3, Zenon
<1>5. s \in Session
  BY <1>2, <1>4, Zenon DEF Session
<1>6. /\ s.at = r.at /\ s.buf = buf /\ s.wire = r.wire /\ s.handled = r.handled
      /\ s.up_closed = r.up_closed /\ s.running = r.running
      /\ s.ready = r.ready /\ s.silent = r.silent /\ s.out = r.out /\ s.taken = r.taken
      /\ s.use_strong = r.use_strong
      /\ s.open_session = r.open_session /\ s.close_session = r.close_session
  BY <1>2, <1>4 DEF Session
<1>. QED  BY <1>1, <1>3, <1>5, <1>6, Zenon DEF Kept

(* The input ends. *)
LEMMA InputEnds ==
  ASSUME NEW M, NEW sep, NEW r, Kept(r, M, sep), r.at = "open", ~r.readable, r.wire = <<>>,
         NEW d, Advances(d, M, sep, r.wire, r.handled), d.message = Nothing, ~d.error, d.rest = <<>>
  PROVE  Kept([r EXCEPT !.buf = <<>>, !.up_closed = TRUE], M, sep)
<1>1. PICK s : s = [r EXCEPT !.buf = <<>>, !.up_closed = TRUE]
  BY Zenon
<1>2. r \in Session
  BY Zenon DEF Kept
<1>3. Served(M, sep, <<>>, r.wire, r.handled)
  BY Zenon DEF Advances
<1>4. s \in Session
  BY <1>1, <1>2, Zenon DEF Session
<1>5. /\ s.at = r.at /\ s.buf = <<>> /\ s.wire = r.wire /\ s.handled = r.handled
      /\ s.up_closed /\ s.readable = r.readable /\ s.running = r.running
      /\ s.ready = r.ready /\ s.silent = r.silent /\ s.out = r.out /\ s.taken = r.taken
      /\ s.use_strong = r.use_strong
      /\ s.open_session = r.open_session /\ s.close_session = r.close_session
  BY <1>1, <1>2, SMTT(30) DEF Session
<1>6. s.at # "finished"
  BY <1>5
<1>. QED  BY <1>1, <1>3, <1>4, <1>5, <1>6, Zenon DEF Kept

(* A request completes. *)
LEMMA CompletesOne ==
  ASSUME NEW M, NEW sep, NEW r, Kept(r, M, sep), r.at = "open", client_buffer_size \in Nat,
         NEW i \in r.running, NEW responds \in BOOLEAN
  PROVE  Kept([r EXCEPT !.running = @ \ {i}, !.ready = IF responds THEN @ \union {i} ELSE @,
                        !.silent = IF responds THEN @ ELSE @ \union {i}], M, sep)
<1>1. PICK s : s = [r EXCEPT !.running = @ \ {i}, !.ready = IF responds THEN @ \union {i} ELSE @,
                             !.silent = IF responds THEN @ ELSE @ \union {i}]
  BY Zenon
<1>2. r \in Session /\ Placed(r.running, r.ready, r.silent, Answered(r.out), Len(r.handled))
  BY Zenon DEF Kept
<1>3. /\ r.running \in SUBSET Nat /\ r.ready \in SUBSET Nat /\ r.silent \in SUBSET Nat
      /\ r.handled \in Seq(Seq(Byte))
  BY <1>2, Zenon DEF Session
<1>4. PICK running, ready, silent :
        /\ running = r.running \ {i} /\ ready = (IF responds THEN r.ready \union {i} ELSE r.ready)
        /\ silent = (IF responds THEN r.silent ELSE r.silent \union {i})
  BY Zenon
<1>5. running \in SUBSET Nat /\ ready \in SUBSET Nat /\ silent \in SUBSET Nat
  <2>1. CASE responds
    BY <1>3, <1>4, <2>1, Zenon
  <2>2. CASE ~responds
    BY <1>3, <1>4, <2>2, Zenon
  <2>. QED  BY <2>1, <2>2, Zenon
<1>6. s = [r EXCEPT !.running = running, !.ready = ready, !.silent = silent]
  BY <1>1, <1>4, Zenon
<1>7. s \in Session
  BY <1>2, <1>5, <1>6, Zenon DEF Session
<1>8. /\ s.at = r.at /\ s.buf = r.buf /\ s.wire = r.wire /\ s.handled = r.handled
      /\ s.up_closed = r.up_closed /\ s.readable = r.readable /\ s.running = running
      /\ s.ready = ready /\ s.silent = silent /\ s.out = r.out /\ s.taken = r.taken
      /\ s.use_strong = r.use_strong
      /\ s.open_session = r.open_session /\ s.close_session = r.close_session
  BY <1>2, <1>6, SMTT(30) DEF Session
<1>9. Placed(running, ready, silent, Answered(r.out), Len(r.handled))
  <2>1. Len(r.handled) \in Nat
    BY <1>3, LenProperties, Zenon
  <2>2. /\ Placed(r.running \ {i}, r.ready \union {i}, r.silent, Answered(r.out), Len(r.handled))
        /\ Placed(r.running \ {i}, r.ready, r.silent \union {i}, Answered(r.out), Len(r.handled))
    BY <1>2, <2>1, Completes, Zenon
  <2>. QED  BY <1>4, <2>2, Zenon
<1>10. s.at # "finished"
  BY <1>8
<1>. QED  BY <1>1, <1>7, <1>8, <1>9, <1>10, Zenon DEF Kept

(* A response is forwarded. *)
LEMMA ForwardsResponse ==
  ASSUME NEW M, NEW sep, NEW r, Kept(r, M, sep), r.at = "open", client_buffer_size \in Nat,
         NEW i \in r.ready
  PROVE  Kept([r EXCEPT !.ready = @ \ {i}, !.out = Append(@, [response |-> i]), !.use_strong = FALSE],
              M, sep)
<1>1. PICK s : s = [r EXCEPT !.ready = @ \ {i}, !.out = Append(@, [response |-> i]), !.use_strong = FALSE]
  BY Zenon
<1>2. /\ r \in Session /\ Placed(r.running, r.ready, r.silent, Answered(r.out), Len(r.handled))
      /\ Written(r.out, r.taken, r.use_strong)
  BY Zenon DEF Kept
<1>3. r.ready \in SUBSET Nat /\ r.handled \in Seq(Seq(Byte)) /\ r.out \in Seq(Items)
  BY <1>2, Zenon DEF Session
<1>4. PICK ready, out : ready = r.ready \ {i} /\ out = Append(r.out, [response |-> i])
  BY Zenon
<1>5. Len(r.handled) \in Nat
  BY <1>3, LenProperties, Zenon
<1>6. /\ Placed(r.running, ready, r.silent, Answered(r.out) \union {i}, Len(r.handled))
      /\ i \in Nat \ {0} /\ i \notin Answered(r.out)
  BY <1>2, <1>4, <1>5, IsAnswered, Zenon
<1>7. out \in Seq(Items) /\ Answered(out) = Answered(r.out) \union {i} /\ Written(out, r.taken, FALSE)
  BY <1>2, <1>3, <1>4, <1>6, WriteResponse, Zenon
<1>8. ready \in SUBSET Nat
  BY <1>3, <1>4, Zenon
<1>9. s = [r EXCEPT !.ready = ready, !.out = out, !.use_strong = FALSE]
  BY <1>1, <1>4, Zenon
<1>10. s \in Session
  BY <1>2, <1>7, <1>8, <1>9, Zenon DEF Session
<1>11. /\ s.at = r.at /\ s.buf = r.buf /\ s.wire = r.wire /\ s.handled = r.handled
       /\ s.up_closed = r.up_closed /\ s.readable = r.readable /\ s.running = r.running
       /\ s.ready = ready /\ s.silent = r.silent /\ s.out = out /\ s.taken = r.taken
       /\ s.use_strong = FALSE
       /\ s.open_session = r.open_session /\ s.close_session = r.close_session
  BY <1>2, <1>9, SMTT(30) DEF Session
<1>12. s.at # "finished"
  BY <1>11
<1>. QED  BY <1>1, <1>6, <1>7, <1>10, <1>11, <1>12, Zenon DEF Kept

(* A pushed message is. *)
LEMMA ForwardsPush ==
  ASSUME NEW M, NEW sep, NEW r, Kept(r, M, sep)
  PROVE  Kept([r EXCEPT !.taken = @ + 1, !.out = Append(@, [push |-> r.taken + 1]),
                        !.use_strong = TRUE], M, sep)
<1>1. PICK s : s = [r EXCEPT !.taken = @ + 1, !.out = Append(@, [push |-> r.taken + 1]),
                             !.use_strong = TRUE]
  BY Zenon
<1>2. r \in Session /\ Written(r.out, r.taken, r.use_strong)
  BY Zenon DEF Kept
<1>3. r.taken \in Nat /\ r.out \in Seq(Items)
  BY <1>2, Zenon DEF Session
<1>4. PICK taken, out : taken = r.taken + 1 /\ out = Append(r.out, [push |-> r.taken + 1])
  BY Zenon
<1>5. out \in Seq(Items) /\ Answered(out) = Answered(r.out) /\ Written(out, taken, TRUE)
  BY <1>2, <1>3, <1>4, WritePush, Zenon
<1>6. taken \in Nat
  BY <1>3, <1>4, SMTT(30)
<1>7. s = [r EXCEPT !.taken = taken, !.out = out, !.use_strong = TRUE]
  BY <1>1, <1>4, Zenon
<1>8. s \in Session
  BY <1>2, <1>5, <1>6, <1>7, Zenon DEF Session
<1>9. /\ s.at = r.at /\ s.buf = r.buf /\ s.wire = r.wire /\ s.handled = r.handled
      /\ s.up_closed = r.up_closed /\ s.readable = r.readable /\ s.running = r.running
      /\ s.ready = r.ready /\ s.silent = r.silent /\ s.out = out /\ s.taken = taken
      /\ s.use_strong = TRUE
      /\ s.open_session = r.open_session /\ s.close_session = r.close_session
  BY <1>2, <1>7, SMTT(30) DEF Session
<1>. QED  BY <1>1, <1>5, <1>8, <1>9, Zenon DEF Kept
-----------------------------------------------------------------------------
(* The invariant of the sessions. *)

(* What the setup of a server gives for a connection. *)
LEMMA SetupGives ==
  ASSUME SetupsOK, setup \in Setups, NEW c \in Connections
  PROVE  /\ client_buffer_size \in Nat
         /\ setup.incoming_separator \in Byte \union {Empty}
         /\ setup.messages[c] \in Seq(Seq(Byte))
         /\ Framed(setup.messages[c], setup.incoming_separator)
BY Zenon DEF SetupsOK, Connections

LEMMA SessionInit == SetupsOK /\ IpcInit => SessionInv
<1>. SUFFICES ASSUME SetupsOK, IpcInit PROVE SessionInv
  OBVIOUS
<1>1. setup \in Setups /\ DOMAIN session = Connections
  BY Zenon DEF IpcInit
<1>2. ASSUME NEW c \in Connections
      PROVE  Kept(session[c], setup.messages[c], setup.incoming_separator)
  <2>1. session[c] = IpcFresh(Sent(setup.messages[c], setup.incoming_separator))
    BY Zenon DEF IpcInit
  <2>2. /\ client_buffer_size \in Nat
        /\ setup.incoming_separator \in Byte \union {Empty}
        /\ setup.messages[c] \in Seq(Seq(Byte))
        /\ Framed(setup.messages[c], setup.incoming_separator)
    BY <1>1, SetupGives, Zenon
  <2>3. Kept(IpcFresh(Sent(setup.messages[c], setup.incoming_separator)),
             setup.messages[c], setup.incoming_separator)
    BY <2>2, FreshKept, Zenon
  <2>. QED  BY <2>1, <2>3, Zenon
<1>. QED  BY <1>1, <1>2, Zenon DEF SessionInv

(* A step that changes a single session. *)
LEMMA OneSession ==
  ASSUME SessionInv, NEW c \in Connections, NEW s,
         Kept(s, setup.messages[c], setup.incoming_separator),
         session' = [session EXCEPT ![c] = s], setup' = setup
  PROVE  SessionInv'
<1>1. /\ DOMAIN session' = Connections /\ session'[c] = s
      /\ \A d \in Connections \ {c} : session'[d] = session[d]
  BY Zenon DEF SessionInv
<1>2. Connections' = Connections
  BY Zenon DEF Connections
<1>3. ASSUME NEW d \in Connections PROVE Kept(session'[d], setup'.messages[d], setup'.incoming_separator)
  <2>1. CASE d = c
    BY <1>1, <2>1, Zenon
  <2>2. CASE d # c
    BY <1>1, <2>2, Zenon DEF SessionInv
  <2>. QED  BY <2>1, <2>2, Zenon
<1>. QED  BY <1>1, <1>2, <1>3, Zenon DEF SessionInv

(* decode's step, for a session. *)
LEMMA Decodes ==
  ASSUME SetupsOK, SessionInv, NEW c \in Connections
  PROVE  Advances(decode(session[c].buf, setup.incoming_separator), setup.messages[c],
                  setup.incoming_separator, session[c].wire, session[c].handled)
<1>1. /\ session[c] \in Session
      /\ Served(setup.messages[c], setup.incoming_separator, session[c].buf, session[c].wire, session[c].handled)
  BY Zenon DEF SessionInv, Kept
<1>2. session[c].buf \in Seq(Byte) /\ session[c].wire \in Seq(Byte)
  BY <1>1, Zenon DEF Session
<1>3. /\ setup.messages[c] \in Seq(Seq(Byte)) /\ setup.incoming_separator \in Byte \union {Empty}
      /\ Framed(setup.messages[c], setup.incoming_separator)
  BY SetupGives, Zenon DEF SessionInv
<1>. QED  BY <1>1, <1>2, <1>3, DecodeStep, Zenon

LEMMA ServeKeepsSessions ==
  ASSUME SetupsOK, SessionInv, NEW c \in Connections, IpcServe(c), next_id \in Nat
  PROVE  SessionInv'
<1>. DEFINE OK(s) == Kept(s, setup.messages[c], setup.incoming_separator)
<1>1. PICK r : r = session[c] /\ OK(r)
  BY Zenon DEF SessionInv
<1>2. client_buffer_size \in Nat
  BY Zenon DEF SetupsOK
<1>3. ASSUME NEW s, IpcStep(c, s), OK(s) PROVE SessionInv'
  <2>1. session' = [session EXCEPT ![c] = s] /\ setup' = setup
    BY <1>3, Zenon DEF IpcStep
  <2>. QED  BY <1>3, <2>1, OneSession, Zenon
<1>4. PICK d : d = decode(r.buf, setup.incoming_separator)
  BY Zenon
<1>5. Advances(d, setup.messages[c], setup.incoming_separator, r.wire, r.handled)
  BY <1>1, <1>4, Decodes, Zenon
<1>6. CASE IpcAccept(c)
  <2>1. PICK id : id = next_id' /\ r.at = "backlog"
    BY <1>1, <1>6, Zenon DEF IpcAccept
  <2>2. id \in Nat
    <3>1. IdSpan \in Nat \ {0}
      <4>1. IdSpan \in Nat /\ IsFiniteSet(Connections) /\ Cardinality(Connections) < IdSpan
        BY Zenon DEF SetupsOK, SessionInv, Connections
      <4>2. Cardinality(Connections) \in Nat
        BY <4>1, FS_CardinalityType, Zenon
      <4>. QED  BY <4>1, <4>2, SMTT(30)
    <3>2. id = (next_id + 1) % IdSpan
      BY <1>6, <2>1, Zenon DEF IpcAccept
    <3>. QED  BY <3>1, <3>2, SMTT(30)
  <2>3. PICK s : s = [r EXCEPT !.at = "open", !.id = id, !.open_session = @ + 1]
    BY Zenon
  <2>4. OK(s)
    BY <1>1, <2>1, <2>2, <2>3, Opens, Zenon
  <2>5. session' = [session EXCEPT ![c] = s] /\ setup' = setup
    <3>1. session' = [session EXCEPT ![c].at = "open", ![c].id = id, ![c].open_session = @ + 1] /\ setup' = setup
      BY <1>6, <2>1, Zenon DEF IpcAccept
    <3>2. DOMAIN session = Connections
      BY Zenon DEF SessionInv
    <3>. QED  BY <1>1, <2>3, <3>1, <3>2, Zenon
  <2>. QED  BY <2>4, <2>5, OneSession, Zenon
<1>7. CASE IpcRead(c)
  <2>1. PICK n \in 1 .. Len(r.wire) :
          IpcStep(c, [r EXCEPT !.buf = @ \o SubSeq(r.wire, 1, n),
                               !.wire = SubSeq(@, n + 1, Len(@)), !.readable = TRUE])
    BY <1>1, <1>7, Zenon DEF IpcRead
  <2>2. r.at = "open"
    BY <1>1, <1>7, Zenon DEF IpcRead, Reading, IpcOpen
  <2>3. OK([r EXCEPT !.buf = @ \o SubSeq(r.wire, 1, n),
                     !.wire = SubSeq(@, n + 1, Len(@)), !.readable = TRUE])
    BY <1>1, <2>2, Reads, Zenon
  <2>. HIDE DEF OK
  <2>. QED  BY <1>3, <2>1, <2>3, Zenon
<1>8. CASE IpcDecode(c)
  <2>1. r.readable /\ r.at = "open" /\ Cardinality(r.running \union r.ready) < client_buffer_size
    BY <1>1, <1>8, Zenon DEF IpcDecode, Reading, IpcOpen
  <2>2. ~r.up_closed
    BY <1>1, <2>1, Zenon DEF Kept
  <2>3. IpcStep(c, CASE d.error -> Ended(r, "failed")
                   [] ~d.error /\ d.message # Nothing -> IpcHandle(r, d)
                   [] OTHER -> [r EXCEPT !.buf = d.rest, !.readable = FALSE])
    BY <1>1, <1>4, <1>8, Zenon DEF IpcDecode
  <2>4. CASE d.error
    <3>1. IpcStep(c, Ended(r, "failed"))
      BY <2>3, <2>4, SMTT(30)
    <3>2. OK(Ended(r, "failed"))
      BY <1>1, <2>1, EndsSession, SMTT(30)
    <3>. QED  BY <1>3, <3>1, <3>2, Zenon
  <2>5. CASE ~d.error /\ d.message # Nothing
    <3>1. IpcStep(c, IpcHandle(r, d))
      BY <2>3, <2>5
    <3>2. OK(IpcHandle(r, d))
      BY <1>1, <1>2, <1>5, <2>1, <2>2, <2>5, Handles, Zenon
    <3>. QED  BY <1>3, <3>1, <3>2, Zenon
  <2>6. CASE ~d.error /\ d.message = Nothing
    <3>1. IpcStep(c, [r EXCEPT !.buf = d.rest, !.readable = FALSE])
      BY <2>3, <2>6
    <3>2. OK([r EXCEPT !.buf = d.rest, !.readable = FALSE])
      BY <1>1, <1>5, <2>2, <2>6, Awaits, Zenon
    <3>. QED  BY <1>3, <3>1, <3>2, Zenon
  <2>. QED  BY <2>4, <2>5, <2>6, Zenon
<1>9. CASE IpcEndOfInput(c)
  <2>1. /\ ~r.readable /\ r.wire = <<>> /\ ~r.up_closed /\ r.at = "open"
        /\ Cardinality(r.running \union r.ready) < client_buffer_size
    BY <1>1, <1>9, Zenon DEF IpcEndOfInput, Reading, IpcOpen
  <2>2. IpcStep(c, CASE d.message # Nothing -> IpcHandle(r, d)
                   [] d.message = Nothing /\ ~d.error /\ d.rest = <<>> ->
                        [r EXCEPT !.buf = <<>>, !.up_closed = TRUE]
                   [] OTHER -> Ended(r, "failed"))
    BY <1>1, <1>4, <1>9, Zenon DEF IpcEndOfInput
  <2>3. CASE d.message # Nothing
    <3>1. IpcStep(c, IpcHandle(r, d))
      BY <2>2, <2>3
    <3>2. OK(IpcHandle(r, d))
      BY <1>1, <1>2, <1>5, <2>1, <2>3, Handles, Zenon
    <3>. QED  BY <1>3, <3>1, <3>2, Zenon
  <2>4. CASE d.message = Nothing /\ ~d.error /\ d.rest = <<>>
    <3>1. IpcStep(c, [r EXCEPT !.buf = <<>>, !.up_closed = TRUE])
      BY <2>2, <2>4, SMTT(30)
    <3>2. OK([r EXCEPT !.buf = <<>>, !.up_closed = TRUE])
      BY <1>1, <1>5, <2>1, <2>4, InputEnds, Zenon
    <3>. QED  BY <1>3, <3>1, <3>2, Zenon
  <2>5. CASE d.message = Nothing /\ ~(~d.error /\ d.rest = <<>>)
    <3>1. IpcStep(c, Ended(r, "failed"))
      BY <2>2, <2>5, SMTT(30)
    <3>2. OK(Ended(r, "failed"))
      BY <1>1, <2>1, EndsSession, SMTT(30)
    <3>. QED  BY <1>3, <3>1, <3>2, Zenon
  <2>. QED  BY <2>3, <2>4, <2>5, Zenon
<1>10. CASE Complete(c)
  <2>1. PICK i \in r.running, responds \in BOOLEAN :
          IpcStep(c, [r EXCEPT !.running = @ \ {i}, !.ready = IF responds THEN @ \union {i} ELSE @,
                               !.silent = IF responds THEN @ ELSE @ \union {i}])
    BY <1>1, <1>10, Zenon DEF Complete
  <2>2. r.at = "open"
    BY <1>1, <1>10, Zenon DEF Complete, IpcOpen
  <2>3. OK([r EXCEPT !.running = @ \ {i}, !.ready = IF responds THEN @ \union {i} ELSE @,
                     !.silent = IF responds THEN @ ELSE @ \union {i}])
    BY <1>1, <1>2, <2>2, CompletesOne, Zenon
  <2>. HIDE DEF OK
  <2>. QED  BY <1>3, <2>1, <2>3, Zenon
<1>11. CASE ForwardStrong(c)
  <2>1. PICK i \in r.ready :
          IpcStep(c, [r EXCEPT !.ready = @ \ {i}, !.out = Append(@, [response |-> i]), !.use_strong = FALSE])
    BY <1>1, <1>11, Zenon DEF ForwardStrong
  <2>2. r.at = "open"
    BY <1>1, <1>11, Zenon DEF ForwardStrong, IpcOpen
  <2>3. OK([r EXCEPT !.ready = @ \ {i}, !.out = Append(@, [response |-> i]), !.use_strong = FALSE])
    BY <1>1, <1>2, <2>2, ForwardsResponse, Zenon
  <2>. HIDE DEF OK
  <2>. QED  BY <1>3, <2>1, <2>3, Zenon
<1>12. CASE ForwardWeak(c)
  <2>1. IpcStep(c, [r EXCEPT !.taken = @ + 1, !.out = Append(@, [push |-> r.taken + 1]), !.use_strong = TRUE])
    BY <1>1, <1>12, Zenon DEF ForwardWeak
  <2>2. OK([r EXCEPT !.taken = @ + 1, !.out = Append(@, [push |-> r.taken + 1]), !.use_strong = TRUE])
    BY <1>1, ForwardsPush, Zenon
  <2>. HIDE DEF OK
  <2>. QED  BY <1>3, <2>1, <2>2, Zenon
<1>13. CASE ForwardEnds(c)
  <2>1. r.at = "open" /\ StrongEnds(r) /\ IpcStep(c, Ended(r, "finished"))
    BY <1>1, <1>13, Zenon DEF ForwardEnds, IpcOpen
  <2>2. OK(Ended(r, "finished"))
    BY <1>1, <2>1, EndsSession, Zenon
  <2>. QED  BY <1>3, <2>1, <2>2, Zenon
<1>14. CASE ForwardPending(c)
  <2>1. IpcStep(c, [r EXCEPT !.use_strong = TRUE])
    BY <1>1, <1>14, Zenon DEF ForwardPending
  <2>2. OK([r EXCEPT !.use_strong = TRUE])
    BY <1>1, Prefers, Zenon
  <2>. QED  BY <1>3, <2>1, <2>2, Zenon
<1>. QED
  BY <1>6, <1>7, <1>8, <1>9, <1>10, <1>11, <1>12, <1>13, <1>14, Zenon DEF IpcServe
-----------------------------------------------------------------------------
(***************************************************************************)
(* Session ids.  They are given in order, and there are more of them than  *)
(* connections, so none is given twice.                                    *)
(***************************************************************************)
Begun == {c \in Connections : session[c].at \notin {"none", "backlog"}}

IdsInv ==
  /\ next_id = Cardinality(Begun)
  /\ \A c \in Begun : session[c].id \in 1 .. next_id
  /\ \A c, d \in Begun : session[c].id = session[d].id => c = d

LEMMA FewSessions ==
  ASSUME SetupsOK, setup \in Setups
  PROVE  /\ IsFiniteSet(Connections) /\ Cardinality(Connections) \in Nat
         /\ IdSpan \in Nat /\ Cardinality(Connections) < IdSpan
         /\ IsFiniteSet(Begun) /\ Cardinality(Begun) \in Nat
         /\ \A c \in Connections \ Begun :
              /\ Cardinality(Begun) + 1 <= Cardinality(Connections)
              /\ Cardinality(Begun \union {c}) = Cardinality(Begun) + 1
<1>1. IsFiniteSet(Connections) /\ IdSpan \in Nat /\ Cardinality(Connections) < IdSpan
  BY Zenon DEF SetupsOK, Connections
<1>2. Begun \subseteq Connections
  BY Zenon DEF Begun
<1>3. IsFiniteSet(Begun)
  BY <1>1, <1>2, FS_Subset, Zenon
<1>4. Cardinality(Begun) \in Nat /\ Cardinality(Connections) \in Nat
  BY <1>1, <1>3, FS_CardinalityType, Zenon
<1>5. ASSUME NEW c \in Connections \ Begun
      PROVE  /\ Cardinality(Begun) + 1 <= Cardinality(Connections)
             /\ Cardinality(Begun \union {c}) = Cardinality(Begun) + 1
  <2>1. Cardinality(Begun \union {c}) = Cardinality(Begun) + 1
    BY <1>3, FS_AddElement, Zenon
  <2>2. Begun \union {c} \subseteq Connections
    BY <1>2, Zenon
  <2>3. Cardinality(Begun \union {c}) <= Cardinality(Connections)
    BY <1>1, <2>2, FS_Subset, Zenon
  <2>. QED  BY <2>1, <2>3, Zenon
<1>. QED  BY <1>1, <1>3, <1>4, <1>5, Zenon

LEMMA IdsInit == SetupsOK /\ IpcInit => IdsInv
<1>. SUFFICES ASSUME SetupsOK, IpcInit PROVE IdsInv
  OBVIOUS
<1>1. ASSUME NEW c \in Connections PROVE session[c].at = "none"
  <2>1. session[c] = IpcFresh(Sent(setup.messages[c], setup.incoming_separator))
    BY Zenon DEF IpcInit
  <2>. QED  BY <2>1 DEF IpcFresh
<1>2. Begun = {}
  BY <1>1, SMTT(30) DEF Begun
<1>3. next_id = 0 /\ Cardinality({}) = 0
  BY FS_EmptySet DEF IpcInit
<1>. QED  BY <1>2, <1>3, Zenon DEF IdsInv

(* What a step other than IpcAccept does to a session, as far as ids go. *)
SameId(r, s) ==
  /\ s.id = r.id
  /\ s.at \in {"none", "backlog"} <=> r.at \in {"none", "backlog"}

LEMMA SameIds ==
  ASSUME IdsInv, setup' = setup, next_id' = next_id, \A c \in Connections : SameId(session[c], session'[c])
  PROVE  IdsInv'
<1>1. Connections' = Connections
  BY Zenon DEF Connections
<1>2. Begun' = Begun
  BY <1>1, Zenon DEF Begun, SameId
<1>3. \A c \in Begun : session'[c].id = session[c].id
  BY Zenon DEF Begun, SameId
<1>4. /\ next_id' = Cardinality(Begun') /\ \A c \in Begun' : session'[c].id \in 1 .. next_id'
      /\ \A c, d \in Begun' : session'[c].id = session'[d].id => c = d
  BY <1>2, <1>3 DEF IdsInv
<1>. QED  BY <1>4, Zenon DEF IdsInv

LEMMA SameIdOne ==
  ASSUME IdsInv, DOMAIN session = Connections, NEW c \in Connections, NEW s, SameId(session[c], s),
         session' = [session EXCEPT ![c] = s], setup' = setup, next_id' = next_id
  PROVE  IdsInv'
<1>1. session'[c] = s /\ \A d \in Connections \ {c} : session'[d] = session[d]
  BY Zenon
<1>2. ASSUME NEW d \in Connections PROVE SameId(session[d], session'[d])
  <2>1. CASE d = c
    BY <1>1, <2>1, Zenon
  <2>2. CASE d # c
    BY <1>1, <2>2, Zenon DEF SameId
  <2>. QED  BY <2>1, <2>2, Zenon
<1>. QED  BY <1>2, SameIds, Zenon

LEMMA AcceptKeepsIds ==
  ASSUME SetupsOK, SessionInv, IdsInv, NEW c \in Connections, IpcAccept(c)
  PROVE  IdsInv'
<1>1. /\ DOMAIN session = Connections /\ session[c] \in Session /\ setup \in Setups
      /\ session[c].at = "backlog" /\ setup' = setup
  BY Zenon DEF SessionInv, Kept, IpcAccept
<1>2. c \in Connections \ Begun
  BY <1>1, Zenon DEF Begun
<1>3. PICK n \in Nat : n = next_id /\ n = Cardinality(Begun)
  BY <1>1, FewSessions, Zenon DEF IdsInv
<1>4. n + 1 < IdSpan /\ IdSpan \in Nat /\ Cardinality(Begun \union {c}) = n + 1
  <2>1. /\ Cardinality(Begun) + 1 <= Cardinality(Connections)
        /\ Cardinality(Begun \union {c}) = Cardinality(Begun) + 1
        /\ Cardinality(Connections) \in Nat /\ IdSpan \in Nat /\ Cardinality(Connections) < IdSpan
    BY <1>1, <1>2, FewSessions, Zenon
  <2>. QED  BY <1>3, <2>1, SMTT(30)
<1>5. next_id' = n + 1
  <2>1. next_id' = (n + 1) % IdSpan
    BY <1>3, Zenon DEF IpcAccept
  <2>2. (n + 1) % IdSpan = n + 1
    BY <1>4
  <2>. QED  BY <2>1, <2>2, Zenon
<1>6. PICK s : session' = [session EXCEPT ![c] = s] /\ s.at = "open" /\ s.id = n + 1
  <2>1. session' = [session EXCEPT ![c].at = "open", ![c].id = n + 1, ![c].open_session = @ + 1]
    BY <1>5, Zenon DEF IpcAccept
  <2>2. PICK r : r = session[c] /\ r \in Session
    BY <1>1, Zenon
  <2>3. PICK s : s = [r EXCEPT !.at = "open", !.id = n + 1, !.open_session = @ + 1]
    BY Zenon
  <2>4. session' = [session EXCEPT ![c] = s]
    BY <1>1, <2>1, <2>2, <2>3, Zenon
  <2>5. s.at = "open" /\ s.id = n + 1
    BY <2>2, <2>3, SMTT(30) DEF Session
  <2>. QED  BY <2>4, <2>5, Zenon
<1>7. session'[c] = s /\ \A d \in Connections \ {c} : session'[d] = session[d]
  BY <1>1, <1>6, Zenon
<1>8. Connections' = Connections
  BY <1>1, Zenon DEF Connections
<1>9. Begun' = Begun \union {c}
  <2>1. s.at \notin {"none", "backlog"}
    BY <1>6, SMTT(30)
  <2>2. ASSUME NEW d PROVE d \in Begun' <=> d \in Begun \union {c}
    <3>1. CASE d = c
      BY <1>7, <1>8, <2>1, <3>1, Zenon DEF Begun
    <3>2. CASE d # c
      BY <1>7, <1>8, <3>2, Zenon DEF Begun
    <3>. QED  BY <3>1, <3>2, Zenon
  <2>. QED  BY <2>2, Zenon
<1>10. ASSUME NEW d \in Begun PROVE session'[d].id = session[d].id /\ session[d].id \in 1 .. n /\ d # c
  BY <1>2, <1>3, <1>7, Zenon DEF IdsInv, Begun
<1>11. \A d \in Begun' : session'[d].id \in 1 .. next_id'
  <2>1. n + 1 \in 1 .. n + 1 /\ \A i \in 1 .. n : i \in 1 .. n + 1 /\ i # n + 1
    OBVIOUS
  <2>. QED  BY <1>5, <1>6, <1>7, <1>9, <1>10, <2>1, Zenon
<1>12. ASSUME NEW d \in Begun', NEW e \in Begun', session'[d].id = session'[e].id PROVE d = e
  <2>1. \A i \in 1 .. n : i # n + 1
    OBVIOUS
  <2>2. CASE d \in Begun /\ e \in Begun
    BY <1>10, <1>12, <2>2, Zenon DEF IdsInv
  <2>3. CASE d = c /\ e \in Begun
    BY <1>6, <1>7, <1>10, <1>12, <2>1, <2>3, Zenon
  <2>4. CASE d \in Begun /\ e = c
    BY <1>6, <1>7, <1>10, <1>12, <2>1, <2>4, Zenon
  <2>5. CASE d = c /\ e = c
    BY <2>5, Zenon
  <2>. QED  BY <1>9, <1>12, <2>2, <2>3, <2>4, <2>5, Zenon
<1>13. next_id' = Cardinality(Begun')
  BY <1>4, <1>5, <1>9, Zenon
<1>. QED  BY <1>11, <1>12, <1>13, Zenon DEF IdsInv

-----------------------------------------------------------------------------
(* The steps of a session. *)

(* What they write: a pushed message only if the responses had their turn or have none. *)
Turn(r, s) ==
  \/ s.out = r.out
  \/ \E i : s.out = Append(r.out, [response |-> i])
  \/ \E i : s.out = Append(r.out, [push |-> i]) /\ (~r.use_strong \/ r.ready = {})

LEMMA KeepsId ==
  ASSUME NEW r \in Session
  PROVE  /\ \A x, y, z : SameId(r, [r EXCEPT !.buf = x, !.wire = y, !.readable = z])
         /\ \A x, y, z : SameId(r, [r EXCEPT !.buf = x, !.handled = y, !.running = z])
         /\ \A x, y : SameId(r, [r EXCEPT !.buf = x, !.readable = y])
         /\ \A x, y : SameId(r, [r EXCEPT !.buf = x, !.up_closed = y])
         /\ \A x, y, z : SameId(r, [r EXCEPT !.running = x, !.ready = y, !.silent = z])
         /\ \A x, y, z : SameId(r, [r EXCEPT !.ready = x, !.out = y, !.use_strong = z])
         /\ \A x, y, z : SameId(r, [r EXCEPT !.taken = x, !.out = y, !.use_strong = z])
         /\ \A x : SameId(r, [r EXCEPT !.use_strong = x])
         /\ \A x : SameId(r, [r EXCEPT !.eof = x])
         /\ \A x : SameId(r, [r EXCEPT !.accepted = x])
         /\ \A x, y : (x \in {"none", "backlog"} <=> r.at \in {"none", "backlog"}) =>
              /\ SameId(r, [r EXCEPT !.at = x]) /\ SameId(r, [r EXCEPT !.at = x, !.close_session = y])
              /\ SameId(r, [[r EXCEPT !.at = x, !.close_session = y] EXCEPT !.eof = TRUE])
BY DEF SameId, Session

LEMMA TakesTurn ==
  ASSUME NEW r \in Session
  PROVE  /\ \A x, y, z : Turn(r, [r EXCEPT !.at = x, !.id = y, !.open_session = z])
         /\ \A x, y, z : Turn(r, [r EXCEPT !.buf = x, !.wire = y, !.readable = z])
         /\ \A x, y, z : Turn(r, [r EXCEPT !.buf = x, !.handled = y, !.running = z])
         /\ \A x, y : Turn(r, [r EXCEPT !.buf = x, !.readable = y])
         /\ \A x, y : Turn(r, [r EXCEPT !.buf = x, !.up_closed = y])
         /\ \A x, y, z : Turn(r, [r EXCEPT !.running = x, !.ready = y, !.silent = z])
         /\ \A x : Turn(r, [r EXCEPT !.use_strong = x])
         /\ \A x : Turn(r, [r EXCEPT !.eof = x])
         /\ \A x : Turn(r, [r EXCEPT !.accepted = x])
         /\ \A x, y : Turn(r, [r EXCEPT !.at = x]) /\ Turn(r, [r EXCEPT !.at = x, !.close_session = y])
         /\ \A x, y : Turn(r, [[r EXCEPT !.at = x, !.close_session = y] EXCEPT !.eof = TRUE])
BY DEF Turn, Session

LEMMA WritesInTurn ==
  ASSUME NEW r \in Session
  PROVE  /\ \A x, i : Turn(r, [r EXCEPT !.ready = x, !.out = Append(@, [response |-> i]), !.use_strong = FALSE])
         /\ ~r.use_strong \/ r.ready = {} => 
              \A x, i : Turn(r, [r EXCEPT !.taken = x, !.out = Append(@, [push |-> i]), !.use_strong = TRUE])
BY Zenon DEF Turn, Session

(* Every step of a session except IpcAccept. *)
SessionStep(c) ==
  \/ IpcConnect(c) \/ IpcRead(c) \/ IpcDecode(c) \/ IpcEndOfInput(c) \/ Complete(c)
  \/ ForwardStrong(c) \/ ForwardWeak(c) \/ ForwardEnds(c) \/ ForwardPending(c)
  \/ IpcWriteFails(c) \/ IpcHangUp(c) \/ Push(c)

StepsTo(c, s) == IpcStep(c, s) /\ SameId(session[c], s) /\ Turn(session[c], s)

LEMMA SessionSteps ==
  ASSUME SessionInv, NEW c \in Connections, SessionStep(c)
  PROVE  \E s : StepsTo(c, s)
<1>1. PICK r : r = session[c] /\ r \in Session
  BY Zenon DEF SessionInv, Kept
<1>3. ASSUME NEW s, IpcStep(c, s), SameId(r, s), Turn(r, s) PROVE \E t : StepsTo(c, t)
  BY <1>1, <1>3, Zenon DEF StepsTo
<1>4. PICK d : d = decode(r.buf, setup.incoming_separator)
  BY Zenon
<1>5. ASSUME r.at = "open", NEW how \in {"finished", "failed"}
      PROVE  /\ SameId(r, Ended(r, how)) /\ Turn(r, Ended(r, how))
             /\ SameId(r, [Ended(r, how) EXCEPT !.eof = TRUE]) /\ Turn(r, [Ended(r, how) EXCEPT !.eof = TRUE])
  <2>1. how \in {"none", "backlog"} <=> r.at \in {"none", "backlog"}
    BY <1>5
  <2>. QED  BY <1>1, <2>1, KeepsId, TakesTurn, Zenon DEF Ended
<1>6. SameId(r, IpcHandle(r, d)) /\ Turn(r, IpcHandle(r, d))
  BY <1>1, KeepsId, TakesTurn, ZenonT(60) DEF IpcHandle
<1>7. CASE IpcConnect(c)
  <2>1. r.at = "none" /\ IpcStep(c, [r EXCEPT !.at = "backlog"])
    BY <1>1, <1>7, Zenon DEF IpcConnect
  <2>2. SameId(r, [r EXCEPT !.at = "backlog"]) /\ Turn(r, [r EXCEPT !.at = "backlog"])
    BY <1>1, <2>1, KeepsId, TakesTurn, Zenon
  <2>. QED  BY <1>3, <2>1, <2>2, Zenon
<1>8. CASE IpcRead(c)
  <2>1. PICK x, y : IpcStep(c, [r EXCEPT !.buf = x, !.wire = y, !.readable = TRUE])
    BY <1>1, <1>8, Zenon DEF IpcRead
  <2>2. /\ SameId(r, [r EXCEPT !.buf = x, !.wire = y, !.readable = TRUE])
        /\ Turn(r, [r EXCEPT !.buf = x, !.wire = y, !.readable = TRUE])
    BY <1>1, KeepsId, TakesTurn, Zenon
  <2>. QED  BY <1>3, <2>1, <2>2, Zenon
<1>9. CASE IpcDecode(c)
  <2>1. r.at = "open"
    BY <1>1, <1>9, Zenon DEF IpcDecode, Reading, IpcOpen
  <2>2. IpcStep(c, CASE d.error -> Ended(r, "failed")
                   [] ~d.error /\ d.message # Nothing -> IpcHandle(r, d)
                   [] OTHER -> [r EXCEPT !.buf = d.rest, !.readable = FALSE])
    BY <1>1, <1>4, <1>9, Zenon DEF IpcDecode
  <2>3. \/ IpcStep(c, Ended(r, "failed")) \/ IpcStep(c, IpcHandle(r, d))
        \/ IpcStep(c, [r EXCEPT !.buf = d.rest, !.readable = FALSE])
    BY <2>2, SMTT(30)
  <2>4. /\ SameId(r, [r EXCEPT !.buf = d.rest, !.readable = FALSE])
        /\ Turn(r, [r EXCEPT !.buf = d.rest, !.readable = FALSE])
    BY <1>1, KeepsId, TakesTurn, Zenon
  <2>. QED  BY <1>3, <1>5, <1>6, <2>1, <2>3, <2>4, Zenon
<1>10. CASE IpcEndOfInput(c)
  <2>1. r.at = "open"
    BY <1>1, <1>10, Zenon DEF IpcEndOfInput, Reading, IpcOpen
  <2>2. IpcStep(c, CASE d.message # Nothing -> IpcHandle(r, d)
                   [] d.message = Nothing /\ ~d.error /\ d.rest = <<>> ->
                        [r EXCEPT !.buf = <<>>, !.up_closed = TRUE]
                   [] OTHER -> Ended(r, "failed"))
    BY <1>1, <1>4, <1>10, Zenon DEF IpcEndOfInput
  <2>3. \/ IpcStep(c, Ended(r, "failed")) \/ IpcStep(c, IpcHandle(r, d))
        \/ IpcStep(c, [r EXCEPT !.buf = <<>>, !.up_closed = TRUE])
    BY <2>2, SMTT(30)
  <2>4. /\ SameId(r, [r EXCEPT !.buf = <<>>, !.up_closed = TRUE])
        /\ Turn(r, [r EXCEPT !.buf = <<>>, !.up_closed = TRUE])
    BY <1>1, KeepsId, TakesTurn, Zenon
  <2>. QED  BY <1>3, <1>5, <1>6, <2>1, <2>3, <2>4, Zenon
<1>11. CASE Complete(c)
  <2>1. PICK x, y, z : IpcStep(c, [r EXCEPT !.running = x, !.ready = y, !.silent = z])
    BY <1>1, <1>11, Zenon DEF Complete
  <2>2. /\ SameId(r, [r EXCEPT !.running = x, !.ready = y, !.silent = z])
        /\ Turn(r, [r EXCEPT !.running = x, !.ready = y, !.silent = z])
    BY <1>1, KeepsId, TakesTurn, Zenon
  <2>. QED  BY <1>3, <2>1, <2>2, Zenon
<1>12. CASE ForwardStrong(c)
  <2>1. PICK x, i : IpcStep(c, [r EXCEPT !.ready = x, !.out = Append(@, [response |-> i]), !.use_strong = FALSE])
    BY <1>1, <1>12, Zenon DEF ForwardStrong
  <2>. QED  BY <1>1, <1>3, <2>1, KeepsId, WritesInTurn, Zenon
<1>13. CASE ForwardWeak(c)
  <2>1. ~r.use_strong \/ r.ready = {}
    BY <1>1, <1>13, Zenon DEF ForwardWeak, StrongPending
  <2>2. PICK x, i : IpcStep(c, [r EXCEPT !.taken = x, !.out = Append(@, [push |-> i]), !.use_strong = TRUE])
    BY <1>1, <1>13, Zenon DEF ForwardWeak
  <2>. QED  BY <1>1, <1>3, <2>1, <2>2, KeepsId, WritesInTurn, ZenonT(60)
<1>14. CASE ForwardEnds(c)
  <2>1. r.at = "open" /\ IpcStep(c, Ended(r, "finished"))
    BY <1>1, <1>14, Zenon DEF ForwardEnds, IpcOpen
  <2>. QED  BY <1>3, <1>5, <2>1, Zenon
<1>15. CASE ForwardPending(c)
  <2>1. IpcStep(c, [r EXCEPT !.use_strong = TRUE])
    BY <1>1, <1>15, Zenon DEF ForwardPending
  <2>2. SameId(r, [r EXCEPT !.use_strong = TRUE]) /\ Turn(r, [r EXCEPT !.use_strong = TRUE])
    BY <1>1, KeepsId, TakesTurn, Zenon
  <2>. QED  BY <1>3, <2>1, <2>2, Zenon
<1>16. CASE IpcWriteFails(c)
  <2>1. r.at = "open" /\ IpcStep(c, [Ended(r, "failed") EXCEPT !.eof = TRUE])
    BY <1>1, <1>16, Zenon DEF IpcWriteFails, IpcOpen
  <2>. QED  BY <1>3, <1>5, <2>1, Zenon
<1>17. CASE IpcHangUp(c)
  <2>1. IpcStep(c, [r EXCEPT !.eof = TRUE])
    BY <1>1, <1>17, Zenon DEF IpcHangUp
  <2>2. SameId(r, [r EXCEPT !.eof = TRUE]) /\ Turn(r, [r EXCEPT !.eof = TRUE])
    BY <1>1, KeepsId, TakesTurn, Zenon
  <2>. QED  BY <1>3, <2>1, <2>2, Zenon
<1>18. CASE Push(c)
  <2>1. PICK x : IpcStep(c, [r EXCEPT !.accepted = x])
    BY <1>1, <1>18, Zenon DEF Push
  <2>2. SameId(r, [r EXCEPT !.accepted = x]) /\ Turn(r, [r EXCEPT !.accepted = x])
    BY <1>1, KeepsId, TakesTurn, Zenon
  <2>. QED  BY <1>3, <2>1, <2>2, Zenon
<1>. QED
  BY <1>7, <1>8, <1>9, <1>10, <1>11, <1>12, <1>13, <1>14, <1>15, <1>16, <1>17, <1>18, Zenon DEF SessionStep

(* The server's future is dropped. *)
LEMMA HaltKeeps ==
  ASSUME SessionInv, IdsInv, Halted, setup' = setup, next_id' = next_id
  PROVE  SessionInv' /\ IdsInv' /\ \A c \in Connections : Turn(session[c], session'[c])
<1>1. Connections' = Connections
  BY Zenon DEF Connections
<1>2. setup' \in Setups /\ DOMAIN session' = Connections
  BY Zenon DEF Halted, SessionInv
<1>3. ASSUME NEW c \in Connections
      PROVE  /\ Kept(session'[c], setup.messages[c], setup.incoming_separator)
             /\ SameId(session[c], session'[c]) /\ Turn(session[c], session'[c])
  <2>1. PICK r : r = session[c] /\ Kept(r, setup.messages[c], setup.incoming_separator) /\ r \in Session
    BY Zenon DEF SessionInv, Kept
  <2>2. CASE r.at = "open"
    <3>1. session'[c] = [r EXCEPT !.at = "dropped"]
      BY <2>1, <2>2, Zenon DEF Halted
    <3>2. Kept([r EXCEPT !.at = "dropped"], setup.messages[c], setup.incoming_separator)
      BY <2>1, <2>2, Moves, Zenon
    <3>3. "dropped" \in {"none", "backlog"} <=> r.at \in {"none", "backlog"}
      BY <2>2, SMTT(30)
    <3>4. SameId(r, [r EXCEPT !.at = "dropped"]) /\ Turn(r, [r EXCEPT !.at = "dropped"])
      BY <2>1, <3>3, KeepsId, TakesTurn, Zenon
    <3>. QED  BY <2>1, <3>1, <3>2, <3>4, Zenon
  <2>3. CASE r.at # "open"
    <3>1. session'[c] = r
      BY <2>1, <2>3, Zenon DEF Halted
    <3>2. SameId(r, r) /\ Turn(r, r)
      BY Zenon DEF SameId, Turn
    <3>. QED  BY <2>1, <3>1, <3>2, Zenon
  <2>. QED  BY <2>2, <2>3, Zenon
<1>4. SessionInv'
  BY <1>1, <1>2, <1>3, Zenon DEF SessionInv
<1>5. IdsInv'
  BY <1>3, SameIds, Zenon
<1>. QED  BY <1>3, <1>4, <1>5, Zenon

(* What Next does to sessions and ids. *)
Sessions ==
  \/ UNCHANGED <<setup, session, next_id>>
  \/ Halted /\ UNCHANGED <<setup, next_id>>
  \/ \E c \in Connections : IpcAccept(c) \/ SessionStep(c)

LEMMA NextSessions == [IpcNext]_ipcVars => Sessions
<1>. SUFFICES ASSUME [IpcNext]_ipcVars PROVE Sessions
  OBVIOUS
<1>1. CASE UNCHANGED ipcVars
  BY <1>1, Zenon DEF ipcVars, Sessions
<1>2. CASE \E ok \in BOOLEAN : IpcStart(ok)
  BY <1>2, Zenon DEF IpcStart, sessions, Sessions
<1>3. CASE \E a \in {"owner", "closer"} : IpcClose(a) \/ DropHandle(a)
  BY <1>3, Zenon DEF IpcClose, DropHandle, sessions, Sessions
<1>4. CASE IpcWait
  BY <1>4, Zenon DEF IpcWait, sessions, Sessions
<1>5. CASE IpcProgress
  <2>1. CASE SeeStop
    BY <2>1, Zenon DEF SeeStop, Sessions
  <2>2. CASE WaitReturns
    BY <2>2, Zenon DEF WaitReturns, sessions, Sessions
  <2>3. ASSUME NEW a \in {"owner", "closer"}, SendStop(a) \/ RemoveFile(a) PROVE Sessions
    BY <2>3, Zenon DEF SendStop, RemoveFile, sessions, Sessions
  <2>4. ASSUME NEW a \in {"owner", "closer"}, IpcCloseExecutor(a) PROVE Sessions
    BY <2>4, Zenon DEF IpcCloseExecutor, Sessions
  <2>. QED  BY <1>5, <2>1, <2>2, <2>3, <2>4, Zenon DEF IpcProgress
<1>6. CASE \E c \in Connections : IpcConnect(c) \/ IpcServe(c) \/ IpcWriteFails(c) \/ IpcHangUp(c) \/ Push(c)
  BY <1>6, Zenon DEF Sessions, IpcServe, SessionStep
<1>. QED  BY <1>1, <1>2, <1>3, <1>4, <1>5, <1>6, Zenon DEF IpcNext

LEMMA StepKeepsSessions ==
  ASSUME SetupsOK, SessionInv, next_id \in Nat, NEW c \in Connections, IpcAccept(c) \/ SessionStep(c)
  PROVE  SessionInv'
<1>. DEFINE OK(s) == Kept(s, setup.messages[c], setup.incoming_separator)
<1>1. PICK r : r = session[c] /\ OK(r)
  BY Zenon DEF SessionInv
<1>2. ASSUME NEW s, IpcStep(c, s), OK(s) PROVE SessionInv'
  <2>1. session' = [session EXCEPT ![c] = s] /\ setup' = setup
    BY <1>2, Zenon DEF IpcStep
  <2>. QED  BY <1>2, <2>1, OneSession, Zenon
<1>3. CASE IpcConnect(c)
  <2>1. r.at = "none" /\ IpcStep(c, [r EXCEPT !.at = "backlog"])
    BY <1>1, <1>3, Zenon DEF IpcConnect
  <2>2. OK([r EXCEPT !.at = "backlog"])
    BY <1>1, <2>1, Moves, Zenon
  <2>. QED  BY <1>2, <2>1, <2>2, Zenon
<1>4. CASE IpcWriteFails(c)
  <2>1. r.at = "open" /\ IpcStep(c, [Ended(r, "failed") EXCEPT !.eof = TRUE])
    BY <1>1, <1>4, Zenon DEF IpcWriteFails, IpcOpen
  <2>2. OK(Ended(r, "failed"))
    BY <1>1, <2>1, EndsSession
  <2>3. OK([Ended(r, "failed") EXCEPT !.eof = TRUE])
    BY <2>2, HangsUp, Zenon
  <2>. QED  BY <1>2, <2>1, <2>3, Zenon
<1>5. CASE IpcHangUp(c)
  <2>1. IpcStep(c, [r EXCEPT !.eof = TRUE])
    BY <1>1, <1>5, Zenon DEF IpcHangUp
  <2>2. OK([r EXCEPT !.eof = TRUE])
    BY <1>1, HangsUp, Zenon
  <2>. QED  BY <1>2, <2>1, <2>2, Zenon
<1>6. CASE Push(c)
  <2>1. IpcStep(c, [r EXCEPT !.accepted = @ + 1])
    BY <1>1, <1>6, Zenon DEF Push
  <2>2. OK([r EXCEPT !.accepted = @ + 1])
    BY <1>1, GetsPush, Zenon
  <2>. QED  BY <1>2, <2>1, <2>2, Zenon
<1>. QED  BY <1>3, <1>4, <1>5, <1>6, ServeKeepsSessions, Zenon DEF SessionStep, IpcServe

LEMMA NextKeepsSessions == SetupsOK /\ SessionInv /\ IdsInv /\ [IpcNext]_ipcVars => SessionInv' /\ IdsInv'
<1>. SUFFICES ASSUME SetupsOK, SessionInv, IdsInv, [IpcNext]_ipcVars PROVE SessionInv' /\ IdsInv'
  OBVIOUS
<1>1. next_id \in Nat /\ setup \in Setups /\ DOMAIN session = Connections
  BY FewSessions, Zenon DEF SessionInv, IdsInv
<1>2. CASE UNCHANGED <<setup, session, next_id>>
  BY <1>2, Zenon DEF SessionInv, IdsInv, Begun, Connections
<1>3. CASE Halted /\ UNCHANGED <<setup, next_id>>
  BY <1>3, HaltKeeps, Zenon
<1>4. ASSUME NEW c \in Connections, IpcAccept(c) PROVE SessionInv' /\ IdsInv'
  BY <1>1, <1>4, StepKeepsSessions, AcceptKeepsIds, Zenon
<1>5. ASSUME NEW c \in Connections, SessionStep(c) PROVE SessionInv' /\ IdsInv'
  <2>1. PICK s : StepsTo(c, s)
    BY <1>5, SessionSteps, Zenon
  <2>2. SameId(session[c], s) /\ session' = [session EXCEPT ![c] = s] /\ setup' = setup /\ next_id' = next_id
    BY <2>1, Zenon DEF StepsTo, IpcStep
  <2>. QED  BY <1>1, <1>5, <2>2, StepKeepsSessions, SameIdOne, Zenon
<1>. QED  BY <1>2, <1>3, <1>4, <1>5, NextSessions, Zenon DEF Sessions

LEMMA NextTakesTurns ==
  ASSUME SessionInv, IdsInv, [IpcNext]_ipcVars, NEW c \in Connections
  PROVE  Turn(session[c], session'[c])
<1>1. DOMAIN session = Connections /\ session[c] \in Session
  BY Zenon DEF SessionInv, Kept
<1>2. ASSUME session'[c] = session[c] PROVE Turn(session[c], session'[c])
  BY <1>2, Zenon DEF Turn
<1>3. ASSUME NEW d \in Connections, NEW s, session' = [session EXCEPT ![d] = s], Turn(session[d], s)
      PROVE  Turn(session[c], session'[c])
  <2>1. CASE c = d
    <3>1. session'[c] = s
      BY <1>1, <1>3, <2>1, Zenon
    <3>. QED  BY <1>3, <2>1, <3>1, Zenon
  <2>2. CASE c # d
    BY <1>1, <1>2, <1>3, <2>2, Zenon
  <2>. QED  BY <2>1, <2>2, Zenon
<1>4. CASE UNCHANGED <<setup, session, next_id>>
  BY <1>2, <1>4, Zenon
<1>5. CASE Halted /\ UNCHANGED <<setup, next_id>>
  BY <1>5, HaltKeeps, Zenon
<1>6. ASSUME NEW d \in Connections, IpcAccept(d) PROVE Turn(session[c], session'[c])
  <2>1. PICK id : id = next_id'
    BY Zenon
  <2>2. session' = [session EXCEPT ![d].at = "open", ![d].id = id, ![d].open_session = @ + 1]
    BY <1>6, <2>1, Zenon DEF IpcAccept
  <2>3. PICK r : r = session[d] /\ r \in Session
    BY Zenon DEF SessionInv, Kept
  <2>4. PICK s : s = [r EXCEPT !.at = "open", !.id = id, !.open_session = @ + 1]
    BY Zenon
  <2>5. session' = [session EXCEPT ![d] = s]
    BY <1>1, <2>2, <2>3, <2>4, Zenon
  <2>6. Turn(r, s)
    BY <2>3, <2>4, TakesTurn, Zenon
  <2>. QED  BY <1>3, <2>3, <2>5, <2>6, Zenon
<1>7. ASSUME NEW d \in Connections, SessionStep(d) PROVE Turn(session[c], session'[c])
  <2>1. PICK s : StepsTo(d, s)
    BY <1>7, SessionSteps, Zenon
  <2>. QED  BY <1>3, <2>1, Zenon DEF StepsTo, IpcStep
<1>. QED  BY <1>4, <1>5, <1>6, <1>7, NextSessions, Zenon DEF Sessions
-----------------------------------------------------------------------------
(* The properties. *)

LEMMA ReportedHolds == SessionInv /\ IdsInv => SessionsReported
<1>. SUFFICES ASSUME SessionInv, IdsInv PROVE SessionsReported
  OBVIOUS
<1>1. ASSUME NEW c \in Connections
      PROVE  Reported(session[c].at, session[c].open_session, session[c].close_session)
  BY Zenon DEF SessionInv, Kept
<1>2. ASSUME NEW c \in Connections, NEW d \in Connections, session[c].at = "open", session[d].at = "open", c # d
      PROVE  session[c].id # session[d].id
  <2>1. "open" \notin {"none", "backlog"}
    OBVIOUS
  <2>2. c \in Begun /\ d \in Begun
    BY <1>2, <2>1, Zenon DEF Begun
  <2>. QED  BY <1>2, <2>2, Zenon DEF IdsInv
<1>. QED  BY <1>1, <1>2, Zenon DEF SessionsReported, Reported

LEMMA IpcExchangeHolds == SetupsOK /\ SessionInv => IpcExchange
<1>. SUFFICES ASSUME SetupsOK, SessionInv, NEW c \in Connections
     PROVE  LET s == session[c]
                sent == Texts(setup.messages[c])
                responses == {i \in DOMAIN s.out : "response" \in DOMAIN s.out[i]}
                answered == {s.out[i].response : i \in responses}
            IN  /\ Len(s.handled) <= Len(sent) /\ s.handled = SubSeq(sent, 1, Len(s.handled))
                /\ Cardinality(s.running \union s.ready) <= client_buffer_size
                /\ \A i, j \in responses : s.out[i].response = s.out[j].response => i = j
                /\ answered \subseteq DOMAIN s.handled \ (s.running \union s.ready \union s.silent)
                /\ Subsequence(s.out, DOMAIN s.out \ responses) = [i \in 1 .. s.taken |-> [push |-> i]]
                /\ s.at = "finished" => s.handled = sent /\ answered \union s.silent = DOMAIN sent
  BY Zenon DEF IpcExchange
<1>. DEFINE s == session[c]
<1>1. Kept(s, setup.messages[c], setup.incoming_separator)
  BY Zenon DEF SessionInv
<1>2. /\ setup.incoming_separator \in Byte \union {Empty} /\ setup.messages[c] \in Seq(Seq(Byte))
      /\ Framed(setup.messages[c], setup.incoming_separator)
  BY SetupGives, Zenon DEF SessionInv
<1>3. /\ s.buf \in Seq(Byte) /\ s.wire \in Seq(Byte) /\ s.handled \in Seq(Seq(Byte))
      /\ Served(setup.messages[c], setup.incoming_separator, s.buf, s.wire, s.handled)
  BY <1>1, Zenon DEF Kept, Session
<1>4. WellServed(setup.messages[c], s.buf, s.wire, s.handled)
  BY <1>2, <1>3, ServedIs, Zenon
<1>5. s.at = "finished" => s.handled = Texts(setup.messages[c])
  BY <1>1, <1>4, Zenon DEF Kept, WellServed
<1>6. DOMAIN s.handled = 1 .. Len(s.handled)
  BY <1>3
<1>7. Placed(s.running, s.ready, s.silent, Answered(s.out), Len(s.handled))
  BY <1>1, Zenon DEF Kept
<1>8. Answered(s.out) \subseteq DOMAIN s.handled \ (s.running \union s.ready \union s.silent)
  BY <1>6, <1>7, Zenon DEF Placed
<1>9. s.at = "finished" => Answered(s.out) \union s.silent = DOMAIN Texts(setup.messages[c])
  <2>. SUFFICES ASSUME s.at = "finished" PROVE Answered(s.out) \union s.silent = DOMAIN Texts(setup.messages[c])
    OBVIOUS
  <2>1. s.running = {} /\ s.ready = {}
    BY <1>1, Zenon DEF Kept
  <2>2. Answered(s.out) \union s.silent = 1 .. Len(s.handled)
    BY <1>7, <2>1 DEF Placed
  <2>. QED  BY <1>5, <1>6, <2>2, Zenon
<1>10. Written(s.out, s.taken, s.use_strong)
  BY <1>1, Zenon DEF Kept
<1>11. /\ Len(s.handled) <= Len(Texts(setup.messages[c]))
       /\ s.handled = SubSeq(Texts(setup.messages[c]), 1, Len(s.handled))
       /\ Cardinality(s.running \union s.ready) <= client_buffer_size
       /\ \A i, j \in ResponsesAt(s.out) : s.out[i].response = s.out[j].response => i = j
       /\ Subsequence(s.out, DOMAIN s.out \ ResponsesAt(s.out)) = [i \in 1 .. s.taken |-> [push |-> i]]
  BY <1>4, <1>7, <1>10, Zenon DEF WellServed, Placed, Written
<1>. QED  BY <1>5, <1>8, <1>9, <1>11, Zenon DEF ResponsesAt, Answered

LEMMA ResponseFirstHolds == SessionInv /\ IdsInv /\ [IpcNext]_ipcVars => ResponseFirst
<1>. SUFFICES ASSUME SessionInv, IdsInv, [IpcNext]_ipcVars, NEW c \in Connections,
                     Len(session[c].out) > 0, "push" \in DOMAIN session[c].out[Len(session[c].out)],
                     Len(session'[c].out) > Len(session[c].out),
                     "push" \in DOMAIN session'[c].out[Len(session[c].out) + 1]
     PROVE  session[c].ready = {}
  BY Zenon DEF ResponseFirst
<1>1. PICK r, s : r = session[c] /\ s = session'[c] /\ Turn(r, s)
  BY NextTakesTurns, Zenon
<1>2. r \in Session /\ Written(r.out, r.taken, r.use_strong)
  BY <1>1, Zenon DEF SessionInv, Kept
<1>3. PICK out \in Seq(Items) : out = r.out
  BY <1>2, Zenon DEF Session
<1>4. r.use_strong
  <2>1. out # <<>> /\ Len(out) \in DOMAIN out /\ out[Len(out)] \in Items
    BY <1>1, <1>3
  <2>2. Len(out) \notin ResponsesAt(out)
    BY <1>1, <1>3, <2>1, ItemsAre, Zenon DEF ResponsesAt
  <2>. QED  BY <1>2, <1>3, <2>1, <2>2, Zenon DEF Written
<1>5. s.out # out
  BY <1>1, <1>3
<1>6. ASSUME NEW i, s.out = Append(out, [response |-> i]) PROVE FALSE
  <2>1. s.out[Len(out) + 1] = [response |-> i]
    BY <1>6, Len(out) \in Nat
  <2>2. "push" \notin DOMAIN [response |-> i]
    OBVIOUS
  <2>. QED  BY <1>1, <1>3, <2>1, <2>2, Zenon
<1>. QED  BY <1>1, <1>3, <1>4, <1>5, <1>6, Zenon DEF Turn

(***************************************************************************)
(* However sessions begin and end, and for any number of them below the    *)
(* number of ids, SessionStats see each opened once and closed once if it  *)
(* ended on its own, and open sessions have different ids.                 *)
(***************************************************************************)
THEOREM SessionsAreReported == ASSUME SetupsOK PROVE IpcSpec => []SessionsReported
<1>1. IpcInit => SessionInv /\ IdsInv
  BY SessionInit, IdsInit, Zenon
<1>2. SessionInv /\ IdsInv /\ [IpcNext]_ipcVars => SessionInv' /\ IdsInv'
  BY NextKeepsSessions, Zenon
<1>3. SessionInv /\ IdsInv => SessionsReported
  BY ReportedHolds
<1>. QED  BY <1>1, <1>2, <1>3, PTL DEF IpcSpec

(***************************************************************************)
(* Whatever the clients send in whatever pieces, each message is handled   *)
(* once, at most client_buffer_size at a time, and answered at most once;  *)
(* pushed messages are written in order; and a session that finished has   *)
(* answered every request that has a response.                             *)
(***************************************************************************)
THEOREM SessionsExchange == ASSUME SetupsOK PROVE IpcSpec => []IpcExchange
<1>1. IpcInit => SessionInv /\ IdsInv
  BY SessionInit, IdsInit, Zenon
<1>2. SessionInv /\ IdsInv /\ [IpcNext]_ipcVars => SessionInv' /\ IdsInv'
  BY NextKeepsSessions, Zenon
<1>3. SessionInv /\ IdsInv => IpcExchange
  BY IpcExchangeHolds, Zenon
<1>. QED  BY <1>1, <1>2, <1>3, PTL DEF IpcSpec

(***************************************************************************)
(* SelectWithWeak never writes two pushed messages in a row while there is *)
(* a response to write.                                                    *)
(***************************************************************************)
THEOREM SelectIsFair == ASSUME SetupsOK PROVE IpcSpec => ResponsesNotStarved
<1>1. IpcInit => SessionInv /\ IdsInv
  BY SessionInit, IdsInit, Zenon
<1>2. SessionInv /\ IdsInv /\ [IpcNext]_ipcVars => SessionInv' /\ IdsInv'
  BY NextKeepsSessions, Zenon
<1>3. SessionInv /\ IdsInv /\ [IpcNext]_ipcVars => [ResponseFirst]_ipcVars
  BY ResponseFirstHolds, Zenon
<1>. QED  BY <1>1, <1>2, <1>3, PTL DEF IpcSpec, ResponsesNotStarved
=============================================================================
