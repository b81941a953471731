------------------------------ MODULE WsClient ------------------------------
(***************************************************************************)
(* WebsocketClient, the sink and stream between duplex and the websocket.  *)
(* Both halves run in one task.  Around it are two adapters of the futures *)
(* library (external): SplitSink holds one request in a slot and passes it *)
(* on by poll_ready and start_send under one lock; Compat01As03Sink holds  *)
(* one message in a buffer, which its poll_ready and poll_flush hand to    *)
(* the websocket and its start_send overwrites.                            *)
(***************************************************************************)
EXTENDS Naturals, Sequences, SequencesExt

CONSTANTS MaxRequests, MaxControls  \* bounds: requests sent, Pings and Closes received

VARIABLES
  slot,      \* SplitSink: the request to pass on, as a sequence of at most one
  queue,     \* WebsocketClient::queue
  buffer,    \* Compat01As03Sink: the message to hand over, at most one
  sent,      \* messages the websocket has taken
  requests,  \* requests duplex has sent
  controls,  \* Pings and Closes received
  state      \* open, ended (the stream), closed (the sink), failed

vars == <<slot, queue, buffer, sent, requests, controls, state>>

Text(i) == [kind |-> "Text", number |-> i]
Control(kind, i) == [kind |-> kind, number |-> i]

(* do_connect and WebsocketClient::new. *)
Init ==
  /\ slot = <<>> /\ queue = <<>> /\ buffer = <<>> /\ sent = <<>>
  /\ requests = 0 /\ controls = 0
  /\ state = "open"

(***************************************************************************)
(* try_empty_buffer on a queue that is not empty: the websocket takes n of *)
(* the messages, the next one is in the buffer and the others stay queued. *)
(* It is Ready when none stays.                                            *)
(***************************************************************************)
Emptied(n) ==
  LET all == buffer \o queue
  IN  [sent |-> sent \o SubSeq(all, 1, n), buffer |-> <<all[n + 1]>>,
       queue |-> SubSeq(all, n + 2, Len(all))]

Take(e) == sent' = e.sent /\ buffer' = e.buffer /\ queue' = e.queue

(* duplex sends a request: the slot is free. *)
Send ==
  /\ state \in {"open", "ended"} /\ slot = <<>> /\ requests < MaxRequests
  /\ requests' = requests + 1
  /\ slot' = <<Text(requests')>>
  /\ UNCHANGED <<queue, buffer, sent, controls, state>>

(* start_send after poll_ready, which left things as in e. *)
start_send(request, e) ==
  Take(IF e.queue = <<>> THEN [e EXCEPT !.buffer = <<request>>]
       ELSE [e EXCEPT !.queue = Append(@, request)])

(* poll_ready with an empty queue is that of the sink below. *)
PassOn ==
  /\ state \in {"open", "ended"} /\ slot # <<>> /\ queue = <<>>
  /\ start_send(slot[1], [sent |-> sent \o buffer, buffer |-> <<>>, queue |-> <<>>])
  /\ slot' = <<>>
  /\ UNCHANGED <<requests, controls, state>>

(* poll_ready with messages queued: Ready, however many are left. *)
PassOnQueued ==
  /\ state \in {"open", "ended"} /\ slot # <<>> /\ queue # <<>>
  /\ \E n \in 0 .. Len(buffer \o queue) - 1 : start_send(slot[1], Emptied(n))
  /\ slot' = <<>>
  /\ UNCHANGED <<requests, controls, state>>

(* poll_flush and poll_close: Pending with messages left, or all are taken. *)
Drain(after) ==
  /\ state \in {"open", "ended"} /\ slot = <<>>
  /\ \/ /\ queue # <<>>
        /\ \E n \in 0 .. Len(buffer \o queue) - 1 : Take(Emptied(n))
        /\ UNCHANGED state
     \/ /\ Take([sent |-> sent \o buffer \o queue, buffer |-> <<>>, queue |-> <<>>])
        /\ state' = after
  /\ UNCHANGED <<slot, requests, controls>>

poll_flush == Drain(state)
poll_close == Drain("closed")

(* poll_next: Text and Binary leave the sink alone, and so does Pong. *)
poll_next ==
  /\ state = "open"
  /\ \/ /\ controls < MaxControls
        /\ \E kind \in {"Pong", "Close"} : queue' = <<Control(kind, controls + 1)>> \o queue
        /\ controls' = controls + 1
        /\ UNCHANGED state
     \/ /\ state' = "ended"
        /\ UNCHANGED <<queue, controls>>
  /\ UNCHANGED <<slot, buffer, sent, requests>>

(* The websocket reports an error: duplex ends. *)
Fail ==
  /\ state \in {"open", "ended"}
  /\ state' = "failed"
  /\ UNCHANGED <<slot, queue, buffer, sent, requests, controls>>

Next == Send \/ PassOn \/ PassOnQueued \/ poll_flush \/ poll_close \/ poll_next \/ Fail

Spec == Init /\ [][Next]_vars
-----------------------------------------------------------------------------
(***************************************************************************)
(* "adds an unbounded queue for when the underlying sink is incapable of   *)
(* receiving more items": every request given to the sink is, in order,    *)
(* with the websocket or still to be handed over.                          *)
(***************************************************************************)
RequestsKept ==
  LET texts == SelectSeq(sent \o buffer \o queue \o slot, LAMBDA m : m.kind = "Text")
  IN  texts = [i \in 1 .. requests |-> Text(i)]
=============================================================================
