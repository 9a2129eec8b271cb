--------------------------- MODULE MessageStream ---------------------------
(***************************************************************************)
(* What the reception on USART1 promises its task: of the stream of bytes  *)
(* 1, 2, 3, ..., cut into messages where the line was idle, it gets whole  *)
(* messages, in order and each once, but for those that met a full queue.  *)
(* Once a message did not fit a frame, or was handled late, it promises    *)
(* nothing.                                                                *)
(***************************************************************************)
EXTENDS Naturals, Sequences

CONSTANT QueueDepth

VARIABLES
  bounds,  (* the last bytes of the messages that have come, and 0 *)
  seen,    (* the last byte of the message handled last            *)
  queue,   (* the messages that wait                               *)
  fits     (* all have fitted and were handled in time             *)

streamVars == <<bounds, seen, queue, fits>>

MessageTo(e) == [i \in 1 .. e - seen |-> seen + i]

Init == bounds = {0} /\ seen = 0 /\ queue = << >> /\ fits = TRUE

(* The last byte of a message. *)
Arrive ==
  /\ \E e \in bounds' : (\A b \in bounds : b < e) /\ bounds' = bounds \cup {e}
  /\ UNCHANGED <<seen, queue>>

(* The next message is queued, or dropped. *)
Handle ==
  /\ \E e \in bounds :
       /\ seen < e
       /\ \A b \in bounds : b <= seen \/ e <= b
       /\ seen' = e
       /\ queue' = IF Len(queue) < QueueDepth THEN Append(queue, MessageTo(e)) ELSE queue
  /\ UNCHANGED bounds

Take ==
  /\ queue # << >>
  /\ queue' = Tail(queue)
  /\ UNCHANGED <<bounds, seen>>

Next ==
  \/ ~fits'
  \/ fits /\ fits' /\ (Arrive \/ Handle \/ Take)

Spec == Init /\ [][Next]_streamVars
=============================================================================
