------------------------------ MODULE Mailbox ------------------------------
(***************************************************************************)
(* What one direction of the client's handoff between its main thread and  *)
(* its data thread promises (client/viewback_data.cpp): a first-in         *)
(* first-out queue.  Items are put at the back, taken from the front, and  *)
(* neither lost, repeated nor reordered, except that opening a new         *)
(* connection may discard what waits at the front of the queue.            *)
(***************************************************************************)
EXTENDS Naturals, Sequences

VARIABLES
  given,    \* what was put since the connection was opened, in order
  queue,    \* what was put and not taken yet
  taken     \* what was taken since the connection was opened, in order

Init ==
  /\ given = << >>
  /\ queue = << >>
  /\ taken = << >>

(* Some items join the back of the queue. *)
Put ==
  /\ Len(given') > Len(given)
  /\ given' = given \o SubSeq(given', Len(given) + 1, Len(given'))
  /\ queue' = queue \o SubSeq(given', Len(given) + 1, Len(given'))
  /\ UNCHANGED taken

(* The first n items of the queue are taken, in order. *)
Take == \E n \in 1 .. Len(queue) :
  /\ taken' = taken \o SubSeq(queue, 1, n)
  /\ queue' = SubSeq(queue, n + 1, Len(queue))
  /\ UNCHANGED given

(* A new connection: the records start again, and the items at the front   *)
(* of the queue may be discarded.                                          *)
Reopen == \E n \in 0 .. Len(queue) :
  /\ queue' = SubSeq(queue, n + 1, Len(queue))
  /\ given' = queue'
  /\ taken' = << >>

Next == Put \/ Take \/ Reopen

Spec == Init /\ [][Next]_<<given, queue, taken>>
=============================================================================
