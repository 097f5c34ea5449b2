---------------------------- MODULE PrefixRelay ----------------------------
(***************************************************************************)
(* What one direction of a relay session promises (spec 3 and 4.3): the   *)
(* messages handed on to the far side are the first ones that arrived, in *)
(* arrival order, none twice and none skipped; a message that is held    *)
(* back is handed on later in one batch, and none is handed on past one   *)
(* still held; once the far side is closed nothing more is handed on, and *)
(* what arrives afterwards is lost.  When a message may be held is left   *)
(* open here.  Messages are their arrival numbers.                        *)
(***************************************************************************)
EXTENDS Naturals, Sequences

VARIABLES
  arrived,    \* number of messages that arrived from the near side
  delivered,  \* messages handed on to the far side, in order
  closed      \* the far side has been closed: it takes nothing more

\* The first n arrivals, in order.
Arrivals(n) == [i \in 1..n |-> i]

Init ==
  /\ arrived = 0
  /\ delivered = <<>>
  /\ closed = FALSE

\* A message arrives and is held back (or lost, if the far side is closed).
Hold ==
  /\ arrived' = arrived + 1
  /\ UNCHANGED <<delivered, closed>>

\* A message arrives and is handed on at once; only when nothing is held.
Pass ==
  /\ ~closed
  /\ delivered = Arrivals(arrived)
  /\ arrived' = arrived + 1
  /\ delivered' = Append(delivered, arrived + 1)
  /\ UNCHANGED closed

\* Everything held back is handed on, in order.
Release ==
  /\ ~closed
  /\ delivered' = Arrivals(arrived)
  /\ UNCHANGED <<arrived, closed>>

\* The far side is closed for good.
Close ==
  /\ ~closed
  /\ closed' = TRUE
  /\ UNCHANGED <<arrived, delivered>>

Next == Hold \/ Pass \/ Release \/ Close

Spec == Init /\ [][Next]_<<arrived, delivered, closed>>

=============================================================================
