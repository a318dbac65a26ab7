----------------------------- MODULE MCHumanDesk -----------------------------
(* Model checking of HumanDesk: a bound that keeps its three parts from being *)
(* multiplied with each other.                                               *)
EXTENDS HumanDesk

Audited == FoldSet(LAMBDA t, n : n + Len(ticket[t].audit), 0, Tickets)

\* Tickets, reviews and a listing meet in the rows of tickets only: the
\* approval of a review adds one, as CreateTicket does.  So a long audit, rich
\* material and a listing need not come together.
DeskBound ==
  /\ listing # None => Audited <= 3 /\ \A r \in Review : review[r] = None
  /\ \A r \in Review : review[r] # None /\ Version(r) > 0 => Audited = 0
  /\ Audited <= MaxAudit
=============================================================================
