------------------------------ MODULE MCSpool ------------------------------
(* Captures for the model checker: the first is replaced by others that    *)
(* keep, shift, split, grow, shrink or drop records.                       *)
EXTENDS Spool

CONSTANTS c1, c2, c3, orders, users

Event(sid, ts, db, size, write) ==
    [type |-> "event", session |-> sid, ts |-> ts, db |-> db, user |-> None,
     size |-> size, write |-> write]

Header == [type |-> "header", supported |-> TRUE]
OldHeader == [type |-> "header", supported |-> FALSE]
Summary(n) == [type |-> "summary", events |-> n]

Whole(events) == <<Header>> \o events \o <<Summary(Len(events))>>

\* Two sessions interleaved, their first timestamps out of order; one event
\* lies on the excluded end of the window, one is in another database.
Base == <<Event(c1, 3, orders, 2, FALSE), Event(c2, 2, orders, 3, TRUE),
          Event(c1, 4, orders, 1, TRUE), Event(c2, 5, orders, 2, FALSE),
          Event(c1, 1, users, 2, FALSE), Event(c1, 3, orders, 1, TRUE)>>

CaptureFiles ==
    { Whole(Base),
      \* the same bytes per session, as other records
      Whole(<<Event(c2, 2, orders, 1, TRUE), Event(c1, 3, orders, 4, TRUE),
              Event(c2, 2, orders, 2, FALSE)>>),
      \* the first session grows into the second one's region
      Whole(<<Event(c1, 3, orders, 5, FALSE), Event(c2, 2, orders, 3, TRUE)>>),
      \* the same total, shifted from one session to the other
      Whole(<<Event(c1, 3, orders, 3, FALSE), Event(c2, 2, orders, 4, TRUE)>>),
      \* a session that pass A did not see
      Whole(<<Event(c3, 3, orders, 2, FALSE), Event(c1, 2, orders, 4, FALSE)>>),
      \* nothing left after the filters, no events at all
      Whole(<<Event(c1, 9, orders, 2, FALSE)>>),
      Whole(<<>>),
      \* truncated, inconsistent and unsupported captures
      <<Header>> \o Base,
      <<Header>> \o Base \o <<Summary(2)>>,
      Base \o <<Summary(Len(Base))>>,
      <<Header>> \o Base \o <<[type |-> "malformed"]>>,
      <<OldHeader>> \o Base \o <<Summary(Len(Base))>> }
=============================================================================
