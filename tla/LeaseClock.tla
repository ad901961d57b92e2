----------------------------- MODULE LeaseClock -----------------------------
(***************************************************************************)
(* One lease and the two clocks it is judged by, in store.py.  Deadlines   *)
(* are stored as ISO-8601 text.  _recover compares the texts, in SQL;      *)
(* _lease parses the text and compares instants.  isoformat leaves the     *)
(* fraction out when the microsecond is zero, and "Z" sorts after ".", so  *)
(* the two comparisons are not the same relation.  This module says by how *)
(* much they differ; the module WorkerPool lets a lease expire at any      *)
(* moment and needs no more than that.                                     *)
(***************************************************************************)
EXTENDS Integers, Sequences

CONSTANTS Micros,   \* microseconds in a second
          MaxSec,   \* bound: the last second of the instance
          TTLs      \* lease durations in seconds

ASSUME ClockAssumption ==
    /\ Micros \in Nat \ {0}
    /\ MaxSec \in Nat
    /\ TTLs \subseteq Nat \ {0}

Instant == [sec : Nat, us : 0..Micros-1]

\* Codes of the characters that may follow the seconds.
Dot == 46
Zed == 90

\* iso(dt).  The date and time down to the second have a fixed width, and so
\* has the fraction when it is printed: each is one number here.
Text(i) ==
    IF i.us = 0 THEN <<i.sec, Zed>> ELSE <<i.sec, Dot, i.us, Zed>>

\* The order of SQLite's <= on two texts, by their first difference.
TextLeq(a, b) ==
    \/ a = b
    \/ \E k \in DOMAIN a \cap DOMAIN b :
         /\ a[k] < b[k]
         /\ \A j \in 1..k-1 : a[j] = b[j]

\* The order of datetime, and so of parse_iso(a) <= parse_iso(b).
InstantLeq(a, b) ==
    \/ a.sec < b.sec
    \/ a.sec = b.sec /\ a.us <= b.us

VARIABLES now,       \* the wall clock
          deadline   \* the set of at most one deadline: lease_expires_at

clockVars == <<now, deadline>>

ClockInit ==
    /\ now \in [sec : {0}, us : 0..Micros-1]
    /\ deadline = {}

\* Variant: the texts are compared by their seconds only, one second late.
RecoverSeesLate(d) == d.sec + 1 < now.sec

\* lease_expires_at<=stamp, in _recover, for a deadline d.
RecoverSees(d) == TextLeq(Text(d), Text(now))

\* parse_iso(lease_expires_at) <= clock(), in _lease.
LeaseRefuses(d) == InstantLeq(d, now)

Tick ==
    /\ \E i \in [sec : 0..MaxSec, us : 0..Micros-1] :
         /\ InstantLeq(now, i)
         /\ now' = i
    /\ UNCHANGED deadline

\* A claim on a free task.
Grant ==
    /\ deadline = {}
    /\ \E ttl \in TTLs : deadline' = {[now EXCEPT !.sec = @ + ttl]}
    /\ UNCHANGED now

\* renew_lease, accepted by _lease.
Renew ==
    /\ \E d \in deadline : ~LeaseRefuses(d)
    /\ \E ttl \in TTLs : deadline' = {[now EXCEPT !.sec = @ + ttl]}
    /\ UNCHANGED now

\* _recover takes the lease away.
RecoverLease ==
    /\ \E d \in deadline : RecoverSees(d)
    /\ deadline' = {}
    /\ UNCHANGED now

ClockNext == Tick \/ Grant \/ Renew \/ RecoverLease

ClockSpec == ClockInit /\ [][ClockNext]_clockVars

-----------------------------------------------------------------------------
\* Type invariant: the clock and the deadlines are instants.
ClockTypeOK ==
    /\ now \in Instant
    /\ deadline \subseteq Instant

\* No lease is in limbo for a second or more: what _recover and what _lease
\* say of a deadline agrees unless the deadline is in the current second, so a
\* lease is taken away less than a second early and, once its holder is
\* refused, can be recovered less than a second later.
WithinOneSecond ==
    \A d \in deadline :
        (RecoverSees(d) # LeaseRefuses(d)) => d.sec = now.sec
=============================================================================
