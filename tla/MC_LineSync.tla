------------------------------ MODULE MC_LineSync ------------------------------
(* LineSync for TLC: two lines, their templates and how these may be set up. *)
EXTENDS LineSync, TLC

CONSTANTS l1, l2, r1, r2, i1, i2, t1, t2, t3

\* The first line is linked to t1, the second to t1 and t2; both have the
\* parent t3.
LinkedTo == [l \in Line |-> IF l = l1 THEN <<t1>> ELSE <<t1, t2>>]
ParentsOf == [t \in Template |-> IF t = t3 THEN << >> ELSE <<t3>>]

Set(r, i) == [router |-> r, interval |-> i]

\* t3 sets an interval, t2 may set another, which only the second line gets,
\* and the second line's own router macro may be there or not.
Config(global, base, near, own, listed, failing) ==
  [listed |-> listed, global |-> Set(global, Malformed),
   template |-> [t \in Template |-> IF t = t3 THEN Set(Unset, base)
                                    ELSE IF t = t2 THEN Set(Unset, near) ELSE NoMacros],
   host |-> [l \in Line |-> IF l = l2 THEN Set(own, Unset) ELSE NoMacros],
   failing |-> failing]

\* Both lines on the first router, the second one at either interval, or on
\* the other router.
Shared ==
  {Config(r1, i1, Unset, Unset, S, {}) : S \in {{}, {l1}}}
    \cup {Config(r1, i1, v[1], v[2], S, {}) :
            v \in {<<Unset, Unset>>, <<i2, Unset>>, <<Unset, r2>>}, S \in {{l2}, {l1, l2}}}

\* The first line has no router; the second one changes its interval and
\* moves between the routers; its template may be out of reach.
Moving ==
  {Config(Unset, i1, Unset, Unset, S, {}) : S \in {{}, {l1}}}
    \cup {Config(Unset, i1, v[1], v[2], S, {}) :
            v \in {<<Unset, r1>>, <<i2, r1>>, <<Malformed, Unset>>},
            S \in {{l2}, {l1, l2}}}
    \cup {Config(Unset, i1, i2, r1, {l1, l2}, {t2})}
================================================================================
