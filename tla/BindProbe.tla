------------------------------ MODULE BindProbe ------------------------------
(***************************************************************************)
(* Proof of routing: lock and verify read the proxy's probe counters, send *)
(* one probe per alias, read the counters again and judge the difference   *)
(* (_confirm_bind_aliases in cli/commands/lock.py; bind_probe and healthz  *)
(* in proxy/app.py).  Meanwhile the proxy may stop, restart with its       *)
(* counters at zero, give its port to another service, or be probed by     *)
(* somebody else.                                                          *)
(***************************************************************************)
EXTENDS Naturals, FiniteSets

CONSTANTS
    Probed,         \* aliases to confirm
    OtherAlias,     \* aliases only others probe
    TableSize,      \* bind_probe_aliases' cap on distinct aliases
    MaxTicks,       \* bound: probes counted by one proxy process
    MaxBounces      \* bound: changes of what listens on the port

ASSUME ProbeAssumption ==
    /\ IsFiniteSet(Probed \cup OtherAlias)
    /\ Probed \cap OtherAlias = {}
    /\ TableSize \in Nat
    /\ MaxTicks \in Nat
    /\ MaxBounces \in Nat

ProbeAlias == Probed \cup OtherAlias

Counters == [total : 0..MaxTicks, of : [ProbeAlias -> 0..MaxTicks], by_alias : BOOLEAN]

VARIABLES
    listener,       \* "proxy", an "old_proxy" without bind_probe_aliases,
                    \* a "stranger", or "nobody"
    counters,       \* app.state of the proxy
    judge,          \* where _confirm_bind_aliases is
    before,         \* its first reading
    to_probe,
    reached,        \* probes that got an answer
    verdict,
    bounced,        \* history: restarted since the first reading
    acked,          \* history: aliases counted since the first reading
    bounces

probeVars == <<listener, counters, judge, before, to_probe, reached, verdict,
               bounced, acked, bounces>>

Zero == [total |-> 0, of |-> [a \in ProbeAlias |-> 0], by_alias |-> listener = "proxy"]

ProbeTypeOK ==
    /\ listener \in {"proxy", "old_proxy", "stranger", "nobody"}
    /\ counters \in Counters
    /\ judge \in {"before", "probing", "after", "judged"}
    /\ before \in Counters
    /\ to_probe \subseteq Probed
    /\ reached \in 0..Cardinality(Probed)
    /\ verdict \in {"none", "pass", "fail", "skipped"}
    /\ bounced \in BOOLEAN
    /\ acked \subseteq ProbeAlias
    /\ bounces \in 0..MaxBounces

ProbeInit ==
    /\ listener \in {"proxy", "old_proxy", "stranger", "nobody"}
    /\ counters = Zero
    /\ judge = "before"
    /\ before = Zero
    /\ to_probe = Probed
    /\ reached = 0
    /\ verdict = "none"
    /\ bounced = FALSE
    /\ acked = {}
    /\ bounces = 0

-----------------------------------------------------------------------------
(* The proxy.                                                              *)

OurProxy == listener \in {"proxy", "old_proxy"}

\* bind_probe: an alias that is new when the table is full is not recorded.
Recorded(a) ==
    counters.of[a] > 0 \/ Cardinality({b \in ProbeAlias : counters.of[b] > 0}) < TableSize

Tick(a) ==
    /\ counters.total < MaxTicks
    /\ counters' = [counters EXCEPT !.total = @ + 1,
                                    !.of[a] = IF Recorded(a) THEN @ + 1 ELSE @]
    /\ acked' = IF Recorded(a) /\ judge # "before" THEN acked \cup {a} ELSE acked

\* Another lock, verify or doctor.
OtherProbes(a) ==
    /\ OurProxy
    /\ judge # "judged"
    /\ Tick(a)
    /\ UNCHANGED <<listener, judge, before, to_probe, reached, verdict, bounced, bounces>>

\* Its counters live in memory.
Bounce ==
    /\ judge # "judged"
    /\ bounces < MaxBounces
    /\ bounces' = bounces + 1
    /\ listener' \in {"proxy", "old_proxy", "stranger", "nobody"}
    /\ counters' = [Zero EXCEPT !.by_alias = listener' = "proxy"]
    /\ bounced' = (bounced \/ judge # "before")
    /\ acked' = {}
    /\ UNCHANGED <<judge, before, to_probe, reached, verdict>>

-----------------------------------------------------------------------------
(* The judge.                                                              *)

Judged(v) == judge' = "judged" /\ verdict' = v

\* Nothing to confirm, an unhealthy proxy, or one that does not show the
\* counter.
ReadBefore ==
    /\ judge = "before"
    /\ IF to_probe = {} \/ ~OurProxy
       THEN Judged("skipped") /\ UNCHANGED before
       ELSE before' = counters /\ judge' = "probing" /\ UNCHANGED verdict
    /\ UNCHANGED <<listener, counters, to_probe, reached, bounced, acked, bounces>>

\* _fire_synthetic_request: whoever answers, the request reached something.
Fire(a) ==
    /\ judge = "probing"
    /\ a \in to_probe
    /\ to_probe' = to_probe \ {a}
    /\ \/ /\ OurProxy
          /\ Tick(a)
          /\ reached' = reached + 1
       \/ /\ listener = "stranger"
          /\ reached' = reached + 1
          /\ UNCHANGED <<counters, acked>>
       \/ UNCHANGED <<counters, acked, reached>>    \* a network error
    /\ UNCHANGED <<listener, judge, before, verdict, bounced, bounces>>

FiredAll ==
    /\ judge = "probing"
    /\ to_probe = {}
    /\ judge' = "after"
    /\ UNCHANGED <<listener, counters, before, to_probe, reached, verdict,
                   bounced, acked, bounces>>

\* _classify_bind_per_alias
Silent == {a \in Probed : counters.of[a] <= before.of[a]}

\* Mutant: an alias that stands still passes.
PerAliasVerdictLenient ==
    IF counters.total < before.total THEN "skipped"
    ELSE IF Silent # Probed THEN "pass"
    ELSE IF reached = 0 THEN "skipped" ELSE "fail"

PerAliasVerdict ==
    IF counters.total < before.total THEN "skipped"
    ELSE IF Silent = {} THEN "pass"
    ELSE IF Silent = Probed /\ reached = 0 THEN "skipped" ELSE "fail"

\* An older proxy: the global counter only.
GlobalVerdict ==
    IF counters.total > before.total THEN "pass"
    ELSE IF counters.total < before.total \/ reached = 0 THEN "skipped" ELSE "fail"

JudgeBind ==
    /\ judge = "after"
    /\ Judged(IF ~OurProxy THEN "skipped"
              ELSE IF before.by_alias /\ counters.by_alias THEN PerAliasVerdict
              ELSE GlobalVerdict)
    /\ UNCHANGED <<listener, counters, before, to_probe, reached, bounced, acked, bounces>>

ProbeNext ==
    \/ \E a \in ProbeAlias : OtherProbes(a)
    \/ Bounce
    \/ ReadBefore
    \/ \E a \in Probed : Fire(a)
    \/ FiredAll
    \/ JudgeBind

ProbeSpec == ProbeInit /\ [][ProbeNext]_probeVars

-----------------------------------------------------------------------------
(* Properties.                                                             *)

ByAlias == before.by_alias /\ counters.by_alias

\* Where the proxy counts by alias, a pass means that every single alias's
\* probe was counted by the process that now answers: one alias's tick, an
\* earlier lock's or a dead process's never vouches for another.
PassIsPerAlias ==
    verdict = "pass" /\ ByAlias => Probed \subseteq acked

\* Without a restart in between, a fail means some alias's probe was not
\* counted.
FailIsASilence ==
    verdict = "fail" /\ ByAlias /\ ~bounced => ~(Probed \subseteq acked)

\* _confirm_bind_aliases says of each alias what the proxy did, and nothing more:
\* it neither vouches for an alias unheard nor blames one that was heard.
VerdictsTrue == PassIsPerAlias /\ FailIsASilence

=============================================================================
