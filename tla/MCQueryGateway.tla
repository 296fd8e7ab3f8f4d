---------------------------- MODULE MCQueryGateway ----------------------------
(* Two goroutines; requests that share cache keys, or almost, also by what    *)
(* their tenants are called, one for every early answer, and tokens of the    *)
(* first and of the second key.                                               *)
EXTENDS QueryGateway, TLC

CONSTANTS p1, p2

MCTimeText == <<"01Z", "02Z">>
MCUntranslated == {<<"down">>}

Symmetry == Permutations(Proc)

\* PromQL at an instant, signed by key k.
Instant(k, tenant) ==
  [lang |-> "promql", query |-> <<"up">>, start |-> 0, end |-> 0, step |-> "",
   normalize |-> FALSE, key |-> k, claim |-> tenant, header |-> NoTenant]

\* A lone start and a lone end, one cache key for two requests, which is also that of a
\* tenant with a bar; another tenant; a range; LogQL with bars in it, without a
\* translation, and with its range reversed; and what is refused early.
MCRequest ==
  {[Instant(1, <<"t1">>) EXCEPT !.start = 1],
   [Instant(2, NoTenant) EXCEPT !.end = 1, !.header = <<"t1">>],
   [Instant(2, NoTenant) EXCEPT !.header = <<"t1", "01Z">>],
   [Instant(2, <<"t2">>) EXCEPT !.end = 1],
   [Instant(1, <<"t1">>) EXCEPT !.start = 1, !.end = 2, !.step = "1m", !.normalize = TRUE],
   [Instant(1, <<"t1">>) EXCEPT !.lang = "logql", !.query = <<"up", "t1", "01Z">>,
                                !.start = 1, !.end = 2],
   [Instant(1, <<"t1">>) EXCEPT !.lang = "logql", !.query = <<"down">>,
                                !.start = 1, !.end = 2],
   [Instant(1, <<"t1">>) EXCEPT !.lang = "logql", !.start = 2, !.end = 1],
   [Instant(1, NoTenant) EXCEPT !.step = "x"],
   Instant(0, <<"t1">>)}
===============================================================================
