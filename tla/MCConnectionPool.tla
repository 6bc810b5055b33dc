--------------------------- MODULE MCConnectionPool ---------------------------
(* Instances of ConnectionPool for TLC: the requests loadAll of App.vue     *)
(* makes at the same time, and the container's health check.                *)
EXTENDS ConnectionPool

CONSTANTS dashboard1, products1, batches1, dashboard2, products2, batches2, todos, healthz

(* Every handler behind a session runs authenticate's query first. *)
Handler(r) ==
    CASE r \in {dashboard1, dashboard2} -> <<"query", "rows", "rows", "query">>
      [] r \in {products1, batches1, products2, batches2} -> <<"query", "rows">>
      [] r = todos -> <<"query", "query">>
      [] r = healthz -> <<"query">>

Handlers == [r \in Requests |-> Handler(r)]
=============================================================================
