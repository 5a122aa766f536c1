--------------------------- MODULE MCTaskResponse ---------------------------
(* Who shares one response: two consumers of its stream, or a consumer and a
   caller of model(), or readers of the metrics
   and callers of model(), next() and stop(). *)
EXTENDS TaskResponse

CONSTANTS c1, c2, model, child, metrics, cached, stop

MCConsumers == {c1, c2}
MCModelCallers == {model}
MCNextCallers == {child}
MCMetricsCallers == {metrics, cached}
MCStopCallers == {stop}
MCUserGroups == {{c1, c2}, {c1, model}, {model, metrics, stop}, {metrics, cached, child}}
=============================================================================
