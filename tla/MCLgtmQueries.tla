---------------------------- MODULE MCLgtmQueries ----------------------------
(* A finite instance of LgtmQueries. *)
EXTENDS LgtmQueries, TLC

Point(m, k, t) == [metric |-> m, kind |-> k, time |-> t]

\* Two stored names that are one PromQL name, one of them under two kinds, and a third.
MCQueryName == ("http.requests" :> "http_requests") @@ ("http_requests" :> "http_requests")
                 @@ ("rpc.time" :> "rpc_time")
MCSamples == {Point("http.requests", "sum", 1), Point("http.requests", "sum", 2),
              Point("http.requests", "gauge", 2), Point("http_requests", "gauge", 1),
              Point("rpc.time", "histogram", 2)}

Span(tr, t) == [trace |-> tr, time |-> t]
MCSpans     == {Span("a", 1), Span("a", 2), Span("b", 2)}

\* Either time alone, both, and an empty window, which is refused.
MCWindows == {<<1, 1>>, <<2, 2>>, <<1, 2>>, <<2, 1>>}

MCLimits == {-1, 0, 1}
MCSteps  == {-1, 0, 1}
==============================================================================
