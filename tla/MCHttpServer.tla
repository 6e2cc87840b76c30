---------------------------- MODULE MCHttpServer ----------------------------
(* Small instances of HttpServer for TLC.                                  *)
EXTENDS HttpServer

Ask(m, p) == [method |-> m, path |-> p, query |-> FALSE, fits |-> TRUE]

\* One request of each kind the handlers tell apart: a page, one query, a query
\* per crack, two that write, one with the wrong method, one with a query
\* string, one with a number that does not fit.
SomeRequests == {
    Ask("GET", <<>>),
    Ask("GET", <<"api", "porcelains", "id", "cracks">>),
    Ask("POST", <<"api", "cracks", "id", "predict">>),
    Ask("GET", <<"api", "cracks", "id", "predict">>),
    Ask("POST", <<"api", "alerts", "id", "acknowledge">>),
    [Ask("GET", <<"api", "porcelains">>) EXCEPT !.query = TRUE],
    [Ask("GET", <<"api", "porcelains", "id">>) EXCEPT !.fits = FALSE]}
=============================================================================
