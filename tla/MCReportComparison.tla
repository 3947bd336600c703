------------------------- MODULE MCReportComparison -------------------------
(* Two clients for a suite, one for attribution; the names order them as the *)
(* canonical order of rows does.  A profile knows only foghttp and httpx.    *)
EXTENDS ReportComparison

ClientNames == <<"aiohttp", "foghttp", "httpx", "zapros-pyreqwest">>
SelectedClients ==
    [su \in Suites |-> {"foghttp"} \cup (IF su = "requests" THEN {"zapros-pyreqwest"}
                                         ELSE IF su = "lifecycle" THEN {"httpx"}
                                         ELSE IF su = "attribution" THEN {} ELSE {"aiohttp"})]

(* Two runs of a case vary; attribution asks for three.                     *)
RepeatsOfSuites ==
    [su \in Suites |-> IF su \in Research THEN 3 ELSE IF su = "resource" THEN 2 ELSE 1]
=============================================================================
