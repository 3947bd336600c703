---- MODULE MCIsolationRun ----
EXTENDS IsolationRun

TwoClients == <<"fog", "httpx">>

MildAndSevere == {"valid", "needs-rerun"}
====
