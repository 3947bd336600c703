---- MODULE MCLoadEngine ----
EXTENDS LoadEngine

BothModes == {"async", "sync"}
====
