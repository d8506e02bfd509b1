---- MODULE MCHandoff ----
EXTENDS ApplicationHandoff
====
