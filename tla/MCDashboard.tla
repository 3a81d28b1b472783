---------------------------- MODULE MCDashboard ----------------------------
\* The constants of Dashboard for TLC: two queues with a job each.
EXTENDS Dashboard

OneJobEach == [e1 |-> "emails", r1 |-> "reports"]
=============================================================================
