----------------------------- MODULE MCSupervisor -----------------------------
(* Supervisor for TLC: liveness is checked, so the feeds are not symmetric.  *)
EXTENDS Supervisor
====
