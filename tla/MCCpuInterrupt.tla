--------------------------- MODULE MCCpuInterrupt ---------------------------
(* The instructions a run lets the CPU fetch.                              *)
EXTENDS CpuInterrupt

Ordinary == DOMAIN Table \ {"RMW"}
=============================================================================
