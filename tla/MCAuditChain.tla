---------------------------- MODULE MCAuditChain ----------------------------
(* Model-checking instance of AuditChain: see audit_chain.cfg.             *)
EXTENDS AuditChain
=============================================================================
