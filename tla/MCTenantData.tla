---- MODULE MCTenantData ----
(* Small instances of TenantData for TLC: questions and data commands.        *)
EXTENDS TenantData

====
