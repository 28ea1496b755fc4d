---------------------------- MODULE MCDeployment ----------------------------
(* Two processes.  Two Telegram accounts: one client can fail while another  *)
(* is connected.  One key: the rows of two keys have nothing in common.      *)
EXTENDS Deployment

MCAccounts == 1 .. 2
MCKeys == <<"backup.retain_count">>
=============================================================================
