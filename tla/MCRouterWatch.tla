---------------------------- MODULE MCRouterWatch ----------------------------
(***************************************************************************)
(* An instance of RouterWatch for TLC: two addresses, two processes.       *)
(***************************************************************************)
EXTENDS RouterWatchProps

CONSTANTS ip1, ip2, watcher, other

===============================================================================
