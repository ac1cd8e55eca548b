------------------------------ MODULE MCSpiHid ------------------------------
(***************************************************************************)
(* Values for the constants of SpiHid that a configuration file cannot     *)
(* write: the requests the clients of each run may make.                   *)
(***************************************************************************)
EXTENDS SpiHid

GetRequests == [req : {"GET_FEATURE"}, id : Reports]

\* Reads of every report and a write of one.
FeatureRequests ==
  GetRequests \cup {[req |-> "SET_FEATURE", id |-> CHOOSE r \in Reports : TRUE]}

OutputRequests == [req : {"OUTPUT_REPORT"}, id : Reports]
NoRequests     == {}
=============================================================================
