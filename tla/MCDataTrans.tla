---------------------------- MODULE MCDataTrans ----------------------------
(* Instance of DataTrans for TLC: up to three sessions of one object.       *)
EXTENDS DataTrans
=============================================================================
