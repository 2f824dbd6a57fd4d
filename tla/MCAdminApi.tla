---------------------------- MODULE MCAdminApi ----------------------------
(* A small instance of the admin API's parts for TLC. *)
EXTENDS AdminApi
=============================================================================
