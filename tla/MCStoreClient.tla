---------------------------- MODULE MCStoreClient ----------------------------
(* Instances of StoreClient for TLC.  A submission puts its picture and a     *)
(* retry links it under a fresh id; requests that only look change nothing    *)
(* on either side but their caller, and are left out.                         *)
EXTENDS StoreClient

CONSTANTS source, fresh

MCRequests ==
  { [kind |-> "put", ref |-> source, from |-> source],
    [kind |-> "link", ref |-> fresh, from |-> source] }
=============================================================================
