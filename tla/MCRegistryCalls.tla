-------------------------- MODULE MCRegistryCalls --------------------------
(***************************************************************************)
(* A small instance of RegistryCalls: two generations of two services and  *)
(* two clients, one of which may claim a publication's endpoint.           *)
(***************************************************************************)
EXTENDS RegistryCalls

MCPublications ==
    [registry : {1}, endpoint : {1, 2}, publication : {1, 2}, name : {1, 2},
     generation : {1, 2}, protocol : {1}, versions : {{1}}]

MCClients ==
    [registry : {1, 2}, endpoint : {2, 3}, client : {1, 2},
     scope : {"BootstrapMetadata"}]
=============================================================================
