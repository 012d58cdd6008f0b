------------------------- MODULE MCRegistryService -------------------------
(***************************************************************************)
(* Small instances of RegistryService: two generations of one service, a   *)
(* second service, and two clients of which one may enumerate.             *)
(***************************************************************************)
EXTENDS RegistryService

MCPublication(e, n, g, r) ==
    [registry |-> r, endpoint |-> e, publication |-> e, name |-> n,
     generation |-> g, protocol |-> 1, versions |-> {1}]

MCClient(e, s, r) == [registry |-> r, endpoint |-> e, client |-> e, scope |-> s]

MCPublications ==
    {MCPublication(1, 1, 1, 1), MCPublication(2, 1, 2, 1), MCPublication(3, 2, 1, 1)}

MCServices == {MCPublication(1, 1, 1, 1), MCPublication(2, 2, 1, 1)}

MCClients == {MCClient(4, "BootstrapMetadata", 1), MCClient(5, "None", 1)}
=============================================================================
