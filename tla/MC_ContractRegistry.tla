------------------------ MODULE MC_ContractRegistry ------------------------
(* Three callers; one plain alias x (and, for the address-shaped alias     *)
(* case, A1 as an alias); three address-shaped names, enough for two      *)
(* registered contracts and a fresh deployment address.                   *)
EXTENDS ContractRegistry

CONSTANTS c1, c2, c3, x, A1, A2, A3

MCCaller == {c1, c2, c3}
MCNames == {x, A1, A2, A3}
MCAddrNames == {A1, A2, A3}
MCPlainAliases == {x}
MCAddrAliases == {x, A1}
MCStableKinds == {"call", "view", "estimate", "encode", "ether", "register", "remove", "create"}
MCRemoveKinds == {"call", "register", "remove"}
MCEtherKinds == {"ether", "register"}
MCCreateKinds == {"create", "register"}
=============================================================================
