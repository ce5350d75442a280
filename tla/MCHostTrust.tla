------------------------------ MODULE MCHostTrust ------------------------------
(***************************************************************************)
(* Two endpoints, two supported keys and one that is not, two trusts and a *)
(* session; known_hosts is empty or has a key for the first endpoint.      *)
(***************************************************************************)
EXTENDS HostTrust

CONSTANTS e1, e2, k1, k2, odd

MCFirstEntries == {{}, {<<e1, k1>>}}
================================================================================
