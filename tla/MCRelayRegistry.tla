-------------------------- MODULE MCRelayRegistry --------------------------
(***************************************************************************)
(* Small instances of RelayRegistry.  One run checks several sizes: a      *)
(* behaviour uses the installations, sessions and proxies of one of them,  *)
(* and the others stay as they are in Init.                                *)
(***************************************************************************)
EXTENDS RelayRegistry, TLC

CONSTANTS i1, i2, s1, s2, s3, p1, p2

VARIABLE size

Size(installations, sessions, requests) ==
    [installations |-> installations, sessions |-> sessions, requests |-> requests]

Sizes == {Size({i1}, {s1, s2}, {p1, p2}),
          Size({i1}, {s1, s2, s3}, {p1}),
          Size({i1, i2}, {s1, s2}, {p1})}

SizedInit == Init /\ size \in Sizes

SizedNext ==
    /\ UNCHANGED size
    /\ Next
    /\ revoked' \subseteq size.installations
    /\ \A s \in Sessions :
          /\ inst'[s] \in size.installations \cup {None}
          /\ s \notin size.sessions => sess'[s] = "new"
    /\ \A p \in Proxies \ size.requests : proxy'[p] = "new"

SizedSpec == SizedInit /\ [][SizedNext]_<<vars, size>> /\ Fairness
=============================================================================
