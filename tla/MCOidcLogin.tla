----------------------------- MODULE MCOidcLogin -----------------------------
(* Small instances of OidcLogin for TLC.                                   *)
EXTENDS OidcLogin, TLC

CONSTANTS r1, r2, b1, b2, ann, bea, acme, corp, home, work, bob, sso

\* ann is known at acme, bea at corp, by the same sub; only ann has an address
Issuer  == [i \in Identities |-> IF i = ann THEN acme ELSE corp]
SameSub == [i \in Identities |-> 1]
Address == [i \in Identities |-> IF i = ann THEN home ELSE None]

\* bound: changes together with overlapping requests are followed up to three
\* requests, two changes only while nothing overlaps
Explored ==
  \/ asks + changes <= 4
  \/ orderly /\ overlapped = {} /\ Cardinality({r \in Requests : ~At(r, "idle")}) <= 1

OneForAnother == Permutations({r1, r2})

=============================================================================
