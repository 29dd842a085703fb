----------------------------- MODULE MCAccounts -----------------------------
(* Small instances of Accounts for TLC.                                    *)
EXTENDS Accounts, TLC

CONSTANTS root, bob, ops, loc, r1, r2, k1

\* the global role alone
GlobalForm   == <<[role |-> ops, scope |-> Global]>>
\* a role for one location, without and with a global one
LocationForm == <<[role |-> ops, scope |-> loc]>>
MixedForm    == <<[role |-> "viewer", scope |-> loc], [role |-> "admin", scope |-> Global]>>
\* two roles in one scope, which the portal's page does not submit
DoubleForm   == <<[role |-> "admin", scope |-> Global], [role |-> "viewer", scope |-> Global]>>
AllForms     == {GlobalForm, LocationForm, MixedForm, DoubleForm}

\* a custom role grants nothing or everything
TwoGrants == {{}, {"edit_users", "edit_roles"}}

\* bound: what overlapping requests have left is not followed beyond three of
\* them, or the command line and two, none with a form that is refused as if its
\* request had been aborted
Explored ==
  orderly \/ (asks <= 3 /\ \A r \in Requests : req[r].form # DoubleForm)

OneForAnother == Permutations({r1, r2})

=============================================================================
