------------------------------ MODULE MCAccounts ------------------------------
(***************************************************************************)
(* A small instance of Accounts: two containers, two clients, two demo       *)
(* tenants of which the first has an admin, a script that shares the first    *)
(* with the seed, one more address.                                         *)
(***************************************************************************)
EXTENDS Accounts, TLC

CONSTANTS alpha, beta, gamma, admin, eve, EVE, demo, other

MCSlugs == {alpha, beta, gamma}
MCEmails == {admin, eve, EVE}
MCNormalized == [e \in MCEmails |-> IF e = EVE THEN eve ELSE e]
MCPasswords == {demo, other}
MCSeedTenants == <<alpha, beta>>
MCSeedAccounts == <<[slug |-> alpha, email |-> admin, role |-> "ADMIN"],
                    [slug |-> beta, email |-> admin, role |-> "NORMAL"]>>
MCScriptTenants == <<alpha, beta>>
MCScriptAccounts == <<[slug |-> alpha, email |-> admin, role |-> "ADMIN"],
                      [slug |-> beta, email |-> eve, role |-> "NORMAL"]>>

Asks(kind, page, email, password, slug) ==
  [kind |-> kind, page |-> page, email |-> email, password |-> password, slug |-> slug,
   role |-> "ADMIN"]

MCRequests == {
  Asks("signup", FALSE, EVE, other, alpha), Asks("signup", TRUE, eve, demo, gamma),
  Asks("login", TRUE, eve, other, None), Asks("login", TRUE, admin, demo, None),
  Asks("create", FALSE, eve, demo, beta), Asks("create", FALSE, EVE, other, None),
  Asks("guest", FALSE, eve, demo, None), Asks("logout", TRUE, eve, demo, None) }

\* Clients are alike, and so are containers; only safety is checked.
Symmetry == Permutations(Clients) \cup Permutations(Containers)
=============================================================================
