---------------------------- MODULE AccountRegistry ----------------------------
(***************************************************************************)
(* What the users table and the login routes promise together: an account,  *)
(* once enrolled, stays as it is, an address is enrolled at most once per    *)
(* tenant, and a session is handed to a client that has shown the address    *)
(* and the password of an enrolled account, or to a guest.                  *)
(*                                                                         *)
(* A session records what it names and what was shown to get it.             *)
(***************************************************************************)
CONSTANTS Clients, None

VARIABLES accounts, session

SameAddress(a, b) == a.tenant = b.tenant /\ a.email = b.email

Init == accounts = {} /\ session = [c \in Clients |-> None]

\* Any number of new accounts, none with an address that is taken.
Enroll ==
  /\ accounts \subseteq accounts'
  /\ \A a \in accounts' \ accounts, b \in accounts' : SameAddress(a, b) => a = b
  /\ UNCHANGED session

SignIn(c) ==
  /\ \E a \in accounts :
       session' = [session EXCEPT ![c] = [sub |-> a.id, tenant |-> a.tenant,
                                          email |-> a.email, password |-> a.password]]
  /\ UNCHANGED accounts

\* A guest's session names no account.
Visit(c) ==
  /\ session'[c] # None
  /\ session'[c].sub = 0
  /\ session' = [session EXCEPT ![c] = session'[c]]
  /\ UNCHANGED accounts

SignOut(c) == session' = [session EXCEPT ![c] = None] /\ UNCHANGED accounts

Next == Enroll \/ \E c \in Clients : SignIn(c) \/ Visit(c) \/ SignOut(c)

Spec == Init /\ [][Next]_<<accounts, session>>
=============================================================================
