---------------------------- MODULE NameRegistry ----------------------------
(***************************************************************************)
(* What the smart contract gateway promises about the names contracts are  *)
(* registered under, as far as its storage directory shows them: a name    *)
(* has one contract at a time, and passes from one contract to another     *)
(* only by being free in between.                                          *)
(***************************************************************************)
CONSTANTS
  Name,    \* the names
  Addr,    \* the addresses of contracts
  NoAddr   \* no contract

VARIABLE
  owner    \* owner[n]: the contract named n, or NoAddr

Init == owner = [n \in Name |-> NoAddr]

Claim(n, a) ==
  /\ owner[n] = NoAddr
  /\ owner' = [owner EXCEPT ![n] = a]

Release(n) == owner' = [owner EXCEPT ![n] = NoAddr]

(* A contract gives up the name m for the name n.                          *)
Rename(m, n) ==
  /\ owner[m] # NoAddr /\ owner[n] = NoAddr
  /\ owner' = [owner EXCEPT ![m] = NoAddr, ![n] = owner[m]]

Next ==
  \/ \E n \in Name : Release(n) \/ \E a \in Addr : Claim(n, a)
  \/ \E m, n \in Name : Rename(m, n)

Spec == Init /\ [][Next]_owner

=============================================================================
