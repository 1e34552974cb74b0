-------------------------- MODULE MCRestToEthereum --------------------------
(* Instances of RestToEthereum for TLC.                                    *)
EXTENDS RestToEthereum, TLC

CONSTANTS r1, r2

(* A contract of the earlier format that has the name n2.                  *)
Legacy3 == 3 :> [abi |-> "i1", name |-> "n2"]

Ask1(op, by, sync, addr, name, newAbi) ==
  [op |-> op, by |-> by, sync |-> sync, abi |-> "i1", addr |-> addr, name |-> name,
   newAbi |-> newAbi]

(* An asynchronous and a synchronous deployment and a registration compete *)
(* for the name n1, the last for the contract that has n2, or two clients  *)
(* register that contract at once; there may be a request of another kind  *)
(* in the place of the second.                                             *)
Asked ==
  r1 :> {Ask1("deploy", "abi", FALSE, 1, "n1", "i2"),
         Ask1("register", "abi", TRUE, 3, "n1", "i3")} @@
  r2 :> {Ask1("deploy", "abi", TRUE, 2, "n1", "i3"),
         Ask1("register", "abi", TRUE, 3, "n1", "i3"),
         Ask1("register", "abi", TRUE, 3, NoName, "i3"),
         Ask1("addABI", "abi", TRUE, 3, "n1", "i3"),
         Ask1("get", "name", TRUE, 3, "n2", "i3"),
         Ask1("get", "remote", TRUE, 3, "n2", "i3"),
         Ask1("call", "name", TRUE, 3, "n2", "i3"),
         Ask1("send", "addr", FALSE, 3, "n2", "i3"),
         Ask1("deploy", "remote", TRUE, 3, "n2", "i3")}

=============================================================================
