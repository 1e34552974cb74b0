--------------------------- MODULE MCTxnProcessor ---------------------------
(***************************************************************************)
(* TxnProcessor with concrete requests.                                    *)
(***************************************************************************)
EXTENDS TxnProcessor

CONSTANTS a1, a2

RequestOf(kind, from) == [from |-> from, kind |-> kind, nonce |-> 0]

(* Requests that get a nonce, from one address.                            *)
SentRequests == {RequestOf(k, a1) : k \in {"managed", "nodeAssign"}}

(* Managed requests from two addresses, and from one of them those with a  *)
(* nonce (the next the node expects, or no integer) and those refused.     *)
TwoAddresses ==
  {RequestOf("managed", a) : a \in {a1, a2}}
    \cup {RequestOf(k, a1) : k \in {"rejected", "badNonce", "supplied"}}

OnlyManaged == {RequestOf("managed", a1)}

=============================================================================
