------------------------------ MODULE Purchases ------------------------------
(***************************************************************************)
(* What the order code promises its buyers.  A purchase is placed, holding *)
(* part of the buyer's wallet; it is then voided, which returns exactly    *)
(* what it held, or paid and fulfilled once, which adds exactly its gain.  *)
(* A gift is born paid, what a code buys paid or fulfilled.  Nothing else  *)
(* touches the wallet.                                                     *)
(***************************************************************************)
EXTENDS Integers

CONSTANTS Ids, Users

VARIABLES
  phase,   \* where a purchase is in its life
  owner,   \* whose it is
  held,    \* what it took from the wallet when it was placed
  gain,    \* what it adds to the wallet when it is fulfilled
  wallet

vars == <<phase, owner, held, gain, wallet>>

Init ==
  /\ phase \in [Ids -> {"none", "fulfilled"}]
  /\ wallet \in [Users -> Nat]
  /\ held \in [Ids -> Nat] /\ gain \in [Ids -> Nat]
  /\ DOMAIN owner = Ids

Move(i, from, to) == phase[i] = from /\ phase' = [phase EXCEPT ![i] = to]

\* The terms of a purchase are agreed on when it is placed and never again.
Agree(i) ==
  /\ owner'[i] \in Users /\ owner' = [owner EXCEPT ![i] = owner'[i]]
  /\ held'[i] \in Nat    /\ held'  = [held  EXCEPT ![i] = held'[i]]
  /\ gain'[i] \in Nat    /\ gain'  = [gain  EXCEPT ![i] = gain'[i]]

Place(i) ==
  /\ Move(i, "none", "placed")
  /\ Agree(i)
  /\ wallet[owner'[i]] >= held'[i]
  /\ wallet' = [wallet EXCEPT ![owner'[i]] = @ - held'[i]]

Give(i) ==
  /\ Move(i, "none", "paid")
  /\ Agree(i)
  /\ held'[i] = 0
  /\ UNCHANGED wallet

Grant(i) ==
  /\ Move(i, "none", "fulfilled")
  /\ Agree(i)
  /\ held'[i] = 0
  /\ wallet' = [wallet EXCEPT ![owner'[i]] = @ + gain'[i]]

Void(i) ==
  /\ Move(i, "placed", "void")
  /\ wallet' = [wallet EXCEPT ![owner[i]] = @ + held[i]]
  /\ UNCHANGED <<owner, held, gain>>

Pay(i) ==
  /\ Move(i, "placed", "paid")
  /\ UNCHANGED <<owner, held, gain, wallet>>

Fulfil(i) ==
  /\ Move(i, "paid", "fulfilled")
  /\ wallet' = [wallet EXCEPT ![owner[i]] = @ + gain[i]]
  /\ UNCHANGED <<owner, held, gain>>

Next ==
  \E i \in Ids : Place(i) \/ Give(i) \/ Grant(i) \/ Void(i) \/ Pay(i) \/ Fulfil(i)

Spec == Init /\ [][Next]_vars
=============================================================================
