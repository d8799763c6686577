----------------------------- MODULE MCDevices ------------------------------
(* Small instances of Devices for TLC. *)
EXTENDS Devices, TLC

CONSTANTS d1, d2, d3, phone, tablet

\* d1 and d2 are two profiles of one phone, as the releases before left them; d3
\* is the id a tablet will be given.
Belongs  == (d1 :> phone) @@ (d2 :> phone) @@ (d3 :> tablet)
Bindings == (d1 :> "on") @@ (d2 :> "off") @@ (d3 :> "none")
Profiles == (d1 :> "on") @@ (d2 :> "off") @@ (d3 :> "none")

Interchangeable == Permutations(Procs)
=============================================================================
