------------------------------ MODULE MCOrders ------------------------------
(* Small instances of Orders. *)
EXTENDS Orders

OneCart == {<<"pro", TRUE>>}
Interchangeable == Permutations(OrderIds) \union Permutations(Requests)
=============================================================================
