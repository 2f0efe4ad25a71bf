------------------------------ MODULE MCBooks -------------------------------
(* Two devices, and a statement of three lines. *)
EXTENDS Books

CONSTANTS Phone, Laptop

MCDevices == {Phone, Laptop}
Symmetric == Permutations(MCDevices)

MCMaxMoves == [accounts |-> 2, categories |-> 2, settings |-> 2, rules |-> 1,
               import |-> 3, backup |-> 2]
MCRestore == [backup |-> 2]

Line(first, second, amount, payee, categoryName) ==
    [blank |-> FALSE, first |-> first, second |-> second, year |-> 2024,
     amount |-> amount, payee |-> payee, categoryName |-> categoryName]
MCStatement ==
    <<Line(2, 3, -40, "shop", Null), Line(3, 13, -7, "shop", "food"),
      Line(2, 3, -40, "shop", Null), Line(29, 2, 70, "old", Null)>>
=============================================================================
