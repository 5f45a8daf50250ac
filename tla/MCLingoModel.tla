---------------------------- MODULE MCLingoModel ----------------------------
(***************************************************************************)
(* Small scenarios for LingoModel: two products, up to two ingredients, a  *)
(* machine and up to one resource, with ids that are not their positions.  *)
(***************************************************************************)
EXTENDS LingoModel, TLC

MCIds == {2, 5}

Cells(S, v) == [c \in MCIds \X MCIds |-> IF c \in S THEN v ELSE 0]

\* The recipes take what is in Q of the ingredients; product 2 is made in lots of
\* 1 or 2 and product 5 one by one, on a machine, with a resource or none.
Catalog(ingredients, Q, resources) ==
    [products |-> MCIds,
     sale |-> (2 :> 3) @@ (5 :> 5), demand |-> (2 :> 2) @@ (5 :> 1),
     lo |-> [p \in MCIds |-> 1], hi |-> (2 :> 2) @@ (5 :> 1),
     have  |-> [ingredient |-> ingredients, machine |-> {5}, resource |-> resources],
     cost  |-> [ingredient |-> [e \in MCIds |-> IF e \in ingredients THEN e \div 2 ELSE 0],
                machine    |-> [e \in MCIds |-> 0],
                resource   |-> [e \in MCIds |-> IF e \in resources THEN 1 ELSE 0]],
     limit |-> [ingredient |-> [e \in MCIds |-> IF e \in ingredients THEN 2 ELSE 0],
                machine    |-> [e \in MCIds |-> IF e = 5 THEN 2 ELSE 0],
                resource   |-> [e \in MCIds |-> IF e \in resources THEN 1 ELSE 0]],
     cell  |-> [ingredient |-> Q,
                machine    |-> Cells({<<2, 5>>, <<5, 5>>}, 1),
                resource   |-> Cells({2} \X resources, 1)]]

\* One ingredient for both products, with a resource; two ingredients crossed,
\* without; a dense recipe; a product without recipe.
MCCatalogs ==
    {Catalog({5}, Cells(MCIds \X {5}, 1), {2}),
     Catalog({2, 5}, Cells({<<2, 5>>, <<5, 2>>}, 1), {}),
     Catalog({2, 5}, Cells({<<2, 2>>, <<2, 5>>, <<5, 5>>}, 1), {5}),
     Catalog({2}, Cells({<<5, 2>>}, 2), {})}

MCOrders == {o \in [max : {3}, variety : {1, 2}, binary : BOOLEAN] :
                o.binary \/ o.variety = 2}
=============================================================================
