----------------------------- MODULE Variables -----------------------------
(***************************************************************************)
(* What the environment promises the rest of the shell: a partial function *)
(* from names to values, empty at first and changed one name at a time.    *)
(***************************************************************************)
CONSTANTS Name, Text      \* what a name and a value may be

VARIABLE bound            \* the value of each variable that is set

Init == DOMAIN bound = {}

Bind(f, n, v) == [m \in DOMAIN f \cup {n} |-> IF m = n THEN v ELSE f[m]]
Drop(f, n)    == [m \in DOMAIN f \ {n} |-> f[m]]

Changes(old, new) ==
    /\ old # new
    /\ \/ \E n \in DOMAIN old : new = Drop(old, n)
       \/ \E n \in DOMAIN new : n \in Name /\ new[n] \in Text /\ new = Bind(old, n, new[n])

Next == Changes(bound, bound')

Spec == Init /\ [][Next]_bound
=============================================================================
