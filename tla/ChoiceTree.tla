------------------------------ MODULE ChoiceTree ------------------------------
(***************************************************************************)
(* The order in which the two bounded searches of the program visit their  *)
(* complete choices: visit of the scenario allocator and backtrack of the  *)
(* schedule optimizer. Both recurse over a list of groups and try the      *)
(* members of each group in a fixed order.                                 *)
(*                                                                         *)
(* A menu gives each group (a number) the ranks of its members (numbers in *)
(* the order they are tried). A path takes one rank of every group: a leaf *)
(* of the recursion. The recursion visits the paths in lexicographic order.*)
(***************************************************************************)
EXTENDS Integers

Least(S) == CHOOSE n \in S : \A m \in S : n <= m
Greatest(S) == CHOOSE n \in S : \A m \in S : m <= n

IsPath(path, menu) ==
  /\ path \in [DOMAIN menu -> Nat]
  /\ \A g \in DOMAIN menu : path[g] \in menu[g]

\* The lexicographic order, of paths and of the tuples the searches compare.
Earlier(path, other) ==
  \E g \in DOMAIN path :
    /\ path[g] < other[g]
    /\ \A h \in DOMAIN path : h < g => path[h] = other[h]

\* The leaf a recursion reaches first.
FirstPath(menu) == [g \in DOMAIN menu |-> Least(menu[g])]

\* What group g has left to try after a path, and the groups with something left.
Later(path, menu, g) == {rank \in menu[g] : path[g] < rank}
Open(path, menu) == {g \in DOMAIN menu : Later(path, menu, g) # {}}

\* The next leaf: the deepest open group moves on, the groups below it start again.
NextPath(path, menu) ==
  LET turn == Greatest(Open(path, menu))
  IN [g \in DOMAIN menu |-> CASE g < turn -> path[g]
                              [] g = turn -> Least(Later(path, menu, g))
                              [] g > turn -> Least(menu[g])]
=============================================================================
