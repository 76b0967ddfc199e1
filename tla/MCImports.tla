----------------------------- MODULE MCImports -----------------------------
(***************************************************************************)
(* Imports for TLC: a main file and the modules A, B and C, with every     *)
(* choice of the import statements below.                                  *)
(***************************************************************************)
EXTENDS Imports

CONSTANTS A, B, C, Gone,
          EmptyDirectories, Nested   \* whether there are import statements of these kinds

From(targets) == [targets |-> targets, names |-> << >>, loop |-> FALSE]
Only(name, target) == [targets |-> << target >>, names |-> << name >>, loop |-> FALSE]

UpTo(n, S) == UNION {[1 .. k -> S] : k \in 0 .. n}

\* "Binde alle Module aus ... ein" of the directory with A and B
MainImports ==
    {From(<< A >>), From(<< B >>), From(<< A, B >>), From(<< Gone >>), Only("x", A), Only("x", B)}
        \cup (IF EmptyDirectories THEN {From(<< >>)} ELSE {})
        \cup (IF Nested THEN {[From(<< A >>) EXCEPT !.loop = TRUE]} ELSE {})

MCNames == {"x", "y", "z", "own"}

Func(name, alias) == [name |-> name, alias |-> alias]
Var(name) == [name |-> name, alias |-> << >>]

\* an alias that begins like another one, the same alias, and the same name
DeclsOfB == {Func("y", << "f", "g" >>), Func("y", << "f" >>), Func("x", << "g" >>)}

MCPrograms ==
    {(Main :> [imports |-> main, decls |-> << own >>]) @@
     (A :> [imports |-> a, decls |-> << Func("x", << "f" >>) >>]) @@
     (B :> [imports |-> b, decls |-> << d >>]) @@
     (C :> [imports |-> c, decls |-> << Var("z") >>]) @@
     (Gone :> [imports |-> << >>, decls |-> << >>]) :
        main \in UpTo(2, MainImports),
        own \in {Var("own"), Func("own", << "f" >>)},
        a \in UpTo(1, {From(<< B >>), From(<< C >>), From(<< Main >>), From(<< Gone >>), Only("z", C)}),
        b \in UpTo(1, {From(<< A >>), From(<< C >>)}),
        c \in UpTo(1, {From(<< A >>)}),
        d \in DeclsOfB}
=============================================================================
