-------------------------- MODULE MCConstFuncParam --------------------------
(***************************************************************************)
(* Two functions f and g with two parameters each and an extern function   *)
(* e: all programs in which f has one statement and g up to two, with f    *)
(* declared in front of g, forward declared and defined after g, or        *)
(* generic and instantiated by g.  f and g may also overload an operator.  *)
(***************************************************************************)
EXTENDS ConstFuncParam

MCFunc == {"e", "f", "g"}
MCParam == {"a", "b"}
MCRefParam == {<<"e", "a">>, <<"f", "a">>, <<"f", "b">>, <<"g", "a">>}
MCNoVar == <<"none", "none">>

Decl(h) == [k |-> "decl", f |-> h, unseen |-> {}]
Def(h) == [k |-> "def", f |-> h]

Assigns(h) == {[k |-> "assign", in |-> h, x |-> x] : x \in Vars(h)}
Call(h, c, x, y) == [k |-> "call", in |-> h, f |-> c, args |-> [a |-> x, b |-> y]]
Op(h, c, x, y) == [Call(h, c, x, y) EXCEPT !.k = "op"]
Nodes(h) ==
  LET args == Vars(h) \cup {MCNoVar}
  IN  Assigns(h) \cup {Call(h, c, x, y) : c \in {"f", "g"}, x \in args, y \in args}
        \cup {Call(h, "e", x, MCNoVar) : x \in args}
        \cup {Op(h, "f", x, MCNoVar) : x \in args} \cup {Op(h, "g", MCNoVar, x) : x \in Vars(h)}

gBody == {<<n>> : n \in Nodes("g")} \cup (Nodes("g") \X Nodes("g"))

(* A call of f outside of all functions. *)
TopLevel == <<Call("top", "f", MCNoVar, MCNoVar)>>

(* n is the body of f, y that of g. *)
Program(shape, n, y) ==
  CASE shape = "ordered" -> <<Decl("f"), n, Decl("e")>> \o TopLevel \o <<Decl("g")>> \o y
    [] shape = "forward" -> <<Decl("e"), Decl("f"), Decl("g")>> \o y \o <<Def("f"), n>>
    [] shape = "generic" -> <<Decl("e"), [Decl("f") EXCEPT !.unseen = {n}], Decl("g")>> \o y

MCPrograms ==
  {Program(t[1], t[2], t[3]) : t \in {"ordered", "forward", "generic"} \X Nodes("f") \X gBody}
=============================================================================
