------------------------------- MODULE DDPAst -------------------------------
(***************************************************************************)
(* The nodes of src/src/ast that CodeGen compiles, reduced to what the     *)
(* ownership of values depends on.                                         *)
(***************************************************************************)
EXTENDS Sequences

(* Expressions *)
Lit == [k |-> "lit", empty |-> FALSE]
EmptyLit == [k |-> "lit", empty |-> TRUE]
Prim == [k |-> "prim"]                             \* IntLit, BoolLit, ...
Id(x) == [k |-> "ident", x |-> x]
ListOf(es) == [k |-> "list", es |-> es]            \* also StructLiteral
TimesOf(e) == [k |-> "times", e |-> e]             \* ListLit with a count
LenOf(e) == [k |-> "len", e |-> e]
And(l, r) == [k |-> "and", l |-> l, r |-> r]
ElementOf(e) == [k |-> "element", e |-> e]
Cat(l, r, claims) == [k |-> "concat", l |-> l, r |-> r, claims |-> claims]
Falls(l, c, r) == [k |-> "falls", l |-> l, c |-> c, r |-> r]
Binary(l, r) == [k |-> "binary", l |-> l, r |-> r]  \* gleich, plus, ...
SliceOf(e) == [k |-> "slice", e |-> e]
IndexOf(x) == [k |-> "index", x |-> x]             \* Indexing of a variable
FieldOf(x) == [k |-> "field", x |-> x]             \* FieldAccess of a variable
ToAny(e) == [k |-> "toany", e |-> e]
FromAny(e) == [k |-> "fromany", e |-> e]
DefaultOf == [k |-> "default"]
Call(f, args) == [k |-> "call", fun |-> f, args |-> args]

(* Statements *)
None == [k |-> "none"]
Var(x, e) == [k |-> "var", x |-> x, e |-> e]
Assign(x, e) == [k |-> "assign", x |-> x, e |-> e, elem |-> FALSE]
AssignElem(x, e) == [k |-> "assign", x |-> x, e |-> e, elem |-> TRUE]
Expr(e) == [k |-> "expr", e |-> e]
Block(ss) == [k |-> "block", ss |-> ss]
If(c, t, e) == [k |-> "if", c |-> c, t |-> t, e |-> e]
While(c, b) == [k |-> "while", c |-> c, body |-> b]          \* Solange
DoWhile(c, b) == [k |-> "dowhile", c |-> c, body |-> b]      \* Mache ... solange
Repeat(c, b) == [k |-> "repeat", c |-> c, body |-> b]        \* Wiederhole
For(x, init, step, to, b) ==
  [k |-> "for", x |-> x, init |-> init, step |-> step, to |-> to, body |-> b]
ForRange(x, box, in, b) == [k |-> "forrange", x |-> x, box |-> box, in |-> in, body |-> b]
Break == [k |-> "break"]
Continue == [k |-> "continue"]
Return(e) == [k |-> "return", e |-> e]

(* Functions: a parameter has a type and the annotation of ConstFuncParam. *)
Value(x, const) == [name |-> x, box |-> TRUE, isRef |-> FALSE, isConst |-> const]
Ref(x) == [name |-> x, box |-> TRUE, isRef |-> TRUE, isConst |-> FALSE]
Number(x) == [name |-> x, box |-> FALSE, isRef |-> FALSE, isConst |-> TRUE]

Sig(f, params, box) == [name |-> f, params |-> params, box |-> box, extern |-> FALSE]
Extern(f, params, box) == [name |-> f, params |-> params, box |-> box, extern |-> TRUE]
Fun(sig, body) ==
  [name |-> sig.name, params |-> sig.params, box |-> sig.box, extern |-> FALSE, body |-> body]
Main(body) == Fun(Sig("main", << >>, FALSE), body)
=============================================================================
