------------------------------ MODULE MCTyping ------------------------------
EXTENDS Typing

Punkt == <<"Punkt">>

MCTypes ==
  {ZAHL, KOMMAZAHL, BYTE, WAHRHEITSWERT, BUCHSTABE, TEXT, VARIABLE_, ListOf(ZAHL), Punkt,
   <<"Alias", "Zahl">>, <<"DefA", "Zahl">>, <<"DefA", "Liste", "Zahl">>, <<"DefA", "Buchstabe">>}

MCThirdTypes == {ZAHL, KOMMAZAHL, BYTE, WAHRHEITSWERT, TEXT}

MCFieldTypes == [Punkt |-> [x |-> BYTE, v |-> VARIABLE_, name |-> <<"Liste", "DefA", "Zahl">>]]

Param(t, r) == [typ |-> t, ref |-> r]

MCOverloadTypes == {Punkt, ListOf(Punkt), TEXT}

Plus(t, r, u, s, v) ==
  [op |-> "BIN_PLUS", params |-> <<Param(t, r), Param(u, s)>>, ret |-> v]

Als(t, r, u) == [op |-> "CAST_OP", params |-> <<Param(t, r)>>, ret |-> u]

MCOverloadDecls ==
  {Plus(Punkt, FALSE, Punkt, FALSE, Punkt), Plus(Punkt, TRUE, Punkt, FALSE, Punkt),
   Plus(<<"T">>, FALSE, Punkt, FALSE, Punkt),
   Plus(<<"Liste", "T">>, FALSE, <<"T">>, TRUE, <<"T">>),
   Als(Punkt, TRUE, TEXT), Als(<<"T">>, FALSE, TEXT),
   [op |-> "UN_LEN", params |-> <<Param(TEXT, TRUE)>>, ret |-> ZAHL]}
=============================================================================
