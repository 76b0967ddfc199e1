------------------------------- MODULE TextADT -------------------------------
(***************************************************************************)
(* What the runtime promises of Texte: a slot (a variable or a temporary   *)
(* of the compiled program) holds nothing or a finite sequence of          *)
(* characters, and every operator of the language is the sequence          *)
(* operation its name says.  There is no memory here, no encoding and no   *)
(* capacity.                                                               *)
(***************************************************************************)
EXTENDS Integers, Sequences

CONSTANTS Slots,   \* the variables and temporaries of the program
          Chars,   \* the characters (code points) it uses
          Indices, \* the indices it asks for
          MaxLen,  \* bound: characters in a text
          Unset    \* a slot that holds no text

VARIABLES texts,   \* [Slots -> sequence of Chars, or Unset]
          call     \* the last operation, with what it returned to the program

vars == << texts, call >>

Text == UNION {[1 .. n -> Chars] : n \in 0 .. MaxLen}

(* No call is being answered. *)
Idle == << "idle" >>

(* The program has ended with a Laufzeitfehler. *)
Failed(op, s, i) == << "Laufzeitfehler", op, s, i >>

Set(s) == texts[s] # Unset

Init ==
    /\ texts = [s \in Slots |-> Unset]
    /\ call = Idle

Store(ret, t) ==
    /\ ~Set(ret)
    /\ Len(t) <= MaxLen
    /\ texts' = [texts EXCEPT ![ret] = t]

Create(ret) == \E t \in Text :
    /\ call' = << "constant", t >>
    /\ Store(ret, t)

Release(s) ==
    /\ call' = << "free" >>
    /\ Set(s)
    /\ texts' = [texts EXCEPT ![s] = Unset]

Copy(ret, s) ==
    /\ call' = << "copy" >>
    /\ Set(s)
    /\ Store(ret, texts[s])

(* Verkettung: the operand arg is kept, or it was a temporary that is used *)
(* up and left empty.                                                      *)
Join(ret, t, arg, op) ==
    \/ /\ call' = << "join" >> \o op
       /\ Store(ret, t)
    \/ /\ call' = << "claim" >> \o op
       /\ ~Set(ret)
       /\ Len(t) <= MaxLen
       /\ texts' = [texts EXCEPT ![ret] = t, ![arg] = << >>]

JoinTexts(ret, s1, s2) ==
    /\ s1 # s2 /\ Set(s1) /\ Set(s2)
    /\ Join(ret, texts[s1] \o texts[s2], s1, << s1, s2 >>)

JoinChar(ret, s, c) ==
    /\ Set(s)
    /\ \/ Join(ret, texts[s] \o << c >>, s, << s, "char", c >>)
       \/ Join(ret, << c >> \o texts[s], s, << "char", c, s >>)

Clamp(i, n) == IF i < 1 THEN 1 ELSE IF i > n THEN n ELSE i

Slice(ret, s, i, j) ==
    /\ Set(s) /\ ~Set(ret)
    /\ LET n == Len(texts[s])
       IN  \/ /\ call' = << "slice", i, j >>
              /\ n = 0 \/ Clamp(i, n) <= Clamp(j, n)
              /\ Store(ret, IF n = 0 THEN << >> ELSE SubSeq(texts[s], Clamp(i, n), Clamp(j, n)))
           \/ /\ call' = Failed("slice", i, j)
              /\ n # 0 /\ Clamp(j, n) < Clamp(i, n)
              /\ UNCHANGED texts

Replace(s, c, i) ==
    /\ Set(s)
    /\ \/ /\ call' = << "replace", c, i >>
          /\ i \in DOMAIN texts[s]
          /\ texts' = [texts EXCEPT ![s][i] = c]
       \/ /\ call' = Failed("replace", s, i)
          /\ i \notin DOMAIN texts[s]
          /\ UNCHANGED texts

Index(s, i) ==
    /\ Set(s)
    /\ call' = IF i \in DOMAIN texts[s] THEN << "char", i, texts[s][i] >> ELSE Failed("index", s, i)
    /\ UNCHANGED texts

Length(s) ==
    /\ Set(s)
    /\ call' = << "length", s, Len(texts[s]) >>
    /\ UNCHANGED texts

Equal(s1, s2) ==
    /\ Set(s1) /\ Set(s2)
    /\ call' = << "equal", s1, s2, texts[s1] = texts[s2] >>
    /\ UNCHANGED texts

(* The program takes the answer and goes on. *)
Continue ==
    /\ call # Idle /\ call[1] # "Laufzeitfehler"
    /\ call' = Idle
    /\ UNCHANGED texts

Call ==
    /\ call = Idle
    /\ \E s \in Slots :
        \/ Create(s) \/ Release(s) \/ Length(s)
        \/ \E i \in Indices : Index(s, i) \/ \E c \in Chars : Replace(s, c, i)
        \/ \E r \in Slots :
            \/ Copy(r, s) \/ Equal(r, s)
            \/ \E c \in Chars : JoinChar(r, s, c)
            \/ \E t \in Slots : JoinTexts(r, s, t)
            \/ \E i, j \in Indices : Slice(r, s, i, j)

Next == Continue \/ Call

Spec == Init /\ [][Next]_vars
=============================================================================
