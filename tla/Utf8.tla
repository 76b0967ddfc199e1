-------------------------------- MODULE Utf8 --------------------------------
(***************************************************************************)
(* The character arithmetic of the runtime: utf8/utf8.c.                   *)
(*                                                                         *)
(* A char array is a sequence of cells.  A cell holds a byte (0..255) or   *)
(* Uninit, what malloc leaves there.  C's pointer str + i is the array     *)
(* with the offset i, counted from 0; a read past the array yields Uninit  *)
(* as well, so that no predicate on it holds.  The masks of the source are *)
(* written as quotients: (c & 0xe0) == 0xc0 says that c \div 32 is 6.      *)
(***************************************************************************)
EXTENDS Integers, Sequences, FiniteSetsExt

Uninit == -1

(* The value utf8_char_to_string returns for what is no character. *)
Invalid == -1

At(s, i) == IF i + 1 \in DOMAIN s THEN s[i + 1] ELSE Uninit

utf8_is_continuation(c) == c \div 64 = 2

utf8_is_single_byte(s, i) == At(s, i) \in 0 .. 127

utf8_is_double_byte(s, i) ==
    /\ At(s, i) \div 32 = 6
    /\ utf8_is_continuation(At(s, i + 1))

utf8_is_triple_byte(s, i) ==
    /\ At(s, i) \div 16 = 14
    /\ \A k \in 1 .. 2 : utf8_is_continuation(At(s, i + k))

utf8_is_quadruple_byte(s, i) ==
    /\ At(s, i) \div 8 = 30
    /\ \A k \in 1 .. 3 : utf8_is_continuation(At(s, i + k))

(* The length the first byte of a character announces. *)
utf8_indicated_num_bytes(c) ==
    CASE c \div 128 = 0 -> 1
      [] c \div 16 = 15 -> 4
      [] c \div 32 = 7  -> 3
      [] c \div 64 = 3  -> 2
      [] OTHER          -> 0

(* C's strlen from offset i on: the distance to the zero byte, or to the   *)
(* first cell that must not be read.                                       *)
StrLen(s, i) == Min({k \in 0 .. Max({0, Len(s) - i}) : At(s, i + k) \in {0, Uninit}})

(* The array ends with a zero byte and has none that must not be read      *)
(* before it: scanning it is defined behaviour.                            *)
Readable(s) == At(s, StrLen(s, 0)) = 0

utf8_strlen(s) ==
    Cardinality({k \in 0 .. StrLen(s, 0) - 1 : ~utf8_is_continuation(At(s, k))})

utf8_num_bytes(s, i) ==
    LET len == StrLen(s, i)
    IN  CASE len >= 1 /\ utf8_is_single_byte(s, i)    -> 1
          [] len >= 2 /\ utf8_is_double_byte(s, i)    -> 2
          [] len >= 3 /\ utf8_is_triple_byte(s, i)    -> 3
          [] len >= 4 /\ utf8_is_quadruple_byte(s, i) -> 4
          [] OTHER                                    -> 0

utf8_num_bytes_char(c) ==
    CASE c < 0                     -> Invalid
      [] c \in 0 .. 127            -> 1
      [] c \in 128 .. 2047         -> 2
      [] c \in 55296 .. 57343      -> Invalid
      [] c \in 2048 .. 65535       -> 3
      [] c \in 65536 .. 1114111    -> 4
      [] OTHER                     -> Invalid

(* The bits that mark the first byte of a character of n bytes. *)
Lead == << 0, 192, 224, 240 >>

(* C's c32rtomb in a UTF-8 locale: the bytes of a code point, << >> when   *)
(* it has none.                                                            *)
c32rtomb(c) ==
    LET n == utf8_num_bytes_char(c)
    IN  [k \in 1 .. n |-> IF k = 1 THEN Lead[n] + (c \div 64^(n - 1))
                                   ELSE 128 + ((c \div 64^(n - k)) % 64)]

(* C's mbrtoc32 on the n bytes at offset i, which form one character; out  *)
(* is not written when there are none.                                     *)
mbrtoc32(s, i, n) ==
    LET Payload(k) == At(s, i + k) - (IF k = 0 THEN Lead[n] ELSE 128)
    IN  IF n = 0 THEN Uninit
        ELSE MapThenSumSet(LAMBDA k : Payload(k) * 64^(n - 1 - k), 0 .. n - 1)

(* The caller's char temp[5] and the number of bytes written to it.  For   *)
(* an invalid character temp is left as it was: uninitialised.             *)
utf8_char_to_string(c) ==
    IF c32rtomb(c) = << >>
    THEN [num_bytes |-> Invalid, temp |-> [k \in 1 .. 5 |-> Uninit]]
    ELSE [num_bytes |-> Len(c32rtomb(c)),
          temp |-> [k \in 1 .. 5 |-> At(c32rtomb(c) \o << 0 >>, k - 1)]]

utf8_string_to_char(s, i) == mbrtoc32(s, i, utf8_num_bytes(s, i))
=============================================================================
