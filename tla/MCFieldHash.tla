----------------------------- MODULE MCFieldHash -----------------------------
(* FieldHash on the names of FieldHash_test.cpp (their UTF-8 bytes) and   *)
(* every name of at most two bytes over a small alphabet that has ASCII   *)
(* letters, DEL and bytes of 0x80 and above.                              *)
EXTENDS FieldHash, TLC

\* EXPECT_EQ(name_octo_field_name_hash, value) of FieldHash_test.cpp 9-39.
MCTestVectors ==
    \* "" -> 2166136261
    <<>>
        :> [hi |-> 33052, lo |-> 40389] @@
    \* "a" -> 3826002220
    <<97>>
        :> [hi |-> 58380, lo |-> 10540] @@
    \* "b" -> 3876335077
    <<98>>
        :> [hi |-> 59148, lo |-> 11749] @@
    \* "c" -> 3859557458
    <<99>>
        :> [hi |-> 58892, lo |-> 11346] @@
    \* "d" -> 3775669363
    <<100>>
        :> [hi |-> 57612, lo |-> 9331] @@
    \* "e" -> 3758891744
    <<101>>
        :> [hi |-> 57356, lo |-> 8928] @@
    \* "f" -> 3809224601
    <<102>>
        :> [hi |-> 58124, lo |-> 10137] @@
    \* "aa" -> 1277494327
    <<97, 97>>
        :> [hi |-> 19493, lo |-> 1079] @@
    \* "it" -> 1194886160
    <<105, 116>>
        :> [hi |-> 18232, lo |-> 33808] @@
    \* "on" -> 1630810064
    <<111, 110>>
        :> [hi |-> 24884, lo |-> 12240] @@
    \* "aaa" -> 876991330
    <<97, 97, 97>>
        :> [hi |-> 13381, lo |-> 54114] @@
    \* "abc" -> 440920331
    <<97, 98, 99>>
        :> [hi |-> 6727, lo |-> 59659] @@
    \* "123" -> 1916298011
    <<49, 50, 51>>
        :> [hi |-> 29240, lo |-> 25371] @@
    \* "If you truly want to understand something, try to change it." -> 2517180697
    <<73, 102, 32, 121, 111, 117, 32, 116, 114, 117, 108, 121, 32, 119,
          97, 110, 116, 32, 116, 111, 32, 117, 110, 100, 101, 114, 115,
          116, 97, 110, 100, 32, 115, 111, 109, 101, 116, 104, 105, 110,
          103, 44, 32, 116, 114, 121, 32, 116, 111, 32, 99, 104, 97, 110,
          103, 101, 32, 105, 116, 46>>
        :> [hi |-> 38409, lo |-> 8473] @@
    \* "An aim in life is the only fortune worth...finding." -> 691148077
    <<65, 110, 32, 97, 105, 109, 32, 105, 110, 32, 108, 105, 102, 101,
          32, 105, 115, 32, 116, 104, 101, 32, 111, 110, 108, 121, 32,
          102, 111, 114, 116, 117, 110, 101, 32, 119, 111, 114, 116, 104,
          46, 46, 46, 102, 105, 110, 100, 105, 110, 103, 46>>
        :> [hi |-> 10546, lo |-> 5421] @@
    \* "theta is Θ or Ө or θ" -> 20395768
    <<116, 104, 101, 116, 97, 32, 105, 115, 32, 206, 152, 32, 111, 114,
          32, 211, 168, 32, 111, 114, 32, 206, 184>>
        :> [hi |-> 311, lo |-> 14072] @@
    \* "id" -> 926444256
    <<105, 100>>
        :> [hi |-> 14136, lo |-> 27360] @@
    \* "name" -> 2369371622
    <<110, 97, 109, 101>>
        :> [hi |-> 36153, lo |-> 48614] @@
    \* "value" -> 1113510858
    <<118, 97, 108, 117, 101>>
        :> [hi |-> 16990, lo |-> 54218] @@
    \* "type" -> 1361572173
    <<116, 121, 112, 101>>
        :> [hi |-> 20775, lo |-> 61773] @@
    \* "email" -> 2324124615
    <<101, 109, 97, 105, 108>>
        :> [hi |-> 35463, lo |-> 21447] @@
    \* "age" -> 742476188
    <<97, 103, 101>>
        :> [hi |-> 11329, lo |-> 18844] @@
    \* "enabled" -> 49525662
    <<101, 110, 97, 98, 108, 101, 100>>
        :> [hi |-> 755, lo |-> 45982] @@
    \* "disabled" -> 871591685
    <<100, 105, 115, 97, 98, 108, 101, 100>>
        :> [hi |-> 13299, lo |-> 28421] @@
    \* "active" -> 3648362799
    <<97, 99, 116, 105, 118, 101>>
        :> [hi |-> 55669, lo |-> 39215]

Alphabet == {97, 122, 127, 128, 206, 255}

ShortNames == UNION {[1..n -> Alphabet] : n \in 0..2}

MCNames == DOMAIN MCTestVectors \cup ShortNames
=============================================================================
