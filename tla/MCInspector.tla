----------------------------- MODULE MCInspector -----------------------------
(* Inspector with two texts, and tables that are sound or spoilt.          *)
EXTENDS Inspector, Bitwise, TLC

MCXorByte(a, k) == a ^^ k
MCKeyStream(id, index) == (37 * id + 11 * index) % 128

MCTextIds == <<2, 0>>
MCText == (0 :> <<65, 0>>) @@ (2 :> <<66, 0, 101, 3, 67, 0>>)

(* The client's side: text 0 in word 0, text 2 in words 1 and 2.           *)
Cipher(id, n) == IF n > Len(MCText[id]) THEN 0 ELSE MCXorByte(MCText[id][n], MCKeyStream(id, n - 1))
Word(id, n) == Cipher(id, n) + 256 * (Cipher(id, n + 1) + 256 * (Cipher(id, n + 2) + 256 * Cipher(id, n + 3)))

Sound == [cache |-> Array(<<0, 0, 0>>), offsets |-> Array(<<0, 0, 1>>),
          lengths |-> Array(<<2, 0, 6>>), packed |-> Array(<<Word(0, 1), Word(2, 1), Word(2, 5)>>),
          sound |-> TRUE]

Spoilt ==
    {[Sound EXCEPT !.sound = FALSE, !.packed = p] :
        p \in {NoArray, Array(<<>>), Array(SubSeq(Sound.packed.at, 1, 2))}}
    \cup {[Sound EXCEPT !.sound = FALSE, !.offsets = o] :
        o \in {NoArray, Array(<<0, 0>>), Array(<<0, 0, -1>>), Array(<<0, 0, 2>>), Array(<<1, 0, 0>>)}}
    \cup {[Sound EXCEPT !.sound = FALSE, !.lengths = l] :
        l \in {NoArray, Array(<<2>>)} \cup {Array(<<2, 0, n>>) : n \in {-2, 0, 4, 5, 8, 9, 10}}}
    \cup {[Sound EXCEPT !.sound = FALSE, !.cache = c] : c \in {NoArray, Array(<<0, 0>>)}}

MCTables == {Sound} \cup Spoilt
==============================================================================
