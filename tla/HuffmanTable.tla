---------------------------- MODULE HuffmanTable ----------------------------
(***************************************************************************)
(* The tables set_huffman_tables writes into the engine's memory: for each *)
(* length of a code word the first code word and the index of its symbol.  *)
(* A table of the frame is num: how many code words there are of each      *)
(* length, length j + 1 at index j.                                        *)
(***************************************************************************)
EXTENDS Integers, FiniteSetsExt

CONSTANT CodeLengths     \* 16

ASSUME HuffmanAssumption == CodeLengths \in Nat \ {0}

Length == 0..(CodeLengths - 1)
NoCode == 65535

LastLength(num) == Max({0} \cup {j \in Length : num[j] # 0})

(* The index of the first symbol of each length; behind the last, their number. *)
SymbolIndex(num) ==
    LET sum[j \in 0..CodeLengths] == IF j = 0 THEN 0 ELSE sum[j - 1] + num[j - 1]
    IN  sum

(* Fault form: the count is added after the shift. *)
FirstCode_ShiftFirst(num) ==
    LET sum[j \in Length] == IF j = 0 THEN 0 ELSE 2 * sum[j - 1] + num[j - 1]
    IN  [j \in Length |-> IF j <= LastLength(num) THEN sum[j] ELSE NoCode]

(* The first code word of each length. *)
FirstCode(num) ==
    LET sum[j \in Length] == IF j = 0 THEN 0 ELSE 2 * (sum[j - 1] + num[j - 1])
    IN  [j \in Length |-> IF j <= LastLength(num) THEN sum[j] ELSE NoCode]

-----------------------------------------------------------------------------
(* What a decoder makes of them.  There are Words[n] words of n bits. *)
Words == LET words[n \in 0..CodeLengths] == IF n = 0 THEN 1 ELSE 2 * words[n - 1]
         IN  words

(* The code words, with their length, and the symbol each stands for. *)
CodeWords(num) ==
    {w \in Length \X (0..(Words[CodeLengths] - 1)) :
        FirstCode(num)[w[1]] <= w[2] /\ w[2] < FirstCode(num)[w[1]] + num[w[1]]}

Symbol(num, word) == SymbolIndex(num)[word[1]] + (word[2] - FirstCode(num)[word[1]])

(* w is v with more bits behind. *)
Begins(v, w) ==
    /\ v[1] < w[1]
    /\ \E bits \in 0..(Words[w[1] - v[1]] - 1) : w[2] = v[2] * Words[w[1] - v[1]] + bits

(* How many words of n bits are code words or begin with one. *)
Taken(num) ==
    LET taken[n \in 0..CodeLengths] == IF n = 0 THEN 0 ELSE 2 * taken[n - 1] + num[n - 1]
    IN  taken

(* A table a JPEG encoder can write: there are words enough, and the one of ones only
   is none of them. *)
Encodable(num) ==
    num \in [Length -> Nat] /\ Taken(num)[CodeLengths] < Words[CodeLengths]

(* The code can be read: every symbol has one word of its own, which fits its
   length, and no word begins with another. *)
Readable(num) ==
    LET words == CodeWords(num) IN
    /\ {Symbol(num, w) : w \in words} = 0..(SymbolIndex(num)[CodeLengths] - 1)
    /\ \A v, w \in words : v # w => Symbol(num, v) # Symbol(num, w) /\ ~Begins(v, w)
    /\ \A w \in words : w[2] < Words[w[1] + 1]

=============================================================================
