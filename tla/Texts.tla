------------------------------- MODULE Texts -------------------------------
(***************************************************************************)
(* The texts of values, down to what the commands on lists, dicts and      *)
(* numbers tell apart.  A text is a word, a number or a list of texts; a   *)
(* list of one plain word is that word, the list of nothing is the empty   *)
(* string, and a dict is a list of even length.  That a list is written    *)
(* and read back as the same list is shown of the characters in ListText.  *)
(***************************************************************************)
EXTENDS Integers, Sequences, SequencesExt, FiniteSets, FiniteSetsExt

CONSTANT Bits     \* width of an integer (64 in the code)

ASSUME TextsAssumption == Bits \in Nat /\ Bits > 2

Word(a) == <<"word", a>>
Num(n)  == <<"int", n>>
Listing(s) == <<"list", s>>

Empty == Listing(<<>>)
Torn  == Word("{")          \* a text that is no list

(* What can stand in a list as it is; the rest is put in braces.           *)
Bare(t) == t[1] # "list" /\ t # Torn

(* serialize_list and parse_list.                                          *)
ListText(s) == IF Len(s) = 1 /\ Bare(s[1]) THEN s[1] ELSE Listing(s)
IsList(t)   == t # Torn
Elements(t) == IF t[1] = "list" THEN t[2] ELSE <<t>>

(* A dict as its pairs, in order.                                          *)
KeysOf(d)   == {d[i][1] : i \in DOMAIN d}
At(d, k)    == CHOOSE i \in DOMAIN d : d[i][1] = k
Get(d, k)   == d[At(d, k)][2]
Put(d, k, v) == IF k \in KeysOf(d) THEN [d EXCEPT ![At(d, k)] = <<k, v>>] ELSE Append(d, <<k, v>>)
Del(d, k)   == SelectSeq(d, LAMBDA p : p[1] # k)

InPairs(s)  == FoldLeft(LAMBDA d, i : Put(d, s[2 * i - 1], s[2 * i]), <<>>, [i \in 1..(Len(s) \div 2) |-> i])
IsDict(t)   == IsList(t) /\ Len(Elements(t)) % 2 = 0
Pairs(t)    == InPairs(Elements(t))
DictText(d) == ListText(FlattenSeq(d))

(* Two's complement.                                                       *)
Wrap(n) == ((n + 2 ^ (Bits - 1)) % 2 ^ Bits) - 2 ^ (Bits - 1)
IsInt(t) == t[1] = "int"

RECURSIVE Size(_)
Size(t) == IF t[1] = "list" THEN 1 + FoldLeft(LAMBDA n, e : n + Size(e), 0, t[2]) ELSE 1
=============================================================================
