---------------------------- MODULE MCChezzMagic ----------------------------
(***************************************************************************)
(* Searches for a bishop in a corner, next to it and near the middle, and  *)
(* for a rook, with numbers that hash well, badly, and with collisions     *)
(* that do no harm.                                                        *)
(***************************************************************************)
EXTENDS ChezzMagic

Pairs == {<<"bishop", 0>>, <<"bishop", 9>>, <<"bishop", 20>>, <<"rook", 9>>}

Place(m, s) == Cardinality({q \in m : q < s})
Pack(m, blockers) == SumSet({2 ^ Place(m, s) : s \in blockers})

(* The square a mask belongs to, and the blockers a slider there can see.  *)
Origin == [m \in {gen_bishop_mask(s) : s \in {0, 9, 20}} \cup {gen_rook_mask(9)} |->
              CHOOSE s \in {0, 9, 20} : m \in {gen_bishop_mask(s), gen_rook_mask(s)}]

Seen(m, blockers) ==
    {q \in blockers : Between[Origin[m]][q] \cap blockers = {}}

(* "good" and "shuffled" give every set an entry of its own, "harmless"    *)
(* joins the sets that look alike from the square, "late" fails on the     *)
(* last set and "bad" at once.                                             *)
Numbers == {"good", "shuffled", "harmless", "late", "bad"}

Hash(number, blockers, m, bits) ==
    LET n == Pack(m, blockers) % 2 ^ bits
    IN CASE number = "good"     -> n
         [] number = "shuffled" -> (n * 5 + 3) % 2 ^ bits
         [] number = "harmless" -> Pack(m, Seen(m, blockers)) % 2 ^ bits
         [] number = "late"     -> IF n = 2 ^ bits - 1 THEN 0 ELSE n
         [] number = "bad"      -> n \div 2
=============================================================================
