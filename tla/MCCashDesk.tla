----------------------------- MODULE MCCashDesk -----------------------------
(***************************************************************************)
(* Small instances of the cash desk.  Each run picks the products, codes   *)
(* and requests its question needs.                                        *)
(***************************************************************************)
EXTENDS CashDeskProperties

CONSTANTS p1, p2, c1, c2

MCProductOf == [c \in Code |-> p1]
MCStock == [p \in Product |-> [quantity |-> 3, reserved |-> 1]]
MCSymmetry == Permutations(Session)

Sold(p, q) == [product |-> p, qty |-> q, codes |-> <<>>]
WithCodes(q, cs) == [product |-> p1, qty |-> q, codes |-> cs]

\* Marked goods: one code, both in one order and in the other, one code and a
\* blank one, one code twice.
CodeSales == {<<WithCodes(1, <<c1>>)>>, <<WithCodes(2, <<c1, c2>>)>>,
              <<WithCodes(1, <<c2>>), WithCodes(1, <<c1>>)>>,
              <<WithCodes(2, <<c2, Blank>>)>>, <<WithCodes(2, <<c1, c1>>)>>}
CodeReturns == {<<WithCodes(1, <<c1>>)>>}

\* The smallest receipts, for the races of shifts and numbers.
OneCode == {<<WithCodes(1, <<c1>>)>>}

\* A marked item and the rest of the receipt, two marked items in the other
\* order, one product in two lines.
MixedSales == {<<WithCodes(1, <<c1>>), Sold(p2, 1)>>, <<WithCodes(2, <<c2, c1>>), Sold(p2, 1)>>,
               <<Sold(p2, 1), WithCodes(1, <<c2>>), Sold(p2, 1)>>}
MixedReturns == {<<WithCodes(1, <<c1>>), Sold(p2, 1)>>}

=============================================================================
