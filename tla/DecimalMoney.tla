----------------------------- MODULE DecimalMoney ----------------------------
(***************************************************************************)
(* Decimal texts and what packages/foundation makes of them: parseDecimal  *)
(* (decimal.ts) and money (money.ts).  A text is its sign and its digits   *)
(* before and after the point, after trim; one that is no decimal has no   *)
(* digits.                                                                 *)
(***************************************************************************)
EXTENDS Naturals, Sequences, FiniteSets

Text == [negative : BOOLEAN, whole : Seq(0..9), fraction : Seq(0..9)]

NoText == [negative |-> FALSE, whole |-> <<>>, fraction |-> <<>>]

\* parseDecimal throws for any other text.
ParseAccepts(t, maxScale, allowNegative) ==
  /\ t.whole # <<>>
  /\ t.negative => allowNegative
  /\ Len(t.fraction) <= maxScale

\* replace(/^0+(?=\d)/, ''): the last digit is kept.
WithoutLeadingZeros(ds) ==
  SubSeq(ds, 1 + Cardinality({i \in 1..Len(ds) - 1 : \A j \in 1..i : ds[j] = 0}), Len(ds))

IsZero(t) == \A i \in 1..Len(t.whole \o t.fraction) : (t.whole \o t.fraction)[i] = 0

\* parseDecimal(..).normalized: the digits of the fraction are kept, zero has no sign.
Normalized(t) ==
  [t EXCEPT !.negative = @ /\ ~IsZero(t), !.whole = WithoutLeadingZeros(@)]

\* money: the amount and a currency, which is three letters in either case.
MoneyAccepts(t, maxScale, allowNegative, currencyIsCode) ==
  ParseAccepts(t, maxScale, allowNegative) /\ currencyIsCode
=============================================================================
