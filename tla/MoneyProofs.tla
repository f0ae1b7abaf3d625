------------------------------ MODULE MoneyProofs ------------------------------
(***************************************************************************)
(* Proofs about Money, for every catalogue, registry and request: what is  *)
(* quoted is what the offer and the lines make, the guardrail agrees with  *)
(* it, the apply tap takes the best offer, the add tap reaches the tier it *)
(* was shown for, and the mint charges what the catalogue says.  The last  *)
(* two rest on PricesApart and TiersAreNear of Money.                      *)
(***************************************************************************)
EXTENDS Money, FiniteLemmas

(* Arithmetic.                                                             *)

\* What a line costs, and the part of it that is a fee.
LEMMA LineTotal ==
  ASSUME NEW u \in Nat, NEW f \in Nat, NEW q \in Nat
  PROVE  (u + f) * q \in Nat /\ f * q \in Nat /\ f * q <= (u + f) * q
  <1>1. u * q \in Nat /\ f * q \in Nat
    OBVIOUS
  <1>2. (u + f) * q = u * q + f * q
    OBVIOUS
  <1> QED  BY <1>1, <1>2

\* A larger percentage is more, and none is more than the whole.
LEMMA PercentIsMonotone ==
  ASSUME NEW n \in Nat, NEW p \in 0 .. 100, NEW q \in 0 .. 100, p <= q
  PROVE  /\ Percent(n, p) \in Nat /\ Percent(n, q) \in Nat
         /\ Percent(n, p) <= Percent(n, q) /\ Percent(n, q) <= n
  <1>1. PICK a \in Nat, b \in Nat : a = n * p /\ b = n * q /\ a <= b /\ b <= n * 100
    <2>1. n * p \in Nat /\ n * q \in Nat
      OBVIOUS
    <2>2. n * p + n * (q - p) = n * q /\ n * (q - p) \in Nat
      OBVIOUS
    <2>3. n * q + n * (100 - q) = n * 100 /\ n * (100 - q) \in Nat
      OBVIOUS
    <2> QED  BY <2>1, <2>2, <2>3
  <1>2. Percent(n, p) = (a + 50) \div 100 /\ Percent(n, q) = (b + 50) \div 100
    BY <1>1 DEF Percent
  <1>3. (a + 50) \div 100 \in Nat /\ (b + 50) \div 100 \in Nat
    OBVIOUS
  <1>4. (a + 50) \div 100 <= (b + 50) \div 100
    BY <1>1
  <1>5. (b + 50) \div 100 <= n
    BY <1>1
  <1> QED  BY <1>2, <1>3, <1>4, <1>5

\* Nothing off is nothing.
LEMMA NothingOff == ASSUME NEW n \in Nat PROVE Percent(n, 0) = 0
  BY DEF Percent

\* What an offer gives is within the ceiling, and none gives nothing.
LEMMA EffectiveRange ==
  ASSUME NEW o \in DOMAIN Offers
  PROVE  Effective(o) \in 0 .. MaxPct /\ Effective(o) \in 0 .. 100 /\ Effective(None) = 0
  <1>1. Offers[o].pct \in 0 .. 100 /\ MaxPct \in 0 .. 100 /\ Offers[None].pct = 0
    BY RegistryHasNone, LimitsAreNaturals
  <1>2. \A q \in DOMAIN Offers : Effective(q) \in {Offers[q].pct, MaxPct}
                                  /\ Effective(q) <= Offers[q].pct /\ Effective(q) <= MaxPct
    <2> TAKE q \in DOMAIN Offers
    <2>1. Offers[q].pct \in Nat /\ MaxPct \in Nat
      <3>1. Offers[q] \in [pct : 0 .. 100, lines : Nat, subtotal : Nat]
        BY RegistryHasNone
      <3>2. Offers[q].pct \in Nat
        BY <3>1
      <3>3. MaxPct \in Nat
        BY LimitsAreNaturals
      <3> QED  BY <3>2, <3>3
    <2> DEFINE both == {Offers[q].pct, MaxPct}
    <2>2. both \subseteq Nat /\ both # {} /\ Offers[q].pct \in both /\ MaxPct \in both
      BY <2>1
    <2>3. Effective(q) = Min(both)
      BY DEF Effective
    <2>4. Min(both) \in both /\ \A y \in both : Min(both) <= y
      <3> HIDE DEF both
      <3> QED  BY <2>2, MinIsMember
    <2> QED  BY <2>2, <2>3, <2>4
  <1>3. Effective(None) <= 0 /\ Effective(None) \in {0, MaxPct}
    BY <1>1, <1>2, RegistryHasNone
  <1> QED  BY <1>1, <1>2, <1>3

-----------------------------------------------------------------------------
(* Lines and what they sum up to.                                          *)

\* Lines are numbered from one, and there are finitely many.
LEMMA Numbered ==
  ASSUME NEW S, NEW s \in Seq(S)
  PROVE  /\ Len(s) \in Nat /\ DOMAIN s = 1 .. Len(s) /\ IsFiniteSet(DOMAIN s)
         /\ \A i \in DOMAIN s : s[i] \in S
  <1>1. Len(s) \in Nat /\ DOMAIN s = 1 .. Len(s) /\ \A i \in DOMAIN s : s[i] \in S
    OBVIOUS
  <1> QED  BY <1>1, FS_Interval

\* The goods and the fees of an order are naturals, the fees within the whole.
LEMMA SumsAreNaturals ==
  ASSUME NEW lines \in Seq(Line)
  PROVE  Subtotal(lines) \in Nat /\ Fees(lines) \in Nat /\ Fees(lines) <= Subtotal(lines)
  <1> DEFINE whole == [i \in DOMAIN lines |-> (lines[i].unit + lines[i].fee) * lines[i].qty]
             fees == [i \in DOMAIN lines |-> lines[i].fee * lines[i].qty]
  <1>1. Subtotal(lines) = SumFunction(whole) /\ Fees(lines) = SumFunction(fees)
    BY DEF Subtotal, Fees, SumOf
  <1>2. \A i \in DOMAIN lines : whole[i] \in Nat /\ fees[i] \in Nat /\ fees[i] <= whole[i]
    <2> TAKE i \in DOMAIN lines
    <2>1. lines[i] \in Line
      BY Numbered
    <2>2. lines[i].unit \in Nat /\ lines[i].fee \in Nat /\ lines[i].qty \in Nat
      BY <2>1, LimitsAreNaturals DEF Line
    <2> QED  BY <2>2, LineTotal
  <1>3. DOMAIN whole = DOMAIN lines /\ DOMAIN fees = DOMAIN lines /\ IsFiniteSet(DOMAIN lines)
    BY Numbered
  <1> HIDE DEF whole, fees
  <1> QED  BY <1>1, <1>2, <1>3, SumOfNaturals, SumIsMonotone

\* A suggestion changes nothing else of an order.
LEMMA Suggested ==
  ASSUME NEW o \in Order, NEW x,
         NEW p, \/ p = [o EXCEPT !.extra = x] /\ x \in {NoProduct} \cup Products
                \/ p = [o EXCEPT !.better = x] /\ x \in {NoProduct} \cup DOMAIN Upgrades
  PROVE  /\ p \in Order
         /\ p.lines = o.lines /\ p.offer = o.offer /\ p.pct = o.pct
         /\ p.subtotal = o.subtotal /\ p.discount = o.discount /\ p.amount = o.amount
  <1>1. \A L, O, P, N, E, B :
           o \in [lines : L, offer : O, pct : P, subtotal : N, discount : N, amount : N,
                  extra : E, better : B]
           /\ \/ p = [o EXCEPT !.extra = x] /\ x \in E
              \/ p = [o EXCEPT !.better = x] /\ x \in B
           => /\ p \in [lines : L, offer : O, pct : P, subtotal : N, discount : N, amount : N,
                        extra : E, better : B]
              /\ p.lines = o.lines /\ p.offer = o.offer /\ p.pct = o.pct
              /\ p.subtotal = o.subtotal /\ p.discount = o.discount /\ p.amount = o.amount
    OBVIOUS
  <1> QED  BY <1>1 DEF Order

\* What apply_offer makes of some lines.
LEMMA OfferApplied ==
  ASSUME NEW lines \in Seq(Line), lines # <<>>, NEW o \in DOMAIN Offers
  PROVE  LET new == ApplyOffer(lines, o) IN
           /\ new \in Order
           /\ new.discount = Percent(Subtotal(lines) - Fees(lines), new.pct)
           /\ new.discount <= Subtotal(lines) - Fees(lines)
  <1> DEFINE pct == IF Entitled(lines, o) THEN Effective(o) ELSE 0
             value == Subtotal(lines) - Fees(lines)
             off == Percent(value, pct)
             new == ApplyOffer(lines, o)
  <1>1. Subtotal(lines) \in Nat /\ value \in Nat /\ value <= Subtotal(lines)
    BY SumsAreNaturals
  <1>2. pct \in 0 .. MaxPct /\ pct \in 0 .. 100
    BY EffectiveRange, LimitsAreNaturals
  <1>3. off \in Nat /\ off <= value
    <2> HIDE DEF pct, value
    <2>1. pct <= pct
      BY <1>2
    <2> QED  BY <1>1, <1>2, <2>1, PercentIsMonotone
  <1>4. new = [lines |-> lines, offer |-> IF pct > 0 THEN o ELSE None, pct |-> pct,
               subtotal |-> Subtotal(lines), discount |-> off, amount |-> Subtotal(lines) - off,
               extra |-> NoProduct, better |-> NoProduct]
    BY DEF ApplyOffer
  <1>5. Subtotal(lines) - off \in Nat
    <2> HIDE DEF off, value
    <2> QED  BY <1>1, <1>3
  <1>6. (IF pct > 0 THEN o ELSE None) \in DOMAIN Offers
    BY RegistryHasNone
  <1>7. new.discount = off /\ off = Percent(Subtotal(lines) - Fees(lines), new.pct)
    BY <1>4
  <1> HIDE DEF pct, off
  <1>8. new \in Order
    BY <1>1, <1>2, <1>3, <1>4, <1>5, <1>6 DEF Order
  <1> QED  BY <1>3, <1>7, <1>8

\* The offer an order is stored with gives what was given when it was applied.
LEMMA OfferKept ==
  ASSUME NEW lines \in Seq(Line), NEW o \in DOMAIN Offers
  PROVE  ApplyOffer(lines, ApplyOffer(lines, o).offer) = ApplyOffer(lines, o)
  <1> DEFINE pct(q) == IF Entitled(lines, q) THEN Effective(q) ELSE 0
             kept == ApplyOffer(lines, o).offer
  <1>1. pct(o) \in Nat /\ pct(None) = 0
    BY EffectiveRange, LimitsAreNaturals, RegistryHasNone
  <1>2. kept = IF pct(o) > 0 THEN o ELSE None
    BY DEF ApplyOffer
  <1>3. pct(kept) = pct(o)
    BY <1>1, <1>2
  <1>4. \A q : ApplyOffer(lines, q) =
           [lines |-> lines, offer |-> IF pct(q) > 0 THEN q ELSE None, pct |-> pct(q),
            subtotal |-> Subtotal(lines),
            discount |-> Percent(Subtotal(lines) - Fees(lines), pct(q)),
            amount |-> Subtotal(lines) - Percent(Subtotal(lines) - Fees(lines), pct(q)),
            extra |-> NoProduct, better |-> NoProduct]
    BY DEF ApplyOffer
  <1>5. (IF pct(kept) > 0 THEN kept ELSE None) = (IF pct(o) > 0 THEN o ELSE None)
    BY <1>1, <1>2, <1>3
  <1> HIDE DEF pct, kept
  <1>6. ApplyOffer(lines, kept) = ApplyOffer(lines, o)
    BY <1>3, <1>4, <1>5
  <1> QED  BY <1>6 DEF kept

-----------------------------------------------------------------------------
(* Requests become lines.                                                  *)

Item == [name : Names, qty : Nat \ {0}]

\* A line at a price its product may have.
ListedLine == {l \in Line : [unit |-> l.unit, fee |-> l.fee] \in Prices[l.sku]}

\* A map of prices to rely on: of products, at prices they may have.
Honest(trusted) == \A n \in DOMAIN trusted :
    /\ trusted[n].sku \in Products
    /\ [unit |-> trusted[n].unit, fee |-> trusted[n].fee] \in Prices[trusted[n].sku]

\* What FoldLeft computes for Mentioned: g lists the names of every part.
Lists(raw, g) ==
    g = [s \in SUBSET DOMAIN raw |->
            IF s = {} THEN <<>>
            ELSE IF Contains(g[s \ {Max(s)}], raw[Max(s)].name) THEN g[s \ {Max(s)}]
                 ELSE Append(g[s \ {Max(s)}], raw[Max(s)].name)]

\* The last position of a part.
LEMMA LastOfPart ==
  ASSUME NEW S, NEW seq \in Seq(S)
  PROVE  /\ IsFiniteSet(DOMAIN seq)
         /\ \A s \in SUBSET DOMAIN seq : s # {} => Max(s) \in s
  <1>1. Len(seq) \in Nat /\ DOMAIN seq = 1 .. Len(seq) /\ IsFiniteSet(DOMAIN seq)
    BY Numbered
  <1>2. ASSUME NEW s \in SUBSET DOMAIN seq, s # {} PROVE Max(s) \in s
    <2>1. s \subseteq 1 .. Len(seq)
      BY <1>1
    <2> QED  BY <1>1, <1>2, <2>1, MaxIsMember
  <1> QED  BY <1>1, <1>2

\* Mentioned is such a listing of all of the request.
LEMMA MentionedIsFold ==
  ASSUME NEW raw \in Seq(Item)
  PROVE  \E g : Lists(raw, g) /\ Mentioned(raw) = g[DOMAIN raw]
  <1> DEFINE D == DOMAIN raw
             A == Seq({raw[i].name : i \in D})
             F == [p \in A \X D |-> IF Contains(p[1], raw[p[2]].name) THEN p[1]
                                    ELSE Append(p[1], raw[p[2]].name)]
             c == [s \in SUBSET D |-> Max(s)]
  <1>1. IsFiniteSet(D) /\ <<>> \in A /\ \A s \in SUBSET D : s # {} => Max(s) \in s
    BY LastOfPart
  <1>2. \A s \in SUBSET D : s # {} => c[s] \in s
    BY <1>1
  <1>3. F \in [A \X D -> A]
    OBVIOUS
  <1>4. PICK h : IsFold(h, D, A, <<>>, F, c)
    <2> HIDE DEF F, c, D, A
    <2> QED  BY <1>1, <1>2, <1>3, Recursion
  <1>5. \A s \in SUBSET D : s # {} =>
           F[<<h[s \ {c[s]}], c[s]>>] =
              IF Contains(h[s \ {Max(s)}], raw[Max(s)].name) THEN h[s \ {Max(s)}]
              ELSE Append(h[s \ {Max(s)}], raw[Max(s)].name)
    <2> TAKE s \in SUBSET D
    <2> HAVE s # {}
    <2>1. c[s] = Max(s) /\ Max(s) \in s
      BY <1>1
    <2>2. <<h[s \ {Max(s)}], Max(s)>> \in A \X D
      BY <1>4, <2>1 DEF IsFold
    <2> QED  BY <2>1, <2>2
  <1>6. Lists(raw, h)
    <2> HIDE DEF F, c, A
    <2> QED  BY <1>4, <1>5 DEF IsFold, Lists
  <1> HIDE DEF F, c, A
  <1> QED  BY <1>6 DEF Lists, Mentioned, FoldLeft, MapThenFoldSet

\* The names of a request are listed from the names in it.
LEMMA MentionedNames ==
  ASSUME NEW raw \in Seq(Item)
  PROVE  Mentioned(raw) \in Seq({raw[i].name : i \in DOMAIN raw})
  <1> DEFINE D == DOMAIN raw
             A == Seq({raw[i].name : i \in D})
  <1>1. IsFiniteSet(D) /\ <<>> \in A /\ \A s \in SUBSET D : s # {} => Max(s) \in s
    BY LastOfPart
  <1>2. PICK g : Lists(raw, g) /\ Mentioned(raw) = g[D]
    BY MentionedIsFold
  <1> DEFINE P == {s \in SUBSET D : g[s] \in A}
  <1>3. {} \in P
    BY <1>1, <1>2 DEF Lists
  <1>4. ASSUME NEW s \in SUBSET D, s # {}, \A x \in s : s \ {x} \in P PROVE s \in P
    <2>1. Max(s) \in s /\ g[s \ {Max(s)}] \in A
      BY <1>1, <1>4
    <2>2. raw[Max(s)].name \in {raw[i].name : i \in D}
      BY <2>1
    <2>3. Append(g[s \ {Max(s)}], raw[Max(s)].name) \in A
      BY <2>1, <2>2, AppendProperties
    <2>4. g[s] = IF Contains(g[s \ {Max(s)}], raw[Max(s)].name) THEN g[s \ {Max(s)}]
                 ELSE Append(g[s \ {Max(s)}], raw[Max(s)].name)
      <3> HIDE DEF A, P
      <3> QED  BY <1>2, <1>4 DEF Lists
    <2> HIDE DEF A
    <2>5. g[s] \in A
      BY <2>1, <2>3, <2>4
    <2> QED  BY <2>5
  <1>5. \A s \in SUBSET D : s \in P
    <2> HIDE DEF P
    <2> QED  BY <1>1, <1>3, <1>4, Parts
  <1> QED  BY <1>2, <1>5

\* No more names are listed than entries, and as many only if the entries are
\* of different names, which are then listed in their order.
LEMMA MentionedInFull ==
  ASSUME NEW raw \in Seq(Item)
  PROVE  /\ Len(Mentioned(raw)) <= Len(raw)
         /\ Len(Mentioned(raw)) = Len(raw) =>
              /\ \A i \in DOMAIN raw : Mentioned(raw)[i] = raw[i].name
              /\ \A i, j \in DOMAIN raw : raw[i].name = raw[j].name => i = j
  <1> DEFINE n == Len(raw)
  <1>1. n \in Nat /\ DOMAIN raw = 1 .. n
    BY Numbered
  <1>2. PICK g : Lists(raw, g) /\ Mentioned(raw) = g[1 .. n]
    BY <1>1, MentionedIsFold
  <1> DEFINE said == {raw[i].name : i \in 1 .. n}
             Full(k) == /\ g[1 .. k] \in Seq(said)
                        /\ Len(g[1 .. k]) <= k
                        /\ Len(g[1 .. k]) = k =>
                             /\ \A i \in 1 .. k : g[1 .. k][i] = raw[i].name
                             /\ \A i, j \in 1 .. k : raw[i].name = raw[j].name => i = j
             P == {k \in Nat : k <= n => Full(k)}
  <1>3. 0 \in P
    <2>1. 1 .. 0 = {} /\ {} \in SUBSET DOMAIN raw
      OBVIOUS
    <2>2. g[1 .. 0] = <<>>
      BY <1>2, <2>1 DEF Lists
    <2>3. Full(0)
      BY <2>1, <2>2
    <2> QED  BY <2>3
  <1>4. ASSUME NEW k \in Nat, k \in P PROVE k + 1 \in P
    <2> SUFFICES ASSUME k + 1 <= n PROVE Full(k + 1)
      OBVIOUS
    <2> DEFINE old == g[1 .. k]
               new == g[1 .. k + 1]
               name == raw[k + 1].name
    <2>1. Full(k)
      BY <1>1, <1>4
    <2>2. new = IF Contains(old, name) THEN old ELSE Append(old, name)
      <3> DEFINE s == 1 .. k + 1
      <3>1. s \in SUBSET DOMAIN raw
        BY <1>1
      <3>2. s # {} /\ Max(s) = k + 1 /\ s \ {k + 1} = 1 .. k
        BY Prefix
      <3> HIDE DEF n, said, P, s
      <3>3. g[s] = IF Contains(g[s \ {Max(s)}], raw[Max(s)].name) THEN g[s \ {Max(s)}]
                   ELSE Append(g[s \ {Max(s)}], raw[Max(s)].name)
        BY <1>2, <3>1, <3>2 DEF Lists
      <3> QED  BY <3>2, <3>3 DEF s
    <2>3. name \in said /\ old \in Seq(said) /\ Len(old) \in Nat /\ Len(old) <= k
      BY <1>1, <2>1
    <2>4. CASE Contains(old, name)
      BY <2>1, <2>2, <2>3, <2>4
    <2>5. CASE ~ Contains(old, name)
      <3>1. /\ new \in Seq(said) /\ Len(new) = Len(old) + 1
            /\ \A i \in 1 .. Len(old) : new[i] = old[i]
            /\ new[Len(old) + 1] = name
        <4> HIDE DEF old, new, said, name
        <4> QED  BY <2>2, <2>3, <2>5, AppendProperties
      <3>2. ASSUME Len(new) = k + 1
            PROVE  /\ \A i \in 1 .. k + 1 : new[i] = raw[i].name
                   /\ \A i, j \in 1 .. k + 1 : raw[i].name = raw[j].name => i = j
        <4>1. Len(old) = k
          BY <2>3, <3>1, <3>2
        <4>2. /\ \A i \in 1 .. k : old[i] = raw[i].name
              /\ \A i, j \in 1 .. k : raw[i].name = raw[j].name => i = j
          BY <2>1, <4>1
        <4>3. \A i \in 1 .. k : raw[i].name # name
          BY <2>5, <4>1, <4>2 DEF Contains
        <4>4. \A i \in 1 .. k + 1 : i \in 1 .. k \/ i = k + 1
          OBVIOUS
        <4>5. \A i \in 1 .. k + 1 : new[i] = raw[i].name
          <5> HIDE DEF old, new
          <5> QED  BY <3>1, <4>1, <4>2, <4>4
        <4>6. \A i, j \in 1 .. k + 1 : raw[i].name = raw[j].name => i = j
          BY <4>2, <4>3, <4>4
        <4> QED  BY <4>5, <4>6
      <3>3. Len(new) <= k + 1
        BY <2>3, <3>1
      <3> HIDE DEF new, said
      <3> QED  BY <3>1, <3>2, <3>3 DEF new
    <2> QED  BY <2>4, <2>5
  <1>5. n \in P
    <2>1. Nat \subseteq P
      <3> HIDE DEF P
      <3> QED  BY <1>3, <1>4, Counting
    <2> QED  BY <1>1, <2>1
  <1>6. Full(n)
    BY <1>1, <1>5
  <1> HIDE DEF n
  <1> QED  BY <1>1, <1>2, <1>6 DEF n

\* A string that occurs is wanted at least as often as it is asked for there.
LEMMA WantedIsEnough ==
  ASSUME NEW raw \in Seq(Item), NEW i \in DOMAIN raw
  PROVE  Wanted(raw, raw[i].name) \in Nat \ {0} /\ raw[i].qty <= Wanted(raw, raw[i].name)
  <1> DEFINE f == [j \in DOMAIN raw |-> IF raw[j].name = raw[i].name THEN raw[j].qty ELSE 0]
  <1>1. Wanted(raw, raw[i].name) = SumFunction(f)
    BY DEF Wanted, SumOf
  <1>2. IsFiniteSet(DOMAIN raw) /\ \A j \in DOMAIN raw : raw[j] \in Item
    BY Numbered
  <1>3. DOMAIN f = DOMAIN raw /\ \A j \in DOMAIN raw : f[j] \in Nat
    BY <1>2 DEF Item
  <1>4. f[i] = raw[i].qty /\ f[i] \in Nat \ {0}
    BY <1>2 DEF Item
  <1> HIDE DEF f
  <1>5. SumFunction(f) \in Nat /\ f[i] <= SumFunction(f)
    BY <1>2, <1>3, SumOfNaturals
  <1> QED  BY <1>1, <1>4, <1>5

\* Merged lists names of the request, each with a quantity in range.
LEMMA MergedItems ==
  ASSUME NEW raw \in Seq(Item)
  PROVE  Merged(raw) \in Seq([name : {raw[i].name : i \in DOMAIN raw}, qty : 1 .. MaxQty])
  <1> DEFINE names == Mentioned(raw)
             said == {raw[i].name : i \in DOMAIN raw}
  <1>1. names \in Seq(said)
    BY MentionedNames
  <1>2. ASSUME NEW i \in DOMAIN names
        PROVE  Merged(raw)[i] \in [name : said, qty : 1 .. MaxQty]
    <2>1. names[i] \in said
      <3> HIDE DEF names, said
      <3> QED  BY <1>1
    <2>2. Wanted(raw, names[i]) \in Nat \ {0} /\ MaxQty \in Nat \ {0}
      BY <2>1, WantedIsEnough, LimitsAreNaturals
    <2>3. Min({Wanted(raw, names[i]), MaxQty}) \in 1 .. MaxQty
      <3> DEFINE both == {Wanted(raw, names[i]), MaxQty}
      <3>1. both \subseteq Nat /\ both # {} /\ MaxQty \in both /\ 0 \notin both
        BY <2>2
      <3>2. Min(both) \in both /\ Min(both) <= MaxQty
        <4> HIDE DEF both
        <4> QED  BY <3>1, MinIsMember
      <3> QED  BY <2>2, <3>1, <3>2
    <2>4. Merged(raw)[i] = [name |-> names[i], qty |-> Min({Wanted(raw, names[i]), MaxQty})]
      BY DEF Merged
    <2> QED  BY <2>1, <2>3, <2>4
  <1>3. DOMAIN Merged(raw) = DOMAIN names
    BY DEF Merged
  <1>4. Len(names) \in Nat /\ DOMAIN names = 1 .. Len(names)
    <2> HIDE DEF names, said
    <2> QED  BY <1>1
  <1>5. Merged(raw) = [i \in DOMAIN names |-> Merged(raw)[i]]
    BY DEF Merged
  <1>6. Merged(raw) \in [1 .. Len(names) -> [name : said, qty : 1 .. MaxQty]]
    <2> HIDE DEF names, said
    <2> QED  BY <1>2, <1>4, <1>5
  <1>7. Merged(raw) \in Seq([name : said, qty : 1 .. MaxQty])
    <2> DEFINE S == [name : said, qty : 1 .. MaxQty]
    <2>1. Merged(raw) \in [1 .. Len(names) -> S]
      BY <1>6
    <2>2. Merged(raw) \in Seq(S)
      <3> HIDE DEF names, S
      <3> QED  BY <1>4, <2>1, SeqDef
    <2> QED  BY <2>2
  <1> QED  BY <1>7

\* One line of price_line_items, and the lines with it, if its name is priced.
Priced(it, trusted) == LET t == trusted[it.name] IN
    [sku |-> t.sku, qty |-> it.qty, unit |-> t.unit, fee |-> t.fee]
Adds(lines, it, trusted) ==
    IF it.name \notin DOMAIN trusted THEN lines ELSE Append(lines, Priced(it, trusted))

\* What FoldLeft computes for PriceLines: g prices every part.
Quotes(m, trusted, g) ==
    g = [s \in SUBSET DOMAIN m |->
            IF s = {} THEN <<>> ELSE Adds(g[s \ {Max(s)}], m[Max(s)], trusted)]

MergedItem == [name : Names, qty : 1 .. MaxQty]

\* What is merged is items, one for each name listed.
LEMMA MergedIsItems ==
  ASSUME NEW raw \in Seq(Item)
  PROVE  /\ Merged(raw) \in Seq(MergedItem)
         /\ Len(Merged(raw)) = Len(Mentioned(raw))
  <1> DEFINE said == {raw[i].name : i \in DOMAIN raw}
  <1>1. Merged(raw) \in Seq([name : said, qty : 1 .. MaxQty])
    BY MergedItems
  <1>2. said \subseteq Names
    <2>1. \A i \in DOMAIN raw : raw[i] \in Item
      BY Numbered
    <2> QED  BY <2>1 DEF Item
  <1>3. [name : said, qty : 1 .. MaxQty] \subseteq MergedItem
    BY <1>2 DEF MergedItem
  <1>4. Merged(raw) \in Seq(MergedItem)
    <2> DEFINE S == [name : said, qty : 1 .. MaxQty]
    <2>1. Merged(raw) \in Seq(S) /\ S \subseteq MergedItem
      BY <1>1, <1>3
    <2> HIDE DEF S
    <2> QED  BY <2>1, SeqDef
  <1>5. DOMAIN Merged(raw) = DOMAIN Mentioned(raw)
    BY DEF Merged
  <1>6. /\ Len(Merged(raw)) \in Nat /\ DOMAIN Merged(raw) = 1 .. Len(Merged(raw))
        /\ Len(Mentioned(raw)) \in Nat /\ DOMAIN Mentioned(raw) = 1 .. Len(Mentioned(raw))
    <2>1. Mentioned(raw) \in Seq(said)
      BY MentionedNames
    <2> HIDE DEF said
    <2>2. Len(Merged(raw)) \in Nat /\ DOMAIN Merged(raw) = 1 .. Len(Merged(raw))
      BY <1>4, Numbered
    <2>3. Len(Mentioned(raw)) \in Nat /\ DOMAIN Mentioned(raw) = 1 .. Len(Mentioned(raw))
      BY <2>1, Numbered
    <2> QED  BY <2>2, <2>3
  <1>7. \A a, b \in Nat : 1 .. a = 1 .. b => a = b
    <2> SUFFICES ASSUME NEW a \in Nat, NEW b \in Nat, 1 .. a = 1 .. b PROVE a = b
      OBVIOUS
    <2>1. a # 0 => a \in 1 .. b
      OBVIOUS
    <2>2. b # 0 => b \in 1 .. a
      OBVIOUS
    <2>3. (a = 0 => ~ (1 \in 1 .. b)) /\ (b = 0 => ~ (1 \in 1 .. a))
      OBVIOUS
    <2> QED  BY <2>1, <2>2, <2>3
  <1> HIDE DEF said
  <1> QED  BY <1>4, <1>5, <1>6, <1>7

\* An item priced honestly is a line at a price its product may have.
LEMMA PricedItem ==
  ASSUME NEW trusted, Honest(trusted), NEW it \in MergedItem, it.name \in DOMAIN trusted
  PROVE  Priced(it, trusted) \in ListedLine
  <1> DEFINE t == trusted[it.name]
  <1>1. t.sku \in Products /\ [unit |-> t.unit, fee |-> t.fee] \in Prices[t.sku]
    BY DEF Honest
  <1>2. [unit |-> t.unit, fee |-> t.fee] \in [unit : Nat, fee : Nat]
    BY <1>1, PricesArePrices DEF Price
  <1>3. t.unit \in Nat /\ t.fee \in Nat
    <2>1. \A u, f : [unit |-> u, fee |-> f] \in [unit : Nat, fee : Nat] => u \in Nat /\ f \in Nat
      <3> TAKE u, f
      <3> DEFINE r == [unit |-> u, fee |-> f]
      <3> HAVE r \in [unit : Nat, fee : Nat]
      <3>1. r.unit = u /\ r.fee = f
        OBVIOUS
      <3>2. r.unit \in Nat /\ r.fee \in Nat
        OBVIOUS
      <3> QED  BY <3>1, <3>2
    <2> QED  BY <1>2, <2>1
  <1>4. Priced(it, trusted) = [sku |-> t.sku, qty |-> it.qty, unit |-> t.unit, fee |-> t.fee]
    BY DEF Priced
  <1>5. it.qty \in 1 .. MaxQty
    BY DEF MergedItem
  <1> HIDE DEF t
  <1>6. Priced(it, trusted) \in Line
    BY <1>1, <1>3, <1>4, <1>5 DEF Line
  <1>7. [unit |-> Priced(it, trusted).unit, fee |-> Priced(it, trusted).fee]
           \in Prices[Priced(it, trusted).sku]
    BY <1>1, <1>4
  <1> QED  BY <1>6, <1>7 DEF ListedLine

\* Lines stay such lines as items are added.
LEMMA AddsLines ==
  ASSUME NEW trusted, Honest(trusted), NEW lines \in Seq(ListedLine), NEW it \in MergedItem
  PROVE  Adds(lines, it, trusted) \in Seq(ListedLine)
  BY PricedItem, AppendProperties DEF Adds

\* PriceLines prices all of what is merged.
LEMMA PricedIsFold ==
  ASSUME NEW raw \in Seq(Item), NEW trusted, Honest(trusted)
  PROVE  \E g : Quotes(Merged(raw), trusted, g) /\ PriceLines(raw, trusted) = g[DOMAIN Merged(raw)]
  <1> DEFINE m == Merged(raw)
             D == DOMAIN m
             A == Seq(ListedLine)
             F == [p \in A \X D |-> Adds(p[1], m[p[2]], trusted)]
             c == [s \in SUBSET D |-> Max(s)]
  <1>1. /\ IsFiniteSet(D) /\ \A i \in D : m[i] \in MergedItem
        /\ \A s \in SUBSET D : s # {} => Max(s) \in s
    BY MergedIsItems, Numbered, LastOfPart
  <1>2. <<>> \in A
    OBVIOUS
  <1>3. \A lines \in A, i \in D : Adds(lines, m[i], trusted) \in A
    BY <1>1, AddsLines
  <1> HIDE DEF A, D, m
  <1>4. F \in [A \X D -> A]
    BY <1>3
  <1>5. \A s \in SUBSET D : s # {} => c[s] \in s
    BY <1>1
  <1>6. PICK h : IsFold(h, D, A, <<>>, F, c)
    <2> HIDE DEF F, c
    <2> QED  BY <1>1, <1>2, <1>4, <1>5, Recursion
  <1>7. \A s \in SUBSET D : s # {} => <<h[s \ {Max(s)}], Max(s)>> \in A \X D
    BY <1>1, <1>6 DEF IsFold
  <1>8. \A s \in SUBSET D : s # {} =>
           F[<<h[s \ {c[s]}], c[s]>>] = Adds(h[s \ {Max(s)}], m[Max(s)], trusted)
    BY <1>7
  <1>9. Quotes(m, trusted, h)
    <2> HIDE DEF F, c
    <2> QED  BY <1>6, <1>8 DEF IsFold, Quotes, D
  <1> HIDE DEF F, c
  <1> QED  BY <1>9 DEF m, Quotes, Adds, Priced, PriceLines, FoldLeft, MapThenFoldSet

\* price_line_items at honest prices makes lines at prices the products may have.
LEMMA PricedLines ==
  ASSUME NEW raw \in Seq(Item), NEW trusted, Honest(trusted)
  PROVE  PriceLines(raw, trusted) \in Seq(ListedLine)
  <1> DEFINE m == Merged(raw)
             D == DOMAIN m
             A == Seq(ListedLine)
  <1>1. /\ IsFiniteSet(D) /\ \A i \in D : m[i] \in MergedItem
        /\ \A s \in SUBSET D : s # {} => Max(s) \in s
    BY MergedIsItems, Numbered, LastOfPart
  <1>2. PICK g : Quotes(m, trusted, g) /\ PriceLines(raw, trusted) = g[D]
    BY PricedIsFold
  <1> DEFINE P == {s \in SUBSET D : g[s] \in A}
  <1>3. {} \in P
    <2>1. {} \in SUBSET D /\ <<>> \in A
      OBVIOUS
    <2> HIDE DEF A, m
    <2>2. g[{}] = <<>>
      BY <1>2, <2>1 DEF Quotes
    <2> QED  BY <2>1, <2>2
  <1>4. ASSUME NEW s \in SUBSET D, s # {}, \A x \in s : s \ {x} \in P PROVE s \in P
    <2>1. Max(s) \in s /\ g[s \ {Max(s)}] \in A /\ m[Max(s)] \in MergedItem
      BY <1>1, <1>4
    <2>2. g[s] = Adds(g[s \ {Max(s)}], m[Max(s)], trusted)
      <3> HIDE DEF m, A, P
      <3> QED  BY <1>2, <1>4 DEF Quotes
    <2>3. g[s] \in A
      BY <2>1, <2>2, AddsLines
    <2> HIDE DEF A
    <2> QED  BY <2>3
  <1>5. D \in P
    <2>1. \A s \in SUBSET D : s \in P
      <3> HIDE DEF P
      <3> QED  BY <1>1, <1>3, <1>4, Parts
    <2> QED  BY <2>1
  <1> HIDE DEF D, m, A
  <1>6. g[D] \in A
    BY <1>5
  <1> QED  BY <1>2, <1>6 DEF A

\* No more lines than items, and as many only if every item is priced, in order.
LEMMA PricedInFull ==
  ASSUME NEW raw \in Seq(Item), NEW trusted, Honest(trusted)
  PROVE  LET m == Merged(raw)  lines == PriceLines(raw, trusted) IN
         /\ Len(lines) <= Len(m)
         /\ Len(lines) = Len(m) => \A i \in DOMAIN m : lines[i] = Priced(m[i], trusted)
  <1> DEFINE m == Merged(raw)
             n == Len(m)
             A == Seq(ListedLine)
  <1>1. n \in Nat /\ DOMAIN m = 1 .. n /\ \A i \in 1 .. n : m[i] \in MergedItem
    BY MergedIsItems, Numbered
  <1>2. PICK g : Quotes(m, trusted, g) /\ PriceLines(raw, trusted) = g[1 .. n]
    BY <1>1, PricedIsFold
  <1> DEFINE Full(k) == /\ g[1 .. k] \in A
                        /\ Len(g[1 .. k]) <= k
                        /\ Len(g[1 .. k]) = k =>
                             \A i \in 1 .. k : g[1 .. k][i] = Priced(m[i], trusted)
             P == {k \in Nat : k <= n => Full(k)}
  <1>3. 0 \in P
    <2>1. 1 .. 0 = {} /\ {} \in SUBSET DOMAIN m
      OBVIOUS
    <2>2. g[1 .. 0] = <<>>
      <3> HIDE DEF m
      <3> QED  BY <1>2, <2>1 DEF Quotes
    <2>3. Full(0)
      BY <2>1, <2>2
    <2> QED  BY <2>3
  <1>4. ASSUME NEW k \in Nat, k \in P PROVE k + 1 \in P
    <2> SUFFICES ASSUME k + 1 <= n PROVE Full(k + 1)
      OBVIOUS
    <2> DEFINE old == g[1 .. k]
               new == g[1 .. k + 1]
               it == m[k + 1]
               line == Priced(it, trusted)
    <2>1. Full(k) /\ it \in MergedItem
      <3> HIDE DEF m
      <3> QED  BY <1>1, <1>4
    <2>2. new = Adds(old, it, trusted)
      <3> DEFINE s == 1 .. k + 1
      <3>1. s \in SUBSET DOMAIN m
        BY <1>1
      <3>2. s # {} /\ Max(s) = k + 1 /\ s \ {k + 1} = 1 .. k
        BY Prefix
      <3> HIDE DEF n, P, s, m
      <3>3. g[s] = Adds(g[s \ {Max(s)}], m[Max(s)], trusted)
        BY <1>2, <3>1, <3>2 DEF Quotes
      <3> QED  BY <3>2, <3>3 DEF s
    <2>3. old \in A /\ Len(old) \in Nat /\ Len(old) <= k
      <3> HIDE DEF m
      <3> QED  BY <2>1
    <2>4. CASE it.name \notin DOMAIN trusted
      <3>1. new = old
        BY <2>2, <2>4 DEF Adds
      <3>2. Len(old) # k + 1 /\ Len(old) <= k + 1
        BY <2>3
      <3> HIDE DEF old, new, A
      <3> QED  BY <2>3, <3>1, <3>2 DEF new
    <2>5. CASE it.name \in DOMAIN trusted
      <3>1. line \in ListedLine /\ new = Append(old, line)
        BY <2>1, <2>2, <2>5, PricedItem DEF Adds
      <3>2. /\ new \in A /\ Len(new) = Len(old) + 1
            /\ \A i \in 1 .. Len(old) : new[i] = old[i]
            /\ new[Len(old) + 1] = line
        <4> HIDE DEF old, new, line
        <4> QED  BY <2>3, <3>1, AppendProperties
      <3>3. ASSUME Len(new) = k + 1
            PROVE  \A i \in 1 .. k + 1 : new[i] = Priced(m[i], trusted)
        <4>1. Len(old) = k
          BY <2>3, <3>2, <3>3
        <4>2. \A i \in 1 .. k : old[i] = Priced(m[i], trusted)
          BY <2>1, <4>1
        <4>3. \A i \in 1 .. k + 1 : i \in 1 .. k \/ i = k + 1
          OBVIOUS
        <4> HIDE DEF old, new, m
        <4> QED  BY <3>2, <4>1, <4>2, <4>3
      <3>4. Len(new) <= k + 1
        BY <2>3, <3>2
      <3> HIDE DEF new, A
      <3> QED  BY <3>2, <3>3, <3>4 DEF new
    <2> QED  BY <2>4, <2>5
  <1>5. n \in P
    <2>1. Nat \subseteq P
      <3> HIDE DEF P
      <3> QED  BY <1>3, <1>4, Counting
    <2> QED  BY <1>1, <2>1
  <1>6. Full(n)
    BY <1>1, <1>5
  <1> HIDE DEF n, m, A
  <1> QED  BY <1>1, <1>2, <1>6 DEF n, m

-----------------------------------------------------------------------------
(* The invariant.                                                          *)

\* The catalogue lists products at prices they may have.
Published == \A p \in Products : catalogue[p].price \in Prices[p]

\* An order's money is what apply_offer makes of its own lines and offer, and
\* the guardrail, trusting the lines' prices, lets it through.
Sound(o) ==
    /\ o.lines \in Seq(ListedLine)
    /\ LET new == ApplyOffer(o.lines, o.offer) IN
         /\ o.pct = new.pct /\ o.subtotal = new.subtotal
         /\ o.discount = new.discount /\ o.amount = new.amount
    /\ Allowed(o, Own(o.lines))

\* The inductive invariant.
MInv ==
    /\ TypeOK
    /\ Published
    /\ order # NoOrder => Sound(order)

\* A price is two naturals.
LEMMA PriceFields ==
  ASSUME NEW p \in Products, NEW price \in Prices[p]
  PROVE  /\ price \in Price /\ price.unit \in Nat /\ price.fee \in Nat
         /\ [unit |-> price.unit, fee |-> price.fee] = price
  <1>1. price \in [unit : Nat, fee : Nat]
    BY PricesArePrices DEF Price
  <1> QED  BY <1>1 DEF Price

\* A listed line is a line, and a sequence of listed lines one of lines.
LEMMA ListedLines ==
  ASSUME NEW lines \in Seq(ListedLine)
  PROVE  /\ lines \in Seq(Line)
         /\ DOMAIN lines = 1 .. Len(lines) /\ Len(lines) \in Nat
         /\ \A i \in DOMAIN lines : lines[i] \in ListedLine /\ lines[i] \in Line
  <1>1. ListedLine \subseteq Line
    BY DEF ListedLine
  <1> HIDE DEF ListedLine, Line
  <1> QED  BY <1>1, Numbered, SeqDef

\* The guardrail looks at the money only.
LEMMA AllowedOnMoney ==
  ASSUME NEW o, NEW p, NEW t,
         p.lines = o.lines, p.subtotal = o.subtotal, p.pct = o.pct,
         p.discount = o.discount, p.amount = o.amount
  PROVE  Allowed(o, t) <=> Allowed(p, t)
  BY DEF Allowed

\* What the guardrail lets through is sound.
LEMMA AppliedIsSound ==
  ASSUME NEW lines \in Seq(ListedLine), NEW o \in DOMAIN Offers,
         Allowed(ApplyOffer(lines, o), Own(lines))
  PROVE  ApplyOffer(lines, o) \in Order /\ Sound(ApplyOffer(lines, o))
  <1> DEFINE new == ApplyOffer(lines, o)
  <1>1. new.lines = lines
    BY DEF ApplyOffer
  <1>2. lines # <<>> /\ lines \in Seq(Line)
    BY <1>1, ListedLines DEF Allowed
  <1>3. new \in Order /\ ApplyOffer(lines, new.offer) = new
    BY <1>2, OfferApplied, OfferKept
  <1>4. Allowed(new, Own(lines))
    OBVIOUS
  <1> HIDE DEF new
  <1>5. Sound(new)
    BY <1>1, <1>3, <1>4 DEF Sound
  <1> QED  BY <1>3, <1>5 DEF new

\* A suggestion may come or go.
LEMMA SuggestionKept ==
  ASSUME NEW o \in Order, Sound(o), NEW x,
         NEW p, \/ p = [o EXCEPT !.extra = x] /\ x \in {NoProduct} \cup Products
                \/ p = [o EXCEPT !.better = x] /\ x \in {NoProduct} \cup DOMAIN Upgrades
  PROVE  p \in Order /\ Sound(p)
  <1>1. /\ p \in Order
        /\ p.lines = o.lines /\ p.offer = o.offer /\ p.pct = o.pct
        /\ p.subtotal = o.subtotal /\ p.discount = o.discount /\ p.amount = o.amount
    BY Suggested
  <1>2. Allowed(p, Own(p.lines))
    BY <1>1, AllowedOnMoney DEF Sound
  <1> QED  BY <1>1, <1>2 DEF Sound

-----------------------------------------------------------------------------
(* What a name finds.                                                      *)

\* A name that resolves finds one of its rows, which is active, at its price.
LEMMA FoundRow ==
  ASSUME TypeOK, NEW name \in Names, Resolves(name)
  PROVE  \E i \in DOMAIN Rows[name] : LET p == Rows[name][i] IN
           /\ p \in Products /\ catalogue[p].active
           /\ Found(name) = [sku |-> p, unit |-> catalogue[p].price.unit,
                             fee |-> catalogue[p].price.fee]
  <1>1. Rows[name] \in Seq(Products)
    BY NamesResolve
  <1>2. Active(name) \subseteq Nat /\ Active(name) # {}
    BY <1>1 DEF Active, Resolves
  <1>3. Min(Active(name)) \in Active(name)
    BY <1>2, MinIsMember
  <1> DEFINE i == Min(Active(name))
  <1>4. i \in DOMAIN Rows[name] /\ catalogue[Rows[name][i]].active
    BY <1>3 DEF Active
  <1>5. Rows[name][i] \in Products
    BY <1>1, <1>4
  <1> QED  BY <1>4, <1>5 DEF Found

\* An active product's own name finds it.
LEMMA OwnRow ==
  ASSUME NEW p \in Products, catalogue[p].active
  PROVE  Resolves(p) /\ Found(p) = [sku |-> p, unit |-> catalogue[p].price.unit,
                                    fee |-> catalogue[p].price.fee]
  <1>1. Rows[p] \in Seq(Products) /\ Rows[p] # <<>> /\ Rows[p][1] = p
    BY NamesResolve
  <1>2. Active(p) \subseteq Nat \ {0} /\ 1 \in Active(p)
    BY <1>1 DEF Active
  <1>3. Min(Active(p)) \in Active(p) /\ Min(Active(p)) <= 1
    <2>1. Active(p) \subseteq Nat /\ Active(p) # {}
      BY <1>2
    <2> QED  BY <1>2, <2>1, MinIsMember
  <1>4. Min(Active(p)) = 1
    BY <1>2, <1>3
  <1> QED  BY <1>1, <1>2, <1>4 DEF Resolves, Found

\* What a lookup finds is honest.
LEMMA FoundIsHonest ==
  ASSUME MInv, NEW name \in Names, Resolves(name)
  PROVE  /\ Found(name).sku \in Products
         /\ [unit |-> Found(name).unit, fee |-> Found(name).fee] \in Prices[Found(name).sku]
  <1>1. PICK p \in Products :
           Found(name) = [sku |-> p, unit |-> catalogue[p].price.unit, fee |-> catalogue[p].price.fee]
    BY FoundRow DEF MInv
  <1>2. catalogue[p].price \in Prices[p]
    BY DEF MInv, Published
  <1> QED  BY <1>1, <1>2, PriceFields

\* The prices an order has of its own are its last lines' for each product.
LEMMA OwnLines ==
  ASSUME NEW lines \in Seq(Line)
  PROVE  /\ DOMAIN Own(lines) = Skus(lines) /\ Skus(lines) \subseteq Products
         /\ \A p \in Skus(lines) : \E i \in DOMAIN lines : Own(lines)[p] = lines[i] /\ lines[i].sku = p
  <1>1. Len(lines) \in Nat /\ DOMAIN lines = 1 .. Len(lines) /\ \A i \in DOMAIN lines : lines[i] \in Line
    BY Numbered
  <1>2. DOMAIN Own(lines) = Skus(lines) /\ Skus(lines) \subseteq Products
    BY <1>1 DEF Own, Skus, Line
  <1>3. ASSUME NEW p \in Skus(lines)
        PROVE  \E i \in DOMAIN lines : Own(lines)[p] = lines[i] /\ lines[i].sku = p
    <2> DEFINE S == {i \in DOMAIN lines : lines[i].sku = p}
    <2>1. S \subseteq 1 .. Len(lines) /\ S # {}
      BY <1>1 DEF Skus
    <2>2. Own(lines)[p] = lines[Max(S)]
      BY DEF Own
    <2>3. Max(S) \in S
      <3> HIDE DEF S
      <3> QED  BY <1>1, <2>1, MaxIsMember
    <2> QED  BY <2>2, <2>3
  <1> QED  BY <1>2, <1>3

-----------------------------------------------------------------------------
(* Every step keeps the invariant.                                         *)

\* Honest prices: those looked up, and an order's own with one looked up now.
LEMMA LookupIsHonest ==
  ASSUME MInv, NEW names \in SUBSET Names
  PROVE  Honest(Lookup(names))
  <1>1. \A n \in DOMAIN Lookup(names) :
           n \in Names /\ Resolves(n) /\ Lookup(names)[n] = Found(n)
    BY DEF Lookup
  <1> QED  BY <1>1, FoundIsHonest DEF Honest

LEMMA WithIsHonest ==
  ASSUME MInv, NEW lines \in Seq(ListedLine), NEW p \in Names, Resolves(p)
  PROVE  Honest(With(lines, p))
  <1>1. lines \in Seq(Line) /\ \A i \in DOMAIN lines : lines[i] \in ListedLine
    BY ListedLines
  <1>2. ASSUME NEW n \in DOMAIN With(lines, p), n # p
        PROVE  \E i \in DOMAIN lines : With(lines, p)[n] = lines[i]
    <2>1. n \in Skus(lines) /\ With(lines, p)[n] = Own(lines)[n]
      BY <1>2 DEF With
    <2> QED  BY <1>1, <2>1, OwnLines
  <1>3. p \in DOMAIN With(lines, p) /\ With(lines, p)[p] = Found(p)
    BY DEF With
  <1>4. \A l \in ListedLine : l.sku \in Products /\ [unit |-> l.unit, fee |-> l.fee] \in Prices[l.sku]
    BY DEF ListedLine, Line
  <1> QED  BY <1>1, <1>2, <1>3, <1>4, FoundIsHonest DEF Honest

\* An order's lines, proposed again, are a request.
LEMMA AgainIsRequest ==
  ASSUME NEW lines \in Seq(Line), NEW old, NEW new \in Names
  PROVE  Again(lines, old, new) \in Seq(Item)
  <1>1. Len(lines) \in Nat /\ DOMAIN lines = 1 .. Len(lines)
        /\ \A i \in DOMAIN lines : lines[i] \in Line
    BY Numbered
  <1>2. \A l \in Line : l.sku \in Names /\ l.qty \in Nat \ {0}
    BY NamesResolve, LimitsAreNaturals DEF Line
  <1>3. Again(lines, old, new) \in [1 .. Len(lines) -> Item]
    BY <1>1, <1>2 DEF Again, Item
  <1> HIDE DEF Item
  <1> QED  BY <1>1, <1>3, SeqDef

\* The order in hand.
LEMMA InHand ==
  ASSUME MInv, order # NoOrder
  PROVE  /\ order \in Order /\ Sound(order)
         /\ order.lines \in Seq(ListedLine) /\ order.lines \in Seq(Line) /\ order.lines # <<>>
         /\ order.offer \in DOMAIN Offers
         /\ order.extra \in {NoProduct} \cup Products
         /\ order.better \in {NoProduct} \cup DOMAIN Upgrades
  <1>1. order \in Order /\ Sound(order)
    BY DEF MInv, TypeOK
  <1>2. order.lines \in Seq(ListedLine) /\ order.lines \in Seq(Line)
    BY <1>1, ListedLines DEF Sound
  <1> QED  BY <1>1, <1>2 DEF Order

\* The enlarged order is a request at honest prices: its own lines, each as it
\* is, and the pairing once.
LEMMA GrownRequest ==
  ASSUME MInv, order # NoOrder, order.extra # NoProduct, Resolves(order.extra)
  PROVE  LET lines == order.lines
             raw == Append(Again(lines, NoProduct, NoProduct), [name |-> order.extra, qty |-> 1])
         IN  /\ raw \in Seq(Item) /\ Len(raw) = Len(lines) + 1
             /\ \A i \in DOMAIN lines : raw[i] = [name |-> lines[i].sku, qty |-> lines[i].qty]
             /\ raw[Len(lines) + 1].name = order.extra
             /\ Honest(With(lines, order.extra))
             /\ Grown = PriceLines(raw, With(lines, order.extra))
  <1> DEFINE lines == order.lines
             again == Again(lines, NoProduct, NoProduct)
             item == [name |-> order.extra, qty |-> 1]
             raw == Append(again, item)
  <1>1. lines \in Seq(ListedLine) /\ lines \in Seq(Line) /\ order.extra \in Products
    BY InHand
  <1>2. again = [i \in DOMAIN lines |-> [name |-> lines[i].sku, qty |-> lines[i].qty]]
    <2>1. \A i \in DOMAIN lines : lines[i] \in Line
      BY <1>1, ListedLines
    <2>2. \A i \in DOMAIN lines : lines[i].sku # NoProduct
      BY <2>1, NamesResolve DEF Line
    <2> QED  BY <2>2 DEF Again
  <1>3. again \in Seq(Item)
    <2>1. again = Again(lines, NoProduct, order.extra)
      <3>1. \A i \in DOMAIN lines : lines[i].sku # NoProduct
        <4>1. \A i \in DOMAIN lines : lines[i] \in Line
          BY <1>1, ListedLines
        <4> QED  BY <4>1, NamesResolve DEF Line
      <3> QED  BY <3>1 DEF Again
    <2> HIDE DEF again
    <2> QED  BY <1>1, <2>1, AgainIsRequest, NamesResolve
  <1>4. Len(again) = Len(lines) /\ DOMAIN lines = 1 .. Len(lines) /\ Len(lines) \in Nat
    BY <1>1, <1>2, ListedLines
  <1>5. item \in Item /\ item.name = order.extra
    BY <1>1, NamesResolve DEF Item
  <1> HIDE DEF again, item
  <1>6. /\ raw \in Seq(Item) /\ Len(raw) = Len(lines) + 1
        /\ \A i \in 1 .. Len(lines) : raw[i] = again[i]
        /\ raw[Len(lines) + 1] = item
    BY <1>3, <1>4, <1>5, AppendProperties
  <1>7. Honest(With(lines, order.extra))
    BY <1>1, WithIsHonest, NamesResolve
  <1>8. Grown = PriceLines(raw, With(lines, order.extra))
    BY DEF Grown, again, item
  <1>9. \A i \in DOMAIN lines : raw[i] = [name |-> lines[i].sku, qty |-> lines[i].qty]
    <2> HIDE DEF raw
    <2> QED  BY <1>2, <1>4, <1>6
  <1>10. raw[Len(lines) + 1].name = order.extra
    BY <1>5, <1>6
  <1> QED  BY <1>6, <1>7, <1>8, <1>9, <1>10 DEF again, item

\* The pairings and the step-ups let through are products and registered pairs.
LEMMA Suggestions ==
  ASSUME MInv, NEW lines
  PROVE  Pairings(lines) \subseteq Products /\ StepUps(lines) \subseteq DOMAIN Upgrades
  BY FoundIsHonest DEF Pairings, StepUps

\* An order is stored, and nothing else of the types is touched.
LEMMA Stored ==
  ASSUME MInv, order' \in Order, Sound(order'), catalogue' = catalogue,
         link' \in {"none", "repriced", "unpriced"},
         proposals' \in 0 .. MaxProposals, edits' = edits
  PROVE  MInv'
  <1>1. TypeOK'
    BY DEF MInv, TypeOK
  <1> QED  BY <1>1 DEF MInv, Published

\* The best offer is one of the registry.
LEMMA BestIsOffer ==
  ASSUME NEW lines
  PROVE  /\ Best(lines) \in DOMAIN Offers
         /\ \A o \in DOMAIN Offers : Effective(o) > 0 /\ Entitled(lines, o) =>
               Effective(o) <= Effective(Best(lines)) /\ Entitled(lines, Best(lines))
  <1> DEFINE good == {o \in DOMAIN Offers : Effective(o) > 0 /\ Entitled(lines, o)}
             rates == {Effective(o) : o \in good}
  <1>1. CASE good = {}
    BY <1>1, RegistryHasNone DEF Best
  <1>2. CASE good # {}
    <2>1. rates \subseteq 0 .. 100 /\ rates # {}
      BY <1>2, EffectiveRange
    <2>2. \E r \in rates : \A q \in rates : r >= q
      <3> HIDE DEF rates
      <3> QED  BY <2>1, Greatest
    <2>3. PICK o \in good : \A q \in good : Effective(o) >= Effective(q)
      BY <2>2
    <2>4. \A q \in good : Effective(q) \in Nat
      BY EffectiveRange
    <2>5. \E b \in good : \A q \in good : Effective(q) <= Effective(b)
      BY <2>3, <2>4
    <2>6. Best(lines) = Dearest(good)
      BY <1>2 DEF Best
    <2> HIDE DEF good
    <2>7. Dearest(good) \in good /\ \A q \in good : Effective(q) <= Effective(Dearest(good))
      BY <2>5 DEF Dearest
    <2> QED  BY <2>6, <2>7 DEF good
  <1> QED  BY <1>1, <1>2

LEMMA InitMInv == Init => MInv
  <1> SUFFICES ASSUME Init PROVE MInv
    OBVIOUS
  <1>1. catalogue \in [Products -> [price : Price, active : BOOLEAN]]
    <2>1. \A p \in Products : Prices[p] \subseteq Price
      BY PricesArePrices
    <2>2. UNION {Prices[p] : p \in Products} \subseteq Price
      BY <2>1
    <2> DEFINE U == UNION {Prices[p] : p \in Products}
    <2>3. catalogue \in [Products -> [price : U, active : {TRUE}]]
      BY DEF Init
    <2>4. [price : U, active : {TRUE}] \subseteq [price : Price, active : BOOLEAN]
      BY <2>2
    <2> HIDE DEF U
    <2> QED  BY <2>3, <2>4
  <1>2. TypeOK
    BY <1>1, LimitsAreNaturals DEF Init, TypeOK
  <1> QED  BY <1>2 DEF Init, MInv, Published

\* A new order: what the offer makes of the lines, with both suggestions.
LEMMA ProposeKeeps == ASSUME MInv, Propose PROVE MInv'
  <1>1. PICK raw \in Requests, o \in DOMAIN Offers :
           LET names == {raw[i].name : i \in DOMAIN raw}
               lines == PriceLines(raw, Lookup(names))
               new == ApplyOffer(lines, o)
           IN  /\ Allowed(new, Own(lines))
               /\ \E extra \in {NoProduct} \cup Pairings(lines),
                     better \in {NoProduct} \cup StepUps(lines) :
                    Show([new EXCEPT !.extra = extra, !.better = better])
    BY DEF Propose
  <1> DEFINE names == {raw[i].name : i \in DOMAIN raw}
             lines == PriceLines(raw, Lookup(names))
             new == ApplyOffer(lines, o)
  <1>2. raw \in Seq(Item)
    BY LimitsAreNaturals DEF Item
  <1>3. names \in SUBSET Names
    <2>1. \A i \in DOMAIN raw : raw[i] \in Item
      BY <1>2, Numbered
    <2> QED  BY <2>1 DEF Item
  <1>4. lines \in Seq(ListedLine)
    <2> HIDE DEF names
    <2> QED  BY <1>2, <1>3, LookupIsHonest, PricedLines
  <1>5. PICK extra \in {NoProduct} \cup Products, better \in {NoProduct} \cup DOMAIN Upgrades :
           Show([[new EXCEPT !.extra = extra] EXCEPT !.better = better])
    <2> HIDE DEF names
    <2> QED  BY <1>1, Suggestions DEF names
  <1>6. Allowed(new, Own(lines))
    BY <1>1
  <1>7. new \in Order /\ Sound(new)
    <2> HIDE DEF lines
    <2> QED  BY <1>4, <1>6, AppliedIsSound
  <1> HIDE DEF new, lines
  <1> DEFINE one == [new EXCEPT !.extra = extra]
             both == [one EXCEPT !.better = better]
  <1>8. one \in Order /\ Sound(one)
    BY <1>7, SuggestionKept
  <1>9. order' = both /\ link' = "none"
    BY <1>5 DEF Show
  <1>10. both \in Order /\ Sound(both)
    <2> HIDE DEF one
    <2> QED  BY <1>8, SuggestionKept
  <1>11. catalogue' = catalogue /\ edits' = edits /\ proposals' \in 0 .. MaxProposals
    <2>1. proposals \in 0 .. MaxProposals /\ MaxProposals \in Nat
      BY LimitsAreNaturals DEF MInv, TypeOK
    <2> QED  BY <2>1 DEF Propose
  <1> HIDE DEF both
  <1> QED  BY <1>9, <1>10, <1>11, Stored

\* The apply tap: the same lines, the best offer, the suggestions kept.
LEMMA ApplyBestKeeps == ASSUME MInv, ApplyBest PROVE MInv'
  <1> DEFINE lines == order.lines
             new == ApplyOffer(lines, Best(lines))
             one == [new EXCEPT !.extra = order.extra]
             both == [one EXCEPT !.better = order.better]
  <1>1. /\ order # NoOrder /\ Allowed(new, Own(lines))
        /\ order' = both /\ link' = "none"
        /\ UNCHANGED <<catalogue, proposals, edits>>
    BY DEF ApplyBest, Show
  <1>2. /\ lines \in Seq(ListedLine) /\ Best(lines) \in DOMAIN Offers
        /\ order.extra \in {NoProduct} \cup Products
        /\ order.better \in {NoProduct} \cup DOMAIN Upgrades
    BY <1>1, InHand, BestIsOffer
  <1>3. new \in Order /\ Sound(new)
    <2> HIDE DEF lines
    <2> QED  BY <1>1, <1>2, AppliedIsSound
  <1>4. one \in Order /\ Sound(one)
    <2> HIDE DEF new
    <2> QED  BY <1>2, <1>3, SuggestionKept
  <1>5. both \in Order /\ Sound(both)
    <2> HIDE DEF one
    <2> QED  BY <1>2, <1>4, SuggestionKept
  <1>6. proposals' \in 0 .. MaxProposals
    BY <1>1 DEF MInv, TypeOK
  <1> HIDE DEF both
  <1> QED  BY <1>1, <1>5, <1>6, Stored

\* The add tap: the enlarged order at the best offer.
LEMMA AddKeeps == ASSUME MInv, AddComplement PROVE MInv'
  <1> DEFINE new == ApplyOffer(Grown, Best(Grown))
             shown == [new EXCEPT !.better = order.better]
  <1>1. /\ order # NoOrder /\ order.extra # NoProduct /\ Resolves(order.extra)
        /\ Allowed(new, Own(Grown)) /\ order' = shown /\ link' = "none"
        /\ UNCHANGED <<catalogue, proposals, edits>>
    BY DEF AddComplement, Show
  <1>2. /\ order.lines \in Seq(ListedLine) /\ order.lines \in Seq(Line)
        /\ order.extra \in Products /\ order.better \in {NoProduct} \cup DOMAIN Upgrades
    BY <1>1, InHand
  <1>3. Grown \in Seq(ListedLine)
    BY <1>1, GrownRequest, PricedLines
  <1>4. new \in Order /\ Sound(new)
    BY <1>1, <1>3, BestIsOffer, AppliedIsSound
  <1>5. shown \in Order /\ Sound(shown)
    <2> HIDE DEF new
    <2> QED  BY <1>2, <1>4, SuggestionKept
  <1>6. proposals' \in 0 .. MaxProposals
    BY <1>1 DEF MInv, TypeOK
  <1> HIDE DEF shown
  <1> QED  BY <1>1, <1>5, <1>6, Stored

\* The swap tap: the step-up in its line's place, at the best offer.
LEMMA SwapKeeps == ASSUME MInv, SwapUpgrade PROVE MInv'
  <1> DEFINE to == Upgrades[order.better]
             new == ApplyOffer(Swapped, Best(Swapped))
             shown == [new EXCEPT !.extra = order.extra]
  <1>1. /\ order # NoOrder /\ order.better \in Skus(order.lines) /\ Resolves(to)
        /\ Allowed(new, Own(Swapped)) /\ order' = shown /\ link' = "none"
        /\ UNCHANGED <<catalogue, proposals, edits>>
    BY DEF SwapUpgrade, Show
  <1>2. /\ order.lines \in Seq(ListedLine) /\ order.lines \in Seq(Line)
        /\ order.extra \in {NoProduct} \cup Products
        /\ order.better \in {NoProduct} \cup DOMAIN Upgrades
    BY <1>1, InHand
  <1>3. to \in Names
    <2>1. order.better \in Products
      BY <1>1, <1>2, OwnLines
    <2> QED  BY <1>2, <2>1, NamesResolve, UpgradesArePairs
  <1>4. Swapped \in Seq(ListedLine)
    <2> HIDE DEF to
    <2>1. Again(order.lines, order.better, to) \in Seq(Item)
      BY <1>2, <1>3, AgainIsRequest
    <2>2. Honest(With(order.lines, to))
      BY <1>1, <1>2, <1>3, WithIsHonest
    <2>3. Swapped = PriceLines(Again(order.lines, order.better, to), With(order.lines, to))
      BY DEF Swapped, to
    <2> QED  BY <2>1, <2>2, <2>3, PricedLines
  <1>5. new \in Order /\ Sound(new)
    BY <1>1, <1>4, BestIsOffer, AppliedIsSound
  <1>6. shown \in Order /\ Sound(shown)
    <2> HIDE DEF new
    <2> QED  BY <1>2, <1>5, SuggestionKept
  <1>7. proposals' \in 0 .. MaxProposals
    BY <1>1 DEF MInv, TypeOK
  <1> HIDE DEF shown
  <1> QED  BY <1>1, <1>6, <1>7, Stored

\* A refused tap takes its suggestion away.
LEMMA RefusedKeeps == ASSUME MInv, AddRefused \/ SwapRefused PROVE MInv'
  <1> DEFINE less == order'
  <1>1. /\ order # NoOrder
        /\ \/ less = [order EXCEPT !.extra = NoProduct]
           \/ less = [order EXCEPT !.better = NoProduct]
        /\ link' \in {link, "none"}
        /\ UNCHANGED <<catalogue, proposals, edits>>
    BY DEF AddRefused, SwapRefused, Show
  <1>2. less \in Order /\ Sound(less)
    <2> HIDE DEF less
    <2>1. order \in Order /\ Sound(order)
      BY <1>1, InHand
    <2> QED  BY <1>1, <2>1, SuggestionKept
  <1>3. proposals' \in 0 .. MaxProposals /\ link' \in {"none", "repriced", "unpriced"}
    BY <1>1 DEF MInv, TypeOK
  <1> QED  BY <1>1, <1>2, <1>3, Stored

\* Minting touches the link only.
LEMMA MintKeeps == ASSUME MInv, Mint \/ MintUnpriced PROVE MInv'
  BY DEF MInv, TypeOK, Published, Mint, MintUnpriced

\* An edit puts one row of the catalogue at a price its product may have.
LEMMA EditKeeps == ASSUME MInv, EditCatalogue PROVE MInv'
  <1>1. PICK p \in Products : \E price \in Prices[p], active \in BOOLEAN :
           catalogue' = [catalogue EXCEPT ![p] = [price |-> price, active |-> active]]
    BY DEF EditCatalogue
  <1>2. PICK price \in Prices[p], active \in BOOLEAN :
           catalogue' = [catalogue EXCEPT ![p] = [price |-> price, active |-> active]]
    BY <1>1
  <1>3. price \in Price
    BY PriceFields
  <1>4. /\ catalogue \in [Products -> [price : Price, active : BOOLEAN]]
        /\ edits \in 0 .. MaxEdits /\ MaxEdits \in Nat
    BY LimitsAreNaturals DEF MInv, TypeOK
  <1>5. catalogue' \in [Products -> [price : Price, active : BOOLEAN]]
    <2> DEFINE row == [price |-> price, active |-> active]
    <2>1. row \in [price : Price, active : BOOLEAN]
      BY <1>3
    <2> HIDE DEF row
    <2> QED  BY <1>2, <1>4, <2>1 DEF row
  <1>6. edits' \in 0 .. MaxEdits
    BY <1>4 DEF EditCatalogue
  <1>7. Published'
    BY <1>2, <1>4 DEF MInv, Published
  <1>8. UNCHANGED <<order, link, proposals>>
    BY DEF EditCatalogue
  <1> QED  BY <1>5, <1>6, <1>7, <1>8 DEF MInv, TypeOK

LEMMA StutterKeepsMoney == ASSUME MInv, UNCHANGED vars PROVE MInv'
  BY DEF MInv, TypeOK, Published, vars

\* The catalogue and the order keep their types, and every order's money is what
\* apply_offer makes of its own lines and what the guardrail accepts.
THEOREM MoneyInvariance == Spec => []MInv
  <1>1. MInv /\ [Next]_vars => MInv'
    BY ProposeKeeps, ApplyBestKeeps, AddKeeps, SwapKeeps, RefusedKeeps, MintKeeps, EditKeeps,
       StutterKeepsMoney DEF Next
  <1> QED  BY InitMInv, <1>1, PTL DEF Spec

-----------------------------------------------------------------------------
(* What the invariant says of quotes and links.                            *)

\* The model writes canonical names, quantities in range and orders whose parts
\* belong together: the types of Money, whatever the taps and the edits.
THEOREM MoneyTypes == Spec => []TypeOK
  BY MoneyInvariance, PTL DEF MInv

\* What the guardrail says of the lines alone.
LinesPass(lines, trusted) == \A i \in DOMAIN lines :
    /\ lines[i].qty \in 1 .. MaxQty
    /\ lines[i].unit > 0
    /\ DOMAIN trusted # {} =>
          /\ lines[i].sku \in DOMAIN trusted
          /\ Near(trusted[lines[i].sku].unit, lines[i].unit)
          /\ Near(trusted[lines[i].sku].fee, lines[i].fee)

\* The guardrail accepts what apply_offer computes, once lines and amount pass.
LEMMA ComputedPasses ==
  ASSUME NEW lines \in Seq(Line), lines # <<>>, NEW o \in DOMAIN Offers, NEW trusted,
         LinesPass(lines, trusted), InBand(ApplyOffer(lines, o).amount)
  PROVE  Allowed(ApplyOffer(lines, o), trusted)
  <1> DEFINE new == ApplyOffer(lines, o)
             value == Subtotal(lines) - Fees(lines)
  <1>1. /\ new.lines = lines /\ new.subtotal = Subtotal(lines)
        /\ new.amount = Subtotal(lines) - new.discount
    BY DEF ApplyOffer
  <1>2. /\ new \in Order /\ new.discount = Percent(value, new.pct) /\ new.discount <= value
    BY OfferApplied
  <1>3. Subtotal(lines) \in Nat /\ value \in Nat
    BY SumsAreNaturals
  <1>4. InBand(new.amount)
    OBVIOUS
  <1> HIDE DEF new
  <1>5. new.pct \in 0 .. MaxPct /\ new.discount \in Nat /\ MaxPct \in Nat
    BY <1>2, LimitsAreNaturals DEF Order
  <1> DEFINE n == new.discount
             total == Subtotal(lines)
  <1>6. /\ Near(new.subtotal, total) /\ Near(n, Percent(value, new.pct))
        /\ n <= value + 1 /\ Near(new.amount, total - n) /\ new.pct <= MaxPct
    <2>1. \A x \in Int : Near(x, x)
      BY DEF Near
    <2>2. total \in Int /\ n \in Int /\ total - n \in Int
      BY <1>3, <1>5
    <2>3. n <= value + 1
      <3> HIDE DEF value, n
      <3> QED  BY <1>2, <1>3, <1>5 DEF n
    <2> HIDE DEF value, n, total
    <2> QED  BY <1>1, <1>2, <1>5, <2>1, <2>2, <2>3 DEF n, total
  <1>7. Allowed(new, trusted)
    <2> HIDE DEF value, total
    <2> QED  BY <1>1, <1>4, <1>6 DEF Allowed, LinesPass, value, total
  <1> QED  BY <1>7 DEF new

\* The lines of an order that passed still pass at their own prices.
LEMMA OwnLinesPass ==
  ASSUME NEW o \in Order, Sound(o)
  PROVE  LinesPass(o.lines, Own(o.lines))
  BY DEF Sound, Allowed, LinesPass

\* discounts.py and guardrails.py agree about the money of every order reached,
\* under every offer, up to the limits on the amount.
THEOREM ArithmeticAlwaysAgrees == Spec => []ArithmeticAgrees
  <1>1. MInv => ArithmeticAgrees
    <2> SUFFICES ASSUME MInv, order # NoOrder, NEW o \in DOMAIN Offers,
                        InBand(ApplyOffer(order.lines, o).amount)
                 PROVE  Allowed(ApplyOffer(order.lines, o), Own(order.lines))
      BY DEF ArithmeticAgrees
    <2> QED  BY InHand, OwnLinesPass, ComputedPasses
  <1> QED  BY <1>1, MoneyInvariance, PTL

\* A quote whose prices are still the catalogue's passes the mint's own check.
THEOREM QuotesArePayable == Spec => []QuoteIsPayable
  <1>1. MInv => QuoteIsPayable
    <2> SUFFICES ASSUME MInv, order # NoOrder, IsCurrent(order)
                 PROVE  Allowed(order, Lookup(Skus(order.lines)))
      BY DEF QuoteIsPayable
    <2> DEFINE lines == order.lines
               trusted == Lookup(Skus(lines))
    <2>1. /\ order \in Order /\ Sound(order) /\ lines \in Seq(Line) /\ lines # <<>>
          /\ \A i \in DOMAIN lines : lines[i] \in Line
      BY InHand, Numbered
    <2>2. LinesPass(lines, trusted)
      <3> SUFFICES ASSUME NEW i \in DOMAIN lines
                   PROVE  /\ lines[i].qty \in 1 .. MaxQty /\ lines[i].unit > 0
                          /\ lines[i].sku \in DOMAIN trusted
                          /\ Near(trusted[lines[i].sku].unit, lines[i].unit)
                          /\ Near(trusted[lines[i].sku].fee, lines[i].fee)
        BY DEF LinesPass
      <3> DEFINE l == lines[i]
                 p == l.sku
      <3>1. l \in Line /\ p \in Products /\ l.unit \in Nat /\ l.fee \in Nat
        BY <2>1 DEF Line
      <3>2. l.qty \in 1 .. MaxQty /\ l.unit > 0
        BY <2>1, OwnLinesPass DEF LinesPass
      <3>3. catalogue[p].active /\ catalogue[p].price = [unit |-> l.unit, fee |-> l.fee]
        BY DEF IsCurrent
      <3>4. Resolves(p) /\ Found(p).unit = l.unit /\ Found(p).fee = l.fee
        BY <3>1, <3>3, OwnRow
      <3>5. p \in DOMAIN trusted /\ trusted[p] = Found(p)
        BY <3>4 DEF Lookup, Skus
      <3>6. \A x \in Int : Near(x, x)
        BY DEF Near
      <3> HIDE DEF l, p, trusted
      <3>7. Near(trusted[p].unit, l.unit) /\ Near(trusted[p].fee, l.fee)
        BY <3>1, <3>4, <3>5, <3>6
      <3> QED  BY <3>2, <3>5, <3>7 DEF l, p
    <2>3. InBand(order.amount)
      BY <2>1 DEF Sound, Allowed
    <2> DEFINE new == ApplyOffer(lines, order.offer)
    <2>4. /\ new.lines = lines /\ order.pct = new.pct /\ order.subtotal = new.subtotal
          /\ order.discount = new.discount /\ order.amount = new.amount
      BY <2>1 DEF Sound, ApplyOffer
    <2>5. Allowed(new, trusted)
      <3> HIDE DEF trusted
      <3> QED  BY <2>1, <2>2, <2>3, <2>4, ComputedPasses DEF Order
    <2> HIDE DEF new, trusted
    <2>6. Allowed(order, trusted)
      BY <2>4, <2>5, AllowedOnMoney
    <2> QED  BY <2>6 DEF trusted
  <1> QED  BY <1>1, MoneyInvariance, PTL

\* After the apply tap no offer of the registry would be cheaper.
THEOREM ApplyTapIsBest == Spec => ApplyIsBest
  <1>1. ASSUME MInv, ApplyBest, NEW o \in DOMAIN Offers
        PROVE  order'.amount <= ApplyOffer(order.lines, o).amount
    <2> DEFINE lines == order.lines
               best == Best(lines)
               value == Subtotal(lines) - Fees(lines)
               Pct(q) == IF Entitled(lines, q) THEN Effective(q) ELSE 0
               new == ApplyOffer(lines, best)
    <2>1. lines \in Seq(Line) /\ best \in DOMAIN Offers
      BY <1>1, InHand, BestIsOffer DEF ApplyBest
    <2>2. Subtotal(lines) \in Nat /\ value \in Nat
      BY <2>1, SumsAreNaturals
    <2>3. \A q \in DOMAIN Offers : Pct(q) \in 0 .. 100
      BY EffectiveRange
    <2>4. Pct(o) <= Pct(best)
      <3>1. CASE Entitled(lines, o) /\ Effective(o) > 0
        BY <3>1, BestIsOffer
      <3>2. CASE ~ (Entitled(lines, o) /\ Effective(o) > 0)
        <4>1. Pct(o) = 0
          BY <3>2, EffectiveRange
        <4>2. Pct(best) \in 0 .. 100
          <5> HIDE DEF Pct, best
          <5> QED  BY <2>1, <2>3
        <4> HIDE DEF Pct, best
        <4> QED  BY <4>1, <4>2
      <3> QED  BY <3>1, <3>2
    <2>5. Percent(value, Pct(o)) \in Nat /\ Percent(value, Pct(best)) \in Nat
          /\ Percent(value, Pct(o)) <= Percent(value, Pct(best))
      <3> HIDE DEF value, Pct, best
      <3> QED  BY <2>1, <2>2, <2>3, <2>4, PercentIsMonotone
    <2>6. \A q \in DOMAIN Offers :
             ApplyOffer(lines, q).amount = Subtotal(lines) - Percent(value, Pct(q))
      BY DEF ApplyOffer
    <2>7. order'.amount = new.amount
      <3>1. order' = [[new EXCEPT !.extra = order.extra] EXCEPT !.better = order.better]
        BY <1>1 DEF ApplyBest, Show
      <3> QED  BY <3>1
    <2> HIDE DEF value, Pct, best, lines
    <2>8. new.amount <= ApplyOffer(lines, o).amount
      BY <2>1, <2>2, <2>5, <2>6
    <2> QED  BY <2>7, <2>8 DEF lines
  <1>2. MInv => [ApplyBest => \A o \in DOMAIN Offers :
                    order'.amount <= ApplyOffer(order.lines, o).amount]_vars
    BY <1>1
  <1> QED  BY <1>2, MoneyInvariance, PTL DEF ApplyIsBest

-----------------------------------------------------------------------------
(* What a priced link charges.                                             *)

\* The mint checks every line against the row its name finds now, so a line that
\* passes is of an active product at its present price.
LEMMA MintedLine ==
  ASSUME PricesApart, MInv, Mint, NEW i \in DOMAIN order.lines,
         \E p \in Skus(order.lines) : catalogue[p].active
  PROVE  LET l == order.lines[i] IN
         /\ catalogue[l.sku].active
         /\ catalogue[l.sku].price.unit = l.unit /\ catalogue[l.sku].price.fee = l.fee
  <1> DEFINE lines == order.lines
             trusted == Lookup(Skus(lines))
             l == lines[i]
             p == l.sku
  <1>1. order # NoOrder /\ Allowed(order, trusted)
    BY DEF Mint
  <1>2. lines \in Seq(Line) /\ \A j \in DOMAIN lines : lines[j] \in ListedLine /\ lines[j] \in Line
    BY <1>1, InHand, ListedLines
  <1>3. p \in Products /\ l.unit \in Nat /\ l.fee \in Nat
        /\ [unit |-> l.unit, fee |-> l.fee] \in Prices[p]
    <2>1. l \in ListedLine /\ l \in Line
      BY <1>2
    <2> HIDE DEF l
    <2> QED  BY <2>1 DEF ListedLine, Line, p
  <1>4. DOMAIN trusted # {}
    <2>1. PICK q \in Skus(lines) : catalogue[q].active
      OBVIOUS
    <2>2. Resolves(q)
      BY <1>2, <2>1, OwnLines, OwnRow
    <2> QED  BY <2>1, <2>2 DEF Lookup
  <1>5. /\ p \in DOMAIN trusted
        /\ Near(trusted[p].unit, l.unit) /\ Near(trusted[p].fee, l.fee)
    <2> HIDE DEF trusted
    <2> QED  BY <1>1, <1>4 DEF Allowed
  <1>6. Resolves(p) /\ trusted[p] = Found(p)
    BY <1>5 DEF Lookup
  <1>7. PICK k \in DOMAIN Rows[p] :
           /\ Rows[p][k] \in Products /\ catalogue[Rows[p][k]].active
           /\ Found(p) = [sku |-> Rows[p][k], unit |-> catalogue[Rows[p][k]].price.unit,
                          fee |-> catalogue[Rows[p][k]].price.fee]
    <2> HIDE DEF p
    <2> QED  BY <1>3, <1>6, FoundRow, NamesResolve DEF MInv
  <1> DEFINE a == [unit |-> l.unit, fee |-> l.fee]
             b == catalogue[Rows[p][k]].price
  <1>8. a \in Prices[p] /\ b \in Prices[Rows[p][k]] /\ a.unit = l.unit /\ a.fee = l.fee
    BY <1>3, <1>7 DEF MInv, Published
  <1>9. Near(b.unit, a.unit) /\ Near(b.fee, a.fee)
    <2>1. trusted[p].unit = b.unit /\ trusted[p].fee = b.fee
      <3> HIDE DEF trusted, p, l, lines
      <3>1. trusted[p] = [sku |-> Rows[p][k], unit |-> b.unit, fee |-> b.fee]
        BY <1>6, <1>7
      <3> HIDE DEF b
      <3> QED  BY <3>1
    <2> HIDE DEF a, b, trusted, l
    <2> QED  BY <1>5, <1>8, <2>1
  <1>10. Rows[p][k] = p /\ b = a
    <2> HIDE DEF a, b, p
    <2> QED  BY <1>3, <1>8, <1>9 DEF PricesApart
  <1> QED  BY <1>7, <1>8, <1>10

\* A mint that could look prices up charges what the catalogue says then, and
\* nothing retired, provided anything of the order is still sold.
THEOREM MintsAtCatalogue ==
  ASSUME PricesApart
  PROVE  Spec => ChargesWhatTheCatalogueSays
  <1>1. ASSUME MInv, Mint, \E p \in Skus(order.lines) : catalogue[p].active
        PROVE  ChargesCatalogue(order)
    <2> DEFINE lines == order.lines
               now == [i \in DOMAIN lines |->
                          LET p == lines[i].sku
                          IN  [lines[i] EXCEPT !.unit = catalogue[p].price.unit,
                                               !.fee = catalogue[p].price.fee]]
    <2>1. order # NoOrder
      BY <1>1 DEF Mint
    <2>2. lines \in Seq(Line) /\ \A i \in DOMAIN lines : lines[i] \in Line
      BY <1>1, <2>1, InHand, ListedLines
    <2>3. \A i \in DOMAIN lines :
             /\ catalogue[lines[i].sku].active
             /\ catalogue[lines[i].sku].price.unit = lines[i].unit
             /\ catalogue[lines[i].sku].price.fee = lines[i].fee
      BY <1>1, MintedLine
    <2>4. now = lines
      <3>1. \A l \in Line : [l EXCEPT !.unit = l.unit, !.fee = l.fee] = l
        BY DEF Line
      <3>2. \A i \in DOMAIN lines : now[i] = lines[i]
        BY <2>2, <2>3, <3>1
      <3>3. now = [i \in DOMAIN lines |-> lines[i]]
        BY <3>2
      <3>4. lines = [i \in DOMAIN lines |-> lines[i]]
        <4> HIDE DEF lines
        <4> QED  BY <2>2
      <3> QED  BY <3>3, <3>4
    <2>5. order.amount = ApplyOffer(lines, order.offer).amount
      BY <1>1, <2>1, InHand DEF Sound
    <2>6. AmountNow(order) = ApplyOffer(now, order.offer).amount
      BY DEF AmountNow
    <2>7. \A p \in Skus(lines) : catalogue[p].active
      BY <2>3 DEF Skus
    <2> HIDE DEF now
    <2> QED  BY <2>4, <2>5, <2>6, <2>7 DEF ChargesCatalogue
  <1>2. ASSUME [Next]_vars, link' = "repriced", link # "repriced" PROVE Mint
    BY <1>2 DEF Next, vars, Propose, ApplyBest, AddComplement, AddRefused, SwapUpgrade,
       SwapRefused, Show, MintUnpriced, EditCatalogue
  <1>3. MInv /\ [Next]_vars =>
           [link' = "repriced" /\ link # "repriced"
              /\ (\E p \in Skus(order.lines) : catalogue[p].active)
            => ChargesCatalogue(order)]_vars
    BY <1>1, <1>2
  <1> QED  BY <1>3, MoneyInvariance, PTL DEF Spec, ChargesWhatTheCatalogueSays

-----------------------------------------------------------------------------
(* What the add tap earns.                                                 *)

\* A line of more pieces costs no less.
LEMMA LargerLine ==
  ASSUME NEW u \in Nat, NEW f \in Nat, NEW q \in Nat, NEW r \in Nat, q <= r
  PROVE  (u + f) * q \in Nat /\ (u + f) * r \in Nat /\ (u + f) * q <= (u + f) * r
  <1>1. PICK c \in Nat : c = u + f
    OBVIOUS
  <1>2. c * q \in Nat /\ c * (r - q) \in Nat /\ c * r = c * q + c * (r - q)
    OBVIOUS
  <1> QED  BY <1>1, <1>2

\* An order that grows keeps its lines, each at its price and of no fewer pieces.
LEMMA GrownKeepsLines ==
  ASSUME MInv, order # NoOrder, order.extra # NoProduct, Resolves(order.extra),
         Len(Grown) > Len(order.lines)
  PROVE  /\ Len(Grown) = Len(order.lines) + 1
         /\ \A i \in DOMAIN order.lines :
              /\ Grown[i].unit = order.lines[i].unit /\ Grown[i].fee = order.lines[i].fee
              /\ order.lines[i].qty <= Grown[i].qty
  <1> DEFINE lines == order.lines
             n == Len(lines)
             raw == Append(Again(lines, NoProduct, NoProduct), [name |-> order.extra, qty |-> 1])
             trusted == With(lines, order.extra)
             m == Merged(raw)
             names == Mentioned(raw)
  <1>1. /\ raw \in Seq(Item) /\ Len(raw) = n + 1
        /\ \A i \in DOMAIN lines : raw[i] = [name |-> lines[i].sku, qty |-> lines[i].qty]
        /\ raw[n + 1].name = order.extra
        /\ Honest(trusted) /\ Grown = PriceLines(raw, trusted)
    BY GrownRequest
  <1> HIDE DEF raw, trusted
  <1>2. /\ lines \in Seq(ListedLine) /\ lines \in Seq(Line)
        /\ n \in Nat /\ DOMAIN lines = 1 .. n /\ DOMAIN raw = 1 .. n + 1
        /\ \A i \in DOMAIN lines : lines[i] \in Line
    BY <1>1, InHand, ListedLines, Numbered
  <1>3. /\ Len(m) = Len(names) /\ Len(names) <= n + 1 /\ Len(Grown) <= Len(m)
        /\ Len(names) \in Nat /\ Len(Grown) \in Nat /\ DOMAIN m = 1 .. Len(m)
    <2>1. Len(m) = Len(names) /\ m \in Seq(MergedItem)
      BY <1>1, MergedIsItems
    <2>2. Len(names) <= n + 1
      BY <1>1, MentionedInFull
    <2>3. Len(Grown) <= Len(m)
      BY <1>1, PricedInFull
    <2>4. Len(Grown) \in Nat
      BY <1>1, PricedLines, Numbered
    <2>5. Len(m) \in Nat /\ DOMAIN m = 1 .. Len(m)
      <3> HIDE DEF m
      <3> QED  BY <2>1, Numbered
    <2> QED  BY <2>1, <2>2, <2>3, <2>4, <2>5
  <1>4. Len(Grown) = n + 1 /\ Len(m) = n + 1 /\ Len(names) = n + 1
    <2>1. \A a, b, c, d \in Nat : a > d /\ b = c /\ c <= d + 1 /\ a <= b => a = d + 1 /\ b = d + 1
      OBVIOUS
    <2>2. Len(Grown) > n /\ n \in Nat
      BY <1>2
    <2> HIDE DEF m, n, names
    <2> QED  BY <1>3, <2>1, <2>2
  <1>5. /\ \A i \in 1 .. n + 1 : names[i] = raw[i].name
        /\ \A i, j \in 1 .. n + 1 : raw[i].name = raw[j].name => i = j
    BY <1>1, <1>2, <1>4, MentionedInFull
  <1>6. \A i \in 1 .. n + 1 : Grown[i] = Priced(m[i], trusted)
    BY <1>1, <1>3, <1>4, PricedInFull
  <1>7. ASSUME NEW i \in DOMAIN lines
        PROVE  /\ Grown[i].unit = lines[i].unit /\ Grown[i].fee = lines[i].fee
               /\ lines[i].qty <= Grown[i].qty
    <2> DEFINE p == lines[i].sku
    <2>1. i \in 1 .. n + 1 /\ i # n + 1 /\ n + 1 \in 1 .. n + 1
      BY <1>2
    <2>2. raw[i].name = p /\ raw[i].qty = lines[i].qty
      <3>1. raw[i] = [name |-> lines[i].sku, qty |-> lines[i].qty]
        BY <1>1
      <3> QED  BY <3>1
    <2>3. m[i] = [name |-> names[i], qty |-> Min({Wanted(raw, names[i]), MaxQty})]
      <3>1. DOMAIN m = DOMAIN names
        BY DEF Merged
      <3> QED  BY <1>3, <1>4, <2>1, <3>1 DEF Merged
    <2>4. names[i] = p
      BY <1>5, <2>1, <2>2
    <2>5. lines[i].qty <= m[i].qty
      <3> DEFINE both == {Wanted(raw, p), MaxQty}
      <3>1. Wanted(raw, p) \in Nat /\ lines[i].qty <= Wanted(raw, p)
        BY <1>1, <1>2, <2>1, <2>2, WantedIsEnough
      <3>2. MaxQty \in Nat /\ lines[i].qty <= MaxQty
        <4>1. lines[i] \in Line
          BY <1>2
        <4> QED  BY <4>1, LimitsAreNaturals DEF Line
      <3>3. both \subseteq Nat /\ both # {} /\ \A b \in both : lines[i].qty <= b
        BY <3>1, <3>2
      <3>4. Min(both) \in both
        <4> HIDE DEF both
        <4> QED  BY <3>3, MinIsMember
      <3>5. m[i].qty = Min(both)
        BY <2>3, <2>4
      <3> HIDE DEF both, m
      <3> QED  BY <3>3, <3>4, <3>5
    <2>6. p \in Skus(lines) /\ p # order.extra
      <3>1. raw[i].name # raw[n + 1].name
        BY <1>5, <2>1
      <3>2. p \in Skus(lines)
        BY DEF Skus
      <3> QED  BY <1>1, <2>2, <3>1, <3>2
    <2>7. trusted[p] = Own(lines)[p]
      BY <2>6 DEF With, trusted
    <2>8. PICK j \in DOMAIN lines : Own(lines)[p] = lines[j] /\ lines[j].sku = p
      BY <1>2, <2>6, OwnLines
    <2>9. j = i
      <3>1. raw[j] = [name |-> lines[j].sku, qty |-> lines[j].qty] /\ j \in 1 .. n + 1
        BY <1>1, <1>2
      <3>2. raw[j].name = p
        BY <2>8, <3>1
      <3> QED  BY <1>5, <2>1, <2>2, <3>1, <3>2
    <2>10. Grown[i] = [sku |-> trusted[p].sku, qty |-> m[i].qty,
                       unit |-> trusted[p].unit, fee |-> trusted[p].fee]
      <3>1. Grown[i] = Priced(m[i], trusted) /\ m[i].name = p
        BY <1>6, <2>1, <2>3, <2>4
      <3> HIDE DEF m, p
      <3> QED  BY <3>1 DEF Priced
    <2> HIDE DEF m, p
    <2> QED  BY <2>5, <2>7, <2>8, <2>9, <2>10
  <1> QED  BY <1>4, <1>7

\* An order that grows costs no less.
LEMMA GrownCostsMore ==
  ASSUME MInv, order # NoOrder, order.extra # NoProduct, Resolves(order.extra),
         Len(Grown) > Len(order.lines)
  PROVE  Subtotal(order.lines) <= Subtotal(Grown)
  <1> DEFINE lines == order.lines
             old == [i \in DOMAIN lines |-> (lines[i].unit + lines[i].fee) * lines[i].qty]
             new == [i \in DOMAIN Grown |-> (Grown[i].unit + Grown[i].fee) * Grown[i].qty]
  <1>1. lines \in Seq(Line) /\ Grown \in Seq(Line)
    BY InHand, GrownRequest, PricedLines, ListedLines
  <1>2. /\ DOMAIN lines = 1 .. Len(lines) /\ Len(lines) \in Nat
        /\ DOMAIN Grown = 1 .. Len(lines) + 1 /\ IsFiniteSet(DOMAIN Grown)
        /\ \A i \in DOMAIN lines : lines[i] \in Line
        /\ \A i \in DOMAIN Grown : Grown[i] \in Line
    BY <1>1, Numbered, GrownKeepsLines
  <1>3. \A l \in Line : l.unit \in Nat /\ l.fee \in Nat /\ l.qty \in Nat
    BY LimitsAreNaturals DEF Line
  <1>4. \A i \in DOMAIN Grown : new[i] \in Nat
    BY <1>2, <1>3, LineTotal
  <1>5. ASSUME NEW i \in DOMAIN lines PROVE old[i] \in Nat /\ old[i] <= new[i]
    <2>1. /\ Grown[i].unit = lines[i].unit /\ Grown[i].fee = lines[i].fee
          /\ lines[i].qty <= Grown[i].qty
      BY GrownKeepsLines
    <2>2. i \in DOMAIN Grown
      BY <1>2
    <2>3. lines[i] \in Line /\ Grown[i] \in Line
      BY <1>2, <2>2
    <2>4. lines[i].unit \in Nat /\ lines[i].fee \in Nat /\ lines[i].qty \in Nat /\ Grown[i].qty \in Nat
      BY <1>3, <2>3
    <2>5. /\ (lines[i].unit + lines[i].fee) * lines[i].qty \in Nat
          /\ (lines[i].unit + lines[i].fee) * lines[i].qty
               <= (lines[i].unit + lines[i].fee) * Grown[i].qty
      BY <2>1, <2>4, LargerLine
    <2>6. /\ old[i] = (lines[i].unit + lines[i].fee) * lines[i].qty
          /\ new[i] = (lines[i].unit + lines[i].fee) * Grown[i].qty
      BY <2>1, <2>2
    <2> QED  BY <2>5, <2>6
  <1>6. /\ Subtotal(lines) = SumFunction(old) /\ Subtotal(Grown) = SumFunction(new)
        /\ DOMAIN old = DOMAIN lines /\ DOMAIN new = DOMAIN Grown
    BY DEF Subtotal, SumOf
  <1>7. DOMAIN lines \subseteq DOMAIN Grown
    BY <1>2
  <1> HIDE DEF old, new, lines
  <1>8. SumFunction(old) <= SumFunction(new)
    BY <1>2, <1>4, <1>5, <1>6, <1>7, SumIsMonotone
  <1> QED  BY <1>6, <1>8 DEF lines

\* The larger of two numbers.
Larger(a, b) == Max({a, b})

LEMMA MaxOfTwo ==
  ASSUME NEW a \in Int, NEW b \in Int
  PROVE  Larger(a, b) \in {a, b} /\ Larger(a, b) >= a /\ Larger(a, b) >= b
  <1>1. \E x \in {a, b} : \A y \in {a, b} : x >= y
    <2>1. CASE a >= b
      BY <2>1
    <2>2. CASE b >= a
      BY <2>2
    <2> QED  BY <2>1, <2>2
  <1>2. Max({a, b}) \in {a, b} /\ \A y \in {a, b} : Max({a, b}) >= y
    BY <1>1 DEF Max
  <1> QED  BY <1>2 DEF Larger

\* Fractions of equal denominators compare as their numerators do.
LEMMA TimesIsMonotone ==
  ASSUME NEW x \in Nat, NEW y \in Nat, NEW u \in Nat \ {0}, x < y
  PROVE  x * u \in Nat /\ y * u \in Nat /\ x * u < y * u
  <1>1. PICK d \in Nat \ {0} : y = x + d
    <2>1. y - x \in Nat \ {0} /\ y = x + (y - x)
      OBVIOUS
    <2> QED  BY <2>1
  <1>2. x * u \in Nat /\ d * u \in Nat /\ d * u > 0 /\ (x + d) * u = x * u + d * u
    OBVIOUS
  <1> QED  BY <1>1, <1>2

LEMMA SameDenominator ==
  ASSUME NEW x \in Nat, NEW y \in Nat, NEW u \in Nat \ {0}, NEW v \in Nat \ {0}
  PROVE  /\ x * u < y * u <=> x * v < y * v
         /\ x * u = y * u <=> x * v = y * v
  <1>1. CASE x < y
    BY <1>1, TimesIsMonotone
  <1>2. CASE x = y
    <2>1. x * u = y * u /\ x * v = y * v /\ x * u \in Nat /\ x * v \in Nat
      BY <1>2
    <2> QED  BY <2>1
  <1>3. CASE y < x
    BY <1>3, TimesIsMonotone
  <1> QED  BY <1>1, <1>2, <1>3

\* Of the tiers that are worth a nudge, one is the nearest.
LEMMA NearestIsNudge ==
  ASSUME NEW lines \in Seq(Line), lines # <<>>, Nudges(lines) # {}
  PROVE  Nearest(lines) \in Nudges(lines)
  <1> DEFINE S == Nudges(lines)
             u == Len(lines)
             v == Max({Subtotal(lines), 1})
             More(o) == ShortOf(lines, o).products
             Over(o) == Effort(lines, o).over
             Under(o) == Effort(lines, o).under
             Weight(o) == Over(o) * (IF More(o) > 0 THEN v ELSE u)
  <1>1. u \in Nat \ {0} /\ v \in Nat \ {0}
    <2>1. u \in Nat \ {0}
      OBVIOUS
    <2>2. Subtotal(lines) \in Nat
      BY SumsAreNaturals
    <2>3. v = Larger(Subtotal(lines), 1)
      BY DEF Larger
    <2> HIDE DEF v
    <2>4. v \in {Subtotal(lines), 1} /\ v >= 1
      BY <2>2, <2>3, MaxOfTwo
    <2> QED  BY <2>1, <2>2, <2>4
  <1>2. \A o \in DOMAIN Offers : Over(o) \in Nat /\ Under(o) = IF More(o) > 0 THEN u ELSE v
    <2> TAKE o \in DOMAIN Offers
    <2>1. Offers[o].lines \in Nat /\ Offers[o].subtotal \in Nat
      BY RegistryHasNone
    <2>2. Subtotal(lines) \in Nat /\ u \in Nat
      BY <1>1, SumsAreNaturals
    <2>3. Offers[o].lines - u \in Int /\ Offers[o].subtotal - Subtotal(lines) \in Int
      BY <2>1, <2>2
    <2>4. /\ More(o) = Larger(Offers[o].lines - u, 0)
          /\ ShortOf(lines, o).money = Larger(Offers[o].subtotal - Subtotal(lines), 0)
      BY DEF ShortOf, Larger
    <2>5. More(o) \in Nat /\ ShortOf(lines, o).money \in Nat
      <3>1. \A a \in Int : Larger(a, 0) \in Nat
        <4> TAKE a \in Int
        <4>1. Larger(a, 0) \in {a, 0} /\ Larger(a, 0) >= 0
          BY MaxOfTwo
        <4> QED  BY <4>1
      <3> HIDE DEF u, More
      <3> QED  BY <2>3, <2>4, <3>1
    <2>6. /\ Over(o) = IF More(o) > 0 THEN More(o) ELSE ShortOf(lines, o).money
          /\ Under(o) = IF More(o) > 0 THEN u ELSE v
      BY DEF Effort
    <2> HIDE DEF More, Over, Under
    <2> QED  BY <2>5, <2>6
  <1>3. S \subseteq DOMAIN Offers /\ S # {}
    BY DEF Nudges
  <1> HIDE DEF S, u, v, More, Over, Under
  <1>4. \A o \in S : Weight(o) \in Nat
    BY <1>1, <1>2, <1>3
  <1>5. \A o, q \in S :
           /\ Weight(o) < Weight(q) => Over(o) * Under(q) < Over(q) * Under(o)
           /\ Weight(o) = Weight(q) => Over(o) * Under(q) = Over(q) * Under(o)
    <2> TAKE o, q \in S
    <2>1. Over(o) \in Nat /\ Over(q) \in Nat
          /\ Under(o) = (IF More(o) > 0 THEN u ELSE v) /\ Under(q) = (IF More(q) > 0 THEN u ELSE v)
      BY <1>2, <1>3
    <2>2. CASE More(o) > 0 /\ More(q) > 0
      BY <1>1, <2>1, <2>2, SameDenominator
    <2>3. CASE ~ (More(o) > 0) /\ ~ (More(q) > 0)
      BY <1>1, <2>1, <2>3, SameDenominator
    <2>4. CASE More(o) > 0 /\ ~ (More(q) > 0)
      BY <2>1, <2>4
    <2>5. CASE ~ (More(o) > 0) /\ More(q) > 0
      BY <2>1, <2>5
    <2> QED  BY <2>2, <2>3, <2>4, <2>5
  <1> HIDE DEF Weight
  <1>6. PICK a \in S : \A q \in S : Weight(a) <= Weight(q)
    <2> DEFINE W == {Weight(o) : o \in S}
    <2>1. W \subseteq Nat /\ W # {}
      BY <1>3, <1>4
    <2>2. \E w \in W : \A x \in W : w <= x
      <3> HIDE DEF W
      <3> QED  BY <2>1, Least
    <2> QED  BY <2>2
  <1>7. PICK b \in S : Weight(b) = Weight(a)
                       /\ \A q \in S : Weight(q) = Weight(a) => Effective(b) >= Effective(q)
    <2> DEFINE T == {o \in S : Weight(o) = Weight(a)}
               R == {Effective(o) : o \in T}
    <2>1. R \subseteq 0 .. 100 /\ R # {}
      BY <1>3, EffectiveRange
    <2>2. \E r \in R : \A x \in R : r >= x
      <3> HIDE DEF R
      <3> QED  BY <2>1, Greatest
    <2> QED  BY <2>2
  <1>8. \A q \in S :
           \/ Over(b) * Under(q) < Over(q) * Under(b)
           \/ Over(b) * Under(q) = Over(q) * Under(b) /\ Effective(b) >= Effective(q)
    <2> TAKE q \in S
    <2>1. CASE Weight(b) < Weight(q)
      BY <1>5, <2>1
    <2>2. CASE Weight(b) = Weight(q)
      BY <1>5, <1>7, <2>2
    <2>3. Weight(b) < Weight(q) \/ Weight(b) = Weight(q)
      BY <1>4, <1>6, <1>7
    <2> QED  BY <2>1, <2>2, <2>3
  <1>9. Nearest(lines) = CHOOSE o \in S : \A q \in S :
           \/ Over(o) * Under(q) < Over(q) * Under(o)
           \/ Over(o) * Under(q) = Over(q) * Under(o) /\ Effective(o) >= Effective(q)
    BY DEF Nearest, S, Over, Under
  <1>10. Nearest(lines) \in S
    BY <1>8, <1>9
  <1> QED  BY <1>10 DEF S

\* When the add tap works, the order earns at least the tier that it was shown
\* to be short of.
THEOREM AddTapKeepsItsPromise ==
  ASSUME TiersAreNear
  PROVE  Spec => AddKeepsItsPromise
  <1>1. ASSUME MInv, AddComplement, PairingPays(order.lines)
        PROVE  order'.pct >= Effective(Nearest(order.lines))
    <2> DEFINE lines == order.lines
               near == Nearest(lines)
               best == Best(Grown)
    <2>1. /\ order # NoOrder /\ order.extra # NoProduct /\ Resolves(order.extra)
          /\ Len(Grown) > Len(lines)
          /\ order' = [ApplyOffer(Grown, best) EXCEPT !.better = order.better]
      BY <1>1 DEF AddComplement, Show
    <2>2. lines \in Seq(Line) /\ lines # <<>> /\ Len(lines) \in Nat \ {0} /\ Subtotal(lines) \in Nat
      <3>1. lines \in Seq(Line) /\ lines # <<>>
        BY <1>1, <2>1, InHand
      <3> HIDE DEF lines
      <3> QED  BY <3>1, SumsAreNaturals
    <2>3. near \in Nudges(lines) /\ ShortOf(lines, near).products > 0
      BY <1>1, <2>2, NearestIsNudge DEF PairingPays
    <2>4. /\ near \in DOMAIN Offers /\ Effective(near) > Effective(Best(lines))
          /\ ~ (ShortOf(lines, near).money > 0)
          /\ Effort(lines, near).over <= Effort(lines, near).under
      BY <2>3 DEF Nudges
    <2> HIDE DEF near, best, lines
    <2>5. Offers[near].lines \in Nat /\ Offers[near].lines <= 3 /\ Offers[near].subtotal \in Nat
      BY <2>4, RegistryHasNone DEF TiersAreNear
    <2>6. Offers[near].lines <= Len(lines) + 1
      <3>1. ShortOf(lines, near).products = Offers[near].lines - Len(lines)
        <4>1. ShortOf(lines, near).products = Larger(Offers[near].lines - Len(lines), 0)
          BY DEF ShortOf, Larger
        <4>2. Offers[near].lines - Len(lines) \in Int
          BY <2>2, <2>5
        <4>3. ShortOf(lines, near).products \in {Offers[near].lines - Len(lines), 0}
          BY <4>1, <4>2, MaxOfTwo
        <4> QED  BY <2>3, <4>3
      <3>2. ShortOf(lines, near).products <= Len(lines)
        BY <2>3, <2>4 DEF Effort
      <3> QED  BY <2>2, <2>5, <3>1, <3>2
    <2>7. Offers[near].subtotal <= Subtotal(lines)
      <3>1. ShortOf(lines, near).money = Larger(Offers[near].subtotal - Subtotal(lines), 0)
        BY DEF ShortOf, Larger
      <3>2. Offers[near].subtotal - Subtotal(lines) \in Int
        BY <2>2, <2>5
      <3>3. /\ ShortOf(lines, near).money >= Offers[near].subtotal - Subtotal(lines)
            /\ ShortOf(lines, near).money \in {Offers[near].subtotal - Subtotal(lines), 0}
        BY <3>1, <3>2, MaxOfTwo
      <3> QED  BY <2>2, <2>4, <2>5, <3>1, <3>2, <3>3
    <2>8. Subtotal(lines) <= Subtotal(Grown) /\ Len(Grown) = Len(lines) + 1
      BY <1>1, <2>1, GrownCostsMore, GrownKeepsLines DEF lines
    <2>9. Subtotal(Grown) \in Nat
      BY <1>1, <2>1, GrownRequest, PricedLines, ListedLines, SumsAreNaturals
    <2>10. Entitled(Grown, near)
      BY <2>2, <2>5, <2>6, <2>7, <2>8, <2>9 DEF Entitled
    <2>11. Effective(near) > 0
      <3>1. Best(lines) \in DOMAIN Offers
        BY BestIsOffer
      <3>2. Effective(near) \in 0 .. 100 /\ Effective(Best(lines)) \in 0 .. 100
        BY <2>4, <3>1, EffectiveRange
      <3> QED  BY <2>4, <3>2
    <2>12. Effective(near) <= Effective(best) /\ Entitled(Grown, best) /\ best \in DOMAIN Offers
      BY <2>4, <2>10, <2>11, BestIsOffer DEF best
    <2>13. ApplyOffer(Grown, best).pct = Effective(best)
      BY <2>12 DEF ApplyOffer
    <2>14. order'.pct = ApplyOffer(Grown, best).pct
      <3>1. "pct" # "better" /\ "pct" \in DOMAIN ApplyOffer(Grown, best)
        BY DEF ApplyOffer
      <3> QED  BY <2>1, <3>1
    <2>15. Effective(near) \in 0 .. 100 /\ Effective(best) \in 0 .. 100
      BY <2>4, <2>12, EffectiveRange
    <2> QED  BY <2>12, <2>13, <2>14, <2>15 DEF near, lines
  <1>2. MInv => [AddComplement /\ PairingPays(order.lines) =>
                    order'.pct >= Effective(Nearest(order.lines))]_vars
    BY <1>1
  <1> QED  BY <1>2, MoneyInvariance, PTL DEF AddKeepsItsPromise

=============================================================================
