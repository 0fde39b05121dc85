---------------------------- MODULE BacktestProofs ----------------------------
(***************************************************************************)
(* For every universe, calendar, market, strategy and prices: a run of the *)
(* backtest never raises, and the limits of the risk engine hold of the    *)
(* account and of the orders of every close, those of strategy A's         *)
(* envelope included.                                                      *)
(*                                                                         *)
(* The simulator's loop over the pending orders runs ahead of the ledger's *)
(* over the fills; its invariant (SessionInv) ties the cash and the        *)
(* sellable quantities of the one to the book of the other.  The engine's  *)
(* loop over the intents has one of its own (BatchInv): what the approved  *)
(* targets of a batch add up to.  RunInv needs nothing of the past but the *)
(* book, the pending orders and the slots they may take.                   *)
(***************************************************************************)
EXTENDS Backtest, DurableLedgerProofs

-----------------------------------------------------------------------------
(* Sums, minima, shares *)

\* A sum grows with its terms.
LEMMA SumGrows ==
  ASSUME NEW f, NEW g, NEW S, IsFiniteSet(S),
         \A x \in S : f[x] \in Int /\ g[x] \in Int /\ f[x] <= g[x]
  PROVE  SumFunctionOnSet(f, S) <= SumFunctionOnSet(g, S)
<1> DEFINE F(T) == SumFunctionOnSet(f, T)
           G(T) == SumFunctionOnSet(g, T)
           Bad == {T \in SUBSET S : ~(F(T) <= G(T))}
<1>1. SUFFICES ASSUME Bad # {} PROVE FALSE
  OBVIOUS
<1>2. PICK T \in Bad : \A x \in T : T \ {x} \notin Bad
  <2>1. Bad \in SUBSET SUBSET S
    OBVIOUS
  <2> HIDE DEF Bad
  <2> QED BY <1>1, <2>1, SmallestSubset
<1>3. IsFiniteSet(T) /\ T \subseteq S /\ \A x \in T : f[x] \in Int /\ g[x] \in Int
  BY FS_Subset
<1>4. CASE T = {}
  <2>1. F(T) = 0 /\ G(T) = 0
    BY <1>4, SumNothing
  <2> QED BY <1>2, <2>1
<1>5. CASE T # {}
  <2>1. PICK x \in T : TRUE
    BY <1>5
  <2>2. F(T) = f[x] + F(T \ {x}) /\ G(T) = g[x] + G(T \ {x})
    BY <1>3, <2>1, SumRemove
  <2>3. IsFiniteSet(T \ {x}) /\ \A y \in T \ {x} : f[y] \in Int /\ g[y] \in Int
    BY <1>3, FS_Subset
  <2>4. F(T \ {x}) \in Int /\ G(T \ {x}) \in Int
    BY <2>3, SumIsInt
  <2> HIDE DEF F, G
  <2>5. F(T \ {x}) <= G(T \ {x})
    BY <1>2, <1>3, <2>1
  <2> QED BY <1>2, <1>3, <2>1, <2>2, <2>4, <2>5
<1> QED BY <1>4, <1>5

\* A sum of naturals is one, and no less than a part of it.
LEMMA SumOfNaturals ==
  ASSUME NEW f, NEW S, IsFiniteSet(S), \A x \in S : f[x] \in Nat
  PROVE  /\ SumFunctionOnSet(f, S) \in Nat
         /\ \A T \in SUBSET S : /\ SumFunctionOnSet(f, T) \in Nat
                                /\ SumFunctionOnSet(f, T) <= SumFunctionOnSet(f, S)
<1>1. ASSUME NEW T \in SUBSET S PROVE SumFunctionOnSet(f, T) \in Nat
  <2> DEFINE zero == [x \in T |-> 0]
             Nought(U) == SumFunctionOnSet(zero, U)
             Bad == {U \in SUBSET T : Nought(U) # 0}
  <2>1. IsFiniteSet(T)
    BY FS_Subset
  <2>2. Bad = {}
    <3> SUFFICES ASSUME Bad # {} PROVE FALSE
      OBVIOUS
    <3>1. PICK U \in Bad : \A x \in U : U \ {x} \notin Bad
      <4>1. Bad \in SUBSET SUBSET T
        OBVIOUS
      <4> HIDE DEF Bad
      <4> QED BY <2>1, <4>1, SmallestSubset
    <3>2. IsFiniteSet(U) /\ \A x \in U : zero[x] = 0
      BY <2>1, FS_Subset
    <3>3. U # {}
      BY SumNothing
    <3>4. PICK x \in U : TRUE
      BY <3>3
    <3> HIDE DEF zero
    <3>5. Nought(U) = zero[x] + Nought(U \ {x})
      BY <3>2, <3>4, SumRemove
    <3>6. Nought(U \ {x}) = 0
      BY <3>1, <3>4
    <3> QED BY <3>1, <3>2, <3>4, <3>5, <3>6
  <2>3. Nought(T) = 0
    BY <2>2
  <2>4. \A x \in T : zero[x] \in Int /\ f[x] \in Int /\ zero[x] <= f[x]
    OBVIOUS
  <2> HIDE DEF zero
  <2>5. Nought(T) <= SumFunctionOnSet(f, T) /\ SumFunctionOnSet(f, T) \in Int
    BY <2>1, <2>4, SumGrows, SumIsInt
  <2> HIDE DEF Nought
  <2> QED BY <2>3, <2>5
<1>2. ASSUME NEW T \in SUBSET S PROVE SumFunctionOnSet(f, T) <= SumFunctionOnSet(f, S)
  <2> DEFINE F(U) == SumFunctionOnSet(f, U)
             Bad == {U \in SUBSET S : ~(F(U \cap T) <= F(U))}
  <2>1. \A U \in SUBSET S : F(U) \in Nat
    BY <1>1
  <2>2. Bad = {}
    <3> SUFFICES ASSUME Bad # {} PROVE FALSE
      OBVIOUS
    <3>1. PICK U \in Bad : \A x \in U : U \ {x} \notin Bad
      <4>1. Bad \in SUBSET SUBSET S
        OBVIOUS
      <4> HIDE DEF Bad
      <4> QED BY <4>1, SmallestSubset
    <3>2. /\ IsFiniteSet(U) /\ IsFiniteSet(U \cap T)
          /\ \A x \in U : f[x] \in Int /\ f[x] \in Nat
      BY FS_Subset
    <3>3. U # {}
      <4> SUFFICES ASSUME U = {} PROVE FALSE
        OBVIOUS
      <4>1. U \cap T = U
        OBVIOUS
      <4> HIDE DEF F
      <4> QED BY <2>1, <3>1, <4>1
    <3>4. PICK x \in U : TRUE
      BY <3>3
    <3>5. F(U) = f[x] + F(U \ {x})
      BY <3>2, <3>4, SumRemove
    <3>6. x \in T => F(U \cap T) = f[x] + F((U \cap T) \ {x})
      BY <3>2, <3>4, SumRemove
    <3>7. (U \cap T) \ {x} = (U \ {x}) \cap T /\ (x \notin T => U \cap T = (U \ {x}) \cap T)
      OBVIOUS
    <3> HIDE DEF F
    <3>8. F((U \ {x}) \cap T) <= F(U \ {x})
      BY <3>1, <3>4
    <3>9. F((U \ {x}) \cap T) \in Nat /\ F(U \ {x}) \in Nat /\ f[x] \in Nat
      BY <2>1, <3>2, <3>4
    <3> DEFINE a == F((U \ {x}) \cap T)
               b == F(U \ {x})
    <3>10. F(U) = f[x] + b /\ (F(U \cap T) = f[x] + a \/ F(U \cap T) = a)
      BY <3>5, <3>6, <3>7
    <3> HIDE DEF a, b
    <3>11. F(U \cap T) <= F(U)
      BY <3>8, <3>9, <3>10 DEF a, b
    <3> QED BY <3>1, <3>11
  <2>3. S \cap T = T
    OBVIOUS
  <2> HIDE DEF F
  <2>4. F(S \cap T) <= F(S)
    BY <2>2
  <2> QED BY <2>3, <2>4 DEF F
<1> QED BY <1>1, <1>2

\* The sum of one term
LEMMA SumOfOne ==
  ASSUME NEW f, NEW x, f[x] \in Int
  PROVE  SumFunctionOnSet(f, {x}) = f[x]
<1>1. IsFiniteSet({x}) /\ x \in {x} /\ \A y \in {x} : f[y] \in Int
  BY FS_Singleton
<1>2. SumFunctionOnSet(f, {x}) = f[x] + SumFunctionOnSet(f, {x} \ {x})
  BY <1>1, SumRemove
<1>3. {x} \ {x} = {}
  OBVIOUS
<1>4. SumFunctionOnSet(f, {x} \ {x}) = 0
  BY <1>3, SumNothing
<1> QED BY <1>2, <1>4

\* Naturals have a least one, and it is their minimum.
LEMMA MinFacts ==
  ASSUME NEW S \in SUBSET Nat, S # {}
  PROVE  Min(S) \in S /\ \A x \in S : Min(S) <= x
BY LeastExists DEF Min

\* The greater of two integers
LEMMA MaxOfTwo ==
  ASSUME NEW a \in Int, NEW b \in Int
  PROVE  Max({a, b}) = IF a <= b THEN b ELSE a
<1>1. \E x \in {a, b} : \A y \in {a, b} : x >= y
  OBVIOUS
<1>2. Max({a, b}) \in {a, b} /\ \A y \in {a, b} : Max({a, b}) >= y
  BY <1>1 DEF Max
<1> QED BY <1>2

\* Shares are rounded down: they cost no more than the amount, and are short of it
\* by less than one share.
LEMMA SharesFacts ==
  ASSUME NEW amount \in Nat, NEW close \in Nat \ {0}
  PROVE  /\ Shares(amount, close) \in Nat
         /\ 100 * (Shares(amount, close) * close) <= amount
         /\ amount < 100 * (Shares(amount, close) * close) + 100 * close
<1> DEFINE c == 100 * close
           d == amount \div c
<1>1. c \in Nat \ {0}
  OBVIOUS
<1>2. d \in Nat /\ c * d <= amount /\ amount < c * d + c
  <2> HIDE DEF c
  <2> QED BY <1>1
<1>3. c * d = 100 * (d * close)
  <2> HIDE DEF d
  <2> QED BY <1>2
<1> QED BY <1>2, <1>3 DEF Shares

\* A whole holding is worth its shares.
LEMMA SharesWhole ==
  ASSUME NEW quantity \in Nat, NEW close \in Nat \ {0}
  PROVE  Shares(100 * (quantity * close), close) = quantity
<1> DEFINE q == Shares(100 * (quantity * close), close)
<1>1. 100 * (quantity * close) \in Nat
  OBVIOUS
<1>2. /\ q \in Nat /\ 100 * (q * close) <= 100 * (quantity * close)
      /\ 100 * (quantity * close) < 100 * (q * close) + 100 * close
  BY <1>1, SharesFacts
<1> HIDE DEF q
<1>3. q * close <= quantity * close /\ quantity * close < (q + 1) * close
  BY <1>2
<1>4. ~(q > quantity)
  <2> SUFFICES ASSUME q > quantity PROVE FALSE
    OBVIOUS
  <2>1. q * close = quantity * close + (q - quantity) * close
    BY <1>2
  <2>2. (q - quantity) * close > 0
    BY <1>2
  <2>3. quantity * close \in Int /\ q * close \in Int /\ (q - quantity) * close \in Int
    BY <1>2
  <2> QED BY <1>3, <2>1, <2>2, <2>3
<1>5. ~(q < quantity)
  <2> SUFFICES ASSUME q < quantity PROVE FALSE
    OBVIOUS
  <2>1. quantity * close = (q + 1) * close + (quantity - (q + 1)) * close
    BY <1>2
  <2>2. (quantity - (q + 1)) * close >= 0
    BY <1>2
  <2>3. quantity * close \in Int /\ (q + 1) * close \in Int /\ (quantity - (q + 1)) * close \in Int
    BY <1>2
  <2> QED BY <1>3, <2>1, <2>2, <2>3
<1>6. q = quantity
  BY <1>2, <1>4, <1>5
<1> QED BY <1>6 DEF q

-----------------------------------------------------------------------------
(* Loops over sequences *)

\* The last element of a sequence is kept or not, after the earlier ones.
LEMMA ThoseAppend ==
  ASSUME NEW T, NEW s \in Seq(T), NEW e \in T, NEW keep, NEW now,
         \A i \in 1 .. Len(s) : s[i] \in keep <=> s[i] \in now
  PROVE  Those(Append(s, e), now)
           = IF e \in now THEN Append(Those(s, keep), e) ELSE Those(s, keep)
<1> DEFINE u == Append(s, e)
           n == Len(s)
<1>1. /\ u \in Seq(T) /\ n \in Nat /\ Len(u) = n + 1 /\ u[n + 1] = e
      /\ \A i \in 1 .. n : u[i] = s[i]
  OBVIOUS
<1> HIDE DEF u, n
<1>2. PICK f : ThoseTable(s, keep, f) /\ Those(s, keep) = f[n]
  BY ThoseIs DEF n
<1>3. PICK g : ThoseTable(u, now, g) /\ Those(u, now) = g[n + 1]
  BY <1>1, ThoseIs
<1>4. /\ \A m \in 0 .. n : f[m] = ThoseStep(s, keep, f, m)
      /\ \A m \in 0 .. n + 1 : g[m] = ThoseStep(u, now, g, m)
  BY <1>1, <1>2, <1>3 DEF ThoseTable, n
<1> DEFINE bad == {m \in 0 .. n : f[m] # g[m]}
<1>5. bad = {}
  <2> SUFFICES ASSUME bad # {} PROVE FALSE
    OBVIOUS
  <2>1. PICK m \in bad : \A k \in bad : m <= k
    <3>1. bad \in SUBSET Nat
      BY <1>1
    <3> HIDE DEF bad
    <3> QED BY <3>1, LeastExists
  <2>2. m \in 0 .. n /\ m \in 0 .. n + 1 /\ f[m] # g[m]
    BY <1>1, <2>1
  <2>3. CASE m = 0
    BY <1>4, <2>2, <2>3 DEF ThoseStep
  <2>4. CASE m # 0
    <3>1. m - 1 \in 0 .. n /\ m - 1 \notin bad /\ m \in 1 .. n
      BY <1>1, <2>1, <2>2, <2>4
    <3>2. f[m - 1] = g[m - 1]
      BY <3>1
    <3>3. s[m] = u[m] /\ (s[m] \in keep <=> s[m] \in now)
      BY <1>1, <3>1 DEF n
    <3>4. f[m] = IF s[m] \in keep THEN Append(f[m - 1], s[m]) ELSE f[m - 1]
      BY <1>4, <2>2, <2>4 DEF ThoseStep
    <3>5. g[m] = IF u[m] \in now THEN Append(g[m - 1], u[m]) ELSE g[m - 1]
      BY <1>4, <2>2, <2>4 DEF ThoseStep
    <3> QED BY <2>2, <3>2, <3>3, <3>4, <3>5
  <2> QED BY <2>3, <2>4
<1>6. g[n + 1] = IF e \in now THEN Append(g[n], e) ELSE g[n]
  <2>1. n + 1 \in 0 .. n + 1 /\ n + 1 # 0 /\ (n + 1) - 1 = n
    BY <1>1
  <2> QED BY <1>1, <1>4, <2>1 DEF ThoseStep
<1>7. n \in 0 .. n
  BY <1>1
<1> QED BY <1>2, <1>3, <1>5, <1>6, <1>7 DEF u

\* The filled orders of a session, one more processed
LEMMA FilledAppend ==
  ASSUME NEW T, NEW fills \in Seq(T), NEW x \in T
  PROVE  Filled(Append(fills, x))
           = IF x.status = "FILLED" THEN Append(Filled(fills), x) ELSE Filled(fills)
<1> DEFINE more == Append(fills, x)
           keep == {f \in ToSet(fills) : f.status = "FILLED"}
           now == {f \in ToSet(more) : f.status = "FILLED"}
<1>1. ToSet(more) = ToSet(fills) \cup {x}
  BY AppendRange
<1>2. IsSeq(fills)
  BY SeqOwn
<1>3. \A i \in 1 .. Len(fills) : fills[i] \in ToSet(fills)
  BY <1>2, SeqShape
<1>4. \A i \in 1 .. Len(fills) : fills[i] \in keep <=> fills[i] \in now
  BY <1>1, <1>3
<1>5. x \in now <=> x.status = "FILLED"
  BY <1>1
<1>6. Filled(fills) = Those(fills, keep) /\ Filled(more) = Those(more, now)
  BY DEF Filled
<1> HIDE DEF keep, now
<1>7. Those(more, now) = IF x \in now THEN Append(Those(fills, keep), x) ELSE Those(fills, keep)
  BY <1>4, ThoseAppend
<1> QED BY <1>5, <1>6, <1>7

\* Without fills none is filled.
LEMMA FilledNothing == Filled(<<>>) = <<>>
<1> DEFINE none == {f \in ToSet(<<>>) : f.status = "FILLED"}
<1>1. <<>> \in Seq({}) /\ Len(<<>>) = 0
  OBVIOUS
<1>2. PICK f : ThoseTable(<<>>, none, f) /\ Those(<<>>, none) = f[0]
  <2> HIDE DEF none
  <2> QED BY <1>1, ThoseIs
<1>3. f[0] = <<>>
  BY <1>1, <1>2 DEF ThoseTable, ThoseStep
<1> QED BY <1>2, <1>3 DEF Filled

\* Two events have the same session and the same first fills.
SameFills(e, d, n) ==
  /\ e.session = d.session
  /\ Len(e.fills) \in Nat /\ Len(d.fills) \in Nat /\ n \in 0 .. Len(e.fills) \cap 0 .. Len(d.fills)
  /\ \A i \in 1 .. n : e.fills[i] = d.fills[i]

\* Their tables agree so far.
LEMMA FillsTablesAgree ==
  ASSUME NEW b, NEW e, NEW d, NEW f, NEW g, FillsTable(b, e, f), FillsTable(b, d, g),
         NEW n, SameFills(e, d, n)
  PROVE  f[n] = g[n]
<1> DEFINE bad == {m \in 0 .. n : f[m] # g[m]}
<1>0. n \in Nat /\ e.session = d.session /\ \A i \in 1 .. n : e.fills[i] = d.fills[i]
  BY DEF SameFills
<1>1. \A m \in 0 .. n : f[m] = FillsStep(b, e, f, m) /\ g[m] = FillsStep(b, d, g, m)
  <2> DEFINE p == Len(e.fills)
             q == Len(d.fills)
  <2>1. /\ \A m \in 0 .. p : f[m] = FillsStep(b, e, f, m)
        /\ \A m \in 0 .. q : g[m] = FillsStep(b, d, g, m)
    BY DEF FillsTable
  <2>2. p \in Nat /\ q \in Nat /\ n <= p /\ n <= q
    BY DEF SameFills
  <2> HIDE DEF p, q
  <2> QED BY <1>0, <2>1, <2>2
<1>2. bad = {}
  <2> SUFFICES ASSUME bad # {} PROVE FALSE
    OBVIOUS
  <2>1. PICK m \in bad : \A k \in bad : m <= k
    <3>1. bad \in SUBSET Nat
      BY <1>0
    <3> HIDE DEF bad
    <3> QED BY <3>1, LeastExists
  <2>2. CASE m = 0
    BY <1>0, <1>1, <2>1, <2>2 DEF FillsStep
  <2>3. CASE m # 0
    <3>1. m - 1 \in 0 .. n /\ m - 1 \notin bad /\ m \in 1 .. n
      BY <1>0, <2>1, <2>3
    <3> QED BY <1>0, <1>1, <2>1, <2>3, <3>1 DEF FillsStep
  <2> QED BY <2>2, <2>3
<1>3. n \in 0 .. n
  BY <1>0
<1> QED BY <1>2, <1>3

\* Only an event's fills and session matter for what it does to the shares.
LEMMA FillsOnly ==
  ASSUME NEW b, NEW e, NEW d, e.session = d.session, e.fills = d.fills, Len(e.fills) \in Nat
  PROVE  ApplyFills(b, e) = ApplyFills(b, d)
<1> DEFINE n == Len(e.fills)
<1>1. PICK f : FillsTable(b, e, f) /\ ApplyFills(b, e) = f[n]
  BY ApplyFillsIs
<1>2. PICK g : FillsTable(b, d, g) /\ ApplyFills(b, d) = g[n]
  BY ApplyFillsIs
<1>3. SameFills(e, d, n) /\ Len(d.fills) = n
  BY DEF SameFills
<1> HIDE DEF n
<1>5. f[n] = g[n]
  BY <1>1, <1>2, FillsTablesAgree, <1>3
<1> QED BY <1>1, <1>2, <1>3, <1>5

\* One more fill is applied to what the others left.
LEMMA FillsAppend ==
  ASSUME NEW b, NEW T, NEW e, e.fills \in Seq(T), NEW x \in T,
         NEW d, d.session = e.session, d.fills = Append(e.fills, x)
  PROVE  ApplyFills(b, d) = ApplyFill(ApplyFills(b, e), x, e.session)
<1> DEFINE n == Len(e.fills)
<1>1. /\ n \in Nat /\ Len(d.fills) = n + 1 /\ d.fills[n + 1] = x
      /\ \A i \in 1 .. n : d.fills[i] = e.fills[i]
  OBVIOUS
<1>2. PICK f : FillsTable(b, e, f) /\ ApplyFills(b, e) = f[n]
  BY <1>1, ApplyFillsIs
<1>3. PICK g : FillsTable(b, d, g) /\ ApplyFills(b, d) = g[n + 1]
  BY <1>1, ApplyFillsIs
<1>4. f[n] = g[n]
  <2>1. SameFills(e, d, n)
    BY <1>1 DEF SameFills
  <2> HIDE DEF n
  <2> QED BY <1>2, <1>3, <2>1, FillsTablesAgree
<1>5. g[n + 1] = ApplyFill(g[n], d.fills[n + 1], d.session)
  <2>1. n + 1 \in 0 .. n + 1 /\ n + 1 # 0 /\ (n + 1) - 1 = n
    BY <1>1
  <2>2. g[n + 1] = FillsStep(b, d, g, n + 1)
    BY <1>1, <1>3, <2>1 DEF FillsTable
  <2> QED BY <2>1, <2>2 DEF FillsStep
<1> QED BY <1>1, <1>2, <1>3, <1>4, <1>5

\* No fills, no change
LEMMA ApplyNoFills ==
  ASSUME NEW b, NEW e, e.fills = <<>>
  PROVE  ApplyFills(b, e) = b
<1>1. Len(e.fills) = 0
  OBVIOUS
<1>2. PICK f : FillsTable(b, e, f) /\ ApplyFills(b, e) = f[0]
  BY <1>1, ApplyFillsIs
<1> QED BY <1>1, <1>2 DEF FillsTable, FillsStep

-----------------------------------------------------------------------------
(* What a fill does to a book that can take it *)

\* A buy the cash covers is booked.
LEMMA BuyBooked ==
  ASSUME NEW b, IsBook(b), b.ok, NEW fill, ValidFill(fill), fill.side = "BUY",
         fill.quantity * fill.price + fill.fees <= b.cash,
         NEW day, NEW c, c = ApplyFill(b, fill, day)
  PROVE  /\ c.ok /\ c.cash = b.cash - (fill.quantity * fill.price + fill.fees)
         /\ c.peak = b.peak
         /\ DOMAIN c.holdings = DOMAIN b.holdings \cup {fill.symbol}
<1> DEFINE cost == fill.quantity * fill.price + fill.fees
           lot == [session |-> day, quantity |-> fill.quantity, cost |-> cost]
           h == [s \in DOMAIN b.holdings \cup {fill.symbol} |->
                  IF s = fill.symbol
                  THEN [lots |-> Append(LotsOf(b, s), lot), mark |-> fill.price]
                  ELSE b.holdings[s]]
           next == [b EXCEPT !.cash = @ - cost, !.holdings = h]
<1>1. c = Checked(b, cost <= b.cash, next)
  BY DEF ApplyFill, ApplyBuy
<1> HIDE DEF next
<1>2. c = next
  BY <1>1, CheckedFacts
<1> HIDE DEF cost, h
<1>3. c.ok = b.ok /\ c.cash = b.cash - cost /\ c.peak = b.peak /\ c.holdings = h
  BY <1>2 DEF next, IsBook
<1> QED BY <1>3 DEF cost, h

\* A sale of what is held, for more than its fees, is booked.
LEMMA SaleBooked ==
  ASSUME NEW b, IsBook(b), b.ok, NEW fill, ValidFill(fill), fill.side = "SELL",
         fill.quantity <= SharesOf(b, fill.symbol),
         fill.quantity * fill.price - fill.fees >= 0,
         NEW day, NEW c, c = ApplyFill(b, fill, day)
  PROVE  /\ c.ok /\ c.cash = b.cash + (fill.quantity * fill.price - fill.fees)
         /\ c.peak = b.peak
         /\ DOMAIN c.holdings \subseteq DOMAIN b.holdings
<1> DEFINE lots == LotsOf(b, fill.symbol)
           left == LotsAfterSale(lots, fill.quantity)
           proceeds == fill.quantity * fill.price - fill.fees
           allocated == SumFunction([i \in DOMAIN lots |-> TakenCost(lots, fill.quantity, i)])
           h == IF left = <<>>
                THEN Restrict(b.holdings, DOMAIN b.holdings \ {fill.symbol})
                ELSE [b.holdings EXCEPT ![fill.symbol] = [lots |-> left, mark |-> fill.price]]
           valid == fill.quantity <= LotQuantity(lots) /\ proceeds >= 0
           next == [b EXCEPT !.cash = @ + proceeds, !.realized = @ + (proceeds - allocated),
                             !.holdings = h]
<1>1. c = Checked(b, valid, next)
  BY DEF ApplyFill, ApplySell
<1>2. valid
  BY DEF SharesOf
<1> HIDE DEF next, valid
<1>3. c = next
  BY <1>1, <1>2, CheckedFacts
<1>4. DOMAIN h \subseteq DOMAIN b.holdings
  BY DEF Restrict
<1> HIDE DEF proceeds, allocated, h
<1>5. c.ok = b.ok /\ c.cash = b.cash + proceeds /\ c.peak = b.peak /\ c.holdings = h
  BY <1>3 DEF next, IsBook
<1> QED BY <1>4, <1>5 DEF proceeds

\* A symbol is held if and only if there are shares of it.
LEMMA HeldHasShares ==
  ASSUME NEW b, GoodHoldings(b.holdings), NEW s
  PROVE  /\ SharesOf(b, s) \in Nat
         /\ s \in DOMAIN b.holdings <=> SharesOf(b, s) > 0
         /\ s \notin DOMAIN b.holdings <=> SharesOf(b, s) = 0
<1>1. CASE s \notin DOMAIN b.holdings
  BY <1>1, NoLots DEF SharesOf, LotsOf
<1>2. CASE s \in DOMAIN b.holdings
  <2> DEFINE lots == b.holdings[s].lots
             f == QuantityOf(lots)
             n == Len(lots)
  <2>1. GoodLots(lots) /\ lots # <<>> /\ SharesOf(b, s) = LotQuantity(lots)
    BY <1>2 DEF GoodHoldings, SharesOf, LotsOf
  <2> HIDE DEF lots
  <2>2. /\ n \in Nat /\ DOMAIN lots = 1 .. n /\ lots \in Seq(ToSet(lots))
        /\ LotQuantity(lots) = SumFunctionOnSet(f, 1 .. n)
    BY <2>1, LotSums, SeqShape DEF GoodLots, IsSeq
  <2>3. n # 0
    BY <2>1, <2>2
  <2>4. \A i \in 1 .. n : f[i] \in Nat \ {0}
    BY <2>1, <2>2 DEF QuantityOf, GoodLots
  <2>5. IsFiniteSet(1 .. n) /\ {1} \in SUBSET (1 .. n) /\ 1 \in 1 .. n
    BY <2>2, <2>3, FS_Interval
  <2> HIDE DEF f, n
  <2>6. /\ SumFunctionOnSet(f, 1 .. n) \in Nat /\ SumFunctionOnSet(f, {1}) = f[1]
        /\ SumFunctionOnSet(f, {1}) <= SumFunctionOnSet(f, 1 .. n)
    <3>1. \A i \in 1 .. n : f[i] \in Nat
      BY <2>4
    <3>2. f[1] \in Int
      BY <2>4, <2>5
    <3> QED BY <2>5, <3>1, <3>2, SumOfNaturals, SumOfOne
  <2>7. SharesOf(b, s) \in Nat /\ SharesOf(b, s) > 0
    BY <2>1, <2>2, <2>4, <2>5, <2>6
  <2> QED BY <1>2, <2>7
<1> QED BY <1>1, <1>2

\* What can be sold in a session is part of what is held.
LEMMA SellableIsHeld ==
  ASSUME NEW b, GoodHoldings(b.holdings), NEW place, NEW s, NEW day
  PROVE  LET lots == [x \in DOMAIN b.holdings |-> b.holdings[x].lots]
         IN  /\ SellableQuantity(place, lots, s, day) \in Nat
             /\ SellableQuantity(place, lots, s, day) <= SharesOf(b, s)
<1> DEFINE lots == [x \in DOMAIN b.holdings |-> b.holdings[x].lots]
<1>1. SharesOf(b, s) \in Nat
  BY HeldHasShares
<1>2. CASE s \notin DOMAIN lots
  BY <1>1, <1>2 DEF SellableQuantity
<1>3. CASE s \in DOMAIN lots
  <2> DEFINE own == b.holdings[s].lots
             n == Len(own)
             f == QuantityOf(own)
             old == {j \in DOMAIN own : Settled(place, own[j], day)}
             g == [i \in old |-> own[i].quantity]
  <2>1. GoodLots(own) /\ SharesOf(b, s) = LotQuantity(own) /\ lots[s] = own
    BY <1>3 DEF GoodHoldings, SharesOf, LotsOf
  <2>2. SellableQuantity(place, lots, s, day) = SumFunction(g)
    BY <1>3, <2>1 DEF SellableQuantity
  <2> HIDE DEF own
  <2>3. /\ n \in Nat /\ DOMAIN own = 1 .. n
        /\ LotQuantity(own) = SumFunctionOnSet(f, 1 .. n)
    BY <2>1, LotSums, SeqShape DEF GoodLots
  <2>4. \A i \in 1 .. n : f[i] \in Nat
    BY <2>1, <2>3 DEF QuantityOf, GoodLots
  <2>5. IsFiniteSet(1 .. n) /\ old \in SUBSET (1 .. n)
    BY <2>3, FS_Interval
  <2>6. IsFiniteSet(old) /\ \A i \in old : g[i] = f[i]
    BY <2>5, FS_Subset DEF QuantityOf
  <2>7. DOMAIN g = old
    OBVIOUS
  <2> HIDE DEF f, g, n, old
  <2>8. SumFunctionOnSet(g, old) = SumFunctionOnSet(f, old)
    BY <2>6, SumSame
  <2>9. /\ SumFunctionOnSet(f, old) \in Nat
        /\ SumFunctionOnSet(f, old) <= SumFunctionOnSet(f, 1 .. n)
    BY <2>4, <2>5, SumOfNaturals
  <2>10. SumFunction(g) = SumFunctionOnSet(f, old)
    BY <2>7, <2>8 DEF SumFunction
  <2> QED BY <2>1, <2>2, <2>3, <2>9, <2>10
<1> QED BY <1>2, <1>3

-----------------------------------------------------------------------------
(* The invariant of a run *)

Symbols == DOMAIN SectorOf

Ids == (1 .. Sessions) \X Symbols \X {"BUY", "SELL"}

Orders == [id : Ids, symbol : Symbols, side : {"BUY", "SELL"}, quantity : Nat \ {0}]

Waiting == [id : Ids, symbol : Symbols, side : {"BUY", "SELL"}, quantity : Nat \ {0},
            eligible : Nat]

Simulators == [pending : Seq(Waiting), used : SUBSET Ids, through : Nat]

\* The ledger's book of a run: sound, never refused, of instruments of the run
BookOK(b) ==
  /\ Sound(b) /\ b.ok
  /\ b.peak \in Nat
  /\ DOMAIN b.holdings \subseteq Symbols

\* What the pending orders may add to the holdings
ToBuy(pending) == {pending[i].symbol : i \in {j \in DOMAIN pending : pending[j].side = "BUY"}}

IdsOf(pending) == [i \in DOMAIN pending |-> pending[i].id]

\* Between a close and the next open exactly the accepted orders are pending, and they
\* can all be executed then; after it none is.
PendingOK ==
  /\ sim \in Simulators
  /\ phase = "open" => /\ priorPending = IdsOf(sim.pending)
                       /\ \A i \in DOMAIN sim.pending : sim.pending[i].eligible = session
  /\ phase # "open" => sim.pending = <<>>

\* There is a slot for whatever the pending orders buy.
SlotsOK == Cardinality(DOMAIN book.holdings \cup ToBuy(sim.pending)) <= MaxHoldings

AccountInv ==
  /\ market \in {"CN", "US"}
  /\ strategy \in {"free", "A"}
  /\ session \in 1 .. Sessions
  /\ phase \in {"open", "close", "done"}
  /\ BookOK(book)
  /\ PendingOK
  /\ SlotsOK
  /\ dayStartCash \in Nat /\ newNotional \in Nat

ResultsInv == BatchWithinLimits /\ ReductionHalves /\ EnvelopeCarriedOut

RunInv == AccountInv /\ ResultsInv

\* What a session makes of an order, and of the orders before it
FillRecords == [id : Ids, symbol : Symbols, side : {"BUY", "SELL"},
                status : {"FILLED", "REJECTED"}, quantity : Nat \ {0}, price : Nat, fees : Nat,
                session : Nat]

Progress(S) == [fills : Seq(FillRecords), remaining : Seq(Waiting), cash : Int,
                sellable : [S -> Int]]

\* What an open sees
OpenOK(opens, states) ==
  /\ session \in Nat /\ market \in {"CN", "US"}
  /\ opens \in [Symbols -> Nat \ {0}]
  /\ market = "CN" => states \in [Symbols -> SessionStates]

-----------------------------------------------------------------------------
(* One pending order *)

\* Costs of a trade are a natural.
LEMMA FeesAreNatural ==
  ASSUME NEW quantity \in Nat, NEW price \in Nat
  PROVE  Fees(quantity, price) \in Nat
<1> DEFINE a == quantity * price * CostBps
           c == 10000 * Grain
           d == a \div c
<1>1. Grain \in Nat \ {0} /\ CostBps \in Nat
  BY SimulatorAssumption
<1>2. a \in Nat /\ c \in Nat \ {0}
  <2>1. quantity * price \in Nat
    OBVIOUS
  <2> QED BY <1>1, <2>1
<1>3. d \in Nat
  <2> HIDE DEF a, c
  <2> QED BY <1>2
<1>4. d * Grain \in Nat
  <2> HIDE DEF d
  <2> QED BY <1>1, <1>3
<1> QED BY <1>4 DEF Fees

\* What a filled order changes
Executed(acc, x, next) ==
  LET gross == x.quantity * x.price
  IN /\ next.fills = Append(acc.fills, x)
     /\ next.remaining = acc.remaining
     /\ x.side = "BUY" => /\ gross + x.fees <= acc.cash
                          /\ next.cash = acc.cash - (gross + x.fees)
                          /\ next.sellable = acc.sellable
     /\ x.side = "SELL" => /\ gross - x.fees >= 0
                           /\ next.cash = acc.cash + (gross - x.fees)
                           /\ x.quantity <= acc.sellable[x.symbol]
                           /\ next.sellable = [acc.sellable EXCEPT ![x.symbol] = @ - x.quantity]

\* A pending order that is due is filled or rejected: none is left over.
LEMMA OrderEnds ==
  ASSUME NEW order \in Waiting, order.eligible = session,
         NEW opens, NEW states, OpenOK(opens, states),
         NEW S, order.symbol \in S, NEW acc \in Progress(S),
         NEW next, next = ProcessOrder(acc, order, market, session, opens, states)
  PROVE  /\ next \in Progress(S)
         /\ \E x \in FillRecords :
              /\ x.id = order.id /\ x.symbol = order.symbol /\ x.side = order.side
              /\ \/ /\ x.status = "REJECTED"
                    /\ next.fills = Append(acc.fills, x)
                    /\ next.remaining = acc.remaining /\ next.cash = acc.cash
                    /\ next.sellable = acc.sellable
                 \/ /\ x.status = "FILLED" /\ ValidFill(x)
                    /\ Executed(acc, x, next)
<1> DEFINE price == opens[order.symbol]
           refused == Fill(order, "REJECTED", 0, session)
           filled == Fill(order, "FILLED", price, session)
           none == [acc EXCEPT !.fills = Append(@, refused)]
<1>1. /\ order.id \in Ids /\ order.symbol \in Symbols /\ order.side \in {"BUY", "SELL"}
      /\ order.quantity \in Nat \ {0} /\ price \in Nat \ {0}
      /\ order.symbol \in DOMAIN opens /\ (market = "CN" => order.symbol \in DOMAIN states)
  BY DEF Waiting, OpenOK
<1>2. Fees(order.quantity, price) \in Nat
  BY <1>1, FeesAreNatural
<1>3. refused \in FillRecords /\ filled \in FillRecords
  BY <1>1, <1>2 DEF Fill, FillRecords, OpenOK
<1>4. /\ refused.id = order.id /\ refused.symbol = order.symbol /\ refused.side = order.side
      /\ refused.status = "REJECTED"
  BY DEF Fill
<1>5. /\ filled.id = order.id /\ filled.symbol = order.symbol /\ filled.side = order.side
      /\ filled.status = "FILLED" /\ filled.quantity = order.quantity
      /\ filled.price = price /\ filled.fees = Fees(order.quantity, price)
  BY DEF Fill
<1>6. \/ next = none
      \/ /\ next = Execute(acc, order, session, price)
         /\ CanSell(acc, order) /\ Affordable(acc, order, price)
  BY <1>1 DEF ProcessOrder, OpenOK
<1>7. /\ acc.fills \in Seq(FillRecords) /\ acc.remaining \in Seq(Waiting)
      /\ acc.cash \in Int /\ acc.sellable \in [S -> Int]
  BY DEF Progress
<1> HIDE DEF price, refused, filled
<1>8. /\ Append(acc.fills, refused) \in Seq(FillRecords)
      /\ Append(acc.fills, filled) \in Seq(FillRecords)
  BY <1>3, <1>7
<1>9. CASE next = none
  <2>1. next \in Progress(S)
    BY <1>7, <1>8, <1>9 DEF Progress
  <2>2. /\ next.fills = Append(acc.fills, refused) /\ next.remaining = acc.remaining
        /\ next.cash = acc.cash /\ next.sellable = acc.sellable
    BY <1>9 DEF Progress
  <2> QED BY <1>3, <1>4, <2>1, <2>2
<1>10. CASE /\ next = Execute(acc, order, session, price)
            /\ CanSell(acc, order) /\ Affordable(acc, order, price)
  <2> DEFINE change == CashChange(order, price)
             cash == IF order.side = "BUY" THEN acc.cash - change ELSE acc.cash + change
             rest == [acc.sellable EXCEPT ![order.symbol] =
                        IF order.side = "BUY" THEN @ ELSE @ - order.quantity]
  <2>1. next = [acc EXCEPT !.fills = Append(@, filled), !.cash = cash, !.sellable = rest]
    BY <1>10 DEF Execute, filled
  <2>2. change \in Int /\ order.quantity * price \in Int
    BY <1>1, <1>2 DEF CashChange
  <2>3. cash \in Int /\ rest \in [S -> Int]
    BY <1>1, <1>7, <2>2
  <2> HIDE DEF cash, rest
  <2>4. /\ next.fills = Append(acc.fills, filled) /\ next.remaining = acc.remaining
        /\ next.cash = cash /\ next.sellable = rest
    BY <2>1 DEF Progress
  <2>5. next \in Progress(S)
    BY <1>7, <1>8, <2>1, <2>3 DEF Progress
  <2>6. ValidFill(filled)
    BY <1>1, <1>2, <1>5 DEF ValidFill
  <2>7. CASE order.side = "BUY"
    <3>1. change = filled.quantity * filled.price + filled.fees /\ change <= acc.cash
      BY <1>5, <1>10, <2>7 DEF CashChange, Affordable
    <3>2. cash = acc.cash - change /\ rest = acc.sellable
      BY <1>7, <2>7 DEF cash, rest
    <3>3. Executed(acc, filled, next)
      BY <1>5, <2>4, <2>7, <3>1, <3>2 DEF Executed
    <3> QED BY <1>3, <1>5, <2>5, <2>6, <3>3
  <2>8. CASE order.side = "SELL"
    <3>1. change = filled.quantity * filled.price - filled.fees /\ change >= 0
      BY <1>5, <1>10, <2>8 DEF CashChange, Affordable
    <3>2. /\ cash = acc.cash + change
          /\ rest = [acc.sellable EXCEPT ![order.symbol] = @ - order.quantity]
      BY <2>8 DEF cash, rest
    <3>3. order.quantity <= acc.sellable[order.symbol]
      BY <1>10, <2>8 DEF CanSell
    <3>4. Executed(acc, filled, next)
      BY <1>5, <2>4, <2>8, <3>1, <3>2, <3>3 DEF Executed
    <3> QED BY <1>3, <1>5, <2>5, <2>6, <3>4
  <2> QED BY <1>1, <2>7, <2>8
<1> QED BY <1>6, <1>9, <1>10

-----------------------------------------------------------------------------
(* The pending orders of an open *)

Symbolic(pending) == {o.symbol : o \in ToSet(pending)}

\* process_session goes through the pending orders one by one.
SessionStart ==
  [fills |-> <<>>, remaining |-> <<>>, cash |-> book.cash,
   sellable |-> [s \in Symbolic(sim.pending) |-> SellableQuantity(market, LotsByHolding, s, session)]]

SessionStep(opens, states, f, n) ==
  IF n = 0 THEN SessionStart
  ELSE ProcessOrder(f[n - 1], sim.pending[n], market, session, opens, states)

SessionTable(opens, states, f) ==
  f = [n \in 0 .. Len(sim.pending) |-> SessionStep(opens, states, f, n)]

\* The table of a session exists.
LEMMA SessionTableExists ==
  ASSUME NEW opens, NEW states, Len(sim.pending) \in Nat
  PROVE  \E f : SessionTable(opens, states, f)
<1> DEFINE Upto(n) == \E f : f = [i \in 0 .. n |-> SessionStep(opens, states, f, i)]
           bad == {n \in Nat : ~Upto(n)}
<1>1. Upto(0)
  <2> DEFINE f == [i \in 0 .. 0 |-> SessionStart]
  <2>1. f = [i \in 0 .. 0 |-> SessionStep(opens, states, f, i)]
    BY DEF SessionStep
  <2> QED BY <2>1
<1>2. ASSUME NEW n \in Nat \ {0}, Upto(n - 1) PROVE Upto(n)
  <2>1. PICK f : f = [i \in 0 .. n - 1 |-> SessionStep(opens, states, f, i)]
    BY <1>2
  <2> DEFINE g == [i \in 0 .. n |-> IF i = n THEN SessionStep(opens, states, f, n) ELSE f[i]]
  <2>2. \A i \in 0 .. n - 1 : g[i] = f[i]
    OBVIOUS
  <2>3. ASSUME NEW i \in 0 .. n PROVE g[i] = SessionStep(opens, states, g, i)
    <3>1. i # 0 => i - 1 \in 0 .. n - 1 /\ g[i - 1] = f[i - 1]
      BY <2>2
    <3>2. SessionStep(opens, states, g, i) = SessionStep(opens, states, f, i)
      BY <3>1 DEF SessionStep
    <3>3. i # n => f[i] = SessionStep(opens, states, f, i)
      <4>1. i # n => i \in 0 .. n - 1
        OBVIOUS
      <4> QED BY <2>1, <4>1
    <3> QED BY <3>2, <3>3
  <2>4. g = [i \in 0 .. n |-> SessionStep(opens, states, g, i)]
    BY <2>3
  <2> HIDE DEF g
  <2> QED BY <2>4
<1> HIDE DEF Upto
<1>3. bad = {}
  <2> SUFFICES ASSUME bad # {} PROVE FALSE
    OBVIOUS
  <2>1. PICK n \in bad : \A m \in bad : n <= m
    <3> HIDE DEF bad
    <3>1. bad \in SUBSET Nat
      BY DEF bad
    <3> QED BY <3>1, LeastExists
  <2>2. n \in Nat \ {0} /\ n - 1 \in Nat
    BY <1>1, <2>1
  <2>3. n - 1 \notin bad
    BY <2>1, <2>2
  <2> QED BY <1>2, <2>1, <2>2, <2>3
<1>4. Upto(Len(sim.pending))
  BY <1>3
<1> QED BY <1>4 DEF SessionTable, Upto

\* ProcessSession is read off its last entry.
LEMMA SessionIs ==
  ASSUME NEW opens, NEW states, Len(sim.pending) \in Nat
  PROVE  \E f : /\ SessionTable(opens, states, f)
                /\ ProcessSession(sim, market, session, opens, states, LotsByHolding, book.cash)
                     = [fills |-> f[Len(sim.pending)].fills, cash |-> f[Len(sim.pending)].cash,
                        sim |-> [sim EXCEPT !.pending = f[Len(sim.pending)].remaining,
                                            !.through = session]]
<1> DEFINE f == CHOOSE g : SessionTable(opens, states, g)
<1>1. SessionTable(opens, states, f)
  <2>1. \E g : SessionTable(opens, states, g)
    BY SessionTableExists
  <2> QED BY <2>1
<1>2. ProcessSession(sim, market, session, opens, states, LotsByHolding, book.cash)
        = [fills |-> f[Len(sim.pending)].fills, cash |-> f[Len(sim.pending)].cash,
           sim |-> [sim EXCEPT !.pending = f[Len(sim.pending)].remaining,
                               !.through = session]]
  BY DEF ProcessSession, SessionTable, SessionStep, SessionStart, Symbolic
<1> HIDE DEF f
<1> QED BY <1>1, <1>2

\* What the ledger makes of the fills so far
Booking(fills) == [BlankEvent EXCEPT !.session = session, !.fills = fills]
Booked(acc) == ApplyFills(book, Booking(Filled(acc.fills)))

\* The simulator's cash and stock are the ledger's, after every order of a session.
SessionInv(acc, n) ==
  LET b == Booked(acc)
  IN /\ acc \in Progress(Symbolic(sim.pending))
     /\ acc.remaining = <<>>
     /\ Len(acc.fills) = n /\ \A i \in 1 .. n : acc.fills[i].id = sim.pending[i].id
     /\ Filled(acc.fills) \in Seq(FillRecords)
     /\ \A i \in DOMAIN Filled(acc.fills) : ValidFill(Filled(acc.fills)[i])
     /\ Sound(b) /\ b.ok /\ b.cash = acc.cash /\ b.peak = book.peak
     /\ \A s \in Symbolic(sim.pending) : acc.sellable[s] <= SharesOf(b, s)
     /\ DOMAIN b.holdings \subseteq DOMAIN book.holdings \cup ToBuy(sim.pending)

\* It holds at the start of a session.
LEMMA SessionStarts ==
  ASSUME BookOK(book)
  PROVE  SessionInv(SessionStart, 0)
<1> DEFINE S == Symbolic(sim.pending)
           start == SessionStart
<1>1. Sound(book) /\ book.ok /\ book.peak \in Nat /\ IsBook(book) /\ Good(book)
  BY DEF BookOK, Sound
<1>2. book.cash \in Int /\ GoodHoldings(book.holdings)
  BY <1>1 DEF IsBook, Good
<1>3. \A s \in S : /\ SellableQuantity(market, LotsByHolding, s, session) \in Nat
                   /\ SellableQuantity(market, LotsByHolding, s, session) <= SharesOf(book, s)
  BY <1>2, SellableIsHeld DEF LotsByHolding
<1>4. start \in Progress(S)
  <2> DEFINE sellable == [s \in S |-> SellableQuantity(market, LotsByHolding, s, session)]
  <2>1. sellable \in [S -> Int]
    BY <1>3
  <2>2. start = [fills |-> <<>>, remaining |-> <<>>, cash |-> book.cash, sellable |-> sellable]
    BY DEF SessionStart
  <2>3. <<>> \in Seq(FillRecords) /\ <<>> \in Seq(Waiting)
    OBVIOUS
  <2> HIDE DEF sellable, start, S
  <2> QED BY <1>2, <2>1, <2>2, <2>3 DEF Progress
<1>5. /\ start.fills = <<>> /\ start.remaining = <<>> /\ start.cash = book.cash
      /\ \A s \in S : start.sellable[s] = SellableQuantity(market, LotsByHolding, s, session)
  BY DEF SessionStart
<1> HIDE DEF start, S
<1>6. Filled(start.fills) = <<>> /\ Len(start.fills) = 0
  BY <1>5, FilledNothing
<1>7. Booked(start) = book
  <2> DEFINE e == Booking(Filled(start.fills))
  <2>1. e.fills = <<>>
    BY <1>6 DEF Booking, BlankEvent
  <2> HIDE DEF e
  <2> QED BY <2>1, ApplyNoFills DEF Booked, e
<1>8. <<>> \in Seq(FillRecords) /\ DOMAIN <<>> = {} /\ 1 .. 0 = {}
  OBVIOUS
<1> QED BY <1>1, <1>3, <1>4, <1>5, <1>6, <1>7, <1>8 DEF SessionInv, S, start

\* An order keeps it.
LEMMA SessionGoesOn ==
  ASSUME NEW opens, NEW states, OpenOK(opens, states),
         NEW n \in Nat \ {0}, n \in DOMAIN sim.pending, sim.pending \in Seq(Waiting),
         sim.pending[n].eligible = session,
         NEW acc, SessionInv(acc, n - 1),
         NEW next, next = ProcessOrder(acc, sim.pending[n], market, session, opens, states)
  PROVE  SessionInv(next, n)
<1> DEFINE S == Symbolic(sim.pending)
           order == sim.pending[n]
           b == Booked(acc)
           c == Booked(next)
           fills == Filled(acc.fills)
<1>1. order \in Waiting /\ order.symbol \in S /\ order.eligible = session
  BY DEF Symbolic, ToSet
<1>2. /\ acc \in Progress(S)
      /\ acc.remaining = <<>>
      /\ Len(acc.fills) = n - 1 /\ \A i \in 1 .. n - 1 : acc.fills[i].id = sim.pending[i].id
      /\ fills \in Seq(FillRecords)
      /\ \A i \in DOMAIN fills : ValidFill(fills[i])
      /\ Sound(b) /\ b.ok /\ b.cash = acc.cash /\ b.peak = book.peak
      /\ \A s \in S : acc.sellable[s] <= SharesOf(b, s)
      /\ DOMAIN b.holdings \subseteq DOMAIN book.holdings \cup ToBuy(sim.pending)
  BY DEF SessionInv
<1>b. order.side = "BUY" => order.symbol \in ToBuy(sim.pending)
  BY DEF ToBuy
<1>3. acc.fills \in Seq(FillRecords) /\ acc.sellable \in [S -> Int] /\ acc.cash \in Int
  BY <1>2 DEF Progress
<1> HIDE DEF S, order
<1>4. /\ next \in Progress(S)
      /\ \E x \in FillRecords :
           /\ x.id = order.id /\ x.symbol = order.symbol /\ x.side = order.side
           /\ \/ /\ x.status = "REJECTED"
                 /\ next.fills = Append(acc.fills, x)
                 /\ next.remaining = acc.remaining /\ next.cash = acc.cash
                 /\ next.sellable = acc.sellable
              \/ /\ x.status = "FILLED" /\ ValidFill(x)
                 /\ Executed(acc, x, next)
  <2>1. next = ProcessOrder(acc, order, market, session, opens, states)
    BY DEF order
  <2> QED BY <1>1, <1>2, <2>1, OrderEnds
<1>5. PICK x \in FillRecords :
        /\ x.id = order.id /\ x.symbol = order.symbol /\ x.side = order.side
        /\ \/ /\ x.status = "REJECTED"
              /\ next.fills = Append(acc.fills, x)
              /\ next.remaining = acc.remaining /\ next.cash = acc.cash
              /\ next.sellable = acc.sellable
           \/ /\ x.status = "FILLED" /\ ValidFill(x)
              /\ Executed(acc, x, next)
  BY <1>4
<1>6. next.fills = Append(acc.fills, x) /\ next.remaining = <<>>
  BY <1>2, <1>5 DEF Executed
<1>7. Len(next.fills) = n /\ \A i \in 1 .. n : next.fills[i].id = sim.pending[i].id
  <2> DEFINE old == acc.fills
             new == next.fills
  <2>1. /\ Len(new) = n /\ new[n] = x /\ \A i \in 1 .. n - 1 : new[i] = old[i]
    BY <1>2, <1>3, <1>6
  <2> HIDE DEF old, new
  <2>2. new[n].id = sim.pending[n].id
    BY <1>5, <2>1 DEF order
  <2>3. \A i \in 1 .. n - 1 : new[i].id = sim.pending[i].id
    BY <1>2, <2>1 DEF old
  <2>4. \A i \in 1 .. n : i = n \/ i \in 1 .. n - 1
    OBVIOUS
  <2> QED BY <2>1, <2>2, <2>3, <2>4 DEF new
<1>8. Filled(next.fills) = IF x.status = "FILLED" THEN Append(fills, x) ELSE fills
  <2>1. Filled(Append(acc.fills, x))
          = IF x.status = "FILLED" THEN Append(Filled(acc.fills), x) ELSE Filled(acc.fills)
    BY <1>3, FilledAppend
  <2> QED BY <1>6, <2>1
<1>9. CASE x.status = "REJECTED"
  <2>1. Filled(next.fills) = fills /\ c = b
    BY <1>8, <1>9 DEF Booked
  <2>2. next.cash = acc.cash /\ next.sellable = acc.sellable
    BY <1>5, <1>9
  <2> HIDE DEF b, c, fills
  <2>3. /\ Sound(c) /\ c.ok /\ c.cash = next.cash /\ c.peak = book.peak
        /\ \A s \in S : next.sellable[s] <= SharesOf(c, s)
        /\ DOMAIN c.holdings \subseteq DOMAIN book.holdings \cup ToBuy(sim.pending)
        /\ Filled(next.fills) \in Seq(FillRecords)
        /\ \A i \in DOMAIN Filled(next.fills) : ValidFill(Filled(next.fills)[i])
    BY <1>2, <2>1, <2>2
  <2> QED BY <1>4, <1>6, <1>7, <2>3 DEF SessionInv, S, c
<1>10. CASE x.status = "FILLED"
  <2>1. Filled(next.fills) = Append(fills, x)
    BY <1>8, <1>10
  <2>2. ValidFill(x) /\ Executed(acc, x, next)
    BY <1>5, <1>10
  <2>3. c = ApplyFill(b, x, session)
    <3> DEFINE e == Booking(fills)
               d == Booking(Append(fills, x))
    <3>1. e.fills = fills /\ d.fills = Append(fills, x) /\ e.session = session /\ d.session = session
      BY DEF Booking, BlankEvent
    <3>2. b = ApplyFills(book, e) /\ c = ApplyFills(book, d)
      BY <2>1 DEF Booked
    <3> HIDE DEF e, d, b, c, fills
    <3> QED BY <1>2, <3>1, <3>2, FillsAppend
  <2> HIDE DEF b, c, fills
  <2>4. IsBook(b) /\ Good(b) /\ GoodHoldings(b.holdings)
    BY <1>2 DEF Sound, Good
  <2>5. /\ IsBook(c)
        /\ c.ok => Good(c) /\ \A s : SharesOf(c, s) = SharesOf(b, s) + Net(x, s)
    BY <1>2, <2>2, <2>3, <2>4, FillKeepsBook
  <2>6. \A s : SharesOf(b, s) \in Nat
    BY <2>4, HeldHasShares
  <2>7. x.quantity \in Nat \ {0} /\ x.side \in {"BUY", "SELL"}
    BY <2>2 DEF ValidFill
  <2>8. /\ Filled(next.fills) \in Seq(FillRecords)
        /\ \A i \in DOMAIN Filled(next.fills) : ValidFill(Filled(next.fills)[i])
    <3> DEFINE more == Append(fills, x)
    <3>1. /\ more \in Seq(FillRecords) /\ DOMAIN more = 1 .. Len(fills) + 1
          /\ more[Len(fills) + 1] = x /\ Len(fills) \in Nat /\ DOMAIN fills = 1 .. Len(fills)
          /\ \A i \in 1 .. Len(fills) : more[i] = fills[i]
      BY <1>2
    <3> HIDE DEF more
    <3>2. \A i \in DOMAIN more : i = Len(fills) + 1 \/ i \in 1 .. Len(fills)
      BY <3>1
    <3>3. \A i \in DOMAIN more : ValidFill(more[i])
      BY <1>2, <2>2, <3>1, <3>2
    <3> QED BY <2>1, <3>1, <3>3 DEF more
  <2>9. /\ c.ok /\ c.cash = next.cash /\ c.peak = b.peak
        /\ DOMAIN c.holdings \subseteq DOMAIN book.holdings \cup ToBuy(sim.pending)
        /\ \A s \in S : next.sellable[s] <= SharesOf(c, s)
    <3>1. CASE x.side = "BUY"
      <4>1. /\ x.quantity * x.price + x.fees <= b.cash
            /\ next.cash = b.cash - (x.quantity * x.price + x.fees)
            /\ next.sellable = acc.sellable
        BY <1>2, <2>2, <3>1 DEF Executed
      <4>2. /\ c.ok /\ c.cash = b.cash - (x.quantity * x.price + x.fees)
            /\ c.peak = b.peak
            /\ DOMAIN c.holdings = DOMAIN b.holdings \cup {x.symbol}
        BY <1>2, <2>2, <2>3, <2>4, <3>1, <4>1, BuyBooked
      <4>3. x.symbol \in ToBuy(sim.pending)
        BY <1>b, <1>5, <3>1
      <4>4. ASSUME NEW s \in S PROVE next.sellable[s] <= SharesOf(c, s)
        <5>1. Net(x, s) \in Nat
          BY <2>7, <3>1 DEF Net
        <5>2. acc.sellable[s] \in Int /\ acc.sellable[s] <= SharesOf(b, s)
          BY <1>2, <1>3
        <5> QED BY <2>5, <2>6, <4>1, <4>2, <5>1, <5>2
      <4> QED BY <1>2, <4>1, <4>2, <4>3, <4>4
    <3>2. CASE x.side = "SELL"
      <4>1. /\ x.quantity * x.price - x.fees >= 0
            /\ next.cash = b.cash + (x.quantity * x.price - x.fees)
            /\ x.quantity <= acc.sellable[x.symbol]
            /\ next.sellable = [acc.sellable EXCEPT ![x.symbol] = @ - x.quantity]
        BY <1>2, <2>2, <3>2 DEF Executed
      <4>2. x.symbol \in S
        BY <1>1, <1>5
      <4>3. x.quantity <= SharesOf(b, x.symbol)
        BY <1>2, <1>3, <2>6, <2>7, <4>1, <4>2
      <4>4. /\ c.ok /\ c.cash = b.cash + (x.quantity * x.price - x.fees)
            /\ c.peak = b.peak
            /\ DOMAIN c.holdings \subseteq DOMAIN b.holdings
        BY <1>2, <2>2, <2>3, <2>4, <3>2, <4>1, <4>3, SaleBooked
      <4>5. ASSUME NEW s \in S PROVE next.sellable[s] <= SharesOf(c, s)
        <5>1. acc.sellable[s] \in Int /\ acc.sellable[s] <= SharesOf(b, s)
          BY <1>2, <1>3
        <5>2. SharesOf(c, s) = SharesOf(b, s) + Net(x, s)
          BY <2>5, <4>4
        <5>3. CASE s = x.symbol
          <6>1. next.sellable[s] = acc.sellable[s] - x.quantity
            BY <1>3, <4>1, <5>3
          <6>2. Net(x, s) = 0 - x.quantity
            BY <3>2, <5>3 DEF Net
          <6> QED BY <2>6, <2>7, <5>1, <5>2, <6>1, <6>2
        <5>4. CASE s # x.symbol
          <6>1. next.sellable[s] = acc.sellable[s]
            BY <1>3, <4>1, <5>4
          <6>2. Net(x, s) = 0
            BY <5>4 DEF Net
          <6> QED BY <2>6, <5>1, <5>2, <6>1, <6>2
        <5> QED BY <5>3, <5>4
      <4> QED BY <1>2, <4>1, <4>4, <4>5
    <3> QED BY <2>7, <3>1, <3>2
  <2>10. Sound(c) /\ c.peak = book.peak
    BY <1>2, <2>5, <2>9 DEF Sound
  <2> QED BY <1>4, <1>6, <1>7, <2>8, <2>9, <2>10 DEF SessionInv, S, c
<1> QED BY <1>5, <1>9, <1>10

-----------------------------------------------------------------------------
(* Valuations *)

\* The net asset value of holdings at their marks
WorthOf(holdings) ==
  SumFunction([s \in DOMAIN holdings |-> LotQuantity(holdings[s].lots) * holdings[s].mark])

\* Complete marks are accepted, and value the book.
LEMMA Valuation ==
  ASSUME NEW b, Sound(b), b.ok, b.peak \in Nat,
         NEW marks, DOMAIN marks = DOMAIN b.holdings,
         \A s \in DOMAIN marks : marks[s] \in Nat \ {0},
         NEW c, c = Revalue(ApplyCompleteMarks(b, marks))
  PROVE  /\ Sound(c) /\ c.ok /\ c.peak \in Nat /\ c.cash = b.cash
         /\ DOMAIN c.holdings = DOMAIN b.holdings
         /\ \A s \in DOMAIN c.holdings : /\ c.holdings[s].lots = b.holdings[s].lots
                                         /\ c.holdings[s].mark = marks[s]
         /\ c.nav = c.cash + WorthOf(c.holdings)
<1> DEFINE h == [s \in DOMAIN b.holdings |->
                   IF s \in DOMAIN marks THEN [lots |-> b.holdings[s].lots, mark |-> marks[s]]
                   ELSE b.holdings[s]]
           d == ApplyCompleteMarks(b, marks)
           next == [b EXCEPT !.holdings = h]
           nav == d.cash + WorthOf(d.holdings)
           valued == [d EXCEPT !.nav = nav, !.peak = IF nav > d.peak THEN nav ELSE d.peak]
<1>1. IsBook(b)
  BY DEF Sound
<1>2. d = next
  <2> HIDE DEF next
  <2>1. d = Checked(b, TRUE, Checked(b, TRUE, next))
    BY DEF ApplyCompleteMarks, Mark, next
  <2> HIDE DEF d
  <2> QED BY <1>1, <2>1, CheckedFacts
<1>3. Sound(d)
  BY CompleteMarksKeepBook
<1>4. d.ok = b.ok /\ d.cash = b.cash /\ d.peak = b.peak /\ d.holdings = h
  <2> HIDE DEF d, h
  <2> QED BY <1>1, <1>2 DEF IsBook
<1>5. c = Checked(d, TRUE, valued)
  <2>1. c = Revalue(d)
    OBVIOUS
  <2> HIDE DEF d
  <2> QED BY <2>1 DEF Revalue, WorthOf
<1> HIDE DEF d
<1>6. c = valued
  <2>1. IsBook(d)
    BY <1>3 DEF Sound
  <2> HIDE DEF valued
  <2> QED BY <1>4, <1>5, <2>1, CheckedFacts
<1>7. Sound(c)
  BY <1>3, <1>5, RevalueKeepsBook DEF Revalue, WorthOf
<1> HIDE DEF nav, h
<1>8. /\ c.ok = d.ok /\ c.cash = d.cash /\ c.nav = nav /\ c.holdings = h
      /\ c.peak = IF nav > d.peak THEN nav ELSE d.peak
  <2>1. IsBook(d)
    BY <1>3 DEF Sound
  <2> QED BY <1>4, <1>6, <2>1 DEF IsBook
<1>9. c.nav \in Int
  BY <1>7 DEF Sound, IsBook
<1>10. c.peak \in Nat
  BY <1>4, <1>8, <1>9
<1>11. /\ DOMAIN h = DOMAIN b.holdings
       /\ \A s \in DOMAIN h : h[s].lots = b.holdings[s].lots /\ h[s].mark = marks[s]
  BY DEF h
<1> QED BY <1>4, <1>7, <1>8, <1>10, <1>11 DEF nav

\* Holdings are worth something, so the net value is a natural.
LEMMA WorthIsNatural ==
  ASSUME NEW h, GoodHoldings(h), \A s \in DOMAIN h : h[s].mark \in Nat
  PROVE  /\ WorthOf(h) \in Nat
         /\ \A s \in DOMAIN h : /\ LotQuantity(h[s].lots) \in Nat \ {0}
                                /\ LotQuantity(h[s].lots) * h[s].mark <= WorthOf(h)
<1> DEFINE f == [s \in DOMAIN h |-> LotQuantity(h[s].lots) * h[s].mark]
           b == [holdings |-> h]
<1>1. \A s \in DOMAIN h : LotQuantity(h[s].lots) \in Nat \ {0}
  <2> SUFFICES ASSUME NEW s \in DOMAIN h PROVE LotQuantity(h[s].lots) \in Nat \ {0}
    OBVIOUS
  <2>1. b.holdings = h /\ SharesOf(b, s) = LotQuantity(h[s].lots)
    BY DEF SharesOf, LotsOf
  <2> HIDE DEF b
  <2>2. SharesOf(b, s) \in Nat /\ SharesOf(b, s) > 0
    BY <2>1, HeldHasShares
  <2> QED BY <2>1, <2>2
<1>2. \A s \in DOMAIN h : f[s] \in Nat /\ f[s] = LotQuantity(h[s].lots) * h[s].mark
  <2> SUFFICES ASSUME NEW s \in DOMAIN h PROVE LotQuantity(h[s].lots) * h[s].mark \in Nat
    OBVIOUS
  <2> DEFINE q == LotQuantity(h[s].lots)
             m == h[s].mark
  <2>1. q \in Nat /\ m \in Nat
    BY <1>1
  <2> HIDE DEF q, m
  <2>2. q * m \in Nat
    BY <2>1
  <2> QED BY <2>2 DEF q, m
<1>3. IsFiniteSet(DOMAIN h) /\ DOMAIN f = DOMAIN h
  BY DEF GoodHoldings
<1>4. WorthOf(h) = SumFunctionOnSet(f, DOMAIN h)
  BY DEF WorthOf, SumFunction
<1> HIDE DEF f
<1>5. /\ SumFunctionOnSet(f, DOMAIN h) \in Nat
      /\ \A T \in SUBSET DOMAIN h : SumFunctionOnSet(f, T) <= SumFunctionOnSet(f, DOMAIN h)
  BY <1>2, <1>3, SumOfNaturals
<1>6. \A s \in DOMAIN h : f[s] <= WorthOf(h)
  <2> SUFFICES ASSUME NEW s \in DOMAIN h PROVE f[s] <= WorthOf(h)
    OBVIOUS
  <2>1. f[s] \in Int /\ {s} \in SUBSET DOMAIN h
    BY <1>2
  <2>2. SumFunctionOnSet(f, {s}) = f[s]
    BY <2>1, SumOfOne
  <2> QED BY <1>4, <1>5, <2>1, <2>2
<1> QED BY <1>1, <1>2, <1>4, <1>5, <1>6

-----------------------------------------------------------------------------
(* The open *)

\* At the end of a session every pending order has its result.
LEMMA SessionEnds ==
  ASSUME NEW opens, NEW states, OpenOK(opens, states), BookOK(book),
         sim \in Simulators, \A i \in DOMAIN sim.pending : sim.pending[i].eligible = session,
         NEW executed,
         executed = ProcessSession(sim, market, session, opens, states, LotsByHolding, book.cash)
  PROVE  /\ executed.sim \in Simulators /\ executed.sim.pending = <<>>
         /\ IdsOf(executed.fills) = IdsOf(sim.pending)
         /\ \E acc : SessionInv(acc, Len(sim.pending)) /\ acc.fills = executed.fills
<1> DEFINE n == Len(sim.pending)
<1>1. sim.pending \in Seq(Waiting) /\ n \in Nat /\ DOMAIN sim.pending = 1 .. n
  BY DEF Simulators
<1>2. PICK f : /\ SessionTable(opens, states, f)
               /\ executed = [fills |-> f[n].fills, cash |-> f[n].cash,
                              sim |-> [sim EXCEPT !.pending = f[n].remaining,
                                                  !.through = session]]
  BY <1>1, SessionIs
<1>3. \A m \in 0 .. n : f[m] = SessionStep(opens, states, f, m)
  BY <1>2 DEF SessionTable
<1> HIDE DEF n
<1> DEFINE Ok(m) == SessionInv(f[m], m)
           bad == {m \in 0 .. n : ~Ok(m)}
<1>4. Ok(0)
  <2>1. f[0] = SessionStart
    BY <1>1, <1>3 DEF SessionStep
  <2> QED BY <2>1, SessionStarts
<1>5. ASSUME NEW m \in 1 .. n, Ok(m - 1) PROVE Ok(m)
  <2>1. m \in Nat \ {0} /\ m \in DOMAIN sim.pending /\ m \in 0 .. n
    BY <1>1
  <2>2. f[m] = ProcessOrder(f[m - 1], sim.pending[m], market, session, opens, states)
    BY <1>3, <2>1 DEF SessionStep
  <2>3. sim.pending[m].eligible = session
    BY <2>1
  <2> QED BY <1>1, <1>5, <2>1, <2>2, <2>3, SessionGoesOn
<1>6. bad = {}
  <2> SUFFICES ASSUME bad # {} PROVE FALSE
    OBVIOUS
  <2>1. PICK m \in bad : \A k \in bad : m <= k
    <3>1. bad \in SUBSET Nat
      BY <1>1
    <3> HIDE DEF bad
    <3> QED BY <3>1, LeastExists
  <2> HIDE DEF Ok
  <2>2. m \in 1 .. n /\ m - 1 \in 0 .. n /\ m - 1 \notin bad
    BY <1>1, <1>4, <2>1
  <2>3. Ok(m - 1) /\ ~Ok(m)
    BY <2>1, <2>2
  <2> QED BY <1>5, <2>2, <2>3
<1>7. SessionInv(f[n], n)
  <2>1. n \in 0 .. n
    BY <1>1
  <2> QED BY <1>6, <2>1
<1> DEFINE end == f[n]
<1>8. /\ end.remaining = <<>> /\ end.fills \in Seq(FillRecords) /\ Len(end.fills) = n
      /\ \A i \in 1 .. n : end.fills[i].id = sim.pending[i].id
  <2>1. SessionInv(end, n)
    BY <1>7
  <2> HIDE DEF end
  <2> QED BY <2>1 DEF SessionInv, Progress
<1>9. /\ executed.fills = end.fills
      /\ executed.sim = [sim EXCEPT !.pending = <<>>, !.through = session]
  BY <1>2, <1>8
<1>10. executed.sim \in Simulators /\ executed.sim.pending = <<>>
  <2>1. session \in Nat /\ <<>> \in Seq(Waiting)
    BY DEF OpenOK
  <2> QED BY <1>9, <2>1 DEF Simulators
<1> HIDE DEF end
<1>11. IdsOf(executed.fills) = IdsOf(sim.pending)
  <2>1. DOMAIN executed.fills = 1 .. n
    BY <1>8, <1>9
  <2> QED BY <1>1, <1>8, <1>9, <2>1 DEF IdsOf
<1> QED BY <1>7, <1>9, <1>10, <1>11 DEF n, end

\* The ledger books what the simulator filled.
LEMMA FillsAreBooked ==
  ASSUME NEW opens \in [Symbols -> Nat \ {0}], BookOK(book), ToBuy(sim.pending) \subseteq Symbols,
         NEW acc, NEW n, SessionInv(acc, n),
         NEW booked, booked = ApplyEvent(book, OpenBatch(Filled(acc.fills), opens))
  PROVE  BookOK(booked) /\ DOMAIN booked.holdings \subseteq DOMAIN book.holdings \cup ToBuy(sim.pending)
<1> DEFINE filled == Filled(acc.fills)
           b == Booked(acc)
           held == HeldAfter(filled)
           marks == Restrict(opens, held)
           e == OpenBatch(filled, opens)
<1>1. /\ filled \in Seq(FillRecords)
      /\ \A i \in DOMAIN filled : ValidFill(filled[i])
      /\ Sound(b) /\ b.ok /\ b.peak = book.peak
      /\ DOMAIN b.holdings \subseteq DOMAIN book.holdings \cup ToBuy(sim.pending)
  BY DEF SessionInv
<1>2. Sound(book) /\ book.ok /\ book.peak \in Nat /\ DOMAIN book.holdings \subseteq Symbols
  BY DEF BookOK
<1>3. ToSet(Universe) = Symbols
  BY BacktestAssumption DEF Symbols
<1>4. /\ e.type = "OpenExecutionBatchBooked" /\ e.at = 0 /\ e.amount = 0 /\ e.session = session
      /\ e.fills = filled /\ e.marks = marks
  BY DEF OpenBatch, BlankEvent
<1>5. held \subseteq Symbols /\ DOMAIN marks = held /\ \A s \in held : marks[s] \in Nat \ {0}
  BY <1>3 DEF HeldAfter, Restrict
<1> HIDE DEF filled, b, held, marks, e
<1>6. ValidEvent(e)
  <2>1. filled \in Seq(ToSet(filled)) /\ \A fill \in ToSet(filled) : ValidFill(fill)
    <3>1. IsSeq(filled)
      BY <1>1, SeqOwn
    <3> QED BY <1>1, <3>1 DEF IsSeq, ToSet
  <2>2. \A s \in DOMAIN e.marks : e.marks[s] \in Nat \ {0}
    BY <1>4, <1>5
  <2> QED BY <1>4, <2>1, <2>2 DEF ValidEvent, FillTypes, ValuationTypes
<1>7. b = ApplyFills(book, e)
  <2> DEFINE d == Booking(filled)
  <2>1. d.session = session /\ d.fills = filled /\ b = ApplyFills(book, d)
    BY DEF Booking, BlankEvent, b, Booked, filled
  <2> HIDE DEF d
  <2>2. Len(filled) \in Nat
    BY <1>1
  <2>3. ApplyFills(book, d) = ApplyFills(book, e)
    BY <1>4, <2>1, <2>2, FillsOnly
  <2> QED BY <2>1, <2>3
<1>8. \A s : SharesOf(b, s) = SharesOf(book, s) + SharesIn(e, s)
  BY <1>1, <1>2, <1>6, <1>7, FillsKeepBook
<1>9. held = DOMAIN b.holdings
  <2>1. GoodHoldings(b.holdings)
    BY <1>1 DEF Sound, Good
  <2>2. \A s : s \in DOMAIN b.holdings <=> SharesOf(b, s) > 0
    BY <2>1, HeldHasShares
  <2>3. DOMAIN b.holdings \subseteq Symbols
    BY <1>1, <1>2
  <2>4. \A s : LotQuantity(LotsOf(book, s))
                 + SumFunction([i \in DOMAIN filled |-> Net(filled[i], s)]) = SharesOf(b, s)
    BY <1>4, <1>8 DEF SharesOf, SharesIn, NetOf
  <2>5. held = {s \in ToSet(Universe) : SharesOf(b, s) > 0}
    BY <2>4 DEF held, HeldAfter
  <2> QED BY <1>3, <2>2, <2>3, <2>5
<1>10. booked = Revalue(ApplyCompleteMarks(b, marks))
  <2>1. booked = ApplyEvent(book, e)
    BY DEF e, filled
  <2> QED BY <1>4, <1>7, <2>1 DEF ApplyEvent
<1>11. b.peak \in Nat
  BY <1>1, <1>2
<1>12. /\ Sound(booked) /\ booked.ok /\ booked.peak \in Nat
       /\ DOMAIN booked.holdings = DOMAIN b.holdings
  BY <1>1, <1>5, <1>9, <1>10, <1>11, Valuation
<1> QED BY <1>1, <1>2, <1>12 DEF BookOK

\* What the open spent on new positions is a natural.
LEMMA NotionalIsNatural ==
  ASSUME NEW filled \in Seq(FillRecords)
  PROVE  NewPositionNotional(filled) \in Nat
<1> DEFINE P == {j \in DOMAIN filled : filled[j].side = "BUY"
                                         /\ filled[j].symbol \notin DOMAIN book.holdings}
           f == [i \in P |-> filled[i].quantity * filled[i].price]
<1>1. P \in SUBSET (1 .. Len(filled)) /\ Len(filled) \in Nat
  OBVIOUS
<1>2. IsFiniteSet(P)
  BY <1>1, FS_Interval, FS_Subset
<1>3. \A i \in P : f[i] \in Nat
  <2> SUFFICES ASSUME NEW i \in P PROVE filled[i].quantity * filled[i].price \in Nat
    OBVIOUS
  <2>1. filled[i] \in FillRecords
    <3>1. i \in DOMAIN filled
      OBVIOUS
    <3> HIDE DEF P
    <3> QED BY <3>1
  <2> HIDE DEF P
  <2>2. filled[i].quantity \in Nat /\ filled[i].price \in Nat
    BY <2>1 DEF FillRecords
  <2> QED BY <2>2
<1>4. DOMAIN f = P /\ NewPositionNotional(filled) = 100 * SumFunction(f)
  BY DEF NewPositionNotional
<1> HIDE DEF P, f
<1>5. SumFunctionOnSet(f, P) \in Nat
  BY <1>2, <1>3, SumOfNaturals
<1> QED BY <1>4, <1>5 DEF SumFunction

\* The prices of an open, and the states of its sessions
LEMMA OpensAreOK ==
  ASSUME AccountInv, NEW opens \in Frames,
         NEW states \in (IF market = "CN" THEN StateFrames ELSE {<<>>})
  PROVE  OpenOK(opens, states)
<1>1. Sessions \in Nat
  BY BacktestAssumption, SimulatorAssumption
<1>2. Frames \subseteq [Symbols -> Nat \ {0}] /\ StateFrames \subseteq [Symbols -> SessionStates]
  BY BacktestAssumption DEF Symbols
<1>3. session \in Nat /\ market \in {"CN", "US"}
  BY <1>1 DEF AccountInv
<1> QED BY <1>2, <1>3 DEF OpenOK


\* There are finitely many instruments.
LEMMA SymbolsFinite == IsFiniteSet(Symbols) /\ \A S \in SUBSET Symbols : IsFiniteSet(S)
<1>1. Universe \in Seq(Symbols) /\ ToSet(Universe) = Symbols
  BY BacktestAssumption DEF Symbols
<1>2. Len(Universe) \in Nat /\ DOMAIN Universe = 1 .. Len(Universe)
  BY <1>1
<1>3. Universe \in Surjection(1 .. Len(Universe), Symbols)
  BY <1>1, <1>2 DEF Surjection, ToSet
<1>4. IsFiniteSet(1 .. Len(Universe))
  BY <1>2, FS_Interval
<1>5. IsFiniteSet(Symbols)
  BY <1>3, <1>4, FS_Surjection
<1> QED BY <1>5, FS_Subset

\* Orders buy instruments of the run.
LEMMA BuysAreKnown ==
  ASSUME NEW pending \in Seq(Waiting)
  PROVE  ToBuy(pending) \subseteq Symbols
<1>1. \A i \in DOMAIN pending : pending[i] \in Waiting
  OBVIOUS
<1>2. \A i \in DOMAIN pending : pending[i].symbol \in Symbols
  BY <1>1 DEF Waiting
<1> QED BY <1>2 DEF ToBuy

\* Fewer symbols take fewer slots.
LEMMA FewerSlots ==
  ASSUME NEW A, NEW B \in SUBSET Symbols, A \subseteq B, Cardinality(B) <= MaxHoldings
  PROVE  Cardinality(A) <= MaxHoldings
<1>1. IsFiniteSet(A) /\ IsFiniteSet(B)
  BY SymbolsFinite
<1>2. Cardinality(A) \in Nat /\ Cardinality(B) \in Nat /\ Cardinality(A) <= Cardinality(B)
  BY <1>1, FS_CardinalityType, FS_Subset
<1>3. MaxHoldings \in Nat
  BY RiskAssumption
<1> QED BY <1>2, <1>3

\* An open keeps the account: whatever the simulator filled is booked.
LEMMA OpenKeeps ==
  ASSUME AccountInv, NEW opens \in Frames,
         NEW states \in (IF market = "CN" THEN StateFrames ELSE {<<>>}), Open(opens, states)
  PROVE  AccountInv' /\ UNCHANGED results
<1> DEFINE executed ==
             ProcessSession(sim, market, session, opens, states, LotsByHolding, book.cash)
           filled == Filled(executed.fills)
           booked == IF filled = <<>> THEN book ELSE ApplyEvent(book, OpenBatch(filled, opens))
<1>1. /\ phase = "open" /\ sim' = executed.sim
      /\ IF PriorOrdersTerminal(executed) /\ booked.ok
         THEN /\ phase' = "close" /\ book' = booked /\ dayStartCash' = book.cash
              /\ newNotional' = NewPositionNotional(filled)
         ELSE phase' = "raised" /\ UNCHANGED <<book, dayStartCash, newNotional>>
      /\ UNCHANGED <<market, strategy, history, session, priorPending, results>>
  BY DEF Open
<1>2. /\ BookOK(book) /\ sim \in Simulators /\ priorPending = IdsOf(sim.pending)
      /\ \A i \in DOMAIN sim.pending : sim.pending[i].eligible = session
      /\ Cardinality(DOMAIN book.holdings \cup ToBuy(sim.pending)) <= MaxHoldings
  BY <1>1 DEF AccountInv, PendingOK, SlotsOK
<1>3. OpenOK(opens, states)
  BY OpensAreOK
<1> HIDE DEF executed
<1>4. /\ executed.sim \in Simulators /\ executed.sim.pending = <<>>
      /\ IdsOf(executed.fills) = IdsOf(sim.pending)
      /\ \E acc : SessionInv(acc, Len(sim.pending)) /\ acc.fills = executed.fills
  BY <1>2, <1>3, SessionEnds DEF executed
<1>5. PICK acc : SessionInv(acc, Len(sim.pending)) /\ acc.fills = executed.fills
  BY <1>4
<1>6. sim.pending \in Seq(Waiting) /\ ToBuy(sim.pending) \subseteq Symbols
  BY <1>2, BuysAreKnown DEF Simulators
<1>7. BookOK(booked) /\ DOMAIN booked.holdings \subseteq DOMAIN book.holdings \cup ToBuy(sim.pending)
  <2>1. opens \in [Symbols -> Nat \ {0}]
    BY <1>3 DEF OpenOK
  <2>2. CASE filled = <<>>
    BY <1>2, <2>2
  <2>3. CASE filled # <<>>
    <3>1. booked = ApplyEvent(book, OpenBatch(Filled(acc.fills), opens))
      BY <1>5, <2>3
    <3> QED BY <1>2, <1>5, <1>6, <2>1, <3>1, FillsAreBooked
  <2> QED BY <2>2, <2>3
<1>8. PriorOrdersTerminal(executed)
  <2>1. priorPending = [i \in DOMAIN executed.fills |-> executed.fills[i].id]
    BY <1>2, <1>4 DEF IdsOf
  <2>2. {o.id : o \in ToSet(executed.sim.pending)} = {}
    BY <1>4 DEF ToSet
  <2> QED BY <2>1, <2>2 DEF PriorOrdersTerminal
<1>9. filled \in Seq(FillRecords)
  BY <1>5 DEF SessionInv
<1>10. NewPositionNotional(filled) \in Nat
  BY <1>9, NotionalIsNatural
<1> HIDE DEF filled, booked
<1>11. /\ phase' = "close" /\ book' = booked /\ dayStartCash' = book.cash
       /\ newNotional' = NewPositionNotional(filled)
  BY <1>1, <1>7, <1>8 DEF BookOK
<1>12. book.cash \in Nat
  BY <1>2 DEF BookOK, Sound, Good, IsBook
<1>13. SlotsOK'
  <2>1. ToBuy(sim'.pending) = {}
    BY <1>1, <1>4 DEF ToBuy
  <2>2. DOMAIN book.holdings \cup ToBuy(sim.pending) \in SUBSET Symbols
    BY <1>2, <1>6 DEF BookOK
  <2>3. DOMAIN book'.holdings \cup ToBuy(sim'.pending)
          \subseteq DOMAIN book.holdings \cup ToBuy(sim.pending)
    BY <1>7, <1>11, <2>1
  <2> QED BY <1>2, <2>2, <2>3, FewerSlots DEF SlotsOK
<1>14. PendingOK'
  BY <1>1, <1>4, <1>11 DEF PendingOK
<1>15. BookOK(book)'
  BY <1>7, <1>11 DEF BookOK, Sound, IsBook, Good
<1> QED BY <1>1, <1>10, <1>11, <1>12, <1>13, <1>14, <1>15 DEF AccountInv

-----------------------------------------------------------------------------
(* The marks of a close *)

\* A portfolio at some closing prices
PortfolioOK(p, closes) ==
  /\ p.nav \in Nat /\ p.peak \in Nat
  /\ Held(p) \subseteq Symbols
  /\ \A s \in Held(p) : /\ p.positions[s].quantity \in Nat \ {0}
                        /\ p.positions[s].value = p.positions[s].quantity * closes[s]
                        /\ p.positions[s].value \in Nat \ {0}
                        /\ p.positions[s].value <= p.nav

\* The marks of a close are accepted, and value the portfolio.
LEMMA MarkedIsOK ==
  ASSUME BookOK(book), NEW closes \in [Symbols -> Nat \ {0}],
         NEW marked, marked = Marked(closes)
  PROVE  /\ BookOK(marked) /\ marked.nav \in Nat
         /\ DOMAIN marked.holdings = DOMAIN book.holdings
         /\ Held(PortfolioOf(marked)) = DOMAIN book.holdings
         /\ PortfolioOf(marked).nav = marked.nav
         /\ PortfolioOK(PortfolioOf(marked), closes)
<1> DEFINE marks == Restrict(closes, DOMAIN book.holdings)
           e == [BlankEvent EXCEPT !.type = "PortfolioMarked", !.session = session,
                                   !.marks = marks]
<1>1. Sound(book) /\ book.ok /\ book.peak \in Nat /\ DOMAIN book.holdings \subseteq Symbols
  BY DEF BookOK
<1>2. /\ DOMAIN marks = DOMAIN book.holdings
      /\ \A s \in DOMAIN marks : marks[s] = closes[s] /\ marks[s] \in Nat \ {0}
  BY <1>1 DEF Restrict
<1>3. marked = Revalue(ApplyCompleteMarks(book, marks))
  <2>1. e.type = "PortfolioMarked" /\ e.marks = marks /\ marked = ApplyEvent(book, e)
    BY DEF BlankEvent, Marked
  <2> HIDE DEF e, marks
  <2> QED BY <2>1 DEF ApplyEvent
<1> HIDE DEF marks
<1>4. /\ Sound(marked) /\ marked.ok /\ marked.peak \in Nat /\ marked.cash = book.cash
      /\ DOMAIN marked.holdings = DOMAIN book.holdings
      /\ \A s \in DOMAIN marked.holdings : /\ marked.holdings[s].lots = book.holdings[s].lots
                                           /\ marked.holdings[s].mark = marks[s]
      /\ marked.nav = marked.cash + WorthOf(marked.holdings)
  BY <1>1, <1>2, <1>3, Valuation
<1>5. BookOK(marked)
  BY <1>1, <1>4 DEF BookOK
<1>6. GoodHoldings(marked.holdings) /\ marked.cash \in Nat
  BY <1>4 DEF Sound, Good, IsBook
<1> DEFINE h == marked.holdings
           p == PortfolioOf(marked)
<1>7. \A s \in DOMAIN h : h[s].mark = closes[s] /\ h[s].mark \in Nat \ {0}
  BY <1>2, <1>4
<1>8. /\ WorthOf(h) \in Nat
      /\ \A s \in DOMAIN h : /\ LotQuantity(h[s].lots) \in Nat \ {0}
                             /\ LotQuantity(h[s].lots) * h[s].mark <= WorthOf(h)
  <2> HIDE DEF h
  <2> QED BY <1>6, <1>7, WorthIsNatural DEF h
<1>9. marked.nav \in Nat /\ WorthOf(h) <= marked.nav
  BY <1>4, <1>6, <1>8
<1>10. /\ p.nav = marked.nav /\ p.peak = marked.peak /\ Held(p) = DOMAIN h
       /\ \A s \in DOMAIN h : /\ p.positions[s].quantity = LotQuantity(h[s].lots)
                              /\ p.positions[s].value = LotQuantity(h[s].lots) * h[s].mark
  BY DEF PortfolioOf, Held
<1>11. ASSUME NEW s \in DOMAIN h
       PROVE  /\ p.positions[s].quantity \in Nat \ {0}
              /\ p.positions[s].value = p.positions[s].quantity * closes[s]
              /\ p.positions[s].value \in Nat \ {0}
              /\ p.positions[s].value <= p.nav
  <2> DEFINE q == LotQuantity(h[s].lots)
             m == closes[s]
  <2>1. q \in Nat \ {0} /\ m \in Nat \ {0} /\ q * m <= WorthOf(h)
    BY <1>7, <1>8
  <2>2. p.positions[s].quantity = q /\ p.positions[s].value = q * m
    BY <1>7, <1>10
  <2> HIDE DEF q, m, p, h
  <2>3. q * m \in Nat \ {0}
    BY <2>1
  <2>4. q * m <= p.nav
    BY <1>8, <1>9, <1>10, <2>1, <2>3
  <2> QED BY <2>1, <2>2, <2>3, <2>4 DEF m
<1> HIDE DEF h, p
<1>12. PortfolioOK(p, closes)
  BY <1>1, <1>4, <1>9, <1>10, <1>11 DEF PortfolioOK, h
<1> QED BY <1>4, <1>5, <1>9, <1>10, <1>12 DEF h, p

-----------------------------------------------------------------------------
(* One decision of the risk engine *)

Requests == [symbol : Symbols, side : Sides, target : Nat]

\* The intents of a batch: one per symbol, nothing of what is sold to be kept
RequestsOK(intents) ==
  /\ intents \in Seq(Requests)
  /\ \A i, j \in DOMAIN intents : intents[i].symbol = intents[j].symbol => i = j
  /\ \A i \in DOMAIN intents : intents[i].side = "SELL" => intents[i].target = 0

ContextOK(context, closes) ==
  /\ PortfolioOK(context.portfolio, closes)
  /\ context.dayCash \in Nat /\ context.committed \in Nat
  /\ Cardinality(Held(context.portfolio)) <= MaxHoldings

DecisionRecords == [symbol : Symbols, side : Sides, status : {"APPROVED", "CLAMPED", "REJECTED"},
                    target : Nat, reduction : BOOLEAN]

Approved(decision) == decision.side = "BUY" /\ decision.status # "REJECTED"

\* What a decision keeps of its intent
Answers(decision, intent, p) ==
  /\ decision.symbol = intent.symbol /\ decision.side = intent.side
  /\ decision.reduction = ReductionRequired(p)
  /\ intent.side # "BUY" => decision.status = "APPROVED" /\ decision.target = intent.target
  /\ Approved(decision) => /\ ~ReductionRequired(p)
                           /\ decision.target \in Nat \ {0}
                           /\ decision.target <= intent.target
                           /\ decision.target <= SingleStockLimit * p.nav

ReservedOK(reserved) == DOMAIN reserved \subseteq Symbols /\ \A s \in DOMAIN reserved : reserved[s] \in Nat

\* What the symbols of a sector count for, together
Standings(S, p, reserved) == [s \in S |-> Standing(s, p, reserved)]
SectorLoad(x, p, reserved) ==
  SumFunctionOnSet(Standings(SectorMates(x), p, reserved), SectorMates(x))

\* Where a reduction is required no buy is approved.
LEMMA ReductionBlocks ==
  ASSUME NEW p, p.nav \in Nat, p.peak \in Nat, ReductionRequired(p)
  PROVE  BuyBlocked(p)
BY DEF ReductionRequired, BuyBlocked, LossAtLeast

\* What a symbol counts for is a natural.
LEMMA StandingIsNatural ==
  ASSUME NEW closes, NEW p, PortfolioOK(p, closes), NEW reserved, ReservedOK(reserved), NEW s
  PROVE  Standing(s, p, reserved) \in Nat /\ ValueOf(s, p) \in Nat
<1>1. ValueOf(s, p) \in Nat
  BY DEF ValueOf, PortfolioOK
<1> QED BY <1>1 DEF Standing, ReservedOK

\* There are finitely many symbols in a sector, and what they count for adds up.
LEMMA SectorSums ==
  ASSUME NEW closes, NEW p, PortfolioOK(p, closes), NEW reserved, ReservedOK(reserved), NEW x
  PROVE  /\ IsFiniteSet(SectorMates(x)) /\ SectorMates(x) \subseteq Symbols
         /\ SectorLoad(x, p, reserved) \in Nat /\ SectorRoom(x, p, reserved) \in Int
         /\ x \in Symbols =>
              SectorRoom(x, p, reserved)
                = SectorLimit * p.nav + Standing(x, p, reserved) - SectorLoad(x, p, reserved)
<1> DEFINE S == SectorMates(x)
           R == S \ {x}
           f == Standings(S, p, reserved)
           g == [s \in R |-> Standing(s, p, reserved)]
<1>1. S \subseteq Symbols /\ (x \in Symbols => x \in S)
  BY DEF SectorMates, Symbols
<1>2. IsFiniteSet(S) /\ IsFiniteSet(R)
  BY <1>1, SymbolsFinite, FS_Subset
<1>3. \A s \in S : f[s] = Standing(s, p, reserved) /\ f[s] \in Nat
  BY StandingIsNatural DEF Standings
<1>4. \A s \in R : g[s] = f[s] /\ f[s] \in Nat
  BY <1>3
<1>5. SectorRoom(x, p, reserved) = SectorLimit * p.nav - SumFunctionOnSet(g, R)
  <2>1. DOMAIN g = R
    OBVIOUS
  <2>2. SectorRoom(x, p, reserved) = SectorLimit * p.nav - SumFunction(g)
    BY DEF SectorRoom
  <2> HIDE DEF g, R
  <2> QED BY <2>1, <2>2 DEF SumFunction
<1>6. p.nav \in Nat
  BY DEF PortfolioOK
<1> HIDE DEF S, f, g
<1>7. SumFunctionOnSet(g, R) = SumFunctionOnSet(f, R)
  BY <1>2, <1>4, SumSame
<1>8. SumFunctionOnSet(f, S) \in Nat /\ SumFunctionOnSet(f, R) \in Nat
  BY <1>2, <1>3, SumOfNaturals
<1>9. x \in S => SumFunctionOnSet(f, S) = f[x] + SumFunctionOnSet(f, R)
  <2>1. \A s \in S : f[s] \in Int
    BY <1>3
  <2> QED BY <1>2, <2>1, SumRemove
<1>10. SectorRoom(x, p, reserved) \in Int
  BY <1>5, <1>6, <1>7, <1>8 DEF SectorLimit
<1>11. x \in Symbols =>
         SectorRoom(x, p, reserved)
           = SectorLimit * p.nav + Standing(x, p, reserved) - SumFunctionOnSet(f, S)
  BY <1>1, <1>3, <1>5, <1>6, <1>7, <1>8, <1>9 DEF SectorLimit
<1> QED BY <1>1, <1>2, <1>8, <1>10, <1>11 DEF S, f, SectorLoad

\* What the engine decides on one intent
LEMMA DecisionOK ==
  ASSUME NEW closes, NEW context, ContextOK(context, closes), NEW intent \in Requests,
         NEW reserved, ReservedOK(reserved), NEW committed \in Nat,
         NEW d, d = Evaluate(intent, context, reserved, committed)
  PROVE  /\ d \in DecisionRecords
         /\ Answers(d, intent, context.portfolio)
         /\ Approved(d) =>
              /\ HasSlot(d.symbol, context.portfolio, reserved)
              /\ d.target <= SectorRoom(d.symbol, context.portfolio, reserved)
              /\ d.symbol \notin Held(context.portfolio) =>
                   committed + d.target <= DailyNewPositionLimit * context.dayCash
<1> DEFINE p == context.portfolio
           x == intent.symbol
           target == BuyTarget(intent, context, reserved, committed)
           status == IF target < intent.target THEN "CLAMPED" ELSE "APPROVED"
<1>1. /\ x \in Symbols /\ intent.side \in Sides /\ intent.target \in Nat
      /\ PortfolioOK(p, closes) /\ p.nav \in Nat /\ p.peak \in Nat /\ context.dayCash \in Nat
  BY DEF Requests, ContextOK, PortfolioOK
<1>2. ReductionRequired(p) \in BOOLEAN /\ (ReductionRequired(p) => BuyBlocked(p))
  BY <1>1, ReductionBlocks DEF ReductionRequired, LossAtLeast
<1>3. \/ /\ intent.side # "BUY"
         /\ d = Decision(intent, "APPROVED", intent.target, ReductionRequired(p))
      \/ /\ intent.side = "BUY"
         /\ d = Rejected(intent, ReductionRequired(p))
      \/ /\ intent.side = "BUY" /\ ~BuyBlocked(p)
         /\ d = Rejected(intent, FALSE)
      \/ /\ intent.side = "BUY" /\ ~BuyBlocked(p) /\ target # 0
         /\ HasSlot(x, p, reserved)
         /\ d = Decision(intent, status, target, FALSE)
  BY DEF Evaluate, EvaluateBuy
<1>4. /\ target \in Nat
      /\ target <= intent.target /\ target <= SingleStockLimit * p.nav
      /\ target # 0 => target <= SectorRoom(x, p, reserved)
      /\ target # 0 /\ x \notin Held(p) =>
           committed + target <= DailyNewPositionLimit * context.dayCash
  <2> DEFINE room == SectorRoom(x, p, reserved)
             sector == Max({0, room})
             left == DailyNewPositionLimit * context.dayCash - committed
             daily == IF x \in Held(p) THEN {} ELSE {DailyRoom(context, committed)}
             single == SingleStockLimit * p.nav
             all == {intent.target, single, sector} \cup daily
  <2>1. room \in Int
    BY <1>1, SectorSums
  <2>2. left \in Int /\ single \in Nat
    BY <1>1 DEF DailyNewPositionLimit, SingleStockLimit
  <2>3. DailyRoom(context, committed) = Max({0, left}) /\ target = Min(all)
    BY DEF DailyRoom, BuyTarget
  <2> HIDE DEF room, left
  <2>4. sector = (IF 0 <= room THEN room ELSE 0) /\ Max({0, left}) = (IF 0 <= left THEN left ELSE 0)
    BY <2>1, <2>2, MaxOfTwo
  <2>5. sector \in Nat /\ Max({0, left}) \in Nat
    BY <2>1, <2>2, <2>4
  <2> HIDE DEF sector, single
  <2>6. all \in SUBSET Nat /\ all # {}
    BY <1>1, <2>2, <2>3, <2>5
  <2>7. intent.target \in all /\ single \in all /\ sector \in all
        /\ (x \notin Held(p) => Max({0, left}) \in all)
    BY <2>3
  <2> HIDE DEF all
  <2>8. target \in Nat /\ \A y \in all : target <= y
    BY <2>3, <2>6, MinFacts
  <2> HIDE DEF target
  <2>9. target # 0 => target <= room
    BY <2>1, <2>4, <2>7, <2>8
  <2>10. target # 0 /\ x \notin Held(p) => target <= left
    BY <2>2, <2>4, <2>7, <2>8
  <2> QED BY <1>1, <2>2, <2>7, <2>8, <2>9, <2>10
        DEF room, left, single, DailyNewPositionLimit
<1> HIDE DEF target
<1>5. CASE intent.side # "BUY" /\ d = Decision(intent, "APPROVED", intent.target, ReductionRequired(p))
  BY <1>1, <1>2, <1>5 DEF Decision, DecisionRecords, Answers, Approved
<1>6. CASE \/ intent.side = "BUY" /\ d = Rejected(intent, ReductionRequired(p))
           \/ intent.side = "BUY" /\ ~BuyBlocked(p) /\ d = Rejected(intent, FALSE)
  <2>1. d = Rejected(intent, ReductionRequired(p))
    BY <1>2, <1>6
  <2> QED BY <1>1, <1>2, <1>6, <2>1 DEF Rejected, Decision, DecisionRecords, Answers, Approved
<1>7. CASE /\ intent.side = "BUY" /\ ~BuyBlocked(p) /\ target # 0
           /\ HasSlot(x, p, reserved)
           /\ d = Decision(intent, status, target, FALSE)
  <2>1. status \in {"APPROVED", "CLAMPED", "REJECTED"} /\ ~ReductionRequired(p)
    BY <1>2, <1>7
  <2> HIDE DEF status
  <2>2. /\ d.symbol = x /\ d.side = intent.side /\ d.target = target /\ d.reduction = FALSE
        /\ d.status = status
    BY <1>7 DEF Decision
  <2>3. d \in DecisionRecords
    BY <1>1, <1>4, <1>7, <2>1 DEF Decision, DecisionRecords
  <2>4. Answers(d, intent, p)
    <3>1. d.reduction = ReductionRequired(p)
      BY <1>2, <2>1, <2>2
    <3>2. d.target \in Nat \ {0} /\ ~ReductionRequired(p) /\ intent.side = "BUY"
      BY <1>4, <1>7, <2>1, <2>2
    <3> QED BY <1>4, <2>2, <3>1, <3>2 DEF Answers
  <2> QED BY <1>4, <1>7, <2>2, <2>3, <2>4
<1> QED BY <1>3, <1>5, <1>6, <1>7

-----------------------------------------------------------------------------
(* The decisions of a batch *)

\* evaluate_many goes through the intents one by one.
BatchStart(context) == [decisions |-> <<>>, reserved |-> <<>>, committed |-> context.committed]

BatchStep(intents, context, f, n) ==
  IF n = 0 THEN BatchStart(context) ELSE EvaluateNext(f[n - 1], intents[n], context)

BatchTable(intents, context, f) ==
  f = [n \in 0 .. Len(intents) |-> BatchStep(intents, context, f, n)]

\* The table of a batch exists.
LEMMA BatchTableExists ==
  ASSUME NEW intents, NEW context, Len(intents) \in Nat
  PROVE  \E f : BatchTable(intents, context, f)
<1> DEFINE Upto(n) == \E f : f = [i \in 0 .. n |-> BatchStep(intents, context, f, i)]
           bad == {n \in Nat : ~Upto(n)}
<1>1. Upto(0)
  <2> DEFINE f == [i \in 0 .. 0 |-> BatchStart(context)]
  <2>1. f = [i \in 0 .. 0 |-> BatchStep(intents, context, f, i)]
    BY DEF BatchStep
  <2> QED BY <2>1
<1>2. ASSUME NEW n \in Nat \ {0}, Upto(n - 1) PROVE Upto(n)
  <2>1. PICK f : f = [i \in 0 .. n - 1 |-> BatchStep(intents, context, f, i)]
    BY <1>2
  <2> DEFINE g == [i \in 0 .. n |-> IF i = n THEN BatchStep(intents, context, f, n) ELSE f[i]]
  <2>2. \A i \in 0 .. n - 1 : g[i] = f[i]
    OBVIOUS
  <2>3. ASSUME NEW i \in 0 .. n PROVE g[i] = BatchStep(intents, context, g, i)
    <3>1. i # 0 => i - 1 \in 0 .. n - 1 /\ g[i - 1] = f[i - 1]
      BY <2>2
    <3>2. BatchStep(intents, context, g, i) = BatchStep(intents, context, f, i)
      BY <3>1 DEF BatchStep
    <3>3. i # n => f[i] = BatchStep(intents, context, f, i)
      <4>1. i # n => i \in 0 .. n - 1
        OBVIOUS
      <4> QED BY <2>1, <4>1
    <3> QED BY <3>2, <3>3
  <2>4. g = [i \in 0 .. n |-> BatchStep(intents, context, g, i)]
    BY <2>3
  <2> HIDE DEF g
  <2> QED BY <2>4
<1> HIDE DEF Upto
<1>3. bad = {}
  <2> SUFFICES ASSUME bad # {} PROVE FALSE
    OBVIOUS
  <2>1. PICK n \in bad : \A m \in bad : n <= m
    <3> HIDE DEF bad
    <3>1. bad \in SUBSET Nat
      BY DEF bad
    <3> QED BY <3>1, LeastExists
  <2>2. n \in Nat \ {0} /\ n - 1 \in Nat
    BY <1>1, <2>1
  <2>3. n - 1 \notin bad
    BY <2>1, <2>2
  <2> QED BY <1>2, <2>1, <2>2, <2>3
<1>4. Upto(Len(intents))
  BY <1>3
<1> QED BY <1>4 DEF BatchTable, Upto

\* EvaluateMany is read off its last entry.
LEMMA BatchIs ==
  ASSUME NEW intents, NEW context, Len(intents) \in Nat
  PROVE  \E f : /\ BatchTable(intents, context, f)
                /\ EvaluateMany(intents, context) = f[Len(intents)].decisions
<1> DEFINE f == CHOOSE g : BatchTable(intents, context, g)
<1>1. BatchTable(intents, context, f)
  <2>1. \E g : BatchTable(intents, context, g)
    BY BatchTableExists
  <2> QED BY <2>1
<1>2. EvaluateMany(intents, context) = f[Len(intents)].decisions
  BY DEF EvaluateMany, BatchTable, BatchStep, BatchStart
<1> HIDE DEF f
<1> QED BY <1>1, <1>2

\* What is reserved is what the approved buys ask for, and it is within the limits.
LimitsKept(p, context, reserved, committed) ==
  LET fresh == DOMAIN reserved \ Held(p)
  IN /\ Cardinality(Held(p) \cup DOMAIN reserved) <= MaxHoldings
     /\ committed = context.committed + SumFunctionOnSet(reserved, fresh)
     /\ fresh # {} => committed <= DailyNewPositionLimit * context.dayCash
     /\ \A s \in DOMAIN reserved : SectorLoad(s, p, reserved) <= SectorLimit * p.nav

\* The reservations are the targets of the approved buys.
ReservedFor(decisions, reserved) ==
  /\ DOMAIN reserved = {decisions[i].symbol : i \in {j \in DOMAIN decisions : Approved(decisions[j])}}
  /\ \A i \in DOMAIN decisions : Approved(decisions[i]) =>
       reserved[decisions[i].symbol] = decisions[i].target

\* After n intents: each is answered, and the approved buys together keep the limits.
BatchInv(intents, context, acc, n) ==
  /\ acc \in [decisions : Seq(DecisionRecords), reserved : {acc.reserved}, committed : Nat]
  /\ Len(acc.decisions) = n
  /\ \A i \in 1 .. n : Answers(acc.decisions[i], intents[i], context.portfolio)
  /\ ReservedOK(acc.reserved)
  /\ ReservedFor(acc.decisions, acc.reserved)
  /\ LimitsKept(context.portfolio, context, acc.reserved, acc.committed)

\* It holds before the first intent.
LEMMA BatchStarts ==
  ASSUME NEW closes, NEW context, ContextOK(context, closes), NEW intents
  PROVE  BatchInv(intents, context, BatchStart(context), 0)
<1> DEFINE acc == BatchStart(context)
           none == <<>>
<1>1. acc = [decisions |-> none, reserved |-> none, committed |-> context.committed]
  BY DEF BatchStart
<1>2. none \in Seq(DecisionRecords) /\ Len(none) = 0 /\ DOMAIN none = {} /\ 1 .. 0 = {}
  OBVIOUS
<1>3. context.committed \in Nat /\ Cardinality(Held(context.portfolio)) <= MaxHoldings
  BY DEF ContextOK
<1> HIDE DEF acc, none
<1>4. acc.decisions = none /\ acc.reserved = none /\ acc.committed = context.committed
  BY <1>1
<1>5. acc \in [decisions : Seq(DecisionRecords), reserved : {acc.reserved}, committed : Nat]
  BY <1>1, <1>2, <1>3
<1>6. LimitsKept(context.portfolio, context, none, context.committed)
  <2> DEFINE p == context.portfolio
  <2>1. DOMAIN none \ Held(p) = {} /\ Held(p) \cup DOMAIN none = Held(p)
    BY <1>2
  <2>2. SumFunctionOnSet(none, DOMAIN none \ Held(p)) = 0
    BY <2>1, SumNothing
  <2> HIDE DEF p
  <2>3. Cardinality(Held(p)) <= MaxHoldings
    BY <1>3 DEF p
  <2> QED BY <1>2, <1>3, <2>1, <2>2, <2>3 DEF LimitsKept, p
<1> QED BY <1>2, <1>4, <1>5, <1>6 DEF BatchInv, ReservedOK, ReservedFor, acc

\* One more target within its room keeps the limits.
LEMMA LimitsStayKept ==
  ASSUME NEW closes, NEW context, ContextOK(context, closes),
         NEW p, p = context.portfolio, NEW reserved, ReservedOK(reserved),
         NEW committed \in Nat, LimitsKept(p, context, reserved, committed),
         NEW x \in Symbols, x \notin DOMAIN reserved, NEW target \in Nat,
         HasSlot(x, p, reserved), target <= SectorRoom(x, p, reserved),
         x \notin Held(p) => committed + target <= DailyNewPositionLimit * context.dayCash,
         NEW more, more = [s \in DOMAIN reserved \cup {x} |-> IF s = x THEN target ELSE reserved[s]],
         NEW spent, spent = IF x \in Held(p) THEN committed ELSE committed + target
  PROVE  ReservedOK(more) /\ spent \in Nat /\ LimitsKept(p, context, more, spent)
<1> DEFINE fresh == DOMAIN reserved \ Held(p)
           freshNow == DOMAIN more \ Held(p)
<1>1. /\ PortfolioOK(p, closes) /\ Held(p) \subseteq Symbols /\ p.nav \in Nat
      /\ context.committed \in Nat /\ context.dayCash \in Nat
  BY DEF ContextOK, PortfolioOK
<1>2. /\ DOMAIN more = DOMAIN reserved \cup {x} /\ more[x] = target
      /\ \A s \in DOMAIN reserved : more[s] = reserved[s] /\ reserved[s] \in Nat /\ s \in Symbols
  BY DEF ReservedOK
<1>3. ReservedOK(more)
  BY <1>2 DEF ReservedOK
<1>4. /\ Cardinality(Held(p) \cup DOMAIN reserved) <= MaxHoldings
      /\ committed = context.committed + SumFunctionOnSet(reserved, fresh)
      /\ fresh # {} => committed <= DailyNewPositionLimit * context.dayCash
      /\ \A s \in DOMAIN reserved : SectorLoad(s, p, reserved) <= SectorLimit * p.nav
  BY DEF LimitsKept
<1>5. Cardinality(Held(p) \cup DOMAIN more) <= MaxHoldings
  <2> DEFINE old == Held(p) \cup DOMAIN reserved
  <2>1. IsFiniteSet(old)
    BY <1>1, <1>2, SymbolsFinite
  <2>2. Held(p) \cup DOMAIN more = old \cup {x}
    BY <1>2
  <2>3. x \in old \/ Cardinality(old) < MaxHoldings
    BY DEF HasSlot
  <2> HIDE DEF old
  <2>4. Cardinality(old \cup {x}) = IF x \in old THEN Cardinality(old) ELSE Cardinality(old) + 1
    BY <2>1, FS_AddElement
  <2>5. Cardinality(old) \in Nat /\ MaxHoldings \in Nat /\ Cardinality(old) <= MaxHoldings
    BY <1>4, <2>1, FS_CardinalityType, RiskAssumption DEF old
  <2>6. Cardinality(old \cup {x}) <= MaxHoldings
    BY <2>3, <2>4, <2>5
  <2> QED BY <2>2, <2>6
<1>6. IsFiniteSet(freshNow) /\ \A s \in freshNow : more[s] \in Int
  <2>1. freshNow \subseteq Symbols
    BY <1>2
  <2> QED BY <1>2, <2>1, SymbolsFinite
<1>7. /\ spent = context.committed + SumFunctionOnSet(more, freshNow)
      /\ freshNow # {} => spent <= DailyNewPositionLimit * context.dayCash
      /\ spent \in Nat
  <2>1. IsFiniteSet(fresh) /\ \A s \in fresh : more[s] = reserved[s] /\ reserved[s] \in Int
    <3>1. fresh \subseteq Symbols
      BY <1>2
    <3> QED BY <1>2, <3>1, SymbolsFinite
  <2> HIDE DEF fresh, freshNow
  <2>2. SumFunctionOnSet(more, fresh) = SumFunctionOnSet(reserved, fresh)
        /\ SumFunctionOnSet(reserved, fresh) \in Int
    BY <2>1, SumSame, SumIsInt
  <2>3. CASE x \in Held(p)
    <3>1. freshNow = fresh
      BY <1>2, <2>3 DEF fresh, freshNow
    <3> QED BY <1>4, <2>2, <2>3, <3>1
  <2>4. CASE x \notin Held(p)
    <3>1. x \in freshNow /\ freshNow \ {x} = fresh
      BY <1>2, <2>4 DEF fresh, freshNow
    <3>2. SumFunctionOnSet(more, freshNow) = more[x] + SumFunctionOnSet(more, freshNow \ {x})
      BY <1>6, <3>1, SumRemove
    <3>3. SumFunctionOnSet(more, freshNow) = target + SumFunctionOnSet(reserved, fresh)
      BY <1>2, <2>2, <3>1, <3>2
    <3> QED BY <1>1, <1>4, <2>2, <2>4, <3>3
  <2> QED BY <2>3, <2>4
<1>8. ASSUME NEW s \in DOMAIN more PROVE SectorLoad(s, p, more) <= SectorLimit * p.nav
  <2>1. s \in Symbols /\ s \in DOMAIN SectorOf /\ x \in DOMAIN SectorOf
    BY <1>2 DEF Symbols
  <2>2. /\ \A y : y # x => Standing(y, p, more) = Standing(y, p, reserved)
        /\ Standing(x, p, more) = target
    BY <1>2 DEF Standing
  <2> DEFINE S == SectorMates(s)
             f == Standings(S, p, reserved)
             g == Standings(S, p, more)
  <2>3. IsFiniteSet(S) /\ \A y \in S : f[y] \in Int /\ g[y] \in Int
    <3>1. IsFiniteSet(S)
      BY <1>1, <1>3, SectorSums
    <3> QED BY <1>1, <1>3, <3>1, StandingIsNatural DEF Standings
  <2>4. /\ \A y \in S \ {x} : g[y] = f[y]
        /\ x \in S => g[x] = target /\ f[x] = Standing(x, p, reserved)
    BY <2>2 DEF Standings
  <2>5. SectorLoad(s, p, more) = SumFunctionOnSet(g, S) /\ SectorLoad(s, p, reserved) = SumFunctionOnSet(f, S)
    BY DEF SectorLoad
  <2>6. x \in S => SectorMates(x) = S
    BY DEF SectorMates
  <2>7. x \notin S => s \in DOMAIN reserved
    BY <1>2, <2>1 DEF SectorMates
  <2> HIDE DEF S, f, g
  <2>8. CASE x \in S
    <3>1. SectorLoad(s, p, more)
            = SectorLoad(s, p, reserved) - Standing(x, p, reserved) + target
      BY <2>3, <2>4, <2>5, <2>8, SumChange
    <3>2. SectorLoad(s, p, reserved) = SectorLoad(x, p, reserved)
      BY <2>6, <2>8 DEF SectorLoad, S
    <3>3. SectorRoom(x, p, reserved)
            = SectorLimit * p.nav + Standing(x, p, reserved) - SectorLoad(x, p, reserved)
      BY <1>1, SectorSums
    <3>4. SectorLoad(x, p, reserved) \in Nat /\ Standing(x, p, reserved) \in Nat
      BY <1>1, SectorSums, StandingIsNatural
    <3> DEFINE limit == SectorLimit * p.nav
    <3>5. limit \in Nat
      BY <1>1 DEF SectorLimit
    <3> HIDE DEF limit
    <3> QED BY <3>1, <3>2, <3>3, <3>4, <3>5 DEF limit
  <2>9. CASE x \notin S
    <3>1. SumFunctionOnSet(g, S) = SumFunctionOnSet(f, S)
      BY <2>3, <2>4, <2>9, SumSame
    <3> QED BY <1>4, <2>5, <2>7, <2>9, <3>1
  <2> QED BY <2>8, <2>9
<1> QED BY <1>3, <1>5, <1>7, <1>8 DEF LimitsKept

\* A decision keeps the invariant.
LEMMA BatchGoesOn ==
  ASSUME NEW closes, NEW context, ContextOK(context, closes), NEW intents, RequestsOK(intents),
         NEW n \in Nat \ {0}, n \in DOMAIN intents,
         NEW acc, BatchInv(intents, context, acc, n - 1),
         NEW next, next = EvaluateNext(acc, intents[n], context)
  PROVE  BatchInv(intents, context, next, n)
<1> DEFINE p == context.portfolio
           r == acc.reserved
           intent == intents[n]
           d == Evaluate(intent, context, r, acc.committed)
           ds == Append(acc.decisions, d)
           x == d.symbol
           more == [s \in DOMAIN r \cup {x} |-> IF s = x THEN d.target ELSE r[s]]
           spent == IF x \in Held(p) THEN acc.committed ELSE acc.committed + d.target
<1>1. /\ acc \in [decisions : Seq(DecisionRecords), reserved : {r}, committed : Nat]
      /\ Len(acc.decisions) = n - 1
      /\ \A i \in 1 .. n - 1 : Answers(acc.decisions[i], intents[i], p)
      /\ ReservedOK(r) /\ ReservedFor(acc.decisions, r)
      /\ LimitsKept(p, context, r, acc.committed)
  BY DEF BatchInv
<1>2. acc.decisions \in Seq(DecisionRecords) /\ acc.committed \in Nat
  BY <1>1
<1>3. intent \in Requests
  BY DEF RequestsOK
<1>4. /\ d \in DecisionRecords /\ Answers(d, intent, p)
      /\ Approved(d) => /\ HasSlot(x, p, r)
                        /\ d.target <= SectorRoom(x, p, r)
                        /\ x \notin Held(p) =>
                             acc.committed + d.target <= DailyNewPositionLimit * context.dayCash
  <2> HIDE DEF intent
  <2> QED BY <1>1, <1>2, <1>3, DecisionOK
<1>5. x \in Symbols /\ d.target \in Nat
  BY <1>4 DEF DecisionRecords
<1>6. /\ ds \in Seq(DecisionRecords) /\ Len(ds) = n /\ DOMAIN ds = 1 .. n /\ ds[n] = d
      /\ DOMAIN acc.decisions = 1 .. n - 1 /\ \A i \in 1 .. n - 1 : ds[i] = acc.decisions[i]
  <2> HIDE DEF d
  <2> QED BY <1>1, <1>2, <1>4
<1>7. next = IF Approved(d)
             THEN [acc EXCEPT !.decisions = ds, !.reserved = more, !.committed = spent]
             ELSE [acc EXCEPT !.decisions = ds]
  <2> HIDE DEF d, ds, more, spent
  <2>1. next = Reserve(acc, d, context)
    BY DEF EvaluateNext, d, r, intent
  <2>2. CASE ~Approved(d)
    BY <2>1, <2>2 DEF Reserve, Approved, ds
  <2>3. CASE Approved(d)
    <3>1. next = [[acc EXCEPT !.decisions = ds] EXCEPT !.reserved = more, !.committed = spent]
      BY <1>1, <2>1, <2>3 DEF Reserve, Approved, ds, more, spent
    <3>2. [[acc EXCEPT !.decisions = ds] EXCEPT !.reserved = more, !.committed = spent]
            = [acc EXCEPT !.decisions = ds, !.reserved = more, !.committed = spent]
      BY <1>1
    <3> QED BY <2>3, <3>1, <3>2
  <2> QED BY <2>2, <2>3
<1> HIDE DEF d, ds, more, spent
<1>8. \A i \in 1 .. n : Answers(ds[i], intents[i], p)
  <2>1. \A i \in 1 .. n : i = n \/ i \in 1 .. n - 1
    OBVIOUS
  <2> QED BY <1>1, <1>4, <1>6, <2>1 DEF intent
<1> DEFINE Chosen(t) == {t[i].symbol : i \in {j \in DOMAIN t : Approved(t[j])}}
<1>9. /\ Approved(d) => Chosen(ds) = Chosen(acc.decisions) \cup {x}
      /\ ~Approved(d) => Chosen(ds) = Chosen(acc.decisions)
  <2>1. \A j : j \in 1 .. n <=> j \in 1 .. n - 1 \/ j = n
    OBVIOUS
  <2>2. \A y : y \in Chosen(ds)
                <=> y \in Chosen(acc.decisions) \/ (Approved(d) /\ y = x)
    BY <1>6, <2>1
  <2> QED BY <2>2
<1>10. /\ DOMAIN r = Chosen(acc.decisions)
       /\ \A i \in 1 .. n - 1 : Approved(acc.decisions[i]) =>
            r[acc.decisions[i].symbol] = acc.decisions[i].target
  BY <1>1, <1>6 DEF ReservedFor
<1>11. CASE ~Approved(d)
  <2>1. next.decisions = ds /\ next.reserved = r /\ next.committed = acc.committed
    BY <1>1, <1>7, <1>11
  <2>2. next \in [decisions : Seq(DecisionRecords), reserved : {r}, committed : Nat]
    BY <1>1, <1>6, <1>7, <1>11
  <2>3. ReservedFor(ds, r)
    <3>1. \A i \in 1 .. n : Approved(ds[i]) => r[ds[i].symbol] = ds[i].target
      <4>1. \A i \in 1 .. n : i = n \/ i \in 1 .. n - 1
        OBVIOUS
      <4> QED BY <1>6, <1>10, <1>11, <4>1
    <3> QED BY <1>6, <1>9, <1>10, <1>11, <3>1 DEF ReservedFor
  <2> QED BY <1>1, <1>6, <1>8, <2>1, <2>2, <2>3 DEF BatchInv
<1>12. CASE Approved(d)
  <2>1. next.decisions = ds /\ next.reserved = more /\ next.committed = spent
    BY <1>1, <1>7, <1>12
  <2>2. x \notin DOMAIN r
    <3> SUFFICES ASSUME x \in DOMAIN r PROVE FALSE
      OBVIOUS
    <3>1. PICK i \in 1 .. n - 1 : acc.decisions[i].symbol = x
      BY <1>6, <1>10
    <3>2. acc.decisions[i].symbol = intents[i].symbol /\ x = intents[n].symbol
      BY <1>1, <1>4 DEF Answers, intent
    <3>3. i \in DOMAIN intents /\ i # n
      BY DEF RequestsOK
    <3> QED BY <3>1, <3>2, <3>3 DEF RequestsOK
  <2>3. ReservedOK(more) /\ spent \in Nat /\ LimitsKept(p, context, more, spent)
    <3> DEFINE target == d.target
               paid == acc.committed
    <3>1. /\ p = context.portfolio /\ ReservedOK(r) /\ paid \in Nat /\ LimitsKept(p, context, r, paid)
          /\ x \in Symbols /\ x \notin DOMAIN r /\ target \in Nat
          /\ HasSlot(x, p, r) /\ target <= SectorRoom(x, p, r)
          /\ x \notin Held(p) => paid + target <= DailyNewPositionLimit * context.dayCash
      BY <1>1, <1>2, <1>4, <1>5, <1>12, <2>2
    <3>2. /\ more = [s \in DOMAIN r \cup {x} |-> IF s = x THEN target ELSE r[s]]
          /\ spent = IF x \in Held(p) THEN paid ELSE paid + target
      BY DEF more, spent
    <3> HIDE DEF target, paid, p, r, x
    <3> QED BY <3>1, <3>2, LimitsStayKept
  <2>4. next \in [decisions : Seq(DecisionRecords), reserved : {more}, committed : Nat]
    BY <1>1, <1>6, <1>7, <1>12, <2>3
  <2>5. ReservedFor(ds, more)
    <3>1. DOMAIN more = DOMAIN r \cup {x} /\ more[x] = d.target /\ \A s \in DOMAIN r : more[s] = r[s]
      BY <2>2 DEF more
    <3>2. \A i \in 1 .. n : Approved(ds[i]) => more[ds[i].symbol] = ds[i].target
      <4>1. \A i \in 1 .. n : i = n \/ i \in 1 .. n - 1
        OBVIOUS
      <4>2. ASSUME NEW i \in 1 .. n - 1, Approved(ds[i]) PROVE more[ds[i].symbol] = ds[i].target
        <5>1. ds[i] = acc.decisions[i] /\ i \in DOMAIN acc.decisions
          BY <1>6
        <5>2. ds[i].symbol \in DOMAIN r /\ r[ds[i].symbol] = ds[i].target
          BY <1>10, <4>2, <5>1
        <5> QED BY <3>1, <5>2
      <4> QED BY <1>6, <3>1, <4>1, <4>2
    <3> QED BY <1>6, <1>9, <1>10, <1>12, <3>1, <3>2 DEF ReservedFor
  <2> QED BY <1>6, <1>8, <2>1, <2>3, <2>4, <2>5 DEF BatchInv
<1> QED BY <1>11, <1>12

\* The decisions of a batch, and what they reserve
BatchOK(intents, context, decisions) ==
  \E acc : BatchInv(intents, context, acc, Len(intents)) /\ acc.decisions = decisions

\* The loop over a batch ends with such decisions.
LEMMA BatchEnds ==
  ASSUME NEW closes, NEW context, ContextOK(context, closes), NEW intents, RequestsOK(intents)
  PROVE  BatchOK(intents, context, EvaluateMany(intents, context))
<1> DEFINE n == Len(intents)
<1>1. n \in Nat /\ DOMAIN intents = 1 .. n
  BY DEF RequestsOK
<1>2. PICK f : BatchTable(intents, context, f) /\ EvaluateMany(intents, context) = f[n].decisions
  BY <1>1, BatchIs
<1>3. \A m \in 0 .. n : f[m] = BatchStep(intents, context, f, m)
  BY <1>2 DEF BatchTable
<1> HIDE DEF n
<1> DEFINE Ok(m) == BatchInv(intents, context, f[m], m)
           bad == {m \in 0 .. n : ~Ok(m)}
<1>4. Ok(0)
  <2>1. f[0] = BatchStart(context)
    BY <1>1, <1>3 DEF BatchStep
  <2> QED BY <2>1, BatchStarts
<1>5. ASSUME NEW m \in 1 .. n, Ok(m - 1) PROVE Ok(m)
  <2>1. m \in Nat \ {0} /\ m \in DOMAIN intents /\ m \in 0 .. n
    BY <1>1
  <2>2. f[m] = EvaluateNext(f[m - 1], intents[m], context)
    BY <1>3, <2>1 DEF BatchStep
  <2> QED BY <1>5, <2>1, <2>2, BatchGoesOn
<1>6. bad = {}
  <2> SUFFICES ASSUME bad # {} PROVE FALSE
    OBVIOUS
  <2>1. PICK m \in bad : \A k \in bad : m <= k
    <3>1. bad \in SUBSET Nat
      BY <1>1
    <3> HIDE DEF bad
    <3> QED BY <3>1, LeastExists
  <2> HIDE DEF Ok
  <2>2. m \in 1 .. n /\ m - 1 \in 0 .. n /\ m - 1 \notin bad
    BY <1>1, <1>4, <2>1
  <2>3. Ok(m - 1) /\ ~Ok(m)
    BY <2>1, <2>2
  <2> QED BY <1>5, <2>2, <2>3
<1>7. BatchInv(intents, context, f[n], n)
  <2>1. n \in 0 .. n
    BY <1>1
  <2> QED BY <1>6, <2>1
<1> QED BY <1>2, <1>7 DEF BatchOK, n

-----------------------------------------------------------------------------
(* The plans of a close *)

PlanRecords == [symbol : Symbols, side : {"BUY", "SELL", "HOLD"}, quantity : Nat]

\* The plan for a symbol has this side and quantity.
Follows(plan, order) == plan.side = order.side /\ plan.quantity = order.quantity

\* One plan per symbol: of every decision, and for every holding where a reduction
\* is required
PlansOK(plans, decisions, p, reduction, closes) ==
  /\ plans \in Seq(PlanRecords)
  /\ \A i, j \in DOMAIN plans : plans[i].symbol = plans[j].symbol => i = j
  /\ \A i \in DOMAIN plans : plans[i].side = "HOLD" => plans[i].quantity = 0
  /\ \A i \in DOMAIN plans :
       LET s == plans[i].symbol
       IN IF reduction /\ s \in Held(p)
          THEN Follows(plans[i], ReductionPlan(s, decisions, p, closes[s]))
          ELSE /\ i \in DOMAIN decisions /\ decisions[i].symbol = s
               /\ Follows(plans[i], StrategyPlan(decisions[i], p, closes[s]))
  /\ \A i \in DOMAIN decisions : i \in DOMAIN plans /\ plans[i].symbol = decisions[i].symbol
  /\ reduction => \A s \in Held(p) : \E i \in DOMAIN plans : plans[i].symbol = s

\* Decisions of a portfolio as the engine makes them
DecisionsOK(decisions, p) ==
  /\ decisions \in Seq(DecisionRecords)
  /\ \A i, j \in DOMAIN decisions : decisions[i].symbol = decisions[j].symbol => i = j
  /\ \A i \in DOMAIN decisions : Approved(decisions[i]) => ~ReductionRequired(p)

\* What Reduction plans for a holding sells it down to half, or to less if less is asked for.
LEMMA ReductionPlanFacts ==
  ASSUME NEW closes \in [Symbols -> Nat \ {0}], NEW p, PortfolioOK(p, closes),
         NEW decisions, DecisionsOK(decisions, p), NEW s \in Held(p),
         NEW plan, plan = ReductionPlan(s, decisions, p, closes[s])
  PROVE  /\ plan.side = "SELL" /\ plan.quantity \in Nat
         /\ \E keep \in Nat :
              /\ keep <= 50 * p.positions[s].value
              /\ \A i \in DOMAIN decisions :
                   decisions[i].symbol = s /\ decisions[i].status # "REJECTED"
                     => keep <= decisions[i].target
              /\ plan.quantity = Shares(100 * p.positions[s].value - keep, closes[s])
              /\ 100 * p.positions[s].value - keep \in Nat
<1> DEFINE value == 100 * p.positions[s].value
           approved == {decisions[i].target : i \in {j \in DOMAIN decisions :
                          decisions[j].symbol = s /\ decisions[j].status # "REJECTED"}}
           all == {value \div 2} \cup approved
           keep == Min(all)
<1>1. /\ p.positions[s].value \in Nat \ {0} /\ closes[s] \in Nat \ {0}
  BY DEF PortfolioOK
<1>2. value \in Nat /\ value \div 2 = 50 * p.positions[s].value
  BY <1>1
<1>3. approved \subseteq Nat
  <2>1. \A i \in DOMAIN decisions : decisions[i] \in DecisionRecords
    BY DEF DecisionsOK
  <2>2. \A i \in DOMAIN decisions : decisions[i].target \in Nat
    BY <2>1 DEF DecisionRecords
  <2> QED BY <2>2
<1>4. all \in SUBSET Nat /\ all # {}
  BY <1>1, <1>2, <1>3
<1>5. \A i \in DOMAIN decisions : decisions[i].symbol = s /\ decisions[i].status # "REJECTED"
        => decisions[i].target \in all
  OBVIOUS
<1>6. 50 * p.positions[s].value \in all
  BY <1>2
<1>7. plan = SellShares(value - keep, closes[s])
  BY DEF ReductionPlan
<1> HIDE DEF all
<1>8. keep \in Nat /\ \A y \in all : keep <= y
  BY <1>4, MinFacts
<1> HIDE DEF keep, approved
<1>9. value - keep \in Nat
  BY <1>1, <1>6, <1>8
<1>10. plan.side = "SELL" /\ plan.quantity = Shares(value - keep, closes[s])
  BY <1>7 DEF SellShares
<1>11. plan.quantity \in Nat
  <2> HIDE DEF value
  <2> QED BY <1>1, <1>9, <1>10, SharesFacts
<1> QED BY <1>5, <1>6, <1>8, <1>9, <1>10, <1>11

\* What is planned for a decision: shares for no more than is asked for.
LEMMA StrategyPlanFacts ==
  ASSUME NEW closes \in [Symbols -> Nat \ {0}], NEW p, PortfolioOK(p, closes),
         NEW d \in DecisionRecords,
         NEW plan, plan = StrategyPlan(d, p, closes[d.symbol])
  PROVE  /\ plan.side \in {"BUY", "SELL", "HOLD"} /\ plan.quantity \in Nat
         /\ plan.side = "HOLD" => plan.quantity = 0
         /\ plan.side = "BUY" =>
              /\ Approved(d) /\ d.target - ValueOf(d.symbol, p) \in Nat
              /\ plan.quantity = Shares(d.target - ValueOf(d.symbol, p), closes[d.symbol])
         /\ plan.side = "SELL" =>
              \/ /\ d.side = "SELL" /\ d.symbol \in Held(p)
                 /\ plan.quantity = p.positions[d.symbol].quantity
              \/ /\ d.side = "REDUCE" /\ ValueOf(d.symbol, p) - d.target \in Nat
                 /\ plan.quantity = Shares(ValueOf(d.symbol, p) - d.target, closes[d.symbol])
         /\ plan.side = "HOLD" =>
              \/ d.status = "REJECTED" \/ d.side = "HOLD" \/ (d.side = "SELL" /\ d.symbol \notin Held(p))
              \/ d.side = "BUY" /\ d.target <= ValueOf(d.symbol, p)
              \/ d.side = "REDUCE" /\ d.target >= ValueOf(d.symbol, p)
<1> DEFINE s == d.symbol
           v == ValueOf(s, p)
           c == closes[s]
           delta == d.target - v
<1>1. d.target \in Nat /\ s \in Symbols /\ d.side \in Sides
  BY DEF DecisionRecords
<1>2. v \in Nat /\ c \in Nat \ {0}
  BY <1>1 DEF ValueOf, PortfolioOK
<1>3. s \in Held(p) => p.positions[s].quantity \in Nat
  BY DEF PortfolioOK
<1>4. \/ /\ plan = NoOrder
         /\ \/ d.status = "REJECTED" \/ d.side = "HOLD" \/ (d.side = "SELL" /\ s \notin Held(p))
            \/ d.side = "BUY" /\ ~(delta > 0)
            \/ d.side = "REDUCE" /\ ~(delta < 0)
      \/ /\ d.status # "REJECTED" /\ d.side = "SELL" /\ s \in Held(p)
         /\ plan = [side |-> "SELL", quantity |-> p.positions[s].quantity]
      \/ /\ d.status # "REJECTED" /\ d.side = "BUY" /\ delta > 0
         /\ plan = [side |-> "BUY", quantity |-> Shares(delta, c)]
      \/ /\ d.status # "REJECTED" /\ d.side = "REDUCE" /\ delta < 0
         /\ plan = SellShares(0 - delta, c)
  <2> HIDE DEF v, c
  <2>1. plan = IF d.status = "REJECTED" THEN NoOrder
               ELSE CASE d.side = "SELL" /\ s \in Held(p) ->
                           [side |-> "SELL", quantity |-> p.positions[s].quantity]
                      [] d.side = "BUY" /\ delta > 0 ->
                           [side |-> "BUY", quantity |-> Shares(delta, c)]
                      [] d.side = "REDUCE" /\ delta < 0 -> SellShares(0 - delta, c)
                      [] OTHER -> NoOrder
    BY DEF StrategyPlan, v, c
  <2>2. delta \in Int
    BY <1>1, <1>2
  <2> DEFINE A == d.side = "SELL" /\ s \in Held(p)
             B == d.side = "BUY" /\ delta > 0
             C == d.side = "REDUCE" /\ delta < 0
             x == [side |-> "SELL", quantity |-> p.positions[s].quantity]
             y == [side |-> "BUY", quantity |-> Shares(delta, c)]
             z == SellShares(0 - delta, c)
             cases == CASE A -> x [] B -> y [] C -> z [] OTHER -> NoOrder
  <2> HIDE DEF s, delta
  <2>3. ~(A /\ B) /\ ~(A /\ C) /\ ~(B /\ C)
    OBVIOUS
  <2>4. plan = IF d.status = "REJECTED" THEN NoOrder ELSE cases
    BY <2>1
  <2>5. cases = IF A THEN x ELSE IF B THEN y ELSE IF C THEN z ELSE NoOrder
    <3> HIDE DEF A, B, C, x, y, z
    <3> QED BY <2>3, Zenon
  <2> HIDE DEF cases
  <2>6. d.side \in {"BUY", "SELL", "HOLD", "REDUCE"}
    BY <1>1 DEF Sides
  <2>7. CASE d.status = "REJECTED"
    BY <2>4, <2>7
  <2>8. CASE d.status # "REJECTED"
    <3>1. plan = IF A THEN x ELSE IF B THEN y ELSE IF C THEN z ELSE NoOrder
      BY <2>4, <2>5, <2>8
    <3>2. CASE A
      BY <2>8, <3>1, <3>2
    <3>3. CASE B
      BY <2>3, <2>8, <3>1, <3>3
    <3>4. CASE C
      BY <2>3, <2>8, <3>1, <3>4
    <3>5. CASE ~A /\ ~B /\ ~C
      <4>1. plan = NoOrder
        BY <3>1, <3>5
      <4> HIDE DEF x, y, z
      <4> QED BY <2>6, <3>5, <4>1
    <3> QED BY <3>2, <3>3, <3>4, <3>5
  <2> QED BY <2>7, <2>8
<1> HIDE DEF v, c
<1>5. delta \in Int /\ (delta > 0 => delta \in Nat) /\ (delta < 0 => 0 - delta \in Nat /\ 0 - delta = v - d.target)
  BY <1>1, <1>2
<1>6. CASE /\ plan = NoOrder
           /\ \/ d.status = "REJECTED" \/ d.side = "HOLD" \/ (d.side = "SELL" /\ s \notin Held(p))
              \/ d.side = "BUY" /\ ~(delta > 0)
              \/ d.side = "REDUCE" /\ ~(delta < 0)
  BY <1>1, <1>2, <1>6 DEF NoOrder, v
<1>7. CASE /\ d.status # "REJECTED" /\ d.side = "SELL" /\ s \in Held(p)
           /\ plan = [side |-> "SELL", quantity |-> p.positions[s].quantity]
  BY <1>3, <1>7
<1>8. CASE /\ d.status # "REJECTED" /\ d.side = "BUY" /\ delta > 0
           /\ plan = [side |-> "BUY", quantity |-> Shares(delta, c)]
  <2>1. delta \in Nat /\ Shares(delta, c) \in Nat
    BY <1>2, <1>5, <1>8, SharesFacts
  <2> QED BY <1>8, <2>1 DEF Approved, v, c
<1>9. CASE /\ d.status # "REJECTED" /\ d.side = "REDUCE" /\ delta < 0
           /\ plan = SellShares(0 - delta, c)
  <2> DEFINE less == v - d.target
  <2>1. less \in Nat /\ 0 - delta = less
    BY <1>5, <1>9
  <2> HIDE DEF less, delta
  <2>2. Shares(less, c) \in Nat
    BY <1>2, <2>1, SharesFacts
  <2>3. plan.side = "SELL" /\ plan.quantity = Shares(less, c)
    BY <1>9, <2>1 DEF SellShares
  <2> QED BY <1>9, <2>1, <2>2, <2>3 DEF v, c, less
<1> QED BY <1>4, <1>6, <1>7, <1>8, <1>9

\* Of distinct elements, those that are kept are distinct.
LEMMA ThoseDistinct ==
  ASSUME NEW T, NEW events \in Seq(T), NEW keep, IsInjective(events)
  PROVE  IsInjective(Those(events, keep))
<1>1. PICK f : ThoseTable(events, keep, f) /\ Those(events, keep) = f[Len(events)]
  BY ThoseIs
<1> DEFINE n == Len(events)
           Ok(m) == /\ f[m] \in Seq(T) /\ ToSet(f[m]) \subseteq {events[i] : i \in 1 .. m}
                    /\ IsInjective(f[m])
           bad == {m \in 0 .. n : ~Ok(m)}
<1>2. \A m \in 0 .. n : f[m] = ThoseStep(events, keep, f, m)
  BY <1>1 DEF ThoseTable
<1>3. /\ n \in Nat /\ \A i \in 1 .. n : events[i] \in T
      /\ \A i, j \in 1 .. n : events[i] = events[j] => i = j
  BY DEF IsInjective
<1>4. Ok(0)
  <2>1. f[0] = <<>>
    BY <1>2, <1>3 DEF ThoseStep
  <2> QED BY <2>1 DEF ToSet, IsInjective
<1>5. ASSUME NEW m \in 1 .. n, Ok(m - 1) PROVE Ok(m)
  <2>1. m \in 0 .. n /\ m # 0 /\ m \in Nat
    BY <1>3
  <2>2. CASE events[m] \in keep
    <3> DEFINE old == f[m - 1]
               new == f[m]
               x == events[m]
    <3>1. /\ old \in Seq(T) /\ ToSet(old) \subseteq {events[i] : i \in 1 .. m - 1}
          /\ IsInjective(old) /\ new = Append(old, x)
      BY <1>2, <1>5, <2>1, <2>2 DEF ThoseStep
    <3>2. x \in T
      BY <1>3
    <3>3. x \notin ToSet(old)
      <4>1. \A i \in 1 .. m - 1 : i \in 1 .. n /\ i # m
        BY <1>3
      <4>2. \A i \in 1 .. m - 1 : events[i] # x
        BY <1>3, <4>1
      <4> QED BY <3>1, <4>2
    <3> HIDE DEF old, new, x
    <3>4. /\ Len(old) \in Nat /\ new \in Seq(T) /\ DOMAIN new = 1 .. Len(old) + 1
          /\ new[Len(old) + 1] = x /\ \A k \in 1 .. Len(old) : new[k] = old[k] /\ old[k] \in ToSet(old)
          /\ DOMAIN old = 1 .. Len(old)
      BY <3>1, <3>2 DEF ToSet
    <3>5. ToSet(new) = ToSet(old) \cup {x}
      BY <3>1, <3>2, AppendRange
    <3>6. ToSet(new) \subseteq {events[i] : i \in 1 .. m}
      <4>1. \A i \in 1 .. m - 1 : i \in 1 .. m
        BY <2>1
      <4>2. m \in 1 .. m
        BY <2>1
      <4> QED BY <3>1, <3>5, <4>1, <4>2 DEF x
    <3>7. IsInjective(new)
      <4>1. \A k \in DOMAIN new : k = Len(old) + 1 \/ k \in 1 .. Len(old)
        BY <3>4
      <4>2. \A k, l \in 1 .. Len(old) : old[k] = old[l] => k = l
        BY <3>1, <3>4 DEF IsInjective
      <4>3. ASSUME NEW k \in DOMAIN new, NEW l \in DOMAIN new, new[k] = new[l] PROVE k = l
        BY <3>3, <3>4, <4>1, <4>2, <4>3
      <4> QED BY <4>3 DEF IsInjective
    <3> QED BY <3>4, <3>6, <3>7 DEF new
  <2>3. CASE events[m] \notin keep
    <3>1. f[m] = f[m - 1]
      BY <1>2, <2>1, <2>3 DEF ThoseStep
    <3>2. \A i \in 1 .. m - 1 : i \in 1 .. m
      BY <2>1
    <3> QED BY <1>5, <3>1, <3>2
  <2> QED BY <2>2, <2>3
<1> HIDE DEF Ok
<1>6. bad = {}
  <2> SUFFICES ASSUME bad # {} PROVE FALSE
    OBVIOUS
  <2>1. PICK m \in bad : \A k \in bad : m <= k
    <3>1. bad \in SUBSET Nat
      BY <1>3
    <3> HIDE DEF bad
    <3> QED BY <3>1, LeastExists
  <2>2. m \in 1 .. n /\ m - 1 \in 0 .. n /\ m - 1 \notin bad
    BY <1>3, <1>4, <2>1
  <2> QED BY <1>5, <2>1, <2>2
<1>7. Ok(n)
  BY <1>3, <1>6
<1> QED BY <1>1, <1>7 DEF Ok

\* The plans of a close, one for each planned symbol
LEMMA PlansAreOK ==
  ASSUME NEW closes \in [Symbols -> Nat \ {0}], NEW p, PortfolioOK(p, closes),
         NEW decisions, DecisionsOK(decisions, p), NEW reduction, reduction = ReductionRequired(p),
         NEW plans, plans = PlanOrders(decisions, p, reduction, closes)
  PROVE  PlansOK(plans, decisions, p, reduction, closes)
<1> DEFINE decided == [i \in DOMAIN decisions |-> decisions[i].symbol]
           rest == Those(Universe, Held(p) \ ToSet(decided))
           symbols == PlannedSymbols(decisions, p, reduction)
           n == Len(decisions)
<1>1. decisions \in Seq(DecisionRecords) /\ n \in Nat /\ DOMAIN decisions = 1 .. n
  BY DEF DecisionsOK
<1>2. \A i \in 1 .. n : decisions[i] \in DecisionRecords /\ decisions[i].symbol \in Symbols
  <2>1. \A i \in 1 .. n : decisions[i] \in DecisionRecords
    BY <1>1
  <2> QED BY <2>1 DEF DecisionRecords
<1>3. /\ decided \in Seq(Symbols) /\ Len(decided) = n /\ DOMAIN decided = 1 .. n
      /\ \A i \in 1 .. n : decided[i] = decisions[i].symbol
      /\ \A i, j \in 1 .. n : decided[i] = decided[j] => i = j
  <2>1. \A i, j \in 1 .. n : decided[i] = decided[j] => i = j
    BY <1>1 DEF DecisionsOK
  <2> QED BY <1>1, <1>2, <2>1
<1>4. /\ rest \in Seq(Symbols) /\ IsInjective(rest)
      /\ ToSet(rest) = Held(p) \ ToSet(decided)
  <2>1. Universe \in Seq(Symbols) /\ ToSet(Universe) = Symbols /\ IsInjective(Universe)
    BY BacktestAssumption DEF Symbols
  <2>2. Held(p) \subseteq Symbols
    BY DEF PortfolioOK
  <2> DEFINE keep == Held(p) \ ToSet(decided)
  <2>3. keep \subseteq Symbols
    BY <2>2
  <2> HIDE DEF keep
  <2>4. /\ Those(Universe, keep) \in Seq(Symbols) /\ IsInjective(Those(Universe, keep))
        /\ ToSet(Those(Universe, keep)) = keep
    <3>1. Those(Universe, keep) \in Seq(Symbols) /\ ToSet(Those(Universe, keep)) = Symbols \cap keep
      BY <2>1, ThoseRange
    <3>2. IsInjective(Those(Universe, keep))
      BY <2>1, ThoseDistinct
    <3> QED BY <2>3, <3>1, <3>2
  <2> QED BY <2>4 DEF keep
<1>5. symbols = IF reduction THEN decided \o rest ELSE decided
  BY DEF PlannedSymbols
<1> HIDE DEF rest, decided, symbols, n
<1> DEFINE k == Len(rest)
           all == decided \o rest
<1>6. /\ k \in Nat /\ all \in Seq(Symbols) /\ Len(all) = n + k /\ DOMAIN all = 1 .. n + k
      /\ \A i \in 1 .. n : all[i] = decided[i]
      /\ \A i \in 1 .. n + k : i \notin 1 .. n => i - n \in 1 .. k /\ all[i] = rest[i - n]
  <2>1. k \in Nat /\ DOMAIN rest = 1 .. k
    BY <1>4
  <2>2. Len(all) = n + k /\ all \in Seq(Symbols) /\ DOMAIN all = 1 .. n + k
    <3>1. decided \in Seq(Symbols) /\ rest \in Seq(Symbols)
      BY <1>3, <1>4
    <3>2. Len(all) = Len(decided) + Len(rest) /\ all \in Seq(Symbols)
      BY <3>1
    <3>3. Len(all) = n + k
      BY <1>3, <3>2
    <3> HIDE DEF all, k
    <3>4. DOMAIN all = 1 .. Len(all)
      BY <3>2
    <3> QED BY <3>2, <3>3, <3>4
  <2>3. \A i \in 1 .. n + k : all[i] = IF i <= n THEN decided[i] ELSE rest[i - n]
    BY <1>1, <1>3, <1>4
  <2> HIDE DEF k, all
  <2> QED BY <1>1, <2>1, <2>2, <2>3
<1>7. \A j \in 1 .. k : /\ rest[j] \in Held(p) /\ rest[j] \notin ToSet(decided)
  <2>1. \A j \in 1 .. k : rest[j] \in ToSet(rest)
    BY <1>4 DEF ToSet
  <2> QED BY <1>4, <2>1
<1>8. \A i, j \in 1 .. k : rest[i] = rest[j] => i = j
  BY <1>4 DEF IsInjective
<1>9. \A i \in 1 .. n : decided[i] \in ToSet(decided)
  BY <1>3 DEF ToSet
<1>10. ASSUME NEW i \in 1 .. n + k, NEW j \in 1 .. n + k, all[i] = all[j] PROVE i = j
  <2>1. CASE i \in 1 .. n /\ j \in 1 .. n
    BY <1>3, <1>6, <1>10, <2>1
  <2>2. CASE i \in 1 .. n /\ j \notin 1 .. n
    BY <1>6, <1>7, <1>9, <1>10, <2>2
  <2>3. CASE i \notin 1 .. n /\ j \in 1 .. n
    BY <1>6, <1>7, <1>9, <1>10, <2>3
  <2>4. CASE i \notin 1 .. n /\ j \notin 1 .. n
    <3>1. i - n \in 1 .. k /\ j - n \in 1 .. k /\ rest[i - n] = rest[j - n]
      BY <1>6, <1>10, <2>4
    <3>2. i - n = j - n
      BY <1>8, <3>1
    <3> QED BY <1>1, <1>6, <3>2
  <2> QED BY <2>1, <2>2, <2>3, <2>4
<1> HIDE DEF all, k
<1>11. /\ symbols \in Seq(Symbols) /\ Len(symbols) \in Nat /\ DOMAIN symbols = 1 .. Len(symbols)
       /\ \A i \in DOMAIN symbols : symbols[i] \in Symbols
       /\ \A i, j \in DOMAIN symbols : symbols[i] = symbols[j] => i = j
       /\ \A i \in 1 .. n : i \in DOMAIN symbols /\ symbols[i] = decisions[i].symbol
       /\ \A i \in DOMAIN symbols : i \in 1 .. n \/ (reduction /\ symbols[i] \in Held(p))
  <2>1. CASE reduction
    <3>1. symbols = all
      BY <1>5, <2>1 DEF all
    <3>2. \A i \in 1 .. n : i \in 1 .. n + k
      BY <1>1, <1>6
    <3>3. symbols \in Seq(Symbols) /\ DOMAIN symbols = 1 .. n + k /\ Len(symbols) = n + k
      BY <1>6, <3>1
    <3>4. \A i, j \in DOMAIN symbols : symbols[i] = symbols[j] => i = j
      BY <1>10, <3>1, <3>3
    <3>5. \A i \in 1 .. n : i \in DOMAIN symbols /\ symbols[i] = decisions[i].symbol
      BY <1>3, <1>6, <3>1, <3>2, <3>3
    <3>6. \A i \in DOMAIN symbols : i \in 1 .. n \/ (reduction /\ symbols[i] \in Held(p))
      BY <1>6, <1>7, <2>1, <3>1, <3>3
    <3>7. \A i \in DOMAIN symbols : symbols[i] \in Symbols
      BY <3>3
    <3> QED BY <1>1, <1>6, <3>3, <3>4, <3>5, <3>6, <3>7
  <2>2. CASE ~reduction
    <3>1. symbols = decided
      BY <1>5, <2>2
    <3> QED BY <1>1, <1>2, <1>3, <3>1
  <2> QED BY <2>1, <2>2
<1>12. reduction => \A s \in Held(p) : \E i \in DOMAIN symbols : symbols[i] = s
  <2> SUFFICES ASSUME reduction, NEW s \in Held(p) PROVE \E i \in DOMAIN symbols : symbols[i] = s
    OBVIOUS
  <2>1. symbols = all
    BY <1>5 DEF all
  <2>2. CASE s \in ToSet(decided)
    <3>1. PICK i \in 1 .. n : decided[i] = s
      BY <1>3, <2>2 DEF ToSet
    <3>2. i \in 1 .. n + k
      BY <1>1, <1>6
    <3> QED BY <1>6, <2>1, <3>1, <3>2
  <2>3. CASE s \notin ToSet(decided)
    <3>1. s \in ToSet(rest)
      BY <1>4, <2>3
    <3>2. PICK j \in 1 .. k : rest[j] = s
      BY <1>4, <3>1 DEF ToSet, k
    <3>3. n + j \in 1 .. n + k /\ n + j \notin 1 .. n /\ (n + j) - n = j
      BY <1>1, <1>6
    <3>4. all[n + j] = s
      BY <1>6, <3>2, <3>3
    <3> QED BY <1>6, <2>1, <3>3, <3>4
  <2> QED BY <2>2, <2>3
<1> DEFINE Plan(i) == IF reduction /\ symbols[i] \in Held(p)
                      THEN ReductionPlan(symbols[i], decisions, p, closes[symbols[i]])
                      ELSE StrategyPlan(decisions[i], p, closes[symbols[i]])
<1>13. plans = [i \in DOMAIN symbols |->
                 [symbol |-> symbols[i], side |-> Plan(i).side, quantity |-> Plan(i).quantity]]
  BY DEF PlanOrders, symbols
<1>14. ASSUME NEW i \in DOMAIN symbols
       PROVE  /\ Plan(i).side \in {"BUY", "SELL", "HOLD"} /\ Plan(i).quantity \in Nat
              /\ Plan(i).side = "HOLD" => Plan(i).quantity = 0
  <2>1. CASE reduction /\ symbols[i] \in Held(p)
    <3>1. Plan(i) = ReductionPlan(symbols[i], decisions, p, closes[symbols[i]])
      BY <2>1
    <3> QED BY <2>1, <3>1, ReductionPlanFacts
  <2>2. CASE ~(reduction /\ symbols[i] \in Held(p))
    <3>1. i \in 1 .. n /\ symbols[i] = decisions[i].symbol /\ decisions[i] \in DecisionRecords
      BY <1>2, <1>11, <2>2
    <3>2. Plan(i) = StrategyPlan(decisions[i], p, closes[decisions[i].symbol])
      BY <2>2, <3>1
    <3> HIDE DEF Plan
    <3> QED BY <3>1, <3>2, StrategyPlanFacts
  <2> QED BY <2>1, <2>2
<1>15. \A i \in DOMAIN symbols : Plan(i) = IF reduction /\ symbols[i] \in Held(p)
                      THEN ReductionPlan(symbols[i], decisions, p, closes[symbols[i]])
                      ELSE StrategyPlan(decisions[i], p, closes[symbols[i]])
  OBVIOUS
<1> HIDE DEF Plan
<1>16. /\ DOMAIN plans = DOMAIN symbols
       /\ \A i \in DOMAIN symbols : /\ plans[i].symbol = symbols[i]
                                    /\ Follows(plans[i], Plan(i))
  BY <1>13 DEF Follows
<1>17. plans \in Seq(PlanRecords)
  <2>1. \A i \in DOMAIN symbols :
          [symbol |-> symbols[i], side |-> Plan(i).side, quantity |-> Plan(i).quantity] \in PlanRecords
    BY <1>11, <1>14 DEF PlanRecords
  <2> QED BY <1>11, <1>13, <2>1
<1>18. \A i \in DOMAIN plans :
         LET s == plans[i].symbol
         IN IF reduction /\ s \in Held(p)
            THEN Follows(plans[i], ReductionPlan(s, decisions, p, closes[s]))
            ELSE /\ i \in DOMAIN decisions /\ decisions[i].symbol = s
                 /\ Follows(plans[i], StrategyPlan(decisions[i], p, closes[s]))
  BY <1>1, <1>11, <1>15, <1>16
<1>19. \A i, j \in DOMAIN plans : plans[i].symbol = plans[j].symbol => i = j
  BY <1>11, <1>16
<1>20. \A i \in DOMAIN decisions : i \in DOMAIN plans /\ plans[i].symbol = decisions[i].symbol
  BY <1>1, <1>11, <1>16
<1>21. reduction => \A s \in Held(p) : \E i \in DOMAIN plans : plans[i].symbol = s
  BY <1>12, <1>16
<1>22. \A i \in DOMAIN plans : plans[i].side = "HOLD" => plans[i].quantity = 0
  BY <1>14, <1>16 DEF Follows
<1> QED BY <1>17, <1>18, <1>19, <1>20, <1>21, <1>22 DEF PlansOK

-----------------------------------------------------------------------------
(* What a close decided *)

\* A regime is that of a symbol asked for, and the request one of the actions it allows.
RegimesOK(regimes, intents, p) ==
  \A s \in DOMAIN regimes : \E i \in DOMAIN intents :
    /\ intents[i].symbol = s
    /\ Target(intents[i].side, intents[i].target)
         \in ActionTargets(regimes[s], s \in Held(p),
               IF s \in Held(p) THEN p.positions[s].value ELSE 0, p.nav)

\* The results of a close on some intents, and what its decisions reserved
SettledOn(r, intents, reserved, committed) ==
  LET p == r.context.portfolio
  IN /\ r.closes \in [Symbols -> Nat \ {0}]
     /\ ContextOK(r.context, r.closes) /\ RequestsOK(intents)
     /\ DOMAIN r.decisions = DOMAIN intents /\ DecisionsOK(r.decisions, p)
     /\ \A i \in DOMAIN intents : Answers(r.decisions[i], intents[i], p)
     /\ ReservedOK(reserved) /\ ReservedFor(r.decisions, reserved)
     /\ LimitsKept(p, r.context, reserved, committed)
     /\ r.reduction = ReductionRequired(p)
     /\ PlansOK(r.plans, r.decisions, p, r.reduction, r.closes)
     /\ RegimesOK(r.regimes, intents, p)

\* Trading in a symbol on one side is that of its plan.
LEMMA TradedIs ==
  ASSUME results.closes \in [Symbols -> Nat \ {0}],
         results.plans \in Seq(PlanRecords),
         \A i, j \in DOMAIN results.plans :
           results.plans[i].symbol = results.plans[j].symbol => i = j,
         NEW side
  PROVE  /\ \A i \in DOMAIN results.plans : LET plan == results.plans[i] IN
              Traded(plan.symbol, side)
                = IF plan.side = side
                  THEN 100 * (plan.quantity * results.closes[plan.symbol]) ELSE 0
         /\ \A s : (\A i \in DOMAIN results.plans : results.plans[i].symbol # s)
              => Traded(s, side) = 0
<1> DEFINE plans == results.plans
           P(s) == {j \in DOMAIN plans : plans[j].symbol = s /\ plans[j].side = side}
           f(s) == [i \in P(s) |-> plans[i].quantity * results.closes[s]]
<1>1. \A s : Traded(s, side) = 100 * SumFunctionOnSet(f(s), P(s))
  <2> SUFFICES ASSUME NEW s PROVE Traded(s, side) = 100 * SumFunctionOnSet(f(s), P(s))
    OBVIOUS
  <2>1. Traded(s, side) = 100 * SumFunction(f(s))
    BY DEF Traded
  <2>2. DOMAIN f(s) = P(s)
    OBVIOUS
  <2> HIDE DEF f, P
  <2> QED BY <2>1, <2>2 DEF SumFunction
<1>2. \A i \in DOMAIN plans : plans[i] \in PlanRecords
  OBVIOUS
<1>3. \A s : P(s) = {} => Traded(s, side) = 0
  <2> SUFFICES ASSUME NEW s, P(s) = {} PROVE Traded(s, side) = 0
    OBVIOUS
  <2> HIDE DEF f, P
  <2>1. SumFunctionOnSet(f(s), {}) = 0
    BY SumNothing
  <2>2. Traded(s, side) = 100 * SumFunctionOnSet(f(s), {})
    BY <1>1
  <2> QED BY <2>1, <2>2
<1>4. ASSUME NEW i \in DOMAIN plans
      PROVE  Traded(plans[i].symbol, side)
               = IF plans[i].side = side
                 THEN 100 * (plans[i].quantity * results.closes[plans[i].symbol]) ELSE 0
  <2> DEFINE s == plans[i].symbol
             g == f(s)
  <2>1. CASE plans[i].side = side
    <3>1. P(s) = {i}
      BY <2>1
    <3>2. s \in Symbols /\ plans[i].quantity \in Nat
      BY <1>2 DEF PlanRecords
    <3>3. results.closes[s] \in Nat
      BY <3>2
    <3>4. g[i] = plans[i].quantity * results.closes[s]
      BY <3>1
    <3>5. g[i] \in Int
      BY <3>2, <3>3, <3>4
    <3> HIDE DEF g
    <3>6. SumFunctionOnSet(g, {i}) = g[i]
      BY <3>5, SumOfOne
    <3>7. Traded(s, side) = 100 * g[i]
      BY <1>1, <3>1, <3>6 DEF g
    <3> QED BY <2>1, <3>4, <3>7
  <2>2. CASE plans[i].side # side
    <3>1. P(s) = {}
      BY <2>2
    <3> QED BY <1>3, <2>2, <3>1
  <2> QED BY <2>1, <2>2
<1>5. ASSUME NEW s, \A i \in DOMAIN plans : plans[i].symbol # s PROVE Traded(s, side) = 0
  <2>1. P(s) = {}
    BY <1>5
  <2> QED BY <1>3, <2>1
<1> QED BY <1>4, <1>5

\* What is bought of a symbol fits with what is held of it into what was reserved.
LEMMA BoughtIsReserved ==
  ASSUME NEW intents, NEW reserved, NEW committed, SettledOn(results, intents, reserved, committed)
  PROVE  /\ \A s \in Symbols : Bought(s) \in Nat
         /\ \A s \in Symbols : s \notin BoughtSymbols => Bought(s) = 0
         /\ BoughtSymbols \subseteq DOMAIN reserved
         /\ \A s \in BoughtSymbols : Value(s) + Bought(s) <= reserved[s]
         /\ BoughtSymbols # {} => ~results.reduction
<1> DEFINE plans == results.plans
           p == results.context.portfolio
           closes == results.closes
           decisions == results.decisions
<1>1. /\ closes \in [Symbols -> Nat \ {0}] /\ PortfolioOK(p, closes)
      /\ DecisionsOK(decisions, p)
      /\ ReservedFor(decisions, reserved)
      /\ PlansOK(plans, decisions, p, results.reduction, closes)
      /\ results.reduction = ReductionRequired(p)
  BY DEF SettledOn, ContextOK
<1>2. /\ plans \in Seq(PlanRecords)
      /\ \A i, j \in DOMAIN plans : plans[i].symbol = plans[j].symbol => i = j
  BY <1>1 DEF PlansOK
<1>3. \A i \in DOMAIN plans : plans[i] \in PlanRecords
  BY <1>2
<1>4. \A i \in DOMAIN plans : plans[i].symbol \in Symbols /\ plans[i].quantity \in Nat
  BY <1>3 DEF PlanRecords
<1>5. /\ \A i \in DOMAIN plans : Bought(plans[i].symbol)
           = IF plans[i].side = "BUY" THEN 100 * (plans[i].quantity * closes[plans[i].symbol]) ELSE 0
      /\ \A s : (\A i \in DOMAIN plans : plans[i].symbol # s) => Bought(s) = 0
  BY <1>1, <1>2, TradedIs DEF Bought
<1>6. ASSUME NEW s \in Symbols PROVE Bought(s) \in Nat /\ (s \notin BoughtSymbols => Bought(s) = 0)
  <2>1. CASE \A i \in DOMAIN plans : plans[i].symbol # s
    BY <1>5, <2>1
  <2>2. ASSUME NEW i \in DOMAIN plans, plans[i].symbol = s
        PROVE  Bought(s) \in Nat /\ (s \notin BoughtSymbols => Bought(s) = 0)
    <3> DEFINE q == plans[i].quantity
               c == closes[s]
    <3>1. q \in Nat /\ c \in Nat
      BY <1>1, <1>4
    <3>2. Bought(s) = IF plans[i].side = "BUY" THEN 100 * (q * c) ELSE 0
      BY <1>5, <2>2
    <3>3. s \notin BoughtSymbols => ~(plans[i].side = "BUY" /\ q > 0)
      BY <2>2 DEF BoughtSymbols
    <3> HIDE DEF q, c
    <3>4. q * c \in Nat /\ (q = 0 => q * c = 0)
      BY <3>1
    <3> QED BY <3>1, <3>2, <3>3, <3>4
  <2> QED BY <2>1, <2>2
<1>7. ASSUME NEW s \in BoughtSymbols
      PROVE  s \in DOMAIN reserved /\ Value(s) + Bought(s) <= reserved[s] /\ ~results.reduction
  <2>1. PICK i \in DOMAIN plans : plans[i].symbol = s /\ plans[i].side = "BUY" /\ plans[i].quantity > 0
    BY DEF BoughtSymbols
  <2> DEFINE d == decisions[i]
             plan == StrategyPlan(d, p, closes[s])
  <2>2. s \in Symbols
    BY <1>4, <2>1
  <2>3. /\ i \in DOMAIN decisions /\ d.symbol = s
        /\ Follows(plans[i], plan)
    <3>1. CASE results.reduction /\ s \in Held(p)
      <4>1. Follows(plans[i], ReductionPlan(s, decisions, p, closes[s]))
        BY <1>1, <2>1, <3>1 DEF PlansOK
      <4>2. ReductionPlan(s, decisions, p, closes[s]).side = "SELL"
        BY <1>1, <3>1, ReductionPlanFacts
      <4> QED BY <2>1, <4>1, <4>2 DEF Follows
    <3>2. CASE ~(results.reduction /\ s \in Held(p))
      BY <1>1, <2>1, <3>2 DEF PlansOK
    <3> QED BY <3>1, <3>2
  <2>4. d \in DecisionRecords
    BY <1>1, <2>3 DEF DecisionsOK
  <2>5. plan = StrategyPlan(d, p, closes[d.symbol]) /\ plan.side = "BUY" /\ plan.quantity = plans[i].quantity
    BY <2>1, <2>3 DEF Follows
  <2> HIDE DEF plan, d
  <2> DEFINE v == ValueOf(s, p)
             room == d.target - v
             c == closes[s]
  <2>6. Approved(d) /\ room \in Nat /\ plans[i].quantity = Shares(room, c)
    <3>1. /\ Approved(d) /\ d.target - ValueOf(d.symbol, p) \in Nat
          /\ plan.quantity = Shares(d.target - ValueOf(d.symbol, p), closes[d.symbol])
      BY <1>1, <2>4, <2>5, StrategyPlanFacts
    <3> QED BY <2>3, <2>5, <3>1
  <2>7. c \in Nat \ {0} /\ d.target \in Nat /\ v \in Nat
    <3>1. d.target \in Nat
      BY <2>4 DEF DecisionRecords
    <3> QED BY <1>1, <2>2, <3>1 DEF ValueOf, PortfolioOK
  <2>8. Bought(s) = 100 * (plans[i].quantity * c)
    BY <1>5, <2>1
  <2>9. Value(s) = v
    BY DEF Value
  <2> HIDE DEF room, v, c
  <2>10. Bought(s) <= room
    BY <2>6, <2>7, <2>8, SharesFacts
  <2>11. Value(s) + Bought(s) <= d.target
    BY <1>6, <2>2, <2>7, <2>9, <2>10 DEF room
  <2>12. s \in DOMAIN reserved /\ reserved[s] = d.target
    BY <1>1, <2>3, <2>6 DEF ReservedFor, d
  <2>13. ~results.reduction
    BY <1>1, <2>3, <2>6 DEF DecisionsOK, d
  <2> QED BY <2>11, <2>12, <2>13
<1> QED BY <1>6, <1>7

\* The orders of a close are within the limits of the engine.
LEMMA SettledWithinLimits ==
  ASSUME NEW intents, NEW reserved, NEW committed, SettledOn(results, intents, reserved, committed)
  PROVE  BatchWithinLimits
<1> DEFINE context == results.context
           p == context.portfolio
           opened == {s \in BoughtSymbols : s \notin Held(p)}
           fresh == DOMAIN reserved \ Held(p)
           b == [s \in opened |-> Bought(s)]
<1>1. /\ PortfolioOK(p, results.closes) /\ ContextOK(context, results.closes)
      /\ DecisionsOK(results.decisions, p)
      /\ ReservedOK(reserved) /\ ReservedFor(results.decisions, reserved)
      /\ LimitsKept(p, context, reserved, committed)
      /\ \A i \in DOMAIN intents : Answers(results.decisions[i], intents[i], p)
      /\ DOMAIN results.decisions = DOMAIN intents
  BY DEF SettledOn, ContextOK
<1>2. /\ \A s \in Symbols : Bought(s) \in Nat
      /\ \A s \in Symbols : s \notin BoughtSymbols => Bought(s) = 0
      /\ BoughtSymbols \subseteq DOMAIN reserved
      /\ \A s \in BoughtSymbols : Value(s) + Bought(s) <= reserved[s]
  BY BoughtIsReserved
<1>3. /\ DOMAIN reserved \subseteq Symbols /\ \A s \in DOMAIN reserved : reserved[s] \in Nat
      /\ p.nav \in Nat /\ context.committed \in Nat /\ context.dayCash \in Nat
  BY <1>1 DEF ReservedOK, PortfolioOK, ContextOK
<1>4. \A s : Value(s) = ValueOf(s, p) /\ Value(s) \in Nat
  BY <1>1, StandingIsNatural DEF Value
<1>5. /\ committed = context.committed + SumFunctionOnSet(reserved, fresh)
      /\ fresh # {} => committed <= DailyNewPositionLimit * context.dayCash
      /\ \A s \in DOMAIN reserved : SectorLoad(s, p, reserved) <= SectorLimit * p.nav
  BY <1>1 DEF LimitsKept
<1>6. opened # {} => SumFunction(b) + context.committed <= DailyNewPositionLimit * context.dayCash
  <2> SUFFICES ASSUME opened # {} PROVE SumFunction(b) + context.committed <= DailyNewPositionLimit * context.dayCash
    OBVIOUS
  <2>1. opened \subseteq fresh /\ opened \subseteq Symbols /\ fresh \subseteq Symbols /\ fresh # {}
    BY <1>2, <1>3
  <2>2. IsFiniteSet(opened) /\ IsFiniteSet(fresh)
    BY <2>1, SymbolsFinite
  <2>3. \A s \in opened : b[s] \in Int /\ reserved[s] \in Int /\ b[s] <= reserved[s]
    <3> SUFFICES ASSUME NEW s \in opened PROVE b[s] \in Int /\ reserved[s] \in Int /\ b[s] <= reserved[s]
      OBVIOUS
    <3>1. s \in BoughtSymbols /\ s \in Symbols /\ s \in DOMAIN reserved
      BY <1>2, <2>1
    <3>2. b[s] = Bought(s) /\ Bought(s) \in Nat /\ reserved[s] \in Nat /\ Value(s) \in Nat
      BY <1>2, <1>3, <1>4, <3>1
    <3> QED BY <1>2, <3>1, <3>2
  <2>4. \A s \in fresh : reserved[s] \in Nat
    BY <1>3
  <2>5. SumFunction(b) = SumFunctionOnSet(b, opened)
    <3>1. DOMAIN b = opened
      OBVIOUS
    <3> HIDE DEF b, opened
    <3> QED BY <3>1 DEF SumFunction
  <2> HIDE DEF b, opened, fresh
  <2>6. SumFunctionOnSet(b, opened) <= SumFunctionOnSet(reserved, opened)
    BY <2>2, <2>3, SumGrows
  <2>7. SumFunctionOnSet(b, opened) \in Int
    BY <2>2, <2>3, SumIsInt
  <2>8. /\ SumFunctionOnSet(reserved, opened) \in Nat /\ SumFunctionOnSet(reserved, fresh) \in Nat
        /\ SumFunctionOnSet(reserved, opened) <= SumFunctionOnSet(reserved, fresh)
    BY <2>1, <2>2, <2>4, SumOfNaturals
  <2> DEFINE limit == DailyNewPositionLimit * context.dayCash
             x == SumFunctionOnSet(b, opened)
             y == SumFunctionOnSet(reserved, opened)
             z == SumFunctionOnSet(reserved, fresh)
             w == context.committed
  <2>9. /\ limit \in Int /\ x \in Int /\ y \in Int /\ z \in Int /\ w \in Int
        /\ x <= y /\ y <= z /\ w + z <= limit
    BY <1>3, <1>5, <2>1, <2>6, <2>7, <2>8 DEF DailyNewPositionLimit
  <2> HIDE DEF limit, x, y, z, w
  <2>10. x + w <= limit
    BY <2>9
  <2> QED BY <2>5, <2>10 DEF limit, x, w
<1>7. ASSUME NEW s \in BoughtSymbols PROVE Value(s) + Bought(s) <= SingleStockLimit * p.nav
  <2>1. s \in DOMAIN reserved /\ s \in Symbols
    BY <1>2, <1>3
  <2>2. PICK i \in DOMAIN results.decisions : Approved(results.decisions[i]) /\ results.decisions[i].symbol = s
    BY <1>1, <2>1 DEF ReservedFor
  <2>3. reserved[s] = results.decisions[i].target
    BY <1>1, <2>2 DEF ReservedFor
  <2>4. results.decisions[i].target <= SingleStockLimit * p.nav
    BY <1>1, <2>2 DEF Answers
  <2>5. Value(s) + Bought(s) <= reserved[s] /\ Value(s) \in Nat /\ Bought(s) \in Nat
    BY <1>2, <1>4, <2>1
  <2>6. reserved[s] \in Nat /\ SingleStockLimit * p.nav \in Nat
    BY <1>3, <2>1 DEF SingleStockLimit
  <2> QED BY <2>3, <2>4, <2>5, <2>6
<1>8. ASSUME NEW s \in BoughtSymbols, ~Lowered(s)
      PROVE  SectorExposure(s) <= SectorLimit * p.nav
  <2> DEFINE S == SectorMates(s)
             f == [peer \in S |-> Value(peer) + Bought(peer)]
             g == Standings(S, p, reserved)
  <2>1. s \in DOMAIN reserved /\ s \in Symbols
    BY <1>2, <1>3
  <2>2. IsFiniteSet(S) /\ S \subseteq Symbols /\ SectorLoad(s, p, reserved) \in Nat
    BY <1>1, SectorSums
  <2>3. ASSUME NEW peer \in S PROVE f[peer] \in Int /\ g[peer] \in Int /\ f[peer] <= g[peer]
    <3>1. /\ f[peer] = Value(peer) + Bought(peer) /\ g[peer] = Standing(peer, p, reserved)
          /\ peer \in Symbols
      BY <2>2 DEF Standings
    <3>2. Value(peer) \in Nat /\ Bought(peer) \in Nat /\ Standing(peer, p, reserved) \in Nat
      BY <1>1, <1>2, <1>4, <3>1, StandingIsNatural
    <3>3. Value(peer) + Bought(peer) <= Standing(peer, p, reserved)
      <4>1. CASE peer \in BoughtSymbols
        <5>1. peer \in DOMAIN reserved /\ Standing(peer, p, reserved) = reserved[peer]
          BY <1>2, <4>1 DEF Standing
        <5> QED BY <1>2, <4>1, <5>1
      <4>2. CASE peer \notin BoughtSymbols /\ peer \in DOMAIN reserved
        <5>1. PICK i \in DOMAIN results.decisions :
                Approved(results.decisions[i]) /\ results.decisions[i].symbol = peer
          BY <1>1, <4>2 DEF ReservedFor
        <5> DEFINE d == results.decisions[i]
        <5>2. reserved[peer] = d.target
          BY <1>1, <5>1 DEF ReservedFor
        <5>3. SectorOf[d.symbol] = SectorOf[s]
          BY <5>1 DEF SectorMates
        <5>4. ~(d.target < Value(d.symbol))
          BY <1>8, <5>1, <5>3 DEF Lowered, Approved
        <5>5. Value(peer) <= reserved[peer] /\ reserved[peer] \in Nat
          BY <1>3, <3>2, <4>2, <5>1, <5>2, <5>4
        <5>6. Bought(peer) = 0 /\ Standing(peer, p, reserved) = reserved[peer]
          BY <1>2, <3>1, <4>2 DEF Standing
        <5> QED BY <3>2, <5>5, <5>6
      <4>3. CASE peer \notin DOMAIN reserved
        <5>1. peer \notin BoughtSymbols /\ Standing(peer, p, reserved) = Value(peer)
          BY <1>2, <1>4, <4>3 DEF Standing
        <5>2. Bought(peer) = 0
          BY <1>2, <3>1, <5>1
        <5> QED BY <3>2, <5>1, <5>2
      <4> QED BY <4>1, <4>2, <4>3
    <3> QED BY <3>1, <3>2, <3>3
  <2>4. SectorExposure(s) = SumFunctionOnSet(f, S) /\ SectorLoad(s, p, reserved) = SumFunctionOnSet(g, S)
    <3>1. DOMAIN f = S
      OBVIOUS
    <3>2. SectorExposure(s) = SumFunction(f)
      BY DEF SectorExposure
    <3>3. SectorLoad(s, p, reserved) = SumFunctionOnSet(g, S)
      BY DEF SectorLoad
    <3> HIDE DEF f, S
    <3> QED BY <3>1, <3>2, <3>3 DEF SumFunction
  <2> HIDE DEF f, g, S
  <2>5. SumFunctionOnSet(f, S) <= SumFunctionOnSet(g, S) /\ SumFunctionOnSet(f, S) \in Int
    BY <2>2, <2>3, SumGrows, SumIsInt
  <2>6. SectorLoad(s, p, reserved) <= SectorLimit * p.nav /\ SectorLimit * p.nav \in Nat
    BY <1>3, <1>5, <2>1 DEF SectorLimit
  <2> QED BY <2>2, <2>4, <2>5, <2>6
<1> QED BY <1>6, <1>7, <1>8 DEF BatchWithinLimits

\* Where a reduction is required nothing is bought, and every holding is halved.
LEMMA SettledHalves ==
  ASSUME NEW intents, NEW reserved, NEW committed, SettledOn(results, intents, reserved, committed)
  PROVE  ReductionHalves
<1> DEFINE p == results.context.portfolio
           closes == results.closes
           plans == results.plans
<1>1. /\ closes \in [Symbols -> Nat \ {0}] /\ PortfolioOK(p, closes)
      /\ DecisionsOK(results.decisions, p)
      /\ PlansOK(plans, results.decisions, p, results.reduction, closes)
  BY DEF SettledOn, ContextOK
<1> SUFFICES ASSUME results.reduction
             PROVE  /\ BoughtSymbols = {}
                    /\ \A s \in Held(p) : \E i \in DOMAIN plans :
                         /\ plans[i].symbol = s
                         /\ 2 * (p.positions[s].value - plans[i].quantity * closes[s])
                              < p.positions[s].value + 2 * closes[s]
  BY DEF ReductionHalves
<1>2. BoughtSymbols = {}
  BY BoughtIsReserved
<1>3. ASSUME NEW s \in Held(p)
      PROVE  \E i \in DOMAIN plans :
               /\ plans[i].symbol = s
               /\ 2 * (p.positions[s].value - plans[i].quantity * closes[s])
                    < p.positions[s].value + 2 * closes[s]
  <2>1. PICK i \in DOMAIN plans : plans[i].symbol = s
    BY <1>1 DEF PlansOK
  <2> DEFINE plan == ReductionPlan(s, results.decisions, p, closes[s])
  <2>2. Follows(plans[i], plan)
    BY <1>1, <2>1 DEF PlansOK
  <2>3. PICK keep \in Nat : /\ keep <= 50 * p.positions[s].value
                            /\ plan.quantity = Shares(100 * p.positions[s].value - keep, closes[s])
                            /\ 100 * p.positions[s].value - keep \in Nat
    BY <1>1, ReductionPlanFacts
  <2>4. p.positions[s].value \in Nat /\ closes[s] \in Nat \ {0}
    BY <1>1 DEF PortfolioOK
  <2> DEFINE v == p.positions[s].value
             c == closes[s]
             q == plans[i].quantity
             amount == 100 * v - keep
  <2>5. amount \in Nat /\ q = Shares(amount, c) /\ v \in Nat /\ c \in Nat \ {0} /\ 50 * v <= amount
    BY <2>2, <2>3, <2>4 DEF Follows
  <2> HIDE DEF v, c, q, amount
  <2>6. q \in Nat /\ amount < 100 * (q * c) + 100 * c
    BY <2>5, SharesFacts
  <2>7. q * c \in Nat
    BY <2>5, <2>6
  <2>8. 2 * (v - q * c) < v + 2 * c
    <3> DEFINE w == q * c
    <3>1. w \in Nat /\ amount < 100 * w + 100 * c
      BY <2>6, <2>7
    <3> HIDE DEF w
    <3>2. 2 * (v - w) < v + 2 * c
      BY <2>5, <3>1
    <3> QED BY <3>2 DEF w
  <2> QED BY <2>1, <2>8 DEF v, c, q
<1> QED BY <1>2, <1>3

\* A regime's cap is a percentage.
LEMMA CapIsNatural ==
  ASSUME NEW regime
  PROVE  CapOf(regime) \in Nat
<1> DEFINE A == regime = "OFFENSIVE"
           B == regime = "NEUTRAL"
           x == OffensiveCap
           y == NeutralCap
           cases == CASE A -> x [] B -> y [] OTHER -> 0
<1>1. ~(A /\ B)
  OBVIOUS
<1>2. CapOf(regime) = cases
  BY DEF CapOf
<1>3. cases = x \/ cases = y \/ cases = 0
  <2> HIDE DEF A, B, x, y
  <2> QED BY <1>1, Zenon
<1>4. x \in Nat /\ y \in Nat
  BY StrategyAAssumption
<1> HIDE DEF cases, x, y
<1> QED BY <1>2, <1>3, <1>4

\* The actions of a symbol, and what they ask for
LEMMA ActionFacts ==
  ASSUME NEW regime, NEW held \in BOOLEAN, NEW value \in Nat, NEW nav \in Nat,
         ~held => value = 0, value <= nav,
         NEW t \in ActionTargets(regime, held, value, nav),
         NEW cap, cap = CapOf(regime) * nav
  PROVE  /\ cap \in Nat
         /\ t.action \in Sides /\ t.amount \in Nat
         /\ t.action = "SELL" => t.amount = 0
         /\ regime # "INSUFFICIENT" =>
              /\ t.action = "HOLD" => /\ t.amount = 100 * value /\ 100 * value <= cap
                                      /\ regime = "DEFENSIVE" => value = 0
              /\ t.action = "SELL" => held
              /\ t.action = "REDUCE" => /\ t.amount = cap /\ cap < 100 * value
                                        /\ regime # "DEFENSIVE"
              /\ t.action = "BUY" => t.amount = cap /\ 100 * value < cap /\ regime = "OFFENSIVE"
<1>1. cap \in Nat
  BY CapIsNatural
<1> DEFINE over == 100 * value > cap
<1>2. nav = 0 => value = 0
  OBVIOUS
<1>3. \/ /\ t = Target("HOLD", 100 * value)
         /\ regime # "INSUFFICIENT" =>
              (regime = "DEFENSIVE" /\ ~held) \/ (regime # "DEFENSIVE" /\ (nav = 0 \/ ~over))
      \/ /\ t = Target("SELL", 0) /\ regime # "INSUFFICIENT" /\ ((regime = "DEFENSIVE" /\ held) \/ over)
      \/ /\ t = Target("REDUCE", cap) /\ over /\ regime \notin {"INSUFFICIENT", "DEFENSIVE"}
      \/ /\ t = Target("BUY", cap) /\ 100 * value < cap /\ regime = "OFFENSIVE"
  <2> HIDE DEF over
  <2> DEFINE hold == Target("HOLD", 100 * value)
             sell == Target("SELL", 0)
             buy == Target("BUY", cap)
             reduce == Target("REDUCE", cap)
             room == 100 * value < cap
  <2>1. t \in IF regime = "INSUFFICIENT" THEN {hold}
              ELSE IF regime = "DEFENSIVE" THEN {IF held THEN sell ELSE hold}
              ELSE IF nav = 0 THEN {hold}
              ELSE IF regime = "OFFENSIVE"
                   THEN IF over THEN {reduce} ELSE {hold} \cup (IF room THEN {buy} ELSE {})
              ELSE IF ~over THEN {hold}
              ELSE {sell} \cup (IF cap > 0 THEN {reduce} ELSE {})
    BY DEF ActionTargets, over
  <2> HIDE DEF hold, sell, buy, reduce, room
  <2>2. CASE regime = "INSUFFICIENT"
    BY <2>1, <2>2 DEF hold
  <2>3. CASE regime = "DEFENSIVE"
    BY <2>1, <2>3 DEF hold, sell
  <2>4. CASE regime \notin {"INSUFFICIENT", "DEFENSIVE"} /\ nav = 0
    BY <2>1, <2>4 DEF hold
  <2>5. CASE regime = "OFFENSIVE" /\ nav # 0
    BY <2>1, <2>5 DEF hold, buy, reduce, room
  <2>6. CASE regime \notin {"INSUFFICIENT", "DEFENSIVE", "OFFENSIVE"} /\ nav # 0
    BY <2>1, <2>6 DEF hold, sell, reduce
  <2> QED BY <2>2, <2>3, <2>4, <2>5, <2>6
<1>4. CASE /\ t = Target("HOLD", 100 * value)
           /\ regime # "INSUFFICIENT" =>
                (regime = "DEFENSIVE" /\ ~held) \/ (regime # "DEFENSIVE" /\ (nav = 0 \/ ~over))
  <2>1. t.action = "HOLD" /\ t.amount = 100 * value
    BY <1>4 DEF Target
  <2>2. regime # "INSUFFICIENT" => 100 * value <= cap /\ (regime = "DEFENSIVE" => value = 0)
    BY <1>1, <1>2, <1>4
  <2> QED BY <1>1, <2>1, <2>2 DEF Sides
<1>5. CASE t = Target("SELL", 0) /\ regime # "INSUFFICIENT" /\ ((regime = "DEFENSIVE" /\ held) \/ over)
  <2>1. t.action = "SELL" /\ t.amount = 0
    BY <1>5 DEF Target
  <2>2. held
    BY <1>1, <1>5
  <2> QED BY <1>1, <2>1, <2>2 DEF Sides
<1>6. CASE t = Target("REDUCE", cap) /\ over /\ regime \notin {"INSUFFICIENT", "DEFENSIVE"}
  BY <1>1, <1>6 DEF Target, Sides
<1>7. CASE t = Target("BUY", cap) /\ 100 * value < cap /\ regime = "OFFENSIVE"
  BY <1>1, <1>7 DEF Target, Sides
<1> QED BY <1>3, <1>4, <1>5, <1>6, <1>7

\* What is left of a symbol after its plan is within its envelope.
LEMMA EnvelopeOfSymbol ==
  ASSUME NEW intents, NEW reserved, NEW committed, SettledOn(results, intents, reserved, committed),
         NEW s \in DOMAIN results.regimes, results.regimes[s] # "INSUFFICIENT"
  PROVE  LET regime == results.regimes[s]
             left == Value(s) + Traded(s, "BUY") - Traded(s, "SELL")
         IN  /\ left < CapOf(regime) * results.context.portfolio.nav + 100 * results.closes[s]
             /\ regime = "DEFENSIVE" => left = 0
             /\ regime # "OFFENSIVE" => left <= Value(s)
<1> DEFINE p == results.context.portfolio
           closes == results.closes
           plans == results.plans
           decisions == results.decisions
           regime == results.regimes[s]
           held == s \in Held(p)
           value == IF held THEN p.positions[s].value ELSE 0
           cap == CapOf(regime) * p.nav
           v == Value(s)
           c == closes[s]
           buys == Traded(s, "BUY")
           sells == Traded(s, "SELL")
<1>1. /\ closes \in [Symbols -> Nat \ {0}] /\ PortfolioOK(p, closes)
      /\ DecisionsOK(decisions, p) /\ RequestsOK(intents) /\ DOMAIN decisions = DOMAIN intents
      /\ \A i \in DOMAIN intents : Answers(decisions[i], intents[i], p)
      /\ PlansOK(plans, decisions, p, results.reduction, closes)
      /\ RegimesOK(results.regimes, intents, p)
      /\ results.reduction = ReductionRequired(p)
  BY DEF SettledOn, ContextOK
<1>2. PICK i \in DOMAIN intents : /\ intents[i].symbol = s
                                  /\ Target(intents[i].side, intents[i].target)
                                       \in ActionTargets(regime, held, value, p.nav)
  BY <1>1 DEF RegimesOK
<1> DEFINE d == decisions[i]
           t == Target(intents[i].side, intents[i].target)
           q == plans[i].quantity
<1>3. /\ d \in DecisionRecords /\ d.symbol = s /\ d.side = intents[i].side
      /\ d.side # "BUY" => d.status = "APPROVED" /\ d.target = intents[i].target
      /\ Approved(d) => d.target <= intents[i].target
  BY <1>1, <1>2 DEF Answers, DecisionsOK
<1>4. s \in Symbols /\ d.target \in Nat
  BY <1>3 DEF DecisionRecords
<1>5. /\ c \in Nat \ {0} /\ p.nav \in Nat /\ value \in Nat /\ value <= p.nav
      /\ ~held => value = 0
      /\ held => value = p.positions[s].value /\ p.positions[s].quantity \in Nat
                 /\ p.positions[s].value = p.positions[s].quantity * c
      /\ v = 100 * value
  <2>1. PortfolioOK(p, closes) /\ c \in Nat \ {0}
    BY <1>1, <1>4
  <2>2. p.nav \in Nat /\ (held => p.positions[s].value \in Nat /\ p.positions[s].value <= p.nav
                 /\ p.positions[s].quantity \in Nat
                 /\ p.positions[s].value = p.positions[s].quantity * c)
    BY <2>1 DEF PortfolioOK
  <2>3. v = 100 * value
    BY DEF Value, ValueOf
  <2> HIDE DEF p, v, c
  <2> QED BY <2>1, <2>2, <2>3
<1>6. /\ i \in DOMAIN plans /\ plans[i].symbol = s
      /\ plans \in Seq(PlanRecords)
      /\ \A j, k \in DOMAIN plans : plans[j].symbol = plans[k].symbol => j = k
  BY <1>1, <1>2, <1>3 DEF PlansOK
<1>7. /\ buys = IF plans[i].side = "BUY" THEN 100 * (q * c) ELSE 0
      /\ sells = IF plans[i].side = "SELL" THEN 100 * (q * c) ELSE 0
  BY <1>1, <1>6, TradedIs
<1>8. /\ cap \in Nat
      /\ d.side = "SELL" => intents[i].target = 0
      /\ d.side = "HOLD" => /\ 100 * value <= cap /\ (regime = "DEFENSIVE" => value = 0)
                            /\ intents[i].target = 100 * value
      /\ d.side = "SELL" => held
      /\ d.side = "REDUCE" => intents[i].target = cap /\ cap < 100 * value /\ regime # "DEFENSIVE"
      /\ d.side = "BUY" => intents[i].target = cap /\ 100 * value < cap /\ regime = "OFFENSIVE"
      /\ d.side \in Sides
  <2>1. t.action = intents[i].side /\ t.amount = intents[i].target
    BY DEF Target
  <2>2. t \in ActionTargets(regime, held, value, p.nav) /\ held \in BOOLEAN /\ cap = CapOf(regime) * p.nav
    BY <1>2
  <2> HIDE DEF t, held, value, cap, regime, p
  <2>3. /\ cap \in Nat /\ t.action \in Sides
        /\ t.action = "SELL" => t.amount = 0
        /\ regime # "INSUFFICIENT" =>
              /\ t.action = "HOLD" => /\ t.amount = 100 * value /\ 100 * value <= cap
                                      /\ regime = "DEFENSIVE" => value = 0
              /\ t.action = "SELL" => held
              /\ t.action = "REDUCE" => /\ t.amount = cap /\ cap < 100 * value
                                        /\ regime # "DEFENSIVE"
              /\ t.action = "BUY" => t.amount = cap /\ 100 * value < cap /\ regime = "OFFENSIVE"
    BY <1>5, <2>2, ActionFacts
  <2>4. regime # "INSUFFICIENT"
    BY DEF regime
  <2> QED BY <1>3, <2>1, <2>3, <2>4
<1>9. \/ /\ results.reduction /\ held
         /\ Follows(plans[i], ReductionPlan(s, decisions, p, c))
      \/ Follows(plans[i], StrategyPlan(d, p, closes[d.symbol]))
  BY <1>1, <1>3, <1>6 DEF PlansOK
<1> DEFINE left == v + buys - sells
           Ok == /\ left < cap + 100 * c
                 /\ regime = "DEFENSIVE" => left = 0
                 /\ regime # "OFFENSIVE" => left <= v
<1> SUFFICES Ok
  OBVIOUS
<1> HIDE DEF cap, v, c, buys, sells, q, value, regime, d
<1>10. CASE results.reduction /\ held /\ Follows(plans[i], ReductionPlan(s, decisions, p, c))
  <2> DEFINE plan == ReductionPlan(s, decisions, p, c)
  <2>1. /\ plan.side = "SELL" /\ plan.quantity \in Nat
        /\ \E keep \in Nat :
              /\ keep <= 50 * p.positions[s].value
              /\ \A j \in DOMAIN decisions :
                   decisions[j].symbol = s /\ decisions[j].status # "REJECTED"
                     => keep <= decisions[j].target
              /\ plan.quantity = Shares(100 * p.positions[s].value - keep, c)
              /\ 100 * p.positions[s].value - keep \in Nat
    BY <1>1, <1>10, ReductionPlanFacts DEF c
  <2> HIDE DEF plan
  <2>2. PICK keep \in Nat : /\ keep <= 50 * value
                            /\ d.status # "REJECTED" => keep <= d.target
                            /\ plan.quantity = Shares(v - keep, c)
                            /\ v - keep \in Nat
    BY <1>2, <1>1, <1>3, <1>5, <1>10, <2>1 DEF d
  <2>3. q = plan.quantity /\ plans[i].side = "SELL"
    BY <1>10, <2>1 DEF Follows, plan, q
  <2> DEFINE amount == v - keep
             w == q * c
  <2>4. /\ w \in Nat /\ 100 * w <= amount /\ amount < 100 * w + 100 * c /\ amount \in Nat
    <3>1. amount \in Nat /\ q = Shares(amount, c)
      BY <2>2, <2>3
    <3> HIDE DEF amount
    <3>2. q \in Nat /\ 100 * (q * c) <= amount /\ amount < 100 * (q * c) + 100 * c
      BY <1>5, <3>1, SharesFacts
    <3> QED BY <1>5, <3>1, <3>2
  <2>5. left = v - 100 * w
    BY <1>5, <1>7, <2>3, <2>4
  <2>6. keep <= cap
    <3>1. d.side \in {"HOLD", "BUY"} => keep <= cap
      BY <1>5, <1>8, <2>2
    <3>2. d.side \in {"SELL", "REDUCE"} => keep <= cap
      BY <1>3, <1>4, <1>8, <2>2
    <3> QED BY <1>8, <3>1, <3>2 DEF Sides
  <2>7. regime = "DEFENSIVE" => left = 0
    <3> SUFFICES ASSUME regime = "DEFENSIVE" PROVE left = 0
      OBVIOUS
    <3>1. d.side = "HOLD" => keep = 0
      BY <1>5, <1>8, <2>2
    <3>2. d.side = "SELL" => keep = 0
      BY <1>3, <1>4, <1>8, <2>2
    <3>3. keep = 0
      BY <1>8, <3>1, <3>2 DEF Sides
    <3> DEFINE own == p.positions[s].quantity
    <3>4. own \in Nat /\ v = 100 * (own * c) /\ c \in Nat \ {0}
      BY <1>5, <1>10
    <3> HIDE DEF own
    <3>5. q = Shares(100 * (own * c), c)
      BY <1>5, <2>2, <2>3, <3>3, <3>4
    <3>6. q = own
      BY <3>4, <3>5, SharesWhole
    <3> QED BY <1>5, <2>4, <2>5, <3>4, <3>6
  <2> HIDE DEF w
  <2>8. left < cap + 100 * c /\ left <= v
    BY <1>5, <1>8, <2>2, <2>4, <2>5, <2>6
  <2> QED BY <2>7, <2>8
<1>11. CASE Follows(plans[i], StrategyPlan(d, p, closes[d.symbol]))
  <2> DEFINE plan == StrategyPlan(d, p, closes[d.symbol])
             w == q * c
  <2>1. /\ plan.side = plans[i].side /\ plan.quantity = q
        /\ closes[d.symbol] = c /\ ValueOf(d.symbol, p) = v
    BY <1>3, <1>11 DEF Follows, q, c, v, Value
  <2>2. /\ plan.side \in {"BUY", "SELL", "HOLD"} /\ q \in Nat
        /\ plan.side = "HOLD" => q = 0
        /\ plan.side = "BUY" =>
              /\ Approved(d) /\ d.target - v \in Nat
              /\ q = Shares(d.target - v, c)
        /\ plan.side = "SELL" =>
              \/ /\ d.side = "SELL" /\ held /\ q = p.positions[s].quantity
              \/ /\ d.side = "REDUCE" /\ v - d.target \in Nat
                 /\ q = Shares(v - d.target, c)
        /\ plan.side = "HOLD" =>
              \/ d.status = "REJECTED" \/ d.side = "HOLD" \/ (d.side = "SELL" /\ ~held)
              \/ d.side = "BUY" /\ d.target <= v
              \/ d.side = "REDUCE" /\ d.target >= v
    <3> HIDE DEF plan
    <3>1. plan = StrategyPlan(d, p, closes[d.symbol])
      BY DEF plan
    <3> HIDE DEF p, closes
    <3> QED BY <1>1, <1>3, <2>1, <3>1, StrategyPlanFacts
  <2> HIDE DEF plan
  <2>3. CASE plan.side = "HOLD"
    <3>1. left = v
      BY <1>5, <1>7, <2>1, <2>3
    <3>2. d.side = "HOLD" => Ok
      BY <1>5, <1>8, <3>1
    <3>3. d.side = "BUY" => Ok
      BY <1>5, <1>8, <3>1
    <3>4. d.side \notin {"SELL", "REDUCE"}
      <4>1. d.side \in {"SELL", "REDUCE"} => d.status = "APPROVED"
        BY <1>3
      <4>2. d.side # "SELL"
        BY <1>8, <2>2, <2>3, <4>1
      <4>3. d.side # "REDUCE"
        BY <1>3, <1>4, <1>5, <1>8, <2>2, <2>3, <4>1
      <4> QED BY <4>2, <4>3
    <3> QED BY <1>8, <3>2, <3>3, <3>4 DEF Sides
  <2>4. CASE plan.side = "BUY"
    <3> DEFINE amount == d.target - v
    <3>1. /\ d.side = "BUY" /\ amount \in Nat /\ q = Shares(amount, c) /\ amount <= cap - v
      BY <1>3, <1>4, <1>5, <1>8, <2>2, <2>4 DEF Approved
    <3> HIDE DEF amount
    <3>2. w \in Nat /\ 100 * w <= amount
      <4>1. q \in Nat /\ 100 * (q * c) <= amount
        BY <1>5, <3>1, SharesFacts
      <4> QED BY <1>5, <4>1
    <3>3. left = v + 100 * w
      BY <1>5, <1>7, <2>1, <2>4, <3>2
    <3> HIDE DEF w
    <3>4. v \in Nat /\ cap \in Nat /\ c \in Nat \ {0} /\ amount \in Nat
      BY <1>5, <1>8, <3>1
    <3>5. v + 100 * w <= cap
      BY <3>1, <3>2, <3>4
    <3>6. left < cap + 100 * c
      BY <3>2, <3>3, <3>4, <3>5
    <3> QED BY <1>8, <3>1, <3>6
  <2>5. CASE plan.side = "SELL" /\ d.side = "SELL" /\ held /\ q = p.positions[s].quantity
    <3>1. v = 100 * w /\ w \in Nat
      BY <1>5, <2>2, <2>5
    <3>2. left = 0
      BY <1>5, <1>7, <2>1, <2>5, <3>1
    <3> QED BY <1>5, <1>8, <3>2
  <2>6. CASE /\ plan.side = "SELL" /\ d.side = "REDUCE" /\ v - d.target \in Nat
             /\ q = Shares(v - d.target, c)
    <3> DEFINE amount == v - d.target
    <3>1. amount \in Nat /\ q = Shares(amount, c) /\ d.target = cap
      BY <1>3, <1>8, <2>6
    <3> HIDE DEF amount
    <3>2. w \in Nat /\ amount < 100 * w + 100 * c
      <4>1. q \in Nat /\ amount < 100 * (q * c) + 100 * c
        BY <1>5, <3>1, SharesFacts
      <4> QED BY <1>5, <4>1
    <3>3. left = v - 100 * w
      BY <1>5, <1>7, <2>1, <2>6, <3>2
    <3> HIDE DEF w
    <3>4. left < cap + 100 * c /\ left <= v
      BY <1>5, <1>8, <3>1, <3>2, <3>3 DEF amount
    <3> QED BY <1>8, <2>6, <3>4
  <2> QED BY <2>2, <2>3, <2>4, <2>5, <2>6
<1> QED BY <1>9, <1>10, <1>11

-----------------------------------------------------------------------------
(* The orders of a close *)

\* The orders are those of the plans that have one.
LEMMA OrdersAreOK ==
  ASSUME session \in 1 .. Sessions, NEW plans \in Seq(PlanRecords),
         \A i \in DOMAIN plans : plans[i].side = "HOLD" => plans[i].quantity = 0,
         NEW orders, orders = OrdersOf(plans)
  PROVE  /\ orders \in Seq(Orders)
         /\ \A s \in ToBuy(orders) : \E i \in DOMAIN plans :
              plans[i].symbol = s /\ plans[i].side = "BUY" /\ plans[i].quantity > 0
<1> DEFINE keep == {plan \in ToSet(plans) : plan.quantity > 0}
           ready == Those(plans, keep)
           Order(i) == [id |-> <<session, ready[i].symbol, ready[i].side>>, symbol |-> ready[i].symbol,
                        side |-> ready[i].side, quantity |-> ready[i].quantity]
<1>1. ready \in Seq(PlanRecords) /\ ToSet(ready) = ToSet(plans) \cap keep
  <2> HIDE DEF keep
  <2> QED BY ThoseRange
<1>2. orders = [i \in DOMAIN ready |-> Order(i)]
  BY DEF OrdersOf
<1>3. ASSUME NEW i \in DOMAIN ready
      PROVE  \E j \in DOMAIN plans : ready[i] = plans[j] /\ plans[j].quantity > 0
  <2>1. ready[i] \in ToSet(ready)
    BY DEF ToSet
  <2>2. ready[i] \in ToSet(plans) /\ ready[i] \in keep
    BY <1>1, <2>1
  <2> HIDE DEF ready
  <2>3. ready[i].quantity > 0
    BY <2>2
  <2> QED BY <2>2, <2>3 DEF ToSet
<1> HIDE DEF ready
<1>4. ASSUME NEW i \in DOMAIN ready PROVE Order(i) \in Orders
  <2>1. PICK j \in DOMAIN plans : ready[i] = plans[j] /\ plans[j].quantity > 0
    BY <1>3
  <2>2. plans[j] \in PlanRecords
    OBVIOUS
  <2>3. /\ plans[j].symbol \in Symbols /\ plans[j].quantity \in Nat \ {0}
        /\ plans[j].side \in {"BUY", "SELL"}
    BY <2>1, <2>2 DEF PlanRecords
  <2>4. <<session, plans[j].symbol, plans[j].side>> \in Ids
    BY <2>3 DEF Ids
  <2> QED BY <2>1, <2>3, <2>4 DEF Orders
<1>5. orders \in Seq(Orders) /\ DOMAIN orders = DOMAIN ready
  <2>1. Len(ready) \in Nat /\ DOMAIN ready = 1 .. Len(ready)
    BY <1>1
  <2> HIDE DEF Order
  <2> QED BY <1>2, <1>4, <2>1
<1>6. ASSUME NEW s \in ToBuy(orders)
      PROVE  \E j \in DOMAIN plans :
               plans[j].symbol = s /\ plans[j].side = "BUY" /\ plans[j].quantity > 0
  <2>1. PICK i \in DOMAIN ready : orders[i].side = "BUY" /\ orders[i].symbol = s
    BY <1>5 DEF ToBuy
  <2>2. ready[i].side = "BUY" /\ ready[i].symbol = s
    BY <1>2, <2>1
  <2> QED BY <1>3, <2>2
<1> QED BY <1>5, <1>6

\* SubmitAll goes through the orders one by one.
SubmitStart == [sim |-> sim, accepted |-> <<>>]

SubmitStep(orders, f, n) == IF n = 0 THEN SubmitStart ELSE SubmitNext(f[n - 1], orders[n])

SubmitTable(orders, f) == f = [n \in 0 .. Len(orders) |-> SubmitStep(orders, f, n)]

\* The table of a submission exists.
LEMMA SubmitTableExists ==
  ASSUME NEW orders, Len(orders) \in Nat
  PROVE  \E f : SubmitTable(orders, f)
<1> DEFINE Upto(n) == \E f : f = [i \in 0 .. n |-> SubmitStep(orders, f, i)]
           bad == {n \in Nat : ~Upto(n)}
<1>1. Upto(0)
  <2> DEFINE f == [i \in 0 .. 0 |-> SubmitStart]
  <2>1. f = [i \in 0 .. 0 |-> SubmitStep(orders, f, i)]
    BY DEF SubmitStep
  <2> QED BY <2>1
<1>2. ASSUME NEW n \in Nat \ {0}, Upto(n - 1) PROVE Upto(n)
  <2>1. PICK f : f = [i \in 0 .. n - 1 |-> SubmitStep(orders, f, i)]
    BY <1>2
  <2> DEFINE g == [i \in 0 .. n |-> IF i = n THEN SubmitStep(orders, f, n) ELSE f[i]]
  <2>2. \A i \in 0 .. n - 1 : g[i] = f[i]
    OBVIOUS
  <2>3. ASSUME NEW i \in 0 .. n PROVE g[i] = SubmitStep(orders, g, i)
    <3>1. i # 0 => i - 1 \in 0 .. n - 1 /\ g[i - 1] = f[i - 1]
      BY <2>2
    <3>2. SubmitStep(orders, g, i) = SubmitStep(orders, f, i)
      BY <3>1 DEF SubmitStep
    <3>3. i # n => f[i] = SubmitStep(orders, f, i)
      <4>1. i # n => i \in 0 .. n - 1
        OBVIOUS
      <4> QED BY <2>1, <4>1
    <3> QED BY <3>2, <3>3
  <2>4. g = [i \in 0 .. n |-> SubmitStep(orders, g, i)]
    BY <2>3
  <2> HIDE DEF g
  <2> QED BY <2>4
<1> HIDE DEF Upto
<1>3. bad = {}
  <2> SUFFICES ASSUME bad # {} PROVE FALSE
    OBVIOUS
  <2>1. PICK n \in bad : \A m \in bad : n <= m
    <3> HIDE DEF bad
    <3>1. bad \in SUBSET Nat
      BY DEF bad
    <3> QED BY <3>1, LeastExists
  <2>2. n \in Nat \ {0} /\ n - 1 \in Nat
    BY <1>1, <2>1
  <2>3. n - 1 \notin bad
    BY <2>1, <2>2
  <2> QED BY <1>2, <2>1, <2>2, <2>3
<1>4. Upto(Len(orders))
  BY <1>3
<1> QED BY <1>4 DEF SubmitTable, Upto

\* SubmitAll is read off its last entry.
LEMMA SubmitAllIs ==
  ASSUME NEW orders, Len(orders) \in Nat
  PROVE  \E f : SubmitTable(orders, f) /\ SubmitAll(orders) = f[Len(orders)]
<1> DEFINE f == CHOOSE g : SubmitTable(orders, g)
<1>1. SubmitTable(orders, f)
  <2>1. \E g : SubmitTable(orders, g)
    BY SubmitTableExists
  <2> QED BY <2>1
<1>2. SubmitAll(orders) = f[Len(orders)]
  BY DEF SubmitAll, SubmitTable, SubmitStep, SubmitStart
<1> HIDE DEF f
<1> QED BY <1>1, <1>2

\* What is pending are the accepted orders, in order, for the next session.
SubmitInv(orders, acc) ==
  /\ acc.sim \in Simulators
  /\ acc.accepted = IdsOf(acc.sim.pending)
  /\ \A i \in DOMAIN acc.sim.pending : acc.sim.pending[i].eligible = session + 1
  /\ ToBuy(acc.sim.pending) \subseteq ToBuy(orders)

\* An order keeps it so.
LEMMA SubmitGoesOn ==
  ASSUME session \in 1 .. Sessions, NEW orders \in Seq(Orders), NEW n \in DOMAIN orders,
         NEW acc, SubmitInv(orders, acc),
         NEW next, next = SubmitNext(acc, orders[n])
  PROVE  SubmitInv(orders, next)
<1> DEFINE order == orders[n]
           pending == acc.sim.pending
           quantity == NormalizeQuantity(market, order.side, order.quantity)
           known == [acc.sim EXCEPT !.used = @ \cup {order.id}]
           x == PendingOrder(order, quantity, session)
           more == Append(pending, x)
           after == [known EXCEPT !.pending = more]
<1>1. /\ order.id \in Ids /\ order.symbol \in Symbols /\ order.side \in {"BUY", "SELL"}
      /\ order.quantity \in Nat \ {0}
  <2>1. order \in Orders
    OBVIOUS
  <2> QED BY <2>1 DEF Orders
<1>2. quantity \in Nat
  <2>1. LotSize \in Nat \ {0}
    BY SimulatorAssumption
  <2>2. order.quantity \div LotSize \in Nat
    BY <1>1, <2>1
  <2>3. (order.quantity \div LotSize) * LotSize \in Nat
    BY <2>1, <2>2
  <2> HIDE DEF order
  <2> QED BY <1>1, <2>3 DEF NormalizeQuantity
<1>3. session \in Nat /\ session + 1 \in Nat
  <2>1. Sessions \in Int
    BY BacktestAssumption
  <2> QED BY <2>1
<1>4. /\ acc.sim \in Simulators /\ pending \in Seq(Waiting) /\ acc.accepted = IdsOf(pending)
      /\ \A i \in DOMAIN pending : pending[i].eligible = session + 1
      /\ ToBuy(pending) \subseteq ToBuy(orders)
  BY DEF SubmitInv, Simulators
<1>5. known \in Simulators /\ known.pending = pending
  BY <1>1, <1>4 DEF Simulators
<1>6. \/ next = [sim |-> known, accepted |-> acc.accepted]
      \/ quantity # 0 /\ next = [sim |-> after, accepted |-> Append(acc.accepted, order.id)]
  <2> HIDE DEF quantity, x, known, order
  <2>1. \/ Submit(acc.sim, market, order, session) = [sim |-> known, status |-> "REJECTED"]
        \/ /\ quantity # 0
           /\ Submit(acc.sim, market, order, session) = [sim |-> after, status |-> "PENDING"]
    BY <1>5 DEF Submit, quantity, x, known
  <2> HIDE DEF after
  <2> DEFINE submitted == Submit(acc.sim, market, order, session)
  <2>2. next = [sim |-> submitted.sim,
                accepted |-> IF submitted.status = "PENDING" THEN Append(acc.accepted, order.id)
                             ELSE acc.accepted]
    BY DEF SubmitNext, order
  <2>3. \/ submitted.sim = known /\ submitted.status = "REJECTED"
        \/ quantity # 0 /\ submitted.sim = after /\ submitted.status = "PENDING"
    BY <2>1
  <2> HIDE DEF submitted
  <2> QED BY <2>2, <2>3
<1>7. CASE next = [sim |-> known, accepted |-> acc.accepted]
  <2> HIDE DEF known, pending
  <2>1. next.sim = known /\ next.accepted = acc.accepted
    BY <1>7
  <2> QED BY <1>4, <1>5, <2>1 DEF SubmitInv
<1>8. CASE quantity # 0 /\ next = [sim |-> after, accepted |-> Append(acc.accepted, order.id)]
  <2> DEFINE k == Len(pending)
  <2>1. x \in Waiting
    BY <1>1, <1>2, <1>3, <1>8 DEF PendingOrder, Waiting
  <2>2. x.id = order.id /\ x.symbol = order.symbol /\ x.side = order.side /\ x.eligible = session + 1
    BY DEF PendingOrder
  <2> HIDE DEF x, known, order, pending
  <2>3. /\ more \in Seq(Waiting) /\ k \in Nat /\ DOMAIN pending = 1 .. k
        /\ DOMAIN more = 1 .. k + 1 /\ more[k + 1] = x /\ \A i \in 1 .. k : more[i] = pending[i]
    BY <1>4, <2>1
  <2> HIDE DEF more, k
  <2>4. after \in Simulators /\ after.pending = more
    BY <1>5, <2>3 DEF Simulators
  <2>5. IdsOf(more) = Append(IdsOf(pending), order.id)
    <3> DEFINE ids == IdsOf(pending)
    <3>1. ids \in Seq(Ids) /\ Len(ids) = k /\ DOMAIN ids = 1 .. k
          /\ \A i \in 1 .. k : ids[i] = pending[i].id
      <4>1. \A i \in 1 .. k : pending[i] \in Waiting
        BY <1>4, <2>3
      <4>2. \A i \in 1 .. k : pending[i].id \in Ids
        BY <4>1 DEF Waiting
      <4> QED BY <2>3, <4>2 DEF IdsOf
    <3> HIDE DEF ids
    <3>2. /\ Append(ids, order.id) \in [1 .. k + 1 -> Ids]
          /\ \A i \in 1 .. k + 1 :
               Append(ids, order.id)[i] = IF i = k + 1 THEN order.id ELSE ids[i]
      <4>1. order.id \in Ids
        BY <1>1
      <4>2. Append(ids, order.id) \in Seq(Ids) /\ Len(Append(ids, order.id)) = k + 1
        BY <2>3, <3>1, <4>1
      <4>3. Append(ids, order.id) \in [1 .. k + 1 -> Ids]
        <5> DEFINE longer == Append(ids, order.id)
        <5>1. longer \in Seq(Ids) /\ Len(longer) = k + 1
          BY <4>2
        <5> HIDE DEF longer
        <5>2. longer \in [1 .. Len(longer) -> Ids]
          BY <5>1
        <5>3. longer \in [1 .. k + 1 -> Ids]
          BY <5>1, <5>2
        <5> QED BY <5>3 DEF longer
      <4>4. \A i \in 1 .. k + 1 :
              Append(ids, order.id)[i] = IF i = k + 1 THEN order.id ELSE ids[i]
        BY <2>3, <3>1, <4>1
      <4> QED BY <4>3, <4>4
    <3>3. IdsOf(more) = [i \in 1 .. k + 1 |-> more[i].id]
      BY <2>3 DEF IdsOf
    <3>4. \A i \in 1 .. k + 1 : more[i].id = IF i = k + 1 THEN order.id ELSE ids[i]
      BY <2>2, <2>3, <3>1
    <3>5. IdsOf(more) = Append(ids, order.id)
      BY <3>2, <3>3, <3>4
    <3> QED BY <3>5 DEF ids
  <2>6. \A i \in DOMAIN more : more[i].eligible = session + 1
    <3>1. \A i \in DOMAIN more : i = k + 1 \/ i \in 1 .. k
      BY <2>3
    <3> QED BY <1>4, <2>2, <2>3, <3>1
  <2>7. ToBuy(more) \subseteq ToBuy(orders)
    <3> SUFFICES ASSUME NEW s \in ToBuy(more) PROVE s \in ToBuy(orders)
      OBVIOUS
    <3>1. PICK i \in 1 .. k + 1 : more[i].side = "BUY" /\ more[i].symbol = s
      BY <2>3 DEF ToBuy
    <3>2. CASE i = k + 1
      <4>1. order.side = "BUY" /\ order.symbol = s
        BY <2>2, <2>3, <3>1, <3>2
      <4> QED BY <4>1 DEF ToBuy, order
    <3>3. CASE i # k + 1
      <4>1. i \in DOMAIN pending /\ pending[i].side = "BUY" /\ pending[i].symbol = s
        BY <2>3, <3>1, <3>3
      <4> QED BY <1>4, <4>1 DEF ToBuy
    <3> QED BY <3>2, <3>3
  <2> HIDE DEF after
  <2>8. next.sim = after /\ next.accepted = Append(acc.accepted, order.id)
    BY <1>8
  <2> QED BY <1>4, <2>3, <2>4, <2>5, <2>6, <2>7, <2>8 DEF SubmitInv
<1> QED BY <1>6, <1>7, <1>8

\* All orders are submitted.
LEMMA SubmitEnds ==
  ASSUME session \in 1 .. Sessions, sim \in Simulators, sim.pending = <<>>,
         NEW orders \in Seq(Orders)
  PROVE  SubmitInv(orders, SubmitAll(orders))
<1> DEFINE n == Len(orders)
<1>1. n \in Nat /\ DOMAIN orders = 1 .. n
  OBVIOUS
<1>2. PICK f : SubmitTable(orders, f) /\ SubmitAll(orders) = f[n]
  BY <1>1, SubmitAllIs
<1>3. \A m \in 0 .. n : f[m] = SubmitStep(orders, f, m)
  BY <1>2 DEF SubmitTable
<1> HIDE DEF n
<1> DEFINE Ok(m) == SubmitInv(orders, f[m])
           bad == {m \in 0 .. n : ~Ok(m)}
<1>4. Ok(0)
  <2>1. f[0] = [sim |-> sim, accepted |-> <<>>]
    BY <1>1, <1>3 DEF SubmitStep, SubmitStart
  <2>2. f[0].sim = sim /\ f[0].accepted = <<>>
    BY <2>1
  <2>3. IdsOf(sim.pending) = <<>> /\ ToBuy(sim.pending) = {} /\ DOMAIN sim.pending = {}
    BY DEF IdsOf, ToBuy
  <2> QED BY <2>2, <2>3 DEF SubmitInv
<1>5. ASSUME NEW m \in 1 .. n, Ok(m - 1) PROVE Ok(m)
  <2>1. m \in DOMAIN orders /\ m \in 0 .. n /\ m # 0
    BY <1>1
  <2>2. f[m] = SubmitNext(f[m - 1], orders[m])
    BY <1>3, <2>1 DEF SubmitStep
  <2> QED BY <1>5, <2>1, <2>2, SubmitGoesOn
<1>6. bad = {}
  <2> SUFFICES ASSUME bad # {} PROVE FALSE
    OBVIOUS
  <2>1. PICK m \in bad : \A k \in bad : m <= k
    <3>1. bad \in SUBSET Nat
      BY <1>1
    <3> HIDE DEF bad
    <3> QED BY <3>1, LeastExists
  <2> HIDE DEF Ok
  <2>2. m \in 1 .. n /\ m - 1 \in 0 .. n /\ m - 1 \notin bad
    BY <1>1, <1>4, <2>1
  <2>3. Ok(m - 1) /\ ~Ok(m)
    BY <2>1, <2>2
  <2> QED BY <1>5, <2>2, <2>3
<1>7. SubmitInv(orders, f[n])
  <2>1. n \in 0 .. n
    BY <1>1
  <2> QED BY <1>6, <2>1
<1> QED BY <1>2, <1>7

-----------------------------------------------------------------------------
(* The close *)

\* The last close settled its results.
SettledResults ==
  \E intents, reserved, committed : SettledOn(results, intents, reserved, committed)

\* There is a slot for everything that is bought.
RoomForAll ==
  LET taken == Held(results.context.portfolio) \cup BoughtSymbols
  IN taken \subseteq Symbols /\ Cardinality(taken) <= MaxHoldings

\* SettledOn results have all the properties of a close.
LEMMA SettledHolds == SettledResults => ResultsInv /\ RoomForAll
<1> SUFFICES ASSUME NEW intents, NEW reserved, NEW committed,
                    SettledOn(results, intents, reserved, committed)
             PROVE  ResultsInv /\ RoomForAll
  BY DEF SettledResults
<1>1. EnvelopeCarriedOut
  BY EnvelopeOfSymbol DEF EnvelopeCarriedOut
<1>2. BatchWithinLimits /\ ReductionHalves
  BY SettledWithinLimits, SettledHalves
<1> DEFINE p == results.context.portfolio
           taken == Held(p) \cup BoughtSymbols
           all == Held(p) \cup DOMAIN reserved
<1>3. /\ DOMAIN reserved \subseteq Symbols /\ Held(p) \subseteq Symbols
      /\ Cardinality(all) <= MaxHoldings
  BY DEF SettledOn, ReservedOK, ContextOK, PortfolioOK, LimitsKept
<1>4. BoughtSymbols \subseteq DOMAIN reserved
  BY BoughtIsReserved
<1>5. taken \subseteq all /\ all \in SUBSET Symbols
  BY <1>3, <1>4
<1> HIDE DEF taken, all
<1>6. Cardinality(taken) <= MaxHoldings
  BY <1>3, <1>5, FewerSlots
<1>7. RoomForAll
  BY <1>5, <1>6 DEF RoomForAll, taken
<1> QED BY <1>1, <1>2, <1>7 DEF ResultsInv

\* So have those of the next state.
LEMMA SettledNext == SettledResults' => ResultsInv' /\ RoomForAll'
BY SettledHolds, PTL

\* Without results there is nothing to hold.
LEMMA NothingHolds == results = NoResults => ResultsInv
<1> SUFFICES ASSUME results = NoResults PROVE ResultsInv
  OBVIOUS
<1>1. /\ results.plans = <<>> /\ results.reduction = FALSE /\ results.regimes = <<>>
  BY DEF NoResults
<1>2. BoughtSymbols = {}
  BY <1>1 DEF BoughtSymbols
<1>3. DOMAIN results.regimes = {}
  BY <1>1
<1> QED BY <1>1, <1>2, <1>3 DEF ResultsInv, BatchWithinLimits, ReductionHalves, EnvelopeCarriedOut

\* The same after a step that leaves no results
LEMMA NothingNext == (results = NoResults)' => ResultsInv'
BY NothingHolds, PTL

\* What a close decides on some intents is settled.
LEMMA DecideIsSettled ==
  ASSUME AccountInv, phase = "close", NEW closes \in [Symbols -> Nat \ {0}],
         NEW marked, marked = Marked(closes),
         NEW intents, RequestsOK(intents),
         NEW regimes, RegimesOK(regimes, intents, PortfolioOf(marked)),
         NEW r, r = Decide(closes, marked, intents, regimes)
  PROVE  /\ \E reserved, committed : SettledOn(r, intents, reserved, committed)
         /\ ReductionsAgree(r)
<1> DEFINE p == PortfolioOf(marked)
           context == [portfolio |-> p, dayCash |-> dayStartCash, committed |-> newNotional]
           decisions == EvaluateMany(intents, context)
           reduction == ReductionRequired(p)
           plans == PlanOrders(decisions, p, reduction, closes)
<1>1. BookOK(book) /\ dayStartCash \in Nat /\ newNotional \in Nat
      /\ sim.pending = <<>> /\ Cardinality(DOMAIN book.holdings \cup ToBuy(sim.pending)) <= MaxHoldings
  BY DEF AccountInv, PendingOK, SlotsOK
<1>2. PortfolioOK(p, closes) /\ Held(p) = DOMAIN book.holdings
  BY <1>1, MarkedIsOK
<1>3. Cardinality(Held(p)) <= MaxHoldings
  <2>1. ToBuy(sim.pending) = {}
    BY <1>1 DEF ToBuy
  <2>2. DOMAIN book.holdings \cup ToBuy(sim.pending) = Held(p)
    BY <1>2, <2>1
  <2> QED BY <1>1, <2>2
<1> HIDE DEF p
<1>4. ContextOK(context, closes) /\ context.portfolio = p
  BY <1>1, <1>2, <1>3 DEF ContextOK
<1>5. /\ r.closes = closes /\ r.context = context /\ r.reduction = reduction
      /\ r.decisions = decisions /\ r.plans = plans /\ r.regimes = regimes
  BY DEF Decide, p
<1> HIDE DEF context
<1>6. BatchOK(intents, context, decisions)
  BY <1>4, BatchEnds
<1> HIDE DEF decisions, reduction, plans
<1>7. PICK acc : BatchInv(intents, context, acc, Len(intents)) /\ acc.decisions = decisions
  BY <1>6 DEF BatchOK
<1>8. /\ decisions \in Seq(DecisionRecords) /\ Len(decisions) = Len(intents)
      /\ \A i \in 1 .. Len(intents) : Answers(decisions[i], intents[i], p)
      /\ ReservedOK(acc.reserved) /\ ReservedFor(decisions, acc.reserved)
      /\ LimitsKept(p, context, acc.reserved, acc.committed)
  BY <1>4, <1>7 DEF BatchInv
<1>9. DOMAIN decisions = 1 .. Len(intents) /\ DOMAIN intents = 1 .. Len(intents)
  <2>1. intents \in Seq(Requests)
    BY DEF RequestsOK
  <2> QED BY <1>8, <2>1
<1>10. DecisionsOK(decisions, p)
  <2>1. \A i, j \in DOMAIN decisions : decisions[i].symbol = decisions[j].symbol => i = j
    <3>1. \A i \in DOMAIN decisions : decisions[i].symbol = intents[i].symbol
      BY <1>8, <1>9 DEF Answers
    <3> QED BY <1>9, <3>1 DEF RequestsOK
  <2>2. \A i \in DOMAIN decisions : Approved(decisions[i]) => ~ReductionRequired(p)
    BY <1>8, <1>9 DEF Answers
  <2> QED BY <1>8, <2>1, <2>2 DEF DecisionsOK
<1>11. reduction = ReductionRequired(p)
  BY DEF reduction
<1>12. PlansOK(plans, decisions, p, reduction, closes)
  BY <1>2, <1>10, <1>11, PlansAreOK DEF plans
<1>13. RegimesOK(regimes, intents, p)
  BY DEF p
<1>14. SettledOn(r, intents, acc.reserved, acc.committed)
  BY <1>4, <1>5, <1>8, <1>9, <1>10, <1>11, <1>12, <1>13 DEF SettledOn
<1>15. ReductionsAgree(r)
  <2>1. \A i \in DOMAIN decisions : decisions[i].reduction = ReductionRequired(p)
    BY <1>8, <1>9 DEF Answers
  <2>2. r.decisions = decisions /\ r.reduction = ReductionRequired(p)
    BY <1>5, <1>11
  <2> QED BY <2>1, <2>2 DEF ReductionsAgree
<1> QED BY <1>14, <1>15

\* A close on acceptable intents keeps the account, and settles.
LEMMA CloseKeeps ==
  ASSUME AccountInv, NEW closes \in [Symbols -> Nat \ {0}],
         NEW marked, marked = Marked(closes),
         NEW intents, RequestsOK(intents),
         NEW regimes, RegimesOK(regimes, intents, PortfolioOf(marked)),
         Close(closes, marked, intents, regimes)
  PROVE  AccountInv' /\ ResultsInv'
<1> DEFINE decided == Decide(closes, marked, intents, regimes)
           orders == OrdersOf(decided.plans)
           submitted == SubmitAll(orders)
<1>1. /\ phase = "close" /\ session < Sessions /\ book' = marked
      /\ IF marked.ok /\ ReductionsAgree(decided)
         THEN /\ results' = decided /\ sim' = submitted.sim
              /\ priorPending' = submitted.accepted
              /\ session' = session + 1 /\ phase' = "open"
         ELSE phase' = "raised"
      /\ UNCHANGED <<market, strategy, dayStartCash, newNotional>>
  BY DEF Close
<1>2. /\ BookOK(book) /\ sim \in Simulators /\ sim.pending = <<>> /\ session \in 1 .. Sessions
      /\ dayStartCash \in Nat /\ newNotional \in Nat
      /\ market \in {"CN", "US"} /\ strategy \in {"free", "A"}
  BY <1>1 DEF AccountInv, PendingOK
<1>3. /\ BookOK(marked) /\ marked.ok /\ DOMAIN marked.holdings = DOMAIN book.holdings
      /\ Held(PortfolioOf(marked)) = DOMAIN book.holdings
  BY <1>2, MarkedIsOK DEF BookOK
<1>4. PICK reserved, committed : SettledOn(decided, intents, reserved, committed)
  BY <1>1, DecideIsSettled
<1>5. ReductionsAgree(decided)
  BY <1>1, DecideIsSettled
<1>6. decided.context.portfolio = PortfolioOf(marked)
  BY DEF Decide
<1> HIDE DEF decided
<1>7. /\ decided.plans \in Seq(PlanRecords)
      /\ \A i \in DOMAIN decided.plans :
           decided.plans[i].side = "HOLD" => decided.plans[i].quantity = 0
  BY <1>4 DEF SettledOn, PlansOK
<1>8. /\ orders \in Seq(Orders)
      /\ \A s \in ToBuy(orders) : \E i \in DOMAIN decided.plans :
           /\ decided.plans[i].symbol = s /\ decided.plans[i].side = "BUY"
           /\ decided.plans[i].quantity > 0
  <2> DEFINE plans == decided.plans
  <2>1. orders = OrdersOf(plans)
    OBVIOUS
  <2> HIDE DEF plans, orders
  <2> QED BY <1>2, <1>7, <2>1, OrdersAreOK DEF plans
<1> HIDE DEF orders
<1>9. SubmitInv(orders, submitted)
  BY <1>2, <1>8, SubmitEnds
<1> HIDE DEF submitted
<1>10. /\ results' = decided /\ sim' = submitted.sim /\ priorPending' = submitted.accepted
       /\ session' = session + 1 /\ phase' = "open"
  BY <1>1, <1>3, <1>5
<1>11. SettledResults'
  BY <1>4, <1>10 DEF SettledResults
<1>12. ResultsInv' /\ RoomForAll'
  BY <1>11, SettledNext
<1>13. ToBuy(sim'.pending) \subseteq BoughtSymbols'
  <2>1. ToBuy(sim'.pending) \subseteq ToBuy(orders)
    BY <1>9, <1>10 DEF SubmitInv
  <2> QED BY <1>8, <1>10, <2>1 DEF BoughtSymbols
<1>14. SlotsOK'
  <2> DEFINE taken == Held(results'.context.portfolio) \cup BoughtSymbols'
             now == DOMAIN book'.holdings \cup ToBuy(sim'.pending)
  <2>1. taken \in SUBSET Symbols /\ Cardinality(taken) <= MaxHoldings
    BY <1>12 DEF RoomForAll
  <2>2. now \subseteq taken
    BY <1>1, <1>3, <1>6, <1>10, <1>13
  <2> HIDE DEF taken, now
  <2>3. Cardinality(now) <= MaxHoldings
    BY <2>1, <2>2, FewerSlots
  <2> QED BY <2>3 DEF SlotsOK, now
<1>15. session' \in 1 .. Sessions
  <2>1. Sessions \in Int
    BY BacktestAssumption
  <2> QED BY <1>1, <1>2, <1>10, <2>1
<1>16. PendingOK'
  BY <1>9, <1>10 DEF PendingOK, SubmitInv
<1>17. BookOK(book)'
  BY <1>1, <1>3 DEF BookOK, Sound, IsBook, Good
<1> QED BY <1>1, <1>2, <1>10, <1>12, <1>14, <1>15, <1>16, <1>17 DEF AccountInv

-----------------------------------------------------------------------------
(* What the strategies ask for *)

\* A free strategy's batch is one the engine accepts, and promises no envelope.
LEMMA FreeRequests ==
  ASSUME NEW batch \in FreeBatches, NEW nav \in Nat, NEW p
  PROVE  RequestsOK(FreeIntents(batch, nav)) /\ RegimesOK(<<>>, FreeIntents(batch, nav), p)
<1> DEFINE Asked == [symbol : DOMAIN SectorOf, side : Sides, percent : Nat]
           intents == FreeIntents(batch, nav)
<1>1. /\ batch \in Seq(Asked)
      /\ \A i, j \in DOMAIN batch :
           /\ batch[i].side = "SELL" => batch[i].percent = 0
           /\ batch[i].symbol = batch[j].symbol => i = j
  BY BacktestAssumption
<1> HIDE DEF Asked
<1>2. Len(batch) \in Nat /\ DOMAIN batch = 1 .. Len(batch)
  BY <1>1
<1>3. intents = [i \in 1 .. Len(batch) |->
                   [symbol |-> batch[i].symbol, side |-> batch[i].side,
                    target |-> batch[i].percent * nav]]
  BY <1>2 DEF FreeIntents
<1>4. \A i \in 1 .. Len(batch) : batch[i] \in Asked
  BY <1>1, <1>2
<1>5. \A i \in 1 .. Len(batch) :
        /\ batch[i].symbol \in Symbols /\ batch[i].side \in Sides /\ batch[i].percent \in Nat
        /\ batch[i].percent * nav \in Nat
        /\ batch[i].side = "SELL" => batch[i].percent * nav = 0
  BY <1>1, <1>2, <1>4 DEF Asked, Symbols
<1>6. \A i \in 1 .. Len(batch) : intents[i] \in Requests
  BY <1>3, <1>5 DEF Requests
<1>7. intents \in Seq(Requests) /\ DOMAIN intents = 1 .. Len(batch)
  <2>1. intents \in [1 .. Len(batch) -> Requests]
    BY <1>3, <1>6
  <2> HIDE DEF intents
  <2> QED BY <1>2, <2>1
<1>8. \A i, j \in DOMAIN intents : intents[i].symbol = intents[j].symbol => i = j
  BY <1>1, <1>2, <1>3, <1>7
<1>9. \A i \in DOMAIN intents : intents[i].side = "SELL" => intents[i].target = 0
  BY <1>3, <1>5, <1>7
<1>10. DOMAIN <<>> = {}
  OBVIOUS
<1> QED BY <1>7, <1>8, <1>9, <1>10 DEF RequestsOK, RegimesOK

\* The actions of a candidate are those its regime allows for what is held of it.
CandidateOK(c, s, p) ==
  /\ c.symbol = s
  /\ c.targets = ActionTargets(c.regime, s \in Held(p),
                   IF s \in Held(p) THEN p.positions[s].value ELSE 0, p.nav)

\* The candidates of a close are the universe, in order.
LEMMA CandidatesAreOK ==
  ASSUME NEW p, NEW closes, NEW confirmed,
         NEW candidates, candidates = Candidates(Universe, closes, confirmed, p)
  PROVE  /\ DOMAIN candidates = DOMAIN Universe
         /\ \A i \in DOMAIN Universe : CandidateOK(candidates[i], Universe[i], p)
<1>1. DOMAIN candidates = DOMAIN Universe
  BY DEF Candidates
<1>2. ASSUME NEW i \in DOMAIN Universe
      PROVE  CandidateOK(candidates[i], Universe[i], p)
  <2> DEFINE s == Universe[i]
             regime == Regime(closes[s], s \in confirmed)
             actions == ActionTargets(regime, s \in DOMAIN p.positions,
                          IF s \in DOMAIN p.positions THEN p.positions[s].value ELSE 0, p.nav)
  <2>1. candidates[i] = [symbol |-> s, regime |-> regime, targets |-> actions]
    BY DEF Candidates
  <2>2. actions = ActionTargets(regime, s \in Held(p),
                    IF s \in Held(p) THEN p.positions[s].value ELSE 0, p.nav)
    BY DEF Held
  <2> HIDE DEF s, regime, actions
  <2>3. /\ candidates[i].symbol = s /\ candidates[i].regime = regime
        /\ candidates[i].targets = actions
    BY <2>1
  <2> QED BY <2>2, <2>3 DEF CandidateOK, s
<1> QED BY <1>1, <1>2

\* Whatever the model picks for strategy A is a batch the engine accepts, and has for
\* every symbol an action of its regime.
LEMMA ARequests ==
  ASSUME NEW p, NEW closes, PortfolioOK(p, closes),
         NEW candidates, DOMAIN candidates = DOMAIN Universe,
         \A i \in DOMAIN Universe : CandidateOK(candidates[i], Universe[i], p),
         NEW chosen \in Selections(candidates),
         NEW regimes, regimes = [s \in ToSet(Universe) |->
                                   (CHOOSE c \in ToSet(candidates) : c.symbol = s).regime]
  PROVE  /\ RequestsOK(IntentsFor(candidates, chosen))
         /\ RegimesOK(regimes, IntentsFor(candidates, chosen), p)
<1> DEFINE intents == IntentsFor(candidates, chosen)
           n == Len(Universe)
           ValueAt(s) == IF s \in Held(p) THEN p.positions[s].value ELSE 0
<1>1. /\ n \in Nat /\ DOMAIN Universe = 1 .. n
      /\ \A i \in 1 .. n : Universe[i] \in Symbols
      /\ ToSet(Universe) = Symbols
      /\ \A i, j \in 1 .. n : Universe[i] = Universe[j] => i = j
  BY BacktestAssumption DEF Symbols, IsInjective
<1>2. intents = [i \in 1 .. n |-> [symbol |-> candidates[i].symbol, side |-> chosen[i].action,
                                   target |-> chosen[i].amount]]
  BY <1>1 DEF IntentsFor
<1>3. \A i \in 1 .. n : candidates[i].symbol = Universe[i] /\ chosen[i] \in candidates[i].targets
  BY <1>1 DEF Selections, CandidateOK
<1>4. p.nav \in Nat
  BY DEF PortfolioOK
<1>5. \A s \in Symbols : /\ ValueAt(s) \in Nat /\ ValueAt(s) <= p.nav
                         /\ s \notin Held(p) => ValueAt(s) = 0
  BY <1>4 DEF PortfolioOK
<1> HIDE DEF ValueAt
<1>6. ASSUME NEW i \in 1 .. n
      PROVE  /\ chosen[i] \in ActionTargets(candidates[i].regime, Universe[i] \in Held(p),
                                            ValueAt(Universe[i]), p.nav)
             /\ chosen[i].action \in Sides /\ chosen[i].amount \in Nat
             /\ chosen[i].action = "SELL" => chosen[i].amount = 0
             /\ chosen[i] = Target(chosen[i].action, chosen[i].amount)
  <2> DEFINE s == Universe[i]
             regime == candidates[i].regime
             held == s \in Held(p)
             value == ValueAt(s)
             cap == CapOf(regime) * p.nav
             t == chosen[i]
  <2>1. t \in ActionTargets(regime, held, value, p.nav)
    BY <1>1, <1>3 DEF CandidateOK, ValueAt
  <2>2. held \in BOOLEAN /\ value \in Nat /\ (~held => value = 0) /\ value <= p.nav
    BY <1>1, <1>5
  <2>3. cap = CapOf(regime) * p.nav
    OBVIOUS
  <2>4. t = Target(t.action, t.amount)
    <3> HIDE DEF cap, held, value, t, regime, s
    <3>1. \E action, amount : t = Target(action, amount)
      BY <2>1, Zenon DEF ActionTargets
    <3> QED BY <3>1 DEF Target
  <2> HIDE DEF cap, held, value, t, regime, s
  <2>5. t.action \in Sides /\ t.amount \in Nat /\ (t.action = "SELL" => t.amount = 0)
    BY <1>4, <2>1, <2>2, <2>3, ActionFacts
  <2> QED BY <2>1, <2>4, <2>5 DEF held, value, t, regime, s
<1>7. \A i \in 1 .. n : intents[i] \in Requests
  BY <1>1, <1>2, <1>3, <1>6 DEF Requests
<1>8. intents \in Seq(Requests) /\ DOMAIN intents = 1 .. n
  <2>1. intents \in [1 .. n -> Requests]
    BY <1>2, <1>7
  <2> HIDE DEF intents, n
  <2> QED BY <1>1, <2>1
<1>9. \A i, j \in DOMAIN intents : intents[i].symbol = intents[j].symbol => i = j
  BY <1>1, <1>2, <1>3, <1>8
<1>10. \A i \in DOMAIN intents : intents[i].side = "SELL" => intents[i].target = 0
  BY <1>2, <1>6, <1>8
<1>11. ASSUME NEW s \in DOMAIN regimes
       PROVE  \E i \in DOMAIN intents :
                /\ intents[i].symbol = s
                /\ Target(intents[i].side, intents[i].target)
                     \in ActionTargets(regimes[s], s \in Held(p), ValueAt(s), p.nav)
  <2> DEFINE the == CHOOSE c \in ToSet(candidates) : c.symbol = s
  <2>1. s \in ToSet(Universe) /\ regimes[s] = the.regime
    OBVIOUS
  <2>2. PICK i \in 1 .. n : Universe[i] = s
    BY <1>1, <2>1 DEF ToSet
  <2>3. candidates[i] \in ToSet(candidates) /\ candidates[i].symbol = s
    BY <1>1, <1>3, <2>2 DEF ToSet
  <2>4. the \in ToSet(candidates) /\ the.symbol = s
    BY <2>3
  <2> HIDE DEF the
  <2>5. PICK j \in 1 .. n : the = candidates[j]
    BY <1>1, <2>4 DEF ToSet
  <2>6. j = i
    BY <1>1, <1>3, <2>2, <2>4, <2>5
  <2>7. regimes[s] = candidates[i].regime
    BY <2>1, <2>5, <2>6
  <2>8. /\ intents[i].symbol = s /\ intents[i].side = chosen[i].action
        /\ intents[i].target = chosen[i].amount
    BY <1>2, <1>3, <2>2
  <2>9. chosen[i] \in ActionTargets(regimes[s], s \in Held(p), ValueAt(s), p.nav)
    BY <1>6, <2>2, <2>7
  <2>10. Target(intents[i].side, intents[i].target) = chosen[i]
    BY <1>6, <2>8
  <2> HIDE DEF intents
  <2> QED BY <1>8, <2>8, <2>9, <2>10
<1> HIDE DEF intents
<1>12. RegimesOK(regimes, intents, p)
  BY <1>11 DEF RegimesOK, ValueAt
<1> QED BY <1>8, <1>9, <1>10, <1>12 DEF RequestsOK, intents

-----------------------------------------------------------------------------
(* The steps of a run *)

\* The last close only marks, and leaves no order.
LEMMA CloseLastKeeps ==
  ASSUME AccountInv, NEW closes \in [Symbols -> Nat \ {0}], CloseLast(closes)
  PROVE  AccountInv' /\ ResultsInv'
<1> DEFINE marked == Marked(closes)
<1>1. /\ phase = "close" /\ book' = marked
      /\ phase' = IF book'.ok THEN "done" ELSE "raised"
      /\ results' = NoResults
      /\ UNCHANGED <<market, strategy, session, sim, dayStartCash, newNotional>>
  BY DEF CloseLast
<1>2. /\ BookOK(book) /\ sim \in Simulators /\ sim.pending = <<>>
      /\ Cardinality(DOMAIN book.holdings \cup ToBuy(sim.pending)) <= MaxHoldings
  BY <1>1 DEF AccountInv, PendingOK, SlotsOK
<1>3. BookOK(marked) /\ DOMAIN marked.holdings = DOMAIN book.holdings
  BY <1>2, MarkedIsOK
<1> HIDE DEF marked
<1>4. phase' = "done"
  BY <1>1, <1>3 DEF BookOK
<1>5. BookOK(book)' /\ PendingOK'
  BY <1>1, <1>2, <1>3, <1>4 DEF BookOK, Sound, IsBook, Good, PendingOK
<1>6. SlotsOK'
  BY <1>1, <1>2, <1>3 DEF SlotsOK
<1>7. ResultsInv'
  BY <1>1, NothingNext DEF NoResults
<1>8. AccountInv'
  BY <1>1, <1>4, <1>5, <1>6 DEF AccountInv
<1> QED BY <1>7, <1>8

\* A close on the answer of a free strategy
LEMMA CloseFreeKeeps ==
  ASSUME AccountInv, NEW closes \in [Symbols -> Nat \ {0}], NEW batch \in FreeBatches,
         CloseFree(closes, batch)
  PROVE  AccountInv' /\ ResultsInv'
<1> DEFINE marked == Marked(closes)
           intents == FreeIntents(batch, marked.nav)
<1>1. Close(closes, marked, intents, <<>>)
  BY DEF CloseFree
<1>2. marked = Marked(closes) /\ marked.nav \in Nat
  BY MarkedIsOK DEF AccountInv
<1>3. RequestsOK(intents) /\ RegimesOK(<<>>, intents, PortfolioOf(marked))
  BY <1>2, FreeRequests
<1> HIDE DEF marked, intents
<1> QED BY <1>1, <1>2, <1>3, CloseKeeps

\* A close on a pick of strategy A's model
LEMMA CloseAKeeps ==
  ASSUME AccountInv, NEW closes \in [Symbols -> Nat \ {0}], NEW confirmed,
         CloseA(closes, confirmed)
  PROVE  AccountInv' /\ ResultsInv'
<1> DEFINE marked == Marked(closes)
           p == PortfolioOf(marked)
           candidates == CandidatesAt(closes, confirmed, marked)
           regimes == [s \in ToSet(Universe) |->
                         (CHOOSE c \in ToSet(candidates) : c.symbol = s).regime]
<1>1. PICK chosen \in Selections(candidates) :
        Close(closes, marked, IntentsFor(candidates, chosen), regimes)
  BY DEF CloseA
<1> DEFINE intents == IntentsFor(candidates, chosen)
<1>2. marked = Marked(closes) /\ PortfolioOK(p, closes)
  BY MarkedIsOK DEF AccountInv
<1>3. /\ DOMAIN candidates = DOMAIN Universe
      /\ \A i \in DOMAIN Universe : CandidateOK(candidates[i], Universe[i], p)
  <2> DEFINE frames == Append(history, closes)
             seen == [s \in ToSet(Universe) |-> [k \in DOMAIN frames |-> frames[k][s]]]
  <2>1. candidates = Candidates(Universe, seen, confirmed, p)
    BY DEF CandidatesAt
  <2> HIDE DEF candidates, seen, p
  <2> QED BY <2>1, CandidatesAreOK
<1>4. regimes = [s \in ToSet(Universe) |->
                   (CHOOSE c \in ToSet(candidates) : c.symbol = s).regime]
  OBVIOUS
<1> HIDE DEF marked, candidates, regimes
<1>5. RequestsOK(intents) /\ RegimesOK(regimes, intents, p)
  BY <1>2, <1>3, <1>4, ARequests
<1>6. Close(closes, marked, intents, regimes)
  BY <1>1
<1> HIDE DEF intents
<1> QED BY <1>2, <1>5, <1>6, CloseKeeps DEF p

\* A run starts with its opening balance and nothing else.
LEMMA InitRunInv == Init => RunInv
<1> SUFFICES ASSUME Init PROVE RunInv
  OBVIOUS
<1>1. PICK cash \in InitialCash :
        book = ApplyEvent(EmptyBook,
                 [BlankEvent EXCEPT !.type = "CashInitialized", !.amount = cash])
  BY DEF Init
<1> DEFINE e == [BlankEvent EXCEPT !.type = "CashInitialized", !.amount = cash]
           d == [EmptyBook EXCEPT !.cash = cash, !.peak = cash]
<1>2. cash \in Nat
  BY BacktestAssumption
<1>3. /\ e.type = "CashInitialized" /\ e.amount = cash /\ e.fills = <<>> /\ e.marks = <<>>
      /\ e.at = 0
  BY DEF BlankEvent
<1>4. ValidEvent(e)
  <2> HIDE DEF e
  <2>1. <<>> \in Seq(ToSet(<<>>)) /\ ToSet(<<>>) = {} /\ DOMAIN <<>> = {}
    BY DEF ToSet
  <2> QED BY <1>2, <1>3, <2>1 DEF ValidEvent, FillTypes
<1>5. book = Revalue(d)
  <2>1. book = ApplyEvent(EmptyBook, e)
    BY <1>1
  <2> HIDE DEF e
  <2> QED BY <1>3, <2>1 DEF ApplyEvent
<1>6. Sound(book)
  <2>1. book = ApplyEvent(EmptyBook, e)
    BY <1>1
  <2> HIDE DEF e
  <2> QED BY <1>3, <1>4, <2>1, OpeningIsSound
<1>7. d.ok = TRUE /\ d.peak = cash /\ d.holdings = <<>>
  BY DEF EmptyBook
<1>8. /\ book.ok /\ book.holdings = <<>>
      /\ book.peak = cash \/ (book.peak = book.nav /\ book.nav > cash)
  <2> DEFINE nav == d.cash + SumFunction([s \in DOMAIN d.holdings |->
                               LotQuantity(d.holdings[s].lots) * d.holdings[s].mark])
             peak == IF nav > d.peak THEN nav ELSE d.peak
  <2>1. book = Checked(d, TRUE, [d EXCEPT !.nav = nav, !.peak = peak])
    BY <1>5 DEF Revalue
  <2>2. book = [EmptyBook EXCEPT !.cash = cash, !.nav = nav, !.peak = peak]
    BY <1>7, <2>1 DEF Checked, EmptyBook
  <2>3. peak = cash \/ (peak = nav /\ nav > cash)
    BY <1>7
  <2> HIDE DEF nav, peak
  <2>4. book.ok = TRUE /\ book.holdings = <<>> /\ book.nav = nav /\ book.peak = peak
    BY <2>2 DEF EmptyBook
  <2> QED BY <2>3, <2>4
<1>9. BookOK(book)
  <2>1. book.nav \in Int
    BY <1>6 DEF Sound, IsBook
  <2>2. book.peak \in Nat
    BY <1>2, <1>8, <2>1
  <2>3. DOMAIN book.holdings = {}
    BY <1>8
  <2> QED BY <1>6, <1>8, <2>2, <2>3 DEF BookOK
<1>10. sim.pending = <<>> /\ sim \in Simulators /\ priorPending = <<>>
  <2> DEFINE none == <<>>
  <2>1. sim = [pending |-> none, used |-> {}, through |-> 0] /\ priorPending = none
    BY DEF Init, NewSimulator
  <2>2. none \in Seq(Waiting)
    OBVIOUS
  <2> HIDE DEF none
  <2>3. sim \in Simulators /\ sim.pending = none
    BY <2>1, <2>2 DEF Simulators
  <2> QED BY <2>1, <2>3 DEF none
<1>11. IdsOf(sim.pending) = <<>> /\ DOMAIN sim.pending = {} /\ ToBuy(sim.pending) = {}
  BY <1>10 DEF IdsOf, ToBuy
<1>12. PendingOK
  BY <1>10, <1>11 DEF PendingOK, Init
<1>13. SlotsOK
  <2>1. DOMAIN book.holdings \cup ToBuy(sim.pending) = {}
    BY <1>8, <1>11
  <2>2. Cardinality({}) = 0 /\ 0 <= MaxHoldings
    BY FS_EmptySet, RiskAssumption
  <2> QED BY <2>1, <2>2 DEF SlotsOK
<1>14. 1 \in 1 .. Sessions
  BY BacktestAssumption
<1>15. AccountInv
  BY <1>9, <1>12, <1>13, <1>14 DEF AccountInv, Init
<1>16. ResultsInv
  BY NothingHolds DEF Init
<1> QED BY <1>15, <1>16 DEF RunInv

\* The limits and the envelope say something only of the last close's results.
LEMMA ResultsStay ==
  ASSUME ResultsInv, UNCHANGED results
  PROVE  ResultsInv'
<1>1. \A s, side : Traded(s, side)' = Traded(s, side)
  BY DEF Traded
<1>2. \A s : Bought(s)' = Bought(s) /\ Value(s)' = Value(s)
  BY <1>1 DEF Bought, Value
<1>3. BoughtSymbols' = BoughtSymbols
  BY DEF BoughtSymbols
<1>4. \A s : Lowered(s)' = Lowered(s)
  BY <1>2 DEF Lowered
<1>5. \A s : SectorExposure(s)' = SectorExposure(s)
  BY <1>2 DEF SectorExposure
<1>6. BatchWithinLimits'
  BY <1>2, <1>3, <1>4, <1>5 DEF ResultsInv, BatchWithinLimits
<1>7. ReductionHalves'
  BY <1>3 DEF ResultsInv, ReductionHalves
<1>8. EnvelopeCarriedOut'
  BY <1>1, <1>2 DEF ResultsInv, EnvelopeCarriedOut
<1> QED BY <1>6, <1>7, <1>8 DEF ResultsInv

\* Every step keeps the invariant.
LEMMA NextRunInv == RunInv /\ [Next]_vars => RunInv'
<1> SUFFICES ASSUME RunInv, [Next]_vars PROVE RunInv'
  OBVIOUS
<1>1. AccountInv /\ ResultsInv
  BY DEF RunInv
<1>2. \A frame \in Frames : frame \in [Symbols -> Nat \ {0}]
  BY BacktestAssumption DEF Symbols
<1>3. ASSUME NEW opens \in Frames,
             NEW states \in (IF market = "CN" THEN StateFrames ELSE {<<>>}),
             Open(opens, states)
      PROVE  RunInv'
  <2>1. AccountInv' /\ UNCHANGED results
    BY <1>1, <1>3, OpenKeeps
  <2>2. ResultsInv'
    BY <1>1, <2>1, ResultsStay
  <2> QED BY <2>1, <2>2 DEF RunInv
<1>4. ASSUME NEW closes \in Frames, CloseLast(closes)
      PROVE  RunInv'
  BY <1>1, <1>2, <1>4, CloseLastKeeps DEF RunInv
<1>5. ASSUME NEW closes \in Frames, NEW batch \in FreeBatches, CloseFree(closes, batch)
      PROVE  RunInv'
  BY <1>1, <1>2, <1>5, CloseFreeKeeps DEF RunInv
<1>6. ASSUME NEW closes \in Frames, NEW confirmed \in SUBSET ToSet(Universe),
             CloseA(closes, confirmed)
      PROVE  RunInv'
  BY <1>1, <1>2, <1>6, CloseAKeeps DEF RunInv
<1>7. CASE UNCHANGED vars
  <2>1. AccountInv'
    BY <1>1, <1>7 DEF AccountInv, BookOK, Sound, IsBook, Good, PendingOK, SlotsOK, vars
  <2>2. ResultsInv'
    BY <1>1, <1>7, ResultsStay DEF vars
  <2> QED BY <2>1, <2>2 DEF RunInv
<1> QED BY <1>3, <1>4, <1>5, <1>6, <1>7 DEF Next

-----------------------------------------------------------------------------
(* The theorems *)

\* Throughout a run the ledger's book is sound, exactly the orders accepted at the last
\* close are pending and executable at the next open (runner.py
\* _require_prior_orders_terminal), there is a slot for every holding they may open, and
\* the results of the last close are within the limits.
THEOREM RunInvHolds == Spec => []RunInv
<1>1. Init => RunInv
  BY InitRunInv
<1>2. RunInv /\ [Next]_vars => RunInv'
  BY NextRunInv
<1> QED BY <1>1, <1>2, PTL DEF Spec

\* The account and the simulator have the types of runner.py, account/models.py and
\* execution/simulator.py: a cash balance that is never negative, holdings and pending
\* orders of the universe only.
THEOREM RunTypeCorrect == Spec => []TypeOK
<1>1. RunInv => TypeOK
  <2> SUFFICES ASSUME RunInv PROVE TypeOK
    OBVIOUS
  <2>1. AccountInv /\ BookOK(book) /\ PendingOK
    BY DEF RunInv, AccountInv
  <2>2. ToSet(Universe) = Symbols
    BY BacktestAssumption DEF Symbols
  <2>3. book.ok \in BOOLEAN /\ book.cash \in Nat /\ book.peak \in Nat
        /\ DOMAIN book.holdings \subseteq Symbols
    BY <2>1 DEF BookOK, Sound, IsBook, Good
  <2>4. ASSUME NEW o \in ToSet(sim.pending)
        PROVE  o.symbol \in Symbols /\ o.side \in {"BUY", "SELL"} /\ o.quantity \in Nat \ {0}
    <3>1. sim.pending \in Seq(Waiting)
      BY <2>1 DEF PendingOK, Simulators
    <3>2. o \in Waiting
      BY <3>1 DEF ToSet
    <3> QED BY <3>2 DEF Waiting
  <2> QED BY <2>1, <2>2, <2>3, <2>4 DEF TypeOK, AccountInv
<1> QED BY <1>1, RunInvHolds, PTL

\* A run never raises: what was accepted at a close ends at the next open, and the ledger
\* books whatever the simulator fills, whatever the strategy asks for and the market does
\* (runner.py _require_prior_orders_terminal, _book_open_batch).
THEOREM RunsComplete == Spec => []RunNeverRaises
<1>1. RunInv => RunNeverRaises
  BY DEF RunInv, AccountInv, RunNeverRaises
<1> QED BY <1>1, RunInvHolds, PTL

\* The limits of risk/engine.py hold of the account: never too many holdings, the orders of
\* a close together within the day's budget, the sector and the single stock, and every
\* holding halved after a drawdown (evaluate_many, planning.py _reduction_plan).
THEOREM LimitsAlwaysHold == Spec => []LimitsHold
<1>1. RunInv => LimitsHold
  <2> SUFFICES ASSUME RunInv PROVE LimitsHold
    OBVIOUS
  <2>1. BookOK(book) /\ PendingOK /\ SlotsOK /\ ResultsInv
    BY DEF RunInv, AccountInv
  <2> DEFINE slots == DOMAIN book.holdings \cup ToBuy(sim.pending)
  <2>2. slots \in SUBSET Symbols
    <3>1. \A i \in DOMAIN sim.pending : sim.pending[i] \in Waiting
      BY <2>1 DEF PendingOK, Simulators
    <3>2. \A i \in DOMAIN sim.pending : sim.pending[i].symbol \in Symbols
      BY <3>1 DEF Waiting
    <3> QED BY <2>1, <3>2 DEF BookOK, ToBuy
  <2>3. Cardinality(slots) <= MaxHoldings /\ DOMAIN book.holdings \subseteq slots
    BY <2>1 DEF SlotsOK
  <2> HIDE DEF slots
  <2>4. HoldingsBounded
    BY <2>2, <2>3, FewerSlots DEF HoldingsBounded
  <2> QED BY <2>1, <2>4 DEF LimitsHold, ResultsInv
<1> QED BY <1>1, RunInvHolds, PTL

\* Strategy A's envelope is what the orders of a close amount to: no symbol is left over the
\* cap of its regime by a whole share, nothing of one that falls, and only one that rises
\* on volume grows, whatever the model picks (strategies/strategy_a.py _action_targets,
\* risk/engine.py, planning.py).
THEOREM EnvelopeAlwaysCarriedOut == Spec => []EnvelopeCarriedOut
<1>1. RunInv => EnvelopeCarriedOut
  BY DEF RunInv, ResultsInv
<1> QED BY <1>1, RunInvHolds, PTL

=============================================================================
