------------------------- MODULE DurableLedgerProofs -------------------------
(***************************************************************************)
(* For every set of writers, accounts and batches: each event is stored    *)
(* once, and all of a batch before its caller is told so; where the        *)
(* writers hold the process lock, the table of events is one that a        *)
(* restart can replay, and no snapshot of the past changes.                *)
(* And whatever the writers store, a stream that replays keeps the books:  *)
(* no money and no share appears or vanishes in a fill, a mark, an         *)
(* adjustment, a reversal or the split of a lot.                           *)
(*                                                                         *)
(* A recursive function is a CHOOSE: a lemma on each one first shows that  *)
(* the table it chooses exists, then what the table holds, by its least    *)
(* wrong entry (LeastExists, SmallestSubset).                              *)
(***************************************************************************)
EXTENDS DurableLedger, FiniteSetTheorems, WellFoundedInduction, TLAPS

-----------------------------------------------------------------------------
(* Sequences *)

\* A set of naturals has a least element.
LEMMA LeastExists ==
  ASSUME NEW S \in SUBSET Nat, S # {}
  PROVE  \E n \in S : \A m \in S : n <= m
<1> DEFINE less == {ss \in Nat \X Nat : ss[1] < ss[2]}
<1>1. IsWellFoundedOn(less, Nat)
  BY NatLessThanWellFounded DEF OpToRel
<1>2. \E n \in S : \A m \in S : <<m, n>> \notin less
  <2> HIDE DEF less
  <2> QED BY <1>1, WFMin
<1>3. PICK n \in S : \A m \in S : <<m, n>> \notin less
  BY <1>2
<1>4. ASSUME NEW m \in S, m < n PROVE FALSE
  <2>1. <<m, n>> \in less
    BY <1>4
  <2> QED BY <1>3, <2>1
<1> QED BY <1>3, <1>4

\* Those is computed element by element.
ThoseStep(events, keep, f, n) ==
  IF n = 0 THEN <<>>
  ELSE IF events[n] \in keep THEN Append(f[n - 1], events[n]) ELSE f[n - 1]

ThoseTable(events, keep, f) == f = [n \in 0 .. Len(events) |-> ThoseStep(events, keep, f, n)]

LEMMA TableExists ==
  ASSUME NEW T, NEW events \in Seq(T), NEW keep
  PROVE  \E f : ThoseTable(events, keep, f)
<1> DEFINE Upto(n) == \E f : f = [i \in 0 .. n |-> ThoseStep(events, keep, f, i)]
           bad == {n \in Nat : ~Upto(n)}
<1>1. Upto(0)
  <2> DEFINE f == [i \in 0 .. 0 |-> <<>>]
  <2>1. f = [i \in 0 .. 0 |-> ThoseStep(events, keep, f, i)]
    BY DEF ThoseStep
  <2> QED BY <2>1
<1>2. ASSUME NEW n \in Nat \ {0}, Upto(n - 1) PROVE Upto(n)
  <2>1. PICK f : f = [i \in 0 .. n - 1 |-> ThoseStep(events, keep, f, i)]
    BY <1>2
  <2> DEFINE g == [i \in 0 .. n |-> IF i = n THEN ThoseStep(events, keep, f, n) ELSE f[i]]
  <2>2. \A i \in 0 .. n - 1 : g[i] = f[i]
    OBVIOUS
  <2>3. ASSUME NEW i \in 0 .. n PROVE g[i] = ThoseStep(events, keep, g, i)
    <3>1. i # 0 => i - 1 \in 0 .. n - 1 /\ g[i - 1] = f[i - 1]
      BY <2>2
    <3>2. ThoseStep(events, keep, g, i) = ThoseStep(events, keep, f, i)
      BY <3>1 DEF ThoseStep
    <3>3. i # n => f[i] = ThoseStep(events, keep, f, i)
      <4>1. i # n => i \in 0 .. n - 1
        OBVIOUS
      <4> QED BY <2>1, <4>1
    <3> QED BY <3>2, <3>3
  <2>4. g = [i \in 0 .. n |-> ThoseStep(events, keep, g, i)]
    BY <2>3
  <2> HIDE DEF g
  <2> QED BY <2>4
<1> HIDE DEF Upto
<1>3. bad = {}
  <2> SUFFICES ASSUME bad # {} PROVE FALSE
    OBVIOUS
  <2>1. PICK n \in bad : \A m \in bad : n <= m
    <3> HIDE DEF bad
    <3>1. bad \in SUBSET Nat
      BY DEF bad
    <3> QED BY <3>1, LeastExists
  <2>2. n \in Nat \ {0} /\ n - 1 \in Nat
    BY <1>1, <2>1
  <2>3. n - 1 \notin bad
    BY <2>1, <2>2
  <2> QED BY <1>2, <2>1, <2>2, <2>3
<1>4. Len(events) \in Nat
  OBVIOUS
<1>5. Upto(Len(events))
  BY <1>3, <1>4
<1> QED BY <1>5 DEF ThoseTable, Upto

LEMMA ThoseIs ==
  ASSUME NEW T, NEW events \in Seq(T), NEW keep
  PROVE  \E f : ThoseTable(events, keep, f) /\ Those(events, keep) = f[Len(events)]
<1> DEFINE f == CHOOSE g : ThoseTable(events, keep, g)
<1>1. ThoseTable(events, keep, f)
  <2>1. \E g : ThoseTable(events, keep, g)
    BY TableExists
  <2> QED BY <2>1
<1>2. Those(events, keep) = f[Len(events)]
  BY DEF Those, ThoseTable, ThoseStep
<1> HIDE DEF f
<1> QED BY <1>1, <1>2

LEMMA AppendRange ==
  ASSUME NEW T, NEW s \in Seq(T), NEW e \in T
  PROVE  Append(s, e) \in Seq(T) /\ ToSet(Append(s, e)) = ToSet(s) \cup {e}
<1>1. /\ Append(s, e) \in Seq(T) /\ Len(Append(s, e)) = Len(s) + 1 /\ Len(s) \in Nat
      /\ \A i \in 1 .. Len(s) : Append(s, e)[i] = s[i]
      /\ Append(s, e)[Len(s) + 1] = e
  OBVIOUS
<1> DEFINE t == Append(s, e)
<1> HIDE DEF t
<1>2. /\ DOMAIN t = 1 .. Len(s) + 1 /\ DOMAIN s = 1 .. Len(s)
      /\ \A i \in 1 .. Len(s) : t[i] = s[i]
      /\ t[Len(s) + 1] = e
  BY <1>1 DEF t
<1>3. ToSet(t) = ToSet(s) \cup {e}
  <2>1. DOMAIN t = DOMAIN s \cup {Len(s) + 1}
    BY <1>1, <1>2
  <2> QED BY <1>2, <2>1 DEF ToSet
<1> QED BY <1>1, <1>3 DEF t

\* Those are the elements that were asked for, and no others.
LEMMA ThoseRange ==
  ASSUME NEW T, NEW events \in Seq(T), NEW keep
  PROVE  Those(events, keep) \in Seq(T) /\ ToSet(Those(events, keep)) = ToSet(events) \cap keep
<1>1. PICK f : ThoseTable(events, keep, f) /\ Those(events, keep) = f[Len(events)]
  BY ThoseIs
<1> DEFINE Ok(n) == f[n] \in Seq(T) /\ ToSet(f[n]) = {events[i] : i \in 1 .. n} \cap keep
           bad == {n \in 0 .. Len(events) : ~Ok(n)}
<1>2. \A n \in 0 .. Len(events) : f[n] = ThoseStep(events, keep, f, n)
  BY <1>1 DEF ThoseTable
<1>3. Ok(0)
  <2>1. f[0] = <<>>
    BY <1>2 DEF ThoseStep
  <2> QED BY <2>1 DEF ToSet
<1>4. ASSUME NEW n \in 1 .. Len(events), Ok(n - 1) PROVE Ok(n)
  <2>1. n \in 0 .. Len(events) /\ n # 0 /\ events[n] \in T
    BY <1>4
  <2>2. {events[i] : i \in 1 .. n} = {events[i] : i \in 1 .. n - 1} \cup {events[n]}
    BY <1>4
  <2>3. CASE events[n] \in keep
    <3>1. f[n] = Append(f[n - 1], events[n])
      BY <1>2, <2>1, <2>3 DEF ThoseStep
    <3>2. f[n - 1] \in Seq(T)
      BY <1>4
    <3>3. f[n] \in Seq(T) /\ ToSet(f[n]) = ToSet(f[n - 1]) \cup {events[n]}
      BY <2>1, <3>1, <3>2, AppendRange
    <3> QED BY <1>4, <2>2, <2>3, <3>3
  <2>4. CASE events[n] \notin keep
    <3>1. f[n] = f[n - 1]
      BY <1>2, <2>1, <2>4 DEF ThoseStep
    <3> QED BY <1>4, <2>2, <2>4, <3>1
  <2> QED BY <2>3, <2>4
<1> HIDE DEF Ok
<1>5. bad = {}
  <2> SUFFICES ASSUME bad # {} PROVE FALSE
    OBVIOUS
  <2>1. PICK n \in bad : \A m \in bad : n <= m
    <3> HIDE DEF bad
    <3>1. bad \in SUBSET Nat
      BY DEF bad
    <3> QED BY <3>1, LeastExists
  <2>2. n \in 1 .. Len(events) /\ n - 1 \in 0 .. Len(events)
    BY <1>3, <2>1
  <2>3. n - 1 \notin bad
    BY <2>1, <2>2
  <2> QED BY <1>4, <2>1, <2>2, <2>3
<1>6. Ok(Len(events))
  BY <1>5
<1>7. {events[i] : i \in 1 .. Len(events)} = ToSet(events)
  BY DEF ToSet
<1> QED BY <1>1, <1>6, <1>7 DEF Ok

\* Elements that are not asked for may be appended.
LEMMA ThoseOfPrefix ==
  ASSUME NEW T, NEW past \in Seq(T), NEW news \in Seq(T), NEW keep, NEW keepNow,
         \A i \in 1 .. Len(past) : past[i] \in keep <=> past[i] \in keepNow,
         \A i \in 1 .. Len(news) : news[i] \notin keepNow
  PROVE  Those(past \o news, keepNow) = Those(past, keep)
<1> DEFINE all == past \o news
<1>1. /\ all \in Seq(T) /\ Len(all) = Len(past) + Len(news)
      /\ Len(past) \in Nat /\ Len(news) \in Nat
      /\ \A i \in 1 .. Len(past) : all[i] = past[i]
      /\ \A i \in Len(past) + 1 .. Len(all) : all[i] = news[i - Len(past)]
  OBVIOUS
<1> HIDE DEF all
<1>2. PICK f : ThoseTable(past, keep, f) /\ Those(past, keep) = f[Len(past)]
  BY ThoseIs
<1>3. PICK g : ThoseTable(all, keepNow, g) /\ Those(all, keepNow) = g[Len(all)]
  BY <1>1, ThoseIs
<1> DEFINE Ok(n) == g[n] = IF n <= Len(past) THEN f[n] ELSE f[Len(past)]
           bad == {n \in 0 .. Len(all) : ~Ok(n)}
<1>4. \A n \in 0 .. Len(past) : f[n] = ThoseStep(past, keep, f, n)
  BY <1>2 DEF ThoseTable
<1>5. \A n \in 0 .. Len(all) : g[n] = ThoseStep(all, keepNow, g, n)
  BY <1>3 DEF ThoseTable
<1>6. Ok(0)
  BY <1>1, <1>4, <1>5 DEF ThoseStep
<1>7. ASSUME NEW n \in 1 .. Len(all), Ok(n - 1) PROVE Ok(n)
  <2>1. CASE n <= Len(past)
    <3>1. g[n - 1] = f[n - 1] /\ all[n] = past[n] /\ n \in 1 .. Len(past) /\ n - 1 <= Len(past)
      BY <1>1, <1>7, <2>1
    <3>2. all[n] \in keepNow <=> past[n] \in keep
      BY <3>1
    <3>3. ThoseStep(all, keepNow, g, n) = ThoseStep(past, keep, f, n)
      BY <3>1, <3>2 DEF ThoseStep
    <3> QED BY <1>1, <1>4, <1>5, <2>1, <3>1, <3>3
  <2>2. CASE n > Len(past)
    <3>1. all[n] \notin keepNow
      <4>1. n \in Len(past) + 1 .. Len(all) /\ n - Len(past) \in 1 .. Len(news)
        BY <1>1, <2>2
      <4> QED BY <1>1, <4>1
    <3>2. g[n] = g[n - 1]
      BY <1>1, <1>5, <3>1 DEF ThoseStep
    <3>3. g[n - 1] = f[Len(past)]
      BY <1>1, <1>7, <2>2
    <3> QED BY <1>1, <2>2, <3>2, <3>3
  <2> QED BY <1>1, <2>1, <2>2
<1> HIDE DEF Ok
<1>8. bad = {}
  <2> SUFFICES ASSUME bad # {} PROVE FALSE
    OBVIOUS
  <2>1. PICK n \in bad : \A m \in bad : n <= m
    <3> HIDE DEF bad
    <3>1. bad \in SUBSET Nat
      BY <1>1 DEF bad
    <3> QED BY <3>1, LeastExists
  <2>2. n \in 1 .. Len(all) /\ n - 1 \in 0 .. Len(all)
    BY <1>1, <1>6, <2>1
  <2>3. n - 1 \notin bad
    BY <1>1, <2>1, <2>2
  <2> QED BY <1>7, <2>1, <2>2, <2>3
<1>9. Ok(Len(all))
  BY <1>1, <1>8
<1> QED BY <1>1, <1>2, <1>3, <1>9 DEF Ok, all
\* u is s followed by t.
Joined(s, t, u) ==
  /\ Len(u) = Len(s) + Len(t) /\ Len(s) \in Nat /\ Len(t) \in Nat
  /\ DOMAIN u = 1 .. Len(u) /\ DOMAIN s = 1 .. Len(s) /\ DOMAIN t = 1 .. Len(t)
  /\ \A i \in 1 .. Len(s) : u[i] = s[i]
  /\ \A i \in Len(s) + 1 .. Len(u) : u[i] = t[i - Len(s)]
  /\ \A j \in 1 .. Len(t) : Len(s) + j \in 1 .. Len(u) /\ u[Len(s) + j] = t[j]

LEMMA ConcatShape ==
  ASSUME NEW T, NEW s \in Seq(T), NEW t \in Seq(T)
  PROVE  s \o t \in Seq(T) /\ Joined(s, t, s \o t)
<1>1. /\ s \o t \in Seq(T) /\ Len(s \o t) = Len(s) + Len(t)
      /\ Len(s) \in Nat /\ Len(t) \in Nat
      /\ \A i \in 1 .. Len(s) : (s \o t)[i] = s[i]
      /\ \A i \in Len(s) + 1 .. Len(s \o t) : (s \o t)[i] = t[i - Len(s)]
  OBVIOUS
<1>2. /\ DOMAIN (s \o t) = 1 .. Len(s \o t)
      /\ DOMAIN s = 1 .. Len(s) /\ DOMAIN t = 1 .. Len(t)
  BY <1>1
<1>3. ASSUME NEW j \in 1 .. Len(t)
      PROVE  Len(s) + j \in 1 .. Len(s \o t) /\ (s \o t)[Len(s) + j] = t[j]
  <2>1. /\ Len(s) + j \in Len(s) + 1 .. Len(s \o t) /\ (Len(s) + j) - Len(s) = j
        /\ Len(s) + j \in 1 .. Len(s \o t)
    BY <1>1
  <2> QED BY <1>1, <2>1
<1> QED BY <1>1, <1>2, <1>3 DEF Joined

LEMMA ConcatRange ==
  ASSUME NEW T, NEW s \in Seq(T), NEW t \in Seq(T)
  PROVE  s \o t \in Seq(T) /\ ToSet(s \o t) = ToSet(s) \cup ToSet(t)
<1> DEFINE u == s \o t
<1>1a. u \in Seq(T) /\ Joined(s, t, u)
  BY ConcatShape
<1> HIDE DEF u
<1>1. /\ u \in Seq(T) /\ Len(u) = Len(s) + Len(t) /\ Len(s) \in Nat /\ Len(t) \in Nat
      /\ \A i \in 1 .. Len(s) : u[i] = s[i]
      /\ \A i \in Len(s) + 1 .. Len(u) : u[i] = t[i - Len(s)]
      /\ \A j \in 1 .. Len(t) : Len(s) + j \in 1 .. Len(u) /\ u[Len(s) + j] = t[j]
  BY <1>1a DEF Joined
<1>2. DOMAIN u = 1 .. Len(u) /\ DOMAIN s = 1 .. Len(s) /\ DOMAIN t = 1 .. Len(t)
  BY <1>1a DEF Joined
<1>3. ToSet(u) \subseteq ToSet(s) \cup ToSet(t)
  <2> SUFFICES ASSUME NEW i \in 1 .. Len(u) PROVE u[i] \in ToSet(s) \cup ToSet(t)
    BY <1>2 DEF ToSet
  <2>1. CASE i <= Len(s)
    <3>1. i \in 1 .. Len(s)
      BY <1>1, <2>1
    <3> QED BY <1>1, <1>2, <3>1 DEF ToSet
  <2>2. CASE i > Len(s)
    <3>1. i \in Len(s) + 1 .. Len(u) /\ i - Len(s) \in 1 .. Len(t)
      BY <1>1, <2>2
    <3> QED BY <1>1, <1>2, <3>1 DEF ToSet
  <2> QED BY <1>1, <2>1, <2>2
<1>4. ToSet(s) \subseteq ToSet(u)
  <2> SUFFICES ASSUME NEW i \in 1 .. Len(s) PROVE s[i] \in ToSet(u)
    BY <1>2 DEF ToSet
  <2>1. i \in 1 .. Len(u) /\ u[i] = s[i]
    BY <1>1
  <2> QED BY <1>2, <2>1 DEF ToSet
<1>5. ToSet(t) \subseteq ToSet(u)
  <2> SUFFICES ASSUME NEW i \in 1 .. Len(t) PROVE t[i] \in ToSet(u)
    BY <1>2 DEF ToSet
  <2>1. Len(s) + i \in 1 .. Len(u) /\ u[Len(s) + i] = t[i]
    BY <1>1
  <2> QED BY <1>2, <2>1 DEF ToSet
<1> QED BY <1>1, <1>3, <1>4, <1>5 DEF u

-----------------------------------------------------------------------------
(* Sums *)

\* A sum is computed element by element.
SumStep(f, t, S) == IF S = {} THEN 0 ELSE LET x == CHOOSE x \in S : TRUE IN f[x] + t[S \ {x}]
SumTable(f, S, t) == t = [T \in SUBSET S |-> SumStep(f, t, T)]

\* The sum is read off its table.
LEMMA SumIsTable ==
  ASSUME NEW f, NEW S
  PROVE  SumFunctionOnSet(f, S) = (CHOOSE t : SumTable(f, S, t))[S]
BY DEF SumFunctionOnSet, FoldFunctionOnSet, MapThenFoldSet, SumTable, SumStep

\* A finite set that has some property contains a smallest such set.
LEMMA SmallestSubset ==
  ASSUME NEW S, IsFiniteSet(S), NEW Bad, Bad \in SUBSET SUBSET S, Bad # {}
  PROVE  \E T \in Bad : \A x \in T : T \ {x} \notin Bad
<1> DEFINE sizes == {Cardinality(T) : T \in Bad}
<1>1. \A T \in Bad : IsFiniteSet(T) /\ Cardinality(T) \in Nat
  BY FS_Subset, FS_CardinalityType
<1>2. PICK n \in sizes : \A m \in sizes : n <= m
  <2>1. sizes \in SUBSET Nat /\ sizes # {}
    BY <1>1
  <2> HIDE DEF sizes
  <2> QED BY <2>1, LeastExists
<1>3. PICK T \in Bad : Cardinality(T) = n
  BY <1>2
<1>4. ASSUME NEW x \in T, T \ {x} \in Bad PROVE FALSE
  <2>1. Cardinality(T \ {x}) = Cardinality(T) - 1
    BY <1>1, <1>3, FS_RemoveElement
  <2>2. n <= Cardinality(T \ {x}) /\ n \in Nat
    BY <1>1, <1>2, <1>3, <1>4
  <2> QED BY <1>3, <2>1, <2>2
<1> QED BY <1>3, <1>4

\* Tables agree where both are defined and their functions agree.
LEMMA SumTablesAgree ==
  ASSUME NEW f, NEW g, NEW A, NEW B, NEW t, NEW u, SumTable(f, A, t), SumTable(g, B, u),
         NEW S, S \subseteq A, S \subseteq B, IsFiniteSet(S), \A x \in S : f[x] = g[x]
  PROVE  t[S] = u[S]
<1> DEFINE Bad == {T \in SUBSET S : t[T] # u[T]}
<1>1. SUFFICES ASSUME Bad # {} PROVE FALSE
  BY <1>1
<1>2. PICK T \in Bad : \A x \in T : T \ {x} \notin Bad
  <2>1. Bad \in SUBSET SUBSET S
    OBVIOUS
  <2> HIDE DEF Bad
  <2> QED BY <1>1, <2>1, SmallestSubset
<1>3. t[T] = SumStep(f, t, T) /\ u[T] = SumStep(g, u, T)
  <2>1. T \in SUBSET A /\ T \in SUBSET B
    OBVIOUS
  <2> QED BY <2>1 DEF SumTable
<1>4. SumStep(f, t, T) = SumStep(g, u, T)
  <2>1. CASE T = {}
    BY <2>1 DEF SumStep
  <2>2. CASE T # {}
    <3> DEFINE x == CHOOSE x \in T : TRUE
    <3>1. x \in T
      BY <2>2
    <3> HIDE DEF x
    <3>2. T \ {x} \in SUBSET S /\ t[T \ {x}] = u[T \ {x}]
      BY <1>2, <3>1
    <3>3. f[x] = g[x]
      BY <3>1
    <3> QED BY <2>2, <3>2, <3>3 DEF SumStep, x
  <2> QED BY <2>1, <2>2
<1> QED BY <1>2, <1>3, <1>4

\* Every finite set has a table.
LEMMA SumTableExists ==
  ASSUME NEW f, NEW S, IsFiniteSet(S)
  PROVE  \E t : SumTable(f, S, t)
<1> DEFINE Bad == {T \in SUBSET S : ~\E t : SumTable(f, T, t)}
<1>1. SUFFICES ASSUME Bad # {} PROVE FALSE
  BY <1>1
<1>2. PICK T \in Bad : \A x \in T : T \ {x} \notin Bad
  <2>1. Bad \in SUBSET SUBSET S
    OBVIOUS
  <2> HIDE DEF Bad
  <2> QED BY <1>1, <2>1, SmallestSubset
<1>3. T \subseteq S /\ IsFiniteSet(T)
  BY FS_Subset
<1> DEFINE tab(x) == CHOOSE t : SumTable(f, T \ {x}, t)
<1>4. \A x \in T : SumTable(f, T \ {x}, tab(x))
  BY <1>2
<1> HIDE DEF tab
<1> DEFINE out(U) == CHOOSE x \in T : x \notin U
           first == CHOOSE x \in T : TRUE
           t == [U \in SUBSET T |->
                   IF U # T THEN tab(out(U))[U]
                   ELSE IF T = {} THEN 0 ELSE f[first] + tab(first)[T \ {first}]]
<1>5. ASSUME NEW U \in SUBSET T, U # T
      PROVE  /\ out(U) \in T /\ out(U) \notin U
             /\ \A x \in T : x \notin U => tab(x)[U] = t[U]
  <2>1. out(U) \in T /\ out(U) \notin U
    BY <1>5
  <2>2. t[U] = tab(out(U))[U]
    BY <1>5
  <2> HIDE DEF out, t
  <2>3. ASSUME NEW x \in T, x \notin U PROVE tab(x)[U] = tab(out(U))[U]
    <3>1. U \subseteq T \ {x} /\ U \subseteq T \ {out(U)} /\ IsFiniteSet(U)
      BY <1>3, <2>1, <2>3, FS_Subset
    <3> DEFINE o == out(U)
               u == tab(x)
               v == tab(o)
    <3>2. SumTable(f, T \ {x}, u) /\ SumTable(f, T \ {o}, v)
      BY <1>4, <2>1
    <3> HIDE DEF o, u, v
    <3>3. u[U] = v[U]
      BY <3>1, <3>2, SumTablesAgree DEF o
    <3> QED BY <3>3 DEF o, u, v
  <2> QED BY <2>1, <2>2, <2>3
<1>6. ASSUME NEW U \in SUBSET T PROVE t[U] = SumStep(f, t, U)
  <2>1. CASE U = T /\ T = {}
    BY <2>1 DEF SumStep
  <2>2. CASE U = T /\ T # {}
    <3>1. first \in T
      BY <2>2
    <3>2. t[T] = f[first] + tab(first)[T \ {first}]
      BY <2>2
    <3>3. SumStep(f, t, T) = f[first] + t[T \ {first}]
      BY <2>2 DEF SumStep
    <3> HIDE DEF first, t
    <3>4. tab(first)[T \ {first}] = t[T \ {first}]
      <4>1. T \ {first} \in SUBSET T /\ T \ {first} # T /\ first \notin T \ {first}
        BY <3>1
      <4> QED BY <1>5, <3>1, <4>1
    <3> QED BY <2>2, <3>2, <3>3, <3>4
  <2>3. CASE U # T
    <3> DEFINE o == out(U)
    <3>1. o \in T /\ o \notin U /\ tab(o)[U] = t[U]
      BY <1>5, <2>3
    <3> HIDE DEF t, out, o
    <3>2. tab(o)[U] = SumStep(f, tab(o), U)
      <4>1. U \in SUBSET (T \ {o})
        BY <3>1
      <4> QED BY <1>4, <3>1, <4>1 DEF SumTable
    <3>3. ASSUME NEW x \in U PROVE tab(o)[U \ {x}] = t[U \ {x}]
      <4>1. U \ {x} \in SUBSET T /\ U \ {x} # T /\ o \notin U \ {x}
        BY <3>1
      <4> QED BY <1>5, <3>1, <4>1
    <3>4. SumStep(f, tab(o), U) = SumStep(f, t, U)
      <4>1. CASE U = {}
        BY <4>1 DEF SumStep
      <4>2. CASE U # {}
        <5> DEFINE x == CHOOSE x \in U : TRUE
        <5>1. x \in U
          BY <4>2
        <5> HIDE DEF x
        <5>2. tab(o)[U \ {x}] = t[U \ {x}]
          BY <3>3, <5>1
        <5> QED BY <4>2, <5>2 DEF SumStep, x
      <4> QED BY <4>1, <4>2
    <3> QED BY <3>1, <3>2, <3>4
  <2> QED BY <2>1, <2>2, <2>3
<1>7. SumTable(f, T, t)
  <2>1. t = [U \in SUBSET T |-> t[U]]
    OBVIOUS
  <2> HIDE DEF t
  <2> QED BY <1>6, <2>1 DEF SumTable
<1> QED BY <1>2, <1>7

\* The sum over a finite set, unfolded once
LEMMA SumUnfold ==
  ASSUME NEW f, NEW S, IsFiniteSet(S)
  PROVE  /\ S = {} => SumFunctionOnSet(f, S) = 0
         /\ S # {} => \E x \in S :
              SumFunctionOnSet(f, S) = f[x] + SumFunctionOnSet(f, S \ {x})
<1> DEFINE tab(T) == CHOOSE t : SumTable(f, T, t)
<1>1. \A T : IsFiniteSet(T) => SumTable(f, T, tab(T))
  BY SumTableExists
<1>2. \A T : SumFunctionOnSet(f, T) = tab(T)[T]
  BY SumIsTable
<1> HIDE DEF tab
<1>3. tab(S)[S] = SumStep(f, tab(S), S)
  BY <1>1 DEF SumTable
<1>4. ASSUME NEW x \in S PROVE tab(S)[S \ {x}] = tab(S \ {x})[S \ {x}]
  <2>1. IsFiniteSet(S \ {x}) /\ S \ {x} \subseteq S
    BY FS_Subset
  <2> QED BY <1>1, <2>1, SumTablesAgree
<1>5. CASE S = {}
  BY <1>2, <1>3, <1>5 DEF SumStep
<1>6. CASE S # {}
  <2> DEFINE x == CHOOSE x \in S : TRUE
  <2>1. x \in S
    BY <1>6
  <2>2. tab(S)[S] = f[x] + tab(S)[S \ {x}]
    BY <1>3, <1>6 DEF SumStep
  <2> HIDE DEF x
  <2> QED BY <1>2, <1>4, <1>6, <2>1, <2>2
<1> QED BY <1>5, <1>6

\* A finite sum of integers is an integer.
LEMMA SumIsInt ==
  ASSUME NEW f, NEW S, IsFiniteSet(S), \A x \in S : f[x] \in Int
  PROVE  SumFunctionOnSet(f, S) \in Int
<1> DEFINE Sum(T) == SumFunctionOnSet(f, T)
           Bad == {T \in SUBSET S : Sum(T) \notin Int}
<1>1. SUFFICES ASSUME Bad # {} PROVE FALSE
  BY <1>1
<1>2. PICK T \in Bad : \A x \in T : T \ {x} \notin Bad
  <2>1. Bad \in SUBSET SUBSET S
    OBVIOUS
  <2> HIDE DEF Bad
  <2> QED BY <1>1, <2>1, SmallestSubset
<1>3. IsFiniteSet(T) /\ T \subseteq S
  BY FS_Subset
<1>4. (T = {} => Sum(T) = 0) /\ (T # {} => \E x \in T : Sum(T) = f[x] + Sum(T \ {x}))
  BY <1>3, SumUnfold
<1> HIDE DEF Sum
<1>5. \A x \in T : Sum(T \ {x}) \in Int /\ f[x] \in Int
  BY <1>2, <1>3
<1>6. T # {} => Sum(T) \in Int
  <2> SUFFICES ASSUME T # {} PROVE Sum(T) \in Int
    OBVIOUS
  <2>1. PICK x \in T : Sum(T) = f[x] + Sum(T \ {x})
    BY <1>4
  <2> QED BY <1>5, <2>1
<1> QED BY <1>2, <1>4, <1>6

\* The order of a sum does not matter: any element can be taken out first.
LEMMA SumRemove ==
  ASSUME NEW f, NEW S, IsFiniteSet(S), \A x \in S : f[x] \in Int
  PROVE  /\ SumFunctionOnSet(f, S) \in Int
         /\ \A x \in S : SumFunctionOnSet(f, S) = f[x] + SumFunctionOnSet(f, S \ {x})
<1> DEFINE Sum(T) == SumFunctionOnSet(f, T)
           Ok(T) == Sum(T) \in Int /\ \A x \in T : Sum(T) = f[x] + Sum(T \ {x})
           Bad == {T \in SUBSET S : ~Ok(T)}
<1>1. SUFFICES ASSUME Bad # {} PROVE FALSE
  BY <1>1
<1>2. PICK T \in Bad : \A x \in T : T \ {x} \notin Bad
  <2>1. Bad \in SUBSET SUBSET S
    OBVIOUS
  <2> HIDE DEF Bad
  <2> QED BY <1>1, <2>1, SmallestSubset
<1>3. IsFiniteSet(T) /\ T \subseteq S
  BY FS_Subset
<1>4. \A x \in T : Ok(T \ {x})
  BY <1>2
<1>5. T # {} => \E y \in T : Sum(T) = f[y] + Sum(T \ {y})
  BY <1>3, SumUnfold
<1>6. T = {} => Sum(T) = 0
  BY <1>3, SumUnfold
<1> HIDE DEF Sum
<1>7. CASE T = {}
  BY <1>2, <1>6, <1>7
<1>8. CASE T # {}
  <2>1. PICK y \in T : Sum(T) = f[y] + Sum(T \ {y})
    BY <1>5, <1>8
  <2>2. Sum(T) \in Int
    BY <1>3, <1>4, <2>1
  <2>3. ASSUME NEW x \in T, x # y PROVE Sum(T) = f[x] + Sum(T \ {x})
    <3>1. /\ Sum(T \ {y}) = f[x] + Sum((T \ {y}) \ {x})
          /\ Sum(T \ {x}) = f[y] + Sum((T \ {x}) \ {y})
      BY <1>4, <2>3
    <3>2. (T \ {y}) \ {x} = (T \ {x}) \ {y}
      OBVIOUS
    <3> DEFINE rest == Sum((T \ {x}) \ {y})
    <3>3. rest \in Int
      <4>1. IsFiniteSet((T \ {x}) \ {y}) /\ (T \ {x}) \ {y} \subseteq S
        BY <1>3, FS_Subset
      <4> QED BY <4>1, SumIsInt DEF Sum
    <3>4. f[x] \in Int /\ f[y] \in Int
      BY <1>3
    <3>5. Sum(T) = f[y] + (f[x] + rest) /\ Sum(T \ {x}) = f[y] + rest
      BY <2>1, <3>1, <3>2
    <3> HIDE DEF rest
    <3> QED BY <3>3, <3>4, <3>5
  <2> QED BY <1>2, <2>1, <2>2, <2>3
<1> QED BY <1>7, <1>8

\* Functions that agree on a set have one sum over it.
LEMMA SumSame ==
  ASSUME NEW f, NEW g, NEW S, IsFiniteSet(S), \A x \in S : f[x] = g[x]
  PROVE  SumFunctionOnSet(f, S) = SumFunctionOnSet(g, S)
<1> DEFINE t == CHOOSE t : SumTable(f, S, t)
           u == CHOOSE u : SumTable(g, S, u)
<1>1. SumTable(f, S, t) /\ SumTable(g, S, u)
  BY SumTableExists
<1>2. SumFunctionOnSet(f, S) = t[S] /\ SumFunctionOnSet(g, S) = u[S]
  BY SumIsTable
<1> HIDE DEF t, u
<1>3. t[S] = u[S]
  BY <1>1, SumTablesAgree
<1> QED BY <1>2, <1>3

\* A sum changes by what one element changes.
LEMMA SumChange ==
  ASSUME NEW f, NEW g, NEW S, IsFiniteSet(S), \A y \in S : f[y] \in Int /\ g[y] \in Int,
         NEW x \in S, \A y \in S \ {x} : f[y] = g[y]
  PROVE  SumFunctionOnSet(g, S) = SumFunctionOnSet(f, S) - f[x] + g[x]
<1> DEFINE F == SumFunctionOnSet(f, S)
           G == SumFunctionOnSet(g, S)
           R == SumFunctionOnSet(f, S \ {x})
<1>1. IsFiniteSet(S \ {x}) /\ \A y \in S \ {x} : f[y] \in Int
  BY FS_Subset
<1>2. F = f[x] + R
  BY SumRemove
<1>3. G = g[x] + SumFunctionOnSet(g, S \ {x})
  BY SumRemove
<1>4. R = SumFunctionOnSet(g, S \ {x})
  BY <1>1, SumSame
<1>5. R \in Int /\ f[x] \in Int /\ g[x] \in Int
  BY <1>1, SumIsInt
<1> HIDE DEF F, G, R
<1>6. G = F - f[x] + g[x]
  BY <1>2, <1>3, <1>4, <1>5
<1> QED BY <1>6 DEF F, G

\* A sum over a prefix, extended by one
LEMMA SumExtend ==
  ASSUME NEW f, NEW n \in Nat \ {0}, \A i \in 1 .. n : f[i] \in Int
  PROVE  /\ SumFunctionOnSet(f, 1 .. n) = f[n] + SumFunctionOnSet(f, 1 .. n - 1)
         /\ SumFunctionOnSet(f, 1 .. n) \in Int /\ SumFunctionOnSet(f, 1 .. n - 1) \in Int
<1>1. IsFiniteSet(1 .. n) /\ IsFiniteSet(1 .. n - 1) /\ n \in 1 .. n
  BY FS_Interval
<1>2. (1 .. n) \ {n} = 1 .. n - 1 /\ \A i \in 1 .. n - 1 : f[i] \in Int
  OBVIOUS
<1>3. SumFunctionOnSet(f, 1 .. n) = f[n] + SumFunctionOnSet(f, (1 .. n) \ {n})
  BY <1>1, SumRemove
<1> QED BY <1>1, <1>2, <1>3, SumIsInt

\* The empty sum
LEMMA SumNothing == \A f : SumFunctionOnSet(f, {}) = 0
<1>1. IsFiniteSet({})
  BY FS_EmptySet
<1> QED BY <1>1, SumUnfold

\* A sum of differences is the difference of the sums.
LEMMA SumMinus ==
  ASSUME NEW f, NEW g, NEW h, NEW n \in Nat,
         \A i \in 1 .. n : f[i] \in Int /\ g[i] \in Int /\ h[i] = f[i] - g[i]
  PROVE  SumFunctionOnSet(h, 1 .. n) = SumFunctionOnSet(f, 1 .. n) - SumFunctionOnSet(g, 1 .. n)
<1> DEFINE Sum(k, m) == SumFunctionOnSet(k, 1 .. m)
           bad == {m \in 0 .. n : Sum(h, m) # Sum(f, m) - Sum(g, m)}
<1>1. SUFFICES ASSUME bad # {} PROVE FALSE
  BY <1>1
<1>2. PICK m \in bad : \A k \in bad : m <= k
  <2>1. bad \in SUBSET Nat
    OBVIOUS
  <2> HIDE DEF bad
  <2> QED BY <1>1, <2>1, LeastExists
<1>3. CASE m = 0
  <2>1. 1 .. m = {}
    BY <1>3
  <2>2. Sum(h, m) = 0 /\ Sum(f, m) = 0 /\ Sum(g, m) = 0
    BY <2>1, SumNothing
  <2> QED BY <1>2, <2>2
<1>4. CASE m # 0
  <2>1. m \in Nat \ {0} /\ m - 1 \in 0 .. n /\ m - 1 \notin bad /\ m \in 1 .. n
    BY <1>2, <1>4
  <2>2. \A i \in 1 .. m : f[i] \in Int /\ g[i] \in Int /\ h[i] \in Int
    BY <2>1
  <2>3. /\ Sum(h, m) = h[m] + Sum(h, m - 1)
        /\ Sum(f, m) = f[m] + Sum(f, m - 1) /\ Sum(f, m - 1) \in Int
        /\ Sum(g, m) = g[m] + Sum(g, m - 1) /\ Sum(g, m - 1) \in Int
    BY <2>1, <2>2, SumExtend
  <2> HIDE DEF Sum
  <2>4. Sum(h, m - 1) = Sum(f, m - 1) - Sum(g, m - 1)
    BY <2>1
  <2> QED BY <1>2, <2>1, <2>2, <2>3, <2>4
<1> QED BY <1>3, <1>4

-----------------------------------------------------------------------------
(* Lots *)

IsSeq(s) == s \in Seq(ToSet(s))
GoodLots(lots) ==
  /\ IsSeq(lots)
  /\ \A i \in DOMAIN lots : lots[i].quantity \in Nat \ {0} /\ lots[i].cost \in Nat \ {0}

QuantityOf(lots) == [i \in DOMAIN lots |-> lots[i].quantity]
CostOf(lots) == [i \in DOMAIN lots |-> lots[i].cost]

\* Such a sequence has a finite domain, and its elements are in its set.
LEMMA SeqShape ==
  ASSUME NEW s, IsSeq(s)
  PROVE  /\ Len(s) \in Nat /\ DOMAIN s = 1 .. Len(s) /\ IsFiniteSet(DOMAIN s)
         /\ \A i \in DOMAIN s : s[i] \in ToSet(s)
<1>1. s \in Seq(ToSet(s))
  BY DEF IsSeq
<1>2. Len(s) \in Nat /\ DOMAIN s = 1 .. Len(s) /\ \A i \in DOMAIN s : s[i] \in ToSet(s)
  BY <1>1
<1>3. IsFiniteSet(1 .. Len(s))
  BY <1>2, FS_Interval
<1> QED BY <1>2, <1>3

\* The quantity and the cost of lots are sums over their places.
LEMMA LotSums ==
  ASSUME NEW lots, GoodLots(lots)
  PROVE  /\ LotQuantity(lots) = SumFunctionOnSet(QuantityOf(lots), 1 .. Len(lots))
         /\ LotCost(lots) = SumFunctionOnSet(CostOf(lots), 1 .. Len(lots))
         /\ LotQuantity(lots) \in Int /\ LotCost(lots) \in Int
<1>1. DOMAIN lots = 1 .. Len(lots) /\ IsFiniteSet(1 .. Len(lots))
  BY SeqShape DEF GoodLots
<1>2. /\ LotQuantity(lots) = SumFunctionOnSet(QuantityOf(lots), 1 .. Len(lots))
      /\ LotCost(lots) = SumFunctionOnSet(CostOf(lots), 1 .. Len(lots))
  BY <1>1 DEF LotQuantity, LotCost, SumFunction, QuantityOf, CostOf
<1>3. \A i \in 1 .. Len(lots) : QuantityOf(lots)[i] \in Int /\ CostOf(lots)[i] \in Int
  BY <1>1 DEF QuantityOf, CostOf, GoodLots
<1> QED BY <1>1, <1>2, <1>3, SumIsInt

\* What is older than lot i is the sum of the lots before it.
LEMMA LotsBefore ==
  ASSUME NEW lots, GoodLots(lots), NEW i \in DOMAIN lots
  PROVE  LotQuantity(SubSeq(lots, 1, i - 1)) = SumFunctionOnSet(QuantityOf(lots), 1 .. i - 1)
<1> DEFINE old == SubSeq(lots, 1, i - 1)
<1>1. Len(lots) \in Nat /\ DOMAIN lots = 1 .. Len(lots) /\ lots \in Seq(ToSet(lots))
  BY SeqShape DEF GoodLots, IsSeq
<1>2. i \in 1 .. Len(lots) /\ i - 1 \in 0 .. Len(lots)
  BY <1>1
<1>3. DOMAIN old = 1 .. i - 1 /\ \A j \in 1 .. i - 1 : old[j] = lots[j]
  BY <1>1, <1>2
<1> HIDE DEF old
<1>4. LotQuantity(old) = SumFunctionOnSet(QuantityOf(old), 1 .. i - 1)
  BY <1>3 DEF LotQuantity, SumFunction, QuantityOf
<1>5. \A j \in 1 .. i - 1 : QuantityOf(old)[j] = QuantityOf(lots)[j]
  <2>1. \A j \in 1 .. i - 1 : j \in DOMAIN lots
    BY <1>1, <1>2
  <2> QED BY <1>3, <2>1 DEF QuantityOf
<1>6. IsFiniteSet(1 .. i - 1)
  BY <1>2, FS_Interval
<1> QED BY <1>4, <1>5, <1>6, SumSame DEF old

\* A new lot adds its quantity and its cost.
LEMMA LotAppend ==
  ASSUME NEW lots, GoodLots(lots), NEW lot,
         lot.quantity \in Nat \ {0}, lot.cost \in Nat \ {0}
  PROVE  /\ GoodLots(Append(lots, lot)) /\ Append(lots, lot) # <<>>
         /\ LotQuantity(Append(lots, lot)) = LotQuantity(lots) + lot.quantity
         /\ LotCost(Append(lots, lot)) = LotCost(lots) + lot.cost
<1> DEFINE more == Append(lots, lot)
           n == Len(lots)
<1>1. n \in Nat /\ DOMAIN lots = 1 .. n /\ lots \in Seq(ToSet(lots))
  BY SeqShape DEF GoodLots, IsSeq
<1>2. lots \in Seq(ToSet(lots) \cup {lot})
  BY <1>1
<1>3. more \in Seq(ToSet(lots) \cup {lot}) /\ ToSet(more) = ToSet(lots) \cup {lot}
  BY <1>2, AppendRange
<1>4. /\ Len(more) = n + 1 /\ DOMAIN more = 1 .. n + 1 /\ more[n + 1] = lot
      /\ \A i \in 1 .. n : more[i] = lots[i]
  BY <1>1, <1>2
<1> HIDE DEF more, n
<1>5. GoodLots(more)
  <2>1. IsSeq(more)
    BY <1>3 DEF IsSeq
  <2>2. \A i \in 1 .. n + 1 : i = n + 1 \/ i \in 1 .. n
    BY <1>1
  <2> QED BY <1>1, <1>4, <2>1, <2>2 DEF GoodLots
<1>6. ASSUME NEW f, NEW g, \A i \in 1 .. n + 1 : g[i] \in Int, \A i \in 1 .. n : f[i] = g[i]
      PROVE  SumFunctionOnSet(g, 1 .. n + 1) = SumFunctionOnSet(f, 1 .. n) + g[n + 1]
  <2>1. n + 1 \in Nat \ {0} /\ (n + 1) - 1 = n /\ n + 1 \in 1 .. n + 1
    BY <1>1
  <2>2. /\ SumFunctionOnSet(g, 1 .. n + 1) = g[n + 1] + SumFunctionOnSet(g, 1 .. n)
        /\ SumFunctionOnSet(g, 1 .. n) \in Int
    BY <1>6, <2>1, SumExtend
  <2>3. IsFiniteSet(1 .. n)
    BY <1>1, FS_Interval
  <2>4. SumFunctionOnSet(f, 1 .. n) = SumFunctionOnSet(g, 1 .. n)
    BY <1>6, <2>3, SumSame
  <2> QED BY <1>6, <2>1, <2>2, <2>4
<1>7. LotQuantity(more) = LotQuantity(lots) + lot.quantity
  <2> DEFINE f == QuantityOf(lots)
             g == QuantityOf(more)
  <2>1. /\ \A i \in 1 .. n + 1 : g[i] = more[i].quantity /\ g[i] \in Int
        /\ \A i \in 1 .. n : f[i] = g[i]
    BY <1>1, <1>4, <1>5 DEF QuantityOf, GoodLots
  <2>2. LotQuantity(lots) = SumFunctionOnSet(f, 1 .. n)
    BY LotSums DEF n
  <2>3. LotQuantity(more) = SumFunctionOnSet(g, 1 .. n + 1)
    BY <1>4, <1>5, LotSums
  <2>4. g[n + 1] = lot.quantity
    BY <1>1, <1>4, <2>1
  <2> HIDE DEF f, g
  <2> QED BY <1>6, <2>1, <2>2, <2>3, <2>4
<1>8. LotCost(more) = LotCost(lots) + lot.cost
  <2> DEFINE f == CostOf(lots)
             g == CostOf(more)
  <2>1. /\ \A i \in 1 .. n + 1 : g[i] = more[i].cost /\ g[i] \in Int
        /\ \A i \in 1 .. n : f[i] = g[i]
    BY <1>1, <1>4, <1>5 DEF CostOf, GoodLots
  <2>2. LotCost(lots) = SumFunctionOnSet(f, 1 .. n)
    BY LotSums DEF n
  <2>3. LotCost(more) = SumFunctionOnSet(g, 1 .. n + 1)
    BY <1>4, <1>5, LotSums
  <2>4. g[n + 1] = lot.cost
    BY <1>1, <1>4, <2>1
  <2> HIDE DEF f, g
  <2> QED BY <1>6, <2>1, <2>2, <2>3, <2>4
<1>9. more # <<>>
  BY <1>1, <1>4
<1> QED BY <1>5, <1>7, <1>8, <1>9 DEF more

-----------------------------------------------------------------------------
(* Sales *)

TakenOf(lots, q) == [i \in DOMAIN lots |-> Taken(lots, q, i)]
TakenCostOf(lots, q) == [i \in DOMAIN lots |-> TakenCost(lots, q, i)]

\* Exact division, and one that rounds down, by a positive number
LEMMA DivFacts ==
  ASSUME NEW a \in Nat, NEW t \in Nat, NEW c \in Nat \ {0}, t <= c, a > 0
  PROVE  /\ (a * t) \div c \in Nat
         /\ t = c => (a * t) \div c = a
         /\ t < c => (a * t) \div c < a
<1> DEFINE p == a * t
           d == p \div c
<1>1. p \in Nat
  OBVIOUS
<1>2. d \in Int /\ c * d <= p /\ p < c * d + c
  BY <1>1
<1>3. d >= 0
  <2>1. ASSUME d < 0 PROVE FALSE
    <3>1. d + 1 <= 0
      BY <1>2, <2>1
    <3>2. c * (d + 1) <= 0
      BY <1>2, <3>1
    <3>3. c * (d + 1) = c * d + c
      BY <1>2
    <3> QED BY <1>1, <1>2, <3>2, <3>3
  <2> QED BY <1>2, <2>1
<1>4. t = c => d = a
  <2> SUFFICES ASSUME t = c PROVE d = a
    OBVIOUS
  <2>1. c * d <= c * a /\ c * a < c * (d + 1)
    BY <1>2
  <2> HIDE DEF d
  <2>2. ASSUME d > a PROVE FALSE
    <3>1. c * d >= c * (a + 1) /\ c * (a + 1) = c * a + c
      BY <1>2, <2>2
    <3> QED BY <1>2, <2>1, <3>1
  <2>3. ASSUME d < a PROVE FALSE
    <3>1. c * (d + 1) <= c * a
      BY <1>2, <2>3
    <3> QED BY <1>2, <2>1, <3>1
  <2> QED BY <1>2, <2>2, <2>3
<1>5. t < c => d < a
  <2> SUFFICES ASSUME t < c, d >= a PROVE FALSE
    BY <1>2
  <2>1. a * t < a * c
    OBVIOUS
  <2> HIDE DEF d
  <2>2. c * d >= c * a /\ c * a = a * c
    BY <1>2
  <2> QED BY <1>2, <2>1, <2>2 DEF p
<1> QED BY <1>2, <1>3, <1>4, <1>5

\* A sale takes from a lot what the older ones leave to it, at most the whole lot, and
\* of its cost the same share: all of it exactly if it takes the whole lot.
LEMMA TakenFacts ==
  ASSUME NEW lots, GoodLots(lots), NEW q \in Nat \ {0}, NEW i \in DOMAIN lots
  PROVE  /\ Taken(lots, q, i) \in Nat /\ Taken(lots, q, i) <= lots[i].quantity
         /\ TakenCost(lots, q, i) \in Nat
         /\ Taken(lots, q, i) = lots[i].quantity => TakenCost(lots, q, i) = lots[i].cost
         /\ Taken(lots, q, i) < lots[i].quantity => TakenCost(lots, q, i) < lots[i].cost
         /\ LET older == SumFunctionOnSet(QuantityOf(lots), 1 .. i - 1)
            IN  /\ older \in Int
                /\ older >= q => Taken(lots, q, i) = 0
                /\ older < q /\ q - older <= lots[i].quantity => Taken(lots, q, i) = q - older
                /\ older < q /\ q - older > lots[i].quantity =>
                     Taken(lots, q, i) = lots[i].quantity
<1> DEFINE older == SumFunctionOnSet(QuantityOf(lots), 1 .. i - 1)
           l == lots[i].quantity
<1>1. l \in Nat \ {0} /\ lots[i].cost \in Nat \ {0}
  BY DEF GoodLots
<1>2. older \in Int
  <2>1. Len(lots) \in Nat /\ DOMAIN lots = 1 .. Len(lots)
    BY SeqShape DEF GoodLots
  <2>2. IsFiniteSet(1 .. i - 1)
    BY <2>1, FS_Interval
  <2>3. \A j \in 1 .. i - 1 : QuantityOf(lots)[j] \in Int
    <3>1. \A j \in 1 .. i - 1 : j \in DOMAIN lots
      BY <2>1
    <3> QED BY <3>1 DEF QuantityOf, GoodLots
  <2> QED BY <2>2, <2>3, SumIsInt
<1>3. Taken(lots, q, i) = IF older >= q THEN 0 ELSE Min({q - older, l})
  BY LotsBefore DEF Taken
<1> HIDE DEF older, l
<1>4. ASSUME older < q PROVE Min({q - older, l}) = IF q - older <= l THEN q - older ELSE l
  <2> DEFINE m == IF q - older <= l THEN q - older ELSE l
             S == {q - older, l}
  <2>1. /\ m \in S /\ m \in Int /\ \A y \in S : y \in Int /\ m <= y
    BY <1>1, <1>2
  <2>2. \A x \in S : (\A y \in S : x <= y) => x = m
    BY <2>1
  <2> HIDE DEF m, S
  <2>3. Min(S) = m
    BY <2>1, <2>2 DEF Min
  <2> QED BY <2>3 DEF m, S
<1> DEFINE t == Taken(lots, q, i)
<1>5. /\ older >= q => t = 0
      /\ older < q /\ q - older <= l => t = q - older
      /\ older < q /\ q - older > l => t = l
  BY <1>1, <1>2, <1>3, <1>4
<1>6. TakenCost(lots, q, i) = (lots[i].cost * t) \div l
  BY DEF TakenCost, l
<1> HIDE DEF t
<1>7. t \in Nat /\ t <= l
  BY <1>1, <1>2, <1>5
<1>8. /\ TakenCost(lots, q, i) \in Nat
      /\ t = l => TakenCost(lots, q, i) = lots[i].cost
      /\ t < l => TakenCost(lots, q, i) < lots[i].cost
  BY <1>1, <1>6, <1>7, DivFacts
<1> QED BY <1>2, <1>5, <1>7, <1>8 DEF t, l, older

\* A sale takes its whole quantity, if it is there.
LEMMA SaleTakesAll ==
  ASSUME NEW lots, GoodLots(lots), NEW q \in Nat \ {0}, q <= LotQuantity(lots)
  PROVE  SumFunctionOnSet(TakenOf(lots, q), 1 .. Len(lots)) = q
<1> DEFINE n == Len(lots)
           Have(m) == SumFunctionOnSet(QuantityOf(lots), 1 .. m)
           Took(m) == SumFunctionOnSet(TakenOf(lots, q), 1 .. m)
           Ok(m) == Took(m) = IF Have(m) >= q THEN q ELSE Have(m)
           bad == {m \in 0 .. n : ~Ok(m)}
<1>1. n \in Nat /\ DOMAIN lots = 1 .. n
  BY SeqShape DEF GoodLots
<1>2. \A i \in 1 .. n : QuantityOf(lots)[i] = lots[i].quantity /\ lots[i].quantity \in Nat \ {0}
  BY <1>1 DEF GoodLots, QuantityOf
<1>3. \A i \in 1 .. n : TakenOf(lots, q)[i] = Taken(lots, q, i) /\ Taken(lots, q, i) \in Nat
  BY <1>1, TakenFacts DEF TakenOf
<1>4. bad = {}
  <2> SUFFICES ASSUME bad # {} PROVE FALSE
    OBVIOUS
  <2>1. PICK m \in bad : \A k \in bad : m <= k
    <3>1. bad \in SUBSET Nat
      BY <1>1
    <3> HIDE DEF bad
    <3> QED BY <3>1, LeastExists
  <2>2. CASE m = 0
    <3>1. 1 .. m = {}
      BY <2>2
    <3>2. Have(m) = 0 /\ Took(m) = 0
      BY <3>1, SumNothing
    <3> QED BY <2>1, <3>2
  <2>3. CASE m # 0
    <3>1. /\ m \in Nat \ {0} /\ m - 1 \in 0 .. n /\ m \in 1 .. n /\ Ok(m - 1) /\ ~Ok(m)
          /\ \A i \in 1 .. m : i \in 1 .. n
      BY <1>1, <2>1, <2>3
    <3>2. /\ Have(m) = QuantityOf(lots)[m] + Have(m - 1) /\ Have(m - 1) \in Int
          /\ Took(m) = TakenOf(lots, q)[m] + Took(m - 1) /\ Took(m - 1) \in Int
      <4> DEFINE f == QuantityOf(lots)
                 g == TakenOf(lots, q)
      <4>1. \A i \in 1 .. m : f[i] \in Int /\ g[i] \in Int
        BY <1>2, <1>3, <3>1
      <4> HIDE DEF f, g
      <4>2. /\ SumFunctionOnSet(f, 1 .. m) = f[m] + SumFunctionOnSet(f, 1 .. m - 1)
            /\ SumFunctionOnSet(f, 1 .. m - 1) \in Int
        BY <3>1, <4>1, SumExtend
      <4>3. /\ SumFunctionOnSet(g, 1 .. m) = g[m] + SumFunctionOnSet(g, 1 .. m - 1)
            /\ SumFunctionOnSet(g, 1 .. m - 1) \in Int
        BY <3>1, <4>1, SumExtend
      <4> QED BY <4>2, <4>3 DEF f, g
    <3> DEFINE l == lots[m].quantity
               t == Taken(lots, q, m)
    <3>3. /\ Have(m - 1) >= q => t = 0
          /\ Have(m - 1) < q /\ q - Have(m - 1) <= l => t = q - Have(m - 1)
          /\ Have(m - 1) < q /\ q - Have(m - 1) > l => t = l
      BY <1>1, <3>1, TakenFacts
    <3>4. Have(m) = l + Have(m - 1) /\ Took(m) = t + Took(m - 1) /\ l \in Nat \ {0} /\ t \in Nat
      BY <1>2, <1>3, <3>1, <3>2
    <3> HIDE DEF l, t, Have, Took
    <3>5. /\ Took(m - 1) = IF Have(m - 1) >= q THEN q ELSE Have(m - 1)
          /\ Took(m) # IF Have(m) >= q THEN q ELSE Have(m)
      BY <3>1
    <3> QED BY <3>2, <3>3, <3>4, <3>5
  <2> QED BY <2>2, <2>3
<1>5. Ok(n)
  BY <1>1, <1>4
<1>6. Have(n) = LotQuantity(lots)
  BY LotSums
<1>7. LotQuantity(lots) \in Int
  BY LotSums
<1> HIDE DEF Have, Took, n
<1>8. Took(n) = q
  BY <1>5, <1>6, <1>7
<1> QED BY <1>8 DEF Took, n

\* Elements that count for nothing can be left out of a sum over a sequence.
LEMMA ThoseSum ==
  ASSUME NEW T, NEW seq \in Seq(T), NEW keep, NEW v \in [T -> Int],
         \A i \in DOMAIN seq : seq[i] \notin keep => v[seq[i]] = 0
  PROVE  SumFunctionOnSet([i \in DOMAIN Those(seq, keep) |-> v[Those(seq, keep)[i]]],
                          1 .. Len(Those(seq, keep)))
           = SumFunctionOnSet([i \in DOMAIN seq |-> v[seq[i]]], 1 .. Len(seq))
<1> DEFINE n == Len(seq)
           Values(s) == [i \in DOMAIN s |-> v[s[i]]]
           Total(s) == SumFunctionOnSet(Values(s), 1 .. Len(s))
           Upto(m) == SumFunctionOnSet(Values(seq), 1 .. m)
<1>1. PICK f : ThoseTable(seq, keep, f) /\ Those(seq, keep) = f[n]
  BY ThoseIs
<1>2. n \in Nat /\ DOMAIN seq = 1 .. n /\ \A i \in 1 .. n : seq[i] \in T
  OBVIOUS
<1>3. \A m \in 0 .. n : f[m] = ThoseStep(seq, keep, f, m)
  BY <1>1 DEF ThoseTable
<1>4. \A i \in 1 .. n : Values(seq)[i] = v[seq[i]] /\ v[seq[i]] \in Int
  BY <1>2
<1>5. ASSUME NEW s \in Seq(T), NEW e \in T
      PROVE  Append(s, e) \in Seq(T) /\ Total(Append(s, e)) = Total(s) + v[e] /\ Total(s) \in Int
  <2> DEFINE t == Append(s, e)
             k == Len(s)
             a == Values(s)
             b == Values(t)
  <2>1. /\ k \in Nat /\ DOMAIN s = 1 .. k /\ t \in Seq(T) /\ Len(t) = k + 1
        /\ DOMAIN t = 1 .. k + 1 /\ t[k + 1] = e /\ \A i \in 1 .. k : t[i] = s[i] /\ s[i] \in T
    OBVIOUS
  <2> HIDE DEF t
  <2>2. /\ \A i \in 1 .. k : a[i] = v[s[i]] /\ a[i] \in Int /\ b[i] = a[i]
        /\ b[k + 1] = v[e] /\ v[e] \in Int
    BY <2>1
  <2>3. \A i \in 1 .. k + 1 : b[i] \in Int
    <3>1. \A i \in 1 .. k + 1 : i \in 1 .. k \/ i = k + 1
      BY <2>1
    <3> HIDE DEF a, b
    <3> QED BY <2>2, <3>1
  <2> HIDE DEF a, b, k
  <2>4. k + 1 \in Nat \ {0} /\ (k + 1) - 1 = k /\ IsFiniteSet(1 .. k)
    BY <2>1, FS_Interval
  <2>5. /\ SumFunctionOnSet(b, 1 .. k + 1) = b[k + 1] + SumFunctionOnSet(b, 1 .. k)
        /\ SumFunctionOnSet(b, 1 .. k) \in Int
    BY <2>3, <2>4, SumExtend
  <2>6. SumFunctionOnSet(b, 1 .. k) = SumFunctionOnSet(a, 1 .. k)
    <3>1. \A i \in 1 .. k : b[i] = a[i]
      BY <2>2
    <3> QED BY <2>4, <3>1, SumSame
  <2>7. Total(s) = SumFunctionOnSet(a, 1 .. k) /\ Total(t) = SumFunctionOnSet(b, 1 .. k + 1)
    BY <2>1 DEF a, b, k
  <2> HIDE DEF Total
  <2>8. Total(t) = Total(s) + v[e] /\ Total(s) \in Int
    BY <2>2, <2>5, <2>6, <2>7
  <2> QED BY <2>1, <2>8 DEF t
<1> DEFINE Ok(m) == f[m] \in Seq(T) /\ Total(f[m]) = Upto(m) /\ Upto(m) \in Int
           bad == {m \in 0 .. n : ~Ok(m)}
<1>6. Ok(0)
  <2>1. f[0] = <<>>
    BY <1>2, <1>3 DEF ThoseStep
  <2>2. 1 .. Len(<<>>) = {} /\ 1 .. 0 = {} /\ <<>> \in Seq(T)
    OBVIOUS
  <2> QED BY <2>1, <2>2, SumNothing
<1>7. ASSUME NEW m \in 1 .. n, Ok(m - 1) PROVE Ok(m)
  <2>1. /\ m \in Nat \ {0} /\ m \in 0 .. n /\ seq[m] \in T
        /\ \A i \in 1 .. m : Values(seq)[i] \in Int
    BY <1>2, <1>4
  <2>2. Upto(m) = Values(seq)[m] + Upto(m - 1) /\ Upto(m - 1) \in Int
    <3> DEFINE a == Values(seq)
    <3> HIDE DEF a
    <3>1. \A i \in 1 .. m : a[i] \in Int
      BY <2>1 DEF a
    <3>2. /\ SumFunctionOnSet(a, 1 .. m) = a[m] + SumFunctionOnSet(a, 1 .. m - 1)
          /\ SumFunctionOnSet(a, 1 .. m - 1) \in Int
      BY <2>1, <3>1, SumExtend
    <3> QED BY <3>2 DEF a
  <2>3. Values(seq)[m] = v[seq[m]] /\ v[seq[m]] \in Int
    BY <1>4
  <2>4. f[m] = IF seq[m] \in keep THEN Append(f[m - 1], seq[m]) ELSE f[m - 1]
    BY <1>3, <2>1 DEF ThoseStep
  <2> HIDE DEF Upto, Total
  <2>5. CASE seq[m] \in keep
    <3>1. f[m - 1] \in Seq(T) /\ Total(f[m - 1]) = Upto(m - 1)
      BY <1>7
    <3>2. /\ Append(f[m - 1], seq[m]) \in Seq(T)
          /\ Total(Append(f[m - 1], seq[m])) = Total(f[m - 1]) + v[seq[m]]
      BY <1>5, <2>1, <3>1
    <3>3. f[m] = Append(f[m - 1], seq[m])
      BY <2>4, <2>5
    <3>4. f[m] \in Seq(T) /\ Total(f[m]) = Upto(m) /\ Upto(m) \in Int
      BY <2>2, <2>3, <3>1, <3>2, <3>3
    <3> QED BY <3>4
  <2>6. CASE seq[m] \notin keep
    <3>1. v[seq[m]] = 0
      BY <1>2, <2>6
    <3> QED BY <1>7, <2>2, <2>3, <2>4, <2>6, <3>1
  <2> QED BY <2>5, <2>6
<1>8. bad = {}
  <2> SUFFICES ASSUME bad # {} PROVE FALSE
    OBVIOUS
  <2>1. PICK m \in bad : \A k \in bad : m <= k
    <3>1. bad \in SUBSET Nat
      BY <1>2
    <3> HIDE DEF bad
    <3> QED BY <3>1, LeastExists
  <2> HIDE DEF Ok
  <2>2. m \in 1 .. n /\ m - 1 \in 0 .. n /\ m - 1 \notin bad
    BY <1>2, <1>6, <2>1
  <2>3. Ok(m - 1) /\ ~Ok(m)
    BY <2>1, <2>2
  <2> QED BY <1>7, <2>2, <2>3
<1>9. Ok(n)
  <2> HIDE DEF Ok
  <2>1. n \in 0 .. n /\ n \notin bad
    BY <1>2, <1>8
  <2> QED BY <2>1
<1>10. Total(f[n]) = Upto(n)
  BY <1>9
<1> QED BY <1>1, <1>10

\* A sequence is one over the set of its own elements.
LEMMA SeqOwn ==
  ASSUME NEW T, NEW s \in Seq(T)
  PROVE  IsSeq(s)
<1>1. Len(s) \in Nat /\ s \in [1 .. Len(s) -> T]
  OBVIOUS
<1>2. s \in [1 .. Len(s) -> ToSet(s)]
  BY <1>1 DEF ToSet
<1> QED BY <1>1, <1>2 DEF IsSeq

\* What a sale leaves: whole lots, and of the shares and their cost what it did not take
LEMMA SaleLeaves ==
  ASSUME NEW lots, GoodLots(lots), NEW q \in Nat \ {0}
  PROVE  /\ GoodLots(LotsAfterSale(lots, q))
         /\ LotQuantity(LotsAfterSale(lots, q))
              = LotQuantity(lots) - SumFunctionOnSet(TakenOf(lots, q), 1 .. Len(lots))
         /\ LotCost(LotsAfterSale(lots, q))
              = LotCost(lots) - SumFunctionOnSet(TakenCostOf(lots, q), 1 .. Len(lots))
<1> DEFINE n == Len(lots)
           cut == [i \in DOMAIN lots |->
                     [session |-> lots[i].session,
                      quantity |-> lots[i].quantity - Taken(lots, q, i),
                      cost |-> lots[i].cost - TakenCost(lots, q, i)]]
           T == ToSet(cut)
           keep == {lot \in T : lot.quantity > 0}
           left == Those(cut, keep)
<1>1. LotsAfterSale(lots, q) = left
  BY DEF LotsAfterSale, NonEmpty
<1>2. n \in Nat /\ DOMAIN lots = 1 .. n
  BY SeqShape DEF GoodLots
<1>3. \A i \in 1 .. n :
        /\ lots[i].quantity \in Nat \ {0} /\ lots[i].cost \in Nat \ {0}
        /\ Taken(lots, q, i) \in Nat /\ Taken(lots, q, i) <= lots[i].quantity
        /\ TakenCost(lots, q, i) \in Nat
        /\ Taken(lots, q, i) = lots[i].quantity => TakenCost(lots, q, i) = lots[i].cost
        /\ Taken(lots, q, i) < lots[i].quantity => TakenCost(lots, q, i) < lots[i].cost
  <2> SUFFICES ASSUME NEW i \in 1 .. n
        PROVE  /\ lots[i].quantity \in Nat \ {0} /\ lots[i].cost \in Nat \ {0}
               /\ Taken(lots, q, i) \in Nat /\ Taken(lots, q, i) <= lots[i].quantity
               /\ TakenCost(lots, q, i) \in Nat
               /\ Taken(lots, q, i) = lots[i].quantity => TakenCost(lots, q, i) = lots[i].cost
               /\ Taken(lots, q, i) < lots[i].quantity => TakenCost(lots, q, i) < lots[i].cost
    OBVIOUS
  <2>1. i \in DOMAIN lots
    BY <1>2
  <2>2. lots[i].quantity \in Nat \ {0} /\ lots[i].cost \in Nat \ {0}
    BY <2>1 DEF GoodLots
  <2>3. /\ Taken(lots, q, i) \in Nat /\ Taken(lots, q, i) <= lots[i].quantity
        /\ TakenCost(lots, q, i) \in Nat
        /\ Taken(lots, q, i) = lots[i].quantity => TakenCost(lots, q, i) = lots[i].cost
        /\ Taken(lots, q, i) < lots[i].quantity => TakenCost(lots, q, i) < lots[i].cost
    BY <2>1, TakenFacts
  <2> QED BY <2>2, <2>3
<1>4. /\ DOMAIN cut = 1 .. n
      /\ \A i \in 1 .. n :
           /\ cut[i].quantity = lots[i].quantity - Taken(lots, q, i)
           /\ cut[i].cost = lots[i].cost - TakenCost(lots, q, i)
           /\ cut[i].quantity \in Nat /\ cut[i].cost \in Nat
           /\ cut[i].quantity > 0 => cut[i].cost > 0
           /\ cut[i].quantity = 0 => cut[i].cost = 0
  <2>1. ASSUME NEW i \in 1 .. n
        PROVE  /\ cut[i].quantity = lots[i].quantity - Taken(lots, q, i)
               /\ cut[i].cost = lots[i].cost - TakenCost(lots, q, i)
    BY <1>2
  <2> HIDE DEF cut
  <2>2. ASSUME NEW i \in 1 .. n
        PROVE  /\ cut[i].quantity \in Nat /\ cut[i].cost \in Nat
               /\ cut[i].quantity > 0 => cut[i].cost > 0
               /\ cut[i].quantity = 0 => cut[i].cost = 0
    <3> DEFINE t == Taken(lots, q, i)
               c == TakenCost(lots, q, i)
               a == lots[i].quantity
               b == lots[i].cost
    <3>1. /\ a \in Nat \ {0} /\ b \in Nat \ {0} /\ t \in Nat /\ t <= a /\ c \in Nat
          /\ t = a => c = b
          /\ t < a => c < b
      BY <1>3
    <3>2. cut[i].quantity = a - t /\ cut[i].cost = b - c
      BY <2>1
    <3> HIDE DEF t, c, a, b
    <3> QED BY <3>1, <3>2
  <2>3. DOMAIN cut = 1 .. n
    BY <1>2 DEF cut
  <2> QED BY <2>1, <2>2, <2>3
<1>5. cut \in Seq(T) /\ Len(cut) = n
  <2>1. cut \in [1 .. n -> T]
    BY <1>2 DEF ToSet
  <2> HIDE DEF cut, T
  <2>2. cut \in Seq(T)
    BY <1>2, <2>1
  <2>3. Len(cut) = n
    BY <1>2, <2>1, <2>2
  <2> QED BY <2>2, <2>3
<1>5a. \A i \in DOMAIN cut : cut[i] \in T
  BY DEF ToSet
<1> HIDE DEF cut
<1>6. \A lot \in T : /\ lot.quantity \in Nat /\ lot.cost \in Nat
                     /\ lot.quantity > 0 => lot.cost > 0
                     /\ lot.quantity = 0 => lot.cost = 0
  BY <1>4 DEF ToSet
<1>7. left \in Seq(T) /\ ToSet(left) = T \cap keep
  <2> HIDE DEF T, keep
  <2>1. Those(cut, keep) \in Seq(T) /\ ToSet(Those(cut, keep)) = ToSet(cut) \cap keep
    BY <1>5, ThoseRange
  <2> QED BY <2>1 DEF T
<1>7a. \A i \in DOMAIN left : left[i] \in T
  <2> HIDE DEF left, T
  <2> QED BY <1>7
<1>8. GoodLots(left)
  <2> HIDE DEF left, T
  <2>1. IsSeq(left)
    BY <1>7, SeqOwn
  <2>2. \A i \in DOMAIN left : left[i] \in T \cap keep
    BY <1>7, <2>1, SeqShape
  <2>3. \A lot \in T \cap keep : lot.quantity \in Nat \ {0} /\ lot.cost \in Nat \ {0}
    BY <1>6
  <2> QED BY <2>1, <2>2, <2>3 DEF GoodLots
<1>9. LotQuantity(left) = SumFunctionOnSet(QuantityOf(cut), 1 .. n)
  <2> DEFINE v == [lot \in T |-> lot.quantity]
  <2>1. v \in [T -> Int] /\ \A i \in DOMAIN cut : cut[i] \notin keep => v[cut[i]] = 0
    <3>1. \A lot \in T : lot \notin keep => lot.quantity = 0
      BY <1>6
    <3>2. \A i \in DOMAIN cut : cut[i] \in T
      BY <1>5a
    <3> HIDE DEF keep, T
    <3> QED BY <1>6, <3>1, <3>2
  <2>2. SumFunctionOnSet([i \in DOMAIN left |-> v[left[i]]], 1 .. Len(left))
          = SumFunctionOnSet([i \in DOMAIN cut |-> v[cut[i]]], 1 .. Len(cut))
    <3> HIDE DEF v, keep, T
    <3> QED BY <1>5, <2>1, ThoseSum
  <2>3. /\ [i \in DOMAIN left |-> v[left[i]]] = QuantityOf(left)
        /\ [i \in DOMAIN cut |-> v[cut[i]]] = QuantityOf(cut)
    <3>1. (\A i \in DOMAIN cut : cut[i] \in T) /\ (\A i \in DOMAIN left : left[i] \in T)
      BY <1>5a, <1>7a
    <3> HIDE DEF left, T
    <3> QED BY <3>1 DEF QuantityOf
  <2>4. LotQuantity(left) = SumFunctionOnSet(QuantityOf(left), 1 .. Len(left))
    BY <1>8, LotSums
  <2> QED BY <1>5, <2>2, <2>3, <2>4
<1>10. LotCost(left) = SumFunctionOnSet(CostOf(cut), 1 .. n)
  <2> DEFINE v == [lot \in T |-> lot.cost]
  <2>1. v \in [T -> Int] /\ \A i \in DOMAIN cut : cut[i] \notin keep => v[cut[i]] = 0
    <3>1. \A lot \in T : lot \notin keep => lot.cost = 0
      BY <1>6
    <3>2. \A i \in DOMAIN cut : cut[i] \in T
      BY <1>5a
    <3> HIDE DEF keep, T
    <3> QED BY <1>6, <3>1, <3>2
  <2>2. SumFunctionOnSet([i \in DOMAIN left |-> v[left[i]]], 1 .. Len(left))
          = SumFunctionOnSet([i \in DOMAIN cut |-> v[cut[i]]], 1 .. Len(cut))
    <3> HIDE DEF v, keep, T
    <3> QED BY <1>5, <2>1, ThoseSum
  <2>3. /\ [i \in DOMAIN left |-> v[left[i]]] = CostOf(left)
        /\ [i \in DOMAIN cut |-> v[cut[i]]] = CostOf(cut)
    <3>1. (\A i \in DOMAIN cut : cut[i] \in T) /\ (\A i \in DOMAIN left : left[i] \in T)
      BY <1>5a, <1>7a
    <3> HIDE DEF left, T
    <3> QED BY <3>1 DEF CostOf
  <2>4. LotCost(left) = SumFunctionOnSet(CostOf(left), 1 .. Len(left))
    BY <1>8, LotSums
  <2> QED BY <1>5, <2>2, <2>3, <2>4
<1> HIDE DEF left, T, keep
<1>11. SumFunctionOnSet(QuantityOf(cut), 1 .. n)
         = SumFunctionOnSet(QuantityOf(lots), 1 .. n) - SumFunctionOnSet(TakenOf(lots, q), 1 .. n)
  <2> DEFINE f == QuantityOf(lots)
             g == TakenOf(lots, q)
             h == QuantityOf(cut)
  <2>1. \A i \in 1 .. n : f[i] \in Int /\ g[i] \in Int /\ h[i] = f[i] - g[i]
    BY <1>2, <1>3, <1>4 DEF QuantityOf, TakenOf
  <2> HIDE DEF f, g, h, n
  <2>2. SumFunctionOnSet(h, 1 .. n) = SumFunctionOnSet(f, 1 .. n) - SumFunctionOnSet(g, 1 .. n)
    BY <1>2, <2>1, SumMinus
  <2> QED BY <2>2 DEF f, g, h
<1>12. SumFunctionOnSet(CostOf(cut), 1 .. n)
         = SumFunctionOnSet(CostOf(lots), 1 .. n) - SumFunctionOnSet(TakenCostOf(lots, q), 1 .. n)
  <2> DEFINE f == CostOf(lots)
             g == TakenCostOf(lots, q)
             h == CostOf(cut)
  <2>1. \A i \in 1 .. n : f[i] \in Int /\ g[i] \in Int /\ h[i] = f[i] - g[i]
    BY <1>2, <1>3, <1>4 DEF CostOf, TakenCostOf
  <2> HIDE DEF f, g, h, n
  <2>2. SumFunctionOnSet(h, 1 .. n) = SumFunctionOnSet(f, 1 .. n) - SumFunctionOnSet(g, 1 .. n)
    BY <1>2, <2>1, SumMinus
  <2> QED BY <2>2 DEF f, g, h
<1> QED BY <1>1, <1>8, <1>9, <1>10, <1>11, <1>12, LotSums

-----------------------------------------------------------------------------
(* Books *)

GoodHoldings(h) ==
  /\ IsFiniteSet(DOMAIN h)
  /\ \A s \in DOMAIN h : GoodLots(h[s].lots) /\ h[s].lots # <<>> /\ h[s].mark \in Int

IsBook(b) == b \in [ok : BOOLEAN, cash : Int, realized : Int, nav : Int, peak : Int,
                    holdings : {b.holdings}]

Good(b) ==
  /\ b.cash >= 0 /\ b.nav <= b.peak
  /\ GoodHoldings(b.holdings)

\* What a fill, a mark or an adjustment has to keep: the money and the shares
Worth(b) == b.cash + OpenCost(b) - b.realized
SharesOf(b, s) == LotQuantity(LotsOf(b, s))

\* No lots are no shares and no money.
LEMMA NoLots == GoodLots(<<>>) /\ LotQuantity(<<>>) = 0 /\ LotCost(<<>>) = 0
<1>1. DOMAIN <<>> = {} /\ Len(<<>>) = 0 /\ 1 .. 0 = {}
  OBVIOUS
<1>2. GoodLots(<<>>)
  BY <1>1 DEF GoodLots, IsSeq
<1>3. \A f : SumFunctionOnSet(f, 1 .. 0) = 0
  BY <1>1, SumNothing
<1> QED BY <1>1, <1>2, <1>3, LotSums

\* Lots of a symbol, held or not, are whole.
LEMMA HeldLots ==
  ASSUME NEW b, GoodHoldings(b.holdings), NEW s
  PROVE  /\ GoodLots(LotsOf(b, s)) /\ LotQuantity(LotsOf(b, s)) \in Int
         /\ LotCost(LotsOf(b, s)) \in Int
<1>1. GoodLots(LotsOf(b, s))
  BY NoLots DEF LotsOf, GoodHoldings
<1> QED BY <1>1, LotSums

\* What the open lots cost is an integer.
LEMMA OpenCostIsInt ==
  ASSUME NEW b, GoodHoldings(b.holdings)
  PROVE  OpenCost(b) \in Int
<1> DEFINE S == DOMAIN b.holdings
           f == [s \in S |-> LotCost(b.holdings[s].lots)]
<1>1. OpenCost(b) = SumFunctionOnSet(f, S)
  BY DEF OpenCost, SumFunction
<1>2. IsFiniteSet(S) /\ \A s \in S : f[s] \in Int
  BY LotSums DEF GoodHoldings
<1> HIDE DEF f, S
<1> QED BY <1>1, <1>2, SumIsInt

\* The cost of the open lots changes by what one symbol's lots change.
LEMMA OpenCostChange ==
  ASSUME NEW b, NEW c, GoodHoldings(b.holdings), GoodHoldings(c.holdings), NEW x,
         DOMAIN c.holdings \ {x} = DOMAIN b.holdings \ {x},
         \A s \in DOMAIN b.holdings \ {x} : c.holdings[s].lots = b.holdings[s].lots
  PROVE  OpenCost(c) = OpenCost(b) - LotCost(LotsOf(b, x)) + LotCost(LotsOf(c, x))
<1> DEFINE f(a) == [s \in DOMAIN a.holdings |-> LotCost(a.holdings[s].lots)]
           rest(a) == SumFunctionOnSet(f(a), DOMAIN a.holdings \ {x})
<1>1. ASSUME NEW a, GoodHoldings(a.holdings)
      PROVE  /\ rest(a) \in Int /\ LotCost(LotsOf(a, x)) \in Int
             /\ OpenCost(a) = LotCost(LotsOf(a, x)) + rest(a)
  <2> DEFINE S == DOMAIN a.holdings
             g == f(a)
  <2>1. OpenCost(a) = SumFunctionOnSet(g, S) /\ rest(a) = SumFunctionOnSet(g, S \ {x})
    BY DEF OpenCost, SumFunction
  <2>2. IsFiniteSet(S) /\ \A s \in S : g[s] \in Int
    BY <1>1, LotSums DEF GoodHoldings
  <2>3. LotCost(LotsOf(a, x)) = IF x \in S THEN g[x] ELSE 0
    BY NoLots DEF LotsOf
  <2> HIDE DEF rest, S, g
  <2>4. IsFiniteSet(S \ {x}) /\ SumFunctionOnSet(g, S \ {x}) \in Int
    <3>1. IsFiniteSet(S \ {x}) /\ \A s \in S \ {x} : g[s] \in Int
      BY <2>2, FS_Subset
    <3> QED BY <3>1, SumIsInt
  <2>5. x \in S => SumFunctionOnSet(g, S) = g[x] + SumFunctionOnSet(g, S \ {x})
    BY <2>2, SumRemove
  <2>6. x \notin S => S \ {x} = S
    OBVIOUS
  <2>7. x \in S => g[x] \in Int
    BY <2>2
  <2> DEFINE all == SumFunctionOnSet(g, S)
             most == SumFunctionOnSet(g, S \ {x})
  <2>8. x \notin S => all = most
    BY <2>6
  <2> HIDE DEF all, most, f
  <2>9. all = LotCost(LotsOf(a, x)) + most /\ most \in Int /\ LotCost(LotsOf(a, x)) \in Int
    BY <2>3, <2>4, <2>5, <2>7, <2>8 DEF all, most
  <2> QED BY <2>1, <2>9 DEF all, most
<1>2. rest(b) = rest(c)
  <2> DEFINE S == DOMAIN b.holdings \ {x}
             g == f(b)
             h == f(c)
  <2>1. IsFiniteSet(S) /\ \A s \in S : g[s] = h[s]
    BY FS_Subset DEF GoodHoldings
  <2> HIDE DEF S, g, h
  <2>2. SumFunctionOnSet(g, S) = SumFunctionOnSet(h, S)
    BY <2>1, SumSame
  <2> QED BY <2>2 DEF S, g, h
<1> HIDE DEF rest
<1>3. /\ rest(b) \in Int /\ LotCost(LotsOf(b, x)) \in Int
      /\ OpenCost(b) = LotCost(LotsOf(b, x)) + rest(b)
  BY <1>1
<1>4. /\ LotCost(LotsOf(c, x)) \in Int
      /\ OpenCost(c) = LotCost(LotsOf(c, x)) + rest(c)
  BY <1>1
<1> QED BY <1>2, <1>3, <1>4

\* A failed validation leaves a refused book, and a refused book is refused for good.
LEMMA CheckedFacts ==
  ASSUME NEW b, IsBook(b), NEW valid, NEW next
  PROVE  /\ b.ok /\ valid => Checked(b, valid, next) = next
         /\ ~(b.ok /\ valid) => /\ IsBook(Checked(b, valid, next))
                                /\ Checked(b, valid, next).ok = FALSE
<1> QED BY DEF Checked, IsBook

\* A buy turns cash into the cost of a lot.
LEMMA BuyKeepsBook ==
  ASSUME NEW b, IsBook(b), b.ok => Good(b), NEW fill, ValidFill(fill), fill.side = "BUY",
         NEW session, NEW c, c = ApplyBuy(b, fill, session)
  PROVE  /\ IsBook(c)
         /\ c.ok => /\ b.ok /\ Good(c) /\ Worth(c) = Worth(b)
                    /\ \A s : SharesOf(c, s) = SharesOf(b, s) + Net(fill, s)
<1> DEFINE cost == fill.quantity * fill.price + fill.fees
           x == fill.symbol
           lot == [session |-> session, quantity |-> fill.quantity, cost |-> cost]
           more == Append(LotsOf(b, x), lot)
           h == [s \in DOMAIN b.holdings \cup {x} |->
                  IF s = x THEN [lots |-> Append(LotsOf(b, s), lot), mark |-> fill.price]
                  ELSE b.holdings[s]]
           next == [b EXCEPT !.cash = @ - cost, !.holdings = h]
<1>1. c = Checked(b, cost <= b.cash, next)
  BY DEF ApplyBuy
<1>2. cost \in Nat \ {0}
  <2>1. /\ fill.quantity \in Nat \ {0} /\ fill.price \in Nat \ {0} /\ fill.fees \in Nat
    BY DEF ValidFill
  <2>2. fill.quantity * fill.price \in Nat \ {0}
    BY <2>1
  <2> QED BY <2>1, <2>2
<1> HIDE DEF next
<1>3. CASE ~(b.ok /\ cost <= b.cash)
  BY <1>1, <1>3, CheckedFacts
<1>4. CASE b.ok /\ cost <= b.cash
  <2>1. c = next
    BY <1>1, <1>4, CheckedFacts
  <2> HIDE DEF cost
  <2>2. /\ IsBook(c) /\ c.ok = b.ok /\ c.cash = b.cash - cost /\ c.realized = b.realized
        /\ c.nav = b.nav /\ c.peak = b.peak /\ c.holdings = h
    <3> HIDE DEF h
    <3>1. b \in [ok : BOOLEAN, cash : Int, realized : Int, nav : Int, peak : Int,
                  holdings : {b.holdings}]
      BY DEF IsBook
    <3>2. b.cash - cost \in Int
      BY <1>2, <3>1
    <3>3. c = [b EXCEPT !.cash = b.cash - cost, !.holdings = h]
      BY <2>1 DEF next
    <3>4. /\ c.ok = b.ok /\ c.cash = b.cash - cost /\ c.realized = b.realized
          /\ c.nav = b.nav /\ c.peak = b.peak /\ c.holdings = h
      BY <3>1, <3>3
    <3>5. c \in [ok : BOOLEAN, cash : Int, realized : Int, nav : Int, peak : Int,
                  holdings : {h}]
      BY <3>1, <3>2, <3>3
    <3> QED BY <3>4, <3>5 DEF IsBook
  <2>3. /\ DOMAIN h = DOMAIN b.holdings \cup {x}
        /\ h[x].lots = more /\ h[x].mark = fill.price
        /\ \A s \in DOMAIN b.holdings \ {x} : h[s] = b.holdings[s]
    OBVIOUS
  <2>4. GoodHoldings(b.holdings) /\ b.cash >= 0 /\ b.nav <= b.peak
    BY <1>4 DEF Good
  <2>5. lot.quantity = fill.quantity /\ lot.cost = cost
    OBVIOUS
  <2>6. fill.quantity \in Nat \ {0} /\ fill.price \in Int
    BY DEF ValidFill
  <2> HIDE DEF lot, h, x, more
  <2>7. /\ GoodLots(more) /\ more # <<>>
        /\ LotQuantity(more) = LotQuantity(LotsOf(b, x)) + fill.quantity
        /\ LotCost(more) = LotCost(LotsOf(b, x)) + cost
    BY <1>2, <2>4, <2>5, <2>6, HeldLots, LotAppend DEF more
  <2>8. GoodHoldings(h)
    <3>1. IsFiniteSet(DOMAIN h)
      BY <2>3, <2>4, FS_AddElement DEF GoodHoldings
    <3>2. \A s \in DOMAIN h : s = x \/ s \in DOMAIN b.holdings \ {x}
      BY <2>3
    <3> QED BY <2>3, <2>4, <2>6, <2>7, <3>1, <3>2 DEF GoodHoldings
  <2>9. LotsOf(c, x) = more /\ \A s : s # x => LotsOf(c, s) = LotsOf(b, s)
    BY <2>2, <2>3 DEF LotsOf
  <2>10. OpenCost(c) = OpenCost(b) - LotCost(LotsOf(b, x)) + LotCost(more)
    <3>1. DOMAIN c.holdings \ {x} = DOMAIN b.holdings \ {x}
      BY <2>2, <2>3
    <3>2. \A s \in DOMAIN b.holdings \ {x} : c.holdings[s].lots = b.holdings[s].lots
      BY <2>2, <2>3
    <3> QED BY <2>2, <2>4, <2>8, <2>9, <3>1, <3>2, OpenCostChange
  <2>11. Worth(c) = Worth(b)
    <3>1. OpenCost(b) \in Int /\ LotCost(LotsOf(b, x)) \in Int
      BY <2>4, OpenCostIsInt, HeldLots
    <3>2. b.cash \in Int /\ b.realized \in Int
      BY DEF IsBook
    <3> QED BY <1>2, <2>2, <2>7, <2>10, <3>1, <3>2 DEF Worth
  <2>12. Good(c)
    <3>1. b.cash \in Int
      BY DEF IsBook
    <3> QED BY <1>2, <1>4, <2>2, <2>4, <2>8, <3>1 DEF Good
  <2>13. \A s : SharesOf(c, s) = SharesOf(b, s) + Net(fill, s)
    <3> SUFFICES ASSUME NEW s PROVE SharesOf(c, s) = SharesOf(b, s) + Net(fill, s)
      OBVIOUS
    <3>1. SharesOf(b, s) \in Int
      BY <2>4, HeldLots DEF SharesOf
    <3>2. CASE s = x
      <4>1. Net(fill, s) = fill.quantity
        BY <3>2 DEF Net, x
      <4> QED BY <2>7, <2>9, <3>2, <4>1 DEF SharesOf
    <3>3. CASE s # x
      <4>1. Net(fill, s) = 0
        BY <3>3 DEF Net, x
      <4> QED BY <2>9, <3>1, <3>3, <4>1 DEF SharesOf
    <3> QED BY <3>2, <3>3
  <2> QED BY <1>4, <2>2, <2>11, <2>12, <2>13
<1> QED BY <1>3, <1>4

\* A sale turns lots into cash; the difference to their cost is realized.
LEMMA SellKeepsBook ==
  ASSUME NEW b, IsBook(b), b.ok => Good(b), NEW fill, ValidFill(fill), fill.side # "BUY",
         NEW c, c = ApplySell(b, fill)
  PROVE  /\ IsBook(c)
         /\ c.ok => /\ b.ok /\ Good(c) /\ Worth(c) = Worth(b)
                    /\ \A s : SharesOf(c, s) = SharesOf(b, s) + Net(fill, s)
<1> DEFINE x == fill.symbol
           q == fill.quantity
           lots == LotsOf(b, x)
           left == LotsAfterSale(lots, q)
           proceeds == q * fill.price - fill.fees
           allocated == SumFunction([i \in DOMAIN lots |-> TakenCost(lots, q, i)])
           h == IF left = <<>> THEN Restrict(b.holdings, DOMAIN b.holdings \ {x})
                ELSE [b.holdings EXCEPT ![x] = [lots |-> left, mark |-> fill.price]]
           next == [b EXCEPT !.cash = @ + proceeds, !.realized = @ + (proceeds - allocated),
                             !.holdings = h]
           valid == q <= LotQuantity(lots) /\ proceeds >= 0
<1>1. c = Checked(b, valid, next)
  BY DEF ApplySell
<1>2. q \in Nat \ {0} /\ fill.price \in Nat \ {0} /\ fill.fees \in Nat /\ proceeds \in Int
  BY DEF ValidFill
<1>3. CASE ~(b.ok /\ valid)
  <2> HIDE DEF valid, next
  <2> QED BY <1>1, <1>3, CheckedFacts
<1>4. CASE b.ok /\ valid
  <2>1. c = next
    <3> HIDE DEF valid, next
    <3> QED BY <1>1, <1>4, CheckedFacts
  <2>2. q <= LotQuantity(lots) /\ proceeds >= 0
    BY <1>4
  <2>3. GoodHoldings(b.holdings) /\ b.cash >= 0 /\ b.nav <= b.peak
    BY <1>4 DEF Good
  <2>4. GoodLots(lots) /\ LotQuantity(lots) \in Int /\ LotCost(lots) \in Int
    BY <2>3, HeldLots
  <2>5. allocated = SumFunctionOnSet(TakenCostOf(lots, q), 1 .. Len(lots))
    <3>1. DOMAIN lots = 1 .. Len(lots)
      BY <2>4, SeqShape DEF GoodLots
    <3> QED BY <3>1 DEF SumFunction, TakenCostOf
  <2> HIDE DEF lots, left, allocated, proceeds, q, x
  <2>6. /\ GoodLots(left)
        /\ LotQuantity(left) = LotQuantity(lots) - q
        /\ LotCost(left) = LotCost(lots) - allocated
    BY <1>2, <2>2, <2>4, <2>5, SaleLeaves, SaleTakesAll DEF left
  <2>7. LotCost(left) \in Int /\ allocated \in Int
    <3>1. IsFiniteSet(1 .. Len(lots))
      BY <2>4, SeqShape DEF GoodLots
    <3>2. \A i \in 1 .. Len(lots) : TakenCostOf(lots, q)[i] \in Int
      <4>1. DOMAIN lots = 1 .. Len(lots)
        BY <2>4, SeqShape DEF GoodLots
      <4>2. \A i \in DOMAIN lots : TakenCost(lots, q, i) \in Int
        BY <1>2, <2>4, TakenFacts
      <4> QED BY <4>1, <4>2 DEF TakenCostOf
    <3>3. allocated \in Int
      <4> DEFINE f == TakenCostOf(lots, q)
      <4> HIDE DEF f
      <4>1. SumFunctionOnSet(f, 1 .. Len(lots)) \in Int
        BY <3>1, <3>2, SumIsInt DEF f
      <4> QED BY <2>5, <4>1 DEF f
    <3> QED BY <2>6, <3>3, LotSums
  <2>8. x \in DOMAIN b.holdings
    BY <1>2, <2>2, NoLots DEF lots, LotsOf
  <2>9. /\ IsBook(c) /\ c.ok = b.ok /\ c.cash = b.cash + proceeds
        /\ c.realized = b.realized + (proceeds - allocated)
        /\ c.nav = b.nav /\ c.peak = b.peak /\ c.holdings = h
    <3> HIDE DEF h
    <3> DEFINE cash == b.cash + proceeds
               profit == b.realized + (proceeds - allocated)
    <3>1. b \in [ok : BOOLEAN, cash : Int, realized : Int, nav : Int, peak : Int,
                  holdings : {b.holdings}]
      BY DEF IsBook
    <3>2. cash \in Int /\ profit \in Int
      BY <1>2, <2>7, <3>1
    <3>3. c = [b EXCEPT !.cash = cash, !.realized = profit, !.holdings = h]
      BY <2>1 DEF next
    <3> HIDE DEF cash, profit
    <3>4. /\ c.ok = b.ok /\ c.cash = cash /\ c.realized = profit
          /\ c.nav = b.nav /\ c.peak = b.peak /\ c.holdings = h
      BY <3>1, <3>3
    <3>5. c \in [ok : BOOLEAN, cash : Int, realized : Int, nav : Int, peak : Int,
                  holdings : {h}]
      BY <3>1, <3>2, <3>3
    <3> QED BY <3>4, <3>5 DEF IsBook, cash, profit
  <2>11. /\ DOMAIN h = IF left = <<>> THEN DOMAIN b.holdings \ {x} ELSE DOMAIN b.holdings
         /\ left # <<>> => h[x].lots = left /\ h[x].mark = fill.price
         /\ \A s \in DOMAIN b.holdings \ {x} : h[s] = b.holdings[s]
    BY <2>8 DEF Restrict
  <2> HIDE DEF h
  <2>12. GoodHoldings(h)
    <3>1. IsFiniteSet(DOMAIN h)
      BY <2>3, <2>11, FS_Subset DEF GoodHoldings
    <3>2. \A s \in DOMAIN h : (s = x /\ left # <<>>) \/ s \in DOMAIN b.holdings \ {x}
      BY <2>11
    <3>3. fill.price \in Int
      BY <1>2
    <3> QED BY <2>3, <2>6, <2>11, <3>1, <3>2, <3>3 DEF GoodHoldings
  <2>13. LotsOf(c, x) = left /\ \A s : s # x => LotsOf(c, s) = LotsOf(b, s)
    BY <2>8, <2>9, <2>11 DEF LotsOf
  <2>14. OpenCost(c) = OpenCost(b) - LotCost(lots) + LotCost(left)
    <3>1. DOMAIN c.holdings \ {x} = DOMAIN b.holdings \ {x}
      BY <2>9, <2>11
    <3>2. \A s \in DOMAIN b.holdings \ {x} : c.holdings[s].lots = b.holdings[s].lots
      BY <2>9, <2>11
    <3> QED BY <2>3, <2>9, <2>12, <2>13, <3>1, <3>2, OpenCostChange DEF lots
  <2>15. Worth(c) = Worth(b)
    <3>1. OpenCost(b) \in Int
      BY <2>3, OpenCostIsInt
    <3>2. b.cash \in Int /\ b.realized \in Int
      BY DEF IsBook
    <3> QED BY <1>2, <2>4, <2>6, <2>7, <2>9, <2>14, <3>1, <3>2 DEF Worth
  <2>16. Good(c)
    <3>1. b.cash \in Int
      BY DEF IsBook
    <3> QED BY <1>2, <2>2, <2>3, <2>9, <2>12, <3>1 DEF Good
  <2>17. \A s : SharesOf(c, s) = SharesOf(b, s) + Net(fill, s)
    <3> SUFFICES ASSUME NEW s PROVE SharesOf(c, s) = SharesOf(b, s) + Net(fill, s)
      OBVIOUS
    <3>1. SharesOf(b, s) \in Int
      BY <2>3, HeldLots DEF SharesOf
    <3>2. CASE s = x
      <4>1. Net(fill, s) = 0 - q
        BY <3>2 DEF Net, x, q
      <4>2. SharesOf(b, s) = LotQuantity(lots) /\ SharesOf(c, s) = LotQuantity(left)
        BY <2>13, <3>2 DEF SharesOf, lots
      <4> QED BY <1>2, <2>4, <2>6, <4>1, <4>2
    <3>3. CASE s # x
      <4>1. Net(fill, s) = 0
        BY <3>3 DEF Net, x
      <4> QED BY <2>13, <3>1, <3>3, <4>1 DEF SharesOf
    <3> QED BY <3>2, <3>3
  <2> QED BY <1>4, <2>9, <2>15, <2>16, <2>17
<1> QED BY <1>3, <1>4

\* A fill moves money between cash, lots and profit, and its shares into or out of lots.
LEMMA FillKeepsBook ==
  ASSUME NEW b, IsBook(b), b.ok => Good(b), NEW fill, ValidFill(fill), NEW session,
         NEW c, c = ApplyFill(b, fill, session)
  PROVE  /\ IsBook(c)
         /\ c.ok => /\ b.ok /\ Good(c) /\ Worth(c) = Worth(b)
                    /\ \A s : SharesOf(c, s) = SharesOf(b, s) + Net(fill, s)
<1>1. CASE fill.side = "BUY"
  <2>1. c = ApplyBuy(b, fill, session)
    BY <1>1 DEF ApplyFill
  <2> QED BY <1>1, <2>1, BuyKeepsBook
<1>2. CASE fill.side # "BUY"
  <2>1. c = ApplySell(b, fill)
    BY <1>2 DEF ApplyFill
  <2> QED BY <1>2, <2>1, SellKeepsBook
<1> QED BY <1>1, <1>2

-----------------------------------------------------------------------------
(* Events *)

Sound(b) == IsBook(b) /\ (b.ok => Good(b))

\* A symbol's part in some fills
NetOf(fills, s) == [j \in DOMAIN fills |-> Net(fills[j], s)]
SharesIn(e, s) == SumFunction(NetOf(e.fills, s))

\* The fills of an event are applied one by one.
FillsStep(b, e, f, n) == IF n = 0 THEN b ELSE ApplyFill(f[n - 1], e.fills[n], e.session)
FillsTable(b, e, f) == f = [n \in 0 .. Len(e.fills) |-> FillsStep(b, e, f, n)]

\* The table of an event's fills exists.
LEMMA FillsTableExists ==
  ASSUME NEW b, NEW e, Len(e.fills) \in Nat
  PROVE  \E f : FillsTable(b, e, f)
<1> DEFINE Upto(n) == \E f : f = [i \in 0 .. n |-> FillsStep(b, e, f, i)]
           bad == {n \in Nat : ~Upto(n)}
<1>1. Upto(0)
  <2> DEFINE f == [i \in 0 .. 0 |-> b]
  <2>1. f = [i \in 0 .. 0 |-> FillsStep(b, e, f, i)]
    BY DEF FillsStep
  <2> QED BY <2>1
<1>2. ASSUME NEW n \in Nat \ {0}, Upto(n - 1) PROVE Upto(n)
  <2>1. PICK f : f = [i \in 0 .. n - 1 |-> FillsStep(b, e, f, i)]
    BY <1>2
  <2> DEFINE g == [i \in 0 .. n |-> IF i = n THEN FillsStep(b, e, f, n) ELSE f[i]]
  <2>2. \A i \in 0 .. n - 1 : g[i] = f[i]
    OBVIOUS
  <2>3. ASSUME NEW i \in 0 .. n PROVE g[i] = FillsStep(b, e, g, i)
    <3>1. i # 0 => i - 1 \in 0 .. n - 1 /\ g[i - 1] = f[i - 1]
      BY <2>2
    <3>2. FillsStep(b, e, g, i) = FillsStep(b, e, f, i)
      BY <3>1 DEF FillsStep
    <3>3. i # n => f[i] = FillsStep(b, e, f, i)
      <4>1. i # n => i \in 0 .. n - 1
        OBVIOUS
      <4> QED BY <2>1, <4>1
    <3> QED BY <3>2, <3>3
  <2>4. g = [i \in 0 .. n |-> FillsStep(b, e, g, i)]
    BY <2>3
  <2> HIDE DEF g
  <2> QED BY <2>4
<1> HIDE DEF Upto
<1>3. bad = {}
  <2> SUFFICES ASSUME bad # {} PROVE FALSE
    OBVIOUS
  <2>1. PICK n \in bad : \A m \in bad : n <= m
    <3> HIDE DEF bad
    <3>1. bad \in SUBSET Nat
      BY DEF bad
    <3> QED BY <3>1, LeastExists
  <2>2. n \in Nat \ {0} /\ n - 1 \in Nat
    BY <1>1, <2>1
  <2>3. n - 1 \notin bad
    BY <2>1, <2>2
  <2> QED BY <1>2, <2>1, <2>2, <2>3
<1>4. Upto(Len(e.fills))
  BY <1>3
<1> QED BY <1>4 DEF FillsTable, Upto

\* ApplyFills is its last entry.
LEMMA ApplyFillsIs ==
  ASSUME NEW b, NEW e, Len(e.fills) \in Nat
  PROVE  \E f : FillsTable(b, e, f) /\ ApplyFills(b, e) = f[Len(e.fills)]
<1> DEFINE f == CHOOSE g : FillsTable(b, e, g)
<1>1. FillsTable(b, e, f)
  <2>1. \E g : FillsTable(b, e, g)
    BY FillsTableExists
  <2> QED BY <2>1
<1>2. ApplyFills(b, e) = f[Len(e.fills)]
  BY DEF ApplyFills, FillsTable, FillsStep
<1> HIDE DEF f
<1> QED BY <1>1, <1>2

\* The fills of an event keep the money and trade their shares.
LEMMA FillsKeepBook ==
  ASSUME NEW b, Sound(b), NEW e, ValidEvent(e), NEW c, c = ApplyFills(b, e)
  PROVE  /\ Sound(c)
         /\ c.ok => /\ b.ok /\ Worth(c) = Worth(b)
                    /\ \A s : SharesOf(c, s) = SharesOf(b, s) + SharesIn(e, s)
<1> DEFINE fills == e.fills
           n == Len(fills)
           Upto(s, m) == SumFunctionOnSet(NetOf(fills, s), 1 .. m)
<1>1. n \in Nat /\ DOMAIN fills = 1 .. n /\ \A i \in 1 .. n : ValidFill(fills[i])
  <2>1. IsSeq(fills) /\ \A fill \in ToSet(fills) : ValidFill(fill)
    BY DEF ValidEvent, IsSeq
  <2> QED BY <2>1, SeqShape
<1>2. PICK f : FillsTable(b, e, f) /\ c = f[n]
  BY <1>1, ApplyFillsIs
<1>3. \A m \in 0 .. n : f[m] = FillsStep(b, e, f, m)
  BY <1>2 DEF FillsTable
<1>4. \A s : \A i \in 1 .. n : NetOf(fills, s)[i] = Net(fills[i], s) /\ Net(fills[i], s) \in Int
  <2> SUFFICES ASSUME NEW s, NEW i \in 1 .. n
               PROVE  NetOf(fills, s)[i] = Net(fills[i], s) /\ Net(fills[i], s) \in Int
    OBVIOUS
  <2>1. fills[i].quantity \in Nat
    BY <1>1 DEF ValidFill
  <2> QED BY <1>1, <2>1 DEF NetOf, Net
<1> DEFINE Ok(m) == /\ Sound(f[m])
                    /\ f[m].ok => /\ b.ok /\ Worth(f[m]) = Worth(b)
                                  /\ \A s : SharesOf(f[m], s) = SharesOf(b, s) + Upto(s, m)
           bad == {m \in 0 .. n : ~Ok(m)}
<1>5. Ok(0)
  <2>1. f[0] = b
    BY <1>1, <1>3 DEF FillsStep
  <2>2. 1 .. 0 = {}
    OBVIOUS
  <2>3. \A s : Upto(s, 0) = 0
    BY <2>2, SumNothing
  <2>4. b.ok => \A s : SharesOf(b, s) \in Int
    BY HeldLots DEF Sound, Good, SharesOf
  <2> HIDE DEF Upto
  <2> QED BY <2>1, <2>3, <2>4
<1>6. ASSUME NEW m \in 1 .. n, Ok(m - 1) PROVE Ok(m)
  <2>1. m \in Nat \ {0} /\ m \in 0 .. n /\ m - 1 \in 0 .. n /\ ValidFill(fills[m])
    BY <1>1
  <2>2. f[m] = ApplyFill(f[m - 1], fills[m], e.session)
    BY <1>3, <2>1 DEF FillsStep
  <2> HIDE DEF Upto
  <2>3. Sound(f[m - 1])
    BY <1>6
  <2>4. /\ IsBook(f[m])
        /\ f[m].ok => /\ f[m - 1].ok /\ Good(f[m]) /\ Worth(f[m]) = Worth(f[m - 1])
                      /\ \A s : SharesOf(f[m], s) = SharesOf(f[m - 1], s) + Net(fills[m], s)
    <3> DEFINE d == f[m - 1]
               g == f[m]
    <3>1. g = ApplyFill(d, fills[m], e.session) /\ IsBook(d) /\ (d.ok => Good(d))
      BY <2>2, <2>3 DEF Sound
    <3> HIDE DEF d, g
    <3>2. /\ IsBook(g)
          /\ g.ok => /\ d.ok /\ Good(g) /\ Worth(g) = Worth(d)
                     /\ \A s : SharesOf(g, s) = SharesOf(d, s) + Net(fills[m], s)
      BY <2>1, <3>1, FillKeepsBook
    <3> QED BY <3>2 DEF d, g
  <2>5. Sound(f[m])
    BY <2>4 DEF Sound
  <2> SUFFICES ASSUME f[m].ok
               PROVE  /\ b.ok /\ Worth(f[m]) = Worth(b)
                      /\ \A s : SharesOf(f[m], s) = SharesOf(b, s) + Upto(s, m)
    BY <2>5
  <2>6. /\ b.ok /\ Worth(f[m]) = Worth(b)
        /\ \A s : SharesOf(f[m - 1], s) = SharesOf(b, s) + Upto(s, m - 1)
        /\ \A s : SharesOf(f[m], s) = SharesOf(f[m - 1], s) + Net(fills[m], s)
    BY <1>6, <2>4
  <2>7. ASSUME NEW s PROVE SharesOf(f[m], s) = SharesOf(b, s) + Upto(s, m)
    <3> DEFINE a == NetOf(fills, s)
    <3>1. \A i \in 1 .. m : a[i] \in Int
      BY <1>1, <1>4
    <3>2. a[m] = Net(fills[m], s) /\ a[m] \in Int
      BY <1>4
    <3> HIDE DEF a
    <3>3. /\ SumFunctionOnSet(a, 1 .. m) = a[m] + SumFunctionOnSet(a, 1 .. m - 1)
          /\ SumFunctionOnSet(a, 1 .. m - 1) \in Int
      BY <2>1, <3>1, SumExtend
    <3>4. Upto(s, m) = Net(fills[m], s) + Upto(s, m - 1) /\ Upto(s, m - 1) \in Int
      BY <3>2, <3>3 DEF a, Upto
    <3>5. SharesOf(b, s) \in Int
      BY <2>6, HeldLots DEF Sound, Good, SharesOf
    <3>6. Net(fills[m], s) \in Int
      BY <1>4
    <3>7. /\ SharesOf(f[m - 1], s) = SharesOf(b, s) + Upto(s, m - 1)
          /\ SharesOf(f[m], s) = SharesOf(f[m - 1], s) + Net(fills[m], s)
      BY <2>6
    <3> QED BY <3>4, <3>5, <3>6, <3>7
  <2> QED BY <2>6, <2>7
<1>7. bad = {}
  <2> SUFFICES ASSUME bad # {} PROVE FALSE
    OBVIOUS
  <2>1. PICK m \in bad : \A k \in bad : m <= k
    <3>1. bad \in SUBSET Nat
      BY <1>1
    <3> HIDE DEF bad
    <3> QED BY <3>1, LeastExists
  <2> HIDE DEF Ok
  <2>2. m \in 1 .. n /\ m - 1 \in 0 .. n /\ m - 1 \notin bad
    BY <1>1, <1>5, <2>1
  <2>3. Ok(m - 1) /\ ~Ok(m)
    BY <2>1, <2>2
  <2> QED BY <1>6, <2>2, <2>3
<1>8. Ok(n)
  <2> HIDE DEF Ok
  <2> QED BY <1>1, <1>7
<1>9. \A s : SharesIn(e, s) = Upto(s, n)
  BY <1>1 DEF SharesIn, SumFunction, NetOf
<1> HIDE DEF Upto
<1> QED BY <1>2, <1>8, <1>9

\* An event without fills trades no shares.
LEMMA NoFills ==
  ASSUME NEW e, e.fills = <<>>, NEW s
  PROVE  SharesIn(e, s) = 0
<1>1. DOMAIN NetOf(e.fills, s) = {}
  BY DEF NetOf
<1> QED BY <1>1, SumNothing DEF SharesIn, SumFunction

\* Marks change prices, and neither money nor shares.
LEMMA MarkKeepsBook ==
  ASSUME NEW b, Sound(b), NEW marks, \A s \in DOMAIN marks : marks[s] \in Nat \ {0},
         NEW c, c = Mark(b, marks)
  PROVE  /\ Sound(c)
         /\ c.ok => /\ b.ok /\ Worth(c) = Worth(b)
                    /\ \A s : SharesOf(c, s) = SharesOf(b, s)
<1> DEFINE h == [s \in DOMAIN b.holdings |->
                   IF s \in DOMAIN marks
                   THEN [lots |-> b.holdings[s].lots, mark |-> marks[s]]
                   ELSE b.holdings[s]]
           valid == DOMAIN marks \subseteq DOMAIN b.holdings
           next == [b EXCEPT !.holdings = h]
<1>1. c = Checked(b, valid, next)
  BY DEF Mark
<1>2. IsBook(b)
  BY DEF Sound
<1>3. CASE ~(b.ok /\ valid)
  <2> HIDE DEF valid, next
  <2> QED BY <1>1, <1>2, <1>3, CheckedFacts DEF Sound
<1>4. CASE b.ok /\ valid
  <2>1. c = next
    <3> HIDE DEF valid, next
    <3> QED BY <1>1, <1>2, <1>4, CheckedFacts
  <2>2. GoodHoldings(b.holdings) /\ b.cash >= 0 /\ b.nav <= b.peak
    BY <1>4 DEF Good, Sound
  <2>3. /\ DOMAIN h = DOMAIN b.holdings
        /\ \A s \in DOMAIN h : h[s].lots = b.holdings[s].lots /\ h[s].mark \in Int
    BY <2>2 DEF GoodHoldings
  <2> HIDE DEF h
  <2>4. /\ IsBook(c) /\ c.ok = b.ok /\ c.cash = b.cash /\ c.realized = b.realized
        /\ c.nav = b.nav /\ c.peak = b.peak /\ c.holdings = h
    <3>1. b \in [ok : BOOLEAN, cash : Int, realized : Int, nav : Int, peak : Int,
                  holdings : {b.holdings}]
      BY <1>2 DEF IsBook
    <3>2. /\ c.ok = b.ok /\ c.cash = b.cash /\ c.realized = b.realized
          /\ c.nav = b.nav /\ c.peak = b.peak /\ c.holdings = h
      BY <2>1, <3>1
    <3>3. c \in [ok : BOOLEAN, cash : Int, realized : Int, nav : Int, peak : Int,
                  holdings : {h}]
      BY <2>1, <3>1
    <3> QED BY <3>2, <3>3 DEF IsBook
  <2>5. GoodHoldings(h)
    BY <2>2, <2>3 DEF GoodHoldings
  <2>6. \A s : LotsOf(c, s) = LotsOf(b, s)
    BY <2>3, <2>4 DEF LotsOf
  <2>7. OpenCost(c) = OpenCost(b)
    <3> DEFINE S == DOMAIN b.holdings
               f == [s \in S |-> LotCost(b.holdings[s].lots)]
               g == [s \in S |-> LotCost(h[s].lots)]
    <3>1. IsFiniteSet(S) /\ \A s \in S : f[s] = g[s]
      BY <2>2, <2>3 DEF GoodHoldings
    <3>2. OpenCost(b) = SumFunctionOnSet(f, S) /\ OpenCost(c) = SumFunctionOnSet(g, S)
      BY <2>3, <2>4 DEF OpenCost, SumFunction
    <3> HIDE DEF S, f, g
    <3> QED BY <3>1, <3>2, SumSame
  <2>8. Good(c)
    BY <2>2, <2>4, <2>5 DEF Good
  <2> QED BY <1>4, <2>4, <2>6, <2>7, <2>8 DEF Sound, Worth, SharesOf
<1> QED BY <1>3, <1>4

\* So do complete valuations.
LEMMA CompleteMarksKeepBook ==
  ASSUME NEW b, Sound(b), NEW marks, \A s \in DOMAIN marks : marks[s] \in Nat \ {0},
         NEW c, c = ApplyCompleteMarks(b, marks)
  PROVE  /\ Sound(c)
         /\ c.ok => /\ b.ok /\ Worth(c) = Worth(b)
                    /\ \A s : SharesOf(c, s) = SharesOf(b, s)
<1> DEFINE valid == DOMAIN marks = DOMAIN b.holdings
           next == Mark(b, marks)
<1>1. c = Checked(b, valid, next) /\ IsBook(b)
  BY DEF ApplyCompleteMarks, Sound
<1>2. CASE ~(b.ok /\ valid)
  <2> HIDE DEF valid, next
  <2> QED BY <1>1, <1>2, CheckedFacts DEF Sound
<1>3. CASE b.ok /\ valid
  <2>1. c = next
    <3> HIDE DEF valid, next
    <3> QED BY <1>1, <1>3, CheckedFacts
  <2> QED BY <2>1, MarkKeepsBook
<1> QED BY <1>2, <1>3

\* A new net value is at most the new high-water mark.
LEMMA RevalueKeepsBook ==
  ASSUME NEW b, Sound(b), NEW c, c = Revalue(b)
  PROVE  /\ Sound(c)
         /\ c.ok => /\ b.ok /\ Worth(c) = Worth(b)
                    /\ \A s : SharesOf(c, s) = SharesOf(b, s)
<1> DEFINE S == DOMAIN b.holdings
           v == [s \in S |-> LotQuantity(b.holdings[s].lots) * b.holdings[s].mark]
           nav == b.cash + SumFunction(v)
           peak == IF nav > b.peak THEN nav ELSE b.peak
           next == [b EXCEPT !.nav = nav, !.peak = peak]
<1>1. c = Checked(b, TRUE, next)
  BY DEF Revalue
<1>2. IsBook(b)
  BY DEF Sound
<1>3. CASE ~b.ok
  <2> HIDE DEF next
  <2> QED BY <1>1, <1>2, <1>3, CheckedFacts DEF Sound
<1>4. CASE b.ok
  <2>1. c = next
    <3> HIDE DEF next
    <3> QED BY <1>1, <1>2, <1>4, CheckedFacts
  <2>2. GoodHoldings(b.holdings) /\ b.cash >= 0
    BY <1>4 DEF Good, Sound
  <2>3. nav \in Int
    <3>1. IsFiniteSet(S)
      BY <2>2 DEF GoodHoldings
    <3>2. \A s \in S : v[s] \in Int
      <4> SUFFICES ASSUME NEW s \in S PROVE v[s] \in Int
        OBVIOUS
      <4>1. GoodLots(b.holdings[s].lots) /\ b.holdings[s].mark \in Int
        BY <2>2 DEF GoodHoldings
      <4>2. LotQuantity(b.holdings[s].lots) \in Int
        BY <4>1, LotSums
      <4> QED BY <4>1, <4>2
    <3>3. SumFunction(v) = SumFunctionOnSet(v, S)
      BY DEF SumFunction
    <3>4. b.cash \in Int
      BY <1>2 DEF IsBook
    <3> HIDE DEF S, v
    <3>5. SumFunctionOnSet(v, S) \in Int
      BY <3>1, <3>2, SumIsInt
    <3> QED BY <3>3, <3>4, <3>5
  <2> HIDE DEF nav
  <2>4. b \in [ok : BOOLEAN, cash : Int, realized : Int, nav : Int, peak : Int,
               holdings : {b.holdings}]
    BY <1>2 DEF IsBook
  <2>5. peak \in Int /\ nav <= peak
    BY <2>3, <2>4
  <2> HIDE DEF peak
  <2>6. /\ c.ok = b.ok /\ c.cash = b.cash /\ c.realized = b.realized
        /\ c.nav = nav /\ c.peak = peak /\ c.holdings = b.holdings
    BY <2>1, <2>4
  <2>7. IsBook(c)
    <3>1. c \in [ok : BOOLEAN, cash : Int, realized : Int, nav : Int, peak : Int,
                  holdings : {b.holdings}]
      BY <2>1, <2>3, <2>4, <2>5
    <3> QED BY <2>6, <3>1 DEF IsBook
  <2>8. \A s : LotsOf(c, s) = LotsOf(b, s)
    BY <2>6 DEF LotsOf
  <2>9. OpenCost(c) = OpenCost(b)
    BY <2>6 DEF OpenCost
  <2>10. Good(c)
    BY <2>2, <2>5, <2>6 DEF Good
  <2> QED BY <1>4, <2>6, <2>7, <2>8, <2>9, <2>10 DEF Sound, Worth, SharesOf
<1> QED BY <1>3, <1>4

\* An adjustment adds its amount, if the cash stays nonnegative.
LEMMA AdjustKeepsBook ==
  ASSUME NEW b, Sound(b), NEW amount \in Int,
         NEW c, c = Checked(b, b.cash + amount >= 0, [b EXCEPT !.cash = @ + amount])
  PROVE  /\ Sound(c)
         /\ c.ok => /\ b.ok /\ Worth(c) = Worth(b) + amount
                    /\ \A s : SharesOf(c, s) = SharesOf(b, s)
<1> DEFINE next == [b EXCEPT !.cash = @ + amount]
           valid == b.cash + amount >= 0
<1>1. IsBook(b)
  BY DEF Sound
<1>2. CASE ~(b.ok /\ valid)
  <2> HIDE DEF valid, next
  <2> QED BY <1>1, <1>2, CheckedFacts DEF Sound, next, valid
<1>3. CASE b.ok /\ valid
  <2>1. c = next
    BY <1>1, <1>3, CheckedFacts
  <2>2. b \in [ok : BOOLEAN, cash : Int, realized : Int, nav : Int, peak : Int,
               holdings : {b.holdings}]
    BY <1>1 DEF IsBook
  <2>3. /\ c.ok = b.ok /\ c.cash = b.cash + amount /\ c.realized = b.realized
        /\ c.nav = b.nav /\ c.peak = b.peak /\ c.holdings = b.holdings
    BY <2>1, <2>2
  <2>4. IsBook(c)
    <3>1. c \in [ok : BOOLEAN, cash : Int, realized : Int, nav : Int, peak : Int,
                  holdings : {b.holdings}]
      BY <2>1, <2>2
    <3> QED BY <2>3, <3>1 DEF IsBook
  <2>5. Good(b)
    BY <1>3 DEF Sound
  <2>6. Good(c)
    BY <1>3, <2>3, <2>5 DEF Good
  <2>7. \A s : LotsOf(c, s) = LotsOf(b, s)
    BY <2>3 DEF LotsOf
  <2>8. OpenCost(c) = OpenCost(b) /\ OpenCost(b) \in Int
    BY <2>3, <2>5, OpenCostIsInt DEF OpenCost, Good
  <2>9. Worth(c) = Worth(b) + amount
    BY <2>2, <2>3, <2>8 DEF Worth
  <2> QED BY <1>3, <2>4, <2>6, <2>7, <2>9 DEF Sound, SharesOf
<1> QED BY <1>2, <1>3

\* An event of a running account pays in its amount and trades its fills.
LEMMA EventKeepsBook ==
  ASSUME NEW b, Sound(b), NEW e, ValidEvent(e), e.type # "CashInitialized", ~IsReversal(e),
         NEW c, c = ApplyEvent(b, e)
  PROVE  /\ Sound(c)
         /\ c.ok => /\ b.ok /\ Worth(c) = Worth(b) + e.amount
                    /\ \A s : SharesOf(c, s) = SharesOf(b, s) + SharesIn(e, s)
<1>1. b.ok => Worth(b) \in Int /\ \A s : SharesOf(b, s) \in Int
  <2> SUFFICES ASSUME b.ok PROVE Worth(b) \in Int /\ \A s : SharesOf(b, s) \in Int
    OBVIOUS
  <2>1. Good(b) /\ b.cash \in Int /\ b.realized \in Int
    BY DEF Sound, IsBook
  <2>2. OpenCost(b) \in Int /\ \A s : SharesOf(b, s) \in Int
    BY <2>1, OpenCostIsInt, HeldLots DEF Good, SharesOf
  <2> QED BY <2>1, <2>2 DEF Worth
<1> DEFINE Kept(d) == /\ Sound(d)
                      /\ d.ok => /\ b.ok /\ Worth(d) = Worth(b) + e.amount
                                 /\ \A s : SharesOf(d, s) = SharesOf(b, s) + SharesIn(e, s)
<1>2. ASSUME NEW d, Kept(d), c = Revalue(d) PROVE Kept(c)
  BY <1>2, RevalueKeepsBook
<1>3. \A s \in DOMAIN e.marks : e.marks[s] \in Nat \ {0}
  BY DEF ValidEvent
<1>4. e.type # "CashAdjusted" => e.amount = 0
  BY DEF ValidEvent
<1>5. e.type \notin FillTypes => \A s : SharesIn(e, s) = 0
  BY NoFills DEF ValidEvent
<1>6. CASE e.type = "CashAdjusted"
  <2> DEFINE d == Checked(b, b.cash + e.amount >= 0, [b EXCEPT !.cash = @ + e.amount])
  <2>1. c = Revalue(d)
    BY <1>6 DEF ApplyEvent
  <2>2. e.amount \in Int /\ \A s : SharesIn(e, s) = 0
    BY <1>5, <1>6 DEF ValidEvent, FillTypes
  <2>3. /\ Sound(d)
        /\ d.ok => /\ b.ok /\ Worth(d) = Worth(b) + e.amount
                   /\ \A s : SharesOf(d, s) = SharesOf(b, s)
    BY <2>2, AdjustKeepsBook
  <2> HIDE DEF d
  <2>4. Kept(d)
    BY <1>1, <2>2, <2>3
  <2> QED BY <1>2, <2>1, <2>4
<1>7. CASE e.type \in {"BuyFilled", "SellFilled"}
  <2> DEFINE d == ApplyFills(b, e)
  <2>1. c = Revalue(d)
    BY <1>7 DEF ApplyEvent
  <2>2. /\ Sound(d)
        /\ d.ok => /\ b.ok /\ Worth(d) = Worth(b)
                   /\ \A s : SharesOf(d, s) = SharesOf(b, s) + SharesIn(e, s)
    BY FillsKeepBook
  <2> HIDE DEF d
  <2>3. Kept(d)
    BY <1>1, <1>4, <1>7, <2>2
  <2> QED BY <1>2, <2>1, <2>3
<1>8. CASE e.type = "OpenExecutionBatchBooked"
  <2> DEFINE a == ApplyFills(b, e)
             d == ApplyCompleteMarks(a, e.marks)
  <2>1. c = Revalue(d)
    BY <1>8 DEF ApplyEvent
  <2>2. /\ Sound(a)
        /\ a.ok => /\ b.ok /\ Worth(a) = Worth(b)
                   /\ \A s : SharesOf(a, s) = SharesOf(b, s) + SharesIn(e, s)
    BY FillsKeepBook
  <2> HIDE DEF a
  <2>3. /\ Sound(d)
        /\ d.ok => /\ a.ok /\ Worth(d) = Worth(a)
                   /\ \A s : SharesOf(d, s) = SharesOf(a, s)
    BY <1>3, <2>2, CompleteMarksKeepBook
  <2> HIDE DEF d
  <2>4. Kept(d)
    BY <1>1, <1>4, <1>8, <2>2, <2>3
  <2> QED BY <1>2, <2>1, <2>4
<1>9. CASE e.type = "PortfolioMarked"
  <2> DEFINE d == ApplyCompleteMarks(b, e.marks)
  <2>1. c = Revalue(d)
    BY <1>9 DEF ApplyEvent
  <2>2. /\ Sound(d)
        /\ d.ok => /\ b.ok /\ Worth(d) = Worth(b) /\ \A s : SharesOf(d, s) = SharesOf(b, s)
    BY <1>3, CompleteMarksKeepBook
  <2>3. \A s : SharesIn(e, s) = 0
    BY <1>5, <1>9 DEF FillTypes
  <2> HIDE DEF d
  <2>4. Kept(d)
    BY <1>1, <1>4, <1>9, <2>2, <2>3
  <2> QED BY <1>2, <2>1, <2>4
<1>10. CASE e.type = "PositionMarked"
  <2> DEFINE d == Mark(b, e.marks)
  <2>1. c = Revalue(d)
    BY <1>10 DEF ApplyEvent
  <2>2. /\ Sound(d)
        /\ d.ok => /\ b.ok /\ Worth(d) = Worth(b) /\ \A s : SharesOf(d, s) = SharesOf(b, s)
    BY <1>3, MarkKeepsBook
  <2>3. \A s : SharesIn(e, s) = 0
    BY <1>5, <1>10 DEF FillTypes
  <2> HIDE DEF d
  <2>4. Kept(d)
    BY <1>1, <1>4, <1>10, <2>2, <2>3
  <2> QED BY <1>2, <2>1, <2>4
<1> QED BY <1>6, <1>7, <1>8, <1>9, <1>10 DEF ValidEvent, IsReversal, FillTypes, ValuationTypes

\* The opening is a book of its amount in cash.
LEMMA OpeningIsSound ==
  ASSUME NEW b, NEW e, ValidEvent(e), e.type = "CashInitialized", NEW c, c = ApplyEvent(b, e)
  PROVE  /\ Sound(c) /\ Worth(c) = e.amount
         /\ \A s : SharesOf(c, s) = SharesIn(e, s) /\ SharesIn(e, s) = 0
<1> DEFINE d == [EmptyBook EXCEPT !.cash = e.amount, !.peak = e.amount]
<1>1. c = Revalue(d)
  BY DEF ApplyEvent
<1>2. e.amount \in Int /\ e.amount >= 0 /\ e.fills = <<>>
  BY DEF ValidEvent, FillTypes
<1>3. /\ d.ok = TRUE /\ d.cash = e.amount /\ d.realized = 0 /\ d.nav = 0 /\ d.peak = e.amount
      /\ d.holdings = <<>>
  BY DEF EmptyBook
<1>4. DOMAIN d.holdings = {} /\ IsFiniteSet({})
  BY <1>3, FS_EmptySet
<1>5. GoodHoldings(d.holdings)
  BY <1>4 DEF GoodHoldings
<1>6. IsBook(d)
  <2> DEFINE none == <<>>
  <2>1. EmptyBook = [ok |-> TRUE, cash |-> 0, realized |-> 0, nav |-> 0, peak |-> 0,
                     holdings |-> none]
    BY DEF EmptyBook
  <2>2. d.holdings = none
    BY <1>3
  <2> HIDE DEF none
  <2>3. EmptyBook \in [ok : BOOLEAN, cash : Int, realized : Int, nav : Int, peak : Int,
                       holdings : {none}]
    BY <2>1
  <2>4. d \in [ok : BOOLEAN, cash : Int, realized : Int, nav : Int, peak : Int,
               holdings : {none}]
    BY <1>2, <2>3
  <2> HIDE DEF d
  <2> QED BY <2>2, <2>4 DEF IsBook
<1>7. Sound(d)
  BY <1>2, <1>3, <1>5, <1>6 DEF Sound, Good
<1>8. OpenCost(d) = 0
  <2> DEFINE f == [s \in DOMAIN d.holdings |-> LotCost(d.holdings[s].lots)]
  <2>1. DOMAIN f = {}
    BY <1>4
  <2> HIDE DEF f
  <2>2. SumFunction(f) = 0
    BY <2>1, SumNothing DEF SumFunction
  <2> QED BY <2>2 DEF OpenCost, f
<1>9. \A s : SharesOf(d, s) = 0
  BY <1>4, NoLots DEF SharesOf, LotsOf
<1>10. Worth(d) = e.amount
  BY <1>2, <1>3, <1>8 DEF Worth
<1> HIDE DEF d
<1>11. c.ok
  BY <1>1, <1>3, <1>6 DEF Revalue, Checked, IsBook
<1>12. /\ Sound(c) /\ Worth(c) = Worth(d) /\ \A s : SharesOf(c, s) = SharesOf(d, s)
  BY <1>1, <1>7, <1>11, RevalueKeepsBook
<1> QED BY <1>2, <1>9, <1>10, <1>12, NoFills

-----------------------------------------------------------------------------
(* Streams *)

\* What an event trades of a symbol is an integer.
LEMMA SharesInIsInt ==
  ASSUME NEW e, ValidEvent(e), NEW s
  PROVE  SharesIn(e, s) \in Int
<1> DEFINE fills == e.fills
           a == NetOf(fills, s)
<1>1. IsSeq(fills) /\ \A fill \in ToSet(fills) : ValidFill(fill)
  BY DEF ValidEvent, IsSeq
<1>2. DOMAIN a = DOMAIN fills /\ IsFiniteSet(DOMAIN fills)
  BY <1>1, SeqShape DEF NetOf
<1>3. ASSUME NEW i \in DOMAIN fills PROVE a[i] \in Int
  <2>1. fills[i].quantity \in Nat
    BY <1>1, SeqShape DEF ValidFill
  <2> QED BY <2>1 DEF NetOf, Net
<1>4. SharesIn(e, s) = SumFunctionOnSet(a, DOMAIN a)
  BY DEF SharesIn, SumFunction
<1> HIDE DEF a, fills
<1> QED BY <1>2, <1>3, <1>4, SumIsInt

\* The events are applied one by one.
ReplayStep(events, f, n) == IF n = 0 THEN EmptyBook ELSE ApplyEvent(f[n - 1], events[n])
ReplayTable(events, f) == f = [n \in 0 .. Len(events) |-> ReplayStep(events, f, n)]

\* The table of the books after each event exists.
LEMMA ReplayTableExists ==
  ASSUME NEW events, Len(events) \in Nat
  PROVE  \E f : ReplayTable(events, f)
<1> DEFINE Upto(n) == \E f : f = [i \in 0 .. n |-> ReplayStep(events, f, i)]
           bad == {n \in Nat : ~Upto(n)}
<1>1. Upto(0)
  <2> DEFINE f == [i \in 0 .. 0 |-> EmptyBook]
  <2>1. f = [i \in 0 .. 0 |-> ReplayStep(events, f, i)]
    BY DEF ReplayStep
  <2> QED BY <2>1
<1>2. ASSUME NEW n \in Nat \ {0}, Upto(n - 1) PROVE Upto(n)
  <2>1. PICK f : f = [i \in 0 .. n - 1 |-> ReplayStep(events, f, i)]
    BY <1>2
  <2> DEFINE g == [i \in 0 .. n |-> IF i = n THEN ReplayStep(events, f, n) ELSE f[i]]
  <2>2. \A i \in 0 .. n - 1 : g[i] = f[i]
    OBVIOUS
  <2>3. ASSUME NEW i \in 0 .. n PROVE g[i] = ReplayStep(events, g, i)
    <3>1. i # 0 => i - 1 \in 0 .. n - 1 /\ g[i - 1] = f[i - 1]
      BY <2>2
    <3>2. ReplayStep(events, g, i) = ReplayStep(events, f, i)
      BY <3>1 DEF ReplayStep
    <3>3. i # n => f[i] = ReplayStep(events, f, i)
      <4>1. i # n => i \in 0 .. n - 1
        OBVIOUS
      <4> QED BY <2>1, <4>1
    <3> QED BY <3>2, <3>3
  <2>4. g = [i \in 0 .. n |-> ReplayStep(events, g, i)]
    BY <2>3
  <2> HIDE DEF g
  <2> QED BY <2>4
<1> HIDE DEF Upto
<1>3. bad = {}
  <2> SUFFICES ASSUME bad # {} PROVE FALSE
    OBVIOUS
  <2>1. PICK n \in bad : \A m \in bad : n <= m
    <3> HIDE DEF bad
    <3>1. bad \in SUBSET Nat
      BY DEF bad
    <3> QED BY <3>1, LeastExists
  <2>2. n \in Nat \ {0} /\ n - 1 \in Nat
    BY <1>1, <2>1
  <2>3. n - 1 \notin bad
    BY <2>1, <2>2
  <2> QED BY <1>2, <2>1, <2>2, <2>3
<1>4. Upto(Len(events))
  BY <1>3
<1> QED BY <1>4 DEF ReplayTable, Upto

\* Replay is its last entry.
LEMMA ReplayIs ==
  ASSUME NEW events, Len(events) \in Nat
  PROVE  \E f : ReplayTable(events, f) /\ Replay(events) = f[Len(events)]
<1> DEFINE f == CHOOSE g : ReplayTable(events, g)
<1>1. ReplayTable(events, f)
  <2>1. \E g : ReplayTable(events, g)
    BY ReplayTableExists
  <2> QED BY <2>1
<1>2. Replay(events) = f[Len(events)]
  BY DEF Replay, ReplayTable, ReplayStep
<1> HIDE DEF f
<1> QED BY <1>1, <1>2

\* A stream with no opening but its first event, and no reversal, keeps its books.
LEMMA ReplayKeepsBooks ==
  ASSUME NEW T, NEW events \in Seq(T),
         \A i \in 1 .. Len(events) :
           /\ ValidEvent(events[i]) /\ ~IsReversal(events[i])
           /\ events[i].type = "CashInitialized" => i = 1
  PROVE  /\ Sound(Replay(events))
         /\ Replay(events).ok =>
              /\ Worth(Replay(events)) = PaidIn(events)
              /\ \A s : SharesOf(Replay(events), s) = NetShares(events, s)
<1> DEFINE n == Len(events)
           paid == [i \in DOMAIN events |-> events[i].amount]
           trades(s) == [i \in DOMAIN events |-> SharesIn(events[i], s)]
           Paid(m) == SumFunctionOnSet(paid, 1 .. m)
           Traded(s, m) == SumFunctionOnSet(trades(s), 1 .. m)
<1>1. n \in Nat /\ DOMAIN events = 1 .. n
  OBVIOUS
<1>2. PICK f : ReplayTable(events, f) /\ Replay(events) = f[n]
  BY <1>1, ReplayIs
<1>3. \A m \in 0 .. n : f[m] = ReplayStep(events, f, m)
  BY <1>2 DEF ReplayTable
<1>4. \A i \in 1 .. n : paid[i] = events[i].amount /\ paid[i] \in Int
  BY <1>1 DEF ValidEvent
<1>5. \A s : \A i \in 1 .. n : trades(s)[i] = SharesIn(events[i], s) /\ trades(s)[i] \in Int
  BY <1>1, SharesInIsInt
<1> DEFINE Ok(m) == /\ Sound(f[m])
                    /\ f[m].ok => /\ Worth(f[m]) = Paid(m)
                                  /\ \A s : SharesOf(f[m], s) = Traded(s, m)
           bad == {m \in 0 .. n : ~Ok(m)}
<1>6. Ok(0)
  <2>1. f[0] = EmptyBook
    BY <1>1, <1>3 DEF ReplayStep
  <2>2. /\ EmptyBook.cash = 0 /\ EmptyBook.realized = 0 /\ EmptyBook.nav = 0
        /\ EmptyBook.peak = 0 /\ EmptyBook.holdings = <<>> /\ DOMAIN EmptyBook.holdings = {}
    BY DEF EmptyBook
  <2>3. IsBook(EmptyBook)
    <3> DEFINE none == <<>>
    <3>1. EmptyBook = [ok |-> TRUE, cash |-> 0, realized |-> 0, nav |-> 0, peak |-> 0,
                       holdings |-> none]
      BY DEF EmptyBook
    <3> HIDE DEF none
    <3> QED BY <3>1 DEF IsBook
  <2>4. Good(EmptyBook)
    BY <2>2, FS_EmptySet DEF Good, GoodHoldings
  <2>5. OpenCost(EmptyBook) = 0
    <3> DEFINE g == [s \in DOMAIN EmptyBook.holdings |-> LotCost(EmptyBook.holdings[s].lots)]
    <3>1. DOMAIN g = {}
      BY <2>2
    <3> HIDE DEF g
    <3>2. SumFunction(g) = 0
      BY <3>1, SumNothing DEF SumFunction
    <3> QED BY <3>2 DEF OpenCost, g
  <2>6. \A s : SharesOf(EmptyBook, s) = 0
    BY <2>2, NoLots DEF SharesOf, LotsOf
  <2>7. 1 .. 0 = {}
    OBVIOUS
  <2>8. Paid(0) = 0 /\ \A s : Traded(s, 0) = 0
    BY <2>7, SumNothing
  <2> HIDE DEF Paid, Traded
  <2> QED BY <2>1, <2>2, <2>3, <2>4, <2>5, <2>6, <2>8 DEF Sound, Worth
<1>7. ASSUME NEW m \in 1 .. n, Ok(m - 1) PROVE Ok(m)
  <2>1. m \in Nat \ {0} /\ m \in 0 .. n /\ m - 1 \in 0 .. n
    BY <1>1
  <2>2. f[m] = ApplyEvent(f[m - 1], events[m])
    BY <1>3, <2>1 DEF ReplayStep
  <2>3. Paid(m) = events[m].amount + Paid(m - 1) /\ Paid(m - 1) \in Int
    <3> HIDE DEF paid
    <3>1. \A i \in 1 .. m : paid[i] \in Int
      BY <1>1, <1>4
    <3>2. /\ SumFunctionOnSet(paid, 1 .. m) = paid[m] + SumFunctionOnSet(paid, 1 .. m - 1)
          /\ SumFunctionOnSet(paid, 1 .. m - 1) \in Int
      BY <2>1, <3>1, SumExtend
    <3> QED BY <1>4, <3>2
  <2>4. ASSUME NEW s
        PROVE  /\ Traded(s, m) = SharesIn(events[m], s) + Traded(s, m - 1)
               /\ Traded(s, m - 1) \in Int
    <3> DEFINE a == trades(s)
    <3>1. /\ \A i \in 1 .. m : a[i] \in Int
          /\ a[m] = SharesIn(events[m], s)
      BY <1>1, <1>5
    <3> HIDE DEF a
    <3>2. /\ SumFunctionOnSet(a, 1 .. m) = a[m] + SumFunctionOnSet(a, 1 .. m - 1)
          /\ SumFunctionOnSet(a, 1 .. m - 1) \in Int
      BY <2>1, <3>1, SumExtend
    <3> QED BY <3>1, <3>2 DEF a
  <2> HIDE DEF Paid, Traded
  <2>5. ValidEvent(events[m]) /\ ~IsReversal(events[m])
    OBVIOUS
  <2>6. CASE events[m].type = "CashInitialized"
    <3>1. m = 1
      BY <2>6
    <3>2. 1 .. 0 = {} /\ m - 1 = 0
      BY <3>1
    <3>3. Paid(m - 1) = 0 /\ \A s : Traded(s, m - 1) = 0
      BY <3>2, SumNothing DEF Paid, Traded
    <3> DEFINE g == f[m]
               e == events[m]
    <3>4. /\ Sound(g) /\ Worth(g) = e.amount
          /\ \A s : SharesOf(g, s) = SharesIn(e, s) /\ SharesIn(e, s) = 0
      <4>1. g = ApplyEvent(f[m - 1], e) /\ ValidEvent(e) /\ e.type = "CashInitialized"
        BY <2>2, <2>5, <2>6
      <4> HIDE DEF g, e
      <4> QED BY <4>1, OpeningIsSound
    <3>5. events[m].amount \in Int
      BY <2>5 DEF ValidEvent
    <3>6. Worth(f[m]) = Paid(m)
      BY <2>3, <3>3, <3>4, <3>5
    <3>7. \A s : SharesOf(f[m], s) = Traded(s, m)
      BY <2>4, <3>3, <3>4
    <3> QED BY <3>4, <3>6, <3>7
  <2>7. CASE events[m].type # "CashInitialized"
    <3> DEFINE b == f[m - 1]
               g == f[m]
               e == events[m]
    <3>1. /\ Sound(g)
          /\ g.ok => /\ b.ok /\ Worth(g) = Worth(b) + e.amount
                     /\ \A s : SharesOf(g, s) = SharesOf(b, s) + SharesIn(e, s)
      <4>1. /\ g = ApplyEvent(b, e) /\ ValidEvent(e) /\ e.type # "CashInitialized"
            /\ ~IsReversal(e) /\ Sound(b)
        BY <1>7, <2>2, <2>5, <2>7
      <4> HIDE DEF b, g, e
      <4> QED BY <4>1, EventKeepsBook
    <3>2. b.ok => Worth(b) = Paid(m - 1) /\ \A s : SharesOf(b, s) = Traded(s, m - 1)
      BY <1>7
    <3>3. e.amount \in Int /\ \A s : SharesIn(e, s) \in Int
      BY <2>5, SharesInIsInt DEF ValidEvent
    <3> HIDE DEF b, g, e
    <3>4. g.ok => Worth(g) = Paid(m)
      BY <2>3, <3>1, <3>2, <3>3 DEF e
    <3>5. g.ok => \A s : SharesOf(g, s) = Traded(s, m)
      <4> SUFFICES ASSUME g.ok, NEW s PROVE SharesOf(g, s) = Traded(s, m)
        OBVIOUS
      <4>1. SharesOf(g, s) = Traded(s, m - 1) + SharesIn(e, s)
        BY <3>1, <3>2
      <4>2. Traded(s, m) = SharesIn(e, s) + Traded(s, m - 1) /\ Traded(s, m - 1) \in Int
        BY <2>4 DEF e
      <4>3. SharesIn(e, s) \in Int
        BY <3>3
      <4> QED BY <4>1, <4>2, <4>3
    <3> QED BY <3>1, <3>4, <3>5 DEF g
  <2> QED BY <2>6, <2>7
<1>8. bad = {}
  <2> SUFFICES ASSUME bad # {} PROVE FALSE
    OBVIOUS
  <2>1. PICK m \in bad : \A k \in bad : m <= k
    <3>1. bad \in SUBSET Nat
      BY <1>1
    <3> HIDE DEF bad
    <3> QED BY <3>1, LeastExists
  <2> HIDE DEF Ok
  <2>2. m \in 1 .. n /\ m - 1 \in 0 .. n /\ m - 1 \notin bad
    BY <1>1, <1>6, <2>1
  <2>3. Ok(m - 1) /\ ~Ok(m)
    BY <2>1, <2>2
  <2> QED BY <1>7, <2>2, <2>3
<1>9. Ok(n)
  <2> HIDE DEF Ok
  <2> QED BY <1>1, <1>8
<1>10. PaidIn(events) = Paid(n)
  BY <1>1 DEF PaidIn, SumFunction
<1>11. \A s : NetShares(events, s) = Traded(s, n)
  BY <1>1 DEF NetShares, SharesIn, NetOf, SumFunction
<1> HIDE DEF Paid, Traded
<1> QED BY <1>2, <1>9, <1>10, <1>11

\* What is left out only moves the others forward.
LEMMA ThosePlaces ==
  ASSUME NEW T, NEW events \in Seq(T), NEW keep
  PROVE  \A k \in 1 .. Len(Those(events, keep)) :
           \E i \in 1 .. Len(events) : k <= i /\ Those(events, keep)[k] = events[i]
<1>1. PICK f : ThoseTable(events, keep, f) /\ Those(events, keep) = f[Len(events)]
  BY ThoseIs
<1> DEFINE n == Len(events)
           Ok(m) == /\ f[m] \in Seq(T) /\ Len(f[m]) <= m
                    /\ \A k \in 1 .. Len(f[m]) : \E i \in 1 .. m : k <= i /\ f[m][k] = events[i]
           bad == {m \in 0 .. n : ~Ok(m)}
<1>2. \A m \in 0 .. n : f[m] = ThoseStep(events, keep, f, m)
  BY <1>1 DEF ThoseTable
<1>3. n \in Nat /\ \A i \in 1 .. n : events[i] \in T
  OBVIOUS
<1>4. Ok(0)
  <2>1. f[0] = <<>>
    BY <1>2, <1>3 DEF ThoseStep
  <2> QED BY <2>1
<1>5. ASSUME NEW m \in 1 .. n, Ok(m - 1) PROVE Ok(m)
  <2>1. m \in 0 .. n /\ m # 0 /\ m \in Nat
    BY <1>3
  <2>2. CASE events[m] \in keep
    <3> DEFINE old == f[m - 1]
               new == f[m]
    <3>1. old \in Seq(T) /\ Len(old) <= m - 1 /\ new = Append(old, events[m])
      BY <1>2, <1>5, <2>1, <2>2 DEF ThoseStep
    <3>2. \A k \in 1 .. Len(old) : \E i \in 1 .. m - 1 : k <= i /\ old[k] = events[i]
      BY <1>5
    <3>3. events[m] \in T
      BY <1>3
    <3> HIDE DEF old, new
    <3>4. /\ Len(old) \in Nat /\ new \in Seq(T) /\ Len(new) = Len(old) + 1
          /\ new[Len(old) + 1] = events[m] /\ \A k \in 1 .. Len(old) : new[k] = old[k]
      BY <3>1, <3>3
    <3>5. ASSUME NEW k \in 1 .. Len(new) PROVE \E i \in 1 .. m : k <= i /\ new[k] = events[i]
      <4>1. CASE k = Len(old) + 1
        BY <2>1, <3>1, <3>4, <4>1
      <4>2. CASE k # Len(old) + 1
        <5>1. k \in 1 .. Len(old) /\ new[k] = old[k]
          BY <3>4, <4>2
        <5>2. PICK i \in 1 .. m - 1 : k <= i /\ old[k] = events[i]
          BY <3>2, <5>1
        <5>3. i \in 1 .. m
          BY <2>1, <5>2
        <5> QED BY <5>1, <5>2, <5>3
      <4> QED BY <4>1, <4>2
    <3>6. Len(new) <= m
      BY <2>1, <3>1, <3>4
    <3> QED BY <3>4, <3>5, <3>6 DEF new
  <2>3. CASE events[m] \notin keep
    <3>1. f[m] = f[m - 1]
      BY <1>2, <2>1, <2>3 DEF ThoseStep
    <3>2. \A i \in 1 .. m - 1 : i \in 1 .. m
      BY <2>1
    <3>3. f[m] \in Seq(T) /\ Len(f[m]) <= m - 1
      BY <1>5, <3>1
    <3>4. Len(f[m]) <= m
      BY <2>1, <3>3
    <3> QED BY <1>5, <3>1, <3>2, <3>3, <3>4
  <2> QED BY <2>2, <2>3
<1>6. bad = {}
  <2> SUFFICES ASSUME bad # {} PROVE FALSE
    OBVIOUS
  <2>1. PICK m \in bad : \A k \in bad : m <= k
    <3>1. bad \in SUBSET Nat
      BY <1>3
    <3> HIDE DEF bad
    <3> QED BY <3>1, LeastExists
  <2> HIDE DEF Ok
  <2>2. m \in 1 .. n /\ m - 1 \in 0 .. n /\ m - 1 \notin bad
    BY <1>3, <1>4, <2>1
  <2>3. Ok(m - 1) /\ ~Ok(m)
    BY <2>1, <2>2
  <2> QED BY <1>5, <2>2, <2>3
<1>7. Ok(n)
  <2> HIDE DEF Ok
  <2> QED BY <1>3, <1>6
<1> QED BY <1>1, <1>7

\* A stream that is accepted keeps its books.
LEMMA AcceptedKeepsBooks ==
  ASSUME NEW T, NEW events \in Seq(T), \A e \in T : ValidEvent(e), Accepts(events)
  PROVE  Balanced(events) /\ Solvent(events)
<1> DEFINE active == ActiveEvents(events)
           book == Replay(active)
           reversed == {e.target : e \in {f \in ToSet(events) : IsReversal(f)}}
           keep == {e \in ToSet(events) : ~IsReversal(e) /\ e.id \notin reversed}
<1>1. active = Those(events, keep) /\ \A e \in keep : ~IsReversal(e)
  BY DEF ActiveEvents
<1> HIDE DEF keep
<1>2. active \in Seq(T) /\ ToSet(active) \subseteq keep
  BY <1>1, ThoseRange
<1>3. \A k \in 1 .. Len(active) : active[k] \in T /\ active[k] \in ToSet(active)
  BY <1>2 DEF ToSet
<1>4. \A k \in 1 .. Len(active) :
        \E i \in 1 .. Len(events) : k <= i /\ active[k] = events[i]
  BY <1>1, ThosePlaces
<1> HIDE DEF active
<1>5. \A i \in 1 .. Len(events) : events[i].type = "CashInitialized" <=> i = 1
  BY DEF Accepts, StreamValid
<1>6. \A k \in 1 .. Len(active) : active[k].type = "CashInitialized" => k = 1
  BY <1>4, <1>5
<1>7. \A k \in 1 .. Len(active) : ValidEvent(active[k]) /\ ~IsReversal(active[k])
  BY <1>1, <1>2, <1>3
<1>8. /\ Sound(book)
      /\ book.ok => /\ Worth(book) = PaidIn(active)
                    /\ \A s : SharesOf(book, s) = NetShares(active, s)
  BY <1>2, <1>6, <1>7, ReplayKeepsBooks
<1>9. book.ok
  BY DEF Accepts, active
<1> HIDE DEF book
<1>10. Good(book) /\ book.cash \in Int /\ book.realized \in Int
  BY <1>8, <1>9 DEF Sound, IsBook
<1>11. OpenCost(book) \in Int
  BY <1>10, OpenCostIsInt DEF Good
<1>12. Balanced(events)
  <2>1. book.cash + OpenCost(book) = PaidIn(active) + book.realized
    BY <1>8, <1>9, <1>10, <1>11 DEF Worth
  <2> QED BY <1>8, <1>9, <2>1 DEF Balanced, SharesOf, active, book
<1>13. Solvent(events)
  <2>1. ASSUME NEW s \in DOMAIN book.holdings, NEW lot \in ToSet(book.holdings[s].lots)
        PROVE  lot.quantity > 0 /\ lot.cost > 0
    <3>1. GoodLots(book.holdings[s].lots)
      BY <1>10 DEF Good, GoodHoldings
    <3>2. PICK i \in DOMAIN book.holdings[s].lots : lot = book.holdings[s].lots[i]
      BY DEF ToSet
    <3>3. lot.quantity \in Nat \ {0} /\ lot.cost \in Nat \ {0}
      BY <3>1, <3>2 DEF GoodLots
    <3> QED BY <3>3
  <2>2. /\ book.cash >= 0 /\ book.nav <= book.peak
        /\ \A s \in DOMAIN book.holdings : book.holdings[s].lots # <<>>
    BY <1>10 DEF Good, GoodHoldings
  <2> QED BY <2>1, <2>2 DEF Solvent, active, book
<1> QED BY <1>12, <1>13

-----------------------------------------------------------------------------
(* The invariant of the lock *)

Busy(w) == writer[w].pc # "idle"

Typed ==
  /\ DOMAIN rows = Accounts
  /\ DOMAIN writer = Writers
  /\ \A w \in Writers : Busy(w) => writer[w].batch \in Batches

\* Under the lock at most one call is under way.
OneCall == locked => \A v, w \in Writers : Busy(v) /\ Busy(w) => v = w

\* Under the lock, what a writer is about to insert is still what its replay accepted.
InsertIsReplayed == locked => \A w \in Writers : writer[w].pc = "insert" => Accepts(Candidate(w))

IInv == Typed /\ OneCall /\ InsertIsReplayed /\ LockedStreamsReplay
-----------------------------------------------------------------------------

\* The table is empty and every writer idle.
LEMMA InitIInv == LedgerInit => IInv
<1> SUFFICES ASSUME LedgerInit PROVE IInv
  OBVIOUS
<1>1. \A w \in Writers : writer[w].pc = "idle"
  BY DEF LedgerInit, Idle
<1>2. Streams = {}
  BY DEF LedgerInit, Streams
<1> QED
  BY <1>1, <1>2 DEF LedgerInit, IInv, Typed, OneCall, InsertIsReplayed, LockedStreamsReplay, Busy

\* A call begins only when no other is under way, where the lock is held.
LEMMA CallKeeps ==
  ASSUME IInv, NEW w \in Writers, NEW batch \in Batches, Call(w, batch)
  PROVE  IInv'
<1> DEFINE fresh == Those(batch, {e \in ToSet(batch) : ~Known(e)})
<1>1. /\ writer[w].pc = "idle"
      /\ locked => \A v \in Writers : writer[v].pc = "idle"
      /\ writer' = [writer EXCEPT ![w] =
           [pc |-> AfterLookup(fresh), batch |-> batch, fresh |-> fresh]]
      /\ UNCHANGED <<locked, rows>>
  BY DEF Call
<1> HIDE DEF fresh
<1>2. AfterLookup(fresh) \in {"replay", "done"}
  BY DEF AfterLookup
<1>3. writer'[w].pc \in {"replay", "done"} /\ writer'[w].batch = batch
  BY <1>1, <1>2 DEF IInv, Typed
<1>4. \A v \in Writers : v # w => writer'[v] = writer[v]
  BY <1>1 DEF IInv, Typed
<1>5. Typed'
  BY <1>1, <1>3, <1>4 DEF IInv, Typed, Busy
<1>6. OneCall'
  BY <1>1, <1>3, <1>4 DEF OneCall, Busy
<1>7. InsertIsReplayed'
  BY <1>1, <1>3, <1>4 DEF InsertIsReplayed
<1>8. LockedStreamsReplay'
  BY <1>1 DEF IInv, LockedStreamsReplay, Streams
<1> QED
  BY <1>5, <1>6, <1>7, <1>8 DEF IInv

\* A writer that becomes idle leaves the invariant alone.
LEMMA IdleKeeps ==
  ASSUME IInv, NEW w \in Writers, writer' = [writer EXCEPT ![w] = Idle],
         UNCHANGED <<locked, rows>>
  PROVE  IInv'
<1>1. writer'[w].pc = "idle"
  BY DEF IInv, Typed, Idle
<1>2. \A v \in Writers : v # w => writer'[v] = writer[v]
  BY DEF IInv, Typed
<1>3. Typed'
  BY <1>1, <1>2 DEF IInv, Typed, Busy
<1>4. OneCall'
  BY <1>1, <1>2 DEF IInv, OneCall, Busy
<1>5. InsertIsReplayed'
  <2> SUFFICES ASSUME locked', NEW v \in Writers, writer'[v].pc = "insert"
               PROVE  Accepts(Candidate(v))'
    BY DEF InsertIsReplayed
  <2>1. v # w /\ writer'[v] = writer[v]
    BY <1>1, <1>2
  <2>2. Accepts(Candidate(v))
    BY <2>1 DEF IInv, InsertIsReplayed
  <2>3. Candidate(v)' = Candidate(v)
    BY <2>1 DEF Candidate, AccountOf
  <2> QED
    BY <2>2, <2>3
<1>6. LockedStreamsReplay'
  BY DEF IInv, LockedStreamsReplay, Streams
<1> QED
  BY <1>3, <1>4, <1>5, <1>6 DEF IInv

\* A batch that replays is accepted with the stream as it is now.
LEMMA ReplayBatchKeeps ==
  ASSUME IInv, NEW w \in Writers, ReplayBatch(w)
  PROVE  IInv'
<1>1. CASE writer' = [writer EXCEPT ![w] = Idle] /\ UNCHANGED <<locked, rows>>
  BY <1>1, IdleKeeps
<1>2. CASE /\ Accepts(Candidate(w))
           /\ writer[w].pc = "replay"
           /\ writer' = [writer EXCEPT ![w].pc = "insert"]
           /\ UNCHANGED <<locked, rows>>
  <2>1. /\ writer'[w].pc = "insert"
        /\ writer'[w].batch = writer[w].batch /\ writer'[w].fresh = writer[w].fresh
    BY <1>2 DEF IInv, Typed
  <2>2. \A v \in Writers : v # w => writer'[v] = writer[v]
    BY <1>2 DEF IInv, Typed
  <2>3. Candidate(w)' = Candidate(w)
    BY <1>2, <2>1 DEF Candidate, AccountOf
  <2>4. Typed'
    BY <1>2, <2>1, <2>2 DEF IInv, Typed, Busy
  <2>5. OneCall'
    BY <1>2, <2>1, <2>2 DEF IInv, OneCall, Busy
  <2>6. InsertIsReplayed'
    <3> SUFFICES ASSUME locked', NEW v \in Writers, writer'[v].pc = "insert"
                 PROVE  Accepts(Candidate(v))'
      BY DEF InsertIsReplayed
    <3>1. v = w
      BY <1>2, <2>1, <2>2, <2>5 DEF OneCall, Busy
    <3> QED
      BY <1>2, <2>3, <3>1
  <2>7. LockedStreamsReplay'
    BY <1>2 DEF IInv, LockedStreamsReplay, Streams
  <2> QED
    BY <2>4, <2>5, <2>6, <2>7 DEF IInv
<1> QED
  BY <1>1, <1>2 DEF ReplayBatch, Refuse

\* An insertion makes the stream what the replay accepted.
LEMMA InsertKeeps ==
  ASSUME IInv, NEW w \in Writers, Insert(w)
  PROVE  IInv'
<1>1. CASE writer' = [writer EXCEPT ![w] = Idle] /\ UNCHANGED <<locked, rows>>
  BY <1>1, IdleKeeps
<1>2. CASE /\ writer[w].pc = "insert"
           /\ rows' = [rows EXCEPT ![AccountOf(w)] = @ \o writer[w].fresh]
           /\ writer' = [writer EXCEPT ![w].pc = "done"]
           /\ UNCHANGED locked
  <2>1. writer'[w].pc = "done" /\ writer'[w].batch = writer[w].batch
    BY <1>2 DEF IInv, Typed
  <2>2. \A v \in Writers : v # w => writer'[v] = writer[v]
    BY <1>2 DEF IInv, Typed
  <2>3. Typed'
    BY <1>2, <2>1, <2>2 DEF IInv, Typed, Busy
  <2>4. OneCall'
    BY <1>2, <2>1, <2>2 DEF IInv, OneCall, Busy
  <2>5. InsertIsReplayed'
    <3> SUFFICES ASSUME locked', NEW v \in Writers, writer'[v].pc = "insert" PROVE FALSE
      BY DEF InsertIsReplayed
    <3>1. v = w
      BY <1>2, <2>1, <2>2, <2>4 DEF OneCall, Busy
    <3> QED
      BY <2>1, <3>1
  <2>6. LockedStreamsReplay'
    <3> SUFFICES ASSUME locked', NEW a \in Accounts, rows'[a] # <<>> PROVE Accepts(rows'[a])
      BY <2>3 DEF LockedStreamsReplay, Streams
    <3>1. CASE a = AccountOf(w)
      BY <1>2, <3>1 DEF IInv, Typed, InsertIsReplayed, Candidate
    <3>2. CASE a # AccountOf(w)
      BY <1>2, <3>2 DEF IInv, Typed, LockedStreamsReplay, Streams
    <3> QED
      BY <3>1, <3>2
  <2> QED
    BY <2>3, <2>4, <2>5, <2>6 DEF IInv
<1> QED
  BY <1>1, <1>2 DEF Insert, Refuse

\* Every step keeps the invariant.
LEMMA StepIInv == IInv /\ [LedgerNext]_ledgerVars => IInv'
<1> SUFFICES ASSUME IInv, [LedgerNext]_ledgerVars PROVE IInv'
  OBVIOUS
<1>1. ASSUME NEW w \in Writers, NEW batch \in Batches, Call(w, batch) PROVE IInv'
  BY <1>1, CallKeeps
<1>2. ASSUME NEW w \in Writers, ReplayBatch(w) PROVE IInv'
  BY <1>2, ReplayBatchKeeps
<1>3. ASSUME NEW w \in Writers, Insert(w) PROVE IInv'
  BY <1>3, InsertKeeps
<1>4. ASSUME NEW w \in Writers, Leave(w) PROVE IInv'
  BY <1>4, IdleKeeps DEF Leave
<1>5. CASE UNCHANGED ledgerVars
  BY <1>5 DEF ledgerVars, IInv, Typed, OneCall, InsertIsReplayed, LockedStreamsReplay, Busy,
              Streams, Candidate, AccountOf
<1> QED
  BY <1>1, <1>2, <1>3, <1>4, <1>5 DEF LedgerNext

\* The invariant that closes the window between replay and insertion
\* (append_events, in callers that hold the process lock).
THEOREM InductiveInvariant == LedgerSpec => []IInv
<1> QED
  BY InitIInv, StepIInv, PTL DEF LedgerSpec

\* Where writers hold the process lock, every stream in the table is one the ledger
\* accepts: no append, retry or crash leaves an account that cannot be replayed
\* (append_events: "Semantic cross-validation ... before any write").
THEOREM StreamsReplay == LedgerSpec => []LockedStreamsReplay
<1>1. IInv => LockedStreamsReplay
  BY DEF IInv
<1> QED
  BY InductiveInvariant, <1>1, PTL

\* Under the lock no two calls are ever under way (the guard of Call).
THEOREM OneCallAtATime == LedgerSpec => []OneCall
<1>1. IInv => OneCall
  BY DEF IInv
<1> QED
  BY InductiveInvariant, <1>1, PTL

-----------------------------------------------------------------------------
(* The invariant of the table, with and without the lock *)

PCs == {"idle", "replay", "insert", "done"}

TypeInv ==
  /\ locked \in BOOLEAN
  /\ rows \in [Accounts -> Seq(Events)]
  /\ writer \in [Writers -> [pc : PCs, batch : Batches \cup {<<>>}, fresh : Seq(Events)]]

\* What a call holds: its batch is made of what it found new and of what is stored.
CallInv(w) ==
  /\ ToSet(writer[w].fresh) \subseteq ToSet(writer[w].batch)
  /\ Busy(w) =>
       /\ writer[w].batch \in Batches
       /\ ToSet(writer[w].batch) \subseteq ToSet(writer[w].fresh) \cup ToSet(rows[AccountOf(w)])
  /\ writer[w].pc \in {"replay", "insert"} => writer[w].fresh # <<>>
  /\ writer[w].pc = "insert" =>
       \A i, j \in DOMAIN writer[w].fresh : writer[w].fresh[i].id = writer[w].fresh[j].id => i = j
  /\ writer[w].pc = "done" => ToSet(writer[w].batch) \subseteq ToSet(rows[AccountOf(w)])

OwnRows == \A a \in Accounts : \A e \in ToSet(rows[a]) : e.account = a

StoreInv == TypeInv /\ (\A w \in Writers : CallInv(w)) /\ OwnRows /\ StoredOnce

\* The events of a batch are all of one account.
LEMMA BatchFacts ==
  ASSUME NEW batch \in Batches
  PROVE  /\ batch \in Seq(Events) /\ batch[1].account \in Accounts
         /\ \A e \in ToSet(batch) : e \in Events /\ e.account = batch[1].account
<1>1. batch \in Seq(Events) /\ batch # <<>>
  BY BatchesAssumption
<1>2. PICK a \in Accounts : \A i \in DOMAIN batch : batch[i].account = a
  BY BatchesAssumption
<1>3. 1 \in DOMAIN batch /\ \A i \in DOMAIN batch : batch[i] \in Events
  BY <1>1
<1> QED BY <1>1, <1>2, <1>3 DEF ToSet

\* Another writer's call goes on while the table grows.
LEMMA CallStays ==
  ASSUME NEW w \in Writers, CallInv(w), TypeInv, writer'[w] = writer[w],
         \A a \in Accounts : ToSet(rows[a]) \subseteq ToSet(rows'[a])
  PROVE  CallInv(w)'
<1>1. AccountOf(w)' = AccountOf(w)
  BY DEF AccountOf
<1>2. Busy(w) => AccountOf(w) \in Accounts
  BY BatchFacts DEF CallInv, AccountOf
<1>3. writer[w].pc = "done" => Busy(w)
  BY DEF Busy
<1> HIDE DEF AccountOf
<1> QED BY <1>1, <1>2, <1>3 DEF CallInv, Busy

LEMMA InitStoreInv == LedgerInit => StoreInv
<1> SUFFICES ASSUME LedgerInit PROVE StoreInv
  OBVIOUS
<1>1. <<>> \in Seq(Events) /\ ToSet(<<>>) = {}
  BY DEF ToSet
<1>2. \A w \in Writers : writer[w] = Idle
  BY DEF LedgerInit
<1>3. \A w \in Writers : CallInv(w)
  BY <1>1, <1>2 DEF CallInv, Idle, Busy
<1>4. TypeInv
  BY <1>1 DEF LedgerInit, TypeInv, Idle, PCs
<1>5. OwnRows /\ StoredOnce
  BY <1>1 DEF LedgerInit, OwnRows, StoredOnce
<1> QED BY <1>3, <1>4, <1>5 DEF StoreInv

\* The lookup tells what is new from what is stored.
LEMMA CallKeepsStore ==
  ASSUME StoreInv, NEW w \in Writers, NEW batch \in Batches, Call(w, batch)
  PROVE  StoreInv'
<1> DEFINE fresh == Those(batch, {e \in ToSet(batch) : ~Known(e)})
           next == [pc |-> AfterLookup(fresh), batch |-> batch, fresh |-> fresh]
<1>1. /\ writer' = [writer EXCEPT ![w] = next] /\ UNCHANGED <<locked, rows>>
      /\ \A i \in DOMAIN batch : ~Conflict(batch[i])
  BY DEF Call
<1>2. /\ batch \in Seq(Events) /\ batch[1].account \in Accounts
      /\ \A e \in ToSet(batch) : e \in Events /\ e.account = batch[1].account
  BY BatchFacts
<1>3. fresh \in Seq(Events) /\ ToSet(fresh) = {e \in ToSet(batch) : ~Known(e)}
  <2>1. ToSet(fresh) = ToSet(batch) \cap {e \in ToSet(batch) : ~Known(e)}
    BY <1>2, ThoseRange
  <2> QED BY <1>2, <2>1, ThoseRange
<1> HIDE DEF fresh
<1>4. \A e \in ToSet(batch) : Known(e) => e \in ToSet(rows[batch[1].account])
  <2> SUFFICES ASSUME NEW e \in ToSet(batch), Known(e)
               PROVE  e \in ToSet(rows[batch[1].account])
    OBVIOUS
  <2>1. PICK i \in DOMAIN batch : e = batch[i]
    BY DEF ToSet
  <2>2. PICK f \in Stored : f.id = e.id
    BY DEF Known
  <2>3. f = e
    BY <1>1, <2>1, <2>2 DEF Conflict
  <2>4. PICK a \in Accounts : e \in ToSet(rows[a])
    BY <2>2, <2>3 DEF Stored
  <2>5. e.account = a /\ e.account = batch[1].account
    BY <1>2, <2>4 DEF StoreInv, OwnRows
  <2> QED BY <2>4, <2>5
<1>5. next.pc \in {"replay", "done"} /\ (next.pc = "replay" <=> fresh # <<>>)
  BY DEF AfterLookup
<1>6. /\ next.batch = batch /\ next.fresh = fresh
      /\ next \in [pc : PCs, batch : Batches \cup {<<>>}, fresh : Seq(Events)]
  BY <1>3, <1>5 DEF PCs
<1> HIDE DEF next
<1>7. writer'[w] = next /\ \A v \in Writers : v # w => writer'[v] = writer[v]
  BY <1>1 DEF StoreInv, TypeInv
<1>8. CallInv(w)'
  <2>1. AccountOf(w)' = batch[1].account
    BY <1>6, <1>7 DEF AccountOf
  <2>2. ToSet(batch) \subseteq ToSet(fresh) \cup ToSet(rows[batch[1].account])
    BY <1>3, <1>4
  <2>3. fresh = <<>> => ToSet(fresh) = {}
    BY DEF ToSet
  <2>4. rows' = rows
    BY <1>1
  <2> QED BY <1>3, <1>5, <1>6, <1>7, <2>1, <2>2, <2>3, <2>4 DEF CallInv
<1>9. \A v \in Writers : CallInv(v)'
  BY <1>1, <1>7, <1>8, CallStays DEF StoreInv
<1>10. TypeInv'
  BY <1>1, <1>6 DEF StoreInv, TypeInv
<1>11. OwnRows' /\ StoredOnce'
  BY <1>1 DEF StoreInv, OwnRows, StoredOnce
<1> QED BY <1>9, <1>10, <1>11 DEF StoreInv

LEMMA IdleKeepsStore ==
  ASSUME StoreInv, NEW w \in Writers, writer' = [writer EXCEPT ![w] = Idle],
         UNCHANGED <<locked, rows>>
  PROVE  StoreInv'
<1>1. writer'[w] = Idle /\ \A v \in Writers : v # w => writer'[v] = writer[v]
  BY DEF StoreInv, TypeInv
<1>2. CallInv(w)'
  BY <1>1 DEF CallInv, Idle, Busy, ToSet
<1>3. \A v \in Writers : CallInv(v)'
  BY <1>1, <1>2, CallStays DEF StoreInv
<1>4. TypeInv'
  BY DEF StoreInv, TypeInv, Idle, PCs
<1>5. OwnRows' /\ StoredOnce'
  BY DEF StoreInv, OwnRows, StoredOnce
<1> QED BY <1>3, <1>4, <1>5 DEF StoreInv

\* A stream that replays has no identifier twice, so the new events have none.
LEMMA ReplayKeepsStore ==
  ASSUME StoreInv, NEW w \in Writers, ReplayBatch(w)
  PROVE  StoreInv'
<1>1. CASE writer' = [writer EXCEPT ![w] = Idle] /\ UNCHANGED <<locked, rows>>
  BY <1>1, IdleKeepsStore
<1>2. CASE /\ Accepts(Candidate(w)) /\ writer[w].pc = "replay"
           /\ writer' = [writer EXCEPT ![w].pc = "insert"] /\ UNCHANGED <<locked, rows>>
  <2> DEFINE past == rows[AccountOf(w)]
             fresh == writer[w].fresh
             all == past \o fresh
  <2>1. AccountOf(w) \in Accounts /\ past \in Seq(Events) /\ fresh \in Seq(Events)
    BY <1>2, BatchFacts DEF StoreInv, CallInv, TypeInv, AccountOf, Busy
  <2>2. \A i, j \in DOMAIN all : all[i].id = all[j].id => i = j
    BY <1>2 DEF Accepts, StreamValid, Candidate
  <2>3. ASSUME NEW i \in DOMAIN fresh, NEW j \in DOMAIN fresh, fresh[i].id = fresh[j].id
        PROVE  i = j
    <3>1. /\ Len(past) \in Nat /\ i \in 1 .. Len(fresh) /\ j \in 1 .. Len(fresh)
      BY <2>1, <2>3
    <3>1a. Joined(past, fresh, all)
      BY <2>1, ConcatShape
    <3> HIDE DEF past, fresh, all
    <3>2. /\ Len(past) + i \in DOMAIN all /\ Len(past) + j \in DOMAIN all
          /\ all[Len(past) + i] = fresh[i] /\ all[Len(past) + j] = fresh[j]
      BY <3>1, <3>1a DEF Joined
    <3>3. Len(past) + i = Len(past) + j
      BY <2>2, <2>3, <3>2
    <3> QED BY <3>1, <3>3
  <2>4. /\ writer'[w] = [writer[w] EXCEPT !.pc = "insert"]
        /\ \A v \in Writers : v # w => writer'[v] = writer[v]
    BY <1>2 DEF StoreInv, TypeInv
  <2>5. /\ writer'[w].pc = "insert" /\ writer'[w].batch = writer[w].batch
        /\ writer'[w].fresh = fresh
    BY <2>4 DEF StoreInv, TypeInv
  <2>6. AccountOf(w)' = AccountOf(w) /\ rows' = rows
    BY <1>2, <2>5 DEF AccountOf
  <2>7. CallInv(w)'
    BY <1>2, <2>3, <2>5, <2>6 DEF CallInv, StoreInv, Busy
  <2>8. \A v \in Writers : CallInv(v)'
    BY <1>2, <2>4, <2>7, CallStays DEF StoreInv
  <2>9. TypeInv'
    BY <1>2 DEF StoreInv, TypeInv, PCs
  <2>10. OwnRows' /\ StoredOnce'
    BY <1>2 DEF StoreInv, OwnRows, StoredOnce
  <2> QED BY <2>8, <2>9, <2>10 DEF StoreInv
<1> QED BY <1>1, <1>2 DEF ReplayBatch, Refuse

\* The primary key lets in only identifiers that are not in the table.
LEMMA InsertKeepsStore ==
  ASSUME StoreInv, NEW w \in Writers, Insert(w)
  PROVE  StoreInv'
<1>1. CASE writer' = [writer EXCEPT ![w] = Idle] /\ UNCHANGED <<locked, rows>>
  BY <1>1, IdleKeepsStore
<1>2. CASE /\ writer[w].pc = "insert" /\ ~Duplicate(w)
           /\ rows' = [rows EXCEPT ![AccountOf(w)] = @ \o writer[w].fresh]
           /\ writer' = [writer EXCEPT ![w].pc = "done"] /\ UNCHANGED locked
  <2> DEFINE acct == AccountOf(w)
             past == rows[acct]
             fresh == writer[w].fresh
             all == past \o fresh
  <2>1. /\ acct \in Accounts /\ past \in Seq(Events) /\ fresh \in Seq(Events)
        /\ \A e \in ToSet(fresh) : e.account = acct
    BY <1>2, BatchFacts DEF StoreInv, CallInv, TypeInv, AccountOf, Busy
  <2>2. rows'[acct] = all /\ \A a \in Accounts : a # acct => rows'[a] = rows[a]
    BY <1>2, <2>1 DEF StoreInv, TypeInv
  <2>3. all \in Seq(Events) /\ ToSet(all) = ToSet(past) \cup ToSet(fresh)
    BY <2>1, ConcatRange
  <2>3a. Joined(past, fresh, all)
    BY <2>1, ConcatShape
  <2>4. /\ Len(all) = Len(past) + Len(fresh) /\ Len(past) \in Nat /\ Len(fresh) \in Nat
        /\ DOMAIN all = 1 .. Len(all) /\ DOMAIN past = 1 .. Len(past)
        /\ DOMAIN fresh = 1 .. Len(fresh)
        /\ \A i \in 1 .. Len(past) : all[i] = past[i]
        /\ \A i \in Len(past) + 1 .. Len(all) : all[i] = fresh[i - Len(past)]
    <3> HIDE DEF past, fresh, all
    <3> QED BY <2>3a DEF Joined
  <2>5. rows' \in [Accounts -> Seq(Events)]
    BY <1>2, <2>1, <2>3 DEF StoreInv, TypeInv
  <2>6. \A i \in DOMAIN fresh : \A a \in Accounts : \A j \in DOMAIN rows[a] :
          fresh[i].id # rows[a][j].id
    <3>1. \A a \in Accounts : \A j \in DOMAIN rows[a] : rows[a][j] \in Stored
      BY DEF Stored, ToSet
    <3> QED BY <1>2, <3>1 DEF Duplicate, Known
  <2>7. \A i, j \in DOMAIN fresh : fresh[i].id = fresh[j].id => i = j
    BY <1>2 DEF StoreInv, CallInv
  <2>8. /\ writer'[w] = [writer[w] EXCEPT !.pc = "done"]
        /\ \A v \in Writers : v # w => writer'[v] = writer[v]
    BY <1>2 DEF StoreInv, TypeInv
  <2>9. /\ writer'[w].pc = "done" /\ writer'[w].batch = writer[w].batch
        /\ writer'[w].fresh = fresh
    BY <2>8 DEF StoreInv, TypeInv
  <2>10. acct' = acct
    BY <2>9 DEF AccountOf
  <2> HIDE DEF acct, past, fresh, all
  <2>11. \A a \in Accounts : ToSet(rows[a]) \subseteq ToSet(rows'[a])
    BY <2>2, <2>3 DEF past
  <2>12. CallInv(w)'
    <3>1. ToSet(writer[w].batch) \subseteq ToSet(rows'[acct])
      BY <1>2, <2>2, <2>3 DEF StoreInv, CallInv, Busy, acct, past, fresh
    <3>2. /\ ToSet(fresh) \subseteq ToSet(writer[w].batch) /\ writer[w].batch \in Batches
      BY <1>2 DEF StoreInv, CallInv, Busy, fresh
    <3> QED BY <2>9, <2>10, <3>1, <3>2 DEF CallInv, acct
  <2>13. \A v \in Writers : CallInv(v)'
    BY <2>8, <2>11, <2>12, CallStays DEF StoreInv
  <2>14. TypeInv'
    BY <1>2, <2>5 DEF StoreInv, TypeInv, PCs
  <2>15. OwnRows'
    BY <2>1, <2>2, <2>3 DEF StoreInv, OwnRows, past
  <2>16. StoredOnce'
    <3> SUFFICES ASSUME NEW a \in Accounts, NEW b \in Accounts,
                        NEW i \in DOMAIN rows'[a], NEW j \in DOMAIN rows'[b],
                        rows'[a][i].id = rows'[b][j].id
                 PROVE  a = b /\ i = j
      BY DEF StoredOnce
    <3> DEFINE New(c, k) == c = acct /\ k > Len(past)
    <3>1. ASSUME NEW c \in Accounts, NEW k \in DOMAIN rows'[c], ~New(c, k)
          PROVE  k \in DOMAIN rows[c] /\ rows'[c][k] = rows[c][k]
      <4>1. CASE c = acct
        <5>1. k \in 1 .. Len(past)
          BY <2>2, <2>4, <3>1, <4>1
        <5> QED BY <2>2, <2>4, <4>1, <5>1 DEF past
      <4>2. CASE c # acct
        BY <2>2, <4>2
      <4> QED BY <4>1, <4>2
    <3>2. ASSUME NEW c \in Accounts, NEW k \in DOMAIN rows'[c], New(c, k)
          PROVE  /\ k \in Nat /\ k - Len(past) \in DOMAIN fresh
                 /\ rows'[c][k] = fresh[k - Len(past)]
      <4>1. k \in Len(past) + 1 .. Len(all) /\ k - Len(past) \in 1 .. Len(fresh)
        BY <2>2, <2>4, <3>2
      <4> QED BY <2>2, <2>4, <3>2, <4>1
    <3>3. CASE New(a, i) /\ New(b, j)
      <4>1. i - Len(past) = j - Len(past)
        BY <2>7, <3>2, <3>3
      <4> QED BY <2>4, <3>2, <3>3, <4>1
    <3>4. CASE New(a, i) /\ ~New(b, j)
      BY <2>6, <3>1, <3>2, <3>4
    <3>5. CASE ~New(a, i) /\ New(b, j)
      BY <2>6, <3>1, <3>2, <3>5
    <3>6. CASE ~New(a, i) /\ ~New(b, j)
      BY <3>1, <3>6 DEF StoreInv, StoredOnce
    <3> QED BY <3>3, <3>4, <3>5, <3>6
  <2> QED BY <2>13, <2>14, <2>15, <2>16 DEF StoreInv
<1> QED BY <1>1, <1>2 DEF Insert, Refuse

LEMMA StepStoreInv == StoreInv /\ [LedgerNext]_ledgerVars => StoreInv'
<1> SUFFICES ASSUME StoreInv, [LedgerNext]_ledgerVars PROVE StoreInv'
  OBVIOUS
<1>1. ASSUME NEW w \in Writers, NEW batch \in Batches, Call(w, batch) PROVE StoreInv'
  BY <1>1, CallKeepsStore
<1>2. ASSUME NEW w \in Writers, ReplayBatch(w) PROVE StoreInv'
  BY <1>2, ReplayKeepsStore
<1>3. ASSUME NEW w \in Writers, Insert(w) PROVE StoreInv'
  BY <1>3, InsertKeepsStore
<1>4. ASSUME NEW w \in Writers, Leave(w) PROVE StoreInv'
  BY <1>4, IdleKeepsStore DEF Leave
<1>5. CASE UNCHANGED ledgerVars
  <2>1. locked' = locked /\ rows' = rows /\ writer' = writer
    BY <1>5 DEF ledgerVars
  <2>2. \A w \in Writers : CallInv(w)'
    BY <2>1, CallStays DEF StoreInv
  <2> QED BY <2>1, <2>2 DEF StoreInv, TypeInv, OwnRows, StoredOnce
<1> QED BY <1>1, <1>2, <1>3, <1>4, <1>5 DEF LedgerNext

\* The invariant of the table holds whatever the writers do and wherever they die.
LEMMA StoreInvHolds == LedgerSpec => []StoreInv
BY InitStoreInv, StepStoreInv, PTL DEF LedgerSpec

\* The table and the writers' locals have their types.
THEOREM TypeCorrect == LedgerSpec => []LedgerTypeOK
<1>1. StoreInv => LedgerTypeOK
  BY DEF StoreInv, TypeInv, CallInv, LedgerTypeOK, PCs
<1> QED BY <1>1, StoreInvHolds, PTL

\* Each event is stored once, under one account and with one payload, and all of a batch
\* before its caller is told so: by any number of writers, with or without the process
\* lock, through repetitions, overlaps, conflicts and crashes (append_events).
THEOREM StoredForGood == LedgerSpec => []BatchesAreStored
<1>1. StoreInv => BatchesAreStored
  BY DEF StoreInv, CallInv, BatchesAreStored, DoneIsStored
<1> QED BY <1>1, StoreInvHolds, PTL

\* Where writers hold the process lock, what is appended comes after all that is stored,
\* and leaves every snapshot of the past as it was (snapshot, rebuild's strict clock).
THEOREM PastStaysFixed == LedgerSpec => PastIsFixed
<1>1. ASSUME IInv, StoreInv, [LedgerNext]_ledgerVars, locked, NEW a \in Accounts, NEW i \in DOMAIN rows[a]
      PROVE  SnapshotAsOf(rows'[a], rows[a][i].at) = SnapshotAsOf(rows[a], rows[a][i].at)
  <2>1. CASE rows' = rows
    BY <2>1
  <2>2. CASE rows' # rows
    <3>1. PICK w \in Writers : Insert(w)
      BY <1>1, <2>2 DEF LedgerNext, ledgerVars, Call, ReplayBatch, Refuse, Leave
    <3>2. /\ writer[w].pc = "insert"
          /\ rows' = [rows EXCEPT ![AccountOf(w)] = @ \o writer[w].fresh]
      BY <2>2, <3>1 DEF Insert, Refuse
    <3>3. CASE a # AccountOf(w)
      <4>1. rows'[a] = rows[a]
        BY <1>1, <3>2, <3>3 DEF StoreInv, TypeInv
      <4> QED BY <4>1
    <3>4. CASE a = AccountOf(w)
      <4> DEFINE past == rows[a]
                 fresh == writer[w].fresh
                 all == past \o fresh
                 at == past[i].at
      <4>1. past \in Seq(Events) /\ fresh \in Seq(Events) /\ rows'[a] = all
        BY <1>1, <3>2, <3>4 DEF StoreInv, TypeInv
      <4>2. \A j, k \in DOMAIN all : j < k => all[j].at < all[k].at
        BY <1>1, <3>2, <3>4 DEF IInv, InsertIsReplayed, Accepts, StreamValid, Candidate
      <4>3. at \in Nat /\ i \in 1 .. Len(past)
        <5>1. past[i] \in Events /\ i \in 1 .. Len(past)
          BY <1>1, <4>1
        <5> QED BY <5>1, BatchesAssumption DEF ValidEvent
      <4>4. ASSUME NEW j \in 1 .. Len(fresh) PROVE fresh[j].at \in Nat /\ at < fresh[j].at
        <5>1. fresh[j] \in Events /\ Len(past) \in Nat /\ Len(fresh) \in Nat
          BY <4>1
        <5>2. Joined(past, fresh, all)
          BY <4>1, ConcatShape
        <5> HIDE DEF past, fresh, all
        <5>3. /\ i \in DOMAIN all /\ Len(past) + j \in DOMAIN all /\ i < Len(past) + j
              /\ all[i] = past[i] /\ all[Len(past) + j] = fresh[j]
          BY <4>3, <5>1, <5>2 DEF Joined
        <5>4. fresh[j].at \in Nat
          BY <5>1, BatchesAssumption DEF ValidEvent
        <5> QED BY <4>2, <4>3, <5>3, <5>4
      <4> HIDE DEF at
      <4> DEFINE keep == {e \in ToSet(past) : e.at <= at}
                 keepNow == {e \in ToSet(all) : e.at <= at}
      <4>5. \A j \in 1 .. Len(fresh) : fresh[j] \notin keepNow
        BY <4>3, <4>4
      <4>6. \A j \in 1 .. Len(past) : past[j] \in keep <=> past[j] \in keepNow
        <5>1. ToSet(all) = ToSet(past) \cup ToSet(fresh)
          BY <4>1, ConcatRange
        <5>2. \A j \in 1 .. Len(past) : past[j] \in ToSet(past)
          BY <4>1 DEF ToSet
        <5> HIDE DEF past, all, fresh
        <5> QED BY <5>1, <5>2
      <4> HIDE DEF keep, keepNow, past, fresh
      <4>7. Those(past \o fresh, keepNow) = Those(past, keep)
        BY <4>1, <4>5, <4>6, ThoseOfPrefix
      <4>8. SnapshotAsOf(past \o fresh, at) = SnapshotAsOf(past, at)
        BY <4>7 DEF SnapshotAsOf, keep, keepNow
      <4> QED BY <4>1, <4>8 DEF past, fresh, at
    <3> QED BY <3>3, <3>4
  <2> QED BY <2>1, <2>2
<1>2. IInv /\ StoreInv /\ [LedgerNext]_ledgerVars =>
        [locked => \A a \in Accounts : \A i \in DOMAIN rows[a] :
           SnapshotAsOf(rows'[a], rows[a][i].at) = SnapshotAsOf(rows[a], rows[a][i].at)]_ledgerVars
  BY <1>1
<1> QED BY <1>2, InductiveInvariant, StoreInvHolds, PTL DEF LedgerSpec, PastIsFixed

\* Whatever was appended, repeated, reversed or adjusted, a stream that replays keeps the
\* books: cash and the cost of the open lots are what was paid in and the realized
\* profit, no share appears or vanishes, and the book is solvent (_replay).
THEOREM BooksAreTrue == LedgerSpec => []BooksHold
<1>1. StoreInv => BooksHold
  <2> SUFFICES ASSUME StoreInv, NEW events \in Streams, Accepts(events)
               PROVE  Balanced(events) /\ Solvent(events)
    BY DEF BooksHold, BooksBalance, BooksSolvent
  <2>1. events \in Seq(Events) /\ \A e \in Events : ValidEvent(e)
    BY BatchesAssumption DEF StoreInv, TypeInv, Streams
  <2> QED BY <2>1, AcceptedKeepsBooks
<1> QED BY <1>1, StoreInvHolds, PTL
=============================================================================
