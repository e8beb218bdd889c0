--------------------------- MODULE RouteRulesProofs ---------------------------
(***************************************************************************)
(* Theorems about Router and RouteRules for all rules, messages, backends, *)
(* handlers and numbers of requests.  The first part is about the list     *)
(* itself: sortRules sorts and loses nothing, whatever the length of the   *)
(* list, and the same is shown of the other operations of the engine.  The *)
(* second part is about the handlers that keep list and table together.    *)
(*                                                                         *)
(* Recursive functions are dealt with by Folded: a value for every index   *)
(* exists, and each is in the set given for its index.                     *)
(***************************************************************************)
EXTENDS RouteRules, FiniteSetTheorems, SequenceTheorems, TLAPS

-----------------------------------------------------------------------------
(* Recursion and least elements                                                *)

LEMMA Least ==
    ASSUME NEW T, T \subseteq Nat, T # {}
    PROVE  \E n \in T : \A m \in T : n <= m
<1> DEFINE Below == {1..n : n \in T}
<1>1. Below \subseteq FiniteSubsetsOf(Nat) /\ Below # {}
  <2>1. \A n \in T : IsFiniteSet(1..n) /\ 1..n \subseteq Nat
    BY FS_Interval
  <2> QED
    BY <2>1 DEF FiniteSubsetsOf
<1>2. PICK I \in Below : \A J \in Below : ~ (<<J, I>> \in StrictSubsetOrdering(Nat))
  <2> HIDE DEF Below
  <2> QED
    BY <1>1, FS_StrictSubsetOrderingWellFounded, WFMin
<1>3. PICK n \in T : I = 1..n
  OBVIOUS
<1>4. \A m \in T : ~ (1..m \subseteq 1..n /\ 1..m # 1..n)
  <2> SUFFICES ASSUME NEW m \in T, 1..m \subseteq 1..n, 1..m # 1..n PROVE FALSE
    OBVIOUS
  <2>1. 1..m \in Below /\ 1..m \in SUBSET Nat /\ 1..n \in SUBSET Nat
    OBVIOUS
  <2>2. <<1..m, 1..n>> \in (SUBSET Nat) \X (SUBSET Nat)
    BY <2>1
  <2> HIDE DEF Below
  <2>3. <<1..m, 1..n>> \notin StrictSubsetOrdering(Nat)
    BY <1>2, <1>3, <2>1
  <2> QED
    BY <2>2, <2>3 DEF StrictSubsetOrdering
<1>5. ASSUME NEW m \in T, ~ (n <= m) PROVE FALSE
  <2>1. n \in 1..n /\ n \notin 1..m /\ 1..m \subseteq 1..n
    BY <1>5
  <2> QED
    BY <1>4, <2>1
<1> QED
  BY <1>5

\* What holds at the first index and is handed on holds at each.
LEMMA HandedOn ==
    ASSUME NEW a \in Nat, NEW n \in Nat, NEW S, NEW f, f[a] \in S[a],
           \A k \in a + 1..n : f[k - 1] \in S[k - 1] => f[k] \in S[k]
    PROVE  \A k \in a..n : f[k] \in S[k]
<1> DEFINE Bad == {k \in a..n : f[k] \notin S[k]}
<1>1. ASSUME Bad # {} PROVE FALSE
  <2>1. PICK m \in Bad : \A l \in Bad : m <= l
    <3>1. Bad \subseteq Nat
      OBVIOUS
    <3> HIDE DEF Bad
    <3> QED
      BY <1>1, <3>1, Least
  <2>2. m \in a + 1..n /\ m - 1 \in a..n /\ m - 1 \notin Bad
    BY <2>1
  <2> QED
    BY <2>1, <2>2
<1> QED
  BY <1>1

\* step[k] makes the value at k of that before, and its values are where S says.
Steps(a, n, S, init, step) ==
    /\ a \in Nat /\ n \in Nat /\ a <= n
    /\ init \in S[a]
    /\ \A k \in a + 1..n : \A x \in S[k - 1] : step[k][x] \in S[k]

LEMMA Folded ==
    ASSUME NEW a, NEW n, NEW S, NEW init, NEW step, Steps(a, n, S, init, step)
    PROVE  \E f : /\ f = [k \in a..n |-> f[k]]
                  /\ f[a] = init
                  /\ \A k \in a + 1..n : f[k] = step[k][f[k - 1]]
                  /\ \A k \in a..n : f[k] \in S[k]
<1>0. /\ a \in Nat /\ n \in Nat /\ a <= n
      /\ init \in S[a]
      /\ \A k \in a + 1..n : \A x \in S[k - 1] : step[k][x] \in S[k]
  BY DEF Steps
<1> DEFINE Up(f, m) == /\ f = [k \in a..m |-> f[k]]
                       /\ f[a] = init
                       /\ \A k \in a + 1..m : f[k] = step[k][f[k - 1]]
                       /\ \A k \in a..m : f[k] \in S[k]
           Bad == {m \in a..n : ~ \E f : Up(f, m)}
<1>1. ASSUME Bad # {} PROVE FALSE
  <2>1. PICK m \in Bad : \A l \in Bad : m <= l
    <3>1. Bad \subseteq Nat
      BY <1>0
    <3> HIDE DEF Bad
    <3> QED
      BY <1>1, <3>1, Least
  <2>2. m # a
    <3> DEFINE f == [k \in a..a |-> init]
    <3>1. a + 1..a = {} /\ a..a = {a}
      BY <1>0
    <3>2. Up(f, a)
      BY <1>0, <3>1
    <3> QED
      BY <3>2
  <2>3. m \in a + 1..n /\ m - 1 \in a..n /\ m - 1 \notin Bad
    BY <1>0, <2>1, <2>2
  <2>4. PICK f : Up(f, m - 1)
    BY <2>3
  <2> DEFINE g == [k \in a..m |-> IF k = m THEN step[m][f[m - 1]] ELSE f[k]]
  <2>5. f[m - 1] \in S[m - 1] /\ step[m][f[m - 1]] \in S[m]
    BY <1>0, <2>3, <2>4
  <2>6. /\ \A k \in a..m - 1 : g[k] = f[k]
        /\ g[m] = step[m][f[m - 1]]
        /\ g = [k \in a..m |-> g[k]]
    BY <1>0, <2>3
  <2>7. g[a] = init /\ \A k \in a..m : g[k] \in S[k]
    BY <1>0, <2>3, <2>4, <2>5, <2>6
  <2>8. \A k \in a + 1..m : g[k] = step[k][g[k - 1]]
    <3>1. \A k \in a + 1..m - 1 : k - 1 \in a..m - 1 /\ k \in a..m - 1
      BY <1>0, <2>3
    <3>2. \A k \in a + 1..m - 1 : g[k] = step[k][g[k - 1]]
      <4> HIDE DEF g
      <4> QED
        BY <2>4, <2>6, <3>1
    <3>3. g[m] = step[m][g[m - 1]]
      BY <1>0, <2>3
    <3>4. \A k \in a + 1..m : k = m \/ k \in a + 1..m - 1
      BY <1>0, <2>3
    <3> HIDE DEF g
    <3> QED
      BY <3>2, <3>3, <3>4
  <2>9. Up(g, m)
    <3> HIDE DEF g
    <3> QED
      BY <2>6, <2>7, <2>8
  <2> QED
    BY <2>1, <2>9
<1>2. n \notin Bad
  BY <1>1
<1> QED
  BY <1>0, <1>2

-----------------------------------------------------------------------------
(* sortRules                                                                   *)

Permutes(p, n) ==
    /\ p \in [1..n -> 1..n]
    /\ \A i, j \in 1..n : p[i] = p[j] => i = j
    /\ \A k \in 1..n : \E i \in 1..n : p[i] = k

\* t has the elements of s in some order.
Rearranges(t, s) ==
    \E p : /\ Permutes(p, Len(s))
           /\ Len(t) = Len(s)
           /\ \A i \in 1..Len(s) : t[i] = s[p[i]]

LEMMA RearrangesItself == ASSUME NEW R, NEW s \in Seq(R) PROVE Rearranges(s, s)
<1> DEFINE p == [i \in 1..Len(s) |-> i]
<1>1. Permutes(p, Len(s))
  BY DEF Permutes
<1>2. \A i \in 1..Len(s) : s[i] = s[p[i]]
  OBVIOUS
<1> QED
  BY <1>1, <1>2 DEF Rearranges

LEMMA RearrangesAgain ==
    ASSUME NEW s, NEW t, NEW u, Rearranges(t, s), Rearranges(u, t)
    PROVE  Rearranges(u, s)
<1>1. PICK p : Permutes(p, Len(s)) /\ Len(t) = Len(s)
               /\ \A i \in 1..Len(s) : t[i] = s[p[i]]
  BY DEF Rearranges
<1>2. PICK q : Permutes(q, Len(s)) /\ Len(u) = Len(s)
               /\ \A i \in 1..Len(s) : u[i] = t[q[i]]
  BY <1>1 DEF Rearranges
<1> DEFINE r == [i \in 1..Len(s) |-> p[q[i]]]
<1>3. Permutes(r, Len(s))
  <2> DEFINE N == 1..Len(s)
  <2>1. p \in [N -> N] /\ q \in [N -> N]
    BY <1>1, <1>2 DEF Permutes
  <2>2. r \in [N -> N] /\ \A i \in N : r[i] = p[q[i]]
    BY <2>1
  <2>3. (\A i, j \in N : p[i] = p[j] => i = j) /\ (\A i, j \in N : q[i] = q[j] => i = j)
    BY <1>1, <1>2 DEF Permutes
  <2>4. (\A k \in N : \E i \in N : p[i] = k) /\ (\A k \in N : \E i \in N : q[i] = k)
    BY <1>1, <1>2 DEF Permutes
  <2> HIDE DEF r, N
  <2>5. \A i, j \in N : r[i] = r[j] => i = j
    BY <2>1, <2>2, <2>3
  <2>6. ASSUME NEW k \in N PROVE \E i \in N : r[i] = k
    <3>1. PICK j \in N : p[j] = k
      BY <2>4
    <3>2. PICK i \in N : q[i] = j
      BY <2>4
    <3> QED
      BY <2>2, <3>1, <3>2
  <2> QED
    BY <2>2, <2>5, <2>6 DEF Permutes, N
<1>4. \A i \in 1..Len(s) : u[i] = s[r[i]]
  BY <1>1, <1>2 DEF Permutes
<1> HIDE DEF r
<1> QED
  BY <1>2, <1>3, <1>4 DEF Rearranges

\* Records that can be sorted.
Ranked(R) == \A r \in R : r.priority \in Int

LEMMA ExchangeFacts ==
    ASSUME NEW R, Ranked(R), NEW s \in Seq(R),
           NEW i \in 1..Len(s), NEW j \in 1..Len(s)
    PROVE  LET t == Exchange(s, i, j)
           IN  /\ t \in Seq(R) /\ Len(t) = Len(s)
               /\ Rearranges(t, s)
               /\ \A k \in 1..Len(s) : k # i /\ k # j => t[k] = s[k]
               /\ t[i].priority <= t[j].priority
               /\ t[i].priority <= s[i].priority
               /\ \/ t[i] = s[i] /\ t[j] = s[j]
                  \/ t[i] = s[j] /\ t[j] = s[i]
<1> DEFINE t == Exchange(s, i, j)
<1>1. CASE s[j].priority < s[i].priority
  <2>1. t = [s EXCEPT ![i] = s[j], ![j] = s[i]]
    BY <1>1 DEF Exchange
  <2>2. s \in [1..Len(s) -> R] /\ DOMAIN s = 1..Len(s) /\ s[i] \in R /\ s[j] \in R
        /\ Len(s) \in Nat
    OBVIOUS
  <2>3. i # j
    BY <1>1, <2>2 DEF Ranked
  <2>4. t \in [1..Len(s) -> R]
    BY <2>1, <2>2
  <2>5. t \in Seq(R) /\ Len(t) = Len(s)
    <3> HIDE DEF t
    <3> QED
      BY <2>2, <2>4
  <2>6. t[i] = s[j] /\ t[j] = s[i] /\ \A k \in 1..Len(s) : k # i /\ k # j => t[k] = s[k]
    BY <2>1, <2>2, <2>3
  <2> DEFINE p == [k \in 1..Len(s) |-> IF k = i THEN j ELSE IF k = j THEN i ELSE k]
  <2>7. Permutes(p, Len(s))
    <3>1. \A k \in 1..Len(s) : p[p[k]] = k /\ p[k] \in 1..Len(s)
      BY <2>3
    <3> QED
      BY <3>1 DEF Permutes
  <2>8. \A k \in 1..Len(s) : t[k] = s[p[k]]
    BY <2>6
  <2>9. Rearranges(t, s)
    <3> HIDE DEF p, t
    <3> QED
      BY <2>5, <2>7, <2>8 DEF Rearranges
  <2> HIDE DEF t
  <2>10. t[i].priority <= t[j].priority /\ t[i].priority <= s[i].priority
    BY <1>1, <2>2, <2>6 DEF Ranked
  <2> QED
    BY <2>5, <2>6, <2>9, <2>10 DEF t
<1>2. CASE ~ (s[j].priority < s[i].priority)
  <2>1. t = s
    BY <1>2 DEF Exchange
  <2>2. s[i] \in R /\ s[j] \in R
    OBVIOUS
  <2> HIDE DEF t
  <2> QED
    BY <1>2, <2>1, <2>2, RearrangesItself DEF t, Ranked
<1> QED
  BY <1>1, <1>2

LEMMA RearrangedPlaces ==
    ASSUME NEW s, NEW t, Rearranges(t, s)
    PROVE  /\ Len(t) = Len(s)
           /\ \A i \in 1..Len(s) : \E k \in 1..Len(s) : t[i] = s[k]
BY DEF Rearranges, Permutes

\* Where s is unchanged, t rearranges the rest: what holds of the elements of s from
\* place i on holds of those of t.
SameBefore(t, s, i) == \A k \in 1..Len(s) : k < i => t[k] = s[k]
AllFrom(s, i, x) == \A k \in 1..Len(s) : i <= k => x <= s[k].priority

\* The inner loop puts the least rule from place i on at i, and touches none before.
LEMMA SortFromFacts ==
    ASSUME NEW R, Ranked(R), NEW s \in Seq(R), NEW i \in 1..Len(s)
    PROVE  LET t == SortFrom(s, i)
           IN  /\ t \in Seq(R) /\ Rearranges(t, s)
               /\ SameBefore(t, s, i)
               /\ AllFrom(t, i, t[i].priority)
               /\ \A x \in Int : AllFrom(s, i, x) => AllFrom(t, i, x)
<1> DEFINE n == Len(s)
           Inv(t, j) == /\ Rearranges(t, s)
                        /\ SameBefore(t, s, i)
                        /\ \A k \in 1..n : i <= k /\ k <= j => t[i].priority <= t[k].priority
                        /\ \A x \in Int : AllFrom(s, i, x) => AllFrom(t, i, x)
           S == [j \in i..n |-> {t \in Seq(R) : Inv(t, j)}]
           step == [j \in i + 1..n |-> [t \in Seq(R) |-> Exchange(t, i, j)]]
<1>1. n \in Nat /\ i \in Nat /\ i <= n /\ s[i] \in R
  OBVIOUS
<1>2. s \in S[i]
  <2>1. Rearranges(s, s)
    BY RearrangesItself
  <2>2. \A k \in 1..n : i <= k /\ k <= i => k = i
    BY <1>1
  <2> QED
    BY <1>1, <2>1, <2>2 DEF SameBefore, Ranked
<1>3. ASSUME NEW j \in i + 1..n, NEW t \in S[j - 1] PROVE step[j][t] \in S[j]
  <2> DEFINE u == Exchange(t, i, j)
  <2>1. i \in 1..n /\ j \in 1..n /\ j - 1 \in i..n /\ j \in i..n /\ i < j
    BY <1>1
  <2>2. t \in Seq(R) /\ Inv(t, j - 1)
    BY <2>1
  <2>3. Len(t) = n
    BY <2>2 DEF Rearranges
  <2> HIDE DEF S, Inv, n
  <2>4. /\ u \in Seq(R) /\ Len(u) = n
        /\ Rearranges(u, t)
        /\ \A k \in 1..n : k # i /\ k # j => u[k] = t[k]
        /\ u[i].priority <= u[j].priority
        /\ u[i].priority <= t[i].priority
        /\ \/ u[i] = t[i] /\ u[j] = t[j]
           \/ u[i] = t[j] /\ u[j] = t[i]
    <3>1. i \in 1..Len(t) /\ j \in 1..Len(t)
      BY <2>1, <2>3
    <3>2. u \in Seq(R) /\ Len(u) = Len(t) /\ Rearranges(u, t)
      BY <2>2, <3>1, ExchangeFacts
    <3>3. \A k \in 1..Len(t) : k # i /\ k # j => u[k] = t[k]
      BY <2>2, <3>1, ExchangeFacts
    <3>4. /\ u[i].priority <= u[j].priority
          /\ u[i].priority <= t[i].priority
          /\ \/ u[i] = t[i] /\ u[j] = t[j]
             \/ u[i] = t[j] /\ u[j] = t[i]
      BY <2>2, <3>1, ExchangeFacts
    <3> HIDE DEF u
    <3> QED
      BY <2>3, <3>2, <3>3, <3>4
  <2> HIDE DEF u
  <2>5. \A k \in 1..n : t[k] \in R /\ u[k] \in R /\ t[k].priority \in Int
                        /\ u[k].priority \in Int
    BY <2>2, <2>3, <2>4 DEF Ranked
  <2>6. Rearranges(u, s)
    BY <2>2, <2>4, RearrangesAgain DEF Inv
  <2>7. SameBefore(u, s, i)
    <3>1. SameBefore(t, s, i)
      BY <2>2 DEF Inv
    <3>2. \A k \in 1..n : k < i => k # i /\ k # j
      BY <1>1, <2>1
    <3> QED
      BY <2>4, <3>1, <3>2 DEF SameBefore, n
  <2>8. \A k \in 1..n : i <= k /\ k <= j => u[i].priority <= u[k].priority
    <3> SUFFICES ASSUME NEW k \in 1..n, i <= k, k <= j
                 PROVE  u[i].priority <= u[k].priority
      OBVIOUS
    <3>1. CASE k = j
      BY <2>4, <3>1
    <3>2. CASE k = i
      BY <2>5, <3>2
    <3>3. CASE k # i /\ k # j
      <4>1. k <= j - 1 /\ u[k] = t[k]
        BY <1>1, <2>1, <2>4, <3>3
      <4>2. t[i].priority <= t[k].priority
        BY <2>2, <4>1 DEF Inv
      <4> QED
        BY <1>1, <2>4, <2>5, <4>1, <4>2
    <3> QED
      BY <3>1, <3>2, <3>3
  <2>9. ASSUME NEW x \in Int, AllFrom(s, i, x) PROVE AllFrom(u, i, x)
    <3>1. \A k \in 1..n : i <= k => x <= t[k].priority
      BY <2>2, <2>3, <2>9 DEF Inv, AllFrom
    <3>2. x <= t[i].priority /\ x <= t[j].priority
      BY <1>1, <2>1, <3>1
    <3>3. \A k \in 1..n : i <= k => x <= u[k].priority
      BY <2>4, <3>1, <3>2
    <3> QED
      BY <2>4, <3>3 DEF AllFrom
  <2>10. Inv(u, j)
    BY <2>6, <2>7, <2>8, <2>9 DEF Inv
  <2>11. step[j][t] = u
    BY <2>2 DEF u
  <2> QED
    BY <2>1, <2>4, <2>10, <2>11 DEF S
<1>4. \E f : /\ f = [j \in i..n |-> f[j]]
             /\ f[i] = s
             /\ \A j \in i + 1..n : f[j] = step[j][f[j - 1]]
             /\ \A j \in i..n : f[j] \in S[j]
  <2> HIDE DEF n, S, step
  <2>1. Steps(i, n, S, s, step)
    BY <1>1, <1>2, <1>3 DEF Steps
  <2> QED
    BY <2>1, Folded
<1> DEFINE Body(f) == [j \in i..n |-> IF j = i THEN s ELSE Exchange(f[j - 1], i, j)]
<1>5. ASSUME NEW f, f = [j \in i..n |-> f[j]], f[i] = s,
             \A j \in i + 1..n : f[j] = step[j][f[j - 1]],
             \A j \in i..n : f[j] \in S[j]
      PROVE  f = Body(f)
  <2>1. \A j \in i..n : f[j] \in Seq(R)
    BY <1>5
  <2>2. \A j \in i + 1..n : j - 1 \in i..n
    BY <1>1
  <2>3. \A j \in i + 1..n : f[j] = Exchange(f[j - 1], i, j)
    <3> HIDE DEF S, n
    <3> QED
      BY <1>5, <2>1, <2>2
  <2>4. \A j \in i..n : f[j] = IF j = i THEN s ELSE Exchange(f[j - 1], i, j)
    <3>1. \A j \in i..n : j = i \/ j \in i + 1..n
      BY <1>1
    <3> HIDE DEF S, n, step
    <3> QED
      BY <1>5, <2>3, <3>1
  <2> HIDE DEF S, n, step
  <2> QED
    BY <1>5, <2>4
<1> DEFINE upTo == CHOOSE f : f = Body(f)
<1>6. upTo = Body(upTo)
  <2> HIDE DEF S, n, step, Body
  <2> QED
    BY <1>4, <1>5
<1>7. \A j \in i..n : upTo[j] \in S[j]
  <2>1. upTo[i] \in S[i]
    <3> HIDE DEF S, n, step, upTo
    <3> QED
      BY <1>1, <1>2, <1>6
  <2>2. ASSUME NEW j \in i + 1..n, upTo[j - 1] \in S[j - 1] PROVE upTo[j] \in S[j]
    <3>1. step[j][upTo[j - 1]] \in S[j]
      BY <1>3, <2>2
    <3>2. j \in i..n /\ j # i /\ j - 1 \in i..n
      BY <1>1
    <3>3. upTo[j - 1] \in Seq(R)
      BY <2>2, <3>2
    <3>4. upTo[j] = Exchange(upTo[j - 1], i, j)
      <4> HIDE DEF S, n, step, upTo
      <4> QED
        BY <1>6, <3>2
    <3>5. step[j][upTo[j - 1]] = Exchange(upTo[j - 1], i, j)
      <4> HIDE DEF S, n, upTo
      <4> QED
        BY <2>2, <3>3
    <3> HIDE DEF S, step, upTo
    <3> QED
      BY <3>1, <3>4, <3>5
  <2> HIDE DEF S, n, step, upTo
  <2> QED
    BY <1>1, <2>1, <2>2, HandedOn
<1>8. SortFrom(s, i) = upTo[n]
  BY DEF SortFrom
<1>9. upTo[n] \in S[n]
  <2> HIDE DEF S, n, upTo
  <2> QED
    BY <1>1, <1>7
<1>10. upTo[n] \in Seq(R) /\ Inv(upTo[n], n)
  <2> HIDE DEF Inv, upTo
  <2> QED
    BY <1>1, <1>9
<1> HIDE DEF upTo
<1>11. AllFrom(upTo[n], i, upTo[n][i].priority)
  <2>1. Len(upTo[n]) = n
    BY <1>10 DEF Rearranges
  <2> HIDE DEF n
  <2> QED
    BY <1>10, <2>1 DEF AllFrom
<1> HIDE DEF n
<1> QED
  BY <1>8, <1>10, <1>11

Sorted(list) ==
    \A i, j \in 1..Len(list) : i < j => list[i].priority <= list[j].priority

\* sortRules sorts by priority and keeps every rule, for lists of every length.
THEOREM SortRulesSorts ==
    ASSUME NEW R, Ranked(R), NEW s \in Seq(R)
    PROVE  /\ SortRules(s) \in Seq(R)
           /\ Rearranges(SortRules(s), s)
           /\ Sorted(SortRules(s))
<1> DEFINE n == Len(s)
           Inv(t, i) == /\ Rearranges(t, s)
                        /\ \A a \in 1..n : a <= i => AllFrom(t, a, t[a].priority)
           S == [i \in 0..n |-> {t \in Seq(R) : Inv(t, i)}]
           step == [i \in 1..n |-> [t \in Seq(R) |-> SortFrom(t, i)]]
<1>1. n \in Nat
  OBVIOUS
<1>2. s \in S[0]
  BY <1>1, RearrangesItself
<1>3. ASSUME NEW i \in 0 + 1..n, NEW t \in S[i - 1] PROVE step[i][t] \in S[i]
  <2> DEFINE u == SortFrom(t, i)
  <2>1. i \in 1..n /\ i - 1 \in 0..n /\ i \in 0..n
    BY <1>1
  <2>2. t \in Seq(R) /\ Inv(t, i - 1)
    BY <2>1
  <2>3. Len(t) = n
    BY <2>2 DEF Rearranges
  <2> HIDE DEF S, Inv
  <2>4. i \in 1..Len(t)
    BY <2>1, <2>3
  <2>5. u \in Seq(R) /\ Rearranges(u, t) /\ SameBefore(u, t, i)
    BY <2>2, <2>4, SortFromFacts
  <2>6. AllFrom(u, i, u[i].priority)
    BY <2>2, <2>4, SortFromFacts
  <2>7. \A x \in Int : AllFrom(t, i, x) => AllFrom(u, i, x)
    BY <2>2, <2>4, SortFromFacts
  <2>8. Len(u) = n
    BY <2>3, <2>5 DEF Rearranges
  <2> HIDE DEF u, n
  <2>9. Rearranges(u, s)
    BY <2>2, <2>5, RearrangesAgain DEF Inv
  <2>10. ASSUME NEW a \in 1..n, a <= i PROVE AllFrom(u, a, u[a].priority)
    <3>1. CASE a = i
      BY <2>6, <3>1
    <3>2. CASE a # i
      <4>1. a < i /\ a <= i - 1 /\ u[a] = t[a] /\ t[a].priority \in Int
        BY <2>1, <2>2, <2>3, <2>5, <2>10, <3>2 DEF SameBefore, Ranked
      <4>2. AllFrom(t, a, t[a].priority)
        BY <2>2, <4>1 DEF Inv
      <4>3. AllFrom(t, i, t[a].priority)
        BY <1>1, <2>1, <2>3, <4>1, <4>2 DEF AllFrom
      <4>4. AllFrom(u, i, t[a].priority)
        BY <2>7, <4>1, <4>3
      <4>5. \A k \in 1..n : a <= k => t[a].priority <= u[k].priority
        <5> SUFFICES ASSUME NEW k \in 1..n, a <= k PROVE t[a].priority <= u[k].priority
          OBVIOUS
        <5>1. CASE i <= k
          BY <2>8, <4>4, <5>1 DEF AllFrom
        <5>2. CASE k < i
          <6>1. u[k] = t[k]
            BY <2>3, <2>5, <5>2 DEF SameBefore
          <6> QED
            BY <2>3, <4>2, <6>1 DEF AllFrom
        <5> QED
          BY <1>1, <2>1, <5>1, <5>2
      <4> QED
        BY <2>8, <4>1, <4>5 DEF AllFrom
    <3> QED
      BY <3>1, <3>2
  <2>11. Inv(u, i)
    BY <2>9, <2>10 DEF Inv
  <2>12. step[i][t] = u
    BY <2>1, <2>2 DEF u
  <2> QED
    BY <2>1, <2>5, <2>11, <2>12 DEF S
<1> DEFINE Body(f) == [i \in 0..n |-> IF i = 0 THEN s ELSE SortFrom(f[i - 1], i)]
           upTo == CHOOSE f : f = Body(f)
<1>4. \A i \in 1..n : i \in 0 + 1..n /\ i \in 0..n /\ i - 1 \in 0..n /\ i # 0
  BY <1>1
<1>5. \A i \in 0..n : \A t \in S[i] : t \in Seq(R)
  OBVIOUS
<1>6. upTo = Body(upTo)
  <2>1. Steps(0, n, S, s, step)
    <3> HIDE DEF n, S, step
    <3> QED
      BY <1>1, <1>2, <1>3 DEF Steps
  <2>2. PICK f : /\ f = [i \in 0..n |-> f[i]]
                 /\ f[0] = s
                 /\ \A i \in 0 + 1..n : f[i] = step[i][f[i - 1]]
                 /\ \A i \in 0..n : f[i] \in S[i]
    <3> HIDE DEF n, S, step
    <3> QED
      BY <2>1, Folded
  <2>3. \A i \in 1..n : f[i] = step[i][f[i - 1]] /\ f[i - 1] \in Seq(R)
    <3> HIDE DEF n, S, step
    <3> QED
      BY <1>4, <1>5, <2>2
  <2>4. \A i \in 1..n : f[i] = SortFrom(f[i - 1], i)
    <3> HIDE DEF n, S
    <3> QED
      BY <2>3
  <2>5. \A i \in 0..n : i = 0 \/ i \in 1..n
    BY <1>1
  <2> HIDE DEF n, S, step
  <2>6. f = Body(f)
    BY <1>4, <2>2, <2>4, <2>5
  <2> HIDE DEF Body
  <2> QED
    BY <2>6
<1>7. \A i \in 0..n : upTo[i] \in S[i]
  <2>1. upTo[0] = s /\ \A i \in 1..n : upTo[i] = SortFrom(upTo[i - 1], i)
    <3>1. 0 \in 0..n
      BY <1>1
    <3> HIDE DEF n, S, step, upTo
    <3> QED
      BY <1>4, <1>6, <3>1
  <2>2. ASSUME NEW i \in 0 + 1..n, upTo[i - 1] \in S[i - 1] PROVE upTo[i] \in S[i]
    <3>1. step[i][upTo[i - 1]] \in S[i]
      BY <1>3, <2>2
    <3>2. upTo[i - 1] \in Seq(R) /\ i \in 1..n
      <4> HIDE DEF S, step, upTo
      <4> QED
        BY <1>1, <1>4, <1>5, <2>2
    <3>3. step[i][upTo[i - 1]] = upTo[i]
      <4> HIDE DEF S, n, upTo
      <4> QED
        BY <2>1, <3>2
    <3> HIDE DEF S, step, upTo
    <3> QED
      BY <3>1, <3>3
  <2> HIDE DEF S, n, step, upTo
  <2> QED
    BY <1>1, <1>2, <2>1, <2>2, HandedOn
<1>8. SortRules(s) = upTo[n]
  BY DEF SortRules
<1>9. upTo[n] \in Seq(R) /\ Inv(upTo[n], n)
  <2>1. upTo[n] \in S[n]
    <3> HIDE DEF S, n, upTo
    <3> QED
      BY <1>1, <1>7
  <2> HIDE DEF Inv, upTo
  <2> QED
    BY <1>1, <2>1
<1> HIDE DEF upTo
<1>10. Sorted(upTo[n])
  <2>1. Len(upTo[n]) = n
    BY <1>9 DEF Rearranges
  <2>2. \A a \in 1..n : AllFrom(upTo[n], a, upTo[n][a].priority)
    BY <1>9
  <2> HIDE DEF n, Inv
  <2> QED
    BY <1>1, <2>1, <2>2 DEF Sorted, AllFrom
<1> QED
  BY <1>8, <1>9, <1>10

-----------------------------------------------------------------------------
(* The other operations of the engine                                          *)

LEMMA FirstOfFacts ==
    ASSUME NEW places, places \subseteq Nat, places # {}
    PROVE  FirstOf(places) \in places /\ \A j \in places : FirstOf(places) <= j
<1>1. \E i \in places : \A j \in places : i <= j
  BY Least
<1> QED
  BY <1>1 DEF FirstOf

\* No two places hold rules of one id; at most one place, or at most two, hold it.
Distinct(list) == \A i, j \in 1..Len(list) : list[i].id = list[j].id => i = j
OnceAtMost(list, id) ==
    \A i, j \in 1..Len(list) : list[i].id = id /\ list[j].id = id => i = j
TwiceAtMost(list) ==
    \A i, j, k \in 1..Len(list) :
        list[i].id = list[j].id /\ list[j].id = list[k].id => i = j \/ j = k \/ i = k

\* The engine's order: see SortedWithinClass.
InClassOrder(list) ==
    \A i, j \in 1..Len(list) :
        (i < j /\ list[i].isPriority = list[j].isPriority)
            => list[i].priority <= list[j].priority

\* How often an id is there does not depend on the order.
LEMMA RearrangedFacts ==
    ASSUME NEW R, NEW s \in Seq(R), NEW t \in Seq(R), Rearranges(t, s)
    PROVE  /\ Len(t) = Len(s)
           /\ \A i \in 1..Len(t) : \E k \in 1..Len(s) : t[i] = s[k]
           /\ \A k \in 1..Len(s) : \E i \in 1..Len(t) : t[i] = s[k]
           /\ Distinct(s) => Distinct(t)
           /\ TwiceAtMost(s) => TwiceAtMost(t)
           /\ \A id : OnceAtMost(s, id) => OnceAtMost(t, id)
<1>1. PICK p : /\ Permutes(p, Len(s))
               /\ Len(t) = Len(s)
               /\ \A i \in 1..Len(s) : t[i] = s[p[i]]
  BY DEF Rearranges
<1>2. /\ \A i \in 1..Len(s) : p[i] \in 1..Len(s)
      /\ \A i, j \in 1..Len(s) : p[i] = p[j] => i = j
      /\ \A k \in 1..Len(s) : \E i \in 1..Len(s) : p[i] = k
  BY <1>1 DEF Permutes
<1>3. \A i \in 1..Len(t) : i \in 1..Len(s) /\ t[i] = s[p[i]]
  BY <1>1
<1>4. ASSUME NEW i \in 1..Len(t) PROVE \E k \in 1..Len(s) : t[i] = s[k]
  BY <1>2, <1>3
<1>5. ASSUME NEW k \in 1..Len(s) PROVE \E i \in 1..Len(t) : t[i] = s[k]
  <2>1. PICK i \in 1..Len(s) : p[i] = k
    BY <1>2
  <2> QED
    BY <1>1, <2>1
<1>6. ASSUME Distinct(s) PROVE Distinct(t)
  <2> SUFFICES ASSUME NEW i \in 1..Len(t), NEW j \in 1..Len(t), t[i].id = t[j].id
               PROVE  i = j
    BY DEF Distinct
  <2>1. s[p[i]].id = s[p[j]].id
    BY <1>3
  <2>2. p[i] = p[j]
    BY <1>2, <1>3, <1>6, <2>1 DEF Distinct
  <2> QED
    BY <1>2, <1>3, <2>2
<1>7. ASSUME TwiceAtMost(s) PROVE TwiceAtMost(t)
  <2> SUFFICES ASSUME NEW i \in 1..Len(t), NEW j \in 1..Len(t), NEW k \in 1..Len(t),
                      t[i].id = t[j].id, t[j].id = t[k].id
               PROVE  i = j \/ j = k \/ i = k
    BY DEF TwiceAtMost
  <2>1. /\ s[p[i]].id = s[p[j]].id /\ s[p[j]].id = s[p[k]].id
        /\ p[i] \in 1..Len(s) /\ p[j] \in 1..Len(s) /\ p[k] \in 1..Len(s)
    BY <1>2, <1>3
  <2>2. p[i] = p[j] \/ p[j] = p[k] \/ p[i] = p[k]
    BY <1>7, <2>1 DEF TwiceAtMost
  <2> QED
    BY <1>2, <1>3, <2>2
<1>8. ASSUME NEW id, OnceAtMost(s, id) PROVE OnceAtMost(t, id)
  <2> SUFFICES ASSUME NEW i \in 1..Len(t), NEW j \in 1..Len(t), t[i].id = id, t[j].id = id
               PROVE  i = j
    BY DEF OnceAtMost
  <2>1. s[p[i]].id = id /\ s[p[j]].id = id
    BY <1>3
  <2>2. p[i] = p[j]
    BY <1>2, <1>3, <1>8, <2>1 DEF OnceAtMost
  <2> QED
    BY <1>2, <1>3, <2>2
<1> QED
  BY <1>1, <1>4, <1>5, <1>6, <1>7, <1>8

LEMMA SortedIsInOrder ==
    ASSUME NEW s, Sorted(s)
    PROVE  InClassOrder(s)
BY DEF Sorted, InClassOrder

\* t is s with rule r added, or with the rule of r's id replaced, or with that of
\* an id removed: what there is of each rule, and how often.
IsAdded(t, s, r) ==
    /\ \A i \in 1..Len(t) : t[i] = r \/ \E k \in 1..Len(s) : t[i] = s[k]
    /\ \E i \in 1..Len(t) : t[i] = r
    /\ \A k \in 1..Len(s) : \E i \in 1..Len(t) : t[i] = s[k]
    /\ Distinct(s) /\ (\A k \in 1..Len(s) : s[k].id # r.id) => Distinct(t)
    /\ TwiceAtMost(s) /\ OnceAtMost(s, r.id) => TwiceAtMost(t)
    /\ \A id : OnceAtMost(s, id) /\ id # r.id => OnceAtMost(t, id)

IsUpdated(t, s, r) ==
    /\ \A i \in 1..Len(t) :
           \/ t[i] = r /\ \E k \in 1..Len(s) : s[k].id = r.id
           \/ \E k \in 1..Len(s) : t[i] = s[k] /\ (Distinct(s) => s[k].id # r.id)
    /\ \A k \in 1..Len(s) : \E i \in 1..Len(t) : t[i].id = s[k].id
    /\ Distinct(s) => Distinct(t)
    /\ TwiceAtMost(s) => TwiceAtMost(t)
    /\ \A id : OnceAtMost(s, id) => OnceAtMost(t, id)

IsRemoved(t, s, id) ==
    /\ \A i \in 1..Len(t) : \E k \in 1..Len(s) :
           t[i] = s[k] /\ (Distinct(s) => s[k].id # id)
    /\ \A k \in 1..Len(s) : s[k].id # id => \E i \in 1..Len(t) : t[i] = s[k]
    /\ Distinct(s) => Distinct(t)
    /\ TwiceAtMost(s) => TwiceAtMost(t)
    /\ \A n : OnceAtMost(s, n) => OnceAtMost(t, n)

LEMMA AddRuleFacts ==
    ASSUME NEW R, Ranked(R), NEW s \in Seq(R), NEW r \in R
    PROVE  /\ AddRule(s, r) \in Seq(R)
           /\ InClassOrder(AddRule(s, r))
           /\ IsAdded(AddRule(s, r), s, r)
<1> DEFINE u == Append(s, r)
           t == AddRule(s, r)
<1>1. /\ u \in Seq(R) /\ Len(u) = Len(s) + 1 /\ Len(s) \in Nat
      /\ u[Len(u)] = r /\ \A k \in 1..Len(s) : u[k] = s[k]
  BY AppendProperties, LenProperties
<1> HIDE DEF u
<1>2. \A k \in 1..Len(u) : k \in 1..Len(s) \/ k = Len(u)
  BY <1>1
<1>3. t \in Seq(R) /\ Rearranges(t, u) /\ Sorted(t)
  BY <1>1, SortRulesSorts DEF AddRule, u
<1> HIDE DEF t
<1>4. /\ Len(t) = Len(u)
      /\ \A i \in 1..Len(t) : \E k \in 1..Len(u) : t[i] = u[k]
      /\ \A k \in 1..Len(u) : \E i \in 1..Len(t) : t[i] = u[k]
      /\ Distinct(u) => Distinct(t)
      /\ TwiceAtMost(u) => TwiceAtMost(t)
      /\ \A id : OnceAtMost(u, id) => OnceAtMost(t, id)
  BY <1>1, <1>3, RearrangedFacts
<1>5. ASSUME NEW i \in 1..Len(t)
      PROVE  t[i] = r \/ \E k \in 1..Len(s) : t[i] = s[k]
  <2>1. PICK k \in 1..Len(u) : t[i] = u[k]
    BY <1>4
  <2> QED
    BY <1>1, <1>2, <2>1
<1>6. /\ \E i \in 1..Len(t) : t[i] = r
      /\ \A k \in 1..Len(s) : \E i \in 1..Len(t) : t[i] = s[k]
  <2>1. Len(u) \in 1..Len(u) /\ \A k \in 1..Len(s) : k \in 1..Len(u)
    BY <1>1
  <2>2. \E i \in 1..Len(t) : t[i] = u[Len(u)]
    BY <1>4, <2>1
  <2>3. ASSUME NEW k \in 1..Len(s) PROVE \E i \in 1..Len(t) : t[i] = s[k]
    <3>1. \E i \in 1..Len(t) : t[i] = u[k]
      BY <1>4, <2>1
    <3> QED
      BY <1>1, <3>1
  <2> QED
    BY <1>1, <2>2, <2>3
<1>7. Distinct(s) /\ (\A k \in 1..Len(s) : s[k].id # r.id) => Distinct(u)
  BY <1>1, <1>2 DEF Distinct
<1>8. TwiceAtMost(s) /\ OnceAtMost(s, r.id) => TwiceAtMost(u)
  <2> SUFFICES ASSUME TwiceAtMost(s), OnceAtMost(s, r.id),
                      NEW i \in 1..Len(u), NEW j \in 1..Len(u), NEW k \in 1..Len(u),
                      u[i].id = u[j].id, u[j].id = u[k].id
               PROVE  i = j \/ j = k \/ i = k
    BY DEF TwiceAtMost
  <2>1. CASE i = Len(u) \/ j = Len(u) \/ k = Len(u)
    BY <1>1, <1>2, <2>1 DEF OnceAtMost
  <2>2. CASE i \in 1..Len(s) /\ j \in 1..Len(s) /\ k \in 1..Len(s)
    BY <1>1, <2>2 DEF TwiceAtMost
  <2> QED
    BY <1>2, <2>1, <2>2
<1>9. \A id : OnceAtMost(s, id) /\ id # r.id => OnceAtMost(u, id)
  BY <1>1, <1>2 DEF OnceAtMost
<1> QED
  BY <1>3, <1>4, <1>5, <1>6, <1>7, <1>8, <1>9, SortedIsInOrder DEF t, IsAdded

LEMMA PlacesFacts ==
    ASSUME NEW R, NEW s \in Seq(R), NEW id, PlacesOf(s, id) # {}
    PROVE  /\ FirstOf(PlacesOf(s, id)) \in 1..Len(s)
           /\ s[FirstOf(PlacesOf(s, id))].id = id
<1>1. DOMAIN s = 1..Len(s) /\ Len(s) \in Nat
  BY LenProperties
<1>2. PlacesOf(s, id) \subseteq Nat
  BY <1>1 DEF PlacesOf
<1>3. FirstOf(PlacesOf(s, id)) \in PlacesOf(s, id)
  BY <1>2, FirstOfFacts
<1> QED
  BY <1>1, <1>3 DEF PlacesOf

LEMMA NoPlaces ==
    ASSUME NEW R, NEW s \in Seq(R), NEW id, PlacesOf(s, id) = {}
    PROVE  \A k \in 1..Len(s) : s[k].id # id
BY LenProperties DEF PlacesOf

LEMMA UpdateRuleFacts ==
    ASSUME NEW R, Ranked(R), NEW s \in Seq(R), NEW r \in R
    PROVE  /\ UpdateRule(s, r) \in Seq(R)
           /\ InClassOrder(s) => InClassOrder(UpdateRule(s, r))
           /\ IsUpdated(UpdateRule(s, r), s, r)
<1> DEFINE t == UpdateRule(s, r)
           f == FirstOf(PlacesOf(s, r.id))
           u == [s EXCEPT ![f] = r]
<1>1. CASE PlacesOf(s, r.id) = {}
  <2>1. t = s
    BY <1>1 DEF UpdateRule
  <2>2. \A k \in 1..Len(s) : s[k].id # r.id
    BY <1>1, NoPlaces
  <2> HIDE DEF t
  <2> QED
    BY <2>1, <2>2 DEF t, IsUpdated
<1>2. CASE PlacesOf(s, r.id) # {}
  <2>1. f \in 1..Len(s) /\ s[f].id = r.id
    BY <1>2, PlacesFacts
  <2> HIDE DEF f
  <2>2. u \in Seq(R) /\ Len(u) = Len(s) /\ u[f] = r
        /\ \A k \in 1..Len(s) : k # f => u[k] = s[k]
    BY <2>1
  <2>3. t = SortRules(u)
    BY <1>2 DEF UpdateRule, f
  <2> HIDE DEF u
  <2>4. t \in Seq(R) /\ Rearranges(t, u) /\ Sorted(t)
    BY <2>2, <2>3, SortRulesSorts
  <2> HIDE DEF t
  <2>5. /\ Len(t) = Len(u)
        /\ \A i \in 1..Len(t) : \E k \in 1..Len(u) : t[i] = u[k]
        /\ \A k \in 1..Len(u) : \E i \in 1..Len(t) : t[i] = u[k]
        /\ Distinct(u) => Distinct(t)
        /\ TwiceAtMost(u) => TwiceAtMost(t)
        /\ \A id : OnceAtMost(u, id) => OnceAtMost(t, id)
    BY <2>2, <2>4, RearrangedFacts
  <2>6. \A k \in 1..Len(s) : u[k].id = s[k].id
    BY <2>1, <2>2
  <2>7. /\ Distinct(s) => Distinct(u)
        /\ TwiceAtMost(s) => TwiceAtMost(u)
        /\ \A id : OnceAtMost(s, id) => OnceAtMost(u, id)
    <3>1. Len(u) = Len(s)
      BY <2>2
    <3>2. Distinct(s) => Distinct(u)
      BY <2>6, <3>1 DEF Distinct
    <3>3. TwiceAtMost(s) => TwiceAtMost(u)
      BY <2>6, <3>1 DEF TwiceAtMost
    <3>4. \A id : OnceAtMost(s, id) => OnceAtMost(u, id)
      BY <2>6, <3>1 DEF OnceAtMost
    <3> QED
      BY <3>2, <3>3, <3>4
  <2>8. \A k \in 1..Len(s) : Distinct(s) /\ k # f => s[k].id # r.id
    BY <2>1 DEF Distinct
  <2>9. ASSUME NEW i \in 1..Len(t)
        PROVE  \/ t[i] = r /\ \E k \in 1..Len(s) : s[k].id = r.id
               \/ \E k \in 1..Len(s) : t[i] = s[k] /\ (Distinct(s) => s[k].id # r.id)
    <3>1. PICK k \in 1..Len(s) : t[i] = u[k]
      BY <2>2, <2>5
    <3>2. CASE k = f
      BY <2>1, <2>2, <3>1, <3>2
    <3>3. CASE k # f
      BY <2>2, <2>8, <3>1, <3>3
    <3> QED
      BY <3>2, <3>3
  <2>10. ASSUME NEW k \in 1..Len(s) PROVE \E i \in 1..Len(t) : t[i].id = s[k].id
    <3>1. PICK i \in 1..Len(t) : t[i] = u[k]
      BY <2>2, <2>5
    <3> QED
      BY <2>6, <3>1
  <2> QED
    BY <2>4, <2>5, <2>7, <2>9, <2>10, SortedIsInOrder DEF t, IsUpdated
<1> QED
  BY <1>1, <1>2

LEMMA RemoveAtFacts ==
    ASSUME NEW R, NEW s \in Seq(R), NEW f \in 1..Len(s)
    PROVE  LET t == RemoveAt(s, f)
           IN  /\ t \in Seq(R) /\ Len(t) = Len(s) - 1
               /\ \A j \in 1..Len(t) : t[j] = IF j < f THEN s[j] ELSE s[j + 1]
<1> DEFINE a == SubSeq(s, 1, f - 1)
           b == SubSeq(s, f + 1, Len(s))
<1>1. Len(s) \in Nat
  BY LenProperties
<1>2. a \in Seq(R) /\ Len(a) = f - 1 /\ \A j \in 1..f - 1 : a[j] = s[j]
  BY <1>1
<1>3. b \in Seq(R) /\ Len(b) = Len(s) - f /\ \A j \in 1..Len(s) - f : b[j] = s[f + j]
  BY <1>1
<1>4. RemoveAt(s, f) = a \o b
  BY DEF RemoveAt
<1> HIDE DEF a, b
<1>5. /\ a \o b \in Seq(R) /\ Len(a \o b) = Len(a) + Len(b)
      /\ \A j \in 1..Len(a) + Len(b) :
             (a \o b)[j] = IF j <= Len(a) THEN a[j] ELSE b[j - Len(a)]
  BY <1>2, <1>3, ConcatProperties
<1>6. ASSUME NEW j \in 1..Len(s) - 1
      PROVE  (a \o b)[j] = IF j < f THEN s[j] ELSE s[j + 1]
  <2>1. j \in 1..Len(a) + Len(b)
    BY <1>1, <1>2, <1>3
  <2>2. CASE j < f
    <3>1. j <= Len(a) /\ j \in 1..f - 1
      BY <1>1, <1>2, <2>2
    <3> QED
      BY <1>2, <1>5, <2>1, <2>2, <3>1
  <2>3. CASE ~ (j < f)
    <3>1. ~ (j <= Len(a)) /\ j - Len(a) \in 1..Len(s) - f /\ f + (j - Len(a)) = j + 1
      BY <1>1, <1>2, <2>3
    <3> QED
      BY <1>3, <1>5, <2>1, <2>3, <3>1
  <2> QED
    BY <2>2, <2>3
<1> QED
  BY <1>1, <1>2, <1>3, <1>4, <1>5, <1>6

LEMMA RemoveRuleFacts ==
    ASSUME NEW R, Ranked(R), NEW s \in Seq(R), NEW id
    PROVE  /\ RemoveRule(s, id) \in Seq(R)
           /\ InClassOrder(s) => InClassOrder(RemoveRule(s, id))
           /\ IsRemoved(RemoveRule(s, id), s, id)
<1> DEFINE t == RemoveRule(s, id)
           f == FirstOf(PlacesOf(s, id))
<1>1. CASE PlacesOf(s, id) = {}
  <2>1. t = s
    BY <1>1 DEF RemoveRule
  <2>2. \A k \in 1..Len(s) : s[k].id # id
    BY <1>1, NoPlaces
  <2> HIDE DEF t
  <2> QED
    BY <2>1, <2>2 DEF t, IsRemoved
<1>2. CASE PlacesOf(s, id) # {}
  <2>1. f \in 1..Len(s) /\ s[f].id = id /\ Len(s) \in Nat
    BY <1>2, PlacesFacts, LenProperties
  <2>2. t = RemoveAt(s, f)
    BY <1>2 DEF RemoveRule
  <2> HIDE DEF f
  <2>3. /\ t \in Seq(R) /\ Len(t) = Len(s) - 1
        /\ \A j \in 1..Len(t) : t[j] = IF j < f THEN s[j] ELSE s[j + 1]
    BY <2>1, <2>2, RemoveAtFacts
  <2> HIDE DEF t
  <2> DEFINE from == [j \in 1..Len(t) |-> IF j < f THEN j ELSE j + 1]
  <2>4. /\ \A j \in 1..Len(t) : from[j] \in 1..Len(s) /\ from[j] # f /\ t[j] = s[from[j]]
        /\ \A i, j \in 1..Len(t) : i < j => from[i] < from[j]
        /\ \A i, j \in 1..Len(t) : from[i] = from[j] => i = j
    BY <2>1, <2>3
  <2>5. \A k \in 1..Len(s) : k # f => \E j \in 1..Len(t) : from[j] = k
    <3> SUFFICES ASSUME NEW k \in 1..Len(s), k # f PROVE \E j \in 1..Len(t) : from[j] = k
      OBVIOUS
    <3>1. CASE k < f
      <4>1. k \in 1..Len(t) /\ from[k] = k
        BY <2>1, <2>3, <3>1
      <4> QED
        BY <4>1
    <3>2. CASE f < k
      <4>1. k - 1 \in 1..Len(t) /\ from[k - 1] = k
        BY <2>1, <2>3, <3>2
      <4> QED
        BY <4>1
    <3> QED
      BY <2>1, <3>1, <3>2
  <2> HIDE DEF from
  <2>6. ASSUME InClassOrder(s) PROVE InClassOrder(t)
    <3> SUFFICES ASSUME NEW i \in 1..Len(t), NEW j \in 1..Len(t), i < j,
                        t[i].isPriority = t[j].isPriority
                 PROVE  t[i].priority <= t[j].priority
      BY DEF InClassOrder
    <3>1. /\ from[i] \in 1..Len(s) /\ from[j] \in 1..Len(s) /\ from[i] < from[j]
          /\ t[i] = s[from[i]] /\ t[j] = s[from[j]]
      BY <2>4
    <3> QED
      BY <2>6, <3>1 DEF InClassOrder
  <2>7. \A k \in 1..Len(s) : Distinct(s) /\ k # f => s[k].id # id
    BY <2>1 DEF Distinct
  <2>8. \A i \in 1..Len(t) : \E k \in 1..Len(s) :
            t[i] = s[k] /\ (Distinct(s) => s[k].id # id)
    BY <2>4, <2>7
  <2>9. \A k \in 1..Len(s) : s[k].id # id => \E i \in 1..Len(t) : t[i] = s[k]
    <3> SUFFICES ASSUME NEW k \in 1..Len(s), s[k].id # id
                 PROVE  \E i \in 1..Len(t) : t[i] = s[k]
      OBVIOUS
    <3>1. k # f
      BY <2>1
    <3>2. PICK j \in 1..Len(t) : from[j] = k
      BY <2>5, <3>1
    <3> QED
      BY <2>4, <3>2
  <2>10. /\ Distinct(s) => Distinct(t)
         /\ TwiceAtMost(s) => TwiceAtMost(t)
         /\ \A n : OnceAtMost(s, n) => OnceAtMost(t, n)
    <3>1. ASSUME Distinct(s) PROVE Distinct(t)
      <4> SUFFICES ASSUME NEW i \in 1..Len(t), NEW j \in 1..Len(t), t[i].id = t[j].id
                   PROVE  i = j
        BY DEF Distinct
      <4> QED
        BY <2>4, <3>1 DEF Distinct
    <3>2. ASSUME TwiceAtMost(s) PROVE TwiceAtMost(t)
      <4> SUFFICES ASSUME NEW i \in 1..Len(t), NEW j \in 1..Len(t), NEW k \in 1..Len(t),
                          t[i].id = t[j].id, t[j].id = t[k].id
                   PROVE  i = j \/ j = k \/ i = k
        BY DEF TwiceAtMost
      <4>1. /\ t[i] = s[from[i]] /\ t[j] = s[from[j]] /\ t[k] = s[from[k]]
            /\ from[i] \in 1..Len(s) /\ from[j] \in 1..Len(s) /\ from[k] \in 1..Len(s)
        BY <2>4
      <4>2. \/ from[i] = from[j] \/ from[j] = from[k] \/ from[i] = from[k]
        BY <3>2, <4>1 DEF TwiceAtMost
      <4> QED
        BY <2>4, <4>2
    <3>3. ASSUME NEW n, OnceAtMost(s, n) PROVE OnceAtMost(t, n)
      <4> SUFFICES ASSUME NEW i \in 1..Len(t), NEW j \in 1..Len(t), t[i].id = n, t[j].id = n
                   PROVE  i = j
        BY DEF OnceAtMost
      <4> QED
        BY <2>4, <3>3 DEF OnceAtMost
    <3> QED
      BY <3>1, <3>2, <3>3
  <2> QED
    BY <2>3, <2>6, <2>8, <2>9, <2>10 DEF t, IsRemoved
<1> QED
  BY <1>1, <1>2

-----------------------------------------------------------------------------
(* Rules and tables                                                            *)

RuleRecords ==
    [id : Nat, backend : {body.backend : body \in RuleBodies},
     priority : Int, enabled : BOOLEAN, isPriority : BOOLEAN,
     groups : {body.groups : body \in RuleBodies},
     groupLogic : {body.groupLogic : body \in RuleBodies}]

IsTable(table) ==
    /\ table = [id \in DOMAIN table |-> table[id]]
    /\ DOMAIN table \subseteq 1..MaxRules
    /\ \A id \in DOMAIN table : table[id] \in RowBodies

Rows(table) == {RuleOf(id, table[id]) : id \in DOMAIN table}

LEMMA RuleRecordsRanked == Ranked(RuleRecords)
BY DEF Ranked, RuleRecords

LEMMA RuleOfFacts ==
    ASSUME NEW id \in Nat, NEW body \in RowBodies
    PROVE  RuleOf(id, body) \in RuleRecords /\ RuleOf(id, body).id = id
BY DEF RuleOf, RuleRecords, RowBodies

LEMMA TableFacts ==
    ASSUME NEW table, IsTable(table)
    PROVE  /\ IsFiniteSet(DOMAIN table)
           /\ DOMAIN table \subseteq Nat
           /\ \A id \in DOMAIN table : /\ table[id] \in RowBodies
                                       /\ RuleOf(id, table[id]) \in RuleRecords
                                       /\ RuleOf(id, table[id]).id = id
<1>1. IsFiniteSet(1..MaxRules) /\ 1..MaxRules \subseteq Nat
  BY FS_Interval, RulesAssumption
<1>2. DOMAIN table \in SUBSET (1..MaxRules)
  BY DEF IsTable
<1>3. \A id \in DOMAIN table : table[id] \in RowBodies
  BY DEF IsTable
<1> QED
  BY <1>1, <1>2, <1>3, FS_Subset, RuleOfFacts

\* The rows of a table are as many as its ids.
LEMMA RowsFacts ==
    ASSUME NEW table, IsTable(table)
    PROVE  /\ IsFiniteSet(Rows(table)) /\ Rows(table) \subseteq RuleRecords
           /\ Cardinality(Rows(table)) = Cardinality(DOMAIN table)
           /\ \A r \in Rows(table) : r.id \in DOMAIN table /\ r = RuleOf(r.id, table[r.id])
<1>1. \A id \in DOMAIN table : /\ RuleOf(id, table[id]) \in RuleRecords
                               /\ RuleOf(id, table[id]).id = id
  BY TableFacts
<1> DEFINE f == [id \in DOMAIN table |-> RuleOf(id, table[id])]
<1>2. f \in [DOMAIN table -> Rows(table)]
  BY DEF Rows
<1>3. \A a, b \in DOMAIN table : f[a] = f[b] => a = b
  <2> SUFFICES ASSUME NEW a \in DOMAIN table, NEW b \in DOMAIN table, f[a] = f[b]
               PROVE  a = b
    OBVIOUS
  <2>1. RuleOf(a, table[a]).id = RuleOf(b, table[b]).id
    OBVIOUS
  <2> QED
    BY <1>1, <2>1
<1>4. \A r \in Rows(table) : \E id \in DOMAIN table : f[id] = r
  BY DEF Rows
<1> HIDE DEF f
<1>5. f \in Bijection(DOMAIN table, Rows(table))
  BY <1>2, <1>3, <1>4 DEF Bijection, Injection, Surjection, IsInjective
<1>6. /\ IsFiniteSet(Rows(table))
      /\ Cardinality(Rows(table)) = Cardinality(DOMAIN table)
  BY <1>5, TableFacts, FS_Bijection DEF ExistsBijection
<1>7. \A r \in Rows(table) : r \in RuleRecords /\ r.id \in DOMAIN table
                             /\ r = RuleOf(r.id, table[r.id])
  BY <1>1 DEF Rows
<1> QED
  BY <1>6, <1>7

LEMMA ListedBeforeFacts ==
    ASSUME NEW a \in RuleRecords, NEW b \in RuleRecords, NEW c \in RuleRecords
    PROVE  /\ ListedBefore(a, b) /\ ListedBefore(b, c) => ListedBefore(a, c)
           /\ ~ ListedBefore(a, a)
           /\ a.id # b.id => ListedBefore(a, b) \/ ListedBefore(b, a)
           /\ ListedBefore(a, b) /\ a.isPriority = b.isPriority => a.priority <= b.priority
<1>1. /\ a.isPriority \in BOOLEAN /\ b.isPriority \in BOOLEAN /\ c.isPriority \in BOOLEAN
      /\ a.priority \in Int /\ b.priority \in Int /\ c.priority \in Int
      /\ a.id \in Nat /\ b.id \in Nat /\ c.id \in Nat
  BY DEF RuleRecords
<1>2. ListedBefore(a, b) /\ ListedBefore(b, c) => ListedBefore(a, c)
  BY <1>1 DEF ListedBefore
<1>3. ~ ListedBefore(a, a)
  BY <1>1 DEF ListedBefore
<1>4. a.id # b.id => ListedBefore(a, b) \/ ListedBefore(b, a)
  BY <1>1 DEF ListedBefore
<1>5. ListedBefore(a, b) /\ a.isPriority = b.isPriority => a.priority <= b.priority
  BY <1>1 DEF ListedBefore
<1> QED
  BY <1>2, <1>3, <1>4, <1>5

InListOrder(list, n) == \A i, j \in 1..n : i < j => ListedBefore(list[i], list[j])

\* A finite set of rules with ids of their own can be listed in that order.
LEMMA ListingExists ==
    ASSUME NEW rows, rows \subseteq RuleRecords, IsFiniteSet(rows),
           \A a, b \in rows : a.id = b.id => a = b
    PROVE  \E list \in [1..Cardinality(rows) -> rows] : InListOrder(list, Cardinality(rows))
<1> DEFINE Listed(S, n) == \E list \in [1..n -> S] : InListOrder(list, n)
           Bad == {n \in Nat : \E S \in SUBSET rows :
                                  IsFiniteSet(S) /\ Cardinality(S) = n /\ ~Listed(S, n)}
<1>1. ASSUME Bad # {} PROVE FALSE
  <2>1. PICK n \in Bad : \A l \in Bad : n <= l
    <3>1. Bad \subseteq Nat
      OBVIOUS
    <3> HIDE DEF Bad
    <3> QED
      BY <1>1, <3>1, Least
  <2>2. PICK S \in SUBSET rows : IsFiniteSet(S) /\ Cardinality(S) = n /\ ~Listed(S, n)
    BY <2>1
  <2>3. n # 0
    <3>1. ASSUME n = 0 PROVE FALSE
      <4>1. S = {} /\ 1..0 = {}
        BY <2>2, <3>1, FS_EmptySet
      <4>2. <<>> \in [1..0 -> S] /\ InListOrder(<<>>, 0)
        BY <4>1 DEF InListOrder
      <4> QED
        BY <2>2, <3>1, <4>2
    <3> QED
      BY <3>1
  <2>4. PICK x \in S : TRUE
    BY <2>2, <2>3, FS_EmptySet
  <2>5. IsFiniteSet(S \ {x}) /\ Cardinality(S \ {x}) = n - 1 /\ S \ {x} \in SUBSET rows
    BY <2>2, <2>4, FS_RemoveElement
  <2>6. Listed(S \ {x}, n - 1)
    <3>1. n - 1 \in Nat /\ n - 1 \notin Bad
      BY <2>1, <2>3
    <3> HIDE DEF Listed
    <3> QED
      BY <2>5, <3>1
  <2>7. PICK l \in [1..n - 1 -> S \ {x}] : InListOrder(l, n - 1)
    BY <2>6
  <2> DEFINE places == {i \in 1..n : i = n \/ ListedBefore(x, l[i])}
  <2>8. PICK k \in places : \A i \in places : k <= i
    <3>1. n \in places /\ places \subseteq Nat
      BY <2>1, <2>3
    <3> HIDE DEF places
    <3> QED
      BY <3>1, Least
  <2> DEFINE m == [i \in 1..n |-> IF i < k THEN l[i] ELSE IF i = k THEN x ELSE l[i - 1]]
  <2>9. m \in [1..n -> S]
    <3>1. \A i \in 1..n : i < k => i \in 1..n - 1
      BY <2>1, <2>8
    <3>2. \A i \in 1..n : ~ (i < k) /\ i # k => i - 1 \in 1..n - 1
      BY <2>1, <2>8
    <3>3. \A i \in 1..n - 1 : l[i] \in S
      BY <2>7
    <3> QED
      BY <2>4, <3>1, <3>2, <3>3
  <2>10. \A i \in 1..n - 1 : l[i] \in RuleRecords /\ l[i].id # x.id /\ x \in RuleRecords
    <3>1. \A i \in 1..n - 1 : l[i] \in S /\ l[i] # x
      BY <2>7
    <3> QED
      BY <2>2, <2>4, <3>1
  <2>11. \A i \in 1..n : i < k => ListedBefore(l[i], x)
    <3> SUFFICES ASSUME NEW i \in 1..n, i < k PROVE ListedBefore(l[i], x)
      OBVIOUS
    <3>1. i \in 1..n - 1 /\ ~ ListedBefore(x, l[i])
      BY <2>1, <2>8
    <3> QED
      BY <2>10, <3>1, ListedBeforeFacts
  <2>12. \A i \in 1..n - 1 : k <= i => ListedBefore(x, l[i])
    <3> SUFFICES ASSUME NEW i \in 1..n - 1, k <= i PROVE ListedBefore(x, l[i])
      OBVIOUS
    <3>1. k \in 1..n - 1 /\ ListedBefore(x, l[k])
      BY <2>1, <2>8
    <3>2. CASE k = i
      BY <3>1, <3>2
    <3>3. CASE k < i
      <4>1. ListedBefore(l[k], l[i])
        BY <2>7, <3>1, <3>3 DEF InListOrder
      <4> QED
        BY <2>10, <3>1, <4>1, ListedBeforeFacts
    <3> QED
      BY <3>1, <3>2, <3>3
  <2>13. InListOrder(m, n)
    <3> SUFFICES ASSUME NEW i \in 1..n, NEW j \in 1..n, i < j
                 PROVE  ListedBefore(m[i], m[j])
      BY DEF InListOrder
    <3>0. n \in Nat /\ k \in 1..n
      BY <2>1, <2>8
    <3>1. CASE j < k
      <4>1. i \in 1..n - 1 /\ j \in 1..n - 1 /\ m[i] = l[i] /\ m[j] = l[j]
        BY <3>0, <3>1
      <4> HIDE DEF m
      <4> QED
        BY <2>7, <4>1 DEF InListOrder
    <3>2. CASE j = k
      <4>1. m[i] = l[i] /\ m[j] = x /\ i < k
        BY <3>0, <3>2
      <4> HIDE DEF m
      <4> QED
        BY <2>11, <4>1
    <3>3. CASE i = k
      <4>1. m[i] = x /\ m[j] = l[j - 1] /\ j - 1 \in 1..n - 1 /\ k <= j - 1
        BY <3>0, <3>3
      <4> HIDE DEF m
      <4> QED
        BY <2>12, <4>1
    <3>4. CASE i < k /\ k < j
      <4>1. m[i] = l[i] /\ m[j] = l[j - 1] /\ i \in 1..n - 1 /\ j - 1 \in 1..n - 1
            /\ i < j - 1
        BY <3>0, <3>4
      <4> HIDE DEF m
      <4> QED
        BY <2>7, <4>1 DEF InListOrder
    <3>5. CASE k < i
      <4>1. m[i] = l[i - 1] /\ m[j] = l[j - 1] /\ i - 1 \in 1..n - 1 /\ j - 1 \in 1..n - 1
            /\ i - 1 < j - 1
        BY <3>0, <3>5
      <4> HIDE DEF m
      <4> QED
        BY <2>7, <4>1 DEF InListOrder
    <3> QED
      BY <3>0, <3>1, <3>2, <3>3, <3>4, <3>5
  <2> HIDE DEF m
  <2> QED
    BY <2>2, <2>9, <2>13
<1>2. Cardinality(rows) \in Nat /\ Cardinality(rows) \notin Bad
  BY <1>1, FS_CardinalityType
<1> QED
  BY <1>2

\* The list holds one rule of every id of the table, and no other id.
Covers(list, table) ==
    /\ Distinct(list)
    /\ \A i \in 1..Len(list) : list[i].id \in DOMAIN table
    /\ \A id \in DOMAIN table : \E i \in 1..Len(list) : list[i].id = id

IsListing(list, table) ==
    /\ Covers(list, table)
    /\ \A i \in 1..Len(list) : list[i] = RuleOf(list[i].id, table[list[i].id])
    /\ InClassOrder(list)

\* Reading the table gives each row once, in the order the engine wants.
LEMMA ListingFacts ==
    ASSUME NEW table, IsTable(table)
    PROVE  LET l == ListRouteRules(table)
           IN  l \in Seq(RuleRecords) /\ IsListing(l, table)
<1> DEFINE rows == Rows(table)
           n == Cardinality(rows)
           l == ListRouteRules(table)
<1>1. /\ IsFiniteSet(rows) /\ rows \subseteq RuleRecords
      /\ \A r \in rows : r.id \in DOMAIN table /\ r = RuleOf(r.id, table[r.id])
  BY RowsFacts
<1>2. n \in Nat
  BY <1>1, FS_CardinalityType
<1>3. \E m \in [1..n -> rows] : InListOrder(m, n)
  <2>1. \A a, b \in rows : a.id = b.id => a = b
    BY <1>1
  <2> HIDE DEF rows
  <2> QED
    BY <1>1, <2>1, ListingExists
<1>4. \A m \in [1..n -> rows] :
          InListOrder(m, n)
              <=> \A i, j \in DOMAIN m : i < j => ListedBefore(m[i], m[j])
  BY DEF InListOrder
<1>5. l = CHOOSE m \in [1..n -> rows] :
              \A i, j \in DOMAIN m : i < j => ListedBefore(m[i], m[j])
  BY DEF ListRouteRules, Rows
<1> HIDE DEF l, rows
<1>6. l \in [1..n -> rows] /\ InListOrder(l, n)
  <2>1. \E m \in [1..n -> rows] : \A i, j \in DOMAIN m : i < j => ListedBefore(m[i], m[j])
    BY <1>3, <1>4
  <2>2. /\ l \in [1..n -> rows]
        /\ \A i, j \in DOMAIN l : i < j => ListedBefore(l[i], l[j])
    BY <1>5, <2>1
  <2> QED
    BY <1>4, <2>2
<1> HIDE DEF n
<1>7. \A i \in 1..n : /\ l[i] \in rows /\ l[i] \in RuleRecords
                      /\ l[i].id \in DOMAIN table
                      /\ l[i] = RuleOf(l[i].id, table[l[i].id])
  BY <1>1, <1>6
<1>8. l \in Seq(RuleRecords) /\ Len(l) = n
  BY <1>1, <1>2, <1>6
<1>9. ASSUME NEW i \in 1..n, NEW j \in 1..n, l[i].id = l[j].id PROVE i = j
  <2>1. l[i] = l[j]
    BY <1>7, <1>9
  <2>2. ~ ListedBefore(l[i], l[j]) /\ ~ ListedBefore(l[j], l[i])
    BY <1>7, <2>1, ListedBeforeFacts
  <2> QED
    BY <1>2, <1>6, <2>2 DEF InListOrder
<1>10. l \in Surjection(1..n, rows)
  <2>1. l \in Injection(1..n, rows)
    BY <1>6, <1>9 DEF Injection, IsInjective
  <2>2. Cardinality(1..n) = n
    BY <1>2, FS_Interval
  <2> QED
    BY <1>1, <2>1, <2>2, FS_Injection DEF n
<1>11. ASSUME NEW id \in DOMAIN table PROVE \E i \in 1..n : l[i].id = id
  <2>1. RuleOf(id, table[id]) \in rows /\ RuleOf(id, table[id]).id = id
    BY TableFacts DEF rows, Rows
  <2> QED
    BY <1>10, <2>1 DEF Surjection
<1>12. InClassOrder(l)
  <2> SUFFICES ASSUME NEW i \in 1..n, NEW j \in 1..n, i < j,
                      l[i].isPriority = l[j].isPriority
               PROVE  l[i].priority <= l[j].priority
    BY <1>8 DEF InClassOrder
  <2>1. ListedBefore(l[i], l[j])
    BY <1>6 DEF InListOrder
  <2> QED
    BY <1>7, <2>1, ListedBeforeFacts
<1>13. IsListing(l, table)
  BY <1>7, <1>8, <1>9, <1>11, <1>12 DEF IsListing, Covers, Distinct
<1> QED
  BY <1>8, <1>13 DEF l

\* The rule as boot adds it
Unflagged(rule) == [rule EXCEPT !.isPriority = FALSE]

LEMMA UnflaggedFacts ==
    ASSUME NEW r \in RuleRecords
    PROVE  /\ Unflagged(r) \in RuleRecords
           /\ Unflagged(r).id = r.id
           /\ Unflagged(Unflagged(r)) = Unflagged(r)
<1>1. Unflagged(r) \in RuleRecords
  BY DEF Unflagged, RuleRecords
<1>2. Unflagged(r).id = r.id
  BY DEF Unflagged, RuleRecords
<1>3. Unflagged(Unflagged(r)) = Unflagged(r)
  BY DEF Unflagged, RuleRecords
<1> QED
  BY <1>1, <1>2, <1>3

\* t holds the first k rules of s, without their flags, in an order.
AddedFirst(t, s, k) ==
    /\ InClassOrder(t) /\ Distinct(t)
    /\ \A i \in 1..Len(t) : \E m \in 1..k : t[i] = Unflagged(s[m])
    /\ \A m \in 1..k : \E i \in 1..Len(t) : t[i] = Unflagged(s[m])

\* Boot leaves no rule of the table out and adds none twice.
LEMMA AddedAtBootFacts ==
    ASSUME NEW s \in Seq(RuleRecords), Distinct(s)
    PROVE  AddedAtBoot(s) \in Seq(RuleRecords) /\ AddedFirst(AddedAtBoot(s), s, Len(s))
<1> DEFINE n == Len(s)
           R == RuleRecords
           S == [k \in 0..n |-> {t \in Seq(R) : AddedFirst(t, s, k)}]
           step == [k \in 1..n |-> [t \in Seq(R) |-> AddRule(t, Unflagged(s[k]))]]
<1>1. n \in Nat
  BY LenProperties
<1>2. <<>> \in S[0]
  <2>1. Len(<<>>) = 0 /\ 1..0 = {} /\ <<>> \in Seq(R)
    OBVIOUS
  <2>2. AddedFirst(<<>>, s, 0)
    BY <2>1 DEF AddedFirst, InClassOrder, Distinct
  <2> QED
    BY <1>1, <2>1, <2>2
<1>3. ASSUME NEW k \in 0 + 1..n, NEW t \in S[k - 1] PROVE step[k][t] \in S[k]
  <2> DEFINE r == Unflagged(s[k])
             u == AddRule(t, r)
  <2>1. k \in 1..n /\ k - 1 \in 0..n /\ k \in 0..n
    BY <1>1
  <2>2. t \in Seq(R) /\ AddedFirst(t, s, k - 1)
    BY <2>1
  <2>3. s[k] \in RuleRecords /\ \A m \in 1..n : s[m] \in RuleRecords
    BY <2>1
  <2>4. r \in RuleRecords /\ r.id = s[k].id
    BY <2>3, UnflaggedFacts
  <2>5. step[k][t] = u
    BY <2>1, <2>2
  <2> HIDE DEF S, step, r, u
  <2>6. \A i \in 1..Len(t) : t[i].id # r.id
    <3> SUFFICES ASSUME NEW i \in 1..Len(t) PROVE t[i].id # r.id
      OBVIOUS
    <3>1. PICK m \in 1..k - 1 : t[i] = Unflagged(s[m])
      BY <2>2 DEF AddedFirst
    <3>2. m \in 1..n /\ m # k
      BY <1>1, <2>1
    <3>3. t[i].id = s[m].id
      BY <2>3, <3>1, <3>2, UnflaggedFacts
    <3> QED
      BY <2>1, <2>4, <3>2, <3>3 DEF Distinct
  <2>7. u \in Seq(R) /\ InClassOrder(u) /\ IsAdded(u, t, r)
    BY <2>2, <2>4, AddRuleFacts, RuleRecordsRanked DEF u
  <2>8. Distinct(u)
    BY <2>2, <2>6, <2>7 DEF IsAdded, AddedFirst
  <2>9. \A i \in 1..Len(u) : u[i] = r \/ \E m \in 1..Len(t) : u[i] = t[m]
    BY <2>7 DEF IsAdded
  <2>10. /\ \E i \in 1..Len(u) : u[i] = r
         /\ \A m \in 1..Len(t) : \E i \in 1..Len(u) : u[i] = t[m]
    BY <2>7 DEF IsAdded
  <2>11. \A m \in 1..k - 1 : m \in 1..k
    BY <2>1
  <2>12. \A m \in 1..k : m = k \/ m \in 1..k - 1
    BY <2>1
  <2>13. ASSUME NEW i \in 1..Len(u) PROVE \E m \in 1..k : u[i] = Unflagged(s[m])
    <3>1. CASE u[i] = r
      BY <2>1, <3>1 DEF r
    <3>2. CASE \E m \in 1..Len(t) : u[i] = t[m]
      <4>1. \E m \in 1..k - 1 : u[i] = Unflagged(s[m])
        BY <2>2, <3>2 DEF AddedFirst
      <4> QED
        BY <2>11, <4>1
    <3> QED
      BY <2>9, <3>1, <3>2
  <2>14. ASSUME NEW m \in 1..k PROVE \E i \in 1..Len(u) : u[i] = Unflagged(s[m])
    <3>1. CASE m = k
      BY <2>10, <3>1 DEF r
    <3>2. CASE m \in 1..k - 1
      <4>1. PICK j \in 1..Len(t) : t[j] = Unflagged(s[m])
        BY <2>2, <3>2 DEF AddedFirst
      <4> QED
        BY <2>10, <4>1
    <3> QED
      BY <2>12, <3>1, <3>2
  <2>15. AddedFirst(u, s, k)
    BY <2>7, <2>8, <2>13, <2>14 DEF AddedFirst
  <2> QED
    BY <2>1, <2>5, <2>7, <2>15 DEF S
<1> DEFINE Body(f) == [k \in 0..n |-> IF k = 0 THEN <<>>
                                      ELSE AddRule(f[k - 1], Unflagged(s[k]))]
           upTo == CHOOSE f : f = Body(f)
<1>4. \A i \in 1..n : i \in 0 + 1..n /\ i \in 0..n /\ i - 1 \in 0..n /\ i # 0
  BY <1>1
<1>5. \A i \in 0..n : \A t \in S[i] : t \in Seq(R)
  OBVIOUS
<1>6. upTo = Body(upTo)
  <2>1. Steps(0, n, S, <<>>, step)
    <3> HIDE DEF n, S, step
    <3> QED
      BY <1>1, <1>2, <1>3 DEF Steps
  <2>2. PICK f : /\ f = [i \in 0..n |-> f[i]]
                 /\ f[0] = <<>>
                 /\ \A i \in 0 + 1..n : f[i] = step[i][f[i - 1]]
                 /\ \A i \in 0..n : f[i] \in S[i]
    <3> HIDE DEF n, S, step
    <3> QED
      BY <2>1, Folded
  <2>3. \A i \in 1..n : f[i] = step[i][f[i - 1]] /\ f[i - 1] \in Seq(R)
    <3> HIDE DEF n, S, step
    <3> QED
      BY <1>4, <1>5, <2>2
  <2>4. \A i \in 1..n : f[i] = AddRule(f[i - 1], Unflagged(s[i]))
    <3> HIDE DEF n, S
    <3> QED
      BY <2>3
  <2>5. \A i \in 0..n : i = 0 \/ i \in 1..n
    BY <1>1
  <2> HIDE DEF n, S, step
  <2>6. f = Body(f)
    BY <1>4, <2>2, <2>4, <2>5
  <2> HIDE DEF Body
  <2> QED
    BY <2>6
<1>7. \A i \in 0..n : upTo[i] \in S[i]
  <2>1. upTo[0] = <<>> /\ \A i \in 1..n : upTo[i] = AddRule(upTo[i - 1], Unflagged(s[i]))
    <3>1. 0 \in 0..n
      BY <1>1
    <3> HIDE DEF n, S, step, upTo
    <3> QED
      BY <1>4, <1>6, <3>1
  <2>2. ASSUME NEW i \in 0 + 1..n, upTo[i - 1] \in S[i - 1] PROVE upTo[i] \in S[i]
    <3>1. step[i][upTo[i - 1]] \in S[i]
      BY <1>3, <2>2
    <3>2. upTo[i - 1] \in Seq(R) /\ i \in 1..n
      <4> HIDE DEF S, step, upTo
      <4> QED
        BY <1>1, <1>4, <1>5, <2>2
    <3>3. step[i][upTo[i - 1]] = upTo[i]
      <4> HIDE DEF S, n, upTo
      <4> QED
        BY <2>1, <3>2
    <3> HIDE DEF S, step, upTo
    <3> QED
      BY <3>1, <3>3
  <2> HIDE DEF S, n, step, upTo
  <2> QED
    BY <1>1, <1>2, <2>1, <2>2, HandedOn
<1>8. AddedAtBoot(s) = upTo[n]
  BY DEF AddedAtBoot, Unflagged
<1>9. upTo[n] \in S[n]
  <2> HIDE DEF S, n, upTo
  <2> QED
    BY <1>1, <1>7
<1>10. upTo[n] \in Seq(R) /\ AddedFirst(upTo[n], s, n)
  <2> HIDE DEF upTo
  <2> QED
    BY <1>1, <1>9
<1> HIDE DEF upTo
<1> QED
  BY <1>8, <1>10

-----------------------------------------------------------------------------
(* The steps of the handlers                                                   *)

IdsBelow(list, n) == \A i \in 1..Len(list) : list[i].id \in 1..n - 1

Stages == {"add", "update", "remove", "list", "load"}

\* A request in progress, when n is the next id.
InHand(r, n) ==
    /\ r = [at |-> r.at, arg |-> r.arg, alone |-> r.alone, before |-> r.before]
    /\ r.at \in Stages
    /\ r.alone \in BOOLEAN
    /\ IsTable(r.before)
    /\ r.at \in {"add", "update"} => r.arg \in RuleRecords
    /\ r.at = "add" => r.arg.id \in 1..n - 1
    /\ r.at = "load" => /\ r.arg \in Seq(RuleRecords)
                        /\ IdsBelow(r.arg, n)
                        /\ InClassOrder(r.arg)
                        /\ Distinct(r.arg)

Types ==
    /\ IsTable(db) /\ DOMAIN db \subseteq 1..nextId - 1
    /\ nextId \in 1..MaxRules + 1
    /\ rules \in Seq(RuleRecords) /\ IdsBelow(rules, nextId)
    /\ stale \in BOOLEAN
    /\ flagsLost \in BOOLEAN
    /\ handler = [h \in Handlers |-> handler[h]]
    /\ \A h \in Handlers : handler[h] = Idle \/ InHand(handler[h], nextId)

\* What the write of a request made of the table before it
Applied(at, arg, table, before) ==
    /\ at = "add" => /\ DOMAIN table = DOMAIN before \cup {arg.id}
                     /\ arg.id \notin DOMAIN before
                     /\ arg = RuleOf(arg.id, table[arg.id])
                     /\ \A id \in DOMAIN before : table[id] = before[id]
    /\ at = "update" => /\ DOMAIN table = DOMAIN before
                        /\ arg.id \in DOMAIN table => arg = RuleOf(arg.id, table[arg.id])
                        /\ \A id \in DOMAIN table \ {arg.id} : table[id] = before[id]
    /\ at = "remove" => /\ DOMAIN table = DOMAIN before \ {arg}
                        /\ \A id \in DOMAIN table : table[id] = before[id]

\* The kinds of steps: a request begins ...
Begins(h, at, arg, table) ==
    /\ Begin(h, at, arg, table)
    /\ IsTable(table) /\ DOMAIN table \subseteq 1..nextId' - 1
    /\ at \in {"add", "update", "remove", "list"}
    /\ at \in {"add", "update"} => arg \in RuleRecords
    /\ at = "add" => arg.id = nextId /\ nextId <= MaxRules /\ nextId' = nextId + 1
    /\ at # "add" => nextId' = nextId
    /\ Applied(at, arg, table, db)

LEMMA CreateBegins ==
    ASSUME Types, NEW h \in Handlers, BeginCreate(h)
    PROVE  \E at, arg, table : Begins(h, at, arg, table)
<1>1. PICK body \in RuleBodies :
          Begin(h, "add", RuleOf(nextId, body),
                [id \in DOMAIN db \cup {nextId} |->
                    IF id = nextId THEN body ELSE db[id]])
  BY DEF BeginCreate
<1> DEFINE table == [id \in DOMAIN db \cup {nextId} |->
                        IF id = nextId THEN body ELSE db[id]]
           arg == RuleOf(nextId, body)
<1>2. nextId <= MaxRules /\ nextId' = nextId + 1 /\ nextId \in Nat /\ nextId >= 1
      /\ MaxRules \in Nat
  BY RulesAssumption DEF BeginCreate, Types
<1>3. body \in RowBodies
  BY RulesAssumption
<1>4. arg \in RuleRecords /\ arg.id = nextId
  BY <1>2, <1>3, RuleOfFacts
<1>5. nextId \notin DOMAIN db
  BY <1>2 DEF Types
<1>6. /\ DOMAIN table = DOMAIN db \cup {nextId}
      /\ table = [id \in DOMAIN table |-> table[id]]
      /\ table[nextId] = body
      /\ \A id \in DOMAIN db : table[id] = db[id]
  BY <1>5
<1> HIDE DEF table
<1>7. DOMAIN table \subseteq 1..nextId' - 1
  BY <1>2, <1>6 DEF Types
<1>8. IsTable(table)
  <2>1. DOMAIN table \subseteq 1..MaxRules
    BY <1>2, <1>7
  <2>2. \A id \in DOMAIN db : db[id] \in RowBodies
    BY DEF Types, IsTable
  <2>3. \A id \in DOMAIN table : table[id] \in RowBodies
    BY <1>3, <1>6, <2>2
  <2> QED
    BY <1>6, <2>1, <2>3 DEF IsTable
<1>9. Applied("add", arg, table, db)
  BY <1>4, <1>5, <1>6 DEF Applied
<1>10. Begins(h, "add", arg, table)
  BY <1>1, <1>2, <1>4, <1>7, <1>8, <1>9 DEF Begins, table
<1> QED
  BY <1>10

LEMMA UpdateBegins ==
    ASSUME Types, NEW h \in Handlers, BeginUpdate(h)
    PROVE  \E at, arg, table : Begins(h, at, arg, table)
<1>1. PICK id \in 1..MaxRules, body \in RuleBodies :
          Begin(h, "update", RuleOf(id, body),
                IF id \in DOMAIN db THEN [db EXCEPT ![id] = body] ELSE db)
  BY DEF BeginUpdate
<1> DEFINE table == IF id \in DOMAIN db THEN [db EXCEPT ![id] = body] ELSE db
           arg == RuleOf(id, body)
<1>2. nextId' = nextId /\ id \in Nat
  BY RulesAssumption DEF BeginUpdate
<1>3. body \in RowBodies
  BY RulesAssumption
<1>4. arg \in RuleRecords /\ arg.id = id
  BY <1>2, <1>3, RuleOfFacts
<1>5. /\ db = [i \in DOMAIN db |-> db[i]] /\ \A i \in DOMAIN db : db[i] \in RowBodies
      /\ DOMAIN db \subseteq 1..MaxRules /\ DOMAIN db \subseteq 1..nextId - 1
  BY DEF Types, IsTable
<1>6. /\ DOMAIN table = DOMAIN db
      /\ table = [i \in DOMAIN table |-> table[i]]
      /\ id \in DOMAIN db => table[id] = body
      /\ \A i \in DOMAIN db \ {id} : table[i] = db[i]
  <2>1. CASE id \in DOMAIN db
    <3>1. table = [db EXCEPT ![id] = body]
      BY <2>1
    <3> HIDE DEF table
    <3> QED
      BY <1>5, <2>1, <3>1
  <2>2. CASE id \notin DOMAIN db
    <3>1. table = db
      BY <2>2
    <3> HIDE DEF table
    <3> QED
      BY <1>5, <2>2, <3>1
  <2> QED
    BY <2>1, <2>2
<1> HIDE DEF table
<1>7. IsTable(table)
  <2>1. \A i \in DOMAIN table : table[i] \in RowBodies
    BY <1>3, <1>5, <1>6
  <2> QED
    BY <1>5, <1>6, <2>1 DEF IsTable
<1>8. Applied("update", arg, table, db)
  BY <1>4, <1>6 DEF Applied
<1>9. Begins(h, "update", arg, table)
  BY <1>1, <1>2, <1>4, <1>5, <1>6, <1>7, <1>8 DEF Begins, table
<1> QED
  BY <1>9

LEMMA DeleteBegins ==
    ASSUME Types, NEW h \in Handlers, BeginDelete(h)
    PROVE  \E at, arg, table : Begins(h, at, arg, table)
<1>1. PICK id \in 1..MaxRules : Begin(h, "remove", id, [i \in DOMAIN db \ {id} |-> db[i]])
  BY DEF BeginDelete
<1> DEFINE table == [i \in DOMAIN db \ {id} |-> db[i]]
<1>2. nextId' = nextId
  BY DEF BeginDelete
<1>3. /\ \A i \in DOMAIN db : db[i] \in RowBodies
      /\ DOMAIN db \subseteq 1..MaxRules /\ DOMAIN db \subseteq 1..nextId - 1
  BY DEF Types, IsTable
<1>4. /\ DOMAIN table = DOMAIN db \ {id}
      /\ table = [i \in DOMAIN table |-> table[i]]
      /\ \A i \in DOMAIN table : table[i] = db[i]
  OBVIOUS
<1> HIDE DEF table
<1>5. IsTable(table)
  <2>1. \A i \in DOMAIN table : table[i] \in RowBodies
    BY <1>3, <1>4
  <2> QED
    BY <1>3, <1>4, <2>1 DEF IsTable
<1>6. Applied("remove", id, table, db)
  BY <1>4 DEF Applied
<1>7. Begins(h, "remove", id, table)
  BY <1>1, <1>2, <1>3, <1>4, <1>5, <1>6 DEF Begins, table
<1> QED
  BY <1>7

LEMMA ToggleBegins ==
    ASSUME Types, NEW h \in Handlers, BeginToggle(h)
    PROVE  \E at, arg, table : Begins(h, at, arg, table)
<1>1. PICK id \in DOMAIN db : Begin(h, "list", None, [db EXCEPT ![id].enabled = ~@])
  BY DEF BeginToggle
<1> DEFINE row == [db[id] EXCEPT !.enabled = ~@]
           table == [db EXCEPT ![id].enabled = ~@]
<1>2. nextId' = nextId
  BY DEF BeginToggle
<1>3. /\ db = [i \in DOMAIN db |-> db[i]] /\ \A i \in DOMAIN db : db[i] \in RowBodies
      /\ DOMAIN db \subseteq 1..MaxRules /\ DOMAIN db \subseteq 1..nextId - 1
  BY DEF Types, IsTable
<1>4. row \in RowBodies
  BY <1>3 DEF RowBodies
<1>5. table = [db EXCEPT ![id] = row]
  OBVIOUS
<1> HIDE DEF row, table
<1>6. /\ DOMAIN table = DOMAIN db
      /\ table = [i \in DOMAIN table |-> table[i]]
      /\ \A i \in DOMAIN table : table[i] \in RowBodies
  BY <1>3, <1>4, <1>5
<1>7. IsTable(table)
  BY <1>3, <1>6 DEF IsTable
<1>8. Applied("list", None, table, db)
  BY DEF Applied
<1>9. Begins(h, "list", None, table)
  BY <1>1, <1>2, <1>3, <1>6, <1>7, <1>8 DEF Begins, table
<1> QED
  BY <1>9

LEMMA ReorderBegins ==
    ASSUME Types, NEW h \in Handlers, BeginReorder(h)
    PROVE  \E at, arg, table : Begins(h, at, arg, table)
<1> DEFINE Reordered(ids, id) ==
               IF \E i \in DOMAIN ids : ids[i] = id
               THEN [db[id] EXCEPT !.priority = CHOOSE i \in DOMAIN ids : ids[i] = id]
               ELSE db[id]
<1>0. PICK ids \in UNION {SetToSeqs(S) : S \in SUBSET DOMAIN db} :
          Begin(h, "list", None, [id \in DOMAIN db |-> Reordered(ids, id)])
  BY DEF BeginReorder
<1>1. PICK S \in SUBSET DOMAIN db : ids \in SetToSeqs(S)
  OBVIOUS
<1> DEFINE table == [id \in DOMAIN db |-> Reordered(ids, id)]
<1>2. nextId' = nextId
  BY DEF BeginReorder
<1>3. /\ \A i \in DOMAIN db : db[i] \in RowBodies
      /\ DOMAIN db \subseteq 1..MaxRules /\ DOMAIN db \subseteq 1..nextId - 1
  BY DEF Types, IsTable
<1>4. DOMAIN ids \subseteq Int
  <2>1. IsFiniteSet(S)
    BY <1>1, TableFacts, FS_Subset DEF Types
  <2>2. Cardinality(S) \in Nat
    BY <2>1, FS_CardinalityType
  <2>3. DOMAIN ids = 1..Cardinality(S)
    BY <1>1 DEF SetToSeqs
  <2> QED
    BY <2>2, <2>3
<1>5. ASSUME NEW id \in DOMAIN db PROVE Reordered(ids, id) \in RowBodies
  <2>1. CASE \E i \in DOMAIN ids : ids[i] = id
    <3>1. (CHOOSE i \in DOMAIN ids : ids[i] = id) \in Int
      BY <1>4, <2>1
    <3> QED
      BY <1>3, <2>1, <3>1 DEF RowBodies
  <2>2. CASE ~ \E i \in DOMAIN ids : ids[i] = id
    BY <1>3, <2>2
  <2> QED
    BY <2>1, <2>2
<1> HIDE DEF Reordered
<1>6. /\ DOMAIN table = DOMAIN db
      /\ table = [i \in DOMAIN table |-> table[i]]
      /\ \A i \in DOMAIN table : table[i] \in RowBodies
  BY <1>5
<1>7. Begin(h, "list", None, table)
  BY <1>0
<1> HIDE DEF table
<1>8. IsTable(table)
  BY <1>3, <1>6 DEF IsTable
<1>9. Applied("list", None, table, db)
  BY DEF Applied
<1>10. Begins(h, "list", None, table)
  BY <1>2, <1>3, <1>6, <1>7, <1>8, <1>9 DEF Begins
<1> QED
  BY <1>10

LEMMA BeginFacts ==
    ASSUME Types, NEW h \in Handlers, NEW at, NEW arg, NEW table,
           Begin(h, at, arg, table)
    PROVE  /\ handler[h] = Idle
           /\ db' = table /\ rules' = rules /\ flagsLost' = flagsLost
           /\ stale' = (stale \/ Others(h) # {})
           /\ stale' \in BOOLEAN
           /\ handler' = [g \in Handlers |-> handler'[g]]
           /\ handler'[h] = [at |-> at, arg |-> arg, alone |-> Others(h) = {},
                             before |-> IF stale' THEN Nothing ELSE db]
           /\ \A g \in Handlers \ {h} : handler[g] = Idle => handler'[g] = Idle
           /\ \A g \in Handlers \ {h} : handler[g] # Idle =>
                  handler'[g] = [at |-> handler[g].at, arg |-> handler[g].arg,
                                 alone |-> FALSE, before |-> Nothing]
<1>1. /\ handler[h] = Idle
      /\ db' = table /\ rules' = rules /\ flagsLost' = flagsLost
      /\ stale' = (stale \/ Others(h) # {})
  BY DEF Begin
<1>2. stale' \in BOOLEAN
  BY <1>1
<1>3. handler' = [g \in Handlers |->
                     IF g = h
                     THEN [at |-> at, arg |-> arg, alone |-> Others(h) = {},
                           before |-> IF stale' THEN Nothing ELSE db]
                     ELSE IF g \in Others(h)
                     THEN [at |-> handler[g].at, arg |-> handler[g].arg,
                           alone |-> FALSE, before |-> Nothing]
                     ELSE Idle]
  BY DEF Begin
<1>4. handler' = [g \in Handlers |-> handler'[g]]
  BY <1>3
<1>5. handler'[h] = [at |-> at, arg |-> arg, alone |-> Others(h) = {},
                     before |-> IF stale' THEN Nothing ELSE db]
  BY <1>3
<1>6. \A g \in Handlers \ {h} : handler[g] = Idle => handler'[g] = Idle
  BY <1>3 DEF Others
<1>7. ASSUME NEW g \in Handlers \ {h}, handler[g] # Idle
      PROVE  handler'[g] = [at |-> handler[g].at, arg |-> handler[g].arg,
                            alone |-> FALSE, before |-> Nothing]
  BY <1>3, <1>7 DEF Others
<1> QED
  BY <1>1, <1>2, <1>4, <1>5, <1>6, <1>7

\* ... or ends with its call of the engine ...
LEMMA FinishFacts ==
    ASSUME Types, NEW h \in Handlers, NEW list, NEW s, NEW l, Finish(h, list, s, l)
    PROVE  /\ rules' = list /\ stale' = s /\ flagsLost' = l
           /\ db' = db /\ nextId' = nextId
           /\ handler' = [g \in Handlers |-> handler'[g]]
           /\ handler'[h] = Idle
           /\ \A g \in Handlers \ {h} : handler'[g] = handler[g]
<1>1. handler' = [handler EXCEPT ![h] = Idle]
  BY DEF Finish
<1>2. handler = [g \in Handlers |-> handler[g]]
  BY DEF Types
<1>3. /\ handler' = [g \in Handlers |-> handler'[g]]
      /\ handler'[h] = Idle
      /\ \A g \in Handlers \ {h} : handler'[g] = handler[g]
  BY <1>1, <1>2
<1> QED
  BY <1>3 DEF Finish

\* ... or reads the table.
LEMMA ListFacts ==
    ASSUME Types, NEW h \in Handlers, ReloadList(h)
    PROVE  /\ handler[h].at = "list" /\ handler[h] # Idle
           /\ handler' = [g \in Handlers |-> handler'[g]]
           /\ handler'[h] = [at |-> "load", arg |-> ListRouteRules(db),
                             alone |-> handler[h].alone, before |-> handler[h].before]
           /\ \A g \in Handlers \ {h} : handler'[g] = handler[g]
<1>1. handler' = [handler EXCEPT ![h] =
                     [at |-> "load", arg |-> ListRouteRules(db),
                      alone |-> handler[h].alone, before |-> handler[h].before]]
  BY DEF ReloadList
<1>2. handler = [g \in Handlers |-> handler[g]]
  BY DEF Types
<1>3. handler[h].at = "list" /\ handler[h] # Idle
  BY DEF ReloadList, Idle
<1> QED
  BY <1>1, <1>2, <1>3

LEMMA AtIsBusy ==
    ASSUME Types, NEW h \in Handlers
    PROVE  /\ handler[h].at \in Stages => handler[h] # Idle /\ InHand(handler[h], nextId)
           /\ handler[h] # Idle => InHand(handler[h], nextId) /\ handler[h].at \in Stages
BY DEF Types, InHand, Stages, Idle

LEMMA NothingIsTable == IsTable(Nothing)
<1>1. DOMAIN Nothing = {} /\ Nothing = [id \in DOMAIN Nothing |-> Nothing[id]]
  BY DEF Nothing
<1> HIDE DEF Nothing
<1> QED
  BY <1>1 DEF IsTable

\* What is in hand stays so when ids are given.
LEMMA StillInHand ==
    ASSUME NEW r, NEW n \in Nat, NEW m \in Nat, n <= m, InHand(r, n)
    PROVE  InHand(r, m)
<1>1. \A i \in 1..n - 1 : i \in 1..m - 1
  OBVIOUS
<1> QED
  BY <1>1 DEF InHand, IdsBelow

-----------------------------------------------------------------------------
(* Types                                                                       *)

LEMMA IdsStayBelow ==
    ASSUME NEW s, NEW t, NEW r, NEW n, IdsBelow(s, n)
    PROVE  /\ IsAdded(t, s, r) /\ r.id \in 1..n - 1 => IdsBelow(t, n)
           /\ IsUpdated(t, s, r) => IdsBelow(t, n)
           /\ IsRemoved(t, s, r) => IdsBelow(t, n)
<1>1. ASSUME IsAdded(t, s, r), r.id \in 1..n - 1, NEW i \in 1..Len(t)
      PROVE  t[i].id \in 1..n - 1
  BY <1>1 DEF IsAdded, IdsBelow
<1>2. ASSUME IsUpdated(t, s, r), NEW i \in 1..Len(t) PROVE t[i].id \in 1..n - 1
  BY <1>2 DEF IsUpdated, IdsBelow
<1>3. ASSUME IsRemoved(t, s, r), NEW i \in 1..Len(t) PROVE t[i].id \in 1..n - 1
  BY <1>3 DEF IsRemoved, IdsBelow
<1> QED
  BY <1>1, <1>2, <1>3 DEF IdsBelow

\* The list boot makes holds the rules of the table, without their flags.
LEMMA BootFacts ==
    ASSUME NEW table, IsTable(table)
    PROVE  LET l == AddedAtBoot(ListRouteRules(table))
           IN  /\ l \in Seq(RuleRecords)
               /\ InClassOrder(l)
               /\ Covers(l, table)
               /\ \A i \in 1..Len(l) : l[i] = Unflagged(RuleOf(l[i].id, table[l[i].id]))
<1> DEFINE s == ListRouteRules(table)
           l == AddedAtBoot(s)
<1>1. s \in Seq(RuleRecords) /\ IsListing(s, table)
  BY ListingFacts
<1> HIDE DEF s
<1>2. l \in Seq(RuleRecords) /\ AddedFirst(l, s, Len(s))
  BY <1>1, AddedAtBootFacts DEF IsListing, Covers
<1> HIDE DEF l
<1>3. \A m \in 1..Len(s) : /\ s[m].id \in DOMAIN table
                           /\ s[m] = RuleOf(s[m].id, table[s[m].id])
                           /\ s[m] \in RuleRecords
                           /\ Unflagged(s[m]).id = s[m].id
  BY <1>1, UnflaggedFacts DEF IsListing, Covers
<1>4. ASSUME NEW i \in 1..Len(l)
      PROVE  /\ l[i].id \in DOMAIN table
             /\ l[i] = Unflagged(RuleOf(l[i].id, table[l[i].id]))
  <2>1. PICK m \in 1..Len(s) : l[i] = Unflagged(s[m])
    BY <1>2 DEF AddedFirst
  <2>2. l[i].id = s[m].id
    BY <1>3, <2>1
  <2>3. s[m] = RuleOf(l[i].id, table[l[i].id]) /\ s[m].id \in DOMAIN table
    BY <1>3, <2>2
  <2> QED
    BY <2>1, <2>2, <2>3
<1>5. ASSUME NEW id \in DOMAIN table PROVE \E i \in 1..Len(l) : l[i].id = id
  <2>1. PICK m \in 1..Len(s) : s[m].id = id
    BY <1>1 DEF IsListing, Covers
  <2>2. PICK i \in 1..Len(l) : l[i] = Unflagged(s[m])
    BY <1>2 DEF AddedFirst
  <2> QED
    BY <1>3, <2>1, <2>2
<1>6. Covers(l, table) /\ InClassOrder(l)
  BY <1>2, <1>4, <1>5 DEF AddedFirst, Covers
<1> QED
  BY <1>2, <1>4, <1>6 DEF l, s

LEMMA MoreIds ==
    ASSUME NEW list, NEW n \in Nat, NEW m \in Nat, n <= m, IdsBelow(list, n)
    PROVE  IdsBelow(list, m)
<1>1. \A i \in 1..n - 1 : i \in 1..m - 1
  OBVIOUS
<1> QED
  BY <1>1 DEF IdsBelow

LEMMA TypesInit == Init => Types
<1> SUFFICES ASSUME Init PROVE Types
  OBVIOUS
<1>1. DOMAIN db = {} /\ IsTable(db)
  BY NothingIsTable DEF Init, Nothing
<1>2. nextId \in 1..MaxRules + 1
  BY RulesAssumption DEF Init
<1>3. rules \in Seq(RuleRecords) /\ IdsBelow(rules, nextId)
  <2>1. rules = <<>> /\ Len(<<>>) = 0 /\ <<>> \in Seq(RuleRecords) /\ 1..0 = {}
    BY DEF Init
  <2> QED
    BY <2>1 DEF IdsBelow
<1>4. handler = [h \in Handlers |-> handler[h]] /\ \A h \in Handlers : handler[h] = Idle
  BY DEF Init
<1> QED
  BY <1>1, <1>2, <1>3, <1>4 DEF Types, Init

LEMMA TypesBegin ==
    ASSUME Types, NEW h \in Handlers, NEW at, NEW arg, NEW table,
           Begins(h, at, arg, table)
    PROVE  Types'
<1>1. /\ Begin(h, at, arg, table)
      /\ IsTable(table) /\ DOMAIN table \subseteq 1..nextId' - 1
      /\ at \in {"add", "update", "remove", "list"}
      /\ at \in {"add", "update"} => arg \in RuleRecords
      /\ at = "add" => arg.id = nextId /\ nextId <= MaxRules /\ nextId' = nextId + 1
      /\ at # "add" => nextId' = nextId
  BY DEF Begins
<1>2. nextId \in 1..MaxRules + 1 /\ MaxRules \in Nat /\ IsTable(db)
  BY RulesAssumption DEF Types
<1>3. nextId' \in 1..MaxRules + 1 /\ nextId' \in Nat /\ nextId \in Nat /\ nextId <= nextId'
  BY <1>1, <1>2
<1>4. /\ db' = table /\ rules' = rules /\ flagsLost' = flagsLost
      /\ handler' = [g \in Handlers |-> handler'[g]]
  <2>1. db' = table /\ rules' = rules /\ flagsLost' = flagsLost
    BY <1>1 DEF Begin
  <2>2. handler' = [g \in Handlers |-> handler'[g]]
    BY <1>1, BeginFacts
  <2> QED
    BY <2>1, <2>2
<1>9. stale' \in BOOLEAN
  BY <1>1, BeginFacts, Zenon
<1>5. IdsBelow(rules, nextId')
  BY <1>3, MoreIds DEF Types
<1>6. InHand(handler'[h], nextId')
  <2> DEFINE r == [at |-> at, arg |-> arg, alone |-> Others(h) = {},
                   before |-> IF stale' THEN Nothing ELSE db]
  <2>1. handler'[h] = r
    BY <1>1, BeginFacts
  <2>2. /\ r = [at |-> r.at, arg |-> r.arg, alone |-> r.alone, before |-> r.before]
        /\ r.at = at /\ r.arg = arg /\ r.before = (IF stale' THEN Nothing ELSE db)
    OBVIOUS
  <2>3. r.alone \in BOOLEAN
    <3>1. r.alone = (Others(h) = {})
      OBVIOUS
    <3> QED
      BY <3>1, Zenon
  <2>4. IsTable(r.before)
    BY <1>2, <1>9, <2>2, NothingIsTable
  <2>5. at = "add" => arg.id \in 1..nextId' - 1
    BY <1>1, <1>2
  <2> HIDE DEF r
  <2>6. InHand(r, nextId')
    BY <1>1, <2>2, <2>3, <2>4, <2>5 DEF InHand, Stages
  <2> QED
    BY <2>1, <2>6
<1>7. ASSUME NEW g \in Handlers \ {h}
      PROVE  handler'[g] = Idle \/ InHand(handler'[g], nextId')
  <2>1. CASE handler[g] = Idle
    BY <1>1, <2>1, BeginFacts
  <2>2. CASE handler[g] # Idle
    <3> DEFINE r == [at |-> handler[g].at, arg |-> handler[g].arg,
                     alone |-> FALSE, before |-> Nothing]
    <3>1. handler'[g] = r
      BY <1>1, <2>2, BeginFacts
    <3>2. /\ r = [at |-> r.at, arg |-> r.arg, alone |-> r.alone, before |-> r.before]
          /\ r.at = handler[g].at /\ r.arg = handler[g].arg
          /\ r.alone = FALSE /\ r.before = Nothing
      OBVIOUS
    <3>3. InHand(handler[g], nextId)
      BY <2>2 DEF Types
    <3> HIDE DEF r
    <3>4. InHand(r, nextId)
      BY <3>2, <3>3, NothingIsTable DEF InHand
    <3> QED
      BY <1>3, <3>1, <3>4, StillInHand
  <2> QED
    BY <2>1, <2>2
<1>8. rules \in Seq(RuleRecords) /\ flagsLost \in BOOLEAN
  BY DEF Types
<1> QED
  BY <1>1, <1>3, <1>4, <1>5, <1>6, <1>7, <1>8, <1>9 DEF Types

\* A step that leaves the table and the ids alone
LEMMA TypesKept ==
    ASSUME Types, db' = db, nextId' = nextId,
           rules' \in Seq(RuleRecords), IdsBelow(rules', nextId),
           stale' \in BOOLEAN, flagsLost' \in BOOLEAN,
           handler' = [g \in Handlers |-> handler'[g]],
           \A g \in Handlers : \/ handler'[g] = Idle
                               \/ handler'[g] = handler[g]
                               \/ InHand(handler'[g], nextId)
    PROVE  Types'
<1>1. ASSUME NEW g \in Handlers PROVE handler'[g] = Idle \/ InHand(handler'[g], nextId)
  BY DEF Types
<1> QED
  BY <1>1 DEF Types

LEMMA TypesFinish ==
    ASSUME Types, NEW h \in Handlers, NEW list, NEW s \in BOOLEAN, NEW l \in BOOLEAN,
           Finish(h, list, s, l), list \in Seq(RuleRecords), IdsBelow(list, nextId)
    PROVE  Types'
<1>1. /\ rules' = list /\ stale' = s /\ flagsLost' = l
      /\ db' = db /\ nextId' = nextId
      /\ handler' = [g \in Handlers |-> handler'[g]]
      /\ handler'[h] = Idle
      /\ \A g \in Handlers \ {h} : handler'[g] = handler[g]
  BY FinishFacts
<1>2. \A g \in Handlers : handler'[g] = Idle \/ handler'[g] = handler[g]
  BY <1>1
<1> QED
  BY <1>1, <1>2, TypesKept

LEMMA Kinds ==
    ASSUME Types, Next
    PROVE  \/ \E h \in Handlers : \E at, arg, table : Begins(h, at, arg, table)
           \/ \E h \in Handlers : \/ FinishCreate(h) \/ FinishUpdate(h) \/ FinishDelete(h)
                                  \/ ReloadList(h) \/ ReloadFails(h) \/ LoadRules(h)
           \/ \E read \in BOOLEAN : Restart(read)
<1>1. CASE \E h \in Handlers : \/ BeginCreate(h) \/ BeginUpdate(h) \/ BeginDelete(h)
                               \/ BeginToggle(h) \/ BeginReorder(h)
  <2>1. PICK h \in Handlers : \/ BeginCreate(h) \/ BeginUpdate(h) \/ BeginDelete(h)
                              \/ BeginToggle(h) \/ BeginReorder(h)
    BY <1>1
  <2>2. \E at, arg, table : Begins(h, at, arg, table)
    BY <2>1, CreateBegins, UpdateBegins, DeleteBegins, ToggleBegins, ReorderBegins
  <2> QED
    BY <2>2
<1> QED
  BY <1>1 DEF Next

LEMMA TypesNext == Types /\ [Next]_vars => Types'
<1> SUFFICES ASSUME Types, [Next]_vars PROVE Types'
  OBVIOUS
<1>1. ASSUME UNCHANGED vars PROVE Types'
  BY <1>1 DEF Types, vars
<1>2. ASSUME NEW h \in Handlers, NEW at, NEW arg, NEW table, Begins(h, at, arg, table)
      PROVE  Types'
  BY <1>2, TypesBegin
<1>3. /\ rules \in Seq(RuleRecords) /\ IdsBelow(rules, nextId) /\ Ranked(RuleRecords)
      /\ stale \in BOOLEAN /\ flagsLost \in BOOLEAN
      /\ IsTable(db) /\ DOMAIN db \subseteq 1..nextId - 1
  BY RuleRecordsRanked DEF Types
<1>4. ASSUME NEW h \in Handlers, FinishCreate(h) PROVE Types'
  <2> DEFINE r == handler[h].arg
             list == AddRule(rules, r)
  <2>1. handler[h].at = "add" /\ Finish(h, list, stale, flagsLost)
    BY <1>4 DEF FinishCreate
  <2>2. r \in RuleRecords /\ r.id \in 1..nextId - 1
    BY <2>1, AtIsBusy DEF Stages, InHand
  <2> HIDE DEF r
  <2>3. list \in Seq(RuleRecords) /\ IsAdded(list, rules, r)
    BY <1>3, <2>2, AddRuleFacts
  <2> HIDE DEF list
  <2>4. IdsBelow(list, nextId)
    BY <1>3, <2>2, <2>3, IdsStayBelow
  <2> QED
    BY <1>3, <2>1, <2>3, <2>4, TypesFinish
<1>5. ASSUME NEW h \in Handlers, FinishUpdate(h) PROVE Types'
  <2> DEFINE r == handler[h].arg
             list == UpdateRule(rules, r)
  <2>1. handler[h].at = "update" /\ Finish(h, list, stale, flagsLost)
    BY <1>5 DEF FinishUpdate
  <2>2. r \in RuleRecords
    BY <2>1, AtIsBusy DEF Stages, InHand
  <2> HIDE DEF r
  <2>3. list \in Seq(RuleRecords) /\ IsUpdated(list, rules, r)
    BY <1>3, <2>2, UpdateRuleFacts
  <2> HIDE DEF list
  <2>4. IdsBelow(list, nextId)
    BY <1>3, <2>3, IdsStayBelow
  <2> QED
    BY <1>3, <2>1, <2>3, <2>4, TypesFinish
<1>6. ASSUME NEW h \in Handlers, FinishDelete(h) PROVE Types'
  <2> DEFINE id == handler[h].arg
             list == RemoveRule(rules, id)
  <2>1. Finish(h, list, stale, flagsLost)
    BY <1>6 DEF FinishDelete
  <2> HIDE DEF id
  <2>2. list \in Seq(RuleRecords) /\ IsRemoved(list, rules, id)
    BY <1>3, RemoveRuleFacts
  <2> HIDE DEF list
  <2>3. IdsBelow(list, nextId)
    BY <1>3, <2>2, IdsStayBelow
  <2> QED
    BY <1>3, <2>1, <2>2, <2>3, TypesFinish
<1>7. ASSUME NEW h \in Handlers, ReloadList(h) PROVE Types'
  <2> DEFINE list == ListRouteRules(db)
             r == [at |-> "load", arg |-> list,
                   alone |-> handler[h].alone, before |-> handler[h].before]
  <2>1. /\ handler' = [g \in Handlers |-> handler'[g]]
        /\ handler'[h] = r
        /\ \A g \in Handlers \ {h} : handler'[g] = handler[g]
    BY <1>7, ListFacts
  <2>2. InHand(handler[h], nextId)
    BY <1>7, ListFacts, AtIsBusy
  <2>3. list \in Seq(RuleRecords) /\ IsListing(list, db)
    BY <1>3, ListingFacts
  <2> HIDE DEF list
  <2>4. IdsBelow(list, nextId) /\ InClassOrder(list) /\ Distinct(list)
    BY <1>3, <2>3 DEF IsListing, Covers, IdsBelow
  <2>5. /\ r = [at |-> r.at, arg |-> r.arg, alone |-> r.alone, before |-> r.before]
        /\ r.at = "load" /\ r.arg = list
        /\ r.alone = handler[h].alone /\ r.before = handler[h].before
    OBVIOUS
  <2> HIDE DEF r
  <2>6. InHand(r, nextId)
    BY <2>2, <2>3, <2>4, <2>5 DEF InHand, Stages
  <2>7. UNCHANGED <<db, nextId, rules, stale, flagsLost>>
    BY <1>7 DEF ReloadList
  <2>8. \A g \in Handlers : handler'[g] = handler[g] \/ InHand(handler'[g], nextId)
    BY <2>1, <2>6
  <2> QED
    BY <1>3, <2>1, <2>7, <2>8, TypesKept
<1>8. ASSUME NEW h \in Handlers, ReloadFails(h) PROVE Types'
  <2>1. Finish(h, rules, TRUE, flagsLost)
    BY <1>8 DEF ReloadFails
  <2> QED
    BY <1>3, <2>1, TypesFinish
<1>9. ASSUME NEW h \in Handlers, LoadRules(h) PROVE Types'
  <2> DEFINE s == stale /\ ~handler[h].alone
             list == handler[h].arg
  <2>1. handler[h].at = "load" /\ Finish(h, list, s, FALSE)
    BY <1>9 DEF LoadRules
  <2>2. list \in Seq(RuleRecords) /\ IdsBelow(list, nextId)
    BY <2>1, AtIsBusy DEF Stages, InHand
  <2>3. s \in BOOLEAN
    OBVIOUS
  <2> HIDE DEF s, list
  <2> QED
    BY <2>1, <2>2, <2>3, TypesFinish
<1>10. ASSUME NEW read \in BOOLEAN, Restart(read) PROVE Types'
  <2> DEFINE all == AddedAtBoot(ListRouteRules(db))
             list == IF read THEN all ELSE <<>>
  <2>1. all \in Seq(RuleRecords) /\ Covers(all, db)
    BY <1>3, BootFacts
  <2>2. /\ rules' = list /\ db' = db /\ nextId' = nextId
        /\ handler' = [h \in Handlers |-> Idle]
    BY <1>10 DEF Restart
  <2> HIDE DEF all
  <2>3. list \in Seq(RuleRecords) /\ IdsBelow(list, nextId)
    <3>1. CASE read
      BY <1>3, <2>1, <3>1 DEF Covers, IdsBelow
    <3>2. CASE ~read
      BY <3>2 DEF IdsBelow
    <3> QED
      BY <3>1, <3>2
  <2> HIDE DEF list
  <2>4. flagsLost' \in BOOLEAN /\ stale' \in BOOLEAN
    <3>1. /\ flagsLost' = (read /\ \E id \in DOMAIN db : db[id].isPriority)
          /\ stale' = ~read
      BY <1>10 DEF Restart
    <3> QED
      BY <3>1, Zenon
  <2>5. /\ handler' = [g \in Handlers |-> handler'[g]]
        /\ \A g \in Handlers : handler'[g] = Idle
    BY <2>2
  <2> QED
    BY <2>1, <2>2, <2>3, <2>4, <2>5, TypesKept
<1>11. CASE Next
  BY <1>2, <1>4, <1>5, <1>6, <1>7, <1>8, <1>9, <1>10, <1>11, Kinds
<1> QED
  BY <1>1, <1>11

LEMMA TypesHold == Spec => []Types
BY TypesInit, TypesNext, PTL DEF Spec

-----------------------------------------------------------------------------
(* The order of the list, and how often a rule is in it                        *)

\* A rule whose creator has not yet added it is there at most once (a reload may
\* have listed it), so after the creator's call it is there at most twice.
ListInv ==
    /\ InClassOrder(rules)
    /\ TwiceAtMost(rules)
    /\ \A h \in Handlers :
           handler[h].at = "add" => OnceAtMost(rules, handler[h].arg.id)
    /\ \A g, h \in Handlers :
           (handler[g].at = "add" /\ handler[h].at = "add"
               /\ handler[g].arg.id = handler[h].arg.id) => g = h

LEMMA ListInit == Init => ListInv
<1> SUFFICES ASSUME Init PROVE ListInv
  OBVIOUS
<1>1. rules = <<>> /\ Len(<<>>) = 0 /\ 1..0 = {}
  BY DEF Init
<1>2. \A h \in Handlers : handler[h].at # "add"
  BY DEF Init, Idle
<1> QED
  BY <1>1, <1>2 DEF ListInv, InClassOrder, TwiceAtMost

LEMMA DistinctList ==
    ASSUME NEW list, Distinct(list)
    PROVE  TwiceAtMost(list) /\ \A id : OnceAtMost(list, id)
BY DEF Distinct, TwiceAtMost, OnceAtMost

\* A step that begins no creation
LEMMA ListKept ==
    ASSUME ListInv, InClassOrder(rules'), TwiceAtMost(rules'),
           \A g \in Handlers : handler'[g].at = "add" =>
               /\ handler[g].at = "add" /\ handler'[g].arg = handler[g].arg
               /\ OnceAtMost(rules', handler[g].arg.id)
    PROVE  ListInv'
<1>1. ASSUME NEW g \in Handlers, NEW h \in Handlers,
             handler'[g].at = "add", handler'[h].at = "add",
             handler'[g].arg.id = handler'[h].arg.id
      PROVE  g = h
  BY <1>1 DEF ListInv
<1>2. \A h \in Handlers :
          handler'[h].at = "add" => OnceAtMost(rules', handler'[h].arg.id)
  OBVIOUS
<1> QED
  BY <1>1, <1>2 DEF ListInv

\* The handlers of which a step with Finish leaves something
LEMMA FinishLeaves ==
    ASSUME Types, NEW h \in Handlers, NEW list, NEW s, NEW l, Finish(h, list, s, l)
    PROVE  \A g \in Handlers : handler'[g].at = "add" =>
               g # h /\ handler[g].at = "add" /\ handler'[g].arg = handler[g].arg
<1>1. handler'[h] = Idle /\ \A g \in Handlers \ {h} : handler'[g] = handler[g]
  BY FinishFacts
<1>2. handler'[h].at # "add"
  BY <1>1 DEF Idle
<1> QED
  BY <1>1, <1>2

LEMMA ListBegin ==
    ASSUME Types, ListInv, NEW h \in Handlers, NEW at, NEW arg, NEW table,
           Begins(h, at, arg, table)
    PROVE  ListInv'
<1>1. /\ Begin(h, at, arg, table)
      /\ at = "add" => arg.id = nextId
  BY DEF Begins
<1>2. rules' = rules
  BY <1>1 DEF Begin
<1>3. handler'[h].at = at /\ handler'[h].arg = arg
  <2>1. handler'[h] = [at |-> at, arg |-> arg, alone |-> Others(h) = {},
                       before |-> IF stale' THEN Nothing ELSE db]
    BY <1>1, BeginFacts
  <2> QED
    BY <2>1
<1>4. ASSUME NEW g \in Handlers \ {h}
      PROVE  handler'[g].at = handler[g].at
             /\ (handler[g].at = "add" => handler'[g].arg = handler[g].arg)
  <2>1. CASE handler[g] = Idle
    <3>1. handler'[g] = Idle
      BY <1>1, <2>1, BeginFacts
    <3> QED
      BY <2>1, <3>1 DEF Idle
  <2>2. CASE handler[g] # Idle
    <3>1. handler'[g] = [at |-> handler[g].at, arg |-> handler[g].arg,
                         alone |-> FALSE, before |-> Nothing]
      BY <1>1, <2>2, BeginFacts
    <3> QED
      BY <3>1
  <2> QED
    BY <2>1, <2>2
<1>5. ASSUME NEW g \in Handlers, handler[g].at = "add"
      PROVE  handler[g].arg.id # nextId
  <2>1. InHand(handler[g], nextId)
    BY <1>5, AtIsBusy DEF Stages
  <2> QED
    BY <1>5, <2>1, RulesAssumption DEF InHand, Types
<1>6. at = "add" => OnceAtMost(rules, arg.id)
  <2>1. \A i \in 1..Len(rules) : rules[i].id # nextId
    BY RulesAssumption DEF Types, IdsBelow
  <2> QED
    BY <1>1, <2>1 DEF OnceAtMost
<1>7. ASSUME NEW g \in Handlers, handler'[g].at = "add"
      PROVE  OnceAtMost(rules', handler'[g].arg.id)
  <2>1. CASE g = h
    BY <1>2, <1>3, <1>6, <1>7, <2>1
  <2>2. CASE g # h
    BY <1>2, <1>4, <1>7, <2>2 DEF ListInv
  <2> QED
    BY <2>1, <2>2
<1>8. ASSUME NEW f \in Handlers, NEW g \in Handlers,
             handler'[f].at = "add", handler'[g].at = "add",
             handler'[f].arg.id = handler'[g].arg.id
      PROVE  f = g
  <2>1. CASE f = h /\ g # h
    BY <1>1, <1>3, <1>4, <1>5, <1>8, <2>1
  <2>2. CASE f # h /\ g = h
    BY <1>1, <1>3, <1>4, <1>5, <1>8, <2>2
  <2>3. CASE f # h /\ g # h
    BY <1>4, <1>8, <2>3 DEF ListInv
  <2> QED
    BY <2>1, <2>2, <2>3
<1> QED
  BY <1>2, <1>7, <1>8 DEF ListInv

LEMMA ListNext == Types /\ ListInv /\ [Next]_vars => ListInv'
<1> SUFFICES ASSUME Types, ListInv, [Next]_vars PROVE ListInv'
  OBVIOUS
<1>1. ASSUME UNCHANGED vars PROVE ListInv'
  BY <1>1 DEF ListInv, vars
<1>2. ASSUME NEW h \in Handlers, NEW at, NEW arg, NEW table, Begins(h, at, arg, table)
      PROVE  ListInv'
  BY <1>2, ListBegin
<1>3. /\ rules \in Seq(RuleRecords) /\ Ranked(RuleRecords) /\ IsTable(db)
      /\ InClassOrder(rules) /\ TwiceAtMost(rules)
      /\ \A g \in Handlers :
             handler[g].at = "add" => OnceAtMost(rules, handler[g].arg.id)
  BY RuleRecordsRanked DEF Types, ListInv
<1>4. ASSUME NEW h \in Handlers, FinishCreate(h) PROVE ListInv'
  <2> DEFINE r == handler[h].arg
             list == AddRule(rules, r)
  <2>1. handler[h].at = "add" /\ Finish(h, list, stale, flagsLost)
    BY <1>4 DEF FinishCreate
  <2>2. r \in RuleRecords
    BY <2>1, AtIsBusy DEF Stages, InHand
  <2>3. OnceAtMost(rules, r.id)
        /\ \A g \in Handlers : handler[g].at = "add" /\ g # h => handler[g].arg.id # r.id
    BY <1>3, <2>1 DEF ListInv
  <2> HIDE DEF r
  <2>4. InClassOrder(list) /\ IsAdded(list, rules, r)
    BY <1>3, <2>2, AddRuleFacts
  <2>5. rules' = list
    BY <2>1 DEF Finish
  <2> HIDE DEF list
  <2>6. TwiceAtMost(list) /\ \A id : OnceAtMost(rules, id) /\ id # r.id => OnceAtMost(list, id)
    BY <1>3, <2>3, <2>4 DEF IsAdded
  <2>7. \A g \in Handlers : handler'[g].at = "add" =>
            g # h /\ handler[g].at = "add" /\ handler'[g].arg = handler[g].arg
    BY <2>1, FinishLeaves
  <2>8. \A g \in Handlers : handler'[g].at = "add" => OnceAtMost(list, handler[g].arg.id)
    BY <1>3, <2>3, <2>6, <2>7
  <2> QED
    BY <2>4, <2>5, <2>6, <2>7, <2>8, ListKept
<1>5. ASSUME NEW h \in Handlers, NEW list, NEW s, NEW l, Finish(h, list, s, l),
             InClassOrder(list), TwiceAtMost(list),
             \A id : OnceAtMost(rules, id) => OnceAtMost(list, id)
      PROVE  ListInv'
  <2>1. rules' = list
    BY <1>5 DEF Finish
  <2>2. \A g \in Handlers : handler'[g].at = "add" =>
            g # h /\ handler[g].at = "add" /\ handler'[g].arg = handler[g].arg
    BY <1>5, FinishLeaves
  <2>3. \A g \in Handlers : handler'[g].at = "add" => OnceAtMost(list, handler[g].arg.id)
    BY <1>3, <1>5, <2>2
  <2> QED
    BY <1>5, <2>1, <2>2, <2>3, ListKept
<1>6. ASSUME NEW h \in Handlers, FinishUpdate(h) PROVE ListInv'
  <2> DEFINE r == handler[h].arg
             list == UpdateRule(rules, r)
  <2>1. handler[h].at = "update" /\ Finish(h, list, stale, flagsLost)
    BY <1>6 DEF FinishUpdate
  <2>2. r \in RuleRecords
    BY <2>1, AtIsBusy DEF Stages, InHand
  <2> HIDE DEF r
  <2>3. InClassOrder(list) /\ IsUpdated(list, rules, r)
    BY <1>3, <2>2, UpdateRuleFacts
  <2> HIDE DEF list
  <2>4. TwiceAtMost(list) /\ \A id : OnceAtMost(rules, id) => OnceAtMost(list, id)
    BY <1>3, <2>3 DEF IsUpdated
  <2> QED
    BY <1>5, <2>1, <2>3, <2>4
<1>7. ASSUME NEW h \in Handlers, FinishDelete(h) PROVE ListInv'
  <2> DEFINE id == handler[h].arg
             list == RemoveRule(rules, id)
  <2>1. Finish(h, list, stale, flagsLost)
    BY <1>7 DEF FinishDelete
  <2> HIDE DEF id
  <2>2. InClassOrder(list) /\ IsRemoved(list, rules, id)
    BY <1>3, RemoveRuleFacts
  <2> HIDE DEF list
  <2>3. TwiceAtMost(list) /\ \A n : OnceAtMost(rules, n) => OnceAtMost(list, n)
    BY <1>3, <2>2 DEF IsRemoved
  <2> QED
    BY <1>5, <2>1, <2>2, <2>3
<1>8. ASSUME NEW h \in Handlers, ReloadList(h) PROVE ListInv'
  <2>1. rules' = rules
    BY <1>8 DEF ReloadList
  <2>2. /\ handler'[h] = [at |-> "load", arg |-> ListRouteRules(db),
                          alone |-> handler[h].alone, before |-> handler[h].before]
        /\ \A g \in Handlers \ {h} : handler'[g] = handler[g]
    BY <1>8, ListFacts
  <2>3. handler'[h].at # "add"
    BY <2>2
  <2>4. \A g \in Handlers : handler'[g].at = "add" =>
            /\ handler[g].at = "add" /\ handler'[g].arg = handler[g].arg
            /\ OnceAtMost(rules', handler[g].arg.id)
    BY <1>3, <2>1, <2>2, <2>3
  <2> QED
    BY <1>3, <2>1, <2>4, ListKept
<1>9. ASSUME NEW h \in Handlers, ReloadFails(h) PROVE ListInv'
  <2>1. Finish(h, rules, TRUE, flagsLost)
    BY <1>9 DEF ReloadFails
  <2> QED
    BY <1>3, <1>5, <2>1
<1>10. ASSUME NEW h \in Handlers, LoadRules(h) PROVE ListInv'
  <2> DEFINE s == stale /\ ~handler[h].alone
             list == handler[h].arg
  <2>1. handler[h].at = "load" /\ Finish(h, list, s, FALSE)
    BY <1>10 DEF LoadRules
  <2>2. InClassOrder(list) /\ Distinct(list)
    BY <2>1, AtIsBusy DEF Stages, InHand
  <2> HIDE DEF s, list
  <2> QED
    BY <1>5, <2>1, <2>2, DistinctList
<1>11. ASSUME NEW read \in BOOLEAN, Restart(read) PROVE ListInv'
  <2> DEFINE all == AddedAtBoot(ListRouteRules(db))
             list == IF read THEN all ELSE <<>>
  <2>0. InClassOrder(all) /\ Covers(all, db)
    BY <1>3, BootFacts
  <2>2. rules' = list /\ handler' = [h \in Handlers |-> Idle]
    BY <1>11 DEF Restart
  <2> HIDE DEF all
  <2>1. InClassOrder(list) /\ Distinct(list)
    <3>1. CASE read
      BY <2>0, <3>1 DEF Covers
    <3>2. CASE ~read
      BY <3>2 DEF InClassOrder, Distinct
    <3> QED
      BY <3>1, <3>2
  <2> HIDE DEF list
  <2>3. TwiceAtMost(list)
    BY <2>1, DistinctList
  <2>4. \A g \in Handlers : handler'[g].at # "add"
    BY <2>2 DEF Idle
  <2> QED
    BY <2>1, <2>2, <2>3, <2>4, ListKept
<1>12. CASE Next
  BY <1>2, <1>4, <1>6, <1>7, <1>8, <1>9, <1>10, <1>11, <1>12, Kinds
<1> QED
  BY <1>1, <1>12

LEMMA ListHolds == Spec => []ListInv
<1>1. Init => ListInv
  BY ListInit
<1>2. Types /\ ListInv /\ [Next]_vars => ListInv'
  BY ListNext
<1> QED
  BY <1>1, <1>2, TypesHold, PTL DEF Spec

LEMMA TwoPlaces ==
    ASSUME NEW R, NEW s \in Seq(R), TwiceAtMost(s), NEW id
    PROVE  Cardinality(PlacesOf(s, id)) <= 2
<1> DEFINE P == PlacesOf(s, id)
<1>1. DOMAIN s = 1..Len(s) /\ Len(s) \in Nat
  BY LenProperties
<1>2. \A i, j, k \in P : i = j \/ j = k \/ i = k
  BY <1>1 DEF PlacesOf, TwiceAtMost
<1>3. P \in SUBSET (1..Len(s)) /\ IsFiniteSet(1..Len(s))
  BY <1>1, FS_Interval DEF PlacesOf
<1>4. IsFiniteSet(P)
  BY <1>3, FS_Subset
<1> HIDE DEF P
<1>5. ASSUME P # {} PROVE Cardinality(P) <= 2
  <2>1. PICK x \in P : TRUE
    BY <1>5
  <2> DEFINE Q == P \ {x}
  <2>2. IsFiniteSet(Q) /\ Cardinality(Q) = Cardinality(P) - 1
    BY <1>4, <2>1, FS_RemoveElement
  <2>3. Cardinality(P) \in Nat /\ Cardinality(Q) \in Nat
    BY <1>4, <2>2, FS_CardinalityType
  <2>4. CASE Q = {}
    <3>1. Cardinality(Q) = 0
      BY <2>4, FS_EmptySet
    <3> QED
      BY <2>2, <2>3, <3>1
  <2>5. CASE Q # {}
    <3>1. PICK y \in Q : TRUE
      BY <2>5
    <3>2. \A z \in Q : z = y
      BY <1>2, <2>1, <3>1
    <3>3. Q = {y}
      BY <3>1, <3>2
    <3>4. Cardinality(Q) = 1
      BY <3>3, FS_Singleton
    <3> QED
      BY <2>2, <2>3, <3>4
  <2> QED
    BY <2>4, <2>5
<1>6. P = {} => Cardinality(P) <= 2
  BY FS_EmptySet
<1> QED
  BY <1>5, <1>6 DEF P

\* Type correctness; and of every rule the list holds at most two copies.
THEOREM TypeCorrect == Spec => []TypeOK
<1>1. Types /\ ListInv => TypeOK
  <2> SUFFICES ASSUME Types, ListInv PROVE TypeOK
    OBVIOUS
  <2>1. \A i \in DOMAIN rules : rules[i].id \in 1..nextId - 1
    BY LenProperties DEF Types, IdsBelow
  <2>2. \A id \in Places : Cardinality(PlacesOf(rules, id)) <= 2
    BY TwoPlaces DEF Types, ListInv
  <2>3. \A h \in Handlers :
            handler[h].at \in {"idle", "add", "update", "remove", "list", "load"}
    BY AtIsBusy DEF Stages, Idle
  <2> QED
    BY <2>1, <2>2, <2>3 DEF TypeOK, Types
<1> QED
  BY <1>1, TypesHold, ListHolds, PTL

\* Whatever requests overlap, the engine tries the rules of a class by ascending
\* priority.
THEOREM OrderIsKept == Spec => []SortedWithinClass
<1>1. Types /\ ListInv => SortedWithinClass
  BY LenProperties DEF Types, ListInv, InClassOrder, SortedWithinClass
<1> QED
  BY <1>1, TypesHold, ListHolds, PTL

-----------------------------------------------------------------------------
(* The list and the table                                                      *)

\* A request that is alone is the only one; without stale every request is; and
\* the rows a request that is alone has read are still those of the table.
AloneInv ==
    \A h \in Handlers : handler[h] # Idle =>
        /\ handler[h].alone => \A g \in Handlers \ {h} : handler[g] = Idle
        /\ ~stale => handler[h].alone
        /\ handler[h].alone /\ handler[h].at = "load" => IsListing(handler[h].arg, db)

LEMMA AloneInit == Init => AloneInv
BY DEF Init, AloneInv

LEMMA AloneBegin ==
    ASSUME Types, AloneInv, NEW h \in Handlers, NEW at, NEW arg, NEW table,
           Begins(h, at, arg, table)
    PROVE  AloneInv'
<1>1. Begin(h, at, arg, table) /\ at # "load"
  BY DEF Begins
<1>2. stale' = (stale \/ Others(h) # {})
  BY <1>1, BeginFacts
<1>3. handler'[h].alone = (Others(h) = {}) /\ handler'[h].at = at
  <2>1. handler'[h] = [at |-> at, arg |-> arg, alone |-> Others(h) = {},
                       before |-> IF stale' THEN Nothing ELSE db]
    BY <1>1, BeginFacts
  <2> QED
    BY <2>1
<1>4. ASSUME NEW g \in Handlers \ {h}, handler'[g] # Idle
      PROVE  ~ handler'[g].alone /\ Others(h) # {}
  <2>1. handler[g] # Idle
    BY <1>1, <1>4, BeginFacts
  <2>2. handler'[g] = [at |-> handler[g].at, arg |-> handler[g].arg,
                       alone |-> FALSE, before |-> Nothing]
    BY <1>1, <2>1, BeginFacts
  <2>3. handler'[g].alone = FALSE
    BY <2>2
  <2> QED
    BY <2>1, <2>3 DEF Others
<1>5. ASSUME NEW f \in Handlers, handler'[f] # Idle, handler'[f].alone,
             NEW g \in Handlers \ {f}
      PROVE  handler'[g] = Idle
  <2>1. f = h
    BY <1>4, <1>5
  <2> QED
    BY <1>3, <1>4, <1>5, <2>1
<1>6. ASSUME NEW f \in Handlers, handler'[f] # Idle, ~ stale' PROVE handler'[f].alone
  <2>1. Others(h) = {}
    BY <1>2, <1>6
  <2> QED
    BY <1>3, <1>4, <1>6, <2>1
<1>7. ASSUME NEW f \in Handlers, handler'[f] # Idle, handler'[f].alone
      PROVE  handler'[f].at # "load"
  BY <1>1, <1>3, <1>4, <1>7
<1> QED
  BY <1>5, <1>6, <1>7 DEF AloneInv

LEMMA AloneFinish ==
    ASSUME Types, AloneInv, NEW h \in Handlers, NEW list, NEW s, NEW l,
           Finish(h, list, s, l), handler[h] # Idle,
           s = stale \/ s = TRUE \/ s = (stale /\ ~ handler[h].alone)
    PROVE  AloneInv'
<1>1. /\ stale' = s /\ db' = db /\ handler'[h] = Idle
      /\ \A g \in Handlers \ {h} : handler'[g] = handler[g]
  BY FinishFacts
<1>2. ASSUME NEW g \in Handlers, handler'[g] # Idle
      PROVE  g # h /\ handler'[g] = handler[g] /\ ~ handler[g].alone /\ stale' = TRUE
  <2>1. g # h /\ handler'[g] = handler[g] /\ handler[g] # Idle
    BY <1>1, <1>2
  <2>2. ~ handler[g].alone /\ ~ handler[h].alone /\ stale
    BY <2>1 DEF AloneInv
  <2>3. stale = TRUE
    BY <2>2 DEF Types
  <2> QED
    BY <1>1, <2>1, <2>2, <2>3
<1> QED
  BY <1>2 DEF AloneInv

LEMMA AloneNext == Types /\ AloneInv /\ [Next]_vars => AloneInv'
<1> SUFFICES ASSUME Types, AloneInv, [Next]_vars PROVE AloneInv'
  OBVIOUS
<1>1. ASSUME UNCHANGED vars PROVE AloneInv'
  BY <1>1 DEF AloneInv, vars
<1>2. ASSUME NEW h \in Handlers, NEW at, NEW arg, NEW table, Begins(h, at, arg, table)
      PROVE  AloneInv'
  BY <1>2, AloneBegin
<1>3. ASSUME NEW h \in Handlers,
             FinishCreate(h) \/ FinishUpdate(h) \/ FinishDelete(h) \/ ReloadFails(h)
      PROVE  AloneInv'
  <2>1. handler[h] # Idle
    <3>1. handler[h].at = "add" \/ handler[h].at = "update" \/ handler[h].at = "remove"
          \/ handler[h].at = "list"
      BY <1>3 DEF FinishCreate, FinishUpdate, FinishDelete, ReloadFails
    <3> QED
      BY <3>1 DEF Idle
  <2>2. PICK list, s : Finish(h, list, s, flagsLost) /\ (s = stale \/ s = TRUE)
    BY <1>3 DEF FinishCreate, FinishUpdate, FinishDelete, ReloadFails
  <2> QED
    BY <2>1, <2>2, AloneFinish
<1>4. ASSUME NEW h \in Handlers, ReloadList(h) PROVE AloneInv'
  <2>1. /\ handler[h] # Idle
        /\ handler'[h] = [at |-> "load", arg |-> ListRouteRules(db),
                          alone |-> handler[h].alone, before |-> handler[h].before]
        /\ \A g \in Handlers \ {h} : handler'[g] = handler[g]
    BY <1>4, ListFacts
  <2>2. handler'[h].alone = handler[h].alone /\ handler'[h].arg = ListRouteRules(db)
    BY <2>1
  <2>3. db' = db /\ stale' = stale
    BY <1>4 DEF ReloadList
  <2>4. IsListing(ListRouteRules(db), db)
    BY ListingFacts DEF Types
  <2>5. ASSUME NEW f \in Handlers, handler'[f] # Idle, handler'[f].alone
        PROVE  /\ \A g \in Handlers \ {f} : handler'[g] = Idle
               /\ handler'[f].at = "load" => IsListing(handler'[f].arg, db)
    <3>1. CASE f = h
      BY <2>1, <2>2, <2>4, <2>5, <3>1 DEF AloneInv
    <3>2. CASE f # h
      <4>1. handler[f] # Idle /\ handler[f].alone
        BY <2>1, <2>5, <3>2
      <4> QED
        BY <2>1, <3>2, <4>1 DEF AloneInv
    <3> QED
      BY <3>1, <3>2
  <2>6. ASSUME NEW f \in Handlers, handler'[f] # Idle, ~ stale PROVE handler'[f].alone
    BY <2>1, <2>2, <2>6 DEF AloneInv
  <2> QED
    BY <2>3, <2>5, <2>6 DEF AloneInv
<1>5. ASSUME NEW h \in Handlers, LoadRules(h) PROVE AloneInv'
  <2>1. handler[h] # Idle
    BY <1>5 DEF LoadRules, Idle
  <2>2. Finish(h, handler[h].arg, stale /\ ~handler[h].alone, FALSE)
    BY <1>5 DEF LoadRules
  <2> QED
    BY <2>1, <2>2, AloneFinish
<1>6. ASSUME NEW read \in BOOLEAN, Restart(read) PROVE AloneInv'
  BY <1>6 DEF Restart, AloneInv
<1>7. CASE Next
  BY <1>2, <1>3, <1>4, <1>5, <1>6, <1>7, Kinds
<1> QED
  BY <1>1, <1>7

\* The same rule, but for the flag when it was lost
Same(rule, other, lost) == IF lost THEN Unflagged(rule) = Unflagged(other) ELSE rule = other

\* The list holds each rule of the table once, as the table has it, and no other.
Matches(list, table, lost) ==
    /\ Covers(list, table)
    /\ \A i \in 1..Len(list) : Same(list[i], RuleOf(list[i].id, table[list[i].id]), lost)

\* Between its write and its call, the list matches the table before the write.
MatchInv ==
    ~stale =>
        /\ (\A h \in Handlers : handler[h] = Idle) => Matches(rules, db, flagsLost)
        /\ \A h \in Handlers : handler[h] # Idle =>
               /\ Matches(rules, handler[h].before, flagsLost)
               /\ Applied(handler[h].at, handler[h].arg, db, handler[h].before)

LEMMA AddMatches ==
    ASSUME NEW s, NEW t, NEW r, NEW before, NEW table, NEW lost,
           Matches(s, before, lost), Applied("add", r, table, before), IsAdded(t, s, r)
    PROVE  Matches(t, table, lost)
<1>1. /\ DOMAIN table = DOMAIN before \cup {r.id} /\ r.id \notin DOMAIN before
      /\ r = RuleOf(r.id, table[r.id])
      /\ \A id \in DOMAIN before : table[id] = before[id]
  BY DEF Applied
<1>2. /\ Distinct(s)
      /\ \A k \in 1..Len(s) : s[k].id \in DOMAIN before /\ s[k].id # r.id
      /\ \A id \in DOMAIN before : \E k \in 1..Len(s) : s[k].id = id
      /\ \A k \in 1..Len(s) : Same(s[k], RuleOf(s[k].id, table[s[k].id]), lost)
  BY <1>1 DEF Matches, Covers
<1>3. Distinct(t)
  BY <1>2 DEF IsAdded
<1>4. Same(r, RuleOf(r.id, table[r.id]), lost)
  <2>1. CASE lost
    BY <1>1, <2>1 DEF Same
  <2>2. CASE ~lost
    BY <1>1, <2>2 DEF Same
  <2> QED
    BY <2>1, <2>2
<1>5. ASSUME NEW i \in 1..Len(t)
      PROVE  t[i].id \in DOMAIN table /\ Same(t[i], RuleOf(t[i].id, table[t[i].id]), lost)
  <2>1. CASE t[i] = r
    BY <1>1, <1>4, <2>1
  <2>2. CASE \E k \in 1..Len(s) : t[i] = s[k]
    BY <1>1, <1>2, <2>2
  <2> QED
    BY <2>1, <2>2 DEF IsAdded
<1>6. ASSUME NEW id \in DOMAIN table PROVE \E i \in 1..Len(t) : t[i].id = id
  <2>1. CASE id = r.id
    BY <2>1 DEF IsAdded
  <2>2. CASE id \in DOMAIN before
    <3>1. PICK k \in 1..Len(s) : s[k].id = id
      BY <1>2, <2>2
    <3>2. \E i \in 1..Len(t) : t[i] = s[k]
      BY DEF IsAdded
    <3> QED
      BY <3>1, <3>2
  <2> QED
    BY <1>1, <2>1, <2>2
<1> QED
  BY <1>3, <1>5, <1>6 DEF Matches, Covers

LEMMA UpdateMatches ==
    ASSUME NEW s, NEW t, NEW r, NEW before, NEW table, NEW lost,
           Matches(s, before, lost), Applied("update", r, table, before), IsUpdated(t, s, r)
    PROVE  Matches(t, table, lost)
<1>1. /\ DOMAIN table = DOMAIN before
      /\ r.id \in DOMAIN table => r = RuleOf(r.id, table[r.id])
      /\ \A id \in DOMAIN table \ {r.id} : table[id] = before[id]
  BY DEF Applied
<1>2. /\ Distinct(s)
      /\ \A k \in 1..Len(s) : s[k].id \in DOMAIN before
      /\ \A id \in DOMAIN before : \E k \in 1..Len(s) : s[k].id = id
      /\ \A k \in 1..Len(s) : Same(s[k], RuleOf(s[k].id, before[s[k].id]), lost)
  BY DEF Matches, Covers
<1>3. Distinct(t)
  BY <1>2 DEF IsUpdated
<1>4. r.id \in DOMAIN table => Same(r, RuleOf(r.id, table[r.id]), lost)
  <2>1. CASE lost
    BY <1>1, <2>1 DEF Same
  <2>2. CASE ~lost
    BY <1>1, <2>2 DEF Same
  <2> QED
    BY <2>1, <2>2
<1>5. ASSUME NEW i \in 1..Len(t)
      PROVE  t[i].id \in DOMAIN table /\ Same(t[i], RuleOf(t[i].id, table[t[i].id]), lost)
  <2>1. CASE t[i] = r /\ \E k \in 1..Len(s) : s[k].id = r.id
    <3>1. r.id \in DOMAIN table
      BY <1>1, <1>2, <2>1
    <3> QED
      BY <1>4, <2>1, <3>1
  <2>2. CASE \E k \in 1..Len(s) : t[i] = s[k] /\ (Distinct(s) => s[k].id # r.id)
    <3>1. PICK k \in 1..Len(s) : t[i] = s[k] /\ s[k].id # r.id
      BY <1>2, <2>2
    <3>2. s[k].id \in DOMAIN table \ {r.id}
      BY <1>1, <1>2, <3>1
    <3>3. table[s[k].id] = before[s[k].id]
      BY <1>1, <3>2
    <3> QED
      BY <1>2, <3>1, <3>2, <3>3
  <2> QED
    BY <2>1, <2>2 DEF IsUpdated
<1>6. ASSUME NEW id \in DOMAIN table PROVE \E i \in 1..Len(t) : t[i].id = id
  <2>1. PICK k \in 1..Len(s) : s[k].id = id
    BY <1>1, <1>2
  <2>2. \E i \in 1..Len(t) : t[i].id = s[k].id
    BY DEF IsUpdated
  <2> QED
    BY <2>1, <2>2
<1> QED
  BY <1>3, <1>5, <1>6 DEF Matches, Covers

LEMMA RemoveMatches ==
    ASSUME NEW s, NEW t, NEW n, NEW before, NEW table, NEW lost,
           Matches(s, before, lost), Applied("remove", n, table, before), IsRemoved(t, s, n)
    PROVE  Matches(t, table, lost)
<1>1. /\ DOMAIN table = DOMAIN before \ {n}
      /\ \A id \in DOMAIN table : table[id] = before[id]
  BY DEF Applied
<1>2. /\ Distinct(s)
      /\ \A k \in 1..Len(s) : s[k].id \in DOMAIN before
      /\ \A id \in DOMAIN before : \E k \in 1..Len(s) : s[k].id = id
      /\ \A k \in 1..Len(s) : Same(s[k], RuleOf(s[k].id, before[s[k].id]), lost)
  BY DEF Matches, Covers
<1>3. Distinct(t)
  BY <1>2 DEF IsRemoved
<1>4. ASSUME NEW i \in 1..Len(t)
      PROVE  t[i].id \in DOMAIN table /\ Same(t[i], RuleOf(t[i].id, table[t[i].id]), lost)
  <2>1. PICK k \in 1..Len(s) : t[i] = s[k] /\ s[k].id # n
    BY <1>2 DEF IsRemoved
  <2>2. s[k].id \in DOMAIN table
    BY <1>1, <1>2, <2>1
  <2>3. table[s[k].id] = before[s[k].id]
    BY <1>1, <2>2
  <2> QED
    BY <1>2, <2>1, <2>2, <2>3
<1>5. ASSUME NEW id \in DOMAIN table PROVE \E i \in 1..Len(t) : t[i].id = id
  <2>1. PICK k \in 1..Len(s) : s[k].id = id /\ s[k].id # n
    BY <1>1, <1>2
  <2>2. \E i \in 1..Len(t) : t[i] = s[k]
    BY <2>1 DEF IsRemoved
  <2> QED
    BY <2>1, <2>2
<1> QED
  BY <1>3, <1>4, <1>5 DEF Matches, Covers

LEMMA MatchInit == Init => MatchInv
<1> SUFFICES ASSUME Init PROVE MatchInv
  OBVIOUS
<1>1. rules = <<>> /\ Len(<<>>) = 0 /\ 1..0 = {} /\ DOMAIN db = {}
  BY DEF Init, Nothing
<1>2. Matches(rules, db, flagsLost)
  BY <1>1 DEF Matches, Covers, Distinct
<1>3. \A h \in Handlers : handler[h] = Idle
  BY DEF Init
<1> QED
  BY <1>2, <1>3 DEF MatchInv

LEMMA MatchBegin ==
    ASSUME Types, AloneInv, MatchInv, NEW h \in Handlers, NEW at, NEW arg, NEW table,
           Begins(h, at, arg, table)
    PROVE  MatchInv'
<1> SUFFICES ASSUME ~ stale'
             PROVE  /\ handler'[h] # Idle
                    /\ \A g \in Handlers : handler'[g] # Idle =>
                         /\ Matches(rules', handler'[g].before, flagsLost')
                         /\ Applied(handler'[g].at, handler'[g].arg, db', handler'[g].before)
  BY DEF MatchInv
<1>1. Begin(h, at, arg, table) /\ Applied(at, arg, table, db)
  BY DEF Begins
<1>2. stale' = (stale \/ Others(h) # {}) /\ handler[h] = Idle
  BY <1>1, BeginFacts
<1>3. ~ stale /\ Others(h) = {}
  BY <1>2
<1>4. \A g \in Handlers : handler[g] = Idle
  BY <1>2, <1>3 DEF Others
<1>5. Matches(rules, db, flagsLost)
  BY <1>3, <1>4 DEF MatchInv
<1>6. db' = table /\ rules' = rules /\ flagsLost' = flagsLost
  BY <1>1 DEF Begin
<1>7. handler'[h] = [at |-> at, arg |-> arg, alone |-> Others(h) = {},
                     before |-> IF stale' THEN Nothing ELSE db]
  BY <1>1, BeginFacts
<1>8. handler'[h].at = at /\ handler'[h].arg = arg /\ handler'[h].before = db
  BY <1>7
<1>9. \A g \in Handlers : handler'[g] # Idle => g = h
  BY <1>1, <1>4, BeginFacts
<1>10. handler'[h] # Idle
  <2>1. at # "idle"
    BY DEF Begins
  <2> QED
    BY <1>8, <2>1 DEF Idle
<1> QED
  BY <1>1, <1>5, <1>6, <1>8, <1>9, <1>10

\* A step of a request that is alone, after which the list matches the table
LEMMA MatchFinish ==
    ASSUME Types, AloneInv, NEW h \in Handlers, NEW list, NEW s, NEW l,
           Finish(h, list, s, l), handler[h] # Idle,
           ~ s => handler[h].alone /\ Matches(list, db, l)
    PROVE  MatchInv'
<1> SUFFICES ASSUME ~ stale'
             PROVE  /\ Matches(rules', db', flagsLost')
                    /\ \A g \in Handlers : handler'[g] = Idle
  BY DEF MatchInv
<1>1. /\ rules' = list /\ stale' = s /\ flagsLost' = l /\ db' = db
      /\ handler'[h] = Idle /\ \A g \in Handlers \ {h} : handler'[g] = handler[g]
  BY FinishFacts
<1>2. handler[h].alone /\ Matches(list, db, l)
  BY <1>1
<1> QED
  BY <1>1, <1>2 DEF AloneInv

LEMMA SameItself ==
    ASSUME NEW r, NEW lost
    PROVE  Same(r, r, lost)
BY DEF Same

LEMMA ListingMatches ==
    ASSUME NEW list, NEW table, NEW lost, IsListing(list, table)
    PROVE  Matches(list, table, lost)
<1>1. ASSUME NEW i \in 1..Len(list)
      PROVE  Same(list[i], RuleOf(list[i].id, table[list[i].id]), lost)
  <2>1. list[i] = RuleOf(list[i].id, table[list[i].id])
    BY DEF IsListing
  <2>2. Same(list[i], list[i], lost)
    BY SameItself
  <2> QED
    BY <2>1, <2>2
<1> QED
  BY <1>1 DEF IsListing, Matches

LEMMA BootMatches ==
    ASSUME NEW table, IsTable(table), NEW lost,
           lost <=> \E id \in DOMAIN table : table[id].isPriority
    PROVE  Matches(AddedAtBoot(ListRouteRules(table)), table, lost)
<1> DEFINE l == AddedAtBoot(ListRouteRules(table))
<1>1. /\ Covers(l, table)
      /\ \A i \in 1..Len(l) : l[i] = Unflagged(RuleOf(l[i].id, table[l[i].id]))
  BY BootFacts
<1> HIDE DEF l
<1>2. ASSUME NEW i \in 1..Len(l)
      PROVE  Same(l[i], RuleOf(l[i].id, table[l[i].id]), lost)
  <2> DEFINE r == RuleOf(l[i].id, table[l[i].id])
  <2>1. l[i].id \in DOMAIN table /\ l[i] = Unflagged(r)
    BY <1>1 DEF Covers
  <2>2. r \in RuleRecords
    BY <2>1, TableFacts
  <2>3. r.isPriority = table[l[i].id].isPriority
    BY DEF RuleOf
  <2> HIDE DEF r
  <2>4. CASE lost
    <3>1. Unflagged(l[i]) = Unflagged(r)
      BY <2>1, <2>2, UnflaggedFacts
    <3> QED
      BY <2>4, <3>1 DEF Same, r
  <2>5. CASE ~ lost
    <3>1. ~ r.isPriority
      BY <2>1, <2>3, <2>5
    <3>2. r.isPriority = FALSE
      BY <2>2, <3>1 DEF RuleRecords
    <3>3. Unflagged(r) = r
      BY <2>2, <3>2 DEF Unflagged, RuleRecords
    <3> QED
      BY <2>1, <2>5, <3>3 DEF Same, r
  <2> QED
    BY <2>4, <2>5
<1> QED
  BY <1>1, <1>2 DEF Matches, l

LEMMA MatchNext == Types /\ AloneInv /\ MatchInv /\ [Next]_vars => MatchInv'
<1> SUFFICES ASSUME Types, AloneInv, MatchInv, [Next]_vars PROVE MatchInv'
  OBVIOUS
<1>1. ASSUME UNCHANGED vars PROVE MatchInv'
  BY <1>1 DEF MatchInv, vars
<1>2. ASSUME NEW h \in Handlers, NEW at, NEW arg, NEW table, Begins(h, at, arg, table)
      PROVE  MatchInv'
  BY <1>2, MatchBegin
<1>3. /\ rules \in Seq(RuleRecords) /\ Ranked(RuleRecords) /\ IsTable(db)
  BY RuleRecordsRanked DEF Types
<1>4. ASSUME NEW h \in Handlers, handler[h] # Idle, ~ stale
      PROVE  /\ handler[h].alone
             /\ Matches(rules, handler[h].before, flagsLost)
             /\ Applied(handler[h].at, handler[h].arg, db, handler[h].before)
  BY <1>4 DEF MatchInv, AloneInv
<1>5. ASSUME NEW h \in Handlers, FinishCreate(h) PROVE MatchInv'
  <2> DEFINE r == handler[h].arg
             before == handler[h].before
             list == AddRule(rules, r)
  <2>1. handler[h].at = "add" /\ Finish(h, list, stale, flagsLost)
    BY <1>5 DEF FinishCreate
  <2>2. handler[h] # Idle /\ r \in RuleRecords
    BY <2>1, AtIsBusy DEF Stages, InHand
  <2>3. ~ stale => /\ handler[h].alone
                   /\ Matches(rules, before, flagsLost)
                   /\ Applied("add", r, db, before)
    BY <1>4, <2>1, <2>2
  <2> HIDE DEF r, before
  <2>4. IsAdded(list, rules, r)
    BY <1>3, <2>2, AddRuleFacts
  <2> HIDE DEF list
  <2>5. ~ stale => handler[h].alone /\ Matches(list, db, flagsLost)
    BY <2>3, <2>4, AddMatches
  <2> QED
    BY <2>1, <2>2, <2>5, MatchFinish
<1>6. ASSUME NEW h \in Handlers, FinishUpdate(h) PROVE MatchInv'
  <2> DEFINE r == handler[h].arg
             before == handler[h].before
             list == UpdateRule(rules, r)
  <2>1. handler[h].at = "update" /\ Finish(h, list, stale, flagsLost)
    BY <1>6 DEF FinishUpdate
  <2>2. handler[h] # Idle /\ r \in RuleRecords
    BY <2>1, AtIsBusy DEF Stages, InHand
  <2>3. ~ stale => /\ handler[h].alone
                   /\ Matches(rules, before, flagsLost)
                   /\ Applied("update", r, db, before)
    BY <1>4, <2>1, <2>2
  <2> HIDE DEF r, before
  <2>4. IsUpdated(list, rules, r)
    BY <1>3, <2>2, UpdateRuleFacts
  <2> HIDE DEF list
  <2>5. ~ stale => handler[h].alone /\ Matches(list, db, flagsLost)
    BY <2>3, <2>4, UpdateMatches
  <2> QED
    BY <2>1, <2>2, <2>5, MatchFinish
<1>7. ASSUME NEW h \in Handlers, FinishDelete(h) PROVE MatchInv'
  <2> DEFINE id == handler[h].arg
             before == handler[h].before
             list == RemoveRule(rules, id)
  <2>1. handler[h].at = "remove" /\ Finish(h, list, stale, flagsLost)
    BY <1>7 DEF FinishDelete
  <2>2. handler[h] # Idle
    BY <2>1, AtIsBusy DEF Stages
  <2>3. ~ stale => /\ handler[h].alone
                   /\ Matches(rules, before, flagsLost)
                   /\ Applied("remove", id, db, before)
    BY <1>4, <2>1, <2>2
  <2> HIDE DEF id, before
  <2>4. IsRemoved(list, rules, id)
    BY <1>3, RemoveRuleFacts
  <2> HIDE DEF list
  <2>5. ~ stale => handler[h].alone /\ Matches(list, db, flagsLost)
    BY <2>3, <2>4, RemoveMatches
  <2> QED
    BY <2>1, <2>2, <2>5, MatchFinish
<1>8. ASSUME NEW h \in Handlers, ReloadFails(h) PROVE MatchInv'
  <2>1. Finish(h, rules, TRUE, flagsLost)
    BY <1>8 DEF ReloadFails
  <2>2. handler[h] # Idle
    BY <1>8 DEF ReloadFails, Idle
  <2> QED
    BY <2>1, <2>2, MatchFinish
<1>9. ASSUME NEW h \in Handlers, LoadRules(h) PROVE MatchInv'
  <2> DEFINE s == stale /\ ~handler[h].alone
             list == handler[h].arg
  <2>1. handler[h].at = "load" /\ Finish(h, list, s, FALSE)
    BY <1>9 DEF LoadRules
  <2>2. handler[h] # Idle
    BY <2>1, AtIsBusy DEF Stages
  <2>3. ~ s => handler[h].alone
    BY <2>2 DEF AloneInv
  <2>4. ~ s => Matches(list, db, FALSE)
    BY <2>1, <2>2, <2>3, ListingMatches DEF AloneInv
  <2> HIDE DEF s, list
  <2> QED
    BY <2>1, <2>2, <2>3, <2>4, MatchFinish
<1>10. ASSUME NEW h \in Handlers, ReloadList(h) PROVE MatchInv'
  <2>1. /\ handler[h] # Idle
        /\ handler'[h] = [at |-> "load", arg |-> ListRouteRules(db),
                          alone |-> handler[h].alone, before |-> handler[h].before]
        /\ \A g \in Handlers \ {h} : handler'[g] = handler[g]
    BY <1>10, ListFacts
  <2>2. /\ handler'[h].at = "load" /\ handler'[h].before = handler[h].before
        /\ handler'[h] # Idle
    BY <2>1 DEF Idle
  <2>3. UNCHANGED <<db, rules, stale, flagsLost>>
    BY <1>10 DEF ReloadList
  <2> SUFFICES ASSUME ~ stale, NEW g \in Handlers, handler'[g] # Idle
               PROVE  /\ Matches(rules, handler'[g].before, flagsLost)
                      /\ Applied(handler'[g].at, handler'[g].arg, db, handler'[g].before)
    BY <2>2, <2>3 DEF MatchInv
  <2>4. CASE g = h
    <3>1. Applied(handler'[g].at, handler'[g].arg, db, handler'[g].before)
      BY <2>2, <2>4 DEF Applied
    <3> QED
      BY <1>4, <2>1, <2>2, <2>4, <3>1
  <2>5. CASE g # h
    <3>1. handler'[g] = handler[g]
      BY <2>1, <2>5
    <3> QED
      BY <1>4, <3>1
  <2> QED
    BY <2>4, <2>5
<1>11. ASSUME NEW read \in BOOLEAN, Restart(read) PROVE MatchInv'
  <2>1. /\ db' = db /\ stale' = ~read
        /\ \A h \in Handlers : handler'[h] = Idle
    BY <1>11 DEF Restart
  <2>2. CASE read
    <3>1. /\ rules' = AddedAtBoot(ListRouteRules(db))
          /\ flagsLost' <=> \E id \in DOMAIN db : db[id].isPriority
      BY <1>11, <2>2 DEF Restart
    <3>2. Matches(rules', db, flagsLost')
      BY <1>3, <2>1, <3>1, BootMatches
    <3> QED
      BY <2>1, <3>2 DEF MatchInv
  <2>3. CASE ~read
    BY <2>1, <2>3 DEF MatchInv
  <2> QED
    BY <2>2, <2>3
<1>12. CASE Next
  BY <1>2, <1>5, <1>6, <1>7, <1>8, <1>9, <1>10, <1>11, <1>12, Kinds
<1> QED
  BY <1>1, <1>12

LEMMA MatchHolds == Spec => [](Types /\ ListInv /\ MatchInv)
<1>1. Init => AloneInv /\ MatchInv
  BY AloneInit, MatchInit
<1>2. Types /\ AloneInv /\ MatchInv /\ [Next]_vars => AloneInv' /\ MatchInv'
  BY AloneNext, MatchNext
<1> QED
  BY <1>1, <1>2, TypesHold, ListHolds, PTL DEF Spec

LEMMA CommittedFacts ==
    ASSUME Types, MatchInv, ~ stale
    PROVE  IsTable(Committed) /\ Matches(rules, Committed, flagsLost)
<1> DEFINE busy == {h \in Handlers : handler[h] # Idle}
           h == CHOOSE g \in busy : TRUE
<1>1. CASE busy = {}
  <2>1. Committed = db
    BY <1>1 DEF Committed
  <2> QED
    BY <1>1, <2>1 DEF Types, MatchInv
<1>2. CASE busy # {}
  <2>1. Committed = handler[h].before
    BY <1>2 DEF Committed
  <2>2. h \in busy
    BY <1>2
  <2> HIDE DEF h
  <2>3. h \in Handlers /\ handler[h] # Idle
    BY <2>2
  <2>4. IsTable(handler[h].before)
    BY <2>3 DEF Types, InHand
  <2> QED
    BY <2>1, <2>3, <2>4 DEF MatchInv
<1> QED
  BY <1>1, <1>2

\* A list that matches a table has as many rules as the table.
LEMMA MatchesLength ==
    ASSUME NEW R, NEW list \in Seq(R), NEW table, IsTable(table), NEW lost,
           Matches(list, table, lost)
    PROVE  Len(list) = Cardinality(DOMAIN table)
<1> DEFINE n == Len(list)
           f == [i \in 1..n |-> list[i].id]
<1>1. n \in Nat
  BY LenProperties
<1>2. f \in [1..n -> DOMAIN table]
  BY DEF Matches, Covers
<1>3. \A i, j \in 1..n : f[i] = f[j] => i = j
  BY DEF Matches, Covers, Distinct
<1>4. \A id \in DOMAIN table : \E i \in 1..n : f[i] = id
  BY DEF Matches, Covers
<1> HIDE DEF f
<1>5. f \in Bijection(1..n, DOMAIN table)
  BY <1>2, <1>3, <1>4 DEF Bijection, Injection, Surjection, IsInjective
<1>6. IsFiniteSet(1..n) /\ Cardinality(1..n) = n
  BY <1>1, FS_Interval
<1>7. Cardinality(DOMAIN table) = Cardinality(1..n)
  BY <1>5, <1>6, FS_Bijection DEF ExistsBijection
<1> QED
  BY <1>6, <1>7

\* As long as requests come one at a time, and again after a reload that ran alone
\* or a restart, the engine holds the rules of the table.
THEOREM EngineHasTheTable == Spec => []MemoryMatchesDatabase
<1>1. Types /\ ListInv /\ MatchInv => MemoryMatchesDatabase
  <2> SUFFICES ASSUME Types, MatchInv, ~ stale
               PROVE  /\ Len(rules) = Cardinality(DOMAIN Committed)
                      /\ {Compared(rules[i]) : i \in DOMAIN rules}
                           = {Compared(RuleOf(id, Committed[id])) : id \in DOMAIN Committed}
    BY DEF MemoryMatchesDatabase
  <2> DEFINE T == Committed
  <2>1. IsTable(T) /\ Matches(rules, T, flagsLost)
    BY CommittedFacts
  <2> HIDE DEF T
  <2>2. rules \in Seq(RuleRecords) /\ DOMAIN rules = 1..Len(rules)
    BY LenProperties DEF Types
  <2>3. Len(rules) = Cardinality(DOMAIN T)
    BY <2>1, <2>2, MatchesLength
  <2>4. \A a, b : Same(a, b, flagsLost) => Compared(a) = Compared(b)
    BY DEF Same, Compared, Unflagged
  <2>5. ASSUME NEW i \in 1..Len(rules)
        PROVE  /\ rules[i].id \in DOMAIN T
               /\ Compared(rules[i]) = Compared(RuleOf(rules[i].id, T[rules[i].id]))
    BY <2>1, <2>4 DEF Matches, Covers
  <2>6. ASSUME NEW id \in DOMAIN T
        PROVE  \E i \in 1..Len(rules) : Compared(rules[i]) = Compared(RuleOf(id, T[id]))
    <3>1. PICK i \in 1..Len(rules) : rules[i].id = id
      BY <2>1 DEF Matches, Covers
    <3> QED
      BY <2>5, <3>1
  <2>7. {Compared(rules[i]) : i \in DOMAIN rules} = {Compared(RuleOf(id, T[id])) : id \in DOMAIN T}
    BY <2>2, <2>5, <2>6
  <2> QED
    BY <2>3, <2>7 DEF T
<1> QED
  BY <1>1, MatchHolds, PTL

\* The enabled rules of a class that match, and those of least priority number
MatchingIds(table, message, class) ==
    {id \in DOMAIN table : /\ table[id].enabled
                           /\ table[id].isPriority = class
                           /\ MatchRule(message, RuleOf(id, table[id]))}
BestIds(table, S) ==
    {id \in S : \A other \in S : table[id].priority <= table[other].priority}
NamedIds(table, S) == {ByRule(RuleOf(id, table[id])) : id \in BestIds(table, S)}

\* The first rule of a class that matches is one of its matching rules of least
\* priority number, and there is one exactly when the table has one.
LEMMA FirstIsBest ==
    ASSUME NEW list \in Seq(RuleRecords), NEW table, InClassOrder(list),
           Matches(list, table, FALSE), NEW message, NEW class
    PROVE  LET hits == Hits(list, message, class)
               ids == MatchingIds(table, message, class)
           IN  /\ hits = {} <=> ids = {}
               /\ hits # {} => ByRule(list[FirstOf(hits)]) \in NamedIds(table, ids)
<1> DEFINE hits == Hits(list, message, class)
           ids == MatchingIds(table, message, class)
<1>1. DOMAIN list = 1..Len(list) /\ Len(list) \in Nat
  BY LenProperties
<1>2. \A i \in 1..Len(list) : /\ list[i].id \in DOMAIN table
                              /\ list[i] = RuleOf(list[i].id, table[list[i].id])
  BY DEF Matches, Covers, Same
<1>3. \A id \in DOMAIN table : \E i \in 1..Len(list) : list[i].id = id
  BY DEF Matches, Covers
<1>4. \A id, body : /\ RuleOf(id, body).enabled = body.enabled
                    /\ RuleOf(id, body).isPriority = body.isPriority
                    /\ RuleOf(id, body).priority = body.priority
  BY DEF RuleOf
<1>5. ASSUME NEW i \in 1..Len(list)
      PROVE  /\ list[i].enabled = table[list[i].id].enabled
             /\ list[i].isPriority = table[list[i].id].isPriority
             /\ list[i].priority = table[list[i].id].priority
  BY <1>2, <1>4
<1>6. ASSUME NEW i \in hits PROVE i \in 1..Len(list) /\ list[i].id \in ids
  <2>1. /\ i \in 1..Len(list) /\ list[i].enabled /\ list[i].isPriority = class
        /\ MatchRule(message, list[i])
    BY <1>1 DEF Hits
  <2>2. MatchRule(message, RuleOf(list[i].id, table[list[i].id]))
    BY <1>2, <2>1
  <2> QED
    BY <1>2, <1>5, <2>1, <2>2 DEF MatchingIds
<1>7. ASSUME NEW id \in ids PROVE \E i \in hits : list[i].id = id
  <2>1. /\ id \in DOMAIN table /\ table[id].enabled /\ table[id].isPriority = class
        /\ MatchRule(message, RuleOf(id, table[id]))
    BY DEF MatchingIds
  <2>2. PICK i \in 1..Len(list) : list[i].id = id
    BY <1>3, <2>1
  <2>3. MatchRule(message, list[i])
    BY <1>2, <2>1, <2>2
  <2>4. i \in hits
    BY <1>1, <1>5, <2>1, <2>2, <2>3 DEF Hits
  <2> QED
    BY <2>2, <2>4
<1>8. hits = {} <=> ids = {}
  <2> HIDE DEF hits, ids
  <2> QED
    BY <1>6, <1>7
<1>9. ASSUME hits # {} PROVE ByRule(list[FirstOf(hits)]) \in NamedIds(table, ids)
  <2> DEFINE f == FirstOf(hits)
             id == list[f].id
  <2>1. hits \subseteq Nat
    BY <1>1 DEF Hits
  <2> HIDE DEF hits
  <2>2. f \in hits /\ \A j \in hits : f <= j
    BY <1>9, <2>1, FirstOfFacts
  <2> HIDE DEF f
  <2>3. f \in 1..Len(list) /\ id \in ids
    BY <1>6, <2>2
  <2>4. ASSUME NEW other \in ids PROVE table[id].priority <= table[other].priority
    <3>1. PICK j \in hits : list[j].id = other
      BY <1>7
    <3>2. j \in 1..Len(list) /\ f <= j
      BY <1>6, <2>2, <3>1
    <3>3. list[f].isPriority = list[j].isPriority
      BY <2>2, <3>1 DEF hits, Hits
    <3>4. list[f].priority \in Int /\ list[j].priority \in Int
      BY <2>3, <3>2, RuleRecordsRanked DEF Ranked
    <3>5. list[f].priority <= list[j].priority
      <4>1. CASE f = j
        BY <3>4, <4>1
      <4>2. CASE f # j
        BY <2>3, <3>2, <3>3, <4>2 DEF InClassOrder
      <4> QED
        BY <4>1, <4>2
    <3> QED
      BY <1>5, <2>3, <3>1, <3>2, <3>5
  <2>5. id \in BestIds(table, ids)
    BY <2>3, <2>4 DEF BestIds
  <2>6. list[f] = RuleOf(id, table[id])
    BY <1>2, <2>3
  <2> HIDE DEF ids
  <2> QED
    BY <2>5, <2>6 DEF NamedIds, f
<1> QED
  BY <1>8, <1>9

\* Under the same conditions every message goes where the table sends it.
THEOREM RoutesAsTheTableSays == Spec => []RoutesByTable
<1>1. Types /\ ListInv /\ MatchInv => RoutesByTable
  <2> SUFFICES ASSUME Types, ListInv, MatchInv, ~ stale, ~ flagsLost,
                      NEW message \in Messages, NEW override \in Backends \cup {None}
               PROVE  Route(rules, DefaultBackend, message, override)
                          \in DecisionsByTable(Committed, message, override)
    BY DEF RoutesByTable
  <2> DEFINE T == Committed
             first == Hits(rules, message, TRUE)
             normal == Hits(rules, message, FALSE)
             firstIds == MatchingIds(T, message, TRUE)
             normalIds == MatchingIds(T, message, FALSE)
  <2>1. Matches(rules, T, FALSE)
    <3>1. flagsLost = FALSE
      BY DEF Types
    <3> QED
      BY <3>1, CommittedFacts
  <2>2. rules \in Seq(RuleRecords) /\ InClassOrder(rules)
    BY DEF Types, ListInv
  <2>3. Route(rules, DefaultBackend, message, override) =
            IF first # {} THEN ByRule(rules[FirstOf(first)])
            ELSE IF override # None THEN Decision(override, "session", 0)
            ELSE IF normal # {} THEN ByRule(rules[FirstOf(normal)])
            ELSE Decision(DefaultBackend, "default", 0)
    BY DEF Route
  <2>4. DecisionsByTable(T, message, override) =
            IF firstIds # {} THEN NamedIds(T, firstIds)
            ELSE IF override # None THEN {Decision(override, "session", 0)}
            ELSE IF normalIds # {} THEN NamedIds(T, normalIds)
            ELSE {Decision(DefaultBackend, "default", 0)}
    BY DEF DecisionsByTable, MatchingIds, NamedIds, BestIds
  <2> HIDE DEF T
  <2>5. /\ first = {} <=> firstIds = {}
        /\ first # {} => ByRule(rules[FirstOf(first)]) \in NamedIds(T, firstIds)
    BY <2>1, <2>2, FirstIsBest
  <2>6. /\ normal = {} <=> normalIds = {}
        /\ normal # {} => ByRule(rules[FirstOf(normal)]) \in NamedIds(T, normalIds)
    BY <2>1, <2>2, FirstIsBest
  <2> HIDE DEF first, normal, firstIds, normalIds
  <2>7. Route(rules, DefaultBackend, message, override)
            \in DecisionsByTable(T, message, override)
    <3>1. CASE first # {}
      BY <2>3, <2>4, <2>5, <3>1
    <3>2. CASE first = {} /\ override # None
      BY <2>3, <2>4, <2>5, <3>2
    <3>3. CASE first = {} /\ override = None /\ normal # {}
      BY <2>3, <2>4, <2>5, <2>6, <3>3
    <3>4. CASE first = {} /\ override = None /\ normal = {}
      BY <2>3, <2>4, <2>5, <2>6, <3>4
    <3> QED
      BY <3>1, <3>2, <3>3, <3>4
  <2> QED
    BY <2>7 DEF T
<1> QED
  BY <1>1, MatchHolds, PTL
===============================================================================
