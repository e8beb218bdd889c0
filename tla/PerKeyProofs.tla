----------------------------- MODULE PerKeyProofs -----------------------------
(***************************************************************************)
(* Theorems about the two components that keep a record per key under one  *)
(* lock, make it when a key first comes and drop it when it is old.        *)
(*                                                                         *)
(* SessionContext, for every set of users, backends, callers and sessions  *)
(* and every length of a history: what a key leads to was made under that  *)
(* key, and on this rest the others; that the key also tells the user is   *)
(* so only where no id of a user has a ':'.  The last rests on what        *)
(* cutting off the oldest messages leaves of a history.                    *)
(*                                                                         *)
(* RateLimits, for all clients and every choice of the limits for which a  *)
(* bucket is full again before it is swept: each limit holds because of a  *)
(* quantity that a request moves and that time never lowers faster than    *)
(* the limit allows: what is left in the bucket, the window that is open,  *)
(* the wrong passwords counted.                                            *)
(***************************************************************************)
EXTENDS SessionContext, RateLimits, SequenceTheorems, TLAPS

-----------------------------------------------------------------------------
(* Sessions                                                                    *)

\* None is neither a session nor a pair of ids; an id has at least one part
Distinct ==
    /\ None \notin Objects /\ None \notin Pairs
    /\ MaxHistory \in Nat
    /\ Users \subseteq Seq(Parts) \ {<<>>}
    /\ Backends \subseteq Seq(Parts) \ {<<>>}

-----------------------------------------------------------------------------
\* What cutting off the oldest elements leaves: the last n elements in their order.
LEMMA LastOfElements ==
    ASSUME NEW S, NEW s \in Seq(S), NEW n \in Nat
    PROVE  /\ LastOf(s, n) \in Seq(S)
           /\ Len(LastOf(s, n)) = IF Len(s) > n THEN n ELSE Len(s)
           /\ \A i \in 1..Len(LastOf(s, n)) :
                  LastOf(s, n)[i] = s[Len(s) - Len(LastOf(s, n)) + i]
<1>1. CASE Len(s) > n
  <2> DEFINE m == Len(s) - n + 1
  <2>1. m \in 1..(Len(s) + 1) /\ LastOf(s, n) = SubSeq(s, m, Len(s))
    BY <1>1 DEF LastOf
  <2>2. /\ m \in Int /\ Len(s) \in Int
        /\ \A i \in m..Len(s) : s[i] \in S
    BY <1>1
  <2>3. Len(s) - m + 1 = n
    OBVIOUS
  <2> HIDE DEF m
  <2>4. /\ SubSeq(s, m, Len(s)) \in Seq(S)
        /\ Len(SubSeq(s, m, Len(s))) = n
        /\ \A i \in 1..n : SubSeq(s, m, Len(s))[i] = s[m + i - 1]
    <3>1. /\ SubSeq(s, m, Len(s)) \in Seq(S)
          /\ Len(SubSeq(s, m, Len(s))) = IF m <= Len(s) THEN Len(s) - m + 1 ELSE 0
          /\ \A i \in 1..(Len(s) - m + 1) : SubSeq(s, m, Len(s))[i] = s[m + i - 1]
      BY <2>2, SubSeqProperties
    <3> QED
      BY <2>2, <2>3, <3>1
  <2>5. \A i \in 1..n : m + i - 1 = Len(s) - n + i
    BY <2>2 DEF m
  <2> QED
    BY <1>1, <2>1, <2>4, <2>5
<1>2. CASE ~(Len(s) > n)
  BY <1>2 DEF LastOf
<1> QED
  BY <1>1, <1>2

\* Adding a turn keeps a history what is left of its turns: the newest of them, whole.
LEMMA RememberKeepsNewest ==
    ASSUME MaxHistory \in Nat,
           NEW h \in Seq(Roles \X Turns), NEW ts \in Seq(Turns), NEW t \in Turns,
           NewestTurns(h, ts)
    PROVE  /\ Remember(h, t) \in Seq(Roles \X Turns)
           /\ NewestTurns(Remember(h, t), Append(ts, t))
<1> DEFINE u == Message("user", t)
           a == Message("assistant", t)
           g == Append(Append(h, u), a)
           r == Remember(h, t)
           tt == Append(ts, t)
           kept == IF Len(ts) > MaxHistory THEN MaxHistory ELSE Len(ts)
           keptt == IF Len(tt) > MaxHistory THEN MaxHistory ELSE Len(tt)
<1>1. u \in Roles \X Turns /\ a \in Roles \X Turns
  BY DEF Message, Roles
<1> HIDE DEF u, a
<1>2. /\ g \in Seq(Roles \X Turns) /\ Len(g) = Len(h) + 2
      /\ \A i \in 1..Len(h) : g[i] = h[i]
      /\ g[Len(h) + 1] = u /\ g[Len(h) + 2] = a
  BY <1>1
<1>3. /\ Len(tt) = Len(ts) + 1
      /\ \A i \in 1..Len(ts) : tt[i] = ts[i]
      /\ tt[Len(ts) + 1] = t
  OBVIOUS
<1>4. /\ Len(h) = 2 * kept
      /\ \A i \in 1..kept : /\ h[2 * i - 1] = Message("user", ts[Len(ts) - kept + i])
                            /\ h[2 * i] = Message("assistant", ts[Len(ts) - kept + i])
  BY DEF NewestTurns
<1>5. r = LastOf(g, 2 * MaxHistory) /\ 2 * MaxHistory \in Nat
  BY DEF Remember, u, a
<1> HIDE DEF g, r, tt
<1>6. /\ r \in Seq(Roles \X Turns)
      /\ Len(r) = IF Len(g) > 2 * MaxHistory THEN 2 * MaxHistory ELSE Len(g)
      /\ \A i \in 1..Len(r) : r[i] = g[Len(g) - Len(r) + i]
  <2> DEFINE n == 2 * MaxHistory
             S == Roles \X Turns
  <2>1. n \in Nat /\ g \in Seq(S) /\ r = LastOf(g, n)
    BY <1>2, <1>5
  <2> HIDE DEF n, S
  <2>2. /\ r \in Seq(S) /\ Len(r) = IF Len(g) > n THEN n ELSE Len(g)
        /\ \A i \in 1..Len(r) : r[i] = g[Len(g) - Len(r) + i]
    BY <2>1, LastOfElements
  <2> QED
    BY <2>2 DEF n, S
<1>7. /\ Len(ts) \in Nat /\ kept \in Nat /\ keptt \in {kept, kept + 1}
      /\ kept <= Len(ts) /\ kept <= MaxHistory
      /\ keptt = IF Len(ts) + 1 > MaxHistory THEN MaxHistory ELSE Len(ts) + 1
      /\ Len(g) > 2 * MaxHistory <=> Len(ts) + 1 > MaxHistory
  BY <1>2, <1>3, <1>4
<1>8. Len(r) = 2 * keptt
  BY <1>2, <1>3, <1>4, <1>6, <1>7
<1>a. Len(g) = 2 * kept + 2
  BY <1>2, <1>4
<1>b. NewestTurns(r, tt) <=>
          /\ Len(r) = 2 * keptt
          /\ \A i \in 1..keptt :
                 /\ r[2 * i - 1] = Message("user", tt[Len(tt) - keptt + i])
                 /\ r[2 * i] = Message("assistant", tt[Len(tt) - keptt + i])
  BY DEF NewestTurns
<1> HIDE DEF kept, keptt
<1>9. ASSUME NEW i \in 1..keptt
      PROVE  /\ r[2 * i - 1] = Message("user", tt[Len(tt) - keptt + i])
             /\ r[2 * i] = Message("assistant", tt[Len(tt) - keptt + i])
  <2>1. /\ 2 * i - 1 \in 1..Len(r) /\ 2 * i \in 1..Len(r)
        /\ r[2 * i - 1] = g[Len(g) - Len(r) + (2 * i - 1)]
        /\ r[2 * i] = g[Len(g) - Len(r) + 2 * i]
    <3>1. 2 * i - 1 \in 1..Len(r) /\ 2 * i \in 1..Len(r)
      BY <1>7, <1>8
    <3>2. ASSUME NEW p \in 1..Len(r) PROVE r[p] = g[Len(g) - Len(r) + p]
      BY <1>6
    <3> QED
      BY <3>1, <3>2, Zenon
  <2>2. CASE i = keptt
    <3>1. /\ Len(g) - Len(r) + (2 * i - 1) = Len(h) + 1
          /\ Len(g) - Len(r) + 2 * i = Len(h) + 2
      BY <1>4, <1>7, <1>8, <1>a, <2>2
    <3>2. r[2 * i - 1] = u /\ r[2 * i] = a
      BY <1>2, <2>1, <3>1
    <3>3. tt[Len(tt) - keptt + i] = t
      BY <1>3, <1>7, <2>2
    <3> QED
      BY <3>2, <3>3 DEF u, a
  <2>3. CASE i # keptt
    <3> DEFINE j == kept - keptt + 1 + i
    <3>1. j \in 1..kept
      BY <1>7, <2>3
    <3>2. /\ Len(g) - Len(r) + (2 * i - 1) = 2 * j - 1
          /\ Len(g) - Len(r) + 2 * i = 2 * j
          /\ Len(ts) - kept + j = Len(tt) - keptt + i
      <4>1. Len(tt) = Len(ts) + 1 /\ i \in Nat /\ kept \in Nat /\ keptt \in Nat
        BY <1>3, <1>7
      <4>2. Len(g) - Len(r) = 2 * kept + 2 - 2 * keptt
        BY <1>8, <1>a, <4>1
      <4>3. Len(ts) - kept + j = Len(tt) - keptt + i
        BY <1>7, <4>1
      <4>4. 2 * kept + 2 - 2 * keptt + 2 * i = 2 * j
        BY <4>1
      <4>5. 2 * kept + 2 - 2 * keptt + (2 * i - 1) = 2 * j - 1
        BY <4>1
      <4> QED
        BY <4>2, <4>3, <4>4, <4>5
    <3>3. Len(tt) - keptt + i \in 1..Len(ts)
      BY <1>3, <1>7, <2>3
    <3> HIDE DEF j
    <3>4. 2 * j - 1 \in 1..Len(h) /\ 2 * j \in 1..Len(h)
      BY <1>4, <1>7, <3>1
    <3>5. r[2 * i - 1] = h[2 * j - 1] /\ r[2 * i] = h[2 * j]
      BY <1>2, <2>1, <3>2, <3>4
    <3>6. tt[Len(tt) - keptt + i] = ts[Len(ts) - kept + j]
      BY <1>3, <3>2, <3>3
    <3> QED
      BY <1>4, <3>1, <3>5, <3>6
  <2> QED
    BY <2>2, <2>3
<1>10. NewestTurns(r, tt)
  BY <1>8, <1>9, <1>b
<1> QED
  BY <1>6, <1>10 DEF r, tt

\* The key of a pair of ids is a key.
LEMMA KeysAreBuilt == \A pair \in Pairs : BuildKey(pair) \in Keys
  BY DEF Keys

\* A key begins with the first part of the user's id.
LEMMA KeyBegins ==
    ASSUME Distinct, NEW pair \in Pairs
    PROVE  Head(BuildKey(pair)) = Head(pair[1])
<1> DEFINE u == pair[1]
           b == pair[2]
<1>1. u \in Seq(Parts) /\ u # <<>> /\ b \in Seq(Parts)
  BY DEF Pairs, Distinct
<1>2. BuildKey(pair) = u \o b
  BY DEF BuildKey
<1> HIDE DEF u, b
<1>3. Len(u) \in Nat /\ Len(u) > 0 /\ Len(b) \in Nat
  BY <1>1, EmptySeq
<1>4. u \o b \in Seq(Parts) /\ (u \o b)[1] = u[1]
  BY <1>1, <1>3, ConcatProperties
<1>5. Head(u \o b) = (u \o b)[1] /\ Head(u) = u[1]
  BY <1>1, <1>4
<1> QED
  BY <1>2, <1>4, <1>5 DEF u

\* When no id of a user has a ':', two pairs of ids have different keys.
LEMMA PlainKeysDiffer ==
    ASSUME Distinct, PlainUsers, NEW x \in Pairs, NEW y \in Pairs,
           BuildKey(x) = BuildKey(y)
    PROVE  x = y
<1> DEFINE u == x[1]
           v == y[1]
           b == x[2]
           c == y[2]
<1>1. /\ x = <<u, b>> /\ y = <<v, c>>
      /\ u \in Seq(Parts) /\ v \in Seq(Parts) /\ b \in Seq(Parts) /\ c \in Seq(Parts)
      /\ Len(u) = 1 /\ Len(v) = 1
  BY DEF Pairs, Distinct, PlainUsers
<1>2. u \o b = v \o c
  BY DEF BuildKey
<1> HIDE DEF u, v, b, c
<1>a. ASSUME NEW s \in Seq(Parts), NEW t \in Seq(Parts), Len(s) = 1
      PROVE  /\ Len(s \o t) = 1 + Len(t) /\ Len(t) \in Nat
             /\ (s \o t)[1] = s[1]
             /\ \A i \in 1..Len(t) : (s \o t)[i + 1] = t[i]
  <2>1. /\ Len(t) \in Nat /\ Len(s \o t) = 1 + Len(t)
        /\ \A i \in 1..(1 + Len(t)) : (s \o t)[i] = IF i <= 1 THEN s[i] ELSE t[i - 1]
    <3>1. /\ Len(s \o t) = Len(s) + Len(t)
          /\ \A i \in 1..(Len(s) + Len(t)) : (s \o t)[i] =
                 IF i <= Len(s) THEN s[i] ELSE t[i - Len(s)]
      BY ConcatProperties
    <3> QED
      BY <1>a, <3>1
  <2>2. ASSUME NEW i \in 1..Len(t) PROVE (s \o t)[i + 1] = t[i]
    <3>1. i + 1 \in 1..(1 + Len(t)) /\ ~(i + 1 <= 1) /\ i + 1 - 1 = i
      BY <2>1
    <3> QED
      BY <2>1, <3>1
  <2>3. (s \o t)[1] = s[1]
    BY <2>1
  <2> QED
    BY <2>1, <2>2, <2>3
<1>3. /\ Len(u \o b) = 1 + Len(b) /\ Len(v \o c) = 1 + Len(c)
      /\ (u \o b)[1] = u[1] /\ (v \o c)[1] = v[1]
      /\ \A i \in 1..Len(b) : (u \o b)[i + 1] = b[i]
      /\ \A i \in 1..Len(c) : (v \o c)[i + 1] = c[i]
      /\ Len(b) \in Nat /\ Len(c) \in Nat
  BY <1>1, <1>a
<1>4. Len(b) \in Nat /\ Len(c) \in Nat /\ Len(b) = Len(c)
  BY <1>2, <1>3
<1>5. u[1] = v[1]
  BY <1>2, <1>3, <1>4
<1>6. u = v
  BY <1>1, <1>5, SeqEqual
<1>7. ASSUME NEW i \in 1..Len(b) PROVE b[i] = c[i]
  BY <1>2, <1>3, <1>4
<1>8. b = c
  BY <1>1, <1>4, <1>7, SeqEqual
<1> QED
  BY <1>1, <1>6, <1>8

\* ClearContext, ClearAllUserContext and CleanupExpired take sessions out of the map.
LEMMA RemovalsRemove ==
    /\ \A pair \in Pairs : ClearContext(pair) => \E K \in SUBSET Keys : Remove(K)
    /\ \A u \in Users : ClearAllUserContext(u) => \E K \in SUBSET Keys : Remove(K)
    /\ CleanupExpired => \E K \in SUBSET Keys : Remove(K)
<1>1. ASSUME NEW pair \in Pairs, ClearContext(pair)
      PROVE  \E K \in SUBSET Keys : Remove(K)
  BY <1>1, KeysAreBuilt DEF ClearContext
<1>2. ASSUME NEW u \in Users, ClearAllUserContext(u)
      PROVE  \E K \in SUBSET Keys : Remove(K)
  BY <1>2 DEF ClearAllUserContext
<1>3. ASSUME CleanupExpired PROVE \E K \in SUBSET Keys : Remove(K)
  BY <1>3 DEF CleanupExpired
<1> QED
  BY <1>1, <1>2, <1>3

-----------------------------------------------------------------------------
\* GetContext: the map has under a key, and the callers hold for a user and a backend,
\* only sessions that were made for ids with that key; and the state is well typed.
THEOREM SessionsFollowKeys ==
    ASSUME Distinct PROVE Spec => [](TypeOK /\ SessionsAreByKey)
<1> DEFINE Inv == TypeOK /\ SessionsAreByKey
<1>d. None \notin Objects /\ None \notin Pairs /\ MaxHistory \in Nat
  BY DEF Distinct
<1> USE <1>d
<1>1. Init => Inv
  BY DEF Init, TypeOK, SessionsAreByKey, States, Idle
<1>2. Inv /\ [Next]_vars => Inv'
  <2> SUFFICES ASSUME Inv, [Next]_vars PROVE Inv'
    OBVIOUS
  <2> USE KeysAreBuilt
  <2>a. ASSUME NEW p \in Callers, NEW pair \in Pairs, NEW o \in Objects,
               Hold(p, pair, o),
               owner'[o] # None, BuildKey(owner'[o]) = BuildKey(pair),
               \A q \in Callers : caller[q].at = "held" =>
                   /\ owner'[caller[q].session] # None
                   /\ BuildKey(owner'[caller[q].session]) = BuildKey(caller[q].for)
        PROVE  /\ caller' \in [Callers -> States]
               /\ \A q \in Callers : caller'[q].at = "held" =>
                      /\ owner'[caller'[q].session] # None
                      /\ BuildKey(owner'[caller'[q].session]) = BuildKey(caller'[q].for)
    <3>1. [at |-> "held", for |-> pair, session |-> o] \in States
      BY DEF States
    <3>2. caller' \in [Callers -> States]
      BY <2>a, <3>1 DEF Hold, TypeOK
    <3>3. \A q \in Callers : caller'[q] =
              IF q = p THEN [at |-> "held", for |-> pair, session |-> o] ELSE caller[q]
      BY <2>a DEF Hold, TypeOK
    <3> QED
      BY <2>a, <3>2, <3>3
  <2>b. ASSUME NEW p \in Callers, NEW c \in States, c.at # "held",
               caller' = [caller EXCEPT ![p] = c], owner' = owner
        PROVE  /\ caller' \in [Callers -> States]
               /\ \A q \in Callers : caller'[q].at = "held" =>
                      /\ owner'[caller'[q].session] # None
                      /\ BuildKey(owner'[caller'[q].session]) = BuildKey(caller'[q].for)
    BY <2>b DEF TypeOK, SessionsAreByKey, MadeUnder
  <2>c. Idle \in States /\ Idle.at # "held"
    BY DEF States, Idle
  <2>1. ASSUME NEW p \in Callers, NEW pair \in Pairs, Look(p, pair) PROVE Inv'
    <3> DEFINE k == BuildKey(pair)
    <3>k. k \in Keys
      OBVIOUS
    <3>1. CASE sessions[k] # None
      <4>1. /\ sessions[k] \in Objects /\ owner' = owner
            /\ owner'[sessions[k]] # None /\ BuildKey(owner'[sessions[k]]) = k
        BY <2>1, <3>k, <3>1 DEF Look, TypeOK, SessionsAreByKey, MadeUnder
      <4>2. Hold(p, pair, sessions[k])
        BY <2>1, <3>1 DEF Look
      <4>3. \A q \in Callers : caller[q].at = "held" =>
                /\ owner'[caller[q].session] # None
                /\ BuildKey(owner'[caller[q].session]) = BuildKey(caller[q].for)
        BY <4>1 DEF SessionsAreByKey, MadeUnder
      <4> QED
        BY <2>1, <2>a, <4>1, <4>2, <4>3 DEF Look, TypeOK, SessionsAreByKey, MadeUnder
    <3>2. CASE sessions[k] = None
      <4> DEFINE c == [at |-> "create", for |-> pair]
      <4>1. c \in States /\ c.at # "held"
        BY DEF States
      <4>2. caller' = [caller EXCEPT ![p] = c] /\ owner' = owner
        BY <2>1, <3>2 DEF Look
      <4> HIDE DEF c
      <4> QED
        BY <2>1, <2>b, <4>1, <4>2 DEF Look, TypeOK, SessionsAreByKey, MadeUnder
    <3> QED
      BY <3>1, <3>2
  <2>2. ASSUME NEW p \in Callers, Create(p) PROVE Inv'
    <3> DEFINE pair == caller[p].for
               k == BuildKey(pair)
    <3>1. pair \in Pairs
      BY <2>2 DEF Create, TypeOK, States, Idle
    <3>k. k \in Keys
      BY <3>1
    <3>h. \A q \in Callers : caller[q].at = "held" =>
              /\ caller[q].session \in Objects /\ owner[caller[q].session] # None
              /\ BuildKey(owner[caller[q].session]) = BuildKey(caller[q].for)
      <4>1. \A q \in Callers : caller[q].at = "held" => caller[q].session \in Objects
        BY DEF TypeOK, States, Idle
      <4>2. \A q \in Callers : caller[q].at = "held" =>
                /\ owner[caller[q].session] # None
                /\ BuildKey(owner[caller[q].session]) = BuildKey(caller[q].for)
        BY DEF SessionsAreByKey, MadeUnder
      <4> QED
        BY <4>1, <4>2
    <3>u. UNCHANGED <<history, old, added, removed>>
      BY <2>2 DEF Create
    <3>2. CASE sessions[k] # None
      <4>1. Hold(p, pair, sessions[k]) /\ sessions' = sessions /\ owner' = owner
        BY <2>2, <3>2 DEF Create
      <4>2. sessions[k] \in Objects /\ owner[sessions[k]] # None
            /\ BuildKey(owner[sessions[k]]) = k
        BY <3>k, <3>2 DEF TypeOK, SessionsAreByKey, MadeUnder
      <4> HIDE DEF pair
      <4> QED
        BY <2>a, <3>1, <3>h, <3>u, <4>1, <4>2 DEF TypeOK, SessionsAreByKey, MadeUnder
    <3>3. CASE sessions[k] = None
      <4>1. PICK o \in Objects : Make(pair, o) /\ Hold(p, pair, o)
        BY <2>2, <3>3 DEF Create
      <4>2. /\ owner[o] = None /\ owner' = [owner EXCEPT ![o] = pair]
            /\ sessions' = [sessions EXCEPT ![k] = o]
        BY <4>1 DEF Make
      <4> HIDE DEF pair, k
      <4>3. /\ owner'[o] = pair /\ pair # None
            /\ \A x \in Objects : owner[x] # None => owner'[x] = owner[x]
        BY <3>1, <4>2 DEF TypeOK
      <4>4. \A q \in Callers : caller[q].at = "held" =>
                /\ owner'[caller[q].session] # None
                /\ BuildKey(owner'[caller[q].session]) = BuildKey(caller[q].for)
        BY <3>h, <4>3
      <4>5. \A j \in Keys : sessions'[j] # None =>
                owner'[sessions'[j]] # None /\ BuildKey(owner'[sessions'[j]]) = j
        <5> SUFFICES ASSUME NEW j \in Keys, sessions'[j] # None
                     PROVE  owner'[sessions'[j]] # None /\ BuildKey(owner'[sessions'[j]]) = j
          OBVIOUS
        <5>1. CASE j = k
          BY <3>k, <4>2, <4>3, <5>1 DEF TypeOK, k
        <5>2. CASE j # k
          <6>1. sessions'[j] = sessions[j] /\ sessions[j] \in Objects
            BY <4>2, <5>2 DEF TypeOK
          <6>2. owner[sessions[j]] # None /\ BuildKey(owner[sessions[j]]) = j
            BY <6>1 DEF SessionsAreByKey, MadeUnder
          <6> QED
            BY <4>3, <6>1, <6>2
        <5> QED
          BY <5>1, <5>2
      <4>6. /\ sessions' \in [Keys -> Objects \cup {None}]
            /\ owner' \in [Objects -> Pairs \cup {None}]
        BY <3>1, <3>k, <4>2 DEF TypeOK
      <4>7. /\ caller' \in [Callers -> States]
            /\ \A q \in Callers : caller'[q].at = "held" =>
                   /\ owner'[caller'[q].session] # None
                   /\ BuildKey(owner'[caller'[q].session]) = BuildKey(caller'[q].for)
        BY <2>a, <3>1, <4>1, <4>3, <4>4
      <4> QED
        BY <3>u, <4>5, <4>6, <4>7 DEF TypeOK, SessionsAreByKey, MadeUnder
    <3> QED
      BY <3>2, <3>3
  <2>3. ASSUME NEW p \in Callers, NEW t \in Turns, AddTurn(p, t) PROVE Inv'
    <3> DEFINE o == caller[p].session
    <3>1. o \in Objects
      BY <2>3 DEF AddTurn, TypeOK, States, Idle
    <3>2. Remember(history[o], t) \in Seq(Roles \X Turns)
      <4>1. /\ Append(Append(history[o], Message("user", t)), Message("assistant", t))
                   \in Seq(Roles \X Turns)
            /\ 2 * MaxHistory \in Nat
        BY <3>1 DEF TypeOK, Message, Roles
      <4> QED
        BY <4>1, LastOfElements DEF Remember
    <3>3. history' \in [Objects -> Seq(Roles \X Turns)] /\ added' \in [Objects -> Seq(Turns)]
      BY <2>3, <3>1, <3>2 DEF AddTurn, TypeOK
    <3> QED
      BY <2>3, <2>b, <2>c, <3>3 DEF AddTurn, TypeOK, SessionsAreByKey, MadeUnder
  <2>4. ASSUME NEW p \in Callers, Leave(p) PROVE Inv'
    BY <2>4, <2>b, <2>c DEF Leave, TypeOK, SessionsAreByKey, MadeUnder
  <2>5. ASSUME NEW K \in SUBSET Keys, Remove(K) PROVE Inv'
    BY <2>5 DEF Remove, TypeOK, SessionsAreByKey, MadeUnder
  <2>6. ASSUME NEW o \in Objects, Clear(o) PROVE Inv'
    <3>1. history' \in [Objects -> Seq(Roles \X Turns)] /\ added' \in [Objects -> Seq(Turns)]
      BY <2>6 DEF Clear, TypeOK
    <3> QED
      BY <2>6, <3>1 DEF Clear, TypeOK, SessionsAreByKey, MadeUnder
  <2>7. ASSUME NEW o \in Objects, GrowsOld(o) PROVE Inv'
    BY <2>7 DEF GrowsOld, TypeOK, SessionsAreByKey, MadeUnder
  <2>8. CASE UNCHANGED vars
    BY <2>8 DEF vars, TypeOK, SessionsAreByKey, MadeUnder
  <2>9. CASE \E K \in SUBSET Keys : Remove(K)
    BY <2>5, <2>9
  <2> QED
    BY <2>1, <2>2, <2>3, <2>4, <2>6, <2>7, <2>8, <2>9, RemovalsRemove DEF Next
<1> QED
  BY <1>1, <1>2, PTL DEF Spec

-----------------------------------------------------------------------------
\* GetContext: a caller holds a session that was made for its very user and backend,
\* if no id of a user has a ':' in it.
THEOREM SessionsStayOwn ==
    ASSUME Distinct, PlainUsers PROVE Spec => []SessionsAreOwn
<1>1. TypeOK /\ SessionsAreByKey => SessionsAreOwn
  <2> SUFFICES ASSUME TypeOK, SessionsAreByKey,
                      NEW p \in Callers, caller[p].at = "held"
               PROVE  owner[caller[p].session] = caller[p].for
    BY DEF SessionsAreOwn
  <2>1. caller[p].session \in Objects /\ caller[p].for \in Pairs
    BY DEF TypeOK, States, Idle
  <2>2. /\ owner[caller[p].session] # None
        /\ BuildKey(owner[caller[p].session]) = BuildKey(caller[p].for)
    BY DEF SessionsAreByKey, MadeUnder
  <2>3. owner[caller[p].session] \in Pairs
    BY <2>1, <2>2 DEF TypeOK
  <2> QED
    BY <2>1, <2>2, <2>3, PlainKeysDiffer
<1> QED
  BY <1>1, SessionsFollowKeys, PTL

\* ClearAllUserContext takes out every session of the user and none of another's, if
\* no id of a user has a ':' in it.
THEOREM ClearingForgetsTheUser ==
    ASSUME Distinct, PlainUsers PROVE Spec => ClearsUserOnly
<1> DEFINE Clears(u) ==
        /\ \A k \in Keys : sessions'[k] # None => owner'[sessions'[k]][1] # u
        /\ \A k \in Keys : sessions[k] # None /\ owner[sessions[k]][1] # u
                              => sessions'[k] = sessions[k]
<1>1. ASSUME TypeOK, SessionsAreByKey, NEW u \in Users, ClearAllUserContext(u)
      PROVE  Clears(u)
  <2>1. /\ owner' = owner
        /\ \A k \in Keys : sessions'[k] = IF <<Head(k)>> = u THEN None ELSE sessions[k]
    BY <1>1 DEF ClearAllUserContext, Remove
  <2>2. ASSUME NEW k \in Keys, sessions[k] # None
        PROVE  (<<Head(k)>> = u) <=> (owner[sessions[k]][1] = u)
    <3> DEFINE pair == owner[sessions[k]]
    <3>1. sessions[k] \in Objects /\ pair # None /\ BuildKey(pair) = k
      BY <1>1, <2>2 DEF TypeOK, SessionsAreByKey, MadeUnder
    <3>2. pair \in Pairs
      BY <1>1, <3>1 DEF TypeOK
    <3> HIDE DEF pair
    <3>3. Head(k) = Head(pair[1])
      BY <3>1, <3>2, KeyBegins
    <3>4. pair[1] \in Seq(Parts) /\ Len(pair[1]) = 1
      BY <3>2 DEF Pairs, Distinct, PlainUsers
    <3>5. pair[1] = <<Head(pair[1])>>
      BY <3>4
    <3> QED
      BY <3>3, <3>5 DEF pair
  <2> QED
    BY <2>1, <2>2
<1>2. TypeOK /\ SessionsAreByKey /\ [Next]_vars
          => [\A u \in Users : ClearAllUserContext(u) =>
                 /\ ForgetsUser(u)'
                 /\ \A k \in Keys :
                       sessions[k] # None /\ owner[sessions[k]][1] # u
                           => sessions'[k] = sessions[k]]_vars
  BY <1>1 DEF ForgetsUser
<1> QED
  BY <1>2, SessionsFollowKeys, PTL DEF Spec, ClearsUserOnly

-----------------------------------------------------------------------------
\* What was taken out was made before.
RemovedWereMade == \A o \in removed : owner[o] # None

\* A caller holds the session of the map unless it was taken out since, and what was
\* taken out stays out.
THEOREM HeldSessionsStayInMap ==
    ASSUME Distinct PROVE Spec => [](HeldUnlessRemoved /\ RemovedStaysOut)
<1> DEFINE Inv == HeldUnlessRemoved /\ RemovedStaysOut /\ RemovedWereMade
<1>d. None \notin Objects /\ None \notin Pairs /\ MaxHistory \in Nat
  BY DEF Distinct
<1> USE <1>d
<1>1. Init => Inv
  BY DEF Init, HeldUnlessRemoved, RemovedStaysOut, RemovedWereMade, Idle
<1>2. TypeOK /\ TypeOK' /\ SessionsAreByKey /\ Inv /\ [Next]_vars => Inv'
  <2> SUFFICES ASSUME TypeOK, TypeOK', SessionsAreByKey, Inv, [Next]_vars PROVE Inv'
    OBVIOUS
  <2> USE KeysAreBuilt DEF TypeOK, HeldUnlessRemoved, RemovedStaysOut, RemovedWereMade
  <2>a. ASSUME NEW p \in Callers, NEW c, c.at # "held",
               caller' = [caller EXCEPT ![p] = c],
               UNCHANGED <<sessions, owner, removed>>
        PROVE  Inv'
    BY <2>a
  <2>b. ASSUME NEW p \in Callers, NEW pair \in Pairs, NEW o, Hold(p, pair, o),
               sessions'[BuildKey(pair)] = o, removed' = removed,
               \A j \in Keys : sessions'[j] = sessions[j] \/ sessions[j] = None
        PROVE  HeldUnlessRemoved'
    <3> SUFFICES ASSUME NEW q \in Callers, caller'[q].at = "held"
                 PROVE  \/ sessions'[BuildKey(caller'[q].for)] = caller'[q].session
                        \/ caller'[q].session \in removed'
      OBVIOUS
    <3>1. CASE q = p
      BY <2>b, <3>1 DEF Hold
    <3>2. CASE q # p
      <4>1. caller'[q] = caller[q]
        BY <2>b, <3>2 DEF Hold
      <4>2. caller[q].for \in Pairs /\ caller[q].session \in Objects
        BY <4>1 DEF States, Idle
      <4> QED
        BY <2>b, <4>1, <4>2
    <3> QED
      BY <3>1, <3>2
  <2>c. Idle.at # "held"
    BY DEF Idle
  <2>1. ASSUME NEW p \in Callers, NEW pair \in Pairs, Look(p, pair) PROVE Inv'
    <3>1. CASE sessions[BuildKey(pair)] # None
      BY <2>1, <2>b, <3>1 DEF Look
    <3>2. CASE sessions[BuildKey(pair)] = None
      <4> DEFINE c == [at |-> "create", for |-> pair]
      <4>1. c.at # "held" /\ caller' = [caller EXCEPT ![p] = c]
        BY <2>1, <3>2 DEF Look
      <4> HIDE DEF c
      <4> QED
        BY <2>1, <2>a, <4>1 DEF Look
    <3> QED
      BY <3>1, <3>2
  <2>2. ASSUME NEW p \in Callers, Create(p) PROVE Inv'
    <3> DEFINE pair == caller[p].for
               k == BuildKey(pair)
    <3>1. pair \in Pairs /\ k \in Keys
      BY <2>2 DEF Create, States, Idle
    <3>2. CASE sessions[k] # None
      <4>1. Hold(p, pair, sessions[k]) /\ UNCHANGED <<sessions, owner, removed>>
        BY <2>2, <3>2 DEF Create
      <4> HIDE DEF pair
      <4> QED
        BY <2>b, <3>1, <4>1
    <3>3. CASE sessions[k] = None
      <4>1. PICK o \in Objects : Make(pair, o) /\ Hold(p, pair, o)
        BY <2>2, <3>3 DEF Create
      <4>2. /\ owner[o] = None /\ owner' = [owner EXCEPT ![o] = pair]
            /\ sessions' = [sessions EXCEPT ![k] = o] /\ removed' = removed
        BY <2>2, <4>1 DEF Create, Make
      <4> HIDE DEF pair
      <4>3. HeldUnlessRemoved'
        BY <2>b, <3>1, <3>3, <4>1, <4>2
      <4> HIDE DEF k
      <4>4. RemovedStaysOut' /\ RemovedWereMade'
        BY <3>1, <4>2
      <4> QED
        BY <4>3, <4>4
    <3> QED
      BY <3>2, <3>3
  <2>3. ASSUME NEW p \in Callers, NEW t \in Turns, AddTurn(p, t) PROVE Inv'
    BY <2>3, <2>a, <2>c DEF AddTurn
  <2>4. ASSUME NEW p \in Callers, Leave(p) PROVE Inv'
    BY <2>4, <2>a, <2>c DEF Leave
  <2>5. ASSUME NEW K \in SUBSET Keys, Remove(K) PROVE Inv'
    <3>1. /\ sessions' = [k \in Keys |-> IF k \in K THEN None ELSE sessions[k]]
          /\ removed' = removed \cup ({sessions[k] : k \in K} \ {None})
          /\ owner' = owner /\ caller' = caller
      BY <2>5 DEF Remove
    <3>2. HeldUnlessRemoved'
      <4> SUFFICES ASSUME NEW q \in Callers, caller[q].at = "held"
                   PROVE  \/ sessions'[BuildKey(caller[q].for)] = caller[q].session
                          \/ caller[q].session \in removed'
        BY <3>1
      <4>1. caller[q].for \in Pairs /\ caller[q].session \in Objects
        BY DEF States, Idle
      <4> QED
        BY <3>1, <4>1
    <3>3. RemovedStaysOut'
      BY <3>1 DEF SessionsAreByKey, MadeUnder
    <3>4. RemovedWereMade'
      BY <3>1 DEF SessionsAreByKey, MadeUnder
    <3> QED
      BY <3>2, <3>3, <3>4
  <2>6. ASSUME NEW o \in Objects, Clear(o) PROVE Inv'
    BY <2>6 DEF Clear
  <2>7. ASSUME NEW o \in Objects, GrowsOld(o) PROVE Inv'
    BY <2>7 DEF GrowsOld
  <2>8. CASE UNCHANGED vars
    BY <2>8 DEF vars
  <2>9. CASE \E K \in SUBSET Keys : Remove(K)
    BY <2>5, <2>9
  <2> QED
    BY <2>1, <2>2, <2>3, <2>4, <2>6, <2>7, <2>8, <2>9, RemovalsRemove DEF Next
<1> QED
  BY <1>1, <1>2, SessionsFollowKeys, PTL DEF Spec

-----------------------------------------------------------------------------
\* AddTurn: a history is always the newest turns added to it, whole and in order.
THEOREM HistoriesKeepNewest ==
    ASSUME Distinct PROVE Spec => []HistoryIsNewest
<1>d. None \notin Objects /\ None \notin Pairs /\ MaxHistory \in Nat
  BY DEF Distinct
<1> USE <1>d
<1>1. Init => HistoryIsNewest
  BY DEF Init, HistoryIsNewest, NewestTurns
<1>2. TypeOK /\ HistoryIsNewest /\ [Next]_vars => HistoryIsNewest'
  <2> SUFFICES ASSUME TypeOK, HistoryIsNewest, [Next]_vars PROVE HistoryIsNewest'
    OBVIOUS
  <2>1. ASSUME NEW p \in Callers, NEW t \in Turns, AddTurn(p, t)
        PROVE  HistoryIsNewest'
    <3> DEFINE o == caller[p].session
    <3>1. /\ o \in Objects
          /\ history' = [history EXCEPT ![o] = Remember(history[o], t)]
          /\ added' = [added EXCEPT ![o] = Append(added[o], t)]
      BY <2>1 DEF AddTurn, TypeOK, States, Idle
    <3> HIDE DEF o
    <3>2. NewestTurns(Remember(history[o], t), Append(added[o], t))
      BY <3>1, RememberKeepsNewest DEF TypeOK, HistoryIsNewest
    <3>3. ASSUME NEW x \in Objects PROVE NewestTurns(history'[x], added'[x])
      <4>1. CASE x = o
        BY <3>1, <3>2, <4>1 DEF TypeOK
      <4>2. CASE x # o
        BY <3>1, <4>2 DEF TypeOK, HistoryIsNewest
      <4> QED
        BY <4>1, <4>2
    <3> QED
      BY <3>3 DEF HistoryIsNewest, NewestTurns
  <2>2. ASSUME NEW o \in Objects, Clear(o) PROVE HistoryIsNewest'
    <3>1. NewestTurns(<<>>, <<>>)
      BY DEF NewestTurns
    <3>2. ASSUME NEW x \in Objects PROVE NewestTurns(history'[x], added'[x])
      <4>1. CASE x = o
        BY <2>2, <3>1, <4>1 DEF Clear, TypeOK
      <4>2. CASE x # o
        BY <2>2, <4>2 DEF Clear, TypeOK, HistoryIsNewest
      <4> QED
        BY <4>1, <4>2
    <3> QED
      BY <3>2 DEF HistoryIsNewest, NewestTurns
  <2>3. CASE UNCHANGED <<history, added>>
    BY <2>3 DEF HistoryIsNewest, NewestTurns
  <2> QED
    BY <2>1, <2>2, <2>3
       DEF Next, vars, Look, Create, Leave, ClearContext, ClearAllUserContext,
           CleanupExpired, Remove, GrowsOld
<1> QED
  BY <1>1, <1>2, SessionsFollowKeys, PTL DEF Spec

-----------------------------------------------------------------------------
(* Limits                                                                      *)

\* A bucket that is swept would be full by then
Limits ==
    /\ Cost \in Nat /\ Burst \in Nat /\ MaxIdle \in Nat /\ Burst <= MaxIdle
    /\ Window \in Nat /\ PerWindow \in Nat \ {0}
    /\ Pause \in Nat /\ MaxWrong \in Nat \ {0}

\* The moments that are remembered are past.
MomentsArePast ==
    \A k \in Clients : refilled[k] <= now /\ mark[k] <= now /\ blockedAt[k] <= now

-----------------------------------------------------------------------------
\* Every reachable state is well typed, and remembers moments that are past.
THEOREM LimitsTypeCorrect ==
    ASSUME Limits PROVE LimitsSpec => [](LimitsTypeOK /\ MomentsArePast)
<1> DEFINE Inv == LimitsTypeOK /\ MomentsArePast
<1> USE DEF Limits
<1>1. LimitsInit => Inv
  BY DEF LimitsInit, LimitsTypeOK, MomentsArePast, Zero
<1>2. Inv /\ [LimitsNext]_limitVars => Inv'
  <2> SUFFICES ASSUME Inv, [LimitsNext]_limitVars PROVE Inv'
    OBVIOUS
  <2> USE DEF LimitsTypeOK, MomentsArePast, bucket, window, login
  <2>1. ASSUME NEW k \in Clients, Allow(k) PROVE Inv'
    <3>1. Available(k) \in Nat
      BY DEF Available
    <3>2. tokens' \in [Clients -> Nat] /\ spent' \in [Clients -> Nat]
      <4>1. CASE Available(k) >= Cost
        BY <2>1, <3>1, <4>1 DEF Allow
      <4>2. CASE ~(Available(k) >= Cost)
        BY <2>1, <3>1, <4>2 DEF Allow
      <4> QED
        BY <4>1, <4>2
    <3> QED
      BY <2>1, <3>2 DEF Allow
  <2>2. ASSUME NEW k \in Clients, Notify(k) PROVE Inv'
    BY <2>2 DEF Notify
  <2>3. ASSUME NEW k \in Clients, LoginBad(k) PROVE Inv'
    BY <2>3 DEF LoginBad, Counted
  <2>4. ASSUME NEW k \in Clients, LoginWrong(k) PROVE Inv'
    BY <2>4 DEF LoginWrong, Counted
  <2>5. ASSUME NEW k \in Clients, LoginRight(k) PROVE Inv'
    BY <2>5 DEF LoginRight
  <2>6. ASSUME NEW k \in Clients, Mark(k) PROVE Inv'
    BY <2>6 DEF Mark
  <2>7. CASE Cleanup
    BY <2>7 DEF Cleanup
  <2>8. CASE Tick
    BY <2>8 DEF Tick
  <2>9. CASE UNCHANGED limitVars
    BY <2>9 DEF limitVars
  <2> QED
    BY <2>1, <2>2, <2>3, <2>4, <2>5, <2>6, <2>7, <2>8, <2>9 DEF LimitsNext
<1> QED
  BY <1>1, <1>2, PTL DEF LimitsSpec

-----------------------------------------------------------------------------
\* RateLimiter: what a key has got and what it could get now never exceed a full
\* bucket and what was refilled.
BucketAccount ==
    \A k \in Clients : spent[k] + Available(k) <= Burst + (now - mark[k])

\* The limit holds although a swept bucket comes back full.
THEOREM BucketsLimit == ASSUME Limits PROVE LimitsSpec => []BucketLimits
<1> USE DEF Limits
<1>1. LimitsInit => BucketAccount
  <2> SUFFICES ASSUME LimitsInit, NEW k \in Clients
               PROVE  spent[k] + Available(k) <= Burst + (now - mark[k])
    BY DEF BucketAccount
  <2>1. spent[k] = 0 /\ mark[k] = 0 /\ now = 0 /\ Available(k) = Burst
    BY DEF LimitsInit, Available, Zero
  <2> QED
    BY <2>1
<1>2. LimitsTypeOK /\ MomentsArePast /\ BucketAccount /\ [LimitsNext]_limitVars
          => BucketAccount'
  <2> SUFFICES ASSUME LimitsTypeOK, MomentsArePast, BucketAccount,
                      [LimitsNext]_limitVars
               PROVE  BucketAccount'
    OBVIOUS
  <2> USE DEF LimitsTypeOK, MomentsArePast, bucket, window, login
  <2>a. ASSUME UNCHANGED <<now, bucket, mark, spent>> PROVE BucketAccount'
    BY <2>a DEF BucketAccount, Available
  <2>b. \A k \in Clients : Available(k) \in Nat /\ Available(k) <= Burst
    BY DEF Available
  <2>1. ASSUME NEW k \in Clients, Allow(k) PROVE BucketAccount'
    <3>1. /\ now' = now /\ mark' = mark /\ known' = known \cup {k}
          /\ refilled' = [refilled EXCEPT ![k] = now]
      BY <2>1 DEF Allow
    <3>2. ASSUME NEW j \in Clients, j # k
          PROVE  Available(j)' = Available(j) /\ spent'[j] = spent[j]
      <4>1. tokens'[j] = tokens[j] /\ spent'[j] = spent[j]
        BY <2>1, <3>2 DEF Allow
      <4> QED
        BY <3>1, <3>2, <4>1 DEF Available
    <3>3. spent'[k] + Available(k)' <= spent[k] + Available(k)
      <4>1. CASE Available(k) >= Cost
        <5>1. tokens'[k] = Available(k) - Cost /\ spent'[k] = spent[k] + Cost
          BY <2>1, <4>1 DEF Allow
        <5>2. Available(k)' = tokens'[k]
          BY <2>b, <3>1, <4>1, <5>1 DEF Available
        <5> QED
          BY <2>b, <4>1, <5>1, <5>2
      <4>2. CASE ~(Available(k) >= Cost)
        <5>1. tokens'[k] = Available(k) /\ spent'[k] = spent[k]
          BY <2>1, <4>2 DEF Allow
        <5>2. Available(k)' = tokens'[k]
          BY <2>b, <3>1, <5>1 DEF Available
        <5> QED
          BY <2>b, <5>1, <5>2
      <4> QED
        BY <4>1, <4>2
    <3>4. Available(k)' \in Nat /\ spent'[k] \in Nat
      <4>1. CASE Available(k) >= Cost
        BY <2>b, <2>1, <3>1, <4>1 DEF Allow, Available
      <4>2. CASE ~(Available(k) >= Cost)
        BY <2>b, <2>1, <3>1, <4>2 DEF Allow, Available
      <4> QED
        BY <4>1, <4>2
    <3>5. ASSUME NEW j \in Clients
          PROVE  spent'[j] + Available(j)' <= Burst + (now' - mark'[j])
      <4>1. CASE j = k
        BY <2>b, <3>1, <3>3, <3>4, <4>1 DEF BucketAccount
      <4>2. CASE j # k
        BY <3>1, <3>2, <4>2 DEF BucketAccount
      <4> QED
        BY <4>1, <4>2
    <3> QED
      BY <3>5 DEF BucketAccount
  <2>2. ASSUME NEW k \in Clients, Mark(k) PROVE BucketAccount'
    <3>1. ASSUME NEW j \in Clients
          PROVE  spent'[j] + Available(j)' <= Burst + (now' - mark'[j])
      <4>1. Available(j)' = Available(j) /\ now' = now
        BY <2>2 DEF Mark, Available
      <4>2. CASE j = k
        BY <2>b, <2>2, <4>1, <4>2 DEF Mark
      <4>3. CASE j # k
        BY <2>2, <4>1, <4>3 DEF Mark, BucketAccount
      <4> QED
        BY <4>2, <4>3
    <3> QED
      BY <3>1 DEF BucketAccount
  <2>3. CASE Cleanup
    <3>1. ASSUME NEW j \in Clients PROVE Available(j)' = Available(j)
      BY <2>3 DEF Cleanup, Available
    <3> QED
      BY <2>3, <3>1 DEF Cleanup, BucketAccount
  <2>4. CASE Tick
    <3>1. ASSUME NEW j \in Clients PROVE Available(j)' <= Available(j) + 1 /\ Available(j)' \in Nat
      BY <2>4 DEF Tick, Available
    <3>2. ASSUME NEW j \in Clients
          PROVE  spent'[j] + Available(j)' <= Burst + (now' - mark'[j])
      BY <2>b, <2>4, <3>1 DEF Tick, BucketAccount
    <3> QED
      BY <3>2 DEF BucketAccount
  <2>5. ASSUME NEW k \in Clients,
               Notify(k) \/ LoginBad(k) \/ LoginWrong(k) \/ LoginRight(k)
        PROVE  BucketAccount'
    BY <2>5, <2>a DEF Notify, LoginBad, LoginWrong, LoginRight
  <2>6. CASE UNCHANGED limitVars
    BY <2>6, <2>a DEF limitVars
  <2> QED
    BY <2>1, <2>2, <2>3, <2>4, <2>5, <2>6 DEF LimitsNext
<1>3. LimitsTypeOK /\ MomentsArePast /\ BucketAccount => BucketLimits
  <2> SUFFICES ASSUME LimitsTypeOK, MomentsArePast, BucketAccount, NEW k \in Clients
               PROVE  spent[k] <= Burst + (now - mark[k])
    BY DEF BucketLimits
  <2>1. Available(k) \in Nat /\ spent[k] + Available(k) <= Burst + (now - mark[k])
    BY DEF LimitsTypeOK, MomentsArePast, BucketAccount, Available
  <2> QED
    BY <2>1 DEF LimitsTypeOK
<1> QED
  BY <1>1, <1>2, <1>3, LimitsTypeCorrect, PTL DEF LimitsSpec

-----------------------------------------------------------------------------
\* checkRateLimit: while the moment one counts from is no further back than a window,
\* the open window gave what it counts, and at most one window before it gave more; a
\* window that was over by then gave nothing.
WindowAccount ==
    \A k \in Clients :
        /\ k \notin opened => notified[k] = 0
        /\ k \in opened /\ reset[k] < mark[k] => notified[k] = 0
        /\ (k \in opened /\ now - mark[k] <= Window) =>
               notified[k] <= (IF counts[k] <= PerWindow THEN counts[k] ELSE PerWindow)
                              + (IF reset[k] > mark[k] + Window THEN PerWindow ELSE 0)

\* The limit holds however the windows lie.
THEOREM WindowsLimit == ASSUME Limits PROVE LimitsSpec => []WindowLimits
<1> USE DEF Limits
<1>1. LimitsInit => WindowAccount
  BY DEF LimitsInit, WindowAccount, Zero
<1>2. LimitsTypeOK /\ MomentsArePast /\ WindowAccount /\ [LimitsNext]_limitVars
          => WindowAccount'
  <2> SUFFICES ASSUME LimitsTypeOK, MomentsArePast, WindowAccount,
                      [LimitsNext]_limitVars
               PROVE  WindowAccount'
    OBVIOUS
  <2> USE DEF LimitsTypeOK, MomentsArePast, bucket, window, login
  <2>a. ASSUME UNCHANGED <<now, window, mark, notified>> PROVE WindowAccount'
    BY <2>a DEF WindowAccount
  <2>1. ASSUME NEW k \in Clients, Notify(k) PROVE WindowAccount'
    <3> DEFINE opens == k \notin opened \/ now > reset[k]
               count == (IF opens THEN 0 ELSE counts[k]) + 1
    <3>1. /\ opened' = opened \cup {k} /\ UNCHANGED <<now, mark>>
          /\ counts' = [counts EXCEPT ![k] = count]
          /\ reset' = IF opens THEN [reset EXCEPT ![k] = now + Window] ELSE reset
          /\ notified' = IF count <= PerWindow THEN [notified EXCEPT ![k] = notified[k] + 1]
                         ELSE notified
      BY <2>1 DEF Notify
    <3>2. \A j \in Clients \ {k} : /\ counts'[j] = counts[j] /\ reset'[j] = reset[j]
                                   /\ notified'[j] = notified[j]
      BY <3>1
    <3>3. count \in Nat \ {0} /\ counts'[k] = count
      BY <3>1
    <3>4. /\ reset'[k] = IF opens THEN now + Window ELSE reset[k]
          /\ notified'[k] = IF count <= PerWindow THEN notified[k] + 1 ELSE notified[k]
      BY <3>1
    <3>5. ASSUME now - mark[k] <= Window
          PROVE  notified'[k] <=
                     (IF count <= PerWindow THEN count ELSE PerWindow)
                     + (IF reset'[k] > mark[k] + Window THEN PerWindow ELSE 0)
      <4>1. CASE k \notin opened
        <5>1. notified[k] = 0
          BY <4>1 DEF WindowAccount
        <5> QED
          BY <3>3, <3>4, <5>1
      <4>2. CASE k \in opened /\ now > reset[k]
        <5>1. reset[k] < now /\ mark[k] <= now /\ now <= mark[k] + Window
          BY <3>5, <4>2
        <5>2. ~(reset[k] > mark[k] + Window)
          BY <5>1
        <5>3. notified[k] <= PerWindow
          BY <3>5, <4>2, <5>2 DEF WindowAccount
        <5>4. count = 1 /\ reset'[k] = now + Window /\ notified'[k] = notified[k] + 1
          BY <3>4, <4>2
        <5>5. CASE now = mark[k]
          <6>1. notified[k] = 0
            BY <4>2, <5>1, <5>5 DEF WindowAccount
          <6> QED
            BY <5>4, <6>1
        <5>6. CASE now # mark[k]
          <6>1. reset'[k] > mark[k] + Window
            BY <5>1, <5>4, <5>6
          <6> QED
            BY <5>3, <5>4, <6>1
        <5> QED
          BY <5>5, <5>6
      <4>3. CASE k \in opened /\ ~(now > reset[k])
        BY <3>3, <3>4, <3>5, <4>3 DEF WindowAccount
      <4> QED
        BY <4>1, <4>2, <4>3
    <3>6. reset'[k] >= mark[k]
      BY <3>4
    <3> HIDE DEF opens, count
    <3> QED
      BY <3>1, <3>2, <3>3, <3>5, <3>6 DEF WindowAccount
  <2>2. ASSUME NEW k \in Clients, Mark(k) PROVE WindowAccount'
    BY <2>2 DEF Mark, WindowAccount
  <2>3. CASE Tick
    BY <2>3 DEF Tick, WindowAccount
  <2>4. ASSUME NEW k \in Clients,
               Allow(k) \/ LoginBad(k) \/ LoginWrong(k) \/ LoginRight(k)
        PROVE  WindowAccount'
    BY <2>4, <2>a DEF Allow, LoginBad, LoginWrong, LoginRight
  <2>5. CASE Cleanup
    BY <2>5, <2>a DEF Cleanup
  <2>6. CASE UNCHANGED limitVars
    BY <2>6, <2>a DEF limitVars
  <2> QED
    BY <2>1, <2>2, <2>3, <2>4, <2>5, <2>6 DEF LimitsNext
<1>3. LimitsTypeOK /\ WindowAccount => WindowLimits
  BY DEF LimitsTypeOK, WindowAccount, WindowLimits
<1> QED
  BY <1>1, <1>2, <1>3, LimitsTypeCorrect, PTL DEF LimitsSpec

-----------------------------------------------------------------------------
\* handleLogin: while the moment one counts from is less than a pause back, what was
\* tried is in the count; who is paused has tried nothing since before the pause.
LoginAccount ==
    \A k \in Clients :
        /\ wrong[k] <= MaxWrong
        /\ k \notin blocked => wrong[k] < MaxWrong
        /\ now - mark[k] < Pause => tried[k] <= wrong[k]
        /\ k \in blocked /\ blockedAt[k] < mark[k] => tried[k] = 0

\* The limit holds across pauses and across the moments they end.
THEOREM LoginsLimit == ASSUME Limits PROVE LimitsSpec => []LoginLimits
<1> USE DEF Limits
<1>1. LimitsInit => LoginAccount
  <2> SUFFICES ASSUME LimitsInit, NEW k \in Clients
               PROVE  /\ wrong[k] < MaxWrong /\ tried[k] <= wrong[k]
                      /\ wrong[k] <= MaxWrong /\ tried[k] = 0
    BY DEF LoginAccount
  <2>1. wrong[k] = 0 /\ tried[k] = 0
    BY DEF LimitsInit, Zero
  <2>2. 0 < MaxWrong /\ 0 <= MaxWrong
    OBVIOUS
  <2> QED
    BY <2>1, <2>2
<1>2. LimitsTypeOK /\ MomentsArePast /\ LoginAccount /\ [LimitsNext]_limitVars
          => LoginAccount'
  <2> SUFFICES ASSUME LimitsTypeOK, MomentsArePast, LoginAccount,
                      [LimitsNext]_limitVars
               PROVE  LoginAccount'
    OBVIOUS
  <2> USE DEF LimitsTypeOK, MomentsArePast, bucket, window, login
  <2>a. ASSUME UNCHANGED <<now, login, mark, tried>> PROVE LoginAccount'
    BY <2>a DEF LoginAccount
  <2>b. ASSUME NEW k \in Clients, Admitted(k), now - mark[k] < Pause
        PROVE  tried[k] <= Counted(k)
    <3>1. CASE k \notin blocked
      BY <2>b, <3>1 DEF Counted, LoginAccount
    <3>2. CASE k \in blocked
      <4>1. blockedAt[k] < mark[k]
        BY <2>b, <3>2 DEF Admitted
      <4> QED
        BY <3>2, <4>1 DEF Counted, LoginAccount
    <3> QED
      BY <3>1, <3>2
  <2>c. \A k \in Clients : Counted(k) \in Nat /\ Counted(k) < MaxWrong
    BY DEF Counted, LoginAccount
  <2>1. ASSUME NEW k \in Clients, LoginBad(k) PROVE LoginAccount'
    BY <2>1, <2>b, <2>c DEF LoginBad, LoginAccount
  <2>2. ASSUME NEW k \in Clients, LoginWrong(k) PROVE LoginAccount'
    <3>1. /\ UNCHANGED <<now, mark>>
          /\ wrong' = [wrong EXCEPT ![k] = Counted(k) + 1]
          /\ tried' = [tried EXCEPT ![k] = tried[k] + 1]
          /\ now - mark[k] < Pause => tried[k] <= Counted(k)
      BY <2>2, <2>b DEF LoginWrong
    <3>2. \A j \in Clients \ {k} : /\ blockedAt'[j] = blockedAt[j]
                                   /\ j \in blocked' <=> j \in blocked
      BY <2>2 DEF LoginWrong
    <3>3. /\ k \in blocked' => blockedAt'[k] = now
          /\ k \notin blocked' => Counted(k) + 1 < MaxWrong
      <4>1. CASE Counted(k) + 1 >= MaxWrong
        BY <2>2, <4>1 DEF LoginWrong
      <4>2. CASE ~(Counted(k) + 1 >= MaxWrong)
        BY <2>2, <2>c, <4>2 DEF LoginWrong
      <4> QED
        BY <4>1, <4>2
    <3>4. ASSUME NEW j \in Clients, j # k
          PROVE  wrong'[j] = wrong[j] /\ tried'[j] = tried[j]
      BY <3>1, <3>4
    <3>5. wrong'[k] = Counted(k) + 1 /\ tried'[k] = tried[k] + 1
      BY <3>1
    <3> HIDE DEF Counted
    <3> QED
      BY <2>c, <3>1, <3>2, <3>3, <3>4, <3>5 DEF LoginAccount
  <2>3. ASSUME NEW k \in Clients, LoginRight(k) PROVE LoginAccount'
    BY <2>3 DEF LoginRight, LoginAccount
  <2>4. ASSUME NEW k \in Clients, Mark(k) PROVE LoginAccount'
    BY <2>4 DEF Mark, LoginAccount
  <2>5. CASE Tick
    BY <2>5 DEF Tick, LoginAccount
  <2>6. ASSUME NEW k \in Clients, Allow(k) \/ Notify(k) PROVE LoginAccount'
    BY <2>6, <2>a DEF Allow, Notify
  <2>7. CASE Cleanup
    BY <2>7, <2>a DEF Cleanup
  <2>8. CASE UNCHANGED limitVars
    BY <2>8, <2>a DEF limitVars
  <2> QED
    BY <2>1, <2>2, <2>3, <2>4, <2>5, <2>6, <2>7, <2>8 DEF LimitsNext
<1>3. LimitsTypeOK /\ LoginAccount => LoginLimits
  BY DEF LimitsTypeOK, LoginAccount, LoginLimits
<1> QED
  BY <1>1, <1>2, <1>3, LimitsTypeCorrect, PTL DEF LimitsSpec
===============================================================================
