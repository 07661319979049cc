-------------------------- MODULE InheritanceProofs --------------------------
(* Proofs about what images carry: inheritance, inherited files, the          *)
(* overrides of a deployment and the platform of its binaries, for Agentfiles *)
(* of any length, chains of any depth and registries of any content.          *)
EXTENDS ImageFlowProofs, SubsequenceProofs

-----------------------------------------------------------------------------
(* Entries by name and by key: the last one counts.                           *)

NamedAt(s, n) == {i \in DOMAIN s : s[i].name = n}
KeyedAt(s, k) == {i \in DOMAIN s : s[i].key = k}

\* The last of the positions C of c is that of b, or else that of a.
Succeeds(c, C, a, A, b, B) ==
    /\ B # {} => c[Max(C)] = b[Max(B)]
    /\ B = {} /\ A # {} => c[Max(C)] = a[Max(A)]
    /\ C = {} <=> A = {} /\ B = {}

\* So it is for the entries of one name in a concatenation.
LEMMA NamedConcat ==
    ASSUME NEW a, NEW b, IsSeq(a), IsSeq(b), NEW n
    PROVE  Succeeds(a \o b, NamedAt(a \o b, n), a, NamedAt(a, n), b, NamedAt(b, n))
<1>1. PICK c : c = a \o b
  OBVIOUS
<1>2. PICK E : E = {a[i] : i \in DOMAIN a} \cup {b[i] : i \in DOMAIN b} \cup {c[i] : i \in DOMAIN c}
  OBVIOUS
<1>3. PICK K : K = {e \in E : e.name = n}
  OBVIOUS
<1>4. Where(a, K) = NamedAt(a, n) /\ Where(b, K) = NamedAt(b, n) /\ Where(c, K) = NamedAt(c, n)
  BY <1>2, <1>3 DEF Where, NamedAt
<1>5. /\ Where(b, K) # {} => (a \o b)[Max(Where(a \o b, K))] = b[Max(Where(b, K))]
      /\ Where(b, K) = {} /\ Where(a, K) # {} => (a \o b)[Max(Where(a \o b, K))] = a[Max(Where(a, K))]
      /\ Where(a \o b, K) = {} <=> Where(a, K) = {} /\ Where(b, K) = {}
  BY LastOfConcat
<1> QED BY <1>1, <1>4, <1>5 DEF Succeeds

\* And for those of one key.
LEMMA KeyedConcat ==
    ASSUME NEW a, NEW b, IsSeq(a), IsSeq(b), NEW k
    PROVE  Succeeds(a \o b, KeyedAt(a \o b, k), a, KeyedAt(a, k), b, KeyedAt(b, k))
<1>1. PICK c : c = a \o b
  OBVIOUS
<1>2. PICK E : E = {a[i] : i \in DOMAIN a} \cup {b[i] : i \in DOMAIN b} \cup {c[i] : i \in DOMAIN c}
  OBVIOUS
<1>3. PICK K : K = {e \in E : e.key = k}
  OBVIOUS
<1>4. Where(a, K) = KeyedAt(a, k) /\ Where(b, K) = KeyedAt(b, k) /\ Where(c, K) = KeyedAt(c, k)
  BY <1>2, <1>3 DEF Where, KeyedAt
<1>5. /\ Where(b, K) # {} => (a \o b)[Max(Where(a \o b, K))] = b[Max(Where(b, K))]
      /\ Where(b, K) = {} /\ Where(a, K) # {} => (a \o b)[Max(Where(a \o b, K))] = a[Max(Where(a, K))]
      /\ Where(a \o b, K) = {} <=> Where(a, K) = {} /\ Where(b, K) = {}
  BY LastOfConcat
<1> QED BY <1>1, <1>4, <1>5 DEF Succeeds

\* By name, r has the entries of c over those of p.
NamesOver(r, c, p) ==
    /\ IsSeq(r)
    /\ DOMAIN LastNamed(r) = DOMAIN LastNamed(p) \cup DOMAIN LastNamed(c)
    /\ \A n \in DOMAIN LastNamed(r) :
          LastNamed(r)[n] = IF n \in DOMAIN LastNamed(c) THEN LastNamed(c)[n] ELSE LastNamed(p)[n]

\* By key, r has the values of c over those of p.
KeysOver(r, c, p) ==
    /\ IsSeq(r)
    /\ DOMAIN LastValue(r) = DOMAIN LastValue(p) \cup DOMAIN LastValue(c)
    /\ \A k \in DOMAIN LastValue(r) :
          LastValue(r)[k] = IF k \in DOMAIN LastValue(c) THEN LastValue(c)[k] ELSE LastValue(p)[k]

\* LastNamed and LastValue in terms of positions.
LEMMA LastFacts ==
    ASSUME NEW s
    PROVE  /\ \A n : n \in DOMAIN LastNamed(s) <=> NamedAt(s, n) # {}
           /\ \A n \in DOMAIN LastNamed(s) : LastNamed(s)[n] = s[Max(NamedAt(s, n))]
           /\ DOMAIN LastNamed(s) = Names(s)
           /\ \A k : k \in DOMAIN LastValue(s) <=> KeyedAt(s, k) # {}
           /\ \A k \in DOMAIN LastValue(s) : LastValue(s)[k] = s[Max(KeyedAt(s, k))].value
           /\ DOMAIN LastValue(s) = Keys(s)
<1>1. DOMAIN LastNamed(s) = Names(s) /\ DOMAIN LastValue(s) = Keys(s)
  BY DEF LastNamed, LastValue
<1>2. \A n : n \in Names(s) <=> NamedAt(s, n) # {}
  BY DEF Names, NamedAt
<1>3. \A k : k \in Keys(s) <=> KeyedAt(s, k) # {}
  BY DEF Keys, KeyedAt
<1>4. \A n \in Names(s) : LastNamed(s)[n] = s[Max(NamedAt(s, n))]
  BY DEF LastNamed, NamedAt
<1>5. \A k \in Keys(s) : LastValue(s)[k] = s[Max(KeyedAt(s, k))].value
  BY DEF LastValue, KeyedAt
<1> QED BY <1>1, <1>2, <1>3, <1>4, <1>5

\* A list after another.
LEMMA ConcatNames == ASSUME NEW p, NEW c, IsSeq(p), IsSeq(c) PROVE NamesOver(p \o c, c, p)
<1>1. PICK r : r = p \o c
  OBVIOUS
<1>2. \A n : Succeeds(r, NamedAt(r, n), p, NamedAt(p, n), c, NamedAt(c, n))
  BY <1>1, NamedConcat
<1>3. IsSeq(r)
  BY <1>1, Concat
<1>4. \A n : n \in DOMAIN LastNamed(r) <=> n \in DOMAIN LastNamed(p) \/ n \in DOMAIN LastNamed(c)
  BY <1>2, LastFacts DEF Succeeds
<1>5. \A n \in DOMAIN LastNamed(r) :
          LastNamed(r)[n] = IF n \in DOMAIN LastNamed(c) THEN LastNamed(c)[n] ELSE LastNamed(p)[n]
  BY <1>2, <1>4, LastFacts DEF Succeeds
<1> QED BY <1>1, <1>3, <1>4, <1>5 DEF NamesOver

\* The same by key.
LEMMA ConcatKeys == ASSUME NEW p, NEW c, IsSeq(p), IsSeq(c) PROVE KeysOver(p \o c, c, p)
<1>1. PICK r : r = p \o c
  OBVIOUS
<1>2. \A k : Succeeds(r, KeyedAt(r, k), p, KeyedAt(p, k), c, KeyedAt(c, k))
  BY <1>1, KeyedConcat
<1>3. IsSeq(r)
  BY <1>1, Concat
<1>4. \A k : k \in DOMAIN LastValue(r) <=> k \in DOMAIN LastValue(p) \/ k \in DOMAIN LastValue(c)
  BY <1>2, LastFacts DEF Succeeds
<1>5. \A k \in DOMAIN LastValue(r) :
          LastValue(r)[k] = IF k \in DOMAIN LastValue(c) THEN LastValue(c)[k] ELSE LastValue(p)[k]
  BY <1>2, <1>4, LastFacts DEF Succeeds
<1> QED BY <1>1, <1>3, <1>4, <1>5 DEF KeysOver

\* What is over a list that is p, or that has p over others, has c and then p.
LEMMA WinsNames ==
    ASSUME NEW r, NEW c, NEW x, NEW p, NamesOver(r, c, x), x = p \/ \E y : NamesOver(x, p, y)
    PROVE  Wins(LastNamed(r), LastNamed(c), LastNamed(p))
<1>1. \A n \in DOMAIN LastNamed(p) : n \in DOMAIN LastNamed(x) /\ LastNamed(x)[n] = LastNamed(p)[n]
  BY DEF NamesOver
<1>2. \A n \in DOMAIN LastNamed(c) \cup DOMAIN LastNamed(p) : n \in DOMAIN LastNamed(r)
  BY <1>1 DEF NamesOver
<1> QED BY <1>1, <1>2 DEF NamesOver, Wins

\* The same by key.
LEMMA WinsKeys ==
    ASSUME NEW r, NEW c, NEW x, NEW p, KeysOver(r, c, x), x = p \/ \E y : KeysOver(x, p, y)
    PROVE  Wins(LastValue(r), LastValue(c), LastValue(p))
<1>1. \A k \in DOMAIN LastValue(p) : k \in DOMAIN LastValue(x) /\ LastValue(x)[k] = LastValue(p)[k]
  BY DEF KeysOver
<1>2. \A k \in DOMAIN LastValue(c) \cup DOMAIN LastValue(p) : k \in DOMAIN LastValue(r)
  BY <1>1 DEF KeysOver
<1> QED BY <1>1, <1>2 DEF KeysOver, Wins

-----------------------------------------------------------------------------
(* Contexts: a child's replaces its parent's, one after the other.            *)

\* No list is over the empty one.
LEMMA NamesOverEmpty == ASSUME NEW p, IsSeq(p) PROVE NamesOver(p, <<>>, p)
<1>1. DOMAIN LastNamed(<<>>) = {}
  BY DEF LastNamed, Names
<1> QED BY <1>1 DEF NamesOver

\* The latest entries over the later ones over a list.
LEMMA NamesOverTrans ==
    ASSUME NEW r2, NEW r1, NEW q2, NEW q1, NEW x, NEW p,
           NamesOver(r2, x, r1), NamesOver(r1, q1, p), NamesOver(q2, x, q1)
    PROVE  NamesOver(r2, q2, p)
<1>1. DOMAIN LastNamed(r2) = DOMAIN LastNamed(p) \cup DOMAIN LastNamed(q2)
  BY DEF NamesOver
<1>2. ASSUME NEW n \in DOMAIN LastNamed(r2)
      PROVE  LastNamed(r2)[n] = IF n \in DOMAIN LastNamed(q2) THEN LastNamed(q2)[n] ELSE LastNamed(p)[n]
  BY DEF NamesOver
<1> QED BY <1>1, <1>2 DEF NamesOver

\* What a list of one entry has.
LEMMA OneName ==
    ASSUME NEW c
    PROVE  DOMAIN LastNamed(<<c>>) = {c.name} /\ LastNamed(<<c>>)[c.name] = c
<1>1. PICK s : s = <<c>>
  OBVIOUS
<1>2. DOMAIN s = {1} /\ s[1] = c
  BY ONLY <1>1, ShortSeqs
<1>3. Names(s) = {c.name}
  BY <1>2 DEF Names
<1>4. NamedAt(s, c.name) = {1}
  BY <1>2 DEF NamedAt
<1>5. Max({1}) = 1
  BY MaxIs
<1>6. DOMAIN LastNamed(s) = {c.name} /\ LastNamed(s)[c.name] = s[Max(NamedAt(s, c.name))]
  <2>1. DOMAIN LastNamed(s) = Names(s) /\ \A n \in DOMAIN LastNamed(s) : LastNamed(s)[n] = s[Max(NamedAt(s, n))]
    BY LastFacts
  <2> QED BY <1>3, <2>1
<1>7. LastNamed(s)[c.name] = c
  BY ONLY <1>2, <1>4, <1>5, <1>6
<1> QED BY ONLY <1>1, <1>6, <1>7

\* ReplaceContext puts one entry over a list.
LEMMA ReplaceOver ==
    ASSUME NEW s, IsSeq(s), NEW c
    PROVE  /\ NamesOver(ReplaceContext(s, c), <<c>>, s)
           /\ \A i \in DOMAIN ReplaceContext(s, c) :
                 ReplaceContext(s, c)[i] = c \/ \E j \in DOMAIN s : ReplaceContext(s, c)[i] = s[j]
<1>1. PICK same : same = NamedAt(s, c.name)
  OBVIOUS
<1>2. PICK r : r = ReplaceContext(s, c)
  OBVIOUS
<1>3. Len(s) \in Nat /\ DOMAIN s = 1 .. Len(s)
  BY SeqFacts
<1>4. CASE same = {}
  <2>1. r = Append(s, c)
    BY <1>1, <1>2, <1>4 DEF ReplaceContext, NamedAt
  <2>2. PICK one : one = <<c>>
    OBVIOUS
  <2>3. IsSeq(one) /\ Len(one) = 1 /\ one[1] = c
    BY ONLY <2>2, ShortSeqs
  <2>4. Append(s, c) = s \o one
    <3>1. PICK S : S = {s[i] : i \in DOMAIN s} \cup {c}
      OBVIOUS
    <3>2. s \in Seq(S) /\ c \in S
      BY <3>1 DEF IsSeq
    <3> QED BY <3>2, <2>2
  <2>5. NamesOver(s \o one, one, s)
    BY <2>3, ConcatNames
  <2>6. \A i \in DOMAIN r : r[i] = c \/ \E j \in DOMAIN s : r[i] = s[j]
    <3> SUFFICES ASSUME NEW i \in DOMAIN r PROVE r[i] = c \/ \E j \in DOMAIN s : r[i] = s[j]
      OBVIOUS
    <3>1. i \in DOMAIN (s \o one)
      BY <2>1, <2>4
    <3>2. \/ i \in 1 .. Len(s) /\ (s \o one)[i] = s[i]
          \/ \E j \in 1 .. Len(one) : i = Len(s) + j /\ (s \o one)[i] = one[j]
      BY <2>3, <3>1, ConcatSplit
    <3>3. \A j \in 1 .. Len(one) : one[j] = c
      BY <2>3
    <3> QED BY <1>3, <2>1, <2>4, <3>2, <3>3
  <2> QED BY <1>2, <2>1, <2>2, <2>4, <2>5, <2>6
<1>5. CASE same # {}
  <2>1. r = [i \in DOMAIN s |-> IF i \in same THEN c ELSE s[i]]
    BY <1>1, <1>2, <1>5 DEF ReplaceContext, NamedAt
  <2>2. DOMAIN r = DOMAIN s /\ \A i \in DOMAIN s : r[i] = IF i \in same THEN c ELSE s[i]
    BY <2>1
  <2>3. IsSeq(r)
    <3>1. DOMAIN r = 1 .. Len(s) /\ r = [i \in 1 .. Len(s) |-> r[i]]
      BY <1>3, <2>1
    <3> QED BY <1>3, <3>1, FunIsSeq
  <2>4. \A i \in DOMAIN s : r[i].name = s[i].name
    BY <1>1, <2>2 DEF NamedAt
  <2>5. \A n : NamedAt(r, n) = NamedAt(s, n)
    BY <2>2, <2>4 DEF NamedAt
  <2>6. \A n : n \in DOMAIN LastNamed(r) <=> n \in DOMAIN LastNamed(s)
    BY <2>5, LastFacts
  <2>7. c.name \in DOMAIN LastNamed(s)
    BY <1>1, <1>5, LastFacts
  <2>8. \A n \in DOMAIN LastNamed(s) : Max(NamedAt(s, n)) \in NamedAt(s, n)
    <3> SUFFICES ASSUME NEW n \in DOMAIN LastNamed(s) PROVE Max(NamedAt(s, n)) \in NamedAt(s, n)
      OBVIOUS
    <3>1. NamedAt(s, n) \subseteq 1 .. Len(s) /\ NamedAt(s, n) # {}
      BY <1>3, LastFacts DEF NamedAt
    <3> QED BY <1>3, <3>1, MaxFacts
  <2>9. \A n \in DOMAIN LastNamed(r) : LastNamed(r)[n] = IF n = c.name THEN c ELSE LastNamed(s)[n]
    <3> SUFFICES ASSUME NEW n \in DOMAIN LastNamed(r) PROVE LastNamed(r)[n] = IF n = c.name THEN c ELSE LastNamed(s)[n]
      OBVIOUS
    <3>1. PICK m : m = Max(NamedAt(s, n))
      OBVIOUS
    <3>2. m \in DOMAIN s /\ s[m].name = n
      BY <2>6, <2>8, <3>1 DEF NamedAt
    <3>3. LastNamed(r)[n] = r[m] /\ LastNamed(s)[n] = s[m]
      BY <2>5, <2>6, <3>1, LastFacts
    <3>4. m \in same <=> n = c.name
      BY <1>1, <3>2 DEF NamedAt
    <3> QED BY <2>2, <3>2, <3>3, <3>4
  <2>10. NamesOver(r, <<c>>, s)
    <3>1. PICK one : one = <<c>>
      OBVIOUS
    <3>2. DOMAIN LastNamed(one) = {c.name} /\ LastNamed(one)[c.name] = c
      BY ONLY <3>1, OneName
    <3>3. NamesOver(r, one, s)
      BY <2>3, <2>6, <2>7, <2>9, <3>2 DEF NamesOver
    <3> QED BY ONLY <3>1, <3>3
  <2> QED BY <1>2, <2>2, <2>10
<1> QED BY <1>4, <1>5

\* g goes through the contexts of the child.
Replaces(g, m, p, c) == g = [i \in 0 .. m |-> IF i = 0 THEN p ELSE ReplaceContext(g[i - 1], c[i])]

\* There is such a function: mergeContexts is well defined.
LEMMA ReplacesExists == ASSUME NEW m \in Nat, NEW p, NEW c PROVE \E g : Replaces(g, m, p, c)
<1> DEFINE T == {n \in Nat : \E g : Replaces(g, n, p, c)}
<1>1. 0 \in T
  <2>1. PICK g : g = [i \in 0 .. 0 |-> p]
    OBVIOUS
  <2>2. \A i \in 0 .. 0 : i = 0
    OBVIOUS
  <2>3. g = [i \in 0 .. 0 |-> IF i = 0 THEN p ELSE ReplaceContext(g[i - 1], c[i])]
    BY <2>1, <2>2
  <2>4. Replaces(g, 0, p, c)
    BY <2>3 DEF Replaces
  <2> QED BY <2>4
<1>2. ASSUME NEW n \in Nat, n \in T PROVE n + 1 \in T
  <2>1. PICK g : Replaces(g, n, p, c)
    BY <1>2
  <2>2. PICK h : h = [i \in 0 .. (n + 1) |-> IF i = n + 1 THEN ReplaceContext(g[n], c[n + 1]) ELSE g[i]]
    OBVIOUS
  <2>3. \A i \in 0 .. n : h[i] = g[i]
    BY <2>2
  <2>4. \A i \in 0 .. n : g[i] = IF i = 0 THEN p ELSE ReplaceContext(g[i - 1], c[i])
    BY <2>1 DEF Replaces
  <2>5. \A i \in 0 .. (n + 1) : h[i] = IF i = 0 THEN p ELSE ReplaceContext(h[i - 1], c[i])
    <3> SUFFICES ASSUME NEW i \in 0 .. (n + 1) PROVE h[i] = IF i = 0 THEN p ELSE ReplaceContext(h[i - 1], c[i])
      OBVIOUS
    <3>1. CASE i = n + 1
      <4>1. i # 0 /\ i - 1 = n /\ n \in 0 .. n
        BY <3>1
      <4> QED BY <2>2, <2>3, <3>1, <4>1
    <3>2. CASE i \in 0 .. n
      <4>1. i # 0 => i - 1 \in 0 .. n
        BY <3>2
      <4> QED BY <2>3, <2>4, <3>2, <4>1
    <3> QED BY <3>1, <3>2
  <2>6. Replaces(h, n + 1, p, c)
    BY <2>2, <2>5 DEF Replaces
  <2> QED BY <2>6
<1>3. Nat \subseteq T
  <2> HIDE DEF T
  <2> QED BY <1>1, <1>2, SetInduction
<1> QED BY <1>3

\* r has the entries of c over those of p, by name, and no others.
Merges(r, c, p) ==
    /\ NamesOver(r, c, p)
    /\ \A i \in DOMAIN r : (\E j \in DOMAIN c : r[i] = c[j]) \/ (\E j \in DOMAIN p : r[i] = p[j])

\* The first m entries of a list, and one more.
LEMMA PrefixSteps ==
    ASSUME NEW c, IsSeq(c), NEW m \in Nat, m + 1 <= Len(c)
    PROVE  /\ IsSeq([j \in 1 .. m |-> c[j]])
           /\ [j \in 1 .. (m + 1) |-> c[j]] = [j \in 1 .. m |-> c[j]] \o <<c[m + 1]>>
<1>1. PICK a : a = [j \in 1 .. m |-> c[j]]
  OBVIOUS
<1>2. PICK b : b = [j \in 1 .. (m + 1) |-> c[j]]
  OBVIOUS
<1>3. PICK one : one = <<c[m + 1]>>
  OBVIOUS
<1>4. IsSeq(a) /\ Len(a) = m
  BY <1>1, FunIsSeq
<1>5. IsSeq(b) /\ Len(b) = m + 1
  BY <1>2, FunIsSeq
<1>6. IsSeq(one) /\ Len(one) = 1 /\ one[1] = c[m + 1]
  BY ONLY <1>3, ShortSeqs
<1>7. /\ IsSeq(a \o one) /\ Len(a \o one) = m + 1
      /\ \A i \in 1 .. m : (a \o one)[i] = a[i]
      /\ \A j \in 1 .. 1 : (a \o one)[m + j] = one[j]
  <2>1. /\ IsSeq(a \o one) /\ Len(a \o one) = Len(a) + Len(one)
        /\ \A i \in 1 .. Len(a) : (a \o one)[i] = a[i]
        /\ \A j \in 1 .. Len(one) : (a \o one)[Len(a) + j] = one[j]
    <3>1. IsSeq(a) /\ IsSeq(one)
      BY <1>4, <1>6
    <3> QED BY ONLY <3>1, Concat
  <2> QED BY <1>4, <1>6, <2>1
<1>8. \A i \in 1 .. (m + 1) : (a \o one)[i] = b[i]
  <2>1. (a \o one)[m + 1] = one[1]
    BY <1>7
  <2>2. \A i \in 1 .. m : (a \o one)[i] = b[i]
    BY <1>1, <1>2, <1>7
  <2>3. (a \o one)[m + 1] = b[m + 1]
    BY <1>2, <1>6, <2>1
  <2>4. \A i \in 1 .. (m + 1) : i \in 1 .. m \/ i = m + 1
    OBVIOUS
  <2> QED BY ONLY <2>2, <2>3, <2>4
<1>9. a \o one = b
  <2>1. PICK d : d = a \o one
    OBVIOUS
  <2>2. IsSeq(d) /\ IsSeq(b) /\ Len(d) = Len(b) /\ \A i \in 1 .. Len(d) : d[i] = b[i]
    BY <1>5, <1>7, <1>8, <2>1
  <2>3. d = [i \in 1 .. Len(d) |-> d[i]] /\ b = [i \in 1 .. Len(b) |-> b[i]]
    BY <2>2, SeqFacts
  <2>4. d = b
    BY ONLY <2>2, <2>3
  <2> QED BY ONLY <2>1, <2>4
<1> QED BY <1>1, <1>2, <1>3, <1>4, <1>9

\* mergeContexts does that, for lists of any length.
LEMMA MergedContexts == ASSUME NEW p, NEW c, IsSeq(p), IsSeq(c) PROVE Merges(mergeContexts(p, c), c, p)
<1>1. Len(c) \in Nat /\ DOMAIN c = 1 .. Len(c) /\ c = [i \in 1 .. Len(c) |-> c[i]]
  BY SeqFacts
<1>2. PICK g : Replaces(g, Len(c), p, c) /\ mergeContexts(p, c) = g[Len(c)]
  <2>1. \E g : Replaces(g, Len(c), p, c)
    BY <1>1, ReplacesExists
  <2>2. mergeContexts(p, c) = (CHOOSE g : Replaces(g, Len(c), p, c))[Len(c)]
    BY DEF mergeContexts, Replaces
  <2> QED BY <2>1, <2>2
<1>3. \A i \in 0 .. Len(c) : g[i] = IF i = 0 THEN p ELSE ReplaceContext(g[i - 1], c[i])
  BY <1>2 DEF Replaces
<1> DEFINE prefix(m) == [j \in 1 .. m |-> c[j]]
           T == {m \in Nat : m <= Len(c) => Merges(g[m], prefix(m), p)}
<1>4. 0 \in T
  <2>1. prefix(0) = <<>>
    <3>1. DOMAIN prefix(0) = {} /\ IsSeq(prefix(0)) /\ Len(prefix(0)) = 0
      <4>1. PICK q : q = prefix(0)
        OBVIOUS
      <4>2. DOMAIN q = 1 .. 0 /\ q = [i \in 1 .. 0 |-> q[i]] /\ 0 \in Nat
        BY <4>1
      <4>3. IsSeq(q) /\ Len(q) = 0
        BY ONLY <4>2, FunIsSeq
      <4> QED BY <4>1, <4>2, <4>3
    <3>2. IsSeq(<<>>) /\ Len(<<>>) = 0
      BY ShortSeqs
    <3> QED BY <3>1, <3>2, SeqEqual
  <2>2. g[0] = p
    BY <1>1, <1>3
  <2>3. Merges(p, <<>>, p)
    BY NamesOverEmpty DEF Merges
  <2> QED BY <2>1, <2>2, <2>3
<1>5. ASSUME NEW m \in Nat, m \in T PROVE m + 1 \in T
  <2> SUFFICES ASSUME m + 1 <= Len(c) PROVE Merges(g[m + 1], prefix(m + 1), p)
    BY <1>5
  <2>1. m <= Len(c) /\ m + 1 \in 0 .. Len(c) /\ m + 1 # 0 /\ (m + 1) - 1 = m
    BY <1>1
  <2>2. PICK q1 : q1 = prefix(m)
    OBVIOUS
  <2>3. PICK q2 : q2 = prefix(m + 1)
    OBVIOUS
  <2>4. PICK x : x = <<c[m + 1]>>
    OBVIOUS
  <2>5. PICK r1 : r1 = g[m]
    OBVIOUS
  <2>6. PICK r2 : r2 = g[m + 1]
    OBVIOUS
  <2>7. Merges(r1, q1, p)
    BY <1>5, <2>1, <2>2, <2>5
  <2>8. r2 = ReplaceContext(r1, c[m + 1])
    BY <1>3, <2>1, <2>5, <2>6
  <2>9. IsSeq(r1)
    BY <2>7 DEF Merges, NamesOver
  <2>10. /\ NamesOver(r2, x, r1)
         /\ \A i \in DOMAIN r2 : r2[i] = c[m + 1] \/ \E j \in DOMAIN r1 : r2[i] = r1[j]
    BY <2>4, <2>8, <2>9, ReplaceOver
  <2>11. IsSeq(q1) /\ q2 = q1 \o x
    BY <2>2, <2>3, <2>4, PrefixSteps
  <2>12. NamesOver(q2, x, q1)
    <3>1. IsSeq(x)
      BY ONLY <2>4, ShortSeqs
    <3> QED BY <2>11, <3>1, ConcatNames
  <2>13. NamesOver(r2, q2, p)
    BY <2>7, <2>10, <2>12, NamesOverTrans DEF Merges
  <2>14. DOMAIN q2 = 1 .. (m + 1) /\ DOMAIN q1 = 1 .. m /\ (\A j \in 1 .. m : q1[j] = q2[j]) /\ q2[m + 1] = c[m + 1]
    BY <2>2, <2>3
  <2>15. \A i \in DOMAIN r2 : (\E j \in DOMAIN q2 : r2[i] = q2[j]) \/ (\E j \in DOMAIN p : r2[i] = p[j])
    <3> SUFFICES ASSUME NEW i \in DOMAIN r2
                 PROVE  (\E j \in DOMAIN q2 : r2[i] = q2[j]) \/ (\E j \in DOMAIN p : r2[i] = p[j])
      OBVIOUS
    <3>1. CASE r2[i] = c[m + 1]
      BY <2>14, <3>1
    <3>2. CASE \E j \in DOMAIN r1 : r2[i] = r1[j]
      <4>1. PICK j \in DOMAIN r1 : r2[i] = r1[j]
        BY <3>2
      <4>2. (\E k \in DOMAIN q1 : r1[j] = q1[k]) \/ (\E k \in DOMAIN p : r1[j] = p[k])
        BY <2>7 DEF Merges
      <4>3. \A k \in DOMAIN q1 : k \in DOMAIN q2 /\ q1[k] = q2[k]
        BY <2>14
      <4> QED BY <4>1, <4>2, <4>3
    <3> QED BY <2>10, <3>1, <3>2
  <2>16. Merges(r2, q2, p)
    BY <2>13, <2>15 DEF Merges
  <2> QED BY <2>3, <2>6, <2>16
<1>6. Nat \subseteq T
  <2> HIDE DEF T
  <2> QED BY <1>4, <1>5, SetInduction
<1>7. Merges(g[Len(c)], prefix(Len(c)), p)
  BY <1>1, <1>6
<1>8. prefix(Len(c)) = c
  BY <1>1
<1> QED BY <1>2, <1>7, <1>8

-----------------------------------------------------------------------------
(* Agentfiles stay well formed.                                               *)

AgentFields == {"from", "runtime", "model", "name", "exec", "contexts", "configs", "bins", "adds", "envs", "labels",
                "args", "caps"}

\* The fields of the empty Agentfile.
LEMMA NewAgentFields == DOMAIN newAgent = AgentFields
BY DEF newAgent, AgentFields

\* The empty Agentfile is well formed.
LEMMA NewAgentOK == WellFormed(newAgent)
<1>1. IsSeq(<<>>) /\ DOMAIN <<>> = {}
  BY ShortSeqs
<1>2. /\ newAgent.contexts = <<>> /\ newAgent.configs = <<>> /\ newAgent.adds = <<>>
      /\ newAgent.bins = <<>> /\ newAgent.envs = <<>> /\ newAgent.caps = <<>>
  BY DEF newAgent
<1> QED BY <1>1, <1>2 DEF WellFormed, Lists

\* Lists of entries with the same fields, one after the other.
LEMMA ListsConcat == ASSUME NEW a, NEW b, NEW F, Lists(a, F), Lists(b, F) PROVE Lists(a \o b, F)
<1>1. IsSeq(a) /\ IsSeq(b) /\ DOMAIN a = 1 .. Len(a) /\ DOMAIN b = 1 .. Len(b)
  BY SeqFacts DEF Lists
<1>2. IsSeq(a \o b)
  BY <1>1, Concat
<1>3. ASSUME NEW i \in DOMAIN (a \o b) PROVE DOMAIN (a \o b)[i] = F
  <2>1. \/ i \in 1 .. Len(a) /\ (a \o b)[i] = a[i]
        \/ \E j \in 1 .. Len(b) : i = Len(a) + j /\ (a \o b)[i] = b[j]
    BY <1>1, ConcatSplit
  <2> QED BY <1>1, <2>1 DEF Lists
<1> QED BY <1>2, <1>3 DEF Lists

\* One more entry.
LEMMA AppendIsConcat == ASSUME NEW s, IsSeq(s), NEW e PROVE Append(s, e) = s \o <<e>>
<1>1. PICK S : S = {s[i] : i \in DOMAIN s} \cup {e}
  OBVIOUS
<1>2. s \in Seq(S) /\ e \in S
  BY <1>1 DEF IsSeq
<1> QED BY <1>2

\* A list with one more entry of the same fields.
LEMMA ListsAppend == ASSUME NEW s, NEW F, Lists(s, F), NEW e, DOMAIN e = F PROVE Lists(Append(s, e), F)
<1>1. PICK one : one = <<e>>
  OBVIOUS
<1>2. IsSeq(one) /\ DOMAIN one = {1} /\ one[1] = e
  BY ONLY <1>1, ShortSeqs
<1>3. Lists(one, F)
  BY <1>2 DEF Lists
<1>4. Append(s, e) = s \o one
  BY <1>1, AppendIsConcat DEF Lists
<1> QED BY <1>3, <1>4, ListsConcat

\* A merged Agentfile, list by list.
LEMMA MergeFields ==
    ASSUME NEW p, NEW c
    PROVE  /\ DOMAIN mergeAgent(p, c) = AgentFields
           /\ mergeAgent(p, c).contexts = mergeContexts(p.contexts, c.contexts)
           /\ mergeAgent(p, c).configs = IF c.runtime # "" THEN c.configs ELSE p.configs \o c.configs
           /\ mergeAgent(p, c).adds = p.adds \o c.adds
           /\ mergeAgent(p, c).bins = p.bins \o c.bins
           /\ mergeAgent(p, c).envs = p.envs \o c.envs
           /\ mergeAgent(p, c).labels = Over(c.labels, p.labels)
           /\ mergeAgent(p, c).caps = Distinct(p.caps \o c.caps)
BY DEF mergeAgent, AgentFields, mergeStringSet

\* Merging keeps Agentfiles well formed.
LEMMA MergeOK == ASSUME NEW p, NEW c, WellFormed(p), WellFormed(c) PROVE WellFormed(mergeAgent(p, c))
<1>1. PICK r : r = mergeAgent(p, c)
  OBVIOUS
<1>2. /\ DOMAIN r = AgentFields
      /\ r.contexts = mergeContexts(p.contexts, c.contexts)
      /\ r.configs = IF c.runtime # "" THEN c.configs ELSE p.configs \o c.configs
      /\ r.adds = p.adds \o c.adds
      /\ r.bins = p.bins \o c.bins
      /\ r.envs = p.envs \o c.envs
      /\ r.caps = Distinct(p.caps \o c.caps)
  BY <1>1, MergeFields
<1>3. Lists(r.contexts, {"name", "file", "content"})
  <2>1. Lists(p.contexts, {"name", "file", "content"}) /\ Lists(c.contexts, {"name", "file", "content"})
    BY DEF WellFormed
  <2>2. Merges(r.contexts, c.contexts, p.contexts)
    BY <1>2, <2>1, MergedContexts DEF Lists
  <2> QED BY <2>1, <2>2 DEF Lists, Merges, NamesOver
<1>4. Lists(r.configs, {"key", "value", "required"})
  <2>1. Lists(p.configs, {"key", "value", "required"}) /\ Lists(c.configs, {"key", "value", "required"})
    BY DEF WellFormed
  <2>2. Lists(p.configs \o c.configs, {"key", "value", "required"})
    BY ONLY <2>1, ListsConcat
  <2> QED BY <1>2, <2>1, <2>2
<1>5. Lists(r.adds, {"name", "src", "content"})
  <2>1. Lists(p.adds, {"name", "src", "content"}) /\ Lists(c.adds, {"name", "src", "content"})
    BY DEF WellFormed
  <2>2. Lists(p.adds \o c.adds, {"name", "src", "content"})
    BY ONLY <2>1, ListsConcat
  <2> QED BY <1>2, <2>2
<1>6. IsSeq(r.bins) /\ IsSeq(r.envs)
  <2>1. IsSeq(p.bins) /\ IsSeq(c.bins) /\ IsSeq(p.envs) /\ IsSeq(c.envs)
    BY DEF WellFormed
  <2>2. IsSeq(p.bins \o c.bins) /\ IsSeq(p.envs \o c.envs)
    BY ONLY <2>1, Concat
  <2> QED BY <1>2, <2>2
<1>7. IsSeq(r.caps)
  BY <1>2, Concat, DistinctFacts DEF WellFormed
<1> QED BY <1>1, <1>2, <1>3, <1>4, <1>5, <1>6, <1>7, NewAgentFields DEF WellFormed

\* The Agentfile of an artifact, with what its layers hold.
LEMMA HydratedFields ==
    ASSUME NEW m, WellFormed(m.config)
    PROVE  /\ DOMAIN LoadHydrated(m) = AgentFields
           /\ LoadHydrated(m).contexts = [i \in DOMAIN m.config.contexts |-> HydrateContext(m.layers, m.config.contexts[i])]
           /\ LoadHydrated(m).adds = [i \in DOMAIN m.config.adds |-> HydrateAdd(m.layers, m.config.adds[i])]
           /\ LoadHydrated(m).configs = m.config.configs /\ LoadHydrated(m).bins = m.config.bins
           /\ LoadHydrated(m).envs = m.config.envs /\ LoadHydrated(m).caps = m.config.caps
           /\ LoadHydrated(m).labels = m.config.labels
BY NewAgentFields DEF LoadHydrated, WellFormed, AgentFields

\* Hydration keeps the entries' fields and names.
LEMMA HydrateContextKeeps ==
    ASSUME NEW layers, NEW c, DOMAIN c = {"name", "file", "content"}
    PROVE  DOMAIN HydrateContext(layers, c) = {"name", "file", "content"} /\ HydrateContext(layers, c).name = c.name
BY DEF HydrateContext

\* The same for an added file.
LEMMA HydrateAddKeeps ==
    ASSUME NEW layers, NEW a, DOMAIN a = {"name", "src", "content"}
    PROVE  DOMAIN HydrateAdd(layers, a) = {"name", "src", "content"} /\ HydrateAdd(layers, a).name = a.name
BY DEF HydrateAdd

\* A list of the same length.
LEMMA ListsMap ==
    ASSUME NEW s, NEW F, Lists(s, F), NEW t, t = [i \in DOMAIN s |-> t[i]], \A i \in DOMAIN s : DOMAIN t[i] = F
    PROVE  Lists(t, F)
<1>1. Len(s) \in Nat /\ DOMAIN s = 1 .. Len(s)
  BY SeqFacts DEF Lists
<1>2. DOMAIN t = 1 .. Len(s) /\ t = [i \in 1 .. Len(s) |-> t[i]]
  BY <1>1
<1>3. IsSeq(t)
  BY <1>1, <1>2, FunIsSeq
<1> QED BY <1>1, <1>2, <1>3 DEF Lists

\* A hydrated Agentfile is well formed.
LEMMA HydratedOK == ASSUME NEW m, WellFormed(m.config) PROVE WellFormed(LoadHydrated(m))
<1>1. PICK r : r = LoadHydrated(m)
  OBVIOUS
<1>2. /\ DOMAIN r = AgentFields
      /\ r.contexts = [i \in DOMAIN m.config.contexts |-> HydrateContext(m.layers, m.config.contexts[i])]
      /\ r.adds = [i \in DOMAIN m.config.adds |-> HydrateAdd(m.layers, m.config.adds[i])]
      /\ r.configs = m.config.configs /\ r.bins = m.config.bins
      /\ r.envs = m.config.envs /\ r.caps = m.config.caps
  BY <1>1, HydratedFields
<1>3. Lists(r.contexts, {"name", "file", "content"})
  <2>1. Lists(m.config.contexts, {"name", "file", "content"})
    BY DEF WellFormed
  <2>2. \A i \in DOMAIN m.config.contexts : DOMAIN r.contexts[i] = {"name", "file", "content"}
    <3> SUFFICES ASSUME NEW i \in DOMAIN m.config.contexts PROVE DOMAIN r.contexts[i] = {"name", "file", "content"}
      OBVIOUS
    <3>1. DOMAIN m.config.contexts[i] = {"name", "file", "content"}
      BY <2>1 DEF Lists
    <3>2. r.contexts[i] = HydrateContext(m.layers, m.config.contexts[i])
      BY <1>2
    <3> QED BY <3>1, <3>2, HydrateContextKeeps
  <2>3. r.contexts = [i \in DOMAIN m.config.contexts |-> r.contexts[i]]
    BY <1>2
  <2> QED BY <2>1, <2>2, <2>3, ListsMap
<1>4. Lists(r.adds, {"name", "src", "content"})
  <2>1. Lists(m.config.adds, {"name", "src", "content"})
    BY DEF WellFormed
  <2>2. \A i \in DOMAIN m.config.adds : DOMAIN r.adds[i] = {"name", "src", "content"}
    <3> SUFFICES ASSUME NEW i \in DOMAIN m.config.adds PROVE DOMAIN r.adds[i] = {"name", "src", "content"}
      OBVIOUS
    <3>1. DOMAIN m.config.adds[i] = {"name", "src", "content"}
      BY <2>1 DEF Lists
    <3>2. r.adds[i] = HydrateAdd(m.layers, m.config.adds[i])
      BY <1>2
    <3> QED BY <3>1, <3>2, HydrateAddKeeps
  <2>3. r.adds = [i \in DOMAIN m.config.adds |-> r.adds[i]]
    BY <1>2
  <2> QED BY <2>1, <2>2, <2>3, ListsMap
<1> QED BY <1>1, <1>2, <1>3, <1>4, NewAgentFields DEF WellFormed

\* The config blob has the Agentfile, without the added contents.
LEMMA BlobFields ==
    ASSUME NEW a, WellFormed(a)
    PROVE  /\ DOMAIN configBlob(a) = AgentFields
           /\ configBlob(a).adds = [i \in DOMAIN a.adds |-> [a.adds[i] EXCEPT !.content = ""]]
           /\ configBlob(a).contexts = a.contexts
           /\ configBlob(a).configs = a.configs /\ configBlob(a).bins = a.bins
           /\ configBlob(a).envs = a.envs /\ configBlob(a).caps = a.caps
           /\ configBlob(a).labels = a.labels
BY NewAgentFields DEF configBlob, WellFormed, AgentFields

\* A config blob is well formed.
LEMMA BlobOK == ASSUME NEW a, WellFormed(a) PROVE WellFormed(configBlob(a))
<1>1. PICK r : r = configBlob(a)
  OBVIOUS
<1>2. /\ DOMAIN r = AgentFields
      /\ r.adds = [i \in DOMAIN a.adds |-> [a.adds[i] EXCEPT !.content = ""]]
      /\ r.contexts = a.contexts /\ r.configs = a.configs /\ r.bins = a.bins
      /\ r.envs = a.envs /\ r.caps = a.caps
  BY <1>1, BlobFields
<1>3. Lists(r.adds, {"name", "src", "content"})
  <2>1. Lists(a.adds, {"name", "src", "content"})
    BY DEF WellFormed
  <2>2. \A i \in DOMAIN a.adds : DOMAIN r.adds[i] = {"name", "src", "content"}
    BY <1>2, <2>1 DEF Lists
  <2>3. r.adds = [i \in DOMAIN a.adds |-> r.adds[i]]
    BY <1>2
  <2> QED BY <2>1, <2>2, <2>3, ListsMap
<1> QED BY <1>1, <1>2, <1>3, NewAgentFields DEF WellFormed

-----------------------------------------------------------------------------
(* A chain of Agentfiles, merged from its root down.                          *)

\* g merges the part of the chain from its k-th Agentfile on.
MergesFrom(g, k, chain) ==
    g = [i \in k .. Len(chain) |-> IF i = Len(chain) THEN chain[i] ELSE mergeAgent(g[i + 1], chain[i])]

\* There is such a function: mergeChain is well defined.
LEMMA MergesExists ==
    ASSUME NEW chain, NEW n \in Nat, n = Len(chain), n >= 1 PROVE \E g : MergesFrom(g, 1, chain)
<1> DEFINE T == {m \in Nat : m < n => \E g : MergesFrom(g, n - m, chain)}
<1>1. 0 \in T
  <2>1. PICK g : g = [i \in n .. n |-> chain[i]]
    OBVIOUS
  <2>2. \A i \in n .. n : i = n
    OBVIOUS
  <2>3. g = [i \in n .. n |-> IF i = Len(chain) THEN chain[i] ELSE mergeAgent(g[i + 1], chain[i])]
    BY <2>1, <2>2
  <2>4. MergesFrom(g, n - 0, chain)
    BY <2>3 DEF MergesFrom
  <2> QED BY <2>4
<1>2. ASSUME NEW m \in Nat, m \in T PROVE m + 1 \in T
  <2> SUFFICES ASSUME m + 1 < n PROVE \E g : MergesFrom(g, n - (m + 1), chain)
    OBVIOUS
  <2>0. PICK k \in Nat : k = n - (m + 1) /\ k + 1 = n - m /\ k < n /\ k + 1 <= n
    OBVIOUS
  <2>1. PICK g : MergesFrom(g, k + 1, chain)
    BY <1>2, <2>0
  <2>2. PICK h : h = [i \in k .. n |-> IF i = k THEN mergeAgent(g[k + 1], chain[k]) ELSE g[i]]
    OBVIOUS
  <2>3. \A i \in (k + 1) .. n : h[i] = g[i]
    BY <2>0, <2>2
  <2>4. \A i \in (k + 1) .. n : g[i] = IF i = n THEN chain[i] ELSE mergeAgent(g[i + 1], chain[i])
    BY <2>1 DEF MergesFrom
  <2>5. \A i \in k .. n : h[i] = IF i = n THEN chain[i] ELSE mergeAgent(h[i + 1], chain[i])
    <3> SUFFICES ASSUME NEW i \in k .. n PROVE h[i] = IF i = n THEN chain[i] ELSE mergeAgent(h[i + 1], chain[i])
      OBVIOUS
    <3>1. CASE i = k
      <4>1. i # n /\ k + 1 \in (k + 1) .. n
        BY <2>0, <3>1
      <4> QED BY <2>2, <2>3, <3>1, <4>1
    <3>2. CASE i \in (k + 1) .. n
      <4>1. i # n => i + 1 \in (k + 1) .. n
        BY <2>0, <3>2
      <4> QED BY <2>3, <2>4, <3>2, <4>1
    <3> QED BY <2>0, <3>1, <3>2
  <2>6. MergesFrom(h, k, chain)
    BY <2>2, <2>5 DEF MergesFrom
  <2> QED BY <2>0, <2>6
<1>3. Nat \subseteq T
  <2> HIDE DEF T
  <2> QED BY <1>1, <1>2, SetInduction
<1>4. n - 1 \in Nat /\ n - 1 < n /\ n - (n - 1) = 1
  OBVIOUS
<1> QED BY <1>3, <1>4

\* What inherits from p, through whatever comes above p.
Inherits(x, p) == WellFormed(x) /\ (x = p \/ \E y : WellFormed(y) /\ x = mergeAgent(y, p))

\* The merged chain: the first Agentfile over what inherits from the second.
LEMMA ChainMerged ==
    ASSUME NEW chain, IsSeq(chain), Len(chain) >= 1, \A i \in DOMAIN chain : WellFormed(chain[i])
    PROVE  /\ WellFormed(mergeChain(chain))
           /\ Len(chain) >= 2 => \E x : Inherits(x, chain[2]) /\ mergeChain(chain) = mergeAgent(x, chain[1])
<1>1. PICK n \in Nat : n = Len(chain) /\ DOMAIN chain = 1 .. n /\ n >= 1
  BY SeqFacts
<1>2. PICK g : MergesFrom(g, 1, chain) /\ mergeChain(chain) = g[1]
  <2>1. \E g : MergesFrom(g, 1, chain)
    BY <1>1, MergesExists
  <2>2. mergeChain(chain) = (CHOOSE g : MergesFrom(g, 1, chain))[1]
    <3>1. 1 .. Len(chain) = DOMAIN chain
      BY <1>1
    <3> QED BY <3>1 DEF mergeChain, MergesFrom
  <2> QED BY <2>1, <2>2
<1>3. \A i \in 1 .. n : g[i] = IF i = n THEN chain[i] ELSE mergeAgent(g[i + 1], chain[i])
  BY <1>1, <1>2 DEF MergesFrom
<1> DEFINE T == {m \in Nat : m < n => WellFormed(g[n - m])}
<1>4. 0 \in T
  <2>1. n - 0 = n /\ n \in 1 .. n
    BY <1>1
  <2>2. g[n] = chain[n] /\ WellFormed(chain[n])
    BY <1>1, <1>3, <2>1
  <2> QED BY <2>1, <2>2
<1>5. ASSUME NEW m \in Nat, m \in T PROVE m + 1 \in T
  <2> SUFFICES ASSUME m + 1 < n PROVE WellFormed(g[n - (m + 1)])
    OBVIOUS
  <2>1. PICK k \in 1 .. n : k = n - (m + 1) /\ k + 1 = n - m /\ k # n
    BY <1>1
  <2>2. WellFormed(g[k + 1]) /\ WellFormed(chain[k])
    BY <1>1, <1>5, <2>1
  <2>3. g[k] = mergeAgent(g[k + 1], chain[k])
    BY <1>3, <2>1
  <2> QED BY <2>1, <2>2, <2>3, MergeOK
<1>6. Nat \subseteq T
  <2> HIDE DEF T
  <2> QED BY <1>4, <1>5, SetInduction
<1>7. \A i \in 1 .. n : WellFormed(g[i])
  <2> SUFFICES ASSUME NEW i \in 1 .. n PROVE WellFormed(g[i])
    OBVIOUS
  <2>1. n - i \in Nat /\ n - i < n /\ n - (n - i) = i
    BY <1>1
  <2> QED BY <1>6, <2>1
<1>8. ASSUME n >= 2 PROVE \E x : Inherits(x, chain[2]) /\ mergeChain(chain) = mergeAgent(x, chain[1])
  <2>1. 1 \in 1 .. n /\ 2 \in 1 .. n /\ 1 # n
    BY <1>8
  <2>2. mergeChain(chain) = mergeAgent(g[2], chain[1])
    BY <1>2, <1>3, <2>1
  <2>3. g[2] = chain[2] \/ (3 \in 1 .. n /\ g[2] = mergeAgent(g[3], chain[2]))
    BY <1>3, <2>1
  <2>4. Inherits(g[2], chain[2])
    BY <1>7, <2>1, <2>3 DEF Inherits
  <2> QED BY <2>2, <2>4
<1>9. WellFormed(mergeChain(chain))
  BY <1>1, <1>2, <1>7
<1> QED BY <1>1, <1>8, <1>9

-----------------------------------------------------------------------------
(* Nearest wins.                                                              *)

\* A child's own files have no content yet.
BareFiles(s) == \A i \in DOMAIN s : [s[i] EXCEPT !.content = ""] = s[i]
Bare(a) == BareFiles(a.adds)

\* t lists the files of s without their contents.
Stripped(t, s) ==
    Lists(s, {"name", "src", "content"}) /\ t = [i \in DOMAIN s |-> [s[i] EXCEPT !.content = ""]]

\* It has them under the same names.
SameNames(t, s) ==
    /\ DOMAIN LastNamed(t) = DOMAIN LastNamed(s)
    /\ \A n \in DOMAIN LastNamed(s) : LastNamed(t)[n] = [LastNamed(s)[n] EXCEPT !.content = ""]

\* Files without their contents go by the same names.
LEMMA StrippedNames == ASSUME NEW s, NEW t, Stripped(t, s) PROVE SameNames(t, s)
<1>0. Lists(s, {"name", "src", "content"}) /\ t = [i \in DOMAIN s |-> [s[i] EXCEPT !.content = ""]]
  BY DEF Stripped
<1>1. DOMAIN t = DOMAIN s /\ \A i \in DOMAIN s : t[i] = [s[i] EXCEPT !.content = ""]
  BY <1>0
<1>2. Len(s) \in Nat /\ DOMAIN s = 1 .. Len(s)
  BY <1>0, SeqFacts DEF Lists
<1>4. \A i \in DOMAIN s : t[i].name = s[i].name
  BY <1>0, <1>1 DEF Lists
<1>5. \A n : NamedAt(t, n) = NamedAt(s, n)
  BY <1>1, <1>4 DEF NamedAt
<1>6. \A n : n \in DOMAIN LastNamed(t) <=> n \in DOMAIN LastNamed(s)
  BY ONLY <1>5, LastFacts
<1>7. \A n \in DOMAIN LastNamed(s) : LastNamed(t)[n] = [LastNamed(s)[n] EXCEPT !.content = ""]
  <2> SUFFICES ASSUME NEW n \in DOMAIN LastNamed(s) PROVE LastNamed(t)[n] = [LastNamed(s)[n] EXCEPT !.content = ""]
    OBVIOUS
  <2>1. PICK m : m = Max(NamedAt(s, n))
    OBVIOUS
  <2>2. m \in DOMAIN s
    <3>1. NamedAt(s, n) \subseteq 1 .. Len(s) /\ NamedAt(s, n) # {}
      <4>1. NamedAt(s, n) # {}
        BY ONLY n \in DOMAIN LastNamed(s), LastFacts
      <4>2. NamedAt(s, n) \subseteq DOMAIN s
        BY DEF NamedAt
      <4> QED BY ONLY <1>2, <4>1, <4>2
    <3>2. m \in NamedAt(s, n)
      BY <1>2, <2>1, <3>1, MaxFacts
    <3> QED BY <3>2 DEF NamedAt
  <2>3. LastNamed(s)[n] = s[m] /\ LastNamed(t)[n] = t[m]
    <3>1. n \in DOMAIN LastNamed(t)
      BY <1>6
    <3> QED BY ONLY n \in DOMAIN LastNamed(s), <3>1, <1>5, <2>1, LastFacts
  <2> QED BY <1>1, <2>2, <2>3
<1> QED BY <1>6, <1>7 DEF SameNames

\* The merged Agentfile has what c declares over what p says.
NearestOf(result, c, p) ==
    /\ Wins(LastValue(result.envs), LastValue(c.envs), LastValue(p.envs))
    /\ Wins(LastValue(result.configs), LastValue(c.configs), IF c.runtime # "" THEN <<>> ELSE LastValue(p.configs))
    /\ c.runtime # "" => result.configs = c.configs
    /\ Wins(LastNamed(result.contexts), LastNamed(c.contexts), LastNamed(p.contexts))
    /\ Wins(LastNamed(result.adds), LastNamed(c.adds), LastNamed(p.adds))
    /\ Wins(LastNamed(result.bins), LastNamed(c.bins), LastNamed(p.bins))
    /\ Wins(result.labels, c.labels, p.labels)
    /\ ToSet(p.caps) \cup ToSet(c.caps) \subseteq ToSet(result.caps)

\* Each element of either list occurs among the distinct ones of both.
LEMMA DistinctHas ==
    ASSUME NEW a, NEW b, IsSeq(a), IsSeq(b)
    PROVE  /\ \A i \in DOMAIN a : \E j \in DOMAIN Distinct(a \o b) : Distinct(a \o b)[j] = a[i]
           /\ \A i \in DOMAIN b : \E j \in DOMAIN Distinct(a \o b) : Distinct(a \o b)[j] = b[i]
<1>1. PICK s : s = a \o b
  OBVIOUS
<1>2. /\ IsSeq(s) /\ DOMAIN s = 1 .. (Len(a) + Len(b))
      /\ \A i \in 1 .. Len(a) : s[i] = a[i]
      /\ \A j \in 1 .. Len(b) : s[Len(a) + j] = b[j]
  BY <1>1, Concat
<1>3. Len(a) \in Nat /\ Len(b) \in Nat /\ DOMAIN a = 1 .. Len(a) /\ DOMAIN b = 1 .. Len(b)
  BY SeqFacts
<1>4. {Distinct(s)[k] : k \in DOMAIN Distinct(s)} = {s[i] : i \in DOMAIN s}
  BY <1>2, DistinctFacts
<1>5. \A i \in DOMAIN s : \E j \in DOMAIN Distinct(s) : Distinct(s)[j] = s[i]
  BY <1>4
<1>6. \A i \in DOMAIN a : i \in DOMAIN s /\ s[i] = a[i]
  BY <1>2, <1>3
<1>7. \A i \in DOMAIN b : Len(a) + i \in DOMAIN s /\ s[Len(a) + i] = b[i]
  BY <1>2, <1>3
<1> QED BY <1>1, <1>5, <1>6, <1>7

\* The entry that counts is one of the list.
LEMMA LastIsOne ==
    ASSUME NEW s, IsSeq(s), NEW n \in DOMAIN LastNamed(s)
    PROVE  \E m \in DOMAIN s : LastNamed(s)[n] = s[m] /\ s[m].name = n /\ m = Max(NamedAt(s, n))
<1>1. PICK m : m = Max(NamedAt(s, n))
  OBVIOUS
<1>2. Len(s) \in Nat /\ DOMAIN s = 1 .. Len(s)
  BY SeqFacts
<1>3. NamedAt(s, n) # {} /\ LastNamed(s)[n] = s[m]
  BY ONLY <1>1, n \in DOMAIN LastNamed(s), LastFacts
<1>4. NamedAt(s, n) \subseteq 1 .. Len(s)
  BY <1>2 DEF NamedAt
<1>5. m \in NamedAt(s, n)
  BY <1>1, <1>2, <1>3, <1>4, MaxFacts
<1> QED BY <1>1, <1>3, <1>5 DEF NamedAt

\* What x inherits from p, list by list.
LEMMA InheritsLists ==
    ASSUME NEW x, NEW p, WellFormed(p), Inherits(x, p)
    PROVE  /\ x.envs = p.envs \/ \E y : KeysOver(x.envs, p.envs, y)
           /\ x.configs = p.configs \/ \E y : KeysOver(x.configs, p.configs, y)
           /\ x.contexts = p.contexts \/ \E y : NamesOver(x.contexts, p.contexts, y)
           /\ x.adds = p.adds \/ \E y : NamesOver(x.adds, p.adds, y)
           /\ x.bins = p.bins \/ \E y : NamesOver(x.bins, p.bins, y)
           /\ x.labels = p.labels \/ \E y : x.labels = Over(p.labels, y)
           /\ \A i \in DOMAIN p.caps : \E j \in DOMAIN x.caps : x.caps[j] = p.caps[i]
<1>1. CASE x = p
  BY <1>1
<1>2. CASE \E y : WellFormed(y) /\ x = mergeAgent(y, p)
  <2>1. PICK y : WellFormed(y) /\ x = mergeAgent(y, p)
    BY <1>2
  <2>2. /\ x.contexts = mergeContexts(y.contexts, p.contexts)
        /\ x.configs = IF p.runtime # "" THEN p.configs ELSE y.configs \o p.configs
        /\ x.adds = y.adds \o p.adds /\ x.bins = y.bins \o p.bins /\ x.envs = y.envs \o p.envs
        /\ x.labels = Over(p.labels, y.labels) /\ x.caps = Distinct(y.caps \o p.caps)
    BY <2>1, MergeFields
  <2>3. /\ IsSeq(y.contexts) /\ IsSeq(y.configs) /\ IsSeq(y.adds) /\ IsSeq(y.bins) /\ IsSeq(y.envs) /\ IsSeq(y.caps)
        /\ IsSeq(p.contexts) /\ IsSeq(p.configs) /\ IsSeq(p.adds) /\ IsSeq(p.bins) /\ IsSeq(p.envs) /\ IsSeq(p.caps)
    BY <2>1 DEF WellFormed, Lists
  <2>4. KeysOver(x.envs, p.envs, y.envs)
    BY ONLY <2>2, <2>3, ConcatKeys
  <2>5. x.configs = p.configs \/ KeysOver(x.configs, p.configs, y.configs)
    <3>1. KeysOver(y.configs \o p.configs, p.configs, y.configs)
      BY ONLY <2>3, ConcatKeys
    <3> QED BY ONLY <2>2, <3>1
  <2>6. NamesOver(x.contexts, p.contexts, y.contexts)
    BY <2>2, <2>3, MergedContexts DEF Merges
  <2>7. NamesOver(x.adds, p.adds, y.adds) /\ NamesOver(x.bins, p.bins, y.bins)
    BY ONLY <2>2, <2>3, ConcatNames
  <2>8. \A i \in DOMAIN p.caps : \E j \in DOMAIN x.caps : x.caps[j] = p.caps[i]
    <3>1. IsSeq(y.caps) /\ IsSeq(p.caps)
      BY <2>3
    <3>2. \A i \in DOMAIN p.caps : \E j \in DOMAIN Distinct(y.caps \o p.caps) : Distinct(y.caps \o p.caps)[j] = p.caps[i]
      BY ONLY <3>1, DistinctHas
    <3> QED BY ONLY <2>2, <3>2
  <2> QED BY ONLY <2>2, <2>4, <2>5, <2>6, <2>7, <2>8
<1> QED BY <1>1, <1>2 DEF Inherits

\* Added files: what the child adds, and else what the parent's artifact says.
LEMMA NearestAdds ==
    ASSUME NEW s, NEW c, NEW p, Lists(s, {"name", "src", "content"}), Lists(c, {"name", "src", "content"}),
           Lists(p, {"name", "src", "content"}), s = p \/ \E y : NamesOver(s, p, y),
           BareFiles(c), NEW r, Stripped(r, s \o c), NEW q, Stripped(q, p)
    PROVE  Wins(LastNamed(r), LastNamed(c), LastNamed(q))
<1>1. PICK t : t = s \o c
  OBVIOUS
<1>2. Lists(t, {"name", "src", "content"}) /\ NamesOver(t, c, s)
  <2>1. Lists(t, {"name", "src", "content"})
    BY <1>1, ListsConcat
  <2>2. IsSeq(s) /\ IsSeq(c)
    BY DEF Lists
  <2> QED BY ONLY <1>1, <2>1, <2>2, ConcatNames
<1>3. Wins(LastNamed(t), LastNamed(c), LastNamed(p))
  BY <1>2, WinsNames
<1>4. /\ DOMAIN LastNamed(r) = DOMAIN LastNamed(t)
      /\ \A n \in DOMAIN LastNamed(t) : LastNamed(r)[n] = [LastNamed(t)[n] EXCEPT !.content = ""]
  <2>1. Stripped(r, t)
    BY <1>1
  <2>2. SameNames(r, t)
    BY ONLY <2>1, StrippedNames
  <2> QED BY ONLY <2>2 DEF SameNames
<1>5. /\ DOMAIN LastNamed(q) = DOMAIN LastNamed(p)
      /\ \A n \in DOMAIN LastNamed(p) : LastNamed(q)[n] = [LastNamed(p)[n] EXCEPT !.content = ""]
  BY StrippedNames DEF SameNames
<1>6. \A n \in DOMAIN LastNamed(c) : [LastNamed(c)[n] EXCEPT !.content = ""] = LastNamed(c)[n]
  <2> SUFFICES ASSUME NEW n \in DOMAIN LastNamed(c) PROVE [LastNamed(c)[n] EXCEPT !.content = ""] = LastNamed(c)[n]
    OBVIOUS
  <2>1. PICK m \in DOMAIN c : LastNamed(c)[n] = c[m]
    <3>1. IsSeq(c)
      BY DEF Lists
    <3> QED BY ONLY <3>1, n \in DOMAIN LastNamed(c), LastIsOne
  <2> QED BY <2>1 DEF BareFiles
<1>7. \A n \in DOMAIN LastNamed(c) \cup DOMAIN LastNamed(p) : n \in DOMAIN LastNamed(t)
  <2>1. \A n \in DOMAIN LastNamed(p) : n \in DOMAIN LastNamed(s)
    BY DEF NamesOver
  <2> QED BY <1>2, <2>1 DEF NamesOver
<1>8. ASSUME NEW n \in DOMAIN LastNamed(c) \cup DOMAIN LastNamed(q)
      PROVE  LastNamed(r)[n] = IF n \in DOMAIN LastNamed(c) THEN LastNamed(c)[n] ELSE LastNamed(q)[n]
  <2>1. LastNamed(t)[n] = IF n \in DOMAIN LastNamed(c) THEN LastNamed(c)[n] ELSE LastNamed(p)[n]
    BY <1>3, <1>5, <1>8 DEF Wins
  <2>2. LastNamed(r)[n] = [LastNamed(t)[n] EXCEPT !.content = ""]
    BY <1>4, <1>5, <1>7, <1>8
  <2>3. CASE n \in DOMAIN LastNamed(c)
    BY <1>6, <2>1, <2>2, <2>3
  <2>4. CASE n \notin DOMAIN LastNamed(c)
    BY <1>5, <1>8, <2>1, <2>2, <2>4
  <2> QED BY <2>3, <2>4
<1> QED BY ONLY <1>8 DEF Wins

\* Labels.
LEMMA NearestLabels ==
    ASSUME NEW x, NEW c, NEW p, x = p \/ \E y : x = Over(p, y)
    PROVE  Wins(Over(c, x), c, p)
<1>1. \A k \in DOMAIN p : k \in DOMAIN x /\ x[k] = p[k]
  BY DEF Over
<1> QED BY <1>1 DEF Wins, Over

\* For any child and parent, whatever is above the parent.
LEMMA NearestMerged ==
    ASSUME NEW c, NEW p, NEW x, WellFormed(c), Bare(c), WellFormed(p), Inherits(x, p)
    PROVE  NearestOf(configBlob(mergeAgent(x, c)), c, configBlob(p))
<1>1. PICK a : a = mergeAgent(x, c)
  OBVIOUS
<1>2. WellFormed(x) /\ WellFormed(a)
  BY <1>1, MergeOK DEF Inherits
<1>3. PICK r : r = configBlob(a)
  OBVIOUS
<1>4. PICK q : q = configBlob(p)
  OBVIOUS
<1>5. /\ a.contexts = mergeContexts(x.contexts, c.contexts)
      /\ a.configs = IF c.runtime # "" THEN c.configs ELSE x.configs \o c.configs
      /\ a.adds = x.adds \o c.adds /\ a.bins = x.bins \o c.bins /\ a.envs = x.envs \o c.envs
      /\ a.labels = Over(c.labels, x.labels) /\ a.caps = Distinct(x.caps \o c.caps)
  BY <1>1, MergeFields
<1>6. /\ r.adds = [i \in DOMAIN a.adds |-> [a.adds[i] EXCEPT !.content = ""]]
      /\ r.contexts = a.contexts /\ r.configs = a.configs /\ r.bins = a.bins
      /\ r.envs = a.envs /\ r.caps = a.caps /\ r.labels = a.labels
  BY <1>2, <1>3, BlobFields
<1>7. /\ q.adds = [i \in DOMAIN p.adds |-> [p.adds[i] EXCEPT !.content = ""]]
      /\ q.contexts = p.contexts /\ q.configs = p.configs /\ q.bins = p.bins
      /\ q.envs = p.envs /\ q.caps = p.caps /\ q.labels = p.labels
  BY <1>4, BlobFields
<1>8. /\ x.envs = p.envs \/ \E y : KeysOver(x.envs, p.envs, y)
      /\ x.configs = p.configs \/ \E y : KeysOver(x.configs, p.configs, y)
      /\ x.contexts = p.contexts \/ \E y : NamesOver(x.contexts, p.contexts, y)
      /\ x.adds = p.adds \/ \E y : NamesOver(x.adds, p.adds, y)
      /\ x.bins = p.bins \/ \E y : NamesOver(x.bins, p.bins, y)
      /\ x.labels = p.labels \/ \E y : x.labels = Over(p.labels, y)
      /\ \A i \in DOMAIN p.caps : \E j \in DOMAIN x.caps : x.caps[j] = p.caps[i]
  BY InheritsLists
<1>9. /\ IsSeq(x.contexts) /\ IsSeq(x.configs) /\ IsSeq(x.adds) /\ IsSeq(x.bins) /\ IsSeq(x.envs) /\ IsSeq(x.caps)
      /\ IsSeq(c.contexts) /\ IsSeq(c.configs) /\ IsSeq(c.adds) /\ IsSeq(c.bins) /\ IsSeq(c.envs) /\ IsSeq(c.caps)
  BY <1>2 DEF WellFormed, Lists
<1>10. Wins(LastValue(r.envs), LastValue(c.envs), LastValue(q.envs))
  <2>1. KeysOver(r.envs, c.envs, x.envs)
    <3>1. KeysOver(x.envs \o c.envs, c.envs, x.envs)
      BY ONLY <1>9, ConcatKeys
    <3> QED BY ONLY <1>5, <1>6, <3>1
  <2> QED BY ONLY <1>7, <1>8, <2>1, WinsKeys
<1>11. Wins(LastValue(r.configs), LastValue(c.configs), IF c.runtime # "" THEN <<>> ELSE LastValue(q.configs))
  <2>1. CASE c.runtime # ""
    <3>1. r.configs = c.configs
      BY <1>5, <1>6, <2>1
    <3>2. DOMAIN <<>> = {}
      BY ShortSeqs
    <3>3. Wins(LastValue(c.configs), LastValue(c.configs), <<>>)
      BY <3>2 DEF Wins
    <3> QED BY <2>1, <3>1, <3>3
  <2>2. CASE c.runtime = ""
    <3>1. KeysOver(x.configs \o c.configs, c.configs, x.configs)
      BY ONLY <1>9, ConcatKeys
    <3>2. KeysOver(r.configs, c.configs, x.configs)
      BY ONLY <1>5, <1>6, <2>2, <3>1
    <3>3. Wins(LastValue(r.configs), LastValue(c.configs), LastValue(q.configs))
      BY ONLY <1>7, <1>8, <3>2, WinsKeys
    <3> QED BY ONLY <2>2, <3>3
  <2> QED BY <2>1, <2>2
<1>12. c.runtime # "" => r.configs = c.configs
  BY <1>5, <1>6
<1>13. Wins(LastNamed(r.contexts), LastNamed(c.contexts), LastNamed(q.contexts))
  <2>1. NamesOver(r.contexts, c.contexts, x.contexts)
    <3>1. Merges(mergeContexts(x.contexts, c.contexts), c.contexts, x.contexts)
      BY ONLY <1>9, MergedContexts
    <3>2. NamesOver(mergeContexts(x.contexts, c.contexts), c.contexts, x.contexts)
      BY ONLY <3>1 DEF Merges
    <3> QED BY ONLY <1>5, <1>6, <3>2
  <2> QED BY ONLY <1>7, <1>8, <2>1, WinsNames
<1>14. Wins(LastNamed(r.adds), LastNamed(c.adds), LastNamed(q.adds))
  <2>1. /\ Lists(x.adds, {"name", "src", "content"}) /\ Lists(c.adds, {"name", "src", "content"})
        /\ Lists(p.adds, {"name", "src", "content"}) /\ BareFiles(c.adds)
    BY <1>2 DEF WellFormed, Bare
  <2>2. Stripped(q.adds, p.adds)
    BY <1>7, <2>1 DEF Stripped
  <2>3. Stripped(r.adds, x.adds \o c.adds)
    <3>1. Lists(x.adds \o c.adds, {"name", "src", "content"})
      BY ONLY <2>1, ListsConcat
    <3> QED BY <1>5, <1>6, <3>1 DEF Stripped
  <2> QED BY ONLY <1>8, <2>1, <2>2, <2>3, NearestAdds
<1>15. Wins(LastNamed(r.bins), LastNamed(c.bins), LastNamed(q.bins))
  <2>1. NamesOver(r.bins, c.bins, x.bins)
    <3>1. NamesOver(x.bins \o c.bins, c.bins, x.bins)
      BY ONLY <1>9, ConcatNames
    <3> QED BY ONLY <1>5, <1>6, <3>1
  <2> QED BY ONLY <1>7, <1>8, <2>1, WinsNames
<1>16. Wins(r.labels, c.labels, q.labels)
  <2>1. Wins(Over(c.labels, x.labels), c.labels, p.labels)
    BY ONLY <1>8, NearestLabels
  <2> QED BY ONLY <1>5, <1>6, <1>7, <2>1
<1>17. ToSet(q.caps) \cup ToSet(c.caps) \subseteq ToSet(r.caps)
  <2>1. PICK u, v, w : u = x.caps /\ v = c.caps /\ w = r.caps
    OBVIOUS
  <2>2. IsSeq(u) /\ IsSeq(v)
    BY ONLY <1>9, <2>1
  <2>3. /\ \A i \in DOMAIN u : \E j \in DOMAIN w : w[j] = u[i]
        /\ \A i \in DOMAIN v : \E j \in DOMAIN w : w[j] = v[i]
    <3>1. /\ \A i \in DOMAIN u : \E j \in DOMAIN Distinct(u \o v) : Distinct(u \o v)[j] = u[i]
          /\ \A i \in DOMAIN v : \E j \in DOMAIN Distinct(u \o v) : Distinct(u \o v)[j] = v[i]
      BY ONLY <2>2, DistinctHas
    <3>2. w = Distinct(u \o v)
      BY ONLY <1>5, <1>6, <2>1
    <3> QED BY ONLY <3>1, <3>2
  <2>4. PICK z : z = q.caps
    OBVIOUS
  <2>5. \A i \in DOMAIN z : \E j \in DOMAIN u : u[j] = z[i]
    <3>1. z = p.caps
      BY ONLY <1>7, <2>4
    <3>2. \A i \in DOMAIN p.caps : \E j \in DOMAIN x.caps : x.caps[j] = p.caps[i]
      BY ONLY <1>8
    <3> QED BY ONLY <2>1, <3>1, <3>2
  <2>6. \A i \in DOMAIN z : \E j \in DOMAIN w : w[j] = z[i]
    BY ONLY <2>3, <2>5
  <2>7. ToSet(z) \cup ToSet(v) \subseteq ToSet(w)
    BY ONLY <2>3, <2>6 DEF ToSet
  <2> QED BY ONLY <2>1, <2>4, <2>7
<1>18. NearestOf(r, c, q)
  BY ONLY <1>10, <1>11, <1>12, <1>13, <1>14, <1>15, <1>16, <1>17 DEF NearestOf
<1> QED BY ONLY <1>1, <1>3, <1>4, <1>18

-----------------------------------------------------------------------------
(* Parsing.                                                                   *)

\* An Agentfile whose lists are those of another, but for what is well formed
\* anyway.
LEMMA FieldsOK ==
    ASSUME NEW r, DOMAIN r = AgentFields,
           Lists(r.contexts, {"name", "file", "content"}), Lists(r.configs, {"key", "value", "required"}),
           Lists(r.adds, {"name", "src", "content"}), IsSeq(r.bins), IsSeq(r.envs), IsSeq(r.caps),
           BareFiles(r.adds)
    PROVE  WellFormed(r) /\ Bare(r)
BY NewAgentFields DEF WellFormed, Bare

\* What a parsed Agentfile is.
Fresh(a) == WellFormed(a) /\ Bare(a)

\* An Agentfile with the same lists.
LEMMA SameLists ==
    ASSUME NEW a, Fresh(a), NEW r, DOMAIN r = AgentFields,
           r.contexts = a.contexts, r.configs = a.configs, r.adds = a.adds, r.bins = a.bins, r.envs = a.envs,
           r.caps = a.caps
    PROVE  Fresh(r)
BY NewAgentFields DEF Fresh, WellFormed, Bare

\* A list with one more element.
LEMMA AppendIsSeq == ASSUME NEW s, IsSeq(s), NEW e PROVE IsSeq(Append(s, e))
<1>1. PICK one : one = <<e>>
  OBVIOUS
<1>2. IsSeq(one)
  BY ONLY <1>1, ShortSeqs
<1>3. Append(s, e) = s \o one
  BY <1>1, AppendIsConcat
<1> QED BY <1>2, <1>3, Concat

\* ADD adds a file without content.
LEMMA AppendBare ==
    ASSUME NEW s, Lists(s, {"name", "src", "content"}), BareFiles(s), NEW name, NEW src
    PROVE  LET t == Append(s, [name |-> name, src |-> src, content |-> ""])
           IN  Lists(t, {"name", "src", "content"}) /\ BareFiles(t)
<1>1. PICK e : e = [name |-> name, src |-> src, content |-> ""]
  OBVIOUS
<1>2. PICK t : t = Append(s, e)
  OBVIOUS
<1>3. DOMAIN e = {"name", "src", "content"} /\ [e EXCEPT !.content = ""] = e
  <2>1. DOMAIN e = {"name", "src", "content"} /\ e.content = ""
    BY <1>1
  <2>2. e = [f \in {"name", "src", "content"} |-> e[f]]
    BY <1>1
  <2> QED BY ONLY <2>1, <2>2
<1>4. Lists(t, {"name", "src", "content"})
  BY <1>2, <1>3, ListsAppend
<1>5. PICK one : one = <<e>>
  OBVIOUS
<1>6. IsSeq(one) /\ Len(one) = 1 /\ one[1] = e
  BY ONLY <1>5, ShortSeqs
<1>7. IsSeq(s) /\ t = s \o one
  BY <1>2, <1>5, AppendIsConcat DEF Lists
<1>8. ASSUME NEW i \in DOMAIN t PROVE [t[i] EXCEPT !.content = ""] = t[i]
  <2>1. i \in DOMAIN (s \o one)
    BY <1>7
  <2>2. \/ i \in 1 .. Len(s) /\ (s \o one)[i] = s[i]
        \/ \E j \in 1 .. Len(one) : i = Len(s) + j /\ (s \o one)[i] = one[j]
    BY ONLY <1>6, <1>7, <2>1, ConcatSplit
  <2>3. DOMAIN s = 1 .. Len(s)
    BY <1>7, SeqFacts
  <2>4. \A j \in 1 .. Len(one) : one[j] = e
    BY <1>6
  <2>5. t[i] = e \/ \E k \in DOMAIN s : t[i] = s[k]
    BY ONLY <1>7, <2>2, <2>3, <2>4
  <2> QED BY <1>3, <2>5 DEF BareFiles
<1> QED BY <1>1, <1>2, <1>4, <1>8 DEF BareFiles

\* Each instruction keeps the Agentfile fresh.
LEMMA ApplyFresh ==
    ASSUME NEW a, Fresh(a), NEW inst, inst.op \in Keywords, inst.op = "CAPABILITY" => IsSeq(inst.names)
    PROVE  Fresh(applyInstruction(a, inst))
<1>1. PICK r : r = applyInstruction(a, inst)
  OBVIOUS
<1>2. /\ DOMAIN a = AgentFields
      /\ Lists(a.contexts, {"name", "file", "content"}) /\ Lists(a.configs, {"key", "value", "required"})
      /\ Lists(a.adds, {"name", "src", "content"}) /\ IsSeq(a.bins) /\ IsSeq(a.envs) /\ IsSeq(a.caps)
      /\ BareFiles(a.adds)
  BY NewAgentFields DEF Fresh, WellFormed, Bare
<1>3. CASE inst.op \in {"FROM", "MODEL", "NAME", "LABEL", "EXEC", "ARG"}
  <2>1. /\ DOMAIN r = AgentFields
        /\ r.contexts = a.contexts /\ r.configs = a.configs /\ r.adds = a.adds /\ r.bins = a.bins
        /\ r.envs = a.envs /\ r.caps = a.caps
    <3>1. CASE inst.op = "FROM"
      <4>1. r = [a EXCEPT !.from = inst.ref]
        BY <1>1, <3>1 DEF applyInstruction
      <4> QED BY ONLY <1>2, <4>1 DEF AgentFields
    <3>2. CASE inst.op = "MODEL"
      <4>1. r = [a EXCEPT !.model = inst.model]
        BY <1>1, <3>2 DEF applyInstruction
      <4> QED BY ONLY <1>2, <4>1 DEF AgentFields
    <3>3. CASE inst.op = "NAME"
      <4>1. r = [a EXCEPT !.name = inst.name]
        BY <1>1, <3>3 DEF applyInstruction
      <4> QED BY ONLY <1>2, <4>1 DEF AgentFields
    <3>4. CASE inst.op = "LABEL"
      <4>1. r = [a EXCEPT !.labels = Put(a.labels, inst.key, inst.value)]
        BY <1>1, <3>4 DEF applyInstruction
      <4> QED BY ONLY <1>2, <4>1 DEF AgentFields
    <3>5. CASE inst.op = "EXEC"
      <4>1. r = [a EXCEPT !.exec = inst.args]
        BY <1>1, <3>5 DEF applyInstruction
      <4> QED BY ONLY <1>2, <4>1 DEF AgentFields
    <3>6. CASE inst.op = "ARG"
      <4>1. PICK args : r = [a EXCEPT !.args = args]
        BY <1>1, <3>6 DEF applyInstruction
      <4> QED BY ONLY <1>2, <4>1 DEF AgentFields
    <3> QED BY <1>3, <3>1, <3>2, <3>3, <3>4, <3>5, <3>6
  <2> QED BY <1>1, <2>1, SameLists
<1>4. CASE inst.op = "RUNTIME"
  <2>1. r = [a EXCEPT !.runtime = inst.image, !.configs = <<>>]
    BY <1>1, <1>4 DEF applyInstruction
  <2>2. /\ DOMAIN r = AgentFields /\ r.configs = <<>>
        /\ r.contexts = a.contexts /\ r.adds = a.adds /\ r.bins = a.bins
        /\ r.envs = a.envs /\ r.caps = a.caps
    BY ONLY <1>2, <2>1 DEF AgentFields
  <2>3. Lists(<<>>, {"key", "value", "required"})
    BY ShortSeqs DEF Lists
  <2>4. WellFormed(r) /\ Bare(r)
    BY ONLY <1>2, <2>2, <2>3, FieldsOK
  <2> QED BY <1>1, <2>4 DEF Fresh
<1>5. CASE inst.op = "CONTEXT"
  <2>1. PICK c : c = [name |-> inst.name, file |-> inst.file, content |-> inst.heredoc]
    OBVIOUS
  <2>2. r = [a EXCEPT !.contexts = ReplaceContext(a.contexts, c)]
    BY <1>1, <1>5, <2>1 DEF applyInstruction
  <2>3. /\ DOMAIN r = AgentFields /\ r.contexts = ReplaceContext(a.contexts, c)
        /\ r.configs = a.configs /\ r.adds = a.adds /\ r.bins = a.bins
        /\ r.envs = a.envs /\ r.caps = a.caps
    BY ONLY <1>2, <2>2 DEF AgentFields
  <2>4. Lists(ReplaceContext(a.contexts, c), {"name", "file", "content"})
    <3>1. PICK s, t : s = a.contexts /\ t = ReplaceContext(s, c)
      OBVIOUS
    <3>2. IsSeq(s) /\ \A i \in DOMAIN s : DOMAIN s[i] = {"name", "file", "content"}
      BY <1>2, <3>1 DEF Lists
    <3>3. /\ NamesOver(t, <<c>>, s)
          /\ \A i \in DOMAIN t : t[i] = c \/ \E j \in DOMAIN s : t[i] = s[j]
      BY <3>1, <3>2, ReplaceOver
    <3>4. DOMAIN c = {"name", "file", "content"}
      BY <2>1
    <3>5. IsSeq(t)
      BY <3>3 DEF NamesOver
    <3> QED BY <3>1, <3>2, <3>3, <3>4, <3>5 DEF Lists
  <2>5. WellFormed(r) /\ Bare(r)
    BY ONLY <1>2, <2>3, <2>4, FieldsOK
  <2> QED BY <1>1, <2>5 DEF Fresh
<1>6. CASE inst.op = "CONFIG"
  <2>1. PICK c : c = [key |-> inst.key, value |-> inst.value, required |-> inst.required]
    OBVIOUS
  <2>2. r = [a EXCEPT !.configs = Append(a.configs, c)]
    BY <1>1, <1>6, <2>1 DEF applyInstruction
  <2>3. /\ DOMAIN r = AgentFields /\ r.configs = Append(a.configs, c)
        /\ r.contexts = a.contexts /\ r.adds = a.adds /\ r.bins = a.bins
        /\ r.envs = a.envs /\ r.caps = a.caps
    BY ONLY <1>2, <2>2 DEF AgentFields
  <2>4. Lists(Append(a.configs, c), {"key", "value", "required"})
    <3>1. DOMAIN c = {"key", "value", "required"} /\ Lists(a.configs, {"key", "value", "required"})
      BY <1>2, <2>1
    <3> QED BY ONLY <3>1, ListsAppend
  <2>5. WellFormed(r) /\ Bare(r)
    BY ONLY <1>2, <2>3, <2>4, FieldsOK
  <2> QED BY <1>1, <2>5 DEF Fresh
<1>7. CASE inst.op = "BIN"
  <2>1. PICK c : c = [name |-> inst.name, image |-> inst.image]
    OBVIOUS
  <2>2. r = [a EXCEPT !.bins = Append(a.bins, c)]
    BY <1>1, <1>7, <2>1 DEF applyInstruction
  <2>3. /\ DOMAIN r = AgentFields /\ r.bins = Append(a.bins, c)
        /\ r.contexts = a.contexts /\ r.configs = a.configs /\ r.adds = a.adds
        /\ r.envs = a.envs /\ r.caps = a.caps
    BY ONLY <1>2, <2>2 DEF AgentFields
  <2>4. IsSeq(Append(a.bins, c))
    BY ONLY <1>2, AppendIsSeq
  <2>5. WellFormed(r) /\ Bare(r)
    BY ONLY <1>2, <2>3, <2>4, FieldsOK
  <2> QED BY <1>1, <2>5 DEF Fresh
<1>8. CASE inst.op = "ADD"
  <2>1. PICK name : name = IF inst.name = Nil THEN inst.base ELSE inst.name
    OBVIOUS
  <2>2. PICK t : t = Append(a.adds, [name |-> name, src |-> inst.src, content |-> ""])
    OBVIOUS
  <2>3. r = [a EXCEPT !.adds = t]
    BY <1>1, <1>8, <2>1, <2>2 DEF applyInstruction
  <2>4. /\ DOMAIN r = AgentFields /\ r.adds = t
        /\ r.contexts = a.contexts /\ r.configs = a.configs /\ r.bins = a.bins
        /\ r.envs = a.envs /\ r.caps = a.caps
    BY ONLY <1>2, <2>3 DEF AgentFields
  <2>5. Lists(t, {"name", "src", "content"}) /\ BareFiles(t)
    BY ONLY <1>2, <2>2, AppendBare
  <2>6. WellFormed(r) /\ Bare(r)
    BY ONLY <1>2, <2>4, <2>5, FieldsOK
  <2> QED BY <1>1, <2>6 DEF Fresh
<1>9. CASE inst.op = "ENV"
  <2>1. PICK c : c = [key |-> inst.key, value |-> inst.value]
    OBVIOUS
  <2>2. r = [a EXCEPT !.envs = Append(a.envs, c)]
    BY <1>1, <1>9, <2>1 DEF applyInstruction
  <2>3. /\ DOMAIN r = AgentFields /\ r.envs = Append(a.envs, c)
        /\ r.contexts = a.contexts /\ r.configs = a.configs /\ r.adds = a.adds
        /\ r.bins = a.bins /\ r.caps = a.caps
    BY ONLY <1>2, <2>2 DEF AgentFields
  <2>4. IsSeq(Append(a.envs, c))
    BY ONLY <1>2, AppendIsSeq
  <2>5. WellFormed(r) /\ Bare(r)
    BY ONLY <1>2, <2>3, <2>4, FieldsOK
  <2> QED BY <1>1, <2>5 DEF Fresh
<1>10. CASE inst.op = "CAPABILITY"
  <2>0. PICK names : names = NonEmpty(inst.names)
    OBVIOUS
  <2>1. r = [a EXCEPT !.caps = Distinct(a.caps \o names)]
    BY <1>1, <1>10, <2>0 DEF applyInstruction
  <2>2. /\ DOMAIN r = AgentFields /\ r.caps = Distinct(a.caps \o names)
        /\ r.contexts = a.contexts /\ r.configs = a.configs /\ r.adds = a.adds
        /\ r.bins = a.bins /\ r.envs = a.envs
    BY ONLY <1>2, <2>1 DEF AgentFields
  <2>3. IsSeq(a.caps) /\ IsSeq(names)
    <3>1. PICK given, I : given = inst.names /\ I = {i \in DOMAIN given : given[i] # ""}
      OBVIOUS
    <3>2. PICK n \in Nat : I \subseteq 1 .. n
      BY <1>10, <3>1, SeqFacts
    <3>3. HasJust(Subsequence(given, I), given, I)
      BY ONLY <3>2, SubsequenceIsSeq
    <3> QED BY <1>2, <2>0, <3>1, <3>3 DEF NonEmpty, HasJust
  <2>4. IsSeq(a.caps \o names)
    BY ONLY <2>3, Concat
  <2>5. IsSeq(Distinct(a.caps \o names))
    BY ONLY <2>4, DistinctFacts
  <2>6. WellFormed(r) /\ Bare(r)
    BY ONLY <1>2, <2>2, <2>5, FieldsOK
  <2> QED BY <1>1, <2>6 DEF Fresh
<1> QED BY <1>3, <1>4, <1>5, <1>6, <1>7, <1>8, <1>9, <1>10 DEF Keywords

\* g follows the Agentfile through the first n instructions.
Applies(g, n, insts) == g = [i \in 0 .. n |-> IF i = 0 THEN newAgent ELSE applyInstruction(g[i - 1], insts[i])]

\* There is such a function: parse is well defined.
LEMMA AppliesExists == ASSUME NEW m \in Nat, NEW insts PROVE \E g : Applies(g, m, insts)
<1> DEFINE T == {n \in Nat : \E g : Applies(g, n, insts)}
<1>1. 0 \in T
  <2>1. PICK g : g = [i \in 0 .. 0 |-> newAgent]
    OBVIOUS
  <2>2. \A i \in 0 .. 0 : i = 0
    OBVIOUS
  <2>3. g = [i \in 0 .. 0 |-> IF i = 0 THEN newAgent ELSE applyInstruction(g[i - 1], insts[i])]
    BY <2>1, <2>2
  <2>4. Applies(g, 0, insts)
    BY <2>3 DEF Applies
  <2> QED BY <2>4
<1>2. ASSUME NEW n \in Nat, n \in T PROVE n + 1 \in T
  <2>1. PICK g : Applies(g, n, insts)
    BY <1>2
  <2>2. PICK h : h = [i \in 0 .. (n + 1) |-> IF i = n + 1 THEN applyInstruction(g[n], insts[n + 1]) ELSE g[i]]
    OBVIOUS
  <2>3. \A i \in 0 .. n : h[i] = g[i]
    BY <2>2
  <2>4. \A i \in 0 .. n : g[i] = IF i = 0 THEN newAgent ELSE applyInstruction(g[i - 1], insts[i])
    BY <2>1 DEF Applies
  <2>5. \A i \in 0 .. (n + 1) : h[i] = IF i = 0 THEN newAgent ELSE applyInstruction(h[i - 1], insts[i])
    <3> SUFFICES ASSUME NEW i \in 0 .. (n + 1)
                 PROVE  h[i] = IF i = 0 THEN newAgent ELSE applyInstruction(h[i - 1], insts[i])
      OBVIOUS
    <3>1. CASE i = n + 1
      <4>1. i # 0 /\ i - 1 = n /\ n \in 0 .. n
        BY <3>1
      <4> QED BY <2>2, <2>3, <3>1, <4>1
    <3>2. CASE i \in 0 .. n
      <4>1. i # 0 => i - 1 \in 0 .. n
        BY <3>2
      <4> QED BY <2>3, <2>4, <3>2, <4>1
    <3> QED BY <3>1, <3>2
  <2>6. Applies(h, n + 1, insts)
    BY <2>2, <2>5 DEF Applies
  <2> QED BY <2>6
<1>3. Nat \subseteq T
  <2> HIDE DEF T
  <2> QED BY <1>1, <1>2, SetInduction
<1> QED BY <1>3

\* The instructions that parse is given.
IsFile(insts) ==
    /\ IsSeq(insts)
    /\ \A i \in DOMAIN insts : insts[i].op \in Keywords /\ (insts[i].op = "CAPABILITY" => IsSeq(insts[i].names))

\* The empty Agentfile is fresh.
LEMMA NewAgentFresh == Fresh(newAgent)
<1>1. newAgent.adds = <<>> /\ DOMAIN <<>> = {}
  BY ShortSeqs DEF newAgent
<1>2. BareFiles(newAgent.adds)
  BY <1>1 DEF BareFiles
<1> QED BY <1>2, NewAgentOK DEF Fresh, Bare

\* Whatever is parsed is fresh, however many instructions there are.
LEMMA ParsedFresh == ASSUME NEW insts, IsFile(insts), parse(insts) # <<>> PROVE Fresh(parse(insts)[1])
<1>1. Len(insts) \in Nat /\ DOMAIN insts = 1 .. Len(insts)
  BY SeqFacts DEF IsFile
<1>2. PICK g : Applies(g, Len(insts), insts) /\ applied(insts) = g
  <2>1. \E g : Applies(g, Len(insts), insts)
    BY <1>1, AppliesExists
  <2>2. applied(insts) = CHOOSE g : Applies(g, Len(insts), insts)
    BY DEF applied, Applies
  <2> QED BY <2>1, <2>2
<1>3. \A i \in 0 .. Len(insts) : g[i] = IF i = 0 THEN newAgent ELSE applyInstruction(g[i - 1], insts[i])
  BY <1>2 DEF Applies
<1> DEFINE T == {m \in Nat : m <= Len(insts) => Fresh(g[m])}
<1>4. 0 \in T
  <2>1. g[0] = newAgent
    BY <1>1, <1>3
  <2> QED BY <2>1, NewAgentFresh
<1>5. ASSUME NEW m \in Nat, m \in T PROVE m + 1 \in T
  <2> SUFFICES ASSUME m + 1 <= Len(insts) PROVE Fresh(g[m + 1])
    OBVIOUS
  <2>1. m <= Len(insts) /\ m + 1 \in 0 .. Len(insts) /\ m + 1 # 0 /\ (m + 1) - 1 = m /\ m + 1 \in DOMAIN insts
    BY <1>1
  <2>2. g[m + 1] = applyInstruction(g[m], insts[m + 1])
    BY <1>3, <2>1
  <2>3. Fresh(g[m])
    BY <1>5, <2>1
  <2>4. PICK inst : inst = insts[m + 1]
    OBVIOUS
  <2>5. inst.op \in Keywords /\ (inst.op = "CAPABILITY" => IsSeq(inst.names))
    BY <2>1, <2>4 DEF IsFile
  <2>6. Fresh(applyInstruction(g[m], inst))
    BY ONLY <2>3, <2>5, ApplyFresh
  <2> QED BY ONLY <2>2, <2>4, <2>6
<1>6. Nat \subseteq T
  <2> HIDE DEF T
  <2> QED BY <1>4, <1>5, SetInduction
<1>7. Fresh(g[Len(insts)])
  BY <1>1, <1>6
<1>8. parse(insts) = <<applied(insts)[Len(insts)]>>
  BY DEF parse
<1>9. parse(insts)[1] = applied(insts)[Len(insts)]
  <2>1. PICK x : x = applied(insts)[Len(insts)]
    OBVIOUS
  <2>2. <<x>>[1] = x
    OBVIOUS
  <2> QED BY ONLY <1>8, <2>1, <2>2
<1> QED BY ONLY <1>2, <1>7, <1>9

-----------------------------------------------------------------------------
(* The inductive invariant of what builds carry and deployments load.         *)

\* The Agentfile of a build with local variables v, and its ancestors so far.
ChainOf(v) == <<v.own>> \o [i \in DOMAIN v.fetched |-> LoadHydrated(made[v.fetched[i]])]

\* agent and its layers, all of which could be read, are the manifest m.
BuiltFrom(m, agent, source) ==
    LET L == BuildLayers(agent, source, Sources[source].dir)
    IN  (\A i \in DOMAIN L : L[i] # <<>>) /\ m = Manifest(agent, [i \in DOMAIN L |-> L[i][1]])

CarryInv(b, v) ==
    /\ v.pc # "off" => v.src \in DOMAIN Sources
    /\ Fresh(v.own)
    /\ IsSeq(v.fetched) /\ \A i \in DOMAIN v.fetched : Packed(v.fetched[i])
    /\ v.pc = "push" => /\ v.agent = mergeChain(ChainOf(v))
                        /\ v.layers = BuildLayers(v.agent, v.src, Sources[v.src].dir)
                        /\ \A i \in 1 .. v.pushed : v.layers[i] # <<>>
    /\ v.pc = "manifest" => BuiltFrom(made[b], mergeChain(ChainOf(v)), v.src)

LoadInv(v) ==
    /\ v.pc \notin {"off", "idle"} => v.with \in Deploys
    /\ v.pc = "fetch" => v.m \in Digests
    /\ v.pc \in {"apply", "ok"} => v.config \in Digests
    /\ \A f \in v.bins : f.platform = HostPlatform

FlowInv ==
    /\ \A d \in Digests : WellBuilt(made[d])
    /\ \A b \in Builders : CarryInv(b, build[b])
    /\ \A d \in Deployers : LoadInv(deploy[d])

-----------------------------------------------------------------------------
(* What a build puts into its layers.                                         *)

LayerOf(media, title, data) == IF data = <<>> THEN <<>> ELSE <<Layer(media, title, data[1])>>

\* L has the layers of the contexts c and of the files f, in this order.
Layering(L, source, c, f, dir) ==
    /\ IsSeq(L) /\ Len(L) = 1 + Len(c) + Len(f)
    /\ L[1] = <<Layer("agentfile", "Agentfile", source)>>
    /\ \A i \in 1 .. Len(c) : L[1 + i] = LayerOf("context", c[i].name, resolveContextContent(c[i], dir))
    /\ \A i \in 1 .. Len(f) : L[1 + Len(c) + i] = LayerOf("file", f[i].name, AddContent(f[i], dir))

\* BuildLayers, position by position.
LEMMA LayersAre ==
    ASSUME NEW a, WellFormed(a), NEW source, NEW dir
    PROVE  Layering(BuildLayers(a, source, dir), source, a.contexts, a.adds, dir)
<1>1. PICK c, f : c = a.contexts /\ f = a.adds
  OBVIOUS
<1>2. IsSeq(c) /\ IsSeq(f)
  BY <1>1 DEF WellFormed, Lists
<1>3. Len(c) \in Nat /\ Len(f) \in Nat /\ DOMAIN c = 1 .. Len(c) /\ DOMAIN f = 1 .. Len(f)
  BY <1>2, SeqFacts
<1>4. PICK A : A = << <<Layer("agentfile", "Agentfile", source)>> >>
  OBVIOUS
<1>5. PICK B : B = [i \in DOMAIN c |-> LayerOf("context", c[i].name, resolveContextContent(c[i], dir))]
  OBVIOUS
<1>6. PICK C : C = [i \in DOMAIN f |-> LayerOf("file", f[i].name, AddContent(f[i], dir))]
  OBVIOUS
<1>7. BuildLayers(a, source, dir) = (A \o B) \o C
  BY <1>1, <1>4, <1>5, <1>6 DEF BuildLayers, LayerOf
<1>8. IsSeq(A) /\ Len(A) = 1 /\ A[1] = <<Layer("agentfile", "Agentfile", source)>>
  BY ONLY <1>4, ShortSeqs
<1>9. IsSeq(B) /\ Len(B) = Len(c)
  <2>1. DOMAIN B = 1 .. Len(c) /\ B = [i \in 1 .. Len(c) |-> B[i]]
    BY <1>3, <1>5
  <2> QED BY ONLY <1>3, <2>1, FunIsSeq
<1>10. IsSeq(C) /\ Len(C) = Len(f)
  <2>1. DOMAIN C = 1 .. Len(f) /\ C = [i \in 1 .. Len(f) |-> C[i]]
    BY <1>3, <1>6
  <2> QED BY ONLY <1>3, <2>1, FunIsSeq
<1>11. PICK D : D = A \o B
  OBVIOUS
<1>12. /\ IsSeq(D) /\ Len(D) = Len(A) + Len(B)
       /\ \A i \in 1 .. Len(A) : D[i] = A[i]
       /\ \A j \in 1 .. Len(B) : D[Len(A) + j] = B[j]
  <2>1. IsSeq(A) /\ IsSeq(B)
    BY ONLY <1>8, <1>9
  <2>2. /\ IsSeq(A \o B) /\ Len(A \o B) = Len(A) + Len(B)
        /\ \A i \in 1 .. Len(A) : (A \o B)[i] = A[i]
        /\ \A j \in 1 .. Len(B) : (A \o B)[Len(A) + j] = B[j]
    BY ONLY <2>1, Concat
  <2> QED BY ONLY <1>11, <2>2
<1>13. PICK L : L = D \o C
  OBVIOUS
<1>14. /\ IsSeq(L) /\ Len(L) = Len(D) + Len(C)
       /\ \A i \in 1 .. Len(D) : L[i] = D[i]
       /\ \A j \in 1 .. Len(C) : L[Len(D) + j] = C[j]
  <2>1. IsSeq(D) /\ IsSeq(C)
    BY ONLY <1>10, <1>12
  <2>2. /\ IsSeq(D \o C) /\ Len(D \o C) = Len(D) + Len(C)
        /\ \A i \in 1 .. Len(D) : (D \o C)[i] = D[i]
        /\ \A j \in 1 .. Len(C) : (D \o C)[Len(D) + j] = C[j]
    BY ONLY <2>1, Concat
  <2> QED BY ONLY <1>13, <2>2
<1>15. IsSeq(L) /\ Len(L) = 1 + Len(c) + Len(f)
  BY ONLY <1>8, <1>9, <1>10, <1>12, <1>14
<1>16. L[1] = <<Layer("agentfile", "Agentfile", source)>>
  <2>1. 1 \in 1 .. Len(D) /\ 1 \in 1 .. Len(A)
    BY ONLY <1>3, <1>8, <1>9, <1>12
  <2> QED BY ONLY <1>8, <1>12, <1>14, <2>1
<1>17. ASSUME NEW i \in 1 .. Len(c) PROVE L[1 + i] = LayerOf("context", c[i].name, resolveContextContent(c[i], dir))
  <2>1. 1 + i \in 1 .. Len(D) /\ i \in 1 .. Len(B) /\ i \in DOMAIN c
    BY ONLY <1>3, <1>8, <1>9, <1>12, <1>17
  <2>2. L[1 + i] = B[i]
    BY ONLY <1>8, <1>12, <1>14, <2>1
  <2> QED BY ONLY <1>5, <2>1, <2>2
<1>18. ASSUME NEW i \in 1 .. Len(f) PROVE L[1 + Len(c) + i] = LayerOf("file", f[i].name, AddContent(f[i], dir))
  <2>1. Len(D) + i = 1 + Len(c) + i /\ i \in 1 .. Len(C) /\ i \in DOMAIN f
    BY ONLY <1>3, <1>8, <1>9, <1>10, <1>12, <1>18
  <2>2. L[1 + Len(c) + i] = C[i]
    BY ONLY <1>14, <2>1
  <2> QED BY ONLY <1>6, <2>1, <2>2
<1>19. Layering(L, source, c, f, dir)
  BY ONLY <1>15, <1>16, <1>17, <1>18 DEF Layering
<1> QED BY ONLY <1>1, <1>7, <1>11, <1>13, <1>19

\* The last of some positions that are k further on.
LEMMA ShiftedLast ==
    ASSUME NEW k \in Nat, NEW n \in Nat, NEW A, A \subseteq 1 .. n, A # {}, NEW F, F = {k + i : i \in A}
    PROVE  F # {} /\ Max(F) = k + Max(A)
<1>1. Max(A) \in A /\ \A x \in A : x <= Max(A)
  BY MaxFacts
<1>2. PICK m \in A : m = Max(A) /\ m \in Nat /\ \A x \in A : x <= m
  <2>1. \A x \in A : x \in Nat
    OBVIOUS
  <2> QED BY ONLY <1>1, <2>1
<1>3. F \subseteq 1 .. (k + n) /\ k + n \in Nat
  OBVIOUS
<1>4. k + m \in F
  BY <1>2
<1>5. \A y \in F : y <= k + m
  <2> SUFFICES ASSUME NEW x \in A PROVE k + x <= k + m
    OBVIOUS
  <2>1. x \in Nat /\ x <= m
    BY <1>2
  <2> QED BY ONLY <1>2, <2>1, k \in Nat
<1> QED BY <1>2, <1>3, <1>4, <1>5, MaxIs

\* M has, for every entry of s, a layer of this media type at k further on, and
\* no other layers of it.
Holds(M, media, s, k) ==
    /\ \A i \in DOMAIN s : k + i \in DOMAIN M /\ M[k + i].media = media /\ M[k + i].title = s[i].name
    /\ \A j \in DOMAIN M : M[j].media = media => \E i \in DOMAIN s : j = k + i

\* So the layer that Titled finds is that of the last entry of the name.
LEMMA TitledLast ==
    ASSUME NEW M, NEW media, NEW s, IsSeq(s), NEW k \in Nat, Holds(M, media, s, k), NEW n \in DOMAIN LastNamed(s)
    PROVE  \E i \in DOMAIN s : LastNamed(s)[n] = s[i] /\ s[i].name = n /\ Titled(M, media, n) = <<M[k + i].data>>
<1>1. PICK i \in DOMAIN s : LastNamed(s)[n] = s[i] /\ s[i].name = n /\ i = Max(NamedAt(s, n))
  BY LastIsOne
<1>2. PICK F : F = {j \in DOMAIN M : M[j].media = media /\ M[j].title = n}
  OBVIOUS
<1>3. Len(s) \in Nat /\ DOMAIN s = 1 .. Len(s)
  BY SeqFacts
<1>4. F = {k + j : j \in NamedAt(s, n)}
  <2>1. \A j \in NamedAt(s, n) : k + j \in F
    BY <1>2 DEF NamedAt, Holds
  <2>2. \A j \in F : \E h \in NamedAt(s, n) : j = k + h
    BY <1>2 DEF NamedAt, Holds
  <2> QED BY ONLY <2>1, <2>2
<1>5. NamedAt(s, n) \subseteq 1 .. Len(s) /\ NamedAt(s, n) # {}
  BY <1>1, <1>3 DEF NamedAt
<1>6. F # {} /\ Max(F) = k + i
  <2>1. PICK A : A = NamedAt(s, n)
    OBVIOUS
  <2>2. A \subseteq 1 .. Len(s) /\ A # {} /\ F = {k + j : j \in A} /\ Len(s) \in Nat /\ k \in Nat
    BY ONLY <1>3, <1>4, <1>5, <2>1, k \in Nat
  <2>3. F # {} /\ Max(F) = k + Max(A)
    BY ONLY <2>2, ShiftedLast
  <2> QED BY ONLY <1>1, <2>1, <2>3
<1>7. Titled(M, media, n) = <<M[k + i].data>>
  BY <1>2, <1>6 DEF Titled
<1> QED BY <1>1, <1>7

\* A layer that could be read.
LEMMA LayerFacts ==
    ASSUME NEW media, NEW title, NEW data, LayerOf(media, title, data) # <<>>
    PROVE  /\ data # <<>>
           /\ LayerOf(media, title, data)[1] = [media |-> media, title |-> title, data |-> data[1]]
BY DEF LayerOf, Layer

\* A content is one or none.
LEMMA ContentFacts ==
    ASSUME NEW c, NEW dir
    PROVE  /\ resolveContextContent(c, dir) # <<>> =>
                  resolveContextContent(c, dir) = <<resolveContextContent(c, dir)[1]>>
           /\ AddContent(c, dir) # <<>> => AddContent(c, dir) = <<AddContent(c, dir)[1]>>
BY DEF resolveContextContent, AddContent, readFile

\* The layers of contexts and files with their contents.
Carries(M, c, f, dir) ==
    /\ IsSeq(M)
    /\ Holds(M, "context", c, 1) /\ Holds(M, "file", f, 1 + Len(c))
    /\ \A i \in DOMAIN c : resolveContextContent(c[i], dir) = <<M[1 + i].data>>
    /\ \A i \in DOMAIN f : AddContent(f[i], dir) = <<M[1 + Len(c) + i].data>>

\* A manifest carries what it was built from.
LEMMA BuiltCarries ==
    ASSUME NEW L, NEW source, NEW c, NEW f, NEW dir, IsSeq(c), IsSeq(f), Layering(L, source, c, f, dir),
           \A i \in DOMAIN L : L[i] # <<>>, NEW M, M = [i \in DOMAIN L |-> L[i][1]]
    PROVE  Carries(M, c, f, dir)
<1>1. /\ Len(c) \in Nat /\ Len(f) \in Nat /\ DOMAIN c = 1 .. Len(c) /\ DOMAIN f = 1 .. Len(f)
      /\ Len(L) \in Nat /\ DOMAIN L = 1 .. Len(L) /\ Len(L) = 1 + Len(c) + Len(f)
  BY SeqFacts DEF Layering
<1>2. DOMAIN M = DOMAIN L /\ \A i \in DOMAIN L : M[i] = L[i][1]
  OBVIOUS
<1>3. IsSeq(M)
  <2>1. DOMAIN M = 1 .. Len(L) /\ M = [i \in 1 .. Len(L) |-> M[i]]
    BY <1>1, <1>2
  <2> QED BY ONLY <1>1, <2>1, FunIsSeq
<1>4. ASSUME NEW i \in DOMAIN c
      PROVE  /\ 1 + i \in DOMAIN M
             /\ M[1 + i].media = "context" /\ M[1 + i].title = c[i].name
             /\ M[1 + i].data = resolveContextContent(c[i], dir)[1]
             /\ resolveContextContent(c[i], dir) # <<>>
  <2>1. i \in 1 .. Len(c) /\ 1 + i \in DOMAIN L
    BY <1>1
  <2>2. PICK data : data = resolveContextContent(c[i], dir)
    OBVIOUS
  <2>3. L[1 + i] = LayerOf("context", c[i].name, data)
    BY <2>1, <2>2 DEF Layering
  <2>4. LayerOf("context", c[i].name, data) # <<>>
    BY <2>1, <2>3
  <2>5. /\ data # <<>>
        /\ LayerOf("context", c[i].name, data)[1] = [media |-> "context", title |-> c[i].name, data |-> data[1]]
    BY ONLY <2>4, LayerFacts
  <2>6. M[1 + i] = [media |-> "context", title |-> c[i].name, data |-> data[1]]
    BY ONLY <1>2, <2>1, <2>3, <2>5
  <2>7. M[1 + i].media = "context" /\ M[1 + i].title = c[i].name /\ M[1 + i].data = data[1]
    BY ONLY <2>6
  <2> QED BY ONLY <1>2, <2>1, <2>2, <2>5, <2>7
<1>5. ASSUME NEW i \in DOMAIN f
      PROVE  /\ 1 + Len(c) + i \in DOMAIN M
             /\ M[1 + Len(c) + i].media = "file" /\ M[1 + Len(c) + i].title = f[i].name
             /\ M[1 + Len(c) + i].data = AddContent(f[i], dir)[1]
             /\ AddContent(f[i], dir) # <<>>
  <2>1. i \in 1 .. Len(f) /\ 1 + Len(c) + i \in DOMAIN L
    BY <1>1
  <2>2. PICK data : data = AddContent(f[i], dir)
    OBVIOUS
  <2>3. L[1 + Len(c) + i] = LayerOf("file", f[i].name, data)
    BY <2>1, <2>2 DEF Layering
  <2>4. LayerOf("file", f[i].name, data) # <<>>
    BY <2>1, <2>3
  <2>5. /\ data # <<>>
        /\ LayerOf("file", f[i].name, data)[1] = [media |-> "file", title |-> f[i].name, data |-> data[1]]
    BY ONLY <2>4, LayerFacts
  <2>6. M[1 + Len(c) + i] = [media |-> "file", title |-> f[i].name, data |-> data[1]]
    BY ONLY <1>2, <2>1, <2>3, <2>5
  <2>7. M[1 + Len(c) + i].media = "file" /\ M[1 + Len(c) + i].title = f[i].name /\ M[1 + Len(c) + i].data = data[1]
    BY ONLY <2>6
  <2> QED BY ONLY <1>2, <2>1, <2>2, <2>5, <2>7
<1>6. M[1].media = "agentfile"
  <2>1. 1 \in DOMAIN L
    BY <1>1
  <2>2. PICK l : l = Layer("agentfile", "Agentfile", source)
    OBVIOUS
  <2>3. L[1] = <<l>> /\ l.media = "agentfile"
    BY <2>2 DEF Layering, Layer
  <2> QED BY ONLY <1>2, <2>1, <2>3
<1>7. \A j \in DOMAIN M : j = 1 \/ (\E i \in DOMAIN c : j = 1 + i) \/ (\E i \in DOMAIN f : j = 1 + Len(c) + i)
  <2> SUFFICES ASSUME NEW j \in DOMAIN M, j # 1, ~\E i \in DOMAIN f : j = 1 + Len(c) + i
               PROVE  \E i \in DOMAIN c : j = 1 + i
    OBVIOUS
  <2>1. j \in Nat /\ 1 <= j /\ j <= 1 + Len(c) + Len(f)
    BY <1>1, <1>2
  <2>2. CASE j <= 1 + Len(c)
    <3>1. j - 1 \in DOMAIN c /\ j = 1 + (j - 1)
      BY <1>1, <2>1, <2>2
    <3> QED BY <3>1
  <2>3. CASE j > 1 + Len(c)
    <3>1. j - (1 + Len(c)) \in DOMAIN f /\ j = 1 + Len(c) + (j - (1 + Len(c)))
      BY <1>1, <2>1, <2>3
    <3> QED BY <3>1
  <2> QED BY <1>1, <2>1, <2>2, <2>3
<1>8. Holds(M, "context", c, 1)
  <2>1. \A i \in DOMAIN c : 1 + i \in DOMAIN M /\ M[1 + i].media = "context" /\ M[1 + i].title = c[i].name
    BY <1>4
  <2>2. \A i \in DOMAIN f : M[1 + Len(c) + i].media = "file"
    BY <1>5
  <2>3. \A j \in DOMAIN M : M[j].media = "context" => \E i \in DOMAIN c : j = 1 + i
    BY ONLY <1>6, <1>7, <2>2
  <2> QED BY ONLY <2>1, <2>3 DEF Holds
<1>9. Holds(M, "file", f, 1 + Len(c))
  <2>1. \A i \in DOMAIN f : /\ (1 + Len(c)) + i \in DOMAIN M
                            /\ M[(1 + Len(c)) + i].media = "file" /\ M[(1 + Len(c)) + i].title = f[i].name
    BY <1>5
  <2>2. \A i \in DOMAIN c : M[1 + i].media = "context"
    BY <1>4
  <2>3. \A j \in DOMAIN M : M[j].media = "file" => \E i \in DOMAIN f : j = (1 + Len(c)) + i
    BY ONLY <1>6, <1>7, <2>2
  <2> QED BY ONLY <2>1, <2>3 DEF Holds
<1>10. \A i \in DOMAIN c : resolveContextContent(c[i], dir) = <<M[1 + i].data>>
  <2> SUFFICES ASSUME NEW i \in DOMAIN c PROVE resolveContextContent(c[i], dir) = <<M[1 + i].data>>
    OBVIOUS
  <2>1. resolveContextContent(c[i], dir) = <<resolveContextContent(c[i], dir)[1]>>
    BY <1>4, ContentFacts
  <2>2. M[1 + i].data = resolveContextContent(c[i], dir)[1]
    BY <1>4
  <2> QED BY ONLY <2>1, <2>2
<1>11. \A i \in DOMAIN f : AddContent(f[i], dir) = <<M[1 + Len(c) + i].data>>
  <2> SUFFICES ASSUME NEW i \in DOMAIN f PROVE AddContent(f[i], dir) = <<M[1 + Len(c) + i].data>>
    OBVIOUS
  <2>1. AddContent(f[i], dir) = <<AddContent(f[i], dir)[1]>>
    BY <1>5, ContentFacts
  <2>2. M[1 + Len(c) + i].data = AddContent(f[i], dir)[1]
    BY <1>5
  <2> QED BY ONLY <2>1, <2>2
<1> QED BY ONLY <1>3, <1>8, <1>9, <1>10, <1>11 DEF Carries

\* What Titled finds in it.
Finds(M, c, f, dir) ==
    /\ \A n \in DOMAIN LastNamed(c) : Titled(M, "context", n) = resolveContextContent(LastNamed(c)[n], dir)
    /\ \A n \in DOMAIN LastNamed(f) : Titled(M, "file", n) = AddContent(LastNamed(f)[n], dir)

\* The content of the last context and of the last file of each name.
LEMMA CarriesFinds ==
    ASSUME NEW M, NEW c, NEW f, NEW dir, IsSeq(c), IsSeq(f), Carries(M, c, f, dir) PROVE Finds(M, c, f, dir)
<1>1. Holds(M, "context", c, 1) /\ Holds(M, "file", f, 1 + Len(c)) /\ Len(c) \in Nat
  BY SeqFacts DEF Carries
<1>2. ASSUME NEW n \in DOMAIN LastNamed(c)
      PROVE  Titled(M, "context", n) = resolveContextContent(LastNamed(c)[n], dir)
  <2>1. PICK i \in DOMAIN c : LastNamed(c)[n] = c[i] /\ Titled(M, "context", n) = <<M[1 + i].data>>
    <3>1. PICK k \in Nat : k = 1
      OBVIOUS
    <3>2. Holds(M, "context", c, k)
      BY <1>1, <3>1
    <3>3. \E i \in DOMAIN c : LastNamed(c)[n] = c[i] /\ Titled(M, "context", n) = <<M[k + i].data>>
      BY <1>2, <3>2, TitledLast
    <3> QED BY ONLY <3>1, <3>3
  <2>2. resolveContextContent(c[i], dir) = <<M[1 + i].data>>
    BY DEF Carries
  <2> QED BY ONLY <2>1, <2>2
<1>3. ASSUME NEW n \in DOMAIN LastNamed(f) PROVE Titled(M, "file", n) = AddContent(LastNamed(f)[n], dir)
  <2>1. PICK k \in Nat : k = 1 + Len(c)
    BY <1>1
  <2>2. Holds(M, "file", f, k)
    BY <1>1, <2>1
  <2>3. PICK i \in DOMAIN f : LastNamed(f)[n] = f[i] /\ Titled(M, "file", n) = <<M[k + i].data>>
    BY <1>3, <2>2, TitledLast
  <2>4. AddContent(f[i], dir) = <<M[k + i].data>>
    BY <2>1 DEF Carries
  <2> QED BY ONLY <2>3, <2>4
<1> QED BY ONLY <1>2, <1>3 DEF Finds

\* What a build makes is well built.
LEMMA BuiltWell ==
    ASSUME NEW m, NEW a, WellFormed(a), NEW source, BuiltFrom(m, a, source)
    PROVE  WellBuilt(m) /\ m.config = configBlob(a) /\ Carries(m.layers, a.contexts, a.adds, Sources[source].dir)
<1>1. PICK dir : dir = Sources[source].dir
  OBVIOUS
<1>2. PICK L : L = BuildLayers(a, source, dir)
  OBVIOUS
<1>3. PICK M : M = [i \in DOMAIN L |-> L[i][1]]
  OBVIOUS
<1>4. (\A i \in DOMAIN L : L[i] # <<>>) /\ m = Manifest(a, M)
  BY <1>1, <1>2, <1>3 DEF BuiltFrom
<1>5. m.config = configBlob(a) /\ m.layers = M
  BY <1>4 DEF Manifest
<1>6. PICK c, f : c = a.contexts /\ f = a.adds
  OBVIOUS
<1>7. IsSeq(c) /\ IsSeq(f) /\ Lists(f, {"name", "src", "content"})
  BY <1>6 DEF WellFormed, Lists
<1>8. Layering(L, source, c, f, dir)
  <2>1. Layering(BuildLayers(a, source, dir), source, a.contexts, a.adds, dir)
    BY LayersAre
  <2> QED BY ONLY <1>2, <1>6, <2>1
<1>9. Carries(M, c, f, dir)
  BY ONLY <1>3, <1>4, <1>7, <1>8, BuiltCarries
<1>10. WellFormed(configBlob(a))
  BY BlobOK
<1>11. PICK q : q = configBlob(a)
  OBVIOUS
<1>12. q.contexts = c /\ Names(q.adds) = Names(f)
  <2>1. q.contexts = c /\ q.adds = [i \in DOMAIN f |-> [f[i] EXCEPT !.content = ""]]
    <3>1. /\ configBlob(a).contexts = a.contexts
          /\ configBlob(a).adds = [i \in DOMAIN a.adds |-> [a.adds[i] EXCEPT !.content = ""]]
      BY BlobFields
    <3> QED BY ONLY <1>6, <1>11, <3>1
  <2>2. Stripped(q.adds, f)
    BY <1>7, <2>1 DEF Stripped
  <2>3. SameNames(q.adds, f)
    BY ONLY <2>2, StrippedNames
  <2>4. DOMAIN LastNamed(q.adds) = Names(q.adds) /\ DOMAIN LastNamed(f) = Names(f)
    BY ONLY LastFacts
  <2> QED BY <2>1, <2>3, <2>4 DEF SameNames
<1>13. ASSUME NEW j \in DOMAIN M
       PROVE  /\ M[j].media = "context" => M[j].title \in Names(c)
              /\ M[j].media = "file" => M[j].title \in Names(f)
  <2>1. M[j].media = "context" => \E i \in DOMAIN c : M[j].title = c[i].name
    BY <1>9 DEF Carries, Holds
  <2>2. M[j].media = "file" => \E i \in DOMAIN f : M[j].title = f[i].name
    BY <1>9 DEF Carries, Holds
  <2> QED BY ONLY <2>1, <2>2 DEF Names
<1>14. ASSUME NEW n \in Names(c), LastNamed(c)[n].content # ""
       PROVE  Titled(M, "context", n) = <<LastNamed(c)[n].content>>
  <2>1. Finds(M, c, f, dir)
    BY ONLY <1>7, <1>9, CarriesFinds
  <2>2. n \in DOMAIN LastNamed(c)
    BY ONLY n \in Names(c), LastFacts
  <2>3. Titled(M, "context", n) = resolveContextContent(LastNamed(c)[n], dir)
    BY <2>1, <2>2 DEF Finds
  <2> QED BY <1>14, <2>3 DEF resolveContextContent
<1>15. WellBuilt(m)
  <2>1. IsSeq(M)
    BY <1>9 DEF Carries
  <2> QED BY ONLY <1>5, <1>10, <1>11, <1>12, <1>13, <1>14, <2>1 DEF WellBuilt
<1> QED BY ONLY <1>1, <1>5, <1>6, <1>9, <1>15

\* Entries that are rewritten and keep their names.
LEMMA MapNames ==
    ASSUME NEW s, IsSeq(s), NEW u, DOMAIN u = DOMAIN s, \A i \in DOMAIN s : u[i].name = s[i].name,
           NEW n \in DOMAIN LastNamed(s)
    PROVE  n \in DOMAIN LastNamed(u) /\ \E i \in DOMAIN s : LastNamed(s)[n] = s[i] /\ LastNamed(u)[n] = u[i]
<1>1. PICK i \in DOMAIN s : LastNamed(s)[n] = s[i] /\ s[i].name = n /\ i = Max(NamedAt(s, n))
  BY LastIsOne
<1>2. NamedAt(u, n) = NamedAt(s, n)
  BY DEF NamedAt
<1>3. NamedAt(s, n) # {}
  BY ONLY n \in DOMAIN LastNamed(s), LastFacts
<1>4. n \in DOMAIN LastNamed(u) /\ LastNamed(u)[n] = u[Max(NamedAt(u, n))]
  <2>1. n \in DOMAIN LastNamed(u)
    BY ONLY <1>2, <1>3, LastFacts
  <2> QED BY ONLY <2>1, LastFacts
<1> QED BY ONLY <1>1, <1>2, <1>4

\* What is found is one content.
LEMMA TitledFacts ==
    ASSUME NEW layers, NEW media, NEW n, Titled(layers, media, n) # <<>>
    PROVE  /\ \E d : Titled(layers, media, n) = <<d>>
           /\ \E i \in DOMAIN layers : layers[i].media = media /\ layers[i].title = n
BY DEF Titled

\* A hydrated context has the content of its layer, and no file to read when
\* that is empty.
LEMMA HydratedContext ==
    ASSUME NEW m, WellBuilt(m), NEW n, NEW d, Titled(m.layers, "context", n) = <<d>>
    PROVE  LET p == LoadHydrated(m)
           IN  n \in DOMAIN LastNamed(p.contexts) /\ \A dir : resolveContextContent(LastNamed(p.contexts)[n], dir) = <<d>>
<1>1. PICK s, u : s = m.config.contexts /\ u = LoadHydrated(m).contexts
  OBVIOUS
<1>2. WellFormed(m.config) /\ Lists(s, {"name", "file", "content"})
  BY <1>1 DEF WellBuilt, WellFormed
<1>3. DOMAIN u = DOMAIN s /\ \A i \in DOMAIN s : u[i] = HydrateContext(m.layers, s[i])
  <2>1. LoadHydrated(m).contexts = [i \in DOMAIN m.config.contexts |-> HydrateContext(m.layers, m.config.contexts[i])]
    BY <1>2, HydratedFields
  <2> QED BY <1>1, <2>1
<1>4. ASSUME NEW i \in DOMAIN s PROVE u[i].name = s[i].name
  <2>1. DOMAIN s[i] = {"name", "file", "content"}
    BY <1>2 DEF Lists
  <2>2. HydrateContext(m.layers, s[i]).name = s[i].name
    BY ONLY <2>1, HydrateContextKeeps
  <2> QED BY <1>3, <2>2
<1>5. n \in Names(s)
  <2>1. Titled(m.layers, "context", n) # <<>>
    OBVIOUS
  <2>2. PICK i \in DOMAIN m.layers : m.layers[i].media = "context" /\ m.layers[i].title = n
    BY ONLY <2>1, TitledFacts
  <2> QED BY <1>1, <2>2 DEF WellBuilt
<1>6. n \in DOMAIN LastNamed(s)
  BY ONLY <1>5, LastFacts
<1>7. n \in DOMAIN LastNamed(u) /\ \E i \in DOMAIN s : LastNamed(s)[n] = s[i] /\ LastNamed(u)[n] = u[i]
  <2>1. IsSeq(s)
    BY <1>2 DEF Lists
  <2> QED BY ONLY <1>3, <1>4, <1>6, <2>1, MapNames
<1>8. PICK i \in DOMAIN s : LastNamed(s)[n] = s[i] /\ LastNamed(u)[n] = u[i] /\ s[i].name = n
  <2>1. IsSeq(s)
    BY <1>2 DEF Lists
  <2>2. PICK i \in DOMAIN s : LastNamed(s)[n] = s[i] /\ LastNamed(u)[n] = u[i]
    BY <1>7
  <2>3. LastNamed(s)[n].name = n
    BY ONLY <1>6, <2>1, LastIsOne
  <2> QED BY ONLY <2>2, <2>3
<1>9. s[i].content # "" => <<s[i].content>> = <<d>>
  BY <1>1, <1>5, <1>8 DEF WellBuilt
<1>10. PICK e : e = s[i]
  OBVIOUS
<1>11. DOMAIN e = {"name", "file", "content"} /\ e.name = n
  BY <1>2, <1>8, <1>10 DEF Lists
<1>12. ASSUME NEW dir PROVE resolveContextContent(u[i], dir) = <<d>>
  <2>1. CASE e.content # ""
    <3>1. u[i] = e
      BY <1>3, <1>10, <2>1 DEF HydrateContext
    <3> QED BY <1>9, <1>10, <2>1, <3>1 DEF resolveContextContent
  <2>2. CASE e.content = ""
    <3>1. PICK one : one = <<d>> /\ one[1] = d /\ one # <<>>
      OBVIOUS
    <3>2. u[i] = [e EXCEPT !.content = d, !.file = ""]
      <4>1. Titled(m.layers, "context", e.name) = one
        BY <1>11, <3>1
      <4>2. HydrateContext(m.layers, e) = [e EXCEPT !.content = one[1], !.file = ""]
        BY ONLY <2>2, <3>1, <4>1 DEF HydrateContext
      <4> QED BY ONLY <1>3, <1>10, <3>1, <4>2
    <3>3. u[i].content = d /\ u[i].file = ""
      BY <1>11, <3>2
    <3> QED BY <3>3 DEF resolveContextContent
  <2> QED BY <2>1, <2>2
<1> QED BY ONLY <1>1, <1>7, <1>8, <1>12

\* A hydrated file has the content of its layer.
LEMMA HydratedFile ==
    ASSUME NEW m, WellBuilt(m), NEW n, NEW d, Titled(m.layers, "file", n) = <<d>>, d # ""
    PROVE  LET p == LoadHydrated(m)
           IN  n \in DOMAIN LastNamed(p.adds) /\ \A dir : AddContent(LastNamed(p.adds)[n], dir) = <<d>>
<1>1. PICK s, u : s = m.config.adds /\ u = LoadHydrated(m).adds
  OBVIOUS
<1>2. WellFormed(m.config) /\ Lists(s, {"name", "src", "content"})
  BY <1>1 DEF WellBuilt, WellFormed
<1>3. DOMAIN u = DOMAIN s /\ \A i \in DOMAIN s : u[i] = HydrateAdd(m.layers, s[i])
  <2>1. LoadHydrated(m).adds = [i \in DOMAIN m.config.adds |-> HydrateAdd(m.layers, m.config.adds[i])]
    BY <1>2, HydratedFields
  <2> QED BY <1>1, <2>1
<1>4. ASSUME NEW i \in DOMAIN s PROVE u[i].name = s[i].name
  <2>1. DOMAIN s[i] = {"name", "src", "content"}
    BY <1>2 DEF Lists
  <2>2. HydrateAdd(m.layers, s[i]).name = s[i].name
    BY ONLY <2>1, HydrateAddKeeps
  <2> QED BY <1>3, <2>2
<1>5. n \in Names(s)
  <2>1. Titled(m.layers, "file", n) # <<>>
    <3>1. <<d>> # <<>>
      OBVIOUS
    <3> QED BY ONLY <3>1, Titled(m.layers, "file", n) = <<d>>
  <2>2. PICK i \in DOMAIN m.layers : m.layers[i].media = "file" /\ m.layers[i].title = n
    BY ONLY <2>1, TitledFacts
  <2> QED BY <1>1, <2>2 DEF WellBuilt
<1>6. n \in DOMAIN LastNamed(s)
  BY ONLY <1>5, LastFacts
<1>7. n \in DOMAIN LastNamed(u) /\ \E i \in DOMAIN s : LastNamed(s)[n] = s[i] /\ LastNamed(u)[n] = u[i]
  <2>1. IsSeq(s)
    BY <1>2 DEF Lists
  <2> QED BY ONLY <1>3, <1>4, <1>6, <2>1, MapNames
<1>8. PICK i \in DOMAIN s : LastNamed(u)[n] = u[i] /\ s[i].name = n
  <2>1. IsSeq(s)
    BY <1>2 DEF Lists
  <2>2. PICK i \in DOMAIN s : LastNamed(s)[n] = s[i] /\ LastNamed(u)[n] = u[i]
    BY <1>7
  <2>3. LastNamed(s)[n].name = n
    BY ONLY <1>6, <2>1, LastIsOne
  <2> QED BY ONLY <2>2, <2>3
<1>9. PICK e : e = s[i]
  OBVIOUS
<1>10. DOMAIN e = {"name", "src", "content"} /\ e.name = n
  BY <1>2, <1>8, <1>9 DEF Lists
<1>11. u[i] = [e EXCEPT !.content = d]
  <2>1. <<d>>[1] = d /\ <<d>> # <<>>
    OBVIOUS
  <2> QED BY <1>3, <1>9, <1>10, <2>1 DEF HydrateAdd
<1>12. u[i].content = d
  BY <1>10, <1>11
<1>13. \A dir : AddContent(u[i], dir) = <<d>>
  BY <1>12 DEF AddContent
<1> QED BY ONLY <1>1, <1>7, <1>8, <1>13

\* What was inherited keeps its content.
KeepsContents(M, parent, c) ==
    /\ \A n : Titled(parent.layers, "context", n) # <<>> /\ n \notin Names(c.contexts) =>
                 Titled(M, "context", n) = Titled(parent.layers, "context", n)
    /\ \A n : /\ Titled(parent.layers, "file", n) # <<>> /\ Titled(parent.layers, "file", n) # <<"">>
              /\ n \notin Names(c.adds)
              => Titled(M, "file", n) = Titled(parent.layers, "file", n)

\* For any child and parent artifact, whatever is above the parent.
LEMMA ContentsMerged ==
    ASSUME NEW parent, WellBuilt(parent), NEW x, Inherits(x, LoadHydrated(parent)), NEW c, WellFormed(c),
           NEW M, NEW dir, Carries(M, mergeAgent(x, c).contexts, mergeAgent(x, c).adds, dir)
    PROVE  KeepsContents(M, parent, c)
<1>1. PICK p, a : p = LoadHydrated(parent) /\ a = mergeAgent(x, c)
  OBVIOUS
<1>2. WellFormed(p) /\ WellFormed(x)
  BY <1>1, HydratedOK DEF WellBuilt, Inherits
<1>3. WellFormed(a)
  BY <1>1, <1>2, MergeOK
<1>4. /\ IsSeq(x.contexts) /\ IsSeq(c.contexts) /\ IsSeq(x.adds) /\ IsSeq(c.adds)
      /\ IsSeq(a.contexts) /\ IsSeq(a.adds)
  BY <1>2, <1>3 DEF WellFormed, Lists
<1>5. Inherits(x, p)
  BY <1>1
<1>6. /\ x.contexts = p.contexts \/ \E y : NamesOver(x.contexts, p.contexts, y)
      /\ x.adds = p.adds \/ \E y : NamesOver(x.adds, p.adds, y)
  BY <1>2, <1>5, InheritsLists
<1>7. NamesOver(a.contexts, c.contexts, x.contexts) /\ NamesOver(a.adds, c.adds, x.adds)
  <2>1. a.contexts = mergeContexts(x.contexts, c.contexts) /\ a.adds = x.adds \o c.adds
    BY <1>1, MergeFields
  <2>2. Merges(mergeContexts(x.contexts, c.contexts), c.contexts, x.contexts)
    BY ONLY <1>4, MergedContexts
  <2>3. NamesOver(mergeContexts(x.contexts, c.contexts), c.contexts, x.contexts)
    BY ONLY <2>2 DEF Merges
  <2>4. NamesOver(x.adds \o c.adds, c.adds, x.adds)
    BY ONLY <1>4, ConcatNames
  <2> QED BY ONLY <2>1, <2>3, <2>4
<1>8. Finds(M, a.contexts, a.adds, dir)
  <2>1. Carries(M, a.contexts, a.adds, dir)
    BY <1>1
  <2> QED BY ONLY <1>4, <2>1, CarriesFinds
<1>9. ASSUME NEW s, NEW t, NEW u, NEW v, NamesOver(s, t, u), u = v \/ \E y : NamesOver(u, v, y),
             NEW n \in DOMAIN LastNamed(v), n \notin Names(t)
      PROVE  n \in DOMAIN LastNamed(s) /\ LastNamed(s)[n] = LastNamed(v)[n]
  <2>1. n \notin DOMAIN LastNamed(t)
    BY ONLY <1>9, LastFacts
  <2>2. n \in DOMAIN LastNamed(u) /\ LastNamed(u)[n] = LastNamed(v)[n]
    BY <1>9 DEF NamesOver
  <2> QED BY <1>9, <2>1, <2>2 DEF NamesOver
<1>10. ASSUME NEW n, Titled(parent.layers, "context", n) # <<>>, n \notin Names(c.contexts)
       PROVE  Titled(M, "context", n) = Titled(parent.layers, "context", n)
  <2>1. PICK d : Titled(parent.layers, "context", n) = <<d>>
    BY ONLY <1>10, TitledFacts
  <2>2. n \in DOMAIN LastNamed(p.contexts) /\ resolveContextContent(LastNamed(p.contexts)[n], dir) = <<d>>
    BY <1>1, <2>1, HydratedContext
  <2>3. n \in DOMAIN LastNamed(a.contexts) /\ LastNamed(a.contexts)[n] = LastNamed(p.contexts)[n]
    BY ONLY <1>6, <1>7, <1>9, <1>10, <2>2
  <2>4. Titled(M, "context", n) = resolveContextContent(LastNamed(a.contexts)[n], dir)
    BY <1>8, <2>3 DEF Finds
  <2> QED BY ONLY <2>1, <2>2, <2>3, <2>4
<1>11. ASSUME NEW n, Titled(parent.layers, "file", n) # <<>>, Titled(parent.layers, "file", n) # <<"">>,
              n \notin Names(c.adds)
       PROVE  Titled(M, "file", n) = Titled(parent.layers, "file", n)
  <2>1. PICK d : Titled(parent.layers, "file", n) = <<d>> /\ d # ""
    <3>1. PICK d : Titled(parent.layers, "file", n) = <<d>>
      <4>1. Titled(parent.layers, "file", n) # <<>>
        BY ONLY <1>11
      <4> QED BY ONLY <4>1, TitledFacts
    <3>2. d # ""
      BY ONLY <1>11, <3>1
    <3> QED BY ONLY <3>1, <3>2
  <2>2. n \in DOMAIN LastNamed(p.adds) /\ AddContent(LastNamed(p.adds)[n], dir) = <<d>>
    BY <1>1, <2>1, HydratedFile
  <2>3. n \in DOMAIN LastNamed(a.adds) /\ LastNamed(a.adds)[n] = LastNamed(p.adds)[n]
    <3>1. /\ NamesOver(a.adds, c.adds, x.adds) /\ (x.adds = p.adds \/ \E y : NamesOver(x.adds, p.adds, y))
          /\ n \in DOMAIN LastNamed(p.adds) /\ n \notin Names(c.adds)
      BY ONLY <1>6, <1>7, <1>11, <2>2
    <3> QED BY ONLY <1>9, <3>1
  <2>4. Titled(M, "file", n) = AddContent(LastNamed(a.adds)[n], dir)
    BY <1>8, <2>3 DEF Finds
  <2> QED BY ONLY <2>1, <2>2, <2>3, <2>4
<1> QED BY ONLY <1>10, <1>11 DEF KeepsContents

-----------------------------------------------------------------------------
(* The chain of a build.                                                      *)

\* No step changes the manifest of an image that is packed.
Settled == \A d \in Digests : Packed(d) => Packed(d)' /\ made'[d] = made[d]

\* A chain stays what it is.
LEMMA ChainKept ==
    ASSUME NEW v, \A i \in DOMAIN v.fetched : Packed(v.fetched[i]), Settled
    PROVE  ChainOf(v)' = ChainOf(v) /\ \A i \in DOMAIN v.fetched : Packed(v.fetched[i])'
<1>1. \A i \in DOMAIN v.fetched : Packed(v.fetched[i])' /\ made'[v.fetched[i]] = made[v.fetched[i]]
  BY DEF Settled, Packed
<1>2. [i \in DOMAIN v.fetched |-> LoadHydrated(made'[v.fetched[i]])]
          = [i \in DOMAIN v.fetched |-> LoadHydrated(made[v.fetched[i]])]
  BY <1>1
<1> QED BY <1>1, <1>2 DEF ChainOf

\* A chain of fresh Agentfile and well-built artifacts.
Sound(v) ==
    Fresh(v.own) /\ IsSeq(v.fetched) /\ \A i \in DOMAIN v.fetched : Packed(v.fetched[i]) /\ WellBuilt(made[v.fetched[i]])

\* The elements of the chain.
LEMMA ChainFacts ==
    ASSUME NEW v, Sound(v)
    PROVE  /\ IsSeq(ChainOf(v)) /\ Len(ChainOf(v)) = 1 + Len(v.fetched) /\ ChainOf(v)[1] = v.own
           /\ \A i \in DOMAIN v.fetched : ChainOf(v)[1 + i] = LoadHydrated(made[v.fetched[i]])
           /\ \A i \in DOMAIN ChainOf(v) : WellFormed(ChainOf(v)[i])
<1>1. PICK f, own : f = v.fetched /\ own = v.own
  OBVIOUS
<1>2. IsSeq(f) /\ Len(f) \in Nat /\ DOMAIN f = 1 .. Len(f)
  BY <1>1, SeqFacts DEF Sound
<1>3. PICK a : a = <<own>>
  OBVIOUS
<1>4. IsSeq(a) /\ Len(a) = 1 /\ a[1] = own
  BY ONLY <1>3, ShortSeqs
<1>5. PICK b : b = [i \in DOMAIN f |-> LoadHydrated(made[f[i]])]
  OBVIOUS
<1>6. IsSeq(b) /\ Len(b) = Len(f)
  <2>1. DOMAIN b = 1 .. Len(f) /\ b = [i \in 1 .. Len(f) |-> b[i]]
    BY <1>2, <1>5
  <2> QED BY ONLY <1>2, <2>1, FunIsSeq
<1>7. ChainOf(v) = a \o b
  BY <1>1, <1>3, <1>5 DEF ChainOf
<1>8. PICK c : c = a \o b
  OBVIOUS
<1>9. /\ IsSeq(c) /\ Len(c) = Len(a) + Len(b)
      /\ \A i \in 1 .. Len(a) : c[i] = a[i]
      /\ \A j \in 1 .. Len(b) : c[Len(a) + j] = b[j]
  <2>1. IsSeq(a) /\ IsSeq(b)
    BY <1>4, <1>6
  <2>2. /\ IsSeq(a \o b) /\ Len(a \o b) = Len(a) + Len(b)
        /\ \A i \in 1 .. Len(a) : (a \o b)[i] = a[i]
        /\ \A j \in 1 .. Len(b) : (a \o b)[Len(a) + j] = b[j]
    BY ONLY <2>1, Concat
  <2> QED BY ONLY <1>8, <2>2
<1>10. c[1] = own
  BY <1>4, <1>9
<1>11. \A i \in DOMAIN f : c[1 + i] = LoadHydrated(made[f[i]])
  <2> SUFFICES ASSUME NEW i \in DOMAIN f PROVE c[1 + i] = LoadHydrated(made[f[i]])
    OBVIOUS
  <2>1. i \in 1 .. Len(b)
    BY <1>2, <1>6
  <2>2. c[1 + i] = b[i]
    BY <1>4, <1>9, <2>1
  <2> QED BY <1>5, <2>2
<1>12. \A i \in DOMAIN f : WellFormed(LoadHydrated(made[f[i]]))
  <2> SUFFICES ASSUME NEW i \in DOMAIN f PROVE WellFormed(LoadHydrated(made[f[i]]))
    OBVIOUS
  <2>1. WellFormed(made[f[i]].config)
    BY <1>1 DEF Sound, WellBuilt
  <2> QED BY <2>1, HydratedOK
<1>13. \A j \in DOMAIN c : j = 1 \/ \E i \in DOMAIN f : j = 1 + i
  <2> SUFFICES ASSUME NEW j \in DOMAIN c, j # 1 PROVE \E i \in DOMAIN f : j = 1 + i
    OBVIOUS
  <2>1. DOMAIN c = 1 .. (1 + Len(f))
    BY <1>4, <1>6, <1>9, SeqFacts
  <2>2. j - 1 \in DOMAIN f /\ j = 1 + (j - 1)
    BY <1>2, <2>1
  <2> QED BY <2>2
<1>14. \A j \in DOMAIN c : WellFormed(c[j])
  <2>1. WellFormed(own)
    BY <1>1 DEF Sound, Fresh
  <2> QED BY ONLY <1>10, <1>11, <1>12, <1>13, <2>1
<1>15. IsSeq(c) /\ Len(c) = 1 + Len(f)
  BY <1>4, <1>6, <1>9
<1> QED BY ONLY <1>1, <1>7, <1>8, <1>10, <1>11, <1>14, <1>15

\* The merged Agentfile: the child over what inherits from its parent.
LEMMA ChainResult ==
    ASSUME NEW v, Sound(v)
    PROVE  /\ WellFormed(mergeChain(ChainOf(v)))
           /\ v.fetched # <<>> =>
                 \E x : Inherits(x, LoadHydrated(made[v.fetched[1]])) /\ mergeChain(ChainOf(v)) = mergeAgent(x, v.own)
<1>1. PICK c : c = ChainOf(v)
  OBVIOUS
<1>2. /\ IsSeq(c) /\ Len(c) = 1 + Len(v.fetched) /\ c[1] = v.own
      /\ \A i \in DOMAIN v.fetched : c[1 + i] = LoadHydrated(made[v.fetched[i]])
      /\ \A i \in DOMAIN c : WellFormed(c[i])
  BY <1>1, ChainFacts
<1>3. IsSeq(v.fetched) /\ Len(v.fetched) \in Nat /\ DOMAIN v.fetched = 1 .. Len(v.fetched)
  BY SeqFacts DEF Sound
<1>4. Len(c) >= 1
  BY <1>2, <1>3
<1>5. /\ WellFormed(mergeChain(c))
      /\ Len(c) >= 2 => \E x : Inherits(x, c[2]) /\ mergeChain(c) = mergeAgent(x, c[1])
  BY ONLY <1>2, <1>4, ChainMerged
<1>6. ASSUME v.fetched # <<>> PROVE Len(c) >= 2 /\ c[2] = LoadHydrated(made[v.fetched[1]])
  <2>1. Len(v.fetched) # 0
    BY ONLY <1>3, <1>6 DEF IsSeq
  <2>2. 1 \in DOMAIN v.fetched /\ Len(c) >= 2 /\ 1 + 1 = 2
    BY <1>2, <1>3, <2>1
  <2>3. c[1 + 1] = LoadHydrated(made[v.fetched[1]])
    BY ONLY <1>2, <2>2
  <2> QED BY ONLY <2>2, <2>3
<1> QED BY ONLY <1>1, <1>2, <1>5, <1>6

-----------------------------------------------------------------------------
(* Every step keeps the invariant: builds.                                    *)

SameSource(v, w) == v.own = w.own /\ v.fetched = w.fetched /\ v.src = w.src

\* What the invariant says of a build's chain.
LEMMA CarrySound ==
    ASSUME FlowInv, NEW b \in Builders PROVE CarryInv(b, build[b]) /\ Sound(build[b])
<1>1. CarryInv(b, build[b]) /\ \A d \in Digests : WellBuilt(made[d])
  BY DEF FlowInv
<1>2. \A d : Packed(d) => d \in Digests
  BY DEF Packed
<1> QED BY <1>1, <1>2 DEF CarryInv, Sound

\* A build that takes no step.
LEMMA Carried ==
    ASSUME NEW b \in Builders, NEW v, CarryInv(b, v), Settled, made'[b] = made[b]
    PROVE  CarryInv(b, v)'
<1>1. ChainOf(v)' = ChainOf(v) /\ \A i \in DOMAIN v.fetched : Packed(v.fetched[i])'
  BY ChainKept DEF CarryInv
<1>2. BuiltFrom(made[b], mergeChain(ChainOf(v)), v.src)' <=> BuiltFrom(made[b], mergeChain(ChainOf(v)), v.src)
  BY <1>1 DEF BuiltFrom
<1>3. /\ v.pc # "off" => v.src \in DOMAIN Sources
      /\ Fresh(v.own) /\ IsSeq(v.fetched)
      /\ v.pc = "push" => /\ v.agent = mergeChain(ChainOf(v))
                          /\ v.layers = BuildLayers(v.agent, v.src, Sources[v.src].dir)
                          /\ \A i \in 1 .. v.pushed : v.layers[i] # <<>>
      /\ v.pc = "manifest" => BuiltFrom(made[b], mergeChain(ChainOf(v)), v.src)
  BY DEF CarryInv
<1> QED BY ONLY <1>1, <1>2, <1>3 DEF CarryInv

\* A build whose next point promises nothing about its layers.
LEMMA CarryEnds ==
    ASSUME NEW b \in Builders, CarryInv(b, build[b]), Settled, build[b].pc # "off",
           NEW v, SameSource(v, build[b]), v.pc \notin {"push", "manifest"}
    PROVE  CarryInv(b, v)'
<1>1. \A i \in DOMAIN v.fetched : Packed(v.fetched[i])
  BY DEF CarryInv, SameSource
<1>2. \A i \in DOMAIN v.fetched : Packed(v.fetched[i])'
  BY <1>1, ChainKept
<1>3. v.src \in DOMAIN Sources /\ Fresh(v.own) /\ IsSeq(v.fetched)
  BY DEF CarryInv, SameSource
<1> QED BY ONLY <1>2, <1>3, v.pc \notin {"push", "manifest"} DEF CarryInv

\* A step of a build keeps the invariant if it does for this build.
LEMMA BuildFlow ==
    ASSUME IInv, FlowInv, NEW b \in Builders, NEW v, BuildMoves(b, v), CarryInv(b, v)', WellBuilt(made'[b])
    PROVE  FlowInv'
<1>1. /\ DOMAIN build' = Builders /\ build'[b] = v /\ DOMAIN made' = Digests
      /\ \A u \in Builders \ {b} : build'[u] = build[u] /\ made'[u] = made[u]
      /\ \A d \in Digests : Packed(d) => Packed(d)' /\ made'[d] = made[d]
  BY BuildFacts
<1>2. Settled
  BY ONLY <1>1 DEF Settled
<1>3. \A d \in Digests : WellBuilt(made'[d])
  <2>1. \A d \in Digests \ Builders : Packed(d)
    BY DEF Packed
  <2>2. \A d \in Digests \ {b} : made'[d] = made[d]
    BY ONLY <1>1, <2>1
  <2>3. \A d \in Digests : WellBuilt(made[d])
    BY DEF FlowInv
  <2> QED BY ONLY <2>2, <2>3, WellBuilt(made'[b])
<1>4. ASSUME NEW u \in Builders PROVE CarryInv(u, build[u])'
  <2>1. CASE u = b
    BY <1>1, <2>1 DEF CarryInv, ChainOf
  <2>2. CASE u # b
    <3>1. PICK w : w = build[u]
      OBVIOUS
    <3>2. CarryInv(u, w) /\ made'[u] = made[u] /\ build'[u] = w
      BY <1>1, <2>2, <3>1 DEF FlowInv
    <3>3. CarryInv(u, w)'
      BY <1>2, <3>2, Carried
    <3> QED BY <3>2, <3>3 DEF CarryInv, ChainOf
  <2> QED BY <2>1, <2>2
<1>5. \A d \in Deployers : LoadInv(deploy[d])'
  <2>1. deploy' = deploy /\ backend' = backend
    BY DEF BuildMoves
  <2> QED BY <2>1 DEF FlowInv, LoadInv, HostPlatform
<1> QED BY ONLY <1>3, <1>4, <1>5 DEF FlowInv

\* A build that goes to another point.
LEMMA GotoMoves ==
    ASSUME IInv, NEW b \in Builders, NEW pc, BuildGoto(b, pc), BuildOnly(b),
           pc \notin {"off", "idle", "resolve", "push"},
           made' = made \/ (build[b].pc = "push" /\ Packs(b))
    PROVE  \E v : BuildMoves(b, v) /\ v.pc = pc /\ SameSource(v, build[b])
<1>1. TypeInv /\ BuildInv(b, build[b])
  BY DEF IInv
<1>2. PICK v : v = [build[b] EXCEPT !.pc = pc]
  OBVIOUS
<1>3. build' = [build EXCEPT ![b] = v]
  BY <1>2 DEF BuildGoto
<1>4. v.pc = pc /\ v.own = build[b].own /\ v.fetched = build[b].fetched /\ v.src = build[b].src
  BY <1>1, <1>2 DEF BuildInv, BuildFields
<1>5. BuildMoves(b, v)
  BY <1>3, <1>4 DEF BuildMoves, BuildOnly, Packs
<1> QED BY <1>4, <1>5 DEF SameSource

\* So it ends, or goes on to where nothing is promised of its layers.
LEMMA GotoFlow ==
    ASSUME IInv, FlowInv, NEW b \in Builders, NEW pc, BuildGoto(b, pc), BuildOnly(b),
           pc \notin {"off", "idle", "resolve", "push", "manifest"}, build[b].pc # "off",
           made' = made \/ (build[b].pc = "push" /\ Packs(b)), WellBuilt(made'[b])
    PROVE  FlowInv'
<1>1. PICK v : BuildMoves(b, v) /\ v.pc = pc /\ SameSource(v, build[b])
  BY GotoMoves
<1>2. Settled
  BY <1>1, BuildFacts DEF Settled
<1>3. CarryInv(b, build[b])
  BY CarrySound
<1>4. CarryInv(b, v)'
  BY <1>1, <1>2, <1>3, CarryEnds
<1> QED BY <1>1, <1>4, BuildFlow

\* A push: the build goes on, or ends with an error.
LEMMA PushMoves ==
    ASSUME IInv, NEW b \in Builders, NEW blobs, NEW next, Push(b, blobs, next), BuildOnly(b),
           build[b].pc \in {"push", "manifest"}, DOMAIN next = BuildFields,
           build[b].pc = "manifest" => next.pc \notin {"off", "idle", "resolve", "push"} /\ made' = made,
           Packs(b)
    PROVE  \E v : /\ BuildMoves(b, v)
                  /\ \/ v.pc = "err" /\ SameSource(v, build[b])
                     \/ /\ v.pc = next.pc /\ SameSource(v, next) /\ v.agent = next.agent
                        /\ v.layers = next.layers /\ v.pushed = next.pushed
<1>1. CASE build' = [build EXCEPT ![b] = [next EXCEPT !.staged = Join(next.staged, blobs)]]
  <2>1. PICK v : v = [next EXCEPT !.staged = Join(next.staged, blobs)]
    OBVIOUS
  <2>2. /\ v.pc = next.pc /\ v.own = next.own /\ v.fetched = next.fetched /\ v.src = next.src
        /\ v.agent = next.agent /\ v.layers = next.layers /\ v.pushed = next.pushed
    BY <2>1 DEF BuildFields
  <2>3. BuildMoves(b, v)
    BY <1>1, <2>1, <2>2 DEF BuildMoves, BuildOnly
  <2> QED BY <2>2, <2>3 DEF SameSource
<1>2. CASE build' = [build EXCEPT ![b] = next]
  <2>1. BuildMoves(b, next)
    BY <1>2 DEF BuildMoves, BuildOnly
  <2> QED BY <2>1 DEF SameSource
<1>3. CASE BuildFails(b)
  <2>1. BuildGoto(b, "err")
    BY <1>3 DEF BuildFails
  <2>2. \E v : BuildMoves(b, v) /\ v.pc = "err" /\ SameSource(v, build[b])
    BY <2>1, GotoMoves
  <2> QED BY <2>2
<1> QED BY <1>1, <1>2, <1>3 DEF Push

\* t has the elements of s, and e.
Adds(t, s, e) == IsSeq(t) /\ \A i \in DOMAIN t : t[i] = e \/ \E j \in DOMAIN s : t[i] = s[j]

\* The elements of a list with one more.
LEMMA AppendElements ==
    ASSUME NEW s, IsSeq(s), NEW e, NEW t, t = Append(s, e)
    PROVE  Adds(t, s, e)
<1>1. PICK one : one = <<e>>
  OBVIOUS
<1>2. IsSeq(one) /\ Len(one) = 1 /\ one[1] = e
  BY ONLY <1>1, ShortSeqs
<1>3. t = s \o one
  BY <1>1, AppendIsConcat
<1>4. IsSeq(t)
  BY <1>2, <1>3, Concat
<1>5. ASSUME NEW i \in DOMAIN t PROVE t[i] = e \/ \E j \in DOMAIN s : t[i] = s[j]
  <2>1. i \in DOMAIN (s \o one) /\ IsSeq(s) /\ IsSeq(one)
    BY <1>2, <1>3
  <2>2. \/ i \in 1 .. Len(s) /\ (s \o one)[i] = s[i]
        \/ \E j \in 1 .. Len(one) : i = Len(s) + j /\ (s \o one)[i] = one[j]
    BY ONLY <2>1, ConcatSplit
  <2>3. DOMAIN s = 1 .. Len(s)
    BY SeqFacts
  <2>4. \A j \in 1 .. Len(one) : one[j] = e
    BY <1>2
  <2> QED BY ONLY <1>3, <2>2, <2>3, <2>4
<1> QED BY <1>4, <1>5 DEF Adds

\* The Agentfile is read.
LEMMA FromFileFlow == ASSUME IInv, FlowInv, NEW b \in Builders, FromFile(b) PROVE FlowInv'
<1>1. PICK insts : insts = Sources[build[b].src].insts
  OBVIOUS
<1>2. PICK parsed : parsed = parse(insts)
  OBVIOUS
<1>3. /\ build[b].pc = "idle" /\ made' = made /\ BuildOnly(b)
      /\ build' = [build EXCEPT ![b] = IF parsed = <<>> THEN [build[b] EXCEPT !.pc = "err"]
                                       ELSE [build[b] EXCEPT !.pc = "resolve", !.own = parsed[1]]]
  BY <1>1, <1>2 DEF FromFile
<1>4. TypeInv /\ BuildInv(b, build[b]) /\ CarryInv(b, build[b]) /\ b \in Digests /\ WellBuilt(made[b])
  BY CarrySound DEF IInv, Digests, FlowInv
<1>5. CASE parsed = <<>>
  <2>1. BuildGoto(b, "err")
    BY <1>3, <1>5 DEF BuildGoto
  <2> QED BY <1>3, <1>4, <2>1, GotoFlow
<1>6. CASE parsed # <<>>
  <2>1. PICK v : v = [build[b] EXCEPT !.pc = "resolve", !.own = parsed[1]]
    OBVIOUS
  <2>2. build' = [build EXCEPT ![b] = v]
    BY <1>3, <1>6, <2>1
  <2>3. /\ v.pc = "resolve" /\ v.own = parsed[1] /\ v.fetched = build[b].fetched /\ v.src = build[b].src
    BY <1>4, <2>1 DEF BuildInv, BuildFields
  <2>4. BuildMoves(b, v)
    BY <1>3, <2>2 DEF BuildMoves, BuildOnly, Packs
  <2>5. build[b].src \in DOMAIN Sources
    BY <1>3, <1>4 DEF CarryInv
  <2>6. IsFile(insts)
    BY <1>1, <2>5, ImageFlowAssumption DEF ImageFlowAssumption, IsFile
  <2>7. Fresh(parsed[1])
    BY <1>2, <1>6, <2>6, ParsedFresh
  <2>8. Settled
    BY <2>4, BuildFacts DEF Settled
  <2>9. IsSeq(v.fetched) /\ \A i \in DOMAIN v.fetched : Packed(v.fetched[i])'
    <3>1. IsSeq(v.fetched) /\ \A i \in DOMAIN v.fetched : Packed(v.fetched[i])
      BY <1>4, <2>3 DEF CarryInv
    <3> QED BY <2>8, <3>1, ChainKept
  <2>10. CarryInv(b, v)'
    BY ONLY <2>3, <2>5, <2>7, <2>9 DEF CarryInv
  <2> QED BY <1>3, <1>4, <2>4, <2>10, BuildFlow
<1> QED BY <1>5, <1>6

\* A parent is fetched, or the chain is merged.
LEMMA resolveFlow == ASSUME IInv, FlowInv, NEW b \in Builders, resolveDepth(b) PROVE FlowInv'
<1>1. build[b].pc = "resolve" /\ made' = made /\ BuildOnly(b)
  BY DEF resolveDepth
<1>2. TypeInv /\ BuildInv(b, build[b]) /\ CarryInv(b, build[b]) /\ b \in Digests /\ WellBuilt(made[b])
  BY CarrySound DEF IInv, Digests, FlowInv
<1>3. /\ build[b].src \in DOMAIN Sources /\ Fresh(build[b].own) /\ IsSeq(build[b].fetched)
      /\ \A i \in DOMAIN build[b].fetched : Packed(build[b].fetched[i])
  BY <1>1, <1>2 DEF CarryInv
<1>4. CASE Resolved(b, mergeChain(Chain(b)))
  <2>0. PICK agent : agent = mergeChain(Chain(b))
    OBVIOUS
  <2>1. PICK layers : layers = BuildLayers(agent, build[b].src, Sources[build[b].src].dir)
    OBVIOUS
  <2>2. PICK v : v = [build[b] EXCEPT !.pc = "push", !.agent = agent, !.layers = layers]
    OBVIOUS
  <2>3. build' = [build EXCEPT ![b] = v]
    BY <1>4, <2>0, <2>1, <2>2 DEF Resolved
  <2>4. /\ v.pc = "push" /\ v.own = build[b].own /\ v.fetched = build[b].fetched /\ v.src = build[b].src
        /\ v.agent = agent /\ v.layers = layers /\ v.pushed = 0
    BY <1>1, <1>2, <2>2 DEF BuildInv, BuildFields
  <2>5. BuildMoves(b, v)
    BY <1>1, <2>3 DEF BuildMoves, BuildOnly, Packs
  <2>6. Settled
    BY <2>5, BuildFacts DEF Settled
  <2>7. ChainOf(v)' = ChainOf(v) /\ \A i \in DOMAIN v.fetched : Packed(v.fetched[i])'
    BY <1>3, <2>4, <2>6, ChainKept
  <2>8. ChainOf(v) = Chain(b)
    BY <2>4 DEF ChainOf, Chain, Of
  <2>9. \A i \in 1 .. v.pushed : v.layers[i] # <<>>
    BY <2>4
  <2>10. CarryInv(b, v)'
    BY ONLY <1>3, <2>0, <2>1, <2>4, <2>7, <2>8, <2>9 DEF CarryInv
  <2> QED BY <1>1, <1>2, <2>5, <2>10, BuildFlow
<1>5. ASSUME NEW ref \in DOMAIN images["hub"], build' = [build EXCEPT ![b].fetched = Append(@, images["hub"][ref])]
      PROVE  FlowInv'
  <2>0. PICK m : m = images["hub"][ref]
    OBVIOUS
  <2>1. Packed(m)
    BY <2>0 DEF IInv, StoreInv, Stores
  <2>2. PICK f : f = Append(build[b].fetched, m)
    OBVIOUS
  <2>3. PICK v : v = [build[b] EXCEPT !.fetched = f]
    OBVIOUS
  <2>4. build' = [build EXCEPT ![b] = v]
    BY <1>5, <2>0, <2>2, <2>3
  <2>5. v.pc = "resolve" /\ v.own = build[b].own /\ v.fetched = f /\ v.src = build[b].src
    BY <1>1, <1>2, <2>3 DEF BuildInv, BuildFields
  <2>6. BuildMoves(b, v)
    BY <1>1, <2>4 DEF BuildMoves, BuildOnly, Packs
  <2>7. Settled
    BY <2>6, BuildFacts DEF Settled
  <2>8. IsSeq(f) /\ \A i \in DOMAIN f : f[i] = m \/ \E j \in DOMAIN build[b].fetched : f[i] = build[b].fetched[j]
    <3>1. PICK s : s = build[b].fetched
      OBVIOUS
    <3>2. IsSeq(s) /\ f = Append(s, m)
      BY <1>3, <2>2, <3>1
    <3>3. Adds(f, s, m)
      BY ONLY <3>2, AppendElements
    <3> QED BY ONLY <3>1, <3>3 DEF Adds
  <2>9. \A i \in DOMAIN v.fetched : Packed(v.fetched[i])
    BY <1>3, <2>1, <2>5, <2>8
  <2>10. \A i \in DOMAIN v.fetched : Packed(v.fetched[i])'
    BY <2>7, <2>9, ChainKept
  <2>11. CarryInv(b, v)'
    BY ONLY <1>3, <2>5, <2>8, <2>10 DEF CarryInv
  <2> QED BY <1>1, <1>2, <2>6, <2>11, BuildFlow
<1>6. CASE BuildGoto(b, "err")
  BY <1>1, <1>2, <1>6, GotoFlow
<1> QED BY <1>4, <1>5, <1>6 DEF resolveDepth

\* One layer more has been read.
LEMMA pushLayerFlow == ASSUME IInv, FlowInv, NEW b \in Builders, pushLayer(b) PROVE FlowInv'
<1>1. build[b].pc = "push" /\ made' = made /\ Packs(b) /\ BuildOnly(b)
  BY DEF pushLayer, Packs
<1>2. TypeInv /\ BuildInv(b, build[b]) /\ CarryInv(b, build[b]) /\ b \in Digests /\ WellBuilt(made[b])
  BY CarrySound DEF IInv, Digests, FlowInv
<1>3. PICK layer : layer = build[b].layers[build[b].pushed + 1]
  OBVIOUS
<1>4. CASE layer = <<>>
  <2>1. BuildGoto(b, "err")
    BY <1>3, <1>4 DEF pushLayer, BuildFails
  <2> QED BY <1>1, <1>2, <2>1, GotoFlow
<1>5. CASE layer # <<>>
  <2>1. PICK blobs : blobs = [NoBlobs EXCEPT !.data = {layer[1].data}]
    OBVIOUS
  <2>2. PICK next : next = [build[b] EXCEPT !.pushed = @ + 1]
    OBVIOUS
  <2>3. Push(b, blobs, next)
    BY <1>3, <1>5, <2>1, <2>2 DEF pushLayer
  <2>4. /\ DOMAIN next = BuildFields /\ next.pc = "push" /\ next.own = build[b].own /\ next.src = build[b].src
        /\ next.fetched = build[b].fetched /\ next.agent = build[b].agent
        /\ next.pushed = build[b].pushed + 1 /\ next.layers = build[b].layers
    BY <1>1, <1>2, <2>2 DEF BuildInv, BuildFields
  <2>5. PICK v : /\ BuildMoves(b, v)
                 /\ \/ v.pc = "err" /\ SameSource(v, build[b])
                    \/ /\ v.pc = next.pc /\ SameSource(v, next) /\ v.agent = next.agent
                       /\ v.layers = next.layers /\ v.pushed = next.pushed
    BY <1>1, <2>3, <2>4, PushMoves
  <2>6. Settled
    BY <2>5, BuildFacts DEF Settled
  <2>7. CASE v.pc = "err" /\ SameSource(v, build[b])
    <3>1. CarryInv(b, v)'
      BY <1>1, <1>2, <2>6, <2>7, CarryEnds
    <3> QED BY <1>1, <1>2, <2>5, <3>1, BuildFlow
  <2>8. CASE /\ v.pc = next.pc /\ SameSource(v, next) /\ v.agent = next.agent
             /\ v.layers = next.layers /\ v.pushed = next.pushed
    <3>1. /\ build[b].src \in DOMAIN Sources /\ Fresh(build[b].own) /\ IsSeq(build[b].fetched)
          /\ \A i \in DOMAIN build[b].fetched : Packed(build[b].fetched[i])
          /\ build[b].agent = mergeChain(ChainOf(build[b]))
          /\ build[b].layers = BuildLayers(build[b].agent, build[b].src, Sources[build[b].src].dir)
          /\ \A i \in 1 .. build[b].pushed : build[b].layers[i] # <<>>
      BY <1>1, <1>2 DEF CarryInv
    <3>2. /\ v.pc = "push" /\ v.own = build[b].own /\ v.src = build[b].src /\ v.fetched = build[b].fetched
          /\ v.agent = build[b].agent /\ v.layers = build[b].layers /\ v.pushed = build[b].pushed + 1
      BY ONLY <2>4, <2>8 DEF SameSource
    <3>3. ChainOf(v) = ChainOf(build[b])
      BY <3>2 DEF ChainOf
    <3>4. ChainOf(v)' = ChainOf(v) /\ \A i \in DOMAIN v.fetched : Packed(v.fetched[i])'
      BY <2>6, <3>1, <3>2, ChainKept
    <3>5. \A i \in 1 .. v.pushed : v.layers[i] # <<>>
      <4>1. build[b].pushed \in Nat
        BY <1>2 DEF BuildInv
      <4>2. \A i \in 1 .. v.pushed : i \in 1 .. build[b].pushed \/ i = build[b].pushed + 1
        BY <3>2, <4>1
      <4> QED BY <1>3, <1>5, <3>1, <3>2, <4>2
    <3>6. CarryInv(b, v)'
      BY ONLY <3>1, <3>2, <3>3, <3>4, <3>5 DEF CarryInv
    <3> QED BY <1>1, <1>2, <2>5, <3>6, BuildFlow
  <2> QED BY <2>5, <2>7, <2>8
<1> QED BY <1>4, <1>5

\* The manifest is made from the layers, all of which have been read.
LEMMA PackFlow ==
    ASSUME IInv, FlowInv, NEW b \in Builders, Pack(b)
    PROVE  BuiltFrom(made'[b], mergeChain(ChainOf(build[b])), build[b].src) /\ WellBuilt(made'[b])
<1>1. PICK v : v = build[b]
  OBVIOUS
<1>2. /\ v.pc = "push" /\ DOMAIN v.layers \subseteq 1 .. v.pushed
      /\ made' = [made EXCEPT ![b] = Manifest(v.agent, [i \in DOMAIN v.layers |-> v.layers[i][1]])]
  BY <1>1 DEF Pack
<1>3. /\ v.agent = mergeChain(ChainOf(v)) /\ v.layers = BuildLayers(v.agent, v.src, Sources[v.src].dir)
      /\ \A i \in 1 .. v.pushed : v.layers[i] # <<>>
  BY <1>1, <1>2, CarrySound DEF CarryInv
<1>4. made'[b] = Manifest(v.agent, [i \in DOMAIN v.layers |-> v.layers[i][1]])
  <2>1. b \in DOMAIN made
    BY DEF IInv, TypeInv, Digests
  <2> QED BY <1>2, <2>1
<1>5. BuiltFrom(made'[b], v.agent, v.src)
  <2>1. PICK L : L = v.layers
    OBVIOUS
  <2>2. /\ L = BuildLayers(v.agent, v.src, Sources[v.src].dir) /\ (\A i \in DOMAIN L : L[i] # <<>>)
        /\ made'[b] = Manifest(v.agent, [i \in DOMAIN L |-> L[i][1]])
    BY ONLY <1>2, <1>3, <1>4, <2>1
  <2> QED BY ONLY <2>2 DEF BuiltFrom
<1>6. Sound(v)
  BY <1>1, CarrySound
<1>7. WellFormed(v.agent)
  BY <1>3, <1>6, ChainResult
<1>8. WellBuilt(made'[b])
  BY <1>5, <1>7, BuiltWell
<1> QED BY <1>1, <1>3, <1>5, <1>8

\* The config is pushed.
LEMMA pushConfigFlow == ASSUME IInv, FlowInv, NEW b \in Builders, pushConfig(b) PROVE FlowInv'
<1>1. build[b].pc = "push" /\ BuildOnly(b) /\ Pack(b) /\ Packs(b)
  BY DEF pushConfig, Pack, Packs
<1>2. TypeInv /\ BuildInv(b, build[b]) /\ CarryInv(b, build[b]) /\ b \in Digests
  BY CarrySound DEF IInv, Digests
<1>3. PICK blobs : blobs = [NoBlobs EXCEPT !.config = {b}]
  OBVIOUS
<1>4. PICK next : next = PackedState(b)
  OBVIOUS
<1>5. Push(b, blobs, next)
  BY <1>3, <1>4 DEF pushConfig
<1>6. /\ DOMAIN next = BuildFields /\ next.pc = "manifest" /\ next.own = build[b].own
      /\ next.src = build[b].src /\ next.fetched = build[b].fetched
  BY <1>2, <1>4 DEF PackedState, BuildInv, BuildFields
<1>7. PICK v : /\ BuildMoves(b, v)
               /\ \/ v.pc = "err" /\ SameSource(v, build[b])
                  \/ /\ v.pc = next.pc /\ SameSource(v, next) /\ v.agent = next.agent
                     /\ v.layers = next.layers /\ v.pushed = next.pushed
  BY <1>1, <1>5, <1>6, PushMoves
<1>8. Settled
  BY <1>7, BuildFacts DEF Settled
<1>9. BuiltFrom(made'[b], mergeChain(ChainOf(build[b])), build[b].src) /\ WellBuilt(made'[b])
  BY <1>1, PackFlow
<1>10. CASE v.pc = "err" /\ SameSource(v, build[b])
  <2>1. CarryInv(b, v)'
    BY <1>1, <1>2, <1>8, <1>10, CarryEnds
  <2> QED BY <1>7, <1>9, <2>1, BuildFlow
<1>11. CASE v.pc = next.pc /\ SameSource(v, next)
  <2>1. /\ build[b].src \in DOMAIN Sources /\ Fresh(build[b].own) /\ IsSeq(build[b].fetched)
        /\ \A i \in DOMAIN build[b].fetched : Packed(build[b].fetched[i])
    BY <1>1, <1>2 DEF CarryInv
  <2>2. v.pc = "manifest" /\ v.own = build[b].own /\ v.src = build[b].src /\ v.fetched = build[b].fetched
    BY ONLY <1>6, <1>11 DEF SameSource
  <2>3. ChainOf(v) = ChainOf(build[b])
    BY <2>2 DEF ChainOf
  <2>4. ChainOf(v)' = ChainOf(v) /\ \A i \in DOMAIN v.fetched : Packed(v.fetched[i])'
    BY <1>8, <2>1, <2>2, ChainKept
  <2>5. BuiltFrom(made[b], mergeChain(ChainOf(v)), v.src)'
    BY ONLY <1>9, <2>2, <2>3, <2>4 DEF BuiltFrom
  <2>6. CarryInv(b, v)'
    BY ONLY <2>1, <2>2, <2>4, <2>5 DEF CarryInv
  <2> QED BY <1>7, <1>9, <2>6, BuildFlow
<1> QED BY <1>7, <1>10, <1>11

\* What follows changes no manifest and fetches nothing.
LEMMA BuildRestFlow ==
    ASSUME IInv, FlowInv, NEW b \in Builders, pushManifest(b) \/ tagDigest(b) \/ tagName(b) PROVE FlowInv'
<1>1. made' = made /\ Packs(b) /\ BuildOnly(b) /\ build[b].pc # "off"
  BY DEF pushManifest, tagDigest, tagName, Packs
<1>2. TypeInv /\ BuildInv(b, build[b]) /\ CarryInv(b, build[b]) /\ b \in Digests /\ WellBuilt(made[b])
  BY CarrySound DEF IInv, Digests, FlowInv
<1>3. CASE pushManifest(b)
  <2>1. PICK blobs : blobs = [NoBlobs EXCEPT !.manifest = {b}]
    OBVIOUS
  <2>2. PICK next : next = [build[b] EXCEPT !.pc = "digest"]
    OBVIOUS
  <2>3. Push(b, blobs, next) /\ build[b].pc = "manifest"
    BY <1>3, <2>1, <2>2 DEF pushManifest
  <2>4. /\ DOMAIN next = BuildFields /\ next.pc = "digest" /\ next.own = build[b].own
        /\ next.src = build[b].src /\ next.fetched = build[b].fetched
    BY <1>2, <2>2 DEF BuildInv, BuildFields
  <2>5. PICK v : /\ BuildMoves(b, v)
                 /\ \/ v.pc = "err" /\ SameSource(v, build[b])
                    \/ /\ v.pc = next.pc /\ SameSource(v, next) /\ v.agent = next.agent
                       /\ v.layers = next.layers /\ v.pushed = next.pushed
    BY <1>1, <2>3, <2>4, PushMoves
  <2>6. SameSource(v, build[b]) /\ v.pc \notin {"push", "manifest"}
    BY ONLY <2>4, <2>5 DEF SameSource
  <2>7. Settled
    BY <2>5, BuildFacts DEF Settled
  <2>8. CarryInv(b, v)'
    BY <1>1, <1>2, <2>6, <2>7, CarryEnds
  <2> QED BY <1>1, <1>2, <2>5, <2>8, BuildFlow
<1>4. CASE tagDigest(b) \/ tagName(b)
  <2>1. PICK pc \in {"ok", "name", "err", "drained"} : BuildGoto(b, pc)
    BY <1>4 DEF tagDigest, tagName, BuildFails
  <2>2. pc \notin {"off", "idle", "resolve", "push", "manifest"}
    BY <2>1
  <2> QED BY <1>1, <1>2, <2>1, <2>2, GotoFlow
<1> QED BY <1>3, <1>4

\* A build, from call to return.
LEMMA BuildStepFlow == ASSUME IInv, FlowInv, NEW b \in Builders, FromFile(b) \/ BuildStep(b) PROVE FlowInv'
BY FromFileFlow, resolveFlow, pushLayerFlow, pushConfigFlow, BuildRestFlow DEF BuildStep

\* What changes no build and no manifest keeps the invariant, if it does for
\* the deployments.
LEMMA ReadersFlow ==
    ASSUME IInv, FlowInv, UNCHANGED <<backend, made, build>>,
           \A d \in Deployers : deploy'[d] = deploy[d] \/ LoadInv(deploy'[d])
    PROVE  FlowInv'
<1>1. \A b \in Builders : CarryInv(b, build[b])'
  BY DEF FlowInv, CarryInv, ChainOf, Packed
<1>2. \A d \in Deployers : LoadInv(deploy[d])'
  BY DEF FlowInv, LoadInv, HostPlatform
<1> QED BY <1>1, <1>2 DEF FlowInv

-----------------------------------------------------------------------------
(* The binary of a BIN image.                                                 *)

\* One look into a blob, given what is found behind its entries.
Look(g, d, platform) ==
    LET index == BinBlobs[d].index
        entry == resolveIndex(index, platform)
    IN  IF index = <<>> THEN <<d>>
        ELSE IF entry = <<>> THEN <<>>
        ELSE IF entry[1] \in DOMAIN BinBlobs THEN g[entry[1]] ELSE <<>>

Looks(g, platform) == g = [d \in DOMAIN BinBlobs |-> Look(g, d, platform)]

\* Every entry of an index is below it.
Below(rank) ==
    /\ \A d \in DOMAIN BinBlobs : rank[d] \in Nat /\ rank[d] <= Cardinality(DOMAIN BinBlobs)
    /\ \A d \in DOMAIN BinBlobs : \A i \in DOMAIN BinBlobs[d].index :
          LET e == BinBlobs[d].index[i].digest IN e \in DOMAIN BinBlobs => rank[e] < rank[d]

\* There is such a rank.
LEMMA Ranked == Cardinality(DOMAIN BinBlobs) \in Nat /\ \E rank : Below(rank)
<1>1. Cardinality(DOMAIN BinBlobs) \in Nat
  BY BinAssumption, FS_CardinalityType
<1>2. PICK rank \in [DOMAIN BinBlobs -> 0 .. Cardinality(DOMAIN BinBlobs)] :
          \A d \in DOMAIN BinBlobs : \A i \in DOMAIN BinBlobs[d].index :
              LET e == BinBlobs[d].index[i].digest IN e \in DOMAIN BinBlobs => rank[e] < rank[d]
  BY BinAssumption
<1>3. Below(rank)
  BY ONLY <1>1, <1>2 DEF Below
<1> QED BY ONLY <1>1, <1>3

\* The entry that resolveIndex takes is one for the platform.
LEMMA EntryFacts ==
    ASSUME NEW index, IsSeq(index), NEW platform, resolveIndex(index, platform) # <<>>
    PROVE  \E i \in DOMAIN index : /\ index[i].platform = platform
                                   /\ resolveIndex(index, platform) = <<index[i].digest>>
<1>1. PICK match : match = {i \in DOMAIN index : index[i].platform = platform}
  OBVIOUS
<1>2. match # {} /\ resolveIndex(index, platform) = <<index[Min(match)].digest>>
  BY <1>1 DEF resolveIndex
<1>3. match \subseteq Nat
  BY <1>1, SeqFacts
<1>4. Min(match) \in match
  BY <1>2, <1>3, MinFacts
<1> QED BY <1>1, <1>2, <1>4

\* What is found in a blob depends on the blobs below it.
LEMMA LookBelow ==
    ASSUME NEW rank, Below(rank), NEW platform, NEW d \in DOMAIN BinBlobs, NEW g, NEW h,
           \A e \in DOMAIN BinBlobs : rank[e] < rank[d] => g[e] = h[e]
    PROVE  Look(g, d, platform) = Look(h, d, platform)
<1>1. PICK index : index = BinBlobs[d].index
  OBVIOUS
<1>2. IsSeq(index)
  BY <1>1, BinAssumption
<1>3. PICK entry : entry = resolveIndex(index, platform)
  OBVIOUS
<1>4. CASE entry # <<>> /\ entry[1] \in DOMAIN BinBlobs
  <2>1. PICK i \in DOMAIN index : entry = <<index[i].digest>>
    BY <1>2, <1>3, <1>4, EntryFacts
  <2>2. entry[1] = index[i].digest
    BY ONLY <2>1
  <2>3. rank[entry[1]] < rank[d]
    BY <1>1, <1>4, <2>2 DEF Below
  <2>4. g[entry[1]] = h[entry[1]]
    BY <1>4, <2>3
  <2> QED BY <1>1, <1>3, <2>4 DEF Look
<1>5. CASE ~(entry # <<>> /\ entry[1] \in DOMAIN BinBlobs)
  BY <1>1, <1>3, <1>5 DEF Look
<1> QED BY <1>4, <1>5

\* ResolveManifest ends: the recursion goes down.
LEMMA LooksExist == ASSUME NEW platform PROVE \E g : Looks(g, platform)
<1>0. PICK rank : Below(rank)
  BY Ranked
<1> DEFINE T == {n \in Nat : \E g : \A d \in DOMAIN BinBlobs : rank[d] < n => g[d] = Look(g, d, platform)}
<1>1. 0 \in T
  BY <1>0 DEF Below
<1>2. ASSUME NEW n \in Nat, n \in T PROVE n + 1 \in T
  <2>1. PICK g : \A d \in DOMAIN BinBlobs : rank[d] < n => g[d] = Look(g, d, platform)
    BY <1>2
  <2>2. PICK h : h = [d \in DOMAIN BinBlobs |-> IF rank[d] < n THEN g[d] ELSE Look(g, d, platform)]
    OBVIOUS
  <2>3. ASSUME NEW d \in DOMAIN BinBlobs, rank[d] < n + 1 PROVE h[d] = Look(h, d, platform)
    <3>1. rank[d] \in Nat /\ \A e \in DOMAIN BinBlobs : rank[e] \in Nat
      BY <1>0 DEF Below
    <3>2. \A e \in DOMAIN BinBlobs : rank[e] < rank[d] => g[e] = h[e]
      BY <2>2, <2>3, <3>1
    <3>3. Look(g, d, platform) = Look(h, d, platform)
      BY <1>0, <3>2, LookBelow
    <3>4. h[d] = Look(g, d, platform)
      BY <2>1, <2>2
    <3> QED BY <3>3, <3>4
  <2> QED BY <2>3
<1>3. Nat \subseteq T
  <2> HIDE DEF T
  <2> QED BY <1>1, <1>2, SetInduction
<1>4. PICK n \in Nat : n = Cardinality(DOMAIN BinBlobs) + 1
  BY Ranked
<1>5. PICK g : \A d \in DOMAIN BinBlobs : rank[d] < n => g[d] = Look(g, d, platform)
  BY <1>3, <1>4
<1>6. \A d \in DOMAIN BinBlobs : rank[d] < n
  BY <1>0, <1>4, Ranked DEF Below
<1>7. PICK h : h = [d \in DOMAIN BinBlobs |-> g[d]]
  OBVIOUS
<1>8. ASSUME NEW d \in DOMAIN BinBlobs PROVE h[d] = Look(h, d, platform)
  <2>1. \A e \in DOMAIN BinBlobs : rank[e] < rank[d] => g[e] = h[e]
    BY <1>7
  <2>2. Look(g, d, platform) = Look(h, d, platform)
    BY <1>0, <2>1, LookBelow
  <2> QED BY <1>5, <1>6, <1>7, <2>2
<1>9. Looks(h, platform)
  BY <1>7, <1>8 DEF Looks
<1> QED BY <1>9

\* ResolveManifest, blob by blob.
LEMMA ResolvesBy ==
    ASSUME NEW platform
    PROVE  \A d \in DOMAIN BinBlobs : ResolveManifest(platform)[d] = Look(ResolveManifest(platform), d, platform)
<1>1. ResolveManifest(platform) = CHOOSE g : Looks(g, platform)
  BY DEF ResolveManifest, Looks, Look
<1>2. Looks(ResolveManifest(platform), platform)
  BY <1>1, LooksExist
<1> QED BY <1>2 DEF Looks

\* What an index resolves to is for the platform that was asked for.
ForPlatform(m, platform) ==
    m = <<>> \/ \E e \in DOMAIN BinBlobs : m = <<e>> /\ BuiltFor(BinBlobs[e], platform)

\* oci/manifest.go: through nested indexes too.
LEMMA IndexMatches ==
    ASSUME NEW platform, platform # "", NEW d \in DOMAIN BinBlobs, BinBlobs[d].index # <<>>
    PROVE  ForPlatform(ResolveManifest(platform)[d], platform)
<1>0. PICK rank : Below(rank)
  BY Ranked
<1>1. PICK r : r = ResolveManifest(platform)
  OBVIOUS
<1>2. \A c \in DOMAIN BinBlobs : r[c] = Look(r, c, platform)
  BY <1>1, ResolvesBy
<1> DEFINE T == {n \in Nat : \A c \in DOMAIN BinBlobs : rank[c] < n /\ BinBlobs[c].index # <<>> =>
                                 ForPlatform(r[c], platform)}
<1>3. 0 \in T
  <2>1. \A c \in DOMAIN BinBlobs : rank[c] \in Nat
    BY ONLY <1>0 DEF Below
  <2>2. \A c \in DOMAIN BinBlobs : ~(rank[c] < 0)
    BY ONLY <2>1
  <2> QED BY ONLY <2>2
<1>4. ASSUME NEW n \in Nat, n \in T PROVE n + 1 \in T
  <2> SUFFICES ASSUME NEW c \in DOMAIN BinBlobs, rank[c] < n + 1, BinBlobs[c].index # <<>>
               PROVE  ForPlatform(r[c], platform)
    <3> HIDE DEF ForPlatform
    <3>1. n + 1 \in Nat
      BY ONLY n \in Nat
    <3>2. \A c \in DOMAIN BinBlobs : rank[c] < n + 1 /\ BinBlobs[c].index # <<>> => ForPlatform(r[c], platform)
      OBVIOUS
    <3> QED BY ONLY <3>1, <3>2 DEF ForPlatform
  <2>0. \A a \in DOMAIN BinBlobs : rank[a] \in Nat
    BY <1>0 DEF Below
  <2>1. PICK index : index = BinBlobs[c].index
    OBVIOUS
  <2>2. PICK entry : entry = resolveIndex(index, platform)
    OBVIOUS
  <2>3. CASE entry # <<>> /\ entry[1] \in DOMAIN BinBlobs
    <3>1. IsSeq(index)
      BY <2>1, BinAssumption
    <3>2. PICK i \in DOMAIN index : index[i].platform = platform /\ entry = <<index[i].digest>>
      BY <2>2, <2>3, <3>1, EntryFacts
    <3>3. PICK e : e = index[i].digest
      OBVIOUS
    <3>4. entry[1] = e /\ e \in DOMAIN BinBlobs
      BY ONLY <2>3, <3>2, <3>3
    <3>5. r[c] = r[e]
      BY <1>2, <2>1, <2>2, <2>3, <3>4 DEF Look
    <3>6. rank[e] < n
      <4>1. rank[e] < rank[c] /\ rank[c] < n + 1 /\ rank[e] \in Nat /\ rank[c] \in Nat
        BY <1>0, <2>0, <2>1, <3>3, <3>4 DEF Below
      <4> QED BY ONLY <4>1, n \in Nat
    <3>7. CASE BinBlobs[e].index = <<>>
      <4>1. r[e] = <<e>>
        BY <1>2, <3>4, <3>7 DEF Look
      <4>2. BuiltFor(BinBlobs[e], platform)
        BY <2>1, <3>2, <3>3, <3>4, <3>7, BinAssumption
      <4> QED BY <3>4, <3>5, <4>1, <4>2 DEF ForPlatform
    <3>8. CASE BinBlobs[e].index # <<>>
      BY <1>4, <3>4, <3>5, <3>6, <3>8
    <3> QED BY <3>7, <3>8
  <2>4. CASE ~(entry # <<>> /\ entry[1] \in DOMAIN BinBlobs)
    <3>1. r[c] = <<>>
      BY <1>2, <2>1, <2>2, <2>4 DEF Look
    <3> QED BY <3>1 DEF ForPlatform
  <2> QED BY <2>3, <2>4
<1>5. Nat \subseteq T
  <2> HIDE DEF T
  <2> QED BY <1>3, <1>4, SetInduction
<1>6. rank[d] \in Nat
  BY <1>0 DEF Below
<1>7. PICK n \in Nat : n = rank[d] + 1
  BY ONLY <1>6
<1>8. rank[d] < n /\ n \in T
  <2> HIDE DEF T
  <2>1. rank[d] < n
    BY ONLY <1>6, <1>7
  <2> QED BY <1>5, <2>1
<1> QED BY <1>1, <1>8

\* oci/puller.go: the binary is one of the manifest's.
LEMMA ExtractMatches ==
    ASSUME NEW d \in DOMAIN BinBlobs, NEW platform, BuiltFor(BinBlobs[d], platform), extractBin[d] # <<>>
    PROVE  extractBin[d][1].platform = platform
<1>1. PICK m : m = BinBlobs[d]
  OBVIOUS
<1> DEFINE found(i) == extractBinFromTar(m.layers[i], m.path)
<1>2. PICK tars : tars = {i \in DOMAIN m.layers : m.layers[i].tar /\ found(i) # {}}
  OBVIOUS
<1>3. PICK titled : titled = {i \in DOMAIN m.layers : ~m.layers[i].tar /\ m.layers[i].title = m.name}
  OBVIOUS
<1>4. extractBin[d] = IF tars # {} THEN <<m.layers[Min(tars)].files[Min(found(Min(tars)))].data>>
                      ELSE IF titled # {} THEN <<m.layers[Min(titled)].data>> ELSE <<>>
  BY <1>1, <1>2, <1>3 DEF extractBin
<1>5. IsSeq(m.layers) /\ \A i \in DOMAIN m.layers : IsSeq(m.layers[i].files)
  BY <1>1, BinAssumption
<1>6. tars \subseteq Nat /\ titled \subseteq Nat
  BY <1>2, <1>3, <1>5, SeqFacts
<1>7. BuiltFor(m, platform)
  BY <1>1
<1>8. CASE tars # {}
  <2>1. PICK i : i = Min(tars)
    OBVIOUS
  <2>2. i \in tars
    BY <1>6, <1>8, <2>1, MinFacts
  <2>3. i \in DOMAIN m.layers /\ m.layers[i].tar /\ found(i) # {}
    BY <1>2, <2>2
  <2>4. PICK F : F = found(i)
    OBVIOUS
  <2>5. /\ \A j \in F : j \in DOMAIN m.layers[i].files /\ m.layers[i].files[j].regular
        /\ F # {}
    BY <2>3, <2>4 DEF extractBinFromTar
  <2>6. F \subseteq Nat
    BY <1>5, <2>3, <2>5, SeqFacts
  <2>7. PICK j : j = Min(F)
    OBVIOUS
  <2>8. j \in F
    BY <2>5, <2>6, <2>7, MinFacts
  <2>9. m.layers[i].files[j].data.platform = platform
    BY <1>7, <2>3, <2>5, <2>8 DEF BuiltFor
  <2>10. extractBin[d] = <<m.layers[i].files[j].data>>
    BY <1>4, <1>8, <2>1, <2>4, <2>7
  <2> QED BY <2>9, <2>10
<1>9. CASE tars = {} /\ titled # {}
  <2>1. PICK i : i = Min(titled)
    OBVIOUS
  <2>2. i \in titled
    BY <1>6, <1>9, <2>1, MinFacts
  <2>3. i \in DOMAIN m.layers /\ ~m.layers[i].tar
    BY <1>3, <2>2
  <2>4. m.layers[i].data.platform = platform
    BY <1>7, <2>3 DEF BuiltFor
  <2>5. extractBin[d] = <<m.layers[i].data>>
    BY <1>4, <1>9, <2>1
  <2> QED BY <2>4, <2>5
<1> QED BY <1>4, <1>8, <1>9

\* What a deployment pulls runs on its host.
LEMMA PulledMatches ==
    ASSUME NEW bin, Pulled(bin) # <<>> PROVE Pulled(bin)[1].platform = HostPlatform
<1>1. bin.image \in DOMAIN BinDigest /\ Pulled(bin) = RemotePuller(HostPlatform, BinDigest[bin.image])
  BY DEF Pulled
<1>2. PICK d : d = BinDigest[bin.image]
  OBVIOUS
<1>3. d \in DOMAIN BinBlobs /\ BinBlobs[d].index # <<>>
  BY <1>1, <1>2, ImageFlowAssumption DEF ImageFlowAssumption
<1>4. PICK host : host = HostPlatform
  OBVIOUS
<1>5. host # ""
  BY <1>4 DEF HostPlatform
<1>6. PICK m : m = ResolveManifest(host)[d]
  OBVIOUS
<1>7. ForPlatform(m, host)
  BY <1>3, <1>5, <1>6, IndexMatches
<1>8. Pulled(bin) = IF m = <<>> THEN <<>> ELSE extractBin[m[1]]
  BY <1>1, <1>2, <1>4, <1>6 DEF RemotePuller
<1>9. PICK e \in DOMAIN BinBlobs : m = <<e>> /\ BuiltFor(BinBlobs[e], host)
  BY <1>7, <1>8 DEF ForPlatform
<1>10. m # <<>> /\ m[1] = e
  BY ONLY <1>9
<1>11. Pulled(bin) = extractBin[e]
  BY <1>8, <1>10
<1> QED BY <1>4, <1>9, <1>11, ExtractMatches

-----------------------------------------------------------------------------
(* FlowInv holds.                                                             *)

\* A Registry call leaves builds and deployments alone.
LEMMA CallFlow ==
    ASSUME IInv, FlowInv, NEW c \in Calls,
           Tag(c) \/ RemoveRef(c) \/ PullRemote(c) \/ PushRemote(c) \/ CallStep(c)
    PROVE  FlowInv'
<1>1. CallOnly(c)
  BY DEF Tag, RemoveRef, PullRemote, PushRemote, Begin, CallStep, resolveImageID, tag, remove, transfer,
         copyBlobs, copyManifest
<1>2. UNCHANGED <<backend, made, build, deploy>>
  BY <1>1 DEF CallOnly
<1> QED BY <1>2, ReadersFlow

\* So does a listing.
LEMMA ListFlow == ASSUME IInv, FlowInv, NEW l \in Listers, List(l) \/ ListStep(l) PROVE FlowInv'
<1>1. ListOnly
  BY DEF List, ListStep, fetchTags, listed, Inspect
<1>2. UNCHANGED <<backend, made, build, deploy>>
  BY <1>1 DEF ListOnly
<1> QED BY <1>2, ReadersFlow

\* A deployment changes its own local variables.
LEMMA LoadMoves ==
    ASSUME IInv, FlowInv, NEW d \in Deployers, NEW v, deploy' = [deploy EXCEPT ![d] = v], DeployOnly(d), LoadInv(v)
    PROVE  FlowInv'
<1>1. deploy'[d] = v /\ \A u \in Deployers \ {d} : deploy'[u] = deploy[u]
  BY DEF IInv, TypeInv
<1>2. UNCHANGED <<backend, made, build>>
  BY DEF DeployOnly
<1>3. \A u \in Deployers : deploy'[u] = deploy[u] \/ LoadInv(deploy'[u])
  BY <1>1
<1> QED BY <1>2, <1>3, ReadersFlow

\* A deployment takes the operator's overrides, an image of the store and
\* binaries for its host.
LEMMA DeployFlow == ASSUME IInv, FlowInv, NEW d \in Deployers, Deploy(d) \/ DeployStep(d) PROVE FlowInv'
<1>1. /\ LoadInv(deploy[d]) /\ DeployInv(deploy[d]) /\ StoreInv("local") /\ DeployOnly(d)
      /\ DOMAIN deploy[d] = DeployFields
  BY DEF IInv, FlowInv, Stores, DeployInv, Deploy, DeployStep, DeployResolve, Load, materialize
<1>2. CASE DeployFails(d) /\ deploy[d].pc \notin {"off", "idle"}
  <2>1. PICK v : v = [deploy[d] EXCEPT !.pc = "err"]
    OBVIOUS
  <2>2. v.pc = "err" /\ v.with = deploy[d].with /\ v.bins = deploy[d].bins
    BY <1>1, <2>1 DEF DeployFields
  <2>3. LoadInv(v)
    BY <1>1, <1>2, <2>2 DEF LoadInv
  <2> QED BY <1>1, <1>2, <2>1, <2>3, LoadMoves DEF DeployFails
<1>3. CASE Deploy(d)
  <2>1. PICK ref \in DOMAIN images["local"], o \in Deploys :
            deploy' = [deploy EXCEPT ![d] = [@ EXCEPT !.pc = "resolve", !.ref = ref, !.with = o]]
    BY <1>3 DEF Deploy
  <2>2. PICK v : v = [deploy[d] EXCEPT !.pc = "resolve", !.ref = ref, !.with = o]
    OBVIOUS
  <2>3. v.pc = "resolve" /\ v.with = o /\ v.bins = deploy[d].bins
    BY <1>1, <2>2 DEF DeployFields
  <2>4. LoadInv(v)
    BY <1>1, <2>1, <2>3 DEF LoadInv
  <2> QED BY <1>1, <2>1, <2>2, <2>4, LoadMoves
<1>4. CASE DeployResolve(d) /\ ~DeployFails(d)
  <2>1. PICK m : m = hydrate(deploy[d].ref)
    OBVIOUS
  <2>2. /\ deploy[d].ref \in DOMAIN images["local"] /\ deploy[d].pc = "resolve"
        /\ deploy' = [deploy EXCEPT ![d].pc = "fetch", ![d].m = m]
    BY <1>4, <2>1 DEF DeployResolve
  <2>3. PICK v : v = [deploy[d] EXCEPT !.pc = "fetch", !.m = m]
    OBVIOUS
  <2>4. v.pc = "fetch" /\ v.m = m /\ v.with = deploy[d].with /\ v.bins = deploy[d].bins
    BY <1>1, <2>3 DEF DeployFields
  <2>5. m \in Digests
    BY <1>1, <2>1, <2>2 DEF StoreInv, Packed, hydrate
  <2>6. LoadInv(v)
    BY <1>1, <2>2, <2>4, <2>5 DEF LoadInv
  <2> QED BY <1>1, <2>2, <2>3, <2>6, LoadMoves
<1>5. CASE Load(d) /\ ~DeployFails(d)
  <2>1. PICK v : v = [deploy[d] EXCEPT !.pc = "apply", !.config = deploy[d].m]
    OBVIOUS
  <2>2. deploy' = [deploy EXCEPT ![d] = v] /\ deploy[d].pc = "fetch"
    BY <1>5, <2>1 DEF Load
  <2>3. v.pc = "apply" /\ v.config = deploy[d].m /\ v.with = deploy[d].with /\ v.bins = deploy[d].bins
    BY <1>1, <2>1 DEF DeployFields
  <2>4. LoadInv(v)
    BY <1>1, <2>2, <2>3 DEF LoadInv
  <2> QED BY <1>1, <2>2, <2>4, LoadMoves
<1>6. CASE materialize(d) /\ ~DeployFails(d)
  <2>1. PICK own : own = Deployed(d).bins
    OBVIOUS
  <2>2. PICK bins : bins = {Pulled(own[i]) : i \in DOMAIN own}
    OBVIOUS
  <2>3. /\ deploy[d].pc = "apply" /\ <<>> \notin bins
        /\ deploy' = [deploy EXCEPT ![d].pc = "ok", ![d].bins = {f[1] : f \in bins}]
    BY <1>6, <2>1, <2>2 DEF materialize
  <2>4. PICK files : files = {f[1] : f \in bins}
    OBVIOUS
  <2>5. PICK v : v = [deploy[d] EXCEPT !.pc = "ok", !.bins = files]
    OBVIOUS
  <2>6. v.pc = "ok" /\ v.config = deploy[d].config /\ v.with = deploy[d].with /\ v.bins = files
    BY <1>1, <2>5 DEF DeployFields
  <2>7. ASSUME NEW f \in files PROVE f.platform = HostPlatform
    <3>1. PICK i \in DOMAIN own : f = Pulled(own[i])[1] /\ Pulled(own[i]) # <<>>
      BY <2>2, <2>3, <2>4
    <3> QED BY <3>1, PulledMatches
  <2>8. LoadInv(v)
    BY <1>1, <2>3, <2>6, <2>7 DEF LoadInv
  <2>9. deploy' = [deploy EXCEPT ![d] = v]
    BY <2>3, <2>4, <2>5
  <2> QED BY <1>1, <2>8, <2>9, LoadMoves
<1>7. DeployStep(d) => deploy[d].pc \notin {"off", "idle"}
  BY DEF DeployStep, DeployResolve, Load, materialize
<1> QED BY <1>2, <1>3, <1>4, <1>5, <1>6, <1>7 DEF DeployStep

\* The scenarios begin with artifacts of earlier builds and nothing in hand.
LEMMA FlowInit == Init => FlowInv
<1> SUFFICES ASSUME Init PROVE FlowInv
  OBVIOUS
<1>1. made = [d \in Digests |-> IF d \in Builders THEN NoManifest ELSE Earlier[d]]
  BY DEF Init
<1>2. PICK sc \in Scenarios :
        /\ \E src \in [Builders \cap sc.procs -> sc.sources] :
             build = [b \in Builders |->
               [pc |-> IF b \in sc.procs THEN "idle" ELSE "off",
                src |-> IF b \in sc.procs THEN src[b] ELSE "", fetched |-> <<>>, own |-> newAgent,
                agent |-> newAgent, layers |-> <<>>, pushed |-> 0, staged |-> NoBlobs]]
        /\ deploy = [d \in Deployers |->
             [pc |-> IF d \in sc.procs THEN "idle" ELSE "off", ref |-> NoRef,
              with |-> CHOOSE o \in Deploys : TRUE, m |-> NoDigest, config |-> NoDigest, bins |-> {}]]
  BY DEF Init
<1>3. PICK src \in [Builders \cap sc.procs -> sc.sources] :
        build = [b \in Builders |->
               [pc |-> IF b \in sc.procs THEN "idle" ELSE "off",
                src |-> IF b \in sc.procs THEN src[b] ELSE "", fetched |-> <<>>, own |-> newAgent,
                agent |-> newAgent, layers |-> <<>>, pushed |-> 0, staged |-> NoBlobs]]
  BY <1>2
<1>4. /\ \A d \in DOMAIN Earlier : WellBuilt(Earlier[d])
      /\ sc.sources \subseteq DOMAIN Sources
  BY ImageFlowAssumption DEF ImageFlowAssumption
<1>5. WellBuilt(NoManifest)
  <2>1. NoManifest.config = configBlob(newAgent) /\ NoManifest.layers = <<>>
    BY DEF NoManifest, Manifest
  <2>2. WellFormed(NoManifest.config) /\ IsSeq(NoManifest.layers) /\ DOMAIN NoManifest.layers = {}
    BY <2>1, NewAgentOK, BlobOK, ShortSeqs
  <2>3. NoManifest.config.contexts = <<>>
    <3>1. newAgent.contexts = <<>> /\ "contexts" \in DOMAIN newAgent
      BY DEF newAgent
    <3> QED BY <2>1, <3>1 DEF configBlob
  <2>4. Names(NoManifest.config.contexts) = {}
    BY <2>3, ShortSeqs DEF Names
  <2> QED BY <2>2, <2>4 DEF WellBuilt
<1>6. ASSUME NEW d \in Digests PROVE WellBuilt(made[d])
  BY <1>1, <1>4, <1>5 DEF Digests
<1>7. ASSUME NEW b \in Builders PROVE CarryInv(b, build[b])
  <2>1. /\ build[b].own = newAgent /\ build[b].fetched = <<>> /\ build[b].pc \notin {"push", "manifest"}
        /\ build[b].pc # "off" => build[b].src \in DOMAIN Sources
    BY <1>3, <1>4
  <2>2. IsSeq(build[b].fetched) /\ DOMAIN build[b].fetched = {}
    BY <2>1, ShortSeqs
  <2> QED BY <2>1, <2>2, NewAgentFresh DEF CarryInv
<1>8. ASSUME NEW d \in Deployers PROVE LoadInv(deploy[d])
  <2>1. deploy[d].pc \in {"idle", "off"} /\ deploy[d].bins = {}
    BY <1>2
  <2> QED BY <2>1 DEF LoadInv
<1> QED BY <1>6, <1>7, <1>8 DEF FlowInv

\* Every step keeps it.
LEMMA FlowNext == ASSUME IInv, FlowInv, [Next]_vars PROVE FlowInv'
<1>1. ASSUME NEW b \in Builders, FromFile(b) \/ BuildStep(b) PROVE FlowInv'
  BY <1>1, BuildStepFlow
<1>2. ASSUME NEW c \in Calls, Tag(c) \/ RemoveRef(c) \/ PullRemote(c) \/ PushRemote(c) \/ CallStep(c)
      PROVE  FlowInv'
  BY <1>2, CallFlow
<1>3. ASSUME NEW l \in Listers, List(l) \/ ListStep(l) PROVE FlowInv'
  BY <1>3, ListFlow
<1>4. ASSUME NEW d \in Deployers, Deploy(d) \/ DeployStep(d) PROVE FlowInv'
  BY <1>4, DeployFlow
<1>5. CASE UNCHANGED vars
  <2>1. UNCHANGED <<backend, made, build, deploy>>
    BY <1>5 DEF vars
  <2> QED BY <2>1, ReadersFlow
<1> QED BY <1>1, <1>2, <1>3, <1>4, <1>5 DEF Next

\* The inductive invariant: every manifest is one that a build makes, a build
\* carries what its sources and the artifacts it has fetched say, and a
\* deployment has an artifact and overrides to work on.
THEOREM FlowHolds == Spec => [](IInv /\ FlowInv)
<1>1. IInv /\ FlowInv /\ [Next]_vars => (IInv /\ FlowInv)'
  BY NextInv, FlowNext
<1>2. Init => IInv /\ FlowInv
  BY InitInv, FlowInit
<1> QED BY <1>1, <1>2, PTL DEF Spec

\* oci/manifest.go and oci/puller.go: a binary that is installed is for the
\* platform that runs it, through nested indexes too.
THEOREM BinsMatchPlatformHolds == Spec => []BinsMatchPlatform
<1>1. FlowInv => BinsMatchPlatform
  BY DEF FlowInv, LoadInv, BinsMatchPlatform
<1> QED BY <1>1, FlowHolds, PTL

-----------------------------------------------------------------------------
(* The theorems about inheritance.                                            *)

\* The manifest of a build that has a parent.
LEMMA Inherited ==
    ASSUME FlowInv, NEW b \in Builders, build[b].pc = "manifest", build[b].fetched # <<>>,
           NEW own, own = build[b].own, NEW parent, parent = made[build[b].fetched[1]]
    PROVE  /\ NearestOf(made[b].config, own, configBlob(LoadHydrated(parent)))
           /\ KeepsContents(made[b].layers, parent, own)
<1>1. PICK v : v = build[b]
  OBVIOUS
<1>2. CarryInv(b, v) /\ Sound(v)
  BY <1>1, CarrySound
<1>3. PICK a : a = mergeChain(ChainOf(v))
  OBVIOUS
<1>4. BuiltFrom(made[b], a, v.src)
  BY <1>1, <1>2, <1>3 DEF CarryInv
<1>5. WellFormed(a)
  BY <1>2, <1>3, ChainResult
<1>6. PICK x : Inherits(x, LoadHydrated(parent)) /\ a = mergeAgent(x, own)
  BY <1>1, <1>2, <1>3, ChainResult
<1>7. PICK m, dir : m = made[b] /\ dir = Sources[v.src].dir
  OBVIOUS
<1>8. m.config = configBlob(a) /\ Carries(m.layers, a.contexts, a.adds, dir)
  BY <1>4, <1>5, <1>7, BuiltWell
<1>9. WellFormed(own) /\ Bare(own)
  BY <1>1, <1>2 DEF Sound, Fresh
<1>10. WellBuilt(parent)
  <2>1. 1 \in DOMAIN v.fetched
    <3>1. IsSeq(v.fetched) /\ v.fetched # <<>>
      BY <1>1, <1>2 DEF Sound
    <3>2. Len(v.fetched) \in Nat /\ DOMAIN v.fetched = 1 .. Len(v.fetched)
      BY <3>1, SeqFacts
    <3>3. Len(v.fetched) # 0
      BY ONLY <3>1, <3>2 DEF IsSeq
    <3> QED BY ONLY <3>2, <3>3
  <2> QED BY <1>1, <1>2, <2>1 DEF Sound
<1>11. PICK p : p = LoadHydrated(parent)
  OBVIOUS
<1>12. WellFormed(p)
  BY <1>10, <1>11, HydratedOK DEF WellBuilt
<1>13. NearestOf(configBlob(a), own, configBlob(p))
  BY <1>6, <1>9, <1>11, <1>12, NearestMerged
<1>14. KeepsContents(m.layers, parent, own)
  BY <1>6, <1>8, <1>9, <1>10, ContentsMerged
<1> QED BY ONLY <1>7, <1>8, <1>11, <1>13, <1>14

\* resolve.go mergeAgent: what the child declares wins, then what its parent's
\* artifact says, for every ENV, CONFIG, CONTEXT, ADD, BIN, LABEL and CAPABILITY,
\* whatever the Agentfiles say and however long the chain is.
THEOREM NearestWinsHolds == Spec => []NearestWins
<1>1. FlowInv => NearestWins
  <2> SUFFICES ASSUME FlowInv, NEW b \in Builders, build[b].pc = "manifest", build[b].fetched # <<>>
               PROVE  NearestOf(made[b].config, build[b].own, configBlob(LoadHydrated(Of(build[b].fetched[1]))))
    BY DEF NearestWins, NearestOf
  <2>1. PICK own, parent : own = build[b].own /\ parent = made[build[b].fetched[1]]
    OBVIOUS
  <2>2. NearestOf(made[b].config, own, configBlob(LoadHydrated(parent)))
    BY <2>1, Inherited
  <2> QED BY <2>1, <2>2 DEF Of
<1> QED BY <1>1, FlowHolds, PTL

\* load.go LoadHydrated, build.go BuildLayers: an inherited file keeps the content
\* that it has in the parent's artifact.
THEOREM InheritedContentKeptHolds == Spec => []InheritedContentKept
<1>1. FlowInv => InheritedContentKept
  <2> SUFFICES ASSUME FlowInv, NEW b \in Builders, build[b].pc = "manifest", build[b].fetched # <<>>,
                      NEW media \in {"context", "file"}, NEW i \in DOMAIN Of(build[b].fetched[1]).layers,
                      Titled(Of(build[b].fetched[1]).layers, media, Of(build[b].fetched[1]).layers[i].title) # <<>>,
                      Of(build[b].fetched[1]).layers[i].title \notin
                          Names(IF media = "context" THEN build[b].own.contexts ELSE build[b].own.adds),
                      media = "file" =>
                          Titled(Of(build[b].fetched[1]).layers, media, Of(build[b].fetched[1]).layers[i].title) # <<"">>
               PROVE  Titled(made[b].layers, media, Of(build[b].fetched[1]).layers[i].title) =
                      Titled(Of(build[b].fetched[1]).layers, media, Of(build[b].fetched[1]).layers[i].title)
    BY DEF InheritedContentKept
  <2>1. PICK own, parent : own = build[b].own /\ parent = made[build[b].fetched[1]]
    OBVIOUS
  <2>2. KeepsContents(made[b].layers, parent, own)
    BY <2>1, Inherited
  <2>3. Of(build[b].fetched[1]) = parent
    BY <2>1 DEF Of
  <2> QED BY <2>1, <2>2, <2>3 DEF KeepsContents
<1> QED BY <1>1, FlowHolds, PTL

-----------------------------------------------------------------------------
(* The overrides of a deployment.                                             *)

\* The entries of a finite set as a list.
LEMMA ListedSet ==
    ASSUME NEW S, IsFiniteSet(S)
    PROVE  IsSeq(SetToSeq(S)) /\ \A i \in DOMAIN SetToSeq(S) : SetToSeq(S)[i] \in S
<1>1. PICK n : n = Cardinality(S)
  OBVIOUS
<1>2. n \in Nat /\ ExistsBijection(1 .. n, S)
  BY <1>1, FS_CardinalityType
<1>3. \E f \in [1 .. n -> S] : IsInjective(f)
  BY <1>2 DEF ExistsBijection, Bijection, Injection
<1>4. PICK q : q = SetToSeq(S)
  OBVIOUS
<1>5. q = CHOOSE f \in [1 .. n -> S] : IsInjective(f)
  BY <1>1, <1>4 DEF SetToSeq
<1>6. q \in [1 .. n -> S]
  BY <1>3, <1>5
<1>7. DOMAIN q = 1 .. n /\ q = [i \in 1 .. n |-> q[i]]
  BY ONLY <1>6
<1>8. IsSeq(q)
  BY ONLY <1>2, <1>7, FunIsSeq
<1> QED BY ONLY <1>4, <1>6, <1>8

\* An entry of C has the operator's value, or its key has another entry.
Sets(C, values) ==
    \A i \in DOMAIN C : C[i].key \in DOMAIN values =>
        \/ C[i].value = values[C[i].key]
        \/ \E j \in DOMAIN C : j # i /\ C[j].key = C[i].key

\* Every entry of an overridden key has the operator's value, unless the key has
\* several.
LEMMA ConfigSets ==
    ASSUME NEW agent, WellFormed(agent), NEW values, IsFiniteSet(DOMAIN values)
    PROVE  IsSeq(WithConfig(agent, values).configs) /\ Sets(WithConfig(agent, values).configs, values)
<1>1. PICK A : A = agent.configs
  OBVIOUS
<1> DEFINE first(i) == \A j \in 1 .. (i - 1) : A[j].key # A[i].key
<1>2. PICK new : new = SetToSeq(DOMAIN values \ Keys(A))
  OBVIOUS
<1>3. PICK old : old = [i \in DOMAIN A |-> IF A[i].key \in DOMAIN values /\ first(i)
                                           THEN [A[i] EXCEPT !.value = values[A[i].key]] ELSE A[i]]
  OBVIOUS
<1>4. PICK more : more = [i \in DOMAIN new |-> [key |-> new[i], value |-> values[new[i]], required |-> FALSE]]
  OBVIOUS
<1>5. PICK C : C = old \o more
  OBVIOUS
<1>6. WithConfig(agent, values).configs = C
  <2>1. "configs" \in DOMAIN agent
    BY DEF WellFormed, newAgent
  <2>2. WithConfig(agent, values) = [agent EXCEPT !.configs = C]
    BY <1>1, <1>2, <1>3, <1>4, <1>5 DEF WithConfig
  <2> QED BY ONLY <2>1, <2>2
<1>7. /\ IsSeq(A) /\ Len(A) \in Nat /\ DOMAIN A = 1 .. Len(A)
      /\ \A i \in DOMAIN A : DOMAIN A[i] = {"key", "value", "required"}
  BY <1>1, SeqFacts DEF WellFormed, Lists
<1>8. IsSeq(new)
  <2>1. PICK S : S = DOMAIN values \ Keys(A)
    OBVIOUS
  <2>2. IsFiniteSet(S)
    BY <2>1, FS_Subset
  <2> QED BY <1>2, <2>1, <2>2, ListedSet
<1>9. Len(new) \in Nat /\ DOMAIN new = 1 .. Len(new)
  BY <1>8, SeqFacts
<1>10. IsSeq(old) /\ Len(old) = Len(A)
  <2>1. DOMAIN old = 1 .. Len(A) /\ old = [i \in 1 .. Len(A) |-> old[i]]
    BY <1>3, <1>7
  <2> QED BY ONLY <1>7, <2>1, FunIsSeq
<1>11. IsSeq(more) /\ Len(more) = Len(new)
  <2>1. DOMAIN more = 1 .. Len(new) /\ more = [i \in 1 .. Len(new) |-> more[i]]
    BY <1>4, <1>9
  <2> QED BY ONLY <1>9, <2>1, FunIsSeq
<1>12. /\ IsSeq(C) /\ DOMAIN C = 1 .. (Len(A) + Len(new))
       /\ \A i \in 1 .. Len(A) : C[i] = old[i]
       /\ \A j \in 1 .. Len(new) : C[Len(A) + j] = more[j]
  <2>1. /\ IsSeq(old \o more) /\ DOMAIN (old \o more) = 1 .. (Len(old) + Len(more))
        /\ \A i \in 1 .. Len(old) : (old \o more)[i] = old[i]
        /\ \A j \in 1 .. Len(more) : (old \o more)[Len(old) + j] = more[j]
    BY ONLY <1>10, <1>11, Concat
  <2> QED BY ONLY <1>5, <1>10, <1>11, <2>1
<1>13. \A i \in DOMAIN A : old[i].key = A[i].key
  BY <1>3, <1>7
<1>14. \A i \in DOMAIN A : A[i].key \in DOMAIN values /\ first(i) => old[i].value = values[A[i].key]
  BY <1>3, <1>7
<1>15. \A j \in DOMAIN new : more[j].key = new[j] /\ more[j].value = values[new[j]]
  BY <1>4
<1> HIDE DEF first
<1>16. ASSUME NEW i \in DOMAIN C, C[i].key \in DOMAIN values, C[i].value # values[C[i].key]
       PROVE  \E j \in DOMAIN C : j # i /\ C[j].key = C[i].key
  <2>1. CASE i \in 1 .. Len(A)
    <3>1. C[i] = old[i] /\ C[i].key = A[i].key /\ i \in DOMAIN A
      BY <1>7, <1>12, <1>13, <2>1
    <3>2. ~first(i)
      BY <1>14, <1>16, <3>1
    <3>3. PICK j \in 1 .. (i - 1) : A[j].key = A[i].key
      BY <3>2 DEF first
    <3>4. j \in 1 .. Len(A) /\ j # i /\ j \in DOMAIN A /\ j \in DOMAIN C
      BY ONLY <1>7, <1>9, <1>12, <2>1, <3>3
    <3>5. C[j].key = A[j].key
      BY <1>12, <1>13, <3>4
    <3> QED BY <3>1, <3>3, <3>4, <3>5
  <2>2. CASE i \notin 1 .. Len(A)
    <3>1. PICK j \in 1 .. Len(new) : i = Len(A) + j
      <4>1. i - Len(A) \in 1 .. Len(new) /\ i = Len(A) + (i - Len(A))
        BY ONLY <1>7, <1>9, <1>12, <1>16, <2>2
      <4> QED BY ONLY <4>1
    <3>2. C[i] = more[j]
      BY <1>12, <3>1
    <3>3. C[i].value = values[C[i].key]
      BY <1>9, <1>15, <3>1, <3>2
    <3> QED BY <1>16, <3>3
  <2> QED BY <2>1, <2>2
<1>17. Sets(C, values)
  BY ONLY <1>16 DEF Sets
<1> QED BY ONLY <1>1, <1>6, <1>12, <1>17

\* x is the only entry of the key k, and its value is the key's.
Counts(C, k, x) ==
    /\ C[x].key = k /\ \A j \in DOMAIN C : C[j].key = k => j = x
    /\ C[x].value # Nil => configsFromSpec(C)[k] = C[x].value

\* Of the entries with a value, the only one of its key counts.
LEMMA OnlyEntry ==
    ASSUME NEW C, IsSeq(C), NEW k, Cardinality({i \in DOMAIN C : C[i].key = k}) = 1
    PROVE  \E x \in DOMAIN C : Counts(C, k, x)
<1>1. PICK at : at = {i \in DOMAIN C : C[i].key = k}
  OBVIOUS
<1>2. Len(C) \in Nat /\ DOMAIN C = 1 .. Len(C)
  BY SeqFacts
<1>3. \E x : at = {x}
  <2>1. IsFiniteSet(1 .. Len(C))
    BY <1>2, FS_Interval
  <2>2. at \in SUBSET (1 .. Len(C))
    BY <1>1, <1>2
  <2>3. IsFiniteSet(at)
    BY ONLY <2>1, <2>2, FS_Subset
  <2> QED BY <1>1, <2>3, FS_Singleton
<1>4. PICK x : at = {x}
  BY <1>3
<1>5. x \in DOMAIN C /\ C[x].key = k /\ \A j \in DOMAIN C : C[j].key = k => j = x
  BY <1>1, <1>4
<1>6. ASSUME C[x].value # Nil PROVE configsFromSpec(C)[k] = C[x].value
  <2>1. PICK I : I = {i \in DOMAIN C : C[i].value # Nil}
    OBVIOUS
  <2>2. PICK q : q = Subsequence(C, I)
    OBVIOUS
  <2>3. PICK K : K = {C[x]}
    OBVIOUS
  <2>4. PICK J : J = {i \in I : C[i] \in K}
    OBVIOUS
  <2>5. I \subseteq 1 .. Len(C)
    BY <1>2, <2>1
  <2>6. SameLast(q, C, K, J)
    BY <1>2, <2>2, <2>4, <2>5, LastOfSubsequence
  <2>7. HasJust(q, C, I)
    BY <1>2, <2>2, <2>5, SubsequenceIsSeq
  <2>8. J = {x}
    <3>1. x \in I
      BY <1>5, <1>6, <2>1
    <3>2. x \in J
      BY <2>3, <2>4, <3>1
    <3>3. \A i \in J : i = x
      BY <1>5, <2>1, <2>3, <2>4
    <3> QED BY <3>2, <3>3
  <2>9. Max(J) = x
    <3>1. x \in 1 .. Len(C) /\ J \subseteq 1 .. Len(C) /\ x \in J /\ \A y \in J : y <= x
      BY <1>2, <1>5, <2>8
    <3> QED BY ONLY <1>2, <3>1, MaxIs
  <2>10. KeyedAt(q, k) = Where(q, K)
    <3>1. \A a \in DOMAIN q : q[a].key = k <=> q[a] \in K
      <4> SUFFICES ASSUME NEW a \in DOMAIN q PROVE q[a].key = k <=> q[a] \in K
        OBVIOUS
      <4>1. PICK i \in I : q[a] = C[i]
        BY <2>7 DEF HasJust
      <4> QED BY <1>5, <2>1, <2>3, <4>1
    <3> QED BY ONLY <3>1 DEF KeyedAt, Where
  <2>11. Where(q, K) # {} /\ q[Max(Where(q, K))] = C[x]
    <3>1. J # {}
      BY ONLY <2>8
    <3> QED BY ONLY <2>6, <2>9, <3>1 DEF SameLast
  <2>12. k \in DOMAIN LastValue(q) /\ LastValue(q)[k] = q[Max(KeyedAt(q, k))].value
    BY <2>10, <2>11, LastFacts
  <2>13. configsFromSpec(C) = LastValue(q)
    BY <2>1, <2>2 DEF configsFromSpec
  <2> QED BY ONLY <2>10, <2>11, <2>12, <2>13
<1> QED BY ONLY <1>5, <1>6 DEF Counts

\* What the view that is deployed says of the overrides.
Obeys(view, o) ==
    /\ \A i \in DOMAIN o.envs : LastValue(view.envs)[o.envs[i].key] = LastValue(o.envs)[o.envs[i].key]
    /\ \A k \in DOMAIN o.values :
          Cardinality({i \in DOMAIN view.configs : view.configs[i].key = k}) = 1 =>
              configsFromSpec(view.configs)[k] = o.values[k]

\* WithConfig and WithExtraEnvs, of any artifact and any overrides.
LEMMA OverridesWin ==
    ASSUME NEW agent, WellFormed(agent), NEW o \in Deploys
    PROVE  Obeys(WithExtraEnvs(WithConfig(agent, o.values), o.envs), o)
<1>1. /\ IsSeq(o.envs) /\ IsFiniteSet(DOMAIN o.values)
      /\ \A k \in DOMAIN o.values : o.values[k] # Nil
  BY ImageFlowAssumption DEF ImageFlowAssumption
<1>2. PICK a : a = WithConfig(agent, o.values)
  OBVIOUS
<1>3. PICK C : C = a.configs
  OBVIOUS
<1>4. IsSeq(C) /\ Sets(C, o.values)
  BY <1>1, <1>2, <1>3, ConfigSets
<1>5. DOMAIN a = DOMAIN agent /\ a.envs = agent.envs /\ {"envs", "configs"} \subseteq DOMAIN a
  <2>1. {"envs", "configs"} \subseteq DOMAIN agent
    BY DEF WellFormed, newAgent
  <2>2. PICK z : a = [agent EXCEPT !.configs = z]
    BY <1>2 DEF WithConfig
  <2> QED BY ONLY <2>1, <2>2
<1>6. PICK E : E = agent.envs
  OBVIOUS
<1>7. IsSeq(E) /\ Len(E) \in Nat /\ DOMAIN E = 1 .. Len(E)
  BY <1>6, SeqFacts DEF WellFormed
<1>8. PICK I : I = {i \in DOMAIN E : E[i].key \notin Keys(o.envs)}
  OBVIOUS
<1>9. PICK kept : kept = Subsequence(E, I)
  OBVIOUS
<1>10. IsSeq(kept)
  <2>1. I \subseteq 1 .. Len(E)
    BY <1>7, <1>8
  <2>2. HasJust(kept, E, I)
    BY <1>7, <1>9, <2>1, SubsequenceIsSeq
  <2> QED BY <2>2 DEF HasJust
<1>11. PICK view : view = WithExtraEnvs(a, o.envs)
  OBVIOUS
<1>12. view.envs = kept \o o.envs /\ view.configs = C
  <2>1. view = [a EXCEPT !.envs = kept \o o.envs]
    BY <1>5, <1>6, <1>8, <1>9, <1>11 DEF WithExtraEnvs
  <2> QED BY ONLY <1>3, <1>5, <2>1
<1>13. ASSUME NEW i \in DOMAIN o.envs
       PROVE  LastValue(view.envs)[o.envs[i].key] = LastValue(o.envs)[o.envs[i].key]
  <2>1. PICK k, envs, r : k = o.envs[i].key /\ envs = o.envs /\ r = kept \o envs
    OBVIOUS
  <2>2. k \in DOMAIN LastValue(envs)
    <3>1. k \in Keys(envs)
      BY <2>1 DEF Keys
    <3> QED BY <3>1, LastFacts
  <2>3. KeysOver(r, envs, kept)
    BY <1>1, <1>10, <2>1, ConcatKeys
  <2>4. LastValue(r)[k] = LastValue(envs)[k]
    BY <2>2, <2>3 DEF KeysOver
  <2> QED BY <1>12, <2>1, <2>4
<1>14. ASSUME NEW k \in DOMAIN o.values, Cardinality({i \in DOMAIN C : C[i].key = k}) = 1
       PROVE  configsFromSpec(C)[k] = o.values[k]
  <2>1. PICK x \in DOMAIN C : Counts(C, k, x)
    <3>1. IsSeq(C) /\ Cardinality({i \in DOMAIN C : C[i].key = k}) = 1
      BY <1>4, <1>14
    <3> QED BY ONLY <3>1, OnlyEntry
  <2>2. C[x].value = o.values[k]
    BY <1>4, <2>1 DEF Sets, Counts
  <2> QED BY <1>1, <2>1, <2>2 DEF Counts
<1>15. Obeys(view, o)
  BY <1>12, <1>13, <1>14 DEF Obeys
<1> QED BY <1>2, <1>11, <1>15

\* types.go WithConfig and WithExtraEnvs, workspace.go configsFromSpec: what the operator gives at deployment is what the
\* agent sees, whatever the artifact says.
THEOREM OperatorWinsHolds == Spec => []OperatorWins
<1>1. FlowInv => OperatorWins
  <2> SUFFICES ASSUME FlowInv, NEW d \in Deployers, deploy[d].pc = "ok" PROVE Obeys(Deployed(d), deploy[d].with)
    BY DEF OperatorWins, Obeys
  <2>1. deploy[d].with \in Deploys /\ deploy[d].config \in Digests
    BY DEF FlowInv, LoadInv
  <2>2. PICK agent, o : agent = made[deploy[d].config].config /\ o = deploy[d].with
    OBVIOUS
  <2>3. WellFormed(agent) /\ o \in Deploys
    BY <2>1, <2>2 DEF FlowInv, WellBuilt
  <2>4. Obeys(WithExtraEnvs(WithConfig(agent, o.values), o.envs), o)
    BY <2>3, OverridesWin
  <2> QED BY <2>2, <2>4 DEF Deployed, Loaded, Of
<1> QED BY <1>1, FlowHolds, PTL
=============================================================================
