-------------------------- MODULE VersionLockProofs --------------------------
(***************************************************************************)
(* Proofs about VersionLock for every set of keys and locks of every       *)
(* length and indentation.  Most is about the lock s alone: the tree that  *)
(* a general reader sees in it and the paths that the lookups walk.  Where *)
(* a recursive function is involved the argument looks at the first line   *)
(* that does otherwise.                                                    *)
(***************************************************************************)
EXTENDS VersionLock, WellFoundedInduction, SequenceTheorems, TLAPS

Awaits(l) == l.form = "key" /\ l.tail = "none"

\* Line m hangs where it may below the lines above it.
LineOk(s, m) ==
    /\ s[m].form # "other"
    /\ Parent(s, m) = 0 => s[m].spaces = 0 /\ s[m].form = "key"
    /\ Parent(s, m) # 0 => /\ s[m].spaces = s[Parent(s, m)].spaces + 2
                           /\ Awaits(s[Parent(s, m)])
    /\ \A k \in 1..m - 1 : Parent(s, k) = Parent(s, m) => Siblings(s, k, m)

\* A beginning of a supported lock: only children may be missing.
Sound(s) == \A m \in Numbers(s) : LineOk(s, m)

\* The last line of depth d, when nothing behind it has closed it.
Open(s, o, d) == Depth(s[o]) = d /\ \A m \in o + 1..Len(s) : Depth(s[m]) > d

KeyLines(s) == {n \in Numbers(s) : s[n].form = "key"}

\* While it reads, the validator's stack is the open part of the tree.
StackInv ==
    LET N == Len(lock) IN
    /\ previous_depth = Depth(lock[N]) /\ awaiting = Awaits(lock[N])
    /\ Len(path) = previous_depth + (IF lock[N].form = "key" THEN 1 ELSE 0)
    /\ \A d \in 0..previous_depth : \E o \in 1..N :
          /\ Open(lock, o, d) /\ container[d + 1] = Kind(lock[o])
          /\ lock[o].form = "key" => SubSeq(path, 1, d + 1) = KeysTo(lock)[o]

ReadInv ==
    /\ Sound(lock) /\ seen = {KeysTo(lock)[n] : n \in KeyLines(lock)}
    /\ \A n \in 1..Len(lock) - 1 : Awaits(lock[n]) => Children(lock, n) # {}
    /\ lock = <<>> => previous_depth = -1 /\ container = <<"map">> /\ path = <<>> /\ ~awaiting
    /\ lock # <<>> => StackInv

-----------------------------------------------------------------------------
(* Numbers.                                                                *)

\* Every set of numbers that is not empty has a least one.
LEMMA Least == ASSUME NEW T, T \subseteq Nat, T # {}
               PROVE  \E x \in T : \A y \in T : x <= y
<1>. DEFINE R == {p \in Nat \X Nat : p[1] < p[2]}
<1>1. IsWellFoundedOn(R, Nat)
  BY NatLessThanWellFounded, Zenon DEF OpToRel
<1>2. PICK x \in T : \A y \in T : <<y, x>> \notin R
  <2>. HIDE DEF R
  <2>. QED  BY <1>1, WFMin
<1>3. \A y \in T : ~(y < x)
  BY <1>2
<1>. QED  BY <1>3

\* Every bounded set of numbers that is not empty has a greatest one.
LEMMA Most == ASSUME NEW T, NEW n \in Nat, T \subseteq 0..n, T # {}
              PROVE  \E x \in T : \A y \in T : y <= x
<1>. DEFINE D == {n - x : x \in T}
<1>1. D \subseteq Nat
  OBVIOUS
<1>2. D # {}
  <2>1. PICK x : x \in T
    OBVIOUS
  <2>2. n - x \in D
    BY <2>1
  <2>. QED  BY <2>2
<1>3. PICK e \in D : \A y \in D : e <= y
  <2>. HIDE DEF D
  <2>. QED  BY <1>1, <1>2, Least
<1>4. PICK x \in T : e = n - x
  BY <1>3
<1>5. ASSUME NEW y \in T PROVE y <= x
  <2>1. n - y \in D
    OBVIOUS
  <2>. QED  BY <1>3, <1>4, <2>1
<1>. QED  BY <1>5

\* Half of a number of spaces, the depth of a line.
LEMMA Half == ASSUME NEW x \in Nat
   PROVE  /\ x \div 2 \in Nat
          /\ x % 2 = 0 => x = 2 * (x \div 2)
          /\ x = 2 * (x \div 2) \/ x = 2 * (x \div 2) + 1
<1>1. x \div 2 \in Nat
  OBVIOUS
<1>2. x % 2 = 0 => x = 2 * (x \div 2)
  OBVIOUS
<1>3. x = 2 * (x \div 2) \/ x = 2 * (x \div 2) + 1
  OBVIOUS
<1>. QED  BY <1>1, <1>2, <1>3

\* Depths are ordered as the indentations are.
LEMMA HalfOrder == ASSUME NEW x \in Nat, NEW y \in Nat
   PROVE  (x <= y => x \div 2 <= y \div 2) /\ (2 * x) \div 2 = x /\ (2 * x) % 2 = 0
OBVIOUS

\* First, of line numbers.
LEMMA FirstFacts == ASSUME NEW S, S \subseteq Nat \ {0}
   PROVE  /\ S = {} <=> First(S) = 0
          /\ S # {} => First(S) \in S /\ \A m \in S : First(S) <= m
<1>1. S # {} => \E n \in S : \A m \in S : n <= m
  BY Least
<1>. QED  BY <1>1 DEF First

\* The first line of a set is the one that comes before all others.
LEMMA FirstIs == ASSUME NEW S, S \subseteq Nat \ {0}, NEW n \in S, \A m \in S : n <= m
                 PROVE  First(S) = n
<1>1. First(S) \in S /\ First(S) <= n /\ n <= First(S)
  BY FirstFacts
<1>2. First(S) \in Nat /\ n \in Nat
  BY <1>1
<1>. QED  BY <1>1, <1>2

\* The forms of a line, with the depth that it has.
LEMMA LineFacts == ASSUME NEW l \in Lines
   PROVE  /\ l.spaces \in 0..MaxSpaces /\ Depth(l) \in 0..MaxSpaces \div 2
          /\ l.form \in {"key", "item", "url", "other"}
          /\ l.form = "key" <=> l.key \in Keys
          /\ l.key \in Keys \cup {"-"}
          /\ l.spaces % 2 = 0 => l.spaces = 2 * Depth(l)
          /\ l.spaces = 2 * Depth(l) \/ l.spaces = 2 * Depth(l) + 1
<1>1. l \in Line /\ l.spaces \in 0..MaxSpaces /\ MaxSpaces \in Nat /\ l.spaces \in Nat
  BY BoundsAreNumbers DEF Lines, Line
<1>. DEFINE x == l.spaces
<1>2. x \div 2 \in 0..MaxSpaces \div 2
  <2>1. x \in Nat /\ x <= MaxSpaces
    BY <1>1
  <2>. HIDE DEF x
  <2>. QED  BY <1>1, <2>1, HalfOrder, Half
<1>3. l.form \in {"key", "item", "url", "other"} /\ l.key \in Keys \cup {"-"}
  BY <1>1 DEF Line
<1>4. l.form = "key" <=> l.key \in Keys
  BY <1>3, KeysAreNames DEF Lines
<1>. QED  BY <1>1, <1>2, <1>3, <1>4, Half DEF Depth

\* An indented line belongs to a deeper level exactly when its indentation is even and greater.
LEMMA DepthOrder == ASSUME NEW k \in Lines, NEW l \in Lines
   PROVE  /\ Depth(k) < Depth(l) => k.spaces < l.spaces
          /\ l.spaces % 2 = 0 /\ Depth(k) >= Depth(l) => k.spaces >= l.spaces
          /\ k.spaces = l.spaces => Depth(k) = Depth(l)
<1>1. Depth(k) \in Nat /\ Depth(l) \in Nat /\ k.spaces \in Nat /\ l.spaces \in Nat
  BY LineFacts, BoundsAreNumbers, Half
<1>. QED  BY <1>1, LineFacts DEF Depth
-----------------------------------------------------------------------------
(* The tree.                                                               *)

\* A line of a lock is a line.
LEMMA LineAt == ASSUME NEW s \in Seq(Lines), NEW n \in Numbers(s)
   PROVE  /\ n \in Nat \ {0} /\ Len(s) \in Nat /\ n <= Len(s)
          /\ s[n] \in Lines /\ s[n].spaces \in Nat /\ Depth(s[n]) \in Nat
<1>1. Len(s) \in Nat /\ n \in 1..Len(s) /\ s[n] \in Lines
  BY DEF Numbers
<1>. QED  BY <1>1, LineFacts, BoundsAreNumbers, Half

\* The parent is the nearest line above that is indented less.
LEMMA ParentFacts == ASSUME NEW s \in Seq(Lines), NEW n \in Numbers(s)
   PROVE  /\ Parent(s, n) \in 0..n - 1
          /\ Parent(s, n) # 0 => Parent(s, n) \in Numbers(s) /\ s[Parent(s, n)].spaces < s[n].spaces
          /\ \A m \in Parent(s, n) + 1..n - 1 : s[m].spaces >= s[n].spaces
<1>. DEFINE above == {m \in 1..n - 1 : s[m].spaces < s[n].spaces}
            p == Parent(s, n)
<1>1. Len(s) \in Nat /\ n \in 1..Len(s) /\ s[n].spaces \in Nat
  BY LineAt DEF Numbers
<1>2. \A m \in 1..n - 1 : m \in Numbers(s) /\ s[m].spaces \in Nat
  <2>1. \A m \in 1..n - 1 : m \in Numbers(s)
    BY <1>1 DEF Numbers
  <2>. QED  BY <2>1, LineAt
<1>3. above \subseteq 0..n - 1 /\ n - 1 \in Nat
  BY <1>1
<1>4. above # {} => p \in above /\ \A k \in above : k <= p
  <2>. HAVE above # {}
  <2>1. \E m \in above : \A k \in above : k <= m
    <3>. HIDE DEF above
    <3>. QED  BY <1>3, Most
  <2>2. p = CHOOSE m \in above : \A k \in above : k <= m
    BY DEF Parent
  <2>. HIDE DEF above, p
  <2>. QED  BY <2>1, <2>2
<1>5. above = {} => p = 0
  BY DEF Parent
<1>6. CASE above = {}
  <2>1. \A m \in 1..n - 1 : ~(s[m].spaces < s[n].spaces)
    BY <1>6
  <2>. HIDE DEF above, p
  <2>2. p = 0
    BY <1>5, <1>6
  <2>. QED  BY <1>1, <1>2, <2>1, <2>2 DEF p
<1>7. CASE above # {}
  <2>1. p \in 1..n - 1 /\ s[p].spaces < s[n].spaces
    BY <1>4, <1>7
  <2>2. ASSUME NEW m \in p + 1..n - 1 PROVE s[m].spaces >= s[n].spaces
    <3>1. m \in 1..n - 1 /\ ~(m <= p)
      BY <1>1, <2>1
    <3>2. m \notin above
      <4>. HIDE DEF above, p
      <4>. QED  BY <1>4, <1>7, <3>1
    <3>. QED  BY <1>1, <1>2, <3>1, <3>2
  <2>. HIDE DEF above, p
  <2>. QED  BY <1>1, <1>2, <2>1, <2>2 DEF p
<1>. QED  BY <1>6, <1>7

\* A line above, indented less and with nothing of the kind between, is the parent.
LEMMA ParentIs == ASSUME NEW s \in Seq(Lines), NEW n \in Numbers(s), NEW p \in 0..n - 1,
                         p # 0 => s[p].spaces < s[n].spaces,
                         \A m \in p + 1..n - 1 : s[m].spaces >= s[n].spaces
                  PROVE  Parent(s, n) = p
<1>. DEFINE q == Parent(s, n)
<1>1. Len(s) \in Nat /\ n \in 1..Len(s) /\ n \in Nat /\ s[n].spaces \in Nat
  BY LineAt DEF Numbers
<1>2. /\ q \in 0..n - 1
      /\ q # 0 => s[q].spaces < s[n].spaces
      /\ \A m \in q + 1..n - 1 : s[m].spaces >= s[n].spaces
  BY ParentFacts
<1>3. \A m \in 1..n - 1 : s[m].spaces \in Nat
  <2>1. \A m \in 1..n - 1 : m \in Numbers(s)
    BY <1>1 DEF Numbers
  <2>. QED  BY <2>1, LineAt
<1>4. ~(q < p)
  <2>. SUFFICES ASSUME q < p PROVE FALSE
    OBVIOUS
  <2>1. p \in q + 1..n - 1 /\ p # 0 /\ p \in 1..n - 1
    BY <1>1, <1>2
  <2>2. s[p].spaces >= s[n].spaces /\ s[p].spaces < s[n].spaces
    BY <1>2, <2>1
  <2>. QED  BY <1>1, <1>3, <2>1, <2>2
<1>5. ~(p < q)
  <2>. SUFFICES ASSUME p < q PROVE FALSE
    OBVIOUS
  <2>1. q \in p + 1..n - 1 /\ q # 0 /\ q \in 1..n - 1
    BY <1>1, <1>2
  <2>. HIDE DEF q
  <2>. QED  BY <1>1, <1>2, <1>3, <2>1
<1>. QED  BY <1>1, <1>2, <1>4, <1>5

Longer(s, l, t) == t = Append(s, l)

\* One line more leaves the lines before it and their parents as they were.
LEMMA Appended == ASSUME NEW s \in Seq(Lines), NEW l \in Lines, NEW t, Longer(s, l, t)
   PROVE  /\ t \in Seq(Lines) /\ Len(s) \in Nat /\ Len(t) = Len(s) + 1 /\ t[Len(s) + 1] = l
          /\ Numbers(t) = Numbers(s) \cup {Len(s) + 1} /\ Len(s) + 1 \notin Numbers(s)
          /\ \A n \in Numbers(s) : t[n] = s[n] /\ Parent(t, n) = Parent(s, n)
<1>1. t \in Seq(Lines) /\ Len(s) \in Nat /\ Len(t) = Len(s) + 1 /\ t[Len(s) + 1] = l
  BY DEF Longer
<1>2. \A n \in 1..Len(s) : t[n] = s[n]
  BY DEF Longer
<1>3. Numbers(t) = Numbers(s) \cup {Len(s) + 1} /\ Len(s) + 1 \notin Numbers(s)
  BY <1>1 DEF Numbers
<1>4. ASSUME NEW n \in Numbers(s) PROVE Parent(t, n) = Parent(s, n)
  <2>1. n \in 1..Len(s) /\ \A m \in 1..n - 1 : m \in 1..Len(s)
    BY <1>1 DEF Numbers
  <2>2. t[n] = s[n] /\ \A m \in 1..n - 1 : t[m] = s[m]
    BY <1>2, <2>1
  <2>. DEFINE p == Parent(s, n)
  <2>3. /\ p \in 0..n - 1
        /\ p # 0 => s[p].spaces < s[n].spaces
        /\ \A m \in p + 1..n - 1 : s[m].spaces >= s[n].spaces
    BY ParentFacts
  <2>. HIDE DEF p
  <2>4. n \in Numbers(t) /\ n \in Nat
    BY <1>1, <1>3, <2>1 DEF Numbers
  <2>5. (p # 0 => t[p].spaces < t[n].spaces) /\ \A m \in p + 1..n - 1 : t[m].spaces >= t[n].spaces
    <3>1. p # 0 => p \in 1..n - 1
      BY <2>3, <2>4
    <3>2. \A m \in p + 1..n - 1 : m \in 1..n - 1
      BY <2>3, <2>4
    <3>. QED  BY <2>2, <2>3, <3>1, <3>2
  <2>6. Parent(t, n) = p
    BY <1>1, <2>3, <2>4, <2>5, ParentIs
  <2>. QED  BY <2>6 DEF p
<1>. QED  BY <1>1, <1>2, <1>3, <1>4 DEF Numbers
-----------------------------------------------------------------------------
(* The keys on the way to a line.                                          *)

\* The recursive definition of the keys to a line has a solution.
LEMMA KeysToDefined == ASSUME NEW s \in Seq(Lines)
   PROVE  KeysTo(s) = [k \in 0..Len(s) |->
             IF k = 0 THEN <<>> ELSE Append(KeysTo(s)[Parent(s, k)], s[k].key)]
<1>. DEFINE Eq(f, n) == f = [k \in 0..n |-> IF k = 0 THEN <<>> ELSE Append(f[Parent(s, k)], s[k].key)]
            T == {n \in 0..Len(s) : ~\E f : Eq(f, n)}
<1>1. Len(s) \in Nat
  OBVIOUS
<1>2. ASSUME NEW n \in T, \A m \in T : n <= m PROVE FALSE
  <2>1. n # 0
    <3>1. \E f : f = [k \in 0..0 |-> <<>>]
      OBVIOUS
    <3>2. PICK f : f = [k \in 0..0 |-> <<>>]
      BY <3>1
    <3>3. Eq(f, 0)
      BY <3>2
    <3>. QED  BY <3>3
  <2>2. n \in 1..Len(s) /\ n \in Numbers(s) /\ n - 1 \in 0..Len(s)
    BY <1>1, <2>1 DEF Numbers
  <2>3. n - 1 \notin T
    <3>. HIDE DEF T
    <3>. QED  BY <1>1, <1>2, <2>2
  <2>4. PICK g : Eq(g, n - 1)
    BY <2>2, <2>3
  <2>. DEFINE h == [k \in 0..n |-> IF k = n THEN Append(g[Parent(s, n)], s[n].key) ELSE g[k]]
  <2>5. \A k \in 1..n : Parent(s, k) \in 0..k - 1
    <3>1. \A k \in 1..n : k \in Numbers(s)
      BY <1>1, <2>2 DEF Numbers
    <3>. QED  BY <3>1, ParentFacts
  <2>6. \A k \in 0..n - 1 : h[k] = g[k]
    BY <2>2
  <2>7. ASSUME NEW k \in 0..n
        PROVE  h[k] = IF k = 0 THEN <<>> ELSE Append(h[Parent(s, k)], s[k].key)
    <3>1. CASE k = n
      <4>1. h[n] = Append(g[Parent(s, n)], s[n].key) /\ Parent(s, n) \in 0..n - 1
        BY <2>2, <2>5
      <4>. HIDE DEF h
      <4>. QED  BY <2>1, <2>6, <3>1, <4>1
    <3>2. CASE k # n
      <4>1. k \in 0..n - 1 /\ h[k] = g[k]
        BY <2>2, <2>6, <3>2
      <4>2. g[k] = IF k = 0 THEN <<>> ELSE Append(g[Parent(s, k)], s[k].key)
        BY <2>4, <4>1
      <4>3. k # 0 => Parent(s, k) \in 0..n - 1
        BY <2>2, <2>5, <4>1
      <4>. HIDE DEF h
      <4>. QED  BY <2>6, <4>1, <4>2, <4>3
    <3>. QED  BY <3>1, <3>2
  <2>8. DOMAIN h = 0..n /\ h = [k \in 0..n |-> h[k]]
    OBVIOUS
  <2>9. Eq(h, n)
    <3>. HIDE DEF h
    <3>. QED  BY <2>7, <2>8
  <2>. QED  BY <2>9
<1>3. T = {}
  <2>1. T \subseteq Nat
    BY <1>1
  <2>. HIDE DEF T
  <2>. QED  BY <1>2, <2>1, Least
<1>4. \E f : Eq(f, Len(s))
  BY <1>1, <1>3
<1>5. KeysTo(s) = CHOOSE f : Eq(f, Len(s))
  BY DEF KeysTo
<1>6. Eq(KeysTo(s), Len(s))
  <2>. HIDE DEF Eq
  <2>. QED  BY <1>4, <1>5
<1>. QED  BY <1>6

\* The keys to a line are those to its parent and its own.
LEMMA KeysToFacts == ASSUME NEW s \in Seq(Lines)
   PROVE  /\ KeysTo(s)[0] = <<>>
          /\ \A n \in Numbers(s) :
                /\ KeysTo(s)[n] = Append(KeysTo(s)[Parent(s, n)], s[n].key)
                /\ KeysTo(s)[Parent(s, n)] \in Seq(Keys \cup {"-"})
                /\ KeysTo(s)[n] \in Seq(Keys \cup {"-"})
<1>. DEFINE K == KeysTo(s)
            T == {n \in 0..Len(s) : K[n] \notin Seq(Keys \cup {"-"})}
<1>1. Len(s) \in Nat /\ \A n \in Numbers(s) : n \in 1..Len(s) /\ Parent(s, n) \in 0..n - 1
  BY ParentFacts DEF Numbers
<1>2. K[0] = <<>>
  BY <1>1, KeysToDefined
<1>3. ASSUME NEW n \in Numbers(s) PROVE K[n] = Append(K[Parent(s, n)], s[n].key)
  BY <1>1, KeysToDefined
<1>4. ASSUME NEW n \in T, \A m \in T : n <= m PROVE FALSE
  <2>0. <<>> \in Seq(Keys \cup {"-"}) /\ K[n] \notin Seq(Keys \cup {"-"})
    OBVIOUS
  <2>1. n # 0
    <3>. HIDE DEF T, K
    <3>. QED  BY <1>2, <2>0
  <2>2. n \in Numbers(s) /\ n \in Nat
    BY <1>1, <2>1 DEF Numbers
  <2>3. Parent(s, n) \in 0..Len(s) /\ Parent(s, n) < n
    BY <1>1, <2>2
  <2>4. Parent(s, n) \notin T
    <3>. HIDE DEF T
    <3>. QED  BY <1>4, <2>2, <2>3
  <2>5. K[Parent(s, n)] \in Seq(Keys \cup {"-"})
    BY <2>3, <2>4
  <2>6. s[n].key \in Keys \cup {"-"}
    BY <2>2, LineAt, LineFacts
  <2>7. Append(K[Parent(s, n)], s[n].key) \in Seq(Keys \cup {"-"})
    <3>. HIDE DEF K
    <3>. QED  BY <2>5, <2>6
  <2>. QED  BY <1>3, <2>0, <2>2, <2>7
<1>5. T = {}
  <2>1. T \subseteq Nat
    BY <1>1
  <2>. HIDE DEF T
  <2>. QED  BY <1>4, <2>1, Least
<1>6. \A n \in 0..Len(s) : K[n] \in Seq(Keys \cup {"-"})
  BY <1>5
<1>7. ASSUME NEW n \in Numbers(s)
      PROVE  K[n] \in Seq(Keys \cup {"-"}) /\ K[Parent(s, n)] \in Seq(Keys \cup {"-"})
  <2>1. n \in 0..Len(s) /\ Parent(s, n) \in 0..Len(s)
    BY <1>1
  <2>. QED  BY <1>6, <2>1
<1>. QED  BY <1>2, <1>3, <1>7

\* One line more leaves the keys to the lines before it as they were.
LEMMA KeysToAppended == ASSUME NEW s \in Seq(Lines), NEW l \in Lines, NEW t, Longer(s, l, t)
                        PROVE  \A n \in 0..Len(s) : KeysTo(t)[n] = KeysTo(s)[n]
<1>. DEFINE T == {n \in 0..Len(s) : KeysTo(t)[n] # KeysTo(s)[n]}
<1>1. /\ t \in Seq(Lines) /\ Len(s) \in Nat
      /\ \A n \in Numbers(s) : n \in Numbers(t) /\ t[n] = s[n] /\ Parent(t, n) = Parent(s, n)
  BY Appended
<1>2. ASSUME NEW n \in T, \A m \in T : n <= m PROVE FALSE
  <2>1. n # 0
    BY <1>1, KeysToFacts
  <2>2. n \in Numbers(s) /\ n \in Nat
    BY <1>1, <2>1 DEF Numbers
  <2>3. Parent(s, n) \in 0..Len(s) /\ Parent(s, n) < n
    BY <1>1, <2>2, ParentFacts DEF Numbers
  <2>4. Parent(s, n) \notin T
    <3>. HIDE DEF T
    <3>. QED  BY <1>2, <2>2, <2>3
  <2>5. KeysTo(t)[Parent(s, n)] = KeysTo(s)[Parent(s, n)]
    BY <2>3, <2>4
  <2>6. KeysTo(t)[n] = Append(KeysTo(t)[Parent(t, n)], t[n].key)
    BY <1>1, <2>2, KeysToFacts
  <2>7. KeysTo(s)[n] = Append(KeysTo(s)[Parent(s, n)], s[n].key)
    BY <2>2, KeysToFacts
  <2>8. KeysTo(t)[n] # KeysTo(s)[n]
    OBVIOUS
  <2>. HIDE DEF T
  <2>. QED  BY <1>1, <2>2, <2>5, <2>6, <2>7, <2>8
<1>3. T = {}
  <2>1. T \subseteq Nat
    BY <1>1
  <2>. HIDE DEF T
  <2>. QED  BY <1>2, <2>1, Least
<1>. QED  BY <1>3

\* In a sound lock a line is two spaces, and one level, deeper than its parent.
LEMMA SoundLine == ASSUME NEW s \in Seq(Lines), Sound(s), NEW n \in Numbers(s)
   PROVE  /\ s[n].form # "other" /\ s[n].spaces = 2 * Depth(s[n])
          /\ Parent(s, n) = 0 => Depth(s[n]) = 0 /\ s[n].form = "key"
          /\ Parent(s, n) # 0 => /\ Parent(s, n) \in KeyLines(s) /\ Awaits(s[Parent(s, n)])
                                 /\ s[n].spaces = s[Parent(s, n)].spaces + 2
                                 /\ Depth(s[n]) = Depth(s[Parent(s, n)]) + 1
<1>. DEFINE p(k) == Parent(s, k)
            T == {k \in Numbers(s) : s[k].spaces # 2 * Depth(s[k])}
<1>1. Len(s) \in Nat /\ \A k \in Numbers(s) : k \in 1..Len(s) /\ p(k) \in 0..k - 1
  BY ParentFacts DEF Numbers
<1>2. \A k \in Numbers(s) : /\ LineOk(s, k) /\ s[k].spaces \in Nat /\ Depth(s[k]) \in Nat
                            /\ Depth(s[k]) = s[k].spaces \div 2
  BY LineAt DEF Sound, Depth
<1>3. \A k \in Numbers(s) : p(k) # 0 => p(k) \in Numbers(s)
  BY ParentFacts
<1>4. ASSUME NEW k \in T, \A m \in T : k <= m PROVE FALSE
  <2>1. k \in Numbers(s) /\ k \in Nat /\ p(k) \in Nat /\ p(k) < k /\ s[k].spaces # 2 * Depth(s[k])
    BY <1>1
  <2>2. p(k) # 0
    BY <1>2, <2>1 DEF LineOk
  <2>3. p(k) \in Numbers(s) /\ p(k) \notin T
    <3>. HIDE DEF T
    <3>. QED  BY <1>1, <1>3, <1>4, <2>1, <2>2
  <2>4. s[p(k)].spaces = 2 * Depth(s[p(k)]) /\ s[k].spaces = s[p(k)].spaces + 2
    BY <1>2, <2>1, <2>2, <2>3 DEF LineOk
  <2>5. s[k].spaces = 2 * (Depth(s[p(k)]) + 1) /\ Depth(s[p(k)]) + 1 \in Nat
    BY <1>2, <2>3, <2>4
  <2>. QED  BY <1>2, <2>1, <2>5, HalfOrder
<1>5. T = {}
  <2>1. T \subseteq Nat
    BY <1>1
  <2>. HIDE DEF T
  <2>. QED  BY <1>4, <2>1, Least
<1>6. \A k \in Numbers(s) : s[k].spaces = 2 * Depth(s[k])
  BY <1>5
<1>7. p(n) = 0 => s[n].spaces = 0 /\ s[n].form = "key"
  BY <1>2 DEF LineOk
<1>8. p(n) # 0 => p(n) \in Numbers(s) /\ Awaits(s[p(n)]) /\ s[n].spaces = s[p(n)].spaces + 2
  BY <1>2, <1>3 DEF LineOk
<1>9. s[n].form # "other"
  BY <1>2 DEF LineOk
<1>. HIDE DEF T, p
<1>10. p(n) = 0 => Depth(s[n]) = 0
  BY <1>2, <1>6, <1>7
<1>11. p(n) # 0 => Depth(s[n]) = Depth(s[p(n)]) + 1
  <2>. HAVE p(n) # 0
  <2>1. 2 * Depth(s[n]) = 2 * Depth(s[p(n)]) + 2
    BY <1>6, <1>8
  <2>2. Depth(s[n]) \in Nat /\ Depth(s[p(n)]) \in Nat
    BY <1>2, <1>8
  <2>. QED  BY <2>1, <2>2
<1>. QED  BY <1>6, <1>7, <1>8, <1>9, <1>10, <1>11 DEF p, KeyLines, Awaits

\* Siblings are siblings of each other.
LEMMA SiblingsBoth == ASSUME NEW s, NEW k, NEW m, Siblings(s, k, m), s[k].form = "key" <=> s[m].form = "key"
                      PROVE  Siblings(s, m, k)
BY DEF Siblings

\* Two lines of one parent in a sound lock are siblings in whatever order.
LEMMA SiblingLines == ASSUME NEW s \in Seq(Lines), Sound(s), NEW k \in Numbers(s), NEW m \in Numbers(s),
                             Parent(s, k) = Parent(s, m)
                      PROVE  Siblings(s, k, m)
<1>1. Len(s) \in Nat /\ k \in Nat /\ m \in Nat /\ k \in 1..Len(s) /\ m \in 1..Len(s)
  BY DEF Numbers
<1>2. LineOk(s, k) /\ LineOk(s, m)
  BY DEF Sound
<1>3. CASE k < m
  <2>1. k \in 1..m - 1
    BY <1>1, <1>3
  <2>. QED  BY <1>2, <2>1 DEF LineOk
<1>4. CASE m < k
  <2>1. m \in 1..k - 1
    BY <1>1, <1>4
  <2>2. Siblings(s, m, k)
    BY <1>2, <2>1 DEF LineOk
  <2>3. s[k].form = "key" <=> s[m].form = "key"
    BY <2>2 DEF Siblings, Kind
  <2>. QED  BY <2>2, <2>3, SiblingsBoth
<1>5. CASE k = m
  BY <1>5 DEF Siblings
<1>. QED  BY <1>1, <1>3, <1>4, <1>5

\* In a sound lock the path of a line has a key for every depth, up to its own.
LEMMA SoundDepth == ASSUME NEW s \in Seq(Lines), Sound(s)
                    PROVE  \A n \in Numbers(s) : Len(KeysTo(s)[n]) = Depth(s[n]) + 1
<1>. DEFINE K == KeysTo(s)
            T == {n \in Numbers(s) : Len(K[n]) # Depth(s[n]) + 1}
<1>1. Len(s) \in Nat /\ \A n \in Numbers(s) : n \in Nat /\ Parent(s, n) \in 0..n - 1
  BY ParentFacts DEF Numbers
<1>2. ASSUME NEW n \in T, \A m \in T : n <= m PROVE FALSE
  <2>. DEFINE p == Parent(s, n)
  <2>1. n \in Numbers(s) /\ n \in Nat /\ p \in 0..n - 1 /\ Len(K[n]) # Depth(s[n]) + 1
    BY <1>1
  <2>2. K[n] = Append(K[p], s[n].key) /\ K[p] \in Seq(Keys \cup {"-"})
    BY <2>1, KeysToFacts
  <2>3. Len(K[n]) = Len(K[p]) + 1
    <3>. HIDE DEF K, p
    <3>. QED  BY <2>2
  <2>4. CASE p = 0
    BY <2>1, <2>3, <2>4, KeysToFacts, SoundLine
  <2>5. CASE p # 0
    <3>1. p \in Numbers(s) /\ Depth(s[n]) = Depth(s[p]) + 1
      BY <2>1, <2>5, SoundLine DEF KeyLines
    <3>2. p \notin T
      <4>. HIDE DEF T
      <4>. QED  BY <1>2, <2>1
    <3>. QED  BY <2>1, <2>3, <3>1, <3>2
  <2>. QED  BY <2>4, <2>5
<1>3. T = {}
  <2>1. T \subseteq Nat
    BY <1>1
  <2>. HIDE DEF T
  <2>. QED  BY <1>2, <2>1, Least
<1>. QED  BY <1>3

\* No two keys of a sound lock are on the same path.
LEMMA KeysToOnce == ASSUME NEW s \in Seq(Lines), Sound(s)
                    PROVE  \A k, n \in KeyLines(s) : KeysTo(s)[k] = KeysTo(s)[n] => k = n
<1>. DEFINE K == KeysTo(s)
            p(n) == Parent(s, n)
            T == {n \in KeyLines(s) : \E k \in KeyLines(s) : k < n /\ K[k] = K[n]}
<1>1. /\ KeyLines(s) \subseteq Numbers(s) /\ KeyLines(s) \subseteq Nat
      /\ \A n \in KeyLines(s) : p(n) \in 0..n - 1
  BY ParentFacts DEF KeyLines, Numbers
<1>2. ASSUME NEW n \in T, \A m \in T : n <= m PROVE FALSE
  <2>1. n \in KeyLines(s) /\ n \in Numbers(s) /\ n \in Nat /\ p(n) \in 0..n - 1
    BY <1>1
  <2>2. PICK k \in KeyLines(s) : k < n /\ K[k] = K[n]
    OBVIOUS
  <2>3. k \in Numbers(s) /\ k \in Nat /\ p(k) \in 0..k - 1
    BY <1>1
  <2>4. /\ K[k] = Append(K[p(k)], s[k].key) /\ K[p(k)] \in Seq(Keys \cup {"-"})
        /\ K[n] = Append(K[p(n)], s[n].key) /\ K[p(n)] \in Seq(Keys \cup {"-"})
        /\ s[k].key \in Keys \cup {"-"} /\ s[n].key \in Keys \cup {"-"}
        /\ K[0] = <<>>
    BY <2>1, <2>3, KeysToFacts, LineAt, LineFacts
  <2>5. K[p(k)] = K[p(n)] /\ s[k].key = s[n].key
    <3>. HIDE DEF K, p
    <3>. DEFINE S == Keys \cup {"-"}
                a == K[p(k)]
                b == K[p(n)]
                x == s[k].key
                y == s[n].key
    <3>1. Append(a, x) = Append(b, y) /\ a \in Seq(S) /\ b \in Seq(S) /\ x \in S /\ y \in S
      BY <2>2, <2>4
    <3>2. a = b /\ x = y
      <4>. HIDE DEF S, a, b, x, y
      <4>. QED  BY <3>1, AppendInjective
    <3>. QED  BY <3>2
  <2>6. p(k) # p(n)
    <3>. SUFFICES ASSUME p(k) = p(n) PROVE FALSE
      OBVIOUS
    <3>1. Siblings(s, k, n)
      BY <2>1, <2>3, SiblingLines
    <3>2. k # n /\ s[k].form = "key"
      BY <2>1, <2>2, <2>3 DEF KeyLines
    <3>. QED  BY <2>5, <3>1, <3>2 DEF Siblings
  <2>7. p(k) # 0 /\ p(n) # 0
    <3>1. \A m \in Numbers(s) : K[m] # <<>>
      <4>1. \A m \in Numbers(s) : Len(K[m]) = Depth(s[m]) + 1 /\ Depth(s[m]) \in Nat
        BY SoundDepth, LineAt
      <4>2. Len(<<>>) = 0
        OBVIOUS
      <4>. HIDE DEF K
      <4>. QED  BY <4>1, <4>2
    <3>2. (p(k) # 0 => p(k) \in Numbers(s)) /\ (p(n) # 0 => p(n) \in Numbers(s))
      BY <2>1, <2>3, ParentFacts
    <3>. HIDE DEF K, p
    <3>. QED  BY <2>4, <2>5, <2>6, <3>1, <3>2
  <2>8. p(k) \in KeyLines(s) /\ p(n) \in KeyLines(s)
    BY <2>1, <2>3, <2>7, SoundLine
  <2>9. p(k) < n /\ p(n) < n /\ p(k) \in Nat /\ p(n) \in Nat
    BY <2>1, <2>2, <2>3
  <2>10. p(k) \notin T /\ p(n) \notin T
    <3>. HIDE DEF T, p
    <3>. QED  BY <1>2, <2>1, <2>9
  <2>11. CASE p(k) < p(n)
    BY <2>5, <2>8, <2>10, <2>11
  <2>12. CASE p(n) < p(k)
    BY <2>5, <2>8, <2>10, <2>12
  <2>. HIDE DEF p
  <2>. QED  BY <2>6, <2>9, <2>11, <2>12
<1>3. T = {}
  <2>1. T \subseteq Nat
    BY <1>1
  <2>. HIDE DEF T
  <2>. QED  BY <1>2, <2>1, Least
<1>4. ASSUME NEW k \in KeyLines(s), NEW n \in KeyLines(s), K[k] = K[n] PROVE k = n
  <2>1. ~(k < n) /\ ~(n < k)
    BY <1>3, <1>4
  <2>. QED  BY <1>1, <2>1
<1>. QED  BY <1>4

\* A lock is supported when it is sound, not empty, and no key waits for a child.
LEMMA SupportedIs == ASSUME NEW s \in Seq(Lines)
   PROVE  Supported(s) <=> /\ s # <<>> /\ Sound(s)
                           /\ \A n \in Numbers(s) : Awaits(s[n]) => Children(s, n) # {}
<1>1. Len(s) \in Nat /\ \A n \in Numbers(s) : n \in 1..Len(s) /\ Parent(s, n) \in {0} \cup Numbers(s)
  BY ParentFacts DEF Numbers
<1>2. ASSUME Supported(s) PROVE Sound(s)
  <2>. SUFFICES ASSUME NEW m \in Numbers(s) PROVE LineOk(s, m)
    BY DEF Sound
  <2>. DEFINE p == Parent(s, m)
  <2>1. p \in {0} \cup Numbers(s) /\ m \in Children(s, p)
    BY <1>1 DEF Children
  <2>2. s[m].form # "other"
    BY <1>2 DEF Supported
  <2>3. p = 0 => s[m].spaces = 0 /\ s[m].form = "key"
    BY <1>2, <2>1 DEF Supported
  <2>4. p # 0 => s[m].spaces = s[p].spaces + 2 /\ Awaits(s[p])
    <3>. HAVE p # 0
    <3>1. p \in Numbers(s) /\ Children(s, p) # {}
      BY <2>1
    <3>. HIDE DEF p
    <3>. QED  BY <1>2, <2>1, <3>1 DEF Supported, Awaits
  <2>5. ASSUME NEW k \in 1..m - 1, Parent(s, k) = p PROVE Siblings(s, k, m)
    <3>1. k \in Numbers(s)
      BY <1>1 DEF Numbers
    <3>2. k \in Children(s, p)
      BY <2>5, <3>1 DEF Children
    <3>. HIDE DEF p
    <3>. QED  BY <1>2, <2>1, <3>2 DEF Supported
  <2>. QED  BY <2>2, <2>3, <2>4, <2>5 DEF LineOk
<1>3. ASSUME Supported(s) PROVE s # <<>> /\ \A n \in Numbers(s) : Awaits(s[n]) => Children(s, n) # {}
  BY <1>3 DEF Supported, Awaits
<1>4. ASSUME s # <<>>, Sound(s), \A n \in Numbers(s) : Awaits(s[n]) => Children(s, n) # {}
      PROVE  Supported(s)
  <2>1. \A n \in Numbers(s) : s[n].form # "other" /\ LineOk(s, n)
    BY <1>4 DEF Sound, LineOk
  <2>2. \A n \in Children(s, 0) : s[n].spaces = 0 /\ s[n].form = "key"
    BY <2>1 DEF Children, LineOk
  <2>3. ASSUME NEW n \in Numbers(s)
        PROVE  /\ \A m \in Children(s, n) : s[m].spaces = s[n].spaces + 2
               /\ (Children(s, n) # {}) = (s[n].form = "key" /\ s[n].tail = "none")
    <3>1. n # 0
      BY <1>1
    <3>2. \A m \in Children(s, n) : s[m].spaces = s[n].spaces + 2 /\ Awaits(s[n])
      BY <2>1, <3>1 DEF Children, LineOk
    <3>. QED  BY <1>4, <3>2 DEF Awaits
  <2>4. \A n \in {0} \cup Numbers(s) : \A k, m \in Children(s, n) : Siblings(s, k, m)
    BY <1>4, SiblingLines DEF Children
  <2>. QED  BY <1>4, <2>1, <2>2, <2>3, <2>4 DEF Supported
<1>. QED  BY <1>2, <1>3, <1>4

-----------------------------------------------------------------------------
(* The validator's stack.                                                  *)

\* A reading validator has a key open at every depth above the last line's.
PathInv == verdict = "reading" => /\ Len(path) >= previous_depth
                                  /\ awaiting => Len(path) = previous_depth + 1
TypeInv == TypeOK /\ PathInv

\* The beginning of a sequence.
LEMMA Prefix == ASSUME NEW S, NEW w \in Seq(S), NEW d \in 0..Len(w)
   PROVE  /\ SubSeq(w, 1, d) \in Seq(S) /\ Len(SubSeq(w, 1, d)) = d
          /\ \A i \in 1..d : SubSeq(w, 1, d)[i] = w[i]
<1>1. Len(w) \in Nat /\ d \in Int /\ \A i \in 1..d : w[i] \in S
  OBVIOUS
<1>. QED  BY <1>1, SubSeqProperties

\* The full path of a key has the key at its depth.
LEMMA FullPathIs == ASSUME path \in Seq(Keys), NEW l \in Lines, l.form = "key", Depth(l) <= Len(path)
   PROVE  /\ FullPath(l) \in Seq(Keys) /\ FullPath(l) \in Paths /\ Len(FullPath(l)) = Depth(l) + 1
          /\ FullPath(l)[Depth(l) + 1] = l.key
          /\ \A i \in 1..Depth(l) : FullPath(l)[i] = path[i]
<1>. DEFINE d == Depth(l)
            w == SubSeq(path, 1, d)
<1>1. l.key \in Keys /\ d \in 0..MaxSpaces \div 2 /\ MaxSpaces \div 2 \in Nat /\ Len(path) \in Nat
  BY LineFacts, BoundsAreNumbers, Half
<1>2. w \in Seq(Keys) /\ Len(w) = d /\ \A i \in 1..d : w[i] = path[i]
  <2>1. d \in 0..Len(path)
    BY <1>1
  <2>. HIDE DEF d
  <2>. QED  BY <2>1, Prefix
<1>3. FullPath(l) = Append(w, l.key)
  BY DEF FullPath
<1>. HIDE DEF w, d
<1>4. /\ FullPath(l) \in Seq(Keys) /\ Len(FullPath(l)) = d + 1 /\ FullPath(l)[d + 1] = l.key
      /\ \A i \in 1..d : FullPath(l)[i] = w[i]
  BY <1>1, <1>2, <1>3, AppendProperties
<1>5. FullPath(l) \in [1..d + 1 -> Keys]
  BY <1>1, <1>4, LenProperties
<1>6. d + 1 \in DOMAIN Cleared
  BY <1>1 DEF Cleared
<1>. QED  BY <1>2, <1>4, <1>5, <1>6 DEF Paths, d

\* What the validator keeps of the containers for a line that it reads.
LEMMA ContainersIs == ASSUME TypeOK, NEW l \in Lines, Indents(l)
   PROVE  /\ Depth(l) \in 0..MaxSpaces \div 2 /\ Depth(l) <= previous_depth + 1
          /\ Containers(l) \in Seq({"map", "list"}) /\ Len(Containers(l)) = Depth(l) + 1
          /\ \A i \in 1..Depth(l) : Containers(l)[i] = container[i]
          /\ previous_depth >= 0 /\ Depth(l) = previous_depth + 1 => Containers(l)[Depth(l) + 1] = Kind(l)
          /\ previous_depth < 0 => Depth(l) = 0 /\ Containers(l)[1] = container[1]
          /\ Depth(l) <= previous_depth => Containers(l)[Depth(l) + 1] = container[Depth(l) + 1]
<1>. DEFINE d == Depth(l)
            S == {"map", "list"}
<1>1. /\ d \in 0..MaxSpaces \div 2 /\ MaxSpaces \div 2 \in Nat /\ previous_depth \in -1..MaxSpaces \div 2
      /\ container \in Seq(S) /\ Len(container) = IF previous_depth < 0 THEN 1 ELSE previous_depth + 1
  BY LineFacts, BoundsAreNumbers, Half DEF TypeOK
<1>2. Kind(l) \in S
  BY DEF Kind
<1>3. d <= previous_depth + 1 /\ (previous_depth < 0 => d = 0)
  BY <1>1 DEF Indents
<1>4. Containers(l) = IF d = Len(container) THEN Append(container, Kind(l)) ELSE SubSeq(container, 1, d + 1)
  BY DEF Containers
<1>. HIDE DEF d, S
<1>5. CASE d = Len(container)
  <2>1. previous_depth >= 0 /\ d = previous_depth + 1
    BY <1>1, <1>3, <1>5
  <2>2. Containers(l) = Append(container, Kind(l))
    BY <1>4, <1>5
  <2>3. /\ Containers(l) \in Seq(S) /\ Len(Containers(l)) = d + 1 /\ Containers(l)[d + 1] = Kind(l)
        /\ \A i \in 1..d : Containers(l)[i] = container[i]
    BY <1>1, <1>2, <1>5, <2>2, AppendProperties
  <2>. QED  BY <1>1, <1>3, <2>1, <2>3 DEF d, S
<1>6. CASE d # Len(container)
  <2>1. d + 1 \in 0..Len(container) /\ ~(previous_depth >= 0 /\ d = previous_depth + 1)
    BY <1>1, <1>3, <1>6
  <2>2. Containers(l) = SubSeq(container, 1, d + 1)
    BY <1>4, <1>6
  <2>3. /\ Containers(l) \in Seq(S) /\ Len(Containers(l)) = d + 1
        /\ \A i \in 1..d + 1 : Containers(l)[i] = container[i]
    BY <1>1, <2>1, <2>2, Prefix
  <2>4. Containers(l)[d + 1] = container[d + 1] /\ \A i \in 1..d : Containers(l)[i] = container[i]
    BY <1>1, <2>3
  <2>5. previous_depth < 0 => d = 0 /\ Containers(l)[1] = container[1]
    BY <1>3, <2>4
  <2>. QED  BY <1>1, <1>3, <2>1, <2>3, <2>4, <2>5 DEF d, S
<1>. QED  BY <1>5, <1>6

\* The path is as deep as the line that is read.
LEMMA PathReaches == ASSUME TypeInv, verdict = "reading", NEW l \in Lines, Indents(l)
                     PROVE  Depth(l) \in 0..Len(path)
<1>1. Depth(l) \in Nat /\ Len(path) \in Nat /\ previous_depth \in -1..MaxSpaces \div 2 /\ MaxSpaces \div 2 \in Nat
  BY LineFacts, BoundsAreNumbers, Half DEF TypeInv, TypeOK
<1>. QED  BY <1>1 DEF Indents, TypeInv, PathInv

\* A line that is read keeps the types.
LEMMA TypeRead == ASSUME TypeInv, NEW l \in Lines, Read(l) PROVE TypeInv'
<1>1. lock' \in Seq(Lines) /\ Len(lock') <= MaxLines
  <2>1. lock \in Seq(Lines) /\ lock' = Append(lock, l) /\ Len(lock) < MaxLines /\ MaxLines \in Nat
    BY BoundsAreNumbers DEF TypeInv, TypeOK, Read
  <2>. QED  BY <2>1
<1>2. CASE Fits(l)
  <2>1. Indents(l) /\ Depth(l) \in 0..Len(path) /\ Depth(l) \in Nat /\ path \in Seq(Keys)
    BY <1>2, PathReaches, LineFacts, BoundsAreNumbers, Half DEF Fits, Read, TypeInv, TypeOK
  <2>2. previous_depth' = Depth(l) /\ container' = Containers(l) /\ verdict' = verdict /\ verdict = "reading"
    BY <1>2 DEF Read
  <2>3. previous_depth' \in -1..MaxSpaces \div 2 /\ container' \in Seq({"map", "list"})
        /\ Len(container') = IF previous_depth' < 0 THEN 1 ELSE previous_depth' + 1
    BY <2>1, <2>2, ContainersIs DEF TypeInv
  <2>4. CASE l.form = "key"
    <3>1. path' = FullPath(l) /\ seen' = seen \cup {FullPath(l)} /\ awaiting' = (l.tail = "none")
      BY <1>2, <2>4 DEF Read
    <3>2. path' \in Seq(Keys) /\ FullPath(l) \in Paths /\ Len(path') = Depth(l) + 1
      BY <2>1, <2>4, <3>1, FullPathIs
    <3>3. seen' \subseteq Paths /\ awaiting' \in BOOLEAN /\ verdict' \in {"reading", "accepted", "refused"}
      BY <2>2, <3>1, <3>2 DEF TypeInv, TypeOK
    <3>4. TypeOK'
      BY <1>1, <2>3, <3>2, <3>3 DEF TypeOK
    <3>. QED  BY <2>1, <2>2, <3>2, <3>4 DEF TypeInv, PathInv
  <2>5. CASE l.form # "key"
    <3>1. path' = SubSeq(path, 1, Depth(l)) /\ seen' = seen /\ awaiting' = FALSE
      BY <1>2, <2>5 DEF Read
    <3>2. path' \in Seq(Keys) /\ Len(path') = Depth(l)
      BY <2>1, <3>1, Prefix
    <3>3. seen' \subseteq Paths /\ awaiting' \in BOOLEAN /\ verdict' \in {"reading", "accepted", "refused"}
      BY <2>2, <3>1 DEF TypeInv, TypeOK
    <3>4. TypeOK'
      BY <1>1, <2>3, <3>2, <3>3 DEF TypeOK
    <3>. QED  BY <2>1, <2>2, <3>1, <3>2, <3>4 DEF TypeInv, PathInv
  <2>. QED  BY <2>4, <2>5
<1>3. CASE ~Fits(l)
  BY <1>1, <1>3 DEF TypeInv, TypeOK, PathInv, Read
<1>. QED  BY <1>2, <1>3

\* The validator begins with the types.
LEMMA InitType == Init => TypeInv
<1>. SUFFICES ASSUME Init PROVE TypeInv
  OBVIOUS
<1>1. container \in Seq({"map", "list"}) /\ Len(container) = 1 /\ lock \in Seq(Lines) /\ Len(lock) = 0
      /\ path \in Seq(Keys) /\ Len(path) = 0
  BY DEF Init
<1>2. MaxSpaces \div 2 \in Nat /\ MaxLines \in Nat
  BY BoundsAreNumbers, Half
<1>3. previous_depth = -1 /\ seen = {} /\ awaiting = FALSE /\ verdict = "reading"
  BY DEF Init
<1>4. TypeOK
  <2>1. previous_depth \in -1..MaxSpaces \div 2 /\ Len(container) = IF previous_depth < 0 THEN 1 ELSE previous_depth + 1
    BY <1>1, <1>2, <1>3
  <2>2. seen \subseteq Paths /\ awaiting \in BOOLEAN /\ verdict \in {"reading", "accepted", "refused"}
    BY <1>3
  <2>3. Len(lock) <= MaxLines
    BY <1>1, <1>2
  <2>. QED  BY <1>1, <2>1, <2>2, <2>3 DEF TypeOK
<1>. QED  BY <1>1, <1>3, <1>4 DEF TypeInv, PathInv

\* The validator's state stays well typed, and a key is open at every depth that a child needs.
LEMMA TypeInductive == Spec => []TypeInv
<1>1. Init => TypeInv
  BY InitType
<1>2. TypeInv /\ [Next]_vars => TypeInv'
  <2>. SUFFICES ASSUME TypeInv, [Next]_vars PROVE TypeInv'
    OBVIOUS
  <2>1. ASSUME NEW l \in Lines, Read(l) PROVE TypeInv'
    BY <2>1, TypeRead
  <2>2. CASE End
    BY <2>2 DEF End, TypeInv, TypeOK, PathInv
  <2>3. CASE UNCHANGED vars
    BY <2>3 DEF vars, TypeInv, TypeOK, PathInv
  <2>. QED  BY <2>1, <2>2, <2>3 DEF Next
<1>. QED  BY <1>1, <1>2, PTL DEF Spec

\* Whatever lines come, the validator's state is of its type: of the stack, that it is as
\* long as the last line is deep.
THEOREM TypeCorrect == Spec => []TypeOK
<1>1. TypeInv => TypeOK
  BY DEF TypeInv
<1>. QED  BY <1>1, TypeInductive, PTL

-----------------------------------------------------------------------------
(* One more line.                                                          *)

\* Where line l comes to hang in t, as the tree and as the stack have it.
Placed(l, t) ==
    LET p == Parent(t, Len(lock) + 1) IN
    /\ p = 0 => Depth(l) = 0
    /\ p # 0 => p \in Numbers(lock) /\ Awaits(lock[p]) /\ Depth(l) = Depth(lock[p]) + 1
    /\ SubSeq(path, 1, Depth(l)) = KeysTo(lock)[p]
    /\ \/ \E o \in Numbers(lock) : Parent(lock, o) = p /\ Containers(l)[Depth(l) + 1] = Kind(lock[o])
       \/ /\ \A k \in Numbers(lock) : Parent(lock, k) # p
          /\ Containers(l)[Depth(l) + 1] = IF p = 0 THEN "map" ELSE Kind(l)

\* A sound lock stays sound when the line behind it hangs where it may.
LEMMA SoundGrows == ASSUME NEW s \in Seq(Lines), NEW l \in Lines, NEW t, Longer(s, l, t)
                    PROVE  Sound(t) <=> Sound(s) /\ LineOk(t, Len(s) + 1)
<1>1. /\ Len(s) \in Nat /\ Numbers(t) = Numbers(s) \cup {Len(s) + 1}
      /\ \A n \in Numbers(s) : t[n] = s[n] /\ Parent(t, n) = Parent(s, n)
  BY Appended
<1>2. ASSUME NEW n \in Numbers(s) PROVE LineOk(t, n) <=> LineOk(s, n)
  <2>1. n \in 1..Len(s) /\ \A k \in 1..n - 1 : k \in Numbers(s)
    BY <1>1 DEF Numbers
  <2>2. t[n] = s[n] /\ \A k \in 1..n - 1 : t[k] = s[k] /\ Parent(t, k) = Parent(s, k)
    BY <1>1, <2>1
  <2>3. Parent(t, n) = Parent(s, n) /\ (Parent(s, n) # 0 => t[Parent(s, n)] = s[Parent(s, n)])
    BY <1>1, ParentFacts
  <2>4. \A k \in 1..n - 1 : Siblings(t, k, n) <=> Siblings(s, k, n)
    BY <2>2 DEF Siblings
  <2>. QED  BY <2>2, <2>3, <2>4 DEF LineOk
<1>. QED  BY <1>1, <1>2 DEF Sound

\* For every depth of the stack there is an open line.
LEMMA StackAt == ASSUME StackInv, NEW e \in 0..previous_depth
   PROVE  \E o \in 1..Len(lock) :
             /\ Open(lock, o, e) /\ container[e + 1] = Kind(lock[o])
             /\ lock[o].form = "key" => SubSeq(path, 1, e + 1) = KeysTo(lock)[o]
BY DEF StackInv

\* The path to the root is empty.
LEMMA RootPath == ASSUME lock \in Seq(Lines) PROVE SubSeq(path, 1, 0) = KeysTo(lock)[0]
<1>1. SubSeq(path, 1, 0) = <<>>
  BY SubSeqEmpty
<1>. QED  BY <1>1, KeysToFacts

\* The first line is at the root.
LEMMA PlacedFirst == ASSUME TypeInv, ReadInv, NEW l \in Lines, NEW t, Longer(lock, l, t), Indents(l), lock = <<>>
                     PROVE  Placed(l, t)
<1>. DEFINE N == Len(lock)
<1>1. lock \in Seq(Lines) /\ N = 0
  BY DEF TypeInv, TypeOK
<1>2. t \in Seq(Lines) /\ N + 1 \in Numbers(t) /\ Numbers(lock) = {}
  <2>1. t \in Seq(Lines) /\ N + 1 \in Numbers(t)
    BY <1>1, Appended
  <2>2. Numbers(lock) = {}
    BY <1>1 DEF Numbers
  <2>. QED  BY <2>1, <2>2
<1>3. Parent(t, N + 1) = 0
  <2>. HIDE DEF N
  <2>1. Parent(t, N + 1) \in 0..(N + 1) - 1
    BY <1>2, ParentFacts
  <2>. QED  BY <1>1, <2>1
<1>4. previous_depth = -1 /\ container = <<"map">>
  BY DEF ReadInv
<1>5. Depth(l) = 0 /\ Containers(l)[Depth(l) + 1] = "map"
  <2>1. Depth(l) = 0 /\ Containers(l)[1] = container[1]
    BY <1>4, ContainersIs DEF TypeInv
  <2>. QED  BY <1>4, <2>1
<1>6. SubSeq(path, 1, Depth(l)) = KeysTo(lock)[0]
  BY <1>1, <1>5, RootPath
<1>. HIDE DEF N
<1>. QED  BY <1>2, <1>3, <1>5, <1>6 DEF Placed, N

\* A line that is deeper than the last one is its child.
LEMMA ChildOfLast == ASSUME lock \in Seq(Lines), lock # <<>>, NEW l \in Lines, NEW t, Longer(lock, l, t),
                            Depth(l) > Depth(lock[Len(lock)])
                     PROVE  Len(lock) \in Numbers(lock) /\ Parent(t, Len(lock) + 1) = Len(lock)
<1>. DEFINE N == Len(lock)
<1>1. N \in Nat \ {0} /\ N \in Numbers(lock) /\ lock[N] \in Lines
  <2>1. N \in Nat \ {0}
    BY EmptySeq
  <2>. QED  BY <2>1, LineAt DEF Numbers
<1>2. t \in Seq(Lines) /\ N + 1 \in Numbers(t) /\ t[N] = lock[N] /\ t[N + 1] = l
  BY <1>1, Appended
<1>3. lock[N].spaces < l.spaces
  BY <1>1, DepthOrder, LineAt, LineFacts, BoundsAreNumbers, Half
<1>. HIDE DEF N
<1>4. Parent(t, N + 1) = N
  <2>1. N \in 0..(N + 1) - 1 /\ \A m \in N + 1..(N + 1) - 1 : t[m].spaces >= t[N + 1].spaces
    BY <1>1
  <2>. QED  BY <1>2, <1>3, <2>1, ParentIs
<1>. QED  BY <1>1, <1>4 DEF N

\* A line that opens a child has the line before it as parent.
LEMMA PlacedChild == ASSUME TypeInv, ReadInv, NEW l \in Lines, NEW t, Longer(lock, l, t), Indents(l),
                            lock # <<>>, Depth(l) > previous_depth
                     PROVE  Placed(l, t)
<1>. DEFINE N == Len(lock)
            d == Depth(l)
<1>1. lock \in Seq(Lines) /\ StackInv /\ path \in Seq(Keys)
  BY DEF TypeInv, TypeOK, ReadInv
<1>2. previous_depth = Depth(lock[N]) /\ awaiting = Awaits(lock[N])
  BY <1>1 DEF StackInv
<1>3. N \in Numbers(lock) /\ Parent(t, N + 1) = N
  BY <1>1, <1>2, ChildOfLast
<1>4. N \in Nat \ {0} /\ previous_depth \in Nat /\ d \in Nat
  BY <1>1, <1>2, <1>3, LineAt, LineFacts, BoundsAreNumbers, Half
<1>5. d = previous_depth + 1 /\ Awaits(lock[N])
  BY <1>2, <1>4 DEF Indents
<1>6. Containers(l)[d + 1] = Kind(l)
  BY <1>4, <1>5, ContainersIs DEF TypeInv
<1>7. SubSeq(path, 1, d) = KeysTo(lock)[N]
  <2>1. PICK o \in 1..N : /\ Open(lock, o, previous_depth)
                          /\ lock[o].form = "key" => SubSeq(path, 1, previous_depth + 1) = KeysTo(lock)[o]
    <3>1. previous_depth \in 0..previous_depth
      BY <1>4
    <3>. QED  BY <1>1, <3>1, StackAt
  <2>2. o = N
    <3>. SUFFICES ASSUME o # N PROVE FALSE
      OBVIOUS
    <3>1. N \in o + 1..Len(lock)
      BY <1>4
    <3>2. Depth(lock[N]) > previous_depth
      BY <2>1, <3>1 DEF Open
    <3>. HIDE DEF N
    <3>. QED  BY <1>2, <1>4, <3>2
  <2>. QED  BY <1>5, <2>1, <2>2 DEF Awaits
<1>8. \A k \in Numbers(lock) : Parent(lock, k) # N
  <2>1. \A k \in Numbers(lock) : k \in 1..N /\ Parent(lock, k) \in 0..k - 1
    BY <1>1, ParentFacts DEF Numbers
  <2>. HIDE DEF N
  <2>. QED  BY <1>4, <2>1
<1>9. d = Depth(lock[N]) + 1
  BY <1>2, <1>5
<1>. QED  BY <1>3, <1>4, <1>5, <1>6, <1>7, <1>8, <1>9 DEF Placed

\* A line that dedents is a sibling of the open line of its depth.
LEMMA PlacedBack == ASSUME TypeInv, ReadInv, NEW l \in Lines, NEW t, Longer(lock, l, t), Indents(l),
                           l.spaces % 2 = 0, lock # <<>>, Depth(l) <= previous_depth
                    PROVE  Placed(l, t)
<1>. DEFINE N == Len(lock)
            d == Depth(l)
<1>1. lock \in Seq(Lines) /\ StackInv /\ path \in Seq(Keys) /\ Sound(lock)
  BY DEF TypeInv, TypeOK, ReadInv
<1>2. N \in Nat /\ d \in Nat /\ previous_depth \in -1..MaxSpaces \div 2 /\ MaxSpaces \div 2 \in Nat
  BY <1>1, LineFacts, BoundsAreNumbers, Half DEF TypeInv, TypeOK
<1>3. /\ t \in Seq(Lines) /\ N + 1 \in Numbers(t) /\ t[N + 1] = l
      /\ \A n \in Numbers(lock) : t[n] = lock[n]
  BY <1>1, Appended
<1>4. \A n \in 1..N : n \in Numbers(lock) /\ lock[n] \in Lines /\ Depth(lock[n]) \in Nat
                      /\ lock[n].spaces \in Nat /\ t[n] = lock[n]
  <2>1. \A n \in 1..N : n \in Numbers(lock)
    BY DEF Numbers
  <2>. QED  BY <1>1, <1>3, <2>1, LineAt
<1>5. PICK o \in 1..N : Open(lock, o, d) /\ container[d + 1] = Kind(lock[o])
  <2>1. d \in 0..previous_depth
    BY <1>2
  <2>. HIDE DEF d
  <2>. QED  BY <1>1, <2>1, StackAt
<1>6. Containers(l)[d + 1] = Kind(lock[o])
  BY <1>2, <1>5, ContainersIs DEF TypeInv
<1>7. o \in Numbers(lock) /\ Depth(lock[o]) = d
  BY <1>4, <1>5 DEF Open
<1>8. CASE d = 0
  <2>1. l.spaces = 0
    <3>1. l.spaces = 2 * d
      BY LineFacts
    <3>. QED  BY <1>8, <3>1
  <2>2. Parent(t, N + 1) = 0
    <3>1. \A m \in 0 + 1..(N + 1) - 1 : t[m].spaces >= t[N + 1].spaces
      <4>1. \A m \in 0 + 1..(N + 1) - 1 : m \in 1..N
        BY <1>2
      <4>2. t[N + 1].spaces = 0
        BY <1>3, <2>1
      <4>3. \A m \in 1..N : t[m].spaces \in Nat
        BY <1>4
      <4>. HIDE DEF N
      <4>. QED  BY <4>1, <4>2, <4>3
    <3>2. 0 \in 0..(N + 1) - 1
      BY <1>2
    <3>. HIDE DEF N
    <3>. QED  BY <1>3, <3>1, <3>2, ParentIs
  <2>3. Parent(lock, o) = 0
    <3>. SUFFICES ASSUME Parent(lock, o) # 0 PROVE FALSE
      OBVIOUS
    <3>1. Parent(lock, o) \in Numbers(lock) /\ Depth(lock[o]) = Depth(lock[Parent(lock, o)]) + 1
      BY <1>1, <1>7, SoundLine DEF KeyLines
    <3>2. Depth(lock[Parent(lock, o)]) \in Nat
      BY <1>1, <3>1, LineAt
    <3>. QED  BY <1>7, <1>8, <3>1, <3>2
  <2>4. SubSeq(path, 1, d) = KeysTo(lock)[0]
    <3>. HIDE DEF d
    <3>. QED  BY <1>1, <1>8, RootPath
  <2>. QED  BY <1>6, <1>7, <1>8, <2>2, <2>3, <2>4 DEF Placed
<1>9. CASE d # 0
  <2>1. PICK q \in 1..N : /\ Open(lock, q, d - 1)
                          /\ lock[q].form = "key" => SubSeq(path, 1, (d - 1) + 1) = KeysTo(lock)[q]
    <3>1. d - 1 \in 0..previous_depth
      BY <1>2, <1>9
    <3>. HIDE DEF d
    <3>. QED  BY <1>1, <3>1, StackAt
  <2>2. Depth(lock[q]) = d - 1 /\ (\A m \in q + 1..N : Depth(lock[m]) > d - 1) /\ \A m \in o + 1..N : Depth(lock[m]) > d
    BY <1>5, <2>1 DEF Open
  <2>3. q < o
    <3>1. o # q
      BY <1>2, <1>7, <2>2
    <3>2. ~(o < q)
      <4>. SUFFICES ASSUME o < q PROVE FALSE
        OBVIOUS
      <4>1. q \in o + 1..N
        BY <1>2
      <4>. HIDE DEF d, N
      <4>. QED  BY <1>2, <2>2, <4>1
    <3>. QED  BY <3>1, <3>2
  <2>4. q \in Numbers(lock) /\ lock[q] \in Lines /\ lock[o] \in Lines
    BY <1>4
  <2>5. \A m \in q + 1..N : lock[m] \in Lines /\ Depth(lock[m]) >= d
    <3>1. \A m \in q + 1..N : m \in 1..N
      BY <1>2
    <3>2. \A m \in q + 1..N : lock[m] \in Lines /\ Depth(lock[m]) \in Nat /\ Depth(lock[m]) > d - 1
      BY <1>4, <2>2, <3>1
    <3>. HIDE DEF d, N
    <3>. QED  BY <1>2, <3>2
  <2>6. Parent(lock, o) = q
    <3>1. lock[o].spaces % 2 = 0
      <4>1. lock[o].spaces = 2 * Depth(lock[o]) /\ Depth(lock[o]) \in Nat
        BY <1>1, <1>7, SoundLine, LineAt
      <4>. QED  BY <4>1, HalfOrder
    <3>2. lock[q].spaces < lock[o].spaces
      BY <1>2, <1>7, <2>2, <2>4, DepthOrder
    <3>3. \A m \in q + 1..o - 1 : lock[m].spaces >= lock[o].spaces
      <4>1. \A m \in q + 1..o - 1 : m \in q + 1..N
        BY <1>2
      <4>. QED  BY <1>7, <2>4, <2>5, <3>1, <4>1, DepthOrder
    <3>4. q \in 0..o - 1
      BY <1>2, <2>3
    <3>. QED  BY <1>1, <1>7, <3>2, <3>3, <3>4, ParentIs
  <2>7. Parent(t, N + 1) = q
    <3>1. t[q].spaces < t[N + 1].spaces
      <4>1. t[q] = lock[q] /\ t[N + 1] = l
        BY <1>3, <2>4
      <4>2. Depth(lock[q]) < Depth(l)
        BY <1>2, <2>2
      <4>. QED  BY <2>4, <4>1, <4>2, DepthOrder
    <3>2. \A m \in q + 1..(N + 1) - 1 : t[m].spaces >= t[N + 1].spaces
      <4>1. \A m \in q + 1..(N + 1) - 1 : m \in q + 1..N /\ m \in 1..N
        BY <1>2
      <4>. HIDE DEF N
      <4>. QED  BY <1>3, <1>4, <2>5, <4>1, DepthOrder
    <3>3. q \in 0..(N + 1) - 1
      BY <1>2
    <3>. HIDE DEF N
    <3>. QED  BY <1>3, <3>1, <3>2, <3>3, ParentIs
  <2>8. q # 0 /\ lock[q].form = "key" /\ Awaits(lock[q])
    BY <1>1, <1>7, <2>6, SoundLine DEF Awaits
  <2>9. SubSeq(path, 1, d) = KeysTo(lock)[q] /\ d = Depth(lock[q]) + 1
    <3>1. (d - 1) + 1 = d
      BY <1>2
    <3>. HIDE DEF d
    <3>. QED  BY <1>2, <2>1, <2>2, <2>8, <3>1
  <2>. HIDE DEF N, d
  <2>. QED  BY <1>6, <1>7, <2>4, <2>6, <2>7, <2>8, <2>9 DEF Placed, N, d
<1>. QED  BY <1>8, <1>9

\* A line with a legal indentation has the parent that the stack says.
LEMMA PlacedAlways == ASSUME TypeInv, ReadInv, NEW l \in Lines, NEW t, Longer(lock, l, t), Indents(l),
                             l.spaces % 2 = 0
                      PROVE  Placed(l, t)
<1>1. Depth(l) \in Nat /\ previous_depth \in -1..MaxSpaces \div 2 /\ MaxSpaces \div 2 \in Nat
  BY LineFacts, BoundsAreNumbers, Half DEF TypeInv, TypeOK
<1>. QED  BY <1>1, PlacedFirst, PlacedChild, PlacedBack

\* Of the lines whose indentation it follows, the validator takes the sound ones.
LEMMA FitsIs == ASSUME TypeInv, ReadInv, verdict = "reading", NEW l \in Lines, NEW t, Longer(lock, l, t),
                       Indents(l), l.spaces % 2 = 0
                PROVE  Fits(l) <=> LineOk(t, Len(lock) + 1)
<1>. DEFINE N == Len(lock)
            d == Depth(l)
            p == Parent(t, N + 1)
            K == KeysTo(lock)
            C == Containers(l)[d + 1]
            S == Keys \cup {"-"}
<1>1. /\ lock \in Seq(Lines) /\ Sound(lock) /\ seen = {K[n] : n \in KeyLines(lock)}
      /\ N \in Nat /\ d \in Nat /\ l.spaces = 2 * d
  BY LineFacts, BoundsAreNumbers, Half DEF TypeInv, TypeOK, ReadInv
<1>2. /\ t \in Seq(Lines) /\ N + 1 \in Numbers(t) /\ t[N + 1] = l
      /\ \A n \in Numbers(lock) : n \in Numbers(t) /\ t[n] = lock[n] /\ Parent(t, n) = Parent(lock, n)
  BY <1>1, Appended
<1>3. /\ p = 0 => d = 0
      /\ p # 0 => p \in Numbers(lock) /\ Awaits(lock[p]) /\ d = Depth(lock[p]) + 1
      /\ SubSeq(path, 1, d) = K[p]
      /\ \/ \E o \in Numbers(lock) : Parent(lock, o) = p /\ C = Kind(lock[o])
         \/ (\A k \in Numbers(lock) : Parent(lock, k) # p) /\ C = IF p = 0 THEN "map" ELSE Kind(l)
  BY PlacedAlways DEF Placed
<1>4. FullPath(l) = Append(K[p], l.key)
  BY <1>3 DEF FullPath
<1>5. K[p] \in Seq(S) /\ \A n \in Numbers(lock) : /\ K[n] = Append(K[Parent(lock, n)], lock[n].key)
                                                  /\ lock[n].key \in S
  <2>1. K[0] = <<>> /\ <<>> \in Seq(S)
    BY <1>1, KeysToFacts
  <2>2. \A n \in Numbers(lock) : K[n] \in Seq(S)
    BY <1>1, KeysToFacts
  <2>3. \A n \in Numbers(lock) : K[n] = Append(K[Parent(lock, n)], lock[n].key) /\ lock[n].key \in S
    BY <1>1, KeysToFacts, LineAt, LineFacts
  <2>. HIDE DEF K, p, S
  <2>. QED  BY <1>3, <2>1, <2>2, <2>3
<1>6. \A n \in 1..N : n \in Numbers(lock)
  BY DEF Numbers
<1>7. l.form \in {"key", "item", "url", "other"} /\ l.key \in S
  BY LineFacts
<1>. HIDE DEF N, d, p, K, C, S
<1>8. ASSUME Fits(l) PROVE LineOk(t, N + 1)
  <2>1. l.form # "other" /\ C = Kind(l) /\ (l.form = "key" => FullPath(l) \notin seen)
    BY <1>8 DEF Fits, C, d
  <2>2. p = 0 => l.spaces = 0 /\ l.form = "key"
    <3>. HAVE p = 0
    <3>1. C = "map"
      <4>1. ASSUME NEW o \in Numbers(lock), Parent(lock, o) = 0, C = Kind(lock[o]) PROVE C = "map"
        BY <1>1, <4>1, SoundLine DEF Kind
      <4>. QED  BY <1>3, <4>1
    <3>. QED  BY <1>1, <1>3, <2>1, <3>1 DEF Kind
  <2>3. p # 0 => l.spaces = lock[p].spaces + 2 /\ Awaits(lock[p])
    <3>. HAVE p # 0
    <3>1. lock[p].spaces = 2 * Depth(lock[p]) /\ Depth(lock[p]) \in Nat
      BY <1>1, <1>3, SoundLine, LineAt
    <3>. QED  BY <1>1, <1>3, <3>1
  <2>4. ASSUME NEW k \in Numbers(lock), Parent(lock, k) = p PROVE Siblings(t, k, N + 1)
    <3>1. PICK o \in Numbers(lock) : Parent(lock, o) = p /\ C = Kind(lock[o])
      BY <1>3, <2>4
    <3>2. Siblings(lock, k, o)
      BY <1>1, <2>4, <3>1, SiblingLines
    <3>3. Kind(lock[k]) = Kind(l)
      BY <2>1, <3>1, <3>2 DEF Siblings
    <3>4. lock[k].form = "key" => lock[k].key # l.key
      <4>. SUFFICES ASSUME lock[k].form = "key", lock[k].key = l.key PROVE FALSE
        OBVIOUS
      <4>1. l.form = "key"
        BY <3>3 DEF Kind
      <4>2. K[k] = FullPath(l)
        BY <1>4, <1>5, <2>4
      <4>3. k \in KeyLines(lock)
        BY DEF KeyLines
      <4>. QED  BY <1>1, <2>1, <4>1, <4>2, <4>3
    <3>. QED  BY <1>2, <3>3, <3>4 DEF Siblings
  <2>5. \A k \in 1..(N + 1) - 1 : Parent(t, k) = p => Siblings(t, k, N + 1)
    <3>1. \A k \in 1..(N + 1) - 1 : k \in Numbers(lock)
      BY <1>1, <1>6
    <3>. QED  BY <1>2, <2>4, <3>1
  <2>6. p # 0 => t[p] = lock[p]
    BY <1>2, <1>3
  <2>. QED  BY <1>2, <2>1, <2>2, <2>3, <2>5, <2>6 DEF LineOk, p
<1>9. ASSUME LineOk(t, N + 1) PROVE Fits(l)
  <2>1. l.form # "other" /\ (p = 0 => l.form = "key")
    BY <1>2, <1>9 DEF LineOk, p
  <2>2. Sound(t)
    BY <1>1, <1>9, SoundGrows DEF N
  <2>3. C = Kind(l)
    <3>1. ASSUME NEW o \in Numbers(lock), Parent(lock, o) = p, C = Kind(lock[o]) PROVE C = Kind(l)
      <4>1. Siblings(t, o, N + 1)
        BY <1>2, <2>2, <3>1, SiblingLines DEF p
      <4>. QED  BY <1>2, <3>1, <4>1 DEF Siblings
    <3>2. p = 0 => Kind(l) = "map"
      BY <2>1 DEF Kind
    <3>. QED  BY <1>3, <3>1, <3>2
  <2>4. ASSUME l.form = "key", FullPath(l) \in seen PROVE FALSE
    <3>1. PICK k \in KeyLines(lock) : K[k] = FullPath(l)
      BY <1>1, <2>4
    <3>2. k \in Numbers(lock) /\ k \in KeyLines(t) /\ N + 1 \in KeyLines(t) /\ k # N + 1
      <4>1. k \in Numbers(lock) /\ lock[k].form = "key"
        BY DEF KeyLines
      <4>2. k # N + 1
        BY <1>1, <4>1 DEF Numbers, N
      <4>. QED  BY <1>2, <2>4, <4>1, <4>2 DEF KeyLines
    <3>3. \A n \in 0..N : KeysTo(t)[n] = K[n]
      BY <1>1, KeysToAppended DEF N, K
    <3>4. KeysTo(t)[k] = K[k]
      BY <1>1, <3>2, <3>3 DEF Numbers, N
    <3>5. KeysTo(t)[N + 1] = Append(KeysTo(t)[p], l.key)
      BY <1>2, KeysToFacts DEF p
    <3>6. KeysTo(t)[p] = K[p]
      <4>1. p \in 0..N
        BY <1>1, <1>3 DEF Numbers, N
      <4>. QED  BY <3>3, <4>1
    <3>7. KeysTo(t)[N + 1] = KeysTo(t)[k]
      BY <1>4, <3>1, <3>4, <3>5, <3>6
    <3>. QED  BY <1>2, <2>2, <3>2, <3>7, KeysToOnce
  <2>. QED  BY <2>1, <2>3, <2>4 DEF Fits, C, d
<1>. QED  BY <1>8, <1>9 DEF N

-----------------------------------------------------------------------------
(* What the validator accepts.                                             *)

\* The inductive invariant: while the validator reads, what it has read is the sound beginning
\* of a tree and its stack the open part of it; afterwards its verdict is right.
IInv == TypeInv /\ (verdict = "reading" => ReadInv) /\ AcceptsTheSubset

\* Two sequences that agree up to a place have the same beginning.
LEMMA SamePrefix == ASSUME NEW S, NEW v \in Seq(S), NEW w \in Seq(S), NEW e \in Nat, e <= Len(v), e <= Len(w),
                           \A i \in 1..e : v[i] = w[i]
                    PROVE  SubSeq(v, 1, e) = SubSeq(w, 1, e)
<1>. DEFINE a == SubSeq(v, 1, e)
            b == SubSeq(w, 1, e)
<1>1. e \in 0..Len(v) /\ e \in 0..Len(w)
  OBVIOUS
<1>2. a \in Seq(S) /\ Len(a) = e /\ \A i \in 1..e : a[i] = v[i]
  BY <1>1, Prefix
<1>3. b \in Seq(S) /\ Len(b) = e /\ \A i \in 1..e : b[i] = w[i]
  BY <1>1, Prefix
<1>4. Len(a) = Len(b) /\ \A i \in 1..Len(a) : a[i] = b[i]
  <2>. HIDE DEF a, b
  <2>. QED  BY <1>2, <1>3
<1>. HIDE DEF a, b
<1>5. a = b
  BY <1>2, <1>3, <1>4, SeqEqual
<1>. QED  BY <1>5 DEF a, b

\* A line that fits takes its place on the stack and closes what is as deep.
LEMMA StackGrows == ASSUME TypeInv, ReadInv, TypeInv', NEW l \in Lines, Read(l), Fits(l)
                    PROVE  StackInv'
<1>. DEFINE N == Len(lock)
            d == Depth(l)
            K == KeysTo(lock)
<1>1. /\ verdict = "reading" /\ Longer(lock, l, lock') /\ previous_depth' = d /\ container' = Containers(l)
      /\ Indents(l) /\ l.spaces % 2 = 0 /\ Containers(l)[d + 1] = Kind(l)
  BY DEF Read, Fits, Longer
<1>2. /\ lock \in Seq(Lines) /\ path \in Seq(Keys) /\ path' \in Seq(Keys) /\ N \in Nat /\ d \in Nat
      /\ previous_depth \in -1..MaxSpaces \div 2 /\ d \in 0..Len(path) /\ Len(path) \in Nat /\ d <= previous_depth + 1
  <2>1. lock \in Seq(Lines) /\ path \in Seq(Keys) /\ path' \in Seq(Keys) /\ previous_depth \in -1..MaxSpaces \div 2
    BY DEF TypeInv, TypeOK
  <2>2. N \in Nat /\ Len(path) \in Nat /\ d \in Nat
    BY <2>1, LineFacts, BoundsAreNumbers, Half
  <2>3. d \in 0..Len(path) /\ d <= previous_depth + 1
    BY <1>1, PathReaches, ContainersIs DEF TypeInv
  <2>. QED  BY <2>1, <2>2, <2>3
<1>3. /\ lock' \in Seq(Lines) /\ Len(lock') = N + 1 /\ lock'[N + 1] = l
      /\ \A n \in Numbers(lock) : lock'[n] = lock[n]
      /\ Numbers(lock') = Numbers(lock) \cup {N + 1}
  BY <1>1, <1>2, Appended
<1>4. \A n \in 0..N : KeysTo(lock')[n] = K[n]
  BY <1>1, <1>2, KeysToAppended
<1>5. /\ awaiting' = Awaits(l)
      /\ l.form = "key" => path' = FullPath(l)
      /\ l.form # "key" => path' = SubSeq(path, 1, d)
  BY DEF Read, Awaits
<1>6. /\ Len(path') = d + (IF l.form = "key" THEN 1 ELSE 0)
      /\ \A i \in 1..d : path'[i] = path[i]
  <2>1. CASE l.form = "key"
    BY <1>2, <1>5, <2>1, FullPathIs
  <2>2. CASE l.form # "key"
    <3>1. Len(SubSeq(path, 1, d)) = d /\ \A i \in 1..d : SubSeq(path, 1, d)[i] = path[i]
      <4>. HIDE DEF d
      <4>. QED  BY <1>2, Prefix
    <3>. QED  BY <1>2, <1>5, <2>2, <3>1
  <2>. QED  BY <2>1, <2>2
<1>7. l.form = "key" => FullPath(l) = KeysTo(lock')[N + 1]
  <2>. DEFINE p == Parent(lock', N + 1)
  <2>1. SubSeq(path, 1, d) = K[p] /\ p \in 0..N
    <3>1. Placed(l, lock')
      BY <1>1, PlacedAlways
    <3>2. p \in 0..(N + 1) - 1
      BY <1>3, ParentFacts
    <3>. QED  BY <1>2, <3>1, <3>2 DEF Placed
  <2>2. KeysTo(lock')[N + 1] = Append(KeysTo(lock')[p], lock'[N + 1].key)
    BY <1>3, KeysToFacts
  <2>. QED  BY <1>3, <1>4, <2>1, <2>2 DEF FullPath
<1>8. ASSUME NEW e \in 0..d
      PROVE  \E o \in 1..N + 1 :
                /\ Open(lock', o, e) /\ container'[e + 1] = Kind(lock'[o])
                /\ lock'[o].form = "key" => SubSeq(path', 1, e + 1) = KeysTo(lock')[o]
  <2>1. CASE e = d
    <3>1. Open(lock', N + 1, d) /\ N + 1 \in 1..N + 1
      <4>1. N + 1 \in 1..N + 1 /\ \A m \in (N + 1) + 1..N + 1 : FALSE
        <5>1. N \in Nat
          BY <1>2
        <5>. HIDE DEF N
        <5>. QED  BY <5>1
      <4>. HIDE DEF N
      <4>. QED  BY <1>3, <4>1 DEF Open
    <3>2. container'[d + 1] = Kind(lock'[N + 1])
      BY <1>1, <1>3
    <3>3. l.form = "key" => SubSeq(path', 1, d + 1) = KeysTo(lock')[N + 1]
      <4>. HAVE l.form = "key"
      <4>1. Len(path') = d + 1 /\ path' = KeysTo(lock')[N + 1]
        BY <1>5, <1>6, <1>7
      <4>2. SubSeq(path', 1, Len(path')) = path'
        BY <1>2, SubSeqFull
      <4>. HIDE DEF d, N
      <4>. QED  BY <4>1, <4>2
    <3>. HIDE DEF d, N
    <3>. QED  BY <1>3, <2>1, <3>1, <3>2, <3>3
  <2>2. CASE e # d
    <3>1. e \in 0..previous_depth /\ e + 1 \in 1..d /\ e + 1 \in Nat
      BY <1>2, <2>2
    <3>2. lock # <<>> /\ StackInv
      <4>1. lock # <<>>
        BY <1>2, <3>1 DEF ReadInv
      <4>. QED  BY <4>1 DEF ReadInv
    <3>3. PICK o \in 1..N :
             /\ Open(lock, o, e) /\ container[e + 1] = Kind(lock[o])
             /\ lock[o].form = "key" => SubSeq(path, 1, e + 1) = K[o]
      BY <3>1, <3>2, StackAt
    <3>4. o \in Numbers(lock) /\ o \in 0..N /\ o \in 1..N + 1 /\ lock'[o] = lock[o] /\ KeysTo(lock')[o] = K[o]
      <4>1. o \in Numbers(lock) /\ o \in 0..N /\ o \in 1..N + 1
        BY <1>2 DEF Numbers
      <4>. QED  BY <1>3, <1>4, <4>1
    <3>5. Open(lock', o, e)
      <4>1. Depth(lock'[o]) = e /\ \A m \in o + 1..N : Depth(lock[m]) > e
        BY <3>3, <3>4 DEF Open
      <4>2. ASSUME NEW m \in o + 1..N + 1 PROVE Depth(lock'[m]) > e
        <5>1. CASE m = N + 1
          <6>1. Depth(lock'[m]) = d
            BY <1>3, <5>1
          <6>. HIDE DEF d
          <6>. QED  BY <1>2, <2>2, <6>1
        <5>2. CASE m # N + 1
          <6>1. m \in o + 1..N /\ m \in 1..N
            <7>1. N \in Nat /\ o \in 1..N
              BY <1>2
            <7>. HIDE DEF N
            <7>. QED  BY <5>2, <7>1
          <6>2. lock'[m] = lock[m]
            BY <1>3, <6>1 DEF Numbers
          <6>. HIDE DEF N
          <6>. QED  BY <4>1, <6>1, <6>2
        <5>. QED  BY <5>1, <5>2
      <4>. HIDE DEF N
      <4>. QED  BY <1>3, <4>1, <4>2 DEF Open
    <3>6. container'[e + 1] = container[e + 1]
      BY <1>1, <3>1, ContainersIs DEF TypeInv
    <3>7. SubSeq(path', 1, e + 1) = SubSeq(path, 1, e + 1)
      <4>1. e + 1 <= Len(path) /\ e + 1 <= Len(path')
        <5>. HIDE DEF d
        <5>. QED  BY <1>2, <1>6, <3>1
      <4>2. \A i \in 1..e + 1 : path'[i] = path[i]
        <5>. HIDE DEF d
        <5>. QED  BY <1>2, <1>6, <3>1
      <4>. QED  BY <1>2, <3>1, <4>1, <4>2, SamePrefix
    <3>. HIDE DEF N, d, K
    <3>. QED  BY <3>3, <3>4, <3>5, <3>6, <3>7
  <2>. QED  BY <2>1, <2>2
<1>9. previous_depth' = Depth(lock'[Len(lock')]) /\ awaiting' = Awaits(lock'[Len(lock')])
      /\ Len(path') = previous_depth' + (IF lock'[Len(lock')].form = "key" THEN 1 ELSE 0)
  BY <1>1, <1>3, <1>5, <1>6
<1>. HIDE DEF N, d, K
<1>. QED  BY <1>1, <1>3, <1>8, <1>9 DEF StackInv

\* A line that fits keeps what the validator knows of the lock.
LEMMA ReadKeeps == ASSUME TypeInv, ReadInv, TypeInv', NEW l \in Lines, Read(l), Fits(l)
                   PROVE  ReadInv'
<1>. DEFINE N == Len(lock)
<1>1. /\ verdict = "reading" /\ Longer(lock, l, lock') /\ Indents(l) /\ l.spaces % 2 = 0
      /\ lock \in Seq(Lines) /\ Sound(lock) /\ seen = {KeysTo(lock)[n] : n \in KeyLines(lock)}
  BY DEF Read, Fits, Longer, TypeInv, TypeOK, ReadInv
<1>2. /\ lock' \in Seq(Lines) /\ N \in Nat /\ Len(lock') = N + 1 /\ lock'[N + 1] = l
      /\ Numbers(lock') = Numbers(lock) \cup {N + 1} /\ N + 1 \notin Numbers(lock)
      /\ \A n \in Numbers(lock) : lock'[n] = lock[n] /\ Parent(lock', n) = Parent(lock, n)
  BY <1>1, Appended
<1>3. StackInv' /\ lock' # <<>>
  <2>1. Len(<<>>) = 0
    OBVIOUS
  <2>. QED  BY <1>2, <2>1, StackGrows
<1>4. Sound(lock')
  BY <1>1, FitsIs, SoundGrows
<1>5. seen' = {KeysTo(lock')[n] : n \in KeyLines(lock')}
  <2>1. \A n \in KeyLines(lock) : KeysTo(lock')[n] = KeysTo(lock)[n]
    <3>1. \A n \in KeyLines(lock) : n \in 0..N
      BY <1>2 DEF KeyLines, Numbers
    <3>. QED  BY <1>1, <3>1, KeysToAppended
  <2>2. CASE l.form = "key"
    <3>1. KeyLines(lock') = KeyLines(lock) \cup {N + 1}
      BY <1>2, <2>2 DEF KeyLines
    <3>2. seen' = seen \cup {FullPath(l)} /\ path' = FullPath(l)
      BY <2>2 DEF Read
    <3>3. FullPath(l) = KeysTo(lock')[N + 1]
      <4>. DEFINE d == Depth(l)
      <4>1. PICK o \in 1..N + 1 : /\ Open(lock', o, d)
                                  /\ lock'[o].form = "key" => SubSeq(path', 1, d + 1) = KeysTo(lock')[o]
        <5>1. d \in 0..previous_depth' /\ previous_depth' = d
          <6>1. d \in Nat
            BY LineFacts, BoundsAreNumbers, Half
          <6>2. previous_depth' = d
            BY DEF Read
          <6>. QED  BY <6>1, <6>2
        <5>. HIDE DEF d, N
        <5>. QED  BY <1>2, <1>3, <5>1 DEF StackInv
      <4>2. o = N + 1
        <5>. SUFFICES ASSUME o # N + 1 PROVE FALSE
          OBVIOUS
        <5>1. N + 1 \in o + 1..Len(lock')
          BY <1>2
        <5>2. Depth(lock'[N + 1]) > d /\ d \in Nat
          BY <4>1, <5>1, LineFacts, BoundsAreNumbers, Half DEF Open
        <5>. QED  BY <1>2, <5>2
      <4>3. Len(FullPath(l)) = d + 1 /\ FullPath(l) \in Seq(Keys)
        BY <1>1, <2>2, PathReaches, FullPathIs DEF TypeInv, TypeOK
      <4>4. SubSeq(FullPath(l), 1, Len(FullPath(l))) = FullPath(l)
        BY <4>3, SubSeqFull
      <4>. HIDE DEF d, N
      <4>. QED  BY <1>2, <2>2, <3>2, <4>1, <4>2, <4>3, <4>4
    <3>. HIDE DEF N
    <3>. QED  BY <1>1, <2>1, <3>1, <3>2, <3>3
  <2>3. CASE l.form # "key"
    <3>1. KeyLines(lock') = KeyLines(lock)
      BY <1>2, <2>3 DEF KeyLines
    <3>2. seen' = seen
      BY <2>3 DEF Read
    <3>. QED  BY <1>1, <2>1, <3>1, <3>2
  <2>. QED  BY <2>2, <2>3
<1>6. ASSUME NEW n \in 1..N, Awaits(lock'[n]) PROVE Children(lock', n) # {}
  <2>1. n \in Numbers(lock) /\ lock'[n] = lock[n]
    BY <1>2 DEF Numbers
  <2>2. CASE n < N
    <3>1. n \in 1..N - 1
      BY <1>2, <2>2
    <3>2. PICK m \in Numbers(lock) : Parent(lock, m) = n
      BY <1>6, <2>1, <3>1 DEF ReadInv, Children
    <3>3. m \in Children(lock', n)
      BY <1>2, <3>2 DEF Children
    <3>. QED  BY <3>3
  <2>3. CASE n = N
    <3>1. lock # <<>>
      BY <1>2, <2>1, <2>3
    <3>2. previous_depth = Depth(lock[N]) /\ awaiting
      BY <1>6, <2>1, <2>3, <3>1 DEF ReadInv, StackInv
    <3>3. Depth(l) > Depth(lock[N])
      <4>1. Depth(lock[N]) \in Nat /\ Depth(l) \in Nat
        BY <1>1, <2>1, <2>3, LineAt, LineFacts, BoundsAreNumbers, Half
      <4>. QED  BY <1>1, <3>2, <4>1 DEF Indents
    <3>4. Parent(lock', N + 1) = N
      BY <1>1, <3>1, <3>3, ChildOfLast
    <3>5. N + 1 \in Children(lock', n)
      BY <1>2, <2>3, <3>4 DEF Children
    <3>. QED  BY <3>5
  <2>. QED  BY <1>2, <2>2, <2>3
<1>7. Len(lock') - 1 = N
  BY <1>2
<1>. HIDE DEF N
<1>. QED  BY <1>3, <1>4, <1>5, <1>6, <1>7 DEF ReadInv

\* A line that the validator refuses spoils the lock.
LEMMA RefusedSpoils == ASSUME TypeInv, ReadInv, verdict = "reading", NEW l \in Lines, NEW t, Longer(lock, l, t),
                              Supported(t)
                       PROVE  Fits(l)
<1>. DEFINE N == Len(lock)
            d == Depth(l)
<1>1. lock \in Seq(Lines) /\ N \in Nat /\ d \in Nat /\ previous_depth \in -1..MaxSpaces \div 2
  BY LineFacts, BoundsAreNumbers, Half DEF TypeInv, TypeOK
<1>2. /\ t \in Seq(Lines) /\ N + 1 \in Numbers(t) /\ t[N + 1] = l /\ Numbers(t) = Numbers(lock) \cup {N + 1}
      /\ \A n \in Numbers(lock) : n \in Numbers(t) /\ t[n] = lock[n] /\ Parent(t, n) = Parent(lock, n)
  BY <1>1, Appended
<1>3. Sound(t) /\ \A n \in Numbers(t) : Awaits(t[n]) => Children(t, n) # {}
  BY <1>2, SupportedIs
<1>4. LineOk(t, N + 1) /\ l.spaces = 2 * d
  BY <1>2, <1>3, SoundLine DEF Sound
<1>5. l.spaces % 2 = 0
  BY <1>1, <1>4, HalfOrder
<1>6. Indents(l)
  <2>1. CASE lock = <<>>
    <3>1. N = 0 /\ previous_depth = -1
      BY <2>1 DEF ReadInv
    <3>2. Parent(t, N + 1) \in 0..(N + 1) - 1
      BY <1>2, ParentFacts
    <3>3. Parent(t, N + 1) = 0
      <4>. HIDE DEF N
      <4>. QED  BY <3>1, <3>2
    <3>4. d = 0
      BY <1>2, <1>3, <3>3, SoundLine
    <3>5. previous_depth < 0
      BY <3>1
    <3>. QED  BY <3>4, <3>5 DEF Indents
  <2>2. CASE lock # <<>>
    <3>1. previous_depth = Depth(lock[N]) /\ awaiting = Awaits(lock[N])
      BY <2>2 DEF ReadInv, StackInv
    <3>2. N \in Numbers(lock) /\ lock[N] \in Lines /\ previous_depth \in Nat
      <4>1. N \in Nat \ {0}
        BY <1>1, <2>2, EmptySeq
      <4>2. N \in Numbers(lock)
        BY <4>1 DEF Numbers
      <4>. QED  BY <1>1, <3>1, <4>2, LineAt
    <3>3. CASE d > previous_depth
      <4>1. Parent(t, N + 1) = N /\ N # 0
        BY <1>1, <2>2, <3>1, <3>2, <3>3, ChildOfLast DEF Numbers
      <4>2. Awaits(t[N]) /\ d = Depth(t[N]) + 1
        BY <1>2, <1>3, <4>1, SoundLine
      <4>3. t[N] = lock[N]
        BY <1>2, <3>2
      <4>. QED  BY <1>1, <3>1, <3>2, <3>3, <4>2, <4>3 DEF Indents
    <3>4. CASE ~(d > previous_depth)
      <4>1. ASSUME awaiting PROVE FALSE
        <5>1. Awaits(t[N]) /\ N \in Numbers(t) /\ t[N] = lock[N]
          BY <1>2, <3>1, <3>2, <4>1
        <5>2. PICK m \in Numbers(t) : Parent(t, m) = N
          BY <1>3, <5>1 DEF Children
        <5>3. m = N + 1
          <6>1. m \in Nat /\ N < m /\ m <= N + 1
            <7>1. Parent(t, m) \in 0..m - 1 /\ m \in 1..Len(t) /\ Len(t) = N + 1
              BY <1>1, <1>2, <5>2, ParentFacts, Appended DEF Numbers
            <7>. HIDE DEF N
            <7>. QED  BY <1>1, <5>2, <7>1
          <6>. HIDE DEF N
          <6>. QED  BY <1>1, <6>1
        <5>4. N # 0
          BY <3>2 DEF Numbers
        <5>5. d = Depth(lock[N]) + 1
          BY <1>2, <1>3, <5>1, <5>2, <5>3, <5>4, SoundLine
        <5>. HIDE DEF d
        <5>. QED  BY <1>1, <3>1, <3>2, <3>4, <5>5
      <4>. QED  BY <1>1, <3>2, <3>4, <4>1 DEF Indents
    <3>. QED  BY <3>3, <3>4
  <2>. QED  BY <2>1, <2>2
<1>. QED  BY <1>4, <1>5, <1>6, FitsIs

\* At the end of the input the stack says whether a child is missing.
LEMMA EndDecides == ASSUME TypeInv, ReadInv
                    PROVE  Supported(lock) <=> lock # <<>> /\ ~awaiting
<1>. DEFINE N == Len(lock)
<1>1. lock \in Seq(Lines) /\ N \in Nat
  BY DEF TypeInv, TypeOK
<1>2. Supported(lock) <=> /\ lock # <<>> /\ Sound(lock)
                          /\ \A n \in Numbers(lock) : Awaits(lock[n]) => Children(lock, n) # {}
  BY <1>1, SupportedIs
<1>3. Sound(lock) /\ \A n \in 1..N - 1 : Awaits(lock[n]) => Children(lock, n) # {}
  BY DEF ReadInv
<1>4. CASE lock # <<>>
  <2>1. N \in Numbers(lock) /\ Numbers(lock) = (1..N - 1) \cup {N}
    <3>1. N \in Nat \ {0}
      BY <1>1, <1>4, EmptySeq
    <3>. HIDE DEF N
    <3>. QED  BY <3>1 DEF Numbers, N
  <2>2. Children(lock, N) = {}
    <3>1. \A m \in Numbers(lock) : Parent(lock, m) \in 0..m - 1 /\ m \in 1..N
      BY <1>1, ParentFacts DEF Numbers
    <3>2. \A m \in Numbers(lock) : Parent(lock, m) # N
      <4>. HIDE DEF N
      <4>. QED  BY <1>1, <3>1
    <3>. QED  BY <3>2 DEF Children
  <2>3. awaiting = Awaits(lock[N])
    BY <1>4 DEF ReadInv, StackInv
  <2>4. awaiting \in BOOLEAN
    BY DEF TypeInv, TypeOK
  <2>. HIDE DEF N
  <2>. QED  BY <1>2, <1>3, <1>4, <2>1, <2>2, <2>3, <2>4
<1>5. CASE lock = <<>>
  BY <1>2, <1>5
<1>. QED  BY <1>4, <1>5

\* The validator accepts exactly the supported locks, for every set of keys, indentation
\* and length: what it keeps is a prefix of the tree, the stack of its open lines and the
\* paths of its keys.
LEMMA Inductive == Spec => []IInv
<1>1. Init => IInv
  <2>. SUFFICES ASSUME Init, TypeInv PROVE ReadInv /\ AcceptsTheSubset
    <3>1. Init => TypeInv
      BY InitType
    <3>. QED  BY <3>1 DEF IInv
  <2>1. Numbers(lock) = {} /\ KeyLines(lock) = {} /\ 1..Len(lock) - 1 = {} /\ lock = <<>>
    <3>1. lock = <<>> /\ Len(lock) = 0
      BY DEF Init
    <3>. QED  BY <3>1 DEF Numbers, KeyLines
  <2>2. previous_depth = -1 /\ container = <<"map">> /\ path = <<>> /\ seen = {} /\ ~awaiting /\ verdict = "reading"
    BY DEF Init
  <2>3. Sound(lock)
    BY <2>1 DEF Sound
  <2>. QED  BY <2>1, <2>2, <2>3 DEF ReadInv, AcceptsTheSubset
<1>2. IInv /\ TypeInv' /\ [Next]_vars => IInv'
  <2>. SUFFICES ASSUME IInv, TypeInv', [Next]_vars PROVE (verdict' = "reading" => ReadInv') /\ AcceptsTheSubset'
    BY DEF IInv
  <2>1. ASSUME NEW l \in Lines, Read(l), Fits(l) PROVE ReadInv' /\ AcceptsTheSubset'
    <3>1. verdict = "reading" /\ verdict' = "reading"
      BY <2>1 DEF Read
    <3>2. ReadInv'
      BY <2>1, <3>1, ReadKeeps DEF IInv
    <3>. QED  BY <3>1, <3>2 DEF AcceptsTheSubset
  <2>2. ASSUME NEW l \in Lines, Read(l), ~Fits(l) PROVE verdict' = "refused" /\ AcceptsTheSubset'
    <3>1. verdict = "reading" /\ verdict' = "refused" /\ Longer(lock, l, lock')
      BY <2>2 DEF Read, Longer
    <3>2. ~Supported(lock')
      BY <2>2, <3>1, RefusedSpoils DEF IInv
    <3>. QED  BY <3>1, <3>2 DEF AcceptsTheSubset
  <2>3. CASE End
    <3>1. verdict = "reading" /\ lock' = lock /\ verdict' = IF lock # <<>> /\ ~awaiting THEN "accepted" ELSE "refused"
      BY <2>3 DEF End
    <3>2. Supported(lock) <=> lock # <<>> /\ ~awaiting
      BY <3>1, EndDecides DEF IInv
    <3>. QED  BY <3>1, <3>2 DEF AcceptsTheSubset
  <2>4. CASE UNCHANGED vars
    BY <2>4 DEF IInv, vars, ReadInv, StackInv, AcceptsTheSubset
  <2>. QED  BY <2>1, <2>2, <2>3, <2>4 DEF Next
<1>. QED  BY <1>1, <1>2, TypeInductive, PTL DEF Spec

\* The validator, which keeps a stack and a set of paths, accepts exactly the locks that are
\* the tree of two-space mappings and scalar lists, and refuses the others.
THEOREM SubsetIsAccepted == Spec => []AcceptsTheSubset
<1>1. IInv => AcceptsTheSubset
  BY DEF IInv
<1>. QED  BY <1>1, Inductive, PTL

-----------------------------------------------------------------------------
(* What the lookups find.                                                  *)

\* The recursive definition of the path of lock_get has a solution.
LEMMA PathsDefined == ASSUME NEW s \in Seq(Lines)
   PROVE  PathsAfter(s) = [k \in 0..Len(s) |->
             IF k = 0 THEN Cleared ELSE Track(PathsAfter(s)[k - 1], s[k])]
<1>. DEFINE Eq(f, n) == f = [k \in 0..n |-> IF k = 0 THEN Cleared ELSE Track(f[k - 1], s[k])]
            T == {n \in 0..Len(s) : ~\E f : Eq(f, n)}
<1>1. Len(s) \in Nat
  OBVIOUS
<1>2. ASSUME NEW n \in T, \A m \in T : n <= m PROVE FALSE
  <2>1. n # 0
    <3>1. PICK f : f = [k \in 0..0 |-> Cleared]
      OBVIOUS
    <3>2. Eq(f, 0)
      BY <3>1
    <3>. QED  BY <3>2
  <2>2. n \in 1..Len(s) /\ n - 1 \in 0..Len(s)
    BY <1>1, <2>1
  <2>3. n - 1 \notin T
    <3>. HIDE DEF T
    <3>. QED  BY <1>1, <1>2, <2>2
  <2>4. PICK g : Eq(g, n - 1)
    BY <2>2, <2>3
  <2>. DEFINE h == [k \in 0..n |-> IF k = n THEN Track(g[n - 1], s[n]) ELSE g[k]]
  <2>5. \A k \in 0..n - 1 : h[k] = g[k]
    BY <2>2
  <2>6. ASSUME NEW k \in 0..n PROVE h[k] = IF k = 0 THEN Cleared ELSE Track(h[k - 1], s[k])
    <3>1. CASE k = n
      <4>1. h[n] = Track(g[n - 1], s[n]) /\ n - 1 \in 0..n - 1
        BY <2>2
      <4>. HIDE DEF h
      <4>. QED  BY <2>1, <2>5, <3>1, <4>1
    <3>2. CASE k # n
      <4>1. k \in 0..n - 1 /\ (k # 0 => k - 1 \in 0..n - 1)
        BY <2>2, <3>2
      <4>2. g[k] = IF k = 0 THEN Cleared ELSE Track(g[k - 1], s[k])
        BY <2>4, <4>1
      <4>. HIDE DEF h
      <4>. QED  BY <2>5, <4>1, <4>2
    <3>. QED  BY <3>1, <3>2
  <2>7. DOMAIN h = 0..n /\ h = [k \in 0..n |-> h[k]]
    OBVIOUS
  <2>8. Eq(h, n)
    <3>. HIDE DEF h
    <3>. QED  BY <2>6, <2>7
  <2>. QED  BY <2>8
<1>3. T = {}
  <2>1. T \subseteq Nat
    BY <1>1
  <2>. HIDE DEF T
  <2>. QED  BY <1>2, <2>1, Least
<1>4. \E f : Eq(f, Len(s))
  BY <1>1, <1>3
<1>5. PathsAfter(s) = CHOOSE f : Eq(f, Len(s))
  BY DEF PathsAfter
<1>6. Eq(PathsAfter(s), Len(s))
  <2>. HIDE DEF Eq
  <2>. QED  BY <1>4, <1>5
<1>. QED  BY <1>6

\* The array of lock_get has the keys of every line that no later one has closed.
LEMMA PathsRight == ASSUME NEW s \in Seq(Lines), Sound(s)
   PROVE  \A n \in 0..Len(s) : \A o \in 1..n :
             s[o].form # "item" /\ (\A m \in o + 1..n : Depth(s[m]) > Depth(s[o])) =>
             \A e \in 1..Depth(s[o]) + 1 : PathsAfter(s)[n][e] = KeysTo(s)[o][e]
<1>. DEFINE A == PathsAfter(s)
            K == KeysTo(s)
            Right(n) == \A o \in 1..n :
               s[o].form # "item" /\ (\A m \in o + 1..n : Depth(s[m]) > Depth(s[o])) =>
               \A e \in 1..Depth(s[o]) + 1 : A[n][e] = K[o][e]
            T == {n \in 0..Len(s) : ~Right(n)}
<1>1. Len(s) \in Nat
  OBVIOUS
<1>2. ASSUME NEW n \in T, \A m \in T : n <= m PROVE FALSE
  <2>1. n \in 0..Len(s) /\ ~Right(n)
    OBVIOUS
  <2>2. n # 0
    BY <2>1
  <2>3. n \in 1..Len(s) /\ n \in Numbers(s) /\ n - 1 \in 0..Len(s) /\ n \in Nat
    BY <1>1, <2>1, <2>2 DEF Numbers
  <2>4. Right(n - 1)
    <3>1. n - 1 \notin T
      <4>. HIDE DEF T
      <4>. QED  BY <1>1, <1>2, <2>3
    <3>. QED  BY <2>3, <3>1
  <2>5. A[n] = Track(A[n - 1], s[n])
    <3>1. n \in 0..Len(s)
      BY <2>3
    <3>. HIDE DEF Right, T
    <3>. QED  BY <2>2, <3>1, PathsDefined
  <2>6. \A o \in 1..n : o \in Numbers(s) /\ Depth(s[o]) \in Nat /\ \A e \in 1..Depth(s[o]) + 1 : e \in DOMAIN Cleared
    <3>1. \A o \in 1..n : o \in Numbers(s)
      BY <2>3 DEF Numbers
    <3>2. \A o \in 1..n : Depth(s[o]) \in 0..MaxSpaces \div 2
      BY <3>1, LineAt, LineFacts
    <3>3. MaxSpaces \div 2 \in Nat
      BY BoundsAreNumbers, Half
    <3>. QED  BY <3>1, <3>2, <3>3 DEF Cleared
  <2>7. \A e \in DOMAIN Cleared : e <= Depth(s[n]) \/ s[n].form = "item" => A[n][e] = A[n - 1][e]
    BY <2>5 DEF Track
  <2>8. ASSUME NEW o \in 1..n - 1, s[o].form # "item", \A m \in o + 1..n : Depth(s[m]) > Depth(s[o]),
               NEW e \in 1..Depth(s[o]) + 1
        PROVE  A[n][e] = K[o][e]
    <3>1. o \in 1..n /\ n \in o + 1..n /\ \A m \in o + 1..n - 1 : m \in o + 1..n
      BY <2>3
    <3>2. e \in DOMAIN Cleared /\ e <= Depth(s[n])
      <4>1. e \in DOMAIN Cleared /\ Depth(s[o]) \in Nat /\ Depth(s[n]) \in Nat
        BY <2>6, <3>1, <2>3
      <4>2. Depth(s[n]) > Depth(s[o])
        BY <2>8, <3>1
      <4>. HIDE DEF A, K, T
      <4>. QED  BY <4>1, <4>2
    <3>3. A[n - 1][e] = K[o][e]
      BY <2>4, <2>8, <3>1
    <3>. QED  BY <2>7, <3>2, <3>3
  <2>9. ASSUME s[n].form # "item", NEW e \in 1..Depth(s[n]) + 1 PROVE A[n][e] = K[n][e]
    <3>. DEFINE p == Parent(s, n)
    <3>1. K[n] = Append(K[p], s[n].key) /\ K[p] \in Seq(Keys \cup {"-"}) /\ s[n].key \in Keys \cup {"-"}
      BY <2>3, KeysToFacts, LineAt, LineFacts
    <3>2. Len(K[p]) = Depth(s[n])
      <4>1. CASE p = 0
        BY <2>3, <4>1, SoundLine, KeysToFacts
      <4>2. CASE p # 0
        BY <2>3, <4>2, SoundLine, SoundDepth DEF KeyLines
      <4>. QED  BY <4>1, <4>2
    <3>3. K[n][Depth(s[n]) + 1] = s[n].key /\ \A i \in 1..Depth(s[n]) : K[n][i] = K[p][i]
      <4>. HIDE DEF K, p, A
      <4>. QED  BY <3>1, <3>2, AppendProperties
    <3>. DEFINE d == Depth(s[n])
    <3>6. n \in 1..n /\ d \in Nat /\ e \in DOMAIN Cleared
      <4>1. n \in 1..n
        BY <2>3
      <4>. QED  BY <2>6, <4>1
    <3>4. CASE e = Depth(s[n]) + 1
      <4>1. e \in DOMAIN Cleared /\ ~(e <= d)
        <5>. HIDE DEF d
        <5>. QED  BY <3>6, <3>4 DEF d
      <4>2. A[n][e] = s[n].key
        BY <2>5, <2>9, <3>4, <4>1 DEF Track
      <4>. QED  BY <3>3, <3>4, <4>2
    <3>5. CASE e # Depth(s[n]) + 1
      <4>1. n \in 1..n /\ Depth(s[n]) \in Nat
        BY <3>6
      <4>2. e \in 1..Depth(s[n]) /\ e \in DOMAIN Cleared /\ Depth(s[n]) # 0
        <5>1. e \in 1..d + 1 /\ e # d + 1
          BY <3>5
        <5>2. e \in 1..d /\ e \in DOMAIN Cleared /\ d # 0
          <6>. HIDE DEF d
          <6>. QED  BY <3>6, <5>1
        <5>. QED  BY <5>2
      <4>3. p # 0 /\ p \in 1..n - 1 /\ s[p].form # "item" /\ Depth(s[n]) = Depth(s[p]) + 1
        BY <2>3, <4>2, SoundLine, ParentFacts DEF Awaits
      <4>4. ASSUME NEW m \in p + 1..n - 1 PROVE Depth(s[m]) > Depth(s[p])
        <5>1. p \in 1..n /\ m \in 1..n /\ s[m].spaces >= s[n].spaces
          BY <2>3, <4>3, ParentFacts
        <5>2. s[m].spaces = 2 * Depth(s[m]) /\ s[n].spaces = 2 * Depth(s[n])
          BY <2>3, <2>6, <5>1, SoundLine
        <5>3. Depth(s[m]) \in Nat /\ Depth(s[p]) \in Nat
          BY <2>6, <5>1
        <5>4. 2 * Depth(s[m]) >= 2 * Depth(s[n])
          BY <5>1, <5>2
        <5>5. Depth(s[m]) >= Depth(s[n])
          BY <4>1, <5>3, <5>4
        <5>6. Depth(s[n]) = Depth(s[p]) + 1
          BY <4>3
        <5>. QED  BY <4>1, <5>3, <5>5, <5>6
      <4>5. A[n - 1][e] = K[p][e]
        <5>. HIDE DEF A, K, p
        <5>. QED  BY <2>4, <4>2, <4>3, <4>4
      <4>. QED  BY <2>7, <3>3, <4>2, <4>5
    <3>. QED  BY <3>4, <3>5
  <2>. HIDE DEF A, K, T
  <2>10. ASSUME NEW o \in 1..n, s[o].form # "item", \A m \in o + 1..n : Depth(s[m]) > Depth(s[o]),
                NEW e \in 1..Depth(s[o]) + 1
         PROVE  A[n][e] = K[o][e]
    <3>1. o \in 1..n - 1 \/ o = n
      BY <2>3
    <3>. QED  BY <2>8, <2>9, <2>10, <3>1
  <2>. QED  BY <2>1, <2>10
<1>3. T = {}
  <2>1. T \subseteq Nat
    BY <1>1
  <2>. HIDE DEF T
  <2>. QED  BY <1>2, <2>1, Least
<1>. QED  BY <1>3

\* The path that lock_get has at a key is the way to it from the root.
LEMMA GetPathIs == ASSUME NEW s \in Seq(Lines), Sound(s), NEW n \in Numbers(s), s[n].form # "item"
                   PROVE  GetPath(s, n) = KeysTo(s)[n]
<1>. DEFINE w == PathsAfter(s)[n]
            k == KeysTo(s)[n]
            d == Depth(s[n])
            S == Keys \cup {"-"}
<1>1. d \in Nat /\ n \in Nat /\ n \in 0..Len(s) /\ n \in 1..n /\ Len(s) \in Nat
  BY LineAt DEF Numbers
<1>2. k \in Seq(S) /\ Len(k) = d + 1
  BY KeysToFacts, SoundDepth
<1>3. \A e \in 1..d + 1 : w[e] = k[e]
  <2>1. \A m \in n + 1..n : Depth(s[m]) > Depth(s[n])
    BY <1>1
  <2>. QED  BY <1>1, <2>1, PathsRight
<1>4. GetPath(s, n) = SubSeq(w, 1, d + 1)
  BY DEF GetPath
<1>. HIDE DEF w, k, d, S
<1>5. \A e \in 1..d + 1 : w[e] \in S
  BY <1>1, <1>2, <1>3, ElementOfSeq
<1>6. SubSeq(w, 1, d + 1) \in Seq(S) /\ Len(SubSeq(w, 1, d + 1)) = d + 1
      /\ \A e \in 1..d + 1 : SubSeq(w, 1, d + 1)[e] = w[e]
  <2>. DEFINE c == d + 1
  <2>1. 1 \in Int /\ c \in Int /\ 1 <= c
    BY <1>1
  <2>. HIDE DEF c
  <2>2. /\ SubSeq(w, 1, c) \in Seq(S) /\ Len(SubSeq(w, 1, c)) = IF 1 <= c THEN c - 1 + 1 ELSE 0
        /\ \A e \in 1..c - 1 + 1 : SubSeq(w, 1, c)[e] = w[1 + e - 1]
    BY <1>5, <2>1, SubSeqProperties DEF c
  <2>. QED  BY <2>1, <2>2 DEF c
<1>. DEFINE v == SubSeq(w, 1, d + 1)
<1>7. v \in Seq(S) /\ Len(v) = Len(k) /\ \A e \in 1..Len(v) : v[e] = k[e]
  BY <1>2, <1>3, <1>6
<1>8. v = k
  <2>. HIDE DEF v
  <2>. QED  BY <1>2, <1>7, SeqEqual
<1>. QED  BY <1>4, <1>8 DEF k

\* The last of the keys to a line is its own.
LEMMA LastKey == ASSUME NEW s \in Seq(Lines), NEW n \in Numbers(s), KeysTo(s)[n] \in Seq(Keys)
                 PROVE  s[n].form = "key"
<1>. DEFINE k == KeysTo(s)[n]
            p == KeysTo(s)[Parent(s, n)]
            S == Keys \cup {"-"}
<1>1. k = Append(p, s[n].key) /\ p \in Seq(S) /\ s[n].key \in S
  BY KeysToFacts, LineAt, LineFacts
<1>2. k \in Seq(Keys)
  OBVIOUS
<1>. HIDE DEF k, p, S
<1>3. Len(p) + 1 \in 1..Len(k) /\ k[Len(p) + 1] = s[n].key
  <2>1. Len(p) \in Nat
    BY <1>1
  <2>. QED  BY <1>1, <2>1, AppendProperties
<1>4. s[n].key \in Keys
  BY <1>2, <1>3, ElementOfSeq
<1>. QED  BY <1>4, LineAt, LineFacts

\* What locked finds is the key of that path whose value has a text.
Filled(s, w) == {n \in Yaml(s, w) : s[n].tail # "empty"}

LEMMA LockedIs == ASSUME NEW s \in Seq(Lines), Sound(s), NEW w \in Seq(Keys)
   PROVE  /\ Locked(s, w) # 0 => Locked(s, w) \in Filled(s, w)
          /\ \A n \in Filled(s, w) : Locked(s, w) = n
<1>. DEFINE H == {k \in Numbers(s) : s[k].form # "item" /\ GetPath(s, k) = w}
<1>1. ASSUME NEW k \in H PROVE k \in KeyLines(s) /\ KeysTo(s)[k] = w
  <2>1. k \in Numbers(s) /\ KeysTo(s)[k] = w
    BY GetPathIs
  <2>. QED  BY <2>1, LastKey DEF KeyLines
<1>2. ASSUME NEW k \in KeyLines(s), KeysTo(s)[k] = w PROVE k \in H
  <2>1. k \in Numbers(s) /\ s[k].form = "key"
    BY DEF KeyLines
  <2>. QED  BY <1>2, <2>1, GetPathIs
<1>3. H \subseteq Nat \ {0}
  BY LineAt
<1>4. Locked(s, w) = IF First(H) # 0 /\ s[First(H)].tail \notin {"none", "empty"} THEN First(H) ELSE 0
  BY DEF Locked
<1>. HIDE DEF H
<1>5. Locked(s, w) # 0 => Locked(s, w) \in Filled(s, w)
  <2>. HAVE Locked(s, w) # 0
  <2>1. First(H) # 0 /\ s[First(H)].tail \notin {"none", "empty"} /\ Locked(s, w) = First(H)
    BY <1>4
  <2>2. First(H) \in H
    BY <1>3, <2>1, FirstFacts
  <2>3. First(H) \in KeyLines(s) /\ KeysTo(s)[First(H)] = w
    BY <1>1, <2>2
  <2>. QED  BY <2>1, <2>3 DEF Filled, Yaml, KeyLines
<1>6. ASSUME NEW n \in Filled(s, w) PROVE Locked(s, w) = n
  <2>1. n \in KeyLines(s) /\ KeysTo(s)[n] = w /\ s[n].tail \notin {"none", "empty"}
    BY DEF Filled, Yaml, KeyLines
  <2>2. n \in H
    BY <1>2, <2>1
  <2>3. First(H) \in H /\ First(H) # 0
    BY <1>3, <2>2, FirstFacts
  <2>4. First(H) \in KeyLines(s) /\ KeysTo(s)[First(H)] = w
    BY <1>1, <2>3
  <2>5. First(H) = n
    BY <2>1, <2>4, KeysToOnce
  <2>. QED  BY <1>4, <2>1, <2>3, <2>5
<1>. QED  BY <1>5, <1>6

\* The paths that are looked up are sequences of keys.
LEMMA PathsAreKeys == Paths \subseteq Seq(Keys)
<1>. SUFFICES ASSUME NEW d \in DOMAIN Cleared, NEW w \in [1..d -> Keys] PROVE w \in Seq(Keys)
  BY DEF Paths
<1>1. d \in Nat
  BY BoundsAreNumbers, Half DEF Cleared
<1>2. \A n \in Nat : [1..n -> Keys] \subseteq Seq(Keys)
  BY SeqDef
<1>. QED  BY <1>1, <1>2

\* Of a lock that the validator accepts, verify-m0.sh reads what a general YAML reader does,
\* for every path, unless that is an empty text: lines 1 and 2 of the validator.
THEOREM LookupsAgree == Spec => []LookupAgrees
<1>1. IInv => LookupAgrees
  <2>. SUFFICES ASSUME IInv, verdict = "accepted", NEW wanted \in Paths
                PROVE  Filled(lock, wanted) = {Locked(lock, wanted)} \ {0}
    BY DEF LookupAgrees, Filled
  <2>1. lock \in Seq(Lines) /\ Sound(lock) /\ wanted \in Seq(Keys)
    BY SupportedIs, PathsAreKeys DEF IInv, TypeInv, TypeOK, AcceptsTheSubset
  <2>2. \A n \in Filled(lock, wanted) : n # 0
    BY <2>1, LineAt DEF Filled, Yaml
  <2>. QED  BY <2>1, <2>2, LockedIs
<1>. QED  BY <1>1, Inductive, PTL

\* The keys to a key are keys: no list item is on the way.
LEMMA KeyPath == ASSUME NEW s \in Seq(Lines), Sound(s)
                 PROVE  \A n \in KeyLines(s) : KeysTo(s)[n] \in Seq(Keys) /\ KeysTo(s)[n] # <<>>
<1>. DEFINE K == KeysTo(s)
            T == {n \in KeyLines(s) : ~(K[n] \in Seq(Keys) /\ K[n] # <<>>)}
<1>1. \A n \in KeyLines(s) : n \in Numbers(s) /\ n \in Nat /\ Parent(s, n) \in 0..n - 1 /\ s[n].form = "key"
  BY ParentFacts DEF KeyLines, Numbers
<1>2. ASSUME NEW n \in T, \A m \in T : n <= m PROVE FALSE
  <2>. DEFINE p == Parent(s, n)
              k == s[n].key
  <2>1. n \in KeyLines(s) /\ n \in Numbers(s) /\ n \in Nat /\ p \in 0..n - 1 /\ k \in Keys
    BY <1>1, LineAt, LineFacts
  <2>2. K[n] = Append(K[p], k)
    BY <2>1, KeysToFacts
  <2>3. K[p] \in Seq(Keys)
    <3>1. CASE p = 0
      <4>1. K[p] = <<>> /\ <<>> \in Seq(Keys)
        BY <3>1, KeysToFacts
      <4>. QED  BY <4>1
    <3>2. CASE p # 0
      <4>1. p \in KeyLines(s) /\ p < n /\ p \in Nat
        BY <2>1, <3>2, SoundLine
      <4>2. p \notin T
        <5>. HIDE DEF T, p
        <5>. QED  BY <1>2, <2>1, <4>1
      <4>. QED  BY <4>1, <4>2
    <3>. QED  BY <3>1, <3>2
  <2>4. Append(K[p], k) \in Seq(Keys) /\ Append(K[p], k) # <<>>
    <3>. HIDE DEF K, p, k
    <3>. QED  BY <2>1, <2>3, AppendProperties
  <2>. QED  BY <2>2, <2>4
<1>3. T = {}
  <2>1. T \subseteq Nat
    BY <1>1
  <2>. HIDE DEF T
  <2>. QED  BY <1>2, <2>1, Least
<1>. QED  BY <1>3

\* A field that stands behind its section before any of its name, where the section has its
\* name for itself, is on the line that doctor.sh finds, and it reads the first word of it.
LEMMA DoctorFinds == ASSUME NEW s \in Seq(Lines), Sound(s), NEW n \in KeyLines(s), NEW field \in Keys,
                            NEW v, v = Locked(s, KeysTo(s)[n] \o <<field>>), v # 0, Alone(s, n),
                            \A m \in n + 1..v - 1 : s[m].key # field
                     PROVE  Doctor(s, s[n].spaces, s[n].key, field) = IF s[v].tail = "word" THEN v ELSE -v
<1>. DEFINE K == KeysTo(s)
            w == K[n] \o <<field>>
            opens == {m \in Numbers(s) : s[m].spaces = s[n].spaces /\ s[m].key = s[n].key /\ s[m].tail = "none"}
            start == First(opens)
            ends  == {m \in Numbers(s) \ opens : m > start /\ s[m].spaces = s[n].spaces}
            after == {m \in Numbers(s) \ opens : m > start /\ (s[m].key = field \/ m \in ends)}
            hit   == First(after)
<1>1. n \in Numbers(s) /\ n \in Nat \ {0} /\ s[n].form = "key" /\ K[n] \in Seq(Keys) /\ K[n] # <<>>
  BY KeyPath, LineAt DEF KeyLines
<1>2. w = Append(K[n], field) /\ w \in Seq(Keys)
  <2>1. w = Append(K[n], field)
    <3>. HIDE DEF K
    <3>. QED  BY <1>1, AppendIsConcat
  <2>2. Append(K[n], field) \in Seq(Keys)
    <3>. HIDE DEF K
    <3>. QED  BY <1>1, AppendProperties
  <2>. QED  BY <2>1, <2>2
<1>3. /\ v \in KeyLines(s) /\ K[v] = w /\ v \in Numbers(s) /\ v \in Nat \ {0}
      /\ s[v].tail # "none"
  <2>1. v \in Filled(s, w)
    <3>. HIDE DEF K, w
    <3>. QED  BY <1>2, LockedIs DEF w, K
  <2>. QED  BY <2>1, LineAt DEF Filled, Yaml, KeyLines
<1>4. K[Parent(s, v)] = K[n] /\ s[v].key = field
  <2>. DEFINE a == K[Parent(s, v)]
              b == K[n]
              x == s[v].key
              S == Keys \cup {"-"}
  <2>1. Append(a, x) = Append(b, field) /\ a \in Seq(S) /\ x \in S /\ field \in S
    BY <1>2, <1>3, KeysToFacts, LineAt, LineFacts
  <2>2. b \in Seq(S)
    BY <1>1, KeysToFacts
  <2>3. a = b /\ x = field
    <3>. HIDE DEF a, b, x, S
    <3>. QED  BY <2>1, <2>2, AppendInjective
  <2>. QED  BY <2>3
<1>5. Parent(s, v) = n
  <2>1. Parent(s, v) # 0
    BY <1>1, <1>4, KeysToFacts
  <2>2. Parent(s, v) \in KeyLines(s)
    BY <1>3, <2>1, SoundLine
  <2>. QED  BY <1>4, <2>2, KeysToOnce
<1>6. /\ n < v /\ Awaits(s[n]) /\ s[v].spaces = s[n].spaces + 2 /\ s[n].spaces \in Nat
      /\ \A m \in n + 1..v - 1 : s[m].spaces >= s[n].spaces + 2
  <2>1. n # 0 /\ Awaits(s[n]) /\ s[v].spaces = s[n].spaces + 2 /\ s[n].spaces \in Nat
    BY <1>1, <1>3, <1>5, SoundLine, LineAt
  <2>2. n \in 0..v - 1 /\ \A m \in n + 1..v - 1 : s[m].spaces >= s[v].spaces
    BY <1>3, <1>5, ParentFacts
  <2>3. n < v
    BY <1>1, <1>3, <2>2
  <2>4. \A m \in n + 1..v - 1 : s[m].spaces >= s[n].spaces + 2
    <3>. HIDE DEF opens, start, ends, after, hit, w, K
    <3>. QED  BY <2>1, <2>2
  <2>. QED  BY <2>1, <2>3, <2>4
<1>7. opens = {n}
  BY <1>1, <1>6 DEF Alone, Awaits
<1>8. start = n
  <2>1. n \in opens /\ opens \subseteq Nat \ {0} /\ \A m \in opens : n <= m
    BY <1>1, <1>7
  <2>. HIDE DEF opens
  <2>. QED  BY <2>1, FirstIs
<1>. HIDE DEF opens, start
<1>9. v \in after /\ v \notin ends
  <2>1. v \in Numbers(s) \ opens /\ v > start
    BY <1>3, <1>6, <1>7, <1>8
  <2>2. v \notin ends
    BY <1>6
  <2>. QED  BY <1>4, <2>1, <2>2
<1>10. after \subseteq Nat \ {0}
  BY LineAt
<1>11. \A m \in after : v <= m
  <2>. SUFFICES ASSUME NEW m \in after, ~(v <= m) PROVE FALSE
    OBVIOUS
  <2>1. m \in Nat /\ m > n /\ m \in n + 1..v - 1
    BY <1>1, <1>3, <1>8, <1>10
  <2>2. s[m].spaces = s[n].spaces
    BY <2>1
  <2>3. s[m].spaces >= s[n].spaces + 2
    BY <1>6, <2>1
  <2>. QED  BY <1>6, <2>2, <2>3
<1>12. hit = v
  <2>. HIDE DEF after
  <2>. QED  BY <1>9, <1>10, <1>11, FirstIs
<1>13. DoctorLine(s, s[n].spaces, s[n].key, field) = IF start = 0 \/ hit \in ends THEN 0 ELSE hit
  BY DEF DoctorLine, opens, start
<1>14. DoctorLine(s, s[n].spaces, s[n].key, field) = v
  BY <1>1, <1>8, <1>9, <1>12, <1>13
<1>. QED  BY <1>3, <1>14 DEF Doctor

\* The line that doctor.sh finds of a root section has the section's key at the root of its path.
LEMMA DoctorStays == ASSUME NEW s \in Seq(Lines), Sound(s), NEW n \in KeyLines(s), NEW field \in Keys,
                            s[n].spaces = 0, NEW r, r = DoctorLine(s, s[n].spaces, s[n].key, field), r # 0
                     PROVE  KeysTo(s)[r][1] = s[n].key
<1>. DEFINE K == KeysTo(s)
            opens == {m \in Numbers(s) : s[m].spaces = s[n].spaces /\ s[m].key = s[n].key /\ s[m].tail = "none"}
            start == First(opens)
            ends  == {m \in Numbers(s) \ opens : m > start /\ s[m].spaces = s[n].spaces}
            after == {m \in Numbers(s) \ opens : m > start /\ (s[m].key = field \/ m \in ends)}
            hit   == First(after)
<1>1. r = IF start = 0 \/ hit \in ends THEN 0 ELSE hit
  BY DEF DoctorLine
<1>2. opens \subseteq Nat \ {0} /\ after \subseteq Nat \ {0}
  BY LineAt
<1>3. start \in opens
  <2>. HIDE DEF opens, ends
  <2>. QED  BY <1>1, <1>2, FirstFacts
<1>4. start \in Numbers(s) /\ start \in Nat \ {0} /\ s[start].spaces = 0 /\ s[start].key = s[n].key
  <2>. HIDE DEF start
  <2>. QED  BY <1>2, <1>3
<1>. HIDE DEF start
<1>5. r = hit /\ r \in after /\ r \notin ends /\ \A m \in after : r <= m
  <2>1. r = hit /\ hit # 0 /\ hit \notin ends
    <3>. HIDE DEF hit, ends
    <3>. QED  BY <1>1
  <2>2. hit \in after /\ \A m \in after : hit <= m
    <3>. HIDE DEF after, ends
    <3>. QED  BY <1>2, <2>1, FirstFacts
  <2>. HIDE DEF hit, after, ends
  <2>. QED  BY <2>1, <2>2
<1>6. r \in Numbers(s) /\ r \in Nat \ {0} /\ start < r /\ r <= Len(s) /\ Len(s) \in Nat /\ r \notin opens
  BY <1>2, <1>4, <1>5, LineAt
<1>. HIDE DEF hit
\* No line from the section to the field is at the root.
<1>7. ASSUME NEW m \in start + 1..r PROVE m \in Numbers(s) /\ s[m].spaces # 0
  <2>1. m \in Numbers(s) /\ m > start /\ m <= r /\ m \in Nat
    BY <1>4, <1>6 DEF Numbers
  <2>2. m \notin ends
    <3>1. m = r \/ m \notin after
      <4>. HIDE DEF after
      <4>. QED  BY <1>5, <1>6, <2>1
    <3>. QED  BY <1>5, <3>1
  <2>3. m \notin opens
    <3>. SUFFICES ASSUME m \in opens PROVE FALSE
      OBVIOUS
    <3>1. s[m].spaces = 0 /\ s[m].key = s[start].key
      BY <1>4
    <3>2. Parent(s, m) = 0 /\ Parent(s, start) = 0
      <4>1. \A k \in Numbers(s) : s[k].spaces = 0 => Parent(s, k) = 0
        <5>1. \A k \in Numbers(s) : Parent(s, k) # 0 => Parent(s, k) \in Numbers(s) /\ s[Parent(s, k)].spaces < s[k].spaces
          BY ParentFacts
        <5>. SUFFICES ASSUME NEW k \in Numbers(s), s[k].spaces = 0, Parent(s, k) # 0 PROVE FALSE
          OBVIOUS
        <5>2. Parent(s, k) \in Numbers(s) /\ s[Parent(s, k)].spaces < 0
          BY <5>1
        <5>3. s[Parent(s, k)].spaces \in Nat
          BY <5>2, LineAt
        <5>. QED  BY <5>2, <5>3
      <4>. QED  BY <1>4, <2>1, <3>1, <4>1
    <3>3. Siblings(s, start, m) /\ s[start].form = "key" /\ start # m
      BY <1>4, <2>1, <3>2, SiblingLines, SoundLine
    <3>. QED  BY <3>1, <3>3 DEF Siblings
  <2>. QED  BY <2>1, <2>2, <2>3
<1>. HIDE DEF opens, ends, after
<1>. DEFINE T == {m \in start..r : K[m][1] # s[n].key}
<1>8. ASSUME NEW m \in T, \A k \in T : m <= k PROVE FALSE
  <2>. DEFINE p == Parent(s, m)
  <2>1. m \in start..r /\ m \in Nat /\ m \in Numbers(s) /\ K[m][1] # s[n].key
    BY <1>4, <1>6, <1>7
  <2>2. K[m] = Append(K[p], s[m].key) /\ K[p] \in Seq(Keys \cup {"-"}) /\ s[m].key \in Keys \cup {"-"}
        /\ Len(K[m]) = Depth(s[m]) + 1
    BY <2>1, KeysToFacts, SoundDepth, LineAt, LineFacts
  <2>3. m # start
    <3>. SUFFICES ASSUME m = start PROVE FALSE
      OBVIOUS
    <3>1. p = 0
      <4>1. p # 0 => p \in Numbers(s) /\ s[p].spaces < s[m].spaces
        BY <2>1, ParentFacts
      <4>2. p \in Numbers(s) => s[p].spaces \in Nat
        BY LineAt
      <4>. QED  BY <1>4, <4>1, <4>2
    <3>2. K[m][1] = s[m].key
      <4>1. K[p] = <<>>
        BY <3>1, KeysToFacts
      <4>. HIDE DEF K, p
      <4>. QED  BY <2>2, <4>1
    <3>. QED  BY <1>4, <2>1, <3>2
  <2>4. s[m].spaces # 0 /\ m \in start + 1..r
    <3>1. m \in start + 1..r
      BY <1>4, <1>6, <2>1, <2>3
    <3>. QED  BY <1>7, <3>1
  <2>5. p \in start..m - 1 /\ p # 0
    <3>1. p \in 0..m - 1 /\ \A k \in p + 1..m - 1 : s[k].spaces >= s[m].spaces
      BY <2>1, ParentFacts
    <3>2. s[m].spaces \in Nat
      BY <2>1, LineAt
    <3>3. ~(p < start)
      <4>. SUFFICES ASSUME p < start PROVE FALSE
        OBVIOUS
      <4>1. start \in p + 1..m - 1
        BY <1>4, <2>1, <2>4, <3>1
      <4>2. s[start].spaces >= s[m].spaces
        BY <3>1, <4>1
      <4>. QED  BY <1>4, <2>4, <3>2, <4>2
    <3>. HIDE DEF p
    <3>. QED  BY <1>4, <2>1, <3>1, <3>3
  <2>6. K[p][1] = s[n].key
    <3>1. p \in start..r /\ p < m /\ p \in Nat
      BY <1>4, <1>6, <2>1, <2>5
    <3>2. p \notin T
      <4>. HIDE DEF T, p
      <4>. QED  BY <1>8, <2>1, <3>1
    <3>. QED  BY <3>1, <3>2
  <2>7. K[m][1] = K[p][1]
    <3>1. Len(K[p]) >= 1 /\ Len(K[p]) \in Nat
      <4>1. p \in Numbers(s)
        BY <2>1, <2>5, ParentFacts
      <4>2. Len(K[p]) = Depth(s[p]) + 1 /\ Depth(s[p]) \in Nat
        BY <4>1, SoundDepth, LineAt
      <4>. QED  BY <4>2
    <3>2. 1 \in 1..Len(K[p])
      BY <3>1
    <3>. HIDE DEF K, p
    <3>. QED  BY <2>2, <3>2, AppendProperties
  <2>. QED  BY <2>1, <2>6, <2>7
<1>9. T = {}
  <2>1. T \subseteq Nat
    BY <1>4
  <2>. HIDE DEF T
  <2>. QED  BY <1>8, <2>1, Least
<1>10. r \in start..r
  BY <1>4, <1>6
<1>. QED  BY <1>9, <1>10

\* What doctor.sh reads is a value or a piece of one.
LEMMA DoctorLineIs == ASSUME NEW s \in Seq(Lines), NEW n \in Numbers(s), NEW field,
                             NEW l, l = DoctorLine(s, s[n].spaces, s[n].key, field),
                             NEW r, r = Doctor(s, s[n].spaces, s[n].key, field), r # 0
                      PROVE  l # 0 /\ (IF r < 0 THEN -r ELSE r) = l
<1>. DEFINE opens == {m \in Numbers(s) : s[m].spaces = s[n].spaces /\ s[m].key = s[n].key /\ s[m].tail = "none"}
            start == First(opens)
            ends  == {m \in Numbers(s) \ opens : m > start /\ s[m].spaces = s[n].spaces}
            after == {m \in Numbers(s) \ opens : m > start /\ (s[m].key = field \/ m \in ends)}
<1>1. l # 0 /\ r \in {l, -l}
  BY DEF Doctor
<1>2. l \in {0, First(after)}
  BY DEF DoctorLine
<1>3. after \subseteq Nat \ {0}
  BY LineAt
<1>4. l \in Nat \ {0}
  <2>. HIDE DEF after
  <2>. QED  BY <1>1, <1>2, <1>3, FirstFacts
<1>. QED  BY <1>1, <1>4

\* Of a lock that the validator accepts, doctor.sh reads the line that verify-m0.sh reads, the
\* same of it when the value is one plain word and a piece of it otherwise, and of a root
\* section never one of another section (lines 34 to 48 of doctor.sh).
THEOREM DoctorReadsTheLine == Spec => []DoctorAgrees
<1>1. IInv => DoctorAgrees
  <2>. DEFINE r(n, field) == Doctor(lock, lock[n].spaces, lock[n].key, field)
              v(n, field) == Locked(lock, KeysTo(lock)[n] \o <<field>>)
              at(n, field) == IF r(n, field) < 0 THEN -r(n, field) ELSE r(n, field)
              Same(n, field) == /\ v(n, field) # 0
                                /\ Alone(lock, n)
                                /\ \A m \in n + 1..v(n, field) - 1 : lock[m].key # field
              Reads(n, field) == IF lock[v(n, field)].tail = "word" THEN v(n, field) ELSE -v(n, field)
              Root(n, field) == lock[n].spaces = 0 /\ r(n, field) # 0
  <2>1. ASSUME IInv, verdict = "accepted" PROVE lock \in Seq(Lines) /\ Sound(lock)
    BY <2>1, SupportedIs DEF IInv, TypeInv, TypeOK, AcceptsTheSubset
  <2>2. ASSUME IInv, verdict = "accepted", NEW n \in Numbers(lock), NEW field \in Keys, lock[n].form = "key"
        PROVE  Same(n, field) => r(n, field) = Reads(n, field)
    <3>1. n \in KeyLines(lock)
      BY <2>2 DEF KeyLines
    <3>. QED  BY <2>1, <2>2, <3>1, DoctorFinds
  <2>3. ASSUME IInv, verdict = "accepted", NEW n \in Numbers(lock), NEW field \in Keys, lock[n].form = "key"
        PROVE  Root(n, field) => KeysTo(lock)[at(n, field)][1] = lock[n].key
    <3>. DEFINE l == DoctorLine(lock, lock[n].spaces, lock[n].key, field)
    <3>. HAVE Root(n, field)
    <3>1. n \in KeyLines(lock)
      BY <2>3 DEF KeyLines
    <3>2. l # 0 /\ at(n, field) = l
      BY <2>1, <2>3, DoctorLineIs
    <3>3. KeysTo(lock)[l][1] = lock[n].key
      BY <2>1, <2>3, <3>1, <3>2, DoctorStays
    <3>. QED  BY <3>2, <3>3
  <2>4. ASSUME IInv, verdict = "accepted", NEW n \in Numbers(lock), NEW field \in Keys
        PROVE  lock[n].form = "key" => /\ Same(n, field) => r(n, field) = Reads(n, field)
                                       /\ Root(n, field) => KeysTo(lock)[at(n, field)][1] = lock[n].key
    <3>. HIDE DEF Same, Root, Reads, at, r, v
    <3>. QED  BY <2>2, <2>3, <2>4
  <2>. QED  BY <2>4, Zenon DEF DoctorAgrees
<1>. QED  BY <1>1, Inductive, PTL

=============================================================================
