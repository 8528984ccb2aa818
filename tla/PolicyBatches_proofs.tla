------------------------- MODULE PolicyBatches_proofs -------------------------
(***************************************************************************)
(* How rows are cut into microbatches, for every list of lengths, every    *)
(* budget, number of shards and configuration: whatever is not refused is  *)
(* cut into equally many microbatches per shard, none of them empty or     *)
(* above the budget, with every row in exactly one of them.                *)
(*                                                                         *)
(* The argument.  Each packer is a fold.  What it has made so far packs    *)
(* the rows gone through (Packs), and one more row, bin or turn keeps      *)
(* that; the phases of modified first fit decreasing pass the rows on from *)
(* one to the next, so what one has in bins and what it still has on its   *)
(* list are disjoint and make up what it was given (Taken).  A bin is      *)
(* split while it has more than one row, and there is one to split because *)
(* there are fewer bins than rows.  Dealing the bins out, cutting a chunk  *)
(* into equal microbatches and cutting shards at the same positions then   *)
(* gives each shard as many.                                               *)
(***************************************************************************)
EXTENDS PolicyBatches, Counting

-----------------------------------------------------------------------------
(* Lists and bins. *)

\* A list without repetition of the elements of S.
Lists(list, S) ==
    /\ list \in Seq(S)
    /\ \A k, l \in 1..Len(list) : list[k] = list[l] => k = l
    /\ \A i \in S : \E k \in 1..Len(list) : list[k] = i

\* Nonempty bins that hold each element of S once.
Holds(bins, S) ==
    /\ bins \in Seq(Seq(S))
    /\ \A b \in 1..Len(bins) : Len(bins[b]) > 0
    /\ \A b, c \in 1..Len(bins) : \A k \in 1..Len(bins[b]) : \A l \in 1..Len(bins[c]) :
           bins[b][k] = bins[c][l] => b = c /\ k = l
    /\ \A i \in S : \E b \in 1..Len(bins) : \E k \in 1..Len(bins[b]) : bins[b][k] = i

\* What a sequence is of, element by element.
LEMMA IsSeqOf ==
    ASSUME NEW T, NEW S, NEW s \in Seq(T), \A k \in 1..Len(s) : s[k] \in S
    PROVE  s \in Seq(S)
OBVIOUS

\* A function on 1..n is a sequence.
LEMMA FunctionIsSeq ==
    ASSUME NEW S, NEW n \in Nat, NEW s \in [1..n -> S]
    PROVE  s \in Seq(S) /\ Len(s) = n
OBVIOUS

\* A sequence with another element.
LEMMA Extended ==
    ASSUME NEW T, NEW s \in Seq(T), NEW x, NEW U, T \subseteq U, x \in U
    PROVE  /\ Append(s, x) \in Seq(U) /\ Len(s) \in Nat /\ Len(Append(s, x)) = Len(s) + 1
           /\ \A k \in 1..Len(s) : Append(s, x)[k] = s[k]
           /\ Append(s, x)[Len(s) + 1] = x
<1>1. s \in Seq(U)
  BY IsSeqOf
<1> QED BY <1>1

\* A sequence without one of its elements.
LEMMA Without ==
    ASSUME NEW T, NEW s \in Seq(T), NEW p \in 1..Len(s)
    PROVE  /\ RemoveAt(s, p) \in Seq(T) /\ Len(RemoveAt(s, p)) = Len(s) - 1
           /\ \A k \in 1..(Len(s) - 1) :
                  RemoveAt(s, p)[k] = IF k < p THEN s[k] ELSE s[k + 1]
<1> DEFINE a == SubSeq(s, 1, p - 1)
           c == SubSeq(s, p + 1, Len(s))
           n == Len(s)
<1>1. n \in Nat /\ p \in 1..n /\ \A k \in 1..n : s[k] \in T
  OBVIOUS
<1>2. a \in Seq(T) /\ Len(a) = p - 1 /\ \A k \in 1..(p - 1) : a[k] = s[k]
  OBVIOUS
<1>3. c \in Seq(T) /\ Len(c) = n - p /\ \A k \in 1..(n - p) : c[k] = s[p + k]
  OBVIOUS
<1> HIDE DEF a, c, n
<1>4. /\ a \o c \in Seq(T) /\ Len(a \o c) = n - 1
      /\ \A k \in 1..(p - 1) : (a \o c)[k] = s[k]
      /\ \A k \in 1..(n - p) : (a \o c)[(p - 1) + k] = s[p + k]
  <2>1. /\ a \o c \in Seq(T) /\ Len(a \o c) = Len(a) + Len(c)
        /\ \A k \in 1..Len(a) : (a \o c)[k] = a[k]
        /\ \A k \in 1..Len(c) : (a \o c)[Len(a) + k] = c[k]
    <3>1. a \in Seq(T) /\ c \in Seq(T)
      BY <1>2, <1>3
    <3>2. a \o c \in Seq(T) /\ Len(a \o c) = Len(a) + Len(c)
      BY ONLY <3>1
    <3>3. \A k \in 1..Len(a) : (a \o c)[k] = a[k]
      BY ONLY <3>1
    <3>4. \A k \in 1..Len(c) : (a \o c)[Len(a) + k] = c[k]
      BY ONLY <3>1
    <3> QED BY <3>2, <3>3, <3>4
  <2>2. Len(a) + Len(c) = n - 1
    BY <1>1, <1>2, <1>3
  <2> DEFINE ac == a \o c
  <2> HIDE DEF ac
  <2> QED BY ONLY <1>2, <1>3, <2>1, <2>2 DEF ac
<1> DEFINE ac == a \o c
<1> HIDE DEF ac
<1>5. ASSUME NEW k \in 1..(n - 1) PROVE ac[k] = IF k < p THEN s[k] ELSE s[k + 1]
  <2>0. /\ \A j \in 1..(p - 1) : ac[j] = s[j]
        /\ \A j \in 1..(n - p) : ac[(p - 1) + j] = s[p + j]
    BY <1>4 DEF ac
  <2>1. CASE k < p
    <3>1. k \in 1..(p - 1)
      BY <1>1, <2>1
    <3>2. ac[k] = s[k]
      BY ONLY <2>0, <3>1
    <3> QED BY <2>1, <3>2
  <2>2. CASE k >= p
    <3>1. k - (p - 1) \in 1..(n - p) /\ (p - 1) + (k - (p - 1)) = k /\ p + (k - (p - 1)) = k + 1
      BY <1>1, <2>2
    <3> QED BY <1>1, <2>0, <2>2, <3>1
  <2> QED BY <1>1, <2>1, <2>2
<1>6. RemoveAt(s, p) = a \o c
  BY DEF RemoveAt, a, c, n
<1> QED BY <1>4, <1>5, <1>6 DEF n, ac

\* Taking an element out of a list.
LEMMA TakenOut ==
    ASSUME NEW S, NEW list, Lists(list, S), NEW p \in 1..Len(list)
    PROVE  list[p] \in S /\ Lists(RemoveAt(list, p), S \ {list[p]})
<1> USE DEF Lists
<1> DEFINE r == RemoveAt(list, p)
           n == Len(list)
<1>1. n \in Nat /\ p \in 1..n /\ \A k \in 1..n : list[k] \in S
  OBVIOUS
<1>2. r \in Seq(S) /\ Len(r) = n - 1
      /\ \A k \in 1..(n - 1) : r[k] = IF k < p THEN list[k] ELSE list[k + 1]
  <2>1. list \in Seq(S) /\ p \in 1..Len(list)
    OBVIOUS
  <2>2. /\ RemoveAt(list, p) \in Seq(S) /\ Len(RemoveAt(list, p)) = Len(list) - 1
        /\ \A k \in 1..(Len(list) - 1) :
               RemoveAt(list, p)[k] = IF k < p THEN list[k] ELSE list[k + 1]
    BY ONLY <2>1, Without
  <2> QED BY ONLY <2>2
<1>3. \A k, l \in 1..n : list[k] = list[l] => k = l
  OBVIOUS
<1>4. \A i \in S : \E k \in 1..n : list[k] = i
  OBVIOUS
<1> HIDE DEF r, n, Lists
<1>5. \A k, l \in 1..(n - 1) : r[k] = r[l] => k = l
  <2> SUFFICES ASSUME NEW k \in 1..(n - 1), NEW l \in 1..(n - 1), r[k] = r[l] PROVE k = l
    OBVIOUS
  <2>1. k \in 1..n /\ l \in 1..n /\ k + 1 \in 1..n /\ l + 1 \in 1..n
    BY <1>1
  <2> QED BY <1>1, <1>2, <1>3, <2>1
<1>6. \A k \in 1..(n - 1) : r[k] \in S \ {list[p]}
  <2> SUFFICES ASSUME NEW k \in 1..(n - 1) PROVE r[k] \in S /\ r[k] # list[p]
    OBVIOUS
  <2>1. k \in 1..n /\ k + 1 \in 1..n
    BY <1>1
  <2> QED BY <1>1, <1>2, <1>3, <2>1
<1>7. \A i \in S \ {list[p]} : \E k \in 1..(n - 1) : r[k] = i
  <2> SUFFICES ASSUME NEW i \in S, i # list[p] PROVE \E k \in 1..(n - 1) : r[k] = i
    OBVIOUS
  <2>1. PICK k \in 1..n : list[k] = i
    BY <1>4
  <2>2. CASE k < p
    BY <1>1, <1>2, <2>1, <2>2
  <2>3. CASE k > p
    <3>1. k - 1 \in 1..(n - 1) /\ ~(k - 1 < p) /\ (k - 1) + 1 = k
      BY <1>1, <2>3
    <3> QED BY <1>2, <2>1, <3>1
  <2> QED BY <1>1, <2>1, <2>2, <2>3
<1>8. r \in Seq(S \ {list[p]})
  BY <1>2, <1>6, IsSeqOf
<1> QED BY <1>1, <1>2, <1>5, <1>7, <1>8 DEF Lists, r

\* A list gets another element.
LEMMA ListGrows ==
    ASSUME NEW S, NEW list, Lists(list, S), NEW i, i \notin S
    PROVE  Lists(Append(list, i), S \cup {i})
<1> DEFINE new == Append(list, i)
           n == Len(list)
<1>1. list \in Seq(S) /\ n \in Nat /\ \A k \in 1..n : list[k] \in S
  BY DEF Lists
<1>2. new \in Seq(S \cup {i}) /\ Len(new) = n + 1 /\ (\A k \in 1..n : new[k] = list[k]) /\ new[n + 1] = i
  BY <1>1, Extended
<1> HIDE DEF new, n
<1>3. \A k, l \in 1..n : list[k] = list[l] => k = l
  BY DEF Lists, n
<1>4. \A k, l \in 1..(n + 1) : new[k] = new[l] => k = l
  <2> SUFFICES ASSUME NEW k \in 1..(n + 1), NEW l \in 1..(n + 1), new[k] = new[l] PROVE k = l
    OBVIOUS
  <2>1. (k = n + 1 \/ k \in 1..n) /\ (l = n + 1 \/ l \in 1..n)
    BY <1>1
  <2> QED BY <1>1, <1>2, <1>3, <2>1
<1>5. \A j \in S : \E k \in 1..n : list[k] = j
  BY DEF Lists, n
<1>6. 1..n \subseteq 1..(n + 1) /\ n + 1 \in 1..(n + 1)
  BY <1>1
<1>7. \A j \in S \cup {i} : \E k \in 1..(n + 1) : new[k] = j
  BY <1>2, <1>5, <1>6
<1> QED BY <1>2, <1>4, <1>7 DEF Lists, new

\* A list of one.
LEMMA OneElement == ASSUME NEW i PROVE Lists(<<i>>, {i})
  BY DEF Lists

\* Nothing is listed by the empty sequence, and held by no bin.
LEMMA NoElements == Lists(<< >>, {}) /\ Holds(<< >>, {})
<1>1. \A k \in 1..Len(<< >>) : FALSE
  OBVIOUS
<1>2. << >> \in Seq({}) /\ << >> \in Seq(Seq({}))
  OBVIOUS
<1> QED BY <1>1, <1>2 DEF Lists, Holds

\* The types of bins.
LEMMA BinsTyped ==
    ASSUME NEW S, NEW bins, bins \in Seq(Seq(S))
    PROVE  /\ Len(bins) \in Nat /\ DOMAIN bins = 1..Len(bins)
           /\ \A b \in 1..Len(bins) : bins[b] \in Seq(S) /\ Len(bins[b]) \in Nat
           /\ \A b \in 1..Len(bins) : \A k \in 1..Len(bins[b]) : bins[b][k] \in S
<1>1. Len(bins) \in Nat /\ DOMAIN bins = 1..Len(bins) /\ \A b \in 1..Len(bins) : bins[b] \in Seq(S)
  OBVIOUS
<1>2. ASSUME NEW b \in 1..Len(bins)
      PROVE  /\ bins[b] \in Seq(S) /\ Len(bins[b]) \in Nat
             /\ \A k \in 1..Len(bins[b]) : bins[b][k] \in S
  <2> DEFINE bin == bins[b]
  <2>1. bin \in Seq(S)
    BY <1>1
  <2> HIDE DEF bin
  <2>2. Len(bin) \in Nat /\ \A k \in 1..Len(bin) : bin[k] \in S
    BY <2>1
  <2> QED BY <2>1, <2>2 DEF bin
<1> QED BY <1>1, <1>2

\* Another bin, with other elements.
LEMMA BinAdded ==
    ASSUME NEW S, NEW bins, Holds(bins, S), NEW T, NEW bin, Lists(bin, T), Len(bin) > 0,
           S \cap T = {}
    PROVE  Holds(Append(bins, bin), S \cup T)
<1> DEFINE new == Append(bins, bin)
           n == Len(bins)
           U == S \cup T
<1>1. /\ n \in Nat
      /\ \A b \in 1..n : bins[b] \in Seq(S) /\ Len(bins[b]) \in Nat
      /\ \A b \in 1..n : \A k \in 1..Len(bins[b]) : bins[b][k] \in S
  BY BinsTyped DEF Holds
<1>p. \A b \in 1..n : Len(bins[b]) > 0
  BY DEF Holds
<1>i. \A b, c \in 1..n : \A k \in 1..Len(bins[b]) : \A l \in 1..Len(bins[c]) :
          bins[b][k] = bins[c][l] => b = c /\ k = l
  BY DEF Holds
<1>c. \A i \in S : \E b \in 1..n : \E k \in 1..Len(bins[b]) : bins[b][k] = i
  BY DEF Holds
<1>2. /\ bin \in Seq(T) /\ Len(bin) \in Nat /\ \A k \in 1..Len(bin) : bin[k] \in T
      /\ \A k, l \in 1..Len(bin) : bin[k] = bin[l] => k = l
      /\ \A i \in T : \E k \in 1..Len(bin) : bin[k] = i
  BY DEF Lists
<1>3. /\ bin \in Seq(U) /\ \A b \in 1..n : bins[b] \in Seq(U)
  <2>1. \A s : s \in Seq(S) \/ s \in Seq(T) => s \in Seq(U)
    BY IsSeqOf
  <2> QED BY <1>1, <1>2, <2>1
<1>4. bins \in Seq(Seq(U))
  <2>1. bins \in Seq(Seq(S))
    BY DEF Holds
  <2> QED BY <1>3, <2>1, IsSeqOf
<1>5. /\ new \in Seq(Seq(U)) /\ Len(new) = n + 1
      /\ (\A b \in 1..n : new[b] = bins[b]) /\ new[n + 1] = bin
  BY <1>3, <1>4, Extended
<1> HIDE DEF new, n
<1>6. \A b \in 1..(n + 1) : b = n + 1 \/ b \in 1..n
  BY <1>1
<1>7. 1..n \subseteq 1..(n + 1) /\ n + 1 \in 1..(n + 1)
  BY <1>1
<1>8. \A b \in 1..(n + 1) : Len(new[b]) > 0
  BY <1>p, <1>5, <1>6
<1>9. \A b, c \in 1..(n + 1) : \A k \in 1..Len(new[b]) : \A l \in 1..Len(new[c]) :
          new[b][k] = new[c][l] => b = c /\ k = l
  <2> SUFFICES ASSUME NEW b \in 1..(n + 1), NEW c \in 1..(n + 1),
                      NEW k \in 1..Len(new[b]), NEW l \in 1..Len(new[c]), new[b][k] = new[c][l]
               PROVE  b = c /\ k = l
    OBVIOUS
  <2>1. CASE b \in 1..n /\ c \in 1..n
    <3>1. new[b] = bins[b] /\ new[c] = bins[c]
      BY <1>5, <2>1
    <3>2. k \in 1..Len(bins[b]) /\ l \in 1..Len(bins[c]) /\ bins[b][k] = bins[c][l]
      BY <3>1
    <3> QED BY ONLY <1>i, <2>1, <3>2, Zenon
  <2>2. CASE b = n + 1 /\ c = n + 1
    BY <1>2, <1>5, <2>2
  <2>3. CASE b \in 1..n /\ c = n + 1
    <3>1. new[b][k] \in S /\ new[c][l] \in T
      BY <1>1, <1>2, <1>5, <2>3
    <3> QED BY <3>1
  <2>4. CASE b = n + 1 /\ c \in 1..n
    <3>1. new[b][k] \in T /\ new[c][l] \in S
      BY <1>1, <1>2, <1>5, <2>4
    <3> QED BY <3>1
  <2> QED BY <1>6, <2>1, <2>2, <2>3, <2>4
<1>10. \A i \in U : \E b \in 1..(n + 1) : \E k \in 1..Len(new[b]) : new[b][k] = i
  <2> SUFFICES ASSUME NEW i \in U PROVE \E b \in 1..(n + 1) : \E k \in 1..Len(new[b]) : new[b][k] = i
    OBVIOUS
  <2>1. CASE i \in S
    <3>1. PICK b \in 1..n : \E k \in 1..Len(bins[b]) : bins[b][k] = i
      BY <1>c, <2>1
    <3> QED BY <1>5, <1>7, <3>1
  <2>2. CASE i \in T
    BY <1>2, <1>5, <1>7, <2>2
  <2> QED BY <2>1, <2>2
<1> HIDE DEF U
<1>11. Holds(new, U)
  BY <1>5, <1>8, <1>9, <1>10 DEF Holds
<1> QED BY <1>11 DEF new, U

\* The same bins in another order.
LEMMA Rearranged ==
    ASSUME NEW S, NEW old, Holds(old, S), NEW n \in Nat, NEW new, DOMAIN new = 1..n,
           new \in Seq(Seq(S)), NEW f \in [1..n -> 1..Len(old)],
           \A b, c \in 1..n : f[b] = f[c] => b = c,
           \A b \in 1..Len(old) : \E c \in 1..n : f[c] = b,
           \A b \in 1..n : new[b] = old[f[b]]
    PROVE  Holds(new, S)
<1> DEFINE m == Len(old)
<1>1. m \in Nat
  BY BinsTyped DEF Holds
<1>p. \A b \in 1..m : Len(old[b]) > 0
  BY DEF Holds
<1>i. \A b, c \in 1..m : \A k \in 1..Len(old[b]) : \A l \in 1..Len(old[c]) :
          old[b][k] = old[c][l] => b = c /\ k = l
  BY DEF Holds
<1>c. \A i \in S : \E b \in 1..m : \E k \in 1..Len(old[b]) : old[b][k] = i
  BY DEF Holds
<1>2. Len(new) = n
  OBVIOUS
<1>3. f \in [1..n -> 1..m] /\ \A b \in 1..m : \E c \in 1..n : f[c] = b
  OBVIOUS
<1> HIDE DEF m
<1>4. \A b \in 1..n : Len(new[b]) > 0
  BY <1>p, <1>3
<1>5. \A b, c \in 1..n : \A k \in 1..Len(new[b]) : \A l \in 1..Len(new[c]) :
          new[b][k] = new[c][l] => b = c /\ k = l
  <2> SUFFICES ASSUME NEW b \in 1..n, NEW c \in 1..n,
                      NEW k \in 1..Len(new[b]), NEW l \in 1..Len(new[c]), new[b][k] = new[c][l]
               PROVE  b = c /\ k = l
    OBVIOUS
  <2>1. f[b] \in 1..m /\ f[c] \in 1..m /\ new[b] = old[f[b]] /\ new[c] = old[f[c]]
    BY <1>3
  <2> DEFINE x == f[b]
             y == f[c]
  <2> HIDE DEF x, y
  <2>2. /\ x \in 1..m /\ y \in 1..m /\ k \in 1..Len(old[x]) /\ l \in 1..Len(old[y])
        /\ old[x][k] = old[y][l]
    BY <2>1 DEF x, y
  <2>3. x = y /\ k = l
    BY ONLY <1>i, <2>2, ZenonT(30)
  <2> QED BY <2>3 DEF x, y
<1>6. \A i \in S : \E b \in 1..n : \E k \in 1..Len(new[b]) : new[b][k] = i
  <2> SUFFICES ASSUME NEW i \in S PROVE \E b \in 1..n : \E k \in 1..Len(new[b]) : new[b][k] = i
    OBVIOUS
  <2>1. PICK b \in 1..m : \E k \in 1..Len(old[b]) : old[b][k] = i
    BY <1>c
  <2>2. PICK c \in 1..n : f[c] = b
    BY <1>3
  <2>3. new[c] = old[b]
    BY <2>2
  <2> QED BY <2>1, <2>3
<1> QED BY <1>2, <1>4, <1>5, <1>6 DEF Holds

\* Bin b has become another; together they hold U.
Grown(new, bins, b, bin, U) ==
    /\ Holds(new, U) /\ Len(new) = Len(bins)
    /\ \A c \in 1..Len(bins) : new[c] = IF c = b THEN bin ELSE bins[c]

\* A bin gets another element.
LEMMA RowAdded ==
    ASSUME NEW S, NEW bins, Holds(bins, S), NEW b \in 1..Len(bins), NEW i, i \notin S
    PROVE  Grown(ReplaceAt(bins, b, Append(bins[b], i)), bins, b, Append(bins[b], i), S \cup {i})
<1> DEFINE bin == Append(bins[b], i)
           new == ReplaceAt(bins, b, bin)
           n == Len(bins)
           m == Len(bins[b])
           U == S \cup {i}
<1>1. /\ n \in Nat /\ DOMAIN bins = 1..n
      /\ \A c \in 1..n : bins[c] \in Seq(S) /\ Len(bins[c]) \in Nat
      /\ \A c \in 1..n : \A k \in 1..Len(bins[c]) : bins[c][k] \in S
  BY BinsTyped DEF Holds
<1>p. \A c \in 1..n : Len(bins[c]) > 0
  BY DEF Holds
<1>i. \A c, d \in 1..n : \A k \in 1..Len(bins[c]) : \A l \in 1..Len(bins[d]) :
          bins[c][k] = bins[d][l] => c = d /\ k = l
  BY DEF Holds
<1>c. \A j \in S : \E c \in 1..n : \E k \in 1..Len(bins[c]) : bins[c][k] = j
  BY DEF Holds
<1>2. /\ bin \in Seq(U) /\ m \in Nat /\ Len(bin) = m + 1
      /\ (\A k \in 1..m : bin[k] = bins[b][k]) /\ bin[m + 1] = i
  <2>1. bins[b] \in Seq(S)
    BY <1>1
  <2> HIDE DEF U
  <2>2. S \subseteq U /\ i \in U
    BY DEF U
  <2> QED BY <2>1, <2>2, Extended
<1>3. \A c \in 1..n : bins[c] \in Seq(U)
  BY <1>1, IsSeqOf
<1>4. /\ DOMAIN new = 1..n
      /\ \A c \in 1..n : new[c] = IF c = b THEN bin ELSE bins[c]
  BY <1>1 DEF ReplaceAt
<1> HIDE DEF new, n, m, U, bin
<1>5. new \in Seq(Seq(U)) /\ Len(new) = n
  <2>1. new \in [1..n -> Seq(U)]
    <3>1. new = [c \in 1..n |-> new[c]]
      BY <1>1, <1>4 DEF new, ReplaceAt
    <3>2. \A c \in 1..n : new[c] \in Seq(U)
      BY <1>2, <1>3, <1>4
    <3> QED BY <3>1, <3>2
  <2> QED BY <1>1, <2>1, FunctionIsSeq
<1>6. \A c \in 1..n : Len(new[c]) > 0
  <2>1. m + 1 > 0
    BY <1>2
  <2> QED BY <1>p, <1>2, <1>4, <2>1
<1>7. m = Len(bins[b]) /\ b \in 1..n
  BY DEF m, n
\* An element of a new bin is i at the end of bin b, or where it was before.
<1>8. ASSUME NEW c \in 1..n, NEW k \in 1..Len(new[c])
      PROVE  \/ c = b /\ k = m + 1 /\ new[c][k] = i
             \/ k \in 1..Len(bins[c]) /\ new[c][k] = bins[c][k] /\ new[c][k] \in S
  <2>1. CASE c # b
    BY <1>1, <1>4, <2>1
  <2>2. CASE c = b
    <3>1. new[c] = bin /\ (k = m + 1 \/ k \in 1..m)
      BY <1>2, <1>4, <2>2
    <3> QED BY <1>1, <1>2, <1>7, <2>2, <3>1
  <2> QED BY <2>1, <2>2
<1>9. \A c, d \in 1..n : \A k \in 1..Len(new[c]) : \A l \in 1..Len(new[d]) :
          new[c][k] = new[d][l] => c = d /\ k = l
  <2> SUFFICES ASSUME NEW c \in 1..n, NEW d \in 1..n,
                      NEW k \in 1..Len(new[c]), NEW l \in 1..Len(new[d]), new[c][k] = new[d][l]
               PROVE  c = d /\ k = l
    OBVIOUS
  <2>1. \/ c = b /\ k = m + 1 /\ new[c][k] = i
        \/ k \in 1..Len(bins[c]) /\ new[c][k] = bins[c][k] /\ new[c][k] \in S
    BY <1>8
  <2>2. \/ d = b /\ l = m + 1 /\ new[d][l] = i
        \/ l \in 1..Len(bins[d]) /\ new[d][l] = bins[d][l] /\ new[d][l] \in S
    BY <1>8
  <2>3. CASE k \in 1..Len(bins[c]) /\ new[c][k] = bins[c][k]
             /\ l \in 1..Len(bins[d]) /\ new[d][l] = bins[d][l]
    <3>1. bins[c][k] = bins[d][l]
      BY <2>3
    <3> QED BY ONLY <1>i, <2>3, <3>1, Zenon
  <2>4. CASE k \in 1..Len(bins[c]) /\ new[c][k] \in S /\ d = b /\ new[d][l] = i
    BY <2>4
  <2>5. CASE l \in 1..Len(bins[d]) /\ new[d][l] \in S /\ c = b /\ new[c][k] = i
    BY <2>5
  <2> QED BY <2>1, <2>2, <2>3, <2>4, <2>5
<1>10. \A j \in U : \E c \in 1..n : \E k \in 1..Len(new[c]) : new[c][k] = j
  <2> SUFFICES ASSUME NEW j \in U PROVE \E c \in 1..n : \E k \in 1..Len(new[c]) : new[c][k] = j
    OBVIOUS
  <2>1. CASE j = i
    <3>1. m + 1 \in 1..Len(new[b]) /\ new[b][m + 1] = i
      BY <1>2, <1>4, <1>7
    <3> QED BY <1>7, <2>1, <3>1
  <2>2. CASE j \in S
    <3>1. PICK c \in 1..n : \E k \in 1..Len(bins[c]) : bins[c][k] = j
      BY <1>c, <2>2
    <3>2. PICK k \in 1..Len(bins[c]) : bins[c][k] = j
      BY <3>1
    <3>3. k \in 1..Len(new[c]) /\ new[c][k] = j
      BY <1>2, <1>4, <1>7, <3>2
    <3> QED BY <3>3
  <2> QED BY <2>1, <2>2 DEF U
<1>11. Holds(new, U)
  BY <1>5, <1>6, <1>9, <1>10 DEF Holds
<1> QED BY <1>4, <1>5, <1>11 DEF new, U, n, bin, Grown

\* Two sequences of bins, with different elements.
LEMMA TwoHalves ==
    ASSUME NEW S, NEW x, Holds(x, S), NEW T, NEW y, Holds(y, T), S \cap T = {}
    PROVE  Holds(x \o y, S \cup T)
<1> DEFINE new == x \o y
           n == Len(x)
           m == Len(y)
           U == S \cup T
<1>1. /\ n \in Nat /\ (\A b \in 1..n : x[b] \in Seq(S))
      /\ \A b \in 1..n : \A k \in 1..Len(x[b]) : x[b][k] \in S
  BY BinsTyped DEF Holds
<1>2. /\ m \in Nat /\ (\A b \in 1..m : y[b] \in Seq(T))
      /\ \A b \in 1..m : \A k \in 1..Len(y[b]) : y[b][k] \in T
  BY BinsTyped DEF Holds
<1>3. /\ \A b \in 1..n : Len(x[b]) > 0
      /\ \A b \in 1..m : Len(y[b]) > 0
  BY DEF Holds
<1>4. \A b, c \in 1..n : \A k \in 1..Len(x[b]) : \A l \in 1..Len(x[c]) :
          x[b][k] = x[c][l] => b = c /\ k = l
  BY DEF Holds
<1>5. \A b, c \in 1..m : \A k \in 1..Len(y[b]) : \A l \in 1..Len(y[c]) :
          y[b][k] = y[c][l] => b = c /\ k = l
  BY DEF Holds
<1>6. /\ \A i \in S : \E b \in 1..n : \E k \in 1..Len(x[b]) : x[b][k] = i
      /\ \A i \in T : \E b \in 1..m : \E k \in 1..Len(y[b]) : y[b][k] = i
  BY DEF Holds
<1>7. x \in Seq(Seq(U)) /\ y \in Seq(Seq(U))
  <2>1. \A s : s \in Seq(S) \/ s \in Seq(T) => s \in Seq(U)
    BY IsSeqOf
  <2>2. x \in Seq(Seq(S)) /\ y \in Seq(Seq(T))
    BY DEF Holds
  <2> QED BY <1>1, <1>2, <2>1, <2>2, IsSeqOf
<1>8. /\ new \in Seq(Seq(U)) /\ Len(new) = n + m
      /\ (\A b \in 1..n : new[b] = x[b]) /\ \A b \in 1..m : new[n + b] = y[b]
  BY ONLY <1>7, Joined
<1> HIDE DEF new, n, m, U
<1>9. \A b \in 1..(n + m) : b \in 1..n \/ \E c \in 1..m : b = n + c
  <2> SUFFICES ASSUME NEW b \in 1..(n + m), b \notin 1..n PROVE b - n \in 1..m /\ b = n + (b - n)
    OBVIOUS
  <2> QED BY <1>1, <1>2
<1>10. 1..n \subseteq 1..(n + m) /\ \A c \in 1..m : n + c \in 1..(n + m)
  BY <1>1, <1>2
<1>11. \A b \in 1..(n + m) : Len(new[b]) > 0
  BY <1>3, <1>8, <1>9
<1>12. \A b, c \in 1..(n + m) : \A k \in 1..Len(new[b]) : \A l \in 1..Len(new[c]) :
          new[b][k] = new[c][l] => b = c /\ k = l
  <2> SUFFICES ASSUME NEW b \in 1..(n + m), NEW c \in 1..(n + m),
                      NEW k \in 1..Len(new[b]), NEW l \in 1..Len(new[c]), new[b][k] = new[c][l]
               PROVE  b = c /\ k = l
    OBVIOUS
  <2>1. CASE b \in 1..n /\ c \in 1..n
    <3>1. /\ k \in 1..Len(x[b]) /\ l \in 1..Len(x[c]) /\ x[b][k] = x[c][l]
      BY <1>8, <2>1
    <3> QED BY ONLY <1>4, <2>1, <3>1, Zenon
  <2>2. ASSUME NEW d \in 1..m, b = n + d, NEW e \in 1..m, c = n + e
        PROVE  b = c /\ k = l
    <3>1. new[b] = y[d] /\ new[c] = y[e]
      BY <1>8, <2>2
    <3>2. /\ k \in 1..Len(y[d]) /\ l \in 1..Len(y[e]) /\ y[d][k] = y[e][l]
      BY <3>1
    <3>3. d = e /\ k = l
      BY ONLY <1>5, <3>2, d \in 1..m, e \in 1..m, Zenon
    <3> QED BY <2>2, <3>3
  <2>3. ASSUME b \in 1..n, NEW e \in 1..m, c = n + e PROVE FALSE
    <3>1. new[b][k] \in S /\ new[c][l] \in T
      BY <1>1, <1>2, <1>8, <2>3
    <3> QED BY <3>1
  <2>4. ASSUME c \in 1..n, NEW d \in 1..m, b = n + d PROVE FALSE
    <3>1. new[c][l] \in S /\ new[b][k] \in T
      BY <1>1, <1>2, <1>8, <2>4
    <3> QED BY <3>1
  <2> QED BY <1>9, <2>1, <2>2, <2>3, <2>4
<1>13. \A i \in U : \E b \in 1..(n + m) : \E k \in 1..Len(new[b]) : new[b][k] = i
  <2> SUFFICES ASSUME NEW i \in U PROVE \E b \in 1..(n + m) : \E k \in 1..Len(new[b]) : new[b][k] = i
    OBVIOUS
  <2>1. CASE i \in S
    <3>1. PICK b \in 1..n : \E k \in 1..Len(x[b]) : x[b][k] = i
      BY <1>6, <2>1
    <3> QED BY <1>8, <1>10, <3>1
  <2>2. CASE i \in T
    <3>1. PICK b \in 1..m : \E k \in 1..Len(y[b]) : y[b][k] = i
      BY <1>6, <2>2
    <3>2. n + b \in 1..(n + m) /\ new[n + b] = y[b]
      BY <1>8, <1>10
    <3> QED BY <3>1, <3>2
  <2> QED BY <2>1, <2>2 DEF U
<1>14. Holds(new, U)
  BY <1>8, <1>11, <1>12, <1>13 DEF Holds
<1> QED BY <1>14 DEF new, U

\* A bin of its own for a list.
LEMMA OneBin ==
    ASSUME NEW T, NEW bin, Lists(bin, T), Len(bin) > 0
    PROVE  Holds(<<bin>>, T)
<1>1. bin \in Seq(T)
  BY DEF Lists
<1>2. <<bin>> \in Seq(Seq(T)) /\ Len(<<bin>>) = 1 /\ <<bin>>[1] = bin
  BY <1>1
<1> DEFINE bins == <<bin>>
<1> HIDE DEF bins
<1>3. bins \in Seq(Seq(T)) /\ Len(bins) = 1 /\ bins[1] = bin /\ \A b \in 1..1 : b = 1
  BY <1>2 DEF bins
<1>4. Holds(bins, T)
  BY <1>3 DEF Holds, Lists
<1> QED BY <1>4 DEF bins

\* A bin put in front of others holds its rows, and they theirs.
LEMMA BinConsed ==
    ASSUME NEW S, NEW bins, Holds(bins, S), NEW T, NEW bin, Lists(bin, T), Len(bin) > 0,
           S \cap T = {}
    PROVE  Holds(Cons(bin, bins), S \cup T)
<1>1. Holds(<<bin>>, T) /\ T \cap S = {} /\ T \cup S = S \cup T
  BY OneBin
<1> QED BY <1>1, TwoHalves DEF Cons

\* The last element of bin b has a bin of its own; together the bins hold S.
SplitOff(new, bins, b, S) ==
    /\ Holds(new, S) /\ Len(new) = Len(bins) + 1
    /\ new[Len(bins) + 1] = <<Last(bins[b])>>
    /\ \A c \in 1..Len(bins) : new[c] = IF c = b THEN Front(bins[b]) ELSE bins[c]

\* The last element of a bin with several moves to a bin of its own.
LEMMA RowMoved ==
    ASSUME NEW S, NEW bins, Holds(bins, S), NEW b \in 1..Len(bins), Len(bins[b]) > 1,
           NEW new, new = Append(ReplaceAt(bins, b, Front(bins[b])), <<Last(bins[b])>>)
    PROVE  SplitOff(new, bins, b, S)
<1> DEFINE n == Len(bins)
           bin == bins[b]
           m == Len(bin)
           front == Front(bin)
           i == Last(bin)
           less == ReplaceAt(bins, b, front)
<1>1. /\ n \in Nat /\ DOMAIN bins = 1..n
      /\ \A c \in 1..n : bins[c] \in Seq(S) /\ Len(bins[c]) \in Nat
      /\ \A c \in 1..n : \A k \in 1..Len(bins[c]) : bins[c][k] \in S
  BY BinsTyped DEF Holds
<1>p. \A c \in 1..n : Len(bins[c]) > 0
  BY DEF Holds
<1>i. \A c, d \in 1..n : \A k \in 1..Len(bins[c]) : \A l \in 1..Len(bins[d]) :
          bins[c][k] = bins[d][l] => c = d /\ k = l
  BY DEF Holds
<1>c. \A j \in S : \E c \in 1..n : \E k \in 1..Len(bins[c]) : bins[c][k] = j
  BY DEF Holds
<1>b. b \in 1..n /\ bin = bins[b] /\ m > 1 /\ bin \in Seq(S) /\ m \in Nat /\ m \in 1..m
  BY <1>1
<1>2. /\ front \in Seq(S) /\ Len(front) = m - 1 /\ \A k \in 1..(m - 1) : front[k] = bin[k]
  <2> HIDE DEF bin
  <2>1. bin \in Seq(S) /\ m = Len(bin) /\ m \in Nat /\ m > 1
    BY <1>b
  <2> QED BY <2>1 DEF Front
<1>3. i = bin[m] /\ i \in S /\ <<i>> \in Seq(S)
  BY <1>1, <1>b DEF Last
<1>4. /\ less \in Seq(Seq(S)) /\ Len(less) = n
      /\ \A c \in 1..n : less[c] = IF c = b THEN front ELSE bins[c]
  <2>1. less = [c \in 1..n |-> IF c = b THEN front ELSE bins[c]]
    BY <1>1 DEF ReplaceAt
  <2>2. \A c \in 1..n : (IF c = b THEN front ELSE bins[c]) \in Seq(S)
    BY <1>1, <1>2
  <2> HIDE DEF front, less, n
  <2>3. less \in [1..n -> Seq(S)]
    BY <2>1, <2>2
  <2> QED BY <1>1, <2>1, <2>3, FunctionIsSeq
<1>5. new = Append(less, <<i>>)
  OBVIOUS
<1> HIDE DEF front, less, n, bin, i, m
<1>6. /\ new \in Seq(Seq(S)) /\ Len(new) = n + 1
      /\ (\A c \in 1..n : new[c] = less[c]) /\ new[n + 1] = <<i>>
  <2> DEFINE single == <<i>>
  <2> HIDE DEF single
  <2>1. less \in Seq(Seq(S)) /\ single \in Seq(S) /\ new = Append(less, single) /\ Len(less) = n
    BY <1>3, <1>4, <1>5 DEF single
  <2>2. /\ new \in Seq(Seq(S)) /\ Len(new) = Len(less) + 1
        /\ (\A c \in 1..Len(less) : new[c] = less[c]) /\ new[Len(less) + 1] = single
    BY ONLY <2>1, Extended
  <2> QED BY <2>1, <2>2 DEF single
<1>7. \A c \in 1..(n + 1) : c = n + 1 \/ c \in 1..n
  BY <1>1
<1>8. 1..n \subseteq 1..(n + 1) /\ n + 1 \in 1..(n + 1) /\ n + 1 \notin 1..n
  BY <1>1
\* Where an element of the new bins was before.
<1>9. ASSUME NEW c \in 1..(n + 1), NEW k \in 1..Len(new[c])
      PROVE  \/ c = n + 1 /\ k = 1 /\ new[c][k] = bins[b][m] /\ m \in 1..Len(bins[b])
             \/ /\ c \in 1..n /\ k \in 1..Len(bins[c]) /\ new[c][k] = bins[c][k]
                /\ c = b => k # m
  <2>1. CASE c = n + 1
    <3>1. new[c] = <<i>> /\ k = 1
      BY <1>6, <2>1
    <3>2. new[c][k] = i /\ i = bins[b][m] /\ m \in 1..Len(bins[b])
      <4>1. new[c][k] = i
        <5>1. <<i>>[1] = i
          OBVIOUS
        <5> QED BY <3>1, <5>1, Zenon
      <4>2. m = Len(bins[b]) /\ m \in 1..m /\ i = bins[b][m]
        BY <1>3, <1>b DEF m
      <4> QED BY <4>1, <4>2
    <3> QED BY <2>1, <3>1, <3>2
  <2>2. CASE c \in 1..n /\ c # b
    BY <1>4, <1>6, <2>2
  <2>3. CASE c = b
    <3>1. new[c] = front
      BY <1>4, <1>6, <1>b, <2>3
    <3>2. k \in 1..(m - 1)
      BY <1>2, <3>1
    <3>3. k \in 1..m /\ k # m /\ new[c][k] = bin[k]
      <4>1. k \in 1..m /\ k # m
        BY <1>b, <3>2
      <4> QED BY <1>2, <3>1, <3>2, <4>1
    <3> QED BY <1>b, <2>3, <3>3 DEF m
  <2> QED BY <1>7, <2>1, <2>2, <2>3
<1>10. \A c, d \in 1..(n + 1) : \A k \in 1..Len(new[c]) : \A l \in 1..Len(new[d]) :
          new[c][k] = new[d][l] => c = d /\ k = l
  <2> SUFFICES ASSUME NEW c \in 1..(n + 1), NEW d \in 1..(n + 1),
                      NEW k \in 1..Len(new[c]), NEW l \in 1..Len(new[d]), new[c][k] = new[d][l]
               PROVE  c = d /\ k = l
    OBVIOUS
  <2>1. CASE c \in 1..n /\ k \in 1..Len(bins[c]) /\ new[c][k] = bins[c][k]
             /\ d \in 1..n /\ l \in 1..Len(bins[d]) /\ new[d][l] = bins[d][l]
    <3>1. bins[c][k] = bins[d][l]
      BY <2>1
    <3> QED BY ONLY <1>i, <2>1, <3>1, Zenon
  <2>2. ASSUME c = n + 1, new[c][k] = bins[b][m], m \in 1..Len(bins[b]),
               d \in 1..n, l \in 1..Len(bins[d]), new[d][l] = bins[d][l], d = b => l # m
        PROVE  FALSE
    <3>1. bins[b][m] = bins[d][l]
      BY <2>2
    <3>2. b = d /\ m = l
      <4>1. b \in 1..n /\ m \in 1..Len(bins[b]) /\ d \in 1..n /\ l \in 1..Len(bins[d])
        BY <1>b, <2>2
      <4> QED BY ONLY <1>i, <4>1, <3>1
    <3> QED BY <2>2, <3>2
  <2>3. ASSUME d = n + 1, new[d][l] = bins[b][m], m \in 1..Len(bins[b]),
               c \in 1..n, k \in 1..Len(bins[c]), new[c][k] = bins[c][k], c = b => k # m
        PROVE  FALSE
    <3>1. bins[b][m] = bins[c][k]
      BY <2>3
    <3>2. b = c /\ m = k
      <4>1. b \in 1..n /\ m \in 1..Len(bins[b]) /\ c \in 1..n /\ k \in 1..Len(bins[c])
        BY <1>b, <2>3
      <4> QED BY ONLY <1>i, <4>1, <3>1, ZenonT(30)
    <3> QED BY <2>3, <3>2
  <2>4. \/ c = n + 1 /\ k = 1 /\ new[c][k] = bins[b][m] /\ m \in 1..Len(bins[b])
        \/ c \in 1..n /\ k \in 1..Len(bins[c]) /\ new[c][k] = bins[c][k] /\ (c = b => k # m)
    BY <1>9
  <2>5. \/ d = n + 1 /\ l = 1 /\ new[d][l] = bins[b][m] /\ m \in 1..Len(bins[b])
        \/ d \in 1..n /\ l \in 1..Len(bins[d]) /\ new[d][l] = bins[d][l] /\ (d = b => l # m)
    BY <1>9
  <2> QED BY <2>1, <2>2, <2>3, <2>4, <2>5
<1>11. \A j \in S : \E c \in 1..(n + 1) : \E k \in 1..Len(new[c]) : new[c][k] = j
  <2> SUFFICES ASSUME NEW j \in S PROVE \E c \in 1..(n + 1) : \E k \in 1..Len(new[c]) : new[c][k] = j
    OBVIOUS
  <2>1. PICK c \in 1..n : \E k \in 1..Len(bins[c]) : bins[c][k] = j
    BY <1>c
  <2>2. PICK k \in 1..Len(bins[c]) : bins[c][k] = j
    BY <2>1
  <2>3. CASE c = b /\ k = m
    <3>1. 1 \in 1..Len(new[n + 1]) /\ new[n + 1][1] = i
      BY <1>6
    <3>2. i = j
      BY <1>3, <1>b, <2>2, <2>3
    <3> QED BY <1>8, <3>1, <3>2
  <2>4. CASE c = b /\ k # m
    <3>1. new[c] = front /\ k \in 1..m
      BY <1>4, <1>6, <1>b, <2>2, <2>4 DEF m
    <3>2. k \in 1..(m - 1)
      BY <1>b, <2>4, <3>1
    <3> QED BY <1>2, <1>8, <1>b, <2>2, <2>4, <3>1, <3>2
  <2>5. CASE c # b
    BY <1>4, <1>6, <1>8, <2>2, <2>5
  <2> QED BY <2>3, <2>4, <2>5
<1>12. \A c \in 1..(n + 1) : Len(new[c]) > 0
  <2> SUFFICES ASSUME NEW c \in 1..(n + 1) PROVE Len(new[c]) > 0
    OBVIOUS
  <2>1. m - 1 > 0 /\ Len(<<i>>) = 1
    BY <1>b
  <2>2. CASE c = n + 1
    BY <1>6, <2>1, <2>2
  <2>3. CASE c \in 1..n /\ c # b
    BY <1>4, <1>6, <1>p, <2>3
  <2>4. CASE c \in 1..n /\ c = b
    BY <1>2, <1>4, <1>6, <2>1, <2>4
  <2> QED BY <1>7, <2>2, <2>3, <2>4
<1>13. Holds(new, S)
  <2>1. new \in Seq(Seq(S)) /\ Len(new) = n + 1
    BY <1>6
  <2> QED BY ONLY <2>1, <1>10, <1>11, <1>12 DEF Holds
<1>14. \A c \in 1..n : new[c] = IF c = b THEN front ELSE bins[c]
  BY <1>4, <1>6
<1> QED BY <1>6, <1>13, <1>14 DEF n, i, front, bin, SplitOff

\* A strict total order on S.
IsOrder(Before, S) ==
    /\ Before \in SUBSET (S \X S)
    /\ \A i \in S : <<i, i>> \notin Before
    /\ \A i, j, k \in S : <<i, j>> \in Before /\ <<j, k>> \in Before => <<i, k>> \in Before
    /\ \A i, j \in S : i = j \/ <<i, j>> \in Before \/ <<j, i>> \in Before

\* How many elements of S are before i.
Rank(Before, S, i) == Cardinality({h \in S : <<h, i>> \in Before})

\* In a strict total order of a finite set, the elements are the first, the second, ...
LEMMA Ranked ==
    ASSUME NEW S, IsFiniteSet(S), NEW Before, IsOrder(Before, S)
    PROVE  /\ Cardinality(S) \in Nat
           /\ \A i \in S : Rank(Before, S, i) \in 0..(Cardinality(S) - 1)
           /\ \A i, j \in S : Rank(Before, S, i) = Rank(Before, S, j) => i = j
           /\ \A r \in 0..(Cardinality(S) - 1) : \E i \in S : Rank(Before, S, i) = r
<1> DEFINE Under(i) == {h \in S : <<h, i>> \in Before}
           n == Cardinality(S)
           f == [i \in S |-> Cardinality(Under(i))]
           R == 0..(n - 1)
<1>1. n \in Nat
  BY FS_CardinalityType
<1>2. ASSUME NEW i \in S PROVE IsFiniteSet(Under(i)) /\ Cardinality(Under(i)) \in R
  <2> DEFINE rest == S \ {i}
  <2>1. Under(i) \in SUBSET rest
    BY DEF IsOrder
  <2>2. IsFiniteSet(rest) /\ Cardinality(rest) = n - 1
    BY FS_RemoveElement
  <2> HIDE DEF rest, Under
  <2>3. IsFiniteSet(Under(i)) /\ Cardinality(Under(i)) <= Cardinality(rest)
    BY <2>1, <2>2, FS_Subset
  <2> QED BY <1>1, <2>2, <2>3, FS_CardinalityType
<1>3. ASSUME NEW i \in S, NEW j \in S, <<i, j>> \in Before
      PROVE  Cardinality(Under(i)) < Cardinality(Under(j))
  <2>1. Under(i) \subseteq Under(j)
    BY <1>3 DEF IsOrder
  <2>2. i \in Under(j) /\ i \notin Under(i)
    BY <1>3 DEF IsOrder
  <2> HIDE DEF Under
  <2>3. IsFiniteSet(Under(j)) /\ Under(i) # Under(j)
    BY <1>2, <2>2
  <2> QED BY <2>1, <2>3, FS_Subset, FS_CardinalityType, <1>2
<1> HIDE DEF Under
<1>4. ASSUME NEW i \in S, NEW j \in S, Cardinality(Under(i)) = Cardinality(Under(j)) PROVE i = j
  <2>1. i = j \/ <<i, j>> \in Before \/ <<j, i>> \in Before
    BY DEF IsOrder
  <2>2. Cardinality(Under(i)) \in Nat /\ Cardinality(Under(j)) \in Nat
    BY <1>2
  <2> QED BY <1>3, <1>4, <2>1, <2>2
<1>5. f \in [S -> R] /\ \A i, j \in S : f[i] = f[j] => i = j
  BY <1>2, <1>4
<1>6. IsFiniteSet(R) /\ Cardinality(R) = n
  <2>1. 0 \in Int /\ n - 1 \in Int /\ (0 > n - 1 => n = 0) /\ n - 1 - 0 + 1 = n
    BY <1>1
  <2> QED BY <2>1, FS_Interval
<1> HIDE DEF f, R, n
<1>7. f \in Injection(S, R)
  BY <1>5, Fun_IsInj
<1>8. Cardinality(S) = Cardinality(R)
  BY <1>6 DEF n
<1>9. \A r \in R : \E i \in S : f[i] = r
  <2> DEFINE image == {f[i] : i \in S}
  <2>0. IsFiniteSet(S) /\ f \in [S -> R] /\ (\A i, j \in S : f[i] = f[j] => i = j)
    BY <1>5
  <2>1. IsFiniteSet(image) /\ Cardinality(image) = Cardinality(S)
    BY ONLY <2>0, FiniteImage
  <2>2. image \subseteq R
    BY <1>5
  <2> HIDE DEF image
  <2>3. image = R
    BY <1>6, <1>8, <2>1, <2>2, FS_Subset
  <2> QED BY <2>3 DEF image
<1>10. \A i \in S : f[i] = Cardinality(Under(i))
  BY DEF f
<1>11. /\ n \in Nat
       /\ \A i \in S : Cardinality(Under(i)) \in R
       /\ \A i, j \in S : Cardinality(Under(i)) = Cardinality(Under(j)) => i = j
       /\ \A r \in R : \E i \in S : Cardinality(Under(i)) = r
  BY <1>1, <1>2, <1>4, <1>9, <1>10
<1>12. \A i \in S : Rank(Before, S, i) = Cardinality(Under(i))
  BY DEF Rank, Under
<1> QED BY <1>11, <1>12 DEF n, R

\* The list of the first, the second, ... is a list of all.
LEMMA SortedLists ==
    ASSUME NEW S, IsFiniteSet(S), NEW Before, IsOrder(Before, S),
           NEW list, list = [k \in 1..Cardinality(S) |->
               CHOOSE i \in S : Cardinality({j \in S : <<j, i>> \in Before}) = k - 1]
    PROVE  Lists(list, S) /\ Len(list) = Cardinality(S)
<1> DEFINE n == Cardinality(S)
           R(i) == Rank(Before, S, i)
<1>1. /\ n \in Nat /\ \A i, j \in S : R(i) = R(j) => i = j
      /\ \A r \in 0..(n - 1) : \E i \in S : R(i) = r
  BY Ranked
<1>r. \A i \in S : R(i) \in 0..(n - 1)
  BY Ranked
<1>2. list = [k \in 1..n |-> CHOOSE i \in S : R(i) = k - 1]
  BY DEF Rank
<1> HIDE DEF R, n
<1>3. ASSUME NEW k \in 1..n PROVE list[k] \in S /\ R(list[k]) = k - 1
  <2>1. k - 1 \in 0..(n - 1)
    BY <1>1
  <2>2. \E i \in S : R(i) = k - 1
    BY <1>1, <2>1
  <2> QED BY <1>2, <2>2
<1>4. list \in [1..n -> S]
  BY <1>2, <1>3
<1>5. list \in Seq(S) /\ Len(list) = n
  BY <1>1, <1>4, FunctionIsSeq
<1>6. \A k, l \in 1..n : list[k] = list[l] => k = l
  <2> SUFFICES ASSUME NEW k \in 1..n, NEW l \in 1..n, list[k] = list[l] PROVE k = l
    OBVIOUS
  <2>1. k - 1 = l - 1
    BY <1>3
  <2> QED BY <1>1, <2>1
<1>7. \A i \in S : \E k \in 1..n : list[k] = i
  <2> SUFFICES ASSUME NEW i \in S PROVE \E k \in 1..n : list[k] = i
    OBVIOUS
  <2>1. R(i) \in 0..(n - 1)
    BY <1>r
  <2>2. R(i) + 1 \in 1..n /\ (R(i) + 1) - 1 = R(i)
    BY <1>1, <2>1
  <2> DEFINE k == R(i) + 1
  <2>3. k \in 1..n /\ k - 1 = R(i)
    BY <2>2
  <2> HIDE DEF k
  <2>4. list[k] \in S /\ R(list[k]) = R(i)
    BY <1>3, <2>3
  <2>5. list[k] = i
    BY <1>1, <2>4
  <2> QED BY <2>3, <2>5
<1> QED BY <1>5, <1>6, <1>7 DEF Lists, n

\* Sorting by length makes a list of all rows.
LEMMA AscendingLists ==
    ASSUME NEW S, IsFiniteSet(S), S \subseteq Nat, NEW lens, \A i \in S : lens[i] \in Nat
    PROVE  Lists(Ascending(lens, S), S) /\ Len(Ascending(lens, S)) = Cardinality(S)
<1> DEFINE Before == {p \in S \X S : Shorter(lens, p[1], p[2])}
<1>1. IsOrder(Before, S)
  BY DEF IsOrder, Shorter
<1>2. \A i \in S : {j \in S : <<j, i>> \in Before} = {j \in S : Shorter(lens, j, i)}
  OBVIOUS
<1>3. Ascending(lens, S) = [k \in 1..Cardinality(S) |->
          CHOOSE i \in S : Cardinality({j \in S : Shorter(lens, j, i)}) = k - 1]
  BY Zenon DEF Ascending, Sorted
<1>4. \A k \in 1..Cardinality(S) :
          (CHOOSE i \in S : Cardinality({j \in S : Shorter(lens, j, i)}) = k - 1)
              = CHOOSE i \in S : Cardinality({j \in S : <<j, i>> \in Before}) = k - 1
  BY <1>2
<1> HIDE DEF Before
<1>5. Ascending(lens, S) = [k \in 1..Cardinality(S) |->
          CHOOSE i \in S : Cardinality({j \in S : <<j, i>> \in Before}) = k - 1]
  BY <1>3, <1>4
<1> QED BY <1>1, <1>5, SortedLists

\* So does the order from the longest row down.
LEMMA DescendingLists ==
    ASSUME NEW S, IsFiniteSet(S), S \subseteq Nat, NEW lens, \A i \in S : lens[i] \in Nat
    PROVE  Lists(Descending(lens, S), S) /\ Len(Descending(lens, S)) = Cardinality(S)
<1> DEFINE Before == {p \in S \X S : Longer(lens, p[1], p[2])}
<1>1. IsOrder(Before, S)
  BY DEF IsOrder, Longer
<1>2. \A i \in S : {j \in S : <<j, i>> \in Before} = {j \in S : Longer(lens, j, i)}
  OBVIOUS
<1>3. Descending(lens, S) = [k \in 1..Cardinality(S) |->
          CHOOSE i \in S : Cardinality({j \in S : Longer(lens, j, i)}) = k - 1]
  BY Zenon DEF Descending, Sorted
<1>4. \A k \in 1..Cardinality(S) :
          (CHOOSE i \in S : Cardinality({j \in S : Longer(lens, j, i)}) = k - 1)
              = CHOOSE i \in S : Cardinality({j \in S : <<j, i>> \in Before}) = k - 1
  BY <1>2
<1> HIDE DEF Before
<1>5. Descending(lens, S) = [k \in 1..Cardinality(S) |->
          CHOOSE i \in S : Cardinality({j \in S : <<j, i>> \in Before}) = k - 1]
  BY <1>3, <1>4
<1> QED BY <1>1, <1>5, SortedLists

\* A list backwards.
LEMMA Backwards ==
    ASSUME NEW S, NEW list, Lists(list, S)
    PROVE  Lists(Reverse(list), S)
<1> DEFINE n == Len(list)
           back == Reverse(list)
<1>1. /\ n \in Nat /\ \A k \in 1..n : list[k] \in S
  BY DEF Lists
<1>2. back = [k \in 1..n |-> list[(n - k) + 1]]
  BY DEF Reverse
<1>3. /\ \A k, l \in 1..n : list[k] = list[l] => k = l
      /\ \A i \in S : \E k \in 1..n : list[k] = i
  BY DEF Lists
<1> HIDE DEF n, back
<1>4. \A k \in 1..n : (n - k) + 1 \in 1..n /\ (n - ((n - k) + 1)) + 1 = k
  BY <1>1
<1>5. \A k \in 1..n : back[k] = list[(n - k) + 1] /\ back[k] \in S
  BY <1>1, <1>2, <1>4
<1>6. back \in Seq(S) /\ Len(back) = n
  <2>1. back \in [1..n -> S]
    BY <1>2, <1>5
  <2> QED BY <1>1, <2>1, FunctionIsSeq
<1>7. \A k, l \in 1..n : back[k] = back[l] => k = l
  <2> SUFFICES ASSUME NEW k \in 1..n, NEW l \in 1..n, back[k] = back[l] PROVE k = l
    OBVIOUS
  <2>1. (n - k) + 1 = (n - l) + 1
    BY <1>3, <1>4, <1>5
  <2> QED BY <1>1, <2>1
<1>8. \A i \in S : \E k \in 1..n : back[k] = i
  <2> SUFFICES ASSUME NEW i \in S PROVE \E k \in 1..n : back[k] = i
    OBVIOUS
  <2>1. PICK k \in 1..n : list[k] = i
    BY <1>3
  <2>2. back[(n - k) + 1] = list[(n - ((n - k) + 1)) + 1]
    BY <1>4, <1>5
  <2> QED BY <1>4, <2>1, <2>2
<1> QED BY <1>6, <1>7, <1>8 DEF Lists, back

\* The largest of some numbers up to m + 1 is m + 1, when they are not all up to m.
LEMMA LastOne ==
    ASSUME NEW m \in Nat, NEW s \in SUBSET (1..(m + 1)), s \notin SUBSET (1..m)
    PROVE  Max(s) = m + 1 /\ s \ {m + 1} \in SUBSET (1..m)
<1>1. m + 1 \in s /\ m + 1 \in Nat /\ s # {}
  OBVIOUS
<1>2. Max(s) \in s /\ \A k \in s : k <= Max(s)
  BY <1>1, Largest
<1>3. Max(s) = m + 1
  <2>1. m + 1 <= Max(s)
    BY <1>1, <1>2
  <2>2. Max(s) \in 1..(m + 1)
    BY <1>2
  <2> QED BY <2>1, <2>2
<1>4. s \ {m + 1} \in SUBSET (1..m)
  OBVIOUS
<1> QED BY <1>3, <1>4

\* h[k] is the load of the first k rows of a bin of n.
RowByRow(lens, bin, n, h) ==
    /\ h[0] = 0
    /\ \A k \in 0..(n - 1) : h[k + 1] = h[k] + lens[bin[k + 1]]
    /\ Load(lens, bin) = h[n]

\* The load of a bin is added up row by row.
LEMMA LoadUnfolds ==
    ASSUME NEW lens, NEW bin, NEW n, n \in Nat, DOMAIN bin = 1..n
    PROVE  \E h : RowByRow(lens, bin, n, h)
<1> DEFINE Is(f, m) == f = [s \in SUBSET (1..m) |-> IF s = {} THEN 0
                       ELSE f[s \ {Max(s)}] + lens[bin[Max(s)]]]
           C == CHOOSE f : Is(f, n)
<1>1. Load(lens, bin) = C[1..n]
  <2>1. DOMAIN bin = 1..n
    OBVIOUS
  <2> QED BY <2>1, Zenon DEF Load, FoldLeft, MapThenFoldSet
<1>n. n \in Nat
  OBVIOUS
<1> HIDE DEF Max
<1>2. \E f : Is(f, n)
  <2> DEFINE S == {m \in 0..n : \E f : Is(f, m)}
  <2>1. 0 \in S
    <3> DEFINE f == [s \in SUBSET (1..0) |-> 0]
    <3>1. SUBSET (1..0) = {{}}
      OBVIOUS
    <3>2. Is(f, 0)
      BY <3>1
    <3> HIDE DEF Is, f
    <3> QED BY <1>n, <3>2
  <2>2. \A m \in 0..(n - 1) : m \in S => m + 1 \in S
    <3> SUFFICES ASSUME NEW m \in 0..(n - 1), m \in S PROVE m + 1 \in S
      OBVIOUS
    <3>1. PICK f : Is(f, m)
      OBVIOUS
    <3> DEFINE g == [s \in SUBSET (1..(m + 1)) |-> IF s \in SUBSET (1..m) THEN f[s]
                        ELSE f[s \ {m + 1}] + lens[bin[m + 1]]]
    <3>2. ASSUME NEW s \in SUBSET (1..(m + 1)), s # {}
          PROVE  g[s] = g[s \ {Max(s)}] + lens[bin[Max(s)]]
      <4>m. m \in Nat /\ SUBSET (1..m) \subseteq SUBSET (1..(m + 1))
        BY <1>n
      <4>1. CASE s \in SUBSET (1..m)
        <5>1. s \ {Max(s)} \in SUBSET (1..m)
          BY <4>1
        <5>2. g[s] = f[s] /\ g[s \ {Max(s)}] = f[s \ {Max(s)}]
          BY <4>m, <4>1, <5>1
        <5>3. f[s] = f[s \ {Max(s)}] + lens[bin[Max(s)]]
          BY <3>1, <3>2, <4>1
        <5> QED BY <5>2, <5>3
      <4>2. CASE s \notin SUBSET (1..m)
        <5>1. Max(s) = m + 1 /\ s \ {m + 1} \in SUBSET (1..m)
          BY <3>2, <4>m, <4>2, LastOne
        <5>2. g[s] = f[s \ {m + 1}] + lens[bin[m + 1]]
          BY <4>2
        <5>3. g[s \ {m + 1}] = f[s \ {m + 1}]
          BY <4>m, <5>1
        <5> HIDE DEF g
        <5> QED BY <5>1, <5>2, <5>3
      <4> QED BY <4>1, <4>2
    <3>3. g[{}] = 0
      BY <3>1
    <3>4. g = [s \in SUBSET (1..(m + 1)) |-> g[s]]
      OBVIOUS
    <3> HIDE DEF g
    <3>5. Is(g, m + 1)
      BY <3>2, <3>3, <3>4
    <3> HIDE DEF Is
    <3> QED BY <1>n, <3>5
  <2> HIDE DEF S
  <2>3. 0..n \subseteq S
    BY ONLY <1>n, <2>1, <2>2, UpTo
  <2>4. n \in S
    BY <1>n, <2>3
  <2> QED BY <2>4 DEF S
<1>3. Is(C, n)
  <2> HIDE DEF Is
  <2> QED BY <1>2
<1> HIDE DEF C
<1> DEFINE h == [k \in 0..n |-> C[1..k]]
<1>4. h[0] = 0
  <2>1. 1..0 = {} /\ 0 \in 0..n /\ {} \in SUBSET (1..n)
    BY <1>n
  <2> QED BY <1>3, <2>1
<1>5. ASSUME NEW k \in 0..(n - 1) PROVE h[k + 1] = h[k] + lens[bin[k + 1]]
  <2> DEFINE s == 1..(k + 1)
  <2>1. s \in SUBSET (1..n) /\ s # {} /\ Max(s) = k + 1 /\ s \ {k + 1} = 1..k
    BY <1>n, LastPlace
  <2>2. k \in 0..n /\ k + 1 \in 0..n /\ h[k] = C[1..k] /\ h[k + 1] = C[s]
    BY <1>n
  <2> HIDE DEF s, h
  <2>3. C[s] = C[s \ {Max(s)}] + lens[bin[Max(s)]]
    BY <1>3, <2>1
  <2> HIDE DEF Is
  <2> QED BY <2>1, <2>2, <2>3
<1>6. h[n] = C[1..n]
  BY <1>n
<1> HIDE DEF h, Is
<1> QED BY <1>1, <1>4, <1>5, <1>6 DEF RowByRow

-----------------------------------------------------------------------------
(* What a bin weighs, and the packers. *)

\* The rows have lengths.
Measured(lens, S) == \A i \in S : lens[i] \in Nat

\* A bin that gets another row has the length of the row more.
LEMMA LoadAppended ==
    ASSUME NEW S, NEW lens, Measured(lens, S), NEW bin, bin \in Seq(S), NEW i, i \in S
    PROVE  /\ Load(lens, bin) \in Nat
           /\ Load(lens, Append(bin, i)) = Load(lens, bin) + lens[i]
<1> DEFINE n == Len(bin)
           m == n + 1
           more == Append(bin, i)
<1>1. /\ n \in Nat /\ DOMAIN bin = 1..n /\ \A k \in 1..n : bin[k] \in S
      /\ m \in Nat /\ DOMAIN more = 1..m /\ more[m] = i
  OBVIOUS
<1>2. \A k \in 1..n : more[k] = bin[k]
  OBVIOUS
<1> HIDE DEF n, more
<1>3. PICK h : /\ h[0] = 0 /\ \A k \in 0..(n - 1) : h[k + 1] = h[k] + lens[bin[k + 1]]
               /\ Load(lens, bin) = h[n]
  <2>1. PICK h : RowByRow(lens, bin, n, h)
    BY ONLY <1>1, LoadUnfolds
  <2> QED BY ONLY <2>1 DEF RowByRow
<1>4. PICK g : /\ g[0] = 0 /\ \A k \in 0..(m - 1) : g[k + 1] = g[k] + lens[more[k + 1]]
               /\ Load(lens, more) = g[m]
  <2> HIDE DEF m
  <2>1. PICK g : RowByRow(lens, more, m, g)
    BY ONLY <1>1, LoadUnfolds
  <2> QED BY ONLY <2>1 DEF RowByRow
<1> DEFINE Same == {k \in 0..n : h[k] \in Nat /\ h[k] = g[k]}
<1>5. 0 \in Same
  BY <1>1, <1>3, <1>4
<1>6. ASSUME NEW k \in 0..(n - 1), k \in Same PROVE k + 1 \in Same
  <2>1. k + 1 \in 1..n /\ k + 1 \in 0..n /\ k \in 0..(m - 1)
    BY <1>1
  <2>2. more[k + 1] = bin[k + 1] /\ lens[bin[k + 1]] \in Nat
    BY <1>1, <1>2, <2>1 DEF Measured
  <2>3. h[k] \in Nat /\ h[k] = g[k]
    BY <1>6
  <2>4. h[k + 1] = h[k] + lens[bin[k + 1]] /\ g[k + 1] = g[k] + lens[more[k + 1]]
    BY <1>3, <1>4, <2>1
  <2> QED BY <2>1, <2>2, <2>3, <2>4
<1> HIDE DEF Same
<1>7. 0..n \subseteq Same
  <2>1. \A k \in 0..(n - 1) : k \in Same => k + 1 \in Same
    BY <1>6
  <2> QED BY ONLY <1>1, <1>5, <2>1, UpTo
<1>8. h[n] \in Nat /\ h[n] = g[n]
  BY <1>1, <1>7 DEF Same
<1>9. g[n + 1] = g[n] + lens[i]
  BY <1>1, <1>4
<1> QED BY <1>3, <1>4, <1>8, <1>9 DEF more

\* A bin of one row has its length.
LEMMA LoadOfOne ==
    ASSUME NEW lens, NEW i, lens[i] \in Nat
    PROVE  Load(lens, <<i>>) = lens[i]
<1> DEFINE none == << >>
<1>1. none \in Seq({i}) /\ i \in {i} /\ Append(none, i) = <<i>> /\ DOMAIN none = 1..0 /\ 0 \in Nat
  OBVIOUS
<1>2. Measured(lens, {i})
  BY DEF Measured
<1> HIDE DEF none
<1>3. Load(lens, Append(none, i)) = Load(lens, none) + lens[i]
  BY <1>1, <1>2, LoadAppended
<1>4. PICK h : /\ h[0] = 0 /\ \A k \in 0..(0 - 1) : h[k + 1] = h[k] + lens[none[k + 1]]
               /\ Load(lens, none) = h[0]
  <2>1. PICK h : RowByRow(lens, none, 0, h)
    BY <1>1, LoadUnfolds
  <2> QED BY ONLY <2>1 DEF RowByRow
<1> QED BY <1>1, <1>3, <1>4

\* A bin that loses its last row is no heavier.
LEMMA LoadOfFront ==
    ASSUME NEW S, NEW lens, Measured(lens, S), NEW bin, bin \in Seq(S), Len(bin) > 1
    PROVE  /\ Load(lens, bin) \in Nat /\ Load(lens, Front(bin)) \in Nat
           /\ Load(lens, Front(bin)) <= Load(lens, bin)
           /\ Load(lens, <<Last(bin)>>) <= Load(lens, bin)
<1> DEFINE front == Front(bin)
           i == Last(bin)
<1>1. front \in Seq(S) /\ i \in S /\ bin = Append(front, i)
  BY DEF Front, Last
<1> HIDE DEF front, i
<1>2. /\ Load(lens, front) \in Nat
      /\ Load(lens, bin) = Load(lens, front) + lens[i]
  BY <1>1, LoadAppended
<1>3. lens[i] \in Nat
  BY <1>1 DEF Measured
<1>4. Load(lens, <<i>>) = lens[i]
  BY <1>3, LoadOfOne
<1> QED BY <1>2, <1>3, <1>4 DEF front, i

-----------------------------------------------------------------------------
\* The bins hold the rows of S, each once, and none of them more than its capacity.
Packs(capacity, lens, bins, S) ==
    /\ Holds(bins, S) /\ Measured(lens, S)
    /\ \A b \in 1..Len(bins) : Load(lens, bins[b]) <= capacity

\* A row in a bin of its own.
LEMMA NewBin ==
    ASSUME NEW capacity \in Nat, NEW lens, NEW bins, NEW S, Packs(capacity, lens, bins, S),
           NEW T, NEW bin, Lists(bin, T), Len(bin) > 0, S \cap T = {}, Measured(lens, T),
           Load(lens, bin) <= capacity
    PROVE  Packs(capacity, lens, Append(bins, bin), S \cup T)
<1> DEFINE n == Len(bins)
           new == Append(bins, bin)
<1>1. Holds(bins, S) /\ bins \in Seq(Seq(S)) /\ \A b \in 1..n : Load(lens, bins[b]) <= capacity
  BY DEF Packs, Holds
<1>2. Holds(new, S \cup T)
  BY <1>1, BinAdded
<1>3. n \in Nat /\ Len(new) = n + 1 /\ new[n + 1] = bin /\ \A b \in 1..n : new[b] = bins[b]
  BY <1>1
<1>4. Measured(lens, S \cup T)
  BY DEF Packs, Measured
<1> HIDE DEF n, new
<1>5. ASSUME NEW b \in 1..Len(new) PROVE Load(lens, new[b]) <= capacity
  <2>1. b \in 1..n \/ b = n + 1
    BY <1>3
  <2>2. CASE b \in 1..n
    BY <1>1, <1>3, <2>2
  <2>3. CASE b = n + 1
    BY <1>3, <2>3
  <2> QED BY <2>1, <2>2, <2>3
<1> QED BY <1>2, <1>4, <1>5 DEF Packs, new

\* A row joins the rows of a bin that has room for it.
LEMMA IntoBin ==
    ASSUME NEW capacity \in Nat, NEW lens, NEW bins, NEW S, Packs(capacity, lens, bins, S),
           NEW b \in 1..Len(bins), NEW i, i \notin S, lens[i] \in Nat,
           lens[i] <= Room(capacity, lens, bins[b])
    PROVE  Packs(capacity, lens, ReplaceAt(bins, b, Append(bins[b], i)), S \cup {i})
<1> DEFINE n == Len(bins)
           bin == Append(bins[b], i)
           new == ReplaceAt(bins, b, bin)
<1>1. Holds(bins, S) /\ \A c \in 1..n : Load(lens, bins[c]) <= capacity
  BY DEF Packs
<1>2. Holds(new, S \cup {i}) /\ Len(new) = n /\ \A c \in 1..n : new[c] = IF c = b THEN bin ELSE bins[c]
  <2>1. b \in 1..Len(bins) /\ i \notin S /\ Holds(bins, S)
    BY <1>1
  <2>2. Grown(ReplaceAt(bins, b, Append(bins[b], i)), bins, b, Append(bins[b], i), S \cup {i})
    BY ONLY <2>1, RowAdded
  <2> QED BY <2>2 DEF Grown
<1>3. Measured(lens, S \cup {i})
  BY DEF Packs, Measured
<1>4. Load(lens, bins[b]) \in Nat /\ Load(lens, bin) = Load(lens, bins[b]) + lens[i]
  <2>1. bins[b] \in Seq(S)
    BY <1>1, BinsTyped DEF Holds
  <2>2. bins[b] \in Seq(S \cup {i}) /\ i \in S \cup {i}
    BY <2>1
  <2> QED BY ONLY <1>3, <2>2, LoadAppended
<1>5. Load(lens, bin) <= capacity
  BY <1>4 DEF Room
<1> HIDE DEF n, bin, new
<1>6. ASSUME NEW c \in 1..n PROVE Load(lens, new[c]) <= capacity
  BY <1>1, <1>2, <1>5
<1> QED BY <1>2, <1>3, <1>6 DEF Packs, new, bin

\* A row gets a bin of its own.
LEMMA OwnBin ==
    ASSUME NEW capacity \in Nat, NEW lens, NEW bins, NEW S, Packs(capacity, lens, bins, S),
           NEW i, i \notin S, lens[i] \in Nat, lens[i] <= capacity
    PROVE  Packs(capacity, lens, Append(bins, <<i>>), S \cup {i})
<1> DEFINE bin == <<i>>
<1>1. Lists(bin, {i}) /\ Len(bin) > 0
  BY OneElement
<1>2. Measured(lens, {i}) /\ S \cap {i} = {}
  BY DEF Measured
<1>3. Load(lens, bin) <= capacity
  BY LoadOfOne
<1> HIDE DEF bin
<1> QED BY <1>1, <1>2, <1>3, NewBin DEF bin

\* No bins.
LEMMA NoBins == ASSUME NEW capacity, NEW lens PROVE Packs(capacity, lens, << >>, {})
  BY NoElements DEF Packs, Measured

-----------------------------------------------------------------------------
\* The first elements of a list.
Firsts(list, k) == {list[j] : j \in 1..k}

\* Element by element, a list is gone through.
LEMMA FirstsGrow ==
    ASSUME NEW S, NEW list, Lists(list, S)
    PROVE  /\ Firsts(list, 0) = {} /\ Firsts(list, Len(list)) = S
           /\ \A k \in 0..(Len(list) - 1) :
                  /\ list[k + 1] \in S /\ list[k + 1] \notin Firsts(list, k)
                  /\ Firsts(list, k + 1) = Firsts(list, k) \cup {list[k + 1]}
<1> DEFINE n == Len(list)
<1>1. n \in Nat /\ \A k \in 1..n : list[k] \in S
  BY DEF Lists
<1>2. \A k, l \in 1..n : list[k] = list[l] => k = l
  BY DEF Lists
<1>3. \A i \in S : \E k \in 1..n : list[k] = i
  BY DEF Lists
<1> HIDE DEF n
<1>4. Firsts(list, 0) = {}
  BY DEF Firsts
<1>5. Firsts(list, n) = S
  BY <1>1, <1>3 DEF Firsts
<1>6. ASSUME NEW k \in 0..(n - 1)
      PROVE  /\ list[k + 1] \in S /\ list[k + 1] \notin Firsts(list, k)
             /\ Firsts(list, k + 1) = Firsts(list, k) \cup {list[k + 1]}
  <2>1. k + 1 \in 1..n /\ 1..(k + 1) = (1..k) \cup {k + 1} /\ 1..k \subseteq 1..n
    BY <1>1
  <2>2. list[k + 1] \notin Firsts(list, k)
    <3> SUFFICES ASSUME NEW j \in 1..k, list[j] = list[k + 1] PROVE FALSE
      BY DEF Firsts
    <3>1. j \in 1..n
      BY <2>1
    <3>2. j = k + 1
      BY <1>2, <2>1, <3>1
    <3> QED BY <3>2
  <2>3. Firsts(list, k + 1) = Firsts(list, k) \cup {list[k + 1]}
    BY <2>1 DEF Firsts
  <2> QED BY <1>1, <2>1, <2>2, <2>3
<1> QED BY <1>4, <1>5, <1>6 DEF n

\* Rows that fit a bin.
Fit(capacity, lens, S) ==
    capacity \in Nat /\ \A i \in S : lens[i] \in Nat /\ lens[i] <= capacity

\* The smallest of some places.
LEMMA SmallestPlace ==
    ASSUME NEW n, NEW at \in SUBSET (1..n), at # {}, n \in Nat
    PROVE  Min(at) \in at
<1>1. at \in SUBSET Nat
  OBVIOUS
<1>2. \E x \in at : \A y \in at : x <= y
  BY <1>1, Smallest
<1> QED BY <1>2 DEF Min

\* The concatenative packer puts a row somewhere.
LEMMA IntoLastPacks ==
    ASSUME NEW capacity, capacity \in Nat, NEW lens, NEW bins, NEW S,
           Packs(capacity, lens, bins, S),
           NEW i, i \notin S, lens[i] \in Nat, lens[i] <= capacity
    PROVE  Packs(capacity, lens, IntoLast(capacity, lens, bins, i), S \cup {i})
<1> DEFINE n == Len(bins)
<1>1. bins \in Seq(Seq(S))
  BY DEF Packs, Holds
<1>2. CASE bins # << >> /\ lens[i] <= Room(capacity, lens, Last(bins))
  <2>1. n \in 1..Len(bins) /\ Last(bins) = bins[n]
    BY <1>1, <1>2 DEF Last
  <2>2. IntoLast(capacity, lens, bins, i) = ReplaceAt(bins, n, Append(bins[n], i))
    BY <1>2, <2>1 DEF IntoLast
  <2> HIDE DEF n
  <2>3. lens[i] <= Room(capacity, lens, bins[n])
    BY <1>2, <2>1
  <2>4. Packs(capacity, lens, ReplaceAt(bins, n, Append(bins[n], i)), S \cup {i})
    BY <2>1, <2>3, IntoBin
  <2> QED BY <2>2, <2>4
<1>3. CASE ~(bins # << >> /\ lens[i] <= Room(capacity, lens, Last(bins)))
  <2>1. IntoLast(capacity, lens, bins, i) = Append(bins, <<i>>)
    BY <1>3 DEF IntoLast
  <2> QED BY <2>1, OwnBin
<1> QED BY <1>2, <1>3

\* First fit puts a row into a bin that has room for it, if there is one.
LEMMA IntoFirstPacks ==
    ASSUME NEW capacity, capacity \in Nat, NEW lens, NEW bins, NEW S,
           Packs(capacity, lens, bins, S),
           NEW i, i \notin S, lens[i] \in Nat, lens[i] <= capacity
    PROVE  Packs(capacity, lens, IntoFirst(capacity, lens, bins, i), S \cup {i})
<1> DEFINE b == FirstWithRoom(capacity, lens, bins, i)
           at == {c \in 1..Len(bins) : lens[i] <= Room(capacity, lens, bins[c])}
<1>1. Len(bins) \in Nat
  BY DEF Packs, Holds
<1>2. b = IF at # {} THEN Min(at) ELSE 0
  BY Zenon DEF FirstWithRoom, SelectInSeq
<1>3. at # {} => Min(at) \in at
  <2>1. at \in SUBSET (1..Len(bins))
    OBVIOUS
  <2> HIDE DEF at
  <2> QED BY <1>1, <2>1, SmallestPlace
<1>i. IntoFirst(capacity, lens, bins, i)
          = IF b # 0 THEN ReplaceAt(bins, b, Append(bins[b], i)) ELSE Append(bins, <<i>>)
  BY DEF IntoFirst
<1> HIDE DEF b
<1>4. CASE b # 0
  <2>1. b \in 1..Len(bins) /\ lens[i] <= Room(capacity, lens, bins[b])
    BY <1>2, <1>3, <1>4
  <2>2. Packs(capacity, lens, ReplaceAt(bins, b, Append(bins[b], i)), S \cup {i})
    BY <2>1, IntoBin
  <2> QED BY <1>4, <1>i, <2>2
<1>5. CASE b = 0
  <2>1. IntoFirst(capacity, lens, bins, i) = Append(bins, <<i>>)
    BY <1>5, <1>i
  <2> QED BY <2>1, OwnBin
<1> QED BY <1>4, <1>5

\* The concatenative packer, row by row.
LEMMA ConcatenativeUnfolds ==
    ASSUME NEW capacity, NEW lens, NEW n \in Nat, NEW order, order = [i \in 1..Len(lens) |-> i],
           n = Len(lens)
    PROVE  \E h : /\ h[0] = << >>
                  /\ \A k \in 0..(n - 1) : h[k + 1] = IntoLast(capacity, lens, h[k], order[k + 1])
                  /\ Concatenative(capacity, lens) = h[n]
<1> DEFINE Is(f, m) == f = [s \in SUBSET (1..m) |-> IF s = {} THEN << >>
                       ELSE IntoLast(capacity, lens, f[s \ {Max(s)}], order[Max(s)])]
           C == CHOOSE f : Is(f, n)
<1>1. Concatenative(capacity, lens) = C[1..n]
  <2>1. DOMAIN order = 1..n
    OBVIOUS
  <2>2. Concatenative(capacity, lens) = FoldLeft(LAMBDA bins, i : IntoLast(capacity, lens, bins, i), << >>, order)
    BY Zenon DEF Concatenative
  <2> QED BY <2>1, <2>2, Zenon DEF FoldLeft, MapThenFoldSet
<1>n. n \in Nat
  OBVIOUS
<1> HIDE DEF Max
<1>2. \E f : Is(f, n)
  <2> DEFINE S == {m \in 0..n : \E f : Is(f, m)}
  <2>1. 0 \in S
    <3> DEFINE f == [s \in SUBSET (1..0) |-> << >>]
    <3>1. SUBSET (1..0) = {{}}
      OBVIOUS
    <3>2. Is(f, 0)
      BY <3>1
    <3> HIDE DEF Is, f
    <3> QED BY <1>n, <3>2
  <2>2. \A m \in 0..(n - 1) : m \in S => m + 1 \in S
    <3> SUFFICES ASSUME NEW m \in 0..(n - 1), m \in S PROVE m + 1 \in S
      OBVIOUS
    <3>1. PICK f : Is(f, m)
      OBVIOUS
    <3> DEFINE g == [s \in SUBSET (1..(m + 1)) |-> IF s \in SUBSET (1..m) THEN f[s]
                        ELSE IntoLast(capacity, lens, f[s \ {m + 1}], order[m + 1])]
    <3>2. ASSUME NEW s \in SUBSET (1..(m + 1)), s # {}
          PROVE  g[s] = IntoLast(capacity, lens, g[s \ {Max(s)}], order[Max(s)])
      <4>m. m \in Nat /\ SUBSET (1..m) \subseteq SUBSET (1..(m + 1))
        BY <1>n
      <4>1. CASE s \in SUBSET (1..m)
        <5>1. s \ {Max(s)} \in SUBSET (1..m)
          BY <4>1
        <5>2. g[s] = f[s] /\ g[s \ {Max(s)}] = f[s \ {Max(s)}]
          BY <4>m, <4>1, <5>1
        <5>3. f[s] = IntoLast(capacity, lens, f[s \ {Max(s)}], order[Max(s)])
          BY <3>1, <3>2, <4>1
        <5> QED BY <5>2, <5>3
      <4>2. CASE s \notin SUBSET (1..m)
        <5>1. Max(s) = m + 1 /\ s \ {m + 1} \in SUBSET (1..m)
          BY <3>2, <4>m, <4>2, LastOne
        <5>2. g[s] = IntoLast(capacity, lens, f[s \ {m + 1}], order[m + 1])
          BY <4>2
        <5>3. g[s \ {m + 1}] = f[s \ {m + 1}]
          BY <4>m, <5>1
        <5> HIDE DEF g
        <5> QED BY <5>1, <5>2, <5>3
      <4> QED BY <4>1, <4>2
    <3>3. g[{}] = << >>
      BY <3>1
    <3>4. g = [s \in SUBSET (1..(m + 1)) |-> g[s]]
      OBVIOUS
    <3> HIDE DEF g
    <3>5. Is(g, m + 1)
      BY <3>2, <3>3, <3>4
    <3> HIDE DEF Is
    <3> QED BY <1>n, <3>5
  <2> HIDE DEF S
  <2>3. 0..n \subseteq S
    BY ONLY <1>n, <2>1, <2>2, UpTo
  <2>4. n \in S
    BY <1>n, <2>3
  <2> QED BY <2>4 DEF S
<1>3. Is(C, n)
  <2> HIDE DEF Is
  <2> QED BY <1>2
<1> HIDE DEF C
<1> DEFINE h == [k \in 0..n |-> C[1..k]]
<1>4. h[0] = << >>
  <2>1. 1..0 = {} /\ 0 \in 0..n /\ {} \in SUBSET (1..n)
    BY <1>n
  <2> QED BY <1>3, <2>1
<1>5. ASSUME NEW k \in 0..(n - 1) PROVE h[k + 1] = IntoLast(capacity, lens, h[k], order[k + 1])
  <2> DEFINE s == 1..(k + 1)
  <2>1. s \in SUBSET (1..n) /\ s # {} /\ Max(s) = k + 1 /\ s \ {k + 1} = 1..k
    BY <1>n, LastPlace
  <2>2. k \in 0..n /\ k + 1 \in 0..n /\ h[k] = C[1..k] /\ h[k + 1] = C[s]
    BY <1>n
  <2> HIDE DEF s, h
  <2>3. C[s] = IntoLast(capacity, lens, C[s \ {Max(s)}], order[Max(s)])
    BY <1>3, <2>1
  <2> HIDE DEF Is
  <2> QED BY <2>1, <2>2, <2>3
<1>6. h[n] = C[1..n]
  BY <1>n
<1> HIDE DEF h, Is
<1> QED BY <1>1, <1>4, <1>5, <1>6


\* First fit, row by row.
LEMMA FirstFitUnfolds ==
    ASSUME NEW capacity, NEW lens, NEW order, NEW n \in Nat, DOMAIN order = 1..n
    PROVE  \E h : /\ h[0] = << >>
                  /\ \A k \in 0..(n - 1) : h[k + 1] = IntoFirst(capacity, lens, h[k], order[k + 1])
                  /\ FirstFit(capacity, lens, order) = h[n]
<1> DEFINE Is(f, m) == f = [s \in SUBSET (1..m) |-> IF s = {} THEN << >>
                       ELSE IntoFirst(capacity, lens, f[s \ {Max(s)}], order[Max(s)])]
           C == CHOOSE f : Is(f, n)
<1>1. FirstFit(capacity, lens, order) = C[1..n]
  <2>1. DOMAIN order = 1..n
    OBVIOUS
  <2> QED BY <2>1, Zenon DEF FirstFit, FoldLeft, MapThenFoldSet
<1>n. n \in Nat
  OBVIOUS
<1> HIDE DEF Max
<1>2. \E f : Is(f, n)
  <2> DEFINE S == {m \in 0..n : \E f : Is(f, m)}
  <2>1. 0 \in S
    <3> DEFINE f == [s \in SUBSET (1..0) |-> << >>]
    <3>1. SUBSET (1..0) = {{}}
      OBVIOUS
    <3>2. Is(f, 0)
      BY <3>1
    <3> HIDE DEF Is, f
    <3> QED BY <1>n, <3>2
  <2>2. \A m \in 0..(n - 1) : m \in S => m + 1 \in S
    <3> SUFFICES ASSUME NEW m \in 0..(n - 1), m \in S PROVE m + 1 \in S
      OBVIOUS
    <3>1. PICK f : Is(f, m)
      OBVIOUS
    <3> DEFINE g == [s \in SUBSET (1..(m + 1)) |-> IF s \in SUBSET (1..m) THEN f[s]
                        ELSE IntoFirst(capacity, lens, f[s \ {m + 1}], order[m + 1])]
    <3>2. ASSUME NEW s \in SUBSET (1..(m + 1)), s # {}
          PROVE  g[s] = IntoFirst(capacity, lens, g[s \ {Max(s)}], order[Max(s)])
      <4>m. m \in Nat /\ SUBSET (1..m) \subseteq SUBSET (1..(m + 1))
        BY <1>n
      <4>1. CASE s \in SUBSET (1..m)
        <5>1. s \ {Max(s)} \in SUBSET (1..m)
          BY <4>1
        <5>2. g[s] = f[s] /\ g[s \ {Max(s)}] = f[s \ {Max(s)}]
          BY <4>m, <4>1, <5>1
        <5>3. f[s] = IntoFirst(capacity, lens, f[s \ {Max(s)}], order[Max(s)])
          BY <3>1, <3>2, <4>1
        <5> QED BY <5>2, <5>3
      <4>2. CASE s \notin SUBSET (1..m)
        <5>1. Max(s) = m + 1 /\ s \ {m + 1} \in SUBSET (1..m)
          BY <3>2, <4>m, <4>2, LastOne
        <5>2. g[s] = IntoFirst(capacity, lens, f[s \ {m + 1}], order[m + 1])
          BY <4>2
        <5>3. g[s \ {m + 1}] = f[s \ {m + 1}]
          BY <4>m, <5>1
        <5> HIDE DEF g
        <5> QED BY <5>1, <5>2, <5>3
      <4> QED BY <4>1, <4>2
    <3>3. g[{}] = << >>
      BY <3>1
    <3>4. g = [s \in SUBSET (1..(m + 1)) |-> g[s]]
      OBVIOUS
    <3> HIDE DEF g
    <3>5. Is(g, m + 1)
      BY <3>2, <3>3, <3>4
    <3> HIDE DEF Is
    <3> QED BY <1>n, <3>5
  <2> HIDE DEF S
  <2>3. 0..n \subseteq S
    BY ONLY <1>n, <2>1, <2>2, UpTo
  <2>4. n \in S
    BY <1>n, <2>3
  <2> QED BY <2>4 DEF S
<1>3. Is(C, n)
  <2> HIDE DEF Is
  <2> QED BY <1>2
<1> HIDE DEF C
<1> DEFINE h == [k \in 0..n |-> C[1..k]]
<1>4. h[0] = << >>
  <2>1. 1..0 = {} /\ 0 \in 0..n /\ {} \in SUBSET (1..n)
    BY <1>n
  <2> QED BY <1>3, <2>1
<1>5. ASSUME NEW k \in 0..(n - 1) PROVE h[k + 1] = IntoFirst(capacity, lens, h[k], order[k + 1])
  <2> DEFINE s == 1..(k + 1)
  <2>1. s \in SUBSET (1..n) /\ s # {} /\ Max(s) = k + 1 /\ s \ {k + 1} = 1..k
    BY <1>n, LastPlace
  <2>2. k \in 0..n /\ k + 1 \in 0..n /\ h[k] = C[1..k] /\ h[k + 1] = C[s]
    BY <1>n
  <2> HIDE DEF s, h
  <2>3. C[s] = IntoFirst(capacity, lens, C[s \ {Max(s)}], order[Max(s)])
    BY <1>3, <2>1
  <2> HIDE DEF Is
  <2> QED BY <2>1, <2>2, <2>3
<1>6. h[n] = C[1..n]
  BY <1>n
<1> HIDE DEF h, Is
<1> QED BY <1>1, <1>4, <1>5, <1>6


\* Rows in their order.
LEMMA InOrder ==
    ASSUME NEW n \in Nat, NEW order, order = [i \in 1..n |-> i]
    PROVE  Lists(order, 1..n) /\ Len(order) = n /\ DOMAIN order = 1..n
<1>1. order \in [1..n -> 1..n]
  OBVIOUS
<1>2. order \in Seq(1..n) /\ Len(order) = n
  BY <1>1, FunctionIsSeq
<1>3. \A k, l \in 1..n : order[k] = order[l] => k = l
  OBVIOUS
<1>4. \A i \in 1..n : \E k \in 1..n : order[k] = i
  OBVIOUS
<1> QED BY <1>1, <1>2, <1>3, <1>4 DEF Lists

\* First fit packs every row of the order, whatever the order.
THEOREM FirstFitPacks ==
    ASSUME NEW capacity, NEW lens, NEW S, Fit(capacity, lens, S), NEW order, Lists(order, S)
    PROVE  Packs(capacity, lens, FirstFit(capacity, lens, order), S)
<1> DEFINE n == Len(order)
           total == FirstFit(capacity, lens, order)
<1>t. total = FirstFit(capacity, lens, order)
  OBVIOUS
<1>1. n \in Nat /\ DOMAIN order = 1..n /\ order \in Seq(S)
  BY DEF Lists
<1>2. PICK h : /\ h[0] = << >>
               /\ \A k \in 0..(n - 1) : h[k + 1] = IntoFirst(capacity, lens, h[k], order[k + 1])
               /\ total = h[n]
  <2> HIDE DEF n, total
  <2> QED BY ONLY <1>t, <1>1, FirstFitUnfolds, SMTT(30)
<1>3. /\ Firsts(order, 0) = {} /\ Firsts(order, n) = S
      /\ \A k \in 0..(n - 1) :
             /\ order[k + 1] \in S /\ order[k + 1] \notin Firsts(order, k)
             /\ Firsts(order, k + 1) = Firsts(order, k) \cup {order[k + 1]}
  BY FirstsGrow
<1> HIDE DEF n, total
<1> DEFINE Good == {k \in 0..n : Packs(capacity, lens, h[k], Firsts(order, k))}
<1>4. 0 \in Good
  <2>1. Packs(capacity, lens, << >>, {}) /\ 0 \in 0..n
    BY <1>1, NoBins
  <2>2. h[0] = << >> /\ Firsts(order, 0) = {}
    BY <1>2, <1>3
  <2> QED BY <2>1, <2>2
<1>5. \A k \in 0..(n - 1) : k \in Good => k + 1 \in Good
  <2> SUFFICES ASSUME NEW k \in 0..(n - 1), k \in Good PROVE k + 1 \in Good
    OBVIOUS
  <2> DEFINE i == order[k + 1]
             done == Firsts(order, k)
             bins == h[k]
  <2>1. i \in S /\ i \notin done /\ Firsts(order, k + 1) = done \cup {i}
    BY <1>3
  <2>2. Packs(capacity, lens, bins, done) /\ h[k + 1] = IntoFirst(capacity, lens, bins, i)
    BY <1>2
  <2>3. capacity \in Nat /\ lens[i] \in Nat /\ lens[i] <= capacity
    BY <2>1 DEF Fit
  <2> HIDE DEF i, done, bins, Good
  <2>4. Packs(capacity, lens, IntoFirst(capacity, lens, bins, i), done \cup {i})
    BY ONLY <2>1, <2>2, <2>3, IntoFirstPacks
  <2>5. k + 1 \in 0..n
    BY <1>1
  <2> QED BY <2>1, <2>2, <2>4, <2>5 DEF Good
<1> HIDE DEF Good
<1>6. 0..n \subseteq Good
  BY ONLY <1>1, <1>4, <1>5, UpTo
<1>7. n \in Good
  BY <1>1, <1>6
<1> QED BY <1>2, <1>3, <1>7 DEF Good, total

\* So does the concatenative packer.
THEOREM ConcatenativePacks ==
    ASSUME NEW capacity, NEW lens, NEW S, Fit(capacity, lens, S),
           Len(lens) \in Nat, S = 1..Len(lens)
    PROVE  Packs(capacity, lens, Concatenative(capacity, lens), S)
<1> DEFINE order == [i \in 1..Len(lens) |-> i]
<1>o. /\ Lists(order, S) /\ Len(order) = Len(lens)
      /\ order = [i \in 1..Len(lens) |-> i]
  BY InOrder
<1> HIDE DEF order
<1> DEFINE n == Len(order)
           total == Concatenative(capacity, lens)
<1>t. total = Concatenative(capacity, lens)
  OBVIOUS
<1>1. n \in Nat /\ DOMAIN order = 1..n /\ order \in Seq(S)
  BY <1>o DEF Lists
<1>2. PICK h : /\ h[0] = << >>
               /\ \A k \in 0..(n - 1) : h[k + 1] = IntoLast(capacity, lens, h[k], order[k + 1])
               /\ total = h[n]
  <2>m. n = Len(lens)
    BY <1>o
  <2> HIDE DEF n, total
  <2> QED BY ONLY <1>t, <1>o, <1>1, <2>m, ConcatenativeUnfolds
<1>3. /\ Firsts(order, 0) = {} /\ Firsts(order, n) = S
      /\ \A k \in 0..(n - 1) :
             /\ order[k + 1] \in S /\ order[k + 1] \notin Firsts(order, k)
             /\ Firsts(order, k + 1) = Firsts(order, k) \cup {order[k + 1]}
  BY <1>o, FirstsGrow
<1> HIDE DEF n, total
<1> DEFINE Good == {k \in 0..n : Packs(capacity, lens, h[k], Firsts(order, k))}
<1>4. 0 \in Good
  <2>1. Packs(capacity, lens, << >>, {}) /\ 0 \in 0..n
    BY <1>1, NoBins
  <2>2. h[0] = << >> /\ Firsts(order, 0) = {}
    BY <1>2, <1>3
  <2> QED BY <2>1, <2>2
<1>5. \A k \in 0..(n - 1) : k \in Good => k + 1 \in Good
  <2> SUFFICES ASSUME NEW k \in 0..(n - 1), k \in Good PROVE k + 1 \in Good
    OBVIOUS
  <2> DEFINE i == order[k + 1]
             done == Firsts(order, k)
             bins == h[k]
  <2>1. i \in S /\ i \notin done /\ Firsts(order, k + 1) = done \cup {i}
    BY <1>3
  <2>2. Packs(capacity, lens, bins, done) /\ h[k + 1] = IntoLast(capacity, lens, bins, i)
    BY <1>2
  <2>3. capacity \in Nat /\ lens[i] \in Nat /\ lens[i] <= capacity
    BY <2>1 DEF Fit
  <2> HIDE DEF i, done, bins, Good
  <2>4. Packs(capacity, lens, IntoLast(capacity, lens, bins, i), done \cup {i})
    BY ONLY <2>1, <2>2, <2>3, IntoLastPacks
  <2>5. k + 1 \in 0..n
    BY <1>1
  <2> QED BY <2>1, <2>2, <2>4, <2>5 DEF Good
<1> HIDE DEF Good
<1>6. 0..n \subseteq Good
  BY ONLY <1>1, <1>4, <1>5, UpTo
<1>7. n \in Good
  BY <1>1, <1>6
<1> QED BY <1>2, <1>3, <1>7 DEF Good, total

\* And first fit by decreasing length.
THEOREM FirstFitDecreasingPacks ==
    ASSUME NEW capacity, NEW lens, NEW n \in Nat, DOMAIN lens = 1..n,
           Fit(capacity, lens, 1..n)
    PROVE  Packs(capacity, lens, FirstFitDecreasing(capacity, lens), 1..n)
<1> DEFINE S == 1..n
<1>1. IsFiniteSet(S) /\ S \subseteq Nat
  BY FS_Interval
<1>2. \A i \in S : lens[i] \in Nat
  BY DEF Fit
<1> HIDE DEF S
<1>3. Lists(Ascending(lens, S), S)
  BY <1>1, <1>2, AscendingLists
<1>4. Lists(Reverse(Ascending(lens, S)), S)
  BY <1>3, Backwards
<1>5. Packs(capacity, lens, FirstFit(capacity, lens, Reverse(Ascending(lens, S))), S)
  BY <1>4, FirstFitPacks DEF S
<1> QED BY <1>5 DEF FirstFitDecreasing, S

-----------------------------------------------------------------------------
(* Taking rows from a list. *)

\* The rows that are in the first bins, and those in bin b.
InBin(bins, b) == {bins[b][k] : k \in 1..Len(bins[b])}
InFirst(bins, n) == UNION {InBin(bins, b) : b \in 1..n}

\* Bin by bin, the bins are gone through.
LEMMA BinsGrow ==
    ASSUME NEW S, NEW bins, Holds(bins, S)
    PROVE  /\ InFirst(bins, 0) = {} /\ InFirst(bins, Len(bins)) = S
           /\ \A b \in 0..(Len(bins) - 1) :
                  /\ Lists(bins[b + 1], InBin(bins, b + 1)) /\ Len(bins[b + 1]) > 0
                  /\ InBin(bins, b + 1) \subseteq S
                  /\ InFirst(bins, b) \cap InBin(bins, b + 1) = {}
                  /\ InFirst(bins, b + 1) = InFirst(bins, b) \cup InBin(bins, b + 1)
<1> DEFINE n == Len(bins)
<1>1. /\ n \in Nat /\ \A b \in 1..n : bins[b] \in Seq(S) /\ Len(bins[b]) \in Nat
      /\ \A b \in 1..n : \A k \in 1..Len(bins[b]) : bins[b][k] \in S
  BY BinsTyped DEF Holds
<1>2. \A b \in 1..n : Len(bins[b]) > 0
  BY DEF Holds
<1>3. \A b, c \in 1..n : \A k \in 1..Len(bins[b]) : \A l \in 1..Len(bins[c]) :
          bins[b][k] = bins[c][l] => b = c /\ k = l
  BY DEF Holds
<1>4. \A i \in S : \E b \in 1..n : \E k \in 1..Len(bins[b]) : bins[b][k] = i
  BY DEF Holds
<1> HIDE DEF n
<1>5. InFirst(bins, 0) = {}
  BY DEF InFirst
<1>6. InFirst(bins, n) = S
  <2>1. ASSUME NEW i \in InFirst(bins, n) PROVE i \in S
    BY <1>1, <2>1 DEF InFirst, InBin
  <2>2. ASSUME NEW i \in S PROVE i \in InFirst(bins, n)
    <3>1. PICK b \in 1..n : \E k \in 1..Len(bins[b]) : bins[b][k] = i
      BY <1>4
    <3>2. i \in InBin(bins, b)
      BY <3>1 DEF InBin
    <3> QED BY <3>2 DEF InFirst
  <2> QED BY <2>1, <2>2
<1>7. ASSUME NEW a \in 0..(n - 1), NEW b, b = a + 1
      PROVE  /\ Lists(bins[b], InBin(bins, b)) /\ Len(bins[b]) > 0
             /\ InBin(bins, b) \subseteq S
             /\ InFirst(bins, a) \cap InBin(bins, b) = {}
             /\ InFirst(bins, b) = InFirst(bins, a) \cup InBin(bins, b)
  <2>1. b \in 1..n /\ 1..b = (1..a) \cup {b} /\ 1..a \subseteq 1..n /\ b \notin 1..a
    BY <1>1, <1>7
  <2>2. Lists(bins[b], InBin(bins, b))
    <3>1. \A k, l \in 1..Len(bins[b]) : bins[b][k] = bins[b][l] => k = l
      BY <1>3, <2>1
    <3>2. \A i \in InBin(bins, b) : \E k \in 1..Len(bins[b]) : bins[b][k] = i
      BY DEF InBin
    <3>3. \A k \in 1..Len(bins[b]) : bins[b][k] \in InBin(bins, b)
      BY DEF InBin
    <3>4. bins[b] \in Seq(InBin(bins, b))
      BY <1>1, <2>1, <3>3, IsSeqOf
    <3> QED BY <3>1, <3>2, <3>4 DEF Lists
  <2>3. InBin(bins, b) \subseteq S
    BY <1>1, <2>1 DEF InBin
  <2>4. InFirst(bins, a) \cap InBin(bins, b) = {}
    <3> SUFFICES ASSUME NEW i \in InFirst(bins, a), i \in InBin(bins, b) PROVE FALSE
      OBVIOUS
    <3>1. PICK c \in 1..a : i \in InBin(bins, c)
      BY DEF InFirst
    <3>2. PICK k \in 1..Len(bins[b]) : i = bins[b][k]
      BY DEF InBin
    <3>3. PICK l \in 1..Len(bins[c]) : i = bins[c][l]
      BY <3>1 DEF InBin
    <3>4. b = c
      BY <1>3, <2>1, <3>2, <3>3
    <3> QED BY <2>1, <3>4
  <2>5. InFirst(bins, b) = InFirst(bins, a) \cup InBin(bins, b)
    BY <2>1 DEF InFirst
  <2> QED BY <1>2, <2>1, <2>2, <2>3, <2>4, <2>5
<1> QED BY <1>5, <1>6, <1>7 DEF n

\* new has the bins of old in another order.
Reorders(f, new, old, n) ==
    /\ n \in Nat /\ DOMAIN new = 1..n /\ f \in [1..n -> 1..Len(old)]
    /\ \A b, c \in 1..n : f[b] = f[c] => b = c
    /\ \A b \in 1..Len(old) : \E c \in 1..n : f[c] = b
    /\ \A b \in 1..n : new[b] = old[f[b]]

\* The same bins in another order are no heavier.
LEMMA PacksRearranged ==
    ASSUME NEW capacity, NEW lens, NEW S, NEW old, Packs(capacity, lens, old, S),
           NEW new, new \in Seq(Seq(S)), NEW n, NEW f, Reorders(f, new, old, n)
    PROVE  Packs(capacity, lens, new, S)
<1>0. /\ n \in Nat /\ DOMAIN new = 1..n /\ f \in [1..n -> 1..Len(old)]
      /\ \A b \in 1..Len(old) : \E c \in 1..n : f[c] = b
      /\ \A b \in 1..n : new[b] = old[f[b]]
  BY DEF Reorders
<1>i. \A b, c \in 1..n : f[b] = f[c] => b = c
  BY DEF Reorders
<1>1. Holds(old, S) /\ \A b \in 1..Len(old) : Load(lens, old[b]) <= capacity
  BY DEF Packs
<1>2. Holds(new, S)
  BY <1>0, <1>1, <1>i, Rearranged, SMTT(30)
<1>3. Len(new) = n
  BY <1>0
<1>4. \A b \in 1..n : f[b] \in 1..Len(old) /\ new[b] = old[f[b]]
  BY <1>0
<1>5. \A b \in 1..n : Load(lens, new[b]) <= capacity
  BY <1>1, <1>4
<1> QED BY <1>2, <1>3, <1>5 DEF Packs

\* Backwards.
LEMMA PacksBackwards ==
    ASSUME NEW capacity, NEW lens, NEW S, NEW old, Packs(capacity, lens, old, S)
    PROVE  Packs(capacity, lens, Reverse(old), S)
<1> DEFINE n == Len(old)
           new == Reverse(old)
           f == [b \in 1..n |-> (n - b) + 1]
<1>1. /\ n \in Nat /\ DOMAIN old = 1..n /\ \A b \in 1..n : old[b] \in Seq(S)
      /\ old \in Seq(Seq(S))
  BY BinsTyped DEF Packs, Holds
<1>2. new = [b \in 1..n |-> old[(n - b) + 1]]
  BY DEF Reverse
<1> HIDE DEF n, new
<1>3. \A b \in 1..n : (n - b) + 1 \in 1..n /\ (n - ((n - b) + 1)) + 1 = b
  BY <1>1
<1>4. f \in [1..n -> 1..n] /\ \A b \in 1..n : f[b] = (n - b) + 1 /\ f[f[b]] = b
  BY <1>3
<1> HIDE DEF f
<1>5. \A b, c \in 1..n : f[b] = f[c] => b = c
  BY <1>4, Zenon
<1>6. \A b \in 1..n : \E c \in 1..n : f[c] = b
  BY <1>4
<1>7. \A b \in 1..n : new[b] = old[f[b]] /\ new[b] \in Seq(S)
  BY <1>1, <1>2, <1>3, <1>4
<1>8. new \in [1..n -> Seq(S)] /\ DOMAIN new = 1..n
  BY <1>2, <1>7
<1>9. new \in Seq(Seq(S))
  BY <1>1, <1>8, FunctionIsSeq
<1>10. Reorders(f, new, old, n)
  BY <1>1, <1>4, <1>5, <1>6, <1>7, <1>8 DEF n, Reorders
<1>11. Packs(capacity, lens, new, S)
  BY ONLY Packs(capacity, lens, old, S), <1>9, <1>10, PacksRearranged
<1> QED BY <1>11 DEF new

-----------------------------------------------------------------------------
\* The rows of M that are not in the list any more have joined those of T in the bins.
Taken(capacity, lens, bins, list, T, M) ==
    \E R \in SUBSET M :
        Lists(list, R) /\ Packs(capacity, lens, bins, T \cup (M \ R))

\* Two rows in a bin of their own.
LEMMA TwoElements ==
    ASSUME NEW i, NEW j, i # j PROVE Lists(<<i, j>>, {i, j}) /\ Len(<<i, j>>) > 0
<1> DEFINE two == <<i, j>>
<1>1. Len(two) = 2 /\ two[1] = i /\ two[2] = j /\ two \in Seq({i, j})
  OBVIOUS
<1> HIDE DEF two
<1>2. \A k, l \in 1..Len(two) : two[k] = two[l] => k = l
  <2> SUFFICES ASSUME NEW k \in 1..Len(two), NEW l \in 1..Len(two), k # l PROVE two[k] # two[l]
    OBVIOUS
  <2>1. (k = 1 /\ l = 2) \/ (k = 2 /\ l = 1)
    BY <1>1
  <2> QED BY <1>1, <2>1
<1>3. \A x \in {i, j} : \E k \in 1..Len(two) : two[k] = x
  BY <1>1
<1>4. Lists(two, {i, j})
  BY <1>1, <1>2, <1>3 DEF Lists
<1> QED BY <1>1, <1>4 DEF two

\* The first that fits is in the list, and fits.
LEMMA FirstThatFitsIs ==
    ASSUME NEW lens, NEW S, NEW list, list \in Seq(S), NEW room, NEW m,
           m = FirstThatFits(lens, list, room)
    PROVE  m = 0 \/ (m \in 1..Len(list) /\ lens[list[m]] <= room)
<1> DEFINE at == {k \in 1..Len(list) : lens[list[k]] <= room}
<1>1. m = IF at # {} THEN Min(at) ELSE 0
  BY Zenon DEF FirstThatFits, SelectInSeq
<1>2. at # {} => Min(at) \in at
  <2>1. at \in SUBSET (1..Len(list)) /\ Len(list) \in Nat
    OBVIOUS
  <2> HIDE DEF at
  <2> QED BY <2>1, SmallestPlace
<1> QED BY <1>1, <1>2

\* So does the last one, if any fits.
LEMMA LastThatFitsIs ==
    ASSUME NEW lens, NEW S, NEW list, list \in Seq(S), NEW room, NEW m,
           m = LastThatFits(lens, list, room),
           \E k \in 1..Len(list) : lens[list[k]] <= room
    PROVE  m \in 1..Len(list) /\ lens[list[m]] <= room
<1> DEFINE at == {k \in 1..Len(list) : lens[list[k]] <= room}
<1>1. m = IF at # {} THEN Max(at) ELSE 0
  BY Zenon DEF LastThatFits, SelectLastInSeq
<1>2. at # {} => Max(at) \in at
  <2>1. at \in SUBSET (1..Len(list)) /\ Len(list) \in Nat
    OBVIOUS
  <2> HIDE DEF at
  <2> QED BY <2>1, Largest
<1> QED BY <1>1, <1>2

\* The packer's state: bins, and the list of rows it takes from.
Taking(capacity, lens, acc, T, M) ==
    /\ acc = [bins |-> acc.bins, list |-> acc.list]
    /\ Taken(capacity, lens, acc.bins, acc.list, T, M)

\* A bin in front of the others.
LEMMA BinInFront ==
    ASSUME NEW capacity \in Nat, NEW lens, NEW bins, NEW S, Packs(capacity, lens, bins, S),
           NEW T, NEW bin, Lists(bin, T), Len(bin) > 0, S \cap T = {}, Measured(lens, T),
           Load(lens, bin) <= capacity
    PROVE  Packs(capacity, lens, Cons(bin, bins), S \cup T)
<1> DEFINE n == Len(bins)
           new == Cons(bin, bins)
<1>1. /\ Holds(bins, S) /\ bins \in Seq(Seq(S)) /\ n \in Nat
      /\ \A b \in 1..n : Load(lens, bins[b]) <= capacity
  BY DEF Packs, Holds
<1>2. Holds(new, S \cup T)
  BY <1>1, BinConsed
<1>3. bin \in Seq(T)
  BY DEF Lists
<1>4. Len(new) = n + 1 /\ new[1] = bin /\ \A b \in 1..n : new[1 + b] = bins[b]
  <2>1. new = <<bin>> \o bins
    BY DEF Cons
  <2>2. <<bin>> \in Seq(Seq(S \cup T)) /\ bins \in Seq(Seq(S \cup T)) /\ Len(<<bin>>) = 1
    <3>1. bin \in Seq(S \cup T)
      BY <1>3
    <3>2. \A b \in 1..n : bins[b] \in Seq(S \cup T)
      <4> SUFFICES ASSUME NEW b \in 1..n PROVE bins[b] \in Seq(S \cup T)
        OBVIOUS
      <4>1. bins[b] \in Seq(S)
        BY <1>1
      <4> QED BY <4>1
    <3>3. bins \in Seq(Seq(S \cup T))
      BY <1>1, <3>2, IsSeqOf
    <3> QED BY <3>1, <3>3
  <2>3. <<bin>>[1] = bin
    OBVIOUS
  <2> DEFINE single == <<bin>>
  <2>4. /\ Len(single \o bins) = Len(single) + Len(bins)
        /\ \A p \in 1..Len(single) : (single \o bins)[p] = single[p]
        /\ \A j \in 1..Len(bins) : (single \o bins)[Len(single) + j] = bins[j]
    BY ONLY <2>2, Joined
  <2> HIDE DEF new
  <2> QED BY <1>1, <2>1, <2>2, <2>3, <2>4
<1>5. Measured(lens, S \cup T)
  BY DEF Packs, Measured
<1> HIDE DEF n, new
<1>6. ASSUME NEW b \in 1..Len(new) PROVE Load(lens, new[b]) <= capacity
  <2>1. b = 1 \/ (b - 1 \in 1..n /\ 1 + (b - 1) = b)
    BY <1>1, <1>4
  <2>2. CASE b = 1
    BY <1>4, <2>2
  <2>3. CASE b - 1 \in 1..n /\ 1 + (b - 1) = b
    BY <1>1, <1>4, <2>3
  <2> QED BY <2>1, <2>2, <2>3
<1> QED BY <1>2, <1>5, <1>6 DEF Packs, new

\* Phases 1 and 2: a large row gets a bin, and a medium row if one fits.
LEMMA AddLargeTakes ==
    ASSUME NEW capacity \in Nat, NEW lens, NEW T, NEW M, Measured(lens, M),
           T \cap M = {}, NEW acc, Taking(capacity, lens, acc, T, M),
           NEW i, i \notin T, i \notin M, lens[i] \in Nat, lens[i] <= capacity
    PROVE  Taking(capacity, lens, AddLarge(capacity, lens, acc, i), T \cup {i}, M)
<1> DEFINE m == FirstThatFits(lens, acc.list, Room(capacity, lens, <<i>>))
           new == AddLarge(capacity, lens, acc, i)
<1>1. acc = [bins |-> acc.bins, list |-> acc.list]
  BY DEF Taking
<1>2. PICK R \in SUBSET M :
          Lists(acc.list, R) /\ Packs(capacity, lens, acc.bins, T \cup (M \ R))
  BY DEF Taking, Taken
<1>3. m = 0 \/ (m \in 1..Len(acc.list) /\ lens[acc.list[m]] <= capacity - lens[i])
  <2>1. acc.list \in Seq(R)
    BY <1>2 DEF Lists
  <2>2. Room(capacity, lens, <<i>>) = capacity - lens[i]
    BY LoadOfOne DEF Room
  <2> QED BY <2>1, <2>2, FirstThatFitsIs
<1>4. new = IF m = 0 THEN [acc EXCEPT !.bins = Append(@, <<i>>)]
            ELSE [bins |-> Append(acc.bins, <<i, acc.list[m]>>), list |-> RemoveAt(acc.list, m)]
  BY DEF AddLarge
<1> HIDE DEF m, new
<1>5. CASE m = 0
  <2>1. new = [bins |-> Append(acc.bins, <<i>>), list |-> acc.list]
    BY <1>1, <1>4, <1>5
  <2>2. new = [bins |-> new.bins, list |-> new.list]
    BY <2>1
  <2>3. Packs(capacity, lens, Append(acc.bins, <<i>>), (T \cup (M \ R)) \cup {i})
    BY <1>2, OwnBin
  <2>4. (T \cup (M \ R)) \cup {i} = (T \cup {i}) \cup (M \ R)
    OBVIOUS
  <2>5. Lists(new.list, R) /\ Packs(capacity, lens, new.bins, (T \cup {i}) \cup (M \ R))
    BY <1>2, <2>1, <2>3, <2>4
  <2> QED BY <2>2, <2>5 DEF Taking, Taken, new
<1>6. CASE m # 0
  <2> DEFINE j == acc.list[m]
             bin == <<i, j>>
             U == R \ {j}
  <2>1. m \in 1..Len(acc.list) /\ lens[j] <= capacity - lens[i]
    BY <1>3, <1>6
  <2>2. j \in R /\ Lists(RemoveAt(acc.list, m), U)
    BY <1>2, <2>1, TakenOut
  <2>3. new = [bins |-> Append(acc.bins, bin), list |-> RemoveAt(acc.list, m)]
    BY <1>4, <1>6
  <2>4. i # j /\ lens[j] \in Nat /\ (T \cup (M \ R)) \cap {i, j} = {}
    <3>1. j \in M
      BY <2>2
    <3>2. j \notin T
      BY <3>1
    <3> QED BY <2>2, <3>1, <3>2 DEF Measured
  <2>5. Lists(bin, {i, j}) /\ Len(bin) > 0
    BY <2>4, TwoElements
  <2>6. Load(lens, bin) <= capacity /\ Measured(lens, {i, j})
    <3>1. Measured(lens, {i, j})
      BY <2>4 DEF Measured
    <3>2. <<i>> \in Seq({i, j}) /\ j \in {i, j} /\ bin = Append(<<i>>, j)
      OBVIOUS
    <3>3. Load(lens, bin) = Load(lens, <<i>>) + lens[j]
      BY <3>1, <3>2, LoadAppended
    <3>4. Load(lens, <<i>>) = lens[i]
      BY LoadOfOne
    <3> QED BY <2>1, <2>4, <3>1, <3>3, <3>4
  <2> HIDE DEF j, bin
  <2>7. Packs(capacity, lens, Append(acc.bins, bin), (T \cup (M \ R)) \cup {i, j})
    BY <1>2, <2>4, <2>5, <2>6, NewBin
  <2>8. (T \cup (M \ R)) \cup {i, j} = (T \cup {i}) \cup (M \ U)
    BY <2>2
  <2>9. new = [bins |-> new.bins, list |-> new.list]
    BY <2>3
  <2>10. Lists(new.list, U) /\ Packs(capacity, lens, new.bins, (T \cup {i}) \cup (M \ U))
    BY <2>2, <2>3, <2>7, <2>8
  <2> QED BY <2>9, <2>10 DEF Taking, Taken, new
<1> QED BY <1>5, <1>6

\* A list without its first element.
LEMMA TailOf ==
    ASSUME NEW S, NEW list, Lists(list, S), Len(list) > 0
    PROVE  /\ Head(list) \in S /\ Lists(Tail(list), S \ {Head(list)})
           /\ Len(Tail(list)) = Len(list) - 1 /\ Head(list) = list[1]
           /\ \A k \in 1..Len(Tail(list)) : Tail(list)[k] = list[k + 1]
<1>1. list \in Seq(S) /\ Len(list) \in Nat /\ 1 \in 1..Len(list)
  BY DEF Lists
<1>2. Head(list) = list[1]
  BY <1>1
<1>3. list[1] \in S /\ Lists(RemoveAt(list, 1), S \ {list[1]})
  BY <1>1, TakenOut
<1>4. /\ Len(Tail(list)) = Len(list) - 1 /\ Tail(list) \in Seq(S)
      /\ \A k \in 1..Len(Tail(list)) : Tail(list)[k] = list[k + 1]
  BY <1>1
<1>5. /\ RemoveAt(list, 1) \in Seq(S) /\ Len(RemoveAt(list, 1)) = Len(list) - 1
      /\ \A k \in 1..(Len(list) - 1) : RemoveAt(list, 1)[k] = list[k + 1]
  <2>1. /\ RemoveAt(list, 1) \in Seq(S) /\ Len(RemoveAt(list, 1)) = Len(list) - 1
        /\ \A k \in 1..(Len(list) - 1) :
               RemoveAt(list, 1)[k] = IF k < 1 THEN list[k] ELSE list[k + 1]
    BY ONLY <1>1, Without
  <2> QED BY <1>1, <2>1
<1>6. RemoveAt(list, 1) = Tail(list)
  <2> DEFINE a == RemoveAt(list, 1)
             b == Tail(list)
  <2>1. a \in Seq(S) /\ b \in Seq(S) /\ Len(a) = Len(b) /\ \A k \in 1..Len(b) : a[k] = b[k]
    BY <1>4, <1>5
  <2> HIDE DEF a, b
  <2>2. a = b
    BY <2>1
  <2> QED BY <2>2 DEF a, b
<1> QED BY <1>2, <1>3, <1>4, <1>6

\* Phase 3: a bin gets two small rows, or stays as it is.
LEMMA AddPairTakes ==
    ASSUME NEW capacity \in Nat, NEW lens, NEW T, NEW M, Measured(lens, M),
           T \cap M = {}, NEW acc, Taking(capacity, lens, acc, T, M),
           NEW B, NEW bin, Lists(bin, B), Len(bin) > 0, Measured(lens, B),
           Load(lens, bin) <= capacity, T \cap B = {}, B \cap M = {}
    PROVE  Taking(capacity, lens, AddPair(capacity, lens, acc, bin), T \cup B, M)
<1> DEFINE list == acc.list
           room == Room(capacity, lens, bin)
           first == Head(list)
           rest == Tail(list)
           second == LastThatFits(lens, rest, room - lens[first])
           new == AddPair(capacity, lens, acc, bin)
           Not == \/ \E k \in DOMAIN bin : bin[k] \in Medium(capacity, lens)
                  \/ Len(list) < 2
                  \/ lens[list[1]] + lens[list[2]] > room
<1>1. acc = [bins |-> acc.bins, list |-> acc.list]
  BY DEF Taking
<1>2. PICK R \in SUBSET M :
          Lists(list, R) /\ Packs(capacity, lens, acc.bins, T \cup (M \ R))
  BY DEF Taking, Taken
<1>3. new = IF Not THEN [acc EXCEPT !.bins = Cons(bin, @)]
            ELSE [bins |-> Cons(bin \o <<first, rest[second]>>, acc.bins),
                  list |-> RemoveAt(rest, second)]
  BY DEF AddPair
<1>4. CASE Not
  <2> HIDE DEF Not
  <2>1. new = [bins |-> Cons(bin, acc.bins), list |-> acc.list]
    BY <1>1, <1>3, <1>4
  <2> HIDE DEF new
  <2>2. new = [bins |-> new.bins, list |-> new.list]
    BY <2>1
  <2>3. Packs(capacity, lens, Cons(bin, acc.bins), (T \cup (M \ R)) \cup B)
    BY <1>2, BinInFront
  <2>4. (T \cup (M \ R)) \cup B = (T \cup B) \cup (M \ R)
    OBVIOUS
  <2>5. Lists(new.list, R) /\ Packs(capacity, lens, new.bins, (T \cup B) \cup (M \ R))
    BY <1>2, <2>1, <2>3, <2>4
  <2> QED BY <2>2, <2>5 DEF Taking, Taken, new
<1>5. CASE ~Not
  <2>1. Len(list) >= 2 /\ lens[list[1]] + lens[list[2]] <= room
    <3>1. list \in Seq(R) /\ Len(list) \in Nat
      BY <1>2 DEF Lists
    <3>2. Len(list) >= 2
      BY <1>5, <3>1
    <3>3. list[1] \in R /\ list[2] \in R
      BY <3>1, <3>2
    <3>4. lens[list[1]] \in Nat /\ lens[list[2]] \in Nat
      BY <3>3 DEF Measured
    <3>5. Load(lens, bin) \in Nat
      <4>1. \E i \in B : TRUE
        BY DEF Lists
      <4> QED BY <4>1, LoadAppended DEF Lists
    <3>6. room \in Int
      BY <3>5 DEF Room
    <3> HIDE DEF room
    <3> QED BY <1>5, <3>2, <3>4, <3>6
  <2>r. room \in Int /\ Load(lens, bin) \in Nat /\ room = capacity - Load(lens, bin)
    <3>1. \E i \in B : TRUE
      BY DEF Lists
    <3>2. Load(lens, bin) \in Nat
      BY <3>1, LoadAppended DEF Lists
    <3> QED BY <3>2 DEF Room
  <2>3. new = [bins |-> Cons(bin \o <<first, rest[second]>>, acc.bins),
               list |-> RemoveAt(rest, second)]
    BY <1>3, <1>5
  <2>4. /\ first \in R /\ Lists(rest, R \ {first}) /\ Len(rest) = Len(list) - 1
        /\ first = list[1] /\ \A k \in 1..Len(rest) : rest[k] = list[k + 1]
    BY <1>2, <2>1, TailOf, SMTT(30)
  <2> HIDE DEF list, room, first, rest, Not
  <2>5. 1 \in 1..Len(rest) /\ lens[rest[1]] <= room - lens[first]
    <3>1. Len(list) \in Nat
      BY <1>2 DEF Lists
    <3>2. 1 \in 1..Len(rest) /\ rest[1] = list[2]
      BY <2>1, <2>4, <3>1
    <3>3. rest[1] \in R
      BY <2>4, <3>2 DEF Lists
    <3>4. lens[rest[1]] \in Nat /\ lens[first] \in Nat
      BY <2>4, <3>3 DEF Measured
    <3> QED BY <2>1, <2>4, <2>r, <3>2, <3>4
  <2>6. second \in 1..Len(rest) /\ lens[rest[second]] <= room - lens[first]
    <3>1. rest \in Seq(R \ {first})
      BY <2>4 DEF Lists
    <3>2. \E k \in 1..Len(rest) : lens[rest[k]] <= room - lens[first]
      BY <2>5
    <3> QED BY <3>1, <3>2, LastThatFitsIs
  <2> HIDE DEF second
  <2> DEFINE j == rest[second]
             U == (R \ {first}) \ {j}
             more == Append(bin, first)
             most == Append(more, j)
  <2>7. j \in R \ {first} /\ Lists(RemoveAt(rest, second), U)
    BY <2>4, <2>6, TakenOut
  <2>8. bin \o <<first, j>> = most
    <3>1. bin \in Seq(B)
      BY DEF Lists
    <3> QED BY <3>1
  <2>9. Lists(most, B \cup {first, j}) /\ Len(most) > 0
    <3>1. Lists(more, B \cup {first})
      BY <2>4, ListGrows
    <3>2. j \notin B \cup {first}
      BY <2>7
    <3> HIDE DEF more
    <3>3. Lists(most, (B \cup {first}) \cup {j})
      BY <3>1, <3>2, ListGrows
    <3>4. (B \cup {first}) \cup {j} = B \cup {first, j}
      OBVIOUS
    <3>5. more \in Seq(B \cup {first})
      BY <3>1 DEF Lists
    <3>6. Len(most) > 0
      BY <3>5
    <3> HIDE DEF most
    <3>7. Lists(most, B \cup {first, j})
      BY <3>3, <3>4
    <3> QED BY <3>6, <3>7
  <2>10. Measured(lens, B \cup {first, j}) /\ lens[first] \in Nat /\ lens[j] \in Nat
    BY <2>4, <2>7 DEF Measured
  <2>11. Load(lens, most) <= capacity
    <3>1. bin \in Seq(B \cup {first, j})
      BY DEF Lists
    <3>2. Load(lens, more) = Load(lens, bin) + lens[first]
      <4>1. first \in B \cup {first, j}
        OBVIOUS
      <4> QED BY <2>10, <3>1, <4>1, LoadAppended
    <3>3. more \in Seq(B \cup {first, j}) /\ j \in B \cup {first, j}
      BY <3>1
    <3> HIDE DEF more
    <3>4. Load(lens, most) = Load(lens, more) + lens[j]
      BY <2>10, <3>3, LoadAppended
    <3> QED BY <2>6, <2>10, <2>r, <3>2, <3>4
  <2>12. (T \cup (M \ R)) \cap (B \cup {first, j}) = {}
    BY <2>4, <2>7
  <2> HIDE DEF j, more, most
  <2>13. Packs(capacity, lens, Cons(most, acc.bins), (T \cup (M \ R)) \cup (B \cup {first, j}))
    BY <1>2, <2>9, <2>10, <2>11, <2>12, BinInFront
  <2>14. (T \cup (M \ R)) \cup (B \cup {first, j}) = (T \cup B) \cup (M \ U)
    BY <2>4, <2>7
  <2>15. new = [bins |-> Cons(most, acc.bins), list |-> RemoveAt(rest, second)]
    BY <2>3, <2>8 DEF j
  <2> HIDE DEF new
  <2>16. new = [bins |-> new.bins, list |-> new.list]
    BY <2>15
  <2>17. Lists(new.list, U) /\ Packs(capacity, lens, new.bins, (T \cup B) \cup (M \ U))
    BY <2>7, <2>13, <2>14, <2>15
  <2> QED BY <2>16, <2>17 DEF Taking, Taken, new
<1> QED BY <1>4, <1>5

-----------------------------------------------------------------------------
\* A bin that holds the rows of B and those of M that are not in the list any more.
Topped(capacity, lens, one, B, M) ==
    /\ one = [bin |-> one.bin, list |-> one.list]
    /\ Len(one.bin) > 0 /\ Load(lens, one.bin) <= capacity
    /\ \E R \in SUBSET M : Lists(one.list, R) /\ Lists(one.bin, B \cup (M \ R))

\* Phase 4: the largest remaining row that fits joins a bin.
LEMMA AddOneTops ==
    ASSUME NEW capacity \in Nat, NEW lens, NEW B, NEW M, Measured(lens, M),
           Measured(lens, B), B \cap M = {},
           NEW one, Topped(capacity, lens, one, B, M)
    PROVE  Topped(capacity, lens, AddOne(capacity, lens, one), B, M)
<1> DEFINE list == one.list
           bin == one.bin
           room == Room(capacity, lens, bin)
           m == FirstThatFits(lens, list, room)
           new == AddOne(capacity, lens, one)
<1>1. Len(bin) > 0 /\ Load(lens, bin) <= capacity
  BY DEF Topped
<1>2. PICK R \in SUBSET M : Lists(list, R) /\ Lists(bin, B \cup (M \ R))
  BY DEF Topped
<1>3. m = 0 \/ (m \in 1..Len(list) /\ lens[list[m]] <= room)
  <2>1. list \in Seq(R)
    BY <1>2 DEF Lists
  <2> HIDE DEF list, room
  <2> QED BY <2>1, FirstThatFitsIs
<1>4. new = IF m = 0 THEN one ELSE [bin |-> Append(bin, list[m]), list |-> RemoveAt(list, m)]
  BY DEF AddOne
<1> HIDE DEF m, new
<1>5. CASE m = 0
  BY <1>4, <1>5 DEF new
<1>6. CASE m # 0
  <2> HIDE DEF list, bin
  <2> DEFINE j == list[m]
             U == R \ {j}
             more == Append(bin, j)
  <2>1. m \in 1..Len(list) /\ lens[j] <= room
    BY <1>3, <1>6
  <2>2. j \in R /\ Lists(RemoveAt(list, m), U)
    BY <1>2, <2>1, TakenOut
  <2>3. new = [bin |-> more, list |-> RemoveAt(list, m)]
    BY <1>4, <1>6
  <2> HIDE DEF j, new
  <2>4. Lists(more, (B \cup (M \ R)) \cup {j})
    <3>1. j \notin B \cup (M \ R)
      BY <2>2
    <3> QED BY <1>2, <3>1, ListGrows
  <2>5. (B \cup (M \ R)) \cup {j} = B \cup (M \ U)
    BY <2>2
  <2>6. Load(lens, more) <= capacity
    <3>1. Measured(lens, B \cup M) /\ j \in B \cup M /\ lens[j] \in Nat
      BY <2>2 DEF Measured
    <3>2. bin \in Seq(B \cup M)
      BY <1>2 DEF Lists
    <3>3. Load(lens, bin) \in Nat /\ Load(lens, more) = Load(lens, bin) + lens[j]
      BY <3>1, <3>2, LoadAppended
    <3> QED BY <2>1, <3>1, <3>3 DEF Room
  <2>7. Len(more) > 0
    BY <1>2 DEF Lists
  <2> HIDE DEF more
  <2>8. new = [bin |-> new.bin, list |-> new.list] /\ new.bin = more
        /\ new.list = RemoveAt(list, m)
    BY <2>3
  <2>9. Lists(new.list, U) /\ Lists(new.bin, B \cup (M \ U))
    BY <2>2, <2>4, <2>5, <2>8
  <2> QED BY <2>6, <2>7, <2>8, <2>9 DEF Topped, new
<1> QED BY <1>5, <1>6

\* One turn of a bin after the other.
TopUp(capacity, lens, start, turns) ==
    FoldLeft(LAMBDA one, turn : AddOne(capacity, lens, one), start, turns)

\* h[k] is what the first k of n turns make of it.
TurnByTurn(capacity, lens, start, turns, n, h) ==
    /\ h[0] = start
    /\ \A k \in 0..(n - 1) : h[k + 1] = AddOne(capacity, lens, h[k])
    /\ TopUp(capacity, lens, start, turns) = h[n]

\* A bin is topped up turn by turn.
LEMMA TopUpUnfolds ==
    ASSUME NEW capacity, NEW lens, NEW start, NEW turns, NEW n, n \in Nat, DOMAIN turns = 1..n
    PROVE  \E h : TurnByTurn(capacity, lens, start, turns, n, h)
<1> DEFINE Is(f, m) == f = [s \in SUBSET (1..m) |-> IF s = {} THEN start
                       ELSE AddOne(capacity, lens, f[s \ {Max(s)}])]
           C == CHOOSE f : Is(f, n)
<1>1. TopUp(capacity, lens, start, turns) = C[1..n]
  <2>1. DOMAIN turns = 1..n
    OBVIOUS
  <2> QED BY <2>1, Zenon DEF TopUp, FoldLeft, MapThenFoldSet
<1>n. n \in Nat
  OBVIOUS
<1> HIDE DEF Max
<1>2. \E f : Is(f, n)
  <2> DEFINE S == {m \in 0..n : \E f : Is(f, m)}
  <2>1. 0 \in S
    <3> DEFINE f == [s \in SUBSET (1..0) |-> start]
    <3>1. SUBSET (1..0) = {{}}
      OBVIOUS
    <3>2. Is(f, 0)
      BY <3>1
    <3> HIDE DEF Is, f
    <3> QED BY <1>n, <3>2
  <2>2. \A m \in 0..(n - 1) : m \in S => m + 1 \in S
    <3> SUFFICES ASSUME NEW m \in 0..(n - 1), m \in S PROVE m + 1 \in S
      OBVIOUS
    <3>1. PICK f : Is(f, m)
      OBVIOUS
    <3> DEFINE g == [s \in SUBSET (1..(m + 1)) |-> IF s \in SUBSET (1..m) THEN f[s]
                        ELSE AddOne(capacity, lens, f[s \ {m + 1}])]
    <3>2. ASSUME NEW s \in SUBSET (1..(m + 1)), s # {}
          PROVE  g[s] = AddOne(capacity, lens, g[s \ {Max(s)}])
      <4>m. m \in Nat /\ SUBSET (1..m) \subseteq SUBSET (1..(m + 1))
        BY <1>n
      <4>1. CASE s \in SUBSET (1..m)
        <5>1. s \ {Max(s)} \in SUBSET (1..m)
          BY <4>1
        <5>2. g[s] = f[s] /\ g[s \ {Max(s)}] = f[s \ {Max(s)}]
          BY <4>m, <4>1, <5>1
        <5>3. f[s] = AddOne(capacity, lens, f[s \ {Max(s)}])
          BY <3>1, <3>2, <4>1
        <5> QED BY <5>2, <5>3
      <4>2. CASE s \notin SUBSET (1..m)
        <5>1. Max(s) = m + 1 /\ s \ {m + 1} \in SUBSET (1..m)
          BY <3>2, <4>m, <4>2, LastOne
        <5>2. g[s] = AddOne(capacity, lens, f[s \ {m + 1}])
          BY <4>2
        <5>3. g[s \ {m + 1}] = f[s \ {m + 1}]
          BY <4>m, <5>1
        <5> HIDE DEF g
        <5> QED BY <5>1, <5>2, <5>3
      <4> QED BY <4>1, <4>2
    <3>3. g[{}] = start
      BY <3>1
    <3>4. g = [s \in SUBSET (1..(m + 1)) |-> g[s]]
      OBVIOUS
    <3> HIDE DEF g
    <3>5. Is(g, m + 1)
      BY <3>2, <3>3, <3>4
    <3> HIDE DEF Is
    <3> QED BY <1>n, <3>5
  <2> HIDE DEF S
  <2>3. 0..n \subseteq S
    BY ONLY <1>n, <2>1, <2>2, UpTo
  <2>4. n \in S
    BY <1>n, <2>3
  <2> QED BY <2>4 DEF S
<1>3. Is(C, n)
  <2> HIDE DEF Is
  <2> QED BY <1>2
<1> HIDE DEF C
<1> DEFINE h == [k \in 0..n |-> C[1..k]]
<1>4. h[0] = start
  <2>1. 1..0 = {} /\ 0 \in 0..n /\ {} \in SUBSET (1..n)
    BY <1>n
  <2> QED BY <1>3, <2>1
<1>5. ASSUME NEW k \in 0..(n - 1) PROVE h[k + 1] = AddOne(capacity, lens, h[k])
  <2> DEFINE s == 1..(k + 1)
  <2>1. s \in SUBSET (1..n) /\ s # {} /\ Max(s) = k + 1 /\ s \ {k + 1} = 1..k
    BY <1>n, LastPlace
  <2>2. k \in 0..n /\ k + 1 \in 0..n /\ h[k] = C[1..k] /\ h[k + 1] = C[s]
    BY <1>n
  <2> HIDE DEF s, h
  <2>3. C[s] = AddOne(capacity, lens, C[s \ {Max(s)}])
    BY <1>3, <2>1
  <2> HIDE DEF Is
  <2> QED BY <2>1, <2>2, <2>3
<1>6. h[n] = C[1..n]
  BY <1>n
<1> HIDE DEF h, Is
<1> QED BY <1>1, <1>4, <1>5, <1>6 DEF TurnByTurn


\* A bin is topped up from the list.
LEMMA FillBinTakes ==
    ASSUME NEW capacity \in Nat, NEW lens, NEW T, NEW M, Measured(lens, M),
           T \cap M = {}, NEW acc, Taking(capacity, lens, acc, T, M),
           NEW B, NEW bin, Lists(bin, B), Len(bin) > 0, Measured(lens, B),
           Load(lens, bin) <= capacity, T \cap B = {}, B \cap M = {}
    PROVE  Taking(capacity, lens, FillBin(capacity, lens, acc, bin), T \cup B, M)
<1> DEFINE start == [bin |-> bin, list |-> acc.list]
           n == Len(acc.list)
           filled == TopUp(capacity, lens, start, acc.list)
           new == FillBin(capacity, lens, acc, bin)
<1>1. PICK R \in SUBSET M :
          Lists(acc.list, R) /\ Packs(capacity, lens, acc.bins, T \cup (M \ R))
  BY DEF Taking, Taken
<1>2. n \in Nat /\ DOMAIN acc.list = 1..n
  BY <1>1 DEF Lists
<1>3. new = [bins |-> Append(acc.bins, filled.bin), list |-> filled.list]
  BY Zenon DEF FillBin, TopUp
<1>4. Topped(capacity, lens, start, B, R)
  <2>1. R \in SUBSET R /\ B \cup (R \ R) = B
    OBVIOUS
  <2>2. start.bin = bin /\ start.list = acc.list /\ start = [bin |-> start.bin, list |-> start.list]
    OBVIOUS
  <2> HIDE DEF start
  <2>3. Lists(start.list, R) /\ Lists(start.bin, B \cup (R \ R))
    BY <1>1, <2>1, <2>2
  <2> QED BY <2>1, <2>2, <2>3 DEF Topped
<1>5. Measured(lens, R) /\ B \cap R = {}
  BY DEF Measured
<1>f. filled = TopUp(capacity, lens, start, acc.list)
  OBVIOUS
<1> HIDE DEF n, start, filled
<1>g. PICK h : TurnByTurn(capacity, lens, start, acc.list, n, h)
  BY ONLY <1>2, TopUpUnfolds
<1>6. /\ h[0] = start /\ \A k \in 0..(n - 1) : h[k + 1] = AddOne(capacity, lens, h[k])
      /\ filled = h[n]
  BY ONLY <1>f, <1>g DEF TurnByTurn
<1> DEFINE Good == {k \in 0..n : Topped(capacity, lens, h[k], B, R)}
<1>7. 0 \in Good
  BY <1>2, <1>4, <1>6
<1>8. \A k \in 0..(n - 1) : k \in Good => k + 1 \in Good
  <2> SUFFICES ASSUME NEW k \in 0..(n - 1), k \in Good PROVE k + 1 \in Good
    OBVIOUS
  <2>1. Topped(capacity, lens, h[k], B, R) /\ h[k + 1] = AddOne(capacity, lens, h[k])
    BY <1>6
  <2>2. Topped(capacity, lens, AddOne(capacity, lens, h[k]), B, R)
    BY <1>5, <2>1, AddOneTops
  <2>3. k + 1 \in 0..n
    BY <1>2
  <2> QED BY <2>1, <2>2, <2>3
<1> HIDE DEF Good
<1>9. 0..n \subseteq Good
  BY ONLY <1>2, <1>7, <1>8, UpTo
<1>10. Topped(capacity, lens, filled, B, R)
  <2>1. n \in Good
    BY <1>2, <1>9
  <2> QED BY <1>6, <2>1 DEF Good
<1> HIDE DEF new
<1>11. PICK U \in SUBSET R : Lists(filled.list, U) /\ Lists(filled.bin, B \cup (R \ U))
  BY <1>10 DEF Topped
<1>12. Len(filled.bin) > 0 /\ Load(lens, filled.bin) <= capacity
  BY <1>10 DEF Topped
<1>13. Packs(capacity, lens, Append(acc.bins, filled.bin), (T \cup (M \ R)) \cup (B \cup (R \ U)))
  <2>1. (T \cup (M \ R)) \cap (B \cup (R \ U)) = {} /\ Measured(lens, B \cup (R \ U))
    BY <1>5 DEF Measured
  <2> QED BY <1>1, <1>11, <1>12, <2>1, NewBin
<1>14. (T \cup (M \ R)) \cup (B \cup (R \ U)) = (T \cup B) \cup (M \ U)
  OBVIOUS
<1>15. new = [bins |-> new.bins, list |-> new.list] /\ new.list = filled.list
       /\ new.bins = Append(acc.bins, filled.bin)
  BY <1>3
<1>16. Lists(new.list, U) /\ Packs(capacity, lens, new.bins, (T \cup B) \cup (M \ U))
  BY <1>11, <1>13, <1>14, <1>15
<1> QED BY <1>15, <1>16 DEF Taking, Taken, new

-----------------------------------------------------------------------------
(* ModifiedFirstFitDecreasingPacker. *)

\* ab is a and then b.
Joins(ab, a, b) ==
    /\ Len(ab) = Len(a) + Len(b)
    /\ \A k \in 1..Len(a) : ab[k] = a[k]
    /\ \A k \in 1..Len(b) : ab[Len(a) + k] = b[k]

\* That is what concatenation does.
LEMMA JoinedOf ==
    ASSUME NEW T, NEW a, NEW b, a \in Seq(T), b \in Seq(T), NEW ab, ab = a \o b
    PROVE  ab \in Seq(T) /\ Joins(ab, a, b)
<1>1. a \o b \in Seq(T)
  OBVIOUS
<1>2. Len(a \o b) = Len(a) + Len(b)
  OBVIOUS
<1>3. \A k \in 1..Len(a) : (a \o b)[k] = a[k]
  OBVIOUS
<1>4. \A k \in 1..Len(b) : (a \o b)[Len(a) + k] = b[k]
  OBVIOUS
<1> QED BY <1>1, <1>2, <1>3, <1>4 DEF Joins

\* A bin in between.
LEMMA InsertedBin ==
    ASSUME NEW capacity, NEW lens, NEW S, NEW bins, NEW bin, bins \in Seq(Seq(S)),
           bin \in Seq(S), Packs(capacity, lens, Append(bins, bin), S),
           NEW p \in 1..(Len(bins) + 1)
    PROVE  Packs(capacity, lens, InsertAt(bins, p, bin), S)
<1> DEFINE n == Len(bins)
           old == Append(bins, bin)
           a == SubSeq(bins, 1, p - 1)
           c == SubSeq(bins, p, n)
           single == <<bin>>
           new == InsertAt(bins, p, bin)
           m == n + 1
           f == [b \in 1..m |-> IF b < p THEN b ELSE IF b = p THEN m ELSE b - 1]
<1>1. /\ n \in Nat /\ m \in Nat /\ Len(old) = m /\ old[m] = bin /\ \A b \in 1..n : old[b] = bins[b]
      /\ p \in 1..m /\ m = n + 1
  OBVIOUS
<1>2. /\ a \in Seq(Seq(S)) /\ c \in Seq(Seq(S)) /\ single \in Seq(Seq(S))
      /\ Len(a) = p - 1 /\ Len(c) = m - p /\ Len(single) = 1 /\ single[1] = bin
  <2>1. /\ a \in Seq(Seq(S)) /\ Len(a) = p - 1
    BY <1>1
  <2>2. /\ c \in Seq(Seq(S)) /\ Len(c) = m - p
    BY <1>1
  <2>3. single \in Seq(Seq(S)) /\ Len(single) = 1 /\ single[1] = bin
    OBVIOUS
  <2> QED BY <2>1, <2>2, <2>3
<1>3. (\A b \in 1..(p - 1) : a[b] = bins[b]) /\ \A b \in 1..(m - p) : c[b] = bins[b + (p - 1)]
  BY <1>1
<1>4. new = (a \o single) \o c
  BY DEF InsertAt
<1> HIDE DEF n, m, old, a, c, single, new
<1>5. /\ a \o single \in Seq(Seq(S)) /\ Len(a \o single) = p
      /\ \A b \in 1..(p - 1) : (a \o single)[b] = a[b]
      /\ (a \o single)[p] = bin
  <2>0. a \in Seq(Seq(S)) /\ single \in Seq(Seq(S))
    BY <1>2
  <2> DEFINE ab == a \o single
  <2>j. ab \in Seq(Seq(S)) /\ Joins(ab, a, single)
    BY ONLY <2>0, JoinedOf
  <2>1. /\ a \o single \in Seq(Seq(S))
        /\ Len(a \o single) = Len(a) + Len(single)
        /\ \A b \in 1..Len(a) : (a \o single)[b] = a[b]
        /\ \A b \in 1..Len(single) : (a \o single)[Len(a) + b] = single[b]
    BY ONLY <2>j DEF Joins
  <2>2. (p - 1) + 1 = p /\ 1 \in 1..1
    BY <1>1
  <2> QED BY <1>2, <2>1, <2>2
<1> DEFINE front == a \o single
<1> HIDE DEF front
<1>6. /\ new \in Seq(Seq(S)) /\ Len(new) = m
      /\ \A b \in 1..p : new[b] = front[b]
      /\ \A b \in 1..(m - p) : new[p + b] = c[b]
  <2>0. front \in Seq(Seq(S)) /\ Len(front) = p /\ new = front \o c
    BY <1>4, <1>5 DEF front
  <2>c. c \in Seq(Seq(S)) /\ Len(c) = m - p
    BY <1>2
  <2>j. new \in Seq(Seq(S)) /\ Joins(new, front, c)
    BY ONLY <2>0, <2>c, JoinedOf
  <2>2. p + (m - p) = m
    BY <1>1
  <2> QED BY <2>0, <2>c, <2>j, <2>2 DEF Joins
<1>7. f \in [1..m -> 1..m]
  BY <1>1
<1>8. /\ \A b \in 1..m : b < p => f[b] = b
      /\ \A b \in 1..m : b = p => f[b] = m
      /\ \A b \in 1..m : b > p => f[b] = b - 1
  BY <1>1
<1> HIDE DEF f
<1>9. \A b, d \in 1..m : f[b] = f[d] => b = d
  <2> SUFFICES ASSUME NEW b \in 1..m, NEW d \in 1..m, f[b] = f[d] PROVE b = d
    OBVIOUS
  <2>1. (b < p /\ f[b] = b) \/ (b = p /\ f[b] = m) \/ (b > p /\ f[b] = b - 1)
    BY <1>1, <1>8
  <2>2. (d < p /\ f[d] = d) \/ (d = p /\ f[d] = m) \/ (d > p /\ f[d] = d - 1)
    BY <1>1, <1>8
  <2> QED BY <1>1, <2>1, <2>2
<1>10. \A b \in 1..m : \E d \in 1..m : f[d] = b
  <2> SUFFICES ASSUME NEW b \in 1..m PROVE \E d \in 1..m : f[d] = b
    OBVIOUS
  <2>1. CASE b < p
    BY <1>8, <2>1
  <2>2. CASE b = m
    BY <1>1, <1>8, <2>2
  <2>3. CASE b >= p /\ b < m
    <3>1. b + 1 \in 1..m /\ b + 1 > p /\ (b + 1) - 1 = b
      BY <1>1, <2>3
    <3> QED BY <1>8, <3>1
  <2> QED BY <1>1, <2>1, <2>2, <2>3
<1>11. \A b \in 1..m : new[b] = old[f[b]]
  <2> SUFFICES ASSUME NEW b \in 1..m PROVE new[b] = old[f[b]]
    OBVIOUS
  <2>1. CASE b < p
    <3>1. b \in 1..p /\ b \in 1..(p - 1) /\ b \in 1..n
      BY <1>1, <2>1
    <3>2. new[b] = front[b] /\ front[b] = a[b] /\ a[b] = bins[b]
      BY <1>3, <1>5, <1>6, <3>1 DEF front
    <3>3. f[b] = b /\ old[b] = bins[b]
      BY <1>1, <1>8, <2>1, <3>1
    <3> QED BY <3>2, <3>3
  <2>2. CASE b = p
    <3>1. p \in 1..p
      BY <1>1
    <3>2. new[p] = front[p] /\ front[p] = bin
      BY <1>5, <1>6, <3>1 DEF front
    <3>3. f[p] = m /\ old[m] = bin
      BY <1>1, <1>8
    <3> QED BY <2>2, <3>2, <3>3
  <2>3. CASE b > p
    <3>1. b - p \in 1..(m - p) /\ p + (b - p) = b /\ (b - p) + (p - 1) = b - 1 /\ b - 1 \in 1..n
      BY <1>1, <2>3
    <3>2. new[b] = c[b - p]
      BY <1>6, <3>1
    <3>3. c[b - p] = bins[b - 1]
      BY <1>3, <3>1
    <3>4. f[b] = b - 1 /\ old[b - 1] = bins[b - 1]
      BY <1>1, <1>8, <2>3, <3>1
    <3> QED BY <3>2, <3>3, <3>4
  <2> QED BY <1>1, <2>1, <2>2, <2>3
<1>12. Reorders(f, new, old, m)
  <2>1. m \in Nat /\ DOMAIN new = 1..m /\ Len(old) = m
    BY <1>1, <1>6
  <2>2. f \in [1..m -> 1..Len(old)]
    BY <1>7, <2>1
  <2>3. \A b \in 1..Len(old) : \E d \in 1..m : f[d] = b
    BY <1>10, <2>1
  <2> QED BY ONLY <1>9, <1>11, <2>1, <2>2, <2>3, Zenon DEF Reorders
<1>13. Packs(capacity, lens, old, S) /\ new \in Seq(Seq(S))
  BY <1>6 DEF old
<1>15. Packs(capacity, lens, new, S)
  BY ONLY <1>12, <1>13, PacksRearranged
<1> QED BY <1>15 DEF new

\* The first bin goes to the end.
LEMMA FirstToLast ==
    ASSUME NEW capacity, NEW lens, NEW S, NEW bins, bins \in Seq(Seq(S)), Len(bins) > 0,
           Packs(capacity, lens, bins, S)
    PROVE  Packs(capacity, lens, Append(Tail(bins), bins[1]), S)
<1> DEFINE n == Len(bins)
           new == Append(Tail(bins), bins[1])
           f == [b \in 1..n |-> IF b = n THEN 1 ELSE b + 1]
<1>1. n \in Nat /\ n > 0
  OBVIOUS
<1>2. /\ new \in Seq(Seq(S)) /\ Len(new) = n /\ DOMAIN new = 1..n
  OBVIOUS
<1>3. (\A b \in 1..(n - 1) : new[b] = bins[b + 1]) /\ new[n] = bins[1]
  OBVIOUS
<1> HIDE DEF n, new
<1>4. f \in [1..n -> 1..n]
  BY <1>1
<1>5. (\A b \in 1..n : b # n => f[b] = b + 1) /\ f[n] = 1
  BY <1>1
<1> HIDE DEF f
<1>6. \A b, d \in 1..n : f[b] = f[d] => b = d
  BY <1>1, <1>5
<1>7. \A b \in 1..n : \E d \in 1..n : f[d] = b
  <2> SUFFICES ASSUME NEW b \in 1..n PROVE \E d \in 1..n : f[d] = b
    OBVIOUS
  <2>1. CASE b = 1
    BY <1>1, <1>5, <2>1
  <2>2. CASE b # 1
    <3>1. b - 1 \in 1..n /\ b - 1 # n /\ (b - 1) + 1 = b
      BY <1>1, <2>2
    <3> QED BY <1>5, <3>1
  <2> QED BY <2>1, <2>2
<1>8. \A b \in 1..n : new[b] = bins[f[b]]
  <2> SUFFICES ASSUME NEW b \in 1..n PROVE new[b] = bins[f[b]]
    OBVIOUS
  <2>1. CASE b = n
    BY <1>3, <1>5, <2>1
  <2>2. CASE b # n
    BY <1>1, <1>3, <1>5, <2>2
  <2> QED BY <2>1, <2>2
<1>9. Reorders(f, new, bins, n)
  BY <1>1, <1>2, <1>4, <1>6, <1>7, <1>8 DEF n, Reorders
<1>10. Packs(capacity, lens, new, S)
  BY <1>2, <1>9, PacksRearranged
<1> QED BY <1>10 DEF new

\* Sorted in by its load, a bin is one of the bins.
LEMMA InsertPacks ==
    ASSUME NEW capacity, NEW lens, NEW S, NEW bins, NEW bin, bins \in Seq(Seq(S)),
           bin \in Seq(S), Packs(capacity, lens, Append(bins, bin), S)
    PROVE  Packs(capacity, lens, Insert(lens, bins, bin), S)
<1> DEFINE lighter == {b \in DOMAIN bins : Load(lens, bins[b]) <= Load(lens, bin)}
           q == Cardinality(lighter)
           n == Len(bins)
<1>1. lighter \subseteq 1..n /\ n \in Nat
  OBVIOUS
<1>2. q \in 0..n
  <2> HIDE DEF lighter
  <2>0. 0 \in Int /\ 1 \in Int /\ n \in Int /\ n - 1 + 1 = n /\ (1 > n => n = 0)
    BY <1>1
  <2>1. IsFiniteSet(1..n) /\ Cardinality(1..n) = n
    BY <2>0, FS_Interval
  <2>2. IsFiniteSet(lighter) /\ q <= n
    BY <1>1, <2>1, FS_Subset
  <2> QED BY <1>1, <2>2, FS_CardinalityType
<1> HIDE DEF lighter, n
<1> DEFINE p == 1 + q
<1>3. p \in 1..(Len(bins) + 1)
  BY <1>1, <1>2 DEF n
<1>4. Insert(lens, bins, bin) = InsertAt(bins, p, bin)
  BY DEF Insert, lighter
<1> HIDE DEF p
<1> QED BY <1>3, <1>4, InsertedBin

\* Phase 5: a row into the emptiest bin, or into one of its own.
LEMMA IntoEmptiestPacks ==
    ASSUME NEW capacity, capacity \in Nat, NEW lens, NEW bins, NEW S,
           Packs(capacity, lens, bins, S),
           NEW i, i \notin S, lens[i] \in Nat, lens[i] <= capacity
    PROVE  Packs(capacity, lens, IntoEmptiest(capacity, lens, bins, i), S \cup {i})
<1> DEFINE U == S \cup {i}
<1>1. bins \in Seq(Seq(S))
  BY DEF Packs, Holds
<1>u. bins \in Seq(Seq(U)) /\ \A b \in 1..Len(bins) : bins[b] \in Seq(S)
  <2>1. ASSUME NEW b \in 1..Len(bins) PROVE bins[b] \in Seq(S) /\ bins[b] \in Seq(U)
    <3>1. bins[b] \in Seq(S)
      BY <1>1
    <3> QED BY <3>1
  <2>2. \A b \in 1..Len(bins) : bins[b] \in Seq(U)
    BY <2>1
  <2> HIDE DEF U
  <2>3. bins \in Seq(Seq(U))
    BY <1>1, <2>2, IsSeqOf
  <2> QED BY <2>1, <2>3
<1>2. CASE bins # << >> /\ lens[i] <= Room(capacity, lens, Head(bins))
  <2> DEFINE bin == Append(Head(bins), i)
             more == ReplaceAt(bins, 1, Append(bins[1], i))
  <2>1. 1 \in 1..Len(bins) /\ Head(bins) = bins[1] /\ Tail(bins) \in Seq(Seq(U))
    BY <1>1, <1>2, <1>u
  <2>2. IntoEmptiest(capacity, lens, bins, i) = Insert(lens, Tail(bins), bin)
    BY <1>2 DEF IntoEmptiest
  <2>3. Packs(capacity, lens, more, U)
    <3>1. lens[i] <= Room(capacity, lens, bins[1])
      BY <1>2, <2>1
    <3> QED BY <2>1, <3>1, IntoBin
  <2>4. bin \in Seq(U) /\ bin = Append(bins[1], i)
    <3>1. bins[1] \in Seq(S)
      BY <1>u, <2>1
    <3> QED BY <2>1, <3>1
  <2>5. more \in Seq(Seq(U)) /\ Len(more) > 0
    BY <1>u, <2>1, <2>4 DEF ReplaceAt
  <2>6. more[1] = bin /\ Tail(more) = Tail(bins)
    BY <1>u, <2>1, <2>4 DEF ReplaceAt
  <2> HIDE DEF U, bin, more
  <2>7. Packs(capacity, lens, Append(Tail(more), more[1]), U)
    BY <2>3, <2>5, FirstToLast
  <2>8. Packs(capacity, lens, Append(Tail(bins), bin), U)
    BY <2>6, <2>7
  <2>9. Packs(capacity, lens, Insert(lens, Tail(bins), bin), U)
    BY <2>1, <2>4, <2>8, InsertPacks
  <2> QED BY <2>2, <2>9 DEF U
<1>3. CASE ~(bins # << >> /\ lens[i] <= Room(capacity, lens, Head(bins)))
  <2> DEFINE bin == <<i>>
  <2>1. IntoEmptiest(capacity, lens, bins, i) = Insert(lens, bins, bin)
    BY <1>3 DEF IntoEmptiest
  <2>2. bin \in Seq(U)
    OBVIOUS
  <2>3. Packs(capacity, lens, Append(bins, bin), U)
    BY OwnBin
  <2> HIDE DEF U, bin
  <2>4. Packs(capacity, lens, Insert(lens, bins, bin), U)
    BY <1>u, <2>2, <2>3, InsertPacks
  <2> QED BY <2>1, <2>4 DEF U
<1> QED BY <1>2, <1>3

\* Phases 1 and 2, large row by large row.
LargeAndMedium(capacity, lens, start, larges) ==
    FoldLeft(LAMBDA acc, large : AddLarge(capacity, lens, acc, large), start, larges)

\* The large rows, one by one.
LEMMA WithMediumUnfolds ==
    ASSUME NEW capacity, NEW lens, NEW start, NEW larges, NEW n \in Nat, DOMAIN larges = 1..n
    PROVE  \E h : /\ h[0] = start
                  /\ \A k \in 0..(n - 1) : h[k + 1] = AddLarge(capacity, lens, h[k], larges[k + 1])
                  /\ LargeAndMedium(capacity, lens, start, larges) = h[n]
<1> DEFINE Is(f, m) == f = [s \in SUBSET (1..m) |-> IF s = {} THEN start
                       ELSE AddLarge(capacity, lens, f[s \ {Max(s)}], larges[Max(s)])]
           C == CHOOSE f : Is(f, n)
<1>1. LargeAndMedium(capacity, lens, start, larges) = C[1..n]
  <2>1. DOMAIN larges = 1..n
    OBVIOUS
  <2> QED BY <2>1, Zenon DEF LargeAndMedium, FoldLeft, MapThenFoldSet
<1>n. n \in Nat
  OBVIOUS
<1> HIDE DEF Max
<1>2. \E f : Is(f, n)
  <2> DEFINE S == {m \in 0..n : \E f : Is(f, m)}
  <2>1. 0 \in S
    <3> DEFINE f == [s \in SUBSET (1..0) |-> start]
    <3>1. SUBSET (1..0) = {{}}
      OBVIOUS
    <3>2. Is(f, 0)
      BY <3>1
    <3> HIDE DEF Is, f
    <3> QED BY <1>n, <3>2
  <2>2. \A m \in 0..(n - 1) : m \in S => m + 1 \in S
    <3> SUFFICES ASSUME NEW m \in 0..(n - 1), m \in S PROVE m + 1 \in S
      OBVIOUS
    <3>1. PICK f : Is(f, m)
      OBVIOUS
    <3> DEFINE g == [s \in SUBSET (1..(m + 1)) |-> IF s \in SUBSET (1..m) THEN f[s]
                        ELSE AddLarge(capacity, lens, f[s \ {m + 1}], larges[m + 1])]
    <3>2. ASSUME NEW s \in SUBSET (1..(m + 1)), s # {}
          PROVE  g[s] = AddLarge(capacity, lens, g[s \ {Max(s)}], larges[Max(s)])
      <4>m. m \in Nat /\ SUBSET (1..m) \subseteq SUBSET (1..(m + 1))
        BY <1>n
      <4>1. CASE s \in SUBSET (1..m)
        <5>1. s \ {Max(s)} \in SUBSET (1..m)
          BY <4>1
        <5>2. g[s] = f[s] /\ g[s \ {Max(s)}] = f[s \ {Max(s)}]
          BY <4>m, <4>1, <5>1
        <5>3. f[s] = AddLarge(capacity, lens, f[s \ {Max(s)}], larges[Max(s)])
          BY <3>1, <3>2, <4>1
        <5> QED BY <5>2, <5>3
      <4>2. CASE s \notin SUBSET (1..m)
        <5>1. Max(s) = m + 1 /\ s \ {m + 1} \in SUBSET (1..m)
          BY <3>2, <4>m, <4>2, LastOne
        <5>2. g[s] = AddLarge(capacity, lens, f[s \ {m + 1}], larges[m + 1])
          BY <4>2
        <5>3. g[s \ {m + 1}] = f[s \ {m + 1}]
          BY <4>m, <5>1
        <5> HIDE DEF g
        <5> QED BY <5>1, <5>2, <5>3
      <4> QED BY <4>1, <4>2
    <3>3. g[{}] = start
      BY <3>1
    <3>4. g = [s \in SUBSET (1..(m + 1)) |-> g[s]]
      OBVIOUS
    <3> HIDE DEF g
    <3>5. Is(g, m + 1)
      BY <3>2, <3>3, <3>4
    <3> HIDE DEF Is
    <3> QED BY <1>n, <3>5
  <2> HIDE DEF S
  <2>3. 0..n \subseteq S
    BY ONLY <1>n, <2>1, <2>2, UpTo
  <2>4. n \in S
    BY <1>n, <2>3
  <2> QED BY <2>4 DEF S
<1>3. Is(C, n)
  <2> HIDE DEF Is
  <2> QED BY <1>2
<1> HIDE DEF C
<1> DEFINE h == [k \in 0..n |-> C[1..k]]
<1>4. h[0] = start
  <2>1. 1..0 = {} /\ 0 \in 0..n /\ {} \in SUBSET (1..n)
    BY <1>n
  <2> QED BY <1>3, <2>1
<1>5. ASSUME NEW k \in 0..(n - 1) PROVE h[k + 1] = AddLarge(capacity, lens, h[k], larges[k + 1])
  <2> DEFINE s == 1..(k + 1)
  <2>1. s \in SUBSET (1..n) /\ s # {} /\ Max(s) = k + 1 /\ s \ {k + 1} = 1..k
    BY <1>n, LastPlace
  <2>2. k \in 0..n /\ k + 1 \in 0..n /\ h[k] = C[1..k] /\ h[k + 1] = C[s]
    BY <1>n
  <2> HIDE DEF s, h
  <2>3. C[s] = AddLarge(capacity, lens, C[s \ {Max(s)}], larges[Max(s)])
    BY <1>3, <2>1
  <2> HIDE DEF Is
  <2> QED BY <2>1, <2>2, <2>3
<1>6. h[n] = C[1..n]
  BY <1>n
<1> HIDE DEF h, Is
<1> QED BY <1>1, <1>4, <1>5, <1>6


\* Phase 3, bin by bin.
SmallPairs(capacity, lens, start, bins) ==
    FoldLeft(LAMBDA acc, bin : AddPair(capacity, lens, acc, bin), start, bins)

\* The bins, one by one.
LEMMA WithSmallPairsUnfolds ==
    ASSUME NEW capacity, NEW lens, NEW start, NEW bins, NEW n \in Nat, DOMAIN bins = 1..n
    PROVE  \E h : /\ h[0] = start
                  /\ \A k \in 0..(n - 1) : h[k + 1] = AddPair(capacity, lens, h[k], bins[k + 1])
                  /\ SmallPairs(capacity, lens, start, bins) = h[n]
<1> DEFINE Is(f, m) == f = [s \in SUBSET (1..m) |-> IF s = {} THEN start
                       ELSE AddPair(capacity, lens, f[s \ {Max(s)}], bins[Max(s)])]
           C == CHOOSE f : Is(f, n)
<1>1. SmallPairs(capacity, lens, start, bins) = C[1..n]
  <2>1. DOMAIN bins = 1..n
    OBVIOUS
  <2> QED BY <2>1, Zenon DEF SmallPairs, FoldLeft, MapThenFoldSet
<1>n. n \in Nat
  OBVIOUS
<1> HIDE DEF Max
<1>2. \E f : Is(f, n)
  <2> DEFINE S == {m \in 0..n : \E f : Is(f, m)}
  <2>1. 0 \in S
    <3> DEFINE f == [s \in SUBSET (1..0) |-> start]
    <3>1. SUBSET (1..0) = {{}}
      OBVIOUS
    <3>2. Is(f, 0)
      BY <3>1
    <3> HIDE DEF Is, f
    <3> QED BY <1>n, <3>2
  <2>2. \A m \in 0..(n - 1) : m \in S => m + 1 \in S
    <3> SUFFICES ASSUME NEW m \in 0..(n - 1), m \in S PROVE m + 1 \in S
      OBVIOUS
    <3>1. PICK f : Is(f, m)
      OBVIOUS
    <3> DEFINE g == [s \in SUBSET (1..(m + 1)) |-> IF s \in SUBSET (1..m) THEN f[s]
                        ELSE AddPair(capacity, lens, f[s \ {m + 1}], bins[m + 1])]
    <3>2. ASSUME NEW s \in SUBSET (1..(m + 1)), s # {}
          PROVE  g[s] = AddPair(capacity, lens, g[s \ {Max(s)}], bins[Max(s)])
      <4>m. m \in Nat /\ SUBSET (1..m) \subseteq SUBSET (1..(m + 1))
        BY <1>n
      <4>1. CASE s \in SUBSET (1..m)
        <5>1. s \ {Max(s)} \in SUBSET (1..m)
          BY <4>1
        <5>2. g[s] = f[s] /\ g[s \ {Max(s)}] = f[s \ {Max(s)}]
          BY <4>m, <4>1, <5>1
        <5>3. f[s] = AddPair(capacity, lens, f[s \ {Max(s)}], bins[Max(s)])
          BY <3>1, <3>2, <4>1
        <5> QED BY <5>2, <5>3
      <4>2. CASE s \notin SUBSET (1..m)
        <5>1. Max(s) = m + 1 /\ s \ {m + 1} \in SUBSET (1..m)
          BY <3>2, <4>m, <4>2, LastOne
        <5>2. g[s] = AddPair(capacity, lens, f[s \ {m + 1}], bins[m + 1])
          BY <4>2
        <5>3. g[s \ {m + 1}] = f[s \ {m + 1}]
          BY <4>m, <5>1
        <5> HIDE DEF g
        <5> QED BY <5>1, <5>2, <5>3
      <4> QED BY <4>1, <4>2
    <3>3. g[{}] = start
      BY <3>1
    <3>4. g = [s \in SUBSET (1..(m + 1)) |-> g[s]]
      OBVIOUS
    <3> HIDE DEF g
    <3>5. Is(g, m + 1)
      BY <3>2, <3>3, <3>4
    <3> HIDE DEF Is
    <3> QED BY <1>n, <3>5
  <2> HIDE DEF S
  <2>3. 0..n \subseteq S
    BY ONLY <1>n, <2>1, <2>2, UpTo
  <2>4. n \in S
    BY <1>n, <2>3
  <2> QED BY <2>4 DEF S
<1>3. Is(C, n)
  <2> HIDE DEF Is
  <2> QED BY <1>2
<1> HIDE DEF C
<1> DEFINE h == [k \in 0..n |-> C[1..k]]
<1>4. h[0] = start
  <2>1. 1..0 = {} /\ 0 \in 0..n /\ {} \in SUBSET (1..n)
    BY <1>n
  <2> QED BY <1>3, <2>1
<1>5. ASSUME NEW k \in 0..(n - 1) PROVE h[k + 1] = AddPair(capacity, lens, h[k], bins[k + 1])
  <2> DEFINE s == 1..(k + 1)
  <2>1. s \in SUBSET (1..n) /\ s # {} /\ Max(s) = k + 1 /\ s \ {k + 1} = 1..k
    BY <1>n, LastPlace
  <2>2. k \in 0..n /\ k + 1 \in 0..n /\ h[k] = C[1..k] /\ h[k + 1] = C[s]
    BY <1>n
  <2> HIDE DEF s, h
  <2>3. C[s] = AddPair(capacity, lens, C[s \ {Max(s)}], bins[Max(s)])
    BY <1>3, <2>1
  <2> HIDE DEF Is
  <2> QED BY <2>1, <2>2, <2>3
<1>6. h[n] = C[1..n]
  BY <1>n
<1> HIDE DEF h, Is
<1> QED BY <1>1, <1>4, <1>5, <1>6


\* Phase 4, bin by bin.
Filled(capacity, lens, start, bins) ==
    FoldLeft(LAMBDA acc, bin : FillBin(capacity, lens, acc, bin), start, bins)

\* The bins, one by one.
LEMMA FillUnfolds ==
    ASSUME NEW capacity, NEW lens, NEW start, NEW bins, NEW n \in Nat, DOMAIN bins = 1..n
    PROVE  \E h : /\ h[0] = start
                  /\ \A k \in 0..(n - 1) : h[k + 1] = FillBin(capacity, lens, h[k], bins[k + 1])
                  /\ Filled(capacity, lens, start, bins) = h[n]
<1> DEFINE Is(f, m) == f = [s \in SUBSET (1..m) |-> IF s = {} THEN start
                       ELSE FillBin(capacity, lens, f[s \ {Max(s)}], bins[Max(s)])]
           C == CHOOSE f : Is(f, n)
<1>1. Filled(capacity, lens, start, bins) = C[1..n]
  <2>1. DOMAIN bins = 1..n
    OBVIOUS
  <2> QED BY <2>1, Zenon DEF Filled, FoldLeft, MapThenFoldSet
<1>n. n \in Nat
  OBVIOUS
<1> HIDE DEF Max
<1>2. \E f : Is(f, n)
  <2> DEFINE S == {m \in 0..n : \E f : Is(f, m)}
  <2>1. 0 \in S
    <3> DEFINE f == [s \in SUBSET (1..0) |-> start]
    <3>1. SUBSET (1..0) = {{}}
      OBVIOUS
    <3>2. Is(f, 0)
      BY <3>1
    <3> HIDE DEF Is, f
    <3> QED BY <1>n, <3>2
  <2>2. \A m \in 0..(n - 1) : m \in S => m + 1 \in S
    <3> SUFFICES ASSUME NEW m \in 0..(n - 1), m \in S PROVE m + 1 \in S
      OBVIOUS
    <3>1. PICK f : Is(f, m)
      OBVIOUS
    <3> DEFINE g == [s \in SUBSET (1..(m + 1)) |-> IF s \in SUBSET (1..m) THEN f[s]
                        ELSE FillBin(capacity, lens, f[s \ {m + 1}], bins[m + 1])]
    <3>2. ASSUME NEW s \in SUBSET (1..(m + 1)), s # {}
          PROVE  g[s] = FillBin(capacity, lens, g[s \ {Max(s)}], bins[Max(s)])
      <4>m. m \in Nat /\ SUBSET (1..m) \subseteq SUBSET (1..(m + 1))
        BY <1>n
      <4>1. CASE s \in SUBSET (1..m)
        <5>1. s \ {Max(s)} \in SUBSET (1..m)
          BY <4>1
        <5>2. g[s] = f[s] /\ g[s \ {Max(s)}] = f[s \ {Max(s)}]
          BY <4>m, <4>1, <5>1
        <5>3. f[s] = FillBin(capacity, lens, f[s \ {Max(s)}], bins[Max(s)])
          BY <3>1, <3>2, <4>1
        <5> QED BY <5>2, <5>3
      <4>2. CASE s \notin SUBSET (1..m)
        <5>1. Max(s) = m + 1 /\ s \ {m + 1} \in SUBSET (1..m)
          BY <3>2, <4>m, <4>2, LastOne
        <5>2. g[s] = FillBin(capacity, lens, f[s \ {m + 1}], bins[m + 1])
          BY <4>2
        <5>3. g[s \ {m + 1}] = f[s \ {m + 1}]
          BY <4>m, <5>1
        <5> HIDE DEF g
        <5> QED BY <5>1, <5>2, <5>3
      <4> QED BY <4>1, <4>2
    <3>3. g[{}] = start
      BY <3>1
    <3>4. g = [s \in SUBSET (1..(m + 1)) |-> g[s]]
      OBVIOUS
    <3> HIDE DEF g
    <3>5. Is(g, m + 1)
      BY <3>2, <3>3, <3>4
    <3> HIDE DEF Is
    <3> QED BY <1>n, <3>5
  <2> HIDE DEF S
  <2>3. 0..n \subseteq S
    BY ONLY <1>n, <2>1, <2>2, UpTo
  <2>4. n \in S
    BY <1>n, <2>3
  <2> QED BY <2>4 DEF S
<1>3. Is(C, n)
  <2> HIDE DEF Is
  <2> QED BY <1>2
<1> HIDE DEF C
<1> DEFINE h == [k \in 0..n |-> C[1..k]]
<1>4. h[0] = start
  <2>1. 1..0 = {} /\ 0 \in 0..n /\ {} \in SUBSET (1..n)
    BY <1>n
  <2> QED BY <1>3, <2>1
<1>5. ASSUME NEW k \in 0..(n - 1) PROVE h[k + 1] = FillBin(capacity, lens, h[k], bins[k + 1])
  <2> DEFINE s == 1..(k + 1)
  <2>1. s \in SUBSET (1..n) /\ s # {} /\ Max(s) = k + 1 /\ s \ {k + 1} = 1..k
    BY <1>n, LastPlace
  <2>2. k \in 0..n /\ k + 1 \in 0..n /\ h[k] = C[1..k] /\ h[k + 1] = C[s]
    BY <1>n
  <2> HIDE DEF s, h
  <2>3. C[s] = FillBin(capacity, lens, C[s \ {Max(s)}], bins[Max(s)])
    BY <1>3, <2>1
  <2> HIDE DEF Is
  <2> QED BY <2>1, <2>2, <2>3
<1>6. h[n] = C[1..n]
  BY <1>n
<1> HIDE DEF h, Is
<1> QED BY <1>1, <1>4, <1>5, <1>6


\* Phase 5, row by row.
LEMMA EmptiestFitUnfolds ==
    ASSUME NEW capacity, NEW lens, NEW order, NEW n \in Nat, DOMAIN order = 1..n
    PROVE  \E h : /\ h[0] = << >>
                  /\ \A k \in 0..(n - 1) : h[k + 1] = IntoEmptiest(capacity, lens, h[k], order[k + 1])
                  /\ EmptiestFit(capacity, lens, order) = h[n]
<1> DEFINE Is(f, m) == f = [s \in SUBSET (1..m) |-> IF s = {} THEN << >>
                       ELSE IntoEmptiest(capacity, lens, f[s \ {Max(s)}], order[Max(s)])]
           C == CHOOSE f : Is(f, n)
<1>1. EmptiestFit(capacity, lens, order) = C[1..n]
  <2>1. DOMAIN order = 1..n
    OBVIOUS
  <2> QED BY <2>1, Zenon DEF EmptiestFit, FoldLeft, MapThenFoldSet
<1>n. n \in Nat
  OBVIOUS
<1> HIDE DEF Max
<1>2. \E f : Is(f, n)
  <2> DEFINE S == {m \in 0..n : \E f : Is(f, m)}
  <2>1. 0 \in S
    <3> DEFINE f == [s \in SUBSET (1..0) |-> << >>]
    <3>1. SUBSET (1..0) = {{}}
      OBVIOUS
    <3>2. Is(f, 0)
      BY <3>1
    <3> HIDE DEF Is, f
    <3> QED BY <1>n, <3>2
  <2>2. \A m \in 0..(n - 1) : m \in S => m + 1 \in S
    <3> SUFFICES ASSUME NEW m \in 0..(n - 1), m \in S PROVE m + 1 \in S
      OBVIOUS
    <3>1. PICK f : Is(f, m)
      OBVIOUS
    <3> DEFINE g == [s \in SUBSET (1..(m + 1)) |-> IF s \in SUBSET (1..m) THEN f[s]
                        ELSE IntoEmptiest(capacity, lens, f[s \ {m + 1}], order[m + 1])]
    <3>2. ASSUME NEW s \in SUBSET (1..(m + 1)), s # {}
          PROVE  g[s] = IntoEmptiest(capacity, lens, g[s \ {Max(s)}], order[Max(s)])
      <4>m. m \in Nat /\ SUBSET (1..m) \subseteq SUBSET (1..(m + 1))
        BY <1>n
      <4>1. CASE s \in SUBSET (1..m)
        <5>1. s \ {Max(s)} \in SUBSET (1..m)
          BY <4>1
        <5>2. g[s] = f[s] /\ g[s \ {Max(s)}] = f[s \ {Max(s)}]
          BY <4>m, <4>1, <5>1
        <5>3. f[s] = IntoEmptiest(capacity, lens, f[s \ {Max(s)}], order[Max(s)])
          BY <3>1, <3>2, <4>1
        <5> QED BY <5>2, <5>3
      <4>2. CASE s \notin SUBSET (1..m)
        <5>1. Max(s) = m + 1 /\ s \ {m + 1} \in SUBSET (1..m)
          BY <3>2, <4>m, <4>2, LastOne
        <5>2. g[s] = IntoEmptiest(capacity, lens, f[s \ {m + 1}], order[m + 1])
          BY <4>2
        <5>3. g[s \ {m + 1}] = f[s \ {m + 1}]
          BY <4>m, <5>1
        <5> HIDE DEF g
        <5> QED BY <5>1, <5>2, <5>3
      <4> QED BY <4>1, <4>2
    <3>3. g[{}] = << >>
      BY <3>1
    <3>4. g = [s \in SUBSET (1..(m + 1)) |-> g[s]]
      OBVIOUS
    <3> HIDE DEF g
    <3>5. Is(g, m + 1)
      BY <3>2, <3>3, <3>4
    <3> HIDE DEF Is
    <3> QED BY <1>n, <3>5
  <2> HIDE DEF S
  <2>3. 0..n \subseteq S
    BY ONLY <1>n, <2>1, <2>2, UpTo
  <2>4. n \in S
    BY <1>n, <2>3
  <2> QED BY <2>4 DEF S
<1>3. Is(C, n)
  <2> HIDE DEF Is
  <2> QED BY <1>2
<1> HIDE DEF C
<1> DEFINE h == [k \in 0..n |-> C[1..k]]
<1>4. h[0] = << >>
  <2>1. 1..0 = {} /\ 0 \in 0..n /\ {} \in SUBSET (1..n)
    BY <1>n
  <2> QED BY <1>3, <2>1
<1>5. ASSUME NEW k \in 0..(n - 1) PROVE h[k + 1] = IntoEmptiest(capacity, lens, h[k], order[k + 1])
  <2> DEFINE s == 1..(k + 1)
  <2>1. s \in SUBSET (1..n) /\ s # {} /\ Max(s) = k + 1 /\ s \ {k + 1} = 1..k
    BY <1>n, LastPlace
  <2>2. k \in 0..n /\ k + 1 \in 0..n /\ h[k] = C[1..k] /\ h[k + 1] = C[s]
    BY <1>n
  <2> HIDE DEF s, h
  <2>3. C[s] = IntoEmptiest(capacity, lens, C[s \ {Max(s)}], order[Max(s)])
    BY <1>3, <2>1
  <2> HIDE DEF Is
  <2> QED BY <2>1, <2>2, <2>3
<1>6. h[n] = C[1..n]
  BY <1>n
<1> HIDE DEF h, Is
<1> QED BY <1>1, <1>4, <1>5, <1>6


\* The last phase packs every row that is left.
LEMMA EmptiestFitPacks ==
    ASSUME NEW capacity, NEW lens, NEW S, Fit(capacity, lens, S), NEW order, Lists(order, S)
    PROVE  Packs(capacity, lens, EmptiestFit(capacity, lens, order), S)
<1> DEFINE n == Len(order)
           total == EmptiestFit(capacity, lens, order)
<1>t. total = EmptiestFit(capacity, lens, order)
  OBVIOUS
<1>1. n \in Nat /\ DOMAIN order = 1..n /\ order \in Seq(S)
  BY DEF Lists
<1>2. PICK h : /\ h[0] = << >>
               /\ \A k \in 0..(n - 1) : h[k + 1] = IntoEmptiest(capacity, lens, h[k], order[k + 1])
               /\ total = h[n]
  <2> HIDE DEF n, total
  <2> QED BY ONLY <1>t, <1>1, EmptiestFitUnfolds, SMTT(30)
<1>3. /\ Firsts(order, 0) = {} /\ Firsts(order, n) = S
      /\ \A k \in 0..(n - 1) :
             /\ order[k + 1] \in S /\ order[k + 1] \notin Firsts(order, k)
             /\ Firsts(order, k + 1) = Firsts(order, k) \cup {order[k + 1]}
  BY FirstsGrow
<1> HIDE DEF n, total
<1> DEFINE Good == {k \in 0..n : Packs(capacity, lens, h[k], Firsts(order, k))}
<1>4. 0 \in Good
  <2>1. Packs(capacity, lens, << >>, {}) /\ 0 \in 0..n
    BY <1>1, NoBins
  <2>2. h[0] = << >> /\ Firsts(order, 0) = {}
    BY <1>2, <1>3
  <2> QED BY <2>1, <2>2
<1>5. \A k \in 0..(n - 1) : k \in Good => k + 1 \in Good
  <2> SUFFICES ASSUME NEW k \in 0..(n - 1), k \in Good PROVE k + 1 \in Good
    OBVIOUS
  <2> DEFINE i == order[k + 1]
             done == Firsts(order, k)
             bins == h[k]
  <2>1. i \in S /\ i \notin done /\ Firsts(order, k + 1) = done \cup {i}
    BY <1>3
  <2>2. Packs(capacity, lens, bins, done) /\ h[k + 1] = IntoEmptiest(capacity, lens, bins, i)
    BY <1>2
  <2>3. capacity \in Nat /\ lens[i] \in Nat /\ lens[i] <= capacity
    BY <2>1 DEF Fit
  <2> HIDE DEF i, done, bins, Good
  <2>4. Packs(capacity, lens, IntoEmptiest(capacity, lens, bins, i), done \cup {i})
    BY ONLY <2>1, <2>2, <2>3, IntoEmptiestPacks
  <2>5. k + 1 \in 0..n
    BY <1>1
  <2> QED BY <2>1, <2>2, <2>4, <2>5 DEF Good
<1> HIDE DEF Good
<1>6. 0..n \subseteq Good
  BY ONLY <1>1, <1>4, <1>5, UpTo
<1>7. n \in Good
  BY <1>1, <1>6
<1> QED BY <1>2, <1>3, <1>7 DEF Good, total

\* Before anything is taken from the list.
LEMMA NothingTaken ==
    ASSUME NEW capacity, NEW lens, NEW M, NEW list, Lists(list, M)
    PROVE  Taking(capacity, lens, [bins |-> << >>, list |-> list], {}, M)
<1> DEFINE acc == [bins |-> << >>, list |-> list]
<1>1. acc.bins = << >> /\ acc.list = list /\ acc = [bins |-> acc.bins, list |-> acc.list]
  OBVIOUS
<1> HIDE DEF acc
<1>2. M \in SUBSET M /\ {} \cup (M \ M) = {}
  OBVIOUS
<1>3. Packs(capacity, lens, acc.bins, {} \cup (M \ M)) /\ Lists(acc.list, M)
  BY <1>1, <1>2, NoBins
<1>4. Taking(capacity, lens, acc, {}, M)
  BY <1>1, <1>2, <1>3 DEF Taking, Taken
<1> QED BY <1>4 DEF acc

\* Phases 1 and 2: the large rows are in bins, each in one of its own, and with them
\* the medium rows that are not in the list any more.
LEMMA WithMediumTakes ==
    ASSUME NEW capacity, NEW lens, NEW S, Fit(capacity, lens, S), NEW larges, Lists(larges, S),
           NEW M, Measured(lens, M), S \cap M = {}, NEW start,
           Taking(capacity, lens, start, {}, M)
    PROVE  Taking(capacity, lens, LargeAndMedium(capacity, lens, start, larges), S, M)
<1> DEFINE n == Len(larges)
           total == LargeAndMedium(capacity, lens, start, larges)
<1>1. n \in Nat /\ DOMAIN larges = 1..n /\ larges \in Seq(S)
  BY DEF Lists
<1>t. total = LargeAndMedium(capacity, lens, start, larges)
  OBVIOUS
<1>3. /\ Firsts(larges, 0) = {} /\ Firsts(larges, n) = S
      /\ \A k \in 0..(n - 1) :
             /\ larges[k + 1] \in S /\ larges[k + 1] \notin Firsts(larges, k)
             /\ Firsts(larges, k + 1) = Firsts(larges, k) \cup {larges[k + 1]}
  BY FirstsGrow
<1> HIDE DEF n, total
<1>2. PICK h : /\ h[0] = start
               /\ \A k \in 0..(n - 1) : h[k + 1] = AddLarge(capacity, lens, h[k], larges[k + 1])
               /\ total = h[n]
  BY ONLY <1>1, <1>t, WithMediumUnfolds
<1>s. \A k \in 0..n : Firsts(larges, k) \subseteq S
  BY <1>1 DEF Firsts
<1> DEFINE Good == {k \in 0..n : Taking(capacity, lens, h[k], Firsts(larges, k), M)}
<1>4. 0 \in Good
  <2>1. h[0] = start /\ Firsts(larges, 0) = {} /\ 0 \in 0..n
    BY <1>1, <1>2, <1>3
  <2> QED BY <2>1
<1>5. \A k \in 0..(n - 1) : k \in Good => k + 1 \in Good
  <2> SUFFICES ASSUME NEW k \in 0..(n - 1), k \in Good PROVE k + 1 \in Good
    OBVIOUS
  <2> DEFINE i == larges[k + 1]
             done == Firsts(larges, k)
             acc == h[k]
  <2>1. i \in S /\ i \notin done /\ Firsts(larges, k + 1) = done \cup {i}
    BY <1>3
  <2>2. Taking(capacity, lens, acc, done, M) /\ h[k + 1] = AddLarge(capacity, lens, acc, i)
    BY <1>2
  <2>3. capacity \in Nat /\ lens[i] \in Nat /\ lens[i] <= capacity /\ i \notin M
    BY <2>1 DEF Fit
  <2>6. done \cap M = {} /\ Measured(lens, M)
    BY <1>1, <1>s
  <2> HIDE DEF i, done, acc, Good
  <2>4. Taking(capacity, lens, AddLarge(capacity, lens, acc, i), done \cup {i}, M)
    BY ONLY <2>1, <2>2, <2>3, <2>6, AddLargeTakes
  <2>5. k + 1 \in 0..n
    BY <1>1
  <2> QED BY <2>1, <2>2, <2>4, <2>5 DEF Good
<1> HIDE DEF Good
<1>6. 0..n \subseteq Good
  BY ONLY <1>1, <1>4, <1>5, UpTo
<1>7. n \in Good
  BY <1>1, <1>6
<1> QED BY <1>2, <1>3, <1>7 DEF Good, total

\* Phase 3 keeps what is in the bins and adds what it takes from the list.
LEMMA WithSmallPairsTakes ==
    ASSUME NEW capacity, capacity \in Nat, NEW lens, NEW S, NEW bins,
           Packs(capacity, lens, bins, S), NEW M, Measured(lens, M), S \cap M = {},
           NEW start, Taking(capacity, lens, start, {}, M)
    PROVE  Taking(capacity, lens, SmallPairs(capacity, lens, start, bins), S, M)
<1> DEFINE n == Len(bins)
           total == SmallPairs(capacity, lens, start, bins)
<1>1. n \in Nat /\ DOMAIN bins = 1..n /\ Holds(bins, S)
  BY BinsTyped DEF Packs, Holds
<1>t. total = SmallPairs(capacity, lens, start, bins)
  OBVIOUS
<1>3. /\ InFirst(bins, 0) = {} /\ InFirst(bins, n) = S
      /\ \A b \in 0..(n - 1) :
             /\ Lists(bins[b + 1], InBin(bins, b + 1)) /\ Len(bins[b + 1]) > 0
             /\ InBin(bins, b + 1) \subseteq S
             /\ InFirst(bins, b) \cap InBin(bins, b + 1) = {}
             /\ InFirst(bins, b + 1) = InFirst(bins, b) \cup InBin(bins, b + 1)
  BY <1>1, BinsGrow
<1>l. Measured(lens, S) /\ \A b \in 1..n : Load(lens, bins[b]) <= capacity
  BY DEF Packs
<1> HIDE DEF n, total
<1>2. PICK h : /\ h[0] = start
               /\ \A k \in 0..(n - 1) : h[k + 1] = AddPair(capacity, lens, h[k], bins[k + 1])
               /\ total = h[n]
  BY ONLY <1>1, <1>t, WithSmallPairsUnfolds
<1> DEFINE Good == {k \in 0..n : InFirst(bins, k) \subseteq S
                        /\ Taking(capacity, lens, h[k], InFirst(bins, k), M)}
<1>4. 0 \in Good
  <2>1. h[0] = start /\ InFirst(bins, 0) = {} /\ 0 \in 0..n
    BY <1>1, <1>2, <1>3
  <2> QED BY <2>1
<1>5. \A k \in 0..(n - 1) : k \in Good => k + 1 \in Good
  <2> SUFFICES ASSUME NEW k \in 0..(n - 1), k \in Good PROVE k + 1 \in Good
    OBVIOUS
  <2> DEFINE bin == bins[k + 1]
             B == InBin(bins, k + 1)
             done == InFirst(bins, k)
             acc == h[k]
  <2>0. k + 1 \in 1..n /\ k + 1 \in 0..n
    BY <1>1
  <2>1. /\ Lists(bin, B) /\ Len(bin) > 0 /\ B \subseteq S /\ done \cap B = {}
        /\ InFirst(bins, k + 1) = done \cup B
    BY <1>3
  <2>2. /\ Taking(capacity, lens, acc, done, M) /\ done \subseteq S
        /\ h[k + 1] = AddPair(capacity, lens, acc, bin)
    BY <1>2
  <2>3. Load(lens, bin) <= capacity
    BY <1>l, <2>0
  <2> HIDE DEF bin, B, done, acc, Good
  <2>6. done \cap M = {} /\ B \cap M = {} /\ Measured(lens, M) /\ Measured(lens, B)
    BY <1>l, <2>1, <2>2 DEF Measured
  <2>7. capacity \in Nat
    OBVIOUS
  <2>4. Taking(capacity, lens, AddPair(capacity, lens, acc, bin), done \cup B, M)
    BY ONLY <2>1, <2>2, <2>3, <2>6, <2>7, AddPairTakes
  <2> QED BY <2>0, <2>1, <2>2, <2>4 DEF Good
<1> HIDE DEF Good
<1>6. 0..n \subseteq Good
  BY ONLY <1>1, <1>4, <1>5, UpTo
<1>7. n \in Good
  BY <1>1, <1>6
<1> QED BY <1>2, <1>3, <1>7 DEF Good, total

\* So does phase 4.
LEMMA FillTakes ==
    ASSUME NEW capacity, capacity \in Nat, NEW lens, NEW S, NEW bins,
           Packs(capacity, lens, bins, S), NEW M, Measured(lens, M), S \cap M = {},
           NEW start, Taking(capacity, lens, start, {}, M)
    PROVE  Taking(capacity, lens, Filled(capacity, lens, start, bins), S, M)
<1> DEFINE n == Len(bins)
           total == Filled(capacity, lens, start, bins)
<1>1. n \in Nat /\ DOMAIN bins = 1..n /\ Holds(bins, S)
  BY BinsTyped DEF Packs, Holds
<1>t. total = Filled(capacity, lens, start, bins)
  OBVIOUS
<1>3. /\ InFirst(bins, 0) = {} /\ InFirst(bins, n) = S
      /\ \A b \in 0..(n - 1) :
             /\ Lists(bins[b + 1], InBin(bins, b + 1)) /\ Len(bins[b + 1]) > 0
             /\ InBin(bins, b + 1) \subseteq S
             /\ InFirst(bins, b) \cap InBin(bins, b + 1) = {}
             /\ InFirst(bins, b + 1) = InFirst(bins, b) \cup InBin(bins, b + 1)
  BY <1>1, BinsGrow
<1>l. Measured(lens, S) /\ \A b \in 1..n : Load(lens, bins[b]) <= capacity
  BY DEF Packs
<1> HIDE DEF n, total
<1>2. PICK h : /\ h[0] = start
               /\ \A k \in 0..(n - 1) : h[k + 1] = FillBin(capacity, lens, h[k], bins[k + 1])
               /\ total = h[n]
  BY ONLY <1>1, <1>t, FillUnfolds
<1> DEFINE Good == {k \in 0..n : InFirst(bins, k) \subseteq S
                        /\ Taking(capacity, lens, h[k], InFirst(bins, k), M)}
<1>4. 0 \in Good
  <2>1. h[0] = start /\ InFirst(bins, 0) = {} /\ 0 \in 0..n
    BY <1>1, <1>2, <1>3
  <2> QED BY <2>1
<1>5. \A k \in 0..(n - 1) : k \in Good => k + 1 \in Good
  <2> SUFFICES ASSUME NEW k \in 0..(n - 1), k \in Good PROVE k + 1 \in Good
    OBVIOUS
  <2> DEFINE bin == bins[k + 1]
             B == InBin(bins, k + 1)
             done == InFirst(bins, k)
             acc == h[k]
  <2>0. k + 1 \in 1..n /\ k + 1 \in 0..n
    BY <1>1
  <2>1. /\ Lists(bin, B) /\ Len(bin) > 0 /\ B \subseteq S /\ done \cap B = {}
        /\ InFirst(bins, k + 1) = done \cup B
    BY <1>3
  <2>2. /\ Taking(capacity, lens, acc, done, M) /\ done \subseteq S
        /\ h[k + 1] = FillBin(capacity, lens, acc, bin)
    BY <1>2
  <2>3. Load(lens, bin) <= capacity
    BY <1>l, <2>0
  <2> HIDE DEF bin, B, done, acc, Good
  <2>6. done \cap M = {} /\ B \cap M = {} /\ Measured(lens, M) /\ Measured(lens, B)
    BY <1>l, <2>1, <2>2 DEF Measured
  <2>7. capacity \in Nat
    OBVIOUS
  <2>4. Taking(capacity, lens, FillBin(capacity, lens, acc, bin), done \cup B, M)
    BY ONLY <2>1, <2>2, <2>3, <2>6, <2>7, FillBinTakes
  <2> QED BY <2>0, <2>1, <2>2, <2>4 DEF Good
<1> HIDE DEF Good
<1>6. 0..n \subseteq Good
  BY ONLY <1>1, <1>4, <1>5, UpTo
<1>7. n \in Good
  BY <1>1, <1>6
<1> QED BY <1>2, <1>3, <1>7 DEF Good, total

-----------------------------------------------------------------------------
(* The packers as PolicyBatches calls them. *)

\* Bins of some rows and bins of others.
LEMMA PacksJoined ==
    ASSUME NEW capacity, NEW lens, NEW S, NEW x, Packs(capacity, lens, x, S),
           NEW T, NEW y, Packs(capacity, lens, y, T), S \cap T = {}
    PROVE  Packs(capacity, lens, x \o y, S \cup T)
<1> DEFINE U == S \cup T
           new == x \o y
           n == Len(x)
           m == Len(y)
<1>1. /\ Holds(x, S) /\ Holds(y, T) /\ x \in Seq(Seq(S)) /\ y \in Seq(Seq(T))
      /\ \A b \in 1..n : Load(lens, x[b]) <= capacity
      /\ \A b \in 1..m : Load(lens, y[b]) <= capacity
      /\ n \in Nat /\ m \in Nat
  BY DEF Packs, Holds
<1>2. Holds(new, U)
  BY <1>1, TwoHalves
<1>3. \A b \in 1..n : x[b] \in Seq(U)
  <2> SUFFICES ASSUME NEW b \in 1..n PROVE x[b] \in Seq(U)
    OBVIOUS
  <2>1. x[b] \in Seq(S)
    BY <1>1
  <2> QED BY <2>1
<1>4. \A b \in 1..m : y[b] \in Seq(U)
  <2> SUFFICES ASSUME NEW b \in 1..m PROVE y[b] \in Seq(U)
    OBVIOUS
  <2>1. y[b] \in Seq(T)
    BY <1>1
  <2> QED BY <2>1
<1>5. Measured(lens, U)
  BY DEF Packs, Measured
<1> HIDE DEF U
<1>6. x \in Seq(Seq(U)) /\ y \in Seq(Seq(U))
  BY <1>1, <1>3, <1>4, IsSeqOf
<1>7. new \in Seq(Seq(U)) /\ Joins(new, x, y)
  BY ONLY <1>6, JoinedOf
<1> HIDE DEF new
<1>8. ASSUME NEW b \in 1..Len(new) PROVE Load(lens, new[b]) <= capacity
  <2>1. Len(new) = n + m
    BY <1>7 DEF Joins
  <2>2. CASE b \in 1..n
    <3>1. new[b] = x[b]
      BY <1>7, <2>2 DEF Joins
    <3> QED BY <1>1, <2>2, <3>1
  <2>3. CASE b - n \in 1..m
    <3>1. n + (b - n) = b
      BY <1>1
    <3>2. new[b] = y[b - n]
      BY <1>7, <2>3, <3>1 DEF Joins
    <3> QED BY <1>1, <2>3, <3>2
  <2> HIDE DEF n, m
  <2>4. b \in 1..n \/ b - n \in 1..m
    BY <1>1, <2>1
  <2> QED BY <2>2, <2>3, <2>4
<1>9. Packs(capacity, lens, new, U)
  BY <1>2, <1>5, <1>8 DEF Packs
<1> QED BY <1>9 DEF new, U

\* Modified first fit decreasing packs every row, however many phases a row is passed
\* over in.
THEOREM ModifiedFirstFitDecreasingPacks ==
    ASSUME NEW capacity, NEW lens, NEW n \in Nat, DOMAIN lens = 1..n,
           Fit(capacity, lens, 1..n)
    PROVE  Packs(capacity, lens, ModifiedFirstFitDecreasing(capacity, lens), 1..n)
<1> DEFINE all == 1..n
           Lg == Large(capacity, lens)
           Md == Medium(capacity, lens)
           Sm == Small(capacity, lens)
           larges == Descending(lens, Lg)
           start1 == [bins |-> << >>, list |-> Descending(lens, Md)]
           one == LargeAndMedium(capacity, lens, start1, larges)
           start2 == [bins |-> << >>, list |-> Ascending(lens, Sm)]
           two == SmallPairs(capacity, lens, start2, Reverse(one.bins))
           packed == UNION {ToSet(two.bins[b]) : b \in DOMAIN two.bins}
           start3 == [bins |-> << >>, list |-> Descending(lens, all \ packed)]
           three == Filled(capacity, lens, start3, two.bins)
<1>1. ModifiedFirstFitDecreasing(capacity, lens)
          = three.bins \o EmptiestFit(capacity, lens, three.list)
  BY Zenon DEF ModifiedFirstFitDecreasing, WithMedium, WithSmallPairs, Fill,
               LargeAndMedium, SmallPairs, Filled
<1>2. capacity \in Nat /\ \A i \in all : lens[i] \in Nat /\ lens[i] <= capacity
  BY DEF Fit
<1>3. /\ Lg \subseteq all /\ Md \subseteq all /\ Sm \subseteq all
      /\ Lg \cap Md = {} /\ Lg \cap Sm = {} /\ Md \cap Sm = {}
  BY <1>2 DEF Large, Medium, Small
<1>4. IsFiniteSet(all) /\ all \subseteq Nat
  BY FS_Interval
<1> HIDE DEF all, Lg, Md, Sm
<1>5. ASSUME NEW S, S \subseteq all
      PROVE  /\ IsFiniteSet(S) /\ S \subseteq Nat /\ \A i \in S : lens[i] \in Nat
             /\ Measured(lens, S) /\ Fit(capacity, lens, S)
             /\ Lists(Ascending(lens, S), S) /\ Lists(Descending(lens, S), S)
  <2>1. IsFiniteSet(S) /\ S \subseteq Nat /\ \A i \in S : lens[i] \in Nat
    BY <1>2, <1>4, <1>5, FS_Subset
  <2>2. Measured(lens, S) /\ Fit(capacity, lens, S)
    BY <1>2, <1>5 DEF Measured, Fit
  <2> QED BY <2>1, <2>2, AscendingLists, DescendingLists
<1>6. Taking(capacity, lens, one, Lg, Md)
  <2>1. Taking(capacity, lens, start1, {}, Md)
    <3>1. Lists(Descending(lens, Md), Md)
      BY <1>3, <1>5
    <3> QED BY <3>1, NothingTaken
  <2>2. Fit(capacity, lens, Lg) /\ Lists(larges, Lg) /\ Measured(lens, Md)
    BY <1>3, <1>5
  <2> HIDE DEF start1, larges
  <2> QED BY <1>3, <2>1, <2>2, WithMediumTakes
<1> HIDE DEF one
<1>7. PICK R1 \in SUBSET Md : Packs(capacity, lens, one.bins, Lg \cup (Md \ R1))
  BY <1>6 DEF Taking, Taken
<1> DEFINE A == Lg \cup (Md \ R1)
<1>8. A \subseteq all /\ A \cap Sm = {} /\ Packs(capacity, lens, Reverse(one.bins), A)
  BY <1>3, <1>7, PacksBackwards
<1> HIDE DEF A
<1>9. Taking(capacity, lens, two, A, Sm)
  <2>1. Taking(capacity, lens, start2, {}, Sm)
    <3>1. Lists(Ascending(lens, Sm), Sm)
      BY <1>3, <1>5
    <3> QED BY <3>1, NothingTaken
  <2>2. Measured(lens, Sm)
    BY <1>3, <1>5
  <2> HIDE DEF start2
  <2> QED BY <1>2, <1>8, <2>1, <2>2, WithSmallPairsTakes
<1> HIDE DEF two
<1>10. PICK R2 \in SUBSET Sm : Packs(capacity, lens, two.bins, A \cup (Sm \ R2))
  BY <1>9 DEF Taking, Taken
<1> DEFINE P == A \cup (Sm \ R2)
<1>11. P \subseteq all
  BY <1>3, <1>8
<1> HIDE DEF P
<1>12. packed = P
  <2>1. Holds(two.bins, P)
    BY <1>10 DEF Packs, P
  <2> DEFINE bins == two.bins
  <2>2. /\ DOMAIN bins = 1..Len(bins)
        /\ \A b \in 1..Len(bins) : DOMAIN bins[b] = 1..Len(bins[b])
        /\ \A b \in 1..Len(bins) : \A k \in 1..Len(bins[b]) : bins[b][k] \in P
    <3>1. bins \in Seq(Seq(P))
      BY <2>1 DEF Holds
    <3>2. DOMAIN bins = 1..Len(bins) /\ \A b \in 1..Len(bins) : bins[b] \in Seq(P)
      BY <3>1
    <3> HIDE DEF bins
    <3>3. ASSUME NEW b \in 1..Len(bins)
          PROVE  DOMAIN bins[b] = 1..Len(bins[b]) /\ \A k \in 1..Len(bins[b]) : bins[b][k] \in P
      <4>1. bins[b] \in Seq(P)
        BY <3>2
      <4> QED BY <4>1
    <3> QED BY <3>2, <3>3
  <2>3. \A i \in P : \E b \in 1..Len(bins) : \E k \in 1..Len(bins[b]) : bins[b][k] = i
    BY <2>1 DEF Holds
  <2>4. packed = UNION {ToSet(bins[b]) : b \in DOMAIN bins}
    OBVIOUS
  <2> HIDE DEF bins, packed
  <2>5. ASSUME NEW i \in packed PROVE i \in P
    BY <2>2, <2>4, <2>5 DEF ToSet
  <2>6. ASSUME NEW i \in P PROVE i \in packed
    <3>1. PICK b \in 1..Len(bins) : \E k \in 1..Len(bins[b]) : bins[b][k] = i
      BY <2>3
    <3>2. i \in ToSet(bins[b])
      BY <2>2, <3>1 DEF ToSet
    <3> QED BY <2>2, <2>4, <3>2
  <2> QED BY <2>5, <2>6
<1> HIDE DEF packed
<1> DEFINE D == all \ packed
<1>13. D \subseteq all /\ P \cap D = {} /\ P \cup D = all
  BY <1>11, <1>12
<1> HIDE DEF D
<1>14. Taking(capacity, lens, three, P, D)
  <2>1. Taking(capacity, lens, start3, {}, D)
    <3>1. Lists(Descending(lens, D), D)
      BY <1>5, <1>13
    <3> QED BY <3>1, NothingTaken DEF D
  <2>2. Measured(lens, D) /\ Packs(capacity, lens, two.bins, P)
    BY <1>5, <1>10, <1>13 DEF P
  <2> HIDE DEF start3
  <2> QED BY <1>2, <1>13, <2>1, <2>2, FillTakes
<1> HIDE DEF three
<1>15. PICK R3 \in SUBSET D :
           Lists(three.list, R3) /\ Packs(capacity, lens, three.bins, P \cup (D \ R3))
  BY <1>14 DEF Taking, Taken
<1>16. Packs(capacity, lens, EmptiestFit(capacity, lens, three.list), R3)
  <2>1. Fit(capacity, lens, R3)
    BY <1>5, <1>13
  <2> QED BY <1>15, <2>1, EmptiestFitPacks
<1>17. (P \cup (D \ R3)) \cap R3 = {} /\ (P \cup (D \ R3)) \cup R3 = all
  BY <1>13
<1>18. Packs(capacity, lens, three.bins \o EmptiestFit(capacity, lens, three.list), all)
  <2>1. Packs(capacity, lens, three.bins \o EmptiestFit(capacity, lens, three.list),
              (P \cup (D \ R3)) \cup R3)
    BY ONLY <1>15, <1>16, <1>17, PacksJoined
  <2> QED BY <1>17, <2>1
<1> QED BY <1>1, <1>18 DEF all

-----------------------------------------------------------------------------
(* _adjust_bin_count. *)

\* A list is as long as it has elements.
LEMMA ListLength ==
    ASSUME NEW S, NEW list, Lists(list, S)
    PROVE  IsFiniteSet(S) /\ Cardinality(S) = Len(list)
<1> DEFINE n == Len(list)
           f == [k \in 1..n |-> list[k]]
<1>1. n \in Nat /\ f \in [1..n -> S]
  BY DEF Lists
<1>2. \A k, l \in 1..n : list[k] = list[l] => k = l
  BY DEF Lists
<1>3. \A i \in S : \E k \in 1..n : list[k] = i
  BY DEF Lists
<1> HIDE DEF n
<1>4. \A k \in 1..n : f[k] = list[k]
  OBVIOUS
<1> HIDE DEF f
<1>5. \A k, l \in 1..n : f[k] = f[l] => k = l
  BY <1>2, <1>4
<1> DEFINE image == {f[k] : k \in 1..n}
<1>6. image = S
  BY <1>1, <1>3, <1>4
<1>7. IsFiniteSet(1..n) /\ Cardinality(1..n) = n
  <2>1. 0 \in Int /\ 1 \in Int /\ n \in Int /\ n - 1 + 1 = n /\ (1 > n => n = 0)
    BY <1>1
  <2> QED BY <2>1, FS_Interval
<1>8. IsFiniteSet(image) /\ Cardinality(image) = Cardinality(1..n)
  <2> DEFINE I == 1..n
  <2>1. IsFiniteSet(I) /\ f \in [I -> S] /\ \A k, l \in I : f[k] = f[l] => k = l
    BY <1>1, <1>5, <1>7
  <2> DEFINE values == {f[k] : k \in I}
  <2>2. image = values
    OBVIOUS
  <2> HIDE DEF I, image
  <2>3. IsFiniteSet(values) /\ Cardinality(values) = Cardinality(I)
    BY <2>1, FiniteImage
  <2> QED BY <2>2, <2>3 DEF I
<1> QED BY <1>6, <1>7, <1>8 DEF n

\* The rows of bins are counted bin by bin.
RowCount(bins) == FoldLeft(LAMBDA sum, bin : sum + Len(bin), 0, bins)

\* The count after each bin.
LEMMA RowsUnfold ==
    ASSUME NEW bins, NEW n \in Nat, DOMAIN bins = 1..n
    PROVE  \E h : /\ h[0] = 0
                  /\ \A k \in 0..(n - 1) : h[k + 1] = h[k] + Len(bins[k + 1])
                  /\ RowCount(bins) = h[n]
<1> DEFINE Is(f, m) == f = [s \in SUBSET (1..m) |-> IF s = {} THEN 0
                       ELSE f[s \ {Max(s)}] + Len(bins[Max(s)])]
           C == CHOOSE f : Is(f, n)
<1>1. RowCount(bins) = C[1..n]
  <2>1. DOMAIN bins = 1..n
    OBVIOUS
  <2> QED BY <2>1, Zenon DEF RowCount, FoldLeft, MapThenFoldSet
<1>n. n \in Nat
  OBVIOUS
<1> HIDE DEF Max
<1>2. \E f : Is(f, n)
  <2> DEFINE S == {m \in 0..n : \E f : Is(f, m)}
  <2>1. 0 \in S
    <3> DEFINE f == [s \in SUBSET (1..0) |-> 0]
    <3>1. SUBSET (1..0) = {{}}
      OBVIOUS
    <3>2. Is(f, 0)
      BY <3>1
    <3> HIDE DEF Is, f
    <3> QED BY <1>n, <3>2
  <2>2. \A m \in 0..(n - 1) : m \in S => m + 1 \in S
    <3> SUFFICES ASSUME NEW m \in 0..(n - 1), m \in S PROVE m + 1 \in S
      OBVIOUS
    <3>1. PICK f : Is(f, m)
      OBVIOUS
    <3> DEFINE g == [s \in SUBSET (1..(m + 1)) |-> IF s \in SUBSET (1..m) THEN f[s]
                        ELSE f[s \ {m + 1}] + Len(bins[m + 1])]
    <3>2. ASSUME NEW s \in SUBSET (1..(m + 1)), s # {}
          PROVE  g[s] = g[s \ {Max(s)}] + Len(bins[Max(s)])
      <4>m. m \in Nat /\ SUBSET (1..m) \subseteq SUBSET (1..(m + 1))
        BY <1>n
      <4>1. CASE s \in SUBSET (1..m)
        <5>1. s \ {Max(s)} \in SUBSET (1..m)
          BY <4>1
        <5>2. g[s] = f[s] /\ g[s \ {Max(s)}] = f[s \ {Max(s)}]
          BY <4>m, <4>1, <5>1
        <5>3. f[s] = f[s \ {Max(s)}] + Len(bins[Max(s)])
          BY <3>1, <3>2, <4>1
        <5> QED BY <5>2, <5>3
      <4>2. CASE s \notin SUBSET (1..m)
        <5>1. Max(s) = m + 1 /\ s \ {m + 1} \in SUBSET (1..m)
          BY <3>2, <4>m, <4>2, LastOne
        <5>2. g[s] = f[s \ {m + 1}] + Len(bins[m + 1])
          BY <4>2
        <5>3. g[s \ {m + 1}] = f[s \ {m + 1}]
          BY <4>m, <5>1
        <5> HIDE DEF g
        <5> QED BY <5>1, <5>2, <5>3
      <4> QED BY <4>1, <4>2
    <3>3. g[{}] = 0
      BY <3>1
    <3>4. g = [s \in SUBSET (1..(m + 1)) |-> g[s]]
      OBVIOUS
    <3> HIDE DEF g
    <3>5. Is(g, m + 1)
      BY <3>2, <3>3, <3>4
    <3> HIDE DEF Is
    <3> QED BY <1>n, <3>5
  <2> HIDE DEF S
  <2>3. 0..n \subseteq S
    BY ONLY <1>n, <2>1, <2>2, UpTo
  <2>4. n \in S
    BY <1>n, <2>3
  <2> QED BY <2>4 DEF S
<1>3. Is(C, n)
  <2> HIDE DEF Is
  <2> QED BY <1>2
<1> HIDE DEF C
<1> DEFINE h == [k \in 0..n |-> C[1..k]]
<1>4. h[0] = 0
  <2>1. 1..0 = {} /\ 0 \in 0..n /\ {} \in SUBSET (1..n)
    BY <1>n
  <2> QED BY <1>3, <2>1
<1>5. ASSUME NEW k \in 0..(n - 1) PROVE h[k + 1] = h[k] + Len(bins[k + 1])
  <2> DEFINE s == 1..(k + 1)
  <2>1. s \in SUBSET (1..n) /\ s # {} /\ Max(s) = k + 1 /\ s \ {k + 1} = 1..k
    BY <1>n, LastPlace
  <2>2. k \in 0..n /\ k + 1 \in 0..n /\ h[k] = C[1..k] /\ h[k + 1] = C[s]
    BY <1>n
  <2> HIDE DEF s, h
  <2>3. C[s] = C[s \ {Max(s)}] + Len(bins[Max(s)])
    BY <1>3, <2>1
  <2> HIDE DEF Is
  <2> QED BY <2>1, <2>2, <2>3
<1>6. h[n] = C[1..n]
  BY <1>n
<1> HIDE DEF h, Is
<1> QED BY <1>1, <1>4, <1>5, <1>6


\* Turn by turn, another bin is split.
SplitUp(sources, bins, turns) == FoldLeft(LAMBDA acc, turn : Split(sources, acc), bins, turns)

\* The bins after each turn.
LEMMA SplitUpUnfolds ==
    ASSUME NEW sources, NEW bins, NEW turns, NEW n \in Nat, DOMAIN turns = 1..n
    PROVE  \E h : /\ h[0] = bins
                  /\ \A k \in 0..(n - 1) : h[k + 1] = Split(sources, h[k])
                  /\ SplitUp(sources, bins, turns) = h[n]
<1> DEFINE Is(f, m) == f = [s \in SUBSET (1..m) |-> IF s = {} THEN bins
                       ELSE Split(sources, f[s \ {Max(s)}])]
           C == CHOOSE f : Is(f, n)
<1>1. SplitUp(sources, bins, turns) = C[1..n]
  <2>1. DOMAIN turns = 1..n
    OBVIOUS
  <2> QED BY <2>1, Zenon DEF SplitUp, FoldLeft, MapThenFoldSet
<1>n. n \in Nat
  OBVIOUS
<1> HIDE DEF Max
<1>2. \E f : Is(f, n)
  <2> DEFINE S == {m \in 0..n : \E f : Is(f, m)}
  <2>1. 0 \in S
    <3> DEFINE f == [s \in SUBSET (1..0) |-> bins]
    <3>1. SUBSET (1..0) = {{}}
      OBVIOUS
    <3>2. Is(f, 0)
      BY <3>1
    <3> HIDE DEF Is, f
    <3> QED BY <1>n, <3>2
  <2>2. \A m \in 0..(n - 1) : m \in S => m + 1 \in S
    <3> SUFFICES ASSUME NEW m \in 0..(n - 1), m \in S PROVE m + 1 \in S
      OBVIOUS
    <3>1. PICK f : Is(f, m)
      OBVIOUS
    <3> DEFINE g == [s \in SUBSET (1..(m + 1)) |-> IF s \in SUBSET (1..m) THEN f[s]
                        ELSE Split(sources, f[s \ {m + 1}])]
    <3>2. ASSUME NEW s \in SUBSET (1..(m + 1)), s # {}
          PROVE  g[s] = Split(sources, g[s \ {Max(s)}])
      <4>m. m \in Nat /\ SUBSET (1..m) \subseteq SUBSET (1..(m + 1))
        BY <1>n
      <4>1. CASE s \in SUBSET (1..m)
        <5>1. s \ {Max(s)} \in SUBSET (1..m)
          BY <4>1
        <5>2. g[s] = f[s] /\ g[s \ {Max(s)}] = f[s \ {Max(s)}]
          BY <4>m, <4>1, <5>1
        <5>3. f[s] = Split(sources, f[s \ {Max(s)}])
          BY <3>1, <3>2, <4>1
        <5> QED BY <5>2, <5>3
      <4>2. CASE s \notin SUBSET (1..m)
        <5>1. Max(s) = m + 1 /\ s \ {m + 1} \in SUBSET (1..m)
          BY <3>2, <4>m, <4>2, LastOne
        <5>2. g[s] = Split(sources, f[s \ {m + 1}])
          BY <4>2
        <5>3. g[s \ {m + 1}] = f[s \ {m + 1}]
          BY <4>m, <5>1
        <5> HIDE DEF g
        <5> QED BY <5>1, <5>2, <5>3
      <4> QED BY <4>1, <4>2
    <3>3. g[{}] = bins
      BY <3>1
    <3>4. g = [s \in SUBSET (1..(m + 1)) |-> g[s]]
      OBVIOUS
    <3> HIDE DEF g
    <3>5. Is(g, m + 1)
      BY <3>2, <3>3, <3>4
    <3> HIDE DEF Is
    <3> QED BY <1>n, <3>5
  <2> HIDE DEF S
  <2>3. 0..n \subseteq S
    BY ONLY <1>n, <2>1, <2>2, UpTo
  <2>4. n \in S
    BY <1>n, <2>3
  <2> QED BY <2>4 DEF S
<1>3. Is(C, n)
  <2> HIDE DEF Is
  <2> QED BY <1>2
<1> HIDE DEF C
<1> DEFINE h == [k \in 0..n |-> C[1..k]]
<1>4. h[0] = bins
  <2>1. 1..0 = {} /\ 0 \in 0..n /\ {} \in SUBSET (1..n)
    BY <1>n
  <2> QED BY <1>3, <2>1
<1>5. ASSUME NEW k \in 0..(n - 1) PROVE h[k + 1] = Split(sources, h[k])
  <2> DEFINE s == 1..(k + 1)
  <2>1. s \in SUBSET (1..n) /\ s # {} /\ Max(s) = k + 1 /\ s \ {k + 1} = 1..k
    BY <1>n, LastPlace
  <2>2. k \in 0..n /\ k + 1 \in 0..n /\ h[k] = C[1..k] /\ h[k + 1] = C[s]
    BY <1>n
  <2> HIDE DEF s, h
  <2>3. C[s] = Split(sources, C[s \ {Max(s)}])
    BY <1>3, <2>1
  <2> HIDE DEF Is
  <2> QED BY <2>1, <2>2, <2>3
<1>6. h[n] = C[1..n]
  BY <1>n
<1> HIDE DEF h, Is
<1> QED BY <1>1, <1>4, <1>5, <1>6


\* The bins hold as many rows as there are.
LEMMA RowsCounted ==
    ASSUME NEW S, NEW bins, Holds(bins, S)
    PROVE  IsFiniteSet(S) /\ RowCount(bins) = Cardinality(S)
<1> DEFINE n == Len(bins)
           total == RowCount(bins)
<1>1. n \in Nat /\ DOMAIN bins = 1..n
  BY BinsTyped DEF Holds
<1>t. total = RowCount(bins)
  OBVIOUS
<1>2. /\ InFirst(bins, 0) = {} /\ InFirst(bins, n) = S
      /\ \A b \in 0..(n - 1) :
             /\ Lists(bins[b + 1], InBin(bins, b + 1)) /\ Len(bins[b + 1]) > 0
             /\ InBin(bins, b + 1) \subseteq S
             /\ InFirst(bins, b) \cap InBin(bins, b + 1) = {}
             /\ InFirst(bins, b + 1) = InFirst(bins, b) \cup InBin(bins, b + 1)
  BY BinsGrow
<1> HIDE DEF n, total
<1>3. PICK h : /\ h[0] = 0 /\ \A k \in 0..(n - 1) : h[k + 1] = h[k] + Len(bins[k + 1])
               /\ total = h[n]
  BY ONLY <1>1, <1>t, RowsUnfold
<1> DEFINE Good == {k \in 0..n : /\ IsFiniteSet(InFirst(bins, k))
                                 /\ h[k] = Cardinality(InFirst(bins, k))}
<1>4. 0 \in Good
  <2>1. h[0] = 0 /\ InFirst(bins, 0) = {} /\ 0 \in 0..n
    BY <1>1, <1>2, <1>3
  <2> QED BY <2>1, FS_EmptySet
<1>5. \A k \in 0..(n - 1) : k \in Good => k + 1 \in Good
  <2> SUFFICES ASSUME NEW k \in 0..(n - 1), k \in Good PROVE k + 1 \in Good
    OBVIOUS
  <2> DEFINE B == InBin(bins, k + 1)
             done == InFirst(bins, k)
             len == Len(bins[k + 1])
  <2>1. /\ Lists(bins[k + 1], B) /\ done \cap B = {} /\ InFirst(bins, k + 1) = done \cup B
    BY <1>2
  <2>2. IsFiniteSet(B) /\ Cardinality(B) = len
    BY <2>1, ListLength
  <2>3. IsFiniteSet(done) /\ h[k] = Cardinality(done) /\ h[k + 1] = h[k] + len
    BY <1>3
  <2> HIDE DEF B, done, len, Good
  <2>4. IsFiniteSet(done \cup B) /\ Cardinality(done \cup B) = Cardinality(done) + Cardinality(B)
    <3>1. /\ IsFiniteSet(done \cup B)
          /\ Cardinality(done \cup B)
                 = Cardinality(done) + Cardinality(B) - Cardinality(done \cap B)
      BY <2>2, <2>3, FS_Union
    <3>2. Cardinality(done \cap B) = 0
      BY <2>1, FS_EmptySet
    <3>3. Cardinality(done) \in Nat /\ Cardinality(B) \in Nat
      BY <2>2, <2>3, FS_CardinalityType
    <3> QED BY <3>1, <3>2, <3>3
  <2>5. k + 1 \in 0..n
    BY <1>1
  <2> QED BY <2>1, <2>2, <2>3, <2>4, <2>5 DEF Good
<1> HIDE DEF Good
<1>6. 0..n \subseteq Good
  BY ONLY <1>1, <1>4, <1>5, UpTo
<1>7. n \in Good
  BY <1>1, <1>6
<1> QED BY <1>2, <1>3, <1>7 DEF Good, total

\* As many bins as rows, when each has one.
LEMMA OneEach ==
    ASSUME NEW S, NEW bins, Holds(bins, S), \A b \in 1..Len(bins) : Len(bins[b]) = 1
    PROVE  Cardinality(S) = Len(bins)
<1> DEFINE n == Len(bins)
           list == [b \in 1..n |-> bins[b][1]]
<1>1. n \in Nat /\ \A b \in 1..n : \A k \in 1..Len(bins[b]) : bins[b][k] \in S
  BY BinsTyped DEF Holds
<1>2. \A b, c \in 1..n : \A k \in 1..Len(bins[b]) : \A l \in 1..Len(bins[c]) :
          bins[b][k] = bins[c][l] => b = c /\ k = l
  BY DEF Holds
<1>3. \A i \in S : \E b \in 1..n : \E k \in 1..Len(bins[b]) : bins[b][k] = i
  BY DEF Holds
<1>0. \A b \in 1..n : Len(bins[b]) = 1
  OBVIOUS
<1>4. \A b \in 1..n : Len(bins[b]) = 1 /\ 1 \in 1..Len(bins[b])
  <2> HIDE DEF n
  <2> QED BY ONLY <1>0, SMTT(30)
<1> HIDE DEF n
<1>5. list \in [1..n -> S]
  BY <1>1, <1>4
<1>6. list \in Seq(S) /\ Len(list) = n /\ \A b \in 1..n : list[b] = bins[b][1]
  <2>1. \A b \in 1..n : list[b] = bins[b][1]
    OBVIOUS
  <2> HIDE DEF list
  <2> QED BY <1>1, <1>5, <2>1, FunctionIsSeq
<1> HIDE DEF list
<1>7. \A b, c \in 1..n : list[b] = list[c] => b = c
  BY <1>2, <1>4, <1>6
<1>8. \A i \in S : \E b \in 1..n : list[b] = i
  <2> SUFFICES ASSUME NEW i \in S PROVE \E b \in 1..n : list[b] = i
    OBVIOUS
  <2>1. PICK b \in 1..n : \E k \in 1..Len(bins[b]) : bins[b][k] = i
    BY <1>3
  <2>2. PICK k \in 1..Len(bins[b]) : bins[b][k] = i
    BY <2>1
  <2>3. k = 1
    BY <1>4, <2>2
  <2> QED BY <1>6, <2>2, <2>3
<1>9. Lists(list, S)
  BY <1>6, <1>7, <1>8 DEF Lists
<1> QED BY <1>6, <1>9, ListLength DEF n

\* The target is a multiple of the number of shards, and no less than the bins.
LEMMA TargetIs ==
    ASSUME NEW count \in Nat, NEW shards \in Nat \ {0}
    PROVE  /\ BinTarget(count, shards) \in Nat /\ BinTarget(count, shards) >= count
           /\ BinTarget(count, shards) >= shards
           /\ \E q \in Nat : BinTarget(count, shards) = shards * q
<1> DEFINE a == IF count < shards THEN shards ELSE count
           q == a \div shards
           r == a % shards
           s == shards
<1>1. a \in Nat /\ a >= count /\ a >= s
  OBVIOUS
<1>2. BinTarget(count, shards) = IF r = 0 THEN a ELSE a + s - r
  BY DEF BinTarget
<1> HIDE DEF a
<1>3. q \in Nat /\ r \in 0..(s - 1) /\ a = s * q + r
  BY <1>1, Division
<1> HIDE DEF q, r
<1>4. CASE r = 0
  <2>1. BinTarget(count, shards) = a /\ a = s * q
    BY <1>2, <1>3, <1>4
  <2> QED BY <1>1, <1>3, <2>1
<1>5. CASE r # 0
  <2> DEFINE sq == s * q
             more == s * (q + 1)
  <2>1. more = sq + s /\ sq \in Nat /\ a = sq + r
    BY <1>3
  <2>2. more = a + s - r /\ more >= a /\ more \in Nat
    <3> HIDE DEF sq, more
    <3> QED BY <1>1, <1>3, <2>1
  <2>3. BinTarget(count, shards) = more /\ q + 1 \in Nat
    BY <1>2, <1>3, <1>5, <2>2
  <2> HIDE DEF sq
  <2>4. BinTarget(count, shards) = shards * (q + 1)
    BY <2>3
  <2>5. \E x \in Nat : BinTarget(count, shards) = shards * x
    BY <2>3, <2>4
  <2> HIDE DEF more
  <2>6. more >= count /\ more >= s
    BY <1>1, <2>2
  <2> QED BY <2>2, <2>3, <2>5, <2>6
<1> QED BY <1>4, <1>5

\* The first n bins, those with the most rows first.
MostFirst(bins, n) ==
    [k \in 1..Cardinality(1..n) |-> CHOOSE i \in 1..n :
         Cardinality({j \in 1..n : MoreRows(bins, j, i)}) = k - 1]

\* Each of the bins is on the list once.
LEMMA SourcesList ==
    ASSUME NEW bins, NEW n \in Nat, \A b \in 1..n : Len(bins[b]) \in Nat,
           NEW list, list = MostFirst(bins, n)
    PROVE  Lists(list, 1..n)
<1> DEFINE S == 1..n
           Before == {p \in S \X S : MoreRows(bins, p[1], p[2])}
<1>0. IsFiniteSet(S)
  <2>1. 0 \in Int /\ 1 \in Int /\ n \in Int
    OBVIOUS
  <2> QED BY <2>1, FS_Interval
<1>1. IsOrder(Before, S)
  BY DEF IsOrder, MoreRows
<1>2. \A i \in S : {j \in S : <<j, i>> \in Before} = {j \in S : MoreRows(bins, j, i)}
  OBVIOUS
<1>3. list = [k \in 1..Cardinality(S) |->
          CHOOSE i \in S : Cardinality({j \in S : MoreRows(bins, j, i)}) = k - 1]
  BY DEF MostFirst
<1> HIDE DEF S
<1>4. \A k \in 1..Cardinality(S) :
          (CHOOSE i \in S : Cardinality({j \in S : MoreRows(bins, j, i)}) = k - 1)
              = CHOOSE i \in S : Cardinality({j \in S : <<j, i>> \in Before}) = k - 1
  BY <1>2
<1> HIDE DEF Before
<1>5. list = [k \in 1..Cardinality(S) |->
          CHOOSE i \in S : Cardinality({j \in S : <<j, i>> \in Before}) = k - 1]
  BY <1>3, <1>4
<1>6. Lists(list, S)
  BY <1>0, <1>1, <1>5, SortedLists
<1> QED BY <1>6 DEF S

\* A turn splits a bin that has more than one row.
Splittable(capacity, lens, acc, S, n) ==
    /\ Packs(capacity, lens, acc, S) /\ n <= Len(acc)
    /\ \A b \in (n + 1)..Len(acc) : Len(acc[b]) = 1

\* What a turn makes of the bins.
OneMore(capacity, lens, new, acc, S, n) ==
    Splittable(capacity, lens, new, S, n) /\ Len(new) = Len(acc) + 1

\* A turn finds a bin to split while there are fewer bins than rows.
LEMMA SplitPacks ==
    ASSUME NEW capacity \in Nat, NEW lens, NEW S, NEW n \in Nat, NEW acc,
           Splittable(capacity, lens, acc, S, n), NEW sources, Lists(sources, 1..n),
           Len(acc) < Cardinality(S)
    PROVE  OneMore(capacity, lens, Split(sources, acc), acc, S, n)
<1> DEFINE m == Len(acc)
           at == {k \in 1..Len(sources) : Len(acc[sources[k]]) > 1}
           t == FirstToSplit(sources, acc)
           b == sources[t]
           new == Split(sources, acc)
<1>1. /\ Packs(capacity, lens, acc, S) /\ n <= m /\ Holds(acc, S) /\ m \in Nat
      /\ \A c \in (n + 1)..m : Len(acc[c]) = 1
  <2>1. Packs(capacity, lens, acc, S) /\ n <= m /\ \A c \in (n + 1)..m : Len(acc[c]) = 1
    BY DEF Splittable
  <2>2. Holds(acc, S) /\ acc \in Seq(Seq(S))
    BY <2>1 DEF Packs, Holds
  <2> QED BY <2>1, <2>2
<1>2. /\ \A c \in 1..m : acc[c] \in Seq(S) /\ Len(acc[c]) \in Nat
      /\ \A c \in 1..m : Len(acc[c]) > 0
  BY <1>1, BinsTyped DEF Holds
<1>3. t = IF at # {} THEN Min(at) ELSE 0
  BY Zenon DEF FirstToSplit, SelectInSeq
<1>4. at # {}
  <2> SUFFICES ASSUME at = {} PROVE FALSE
    OBVIOUS
  <2> HIDE DEF m
  <2>1. ASSUME NEW c \in 1..m PROVE Len(acc[c]) = 1
    <3>1. CASE c \in 1..n
      <4>1. PICK k \in 1..Len(sources) : sources[k] = c
        BY <3>1 DEF Lists
      <4>2. ~(Len(acc[c]) > 1)
        BY <4>1
      <4>3. Len(acc[c]) \in Nat /\ Len(acc[c]) > 0
        BY <1>2
      <4> DEFINE x == Len(acc[c])
      <4>4. x \in Nat /\ x > 0 /\ ~(x > 1)
        BY <4>2, <4>3
      <4> HIDE DEF x
      <4>5. x = 1
        BY ONLY <4>4
      <4> QED BY <4>5 DEF x
    <3>2. CASE c \in (n + 1)..m
      BY <1>1, <3>2
    <3> QED BY <1>1, <3>1, <3>2
  <2>2. Cardinality(S) = m
    BY <1>1, <2>1, OneEach DEF m
  <2> QED BY <1>1, <2>2 DEF m
<1>5. t \in at
  <2>1. at \in SUBSET (1..Len(sources)) /\ Len(sources) \in Nat
    BY DEF Lists
  <2> HIDE DEF at
  <2>2. Min(at) \in at
    BY <1>4, <2>1, SmallestPlace
  <2> QED BY <1>3, <1>4, <2>2
<1>6. b \in 1..n /\ Len(acc[b]) > 1 /\ b \in 1..m
  <2> HIDE DEF t
  <2>1. sources \in Seq(1..n) /\ t \in 1..Len(sources) /\ Len(acc[b]) > 1
    BY <1>5 DEF Lists
  <2>2. b \in 1..n
    BY <2>1
  <2> QED BY <1>1, <2>1, <2>2
<1>7. new = Append(ReplaceAt(acc, b, Front(acc[b])), <<Last(acc[b])>>)
  BY DEF Split
<1> HIDE DEF at, t, b, new
<1>8. /\ Holds(new, S) /\ Len(new) = m + 1 /\ new[m + 1] = <<Last(acc[b])>>
      /\ \A c \in 1..m : new[c] = IF c = b THEN Front(acc[b]) ELSE acc[c]
  <2>1. Holds(acc, S) /\ b \in 1..Len(acc) /\ Len(acc[b]) > 1
    BY <1>1, <1>6
  <2>2. SplitOff(new, acc, b, S)
    BY ONLY <1>7, <2>1, RowMoved
  <2> QED BY <2>2 DEF SplitOff
<1>9. Measured(lens, S) /\ \A c \in 1..m : Load(lens, acc[c]) <= capacity
  BY <1>1 DEF Packs
<1>10. /\ Load(lens, Front(acc[b])) <= capacity
       /\ Load(lens, <<Last(acc[b])>>) <= capacity
  <2> DEFINE bin == acc[b]
  <2>1. bin \in Seq(S) /\ Len(bin) > 1 /\ Load(lens, bin) <= capacity
    BY <1>2, <1>6, <1>9
  <2>2. bin = Append(Front(bin), Last(bin)) /\ Front(bin) \in Seq(S) /\ Last(bin) \in S
    BY <2>1 DEF Front, Last
  <2> HIDE DEF bin
  <2>3. /\ Load(lens, Front(bin)) \in Nat /\ lens[Last(bin)] \in Nat
        /\ Load(lens, bin) = Load(lens, Front(bin)) + lens[Last(bin)]
        /\ Load(lens, <<Last(bin)>>) = lens[Last(bin)]
    <3>1. lens[Last(bin)] \in Nat
      BY <1>9, <2>2 DEF Measured
    <3>2. /\ Load(lens, Front(bin)) \in Nat
          /\ Load(lens, Append(Front(bin), Last(bin)))
                 = Load(lens, Front(bin)) + lens[Last(bin)]
      BY ONLY <1>9, <2>2, LoadAppended
    <3>3. Load(lens, <<Last(bin)>>) = lens[Last(bin)]
      BY <3>1, LoadOfOne
    <3> QED BY <2>2, <3>1, <3>2, <3>3
  <2> QED BY <2>1, <2>3 DEF bin
<1> HIDE DEF m
<1>11. ASSUME NEW c \in 1..(m + 1) PROVE Load(lens, new[c]) <= capacity
  <2>1. c \in 1..m \/ c = m + 1
    BY <1>1
  <2>2. CASE c \in 1..m
    BY <1>8, <1>9, <1>10, <2>2
  <2>3. CASE c = m + 1
    BY <1>8, <1>10, <2>3
  <2> QED BY <2>1, <2>2, <2>3
<1>12. Packs(capacity, lens, new, S)
  BY <1>8, <1>9, <1>11 DEF Packs
<1>13. ASSUME NEW c \in (n + 1)..(m + 1) PROVE Len(new[c]) = 1
  <2>1. c \in (n + 1)..m \/ c = m + 1
    BY <1>1
  <2>2. CASE c \in (n + 1)..m
    <3>1. c \in 1..m /\ c # b
      BY <1>1, <1>6, <2>2
    <3> QED BY <1>1, <1>8, <2>2, <3>1
  <2>3. CASE c = m + 1
    <3>1. Len(<<Last(acc[b])>>) = 1
      OBVIOUS
    <3> QED BY <1>8, <2>3, <3>1
  <2> QED BY <2>1, <2>2, <2>3
<1>14. n <= m + 1
  BY <1>1
<1>15. Splittable(capacity, lens, new, S, n)
  BY <1>8, <1>12, <1>13, <1>14 DEF Splittable
<1> QED BY <1>8, <1>15 DEF new, m, OneMore

\* Splitting bins until there are as many as the shards need loses no row, repeats
\* none and leaves no bin empty: there is a bin to split as long as rows suffice.
THEOREM AdjustedPacks ==
    ASSUME NEW capacity \in Nat, NEW lens, NEW S, NEW bins, Packs(capacity, lens, bins, S),
           NEW shards \in Nat \ {0}, ~CannotAdjust(bins, shards)
    PROVE  /\ Packs(capacity, lens, AdjustBinCount(bins, shards), S)
           /\ Len(AdjustBinCount(bins, shards)) = BinTarget(Len(bins), shards)
<1> DEFINE n == Len(bins)
           target == BinTarget(Len(bins), shards)
           turns == [k \in 1..(target - n) |-> k]
           sources == Sorted(DOMAIN bins, LAMBDA b, c : MoreRows(bins, b, c))
           total == SplitUp(sources, bins, turns)
           more == target - n
<1>1. AdjustBinCount(bins, shards) = total
  BY Zenon DEF AdjustBinCount, SplitUp
<1>t. total = SplitUp(sources, bins, turns)
  OBVIOUS
<1>2. Holds(bins, S) /\ n \in Nat /\ DOMAIN bins = 1..n /\ \A b \in 1..n : Len(bins[b]) \in Nat
  BY BinsTyped DEF Packs, Holds
<1>3. target \in Nat /\ target >= n
  BY <1>2, TargetIs
<1>4. Lists(sources, 1..n)
  <2>1. sources = [k \in 1..Cardinality(DOMAIN bins) |-> CHOOSE i \in DOMAIN bins :
                       Cardinality({j \in DOMAIN bins : MoreRows(bins, j, i)}) = k - 1]
    BY Zenon DEF Sorted
  <2>3. \A b \in 1..n : Len(bins[b]) \in Nat
    BY <1>2
  <2> HIDE DEF sources, n
  <2>2. sources = MostFirst(bins, n)
    BY <1>2, <2>1 DEF MostFirst
  <2>4. n \in Nat
    BY <1>2
  <2> QED BY ONLY <2>2, <2>3, <2>4, SourcesList
<1>5. target <= Cardinality(S) /\ Cardinality(S) \in Nat
  <2>1. IsFiniteSet(S) /\ RowCount(bins) = Cardinality(S)
    BY <1>2, RowsCounted
  <2>2. ~(RowCount(bins) < target)
    BY Zenon DEF CannotAdjust, RowCount
  <2>3. Cardinality(S) \in Nat
    BY <2>1, FS_CardinalityType
  <2> HIDE DEF target
  <2> QED BY <1>3, <2>1, <2>2, <2>3
<1>6. more \in Nat /\ DOMAIN turns = 1..more /\ n + more = target
  BY <1>2, <1>3
<1>7. Splittable(capacity, lens, bins, S, n)
  BY <1>2 DEF Splittable
<1> HIDE DEF n, target, turns, sources, total, more
<1>8. PICK h : /\ h[0] = bins /\ \A k \in 0..(more - 1) : h[k + 1] = Split(sources, h[k])
               /\ total = h[more]
  BY ONLY <1>6, <1>t, SplitUpUnfolds
<1> DEFINE Good == {k \in 0..more :
                        Splittable(capacity, lens, h[k], S, n) /\ Len(h[k]) = n + k}
<1>9. 0 \in Good
  BY <1>2, <1>6, <1>7, <1>8 DEF n
<1>10. \A k \in 0..(more - 1) : k \in Good => k + 1 \in Good
  <2> SUFFICES ASSUME NEW k \in 0..(more - 1), k \in Good PROVE k + 1 \in Good
    OBVIOUS
  <2> DEFINE acc == h[k]
  <2>1. /\ Splittable(capacity, lens, acc, S, n) /\ Len(acc) = n + k
        /\ h[k + 1] = Split(sources, acc)
    BY <1>8
  <2>2. Len(acc) < Cardinality(S) /\ k + 1 \in 0..more /\ (n + k) + 1 = n + (k + 1)
    BY <1>2, <1>5, <1>6, <2>1
  <2> HIDE DEF acc, Good
  <2>3. /\ Splittable(capacity, lens, Split(sources, acc), S, n)
        /\ Len(Split(sources, acc)) = Len(acc) + 1
    <3>1. capacity \in Nat /\ n \in Nat
      BY <1>2
    <3>2. OneMore(capacity, lens, Split(sources, acc), acc, S, n)
      BY ONLY <1>4, <2>1, <2>2, <3>1, SplitPacks
    <3> QED BY <3>2 DEF OneMore
  <2> QED BY <2>1, <2>2, <2>3 DEF Good
<1> HIDE DEF Good
<1>11. 0..more \subseteq Good
  BY ONLY <1>6, <1>9, <1>10, UpTo
<1>12. more \in Good
  BY <1>6, <1>11
<1>13. Packs(capacity, lens, total, S) /\ Len(total) = target
  BY <1>6, <1>8, <1>12 DEF Good, Splittable
<1> QED BY <1>1, <1>13 DEF target

-----------------------------------------------------------------------------
(* Dealing bins and rows over the shards. *)

\* The s-th of n in the m-th round of q.
Turn(n, s, m) == s + (m - 1) * n

\* In q rounds of n everything from 1 to count has its turn once.
TakeTurns(n, q, count) ==
    /\ \A s \in 1..n : \A m \in 1..q : Turn(n, s, m) \in 1..count
    /\ \A s, t \in 1..n : \A m, l \in 1..q : Turn(n, s, m) = Turn(n, t, l) => s = t /\ m = l
    /\ \A b \in 1..count : \E s \in 1..n : \E m \in 1..q : Turn(n, s, m) = b

\* That is so for as many as there are turns.
LEMMA Turns ==
    ASSUME NEW n \in Nat \ {0}, NEW q \in Nat, NEW count, count = n * q
    PROVE  TakeTurns(n, q, count)
<1>1. ASSUME NEW s \in 1..n, NEW m \in 1..q
      PROVE  /\ Turn(n, s, m) - 1 = n * (m - 1) + (s - 1)
             /\ (Turn(n, s, m) - 1) \div n = m - 1 /\ (Turn(n, s, m) - 1) % n = s - 1
             /\ Turn(n, s, m) \in 1..(n * q)
  <2> DEFINE p == n * (m - 1)
             b == Turn(n, s, m)
  <2>1. p \in Nat /\ b = s + p
    BY DEF Turn
  <2>2. p + n = m * n /\ m * n <= q * n /\ q * n = n * q
    <3>1. p + n = n * m /\ n * m = m * n /\ q * n = n * q
      OBVIOUS
    <3>2. m * n <= q * n
      BY Order
    <3> QED BY <3>1, <3>2
  <2>3. b - 1 = p + (s - 1) /\ b \in 1..(n * q)
    <3> DEFINE mn == m * n
               qn == q * n
               nq == n * q
    <3>1. mn \in Nat /\ qn \in Nat /\ nq = qn /\ p + n = mn /\ mn <= qn
      BY <2>2
    <3> HIDE DEF p, b, mn, qn, nq
    <3>2. b - 1 = p + (s - 1) /\ b \in 1..nq
      BY <2>1, <3>1
    <3> QED BY <3>2 DEF nq
  <2>4. (p + (s - 1)) \div n = m - 1 /\ (p + (s - 1)) % n = s - 1
    <3>1. m - 1 \in Nat /\ s - 1 \in 0..(n - 1)
      OBVIOUS
    <3> QED BY <3>1, Quotient
  <2> QED BY <2>3, <2>4
<1>2. ASSUME NEW s \in 1..n, NEW t \in 1..n, NEW m \in 1..q, NEW l \in 1..q,
             Turn(n, s, m) = Turn(n, t, l)
      PROVE  s = t /\ m = l
  <2>1. m - 1 = l - 1 /\ s - 1 = t - 1
    BY <1>1, <1>2
  <2> QED BY <2>1
<1>3. ASSUME NEW b \in 1..(n * q)
      PROVE  \E s \in 1..n : \E m \in 1..q : Turn(n, s, m) = b
  <2> DEFINE a == b - 1
             m == a \div n + 1
             s == (a % n) + 1
  <2>1. a \in Nat /\ a < n * q /\ n * q = q * n
    OBVIOUS
  <2>2. a \div n \in Nat /\ a % n \in 0..(n - 1) /\ a = n * (a \div n) + (a % n)
    BY <2>1, Division
  <2>3. a \div n < q
    BY <2>1, QuotientBelow
  <2>4. s \in 1..n /\ m \in 1..q
    BY <2>2, <2>3
  <2>5. Turn(n, s, m) = b
    <3>1. (m - 1) * n = n * (a \div n)
      BY <2>2
    <3>2. Turn(n, s, m) = s + n * (a \div n)
      BY <3>1 DEF Turn
    <3> QED BY <2>2, <3>2
  <2> QED BY <2>4, <2>5
<1> QED BY <1>1, <1>2, <1>3 DEF TakeTurns

\* Shards have equally many microbatches, none of them empty, and together the microbatches
\* have each row of S once.
Cuts(cut, S) ==
    /\ cut \in [Shard -> Seq(Seq(S))]
    /\ \A s \in Shard : Len(cut[s]) = Len(cut[1])
    /\ \A s \in Shard : \A m \in 1..Len(cut[s]) : Len(cut[s][m]) > 0
    /\ \A s, t \in Shard : \A m \in 1..Len(cut[s]) : \A n \in 1..Len(cut[t]) :
           \A k \in 1..Len(cut[s][m]) : \A l \in 1..Len(cut[t][n]) :
               cut[s][m][k] = cut[t][n][l] => s = t /\ m = n /\ k = l
    /\ \A i \in S : \E s \in Shard : \E m \in 1..Len(cut[s]) : \E k \in 1..Len(cut[s][m]) :
           cut[s][m][k] = i

\* The rows of a bin.
RowsOfBin(chunk, bin) == [k \in DOMAIN bin |-> chunk[bin[k]]]

\* As many bins as the shards can share equally are dealt out equally.
LEMMA DealCuts ==
    ASSUME NEW S, NEW chunk, Lists(chunk, S), NEW bins, Holds(bins, 1..Len(chunk)),
           NEW q \in Nat, Len(bins) = Shards * q
    PROVE  /\ Cuts(Deal(chunk, bins), S)
           /\ \A s \in Shard : \A m \in 1..Len(Deal(chunk, bins)[s]) :
                  \E b \in 1..Len(bins) : Deal(chunk, bins)[s][m] = RowsOfBin(chunk, bins[b])
<1> DEFINE n == Shards
           D == Deal(chunk, bins)
           N == Len(chunk)
<1>1. n \in Nat \ {0} /\ Shard = 1..n
  BY PolicyConstants DEF Shard
<1>2. /\ N \in Nat /\ bins \in Seq(Seq(1..N)) /\ Len(bins) \in Nat
      /\ \A b \in 1..Len(bins) : bins[b] \in Seq(1..N) /\ Len(bins[b]) \in Nat
      /\ \A b \in 1..Len(bins) : \A k \in 1..Len(bins[b]) : bins[b][k] \in 1..N
      /\ \A k \in 1..N : chunk[k] \in S
  <2>1. N \in Nat /\ \A k \in 1..N : chunk[k] \in S
    BY DEF Lists
  <2>2. bins \in Seq(Seq(1..N))
    BY DEF Holds
  <2> HIDE DEF N
  <2> QED BY <2>1, <2>2, BinsTyped
<1>h. \A b, c \in 1..Len(bins) : \A k \in 1..Len(bins[b]) : \A l \in 1..Len(bins[c]) :
          bins[b][k] = bins[c][l] => b = c /\ k = l
  BY DEF Holds
<1>3. ASSUME NEW s \in 1..n PROVE (Len(bins) + n - s) \div n = q
  <2> DEFINE nq == n * q
  <2>1. nq \in Nat /\ n - s \in 0..(n - 1)
    BY <1>1
  <2>2. (n * q + (n - s)) \div n = q
    BY <1>1, <2>1, Quotient
  <2>3. Len(bins) + n - s = nq + (n - s)
    <3>1. Len(bins) = nq
      OBVIOUS
    <3> HIDE DEF nq
    <3> QED BY <1>1, <2>1, <3>1
  <2> QED BY <2>2, <2>3
<1>4. D = [s \in Shard |-> [m \in 1..((Len(bins) + Shards - s) \div Shards) |->
              RowsOfBin(chunk, bins[s + (m - 1) * Shards])]]
  BY DEF Deal, RowsOfBin
<1>5. ASSUME NEW s \in 1..n
      PROVE  /\ DOMAIN D[s] = 1..q /\ D[s] = [m \in 1..q |-> D[s][m]]
             /\ \A m \in 1..q : D[s][m] = RowsOfBin(chunk, bins[Turn(n, s, m)])
  <2>1. D[s] = [m \in 1..((Len(bins) + Shards - s) \div Shards) |->
                   RowsOfBin(chunk, bins[s + (m - 1) * Shards])]
    BY <1>1, <1>4
  <2>2. D[s] = [m \in 1..q |-> RowsOfBin(chunk, bins[s + (m - 1) * Shards])]
    BY <1>3, <2>1
  <2> HIDE DEF D
  <2> QED BY <2>2 DEF Turn
<1> HIDE DEF D
<1>6. ASSUME NEW b \in 1..Len(bins)
      PROVE  /\ RowsOfBin(chunk, bins[b]) \in Seq(S)
             /\ Len(RowsOfBin(chunk, bins[b])) = Len(bins[b]) /\ Len(bins[b]) > 0
             /\ \A k \in 1..Len(bins[b]) : RowsOfBin(chunk, bins[b])[k] = chunk[bins[b][k]]
  <2> DEFINE bin == bins[b]
             l == Len(bin)
  <2>1. bin \in Seq(1..N) /\ l \in Nat /\ DOMAIN bin = 1..l /\ l > 0
    BY <1>2 DEF Holds
  <2>2. \A k \in 1..l : bin[k] \in 1..N /\ chunk[bin[k]] \in S
    BY <1>2
  <2> HIDE DEF bin, l
  <2>3. RowsOfBin(chunk, bin) = [k \in 1..l |-> chunk[bin[k]]]
    BY <2>1 DEF RowsOfBin
  <2>4. [k \in 1..l |-> chunk[bin[k]]] \in [1..l -> S]
    BY <2>2
  <2>5. RowsOfBin(chunk, bin) \in Seq(S) /\ Len(RowsOfBin(chunk, bin)) = l
    BY <2>1, <2>3, <2>4, FunctionIsSeq
  <2>6. \A k \in 1..l : RowsOfBin(chunk, bin)[k] = chunk[bin[k]]
    BY <2>3
  <2> QED BY <2>1, <2>5, <2>6 DEF bin, l
<1>7. /\ \A s \in 1..n : \A m \in 1..q : Turn(n, s, m) \in 1..Len(bins)
      /\ \A s, t \in 1..n : \A m, l \in 1..q :
             Turn(n, s, m) = Turn(n, t, l) => s = t /\ m = l
      /\ \A b \in 1..Len(bins) : \E s \in 1..n : \E m \in 1..q : Turn(n, s, m) = b
  <2>1. TakeTurns(n, q, Len(bins))
    BY <1>1, Turns
  <2> HIDE DEF n
  <2> QED BY ONLY <2>1 DEF TakeTurns
<1>8. D \in [Shard -> Seq(Seq(S))] /\ \A s \in Shard : Len(D[s]) = q
  <2>1. ASSUME NEW s \in 1..n PROVE D[s] \in Seq(Seq(S)) /\ Len(D[s]) = q
    <3> DEFINE d == D[s]
    <3>1. DOMAIN d = 1..q /\ d = [m \in 1..q |-> d[m]] /\ \A m \in 1..q : d[m] \in Seq(S)
      <4>1. DOMAIN d = 1..q /\ d = [m \in 1..q |-> d[m]]
        BY <1>5
      <4>2. ASSUME NEW m \in 1..q PROVE d[m] \in Seq(S)
        <5>1. Turn(n, s, m) \in 1..Len(bins)
          BY <1>7
        <5>2. RowsOfBin(chunk, bins[Turn(n, s, m)]) \in Seq(S)
          BY <1>6, <5>1
        <5>3. d[m] = RowsOfBin(chunk, bins[Turn(n, s, m)])
          BY <1>5
        <5> QED BY <5>2, <5>3
      <4> HIDE DEF d
      <4> QED BY <4>1, <4>2
    <3> HIDE DEF d
    <3>2. d \in [1..q -> Seq(S)]
      BY <3>1
    <3> QED BY <3>2, FunctionIsSeq DEF d
  <2>2. D = [s \in Shard |-> D[s]]
    BY <1>4 DEF D
  <2> QED BY <1>1, <2>1, <2>2
<1>9. \A s \in Shard : \A m \in 1..Len(D[s]) : Len(D[s][m]) > 0
  BY <1>1, <1>5, <1>6, <1>7, <1>8
<1>10. ASSUME NEW s \in Shard, NEW t \in Shard, NEW m \in 1..Len(D[s]), NEW l \in 1..Len(D[t]),
              NEW k \in 1..Len(D[s][m]), NEW h \in 1..Len(D[t][l]), D[s][m][k] = D[t][l][h]
       PROVE  s = t /\ m = l /\ k = h
  <2> DEFINE b == Turn(n, s, m)
             c == Turn(n, t, l)
  <2>0. s \in 1..n /\ t \in 1..n /\ m \in 1..q /\ l \in 1..q
    BY <1>1, <1>8
  <2>1. /\ b \in 1..Len(bins) /\ c \in 1..Len(bins)
        /\ D[s][m] = RowsOfBin(chunk, bins[b]) /\ D[t][l] = RowsOfBin(chunk, bins[c])
    BY <1>5, <1>7, <2>0
  <2>2. b = c => s = t /\ m = l
    BY <1>7, <2>0
  <2> HIDE DEF b, c
  <2>3. /\ k \in 1..Len(bins[b]) /\ h \in 1..Len(bins[c])
        /\ chunk[bins[b][k]] = chunk[bins[c][h]]
    BY <1>6, <1>10, <2>1
  <2>4. bins[b][k] \in 1..N /\ bins[c][h] \in 1..N
    BY <1>2, <2>1, <2>3
  <2>5. bins[b][k] = bins[c][h]
    BY <2>3, <2>4 DEF Lists, N
  <2>6. b = c /\ k = h
    BY <1>h, <2>1, <2>3, <2>5, SMTT(30)
  <2> QED BY <2>2, <2>6
<1>11. ASSUME NEW i \in S
       PROVE  \E s \in 1..n : \E m \in 1..q : \E k \in 1..Len(D[s][m]) : D[s][m][k] = i
  <2>1. PICK p \in 1..N : chunk[p] = i
    BY DEF Lists, N
  <2>2. PICK b \in 1..Len(bins) : \E k \in 1..Len(bins[b]) : bins[b][k] = p
    BY DEF Holds, N
  <2>3. PICK k \in 1..Len(bins[b]) : bins[b][k] = p
    BY <2>2
  <2>4. PICK s \in 1..n, m \in 1..q : Turn(n, s, m) = b
    BY <1>7
  <2>5. D[s][m] = RowsOfBin(chunk, bins[b])
    BY <1>5, <2>4
  <2>6. k \in 1..Len(D[s][m]) /\ D[s][m][k] = i
    BY <1>6, <2>1, <2>3, <2>5
  <2> QED BY <2>6
<1>12. Cuts(D, S)
  <2>1. \A s \in Shard : Len(D[s]) = Len(D[1])
    BY <1>1, <1>8
  <2>2. \A s, t \in Shard : \A m \in 1..Len(D[s]) : \A l \in 1..Len(D[t]) :
            \A k \in 1..Len(D[s][m]) : \A h \in 1..Len(D[t][l]) :
                D[s][m][k] = D[t][l][h] => s = t /\ m = l /\ k = h
    BY <1>10
  <2>3. \A i \in S : \E s \in Shard : \E m \in 1..Len(D[s]) : \E k \in 1..Len(D[s][m]) :
            D[s][m][k] = i
    BY <1>1, <1>8, <1>11
  <2> QED BY <1>8, <1>9, <2>1, <2>2, <2>3 DEF Cuts
<1>13. \A s \in Shard : \A m \in 1..Len(D[s]) :
           \E b \in 1..Len(bins) : D[s][m] = RowsOfBin(chunk, bins[b])
  <2> SUFFICES ASSUME NEW s \in Shard, NEW m \in 1..Len(D[s])
               PROVE  \E b \in 1..Len(bins) : D[s][m] = RowsOfBin(chunk, bins[b])
    OBVIOUS
  <2>1. s \in 1..n /\ m \in 1..q
    BY <1>1, <1>8
  <2>2. Turn(n, s, m) \in 1..Len(bins) /\ D[s][m] = RowsOfBin(chunk, bins[Turn(n, s, m)])
    BY <1>5, <1>7, <2>1
  <2> QED BY <2>2
<1> QED BY <1>12, <1>13 DEF D

\* Sorted rows are dealt out to n shards, q to each.
Strides(rows, sorted, R, n, q) ==
    /\ Lists(sorted, R) /\ Len(sorted) = n * q
    /\ rows \in [1..n -> Seq(R)]
    /\ \A s \in 1..n : Len(rows[s]) = q
    /\ \A s \in 1..n : \A k \in 1..q : rows[s][k] = sorted[Turn(n, s, k)]

\* Every shard's share of the sorted rows.
LEMMA StrideTurns ==
    ASSUME NEW lens, NEW R, R \in SUBSET Nat, IsFiniteSet(R), \A i \in R : lens[i] \in Nat,
           NEW n \in Nat \ {0}, NEW q \in Nat, Cardinality(R) = n * q,
           NEW rows, rows = Stride(lens, R, n), NEW sorted, sorted = Ascending(lens, R)
    PROVE  Strides(rows, sorted, R, n, q)
<1>1. Lists(sorted, R) /\ Len(sorted) = n * q
  BY AscendingLists
<1>2. Len(sorted) \div n = q
  <2>1. 0 \in 0..(n - 1) /\ n * q + 0 = n * q
    OBVIOUS
  <2>2. (n * q + 0) \div n = q
    BY <2>1, Quotient
  <2> QED BY <1>1, <2>1, <2>2
<1>3. rows = [s \in 1..n |-> [k \in 1..(Len(sorted) \div n) |-> sorted[s + (k - 1) * n]]]
  BY DEF Stride
<1>4. rows = [s \in 1..n |-> [k \in 1..q |-> sorted[Turn(n, s, k)]]]
  BY <1>2, <1>3 DEF Turn
<1>5. TakeTurns(n, q, Len(sorted))
  BY <1>1, Turns
<1>6. ASSUME NEW s \in 1..n
      PROVE  rows[s] = [k \in 1..q |-> sorted[Turn(n, s, k)]]
  BY <1>4
<1>7. ASSUME NEW s \in 1..n PROVE rows[s] \in Seq(R) /\ Len(rows[s]) = q
  <2>1. \A k \in 1..q : sorted[Turn(n, s, k)] \in R
    BY <1>1, <1>5 DEF TakeTurns, Lists
  <2>2. rows[s] \in [1..q -> R]
    BY <1>6, <2>1
  <2> QED BY <2>2, FunctionIsSeq
<1>8. rows \in [1..n -> Seq(R)]
  BY <1>4, <1>7
<1> QED BY <1>1, <1>6, <1>7, <1>8 DEF Strides

\* Position by position, the cuts are made.
LEMMA DynamicCutsUnfold ==
    ASSUME NEW capacity, NEW lens, NEW rows, NEW multiple, NEW width, NEW n \in Nat,
           NEW order, order = [p \in 1..Len(rows[1]) |-> p], n = Len(rows[1])
    PROVE  \E h : /\ h[0] = << >>
                  /\ \A k \in 0..(n - 1) : h[k + 1] = AddPosition(capacity, h[k], order[k + 1], PaddedWidth(lens, rows, multiple, width, order[k + 1]))
                  /\ DynamicCuts(capacity, lens, rows, multiple, width) = h[n]
<1> DEFINE Is(f, m) == f = [s \in SUBSET (1..m) |-> IF s = {} THEN << >>
                       ELSE AddPosition(capacity, f[s \ {Max(s)}], order[Max(s)], PaddedWidth(lens, rows, multiple, width, order[Max(s)]))]
           C == CHOOSE f : Is(f, n)
<1>1. DynamicCuts(capacity, lens, rows, multiple, width) = C[1..n]
  <2>1. DOMAIN order = 1..n
    OBVIOUS
  <2>2. DynamicCuts(capacity, lens, rows, multiple, width) = FoldLeft(LAMBDA cuts, p :
              AddPosition(capacity, cuts, p, PaddedWidth(lens, rows, multiple, width, p)), << >>, order)
    BY Zenon DEF DynamicCuts
  <2> QED BY <2>1, <2>2, Zenon DEF FoldLeft, MapThenFoldSet
<1>n. n \in Nat
  OBVIOUS
<1> HIDE DEF Max
<1>2. \E f : Is(f, n)
  <2> DEFINE S == {m \in 0..n : \E f : Is(f, m)}
  <2>1. 0 \in S
    <3> DEFINE f == [s \in SUBSET (1..0) |-> << >>]
    <3>1. SUBSET (1..0) = {{}}
      OBVIOUS
    <3>2. Is(f, 0)
      BY <3>1
    <3> HIDE DEF Is, f
    <3> QED BY <1>n, <3>2
  <2>2. \A m \in 0..(n - 1) : m \in S => m + 1 \in S
    <3> SUFFICES ASSUME NEW m \in 0..(n - 1), m \in S PROVE m + 1 \in S
      OBVIOUS
    <3>1. PICK f : Is(f, m)
      OBVIOUS
    <3> DEFINE g == [s \in SUBSET (1..(m + 1)) |-> IF s \in SUBSET (1..m) THEN f[s]
                        ELSE AddPosition(capacity, f[s \ {m + 1}], order[m + 1], PaddedWidth(lens, rows, multiple, width, order[m + 1]))]
    <3>2. ASSUME NEW s \in SUBSET (1..(m + 1)), s # {}
          PROVE  g[s] = AddPosition(capacity, g[s \ {Max(s)}], order[Max(s)], PaddedWidth(lens, rows, multiple, width, order[Max(s)]))
      <4>m. m \in Nat /\ SUBSET (1..m) \subseteq SUBSET (1..(m + 1))
        BY <1>n
      <4>1. CASE s \in SUBSET (1..m)
        <5>1. s \ {Max(s)} \in SUBSET (1..m)
          BY <4>1
        <5>2. g[s] = f[s] /\ g[s \ {Max(s)}] = f[s \ {Max(s)}]
          BY <4>m, <4>1, <5>1
        <5>3. f[s] = AddPosition(capacity, f[s \ {Max(s)}], order[Max(s)], PaddedWidth(lens, rows, multiple, width, order[Max(s)]))
          BY <3>1, <3>2, <4>1
        <5> QED BY <5>2, <5>3
      <4>2. CASE s \notin SUBSET (1..m)
        <5>1. Max(s) = m + 1 /\ s \ {m + 1} \in SUBSET (1..m)
          BY <3>2, <4>m, <4>2, LastOne
        <5>2. g[s] = AddPosition(capacity, f[s \ {m + 1}], order[m + 1], PaddedWidth(lens, rows, multiple, width, order[m + 1]))
          BY <4>2
        <5>3. g[s \ {m + 1}] = f[s \ {m + 1}]
          BY <4>m, <5>1
        <5> HIDE DEF g
        <5> QED BY <5>1, <5>2, <5>3
      <4> QED BY <4>1, <4>2
    <3>3. g[{}] = << >>
      BY <3>1
    <3>4. g = [s \in SUBSET (1..(m + 1)) |-> g[s]]
      OBVIOUS
    <3> HIDE DEF g
    <3>5. Is(g, m + 1)
      BY <3>2, <3>3, <3>4
    <3> HIDE DEF Is
    <3> QED BY <1>n, <3>5
  <2> HIDE DEF S
  <2>3. 0..n \subseteq S
    BY ONLY <1>n, <2>1, <2>2, UpTo
  <2>4. n \in S
    BY <1>n, <2>3
  <2> QED BY <2>4 DEF S
<1>3. Is(C, n)
  <2> HIDE DEF Is
  <2> QED BY <1>2
<1> HIDE DEF C
<1> DEFINE h == [k \in 0..n |-> C[1..k]]
<1>4. h[0] = << >>
  <2>1. 1..0 = {} /\ 0 \in 0..n /\ {} \in SUBSET (1..n)
    BY <1>n
  <2> QED BY <1>3, <2>1
<1>5. ASSUME NEW k \in 0..(n - 1) PROVE h[k + 1] = AddPosition(capacity, h[k], order[k + 1], PaddedWidth(lens, rows, multiple, width, order[k + 1]))
  <2> DEFINE s == 1..(k + 1)
  <2>1. s \in SUBSET (1..n) /\ s # {} /\ Max(s) = k + 1 /\ s \ {k + 1} = 1..k
    BY <1>n, LastPlace
  <2>2. k \in 0..n /\ k + 1 \in 0..n /\ h[k] = C[1..k] /\ h[k + 1] = C[s]
    BY <1>n
  <2> HIDE DEF s, h
  <2>3. C[s] = AddPosition(capacity, C[s \ {Max(s)}], order[Max(s)], PaddedWidth(lens, rows, multiple, width, order[Max(s)]))
    BY <1>3, <2>1
  <2> HIDE DEF Is
  <2> QED BY <2>1, <2>2, <2>3
<1>6. h[n] = C[1..n]
  BY <1>n
<1> HIDE DEF h, Is
<1> QED BY <1>1, <1>4, <1>5, <1>6


\* Positions within a cut.
Within(c, p) == c.first <= p /\ p <= c.last

\* The cuts take the first p positions, each once and in order, and what they take, at the
\* width of the widest of them, is within the capacity.
Partition(cuts, p, capacity, padded) ==
    /\ cuts \in Seq([first : Nat, last : Nat, width : Nat])
    /\ p > 0 => Len(cuts) > 0 /\ cuts[Len(cuts)].last = p
    /\ p = 0 => Len(cuts) = 0
    /\ \A m \in 1..Len(cuts) :
           /\ 1 <= cuts[m].first /\ cuts[m].first <= cuts[m].last /\ cuts[m].last <= p
           /\ (cuts[m].last - cuts[m].first + 1) * cuts[m].width <= capacity
    /\ \A m \in 1..Len(cuts) : \A q \in 1..p : Within(cuts[m], q) => padded[q] <= cuts[m].width
    /\ \A q \in 1..p : \E m \in 1..Len(cuts) : Within(cuts[m], q)
    /\ \A q \in 1..p : \A m, l \in 1..Len(cuts) :
           Within(cuts[m], q) /\ Within(cuts[l], q) => m = l

\* Another position joins the last cut, or begins one of its own.
LEMMA PositionAdded ==
    ASSUME NEW capacity, NEW cuts, NEW p \in Nat, NEW padded, Partition(cuts, p, capacity, padded),
           NEW w, w = padded[p + 1], w <= capacity, capacity \in Nat,
           \A q \in 1..(p + 1) : padded[q] \in Nat
    PROVE  Partition(AddPosition(capacity, cuts, p + 1, w), p + 1, capacity, padded)
<1> DEFINE C == [first : Nat, last : Nat, width : Nat]
           n == Len(cuts)
           c == cuts[n]
           wide == Widened(c, w)
           joins == cuts # << >> /\ ((p + 1) - c.first + 1) * wide <= capacity
           joined == [first |-> c.first, last |-> p + 1, width |-> wide]
           own == [first |-> p + 1, last |-> p + 1, width |-> w]
           new == AddPosition(capacity, cuts, p + 1, w)
<1>1. /\ cuts \in Seq(C) /\ n \in Nat
      /\ \A m \in 1..n : cuts[m] \in C
  <2>1. cuts \in Seq(C)
    BY DEF Partition
  <2> HIDE DEF C
  <2> QED BY <2>1
<1>2. /\ p > 0 => n > 0 /\ cuts[n].last = p
      /\ p = 0 => n = 0
  BY DEF Partition
<1>3. \A m \in 1..n :
          /\ 1 <= cuts[m].first /\ cuts[m].first <= cuts[m].last /\ cuts[m].last <= p
          /\ (cuts[m].last - cuts[m].first + 1) * cuts[m].width <= capacity
  BY DEF Partition
<1>4. \A m \in 1..n : \A q \in 1..p : Within(cuts[m], q) => padded[q] <= cuts[m].width
  BY DEF Partition
<1>5. \A q \in 1..p : \E m \in 1..n : Within(cuts[m], q)
  BY DEF Partition
<1>6. \A q \in 1..p : \A m, l \in 1..n : Within(cuts[m], q) /\ Within(cuts[l], q) => m = l
  BY DEF Partition
<1>w. w \in Nat
  <2>1. p + 1 \in 1..(p + 1)
    OBVIOUS
  <2> QED BY <2>1
<1>7. new = IF joins THEN ReplaceAt(cuts, n, joined) ELSE Append(cuts, own)
  <2> DEFINE last == Last(cuts)
             wider == Widened(last, w)
  <2>1. new = IF cuts # << >> /\ ((p + 1) - last.first + 1) * wider <= capacity
              THEN ReplaceAt(cuts, n, [first |-> last.first, last |-> p + 1, width |-> wider])
              ELSE Append(cuts, own)
    BY DEF AddPosition
  <2>2. last = c
    BY DEF Last
  <2> HIDE DEF last, c, n, own, new
  <2> QED BY <2>1, <2>2
<1>8. CASE joins
  <2>1. n \in 1..n /\ c \in C
    <3>1. cuts # << >>
      BY <1>8
    <3>2. n # 0
      BY <1>1, <3>1
    <3>3. n \in 1..n
      BY <1>1, <3>2
    <3> HIDE DEF n
    <3> QED BY <1>1, <3>3
  <2>2. wide \in Nat /\ w <= wide /\ c.width <= wide /\ c.first \in Nat
    BY <1>w, <2>1 DEF Widened
  <2>3. ((p + 1) - c.first + 1) * wide <= capacity
    BY <1>8
  <2> HIDE DEF wide
  <2>4. joined \in C /\ joined.first = c.first /\ joined.last = p + 1 /\ joined.width = wide
    <3> HIDE DEF c
    <3>1. c \in C /\ p + 1 \in Nat /\ wide \in Nat
      BY <2>1, <2>2
    <3> QED BY <2>2, <3>1
  <2>5. new = ReplaceAt(cuts, n, joined)
    BY <1>7, <1>8
  <2> HIDE DEF joins, joined, new
  <2>6. /\ new \in Seq(C) /\ Len(new) = n
        /\ \A m \in 1..n : new[m] = IF m = n THEN joined ELSE cuts[m]
    <3>1. ReplaceAt(cuts, n, joined) = [m \in 1..n |-> IF m = n THEN joined ELSE cuts[m]]
      <4>1. DOMAIN cuts = 1..n
        <5> HIDE DEF C
        <5> QED BY <1>1
      <4> HIDE DEF n
      <4> QED BY <4>1 DEF ReplaceAt
    <3>2. new = [m \in 1..n |-> IF m = n THEN joined ELSE cuts[m]]
      BY <2>5, <3>1
    <3> HIDE DEF n, c
    <3>3. new \in [1..n -> C]
      BY <1>1, <2>4, <3>2
    <3> QED BY <1>1, <3>2, <3>3, FunctionIsSeq
  <2>p. p > 0 /\ c.last = p
    BY <1>2, <2>1
  <2>f. 1 <= c.first /\ c.first <= p
    BY <1>3, <2>1, <2>p
  <2> HIDE DEF c
  <2>c. c = cuts[n]
    BY DEF c
  <2> HIDE DEF n, C
  <2>7. \A m \in 1..n :
            /\ 1 <= new[m].first /\ new[m].first <= new[m].last /\ new[m].last <= p + 1
            /\ (new[m].last - new[m].first + 1) * new[m].width <= capacity
    <3> SUFFICES ASSUME NEW m \in 1..n
                 PROVE  /\ 1 <= new[m].first /\ new[m].first <= new[m].last
                        /\ new[m].last <= p + 1
                        /\ (new[m].last - new[m].first + 1) * new[m].width <= capacity
      OBVIOUS
    <3>1. CASE m = n
      <4>1. new[m] = joined
        BY <2>1, <2>6, <3>1
      <4> QED BY <2>2, <2>3, <2>4, <2>f, <4>1
    <3>2. CASE m # n
      <4>1. new[m] = cuts[m] /\ cuts[m].last <= p /\ cuts[m] \in C
        BY <1>1, <1>3, <2>6, <3>2
      <4>2. cuts[m].last \in Nat
        BY <4>1 DEF C
      <4>3. cuts[m].last <= p + 1
        BY <4>1, <4>2
      <4> QED BY <1>3, <4>1, <4>3
    <3> QED BY <3>1, <3>2
  \* Only the last cut reaches position p + 1; up to p a position is where it was.
  <2>8. ASSUME NEW m \in 1..n, NEW q \in 1..(p + 1)
        PROVE  Within(new[m], q) <=> (q = p + 1 /\ m = n) \/ (q \in 1..p /\ Within(cuts[m], q))
    <3>1. CASE m = n
      <4>1. new[m] = joined
        BY <2>1, <2>6, <3>1
      <4> QED BY <2>2, <2>4, <2>c, <2>f, <2>p, <3>1, <4>1 DEF Within
    <3>2. CASE m # n
      <4>1. new[m] = cuts[m] /\ cuts[m].last <= p /\ cuts[m].last \in Nat
        BY <1>1, <1>3, <2>6, <3>2 DEF C
      <4> QED BY <3>2, <4>1 DEF Within
    <3> QED BY <3>1, <3>2
  <2>9. ASSUME NEW m \in 1..n, NEW q \in 1..(p + 1), Within(new[m], q)
        PROVE  padded[q] <= new[m].width
    <3>1. CASE q = p + 1
      <4>1. m = n /\ new[m] = joined
        BY <2>1, <2>6, <2>8, <2>9, <3>1
      <4> QED BY <2>2, <2>4, <3>1, <4>1
    <3>2. CASE q # p + 1
      <4>1. q \in 1..p /\ Within(cuts[m], q) /\ padded[q] <= cuts[m].width
        BY <1>4, <2>8, <2>9, <3>2
      <4>2. new[m].width = cuts[m].width \/ (m = n /\ new[m] = joined)
        BY <2>6
      <4>3. CASE m = n /\ new[m] = joined
        <5>1. padded[q] <= c.width /\ c.width <= wide /\ new[m].width = wide
          BY <2>2, <2>4, <2>c, <4>1, <4>3
        <5>2. padded[q] <= c.width /\ c.width \in Nat
          BY <2>1, <5>1 DEF C
        <5>3. padded[q] \in Nat
          BY <4>1
        <5> QED BY <2>2, <5>1, <5>2, <5>3
      <4> QED BY <4>1, <4>2, <4>3
    <3> QED BY <3>1, <3>2
  <2>10. ASSUME NEW q \in 1..(p + 1) PROVE \E m \in 1..n : Within(new[m], q)
    <3>1. CASE q = p + 1
      BY <2>1, <2>8, <3>1
    <3>2. CASE q # p + 1
      <4>1. q \in 1..p
        BY <3>2
      <4>2. PICK m \in 1..n : Within(cuts[m], q)
        BY <1>5, <4>1
      <4> QED BY <2>8, <4>1, <4>2
    <3> QED BY <3>1, <3>2
  <2>11. ASSUME NEW q \in 1..(p + 1), NEW m \in 1..n, NEW l \in 1..n,
                Within(new[m], q), Within(new[l], q)
         PROVE  m = l
    <3>1. (q = p + 1 /\ m = n) \/ (q \in 1..p /\ Within(cuts[m], q))
      BY <2>8, <2>11
    <3>2. (q = p + 1 /\ l = n) \/ (q \in 1..p /\ Within(cuts[l], q))
      BY <2>8, <2>11
    <3>3. ~(p + 1 \in 1..p)
      OBVIOUS
    <3> QED BY <1>6, <3>1, <3>2, <3>3
  <2>12. new[n].last = p + 1 /\ n > 0
    BY <2>1, <2>4, <2>6
  <2>13. ~(p + 1 = 0)
    OBVIOUS
  <2>14. Partition(new, p + 1, capacity, padded)
    BY <2>6, <2>7, <2>9, <2>10, <2>11, <2>12, <2>13 DEF Partition, C
  <2> QED BY <2>14 DEF new
<1>9. CASE ~joins
  <2>1. new = Append(cuts, own)
    BY <1>7, <1>9
  <2>2. own \in C /\ own.first = p + 1 /\ own.last = p + 1 /\ own.width = w
    BY <1>w
  <2> HIDE DEF joins, own, new, c
  <2>3. /\ new \in Seq(C) /\ Len(new) = n + 1 /\ new[n + 1] = own
        /\ \A m \in 1..n : new[m] = cuts[m]
    <3> HIDE DEF C
    <3> QED BY <1>1, <2>1, <2>2, Extended
  <2> HIDE DEF n, C
  <2>4. \A m \in 1..(n + 1) :
            /\ 1 <= new[m].first /\ new[m].first <= new[m].last /\ new[m].last <= p + 1
            /\ (new[m].last - new[m].first + 1) * new[m].width <= capacity
    <3> SUFFICES ASSUME NEW m \in 1..(n + 1)
                 PROVE  /\ 1 <= new[m].first /\ new[m].first <= new[m].last
                        /\ new[m].last <= p + 1
                        /\ (new[m].last - new[m].first + 1) * new[m].width <= capacity
      OBVIOUS
    <3>1. CASE m = n + 1
      <4>1. new[m].first = p + 1 /\ new[m].last = p + 1 /\ new[m].width = w
        BY <2>2, <2>3, <3>1
      <4>2. ((p + 1) - (p + 1) + 1) * w = w
        BY <1>w
      <4> QED BY <4>1, <4>2
    <3>2. CASE m # n + 1
      <4>1. m \in 1..n
        BY <1>1, <3>2
      <4>2. new[m] = cuts[m] /\ cuts[m].last <= p /\ cuts[m].last \in Nat
        BY <1>1, <1>3, <2>3, <4>1 DEF C
      <4>3. cuts[m].last <= p + 1
        BY <4>2
      <4> QED BY <1>3, <4>1, <4>2, <4>3
    <3> QED BY <3>1, <3>2
  \* Position p + 1 is alone in the new cut; up to p a position is where it was.
  <2>5. ASSUME NEW m \in 1..(n + 1), NEW q \in 1..(p + 1)
        PROVE  Within(new[m], q) <=>
                   (q = p + 1 /\ m = n + 1) \/ (q \in 1..p /\ m \in 1..n /\ Within(cuts[m], q))
    <3>1. CASE m = n + 1
      <4>1. new[m].first = p + 1 /\ new[m].last = p + 1 /\ ~(m \in 1..n)
        BY <1>1, <2>2, <2>3, <3>1
      <4> QED BY <3>1, <4>1 DEF Within
    <3>2. CASE m # n + 1
      <4>1. m \in 1..n
        BY <1>1, <3>2
      <4>2. new[m] = cuts[m] /\ cuts[m].last <= p /\ cuts[m].last \in Nat
        BY <1>1, <1>3, <2>3, <4>1 DEF C
      <4> QED BY <3>2, <4>1, <4>2 DEF Within
    <3> QED BY <3>1, <3>2
  <2>6. ASSUME NEW m \in 1..(n + 1), NEW q \in 1..(p + 1), Within(new[m], q)
        PROVE  padded[q] <= new[m].width
    <3>1. CASE q = p + 1
      <4>1. m = n + 1
        <5>1. ~(q \in 1..p)
          BY <3>1
        <5> QED BY <2>5, <2>6, <5>1
      <4>2. new[m].width = w /\ padded[q] = w
        BY <2>2, <2>3, <3>1, <4>1
      <4> QED BY <4>2
    <3>2. CASE q # p + 1
      <4>1. q \in 1..p /\ m \in 1..n /\ Within(cuts[m], q)
        BY <2>5, <2>6, <3>2
      <4> QED BY <1>4, <2>3, <4>1
    <3> QED BY <3>1, <3>2
  <2>7. ASSUME NEW q \in 1..(p + 1) PROVE \E m \in 1..(n + 1) : Within(new[m], q)
    <3>0. n + 1 \in 1..(n + 1) /\ 1..n \subseteq 1..(n + 1)
      BY <1>1
    <3>1. CASE q = p + 1
      BY <2>5, <3>0, <3>1
    <3>2. CASE q # p + 1
      <4>1. q \in 1..p
        BY <3>2
      <4>2. PICK m \in 1..n : Within(cuts[m], q)
        BY <1>5, <4>1
      <4> QED BY <2>5, <3>0, <4>1, <4>2
    <3> QED BY <3>1, <3>2
  <2>8. ASSUME NEW q \in 1..(p + 1), NEW m \in 1..(n + 1), NEW l \in 1..(n + 1),
               Within(new[m], q), Within(new[l], q)
        PROVE  m = l
    <3>1. (q = p + 1 /\ m = n + 1) \/ (q \in 1..p /\ m \in 1..n /\ Within(cuts[m], q))
      BY <2>5, <2>8
    <3>2. (q = p + 1 /\ l = n + 1) \/ (q \in 1..p /\ l \in 1..n /\ Within(cuts[l], q))
      BY <2>5, <2>8
    <3>3. ~(p + 1 \in 1..p)
      OBVIOUS
    <3> QED BY <1>6, <3>1, <3>2, <3>3
  <2>9. new[n + 1].last = p + 1 /\ n + 1 > 0 /\ ~(p + 1 = 0)
    BY <1>1, <2>2, <2>3
  <2>10. Partition(new, p + 1, capacity, padded)
    BY <2>3, <2>4, <2>6, <2>7, <2>8, <2>9 DEF Partition, C
  <2> QED BY <2>10 DEF new
<1> QED BY <1>8, <1>9

\* A stretch of a sequence.
LEMMA Stretch ==
    ASSUME NEW T, NEW s, s \in Seq(T), NEW a \in Nat, NEW b \in Nat,
           1 <= a, a <= b, b <= Len(s)
    PROVE  /\ SubSeq(s, a, b) \in Seq(T) /\ Len(SubSeq(s, a, b)) = b - a + 1
           /\ \A k \in 1..(b - a + 1) : SubSeq(s, a, b)[k] = s[a + k - 1]
<1>1. SubSeq(s, a, b) = [k \in 1..(b - a + 1) |-> s[a + k - 1]]
  OBVIOUS
<1>2. b - a + 1 \in Nat
  OBVIOUS
<1>3. \A k \in 1..(b - a + 1) : s[a + k - 1] \in T
  OBVIOUS
<1>4. SubSeq(s, a, b) \in [1..(b - a + 1) -> T]
  BY <1>1, <1>3
<1> QED BY <1>1, <1>2, <1>4, FunctionIsSeq

\* Rounded up, a length is no less.
LEMMA RoundedUp ==
    ASSUME NEW l \in Nat, NEW m \in Nat \ {0}
    PROVE  RoundUp(l, m) \in Nat /\ l <= RoundUp(l, m)
<1> DEFINE a == l + m - 1
           q == a \div m
           mq == m * q
<1>1. a \in Nat
  OBVIOUS
<1>2. q \in Nat /\ a % m \in 0..(m - 1) /\ a = m * q + (a % m)
  BY <1>1, Division
<1>3. mq \in Nat /\ q * m = mq
  BY <1>2
<1>4. RoundUp(l, m) = mq
  BY <1>3 DEF RoundUp
<1>5. a = mq + (a % m)
  BY <1>2
<1> HIDE DEF q, mq
<1>6. l <= mq
  BY <1>2, <1>3, <1>5
<1> QED BY <1>3, <1>4, <1>6

\* The width of a position is a bound of the lengths there, and bounded itself.
LEMMA WidthAt ==
    ASSUME NEW lens, NEW rows, NEW n \in Nat \ {0}, DOMAIN rows = 1..n, NEW p,
           NEW width \in Nat, \A s \in 1..n : lens[rows[s][p]] \in 1..width,
           NEW multiple \in Nat \ {0}
    PROVE  /\ PaddedWidth(lens, rows, multiple, width, p) \in Nat
           /\ PaddedWidth(lens, rows, multiple, width, p) <= width
           /\ \A s \in 1..n : lens[rows[s][p]] <= PaddedWidth(lens, rows, multiple, width, p)
<1> DEFINE W == {lens[rows[s][p]] : s \in 1..n}
           w == Widest(lens, rows, p)
           padded == RoundUp(w, multiple)
<1>1. W \in SUBSET (1..width) /\ W # {}
  <2>1. 1 \in 1..n
    OBVIOUS
  <2> QED BY <2>1
<1>2. \E x \in W : \A s \in 1..n : lens[rows[s][p]] <= x
  <2>1. Max(W) \in W /\ \A x \in W : x <= Max(W)
    <3> HIDE DEF W
    <3> QED BY <1>1, Largest
  <2> HIDE DEF Max
  <2> QED BY <2>1
<1>3. w \in W /\ \A s \in 1..n : lens[rows[s][p]] <= w
  <2>1. w = CHOOSE x \in W : \A s \in 1..n : lens[rows[s][p]] <= x
    BY Zenon DEF Widest
  <2> HIDE DEF w, W
  <2> QED BY <1>2, <2>1
<1>4. w \in 1..width
  <2> HIDE DEF w, W
  <2> QED BY <1>1, <1>3
<1>5. padded \in Nat /\ w <= padded
  <2> HIDE DEF w
  <2>1. w \in Nat
    BY <1>4
  <2> QED BY <2>1, RoundedUp
<1>6. PaddedWidth(lens, rows, multiple, width, p) = IF padded < width THEN padded ELSE width
  BY DEF PaddedWidth
<1> HIDE DEF w, W, padded
<1>7. ASSUME NEW s \in 1..n PROVE lens[rows[s][p]] <= padded /\ lens[rows[s][p]] <= width
  <2>1. lens[rows[s][p]] <= w /\ lens[rows[s][p]] \in 1..width
    BY <1>3
  <2> QED BY <1>4, <1>5, <2>1
<1> QED BY <1>5, <1>6, <1>7

\* The cuts take every position once, within the capacity.
LEMMA DynamicCutsPartition ==
    ASSUME NEW capacity \in Nat, NEW lens, NEW rows, NEW n \in Nat \ {0}, DOMAIN rows = 1..n,
           NEW q \in Nat, Len(rows[1]) = q, NEW width \in Nat, width <= capacity,
           \A s \in 1..n : \A p \in 1..q : lens[rows[s][p]] \in 1..width,
           NEW multiple \in Nat \ {0}, NEW padded,
           padded = [p \in 1..q |-> PaddedWidth(lens, rows, multiple, width, p)]
    PROVE  Partition(DynamicCuts(capacity, lens, rows, multiple, width), q, capacity, padded)
<1> DEFINE total == DynamicCuts(capacity, lens, rows, multiple, width)
           order == [p \in 1..Len(rows[1]) |-> p]
<1>t. total = DynamicCuts(capacity, lens, rows, multiple, width)
  OBVIOUS
<1>o. order = [p \in 1..Len(rows[1]) |-> p] /\ q = Len(rows[1]) /\ q \in Nat
  OBVIOUS
<1>p. \A p \in 1..q : order[p] = p
  OBVIOUS
<1> HIDE DEF total, order
<1>1. PICK h : /\ h[0] = << >>
               /\ \A k \in 0..(q - 1) : h[k + 1] =
                      AddPosition(capacity, h[k], order[k + 1],
                                  PaddedWidth(lens, rows, multiple, width, order[k + 1]))
               /\ total = h[q]
  BY ONLY <1>t, <1>o, DynamicCutsUnfold
<1>2. ASSUME NEW p \in 1..q
      PROVE  padded[p] \in Nat /\ padded[p] <= width /\ padded[p] <= capacity
  <2>1. \A s \in 1..n : lens[rows[s][p]] \in 1..width
    OBVIOUS
  <2>2. /\ PaddedWidth(lens, rows, multiple, width, p) \in Nat
        /\ PaddedWidth(lens, rows, multiple, width, p) <= width
    BY <2>1, WidthAt
  <2>3. padded[p] = PaddedWidth(lens, rows, multiple, width, p)
    OBVIOUS
  <2> QED BY <2>2, <2>3
<1> DEFINE Good == {k \in 0..q : Partition(h[k], k, capacity, padded)}
<1>3. 0 \in Good
  <2>1. h[0] = << >> /\ 0 \in 0..q
    BY <1>1
  <2>2. Partition(<< >>, 0, capacity, padded)
    BY DEF Partition
  <2> QED BY <2>1, <2>2
<1>4. \A k \in 0..(q - 1) : k \in Good => k + 1 \in Good
  <2> SUFFICES ASSUME NEW k \in 0..(q - 1), k \in Good PROVE k + 1 \in Good
    OBVIOUS
  <2>1. k \in Nat /\ k + 1 \in 1..q /\ k + 1 \in 0..q
    OBVIOUS
  <2>2. Partition(h[k], k, capacity, padded)
    OBVIOUS
  <2>3. h[k + 1] = AddPosition(capacity, h[k], k + 1, padded[k + 1])
    BY <1>1, <1>p, <2>1
  <2>4. padded[k + 1] <= capacity /\ \A p \in 1..(k + 1) : padded[p] \in Nat
    BY <1>2, <2>1
  <2>5. Partition(AddPosition(capacity, h[k], k + 1, padded[k + 1]), k + 1, capacity, padded)
    BY <2>1, <2>2, <2>4, PositionAdded
  <2> QED BY <2>1, <2>3, <2>5
<1> HIDE DEF Good
<1>5. 0..q \subseteq Good
  BY ONLY <1>o, <1>3, <1>4, UpTo
<1>6. q \in Good
  BY <1>5
<1> QED BY <1>1, <1>6 DEF Good, total

\* The length of the longest row bounds the lengths of all.
LEMMA WidthBounds ==
    ASSUME NEW n \in Nat, lengths \in Seq(1..n), Len(lengths) > 0
    PROVE  Width \in 1..n /\ \A i \in Row : lengths[i] \in 1..Width
<1> DEFINE W == {lengths[i] : i \in Row}
<1>1. Row = 1..Len(lengths) /\ \A i \in Row : lengths[i] \in 1..n
  BY DEF Row
<1>2. W \in SUBSET (1..n) /\ W # {}
  <2>1. 1 \in Row
    BY <1>1
  <2> QED BY <1>1, <2>1
<1>3. \E w \in W : \A i \in Row : lengths[i] <= w
  <2>1. Max(W) \in W /\ \A x \in W : x <= Max(W)
    <3> HIDE DEF W
    <3> QED BY <1>2, Largest
  <2> HIDE DEF Max
  <2> QED BY <2>1
<1>4. Width \in W /\ \A i \in Row : lengths[i] <= Width
  BY <1>3 DEF Width
<1> HIDE DEF W
<1>5. Width \in 1..n
  BY <1>2, <1>4
<1> QED BY <1>1, <1>4, <1>5

\* A microbatch that is padded to its longest row is within the capacity.
Rectangular(cut, tokens) ==
    \A s \in Shard : \A m \in 1..Len(cut[s]) : \A k \in 1..Len(cut[s][m]) :
        Len(cut[s][m]) * lengths[cut[s][m][k]] <= tokens

\* Cut alike by the widest row at each position, the shards have equally many microbatches and
\* no row is in two of them.
THEOREM DynamicCutCuts ==
    ASSUME NEW R, R \in SUBSET Nat, IsFiniteSet(R), NEW chunk, ToSet(chunk) = R,
           NEW q \in Nat, Cardinality(R) = Shards * q,
           NEW tokens \in Nat, Width \in Nat, Width <= tokens,
           \A i \in R : lengths[i] \in 1..Width
    PROVE  Cuts(DynamicCut(chunk, tokens), R) /\ Rectangular(DynamicCut(chunk, tokens), tokens)
<1> DEFINE n == Shards
           rows == Stride(lengths, R, n)
           sorted == Ascending(lengths, R)
           cuts == DynamicCuts(tokens, lengths, rows, RoundMultiple, Width)
           D == DynamicCut(chunk, tokens)
           padded == [p \in 1..q |-> PaddedWidth(lengths, rows, RoundMultiple, Width, p)]
           First(m) == cuts[m].first
           Final(m) == cuts[m].last
<1>1. n \in Nat \ {0} /\ RoundMultiple \in Nat \ {0} /\ Shard = 1..n
  BY PolicyConstants DEF Shard
<1>2. /\ Lists(sorted, R) /\ Len(sorted) = n * q
      /\ rows \in [1..n -> Seq(R)]
      /\ \A s \in 1..n : Len(rows[s]) = q
      /\ \A s \in 1..n : \A k \in 1..q : rows[s][k] = sorted[Turn(n, s, k)]
  <2>1. rows = Stride(lengths, R, n) /\ sorted = Ascending(lengths, R)
    OBVIOUS
  <2>2. \A i \in R : lengths[i] \in Nat
    OBVIOUS
  <2>3. Cardinality(R) = n * q
    OBVIOUS
  <2> HIDE DEF rows, sorted, n
  <2>4. Strides(rows, sorted, R, n, q)
    BY <1>1, <2>1, <2>2, <2>3, StrideTurns
  <2> QED BY <2>4 DEF Strides
<1>3. D = [s \in Shard |-> [m \in DOMAIN cuts |-> SubSeq(rows[s], First(m), Final(m))]]
  BY Zenon DEF DynamicCut
<1>c. cuts = DynamicCuts(tokens, lengths, rows, RoundMultiple, Width)
  OBVIOUS
<1>d. padded = [p \in 1..q |-> PaddedWidth(lengths, rows, RoundMultiple, Width, p)]
  OBVIOUS
<1>a. TakeTurns(n, q, Len(sorted))
  BY <1>1, <1>2, Turns
<1> HIDE DEF cuts, padded, rows, sorted, n, D
<1>4. \A s \in 1..n : \A p \in 1..q : rows[s][p] \in R
  <2> SUFFICES ASSUME NEW s \in 1..n, NEW p \in 1..q PROVE rows[s][p] \in R
    OBVIOUS
  <2>1. rows[s] \in Seq(R) /\ Len(rows[s]) = q
    BY <1>2
  <2> QED BY <2>1
<1>5. Partition(cuts, q, tokens, padded)
  <2>1. DOMAIN rows = 1..n /\ Len(rows[1]) = q
    BY <1>1, <1>2
  <2>2. \A s \in 1..n : \A p \in 1..q : lengths[rows[s][p]] \in 1..Width
    BY <1>4
  <2> QED BY <1>1, <1>c, <1>d, <2>1, <2>2, DynamicCutsPartition
<1>6. ASSUME NEW s \in 1..n, NEW p \in 1..q
      PROVE  padded[p] \in Nat /\ lengths[rows[s][p]] <= padded[p]
  <2>1. DOMAIN rows = 1..n /\ \A t \in 1..n : lengths[rows[t][p]] \in 1..Width
    BY <1>2, <1>4
  <2>2. /\ PaddedWidth(lengths, rows, RoundMultiple, Width, p) \in Nat
        /\ \A t \in 1..n :
               lengths[rows[t][p]] <= PaddedWidth(lengths, rows, RoundMultiple, Width, p)
    BY <1>1, <2>1, WidthAt
  <2> QED BY <1>d, <2>2
<1> DEFINE c == Len(cuts)
<1>7. /\ c \in Nat /\ DOMAIN cuts = 1..c
      /\ \A m \in 1..c : /\ First(m) \in Nat /\ Final(m) \in Nat /\ cuts[m].width \in Nat
                         /\ 1 <= First(m) /\ First(m) <= Final(m) /\ Final(m) <= q
                         /\ (Final(m) - First(m) + 1) * cuts[m].width <= tokens
  <2> DEFINE C == [first : Nat, last : Nat, width : Nat]
  <2>1. cuts \in Seq(C)
    BY <1>5 DEF Partition
  <2> HIDE DEF C
  <2>2. c \in Nat /\ DOMAIN cuts = 1..c /\ \A m \in 1..c : cuts[m] \in C
    BY <2>1
  <2>3. \A m \in 1..c : /\ 1 <= First(m) /\ First(m) <= Final(m) /\ Final(m) <= q
                        /\ (Final(m) - First(m) + 1) * cuts[m].width <= tokens
    BY <1>5 DEF Partition
  <2>4. \A m \in 1..c : First(m) \in Nat /\ Final(m) \in Nat /\ cuts[m].width \in Nat
    BY <2>2 DEF C
  <2> QED BY <2>2, <2>3, <2>4
<1>8. /\ \A m \in 1..c : \A p \in 1..q : Within(cuts[m], p) => padded[p] <= cuts[m].width
      /\ \A p \in 1..q : \E m \in 1..c : Within(cuts[m], p)
      /\ \A p \in 1..q : \A m, l \in 1..c : Within(cuts[m], p) /\ Within(cuts[l], p) => m = l
  BY <1>5 DEF Partition
<1> HIDE DEF c
\* What lies where.
<1>9. ASSUME NEW s \in 1..n, NEW m \in 1..c
      PROVE  /\ D[s][m] \in Seq(R) /\ Len(D[s][m]) = Final(m) - First(m) + 1
             /\ Final(m) - First(m) + 1 \in Nat \ {0}
             /\ \A k \in 1..Len(D[s][m]) :
                    /\ First(m) + k - 1 \in 1..q /\ Within(cuts[m], First(m) + k - 1)
                    /\ D[s][m][k] = rows[s][First(m) + k - 1]
  <2> DEFINE a == First(m)
             b == Final(m)
  <2>1. a \in Nat /\ b \in Nat /\ 1 <= a /\ a <= b /\ b <= Len(rows[s]) /\ Len(rows[s]) = q
    BY <1>2, <1>7
  <2>2. rows[s] \in Seq(R)
    BY <1>2
  <2>3. D[s][m] = SubSeq(rows[s], a, b)
    BY <1>1, <1>3, <1>7
  <2>4. a = cuts[m].first /\ b = cuts[m].last
    OBVIOUS
  <2> HIDE DEF a, b
  <2>5. /\ D[s][m] \in Seq(R) /\ Len(D[s][m]) = b - a + 1
        /\ \A k \in 1..(b - a + 1) : D[s][m][k] = rows[s][a + k - 1]
    BY <2>1, <2>2, <2>3, Stretch
  <2>6. \A k \in 1..(b - a + 1) : a + k - 1 \in 1..q /\ Within(cuts[m], a + k - 1)
    <3> SUFFICES ASSUME NEW k \in 1..(b - a + 1)
                 PROVE  a + k - 1 \in 1..q /\ Within(cuts[m], a + k - 1)
      OBVIOUS
    <3>1. b <= q /\ k \in Nat /\ 1 <= k /\ k <= b - a + 1
      BY <2>1
    <3>2. a + k - 1 \in 1..q /\ a <= a + k - 1 /\ a + k - 1 <= b
      BY ONLY <2>1, <3>1, q \in Nat
    <3> QED BY <2>4, <3>2 DEF Within
  <2>7. b - a + 1 \in Nat \ {0}
    BY <2>1
  <2> QED BY <2>4, <2>5, <2>6, <2>7
<1>10. D \in [Shard -> Seq(Seq(R))] /\ \A s \in Shard : Len(D[s]) = c
  <2>1. ASSUME NEW s \in 1..n PROVE D[s] \in Seq(Seq(R)) /\ Len(D[s]) = c
    <3>1. D[s] = [m \in 1..c |-> SubSeq(rows[s], First(m), Final(m))]
      BY <1>1, <1>3, <1>7
    <3>2. \A m \in 1..c : D[s][m] \in Seq(R)
      BY <1>9
    <3>3. D[s] \in [1..c -> Seq(R)]
      <4>1. D[s] = [m \in 1..c |-> D[s][m]]
        BY <3>1
      <4> QED BY <3>2, <4>1
    <3> QED BY <1>7, <3>3, FunctionIsSeq
  <2>2. D = [s \in Shard |-> D[s]]
    BY <1>3
  <2> QED BY <1>1, <2>1, <2>2
<1>11. ASSUME NEW s \in Shard, NEW t \in Shard, NEW m \in 1..Len(D[s]), NEW l \in 1..Len(D[t]),
              NEW k \in 1..Len(D[s][m]), NEW j \in 1..Len(D[t][l]), D[s][m][k] = D[t][l][j]
       PROVE  s = t /\ m = l /\ k = j
  <2> DEFINE p == First(m) + k - 1
             r == First(l) + j - 1
  <2>0. s \in 1..n /\ t \in 1..n /\ m \in 1..c /\ l \in 1..c
    BY <1>1, <1>10
  <2>1. /\ p \in 1..q /\ Within(cuts[m], p) /\ D[s][m][k] = rows[s][p]
        /\ r \in 1..q /\ Within(cuts[l], r) /\ D[t][l][j] = rows[t][r]
    BY <1>9, <2>0, SMTT(30)
  <2>f. p = First(m) + k - 1 /\ r = First(l) + j - 1 /\ First(m) \in Nat /\ First(l) \in Nat
    BY <1>7, <2>0
  <2> HIDE DEF p, r
  <2>2. sorted[Turn(n, s, p)] = sorted[Turn(n, t, r)]
    BY <1>2, <1>11, <2>0, <2>1
  <2>3. Turn(n, s, p) \in 1..Len(sorted) /\ Turn(n, t, r) \in 1..Len(sorted)
    BY <1>a, <2>0, <2>1 DEF TakeTurns
  <2>4. Turn(n, s, p) = Turn(n, t, r)
    BY <1>2, <2>2, <2>3 DEF Lists
  <2>5. s = t /\ p = r
    BY <1>a, <2>0, <2>1, <2>4 DEF TakeTurns
  <2>6. m = l
    BY <1>8, <2>0, <2>1, <2>5
  <2>7. k \in Nat /\ j \in Nat
    BY <1>9, <2>0
  <2>8. k = j
    <3> DEFINE a == First(m)
    <3>1. a \in Nat /\ p = a + k - 1 /\ p = a + j - 1
      BY <2>5, <2>6, <2>f
    <3> HIDE DEF a
    <3> QED BY <2>7, <3>1
  <2> QED BY <2>5, <2>6, <2>8
<1>12. ASSUME NEW i \in R
       PROVE  \E s \in Shard : \E m \in 1..Len(D[s]) : \E k \in 1..Len(D[s][m]) : D[s][m][k] = i
  <2>1. PICK b \in 1..Len(sorted) : sorted[b] = i
    BY <1>2 DEF Lists
  <2>2. PICK s \in 1..n, p \in 1..q : Turn(n, s, p) = b
    BY <1>a DEF TakeTurns
  <2>3. rows[s][p] = i
    BY <1>2, <2>1, <2>2
  <2>4. PICK m \in 1..c : Within(cuts[m], p)
    BY <1>8
  <2> DEFINE k == p - First(m) + 1
  <2>5. k \in 1..Len(D[s][m]) /\ First(m) + k - 1 = p
    <3>1. Len(D[s][m]) = Final(m) - First(m) + 1 /\ First(m) \in Nat /\ Final(m) \in Nat
      BY <1>7, <1>9
    <3>2. First(m) <= p /\ p <= Final(m)
      BY <2>4 DEF Within
    <3> DEFINE a == First(m)
               z == Final(m)
               size == Len(D[s][m])
    <3>3. size = z - a + 1 /\ a \in Nat /\ z \in Nat /\ a <= p /\ p <= z
      BY <3>1, <3>2
    <3> HIDE DEF a, z, size
    <3>4. p - a + 1 \in 1..size /\ a + (p - a + 1) - 1 = p
      BY <3>3
    <3> QED BY <3>4 DEF a, size
  <2>6. D[s][m][k] = i
    <3> HIDE DEF k
    <3>1. D[s][m][k] = rows[s][First(m) + k - 1]
      BY <1>9, <2>5
    <3> QED BY <2>3, <2>5, <3>1
  <2>7. s \in Shard /\ m \in 1..Len(D[s])
    BY <1>1, <1>10
  <2> HIDE DEF k
  <2> QED BY <2>5, <2>6, <2>7
<1>13. \A s \in Shard : \A m \in 1..Len(D[s]) : Len(D[s][m]) > 0
  <2> SUFFICES ASSUME NEW s \in Shard, NEW m \in 1..Len(D[s]) PROVE Len(D[s][m]) > 0
    OBVIOUS
  <2>1. s \in 1..n /\ m \in 1..c
    BY <1>1, <1>10
  <2>2. Len(D[s][m]) = Final(m) - First(m) + 1 /\ Final(m) - First(m) + 1 \in Nat \ {0}
    BY <1>9, <2>1
  <2>3. Len(D[s][m]) \in Nat \ {0}
    BY <2>2
  <2> QED BY <2>3
<1>14. Cuts(D, R)
  <2>1. 1 \in Shard
    BY <1>1
  <2>2. \A s \in Shard : Len(D[s]) = Len(D[1])
    BY <1>10, <2>1
  <2> QED BY <1>10, <1>11, <1>12, <1>13, <2>2 DEF Cuts
<1>15. Rectangular(D, tokens)
  <2> SUFFICES ASSUME NEW s \in Shard, NEW m \in 1..Len(D[s]), NEW k \in 1..Len(D[s][m])
               PROVE  Len(D[s][m]) * lengths[D[s][m][k]] <= tokens
    BY DEF Rectangular
  <2>0. s \in 1..n /\ m \in 1..c
    BY <1>1, <1>10
  <2> DEFINE p == First(m) + k - 1
             size == Len(D[s][m])
             length == lengths[D[s][m][k]]
             wide == cuts[m].width
  <2>1. p \in 1..q /\ Within(cuts[m], p) /\ D[s][m][k] = rows[s][p]
    BY <1>9, <2>0
  <2>2. size \in Nat /\ size * wide <= tokens /\ wide \in Nat
    <3>1. size = Final(m) - First(m) + 1 /\ size \in Nat
      BY <1>9, <2>0
    <3> QED BY <1>7, <2>0, <3>1
  <2> HIDE DEF p
  <2>3. length \in Nat /\ padded[p] \in Nat /\ length <= padded[p] /\ padded[p] <= wide
    <3>1. lengths[rows[s][p]] \in 1..Width
      BY <1>4, <2>0, <2>1
    <3>2. padded[p] \in Nat /\ lengths[rows[s][p]] <= padded[p] /\ padded[p] <= wide
      BY <1>6, <1>8, <2>0, <2>1
    <3> QED BY <2>1, <3>1, <3>2
  <2> HIDE DEF size, length, wide
  <2>4. length <= wide
    BY <2>2, <2>3
  <2>5. length * size <= wide * size
    BY <2>2, <2>3, <2>4, Order
  <2>6. length * size = size * length /\ wide * size = size * wide
    BY <2>2, <2>3
  <2>7. size * length <= size * wide
    BY <2>5, <2>6
  <2> DEFINE x == size * length
             y == size * wide
  <2>8. x \in Nat /\ y \in Nat /\ x <= y /\ y <= tokens
    BY <2>2, <2>3, <2>7
  <2> HIDE DEF x, y
  <2>9. x <= tokens
    BY <2>8
  <2> QED BY <2>9 DEF x, size, length
<1> QED BY <1>14, <1>15 DEF D

-----------------------------------------------------------------------------
(* Cuts of a chunk. *)

\* Pieces of the same length, laid one after the other.
EvenlyLaid(flat, seqs, w, n, T) ==
    /\ flat \in Seq(T) /\ Len(flat) = w * n
    /\ \A i \in 1..n : \A j \in 1..w : flat[Turn(w, j, i)] = seqs[i][j]

\* Sequences of the same length lie evenly when they are flattened.
LEMMA FlattenEven ==
    ASSUME NEW T, NEW n \in Nat, NEW w \in Nat, NEW seqs, seqs \in [1..n -> Seq(T)],
           \A i \in 1..n : Len(seqs[i]) = w
    PROVE  EvenlyLaid(FlattenSeq(seqs), seqs, w, n, T)
<1> DEFINE start == [k \in 0..n |-> k * w]
           flat == FlattenSeq(seqs)
<1>1. StartsOf(start, seqs, n)
  <2>1. ASSUME NEW k \in 0..(n - 1) PROVE start[k + 1] = start[k] + Len(seqs[k + 1])
    <3>1. k + 1 \in 0..n /\ k \in 0..n /\ k + 1 \in 1..n /\ k \in Nat
      OBVIOUS
    <3>2. (k + 1) * w = k * w + w
      BY <3>1
    <3> QED BY <3>1, <3>2
  <2>2. \A k \in 0..n : k * w \in Nat
    OBVIOUS
  <2>3. start \in [0..n -> Nat] /\ start[0] = 0
    BY <2>2
  <2> QED BY <2>1, <2>3 DEF StartsOf
<1>s. \A i \in 1..n : start[i - 1] = (i - 1) * w
  OBVIOUS
<1>n. start[n] = w * n
  OBVIOUS
<1> HIDE DEF start, flat
<1>2. flat \in Seq(T) /\ LaysOut(flat, seqs, start, n)
  BY <1>1, Flattened DEF flat
<1>3. ASSUME NEW i \in 1..n, NEW j \in 1..w PROVE flat[Turn(w, j, i)] = seqs[i][j]
  <2>1. Len(seqs[i]) = w
    OBVIOUS
  <2>2. flat[start[i - 1] + j] = seqs[i][j]
    BY <1>2, <2>1 DEF LaysOut
  <2> DEFINE x == (i - 1) * w
  <2>3. x \in Nat /\ start[i - 1] = x
    BY <1>s
  <2>4. Turn(w, j, i) = j + x
    BY DEF Turn
  <2> HIDE DEF x
  <2>5. Turn(w, j, i) = start[i - 1] + j
    BY <2>3, <2>4
  <2> QED BY <2>2, <2>5
<1>4. Len(flat) = w * n
  BY <1>2, <1>n DEF LaysOut
<1> QED BY <1>2, <1>3, <1>4 DEF flat, EvenlyLaid

\* Where row k of the m-th microbatch of shard s is, with q microbatches of b rows per shard.
PlaceInChunk(b, q, s, m, k) == Turn(b * q, Turn(b, k, m), s)

\* Microbatches of a fixed size.
LEMMA FixedPlaces ==
    ASSUME NEW S, NEW chunk, Lists(chunk, S), NEW b, b = MicroBatchRows, b \in Nat \ {0},
           NEW q \in Nat \ {0}, Len(chunk) = b * q * Shards, NEW D, D = FixedCut(chunk)
    PROVE  /\ D = [s \in Shard |-> D[s]]
           /\ \A s \in Shard : D[s] \in Seq(Seq(S)) /\ Len(D[s]) = q
           /\ \A s \in Shard : \A m \in 1..q :
                  /\ Len(D[s][m]) = b
                  /\ \A k \in 1..b : D[s][m][k] = chunk[PlaceInChunk(b, q, s, m, k)]
<1> DEFINE n == Shards
           w == b * q
           Begin(s, m) == (s - 1) * w + (m - 1) * b
<1>1. n \in Nat \ {0} /\ Shard = 1..n
  BY PolicyConstants DEF Shard
<1>2. w \in Nat \ {0} /\ w \div b = q
  <2>1. w \in Nat /\ 0 \in 0..(b - 1) /\ b * q + 0 = w
    OBVIOUS
  <2>2. (b * q + 0) \div b = q
    BY <2>1, Quotient
  <2>3. w # 0
    BY <2>1, <2>2
  <2> QED BY <2>1, <2>2, <2>3
<1>3. Len(chunk) = n * w /\ Len(chunk) = w * n
  <2> HIDE DEF w
  <2>1. Len(chunk) = w * n
    BY DEF w
  <2> QED BY <1>1, <1>2, <2>1
<1> HIDE DEF w
<1>4. Len(chunk) \div Shards = w
  <2>1. 0 \in 0..(n - 1) /\ n * w + 0 = Len(chunk)
    BY <1>1, <1>2, <1>3
  <2>2. (n * w + 0) \div n = w
    BY <1>1, <1>2, <2>1, Quotient
  <2> QED BY <2>1, <2>2
<1>5. D = [s \in Shard |-> [m \in 1..q |->
              SubSeq(chunk, Begin(s, m) + 1, Begin(s, m) + b)]]
  <2> DEFINE size == Len(chunk) \div Shards
  <2>1. D = [s \in Shard |-> [m \in 1..(size \div MicroBatchRows) |->
                SubSeq(chunk, (s - 1) * size + (m - 1) * MicroBatchRows + 1,
                       (s - 1) * size + (m - 1) * MicroBatchRows + MicroBatchRows)]]
    BY Zenon DEF FixedCut
  <2>2. size = w
    BY <1>4
  <2> HIDE DEF size
  <2> QED BY <1>2, <2>1, <2>2
<1>6. ASSUME NEW s \in Shard, NEW m \in 1..q
      PROVE  /\ D[s][m] \in Seq(S) /\ Len(D[s][m]) = b
             /\ \A k \in 1..b : D[s][m][k] = chunk[PlaceInChunk(b, q, s, m, k)]
  <2> DEFINE x == (s - 1) * w
             y == (m - 1) * b
             z == x + y
  <2>1. x \in Nat /\ y \in Nat
    BY <1>1, <1>2
  <2>2. y + b <= w
    <3>1. y + b = m * b /\ m * b <= q * b /\ q * b = w
      <4>1. y + b = m * b /\ q * b = w
        BY DEF w
      <4>2. m * b <= q * b
        BY Order
      <4> QED BY <4>1, <4>2
    <3> DEFINE qb == q * b
               mb == m * b
    <3>2. mb \in Nat /\ qb \in Nat
      OBVIOUS
    <3> HIDE DEF qb, mb, y
    <3> QED BY <1>2, <2>1, <3>1, <3>2 DEF qb, mb
  <2>3. x + w <= Len(chunk)
    <3>1. x + w = s * w /\ n * w = Len(chunk)
      BY <1>1, <1>2, <1>3
    <3>2. s * w <= n * w
      <4>1. s \in Nat /\ n \in Nat /\ s <= n /\ w \in Nat
        BY <1>1, <1>2
      <4> QED BY <4>1, Order
    <3> DEFINE sw == s * w
               nw == n * w
    <3>3. sw \in Nat /\ nw \in Nat
      BY <1>1, <1>2
    <3> HIDE DEF sw, nw, x
    <3> QED BY <2>1, <1>2, <3>1, <3>2, <3>3 DEF sw, nw
  <2>4. D[s][m] = SubSeq(chunk, z + 1, z + b)
    BY <1>5
  <2>p. \A k \in 1..b : PlaceInChunk(b, q, s, m, k) = k + y + x
    BY DEF PlaceInChunk, Turn, w
  <2> HIDE DEF x, y
  <2>5. /\ z + 1 \in Nat /\ z + b \in Nat /\ 1 <= z + 1 /\ z + 1 <= z + b /\ z + b <= Len(chunk)
        /\ z + b - (z + 1) + 1 = b
    <3>1. Len(chunk) \in Nat
      BY DEF Lists
    <3> QED BY <1>2, <2>1, <2>2, <2>3, <3>1
  <2>6. chunk \in Seq(S)
    BY DEF Lists
  <2>z. z \in Nat
    BY <2>1
  <2> HIDE DEF z
  <2> DEFINE from == z + 1
             to == z + b
  <2>7. /\ from \in Nat /\ to \in Nat /\ 1 <= from /\ from <= to /\ to <= Len(chunk)
        /\ to - from + 1 = b /\ \A k \in 1..b : from + k - 1 = z + k
    BY <2>5, <2>z
  <2>8. D[s][m] = SubSeq(chunk, from, to)
    BY <2>4
  <2> HIDE DEF from, to
  <2>9. /\ SubSeq(chunk, from, to) \in Seq(S) /\ Len(SubSeq(chunk, from, to)) = to - from + 1
        /\ \A k \in 1..(to - from + 1) : SubSeq(chunk, from, to)[k] = chunk[from + k - 1]
    BY <2>6, <2>7, Stretch
  <2>10. \A k \in 1..b : PlaceInChunk(b, q, s, m, k) = from + k - 1
    <3> SUFFICES ASSUME NEW k \in 1..b PROVE PlaceInChunk(b, q, s, m, k) = from + k - 1
      OBVIOUS
    <3>1. PlaceInChunk(b, q, s, m, k) = k + y + x /\ from + k - 1 = z + k
      BY <2>7, <2>p
    <3>2. PlaceInChunk(b, q, s, m, k) = z + k
      BY <2>1, <3>1 DEF z
    <3> QED BY <3>1, <3>2
  <2> QED BY <2>7, <2>8, <2>9, <2>10
<1>7. ASSUME NEW s \in Shard PROVE D[s] \in Seq(Seq(S)) /\ Len(D[s]) = q
  <2>1. D[s] = [m \in 1..q |-> SubSeq(chunk, Begin(s, m) + 1, Begin(s, m) + b)]
    BY <1>5
  <2> HIDE DEF Begin
  <2>2. D[s] = [m \in 1..q |-> D[s][m]]
    BY <2>1
  <2>3. D[s] \in [1..q -> Seq(S)]
    BY <1>6, <2>2
  <2> QED BY <2>3, FunctionIsSeq
<1>8. D = [s \in Shard |-> D[s]]
  BY <1>5
<1> QED BY <1>6, <1>7, <1>8

\* Microbatches of a fixed size have each row once, and end to end they are the chunk.
LEMMA FixedCutCuts ==
    ASSUME NEW S, NEW chunk, Lists(chunk, S), NEW b, b = MicroBatchRows, b \in Nat \ {0},
           NEW q \in Nat \ {0}, Len(chunk) = b * q * Shards
    PROVE  /\ Cuts(FixedCut(chunk), S)
           /\ \A s \in Shard : \A m \in 1..Len(FixedCut(chunk)[s]) :
                  /\ Len(FixedCut(chunk)[s][m]) = b
                  /\ \A k \in 1..b :
                         /\ FixedCut(chunk)[s][m][k] = chunk[PlaceInChunk(b, q, s, m, k)]
                         /\ PlaceInChunk(b, q, s, m, k) \in 1..Len(chunk)
           /\ FlattenSeq([s \in Shard |-> FlattenSeq(FixedCut(chunk)[s])]) = chunk
<1> DEFINE n == Shards
           w == b * q
           D == FixedCut(chunk)
           Place(s, m, k) == PlaceInChunk(b, q, s, m, k)
<1>1. n \in Nat \ {0} /\ Shard = 1..n
  BY PolicyConstants DEF Shard
<1>2. /\ D = [s \in Shard |-> D[s]]
      /\ \A s \in Shard : D[s] \in Seq(Seq(S)) /\ Len(D[s]) = q
      /\ \A s \in Shard : \A m \in 1..q :
             Len(D[s][m]) = b /\ \A k \in 1..b : D[s][m][k] = chunk[Place(s, m, k)]
  <2>1. D = FixedCut(chunk)
    OBVIOUS
  <2> HIDE DEF D
  <2> QED BY <2>1, FixedPlaces
<1>3. w \in Nat \ {0} /\ Len(chunk) = w * n
  <2>1. w \in Nat
    OBVIOUS
  <2>2. 0 \in 0..(b - 1) /\ b * q + 0 = w
    OBVIOUS
  <2>3. (b * q + 0) \div b = q
    BY <2>2, Quotient
  <2>4. w # 0
    BY <2>2, <2>3
  <2> QED BY <2>1, <2>4
<1>4. TakeTurns(w, n, Len(chunk)) /\ TakeTurns(b, q, w)
  <2>1. w = b * q
    OBVIOUS
  <2> HIDE DEF w
  <2> QED BY <1>1, <1>3, <2>1, Turns
<1>p. \A s, m, k : Place(s, m, k) = Turn(w, Turn(b, k, m), s)
  BY DEF PlaceInChunk
<1> HIDE DEF w, D, n, Place
<1>5. \A m \in 1..q : \A k \in 1..b : Turn(b, k, m) \in 1..w
  BY <1>4 DEF TakeTurns
<1>6. ASSUME NEW s \in Shard, NEW m \in 1..q, NEW k \in 1..b
      PROVE  Place(s, m, k) \in 1..Len(chunk) /\ D[s][m][k] = chunk[Place(s, m, k)]
  <2>1. Turn(w, Turn(b, k, m), s) \in 1..Len(chunk)
    BY <1>1, <1>4, <1>5 DEF TakeTurns
  <2> QED BY <1>2, <1>p, <2>1
<1>7. ASSUME NEW s \in Shard, NEW t \in Shard, NEW m \in 1..Len(D[s]), NEW l \in 1..Len(D[t]),
             NEW k \in 1..Len(D[s][m]), NEW j \in 1..Len(D[t][l]), D[s][m][k] = D[t][l][j]
      PROVE  s = t /\ m = l /\ k = j
  <2>0. s \in 1..n /\ t \in 1..n /\ m \in 1..q /\ l \in 1..q /\ k \in 1..b /\ j \in 1..b
    BY <1>1, <1>2
  <2>1. chunk[Place(s, m, k)] = chunk[Place(t, l, j)]
    BY <1>6, <1>7, <2>0
  <2>2. Place(s, m, k) = Place(t, l, j)
    BY <1>6, <2>0, <2>1, ZenonT(30) DEF Lists
  <2>3. Turn(w, Turn(b, k, m), s) = Turn(w, Turn(b, j, l), t)
    BY <1>p, <2>2
  <2>4. Turn(b, k, m) = Turn(b, j, l) /\ s = t
    <3> DEFINE x == Turn(b, k, m)
               y == Turn(b, j, l)
    <3>1. x \in 1..w /\ y \in 1..w /\ Turn(w, x, s) = Turn(w, y, t)
      BY <1>5, <2>0, <2>3
    <3> HIDE DEF x, y
    <3>2. x = y /\ s = t
      BY <1>4, <2>0, <3>1 DEF TakeTurns
    <3> QED BY <3>2 DEF x, y
  <2>5. k = j /\ m = l
    BY <1>4, <2>0, <2>4 DEF TakeTurns
  <2> QED BY <2>4, <2>5
<1>8. ASSUME NEW p \in 1..Len(chunk)
      PROVE  \E s \in Shard : \E m \in 1..q : \E k \in 1..b : Place(s, m, k) = p
  <2>1. PICK x \in 1..w, s \in 1..n : Turn(w, x, s) = p
    BY <1>4 DEF TakeTurns
  <2>2. PICK k \in 1..b, m \in 1..q : Turn(b, k, m) = x
    BY <1>4 DEF TakeTurns
  <2> QED BY <1>1, <1>p, <2>1, <2>2
<1>9. ASSUME NEW i \in S
      PROVE  \E s \in Shard : \E m \in 1..Len(D[s]) : \E k \in 1..Len(D[s][m]) : D[s][m][k] = i
  <2>1. PICK p \in 1..Len(chunk) : chunk[p] = i
    BY DEF Lists
  <2>2. PICK s \in Shard, m \in 1..q, k \in 1..b : Place(s, m, k) = p
    BY <1>8
  <2>3. m \in 1..Len(D[s]) /\ k \in 1..Len(D[s][m]) /\ D[s][m][k] = i
    BY <1>2, <1>6, <2>1, <2>2
  <2> QED BY <2>3
<1>10. Cuts(D, S)
  <2>1. D \in [Shard -> Seq(Seq(S))]
    BY <1>2
  <2>2. 1 \in Shard
    BY <1>1
  <2>3. \A s \in Shard : Len(D[s]) = Len(D[1])
    BY <1>2, <2>2
  <2>4. \A s \in Shard : \A m \in 1..Len(D[s]) : Len(D[s][m]) > 0
    BY <1>2
  <2> QED BY <1>7, <1>9, <2>1, <2>3, <2>4 DEF Cuts
\* End to end.
<1> DEFINE parts == [s \in Shard |-> FlattenSeq(D[s])]
           all == FlattenSeq(parts)
<1>11. ASSUME NEW s \in Shard PROVE EvenlyLaid(parts[s], D[s], b, q, S)
  <2>1. D[s] \in [1..q -> Seq(S)] /\ \A m \in 1..q : Len(D[s][m]) = b
    BY <1>2
  <2>2. EvenlyLaid(FlattenSeq(D[s]), D[s], b, q, S)
    BY <2>1, FlattenEven
  <2> QED BY <2>2
<1>12. parts \in [1..n -> Seq(S)] /\ \A s \in 1..n : Len(parts[s]) = w
  <2>1. \A s \in Shard : FlattenSeq(D[s]) \in Seq(S) /\ Len(FlattenSeq(D[s])) = w
    BY <1>11 DEF EvenlyLaid, w
  <2> QED BY <1>1, <2>1
<1> HIDE DEF parts
<1>13. EvenlyLaid(all, parts, w, n, S)
  <2>1. n \in Nat /\ w \in Nat
    BY <1>1, <1>3
  <2> QED BY <1>12, <2>1, FlattenEven
<1>a. all = FlattenSeq([s \in Shard |-> FlattenSeq(D[s])])
  BY DEF parts
<1> HIDE DEF all
<1>14. ASSUME NEW p \in 1..Len(chunk) PROVE all[p] = chunk[p]
  <2>1. PICK s \in Shard, m \in 1..q, k \in 1..b : Place(s, m, k) = p
    BY <1>8
  <2>2. Turn(w, Turn(b, k, m), s) = p /\ Turn(b, k, m) \in 1..w
    BY <1>5, <1>p, <2>1
  <2>3. all[p] = parts[s][Turn(b, k, m)]
    BY <1>1, <1>13, <2>2 DEF EvenlyLaid
  <2>4. parts[s][Turn(b, k, m)] = D[s][m][k]
    BY <1>11 DEF EvenlyLaid
  <2> QED BY <1>6, <2>1, <2>3, <2>4
<1>15. all = chunk
  <2>1. all \in Seq(S) /\ Len(all) = Len(chunk) /\ chunk \in Seq(S)
    BY <1>3, <1>13 DEF EvenlyLaid, Lists
  <2> QED BY <1>14, <2>1
<1>16. \A s \in Shard : \A m \in 1..Len(D[s]) :
           /\ Len(D[s][m]) = b
           /\ \A k \in 1..b : /\ D[s][m][k] = chunk[PlaceInChunk(b, q, s, m, k)]
                              /\ PlaceInChunk(b, q, s, m, k) \in 1..Len(chunk)
  BY <1>2, <1>6 DEF Place
<1> QED BY <1>10, <1>15, <1>16, <1>a DEF D

\* A bin weighs the same under other names for its rows.
LEMMA LoadRenamed ==
    ASSUME NEW lens, NEW bin, NEW others, NEW other, NEW n \in Nat, DOMAIN bin = 1..n,
           DOMAIN other = 1..n, \A k \in 1..n : lens[bin[k]] = others[other[k]]
    PROVE  Load(lens, bin) = Load(others, other)
<1> DEFINE total == Load(lens, bin)
           sum == Load(others, other)
<1>n. n \in Nat /\ DOMAIN bin = 1..n /\ DOMAIN other = 1..n
  OBVIOUS
<1>t. total = Load(lens, bin) /\ sum = Load(others, other)
  OBVIOUS
<1> HIDE DEF total, sum
<1>1. PICK h : /\ h[0] = 0
               /\ \A k \in 0..(n - 1) : h[k + 1] = h[k] + lens[bin[k + 1]]
               /\ total = h[n]
  <2>1. PICK h : RowByRow(lens, bin, n, h)
    BY ONLY <1>n, LoadUnfolds
  <2> QED BY ONLY <1>t, <2>1 DEF RowByRow
<1>2. PICK g : /\ g[0] = 0
               /\ \A k \in 0..(n - 1) : g[k + 1] = g[k] + others[other[k + 1]]
               /\ sum = g[n]
  <2>1. PICK g : RowByRow(others, other, n, g)
    BY ONLY <1>n, LoadUnfolds
  <2> QED BY ONLY <1>t, <2>1 DEF RowByRow
<1> DEFINE Same == {k \in 0..n : h[k] = g[k]}
<1>3. 0 \in Same
  BY <1>1, <1>2
<1>4. \A k \in 0..(n - 1) : k \in Same => k + 1 \in Same
  <2> SUFFICES ASSUME NEW k \in 0..(n - 1), k \in Same PROVE k + 1 \in Same
    OBVIOUS
  <2>1. k + 1 \in 1..n /\ k + 1 \in 0..n
    OBVIOUS
  <2>2. lens[bin[k + 1]] = others[other[k + 1]]
    BY <2>1
  <2> QED BY <1>1, <1>2, <2>1, <2>2
<1> HIDE DEF Same
<1>5. 0..n \subseteq Same
  BY ONLY <1>n, <1>3, <1>4, UpTo
<1>6. n \in Same
  BY <1>5
<1> QED BY <1>1, <1>2, <1>6, <1>t DEF Same

\* An order of the rows of a chunk, whether they are shuffled or not.
LEMMA OrdersList ==
    ASSUME NEW size \in Nat, NEW order \in Orders(size), NEW g \in 1..NumChunks(size)
    PROVE  policy.batching = "first_fit_shuffle" => Lists(order[g], 1..size)
<1> SUFFICES ASSUME policy.batching = "first_fit_shuffle" PROVE Lists(order[g], 1..size)
  OBVIOUS
<1> DEFINE I == 1..size
           f == order[g]
<1>1. order \in [1..NumChunks(size) -> SetToSeqs(1..size)]
  BY DEF Orders
<1>2. IsFiniteSet(I) /\ Cardinality(I) = size
  <2>1. 0 \in Int /\ 1 \in Int /\ size \in Int /\ size - 1 + 1 = size /\ (1 > size => size = 0)
    OBVIOUS
  <2> QED BY <2>1, FS_Interval
<1>3. f \in SetToSeqs(I)
  BY <1>1
<1>4. f \in [1..Cardinality(I) -> I] /\ \A i, j \in 1..Cardinality(I) : i # j => f[i] # f[j]
  BY <1>3 DEF SetToSeqs
<1>5. f \in [I -> I] /\ \A i, j \in I : f[i] = f[j] => i = j
  BY <1>2, <1>4
<1> HIDE DEF f
<1>6. f \in Injection(I, I)
  <2> HIDE DEF I
  <2> QED BY <1>5 DEF Injection, IsInjective
<1>7. f \in Surjection(I, I)
  <2> HIDE DEF I
  <2> QED BY <1>2, <1>6, FS_Injection
<1>8. \A i \in I : \E k \in I : f[k] = i
  <2> HIDE DEF I
  <2> QED BY <1>7 DEF Surjection
<1>9. f \in Seq(I) /\ Len(f) = size
  <2>1. f \in [1..size -> I]
    BY <1>5
  <2> HIDE DEF I
  <2> QED BY <2>1, FunctionIsSeq
<1>10. Lists(f, I)
  BY <1>5, <1>8, <1>9 DEF Lists
<1> QED BY <1>10 DEF f

\* The rows of a chunk.
LEMMA ChunkLists ==
    ASSUME NEW size \in Nat, NEW g \in Nat \ {0}, NEW last, last = (g - 1) * size
    PROVE  /\ Lists(Chunk(g, size), (last + 1)..(last + size)) /\ Len(Chunk(g, size)) = size
           /\ last \in Nat /\ \A k \in 1..size : Chunk(g, size)[k] = last + k
<1> DEFINE c == Chunk(g, size)
           S == (last + 1)..(last + size)
<1>1. last \in Nat
  OBVIOUS
<1>2. c = [k \in 1..size |-> last + k]
  BY DEF Chunk
<1> HIDE DEF c
<1>3. \A k \in 1..size : last + k \in S
  BY <1>1
<1>4. \A i \in S : i - last \in 1..size /\ last + (i - last) = i
  BY <1>1
<1>5. \A k, l \in 1..size : last + k = last + l => k = l
  BY <1>1
<1> HIDE DEF S
<1>6. c \in [1..size -> S]
  BY <1>2, <1>3
<1>7. c \in Seq(S) /\ Len(c) = size
  BY <1>6, FunctionIsSeq
<1>8. Lists(c, S)
  <2>1. \A k, l \in 1..Len(c) : c[k] = c[l] => k = l
    BY <1>2, <1>5, <1>7
  <2>2. \A i \in S : \E k \in 1..Len(c) : c[k] = i
    BY <1>2, <1>4, <1>7
  <2> QED BY <1>7, <2>1, <2>2 DEF Lists
<1> QED BY <1>1, <1>2, <1>7, <1>8 DEF c, S

\* The lengths of all rows, as the packers see them.
PaddedRows == PaddedLengths([i \in Row |-> i])

\* No microbatch is too large.
Affordable(cut, tokens) ==
    /\ policy.batching = "dynamic" => Rectangular(cut, tokens)
    /\ policy.batching \in Packers =>
           \A s \in Shard : \A m \in 1..Len(cut[s]) : Load(PaddedRows, cut[s][m]) <= tokens

\* Rows that a call can be about.
Callable(n) ==
    /\ n \in Nat /\ lengths \in Seq(1..n) /\ Len(lengths) > 0
    /\ policy \in Configurations(algorithm)

\* The constants.
LEMMA PolicyNumbers ==
    ASSUME NEW n, Callable(n)
    PROVE  /\ Shards \in Nat \ {0} /\ MicroBatchRows \in Nat \ {0} /\ RoundMultiple \in Nat \ {0}
           /\ PadMultiple \in Nat \ {0}
           /\ policy.batching \in Packers \cup {"fixed", "dynamic"}
<1> USE PolicyConstants
<1>1. Shards \in Nat \ {0} /\ RoundMultiple \in Nat \ {0} /\ MicroBatchSize \in Nat \ {0}
      /\ TensorSize \in Nat \ {0} /\ ContextSizes \subseteq Nat \ {0}
  BY DEF PolicyConstants
<1>2. MicroBatchRows \in Nat \ {0}
  BY <1>1 DEF MicroBatchRows, RowsPerMicroBatch
<1>3. policy.context \in ContextSizes /\ policy.batching \in Batching
  BY DEF Callable, Configurations
<1>4. policy.context \in Nat \ {0}
  BY <1>1, <1>3
<1>5. PadMultiple \in Nat \ {0}
  <2> DEFINE c == policy.context
             t == TensorSize
  <2>1. c \in Nat \ {0} /\ t \in Nat \ {0} /\ PadMultiple = IF c > 1 THEN c * 2 * t ELSE t
    BY <1>1, <1>4 DEF PadMultiple
  <2> HIDE DEF c, t
  <2>2. c * 2 \in Nat \ {0}
    BY <2>1
  <2>3. c * 2 * t \in Nat \ {0}
    <3> DEFINE d == c * 2
    <3>1. d \in Nat \ {0}
      BY <2>2
    <3> HIDE DEF d
    <3>2. d * t \in Nat \ {0}
      BY <3>1, <2>1
    <3> QED BY <3>2 DEF d
  <2> QED BY <2>1, <2>3
<1>6. policy.batching \in Packers \cup {"fixed", "dynamic"}
  BY <1>3 DEF PolicyConstants
<1> QED BY <1>1, <1>2, <1>5, <1>6

\* The chunks of a call are made of its rows.
LEMMA ChunkOfRows ==
    ASSUME NEW size \in Nat \ {0}, NEW g \in 1..NumChunks(size), Len(lengths) \in Nat,
           NEW last, last = (g - 1) * size
    PROVE  g \in Nat \ {0} /\ last \in Nat /\ last + size <= Len(lengths)
<1> DEFINE total == Len(lengths)
           n == total \div size
<1>0. total \in Nat
  OBVIOUS
<1>1. n \in Nat /\ total % size \in 0..(size - 1) /\ total = size * n + (total % size)
  BY <1>0, Division
<1>2. g \in 1..n
  BY DEF NumChunks
<1> HIDE DEF n
<1>3. g \in Nat \ {0} /\ g <= n
  BY <1>1, <1>2
<1>4. g * size <= n * size
  BY <1>1, <1>3, Order
<1> DEFINE x == g * size
           y == n * size
<1>5. x \in Nat /\ y \in Nat /\ last = x - size
  BY <1>1, <1>3
<1>6. y = size * n
  BY <1>1
<1>7. last \in Nat
  BY <1>3
<1>8. last + size = x
  <2> HIDE DEF x
  <2> QED BY <1>5
<1>9. x <= total
  <2> HIDE DEF total, x
  <2> DEFINE z == size * n
  <2>1. z = y /\ z \in Nat
    BY <1>5, <1>6
  <2> HIDE DEF y, z
  <2>2. total = z + (total % size)
    BY <1>1 DEF z
  <2>3. total % size \in Nat
    BY <1>1
  <2> QED BY <2>1, <2>2, <2>3, <1>5, <1>4, <1>0 DEF x, y
<1> QED BY <1>3, <1>7, <1>8, <1>9

\* Rows firstRow + 1 to firstRow + size are those of a chunk.
ChunkAt(g, size, last) ==
    /\ size \in Nat \ {0} /\ g \in 1..NumChunks(size) /\ last = (g - 1) * size

\* A chunk is a part of the rows.
Rows(last, size) == (last + 1)..(last + size)

\* What is true of the rows of a chunk.
LEMMA OfChunk ==
    ASSUME NEW n, Callable(n), NEW g, NEW size, NEW last, ChunkAt(g, size, last)
    PROVE  /\ Lists(Chunk(g, size), Rows(last, size)) /\ Len(Chunk(g, size)) = size
           /\ \A k \in 1..size : Chunk(g, size)[k] = last + k
           /\ last \in Nat /\ Rows(last, size) \subseteq Row
           /\ \A i \in Row : lengths[i] \in 1..n
<1>1. lengths \in Seq(1..n) /\ Len(lengths) \in Nat /\ Row = 1..Len(lengths)
  BY DEF Callable, Row
<1>2. size \in Nat \ {0} /\ g \in 1..NumChunks(size) /\ last = (g - 1) * size
  BY DEF ChunkAt
<1>3. g \in Nat \ {0} /\ last \in Nat /\ last + size <= Len(lengths)
  BY <1>1, <1>2, ChunkOfRows
<1>4. /\ Lists(Chunk(g, size), Rows(last, size)) /\ Len(Chunk(g, size)) = size
      /\ \A k \in 1..size : Chunk(g, size)[k] = last + k
  <2> DEFINE c == Chunk(g, size)
             R == (last + 1)..(last + size)
  <2>0. g \in Nat \ {0} /\ size \in Nat /\ last = (g - 1) * size
    BY <1>2, <1>3
  <2>1. Lists(c, R) /\ Len(c) = size /\ \A k \in 1..size : c[k] = last + k
    BY ONLY <2>0, ChunkLists, Zenon
  <2>2. Rows(last, size) = R
    BY DEF Rows
  <2> HIDE DEF c, R
  <2>3. Lists(c, Rows(last, size))
    BY <2>1, <2>2
  <2> QED BY <2>1, <2>3 DEF c
<1>5. Rows(last, size) \subseteq Row
  <2> DEFINE total == Len(lengths)
  <2>1. total \in Nat /\ last + size <= total
    BY <1>1, <1>3
  <2> HIDE DEF total
  <2>2. \A i \in Rows(last, size) : i \in 1..total
    BY <1>2, <1>3, <2>1 DEF Rows
  <2> QED BY <1>1, <2>2 DEF total
<1>6. \A i \in Row : lengths[i] \in 1..n
  <2> DEFINE V == 1..n
  <2>1. lengths \in Seq(V) /\ Row = 1..Len(lengths)
    BY <1>1
  <2> HIDE DEF V
  <2>2. \A i \in Row : lengths[i] \in V
    BY <2>1
  <2> QED BY <2>2 DEF V
<1> QED BY <1>3, <1>4, <1>5, <1>6

\* Microbatches of a fixed size.
LEMMA FixedCall ==
    ASSUME NEW n, Callable(n), NEW g, NEW size, NEW last, ChunkAt(g, size, last),
           policy.batching = "fixed", NEW tokens, NEW order, ~Refused(size, tokens, order)
    PROVE  /\ Cuts(FixedCut(Chunk(g, size)), Rows(last, size))
           /\ \E q \in Nat \ {0} : size = MicroBatchRows * q * Shards
<1> DEFINE b == MicroBatchRows
           x == size \div Shards
           q == x \div b
<1>1. Shards \in Nat \ {0} /\ b \in Nat \ {0}
  BY PolicyNumbers
<1>2. size \in Nat \ {0}
  BY DEF ChunkAt
<1>3. size % Shards = 0 /\ x % b = 0
  BY DEF Refused
<1> HIDE DEF b
<1>4. x \in Nat /\ size = Shards * x
  BY <1>1, <1>2, <1>3, Division
<1> HIDE DEF x
<1>5. q \in Nat /\ x = b * q
  BY <1>1, <1>3, <1>4, Division
<1> HIDE DEF q
<1>6. size = b * q * Shards
  <2> DEFINE y == b * q
  <2>1. y \in Nat /\ size = Shards * y
    BY <1>1, <1>4, <1>5
  <2> HIDE DEF y
  <2>2. size = y * Shards
    BY <1>1, <2>1
  <2> QED BY <2>2 DEF y
<1>7. q # 0
  <2> SUFFICES ASSUME q = 0 PROVE FALSE
    OBVIOUS
  <2>1. b * q = 0
    BY <1>1
  <2>2. size = 0
    BY <1>1, <1>4, <1>5, <2>1
  <2> QED BY <1>2, <2>2
<1>8. Lists(Chunk(g, size), Rows(last, size)) /\ Len(Chunk(g, size)) = size
  BY OfChunk
<1>9. Cuts(FixedCut(Chunk(g, size)), Rows(last, size))
  <2>1. Len(Chunk(g, size)) = b * q * Shards
    BY <1>6, <1>8
  <2>2. b = MicroBatchRows
    BY DEF b
  <2> QED BY <1>1, <1>5, <1>7, <1>8, <2>1, <2>2, FixedCutCuts
<1>10. q \in Nat \ {0} /\ size = MicroBatchRows * q * Shards
  BY <1>5, <1>6, <1>7 DEF b
<1> QED BY <1>9, <1>10

\* Dynamic microbatches.
LEMMA DynamicCall ==
    ASSUME NEW n, Callable(n), NEW g, NEW size, NEW last, ChunkAt(g, size, last),
           policy.batching = "dynamic", NEW tokens \in Nat, NEW order,
           ~Refused(size, tokens, order)
    PROVE  /\ Cuts(DynamicCut(Chunk(g, size), tokens), Rows(last, size))
           /\ Rectangular(DynamicCut(Chunk(g, size), tokens), tokens)
<1> DEFINE x == size \div Shards
           R == Rows(last, size)
           c == Chunk(g, size)
<1>1. Shards \in Nat \ {0}
  BY PolicyNumbers
<1>2. size \in Nat \ {0}
  BY DEF ChunkAt
<1>3. size % Shards = 0 /\ ~(Width > tokens)
  BY DEF Refused
<1>4. x \in Nat /\ size = Shards * x
  BY <1>1, <1>2, <1>3, Division
<1> HIDE DEF x
<1>5. /\ Lists(c, R) /\ Len(c) = size
      /\ last \in Nat /\ R \subseteq Row
  BY OfChunk
<1>6. n \in Nat /\ lengths \in Seq(1..n) /\ Len(lengths) > 0
  BY DEF Callable
<1>7. Width \in 1..n /\ \A i \in Row : lengths[i] \in 1..Width
  BY <1>6, WidthBounds
<1>8. R \in SUBSET Nat
  BY <1>2, <1>5 DEF Rows
<1> HIDE DEF R, c
<1>9. IsFiniteSet(R) /\ Cardinality(R) = Shards * x
  BY <1>4, <1>5, ListLength
<1>10. ToSet(c) = R
  BY <1>5 DEF Lists, ToSet
<1>11. Width \in Nat /\ Width <= tokens /\ \A i \in R : lengths[i] \in 1..Width
  <2>1. Width \in Nat /\ Width <= tokens
    BY <1>3, <1>6, <1>7
  <2>2. \A i \in R : lengths[i] \in 1..Width
    BY <1>5, <1>7
  <2> QED BY <2>1, <2>2
<1>12. Cuts(DynamicCut(c, tokens), R) /\ Rectangular(DynamicCut(c, tokens), tokens)
  BY <1>4, <1>8, <1>9, <1>10, <1>11, DynamicCutCuts
<1> QED BY <1>12 DEF R, c

-----------------------------------------------------------------------------
(* A call. *)

\* What the packers get fits.
LEMMA PaddedFit ==
    ASSUME NEW n, Callable(n), NEW g, NEW size, NEW last, ChunkAt(g, size, last),
           policy.batching \in Packers, NEW tokens \in Nat, NEW order,
           ~Refused(size, tokens, order), NEW padded, padded = PaddedLengths(Chunk(g, size))
    PROVE  /\ DOMAIN padded = 1..size /\ Len(padded) = size /\ Fit(tokens, padded, 1..size)
           /\ \A k \in 1..size : padded[k] = PaddedRows[Chunk(g, size)[k]]
<1> DEFINE c == Chunk(g, size)
<1>1. /\ \A k \in 1..size : c[k] = last + k
      /\ last \in Nat /\ Rows(last, size) \subseteq Row
      /\ \A i \in Row : lengths[i] \in 1..n
  BY OfChunk
<1>2. size \in Nat \ {0} /\ g \in 1..NumChunks(size) /\ n \in Nat
  BY DEF ChunkAt, Callable
<1>3. DOMAIN c = 1..size
  BY <1>2 DEF Chunk
<1>4. PadMultiple \in Nat \ {0}
  BY PolicyNumbers
<1>5. padded = [k \in 1..size |-> RoundUp(lengths[c[k]], PadMultiple)]
  BY <1>3 DEF PaddedLengths
<1>6. \A k \in 1..size : ~(PaddedLengths(c)[k] > tokens)
  BY <1>2, <1>3 DEF Refused
<1>7. PaddedRows = [i \in Row |-> RoundUp(lengths[i], PadMultiple)]
  <2> DEFINE all == [i \in Row |-> i]
  <2>1. DOMAIN all = Row /\ \A i \in Row : all[i] = i
    OBVIOUS
  <2>2. PaddedRows = [k \in DOMAIN all |-> RoundUp(lengths[all[k]], PadMultiple)]
    BY DEF PaddedRows, PaddedLengths
  <2> HIDE DEF all
  <2>3. PaddedRows = [k \in Row |-> RoundUp(lengths[all[k]], PadMultiple)]
    BY <2>1, <2>2
  <2> QED BY <2>1, <2>3, Zenon
<1>8. \A k \in 1..size : c[k] \in Row
  <2>1. \A k \in 1..size : last + k \in Rows(last, size)
    BY <1>1, <1>2 DEF Rows
  <2> QED BY <1>1, <2>1
<1> HIDE DEF c
<1>9. \A k \in 1..size : padded[k] = RoundUp(lengths[c[k]], PadMultiple)
  BY <1>5
<1>10. \A k \in 1..size : padded[k] \in Nat
  <2> SUFFICES ASSUME NEW k \in 1..size PROVE padded[k] \in Nat
    OBVIOUS
  <2>1. lengths[c[k]] \in 1..n
    BY <1>1, <1>8
  <2>2. lengths[c[k]] \in Nat
    BY <1>2, <2>1
  <2>3. RoundUp(lengths[c[k]], PadMultiple) \in Nat
    BY <1>4, <2>2, RoundedUp
  <2> QED BY <1>9, <2>3
<1>11. \A k \in 1..size : padded[k] <= tokens
  <2> SUFFICES ASSUME NEW k \in 1..size PROVE padded[k] <= tokens
    OBVIOUS
  <2>1. padded[k] \in Nat
    BY <1>10
  <2>2. ~(padded[k] > tokens)
    BY <1>6 DEF c
  <2> QED BY <2>1, <2>2
<1>12. Fit(tokens, padded, 1..size)
  BY <1>10, <1>11 DEF Fit
<1>13. \A k \in 1..size : padded[k] = PaddedRows[c[k]]
  BY <1>7, <1>8, <1>9
<1>14. DOMAIN padded = 1..size
  BY <1>5
<1>15. Len(padded) = size
  <2>1. padded \in [1..size -> Nat]
    BY <1>5, <1>9, <1>10
  <2> QED BY <2>1, <1>2, FunctionIsSeq
<1> QED BY <1>12, <1>13, <1>14, <1>15 DEF c

\* Every packer packs the chunk.
LEMMA BinsPack ==
    ASSUME NEW n, Callable(n), NEW g, NEW size, NEW last, ChunkAt(g, size, last),
           policy.batching \in Packers, NEW tokens \in Nat, NEW order, order \in Orders(size),
           ~Refused(size, tokens, order)
    PROVE  Packs(tokens, PaddedLengths(Chunk(g, size)), Bins(Chunk(g, size), order[g], tokens), 1..size)
<1> DEFINE c == Chunk(g, size)
           padded == PaddedLengths(c)
           bins == Bins(c, order[g], tokens)
<1>1. DOMAIN padded = 1..size /\ Len(padded) = size /\ Fit(tokens, padded, 1..size)
  BY PaddedFit
<1>2. size \in Nat /\ g \in 1..NumChunks(size)
  BY DEF ChunkAt
<1>3. policy.batching = "first_fit_shuffle" => Lists(order[g], 1..size)
  BY <1>2, OrdersList
<1>4. CASE policy.batching = "concatenative"
  <2>1. bins = Concatenative(tokens, padded)
    BY <1>4 DEF Bins
  <2> HIDE DEF c, padded, bins
  <2> QED BY <1>1, <1>2, <2>1, ConcatenativePacks DEF bins, padded, c
<1>5. CASE policy.batching = "first_fit_decreasing"
  <2>1. bins = FirstFitDecreasing(tokens, padded)
    BY <1>5 DEF Bins
  <2> HIDE DEF c, padded, bins
  <2> QED BY <1>1, <1>2, <2>1, FirstFitDecreasingPacks DEF bins, padded, c
<1>6. CASE policy.batching = "first_fit_shuffle"
  <2>1. bins = FirstFit(tokens, padded, order[g])
    BY <1>6 DEF Bins
  <2> HIDE DEF c, padded, bins
  <2> QED BY <1>1, <1>2, <1>3, <1>6, <2>1, FirstFitPacks DEF bins, padded, c
<1>7. CASE policy.batching = "modified_first_fit_decreasing"
  <2>1. bins = ModifiedFirstFitDecreasing(tokens, padded)
    BY <1>7 DEF Bins
  <2> HIDE DEF c, padded, bins
  <2> QED BY <1>1, <1>2, <2>1, ModifiedFirstFitDecreasingPacks DEF bins, padded, c
<1> QED BY <1>4, <1>5, <1>6, <1>7 DEF Packers

\* Packed microbatches.
PackedCut(chunk, order, tokens) == Deal(chunk, AdjustBinCount(Bins(chunk, order, tokens), Shards))

\* They have every row of the chunk once, and none exceeds the budget.
LEMMA PackedCall ==
    ASSUME NEW n, Callable(n), NEW g, NEW size, NEW last, ChunkAt(g, size, last),
           policy.batching \in Packers, NEW tokens \in Nat, NEW order, order \in Orders(size),
           ~Refused(size, tokens, order), NEW cut, cut = PackedCut(Chunk(g, size), order[g], tokens)
    PROVE  /\ Cuts(cut, Rows(last, size))
           /\ \A s \in Shard : \A m \in 1..Len(cut[s]) : Load(PaddedRows, cut[s][m]) <= tokens
<1> DEFINE c == Chunk(g, size)
           padded == PaddedLengths(c)
           bins == Bins(c, order[g], tokens)
           all == AdjustBinCount(bins, Shards)
           R == Rows(last, size)
<1>1. Packs(tokens, padded, bins, 1..size)
  BY BinsPack
<1>2. size \in Nat \ {0} /\ g \in 1..NumChunks(size)
  BY DEF ChunkAt
<1>3. ~CannotAdjust(bins, Shards)
  BY <1>2 DEF Refused
<1>4. Shards \in Nat \ {0}
  BY PolicyNumbers
<1>5. cut = Deal(c, all)
  BY DEF PackedCut
<1>6. Lists(c, R) /\ Len(c) = size
  BY OfChunk
<1>7. \A k \in 1..size : padded[k] = PaddedRows[c[k]]
  BY PaddedFit
<1> HIDE DEF c, padded, bins, R
<1>8. Packs(tokens, padded, all, 1..size) /\ Len(all) = BinTarget(Len(bins), Shards)
  BY <1>1, <1>3, <1>4, AdjustedPacks
<1>9. Len(bins) \in Nat
  BY <1>1 DEF Packs, Holds
<1> HIDE DEF all
<1>10. PICK q \in Nat : Len(all) = Shards * q
  BY <1>4, <1>8, <1>9, TargetIs
<1>11. Holds(all, 1..size)
  BY <1>8 DEF Packs
<1>12. /\ Cuts(cut, R)
       /\ \A s \in Shard : \A m \in 1..Len(cut[s]) :
              \E b \in 1..Len(all) : cut[s][m] = RowsOfBin(c, all[b])
  BY <1>5, <1>6, <1>10, <1>11, DealCuts
<1>13. ASSUME NEW s \in Shard, NEW m \in 1..Len(cut[s])
       PROVE  Load(PaddedRows, cut[s][m]) <= tokens
  <2>1. PICK b \in 1..Len(all) : cut[s][m] = RowsOfBin(c, all[b])
    BY <1>12
  <2> DEFINE bin == all[b]
             part == cut[s][m]
           N == 1..size
  <2>2. bin \in Seq(N)
    <3>1. all \in Seq(Seq(N))
      BY <1>11 DEF Holds
    <3> HIDE DEF N
    <3> QED BY <3>1, BinsTyped
  <2>3. Load(padded, bin) <= tokens
    BY <1>8 DEF Packs
  <2>4. part = RowsOfBin(c, bin)
    BY <2>1
  <2> HIDE DEF bin, part
  <2>5. Len(bin) \in Nat /\ DOMAIN bin = 1..Len(bin) /\ \A k \in 1..Len(bin) : bin[k] \in 1..size
    <3>1. Len(bin) \in Nat /\ DOMAIN bin = 1..Len(bin) /\ \A k \in 1..Len(bin) : bin[k] \in N
      <4> HIDE DEF N
      <4> QED BY <2>2
    <3> QED BY <3>1
  <2>6. part = [k \in 1..Len(bin) |-> c[bin[k]]]
    BY <2>4, <2>5 DEF RowsOfBin
  <2>7. \A k \in 1..Len(bin) : PaddedRows[part[k]] = padded[bin[k]]
    BY <1>7, <2>5, <2>6
  <2>8. DOMAIN part = 1..Len(bin)
    BY <2>6
  <2>9. Load(PaddedRows, part) = Load(padded, bin)
    BY <2>5, <2>7, <2>8, LoadRenamed
  <2> QED BY <2>3, <2>9 DEF part
<1> QED BY <1>12, <1>13 DEF R

\* The microbatches of a call that is not refused: as many for each shard, none of them
\* empty or too large, and each row of the chunk in one of them.
THEOREM CallCuts ==
    ASSUME NEW n, Callable(n), NEW g, NEW size, NEW last, ChunkAt(g, size, last),
           NEW tokens \in Nat, NEW order, order \in Orders(size), ~Refused(size, tokens, order),
           NEW cut, cut = Cut(Chunk(g, size), order[g], tokens)
    PROVE  Cuts(cut, Rows(last, size)) /\ Affordable(cut, tokens)
<1>1. policy.batching \in Packers \cup {"fixed", "dynamic"}
  BY PolicyNumbers
<1>2. CASE policy.batching = "fixed"
  <2>1. cut = FixedCut(Chunk(g, size))
    BY <1>2 DEF Cut
  <2>2. Cuts(cut, Rows(last, size))
    BY <1>2, <2>1, FixedCall
  <2> QED BY <1>2, <2>2 DEF Affordable, Packers
<1>3. CASE policy.batching = "dynamic"
  <2>1. cut = DynamicCut(Chunk(g, size), tokens)
    BY <1>3 DEF Cut
  <2>2. Cuts(cut, Rows(last, size)) /\ Rectangular(cut, tokens)
    BY <1>3, <2>1, DynamicCall
  <2> QED BY <1>3, <2>2 DEF Affordable, Packers
<1>4. CASE policy.batching \in Packers
  <2>1. cut = PackedCut(Chunk(g, size), order[g], tokens)
    BY <1>4 DEF Cut, PackedCut, Packers
  <2>2. /\ Cuts(cut, Rows(last, size))
        /\ \A s \in Shard : \A m \in 1..Len(cut[s]) : Load(PaddedRows, cut[s][m]) <= tokens
    BY <1>4, <2>1, PackedCall
  <2> QED BY <1>4, <2>2 DEF Affordable, Packers
<1> QED BY <1>1, <1>2, <1>3, <1>4
=============================================================================
