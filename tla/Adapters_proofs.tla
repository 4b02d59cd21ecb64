--------------------------- MODULE Adapters_proofs ---------------------------
(***************************************************************************)
(* Proofs about the adapters.  The first part is about those that patch an *)
(* SDK (Adapters), for any tasks and adapters, any nesting of their blocks,*)
(* any calls and responses of any length; the second about the MCP adapter *)
(* (MCPGuard), for any tools, any number of tasks, pages and changes, and  *)
(* both destructive policies.                                              *)
(***************************************************************************)
EXTENDS Adapters, MCPGuard, FiniteSetTheorems, WellFoundedInduction, TLAPS

Event == [by : Adapters, event : {"tool", "model", "error"}]

Call ==
  [pc : {"idle", "called", "back"}, session : BOOLEAN, chain : Seq(Adapters),
   result : {"none", "response", "error", "cancelled"}, parts : Seq(Parts), made : Nat,
   due : Seq(Adapters), log : Seq(Event), raised : BOOLEAN,
   escaped : BOOLEAN]

TypeOK ==
  /\ sdk \in {"openai", "anthropic", "gemini", "litellm"}
  /\ method \in Seq(Adapters)
  /\ original \in [Adapters -> Seq(Adapters)]
  /\ patched \in [Adapters -> BOOLEAN]
  /\ blocks \in [Tasks -> Seq(Adapters)]
  /\ task \in [Tasks -> Call]

\* The inductive strengthening of StackKept.  While the history is tidy, every open block
\* is another adapter's, those adapters are the patched ones, each has kept the method that
\* the blocks opened before it make up, and a task's blocks are among the open ones.
Tidy ==
  /\ open \in Seq(Adapters)
  /\ method = Reverse(open)
  /\ \A i, j \in DOMAIN open : open[i] = open[j] => i = j
  /\ \A a \in Adapters : patched[a] <=> \E i \in DOMAIN open : open[i] = a
  /\ \A i \in DOMAIN open : original[open[i]] = Reverse(SubSeq(open, 1, i - 1))

BlocksOpen ==
  /\ \A t \in Tasks : \A i \in DOMAIN blocks[t] :
       \E j \in DOMAIN open : open[j] = blocks[t][i]
  /\ \A t, u \in Tasks : \A i \in DOMAIN blocks[t], j \in DOMAIN blocks[u] :
       blocks[t][i] = blocks[u][j] => t = u /\ i = j

Stacked == tidy \in BOOLEAN /\ (tidy => Tidy /\ BlocksOpen)

-----------------------------------------------------------------------------
\* Calls leave the patches alone.
LEMMA StackedUnchanged == Stacked /\ UNCHANGED patches => Stacked'
BY DEF Stacked, Tidy, BlocksOpen, patches

LEMMA InitStacked == Init => Stacked
<1> SUFFICES ASSUME Init
             PROVE  Tidy /\ BlocksOpen /\ tidy \in BOOLEAN
  BY DEF Stacked
<1>1. Reverse(open) = <<>>
  BY DEF Init, Reverse
<1>2. QED
  BY <1>1 DEF Init, Tidy, BlocksOpen

\* What a sequence is when an element is put at its end, and read backwards.
LEMMA ReverseAppend ==
  ASSUME NEW S, NEW s \in Seq(S), NEW x \in S
  PROVE  Reverse(Append(s, x)) = <<x>> \o Reverse(s)
<1>1. Reverse(s) \in Seq(S) /\ Len(Reverse(s)) = Len(s) /\ \A i \in 1 .. Len(s) : Reverse(s)[i] = s[(Len(s) - i) + 1]
  BY DEF Reverse
<1>2. Append(s, x) \in Seq(S) /\ Len(Append(s, x)) = Len(s) + 1
  OBVIOUS
<1> DEFINE R == <<x>> \o Reverse(s)
<1>3. R \in Seq(S) /\ Len(R) = Len(s) + 1
  BY <1>1
<1>4. Reverse(Append(s, x)) \in Seq(S) /\ Len(Reverse(Append(s, x))) = Len(s) + 1
  BY <1>2 DEF Reverse
<1>5. ASSUME NEW i \in 1 .. Len(s) + 1
      PROVE  Reverse(Append(s, x))[i] = R[i]
  <2>1. Reverse(Append(s, x))[i] = Append(s, x)[(Len(s) + 1 - i) + 1]
    BY <1>2 DEF Reverse
  <2>2. CASE i = 1
    BY <2>1, <2>2, <1>1
  <2>3. CASE i # 1
    <3>1. R[i] = Reverse(s)[i - 1]
      BY <2>3, <1>1
    <3>2. i - 1 \in 1 .. Len(s) /\ (Len(s) - (i - 1)) + 1 = (Len(s) + 1 - i) + 1
      BY <2>3
    <3>3. QED
      BY <2>1, <3>1, <3>2, <1>1
  <2>4. QED
    BY <2>2, <2>3
<1>6. QED
  <2> HIDE DEF R
  <2>1. R = Reverse(Append(s, x))
    BY <1>3, <1>4, <1>5, SMT
  <2>2. QED
    BY <2>1 DEF R

LEMMA PrefixOfAppend ==
  ASSUME NEW S, NEW s \in Seq(S), NEW x \in S, NEW k \in 0 .. Len(s)
  PROVE  SubSeq(Append(s, x), 1, k) = SubSeq(s, 1, k)
OBVIOUS

LEMMA EnterStacked ==
  ASSUME TypeOK, Stacked, NEW t \in Tasks, NEW a \in Adapters, Enter(t, a)
  PROVE  Stacked'
<1> SUFFICES ASSUME tidy'
             PROVE  Tidy' /\ BlocksOpen'
  BY DEF Stacked, Enter
<1>1. tidy /\ ~patched[a] /\ Tidy /\ BlocksOpen
  BY DEF Enter, Stacked
<1>2. /\ open' = Append(open, a) /\ open \in Seq(Adapters)
      /\ blocks' = [blocks EXCEPT ![t] = Append(@, a)]
      /\ original' = [original EXCEPT ![a] = method] /\ method' = <<a>> \o method
      /\ patched' = [patched EXCEPT ![a] = TRUE]
  BY <1>1 DEF Enter, Patch, Tidy
<1>3. \A i \in DOMAIN open : open[i] # a
  BY <1>1 DEF Tidy
<1>4. /\ open' \in Seq(Adapters) /\ DOMAIN open' = 1 .. Len(open) + 1
      /\ DOMAIN open = 1 .. Len(open) /\ Len(open) \in Nat
      /\ open'[Len(open) + 1] = a
      /\ \A i \in DOMAIN open : i \in DOMAIN open' /\ open'[i] = open[i]
  BY <1>2
<1>5. \A i \in DOMAIN open' : i \in DOMAIN open \/ i = Len(open) + 1
  BY <1>4
<1>6. method' = Reverse(open')
  BY <1>1, <1>2, ReverseAppend DEF Tidy
<1>7. \A i, j \in DOMAIN open' : open'[i] = open'[j] => i = j
  BY <1>1, <1>3, <1>4, <1>5 DEF Tidy
<1>8. \A b \in Adapters : patched'[b] <=> \E i \in DOMAIN open' : open'[i] = b
  <2>1. patched'[a] /\ \A b \in Adapters : b # a => (patched'[b] <=> patched[b])
    BY <1>2 DEF TypeOK
  <2>2. \A b \in Adapters : patched[b] <=> \E i \in DOMAIN open : open[i] = b
    BY <1>1 DEF Tidy
  <2>3. \E i \in DOMAIN open' : open'[i] = a
    BY <1>4
  <2>4. \A b \in Adapters : b # a =>
          ((\E i \in DOMAIN open : open[i] = b) <=> \E i \in DOMAIN open' : open'[i] = b)
    BY <1>4, <1>5
  <2>5. QED
    BY <2>1, <2>2, <2>3, <2>4, Zenon
<1>9. ASSUME NEW i \in DOMAIN open'
      PROVE  original'[open'[i]] = Reverse(SubSeq(open', 1, i - 1))
  <2>1. CASE i \in DOMAIN open
    <3>1. i - 1 \in 0 .. Len(open)
      BY <2>1, <1>4
    <3>2. SubSeq(open', 1, i - 1) = SubSeq(open, 1, i - 1)
      BY <3>1, <1>2, PrefixOfAppend
    <3>3. original'[open'[i]] = original[open[i]]
      BY <2>1, <1>2, <1>3, <1>4 DEF TypeOK
    <3>4. QED
      BY <2>1, <3>2, <3>3, <1>1 DEF Tidy
  <2>2. CASE i = Len(open) + 1
    <3>1. SubSeq(open', 1, i - 1) = open
      <4>1. i - 1 = Len(open) /\ Len(open) \in 0 .. Len(open)
        BY <2>2, <1>4
      <4>2. SubSeq(open', 1, i - 1) = SubSeq(open, 1, Len(open))
        BY <4>1, <1>2, PrefixOfAppend
      <4>3. QED
        BY <4>2, <1>2
    <3>2. original'[a] = Reverse(open)
      BY <1>1, <1>2 DEF Tidy, TypeOK
    <3>3. open'[i] = a
      BY <2>2, <1>4
    <3>4. QED
      BY <3>1, <3>2, <3>3
  <2>3. QED
    BY <2>1, <2>2, <1>5
<1>10. /\ blocks'[t] = Append(blocks[t], a) /\ blocks[t] \in Seq(Adapters)
       /\ \A u \in Tasks : u # t => blocks'[u] = blocks[u]
  BY <1>2 DEF TypeOK
<1>11. \A u \in Tasks : \A i \in DOMAIN blocks'[u] :
         \/ i \in DOMAIN blocks[u] /\ blocks'[u][i] = blocks[u][i]
         \/ u = t /\ i = Len(blocks[t]) + 1 /\ blocks'[u][i] = a
  BY <1>10
<1>12. \A u \in Tasks : \A i \in DOMAIN blocks[u] : blocks[u][i] # a
  BY <1>1, <1>3 DEF BlocksOpen
<1>13. \A u \in Tasks : \A i \in DOMAIN blocks'[u] : \E j \in DOMAIN open' : open'[j] = blocks'[u][i]
  BY <1>1, <1>4, <1>11 DEF BlocksOpen
<1>14. \A u, v \in Tasks : \A i \in DOMAIN blocks'[u], j \in DOMAIN blocks'[v] :
         blocks'[u][i] = blocks'[v][j] => u = v /\ i = j
  BY <1>1, <1>11, <1>12 DEF BlocksOpen
<1>15. QED
  BY <1>4, <1>6, <1>7, <1>8, <1>9, <1>13, <1>14 DEF Tidy, BlocksOpen

\* A tidy close takes the last block off, wherever the removed adapter is looked for.
LEMMA RemoveLast ==
  ASSUME NEW S, NEW s \in Seq(S), s # <<>>, NEW x, Last(s) = x
  PROVE  LET I == {i \in 1 .. Len(s) : s[i] = x}
         IN  RemoveAt(s, IF I # {} THEN Max(I) ELSE 0) = SubSeq(s, 1, Len(s) - 1)
<1> DEFINE I == {i \in 1 .. Len(s) : s[i] = x}
<1>1. Len(s) \in Nat \ {0} /\ Len(s) \in I /\ I \subseteq 1 .. Len(s)
  BY DEF Last
<1>2. Max(I) = Len(s)
  <2>1. \A y \in I : Len(s) >= y
    BY <1>1
  <2>2. \A z \in I : (\A y \in I : z >= y) => z = Len(s)
    BY <1>1
  <2> HIDE DEF I
  <2>3. QED
    BY <1>1, <2>1, <2>2 DEF Max
<1>3. SubSeq(s, Len(s) + 1, Len(s)) = <<>> /\ SubSeq(s, 1, Len(s) - 1) \in Seq(S)
  BY <1>1
<1>4. RemoveAt(s, Len(s)) = SubSeq(s, 1, Len(s) - 1)
  BY <1>3 DEF RemoveAt
<1>5. I # {}
  BY <1>1
<1>6. QED
  <2> HIDE DEF I
  <2>1. RemoveAt(s, IF I # {} THEN Max(I) ELSE 0) = SubSeq(s, 1, Len(s) - 1)
    BY <1>2, <1>4, <1>5
  <2>2. QED
    BY <2>1 DEF I

LEMMA ExitStacked ==
  ASSUME TypeOK, Stacked, NEW t \in Tasks, Exit(t)
  PROVE  Stacked'
<1> DEFINE a == Last(blocks[t])
           n == Len(open)
<1>0. tidy' = (tidy /\ Last(open) = a)
  BY DEF Exit
<1> SUFFICES ASSUME tidy'
             PROVE  Tidy' /\ BlocksOpen'
  BY <1>0 DEF Stacked
<1>1. tidy /\ Last(open) = a /\ Tidy /\ BlocksOpen
  BY <1>0 DEF Stacked
<1>2. /\ blocks[t] \in Seq(Adapters) /\ Len(blocks[t]) \in DOMAIN blocks[t] /\ a \in Adapters
      /\ a = blocks[t][Len(blocks[t])]
  BY DEF Exit, TypeOK, Last
<1>3. open \in Seq(Adapters) /\ n \in Nat /\ n # 0 /\ DOMAIN open = 1 .. n /\ open[n] = a
  BY <1>1, <1>2 DEF Tidy, BlocksOpen, Last
<1>4. /\ open' = SubSeq(open, 1, n - 1)
      /\ blocks' = [blocks EXCEPT ![t] = Front(@)]
      /\ method' = original[a] /\ original' = original
      /\ patched' = [patched EXCEPT ![a] = FALSE]
  <2>1. open' = LET I == {i \in 1 .. Len(open) : open[i] = a}
                IN  RemoveAt(open, IF I # {} THEN Max(I) ELSE 0)
    BY DEF Exit, SelectLastInSeq
  <2>2. open # <<>>
    BY <1>3
  <2>3. open' = SubSeq(open, 1, n - 1)
    <3> HIDE DEF a
    <3>1. QED
      BY <2>1, <2>2, <1>1, <1>3, RemoveLast
  <2>4. patched[a]
    BY <1>1, <1>2, <1>3 DEF Tidy
  <2>5. QED
    BY <2>3, <2>4 DEF Exit, Unpatch
<1>5. /\ open' \in Seq(Adapters) /\ DOMAIN open' = 1 .. n - 1
      /\ \A i \in DOMAIN open' : i \in DOMAIN open /\ open'[i] = open[i]
  BY <1>3, <1>4
<1>6. method' = Reverse(open')
  BY <1>1, <1>3, <1>4 DEF Tidy
<1>7. \A i, j \in DOMAIN open' : open'[i] = open'[j] => i = j
  BY <1>1, <1>5 DEF Tidy
<1>8. \A i \in DOMAIN open : i # n => i \in DOMAIN open' /\ open'[i] = open[i]
  BY <1>3, <1>5
<1>9. n \notin DOMAIN open'
  BY <1>3, <1>5
<1>10. \A i \in DOMAIN open : open[i] = a => i = n
  BY <1>1, <1>3 DEF Tidy
<1>11. \A b \in Adapters : patched'[b] <=> \E i \in DOMAIN open' : open'[i] = b
  <2>1. ~patched'[a] /\ \A b \in Adapters : b # a => (patched'[b] <=> patched[b])
    BY <1>2, <1>4 DEF TypeOK
  <2>2. \A b \in Adapters : patched[b] <=> \E i \in DOMAIN open : open[i] = b
    BY <1>1 DEF Tidy
  <2>3. \A i \in DOMAIN open' : open'[i] # a
    BY <1>5, <1>9, <1>10
  <2>4. \A b \in Adapters : b # a =>
          ((\E i \in DOMAIN open : open[i] = b) <=> \E i \in DOMAIN open' : open'[i] = b)
    BY <1>3, <1>5, <1>8
  <2> HIDE DEF a
  <2>5. QED
    BY <2>1, <2>2, <2>3, <2>4, Zenon
<1>12. ASSUME NEW i \in DOMAIN open'
       PROVE  original'[open'[i]] = Reverse(SubSeq(open', 1, i - 1))
  <2>1. SubSeq(open', 1, i - 1) = SubSeq(open, 1, i - 1)
    BY <1>3, <1>4, <1>5
  <2>2. QED
    BY <2>1, <1>1, <1>4, <1>5 DEF Tidy
<1>13. /\ blocks'[t] = SubSeq(blocks[t], 1, Len(blocks[t]) - 1)
       /\ \A u \in Tasks : u # t => blocks'[u] = blocks[u]
  BY <1>4 DEF Front, TypeOK
<1>14. \A u \in Tasks : \A i \in DOMAIN blocks'[u] :
         /\ i \in DOMAIN blocks[u] /\ blocks'[u][i] = blocks[u][i]
         /\ ~(u = t /\ i = Len(blocks[t]))
  <2>1. \A i \in DOMAIN blocks'[t] :
          i \in DOMAIN blocks[t] /\ blocks'[t][i] = blocks[t][i] /\ i # Len(blocks[t])
    BY <1>2, <1>13
  <2>2. QED
    BY <1>13, <2>1
<1>15. \A u \in Tasks : \A i \in DOMAIN blocks'[u] : blocks'[u][i] # a
  BY <1>1, <1>2, <1>14 DEF BlocksOpen
<1>16. \A u \in Tasks : \A i \in DOMAIN blocks'[u] : \E j \in DOMAIN open' : open'[j] = blocks'[u][i]
  <2> SUFFICES ASSUME NEW u \in Tasks, NEW i \in DOMAIN blocks'[u]
               PROVE  \E j \in DOMAIN open' : open'[j] = blocks'[u][i]
    OBVIOUS
  <2>1. PICK j \in DOMAIN open : open[j] = blocks[u][i]
    BY <1>1, <1>14 DEF BlocksOpen
  <2>2. j # n
    BY <2>1, <1>3, <1>14, <1>15
  <2>3. QED
    BY <2>1, <2>2, <1>8, <1>14
<1>17. \A u, v \in Tasks : \A i \in DOMAIN blocks'[u], j \in DOMAIN blocks'[v] :
         blocks'[u][i] = blocks'[v][j] => u = v /\ i = j
  BY <1>1, <1>14 DEF BlocksOpen
<1>18. QED
  BY <1>5, <1>6, <1>7, <1>11, <1>12, <1>16, <1>17 DEF Tidy, BlocksOpen

-----------------------------------------------------------------------------
(* Counting in sequences.                                                   *)

\* How many elements of s are in P.
Hits(s, P) == Cardinality({i \in DOMAIN s : s[i] \in P})

LEMMA HitsFinite ==
  ASSUME NEW S, NEW s \in Seq(S), NEW P
  PROVE  /\ IsFiniteSet({i \in DOMAIN s : s[i] \in P})
         /\ Hits(s, P) \in Nat
         /\ Hits(s, P) <= Len(s)
<1> DEFINE H == {i \in DOMAIN s : s[i] \in P}
<1>1. IsFiniteSet(1 .. Len(s)) /\ Cardinality(1 .. Len(s)) = Len(s)
  <2>1. 1 \in Int /\ Len(s) \in Int /\ Len(s) >= 0
    OBVIOUS
  <2> HIDE DEF H
  <2>2. IsFiniteSet(1 .. Len(s)) /\ Cardinality(1 .. Len(s)) = IF 1 > Len(s) THEN 0 ELSE Len(s) - 1 + 1
    BY <2>1, FS_Interval
  <2>3. QED
    BY <2>1, <2>2
<1>2. H \in SUBSET (1 .. Len(s))
  OBVIOUS
<1> HIDE DEF H
<1>3. IsFiniteSet(H) /\ Cardinality(H) <= Len(s) /\ Cardinality(H) \in Nat
  BY <1>1, <1>2, FS_Subset, FS_CardinalityType
<1>4. QED
  BY <1>3 DEF H, Hits

LEMMA Shifted ==
  ASSUME NEW n \in Nat, NEW S \in SUBSET Nat, IsFiniteSet(S)
  PROVE  LET T == {n + i : i \in S}
         IN  IsFiniteSet(T) /\ Cardinality(T) = Cardinality(S)
<1> DEFINE T == {n + i : i \in S}
           f == [i \in S |-> n + i]
<1>1. f \in Bijection(S, T)
  <2>1. f \in [S -> T] /\ \A y \in T : \E i \in S : f[i] = y
    OBVIOUS
  <2>2. ASSUME NEW i \in S, NEW j \in S, f[i] = f[j]
        PROVE  i = j
    BY <2>2
  <2>3. QED
    BY <2>1, <2>2 DEF Bijection, Injection, Surjection, IsInjective
<1>2. QED
  BY <1>1, FS_Bijection DEF ExistsBijection

LEMMA HitsConcat ==
  ASSUME NEW S, NEW s \in Seq(S), NEW u \in Seq(S), NEW P
  PROVE  Hits(s \o u, P) = Hits(s, P) + Hits(u, P)
<1> DEFINE A == {i \in DOMAIN s : s[i] \in P}
           B == {i \in DOMAIN u : u[i] \in P}
           C == {Len(s) + i : i \in B}
           W == {i \in DOMAIN (s \o u) : (s \o u)[i] \in P}
<1>1. /\ s \o u \in Seq(S) /\ DOMAIN (s \o u) = 1 .. Len(s) + Len(u)
      /\ \A i \in 1 .. Len(s) : (s \o u)[i] = s[i]
      /\ \A i \in 1 .. Len(u) : (s \o u)[Len(s) + i] = u[i]
  OBVIOUS
<1>2. \A i \in Len(s) + 1 .. Len(s) + Len(u) : i - Len(s) \in 1 .. Len(u) /\ i = Len(s) + (i - Len(s))
  OBVIOUS
<1>3. W \subseteq A \cup C
  <2> SUFFICES ASSUME NEW i \in W, i \notin A
               PROVE  i \in C
    OBVIOUS
  <2>1. i \in Len(s) + 1 .. Len(s) + Len(u)
    BY <1>1
  <2>2. i - Len(s) \in B
    BY <2>1, <1>1, <1>2
  <2>3. QED
    BY <2>1, <2>2, <1>2
<1>4. A \subseteq W
  BY <1>1
<1>5. C \subseteq W
  BY <1>1
<1>6. A \cap C = {}
  OBVIOUS
<1>7. IsFiniteSet(A) /\ IsFiniteSet(B) /\ B \in SUBSET Nat /\ Len(s) \in Nat
  <2>1. IsFiniteSet(A)
    BY HitsFinite
  <2>2. IsFiniteSet(B)
    BY HitsFinite
  <2>3. QED
    BY <2>1, <2>2
<1> HIDE DEF A, B, W
<1>8. IsFiniteSet(C) /\ Cardinality(C) = Cardinality(B)
  BY <1>7, Shifted
<1> HIDE DEF C
<1>9. W = A \cup C
  BY <1>3, <1>4, <1>5
<1>10. Cardinality(W) = Cardinality(A) + Cardinality(C) - Cardinality(A \cap C)
  BY <1>7, <1>8, <1>9, FS_Union
<1>11. Cardinality(A \cap C) = 0 /\ Cardinality(A) \in Nat /\ Cardinality(C) \in Nat
  BY <1>6, <1>7, <1>8, FS_EmptySet, FS_CardinalityType
<1>12. Cardinality(W) = Cardinality(A) + Cardinality(B)
  BY <1>8, <1>10, <1>11
<1>13. QED
  BY <1>12 DEF Hits, A, B, W

LEMMA AllHit ==
  ASSUME NEW S, NEW s \in Seq(S), NEW P, \A i \in DOMAIN s : s[i] \in P
  PROVE  Hits(s, P) = Len(s)
<1> DEFINE H == {i \in DOMAIN s : s[i] \in P}
<1>1. H = 1 .. Len(s)
  OBVIOUS
<1>2. 1 \in Int /\ Len(s) \in Int /\ Len(s) >= 0
  OBVIOUS
<1> HIDE DEF H
<1>3. Cardinality(1 .. Len(s)) = IF 1 > Len(s) THEN 0 ELSE Len(s) - 1 + 1
  BY <1>2, FS_Interval
<1>4. Cardinality(H) = Len(s)
  BY <1>1, <1>2, <1>3
<1>5. QED
  BY <1>4 DEF Hits, H

LEMMA NoneHit ==
  ASSUME NEW s, NEW P, \A i \in DOMAIN s : s[i] \notin P
  PROVE  Hits(s, P) = 0
<1>1. {i \in DOMAIN s : s[i] \in P} = {}
  OBVIOUS
<1>2. QED
  BY <1>1, FS_EmptySet DEF Hits

\* The last element of a sequence, taken off.
LEMMA HitsFront ==
  ASSUME NEW S, NEW s \in Seq(S), s # <<>>, NEW P
  PROVE  /\ Front(s) \in Seq(S) /\ Last(s) \in S
         /\ Hits(s, P) = Hits(Front(s), P) + IF Last(s) \in P THEN 1 ELSE 0
<1>1. Front(s) \in Seq(S) /\ Last(s) \in S /\ s = Front(s) \o <<Last(s)>> /\ <<Last(s)>> \in Seq(S)
  BY DEF Front, Last
<1>2. Hits(s, P) = Hits(Front(s), P) + Hits(<<Last(s)>>, P)
  <2> DEFINE front == Front(s)
             end   == <<Last(s)>>
  <2>1. front \in Seq(S) /\ end \in Seq(S)
    BY <1>1
  <2> HIDE DEF front, end
  <2>2. Hits(front \o end, P) = Hits(front, P) + Hits(end, P)
    BY <2>1, HitsConcat
  <2>3. QED
    BY <1>1, <2>2 DEF front, end
<1>3. CASE Last(s) \in P
  <2>1. \A i \in DOMAIN <<Last(s)>> : <<Last(s)>>[i] \in P
    BY <1>3
  <2>2. Hits(<<Last(s)>>, P) = Len(<<Last(s)>>)
    BY <1>1, <2>1, AllHit
  <2>3. QED
    BY <1>1, <1>2, <1>3, <2>2
<1>4. CASE Last(s) \notin P
  <2>1. Hits(<<Last(s)>>, P) = 0
    BY <1>4, NoneHit
  <2>2. QED
    BY <1>1, <1>2, <1>4, <2>1
<1>5. QED
  BY <1>3, <1>4

-----------------------------------------------------------------------------
(* What an adapter emits.                                                   *)

EventNames == {"tool", "model", "error"}

\* What is emitted of a response: tool events, at least one for each tool call before the
\* first bad part, and the event of the response itself at the end.
Emission(em, parts) ==
  /\ em \in Seq(EventNames) /\ Len(em) # 0
  /\ \A i \in DOMAIN em : em[i] = IF i = Len(em) THEN "model" ELSE "tool"
  /\ Len(em) - 1 >= Len(ToolEvents(Before(parts)))

LEMMA ToolsType ==
  ASSUME NEW parts \in Seq(Parts)
  PROVE  /\ ToolEvents(parts) \in Seq(EventNames)
         /\ Len(ToolEvents(parts)) = Hits(parts, {"tool"}) /\ Len(ToolEvents(parts)) \in Nat
         /\ \A i \in DOMAIN ToolEvents(parts) : ToolEvents(parts)[i] = "tool"
<1> DEFINE n == Hits(parts, {"tool"})
<1>1. n \in Nat
  BY HitsFinite
<1>2. {j \in DOMAIN parts : parts[j] = "tool"} = {j \in DOMAIN parts : parts[j] \in {"tool"}}
  OBVIOUS
<1>3. ToolEvents(parts) = [i \in 1 .. n |-> "tool"]
  BY <1>2 DEF ToolEvents, Hits
<1> HIDE DEF n
<1>4. QED
  BY <1>1, <1>3 DEF n, EventNames

\* The least element of a set of natural numbers.
LEMMA MinIsIn ==
  ASSUME NEW T \in SUBSET Nat, T # {}
  PROVE  Min(T) \in T
<1> DEFINE R == {ss \in Nat \X Nat : ss[1] < ss[2]}
<1>1. PICK x \in T : \A y \in T : ~ (<<y, x>> \in R)
  <2>1. OpToRel(<, Nat) = R
    BY Zenon DEF OpToRel
  <2> HIDE DEF R
  <2>2. IsWellFoundedOn(R, Nat)
    BY NatLessThanWellFounded, <2>1
  <2>3. QED
    BY <2>2, WFMin
<1>2. ASSUME NEW y \in T
      PROVE  x <= y
  <2>1. <<y, x>> \notin R /\ <<y, x>> \in Nat \X Nat
    BY <1>1
  <2>2. QED
    BY <2>1
<1>3. QED
  BY <1>1, <1>2 DEF Min

LEMMA BeforePrefix ==
  ASSUME NEW parts \in Seq(Parts)
  PROVE  /\ Before(parts) \in Seq(Parts)
         /\ Hits(Before(parts), {"tool"}) <= Hits(parts, {"tool"})
<1> DEFINE I == {i \in 1 .. Len(parts) : parts[i] # "tool"}
           odd == IF I # {} THEN Min(I) ELSE 0
<1>1. Before(parts) = IF odd = 0 THEN parts ELSE SubSeq(parts, 1, odd - 1)
  BY DEF Before, FirstBad, SelectInSeq
<1>2. odd = 0 \/ odd \in 1 .. Len(parts)
  <2>1. I \in SUBSET Nat /\ I \subseteq 1 .. Len(parts)
    OBVIOUS
  <2> HIDE DEF I
  <2>2. QED
    BY <2>1, MinIsIn
<1> HIDE DEF odd
<1>3. CASE odd = 0
  <2>1. Hits(parts, {"tool"}) \in Nat
    BY HitsFinite
  <2>2. QED
    BY <1>1, <1>3, <2>1
<1>4. CASE odd \in 1 .. Len(parts)
  <2> DEFINE H == {i \in DOMAIN parts : parts[i] \in {"tool"}}
             B == {i \in DOMAIN Before(parts) : Before(parts)[i] \in {"tool"}}
  <2>1. /\ Before(parts) \in Seq(Parts) /\ DOMAIN Before(parts) \subseteq DOMAIN parts
        /\ \A i \in DOMAIN Before(parts) : Before(parts)[i] = parts[i]
    BY <1>1, <1>4
  <2>2. B \in SUBSET H
    BY <2>1
  <2>3. IsFiniteSet(H)
    BY HitsFinite
  <2> HIDE DEF B, H
  <2>4. Cardinality(B) <= Cardinality(H)
    BY <2>2, <2>3, FS_Subset
  <2>5. QED
    BY <2>1, <2>4 DEF Hits, B, H
<1>5. QED
  BY <1>2, <1>3, <1>4

LEMMA ResponseEmission ==
  ASSUME TypeOK, NEW parts \in Seq(Parts)
  PROVE  Emission(EmitResponse(parts), parts)
<1>1. PICK kept \in {parts, Before(parts)} : EmitResponse(parts) = ToolEvents(kept) \o <<"model">>
  BY DEF TypeOK, EmitResponse, EmitOpenAI, EmitAnthropic, EmitGemini, EmitLiteLLM
<1>2. /\ kept \in Seq(Parts) /\ Before(parts) \in Seq(Parts)
      /\ Hits(kept, {"tool"}) >= Hits(Before(parts), {"tool"})
  <2>1. Hits(parts, {"tool"}) \in Nat /\ Before(parts) \in Seq(Parts)
    BY BeforePrefix, HitsFinite
  <2>2. Hits(Before(parts), {"tool"}) \in Nat
    BY <2>1, HitsFinite
  <2>3. QED
    BY <2>1, <2>2, BeforePrefix
<1> DEFINE T == ToolEvents(kept)
<1>3. /\ T \in Seq(EventNames) /\ Len(T) \in Nat
      /\ \A i \in DOMAIN T : T[i] = "tool"
      /\ Len(T) >= Len(ToolEvents(Before(parts)))
  BY <1>2, ToolsType
<1>4. EmitResponse(parts) = T \o <<"model">> /\ "model" \in EventNames
  BY <1>1 DEF EventNames
<1> HIDE DEF T
<1> DEFINE em == EmitResponse(parts)
<1>5. /\ em \in Seq(EventNames) /\ Len(em) = Len(T) + 1
      /\ \A i \in 1 .. Len(T) : em[i] = T[i]
      /\ em[Len(T) + 1] = "model"
  BY <1>3, <1>4
<1>6. \A i \in DOMAIN em : em[i] = IF i = Len(em) THEN "model" ELSE "tool"
  BY <1>3, <1>5
<1> HIDE DEF em
<1>7. Len(ToolEvents(Before(parts))) \in Nat
  BY <1>2, ToolsType
<1>8. Emission(em, parts)
  BY <1>3, <1>5, <1>6, <1>7 DEF Emission
<1>9. QED
  BY <1>8 DEF em

-----------------------------------------------------------------------------
(* What the log of a call holds, wrapper by wrapper.                        *)

Of(a, E) == {e \in Event : e.by = a /\ e.event \in E}

Logged(c, a, E) == Hits(c.log, Of(a, E))

\* The blocks of a whose wrapper has run.
Ran(c, a) == Hits(c.due, {a}) - Hits(c.chain, {a})

Told(c, a) == Logged(c, a, {"model", "error"}) = Ran(c, a)

\* Of one wrapper a clause blocked a tool event, or an exception of its own escaped, so
\* that the response was not recorded.
CutOff(c, a) ==
  /\ Logged(c, a, {"model", "error"}) = Ran(c, a) - 1
  /\ c.escaped \/ Logged(c, a, {"tool"}) > 0

\* What may have stopped it.
Stopped(c) == c.raised \/ c.escaped

Answered(c, a) ==
  /\ Told(c, a)
  /\ Logged(c, a, {"model"}) = Ran(c, a)
  /\ Logged(c, a, {"tool"}) >= Ran(c, a) * Len(ToolEvents(Before(c.parts)))

\* The inductive strengthening of CallsRecorded: at each stage of a call, the wrappers that
\* have run are told of what they passed on, but for one that was cut off.
CallOK(c) ==
  /\ c.pc = "called" => c.log = <<>> /\ c.chain = c.due
  /\ c.pc = "back" =>
       /\ c.result # "none"
       /\ ~c.session \/ c.result = "cancelled" => c.log = <<>>
       /\ c.session /\ c.result = "response" => \A a \in Adapters : Answered(c, a)
       /\ c.session /\ c.result = "error" =>
            \/ \A a \in Adapters : Told(c, a)
            \/ Stopped(c) /\ \E b \in Adapters : CutOff(c, b) /\ \A a \in Adapters \ {b} : Told(c, a)

IInv ==
  /\ TypeOK
  /\ Stacked
  /\ \A t \in Tasks : CallOK(task[t])

\* From c to d, b has put the events ev into the log.
LogExtended(c, d, b, ev) ==
  /\ c \in Call /\ d \in Call /\ b \in Adapters /\ ev \in Seq(EventNames)
  /\ d.log = c.log \o [i \in DOMAIN ev |-> [by |-> b, event |-> ev[i]]]

\* How the counts change when a wrapper has had its events judged.
LEMMA LoggedGrows ==
  ASSUME NEW c, NEW d, NEW b, NEW ev, LogExtended(c, d, b, ev), NEW a \in Adapters, NEW E
  PROVE  /\ Logged(c, a, E) \in Nat /\ Hits(ev, E) \in Nat
         /\ Logged(d, a, E) = Logged(c, a, E) + IF a = b THEN Hits(ev, E) ELSE 0
<1> USE DEF LogExtended
<1> DEFINE m == [i \in DOMAIN ev |-> [by |-> b, event |-> ev[i]]]
<1>1. /\ m \in Seq(Event) /\ DOMAIN m = DOMAIN ev
      /\ \A i \in DOMAIN m : m[i].by = b /\ m[i].event = ev[i] /\ m[i] \in Event
  <2>1. \A i \in DOMAIN ev : [by |-> b, event |-> ev[i]] \in Event
    BY DEF Event, EventNames
  <2>2. DOMAIN ev = 1 .. Len(ev) /\ Len(ev) \in Nat
    OBVIOUS
  <2>3. QED
    BY <2>1, <2>2
<1>2. c.log \in Seq(Event)
  BY DEF Call
<1> HIDE DEF m
<1>3. Logged(d, a, E) = Logged(c, a, E) + Hits(m, Of(a, E))
  BY <1>1, <1>2, HitsConcat DEF Logged, m
<1>4. Logged(c, a, E) \in Nat /\ Hits(ev, E) \in Nat
  BY <1>2, HitsFinite DEF Logged
<1>5. CASE a = b
  <2>1. {i \in DOMAIN m : m[i] \in Of(a, E)} = {i \in DOMAIN ev : ev[i] \in E}
    BY <1>1, <1>5 DEF Of
  <2>2. QED
    BY <1>3, <1>4, <1>5, <2>1 DEF Hits
<1>6. CASE a # b
  <2>1. \A i \in DOMAIN m : m[i] \notin Of(a, E)
    BY <1>1, <1>6 DEF Of
  <2>2. Hits(m, Of(a, E)) = 0
    BY <2>1, NoneHit
  <2>3. QED
    BY <1>3, <1>4, <1>6, <2>2
<1>7. QED
  BY <1>5, <1>6

LEMMA RanGrows ==
  ASSUME NEW c \in Call, NEW d \in Call, c.chain # <<>>,
         d.chain = Front(c.chain), d.due = c.due, NEW a \in Adapters
  PROVE  /\ Ran(c, a) \in Int
         /\ Ran(d, a) = Ran(c, a) + IF a = Last(c.chain) THEN 1 ELSE 0
<1>1. c.chain \in Seq(Adapters) /\ c.due \in Seq(Adapters)
  BY DEF Call
<1>2. /\ Front(c.chain) \in Seq(Adapters)
      /\ Hits(c.chain, {a}) = Hits(Front(c.chain), {a}) + IF Last(c.chain) \in {a} THEN 1 ELSE 0
  BY <1>1, HitsFront
<1>3. Hits(c.chain, {a}) \in Nat /\ Hits(Front(c.chain), {a}) \in Nat /\ Hits(c.due, {a}) \in Nat
  BY <1>1, <1>2, HitsFinite
<1>4. QED
  BY <1>2, <1>3 DEF Ran

\* What the judged part of a response's events counts.
LEMMA JudgedEvents ==
  ASSUME NEW parts, NEW em, Emission(em, parts), NEW k \in 0 .. Len(em),
         Len(ToolEvents(Before(parts))) \in Nat
  PROVE  LET ev == SubSeq(em, 1, k)
         IN  /\ ev \in Seq(EventNames)
             /\ k = Len(em) =>
                  /\ ev = em
                  /\ Hits(ev, {"model"}) = 1 /\ Hits(ev, {"model", "error"}) = 1
                  /\ Hits(ev, {"tool"}) >= Len(ToolEvents(Before(parts)))
             /\ k # Len(em) =>
                  /\ Hits(ev, {"model", "error"}) = 0 /\ Hits(ev, {"tool"}) = k
<1> DEFINE ev == SubSeq(em, 1, k)
<1>1. /\ em \in Seq(EventNames) /\ Len(em) \in Nat /\ Len(em) # 0 /\ k \in 0 .. Len(em)
      /\ \A i \in DOMAIN em : em[i] = IF i = Len(em) THEN "model" ELSE "tool"
      /\ DOMAIN em = 1 .. Len(em)
      /\ Len(em) - 1 >= Len(ToolEvents(Before(parts)))
  BY DEF Emission
<1>2. /\ ev \in Seq(EventNames) /\ Len(ev) = k /\ DOMAIN ev = 1 .. k
      /\ \A i \in DOMAIN ev : ev[i] = em[i] /\ i \in DOMAIN em
  BY <1>1
<1>3. k = Len(em) => ev = em
  BY <1>1
<1> HIDE DEF ev
<1>4. CASE k # Len(em)
  <2>1. ASSUME NEW i \in DOMAIN ev
        PROVE  ev[i] = "tool"
    <3>1. i \in DOMAIN em /\ i \in 1 .. k /\ ev[i] = em[i]
      BY <1>2
    <3>2. Len(em) \in Nat /\ k \in 0 .. Len(em) /\ k # Len(em)
      BY <1>1, <1>4
    <3>3. i # Len(em)
      BY ONLY <3>1, <3>2
    <3>4. QED
      BY <3>1, <3>3, <1>1
  <2>2. \A i \in DOMAIN ev : ev[i] \in {"tool"} /\ ev[i] \notin {"model", "error"}
    BY <2>1
  <2>3. Hits(ev, {"tool"}) = k
    BY <1>2, <2>2, AllHit
  <2>4. Hits(ev, {"model", "error"}) = 0
    BY <2>2, NoneHit
  <2>5. QED
    BY <1>2, <1>4, <2>3, <2>4 DEF ev
<1>5. CASE k = Len(em)
  <2>1. /\ Front(ev) \in Seq(EventNames) /\ Last(ev) = "model" /\ ev # <<>>
        /\ Len(Front(ev)) = k - 1
        /\ \A i \in DOMAIN Front(ev) : Front(ev)[i] = "tool"
    BY <1>1, <1>2, <1>5 DEF Front, Last
  <2>2. \A i \in DOMAIN Front(ev) :
          Front(ev)[i] \in {"tool"} /\ Front(ev)[i] \notin {"model", "error"} /\ Front(ev)[i] \notin {"model"}
    BY <2>1
  <2>3. /\ Hits(Front(ev), {"tool"}) = k - 1
        /\ Hits(Front(ev), {"model", "error"}) = 0 /\ Hits(Front(ev), {"model"}) = 0
    BY <2>1, <2>2, AllHit, NoneHit
  <2>4. \A P : Hits(ev, P) = Hits(Front(ev), P) + IF Last(ev) \in P THEN 1 ELSE 0
    BY <1>2, <2>1, HitsFront
  <2>5. /\ Hits(ev, {"tool"}) = k - 1
        /\ Hits(ev, {"model", "error"}) = 1 /\ Hits(ev, {"model"}) = 1
    BY <1>1, <2>1, <2>3, <2>4
  <2>6. QED
    BY <1>1, <1>2, <1>3, <1>5, <2>5 DEF ev
<1>6. QED
  BY <1>4, <1>5 DEF ev

LEMMA EmissionsType ==
  ASSUME TypeOK, NEW t \in Tasks
  PROVE  Emissions(t) \in Seq(EventNames)
<1>1. task[t].parts \in Seq(Parts)
  BY DEF TypeOK, Call
<1>2. EmitResponse(task[t].parts) \in Seq(EventNames)
  BY <1>1, ResponseEmission DEF Emission
<1>3. <<>> \in Seq(EventNames) /\ EmitError \in Seq(EventNames)
  BY DEF EmitError, EventNames
<1>4. QED
  BY <1>2, <1>3 DEF Emissions

\* How a wrapper may stop.
LEMMA StopsType ==
  ASSUME TypeOK, NEW t \in Tasks, NEW stop \in Stops(t)
  PROVE  LET all == Len(Emissions(t)) IN
         /\ stop.after \in 0 .. all /\ all \in Nat
         /\ stop.why \in {"done", "clause", "escape"}
         /\ stop.why = "done" => stop.after = all
         /\ stop.why = "clause" => stop.after # 0
         /\ stop.why = "escape" => Extracts(t) /\ stop.after # all
<1> DEFINE all == Len(Emissions(t))
<1>1. all \in Nat
  BY EmissionsType
<1>2. Extracts(t) => all # 0
  <2>1. task[t].parts \in Seq(Parts)
    BY DEF TypeOK, Call
  <2>2. Extracts(t) => Emissions(t) = EmitResponse(task[t].parts)
    BY DEF Extracts, Emissions
  <2>3. QED
    BY <2>1, <2>2, ResponseEmission DEF Emission
<1>3. \A k \in EscapesAfter(t) : Extracts(t) /\ k \in {0, all - 1}
  BY DEF EscapesAfter, Broken
<1> DEFINE last == IF Broken(t) THEN all - 1 ELSE all
<1>4. \/ stop = Stop("done", all)
      \/ \E k \in 1 .. last : stop = Stop("clause", k)
      \/ \E k \in EscapesAfter(t) : stop = Stop("escape", k)
  BY DEF Stops
<1> HIDE DEF all
<1>5. last \in {all, all - 1}
  OBVIOUS
<1> HIDE DEF last
<1>6. CASE stop = Stop("done", all)
  BY <1>1, <1>6 DEF Stop, all
<1>7. ASSUME NEW k \in 1 .. last, stop = Stop("clause", k)
      PROVE  stop.why = "clause" /\ stop.after \in 1 .. all
  BY <1>1, <1>5, <1>7 DEF Stop
<1>8. ASSUME NEW k \in EscapesAfter(t), stop = Stop("escape", k)
      PROVE  stop.why = "escape" /\ Extracts(t) /\ stop.after \in 0 .. all /\ stop.after # all
  BY <1>1, <1>2, <1>3, <1>8 DEF Stop
<1>9. QED
  BY <1>1, <1>4, <1>6, <1>7, <1>8 DEF all

LEMMA WrapperStep ==
  ASSUME TypeOK, NEW t \in Tasks, Wrapper(t)
  PROVE  LET c == task[t] d == task'[t] IN
         \E stop \in Stops(t) :
           LET ev == SubSeq(Emissions(t), 1, stop.after)
           IN  /\ ev \in Seq(EventNames)
               /\ c.pc = "back" /\ c.chain # <<>> /\ c \in Call /\ d \in Call
               /\ task' = [task EXCEPT ![t] = d]
               /\ d.chain = Front(c.chain)
               /\ d.result = IF stop.why = "done" THEN c.result ELSE "error"
               /\ d.raised = (c.raised \/ stop.why = "clause")
               /\ d.escaped = (c.escaped \/ stop.why = "escape")
               /\ d.log = c.log \o [i \in DOMAIN ev |-> [by |-> Last(c.chain), event |-> ev[i]]]
               /\ d.pc = "back" /\ d.session = c.session /\ d.parts = c.parts /\ d.due = c.due
<1> DEFINE c == task[t]
<1>1. c \in Call /\ c.pc = "back" /\ c.chain # <<>> /\ task \in [Tasks -> Call]
  BY DEF Wrapper, TypeOK
<1>2. PICK stop \in Stops(t) :
        LET ev == SubSeq(Emissions(t), 1, stop.after)
        IN  task' = [task EXCEPT ![t].chain = Front(@),
              ![t].result = IF stop.why = "done" THEN @ ELSE "error",
              ![t].raised = @ \/ stop.why = "clause",
              ![t].escaped = @ \/ stop.why = "escape",
              ![t].log = @ \o [i \in DOMAIN ev |-> [by |-> Last(task[t].chain), event |-> ev[i]]]]
  BY Zenon DEF Wrapper
<1> DEFINE ev == SubSeq(Emissions(t), 1, stop.after)
           m == [i \in DOMAIN ev |-> [by |-> Last(c.chain), event |-> ev[i]]]
           d == [c EXCEPT !.chain = Front(@), !.result = IF stop.why = "done" THEN @ ELSE "error",
                   !.raised = @ \/ stop.why = "clause", !.escaped = @ \/ stop.why = "escape",
                   !.log = @ \o m]
<1>3. ev \in Seq(EventNames)
  <2>1. Emissions(t) \in Seq(EventNames)
    BY EmissionsType
  <2>2. stop.after \in 0 .. Len(Emissions(t))
    BY StopsType
  <2>3. QED
    BY <2>1, <2>2
<1>4. m \in Seq(Event)
  <2>1. Last(c.chain) \in Adapters
    BY <1>1 DEF Call, Last
  <2> HIDE DEF ev
  <2>2. \A i \in DOMAIN ev : [by |-> Last(c.chain), event |-> ev[i]] \in Event
    BY <1>3, <2>1 DEF Event, EventNames
  <2>3. DOMAIN ev = 1 .. Len(ev) /\ Len(ev) \in Nat
    BY <1>3
  <2>4. QED
    BY <2>2, <2>3
<1>5. task' = [task EXCEPT ![t] = d]
  <2> HIDE DEF ev
  <2>1. QED
    BY <1>1, <1>2 DEF ev
<1> HIDE DEF ev, m
<1>6. /\ d.chain = Front(c.chain) /\ d.result = (IF stop.why = "done" THEN c.result ELSE "error")
      /\ d.raised = (c.raised \/ stop.why = "clause")
      /\ d.escaped = (c.escaped \/ stop.why = "escape") /\ d.log = c.log \o m
      /\ d.pc = c.pc /\ d.session = c.session /\ d.parts = c.parts /\ d.due = c.due
  BY <1>1 DEF Call
<1>7. d \in Call
  <2>1. c.chain \in Seq(Adapters) /\ c.log \in Seq(Event)
    BY <1>1 DEF Call
  <2>2. Front(c.chain) \in Seq(Adapters)
    BY <1>1, <2>1, HitsFront
  <2>3. c.log \o m \in Seq(Event)
    BY <1>4, <2>1
  <2>4. QED
    BY <1>1, <2>2, <2>3 DEF Call
<1>8. task'[t] = d
  BY <1>1, <1>5
<1> HIDE DEF d
<1>9. QED
  BY <1>1, <1>3, <1>5, <1>6, <1>7, <1>8 DEF m, ev

LEMMA WrapperCall ==
  ASSUME TypeOK, NEW t \in Tasks, CallOK(task[t]), Wrapper(t)
  PROVE  /\ task' = [task EXCEPT ![t] = task'[t]]
         /\ task'[t] \in Call
         /\ CallOK(task'[t])
<1> DEFINE c == task[t]
           d == task'[t]
           em == Emissions(t)
           b == Last(c.chain)
<1>1. PICK stop \in Stops(t) :
        LET ev == SubSeq(em, 1, stop.after)
        IN  /\ ev \in Seq(EventNames)
            /\ c.pc = "back" /\ c.chain # <<>> /\ c \in Call /\ d \in Call
            /\ task' = [task EXCEPT ![t] = d]
            /\ d.chain = Front(c.chain)
            /\ d.result = IF stop.why = "done" THEN c.result ELSE "error"
            /\ d.raised = (c.raised \/ stop.why = "clause")
            /\ d.escaped = (c.escaped \/ stop.why = "escape")
            /\ d.log = c.log \o [i \in DOMAIN ev |-> [by |-> b, event |-> ev[i]]]
            /\ d.pc = "back" /\ d.session = c.session /\ d.parts = c.parts /\ d.due = c.due
  BY WrapperStep
<1> DEFINE ev == SubSeq(em, 1, stop.after)
           n == Len(ToolEvents(Before(c.parts)))
<1>2. /\ b \in Adapters /\ c.parts \in Seq(Parts) /\ c.chain \in Seq(Adapters) /\ c.log \in Seq(Event)
      /\ c.session \in BOOLEAN /\ c.raised \in BOOLEAN /\ c.escaped \in BOOLEAN
      /\ c.result \in {"none", "response", "error", "cancelled"}
  BY <1>1 DEF Call, Last
<1>3. n \in Nat
  BY <1>2, BeforePrefix, ToolsType
<1>4. /\ c \in Call /\ d \in Call /\ c.chain # <<>> /\ d.chain = Front(c.chain) /\ d.due = c.due
      /\ d.parts = c.parts /\ d.session = c.session /\ d.pc = "back" /\ c.pc = "back"
      /\ ev \in Seq(EventNames) /\ b = Last(c.chain)
      /\ d.log = c.log \o [i \in DOMAIN ev |-> [by |-> b, event |-> ev[i]]]
      /\ d.result = (IF stop.why = "done" THEN c.result ELSE "error")
      /\ d.raised = (c.raised \/ stop.why = "clause")
      /\ d.escaped = (c.escaped \/ stop.why = "escape")
      /\ task' = [task EXCEPT ![t] = d]
  BY <1>1
<1>5. CallOK(c)
  OBVIOUS
<1>6. em = IF ~c.session THEN <<>>
           ELSE CASE c.result = "response" -> EmitResponse(c.parts)
                  [] c.result = "error" -> EmitError
                  [] OTHER -> <<>>
  BY DEF Emissions
<1>7. c.result = "response" => Emission(EmitResponse(c.parts), c.parts)
  BY <1>2, ResponseEmission
<1>s. /\ stop.after \in 0 .. Len(em) /\ Len(em) \in Nat
      /\ stop.why \in {"done", "clause", "escape"}
      /\ stop.why = "done" => stop.after = Len(em)
      /\ stop.why = "clause" => stop.after # 0
      /\ stop.why = "escape" =>
           /\ c.session /\ c.result = "response"
           /\ stop.after # Len(em)
  BY StopsType DEF Extracts
<1> HIDE DEF c, d, em, ev, b, n
\* Nothing is emitted.
<1>8. CASE ~c.session \/ c.result = "cancelled"
  <2>1. em = <<>>
    BY <1>6, <1>8
  <2>2. stop.why = "done" /\ ev = <<>>
    BY <1>s, <1>8, <2>1 DEF ev
  <2>3. c.log = <<>>
    BY <1>4, <1>5, <1>8 DEF CallOK
  <2>4. d.log = <<>> /\ d.result = c.result
    BY <1>4, <2>2, <2>3
  <2>5. CallOK(d)
    BY <1>2, <1>4, <1>5, <1>8, <2>4 DEF CallOK
  <2>6. QED
    BY <1>4, <2>5 DEF c, d
\* All that is emitted of the response is judged.
<1> DEFINE G(a, E) == Logged(c, a, E) + IF a = b THEN Hits(ev, E) ELSE 0
<1>9. /\ \A a \in Adapters : \A E : /\ Logged(c, a, E) \in Nat /\ Hits(ev, E) \in Nat
                                    /\ Logged(d, a, E) = G(a, E)
      /\ \A a \in Adapters : Ran(c, a) \in Int /\ Ran(d, a) = Ran(c, a) + IF a = b THEN 1 ELSE 0
  <2>1. ASSUME NEW a \in Adapters, NEW E
        PROVE  /\ Logged(c, a, E) \in Nat /\ Hits(ev, E) \in Nat
               /\ Logged(d, a, E) = G(a, E)
    <3>1. LogExtended(c, d, b, ev)
      BY <1>2, <1>4 DEF LogExtended
    <3>2. QED
      BY <3>1, LoggedGrows
  <2>2. ASSUME NEW a \in Adapters
        PROVE  Ran(c, a) \in Int /\ Ran(d, a) = Ran(c, a) + IF a = b THEN 1 ELSE 0
    BY <1>4, RanGrows
  <2>3. QED
    BY <2>1, <2>2
<1>10. CASE c.session /\ c.result = "response" /\ stop.after = Len(em)
  <2>1. em = EmitResponse(c.parts) /\ Emission(em, c.parts)
    BY <1>6, <1>7, <1>10
  <2>2. Len(em) \in 1 .. Len(em) /\ ev = em /\ SubSeq(em, 1, Len(em)) = em
    <3>1. em \in Seq(EventNames) /\ Len(em) # 0
      BY <2>1 DEF Emission
    <3>2. Len(em) \in 1 .. Len(em) /\ SubSeq(em, 1, Len(em)) = em
      BY <3>1
    <3>3. QED
      BY <1>10, <3>2 DEF ev
  <2>3. /\ Hits(ev, {"model"}) = 1 /\ Hits(ev, {"model", "error"}) = 1
        /\ Hits(ev, {"tool"}) >= n
    <3>1. Len(em) \in 0 .. Len(em) /\ Len(ToolEvents(Before(c.parts))) \in Nat
      BY <1>3, <1>s DEF n
    <3>2. LET all == SubSeq(em, 1, Len(em))
          IN  /\ Hits(all, {"model"}) = 1 /\ Hits(all, {"model", "error"}) = 1
              /\ Hits(all, {"tool"}) >= Len(ToolEvents(Before(c.parts)))
      BY <2>1, <3>1, JudgedEvents
    <3>3. QED
      BY <2>2, <3>2 DEF n
  <2>4. \A a \in Adapters : Answered(c, a)
    BY <1>4, <1>5, <1>10 DEF CallOK
  <2>5. ASSUME NEW a \in Adapters
        PROVE  Answered(d, a)
    <3>1. /\ Logged(c, a, {"model", "error"}) = Ran(c, a)
          /\ Logged(c, a, {"model"}) = Ran(c, a)
          /\ Logged(c, a, {"tool"}) >= Ran(c, a) * n
      BY <2>4 DEF Answered, Told, n
    <3>2. /\ Ran(c, a) \in Int /\ Logged(c, a, {"tool"}) \in Nat /\ Hits(ev, {"tool"}) \in Nat
      BY <1>9
    <3>3. (Ran(c, a) + 1) * n = Ran(c, a) * n + n /\ Ran(c, a) * n \in Int
      BY <1>3, <3>2
    <3>4. /\ Logged(d, a, {"model", "error"}) = Ran(d, a)
          /\ Logged(d, a, {"model"}) = Ran(d, a)
      BY <1>9, <2>3, <3>1
    <3>5. Logged(d, a, {"tool"}) >= Ran(d, a) * n
      <4>1. CASE a = b
        <5>1. Ran(d, a) = Ran(c, a) + 1 /\ Logged(d, a, {"tool"}) = Logged(c, a, {"tool"}) + Hits(ev, {"tool"})
          BY <1>9, <4>1
        <5>2. Ran(d, a) * n = Ran(c, a) * n + n
          BY <3>3, <5>1
        <5>3. QED
          BY <1>3, <2>3, <3>1, <3>2, <3>3, <5>1, <5>2
      <4>2. CASE a # b
        BY <1>9, <3>1, <3>2, <4>2
      <4>3. QED
        BY <4>1, <4>2
    <3>6. QED
      BY <1>4, <3>4, <3>5 DEF Answered, Told, n
  <2>6. CallOK(d)
    BY <1>2, <1>4, <1>s, <1>10, <2>5 DEF CallOK, Answered, Stopped
  <2>7. QED
    BY <1>4, <2>6 DEF c, d
\* A clause raises at a tool event of the response, or an exception escapes.
<1>11. CASE c.session /\ c.result = "response" /\ stop.after # Len(em)
  <2>1. em = EmitResponse(c.parts) /\ Emission(em, c.parts)
    BY <1>6, <1>7, <1>11
  <2>2. stop.after \in 0 .. Len(em) /\ ev = SubSeq(em, 1, stop.after)
    BY <1>s DEF ev
  <2>3. Hits(ev, {"model", "error"}) = 0 /\ Hits(ev, {"tool"}) = stop.after
    BY <1>3, <1>11, <2>1, <2>2, JudgedEvents DEF n
  <2>r. d.result = "error" /\ Stopped(d) /\ (d.escaped \/ Hits(ev, {"tool"}) > 0)
    <3>1. CASE stop.why = "clause"
      <4>1. stop.after > 0
        BY <1>s, <3>1
      <4>2. d.raised /\ d.result = "error"
        BY <1>4, <3>1
      <4>3. QED
        BY <2>3, <4>1, <4>2 DEF Stopped
    <3>2. CASE stop.why = "escape"
      BY <1>4, <3>2 DEF Stopped
    <3>3. QED
      BY <1>s, <1>11, <3>1, <3>2
  <2>4. \A a \in Adapters : Answered(c, a)
    BY <1>4, <1>5, <1>11 DEF CallOK
  <2>5. CutOff(d, b)
    <3>1. b \in Adapters /\ Told(c, b)
      BY <1>2, <2>4 DEF Answered
    <3>2. /\ Logged(c, b, {"model", "error"}) \in Nat /\ Logged(c, b, {"tool"}) \in Nat
          /\ Logged(d, b, {"model", "error"}) = Logged(c, b, {"model", "error"}) + 0
          /\ Logged(d, b, {"tool"}) = Logged(c, b, {"tool"}) + Hits(ev, {"tool"})
          /\ Hits(ev, {"tool"}) \in Nat
          /\ Ran(c, b) \in Int /\ Ran(d, b) = Ran(c, b) + 1
      BY <1>9, <2>3, <3>1
    <3>3. Logged(c, b, {"model", "error"}) = Ran(c, b)
      BY <3>1 DEF Told
    <3>4. QED
      BY <2>3, <2>r, <3>2, <3>3 DEF CutOff
  <2>6. \A a \in Adapters \ {b} : Told(d, a)
    BY <1>9, <2>4 DEF Answered, Told
  <2>7. CallOK(d)
    BY <1>2, <1>4, <1>11, <2>r, <2>5, <2>6 DEF CallOK
  <2>8. QED
    BY <1>4, <2>7 DEF c, d
\* An error is told.
<1>12. CASE c.session /\ c.result = "error"
  <2>1. em = <<"error">>
    BY <1>6, <1>12 DEF EmitError
  <2>2. ev = <<"error">>
    <3>1. stop.after = 1
      <4>1. Len(em) = 1
        BY <2>1
      <4>2. QED
        BY <1>s, <1>12, <4>1
    <3>2. SubSeq(<<"error">>, 1, 1) = <<"error">>
      <4>1. <<"error">> \in Seq(EventNames) /\ Len(<<"error">>) = 1
        BY DEF EventNames
      <4>2. \A s \in Seq(EventNames) : Len(s) = 1 => SubSeq(s, 1, 1) = s
        OBVIOUS
      <4>3. QED
        BY <4>1, <4>2
    <3>3. QED
      BY <2>1, <3>1, <3>2 DEF ev
  <2>3. Hits(ev, {"model", "error"}) = 1
    <3>1. \A i \in DOMAIN ev : ev[i] \in {"model", "error"}
      BY <2>2
    <3>2. Len(ev) = 1
      BY <2>2
    <3>3. QED
      BY <1>4, <3>1, <3>2, AllHit
  <2>4. \A a \in Adapters : Told(c, a) => Told(d, a)
    BY <1>9, <2>3 DEF Told
  <2>5. \A a \in Adapters : CutOff(c, a) => CutOff(d, a)
    <3>1. c.escaped => d.escaped
      BY <1>4
    <3>2. ASSUME NEW a \in Adapters, CutOff(c, a)
          PROVE  /\ Logged(d, a, {"model", "error"}) = Ran(d, a) - 1
                 /\ Logged(c, a, {"tool"}) > 0 => Logged(d, a, {"tool"}) > 0
      BY <1>9, <2>3, <3>2 DEF CutOff
    <3>3. QED
      BY <3>1, <3>2 DEF CutOff
  <2>6. \/ \A a \in Adapters : Told(c, a)
        \/ Stopped(c) /\ \E x \in Adapters : CutOff(c, x) /\ \A a \in Adapters \ {x} : Told(c, a)
    BY <1>4, <1>5, <1>12 DEF CallOK
  <2>7. \/ \A a \in Adapters : Told(d, a)
        \/ Stopped(d) /\ \E x \in Adapters : CutOff(d, x) /\ \A a \in Adapters \ {x} : Told(d, a)
    BY <1>4, <2>4, <2>5, <2>6 DEF Stopped
  <2>8. CallOK(d)
    BY <1>2, <1>4, <1>12, <2>7 DEF CallOK
  <2>9. QED
    BY <1>4, <2>8 DEF c, d
<1>13. QED
  BY <1>2, <1>4, <1>5, <1>s, <1>8, <1>10, <1>11, <1>12 DEF CallOK

-----------------------------------------------------------------------------
LEMMA IdleOK == Idle \in Call /\ CallOK(Idle)
BY DEF Idle, Call, CallOK

LEMMA InitIInv == Init => IInv
<1> SUFFICES ASSUME Init
             PROVE  IInv
  OBVIOUS
<1>1. Idle \in Call /\ CallOK(Idle)
  BY IdleOK
<1>2. TypeOK
  BY <1>1, AdaptersAssumption DEF Init, TypeOK
<1>3. \A t \in Tasks : CallOK(task[t])
  BY <1>1 DEF Init
<1>4. QED
  BY <1>2, <1>3, InitStacked DEF IInv

\* A step of one task's call.
LEMMA CallIInv ==
  ASSUME IInv, NEW t \in Tasks, NEW d \in Call, CallOK(d),
         task' = [task EXCEPT ![t] = d], UNCHANGED <<sdk, patches>>
  PROVE  IInv'
<1>1. TypeOK'
  BY DEF IInv, TypeOK, patches
<1>2. Stacked'
  BY StackedUnchanged DEF IInv
<1>3. \A u \in Tasks : CallOK(task'[u])
  <2>1. ASSUME NEW u \in Tasks
        PROVE  CallOK(task'[u])
    <3>1. task'[u] = d \/ task'[u] = task[u]
      BY DEF IInv, TypeOK
    <3>2. QED
      BY <3>1 DEF IInv
  <2>2. QED
    BY <2>1
<1>4. QED
  BY <1>1, <1>2, <1>3 DEF IInv

LEMMA EnterIInv ==
  ASSUME IInv, NEW t \in Tasks, NEW a \in Adapters, Enter(t, a)
  PROVE  IInv'
<1>1. TypeOK'
  <2>1. method \in Seq(Adapters) => <<a>> \o method \in Seq(Adapters)
    OBVIOUS
  <2>2. \A s \in Seq(Adapters) : Append(s, a) \in Seq(Adapters)
    OBVIOUS
  <2>3. blocks' \in [Tasks -> Seq(Adapters)]
    BY <2>2 DEF IInv, TypeOK, Enter
  <2>4. method' \in Seq(Adapters) /\ original' \in [Adapters -> Seq(Adapters)] /\ patched' \in [Adapters -> BOOLEAN]
    BY <2>1 DEF IInv, TypeOK, Enter, Patch
  <2>5. QED
    BY <2>3, <2>4 DEF IInv, TypeOK, Enter
<1>2. Stacked'
  BY EnterStacked DEF IInv
<1>3. QED
  BY <1>1, <1>2 DEF IInv, Enter

LEMMA ExitIInv ==
  ASSUME IInv, NEW t \in Tasks, Exit(t)
  PROVE  IInv'
<1>1. TypeOK'
  <2>1. blocks[t] \in Seq(Adapters) /\ blocks[t] # <<>>
    BY DEF IInv, TypeOK, Exit
  <2>2. Front(blocks[t]) \in Seq(Adapters) /\ Last(blocks[t]) \in Adapters
    BY <2>1 DEF Front, Last
  <2>3. blocks' \in [Tasks -> Seq(Adapters)]
    BY <2>2 DEF IInv, TypeOK, Exit
  <2>4. method' \in Seq(Adapters) /\ original' \in [Adapters -> Seq(Adapters)] /\ patched' \in [Adapters -> BOOLEAN]
    BY <2>2 DEF IInv, TypeOK, Exit, Unpatch
  <2>5. QED
    BY <2>3, <2>4 DEF IInv, TypeOK, Exit
<1>2. Stacked'
  BY ExitStacked DEF IInv
<1>3. QED
  BY <1>1, <1>2 DEF IInv, Exit

\* A call starts with the wrappers of the blocks that are open.
LEMMA BeginIInv ==
  ASSUME IInv, NEW t \in Tasks, NEW session \in BOOLEAN, Begin(t, session)
  PROVE  IInv'
<1> DEFINE d == [Idle EXCEPT !.pc = "called", !.made = task[t].made + 1, !.session = session,
                   !.chain = method, !.due = IF tidy THEN Reverse(open) ELSE method]
<1>1. (IF tidy THEN Reverse(open) ELSE method) = method
  BY DEF IInv, Stacked, Tidy
<1>2. task[t].made \in Nat /\ method \in Seq(Adapters)
  BY DEF IInv, TypeOK, Call
<1>3. task' = [task EXCEPT ![t] = d] /\ UNCHANGED <<sdk, patches>>
  BY DEF Begin
<1>4. d.pc = "called" /\ d.log = <<>> /\ d.chain = method /\ d.due = method
  BY <1>1 DEF Idle
<1>5. d \in Call
  <2>1. (IF tidy THEN Reverse(open) ELSE method) \in Seq(Adapters)
    BY <1>1, <1>2
  <2>2. \A w \in Seq(Adapters) :
          [Idle EXCEPT !.pc = "called", !.made = task[t].made + 1, !.session = session,
             !.chain = method, !.due = w] \in Call
    <3> SUFFICES ASSUME NEW w \in Seq(Adapters)
                 PROVE  [Idle EXCEPT !.pc = "called", !.made = task[t].made + 1, !.session = session,
                           !.chain = method, !.due = w] \in Call
      OBVIOUS
    <3>1. task[t].made + 1 \in Nat
      BY <1>2
    <3>2. ASSUME NEW n \in Nat
          PROVE  [Idle EXCEPT !.pc = "called", !.made = n, !.session = session,
                    !.chain = method, !.due = w] \in Call
      BY <1>2, IdleOK DEF Call
    <3>3. QED
      BY <3>1, <3>2
  <2>3. QED
    BY <2>1, <2>2
<1> HIDE DEF d
<1>6. CallOK(d)
  BY <1>4 DEF CallOK
<1>7. QED
  BY <1>3, <1>5, <1>6, CallIInv

LEMMA PartsType ==
  ASSUME NEW parts \in SeqOf(Parts, MaxParts)
  PROVE  parts \in Seq(Parts)
<1>1. MaxParts \in Nat
  BY AdaptersAssumption
<1>2. PICK m \in 0 .. MaxParts : parts \in [1 .. m -> Parts]
  BY DEF SeqOf
<1>3. QED
  BY <1>1, <1>2

\* When the method has answered, no wrapper has run.
LEMMA AnswerIInv ==
  ASSUME IInv, NEW t \in Tasks, NEW result \in {"response", "error", "cancelled"},
         NEW parts \in SeqOf(Parts, MaxParts), Answer(t, result, parts)
  PROVE  IInv'
<1> DEFINE c == task[t]
           d == [c EXCEPT !.pc = "back", !.result = result, !.parts = parts]
<1>1. c \in Call /\ c.pc = "called" /\ CallOK(c) /\ parts \in Seq(Parts)
  BY PartsType DEF IInv, TypeOK, Answer
<1>2. task' = [task EXCEPT ![t] = d] /\ UNCHANGED <<sdk, patches>>
  BY DEF Answer, IInv, TypeOK
<1>3. c.log = <<>> /\ c.chain = c.due /\ c.due \in Seq(Adapters)
  BY <1>1 DEF CallOK, Call
<1>4. d \in Call
  BY <1>1 DEF Call
<1>5. /\ d.pc = "back" /\ d.log = <<>> /\ d.chain = d.due /\ d.result = result /\ d.parts = parts
      /\ d.due \in Seq(Adapters)
  BY <1>1, <1>3 DEF Call
<1> HIDE DEF d
<1>6. ASSUME NEW a \in Adapters
      PROVE  Answered(d, a) /\ Told(d, a)
  <2>1. Hits(d.due, {a}) \in Nat
    BY <1>5, HitsFinite
  <2>2. Ran(d, a) = 0
    BY <1>5, <2>1 DEF Ran
  <2>3. \A E : Logged(d, a, E) = 0
    BY <1>5, NoneHit DEF Logged
  <2>4. Len(ToolEvents(Before(d.parts))) \in Nat
    BY <1>1, <1>5, BeforePrefix, ToolsType
  <2>5. 0 * Len(ToolEvents(Before(d.parts))) = 0
    BY <2>4
  <2>6. QED
    BY <2>2, <2>3, <2>5 DEF Answered, Told
<1>7. CallOK(d)
  BY <1>5, <1>6 DEF CallOK
<1>8. QED
  BY <1>2, <1>4, <1>7, CallIInv

LEMMA WrapperIInv ==
  ASSUME IInv, NEW t \in Tasks, Wrapper(t)
  PROVE  IInv'
<1>1. /\ task' = [task EXCEPT ![t] = task'[t]]
      /\ task'[t] \in Call
      /\ CallOK(task'[t])
  BY WrapperCall DEF IInv
<1>2. UNCHANGED <<sdk, patches>>
  BY DEF Wrapper
<1>3. QED
  BY <1>1, <1>2, CallIInv

LEMMA ReturnIInv ==
  ASSUME IInv, NEW t \in Tasks, Return(t)
  PROVE  IInv'
<1> DEFINE d == [Idle EXCEPT !.made = task[t].made]
<1>1. task[t].made \in Nat
  BY DEF IInv, TypeOK, Call
<1>2. d \in Call /\ CallOK(d)
  <2>1. d \in Call
    BY <1>1, IdleOK DEF Call
  <2>2. d.pc = "idle"
    BY DEF Idle
  <2> HIDE DEF d
  <2>3. QED
    BY <2>1, <2>2 DEF CallOK
<1>3. task' = [task EXCEPT ![t] = d] /\ UNCHANGED <<sdk, patches>>
  BY DEF Return
<1>4. QED
  BY <1>2, <1>3, CallIInv

LEMMA StepIInv == IInv /\ [Next]_vars => IInv'
<1> SUFFICES ASSUME IInv, [Next]_vars
             PROVE  IInv'
  OBVIOUS
<1>1. CASE UNCHANGED vars
  <2>1. UNCHANGED <<sdk, patches, task>>
    BY <1>1 DEF vars
  <2>2. TypeOK' /\ Stacked'
    BY <2>1, StackedUnchanged DEF IInv, TypeOK, patches
  <2>3. QED
    BY <2>1, <2>2 DEF IInv
<1>2. CASE Next
  BY <1>2, EnterIInv, ExitIInv, BeginIInv, AnswerIInv, WrapperIInv, ReturnIInv DEF Next
<1>3. QED
  BY <1>1, <1>2

LEMMA AdaptersInvariant == Spec => []IInv
<1>1. IInv /\ [Next]_vars => IInv'
  BY StepIInv
<1>2. QED
  BY <1>1, InitIInv, PTL DEF Spec

-----------------------------------------------------------------------------
\* As long as no adapter is entered twice at once and blocks close in the reverse order of
\* their opening, over all tasks, the SDK's method runs through the adapters of the open
\* blocks and no others, however deep they are nested (__enter__ and __exit__ of the
\* adapters of openai, anthropic, gemini and litellm).
THEOREM AdaptersKeepStack == Spec => []StackKept
<1>1. IInv => StackKept
  BY DEF IInv, Stacked, Tidy, StackKept
<1>2. QED
  BY <1>1, AdaptersInvariant, PTL

\* When a call returns, every wrapper that it ran through has recorded it as it says: of a
\* response that reaches the caller all of them have recorded it and its tool calls, and at
\* most one, whose tool event a clause blocked, has not recorded a call at all, whatever
\* blocks other tasks opened and closed since (the patched methods and their _emit).
THEOREM AdaptersRecordCalls == Spec => []CallsRecorded
<1>1. ASSUME IInv
      PROVE  CallsRecorded
  <2> SUFFICES ASSUME NEW t \in Tasks, task[t].pc = "back", task[t].chain = <<>>
               PROVE
        LET call == task[t]
            Recorded(a, events) ==
              Cardinality({i \in DOMAIN call.log : call.log[i].by = a /\ call.log[i].event \in events})
            Due(a) == Cardinality({i \in DOMAIN call.due : call.due[i] = a})
            Missed(a) == Due(a) - Recorded(a, {"model", "error"})
            missed == {a \in Adapters : Missed(a) # 0}
        IN  CASE ~call.session \/ call.result = "cancelled" -> call.log = <<>>
              [] call.session /\ call.result = "response" ->
                   \A a \in Adapters :
                     /\ Recorded(a, {"model"}) = Due(a)
                     /\ Recorded(a, {"tool"}) >= Due(a) * Len(ToolEvents(Before(call.parts)))
              [] OTHER ->
                   /\ missed # {} => call.raised \/ call.escaped
                   /\ Cardinality(missed) <= 1
                   /\ \A a \in missed :
                        Missed(a) = 1 /\ (call.escaped \/ Recorded(a, {"tool"}) > 0)
    BY DEF CallsRecorded
  <2> DEFINE c == task[t]
             Recorded(a, events) ==
               Cardinality({i \in DOMAIN c.log : c.log[i].by = a /\ c.log[i].event \in events})
             Due(a) == Cardinality({i \in DOMAIN c.due : c.due[i] = a})
             Missed(a) == Due(a) - Recorded(a, {"model", "error"})
             missed == {a \in Adapters : Missed(a) # 0}
             Kept(a) == c.escaped \/ Recorded(a, {"tool"}) > 0
  <2>1. c \in Call /\ CallOK(c) /\ c.pc = "back" /\ c.chain = <<>>
    <3>1. task[t] \in Call
      BY <1>1 DEF IInv, TypeOK
    <3>2. CallOK(task[t])
      BY <1>1 DEF IInv
    <3>3. QED
      BY <3>1, <3>2
  <2>2. c.log \in Seq(Event) /\ c.due \in Seq(Adapters)
    BY <2>1 DEF Call
  <2>3. \A a, E : Recorded(a, E) = Logged(c, a, E)
    <3> SUFFICES ASSUME NEW a, NEW E
                 PROVE  Recorded(a, E) = Logged(c, a, E)
      OBVIOUS
    <3>1. {i \in DOMAIN c.log : c.log[i].by = a /\ c.log[i].event \in E}
            = {i \in DOMAIN c.log : c.log[i] \in Of(a, E)}
      BY <2>2 DEF Of
    <3>2. QED
      BY <3>1 DEF Logged, Hits
  <2>4. \A a \in Adapters : Ran(c, a) = Due(a) /\ Due(a) \in Nat
    <3> SUFFICES ASSUME NEW a \in Adapters
                 PROVE  Ran(c, a) = Due(a) /\ Due(a) \in Nat
      OBVIOUS
    <3>1. {i \in DOMAIN c.due : c.due[i] = a} = {i \in DOMAIN c.due : c.due[i] \in {a}}
      OBVIOUS
    <3>2. Due(a) = Hits(c.due, {a})
      BY <3>1 DEF Hits
    <3>3. Hits(c.due, {a}) \in Nat
      BY <2>2, HitsFinite
    <3>4. Hits(c.chain, {a}) = 0
      BY <2>1, NoneHit
    <3>5. QED
      BY <3>2, <3>3, <3>4 DEF Ran
  <2>5. \A a, E : Logged(c, a, E) \in Nat
    BY <2>2, HitsFinite DEF Logged
  <2> HIDE DEF c, Recorded, Due
  <2>6. CASE ~c.session \/ c.result = "cancelled"
    <3>1. c.log = <<>>
      BY <2>1, <2>6 DEF CallOK
    <3>2. QED
      BY <2>6, <3>1 DEF c
  <2>7. CASE c.session /\ c.result = "response"
    <3>1. ASSUME NEW a \in Adapters
          PROVE  /\ Recorded(a, {"model"}) = Due(a)
                 /\ Recorded(a, {"tool"}) >= Due(a) * Len(ToolEvents(Before(c.parts)))
      BY <2>1, <2>3, <2>4, <2>7 DEF CallOK, Answered
    <3>2. QED
      BY <2>7, <3>1 DEF c, Recorded, Due
  <2>8. CASE c.session /\ c.result = "error"
    <3>1. ASSUME NEW a \in Adapters
          PROVE  /\ Told(c, a) => Missed(a) = 0
                 /\ CutOff(c, a) => Missed(a) = 1 /\ Kept(a)
      BY <2>3, <2>4, <2>5 DEF Told, CutOff
    <3>2. \/ \A a \in Adapters : Told(c, a)
          \/ Stopped(c) /\ \E b \in Adapters : CutOff(c, b) /\ \A a \in Adapters \ {b} : Told(c, a)
      BY <2>1, <2>8 DEF CallOK
    <3>3. \/ missed = {}
          \/ Stopped(c) /\ \E b \in Adapters : missed = {b} /\ Missed(b) = 1 /\ Kept(b)
      <4>1. CASE \A a \in Adapters : Told(c, a)
        BY <3>1, <4>1
      <4>2. ASSUME Stopped(c), NEW b \in Adapters, CutOff(c, b), \A a \in Adapters \ {b} : Told(c, a)
            PROVE  missed = {b} /\ Missed(b) = 1 /\ Kept(b)
        <5>1. Missed(b) = 1 /\ Kept(b)
          BY <3>1, <4>2
        <5>2. \A a \in Adapters : a # b => Missed(a) = 0
          BY <3>1, <4>2
        <5> HIDE DEF Missed, Kept
        <5>3. QED
          BY <5>1, <5>2
      <4>3. QED
        BY <3>2, <4>1, <4>2
    <3> HIDE DEF missed, Missed, Kept
    <3>4. /\ missed # {} => Stopped(c)
          /\ Cardinality(missed) <= 1
          /\ \A a \in missed : Missed(a) = 1 /\ Kept(a)
      <4>1. CASE missed = {}
        BY <4>1, FS_EmptySet
      <4>2. CASE Stopped(c) /\ \E b \in Adapters : missed = {b} /\ Missed(b) = 1 /\ Kept(b)
        <5>1. PICK b \in Adapters : missed = {b} /\ Missed(b) = 1 /\ Kept(b)
          BY <4>2
        <5>2. Cardinality(missed) = 1
          BY <5>1, FS_Singleton
        <5>3. QED
          BY <4>2, <5>1, <5>2
      <4>3. QED
        BY <3>3, <4>1, <4>2
    <3>5. c.result # "response" /\ c.result # "cancelled"
      BY <2>8
    <3>6. QED
      BY <2>8, <3>4, <3>5 DEF c, missed, Missed, Recorded, Due, Kept, Stopped
  <2>9. QED
    BY <2>1, <2>6, <2>7, <2>8 DEF CallOK, c, Call
<1>2. QED
  BY <1>1, AdaptersInvariant, PTL

-----------------------------------------------------------------------------
(* The MCP adapter (MCPGuard).                                              *)

\* The annotations of one entry pass the policy.
Allowed(hints) ==
  IF policy = "strict" THEN "readonly" \in hints ELSE "destructive" \notin hints

\* The inductive strengthening of OnlySafeSent: the adapter's copy, and a listing that
\* is being read, hold only entries that the server had when they were sent.
EntriesOffered ==
  BlockDestructive => \A t \in Tools :
    /\ offered[t] # Absent /\ Allowed(offered[t]) => t \in safe
    /\ \A hints \in copy[t] : Allowed(hints) => t \in safe
    /\ \A c \in Calls : \A hints \in got[c][t] : Allowed(hints) => t \in safe

\* The inductive strengthening of FailureBlocks: as long as no list request followed
\* the invalidation, no listing can set _listed again.
StaleUntilAsked ==
  due => ~listed /\ \A c \in Calls : pc[c] \notin {"asking", "answered"}

McpIInv ==
  /\ McpTypeOK
  /\ EntriesOffered
  /\ OnlySafeSent
  /\ StaleUntilAsked

-----------------------------------------------------------------------------
(* The policy.                                                              *)

\* A name that passes has an entry that passes on its own.
LEMMA PassedByAnEntry ==
  ASSUME BlockDestructive, NEW t, NEW listing, ~Blocked(t, listing)
  PROVE  \E hints \in listing[t] : Allowed(hints)
BY DEF Blocked, Allowed

\* What the server offers and the policy allows is permitted.
LEMMA PermittedIfAllowed ==
  ASSUME NEW t \in Tools, offered[t] # Absent, Allowed(offered[t])
  PROVE  Permitted(t)
BY DEF Permitted, Blocked, Allowed

\* A call judged by entries the server once had is sent only for a safe tool.
LEMMA JudgedSafe ==
  ASSUME McpTypeOK, OnlySafeSent, NEW c \in Calls, NEW listing, Judge(c, listing),
         BlockDestructive =>
           \A t \in Tools : \A hints \in listing[t] : Allowed(hints) => t \in safe,
         tool' = tool, safe' = safe
  PROVE  OnlySafeSent'
<1> SUFFICES ASSUME BlockDestructive, NEW d \in Calls, pc'[d] \in {"sent", "done"}
             PROVE  tool[d] \in safe \cup {NoTool}
  BY DEF OnlySafeSent
<1>1. CASE d # c
  BY <1>1 DEF McpTypeOK, OnlySafeSent, Judge, Goto
<1>2. CASE d = c /\ tool[c] # NoTool
  <2>1. ~Blocked(tool[c], listing)
    BY <1>2 DEF McpTypeOK, Judge, Goto
  <2>2. tool[c] \in Tools
    BY <1>2 DEF McpTypeOK
  <2>3. QED
    BY <1>2, <2>1, <2>2, PassedByAnEntry
<1>3. QED
  BY <1>1, <1>2

\* Judging ends the call or sends it, and touches no other call.
LEMMA JudgedStage ==
  ASSUME McpTypeOK, NEW c \in Calls, NEW listing, Judge(c, listing)
  PROVE  /\ pc' \in [Calls -> Stages]
         /\ \A d \in Calls : d # c => pc'[d] = pc[d]
         /\ pc'[c] \in {"sent", "blocked", "done"}
BY DEF McpTypeOK, Judge, Goto, Stages

-----------------------------------------------------------------------------
LEMMA McpInitIInv == McpInit => McpIInv
<1> SUFFICES ASSUME McpInit PROVE McpIInv
  OBVIOUS
<1> USE McpAssumption DEF McpInit
<1>1. McpTypeOK
  <2>1. 1 \in 1 .. MaxPages /\ 0 \in 0 .. MaxChanges
    OBVIOUS
  <2>2. safe \subseteq Tools
    OBVIOUS
  <2>3. QED
    BY <2>1, <2>2 DEF McpTypeOK, Stages, Nothing
<1>2. EntriesOffered
  BY PermittedIfAllowed DEF EntriesOffered, Nothing
<1>3. OnlySafeSent
  BY DEF OnlySafeSent
<1>4. StaleUntilAsked
  BY DEF StaleUntilAsked
<1>5. QED
  BY <1>1, <1>2, <1>3, <1>4 DEF McpIInv

LEMMA CallDirectlyIInv ==
  ASSUME McpIInv, NEW c \in Calls, CallDirectly(c)
  PROVE  McpIInv'
<1> USE DEF McpIInv, CallDirectly, server, adapter, reading
<1>1. McpTypeOK'
  BY JudgedStage DEF McpTypeOK
<1>2. EntriesOffered'
  BY DEF McpTypeOK, EntriesOffered, Allowed
<1>3. OnlySafeSent'
  BY JudgedSafe DEF EntriesOffered
<1>4. StaleUntilAsked'
  BY JudgedStage DEF StaleUntilAsked
<1>5. QED
  BY <1>1, <1>2, <1>3, <1>4

LEMMA CallListingIInv ==
  ASSUME McpIInv, NEW c \in Calls, CallListing(c)
  PROVE  McpIInv'
<1> USE DEF McpIInv, CallListing, Goto, server, adapter, reading
<1>1. McpTypeOK'
  BY DEF McpTypeOK, Stages
<1>2. EntriesOffered'
  BY DEF McpTypeOK, EntriesOffered, Allowed
<1>3. OnlySafeSent'
  BY DEF McpTypeOK, OnlySafeSent
<1>4. StaleUntilAsked'
  BY DEF McpTypeOK, StaleUntilAsked
<1>5. QED
  BY <1>1, <1>2, <1>3, <1>4

LEMMA AnswerListingIInv ==
  ASSUME McpIInv, NEW c \in Calls, AnswerListing(c)
  PROVE  McpIInv'
<1> USE DEF McpIInv, AnswerListing, Goto, server, adapter
<1>1. McpTypeOK'
  BY DEF McpTypeOK, Stages
<1>2. EntriesOffered'
  BY DEF McpTypeOK, EntriesOffered, Allowed
<1>3. OnlySafeSent'
  BY DEF McpTypeOK, OnlySafeSent
<1>4. StaleUntilAsked'
  BY DEF McpTypeOK, StaleUntilAsked
<1>5. QED
  BY <1>1, <1>2, <1>3, <1>4

LEMMA NextPageIInv ==
  ASSUME McpIInv, NEW c \in Calls, NextPage(c)
  PROVE  McpIInv'
<1> USE DEF McpIInv, NextPage, Goto, server, adapter, NextCursor, LastPage
<1>1. McpTypeOK'
  <2>1. page[c] \in 1 .. MaxPages /\ page[c] # MaxPages /\ MaxPages \in Nat
    BY McpAssumption DEF McpTypeOK
  <2>2. page[c] + 1 \in 1 .. MaxPages
    BY ONLY <2>1
  <2>3. page' \in [Calls -> 1 .. MaxPages]
    BY <2>2 DEF McpTypeOK
  <2>4. QED
    BY <2>3 DEF McpTypeOK, Stages
<1>2. EntriesOffered'
  BY DEF McpTypeOK, EntriesOffered, Allowed
<1>3. OnlySafeSent'
  BY DEF McpTypeOK, OnlySafeSent
<1>4. StaleUntilAsked'
  BY DEF McpTypeOK, StaleUntilAsked
<1>5. QED
  BY <1>1, <1>2, <1>3, <1>4

LEMMA InstallIInv ==
  ASSUME McpIInv, NEW c \in Calls, Install(c)
  PROVE  McpIInv'
<1> USE DEF McpIInv, Install, EndListing, server
<1>1. McpTypeOK'
  <2>1. pc' \in [Calls -> Stages]
    BY JudgedStage
  <2>2. expired' \in BOOLEAN
    BY McpAssumption
  <2>3. 1 \in 1 .. MaxPages
    BY McpAssumption
  <2>4. /\ got' \in [Calls -> [Tools -> SUBSET Hints]]
        /\ page' \in [Calls -> 1 .. MaxPages]
        /\ more' \in [Calls -> BOOLEAN]
    BY <2>3 DEF McpTypeOK, Nothing
  <2>5. copy' \in [Tools -> SUBSET Hints]
    BY DEF McpTypeOK, Nothing
  <2>6. QED
    BY <2>1, <2>2, <2>4, <2>5 DEF McpTypeOK
<1>2. EntriesOffered'
  BY DEF McpTypeOK, EntriesOffered, Allowed, Nothing
<1>3. OnlySafeSent'
  BY JudgedSafe DEF EntriesOffered
<1>4. StaleUntilAsked'
  BY JudgedStage DEF StaleUntilAsked
<1>5. QED
  BY <1>1, <1>2, <1>3, <1>4

LEMMA FailIInv ==
  ASSUME McpIInv, NEW c \in Calls, Fail(c)
  PROVE  McpIInv'
<1> USE DEF McpIInv, Fail, EndListing, server
<1>1. McpTypeOK'
  <2>1. pc' \in [Calls -> Stages]
    BY JudgedStage
  <2>2. expired' \in BOOLEAN
    BY McpAssumption
  <2>3. 1 \in 1 .. MaxPages
    BY McpAssumption
  <2>4. /\ got' \in [Calls -> [Tools -> SUBSET Hints]]
        /\ page' \in [Calls -> 1 .. MaxPages]
        /\ more' \in [Calls -> BOOLEAN]
    BY <2>3 DEF McpTypeOK, Nothing
  <2>5. copy' \in [Tools -> SUBSET Hints]
    BY DEF McpTypeOK, Nothing
  <2>6. QED
    BY <2>1, <2>2, <2>4, <2>5 DEF McpTypeOK
<1>2. EntriesOffered'
  BY DEF McpTypeOK, EntriesOffered, Allowed, Nothing
<1>3. OnlySafeSent'
  BY JudgedSafe DEF Nothing
<1>4. StaleUntilAsked'
  BY JudgedStage DEF StaleUntilAsked
<1>5. QED
  BY <1>1, <1>2, <1>3, <1>4

LEMMA CancelIInv ==
  ASSUME McpIInv, NEW c \in Calls, Cancel(c)
  PROVE  McpIInv'
<1> USE DEF McpIInv, Cancel, Goto, EndListing, server, adapter
<1>1. McpTypeOK'
  BY McpAssumption DEF McpTypeOK, Stages, Nothing
<1>2. EntriesOffered'
  BY DEF McpTypeOK, EntriesOffered, Allowed, Nothing
<1>3. OnlySafeSent'
  BY DEF McpTypeOK, OnlySafeSent
<1>4. StaleUntilAsked'
  BY DEF McpTypeOK, StaleUntilAsked
<1>5. QED
  BY <1>1, <1>2, <1>3, <1>4

LEMMA ReturnResultIInv ==
  ASSUME McpIInv, NEW c \in Calls, ReturnResult(c)
  PROVE  McpIInv'
<1> USE DEF McpIInv, ReturnResult, Goto, server, adapter, reading
<1>1. McpTypeOK'
  BY DEF McpTypeOK, Stages
<1>2. EntriesOffered'
  BY DEF McpTypeOK, EntriesOffered, Allowed
<1>3. OnlySafeSent'
  BY DEF McpTypeOK, OnlySafeSent
<1>4. StaleUntilAsked'
  BY DEF McpTypeOK, StaleUntilAsked
<1>5. QED
  BY <1>1, <1>2, <1>3, <1>4

LEMMA ExpireIInv ==
  ASSUME McpIInv, Expire
  PROVE  McpIInv'
<1> USE DEF McpIInv, Expire, server, reading
<1>1. McpTypeOK'
  BY DEF McpTypeOK, Stages
<1>2. EntriesOffered'
  BY DEF McpTypeOK, EntriesOffered, Allowed
<1>3. OnlySafeSent'
  BY DEF McpTypeOK, OnlySafeSent
<1>4. StaleUntilAsked'
  BY DEF McpTypeOK, StaleUntilAsked
<1>5. QED
  BY <1>1, <1>2, <1>3, <1>4

LEMMA ChangeIInv ==
  ASSUME McpIInv, NEW t \in Tools, NEW hints \in Hints \cup {Absent}, Change(t, hints)
  PROVE  McpIInv'
<1> USE DEF McpIInv, Change, adapter, reading
<1>1. McpTypeOK'
  <2>1. changes \in Nat /\ changes < MaxChanges /\ changes' = changes + 1 /\ MaxChanges \in Nat
    BY McpAssumption DEF McpTypeOK
  <2>2. changes' \in 0 .. MaxChanges
    BY ONLY <2>1
  <2>3. safe' \subseteq Tools
    BY DEF McpTypeOK
  <2>4. QED
    BY <2>2, <2>3 DEF McpTypeOK
<1>2. EntriesOffered'
  <2>1. safe \subseteq safe' /\ UNCHANGED <<policy, copy, got>>
    OBVIOUS
  <2>2. ASSUME BlockDestructive, NEW u \in Tools, offered'[u] # Absent, Allowed(offered[u])'
        PROVE  u \in safe'
    <3>1. Permitted(u)'
      BY <2>2 DEF Permitted, Blocked, Allowed
    <3>2. QED
      BY <3>1
  <2>3. QED
    BY <2>1, <2>2 DEF EntriesOffered, Allowed
<1>3. OnlySafeSent'
  BY DEF McpTypeOK, OnlySafeSent
<1>4. StaleUntilAsked'
  BY DEF McpTypeOK, StaleUntilAsked
<1>5. QED
  BY <1>1, <1>2, <1>3, <1>4

LEMMA InvalidateIInv ==
  ASSUME McpIInv, Invalidate
  PROVE  McpIInv'
<1> USE DEF McpIInv, Invalidate, reading
<1>1. McpTypeOK'
  BY DEF McpTypeOK, Stages
<1>2. EntriesOffered'
  BY DEF McpTypeOK, EntriesOffered, Allowed
<1>3. OnlySafeSent'
  BY DEF McpTypeOK, OnlySafeSent
<1>4. StaleUntilAsked'
  BY DEF McpTypeOK, StaleUntilAsked
<1>5. QED
  BY <1>1, <1>2, <1>3, <1>4

LEMMA McpStepIInv == McpIInv /\ [McpNext]_mcpVars => McpIInv'
<1> SUFFICES ASSUME McpIInv, [McpNext]_mcpVars
             PROVE  McpIInv'
  OBVIOUS
<1>1. CASE \E c \in Calls : CallDirectly(c)
  BY <1>1, CallDirectlyIInv
<1>2. CASE \E c \in Calls : CallListing(c)
  BY <1>2, CallListingIInv
<1>3. CASE \E c \in Calls : AnswerListing(c)
  BY <1>3, AnswerListingIInv
<1>4. CASE \E c \in Calls : NextPage(c)
  BY <1>4, NextPageIInv
<1>5. CASE \E c \in Calls : Install(c)
  BY <1>5, InstallIInv
<1>6. CASE \E c \in Calls : Fail(c)
  BY <1>6, FailIInv
<1>7. CASE \E c \in Calls : ReturnResult(c)
  BY <1>7, ReturnResultIInv
<1>8. CASE \E c \in Calls : Cancel(c)
  BY <1>8, CancelIInv
<1>9. CASE \E t \in Tools, hints \in Hints \cup {Absent} : Change(t, hints)
  BY <1>9, ChangeIInv
<1>10. CASE Expire
  BY <1>10, ExpireIInv
<1>11. CASE Invalidate
  BY <1>11, InvalidateIInv
<1>12. CASE UNCHANGED mcpVars
  BY <1>12 DEF mcpVars, server, adapter, reading, McpIInv, McpTypeOK, EntriesOffered, Allowed,
               OnlySafeSent, StaleUntilAsked
<1>13. QED
  BY <1>1, <1>2, <1>3, <1>4, <1>5, <1>6, <1>7, <1>8, <1>9, <1>10, <1>11, <1>12 DEF McpNext

LEMMA McpInvariant == McpSpec => []McpIInv
<1>1. McpInit => McpIInv
  BY McpInitIInv
<1>2. McpIInv /\ [McpNext]_mcpVars => McpIInv'
  BY McpStepIInv
<1>3. QED
  BY <1>1, <1>2, PTL DEF McpSpec

-----------------------------------------------------------------------------
\* However listings, changes, failures and cancellations of any number of tasks cross
\* each other, under block_destructive a call goes out only for a tool that the server
\* has at some time offered as permitted (mcp.py:219-240, 275-293).
THEOREM McpOnlySafeSent == McpSpec => []OnlySafeSent
<1>1. McpIInv => OnlySafeSent
  BY DEF McpIInv
<1>2. QED
  BY <1>1, McpInvariant, PTL

\* After a listing failed nothing goes out until one succeeds, and after an invalidation
\* that met no listing under way no tool is judged before the server has been asked
\* again (mcp.py:162-217).
THEOREM McpFailureBlocks == McpSpec => FailureBlocks
<1> DEFINE Blocks ==
      /\ BlockDestructive =>
           \A c \in Calls : pc[c] # "sent" /\ pc'[c] = "sent" => ~listError'
      /\ \A c \in Calls : pc[c] = "idle" /\ pc'[c] \in {"sent", "blocked"} => ~due
<1>1. McpIInv /\ [McpNext]_mcpVars => [Blocks]_mcpVars
  <2> SUFFICES ASSUME McpIInv, McpNext
               PROVE  Blocks
    OBVIOUS
  <2> USE DEF McpIInv
  <2>1. ASSUME NEW c \in Calls, CallDirectly(c)
        PROVE  Blocks
    BY <2>1, JudgedStage DEF CallDirectly, IsStale, StaleUntilAsked, adapter
  <2>2. ASSUME NEW c \in Calls, Install(c)
        PROVE  Blocks
    BY <2>2, JudgedStage DEF Install
  <2>3. ASSUME NEW c \in Calls, Fail(c)
        PROVE  Blocks
    <3>1. BlockDestructive => pc'[c] # "sent"
      BY <2>3 DEF Fail, Judge, Goto, Blocked, Nothing, McpTypeOK
    <3>2. pc[c] # "idle" /\ \A d \in Calls : d # c => pc'[d] = pc[d]
      BY <2>3, JudgedStage DEF Fail
    <3>3. QED
      BY <3>1, <3>2
  <2>4. ASSUME NEW c \in Calls,
               CallListing(c) \/ AnswerListing(c) \/ NextPage(c) \/ ReturnResult(c) \/ Cancel(c)
        PROVE  Blocks
    BY <2>4 DEF CallListing, AnswerListing, NextPage, ReturnResult, Cancel, Goto, McpTypeOK
  <2>5. CASE \/ \E t \in Tools, hints \in Hints \cup {Absent} : Change(t, hints)
             \/ Expire
             \/ Invalidate
    BY <2>5 DEF Change, Expire, Invalidate
  <2>6. QED
    BY <2>1, <2>2, <2>3, <2>4, <2>5 DEF McpNext
<1>2. QED
  BY <1>1, McpInvariant, PTL DEF McpSpec, FailureBlocks
=============================================================================
