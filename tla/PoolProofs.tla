----------------------------- MODULE PoolProofs -----------------------------
(***************************************************************************)
(* No EventBuffer is leaked and none is in two places, whatever the wiring *)
(* of the manager and however many workers are at work: not even when the  *)
(* epochs are skipped for want of workers.                                 *)
(***************************************************************************)
EXTENDS FastLogProofs, SequencesExt, FiniteSetTheorems

-----------------------------------------------------------------------------
(***************************************************************************)
(* A general fact about handing items around: n items are kept in the      *)
(* sequences of a set H of holders, each item in exactly one place.  That  *)
(* survives the three ways BufferManager moves event buffers: a new item,  *)
(* the last item of one sequence appended to another, and one sequence     *)
(* emptied into another.                                                   *)
(***************************************************************************)
OnePlace(f, H, n) ==
  /\ f \in [ H -> Seq(1 .. n) ]
  /\ \A g, h \in H : \A i \in DOMAIN f[g], j \in DOMAIN f[h] :
       f[g][i] = f[h][j] => g = h /\ i = j
  /\ \A b \in 1 .. n : \E h \in H : \E i \in DOMAIN f[h] : f[h][i] = b

LEMMA OnePlaceIsFunction ==
  ASSUME NEW f, NEW H, NEW n, OnePlace(f, H, n)
  PROVE  f = [ h \in H |-> f[h] ]
BY DEF OnePlace

\* A new item at the end of the sequence of h.
LEMMA GrowKeepsOnePlace ==
  ASSUME NEW H, NEW n \in Nat, NEW f, OnePlace(f, H, n), NEW h \in H
  PROVE  OnePlace([ f EXCEPT ![h] = Append(@, n + 1) ], H, n + 1)
<1> DEFINE f1 == [ f EXCEPT ![h] = Append(@, n + 1) ]
           s  == f[h]
<1>0. \A x, y \in H : \A i \in DOMAIN f[x], j \in DOMAIN f[y] :
        f[x][i] = f[y][j] => x = y /\ i = j
  BY DEF OnePlace
<1>1. /\ f \in [ H -> Seq(1 .. n) ]
      /\ s \in Seq(1 .. n)
      /\ Len(s) \in Nat
  BY LenProperties DEF OnePlace
<1>2. \A g \in H : f[g] \in Seq(1 .. n + 1)
  BY <1>1, SeqMonotonic, 1 .. n \subseteq 1 .. n + 1
<1>3. /\ f1 \in [ H -> Seq(1 .. n + 1) ]
      /\ DOMAIN f1[h] = 1 .. Len(s) + 1
      /\ f1[h][Len(s) + 1] = n + 1
      /\ \A i \in 1 .. Len(s) : f1[h][i] = s[i]
      /\ \A g \in H \ {h} : f1[g] = f[g]
  BY <1>1, <1>2, AppendProperties
<1>4. \A g \in H : \A i \in DOMAIN f[g] : f[g][i] \in 1 .. n
  BY <1>1, ElementOfSeq, LenProperties
<1>5. DOMAIN s = 1 .. Len(s)
  BY <1>1, LenProperties
<1> HIDE DEF f1
<1>6. ASSUME NEW g \in H, NEW i \in DOMAIN f1[g]
      PROVE  \/ g = h /\ i = Len(s) + 1 /\ f1[g][i] = n + 1
             \/ i \in DOMAIN f[g] /\ f1[g][i] = f[g][i] /\ f1[g][i] \in 1 .. n
  <2>1. CASE g = h
    BY <1>1, <1>3, <1>4, <1>5, <2>1, SMTT(30)
  <2>2. CASE g # h
    BY <1>3, <1>4, <2>2
  <2>3. QED
    BY <2>1, <2>2
<1>7. ASSUME NEW g \in H, NEW k \in H
      PROVE  \A i \in DOMAIN f1[g], j \in DOMAIN f1[k] :
               f1[g][i] = f1[k][j] => g = k /\ i = j
  <2> TAKE i \in DOMAIN f1[g], j \in DOMAIN f1[k]
  <2> HAVE f1[g][i] = f1[k][j]
  <2>1. n + 1 \notin 1 .. n
    OBVIOUS
  <2>2. CASE f1[g][i] = n + 1
    <3>1. f1[g][i] \notin 1 .. n /\ f1[k][j] \notin 1 .. n
      BY <2>1, <2>2
    <3>2. /\ g = h /\ i = Len(s) + 1
          /\ k = h /\ j = Len(s) + 1
      BY <1>6, <3>1
    <3>3. QED
      BY <3>2
  <2>3. CASE f1[g][i] # n + 1
    <3>1. /\ i \in DOMAIN f[g] /\ f1[g][i] = f[g][i]
          /\ j \in DOMAIN f[k] /\ f1[k][j] = f[k][j]
      BY <1>6, <2>3
    <3>2. QED
      <4>1. f[g][i] = f[k][j]
        BY <3>1
      <4>2. QED
        BY <1>0, <3>1, <4>1
  <2>4. QED
    BY <2>2, <2>3
<1>8. ASSUME NEW b \in 1 .. n + 1
      PROVE  \E g \in H : \E i \in DOMAIN f1[g] : f1[g][i] = b
  <2>1. CASE b = n + 1
    BY <1>1, <1>3, <2>1, Len(s) + 1 \in 1 .. Len(s) + 1
  <2>2. CASE b \in 1 .. n
    <3>0. PICK g \in H : \E i \in DOMAIN f[g] : f[g][i] = b
      BY <2>2 DEF OnePlace
    <3>1. PICK i \in DOMAIN f[g] : f[g][i] = b
      BY <3>0
    <3>2. i \in DOMAIN f1[g] /\ f1[g][i] = b
      <4>1. CASE g = h
        <5>1. i \in 1 .. Len(s) /\ i \in 1 .. Len(s) + 1
          BY <1>1, <1>5, <3>1, <4>1
        <5>2. QED
          BY <1>3, <3>1, <4>1, <5>1
      <4>2. CASE g # h
        BY <1>3, <3>1, <4>2
      <4>3. QED
        BY <4>1, <4>2
    <3>3. QED
      BY <3>2
  <2>3. QED
    BY <2>1, <2>2
<1>9. QED
  BY <1>3, <1>7, <1>8 DEF OnePlace, f1

\* The last item of g goes to the end of the sequence of h.
LEMMA MoveLastKeepsOnePlace ==
  ASSUME NEW H, NEW n \in Nat, NEW f, OnePlace(f, H, n),
         NEW g \in H, NEW h \in H, g # h, f[g] # << >>
  PROVE  OnePlace([ f EXCEPT ![g] = Front(@), ![h] = Append(@, Last(f[g])) ], H, n)
<1> DEFINE f1 == [ f EXCEPT ![g] = Front(@), ![h] = Append(@, Last(f[g])) ]
           s  == f[g]
           r  == f[h]
<1>0. \A x, y \in H : \A i \in DOMAIN f[x], j \in DOMAIN f[y] :
        f[x][i] = f[y][j] => x = y /\ i = j
  BY DEF OnePlace
<1>1. /\ f \in [ H -> Seq(1 .. n) ]
      /\ s \in Seq(1 .. n) /\ r \in Seq(1 .. n)
      /\ Len(s) \in Nat \ {0} /\ Len(r) \in Nat
      /\ DOMAIN s = 1 .. Len(s) /\ DOMAIN r = 1 .. Len(r)
  BY EmptySeq, LenProperties DEF OnePlace
<1>2. /\ Last(s) = s[Len(s)]
      /\ Last(s) \in 1 .. n
  BY <1>1, ElementOfSeq DEF Last
<1>3. /\ Front(s) \in Seq(1 .. n)
      /\ DOMAIN Front(s) = 1 .. Len(s) - 1
      /\ \A i \in 1 .. Len(s) - 1 : Front(s)[i] = s[i]
  <2>1. /\ SubSeq(s, 1, Len(s) - 1) \in Seq(1 .. n)
        /\ Len(SubSeq(s, 1, Len(s) - 1)) = Len(s) - 1
        /\ \A i \in 1 .. Len(s) - 1 : SubSeq(s, 1, Len(s) - 1)[i] = s[i]
    BY <1>1, ElementOfSeq, SubSeqProperties
  <2>2. QED
    BY <2>1, LenProperties DEF Front
<1>4. /\ Append(r, Last(s)) \in Seq(1 .. n)
      /\ DOMAIN Append(r, Last(s)) = 1 .. Len(r) + 1
      /\ Append(r, Last(s))[Len(r) + 1] = Last(s)
      /\ \A i \in 1 .. Len(r) : Append(r, Last(s))[i] = r[i]
  BY <1>1, <1>2, AppendProperties, LenProperties
<1>5. /\ f1 \in [ H -> Seq(1 .. n) ]
      /\ f1[g] = Front(s)
      /\ f1[h] = Append(r, Last(s))
      /\ \A k \in H \ {g, h} : f1[k] = f[k]
  BY <1>1, <1>3, <1>4
<1> HIDE DEF f1
\* Every place of f1 comes from a place of f, and no two from the same.
<1>6. ASSUME NEW k \in H, NEW i \in DOMAIN f1[k]
      PROVE  \/ /\ k = h /\ i = Len(r) + 1
                /\ f1[k][i] = f[g][Len(s)] /\ Len(s) \in DOMAIN f[g]
             \/ /\ i \in DOMAIN f[k] /\ f1[k][i] = f[k][i]
                /\ ~(k = g /\ i = Len(s))
  <2>1. CASE k = g
    <3>1. i \in 1 .. Len(s) - 1 /\ f1[k][i] = s[i]
      BY <1>3, <1>5, <2>1
    <3>2. i \in 1 .. Len(s) /\ i # Len(s)
      BY <1>1, <3>1
    <3>3. QED
      BY <1>1, <2>1, <3>1, <3>2
  <2>2. CASE k = h
    BY <1>1, <1>2, <1>4, <1>5, <2>2
  <2>3. CASE k \notin {g, h}
    BY <1>5, <2>3
  <2>4. QED
    BY <2>1, <2>2, <2>3
<1>7. ASSUME NEW k \in H, NEW l \in H
      PROVE  \A i \in DOMAIN f1[k], j \in DOMAIN f1[l] :
               f1[k][i] = f1[l][j] => k = l /\ i = j
  <2> TAKE i \in DOMAIN f1[k], j \in DOMAIN f1[l]
  <2> HAVE f1[k][i] = f1[l][j]
  <2>1. CASE k = h /\ i = Len(r) + 1 /\ f1[k][i] = f[g][Len(s)] /\ Len(s) \in DOMAIN f[g]
    <3>1. CASE j \in DOMAIN f[l] /\ f1[l][j] = f[l][j] /\ ~(l = g /\ j = Len(s))
      <4>1. f[g][Len(s)] = f[l][j]
        BY <2>1, <3>1
      <4>2. g = l /\ Len(s) = j
        BY <1>0, <2>1, <3>1, <4>1
      <4>3. QED
        BY <3>1, <4>2
    <3>2. QED
      BY <1>6, <2>1, <3>1
  <2>2. CASE i \in DOMAIN f[k] /\ f1[k][i] = f[k][i] /\ ~(k = g /\ i = Len(s))
    <3>1. CASE l = h /\ j = Len(r) + 1 /\ f1[l][j] = f[g][Len(s)] /\ Len(s) \in DOMAIN f[g]
      <4>1. f[k][i] = f[g][Len(s)]
        BY <2>2, <3>1
      <4>2. k = g /\ i = Len(s)
        BY <1>0, <2>2, <3>1, <4>1
      <4>3. QED
        BY <2>2, <4>2
    <3>2. CASE j \in DOMAIN f[l] /\ f1[l][j] = f[l][j]
      <4>1. f[k][i] = f[l][j]
        BY <2>2, <3>2
      <4>2. QED
        BY <1>0, <2>2, <3>2, <4>1
    <3>3. QED
      BY <1>6, <3>1, <3>2
  <2>3. QED
    BY <1>6, <2>1, <2>2
<1>8. ASSUME NEW b \in 1 .. n
      PROVE  \E k \in H : \E i \in DOMAIN f1[k] : f1[k][i] = b
  <2>0. PICK k \in H : \E i \in DOMAIN f[k] : f[k][i] = b
    BY DEF OnePlace
  <2>1. PICK i \in DOMAIN f[k] : f[k][i] = b
    BY <2>0
  <2>2. CASE k = g /\ i = Len(s)
    <3>1. Len(r) + 1 \in DOMAIN f1[h] /\ f1[h][Len(r) + 1] = b
      BY <1>1, <1>2, <1>4, <1>5, <2>1, <2>2
    <3>2. QED
      BY <3>1
  <2>3. CASE ~(k = g /\ i = Len(s))
    <3>1. CASE k = g
      <4>1. i \in 1 .. Len(s) /\ i # Len(s)
        BY <1>1, <2>1, <2>3, <3>1
      <4>2. i \in 1 .. Len(s) - 1
        BY <1>1, <4>1
      <4>3. i \in DOMAIN f1[g] /\ f1[g][i] = b
        BY <1>3, <1>5, <2>1, <3>1, <4>2
      <4>4. QED
        BY <4>3
    <3>2. CASE k = h
      <4>1. i \in 1 .. Len(r) /\ i \in 1 .. Len(r) + 1
        BY <1>1, <2>1, <3>2
      <4>2. i \in DOMAIN f1[h] /\ f1[h][i] = b
        BY <1>4, <1>5, <2>1, <3>2, <4>1
      <4>3. QED
        BY <4>2
    <3>3. CASE k \notin {g, h}
      BY <1>5, <2>1, <3>3
    <3>4. QED
      BY <3>1, <3>2, <3>3
  <2>4. QED
    BY <2>2, <2>3
<1>9. QED
  BY <1>5, <1>7, <1>8 DEF OnePlace, f1

\* All items of g go to the end of the sequence of h.
LEMMA MoveAllKeepsOnePlace ==
  ASSUME NEW H, NEW n \in Nat, NEW f, OnePlace(f, H, n),
         NEW g \in H, NEW h \in H, g # h
  PROVE  OnePlace([ f EXCEPT ![g] = << >>, ![h] = @ \o f[g] ], H, n)
<1> DEFINE f1 == [ f EXCEPT ![g] = << >>, ![h] = @ \o f[g] ]
           s  == f[g]
           r  == f[h]
<1>0. \A x, y \in H : \A i \in DOMAIN f[x], j \in DOMAIN f[y] :
        f[x][i] = f[y][j] => x = y /\ i = j
  BY DEF OnePlace
<1>1. /\ f \in [ H -> Seq(1 .. n) ]
      /\ s \in Seq(1 .. n) /\ r \in Seq(1 .. n)
      /\ Len(s) \in Nat /\ Len(r) \in Nat
      /\ DOMAIN s = 1 .. Len(s) /\ DOMAIN r = 1 .. Len(r)
  BY LenProperties DEF OnePlace
<1>2. /\ r \o s \in Seq(1 .. n)
      /\ DOMAIN (r \o s) = 1 .. Len(r) + Len(s)
      /\ \A i \in 1 .. Len(r) + Len(s) :
           (r \o s)[i] = IF i <= Len(r) THEN r[i] ELSE s[i - Len(r)]
  BY <1>1, ConcatProperties, LenProperties
<1>3. /\ f1 \in [ H -> Seq(1 .. n) ]
      /\ f1[g] = << >>
      /\ f1[h] = r \o s
      /\ \A k \in H \ {g, h} : f1[k] = f[k]
  BY <1>1, <1>2, EmptySeq
<1>4. DOMAIN f1[g] = {}
  BY <1>3
<1> HIDE DEF f1
<1>5. ASSUME NEW k \in H, NEW i \in DOMAIN f1[k]
      PROVE  \/ /\ k = h /\ i \in Int /\ i - Len(r) \in DOMAIN f[g]
                /\ f1[k][i] = f[g][i - Len(r)]
             \/ /\ k # g /\ i \in DOMAIN f[k] /\ f1[k][i] = f[k][i]
  <2>1. CASE k = h
    <3>1. i \in 1 .. Len(r) + Len(s) /\ f1[k][i] = (r \o s)[i]
      BY <1>2, <1>3, <2>1
    <3>2. CASE i <= Len(r)
      BY <1>1, <1>2, <2>1, <3>1, <3>2
    <3>3. CASE i > Len(r)
      <4>1. i - Len(r) \in 1 .. Len(s)
        BY <1>1, <3>1, <3>3
      <4>2. QED
        BY <1>1, <1>2, <2>1, <3>1, <3>3, <4>1
    <3>4. QED
      BY <1>1, <3>1, <3>2, <3>3
  <2>2. CASE k # h
    BY <1>3, <1>4, <2>2
  <2>3. QED
    BY <2>1, <2>2
<1>6. ASSUME NEW k \in H, NEW l \in H
      PROVE  \A i \in DOMAIN f1[k], j \in DOMAIN f1[l] :
               f1[k][i] = f1[l][j] => k = l /\ i = j
  <2> TAKE i \in DOMAIN f1[k], j \in DOMAIN f1[l]
  <2> HAVE f1[k][i] = f1[l][j]
  <2>1. CASE /\ k = h /\ i \in Int /\ i - Len(r) \in DOMAIN f[g]
             /\ f1[k][i] = f[g][i - Len(r)]
    <3>1. /\ l = h /\ j \in Int /\ j - Len(r) \in DOMAIN f[g]
          /\ f1[l][j] = f[g][j - Len(r)]
      <4>1. ASSUME l # g, j \in DOMAIN f[l], f1[l][j] = f[l][j]
            PROVE  FALSE
        <5>1. f[l][j] = f[g][i - Len(r)]
          BY <2>1, <4>1
        <5>2. QED
          BY <1>0, <2>1, <4>1, <5>1
      <4>2. QED
        BY <1>5, <4>1
    <3>2. i - Len(r) = j - Len(r)
      <4>1. f[g][i - Len(r)] = f[g][j - Len(r)]
        BY <2>1, <3>1
      <4>2. QED
        BY <1>0, <2>1, <3>1, <4>1
    <3>3. QED
      BY <1>1, <2>1, <3>1, <3>2
  <2>2. CASE k # g /\ i \in DOMAIN f[k] /\ f1[k][i] = f[k][i]
    <3>1. CASE /\ l = h /\ j \in Int /\ j - Len(r) \in DOMAIN f[g]
               /\ f1[l][j] = f[g][j - Len(r)]
      <4>1. f[k][i] = f[g][j - Len(r)]
        BY <2>2, <3>1
      <4>2. k = g
        BY <1>0, <2>2, <3>1, <4>1
      <4>3. QED
        BY <2>2, <4>2
    <3>2. CASE j \in DOMAIN f[l] /\ f1[l][j] = f[l][j]
      <4>1. f[k][i] = f[l][j]
        BY <2>2, <3>2
      <4>2. QED
        BY <1>0, <2>2, <3>2, <4>1
    <3>3. QED
      BY <1>5, <3>1, <3>2
  <2>3. QED
    BY <1>5, <2>1, <2>2
<1>7. ASSUME NEW b \in 1 .. n
      PROVE  \E k \in H : \E i \in DOMAIN f1[k] : f1[k][i] = b
  <2>0. PICK k \in H : \E i \in DOMAIN f[k] : f[k][i] = b
    BY DEF OnePlace
  <2>1. PICK i \in DOMAIN f[k] : f[k][i] = b
    BY <2>0
  <2>2. CASE k = g
    <3>1. PICK q \in 1 .. Len(r) + Len(s) : ~(q <= Len(r)) /\ q - Len(r) = i
      <4>1. /\ Len(r) + i \in 1 .. Len(r) + Len(s)
            /\ ~(Len(r) + i <= Len(r))
            /\ (Len(r) + i) - Len(r) = i
        BY <1>1, <2>1, <2>2
      <4>2. QED
        BY <4>1
    <3>2. (r \o s)[q] = s[i]
      BY <1>2, <3>1
    <3>3. q \in DOMAIN f1[h] /\ f1[h][q] = b
      BY <1>2, <1>3, <2>1, <2>2, <3>2
    <3>4. QED
      BY <3>3
  <2>3. CASE k = h
    <3>1. i \in 1 .. Len(r) + Len(s) /\ i <= Len(r)
      BY <1>1, <2>1, <2>3
    <3>2. QED
      BY <1>2, <1>3, <2>1, <2>3, <3>1
  <2>4. CASE k \notin {g, h}
    BY <1>3, <2>1, <2>4
  <2>5. QED
    BY <2>2, <2>3, <2>4
<1>8. QED
  BY <1>3, <1>6, <1>7 DEF OnePlace, f1

\* Counted: the places of an item are one.
LEMMA OnePlaceCounts ==
  ASSUME NEW H, NEW n \in Nat, NEW f, OnePlace(f, H, n), NEW b \in 1 .. n
  PROVE  Cardinality(UNION { {h} \X { i \in DOMAIN f[h] : f[h][i] = b } : h \in H }) = 1
<1> DEFINE P == UNION { {h} \X { i \in DOMAIN f[h] : f[h][i] = b } : h \in H }
<1>0. PICK h \in H : \E i \in DOMAIN f[h] : f[h][i] = b
  BY DEF OnePlace
<1>1. PICK i \in DOMAIN f[h] : f[h][i] = b
  BY <1>0
<1>2. <<h, i>> \in P
  BY <1>1
<1>3. ASSUME NEW p \in P
      PROVE  p = <<h, i>>
  <2>1. PICK g \in H : p \in {g} \X { j \in DOMAIN f[g] : f[g][j] = b }
    OBVIOUS
  <2>2. PICK j \in DOMAIN f[g] : f[g][j] = b /\ p = <<g, j>>
    BY <2>1
  <2>3. QED
    BY <1>1, <2>2 DEF OnePlace
<1>4. P = {<<h, i>>}
  BY <1>2, <1>3
<1>5. QED
  BY <1>4, FS_Singleton

-----------------------------------------------------------------------------
(***************************************************************************)
(* The pools, epochs and workers are such holders.                         *)
(***************************************************************************)

USE DEF vars, bufferVars, contextVars, managerVars, workerVars, threadVars

Owning == {"wait", "count", "lost"}

Pool == [ h \in Holders |-> BufsOf(h) ]

PoolInv ==
  /\ OnePlace(Pool, Holders, heap)
  /\ \A w \in Workers : w > spawned => worker[w].pc = "none"
  /\ \A w \in Workers : worker[w].pc # "none" => worker[w].manager \in Managers

\* The sequence of each holder.
LEMMA PoolAt ==
  /\ \A m \in Managers :
       /\ <<"free", m>> \in Holders      /\ Pool[<<"free", m>>]      = freeBufs[m]
       /\ <<"allocated", m>> \in Holders /\ Pool[<<"allocated", m>>] = allocatedBufs[m]
  /\ \A w \in Workers :
       /\ <<"worker", w>> \in Holders
       /\ worker[w].pc \in Owning    => Pool[<<"worker", w>>] = worker[w].buffers
       /\ worker[w].pc \notin Owning => Pool[<<"worker", w>>] = << >>
<1>1. \A m \in Managers : /\ <<"free", m>> \in Holders
                          /\ <<"allocated", m>> \in Holders
  BY DEF Holders
<1>2. \A w \in Workers : <<"worker", w>> \in Holders
  BY DEF Holders
<1>3. ASSUME NEW m \in Managers
      PROVE  /\ BufsOf(<<"free", m>>)      = freeBufs[m]
             /\ BufsOf(<<"allocated", m>>) = allocatedBufs[m]
  BY DEF BufsOf
<1>4. ASSUME NEW w \in Workers
      PROVE  /\ worker[w].pc \in Owning    => BufsOf(<<"worker", w>>) = worker[w].buffers
             /\ worker[w].pc \notin Owning => BufsOf(<<"worker", w>>) = << >>
  BY DEF BufsOf, Owning
<1>5. QED
  BY <1>1, <1>2, <1>3, <1>4 DEF Pool

LEMMA HolderCases ==
  ASSUME NEW h \in Holders
  PROVE  \/ \E m \in Managers : h = <<"free", m>>
         \/ \E m \in Managers : h = <<"allocated", m>>
         \/ \E w \in Workers : h = <<"worker", w>>
BY DEF Holders

\* The same after a step, with the primed variables spelled out.
LEMMA PoolAtNext ==
  /\ DOMAIN Pool' = Holders
  /\ \A m \in Managers :
       /\ Pool'[<<"free", m>>]      = freeBufs'[m]
       /\ Pool'[<<"allocated", m>>] = allocatedBufs'[m]
  /\ \A w \in Workers :
       /\ worker'[w].pc \in Owning    => Pool'[<<"worker", w>>] = worker'[w].buffers
       /\ worker'[w].pc \notin Owning => Pool'[<<"worker", w>>] = << >>
<1>1. ASSUME NEW m \in Managers
      PROVE  /\ <<"free", m>> \in Holders /\ <<"allocated", m>> \in Holders
             /\ BufsOf(<<"free", m>>)'      = freeBufs'[m]
             /\ BufsOf(<<"allocated", m>>)' = allocatedBufs'[m]
  BY DEF BufsOf, Holders
<1>2. ASSUME NEW w \in Workers
      PROVE  /\ <<"worker", w>> \in Holders
             /\ worker'[w].pc \in Owning    => BufsOf(<<"worker", w>>)' = worker'[w].buffers
             /\ worker'[w].pc \notin Owning => BufsOf(<<"worker", w>>)' = << >>
  BY DEF BufsOf, Owning, Holders
<1>3. QED
  BY <1>1, <1>2 DEF Pool

LEMMA PoolInit == Init => PoolInv
<1> SUFFICES ASSUME Init PROVE PoolInv
  OBVIOUS
<1> USE DEF Init, BufferManagerInit, WorkerInit
<1>1. \A w \in Workers : worker[w].pc = "none"
  BY DEF IdleWorker
<1>2. \A h \in Holders : Pool[h] = << >>
  <2>1. \A w \in Workers : Pool[<<"worker", w>>] = << >>
    BY <1>1, PoolAt DEF Owning
  <2>2. \A m \in Managers : /\ Pool[<<"free", m>>] = << >>
                            /\ Pool[<<"allocated", m>>] = << >>
    BY PoolAt
  <2>3. QED
    BY <2>1, <2>2, HolderCases
<1>3. OnePlace(Pool, Holders, heap)
  <2>1. Pool \in [ Holders -> Seq(1 .. 0) ]
    BY <1>2, EmptySeq DEF Pool
  <2>2. \A h \in Holders : DOMAIN Pool[h] = {}
    BY <1>2
  <2>3. QED
    BY <2>1, <2>2 DEF OnePlace
<1>4. QED
  BY <1>1, <1>3 DEF PoolInv

-----------------------------------------------------------------------------
\* The steps that move buffers.

LEMMA PoolIs ==
  ASSUME NEW F, F = [ h \in Holders |-> F[h] ],
         \A m \in Managers : /\ freeBufs'[m]      = F[<<"free", m>>]
                             /\ allocatedBufs'[m] = F[<<"allocated", m>>],
         \A w \in Workers :
           /\ worker'[w].pc \in Owning    => worker'[w].buffers = F[<<"worker", w>>]
           /\ worker'[w].pc \notin Owning => F[<<"worker", w>>] = << >>
  PROVE  Pool' = F
<1>1. ASSUME NEW h \in Holders
      PROVE  Pool'[h] = F[h]
  <2>1. CASE \E m \in Managers : h = <<"free", m>>
    BY <2>1, PoolAtNext, ZenonT(60)
  <2>2. CASE \E m \in Managers : h = <<"allocated", m>>
    BY <2>2, PoolAtNext, ZenonT(60)
  <2>3. CASE \E w \in Workers : h = <<"worker", w>>
    BY <2>3, PoolAtNext
  <2>4. QED
    BY <2>1, <2>2, <2>3, HolderCases
<1>2. Pool' = [ h \in Holders |-> Pool'[h] ]
  BY DEF Pool, Holders
<1>3. QED
  BY <1>1, <1>2

LEMMA PoolStays ==
  ASSUME PoolInv,
         UNCHANGED <<heap, freeBufs, allocatedBufs, spawned>>,
         \A w \in Workers : /\ worker'[w].buffers = worker[w].buffers
                            /\ worker'[w].manager = worker[w].manager
                            /\ worker'[w].pc \in Owning <=> worker[w].pc \in Owning
                            /\ worker'[w].pc = "none" <=> worker[w].pc = "none"
  PROVE  PoolInv'
<1>1. Pool = [ h \in Holders |-> Pool[h] ]
  BY DEF Pool
<1>2. Pool' = Pool
  BY <1>1, PoolAt, PoolIs, SMTT(30)
<1>3. OnePlace(Pool', Holders, heap')
  BY <1>2 DEF PoolInv
<1>4. QED
  BY <1>3 DEF PoolInv, Holders, Managers

LEMMA PoolAlloc ==
  ASSUME TypeInv, PoolInv, NEW t \in Threads, NEW buf \in Buffers,
         AllocBuffer(t, buf), UNCHANGED workerVars
  PROVE  PoolInv'
<1> DEFINE m == ManagerOf(t)
           from == <<"free", m>>
           to   == <<"allocated", m>>
<1>1. /\ m \in Managers
      /\ from \in Holders /\ to \in Holders /\ from # to
      /\ Pool[from] = freeBufs[m] /\ Pool[to] = allocatedBufs[m]
  BY ManagerOfType, PoolAt
<1>2. heap \in Nat /\ freeBufs \in [ Managers -> Seq(Buffers) ]
      /\ allocatedBufs \in [ Managers -> Seq(Buffers) ]
  BY BufferManagerAssumption DEF TypeInv, TypeOK
<1>3. CASE /\ freeBufs[m] # << >>
           /\ buf = Last(freeBufs[m])
           /\ TakeBuffer(t, buf, TRUE)
  <2> DEFINE F == [ Pool EXCEPT ![from] = Front(@), ![to] = Append(@, Last(Pool[from])) ]
  <2>1. OnePlace(F, Holders, heap)
    BY <1>1, <1>2, <1>3, MoveLastKeepsOnePlace DEF PoolInv
  <2>2. Pool' = F
    <3>1. F = [ h \in Holders |-> F[h] ]
      BY <2>1, OnePlaceIsFunction
    <3>2. /\ freeBufs'      = [ freeBufs EXCEPT ![m] = Front(@) ]
          /\ allocatedBufs' = [ allocatedBufs EXCEPT ![m] = Append(@, buf) ]
          /\ worker'        = worker
      BY <1>3 DEF TakeBuffer
    <3>3. \A n \in Managers : /\ freeBufs'[n]      = F[<<"free", n>>]
                              /\ allocatedBufs'[n] = F[<<"allocated", n>>]
      BY <1>1, <1>2, <1>3, <3>2, PoolAt DEF Pool
    <3>4. \A w \in Workers : F[<<"worker", w>>] = Pool[<<"worker", w>>]
      BY <1>1, PoolAt DEF Pool
    <3> HIDE DEF F
    <3>5. QED
      BY <3>1, <3>2, <3>3, <3>4, PoolAt, PoolIs, SMTT(30)
  <2>3. heap' = heap
    BY <1>3 DEF TakeBuffer
  <2> HIDE DEF F
  <2>4. QED
    BY <2>1, <2>2, <2>3 DEF PoolInv, Holders, Managers
<1>4. CASE /\ freeBufs[m] = << >>
           /\ buf = heap + 1
           /\ TakeBuffer(t, buf, FALSE)
  <2> DEFINE F == [ Pool EXCEPT ![to] = Append(@, heap + 1) ]
  <2>1. OnePlace(F, Holders, heap + 1)
    BY <1>1, <1>2, GrowKeepsOnePlace DEF PoolInv
  <2>2. Pool' = F
    <3>1. F = [ h \in Holders |-> F[h] ]
      BY <2>1, OnePlaceIsFunction
    <3>2. /\ freeBufs'      = freeBufs
          /\ allocatedBufs' = [ allocatedBufs EXCEPT ![m] = Append(@, buf) ]
          /\ worker'        = worker
      BY <1>4 DEF TakeBuffer
    <3>3. \A n \in Managers : /\ freeBufs'[n]      = F[<<"free", n>>]
                              /\ allocatedBufs'[n] = F[<<"allocated", n>>]
      BY <1>1, <1>2, <1>4, <3>2, PoolAt DEF Pool
    <3>4. \A w \in Workers : F[<<"worker", w>>] = Pool[<<"worker", w>>]
      BY <1>1, PoolAt DEF Pool
    <3> HIDE DEF F
    <3>5. QED
      BY <3>1, <3>2, <3>3, <3>4, PoolAt, PoolIs, SMTT(30)
  <2>3. heap' = heap + 1
    BY <1>4 DEF TakeBuffer
  <2> HIDE DEF F
  <2>4. QED
    BY <2>1, <2>2, <2>3 DEF PoolInv, Holders, Managers
<1>5. QED
  BY <1>3, <1>4 DEF AllocBuffer

\* A worker gets the buffers of the epoch.
LEMMA PoolHandOver ==
  ASSUME TypeInv, PoolInv, NEW t \in Threads, HandOver(t), Spawn(ManagerOf(t)),
         UNCHANGED heap
  PROVE  PoolInv'
<1> DEFINE m == ManagerOf(t)
           new  == spawned + 1
           from == <<"allocated", m>>
           to   == <<"worker", new>>
           F    == [ Pool EXCEPT ![from] = << >>, ![to] = @ \o Pool[from] ]
<1>1. /\ m \in Managers
      /\ new \in Workers
      /\ worker \in [ Workers -> WorkerType ]
      /\ allocatedBufs \in [ Managers -> Seq(Buffers) ]
      /\ heap \in Nat
  BY ManagerOfType, WorkerAssumption, BufferManagerAssumption
     DEF Spawn, Workers, TypeInv, TypeOK
<1>2. worker[new].pc = "none"
  <2>1. new > spawned
    BY WorkerAssumption DEF TypeInv, TypeOK
  <2>2. QED
    BY <1>1, <2>1 DEF PoolInv
<1>3. /\ from \in Holders /\ to \in Holders /\ from # to
      /\ Pool[from] = allocatedBufs[m] /\ Pool[to] = << >>
  BY <1>1, <1>2, PoolAt DEF Owning
<1>4. OnePlace(F, Holders, heap)
  BY <1>1, <1>3, MoveAllKeepsOnePlace DEF PoolInv
<1>5. /\ freeBufs' = freeBufs
      /\ allocatedBufs' = [ allocatedBufs EXCEPT ![m] = << >> ]
      /\ spawned' = new
      /\ worker' = [ worker EXCEPT ![new] = [ IdleWorker EXCEPT
                       !.pc = "wait", !.manager = m, !.buffers = allocatedBufs[m] ] ]
  BY DEF HandOver, EndEpoch, Spawn
<1>6. /\ worker'[new].pc = "wait"
      /\ worker'[new].manager = m
      /\ worker'[new].buffers = allocatedBufs[m]
      /\ \A w \in Workers \ {new} : worker'[w] = worker[w]
  BY <1>1, <1>5 DEF IdleWorker
<1>7. Pool' = F
  <2>1. F = [ h \in Holders |-> F[h] ]
    BY <1>4, OnePlaceIsFunction
  <2>2. \A n \in Managers : /\ freeBufs'[n]      = F[<<"free", n>>]
                            /\ allocatedBufs'[n] = F[<<"allocated", n>>]
    BY <1>1, <1>3, <1>5, PoolAt DEF Pool
  <2>3. F[to] = allocatedBufs[m]
    BY <1>1, <1>3, ConcatEmptySeq DEF Pool
  <2>4. \A w \in Workers \ {new} : F[<<"worker", w>>] = Pool[<<"worker", w>>]
    BY <1>3, PoolAt DEF Pool
  <2> HIDE DEF F
  <2>5. \A w \in Workers :
          /\ worker'[w].pc \in Owning    => worker'[w].buffers = F[<<"worker", w>>]
          /\ worker'[w].pc \notin Owning => F[<<"worker", w>>] = << >>
    <3>1. "wait" \in Owning
      BY DEF Owning
    <3>2. QED
      BY <1>6, <2>3, <2>4, <3>1, PoolAt, ZenonT(60)
  <2>6. QED
    BY <2>1, <2>2, <2>5, PoolIs
<1> HIDE DEF F
<1>8. /\ \A w \in Workers : w > spawned' => worker'[w].pc = "none"
      /\ \A w \in Workers : worker'[w].pc # "none" => worker'[w].manager \in Managers
  <2>1. \A w \in Workers : w > new => w > spawned /\ w # new
    BY WorkerAssumption DEF Workers, TypeInv, TypeOK
  <2>2. QED
    BY <1>1, <1>5, <1>6, <2>1 DEF PoolInv
<1>9. QED
  BY <1>4, <1>7, <1>8 DEF PoolInv, Holders, Managers

\* The buffers of the epoch go back to the pool.
LEMMA PoolSkip ==
  ASSUME TypeInv, PoolInv, NEW t \in Threads, SkipEpoch(t),
         UNCHANGED <<heap, workerVars>>
  PROVE  PoolInv'
<1> DEFINE m == ManagerOf(t)
           from == <<"allocated", m>>
           to   == <<"free", m>>
           F    == [ Pool EXCEPT ![from] = << >>, ![to] = @ \o Pool[from] ]
<1>1. /\ m \in Managers
      /\ freeBufs \in [ Managers -> Seq(Buffers) ]
      /\ allocatedBufs \in [ Managers -> Seq(Buffers) ]
      /\ heap \in Nat
  BY ManagerOfType, BufferManagerAssumption DEF TypeInv, TypeOK
<1>2. /\ from \in Holders /\ to \in Holders /\ from # to
      /\ Pool[from] = allocatedBufs[m] /\ Pool[to] = freeBufs[m]
  BY <1>1, PoolAt
<1>3. OnePlace(F, Holders, heap)
  BY <1>1, <1>2, MoveAllKeepsOnePlace DEF PoolInv
<1>4. /\ freeBufs'      = [ freeBufs EXCEPT ![m] = @ \o allocatedBufs[m] ]
      /\ allocatedBufs' = [ allocatedBufs EXCEPT ![m] = << >> ]
      /\ worker' = worker /\ spawned' = spawned /\ heap' = heap
  BY DEF SkipEpoch, EndEpoch
<1>5. Pool' = F
  <2>1. F = [ h \in Holders |-> F[h] ]
    BY <1>3, OnePlaceIsFunction
  <2>2. \A n \in Managers : /\ freeBufs'[n]      = F[<<"free", n>>]
                            /\ allocatedBufs'[n] = F[<<"allocated", n>>]
    BY <1>1, <1>2, <1>4, PoolAt DEF Pool
  <2>3. \A w \in Workers : F[<<"worker", w>>] = Pool[<<"worker", w>>]
    BY <1>2, PoolAt DEF Pool
  <2> HIDE DEF F
  <2>4. \A w \in Workers :
          /\ worker'[w].pc \in Owning    => worker'[w].buffers = F[<<"worker", w>>]
          /\ worker'[w].pc \notin Owning => F[<<"worker", w>>] = << >>
    BY <1>4, <2>3, PoolAt
  <2>5. QED
    BY <2>1, <2>2, <2>4, PoolIs
<1> HIDE DEF F
<1>6. QED
  BY <1>3, <1>4, <1>5 DEF PoolInv, Holders, Managers

\* A worker returns its buffers.
LEMMA PoolReturn ==
  ASSUME TypeInv, PoolInv, NEW w \in Workers, ReturnBuffers(w)
  PROVE  PoolInv'
<1> DEFINE m == worker[w].manager
           from == <<"worker", w>>
           to   == <<"free", m>>
           F    == [ Pool EXCEPT ![from] = << >>, ![to] = @ \o Pool[from] ]
<1>1. /\ worker[w].pc = "count"
      /\ worker \in [ Workers -> WorkerType ]
      /\ freeBufs \in [ Managers -> Seq(Buffers) ]
      /\ heap \in Nat
  BY BufferManagerAssumption DEF ReturnBuffers, TypeInv, TypeOK
<1>2. m \in Managers
  BY <1>1 DEF PoolInv
<1>3. /\ from \in Holders /\ to \in Holders /\ from # to
      /\ Pool[from] = worker[w].buffers /\ Pool[to] = freeBufs[m]
  BY <1>1, <1>2, PoolAt DEF Owning
<1>4. OnePlace(F, Holders, heap)
  BY <1>1, <1>3, MoveAllKeepsOnePlace DEF PoolInv
<1>5. /\ freeBufs' = [ freeBufs EXCEPT ![m] = @ \o worker[w].buffers ]
      /\ allocatedBufs' = allocatedBufs /\ spawned' = spawned /\ heap' = heap
      /\ worker' = [ worker EXCEPT ![w].pc = "done" ]
  BY DEF ReturnBuffers, Release
<1>6. /\ worker'[w].pc = "done"
      /\ worker'[w].manager = m
      /\ \A v \in Workers \ {w} : worker'[v] = worker[v]
  BY <1>1, <1>5 DEF WorkerType
<1>7. Pool' = F
  <2>1. F = [ h \in Holders |-> F[h] ]
    BY <1>4, OnePlaceIsFunction
  <2>2. \A n \in Managers : /\ freeBufs'[n]      = F[<<"free", n>>]
                            /\ allocatedBufs'[n] = F[<<"allocated", n>>]
    BY <1>2, <1>3, <1>1, <1>5, PoolAt DEF Pool
  <2>3. F[from] = << >>
    BY <1>3 DEF Pool
  <2>4. \A v \in Workers \ {w} : F[<<"worker", v>>] = Pool[<<"worker", v>>]
    BY <1>3, PoolAt DEF Pool
  <2> HIDE DEF F
  <2>5. \A v \in Workers :
          /\ worker'[v].pc \in Owning    => worker'[v].buffers = F[<<"worker", v>>]
          /\ worker'[v].pc \notin Owning => F[<<"worker", v>>] = << >>
    <3>1. "done" \notin Owning
      BY DEF Owning
    <3>2. QED
      BY <1>6, <2>3, <2>4, <3>1, PoolAt
  <2>6. QED
    BY <2>1, <2>2, <2>5, PoolIs
<1> HIDE DEF F
<1>8. /\ \A v \in Workers : v > spawned' => worker'[v].pc = "none"
      /\ \A v \in Workers : worker'[v].pc # "none" => worker'[v].manager \in Managers
  BY <1>1, <1>2, <1>5, <1>6 DEF PoolInv
<1>9. QED
  BY <1>4, <1>5, <1>7, <1>8 DEF PoolInv, Holders, Managers

\* The steps of a worker that keeps its buffers.
LEMMA PoolWorkerStays ==
  ASSUME TypeInv, PoolInv, NEW w \in Workers,
         \/ WaitClosed(w) \/ StartCounting(w) \/ CountBuffer(w) \/ ReturnToDestroyed(w)
  PROVE  PoolInv'
<1>1. UNCHANGED <<heap, freeBufs, allocatedBufs, spawned>>
  BY DEF WaitClosed, StartCounting, CountBuffer, ReturnToDestroyed
<1>2. worker \in [ Workers -> WorkerType ]
  BY DEF TypeInv, TypeOK
<1>3. \A v \in Workers : /\ worker'[v].buffers = worker[v].buffers
                         /\ worker'[v].manager = worker[v].manager
                         /\ worker'[v].pc \in Owning <=> worker[v].pc \in Owning
                         /\ worker'[v].pc = "none" <=> worker[v].pc = "none"
  <2>1. CASE WaitClosed(w)
    BY <1>2, <2>1 DEF WaitClosed, WorkerType
  <2>2. CASE StartCounting(w)
    BY <1>2, <2>2 DEF StartCounting, WorkerType, Owning
  <2>3. CASE CountBuffer(w)
    BY <1>2, <2>3 DEF CountBuffer, WorkerType
  <2>4. CASE ReturnToDestroyed(w)
    BY <1>2, <2>4 DEF ReturnToDestroyed, WorkerType, Owning
  <2>5. QED
    BY <2>1, <2>2, <2>3, <2>4
<1>4. QED
  BY <1>1, <1>3, PoolStays

LEMMA PoolNext == TypeInv /\ PoolInv /\ [Next]_vars => PoolInv'
<1> SUFFICES ASSUME TypeInv, PoolInv, [Next]_vars PROVE PoolInv'
  OBVIOUS
<1>1. ASSUME UNCHANGED <<heap, freeBufs, allocatedBufs, workerVars>>
      PROVE  PoolInv'
  BY <1>1, PoolStays
<1>2. ASSUME NEW t \in Threads, ThreadStep(t)
      PROVE  PoolInv'
  <2>1. CASE LoadForRef(t) \/ GetRef(t)
    BY <1>1, <2>1 DEF LoadForRef, GetRef
  <2>2. CASE CallAllocBuffer(t)
    BY <2>2, PoolAlloc DEF CallAllocBuffer
  <2>3. CASE LoadCurBuf(t) \/ LogReclaimed(t) \/ LogFast(t) \/ LogSlow(t)
    BY <1>1, <2>3 DEF LoadCurBuf, LogReclaimed, LogFast, LogSlow, StoreEvent
  <2>4. CASE TryIncEpochFails(t) \/ TryIncEpochWins(t) \/ ReclaimOne(t)
    BY <1>1, <2>4
       DEF TryIncEpochFails, LoseEpoch, TryIncEpochWins, WinEpoch, ReclaimOne, ReclaimFrom
  <2>5. CASE StartWorker(t)
    BY <2>5, PoolHandOver DEF StartWorker
  <2>6. CASE TooManyWorkers(t)
    BY <2>6, PoolSkip DEF TooManyWorkers
  <2>7. CASE UpdateAssertFails(t) \/ UpdateEvents(t) \/ UpdateClose(t)
    BY <1>1, <2>7 DEF UpdateAssertFails, UpdateEvents, UpdateClose
  <2>8. CASE EndRun(t) \/ ExitThread(t) \/ FinishThread(t)
    BY <1>1, <2>8 DEF EndRun, ExitThread, ThreadExit, FinishThread
  <2>9. QED
    BY <1>2, <2>1, <2>2, <2>3, <2>4, <2>5, <2>6, <2>7, <2>8 DEF ThreadStep
<1>3. ASSUME NEW w \in Workers, WorkerStep(w)
      PROVE  PoolInv'
  BY <1>3, PoolReturn, PoolWorkerStays DEF WorkerStep, WorkerReleases
<1>4. CASE MainReturns \/ Halted \/ UNCHANGED vars
  BY <1>1, <1>4 DEF MainReturns, Halted
<1>5. QED
  BY <1>2, <1>3, <1>4 DEF Next

\* Every EventBuffer ever allocated is in exactly one place (TypeCorrect
\* supplies the types, PoolInv is the inductive part).
THEOREM PoolAccounted == Spec => []PoolAccounting
<1>1. Spec => [](TypeInv /\ PoolInv)
  BY TypeInit, TypeNext, PoolInit, PoolNext, PTL DEF Spec
<1>2. TypeInv /\ PoolInv => PoolAccounting
  <2> SUFFICES ASSUME TypeInv, PoolInv, NEW b \in 1 .. heap
               PROVE  Cardinality(Places(b)) = 1
    BY DEF PoolAccounting
  <2>1. Places(b) = UNION { {h} \X { i \in DOMAIN Pool[h] : Pool[h][i] = b } : h \in Holders }
    BY DEF Places, Pool
  <2>2. heap \in Nat
    BY BufferManagerAssumption DEF TypeInv, TypeOK
  <2>3. QED
    BY <2>1, <2>2, OnePlaceCounts DEF PoolInv
<1>3. QED
  BY <1>1, <1>2, PTL
=============================================================================
