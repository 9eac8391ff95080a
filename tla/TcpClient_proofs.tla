-------------------------- MODULE TcpClient_proofs --------------------------
(* Proofs about one connection: what its peer is sent, and how much of it.  *)
EXTENDS TcpClient, SequenceTheorems, WellFoundedInduction, TLAPS

Byte == Nat \X Nat

\* An outstanding write has something left to send.
Outstanding == {w \in [length : 1 .. BufSize, sent : 0 .. BufSize] : w.sent < w.length}

TypeInv ==
    /\ m_bConnected \in BOOLEAN
    /\ m_bFinished \in BOOLEAN
    /\ early \in BOOLEAN
    /\ m_sendBuf \in [1 .. BufSize -> Byte]
    /\ writes \in Seq(Outstanding)
    /\ given \in Seq(0 .. BufSize) /\ given # << >>
    /\ delivered \in Seq(Byte)

----------------------------------------------------------------------------
\* Every nonempty set of naturals has a smallest element.
LEMMA Smallest ==
    ASSUME NEW S \in SUBSET Nat, S # {}
    PROVE  \E x \in S : \A y \in S : x <= y
<1> DEFINE R == {p \in Nat \X Nat : p[1] < p[2]}
<1>0. IsWellFoundedOn(R, Nat)
  BY NatLessThanWellFounded DEF OpToRel
<1>1. \A x, y \in Nat : << y, x >> \in R <=> y < x
  OBVIOUS
<1>2. \E x \in S : \A y \in S : ~(<< y, x >> \in R)
  <2> HIDE DEF R
  <2> QED
    BY <1>0, WFMin
<1> HIDE DEF R
<1>3. PICK x \in S : \A y \in S : ~(y < x)
  BY <1>1, <1>2
<1>4. \A y \in S : x <= y
  BY <1>3
<1> QED
  BY <1>4

\* What a loop has after each of n turns, if it starts with a.
Runs(A, a, F, n) ==
    {f \in [0 .. n -> A] : f[0] = a /\ \A i \in 1 .. n : f[i] = F[<< i, f[i - 1] >>]}

\* A loop that hands what it has from one turn to the next can be run any number of
\* turns: there is a function of what it has after each.
LEMMA LoopRuns ==
    ASSUME NEW A, NEW a \in A, NEW F \in [Nat \X A -> A], NEW n \in Nat
    PROVE  Runs(A, a, F, n) # {}
<1> DEFINE Run(m) == \E f \in [0 .. m -> A] :
                        f[0] = a /\ \A i \in 1 .. m : f[i] = F[<< i, f[i - 1] >>]
           Bad == {m \in Nat : ~Run(m)}
<1>1. Run(0)
  <2>1. [i \in 0 .. 0 |-> a] \in [0 .. 0 -> A] /\ [i \in 0 .. 0 |-> a][0] = a
    OBVIOUS
  <2>2. 1 .. 0 = {}
    OBVIOUS
  <2> QED
    BY <2>1, <2>2
<1>2. ASSUME NEW m \in Nat, Run(m) PROVE Run(m + 1)
  <2>1. PICK f \in [0 .. m -> A] : f[0] = a /\ \A i \in 1 .. m : f[i] = F[<< i, f[i - 1] >>]
    BY <1>2
  <2> DEFINE g == [i \in 0 .. (m + 1) |-> IF i = m + 1 THEN F[<< m + 1, f[m] >>] ELSE f[i]]
  <2>2. F[<< m + 1, f[m] >>] \in A
    OBVIOUS
  <2>3. \A i \in 0 .. (m + 1) : i = m + 1 \/ i \in 0 .. m
    OBVIOUS
  <2>4. g \in [0 .. (m + 1) -> A]
    BY <2>2, <2>3
  <2>5. g[0] = a
    BY <2>1
  <2>6. ASSUME NEW i \in 1 .. (m + 1) PROVE g[i] = F[<< i, g[i - 1] >>]
    <3>1. i - 1 \in 0 .. (m + 1) /\ i - 1 # m + 1 /\ i \in 0 .. (m + 1)
      OBVIOUS
    <3>2. g[i - 1] = f[i - 1]
      BY <3>1
    <3>3. CASE i = m + 1
      <4>1. i - 1 = m
        BY <3>3
      <4>2. g[i] = F[<< m + 1, f[m] >>]
        BY <3>1, <3>3
      <4> HIDE DEF g
      <4> QED
        BY <3>2, <3>3, <4>1, <4>2
    <3>4. CASE i # m + 1
      BY <2>1, <3>1, <3>2, <3>4
    <3> QED
      BY <3>3, <3>4
  <2> HIDE DEF g
  <2> QED
    BY <2>4, <2>5, <2>6
<1> HIDE DEF Run
<1>3. Bad = {}
  <2> SUFFICES ASSUME Bad # {} PROVE FALSE
    OBVIOUS
  <2>1. PICK m \in Bad : \A k \in Bad : m <= k
    <3>1. Bad \in SUBSET Nat
      OBVIOUS
    <3> HIDE DEF Bad
    <3> QED
      BY <3>1, Smallest
  <2>2. m \in Nat /\ m # 0
    BY <1>1
  <2>3. m - 1 \in Nat /\ ~(m <= m - 1)
    BY <2>2
  <2>4. Run(m - 1)
    BY <2>1, <2>3
  <2>5. Run((m - 1) + 1)
    BY <1>2, <2>3, <2>4
  <2>6. (m - 1) + 1 = m
    BY <2>2
  <2> QED
    BY <2>1, <2>5, <2>6
<1>4. Run(n)
  BY <1>3
<1> QED
  BY <1>4 DEF Run, Runs

\* As long as two loops agree before a turn, they do after it.
GoTogether(f, g, a, n) ==
    f[a] = g[a] /\ \A i \in a + 1 .. n : f[i - 1] = g[i - 1] => f[i] = g[i]

\* So a loop has one result only, wherever it starts.
LEMMA LoopsAgree ==
    ASSUME NEW a \in Nat, NEW n \in Nat, a <= n, NEW f, NEW g, GoTogether(f, g, a, n)
    PROVE  f[n] = g[n]
<1> DEFINE Bad == {i \in a .. n : f[i] # g[i]}
<1>1. Bad = {}
  <2> SUFFICES ASSUME Bad # {} PROVE FALSE
    OBVIOUS
  <2>1. PICK m \in Bad : \A k \in Bad : m <= k
    <3>1. Bad \in SUBSET Nat
      OBVIOUS
    <3> HIDE DEF Bad
    <3> QED
      BY <3>1, Smallest
  <2>2. m \in a + 1 .. n
    BY <2>1 DEF GoTogether
  <2>3. m - 1 \in a .. n /\ ~(m <= m - 1)
    BY <2>2
  <2>4. f[m - 1] = g[m - 1]
    BY <2>1, <2>3
  <2> QED
    BY <2>1, <2>2, <2>4 DEF GoTogether
<1> QED
  BY <1>1

----------------------------------------------------------------------------
Left(w) == w.length - w.sent

\* The numbers of an outstanding write.
LEMMA WriteTyped ==
    ASSUME NEW w \in Outstanding
    PROVE  w.length \in Nat /\ w.sent \in Nat /\ w.length <= BufSize /\ Left(w) \in Nat \ {0}
BY TcpClientAssumption DEF Outstanding, Left

\* The sums of what the first writes still have to send.
IsSum(f, ws) ==
    /\ f \in [0 .. Len(ws) -> Int]
    /\ f[0] = 0
    /\ \A n \in 1 .. Len(ws) : f[n] = f[n - 1] + Left(ws[n])

\* Writes have such sums,
LEMMA SumExists ==
    ASSUME NEW ws \in Seq(Outstanding)
    PROVE  \E f : IsSum(f, ws)
<1> DEFINE F == [p \in Nat \X Int |-> IF p[1] \in 1 .. Len(ws) THEN p[2] + Left(ws[p[1]]) ELSE p[2]]
<1>1. \A n \in 1 .. Len(ws) : Left(ws[n]) \in Int
  BY DEF Left, Outstanding
<1>2. F \in [Nat \X Int -> Int]
  BY <1>1
<1>3. Len(ws) \in Nat
  OBVIOUS
<1>4. Runs(Int, 0, F, Len(ws)) # {}
  <2> HIDE DEF F
  <2>1. 0 \in Int
    OBVIOUS
  <2> QED
    BY <1>2, <1>3, <2>1, LoopRuns
<1>5. PICK f \in [0 .. Len(ws) -> Int] :
         f[0] = 0 /\ \A i \in 1 .. Len(ws) : f[i] = F[<< i, f[i - 1] >>]
  <2> HIDE DEF F
  <2> QED
    BY <1>4 DEF Runs
<1>6. \A i \in 1 .. Len(ws) : f[i] = f[i - 1] + Left(ws[i])
  <2> TAKE i \in 1 .. Len(ws)
  <2>1. << i, f[i - 1] >> \in Nat \X Int
    BY <1>3
  <2> QED
    BY <1>5, <2>1
<1> QED
  BY <1>5, <1>6 DEF IsSum

\* and what the client owes is the last of them.
LEMMA OwingIsSum ==
    ASSUME NEW ws \in Seq(Outstanding), NEW f, IsSum(f, ws)
    PROVE  Owing(ws) = f[Len(ws)]
<1> DEFINE next(n, before) == before + ws[n].length - ws[n].sent
           body(w) == [n \in 0 .. Len(ws) |-> IF n = 0 THEN 0 ELSE next(n, w[n - 1])]
           owed == CHOOSE w : w = body(w)
<1>1. Len(ws) \in Nat
  OBVIOUS
<1>2. \A n \in 1 .. Len(ws) : f[n] = next(n, f[n - 1])
  <2> TAKE n \in 1 .. Len(ws)
  <2>1. f[n - 1] \in Int /\ ws[n].length \in Int /\ ws[n].sent \in Int
    <3>1. n - 1 \in 0 .. Len(ws) /\ ws[n] \in Outstanding
      BY <1>1
    <3> QED
      BY SMTT(30), <3>1, WriteTyped DEF IsSum
  <2> QED
    BY <2>1 DEF IsSum, Left
<1>3. Owing(ws) = owed[Len(ws)]
  BY DEF Owing
<1> HIDE DEF next
<1>4. f = body(f)
  BY <1>1, <1>2 DEF IsSum
<1>5. owed = body(owed)
  <2> HIDE DEF body
  <2> QED
    BY <1>4
<1> HIDE DEF owed
<1>6. owed[0] = 0 /\ \A n \in 1 .. Len(ws) : owed[n] = next(n, owed[n - 1])
  BY <1>1, <1>5
<1> HIDE DEF body
<1>7. \A n \in 1 .. Len(ws) : owed[n - 1] = f[n - 1] => owed[n] = f[n]
  BY <1>2, <1>6
<1>8. owed[0] = f[0]
  BY <1>6 DEF IsSum
<1>9. owed[Len(ws)] = f[Len(ws)]
  <2>1. GoTogether(owed, f, 0, Len(ws))
    BY <1>7, <1>8 DEF GoTogether
  <2>2. 0 \in Nat /\ 0 <= Len(ws)
    BY <1>1
  <2> QED
    BY <1>1, <2>1, <2>2, LoopsAgree
<1> QED
  BY <1>1, <1>3, <1>9

\* Nothing outstanding, nothing owed.
LEMMA OwingNothing == Owing(<< >>) = 0
<1>1. << >> \in Seq(Outstanding) /\ Len(<< >>) = 0
  OBVIOUS
<1>2. PICK f : IsSum(f, << >>)
  BY <1>1, SumExists
<1> QED
  BY <1>1, <1>2, OwingIsSum DEF IsSum

\* A write that is started adds its length,
LEMMA OwingAppend ==
    ASSUME NEW ws \in Seq(Outstanding), NEW w \in Outstanding
    PROVE  Owing(Append(ws, w)) = Owing(ws) + Left(w)
<1> DEFINE l == Len(ws)
           more == Append(ws, w)
<1>1. PICK f : IsSum(f, ws)
  BY SumExists
<1>2. /\ more \in Seq(Outstanding) /\ Len(more) = l + 1 /\ l \in Nat
      /\ more[l + 1] = w /\ \A i \in 1 .. l : more[i] = ws[i]
  BY AppendProperties
<1>3. Left(w) \in Int
  BY DEF Left, Outstanding
<1> DEFINE g == [n \in 0 .. l + 1 |-> IF n = l + 1 THEN f[l] + Left(w) ELSE f[n]]
<1> HIDE DEF l, more
<1>4. IsSum(g, more)
  <2>1. f \in [0 .. l -> Int] /\ f[0] = 0 /\ \A n \in 1 .. l : f[n] = f[n - 1] + Left(ws[n])
    BY <1>1 DEF IsSum, l
  <2>2. g \in [0 .. Len(more) -> Int] /\ g[0] = 0
    BY <1>2, <1>3, <2>1
  <2>3. ASSUME NEW n \in 1 .. l + 1 PROVE g[n] = g[n - 1] + Left(more[n])
    <3>1. g[n - 1] = f[n - 1]
      BY <1>2
    <3>2. CASE n = l + 1
      <4>1. g[n] = f[l] + Left(w) /\ n - 1 = l /\ more[n] = w
        BY <1>2, <3>2
      <4> QED
        BY <3>1, <4>1
    <3>3. CASE n # l + 1
      <4>1. n \in 1 .. l
        BY <1>2, <3>3
      <4>2. g[n] = f[n] /\ more[n] = ws[n]
        BY <1>2, <3>3, <4>1
      <4> QED
        BY <2>1, <3>1, <4>1, <4>2
    <3> QED
      BY <3>2, <3>3
  <2> HIDE DEF g
  <2> QED
    BY <1>2, <2>2, <2>3 DEF IsSum
<1>5. g[l + 1] = f[l] + Left(w)
  BY <1>2
<1> HIDE DEF g
<1>6. Owing(ws) = f[l] /\ Owing(more) = g[l + 1]
  BY <1>1, <1>2, <1>4, OwingIsSum DEF l
<1> QED
  BY <1>5, <1>6 DEF more

\* one that goes on takes what it has sent off,
LEMMA OwingSends ==
    ASSUME NEW ws \in Seq(Outstanding), NEW i \in DOMAIN ws, NEW count \in Nat,
           ws[i].sent + count < ws[i].length
    PROVE  /\ [ws EXCEPT ![i].sent = @ + count] \in Seq(Outstanding)
           /\ Owing([ws EXCEPT ![i].sent = @ + count]) = Owing(ws) - count
<1> DEFINE l == Len(ws)
           less == [ws EXCEPT ![i].sent = @ + count]
<1>1. PICK f : IsSum(f, ws)
  BY SumExists
<1>2. /\ less \in Seq(Outstanding) /\ Len(less) = l /\ l \in Nat
      /\ Left(less[i]) = Left(ws[i]) - count
      /\ \A n \in 1 .. l : n # i => less[n] = ws[n]
  <2> DEFINE w == ws[i]
             v == [length |-> w.length, sent |-> w.sent + count]
  <2>1. w \in Outstanding
    OBVIOUS
  <2>2. v \in Outstanding /\ Left(v) = Left(w) - count
    <3> HIDE DEF w
    <3>1. w.length \in Nat /\ w.sent \in Nat /\ w.length <= BufSize /\ w.length \in 1 .. BufSize
      BY <2>1, WriteTyped DEF Outstanding
    <3>2. w.sent + count < w.length
      BY DEF w
    <3>3. w.sent + count \in 0 .. BufSize
      BY <3>1, <3>2, TcpClientAssumption
    <3> QED
      BY SMTT(30), <3>1, <3>2, <3>3 DEF Outstanding, Left
  <2>3. less = [ws EXCEPT ![i] = v]
    <3>1. w = [length |-> w.length, sent |-> w.sent]
      BY <2>1 DEF Outstanding
    <3> HIDE DEF w
    <3>2. [w EXCEPT !.sent = @ + count] = v
      BY <3>1
    <3> QED
      BY <3>2 DEF w
  <2> HIDE DEF v
  <2>4. less \in Seq(Outstanding) /\ Len(less) = l /\ l \in Nat
    BY <2>2, <2>3
  <2>5. Left(less[i]) = Left(ws[i]) - count
    BY <2>2, <2>3
  <2>6. \A n \in 1 .. l : n # i => less[n] = ws[n]
    OBVIOUS
  <2> QED
    BY <2>4, <2>5, <2>6
<1> DEFINE g == [n \in 0 .. l |-> IF n < i THEN f[n] ELSE f[n] - count]
<1>3. i \in 1 .. l
  OBVIOUS
<1>4. f \in [0 .. l -> Int] /\ f[0] = 0 /\ \A n \in 1 .. l : f[n] = f[n - 1] + Left(ws[n])
  BY <1>1 DEF IsSum
<1>5. \A n \in 1 .. l : Left(ws[n]) \in Int
  BY DEF Left, Outstanding
<1> HIDE DEF l, less
<1>6. IsSum(g, less)
  <2>1. g \in [0 .. l -> Int] /\ g[0] = 0
    BY <1>2, <1>3, <1>4
  <2>2. ASSUME NEW n \in 1 .. l PROVE g[n] = g[n - 1] + Left(less[n])
    <3>1. n - 1 \in 0 .. l /\ n \in 0 .. l /\ n \in Int
      BY <1>2
    <3>2. f[n] = f[n - 1] + Left(ws[n]) /\ f[n - 1] \in Int /\ Left(ws[n]) \in Int
      BY <1>4, <1>5, <3>1
    <3>3. CASE n = i
      <4>1. g[n] = f[n] - count /\ g[n - 1] = f[n - 1]
        BY <1>3, <3>1, <3>3
      <4> QED
        BY <1>2, <3>2, <3>3, <4>1
    <3>4. CASE n < i
      <4>1. g[n] = f[n] /\ g[n - 1] = f[n - 1] /\ less[n] = ws[n]
        BY <1>2, <1>3, <3>1, <3>4
      <4> QED
        BY <3>2, <4>1
    <3>5. CASE i < n
      <4>1. g[n] = f[n] - count /\ g[n - 1] = f[n - 1] - count /\ less[n] = ws[n]
        BY <1>2, <1>3, <3>1, <3>5
      <4> QED
        BY <3>2, <4>1
    <3> QED
      BY <1>3, <3>1, <3>3, <3>4, <3>5
  <2> HIDE DEF g
  <2> QED
    BY <1>2, <2>1, <2>2 DEF IsSum
<1>7. g[l] = f[l] - count
  BY <1>2, <1>3
<1> HIDE DEF g
<1>8. Owing(ws) = f[l] /\ Owing(less) = g[l]
  BY <1>1, <1>2, <1>6, OwingIsSum DEF l
<1> QED
  BY <1>2, <1>7, <1>8 DEF less

\* and one that is over takes off all it had left.
LEMMA OwingRemove ==
    ASSUME NEW ws \in Seq(Outstanding), NEW i \in DOMAIN ws
    PROVE  /\ RemoveAt(ws, i) \in Seq(Outstanding) /\ Len(RemoveAt(ws, i)) = Len(ws) - 1
           /\ Owing(RemoveAt(ws, i)) = Owing(ws) - Left(ws[i])
<1> DEFINE l == Len(ws)
           less == RemoveAt(ws, i)
<1>1. PICK f : IsSum(f, ws)
  BY SumExists
<1>2. /\ less \in Seq(Outstanding) /\ l \in Nat /\ i \in 1 .. l /\ Len(less) = l - 1
      /\ \A n \in 1 .. l - 1 : less[n] = IF n < i THEN ws[n] ELSE ws[n + 1]
  <2>1. l \in Nat /\ i \in 1 .. l
    OBVIOUS
  <2>2. /\ SubSeq(ws, 1, i - 1) \in Seq(Outstanding) /\ Len(SubSeq(ws, 1, i - 1)) = i - 1
        /\ \A n \in 1 .. i - 1 : SubSeq(ws, 1, i - 1)[n] = ws[n]
    <3>1. \A n \in 1 .. i - 1 : ws[n] \in Outstanding
      BY <2>1
    <3> QED
      BY <2>1, <3>1, SubSeqProperties
  <2>3. /\ SubSeq(ws, i + 1, l) \in Seq(Outstanding) /\ Len(SubSeq(ws, i + 1, l)) = l - i
        /\ \A n \in 1 .. l - i : SubSeq(ws, i + 1, l)[n] = ws[n + i]
    <3>1. \A n \in i + 1 .. l : ws[n] \in Outstanding
      BY <2>1
    <3> QED
      BY <2>1, <3>1, SubSeqProperties
  <2>4. less = SubSeq(ws, 1, i - 1) \o SubSeq(ws, i + 1, l)
    BY DEF RemoveAt
  <2> HIDE DEF l, less
  <2>5. /\ less \in Seq(Outstanding) /\ Len(less) = l - 1
        /\ \A n \in 1 .. l - 1 :
              less[n] = IF n <= i - 1 THEN SubSeq(ws, 1, i - 1)[n]
                        ELSE SubSeq(ws, i + 1, l)[n - (i - 1)]
    <3> DEFINE a == SubSeq(ws, 1, i - 1)
               b == SubSeq(ws, i + 1, l)
    <3>1. a \in Seq(Outstanding) /\ b \in Seq(Outstanding) /\ Len(a) = i - 1 /\ Len(b) = l - i
      BY <2>2, <2>3
    <3>2. less = a \o b
      BY <2>4
    <3> HIDE DEF a, b
    <3>3. /\ a \o b \in Seq(Outstanding) /\ Len(a \o b) = Len(a) + Len(b)
          /\ \A n \in 1 .. Len(a) + Len(b) :
                (a \o b)[n] = IF n <= Len(a) THEN a[n] ELSE b[n - Len(a)]
      BY <3>1, ConcatProperties
    <3>4. Len(a) + Len(b) = l - 1
      BY <2>1, <3>1
    <3> QED
      BY <3>1, <3>2, <3>3, <3>4 DEF a, b
  <2>6. ASSUME NEW n \in 1 .. l - 1
        PROVE  less[n] = IF n < i THEN ws[n] ELSE ws[n + 1]
    <3>1. CASE n < i
      BY <2>1, <2>2, <2>5, <3>1
    <3>2. CASE ~(n < i)
      <4>1. n - (i - 1) \in 1 .. l - i /\ (n - (i - 1)) + i = n + 1 /\ ~(n <= i - 1)
        BY <2>1, <3>2
      <4> QED
        BY <2>3, <2>5, <3>2, <4>1
    <3> QED
      BY <3>1, <3>2
  <2> QED
    BY <2>1, <2>5, <2>6
<1>3. f \in [0 .. l -> Int] /\ f[0] = 0 /\ \A n \in 1 .. l : f[n] = f[n - 1] + Left(ws[n])
  BY <1>1 DEF IsSum
<1>4. \A n \in 1 .. l : Left(ws[n]) \in Int
  BY DEF Left, Outstanding
<1> DEFINE x == Left(ws[i])
           g == [n \in 0 .. l - 1 |-> IF n < i THEN f[n] ELSE f[n + 1] - x]
<1>5. x \in Int /\ f[i] = f[i - 1] + x
  BY <1>2, <1>3, <1>4
<1> HIDE DEF l, less, x
<1>6. IsSum(g, less)
  <2>1. g \in [0 .. l - 1 -> Int] /\ g[0] = 0
    <3>1. \A n \in 0 .. l - 1 : n \in 0 .. l /\ n + 1 \in 0 .. l
      BY <1>2
    <3> QED
      BY SMTT(30), <1>2, <1>3, <1>5, <3>1
  <2>2. ASSUME NEW n \in 1 .. l - 1 PROVE g[n] = g[n - 1] + Left(less[n])
    <3>1. /\ n - 1 \in 0 .. l - 1 /\ n \in 0 .. l - 1 /\ n \in 1 .. l /\ n + 1 \in 1 .. l
          /\ (n + 1) - 1 = n /\ n - 1 \in 0 .. l
      BY <1>2
    <3>2. /\ f[n] = f[n - 1] + Left(ws[n]) /\ f[n + 1] = f[n] + Left(ws[n + 1])
          /\ f[n - 1] \in Int /\ f[n] \in Int /\ f[n + 1] \in Int
          /\ Left(ws[n]) \in Int /\ Left(ws[n + 1]) \in Int
      BY SMTT(30), <1>3, <1>4, <3>1
    <3>3. CASE n < i
      <4>1. g[n] = f[n] /\ g[n - 1] = f[n - 1] /\ less[n] = ws[n]
        BY <1>2, <3>1, <3>3
      <4> QED
        BY <3>2, <4>1
    <3>4. CASE n = i
      <4>1. g[n] = f[n + 1] - x /\ g[n - 1] = f[n - 1] /\ less[n] = ws[n + 1]
        BY SMTT(30), <1>2, <3>1, <3>4
      <4>2. f[n] = f[n - 1] + x
        BY <1>5, <3>4
      <4> DEFINE before == f[n - 1]
                 here   == f[n]
                 y      == Left(ws[n + 1])
      <4>3. before \in Int /\ here \in Int /\ y \in Int /\ here = before + x
        BY <3>2, <4>2
      <4>4. g[n] = (here + y) - x /\ g[n - 1] = before /\ Left(less[n]) = y
        BY <3>2, <4>1
      <4> HIDE DEF before, here, y
      <4> QED
        BY <1>5, <4>3, <4>4
    <3>5. CASE i < n
      <4>1. g[n] = f[n + 1] - x /\ g[n - 1] = f[n] - x /\ less[n] = ws[n + 1]
        BY <1>2, <3>1, <3>5
      <4> QED
        BY <1>5, <3>2, <4>1
    <3> QED
      BY <1>2, <3>1, <3>3, <3>4, <3>5
  <2> HIDE DEF g
  <2> QED
    BY <1>2, <2>1, <2>2 DEF IsSum
<1>7. g[l - 1] = f[l] - x
  <2>1. CASE i = l
    <3>1. g[l - 1] = f[l - 1]
      BY <1>2, <2>1
    <3> QED
      BY <1>2, <1>3, <1>5, <2>1, <3>1
  <2>2. CASE i < l
    BY <1>2, <2>2
  <2> QED
    BY <1>2, <2>1, <2>2
<1> HIDE DEF g
<1>8. Owing(ws) = f[l] /\ Owing(less) = g[l - 1]
  BY <1>1, <1>2, <1>6, OwingIsSum DEF l
<1> QED
  BY <1>2, <1>7, <1>8 DEF less, x, l

----------------------------------------------------------------------------
\* The answers put together one after the other, as FlattenSeq does it.
IsFlat(f, ss) ==
    /\ f \in [1 .. Len(ss) -> Seq(Byte)]
    /\ f[1] = ss[1]
    /\ \A n \in 2 .. Len(ss) : f[n] = f[n - 1] \o ss[n]

\* Answers can be put together,
LEMMA FlatExists ==
    ASSUME NEW ss \in Seq(Seq(Byte)), ss # << >>
    PROVE  \E f : IsFlat(f, ss)
<1> DEFINE F == [p \in Nat \X Seq(Byte) |-> IF p[1] \in 1 .. Len(ss) THEN p[2] \o ss[p[1]] ELSE p[2]]
<1>1. F \in [Nat \X Seq(Byte) -> Seq(Byte)]
  <2>1. ASSUME NEW n \in 1 .. Len(ss), NEW t \in Seq(Byte) PROVE t \o ss[n] \in Seq(Byte)
    <3>1. ss[n] \in Seq(Byte)
      OBVIOUS
    <3> QED
      BY <3>1
  <2> QED
    BY <2>1
<1>2. Len(ss) \in Nat /\ Len(ss) >= 1 /\ << >> \in Seq(Byte)
  OBVIOUS
<1>3. Runs(Seq(Byte), << >>, F, Len(ss)) # {}
  <2> HIDE DEF F
  <2> QED
    BY <1>1, <1>2, LoopRuns
<1>4. PICK f \in [0 .. Len(ss) -> Seq(Byte)] :
         f[0] = << >> /\ \A i \in 1 .. Len(ss) : f[i] = F[<< i, f[i - 1] >>]
  <2> HIDE DEF F
  <2> QED
    BY <1>3 DEF Runs
<1>5. \A i \in 1 .. Len(ss) : f[i] = f[i - 1] \o ss[i]
  <2> TAKE i \in 1 .. Len(ss)
  <2>1. i \in Nat /\ i - 1 \in 0 .. Len(ss)
    BY <1>2
  <2>2. f[i - 1] \in Seq(Byte)
    BY <2>1
  <2>3. << i, f[i - 1] >> \in Nat \X Seq(Byte)
    BY <2>1, <2>2
  <2> QED
    BY <1>4, <2>3
<1> HIDE DEF F
<1> DEFINE g == [i \in 1 .. Len(ss) |-> f[i]]
<1>6. g \in [1 .. Len(ss) -> Seq(Byte)]
  BY <1>2
<1>7. g[1] = ss[1]
  <2>1. f[1] = f[0] \o ss[1]
    <3>1. 1 \in 1 .. Len(ss) /\ 1 - 1 = 0
      BY <1>2
    <3> QED
      BY <1>5, <3>1
  <2>2. ss[1] \in Seq(Byte)
    BY <1>2
  <2>3. << >> \o ss[1] = ss[1]
    BY <2>2, ConcatEmptySeq
  <2> QED
    BY <1>2, <1>4, <2>1, <2>3
<1>8. \A n \in 2 .. Len(ss) : g[n] = g[n - 1] \o ss[n]
  <2> TAKE n \in 2 .. Len(ss)
  <2>1. n \in 1 .. Len(ss) /\ n - 1 \in 1 .. Len(ss)
    BY <1>2
  <2> QED
    BY <1>5, <2>1
<1> QED
  BY <1>6, <1>7, <1>8 DEF IsFlat

\* and FlattenSeq returns the last of them.
LEMMA FlattenIsFlat ==
    ASSUME NEW ss \in Seq(Seq(Byte)), ss # << >>, NEW f, IsFlat(f, ss)
    PROVE  FlattenSeq(ss) = f[Len(ss)]
<1> DEFINE next(n, before) == before \o ss[n]
           body(w) == [n \in 1 .. Len(ss) |-> IF n = 1 THEN ss[n] ELSE next(n, w[n - 1])]
           flat == CHOOSE w : w = body(w)
<1>1. Len(ss) \in Nat /\ Len(ss) >= 1
  OBVIOUS
<1>2. FlattenSeq(ss) = flat[Len(ss)]
  BY <1>1 DEF FlattenSeq
<1>3. \A n \in 2 .. Len(ss) : f[n] = next(n, f[n - 1])
  BY DEF IsFlat
<1> HIDE DEF next
<1>4. f = body(f)
  BY <1>1, <1>3 DEF IsFlat
<1>5. flat = body(flat)
  <2> HIDE DEF body
  <2> QED
    BY <1>4
<1> HIDE DEF flat
<1>6. flat[1] = ss[1] /\ \A n \in 2 .. Len(ss) : flat[n] = next(n, flat[n - 1])
  BY <1>1, <1>5
<1> HIDE DEF body
<1>7. \A n \in 1 + 1 .. Len(ss) : flat[n - 1] = f[n - 1] => flat[n] = f[n]
  BY <1>3, <1>6
<1>8. flat[1] = f[1]
  BY <1>6 DEF IsFlat
<1>9. flat[Len(ss)] = f[Len(ss)]
  <2>1. GoTogether(flat, f, 1, Len(ss))
    BY <1>7, <1>8 DEF GoTogether
  <2>2. 1 \in Nat /\ 1 <= Len(ss)
    BY <1>1
  <2> QED
    BY <1>1, <2>1, <2>2, LoopsAgree
<1> QED
  BY <1>1, <1>2, <1>9

\* One more answer comes behind all the others.
LEMMA FlattenAppend ==
    ASSUME NEW ss \in Seq(Seq(Byte)), ss # << >>, NEW t \in Seq(Byte)
    PROVE  /\ FlattenSeq(ss) \in Seq(Byte)
           /\ FlattenSeq(Append(ss, t)) = FlattenSeq(ss) \o t
<1> DEFINE l == Len(ss)
           more == Append(ss, t)
<1>1. PICK f : IsFlat(f, ss)
  BY FlatExists
<1>2. /\ more \in Seq(Seq(Byte)) /\ more # << >> /\ Len(more) = l + 1 /\ l \in Nat /\ l >= 1
      /\ more[l + 1] = t /\ \A i \in 1 .. l : more[i] = ss[i]
  BY AppendProperties
<1>3. f \in [1 .. l -> Seq(Byte)] /\ f[1] = ss[1] /\ \A n \in 2 .. l : f[n] = f[n - 1] \o ss[n]
  BY <1>1 DEF IsFlat
<1>4. FlattenSeq(ss) = f[l]
  BY <1>1, FlattenIsFlat
<1> DEFINE g == [n \in 1 .. l + 1 |-> IF n = l + 1 THEN f[l] \o t ELSE f[n]]
<1> HIDE DEF l, more
<1>5. f[l] \in Seq(Byte) /\ f[l] \o t \in Seq(Byte)
  <2>1. f[l] \in Seq(Byte)
    BY <1>2, <1>3
  <2> QED
    BY <2>1
<1>6. IsFlat(g, more)
  <2>1. g \in [1 .. l + 1 -> Seq(Byte)] /\ g[1] = more[1]
    BY <1>2, <1>3, <1>5
  <2>2. ASSUME NEW n \in 2 .. l + 1 PROVE g[n] = g[n - 1] \o more[n]
    <3>1. n - 1 \in 1 .. l + 1 /\ n - 1 # l + 1 /\ n \in 1 .. l + 1
      BY <1>2
    <3>2. g[n - 1] = f[n - 1]
      BY <3>1
    <3>3. CASE n = l + 1
      <4>1. g[n] = f[l] \o t /\ n - 1 = l /\ more[n] = t
        BY <1>2, <3>1, <3>3
      <4> QED
        BY <3>2, <4>1
    <3>4. CASE n # l + 1
      <4>1. n \in 2 .. l
        BY <1>2, <3>4
      <4>2. g[n] = f[n] /\ more[n] = ss[n]
        BY <1>2, <3>1, <3>4, <4>1
      <4> QED
        BY <1>3, <3>2, <4>1, <4>2
    <3> QED
      BY <3>3, <3>4
  <2> HIDE DEF g
  <2> QED
    BY <1>2, <2>1, <2>2 DEF IsFlat
<1>7. g[l + 1] = f[l] \o t
  BY <1>2
<1> HIDE DEF g
<1>8. FlattenSeq(more) = g[l + 1]
  BY <1>2, <1>6, FlattenIsFlat
<1> QED
  BY <1>4, <1>5, <1>7, <1>8 DEF more

\* One answer is all there is.
LEMMA FlattenOne ==
    ASSUME NEW ss \in Seq(Seq(Byte)), ss # << >>, Len(ss) = 1
    PROVE  FlattenSeq(ss) = ss[1]
<1>1. PICK f : IsFlat(f, ss)
  BY FlatExists
<1> QED
  BY <1>1, FlattenIsFlat DEF IsFlat

----------------------------------------------------------------------------
Answers(lengths) == [n \in DOMAIN lengths |-> Answer(n, lengths[n])]

\* An answer is a text of its length.
LEMMA AnswerType ==
    ASSUME NEW n \in Nat, NEW length \in Nat
    PROVE  /\ Answer(n, length) \in Seq(Byte) /\ Len(Answer(n, length)) = length
           /\ \A k \in 1 .. length : Answer(n, length)[k] = << n, k >>
<1>1. Answer(n, length) \in [1 .. length -> Byte]
  BY DEF Answer, Byte
<1> QED
  BY <1>1 DEF Answer

\* The answers are the texts FlattenSeq puts together.
LEMMA AnswersType ==
    ASSUME NEW lengths \in Seq(0 .. BufSize)
    PROVE  /\ Answers(lengths) \in Seq(Seq(Byte)) /\ Len(Answers(lengths)) = Len(lengths)
           /\ \A n \in 1 .. Len(lengths) : Answers(lengths)[n] = Answer(n, lengths[n])
<1>1. \A n \in 1 .. Len(lengths) : n \in Nat /\ lengths[n] \in Nat
  BY TcpClientAssumption
<1>2. Answers(lengths) \in [1 .. Len(lengths) -> Seq(Byte)]
  <2>1. \A n \in 1 .. Len(lengths) : Answer(n, lengths[n]) \in Seq(Byte)
    BY <1>1, AnswerType
  <2>2. DOMAIN lengths = 1 .. Len(lengths)
    OBVIOUS
  <2> QED
    BY <2>1, <2>2 DEF Answers
<1> QED
  BY <1>2 DEF Answers

\* What was said, and how much longer it is after one more answer.
LEMMA SaidGrows ==
    ASSUME TypeInv, NEW length \in 0 .. BufSize, given' = Append(given, length)
    PROVE  /\ Said \in Seq(Byte)
           /\ Said' = Said \o Answer(Len(given) + 1, length)
           /\ Said' \in Seq(Byte)
           /\ Len(Said') = Len(Said) + length
<1> DEFINE l == Len(given)
           t == Answer(l + 1, length)
<1>1. given \in Seq(0 .. BufSize) /\ given # << >> /\ l \in Nat /\ l >= 1
  BY DEF TypeInv
<1>2. /\ given' \in Seq(0 .. BufSize) /\ Len(given') = l + 1 /\ given'[l + 1] = length
      /\ \A i \in 1 .. l : given'[i] = given[i]
  BY <1>1, AppendProperties
<1>3. length \in Nat
  BY TcpClientAssumption
<1>4. t \in Seq(Byte) /\ Len(t) = length
  BY <1>1, <1>3, AnswerType
<1>5. Answers(given') = Append(Answers(given), t)
  <2> DEFINE a == Answers(given)
             b == Answers(given')
  <2>1. /\ a \in Seq(Seq(Byte)) /\ Len(a) = l
        /\ \A n \in 1 .. l : a[n] = Answer(n, given[n])
    BY <1>1, AnswersType
  <2>2. /\ b \in Seq(Seq(Byte)) /\ Len(b) = l + 1
        /\ \A n \in 1 .. l + 1 : b[n] = Answer(n, given'[n])
    BY <1>2, AnswersType
  <2> HIDE DEF a, b, t
  <2>3. /\ Append(a, t) \in Seq(Seq(Byte)) /\ Len(Append(a, t)) = l + 1
        /\ \A n \in 1 .. l : Append(a, t)[n] = a[n]
        /\ Append(a, t)[l + 1] = t
    <3>1. Append(a, t) \in Seq(Seq(Byte))
      BY <1>4, <2>1, AppendProperties
    <3>2. Len(Append(a, t)) = l + 1
      BY <1>4, <2>1, AppendProperties
    <3>3. Append(a, t)[l + 1] = t
      BY <1>4, <2>1, AppendProperties
    <3>4. \A n \in 1 .. l : Append(a, t)[n] = a[n]
      BY <1>4, <2>1, AppendProperties
    <3> QED
      BY <3>1, <3>2, <3>3, <3>4
  <2>4. ASSUME NEW n \in 1 .. l + 1 PROVE b[n] = Append(a, t)[n]
    <3>1. CASE n = l + 1
      BY <1>2, <2>2, <2>3, <3>1 DEF t
    <3>2. CASE n # l + 1
      <4>1. n \in 1 .. l
        BY <1>1, <3>2
      <4> QED
        BY <1>2, <2>1, <2>2, <2>3, <4>1
    <3> QED
      BY <3>1, <3>2
  <2>5. b = Append(a, t)
    BY <2>2, <2>3, <2>4, SeqEqual
  <2> QED
    BY <2>5 DEF a, b
<1>6. Said = FlattenSeq(Answers(given)) /\ Said' = FlattenSeq(Answers(given'))
  BY DEF Said, Answers
<1>7. Answers(given) \in Seq(Seq(Byte)) /\ Len(Answers(given)) = l
  BY <1>1, AnswersType
<1>8. Answers(given) # << >>
  BY <1>1, <1>7
<1> HIDE DEF t
<1>9. Said \in Seq(Byte) /\ Said' = Said \o t
  BY <1>4, <1>5, <1>6, <1>7, <1>8, FlattenAppend
<1>10. Said \o t \in Seq(Byte) /\ Len(Said \o t) = Len(Said) + length
  BY <1>4, <1>9, ConcatProperties
<1> QED
  BY <1>9, <1>10 DEF t

\* At any time what was said is a text.
LEMMA SaidType == TypeInv => Said \in Seq(Byte)
<1> SUFFICES ASSUME TypeInv PROVE Said \in Seq(Byte)
  OBVIOUS
<1>1. given \in Seq(0 .. BufSize) /\ given # << >>
  BY DEF TypeInv
<1>2. Answers(given) \in Seq(Seq(Byte)) /\ Len(Answers(given)) = Len(given)
  BY <1>1, AnswersType
<1>3. Answers(given) # << >> /\ << >> \in Seq(Byte)
  BY <1>1, <1>2
<1>4. Said = FlattenSeq(Answers(given))
  BY DEF Said, Answers
<1> QED
  BY <1>2, <1>3, <1>4, FlattenAppend

\* The first answer is all there is at first.
LEMMA SaidOne ==
    ASSUME NEW length \in 0 .. BufSize, given = << length >>
    PROVE  Said = Answer(1, length) /\ Said \in Seq(Byte) /\ Len(Said) = length
<1>1. given \in Seq(0 .. BufSize) /\ Len(given) = 1 /\ given[1] = length
  OBVIOUS
<1>2. length \in Nat /\ 1 \in Nat
  BY TcpClientAssumption
<1>3. Answers(given) \in Seq(Seq(Byte)) /\ Len(Answers(given)) = 1
      /\ Answers(given)[1] = Answer(1, length)
  <2>1. Answers(given) \in Seq(Seq(Byte)) /\ Len(Answers(given)) = Len(given)
    BY <1>1, AnswersType
  <2>2. \A n \in 1 .. Len(given) : Answers(given)[n] = Answer(n, given[n])
    BY <1>1, AnswersType
  <2>3. 1 \in 1 .. Len(given)
    BY <1>1
  <2>4. Answers(given)[1] = Answer(1, given[1])
    BY <2>2, <2>3
  <2> QED
    BY <1>1, <2>1, <2>4
<1>4. Answers(given) # << >>
  BY <1>3
<1>5. Said = FlattenSeq(Answers(given))
  BY DEF Said, Answers
<1>6. Said = Answer(1, length)
  BY <1>3, <1>4, <1>5, FlattenOne
<1> QED
  BY <1>2, <1>6, AnswerType

----------------------------------------------------------------------------
\* Every text is a beginning of itself with more behind it.
LEMMA PrefixOfConcat ==
    ASSUME NEW s \in Seq(Byte), NEW t \in Seq(Byte)
    PROVE  IsPrefix(s, s \o t)
<1> DEFINE l == Len(s)
           both == s \o t
<1>1. /\ both \in Seq(Byte) /\ Len(both) = l + Len(t) /\ l \in Nat /\ Len(t) \in Nat
      /\ \A i \in 1 .. l : both[i] = s[i]
  BY ConcatProperties
<1>2. \A i \in 1 .. l : both[i] \in Byte
  BY <1>1
<1> HIDE DEF l, both
<1>3. /\ SubSeq(both, 1, l) \in Seq(Byte) /\ Len(SubSeq(both, 1, l)) = l
      /\ \A i \in 1 .. l : SubSeq(both, 1, l)[i] = both[i]
  <2>1. 1 \in Int /\ l \in Int /\ (1 <= l => l - 1 + 1 = l) /\ (~(1 <= l) => l = 0)
    BY <1>1
  <2>2. /\ SubSeq(both, 1, l) \in Seq(Byte)
        /\ Len(SubSeq(both, 1, l)) = IF 1 <= l THEN l - 1 + 1 ELSE 0
        /\ \A i \in 1 .. l - 1 + 1 : SubSeq(both, 1, l)[i] = both[1 + i - 1]
    BY <1>2, <2>1, SubSeqProperties
  <2> QED
    BY <2>1, <2>2
<1>4. SubSeq(both, 1, l) = s
  BY <1>1, <1>3, SeqEqual DEF l
<1>5. SubSeq(s, 1, l) = s
  BY SubSeqFull DEF l
<1> QED
  BY <1>1, <1>4, <1>5 DEF IsPrefix, l, both

\* A part of the buffer is a text of its length, and two neighbours are one part.
LEMMA PartType ==
    ASSUME TypeInv, NEW a \in Nat, NEW b \in a .. BufSize
    PROVE  /\ SubSeq(m_sendBuf, a + 1, b) \in Seq(Byte)
           /\ Len(SubSeq(m_sendBuf, a + 1, b)) = b - a
           /\ \A c \in b .. BufSize :
                 SubSeq(m_sendBuf, a + 1, b) \o SubSeq(m_sendBuf, b + 1, c)
                     = SubSeq(m_sendBuf, a + 1, c)
<1>1. BufSize \in Nat /\ m_sendBuf \in Seq(Byte) /\ Len(m_sendBuf) = BufSize
  BY TcpClientAssumption DEF TypeInv
<1>2. SubSeq(m_sendBuf, a + 1, b) \in Seq(Byte) /\ Len(SubSeq(m_sendBuf, a + 1, b)) = b - a
  <2>1. \A i \in a + 1 .. b : m_sendBuf[i] \in Byte
    BY <1>1
  <2>2. a + 1 \in Int /\ b \in Int
    BY <1>1
  <2>3. /\ SubSeq(m_sendBuf, a + 1, b) \in Seq(Byte)
        /\ Len(SubSeq(m_sendBuf, a + 1, b)) = IF a + 1 <= b THEN b - (a + 1) + 1 ELSE 0
    BY <2>1, <2>2, SubSeqProperties
  <2> QED
    BY <1>1, <2>3
<1>3. ASSUME NEW c \in b .. BufSize
      PROVE  SubSeq(m_sendBuf, a + 1, b) \o SubSeq(m_sendBuf, b + 1, c)
                 = SubSeq(m_sendBuf, a + 1, c)
  <2>1. /\ a + 1 \in 1 .. Len(m_sendBuf) + 1
        /\ b \in (a + 1) - 1 .. Len(m_sendBuf)
        /\ c \in b .. Len(m_sendBuf)
    BY <1>1
  <2> QED
    BY <1>1, <2>1, ConcatAdjacentSubSeq
<1> QED
  BY <1>2, <1>3

----------------------------------------------------------------------------
\* What a connection starts with is typed.
LEMMA TypeInvStarts == Init => TypeInv
<1> SUFFICES ASSUME Init PROVE TypeInv
  OBVIOUS
<1>1. PICK length \in Lengths \ {0} :
         /\ m_sendBuf = [k \in 1 .. BufSize |-> IF k <= length THEN << 1, k >> ELSE NUL]
         /\ writes = << [length |-> length, sent |-> 0] >>
         /\ given = << length >>
  BY DEF Init
<1>2. length \in 0 .. BufSize /\ length # 0 /\ BufSize \in Nat
  BY TcpClientAssumption
<1>3. m_sendBuf \in [1 .. BufSize -> Byte]
  BY <1>1 DEF NUL, Byte
<1>4. [length |-> length, sent |-> 0] \in Outstanding
  BY <1>2 DEF Outstanding
<1>5. writes \in Seq(Outstanding)
  BY <1>1, <1>4
<1>6. given \in Seq(0 .. BufSize) /\ given # << >>
  BY <1>1, <1>2
<1>7. delivered \in Seq(Byte) /\ m_bConnected = TRUE /\ m_bFinished = FALSE /\ early = FALSE
  BY DEF Init
<1> QED
  BY <1>3, <1>5, <1>6, <1>7 DEF TypeInv

\* What Send leaves of the buffer and the writes.
LEMMA SendTyped ==
    ASSUME TypeInv, NEW length \in Lengths, Send(length)
    PROVE  /\ length \in 0 .. BufSize
           /\ m_sendBuf' \in [1 .. BufSize -> Byte]
           /\ writes' \in Seq(Outstanding)
           /\ given' \in Seq(0 .. BufSize) /\ given' # << >>
<1>1. length \in 0 .. BufSize /\ BufSize \in Nat
  BY TcpClientAssumption
<1>2. given \in Seq(0 .. BufSize) /\ Len(given) \in Nat /\ writes \in Seq(Outstanding)
  BY DEF TypeInv
<1>3. m_sendBuf' \in [1 .. BufSize -> Byte]
  BY <1>2 DEF Send, NUL, Byte
<1>4. writes' \in Seq(Outstanding)
  <2>1. CASE length = 0
    BY <1>2, <2>1 DEF Send
  <2>2. CASE length # 0
    <3>1. [length |-> length, sent |-> 0] \in Outstanding
      BY <1>1, <2>2 DEF Outstanding
    <3> QED
      BY <1>2, <2>2, <3>1 DEF Send
  <2> QED
    BY <2>1, <2>2
<1>5. given' \in Seq(0 .. BufSize) /\ given' # << >>
  BY <1>1, <1>2, AppendProperties DEF Send
<1> QED
  BY <1>1, <1>3, <1>4, <1>5

\* What a write that takes bytes leaves, and how it looks when it goes on or is over.
LEMMA WriteTakes ==
    ASSUME TypeInv, NEW i \in DOMAIN writes, NEW count \in 1 .. BufSize, Write(i, count)
    PROVE  LET w == writes[i] IN
           /\ w \in Outstanding /\ count \in Nat /\ w.sent + count <= w.length
           /\ delivered' = delivered \o SubSeq(m_sendBuf, w.sent + 1, w.sent + count)
           /\ delivered' \in Seq(Byte) /\ Len(delivered') = Len(delivered) + count
           /\ writes' \in Seq(Outstanding)
           /\ Owing(writes') = Owing(writes) - count
<1> DEFINE w == writes[i]
           part == SubSeq(m_sendBuf, w.sent + 1, w.sent + count)
<1>1. w \in Outstanding /\ writes \in Seq(Outstanding) /\ delivered \in Seq(Byte)
  BY DEF TypeInv
<1>2. /\ w.length \in Nat /\ w.sent \in Nat /\ w.length <= BufSize
      /\ count \in Nat /\ BufSize \in Nat
  BY <1>1, WriteTyped, TcpClientAssumption
<1>3. w.sent + count <= w.length /\ delivered' = delivered \o part
  BY DEF Write
<1>7. /\ w.sent + count \in w.sent .. BufSize /\ (w.sent + count) - w.sent = count
      /\ w.sent + count # w.length => w.sent + count < w.length
  <2> DEFINE taken == w.sent
             all == w.length
  <2>1. taken \in Nat /\ all \in Nat /\ all <= BufSize /\ taken + count <= all
    BY <1>2, <1>3
  <2> HIDE DEF taken, all
  <2>2. /\ taken + count \in taken .. BufSize /\ (taken + count) - taken = count
        /\ taken + count # all => taken + count < all
    BY <1>2, <2>1
  <2> QED
    BY <2>2 DEF taken, all
<1>4. part \in Seq(Byte) /\ Len(part) = count
  <2>1. SubSeq(m_sendBuf, w.sent + 1, w.sent + count) \in Seq(Byte)
    <3> HIDE DEF w
    <3> QED
      BY <1>2, <1>7, PartType
  <2>2. Len(SubSeq(m_sendBuf, w.sent + 1, w.sent + count)) = (w.sent + count) - w.sent
    <3> HIDE DEF w
    <3> QED
      BY <1>2, <1>7, PartType
  <2> QED
    BY <1>7, <2>1, <2>2
<1>5. writes' \in Seq(Outstanding) /\ Owing(writes') = Owing(writes) - count
  <2>1. CASE w.sent + count = w.length
    <3>1. writes' = RemoveAt(writes, i)
      BY <2>1 DEF Write
    <3>2. Left(w) = count
      BY <1>2, <2>1 DEF Left
    <3> QED
      BY <1>1, <3>1, <3>2, OwingRemove
  <2>2. CASE w.sent + count # w.length
    <3>1. writes[i].sent + count < writes[i].length
      BY <1>7, <2>2
    <3>2. writes' = [writes EXCEPT ![i].sent = @ + count]
      BY <2>2 DEF Write
    <3>3. [writes EXCEPT ![i].sent = @ + count] \in Seq(Outstanding)
      BY <1>1, <1>2, <3>1, OwingSends
    <3>4. Owing([writes EXCEPT ![i].sent = @ + count]) = Owing(writes) - count
      BY <1>1, <1>2, <3>1, OwingSends
    <3> QED
      BY <3>2, <3>3, <3>4
  <2> QED
    BY <2>1, <2>2
<1> HIDE DEF part
<1>6. delivered' \in Seq(Byte) /\ Len(delivered') = Len(delivered) + count
  BY <1>1, <1>3, <1>4, ConcatProperties
<1> QED
  BY <1>1, <1>2, <1>3, <1>5, <1>6 DEF part

\* Every step keeps the types.
LEMMA TypeInvKept == TypeInv /\ [Next]_vars => TypeInv'
<1> SUFFICES ASSUME TypeInv, [Next]_vars PROVE TypeInv'
  OBVIOUS
<1>0. << >> \in Seq(Outstanding) /\ BufSize \in Nat
  BY TcpClientAssumption
<1>1. ASSUME NEW length \in Lengths, OnRecive(length) PROVE TypeInv'
  <2>1. Send(length) /\ UNCHANGED << m_bConnected, m_bFinished, delivered >> /\ early' \in BOOLEAN
    BY <1>1 DEF OnRecive, TypeInv
  <2> QED
    BY <2>1, SendTyped DEF TypeInv
<1>2. CASE OnFinish
  <2>1. m_sendBuf' \in [1 .. BufSize -> Byte]
    BY <1>2 DEF OnFinish, NUL, Byte
  <2>2. given' \in Seq(0 .. BufSize) /\ given' # << >>
    <3>1. 0 \in 0 .. BufSize
      BY <1>0
    <3> QED
      BY <1>2, <3>1, AppendProperties DEF OnFinish, TypeInv
  <2> QED
    BY <1>0, <1>2, <2>1, <2>2 DEF OnFinish, Close, TypeInv
<1>3. ASSUME NEW i \in DOMAIN writes, NEW count \in 1 .. BufSize, Write(i, count)
      PROVE  TypeInv'
  <2>1. delivered' \in Seq(Byte) /\ writes' \in Seq(Outstanding)
    BY <1>3, WriteTakes
  <2> QED
    BY <1>3, <2>1 DEF Write, handler, TypeInv
<1>4. CASE Fail
  BY <1>0, <1>4 DEF Fail, Close, handler, TypeInv
<1>5. CASE UNCHANGED vars
  BY <1>5 DEF vars, handler, TypeInv
<1> QED
  BY <1>1, <1>2, <1>3, <1>4, <1>5 DEF Next

\* At every time the writes, the buffer and the histories have their types.
LEMMA TypesCorrect == Spec => []TypeInv
BY TypeInvStarts, TypeInvKept, PTL DEF Spec

----------------------------------------------------------------------------
\* To any peer, for any answers and however many writes overlap: what was said and
\* not sent is what the outstanding writes have left.
THEOREM BytesCorrect == Spec => []BytesAreCounted
<1>1. Init => BytesAreCounted
  <2> SUFFICES ASSUME Init PROVE Len(Said) - Len(delivered) = Owing(writes)
    BY DEF BytesAreCounted
  <2>1. PICK length \in Lengths \ {0} :
           writes = << [length |-> length, sent |-> 0] >> /\ given = << length >>
    BY DEF Init
  <2>2. length \in 0 .. BufSize /\ length # 0 /\ BufSize \in Nat
    BY TcpClientAssumption
  <2>3. Len(Said) = length
    BY <2>1, <2>2, SaidOne
  <2> DEFINE w == [length |-> length, sent |-> 0]
  <2>4. w \in Outstanding /\ Left(w) = length
    BY <2>2 DEF Outstanding, Left
  <2> HIDE DEF w
  <2>5. writes = Append(<< >>, w) /\ << >> \in Seq(Outstanding)
    BY <2>1, <2>4 DEF w
  <2>6. Owing(writes) = 0 + length
    BY <2>4, <2>5, OwingAppend, OwingNothing
  <2>7. Len(delivered) = 0
    BY DEF Init
  <2> QED
    BY <2>2, <2>3, <2>6, <2>7
<1>2. TypeInv /\ BytesAreCounted /\ [Next]_vars => BytesAreCounted'
  <2> SUFFICES ASSUME TypeInv, BytesAreCounted, [Next]_vars, m_bConnected'
               PROVE  Len(Said') - Len(delivered') = Owing(writes')
    BY DEF BytesAreCounted
  <2>0. Said \in Seq(Byte) /\ Len(Said) \in Nat /\ Len(delivered) \in Nat
    BY SaidType DEF TypeInv
  <2>1. ASSUME NEW length \in Lengths, OnRecive(length)
        PROVE  Len(Said') - Len(delivered') = Owing(writes')
    <3>1. Send(length) /\ m_bConnected /\ delivered' = delivered
      BY <2>1 DEF OnRecive
    <3>2. length \in 0 .. BufSize /\ length \in Nat
      BY TcpClientAssumption
    <3>3. Len(Said') = Len(Said) + length
      BY <3>1, <3>2, SaidGrows DEF Send
    <3>4. Owing(writes') = Owing(writes) + length
      <4>1. CASE length = 0
        <5>1. writes' = writes
          BY <3>1, <4>1 DEF Send
        <5>2. Len(Said) - Len(delivered) = Owing(writes)
          BY <3>1 DEF BytesAreCounted
        <5> QED
          BY <2>0, <4>1, <5>1, <5>2
      <4>2. CASE length # 0
        <5> DEFINE w == [length |-> length, sent |-> 0]
        <5>1. w \in Outstanding /\ Left(w) = length
          BY <3>2, <4>2, TcpClientAssumption DEF Outstanding, Left
        <5>2. writes' = Append(writes, w)
          BY <3>1, <4>2 DEF Send
        <5> HIDE DEF w
        <5> QED
          BY <5>1, <5>2, OwingAppend DEF TypeInv
      <4> QED
        BY <4>1, <4>2
    <3>5. Len(Said) - Len(delivered) = Owing(writes)
      BY <3>1 DEF BytesAreCounted
    <3> QED
      BY <2>0, <3>1, <3>2, <3>3, <3>4, <3>5
  <2>2. CASE OnFinish \/ Fail
    BY <2>2 DEF OnFinish, Fail, Close
  <2>3. ASSUME NEW i \in DOMAIN writes, NEW count \in 1 .. BufSize, Write(i, count)
        PROVE  Len(Said') - Len(delivered') = Owing(writes')
    <3>1. /\ Owing(writes') = Owing(writes) - count /\ Len(delivered') = Len(delivered) + count
          /\ count \in Nat
      BY <2>3, WriteTakes
    <3>2. Said' = Said /\ m_bConnected
      BY <2>3 DEF Write, handler, Said
    <3>3. Len(Said) - Len(delivered) = Owing(writes)
      BY <3>2 DEF BytesAreCounted
    <3> QED
      BY <2>0, <3>1, <3>2, <3>3
  <2>4. CASE UNCHANGED vars
    BY <2>4 DEF vars, handler, Said, BytesAreCounted
  <2> QED
    BY <2>1, <2>2, <2>3, <2>4 DEF Next
<1> QED
  BY <1>1, <1>2, TypesCorrect, PTL DEF Spec

----------------------------------------------------------------------------
\* What the outstanding write has still to send of the buffer.
Rest == SubSeq(m_sendBuf, writes[1].sent + 1, writes[1].length)

\* To a peer that waits, one write at most is outstanding, and the buffer still holds
\* what is missing of the answers; a session finishes when nothing is missing.
Waits ==
    /\ IsPrefix(delivered, Said)
    /\ m_bConnected /\ writes = << >> => delivered = Said
    /\ writes # << >> => Len(writes) = 1 /\ delivered \o Rest = Said
    /\ m_bFinished => delivered = Said

WaitsInv ==
    /\ ~m_bConnected => writes = << >>
    /\ m_bFinished => ~m_bConnected
    /\ ~early => Waits

\* The beginning of a text.
LEMMA Beginning ==
    ASSUME NEW s \in Seq(Byte), NEW l \in 0 .. Len(s)
    PROVE  /\ SubSeq(s, 1, l) \in Seq(Byte) /\ Len(SubSeq(s, 1, l)) = l
           /\ \A i \in 1 .. l : SubSeq(s, 1, l)[i] = s[i]
<1>1. \A i \in 1 .. l : s[i] \in Byte
  OBVIOUS
<1>2. 1 \in Int /\ l \in Int /\ (1 <= l => l - 1 + 1 = l) /\ (~(1 <= l) => l = 0)
  OBVIOUS
<1>3. /\ SubSeq(s, 1, l) \in Seq(Byte)
      /\ Len(SubSeq(s, 1, l)) = IF 1 <= l THEN l - 1 + 1 ELSE 0
      /\ \A i \in 1 .. l - 1 + 1 : SubSeq(s, 1, l)[i] = s[1 + i - 1]
  BY <1>1, <1>2, SubSeqProperties
<1> QED
  BY <1>2, <1>3

\* After Send, the beginning of the buffer is the answer.
LEMMA BufferHoldsAnswer ==
    ASSUME NEW n \in Nat, NEW length \in 1 .. BufSize, NEW buf,
           buf = [k \in 1 .. BufSize |-> IF k <= length THEN << n, k >> ELSE NUL]
    PROVE  SubSeq(buf, 0 + 1, length) = Answer(n, length)
<1>1. /\ BufSize \in Nat /\ length \in Nat /\ length <= BufSize /\ length \in Int
      /\ length - 1 + 1 = length /\ 1 <= length /\ 1 \in Int
  BY TcpClientAssumption
<1>2. buf \in Seq(Byte) /\ Len(buf) = BufSize
  <2>1. buf \in [1 .. BufSize -> Byte]
    BY DEF NUL, Byte
  <2> QED
    BY <1>1, <2>1
<1>3. \A k \in 1 .. length : buf[k] = << n, k >>
  BY <1>1
<1> DEFINE part == SubSeq(buf, 1, length)
<1>4. /\ part \in Seq(Byte) /\ Len(part) = length
      /\ \A k \in 1 .. length : part[k] = buf[k]
  <2>1. length \in 0 .. Len(buf)
    BY <1>1, <1>2
  <2> QED
    BY <1>2, <2>1, Beginning
<1>7. Answer(n, length) \in Seq(Byte) /\ Len(Answer(n, length)) = length
      /\ \A k \in 1 .. length : Answer(n, length)[k] = << n, k >>
  BY <1>1, AnswerType
<1>8. \A k \in 1 .. length : part[k] = Answer(n, length)[k]
  BY <1>3, <1>4, <1>7
<1> HIDE DEF part
<1>9. part = Answer(n, length)
  BY <1>4, <1>7, <1>8, SeqEqual
<1> QED
  BY <1>9 DEF part

\* Nothing is missing of the empty text and nothing is added by it.
LEMMA ConcatNothing ==
    ASSUME NEW s \in Seq(Byte)
    PROVE  s \o << >> = s /\ << >> \o s = s
BY ConcatEmptySeq

\* It does not matter which two of three texts are put together first.
LEMMA ConcatTexts ==
    ASSUME NEW r \in Seq(Byte), NEW s \in Seq(Byte), NEW t \in Seq(Byte)
    PROVE  (r \o s) \o t = r \o (s \o t)
BY ConcatAssociative

\* An answer of length 0 says nothing.
LEMMA EmptyAnswer == ASSUME NEW n \in Nat PROVE Answer(n, 0) = << >>
BY AnswerType, EmptySeq

\* The peer of a connection that was just accepted has the greeting to come.
LEMMA WaitsStarts == Init => WaitsInv
<1> SUFFICES ASSUME Init PROVE WaitsInv
  OBVIOUS
<1>1. PICK length \in Lengths \ {0} :
         /\ m_sendBuf = [k \in 1 .. BufSize |-> IF k <= length THEN << 1, k >> ELSE NUL]
         /\ writes = << [length |-> length, sent |-> 0] >>
         /\ given = << length >>
  BY DEF Init
<1>2. length \in 1 .. BufSize /\ length \in 0 .. BufSize /\ 1 \in Nat
  BY TcpClientAssumption
<1>3. Said = Answer(1, length) /\ Said \in Seq(Byte)
  BY <1>1, <1>2, SaidOne
<1>4. Len(writes) = 1 /\ writes[1].sent = 0 /\ writes[1].length = length /\ writes # << >>
  BY <1>1
<1>5. Rest = Said
  <2>1. SubSeq(m_sendBuf, 0 + 1, length) = Answer(1, length)
    BY <1>1, <1>2, BufferHoldsAnswer
  <2> QED
    BY <1>3, <1>4, <2>1 DEF Rest
<1>6. delivered = << >> /\ m_bConnected = TRUE /\ m_bFinished = FALSE /\ << >> \in Seq(Byte)
  BY DEF Init
<1>7. delivered \o Rest = Said
  BY <1>3, <1>5, <1>6, ConcatNothing
<1>8. IsPrefix(delivered, Said)
  BY <1>3, <1>5, <1>6, <1>7, PrefixOfConcat
<1> QED
  BY <1>4, <1>6, <1>7, <1>8 DEF WaitsInv, Waits

\* A peer that has all that was said, and is given an answer, has just that answer to come.
LEMMA WaitsAfterSend ==
    ASSUME TypeInv, WaitsInv, NEW length \in Lengths, OnRecive(length)
    PROVE  WaitsInv'
<1> DEFINE n == Len(given) + 1
<1>1. /\ Send(length) /\ m_bConnected /\ m_bConnected' = m_bConnected
      /\ m_bFinished' = m_bFinished /\ delivered' = delivered
      /\ ~early' => ~early /\ writes = << >>
  BY DEF OnRecive
<1>2. ~m_bFinished
  BY <1>1 DEF WaitsInv
<1>3. SUFFICES ASSUME ~early' PROVE Waits'
  BY <1>1, <1>2 DEF WaitsInv
<1>4. delivered = Said /\ writes = << >>
  BY <1>1, <1>3 DEF WaitsInv, Waits
<1>5. length \in 0 .. BufSize /\ length \in Nat /\ n \in Nat
  BY TcpClientAssumption DEF TypeInv
<1>6. Said \in Seq(Byte) /\ Said' = Said \o Answer(n, length) /\ Answer(n, length) \in Seq(Byte)
  <2>1. given' = Append(given, length)
    BY <1>1 DEF Send
  <2>2. Said \in Seq(Byte) /\ Said' = Said \o Answer(n, length)
    BY <1>5, <2>1, SaidGrows
  <2> QED
    BY <1>5, <2>2, AnswerType
<1> HIDE DEF n
<1>7. IsPrefix(delivered', Said')
  BY <1>1, <1>4, <1>6, PrefixOfConcat
<1>8. CASE length = 0
  <2>1. Said' = Said
    BY <1>5, <1>6, <1>8, EmptyAnswer, ConcatNothing
  <2>2. writes' = << >>
    BY <1>1, <1>4, <1>8 DEF Send
  <2> QED
    BY <1>1, <1>2, <1>4, <1>7, <2>1, <2>2 DEF Waits
<1>9. CASE length # 0
  <2>1. writes' = << [length |-> length, sent |-> 0] >>
    BY <1>1, <1>4, <1>9 DEF Send
  <2>2. /\ Len(writes') = 1 /\ writes' # << >>
        /\ writes'[1].sent = 0 /\ writes'[1].length = length
    BY <2>1
  <2>3. SubSeq(m_sendBuf', 0 + 1, length) = Answer(n, length)
    <3>1. length \in 1 .. BufSize
      BY <1>5, <1>9
    <3>2. m_sendBuf' = [k \in 1 .. BufSize |-> IF k <= length THEN << n, k >> ELSE NUL]
      BY <1>1 DEF Send, n
    <3> QED
      BY <1>5, <3>1, <3>2, BufferHoldsAnswer
  <2>4. Rest' = Answer(n, length)
    BY <2>2, <2>3 DEF Rest
  <2>5. delivered' \o Rest' = Said'
    BY <1>1, <1>4, <1>6, <2>4
  <2> QED
    BY <1>1, <1>2, <1>7, <2>2, <2>5 DEF Waits
<1> QED
  BY <1>8, <1>9

\* The write takes the next bytes of what is missing, and is over with the last of them.
LEMMA WaitsAfterWrite ==
    ASSUME TypeInv, WaitsInv,
           NEW i \in DOMAIN writes, NEW count \in 1 .. BufSize, Write(i, count)
    PROVE  WaitsInv'
<1> DEFINE w == writes[i]
           part == SubSeq(m_sendBuf, w.sent + 1, w.sent + count)
           rest == SubSeq(m_sendBuf, (w.sent + count) + 1, w.length)
<1>1. /\ m_bConnected' = m_bConnected /\ m_bFinished' = m_bFinished /\ early' = early
      /\ m_sendBuf' = m_sendBuf /\ Said' = Said /\ writes \in Seq(Outstanding)
  BY DEF Write, handler, Said, TypeInv
<1>2. writes # << >>
  BY <1>1
<1>3. m_bConnected /\ ~m_bFinished
  BY <1>2 DEF WaitsInv
<1>4. SUFFICES ASSUME ~early PROVE Waits'
  BY <1>1, <1>3 DEF WaitsInv
<1>5. Len(writes) = 1 /\ delivered \o Rest = Said
  BY <1>2, <1>4 DEF WaitsInv, Waits
<1>6. i = 1 /\ writes = << w >>
  BY <1>1, <1>5
<1>7. /\ w \in Outstanding /\ w.length \in Nat /\ w.sent \in Nat /\ w.length <= BufSize
      /\ count \in Nat /\ BufSize \in Nat
  BY <1>1, WriteTyped, TcpClientAssumption
<1>8. w.sent + count <= w.length /\ delivered' = delivered \o part /\ delivered \in Seq(Byte)
  BY DEF Write, TypeInv
<1>9. part \in Seq(Byte) /\ rest \in Seq(Byte) /\ part \o rest = Rest
  <2> DEFINE sent == w.sent
             upto == w.sent + count
             all == w.length
  <2>1. /\ sent \in Nat /\ upto \in Nat /\ all \in Nat /\ upto \in sent .. BufSize
        /\ all \in upto .. BufSize
    <3>1. \A a, b \in Nat : a + count <= b /\ b <= BufSize =>
              /\ a + count \in Nat /\ a + count \in a .. BufSize /\ b \in (a + count) .. BufSize
      BY <1>7
    <3> HIDE DEF w
    <3> QED
      BY <1>7, <1>8, <3>1
  <2> HIDE DEF sent, upto, all
  <2>2. /\ SubSeq(m_sendBuf, sent + 1, upto) \in Seq(Byte)
        /\ SubSeq(m_sendBuf, upto + 1, all) \in Seq(Byte)
    BY <2>1, PartType
  <2>3. SubSeq(m_sendBuf, sent + 1, upto) \o SubSeq(m_sendBuf, upto + 1, all)
            = SubSeq(m_sendBuf, sent + 1, all)
    BY <2>1, PartType
  <2> QED
    BY <1>6, <2>2, <2>3 DEF Rest, sent, upto, all
<1> HIDE DEF part, rest
<1>10. delivered' \o rest = Said /\ delivered' \in Seq(Byte)
  <2>1. (delivered \o part) \o rest = delivered \o (part \o rest)
    <3>1. part \in Seq(Byte) /\ rest \in Seq(Byte) /\ delivered \in Seq(Byte)
      BY <1>8, <1>9
    <3> QED
      BY <3>1, ConcatTexts
  <2>2. delivered \o part \in Seq(Byte)
    BY <1>8, <1>9, ConcatProperties
  <2> QED
    BY <1>5, <1>8, <1>9, <2>1, <2>2
<1>11. IsPrefix(delivered', Said')
  BY <1>1, <1>9, <1>10, PrefixOfConcat
<1>12. CASE w.sent + count = w.length
  <2>1. writes' = << >>
    <3>1. writes' = RemoveAt(writes, i)
      BY <1>12 DEF Write
    <3>2. RemoveAt(writes, i) \in Seq(Outstanding) /\ Len(RemoveAt(writes, i)) = Len(writes) - 1
      BY <1>1, OwingRemove
    <3>3. \A s \in Seq(Outstanding) : Len(s) = 0 => s = << >>
      BY EmptySeq
    <3> QED
      BY <1>5, <3>1, <3>2, <3>3
  <2>2. rest = << >>
    <3>1. \A a \in Nat : SubSeq(m_sendBuf, a + 1, a) = << >>
      BY SubSeqEmpty
    <3> QED
      BY <1>7, <1>12, <3>1 DEF rest
  <2>3. delivered' = Said'
    BY <1>1, <1>10, <2>2, ConcatNothing
  <2> QED
    BY <1>11, <2>1, <2>3 DEF Waits
<1>13. CASE w.sent + count # w.length
  <2>1. writes' = [writes EXCEPT ![i].sent = @ + count]
    BY <1>13 DEF Write
  <2>2. /\ Len(writes') = 1 /\ writes' # << >>
        /\ writes'[1].sent = w.sent + count /\ writes'[1].length = w.length
    <3>1. w \in [length : 1 .. BufSize, sent : 0 .. BufSize]
      BY <1>7 DEF Outstanding
    <3>2. writes' = << [w EXCEPT !.sent = w.sent + count] >>
      BY <1>6, <2>1
    <3>3. /\ [w EXCEPT !.sent = w.sent + count].sent = w.sent + count
          /\ [w EXCEPT !.sent = w.sent + count].length = w.length
      BY <3>1
    <3> DEFINE v == [w EXCEPT !.sent = w.sent + count]
    <3> HIDE DEF v
    <3>4. writes' = << v >>
      BY <3>2 DEF v
    <3>5. Len(writes') = 1 /\ writes' # << >> /\ writes'[1] = v
      BY <3>4
    <3> QED
      BY <3>3, <3>5 DEF v
  <2>3. Rest' = rest
    BY <1>1, <2>2 DEF Rest, rest
  <2>4. delivered' \o Rest' = Said'
    BY <1>1, <1>10, <2>3
  <2>5. ~m_bFinished'
    BY <1>1, <1>3
  <2> QED
    BY <1>11, <2>2, <2>4, <2>5 DEF Waits
<1> QED
  BY <1>12, <1>13

\* No step takes anything from a peer that waits.
LEMMA WaitsKept == TypeInv /\ WaitsInv /\ [Next]_vars => WaitsInv'
<1> SUFFICES ASSUME TypeInv, WaitsInv, [Next]_vars PROVE WaitsInv'
  OBVIOUS
<1>1. ASSUME NEW length \in Lengths, OnRecive(length) PROVE WaitsInv'
  BY <1>1, WaitsAfterSend
<1>2. CASE OnFinish
  <2>1. /\ m_bConnected /\ m_bConnected' = FALSE /\ writes' = << >> /\ delivered' = delivered
        /\ given' = Append(given, 0)
        /\ ~early' => ~early /\ writes = << >>
    BY <1>2 DEF OnFinish, Close
  <2>2. SUFFICES ASSUME ~early' PROVE Waits'
    BY <2>1 DEF WaitsInv
  <2>3. delivered = Said /\ IsPrefix(delivered, Said)
    <3>1. m_bConnected /\ ~early /\ writes = << >>
      BY <2>1, <2>2
    <3> QED
      BY <3>1 DEF WaitsInv, Waits
  <2>4. Said' = Said
    <3> DEFINE n == Len(given) + 1
               none == 0
    <3>1. none \in 0 .. BufSize /\ n \in Nat /\ given' = Append(given, none)
      BY <2>1, TcpClientAssumption DEF TypeInv
    <3> HIDE DEF none
    <3>2. Said \in Seq(Byte) /\ Said' = Said \o Answer(n, none)
      BY <3>1, SaidGrows
    <3> HIDE DEF n
    <3>3. Answer(n, none) = << >>
      BY <3>1, EmptyAnswer DEF none
    <3> QED
      BY <3>2, <3>3, ConcatNothing
  <2> QED
    BY <2>1, <2>3, <2>4 DEF Waits
<1>3. ASSUME NEW i \in DOMAIN writes, NEW count \in 1 .. BufSize, Write(i, count)
      PROVE  WaitsInv'
  BY <1>3, WaitsAfterWrite
<1>4. CASE Fail
  BY <1>4 DEF Fail, Close, handler, WaitsInv, Waits, Said
<1>5. CASE UNCHANGED vars
  BY <1>5 DEF vars, handler, WaitsInv, Waits, Said, Rest
<1> QED
  BY <1>1, <1>2, <1>3, <1>4, <1>5 DEF Next

\* A peer that waits for each answer is sent the answers whole and in order, for any
\* answers that fit the buffer and any parts asio sends them in.
THEOREM AnswersCorrect == Spec => []AnswersArriveWhole
<1>1. WaitsInv => AnswersArriveWhole
  BY DEF WaitsInv, Waits, AnswersArriveWhole
<1> QED
  BY <1>1, WaitsStarts, WaitsKept, TypesCorrect, PTL DEF Spec

\* When the handler's last callback closes the connection, such a peer has been sent all.
THEOREM FinishedCorrect == Spec => []FinishedWasToldAll
<1>1. WaitsInv => FinishedWasToldAll
  BY DEF WaitsInv, Waits, FinishedWasToldAll
<1> QED
  BY <1>1, WaitsStarts, WaitsKept, TypesCorrect, PTL DEF Spec

=============================================================================
